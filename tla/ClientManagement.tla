-------------------------- MODULE ClientManagement --------------------------
(***************************************************************************)
(* The page that approves enrolments and revokes devices (ClientsPanel),   *)
(* on the two hooks of every management page: useManagementActions, which  *)
(* owns a mutation by the keys of what it changes and locks those keys     *)
(* when its outcome is unknown, and useManagementRefresh, whose reads are  *)
(* applied section by section and only by the latest generation.  A        *)
(* request the page gave up may still be on its way to the server.         *)
(***************************************************************************)
EXTENDS Naturals, FiniteSets

CONSTANTS
  Enrollment,   \* pending enrolments
  Client,       \* paired devices
  NoTarget,     \* an approval that creates a new device
  MaxActs,      \* bound: mutations of this page
  MaxOthers     \* bound: mutations of other administrators

VARIABLES
  server,    \* enrolments and devices at the server
  shown,     \* the lists on the page
  phase,     \* what the page says of a key ("none", or a phase)
  owner,     \* the mutation or check that owns a key (0: none)
  wire,      \* requests that are somewhere between page and server
  reads,     \* the refresh in flight, by section
  checking,  \* the read-only check in flight
  attempts,  \* the device each enrolment was last to replace
  confirmed, \* history: enrolments whose approval by this page was confirmed
  late,      \* history: a forgotten request took effect after a later one
  acts, others

Key     == Enrollment \cup Client
Section == {"enrollments", "clients"}

page == <<shown, phase, owner>>
memo == <<attempts, confirmed>>
vars == <<server, page, wire, reads, checking, memo, late, acts, others>>

\* The server in the beginning; also what a read holds before it has read.
Fresh == [enrollments |-> [e \in Enrollment |-> "pending"],
          clients     |-> [c \in Client |-> "active"]]
NoRead  == [at |-> "idle", copy |-> Fresh]
NoCheck == [key |-> NoTarget, at |-> "idle", copy |-> Fresh]

Init ==
  /\ server = Fresh /\ shown = Fresh
  /\ phase = [k \in Key |-> "none"] /\ owner = [k \in Key |-> 0]
  /\ wire = {}
  /\ reads = [s \in Section |-> NoRead] /\ checking = NoCheck
  /\ attempts = [e \in Enrollment |-> NoTarget] /\ confirmed = {}
  /\ late = FALSE /\ acts = 0 /\ others = 0

-----------------------------------------------------------------------------
(* useManagementActions *)

\* A key is locked while it is owned and while its outcome is unknown.
blocked(k) == owner[k] # 0 \/ phase[k] = "unknown"

\* The keys of a request: what it was sent for, and what it changes besides.
Keys(r) == {r.key, r.related} \ {NoTarget}

\* useManagementRefresh.cancel: no read in flight is applied any more.
keepReads == UNCHANGED reads
cancelReads == reads' = [s \in Section |-> NoRead]

\* run(): own the keys, cancel the refresh, send.
Run(k, related, kind) ==
  LET r == [id |-> acts + 1, key |-> k, related |-> related, kind |-> kind,
            at |-> "sent", watched |-> TRUE]
  IN /\ acts < MaxActs /\ acts' = acts + 1
     /\ \A x \in Keys(r) : ~blocked(x)
     /\ wire' = wire \cup {r}
     /\ owner' = [x \in Key |-> IF x \in Keys(r) THEN r.id ELSE owner[x]]
     /\ phase' = [phase EXCEPT ![k] = "pending"]
     /\ cancelReads
     /\ UNCHANGED <<server, shown, checking, confirmed, late, others>>

\* approve(): the enrolment is shown as pending, a device to be replaced is
\* shown as active, and no conflict waits to be looked at.
Approve(e, target) ==
  /\ shown.enrollments[e] = "pending" /\ phase[e] # "conflict"
  /\ target \in Client => shown.clients[target] = "active"
  /\ attempts' = [attempts EXCEPT ![e] = target]
  /\ Run(e, target, "approve")

revoke(c) ==
  /\ shown.clients[c] = "active" /\ UNCHANGED attempts
  /\ Run(c, NoTarget, "revoke")

\* `finally`: the keys that this mutation still owns are free.
FreedKey(r) == [owner EXCEPT ![r.key] = 0]
Freed(r) == [x \in Key |-> IF owner[x] = r.id THEN 0 ELSE owner[x]]

\* It was done: reads begun meanwhile are cancelled, the row is updated.
Confirmed(r) ==
  /\ r \in wire /\ r.watched /\ r.at = "done"
  /\ wire' = wire \ {r} /\ owner' = Freed(r)
  /\ phase' = [phase EXCEPT ![r.key] = "none"]
  /\ shown' = IF r.kind = "approve" THEN [shown EXCEPT !.enrollments[r.key] = "approved"]
                                    ELSE [shown EXCEPT !.clients[r.key] = "revoked"]
  /\ cancelReads
  /\ confirmed' = confirmed \cup ({r.key} \cap Enrollment)
  /\ UNCHANGED <<server, checking, attempts, late, acts, others>>

\* It was refused: the page says so; the person looks before trying again.
Rejected(r) ==
  /\ r \in wire /\ r.watched /\ r.at = "refused"
  /\ wire' = wire \ {r} /\ owner' = Freed(r)
  /\ phase' = [phase EXCEPT ![r.key] = "conflict"]
  /\ UNCHANGED <<server, shown, reads, checking, memo, late, acts, others>>

\* No answer in 20 s, a lost answer or a 5xx: the outcome is unknown and the
\* keys stay locked.  The request itself may still arrive.
GivesUpOpen(r) ==
  /\ r \in wire /\ r.watched
  /\ wire' = (wire \ {r}) \cup (IF r.at = "sent" THEN {[r EXCEPT !.watched = FALSE]} ELSE {})
  /\ owner' = Freed(r)
  /\ phase' = [phase EXCEPT ![r.key] = "conflict"]
  /\ UNCHANGED <<server, shown, reads, checking, memo, late, acts, others>>
GivesUp(r) ==
  /\ r \in wire /\ r.watched
  /\ wire' = (wire \ {r}) \cup (IF r.at = "sent" THEN {[r EXCEPT !.watched = FALSE]} ELSE {})
  /\ owner' = Freed(r)
  /\ phase' = [k \in Key |-> IF k \in Keys(r) THEN "unknown" ELSE phase[k]]
  /\ UNCHANGED <<server, shown, reads, checking, memo, late, acts, others>>

\* A conflict is cleared once the lists were read again.
Clear(k) ==
  /\ phase[k] = "conflict" /\ owner[k] = 0
  /\ phase' = [phase EXCEPT ![k] = "none"]
  /\ UNCHANGED <<server, shown, owner, wire, reads, checking, memo, late, acts, others>>

-----------------------------------------------------------------------------
(* reconcile(): a read-only check of an unknown outcome *)

ReconcileAsks(k) ==
  /\ phase[k] = "unknown" /\ owner[k] = 0 /\ checking.at = "idle"
  /\ owner' = [owner EXCEPT ![k] = MaxActs + 1]
  /\ phase' = [phase EXCEPT ![k] = "pending"]
  /\ checking' = [NoCheck EXCEPT !.key = k, !.at = "asked"]
  /\ UNCHANGED <<server, shown, wire, reads, memo, late, acts, others>>

ReconcileReads ==
  /\ checking.at = "asked" /\ checking' = [checking EXCEPT !.at = "read", !.copy = server]
  /\ UNCHANGED <<server, page, wire, reads, memo, late, acts, others>>

\* The same enrolment reads as approved, the same device as revoked.
Resolved(k, copy) ==
  IF k \in Enrollment THEN copy.enrollments[k] = "approved" ELSE copy.clients[k] = "revoked"

\* The key and what its mutation had locked besides it are free if that
\* resolves it; otherwise they stay locked.  What was read is shown.
ReconcileAnswers ==
  /\ checking.at = "read"
  /\ LET k == checking.key
         related  == IF k \in Enrollment THEN attempts[k] ELSE NoTarget
         resolved == Resolved(k, checking.copy)
     IN /\ owner' = [owner EXCEPT ![k] = 0]
        /\ phase' = [x \in Key |-> IF x = k THEN (IF resolved THEN "none" ELSE "unknown")
                                   ELSE IF x = related /\ resolved THEN "none" ELSE phase[x]]
        /\ shown' = IF k \in Enrollment
                    THEN [shown EXCEPT !.enrollments[k] = checking.copy.enrollments[k]]
                    ELSE [shown EXCEPT !.clients = checking.copy.clients]
  /\ checking' = NoCheck
  /\ UNCHANGED <<server, wire, reads, memo, late, acts, others>>

ReconcileFailsHeld ==
  /\ checking.at \in {"asked", "read"} /\ checking' = NoCheck
  /\ UNCHANGED <<server, page, wire, reads, memo, late, acts, others>>
ReconcileFails ==
  /\ checking.at \in {"asked", "read"}
  /\ owner' = [owner EXCEPT ![checking.key] = 0]
  /\ phase' = [phase EXCEPT ![checking.key] = "unknown"]
  /\ checking' = NoCheck
  /\ UNCHANGED <<server, shown, wire, reads, memo, late, acts, others>>

-----------------------------------------------------------------------------
(* The lists: polled every 5 s and after each mutation *)

Refresh ==
  /\ \A s \in Section : reads[s].at = "idle"
  /\ shown # server
  /\ reads' = [s \in Section |-> [NoRead EXCEPT !.at = "asked"]]
  /\ UNCHANGED <<server, page, wire, checking, memo, late, acts, others>>

SectionReads(s) ==
  /\ reads[s].at = "asked"
  /\ reads' = [reads EXCEPT ![s] = [at |-> "read", copy |-> [Fresh EXCEPT ![s] = server[s]]]]
  /\ UNCHANGED <<server, page, wire, checking, memo, late, acts, others>>

SectionAppliesFirst(s) ==
  /\ reads[s].at = "read"
  /\ shown' = [shown EXCEPT ![s] = reads[s].copy[s]] /\ cancelReads
  /\ UNCHANGED <<server, phase, owner, wire, checking, memo, late, acts, others>>
SectionApplies(s) ==
  /\ reads[s].at = "read"
  /\ shown' = [shown EXCEPT ![s] = reads[s].copy[s]]
  /\ reads' = [reads EXCEPT ![s] = NoRead]
  /\ UNCHANGED <<server, phase, owner, wire, checking, memo, late, acts, others>>

-----------------------------------------------------------------------------
(* The server *)

\* An enrolment is approved once, for an active device if it replaces one; a
\* device is revoked however often it is asked.
Accepts(kind, key, related) ==
  IF kind = "approve"
  THEN /\ server.enrollments[key] = "pending"
       /\ related \in Client => server.clients[related] = "active"
  ELSE TRUE
Effect(kind, key) ==
  IF kind = "approve" THEN [server EXCEPT !.enrollments[key] = "approved"]
                      ELSE [server EXCEPT !.clients[key] = "revoked"]

\* It took effect although the page has since finished another one for the
\* same enrolment or device.
Overtaken(r) == \E k \in Keys(r) : phase[k] \in {"none", "conflict"} \/ owner[k] \in (r.id + 1)..MaxActs

Handles(r) ==
  /\ r \in wire /\ r.at = "sent"
  /\ LET accepted == Accepts(r.kind, r.key, r.related)
     IN /\ server' = IF accepted THEN Effect(r.kind, r.key) ELSE server
        /\ wire' = (wire \ {r}) \cup
             (IF r.watched THEN {[r EXCEPT !.at = IF accepted THEN "done" ELSE "refused"]} ELSE {})
        /\ late' = (late \/ (~r.watched /\ accepted /\ server' # server /\ Overtaken(r)))
  /\ UNCHANGED <<page, reads, checking, memo, acts, others>>

OtherAdministrator(kind, key) ==
  /\ others < MaxOthers /\ others' = others + 1
  /\ Accepts(kind, key, NoTarget) /\ Effect(kind, key) # server
  /\ server' = Effect(kind, key)
  /\ UNCHANGED <<page, wire, reads, checking, memo, late, acts>>

-----------------------------------------------------------------------------
Mutation == \E r \in wire : Confirmed(r) \/ Rejected(r) \/ GivesUp(r)
Reading  == Refresh \/ \E s \in Section : SectionReads(s) \/ SectionApplies(s)

Next ==
  \/ \E e \in Enrollment, t \in Client \cup {NoTarget} : Approve(e, t)
  \/ \E c \in Client : revoke(c) \/ OtherAdministrator("revoke", c)
  \/ \E e \in Enrollment : OtherAdministrator("approve", e)
  \/ \E r \in wire : Handles(r)
  \/ Mutation \/ Reading
  \/ \E k \in Key : Clear(k) \/ ReconcileAsks(k)
  \/ ReconcileReads \/ ReconcileAnswers \/ ReconcileFails

Spec == Init /\ [][Next]_vars

\* withRequestTimeout ends every mutation and every check; the poll repeats.
FairSpec ==
  /\ Spec
  /\ WF_vars(Mutation) /\ WF_vars(Reading)
  /\ WF_vars(ReconcileAnswers \/ ReconcileFails)

-----------------------------------------------------------------------------
(* Properties *)

\* What the lists, requests, keys, reads and checks are.
Lists == [enrollments : [Enrollment -> {"pending", "approved"}],
          clients     : [Client -> {"active", "revoked"}]]
Requests == [id : 1..MaxActs, key : Key, related : Client \cup {NoTarget},
             kind : {"approve", "revoke"}, at : {"sent", "done", "refused"}, watched : BOOLEAN]
TypeOK ==
  /\ server \in Lists /\ shown \in Lists /\ acts \in 0..MaxActs
  /\ phase \in [Key -> {"none", "pending", "unknown", "conflict"}]
  /\ owner \in [Key -> 0..(MaxActs + 1)]
  /\ wire \subseteq Requests
  /\ reads \in [Section -> [at : {"idle", "asked", "read"}, copy : Lists]]
  /\ checking \in [key : Key \cup {NoTarget}, at : {"idle", "asked", "read"}, copy : Lists]
  /\ attempts \in [Enrollment -> Client \cup {NoTarget}] /\ confirmed \subseteq Enrollment

\* Requests are told apart by their numbers; an approval is of an enrolment,
\* for the device it was last tried for; what the page gave up was not
\* answered, and what was done is done at the server.
RequestsKnown ==
  /\ \A r \in wire :
       /\ r.id <= acts
       /\ r.watched \/ r.at = "sent"
       /\ IF r.kind = "approve" THEN r.key \in Enrollment
                                ELSE r.key \in Client /\ r.related = NoTarget
       /\ (r.kind = "approve" /\ r.watched) => attempts[r.key] = r.related
       /\ (r.kind = "approve" /\ r.at = "done") => server.enrollments[r.key] = "approved"
  /\ \A r, q \in wire : r.id = q.id => r = q

\* What is owned by a mutation is on its way, and what is on its way and
\* watched is owned; what is pending is owned, but not for another key, and
\* what is checked is owned by the check.
KeysOwned ==
  /\ \A k \in Key : owner[k] \in 1..MaxActs =>
       \E r \in wire : r.id = owner[k] /\ r.watched /\ k \in Keys(r)
  /\ \A r \in wire : r.watched => \A k \in Keys(r) : owner[k] = r.id
  /\ \A k \in Key : phase[k] = "pending" => owner[k] # 0
  /\ \A r \in wire : (r.watched /\ r.related # NoTarget) => phase[r.related] \notin {"pending", "unknown"}
  /\ checking.at # "idle" =>
       checking.key \in Key /\ owner[checking.key] = MaxActs + 1 /\ phase[checking.key] = "pending"

\* A request has no effect any more once its enrolment is approved or its
\* device revoked; the page has locked a key whose outcome it calls unknown,
\* or checks.
Spent(r) ==
  IF r.kind = "approve"
  THEN \/ server.enrollments[r.key] = "approved"
       \/ r.related \in Client /\ server.clients[r.related] = "revoked"
  ELSE server.clients[r.key] = "revoked"
Open(r) == ~r.watched /\ ~Spent(r)
Locked(k) == phase[k] \in {"unknown", "pending"} /\ owner[k] \in {0, MaxActs + 1}

\* The keys of a request that was given up and can still take effect are
\* locked.
OpenLocked == \A r \in wire : Open(r) => \A k \in Keys(r) : Locked(k)

\* A check that frees the device an enrolment was to replace frees nothing
\* of another request: the device is locked for that enrolment alone, or
\* revoked.
Awaited(e) == phase[e] = "unknown" \/ (checking.at # "idle" /\ checking.key = e)
Waits(e, c) == Awaited(e) /\ attempts[e] = c /\ server.clients[c] = "active"
AwaitedAlone == \A e \in Enrollment, c \in Client : Waits(e, c) =>
  /\ Locked(c)
  /\ \A r \in wire : (Open(r) /\ c \in Keys(r)) => r.key = e
  /\ \A x \in Enrollment : Waits(x, c) => x = e

\* What a check read as approved or revoked is so at the server.
CheckTrue == checking.at = "read" =>
  /\ \A e \in Enrollment : checking.copy.enrollments[e] = "approved" => server.enrollments[e] = "approved"
  /\ \A c \in Client : checking.copy.clients[c] = "revoked" => server.clients[c] = "revoked"

\* A confirmed approval: nothing is pending for it, and what is shown, read
\* and kept at the server has it.
ConfirmedKnown == \A e \in confirmed :
  /\ phase[e] = "none" /\ owner[e] = 0
  /\ shown.enrollments[e] = "approved" /\ server.enrollments[e] = "approved"
  /\ reads["enrollments"].at = "read" => reads["enrollments"].copy.enrollments[e] = "approved"

\* Together they are inductive, and give the two properties below.
ManagementInv ==
  /\ TypeOK /\ RequestsKnown /\ KeysOwned /\ OpenLocked /\ AwaitedAlone
  /\ CheckTrue /\ ConfirmedKnown /\ ~late

\* useManagementActions.ts:57-60: "结果尚未确认 ... 勿重复提交": a request whose
\* outcome the page no longer calls unknown never takes effect afterwards.
NoLateEffect == ~late

\* useManagementActions.ts:45: an approval that was confirmed is not undone on
\* the page by a list that was read before it.
ConfirmedStays == \A e \in confirmed : shown.enrollments[e] = "approved"

\* useManagementActions.ts:43, 72: nothing is "in progress" for ever.
InProgress(k) == phase[k] = "pending"

\* useVisiblePolling, useManagementRefresh: once everything has come to rest,
\* the page shows what the server has.
CaughtUp == shown = server
=============================================================================
