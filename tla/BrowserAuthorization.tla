------------------------ MODULE BrowserAuthorization ------------------------
(***************************************************************************)
(* What a browser keeps of its owner: the paired device identity and the   *)
(* offline copy of the Studio (localRuntime.ts), the pairing and the       *)
(* synchronisation that renew them (browserEnrollment.ts, syncRuntime.ts)  *)
(* and the login gate that decides who may see the workspace, online or    *)
(* from the offline copy alone (LoginGate.tsx).  Every operation reads the *)
(* identity, awaits the network or the database, and goes on with what it  *)
(* read; the one deletion boundary (clearPrivateRuntimeState) may fall     *)
(* between any two of these steps.                                         *)
(***************************************************************************)
EXTENDS Naturals

CONSTANTS
  Account,       \* accounts of the server
  Nobody,        \* no account
  Enrollment,    \* the enrolments the server may create
  Life,          \* the length of a grant and of the offline copy, in ticks
  MaxTime,       \* bound: ticks of real time
  MaxActs,       \* bound: what the person does (pair, log in, log out, reload)
  MaxTrouble     \* bound: lost connections, ended sessions, wrong clocks

VARIABLES
  real,      \* the server's time; a tick is longer than the clock tolerance
  skew,      \* how far the browser's clock is set back
  online,    \* the server can be reached
  cookie,    \* the account of the server's login session
  granted,   \* the server's enrolments: state and expiry
  identity,  \* IndexedDB: the paired device
  snapshot,  \* IndexedDB: expiry of the offline Studio (0: none)
  clock,     \* IndexedDB: highest time seen
  active,    \* localStorage: the account whose data this is
  session,   \* what the gate shows
  left,      \* ticks until the timer of an offline session
  check,     \* the gate's session check
  logout,    \* the logout button's chain
  signin,    \* the login form's chain
  expiry,    \* the expiry timer's deletion
  pairing,   \* beginBrowserEnrollment or completeBrowserEnrollment
  sync,      \* a device synchronisation
  media,     \* a media plan or gateway activation that was refused
  revived,   \* history: an identity was stored again after its deletion
  acts, trouble

store == <<identity, snapshot, clock>>
gate  == <<active, session, left>>
tasks == <<check, logout, signin, expiry, media>>
world == <<real, skew, online, cookie, granted>>
vars  == <<world, store, gate, tasks, pairing, sync, revived, acts, trouble>>

now == real - skew

NoIdentity == [enrollment |-> 0, approved |-> FALSE, expires |-> 0, owner |-> Nobody]
Idle       == [at |-> "idle", then |-> Nobody]
NoTask     == [at |-> "idle", copy |-> NoIdentity, stale |-> FALSE]

\* Who the gate lets in: kinds of session and the account of an online one.
Shown(kind)    == [kind |-> kind, user |-> Nobody]
SignedIn(user) == [kind |-> "in", user |-> user]
Mounted        == session.kind \in {"in", "offline"}

Init ==
  /\ real = 1 /\ skew = 0 /\ online = TRUE /\ cookie = Nobody
  /\ granted = [e \in Enrollment |-> [state |-> "none", expires |-> 0]]
  /\ identity = NoIdentity /\ snapshot = 0 /\ clock = 0
  /\ active = Nobody /\ session = Shown("checking") /\ left = 0
  /\ check = [at |-> "asked", then |-> Nobody]
  /\ logout = "idle" /\ signin = Idle /\ expiry = "idle"
  /\ media = "idle" /\ pairing = NoTask /\ sync = NoTask /\ revived = FALSE
  /\ acts = 0 /\ trouble = 0

Act == acts < MaxActs /\ acts' = acts + 1

-----------------------------------------------------------------------------
(* The private data *)

\* The browser's clock stands behind the highest time it has seen.
TrustsTheClock == FALSE
TurnedBack == now < clock

\* failClosedNow: a clock that moves forward is remembered.
Remembered == IF now > clock THEN now ELSE clock

\* The identity loadBrowserIdentity hands out; an expired one, or one read
\* under a clock set back, starts the deletion instead.
Expired(record) == record # NoIdentity /\ record.expires <= now
ApprovedIdentity(record) == record.approved /\ record.expires > now

\* clearPrivateRuntimeState begins: the event aborts a synchronisation whose
\* request is on the way.
ClearingBegins == sync' = IF sync.at = "asked" THEN NoTask ELSE sync

\* Its transaction: everything private goes, and what another operation has
\* read before is from now on the past.
Wiped == identity' = NoIdentity /\ snapshot' = 0 /\ UNCHANGED clock
Outlived(task) == [task EXCEPT !.stale = task.at # "idle"]
ClearPrivateRuntimeState ==
  Wiped /\ pairing' = Outlived(pairing) /\ sync' = Outlived(sync)

\* saveBrowserIdentity refuses an identity that is expired or valid for longer
\* than a grant can be; it does not look whether
\* the identity it was derived from is still there.
SaveBrowserIdentity(task) ==
  IF task.copy.expires \in (now + 1)..(now + Life)
  THEN /\ identity' = task.copy /\ clock' = now
       /\ revived' = (revived \/ task.stale)
       /\ UNCHANGED snapshot
  ELSE UNCHANGED <<store, revived>>

-----------------------------------------------------------------------------
(* The gate: checking the session *)

NextCheck == check' = [at |-> "asked", then |-> Nobody]

SetOffline(until) ==
  /\ session' = Shown("offline")
  /\ left' = IF session.kind = "offline" THEN left ELSE until - now

\* activateAccount: another account's data is deleted before it is let in.
NeverForeign(user) == user \notin Account
Foreign(user) == active # Nobody /\ active # user
AdmitTimed(user) == active' = user /\ session' = SignedIn(user) /\ UNCHANGED left
Admit(user) ==
  /\ active' = user /\ session' = SignedIn(user) /\ left' = 0

\* fetchAuthSession is answered: nobody is logged in, or somebody is.
CheckAnswered ==
  /\ check.at = "asked" /\ online
  /\ IF cookie = Nobody \/ Foreign(cookie)
     THEN /\ check' = [at |-> "clearing", then |-> cookie] /\ ClearingBegins
          /\ UNCHANGED gate
     ELSE check' = Idle /\ Admit(cookie) /\ UNCHANGED sync
  /\ UNCHANGED <<world, store, logout, signin, expiry, media, pairing, revived, acts, trouble>>

\* It failed or took longer than six seconds: the offline copy is tried.
CheckFails ==
  /\ check.at = "asked" /\ ~online
  /\ check' = [check EXCEPT !.at = "reading"]
  /\ UNCHANGED <<world, store, gate, logout, signin, expiry, media, pairing, sync, revived, acts, trouble>>

\* loadOfflineStudio: a clock set back, an expired identity or copy delete
\* everything; only an approved identity with a copy opens the workspace.
LoadOrWait ==
  /\ check.at = "reading" /\ check' = Idle /\ clock' = Remembered
  /\ IF ApprovedIdentity(identity) /\ snapshot > now /\ ~TurnedBack
     THEN SetOffline(IF snapshot < identity.expires THEN snapshot ELSE identity.expires)
     ELSE UNCHANGED <<session, left>>
  /\ UNCHANGED <<world, active, identity, snapshot, logout, signin, expiry, media, pairing, sync, revived, acts, trouble>>
LoadOfflineStudio ==
  /\ check.at = "reading"
  /\ IF \/ TurnedBack \/ Expired(identity)
        \/ /\ ApprovedIdentity(identity) /\ snapshot > 0 /\ snapshot <= now
     THEN /\ check' = [at |-> "clearing", then |-> "unavailable"] /\ ClearingBegins
          /\ UNCHANGED gate
     ELSE /\ check' = Idle /\ UNCHANGED sync
          /\ IF ApprovedIdentity(identity) /\ snapshot > 0
             THEN /\ SetOffline(IF snapshot < identity.expires THEN snapshot ELSE identity.expires)
                  /\ UNCHANGED active
             ELSE session' = Shown("unavailable") /\ left' = 0 /\ UNCHANGED active
  /\ clock' = Remembered
  /\ UNCHANGED <<world, identity, snapshot, logout, signin, expiry, media, pairing, revived, acts, trouble>>

CheckCleared ==
  /\ check.at = "clearing" /\ ClearPrivateRuntimeState
  /\ check' = Idle
  /\ CASE check.then \in Account -> Admit(check.then)
       [] check.then = Nobody    -> session' = Shown("out") /\ left' = 0 /\ UNCHANGED active
       [] OTHER                  -> session' = Shown("unavailable") /\ left' = 0 /\ UNCHANGED active
  /\ UNCHANGED <<world, logout, signin, expiry, media, revived, acts, trouble>>

\* An offline session checks again every 30 s, when the network returns and
\* when the page is shown; the check before it is aborted.
Recheck ==
  /\ session.kind = "offline" /\ check.at = "idle" /\ NextCheck
  /\ UNCHANGED <<world, store, gate, logout, signin, expiry, media, pairing, sync, revived, acts, trouble>>

\* The button of the "service unavailable" screen.
CheckAgain ==
  /\ Act /\ session.kind = "unavailable" /\ check.at = "idle"
  /\ session' = Shown("checking") /\ NextCheck
  /\ UNCHANGED <<world, store, active, left, logout, signin, expiry, media, pairing, sync, revived, trouble>>

-----------------------------------------------------------------------------
(* Login, logout, and the end of the offline authorisation *)

Submit(user) ==
  /\ Act /\ session.kind = "out" /\ signin.at = "idle"
  /\ signin' = [at |-> "asked", then |-> user]
  /\ UNCHANGED <<world, store, gate, check, logout, expiry, media, pairing, sync, revived, trouble>>

SubmitAnswered ==
  /\ signin.at = "asked"
  /\ IF ~online
     THEN signin' = Idle /\ UNCHANGED <<cookie, gate, sync>>
     ELSE /\ cookie' = signin.then
          /\ IF Foreign(signin.then)
             THEN /\ signin' = [signin EXCEPT !.at = "clearing"] /\ ClearingBegins
                  /\ UNCHANGED gate
             ELSE signin' = Idle /\ Admit(signin.then) /\ UNCHANGED sync
  /\ UNCHANGED <<real, skew, online, granted, store, check, logout, expiry, media, pairing, revived, acts, trouble>>

SubmitCleared ==
  /\ signin.at = "clearing" /\ ClearPrivateRuntimeState
  /\ signin' = Idle /\ Admit(signin.then)
  /\ UNCHANGED <<world, check, logout, expiry, media, revived, acts, trouble>>

\* The logout button: ask the server, delete whatever it says, show the form.
Logout ==
  /\ Act /\ Mounted /\ logout = "idle" /\ logout' = "asked"
  /\ UNCHANGED <<world, store, gate, check, signin, expiry, media, pairing, sync, revived, trouble>>

LogoutAnswered ==
  /\ logout = "asked" /\ logout' = "clearing" /\ ClearingBegins
  /\ cookie' = IF online THEN Nobody ELSE cookie
  /\ UNCHANGED <<real, skew, online, granted, store, gate, check, signin, expiry, media, pairing, revived, acts, trouble>>

LogoutCleared ==
  /\ logout = "clearing" /\ ClearPrivateRuntimeState
  /\ logout' = "idle" /\ active' = Nobody /\ session' = Shown("out") /\ left' = 0
  /\ UNCHANGED <<world, check, signin, expiry, media, revived, acts, trouble>>

ExpiryFires ==
  /\ session.kind = "offline" /\ left = 0 /\ expiry = "idle"
  /\ expiry' = "clearing" /\ ClearingBegins
  /\ UNCHANGED <<world, store, gate, check, logout, signin, media, pairing, revived, acts, trouble>>

ExpiryClearedQuietly ==
  /\ expiry = "clearing" /\ ClearPrivateRuntimeState
  /\ expiry' = "idle"
  /\ UNCHANGED <<world, gate, check, logout, signin, media, revived, acts, trouble>>
ExpiryCleared ==
  /\ expiry = "clearing" /\ ClearPrivateRuntimeState
  /\ expiry' = "idle" /\ session' = Shown("unavailable") /\ left' = 0
  /\ UNCHANGED <<world, active, check, logout, signin, media, revived, acts, trouble>>

\* The page is loaded again: what was running is gone, the stores stay.
Reload ==
  /\ Act /\ session' = Shown("checking") /\ left' = 0 /\ NextCheck
  /\ logout' = "idle" /\ signin' = Idle /\ expiry' = "idle"
  /\ media' = "idle" /\ pairing' = NoTask /\ sync' = NoTask
  /\ UNCHANGED <<world, store, active, revived, trouble>>

-----------------------------------------------------------------------------
(* Pairing and synchronisation *)

\* beginBrowserEnrollment: the server creates the enrolment.
Begin(e) ==
  /\ Act /\ session.kind = "in" /\ online /\ pairing.at = "idle" /\ identity = NoIdentity
  /\ granted[e].state = "none"
  /\ \A d \in Enrollment : granted[d].state = "none" => e <= d
  /\ granted' = [granted EXCEPT ![e] = [state |-> "pending", expires |-> 0]]
  /\ pairing' = [at |-> "clearing", stale |-> FALSE,
                 copy |-> [enrollment |-> e, approved |-> FALSE, expires |-> now + 1,
                           owner |-> session.user]]
  /\ ClearingBegins
  /\ UNCHANGED <<real, skew, online, cookie, store, gate, tasks, revived, trouble>>

\* Its own deletion comes before its own save.
BeginCleared ==
  /\ pairing.at = "clearing"
  /\ Wiped /\ sync' = Outlived(sync)
  /\ pairing' = [pairing EXCEPT !.at = "saving"]
  /\ UNCHANGED <<world, gate, tasks, revived, acts, trouble>>

\* completeBrowserEnrollment reads the identity and asks for its grant.
Complete ==
  /\ Act /\ Mounted /\ pairing.at = "idle"
  /\ identity # NoIdentity /\ ~identity.approved /\ ~Expired(identity) /\ ~TurnedBack
  /\ pairing' = [at |-> "asked", copy |-> identity, stale |-> FALSE]
  /\ clock' = Remembered
  /\ UNCHANGED <<world, identity, snapshot, gate, tasks, sync, revived, trouble>>

\* browserGrant: a grant whose time is over is refused.
GrantValid(expires) == expires > now

\* persistVerifiedGrant up to its save: the identity that was read, with the
\* grant in it.
Verified(copy, until) == [copy EXCEPT !.approved = TRUE, !.expires = until]

\* 202 while nobody has approved, 410 once the enrolment has expired; a grant
\* is verified.  The server does not look here whether the approved client
\* has been revoked since.
CompleteAnswered ==
  /\ pairing.at = "asked"
  /\ LET server == granted[pairing.copy.enrollment]
         given  == online /\ server.state # "pending" /\ real < pairing.copy.expires
     IN pairing' = IF given /\ GrantValid(server.expires)
                   THEN [pairing EXCEPT !.at = "saving",
                           !.copy = Verified(pairing.copy, server.expires)]
                   ELSE NoTask
  /\ UNCHANGED <<world, store, gate, tasks, sync, revived, acts, trouble>>

PairingSaved ==
  /\ pairing.at = "saving" /\ SaveBrowserIdentity(pairing) /\ pairing' = NoTask
  /\ UNCHANGED <<world, gate, tasks, sync, acts, trouble>>

\* A synchronisation every 30 s for a paired browser: it reads the identity
\* (loadBrowserIdentity) and asks for the bootstrap with its token.
SyncStarts ==
  /\ Mounted /\ online /\ sync.at = "idle" /\ identity.approved
  /\ sync' = IF TurnedBack \/ Expired(identity)
             THEN [NoTask EXCEPT !.at = "clearing"]
             ELSE [at |-> "asked", copy |-> identity, stale |-> FALSE]
  /\ clock' = Remembered
  /\ UNCHANGED <<world, identity, snapshot, gate, tasks, pairing, revived, acts, trouble>>

\* A revoked or expired device is refused; any other one has its grant
\* renewed for another Life.
Refused(e) == granted[e].state = "revoked" \/ granted[e].expires <= real
Renewed(e) == [granted EXCEPT ![e].expires = real + Life]

\* checkedJson and acceptBrowserBootstrap: a refusal deletes, a renewed grant
\* is verified against the identity read at the beginning.
SyncAnsweredQuietly ==
  /\ sync.at = "asked"
  /\ IF ~online \/ Refused(sync.copy.enrollment)
     THEN sync' = NoTask /\ UNCHANGED granted
     ELSE /\ granted' = Renewed(sync.copy.enrollment)
          /\ sync' = [sync EXCEPT !.at = "saving", !.copy = Verified(sync.copy, real + Life)]
  /\ UNCHANGED <<real, skew, online, cookie, store, gate, tasks, pairing, revived, acts, trouble>>
SyncAnswered ==
  /\ sync.at = "asked"
  /\ CASE ~online -> sync' = NoTask /\ UNCHANGED granted
       [] online /\ Refused(sync.copy.enrollment) ->
            sync' = [NoTask EXCEPT !.at = "clearing"] /\ UNCHANGED granted
       [] online /\ ~Refused(sync.copy.enrollment) ->
            /\ granted' = Renewed(sync.copy.enrollment)
            /\ sync' = [sync EXCEPT !.at = "saving", !.copy = Verified(sync.copy, real + Life)]
  /\ UNCHANGED <<real, skew, online, cookie, store, gate, tasks, pairing, revived, acts, trouble>>

SyncCleared ==
  /\ sync.at = "clearing" /\ Wiped /\ sync' = NoTask /\ pairing' = Outlived(pairing)
  /\ UNCHANGED <<world, gate, tasks, revived, acts, trouble>>

SyncSaved ==
  /\ sync.at = "saving" /\ SaveBrowserIdentity(sync) /\ sync' = NoTask
  /\ UNCHANGED <<world, gate, tasks, pairing, acts, trouble>>

\* A media plan or the activation of its gateway answered 401 or 403.
PlanRefused ==
  /\ Mounted /\ online /\ media = "idle" /\ identity.approved /\ ~Expired(identity)
  /\ Refused(identity.enrollment)
  /\ media' = "clearing" /\ ClearingBegins
  /\ UNCHANGED <<world, store, gate, check, logout, signin, expiry, pairing, revived, acts, trouble>>

PlanCleared ==
  /\ media = "clearing" /\ ClearPrivateRuntimeState /\ media' = "idle"
  /\ UNCHANGED <<world, gate, check, logout, signin, expiry, revived, acts, trouble>>

\* saveStudioSnapshot: the Studio the server returned, for the offline copy.
SaveStudioSnapshot ==
  /\ session.kind = "in" /\ online /\ snapshot # now + Life
  /\ snapshot' = now + Life /\ clock' = now
  /\ UNCHANGED <<world, identity, gate, tasks, pairing, sync, revived, acts, trouble>>

-----------------------------------------------------------------------------
(* The server and the clocks *)

Decide(e, state) ==
  /\ granted[e].state = IF state = "approved" THEN "pending" ELSE "approved"
  /\ granted' = [granted EXCEPT ![e].state = state,
                   ![e].expires = IF state = "approved" THEN real + Life ELSE @]
  /\ UNCHANGED <<real, skew, online, cookie, store, gate, tasks, pairing, sync, revived, acts, trouble>>

Tick ==
  /\ real < MaxTime /\ real' = real + 1
  /\ left' = IF left > 0 THEN left - 1 ELSE 0
  /\ UNCHANGED <<skew, online, cookie, granted, store, active, session, tasks, pairing, sync, revived, acts, trouble>>

\* Trouble: the connection is lost; the login session ends or, from another
\* page of this browser, becomes another account's; the clock is set.
Goes ==
  /\ trouble < MaxTrouble /\ trouble' = trouble + 1
  /\ \/ online /\ online' = FALSE /\ UNCHANGED <<cookie, skew>>
     \/ cookie # Nobody /\ cookie' \in (Account \cup {Nobody}) \ {cookie} /\ UNCHANGED <<online, skew>>
     \/ skew' = 1 - skew /\ UNCHANGED <<online, cookie>>
  /\ UNCHANGED <<real, granted, store, gate, tasks, pairing, sync, revived, acts>>

Returns ==
  /\ ~online /\ online' = TRUE
  /\ UNCHANGED <<real, skew, cookie, granted, store, gate, tasks, pairing, sync, revived, acts, trouble>>

-----------------------------------------------------------------------------
Next ==
  \/ CheckAnswered \/ CheckFails \/ LoadOfflineStudio \/ CheckCleared \/ Recheck \/ CheckAgain
  \/ \E user \in Account : Submit(user)
  \/ SubmitAnswered \/ SubmitCleared \/ Logout \/ LogoutAnswered \/ LogoutCleared
  \/ ExpiryFires \/ ExpiryCleared \/ Reload
  \/ \E e \in Enrollment : Begin(e) \/ Decide(e, "approved") \/ Decide(e, "revoked")
  \/ BeginCleared \/ Complete \/ CompleteAnswered \/ PairingSaved
  \/ SyncStarts \/ SyncAnswered \/ SyncCleared \/ SyncSaved \/ SaveStudioSnapshot
  \/ PlanRefused \/ PlanCleared
  \/ Tick \/ Goes \/ Returns

Spec == Init /\ [][Next]_vars

\* Requests end and timers fire: the gate's check has a time limit, the poll
\* of useDeviceSync repeats, and a lost connection is assumed to come back.
Progress ==
  /\ WF_vars(CheckAnswered) /\ WF_vars(CheckFails) /\ WF_vars(LoadOfflineStudio)
  /\ WF_vars(CheckCleared) /\ WF_vars(ExpiryFires) /\ WF_vars(ExpiryCleared)
  /\ WF_vars(SyncStarts) /\ WF_vars(SyncAnswered) /\ WF_vars(SyncCleared) /\ WF_vars(SyncSaved)
  /\ WF_vars(LogoutAnswered) /\ WF_vars(LogoutCleared) /\ WF_vars(Returns)

FairSpec == Spec /\ Progress

-----------------------------------------------------------------------------
(* Properties *)

\* The stores, the gate and the operations keep their shapes, and only an
\* offline session has time left on its timer.
Person   == Account \cup {Nobody}
Identity == [enrollment : Enrollment, approved : BOOLEAN, expires : 0..(MaxTime + Life),
             owner : Account] \cup {NoIdentity}
Stages   == {"idle", "asked", "clearing", "saving"}
Session  == {Shown(k) : k \in {"checking", "out", "unavailable", "offline"}}
            \cup {SignedIn(u) : u \in Account}
WorldOK ==
  /\ real \in 1..MaxTime /\ skew \in {0, 1} /\ online \in BOOLEAN /\ cookie \in Person
  /\ granted \in [Enrollment -> [state : {"none", "pending", "approved", "revoked"},
                                  expires : 0..(MaxTime + Life)]]
StoreOK ==
  /\ identity \in Identity /\ snapshot \in 0..(MaxTime + Life) /\ clock \in 0..MaxTime
GateOK ==
  /\ active \in Person /\ session \in Session
  /\ left \in Nat /\ (left > 0 => session.kind = "offline")
TasksOK ==
  /\ check \in [at : {"idle", "asked", "reading", "clearing"}, then : Person \cup {"unavailable"}]
  /\ signin \in [at : {"idle", "asked", "clearing"}, then : Person]
  /\ (signin.at # "idle" => signin.then \in Account)
  /\ {logout, expiry, media} \subseteq {"idle", "asked", "clearing"}
WorkOK ==
  {pairing, sync} \subseteq [at : Stages, copy : Identity, stale : BOOLEAN]
TypeOK == WorldOK /\ StoreOK /\ GateOK /\ TasksOK /\ WorkOK

\* A pairing under way carries an identity, and so does a synchronisation
\* that has asked.
Carries(task) == task.at # "idle" /\ task.copy # NoIdentity
TasksCarry ==
  /\ pairing.at # "idle" => pairing.copy # NoIdentity
  /\ sync.at \in {"asked", "saving"} => sync.copy # NoIdentity

\* Who is signed in is the account whose data this is; until a late answer
\* has brought a deleted identity back, so is the owner of the stored
\* identity and of each one that an operation carries and that was not
\* deleted behind its back.
OwnersKnown ==
  /\ session.kind = "in" => active = session.user
  /\ ~revived =>
       /\ identity # NoIdentity => identity.owner = active
       /\ \A task \in {pairing, sync} : Carries(task) /\ ~task.stale => task.copy.owner = active

BrowserInv == TypeOK /\ TasksCarry /\ OwnersKnown

\* LoginGate.tsx:11-16: an account never works with the paired identity of
\* another one, through logouts, ended sessions, reloads and offline hours,
\* unless a late answer brought a deleted identity back (`revived`).
AccountsApart ==
  session.kind = "in" /\ identity # NoIdentity /\ ~revived
    => identity.owner = session.user

\* LoginGate.tsx:67-77: the workspace opens without the server only on an
\* approved identity and an offline copy, both valid on a clock that was not
\* set back.
OfflineNeedsGrant ==
  [][session.kind # "offline" /\ session'.kind = "offline"
       => /\ ApprovedIdentity(identity) /\ snapshot > now /\ now >= clock
          /\ left' <= identity.expires - now]_vars

\* The timer of LoginGate.tsx:71: an offline session whose authorisation has
\* run out is not shown for ever.
OfflineEnds == (session.kind = "offline" /\ left = 0) ~> (session.kind # "offline")

\* LoginGate.tsx:36-65: the gate never keeps "checking".
GateDecides == (session.kind = "checking") ~> (session.kind # "checking")

\* syncRuntime.ts:190: the revocation of a paired browser reaches it while
\* somebody works in it: its private data goes.
RevocationLands ==
  \A e \in Enrollment :
    (/\ granted[e].state = "revoked" /\ identity.enrollment = e /\ identity.approved
     /\ session.kind = "in")
      ~> (identity.enrollment # e \/ session.kind # "in")
=============================================================================
