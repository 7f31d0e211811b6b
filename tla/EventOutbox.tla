----------------------------- MODULE EventOutbox -----------------------------
(* The event service's intake and notification outbox                      *)
(* (services/events/event_service.py): ingest_event with apply_rules, and  *)
(* process_outbox, which runs in the service's own loop (outbox_worker) and *)
(* in any request to POST /notification-outbox/process.                    *)
(*                                                                         *)
(* Each connection holds one SQLite transaction, so a transaction is a     *)
(* step; the deliveries between two transactions are steps of their own.   *)
(* Clock readings are abstracted to what they are compared with: a row's   *)
(* next attempt is due or not, its 24 hours are over or not, a rule is     *)
(* cooling down or not.                                                    *)
EXTENDS Naturals, FiniteSets, FiniteSetsExt

CONSTANTS
    Occurrences,    \* what happened, as told by the events' dedupe keys
    OccurredAt,     \* their occurrence times
    Rules,          \* enabled rules, each with one notification action
    Processors,     \* threads inside process_outbox
    Loop,           \* the service's own, outbox_worker; the others are requests
    MAX_EVENTS,     \* 100000
    MAX_OUTBOX,     \* 4096
    MAX_ATTEMPTS,   \* 8
    BATCH,          \* 16, process_outbox's limit
    MaxIngests,     \* bound: events stored
    MaxFaults,      \* bound: crashes and database errors
    None

ASSUME OutboxAssumption ==
    /\ OccurredAt \in [Occurrences -> Nat]
    /\ MAX_EVENTS \in Nat \ {0}
    /\ MAX_OUTBOX \in Nat \ {0}
    /\ MAX_ATTEMPTS \in Nat \ {0}
    /\ BATCH \in Nat \ {0}
    /\ MaxIngests \in Nat
    /\ MaxFaults \in Nat
    /\ IsFiniteSet(Rules)
    /\ Loop \in Processors

VARIABLES
    events,     \* events table: id and dedupe key
    lastId,     \* ids are handed out in the order of creation
    cooling,    \* rules triggered less than cooldown_ms ago
    outbox,     \* notification_outbox, one row per event and rule
    batch,      \* rows each processor has selected and not yet delivered
    current,    \* the row it is delivering
    result,     \* what deliver told it
    pc,
    sent,       \* how often a notification was written to its destination
    alone,      \* history: nobody but the service's loop has processed the outbox
    faults

processorVars == <<batch, current, result, pc>>
vars == <<events, lastId, cooling, outbox, batch, current, result, pc, sent,
          alone, faults>>

Notification == [event : 1..MaxIngests, rule : Rules]
Absent == [state |-> "absent", attempts |-> 0, due |-> FALSE, over |-> FALSE]
Row == [state : {"absent", "pending", "delivered", "expired"},
        attempts : 0..MAX_ATTEMPTS, due : BOOLEAN, over : BOOLEAN]
\* What process_outbox keeps of the rows it has selected.
Snapshot == [note : Notification, attempts : 0..(MAX_ATTEMPTS - 1)]

Rows(table) == {n \in Notification : table[n].state # "absent"}

Init ==
    /\ events = {}
    /\ lastId = 0
    /\ cooling = {}
    /\ outbox = [n \in Notification |-> Absent]
    /\ batch = [p \in Processors |-> {}]
    /\ current = [p \in Processors |-> None]
    /\ result = [p \in Processors |-> None]
    /\ pc = [p \in Processors |-> "idle"]
    /\ sent = [n \in Notification |-> 0]
    /\ alone = TRUE
    /\ faults = 0

-----------------------------------------------------------------------------
(* Intake.                                                                 *)

\* The limit of a SELECT or DELETE ordered by time: the chosen rows are as
\* many as allowed, none of the others comes before one of them.
FirstOf(S, limit, Before(_, _)) ==
    {chosen \in SUBSET S :
        /\ Cardinality(chosen) = Min({Cardinality(S), limit})
        /\ \A x \in chosen, y \in S \ chosen : ~Before(y, x)}

CreatedLater(m, n) == m.event > n.event
CreatedEarlier(m, n) == m.event < n.event
OccurredLater(d, e) == OccurredAt[d.key] > OccurredAt[e.key]

OldestKept(table) ==
    {[n \in Notification |-> IF n \in kept THEN table[n] ELSE Absent] :
        kept \in FirstOf(Rows(table), MAX_OUTBOX, CreatedEarlier)}

\* apply_rules, last statement: the newest MAX_OUTBOX rows stay.
Trimmed(table) ==
    {[n \in Notification |-> IF n \in kept THEN table[n] ELSE Absent] :
        kept \in FirstOf(Rows(table), MAX_OUTBOX, CreatedLater)}

\* apply_rules: one row for each rule that fires, due at once.
WithRows(table, id, fired) ==
    [n \in Notification |->
        IF n.event = id /\ n.rule \in fired
        THEN [state |-> "pending", attempts |-> 0, due |-> TRUE, over |-> FALSE]
        ELSE table[n]]

TrimmedFirst(table, id, fired) ==
    {WithRows(kept, id, fired) : kept \in Trimmed(table)}

Announced(table, id, fired) == Trimmed(WithRows(table, id, fired))

\* The oldest time retention keeps.
Cutoffs == {OccurredAt[k] : k \in Occurrences}

\* ingest_event: an event whose dedupe key is known is answered from the
\* table and changes nothing.  Old events leave by retention and by number.
\* (What follows the transaction, trigger_nvr_event, is not about this state.)
Ingest(key, fired, cutoff) ==
    /\ lastId < MaxIngests
    /\ \A e \in events : e.key # key
    /\ fired \subseteq Rules \ cooling
    /\ lastId' = lastId + 1
    /\ cooling' = cooling \cup fired
    /\ outbox' \in Announced(outbox, lastId', fired)
    /\ events' \in FirstOf({e \in events \cup {[id |-> lastId', key |-> key]} :
                               OccurredAt[e.key] >= cutoff},
                           MAX_EVENTS, OccurredLater)
    /\ UNCHANGED <<processorVars, sent, alone, faults>>

\* A rule's cooldown_ms have passed.
CooldownEnds(r) ==
    /\ r \in cooling
    /\ cooling' = cooling \ {r}
    /\ UNCHANGED <<events, lastId, outbox, processorVars, sent, alone, faults>>

-----------------------------------------------------------------------------
(* process_outbox.                                                         *)

Selectable == {n \in Notification : /\ outbox[n].state = "pending"
                                    /\ outbox[n].due /\ ~outbox[n].over}

\* The rows are read in one transaction, in the order of their creation.
Select(p) ==
    /\ pc[p] = "idle"
    /\ \E chosen \in FirstOf(Selectable, BATCH, CreatedEarlier) :
         /\ batch' = [batch EXCEPT ![p] =
                        {[note |-> n, attempts |-> outbox[n].attempts] : n \in chosen}]
         /\ pc' = [pc EXCEPT ![p] = IF chosen = {} THEN "sweep" ELSE "deliver"]
    /\ alone' = (alone /\ p = Loop)
    /\ UNCHANGED <<events, lastId, cooling, outbox, current, result, sent, faults>>

\* deliver: the notification is written to a destination that accepted the
\* connection, and the call returns; it is written and the call fails all the
\* same (the webhook's answer is lost, MQTT's second publication refused); or
\* it is not written.  The call returns when a webhook has answered 2xx, but
\* an MQTT publication of QoS 0 is not acknowledged: what the broker never got
\* is told as delivered too.  So sent counts what was written, not received.
Delivered(n, outcome) ==
    sent' = IF outcome = "failed" THEN sent ELSE [sent EXCEPT ![n] = @ + 1]

BelievedHopefully(outcome) == "delivered"
BelievedAsTold(outcome) == outcome
Believed(outcome) == IF outcome = "delivered" THEN "delivered" ELSE "pending"

Deliver(p, outcome) ==
    /\ pc[p] = "deliver"
    /\ \E s \in batch[p] :
         /\ \A t \in batch[p] : ~CreatedEarlier(t.note, s.note)
         /\ batch' = [batch EXCEPT ![p] = @ \ {s}]
         /\ current' = [current EXCEPT ![p] = s]
         /\ Delivered(s.note, outcome)
    /\ result' = [result EXCEPT ![p] = Believed(outcome)]
    /\ pc' = [pc EXCEPT ![p] = "record"]
    /\ UNCHANGED <<events, lastId, cooling, outbox, alone, faults>>

NewStateByAge(s, outcome) ==
    IF outbox[s.note].over THEN "expired" ELSE outcome

NewStateOneShort(s, outcome) ==
    IF s.attempts + 2 >= MAX_ATTEMPTS \/ outbox[s.note].over
    THEN "expired" ELSE outcome

\* The row's new state: the last attempt expires it whatever came of it.
NewState(s, outcome) ==
    IF s.attempts + 1 >= MAX_ATTEMPTS \/ outbox[s.note].over
    THEN "expired" ELSE outcome

\* UPDATE by id, with the attempts counted from the selected row.  A row that
\* has been trimmed meanwhile is not there to update.
Recorded(s, outcome) ==
    IF outbox[s.note].state = "absent" THEN outbox
    ELSE [outbox EXCEPT ![s.note] =
            [@ EXCEPT !.state = NewState(s, outcome),
                      !.attempts = s.attempts + 1, !.due = FALSE]]

Record(p) ==
    /\ pc[p] = "record"
    /\ outbox' = Recorded(current[p], result[p])
    /\ current' = [current EXCEPT ![p] = None]
    /\ result' = [result EXCEPT ![p] = None]
    /\ pc' = [pc EXCEPT ![p] = IF batch[p] = {} THEN "sweep" ELSE "deliver"]
    /\ UNCHANGED <<events, lastId, cooling, batch, sent, alone, faults>>

Unfinished(p) ==
    /\ batch' = [batch EXCEPT ![p] = {}]
    /\ current' = [current EXCEPT ![p] = None]
    /\ result' = [result EXCEPT ![p] = None]
    /\ pc' = [pc EXCEPT ![p] = "idle"]

\* The database refuses the UPDATE (it is locked, the disk is full): the
\* exception ends this call of process_outbox, the rest of the batch with it.
RecordFails(p) ==
    /\ pc[p] = "record"
    /\ faults < MaxFaults
    /\ faults' = faults + 1
    /\ Unfinished(p)
    /\ UNCHANGED <<events, lastId, cooling, outbox, sent, alone>>

SweptWhenDue(row) == IF row.state = "pending" /\ row.over /\ row.due
                     THEN [row EXCEPT !.state = "expired"] ELSE row

\* Rows whose 24 hours are over and which nobody is to select any more.
SweptRow(row) == IF row.state = "pending" /\ row.over
                 THEN [row EXCEPT !.state = "expired"] ELSE row

Sweep(p) ==
    /\ pc[p] = "sweep"
    /\ outbox' = [n \in Notification |-> SweptRow(outbox[n])]
    /\ pc' = [pc EXCEPT ![p] = "idle"]
    /\ UNCHANGED <<events, lastId, cooling, batch, current, result, sent, alone, faults>>

-----------------------------------------------------------------------------
(* Time and crashes.                                                       *)

\* min(300 s, 2^attempts s) after an attempt.
BackoffEnds(n) ==
    /\ outbox[n].state = "pending" /\ ~outbox[n].due
    /\ outbox' = [outbox EXCEPT ![n].due = TRUE]
    /\ UNCHANGED <<events, lastId, cooling, processorVars, sent, alone, faults>>

\* expires_at, 24 hours after creation.
DayEnds(n) ==
    /\ outbox[n].state # "absent" /\ ~outbox[n].over
    /\ outbox' = [outbox EXCEPT ![n].over = TRUE]
    /\ UNCHANGED <<events, lastId, cooling, processorVars, sent, alone, faults>>

\* The service dies and starts again: only the database is left.
Crash ==
    /\ faults < MaxFaults
    /\ faults' = faults + 1
    /\ batch' = [p \in Processors |-> {}]
    /\ current' = [p \in Processors |-> None]
    /\ result' = [p \in Processors |-> None]
    /\ pc' = [p \in Processors |-> "idle"]
    /\ UNCHANGED <<events, lastId, cooling, outbox, sent, alone>>

Processing(p) ==
    \/ Select(p)
    \/ \E outcome \in {"delivered", "unanswered", "failed"} : Deliver(p, outcome)
    \/ Record(p)
    \/ RecordFails(p)
    \/ Sweep(p)

Next ==
    \/ \E key \in Occurrences, fired \in SUBSET Rules, cutoff \in Cutoffs :
          Ingest(key, fired, cutoff)
    \/ \E r \in Rules : CooldownEnds(r)
    \/ \E p \in Processors : Processing(p)
    \/ \E n \in Notification : BackoffEnds(n) \/ DayEnds(n)
    \/ Crash

Spec == Init /\ [][Next]_vars

\* outbox_worker calls process_outbox again for ever, a second after it
\* returned or raised; every call ends because deliveries time out.  Time
\* passes.
FairSpec ==
    /\ Spec
    /\ \A p \in Processors :
          WF_vars(Select(p) \/ Record(p) \/ Sweep(p)
                  \/ \E o \in {"delivered", "unanswered", "failed"} : Deliver(p, o))
    /\ \A n \in Notification : WF_vars(DayEnds(n))

-----------------------------------------------------------------------------
(* Properties.                                                             *)

TypeOK ==
    /\ events \subseteq [id : 1..MaxIngests, key : Occurrences]
    /\ lastId \in 0..MaxIngests
    /\ cooling \subseteq Rules
    /\ outbox \in [Notification -> Row]
    /\ batch \in [Processors -> SUBSET Snapshot]
    /\ current \in [Processors -> Snapshot \cup {None}]
    /\ result \in [Processors -> {"delivered", "pending", None}]
    /\ pc \in [Processors -> {"idle", "deliver", "record", "sweep"}]
    /\ sent \in [Notification -> Nat]
    /\ alone \in BOOLEAN
    /\ faults \in 0..MaxFaults
    /\ \A p \in Processors : pc[p] = "record" =>
            current[p] \in Snapshot /\ result[p] \in {"delivered", "pending"}

\* docs/events-and-automation.md: the queue is capped at 4096 rows, whatever
\* intake and several processors do.
OutboxBounded == Cardinality(Rows(outbox)) <= MAX_OUTBOX

\* What is called delivered was written to a destination that had accepted
\* the connection: a lost answer, a crash, a failed UPDATE or another
\* processor's older view of the row never makes a notification delivered that
\* was not sent.  That a webhook received it is its answer; that an MQTT broker
\* did, nobody knows (event_service.py:427-430, 462-467).
DeliveredWasSent ==
    \A n \in Notification : outbox[n].state = "delivered" => sent[n] > 0

\* The same of what a processor has not recorded yet.
BelievedWasSent ==
    \A p \in Processors : pc[p] = "record" /\ result[p] = "delivered"
                            => sent[current[p].note] > 0

\* A notification is given up for one of two reasons, and one that still
\* waits has an attempt left: two processors overwriting each other's counts
\* produce neither a row that is tried for ever nor one given up early.
GivenUpForReason ==
    \A n \in Notification :
        /\ outbox[n].state = "expired" =>
               outbox[n].over \/ outbox[n].attempts = MAX_ATTEMPTS
        /\ outbox[n].state = "pending" => outbox[n].attempts < MAX_ATTEMPTS

OutboxInv == /\ TypeOK /\ OutboxBounded /\ DeliveredWasSent
             /\ BelievedWasSent /\ GivenUpForReason

\* Rows leave the table, or are not kept when their rule fires, only behind as
\* many newer ones as the table holds: no notification is lost while there is
\* room for it, and the newest are not lost at all.
Raised(n) == n.event = lastId' /\ n.rule \in cooling' \ cooling

DroppedOnlyWhenFull ==
    [][\A n \in Notification :
          /\ outbox[n].state # "absent" \/ Raised(n)
          /\ outbox'[n].state = "absent"
          => Cardinality({m \in Rows(outbox') : m.event >= n.event}) = MAX_OUTBOX]_vars

\* No notification waits for ever, through crashes, failed updates and
\* concurrent processors that put a settled row back to pending.
Settled ==
    \A n \in Notification : outbox[n].state = "pending"
                            ~> outbox[n].state # "pending"

\* docs/events-and-automation.md: "retries at most eight times".  As long as
\* only the service's loop processes the outbox (event_service.py:470-482) it
\* sends a notification once for each attempt it records, and once more for
\* each crash or failed UPDATE between sending and recording.  (Two
\* processors select the same rows and count separately: they can send more.)
SentWithinLimit ==
    alone => \A n \in Notification : sent[n] <= MAX_ATTEMPTS + faults
=============================================================================
