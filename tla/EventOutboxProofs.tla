-------------------------- MODULE EventOutboxProofs --------------------------
(* Theorems about EventOutbox: its invariant OutboxInv holds for every      *)
(* number of rules, processors, rows and attempts.                          *)
EXTENDS EventOutbox, FiniteSetTheorems, TLAPS

LEMMA NotificationFinite == ASSUME OutboxAssumption PROVE IsFiniteSet(Notification)
<1>. DEFINE P == (1..MaxIngests) \X Rules
            f == [pair \in P |-> [event |-> pair[1], rule |-> pair[2]]]
<1>1. IsFiniteSet(P)
  <2>1. IsFiniteSet(1..MaxIngests)
    BY FS_Interval DEF OutboxAssumption
  <2> QED BY <2>1, FS_Product DEF OutboxAssumption
<1>2. f \in Surjection(P, Notification)
  <2>1. f \in [P -> Notification]
    BY DEF Notification
  <2>2. ASSUME NEW n \in Notification
        PROVE  \E pair \in P : f[pair] = n
    <3>1. <<n.event, n.rule>> \in P
      BY DEF Notification
    <3>2. f[<<n.event, n.rule>>] = n
      BY <3>1 DEF Notification
    <3> QED BY <3>1, <3>2
  <2> QED BY <2>1, <2>2 DEF Surjection
<1> QED BY <1>1, <1>2, FS_Surjection

LEMMA SmallerOfTwo == ASSUME NEW a \in Nat, NEW b \in Nat
                      PROVE  /\ Min({a, b}) \in Nat /\ Min({a, b}) <= b
                             /\ Min({a, b}) \in {a, b}
<1>1. \E x \in {a, b} : \A y \in {a, b} : x =< y
  OBVIOUS
<1> QED BY <1>1 DEF Min

\* After apply_rules has trimmed the table, its rows were there before or are
\* new, and there are at most MAX_OUTBOX of them.
LEMMA AnnouncedRows ==
    ASSUME OutboxAssumption, NEW table \in [Notification -> Row],
           NEW id, NEW fired, NEW after \in Announced(table, id, fired)
    PROVE  /\ after \in [Notification -> Row]
           /\ Cardinality(Rows(after)) <= MAX_OUTBOX
           /\ \A n \in Notification :
                 \/ after[n] = Absent
                 \/ after[n] = table[n]
                 \/ /\ n.event = id
                    /\ after[n] = [state |-> "pending", attempts |-> 0,
                                   due |-> TRUE, over |-> FALSE]
<1>. DEFINE New == [state |-> "pending", attempts |-> 0, due |-> TRUE, over |-> FALSE]
            with == WithRows(table, id, fired)
<1>1. Absent \in Row /\ New \in Row
  BY DEF Absent, Row, OutboxAssumption
<1>2. /\ with \in [Notification -> Row]
      /\ \A n \in Notification : with[n] = table[n] \/ (n.event = id /\ with[n] = New)
  BY <1>1 DEF WithRows
<1>3. PICK kept \in FirstOf(Rows(with), MAX_OUTBOX, CreatedLater) :
        after = [n \in Notification |-> IF n \in kept THEN with[n] ELSE Absent]
  BY DEF Announced, Trimmed
<1>. HIDE DEF with, New
<1>4. /\ kept \subseteq Rows(with)
      /\ Cardinality(kept) = Min({Cardinality(Rows(with)), MAX_OUTBOX})
  BY <1>3 DEF FirstOf
<1>5. Cardinality(Rows(with)) \in Nat
  <2>1. Rows(with) \in SUBSET Notification
    BY DEF Rows
  <2> QED BY <2>1, NotificationFinite, FS_Subset, FS_CardinalityType
<1>6. Cardinality(kept) <= MAX_OUTBOX
  BY <1>4, <1>5, SmallerOfTwo DEF OutboxAssumption
<1>7. Rows(after) = kept
  <2>1. kept \subseteq Notification
    BY <1>4 DEF Rows
  <2>2. \A n \in kept : with[n].state # "absent"
    BY <1>4 DEF Rows
  <2>3. Absent.state = "absent"
    BY DEF Absent
  <2> QED BY <1>3, <2>1, <2>2, <2>3 DEF Rows
<1>8. \A n \in Notification : \/ after[n] = Absent \/ after[n] = table[n]
                              \/ (n.event = id /\ after[n] = New)
  BY <1>2, <1>3
<1>9. after \in [Notification -> Row]
  BY <1>1, <1>2, <1>3
<1> QED BY <1>6, <1>7, <1>8, <1>9 DEF New

\* Nothing but intake changes which rows the table has.
LEMMA SameRows ==
    ASSUME OutboxBounded, outbox' \in [Notification -> Row],
           \A n \in Notification : outbox'[n].state = "absent" <=> outbox[n].state = "absent"
    PROVE  OutboxBounded'
<1>1. Rows(outbox)' = Rows(outbox)
  BY DEF Rows
<1> QED BY <1>1 DEF OutboxBounded

LEMMA InitInv == OutboxAssumption /\ Init => OutboxInv
<1> SUFFICES ASSUME OutboxAssumption, Init PROVE OutboxInv
  OBVIOUS
<1>1. \A n \in Notification : outbox[n].state = "absent"
  BY DEF Init, Absent
<1>2. Rows(outbox) = {}
  BY <1>1 DEF Rows
<1>3. OutboxBounded
  BY <1>2, FS_EmptySet DEF OutboxBounded, OutboxAssumption
<1>4. TypeOK
  BY DEF Init, TypeOK, Absent, Row, OutboxAssumption
<1>5. DeliveredWasSent /\ BelievedWasSent /\ GivenUpForReason
  BY <1>1 DEF Init, DeliveredWasSent, BelievedWasSent, GivenUpForReason
<1> QED BY <1>3, <1>4, <1>5 DEF OutboxInv
-----------------------------------------------------------------------------
(* One lemma for each action that changes the table or a processor.        *)

LEMMA IngestInv ==
    ASSUME OutboxAssumption, OutboxInv,
           NEW key \in Occurrences, NEW fired \in SUBSET Rules, NEW cutoff,
           Ingest(key, fired, cutoff)
    PROVE  OutboxInv'
<1>1. /\ outbox' \in [Notification -> Row]
      /\ OutboxBounded'
      /\ \A n \in Notification :
            \/ outbox'[n] = Absent
            \/ outbox'[n] = outbox[n]
            \/ outbox'[n] = [state |-> "pending", attempts |-> 0,
                             due |-> TRUE, over |-> FALSE]
  BY AnnouncedRows DEF Ingest, OutboxInv, TypeOK, OutboxBounded
<1>2. lastId' \in 0..MaxIngests /\ lastId' \in 1..MaxIngests
  BY DEF Ingest, OutboxInv, TypeOK, OutboxAssumption
<1>3. events' \subseteq [id : 1..MaxIngests, key : Occurrences]
  BY <1>2 DEF Ingest, FirstOf, OutboxInv, TypeOK
<1>4. TypeOK'
  BY <1>1, <1>2, <1>3 DEF Ingest, processorVars, OutboxInv, TypeOK
<1>5. DeliveredWasSent'
  BY <1>1 DEF Ingest, OutboxInv, DeliveredWasSent, Absent
<1>6. BelievedWasSent'
  BY DEF Ingest, processorVars, OutboxInv, BelievedWasSent
<1>7. GivenUpForReason'
  BY <1>1 DEF OutboxInv, GivenUpForReason, Absent, OutboxAssumption
<1> QED BY <1>1, <1>4, <1>5, <1>6, <1>7 DEF OutboxInv

LEMMA SelectInv ==
    ASSUME OutboxAssumption, OutboxInv, NEW p \in Processors, Select(p)
    PROVE  OutboxInv'
<1>1. PICK chosen \in FirstOf(Selectable, BATCH, CreatedEarlier) :
        /\ batch' = [batch EXCEPT ![p] =
                       {[note |-> n, attempts |-> outbox[n].attempts] : n \in chosen}]
        /\ pc' = [pc EXCEPT ![p] = IF chosen = {} THEN "sweep" ELSE "deliver"]
  BY DEF Select
<1>2. chosen \subseteq Selectable
  BY <1>1 DEF FirstOf
<1>3. ASSUME NEW n \in chosen
      PROVE  [note |-> n, attempts |-> outbox[n].attempts] \in Snapshot
  <2>1. /\ n \in Notification /\ outbox[n].state = "pending"
        /\ outbox[n].attempts \in 0..MAX_ATTEMPTS
    BY <1>2 DEF Selectable, OutboxInv, TypeOK, Row
  <2>2. outbox[n].attempts < MAX_ATTEMPTS
    BY <2>1 DEF OutboxInv, GivenUpForReason
  <2> QED BY <2>1, <2>2 DEF Snapshot, OutboxAssumption
<1>4. TypeOK'
  <2>1. batch' \in [Processors -> SUBSET Snapshot]
    BY <1>1, <1>3 DEF OutboxInv, TypeOK
  <2>2. pc' \in [Processors -> {"idle", "deliver", "record", "sweep"}]
    BY <1>1 DEF OutboxInv, TypeOK
  <2> QED BY <2>1, <2>2 DEF Select, OutboxInv, TypeOK
<1>5. OutboxBounded' /\ DeliveredWasSent' /\ GivenUpForReason'
  BY DEF Select, OutboxInv, OutboxBounded, Rows, DeliveredWasSent, GivenUpForReason
<1>6. BelievedWasSent'
  BY <1>1 DEF Select, OutboxInv, BelievedWasSent, TypeOK
<1> QED BY <1>4, <1>5, <1>6 DEF OutboxInv

LEMMA DeliverInv ==
    ASSUME OutboxAssumption, OutboxInv, NEW p \in Processors,
           NEW outcome \in {"delivered", "unanswered", "failed"}, Deliver(p, outcome)
    PROVE  OutboxInv'
<1>1. PICK s \in batch[p] : /\ batch' = [batch EXCEPT ![p] = @ \ {s}]
                            /\ current' = [current EXCEPT ![p] = s]
                            /\ Delivered(s.note, outcome)
  BY DEF Deliver
<1>2. s \in Snapshot /\ s.note \in Notification
  BY DEF OutboxInv, TypeOK, Snapshot
<1>3. /\ sent' \in [Notification -> Nat]
      /\ \A n \in Notification : sent'[n] >= sent[n]
      /\ outcome = "delivered" => sent'[s.note] > 0
  BY <1>1, <1>2 DEF Delivered, OutboxInv, TypeOK
<1>4. TypeOK'
  <2>1. batch' \in [Processors -> SUBSET Snapshot]
    BY <1>1 DEF OutboxInv, TypeOK
  <2>2. current' \in [Processors -> Snapshot \cup {None}]
    BY <1>1, <1>2 DEF OutboxInv, TypeOK
  <2>3. result' \in [Processors -> {"delivered", "pending", None}]
    BY DEF Deliver, Believed, OutboxInv, TypeOK
  <2>4. pc' \in [Processors -> {"idle", "deliver", "record", "sweep"}]
    BY DEF Deliver, OutboxInv, TypeOK
  <2>5. \A q \in Processors : pc'[q] = "record" =>
             current'[q] \in Snapshot /\ result'[q] \in {"delivered", "pending"}
    BY <1>1, <1>2 DEF Deliver, Believed, OutboxInv, TypeOK
  <2> QED BY <1>3, <2>1, <2>2, <2>3, <2>4, <2>5 DEF Deliver, OutboxInv, TypeOK
<1>5. OutboxBounded' /\ GivenUpForReason'
  BY DEF Deliver, OutboxInv, OutboxBounded, Rows, GivenUpForReason
<1>6. DeliveredWasSent'
  BY <1>3 DEF Deliver, OutboxInv, DeliveredWasSent, TypeOK
<1>7. BelievedWasSent'
  <2> SUFFICES ASSUME NEW q \in Processors, pc'[q] = "record", result'[q] = "delivered"
               PROVE  sent'[current'[q].note] > 0
    BY DEF BelievedWasSent
  <2>1. CASE q = p
    <3>1. outcome = "delivered" /\ current'[q] = s
      BY <1>1, <2>1 DEF Deliver, Believed, OutboxInv, TypeOK
    <3> QED BY <1>3, <3>1
  <2>2. CASE q # p
    <3>1. /\ pc[q] = "record" /\ result[q] = "delivered"
          /\ current'[q] = current[q] /\ current[q] \in Snapshot \cup {None}
      BY <1>1, <2>2 DEF Deliver, OutboxInv, TypeOK
    <3>2. current[q] \in Snapshot
      BY <3>1 DEF OutboxInv, TypeOK
    <3>3. current[q].note \in Notification /\ sent[current[q].note] > 0
      BY <3>1, <3>2 DEF OutboxInv, BelievedWasSent, Snapshot
    <3> QED BY <1>3, <3>1, <3>3 DEF OutboxInv, TypeOK
  <2> QED BY <2>1, <2>2
<1> QED BY <1>4, <1>5, <1>6, <1>7 DEF OutboxInv

LEMMA RecordInv ==
    ASSUME OutboxAssumption, OutboxInv, NEW p \in Processors, Record(p)
    PROVE  OutboxInv'
<1>. DEFINE s == current[p]
            row == [outbox[s.note] EXCEPT !.state = NewState(s, result[p]),
                                          !.attempts = s.attempts + 1, !.due = FALSE]
<1>1. s \in Snapshot /\ s.note \in Notification /\ result[p] \in {"delivered", "pending"}
  BY DEF Record, OutboxInv, TypeOK, Snapshot
<1>2. outbox' = IF outbox[s.note].state = "absent" THEN outbox
                ELSE [outbox EXCEPT ![s.note] = row]
  BY <1>1 DEF Record, Recorded, OutboxInv, TypeOK
<1>3. /\ row.state = NewState(s, result[p])
      /\ row.attempts = s.attempts + 1
      /\ row.over = outbox[s.note].over
      /\ row \in Row
      /\ row.state # "absent"
  <2>1. outbox[s.note] \in Row
    BY <1>1 DEF OutboxInv, TypeOK
  <2>2. s.attempts \in 0..(MAX_ATTEMPTS - 1)
    BY <1>1 DEF Snapshot
  <2>3. NewState(s, result[p]) \in {"delivered", "pending", "expired"}
    BY <1>1 DEF NewState
  <2>4. s.attempts + 1 \in 0..MAX_ATTEMPTS
    BY <2>2 DEF OutboxAssumption
  <2>. HIDE DEF s
  <2> QED BY <2>1, <2>3, <2>4 DEF Row
<1>4. /\ row.state = "expired" => row.over \/ row.attempts = MAX_ATTEMPTS
      /\ row.state = "pending" => row.attempts < MAX_ATTEMPTS
      /\ row.state = "delivered" => result[p] = "delivered"
  <2>1. s.attempts \in 0..(MAX_ATTEMPTS - 1)
    BY <1>1 DEF Snapshot
  <2> QED BY <1>1, <1>3, <2>1 DEF NewState, OutboxAssumption
<1>. HIDE DEF s, row
<1>5. \A n \in Notification : outbox'[n] = outbox[n] \/ (n = s.note /\ outbox'[n] = row)
  BY <1>1, <1>2 DEF OutboxInv, TypeOK
<1>6. TypeOK'
  <2>1. outbox' \in [Notification -> Row]
    BY <1>1, <1>2, <1>3 DEF OutboxInv, TypeOK
  <2>2. /\ current' \in [Processors -> Snapshot \cup {None}]
        /\ result' \in [Processors -> {"delivered", "pending", None}]
        /\ pc' \in [Processors -> {"idle", "deliver", "record", "sweep"}]
    BY DEF Record, OutboxInv, TypeOK
  <2>3. \A q \in Processors : pc'[q] = "record" =>
             current'[q] \in Snapshot /\ result'[q] \in {"delivered", "pending"}
    BY DEF Record, OutboxInv, TypeOK
  <2> QED BY <2>1, <2>2, <2>3 DEF Record, OutboxInv, TypeOK
<1>7. OutboxBounded'
  <2>1. \A n \in Notification : outbox'[n].state = "absent" <=> outbox[n].state = "absent"
    BY <1>1, <1>2, <1>3 DEF OutboxInv, TypeOK
  <2> QED BY <1>6, <2>1, SameRows DEF OutboxInv, TypeOK
<1>8. DeliveredWasSent'
  <2>1. result[p] = "delivered" => sent[s.note] > 0
    BY DEF Record, OutboxInv, BelievedWasSent, s
  <2> QED BY <1>4, <1>5, <2>1 DEF Record, OutboxInv, DeliveredWasSent
<1>9. BelievedWasSent'
  BY DEF Record, OutboxInv, BelievedWasSent, TypeOK
<1>10. GivenUpForReason'
  BY <1>4, <1>5 DEF OutboxInv, GivenUpForReason
<1> QED BY <1>6, <1>7, <1>8, <1>9, <1>10 DEF OutboxInv

\* An action that only ends what processors are doing.
LEMMA ForgottenInv ==
    ASSUME OutboxInv, faults' \in 0..MaxFaults,
           UNCHANGED <<events, lastId, cooling, outbox, sent, alone>>,
           batch' \in [Processors -> SUBSET Snapshot],
           current' \in [Processors -> Snapshot \cup {None}],
           result' \in [Processors -> {"delivered", "pending", None}],
           pc' \in [Processors -> {"idle", "deliver", "record", "sweep"}],
           \A p \in Processors : pc'[p] = "record" =>
               pc[p] = "record" /\ current'[p] = current[p] /\ result'[p] = result[p]
    PROVE  OutboxInv'
<1>1. TypeOK'
  BY DEF OutboxInv, TypeOK
<1>2. OutboxBounded' /\ DeliveredWasSent' /\ GivenUpForReason'
  BY DEF OutboxInv, OutboxBounded, Rows, DeliveredWasSent, GivenUpForReason
<1>3. BelievedWasSent'
  BY DEF OutboxInv, BelievedWasSent
<1> QED BY <1>1, <1>2, <1>3 DEF OutboxInv

\* An action of time or of the sweep: rows keep their attempts, and one that
\* becomes due, over or expired is still accounted for.
LEMMA RowsInv ==
    ASSUME OutboxAssumption, OutboxInv, outbox' \in [Notification -> Row],
           UNCHANGED <<events, lastId, cooling, batch, current, result, sent, alone, faults>>,
           pc' \in [Processors -> {"idle", "deliver", "record", "sweep"}],
           \A p \in Processors : pc'[p] = "record" => pc[p] = "record",
           \A n \in Notification :
               /\ outbox'[n].attempts = outbox[n].attempts
               /\ outbox[n].over => outbox'[n].over
               /\ \/ outbox'[n].state = outbox[n].state
                  \/ /\ outbox[n].state # "absent"
                     /\ outbox'[n].state = "expired" /\ outbox'[n].over
    PROVE  OutboxInv'
<1>1. TypeOK'
  BY DEF OutboxInv, TypeOK
<1>2. OutboxBounded'
  BY SameRows DEF OutboxInv
<1>3. DeliveredWasSent' /\ BelievedWasSent'
  BY DEF OutboxInv, DeliveredWasSent, BelievedWasSent
<1>4. GivenUpForReason'
  BY DEF OutboxInv, GivenUpForReason
<1> QED BY <1>1, <1>2, <1>3, <1>4 DEF OutboxInv

LEMMA RecordFailsInv ==
    ASSUME OutboxAssumption, OutboxInv, NEW p \in Processors, RecordFails(p)
    PROVE  OutboxInv'
<1>1. faults' \in 0..MaxFaults
  BY DEF RecordFails, OutboxInv, TypeOK, OutboxAssumption
<1>2. /\ batch' \in [Processors -> SUBSET Snapshot]
      /\ current' \in [Processors -> Snapshot \cup {None}]
      /\ result' \in [Processors -> {"delivered", "pending", None}]
      /\ pc' \in [Processors -> {"idle", "deliver", "record", "sweep"}]
      /\ \A q \in Processors : pc'[q] = "record" =>
            pc[q] = "record" /\ current'[q] = current[q] /\ result'[q] = result[q]
  BY DEF RecordFails, Unfinished, OutboxInv, TypeOK
<1> QED BY <1>1, <1>2, ForgottenInv DEF RecordFails

LEMMA CrashInv == ASSUME OutboxAssumption, OutboxInv, Crash PROVE OutboxInv'
<1>1. faults' \in 0..MaxFaults
  BY DEF Crash, OutboxInv, TypeOK, OutboxAssumption
<1>2. /\ batch' \in [Processors -> SUBSET Snapshot]
      /\ current' \in [Processors -> Snapshot \cup {None}]
      /\ result' \in [Processors -> {"delivered", "pending", None}]
      /\ pc' \in [Processors -> {"idle", "deliver", "record", "sweep"}]
      /\ \A q \in Processors : pc'[q] # "record"
  BY DEF Crash
<1> QED BY <1>1, <1>2, ForgottenInv DEF Crash

LEMMA SweepInv ==
    ASSUME OutboxAssumption, OutboxInv, NEW p \in Processors, Sweep(p)
    PROVE  OutboxInv'
<1>1. ASSUME NEW n \in Notification
      PROVE  /\ SweptRow(outbox[n]) \in Row
             /\ SweptRow(outbox[n]).attempts = outbox[n].attempts
             /\ SweptRow(outbox[n]).over = outbox[n].over
             /\ \/ SweptRow(outbox[n]).state = outbox[n].state
                \/ /\ outbox[n].state # "absent"
                   /\ SweptRow(outbox[n]).state = "expired" /\ outbox[n].over
  <2>1. outbox[n] \in Row
    BY DEF OutboxInv, TypeOK
  <2> QED BY <2>1 DEF SweptRow, Row
<1>2. /\ outbox' = [n \in Notification |-> SweptRow(outbox[n])]
      /\ pc' \in [Processors -> {"idle", "deliver", "record", "sweep"}]
      /\ \A q \in Processors : pc'[q] = "record" => pc[q] = "record"
  BY DEF Sweep, OutboxInv, TypeOK
<1>3. outbox' \in [Notification -> Row]
  BY <1>1, <1>2
<1> QED BY <1>1, <1>2, <1>3, RowsInv DEF Sweep

LEMMA TimeInv ==
    ASSUME OutboxAssumption, OutboxInv, NEW n \in Notification,
           BackoffEnds(n) \/ DayEnds(n)
    PROVE  OutboxInv'
<1>1. ASSUME NEW m \in Notification
      PROVE  /\ outbox'[m] \in Row
             /\ outbox'[m].attempts = outbox[m].attempts
             /\ outbox'[m].state = outbox[m].state
             /\ outbox[m].over => outbox'[m].over
  <2>1. outbox \in [Notification -> Row] /\ outbox[m] \in Row
    BY DEF OutboxInv, TypeOK
  <2>2. CASE BackoffEnds(n)
    <3>1. outbox' = [outbox EXCEPT ![n].due = TRUE]
      BY <2>2 DEF BackoffEnds
    <3> QED BY <2>1, <3>1 DEF Row
  <2>3. CASE DayEnds(n)
    <3>1. outbox' = [outbox EXCEPT ![n].over = TRUE]
      BY <2>3 DEF DayEnds
    <3> QED BY <2>1, <3>1 DEF Row
  <2> QED BY <2>2, <2>3
<1>2. outbox' \in [Notification -> Row]
  BY <1>1 DEF BackoffEnds, DayEnds, OutboxInv, TypeOK
<1>3. /\ UNCHANGED <<events, lastId, cooling, batch, current, result, pc, sent, alone, faults>>
      /\ pc \in [Processors -> {"idle", "deliver", "record", "sweep"}]
  BY DEF BackoffEnds, DayEnds, processorVars, OutboxInv, TypeOK
<1> QED BY <1>1, <1>2, <1>3, RowsInv

LEMMA CooldownInv ==
    ASSUME OutboxInv, NEW r \in Rules, CooldownEnds(r) PROVE OutboxInv'
<1>1. TypeOK'
  BY DEF CooldownEnds, processorVars, OutboxInv, TypeOK
<1>2. OutboxBounded' /\ DeliveredWasSent' /\ BelievedWasSent' /\ GivenUpForReason'
  BY DEF CooldownEnds, processorVars, OutboxInv, OutboxBounded, Rows,
         DeliveredWasSent, BelievedWasSent, GivenUpForReason
<1> QED BY <1>1, <1>2 DEF OutboxInv

LEMMA StutterInv == OutboxInv /\ UNCHANGED vars => OutboxInv'
  BY DEF vars, OutboxInv, TypeOK, OutboxBounded, Rows, DeliveredWasSent,
         BelievedWasSent, GivenUpForReason

-----------------------------------------------------------------------------
(* The invariant of intake, delivery, retry, sweep, time and crashes.       *)
THEOREM OutboxInvariant == Spec => []OutboxInv
<1>1. Init => OutboxInv
  BY InitInv, OutboxAssumption
<1>2. OutboxInv /\ [Next]_vars => OutboxInv'
  <2> SUFFICES ASSUME OutboxInv, [Next]_vars PROVE OutboxInv'
    OBVIOUS
  <2>. USE OutboxAssumption
  <2>1. CASE \E key \in Occurrences, fired \in SUBSET Rules, cutoff \in Cutoffs :
                Ingest(key, fired, cutoff)
    BY <2>1, IngestInv
  <2>2. CASE \E r \in Rules : CooldownEnds(r)
    BY <2>2, CooldownInv
  <2>3. ASSUME NEW p \in Processors, Processing(p) PROVE OutboxInv'
    BY <2>3, SelectInv, DeliverInv, RecordInv, RecordFailsInv, SweepInv DEF Processing
  <2>4. CASE \E n \in Notification : BackoffEnds(n) \/ DayEnds(n)
    BY <2>4, TimeInv
  <2>5. CASE Crash
    BY <2>5, CrashInv
  <2>6. CASE UNCHANGED vars
    BY <2>6, StutterInv
  <2> QED BY <2>1, <2>2, <2>3, <2>4, <2>5, <2>6 DEF Next
<1> QED BY <1>1, <1>2, PTL DEF Spec

(* docs/events-and-automation.md: the queue is capped, for any cap.         *)
THEOREM OutboxCapped == Spec => []OutboxBounded
  BY OutboxInvariant, PTL DEF OutboxInv

(* A row called delivered was written to a destination that had accepted    *)
(* the connection, however many processors overwrite each other's view.     *)
THEOREM DeliveredTruly == Spec => []DeliveredWasSent
  BY OutboxInvariant, PTL DEF OutboxInv

(* Rows expire by age or by their last attempt only, and one that waits has *)
(* an attempt left.                                                         *)
THEOREM ExpiredForReason == Spec => []GivenUpForReason
  BY OutboxInvariant, PTL DEF OutboxInv
-----------------------------------------------------------------------------
(* What leaves the table.                                                  *)

\* A trim that drops a row keeps as many rows as the table holds, all of them
\* at least as new.
LEMMA TrimmedBehindNewer ==
    ASSUME OutboxAssumption, NEW table, NEW after \in Trimmed(table),
           NEW n \in Notification, table[n].state # "absent",
           after[n].state = "absent"
    PROVE  Cardinality({m \in Rows(after) : m.event >= n.event}) = MAX_OUTBOX
<1>1. PICK kept \in FirstOf(Rows(table), MAX_OUTBOX, CreatedLater) :
        after = [m \in Notification |-> IF m \in kept THEN table[m] ELSE Absent]
  BY DEF Trimmed
<1>2. /\ kept \subseteq Rows(table)
      /\ Cardinality(kept) = Min({Cardinality(Rows(table)), MAX_OUTBOX})
      /\ \A x \in kept, y \in Rows(table) \ kept : ~CreatedLater(y, x)
  BY <1>1 DEF FirstOf
<1>3. n \in Rows(table) /\ n \notin kept
  BY <1>1 DEF Rows
<1>4. Rows(after) = kept
  <2>1. \A m \in kept : m \in Notification /\ table[m].state # "absent"
    BY <1>2 DEF Rows
  <2>2. Absent.state = "absent"
    BY DEF Absent
  <2> QED BY <1>1, <2>1, <2>2 DEF Rows
<1>5. Cardinality(kept) < Cardinality(Rows(table))
  <2>1. IsFiniteSet(Rows(table))
    BY NotificationFinite, FS_Subset DEF Rows
  <2>2. Cardinality(kept) \in Nat /\ Cardinality(Rows(table)) \in Nat
        /\ Cardinality(kept) <= Cardinality(Rows(table))
        /\ (Cardinality(kept) = Cardinality(Rows(table)) => kept = Rows(table))
    BY <1>2, <2>1, FS_Subset, FS_CardinalityType
  <2> QED BY <1>3, <2>2
<1>6. Cardinality(kept) = MAX_OUTBOX
  <2>1. Cardinality(Rows(table)) \in Nat /\ MAX_OUTBOX \in Nat
    BY NotificationFinite, FS_Subset, FS_CardinalityType DEF Rows, OutboxAssumption
  <2>2. Min({Cardinality(Rows(table)), MAX_OUTBOX})
          \in {Cardinality(Rows(table)), MAX_OUTBOX}
    BY <2>1, SmallerOfTwo
  <2> QED BY <1>2, <1>5, <2>1, <2>2
<1>7. ASSUME NEW m \in kept PROVE m.event >= n.event
  <2>1. ~CreatedLater(n, m)
    BY <1>2, <1>3
  <2>2. ~(n.event > m.event)
    BY <2>1 DEF CreatedLater
  <2>3. m.event \in Nat /\ n.event \in Nat
    <3>1. m \in Notification
      BY <1>2 DEF Rows
    <3> QED BY <3>1 DEF Notification
  <2> QED BY <2>2, <2>3
<1>8. {m \in Rows(after) : m.event >= n.event} = kept
  BY <1>4, <1>7
<1> QED BY <1>6, <1>8

(* A notification leaves the table, or is not kept when its rule fires,    *)
(* only behind as many newer ones as the table holds: nothing but intake's *)
(* trim removes a row (event_service.py, apply_rules).                     *)
THEOREM LostOnlyWhenFull == Spec => DroppedOnlyWhenFull
<1> DEFINE Drops(n) == /\ outbox[n].state # "absent" \/ Raised(n)
                       /\ outbox'[n].state = "absent"
           Full(n) == Cardinality({m \in Rows(outbox') : m.event >= n.event}) = MAX_OUTBOX
           A == \A n \in Notification : Drops(n) => Full(n)
<1>1. OutboxInv /\ OutboxInv' /\ [Next]_vars => [A]_vars
  <2> SUFFICES ASSUME OutboxInv, OutboxInv', Next, NEW n \in Notification, Drops(n)
               PROVE  Full(n)
    OBVIOUS
  <2>t. outbox \in [Notification -> Row] /\ outbox[n] \in Row
    BY DEF OutboxInv, TypeOK
  <2>1. ASSUME NEW key \in Occurrences, NEW fired \in SUBSET Rules, NEW cutoff,
               Ingest(key, fired, cutoff)
        PROVE  Full(n)
    <3> DEFINE with == WithRows(outbox, lastId', fired)
    <3>1. outbox' \in Trimmed(with) /\ cooling' = cooling \cup fired
      BY <2>1 DEF Ingest, Announced
    <3>2. with[n].state # "absent"
      <4>1. Raised(n) => n.rule \in fired /\ n.event = lastId'
        BY <3>1 DEF Raised
      <4> QED BY <4>1 DEF WithRows
    <3> HIDE DEF with
    <3> QED BY <3>1, <3>2, OutboxAssumption, TrimmedBehindNewer
  <2>2. ASSUME cooling' \subseteq cooling,
               outbox[n].state # "absent" => outbox'[n].state # "absent"
        PROVE  Full(n)
    BY <2>2 DEF Raised
  <2>3. CASE \E r \in Rules : CooldownEnds(r)
    BY <2>2, <2>3 DEF CooldownEnds
  <2>4. ASSUME NEW p \in Processors, Processing(p)
        PROVE  Full(n)
    <3>1. ASSUME Record(p)
          PROVE  outbox[n].state # "absent" => outbox'[n].state # "absent"
      <4>1. /\ outbox' = Recorded(current[p], result[p])
            /\ current[p].note \in Notification /\ result[p] \in {"delivered", "pending"}
        BY <3>1 DEF Record, OutboxInv, TypeOK, Snapshot
      <4>2. NewState(current[p], result[p]) # "absent"
        BY <4>1 DEF NewState
      <4>3. ASSUME n = current[p].note, outbox[n].state # "absent"
            PROVE  outbox'[n].state # "absent"
        BY <4>1, <4>2, <4>3, <2>t DEF Recorded, Row
      <4>4. ASSUME n # current[p].note
            PROVE  outbox'[n] = outbox[n]
        BY <4>1, <4>4, <2>t DEF Recorded
      <4> QED BY <4>3, <4>4
    <3>2. ASSUME Sweep(p)
          PROVE  outbox[n].state # "absent" => outbox'[n].state # "absent"
      <4>1. outbox'[n] = SweptRow(outbox[n])
        BY <3>2 DEF Sweep
      <4> QED BY <4>1, <2>t DEF SweptRow, Row
    <3>3. cooling' = cooling
      BY <2>4 DEF Processing, Select, Deliver, Record, RecordFails, Sweep
    <3>4. Record(p) \/ Sweep(p) \/ outbox' = outbox
      BY <2>4 DEF Processing, Select, Deliver, RecordFails
    <3> QED BY <2>2, <3>1, <3>2, <3>3, <3>4
  <2>5. ASSUME NEW m \in Notification, BackoffEnds(m) \/ DayEnds(m)
        PROVE  Full(n)
    <3>1. outbox'[n].state = outbox[n].state
      <4>1. CASE BackoffEnds(m)
        BY <4>1, <2>t DEF BackoffEnds, Row
      <4>2. CASE DayEnds(m)
        BY <4>2, <2>t DEF DayEnds, Row
      <4> QED BY <2>5, <4>1, <4>2
    <3> QED BY <2>2, <2>5, <3>1 DEF BackoffEnds, DayEnds
  <2>6. CASE Crash
    BY <2>2, <2>6 DEF Crash
  <2> QED BY <2>1, <2>3, <2>4, <2>5, <2>6 DEF Next
<1> QED BY <1>1, OutboxInvariant, PTL DEF Spec, DroppedOnlyWhenFull
-----------------------------------------------------------------------------
(* How often a lone processor sends.                                       *)

Kept(n) == outbox[n].state # "absent"
InFlight(w, n) == pc[w] = "record" /\ current[w].note = n

\* Each row counts the deliveries of its notification but for those whose
\* update failed, and the processor's own view of a row is the row's.
NothingBeforeIntake ==
    \A n \in Notification : n.event > lastId => ~Kept(n) /\ sent[n] = 0

RowsCount(w) ==
    \A n \in Notification : Kept(n) /\ ~InFlight(w, n)
                              => sent[n] <= outbox[n].attempts + faults

SelectedCount(w) ==
    \A s \in batch[w] :
        /\ s.note.event <= lastId
        /\ sent[s.note] <= s.attempts + faults
        /\ Kept(s.note) => outbox[s.note].attempts = s.attempts
        /\ \A t \in batch[w] : t.note = s.note => t = s

InFlightCounts(w) ==
    pc[w] = "record" =>
        /\ current[w].note.event <= lastId
        /\ sent[current[w].note] <= current[w].attempts + 1 + faults
        /\ Kept(current[w].note) =>
              outbox[current[w].note].attempts = current[w].attempts
        /\ \A t \in batch[w] : t.note # current[w].note

WithinAttempts == \A n \in Notification : sent[n] <= MAX_ATTEMPTS + faults

LoneInv(w) == /\ WithinAttempts /\ NothingBeforeIntake /\ RowsCount(w)
              /\ SelectedCount(w) /\ InFlightCounts(w)
LEMMA LoneInit ==
    ASSUME OutboxAssumption, NEW w \in Processors, Init
    PROVE  LoneInv(w)
  BY DEF LoneInv, WithinAttempts, NothingBeforeIntake, RowsCount, SelectedCount,
         InFlightCounts, Kept, Init, Absent, OutboxAssumption

\* Steps that deliver and count nothing.
LEMMA LoneRests ==
    ASSUME OutboxInv, NEW w \in Processors, LoneInv(w),
           UNCHANGED <<lastId, sent, batch, current, faults>>,
           pc'[w] = "record" <=> pc[w] = "record",
           \A n \in Notification : /\ Kept(n)' <=> Kept(n)
                                  /\ outbox'[n].attempts = outbox[n].attempts
    PROVE  LoneInv(w)'
<1>1. \A s \in batch[w] : s.note \in Notification
  BY DEF OutboxInv, TypeOK, Snapshot
<1>2. pc[w] = "record" => current[w].note \in Notification
  BY DEF OutboxInv, TypeOK, Snapshot
<1>3. WithinAttempts' /\ NothingBeforeIntake' /\ RowsCount(w)'
  BY DEF LoneInv, WithinAttempts, NothingBeforeIntake, RowsCount, InFlight
<1>4. SelectedCount(w)'
  BY <1>1 DEF LoneInv, SelectedCount
<1>5. InFlightCounts(w)'
  BY <1>2 DEF LoneInv, InFlightCounts
<1> QED BY <1>3, <1>4, <1>5 DEF LoneInv

\* A crash or a failed update forgets at most one delivery.
LEMMA LoneForgets ==
    ASSUME OutboxAssumption, OutboxInv, NEW w \in Processors, LoneInv(w),
           UNCHANGED <<lastId, sent, outbox>>, faults' = faults + 1,
           batch'[w] = {}, pc'[w] = "idle"
    PROVE  LoneInv(w)'
<1>t. /\ faults \in Nat /\ MAX_ATTEMPTS \in Nat
      /\ \A n \in Notification : sent[n] \in Nat /\ outbox[n].attempts \in Nat
  BY DEF OutboxInv, TypeOK, Row, OutboxAssumption
<1>1. WithinAttempts' /\ NothingBeforeIntake'
  BY <1>t DEF LoneInv, WithinAttempts, NothingBeforeIntake, Kept
<1>2. ASSUME NEW n \in Notification, Kept(n)
      PROVE  sent[n] <= outbox[n].attempts + faults + 1
  <2>1. CASE InFlight(w, n)
    BY <1>t, <1>2, <2>1 DEF LoneInv, InFlightCounts, InFlight
  <2>2. CASE ~InFlight(w, n)
    <3>1. sent[n] <= outbox[n].attempts + faults
      BY <1>2, <2>2 DEF LoneInv, RowsCount
    <3> QED BY <1>t, <3>1
  <2> QED BY <2>1, <2>2
<1>3. RowsCount(w)'
  BY <1>t, <1>2 DEF RowsCount, Kept
<1>4. SelectedCount(w)' /\ InFlightCounts(w)'
  BY DEF SelectedCount, InFlightCounts
<1> QED BY <1>1, <1>3, <1>4 DEF LoneInv

LEMMA LoneIngest ==
    ASSUME OutboxAssumption, OutboxInv, NEW w \in Processors, LoneInv(w),
           NEW key \in Occurrences, NEW fired \in SUBSET Rules, NEW cutoff,
           Ingest(key, fired, cutoff)
    PROVE  LoneInv(w)'
<1>1. /\ lastId \in Nat /\ lastId' = lastId + 1 /\ faults \in Nat
      /\ UNCHANGED <<batch, current, pc, sent, faults>>
  BY DEF Ingest, processorVars, OutboxInv, TypeOK
<1>2. ASSUME NEW n \in Notification
      PROVE  \/ outbox'[n] = Absent
             \/ outbox'[n] = outbox[n]
             \/ /\ n.event = lastId'
                /\ outbox'[n] = [state |-> "pending", attempts |-> 0,
                                 due |-> TRUE, over |-> FALSE]
  BY AnnouncedRows DEF Ingest, OutboxInv, TypeOK
<1>3. ASSUME NEW n \in Notification
      PROVE  n.event \in Nat
  BY DEF Notification
<1>4. WithinAttempts'
  BY <1>1 DEF LoneInv, WithinAttempts
<1>5. NothingBeforeIntake'
  <2> SUFFICES ASSUME NEW n \in Notification, n.event > lastId'
               PROVE  ~Kept(n)' /\ sent'[n] = 0
    BY DEF NothingBeforeIntake
  <2>1. n.event > lastId /\ n.event # lastId'
    BY <1>1, <1>3
  <2>2. ~Kept(n) /\ sent[n] = 0
    BY <2>1 DEF LoneInv, NothingBeforeIntake
  <2> QED BY <1>1, <1>2, <2>1, <2>2 DEF Kept, Absent
<1>6. RowsCount(w)'
  <2> SUFFICES ASSUME NEW n \in Notification, Kept(n)', ~InFlight(w, n)'
               PROVE  sent'[n] <= outbox'[n].attempts + faults'
    BY DEF RowsCount
  <2>1. CASE outbox'[n] = outbox[n]
    BY <1>1, <2>1 DEF LoneInv, RowsCount, Kept, InFlight
  <2>2. CASE n.event = lastId' /\ outbox'[n].attempts = 0
    <3>1. n.event > lastId
      BY <1>1, <2>2
    <3>2. sent[n] = 0
      BY <3>1 DEF LoneInv, NothingBeforeIntake
    <3> QED BY <1>1, <2>2, <3>2
  <2> QED BY <1>2, <2>1, <2>2 DEF Kept, Absent
\* A row that is selected or in flight is older than the new event.
<1>7. ASSUME NEW n \in Notification, n.event <= lastId, Kept(n)'
      PROVE  outbox'[n] = outbox[n] /\ Kept(n)
  <2>1. n.event # lastId'
    BY <1>1, <1>3, <1>7
  <2> QED BY <1>2, <1>7, <2>1 DEF Kept, Absent
<1>8. SelectedCount(w)'
  <2> SUFFICES ASSUME NEW s \in batch[w]
               PROVE  /\ s.note.event <= lastId'
                      /\ sent[s.note] <= s.attempts + faults
                      /\ Kept(s.note)' => outbox'[s.note].attempts = s.attempts
                      /\ \A t \in batch[w] : t.note = s.note => t = s
    BY <1>1 DEF SelectedCount
  <2>1. s.note \in Notification
    BY DEF OutboxInv, TypeOK, Snapshot
  <2>2. /\ s.note.event <= lastId
        /\ sent[s.note] <= s.attempts + faults
        /\ Kept(s.note) => outbox[s.note].attempts = s.attempts
        /\ \A t \in batch[w] : t.note = s.note => t = s
    BY DEF LoneInv, SelectedCount
  <2>3. s.note.event <= lastId'
    BY <1>1, <1>3, <2>1, <2>2
  <2>4. Kept(s.note)' => outbox'[s.note] = outbox[s.note] /\ Kept(s.note)
    BY <1>7, <2>1, <2>2
  <2> QED BY <2>2, <2>3, <2>4
<1>9. InFlightCounts(w)'
  <2> SUFFICES ASSUME pc[w] = "record"
               PROVE  /\ current[w].note.event <= lastId'
                      /\ sent[current[w].note] <= current[w].attempts + 1 + faults
                      /\ Kept(current[w].note)' =>
                            outbox'[current[w].note].attempts = current[w].attempts
                      /\ \A t \in batch[w] : t.note # current[w].note
    BY <1>1 DEF InFlightCounts
  <2>1. current[w].note \in Notification
    BY DEF OutboxInv, TypeOK, Snapshot
  <2>2. /\ current[w].note.event <= lastId
        /\ sent[current[w].note] <= current[w].attempts + 1 + faults
        /\ Kept(current[w].note) =>
              outbox[current[w].note].attempts = current[w].attempts
        /\ \A t \in batch[w] : t.note # current[w].note
    BY DEF LoneInv, InFlightCounts
  <2>3. current[w].note.event <= lastId'
    BY <1>1, <1>3, <2>1, <2>2
  <2>4. ASSUME Kept(current[w].note)'
        PROVE  outbox'[current[w].note] = outbox[current[w].note] /\ Kept(current[w].note)
    <3>1. Kept(current[w].note)' <=> outbox'[current[w].note].state # "absent"
      BY <1>1 DEF Kept
    <3> QED BY <1>1, <1>7, <2>1, <2>2, <2>4
  <2> QED BY <2>2, <2>3, <2>4
<1> QED BY <1>4, <1>5, <1>6, <1>8, <1>9 DEF LoneInv
LEMMA LoneSelect ==
    ASSUME OutboxInv, NEW w \in Processors, LoneInv(w), Select(w)
    PROVE  LoneInv(w)'
<1>1. PICK chosen \in FirstOf(Selectable, BATCH, CreatedEarlier) :
        /\ batch'[w] = {[note |-> n, attempts |-> outbox[n].attempts] : n \in chosen}
        /\ pc'[w] # "record"
  BY DEF Select, OutboxInv, TypeOK
<1>2. /\ pc[w] # "record"
      /\ UNCHANGED <<lastId, outbox, sent, faults>>
  BY DEF Select
<1>3. WithinAttempts' /\ NothingBeforeIntake' /\ RowsCount(w)' /\ InFlightCounts(w)'
  BY <1>1, <1>2 DEF LoneInv, WithinAttempts, NothingBeforeIntake, RowsCount,
                    InFlightCounts, InFlight, Kept
<1>4. ASSUME NEW n \in chosen
      PROVE  n.event <= lastId /\ sent[n] <= outbox[n].attempts + faults
  <2>1. n \in Notification /\ outbox[n].state = "pending"
    BY <1>1 DEF FirstOf, Selectable
  <2>2. n.event \in Nat /\ lastId \in Nat
    BY <2>1 DEF Notification, OutboxInv, TypeOK
  <2>3. ~(n.event > lastId)
    BY <2>1 DEF LoneInv, NothingBeforeIntake, Kept
  <2>4. sent[n] <= outbox[n].attempts + faults
    BY <2>1, <1>2 DEF LoneInv, RowsCount, Kept, InFlight
  <2> QED BY <2>2, <2>3, <2>4
<1>5. SelectedCount(w)'
  <2> SUFFICES ASSUME NEW s \in batch'[w]
               PROVE  /\ s.note.event <= lastId
                      /\ sent[s.note] <= s.attempts + faults
                      /\ outbox[s.note].attempts = s.attempts
                      /\ \A t \in batch'[w] : t.note = s.note => t = s
    BY <1>2 DEF SelectedCount
  <2>1. PICK n \in chosen : s = [note |-> n, attempts |-> outbox[n].attempts]
    BY <1>1
  <2>2. ASSUME NEW t \in batch'[w], t.note = s.note
        PROVE  t = s
    <3>1. PICK m \in chosen : t = [note |-> m, attempts |-> outbox[m].attempts]
      BY <1>1
    <3>2. m = n
      BY <2>1, <2>2, <3>1
    <3> QED BY <2>1, <3>1, <3>2
  <2> QED BY <1>4, <2>1, <2>2
<1> QED BY <1>3, <1>5 DEF LoneInv

LEMMA LoneDeliver ==
    ASSUME OutboxAssumption, OutboxInv, NEW w \in Processors, LoneInv(w),
           NEW outcome \in {"delivered", "unanswered", "failed"}, Deliver(w, outcome)
    PROVE  LoneInv(w)'
<1>1. PICK s \in batch[w] : /\ batch'[w] = batch[w] \ {s}
                            /\ current'[w] = s
                            /\ Delivered(s.note, outcome)
  BY DEF Deliver, OutboxInv, TypeOK
<1>2. /\ pc[w] # "record" /\ pc'[w] = "record"
      /\ UNCHANGED <<lastId, outbox, faults>>
  BY DEF Deliver, OutboxInv, TypeOK
<1>t. /\ s.note \in Notification /\ s.attempts \in 0..(MAX_ATTEMPTS - 1)
      /\ faults \in Nat /\ MAX_ATTEMPTS \in Nat /\ sent \in [Notification -> Nat]
  BY DEF OutboxInv, TypeOK, Snapshot, OutboxAssumption
<1>3. /\ s.note.event <= lastId
      /\ sent[s.note] <= s.attempts + faults
      /\ Kept(s.note) => outbox[s.note].attempts = s.attempts
      /\ \A t \in batch[w] : t.note = s.note => t = s
  BY DEF LoneInv, SelectedCount
<1>4. /\ sent'[s.note] <= sent[s.note] + 1
      /\ \A n \in Notification \ {s.note} : sent'[n] = sent[n]
      /\ sent' \in [Notification -> Nat]
  BY <1>1, <1>t DEF Delivered
<1>5. sent'[s.note] <= s.attempts + 1 + faults
  <2>1. sent[s.note] \in Nat /\ sent'[s.note] \in Nat /\ s.attempts \in Nat
    BY <1>t, <1>4
  <2> QED BY <1>t, <1>3, <1>4, <2>1
<1>6. WithinAttempts'
  <2>1. sent'[s.note] <= MAX_ATTEMPTS + faults
    <3>1. sent'[s.note] \in Nat
      BY <1>t, <1>4
    <3> QED BY <1>t, <1>5, <3>1
  <2> QED BY <1>2, <1>4, <2>1 DEF LoneInv, WithinAttempts
<1>7. NothingBeforeIntake'
  <2>1. s.note.event \in Nat /\ lastId \in Nat
    BY <1>t DEF Notification, OutboxInv, TypeOK
  <2>2. ~(s.note.event > lastId)
    BY <1>3, <2>1
  <2> QED BY <1>2, <1>4, <2>2 DEF LoneInv, NothingBeforeIntake, Kept
<1>8. RowsCount(w)'
  <2> SUFFICES ASSUME NEW n \in Notification, Kept(n), n # s.note
               PROVE  sent'[n] <= outbox[n].attempts + faults
    BY <1>1, <1>2 DEF RowsCount, Kept, InFlight
  <2>1. sent[n] <= outbox[n].attempts + faults
    BY <1>2 DEF LoneInv, RowsCount, InFlight
  <2> QED BY <1>4, <2>1
<1>9. SelectedCount(w)'
  <2> SUFFICES ASSUME NEW t \in batch[w], t # s
               PROVE  /\ t.note.event <= lastId
                      /\ sent'[t.note] <= t.attempts + faults
                      /\ Kept(t.note) => outbox[t.note].attempts = t.attempts
                      /\ \A u \in batch[w] : u.note = t.note => u = t
    BY <1>1, <1>2 DEF SelectedCount, Kept
  <2>1. t.note \in Notification /\ t.note # s.note
    BY <1>3 DEF OutboxInv, TypeOK, Snapshot
  <2>2. sent'[t.note] = sent[t.note]
    BY <1>4, <2>1
  <2> QED BY <2>2 DEF LoneInv, SelectedCount
<1>10. InFlightCounts(w)'
  <2>1. \A t \in batch'[w] : t.note # s.note
    BY <1>1, <1>3
  <2> QED BY <1>1, <1>2, <1>3, <1>5, <2>1 DEF InFlightCounts, Kept
<1> QED BY <1>6, <1>7, <1>8, <1>9, <1>10 DEF LoneInv

LEMMA LoneRecord ==
    ASSUME OutboxAssumption, OutboxInv, NEW w \in Processors, LoneInv(w), Record(w)
    PROVE  LoneInv(w)'
<1>1. PICK s : s = current[w]
  OBVIOUS
<1>2. /\ s \in Snapshot /\ s.note \in Notification /\ s.attempts \in Nat
      /\ pc[w] = "record" /\ pc'[w] # "record"
      /\ UNCHANGED <<lastId, batch, sent, faults>>
  BY <1>1 DEF Record, OutboxInv, TypeOK, Snapshot
<1>3. /\ s.note.event <= lastId
      /\ sent[s.note] <= s.attempts + 1 + faults
      /\ \A t \in batch[w] : t.note # s.note
  BY <1>1, <1>2 DEF LoneInv, InFlightCounts
<1>4. /\ \A n \in Notification \ {s.note} : outbox'[n] = outbox[n]
      /\ Kept(s.note) => outbox'[s.note].attempts = s.attempts + 1
      /\ ~Kept(s.note) => outbox'[s.note] = outbox[s.note]
  <2>1. outbox' = Recorded(s, result[w])
    BY <1>1 DEF Record
  <2>2. outbox \in [Notification -> Row] /\ outbox[s.note] \in Row
    BY <1>2 DEF OutboxInv, TypeOK
  <2> QED BY <1>2, <2>1, <2>2 DEF Recorded, Kept, Row
<1>5. WithinAttempts' /\ InFlightCounts(w)'
  BY <1>2 DEF LoneInv, WithinAttempts, InFlightCounts
<1>6. NothingBeforeIntake'
  <2>1. s.note.event \in Nat /\ lastId \in Nat
    BY <1>2 DEF Notification, OutboxInv, TypeOK
  <2>2. ~(s.note.event > lastId)
    BY <1>3, <2>1
  <2> QED BY <1>2, <1>4, <2>2 DEF LoneInv, NothingBeforeIntake, Kept
<1>7. RowsCount(w)'
  <2> SUFFICES ASSUME NEW n \in Notification, Kept(n)'
               PROVE  sent[n] <= outbox'[n].attempts + faults
    BY <1>2 DEF RowsCount
  <2>1. CASE n = s.note
    <3>1. Kept(s.note)
      BY <1>4, <2>1 DEF Kept
    <3> QED BY <1>3, <1>4, <2>1, <3>1
  <2>2. CASE n # s.note
    <3>1. outbox'[n] = outbox[n] /\ Kept(n) /\ ~InFlight(w, n)
      BY <1>1, <1>4, <2>2 DEF Kept, InFlight
    <3> QED BY <3>1 DEF LoneInv, RowsCount
  <2> QED BY <2>1, <2>2
<1>8. SelectedCount(w)'
  <2>1. \A t \in batch[w] : t.note \in Notification /\ outbox'[t.note] = outbox[t.note]
    BY <1>3, <1>4 DEF OutboxInv, TypeOK, Snapshot
  <2> QED BY <1>2, <2>1 DEF LoneInv, SelectedCount, Kept
<1> QED BY <1>5, <1>6, <1>7, <1>8 DEF LoneInv

\* Nobody else processes the outbox, and what the loop does is counted.
AloneInv ==
    alone => /\ LoneInv(Loop)
             /\ \A p \in Processors \ {Loop} : pc[p] = "idle"

\* A step of the loop, of the intake or of time, while the loop is alone.
LEMMA LoneStep ==
    ASSUME OutboxInv, LoneInv(Loop), [Next]_vars,
           \A p \in Processors \ {Loop} : ~Processing(p)
    PROVE  LoneInv(Loop)'
<1> DEFINE w == Loop
<1> USE OutboxAssumption
<1>0. w \in Processors
  BY DEF OutboxAssumption
<1>1. ASSUME NEW key \in Occurrences, NEW fired \in SUBSET Rules, NEW cutoff,
             Ingest(key, fired, cutoff)
      PROVE  LoneInv(w)'
  BY <1>0, <1>1, LoneIngest
<1>2. CASE \E r \in Rules : CooldownEnds(r)
  BY <1>0, <1>2, LoneRests DEF CooldownEnds, processorVars, Kept
<1>3. CASE Select(w)
  BY <1>0, <1>3, LoneSelect
<1>4. ASSUME NEW outcome \in {"delivered", "unanswered", "failed"}, Deliver(w, outcome)
      PROVE  LoneInv(w)'
  BY <1>0, <1>4, LoneDeliver
<1>5. CASE Record(w)
  BY <1>0, <1>5, LoneRecord
<1>6. CASE RecordFails(w) \/ Crash
  <2>1. /\ UNCHANGED <<lastId, sent, outbox>> /\ faults' = faults + 1
          /\ batch'[w] = {} /\ pc'[w] = "idle"
    BY <1>0, <1>6 DEF RecordFails, Unfinished, Crash, OutboxInv, TypeOK
  <2> QED BY <1>0, <2>1, LoneForgets
<1>7. CASE Sweep(w)
  <2>1. /\ UNCHANGED <<lastId, sent, batch, current, faults>>
          /\ pc[w] # "record" /\ pc'[w] # "record"
    BY <1>0, <1>7 DEF Sweep, OutboxInv, TypeOK
  <2>2. ASSUME NEW n \in Notification
        PROVE  (Kept(n)' <=> Kept(n)) /\ outbox'[n].attempts = outbox[n].attempts
    <3>1. outbox'[n] = SweptRow(outbox[n]) /\ outbox[n] \in Row
      BY <1>7 DEF Sweep, OutboxInv, TypeOK
    <3> QED BY <3>1 DEF SweptRow, Row, Kept
  <2> QED BY <1>0, <2>1, <2>2, LoneRests
<1>8. ASSUME NEW m \in Notification, BackoffEnds(m) \/ DayEnds(m)
      PROVE  LoneInv(w)'
  <2>1. UNCHANGED <<lastId, sent, batch, current, faults, pc>>
    BY <1>8 DEF BackoffEnds, DayEnds, processorVars
  <2>2. ASSUME NEW n \in Notification
        PROVE  (Kept(n)' <=> Kept(n)) /\ outbox'[n].attempts = outbox[n].attempts
    <3>1. outbox \in [Notification -> Row] /\ outbox[n] \in Row
      BY DEF OutboxInv, TypeOK
    <3>2. CASE BackoffEnds(m)
      BY <3>1, <3>2 DEF BackoffEnds, Row, Kept
    <3>3. CASE DayEnds(m)
      BY <3>1, <3>3 DEF DayEnds, Row, Kept
    <3> QED BY <1>8, <3>2, <3>3
  <2> QED BY <1>0, <2>1, <2>2, LoneRests
<1>9. CASE UNCHANGED vars
  BY <1>0, <1>9, LoneRests DEF vars, Kept
<1>10. CASE \E p \in Processors : Processing(p)
  <2>1. Processing(w)
    BY <1>10
  <2> QED BY <2>1, <1>3, <1>4, <1>5, <1>6, <1>7 DEF Processing
<1> QED BY <1>1, <1>2, <1>6, <1>8, <1>9, <1>10 DEF Next

\* The others stay idle until one of them selects rows.
LEMMA AloneStep == OutboxInv /\ AloneInv /\ [Next]_vars => AloneInv'
<1> SUFFICES ASSUME OutboxInv, AloneInv, [Next]_vars, alone'
             PROVE  LoneInv(Loop)' /\ \A p \in Processors \ {Loop} : pc'[p] = "idle"
  BY DEF AloneInv
<1>1. ASSUME NEW p \in Processors \ {Loop}, Processing(p)
      PROVE  FALSE
  <2>1. CASE Select(p)
    BY <2>1 DEF Select
  <2>2. CASE alone
    <3>1. pc[p] = "idle"
      BY <2>2 DEF AloneInv
    <3> QED BY <1>1, <2>1, <3>1 DEF Processing, Deliver, Record, RecordFails, Sweep
  <2> QED BY <1>1, <2>1, <2>2 DEF Processing, Deliver, Record, RecordFails, Sweep
<1>2. alone
  <2>1. CASE \E p \in Processors : Processing(p)
    BY <1>1, <2>1 DEF Processing, Select, Deliver, Record, RecordFails, Sweep
  <2> QED BY <2>1 DEF Next, Ingest, CooldownEnds, BackoffEnds, DayEnds, Crash, vars
<1>3. LoneInv(Loop)'
  BY <1>1, <1>2, LoneStep DEF AloneInv
<1>4. ASSUME NEW p \in Processors \ {Loop}
      PROVE  pc'[p] = "idle"
  <2>1. pc[p] = "idle" /\ pc \in [Processors -> {"idle", "deliver", "record", "sweep"}]
    BY <1>2 DEF AloneInv, OutboxInv, TypeOK
  <2>2. CASE Processing(Loop)
    BY <2>1, <2>2 DEF Processing, Select, Deliver, Record, RecordFails, Unfinished, Sweep
  <2>3. CASE Crash
    BY <2>3 DEF Crash
  <2> QED BY <1>1, <2>1, <2>2, <2>3 DEF Next, Ingest, CooldownEnds, BackoffEnds, DayEnds,
                                        processorVars, vars
<1> QED BY <1>3, <1>4

(* docs/events-and-automation.md, "retries at most eight times": as long as *)
(* only the service's loop processes the outbox it sends a notification at  *)
(* most as often as it has attempts, and once more for each crash or failed *)
(* update, for any number of rules, rows, attempts and faults and any batch. *)
(* (With two processors it is not so: each counts the attempts from the row *)
(* it selected.)                                                            *)
THEOREM LoneWithinAttempts == Spec => []SentWithinLimit
<1>1. Init => AloneInv
  <2> SUFFICES ASSUME Init PROVE AloneInv
    OBVIOUS
  <2>1. Loop \in Processors
    BY OutboxAssumption DEF OutboxAssumption
  <2>2. LoneInv(Loop)
    BY <2>1, LoneInit, OutboxAssumption
  <2> QED BY <2>2 DEF AloneInv, Init
<1>2. AloneInv => SentWithinLimit
  BY DEF AloneInv, LoneInv, WithinAttempts, SentWithinLimit
<1> QED BY <1>1, <1>2, AloneStep, OutboxInvariant, PTL DEF Spec
=============================================================================
