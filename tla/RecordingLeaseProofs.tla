------------------------ MODULE RecordingLeaseProofs ------------------------
(***************************************************************************)
(* Proofs about RecordingLease: LeaseInv is inductive, and the fencing     *)
(* properties follow from it for every set of nodes and cameras, all time  *)
(* parameters and any number of faults.                                    *)
(***************************************************************************)
EXTENDS RecordingLease, TLAPS

-----------------------------------------------------------------------------
(* Updates of one field of a record.                                       *)

LEMMA StateUpdate ==
    ASSUME NEW a \in AssignmentRow, NEW s \in {"none", "active", "revoked", "ended"},
           NEW i \in Nat
    PROVE  /\ [a EXCEPT !.state = s] \in AssignmentRow
           /\ [a EXCEPT !.isolation = i] \in AssignmentRow
           /\ [a EXCEPT !.state = s, !.isolation = i] \in AssignmentRow
  BY DEF AssignmentRow

LEMMA NodeUpdate ==
    ASSUME NEW r \in NodeRow, NEW s \in Statuses, NEW t \in Nat, NEW b \in BOOLEAN
    PROVE  /\ [r EXCEPT !.status = s] \in NodeRow
           /\ [r EXCEPT !.revoked = b, !.status = s] \in NodeRow
           /\ [r EXCEPT !.status = s, !.lastSeen = t] \in NodeRow
  BY DEF NodeRow

LEMMA AgentRowUpdate ==
    ASSUME NEW r \in AgentRow, NEW i \in Nat
    PROVE  [r EXCEPT !.isolation = i] \in AgentRow
  BY DEF AgentRow

-----------------------------------------------------------------------------
BeliefInv == /\ BelievedDeadlineCovered
             /\ HeldIssued
             /\ HeldByOne
             /\ RowsPositive
             /\ FormerDeadlinePassed

\* Beliefs that only shrink keep everything said about them, as long as no
\* camera changes hands and no deadline comes nearer.
LEMMA BeliefShrinks ==
    ASSUME LeaseInv, TypeOK',
           \A n \in Nodes : Believed(n)' \subseteq Believed(n),
           \A n \in Nodes, c \in Cameras, g \in Nat \ {0} :
               Holds(n, c, g)' => Holds(n, c, g),
           \A c \in Cameras :
               /\ assignment'[c].node = assignment[c].node
               /\ assignment'[c].generation = assignment[c].generation
               /\ assignment'[c].isolation >= assignment[c].isolation,
           UNCHANGED <<movedAt, released>>
    PROVE  BeliefInv'
<1>1. BelievedDeadlineCovered'
  <2> SUFFICES ASSUME NEW n \in Nodes, NEW row \in Believed(n)',
                      assignment'[row.camera].node = n,
                      ~Released(n, row)'
               PROVE  row.isolation <= assignment'[row.camera].isolation
    BY DEF BelievedDeadlineCovered
  <2>1. row \in Believed(n) /\ row \in AgentRow
    BY DEF LeaseInv, TypeOK, Believed
  <2>2. row.camera \in Cameras /\ row.isolation \in Nat
    BY <2>1 DEF AgentRow
  <2>3. ~Released(n, row)
    BY DEF Released
  <2>4. row.isolation <= assignment[row.camera].isolation
    BY <2>1, <2>2, <2>3 DEF LeaseInv, BelievedDeadlineCovered
  <2>5. /\ assignment[row.camera].isolation \in Nat
        /\ assignment'[row.camera].isolation \in Nat
    BY <2>2 DEF LeaseInv, TypeOK, AssignmentRow
  <2> QED
    BY <2>2, <2>4, <2>5
<1>3. HeldIssued'
  BY DEF LeaseInv, HeldIssued
<1>4. HeldByOne'
  BY DEF LeaseInv, HeldByOne
<1>5. RowsPositive'
  BY DEF LeaseInv, RowsPositive
<1>6. FormerDeadlinePassed'
  <2> SUFFICES ASSUME NEW n \in Nodes, NEW row \in Believed(n)',
                      assignment'[row.camera].node # n,
                      ~Released(n, row)'
               PROVE  row.isolation <= movedAt'[row.camera]
    BY DEF FormerDeadlinePassed
  <2>1. row \in Believed(n) /\ row.camera \in Cameras
    BY DEF LeaseInv, TypeOK, Believed, AgentRow
  <2>2. ~Released(n, row)
    BY DEF Released
  <2> QED
    BY <2>1, <2>2 DEF LeaseInv, FormerDeadlinePassed
<1> QED
  BY <1>1, <1>3, <1>4, <1>5, <1>6 DEF BeliefInv

\* Initially nobody believes anything.
LEMMA LeaseInit == Init => LeaseInv
<1> SUFFICES ASSUME Init PROVE LeaseInv
  OBVIOUS
<1>1. TypeOK
  BY ParameterAssumption
  DEF Init, TypeOK, NodeRow, Statuses, AssignmentRow, Steps, AgentRow
<1>2. \A n \in Nodes : Believed(n) = {}
  BY DEF Init, Believed
<1>3. \A n \in Nodes, c \in Cameras, g \in Nat \ {0} : ~Holds(n, c, g)
  BY <1>2, NodesAssumption DEF Init, Holds
<1> QED
  BY <1>1, <1>2, <1>3, ParameterAssumption, NodesAssumption
  DEF LeaseInv, Init, BelievedDeadlineCovered, HeldIssued, HeldByOne,
      RowsPositive, FormerDeadlinePassed, ClockBounds, Deadline,
      OwnedHasGeneration, BelieversInSkew, RevokedNotActive

-----------------------------------------------------------------------------
(* TypeOK is preserved.                                                    *)

LEMMA ErrorType ==
    ASSUME TypeOK, NEW n \in Nodes, AgentError(n)
    PROVE  /\ pc' \in [Nodes -> Steps]
           /\ payload' \in [Nodes -> SUBSET AgentRow]
           /\ accepted' \in [Nodes -> SUBSET AgentRow]
           /\ failureStarted' \in [Nodes -> Nat \cup {None}]
           /\ file' \in [Nodes -> SUBSET AgentRow]
  BY DEF TypeOK, AgentError, Steps

LEMMA TypeStep == LeaseInv /\ [Next]_vars => TypeOK'
<1> SUFFICES ASSUME LeaseInv, [Next]_vars PROVE TypeOK'
  OBVIOUS
<1> USE ParameterAssumption, NodesAssumption
<1>t. TypeOK
  BY DEF LeaseInv
<1>1. CASE UNCHANGED vars
  BY <1>t, <1>1 DEF TypeOK, vars
<1>2. CASE Tick
  BY <1>t, <1>2 DEF TypeOK, Tick, controllerVars, agentVars, recorderVars, historyVars
<1>3. CASE ListNodes
  <2>1. node' \in [Nodes -> NodeRow]
    BY <1>t, <1>3, NodeUpdate DEF TypeOK, ListNodes, Statuses
  <2> QED
    BY <2>1, <1>t, <1>3 DEF TypeOK, ListNodes, agentVars, recorderVars, historyVars
<1>4. ASSUME NEW n \in Nodes, RevokeNode(n) PROVE TypeOK'
  <2>1. node' \in [Nodes -> NodeRow]
    BY <1>t, <1>4, NodeUpdate DEF TypeOK, RevokeNode, Statuses
  <2>2. assignment' \in [Cameras -> AssignmentRow]
    BY <1>t, <1>4, StateUpdate DEF TypeOK, RevokeNode
  <2> QED
    BY <2>1, <2>2, <1>t, <1>4 DEF TypeOK, RevokeNode, agentVars, recorderVars, historyVars
<1>5. ASSUME NEW n \in Nodes, NEW c \in Cameras, Assign(c, n) PROVE TypeOK'
  <2>1. assignment' \in [Cameras -> AssignmentRow]
    BY <1>t, <1>5 DEF TypeOK, Assign, AssignmentRow, NextGeneration, Deadline
  <2>2. movedAt' \in [Cameras -> Nat]
    BY <1>t, <1>5 DEF TypeOK, Assign
  <2> QED
    BY <2>1, <2>2, <1>t, <1>5 DEF TypeOK, Assign, agentVars, recorderVars, historyVars
<1>6. ASSUME NEW n \in Nodes, NEW o \in Outcomes, AgentHeartbeat(n, o) PROVE TypeOK'
  <2>1. node' \in [Nodes -> NodeRow]
    BY <1>t, <1>6, NodeUpdate DEF TypeOK, AgentHeartbeat, HeartbeatRow, Statuses
  <2>2. faults' \in Nat
    BY <1>t, <1>6 DEF TypeOK, AgentHeartbeat, Deliver
  <2>3. CASE AgentError(n)
    BY <2>1, <2>2, <2>3, ErrorType, <1>t, <1>6
    DEF TypeOK, AgentHeartbeat, recorderVars, historyVars
  <2>4. CASE /\ pc' = [pc EXCEPT ![n] = "fetch"]
             /\ UNCHANGED <<payload, accepted, failureStarted, file>>
    BY <2>1, <2>2, <2>4, <1>t, <1>6
    DEF TypeOK, AgentHeartbeat, recorderVars, historyVars, Steps
  <2> QED
    BY <2>3, <2>4, <1>6 DEF AgentHeartbeat
<1>7. ASSUME NEW n \in Nodes, NEW o \in Outcomes,
             NEW due \in SUBSET AssignmentsFor(n), AgentFetch(n, due, o)
      PROVE  TypeOK'
  <2>1. AssignmentsFor(n) \subseteq AgentRow
    BY <1>t DEF TypeOK, AssignmentsFor, AgentRow, AssignmentRow
  <2>2. faults' \in Nat
    BY <1>t, <1>7 DEF TypeOK, AgentFetch, Deliver
  <2>3. CASE AgentError(n)
    BY <2>2, <2>3, ErrorType, <1>t, <1>7
    DEF TypeOK, AgentFetch, controllerVars, recorderVars, historyVars
  <2>4. CASE ~AgentError(n)
    <3>0. /\ pc' = [pc EXCEPT ![n] = "renew"]
          /\ payload' = [payload EXCEPT ![n] = due]
          /\ accepted' = [accepted EXCEPT
               ![n] = {row \in AssignmentsFor(n) \ due :
                          row.isolation > NodeClock(n)}]
          /\ UNCHANGED <<failureStarted, file>>
      BY <2>4, <1>7 DEF AgentFetch
    <3>1. /\ pc' \in [Nodes -> Steps]
          /\ payload' \in [Nodes -> SUBSET AgentRow]
          /\ accepted' \in [Nodes -> SUBSET AgentRow]
      <4>1. /\ due \in SUBSET AgentRow
            /\ {row \in AssignmentsFor(n) \ due :
                          row.isolation > NodeClock(n)} \in SUBSET AgentRow
        BY <2>1
      <4> QED
        BY <4>1, <3>0, <1>t DEF TypeOK, Steps
    <3> QED
      BY <3>0, <3>1, <2>2, <1>t, <1>7
      DEF TypeOK, AgentFetch, controllerVars, recorderVars, historyVars
  <2> QED
    BY <2>3, <2>4
<1>8. ASSUME NEW n \in Nodes, NEW o \in Outcomes, NEW row \in payload[n],
             AgentRenew(n, row, o)
      PROVE  TypeOK'
  <2>1. row \in AgentRow /\ Deadline \in Nat
    BY <1>t, <1>8 DEF TypeOK, Deadline
  <2>2. assignment' \in [Cameras -> AssignmentRow]
    BY <2>1, <1>t, <1>8, StateUpdate DEF TypeOK, AgentRenew, AgentRow
  <2>3. faults' \in Nat
    BY <1>t, <1>8 DEF TypeOK, AgentRenew, Deliver
  <2>4. CASE AgentError(n)
    BY <2>2, <2>3, <2>4, ErrorType, <1>t, <1>8
    DEF TypeOK, AgentRenew, recorderVars, historyVars
  <2>5. CASE ~AgentError(n)
    <3>1. /\ payload' \in [Nodes -> SUBSET AgentRow]
          /\ accepted' \in [Nodes -> SUBSET AgentRow]
          /\ UNCHANGED <<pc, failureStarted, file>>
      <4>1. [row EXCEPT !.isolation = Deadline] \in AgentRow
        BY <2>1, AgentRowUpdate
      <4>2. /\ payload' = [payload EXCEPT ![n] = @ \ {row}]
            /\ accepted' = [accepted EXCEPT
                 ![n] = @ \cup {[row EXCEPT !.isolation = Deadline]}]
            /\ UNCHANGED <<pc, failureStarted, file>>
        BY <2>5, <1>8 DEF AgentRenew
      <4> QED
        BY <4>1, <4>2, <1>t DEF TypeOK
    <3> QED
      BY <3>1, <2>2, <2>3, <1>t, <1>8
      DEF TypeOK, AgentRenew, recorderVars, historyVars
  <2> QED
    BY <2>4, <2>5
<1>9. ASSUME NEW n \in Nodes, NEW o \in Outcomes, AgentUpload(n, o) PROVE TypeOK'
  <2>1. locations' \subseteq Location
    BY <1>t, <1>9 DEF TypeOK, AgentUpload, AcceptCatalog, UploadedLocation,
                      CatalogBatch, Location, Segment
  <2>2. faults' \in Nat
    BY <1>t, <1>9 DEF TypeOK, AgentUpload, Deliver
  <2>3. CASE AgentError(n)
    BY <2>1, <2>2, <2>3, ErrorType, <1>t, <1>9
    DEF TypeOK, AgentUpload, recorderVars, historyVars
  <2>4. CASE ~AgentError(n)
    <3>1. /\ pc' \in [Nodes -> Steps]
          /\ accepted' \in [Nodes -> SUBSET AgentRow]
          /\ failureStarted' \in [Nodes -> Nat \cup {None}]
          /\ UNCHANGED <<payload, file>>
      BY <2>4, <1>t, <1>9 DEF TypeOK, AgentUpload, Steps
    <3> QED
      BY <3>1, <2>1, <2>2, <1>t, <1>9
      DEF TypeOK, AgentUpload, recorderVars, historyVars
  <2> QED
    BY <2>3, <2>4
<1>10. ASSUME NEW n \in Nodes, AgentInstall(n) PROVE TypeOK'
  BY <1>t, <1>10 DEF TypeOK, AgentInstall, controllerVars, recorderVars, historyVars, Steps
<1>11. ASSUME NEW n \in Nodes, NEW c \in Cameras, NEW g \in 1..MaxGeneration,
              ReportJobResult(n, c, g)
       PROVE  TypeOK'
  <2>1. assignment' \in [Cameras -> AssignmentRow]
    BY <1>t, <1>11, StateUpdate DEF TypeOK, ReportJobResult
  <2>2. released' \subseteq Release
    BY <1>t, <1>11 DEF TypeOK, ReportJobResult, Release
  <2> QED
    BY <2>1, <2>2, <1>t, <1>11 DEF TypeOK, ReportJobResult, agentVars, recorderVars
<1>12. ASSUME NEW n \in Nodes, AgentRestart(n) PROVE TypeOK'
  BY <1>t, <1>12 DEF TypeOK, AgentRestart, controllerVars, recorderVars, historyVars, Steps
<1>13. ASSUME NEW n \in Nodes, NEW c \in Cameras, StartCapture(n, c) PROVE TypeOK'
  <2>1. capture' \in [Nodes -> [Cameras -> Nat \cup {None}]]
    <3>1. CASE \E row \in LiveRows(n, c) :
                 capture' = [capture EXCEPT ![n][c] = row.generation]
      <4>1. PICK row \in LiveRows(n, c) :
                 capture' = [capture EXCEPT ![n][c] = row.generation]
        BY <3>1
      <4>2. row.generation \in Nat
        BY <1>t DEF TypeOK, LiveRows, AgentRow
      <4> QED
        BY <4>1, <4>2, <1>t DEF TypeOK
    <3>2. CASE capture' = [capture EXCEPT ![n][c] = 0]
      BY <3>2, <1>t DEF TypeOK
    <3> QED
      BY <3>1, <3>2, <1>13 DEF StartCapture
  <2> QED
    BY <2>1, <1>t, <1>13 DEF TypeOK, StartCapture, controllerVars, agentVars, historyVars
<1>14. ASSUME NEW n \in Nodes, NEW c \in Cameras, NEW b \in BOOLEAN, EndCapture(n, c, b)
       PROVE  TypeOK'
  <2>1. capture' \in [Nodes -> [Cameras -> Nat \cup {None}]]
    BY <1>t, <1>14 DEF TypeOK, EndCapture
  <2>2. local' \in [Nodes -> SUBSET Segment]
    BY <1>t, <1>14 DEF TypeOK, EndCapture, Segment
  <2> QED
    BY <2>1, <2>2, <1>t, <1>14 DEF TypeOK, EndCapture, controllerVars, agentVars, historyVars
<1>15. ASSUME NEW n \in Nodes, NEW c \in Cameras, PromoteRing(n, c) PROVE TypeOK'
  <2>1. \A row \in LiveRows(n, c) : row.generation \in Nat
    BY <1>t DEF TypeOK, LiveRows, AgentRow
  <2>2. PICK g \in Nat : local' = [local EXCEPT ![n] = @ \cup {[camera |-> c, generation |-> g]}]
    BY <2>1, <1>15 DEF PromoteRing
  <2>3. local' \in [Nodes -> SUBSET Segment]
    BY <2>2, <1>t DEF TypeOK, Segment
  <2> QED
    BY <2>3, <1>t, <1>15 DEF TypeOK, PromoteRing, controllerVars, agentVars, historyVars
<1> QED
  BY <1>1, <1>2, <1>3, <1>4, <1>5, <1>6, <1>7, <1>8, <1>9, <1>10, <1>11,
     <1>12, <1>13, <1>14, <1>15 DEF Next

-----------------------------------------------------------------------------
(* Beliefs: only Assign, a fetch, a renewal and a job result touch them.   *)

LEMMA ErrorShrinks ==
    ASSUME TypeOK, NEW n \in Nodes, AgentError(n), UNCHANGED capture
    PROVE  /\ \A m \in Nodes : Believed(m)' \subseteq Believed(m)
           /\ \A m \in Nodes, c \in Cameras, g \in Nat \ {0} :
                  Holds(m, c, g)' => Holds(m, c, g)
<1>1. \A m \in Nodes : Believed(m)' \subseteq Believed(m)
  BY DEF TypeOK, AgentError, Believed
<1> QED
  BY <1>1 DEF Holds

\* A camera moves: the old owner's rows were covered by the deadline that
\* has passed, everybody else's by the time of an earlier move.
LEMMA AssignBelief ==
    ASSUME LeaseInv, TypeOK', NEW n \in Nodes, NEW c \in Cameras, Assign(c, n)
    PROVE  BeliefInv'
<1> USE ParameterAssumption
<1>1. /\ \A m \in Nodes : Believed(m)' = Believed(m)
      /\ \A m \in Nodes, d \in Cameras, g \in Nat :
            Holds(m, d, g)' <=> Holds(m, d, g)
      /\ UNCHANGED <<now, released>>
  BY DEF Assign, agentVars, recorderVars, Believed, Holds
<1>2. /\ assignment'[c].node = n
      /\ assignment'[c].generation = assignment[c].generation + 1
      /\ assignment'[c].isolation = Deadline
      /\ movedAt'[c] = IF assignment[c].node = n THEN movedAt[c] ELSE now
      /\ \A d \in Cameras \ {c} : /\ assignment'[d] = assignment[d]
                                   /\ movedAt'[d] = movedAt[d]
  BY DEF LeaseInv, TypeOK, Assign, NextGeneration
<1>3. /\ now \in Nat /\ Deadline \in Nat
      /\ assignment[c] \in AssignmentRow
      /\ assignment[c].generation \in Nat
      /\ assignment[c].isolation \in Nat
      /\ movedAt[c] \in Nat
      /\ assignment[c].isolation <= Deadline
      /\ movedAt[c] <= now
      /\ now <= Deadline
  BY DEF LeaseInv, TypeOK, ClockBounds, AssignmentRow, Deadline
<1>4. \A m \in Nodes : \A row \in Believed(m) :
         /\ row.camera \in Cameras /\ row.isolation \in Nat
         /\ row.generation \in Nat \ {0}
         /\ Released(m, row)' <=> Released(m, row)
  BY <1>1 DEF LeaseInv, TypeOK, RowsPositive, Believed, AgentRow, Released
<1>5. \A m \in Nodes : \A row \in Believed(m) :
         row.camera = c /\ assignment[c].node # m /\ ~Released(m, row)
         => row.isolation <= movedAt[c]
  BY DEF LeaseInv, FormerDeadlinePassed
<1>6. \A m \in Nodes : \A row \in Believed(m) :
         row.camera = c /\ assignment[c].node = m /\ ~Released(m, row)
         => row.isolation <= assignment[c].isolation
  BY DEF LeaseInv, BelievedDeadlineCovered
<1>7. BelievedDeadlineCovered'
  <2> SUFFICES ASSUME NEW m \in Nodes, NEW row \in Believed(m),
                      assignment'[row.camera].node = m,
                      ~Released(m, row)
               PROVE  row.isolation <= assignment'[row.camera].isolation
    BY <1>1, <1>4 DEF BelievedDeadlineCovered
  <2>1. CASE row.camera = c
    <3>1. row.isolation <= Deadline
      BY <2>1, <1>3, <1>4, <1>5, <1>6
    <3> QED
      BY <3>1, <2>1, <1>2
  <2>2. CASE row.camera # c
    BY <2>2, <1>2, <1>4 DEF LeaseInv, BelievedDeadlineCovered
  <2> QED
    BY <2>1, <2>2
<1>8. \A m \in Nodes, g \in Nat \ {0} :
         Holds(m, c, g) => g <= assignment[c].generation
  BY DEF LeaseInv, HeldIssued
<1>9. HeldIssued'
  <2> SUFFICES ASSUME NEW m \in Nodes, NEW d \in Cameras, NEW g \in Nat \ {0},
                      Holds(m, d, g)
               PROVE  /\ g <= assignment'[d].generation
                      /\ g = assignment'[d].generation => assignment'[d].node = m
    BY <1>1 DEF HeldIssued
  <2>1. CASE d = c
    BY <2>1, <1>2, <1>3, <1>8
  <2>2. CASE d # c
    BY <2>2, <1>2 DEF LeaseInv, HeldIssued
  <2> QED
    BY <2>1, <2>2
<1>10. HeldByOne'
  BY <1>1 DEF LeaseInv, HeldByOne
<1>11. RowsPositive'
  BY <1>1 DEF LeaseInv, RowsPositive
<1>12. FormerDeadlinePassed'
  <2> SUFFICES ASSUME NEW m \in Nodes, NEW row \in Believed(m),
                      assignment'[row.camera].node # m,
                      ~Released(m, row)
               PROVE  row.isolation <= movedAt'[row.camera]
    BY <1>1, <1>4 DEF FormerDeadlinePassed
  <2>1. CASE row.camera # c
    BY <2>1, <1>2, <1>4 DEF LeaseInv, FormerDeadlinePassed
  <2>2. CASE row.camera = c /\ assignment[c].node = n
    BY <2>2, <1>2, <1>5
  <2>3. CASE row.camera = c /\ assignment[c].node # n /\ assignment[c].node # m
    BY <2>3, <1>2, <1>3, <1>4, <1>5
  <2>4. CASE row.camera = c /\ assignment[c].node # n /\ assignment[c].node = m
    <3>1. assignment[c].generation # 0
      BY <2>4, NodesAssumption DEF LeaseInv, OwnedHasGeneration
    <3>2. assignment[c].isolation <= now
      BY <2>4, <3>1 DEF Assign, IsolationElapsed
    <3> QED
      BY <2>4, <3>2, <1>2, <1>3, <1>4, <1>6
  <2> QED
    BY <2>1, <2>2, <2>3, <2>4, <1>2
<1> QED
  BY <1>7, <1>9, <1>10, <1>11, <1>12 DEF BeliefInv

\* The node's own report releases every generation it can hold.
LEMMA ReportBelief ==
    ASSUME LeaseInv, TypeOK', NEW n \in Nodes, NEW c \in Cameras,
           NEW h \in 1..MaxGeneration, ReportJobResult(n, c, h)
    PROVE  BeliefInv'
<1> USE ParameterAssumption
<1>1. /\ \A m \in Nodes : Believed(m)' = Believed(m)
      /\ \A m \in Nodes, d \in Cameras, g \in Nat :
            Holds(m, d, g)' <=> Holds(m, d, g)
      /\ UNCHANGED movedAt
      /\ released' = released \cup
                       {[node |-> n, camera |-> c, generation |-> h]}
  BY DEF ReportJobResult, agentVars, recorderVars, Believed, Holds
<1>2. /\ assignment[c].node = n /\ assignment[c].generation = h
      /\ \A d \in Cameras : /\ assignment'[d].node = assignment[d].node
                            /\ assignment'[d].generation = assignment[d].generation
      /\ \A d \in Cameras \ {c} : assignment'[d] = assignment[d]
  BY DEF LeaseInv, TypeOK, AssignmentRow, ReportJobResult, Fenced
<1>3. \A m \in Nodes : \A row \in Believed(m) :
         /\ row.camera \in Cameras
         /\ row.generation \in Nat \ {0}
         /\ Released(m, row) => Released(m, row)'
  BY <1>1 DEF LeaseInv, TypeOK, RowsPositive, Believed, AgentRow, Released
<1>4. \A row \in Believed(n) : row.camera = c => Released(n, row)'
  <2> SUFFICES ASSUME NEW row \in Believed(n), row.camera = c
               PROVE  Released(n, row)'
    OBVIOUS
  <2>1. row.generation <= h
    BY <1>2, <1>3 DEF LeaseInv, HeldIssued, Holds
  <2>2. [node |-> n, camera |-> c, generation |-> h] \in released'
    BY <1>1
  <2> QED
    BY <2>1, <2>2, <1>3 DEF Released
<1>5. BelievedDeadlineCovered'
  BY <1>1, <1>2, <1>3, <1>4 DEF LeaseInv, BelievedDeadlineCovered
<1>6. HeldIssued'
  BY <1>1, <1>2 DEF LeaseInv, HeldIssued
<1>7. HeldByOne' /\ RowsPositive'
  BY <1>1 DEF LeaseInv, HeldByOne, RowsPositive
<1>8. FormerDeadlinePassed'
  BY <1>1, <1>2, <1>3 DEF LeaseInv, FormerDeadlinePassed
<1> QED
  BY <1>5, <1>6, <1>7, <1>8 DEF BeliefInv

\* A fetch hands out rows of the current generation with its own deadline.
LEMMA FetchBelief ==
    ASSUME LeaseInv, TypeOK', NEW n \in Nodes, NEW o \in Outcomes,
           NEW due \in SUBSET AssignmentsFor(n), AgentFetch(n, due, o)
    PROVE  BeliefInv'
<1>0. UNCHANGED <<assignment, movedAt, released, capture>>
  BY DEF AgentFetch, controllerVars, recorderVars, historyVars
<1>1. CASE AgentError(n)
  <2>1. \A c \in Cameras : assignment[c].isolation \in Nat
    BY DEF LeaseInv, TypeOK, AssignmentRow
  <2> QED
    BY <2>1, <1>0, <1>1, ErrorShrinks, BeliefShrinks DEF LeaseInv
<1>2. CASE ~AgentError(n)
  <2>1. /\ \A m \in Nodes \ {n} : Believed(m)' = Believed(m)
        /\ Believed(n)' \subseteq file[n] \cup AssignmentsFor(n)
    BY <1>2 DEF LeaseInv, TypeOK, AgentFetch, Believed
  <2>2. \A row \in AssignmentsFor(n) :
           /\ row.camera \in Cameras
           /\ assignment[row.camera].node = n
           /\ row.generation = assignment[row.camera].generation
           /\ row.isolation = assignment[row.camera].isolation
    BY DEF AssignmentsFor
  <2>3. \A c \in Cameras :
           /\ assignment[c].isolation \in Nat
           /\ assignment[c].generation \in Nat
           /\ assignment[c].node = n => assignment[c].generation # 0
    BY NodesAssumption DEF LeaseInv, TypeOK, AssignmentRow, OwnedHasGeneration
  <2>4. \A m \in Nodes : \A row \in Believed(m)' :
           \/ row \in Believed(m)
           \/ m = n /\ row \in AssignmentsFor(n)
    BY <2>1 DEF Believed
  <2>5. \A m \in Nodes, c \in Cameras, g \in Nat \ {0} :
           Holds(m, c, g)' =>
              \/ Holds(m, c, g)
              \/ m = n /\ assignment[c].node = n /\ g = assignment[c].generation
    BY <1>0, <2>2, <2>4 DEF Holds
  <2>6. \A m \in Nodes : \A row \in Believed(m) : row.camera \in Cameras
    BY DEF LeaseInv, TypeOK, Believed, AgentRow
  <2>7. BelievedDeadlineCovered'
    <3> SUFFICES ASSUME NEW m \in Nodes, NEW row \in Believed(m)',
                        assignment[row.camera].node = m,
                        ~Released(m, row)
                 PROVE  row.isolation <= assignment[row.camera].isolation
      BY <1>0 DEF BelievedDeadlineCovered, Released
    <3> QED
      BY <2>2, <2>3, <2>4 DEF LeaseInv, BelievedDeadlineCovered
  <2>8. HeldIssued'
    BY <1>0, <2>3, <2>5 DEF LeaseInv, HeldIssued
  <2>9. HeldByOne'
    BY <1>0, <2>5 DEF LeaseInv, HeldIssued, HeldByOne
  <2>10. RowsPositive'
    BY <2>2, <2>3, <2>4 DEF LeaseInv, RowsPositive
  <2>11. FormerDeadlinePassed'
    <3> SUFFICES ASSUME NEW m \in Nodes, NEW row \in Believed(m)',
                        assignment[row.camera].node # m,
                        ~Released(m, row)
                 PROVE  row.isolation <= movedAt[row.camera]
      BY <1>0 DEF FormerDeadlinePassed, Released
    <3> QED
      BY <2>2, <2>4 DEF LeaseInv, FormerDeadlinePassed
  <2> QED
    BY <2>7, <2>8, <2>9, <2>10, <2>11 DEF BeliefInv
<1> QED
  BY <1>1, <1>2

\* A renewal moves the Controller's deadline before the node hears of it.
LEMMA RenewBelief ==
    ASSUME LeaseInv, TypeOK', NEW n \in Nodes, NEW o \in Outcomes,
           NEW new \in payload[n], AgentRenew(n, new, o)
    PROVE  BeliefInv'
<1> USE ParameterAssumption
<1>0. /\ UNCHANGED <<now, movedAt, released, capture>>
      /\ new \in AgentRow /\ new \in Believed(n)
      /\ new.camera \in Cameras
      /\ Deadline \in Nat
  BY DEF LeaseInv, TypeOK, AgentRenew, recorderVars, historyVars, Believed,
         AgentRow, Deadline
<1>1. \A c \in Cameras :
         /\ assignment[c] \in AssignmentRow
         /\ assignment[c].isolation \in Nat
         /\ assignment[c].generation \in Nat
         /\ assignment[c].isolation <= Deadline
  BY DEF LeaseInv, TypeOK, AssignmentRow, ClockBounds
<1>2. \A c \in Cameras :
         /\ assignment'[c].node = assignment[c].node
         /\ assignment'[c].generation = assignment[c].generation
         /\ assignment'[c].isolation >= assignment[c].isolation
  <2>1. CASE assignment' = assignment
    BY <2>1, <1>1
  <2>2. CASE assignment' = [assignment EXCEPT ![new.camera].isolation = Deadline]
    BY <2>2, <1>0, <1>1 DEF LeaseInv, TypeOK, AssignmentRow
  <2> QED
    BY <2>1, <2>2 DEF AgentRenew
<1>3. CASE AgentError(n)
  BY <1>0, <1>2, <1>3, ErrorShrinks, BeliefShrinks DEF LeaseInv
<1>4. CASE ~AgentError(n)
  <2> DEFINE c0 == new.camera
             row0 == [new EXCEPT !.isolation = Deadline]
  <2>1. /\ Fenced(n, c0, new.generation)
        /\ assignment' = [assignment EXCEPT ![c0].isolation = Deadline]
        /\ payload' = [payload EXCEPT ![n] = @ \ {new}]
        /\ accepted' = [accepted EXCEPT ![n] = @ \cup {row0}]
        /\ UNCHANGED file
    BY <1>4 DEF AgentRenew
  <2>2. assignment'[c0].isolation = Deadline
    BY <2>1, <1>0 DEF LeaseInv, TypeOK, AssignmentRow
  <2>3. /\ row0.camera = c0 /\ row0.generation = new.generation
        /\ row0.isolation = Deadline
        /\ new.generation \in Nat
    BY <1>0 DEF AgentRow
  <2>4. /\ assignment[c0].node = n /\ assignment[c0].generation = new.generation
        /\ new.generation > 0
    BY <2>1, <1>0 DEF Fenced, LeaseInv, RowsPositive
  <2>5. \A m \in Nodes : \A row \in Believed(m)' :
           row \in Believed(m) \/ (m = n /\ row = row0)
    <3>1. \A m \in Nodes :
            /\ payload'[m] \subseteq payload[m]
            /\ accepted'[m] \subseteq accepted[m] \cup (IF m = n THEN {row0} ELSE {})
      BY <2>1 DEF LeaseInv, TypeOK
    <3> QED
      BY <3>1, <2>1 DEF Believed
  <2>6. \A m \in Nodes, c \in Cameras, g \in Nat \ {0} :
           Holds(m, c, g)' => Holds(m, c, g)
    BY <1>0, <2>3, <2>5 DEF Holds
  <2>7. \A m \in Nodes : \A row \in Believed(m) :
           row.camera \in Cameras /\ row.isolation \in Nat
    BY DEF LeaseInv, TypeOK, Believed, AgentRow
  <2>8. BelievedDeadlineCovered'
    <3> SUFFICES ASSUME NEW m \in Nodes, NEW row \in Believed(m)',
                        assignment'[row.camera].node = m,
                        ~Released(m, row)
                 PROVE  row.isolation <= assignment'[row.camera].isolation
      BY <1>0 DEF BelievedDeadlineCovered, Released
    <3>1. CASE row \in Believed(m)
      <4>1. row.isolation <= assignment[row.camera].isolation
        BY <3>1, <2>7, <1>2 DEF LeaseInv, BelievedDeadlineCovered
      <4>2. assignment'[row.camera].isolation \in Nat
        BY <3>1, <2>7 DEF TypeOK, AssignmentRow
      <4> QED
        BY <4>1, <4>2, <3>1, <2>7, <1>1, <1>2
    <3>2. CASE row = row0
      BY <3>2, <2>2, <2>3, <1>0
    <3> QED
      BY <3>1, <3>2, <2>5
  <2>9. HeldIssued' /\ HeldByOne'
    BY <1>2, <2>6 DEF LeaseInv, HeldIssued, HeldByOne
  <2>10. RowsPositive'
    BY <2>3, <2>4, <2>5 DEF LeaseInv, RowsPositive
  <2>11. FormerDeadlinePassed'
    <3> SUFFICES ASSUME NEW m \in Nodes, NEW row \in Believed(m)',
                        assignment'[row.camera].node # m,
                        ~Released(m, row)
                 PROVE  row.isolation <= movedAt[row.camera]
      BY <1>0 DEF FormerDeadlinePassed, Released
    <3>1. CASE row \in Believed(m)
      BY <3>1, <2>7, <1>2 DEF LeaseInv, FormerDeadlinePassed
    <3>2. CASE m = n /\ row = row0
      BY <3>2, <2>3, <2>4, <1>0, <1>2
    <3> QED
      BY <3>1, <3>2, <2>5
  <2> QED
    BY <2>8, <2>9, <2>10, <2>11 DEF BeliefInv
<1> QED
  BY <1>3, <1>4

LEMMA BeliefStep == LeaseInv /\ TypeOK' /\ [Next]_vars => BeliefInv'
<1> SUFFICES ASSUME LeaseInv, TypeOK', [Next]_vars PROVE BeliefInv'
  OBVIOUS
<1>0. \A c \in Cameras : assignment[c].isolation \in Nat
  BY DEF LeaseInv, TypeOK, AssignmentRow
<1> DEFINE Quiet == /\ \A n \in Nodes : Believed(n)' \subseteq Believed(n)
                    /\ \A n \in Nodes, c \in Cameras, g \in Nat \ {0} :
                          Holds(n, c, g)' => Holds(n, c, g)
                    /\ UNCHANGED <<assignment, movedAt, released>>
<1>q. Quiet => BeliefInv'
  BY <1>0, BeliefShrinks
<1> HIDE DEF Quiet
<1>1. CASE UNCHANGED vars
  <2>1. Quiet
    BY <1>1 DEF vars, Believed, Holds, Quiet
  <2> QED
    BY <2>1, <1>q
<1>2. CASE Tick
  <2>1. Quiet
    BY <1>2 DEF Tick, controllerVars, agentVars, recorderVars, historyVars,
                Believed, Holds, Quiet
  <2> QED
    BY <2>1, <1>q
<1>3. CASE ListNodes
  <2>1. Quiet
    BY <1>3 DEF ListNodes, agentVars, recorderVars, historyVars, Believed,
                Holds, Quiet
  <2> QED
    BY <2>1, <1>q
<1>4. ASSUME NEW n \in Nodes, RevokeNode(n) PROVE BeliefInv'
  <2>1. /\ \A m \in Nodes : Believed(m)' \subseteq Believed(m)
        /\ \A m \in Nodes, c \in Cameras, g \in Nat \ {0} :
              Holds(m, c, g)' => Holds(m, c, g)
        /\ UNCHANGED <<movedAt, released>>
    BY <1>4 DEF RevokeNode, agentVars, recorderVars, historyVars, Believed, Holds
  <2>2. \A c \in Cameras :
           /\ assignment'[c].node = assignment[c].node
           /\ assignment'[c].generation = assignment[c].generation
           /\ assignment'[c].isolation >= assignment[c].isolation
    BY <1>0, <1>4 DEF RevokeNode, LeaseInv, TypeOK, AssignmentRow
  <2> QED
    BY <2>1, <2>2, BeliefShrinks
<1>5. ASSUME NEW n \in Nodes, NEW c \in Cameras, Assign(c, n) PROVE BeliefInv'
  BY <1>5, AssignBelief
<1>6. ASSUME NEW n \in Nodes, NEW o \in Outcomes, AgentHeartbeat(n, o)
      PROVE  BeliefInv'
  <2>1. CASE AgentError(n)
    <3>1. Quiet
      BY <1>6, <2>1, ErrorShrinks
      DEF AgentHeartbeat, recorderVars, historyVars, LeaseInv, Quiet
    <3> QED
      BY <3>1, <1>q
  <2>2. CASE ~AgentError(n)
    <3>1. Quiet
      BY <1>6, <2>2 DEF AgentHeartbeat, recorderVars, historyVars, Believed,
                        Holds, Quiet
    <3> QED
      BY <3>1, <1>q
  <2> QED
    BY <2>1, <2>2
<1>7. ASSUME NEW n \in Nodes, NEW o \in Outcomes,
             NEW due \in SUBSET AssignmentsFor(n), AgentFetch(n, due, o)
      PROVE  BeliefInv'
  BY <1>7, FetchBelief
<1>8. ASSUME NEW n \in Nodes, NEW o \in Outcomes, NEW row \in payload[n],
             AgentRenew(n, row, o)
      PROVE  BeliefInv'
  BY <1>8, RenewBelief
<1>9. ASSUME NEW n \in Nodes, NEW o \in Outcomes, AgentUpload(n, o)
      PROVE  BeliefInv'
  <2>1. CASE AgentError(n)
    <3>1. Quiet
      BY <1>9, <2>1, ErrorShrinks
      DEF AgentUpload, recorderVars, historyVars, LeaseInv, Quiet
    <3> QED
      BY <3>1, <1>q
  <2>2. CASE ~AgentError(n)
    <3>1. /\ \A m \in Nodes : accepted'[m] \subseteq accepted[m]
          /\ UNCHANGED <<payload, file, capture, assignment, movedAt, released>>
      BY <1>9, <2>2 DEF AgentUpload, recorderVars, historyVars, LeaseInv, TypeOK
    <3>2. Quiet
      BY <3>1 DEF Believed, Holds, Quiet
    <3> QED
      BY <3>2, <1>q
  <2> QED
    BY <2>1, <2>2
<1>10. ASSUME NEW n \in Nodes, AgentInstall(n) PROVE BeliefInv'
  <2>1. /\ \A m \in Nodes : file'[m] \subseteq file[m] \cup accepted[m]
        /\ UNCHANGED <<payload, accepted, capture, assignment, movedAt, released>>
    BY <1>10 DEF AgentInstall, controllerVars, recorderVars, historyVars,
                 LeaseInv, TypeOK
  <2>2. Quiet
    BY <2>1 DEF Believed, Holds, Quiet
  <2> QED
    BY <2>2, <1>q
<1>11. ASSUME NEW n \in Nodes, NEW c \in Cameras, NEW g \in 1..MaxGeneration,
              ReportJobResult(n, c, g)
       PROVE  BeliefInv'
  BY <1>11, ReportBelief
<1>12. ASSUME NEW n \in Nodes, AgentRestart(n) PROVE BeliefInv'
  <2>1. /\ \A m \in Nodes : /\ payload'[m] \subseteq payload[m]
                            /\ accepted'[m] \subseteq accepted[m]
        /\ UNCHANGED <<file, capture, assignment, movedAt, released>>
    BY <1>12 DEF AgentRestart, controllerVars, recorderVars, historyVars,
                 LeaseInv, TypeOK
  <2>2. Quiet
    BY <2>1 DEF Believed, Holds, Quiet
  <2> QED
    BY <2>2, <1>q
<1>13. ASSUME NEW n \in Nodes, NEW c \in Cameras, StartCapture(n, c)
       PROVE  BeliefInv'
  <2>1. UNCHANGED <<payload, accepted, file, assignment, movedAt, released>>
    BY <1>13 DEF StartCapture, controllerVars, agentVars, historyVars
  <2>2. \A m \in Nodes, d \in Cameras, g \in Nat \ {0} :
           capture'[m][d] = g => Holds(m, d, g)
    <3>1. CASE \E row \in LiveRows(n, c) :
                 capture' = [capture EXCEPT ![n][c] = row.generation]
      BY <3>1 DEF LiveRows, Believed, Holds, LeaseInv, TypeOK
    <3>2. CASE capture' = [capture EXCEPT ![n][c] = 0]
      BY <3>2 DEF Holds, LeaseInv, TypeOK
    <3> QED
      BY <3>1, <3>2, <1>13 DEF StartCapture
  <2>3. Quiet
    BY <2>1, <2>2 DEF Believed, Holds, Quiet
  <2> QED
    BY <2>3, <1>q
<1>14. ASSUME NEW n \in Nodes, NEW c \in Cameras, NEW b \in BOOLEAN,
              EndCapture(n, c, b)
       PROVE  BeliefInv'
  <2>1. UNCHANGED <<payload, accepted, file, assignment, movedAt, released>>
    BY <1>14 DEF EndCapture, controllerVars, agentVars, historyVars
  <2>2. \A m \in Nodes, d \in Cameras, g \in Nat \ {0} :
           capture'[m][d] = g => capture[m][d] = g
    BY <1>14, NodesAssumption DEF EndCapture, LeaseInv, TypeOK
  <2>3. Quiet
    BY <2>1, <2>2 DEF Believed, Holds, Quiet
  <2> QED
    BY <2>3, <1>q
<1>15. ASSUME NEW n \in Nodes, NEW c \in Cameras, PromoteRing(n, c)
       PROVE  BeliefInv'
  <2>1. UNCHANGED <<payload, accepted, file, assignment, movedAt, released, capture>>
    BY <1>15 DEF PromoteRing, controllerVars, agentVars, historyVars
  <2>2. Quiet
    BY <2>1 DEF Believed, Holds, Quiet
  <2> QED
    BY <2>2, <1>q
<1> QED
  BY <1>1, <1>2, <1>3, <1>4, <1>5, <1>6, <1>7, <1>8, <1>9, <1>10, <1>11,
     <1>12, <1>13, <1>14, <1>15 DEF Next

-----------------------------------------------------------------------------
(* The Controller's own table, and the clocks.                             *)

TableInv == ClockBounds /\ OwnedHasGeneration /\ RevokedNotActive

\* Steps that leave the table alone and do not turn back the clock.
LEMMA TableQuiet ==
    ASSUME LeaseInv, TypeOK', UNCHANGED <<assignment, movedAt>>, now' >= now,
           \A n \in Nodes : node'[n].revoked = node[n].revoked
    PROVE  TableInv'
<1> USE ParameterAssumption
<1>1. \A c \in Cameras : assignment[c].isolation \in Nat /\ movedAt[c] \in Nat
  BY DEF LeaseInv, TypeOK, AssignmentRow
<1>2. now \in Nat /\ now' \in Nat
  BY DEF LeaseInv, TypeOK
<1>3. ClockBounds'
  BY <1>1, <1>2 DEF LeaseInv, ClockBounds, Deadline
<1>4. OwnedHasGeneration' /\ RevokedNotActive'
  BY DEF LeaseInv, OwnedHasGeneration, RevokedNotActive
<1> QED
  BY <1>3, <1>4 DEF TableInv

LEMMA TableStep == LeaseInv /\ TypeOK' /\ [Next]_vars => TableInv'
<1> SUFFICES ASSUME LeaseInv, TypeOK', [Next]_vars PROVE TableInv'
  OBVIOUS
<1> USE ParameterAssumption, NodesAssumption
<1>0. /\ now \in Nat /\ Deadline \in Nat
      /\ \A c \in Cameras : /\ assignment[c] \in AssignmentRow
                            /\ assignment[c].isolation \in Nat
                            /\ assignment[c].generation \in Nat
                            /\ movedAt[c] \in Nat
  BY DEF LeaseInv, TypeOK, AssignmentRow, Deadline
<1>1. CASE UNCHANGED vars
  BY <1>0, <1>1, TableQuiet DEF vars
<1>2. CASE Tick
  BY <1>0, <1>2, TableQuiet DEF Tick, controllerVars, historyVars
<1>3. CASE ListNodes
  <2>1. \A n \in Nodes : node'[n].revoked = node[n].revoked
    BY <1>3 DEF ListNodes, LeaseInv, TypeOK, NodeRow
  <2> QED
    BY <2>1, <1>0, <1>3, TableQuiet DEF ListNodes, historyVars
<1>4. ASSUME NEW n \in Nodes, RevokeNode(n) PROVE TableInv'
  <2>1. \A c \in Cameras :
           /\ assignment'[c].node = assignment[c].node
           /\ assignment'[c].generation = assignment[c].generation
           /\ assignment'[c].isolation = assignment[c].isolation
           /\ assignment'[c].state = IF assignment[c].node = n THEN "revoked"
                                     ELSE assignment[c].state
    BY <1>0, <1>4 DEF RevokeNode, AssignmentRow
  <2>2. \A m \in Nodes \ {n} : node'[m].revoked = node[m].revoked
    BY <1>4 DEF RevokeNode, LeaseInv, TypeOK
  <2>3. UNCHANGED <<now, movedAt>>
    BY <1>4 DEF RevokeNode, historyVars
  <2> QED
    BY <2>1, <2>2, <2>3
    DEF TableInv, LeaseInv, ClockBounds, Deadline, OwnedHasGeneration,
        RevokedNotActive
<1>5. ASSUME NEW n \in Nodes, NEW c \in Cameras, Assign(c, n) PROVE TableInv'
  <2>1. /\ UNCHANGED <<now, node>>
        /\ ~node[n].revoked
        /\ assignment'[c].node = n
        /\ assignment'[c].generation = assignment[c].generation + 1
        /\ assignment'[c].isolation = Deadline
        /\ movedAt'[c] \in {movedAt[c], now}
        /\ \A d \in Cameras \ {c} : /\ assignment'[d] = assignment[d]
                                     /\ movedAt'[d] = movedAt[d]
    BY <1>5 DEF Assign, Eligible, NextGeneration, LeaseInv, TypeOK
  <2>2. ClockBounds'
    BY <2>1, <1>0 DEF LeaseInv, ClockBounds, Deadline
  <2>3. OwnedHasGeneration'
    BY <2>1, <1>0 DEF LeaseInv, OwnedHasGeneration
  <2>4. RevokedNotActive'
    BY <2>1 DEF LeaseInv, RevokedNotActive
  <2> QED
    BY <2>2, <2>3, <2>4 DEF TableInv
<1>6. ASSUME NEW n \in Nodes, NEW o \in Outcomes, AgentHeartbeat(n, o)
      PROVE  TableInv'
  <2>1. \A m \in Nodes : node'[m].revoked = node[m].revoked
    BY <1>6 DEF AgentHeartbeat, HeartbeatRow, LeaseInv, TypeOK, NodeRow
  <2> QED
    BY <2>1, <1>0, <1>6, TableQuiet DEF AgentHeartbeat, historyVars
<1>7. ASSUME NEW n \in Nodes, NEW o \in Outcomes,
             NEW due \in SUBSET AssignmentsFor(n), AgentFetch(n, due, o)
      PROVE  TableInv'
  BY <1>0, <1>7, TableQuiet DEF AgentFetch, controllerVars, historyVars
<1>8. ASSUME NEW n \in Nodes, NEW o \in Outcomes, NEW row \in payload[n],
             AgentRenew(n, row, o)
      PROVE  TableInv'
  <2>1. CASE assignment' = assignment
    BY <2>1, <1>0, <1>8, TableQuiet DEF AgentRenew, historyVars
  <2>2. CASE assignment' = [assignment EXCEPT ![row.camera].isolation = Deadline]
    <3>1. row.camera \in Cameras
      BY DEF LeaseInv, TypeOK, AgentRow
    <3>2. \A c \in Cameras :
             /\ assignment'[c].node = assignment[c].node
             /\ assignment'[c].generation = assignment[c].generation
             /\ assignment'[c].state = assignment[c].state
             /\ assignment'[c].isolation \in {Deadline, assignment[c].isolation}
      BY <2>2, <3>1, <1>0 DEF LeaseInv, TypeOK, AssignmentRow
    <3>3. UNCHANGED <<now, node, movedAt>>
      BY <1>8 DEF AgentRenew, historyVars
    <3> QED
      BY <3>2, <3>3, <1>0
      DEF TableInv, LeaseInv, ClockBounds, Deadline, OwnedHasGeneration,
          RevokedNotActive
  <2> QED
    BY <2>1, <2>2, <1>8 DEF AgentRenew
<1>9. ASSUME NEW n \in Nodes, NEW o \in Outcomes, AgentUpload(n, o)
      PROVE  TableInv'
  BY <1>0, <1>9, TableQuiet DEF AgentUpload, historyVars
<1>10. ASSUME NEW n \in Nodes, AgentInstall(n) PROVE TableInv'
  BY <1>0, <1>10, TableQuiet DEF AgentInstall, controllerVars, historyVars
<1>11. ASSUME NEW n \in Nodes, NEW c \in Cameras, NEW g \in 1..MaxGeneration,
              ReportJobResult(n, c, g)
       PROVE  TableInv'
  <2>1. \A d \in Cameras :
           /\ assignment'[d].node = assignment[d].node
           /\ assignment'[d].generation = assignment[d].generation
           /\ assignment'[d].state \in {"ended", assignment[d].state}
           /\ assignment'[d].isolation \in {0, assignment[d].isolation}
    BY <1>11, <1>0 DEF ReportJobResult, LeaseInv, TypeOK, AssignmentRow
  <2>2. UNCHANGED <<now, node, movedAt>>
    BY <1>11 DEF ReportJobResult
  <2> QED
    BY <2>1, <2>2, <1>0
    DEF TableInv, LeaseInv, ClockBounds, Deadline, OwnedHasGeneration,
        RevokedNotActive
<1>12. ASSUME NEW n \in Nodes, AgentRestart(n) PROVE TableInv'
  BY <1>0, <1>12, TableQuiet DEF AgentRestart, controllerVars, historyVars
<1>13. ASSUME NEW n \in Nodes, NEW c \in Cameras, StartCapture(n, c)
       PROVE  TableInv'
  BY <1>0, <1>13, TableQuiet DEF StartCapture, controllerVars, historyVars
<1>14. ASSUME NEW n \in Nodes, NEW c \in Cameras, NEW b \in BOOLEAN,
              EndCapture(n, c, b)
       PROVE  TableInv'
  BY <1>0, <1>14, TableQuiet DEF EndCapture, controllerVars, historyVars
<1>15. ASSUME NEW n \in Nodes, NEW c \in Cameras, PromoteRing(n, c)
       PROVE  TableInv'
  BY <1>0, <1>15, TableQuiet DEF PromoteRing, controllerVars, historyVars
<1> QED
  BY <1>1, <1>2, <1>3, <1>4, <1>5, <1>6, <1>7, <1>8, <1>9, <1>10, <1>11,
     <1>12, <1>13, <1>14, <1>15 DEF Next

LEMMA SkewStep == LeaseInv /\ [Next]_vars => BelieversInSkew'
<1> SUFFICES ASSUME LeaseInv, [Next]_vars,
                    NEW m \in Nodes, ~SkewAccepted(m)
             PROVE  pc'[m] = "heartbeat" /\ Believed(m)' = {}
  BY DEF BelieversInSkew, SkewAccepted
<1>0. /\ pc[m] = "heartbeat"
      /\ payload[m] = {} /\ accepted[m] = {} /\ file[m] = {}
  BY DEF LeaseInv, BelieversInSkew, Believed
<1> SUFFICES pc'[m] = "heartbeat" /\ payload'[m] = {} /\ accepted'[m] = {}
             /\ file'[m] = {}
  BY DEF Believed
<1>e. ASSUME NEW n \in Nodes, AgentError(n)
      PROVE  pc'[m] = "heartbeat" /\ payload'[m] = {} /\ accepted'[m] = {}
             /\ file'[m] = {}
  BY <1>0, <1>e DEF AgentError, LeaseInv, TypeOK
<1>1. CASE UNCHANGED vars
  BY <1>0, <1>1 DEF vars
<1>2. CASE Tick \/ ListNodes
  BY <1>0, <1>2 DEF Tick, ListNodes, agentVars
<1>3. ASSUME NEW n \in Nodes, NEW c \in Cameras,
             \/ RevokeNode(n) \/ Assign(c, n) \/ StartCapture(n, c) \/ PromoteRing(n, c)
             \/ \E b \in BOOLEAN : EndCapture(n, c, b)
             \/ \E g \in 1..MaxGeneration : ReportJobResult(n, c, g)
      PROVE  pc'[m] = "heartbeat" /\ payload'[m] = {} /\ accepted'[m] = {}
             /\ file'[m] = {}
  BY <1>0, <1>3
  DEF RevokeNode, Assign, StartCapture, EndCapture, PromoteRing, ReportJobResult, agentVars
<1>4. ASSUME NEW n \in Nodes, RevokeNode(n)
      PROVE  pc'[m] = "heartbeat" /\ payload'[m] = {} /\ accepted'[m] = {}
             /\ file'[m] = {}
  BY <1>0, <1>4 DEF RevokeNode, agentVars
<1>5. ASSUME NEW n \in Nodes, NEW o \in Outcomes,
             \/ AgentHeartbeat(n, o)
             \/ \E due \in SUBSET AssignmentsFor(n) : AgentFetch(n, due, o)
             \/ \E row \in payload[n] : AgentRenew(n, row, o)
             \/ AgentUpload(n, o)
      PROVE  pc'[m] = "heartbeat" /\ payload'[m] = {} /\ accepted'[m] = {}
             /\ file'[m] = {}
  <2>1. CASE AgentError(n)
    BY <2>1, <1>e
  <2>2. CASE ~AgentError(n) /\ n = m
    BY <2>2, <1>0, <1>5 DEF AgentHeartbeat, AgentFetch, AgentRenew, AgentUpload
  <2>3. CASE ~AgentError(n) /\ n # m
    BY <2>3, <1>0, <1>5
    DEF AgentHeartbeat, AgentFetch, AgentRenew, AgentUpload, LeaseInv, TypeOK
  <2> QED
    BY <2>1, <2>2, <2>3
<1>6. ASSUME NEW n \in Nodes, AgentInstall(n) \/ AgentRestart(n)
      PROVE  pc'[m] = "heartbeat" /\ payload'[m] = {} /\ accepted'[m] = {}
             /\ file'[m] = {}
  BY <1>0, <1>6 DEF AgentInstall, AgentRestart, LeaseInv, TypeOK
<1> QED
  BY <1>1, <1>2, <1>3, <1>4, <1>5, <1>6 DEF Next

-----------------------------------------------------------------------------
(* Theorems.                                                               *)

LEMMA LeaseStep == LeaseInv /\ [Next]_vars => LeaseInv'
  BY TypeStep, BeliefStep, TableStep, SkewStep
  DEF LeaseInv, BeliefInv, TableInv

\* The inductive invariant holds in every reachable state.
THEOREM LeaseInvariant == Spec => []LeaseInv
  BY LeaseInit, LeaseStep, PTL DEF Spec

\* Type correctness of the Controller's tables, the agents and the recorders.
THEOREM TypeCorrect == Spec => []TypeOK
<1>1. LeaseInv => TypeOK
  BY DEF LeaseInv
<1> QED
  BY <1>1, LeaseInvariant, PTL

\* Waiting for the Controller's isolation deadline (assign) is waiting for
\* everything its owner may still believe.
THEOREM DeadlineCovered == Spec => []BelievedDeadlineCovered
<1>1. LeaseInv => BelievedDeadlineCovered
  BY DEF LeaseInv
<1> QED
  BY <1>1, LeaseInvariant, PTL

\* A node that lost a camera begins no capture of it later than the accepted
\* clock skew after the move (assignment_generation reads a dead row).
THEOREM StaleStartsFenced == Spec => []NoStaleStart
<1>1. LeaseInv => NoStaleStart
  <2> SUFFICES ASSUME LeaseInv, NEW n \in Nodes, NEW c \in Cameras,
                      NEW row \in LiveRows(n, c),
                      assignment[c].node # n, ~Released(n, row)
               PROVE  now < movedAt[c] + MAX_CLOCK_SKEW_SECONDS
    BY DEF NoStaleStart
  <2>1. row \in Believed(n) /\ row.camera = c /\ row.isolation > now + Skew[n]
    BY DEF LiveRows, Believed, NodeClock
  <2>2. row.isolation <= movedAt[c]
    BY <2>1 DEF LeaseInv, FormerDeadlinePassed
  <2>3. -Skew[n] <= MAX_CLOCK_SKEW_SECONDS
    BY <2>1 DEF LeaseInv, BelieversInSkew, SkewAccepted
  <2>4. /\ row.isolation \in Nat /\ now \in Nat /\ movedAt[c] \in Nat
        /\ Skew[n] \in Int /\ MAX_CLOCK_SKEW_SECONDS \in Nat
    BY <2>1, ParameterAssumption DEF LeaseInv, TypeOK, Believed, AgentRow
  <2> QED
    BY <2>1, <2>2, <2>3, <2>4
<1> QED
  BY <1>1, LeaseInvariant, PTL

\* A (camera, generation) pair names at most one recorder.
THEOREM GenerationsFenced == Spec => []OneRecorderPerGeneration
<1>1. LeaseInv => OneRecorderPerGeneration
  BY DEF LeaseInv, TypeOK, HeldByOne, Holds, OneRecorderPerGeneration
<1> QED
  BY <1>1, LeaseInvariant, PTL

\* No request under way at the time of a revocation extends what the revoked
\* node holds.
THEOREM RevocationFinal == Spec => RevokedNeverExtended
<1>1. LeaseInv /\ LeaseInv' /\ [Next]_vars =>
        [\A c \in Cameras : \A n \in Nodes :
           /\ node[n].revoked
           /\ assignment[c].node = n /\ assignment'[c].node = n
           => assignment'[c].isolation <= assignment[c].isolation]_vars
  <2> SUFFICES ASSUME LeaseInv, LeaseInv', Next,
                      NEW c \in Cameras, NEW n \in Nodes,
                      node[n].revoked,
                      assignment[c].node = n, assignment'[c].node = n
               PROVE  assignment'[c].isolation <= assignment[c].isolation
    OBVIOUS
  <2>0. /\ assignment[c] \in AssignmentRow
        /\ assignment[c].isolation \in Nat
        /\ assignment[c].state # "active"
    BY DEF LeaseInv, TypeOK, AssignmentRow, RevokedNotActive
  <2>1. CASE assignment' = assignment
    BY <2>0, <2>1
  <2>2. ASSUME NEW m \in Nodes, RevokeNode(m)
        PROVE  assignment'[c].isolation <= assignment[c].isolation
    BY <2>0, <2>2 DEF RevokeNode, AssignmentRow
  <2>3. ASSUME NEW m \in Nodes, NEW d \in Cameras, Assign(d, m)
        PROVE  assignment'[c].isolation <= assignment[c].isolation
    BY <2>0, <2>3 DEF Assign, Eligible, LeaseInv, TypeOK
  <2>4. ASSUME NEW m \in Nodes, NEW o \in Outcomes, NEW row \in payload[m],
               AgentRenew(m, row, o)
        PROVE  assignment'[c].isolation <= assignment[c].isolation
    BY <2>0, <2>4 DEF AgentRenew, Fenced, LeaseInv, TypeOK
  <2>5. ASSUME NEW m \in Nodes, NEW d \in Cameras, NEW g \in 1..MaxGeneration,
               ReportJobResult(m, d, g)
        PROVE  assignment'[c].isolation <= assignment[c].isolation
    BY <2>0, <2>5 DEF ReportJobResult, Fenced, LeaseInv, TypeOK
  <2>6. ASSUME NEW m \in Nodes, NEW o \in Outcomes,
               \/ AgentHeartbeat(m, o)
               \/ \E due \in SUBSET AssignmentsFor(m) : AgentFetch(m, due, o)
               \/ AgentUpload(m, o)
        PROVE  assignment' = assignment
    BY <2>6 DEF AgentHeartbeat, AgentFetch, AgentUpload, controllerVars
  <2>7. ASSUME NEW m \in Nodes, AgentInstall(m) \/ AgentRestart(m)
        PROVE  assignment' = assignment
    BY <2>7 DEF AgentInstall, AgentRestart, controllerVars
  <2>8. ASSUME NEW m \in Nodes, NEW d \in Cameras,
               \/ StartCapture(m, d) \/ PromoteRing(m, d)
               \/ \E b \in BOOLEAN : EndCapture(m, d, b)
        PROVE  assignment' = assignment
    BY <2>8 DEF StartCapture, EndCapture, PromoteRing, controllerVars
  <2>9. Tick \/ ListNodes => assignment' = assignment
    BY DEF Tick, ListNodes, controllerVars
  <2> QED
    BY <2>1, <2>2, <2>3, <2>4, <2>5, <2>6, <2>7, <2>8, <2>9 DEF Next
<1>2. Spec => []LeaseInv /\ [][Next]_vars
  BY LeaseInvariant, PTL DEF Spec
<1> QED
  BY <1>1, <1>2, PTL DEF RevokedNeverExtended

-----------------------------------------------------------------------------
(* What the catalog calls verified.                                        *)

VerifiedInv == VerifiedIssued /\ VerifiedFromOneNode

\* Without an upload the locations stay; a generation is only ever replaced
\* by a later one, so a current one keeps its node.
LEMMA VerifiedKept ==
    ASSUME LeaseInv, VerifiedInv, locations' = locations,
           \A c \in Cameras :
               \/ /\ assignment'[c].node = assignment[c].node
                  /\ assignment'[c].generation = assignment[c].generation
               \/ assignment'[c].generation = assignment[c].generation + 1
    PROVE  VerifiedInv'
<1>1. VerifiedFromOneNode'
  BY DEF VerifiedInv, VerifiedFromOneNode
<1>2. VerifiedIssued'
  <2> SUFFICES ASSUME NEW l \in locations, l.integrity = "verified"
               PROVE  /\ l.generation <= assignment'[l.camera].generation
                      /\ l.generation = assignment'[l.camera].generation
                         => assignment'[l.camera].node = l.node
    BY DEF VerifiedIssued
  <2>1. /\ l.camera \in Cameras /\ l.generation \in Nat
        /\ assignment[l.camera].generation \in Nat
    BY DEF LeaseInv, TypeOK, Location, AssignmentRow
  <2>2. /\ l.generation <= assignment[l.camera].generation
        /\ l.generation = assignment[l.camera].generation
           => assignment[l.camera].node = l.node
    BY DEF VerifiedInv, VerifiedIssued
  <2>3. CASE assignment'[l.camera].generation = assignment[l.camera].generation + 1
    BY <2>1, <2>2, <2>3
  <2>4. CASE /\ assignment'[l.camera].node = assignment[l.camera].node
             /\ assignment'[l.camera].generation = assignment[l.camera].generation
    BY <2>2, <2>4
  <2> QED
    BY <2>1, <2>3, <2>4
<1> QED
  BY <1>1, <1>2 DEF VerifiedInv

\* A batch is verified against the assignment of the moment it arrives: an
\* earlier verified location of that generation is of the same owner.
LEMMA VerifiedOnArrival ==
    ASSUME LeaseInv, VerifiedInv, NEW n \in Nodes, NEW batch \in SUBSET Segment,
           locations' = AcceptCatalog(n, batch), assignment' = assignment
    PROVE  VerifiedInv'
<1>1. \A l \in locations' : l.integrity = "verified" =>
        \/ l \in locations
        \/ /\ assignment[l.camera].node = l.node
           /\ assignment[l.camera].generation = l.generation
  BY DEF AcceptCatalog, UploadedLocation
<1>2. \A l \in locations' :
        l.camera \in Cameras /\ l.generation \in Nat
  BY DEF AcceptCatalog, UploadedLocation, LeaseInv, TypeOK, Location, Segment
<1>3. VerifiedIssued'
  <2> SUFFICES ASSUME NEW l \in locations', l.integrity = "verified"
               PROVE  /\ l.generation <= assignment[l.camera].generation
                      /\ l.generation = assignment[l.camera].generation
                         => assignment[l.camera].node = l.node
    BY DEF VerifiedIssued
  <2>1. CASE l \in locations
    BY <2>1 DEF VerifiedInv, VerifiedIssued
  <2>2. CASE l \notin locations
    BY <2>2, <1>1, <1>2
  <2> QED
    BY <2>1, <2>2
<1>4. VerifiedFromOneNode'
  <2> SUFFICES ASSUME NEW k \in locations', NEW l \in locations',
                      k.integrity = "verified", l.integrity = "verified",
                      k.camera = l.camera, k.generation = l.generation
               PROVE  k.node = l.node
    BY DEF VerifiedFromOneNode
  <2>1. CASE k \in locations /\ l \in locations
    BY <2>1 DEF VerifiedInv, VerifiedFromOneNode
  <2>2. CASE k \notin locations \/ l \notin locations
    BY <2>2, <1>1 DEF VerifiedInv, VerifiedIssued
  <2> QED
    BY <2>1, <2>2
<1> QED
  BY <1>3, <1>4 DEF VerifiedInv

LEMMA VerifiedStep == LeaseInv /\ VerifiedInv /\ [Next]_vars => VerifiedInv'
<1> SUFFICES ASSUME LeaseInv, VerifiedInv, [Next]_vars PROVE VerifiedInv'
  OBVIOUS
<1>t. /\ assignment \in [Cameras -> AssignmentRow]
      /\ payload \in [Nodes -> SUBSET AgentRow]
      /\ local \in [Nodes -> SUBSET Segment]
  BY DEF LeaseInv, TypeOK
<1>1. CASE UNCHANGED vars
  BY <1>1, VerifiedKept DEF vars, controllerVars
<1>2. CASE Tick \/ ListNodes
  BY <1>2, VerifiedKept DEF Tick, ListNodes, controllerVars
<1>3. ASSUME NEW n \in Nodes, RevokeNode(n) PROVE VerifiedInv'
  <2>1. \A c \in Cameras :
          /\ assignment'[c].node = assignment[c].node
          /\ assignment'[c].generation = assignment[c].generation
    BY <1>3, <1>t DEF RevokeNode, AssignmentRow
  <2> QED
    BY <2>1, <1>3, VerifiedKept DEF RevokeNode
<1>4. ASSUME NEW n \in Nodes, NEW d \in Cameras, Assign(d, n) PROVE VerifiedInv'
  <2>1. \A c \in Cameras :
          \/ assignment'[c] = assignment[c]
          \/ assignment'[c].generation = assignment[c].generation + 1
    BY <1>4, <1>t DEF Assign, NextGeneration
  <2> QED
    BY <2>1, <1>4, VerifiedKept DEF Assign
<1>5. ASSUME NEW n \in Nodes, NEW o \in Outcomes, NEW row \in payload[n],
             AgentRenew(n, row, o)
      PROVE  VerifiedInv'
  <2>1. \A c \in Cameras :
          /\ assignment'[c].node = assignment[c].node
          /\ assignment'[c].generation = assignment[c].generation
    BY <1>5, <1>t DEF AgentRenew, AssignmentRow
  <2> QED
    BY <2>1, <1>5, VerifiedKept DEF AgentRenew
<1>6. ASSUME NEW n \in Nodes, NEW d \in Cameras, NEW g \in 1..MaxGeneration,
             ReportJobResult(n, d, g)
      PROVE  VerifiedInv'
  <2>1. \A c \in Cameras :
          /\ assignment'[c].node = assignment[c].node
          /\ assignment'[c].generation = assignment[c].generation
    BY <1>6, <1>t DEF ReportJobResult, AssignmentRow
  <2> QED
    BY <2>1, <1>6, VerifiedKept DEF ReportJobResult
<1>7. ASSUME NEW n \in Nodes, NEW o \in Outcomes, AgentUpload(n, o)
      PROVE  VerifiedInv'
  <2>1. CatalogBatch(n) \in SUBSET Segment
    BY <1>t DEF CatalogBatch
  <2>2. assignment' = assignment
    BY <1>7 DEF AgentUpload
  <2>3. CASE locations' = locations
    BY <2>2, <2>3, VerifiedKept
  <2>4. CASE locations' = AcceptCatalog(n, CatalogBatch(n))
    BY <2>1, <2>2, <2>4, VerifiedOnArrival
  <2> QED
    BY <1>7, <2>3, <2>4 DEF AgentUpload
<1>8. ASSUME NEW n \in Nodes,
             \/ AgentInstall(n) \/ AgentRestart(n)
             \/ \E o \in Outcomes :
                  \/ AgentHeartbeat(n, o)
                  \/ \E due \in SUBSET AssignmentsFor(n) : AgentFetch(n, due, o)
             \/ \E c \in Cameras :
                  \/ StartCapture(n, c) \/ PromoteRing(n, c)
                  \/ \E b \in BOOLEAN : EndCapture(n, c, b)
      PROVE  VerifiedInv'
  <2>1. UNCHANGED <<assignment, locations>>
    BY <1>8 DEF AgentInstall, AgentRestart, AgentHeartbeat, AgentFetch,
                StartCapture, EndCapture, PromoteRing, controllerVars
  <2> QED
    BY <2>1, VerifiedKept
<1> QED
  BY <1>1, <1>2, <1>3, <1>4, <1>5, <1>6, <1>7, <1>8 DEF Next

\* Two nodes' segments are never both verified for one generation of a
\* camera, however late a batch arrives (accept_catalog).
THEOREM VerifiedFenced == Spec => []VerifiedFromOneNode
<1>1. Init => VerifiedInv
  BY DEF Init, VerifiedInv, VerifiedIssued, VerifiedFromOneNode
<1>2. VerifiedInv => VerifiedFromOneNode
  BY DEF VerifiedInv
<1> QED
  BY <1>1, <1>2, VerifiedStep, LeaseInvariant, PTL DEF Spec
=============================================================================
