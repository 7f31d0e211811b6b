--------------------------- MODULE RecordingLease ---------------------------
(***************************************************************************)
(* Recording leases of a WebOBS cluster: the Controller's assignment table *)
(* (cluster/cluster_service.py), the agent that runs on every Recorder     *)
(* (cluster/node_agent.py) and the capture loop that obeys the agent's     *)
(* assignments.json (nvr/nvr_service.py).                                  *)
(*                                                                         *)
(* Every Controller operation is one step: ClusterStore runs each under    *)
(* its lock and one SQLite transaction.  The agent's loop is one step per  *)
(* request, so the Controller, other agents, recorders and the clock move  *)
(* between any two of them.  A request may be lost before it arrives, or   *)
(* its reply may be lost after the Controller has committed.               *)
(*                                                                         *)
(* Abstractions: a camera stands for a (cameraId, profileId) pair; its     *)
(* segments of one generation on one node are one element; node clocks     *)
(* differ from the Controller's by a constant; lease_expires_at is left    *)
(* out because no code path tests it; usable volume space only disables    *)
(* the optional Assign step and is left out as well.                       *)
(***************************************************************************)
EXTENDS Integers, FiniteSets, FiniteSetsExt

CONSTANTS
    Nodes,          \* enrolled nodes
    Recording,      \* the nodes on which a recorder process runs
    Cameras,        \* (camera, profile) pairs that can be assigned
    None,           \* model value: no node, no failure, no capture
    Skew,           \* Skew[n]: clock of node n minus the Controller's clock
    Policy,         \* Policy[c]: "continuous" or "event" recording policy
    Cost, Limit,    \* declared cost of a camera, capacity of a node
    LEASE_SECONDS, ISOLATION_GRACE_SECONDS,
    NODE_UNHEALTHY_SECONDS, MAX_CLOCK_SKEW_SECONDS,
    MaxTime,        \* bound on the clock
    MaxGeneration,  \* bound on generations
    MaxSegments,    \* bound on the captures under way and segments catalogued
    MaxFaults       \* bound on lost messages and agent restarts

ASSUME NodesAssumption == /\ None \notin Nodes
                          /\ None \notin Nat
                          /\ Recording \subseteq Nodes
ASSUME ParameterAssumption ==
    /\ Skew \in [Nodes -> Int]
    /\ Policy \in [Cameras -> {"continuous", "event"}]
    /\ Cost \in [Cameras -> Nat] /\ Limit \in [Nodes -> Nat]
    /\ LEASE_SECONDS \in Nat /\ ISOLATION_GRACE_SECONDS \in Nat
    /\ NODE_UNHEALTHY_SECONDS \in Nat /\ MAX_CLOCK_SKEW_SECONDS \in Nat
    /\ MaxTime \in Nat /\ MaxGeneration \in Nat /\ MaxFaults \in Nat
    /\ MaxSegments \in Nat

\* 5 < 30 + 120.
ASSUME SkewAssumption ==
    MAX_CLOCK_SKEW_SECONDS < LEASE_SECONDS + ISOLATION_GRACE_SECONDS

VARIABLES
    now,            \* the Controller's clock
    node,           \* nodes table
    assignment,     \* recording_assignments table; generation 0 is no row
    locations,      \* segment_locations table
    pc,             \* next request of each agent's loop
    payload,        \* rows the agent has fetched and is about to renew
    accepted,       \* rows the agent has accepted in this iteration
    failureStarted, \* the agent's failure_started
    file,           \* assignments.json
    capture,        \* generation of the running capture, None when idle
    local,          \* the recorder's own catalog
    movedAt,        \* observation: when the camera last changed nodes
    released,       \* observation: assignments ended by their own node
    faults          \* bound: lost messages and agent restarts so far

controllerVars == <<node, assignment, locations>>
agentVars == <<pc, payload, accepted, failureStarted>>
recorderVars == <<capture, local>>
historyVars == <<movedAt, released>>
vars == <<now, node, assignment, locations, pc, payload, accepted, failureStarted, file, capture, local, movedAt, released, faults>>

-----------------------------------------------------------------------------
(* Shapes of the state.                                                    *)

Statuses == {"enrolled", "online", "clock-skew", "offline", "revoked"}
NodeRow == [status : Statuses, lastSeen : Nat, revoked : BOOLEAN]
AssignmentRow == [node : Nodes \cup {None}, generation : Nat,
                  state : {"none", "active", "revoked", "ended"},
                  isolation : Nat]
AgentRow == [camera : Cameras, generation : Nat, isolation : Nat]
Location == [node : Nodes, camera : Cameras, generation : Nat,
             integrity : {"verified", "conflict"}]
Segment == [camera : Cameras, generation : Nat]
Release == [node : Nodes, camera : Cameras, generation : Nat]
Steps == {"heartbeat", "fetch", "renew", "upload"}
Outcomes == {"ok", "request_lost", "reply_lost"}

Init ==
    /\ now = 1
    /\ node = [n \in Nodes |->
                 [status |-> "enrolled", lastSeen |-> 0, revoked |-> FALSE]]
    /\ assignment = [c \in Cameras |-> [node |-> None, generation |-> 0,
                                        state |-> "none", isolation |-> 0]]
    /\ locations = {}
    /\ pc = [n \in Nodes |-> "heartbeat"]
    /\ payload = [n \in Nodes |-> {}]
    /\ accepted = [n \in Nodes |-> {}]
    /\ failureStarted = [n \in Nodes |-> None]
    /\ file = [n \in Nodes |-> {}]
    /\ capture = [n \in Nodes |-> [c \in Cameras |-> None]]
    /\ local = [n \in Nodes |-> {}]
    /\ movedAt = [c \in Cameras |-> 0]
    /\ released = {}
    /\ faults = 0

-----------------------------------------------------------------------------
(* Time.                                                                   *)

Tick ==
    /\ now < MaxTime
    /\ now' = now + 1
    /\ UNCHANGED <<faults, controllerVars, agentVars, file, recorderVars, historyVars>>

SkewAccepted(n) == /\ Skew[n] <= MAX_CLOCK_SKEW_SECONDS
                   /\ -Skew[n] <= MAX_CLOCK_SKEW_SECONDS
NodeClock(n) == now + Skew[n]
Deadline == now + LEASE_SECONDS + ISOLATION_GRACE_SECONDS

-----------------------------------------------------------------------------
(* Controller: operations of the administrator.                            *)

\* list_nodes: reading the node list marks silent nodes offline.
ListNodes ==
    /\ node' = [n \in Nodes |->
         IF /\ ~node[n].revoked
            /\ node[n].lastSeen > 0
            /\ node[n].lastSeen < now - NODE_UNHEALTHY_SECONDS
         THEN [node[n] EXCEPT !.status = "offline"] ELSE node[n]]
    /\ UNCHANGED <<faults, now, assignment, locations, agentVars, file, recorderVars,
                   historyVars>>

\* Mutant: revocation lifts the isolation of the node it fences off.
RevokeLiftsIsolation(n) ==
    /\ ~node[n].revoked
    /\ node' = [node EXCEPT ![n].revoked = TRUE, ![n].status = "revoked"]
    /\ assignment' = [c \in Cameras |->
         IF assignment[c].node = n
         THEN [assignment[c] EXCEPT !.state = "revoked", !.isolation = 0]
         ELSE assignment[c]]
    /\ UNCHANGED <<faults, now, locations, agentVars, file, recorderVars, historyVars>>

\* revoke_node: the node's assignments stop, their isolation deadline stays.
RevokeNode(n) ==
    /\ ~node[n].revoked
    /\ node' = [node EXCEPT ![n].revoked = TRUE, ![n].status = "revoked"]
    /\ assignment' = [c \in Cameras |->
         IF assignment[c].node = n
         THEN [assignment[c] EXCEPT !.state = "revoked"] ELSE assignment[c]]
    /\ UNCHANGED <<faults, now, locations, agentVars, file, recorderVars, historyVars>>

\* _select_node: what the node is already committed to, the camera excluded.
Scheduled(n, c) ==
    LET counted == {d \in Cameras \ {c} : /\ assignment[d].node = n
                                          /\ assignment[d].state = "active"
                                          /\ assignment[d].isolation > now}
    IN  MapThenSumSet(LAMBDA d : Cost[d], counted)

Eligible(n, c) ==
    /\ ~node[n].revoked
    /\ node[n].status = "online"
    /\ SkewAccepted(n)
    /\ now - node[n].lastSeen <= NODE_UNHEALTHY_SECONDS
    /\ Scheduled(n, c) + Cost[c] <= Limit[n]

\* Mutant: the isolation of a stopped assignment is not waited for.
IsolationOfActiveOnly(c, n) ==
    \/ assignment[c].generation = 0
    \/ assignment[c].node = n
    \/ assignment[c].state # "active"
    \/ assignment[c].isolation <= now

\* A camera leaves its node only after the node's isolation deadline.
IsolationElapsed(c, n) ==
    \/ assignment[c].generation = 0
    \/ assignment[c].node = n
    \/ assignment[c].isolation <= now

\* Mutant: only an assignment taken from an active node gets a new number.
GenerationReused(c) ==
    IF assignment[c].state \in {"none", "active"}
    THEN assignment[c].generation + 1 ELSE assignment[c].generation

NextGeneration(c) == assignment[c].generation + 1

Assign(c, n) ==
    /\ Eligible(n, c)
    /\ IsolationElapsed(c, n)
    /\ assignment[c].generation < MaxGeneration
    /\ assignment' = [assignment EXCEPT
         ![c] = [node |-> n, generation |-> NextGeneration(c),
                 state |-> "active", isolation |-> Deadline]]
    /\ movedAt' = [movedAt EXCEPT
         ![c] = IF assignment[c].node = n THEN @ ELSE now]
    /\ UNCHANGED <<faults, now, node, locations, agentVars, file, recorderVars,
                   released>>

-----------------------------------------------------------------------------
(* Requests: every loss counts against the bound on faults.                *)

Deliver(outcome) ==
    /\ outcome # "ok" => faults < MaxFaults
    /\ faults' = IF outcome = "ok" THEN faults ELSE faults + 1

-----------------------------------------------------------------------------
(* Agent: one iteration of run() is heartbeat, fetch, renewals, upload.    *)

\* The except branch: keep the first failure's time, clear assignments.json
\* once failures have lasted ISOLATION_GRACE_SECONDS, start over.
AgentError(n) ==
    LET started == IF failureStarted[n] = None THEN now ELSE failureStarted[n]
    IN  /\ failureStarted' = [failureStarted EXCEPT ![n] = started]
        /\ file' = [file EXCEPT
              ![n] = IF now - started >= ISOLATION_GRACE_SECONDS
                     THEN {} ELSE @]
        /\ pc' = [pc EXCEPT ![n] = "heartbeat"]
        /\ payload' = [payload EXCEPT ![n] = {}]
        /\ accepted' = [accepted EXCEPT ![n] = {}]


\* heartbeat: the Controller's half.
HeartbeatRow(n) ==
    [node EXCEPT ![n].status = IF SkewAccepted(n) THEN "online"
                               ELSE "clock-skew",
                 ![n].lastSeen = now]

AgentHeartbeat(n, outcome) ==
    /\ pc[n] = "heartbeat"
    /\ Deliver(outcome)
    /\ node' = IF outcome = "request_lost" \/ node[n].revoked
               THEN node ELSE HeartbeatRow(n)
    /\ IF outcome = "ok" /\ ~node[n].revoked /\ SkewAccepted(n)
       THEN /\ pc' = [pc EXCEPT ![n] = "fetch"]
            /\ UNCHANGED <<payload, accepted, failureStarted, file>>
       ELSE AgentError(n)
    /\ UNCHANGED <<now, assignment, locations, recorderVars, historyVars>>

\* assignments_for: no revocation check; the agent looks at active rows only.
AssignmentsFor(n) ==
    {[camera |-> c, generation |-> assignment[c].generation,
      isolation |-> assignment[c].isolation] :
        c \in {d \in Cameras : /\ assignment[d].node = n
                               /\ assignment[d].state = "active"}}

\* The agent reads its clock once, after the fetch.  next_renew only paces
\* the renewals, so which rows are due is left open: due rows go through
\* AgentRenew, the others are accepted with the fetched deadline.
AgentFetch(n, due, outcome) ==
    /\ pc[n] = "fetch"
    /\ Deliver(outcome)
    /\ IF outcome = "ok"
       THEN /\ pc' = [pc EXCEPT ![n] = "renew"]
            /\ payload' = [payload EXCEPT ![n] = due]
            /\ accepted' = [accepted EXCEPT
                 ![n] = {row \in AssignmentsFor(n) \ due :
                            row.isolation > NodeClock(n)}]
            /\ UNCHANGED <<failureStarted, file>>
       ELSE AgentError(n)
    /\ UNCHANGED <<now, controllerVars, recorderVars, historyVars>>

\* Mutant: the fence forgets the state of the assignment.
FencedIgnoringState(n, c, g) == /\ assignment[c].node = n
                                /\ assignment[c].generation = g

\* renew and report_job_result: the request is fenced by node, generation
\* and state.
Fenced(n, c, g) == /\ assignment[c].node = n
                   /\ assignment[c].generation = g
                   /\ assignment[c].state = "active"

\* A granted renewal is always accepted: its deadline is beyond any clock
\* the Controller accepts (SkewAssumption).
AgentRenew(n, row, outcome) ==
    /\ pc[n] = "renew"
    /\ Deliver(outcome)
    /\ row \in payload[n]
    /\ LET c == row.camera
           granted == Fenced(n, c, row.generation)
       IN  /\ assignment' = IF outcome # "request_lost" /\ granted
                            THEN [assignment EXCEPT ![c].isolation = Deadline]
                            ELSE assignment
           /\ IF outcome = "ok" /\ granted
              THEN /\ payload' = [payload EXCEPT ![n] = @ \ {row}]
                   /\ accepted' = [accepted EXCEPT
                        ![n] = @ \cup {[row EXCEPT !.isolation = Deadline]}]
                   /\ UNCHANGED <<pc, failureStarted, file>>
              ELSE AgentError(n)
    /\ UNCHANGED <<now, node, locations, recorderVars, historyVars>>

\* atomic_json(assignments_path, accepted).
AgentInstall(n) ==
    /\ pc[n] = "renew"
    /\ payload[n] = {}
    /\ file' = [file EXCEPT ![n] = accepted[n]]
    /\ pc' = [pc EXCEPT ![n] = "upload"]
    /\ UNCHANGED <<faults, now, controllerVars, payload, accepted,
                   failureStarted, recorderVars, historyVars>>

\* catalog_batch: only segments of the accepted generations are sent.
CatalogBatch(n) ==
    {s \in local[n] : \E row \in accepted[n] :
        row.camera = s.camera /\ row.generation = s.generation}

\* accept_catalog: a segment of another node or generation is a conflict.
UploadedLocation(n, s) ==
    [node |-> n, camera |-> s.camera, generation |-> s.generation,
     integrity |-> IF /\ assignment[s.camera].node = n
                      /\ assignment[s.camera].generation = s.generation
                   THEN "verified" ELSE "conflict"]

AcceptCatalog(n, batch) ==
    {l \in locations : ~ \E s \in batch : /\ l.node = n
                                          /\ l.camera = s.camera
                                          /\ l.generation = s.generation}
    \cup {UploadedLocation(n, s) : s \in batch}

AgentUpload(n, outcome) ==
    /\ pc[n] = "upload"
    /\ Deliver(outcome)
    /\ locations' = IF outcome = "request_lost" THEN locations
                    ELSE AcceptCatalog(n, CatalogBatch(n))
    /\ IF outcome = "ok" \/ CatalogBatch(n) = {}
       THEN /\ pc' = [pc EXCEPT ![n] = "heartbeat"]
            /\ accepted' = [accepted EXCEPT ![n] = {}]
            /\ failureStarted' = [failureStarted EXCEPT ![n] = None]
            /\ UNCHANGED <<payload, file>>
       ELSE AgentError(n)
    /\ UNCHANGED <<now, node, assignment, recorderVars, historyVars>>

\* report_job_result: the node ends its own assignment, "completed" or
\* "failed" alike, and isolation is lifted.
ReportJobResult(n, c, g) ==
    /\ Fenced(n, c, g)
    /\ assignment' = [assignment EXCEPT ![c].state = "ended",
                                        ![c].isolation = 0]
    /\ released' = released
         \cup {[node |-> n, camera |-> c, generation |-> g]}
    /\ UNCHANGED <<faults, now, node, locations, agentVars, file, recorderVars,
                   movedAt>>

\* The agent process dies and starts again: only assignments.json survives.
AgentRestart(n) ==
    /\ faults < MaxFaults
    /\ faults' = faults + 1
    /\ pc' = [pc EXCEPT ![n] = "heartbeat"]
    /\ payload' = [payload EXCEPT ![n] = {}]
    /\ accepted' = [accepted EXCEPT ![n] = {}]
    /\ failureStarted' = [failureStarted EXCEPT ![n] = None]
    /\ UNCHANGED <<now, controllerVars, file, recorderVars, historyVars>>

-----------------------------------------------------------------------------
(* Recorder: _worker_loop and _capture_segment.                            *)

\* assignment_generation: rows of assignments.json live on the node's clock.
LiveRows(n, c) ==
    {row \in file[n] : row.camera = c /\ row.isolation > NodeClock(n)}

Room ==
    LET running(n) == {c \in Cameras : capture[n][c] # None}
    IN  MapThenSumSet(LAMBDA n : Cardinality(running(n)) + Cardinality(local[n]), Nodes)
          < MaxSegments

\* A continuous camera records only under an assignment.  The event policy
\* replaces that decision by the event state, and records as generation 0
\* when there is no assignment.
StartCapture(n, c) ==
    /\ n \in Recording
    /\ capture[n][c] = None
    /\ Room
    /\ \/ \E row \in LiveRows(n, c) :
            capture' = [capture EXCEPT ![n][c] = row.generation]
       \/ /\ Policy[c] = "event"
          /\ LiveRows(n, c) = {}
          /\ capture' = [capture EXCEPT ![n][c] = 0]
    /\ UNCHANGED <<faults, now, controllerVars, agentVars, file, local, historyVars>>

\* ffmpeg runs its segmentSeconds to the end; the assignment is not read
\* again.  A failed capture leaves no segment.
EndCapture(n, c, finalized) ==
    /\ capture[n][c] # None
    /\ capture' = [capture EXCEPT ![n][c] = None]
    /\ local' = IF finalized
                THEN [local EXCEPT ![n] = @ \cup
                        {[camera |-> c, generation |-> capture[n][c]]}]
                ELSE local
    /\ UNCHANGED <<faults, now, controllerVars, agentVars, file, historyVars>>

\* _promote_ring: while there is no event, an event camera records into its
\* pre-event ring, whose files carry no generation.  The event catalogues
\* them under the assignment of that moment, whatever they were recorded
\* under.
PromoteRing(n, c) ==
    /\ n \in Recording
    /\ Policy[c] = "event"
    /\ Room
    /\ \E g \in IF LiveRows(n, c) = {} THEN {0}
               ELSE {row.generation : row \in LiveRows(n, c)} :
         local' = [local EXCEPT ![n] = @ \cup {[camera |-> c, generation |-> g]}]
    /\ UNCHANGED <<faults, now, controllerVars, agentVars, file, capture, historyVars>>

-----------------------------------------------------------------------------
Next ==
    \/ Tick
    \/ ListNodes
    \/ \E n \in Nodes :
         \/ RevokeNode(n)
         \/ \E c \in Cameras : Assign(c, n)
         \/ \E outcome \in Outcomes :
              \/ AgentHeartbeat(n, outcome)
              \/ \E due \in SUBSET AssignmentsFor(n) :
                   AgentFetch(n, due, outcome)
              \/ \E row \in payload[n] : AgentRenew(n, row, outcome)
              \/ AgentUpload(n, outcome)
         \/ AgentInstall(n)
         \/ \E c \in Cameras, g \in 1..MaxGeneration :
              ReportJobResult(n, c, g)
         \/ AgentRestart(n)
         \/ \E c \in Cameras :
              \/ StartCapture(n, c) \/ PromoteRing(n, c)
              \/ \E finalized \in BOOLEAN : EndCapture(n, c, finalized)

Spec == Init /\ [][Next]_vars

-----------------------------------------------------------------------------
(* Properties.                                                             *)

TypeOK ==
    /\ now \in Nat
    /\ node \in [Nodes -> NodeRow]
    /\ assignment \in [Cameras -> AssignmentRow]
    /\ locations \subseteq Location
    /\ pc \in [Nodes -> Steps]
    /\ payload \in [Nodes -> SUBSET AgentRow]
    /\ accepted \in [Nodes -> SUBSET AgentRow]
    /\ failureStarted \in [Nodes -> Nat \cup {None}]
    /\ file \in [Nodes -> SUBSET AgentRow]
    /\ capture \in [Nodes -> [Cameras -> Nat \cup {None}]]
    /\ local \in [Nodes -> SUBSET Segment]
    /\ movedAt \in [Cameras -> Nat]
    /\ released \subseteq Release
    /\ faults \in Nat

\* Everything an agent believes, in flight or installed.
Believed(n) == payload[n] \cup accepted[n] \cup file[n]
\* The node itself reported the end of this assignment or of a later one.
Released(n, row) ==
    \E r \in released : /\ r.node = n
                        /\ r.camera = row.camera
                        /\ r.generation >= row.generation

\* What the owner of a camera believes, of its current generation or of an
\* earlier one, never outlives the Controller's own isolation deadline,
\* however requests and replies were lost and whether or not the node has
\* been revoked; so waiting for that deadline (assign) is waiting for the
\* node.
BelievedDeadlineCovered ==
    \A n \in Nodes : \A row \in Believed(n) :
        /\ assignment[row.camera].node = n
        /\ ~Released(n, row)
        => row.isolation <= assignment[row.camera].isolation

\* A node that no longer owns a camera may still begin a capture of it only
\* while its clock lags the Controller's: MAX_CLOCK_SKEW_SECONDS after the
\* camera moved, assignments.json on the old node is dead for every row the
\* node did not give up itself.
NoStaleStart ==
    \A n \in Nodes, c \in Cameras : \A row \in LiveRows(n, c) :
        assignment[c].node # n /\ ~Released(n, row)
        => now < movedAt[c] + MAX_CLOCK_SKEW_SECONDS

\* Two nodes never record one camera under the same generation: a segment's
\* (camera, generation) names the recorder that was entitled to make it.
\* (Generation 0 is no assignment; a pre-event ring records under none.)
OneRecorderPerGeneration ==
    \A m, n \in Nodes, c \in Cameras :
        capture[m][c] = capture[n][c] /\ capture[m][c] \notin {None, 0}
        => m = n

\* What the catalog calls verified is evidence of who recorded: however late
\* a batch arrives (after a move, a revocation, a restart of the agent), two
\* nodes' segments are never both verified for one generation of a camera.
\* It says who, not under what: media of a pre-event ring is verified under
\* the generation of its promotion (PromoteRing).
VerifiedFromOneNode ==
    \A k, l \in locations :
        /\ k.integrity = "verified" /\ l.integrity = "verified"
        /\ k.camera = l.camera /\ k.generation = l.generation
        => k.node = l.node

\* Once a node is revoked, no renewal already under way (fetched before the
\* revocation, posted after it) pushes the date at which its cameras can be
\* given to another node.
RevokedNeverExtended ==
    [][\A c \in Cameras : \A n \in Nodes :
          /\ node[n].revoked
          /\ assignment[c].node = n /\ assignment'[c].node = n
          => assignment'[c].isolation <= assignment[c].isolation]_vars

-----------------------------------------------------------------------------
(* The inductive invariant behind these properties.                        *)

\* Node n has generation g of camera c in an agent row or a capture.
Holds(n, c, g) ==
    \/ \E row \in Believed(n) : row.camera = c /\ row.generation = g
    \/ capture[n][c] = g

\* Generations held are ones the Controller has issued, to that node.
HeldIssued ==
    \A n \in Nodes, c \in Cameras, g \in Nat \ {0} :
        Holds(n, c, g) =>
            /\ g <= assignment[c].generation
            /\ g = assignment[c].generation => assignment[c].node = n

HeldByOne ==
    \A m, n \in Nodes, c \in Cameras, g \in Nat \ {0} :
        Holds(m, c, g) /\ Holds(n, c, g) => m = n

RowsPositive == \A n \in Nodes : \A row \in Believed(n) : row.generation > 0

\* What a former owner still believes was dead when the camera moved away.
FormerDeadlinePassed ==
    \A n \in Nodes : \A row \in Believed(n) :
        assignment[row.camera].node # n /\ ~Released(n, row)
        => row.isolation <= movedAt[row.camera]

ClockBounds ==
    \A c \in Cameras : /\ assignment[c].isolation <= Deadline
                       /\ movedAt[c] <= now

OwnedHasGeneration ==
    \A c \in Cameras : assignment[c].generation = 0 <=>
                       assignment[c].node = None

\* A node whose clock is refused never holds a row.
BelieversInSkew ==
    \A n \in Nodes :
        pc[n] # "heartbeat" \/ Believed(n) # {} => SkewAccepted(n)

RevokedNotActive ==
    \A n \in Nodes, c \in Cameras :
        node[n].revoked /\ assignment[c].node = n
        => assignment[c].state # "active"

\* A verified location names a generation the Controller has issued, and its
\* owner when that generation is the current one.
VerifiedIssued ==
    \A l \in locations :
        l.integrity = "verified" =>
            /\ l.generation <= assignment[l.camera].generation
            /\ l.generation = assignment[l.camera].generation
               => assignment[l.camera].node = l.node

LeaseInv ==
    /\ TypeOK
    /\ BelievedDeadlineCovered
    /\ HeldIssued
    /\ HeldByOne
    /\ RowsPositive
    /\ FormerDeadlinePassed
    /\ ClockBounds
    /\ OwnedHasGeneration
    /\ BelieversInSkew
    /\ RevokedNotActive
=============================================================================
