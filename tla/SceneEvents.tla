---------------------------- MODULE SceneEvents ----------------------------
(***************************************************************************)
(* The control connection of a page (web/src/sceneEvents.ts): one          *)
(* WebSocket at a time over which the core's hub (control_server.cpp)      *)
(* sends the Program's scene, its deadlines and retries, and what the page *)
(* does when it is hidden, goes offline or wakes up.                       *)
(*                                                                         *)
(* A scene is its revision; Other stands for the hub's operational events, *)
(* which share the sessions' queues and which the page rejects.            *)
(***************************************************************************)
EXTENDS Integers, SequencesExt

CONSTANTS
    Slots,          \* names for sockets: one in use, one to follow it
    None,
    Other,
    MaxRevision,    \* bound: Program revisions committed
    MaxOther,       \* bound: operational events
    MaxFailures,    \* bound: connections that fail or hang, deadlines that race an answer
    OutboundLimit   \* messages a session holds (16 in the code)

VARIABLES
    visible, network, hiddenLong,   \* the page and navigator.onLine; hidden for 30 s or more
    closed, socket, opened, deadline, retry, online,
    shown,          \* the revision onEvent delivered last
    wire,           \* each socket as the server sees it; raced: (history) a scene
                    \* was broadcast around its join, out of order, or dropped
    revision,       \* the core's Program
    handlers,       \* requests that committed a revision and will broadcast it
    told,           \* (history) the newest revision broadcast
    spent

client == <<closed, socket, opened, deadline, retry, online>>
browser == <<visible, network, hiddenLong>>
server == <<revision, handlers, told>>
vars == <<browser, client, shown, wire, server, spent>>

Free == [at |-> "free", snapshot |-> 0, out |-> <<>>, raced |-> FALSE]
New  == [Free EXCEPT !.at = "requested"]
Spend(what) == spent' = [spent EXCEPT ![what] = @ + 1]
canConnect == network /\ visible

Init ==
    /\ visible \in BOOLEAN /\ network = TRUE /\ hiddenLong = FALSE
    /\ closed = FALSE /\ online = FALSE /\ retry = FALSE /\ opened = FALSE
    /\ socket = IF visible THEN CHOOSE s \in Slots : TRUE ELSE None
    /\ deadline = visible
    /\ wire = [s \in Slots |-> IF s = socket THEN New ELSE Free]
    /\ shown = None
    /\ revision = 0 /\ handlers = {} /\ told = 0
    /\ spent = [other |-> 0, failures |-> 0]

-----------------------------------------------------------------------------
(* The page's side *)

(* retire: timers are cleared, the socket is closed and no longer heard. *)
retire == wire' = [s \in Slots |-> IF s = socket THEN Free ELSE wire[s]]
Down == /\ socket' = None /\ opened' = FALSE /\ deadline' = FALSE /\ retry' = FALSE /\ online' = FALSE /\ UNCHANGED closed

(* wait: after a failure, a retry is armed if a connection is possible. *)
wait == /\ retire /\ socket' = None /\ opened' = FALSE /\ deadline' = FALSE /\ online' = FALSE
        /\ retry' = canConnect /\ UNCHANGED closed

(* Mutant: the old socket stays. *)
connectBeside(possible) ==
    \E s \in Slots :
        /\ s # socket /\ wire[s].at = "free"
        /\ wire' = [wire EXCEPT ![s] = New]
        /\ socket' = s /\ opened' = FALSE /\ deadline' = TRUE /\ retry' = FALSE /\ online' = FALSE
        /\ UNCHANGED closed

(* connect: the old socket gives way to a new one. *)
connect(possible) ==
    IF ~possible THEN retire /\ Down
    ELSE \E s \in Slots :
             /\ s # socket /\ wire[s].at = "free"
             /\ wire' = [t \in Slots |-> IF t = s THEN New ELSE IF t = socket THEN Free ELSE wire[t]]
             /\ socket' = s /\ opened' = FALSE /\ deadline' = TRUE /\ retry' = FALSE /\ online' = FALSE
             /\ UNCHANGED closed
(* wake: only if there is no socket, after a long time hidden, or by hand. *)
wakes(manual) == manual \/ socket = None \/ hiddenLong

RetryFires ==
    /\ retry /\ connect(canConnect)
    /\ UNCHANGED <<browser, shown, server, spent>>

Manual ==
    /\ ~closed /\ canConnect /\ spent.failures < MaxFailures /\ Spend("failures")
    /\ connect(TRUE)
    /\ UNCHANGED <<browser, shown, server>>

(* The 15 s of a deadline pass without an answer, or before a late one. *)
Deadline ==
    /\ deadline
    /\ \/ wire[socket].at = "hung" /\ UNCHANGED spent
       \/ spent.failures < MaxFailures /\ Spend("failures")
    /\ wait
    /\ UNCHANGED <<browser, shown, server>>

(* Mutant: a failure after the first scene goes unnoticed. *)
TransportFailsEarly ==
    /\ socket # None /\ ~closed /\ ~online
    /\ wire[socket].at = "broken"
    /\ wait
    /\ UNCHANGED <<browser, shown, server, spent>>
TransportFails ==
    /\ socket # None /\ ~closed
    /\ \/ wire[socket].at = "broken" /\ UNCHANGED spent
       \/ spent.failures < MaxFailures /\ Spend("failures")
    /\ wait
    /\ UNCHANGED <<browser, shown, server>>

(* Mutant: the second deadline is not set. *)
OpenedOnly ==
    /\ socket # None /\ ~opened /\ wire[socket].at \in {"accepted", "joined", "ready"}
    /\ opened' = TRUE /\ deadline' = FALSE
    /\ UNCHANGED <<browser, closed, socket, retry, online, shown, wire, server, spent>>
(* The upgrade is answered: the deadline starts anew, for the first scene. *)
Opened ==
    /\ socket # None /\ ~opened /\ wire[socket].at \in {"accepted", "joined", "ready"}
    /\ opened' = TRUE /\ deadline' = TRUE
    /\ UNCHANGED <<browser, closed, socket, retry, online, shown, wire, server, spent>>

(* Mutant: only the first scene is shown. *)
ReceiveFirst ==
    /\ opened /\ wire[socket].out # <<>>
    /\ wire' = [wire EXCEPT ![socket].out = Tail(@)]
    /\ Head(wire[socket].out) # Other
    /\ shown' = IF shown = None THEN Head(wire[socket].out) ELSE shown
    /\ online' = TRUE /\ deadline' = FALSE
    /\ UNCHANGED <<closed, socket, opened, retry, browser, server, spent>>
Receive ==
    /\ opened /\ wire[socket].out # <<>>
    /\ wire' = [wire EXCEPT ![socket].out = Tail(@)]
    /\ LET event == Head(wire[socket].out) IN
       IF event = Other THEN UNCHANGED <<shown, client>>
       ELSE /\ shown' = event /\ online' = TRUE /\ deadline' = FALSE
            /\ UNCHANGED <<closed, socket, opened, retry>>
    /\ UNCHANGED <<browser, server, spent>>

NetworkLost ==
    /\ network /\ network' = FALSE
    /\ IF closed THEN UNCHANGED <<client, wire>> ELSE retire /\ Down
    /\ UNCHANGED <<visible, hiddenLong, shown, server, spent>>

NetworkBack ==
    /\ ~network /\ network' = TRUE
    /\ IF ~closed /\ visible /\ wakes(FALSE) THEN connect(TRUE) ELSE UNCHANGED <<client, wire>>
    /\ UNCHANGED <<visible, hiddenLong, shown, server, spent>>

(* Hidden: an established subscription runs on, failed retries pause. *)
Hide ==
    /\ visible /\ visible' = FALSE
    /\ IF closed \/ online THEN UNCHANGED <<client, wire>> ELSE retire /\ Down
    /\ UNCHANGED <<network, hiddenLong, shown, server, spent>>

StaysHidden ==
    /\ ~visible /\ ~hiddenLong /\ hiddenLong' = TRUE
    /\ UNCHANGED <<visible, network, client, shown, wire, server, spent>>

Show ==
    /\ ~visible /\ visible' = TRUE /\ hiddenLong' = FALSE
    /\ IF ~closed /\ network /\ wakes(FALSE) THEN connect(TRUE) ELSE UNCHANGED <<client, wire>>
    /\ UNCHANGED <<network, shown, server, spent>>

Close ==
    /\ ~closed /\ closed' = TRUE
    /\ retire
    /\ socket' = None /\ opened' = FALSE /\ deadline' = FALSE /\ retry' = FALSE
    /\ UNCHANGED <<online, browser, shown, server, spent>>

-----------------------------------------------------------------------------
(* The core's side *)

(* The upgrade request reads the Program and starts a session. *)
Upgrade(s) ==
    /\ wire[s].at = "requested"
    /\ wire' = [wire EXCEPT ![s].at = "accepted", ![s].snapshot = revision]
    /\ UNCHANGED <<browser, client, shown, server, spent>>

(* Mutant: a slow page's queue grows. *)
PushAll(w, event) == [w EXCEPT !.out = Append(@, event)]
Full(w) == Len(w.out) >= OutboundLimit
Push(w, event) == IF Full(w) THEN [w EXCEPT !.raced = TRUE] ELSE [w EXCEPT !.out = Append(@, event)]

(* on_accept: the session joins the hub and then sends what was read. *)
Join(s) ==
    /\ wire[s].at = "accepted"
    /\ wire' = [wire EXCEPT ![s].at = "joined"]
    /\ UNCHANGED <<browser, client, shown, server, spent>>

SendSnapshot(s) ==
    /\ wire[s].at = "joined"
    /\ wire' = [wire EXCEPT ![s] = [Push(@, @.snapshot) EXCEPT !.at = "ready"]]
    /\ UNCHANGED <<browser, client, shown, server, spent>>

Commit ==
    /\ revision < MaxRevision /\ revision' = revision + 1
    /\ handlers' = handlers \cup {revision'}
    /\ UNCHANGED <<browser, client, shown, wire, told, spent>>

(* broadcast: PUT sends the revision it committed, TAKE what it reads then. *)
Told(w, sent) == [w EXCEPT !.raced =
    @ \/ sent < told \/ (w.at \in {"accepted", "joined"} /\ w.snapshot < sent)]
Reached(w, event) == IF w.at \in {"joined", "ready"} THEN Push(w, event) ELSE w

Broadcast ==
    \E r \in handlers : \E sent \in r..revision :
        /\ handlers' = handlers \ {r}
        /\ wire' = [s \in Slots |-> Reached(Told(wire[s], sent), sent)]
        /\ told' = IF sent > told THEN sent ELSE told
        /\ UNCHANGED <<browser, client, shown, revision, spent>>

OperationalEvent ==
    /\ spent.other < MaxOther /\ Spend("other")
    /\ wire' = [s \in Slots |-> Reached(wire[s], Other)]
    /\ UNCHANGED <<browser, client, shown, server>>

(* The path to the core fails: silently, or so that the browser notices. *)
Fault ==
    /\ socket # None /\ wire[socket].at # "free"
    /\ spent.failures < MaxFailures /\ Spend("failures")
    /\ \E at \in {"hung", "broken"} :
           wire' = [wire EXCEPT ![socket].at = at, ![socket].out = <<>>]
    /\ UNCHANGED <<browser, client, shown, server>>

Serve(s) == Upgrade(s) \/ Join(s) \/ SendSnapshot(s)
Page     == RetryFires \/ Deadline \/ TransportFails \/ Opened \/ Receive
User     == Manual \/ NetworkLost \/ NetworkBack \/ Hide \/ StaysHidden \/ Show \/ Close
Core     == (\E s \in Slots : Serve(s)) \/ Commit \/ Broadcast \/ OperationalEvent \/ Fault

Next == Page \/ User \/ Core
Spec == Init /\ [][Next]_vars

(* Timers fire, a request that reaches the core is served, an answer is     *)
(* delivered; a user's acts, faults and commits need not happen.            *)
Fairness == /\ WF_vars(RetryFires) /\ WF_vars(Deadline) /\ WF_vars(TransportFails)
            /\ WF_vars(Opened) /\ WF_vars(Receive) /\ \A s \in Slots : WF_vars(Serve(s))
FairSpec == Spec /\ Fairness

-----------------------------------------------------------------------------
Connected == online /\ socket # None /\ wire[socket].at = "ready"
Settled == Connected /\ wire[socket].out = <<>> /\ handlers = {}

(* The page, its socket and the sessions are well formed. *)
TypeOK ==
    /\ {visible, network, hiddenLong, closed, opened, deadline, retry, online} \subseteq BOOLEAN
    /\ socket \in Slots \cup {None} /\ shown \in 0..MaxRevision \cup {None}
    /\ wire \in [Slots -> [at : {"free", "requested", "accepted", "joined", "ready", "hung", "broken"},
                           snapshot : 0..MaxRevision, out : Seq(0..MaxRevision \cup {Other}), raced : BOOLEAN]]
    /\ \A s \in Slots : Len(wire[s].out) <= OutboundLimit
    /\ told <= revision /\ handlers \subseteq 1..revision

(* Through failures, deadlines, wake-ups and a close, the page holds at     *)
(* most the socket it listens to: every other one was closed.               *)
OneSocket == \A s \in Slots : wire[s].at # "free" => s = socket

(* The page never waits for nothing: while it could connect it has a socket *)
(* or an armed retry, and a socket that has not shown a scene yet is under  *)
(* a deadline.                                                              *)
NeverStuck ==
    /\ ~closed /\ canConnect => socket # None \/ retry
    /\ socket # None /\ ~online => deadline
    /\ deadline \/ online => socket # None \/ closed

(* What runs for a socket runs while there is one.                          *)
Sessions ==
    /\ revision \in 0..MaxRevision /\ told \in Nat
    /\ opened \/ deadline => socket # None
    /\ retry => socket = None
EventsInv == TypeOK /\ OneSocket /\ NeverStuck /\ Sessions

(* When all is delivered, an online page shows the Program the core holds,  *)
(* however often it reconnected; the exceptions are the hub's own losses: a *)
(* scene broadcast between the read of a session's first scene and its      *)
(* being sent, broadcasts in another order than their commits, a full queue.*)
SettledIsCurrent == Settled /\ ~wire[socket].raced => shown = revision

(* After the first scene nothing times a connection: a path that falls      *)
(* silent then is not noticed unless the browser does.                      *)
Silent == online /\ socket # None /\ wire[socket].at = "hung"
(* A page that stays visible and online gets its connection back for good   *)
(* once the faults end, unless its path fell silent unnoticed.              *)
Reconnects == <>[](canConnect /\ ~closed /\ ~Silent) => <>[]Connected
=============================================================================
