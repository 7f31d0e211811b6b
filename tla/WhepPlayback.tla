---------------------------- MODULE WhepPlayback ----------------------------
(***************************************************************************)
(* A camera tile and its WHEP connection (web/src/whep.ts): the attempts   *)
(* to negotiate a peer, the timers that give one up, the watchdog over the *)
(* presented frames, the reconnect ladder, and a tile that suspends,       *)
(* restarts or closes the connection at any moment.                        *)
(*                                                                         *)
(* Id is an attempt: one run of connect(), its peer and its server         *)
(* session. An attempt outlives its generation until what it awaits ends.  *)
(***************************************************************************)
EXTENDS Integers, FiniteSets

CONSTANTS
    Id,             \* names of attempts, reused once nothing of one is left
    None,
    MaxFaults,      \* bound: refusals, broken paths and waits longer than their timer
    MaxActs         \* bound: acts of the user and of the browser

VARIABLES
    enabled, visible, mayPlay, paused,  \* the tile plays, the page shows, play() is allowed, <video>
    state,          \* what the connection last told the tile
    open, generation, timers, watchdog, stage, retried,
    step,           \* what each attempt awaits
    peer, alive,    \* the connection's peer; every peer not closed
    session, server,    \* the known session; each attempt's session on the server
    ice, path, fresh,   \* the peer's state, its media, a frame not long ago
    faults, acts

tile == <<enabled, visible, mayPlay, paused>>
link == <<ice, path, fresh>>
conn == <<open, generation, timers, watchdog, stage, retried, state>>
held == <<step, peer, alive, session, server>>
vars == <<tile, link, conn, held, faults, acts>>

Fault == faults < MaxFaults /\ faults' = faults + 1
Act   == acts < MaxActs /\ acts' = acts + 1
Unused == {i \in Id : step[i] = "free" /\ i \notin alive /\ server[i] # "told"}

Init ==
    /\ enabled = TRUE /\ visible = TRUE /\ mayPlay = TRUE /\ paused = TRUE
    /\ state = "checking" /\ open = TRUE /\ timers = {} /\ watchdog = FALSE /\ stage = {} /\ retried = FALSE
    /\ generation = CHOOSE i \in Id : TRUE
    /\ step = [i \in Id |-> IF i = generation THEN "resolving" ELSE "free"]
    /\ peer = None /\ alive = {} /\ session = None /\ server = [i \in Id |-> "none"]
    /\ ice = "new" /\ path = "good" /\ fresh = FALSE
    /\ faults = 0 /\ acts = 0

-----------------------------------------------------------------------------
(* Mutant: the server is not told. *)
releaseQuietly(i) ==
    /\ peer' = None /\ alive' = alive \ {peer} /\ watchdog' = FALSE
    /\ session' = None /\ server' = server
    /\ step' = [j \in Id |-> IF j = i \/ (j = generation /\ step[j] \in {"posting", "reading", "bad"})
                               THEN "free" ELSE step[j]]

(* releaseSession: the request is aborted, the peer closed, the session     *)
(* deleted. A resolver or the gathering of candidates is not aborted.       *)
(* i: the attempt that ends by itself in this step, or None.                *)
releaseSession(i) ==
    /\ peer' = None /\ alive' = alive \ {peer} /\ watchdog' = FALSE
    /\ session' = None
    /\ server' = [j \in Id |-> IF j = session THEN "gone" ELSE server[j]]
    /\ step' = [j \in Id |-> IF j = i \/ (j = generation /\ step[j] \in {"posting", "reading", "bad"})
                               THEN "free" ELSE step[j]]

Ends(i) == step' = [step EXCEPT ![i] = "free"]

(* Mutant: the other timers run on. *)
giveUpAddsTimer(i) ==
    /\ releaseSession(i)
    /\ timers' = timers \cup {"retry"} /\ stage' = {} /\ retried' = TRUE
    /\ state' = IF retried THEN "reconnecting" ELSE "offline"
(* Mutant: only the first failure arms a retry. *)
giveUpOnce(i) ==
    /\ releaseSession(i)
    /\ timers' = (IF retried THEN {} ELSE {"retry"}) /\ stage' = {} /\ retried' = TRUE
    /\ state' = IF retried THEN "reconnecting" ELSE "offline"
(* The body of scheduleReconnect: all is released and one retry armed. *)
giveUp(i) ==
    /\ releaseSession(i)
    /\ timers' = {"retry"} /\ stage' = {} /\ retried' = TRUE
    /\ state' = IF retried THEN "reconnecting" ELSE "offline"

scheduleReconnect(i) ==
    IF ~open \/ "retry" \in timers
    THEN /\ step' = [j \in Id |-> IF j = i THEN "free" ELSE step[j]]
         /\ UNCHANGED <<peer, alive, session, server, conn, tile, link>>
    ELSE giveUp(i) /\ UNCHANGED <<open, generation, tile, link>>

(* The catch of connect(): an attempt of an older generation just returns. *)
Fails(i) ==
    IF ~open \/ i # generation
    THEN Ends(i) /\ UNCHANGED <<peer, alive, session, server, conn, tile, link>>
    ELSE scheduleReconnect(i)

(* connect(): a new generation, whose attempt resolves its endpoint. *)
Begin(i) ==
    /\ i \in Unused
    /\ generation' = i /\ step' = [step EXCEPT ![i] = "resolving"] /\ server' = [server EXCEPT ![i] = "none"]
    /\ state' = IF retried THEN "reconnecting" ELSE "checking"
RetryFires ==
    \E i \in Id :
        /\ "retry" \in timers /\ timers' = timers \ {"retry"} /\ Begin(i)
        /\ UNCHANGED <<tile, link, open, watchdog, stage, retried, peer, alive, session, faults, acts>>

(* Mutant: an attempt that was overtaken builds its peer all the same. *)
ResolvedLate(i) ==
    /\ step[i] = "resolving"
    /\ step' = [step EXCEPT ![i] = "gathering"] /\ peer' = i /\ alive' = alive \cup {i}
    /\ ice' = "new" /\ path' = "good" /\ fresh' = FALSE
    /\ UNCHANGED <<tile, conn, session, server, faults, acts>>
(* The endpoint is known: none (a Program that is disabled) ends it, the    *)
(* request for it may fail, otherwise the peer is built.                    *)
Resolved(i) ==
    /\ step[i] = "resolving" /\ UNCHANGED acts
    /\ \/ i # generation /\ Ends(i) /\ UNCHANGED <<peer, alive, session, server, conn, tile, link, faults>>
       \/ /\ i = generation /\ Ends(i) /\ Fault /\ state' = "disabled"
          /\ UNCHANGED <<peer, alive, session, server, open, generation, timers, watchdog, stage, retried, tile, link>>
       \/ i = generation /\ Fails(i) /\ Fault
       \/ /\ i = generation
          /\ step' = [step EXCEPT ![i] = "gathering"] /\ peer' = i /\ alive' = alive \cup {i}
          /\ ice' = "new" /\ path' = "good" /\ fresh' = FALSE
          /\ state' = IF retried THEN "reconnecting" ELSE "connecting"
          /\ UNCHANGED <<open, generation, timers, watchdog, stage, retried, tile, session, server, faults>>

(* gatherIce: complete, or timed out after 10 s. *)
Gathered(i) ==
    /\ step[i] = "gathering" /\ UNCHANGED acts
    /\ \/ /\ step' = [step EXCEPT ![i] = IF i = generation THEN "posting" ELSE "free"]
          /\ UNCHANGED <<conn, tile, link, peer, alive, session, server, faults>>
       \/ i = generation /\ Fails(i) /\ Fault

(* The server handles the offer: it creates a session, or refuses. *)
Serve(i) ==
    /\ step[i] = "posting" /\ server[i] = "none"
    /\ \/ server' = [server EXCEPT ![i] = "made"] /\ UNCHANGED faults
       \/ Fault /\ \E verdict \in {"refused", "denied", "badAnswer"} : server' = [server EXCEPT ![i] = verdict]
    /\ UNCHANGED <<tile, link, conn, step, peer, alive, session, acts>>

(* A 201 has a Location, noted before the answer is read. A 401 or 403 asks *)
(* the owner first; any other status fails.                                 *)
Posted(i) ==
    /\ step[i] = "posting" /\ UNCHANGED <<faults, acts>>
    /\ \/ /\ server[i] \in {"made", "badAnswer"}
          /\ session' = i /\ server' = [server EXCEPT ![i] = "told"]
          /\ step' = [step EXCEPT ![i] = IF server[i] = "made" THEN "reading" ELSE "bad"]
          /\ UNCHANGED <<peer, alive, conn, tile, link>>
       \/ /\ server[i] = "denied" /\ step' = [step EXCEPT ![i] = "rejected"]
          /\ UNCHANGED <<peer, alive, session, server, conn, tile, link>>
       \/ server[i] = "refused" /\ Fails(i)

(* onAuthorizationRejected has returned: no reconnect loop. *)
Rejected(i) ==
    /\ step[i] = "rejected" /\ UNCHANGED <<faults, acts>>
    /\ IF ~open \/ i # generation
       THEN Ends(i) /\ UNCHANGED <<peer, alive, session, server, conn, tile, link>>
       ELSE /\ releaseSession(i)
            /\ stage' = {} /\ state' = "disabled"
            /\ UNCHANGED <<open, generation, timers, retried, tile, link>>

BadAnswer(i) == step[i] = "bad" /\ Fails(i) /\ UNCHANGED <<faults, acts>>

(* The answer is set: the tracks arrive (ontrack plays the video) and the   *)
(* handshake has 15 s. A closed peer never gets here.                       *)
Answered(i) ==
    /\ step[i] = "reading" /\ Ends(i)
    /\ stage' = stage \cup {"signaling"} /\ timers' = timers \cup {"handshake"}
    /\ paused' = (paused /\ ~mayPlay)
    /\ UNCHANGED <<enabled, visible, mayPlay, link, open, generation, watchdog, retried, state, peer, alive, session, server, faults, acts>>

-----------------------------------------------------------------------------
(* The peer *)

Moves == [new |-> {"connecting"}, connecting |-> {"connected", "failed"}, connected |-> {"disconnected"},
          disconnected |-> {"connecting", "connected", "failed"}, failed |-> {}]
Harm == {"disconnected", "failed"}

(* onconnectionstatechange *)
StateTimers(now) ==
    IF now = "connected"
    THEN (timers \ {"handshake"}) \cup (IF "frame" \in stage THEN {} ELSE {"firstFrame"})
    ELSE IF now = "disconnected" THEN timers \cup {"disconnected"}
    ELSE IF now = "connecting" THEN timers \ {"disconnected"} ELSE timers

IceChanges(now) ==
    /\ peer # None /\ (step[peer] = "reading" \/ "signaling" \in stage)
    /\ now \in Moves[ice] /\ ice' = now
    /\ now = "connected" => path = "good"
    /\ IF now \in Harm THEN Fault ELSE UNCHANGED faults
    /\ IF now = "failed"
       THEN giveUp(None)
       ELSE /\ timers' = StateTimers(now)
            /\ stage' = IF now = "connected" THEN stage \cup {"ice"} ELSE stage
            /\ UNCHANGED <<held, watchdog, retried, state>>
    /\ UNCHANGED <<open, generation, tile, path, fresh, acts>>

(* The media of the peer stops without a word. *)
MediaStops ==
    /\ peer # None /\ path = "good" /\ path' = "stuck" /\ Fault
    /\ UNCHANGED <<tile, ice, fresh, conn, held, acts>>

TimerFires(t, done) ==
    /\ t \in timers
    /\ IF done THEN timers' = timers \ {t} /\ UNCHANGED <<tile, link, open, generation, watchdog, stage, retried, state, held, faults>>
       ELSE /\ \/ (path = "stuck" \/ (paused /\ "signaling" \in stage) \/ ~visible) /\ UNCHANGED faults
               \/ Fault
            /\ scheduleReconnect(None)
    /\ UNCHANGED acts
HandshakeTimeout  == TimerFires("handshake", "ice" \in stage)
FirstFrameTimeout == TimerFires("firstFrame", "frame" \in stage)

(* 3 s after the state 'disconnected', whatever the state is by then. *)
DisconnectedTimeout == "disconnected" \in timers /\ scheduleReconnect(None) /\ UNCHANGED <<faults, acts>>

(* Mutant: the watchdog starts with the first gap only. *)
startWatchdogLate == watchdog' = fresh
startWatchdog == watchdog' = TRUE
(* markFrame: a frame was presented. Hidden pages present none. *)
markFrame ==
    /\ peer # None /\ ice = "connected" /\ path = "good" /\ visible /\ ~paused
    /\ ~fresh \/ "frame" \notin stage
    /\ fresh' = TRUE
    /\ IF "frame" \in stage THEN UNCHANGED conn
       ELSE /\ stage' = stage \cup {"frame", "ice"} /\ timers' = timers \ {"firstFrame"}
            /\ retried' = FALSE /\ state' = "live" /\ startWatchdog
            /\ UNCHANGED <<open, generation>>
    /\ UNCHANGED <<tile, ice, path, held, faults, acts>>

(* Time passes without a frame. *)
GoesStale ==
    /\ watchdog /\ fresh /\ (path = "stuck" \/ ~visible \/ paused \/ ice # "connected")
    /\ fresh' = FALSE
    /\ UNCHANGED <<tile, ice, path, conn, held, faults, acts>>

(* The watchdog's tick: nothing while hidden, plays a paused video, takes   *)
(* old frames for a stall.                                                  *)
StallSeen == watchdog /\ visible /\ ~paused /\ ~fresh /\ scheduleReconnect(None) /\ UNCHANGED <<faults, acts>>
Replay ==
    /\ watchdog /\ visible /\ paused /\ mayPlay /\ paused' = FALSE
    /\ UNCHANGED <<enabled, visible, mayPlay, link, conn, held, faults, acts>>

-----------------------------------------------------------------------------
(* The tile, its user and the browser *)

close == open' = FALSE /\ generation' = None /\ timers' = {} /\ releaseSession(None)

(* Mutant: only the peer is closed. *)
SuspendPeer ==
    /\ enabled /\ Act /\ enabled' = FALSE
    /\ releaseSession(None) /\ state' = "disabled"
    /\ UNCHANGED <<visible, mayPlay, paused, link, open, generation, timers, stage, retried, faults>>
(* The tile leaves the view (low power) or unmounts. *)
Suspend ==
    /\ enabled /\ Act /\ enabled' = FALSE
    /\ close /\ state' = "disabled"
    /\ UNCHANGED <<visible, mayPlay, paused, link, stage, retried, faults>>

(* connectSource: a new connection. *)
Open ==
    \E i \in Id :
        /\ ~enabled /\ Act /\ enabled' = TRUE
        /\ i \in Unused /\ open' = TRUE /\ generation' = i /\ timers' = {} /\ stage' = {} /\ retried' = FALSE
        /\ step' = [step EXCEPT ![i] = "resolving"] /\ server' = [server EXCEPT ![i] = "none"]
        /\ state' = "checking" /\ paused' = TRUE
        /\ UNCHANGED <<visible, mayPlay, link, watchdog, peer, alive, session, faults>>

Turn == Act /\ visible' = ~visible /\ UNCHANGED <<enabled, mayPlay, paused, link, conn, held, faults>>
BrowserPauses ==
    /\ Act /\ ~paused /\ paused' = TRUE /\ mayPlay' \in BOOLEAN
    /\ UNCHANGED <<enabled, visible, link, conn, held, faults>>
(* resume(): play() from a gesture. *)
Resume ==
    /\ paused /\ "signaling" \in stage /\ Act /\ paused' = FALSE /\ mayPlay' = TRUE
    /\ UNCHANGED <<enabled, visible, link, conn, held, faults>>

-----------------------------------------------------------------------------
Negotiate(i) == Resolved(i) \/ Gathered(i) \/ Serve(i) \/ Posted(i) \/ Rejected(i) \/ BadAnswer(i) \/ Answered(i)
Timers == RetryFires \/ HandshakeTimeout \/ FirstFrameTimeout \/ DisconnectedTimeout
Media  == markFrame \/ GoesStale \/ StallSeen \/ Replay \/ MediaStops
User   == Suspend \/ Open \/ Turn \/ BrowserPauses \/ Resume

Next == (\E i \in Id : Negotiate(i)) \/ Timers \/ (\E s \in DOMAIN Moves : IceChanges(s)) \/ Media \/ User
Spec == Init /\ [][Next]_vars

(* What is awaited ends, timers fire, media flows unless it is cut. *)
Fairness ==
    /\ \A i \in Id : WF_vars(Negotiate(i))
    /\ WF_vars(RetryFires) /\ WF_vars(HandshakeTimeout) /\ WF_vars(FirstFrameTimeout) /\ WF_vars(DisconnectedTimeout)
    /\ WF_vars(IceChanges("connecting")) /\ WF_vars(IceChanges("connected"))
    /\ WF_vars(markFrame) /\ WF_vars(GoesStale) /\ WF_vars(StallSeen) /\ WF_vars(Replay)
FairSpec == Spec /\ Fairness

-----------------------------------------------------------------------------
TypeOK ==
    /\ {enabled, visible, mayPlay, paused, open, watchdog, retried, fresh} \subseteq BOOLEAN
    /\ state \in {"checking", "connecting", "live", "reconnecting", "offline", "disabled"}
    /\ {generation, peer, session} \subseteq Id \cup {None} /\ alive \subseteq Id
    /\ timers \subseteq {"retry", "disconnected", "handshake", "firstFrame"}
    /\ "retry" \in timers => timers = {"retry"} /\ peer = None
    /\ stage \subseteq {"signaling", "ice", "frame"}
    /\ step \in [Id -> {"free", "resolving", "gathering", "posting", "rejected", "reading", "bad"}]
    /\ server \in [Id -> {"none", "made", "told", "gone", "refused", "denied", "badAnswer"}]

(* However attempts, retries and restarts overlap, at most one peer is open *)
(* for a tile, the one the connection knows; none once it is closed.        *)
OnePeer == alive = IF peer = None THEN {} ELSE {peer}

(* Every server session whose Location arrived is the connection's own or   *)
(* was deleted: no restart, timeout or bad answer leaves one playing.       *)
NoForgottenSession == \A i \in Id : server[i] = "told" => session = i /\ open

(* An open connection that was not told to stop always has something that   *)
(* moves it on: an attempt, a timer or the watchdog.                        *)
NeverStuck ==
    open /\ state # "disabled" =>
        \/ step[generation] # "free" \/ timers # {} \/ watchdog

(* An attempt that has no answer yet has the connection to itself: no       *)
(* timer, no watchdog and no stage is left of an earlier one; only the      *)
(* latest attempt has a request on its way.                                 *)
Early == {"resolving", "gathering", "posting", "rejected", "bad"}
Attempting ==
    /\ enabled = open /\ (open <=> generation # None)
    /\ {peer, session} \subseteq {None, generation}
    /\ ~open => timers = {}
    /\ watchdog => peer # None
    /\ "retry" \in timers => step[generation] = "free" /\ session = None /\ stage = {}
    /\ \A i \in Id : step[i] \in {"posting", "reading", "bad"} => i = generation
    /\ open =>
        /\ step[generation] \in Early => timers = {} /\ stage = {} /\ ~watchdog
        /\ step[generation] = "resolving" => peer = None
        /\ step[generation] \in Early /\ peer # None => ice = "new"
        /\ step[generation] \in {"resolving", "gathering", "posting", "rejected"} => session = None

(* Whatever stage a connection has reached, the timer or the watchdog of    *)
(* the next one runs.                                                       *)
Watched ==
    open =>
        /\ step[generation] = "free" /\ state # "disabled" => timers \cap {"retry", "handshake"} # {} \/ "ice" \in stage
        /\ "ice" \in stage => "frame" \in stage \/ "firstFrame" \in timers
        /\ "frame" \in stage => watchdog

(* What every step keeps.                                                   *)
PlaybackInv == TypeOK /\ OnePeer /\ NoForgottenSession /\ NeverStuck /\ Attempting /\ Watched

(* A tile says live only with a peer that showed a frame and is watched,    *)
(* and a suspended tile says nothing else.                                  *)
LiveIsReal ==
    /\ state = "live" => open /\ peer # None /\ "frame" \in stage /\ watchdog
    /\ ~enabled => state = "disabled" /\ timers = {} /\ alive = {}

(* A tile that stays enabled and visible, and may play, plays in the end,   *)
(* unless the server turned it off.                                         *)
Recovers == <>[](enabled /\ visible /\ mayPlay) => <>[](state = "live" \/ state = "disabled")
=============================================================================
