---------------------------- MODULE AudioChannel ----------------------------
(***************************************************************************)
(* One audio-only WHEP channel (audioTrackChannel.ts, connectAudioTrack):  *)
(* an attempt makes a peer, offers it to the server and takes the answer;  *)
(* a handshake timer, a stall interval that counts RTP packets and a retry *)
(* timer bring the channel back; close() may come at any await.  Sessions  *)
(* of the server are tracked until their DELETE is sent.                   *)
(***************************************************************************)
EXTENDS Naturals

CONSTANTS
  MaxPeers,    \* bound: attempts of the channel
  MaxFaults    \* bound: failures of the network, the server and the source, of
               \* which each costs at most one attempt

VARIABLES
  closed,     \* close() was called
  state,      \* the last state reported to the workspace
  attempt,    \* failures since the channel last counted as connected
  peer,       \* the peer in use, numbered by its attempt (0: none)
  location,   \* the session of `peer` known to the channel (0: none)
  flight,     \* the attempt whose await is pending
  timers,     \* the timers that are running
  sampling,   \* the peer whose statistics are being read (0: none)
  connection, \* connectionState of `peer`
  flows,      \* RTP packets arrive from the server
  overdue,    \* no progress was counted for STALL_MS
  heard,      \* history: packets of `peer` were counted
  sessions,   \* the server's sessions whose DELETE was not sent
  made,       \* attempts so far
  faults

channel == <<closed, state, attempt, peer, location, flight, timers, sampling, made>>
media   == <<connection, flows, overdue, heard>>
vars    == <<channel, media, sessions, faults>>

NoFlight == [of |-> 0, at |-> "none"]

\* connect(): a new peer; its first await is the offer and its candidates.
connect ==
  /\ made < MaxPeers /\ made' = made + 1
  /\ peer' = made + 1
  /\ flight' = [of |-> made + 1, at |-> "gathering"]
  /\ state' = IF attempt = 0 THEN "connecting" ELSE "reconnecting"
  /\ connection' = "new" /\ heard' = FALSE

Init ==
  /\ closed = FALSE /\ state = "connecting" /\ attempt = 0
  /\ peer = 1 /\ location = 0 /\ flight = [of |-> 1, at |-> "gathering"] /\ made = 1
  /\ timers = {} /\ sampling = 0
  /\ connection = "new" /\ flows = TRUE /\ overdue = FALSE /\ heard = FALSE
  /\ sessions = {} /\ faults = 0

\* release(): no timer, no peer, and the session's DELETE is sent.
releaseTimed ==
  /\ UNCHANGED timers /\ peer' = 0 /\ location' = 0 /\ sampling' = 0
  /\ sessions' = sessions \ {location}
  /\ connection' = "new" /\ heard' = FALSE
release ==
  /\ timers' = {} /\ peer' = 0 /\ location' = 0 /\ sampling' = 0
  /\ sessions' = sessions \ {location}
  /\ connection' = "new" /\ heard' = FALSE

\* scheduleReconnect(): let go of everything and wait for the retry timer.
scheduleReconnectOnce ==
  /\ state' = "reconnecting"
  /\ attempt' = IF attempt < 2 THEN attempt + 1 ELSE attempt
  /\ peer' = 0 /\ location' = 0 /\ sampling' = 0 /\ sessions' = sessions \ {location}
  /\ connection' = "new" /\ heard' = FALSE
  /\ timers' = IF attempt < 2 THEN {"retry"} ELSE {}
scheduleReconnect ==
  /\ state' = "reconnecting"
  /\ attempt' = IF attempt < 2 THEN attempt + 1 ELSE attempt
  /\ peer' = 0 /\ location' = 0 /\ sampling' = 0 /\ sessions' = sessions \ {location}
  /\ connection' = "new" /\ heard' = FALSE
  /\ timers' = {"retry"}

Fault == faults < MaxFaults /\ faults' = faults + 1

\* After an await the attempt goes on only if it is still the channel's.
Current == ~closed /\ peer = flight.of

-----------------------------------------------------------------------------
(* The attempt *)

\* The offer is complete: POST it, unless the channel was closed meanwhile.
Gathered ==
  /\ flight.at = "gathering"
  /\ flight' = IF Current THEN [flight EXCEPT !.at = "posting"] ELSE NoFlight
  /\ UNCHANGED <<closed, state, attempt, peer, location, timers, sampling, made, media, sessions, faults>>

\* 201 with the location of a new session; a closed channel deletes it.
CreatedKept ==
  /\ flight.at = "posting"
  /\ sessions' = sessions \cup {flight.of}
  /\ IF Current THEN location' = flight.of /\ flight' = [flight EXCEPT !.at = "answering"]
                ELSE flight' = NoFlight /\ UNCHANGED location
  /\ UNCHANGED <<closed, state, attempt, peer, timers, sampling, made, media, faults>>
Created ==
  /\ flight.at = "posting"
  /\ IF Current
     THEN /\ location' = flight.of /\ sessions' = sessions \cup {flight.of}
          /\ flight' = [flight EXCEPT !.at = "answering"]
     ELSE flight' = NoFlight /\ UNCHANGED <<location, sessions>>
  /\ UNCHANGED <<closed, state, attempt, peer, timers, sampling, made, media, faults>>

\* 401 or 403 ends the channel.
Denied ==
  /\ Fault /\ flight.at = "posting" /\ flight' = NoFlight
  /\ release /\ state' = "disabled"
  /\ UNCHANGED <<closed, attempt, made, flows, overdue>>

\* Any other failure of the offer, the POST or the answer: try again later.
AttemptFails ==
  /\ Fault /\ flight.at # "none" /\ flight' = NoFlight
  /\ IF closed THEN UNCHANGED <<state, attempt, peer, location, timers, sampling, sessions, connection, heard>>
               ELSE scheduleReconnect
  /\ UNCHANGED <<closed, made, flows, overdue>>

\* The answer is set: the handshake has 15 s and the stall interval starts.
Answered ==
  /\ flight.at = "answering" /\ flight' = NoFlight
  /\ timers' = IF Current THEN {"handshake", "stall"} ELSE timers
  /\ overdue' = IF Current THEN FALSE ELSE overdue
  /\ UNCHANGED <<closed, state, attempt, peer, location, sampling, made, connection, flows, heard, sessions, faults>>

-----------------------------------------------------------------------------
(* Timers *)

\* Also on a peer that is connected, if the interval did not see it yet.
HandshakeEnds ==
  /\ Fault /\ "handshake" \in timers /\ scheduleReconnect
  /\ UNCHANGED <<closed, flight, made, flows, overdue>>

Retry ==
  /\ "retry" \in timers /\ ~closed /\ timers' = timers \ {"retry"} /\ connect
  /\ UNCHANGED <<closed, attempt, location, sampling, flows, overdue, sessions, faults>>

\* Every second while connected: the channel counts as connected, and one
\* reading of the peer's statistics is started at a time.
StallTickBlind ==
  /\ "stall" \in timers /\ connection = "connected" /\ state # "connected"
  /\ timers' = timers \ {"handshake"} /\ state' = "connected" /\ attempt' = 0
  /\ UNCHANGED <<closed, peer, location, flight, sampling, made, media, sessions, faults>>
StallTick ==
  /\ "stall" \in timers /\ connection = "connected"
  /\ state # "connected" \/ "handshake" \in timers \/ sampling # peer
  /\ timers' = timers \ {"handshake"}
  /\ state' = "connected"
  /\ attempt' = IF state = "connected" THEN attempt ELSE 0
  /\ sampling' = peer
  /\ UNCHANGED <<closed, peer, location, flight, made, media, sessions, faults>>

\* readPeerStats answers: packets were counted, or none for STALL_MS.
Sampled ==
  /\ sampling # 0 /\ sampling = peer /\ ~closed
  /\ IF flows
     THEN /\ heard' = TRUE /\ overdue' = FALSE /\ sampling' = 0
          /\ UNCHANGED <<state, attempt, peer, location, timers, sessions, connection>>
     ELSE IF overdue
     THEN scheduleReconnect /\ UNCHANGED overdue
     ELSE /\ sampling' = 0
          /\ UNCHANGED <<state, attempt, peer, location, timers, sessions, connection, heard, overdue>>
  /\ UNCHANGED <<closed, flight, made, flows, faults>>

-----------------------------------------------------------------------------
(* The peer, the source and the owner of the channel *)

Connected ==
  /\ timers \cap {"handshake", "stall"} # {} /\ connection = "new" /\ connection' = "connected"
  /\ UNCHANGED <<channel, flows, overdue, heard, sessions, faults>>

ConnectionFails ==
  /\ Fault /\ peer # 0 /\ flight.at = "none" /\ scheduleReconnect
  /\ UNCHANGED <<closed, flight, made, flows, overdue>>

SourceStops ==
  /\ Fault /\ flows /\ flows' = FALSE
  /\ UNCHANGED <<channel, connection, overdue, heard, sessions>>

SourceReturns ==
  /\ ~flows /\ flows' = TRUE
  /\ UNCHANGED <<channel, connection, overdue, heard, sessions, faults>>

TimePasses ==
  /\ Fault /\ ~flows /\ ~overdue /\ overdue' = TRUE
  /\ UNCHANGED <<channel, connection, flows, heard, sessions>>

close ==
  /\ ~closed /\ closed' = TRUE /\ release /\ state' = "disabled"
  /\ UNCHANGED <<attempt, flight, made, flows, overdue, faults>>

Next ==
  \/ Gathered \/ Created \/ Denied \/ AttemptFails \/ Answered
  \/ HandshakeEnds \/ Retry \/ StallTick \/ Sampled
  \/ Connected \/ ConnectionFails \/ SourceStops \/ SourceReturns \/ TimePasses \/ close

Spec == Init /\ [][Next]_vars

\* Requests end (their failures are faults), timers fire, a peer that was
\* answered connects or costs a fault, statistics arrive, and a stopped source comes back.
Progress ==
  /\ WF_vars(Gathered) /\ WF_vars(Created) /\ WF_vars(Answered) 
  /\ WF_vars(Retry) /\ WF_vars(StallTick) /\ WF_vars(Sampled) /\ WF_vars(Connected)
  /\ WF_vars(SourceReturns)

FairSpec == Spec /\ Progress

-----------------------------------------------------------------------------
(* Properties *)

\* The states of a channel; without a peer there is nothing to time or sample
\* but the next attempt.
TypeOK ==
  /\ state \in {"connecting", "connected", "reconnecting", "disabled"}
  /\ attempt \in 0..2 /\ made \in 1..MaxPeers /\ faults \in 0..MaxFaults
  /\ peer \in 0..made /\ location \in {0, peer} /\ sampling \in {0, peer}
  /\ sessions \subseteq 1..made
  /\ flight \in [of : 0..made, at : {"none", "gathering", "posting", "answering"}]
  /\ timers \subseteq {"handshake", "stall", "retry"}
  /\ peer = 0 => timers \subseteq {"retry"}
  /\ closed => peer = 0 /\ timers = {}

\* audioTrackChannel.ts:92-96, 140-143: the channel still knows every session
\* it has not asked the server to delete, also when it was closed while the
\* POST was on its way.
NoForgottenSession == sessions \subseteq {location}

\* audioTrackChannel.ts:99-107: a channel that was neither closed nor denied
\* always has something that will move it: an attempt, the retry timer, or
\* the timers that watch a peer.
NeverStuck ==
  state # "disabled" =>
    \/ flight.at # "none" \/ "retry" \in timers
    \/ "handshake" \in timers \/ ("stall" \in timers /\ connection = "connected")

\* An await belongs to the peer in use or to none; a channel that is closed or
\* denied has neither a peer nor a timer, one without a peer waits to retry.
Owned ==
  /\ flight.at # "none" => flight.of # 0 /\ peer \in {0, flight.of} /\ (closed \/ state # "disabled")
  /\ state = "disabled" => peer = 0 /\ timers = {}
  /\ closed => state = "disabled"
  /\ peer = 0 /\ state # "disabled" => timers = {"retry"}
  /\ "retry" \in timers => peer = 0

\* What every step keeps.
ChannelInv == TypeOK /\ NoForgottenSession /\ NeverStuck /\ Owned

\* When the failures end, an open channel is heard in the end.
Recovers == <>(state = "disabled" \/ (state = "connected" /\ heard))
=============================================================================
