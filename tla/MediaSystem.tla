---------------------------- MODULE MediaSystem ----------------------------
(* What a page plays and shows: a tile's WebRTC playback (WhepPlayback), a  *)
(* track's audio channel (AudioChannel), the audio mixer (AudioMixer) and   *)
(* the tracks attached to it (AudioTracks), the events socket               *)
(* (SceneEvents), the workspace's layout (WorkspaceLayout) and the rotation *)
(* of the wall (MonitorWall).  A behaviour is of one of the seven; the      *)
(* others rest.                                                             *)
EXTENDS Integers, FiniteSets

CONSTANTS
    Attempts, Absent,       \* attempts of a tile; what is not there
    TileFaults, TileActs,
    ChannelPeers, ChannelFaults,
    MixerActs,
    ScenesOf, TracksOf, Plain,  \* scenes, tracks, sources that are plain streams
    TrackActs, TrackFaults,
    Sockets, Operational,   \* names of sockets; an operational event
    Revisions, Operationals, SocketFailures, QueueLimit,
    LayoutActs,
    Items, WallActs, WallSignals

ASSUME MediaAssumption ==
    /\ Attempts # {} /\ Absent \notin Attempts
    /\ ChannelPeers \in Nat \ {0}
    /\ \A s \in DOMAIN TracksOf : TracksOf[s] \subseteq Nat
    /\ \A sc \in DOMAIN ScenesOf : ScenesOf[sc] \subseteq DOMAIN TracksOf
    /\ Sockets # {} /\ Absent \notin Sockets
    /\ {ChannelFaults, Revisions, QueueLimit} \subseteq Nat

VARIABLES
    showing,    \* which of the systems this behaviour is of
    p_enabled, p_visible, p_mayPlay, p_paused, p_state, p_open, p_generation,
    p_timers, p_watchdog, p_stage, p_retried, p_step, p_peer, p_alive,
    p_session, p_server, p_ice, p_path, p_fresh, p_faults, p_acts,
    h_closed, h_state, h_attempt, h_peer, h_location, h_flight, h_timers,
    h_sampling, h_connection, h_flows, h_overdue, h_heard, h_sessions,
    h_made, h_faults,
    m_kind, m_view, m_loaded, m_front, m_enabled, m_blocked, m_context,
    m_ops, m_allowed, m_output, m_inputs, m_meter, m_shown, m_acts,
    t_scene, t_front, t_probed, t_request, t_waiting, t_reprobing, t_cached,
    t_selection, t_channels, t_live, t_attached, t_bound, t_gain, t_acts,
    t_faults,
    e_visible, e_network, e_hiddenLong, e_closed, e_socket, e_opened,
    e_deadline, e_retry, e_online, e_shown, e_wire, e_revision, e_handlers,
    e_told, e_spent,
    l_account, l_profile, l_layout, l_rendering, l_latestLayout,
    l_savedLayout, l_boot, l_timer, l_queued, l_writing, l_reloads, l_acts,
    l_edited, l_applied, l_written, l_touched, l_failed,
    w_view, w_seen, w_visible, w_active, w_bag, w_signature, w_timers,
    w_cooling, w_acts, w_choice, w_crossed

Tile == INSTANCE WhepPlayback WITH
    Id <- Attempts, None <- Absent, MaxFaults <- TileFaults, MaxActs <- TileActs,
    enabled <- p_enabled, visible <- p_visible, mayPlay <- p_mayPlay,
    paused <- p_paused, state <- p_state, open <- p_open,
    generation <- p_generation, timers <- p_timers, watchdog <- p_watchdog,
    stage <- p_stage, retried <- p_retried, step <- p_step, peer <- p_peer,
    alive <- p_alive, session <- p_session, server <- p_server,
    ice <- p_ice, path <- p_path, fresh <- p_fresh, faults <- p_faults,
    acts <- p_acts
TileVars == <<p_enabled, p_visible, p_mayPlay, p_paused, p_state, p_open, p_generation,
    p_timers, p_watchdog, p_stage, p_retried, p_step, p_peer, p_alive,
    p_session, p_server, p_ice, p_path, p_fresh, p_faults, p_acts>>
Channel == INSTANCE AudioChannel WITH
    MaxPeers <- ChannelPeers, MaxFaults <- ChannelFaults, closed <- h_closed, state <- h_state,
    attempt <- h_attempt, peer <- h_peer, location <- h_location,
    flight <- h_flight, timers <- h_timers, sampling <- h_sampling,
    connection <- h_connection, flows <- h_flows, overdue <- h_overdue,
    heard <- h_heard, sessions <- h_sessions, made <- h_made,
    faults <- h_faults
ChannelVars == <<h_closed, h_state, h_attempt, h_peer, h_location, h_flight, h_timers,
    h_sampling, h_connection, h_flows, h_overdue, h_heard, h_sessions,
    h_made, h_faults>>
Mixer == INSTANCE AudioMixer WITH
    MaxActs <- MixerActs, kind <- m_kind, view <- m_view, loaded <- m_loaded,
    front <- m_front, enabled <- m_enabled, blocked <- m_blocked,
    context <- m_context, ops <- m_ops, allowed <- m_allowed,
    output <- m_output, inputs <- m_inputs, meter <- m_meter,
    shown <- m_shown, acts <- m_acts
MixerVars == <<m_kind, m_view, m_loaded, m_front, m_enabled, m_blocked, m_context,
    m_ops, m_allowed, m_output, m_inputs, m_meter, m_shown, m_acts>>
Audio == INSTANCE AudioTracks WITH
    Scenes <- ScenesOf, Tracks <- TracksOf, Streams <- Plain,
    MaxActs <- TrackActs, MaxFaults <- TrackFaults, scene <- t_scene, front <- t_front,
    probed <- t_probed, request <- t_request, waiting <- t_waiting,
    reprobing <- t_reprobing, cached <- t_cached, selection <- t_selection,
    channels <- t_channels, live <- t_live, attached <- t_attached,
    bound <- t_bound, gain <- t_gain, acts <- t_acts, faults <- t_faults
AudioVars == <<t_scene, t_front, t_probed, t_request, t_waiting, t_reprobing, t_cached,
    t_selection, t_channels, t_live, t_attached, t_bound, t_gain, t_acts,
    t_faults>>
Events == INSTANCE SceneEvents WITH
    Slots <- Sockets, None <- Absent, Other <- Operational,
    MaxRevision <- Revisions, MaxOther <- Operationals,
    MaxFailures <- SocketFailures, OutboundLimit <- QueueLimit,
    visible <- e_visible, network <- e_network, hiddenLong <- e_hiddenLong,
    closed <- e_closed, socket <- e_socket, opened <- e_opened,
    deadline <- e_deadline, retry <- e_retry, online <- e_online,
    shown <- e_shown, wire <- e_wire, revision <- e_revision,
    handlers <- e_handlers, told <- e_told, spent <- e_spent
EventsVars == <<e_visible, e_network, e_hiddenLong, e_closed, e_socket, e_opened,
    e_deadline, e_retry, e_online, e_shown, e_wire, e_revision, e_handlers,
    e_told, e_spent>>
Layout == INSTANCE WorkspaceLayout WITH
    None <- Absent, MaxActs <- LayoutActs, account <- l_account, profile <- l_profile,
    layout <- l_layout, rendering <- l_rendering,
    latestLayout <- l_latestLayout, savedLayout <- l_savedLayout,
    boot <- l_boot, timer <- l_timer, queued <- l_queued,
    writing <- l_writing, reloads <- l_reloads, acts <- l_acts,
    edited <- l_edited, applied <- l_applied, written <- l_written,
    touched <- l_touched, failed <- l_failed
LayoutVars == <<l_account, l_profile, l_layout, l_rendering, l_latestLayout,
    l_savedLayout, l_boot, l_timer, l_queued, l_writing, l_reloads, l_acts,
    l_edited, l_applied, l_written, l_touched, l_failed>>
Wall == INSTANCE MonitorWall WITH
    MaxActs <- WallActs, MaxSignals <- WallSignals, view <- w_view,
    seen <- w_seen, visible <- w_visible, active <- w_active, bag <- w_bag,
    signature <- w_signature, timers <- w_timers, cooling <- w_cooling,
    acts <- w_acts, choice <- w_choice,
    crossed <- w_crossed
WallVars == <<w_view, w_seen, w_visible, w_active, w_bag, w_signature, w_timers,
    w_cooling, w_acts, w_choice, w_crossed>>

media == <<showing, TileVars, ChannelVars, MixerVars, AudioVars, EventsVars, LayoutVars, WallVars>>

MediaInit ==
    /\ showing \in {"playback", "channel", "mixer", "tracks", "events", "layout", "wall"}
    /\ Tile!Init
    /\ Channel!Init
    /\ Mixer!Init
    /\ Audio!Init
    /\ Events!Init
    /\ Layout!Init
    /\ Wall!Init

\* Only the system of the behaviour moves.
MediaNext ==
    \/ /\ showing = "playback" /\ Tile!Next
       /\ UNCHANGED <<showing, ChannelVars, MixerVars, AudioVars, EventsVars, LayoutVars, WallVars>>
    \/ /\ showing = "channel" /\ Channel!Next
       /\ UNCHANGED <<showing, TileVars, MixerVars, AudioVars, EventsVars, LayoutVars, WallVars>>
    \/ /\ showing = "mixer" /\ Mixer!Next
       /\ UNCHANGED <<showing, TileVars, ChannelVars, AudioVars, EventsVars, LayoutVars, WallVars>>
    \/ /\ showing = "tracks" /\ Audio!Next
       /\ UNCHANGED <<showing, TileVars, ChannelVars, MixerVars, EventsVars, LayoutVars, WallVars>>
    \/ /\ showing = "events" /\ Events!Next
       /\ UNCHANGED <<showing, TileVars, ChannelVars, MixerVars, AudioVars, LayoutVars, WallVars>>
    \/ /\ showing = "layout" /\ Layout!Next
       /\ UNCHANGED <<showing, TileVars, ChannelVars, MixerVars, AudioVars, EventsVars, WallVars>>
    \/ /\ showing = "wall" /\ Wall!Next
       /\ UNCHANGED <<showing, TileVars, ChannelVars, MixerVars, AudioVars, EventsVars, LayoutVars>>

\* The fairness of each system, on steps of its own.
MediaFairly ==
    /\ \A i \in Attempts : WF_TileVars(showing = "playback" /\ Tile!Negotiate(i))
    /\ WF_TileVars(showing = "playback" /\ Tile!RetryFires)
    /\ WF_TileVars(showing = "playback" /\ Tile!HandshakeTimeout)
    /\ WF_TileVars(showing = "playback" /\ Tile!FirstFrameTimeout)
    /\ WF_TileVars(showing = "playback" /\ Tile!DisconnectedTimeout)
    /\ WF_TileVars(showing = "playback" /\ (Tile!IceChanges("connecting") \/ Tile!IceChanges("connected")))
    /\ WF_TileVars(showing = "playback" /\ Tile!markFrame)
    /\ WF_TileVars(showing = "playback" /\ Tile!GoesStale)
    /\ WF_TileVars(showing = "playback" /\ Tile!StallSeen)
    /\ WF_TileVars(showing = "playback" /\ Tile!Replay)
    /\ WF_ChannelVars(showing = "channel" /\ Channel!Gathered)
    /\ WF_ChannelVars(showing = "channel" /\ Channel!Created)
    /\ WF_ChannelVars(showing = "channel" /\ Channel!Answered)
    /\ WF_ChannelVars(showing = "channel" /\ Channel!Retry)
    /\ WF_ChannelVars(showing = "channel" /\ Channel!StallTick)
    /\ WF_ChannelVars(showing = "channel" /\ Channel!Sampled)
    /\ WF_ChannelVars(showing = "channel" /\ Channel!Connected)
    /\ WF_ChannelVars(showing = "channel" /\ Channel!SourceReturns)
    /\ WF_EventsVars(showing = "events" /\ Events!RetryFires)
    /\ WF_EventsVars(showing = "events" /\ Events!Deadline)
    /\ WF_EventsVars(showing = "events" /\ Events!TransportFails)
    /\ WF_EventsVars(showing = "events" /\ Events!Opened)
    /\ WF_EventsVars(showing = "events" /\ Events!Receive)
    /\ \A s \in Sockets : WF_EventsVars(showing = "events" /\ Events!Serve(s))
    /\ WF_MixerVars(showing = "mixer" /\ Mixer!Resumed)
    /\ WF_MixerVars(showing = "mixer" /\ Mixer!Suspended)
    /\ WF_MixerVars(showing = "mixer" /\ Mixer!TimerFires)
    /\ \A s \in DOMAIN TracksOf : WF_AudioVars(showing = "tracks" /\ Audio!Answered(s))
    /\ WF_AudioVars(showing = "tracks" /\ Audio!ProfileProbed)
    /\ WF_LayoutVars(showing = "layout" /\ Layout!Effect)
    /\ WF_LayoutVars(showing = "layout" /\ Layout!TimerFires)
    /\ WF_LayoutVars(showing = "layout" /\ Layout!TakeTurn)
    /\ WF_LayoutVars(showing = "layout" /\ Layout!saveWorkspaceLayout)
    /\ WF_LayoutVars(showing = "layout" /\ Layout!loadWorkspaceLayout)
    /\ WF_LayoutVars(showing = "layout" /\ Layout!Loaded)
    /\ WF_LayoutVars(showing = "layout" /\ Layout!ProfilesRead)
    /\ WF_LayoutVars(showing = "layout" /\ Layout!reloadProfiles)
    /\ WF_WallVars(showing = "wall" /\ Wall!Render)
    /\ WF_WallVars(showing = "wall" /\ Wall!rotate)
    /\ WF_WallVars(showing = "wall" /\ Wall!HoldEnds)
MediaSpec == MediaInit /\ [][MediaNext]_media /\ MediaFairly

\* However attempts, timeouts, wake-ups and closes overlap, a tile has one
\* peer, a page one socket and a track one channel; every session the
\* server made and told of is the one in use or was deleted; what waits is
\* waiting for something (whep.ts, sceneEvents.ts, audioTrackChannel.ts).
\* The mixer plays no track whose channel is closed and no source twice
\* (directAudioMixer.ts).
NothingLeftBehind ==
    /\ (showing = "playback") => Tile!PlaybackInv
    /\ (showing = "channel") => Channel!ChannelInv
    /\ (showing = "events") => Events!EventsInv
    /\ (showing = "tracks") => Audio!TracksInv

\* A tile says live only with a peer that showed a frame and is watched
\* (whep.ts); an online page shows the core's Program once everything is
\* delivered, but for the hub's own losses (sceneEvents.ts,
\* control_server.cpp); a settled mixer is running exactly if it is enabled
\* (directAudioMixer.ts); the layout on screen can be laid out and is the
\* one saved, and opening the page saves nothing (WorkspaceShell.tsx); a
\* promotion gives back the large tiles it took (DirectPreview.tsx).
ScreenIsTrue ==
    /\ [](/\ (showing = "playback") => Tile!LiveIsReal
          /\ (showing = "events") => Events!SettledIsCurrent
          /\ (showing = "mixer") => Mixer!TypeOK /\ Mixer!SaysWhatItIs
          /\ (showing = "layout") => Layout!TypeOK /\ Layout!Renderable /\ Layout!LastChangeSaved
          /\ (showing = "wall") => Wall!TypeOK /\ Wall!HoldGivesBack)
    /\ Layout!NoSaveOnLoad

\* Once the faults end, a tile plays again, a channel is heard, and a
\* visible page keeps its socket; every change of the layout comes to rest;
\* the rotation makes every visible source large again and again, whatever
\* was promoted.
RecoversInTheEnd ==
    /\ (showing = "playback") => Tile!Recovers
    /\ (showing = "channel") => Channel!Recovers
    /\ (showing = "events") => Events!Reconnects
    /\ (showing = "mixer") => Mixer!EndsAsWanted
    /\ (showing = "tracks") => Audio!ProbesEnd
    /\ (showing = "layout") => Layout!Settles
    /\ (showing = "wall") => Wall!EveryoneShown
=============================================================================
