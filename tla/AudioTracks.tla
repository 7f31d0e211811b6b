----------------------------- MODULE AudioTracks -----------------------------
(***************************************************************************)
(* The audio workspace (web/src/AudioWorkspace.tsx): it probes the tracks  *)
(* of the sources of the scene it shows (sourceAudio.ts), opens a channel  *)
(* of its own for every selected track and binds its stream to the mixer   *)
(* (directAudioMixer.ts), to which the tiles of the preview bind the sound *)
(* of the video. A source with bound tracks is not heard from its video.   *)
(* One change of the page's state is one step with the effects it causes,  *)
(* those of the preview's tiles first.                                     *)
(***************************************************************************)
EXTENDS Integers, FiniteSetsExt

CONSTANTS
    Scenes,         \* scene |-> its sources
    Tracks,         \* source |-> the tracks it really has
    Streams,        \* sources that are plain streams: no camera
    MaxActs,        \* bound: the operator's actions
    MaxFaults       \* bound: probes that fail, channels that drop
Source == DOMAIN Tracks
Nothing == "none"

VARIABLES
    scene, front,   \* the scene shown; the native shell has the page in front
    probed,         \* what the page knows of each source
    request,        \* the probe under way for each source
    waiting,        \* probes the shown scene, or its button, waits for
    reprobing,      \* cameras whose profile is probed first, and whether for this scene
    cached,         \* results kept for 15 s
    selection,      \* the chosen tracks of each source, once known
    channels,       \* open channels <<source, track>>
    live,           \* those whose stream is there
    attached,       \* the mixer's video elements, and whether they have a stream
    bound,          \* the mixer's tracks
    gain,           \* sources the mixer plays from their video
    acts, faults
probes == <<probed, request, waiting, reprobing, cached>>
mixer == <<attached, bound, gain>>
vars == <<scene, front, probes, selection, channels, live, mixer, acts, faults>>

(* What is known of a source's tracks, Nothing while it is not in a scene,  *)
(* and which of them the operator chose.                                    *)
SourceAudioTracks == {Nothing, "loading", "available", "unavailable", "no audio"}
TrackSelection(s) == [known : BOOLEAN, on : SUBSET Tracks[s]]

Active == IF front THEN Scenes[scene] ELSE {}
Of(pairs, s) == {p \in pairs : p[1] = s}
PairsOf(s, tracks) == {s} \X tracks

-----------------------------------------------------------------------------
(* The mixer                                                                *)

(* Sources heard from their video once the configuration is applied.        *)
applyConfiguration(a, b) == {s \in Source : a[s] = "stream" /\ Of(b, s) = {}}
Configured(a, b) == attached' = a /\ bound' = b /\ gain' = applyConfiguration(a, b)

(* Taking an element away releases the tracks of its source too.            *)
detach(sources) == {p \in bound : p[1] \notin sources}
(* A closed channel is unbound; a selection releases what it left out.      *)
unbindTrack(b, wanted) == b \cap wanted
configureTracks(b, active, sel) == {p \in b : p[1] \in active => p[2] \in sel[p[1]].on}

-----------------------------------------------------------------------------
(* The effects of a change                                                  *)

Wanted(active, p, sel) ==
    UNION {PairsOf(s, sel[s].on) : s \in {x \in active : p[x] = "available"}}

(* Channels that are no longer wanted are closed and unbound, missing ones  *)
(* opened; those that stay are not touched.                                 *)
(* Mutant: a closed channel stays bound.                                    *)
SyncKeepsBound(active, p, sel, b, a) ==
    LET wanted == Wanted(active, p, sel)
    IN  /\ channels' = wanted /\ live' = live \cap wanted
        /\ Configured(a, b)
(* Mutant: a closed channel still counts as live.                           *)
SyncKeepsLive(active, p, sel, b, a) ==
    LET wanted == Wanted(active, p, sel)
    IN  /\ channels' = wanted /\ live' = live
        /\ Configured(a, configureTracks(unbindTrack(b, wanted), active, sel))
Sync(active, p, sel, b, a) ==
    LET wanted == Wanted(active, p, sel)
    IN  /\ channels' = wanted /\ live' = live \cap wanted
        /\ Configured(a, configureTracks(unbindTrack(b, wanted), active, sel))

(* A source not probed yet counts as loading; a request that is under way   *)
(* is shared, whoever started it.                                           *)
Probing(s, r) == IF r[s] = Nothing THEN "running" ELSE r[s]
Loading(s) == IF probed[s] = Nothing THEN "loading" ELSE probed[s]

(* A probe of this source became known: the first track is the default,     *)
(* after the button even where the operator had chosen none.                *)
defaultSelectedTracks(s) == {Min(Tracks[s])}
Known(s, value, button) ==
    [selection EXCEPT ![s] = IF value = "available" /\ (~@.known \/ (button /\ @.on = {}))
                             THEN [known |-> TRUE, on |-> defaultSelectedTracks(s)] ELSE @]

-----------------------------------------------------------------------------

Init ==
    /\ scene \in DOMAIN Scenes /\ front = TRUE
    /\ probed = [s \in Source |-> IF s \in Scenes[scene] THEN "loading" ELSE Nothing]
    /\ request = [s \in Source |-> IF s \in Scenes[scene] THEN "running" ELSE Nothing]
    /\ waiting = Scenes[scene] \X {"page"} /\ reprobing = {}
    /\ cached = [s \in Source |-> Nothing]
    /\ selection = [s \in Source |-> [known |-> FALSE, on |-> {}]]
    /\ channels = {} /\ live = {} /\ bound = {} /\ gain = {}
    /\ attached = [s \in Source |-> IF s \in Scenes[scene] THEN "element" ELSE Nothing]
    /\ acts = 0 /\ faults = 0

Acts == acts < MaxActs /\ acts' = acts + 1
Faults(n) == faults + n <= MaxFaults /\ faults' = faults + n

(* Another scene: the old probes are aborted, the tiles of the old scene go *)
(* and those of the new one come, then the new scene is probed.             *)
SetScene(sc) ==
    /\ Acts /\ sc # scene /\ scene' = sc
    /\ LET aborted == [s \in Source |-> IF request[s] = "running" THEN "aborted" ELSE request[s]]
           hits == {s \in Scenes[sc] : cached[s] # Nothing}
           now == [s \in Source |-> IF s \in hits THEN cached[s] ELSE IF s \in Scenes[sc] THEN Loading(s) ELSE probed[s]]
           sel == [s \in Source |-> IF s \in hits THEN Known(s, cached[s], FALSE)[s] ELSE selection[s]]
           tiles == [s \in Source |-> IF s \in Scenes[sc] THEN "element" ELSE Nothing]
       IN  /\ request' = [s \in Source |-> IF s \in Scenes[sc] \ hits THEN Probing(s, aborted) ELSE aborted[s]]
           /\ waiting' = (Scenes[sc] \ hits) \X {"page"}
           /\ reprobing' = {<<r[1], FALSE>> : r \in reprobing}
           /\ probed' = now /\ selection' = sel
           /\ Sync(IF front THEN Scenes[sc] ELSE {}, now, sel, detach(Source), tiles)
    /\ UNCHANGED <<front, cached, faults>>

(* The answer of a probe reaches everyone who waits for it. An aborted one  *)
(* is not kept.                                                             *)
Outcomes(s) ==
    IF request[s] = "aborted" THEN {"unavailable"}
    ELSE {IF Tracks[s] = {} THEN "no audio" ELSE "available", "unavailable"}
(* Mutant: nobody is left waiting, nobody is told.                          *)
AnsweredAborted(s) ==
    /\ request[s] # Nothing
    /\ request' = [request EXCEPT ![s] = Nothing] /\ waiting' = waiting \ Of(waiting, s)
    /\ \E value \in Outcomes(s) :
           LET heard == Of(waiting, s) # {} /\ request[s] # "aborted"
               now == IF heard THEN [probed EXCEPT ![s] = value] ELSE probed
               sel == IF heard THEN Known(s, value, <<s, "button">> \in waiting) ELSE selection
               bad == request[s] # "aborted" /\ value = "unavailable"
           IN  /\ Faults(IF bad THEN 1 ELSE 0)
               /\ cached' = IF request[s] = "aborted" THEN cached ELSE [cached EXCEPT ![s] = value]
               /\ probed' = now /\ selection' = sel
               /\ Sync(Active, now, sel, bound, attached)
    /\ UNCHANGED <<scene, front, reprobing, acts>>
Answered(s) ==
    /\ request[s] # Nothing
    /\ request' = [request EXCEPT ![s] = Nothing] /\ waiting' = waiting \ Of(waiting, s)
    /\ \E value \in Outcomes(s) :
           LET now == IF Of(waiting, s) # {} THEN [probed EXCEPT ![s] = value] ELSE probed
               sel == IF Of(waiting, s) # {} THEN Known(s, value, <<s, "button">> \in waiting) ELSE selection
               bad == request[s] # "aborted" /\ value = "unavailable"
           IN  /\ Faults(IF bad THEN 1 ELSE 0)
               /\ cached' = IF request[s] = "aborted" THEN cached ELSE [cached EXCEPT ![s] = value]
               /\ probed' = now /\ selection' = sel
               /\ Sync(Active, now, sel, bound, attached)
    /\ UNCHANGED <<scene, front, reprobing, acts>>
CacheExpires ==
    /\ \E s \in Source : cached[s] # Nothing /\ Acts /\ cached' = [cached EXCEPT ![s] = Nothing]
    /\ UNCHANGED <<scene, front, probed, request, waiting, reprobing, selection, channels, live, mixer, faults>>

(* The button at a source that could not be probed.                         *)
reprobe ==
    \E s \in Scenes[scene] :
        /\ Acts /\ probed[s] = "unavailable"
        /\ LET now == [probed EXCEPT ![s] = "loading"]
           IN  probed' = now /\ Sync(Active, now, selection, bound, attached)
        /\ cached' = [cached EXCEPT ![s] = Nothing]
        /\ IF s \in Streams
           THEN /\ request' = [request EXCEPT ![s] = Probing(s, request)]
                /\ waiting' = waiting \cup {<<s, "button">>} /\ UNCHANGED reprobing
           ELSE reprobing' = reprobing \cup {<<s, TRUE>>} /\ UNCHANGED <<request, waiting>>
        /\ UNCHANGED <<scene, front, selection, faults>>
ProfileProbed ==
    \E r \in reprobing :
        /\ reprobing' = reprobing \ {r}
        /\ \/ /\ request' = [request EXCEPT ![r[1]] = Probing(r[1], request)]
              /\ waiting' = IF r[2] THEN waiting \cup {<<r[1], "button">>} ELSE waiting
              /\ UNCHANGED <<probed, channels, live, mixer, faults>>
           \/ /\ Faults(1)
              /\ LET now == IF r[2] THEN [probed EXCEPT ![r[1]] = "unavailable"] ELSE probed
                 IN  probed' = now /\ Sync(Active, now, selection, bound, attached)
              /\ UNCHANGED <<request, waiting>>
        /\ UNCHANGED <<scene, front, cached, selection, acts>>

Select(sel) ==
    /\ Acts /\ selection' = sel /\ Sync(Active, probed, sel, bound, attached)
    /\ UNCHANGED <<scene, front, probes, faults>>
updateSelection ==
    \E s \in Scenes[scene], t \in UNION {Tracks[x] : x \in Source} :
        /\ probed[s] = "available" /\ t \in Tracks[s]
        /\ Select([selection EXCEPT ![s].on = IF t \in @ THEN @ \ {t} ELSE @ \cup {t}])

Foreground ==
    /\ Acts /\ front' = ~front
    /\ Sync(IF front THEN {} ELSE Scenes[scene], probed, selection, bound, attached)
    /\ UNCHANGED <<scene, probes, selection, faults>>

(* The save changes the revision: the playback capabilities are read again  *)
(* and the tiles of plain streams attach anew.                              *)
commit ==
    LET again == Scenes[scene] \cap Streams
    IN  /\ Acts /\ again # {}
        /\ Configured([s \in Source |-> IF s \in again THEN "element" ELSE attached[s]], detach(again))
        /\ UNCHANGED <<scene, front, probes, selection, channels, live, faults>>

(* The video's stream and a channel's: each is bound when it arrives.       *)
bindStream ==
    \E s \in Source :
        /\ attached[s] = "element" /\ Configured([attached EXCEPT ![s] = "stream"], bound)
        /\ UNCHANGED <<scene, front, probes, selection, channels, live, acts, faults>>
(* Mutant: the video of the source is not turned down.                      *)
bindTrackOnly ==
    \E c \in channels \ live :
        /\ live' = live \cup {c} /\ bound' = bound \cup {c}
        /\ UNCHANGED <<scene, front, probes, selection, channels, attached, gain, acts, faults>>
bindTrack ==
    \E c \in channels \ live :
        /\ live' = live \cup {c} /\ Configured(attached, bound \cup {c})
        /\ UNCHANGED <<scene, front, probes, selection, channels, acts, faults>>
ChannelDrops ==
    \E c \in live :
        /\ Faults(1) /\ live' = live \ {c}
        /\ UNCHANGED <<scene, front, probes, selection, channels, mixer, acts>>

Operator == (\E sc \in DOMAIN Scenes : SetScene(sc)) \/ CacheExpires \/ reprobe \/ updateSelection \/ Foreground \/ commit
Next == Operator \/ (\E s \in Source : Answered(s)) \/ ProfileProbed \/ bindStream \/ bindTrack \/ ChannelDrops
Spec == Init /\ [][Next]_vars
(* Probes are answered, aborted ones too.                                   *)
FairSpec == Spec /\ (\A s \in Source : WF_vars(Answered(s))) /\ WF_vars(ProfileProbed)

-----------------------------------------------------------------------------
Pairs == UNION {PairsOf(s, Tracks[s]) : s \in Source}
TypeOK ==
    /\ probed \in [Source -> SourceAudioTracks]
    /\ DOMAIN selection = Source /\ \A s \in Source : selection[s] \in TrackSelection(s)
    /\ request \in [Source -> {Nothing, "running", "aborted"}]
    /\ live \subseteq channels /\ channels \subseteq Pairs
    /\ \A w \in waiting : request[w[1]] # Nothing

(* A source is never heard twice: from its video and from its tracks.       *)
NeverTwice == \A s \in gain : Of(bound, s) = {}

(* The mixer plays no track whose channel is closed.                        *)
NoStrayTrack == bound \subseteq channels

(* What is kept and awaited is of the sources, a source without tracks is   *)
(* never known as available, and the sound of the videos is what the last   *)
(* configuration made of it.                                                *)
Kept ==
    /\ scene \in DOMAIN Scenes /\ front \in BOOLEAN
    /\ cached \in [Source -> SourceAudioTracks]
    /\ \A s \in Source : "available" \in {probed[s], cached[s]} => Tracks[s] # {}
    /\ waiting \subseteq Source \X {"page", "button"} /\ reprobing \subseteq Source \X BOOLEAN
    /\ gain \subseteq applyConfiguration(attached, bound)
TracksInv == TypeOK /\ NeverTwice /\ NoStrayTrack /\ Kept

(* No source of the scene is left loading.                                  *)
ProbesEnd == \A s \in Source : []<>(s \in Scenes[scene] => probed[s] # "loading")
=============================================================================
