------------------------------ MODULE AudioMixer ------------------------------
(***************************************************************************)
(* Turning the browser's audio graph on and off                            *)
(* (web/src/directAudioMixer.ts, the audio effects of DirectPreview.tsx).  *)
(* enable() and disable() wait for the browser, which answers in order and *)
(* holds a resume back until the user has touched the page; a generation   *)
(* tells an enable() that waited whether it still speaks for the page.     *)
(***************************************************************************)
EXTENDS Integers, Sequences, FiniteSets, SequencesExt

CONSTANT MaxActs    \* bound: what the user, the account and the page do

VARIABLES
    kind,           \* "wall", or "projector": a second window; "left"
    view,           \* the account's preferences as this window has them
    loaded,         \* they have been read
    front,          \* the native shell has the page in front
    enabled, blocked,
    context,        \* the AudioContext
    ops,            \* what the browser was asked and who waits for the answer
    allowed,        \* the user has touched the page
    output,         \* the speakers are connected
    inputs,         \* some element or track is attached
    meter,          \* the 100 ms meter timer runs
    shown,          \* the state of the last snapshot
    acts
mixer == <<enabled, blocked, context, ops, output, meter, shown>>
page == <<kind, view, loaded, front>>
vars == <<page, mixer, allowed, inputs, acts>>

Init ==
    /\ kind \in {"wall", "projector"}
    /\ view = [monitor |-> FALSE, speaker |-> TRUE, meters |-> TRUE]
    /\ loaded = FALSE /\ front = TRUE
    /\ enabled = FALSE /\ blocked = FALSE /\ context = "none" /\ ops = <<>>
    /\ allowed \in BOOLEAN /\ output = TRUE /\ inputs = TRUE
    /\ meter = FALSE /\ shown = "disabled" /\ acts = 0

State(b, e, c) == IF b THEN "blocked" ELSE IF ~e THEN "disabled" ELSE IF c = "running" THEN "running" ELSE "suspended"

(* Another call makes those that wait outdated.                             *)
Outdated == [i \in DOMAIN ops |-> [ops[i] EXCEPT !.call = IF @ = "enable" THEN "old" ELSE @]]

(* The meter, and the switch of the speakers.                               *)
startMeter(some) == meter' = (meter \/ some)
stopMeter == meter' = FALSE
setOutputEnabled(on) == output' = on

-----------------------------------------------------------------------------
(* enable() and disable() up to their first await. The state is emitted on  *)
(* the way by enable (its configuration is applied), by disable only where  *)
(* there is nothing to wait for.                                            *)

(* Mutant: an earlier enable still speaks for the page.                     *)
enableBeside ==
    /\ enabled' = TRUE /\ blocked' = FALSE
    /\ context' = IF context = "none" THEN "suspended" ELSE context
    /\ ops' = Append(ops, [op |-> "resume", call |-> "enable"])
    /\ shown' = State(FALSE, TRUE, context')
    /\ UNCHANGED meter
enable ==
    /\ enabled' = TRUE /\ blocked' = FALSE
    /\ context' = IF context = "none" THEN "suspended" ELSE context
    /\ ops' = Append(Outdated, [op |-> "resume", call |-> "enable"])
    /\ shown' = State(FALSE, TRUE, context')
    /\ UNCHANGED meter
(* Mutant: an enable that still waits is not told.                          *)
disableKeepsGeneration ==
    /\ enabled' = FALSE /\ blocked' = FALSE
    /\ IF context = "none" THEN stopMeter /\ shown' = "disabled" /\ UNCHANGED ops
       ELSE ops' = Append(ops, [op |-> "suspend", call |-> "disable"]) /\ UNCHANGED <<meter, shown>>
    /\ UNCHANGED context
disable ==
    /\ enabled' = FALSE /\ blocked' = FALSE
    /\ IF context = "none" THEN stopMeter /\ shown' = "disabled" /\ UNCHANGED ops
       ELSE ops' = Append(Outdated, [op |-> "suspend", call |-> "disable"]) /\ UNCHANGED <<meter, shown>>
    /\ UNCHANGED context

-----------------------------------------------------------------------------
(* The browser's answers                                                    *)

CanResume == ops # <<>> /\ Head(ops).op = "resume" /\ allowed
Resumed ==
    /\ CanResume
    /\ context' = "running" /\ ops' = Tail(ops)
    /\ IF Head(ops).call = "enable"
       THEN startMeter(inputs) /\ shown' = State(blocked, enabled, "running")
       ELSE UNCHANGED <<meter, shown>>
    /\ UNCHANGED <<page, enabled, blocked, output, allowed, inputs, acts>>

(* A suspend overtakes the resumes that are held back; they stay unanswered *)
(* and only their timers are left.                                          *)
Held(i) == \A j \in 1..i : ops[j].op = "dead" \/ (ops[j].op = "resume" /\ ~allowed)
Suspended ==
    \E i \in DOMAIN ops :
        /\ ops[i].op = "suspend" /\ Held(i - 1)
        /\ context' = "suspended"
        /\ ops' = SelectSeq(RemoveAt([j \in DOMAIN ops |-> IF j < i THEN [ops[j] EXCEPT !.op = "dead"] ELSE ops[j]], i),
                            LAMBDA o : o.op = "dead" => o.call = "enable")
        /\ IF ops[i].call = "disable" THEN stopMeter /\ shown' = State(blocked, enabled, "suspended")
           ELSE UNCHANGED <<meter, shown>>
        /\ UNCHANGED <<page, enabled, blocked, output, allowed, inputs, acts>>

(* 1.5 s without an answer: a gesture is needed.                            *)
Waits(i) == ops[i].op \in {"resume", "dead"} /\ ops[i].call = "enable"
GaveUp(i) == SelectSeq([ops EXCEPT ![i].call = "none"], LAMBDA o : o.op # "dead" \/ o.call = "enable")
(* Mutant: the meter is left on.                                            *)
TimerFiresMetered ==
    \E i \in DOMAIN ops :
        /\ Waits(i) /\ blocked' = TRUE /\ enabled' = FALSE /\ shown' = "blocked"
        /\ ops' = Append(GaveUp(i), [op |-> "suspend", call |-> "none"])
        /\ UNCHANGED <<page, context, output, meter, allowed, inputs, acts>>
TimerFires ==
    \E i \in DOMAIN ops :
        /\ Waits(i) /\ blocked' = TRUE /\ enabled' = FALSE /\ shown' = "blocked" /\ stopMeter
        /\ ops' = Append(GaveUp(i), [op |-> "suspend", call |-> "none"])
        /\ UNCHANGED <<page, context, output, allowed, inputs, acts>>

-----------------------------------------------------------------------------
(* Elements and tracks come and go                                          *)

Acts == acts < MaxActs /\ acts' = acts + 1
Attach ==
    /\ Acts /\ ~inputs /\ inputs' = TRUE
    /\ (IF enabled THEN startMeter(TRUE) ELSE UNCHANGED meter) /\ shown' = State(blocked, enabled, context)
    /\ UNCHANGED <<page, enabled, blocked, context, ops, output, allowed>>
Detach ==
    /\ Acts /\ inputs /\ inputs' = FALSE
    /\ stopMeter /\ shown' = State(blocked, enabled, context)
    /\ UNCHANGED <<page, enabled, blocked, context, ops, output, allowed>>

-----------------------------------------------------------------------------
(* The page: what one render changed decides which of its effects run.      *)

(* A projector that draws the meters needs the graph, without its sound.    *)
NeedsMeters(v) == kind = "projector" /\ v.meters
Silences(v, l) == NeedsMeters(v) /\ l /\ ~(NeedsMeters(view) /\ loaded)
Follows(v, l, f) == kind = "wall" /\ <<v.monitor, l, f>> # <<view.monitor, loaded, front>>
Render(v, l, f) ==
    /\ view' = v /\ loaded' = l /\ front' = f
    /\ setOutputEnabled(IF Silences(v, l) THEN FALSE ELSE IF v.speaker # view.speaker THEN v.speaker ELSE output)
    /\ IF Silences(v, l) \/ (Follows(v, l, f) /\ l /\ v.monitor /\ f) THEN enable
       ELSE IF Follows(v, l, f) THEN disable
       ELSE UNCHANGED <<enabled, blocked, context, ops, meter, shown>>
    /\ UNCHANGED <<kind, inputs>>

Views == [monitor : BOOLEAN, speaker : BOOLEAN, meters : BOOLEAN]
Loads == Acts /\ ~loaded /\ kind # "left" /\ (\E v \in Views : Render(v, TRUE, front)) /\ UNCHANGED allowed
(* Another window changed the account's view.                               *)
Polled == Acts /\ loaded /\ (\E v \in Views \ {view} : Render(v, TRUE, front)) /\ UNCHANGED allowed
Foreground == Acts /\ kind # "left" /\ Render(view, loaded, ~front) /\ UNCHANGED allowed
(* The page is hidden or seen again: the effect runs with the same wishes.  *)
Visibility ==
    /\ Acts /\ kind = "wall"
    /\ IF loaded /\ view.monitor /\ front THEN enable ELSE disable
    /\ UNCHANGED <<page, output, allowed, inputs>>
(* The listening button: called from the gesture, before the render.        *)
toggleAudio ==
    /\ Acts /\ kind = "wall" /\ loaded /\ allowed' = TRUE
    /\ view' = [view EXCEPT !.monitor = shown # "running"]
    /\ IF shown # "running" THEN enable ELSE disable
    /\ UNCHANGED <<kind, loaded, front, output, inputs>>
setAudioOutput == Acts /\ loaded /\ kind = "wall" /\ allowed' = TRUE /\ Render([view EXCEPT !.speaker = ~@], TRUE, front)
(* Logging out turns the sound off; the page goes.                          *)
AccountClearing ==
    /\ Acts /\ kind = "wall" /\ disable
    /\ kind' = "left" /\ loaded' = FALSE
    /\ UNCHANGED <<view, front, output, allowed, inputs>>

Acting == Attach \/ Detach \/ Loads \/ Polled \/ Foreground \/ Visibility \/ toggleAudio \/ setAudioOutput \/ AccountClearing
Next == Resumed \/ Suspended \/ TimerFires \/ Acting
Spec == Init /\ [][Next]_vars
(* The browser answers and timers fire.                                     *)
FairSpec == Spec /\ WF_vars(Resumed) /\ WF_vars(Suspended) /\ WF_vars(TimerFires)

-----------------------------------------------------------------------------
TypeOK ==
    /\ view \in Views /\ context \in {"none", "running", "suspended"}
    /\ shown \in {"disabled", "running", "suspended", "blocked"}
    /\ \A i \in DOMAIN ops : ops[i] \in [op : {"resume", "suspend", "dead"}, call : {"enable", "old", "disable", "none"}]
    /\ Cardinality({i \in DOMAIN ops : ops[i].call = "enable"}) <= 1

(* When no answer is outstanding the mixer is what it says: it is running   *)
(* and measuring exactly while it is enabled, and silent otherwise.         *)
Settled == ops = <<>>
SaysWhatItIs ==
    Settled =>
        /\ shown = State(blocked, enabled, context)
        /\ enabled <=> context = "running"
        /\ meter <=> enabled /\ inputs

(* However the calls and the answers interleave, the wall ends as the       *)
(* account wants it.                                                        *)
Wanted == kind = "wall" /\ loaded /\ front /\ view.monitor
EndsAsWanted ==
    /\ <>[]Wanted => <>[](shown \in {"running", "blocked"} /\ Settled)
    /\ <>[](kind = "wall" /\ ~view.monitor) => <>[](shown = "disabled" /\ context # "running" /\ ~meter)
=============================================================================
