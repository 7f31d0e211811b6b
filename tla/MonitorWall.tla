----------------------------- MODULE MonitorWall -----------------------------
(***************************************************************************)
(* The large tiles of the monitor wall (web/src/monitorView.ts,            *)
(* DirectPreview.tsx): the operator chooses how many there are and which   *)
(* sources they show, a timer rotates the others through them, a detection *)
(* or a loud source is promoted for a while and then gives way again. The  *)
(* handlers see the view of the last render.                               *)
(***************************************************************************)
EXTENDS Integers, Sequences, FiniteSets, SequencesExt

CONSTANTS
    Items,          \* the scene's sources in the order of its items
    MaxActs,        \* bound: changes by the operator and of the scene
    MaxSignals      \* bound: promotions that are held or in cooldown at once

Source == ToSet(Items)

VARIABLES
    view,           \* the account's view: the state of the component
    seen,           \* as of the last render
    visible,        \* visible items of the scene
    active,         \* the page is visible and online
    bag,            \* the shuffled sources not drawn yet
    signature,      \* the candidates the bag was made of
    timers,         \* promotions held: who, and what is shown again after
    cooling,        \* signals in cooldown: of which kind, of which source
    acts,
    choice,         \* (history) the large tiles of the operator or the rotation
    crossed         \* (history) they changed, or another was promoted, in a hold
hist == <<choice, crossed>>
vars == <<view, seen, visible, active, bag, signature, timers, cooling, acts, hist>>

SourceIds == SelectSeq(Items, LAMBDA s : s \in visible)
Without(seq, set) == SelectSeq(seq, LAMBDA s : s \notin set)
Within(seq, set) == SelectSeq(seq, LAMBDA s : s \in set)
First(seq, n) == SubSeq(seq, 1, IF n < Len(seq) THEN n ELSE Len(seq))
Smaller(a, b) == IF a < b THEN a ELSE b

-----------------------------------------------------------------------------
(* The layout *)

(* The chosen sources that are visible, then others until there are enough. *)
LargeShown(v) ==
    LET chosen == First(Within(v.large, visible), v.count)
        others == Without(SourceIds, ToSet(chosen))
    IN  IF v.auto THEN chosen \o First(others, v.count - Len(chosen)) ELSE <<>>

normalize(v) == [v EXCEPT !.count = Smaller(@, Len(Items))]

-----------------------------------------------------------------------------

Init ==
    /\ \E n \in 1..2, p \in {<<>>, <<Items[1]>>}, random \in BOOLEAN, low \in BOOLEAN :
           view = [auto |-> TRUE, count |-> n, large |-> <<>>, pinned |-> p, rotate |-> TRUE, random |-> random, lowPower |-> low]
    /\ seen = view /\ visible \in SUBSET Source \ {{}} /\ active = TRUE
    /\ bag = <<>> /\ signature = {} /\ timers = {} /\ cooling = {}
    /\ acts = 0
    /\ choice = <<>> /\ crossed = FALSE

Render ==
    /\ seen # view /\ seen' = view
    /\ UNCHANGED <<view, visible, active, bag, signature, timers, cooling, acts, hist>>

(* The operator or the rotation changes the large tiles.                    *)
Chosen(large) ==
    /\ choice' = large
    /\ crossed' = (timers # {})

-----------------------------------------------------------------------------
(* Rotation *)

(* Mutant: the window starts at the last of the sources shown. *)
nextFromLast(sources, current, count, pins) ==
    LET pinned == First(Within(pins, ToSet(sources)), count)
        candidates == Without(sources, ToSet(pinned))
        n == Smaller(count - Len(pinned), Len(candidates))
        previous == Within(current, ToSet(candidates))
        start == IF previous = <<>> THEN 0 ELSE (CHOOSE i \in 1..Len(candidates) : candidates[i] = Last(previous)) - 1
    IN  pinned \o [i \in 1..n |-> candidates[1 + ((start + i - 1) % Len(candidates))]]
nextSequential(sources, current, count, pins) ==
    LET pinned == First(Within(pins, ToSet(sources)), count)
        candidates == Without(sources, ToSet(pinned))
        n == Smaller(count - Len(pinned), Len(candidates))
        previous == Within(current, ToSet(candidates))
        start == IF previous = <<>> THEN 0 ELSE CHOOSE i \in 1..Len(candidates) : candidates[i] = Last(previous)
    IN  pinned \o [i \in 1..n |-> candidates[1 + ((start + i - 1) % Len(candidates))]]

(* Drawn from the bag; when it is empty, it is filled with the candidates   *)
(* not drawn for this window, in any order.                                 *)
createShuffleBag(set) == {q \in [1..Cardinality(set) -> set] : ToSet(q) = set}
Draws(candidates, n, left) ==
    LET drawn == First(left, n)
        missing == n - Len(drawn)
    IN  IF missing = 0 THEN {[drawn |-> drawn, bag |-> SubSeq(left, n + 1, Len(left))]}
        ELSE {[drawn |-> drawn \o First(q, missing), bag |-> SubSeq(q, missing + 1, Len(q))] :
                  q \in createShuffleBag(candidates \ ToSet(drawn))}
nextRotationWindow(sources, v, left) ==
    LET pinned == First(Within(v.pinned, ToSet(sources)), v.count)
        candidates == ToSet(Without(sources, ToSet(pinned)))
        n == Smaller(v.count - Len(pinned), Cardinality(candidates))
    IN  IF ~v.random THEN {[selection |-> nextSequential(sources, v.large, v.count, v.pinned), bag |-> <<>>]}
        ELSE {[selection |-> pinned \o d.drawn, bag |-> d.bag] : d \in Draws(candidates, n, Within(left, candidates))}

rotate ==
    /\ seen = view /\ view.rotate /\ view.auto /\ view.count >= 1 /\ active
    /\ LET candidates == visible \ ToSet(seen.pinned)
           left == IF seen.random /\ signature # candidates THEN <<>> ELSE bag
       IN  /\ signature' = IF seen.random THEN candidates ELSE signature
           /\ \E next \in nextRotationWindow(SourceIds, seen, left) :
                  /\ bag' = next.bag
                  /\ view' = [view EXCEPT !.large = next.selection]
                  /\ Chosen(next.selection)
    /\ UNCHANGED <<seen, visible, active, timers, cooling, acts>>

-----------------------------------------------------------------------------
(* Promotion *)

(* Mutant: a source already large is put first again. *)
InFrontTwice(s, v) == First(<<s>> \o v.large, v.count)
InFront(s, v) == First(<<s>> \o Without(v.large, {s}), v.count)

(* What a camera or a browser saw, or the level of a source's sound. Weak:  *)
(* below the thresholds.                                                    *)
Signal == [source : Source, kind : {"picture", "audio"}, from : {"camera", "browser"}, weak : BOOLEAN]
Cooling(signal) == <<signal.kind, signal.source>>

(* In low power only what the camera itself reports counts.                 *)
evaluatePromotion(signal, v) ==
    /\ ~signal.weak
    /\ v.lowPower => signal.from = "camera"
    /\ Cooling(signal) \notin cooling
LoudEnough(signal, v) == ~signal.weak /\ ~v.lowPower /\ Cooling(signal) \notin cooling

(* The source is shown large; the hold remembers what is shown after it.    *)
(* Mutant: it remembers the promoted tiles.                                 *)
HoldLate(signal) ==
    /\ view' = [view EXCEPT !.large = InFront(signal.source, view)]
    /\ timers' = timers \cup {[signal |-> Cooling(signal), previous |-> InFront(signal.source, seen)]}
    /\ cooling' = cooling \cup {Cooling(signal)}
    /\ crossed' = (crossed \/ timers # {} \/ seen.large # view.large)
Hold(signal) ==
    /\ view' = [view EXCEPT !.large = InFront(signal.source, view)]
    /\ timers' = timers \cup {[signal |-> Cooling(signal), previous |-> seen.large]}
    /\ cooling' = cooling \cup {Cooling(signal)}
    /\ crossed' = (crossed \/ timers # {} \/ seen.large # view.large)

promote(signal) ==
    /\ signal.kind = "picture" /\ Cardinality(cooling) < MaxSignals
    /\ seen.count >= 1 /\ evaluatePromotion(signal, seen) /\ Hold(signal)
    /\ UNCHANGED <<seen, visible, active, bag, signature, acts, choice>>
promoteAudio(signal) ==
    /\ signal.kind = "audio" /\ Cardinality(cooling) < MaxSignals
    /\ seen.count >= 1 /\ LoudEnough(signal, seen) /\ Hold(signal)
    /\ UNCHANGED <<seen, visible, active, bag, signature, acts, choice>>

HoldEnds ==
    \E t \in timers :
        /\ timers' = timers \ {t} /\ view' = [view EXCEPT !.large = t.previous]
        /\ UNCHANGED <<seen, visible, active, bag, signature, cooling, acts, hist>>
CooldownEnds ==
    \E c \in cooling :
        /\ \A t \in timers : t.signal # c
        /\ cooling' = cooling \ {c}
        /\ UNCHANGED <<view, seen, visible, active, bag, signature, timers, acts, hist>>

-----------------------------------------------------------------------------
(* The operator and the scene *)

Act(v) ==
    /\ seen = view /\ acts < MaxActs /\ acts' = acts + 1
    /\ view' = v /\ seen' = v
    /\ UNCHANGED <<visible, active, bag, signature, timers, cooling>>
toggleLargeSource ==
    \E s \in visible :
        LET large == IF s \in ToSet(view.large) THEN Without(view.large, {s}) ELSE view.large \o <<s>>
            v == normalize([view EXCEPT !.large = large, !.count = IF Len(large) > @ /\ Len(large) > Len(view.large) THEN Len(large) ELSE @])
        IN  Act(v) /\ Chosen(large)
setLargeCount == \E n \in 0..Len(Items) : n # view.count /\ Act(normalize([view EXCEPT !.count = n])) /\ UNCHANGED hist
pinSource ==
    \E s \in visible :
        /\ Act([view EXCEPT !.pinned = IF s \in ToSet(@) THEN Without(@, {s}) ELSE @ \o <<s>>]) /\ UNCHANGED hist
setMode == Act([view EXCEPT !.auto = ~@]) /\ UNCHANGED hist
SceneChanges ==
    /\ acts < MaxActs /\ acts' = acts + 1
    /\ visible' \in SUBSET Source \ {{}, visible}
    /\ UNCHANGED <<view, seen, active, bag, signature, timers, cooling, hist>>
PageChanges ==
    /\ acts < MaxActs /\ acts' = acts + 1 /\ active' = ~active
    /\ UNCHANGED <<view, seen, visible, bag, signature, timers, cooling, hist>>
(* The wall is left: its timers go, the view stays with the account.        *)
Leave ==
    /\ acts < MaxActs /\ acts' = acts + 1
    /\ timers' = {} /\ cooling' = {} /\ bag' = <<>> /\ signature' = {}
    /\ crossed' = (crossed \/ timers # {})
    /\ UNCHANGED <<view, seen, visible, active, choice>>

Operator == toggleLargeSource \/ setLargeCount \/ pinSource \/ setMode \/ SceneChanges \/ PageChanges \/ Leave
Next == Render \/ rotate \/ (\E signal \in Signal : promote(signal) \/ promoteAudio(signal)) \/ HoldEnds \/ CooldownEnds \/ Operator
Spec == Init /\ [][Next]_vars
(* Renders and timers happen. The interval of the rotation starts anew with *)
(* every change of the view, so that it may never run out: what is promoted,*)
(* or given back, disables rotate until the next render, and weak fairness  *)
(* demands no rotation between changes that keep coming.                    *)
FairSpec == Spec /\ WF_vars(Render) /\ WF_vars(rotate) /\ WF_vars(HoldEnds)

-----------------------------------------------------------------------------
Sources == UNION {[1..n -> Source] : n \in 0..Len(Items)}
TypeOK ==
    /\ {view.large, view.pinned, bag, choice} \subseteq Sources
    /\ IsInjective(view.large) /\ IsInjective(bag)
    /\ view.count \in 0..Len(Items) /\ visible \subseteq Source
    /\ cooling \subseteq {"picture", "audio"} \X Source
    /\ \A t \in timers : t.signal \in cooling /\ t.previous \in Sources

(* A promotion gives back what it took: when no hold is left, the large     *)
(* tiles are those last chosen by the operator or the rotation, unless      *)
(* holds overlapped or the choice changed in one.                           *)
HoldGivesBack == timers = {} /\ ~crossed => view.large = choice

(* While the rotation runs, every visible source that is not pinned becomes *)
(* large again and again, whatever was promoted or chosen before; not while *)
(* promotions follow one another, each of which starts the interval anew.   *)
Rotating(s) ==
    /\ view.rotate /\ view.auto /\ active /\ s \in visible \ ToSet(view.pinned)
    /\ view.count > Cardinality(visible \cap ToSet(view.pinned))
EveryoneShown == \A s \in Source : (<>[](Rotating(s) /\ timers = {})) => []<>(s \in ToSet(LargeShown(view)))
=============================================================================
