--------------------------- MODULE SourceControls ---------------------------
(* The monitor preferences as the tree they are: a default for the         *)
(* statistics overlay that the tiles inherit, and, from its first          *)
(* adjustment on, a record of its own for each source (web/src/monitorView *)
(* .ts, the controls of web/src/DirectPreview.tsx). Two windows of an      *)
(* account adjust sources, and their saves are merged leaf by leaf against *)
(* the baseline each started from. A source's first record is a copy of    *)
(* what it inherited; the hook puts the same copy into the baseline, so    *)
(* that only the adjusted control counts as edited.                        *)
(*                                                                         *)
(* MonitorPreferences has the same saves over a flat document, with the    *)
(* requests, failures and pages this module leaves out.                    *)
EXTENDS Naturals, Sequences, Functions

CONSTANTS
    Windows,
    Sources,
    SceneOf,        \* the sources on the wall of a window
    MaxEdits,       \* bound: adjustments made by all users
    MaxSaves        \* bound: saves of a window under way

\* Two leaves stand for a decoration's: one that is inherited from the
\* document's default, and one with a default of its own.
Decoration == [stat : BOOLEAN, meter : BOOLEAN]
Audio == [muted : BOOLEAN, monitor : BOOLEAN]
Controls == {"stat", "meter", "muted", "monitor"}

Records(S) == UNION {[D -> S] : D \in SUBSET Sources}
MonitorView == [stat : BOOLEAN, decor : Records(Decoration), audio : Records(Audio)]

VARIABLES
    doc,        \* the account's stored document
    window,     \* each window's refs: view, baseline, lastQueued, and its saves
    edits,      \* bound: adjustments so far
    chosen,     \* history: the values users gave a source's control
    defaults,   \* history: the values users gave the default of all sources
    late        \* history: sources with a record that its window's baseline missed:
                \* adjusted while a save was out whose baseline or answer had none

vars == <<doc, window, edits, chosen, defaults, late>>
history == <<chosen, defaults, late>>

NoRecords == [s \in {} |-> {}]
defaultMonitorView == [stat |-> FALSE, decor |-> NoRecords, audio |-> NoRecords]

Init ==
    /\ doc = defaultMonitorView
    /\ window = [w \in Windows |->
          [view |-> doc, baseline |-> doc, lastQueued |-> doc, saves |-> <<>>]]
    /\ edits = 0
    /\ chosen = {}
    /\ defaults = {}
    /\ late = {}

---------------------------------------------------------------------------
(* Reading and changing a document.                                        *)

defaultSourceDecoration(view) == [stat |-> view.stat, meter |-> FALSE]

\* The effective controls of a source.
sourceDecoration(view, s) ==
    IF s \in DOMAIN view.decor THEN view.decor[s] ELSE defaultSourceDecoration(view)
\* The Scene's own volume and mute, and monitoring on.
sourceAudio(view, s) ==
    IF s \in DOMAIN view.audio THEN view.audio[s] ELSE [muted |-> FALSE, monitor |-> TRUE]

Effective(view, s, k) ==
    IF k \in {"stat", "meter"} THEN sourceDecoration(view, s)[k] ELSE sourceAudio(view, s)[k]

WithRecord(records, s, r) == [t \in DOMAIN records \cup {s} |-> IF t = s THEN r ELSE records[t]]

\* Stored records stay whichever Scene is on the wall, unless the caller
\* names the sources to keep.
normalizeMonitorView(view, ids) ==
    [view EXCEPT !.decor = [s \in DOMAIN view.decor \cap ids |-> view.decor[s]]]

updateDefaultTelemetry(view, v) ==
    [view EXCEPT !.stat = v, !.decor = [s \in DOMAIN view.decor |-> [view.decor[s] EXCEPT !.stat = v]]]

updateSourceDecoration(view, s, k, v) ==
    [view EXCEPT !.decor = WithRecord(@, s, [sourceDecoration(view, s) EXCEPT ![k] = v])]
updateAudioSource(view, s, k, v) ==
    [view EXCEPT !.audio = WithRecord(@, s, [sourceAudio(view, s) EXCEPT ![k] = v])]

SeedNothing(base, s, k) == base
\* The second argument of setView: the inherited record, before the edit.
SeedBaseline(base, s, k) ==
    IF k \in DOMAIN defaultSourceDecoration(base)
    THEN [base EXCEPT !.decor = WithRecord(@, s, sourceDecoration(base, s))]
    ELSE [base EXCEPT !.audio = WithRecord(@, s, sourceAudio(base, s))]

---------------------------------------------------------------------------
(* The merge, on the server and for what was edited during a save.         *)

MergeRecord(current, base, edited) ==
    [k \in DOMAIN edited |-> IF edited[k] = base[k] THEN current[k] ELSE edited[k]]

MergeRecords(current, base, edited) ==
    LET new == DOMAIN edited \ DOMAIN base
        changed == {s \in DOMAIN edited \cap DOMAIN base : edited[s] # base[s]}
        removed == DOMAIN base \ DOMAIN edited
    IN [s \in (DOMAIN current \ removed) \cup new \cup changed |->
          IF s \in new THEN edited[s]
          ELSE IF s \in changed
          THEN MergeRecord(IF s \in DOMAIN current THEN current[s] ELSE base[s], base[s], edited[s])
          ELSE current[s]]

merge(current, base, edited) ==
    [stat |-> IF edited.stat = base.stat THEN current.stat ELSE edited.stat,
     decor |-> MergeRecords(current.decor, base.decor, edited.decor),
     audio |-> MergeRecords(current.audio, base.audio, edited.audio)]

---------------------------------------------------------------------------
(* The users.                                                              *)

\* setView: the baseline is seeded first, then the view changes.
Edited(w, base, view) ==
    /\ edits < MaxEdits
    /\ edits' = edits + 1
    /\ window' = [window EXCEPT ![w].baseline = base, ![w].view = view]
    /\ UNCHANGED doc

ChangeDefault(w) ==
    LET v == ~window[w].view.stat
    IN /\ Edited(w, window[w].baseline, updateDefaultTelemetry(window[w].view, v))
       /\ defaults' = defaults \cup {v}
       /\ UNCHANGED <<chosen, late>>

RecordsOf(view, k) == IF k \in {"stat", "meter"} THEN view.decor ELSE view.audio
HasRecord(view, s, k) == s \in DOMAIN RecordsOf(view, k)

\* A control of one source is toggled on the wall or in the mixer bar.
Adjust(w, s, k, view) ==
    /\ s \in SceneOf[w]
    /\ LET x == window[w]
       IN /\ Edited(w, SeedBaseline(x.baseline, s, k), view)
          /\ chosen' = chosen \cup {<<s, k, ~Effective(x.view, s, k)>>}
          /\ late' = IF x.saves # <<>> /\ ~HasRecord(x.baseline, s, k) THEN late \cup {s} ELSE late
          /\ UNCHANGED defaults

ChangeDecoration(w, s, k) ==
    LET view == window[w].view
    IN Adjust(w, s, k, normalizeMonitorView(
                           updateSourceDecoration(view, s, k, ~Effective(view, s, k)), Sources))
ChangeAudio(w, s, k) ==
    LET view == window[w].view
    IN Adjust(w, s, k, updateAudioSource(view, s, k, ~Effective(view, s, k)))

---------------------------------------------------------------------------
(* The hook.                                                               *)

\* The debounce ends: the view is queued with the baseline as it is now.
Persist(w) ==
    LET x == window[w]
    IN /\ x.view # x.lastQueued
       /\ Len(x.saves) < MaxSaves
       /\ window' = [window EXCEPT ![w].lastQueued = x.view,
             ![w].saves = Append(@, [view |-> x.view, base |-> x.baseline, done |-> FALSE, saved |-> doc])]
       /\ UNCHANGED <<doc, edits, history>>

CommitUnordered(w) ==
    \E i \in 1..Len(window[w].saves) :
        LET s == window[w].saves[i]
        IN /\ ~s.done
           /\ doc' = merge(doc, s.base, s.view)
           /\ window' = [window EXCEPT ![w].saves[i].done = TRUE, ![w].saves[i].saved = doc']
           /\ UNCHANGED <<edits, history>>
\* account_preference: saveMonitorView keeps a page's writes in order.
Commit(w) ==
    LET saves == window[w].saves
    IN /\ saves # <<>> /\ ~Head(saves).done
       /\ doc' = merge(doc, Head(saves).base, Head(saves).view)
       /\ window' = [window EXCEPT ![w].saves[1].done = TRUE, ![w].saves[1].saved = doc']
       /\ UNCHANGED <<edits, history>>

\* Only the answer of the newest save counts; its document is the next
\* baseline, and what was edited meanwhile goes on top of it.
Answer(w) ==
    LET x == window[w]
        s == Head(x.saves)
        view == merge(s.saved, s.view, x.view)
    IN /\ x.saves # <<>> /\ s.done
       /\ \/ /\ Len(x.saves) > 1
             /\ window' = [window EXCEPT ![w].saves = Tail(@)]
             /\ UNCHANGED late
          \/ /\ Len(x.saves) = 1
             /\ window' = [window EXCEPT ![w] =
                   [view |-> view, baseline |-> s.saved, lastQueued |-> s.saved, saves |-> <<>>]]
             /\ late' = late \cup (DOMAIN view.decor \ DOMAIN s.saved.decor)
                            \cup (DOMAIN view.audio \ DOMAIN s.saved.audio)
       /\ UNCHANGED <<doc, edits, chosen, defaults>>

\* refresh: a page without unsaved edits takes the account's document.
Refresh(w) ==
    LET x == window[w]
    IN /\ x.saves = <<>> /\ x.view = x.lastQueued /\ x.view # doc
       /\ window' = [window EXCEPT ![w] = [@ EXCEPT !.view = doc, !.baseline = doc, !.lastQueued = doc]]
       /\ UNCHANGED <<doc, edits, history>>

Adjustment(w) ==
    \E s \in Sources :
        \/ \E k \in {"stat", "meter"} : ChangeDecoration(w, s, k)
        \/ \E k \in {"muted", "monitor"} : ChangeAudio(w, s, k)
Next == \E w \in Windows :
    ChangeDefault(w) \/ Adjustment(w) \/ Persist(w) \/ Commit(w) \/ Answer(w) \/ Refresh(w)

Spec == Init /\ [][Next]_vars

---------------------------------------------------------------------------
(* Properties.                                                             *)

Save == [view : MonitorView, base : MonitorView, done : BOOLEAN, saved : MonitorView]
Window == [view : MonitorView, baseline : MonitorView, lastQueued : MonitorView, saves : Seq(Save)]
\* Documents keep their shape; of a window's saves only the oldest may have
\* been executed.
TypeOK ==
    /\ doc \in MonitorView
    /\ \A w \in Windows :
          /\ window[w] \in Window
          /\ Len(window[w].saves) \in 0..MaxSaves
          /\ \A i \in 1..Len(window[w].saves) : window[w].saves[i].done => i = 1
    /\ DOMAIN window = Windows
    /\ edits \in 0..MaxEdits
    /\ chosen \subseteq Sources \X Controls \X BOOLEAN
    /\ defaults \subseteq BOOLEAN
    /\ late \subseteq Sources

(* What the invariant needs is stated for a history h.                      *)
told == [chosen |-> chosen, defaults |-> defaults, late |-> late]

\* A value other than the usual one has been given to the control, or to the
\* default it inherits; a record of the source holds such a value.
Usual == [stat |-> FALSE, meter |-> FALSE, muted |-> FALSE, monitor |-> TRUE]
Given(h, s, k) == <<s, k, ~Usual[k]>> \in h.chosen \/ (k = "stat" /\ TRUE \in h.defaults)
IsSet(view, s, k) == HasRecord(view, s, k) /\ RecordsOf(view, k)[s][k] # Usual[k]

\* Documents hold what somebody has given.
Sound(h, view) ==
    /\ view.stat => TRUE \in h.defaults
    /\ \A s \in Sources, k \in Controls : IsSet(view, s, k) => Given(h, s, k)
WindowSound(h, x) ==
    /\ Sound(h, x.view) /\ Sound(h, x.baseline) /\ Sound(h, x.lastQueued)
    /\ \A i \in 1..Len(x.saves) :
          Sound(h, x.saves[i].view) /\ Sound(h, x.saves[i].base) /\ Sound(h, x.saves[i].saved)

\* A control nobody has put back changes one way. A document that follows
\* another holds its records, no others but late ones, and what it had set.
OneWay(h, s, k) ==
    /\ s \notin h.late
    /\ <<s, k, Usual[k]>> \notin h.chosen
    /\ k = "stat" => FALSE \notin h.defaults
Keeps(h, old, new) ==
    \A s \in Sources, k \in Controls : OneWay(h, s, k) =>
        /\ IsSet(old, s, k) => IsSet(new, s, k)
        /\ k = "stat" /\ old.stat => new.stat
Follows(h, old, new) ==
    /\ Keeps(h, old, new)
    /\ \A k \in Controls :
          /\ DOMAIN RecordsOf(old, k) \subseteq DOMAIN RecordsOf(new, k)
          /\ \A s \in Sources \ h.late : HasRecord(new, s, k) => HasRecord(old, s, k)

\* What a window would save, saves, and has saved; an unsaved control differs
\* from what was queued.
SavedSets(h, s) ==
    \A t \in Sources, k \in Controls :
        OneWay(h, t, k) /\ IsSet(s.view, t, k) /\ ~IsSet(s.base, t, k) => IsSet(s.saved, t, k)
WindowFollows(h, d, x) ==
    /\ Follows(h, x.baseline, x.view)
    /\ \A i \in 1..Len(x.saves) :
          /\ Follows(h, x.saves[i].base, x.saves[i].view)
          /\ x.saves[i].done => Keeps(h, x.saves[i].saved, d) /\ SavedSets(h, x.saves[i])
    /\ x.saves = <<>> => Keeps(h, x.lastQueued, x.baseline)
    /\ x.saves # <<>> => /\ Follows(h, x.saves[Len(x.saves)].view, x.view)
                         /\ Keeps(h, x.saves[Len(x.saves)].base, x.baseline)

\* Such a control is set in the account, or a window has it still to save.
Unsaved(s, k) == \E w \in Windows : IsSet(window[w].view, s, k) /\ ~IsSet(window[w].baseline, s, k)
NothingLost ==
    \A s \in Sources, k \in Controls :
        OneWay(told, s, k) /\ <<s, k, ~Usual[k]>> \in chosen => IsSet(doc, s, k) \/ Unsaved(s, k)

ControlsInv ==
    /\ TypeOK /\ NothingLost /\ Sound(told, doc)
    /\ \A w \in Windows : WindowSound(told, window[w]) /\ WindowFollows(told, doc, window[w])

Quiet == \A w \in Windows : window[w].saves = <<>> /\ window[w].view = window[w].lastQueued
FallsBack(s, k) ==
    /\ \E v \in BOOLEAN : <<s, k, v>> \in chosen
    /\ <<s, k, Effective(doc, s, k)>> \notin chosen
    /\ ~(k = "stat" /\ Effective(doc, s, k) \in defaults)

\* Once nothing is unsaved, a control that somebody adjusted has a value that
\* somebody gave it, or all sources: another window's first adjustment of the same source, or
\* an adjustment on the wall of another Scene, does not put it back
\* (DirectPreview.tsx:694, 716, the seeded baselines).
NoControlFallsBack ==
    Quiet => \A s \in Sources \ late, k \in Controls : ~FallsBack(s, k)
=============================================================================
