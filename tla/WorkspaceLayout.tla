-------------------------- MODULE WorkspaceLayout --------------------------
(***************************************************************************)
(* The layout of the workspace's docks (web/src/WorkspaceShell.tsx,        *)
(* localRuntime.ts): what is on screen, the copy the last effect saw, the  *)
(* copy believed saved, a debounce timer and a chain of writes, each of    *)
(* which saves whatever the layout is by the time its turn comes. Selecting*)
(* or saving an account profile replaces the layout on screen.             *)
(***************************************************************************)
EXTENDS Integers, FiniteSets

CONSTANTS
    None,
    MaxActs         \* bound: the user's changes, profiles selected or saved,
                    \* writes that fail

VARIABLES
    account,        \* the account's saved layout, a document or None
    profile,        \* the layout of the active profile, or None
    layout,         \* React's state
    rendering,      \* a change of it was not yet committed to the effect
    latestLayout, savedLayout,
    boot,           \* the load at the start
    timer, queued,  \* the debounce; the writes of the chain
    writing,        \* the layout the head of the chain is writing
    reloads,        \* answers of reloadProfiles under way
    acts,
    edited,         \* (history) the user's last change, unless replaced since
    applied,        \* (history) the layout last read from the account
    written,        \* (history) something was written since
    touched, failed \* (history) the user changed something; a write failed
screen == <<layout, rendering>>
hist == <<edited, applied, written, touched, failed>>
vars == <<account, profile, screen, latestLayout, savedLayout, boot, timer, queued, writing, reloads, acts, hist>>

Side == {"sources", "properties"}
Dock == Side \cup {"canvas"}
Place(region, order, collapsed) == [region |-> region, order |-> order, collapsed |-> collapsed]
defaultDocks == [canvas |-> Place("center", 0, FALSE), sources |-> Place("left", 1, FALSE), properties |-> Place("right", 2, FALSE)]
Default == [style |-> "obs", docks |-> defaultDocks]

(* Documents of earlier versions: the properties were hidden by default, a  *)
(* dock could be at the bottom, and orders could repeat.                    *)
Legacy == [Default EXCEPT !.docks.properties.collapsed = TRUE]
Older == [style |-> "classic", docks |-> [defaultDocks EXCEPT !.sources = Place("bottom", 2, FALSE), !.canvas.collapsed = TRUE]]

-----------------------------------------------------------------------------
(* The layout *)

(* A saved layout as it is shown: every dock once, in a place it may have,  *)
(* the canvas visible, orders counted from zero.                            *)
untouched(docks) == docks = Legacy.docks
placed(docks, d) ==
    LET p == docks[d] IN
    Place(IF d \in Side /\ p.region \notin {"left", "right"} THEN defaultDocks[d].region ELSE p.region,
          p.order,
          p.collapsed /\ d # "canvas" /\ ~(d = "properties" /\ untouched(docks)))
Before(docks, e, d) == docks[e].order < docks[d].order \/ (docks[e].order = docks[d].order /\ defaultDocks[e].order < defaultDocks[d].order)
Renumbered(docks) == [d \in Dock |-> [docks[d] EXCEPT !.order = Cardinality({e \in Dock : Before(docks, e, d)})]]
(* Mutant: orders counted from one. *)
validFromOne(value) == IF value = None THEN Default
    ELSE [value EXCEPT !.docks = [d \in Dock |-> [Renumbered(value.docks)[d] EXCEPT !.order = @ + 1, !.collapsed = FALSE]]]
(* Mutant: the saved orders are kept. *)
validOrders(value) == IF value = None THEN Default ELSE [value EXCEPT !.docks = [d \in Dock |-> placed(value.docks, d)]]
validLayout(value) ==
    IF value = None THEN Default
    ELSE [value EXCEPT !.docks = Renumbered([d \in Dock |-> placed(value.docks, d)])]

(* dragged takes target's place. *)
Moved(docks, dragged, target) ==
    LET from == docks[dragged].order  to == docks[target].order
        shift(o) == CASE o = from -> to
                      [] from < o /\ o <= to -> o - 1
                      [] to <= o /\ o < from -> o + 1
                      [] OTHER -> o
    IN  [d \in Dock |-> [docks[d] EXCEPT !.order = shift(@)]]

-----------------------------------------------------------------------------

Init ==
    /\ account \in {None, Legacy, Older} /\ profile \in {None, Older}
    /\ layout = Default /\ rendering = FALSE /\ latestLayout = Default /\ savedLayout = None
    /\ boot = [at |-> "reading"] /\ timer = FALSE /\ queued = 0 /\ writing = None
    /\ reloads = {None}
    /\ acts = 0
    /\ edited = None /\ applied = None /\ written = FALSE /\ touched = FALSE /\ failed = FALSE

Act == acts < MaxActs /\ acts' = acts + 1
setLayout(value) == layout' = value /\ rendering' = TRUE

(* The load at the start: read, then shown. *)
loadWorkspaceLayout ==
    /\ boot.at = "reading"
    /\ boot' = [at |-> "read", value |-> IF profile # None THEN profile ELSE account]
    /\ UNCHANGED <<account, profile, screen, latestLayout, savedLayout, timer, queued, writing, reloads, acts, hist>>
(* Mutant: what was loaded is not taken for saved. *)
LoadedUnsaved ==
    /\ boot.at = "read" /\ boot' = [at |-> "loaded"]
    /\ setLayout(validLayout(boot.value)) /\ edited' = None /\ applied' = validLayout(boot.value) /\ written' = FALSE
    /\ UNCHANGED <<account, profile, latestLayout, savedLayout, timer, queued, writing, reloads, acts, touched, failed>>
Loaded ==
    /\ boot.at = "read" /\ boot' = [at |-> "loaded"]
    /\ savedLayout' = validLayout(boot.value) /\ setLayout(validLayout(boot.value)) /\ edited' = None /\ applied' = validLayout(boot.value) /\ written' = FALSE
    /\ UNCHANGED <<account, profile, latestLayout, timer, queued, writing, reloads, acts, touched, failed>>

(* The effect of a change: the timer starts anew, unless nothing is to save.*)
(* Mutant: writes under way are overlooked. *)
EffectAlone ==
    /\ rendering /\ rendering' = FALSE /\ latestLayout' = layout
    /\ timer' = (boot.at = "loaded" /\ layout # savedLayout)
    /\ UNCHANGED <<account, profile, layout, savedLayout, boot, queued, writing, reloads, acts, hist>>
Effect ==
    /\ rendering /\ rendering' = FALSE /\ latestLayout' = layout
    /\ timer' = (boot.at = "loaded" /\ (layout # savedLayout \/ queued > 0))
    /\ UNCHANGED <<account, profile, layout, savedLayout, boot, queued, writing, reloads, acts, hist>>

TimerFires ==
    /\ timer /\ timer' = FALSE /\ queued' = queued + 1
    /\ UNCHANGED <<account, profile, screen, latestLayout, savedLayout, boot, writing, reloads, acts, hist>>

(* Mutant: only a write that was needed is counted off. *)
TakeTurnCounted ==
    /\ queued > 0 /\ writing = None
    /\ IF latestLayout = savedLayout THEN UNCHANGED writing ELSE writing' = latestLayout
    /\ UNCHANGED queued
    /\ UNCHANGED <<account, profile, screen, latestLayout, savedLayout, boot, timer, reloads, acts, hist>>
(* The head of the chain: the latest layout is written, if it is not saved. *)
TakeTurn ==
    /\ queued > 0 /\ writing = None
    /\ IF latestLayout = savedLayout
       THEN queued' = queued - 1 /\ UNCHANGED writing
       ELSE writing' = latestLayout /\ UNCHANGED queued
    /\ UNCHANGED <<account, profile, screen, latestLayout, savedLayout, boot, timer, reloads, acts, hist>>
saveWorkspaceLayout ==
    /\ writing # None
    /\ account' = writing /\ savedLayout' = writing /\ writing' = None /\ queued' = queued - 1
    /\ written' = TRUE
    /\ UNCHANGED <<profile, screen, latestLayout, boot, timer, reloads, acts, edited, applied, touched, failed>>
(* The account's answer is not looked at; the browser's own store may throw.*)
SaveFails ==
    /\ writing # None /\ Act /\ failed' = TRUE
    /\ savedLayout' \in {savedLayout, writing} /\ writing' = None /\ queued' = queued - 1
    /\ UNCHANGED <<account, profile, screen, latestLayout, boot, timer, reloads, edited, applied, written, touched>>

-----------------------------------------------------------------------------
(* The user *)

Edit(value) ==
    /\ Act /\ setLayout(value) /\ edited' = value /\ touched' = TRUE
    /\ UNCHANGED <<account, profile, latestLayout, savedLayout, boot, timer, queued, writing, reloads, applied, written, failed>>
reorderDock == \E d \in Side, t \in Side : d # t /\ Edit([layout EXCEPT !.docks = Moved(@, d, t)])
updateDock == \E d \in Side :
    \/ Edit([layout EXCEPT !.docks[d].collapsed = ~@])
    \/ \E r \in {"left", "right"} : Edit([layout EXCEPT !.docks[d].region = r])
setStyle == \E s \in {"obs", "classic"} : Edit([layout EXCEPT !.style = s])
restoreDefault == Edit(Default)

(* Another profile is selected, or the active one saved with the account's  *)
(* layout: the profiles are read again.                                     *)
ProfileEvent ==
    /\ Act /\ profile' \in {None, Older, account}
    /\ reloads' = reloads \cup {None}
    /\ UNCHANGED <<account, screen, latestLayout, savedLayout, boot, timer, queued, writing, hist>>
ProfilesRead ==
    /\ None \in reloads
    /\ reloads' = (reloads \ {None}) \cup (IF profile = None THEN {} ELSE {profile})
    /\ UNCHANGED <<account, profile, screen, latestLayout, savedLayout, boot, timer, queued, writing, acts, hist>>
reloadProfiles ==
    \E p \in reloads \ {None} :
        /\ reloads' = reloads \ {p}
        /\ savedLayout' = validLayout(p) /\ setLayout(validLayout(p)) /\ edited' = None /\ applied' = validLayout(p) /\ written' = FALSE
        /\ UNCHANGED <<account, profile, latestLayout, boot, timer, queued, writing, acts, touched, failed>>

Runs == loadWorkspaceLayout \/ Loaded \/ Effect \/ TimerFires \/ TakeTurn \/ saveWorkspaceLayout \/ ProfilesRead \/ reloadProfiles
Next == Runs \/ SaveFails \/ reorderDock \/ updateDock \/ setStyle \/ restoreDefault \/ ProfileEvent
Spec == Init /\ [][Next]_vars
(* Renders, timers and answers happen; the user need not act.               *)
FairSpec == Spec /\ WF_vars(Effect) /\ WF_vars(TimerFires) /\ WF_vars(TakeTurn) /\ WF_vars(saveWorkspaceLayout)
                 /\ WF_vars(loadWorkspaceLayout) /\ WF_vars(Loaded) /\ WF_vars(ProfilesRead) /\ WF_vars(reloadProfiles)

-----------------------------------------------------------------------------
Regions == {"left", "right", "bottom", "center"}
Layouts == [style : {"obs", "classic"}, docks : [Dock -> [region : Regions, order : 0..2, collapsed : BOOLEAN]]]

TypeOK ==
    /\ account \in Layouts \cup {None} /\ {layout, latestLayout} \subseteq Layouts
    /\ savedLayout \in Layouts \cup {None} /\ writing \in Layouts \cup {None}
    /\ queued \in 0..(MaxActs + 2) /\ timer \in BOOLEAN /\ rendering \in BOOLEAN
    /\ (writing # None => queued > 0)

(* What is on screen can be laid out: every dock has a place of its own,    *)
(* the canvas is visible and the others stand beside it.                    *)
Renderable ==
    /\ \A d, e \in Dock : d # e => layout.docks[d].order # layout.docks[e].order
    /\ ~layout.docks["canvas"].collapsed
    /\ \A d \in Side : layout.docks[d].region \in {"left", "right"}

Quiet == boot.at = "loaded" /\ ~rendering /\ ~timer /\ queued = 0
(* When nothing is under way, the account holds the user's last change,     *)
(* also when it was made, or taken back, while an earlier one was written.  *)
(* Only a change taken back before anything was written is not in it: then  *)
(* the layout is what it was when it was read.                              *)
LastChangeSaved == Quiet /\ edited # None /\ ~failed =>
    edited = account \/ (edited = applied /\ ~written)
(* Opening the page writes nothing.                                         *)
NoSaveOnLoad == [][account' # account => touched]_vars
(* Every change comes to rest.                                              *)
Settles == <>[]Quiet
=============================================================================
