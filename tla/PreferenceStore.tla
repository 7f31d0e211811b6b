--------------------------- MODULE PreferenceStore ---------------------------
(* What the account's preference document promises the browsers that share *)
(* it: a control changes only to a setting somebody chose for it, and only *)
(* through the browser where it was chosen. How the browsers get there     *)
(* (debounce, retries, caches, merges) is MonitorPreferences.              *)
CONSTANTS Browsers, Controls, Settings, Default

VARIABLES
    doc,    \* the account's document: a setting for each control
    chosen  \* history: which setting was chosen where

Init ==
    /\ doc = [c \in Controls |-> Default]
    /\ chosen = {}

\* A user chooses a setting nobody has chosen before.
Choose(b, c, s) ==
    /\ \A x \in chosen : x.setting # s
    /\ chosen' = chosen \cup {[browser |-> b, control |-> c, setting |-> s]}
    /\ UNCHANGED doc

\* A browser brings some of its own choices to the document.
Commit(b) ==
    /\ doc' \in [Controls -> Settings]
    /\ \A c \in Controls :
         doc'[c] # doc[c] => [browser |-> b, control |-> c, setting |-> doc'[c]] \in chosen
    /\ UNCHANGED chosen

Next ==
    \E b \in Browsers :
        \/ \E c \in Controls, s \in Settings : Choose(b, c, s)
        \/ Commit(b)

Spec == Init /\ [][Next]_<<doc, chosen>>
=============================================================================
