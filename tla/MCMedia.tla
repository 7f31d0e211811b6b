------------------------------- MODULE MCMedia -------------------------------
(* A small instance for TLC of what a page plays and shows (MediaSystem):   *)
(* two scenes of a camera with two tracks and a plain stream with one.      *)
EXTENDS MediaSystem

CONSTANTS x, y, z

TwoScenes == [one |-> {"cam", "net"}, two |-> {"cam"}]
TheTracks == [cam |-> {1, 2}, net |-> {1}]
ThreeItems == <<x, y, z>>

\* What rests is in one of its initial states, and of the wall's only some
\* are begun with.
Chosen ==
    /\ showing # "events" => ~e_visible
    /\ showing # "layout" => l_account = Absent /\ l_profile = Absent
    /\ l_profile # Absent => l_account = Layout!Legacy
    /\ showing # "mixer" => m_kind = "wall" /\ m_allowed
    /\ showing # "tracks" => t_scene = "one"
    /\ w_view.lowPower = (w_view.pinned # <<>>) /\ (w_view.random => w_view.count = 1)
    /\ (w_view.pinned # <<>>) = (w_view.count = 2)
    /\ w_visible = IF w_view.random THEN {x, y} ELSE {x, y, z}
    /\ showing # "wall" => w_view.count = 1 /\ w_view.pinned = <<>> /\ ~w_view.random
ChosenInit == MediaInit /\ Chosen
AnySpec == ChosenInit /\ [][MediaNext]_media /\ MediaFairly
=============================================================================
