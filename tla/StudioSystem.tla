---------------------------- MODULE StudioSystem ----------------------------
(* The Studio on both sides: the server's document and program              *)
(* (StudioProgram), the editor of a draft in the browser (StudioEditor) and *)
(* the page that loads and saves it (StudioPage).  A behaviour is one of    *)
(* one of the three; the others rest.                                       *)
EXTENDS StudioProgram

CONSTANTS
    SceneIds, SourceIds, Registry, Documents,   \* of the collections edited
    MaxSteps,                                   \* bound: editing steps
    MaxEdits, MaxOthers, MaxLoads, MaxActions, MaxFailures,
    Conflict, None

VARIABLES
    part,   \* which of the systems this behaviour is of
    e_deviceWorkspace, e_studioBaseline, e_studioDraft, e_draft,
    e_selectedSceneId, e_selected, e_drag, e_picked, e_edits,
    p_log, p_past, p_future, p_paired, p_snapshot, p_layout, p_queued,
    p_deviceFlag, p_activeId, p_profile, p_studioBaseline, p_studioDraft,
    p_activeLocalProfile, p_deviceWorkspace, p_connection, p_conflict,
    p_request, p_loads, p_origin, p_overlapped, p_seen, p_spent

Editor == INSTANCE StudioEditor WITH
    MaxEdits <- MaxSteps, deviceWorkspace <- e_deviceWorkspace,
    studioBaseline <- e_studioBaseline, studioDraft <- e_studioDraft,
    draft <- e_draft, selectedSceneId <- e_selectedSceneId,
    selected <- e_selected, drag <- e_drag, picked <- e_picked,
    edits <- e_edits
EditorVars == <<e_deviceWorkspace, e_studioBaseline, e_studioDraft, e_draft,
    e_selectedSceneId, e_selected, e_drag, e_picked, e_edits>>
Page == INSTANCE StudioPage WITH
    log <- p_log, past <- p_past, future <- p_future,
    paired <- p_paired, snapshot <- p_snapshot, layout <- p_layout,
    queued <- p_queued, deviceFlag <- p_deviceFlag, activeId <- p_activeId,
    profile <- p_profile, studioBaseline <- p_studioBaseline,
    studioDraft <- p_studioDraft,
    activeLocalProfile <- p_activeLocalProfile,
    deviceWorkspace <- p_deviceWorkspace, connection <- p_connection,
    conflict <- p_conflict, request <- p_request, loads <- p_loads,
    origin <- p_origin, overlapped <- p_overlapped, seen <- p_seen,
    spent <- p_spent
PageVars == <<p_log, p_past, p_future, p_paired, p_snapshot, p_layout, p_queued,
    p_deviceFlag, p_activeId, p_profile, p_studioBaseline, p_studioDraft,
    p_activeLocalProfile, p_deviceWorkspace, p_connection, p_conflict,
    p_request, p_loads, p_origin, p_overlapped, p_seen, p_spent>>

\* What stands for "nothing" and for the answer 412 is told apart from
\* documents, requests and loads.
ASSUME PageAssumption ==
    /\ {MaxEdits, MaxOthers} \subseteq Nat
    /\ Conflict # None /\ {Conflict, None} \cap Page!Doc = {}
    /\ None \notin Page!Request /\ None \notin Page!Load
    /\ None \notin Page!Sources

all == <<part, vars, EditorVars, PageVars>>

AnyInit ==
    /\ part \in {"server", "editor", "page"}
    /\ Init
    /\ Editor!Init
    /\ Page!Init
    /\ part # "editor" => ~e_deviceWorkspace
    /\ part # "page" => ~p_paired

\* Only the system of the behaviour moves.
AnyNext ==
    \/ part = "server" /\ Next /\ UNCHANGED <<part, EditorVars, PageVars>>
    \/ part = "editor" /\ Editor!Next /\ UNCHANGED <<part, vars, PageVars>>
    \/ part = "page" /\ Page!Next /\ UNCHANGED <<part, vars, EditorVars>>

AnySpec == AnyInit /\ [][AnyNext]_all

\* No sequence of editing steps leads to a draft with a reference in the air
\* or to two copies of the open scene that differ; layers stay numbered 0, 1,
\* 2, ... in every scene the source picker did not rebuild; only an operation
\* that sets what a source shows can nest scenes in a circle or too deep; no
\* canvas operation moves a locked item (App.tsx, SceneCollection.tsx). That
\* the server accepts the draft is not promised: the picker's layers and the
\* nesting just named it refuses (studio_document.cpp:67-94).
DraftConsistent ==
    /\ [](part = "editor" => /\ Editor!TypeOK /\ Editor!DraftMirrors
                             /\ Editor!References /\ Editor!LayersContiguous)
    /\ Editor!NestingKept /\ Editor!LockedItemsStay

\* No commit of a page removes an edit of another operator that it has not
\* shown, no answer to a save takes away what was typed meanwhile (the answer
\* to a copy may: what is typed between its check, App.tsx:362, and its
\* installation of the committed document, 367), and only a document that
\* came from the server is saved to it (App.tsx, save and conflict handling;
\* docs/offline-workspace.md:19). A draft of the server's
\* Studio that the page calls saved is the server's content at the revision
\* the page shows, if each load ended before the next save or load began
\* (App.tsx, commitSavedStudio). All of them rest on PageInv.
NobodysEditIsLost ==
    /\ [](part = "page" => Page!PageInv /\ Page!CleanMeansSaved)
    /\ Page!NoUnseenLoss /\ Page!SaveKeepsTyping /\ Page!OnlyServerDocumentsSaved
=============================================================================
