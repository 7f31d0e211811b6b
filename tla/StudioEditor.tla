---------------------------- MODULE StudioEditor ----------------------------
(***************************************************************************)
(* The collection a browser edits in the Studio page (web/src/App.tsx and  *)
(* SceneCollection.tsx): the scenes, their sources and the layout items,   *)
(* with every operation the page offers on them.                           *)
(*                                                                         *)
(* The page keeps the open scene twice: inside studioDraft, which a save   *)
(* submits, and as draft, which the canvas and the property panel show.    *)
(* When studioDraft is submitted, and who answers, is module StudioPage.   *)
(***************************************************************************)
EXTENDS Integers, SequencesExt

CONSTANTS
    SceneIds,    \* identifiers of scenes, drawn afresh by a copy
    SourceIds,   \* identifiers of sources, drawn afresh by "add source"
    Registry,    \* the sources the registry's cameras stand for
    Documents,   \* collections the server or an exported file may hold
    MaxEdits,    \* bound on the number of editing steps
    None

VARIABLES
    deviceWorkspace,  \* the page edits the device layout, not the server's
    studioBaseline,   \* the collection as last saved or loaded
    studioDraft,      \* the collection being edited
    draft,            \* the open scene, as the canvas shows it
    selectedSceneId,
    selected,         \* selectedSourceIds
    drag,             \* pointerOperation: the sources whose items it moves
    picked,           \* (history) scenes the source picker has rebuilt
    edits

vars == <<deviceWorkspace, studioBaseline, studioDraft, draft, selectedSceneId,
          selected, drag, picked, edits>>

Pos == 0..1

Ids(doc) == {doc.scenes[i].id : i \in DOMAIN doc.scenes}
SceneOf(doc, id) == doc.scenes[CHOOSE i \in DOMAIN doc.scenes : doc.scenes[i].id = id]
SourcesOf(scene) == {scene.sources[i].id : i \in DOMAIN scene.sources}
Replaced(doc, scene) ==
    [doc EXCEPT !.scenes = [i \in DOMAIN @ |-> IF @[i].id = scene.id THEN scene ELSE @[i]]]
Referenced(doc, id) ==
    \E s \in Range(doc.scenes) : s.id # id /\ \E i \in DOMAIN s.sources : s.sources[i].target = id

(* Sorting by zIndex is stable; a renumbering gives 0, 1, 2, ... *)
Before(items, i, j) == items[i].z < items[j].z \/ (items[i].z = items[j].z /\ i < j)
BottomUp(items) ==
    [n \in DOMAIN items |->
        items[CHOOSE i \in DOMAIN items : Cardinality({j \in DOMAIN items : Before(items, j, i)}) = n - 1]]
(* Mutant: the numbering starts one too low. *)
RenumberedLow(items) == [n \in DOMAIN items |-> [items[n] EXCEPT !.z = n - 2]]
Renumbered(items) == [n \in DOMAIN items |-> [items[n] EXCEPT !.z = n - 1]]
(* Mutant: the items are sorted but keep their numbers. *)
SortedOnly(items) == BottomUp(items)
normalizeZIndexes(items) == Renumbered(BottomUp(items))

Edit == edits < MaxEdits /\ edits' = edits + 1
FirstOf(scene) == IF scene.sources = <<>> THEN {} ELSE {scene.sources[1].id}
Kept == UNCHANGED <<deviceWorkspace, studioBaseline>>

(* Every way the page opens a scene: draft and the selection follow it. *)
OpenScene(doc, id) ==
    /\ studioDraft' = doc
    /\ selectedSceneId' = id
    /\ draft' = SceneOf(doc, id)
    /\ selected' = FirstOf(SceneOf(doc, id))

(* A document from the server, a cache or a profile replaces everything. *)
applyRemoteStudio(doc) ==
    /\ studioBaseline' = doc
    /\ OpenScene(doc, IF doc.preview \in Ids(doc) THEN doc.preview ELSE doc.scenes[1].id)

Init ==
    /\ deviceWorkspace \in BOOLEAN
    /\ studioBaseline \in Documents
    /\ studioDraft = studioBaseline
    /\ selectedSceneId = studioBaseline.preview
    /\ draft = SceneOf(studioBaseline, studioBaseline.preview)
    /\ selected = FirstOf(draft)
    /\ drag = {}
    /\ picked = {}
    /\ edits = 0

-----------------------------------------------------------------------------
(* One scene: its sources and their layout *)

(* updateDraft: the open scene changes in both places. *)
updateDraft(next) ==
    /\ draft' = next
    /\ studioDraft' = Replaced(studioDraft, next)
    /\ UNCHANGED <<selectedSceneId, picked>> /\ Kept

updateSource(i, source) == updateDraft([draft EXCEPT !.sources[i] = source])
updateItem(i, item) == updateDraft([draft EXCEPT !.items[i] = item])

(* The property panel: a source's settings and filters (one stands for all),*)
(* or the scene that a nested one shows.                                    *)
UpdateSource ==
    /\ Edit
    /\ \E i \in DOMAIN draft.sources :
           LET source == draft.sources[i] IN
           /\ source.id \in selected
           /\ \/ updateSource(i, [source EXCEPT !.muted = ~@])
              \/ /\ source.target # None
                 /\ \E t \in Ids(studioDraft) \ {draft.id} :
                        updateSource(i, [source EXCEPT !.target = t])
           /\ UNCHANGED <<selected, drag>>

(* The property panel: an item's position and its lock. *)
UpdateItem ==
    /\ Edit
    /\ \E i \in DOMAIN draft.items :
           /\ draft.items[i].source \in selected
           /\ \/ \E p \in Pos : updateItem(i, [draft.items[i] EXCEPT !.pos = p])
              \/ updateItem(i, [draft.items[i] EXCEPT !.locked = ~@])
           /\ UNCHANGED <<selected, drag>>

(* What the form lets the user add: a fresh source, or a nested scene other *)
(* than the open one.                                                       *)
NewSources ==
    [id : SourceIds \ UNION {SourcesOf(s) : s \in Range(studioDraft.scenes)},
     target : {None} \cup (Ids(studioDraft) \ {draft.id}), muted : {TRUE}]

AddSource ==
    /\ Edit
    /\ \E source \in NewSources :
           updateDraft([draft EXCEPT
                !.sources = Append(@, source),
                !.items = Append(@, [source |-> source.id, z |-> Len(@), pos |-> Len(@) % 2, locked |-> FALSE])])
    /\ UNCHANGED <<selected, drag>>

RemoveSource ==
    /\ Edit
    /\ \E id \in SourcesOf(draft) \cap selected :
           /\ updateDraft([draft EXCEPT
                !.sources = SelectSeq(@, LAMBDA s : s.id # id),
                !.items = normalizeZIndexes(SelectSeq(@, LAMBDA it : it.source # id))])
           /\ selected' = FirstOf(draft')
           /\ UNCHANGED drag

(* moveLayer: the item changes places with the one above or below. *)
MoveLayer ==
    /\ Edit
    /\ \E i \in 1..(Len(draft.items) - 1) :
           LET o == BottomUp(draft.items) IN
           /\ updateDraft([draft EXCEPT !.items =
                  Renumbered([o EXCEPT ![i] = o[i + 1], ![i + 1] = o[i]])])
           /\ UNCHANGED <<selected, drag>>

(* dropLayer: the list shows the top item first. *)
DropLayer ==
    /\ Edit
    /\ \E from, to \in DOMAIN draft.items :
           LET topDown == Reverse(BottomUp(draft.items))
               moved   == InsertAt(RemoveAt(topDown, from), to, topDown[from])
           IN  /\ from # to
               /\ updateDraft([draft EXCEPT !.items = Renumbered(Reverse(moved))])
               /\ selected' = {topDown[from].source}
               /\ UNCHANGED drag

(* transformSelection: align or distribute the chosen items; locked ones stay. *)
TransformSelection ==
    /\ Edit
    /\ LET chosen == {i \in DOMAIN draft.items : draft.items[i].source \in selected}
       IN  /\ Cardinality(chosen) >= 2
           /\ \E p \in [chosen -> Pos] :
                  updateDraft([draft EXCEPT !.items =
                      [i \in DOMAIN @ |-> IF i \in chosen /\ ~@[i].locked
                                          THEN [@[i] EXCEPT !.pos = p[i]] ELSE @[i]]])
           /\ UNCHANGED <<selected, drag>>

SelectSource ==
    /\ Edit
    /\ \E id \in SourcesOf(draft) : selected' \in {{id}, selected \cup {id}, selected \ {id}}
    /\ UNCHANGED <<studioDraft, draft, selectedSceneId, drag, picked>> /\ Kept

(* A pointer goes down on an unlocked item: the items it will move are      *)
(* remembered as they are now; a locked one among the selected is left out. *)
BeginPointer ==
    /\ Edit
    /\ drag = {}
    /\ \E i \in DOMAIN draft.items :
           LET active == IF draft.items[i].source \in selected THEN selected ELSE {draft.items[i].source}
           IN  /\ ~draft.items[i].locked
               /\ drag' = {it.source : it \in {it \in Range(draft.items) : it.source \in active /\ ~it.locked}}
               /\ selected' = active
    /\ UNCHANGED <<studioDraft, draft, selectedSceneId, picked>> /\ Kept

(* It moves: positions are computed from the remembered items, then written *)
(* to the scene that is open now.                                           *)
MovePointer ==
    /\ Edit
    /\ drag # {}
    /\ \E p \in Pos : updateDraft([draft EXCEPT !.items =
           [i \in DOMAIN @ |-> IF @[i].source \in drag THEN [@[i] EXCEPT !.pos = p] ELSE @[i]]])
    /\ UNCHANGED <<selected, drag>>

StopPointer ==
    /\ drag # {} /\ drag' = {}
    /\ UNCHANGED <<studioDraft, draft, selectedSceneId, selected, picked, edits>> /\ Kept

-----------------------------------------------------------------------------
(* The collection: its scenes, Preview and Program *)

SelectScene ==
    /\ Edit
    /\ \E id \in Ids(studioDraft) : OpenScene([studioDraft EXCEPT !.preview = id], id)
    /\ UNCHANGED <<drag, picked>> /\ Kept

AppendScene(scene) ==
    OpenScene([studioDraft EXCEPT !.scenes = Append(@, scene), !.preview = scene.id], scene.id)

FreshScene == SceneIds \ (Ids(studioDraft) \cup Ids(studioBaseline))

DuplicateScene ==
    /\ Edit
    /\ \E id \in Ids(studioDraft), new \in FreshScene :
           /\ AppendScene([SceneOf(studioDraft, id) EXCEPT !.id = new])
           /\ picked' = IF id \in picked THEN picked \cup {new} ELSE picked
    /\ UNCHANGED drag /\ Kept

(* addTemplate: a copy of the open scene in a grid, or with one large item. *)
AddTemplate ==
    /\ Edit
    /\ \E new \in FreshScene, focus \in BOOLEAN :
           AppendScene([draft EXCEPT !.id = new,
               !.items = normalizeZIndexes([i \in DOMAIN @ |-> [@[i] EXCEPT
                   !.pos = IF focus THEN (IF i = 1 THEN 0 ELSE 1) ELSE (i - 1) % 2]])])
    /\ UNCHANGED <<drag, picked>> /\ Kept

MoveScene ==
    /\ Edit
    /\ \E i, j \in DOMAIN studioDraft.scenes :
           /\ i # j
           /\ studioDraft' = [studioDraft EXCEPT
                  !.scenes = InsertAt(RemoveAt(@, i), j, @[i])]
    /\ UNCHANGED <<draft, selectedSceneId, selected, drag, picked>> /\ Kept

(* A scene on air, the last one and one that another nests are not deleted; *)
(* in the device layout the Program mark moves on.                          *)
(* Mutant: a scene that another nests can be deleted. *)
DeletableNested(id) == Len(studioDraft.scenes) > 1 /\ (deviceWorkspace \/ studioDraft.program # id)
Deletable(id) ==
    /\ Len(studioDraft.scenes) > 1
    /\ deviceWorkspace \/ studioDraft.program # id
    /\ ~Referenced(studioDraft, id)

Without(id) ==
    LET scenes == SelectSeq(studioDraft.scenes, LAMBDA s : s.id # id)
        moved(x) == IF x = id THEN scenes[1].id ELSE x
    IN  [scenes |-> scenes, preview |-> moved(studioDraft.preview), program |-> moved(studioDraft.program)]

(* removeScene: the button deletes the open scene. *)
RemoveScene ==
    /\ Edit
    /\ Deletable(selectedSceneId)
    /\ LET doc == Without(selectedSceneId)
       IN  OpenScene([doc EXCEPT !.preview = doc.scenes[1].id], doc.scenes[1].id)
    /\ UNCHANGED <<drag, picked>> /\ Kept

(* The scene menu deletes any scene. *)
DeleteScene ==
    /\ Edit
    /\ \E id \in Ids(studioDraft) :
           /\ Deletable(id)
           /\ IF id = selectedSceneId
              THEN OpenScene(Without(id), Without(id).scenes[1].id)
              ELSE studioDraft' = Without(id) /\ UNCHANGED <<draft, selectedSceneId, selected>>
    /\ UNCHANGED <<drag, picked>> /\ Kept

(* updateCollectionScene: a menu operation rewrites a scene, open or not. *)
(* Mutant: the canvas keeps the old copy. *)
updateStudioOnly(scene) ==
    /\ studioDraft' = Replaced(studioDraft, scene)
    /\ UNCHANGED <<draft, selectedSceneId, selected>>
updateCollectionScene(scene) ==
    /\ studioDraft' = Replaced(studioDraft, scene)
    /\ draft' = IF scene.id = selectedSceneId THEN scene ELSE draft
    /\ UNCHANGED <<selectedSceneId, selected>>

(* arrangeSceneGrid: locked items keep their place. *)
(* Mutant: the grid moves every item. *)
arrangeEvery(scene) ==
    [scene EXCEPT !.items = [i \in DOMAIN @ |-> [@[i] EXCEPT !.pos = (i - 1) % 2]]]
arrangeSceneGrid(scene) ==
    LET columns == IF Len(scene.items) > 1 THEN 2 ELSE 1
    IN  [scene EXCEPT !.items = [i \in DOMAIN @ |->
            IF @[i].locked THEN @[i] ELSE [@[i] EXCEPT !.pos = (i - 1) % columns]]]

ArrangeScene ==
    /\ Edit
    /\ \E s \in Range(studioDraft.scenes) : updateCollectionScene(arrangeSceneGrid(s))
    /\ UNCHANGED <<drag, picked>> /\ Kept

LockScene ==
    /\ Edit
    /\ \E s \in Range(studioDraft.scenes), locked \in BOOLEAN :
           updateCollectionScene([s EXCEPT !.items = [i \in DOMAIN @ |-> [@[i] EXCEPT !.locked = locked]]])
    /\ UNCHANGED <<drag, picked>> /\ Kept

(* What the source picker lists: every source of every scene once, with the *)
(* settings of the last scene that has it, then the registry's cameras.     *)
Catalogue ==
    LET all   == FlattenSeq([i \in DOMAIN studioDraft.scenes |-> studioDraft.scenes[i].sources])
        first == SelectSeq([i \in DOMAIN all |-> i], LAMBDA i : \A j \in 1..(i - 1) : all[j].id # all[i].id)
        last(id) == all[CHOOSE i \in DOMAIN all : all[i].id = id /\ \A j \in (i + 1)..Len(all) : all[j].id # id]
        unused == SetToSeq(Registry \ {all[i].id : i \in DOMAIN all})
    IN  [n \in DOMAIN first |-> last(all[first[n]].id)]
        \o [n \in DOMAIN unused |-> [id |-> unused[n], target |-> None, muted |-> TRUE]]

(* The picker's submit: kept sources keep their items, new ones get one     *)
(* whose zIndex is their place in the list.                                 *)
Picked(scene, checked) ==
    LET sources == SelectSeq(Catalogue, LAMBDA s : s.id \in checked)
        old(id) == {i \in DOMAIN scene.items : scene.items[i].source = id}
    IN  [scene EXCEPT !.sources = sources,
         !.items = [n \in DOMAIN sources |->
             IF old(sources[n].id) # {}
             THEN scene.items[CHOOSE i \in old(sources[n].id) : TRUE]
             ELSE [source |-> sources[n].id, z |-> n - 1, pos |-> 0, locked |-> FALSE]]]

(* Only what the list shows can be checked anew: not a source nesting the   *)
(* edited scene.                                                            *)
Offered(scene) ==
    {c.id : c \in {c \in Range(Catalogue) : c.target # scene.id}} \cup SourcesOf(scene)

PickSources ==
    /\ Edit
    /\ \E s \in Range(studioDraft.scenes), checked \in SUBSET {c.id : c \in Range(Catalogue)} :
           /\ checked \subseteq Offered(s)
           /\ updateCollectionScene(Picked(s, checked))
           /\ picked' = picked \cup {s.id}
           /\ UNCHANGED drag /\ Kept

(* createCollectionScene: a new scene from picked sources, in a grid. *)
CreateScene ==
    /\ Edit
    /\ \E new \in FreshScene, checked \in SUBSET {c.id : c \in Range(Catalogue)} :
           AppendScene(arrangeSceneGrid(Picked([id |-> new, sources |-> <<>>, items |-> <<>>], checked)))
    /\ UNCHANGED <<drag, picked>> /\ Kept

-----------------------------------------------------------------------------
(* The whole collection *)

ImportStudio ==
    /\ Edit
    /\ \E doc \in Documents :
           OpenScene(doc, IF doc.preview \in Ids(doc) THEN doc.preview ELSE doc.scenes[1].id)
    /\ picked' = {}
    /\ UNCHANGED drag /\ Kept

Discard ==
    /\ studioDraft # studioBaseline
    /\ applyRemoteStudio(studioBaseline)
    /\ picked' = {}
    /\ UNCHANGED <<deviceWorkspace, drag, edits>>

EditScene == UpdateSource \/ UpdateItem \/ AddSource \/ RemoveSource \/ MoveLayer \/ DropLayer
             \/ TransformSelection \/ SelectSource \/ BeginPointer \/ MovePointer \/ StopPointer
EditCollection == SelectScene \/ DuplicateScene \/ AddTemplate \/ MoveScene \/ RemoveScene
                  \/ DeleteScene \/ ArrangeScene \/ LockScene \/ PickSources \/ CreateScene

Next == EditScene \/ EditCollection \/ ImportStudio \/ Discard

Spec == Init /\ [][Next]_vars

-----------------------------------------------------------------------------
Item == [source : SourceIds, z : Nat, pos : Pos, locked : BOOLEAN]
Source == [id : SourceIds, target : SceneIds \cup {None}, muted : BOOLEAN]
IsScene(s) ==
    /\ DOMAIN s = {"id", "sources", "items"} /\ s.id \in SceneIds
    /\ Range(s.sources) \subseteq Source /\ Range(s.items) \subseteq Item
IsStudio(doc) ==
    /\ DOMAIN doc = {"scenes", "preview", "program"}
    /\ doc.scenes # <<>> /\ \A s \in Range(doc.scenes) : IsScene(s)
    /\ {doc.preview, doc.program} \subseteq SceneIds

(* The page's documents, its open scene and its selection are well formed. *)
TypeOK ==
    /\ deviceWorkspace \in BOOLEAN
    /\ IsStudio(studioBaseline) /\ IsStudio(studioDraft) /\ IsScene(draft)
    /\ selectedSceneId \in SceneIds /\ selected \subseteq SourceIds
    /\ drag \subseteq SourceIds /\ picked \subseteq SceneIds /\ edits \in 0..MaxEdits

(* The two copies of the open scene agree after every operation: what the   *)
(* canvas shows (draft) is what a save submits (studioDraft).               *)
DraftMirrors ==
    /\ selectedSceneId \in Ids(studioDraft)
    /\ draft = SceneOf(studioDraft, selectedSceneId)

(* No sequence of editing steps leaves a reference in the air or a name     *)
(* taken twice (part of what validate_studio refuses): Preview, Program and *)
(* every nested source name a scene that is there, no scene or source       *)
(* occurs twice, and every layout item belongs to a source of its scene.    *)
References ==
    LET scenes == studioDraft.scenes IN
    /\ {studioDraft.preview, studioDraft.program} \subseteq Ids(studioDraft)
    /\ IsInjective([i \in DOMAIN scenes |-> scenes[i].id])
    /\ \A s \in Range(scenes) :
           /\ IsInjective([i \in DOMAIN s.sources |-> s.sources[i].id])
           /\ \A i \in DOMAIN s.sources : s.sources[i].target \in Ids(studioDraft) \cup {None}
           /\ \A it \in Range(s.items) : it.source \in SourcesOf(s)

Contiguous(items) == {items[i].z : i \in DOMAIN items} = 0..(Len(items) - 1)

(* Layers stay numbered 0, 1, 2, ... through any sequence of moves, drops,  *)
(* copies and removals, in every scene the source picker did not rebuild.   *)
LayersContiguous ==
    \A s \in Range(studioDraft.scenes) : s.id \notin picked => Contiguous(s.items)

(* visit_nested: no cycle, and nesting at most two levels deep. The page    *)
(* does not look: a source that is added, retargeted or picked may break it *)
(* and the save is refused. No other operation does.                        *)
NestingSound(doc) ==
    LET nests(s, t) == \E i \in DOMAIN s.sources : s.sources[i].target = t.id
        S == Range(doc.scenes)
    IN  ~\E p, q \in S : nests(p, q) /\ \E r \in S : nests(q, r) /\ \E s \in S : nests(r, s)
NestingSteps == AddSource \/ UpdateSource \/ PickSources \/ CreateScene
NestingKept ==
    [][studioDraft' # studioDraft /\ ~NestingSound(studioDraft') /\ NestingSound(studioDraft)
       => NestingSteps]_vars

(* A canvas operation never moves an item that was locked when it began: a  *)
(* drag of several selected items, an alignment, a grid.                    *)
CanvasStep == TransformSelection \/ MovePointer \/ ArrangeScene
LockedItemsStay ==
    [][(\E s \in Range(studioDraft.scenes) : \E i \in DOMAIN s.items :
            /\ s.items[i].locked /\ s.items[i].source \notin drag
            /\ s.id \in Ids(studioDraft')
            /\ i \in DOMAIN SceneOf(studioDraft', s.id).items
            /\ SceneOf(studioDraft', s.id).items[i].pos # s.items[i].pos)
       => ~CanvasStep]_vars
=============================================================================
