---------------------------- MODULE StudioProgram ----------------------------
(***************************************************************************)
(* Studio and Program of the core process: the Studio document with its    *)
(* undo history (core/src/studio_controller.cpp, studio_document.cpp), the *)
(* Program scene on air (scene_controller.cpp, scene_mutation.cpp) and     *)
(* their two files (studio_store.cpp, scene_store.cpp).                    *)
(*                                                                         *)
(* Four request workers call both controllers.  SceneController holds its  *)
(* mutex over one replacement, so a replacement is one step.               *)
(* StudioController holds its own mutex over a whole operation, but takes  *)
(* the scene mutex anew for each call on Program: a scene put directly by  *)
(* another worker falls between the steps of a Studio operation.           *)
(*                                                                         *)
(* Abstractions: flattening a scene yields its content; a request with a   *)
(* stale If-Match, or a document that does not parse or validate, changes  *)
(* nothing and is not a step; secrets are part of the content.  Files are  *)
(* replaced by a rename, so neither is ever half-written and the backup of *)
(* the Studio file is never read.  The process crashes, the machine does   *)
(* not: a rename that happened survives.  A crash between a rename and the *)
(* change in memory leaves what an "unsynced" save and a crash leave.      *)
(***************************************************************************)
EXTENDS Naturals, Sequences

CONSTANTS
    Scenes,       \* scene ids of the Studio collection
    Definitions,  \* what a scene shows, its audio settings apart
    Audio,        \* audio settings of a scene's source
    CAPACITY,     \* states StudioHistory keeps
    MAX_REVISION, \* largest revision: 2^63 - 1
    MaxCrashes    \* bound on restarts

ASSUME StudioAssumption ==
    /\ CAPACITY \in Nat \ {0}
    /\ MAX_REVISION \in Nat /\ MaxCrashes \in Nat

VARIABLES
    program,    \* SceneController.document_, what is on air
    sceneFile,  \* scene.json
    document,   \* StudioController.document_
    studioFile, \* studio.json
    history,    \* StudioController.history_
    op,         \* the Studio operation that holds the Studio mutex
    crashes     \* bound: restarts so far

onAir == <<program, sceneFile>>
studio == <<document, studioFile, history>>
vars == <<program, sceneFile, document, studioFile, history, op, crashes>>

-----------------------------------------------------------------------------
Content == [definition : Definitions, audio : Audio]
Scene == [revision : Nat, content : Content]
Studio == [revision : Nat, scenes : [Scenes -> Content],
           previewScene : Scenes, programScene : Scenes]
History == [undo : Seq(Studio), redo : Seq(Studio)]
Empty == [undo |-> <<>>, redo |-> <<>>]

\* A Studio operation between two of its calls: the Program it has seen, the
\* revision its replacement got (0: none), what it wants Program and document
\* to become, and its next call.
Kinds == {"take", "undo", "redo", "audio"}
Operation == [kind : Kinds, before : Scene, applied : Nat, content : Content,
              next : Studio, history : History, step : {"apply", "save", "rollback"}]
NoOp == [step |-> "none"]
Idle == op = NoOp

\* A collection whose scenes were created and never edited, its program scene
\* on air: the state after a first start and the scenes added since.
Init ==
    /\ program \in [revision : {1}, content : Content]
    /\ sceneFile = program
    /\ document \in [revision : {1}, scenes : [Scenes -> {program.content}],
                     previewScene : Scenes, programScene : Scenes]
    /\ document.previewScene = document.programScene
    /\ studioFile = document
    /\ history = Empty
    /\ op = NoOp
    /\ crashes = 0

-----------------------------------------------------------------------------
(* SceneController.                                                        *)

\* plan_scene_replacement's two guards on the revision.
Replaceable(expected) == /\ expected = program.revision
                         /\ program.revision < MAX_REVISION

\* Mutant: the revision of a scene is the one its document came with.
SuccessorAsSent(content) ==
    [revision |-> IF Idle THEN program.revision + 1 ELSE op.before.revision + 1,
     content |-> content]

Successor(content) == [revision |-> program.revision + 1, content |-> content]

\* SceneController::replace.  "rejected": the plan or the runtime refused;
\* "unsaved": the save failed before its rename; "unsynced": the directory
\* could not be synchronized after it, so the caller sees a failure although
\* the file holds the new scene.
Outcomes == {"rejected", "unsaved", "unsynced", "committed"}
Replace(expected, content, outcome) ==
    /\ outcome # "rejected" => Replaceable(expected)
    /\ program' = IF outcome = "committed" THEN Successor(content) ELSE program
    /\ sceneFile' = IF outcome \in {"committed", "unsynced"}
                    THEN Successor(content) ELSE sceneFile

\* PUT /api/v1/scene of a client that knows the current revision.
PutScene(content, outcome) ==
    /\ Replace(program.revision, content, outcome)
    /\ UNCHANGED <<studio, op, crashes>>

-----------------------------------------------------------------------------
(* StudioHistory.                                                          *)

Newest(states) == states[Len(states)]
Older(states) == SubSeq(states, 1, Len(states) - 1)

\* Mutant: a new change keeps the states that were undone.
PushedKeepingRedo(h, state) ==
    [undo |-> LET all == Append(h.undo, state)
              IN  IF Len(all) > CAPACITY THEN Tail(all) ELSE all,
     redo |-> h.redo]

Pushed(h, state) ==
    IF h.undo # <<>> /\ Newest(h.undo) = state
    THEN h
    ELSE [undo |-> LET all == Append(h.undo, state)
                   IN  IF Len(all) > CAPACITY THEN Tail(all) ELSE all,
          redo |-> <<>>]

\* Mutant: undo keeps the scene on air instead of the collection.
UndoneOfProgram(h, current) ==
    [undo |-> Older(h.undo),
     redo |-> Append(h.redo, IF current = document THEN program ELSE current)]

\* Undo and redo move one state from one stack to the other.
Undone(h, current) == [undo |-> Older(h.undo), redo |-> Append(h.redo, current)]
Redone(h, current) == [undo |-> Append(h.undo, current), redo |-> Older(h.redo)]

-----------------------------------------------------------------------------
(* StudioController: an operation reads, applies to Program, saves the     *)
(* Studio file and changes its document, or rolls Program back.            *)

Advanceable == document.revision < MAX_REVISION

\* flatten_studio_scene of the collection's program scene.
OnAir(collection) == collection.scenes[collection.programScene]

\* Mutant: the collection as it was before the operation is flattened.
FlattenedBefore(collection) ==
    IF collection = document THEN OnAir(collection) ELSE OnAir(document)
Flattened(collection) == OnAir(collection)

Begin(kind, next, past, step) ==
    op' = [kind |-> kind, before |-> program, applied |-> 0,
           content |-> Flattened(next),
           next |-> next, history |-> past, step |-> step]

\* take: the Preview scene goes on air.
BeginTake ==
    /\ Idle /\ Advanceable
    /\ Begin("take",
             [document EXCEPT !.revision = @ + 1, !.programScene = document.previewScene],
             Pushed(history, document), "apply")
    /\ UNCHANGED <<onAir, studio, crashes>>

\* restore_history: works on a copy of the history.
BeginUndo ==
    /\ Idle /\ Advanceable /\ history.undo # <<>>
    /\ Begin("undo", [Newest(history.undo) EXCEPT !.revision = document.revision + 1],
             Undone(history, document), "apply")
    /\ UNCHANGED <<onAir, studio, crashes>>

BeginRedo ==
    /\ Idle /\ Advanceable /\ history.redo # <<>>
    /\ Begin("redo", [Newest(history.redo) EXCEPT !.revision = document.revision + 1],
             Redone(history, document), "apply")
    /\ UNCHANGED <<onAir, studio, crashes>>

\* update_audio: Program is replaced only for the scene on air.
BeginAudio(scene, audio) ==
    /\ Idle /\ Advanceable
    /\ Begin("audio",
             [document EXCEPT !.revision = @ + 1, !.scenes[scene].audio = audio],
             Pushed(history, document),
             IF scene = document.programScene THEN "apply" ELSE "save")
    /\ UNCHANGED <<onAir, studio, crashes>>

Apply(outcome) ==
    /\ op.step = "apply"
    /\ Replace(op.before.revision, op.content, outcome)
    /\ op' = IF outcome = "committed"
             THEN [op EXCEPT !.step = "save", !.applied = program.revision + 1]
             ELSE NoOp
    /\ UNCHANGED <<studio, crashes>>

\* save_studio_file_atomic: "unsaved" covers the backup and everything before
\* the rename.
SaveOutcomes == {"unsaved", "unsynced", "saved"}

\* Mutant: the new history is kept although the operation failed.
KeptHistoryEarly(outcome) == IF outcome = "unsaved" THEN op.history ELSE history

KeptHistory(outcome) == IF outcome = "saved" THEN op.history ELSE history

Save(outcome) ==
    /\ op.step = "save"
    /\ studioFile' = IF outcome = "unsaved" THEN studioFile ELSE op.next
    /\ document' = IF outcome = "saved" THEN op.next ELSE document
    /\ history' = KeptHistory(outcome)
    /\ op' = IF outcome # "saved" /\ op.applied # 0
             THEN [op EXCEPT !.step = "rollback"] ELSE NoOp
    /\ UNCHANGED <<onAir, crashes>>

\* Mutant: the rollback asks Program for its revision.
RollbackRevisionNow == program.revision
RollbackRevision == op.applied

\* The result of this replacement is ignored.
Rollback(outcome) ==
    /\ op.step = "rollback"
    /\ Replace(RollbackRevision, op.before.content, outcome)
    /\ op' = NoOp
    /\ UNCHANGED <<studio, crashes>>

\* PUT /api/v1/studio: saves a whole collection and never touches Program.
SaveDocument(scene, content, preview, onair, outcome) ==
    LET next == [document EXCEPT !.revision = @ + 1, !.scenes[scene] = content,
                                 !.previewScene = preview, !.programScene = onair]
    IN  /\ Idle /\ Advanceable
        /\ studioFile' = IF outcome = "unsaved" THEN studioFile ELSE next
        /\ document' = IF outcome = "saved" THEN next ELSE document
        /\ history' = IF outcome = "saved" THEN Pushed(history, document) ELSE history
        /\ UNCHANGED <<onAir, op, crashes>>

\* The process ends; the next one loads both files, each by itself.
Crash ==
    /\ crashes < MaxCrashes
    /\ program' = sceneFile
    /\ document' = studioFile
    /\ history' = Empty
    /\ op' = NoOp
    /\ crashes' = crashes + 1
    /\ UNCHANGED <<sceneFile, studioFile>>

-----------------------------------------------------------------------------
StudioStep ==
    \/ BeginTake \/ BeginUndo \/ BeginRedo
    \/ \E scene \in Scenes, audio \in Audio : BeginAudio(scene, audio)
    \/ \E outcome \in Outcomes : Apply(outcome) \/ Rollback(outcome)
    \/ \E outcome \in SaveOutcomes : Save(outcome)

Next ==
    \/ StudioStep
    \/ \E content \in Content, outcome \in Outcomes : PutScene(content, outcome)
    \/ \E scene \in Scenes, content \in Content, preview \in Scenes,
          onair \in Scenes, outcome \in SaveOutcomes :
            SaveDocument(scene, content, preview, onair, outcome)
    \/ Crash

Spec == Init /\ [][Next]_vars

-----------------------------------------------------------------------------
(* Type invariant.                                                         *)
TypeOK ==
    /\ program \in Scene /\ sceneFile \in Scene
    /\ document \in Studio /\ studioFile \in Studio
    /\ history \in History
    /\ op \in Operation \cup {NoOp}
    /\ crashes \in Nat

(* If-Match protects a client only if a revision never stands for two      *)
(* documents: whatever changes Program or the collection, a restart from   *)
(* the files included, gives it a larger revision.  Saves that fail after  *)
(* their rename make the file newer than what clients have seen.           *)
RevisionsIdentify ==
    [][/\ program' # program => program'.revision > program.revision
       /\ document' # document => document'.revision > document.revision]_vars

(* When a take, an undo, a redo or an audio change of the scene on air     *)
(* succeeds, Program shows the collection's program scene, unless another  *)
(* client has replaced the Program this operation had put on air.          *)
SucceedsTogether ==
    [][(~Idle /\ document' = op.next /\ document' # document /\ op.applied # 0)
         => \/ program'.content = OnAir(document')
            \/ program'.revision > op.applied]_vars

(* A Studio operation replaces the Program it has seen or its own, never a *)
(* scene that another client has put meanwhile.                            *)
OthersKept ==
    [][(~Idle /\ op' # op /\ program' # program /\ crashes' = crashes)
         => \/ program = op.before
            \/ op.applied # 0 /\ program = [revision |-> op.applied, content |-> op.content]]_vars

(* The two stacks never hold more than CAPACITY states, although redo does *)
(* not look at the capacity.                                               *)
HistoryBounded == Len(history.undo) + Len(history.redo) <= CAPACITY

(* The states a user can step through: undo and redo move along them, a    *)
(* change that succeeds puts the new state after the current one, and an   *)
(* operation that fails leaves them alone.                                 *)
Body(state) == [state EXCEPT !.revision = 0]
Timeline == [past |-> [i \in 1..Len(history.undo) |-> Body(history.undo[i])],
             now |-> Body(document),
             future |-> [i \in 1..Len(history.redo) |->
                           Body(history.redo[Len(history.redo) + 1 - i])]]
Flat(line) == line.past \o <<line.now>> \o line.future

TimelineKept ==
    [][crashes' = crashes =>
         \/ document' # document /\ history'.redo = <<>>
         \/ Flat(Timeline') = Flat(Timeline)]_vars

-----------------------------------------------------------------------------
(* The parts of the inductive invariant.                                   *)

\* A file is its document or one revision ahead of it.
FilesAhead ==
    /\ sceneFile = program \/ sceneFile.revision = program.revision + 1
    /\ studioFile = document \/ studioFile.revision = document.revision + 1

\* What the operation under way has seen and done.
OpView ==
    ~Idle =>
      /\ op.next.revision = document.revision + 1
      /\ op.before.revision <= program.revision
      /\ op.before.revision = program.revision => op.before = program
      /\ op.content = OnAir(op.next)
      /\ op.step = "apply" => op.applied = 0
      /\ op.step = "rollback" => op.applied # 0
      /\ op.applied # 0 =>
           /\ op.applied = op.before.revision + 1
           /\ program.revision >= op.applied
           /\ program.revision = op.applied => program.content = op.content

Size(h) == Len(h.undo) + Len(h.redo)
HistoriesBounded == /\ Size(history) <= CAPACITY
                    /\ ~Idle => Size(op.history) <= CAPACITY

StudioInv == TypeOK /\ FilesAhead /\ OpView /\ HistoriesBounded
=============================================================================
