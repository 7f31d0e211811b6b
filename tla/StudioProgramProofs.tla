------------------------- MODULE StudioProgramProofs -------------------------
(***************************************************************************)
(* Theorems about the Studio's server and page (StudioSystem).             *)
(*                                                                         *)
(* StudioProgram: for any collection, any number of kept states and any    *)
(* number of restarts, StudioInv is inductive; the others follow from it   *)
(* one step at a time.                                                     *)
(*                                                                         *)
(* StudioPage: for any number of edits, of other operators' commits, of    *)
(* loads, actions and failures, PageInv is inductive, and no edit is lost. *)
(***************************************************************************)
EXTENDS StudioSystem, SequenceTheorems, TLAPS

USE StudioAssumption

-----------------------------------------------------------------------------
(* The helpers on histories and documents.                                 *)

(* What the bounds on lengths need of the natural numbers.                 *)
LEMMA LengthFacts ==
    /\ CAPACITY \in Nat
    /\ \A a, b, c \in Nat : a + b <= c => a <= c
    /\ \A k \in Nat : k # 0 =>
         k - 1 \in Nat /\ (1 <= k - 1 => k - 1 - 1 + 1 = k - 1) /\ (~(1 <= k - 1) => k - 1 = 0)
<1>1. CAPACITY \in Nat
    BY StudioAssumption
<1>2. \A a, b, c \in Nat : a + b <= c => a <= c
    OBVIOUS
<1>3. ASSUME NEW k \in Nat, k # 0
      PROVE  k - 1 \in Nat /\ (1 <= k - 1 => k - 1 - 1 + 1 = k - 1) /\ (~(1 <= k - 1) => k - 1 = 0)
    BY <1>3
<1> QED BY <1>1, <1>2, <1>3

(* Pushing a state, as every change does, keeps a history and its bound.   *)
LEMMA PushKeeps ==
    ASSUME NEW h \in History, NEW state \in Studio, Size(h) <= CAPACITY
    PROVE  Pushed(h, state) \in History /\ Size(Pushed(h, state)) <= CAPACITY
<1> DEFINE pushed == Append(h.undo, state)
<1>1. /\ h.undo \in Seq(Studio) /\ h.redo \in Seq(Studio)
      /\ Len(h.undo) \in Nat /\ Len(h.redo) \in Nat
    BY DEF History
<1>2. pushed \in Seq(Studio) /\ Len(pushed) = Len(h.undo) + 1
    BY <1>1
<1>3. Tail(pushed) \in Seq(Studio) /\ Len(Tail(pushed)) = Len(h.undo)
    BY <1>1, <1>2
<1>4. CASE h.undo # <<>> /\ Newest(h.undo) = state
    BY <1>4 DEF Pushed
<1>5. CASE ~(h.undo # <<>> /\ Newest(h.undo) = state)
    <2> DEFINE kept == IF Len(pushed) > CAPACITY THEN Tail(pushed) ELSE pushed
    <2>1. Pushed(h, state) = [undo |-> kept, redo |-> <<>>]
        BY <1>5 DEF Pushed
    <2>2. kept \in Seq(Studio) /\ Len(kept) <= CAPACITY /\ Len(kept) \in Nat
        <3>1. Len(h.undo) <= CAPACITY
            <4>1. Len(h.undo) + Len(h.redo) <= CAPACITY
                BY DEF Size
            <4> QED BY <1>1, <4>1, LengthFacts
        <3>2. CASE Len(pushed) > CAPACITY
            BY <1>1, <1>3, <3>1, <3>2
        <3>3. CASE ~(Len(pushed) > CAPACITY)
            BY <1>1, <1>2, <3>3
        <3> QED BY <3>2, <3>3
    <2> HIDE DEF kept
    <2>3. <<>> \in Seq(Studio) /\ Len(<<>>) = 0
        OBVIOUS
    <2> QED BY <2>1, <2>2, <2>3 DEF History, Size
<1> QED BY <1>4, <1>5

(* What a take makes of a collection is a collection.                      *)
LEMMA TakeUpdates ==
    ASSUME NEW d \in Studio, NEW n \in Nat, NEW p \in Scenes
    PROVE  /\ [d EXCEPT !.revision = n, !.programScene = p] \in Studio
           /\ [d EXCEPT !.revision = n, !.programScene = p].revision = n
<1> QED BY DEF Studio

(* So is what a save of the whole collection makes of it.                  *)
Saved(d, scene, content, preview, onair) ==
    [d EXCEPT !.revision = @ + 1, !.scenes[scene] = content,
              !.previewScene = preview, !.programScene = onair]

LEMMA SaveUpdates ==
    ASSUME NEW d \in Studio, NEW scene \in Scenes, NEW content \in Content,
           NEW preview \in Scenes, NEW onair \in Scenes
    PROVE  /\ Saved(d, scene, content, preview, onair) \in Studio
           /\ Saved(d, scene, content, preview, onair).revision = d.revision + 1
<1>1. d.revision + 1 \in Nat
    BY DEF Studio
<1>2. \A n \in Nat :
        LET saved == [d EXCEPT !.revision = n, !.scenes[scene] = content,
                               !.previewScene = preview, !.programScene = onair]
        IN  saved \in Studio /\ saved.revision = n
    BY DEF Studio
<1> QED BY <1>1, <1>2 DEF Saved

(* The newest state of a stack is a collection; the others are a stack.    *)
LEMMA StackSplit ==
    ASSUME NEW states \in Seq(Studio), states # <<>>
    PROVE  /\ Newest(states) \in Studio
           /\ Older(states) \in Seq(Studio)
           /\ Len(Older(states)) = Len(states) - 1
           /\ Len(states) \in Nat \ {0}
<1>1. Len(states) \in Nat /\ Len(states) # 0
    BY EmptySeq
<1>2. \A i \in 1..Len(states) : states[i] \in Studio
    BY ElementOfSeq
<1>3. Len(states) \in 1..Len(states) /\ 1 \in 1..(Len(states) + 1)
      /\ Len(states) - 1 \in 0..Len(states) /\ Len(states) - 1 \in Nat
    BY <1>1
<1>4. Newest(states) \in Studio
    BY <1>2, <1>3 DEF Newest
<1>5. /\ Older(states) \in Seq(Studio)
      /\ Len(Older(states)) = Len(states) - 1
    <2> DEFINE n == Len(states) - 1
    <2>0. \A k \in Nat : k # 0 =>
             k - 1 \in Nat /\ (1 <= k - 1 => k - 1 - 1 + 1 = k - 1) /\ (~(1 <= k - 1) => k - 1 = 0)
        BY LengthFacts
    <2>1. n \in Nat /\ (1 <= n => n - 1 + 1 = n) /\ (~(1 <= n) => n = 0)
        BY <1>1, <2>0, Zenon
    <2>2. \A i \in 1..n : states[i] \in Studio
        BY <1>1, <1>2
    <2> HIDE DEF n
    <2>3. SubSeq(states, 1, n) \in Seq(Studio) /\ Len(SubSeq(states, 1, n)) = n
        BY <2>1, <2>2, SubSeqProperties
    <2> QED BY <2>3 DEF Older, n
<1> QED BY <1>1, <1>4, <1>5

(* Undo and redo move one state, so they keep a history and its size.      *)
LEMMA MoveKeeps ==
    ASSUME NEW h \in History, NEW current \in Studio
    PROVE  /\ h.undo # <<>> => /\ Undone(h, current) \in History
                               /\ Size(Undone(h, current)) = Size(h)
           /\ h.redo # <<>> => /\ Redone(h, current) \in History
                               /\ Size(Redone(h, current)) = Size(h)
<1>1. /\ h.undo \in Seq(Studio) /\ h.redo \in Seq(Studio)
      /\ Len(h.undo) \in Nat /\ Len(h.redo) \in Nat
    BY DEF History
<1>2. /\ Append(h.undo, current) \in Seq(Studio)
      /\ Append(h.redo, current) \in Seq(Studio)
      /\ Len(Append(h.undo, current)) = Len(h.undo) + 1
      /\ Len(Append(h.redo, current)) = Len(h.redo) + 1
    BY <1>1
<1>3. ASSUME h.undo # <<>>
      PROVE  Undone(h, current) \in History /\ Size(Undone(h, current)) = Size(h)
    <2>1. Older(h.undo) \in Seq(Studio) /\ Len(Older(h.undo)) = Len(h.undo) - 1
        BY <1>1, <1>3, StackSplit
    <2> HIDE DEF Older
    <2> QED BY <1>1, <1>2, <2>1 DEF Undone, History, Size
<1>4. ASSUME h.redo # <<>>
      PROVE  Redone(h, current) \in History /\ Size(Redone(h, current)) = Size(h)
    <2>1. Older(h.redo) \in Seq(Studio) /\ Len(Older(h.redo)) = Len(h.redo) - 1
        BY <1>1, <1>4, StackSplit
    <2> HIDE DEF Older
    <2> QED BY <1>1, <1>2, <2>1 DEF Redone, History, Size
<1> QED BY <1>3, <1>4

-----------------------------------------------------------------------------
(* The inductive invariant.                                                *)

(* Every start satisfies it.                                               *)
LEMMA StudioInit == Init => StudioInv
<1> SUFFICES ASSUME Init PROVE StudioInv
    OBVIOUS
<1>1. program \in Scene /\ document \in Studio
    BY DEF Init, Scene, Studio
<1>2. history \in History /\ Size(history) <= CAPACITY
    BY DEF Init, Empty, History, Size
<1>3. TypeOK
    BY <1>1, <1>2 DEF Init, TypeOK
<1> QED BY <1>2, <1>3 DEF Init, StudioInv, FilesAhead, OpView, HistoriesBounded, Idle

(* What Begin stores is an operation that has done nothing yet.            *)
LEMMA BeginKeeps ==
    ASSUME StudioInv, NEW kind \in Kinds, NEW next \in Studio,
           NEW past \in History, NEW step \in {"apply", "save"},
           next.revision = document.revision + 1, Size(past) <= CAPACITY,
           Begin(kind, next, past, step), UNCHANGED <<onAir, studio, crashes>>
    PROVE  StudioInv'
<1> USE DEF StudioInv, onAir, studio
<1>1. program \in Scene /\ program.revision \in Nat
    BY DEF TypeOK, Scene
<1>2. OnAir(next) \in Content
    BY DEF OnAir, Studio
<1>3. op' \in Operation
    BY <1>1, <1>2 DEF Begin, Flattened, Operation
<1>4. TypeOK'
    BY <1>3 DEF TypeOK
<1>5. FilesAhead'
    BY DEF FilesAhead
<1>6. OpView'
    BY <1>1 DEF Begin, Flattened, OpView, Idle, NoOp, OnAir
<1>7. HistoriesBounded'
    BY DEF Begin, HistoriesBounded, Size, Idle
<1> QED BY <1>4, <1>5, <1>6, <1>7

(* A replacement keeps Program and its file in step.                       *)
LEMMA ReplaceKeeps ==
    ASSUME StudioInv, NEW expected, NEW content \in Content, NEW outcome \in Outcomes,
           Replace(expected, content, outcome)
    PROVE  /\ program' \in Scene /\ sceneFile' \in Scene
           /\ sceneFile' = program' \/ sceneFile'.revision = program'.revision + 1
           /\ outcome = "committed" =>
                /\ expected = program.revision
                /\ program' = [revision |-> program.revision + 1, content |-> content]
           /\ outcome # "committed" => program' = program
<1>1. /\ program \in Scene /\ sceneFile \in Scene /\ program.revision \in Nat
      /\ sceneFile = program \/ sceneFile.revision = program.revision + 1
    BY DEF StudioInv, TypeOK, FilesAhead, Scene
<1>2. Successor(content) = [revision |-> program.revision + 1, content |-> content]
    BY DEF Successor
<1>3. Successor(content) \in Scene
    BY <1>1, <1>2 DEF Scene
<1>4. CASE outcome = "committed"
    BY <1>1, <1>2, <1>3, <1>4 DEF Replace, Replaceable
<1>5. CASE outcome = "unsynced"
    BY <1>1, <1>2, <1>3, <1>5 DEF Replace
<1>6. CASE outcome \in {"rejected", "unsaved"}
    BY <1>1, <1>6 DEF Replace
<1> QED BY <1>4, <1>5, <1>6 DEF Outcomes

(* Every step preserves it.                                                *)
LEMMA StudioStepKeeps == StudioInv /\ [Next]_vars => StudioInv'
<1> SUFFICES ASSUME StudioInv, [Next]_vars PROVE StudioInv'
    OBVIOUS
<1>t. /\ program \in Scene /\ sceneFile \in Scene /\ program.revision \in Nat
      /\ document \in Studio /\ studioFile \in Studio /\ document.revision \in Nat
      /\ history \in History /\ op \in Operation \cup {NoOp} /\ crashes \in Nat
      /\ Size(history) <= CAPACITY
    BY DEF StudioInv, TypeOK, Scene, Studio, HistoriesBounded
<1>o. ASSUME ~Idle
      PROVE  /\ op \in Operation /\ op.next \in Studio /\ op.history \in History
             /\ op.before \in Scene /\ op.content \in Content /\ op.applied \in Nat
             /\ op.before.content \in Content /\ op.before.revision \in Nat
             /\ op.next.revision = document.revision + 1
             /\ Size(op.history) <= CAPACITY
    BY <1>t, <1>o DEF Idle, Operation, Scene, StudioInv, OpView, HistoriesBounded
<1>1. ASSUME BeginTake PROVE StudioInv'
    <2> DEFINE next == [document EXCEPT !.revision = @ + 1,
                                        !.programScene = document.previewScene]
    <2>1. next \in Studio /\ next.revision = document.revision + 1
        <3>1. document.revision + 1 \in Nat /\ document.previewScene \in Scenes
            BY <1>t DEF Studio
        <3> QED BY <1>t, <3>1, TakeUpdates
    <2>2. Begin("take", next, Pushed(history, document), "apply")
        BY <1>1 DEF BeginTake
    <2>3. UNCHANGED <<onAir, studio, crashes>>
        BY <1>1 DEF BeginTake
    <2>4. /\ Pushed(history, document) \in History
          /\ Size(Pushed(history, document)) <= CAPACITY
        BY <1>t, PushKeeps
    <2> HIDE DEF next
    <2> QED BY <2>1, <2>2, <2>3, <2>4, BeginKeeps DEF Kinds
<1>2. ASSUME BeginUndo PROVE StudioInv'
    <2> DEFINE next == [Newest(history.undo) EXCEPT !.revision = document.revision + 1]
    <2>1. history.undo # <<>> /\ history.undo \in Seq(Studio)
        BY <1>2, <1>t DEF BeginUndo, History
    <2>2. Newest(history.undo) \in Studio
        BY <2>1, StackSplit
    <2>3. next \in Studio /\ next.revision = document.revision + 1
        BY <1>t, <2>2 DEF Studio
    <2>4. Begin("undo", next, Undone(history, document), "apply")
        BY <1>2 DEF BeginUndo
    <2>5. UNCHANGED <<onAir, studio, crashes>>
        BY <1>2 DEF BeginUndo
    <2>6. /\ Undone(history, document) \in History
          /\ Size(Undone(history, document)) <= CAPACITY
        BY <1>t, <2>1, MoveKeeps
    <2> HIDE DEF next
    <2> QED BY <2>3, <2>4, <2>5, <2>6, BeginKeeps DEF Kinds
<1>3. ASSUME BeginRedo PROVE StudioInv'
    <2> DEFINE next == [Newest(history.redo) EXCEPT !.revision = document.revision + 1]
    <2>1. history.redo # <<>> /\ history.redo \in Seq(Studio)
        BY <1>3, <1>t DEF BeginRedo, History
    <2>2. Newest(history.redo) \in Studio
        BY <2>1, StackSplit
    <2>3. next \in Studio /\ next.revision = document.revision + 1
        BY <1>t, <2>2 DEF Studio
    <2>4. Begin("redo", next, Redone(history, document), "apply")
        BY <1>3 DEF BeginRedo
    <2>5. UNCHANGED <<onAir, studio, crashes>>
        BY <1>3 DEF BeginRedo
    <2>6. /\ Redone(history, document) \in History
          /\ Size(Redone(history, document)) <= CAPACITY
        BY <1>t, <2>1, MoveKeeps
    <2> HIDE DEF next
    <2> QED BY <2>3, <2>4, <2>5, <2>6, BeginKeeps DEF Kinds
<1>4. ASSUME NEW scene \in Scenes, NEW audio \in Audio, BeginAudio(scene, audio)
      PROVE  StudioInv'
    <2> DEFINE next == [document EXCEPT !.revision = @ + 1, !.scenes[scene].audio = audio]
               step == IF scene = document.programScene THEN "apply" ELSE "save"
    <2>1. next \in Studio /\ next.revision = document.revision + 1
        <3>1. document.revision + 1 \in Nat
            BY <1>t
        <3>2. \A n \in Nat :
                /\ [document EXCEPT !.revision = n, !.scenes[scene].audio = audio] \in Studio
                /\ [document EXCEPT !.revision = n, !.scenes[scene].audio = audio].revision = n
            <4> TAKE n \in Nat
            <4>1. document \in Studio
                BY <1>t
            <4>2. [document.scenes[scene] EXCEPT !.audio = audio] \in Content
                BY <4>1 DEF Studio, Content
            <4> QED BY <4>1, <4>2 DEF Studio
        <3> QED BY <3>1, <3>2
    <2>2. Begin("audio", next, Pushed(history, document), step)
        BY <1>4 DEF BeginAudio
    <2>3. UNCHANGED <<onAir, studio, crashes>>
        BY <1>4 DEF BeginAudio
    <2>4. /\ Pushed(history, document) \in History
          /\ Size(Pushed(history, document)) <= CAPACITY
        BY <1>t, PushKeeps
    <2>5. step \in {"apply", "save"}
        OBVIOUS
    <2> HIDE DEF next, step
    <2> QED BY <2>1, <2>2, <2>3, <2>4, <2>5, BeginKeeps DEF Kinds
<1>5. ASSUME NEW outcome \in Outcomes, Apply(outcome) PROVE StudioInv'
    <2>1. ~Idle /\ op.step = "apply" /\ Replace(op.before.revision, op.content, outcome)
        BY <1>5 DEF Apply, Idle, NoOp
    <2>2. /\ program' \in Scene /\ sceneFile' \in Scene
          /\ sceneFile' = program' \/ sceneFile'.revision = program'.revision + 1
          /\ outcome = "committed" =>
               /\ op.before.revision = program.revision
               /\ program' = [revision |-> program.revision + 1, content |-> op.content]
        BY <1>o, <2>1, ReplaceKeeps
    <2>3. UNCHANGED <<document, studioFile, history, crashes>>
        BY <1>5 DEF Apply, studio
    <2>4. CASE outcome = "committed"
        <3>1. op' = [op EXCEPT !.step = "save", !.applied = program.revision + 1]
            BY <1>5, <2>4 DEF Apply
        <3>2. op' \in Operation
            <4>1. program.revision + 1 \in Nat
                BY <1>t
            <4> QED BY <1>o, <2>1, <3>1, <4>1 DEF Operation
        <3>3. TypeOK'
            BY <1>t, <2>2, <2>3, <3>2 DEF TypeOK
        <3>4. OpView'
            BY <1>o, <1>t, <2>1, <2>2, <2>3, <2>4, <3>1
            DEF OpView, Operation, StudioInv, OnAir, Scene
        <3>5. HistoriesBounded'
            BY <1>o, <1>t, <2>1, <2>3, <3>1 DEF HistoriesBounded, Size, Operation
        <3> QED BY <2>2, <2>3, <3>3, <3>4, <3>5 DEF StudioInv, FilesAhead
    <2>5. CASE outcome # "committed"
        <3>1. op' = NoOp
            BY <1>5, <2>5 DEF Apply
        <3>2. TypeOK'
            BY <1>t, <2>2, <2>3, <3>1 DEF TypeOK
        <3> QED BY <1>t, <2>2, <2>3, <3>1, <3>2
                DEF StudioInv, FilesAhead, OpView, HistoriesBounded, Idle, Size
    <2> QED BY <2>4, <2>5
<1>6. ASSUME NEW outcome \in Outcomes, Rollback(outcome) PROVE StudioInv'
    <2>1. ~Idle /\ Replace(RollbackRevision, op.before.content, outcome) /\ op' = NoOp
        BY <1>6 DEF Rollback, Idle, NoOp
    <2>2. /\ program' \in Scene /\ sceneFile' \in Scene
          /\ sceneFile' = program' \/ sceneFile'.revision = program'.revision + 1
        BY <1>o, <2>1, ReplaceKeeps
    <2>3. UNCHANGED <<document, studioFile, history, crashes>>
        BY <1>6 DEF Rollback, studio
    <2>4. TypeOK'
        BY <1>t, <2>1, <2>2, <2>3 DEF TypeOK
    <2> QED BY <1>t, <2>1, <2>2, <2>3, <2>4
            DEF StudioInv, FilesAhead, OpView, HistoriesBounded, Idle, Size
<1>7. ASSUME NEW outcome \in SaveOutcomes, Save(outcome) PROVE StudioInv'
    <2>1. ~Idle /\ op.step = "save"
        BY <1>7 DEF Save, Idle, NoOp
    <2>2. UNCHANGED <<program, sceneFile, crashes>>
        BY <1>7 DEF Save, onAir
    <2>3. /\ document' \in Studio /\ studioFile' \in Studio
          /\ studioFile' = document' \/ studioFile'.revision = document'.revision + 1
          /\ outcome # "saved" => document' = document
        BY <1>7, <1>t, <1>o, <2>1 DEF Save, SaveOutcomes, StudioInv, FilesAhead
    <2>4. history' \in History /\ Size(history') <= CAPACITY
        BY <1>7, <1>t, <1>o, <2>1 DEF Save, KeptHistory
    <2>5. CASE outcome # "saved" /\ op.applied # 0
        <3>1. op' = [op EXCEPT !.step = "rollback"]
            BY <1>7, <2>5 DEF Save
        <3>2. op' \in Operation
            BY <1>o, <2>1, <3>1 DEF Operation
        <3>3. TypeOK'
            BY <1>t, <2>2, <2>3, <2>4, <3>2 DEF TypeOK
        <3>4. OpView'
            BY <1>o, <2>1, <2>2, <2>3, <2>5, <3>1 DEF OpView, Operation, StudioInv, OnAir
        <3>5. HistoriesBounded'
            BY <1>o, <2>1, <2>4, <3>1 DEF HistoriesBounded, Size, Operation
        <3> QED BY <2>2, <2>3, <3>3, <3>4, <3>5 DEF StudioInv, FilesAhead
    <2>6. CASE ~(outcome # "saved" /\ op.applied # 0)
        <3>1. op' = NoOp
            BY <1>7, <2>6 DEF Save
        <3>2. TypeOK'
            BY <1>t, <2>2, <2>3, <2>4, <3>1 DEF TypeOK
        <3> QED BY <2>2, <2>3, <2>4, <3>1, <3>2
                DEF StudioInv, FilesAhead, OpView, HistoriesBounded, Idle, Size
    <2> QED BY <2>5, <2>6
<1>8. ASSUME NEW content \in Content, NEW outcome \in Outcomes, PutScene(content, outcome)
      PROVE  StudioInv'
    <2>1. Replace(program.revision, content, outcome)
        BY <1>8 DEF PutScene
    <2>2. UNCHANGED <<document, studioFile, history, op, crashes>>
        BY <1>8 DEF PutScene, studio
    <2>3. /\ program' \in Scene /\ sceneFile' \in Scene
          /\ sceneFile' = program' \/ sceneFile'.revision = program'.revision + 1
          /\ program' = program \/ program'.revision = program.revision + 1
        BY <1>t, <2>1, ReplaceKeeps
    <2>4. TypeOK'
        BY <1>t, <2>2, <2>3 DEF TypeOK
    <2>5. OpView'
        <3> SUFFICES ASSUME ~Idle PROVE OpView'
            BY <2>2 DEF OpView, Idle
        <3> QED BY <1>o, <1>t, <2>2, <2>3 DEF OpView, StudioInv, Idle, OnAir
    <2>6. HistoriesBounded'
        BY <2>2 DEF StudioInv, HistoriesBounded, Idle, Size
    <2> QED BY <2>2, <2>3, <2>4, <2>5, <2>6 DEF StudioInv, FilesAhead
<1>9. ASSUME NEW scene \in Scenes, NEW content \in Content, NEW preview \in Scenes,
             NEW onair \in Scenes, NEW outcome \in SaveOutcomes,
             SaveDocument(scene, content, preview, onair, outcome)
      PROVE  StudioInv'
    <2> DEFINE next == [document EXCEPT !.revision = @ + 1, !.scenes[scene] = content,
                                        !.previewScene = preview, !.programScene = onair]
    <2>1. next \in Studio /\ next.revision = document.revision + 1
        <3>1. document \in Studio /\ next = Saved(document, scene, content, preview, onair)
            BY <1>t DEF Saved
        <3> HIDE DEF next
        <3> QED BY <3>1, SaveUpdates
    <2>2. /\ studioFile' = IF outcome = "unsaved" THEN studioFile ELSE next
          /\ document' = IF outcome = "saved" THEN next ELSE document
          /\ history' = IF outcome = "saved" THEN Pushed(history, document) ELSE history
          /\ UNCHANGED <<program, sceneFile, op, crashes>> /\ op = NoOp
        BY <1>9 DEF SaveDocument, onAir, Idle
    <2> HIDE DEF next
    <2>3. history' \in History /\ Size(history') <= CAPACITY
        BY <1>t, <2>2, PushKeeps
    <2>4. TypeOK'
        BY <1>t, <2>1, <2>2, <2>3 DEF TypeOK
    <2>5. FilesAhead'
        BY <2>1, <2>2 DEF SaveOutcomes, StudioInv, FilesAhead
    <2> QED BY <2>2, <2>3, <2>4, <2>5 DEF StudioInv, OpView, HistoriesBounded, Idle
<1>10. ASSUME Crash PROVE StudioInv'
    <2>1. /\ program' = sceneFile /\ sceneFile' = sceneFile /\ document' = studioFile
          /\ studioFile' = studioFile /\ history' = Empty /\ op' = NoOp
          /\ crashes' = crashes + 1
        BY <1>10 DEF Crash
    <2>2. Empty \in History /\ Size(Empty) = 0
        BY DEF Empty, History, Size
    <2>3. TypeOK'
        BY <1>t, <2>1, <2>2 DEF TypeOK
    <2> QED BY <2>1, <2>2, <2>3 DEF StudioInv, FilesAhead, OpView, HistoriesBounded, Idle
<1>11. CASE UNCHANGED vars
    BY <1>11 DEF vars, StudioInv, TypeOK, FilesAhead, OpView, HistoriesBounded, Idle, Size, OnAir
<1> QED
    BY <1>1, <1>2, <1>3, <1>4, <1>5, <1>6, <1>7, <1>8, <1>9, <1>10, <1>11
    DEF Next, StudioStep

(* StudioInv holds in every reachable state.                               *)
THEOREM StudioInvariant == Spec => []StudioInv
<1> QED BY StudioInit, StudioStepKeeps, PTL DEF Spec

(* Program, collection, history and operation keep their types.            *)
THEOREM StudioTypes == Spec => []TypeOK
<1>1. StudioInv => TypeOK
    BY DEF StudioInv
<1> QED BY <1>1, StudioInvariant, PTL

(* Undo and redo together never exceed StudioHistory's capacity.           *)
THEOREM HistoryWithinCapacity == Spec => []HistoryBounded
<1>1. StudioInv => HistoryBounded
    BY DEF StudioInv, HistoriesBounded, HistoryBounded, Size
<1> QED BY <1>1, StudioInvariant, PTL

-----------------------------------------------------------------------------
(* Action properties.                                                      *)

(* No revision stands for two documents, through failed saves and          *)
(* restarts: what If-Match relies on.                                      *)
THEOREM RevisionsUnique == Spec => RevisionsIdentify
<1> DEFINE A == /\ program' # program => program'.revision > program.revision
                /\ document' # document => document'.revision > document.revision
<1>1. ASSUME StudioInv, [Next]_vars PROVE A \/ UNCHANGED vars
    <2>t. /\ program \in Scene /\ document \in Studio
          /\ program.revision \in Nat /\ document.revision \in Nat
        BY <1>1 DEF StudioInv, TypeOK, Scene, Studio
    <2>1. ASSUME NEW expected, NEW content, NEW outcome, Replace(expected, content, outcome),
                 document' = document
          PROVE  A
        BY <2>1, <2>t DEF Replace, Successor
    <2>2. CASE \E outcome \in Outcomes : Apply(outcome) \/ Rollback(outcome)
        BY <2>1, <2>2 DEF Apply, Rollback, studio
    <2>3. CASE \E content \in Content, outcome \in Outcomes : PutScene(content, outcome)
        BY <2>1, <2>3 DEF PutScene, studio
    <2>4. CASE \E outcome \in SaveOutcomes : Save(outcome)
        <3>1. op.step = "save" /\ op # NoOp /\ op.next.revision = document.revision + 1
            BY <1>1, <2>4 DEF Save, NoOp, StudioInv, OpView, Idle
        <3> QED BY <2>4, <2>t, <3>1 DEF Save, onAir
    <2>5. CASE \E scene \in Scenes, content \in Content, preview \in Scenes,
                  onair \in Scenes, outcome \in SaveOutcomes :
                    SaveDocument(scene, content, preview, onair, outcome)
        <3>1. PICK scene \in Scenes, content \in Content, preview \in Scenes,
                   onair \in Scenes, outcome \in SaveOutcomes :
                     SaveDocument(scene, content, preview, onair, outcome)
            BY <2>5
        <3>2. program' = program /\ (document' = document \/ document'.revision = document.revision + 1)
            BY <3>1, <2>t DEF SaveDocument, onAir, Studio
        <3> QED BY <3>2, <2>t
    <2>6. CASE \/ BeginTake \/ BeginUndo \/ BeginRedo
               \/ \E scene \in Scenes, audio \in Audio : BeginAudio(scene, audio)
        BY <2>6 DEF BeginTake, BeginUndo, BeginRedo, BeginAudio, onAir, studio
    <2>7. CASE Crash
        BY <1>1, <2>7, <2>t DEF Crash, StudioInv, FilesAhead
    <2> QED BY <1>1, <2>2, <2>3, <2>4, <2>5, <2>6, <2>7 DEF Next, StudioStep
<1>2. StudioInv /\ [Next]_vars => [A]_vars
    BY <1>1
<1> QED BY <1>2, StudioInvariant, PTL DEF Spec, RevisionsIdentify

(* A Studio operation overwrites what it has seen or its own scene, never  *)
(* one that another client put on air between its steps.                   *)
THEOREM OthersNeverOverwritten == Spec => OthersKept
<1> DEFINE A == (~Idle /\ op' # op /\ program' # program /\ crashes' = crashes)
                  => \/ program = op.before
                     \/ op.applied # 0
                        /\ program = [revision |-> op.applied, content |-> op.content]
<1>1. ASSUME StudioInv, [Next]_vars, ~Idle, op' # op, program' # program, crashes' = crashes
      PROVE  \/ program = op.before
             \/ op.applied # 0
                /\ program = [revision |-> op.applied, content |-> op.content]
    <2>v. OpView /\ program \in Scene /\ crashes \in Nat
        BY <1>1 DEF StudioInv, TypeOK
    <2>1. CASE \E outcome \in Outcomes : Apply(outcome)
        BY <1>1, <2>1, <2>v DEF Apply, Replace, Replaceable, OpView, Outcomes
    <2>2. CASE \E outcome \in Outcomes : Rollback(outcome)
        <3>1. program.revision = op.applied /\ op.step = "rollback"
            BY <1>1, <2>2 DEF Rollback, RollbackRevision, Replace, Replaceable, Outcomes
        <3>2. op.applied # 0 /\ program.content = op.content
            BY <1>1, <2>v, <3>1 DEF OpView
        <3>3. program = [revision |-> program.revision, content |-> program.content]
            BY <2>v DEF Scene
        <3> QED BY <3>1, <3>2, <3>3
    <2>3. CASE Crash
        BY <1>1, <2>3, <2>v DEF Crash
    <2>4. ~(\E outcome \in SaveOutcomes : Save(outcome))
        BY <1>1 DEF Save, onAir
    <2>5. ~(BeginTake \/ BeginUndo \/ BeginRedo)
        BY <1>1 DEF BeginTake, BeginUndo, BeginRedo
    <2>6. ~(\E scene \in Scenes, audio \in Audio : BeginAudio(scene, audio))
        BY <1>1 DEF BeginAudio
    <2>7. ~(\E content \in Content, outcome \in Outcomes : PutScene(content, outcome))
        BY <1>1 DEF PutScene
    <2>8. ~(\E scene \in Scenes, content \in Content, preview \in Scenes,
               onair \in Scenes, outcome \in SaveOutcomes :
                 SaveDocument(scene, content, preview, onair, outcome))
        BY <1>1 DEF SaveDocument
    <2>9. ~UNCHANGED vars
        BY <1>1 DEF vars
    <2> QED BY <1>1, <2>1, <2>2, <2>3, <2>4, <2>5, <2>6, <2>7, <2>8, <2>9 DEF Next, StudioStep
<1>2. StudioInv /\ [Next]_vars => [A]_vars
    BY <1>1
<1> QED BY <1>2, StudioInvariant, PTL DEF Spec, OthersKept

(* When a take, an undo, a redo or an audio change succeeds, Program shows *)
(* the collection's program scene or a newer scene of another client.      *)
THEOREM SuccessIsOnAir == Spec => SucceedsTogether
<1> DEFINE A == (~Idle /\ document' = op.next /\ document' # document /\ op.applied # 0)
                  => \/ program'.content = OnAir(document')
                     \/ program'.revision > op.applied
<1>1. ASSUME StudioInv, [Next]_vars, ~Idle, document' = op.next, document' # document,
             op.applied # 0
      PROVE  \/ program'.content = OnAir(document') \/ program'.revision > op.applied
    <2>v. /\ OpView /\ program \in Scene /\ sceneFile \in Scene
          /\ program.revision \in Nat /\ op.applied \in Nat /\ sceneFile.revision \in Nat
          /\ (sceneFile = program \/ sceneFile.revision = program.revision + 1)
        BY <1>1 DEF StudioInv, TypeOK, Scene, Operation, Idle, FilesAhead
    <2>1. /\ program.revision >= op.applied
          /\ program.revision = op.applied => program.content = op.content
          /\ op.content = OnAir(op.next)
        BY <1>1, <2>v DEF OpView
    <2>2. CASE program' = program
        <3>1. OnAir(document') = OnAir(op.next)
            BY <1>1 DEF OnAir
        <3> QED BY <2>1, <2>2, <2>v, <3>1
    <2>3. CASE program' = sceneFile
        <3>1. OnAir(document') = OnAir(op.next)
            BY <1>1 DEF OnAir
        <3> QED BY <2>1, <2>3, <2>v, <3>1
    <2>4. program' = program \/ program' = sceneFile
        <3>1. document' # document
            BY <1>1
        <3> QED BY <1>1, <3>1 DEF Next, StudioStep, BeginTake, BeginUndo, BeginRedo, BeginAudio,
                   Apply, Rollback, Save, PutScene, SaveDocument, Crash, onAir, studio, vars
    <2> QED BY <2>2, <2>3, <2>4
<1>2. StudioInv /\ [Next]_vars => [A]_vars
    BY <1>1
<1>3. A <=> ((~Idle /\ document' = op.next /\ document' # document /\ op.applied # 0)
                => \/ program'.content = OnAir(document')
                   \/ program'.revision > op.applied)
    OBVIOUS
<1> QED BY <1>2, StudioInvariant, PTL DEF Spec, SucceedsTogether
-----------------------------------------------------------------------------
(* The line of states undo and redo move along.                            *)

(* A function on 1..n is a sequence of length n.                           *)
LEMMA FunctionSeq ==
    ASSUME NEW S, NEW n \in Nat, NEW f \in [1..n -> S]
    PROVE  f \in Seq(S) /\ Len(f) = n
<1>1. f \in Seq(S)
    BY SeqDef
<1>2. Len(f) \in Nat /\ 1..Len(f) = 1..n
    BY <1>1, LenProperties
<1>3. Len(f) = n
    <2>1. \A i \in Nat : i \in 1..Len(f) <=> i \in 1..n
        BY <1>2
    <2>2. n >= 1 => n <= Len(f)
        BY <1>2, <2>1
    <2>3. Len(f) >= 1 => Len(f) <= n
        BY <1>2, <2>1
    <2> QED BY <1>2, <2>2, <2>3
<1> QED BY <1>1, <1>3

(* The newest and the older states of a stack, by position.                *)
LEMMA OlderRows ==
    ASSUME NEW states \in Seq(Studio), states # <<>>
    PROVE  /\ Len(states) \in Nat /\ Len(states) >= 1
           /\ Older(states) \in Seq(Studio)
           /\ Len(Older(states)) = Len(states) - 1
           /\ \A i \in 1..(Len(states) - 1) : Older(states)[i] = states[i]
<1>1. /\ Older(states) \in Seq(Studio)
      /\ Len(Older(states)) = Len(states) - 1
      /\ Len(states) \in Nat /\ Len(states) >= 1
    BY StackSplit
<1>2. \A i \in 1..(Len(states) - 1) : states[i] \in Studio
    BY <1>1, ElementOfSeq
<1>3. \A i \in 1..(Len(states) - 1) - 1 + 1 :
        SubSeq(states, 1, Len(states) - 1)[i] = states[1 + i - 1]
    <2>1. 1 \in Int /\ Len(states) - 1 \in Int
        BY <1>1
    <2> QED BY <1>2, <2>1, SubSeqProperties
<1>4. ASSUME NEW i \in 1..(Len(states) - 1)
      PROVE  Older(states)[i] = states[i]
    <2>1. i \in 1..(Len(states) - 1) - 1 + 1 /\ 1 + i - 1 = i
        BY <1>1
    <2> QED BY <1>3, <2>1 DEF Older
<1> QED BY <1>1, <1>4

LEMMA AppendRows ==
    ASSUME NEW states \in Seq(Studio), NEW d \in Studio
    PROVE  /\ Len(states) \in Nat
           /\ Append(states, d) \in Seq(Studio)
           /\ Len(Append(states, d)) = Len(states) + 1
           /\ \A i \in 1..Len(states) : Append(states, d)[i] = states[i]
           /\ Append(states, d)[Len(states) + 1] = d
    BY LenProperties, AppendProperties

\* The line of a history and a document, by position.
LineRow(h, d, i) == IF i <= Len(h.undo) THEN Body(h.undo[i])
                    ELSE IF i = Len(h.undo) + 1 THEN Body(d)
                    ELSE Body(h.redo[Size(h) + 2 - i])
LineOf(h, d) == [i \in 1..(Size(h) + 1) |-> LineRow(h, d, i)]

(* The three parts of a line, by position.                                 *)
Joined(past, x, future) == past \o <<x>> \o future
Parts(line, T, past, x, future) ==
    /\ line \in [1..(Len(past) + Len(future) + 1) -> T]
    /\ \A i \in 1..Len(past) : line[i] = past[i]
    /\ line[Len(past) + 1] = x
    /\ \A i \in 1..Len(future) : line[Len(past) + 1 + i] = future[i]

LEMMA ThreeParts ==
    ASSUME NEW T, NEW past \in Seq(T), NEW x \in T, NEW future \in Seq(T)
    PROVE  Parts(Joined(past, x, future), T, past, x, future)
<1> DEFINE n == Len(past)
           m == Len(future)
           s == past \o <<x>>
           line == Joined(past, x, future)
<1>1. n \in Nat /\ m \in Nat
    BY LenProperties
<1>2. <<x>> \in Seq(T) /\ Len(<<x>>) = 1 /\ <<x>>[1] = x
    OBVIOUS
<1>3. /\ s \in Seq(T) /\ Len(s) = n + 1
      /\ \A i \in 1..(n + 1) : s[i] = IF i <= n THEN past[i] ELSE <<x>>[i - n]
    <2>1. /\ s \in Seq(T) /\ Len(s) = Len(past) + Len(<<x>>)
          /\ \A i \in 1..(Len(past) + Len(<<x>>)) :
                s[i] = IF i <= Len(past) THEN past[i] ELSE <<x>>[i - Len(past)]
        BY <1>2, ConcatProperties
    <2> QED BY <1>2, <2>1
<1>4. line = s \o future
    BY DEF Joined
<1> HIDE DEF n, m, s, line
<1>5. /\ line \in Seq(T) /\ Len(line) = n + 1 + m
      /\ \A i \in 1..(n + 1 + m) : line[i] = IF i <= n + 1 THEN s[i] ELSE future[i - (n + 1)]
    <2>1. /\ s \o future \in Seq(T) /\ Len(s \o future) = Len(s) + Len(future)
          /\ \A i \in 1..(Len(s) + Len(future)) :
                (s \o future)[i] = IF i <= Len(s) THEN s[i] ELSE future[i - Len(s)]
        BY <1>3, ConcatProperties
    <2> QED BY <1>3, <1>4, <2>1 DEF m
<1>6. line \in [1..(n + m + 1) -> T]
    <2>1. line \in [1..Len(line) -> T]
        BY <1>5, LenProperties
    <2>2. Len(line) = n + m + 1
        BY <1>1, <1>5
    <2> QED BY <2>1, <2>2
<1>7. ASSUME NEW i \in 1..n PROVE line[i] = past[i]
    <2>1. i \in 1..(n + 1) /\ i \in 1..(n + 1 + m) /\ i <= n /\ i <= n + 1
        BY <1>1
    <2> QED BY <1>3, <1>5, <2>1
<1>8. line[n + 1] = x
    <2>1. PICK k : k = n + 1
        OBVIOUS
    <2>2. k \in 1..(n + 1) /\ k \in 1..(n + 1 + m) /\ ~(k <= n) /\ k <= n + 1 /\ k - n = 1
        BY <1>1, <2>1
    <2>3. line[k] = s[k]
        BY <1>5, <2>2
    <2>4. s[k] = <<x>>[k - n]
        BY <1>3, <2>2
    <2>5. s[k] = x
        BY <1>2, <2>2, <2>4
    <2> QED BY <2>1, <2>3, <2>5
<1>9. ASSUME NEW i \in 1..m PROVE line[n + 1 + i] = future[i]
    <2>1. PICK k : k = n + 1 + i
        OBVIOUS
    <2>2. k \in 1..(n + 1 + m) /\ ~(k <= n + 1) /\ k - (n + 1) = i
        BY <1>1, <2>1
    <2>3. line[k] = future[k - (n + 1)]
        BY <1>5, <2>2
    <2> QED BY <2>1, <2>2, <2>3
<1> QED BY <1>6, <1>7, <1>8, <1>9 DEF Parts, n, m, line

(* The states a user can step through are the older states, the document   *)
(* and the states that were undone.                                        *)
TimelineOf(h, d) ==
    [past |-> [i \in 1..Len(h.undo) |-> Body(h.undo[i])],
     now |-> Body(d),
     future |-> [i \in 1..Len(h.redo) |-> Body(h.redo[Len(h.redo) + 1 - i])]]

LEMMA FlatLine ==
    ASSUME NEW h \in History, NEW d \in Studio
    PROVE  Flat(TimelineOf(h, d)) = LineOf(h, d)
<1> DEFINE T == {Body(x) : x \in Studio}
           n == Len(h.undo)
           m == Len(h.redo)
           past == [i \in 1..n |-> Body(h.undo[i])]
           future == [i \in 1..m |-> Body(h.redo[m + 1 - i])]
           line == Joined(past, Body(d), future)
<1>1. /\ h.undo \in Seq(Studio) /\ h.redo \in Seq(Studio)
      /\ n \in Nat /\ m \in Nat
    BY LenProperties DEF History
<1>2. past \in Seq(T) /\ Len(past) = n
    <2>1. \A i \in 1..n : h.undo[i] \in Studio
        BY <1>1, ElementOfSeq
    <2>2. past \in [1..n -> T]
        BY <2>1
    <2> QED BY <1>1, <2>2, FunctionSeq
<1>3. future \in Seq(T) /\ Len(future) = m
    <2>1. \A i \in 1..m : h.redo[i] \in Studio
        BY <1>1, ElementOfSeq
    <2>2. \A i \in 1..m : m + 1 - i \in 1..m
        BY <1>1
    <2>3. future \in [1..m -> T]
        BY <2>1, <2>2
    <2> QED BY <1>1, <2>3, FunctionSeq
<1>4. Body(d) \in T
    OBVIOUS
<1>5. Flat(TimelineOf(h, d)) = line
    BY DEF Flat, TimelineOf, Joined
<1>6. Size(h) = n + m
    BY DEF Size
<1>7. /\ \A i \in 1..n : past[i] = Body(h.undo[i])
      /\ \A i \in 1..m : future[i] = Body(h.redo[m + 1 - i])
    OBVIOUS
<1>8. /\ line \in [1..(n + m + 1) -> T]
      /\ \A i \in 1..n : line[i] = past[i]
      /\ line[n + 1] = Body(d)
      /\ \A i \in 1..m : line[n + 1 + i] = future[i]
    <2>1. Parts(line, T, past, Body(d), future)
        <3> HIDE DEF T, past, future
        <3> QED BY <1>2, <1>3, <1>4, ThreeParts
    <2> HIDE DEF T, past, future, line
    <2> QED BY <1>2, <1>3, <2>1 DEF Parts
<1> HIDE DEF past, future, line, T
<1>9. ASSUME NEW i \in 1..(n + m + 1)
      PROVE  line[i] = LineRow(h, d, i)
    <2>1. CASE i <= n
        <3>1. i \in 1..n
            BY <1>1, <2>1
        <3> QED BY <1>7, <1>8, <2>1, <3>1 DEF LineRow
    <2>2. CASE i = n + 1
        <3>1. ~(i <= n)
            BY <1>1, <2>2
        <3> QED BY <1>8, <2>2, <3>1 DEF LineRow
    <2>3. CASE i > n + 1
        <3> HIDE DEF n, m
        <3>1. PICK j \in 1..m : i = n + 1 + j
            <4>1. i - (n + 1) \in 1..m /\ i = n + 1 + (i - (n + 1))
                BY <1>1, <2>3
            <4> QED BY <4>1
        <3>2. ~(i <= n) /\ i # n + 1 /\ m + 1 - j = n + m + 2 - i
            BY <1>1, <3>1
        <3>3. line[i] = Body(h.redo[m + 1 - j])
            BY <1>7, <1>8, <3>1
        <3>4. LineRow(h, d, i) = Body(h.redo[n + m + 2 - i])
            BY <1>6, <3>2 DEF LineRow, n
        <3> QED BY <3>2, <3>3, <3>4
    <2> QED BY <1>1, <2>1, <2>2, <2>3
<1> HIDE DEF n, m
<1>10. line = [i \in 1..(n + m + 1) |-> LineRow(h, d, i)]
    BY <1>8, <1>9
<1> QED BY <1>5, <1>6, <1>10 DEF LineOf

(* Undo and redo move the document along its line.                         *)
LEMMA UndoneLine ==
    ASSUME NEW h \in History, NEW d \in Studio, NEW r \in Nat, h.undo # <<>>
    PROVE  LineOf(Undone(h, d), [Newest(h.undo) EXCEPT !.revision = r]) = LineOf(h, d)
<1> DEFINE n == Len(h.undo)
           m == Len(h.redo)
           e == [Newest(h.undo) EXCEPT !.revision = r]
           g == Undone(h, d)
<1>1. /\ h.undo \in Seq(Studio) /\ h.redo \in Seq(Studio)
      /\ g.undo = Older(h.undo) /\ g.redo = Append(h.redo, d)
    BY DEF History, Undone
<1>2. /\ n \in Nat /\ n >= 1 /\ Len(g.undo) = n - 1
      /\ \A i \in 1..(n - 1) : g.undo[i] = h.undo[i]
    BY <1>1, OlderRows
<1>3. /\ m \in Nat /\ Len(g.redo) = m + 1
      /\ \A i \in 1..m : g.redo[i] = h.redo[i]
      /\ g.redo[m + 1] = d
    BY <1>1, AppendRows
<1>4. Size(g) = n + m /\ Size(h) = n + m
    <2>1. Size(g) = Len(g.undo) + Len(g.redo) /\ Size(h) = n + m
        BY DEF Size
    <2> HIDE DEF n, m, g
    <2> QED BY <1>2, <1>3, <2>1
<1>5. Body(e) = Body(h.undo[n])
    <2>1. h.undo[n] \in Studio
        BY <1>1, <1>2, ElementOfSeq
    <2> QED BY <2>1 DEF Body, Newest, Studio
<1> HIDE DEF n, m, e, g
<1>6. ASSUME NEW i \in 1..(n + m + 1)
      PROVE  LineRow(g, e, i) = LineRow(h, d, i)
    <2>1. CASE i <= n - 1
        <3>1. i \in 1..(n - 1) /\ i <= n
            BY <1>2, <1>3, <2>1
        <3> QED BY <1>2, <2>1, <3>1 DEF LineRow, n
    <2>2. CASE i = n
        <3>1. ~(i <= n - 1) /\ i = n - 1 + 1 /\ i <= n
            BY <1>2, <2>2
        <3> QED BY <1>2, <1>5, <2>2, <3>1 DEF LineRow, n
    <2>3. CASE i = n + 1
        <3>1. /\ ~(i <= n - 1) /\ i # n - 1 + 1 /\ ~(i <= n)
              /\ n + m + 2 - i = m + 1
            BY <1>2, <1>3, <2>3
        <3>2. LineRow(g, e, i) = Body(g.redo[m + 1])
            BY <1>2, <1>4, <3>1 DEF LineRow
        <3> QED BY <1>3, <2>3, <3>1, <3>2 DEF LineRow, n
    <2>4. CASE i > n + 1
        <3>1. /\ ~(i <= n - 1) /\ i # n - 1 + 1 /\ ~(i <= n) /\ i # n + 1
              /\ n + m + 2 - i \in 1..m
            BY <1>2, <1>3, <2>4
        <3>2. LineRow(g, e, i) = Body(g.redo[n + m + 2 - i])
            BY <1>2, <1>4, <3>1 DEF LineRow
        <3>3. LineRow(h, d, i) = Body(h.redo[n + m + 2 - i])
            BY <1>4, <3>1 DEF LineRow, n
        <3> QED BY <1>3, <3>1, <3>2, <3>3
    <2>5. i <= n - 1 \/ i = n \/ i = n + 1 \/ i > n + 1
        <3>1. n \in Nat /\ m \in Nat
            BY <1>2, <1>3
        <3> QED BY <3>1
    <2> QED BY <2>1, <2>2, <2>3, <2>4, <2>5
<1> QED BY <1>4, <1>6 DEF LineOf, g, e

LEMMA RedoneLine ==
    ASSUME NEW h \in History, NEW d \in Studio, NEW r \in Nat, h.redo # <<>>
    PROVE  LineOf(Redone(h, d), [Newest(h.redo) EXCEPT !.revision = r]) = LineOf(h, d)
<1> DEFINE n == Len(h.undo)
           m == Len(h.redo)
           e == [Newest(h.redo) EXCEPT !.revision = r]
           g == Redone(h, d)
<1>1. /\ h.undo \in Seq(Studio) /\ h.redo \in Seq(Studio)
      /\ g.undo = Append(h.undo, d) /\ g.redo = Older(h.redo)
    BY DEF History, Redone
<1>2. /\ n \in Nat /\ Len(g.undo) = n + 1
      /\ \A i \in 1..n : g.undo[i] = h.undo[i]
      /\ g.undo[n + 1] = d
    BY <1>1, AppendRows
<1>3. /\ m \in Nat /\ m >= 1 /\ Len(g.redo) = m - 1
      /\ \A i \in 1..(m - 1) : g.redo[i] = h.redo[i]
    BY <1>1, OlderRows
<1>4. Size(g) = n + m /\ Size(h) = n + m
    <2>1. Size(g) = Len(g.undo) + Len(g.redo) /\ Size(h) = n + m
        BY DEF Size
    <2> HIDE DEF n, m, g
    <2> QED BY <1>2, <1>3, <2>1
<1>5. Body(e) = Body(h.redo[m])
    <2>1. h.redo[m] \in Studio
        BY <1>1, <1>3, ElementOfSeq
    <2> QED BY <2>1 DEF Body, Newest, Studio
<1> HIDE DEF n, m, e, g
<1>6. ASSUME NEW i \in 1..(n + m + 1)
      PROVE  LineRow(g, e, i) = LineRow(h, d, i)
    <2>1. CASE i <= n
        <3>1. i \in 1..n /\ i <= n + 1
            BY <1>2, <1>3, <2>1
        <3> QED BY <1>2, <2>1, <3>1 DEF LineRow, n
    <2>2. CASE i = n + 1
        <3>1. ~(i <= n) /\ i <= n + 1
            BY <1>2, <2>2
        <3> QED BY <1>2, <2>2, <3>1 DEF LineRow, n
    <2>3. CASE i = n + 2
        <3>1. /\ ~(i <= n + 1) /\ i = n + 1 + 1 /\ ~(i <= n) /\ i # n + 1
              /\ n + m + 2 - i = m
            BY <1>2, <1>3, <2>3
        <3>2. LineRow(g, e, i) = Body(e)
            BY <1>2, <3>1 DEF LineRow
        <3>3. LineRow(h, d, i) = Body(h.redo[m])
            BY <1>4, <3>1 DEF LineRow, n
        <3> QED BY <1>5, <3>2, <3>3
    <2>4. CASE i > n + 2
        <3>1. /\ ~(i <= n + 1) /\ i # n + 1 + 1 /\ ~(i <= n) /\ i # n + 1
              /\ n + m + 2 - i \in 1..(m - 1)
            BY <1>2, <1>3, <2>4
        <3>2. LineRow(g, e, i) = Body(g.redo[n + m + 2 - i])
            BY <1>2, <1>4, <3>1 DEF LineRow
        <3>3. LineRow(h, d, i) = Body(h.redo[n + m + 2 - i])
            BY <1>4, <3>1 DEF LineRow, n
        <3> QED BY <1>3, <3>1, <3>2, <3>3
    <2>5. i <= n \/ i = n + 1 \/ i = n + 2 \/ i > n + 2
        <3>1. n \in Nat /\ m \in Nat
            BY <1>2, <1>3
        <3> QED BY <3>1
    <2> QED BY <2>1, <2>2, <2>3, <2>4, <2>5
<1> QED BY <1>4, <1>6 DEF LineOf, g, e
-----------------------------------------------------------------------------
(* What the stacks and the operation under way have to do with the         *)
(* document: every kept state is older than it, and an operation's history *)
(* is made from the history it will replace.                               *)
Below(states, r) == \A i \in 1..Len(states) : states[i].revision < r
HistoryBelow(h, r) == Below(h.undo, r) /\ Below(h.redo, r)

\* How a history and a document come from the ones before.
Changes(h, d, past, next) == past = Pushed(h, d)
Undoes(h, d, past, next) ==
    /\ h.undo # <<>> /\ past = Undone(h, d)
    /\ next = [Newest(h.undo) EXCEPT !.revision = d.revision + 1]
Redoes(h, d, past, next) ==
    /\ h.redo # <<>> /\ past = Redone(h, d)
    /\ next = [Newest(h.redo) EXCEPT !.revision = d.revision + 1]
Follows(h, d, past, next) ==
    Changes(h, d, past, next) \/ Undoes(h, d, past, next) \/ Redoes(h, d, past, next)

TimelineInv ==
    /\ HistoryBelow(history, document.revision)
    /\ ~Idle => Follows(history, document, op.history, op.next)
LEMMA BelowStacks ==
    ASSUME NEW states \in Seq(Studio), NEW d \in Studio, Below(states, d.revision)
    PROVE  /\ Below(states, d.revision + 1)
           /\ Below(Append(states, d), d.revision + 1)
           /\ states # <<>> => Below(Older(states), d.revision + 1)
<1>1. Len(states) \in Nat /\ d.revision \in Nat
    BY LenProperties DEF Studio
<1>2. ASSUME NEW i \in 1..Len(states)
      PROVE  states[i].revision < d.revision + 1
    <2>1. states[i] \in Studio
        BY ElementOfSeq
    <2>2. states[i].revision \in Nat /\ states[i].revision < d.revision
        BY <2>1 DEF Below, Studio
    <2> QED BY <1>1, <2>2
<1>3. Below(states, d.revision + 1)
    BY <1>2 DEF Below
<1>4. Below(Append(states, d), d.revision + 1)
    <2> SUFFICES ASSUME NEW i \in 1..Len(Append(states, d))
                 PROVE  Append(states, d)[i].revision < d.revision + 1
        BY DEF Below
    <2>1. i \in 1..Len(states) \/ i = Len(states) + 1
        BY <1>1, AppendRows
    <2>2. CASE i \in 1..Len(states)
        <3>1. Append(states, d)[i] = states[i]
            BY <2>2, AppendRows
        <3> QED BY <1>2, <2>2, <3>1
    <2>3. CASE i = Len(states) + 1
        <3>1. Append(states, d)[i] = d
            BY <2>3, AppendRows
        <3> QED BY <1>1, <3>1
    <2> QED BY <2>1, <2>2, <2>3
<1>5. ASSUME states # <<>>
      PROVE  Below(Older(states), d.revision + 1)
    <2> SUFFICES ASSUME NEW i \in 1..Len(Older(states))
                 PROVE  Older(states)[i].revision < d.revision + 1
        BY DEF Below
    <2>1. i \in 1..(Len(states) - 1) /\ i \in 1..Len(states)
        BY <1>1, <1>5, OlderRows
    <2>2. Older(states)[i] = states[i]
        BY <1>5, <2>1, OlderRows
    <2> QED BY <1>2, <2>1, <2>2
<1> QED BY <1>3, <1>4, <1>5

LEMMA BelowTail ==
    ASSUME NEW states \in Seq(Studio), states # <<>>, NEW r, Below(states, r)
    PROVE  Below(Tail(states), r)
<1>1. /\ Len(states) \in Nat /\ Len(Tail(states)) = Len(states) - 1
      /\ \A i \in 1..Len(Tail(states)) : Tail(states)[i] = states[i + 1]
    BY LenProperties, HeadTailProperties
<1> SUFFICES ASSUME NEW i \in 1..Len(Tail(states))
             PROVE  Tail(states)[i].revision < r
    BY DEF Below
<1>2. i + 1 \in 1..Len(states) /\ Tail(states)[i] = states[i + 1]
    BY <1>1
<1> QED BY <1>2 DEF Below

(* A push takes the document in and gives up what had been undone.         *)
LEMMA PushRenews ==
    ASSUME NEW h \in History, NEW d \in Studio, HistoryBelow(h, d.revision)
    PROVE  /\ Pushed(h, d).redo = <<>>
           /\ HistoryBelow(Pushed(h, d), d.revision + 1)
<1> DEFINE pushed == Append(h.undo, d)
           kept == IF Len(pushed) > CAPACITY THEN Tail(pushed) ELSE pushed
<1>1. h.undo \in Seq(Studio) /\ Len(h.undo) \in Nat /\ d.revision \in Nat
    BY LenProperties DEF History, Studio
<1>2. ~(h.undo # <<>> /\ Newest(h.undo) = d)
    <2> SUFFICES ASSUME h.undo # <<>> PROVE Newest(h.undo) # d
        OBVIOUS
    <2>1. Len(h.undo) \in 1..Len(h.undo)
        BY <1>1, OlderRows
    <2>2. Newest(h.undo).revision < d.revision
        BY <2>1 DEF HistoryBelow, Below, Newest
    <2> QED BY <1>1, <2>2
<1>3. Pushed(h, d) = [undo |-> kept, redo |-> <<>>]
    BY <1>2 DEF Pushed
<1>4. pushed \in Seq(Studio) /\ pushed # <<>> /\ Below(pushed, d.revision + 1)
    <2>1. pushed \in Seq(Studio) /\ Len(pushed) = Len(h.undo) + 1
        BY <1>1, AppendRows
    <2>2. pushed # <<>>
        BY <1>1, <2>1
    <2>3. Below(h.undo, d.revision)
        BY DEF HistoryBelow
    <2> QED BY <1>1, <2>1, <2>2, <2>3, BelowStacks
<1> HIDE DEF pushed
<1>5. Below(kept, d.revision + 1)
    BY <1>4, BelowTail
<1>6. Below(<<>>, d.revision + 1)
    BY DEF Below
<1> QED BY <1>3, <1>5, <1>6 DEF HistoryBelow

(* What replaces a history and a document keeps the new document newest,   *)
(* and their line unless it is a change, which ends it at the new document. *)
LEMMA FollowsKeeps ==
    ASSUME NEW h \in History, NEW d \in Studio, NEW past, NEW next,
           HistoryBelow(h, d.revision), next.revision = d.revision + 1,
           Follows(h, d, past, next)
    PROVE  /\ HistoryBelow(past, next.revision)
           /\ past.redo = <<>> \/ LineOf(past, next) = LineOf(h, d)
<1>1. /\ h.undo \in Seq(Studio) /\ h.redo \in Seq(Studio)
      /\ d.revision \in Nat /\ d.revision + 1 \in Nat
      /\ Below(h.undo, d.revision) /\ Below(h.redo, d.revision)
    BY DEF History, Studio, HistoryBelow
<1>2. CASE Changes(h, d, past, next)
    BY <1>2, PushRenews DEF Changes
<1>3. CASE Undoes(h, d, past, next)
    <2>1. /\ h.undo # <<>> /\ past.undo = Older(h.undo) /\ past.redo = Append(h.redo, d)
        BY <1>3 DEF Undoes, Undone
    <2>2. HistoryBelow(past, next.revision)
        BY <1>1, <2>1, BelowStacks DEF HistoryBelow
    <2>3. LineOf(past, next) = LineOf(h, d)
        BY <1>1, <1>3, UndoneLine DEF Undoes
    <2> QED BY <2>2, <2>3
<1>4. CASE Redoes(h, d, past, next)
    <2>1. /\ h.redo # <<>> /\ past.undo = Append(h.undo, d) /\ past.redo = Older(h.redo)
        BY <1>4 DEF Redoes, Redone
    <2>2. HistoryBelow(past, next.revision)
        BY <1>1, <2>1, BelowStacks DEF HistoryBelow
    <2>3. LineOf(past, next) = LineOf(h, d)
        BY <1>1, <1>4, RedoneLine DEF Redoes
    <2> QED BY <2>2, <2>3
<1> QED BY <1>2, <1>3, <1>4 DEF Follows

\* The steps that replace history and document, and those that leave them.
Moves ==
    \E past \in History, next \in Studio :
        /\ Follows(history, document, past, next)
        /\ next.revision = document.revision + 1
        /\ history' = past /\ document' = next /\ crashes' = crashes
Stays == history' = history /\ document' = document
Restarts == history' = Empty /\ document' \in Studio /\ crashes' # crashes

LEMMA StepMoves ==
    ASSUME StudioInv, TimelineInv, [Next]_vars
    PROVE  /\ Moves \/ Stays \/ Restarts
           /\ Idle' \/ Stays
           /\ ~Idle' => Follows(history, document, op'.history, op'.next)
<1>t. /\ document \in Studio /\ studioFile \in Studio /\ document.revision \in Nat
      /\ history \in History /\ crashes \in Nat
      /\ ~Idle => /\ op \in Operation /\ op.next \in Studio /\ op.history \in History
                  /\ op.next.revision = document.revision + 1
                  /\ Follows(history, document, op.history, op.next)
    BY DEF StudioInv, TypeOK, Studio, Idle, Operation, OpView, TimelineInv
<1>s. NoOp.step = "none"
    BY DEF NoOp
<1>1. ASSUME NEW kind, NEW next, NEW past, NEW step, Begin(kind, next, past, step),
             Follows(history, document, past, next)
      PROVE  Follows(history, document, op'.history, op'.next)
    BY <1>1 DEF Begin
<1>2. CASE BeginTake
    <2>1. Stays
        BY <1>2 DEF BeginTake, studio, Stays
    <2>2. Follows(history, document, op'.history, op'.next)
        BY <1>1, <1>2 DEF BeginTake, Follows, Changes
    <2> QED BY <2>1, <2>2
<1>3. CASE BeginUndo
    <2>1. Stays
        BY <1>3 DEF BeginUndo, studio, Stays
    <2>2. Follows(history, document, op'.history, op'.next)
        BY <1>1, <1>3 DEF BeginUndo, Follows, Undoes
    <2> QED BY <2>1, <2>2
<1>4. CASE BeginRedo
    <2>1. Stays
        BY <1>4 DEF BeginRedo, studio, Stays
    <2>2. Follows(history, document, op'.history, op'.next)
        BY <1>1, <1>4 DEF BeginRedo, Follows, Redoes
    <2> QED BY <2>1, <2>2
<1>5. CASE \E scene \in Scenes, audio \in Audio : BeginAudio(scene, audio)
    <2>1. Stays
        BY <1>5 DEF BeginAudio, studio, Stays
    <2>2. Follows(history, document, op'.history, op'.next)
        BY <1>1, <1>5 DEF BeginAudio, Follows, Changes
    <2> QED BY <2>1, <2>2
<1>6. CASE \E outcome \in Outcomes : Apply(outcome)
    <2>1. Stays /\ op.step = "apply"
        BY <1>6 DEF Apply, studio, Stays
    <2>2. op # NoOp
        BY <1>s, <2>1
    <2>3. op' = NoOp \/ op' = [op EXCEPT !.step = "save", !.applied = program.revision + 1]
        BY <1>6 DEF Apply
    <2>4. op' # NoOp => op'.history = op.history /\ op'.next = op.next
        BY <1>t, <2>2, <2>3 DEF Operation, Idle
    <2> QED BY <1>t, <2>1, <2>2, <2>4 DEF Idle
<1>7. CASE \E outcome \in Outcomes : Rollback(outcome)
    BY <1>7 DEF Rollback, studio, Stays, Idle
<1>8. CASE \E outcome \in SaveOutcomes : Save(outcome)
    <2>1. PICK outcome \in SaveOutcomes : Save(outcome)
        BY <1>8
    <2>2. op # NoOp
        BY <1>s, <2>1 DEF Save
    <2>3. CASE outcome = "saved"
        <3>1. history' = op.history /\ document' = op.next /\ crashes' = crashes /\ op' = NoOp
            BY <2>1, <2>3 DEF Save, KeptHistory
        <3> QED BY <1>t, <2>2, <3>1 DEF Moves, Idle
    <2>4. CASE outcome # "saved"
        <3>1. Stays
            BY <2>1, <2>4 DEF Save, KeptHistory, Stays
        <3>2. op' = NoOp \/ op' = [op EXCEPT !.step = "rollback"]
            BY <2>1 DEF Save
        <3>3. op' # NoOp => op'.history = op.history /\ op'.next = op.next
            BY <1>t, <2>2, <3>2 DEF Operation, Idle
        <3> QED BY <1>t, <2>2, <3>1, <3>3 DEF Idle
    <2> QED BY <2>3, <2>4
<1>9. CASE \E content \in Content, outcome \in Outcomes : PutScene(content, outcome)
    <2>1. UNCHANGED <<history, document, op>>
        BY <1>9 DEF PutScene, studio
    <2> QED BY <1>t, <2>1 DEF Stays, Idle
<1>10. CASE \E scene \in Scenes, content \in Content, preview \in Scenes,
              onair \in Scenes, outcome \in SaveOutcomes :
                SaveDocument(scene, content, preview, onair, outcome)
    <2>1. PICK scene \in Scenes, content \in Content, preview \in Scenes,
               onair \in Scenes, outcome \in SaveOutcomes :
                 SaveDocument(scene, content, preview, onair, outcome)
        BY <1>10
    <2> DEFINE next == [document EXCEPT !.revision = @ + 1, !.scenes[scene] = content,
                                        !.previewScene = preview, !.programScene = onair]
    <2>2. Idle' /\ crashes' = crashes
        BY <2>1 DEF SaveDocument, Idle
    <2>3. CASE outcome = "saved"
        <3>1. document' = next /\ history' = Pushed(history, document)
            BY <2>1, <2>3 DEF SaveDocument
        <3>2. next \in Studio /\ next.revision = document.revision + 1
            <4>1. /\ document \in Studio
                  /\ next = Saved(document, scene, content, preview, onair)
                BY <1>t DEF Saved
            <4> HIDE DEF next
            <4> QED BY <4>1, SaveUpdates
        <3>3. Pushed(history, document) \in History
            BY <1>t, PushKeeps DEF StudioInv, HistoriesBounded
        <3> HIDE DEF next
        <3> QED BY <2>2, <3>1, <3>2, <3>3 DEF Moves, Follows, Changes
    <2>4. CASE outcome # "saved"
        BY <2>1, <2>2, <2>4 DEF SaveDocument, Stays
    <2> QED BY <2>3, <2>4
<1>11. CASE Crash
    BY <1>11, <1>t DEF Crash, Restarts, Idle
<1>12. CASE UNCHANGED vars
    BY <1>12, <1>t DEF vars, Stays, Idle
<1> QED BY <1>2, <1>3, <1>4, <1>5, <1>6, <1>7, <1>8, <1>9, <1>10, <1>11, <1>12
        DEF Next, StudioStep

LEMMA TimelineStepKeeps ==
    ASSUME StudioInv, TimelineInv, [Next]_vars
    PROVE  TimelineInv'
<1>1. history \in History /\ document \in Studio /\ document.revision \in Nat
    BY DEF StudioInv, TypeOK, Studio
<1>2. HistoryBelow(history, document.revision)'
    <2>1. CASE Moves
        BY <1>1, <2>1, FollowsKeeps DEF Moves, TimelineInv
    <2>2. CASE Stays
        BY <2>2 DEF Stays, TimelineInv
    <2>3. CASE Restarts
        BY <2>3 DEF Restarts, Empty, HistoryBelow, Below
    <2> QED BY <2>1, <2>2, <2>3, StepMoves
<1>3. ~Idle' => Follows(history', document', op'.history, op'.next)
    BY StepMoves DEF Stays
<1> QED BY <1>2, <1>3 DEF TimelineInv

(* Undo and redo step along one line of states: a change that succeeds     *)
(* ends it at the new document, an operation that fails, at whichever of   *)
(* its calls, leaves it alone, and no other operation touches it.          *)
THEOREM TimelineNeverForks == Spec => TimelineKept
<1> DEFINE A == crashes' = crashes =>
                  \/ document' # document /\ history'.redo = <<>>
                  \/ Flat(Timeline') = Flat(Timeline)
<1>1. Init => TimelineInv
    BY DEF Init, TimelineInv, Idle, Empty, HistoryBelow, Below
<1>2. StudioInv /\ TimelineInv /\ [Next]_vars => TimelineInv'
    BY TimelineStepKeeps
<1>3. StudioInv /\ TimelineInv /\ [Next]_vars => [A]_vars
    <2> SUFFICES ASSUME StudioInv, TimelineInv, [Next]_vars, crashes' = crashes
                 PROVE  \/ document' # document /\ history'.redo = <<>>
                        \/ Flat(Timeline') = Flat(Timeline)
        OBVIOUS
    <2>1. history \in History /\ document \in Studio /\ document.revision \in Nat
        BY DEF StudioInv, TypeOK, Studio
    <2>2. CASE Moves
        <3>1. PICK past \in History, next \in Studio :
                /\ Follows(history, document, past, next)
                /\ next.revision = document.revision + 1
                /\ history' = past /\ document' = next
            BY <2>2 DEF Moves
        <3>2. document' # document
            BY <2>1, <3>1
        <3>3. past.redo = <<>> \/ LineOf(past, next) = LineOf(history, document)
            BY <2>1, <3>1, FollowsKeeps DEF TimelineInv
        <3>4. Flat(Timeline) = LineOf(history, document)
            BY <2>1, FlatLine DEF Timeline, TimelineOf
        <3>5. Flat(Timeline') = LineOf(history', document')
            <4>1. history' \in History /\ document' \in Studio
                BY <3>1
            <4>2. Timeline' = TimelineOf(history', document')
                BY DEF Timeline, TimelineOf
            <4> QED BY <4>1, <4>2, FlatLine
        <3> QED BY <3>1, <3>2, <3>3, <3>4, <3>5
    <2>3. CASE Stays
        BY <2>3 DEF Stays, Timeline
    <2> QED BY <2>2, <2>3, StepMoves DEF Restarts
<1> QED BY <1>1, <1>2, <1>3, StudioInvariant, PTL DEF Spec, TimelineKept

-----------------------------------------------------------------------------
(* The page (StudioPage).  PageInv is inductive: every document the page   *)
(* edits, keeps, sends or has been sent belongs to the revision it names,  *)
(* but for edits the page has shown.                                       *)

(* What stands for nothing, and the answer 412, are no documents, requests *)
(* or loads.                                                               *)
LEMMA PageNames ==
    /\ None \notin Page!Doc /\ Conflict \notin Page!Doc /\ Conflict # None
    /\ None \notin Page!Request /\ None \notin Page!Load /\ None \notin Page!Sources
    /\ None \notin {"server", "device", "profile"}
    BY PageAssumption DEF Page!Sources

\* What belonged to its revision still does, and what was shown was shown.
Grows == /\ Page!Covered \subseteq Page!Covered' /\ Page!Exact \subseteq Page!Exact'
         /\ Page!Shown \subseteq Page!Shown'

(* The server only adds revisions, the page only shows more.               *)
LEMMA LogGrows ==
    ASSUME Page!TypeOK, p_seen \subseteq p_seen',
           p_log' = p_log \/ \E val : p_log' = Append(p_log, val)
    PROVE  Grows
<1>1. p_log \in Seq(SUBSET Page!Edits)
    BY DEF Page!TypeOK
<1>2. ASSUME NEW rev \in Nat, rev < Len(p_log)
      PROVE  rev < Len(p_log') /\ p_log'[rev + 1] = p_log[rev + 1]
    <2>1. rev + 1 \in 1..Len(p_log)
        BY <1>1, <1>2
    <2>2. CASE p_log' = p_log
        BY <1>2, <2>2
    <2>3. CASE \E val : p_log' = Append(p_log, val)
        <3>1. PICK val : p_log' = Append(p_log, val)
            BY <2>3
        <3>2. Len(p_log') = Len(p_log) + 1 /\ \A i \in 1..Len(p_log) : p_log'[i] = p_log[i]
            BY <1>1, <3>1
        <3> QED BY <1>1, <1>2, <2>1, <3>2
    <2> QED BY <2>2, <2>3
<1>3. \A doc \in Page!Doc : doc.rev \in Nat
    BY DEF Page!Doc
<1>4. Page!Covered \subseteq Page!Covered'
    BY <1>2, <1>3 DEF Page!Covered
<1>5. Page!Exact \subseteq Page!Exact'
    BY <1>2, <1>3 DEF Page!Exact
<1>6. Page!Shown \subseteq Page!Shown'
    BY DEF Page!Shown
<1> QED BY <1>4, <1>5, <1>6 DEF Grows

(* A document with the server's content belongs to its revision; one that  *)
(* is all shown, put in the place of one that belongs, belongs too.        *)
LEMMA ExactCovers == Page!Exact \subseteq Page!Covered /\ Page!Covered \subseteq Page!Doc
    BY DEF Page!Exact, Page!Covered

(* The server's Studio at this moment.                                     *)
LEMMA CurrentExact ==
    ASSUME Page!TypeOK
    PROVE  Page!Current \in Page!Exact /\ Page!Current.rev = Len(p_log) - 1
           /\ Page!Current.val = p_log[Len(p_log)]
<1>1. p_log \in Seq(SUBSET Page!Edits) /\ p_log # <<>>
    BY DEF Page!TypeOK
<1>2. Len(p_log) \in Nat /\ Len(p_log) >= 1 /\ p_log[Len(p_log)] \in SUBSET Page!Edits
    <2>1. Len(p_log) \in Nat /\ Len(p_log) >= 1
        BY <1>1, EmptySeq
    <2> QED BY <1>1, <2>1
<1>3. Page!Current = [rev |-> Len(p_log) - 1, val |-> p_log[Len(p_log)]]
    BY DEF Page!Current, Page!Last
<1>4. Len(p_log) - 1 \in Nat /\ Len(p_log) - 1 < Len(p_log) /\ Len(p_log) - 1 + 1 = Len(p_log)
    BY <1>2
<1>5. Page!Current \in Page!Doc
    BY <1>2, <1>3, <1>4 DEF Page!Doc, Page!Edits
<1> QED BY <1>3, <1>4, <1>5 DEF Page!Exact

(* A load or an answer shows a document of its place.                      *)
LEMMA AppliedHolds ==
    ASSUME Page!TypeOK, Page!DocumentsCovered, Grows, NEW doc \in Page!Covered', NEW from \in Page!Sources,
           from = "server" => doc \in Page!Exact', Page!applyRemoteStudio(doc, from),
           p_layout' = p_layout, p_profile' = p_profile, p_snapshot' \in Page!Covered' \cup {None}
    PROVE  /\ Page!DocumentsCovered' /\ doc \in Page!Doc
           /\ p_studioBaseline' = doc /\ p_studioDraft' = doc /\ p_conflict' \in BOOLEAN
           /\ p_origin' = [base |-> from, draft |-> from]
           /\ p_seen' \subseteq Page!Edits
<1>1. /\ p_studioBaseline' = doc /\ p_studioDraft' = doc /\ p_conflict' = FALSE
      /\ p_origin' = [base |-> from, draft |-> from] /\ p_seen' = p_seen \cup doc.val
    BY DEF Page!applyRemoteStudio
<1>2. doc \in Page!Doc
    BY DEF Page!Covered
<1>3. doc.val \subseteq Page!Edits
    BY <1>2 DEF Page!Doc, Page!Edits
<1>4. doc \in Page!Shown'
    BY <1>1, <1>2 DEF Page!Shown
<1>5. Page!DocumentsCovered'
    BY <1>1, <1>4 DEF Page!DocumentsCovered, Grows
<1> QED BY <1>1, <1>2, <1>3, <1>5 DEF Page!TypeOK

(* Documents nothing touched belong as before.                             *)
LEMMA DocumentsKept ==
    ASSUME Page!DocumentsCovered, Grows, UNCHANGED <<p_snapshot, p_layout, p_studioBaseline, p_studioDraft, p_profile, p_origin>>
    PROVE  Page!DocumentsCovered'
BY DEF Page!DocumentsCovered, Grows

(* So does a request that is under way, or gone.                           *)
LEMMA RequestKept ==
    ASSUME Page!RequestCovered, Grows, p_request' \in {p_request, None}
    PROVE  Page!RequestCovered'
<1>1. CASE p_request' = None
    BY <1>1 DEF Page!RequestCovered
<1>2. CASE p_request' = p_request
    BY <1>2 DEF Page!RequestCovered, Grows
<1> QED BY <1>1, <1>2

(* And loads that are under way, or end.                                   *)
LEMMA LoadsKept ==
    ASSUME Page!LoadsCovered, Grows, \A k \in Page!Kinds : p_loads'[k] \in {p_loads[k], None},
           UNCHANGED <<p_paired, p_layout>>, p_snapshot # None => p_snapshot' # None
    PROVE  Page!LoadsCovered'
<1>1. Page!cache # None => Page!cache' # None
    BY DEF Page!cache
<1>2. SUFFICES ASSUME NEW k \in Page!Kinds, p_loads'[k] # None
               PROVE  /\ k = "device" => p_loads'[k].at = "start" /\ Page!cache' # None
                      /\ p_loads'[k].at = "fetched" => p_loads'[k].doc \in Page!Exact'
                      /\ p_loads'[k].at = "storing" => k = "reload" /\ p_loads'[k].doc \in Page!Covered'
    BY DEF Page!LoadsCovered
<1>3. p_loads'[k] = p_loads[k]
    BY <1>2
<1> QED BY <1>1, <1>2, <1>3 DEF Page!LoadsCovered, Grows

(* Counting what was spent.                                                *)
LEMMA SpendTypes ==
    ASSUME Page!TypeOK, NEW what \in {"typed", "others", "loads", "actions", "failures"}, Page!Spend(what)
    PROVE  p_spent' \in [{"typed", "others", "loads", "actions", "failures"} -> Nat]
<1>1. p_spent \in [{"typed", "others", "loads", "actions", "failures"} -> Nat]
    BY DEF Page!TypeOK
<1>2. p_spent' = [p_spent EXCEPT ![what] = p_spent[what] + 1]
    BY DEF Page!Spend
<1> QED BY <1>1, <1>2

(* What a step that only lets requests and loads end leaves in order.      *)
LEMMA QuietHolds ==
    ASSUME Page!PageInv,
           UNCHANGED <<p_log, p_past, p_future, p_paired, p_snapshot, p_layout, p_profile, p_studioBaseline, p_studioDraft,
                       p_activeLocalProfile, p_deviceWorkspace, p_origin, p_overlapped, p_seen>>,
           {p_queued', p_deviceFlag', p_activeId', p_conflict'} \subseteq BOOLEAN,
           p_connection' \in {"connecting", "online", "offline"},
           p_spent' \in [{"typed", "others", "loads", "actions", "failures"} -> Nat],
           p_request' \in {p_request, None}, p_loads' \in [Page!Kinds -> Page!Load \cup {None}],
           \A k \in Page!Kinds : p_loads'[k] \in {p_loads[k], None}
    PROVE  Page!PageInv'
<1>1. Page!TypeOK /\ Page!DocumentsCovered /\ Page!RequestCovered /\ Page!LoadsCovered /\ Page!ModesTell
    BY DEF Page!PageInv
<1>2. Grows
    BY <1>1, LogGrows
<1>3. Page!TypeOK'
    BY <1>1 DEF Page!TypeOK
<1>4. Page!DocumentsCovered' /\ Page!RequestCovered' /\ Page!LoadsCovered'
    BY <1>1, <1>2, DocumentsKept, RequestKept, LoadsKept
<1>5. Page!ModesTell'
    <2>1. "reload" \in Page!Kinds
        BY DEF Page!Kinds
    <2> QED BY <1>1, <2>1 DEF Page!ModesTell, Page!saving, Page!Loading
<1> QED BY <1>3, <1>4, <1>5 DEF Page!PageInv

(* The types after a document was applied.                                 *)
LEMMA AppliedTypes ==
    ASSUME Page!TypeOK, NEW doc \in Page!Doc, NEW from \in Page!Sources,
           p_studioBaseline' = doc, p_studioDraft' = doc, p_origin' = [base |-> from, draft |-> from],
           p_seen' \subseteq Page!Edits, UNCHANGED <<p_log, p_past, p_future, p_paired, p_layout, p_profile, p_queued>>,
           {p_deviceFlag', p_activeId', p_activeLocalProfile', p_deviceWorkspace', p_conflict', p_overlapped'} \subseteq BOOLEAN,
           p_snapshot' \in Page!Doc \cup {None}, p_connection' \in {"connecting", "online", "offline"},
           p_spent' \in [{"typed", "others", "loads", "actions", "failures"} -> Nat],
           p_request' \in {p_request, None}, p_loads' \in [Page!Kinds -> Page!Load \cup {None}]
    PROVE  Page!TypeOK'
<1>1. doc # None /\ from # None
    BY PageNames
<1>2. p_origin' \in [base : Page!Sources \cup {None}, draft : Page!Sources \cup {None}]
      /\ None \notin {p_origin'.base, p_origin'.draft}
    BY <1>1
<1>3. p_request' \in Page!Request \cup {None}
    BY DEF Page!TypeOK
<1>4. p_studioBaseline' # None /\ p_studioDraft' # None
    BY <1>1
<1>5. {p_snapshot', p_layout', p_studioBaseline', p_studioDraft'} \subseteq Page!Doc \cup {None} /\ p_profile' \in Page!Doc
    BY DEF Page!TypeOK
<1>6. {p_paired', p_queued', p_deviceFlag', p_activeId', p_activeLocalProfile', p_deviceWorkspace', p_conflict', p_overlapped'}
        \subseteq BOOLEAN
    BY DEF Page!TypeOK
<1>7. p_log' \in Seq(SUBSET Page!Edits) \ {<<>>} /\ {p_past', p_future'} \subseteq Seq(SUBSET Page!Edits)
    BY DEF Page!TypeOK
<1> QED BY <1>2, <1>3, <1>4, <1>5, <1>6, <1>7 DEF Page!TypeOK, Page!Edits, Page!Sources, Page!Doc, Page!Kinds, Page!Load, Page!Request,
                                                 Page!Typed, Page!Others

(* A document is applied, and a request or a load ends with it.            *)
LEMMA ApplyHolds ==
    ASSUME Page!PageInv, NEW doc \in Page!Covered, NEW from \in Page!Sources, from = "server" => doc \in Page!Exact,
           Page!applyRemoteStudio(doc, from), UNCHANGED <<p_log, p_past, p_future, p_paired, p_layout, p_profile, p_queued>>,
           {p_deviceFlag', p_activeId', p_activeLocalProfile', p_deviceWorkspace', p_overlapped'} \subseteq BOOLEAN,
           p_snapshot' \in Page!Covered \cup {None}, p_snapshot # None => p_snapshot' # None,
           p_connection' \in {"connecting", "online", "offline"},
           p_spent' \in [{"typed", "others", "loads", "actions", "failures"} -> Nat],
           p_request' \in {p_request, None}, p_loads' \in [Page!Kinds -> Page!Load \cup {None}],
           \A k \in Page!Kinds : p_loads'[k] \in {p_loads[k], None},
           p_overlapped => p_overlapped',
           ~p_overlapped' => /\ ~p_activeLocalProfile' /\ ~p_deviceWorkspace' => from = "server"
                             /\ p_loads'["reload"] # None /\ p_loads'["reload"].at = "storing" => p_deviceWorkspace'
    PROVE  Page!PageInv'
<1>1. Page!TypeOK /\ Page!DocumentsCovered /\ Page!RequestCovered /\ Page!LoadsCovered /\ Page!ModesTell
    BY DEF Page!PageInv
<1>2. p_seen' = p_seen \cup doc.val
    BY DEF Page!applyRemoteStudio
<1>3. Grows
    BY <1>1, <1>2, LogGrows
<1>4. doc \in Page!Covered' /\ (from = "server" => doc \in Page!Exact') /\ p_snapshot' \in Page!Covered' \cup {None}
    BY <1>3 DEF Grows
<1>5. /\ Page!DocumentsCovered' /\ doc \in Page!Doc
      /\ p_studioBaseline' = doc /\ p_studioDraft' = doc /\ p_conflict' \in BOOLEAN
      /\ p_origin' = [base |-> from, draft |-> from] /\ p_seen' \subseteq Page!Edits
    BY <1>1, <1>3, <1>4, AppliedHolds
<1>6. Page!TypeOK'
    <2>1. p_snapshot' \in Page!Doc \cup {None}
        BY ExactCovers
    <2> QED BY <1>1, <1>5, <2>1, AppliedTypes
<1>7. Page!RequestCovered' /\ Page!LoadsCovered'
    BY <1>1, <1>3, RequestKept, LoadsKept
<1>8. Page!ModesTell'
    <2>1. /\ "reload" \in Page!Kinds
          /\ ~p_overlapped' => ~p_overlapped
          /\ from \in {"server", "device", "profile"}
        BY DEF Page!Kinds, Page!Sources
    <2>2. CASE p_overlapped'
        BY <2>2 DEF Page!ModesTell
    <2>3. CASE ~p_overlapped'
        <3>1. /\ ~(Page!saving' /\ Page!Loading')
              /\ \A j, k \in Page!Kinds : p_loads'[j] # None /\ p_loads'[k] # None => j = k
            BY <1>1, <2>1, <2>3 DEF Page!ModesTell, Page!saving, Page!Loading
        <3>2. ~p_activeLocalProfile' /\ ~p_deviceWorkspace' => p_origin' = [base |-> "server", draft |-> "server"]
            BY <1>5, <2>3
        <3>3. Page!saving' /\ p_request'.kind = "server" => p_request'.from = "server"
            BY <1>1, <2>1, <2>3 DEF Page!ModesTell, Page!saving
        <3> QED BY <2>1, <2>3, <3>1, <3>2, <3>3 DEF Page!ModesTell
    <2> QED BY <2>2, <2>3
<1> QED BY <1>5, <1>6, <1>7, <1>8 DEF Page!PageInv

-----------------------------------------------------------------------------
(* One lemma for each action of the page, the server or the answers.       *)

(* The steps that touch no document and only let a request or load end.    *)
LEMMA QuietSteps ==
    ASSUME Page!PageInv, Page!SceneConnection \/ Page!QueueSynced \/ Page!RequestFails \/ Page!AnswerConflict \/ Page!ReturnFails
    PROVE  Page!PageInv'
<1>1. Page!TypeOK
    BY DEF Page!PageInv
<1>2. /\ p_spent \in [{"typed", "others", "loads", "actions", "failures"} -> Nat] /\ p_connection \in {"connecting", "online", "offline"}
      /\ {p_queued, p_deviceFlag, p_activeId, p_conflict} \subseteq BOOLEAN
      /\ p_loads \in [Page!Kinds -> Page!Load \cup {None}] /\ "return" \in Page!Kinds
    BY <1>1 DEF Page!TypeOK, Page!Kinds
<1>3. \A k \in Page!Kinds : p_loads[k] \in {p_loads[k], None}
    OBVIOUS
<1>4. CASE Page!SceneConnection
    BY <1>2, <1>3, <1>4, QuietHolds DEF Page!SceneConnection, Page!server, Page!local, Page!device, Page!history
<1>5. CASE Page!QueueSynced
    BY <1>2, <1>3, <1>5, QuietHolds DEF Page!QueueSynced, Page!server, Page!page, Page!history
<1>6. CASE Page!RequestFails
    <2>1. p_spent' \in [{"typed", "others", "loads", "actions", "failures"} -> Nat]
        BY <1>1, <1>2, <1>6, SpendTypes DEF Page!RequestFails
    <2> QED BY <1>2, <1>3, <1>6, <2>1, QuietHolds DEF Page!RequestFails, Page!server, Page!local, Page!device, Page!page, Page!history
<1>7. CASE Page!AnswerConflict
    <2>1. p_conflict' \in BOOLEAN
        BY <1>2, <1>7 DEF Page!AnswerConflict
    <2> QED BY <1>2, <1>3, <1>7, <2>1, QuietHolds DEF Page!AnswerConflict, Page!server, Page!local, Page!device, Page!history
<1>8. CASE Page!ReturnFails
    <2>1. p_spent' \in [{"typed", "others", "loads", "actions", "failures"} -> Nat]
        BY <1>1, <1>8, SpendTypes DEF Page!ReturnFails
    <2>2. p_loads' = [p_loads EXCEPT !["return"] = None]
        BY <1>8 DEF Page!ReturnFails, Page!Finish
    <2>3. p_loads' \in [Page!Kinds -> Page!Load \cup {None}] /\ \A k \in Page!Kinds : p_loads'[k] \in {p_loads[k], None}
        BY <1>2, <2>2
    <2> QED BY <1>2, <1>8, <2>1, <2>3, QuietHolds DEF Page!ReturnFails, Page!server, Page!local, Page!device, Page!page, Page!history
<1> QED BY <1>4, <1>5, <1>6, <1>7, <1>8

(* Finishing a load.                                                       *)
LEMMA FinishTypes ==
    ASSUME Page!TypeOK, NEW kind \in Page!Kinds, Page!Finish(kind)
    PROVE  /\ p_loads' \in [Page!Kinds -> Page!Load \cup {None}] /\ p_loads'[kind] = None
           /\ \A k \in Page!Kinds : p_loads'[k] \in {p_loads[k], None}
<1>1. p_loads \in [Page!Kinds -> Page!Load \cup {None}] /\ p_loads' = [p_loads EXCEPT ![kind] = None]
    BY DEF Page!TypeOK, Page!Finish
<1> QED BY <1>1

(* The documents of the device belong to their revisions.                  *)
LEMMA CacheCovered ==
    ASSUME Page!DocumentsCovered, Page!cache # None
    PROVE  Page!cache \in Page!Covered
BY DEF Page!DocumentsCovered, Page!cache

LEMMA TypeHolds ==
    ASSUME Page!PageInv, Page!Type
    PROVE  Page!PageInv'
<1>1. Page!TypeOK /\ Page!DocumentsCovered /\ Page!RequestCovered /\ Page!LoadsCovered /\ Page!ModesTell
    BY DEF Page!PageInv
<1>2. /\ p_studioDraft # None /\ Page!May("typed", MaxEdits) /\ Page!Spend("typed")
      /\ p_studioDraft' = [p_studioDraft EXCEPT !.val = @ \cup {<<"typed", p_spent.typed + 1>>}]
      /\ UNCHANGED <<p_log, p_past, p_future, p_paired, p_snapshot, p_layout, p_queued, p_deviceFlag, p_activeId, p_profile,
                     p_studioBaseline, p_activeLocalProfile, p_deviceWorkspace, p_connection, p_conflict, p_request, p_loads,
                     p_origin, p_overlapped, p_seen>>
    BY DEF Page!Type, Page!server, Page!local, Page!device, Page!history
<1>3. Grows
    BY <1>1, <1>2, LogGrows
<1>4. p_spent' \in [{"typed", "others", "loads", "actions", "failures"} -> Nat]
    BY <1>1, <1>2, SpendTypes
<1>5. <<"typed", p_spent.typed + 1>> \in Page!Typed /\ <<"typed", p_spent.typed + 1>> \notin Page!Others
    <2>1. p_spent.typed \in Nat /\ MaxEdits \in Nat /\ p_spent.typed < MaxEdits
        BY <1>1, <1>2, PageAssumption DEF Page!TypeOK, Page!May
    <2>2. p_spent.typed + 1 \in 1..MaxEdits
        BY <2>1
    <2> QED BY <2>2 DEF Page!Typed, Page!Others
<1>6. /\ p_studioDraft \in Page!Covered \cap Page!Shown /\ p_studioDraft \in Page!Doc
    BY <1>1, <1>2 DEF Page!DocumentsCovered, Page!Covered
<1>7. /\ p_studioDraft' \in Page!Doc /\ p_studioDraft'.rev = p_studioDraft.rev
      /\ p_studioDraft'.val = p_studioDraft.val \cup {<<"typed", p_spent.typed + 1>>}
    BY <1>2, <1>5, <1>6 DEF Page!Doc
<1>8. p_studioDraft' \in Page!Covered' \cap Page!Shown'
    BY <1>2, <1>5, <1>6, <1>7 DEF Page!Covered, Page!Shown
<1>9. Page!TypeOK'
    <2>1. p_studioDraft' # None
        BY <1>7, PageNames
    <2>2. {p_snapshot, p_layout, p_studioBaseline, p_studioDraft}' \subseteq Page!Doc \cup {None} /\ p_profile' \in Page!Doc
        BY <1>1, <1>2, <1>7 DEF Page!TypeOK
    <2>3. /\ p_studioDraft' = None <=> p_studioBaseline' = None
          /\ p_request' # None => p_studioDraft' # None
          /\ p_studioDraft' # None => None \notin {p_origin.base, p_origin.draft}'
        BY <1>1, <1>2, <2>1 DEF Page!TypeOK
    <2>4. /\ p_log' \in Seq(SUBSET Page!Edits) \ {<<>>} /\ {p_past, p_future}' \subseteq Seq(SUBSET Page!Edits)
          /\ p_request' \in Page!Request \cup {None} /\ p_loads' \in [Page!Kinds -> Page!Load \cup {None}]
          /\ p_connection' \in {"connecting", "online", "offline"}
          /\ p_origin' \in [base : Page!Sources \cup {None}, draft : Page!Sources \cup {None}]
          /\ p_seen' \subseteq Page!Edits
        BY <1>1, <1>2 DEF Page!TypeOK
    <2>5. {p_paired, p_queued, p_deviceFlag, p_activeId, p_activeLocalProfile, p_deviceWorkspace, p_conflict, p_overlapped}'
            \subseteq BOOLEAN
        BY <1>1, <1>2 DEF Page!TypeOK
    <2> QED BY <1>4, <2>2, <2>3, <2>4, <2>5 DEF Page!TypeOK
<1>10. Page!DocumentsCovered'
    BY <1>1, <1>2, <1>3, <1>8 DEF Page!DocumentsCovered, Grows
<1>11. Page!RequestCovered' /\ Page!LoadsCovered'
    <2>1. \A k \in Page!Kinds : p_loads'[k] \in {p_loads[k], None}
        BY <1>2
    <2> QED BY <1>1, <1>2, <1>3, <2>1, RequestKept, LoadsKept
<1>12. Page!ModesTell'
    BY <1>1, <1>2 DEF Page!ModesTell, Page!saving, Page!Loading
<1> QED BY <1>9, <1>10, <1>11, <1>12 DEF Page!PageInv

LEMMA DiscardHolds ==
    ASSUME Page!PageInv, Page!Discard
    PROVE  Page!PageInv'
<1>1. Page!TypeOK /\ Page!DocumentsCovered /\ Page!ModesTell
    BY DEF Page!PageInv
<1>2. /\ p_studioBaseline # None /\ Page!applyRemoteStudio(p_studioBaseline, p_origin.base)
      /\ UNCHANGED <<p_log, p_past, p_future, p_paired, p_snapshot, p_layout, p_queued, p_deviceFlag, p_activeId, p_profile,
                     p_activeLocalProfile, p_deviceWorkspace, p_connection, p_request, p_loads, p_overlapped, p_spent>>
    BY DEF Page!Discard, Page!dirty, Page!server, Page!local, Page!device
<1>3. p_studioDraft # None /\ p_origin.base \in Page!Sources
    BY <1>1, <1>2 DEF Page!TypeOK
<1>4. p_studioBaseline \in Page!Covered /\ (p_origin.base = "server" => p_studioBaseline \in Page!Exact)
      /\ p_snapshot' \in Page!Covered \cup {None}
    BY <1>1, <1>2 DEF Page!DocumentsCovered
<1>5. /\ {p_deviceFlag', p_activeId', p_activeLocalProfile', p_deviceWorkspace', p_overlapped'} \subseteq BOOLEAN
      /\ p_connection' \in {"connecting", "online", "offline"}
      /\ p_spent' \in [{"typed", "others", "loads", "actions", "failures"} -> Nat]
      /\ p_loads' \in [Page!Kinds -> Page!Load \cup {None}] /\ \A k \in Page!Kinds : p_loads'[k] \in {p_loads[k], None}
    BY <1>1, <1>2 DEF Page!TypeOK
<1>6. ~p_overlapped' => /\ ~p_activeLocalProfile' /\ ~p_deviceWorkspace' => p_origin.base = "server"
                        /\ p_loads'["reload"] # None /\ p_loads'["reload"].at = "storing" => p_deviceWorkspace'
    BY <1>1, <1>2, <1>3 DEF Page!ModesTell
<1> QED BY <1>2, <1>3, <1>4, <1>5, <1>6, ApplyHolds

(* A commit adds one revision, with its content.                           *)
LEMMA CommitAdds ==
    ASSUME Page!TypeOK, NEW val \in SUBSET Page!Edits, NEW undo \in Seq(SUBSET Page!Edits), NEW redo \in Seq(SUBSET Page!Edits),
           Page!Commit(val, undo, redo)
    PROVE  /\ p_log' = Append(p_log, val) /\ p_log' \in Seq(SUBSET Page!Edits) \ {<<>>}
           /\ {p_past', p_future'} \subseteq Seq(SUBSET Page!Edits)
           /\ [rev |-> Page!Current.rev + 1, val |-> val] \in Page!Exact'
           /\ Page!Last(p_log') = val
<1>1. p_log \in Seq(SUBSET Page!Edits) /\ p_log' = Append(p_log, val) /\ p_past' = undo /\ p_future' = redo
    BY DEF Page!TypeOK, Page!Commit
<1>2. /\ p_log' \in Seq(SUBSET Page!Edits) /\ Len(p_log') = Len(p_log) + 1 /\ p_log'[Len(p_log) + 1] = val
      /\ Len(p_log) \in Nat
    BY <1>1
<1>3. p_log' # <<>>
    BY <1>2
<1>4. Page!Current.rev + 1 = Len(p_log)
    <2>1. Page!Current.rev = Len(p_log) - 1
        BY CurrentExact
    <2> QED BY <1>2, <2>1
<1>5. [rev |-> Len(p_log), val |-> val] \in Page!Doc
    BY <1>2 DEF Page!Doc, Page!Edits
<1>6. [rev |-> Len(p_log), val |-> val] \in Page!Exact'
    BY <1>2, <1>5 DEF Page!Exact
<1>7. Page!Last(p_log') = val
    BY <1>2 DEF Page!Last
<1> QED BY <1>1, <1>2, <1>3, <1>4, <1>6, <1>7

(* The ends of the server's log and stacks.                                *)
LEMMA StackTypes ==
    ASSUME Page!TypeOK
    PROVE  /\ Page!Last(p_log) \in SUBSET Page!Edits
           /\ Append(p_past, Page!Last(p_log)) \in Seq(SUBSET Page!Edits)
           /\ Append(p_future, Page!Last(p_log)) \in Seq(SUBSET Page!Edits)
           /\ p_past # <<>> => Page!Last(p_past) \in SUBSET Page!Edits /\ Page!Front(p_past) \in Seq(SUBSET Page!Edits)
           /\ p_future # <<>> => Page!Last(p_future) \in SUBSET Page!Edits /\ Page!Front(p_future) \in Seq(SUBSET Page!Edits)
<1>1. p_log \in Seq(SUBSET Page!Edits) /\ p_log # <<>> /\ p_past \in Seq(SUBSET Page!Edits) /\ p_future \in Seq(SUBSET Page!Edits)
    BY DEF Page!TypeOK
<1>2. ASSUME NEW s \in Seq(SUBSET Page!Edits), s # <<>>
      PROVE  Page!Last(s) \in SUBSET Page!Edits /\ Page!Front(s) \in Seq(SUBSET Page!Edits)
    <2>1. Len(s) \in Nat /\ Len(s) >= 1
        BY <1>2, EmptySeq
    <2>2. Page!Last(s) = s[Len(s)] /\ Page!Front(s) = SubSeq(s, 1, Len(s) - 1)
        BY DEF Page!Last, Page!Front
    <2>3. s[Len(s)] \in SUBSET Page!Edits
        BY <2>1
    <2>4. SubSeq(s, 1, Len(s) - 1) \in Seq(SUBSET Page!Edits)
        BY <2>1
    <2> QED BY <2>2, <2>3, <2>4
<1>3. Page!Last(p_log) \in SUBSET Page!Edits
    BY <1>1, <1>2
<1>4. Append(p_past, Page!Last(p_log)) \in Seq(SUBSET Page!Edits) /\ Append(p_future, Page!Last(p_log)) \in Seq(SUBSET Page!Edits)
    BY <1>1, <1>3
<1> QED BY <1>1, <1>2, <1>3, <1>4

LEMMA OtherSavesHolds ==
    ASSUME Page!PageInv, Page!OtherOperatorSaves
    PROVE  Page!PageInv'
<1>1. Page!TypeOK /\ Page!DocumentsCovered /\ Page!RequestCovered /\ Page!LoadsCovered /\ Page!ModesTell
    BY DEF Page!PageInv
<1> DEFINE val == Page!Last(p_log) \cup {<<"other", p_spent.others + 1>>}
<1>2. /\ Page!May("others", MaxOthers) /\ Page!Spend("others") /\ Page!Commit(val, Append(p_past, Page!Last(p_log)), <<>>)
      /\ UNCHANGED <<p_paired, p_snapshot, p_layout, p_queued, p_deviceFlag, p_activeId, p_profile, p_studioBaseline, p_studioDraft,
                     p_activeLocalProfile, p_deviceWorkspace, p_connection, p_conflict, p_request, p_loads, p_origin,
                     p_overlapped, p_seen>>
    BY DEF Page!OtherOperatorSaves, Page!replaceStudio, Page!local, Page!device, Page!page, Page!history
<1>3. val \in SUBSET Page!Edits
    <2>1. p_spent.others \in Nat /\ MaxOthers \in Nat /\ p_spent.others < MaxOthers
        BY <1>1, <1>2, PageAssumption DEF Page!TypeOK, Page!May
    <2>2. p_spent.others + 1 \in 1..MaxOthers
        BY <2>1
    <2>3. <<"other", p_spent.others + 1>> \in Page!Edits
        BY <2>2 DEF Page!Others, Page!Edits
    <2> QED BY <1>1, <2>3, StackTypes
<1>4. <<>> \in Seq(SUBSET Page!Edits) /\ Append(p_past, Page!Last(p_log)) \in Seq(SUBSET Page!Edits)
    BY <1>1, StackTypes
<1> HIDE DEF val
<1>5. /\ p_log' = Append(p_log, val) /\ p_log' \in Seq(SUBSET Page!Edits) \ {<<>>}
      /\ {p_past', p_future'} \subseteq Seq(SUBSET Page!Edits)
    BY <1>1, <1>2, <1>3, <1>4, CommitAdds
<1>6. Grows
    BY <1>1, <1>2, <1>5, LogGrows
<1>7. p_spent' \in [{"typed", "others", "loads", "actions", "failures"} -> Nat]
    BY <1>1, <1>2, SpendTypes
<1>8. Page!TypeOK'
    BY <1>1, <1>2, <1>5, <1>7 DEF Page!TypeOK
<1>9. Page!DocumentsCovered' /\ Page!RequestCovered' /\ Page!LoadsCovered'
    <2>1. \A k \in Page!Kinds : p_loads'[k] \in {p_loads[k], None}
        BY <1>2
    <2> QED BY <1>1, <1>2, <1>6, <2>1, DocumentsKept, RequestKept, LoadsKept
<1>10. Page!ModesTell'
    BY <1>1, <1>2 DEF Page!ModesTell, Page!saving, Page!Loading
<1> QED BY <1>8, <1>9, <1>10 DEF Page!PageInv

(* A request is asked with a document that belongs to its revision.        *)
LEMMA AskHolds ==
    ASSUME Page!PageInv, NEW kind \in {"profile", "device", "server", "take", "undo", "redo", "copy"}, NEW doc \in Page!Covered,
           Page!Ask(kind, doc), p_request = None, p_studioDraft # None,
           kind = "copy" => p_studioDraft.val \subseteq doc.val, kind # "copy" => doc \in Page!Shown,
           kind = "server" => ~p_activeLocalProfile /\ ~p_deviceWorkspace,
           UNCHANGED <<p_log, p_past, p_future, p_paired, p_snapshot, p_layout, p_queued, p_deviceFlag, p_activeId, p_profile,
                       p_studioBaseline, p_studioDraft, p_activeLocalProfile, p_deviceWorkspace, p_connection, p_conflict,
                       p_loads, p_origin, p_seen>>,
           p_spent' \in [{"typed", "others", "loads", "actions", "failures"} -> Nat]
    PROVE  Page!PageInv'
<1>1. Page!TypeOK /\ Page!DocumentsCovered /\ Page!RequestCovered /\ Page!LoadsCovered /\ Page!ModesTell
    BY DEF Page!PageInv
<1>2. /\ p_request' = [kind |-> kind, doc |-> doc, base |-> p_studioDraft, from |-> p_origin.draft, reply |-> None]
      /\ p_overlapped' = (p_overlapped \/ Page!Loading)
    BY DEF Page!Ask, Page!Overlap
<1>3. /\ p_studioDraft \in Page!Doc /\ p_origin.draft \in Page!Sources /\ doc \in Page!Doc
      /\ p_overlapped' \in BOOLEAN
    BY <1>1, <1>2, ExactCovers DEF Page!TypeOK
<1>4. p_request' \in Page!Request /\ p_request' # None
    BY <1>2, <1>3, PageNames DEF Page!Request
<1>5. Grows
    BY <1>1, LogGrows
<1>6. Page!TypeOK'
    BY <1>1, <1>3, <1>4 DEF Page!TypeOK
<1>7. Page!DocumentsCovered' /\ Page!LoadsCovered'
    <2>1. \A k \in Page!Kinds : p_loads'[k] \in {p_loads[k], None}
        OBVIOUS
    <2> QED BY <1>1, <1>5, <2>1, DocumentsKept, LoadsKept
<1>8. Page!RequestCovered'
    BY <1>2, <1>5 DEF Page!RequestCovered, Grows
<1>9. Page!ModesTell'
    <2>1. CASE p_overlapped'
        BY <2>1 DEF Page!ModesTell
    <2>2. CASE ~p_overlapped'
        <3>1. ~p_overlapped /\ ~Page!Loading
            BY <1>2, <2>2
        <3>2. p_request'.kind = "server" => p_request'.from = "server"
            BY <1>1, <1>2, <3>1 DEF Page!ModesTell
        <3> QED BY <1>1, <3>1, <3>2 DEF Page!ModesTell, Page!saving, Page!Loading
    <2> QED BY <2>1, <2>2
<1> QED BY <1>6, <1>7, <1>8, <1>9 DEF Page!PageInv

LEMMA AskSteps ==
    ASSUME Page!PageInv, Page!Save \/ Page!RunStudioAction \/ Page!CopyDeviceToServer
    PROVE  Page!PageInv'
<1>1. Page!TypeOK /\ Page!DocumentsCovered
    BY DEF Page!PageInv
<1>2. /\ p_spent \in [{"typed", "others", "loads", "actions", "failures"} -> Nat]
      /\ p_studioDraft # None => p_studioDraft \in Page!Covered /\ p_studioDraft \in Page!Shown
    BY <1>1 DEF Page!TypeOK, Page!DocumentsCovered
<1>3. CASE Page!Save
    <2>1. p_studioDraft # None /\ p_request = None
        BY <1>1, <1>3 DEF Page!Save, Page!dirty, Page!saving, Page!TypeOK
    <2>2. /\ Page!SaveTarget \in {"profile", "device", "server", "take", "undo", "redo", "copy"} /\ Page!SaveTarget # "copy"
          /\ Page!SaveTarget = "server" => ~p_activeLocalProfile /\ ~p_deviceWorkspace
        BY DEF Page!SaveTarget
    <2> QED BY <1>2, <1>3, <2>1, <2>2, AskHolds DEF Page!Save, Page!server, Page!local, Page!device, Page!page
<1>4. CASE Page!RunStudioAction
    <2>1. PICK kind \in {"take", "undo", "redo"} : Page!Ask(kind, p_studioDraft)
        BY <1>4 DEF Page!RunStudioAction
    <2>2. p_spent' \in [{"typed", "others", "loads", "actions", "failures"} -> Nat]
        BY <1>1, <1>4, SpendTypes DEF Page!RunStudioAction
    <2>3. p_studioDraft # None /\ p_request = None /\ kind \notin {"copy", "server"}
          /\ kind \in {"profile", "device", "server", "take", "undo", "redo", "copy"}
        BY <1>4 DEF Page!RunStudioAction, Page!saving
    <2> QED BY <1>2, <1>4, <2>1, <2>2, <2>3, AskHolds DEF Page!RunStudioAction, Page!server, Page!local, Page!device, Page!page
<1>5. CASE Page!CopyDeviceToServer
    <2> DEFINE doc == [rev |-> Page!Current.rev, val |-> Page!Current.val \cup p_studioDraft.val]
    <2>1. p_studioDraft # None /\ p_request = None /\ Page!Ask("copy", doc)
        BY <1>5 DEF Page!CopyDeviceToServer, Page!saving
    <2>2. p_spent' \in [{"typed", "others", "loads", "actions", "failures"} -> Nat]
        BY <1>1, <1>5, SpendTypes DEF Page!CopyDeviceToServer
    <2>3. Page!Current \in Page!Covered /\ p_studioDraft \in Page!Covered
        BY <1>1, <1>2, <2>1, CurrentExact, ExactCovers
    <2>4. doc \in Page!Covered /\ p_studioDraft.val \subseteq doc.val
        BY <2>3 DEF Page!Covered, Page!Doc
    <2> HIDE DEF doc
    <2> QED BY <1>5, <2>1, <2>2, <2>4, AskHolds DEF Page!CopyDeviceToServer, Page!server, Page!local, Page!device, Page!page
<1> QED BY <1>3, <1>4, <1>5

(* A reply that is what was sent, or what the server has, keeps the rest.  *)
LEMMA ReplyHolds ==
    ASSUME Page!PageInv, Grows, p_request # None, NEW doc \in Page!Doc \cup {Conflict}, Page!Reply(doc),
           doc # Conflict => /\ p_request.kind \notin {"take", "undo", "redo"} => doc.val = p_request.doc.val
                             /\ IF p_request.kind \in {"profile", "device"} THEN doc = p_request.doc ELSE doc \in Page!Exact',
           UNCHANGED <<p_paired, p_snapshot, p_activeId, p_studioBaseline, p_studioDraft, p_activeLocalProfile, p_deviceWorkspace,
                       p_connection, p_conflict, p_loads, p_origin, p_overlapped, p_seen, p_spent>>,
           p_layout' \in {p_layout, p_request.doc}, p_layout' # p_layout => p_request.kind = "device",
           p_profile' \in {p_profile, p_request.doc}, p_profile' # p_profile => p_request.kind = "profile",
           {p_queued', p_deviceFlag'} \subseteq BOOLEAN,
           p_log' \in Seq(SUBSET Page!Edits) \ {<<>>}, {p_past', p_future'} \subseteq Seq(SUBSET Page!Edits)
    PROVE  Page!PageInv' /\ p_request' # None
<1>1. Page!TypeOK /\ Page!DocumentsCovered /\ Page!RequestCovered /\ Page!LoadsCovered /\ Page!ModesTell
    BY DEF Page!PageInv
<1>2. p_request \in Page!Request /\ p_request' = [p_request EXCEPT !.reply = doc]
    BY <1>1 DEF Page!TypeOK, Page!Reply
<1>3. /\ p_request' \in Page!Request /\ p_request'.kind = p_request.kind /\ p_request'.doc = p_request.doc
      /\ p_request'.base = p_request.base /\ p_request'.from = p_request.from /\ p_request'.reply = doc
    BY <1>2 DEF Page!Request
<1>4. p_request' # None /\ p_request.doc \in Page!Doc
    BY <1>2, <1>3, PageNames DEF Page!Request
<1>5. Page!TypeOK'
    <2>1. p_layout' \in Page!Doc \cup {None} /\ p_profile' \in Page!Doc
        BY <1>1, <1>4 DEF Page!TypeOK
    <2> QED BY <1>1, <1>3, <2>1 DEF Page!TypeOK
<1>6. Page!DocumentsCovered'
    <2>1. p_request.doc \in Page!Covered /\ (p_request.kind \notin {"copy", "copied"} => p_request.doc \in Page!Shown)
        BY <1>1 DEF Page!RequestCovered
    <2>2. /\ p_layout' \in Page!Covered \cup {None} /\ p_layout' \in Page!Shown \cup {None}
          /\ p_profile' \in Page!Covered \cup {None} /\ p_profile' \in Page!Shown \cup {None}
        BY <1>1, <2>1 DEF Page!DocumentsCovered
    <2> QED BY <1>1, <2>2 DEF Page!DocumentsCovered, Grows
<1>7. Page!RequestCovered'
    BY <1>1, <1>3 DEF Page!RequestCovered, Grows
<1>8. Page!LoadsCovered'
    <2>1. Page!cache # None => Page!cache' # None
        BY <1>4, PageNames DEF Page!cache
    <2> QED BY <1>1, <2>1 DEF Page!LoadsCovered, Grows
<1>9. Page!ModesTell'
    BY <1>1, <1>3 DEF Page!ModesTell, Page!saving, Page!Loading
<1> QED BY <1>4, <1>5, <1>6, <1>7, <1>8, <1>9 DEF Page!PageInv

(* The five ways a request ends up at its place.                           *)
ToProfile == p_request.kind = "profile" /\ p_profile' = p_request.doc /\ Page!Reply(p_request.doc)
             /\ UNCHANGED <<p_log, p_past, p_future, p_paired, p_snapshot, p_layout, p_queued, p_deviceFlag, p_activeId>>
ToDevice == p_request.kind = "device" /\ p_layout' = p_request.doc /\ p_queued' = TRUE /\ p_deviceFlag' = TRUE /\ Page!Reply(p_request.doc)
            /\ UNCHANGED <<p_log, p_past, p_future, p_paired, p_snapshot, p_activeId, p_profile>>
Refused == Page!Reply(Conflict) /\ UNCHANGED <<p_log, p_past, p_future, p_paired, p_snapshot, p_layout, p_queued, p_deviceFlag, p_activeId, p_profile>>
ToServer == /\ p_request.kind \in {"server", "copy"} /\ p_request.doc.rev = Page!Current.rev
            /\ Page!Commit(p_request.doc.val, Append(p_past, Page!Last(p_log)), <<>>)
            /\ Page!Reply([rev |-> Page!Current.rev + 1, val |-> p_request.doc.val])
            /\ UNCHANGED <<p_paired, p_snapshot, p_layout, p_queued, p_deviceFlag, p_activeId, p_profile>>
Acted == /\ p_request.kind \in {"take", "undo", "redo"} /\ p_request.doc.rev = Page!Current.rev
         /\ Page!studioAction(p_request.kind)
         /\ Page!Reply([rev |-> Page!Current.rev + 1, val |-> Page!Last(p_log')])
         /\ UNCHANGED <<p_paired, p_snapshot, p_layout, p_queued, p_deviceFlag, p_activeId, p_profile>>

LEMMA ExecuteCases ==
    ASSUME Page!Execute
    PROVE  /\ p_request # None /\ (ToProfile \/ ToDevice \/ Refused \/ ToServer \/ Acted)
           /\ UNCHANGED <<p_studioBaseline, p_studioDraft, p_activeLocalProfile, p_deviceWorkspace, p_connection, p_conflict,
                          p_loads, p_origin, p_overlapped, p_seen, p_spent>>
BY DEF Page!Execute, ToProfile, ToDevice, Refused, ToServer, Acted, Page!saving, Page!replaceStudio, Page!server, Page!local,
       Page!device, Page!page, Page!history

(* An action of the server commits a content of its log or stacks.         *)
LEMMA ActionCommits ==
    ASSUME Page!TypeOK, NEW kind \in {"take", "undo", "redo"}, Page!studioAction(kind)
    PROVE  \E val \in SUBSET Page!Edits, undo, redo \in Seq(SUBSET Page!Edits) :
               Page!Commit(val, undo, redo) /\ (kind = "take" => val = Page!Last(p_log))
<1>1. p_past \in Seq(SUBSET Page!Edits) /\ p_future \in Seq(SUBSET Page!Edits)
    BY DEF Page!TypeOK
<1>2. CASE kind = "take"
    <2>1. Page!Commit(Page!Last(p_log), p_past, p_future)
        BY <1>2 DEF Page!studioAction
    <2> QED BY <1>1, <2>1, StackTypes
<1>3. CASE kind = "undo"
    <2>1. p_past # <<>> /\ Page!Commit(Page!Last(p_past), Page!Front(p_past), Append(p_future, Page!Last(p_log)))
        BY <1>3 DEF Page!studioAction
    <2> QED BY <1>3, <2>1, StackTypes
<1>4. CASE kind = "redo"
    <2>1. p_future # <<>> /\ Page!Commit(Page!Last(p_future), Append(p_past, Page!Last(p_log)), Page!Front(p_future))
        BY <1>4 DEF Page!studioAction
    <2> QED BY <1>4, <2>1, StackTypes
<1> QED BY <1>2, <1>3, <1>4

LEMMA ExecuteHolds ==
    ASSUME Page!PageInv, Page!Execute
    PROVE  Page!PageInv' /\ p_request' # None
<1>1. Page!TypeOK
    BY DEF Page!PageInv
<1>2. /\ p_request # None /\ (ToProfile \/ ToDevice \/ Refused \/ ToServer \/ Acted)
      /\ UNCHANGED <<p_studioBaseline, p_studioDraft, p_activeLocalProfile, p_deviceWorkspace, p_connection, p_conflict,
                     p_loads, p_origin, p_overlapped, p_seen, p_spent>>
    BY ExecuteCases
<1>3. /\ p_request.doc \in Page!Doc /\ p_request.doc.val \in SUBSET Page!Edits /\ p_request.doc # Conflict
      /\ p_log \in Seq(SUBSET Page!Edits) \ {<<>>} /\ {p_past, p_future} \subseteq Seq(SUBSET Page!Edits)
      /\ {p_queued, p_deviceFlag} \subseteq BOOLEAN
    BY <1>1, <1>2, PageNames DEF Page!TypeOK, Page!Request, Page!Doc, Page!Edits
<1>4. CASE ToProfile
    <2>1. Grows
        BY <1>1, <1>2, <1>4, LogGrows DEF ToProfile
    <2> QED BY <1>2, <1>3, <1>4, <2>1, ReplyHolds DEF ToProfile
<1>5. CASE ToDevice
    <2>1. Grows
        BY <1>1, <1>2, <1>5, LogGrows DEF ToDevice
    <2>2. p_queued' \in BOOLEAN /\ p_deviceFlag' \in BOOLEAN
        BY <1>5 DEF ToDevice
    <2> QED BY <1>2, <1>3, <1>5, <2>1, <2>2, ReplyHolds DEF ToDevice
<1>6. CASE Refused
    <2>1. Grows
        BY <1>1, <1>2, <1>6, LogGrows DEF Refused
    <2> QED BY <1>2, <1>3, <1>6, <2>1, ReplyHolds DEF Refused
<1>7. CASE ToServer
    <2> DEFINE doc == [rev |-> Page!Current.rev + 1, val |-> p_request.doc.val]
    <2>1. Append(p_past, Page!Last(p_log)) \in Seq(SUBSET Page!Edits) /\ <<>> \in Seq(SUBSET Page!Edits)
        BY <1>1, StackTypes
    <2>2. /\ p_log' = Append(p_log, p_request.doc.val) /\ p_log' \in Seq(SUBSET Page!Edits) \ {<<>>}
          /\ {p_past', p_future'} \subseteq Seq(SUBSET Page!Edits) /\ doc \in Page!Exact'
        BY <1>1, <1>3, <1>7, <2>1, CommitAdds DEF ToServer
    <2>3. Grows
        BY <1>1, <1>2, <2>2, LogGrows
    <2>4. doc \in Page!Doc \cup {Conflict} /\ doc.val = p_request.doc.val /\ Page!Reply(doc)
        BY <1>7, <2>2 DEF ToServer, Page!Exact
    <2> HIDE DEF doc
    <2>5. /\ UNCHANGED <<p_paired, p_snapshot, p_layout, p_queued, p_deviceFlag, p_activeId, p_profile>>
          /\ p_request.kind \in {"server", "copy"}
        BY <1>7 DEF ToServer
    <2> QED BY <1>2, <1>3, <2>2, <2>3, <2>4, <2>5, ReplyHolds
<1>8. CASE Acted
    <2>1. PICK val \in SUBSET Page!Edits, undo, redo \in Seq(SUBSET Page!Edits) : Page!Commit(val, undo, redo)
        BY <1>1, <1>8, ActionCommits DEF Acted
    <2> DEFINE doc == [rev |-> Page!Current.rev + 1, val |-> val]
    <2>2. /\ p_log' = Append(p_log, val) /\ p_log' \in Seq(SUBSET Page!Edits) \ {<<>>}
          /\ {p_past', p_future'} \subseteq Seq(SUBSET Page!Edits) /\ doc \in Page!Exact' /\ Page!Last(p_log') = val
        BY <1>1, <2>1, CommitAdds
    <2>3. Grows
        BY <1>1, <1>2, <2>2, LogGrows
    <2>4. doc \in Page!Doc \cup {Conflict} /\ Page!Reply(doc)
        BY <1>8, <2>2 DEF Acted, Page!Exact
    <2> HIDE DEF doc
    <2>5. /\ UNCHANGED <<p_paired, p_snapshot, p_layout, p_queued, p_deviceFlag, p_activeId, p_profile>>
          /\ p_request.kind \in {"take", "undo", "redo"}
        BY <1>8 DEF Acted
    <2> QED BY <1>2, <1>3, <2>2, <2>3, <2>4, <2>5, ReplyHolds
<1> QED BY <1>2, <1>4, <1>5, <1>6, <1>7, <1>8

(* What an answer that came carries.                                       *)
LEMMA AnswerCarries ==
    ASSUME Page!PageInv, p_request # None, p_request.reply \notin {None, Conflict}
    PROVE  /\ p_request.reply \in Page!Covered /\ p_studioDraft # None
           /\ p_request.kind \notin {"profile", "device"} => p_request.reply \in Page!Exact
           /\ p_request.kind \notin {"take", "undo", "redo"} => p_request.reply.val = p_request.doc.val
           /\ p_request.kind \notin {"take", "undo", "redo", "copy", "copied"} => p_request.reply \in Page!Shown
           /\ ~p_overlapped => p_loads["reload"] = None
<1>1. Page!TypeOK /\ Page!RequestCovered /\ Page!ModesTell
    BY DEF Page!PageInv
<1>2. p_request.reply \in Page!Doc
    BY <1>1 DEF Page!TypeOK, Page!Request
<1>3. /\ p_request.reply \in Page!Covered
      /\ p_request.kind \notin {"profile", "device"} => p_request.reply \in Page!Exact
      /\ p_request.kind \notin {"take", "undo", "redo"} => p_request.reply.val = p_request.doc.val
    BY <1>1, ExactCovers DEF Page!RequestCovered
<1>4. p_request.kind \notin {"take", "undo", "redo", "copy", "copied"} => p_request.reply \in Page!Shown
    <2>1. SUFFICES ASSUME p_request.kind \notin {"take", "undo", "redo", "copy", "copied"}
                   PROVE  p_request.reply \in Page!Shown
        OBVIOUS
    <2>2. p_request.doc \in Page!Shown
        BY <1>1, <2>1 DEF Page!RequestCovered
    <2> QED BY <1>2, <1>3, <2>1, <2>2 DEF Page!Shown
<1>5. ~p_overlapped => p_loads["reload"] = None
    BY <1>1 DEF Page!ModesTell, Page!saving, Page!Loading, Page!Kinds
<1> QED BY <1>1, <1>3, <1>4, <1>5 DEF Page!TypeOK

LEMMA AnswerSaveHolds ==
    ASSUME Page!PageInv, Page!AnswerSave
    PROVE  Page!PageInv'
<1>1. Page!TypeOK /\ Page!DocumentsCovered /\ Page!RequestCovered /\ Page!LoadsCovered /\ Page!ModesTell
    BY DEF Page!PageInv
<1> DEFINE kind == p_request.kind
           reply == p_request.reply
<1>2. /\ p_request # None /\ reply \notin {None, Conflict} /\ kind \in {"profile", "device", "server"}
      /\ p_activeLocalProfile' = (kind = "profile" \/ p_activeLocalProfile)
      /\ p_deviceWorkspace' = (kind = "device" \/ p_deviceWorkspace)
      /\ Page!commitSavedStudio(reply, p_request.doc, kind)
      /\ p_snapshot' = IF kind = "server" THEN reply ELSE p_snapshot
      /\ p_request' = None
      /\ UNCHANGED <<p_log, p_past, p_future, p_paired, p_layout, p_queued, p_deviceFlag, p_activeId, p_profile, p_connection,
                     p_loads, p_overlapped, p_spent>>
    BY DEF Page!AnswerSave, Page!saving, Page!server
<1>3. /\ reply \in Page!Covered /\ reply \in Page!Shown /\ p_studioDraft # None /\ reply \in Page!Doc
      /\ kind = "server" => reply \in Page!Exact
      /\ ~p_overlapped => p_loads["reload"] = None
    BY <1>2, AnswerCarries, ExactCovers
<1>4. /\ p_snapshot' \in Page!Covered \cup {None} /\ (p_snapshot # None => p_snapshot' # None)
      /\ p_snapshot' \in Page!Doc \cup {None}
    BY <1>1, <1>2, <1>3, PageNames DEF Page!DocumentsCovered, Page!TypeOK
<1>5. /\ {p_deviceFlag', p_activeId', p_activeLocalProfile', p_deviceWorkspace', p_overlapped'} \subseteq BOOLEAN
      /\ p_connection' \in {"connecting", "online", "offline"}
      /\ p_spent' \in [{"typed", "others", "loads", "actions", "failures"} -> Nat]
      /\ p_loads' \in [Page!Kinds -> Page!Load \cup {None}] /\ \A k \in Page!Kinds : p_loads'[k] \in {p_loads[k], None}
    <2>1. p_activeLocalProfile' \in BOOLEAN /\ p_deviceWorkspace' \in BOOLEAN
        BY <1>2
    <2> QED BY <1>1, <1>2, <2>1 DEF Page!TypeOK
<1>6. kind \in Page!Sources /\ (~p_activeLocalProfile' /\ ~p_deviceWorkspace' =>
                                   kind = "server" /\ ~p_activeLocalProfile /\ ~p_deviceWorkspace)
    BY <1>2 DEF Page!Sources
<1> HIDE DEF kind, reply
<1>7. CASE p_studioDraft = p_request.doc
    <2>1. Page!applyRemoteStudio(reply, kind)
        BY <1>2, <1>7 DEF Page!commitSavedStudio
    <2>2. p_request' \in {p_request, None} /\ (p_overlapped => p_overlapped')
          /\ (~p_overlapped' => /\ ~p_activeLocalProfile' /\ ~p_deviceWorkspace' => kind = "server"
                                /\ p_loads'["reload"] # None /\ p_loads'["reload"].at = "storing" => p_deviceWorkspace')
        BY <1>2, <1>3, <1>6
    <2> QED BY <1>2, <1>3, <1>4, <1>5, <1>6, <2>1, <2>2, ApplyHolds
<1>8. CASE p_studioDraft # p_request.doc
    <2>1. /\ p_studioBaseline' = reply /\ p_studioDraft' = [p_studioDraft EXCEPT !.rev = reply.rev]
          /\ p_conflict' = FALSE /\ p_origin' = [p_origin EXCEPT !.base = kind] /\ p_seen' = p_seen
        BY <1>2, <1>8 DEF Page!commitSavedStudio
    <2>2. Grows
        BY <1>1, <1>2, <2>1, LogGrows
    <2>3. p_studioDraft \in Page!Doc /\ p_studioDraft \in Page!Shown
        BY <1>1, <1>3 DEF Page!TypeOK, Page!DocumentsCovered
    <2>4. p_studioDraft' \in Page!Doc /\ p_studioDraft'.rev = reply.rev /\ p_studioDraft'.val = p_studioDraft.val
        BY <1>3, <2>1, <2>3 DEF Page!Doc
    <2>5. p_studioDraft' \in Page!Covered' /\ p_studioDraft' \in Page!Shown'
        BY <1>2, <1>3, <2>1, <2>3, <2>4 DEF Page!Covered, Page!Shown
    <2>6. /\ p_origin' \in [base : Page!Sources \cup {None}, draft : Page!Sources \cup {None}]
          /\ p_origin'.base = kind /\ p_origin'.draft = p_origin.draft
        BY <1>1, <1>6, <2>1 DEF Page!TypeOK
    <2>7. Page!TypeOK'
        <3>1. p_studioDraft' # None /\ p_studioBaseline' # None /\ None \notin {p_origin'.base, p_origin'.draft}
            BY <1>1, <1>3, <1>6, <2>1, <2>4, <2>6, PageNames DEF Page!TypeOK
        <3>2. p_conflict' \in BOOLEAN /\ p_request' \in Page!Request \cup {None} /\ p_studioBaseline' \in Page!Doc
            BY <1>2, <1>3, <2>1
        <3> QED BY <1>1, <1>2, <1>4, <1>5, <2>1, <2>4, <2>6, <3>1, <3>2 DEF Page!TypeOK
    <2>8. Page!DocumentsCovered'
        <3>1. p_snapshot' \in Page!Covered' \cup {None}
            BY <1>4, <2>2 DEF Grows
        <3> QED BY <1>1, <1>2, <1>3, <2>1, <2>2, <2>5, <2>6, <3>1 DEF Page!DocumentsCovered, Grows
    <2>9. Page!RequestCovered' /\ Page!LoadsCovered'
        BY <1>1, <1>2, <1>4, <1>5, <2>2, RequestKept, LoadsKept
    <2>10. Page!ModesTell'
        <3>1. CASE p_overlapped'
            BY <3>1 DEF Page!ModesTell
        <3>2. CASE ~p_overlapped'
            <4>1. ~Page!saving' /\ \A j, k \in Page!Kinds : p_loads'[j] # None /\ p_loads'[k] # None => j = k
                BY <1>1, <1>2, <3>2 DEF Page!ModesTell, Page!saving
            <4>2. ~p_activeLocalProfile' /\ ~p_deviceWorkspace' => p_origin' = [base |-> "server", draft |-> "server"]
                <5>1. SUFFICES ASSUME ~p_activeLocalProfile', ~p_deviceWorkspace'
                               PROVE  p_origin' = [base |-> "server", draft |-> "server"]
                    OBVIOUS
                <5>2. kind = "server" /\ p_origin = [base |-> "server", draft |-> "server"]
                    BY <1>1, <1>2, <1>3, <1>6, <3>2, <5>1 DEF Page!ModesTell
                <5> QED BY <2>1, <5>2
            <4>3. p_loads'["reload"] = None
                BY <1>2, <1>3, <3>2
            <4> QED BY <4>1, <4>2, <4>3 DEF Page!ModesTell
        <3> QED BY <3>1, <3>2
    <2> QED BY <2>7, <2>8, <2>9, <2>10 DEF Page!PageInv
<1> QED BY <1>7, <1>8

LEMMA AnswerActionHolds ==
    ASSUME Page!PageInv, Page!AnswerAction
    PROVE  Page!PageInv'
<1>1. Page!TypeOK /\ Page!DocumentsCovered /\ Page!ModesTell
    BY DEF Page!PageInv
<1>2. /\ p_request # None /\ p_request.reply \notin {None, Conflict} /\ p_request.kind \in {"take", "undo", "redo"}
      /\ Page!applyRemoteStudio(p_request.reply, "server") /\ p_request' = None
      /\ UNCHANGED <<p_log, p_past, p_future, p_paired, p_snapshot, p_layout, p_queued, p_deviceFlag, p_activeId, p_profile,
                     p_activeLocalProfile, p_deviceWorkspace, p_connection, p_loads, p_overlapped, p_spent>>
    BY DEF Page!AnswerAction, Page!saving, Page!server, Page!local, Page!device
<1>3. p_request.reply \in Page!Covered /\ p_request.reply \in Page!Exact /\ "server" \in Page!Sources
    BY <1>2, AnswerCarries DEF Page!Sources
<1>4. /\ {p_deviceFlag', p_activeId', p_activeLocalProfile', p_deviceWorkspace', p_overlapped'} \subseteq BOOLEAN
      /\ p_connection' \in {"connecting", "online", "offline"}
      /\ p_spent' \in [{"typed", "others", "loads", "actions", "failures"} -> Nat]
      /\ p_loads' \in [Page!Kinds -> Page!Load \cup {None}] /\ \A k \in Page!Kinds : p_loads'[k] \in {p_loads[k], None}
    BY <1>1, <1>2 DEF Page!TypeOK
<1>5. p_snapshot' \in Page!Covered \cup {None}
    BY <1>1, <1>2 DEF Page!DocumentsCovered
<1>6. ~p_overlapped' => p_loads'["reload"] = None
    BY <1>2, AnswerCarries
<1> QED BY <1>2, <1>3, <1>4, <1>5, <1>6, ApplyHolds

LEMMA AnswerCopyHolds ==
    ASSUME Page!PageInv, Page!AnswerCopy
    PROVE  Page!PageInv'
<1>1. Page!TypeOK /\ Page!DocumentsCovered /\ Page!RequestCovered /\ Page!LoadsCovered /\ Page!ModesTell
    BY DEF Page!PageInv
<1>2. /\ p_request # None /\ p_request.reply \notin {None, Conflict} /\ p_request.kind = "copy"
      /\ UNCHANGED <<p_log, p_past, p_future, p_paired, p_snapshot, p_layout, p_queued, p_activeId, p_profile,
                     p_studioBaseline, p_studioDraft, p_activeLocalProfile, p_deviceWorkspace, p_connection, p_conflict,
                     p_loads, p_origin, p_overlapped, p_seen, p_spent>>
    BY DEF Page!AnswerCopy, Page!saving, Page!server, Page!page, Page!history
<1>3. /\ {p_queued', p_deviceFlag, p_activeId', p_conflict'} \subseteq BOOLEAN
      /\ p_connection' \in {"connecting", "online", "offline"}
      /\ p_spent' \in [{"typed", "others", "loads", "actions", "failures"} -> Nat]
      /\ p_loads' \in [Page!Kinds -> Page!Load \cup {None}] /\ \A k \in Page!Kinds : p_loads'[k] \in {p_loads[k], None}
    BY <1>1, <1>2 DEF Page!TypeOK
<1>4. CASE p_studioDraft # p_request.base
    <2>1. p_deviceFlag' = p_deviceFlag /\ p_request' = None
        BY <1>4 DEF Page!AnswerCopy
    <2>2. {p_queued', p_deviceFlag', p_activeId', p_conflict'} \subseteq BOOLEAN /\ p_request' \in {p_request, None}
        BY <1>3, <2>1
    <2> QED BY <1>2, <1>3, <2>1, <2>2, QuietHolds
<1>5. CASE p_studioDraft = p_request.base
    <2>1. p_deviceFlag' = FALSE /\ p_request' = [p_request EXCEPT !.kind = "copied", !.base = p_studioDraft]
        BY <1>5 DEF Page!AnswerCopy, Page!LeaveDevice
    <2>2. p_request \in Page!Request
        BY <1>1, <1>2 DEF Page!TypeOK
    <2>3. /\ p_request' \in Page!Request /\ p_request'.kind = "copied" /\ p_request'.doc = p_request.doc
          /\ p_request'.base = p_request.base /\ p_request'.reply = p_request.reply
        BY <1>5, <2>1, <2>2 DEF Page!Request
    <2>4. p_request' # None
        BY <2>3, PageNames
    <2>5. Grows
        BY <1>1, <1>2, LogGrows
    <2>6. Page!TypeOK'
        BY <1>1, <1>2, <1>3, <2>1, <2>3, <2>4 DEF Page!TypeOK
    <2>7. Page!DocumentsCovered' /\ Page!LoadsCovered'
        BY <1>1, <1>2, <1>3, <2>5, DocumentsKept, LoadsKept
    <2>8. Page!RequestCovered'
        <3>1. /\ p_request.doc \in Page!Covered /\ p_request.base.val \subseteq p_request.doc.val
              /\ p_request.reply.val = p_request.doc.val /\ p_request.reply \in Page!Exact
            BY <1>1, <1>2 DEF Page!RequestCovered
        <3>2. p_request.doc \in Page!Covered' /\ p_request.reply \in Page!Exact'
            BY <2>5, <3>1 DEF Grows
        <3> QED BY <2>3, <3>1, <3>2 DEF Page!RequestCovered
    <2>9. Page!ModesTell'
        BY <1>1, <1>2, <2>3, <2>4 DEF Page!ModesTell, Page!saving, Page!Loading
    <2> QED BY <2>6, <2>7, <2>8, <2>9 DEF Page!PageInv
<1> QED BY <1>4, <1>5

LEMMA CopyAppliesHolds ==
    ASSUME Page!PageInv, Page!CopyApplies
    PROVE  Page!PageInv'
<1>1. Page!TypeOK /\ Page!DocumentsCovered
    BY DEF Page!PageInv
<1>2. /\ p_request # None /\ p_request.reply \notin {None, Conflict} /\ p_request.kind = "copied" /\ p_request' = None
      /\ p_deviceWorkspace' = FALSE /\ Page!applyRemoteStudio(p_request.reply, "server")
      /\ UNCHANGED <<p_log, p_past, p_future, p_paired, p_snapshot, p_layout, p_queued, p_deviceFlag, p_activeId, p_profile,
                     p_activeLocalProfile, p_connection, p_loads, p_overlapped, p_spent>>
    BY DEF Page!CopyApplies, Page!saving, Page!server, Page!local, Page!device
<1>3. p_request.reply \in Page!Covered /\ p_request.reply \in Page!Exact /\ "server" \in Page!Sources
    BY <1>2, AnswerCarries DEF Page!Sources
<1>4. /\ {p_deviceFlag', p_activeId', p_activeLocalProfile', p_deviceWorkspace', p_overlapped'} \subseteq BOOLEAN
      /\ p_connection' \in {"connecting", "online", "offline"}
      /\ p_spent' \in [{"typed", "others", "loads", "actions", "failures"} -> Nat]
      /\ p_loads' \in [Page!Kinds -> Page!Load \cup {None}] /\ \A k \in Page!Kinds : p_loads'[k] \in {p_loads[k], None}
    BY <1>1, <1>2 DEF Page!TypeOK
<1>5. p_snapshot' \in Page!Covered \cup {None}
    BY <1>1, <1>2 DEF Page!DocumentsCovered
<1>6. ~p_overlapped' => p_loads'["reload"] = None
    BY <1>2, AnswerCarries
<1> QED BY <1>2, <1>3, <1>4, <1>5, <1>6, ApplyHolds

(* A load begins.                                                          *)
LEMMA StartHolds ==
    ASSUME Page!PageInv, NEW kind \in Page!Kinds, Page!Start(kind), kind = "device" => Page!cache # None,
           UNCHANGED <<p_log, p_past, p_future, p_paired, p_snapshot, p_layout, p_queued, p_deviceFlag, p_profile,
                       p_studioBaseline, p_studioDraft, p_activeLocalProfile, p_deviceWorkspace, p_connection, p_conflict,
                       p_request, p_origin, p_seen>>,
           p_activeId' \in BOOLEAN
    PROVE  Page!PageInv'
<1>1. Page!TypeOK /\ Page!DocumentsCovered /\ Page!RequestCovered /\ Page!LoadsCovered /\ Page!ModesTell
    BY DEF Page!PageInv
<1> DEFINE load == [at |-> "start", doc |-> None]
<1>2. /\ p_loads[kind] = None /\ p_loads' = [p_loads EXCEPT ![kind] = load] /\ Page!Spend("loads")
      /\ p_overlapped' = (p_overlapped \/ (Page!saving \/ Page!Loading))
    BY DEF Page!Start, Page!Overlap
<1>3. load \in Page!Load /\ load.at = "start"
    BY DEF Page!Load
<1> HIDE DEF load
<1>4. /\ p_loads' \in [Page!Kinds -> Page!Load \cup {None}] /\ p_loads'[kind] = load
      /\ \A k \in Page!Kinds : k # kind => p_loads'[k] = p_loads[k]
    BY <1>1, <1>2, <1>3 DEF Page!TypeOK
<1>5. Grows
    BY <1>1, LogGrows
<1>6. p_spent' \in [{"typed", "others", "loads", "actions", "failures"} -> Nat]
    BY <1>1, <1>2, SpendTypes
<1>7. Page!TypeOK'
    BY <1>1, <1>2, <1>4, <1>6 DEF Page!TypeOK
<1>8. Page!DocumentsCovered' /\ Page!RequestCovered'
    BY <1>1, <1>5, DocumentsKept, RequestKept
<1>9. Page!LoadsCovered'
    <2>1. SUFFICES ASSUME NEW k \in Page!Kinds, p_loads'[k] # None
                   PROVE  /\ k = "device" => p_loads'[k].at = "start" /\ Page!cache' # None
                          /\ p_loads'[k].at = "fetched" => p_loads'[k].doc \in Page!Exact'
                          /\ p_loads'[k].at = "storing" => k = "reload" /\ p_loads'[k].doc \in Page!Covered'
        BY DEF Page!LoadsCovered
    <2>2. Page!cache' = Page!cache
        BY DEF Page!cache
    <2>3. CASE k = kind
        BY <1>3, <1>4, <2>2, <2>3
    <2>4. CASE k # kind
        BY <1>1, <1>4, <1>5, <2>1, <2>2, <2>4 DEF Page!LoadsCovered, Grows
    <2> QED BY <2>3, <2>4
<1>10. Page!ModesTell'
    <2>1. CASE p_overlapped'
        BY <2>1 DEF Page!ModesTell
    <2>2. CASE ~p_overlapped'
        <3>1. ~p_overlapped /\ ~Page!saving /\ \A k \in Page!Kinds : p_loads[k] = None
            BY <1>2, <2>2 DEF Page!Loading
        <3>2. \A k \in Page!Kinds : p_loads'[k] # None => k = kind /\ p_loads'[k].at = "start"
            BY <1>3, <1>4, <3>1
        <3> QED BY <1>1, <3>1, <3>2 DEF Page!ModesTell, Page!saving, Page!Kinds
    <2> QED BY <2>1, <2>2
<1> QED BY <1>7, <1>8, <1>9, <1>10 DEF Page!PageInv

LEMMA StartSteps ==
    ASSUME Page!PageInv, Page!Reload \/ Page!ReturnToServer \/ Page!LoadDeviceLayout
    PROVE  Page!PageInv'
<1>1. p_activeId \in BOOLEAN /\ {"reload", "return", "device"} \subseteq Page!Kinds
    BY DEF Page!PageInv, Page!TypeOK, Page!Kinds
<1>2. CASE Page!Reload
    BY <1>1, <1>2, StartHolds DEF Page!Reload, Page!server, Page!local, Page!device, Page!page
<1>3. CASE Page!ReturnToServer
    BY <1>1, <1>3, StartHolds DEF Page!ReturnToServer, Page!server, Page!local, Page!device, Page!page
<1>4. CASE Page!LoadDeviceLayout
    BY <1>1, <1>4, StartHolds DEF Page!LoadDeviceLayout, Page!server, Page!local, Page!device, Page!page
<1> QED BY <1>2, <1>3, <1>4

LEMMA ChooseHolds ==
    ASSUME Page!PageInv, Page!ChooseProfile
    PROVE  Page!PageInv'
<1>1. Page!TypeOK /\ Page!DocumentsCovered /\ Page!ModesTell
    BY DEF Page!PageInv
<1>2. /\ p_activeId' = ~p_activeId
      /\ UNCHANGED <<p_log, p_past, p_future, p_paired, p_snapshot, p_layout, p_queued, p_profile, p_request>>
    BY DEF Page!ChooseProfile, Page!server
<1>3. /\ p_activeId' \in BOOLEAN /\ p_overlapped \in BOOLEAN /\ p_profile \in Page!Doc /\ p_snapshot \in Page!Covered \cup {None}
      /\ p_connection \in {"connecting", "online", "offline"} /\ p_loads \in [Page!Kinds -> Page!Load \cup {None}]
      /\ {"reload", "return", "device"} \subseteq Page!Kinds
    BY <1>1, <1>2 DEF Page!TypeOK, Page!DocumentsCovered, Page!Kinds
<1>4. CASE /\ p_activeId /\ Page!Start("reload")
           /\ UNCHANGED <<p_studioBaseline, p_studioDraft, p_activeLocalProfile, p_deviceWorkspace, p_connection, p_conflict,
                          p_origin, p_seen, p_deviceFlag>>
    BY <1>2, <1>3, <1>4, StartHolds
<1>5. CASE /\ Page!Spend("loads") /\ UNCHANGED <<p_loads, p_connection>> /\ Page!applyLocalProfile /\ p_deviceFlag' = FALSE
           /\ Page!Overlap(Page!saving \/ Page!Loading)
    <2>1. /\ p_deviceWorkspace' = FALSE /\ p_activeLocalProfile' = TRUE /\ Page!applyRemoteStudio(p_profile, "profile")
          /\ p_overlapped' = (p_overlapped \/ (Page!saving \/ Page!Loading))
        BY <1>5 DEF Page!applyLocalProfile, Page!Overlap
    <2>2. p_spent' \in [{"typed", "others", "loads", "actions", "failures"} -> Nat]
        BY <1>1, <1>5, SpendTypes
    <2>3. "profile" \in Page!Sources /\ p_profile \in Page!Covered
        BY <1>1, <1>3, PageNames DEF Page!Sources, Page!DocumentsCovered
    <2>4. /\ {p_deviceFlag', p_activeId', p_activeLocalProfile', p_deviceWorkspace', p_overlapped'} \subseteq BOOLEAN
          /\ p_overlapped => p_overlapped'
        BY <1>3, <1>5, <2>1
    <2>5. ~p_overlapped' => p_loads'["reload"] = None
        BY <1>3, <1>5, <2>1 DEF Page!Loading
    <2> QED BY <1>2, <1>3, <1>5, <2>1, <2>2, <2>3, <2>4, <2>5, ApplyHolds
<1> QED BY <1>4, <1>5 DEF Page!ChooseProfile, Page!page

(* Loads go on: fetching the server's Studio, storing the device's.        *)
LEMMA FetchedHolds ==
    ASSUME Page!PageInv, Page!Fetched
    PROVE  Page!PageInv'
<1>1. Page!TypeOK /\ Page!DocumentsCovered /\ Page!RequestCovered /\ Page!LoadsCovered /\ Page!ModesTell
    BY DEF Page!PageInv
<1>2. PICK kind \in {"reload", "return"} :
          /\ p_loads[kind] # None /\ p_loads[kind].at = "start" /\ Page!Step(kind, "fetched", Page!Current)
    BY DEF Page!Fetched
<1>3. UNCHANGED <<p_log, p_past, p_future, p_paired, p_snapshot, p_layout, p_queued, p_deviceFlag, p_activeId, p_profile,
                  p_studioBaseline, p_studioDraft, p_activeLocalProfile, p_deviceWorkspace, p_connection, p_conflict,
                  p_request, p_origin, p_overlapped, p_seen, p_spent>>
    BY DEF Page!Fetched, Page!server, Page!local, Page!device, Page!page, Page!history
<1> DEFINE load == [at |-> "fetched", doc |-> Page!Current]
<1>4. load \in Page!Load /\ load.at = "fetched" /\ load.doc \in Page!Exact /\ load # None
    <2>1. Page!Current \in Page!Exact /\ Page!Current \in Page!Doc
        BY <1>1, CurrentExact, ExactCovers
    <2>2. load \in Page!Load
        BY <2>1 DEF Page!Load
    <2> QED BY <2>1, <2>2, PageNames
<1>5. p_loads' = [p_loads EXCEPT ![kind] = load] /\ kind \in Page!Kinds /\ kind # "device"
    BY <1>2 DEF Page!Step, Page!Kinds
<1> HIDE DEF load
<1>6. /\ p_loads' \in [Page!Kinds -> Page!Load \cup {None}] /\ p_loads'[kind] = load
      /\ \A k \in Page!Kinds : k # kind => p_loads'[k] = p_loads[k]
    BY <1>1, <1>4, <1>5 DEF Page!TypeOK
<1>7. Grows
    BY <1>1, <1>3, LogGrows
<1>8. Page!TypeOK'
    BY <1>1, <1>3, <1>6 DEF Page!TypeOK
<1>9. Page!DocumentsCovered' /\ Page!RequestCovered'
    BY <1>1, <1>3, <1>7, DocumentsKept, RequestKept
<1>10. Page!LoadsCovered'
    <2>1. SUFFICES ASSUME NEW k \in Page!Kinds, p_loads'[k] # None
                   PROVE  /\ k = "device" => p_loads'[k].at = "start" /\ Page!cache' # None
                          /\ p_loads'[k].at = "fetched" => p_loads'[k].doc \in Page!Exact'
                          /\ p_loads'[k].at = "storing" => k = "reload" /\ p_loads'[k].doc \in Page!Covered'
        BY DEF Page!LoadsCovered
    <2>2. Page!cache' = Page!cache
        BY <1>3 DEF Page!cache
    <2>3. CASE k = kind
        BY <1>4, <1>5, <1>6, <1>7, <2>3 DEF Grows
    <2>4. CASE k # kind
        BY <1>1, <1>6, <1>7, <2>1, <2>2, <2>4 DEF Page!LoadsCovered, Grows
    <2> QED BY <2>3, <2>4
<1>11. Page!ModesTell'
    <2>1. CASE p_overlapped
        BY <1>3, <2>1 DEF Page!ModesTell
    <2>2. CASE ~p_overlapped
        <3>1. \A k \in Page!Kinds : p_loads'[k] # None => p_loads[k] # None
            BY <1>2, <1>6
        <3>2. p_loads'["reload"] # None /\ p_loads'["reload"].at = "storing" => p_loads'["reload"] = p_loads["reload"]
            BY <1>4, <1>6 DEF Page!Kinds
        <3>3. Page!saving' = Page!saving /\ (Page!Loading' => Page!Loading)
            BY <1>3, <3>1 DEF Page!saving, Page!Loading
        <3> QED BY <1>1, <1>3, <2>2, <3>1, <3>2, <3>3 DEF Page!ModesTell, Page!Kinds
    <2> QED BY <2>1, <2>2
<1> QED BY <1>8, <1>9, <1>10, <1>11 DEF Page!PageInv

(* The server cannot be reached: the page turns to the device's layout.    *)
LEMMA StoringHolds ==
    ASSUME Page!PageInv, p_loads["reload"] # None, Page!cache # None, p_deviceWorkspace' = TRUE,
           Page!Step("reload", "storing", Page!cache),
           UNCHANGED <<p_log, p_past, p_future, p_paired, p_snapshot, p_layout, p_queued, p_deviceFlag, p_activeId, p_profile,
                       p_studioBaseline, p_studioDraft, p_activeLocalProfile, p_connection, p_conflict,
                       p_request, p_origin, p_overlapped, p_seen>>,
           p_spent' \in [{"typed", "others", "loads", "actions", "failures"} -> Nat]
    PROVE  Page!PageInv'
<1>1. Page!TypeOK /\ Page!DocumentsCovered /\ Page!RequestCovered /\ Page!LoadsCovered /\ Page!ModesTell
    BY DEF Page!PageInv
<1> DEFINE load == [at |-> "storing", doc |-> Page!cache]
<1>2. load \in Page!Load /\ load.at = "storing" /\ load.doc \in Page!Covered /\ load # None
    <2>1. Page!cache \in Page!Covered /\ Page!cache \in Page!Doc
        BY <1>1, CacheCovered, ExactCovers
    <2>2. load \in Page!Load
        BY <2>1 DEF Page!Load
    <2> QED BY <2>1, <2>2, PageNames
<1>3. p_loads' = [p_loads EXCEPT !["reload"] = load] /\ "reload" \in Page!Kinds
    BY DEF Page!Step, Page!Kinds
<1> HIDE DEF load
<1>4. /\ p_loads' \in [Page!Kinds -> Page!Load \cup {None}] /\ p_loads'["reload"] = load
      /\ \A k \in Page!Kinds : k # "reload" => p_loads'[k] = p_loads[k]
    BY <1>1, <1>2, <1>3 DEF Page!TypeOK
<1>5. Grows
    BY <1>1, LogGrows
<1>6. Page!TypeOK'
    BY <1>1, <1>4 DEF Page!TypeOK
<1>7. Page!DocumentsCovered' /\ Page!RequestCovered'
    BY <1>1, <1>5, DocumentsKept, RequestKept
<1>8. Page!LoadsCovered'
    <2>1. SUFFICES ASSUME NEW k \in Page!Kinds, p_loads'[k] # None
                   PROVE  /\ k = "device" => p_loads'[k].at = "start" /\ Page!cache' # None
                          /\ p_loads'[k].at = "fetched" => p_loads'[k].doc \in Page!Exact'
                          /\ p_loads'[k].at = "storing" => k = "reload" /\ p_loads'[k].doc \in Page!Covered'
        BY DEF Page!LoadsCovered
    <2>2. Page!cache' = Page!cache
        BY DEF Page!cache
    <2>3. CASE k = "reload"
        BY <1>2, <1>4, <1>5, <2>3 DEF Grows
    <2>4. CASE k # "reload"
        BY <1>1, <1>4, <1>5, <2>1, <2>2, <2>4 DEF Page!LoadsCovered, Grows
    <2> QED BY <2>3, <2>4
<1>9. Page!ModesTell'
    <2>1. \A k \in Page!Kinds : p_loads'[k] # None => p_loads[k] # None
        BY <1>4
    <2>2. Page!saving' = Page!saving /\ (Page!Loading' => Page!Loading)
        BY <2>1 DEF Page!saving, Page!Loading
    <2> QED BY <1>1, <2>1, <2>2 DEF Page!ModesTell
<1> QED BY <1>6, <1>7, <1>8, <1>9 DEF Page!PageInv

(* A load that ends shows its document.                                    *)
LEMMA LoadApplies ==
    ASSUME Page!PageInv, NEW kind \in Page!Kinds, Page!Finish(kind), NEW doc \in Page!Covered, NEW from \in Page!Sources,
           from = "server" => doc \in Page!Exact, Page!applyRemoteStudio(doc, from),
           UNCHANGED <<p_log, p_past, p_future, p_paired, p_layout, p_profile, p_queued, p_activeId, p_request, p_overlapped>>,
           {p_deviceFlag', p_activeLocalProfile', p_deviceWorkspace'} \subseteq BOOLEAN,
           p_snapshot' \in Page!Covered \cup {None}, p_snapshot # None => p_snapshot' # None,
           p_connection' \in {"connecting", "online", "offline"},
           p_spent' \in [{"typed", "others", "loads", "actions", "failures"} -> Nat],
           p_loads[kind] # None,
           ~p_overlapped => (~p_activeLocalProfile' /\ ~p_deviceWorkspace' => from = "server")
    PROVE  Page!PageInv'
<1>1. Page!TypeOK /\ Page!ModesTell
    BY DEF Page!PageInv
<1>2. /\ p_loads' \in [Page!Kinds -> Page!Load \cup {None}] /\ p_loads'[kind] = None
      /\ \A k \in Page!Kinds : p_loads'[k] \in {p_loads[k], None}
    BY <1>1, FinishTypes
<1>3. {p_deviceFlag', p_activeId', p_activeLocalProfile', p_deviceWorkspace', p_overlapped'} \subseteq BOOLEAN
    BY <1>1 DEF Page!TypeOK
<1>4. ~p_overlapped' => p_loads'["reload"] = None
    BY <1>1, <1>2 DEF Page!ModesTell, Page!Kinds
<1> QED BY <1>2, <1>3, <1>4, ApplyHolds

LEMMA LoadSteps ==
    ASSUME Page!PageInv,
           Page!ReloadFromDevice \/ Page!ReloadApplies \/ Page!ReloadStored \/ Page!ReturnApplies \/ Page!DeviceApplies
    PROVE  Page!PageInv'
<1>1. Page!TypeOK /\ Page!DocumentsCovered /\ Page!LoadsCovered /\ Page!ModesTell
    BY DEF Page!PageInv
<1>2. /\ {p_deviceFlag, p_activeLocalProfile, p_deviceWorkspace} \subseteq BOOLEAN
      /\ p_snapshot \in Page!Covered \cup {None} /\ p_profile \in Page!Covered
      /\ p_connection \in {"connecting", "online", "offline"}
      /\ p_spent \in [{"typed", "others", "loads", "actions", "failures"} -> Nat]
      /\ {"reload", "return", "device"} \subseteq Page!Kinds /\ {"server", "device", "profile"} \subseteq Page!Sources
    BY <1>1, PageNames DEF Page!TypeOK, Page!DocumentsCovered, Page!Kinds, Page!Sources
<1>3. CASE Page!ReloadFromDevice
    <2>1. /\ p_loads["reload"] # None /\ Page!cache # None /\ Page!Finish("reload") /\ Page!applyRemoteStudio(Page!cache, "device")
          /\ p_activeLocalProfile' = FALSE /\ p_deviceWorkspace' = TRUE
          /\ UNCHANGED <<p_log, p_past, p_future, p_paired, p_snapshot, p_layout, p_queued, p_deviceFlag, p_activeId, p_profile,
                         p_connection, p_request, p_overlapped, p_spent>>
        BY <1>3 DEF Page!ReloadFromDevice, Page!fromDevice, Page!server, Page!local, Page!device
    <2>2. Page!cache \in Page!Covered
        BY <1>1, <2>1, CacheCovered
    <2> QED BY <1>2, <2>1, <2>2, LoadApplies
<1>4. CASE Page!ReloadApplies
    <2> DEFINE fetched == p_loads["reload"].doc
    <2>1. /\ p_loads["reload"] # None /\ p_loads["reload"].at = "fetched" /\ Page!Finish("reload") /\ p_snapshot' = fetched
          /\ UNCHANGED <<p_log, p_past, p_future, p_paired, p_layout, p_queued, p_activeId, p_profile,
                         p_connection, p_request, p_overlapped, p_spent>>
        BY <1>4 DEF Page!ReloadApplies, Page!server
    <2>2. fetched \in Page!Exact /\ fetched \in Page!Covered /\ fetched # None
        BY <1>1, <1>2, <2>1, ExactCovers, PageNames DEF Page!LoadsCovered
    <2>3. CASE p_activeId
        <3>1. /\ p_deviceWorkspace' = FALSE /\ p_activeLocalProfile' = TRUE /\ p_deviceFlag' = FALSE
              /\ Page!applyRemoteStudio(p_profile, "profile")
            BY <1>4, <2>3 DEF Page!ReloadApplies, Page!applyLocalProfile
        <3> HIDE DEF fetched
        <3> QED BY <1>2, <2>1, <2>2, <3>1, LoadApplies
    <2>4. CASE ~p_activeId
        <3>1. /\ p_deviceWorkspace' = FALSE /\ p_activeLocalProfile' = FALSE /\ p_deviceFlag' = p_deviceFlag
              /\ Page!applyRemoteStudio(fetched, "server")
            BY <1>4, <2>4 DEF Page!ReloadApplies
        <3> HIDE DEF fetched
        <3> QED BY <1>2, <2>1, <2>2, <3>1, LoadApplies
    <2> QED BY <2>3, <2>4
<1>5. CASE Page!ReloadStored
    <2> DEFINE stored == p_loads["reload"].doc
    <2>1. /\ p_loads["reload"] # None /\ p_loads["reload"].at = "storing" /\ Page!Finish("reload")
          /\ Page!applyRemoteStudio(stored, "device") /\ p_deviceFlag' = TRUE /\ p_connection' = "offline"
          /\ UNCHANGED <<p_log, p_past, p_future, p_paired, p_snapshot, p_layout, p_queued, p_activeId, p_profile,
                         p_activeLocalProfile, p_deviceWorkspace, p_request, p_overlapped, p_spent>>
        BY <1>5 DEF Page!ReloadStored, Page!server
    <2>2. stored \in Page!Covered
        BY <1>1, <1>2, <2>1 DEF Page!LoadsCovered
    <2>3. ~p_overlapped => p_deviceWorkspace'
        BY <1>1, <2>1 DEF Page!ModesTell
    <2> HIDE DEF stored
    <2>4. {p_deviceFlag', p_activeLocalProfile', p_deviceWorkspace'} \subseteq BOOLEAN
        BY <1>2, <2>1
    <2> QED BY <1>2, <2>1, <2>2, <2>3, <2>4, LoadApplies
<1>6. CASE Page!ReturnApplies
    <2> DEFINE fetched == p_loads["return"].doc
    <2>1. /\ p_loads["return"] # None /\ p_loads["return"].at = "fetched" /\ Page!Finish("return")
          /\ Page!applyRemoteStudio(fetched, "server")
          /\ p_deviceFlag' = FALSE /\ p_deviceWorkspace' = FALSE /\ p_activeLocalProfile' = FALSE
          /\ UNCHANGED <<p_log, p_past, p_future, p_paired, p_snapshot, p_layout, p_queued, p_activeId, p_profile,
                         p_connection, p_request, p_overlapped, p_spent>>
        BY <1>6 DEF Page!ReturnApplies, Page!server
    <2>2. fetched \in Page!Exact /\ fetched \in Page!Covered
        BY <1>1, <1>2, <2>1, ExactCovers DEF Page!LoadsCovered
    <2> HIDE DEF fetched
    <2> QED BY <1>2, <2>1, <2>2, LoadApplies
<1>7. CASE Page!DeviceApplies
    <2>1. /\ p_loads["device"] # None /\ Page!Finish("device") /\ Page!applyRemoteStudio(Page!cache, "device")
          /\ p_deviceFlag' = TRUE /\ p_deviceWorkspace' = TRUE /\ p_activeLocalProfile' = FALSE
          /\ UNCHANGED <<p_log, p_past, p_future, p_paired, p_snapshot, p_layout, p_queued, p_activeId, p_profile,
                         p_connection, p_request, p_overlapped, p_spent>>
        BY <1>7 DEF Page!DeviceApplies, Page!server
    <2>2. Page!cache \in Page!Covered
        BY <1>1, <1>2, <2>1, CacheCovered DEF Page!LoadsCovered
    <2> QED BY <1>2, <2>1, <2>2, LoadApplies
<1> QED BY <1>3, <1>4, <1>5, <1>6, <1>7

LEMMA ReloadFailsHolds ==
    ASSUME Page!PageInv, Page!ReloadFails
    PROVE  Page!PageInv'
<1>1. Page!TypeOK /\ Page!DocumentsCovered
    BY DEF Page!PageInv
<1>2. /\ p_loads["reload"] # None /\ "reload" \in Page!Kinds
      /\ UNCHANGED <<p_log, p_past, p_future, p_paired, p_snapshot, p_layout, p_queued, p_activeId, p_profile, p_request>>
      /\ p_spent' \in [{"typed", "others", "loads", "actions", "failures"} -> Nat]
    BY <1>1, SpendTypes DEF Page!ReloadFails, Page!server, Page!Kinds
<1>3. /\ {p_queued, p_deviceFlag, p_activeId, p_conflict} \subseteq BOOLEAN /\ p_connection \in {"connecting", "online", "offline"}
      /\ p_snapshot \in Page!Covered \cup {None} /\ p_profile \in Page!Covered /\ "profile" \in Page!Sources
    BY <1>1, PageNames DEF Page!TypeOK, Page!DocumentsCovered, Page!Sources
<1>4. CASE /\ Page!Finish("reload") /\ Page!applyLocalProfile /\ p_deviceFlag' = FALSE /\ p_connection' = "offline"
           /\ UNCHANGED p_overlapped
    <2>1. p_deviceWorkspace' = FALSE /\ p_activeLocalProfile' = TRUE /\ Page!applyRemoteStudio(p_profile, "profile")
        BY <1>4 DEF Page!applyLocalProfile
    <2>2. {p_deviceFlag', p_activeLocalProfile', p_deviceWorkspace'} \subseteq BOOLEAN
        BY <1>4, <2>1
    <2> QED BY <1>2, <1>3, <1>4, <2>1, <2>2, LoadApplies
<1>5. CASE /\ Page!cache # None /\ p_deviceWorkspace' = TRUE /\ Page!Step("reload", "storing", Page!cache)
           /\ UNCHANGED <<p_deviceFlag, p_connection, p_activeLocalProfile, p_studioBaseline, p_studioDraft, p_conflict,
                          p_origin, p_overlapped, p_seen>>
    BY <1>2, <1>5, StoringHolds
<1>6. CASE /\ Page!Finish("reload")
           /\ UNCHANGED <<p_deviceFlag, p_studioBaseline, p_studioDraft, p_activeLocalProfile, p_deviceWorkspace, p_connection,
                          p_conflict, p_origin, p_overlapped, p_seen>>
    <2>1. /\ p_loads' \in [Page!Kinds -> Page!Load \cup {None}]
          /\ \A k \in Page!Kinds : p_loads'[k] \in {p_loads[k], None}
        BY <1>1, <1>2, <1>6, FinishTypes
    <2> QED BY <1>2, <1>3, <1>6, <2>1, QuietHolds
<1> QED BY <1>4, <1>5, <1>6 DEF Page!ReloadFails, Page!page, Page!history

LEMMA PageInit ==
    ASSUME Page!Init
    PROVE  Page!PageInv
<1>1. /\ p_log = <<{}>> /\ p_past = <<>> /\ p_future = <<>> /\ p_paired \in BOOLEAN
      /\ p_snapshot = None /\ p_layout = None /\ p_queued = FALSE /\ p_deviceFlag = FALSE /\ p_activeId = FALSE
      /\ p_profile = [rev |-> 0, val |-> {}] /\ p_studioBaseline = None /\ p_studioDraft = None
      /\ p_activeLocalProfile = FALSE /\ p_deviceWorkspace = FALSE /\ p_connection = "connecting" /\ p_conflict = FALSE
      /\ p_request = None /\ p_origin = [base |-> None, draft |-> None] /\ p_overlapped = FALSE /\ p_seen = {}
      /\ p_spent = [typed |-> 0, others |-> 0, loads |-> 0, actions |-> 0, failures |-> 0]
      /\ p_loads = [k \in Page!Kinds |-> IF k = "reload" THEN [at |-> "start", doc |-> None] ELSE None]
    BY DEF Page!Init
<1>2. p_profile \in Page!Doc /\ p_profile \in Page!Covered /\ p_profile \in Page!Shown
    BY <1>1 DEF Page!Doc, Page!Covered, Page!Shown
<1>3. \A k \in Page!Kinds : p_loads[k] # None => k = "reload" /\ p_loads[k].at = "start"
    BY <1>1
<1>4. Page!TypeOK
    <2>1. [at |-> "start", doc |-> None] \in Page!Load
        BY DEF Page!Load
    <2>2. p_loads \in [Page!Kinds -> Page!Load \cup {None}]
        BY <1>1, <2>1
    <2>3. p_spent \in [{"typed", "others", "loads", "actions", "failures"} -> Nat]
        <3>1. DOMAIN p_spent = {"typed", "others", "loads", "actions", "failures"}
            BY <1>1
        <3> QED BY <1>1, <3>1
    <2>4. p_log \in Seq(SUBSET Page!Edits) \ {<<>>} /\ {p_past, p_future} \subseteq Seq(SUBSET Page!Edits)
        BY <1>1
    <2>5. p_origin \in [base : Page!Sources \cup {None}, draft : Page!Sources \cup {None}]
        BY <1>1
    <2> QED BY <1>1, <1>2, <2>2, <2>3, <2>4, <2>5 DEF Page!TypeOK
<1>5. Page!DocumentsCovered
    <2>1. None # "server" /\ p_origin.base = None
        BY <1>1, PageNames
    <2> QED BY <1>1, <1>2, <2>1 DEF Page!DocumentsCovered
<1>6. Page!RequestCovered /\ Page!LoadsCovered
    BY <1>1, <1>3 DEF Page!RequestCovered, Page!LoadsCovered
<1>7. Page!ModesTell
    <2>1. "reload" \in Page!Kinds
        BY DEF Page!Kinds
    <2> QED BY <1>1, <1>3, <2>1 DEF Page!ModesTell, Page!saving
<1> QED BY <1>4, <1>5, <1>6, <1>7 DEF Page!PageInv

LEMMA PageStep ==
    ASSUME Page!PageInv, Page!Next
    PROVE  Page!PageInv'
<1>1. CASE Page!User
    BY <1>1, TypeHolds, DiscardHolds, AskSteps, StartSteps, ChooseHolds DEF Page!User
<1>2. CASE Page!Server
    BY <1>2, OtherSavesHolds, ExecuteHolds, FetchedHolds, QuietSteps DEF Page!Server
<1>3. CASE Page!Answer
    BY <1>3, QuietSteps, AnswerSaveHolds, AnswerActionHolds, AnswerCopyHolds, CopyAppliesHolds, LoadSteps, ReloadFailsHolds DEF Page!Answer
<1>4. CASE Page!SceneConnection
    BY <1>4, QuietSteps
<1> QED BY <1>1, <1>2, <1>3, <1>4 DEF Page!Next

(* A page at rest.                                                         *)
LEMMA PageRests ==
    ASSUME Page!PageInv, UNCHANGED PageVars
    PROVE  Page!PageInv'
<1>1. UNCHANGED <<p_log, p_past, p_future, p_paired, p_snapshot, p_layout, p_queued, p_deviceFlag, p_activeId, p_profile,
                  p_studioBaseline, p_studioDraft, p_activeLocalProfile, p_deviceWorkspace, p_connection, p_conflict,
                  p_request, p_loads, p_origin, p_overlapped, p_seen, p_spent>>
    BY DEF PageVars
<1>2. /\ {p_queued', p_deviceFlag', p_activeId', p_conflict'} \subseteq BOOLEAN /\ p_connection' \in {"connecting", "online", "offline"}
      /\ p_spent' \in [{"typed", "others", "loads", "actions", "failures"} -> Nat]
      /\ p_loads' \in [Page!Kinds -> Page!Load \cup {None}] /\ \A k \in Page!Kinds : p_loads'[k] \in {p_loads[k], None}
    BY <1>1 DEF Page!PageInv, Page!TypeOK
<1> QED BY <1>1, <1>2, QuietHolds

-----------------------------------------------------------------------------
(* The properties of the page.                                             *)

(* Only the other operator's saves and requests that arrive commit, and    *)
(* only answers end a request.                                             *)
LEMMA PageMoves ==
    ASSUME Page!Next
    PROVE  /\ p_log' = p_log \/ Page!OtherOperatorSaves \/ Page!Execute
           /\ \/ p_request = None \/ p_request' = p_request \/ Page!Execute
              \/ Page!RequestFails \/ Page!AnswerConflict \/ Page!AnswerSave \/ Page!AnswerAction \/ Page!AnswerCopy \/ Page!CopyApplies
<1>1. CASE Page!User
    <2>1. CASE Page!Type \/ Page!Discard
        BY <2>1 DEF Page!Type, Page!Discard, Page!server
    <2>2. CASE Page!Save \/ Page!RunStudioAction \/ Page!CopyDeviceToServer
        BY <2>2 DEF Page!Save, Page!RunStudioAction, Page!CopyDeviceToServer, Page!server, Page!saving
    <2>3. CASE Page!Reload \/ Page!ReturnToServer \/ Page!LoadDeviceLayout \/ Page!ChooseProfile
        BY <2>3 DEF Page!Reload, Page!ReturnToServer, Page!LoadDeviceLayout, Page!ChooseProfile, Page!server
    <2> QED BY <1>1, <2>1, <2>2, <2>3 DEF Page!User
<1>2. CASE Page!Server
    <2>1. CASE Page!OtherOperatorSaves
        BY <2>1 DEF Page!OtherOperatorSaves
    <2>2. CASE Page!Execute
        BY <2>2
    <2>3. CASE Page!Fetched \/ Page!QueueSynced
        BY <2>3 DEF Page!Fetched, Page!QueueSynced, Page!server
    <2> QED BY <1>2, <2>1, <2>2, <2>3 DEF Page!Server
<1>3. CASE Page!Answer
    <2>1. CASE Page!AnswerConflict \/ Page!AnswerSave \/ Page!AnswerAction \/ Page!AnswerCopy
              \/ Page!CopyApplies \/ Page!RequestFails
        BY <2>1 DEF Page!AnswerConflict, Page!AnswerSave, Page!AnswerAction, Page!AnswerCopy, Page!CopyApplies,
                     Page!RequestFails, Page!server
    <2>2. CASE Page!ReloadFromDevice \/ Page!ReloadApplies \/ Page!ReloadFails \/ Page!ReloadStored
        BY <2>2 DEF Page!ReloadFromDevice, Page!ReloadApplies, Page!ReloadFails, Page!ReloadStored, Page!server
    <2>3. CASE Page!ReturnApplies \/ Page!ReturnFails \/ Page!DeviceApplies
        BY <2>3 DEF Page!ReturnApplies, Page!ReturnFails, Page!DeviceApplies, Page!server
    <2> QED BY <1>3, <2>1, <2>2, <2>3 DEF Page!Answer
<1>4. CASE Page!SceneConnection
    BY <1>4 DEF Page!SceneConnection, Page!server
<1> QED BY <1>1, <1>2, <1>3, <1>4 DEF Page!Next

(* A commit of the page that takes a revision away names it, and what the  *)
(* others had put there was shown.                                         *)
LEMMA CommitsShown ==
    ASSUME Page!PageInv, Page!Next
    PROVE  (Page!Last(p_log) \ Page!Last(p_log)') \cap Page!Others \subseteq p_seen
<1>1. Page!TypeOK /\ Page!RequestCovered
    BY DEF Page!PageInv
<1>2. CASE p_log' = p_log
    <2>1. Page!Last(p_log)' = Page!Last(p_log)
        BY <1>2 DEF Page!Last
    <2> QED BY <2>1
<1>3. CASE Page!OtherOperatorSaves
    <2> DEFINE val == Page!Last(p_log) \cup {<<"other", p_spent.others + 1>>}
    <2>1. p_log' = Append(p_log, val) /\ p_log \in Seq(SUBSET Page!Edits)
        BY <1>1, <1>3 DEF Page!OtherOperatorSaves, Page!replaceStudio, Page!Commit, Page!TypeOK
    <2>2. Page!Last(p_log)' = val
        <3> HIDE DEF val
        <3> QED BY <2>1 DEF Page!Last
    <2> QED BY <2>2
<1>4. CASE Page!Execute
    <2>1. p_request # None /\ p_seen' = p_seen /\ (ToProfile \/ ToDevice \/ Refused \/ ToServer \/ Acted)
        BY <1>4, ExecuteCases
    <2>2. CASE ToProfile \/ ToDevice \/ Refused
        BY <1>2, <2>2 DEF ToProfile, ToDevice, Refused
    <2>3. SUFFICES ASSUME ToServer \/ Acted
                   PROVE  (Page!Last(p_log) \ Page!Last(p_log)') \cap Page!Others \subseteq p_seen
        BY <2>1, <2>2
    <2>4. Page!Last(p_log) \cap Page!Others \subseteq p_request.doc.val \cup p_seen
        <3>1. p_request.doc \in Page!Covered /\ p_request.doc.rev = Page!Current.rev
            BY <1>1, <2>1, <2>3 DEF Page!RequestCovered, ToServer, Acted
        <3>2. Len(p_log) \in Nat /\ Page!Current.rev = Len(p_log) - 1 /\ Page!Last(p_log) = p_log[Len(p_log)]
            BY <1>1, CurrentExact DEF Page!TypeOK, Page!Last
        <3>3. p_request.doc.rev + 1 = Len(p_log)
            BY <3>1, <3>2
        <3> QED BY <3>1, <3>2, <3>3 DEF Page!Covered
    <2>5. CASE ToServer
        <3>1. /\ p_request.doc.val \in SUBSET Page!Edits /\ Page!Commit(p_request.doc.val, Append(p_past, Page!Last(p_log)), <<>>)
              /\ Append(p_past, Page!Last(p_log)) \in Seq(SUBSET Page!Edits) /\ <<>> \in Seq(SUBSET Page!Edits)
            <4>1. p_request.doc \in Page!Doc
                BY <1>1, <2>1 DEF Page!TypeOK, Page!Request
            <4>2. p_request.doc.val \in SUBSET Page!Edits
                BY <4>1 DEF Page!Doc, Page!Edits
            <4>3. Page!Commit(p_request.doc.val, Append(p_past, Page!Last(p_log)), <<>>)
                BY <2>5 DEF ToServer
            <4>4. Append(p_past, Page!Last(p_log)) \in Seq(SUBSET Page!Edits)
                BY <1>1, StackTypes
            <4> QED BY <4>2, <4>3, <4>4
        <3>2. Page!Last(p_log') = p_request.doc.val
            BY <1>1, <3>1, CommitAdds
        <3> QED BY <2>4, <3>2 DEF Page!Last
    <2>6. CASE Acted
        <3>1. p_request.doc \in Page!Shown
            BY <1>1, <2>1, <2>6 DEF Page!RequestCovered, Acted
        <3> QED BY <2>4, <3>1 DEF Page!Shown
    <2> QED BY <2>3, <2>5, <2>6
<1> QED BY <1>2, <1>3, <1>4, PageMoves

(* An answer to a save or a copy keeps what was typed: the last step of a  *)
(* copy what was there when its answer was looked at.                      *)
LEMMA AnswersKeepTyping ==
    ASSUME Page!PageInv, Page!Next, p_request # None, p_request' = None, p_studioDraft # None
    PROVE  /\ p_request.kind \in {"profile", "device", "server", "copy"} => p_studioDraft.val \subseteq p_studioDraft'.val
           /\ p_request.kind = "copied" => p_studioDraft.val \cap p_request.base.val \subseteq p_studioDraft'.val
<1>1. Page!TypeOK /\ Page!RequestCovered
    BY DEF Page!PageInv
<1>2. CASE Page!RequestFails \/ Page!AnswerConflict
    BY <1>2 DEF Page!RequestFails, Page!AnswerConflict, Page!page
<1>3. CASE Page!AnswerSave
    <2>1. /\ Page!commitSavedStudio(p_request.reply, p_request.doc, p_request.kind)
          /\ p_request.reply.val = p_request.doc.val
        BY <1>3, AnswerCarries DEF Page!AnswerSave
    <2>2. CASE p_studioDraft = p_request.doc
        BY <2>1, <2>2 DEF Page!commitSavedStudio, Page!applyRemoteStudio
    <2>3. CASE p_studioDraft # p_request.doc
        <3>1. p_studioDraft' = [p_studioDraft EXCEPT !.rev = p_request.reply.rev]
            BY <2>1, <2>3 DEF Page!commitSavedStudio
        <3>2. p_studioDraft \in Page!Doc
            BY <1>1 DEF Page!TypeOK
        <3> QED BY <3>1, <3>2 DEF Page!Doc
    <2> QED BY <2>2, <2>3
<1>4. CASE Page!AnswerAction
    BY <1>4 DEF Page!AnswerAction
<1>5. CASE Page!AnswerCopy
    <2>1. p_studioDraft' = p_studioDraft
        BY <1>5 DEF Page!AnswerCopy, Page!page
    <2> QED BY <2>1
<1>6. CASE Page!CopyApplies
    <2>1. /\ Page!applyRemoteStudio(p_request.reply, "server") /\ p_request.kind = "copied"
          /\ p_request.reply.val = p_request.doc.val
        BY <1>6, AnswerCarries DEF Page!CopyApplies
    <2>2. p_request.base.val \subseteq p_request.doc.val
        BY <1>1, <2>1 DEF Page!RequestCovered
    <2> QED BY <2>1, <2>2 DEF Page!applyRemoteStudio
<1>7. ~Page!Execute
    BY ExecuteHolds
<1> QED BY <1>2, <1>3, <1>4, <1>5, <1>6, <1>7, PageMoves

(* No edit is lost: a commit of the page takes away no edit of another     *)
(* operator that the page has not shown, the answer to a save takes away   *)
(* nothing typed meanwhile (that to a copy nothing typed before it was     *)
(* looked at, App.tsx:362), only the server's documents are saved to the   *)
(* server, and a document called saved is what the server has, whatever    *)
(* the number of edits, loads, saves and failures.                         *)
THEOREM NobodysEditIsLostTheorem == AnySpec => NobodysEditIsLost
<1>1. AnyInit => Page!PageInv
    BY PageInit DEF AnyInit
<1>2. Page!PageInv /\ [AnyNext]_all => Page!PageInv'
    <2>1. ASSUME Page!PageInv, [AnyNext]_all
          PROVE  Page!Next \/ UNCHANGED PageVars
        BY <2>1 DEF AnyNext, all
    <2> QED BY <2>1, PageStep, PageRests
<1>3. Page!PageInv => Page!CleanMeansSaved
    BY DEF Page!PageInv, Page!TypeOK, Page!DocumentsCovered, Page!ModesTell, Page!CleanMeansSaved, Page!dirty, Page!Exact
<1>4. [AnyNext]_all => [Page!Next]_(Page!vars)
    <2>1. ASSUME [AnyNext]_all
          PROVE  Page!Next \/ UNCHANGED PageVars
        BY <2>1 DEF AnyNext, all
    <2>2. UNCHANGED PageVars => UNCHANGED Page!vars
        BY DEF PageVars, Page!vars, Page!server, Page!device, Page!local, Page!page, Page!history
    <2> QED BY <2>1, <2>2
<1>5. Page!PageInv /\ [Page!Next]_(Page!vars) =>
        [(Page!Last(p_log) \ Page!Last(p_log)') \cap Page!Others \subseteq p_seen]_(Page!vars)
    BY CommitsShown
<1>6. Page!PageInv /\ [Page!Next]_(Page!vars) =>
        [p_request # None /\ p_request' = None /\ p_studioDraft # None =>
           /\ p_request.kind \in {"profile", "device", "server", "copy"} => p_studioDraft.val \subseteq p_studioDraft'.val
           /\ p_request.kind = "copied" => p_studioDraft.val \cap p_request.base.val \subseteq p_studioDraft'.val]_(Page!vars)
    BY AnswersKeepTyping
<1>7. Page!PageInv /\ [Page!Next]_(Page!vars) =>
        [p_log' # p_log /\ p_request' # p_request /\ p_request.kind = "server" /\ ~p_overlapped
            => p_request.from = "server"]_(Page!vars)
    <2>1. SUFFICES ASSUME Page!PageInv, Page!Next, p_log' # p_log, p_request' # p_request,
                          p_request.kind = "server", ~p_overlapped
                   PROVE  p_request.from = "server"
        OBVIOUS
    <2>2. Page!OtherOperatorSaves => p_request' = p_request
        BY DEF Page!OtherOperatorSaves
    <2>3. Page!Execute => p_request # None
        BY ExecuteCases
    <2>4. p_request # None
        BY <2>1, <2>2, <2>3, PageMoves
    <2> QED BY <2>1, <2>4 DEF Page!PageInv, Page!ModesTell, Page!saving
<1>8. AnySpec => [](part = "page" => Page!PageInv /\ Page!CleanMeansSaved)
    BY <1>1, <1>2, <1>3, PTL DEF AnySpec
<1>9. AnySpec => Page!NoUnseenLoss
    BY <1>1, <1>2, <1>4, <1>5, PTL DEF AnySpec, Page!NoUnseenLoss
<1>10. AnySpec => Page!SaveKeepsTyping
    BY <1>1, <1>2, <1>4, <1>6, PTL DEF AnySpec, Page!SaveKeepsTyping, Page!saving
<1>11. AnySpec => Page!OnlyServerDocumentsSaved
    BY <1>1, <1>2, <1>4, <1>7, PTL DEF AnySpec, Page!OnlyServerDocumentsSaved
<1> QED BY <1>8, <1>9, <1>10, <1>11 DEF NobodysEditIsLost

(* Beside the page and the editor, the server does what it does alone: its *)
(* properties hold of the whole.                                           *)
COROLLARY ServerKept ==
    AnySpec => []StudioInv /\ RevisionsIdentify /\ OthersKept /\ SucceedsTogether /\ TimelineKept
<1>1. AnyInit => Init
    BY DEF AnyInit
<1>2. [AnyNext]_all => [Next]_vars
    BY DEF AnyNext, all, vars
<1>3. AnySpec => Spec
    BY <1>1, <1>2, PTL DEF AnySpec, Spec
<1> QED BY <1>3, StudioInvariant, RevisionsUnique, OthersNeverOverwritten, SuccessIsOnAir, TimelineNeverForks
=============================================================================
