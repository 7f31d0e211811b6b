----------------------------- MODULE DeviceSync -----------------------------
(* The offline device workspace of one paired browser: its encrypted scene *)
(* collection and upload queue in IndexedDB (web/src/localRuntime.ts), the *)
(* synchronization run of each of its windows (web/src/syncRuntime.ts,     *)
(* started by web/src/useDeviceSync.ts), and the sync endpoint it talks to *)
(* (v2/client_control_service.py), which other paired devices change too.  *)
(*                                                                         *)
(* A scene's content is the stamp of the edit that wrote it; Gone is a     *)
(* scene that is not there (never created, or deleted). A step is what     *)
(* runs under one hold of the 'sync-queue' lock, one IndexedDB transaction *)
(* or one request; a run holds the cross-window 'sync-run' lock throughout.*)
EXTENDS Naturals, FiniteSets, FiniteSetsExt, Functions

CONSTANTS
    Scenes,         \* scene ids
    Base,           \* the scene nobody deletes
    Windows,        \* windows of this browser
    MAX_QUEUE,      \* 256: mutations a queue may hold
    MAX_SYNC_BATCH, \* 64: scene changes one request may carry
    MaxEdits,       \* bound: scenes written by this browser and the others
    MaxForeign,     \* bound: of those, by the other devices
    MaxFaults,      \* bound: lost answers, failed requests and reloads
    None

Gone == 0

ASSUME SyncAssumption ==
    /\ Base \in Scenes
    /\ IsFiniteSet(Scenes)
    /\ MAX_QUEUE \in Nat \ {0} /\ MAX_SYNC_BATCH \in Nat \ {0}
    /\ MaxEdits \in Nat /\ MaxForeign \in Nat /\ MaxFaults \in Nat
    /\ None \notin Nat

VARIABLES
    server,     \* sync_documents: content, revision and last writer
    revision,   \* the server's revision counter
    granted,    \* the server has not revoked the device
    paired,     \* the browser holds its identity and private state
    queue,      \* syncQueue: base revision and mutations
    state,      \* syncState: pulled documents, their revision, conflicts
    layout,     \* localScenes: the device's scene collection
    draft,      \* each window's Studio draft
    run,        \* each window's synchronization or conflict resolution
    owed,       \* history: saves neither uploaded nor given up by the user
    unsafe,     \* contents the server refuses: invalid or out of scope
    stamp,      \* bound: edits so far
    foreign,    \* bound: edits by other devices
    faults      \* bound: faults so far

vars == <<server, revision, granted, paired, queue, state, layout, draft, run,
          owed, unsafe, stamp, foreign, faults>>
remote == <<server, revision, granted>>
disk == <<paired, queue, state, layout>>
bounds == <<unsafe, stamp, foreign, faults>>

\* A mutation is the content and, as history, seen and ahead: the revision
\* whose documents the writer could know of, and whether the scene was first
\* queued when the queue was already based on a later one.
Idle == [pc |-> "idle"]

\* A queue and a state that are not stored read as these.
NoScenes == [s \in {} |-> Gone]
NoQueue == [base |-> 0, muts |-> NoScenes]
NoState == [rev |-> 0, docs |-> NoScenes, conflicts |-> {}]

Init ==
    /\ server = [s \in Scenes |-> [rev |-> 0, by |-> "none",
                   content |-> IF s = Base THEN 1 ELSE Gone,
                   body |-> IF s = Base THEN 1 ELSE Gone]]
    /\ revision = 0
    /\ granted = TRUE /\ paired = TRUE
    /\ queue = NoQueue
    /\ state = NoState
    /\ layout = [s \in Scenes |-> IF s = Base THEN 1 ELSE Gone]
    /\ draft = [w \in Windows |-> layout]
    /\ run = [w \in Windows |-> Idle]
    /\ owed = [s \in Scenes |-> None]
    /\ unsafe = {} /\ stamp = 1 /\ foreign = 0 /\ faults = 0

---------------------------------------------------------------------------
(* The queue and the layout, each under the 'sync-queue' lock.             *)

Live(f) == {s \in DOMAIN f : f[s].content # Gone}
Pending == DOMAIN queue.muts # {}

\* saveSyncQueue: a queue without mutations is deleted.
QueueOf(base, muts) ==
    IF DOMAIN muts = {} THEN NoQueue ELSE [base |-> base, muts |-> muts]

\* queueStudioSync: every scene of the saved collection is written, and every
\* one the server is known to have and the collection has not is deleted.
SceneMutations(scenes) ==
    [s \in {t \in Scenes : scenes[t] # Gone} \cup Live(state.docs) |-> scenes[s]]

\* queueMutations: a queued scene that left the collection is deleted too, and
\* a queue keeps the base of its first mutation.
Queued(scenes) ==
    LET muts == queue.muts
        base == IF Pending THEN queue.base ELSE state.rev
        mutation(s) ==
            [content |-> scenes[s],
             seen |-> IF s \in DOMAIN muts /\ muts[s].content = scenes[s]
                        THEN muts[s].seen ELSE state.rev,
             ahead |-> IF s \in DOMAIN muts THEN muts[s].ahead ELSE base > state.rev]
    IN QueueOf(base, [s \in DOMAIN SceneMutations(scenes) \cup DOMAIN muts |-> mutation(s)])

\* saveQueuedStudio: one transaction.
SaveQueuedStudio(scenes) == queue' = Queued(scenes) /\ layout' = scenes

\* App.save in the device workspace.
Save(w, scenes) ==
    /\ paired
    /\ stamp <= MaxEdits
    /\ stamp' = stamp + 1
    /\ Cardinality(DOMAIN Queued(scenes).muts) <= MAX_QUEUE
    /\ draft' = [draft EXCEPT ![w] = scenes]
    /\ SaveQueuedStudio(scenes)
    /\ owed' = [s \in Scenes |-> IF s \in DOMAIN queue'.muts
                     /\ ~(s \in DOMAIN queue.muts /\ queue.muts[s].content = scenes[s])
                   THEN scenes[s] ELSE owed[s]]
    /\ UNCHANGED <<remote, paired, state, run, foreign>>

\* The editor accepts scenes that the server will not.
EditScene(w, s) ==
    /\ Save(w, [draft[w] EXCEPT ![s] = stamp + 1])
    /\ \/ UNCHANGED <<unsafe, faults>>
       \/ /\ faults < MaxFaults /\ faults' = faults + 1
          /\ unsafe' = unsafe \cup {stamp + 1}

RemoveScene(w, s) ==
    /\ s # Base /\ draft[w][s] # Gone
    /\ Save(w, [draft[w] EXCEPT ![s] = Gone])
    /\ UNCHANGED <<unsafe, faults>>

\* loadDeviceLayout.
LoadLayout(w) ==
    /\ paired
    /\ draft[w] # layout
    /\ draft' = [draft EXCEPT ![w] = layout]
    /\ UNCHANGED <<remote, disk, run, owed, bounds>>

AcknowledgedByName(request, answer) ==
    QueueOf(queue.base, Restrict(queue.muts, DOMAIN queue.muts \ answer.accepted))

\* acknowledgeQueue: what was saved again while the request was in flight
\* stays. Rebasing waits until no edit is left that was not answered.
Acknowledged(request, answer) ==
    LET kept == {s \in DOMAIN queue.muts : s \in answer.accepted
                     => request[s].content # queue.muts[s].content}
        rebase == answer.conflicts = {} /\ kept \subseteq answer.accepted
    IN QueueOf(IF rebase THEN answer.rev ELSE queue.base, Restrict(queue.muts, kept))

CachedAll(docs, muts) ==
    [s \in Scenes |-> IF s \in DOMAIN docs THEN docs[s].content ELSE layout[s]]
CachedKnown(docs, muts) ==
    [s \in Scenes |-> IF s \in DOMAIN docs \ DOMAIN muts /\ layout[s] # Gone
                        THEN docs[s].content ELSE layout[s]]

\* cacheUnqueuedScenes: a pulled scene does not replace one that is queued.
Cached(docs, muts) ==
    [s \in Scenes |-> IF s \in DOMAIN docs \ DOMAIN muts
                        THEN docs[s].content ELSE layout[s]]

---------------------------------------------------------------------------
(* The sync endpoint, and the other devices that write through it.         *)

\* _sync_state: the whole collection for cursor 0 or after a reset (a cursor
\* the journal no longer reaches), and what changed since the cursor.
Sent(since, reset) ==
    {s \in Scenes : \/ server[s].content # Gone /\ (reset \/ since = 0)
                    \/ ~reset /\ server[s].rev > since}

\* mergeDocuments: the newer revision of each document.
Merged(known, sent) ==
    [s \in DOMAIN known \cup sent |->
       IF s \in sent /\ (s \in DOMAIN known => server[s].rev >= known[s].rev)
         THEN [content |-> server[s].content, rev |-> server[s].rev]
         ELSE known[s]]

\* pull.
Pulled(st, reset) ==
    [rev |-> revision, conflicts |-> st.conflicts,
     docs |-> Merged(IF reset THEN NoScenes ELSE st.docs, Sent(st.rev, reset))]

ConflictingLate(muts, base) ==
    {s \in DOMAIN muts : /\ server[s].rev > base + 1
                         /\ (muts[s].content = Gone \/ muts[s].content # server[s].body)}

\* sync_mutations, for the mutations of one batch. A deleted document keeps
\* its body: a scene that was deleted elsewhere and is sent as it was is no
\* conflict, and comes back.
Conflicting(muts, base) ==
    {s \in DOMAIN muts : /\ server[s].rev > base
                         /\ (muts[s].content = Gone \/ muts[s].content # server[s].body)}
Unknown(muts) ==
    {s \in DOMAIN muts : /\ muts[s].content = Gone
                         /\ server[s].content = Gone /\ server[s].rev = 0}
Unchanged(muts) ==
    {s \in DOMAIN muts : /\ server[s].rev > 0
                         /\ muts[s].content # Gone
                         /\ muts[s].content = server[s].content}
\* A deletion of what never was refuses the batch, and so does a document that
\* is invalid, unsafe or out of scope.
Unsafe(muts) == {s \in DOMAIN muts : muts[s].content \in unsafe}
Refused(muts, base) == Unknown(muts) # {} \/ Unsafe(muts) \ Conflicting(muts, base) # {}
Written(muts, base) == DOMAIN muts \ (Conflicting(muts, base) \cup Unchanged(muts))
Committed(muts, written, who) ==
    LET place == CHOOSE p \in [written -> 1..Cardinality(written)] : IsInjective(p)
    IN [s \in Scenes |-> IF s \in written
          THEN [content |-> muts[s].content, rev |-> revision + place[s], by |-> who,
                body |-> IF muts[s].content = Gone THEN server[s].body
                         ELSE muts[s].content]
          ELSE server[s]]

ForeignEdit(s, content) ==
    /\ stamp <= MaxEdits /\ foreign < MaxForeign
    /\ content = Gone => s # Base /\ server[s].content # Gone
    /\ stamp' = stamp + 1 /\ foreign' = foreign + 1
    /\ server' = Committed([t \in {s} |-> [content |-> content]], {s}, "other")
    /\ revision' = revision + 1
    /\ UNCHANGED <<granted, disk, draft, run, owed, unsafe, faults>>

Revoke ==
    /\ granted /\ faults < MaxFaults
    /\ granted' = FALSE
    /\ faults' = faults + 1
    /\ UNCHANGED <<server, revision, disk, draft, run, owed, unsafe, stamp, foreign>>

---------------------------------------------------------------------------
(* synchronizeBrowserState: one run at a time in all windows.              *)

\* synchronizeBrowserState: a window's own run is joined, not repeated.
Busy(w) == run[w] # Idle
NeverLocked == FALSE
\* withRuntimeLock('sync-run'), across the windows.
Locked == \E w \in Windows : Busy(w)
At(w, pc) == run[w].pc = pc
Goto(w, r) == run' = [run EXCEPT ![w] = r]
\* Where the run goes once the queue it works on is known.
Upload(st, req) ==
    IF DOMAIN req.muts # {} /\ st.conflicts = {}
    THEN IF Cardinality(DOMAIN req.muts) > MAX_SYNC_BATCH THEN Idle
         ELSE [pc |-> "post", st |-> st, req |-> req]
    ELSE [pc |-> "finish", st |-> st]

Start(w) ==
    /\ paired /\ ~Locked
    /\ Goto(w, [pc |-> "pull", st |-> state])
    /\ UNCHANGED <<remote, disk, draft, owed, bounds>>

Pull(w, reset) ==
    /\ At(w, "pull") /\ granted
    /\ reset => run[w].st.rev > 0 /\ faults < MaxFaults
    /\ faults' = IF reset THEN faults + 1 ELSE faults
    /\ Goto(w, [pc |-> "queue", st |-> Pulled(run[w].st, reset)])
    /\ UNCHANGED <<remote, disk, draft, owed, unsafe, stamp, foreign>>

NothingMissing(st, muts) == {}

\* Deletions of scenes the server never saw, outside the conflicts.
Missing(st, muts) ==
    {s \in DOMAIN muts \ (DOMAIN st.docs \cup st.conflicts) : muts[s].content = Gone}

LoadQueue(w) ==
    LET st == run[w].st
    IN /\ At(w, "queue")
       /\ Goto(w, IF Missing(st, queue.muts) # {}
                  THEN [pc |-> "unknown", st |-> st, req |-> queue]
                  ELSE Upload(st, queue))
       /\ UNCHANGED <<remote, disk, draft, owed, bounds>>

\* History: the edits that are answered as they were saved.
Answered(muts, accepted) ==
    [s \in Scenes |-> IF s \in accepted /\ owed[s] = muts[s].content THEN None ELSE owed[s]]

DropUnknown(w) ==
    LET st == run[w].st
        missing == Missing(st, run[w].req.muts)
        answer == [accepted |-> missing, conflicts |-> {}, rev |-> st.rev]
    IN /\ At(w, "unknown")
       /\ queue' = Acknowledged(run[w].req.muts, answer)
       /\ owed' = Answered(run[w].req.muts, missing)
       /\ Goto(w, Upload(st, queue'))
       /\ UNCHANGED <<remote, paired, state, layout, draft, bounds>>

\* The server commits the batch or refuses it whole; the answer may be lost.
Post(w, lost) ==
    LET muts == run[w].req.muts
        basis == Min({run[w].req.base, run[w].st.rev})
        written == Written(muts, basis)
        accepted == DOMAIN muts \ Conflicting(muts, basis)
        refused == Refused(muts, basis)
    IN /\ At(w, "post") /\ granted
       /\ lost => faults < MaxFaults
       /\ faults' = IF lost THEN faults + 1 ELSE faults
       /\ server' = IF refused THEN server ELSE Committed(muts, written, "browser")
       /\ revision' = IF refused THEN revision ELSE revision + Cardinality(written)
       /\ owed' = IF refused THEN owed ELSE Answered(muts, accepted)
       /\ Goto(w, IF refused \/ lost THEN Idle
                  ELSE [pc |-> "answered", st |-> run[w].st, req |-> run[w].req,
                        answer |-> [accepted |-> accepted, rev |-> revision',
                                    conflicts |-> Conflicting(muts, basis)]])
       /\ UNCHANGED <<granted, disk, draft, unsafe, stamp, foreign>>

\* validSyncResponse: one verdict for each mutation sent, at a revision that
\* did not go back.
Valid(muts, answer, minimum) ==
    /\ answer.rev >= minimum
    /\ answer.accepted \cup answer.conflicts = DOMAIN muts
    /\ answer.accepted \cap answer.conflicts = {}

WithConflicts(st, conflicts) ==
    [rev |-> st.rev, docs |-> st.docs, conflicts |-> conflicts]

SaveConflicts(w) ==
    LET answer == run[w].answer
        st == WithConflicts(run[w].st, answer.conflicts)
    IN
    /\ At(w, "answered")
    /\ IF Valid(run[w].req.muts, answer, st.rev)
         THEN state' = st /\ Goto(w, [pc |-> "acknowledge", st |-> st,
                                          req |-> run[w].req, answer |-> answer])
         ELSE UNCHANGED state /\ Goto(w, Idle)
    /\ UNCHANGED <<remote, paired, queue, layout, draft, owed, bounds>>

Acknowledge(w) ==
    LET muts == run[w].req.muts
    IN /\ At(w, "acknowledge")
       /\ queue' = Acknowledged(muts, run[w].answer)
       /\ owed' = Answered(muts, run[w].answer.accepted)
       /\ Goto(w, [pc |-> "repull", st |-> run[w].st])
       /\ UNCHANGED <<remote, paired, state, layout, draft, bounds>>

PullAgain(w) ==
    /\ At(w, "repull") /\ granted
    /\ Goto(w, [pc |-> "finish", st |-> Pulled(run[w].st, FALSE)])
    /\ UNCHANGED <<remote, disk, draft, owed, bounds>>

Finish(w) ==
    /\ At(w, "finish")
    /\ state' = run[w].st
    /\ Goto(w, [pc |-> "cache", st |-> run[w].st])
    /\ UNCHANGED <<remote, paired, queue, layout, draft, owed, bounds>>

Cache(w) ==
    /\ At(w, "cache")
    /\ layout' = Cached(run[w].st.docs, queue.muts)
    /\ Goto(w, Idle)
    /\ UNCHANGED <<remote, paired, queue, state, draft, owed, bounds>>

\* A request that times out, fails or reaches nobody ends the run.
RequestFails(w) ==
    /\ run[w].pc \in {"pull", "post", "repull"}
    /\ faults < MaxFaults /\ faults' = faults + 1
    /\ Goto(w, Idle)
    /\ UNCHANGED <<remote, disk, draft, owed, unsafe, stamp, foreign>>

\* clearPrivateRuntimeState: identity, queue, documents and layout go at once.
ClearPrivateState ==
    /\ paired' = FALSE /\ queue' = NoQueue /\ state' = NoState
    /\ layout' = [s \in Scenes |-> Gone]
    /\ owed' = [s \in Scenes |-> None]

\* checkedJson on 401 or 403.
Denied(w) ==
    /\ run[w].pc \in {"pull", "post", "repull"} /\ ~granted
    /\ ClearPrivateState
    /\ Goto(w, Idle)
    /\ UNCHANGED <<remote, draft, bounds>>

\* A reload ends the window's run and releases the lock.
Reload(w) ==
    /\ Busy(w) /\ faults < MaxFaults
    /\ faults' = faults + 1
    /\ draft' = [draft EXCEPT ![w] = layout]
    /\ Goto(w, Idle)
    /\ UNCHANGED <<remote, disk, owed, unsafe, stamp, foreign>>

---------------------------------------------------------------------------
(* resolveSyncConflicts: the user's choice for every conflicting scene.    *)

Resolve(w, choice) ==
    /\ paired /\ ~Locked
    /\ state.conflicts # {}
    /\ queue' = IF choice = "server"
                THEN QueueOf(queue.base,
                             Restrict(queue.muts, DOMAIN queue.muts \ state.conflicts))
                ELSE QueueOf(state.rev, [s \in DOMAIN queue.muts |->
                       [content |-> queue.muts[s].content, seen |-> state.rev,
                        ahead |-> FALSE]])
    /\ owed' = [s \in Scenes |-> IF choice = "server" /\ s \in state.conflicts
                                  THEN None ELSE owed[s]]
    /\ Goto(w, [pc |-> "resolved", st |-> WithConflicts(state, {}), choice |-> choice])
    /\ UNCHANGED <<remote, paired, state, layout, draft, bounds>>

Resolved(w) ==
    /\ At(w, "resolved")
    /\ state' = run[w].st
    /\ Goto(w, [pc |-> IF run[w].choice = "server" THEN "cache" ELSE "pull", st |-> state'])
    /\ UNCHANGED <<remote, paired, queue, layout, draft, owed, bounds>>

---------------------------------------------------------------------------
SyncStep(w) ==
    \/ Start(w) \/ LoadQueue(w) \/ DropUnknown(w) \/ Post(w, FALSE)
    \/ Pull(w, FALSE) \/ SaveConflicts(w) \/ Acknowledge(w) \/ PullAgain(w)
    \/ Finish(w) \/ Cache(w) \/ Resolved(w) \/ Denied(w)

UserStep(w) ==
    \/ \E s \in Scenes : EditScene(w, s) \/ RemoveScene(w, s)
    \/ LoadLayout(w)
    \/ \E choice \in {"server", "local"} : Resolve(w, choice)

Fault(w) == RequestFails(w) \/ Reload(w) \/ Post(w, TRUE) \/ Pull(w, TRUE)

Next ==
    \/ \E w \in Windows : SyncStep(w) \/ UserStep(w) \/ Fault(w)
    \/ \E s \in Scenes : ForeignEdit(s, stamp + 1) \/ ForeignEdit(s, Gone)
    \/ Revoke

Spec == Init /\ [][Next]_vars
\* Every visible window retries at once and every 30 seconds, and each request
\* of a run is bounded by 15 seconds.
FairSpec == Spec /\ WF_vars(\E w \in Windows : SyncStep(w))

---------------------------------------------------------------------------
(* What the stores and the runs hold, and what of it the server has of      *)
(* another device.                                                         *)

Foreign(s) == server[s].by = "other" /\ server[s].content # Gone

\* Content of another device that the server still has came with a pull by r.
PulledBy(s, content, r) ==
    Foreign(s) /\ server[s].content = content => server[s].rev <= r

\* A queue based on a revision hides nothing newer than its writer had pulled.
Founded(s, m, base) ==
    Foreign(s) /\ ~m.ahead /\ server[s].rev <= base => server[s].rev <= m.seen

MutationOK(s, m) ==
    /\ m.content \in 0..stamp /\ (s = Base => m.content # Gone)
    /\ m.seen \in 0..state.rev /\ m.ahead \in BOOLEAN
    /\ PulledBy(s, m.content, m.seen)

QueueOK(q) ==
    /\ q.base \in 0..revision
    /\ DOMAIN q.muts \subseteq Scenes
    /\ \A s \in DOMAIN q.muts : MutationOK(s, q.muts[s]) /\ Founded(s, q.muts[s], q.base)

\* Pulled documents: what another device wrote by st.rev is among them.
StateOK(st) ==
    /\ st.rev \in 0..revision
    /\ DOMAIN st.docs \subseteq Scenes /\ st.conflicts \subseteq Scenes
    /\ \A s \in DOMAIN st.docs :
         /\ st.docs[s].content \in 0..stamp /\ (s = Base => st.docs[s].content # Gone)
         /\ st.docs[s].rev \in 0..st.rev
         /\ PulledBy(s, st.docs[s].content, st.rev)
    /\ \A s \in Scenes : Foreign(s) /\ server[s].rev <= st.rev => s \in DOMAIN st.docs

ScenesOK(scenes) ==
    \A s \in Scenes : /\ scenes[s] \in 0..stamp
                      /\ paired => PulledBy(s, scenes[s], state.rev)
                                   /\ (s = Base => scenes[s] # Gone)

\* A run's batch stays queued until its answer, as sent or saved again since.
StillQueued(muts) ==
    \A s \in DOMAIN muts :
        /\ s \in DOMAIN queue.muts
        /\ muts[s].seen <= queue.muts[s].seen
        /\ muts[s].ahead => queue.muts[s].ahead

\* What the answer says was accepted is this browser's, or was known to it,
\* up to the answer's revision.
AnswerOK(muts, answer) ==
    /\ answer.rev \in 0..revision
    /\ answer.accepted \subseteq DOMAIN muts /\ answer.conflicts \subseteq DOMAIN muts
    /\ \A s \in answer.accepted : Founded(s, muts[s], answer.rev)

Uploading == {"unknown", "post", "answered", "acknowledge"}
Stages == Uploading \cup {"pull", "queue", "repull", "finish", "cache", "resolved"}

RunOK(r) ==
    /\ r.pc \in Stages
    /\ StateOK(r.st) /\ state.rev <= r.st.rev
    /\ r.pc \in Uploading => QueueOK(r.req) /\ StillQueued(r.req.muts)
    /\ r.pc \in {"answered", "acknowledge"} => AnswerOK(r.req.muts, r.answer)
    /\ r.pc = "cache" => r.st.rev = state.rev
    /\ r.pc = "resolved" => r.choice \in {"server", "local"} /\ r.st.rev = state.rev

ServerOK ==
    /\ revision \in Nat
    /\ server[Base].content # Gone
    /\ \A s \in Scenes : /\ server[s].content \in 0..stamp
                         /\ server[s].rev \in 0..revision
                         /\ server[s].content \in {Gone, server[s].body}
                         /\ Foreign(s) => server[s].rev > 0

LayoutsOK ==
    /\ layout \in [Scenes -> Nat] /\ draft \in [Windows -> [Scenes -> Nat]]
    /\ ScenesOK(layout) /\ \A w \in Windows : ScenesOK(draft[w])

\* One run at a time in all windows.
RunsOK ==
    /\ run = [w \in Windows |-> run[w]]
    /\ \A w \in Windows : Busy(w) => RunOK(run[w]) /\ paired
    /\ \A v, w \in Windows : Busy(v) /\ Busy(w) => v = w

TypeOK ==
    /\ stamp \in Nat /\ owed \in [Scenes -> Nat \cup {None}]
    /\ ServerOK /\ QueueOK(queue) /\ StateOK(state) /\ LayoutsOK /\ RunsOK

\* An edit saved on the device is in the queue as saved until the server has
\* accepted it or the user has given it up ("later saves and unsubmitted edits
\* remain queued": acknowledgeQueue).
SavedEditsQueued ==
    \A s \in Scenes : owed[s] # None =>
        s \in DOMAIN queue.muts /\ queue.muts[s].content = owed[s]

\* The layout the device would load shows its own queued edits, whatever a run
\* pulls meanwhile (cacheUnqueuedScenes).
PendingScenesShown ==
    \A s \in DOMAIN queue.muts : layout[s] = queue.muts[s].content

\* Between them: what the device saved is neither lost nor hidden before it
\* is answered, whatever its windows' runs, reloads and other devices do.
EditsKept == TypeOK /\ SavedEditsQueued /\ PendingScenesShown

\* An upload replaces a scene of another device only when this browser had
\* pulled it before the edit was saved, or the user chose the local version
\* (baseRevision in queueMutations, acknowledgeQueue and resolveSyncConflicts:
\* "Rebasing unsubmitted edits could hide another device's genuine conflict"),
\* or when the scene was first queued ahead: after an acknowledgement moved the
\* queue to the answer's revision and before a pull reached that revision.
NoBlindUpload ==
    [][\A s \in Scenes :
         (Foreign(s) /\ server'[s].by = "browser")
         => \E w \in Windows : /\ At(w, "post")
                               /\ s \in DOMAIN run[w].req.muts
                               /\ \/ server[s].rev <= run[w].req.muts[s].seen
                                  \/ run[w].req.muts[s].ahead]_vars

\* What no run can upload: more scenes than one request may carry (a run ends
\* before it posts them), and a batch with a scene that the server refuses. It
\* stays queued until the user saves something else.
Stuck ==
    \/ Cardinality(DOMAIN queue.muts) > MAX_SYNC_BATCH
    \/ Unsafe(queue.muts) # {}

\* Whatever was queued is uploaded, or waits for the user's choice or for a
\* queue that the server can take.
Uploaded == ~Pending \/ state.conflicts # {} \/ Stuck \/ ~paired

\* A device with nothing left to upload has the server's scenes.
Converged ==
    paired /\ ~Pending /\ state.conflicts = {}
       => \A s \in Scenes : server[s].content # Gone => layout[s] = server[s].content
=============================================================================
