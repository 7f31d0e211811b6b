------------------------ MODULE ArchiveMediaProofs ------------------------
(* Theorems about two parts of the system that share no state.              *)
(*                                                                          *)
(* The upload queue (ArchiveQueue): its invariant ArchiveInv holds for      *)
(* every number of segments, workers, faults and queue places.              *)
(*                                                                          *)
(* What a page plays and shows (MediaSystem): PlaybackInv of a tile,        *)
(* ChannelInv of a track's channel, EventsInv of the events socket and      *)
(* TracksInv of the audio workspace are inductive, for any attempts, peers, *)
(* sockets, scenes, tracks and faults.                                      *)
EXTENDS ArchiveQueue, MediaSystem, Sequences, FiniteSetTheorems, WellFoundedInduction, TLAPS

\* The queue's bound is kept by whatever adds no outstanding job.
LEMMA NoMoreOutstanding ==
    ASSUME ArchiveAssumption, QueueBounded, Outstanding' \subseteq Outstanding
    PROVE  QueueBounded'
<1>1. IsFiniteSet(Outstanding)
  BY FS_Subset DEF Outstanding, ArchiveAssumption
<1>2. /\ Cardinality(Outstanding') <= Cardinality(Outstanding)
      /\ Cardinality(Outstanding') \in Nat /\ Cardinality(Outstanding) \in Nat
  BY <1>1, FS_Subset, FS_CardinalityType
<1> QED BY <1>2 DEF QueueBounded, ArchiveAssumption

LEMMA InitInv == ArchiveAssumption /\ Init => ArchiveInv
<1> SUFFICES ASSUME ArchiveAssumption, Init PROVE ArchiveInv
  OBVIOUS
<1>1. TypeOK
  BY DEF Init, TypeOK, Row, JobState, ArchiveAssumption
<1>2. Outstanding = {}
  BY DEF Init, Outstanding
<1>3. QueueBounded
  BY <1>2, FS_EmptySet DEF QueueBounded, ArchiveAssumption
<1>4. UploadedIsStored /\ OneUploader /\ CompletedIsUploaded
  BY DEF Init, UploadedIsStored, OneUploader, Busy, CompletedIsUploaded
<1>5. TaskUploading /\ VerifiedBefore /\ UpdateKept
  BY DEF Init, TaskUploading, Busy, VerifiedBefore, UpdateKept
<1> QED BY <1>1, <1>3, <1>4, <1>5 DEF ArchiveInv

\* The recorder changes integrity only.
LEMMA RecorderInv ==
    ASSUME ArchiveAssumption, ArchiveInv, NEW s \in Segments,
           Catalogue(s) \/ Delete(s)
    PROVE  ArchiveInv'
<1>1. /\ row' \in [Segments -> Row]
      /\ \A r \in Segments : row'[r].archive = row[r].archive
  BY DEF Catalogue, Delete, ArchiveInv, TypeOK, Row
<1>2. UNCHANGED <<written, job, due, scanned, pc, task, store, crashes, errors>>
  BY DEF Catalogue, Delete, queueVars, workerVars
<1>3. TypeOK'
  BY <1>1, <1>2 DEF ArchiveInv, TypeOK
<1>4. QueueBounded' /\ OneUploader' /\ TaskUploading' /\ VerifiedBefore'
  BY <1>2 DEF ArchiveInv, QueueBounded, Outstanding, OneUploader, Busy, TaskUploading,
              VerifiedBefore
<1>5. UploadedIsStored' /\ CompletedIsUploaded'
  BY <1>1, <1>2 DEF ArchiveInv, UploadedIsStored, CompletedIsUploaded
<1>6. UpdateKept'
  BY <1>1, <1>2 DEF ArchiveInv, UpdateKept, TaskUploading, Busy
<1> QED BY <1>3, <1>4, <1>5, <1>6 DEF ArchiveInv

LEMMA EnqueueInv ==
    ASSUME ArchiveAssumption, ArchiveInv, NEW s \in Segments, Enqueue(s)
    PROVE  ArchiveInv'
<1>1. UNCHANGED <<row, written, pc, task, store, crashes, errors>>
  BY DEF Enqueue, catalogVars, workerVars
<1>2. /\ job' \in [Segments -> JobState]
      /\ due' \subseteq Segments
      /\ \/ job' = job
         \/ Room /\ job[s] = "none" /\ job' = [job EXCEPT ![s] = "queued"]
  BY DEF Enqueue, queueVars, ArchiveInv, TypeOK, JobState
<1>3. TypeOK'
  BY <1>1, <1>2 DEF Enqueue, ArchiveInv, TypeOK
<1>4. QueueBounded'
  <2>1. CASE job' = job
    BY <2>1, NoMoreOutstanding DEF Outstanding, ArchiveInv
  <2>2. CASE Room /\ job[s] = "none" /\ job' = [job EXCEPT ![s] = "queued"]
    <3>1. Outstanding' = Outstanding \cup {s} /\ s \notin Outstanding
      BY <2>2 DEF Outstanding, ArchiveInv, TypeOK
    <3>2. IsFiniteSet(Outstanding)
      BY FS_Subset DEF Outstanding, ArchiveAssumption
    <3>3. Cardinality(Outstanding') = Cardinality(Outstanding) + 1
      BY <3>1, <3>2, FS_AddElement
    <3>4. Cardinality(Outstanding) \in Nat /\ Cardinality(Outstanding) < MAX_QUEUE
      BY <2>2, <3>2, FS_CardinalityType DEF Room
    <3> QED BY <3>3, <3>4 DEF QueueBounded, ArchiveAssumption
  <2> QED BY <1>2, <2>1, <2>2
<1>5. OneUploader' /\ UploadedIsStored' /\ VerifiedBefore' /\ UpdateKept'
  BY <1>1 DEF ArchiveInv, OneUploader, Busy, UploadedIsStored, VerifiedBefore, UpdateKept
<1>6. TaskUploading' /\ CompletedIsUploaded'
  BY <1>1, <1>2 DEF ArchiveInv, TaskUploading, Busy, CompletedIsUploaded, TypeOK
<1> QED BY <1>3, <1>4, <1>5, <1>6 DEF ArchiveInv

LEMMA ClaimInv ==
    ASSUME ArchiveAssumption, ArchiveInv,
           NEW w \in Workers, NEW s \in Segments, Claim(w, s)
    PROVE  ArchiveInv'
<1>1. /\ pc[w] = "idle" /\ job[s] \in {"queued", "retry"}
      /\ job' = [job EXCEPT ![s] = "uploading"]
      /\ task' = [task EXCEPT ![w] = s]
      /\ pc' = [pc EXCEPT ![w] = "claimed"]
      /\ UNCHANGED <<row, written, due, scanned, store, crashes, errors>>
  BY DEF Claim, Claimable, Goto, catalogVars
<1>2. TypeOK'
  BY <1>1 DEF ArchiveInv, TypeOK, JobState
<1>3. QueueBounded'
  <2>1. Outstanding' \subseteq Outstanding
    BY <1>1 DEF Outstanding, ArchiveInv, TypeOK
  <2> QED BY <2>1, NoMoreOutstanding DEF ArchiveInv
<1>4. \A v \in Workers \ {w} : Busy(v) => task[v] # s
  BY <1>1 DEF ArchiveInv, TaskUploading
<1>5. OneUploader'
  BY <1>1, <1>4 DEF ArchiveInv, OneUploader, Busy, TypeOK
<1>6. TaskUploading'
  BY <1>1, <1>4 DEF ArchiveInv, TaskUploading, Busy, TypeOK
<1>7. UploadedIsStored' /\ CompletedIsUploaded'
  BY <1>1 DEF ArchiveInv, UploadedIsStored, CompletedIsUploaded, TypeOK
<1>8. VerifiedBefore' /\ UpdateKept'
  BY <1>1 DEF ArchiveInv, VerifiedBefore, UpdateKept, TypeOK
<1> QED BY <1>2, <1>3, <1>5, <1>6, <1>7, <1>8 DEF ArchiveInv

LEMMA ScanReadInv ==
    ASSUME ArchiveInv, ScanRead PROVE ArchiveInv'
<1>1. /\ UNCHANGED <<row, written, job, due, pc, task, store, crashes, errors>>
      /\ scanned' \subseteq Segments
  BY DEF ScanRead, Local, catalogVars, queueVars, workerVars
<1>2. TypeOK'
  BY <1>1 DEF ArchiveInv, TypeOK
<1> QED BY <1>1, <1>2
        DEF ArchiveInv, UploadedIsStored, QueueBounded, Outstanding, OneUploader, Busy,
            CompletedIsUploaded, TaskUploading, VerifiedBefore, UpdateKept

LEMMA BackoffEndsInv ==
    ASSUME ArchiveInv, NEW s \in Segments, BackoffEnds(s) PROVE ArchiveInv'
<1>1. /\ UNCHANGED <<row, written, job, scanned, pc, task, store, crashes, errors>>
      /\ due' \subseteq Segments
  BY DEF BackoffEnds, catalogVars, workerVars, ArchiveInv, TypeOK
<1>2. TypeOK'
  BY <1>1 DEF ArchiveInv, TypeOK
<1> QED BY <1>1, <1>2
        DEF ArchiveInv, UploadedIsStored, QueueBounded, Outstanding, OneUploader, Busy,
            CompletedIsUploaded, TaskUploading, VerifiedBefore, UpdateKept

\* A worker that goes on with its segment, towards the bucket or to its
\* failure, leaves both databases alone.
LEMMA OnwardInv ==
    ASSUME ArchiveInv, NEW w \in Workers, Busy(w),
           NEW place \in {"verify", "failed", "update"},
           pc' = [pc EXCEPT ![w] = place],
           place = "update" => Digest[task[w]] \in store,
           store \subseteq store', store' \subseteq {Digest[s] : s \in Segments},
           errors' \in 0..MaxFaults, crashes + errors' <= MaxFaults,
           errors' = 0 => errors = 0,
           UNCHANGED <<row, job, due, scanned, task, crashes>>,
           written' \subseteq written,
           written' = written \/ errors' # 0
    PROVE  ArchiveInv'
<1>1. TypeOK'
  BY DEF ArchiveInv, TypeOK
<1>2. \A v \in Workers : Busy(v)' <=> Busy(v)
  BY DEF Busy, ArchiveInv, TypeOK
<1>3. OneUploader' /\ TaskUploading'
  BY <1>2 DEF ArchiveInv, OneUploader, TaskUploading
<1>4. UploadedIsStored' /\ CompletedIsUploaded'
  BY DEF ArchiveInv, UploadedIsStored, CompletedIsUploaded
<1>5. VerifiedBefore'
  BY DEF ArchiveInv, VerifiedBefore, TypeOK
<1>6. UpdateKept'
  BY DEF ArchiveInv, UpdateKept, TypeOK
<1>7. QueueBounded'
  BY DEF ArchiveInv, QueueBounded, Outstanding
<1> QED BY <1>1, <1>3, <1>4, <1>5, <1>6, <1>7 DEF ArchiveInv

\* The request and its confirmation.
LEMMA UploadInv ==
    ASSUME ArchiveInv, NEW w \in Workers,
           NEW stored \in BOOLEAN, NEW answered \in BOOLEAN,
           Put(w, stored, answered) \/ Verify(w, answered)
    PROVE  ArchiveInv'
<1>1. Busy(w) /\ task[w] \in Segments
  BY DEF Put, Verify, Busy, ArchiveInv, TaskUploading
<1>2. store \subseteq store' /\ store' \subseteq {Digest[s] : s \in Segments}
  BY <1>1 DEF Put, Verify, ArchiveInv, TypeOK
<1>3. UNCHANGED <<row, written, job, due, scanned, task, crashes, errors>>
  BY DEF Put, Verify, catalogVars, queueVars
<1>4. \E place \in {"verify", "failed", "update"} :
         /\ pc' = [pc EXCEPT ![w] = place]
         /\ place = "update" => Digest[task[w]] \in store
  BY DEF Put, Verify, Goto, Confirmed
<1>5. /\ errors' \in 0..MaxFaults /\ crashes + errors' <= MaxFaults
      /\ errors' = 0 => errors = 0
  BY <1>3 DEF ArchiveInv, TypeOK
<1> QED BY <1>1, <1>2, <1>3, <1>4, <1>5, OnwardInv

\* A database error: whatever it rolls back is no longer promised.
LEMMA ErrorInv ==
    ASSUME ArchiveAssumption, ArchiveInv, NEW w \in Workers,
           CatalogError(w) \/ CompleteError(w)
    PROVE  ArchiveInv'
<1>1. Busy(w)
  BY DEF CatalogError, CompleteError, Busy
<1>2. /\ errors' = errors + 1 /\ crashes + errors < MaxFaults
      /\ pc' = [pc EXCEPT ![w] = "failed"]
      /\ UNCHANGED <<row, job, due, scanned, task, store, crashes>>
      /\ written' \subseteq written
  BY DEF CatalogError, CompleteError, Faulty, Goto, catalogVars, queueVars
<1>3. /\ errors' \in 0..MaxFaults /\ crashes + errors' <= MaxFaults /\ errors' # 0
  BY <1>2 DEF ArchiveInv, TypeOK, ArchiveAssumption
<1>4. store \subseteq store' /\ store' \subseteq {Digest[s] : s \in Segments}
  BY <1>2 DEF ArchiveInv, TypeOK
<1> QED BY <1>1, <1>2, <1>3, <1>4, OnwardInv

LEMMA UpdateInv ==
    ASSUME ArchiveInv, NEW w \in Workers, Update(w) PROVE ArchiveInv'
<1>1. /\ pc[w] = "update"
      /\ written' = written \cup {task[w]}
      /\ pc' = [pc EXCEPT ![w] = "commit"]
      /\ UNCHANGED <<row, job, due, scanned, task, store, crashes, errors>>
  BY DEF Update, Goto, queueVars
<1>2. task[w] \in Segments /\ Digest[task[w]] \in store
  BY <1>1 DEF Busy, ArchiveInv, TaskUploading, VerifiedBefore
<1>3. TypeOK'
  BY <1>1, <1>2 DEF ArchiveInv, TypeOK
<1>4. \A v \in Workers : Busy(v)' <=> Busy(v)
  BY <1>1 DEF Busy, ArchiveInv, TypeOK
<1>5. OneUploader' /\ TaskUploading'
  BY <1>1, <1>4 DEF ArchiveInv, OneUploader, TaskUploading
<1>6. UploadedIsStored' /\ CompletedIsUploaded' /\ QueueBounded'
  BY <1>1 DEF ArchiveInv, UploadedIsStored, CompletedIsUploaded, QueueBounded, Outstanding
<1>7. VerifiedBefore' /\ UpdateKept'
  BY <1>1, <1>2 DEF ArchiveInv, VerifiedBefore, UpdateKept, TypeOK
<1> QED BY <1>3, <1>5, <1>6, <1>7 DEF ArchiveInv

\* The commit makes every open update last, the other worker's too.
LEMMA CommitInv ==
    ASSUME ArchiveInv, NEW w \in Workers, Commit(w) PROVE ArchiveInv'
<1>1. /\ pc[w] = "commit" /\ row' = Committed /\ written' = {}
      /\ pc' = [pc EXCEPT ![w] = "complete"]
      /\ UNCHANGED <<job, due, scanned, task, store, crashes, errors>>
  BY DEF Commit, Goto, queueVars
<1>2. /\ row' \in [Segments -> Row]
      /\ \A s \in Segments :
            row'[s].archive = "uploaded" <=> s \in written \/ row[s].archive = "uploaded"
  BY <1>1 DEF Committed, ArchiveInv, TypeOK, Row
<1>3. TypeOK'
  BY <1>1, <1>2 DEF ArchiveInv, TypeOK
<1>4. \A v \in Workers : Busy(v)' <=> Busy(v)
  BY <1>1 DEF Busy, ArchiveInv, TypeOK
<1>5. OneUploader' /\ TaskUploading' /\ QueueBounded'
  BY <1>1, <1>4 DEF ArchiveInv, OneUploader, TaskUploading, QueueBounded, Outstanding
<1>6. UploadedIsStored' /\ CompletedIsUploaded'
  BY <1>1, <1>2 DEF ArchiveInv, UploadedIsStored, CompletedIsUploaded, VerifiedBefore
<1>7. VerifiedBefore'
  BY <1>1 DEF ArchiveInv, VerifiedBefore, TypeOK
<1>8. UpdateKept'
  <2>1. \A v \in Workers : Busy(v) => task[v] \in Segments
    BY DEF ArchiveInv, TaskUploading
  <2> QED BY <1>1, <1>2, <2>1 DEF ArchiveInv, UpdateKept, Busy, TypeOK
<1> QED BY <1>3, <1>5, <1>6, <1>7, <1>8 DEF ArchiveInv

\* A worker lets its segment go: the job has ended or waits.
LEMMA LetGoInv ==
    ASSUME ArchiveAssumption, ArchiveInv, NEW w \in Workers, Complete(w) \/ Retry(w)
    PROVE  ArchiveInv'
<1>1. PICK state \in {"completed", "retry"} :
         /\ job' = [job EXCEPT ![task[w]] = state]
         /\ state = "completed" => pc[w] = "complete"
  BY DEF Complete, Retry
<1>2. /\ pc' = [pc EXCEPT ![w] = "idle"] /\ task' = [task EXCEPT ![w] = None]
      /\ due' \subseteq due
      /\ UNCHANGED <<row, written, scanned, store, crashes, errors>>
  BY DEF Complete, Retry, Rest, catalogVars
<1>3. Busy(w) /\ task[w] \in Segments /\ job[task[w]] = "uploading"
  BY DEF Complete, Retry, Busy, ArchiveInv, TaskUploading
<1>4. TypeOK'
  BY <1>1, <1>2, <1>3 DEF ArchiveInv, TypeOK, JobState
<1>5. QueueBounded'
  <2>1. Outstanding' \subseteq Outstanding
    BY <1>1, <1>3 DEF Outstanding, ArchiveInv, TypeOK
  <2> QED BY <2>1, NoMoreOutstanding DEF ArchiveInv
<1>6. \A v \in Workers \ {w} : Busy(v) => task[v] # task[w]
  BY <1>3 DEF ArchiveInv, OneUploader
<1>7. OneUploader'
  BY <1>2 DEF ArchiveInv, OneUploader, Busy, TypeOK
<1>8. TaskUploading'
  BY <1>1, <1>2, <1>3, <1>6 DEF ArchiveInv, TaskUploading, Busy, TypeOK
<1>9. UploadedIsStored'
  BY <1>2 DEF ArchiveInv, UploadedIsStored
<1>10. CompletedIsUploaded'
  BY <1>1, <1>2, <1>3 DEF ArchiveInv, CompletedIsUploaded, UpdateKept, TypeOK
<1>11. VerifiedBefore' /\ UpdateKept'
  BY <1>2 DEF ArchiveInv, VerifiedBefore, UpdateKept, TypeOK
<1> QED BY <1>4, <1>5, <1>7, <1>8, <1>9, <1>10, <1>11 DEF ArchiveInv

\* A thread or the whole process ends: its jobs stay in uploading.
LEMMA DeathInv ==
    ASSUME ArchiveAssumption, ArchiveInv,
           (\E w \in Workers : WorkerDies(w)) \/ Crash
    PROVE  ArchiveInv'
<1>1. /\ pc' \in [Workers -> {"idle", "claimed", "verify", "update", "commit",
                              "complete", "failed", "dead"}]
      /\ task' \in [Workers -> Segments \cup {None}]
      /\ \A v \in Workers : \/ pc'[v] = pc[v] /\ task'[v] = task[v]
                            \/ pc'[v] \in {"idle", "dead"} /\ task'[v] = None
  BY DEF WorkerDies, Crash, ArchiveInv, TypeOK
<1>2. /\ UNCHANGED <<row, job, due, store>> /\ scanned' \subseteq scanned
      /\ written' \subseteq written
      /\ \/ written' = written
         \/ \A v \in Workers : pc'[v] = "idle"
  BY DEF WorkerDies, Crash, catalogVars, queueVars
<1>3. /\ crashes' \in 0..MaxFaults /\ errors' \in 0..MaxFaults
      /\ crashes' + errors' <= MaxFaults
      /\ errors' = 0 => errors = 0
  BY DEF WorkerDies, Crash, Faulty, ArchiveInv, TypeOK, ArchiveAssumption
<1>4. TypeOK'
  BY <1>1, <1>2, <1>3 DEF ArchiveInv, TypeOK
<1>5. UploadedIsStored' /\ QueueBounded' /\ CompletedIsUploaded'
  BY <1>2, <1>3 DEF ArchiveInv, UploadedIsStored, QueueBounded, Outstanding,
                    CompletedIsUploaded
<1>6. OneUploader' /\ TaskUploading'
  BY <1>1, <1>2 DEF ArchiveInv, OneUploader, TaskUploading, Busy
<1>7. VerifiedBefore' /\ UpdateKept'
  BY <1>1, <1>2, <1>3 DEF ArchiveInv, VerifiedBefore, UpdateKept
<1> QED BY <1>4, <1>5, <1>6, <1>7 DEF ArchiveInv

LEMMA StutterInv == ArchiveInv /\ UNCHANGED vars => ArchiveInv'
  BY DEF vars, ArchiveInv, TypeOK, UploadedIsStored, QueueBounded, Outstanding, OneUploader,
         Busy, CompletedIsUploaded, TaskUploading, VerifiedBefore, UpdateKept

-----------------------------------------------------------------------------
(* The invariant of the scan, the workers, the bucket's answers, database   *)
(* errors, dying threads and crashes.                                       *)
THEOREM ArchiveInvariant == Spec => []ArchiveInv
<1>1. Init => ArchiveInv
  BY InitInv, ArchiveAssumption
<1>2. ArchiveInv /\ [Next]_vars => ArchiveInv'
  <2> SUFFICES ASSUME ArchiveInv, [Next]_vars PROVE ArchiveInv'
    OBVIOUS
  <2>. USE ArchiveAssumption
  <2>1. ASSUME NEW s \in Segments, Catalogue(s) \/ Delete(s) \/ Enqueue(s) \/ BackoffEnds(s)
        PROVE ArchiveInv'
    BY <2>1, RecorderInv, EnqueueInv, BackoffEndsInv
  <2>2. CASE ScanRead
    BY <2>2, ScanReadInv
  <2>3. ASSUME NEW w \in Workers, NEW s \in Segments, Claim(w, s) PROVE ArchiveInv'
    BY <2>3, ClaimInv
  <2>4. ASSUME NEW w \in Workers, Work(w) PROVE ArchiveInv'
    BY <2>4, UploadInv, UpdateInv, CommitInv, LetGoInv DEF Work
  <2>5. ASSUME NEW w \in Workers, CatalogError(w) \/ CompleteError(w) PROVE ArchiveInv'
    BY <2>5, ErrorInv
  <2>6. CASE (\E w \in Workers : WorkerDies(w)) \/ Crash
    BY <2>6, DeathInv
  <2>7. CASE UNCHANGED vars
    BY <2>7, StutterInv
  <2> QED BY <2>1, <2>2, <2>3, <2>4, <2>5, <2>6, <2>7 DEF Next
<1> QED BY <1>1, <1>2, PTL DEF Spec

(* A segment the catalog calls uploaded has its verified object in the      *)
(* bucket, so a ticket for it can be honoured when the local copy is gone.  *)
THEOREM UploadsAreStored == Spec => []UploadedIsStored
  BY ArchiveInvariant, PTL DEF ArchiveInv

(* docs/release-notes-v2.3.md: the queue is bounded, for any bound and any  *)
(* interleaving of the scan with the workers.                               *)
THEOREM QueueStaysBounded == Spec => []QueueBounded
  BY ArchiveInvariant, PTL DEF ArchiveInv

(* claim gives a segment to one worker at a time.                           *)
THEOREM UploadsAreExclusive == Spec => []OneUploader
  BY ArchiveInvariant, PTL DEF ArchiveInv

(* A crash between the commits of the two databases never leaves a job      *)
(* completed whose segment is still local.                                  *)
THEOREM CompletionIsCatalogued == Spec => []CompletedIsUploaded
  BY ArchiveInvariant, PTL DEF ArchiveInv

-----------------------------------------------------------------------------
(* A tile: its attempts, timers and watchdog (WhepPlayback).               *)

\* What is let go: the peer, its session and the requests of the latest attempt.
LEMMA TileReleased ==
    ASSUME Tile!PlaybackInv, NEW i \in Attempts \cup {Absent}, Tile!releaseSession(i)
    PROVE  /\ p_peer' = Absent /\ p_alive' = {} /\ p_watchdog' = FALSE /\ p_session' = Absent
           /\ p_step' \in [Attempts -> {"free", "resolving", "gathering", "rejected"}]
           /\ \A j \in Attempts : p_step'[j] \in {p_step[j], "free"}
           /\ i \in Attempts => p_step'[i] = "free"
           /\ p_server' \in [Attempts -> {"none", "made", "gone", "refused", "denied", "badAnswer"}]
<1>1. p_step \in [Attempts -> {"free", "resolving", "gathering", "posting", "rejected", "reading", "bad"}]
      /\ p_server \in [Attempts -> {"none", "made", "told", "gone", "refused", "denied", "badAnswer"}]
  BY DEF Tile!PlaybackInv, Tile!TypeOK
<1>2. \A j \in Attempts : p_step[j] \in {"posting", "reading", "bad"} => j = p_generation
  BY DEF Tile!PlaybackInv, Tile!Attempting
<1>3. \A j \in Attempts : p_server[j] = "told" => p_session = j
  BY DEF Tile!PlaybackInv, Tile!NoForgottenSession
<1>4. p_alive \subseteq {p_peer}
  BY DEF Tile!PlaybackInv, Tile!OnePeer
<1>5. p_peer' = Absent /\ p_alive' = {} /\ p_watchdog' = FALSE /\ p_session' = Absent
  BY <1>4 DEF Tile!releaseSession
<1>6. /\ p_step' = [j \in Attempts |-> IF j = i \/ (j = p_generation /\ p_step[j] \in {"posting", "reading", "bad"})
                                       THEN "free" ELSE p_step[j]]
      /\ p_server' = [j \in Attempts |-> IF j = p_session THEN "gone" ELSE p_server[j]]
  BY DEF Tile!releaseSession
<1>7. p_step' \in [Attempts -> {"free", "resolving", "gathering", "rejected"}]
  BY <1>1, <1>2, <1>6
<1>8. p_server' \in [Attempts -> {"none", "made", "gone", "refused", "denied", "badAnswer"}]
  BY <1>1, <1>3, <1>6
<1> QED
  BY <1>5, <1>6, <1>7, <1>8

\* scheduleReconnect's body, from a connection that is open and not waiting.
LEMMA GiveUpSafe ==
    ASSUME MediaAssumption, Tile!PlaybackInv, p_open, NEW i \in Attempts \cup {Absent}, Tile!giveUp(i),
           p_step[p_generation] \in {"free", "reading"} \/ i = p_generation,
           UNCHANGED <<p_enabled, p_visible, p_mayPlay, p_paused, p_open, p_generation>>,
           p_fresh' \in BOOLEAN
    PROVE  Tile!PlaybackInv'
<1>1. Tile!TypeOK /\ Tile!Attempting
  BY DEF Tile!PlaybackInv
<1>2. /\ p_peer' = Absent /\ p_alive' = {} /\ p_watchdog' = FALSE /\ p_session' = Absent
      /\ p_step' \in [Attempts -> {"free", "resolving", "gathering", "rejected"}]
      /\ \A j \in Attempts : p_step'[j] \in {p_step[j], "free"}
      /\ i \in Attempts => p_step'[i] = "free"
      /\ p_server' \in [Attempts -> {"none", "made", "gone", "refused", "denied", "badAnswer"}]
  BY TileReleased DEF Tile!giveUp
<1>3. p_timers' = {"retry"} /\ p_stage' = {} /\ p_retried' = TRUE /\ p_state' \in {"reconnecting", "offline"}
  BY DEF Tile!giveUp
<1>4. p_generation \in Attempts /\ p_generation # Absent /\ Absent \notin Attempts
  BY <1>1 DEF Tile!TypeOK, Tile!Attempting, MediaAssumption
<1>5. p_step'[p_generation] = "free"
  BY <1>2, <1>4
<1>6. Tile!TypeOK'
  BY <1>1, <1>2, <1>3 DEF Tile!TypeOK
<1>7. Tile!OnePeer' /\ Tile!NoForgottenSession' /\ Tile!NeverStuck'
  BY <1>2, <1>3 DEF Tile!OnePeer, Tile!NoForgottenSession, Tile!NeverStuck
<1>8. Tile!Attempting'
  BY <1>1, <1>2, <1>3, <1>4, <1>5 DEF Tile!Attempting, Tile!Early
<1>9. Tile!Watched'
  BY <1>3 DEF Tile!Watched
<1> QED
  BY <1>6, <1>7, <1>8, <1>9 DEF Tile!PlaybackInv

\* An attempt that was overtaken ends and changes nothing else.
LEMMA OvertakenEnds ==
    ASSUME MediaAssumption, Tile!PlaybackInv, NEW i \in Attempts, i # p_generation \/ ~p_open,
           p_step' = [p_step EXCEPT ![i] = "free"],
           UNCHANGED <<p_peer, p_alive, p_session, p_server, Tile!conn, Tile!tile, Tile!link>>
    PROVE  Tile!PlaybackInv'
<1>1. Tile!TypeOK /\ Tile!OnePeer /\ Tile!NoForgottenSession /\ Tile!NeverStuck /\ Tile!Attempting /\ Tile!Watched
  BY DEF Tile!PlaybackInv
<1>2. UNCHANGED <<p_open, p_generation, p_timers, p_watchdog, p_stage, p_retried, p_state,
                  p_enabled, p_visible, p_mayPlay, p_paused, p_fresh, p_ice>>
  BY DEF Tile!conn, Tile!tile, Tile!link
<1>3. i # p_generation /\ p_step'[p_generation] = p_step[p_generation]
      /\ \A j \in Attempts : p_step'[j] \in {p_step[j], "free"}
  BY <1>1 DEF Tile!TypeOK, Tile!Attempting, MediaAssumption
<1>4. Tile!TypeOK'
  BY <1>1, <1>2 DEF Tile!TypeOK
<1>5. Tile!OnePeer' /\ Tile!NoForgottenSession' /\ Tile!NeverStuck'
  BY <1>1, <1>2, <1>3 DEF Tile!OnePeer, Tile!NoForgottenSession, Tile!NeverStuck
<1>6. Tile!Attempting' /\ Tile!Watched'
  BY <1>1, <1>2, <1>3 DEF Tile!Attempting, Tile!Watched
<1> QED
  BY <1>4, <1>5, <1>6 DEF Tile!PlaybackInv

\* scheduleReconnect from a timer or the watchdog: no attempt ends by itself.
LEMMA ReconnectSafe ==
    ASSUME MediaAssumption, Tile!PlaybackInv, p_timers # {} \/ p_watchdog, Tile!scheduleReconnect(Absent)
    PROVE  Tile!PlaybackInv'
<1>1. Tile!TypeOK /\ Tile!Attempting
  BY DEF Tile!PlaybackInv
<1>2. p_open /\ p_step[p_generation] \in {"free", "reading"}
  BY <1>1 DEF Tile!TypeOK, Tile!Attempting, Tile!Early
<1>3. CASE "retry" \in p_timers
  <2>1. p_step' = p_step
    BY <1>1, <1>3 DEF Tile!scheduleReconnect, Tile!TypeOK, MediaAssumption
  <2> QED
    BY <1>3, <2>1 DEF Tile!scheduleReconnect, Tile!conn, Tile!tile, Tile!link, Tile!PlaybackInv, Tile!TypeOK,
        Tile!OnePeer, Tile!NoForgottenSession, Tile!NeverStuck, Tile!Attempting, Tile!Watched
<1>4. CASE "retry" \notin p_timers
  BY <1>1, <1>2, <1>4, GiveUpSafe DEF Tile!scheduleReconnect, Tile!tile, Tile!link, Tile!TypeOK
<1> QED
  BY <1>3, <1>4

\* The catch of connect().
LEMMA FailsSafe ==
    ASSUME MediaAssumption, Tile!PlaybackInv, NEW i \in Attempts, p_step[i] # "free", Tile!Fails(i)
    PROVE  Tile!PlaybackInv'
<1>1. Tile!TypeOK /\ Tile!Attempting
  BY DEF Tile!PlaybackInv
<1>2. CASE ~p_open \/ i # p_generation
  BY <1>2, OvertakenEnds DEF Tile!Fails, Tile!Ends
<1>3. CASE p_open /\ i = p_generation
  <2>1. "retry" \notin p_timers
    BY <1>1, <1>3 DEF Tile!Attempting
  <2> QED
    BY <1>1, <1>3, <2>1, GiveUpSafe DEF Tile!Fails, Tile!scheduleReconnect, Tile!tile, Tile!link, Tile!TypeOK
<1> QED
  BY <1>2, <1>3

\* The endpoint is known: the peer is built only for the latest attempt, which
\* has no other one.
LEMMA ResolvedSafe ==
    ASSUME MediaAssumption, Tile!PlaybackInv, NEW i \in Attempts, Tile!Resolved(i)
    PROVE  Tile!PlaybackInv'
<1>1. Tile!TypeOK /\ Tile!OnePeer /\ Tile!NoForgottenSession /\ Tile!NeverStuck /\ Tile!Attempting /\ Tile!Watched
  BY DEF Tile!PlaybackInv
<1>2. p_step[i] = "resolving"
  BY DEF Tile!Resolved
<1>3. CASE i # p_generation /\ Tile!Ends(i) /\ UNCHANGED <<p_peer, p_alive, p_session, p_server, Tile!conn, Tile!tile, Tile!link>>
  BY <1>3, OvertakenEnds DEF Tile!Ends
<1>4. CASE i = p_generation /\ Tile!Fails(i)
  BY <1>2, <1>4, FailsSafe
<1>5. CASE /\ i = p_generation /\ Tile!Ends(i) /\ p_state' = "disabled"
           /\ UNCHANGED <<p_peer, p_alive, p_session, p_server, p_open, p_generation, p_timers, p_watchdog, p_stage, p_retried, Tile!tile, Tile!link>>
  <2>1. p_step' = [p_step EXCEPT ![i] = "free"]
    BY <1>5 DEF Tile!Ends
  <2>2. Tile!TypeOK'
    BY <1>1, <1>5, <2>1 DEF Tile!TypeOK, Tile!tile, Tile!link
  <2>3. Tile!OnePeer' /\ Tile!NoForgottenSession' /\ Tile!NeverStuck'
    BY <1>1, <1>5 DEF Tile!OnePeer, Tile!NoForgottenSession, Tile!NeverStuck
  <2>4. Tile!Attempting' /\ Tile!Watched'
    BY <1>1, <1>2, <1>5, <2>1 DEF Tile!Attempting, Tile!Watched, Tile!Early, Tile!TypeOK, Tile!tile, Tile!link
  <2> QED
    BY <2>2, <2>3, <2>4 DEF Tile!PlaybackInv
<1>6. CASE /\ i = p_generation
           /\ p_step' = [p_step EXCEPT ![i] = "gathering"] /\ p_peer' = i /\ p_alive' = p_alive \cup {i}
           /\ p_ice' = "new" /\ p_fresh' = FALSE /\ p_state' = IF p_retried THEN "reconnecting" ELSE "connecting"
           /\ UNCHANGED <<p_open, p_generation, p_timers, p_watchdog, p_stage, p_retried, Tile!tile, p_session, p_server>>
  <2>1. i # Absent /\ p_open /\ p_timers = {} /\ p_stage = {} /\ ~p_watchdog /\ p_peer = Absent /\ p_session = Absent
    BY <1>1, <1>2, <1>6 DEF Tile!Attempting, Tile!Early, MediaAssumption
  <2>2. p_alive' = {i} /\ p_step'[i] = "gathering"
    BY <1>1, <1>6, <2>1 DEF Tile!OnePeer, Tile!TypeOK
  <2>3. Tile!TypeOK'
    BY <1>1, <1>6, <2>1 DEF Tile!TypeOK, Tile!tile
  <2>4. Tile!OnePeer' /\ Tile!NoForgottenSession' /\ Tile!NeverStuck'
    BY <1>1, <1>6, <2>1, <2>2 DEF Tile!OnePeer, Tile!NoForgottenSession, Tile!NeverStuck
  <2>5. Tile!Attempting' /\ Tile!Watched'
    BY <1>1, <1>6, <2>1, <2>2 DEF Tile!Attempting, Tile!Watched, Tile!Early, Tile!TypeOK, Tile!tile, Tile!link
  <2> QED
    BY <2>3, <2>4, <2>5 DEF Tile!PlaybackInv
<1> QED
  BY <1>3, <1>4, <1>5, <1>6 DEF Tile!Resolved, Tile!Fault

\* What only moves the latest attempt on, or ends an overtaken one.
LEMMA GatheredSafe ==
    ASSUME MediaAssumption, Tile!PlaybackInv, NEW i \in Attempts, Tile!Gathered(i)
    PROVE  Tile!PlaybackInv'
<1>1. Tile!TypeOK /\ Tile!OnePeer /\ Tile!NoForgottenSession /\ Tile!NeverStuck /\ Tile!Attempting /\ Tile!Watched
  BY DEF Tile!PlaybackInv
<1>2. p_step[i] = "gathering"
  BY DEF Tile!Gathered
<1>3. CASE i = p_generation /\ Tile!Fails(i)
  BY <1>2, <1>3, FailsSafe
<1>4. CASE /\ p_step' = [p_step EXCEPT ![i] = IF i = p_generation THEN "posting" ELSE "free"]
           /\ UNCHANGED <<Tile!conn, Tile!tile, Tile!link, p_peer, p_alive, p_session, p_server>>
  <2>1. CASE i # p_generation
    BY <1>4, <2>1, OvertakenEnds
  <2>2. CASE i = p_generation
    <3>1. p_step'[i] = "posting" /\ \A j \in Attempts : j # i => p_step'[j] = p_step[j]
      BY <1>1, <1>4, <2>2 DEF Tile!TypeOK
    <3>2. Tile!TypeOK'
      BY <1>1, <1>4 DEF Tile!TypeOK, Tile!conn, Tile!tile, Tile!link
    <3>3. Tile!OnePeer' /\ Tile!NoForgottenSession' /\ Tile!NeverStuck'
      BY <1>1, <1>4, <2>2, <3>1 DEF Tile!OnePeer, Tile!NoForgottenSession, Tile!NeverStuck, Tile!conn
    <3>4. Tile!Attempting' /\ Tile!Watched'
      BY <1>1, <1>2, <1>4, <2>2, <3>1 DEF Tile!Attempting, Tile!Watched, Tile!Early, Tile!conn, Tile!tile, Tile!link
    <3> QED
      BY <3>2, <3>3, <3>4 DEF Tile!PlaybackInv
  <2> QED
    BY <2>1, <2>2
<1> QED
  BY <1>3, <1>4 DEF Tile!Gathered

LEMMA ServeSafe ==
    ASSUME Tile!PlaybackInv, NEW i \in Attempts, Tile!Serve(i)
    PROVE  Tile!PlaybackInv'
<1>1. Tile!TypeOK /\ Tile!OnePeer /\ Tile!NoForgottenSession /\ Tile!NeverStuck /\ Tile!Attempting /\ Tile!Watched
  BY DEF Tile!PlaybackInv
<1>2. PICK v \in {"made", "refused", "denied", "badAnswer"} : p_server' = [p_server EXCEPT ![i] = v]
  BY DEF Tile!Serve
<1>3. UNCHANGED <<Tile!tile, Tile!link, Tile!conn, p_step, p_peer, p_alive, p_session>>
  BY DEF Tile!Serve
<1>4. Tile!TypeOK'
  BY <1>1, <1>2, <1>3 DEF Tile!TypeOK, Tile!conn, Tile!tile, Tile!link
<1>5. Tile!OnePeer' /\ Tile!NoForgottenSession' /\ Tile!NeverStuck'
  BY <1>1, <1>2, <1>3 DEF Tile!OnePeer, Tile!NoForgottenSession, Tile!NeverStuck, Tile!conn, Tile!TypeOK
<1>6. Tile!Attempting' /\ Tile!Watched'
  BY <1>1, <1>3 DEF Tile!Attempting, Tile!Watched, Tile!conn, Tile!tile, Tile!link
<1> QED
  BY <1>4, <1>5, <1>6 DEF Tile!PlaybackInv

\* The session is noted before anything else can be told of.
LEMMA PostedSafe ==
    ASSUME MediaAssumption, Tile!PlaybackInv, NEW i \in Attempts, Tile!Posted(i)
    PROVE  Tile!PlaybackInv'
<1>1. Tile!TypeOK /\ Tile!OnePeer /\ Tile!NoForgottenSession /\ Tile!NeverStuck /\ Tile!Attempting /\ Tile!Watched
  BY DEF Tile!PlaybackInv
<1>2. p_step[i] = "posting" /\ i = p_generation /\ p_open /\ i # Absent /\ p_session = Absent
      /\ p_timers = {} /\ p_stage = {} /\ ~p_watchdog
  BY <1>1 DEF Tile!Posted, Tile!Attempting, Tile!Early, MediaAssumption
<1>3. CASE p_server[i] = "refused" /\ Tile!Fails(i)
  BY <1>2, <1>3, FailsSafe
<1>4. CASE /\ p_server[i] = "denied" /\ p_step' = [p_step EXCEPT ![i] = "rejected"]
           /\ UNCHANGED <<p_peer, p_alive, p_session, p_server, Tile!conn, Tile!tile, Tile!link>>
  <2>1. p_step'[i] = "rejected" /\ \A j \in Attempts : j # i => p_step'[j] = p_step[j]
    BY <1>1, <1>4 DEF Tile!TypeOK
  <2>2. Tile!TypeOK'
    BY <1>1, <1>4 DEF Tile!TypeOK, Tile!conn, Tile!tile, Tile!link
  <2>3. Tile!OnePeer' /\ Tile!NoForgottenSession' /\ Tile!NeverStuck'
    BY <1>1, <1>2, <1>4, <2>1 DEF Tile!OnePeer, Tile!NoForgottenSession, Tile!NeverStuck, Tile!conn
  <2>4. Tile!Attempting' /\ Tile!Watched'
    BY <1>1, <1>2, <1>4, <2>1 DEF Tile!Attempting, Tile!Watched, Tile!Early, Tile!conn, Tile!tile, Tile!link
  <2> QED
    BY <2>2, <2>3, <2>4 DEF Tile!PlaybackInv
<1>5. CASE /\ p_session' = i /\ p_server' = [p_server EXCEPT ![i] = "told"]
           /\ p_step' = [p_step EXCEPT ![i] = IF p_server[i] = "made" THEN "reading" ELSE "bad"]
           /\ UNCHANGED <<p_peer, p_alive, Tile!conn, Tile!tile, Tile!link>>
  <2>1. p_step'[i] \in {"reading", "bad"} /\ \A j \in Attempts : j # i => p_step'[j] = p_step[j] /\ p_server'[j] = p_server[j]
    BY <1>1, <1>5 DEF Tile!TypeOK
  <2>2. Tile!TypeOK'
    BY <1>1, <1>5 DEF Tile!TypeOK, Tile!conn, Tile!tile, Tile!link
  <2>3. Tile!OnePeer' /\ Tile!NoForgottenSession' /\ Tile!NeverStuck'
    BY <1>1, <1>2, <1>5, <2>1 DEF Tile!OnePeer, Tile!NoForgottenSession, Tile!NeverStuck, Tile!conn, MediaAssumption
  <2>4. Tile!Attempting' /\ Tile!Watched'
    BY <1>1, <1>2, <1>5, <2>1 DEF Tile!Attempting, Tile!Watched, Tile!Early, Tile!conn, Tile!tile, Tile!link
  <2> QED
    BY <2>2, <2>3, <2>4 DEF Tile!PlaybackInv
<1> QED
  BY <1>3, <1>4, <1>5 DEF Tile!Posted

LEMMA RejectedSafe ==
    ASSUME MediaAssumption, Tile!PlaybackInv, NEW i \in Attempts, Tile!Rejected(i)
    PROVE  Tile!PlaybackInv'
<1>1. Tile!TypeOK /\ Tile!Attempting /\ p_step[i] = "rejected"
  BY DEF Tile!PlaybackInv, Tile!Rejected
<1>2. CASE ~p_open \/ i # p_generation
  BY <1>2, OvertakenEnds DEF Tile!Rejected, Tile!Ends
<1>3. CASE p_open /\ i = p_generation
  <2>1. /\ Tile!releaseSession(i) /\ p_stage' = {} /\ p_state' = "disabled"
        /\ UNCHANGED <<p_open, p_generation, p_timers, p_retried, Tile!tile, Tile!link>>
    BY <1>3 DEF Tile!Rejected
  <2>2. /\ p_peer' = Absent /\ p_alive' = {} /\ p_watchdog' = FALSE /\ p_session' = Absent
        /\ p_step' \in [Attempts -> {"free", "resolving", "gathering", "rejected"}]
        /\ p_step'[i] = "free"
        /\ p_server' \in [Attempts -> {"none", "made", "gone", "refused", "denied", "badAnswer"}]
    BY <2>1, TileReleased
  <2>3. p_timers = {}
    BY <1>1, <1>3 DEF Tile!Attempting, Tile!Early
  <2>4. Tile!TypeOK'
    BY <1>1, <2>1, <2>2, <2>3 DEF Tile!TypeOK, Tile!tile, Tile!link
  <2>5. Tile!OnePeer' /\ Tile!NoForgottenSession' /\ Tile!NeverStuck'
    BY <2>1, <2>2 DEF Tile!OnePeer, Tile!NoForgottenSession, Tile!NeverStuck
  <2>6. Tile!Attempting' /\ Tile!Watched'
    BY <1>1, <1>3, <2>1, <2>2, <2>3 DEF Tile!Attempting, Tile!Watched, Tile!Early, Tile!tile
  <2> QED
    BY <2>4, <2>5, <2>6 DEF Tile!PlaybackInv
<1> QED
  BY <1>2, <1>3

LEMMA AnsweredSafe ==
    ASSUME MediaAssumption, Tile!PlaybackInv, NEW i \in Attempts, Tile!Answered(i)
    PROVE  Tile!PlaybackInv'
<1>1. Tile!TypeOK /\ Tile!OnePeer /\ Tile!NoForgottenSession /\ Tile!NeverStuck /\ Tile!Attempting /\ Tile!Watched
  BY DEF Tile!PlaybackInv
<1>2. /\ p_step[i] = "reading" /\ p_step' = [p_step EXCEPT ![i] = "free"]
      /\ p_stage' = p_stage \cup {"signaling"} /\ p_timers' = p_timers \cup {"handshake"}
      /\ p_paused' = (p_paused /\ ~p_mayPlay)
      /\ UNCHANGED <<p_enabled, p_visible, p_mayPlay, Tile!link, p_open, p_generation, p_watchdog, p_retried, p_state,
                     p_peer, p_alive, p_session, p_server>>
  BY DEF Tile!Answered, Tile!Ends
<1>3. i = p_generation /\ p_open /\ "retry" \notin p_timers
  BY <1>1, <1>2 DEF Tile!Attempting, MediaAssumption
<1>4. p_step'[i] = "free" /\ \A j \in Attempts : j # i => p_step'[j] = p_step[j]
  BY <1>1, <1>2 DEF Tile!TypeOK
<1>5. Tile!TypeOK'
  BY <1>1, <1>2, <1>3 DEF Tile!TypeOK, Tile!link
<1>6. Tile!OnePeer' /\ Tile!NoForgottenSession' /\ Tile!NeverStuck'
  BY <1>1, <1>2 DEF Tile!OnePeer, Tile!NoForgottenSession, Tile!NeverStuck
<1>7. Tile!Attempting' /\ Tile!Watched'
  BY <1>1, <1>2, <1>3, <1>4 DEF Tile!Attempting, Tile!Watched, Tile!Early
<1> QED
  BY <1>5, <1>6, <1>7 DEF Tile!PlaybackInv

LEMMA NegotiateSafe ==
    ASSUME MediaAssumption, Tile!PlaybackInv, NEW i \in Attempts, Tile!Negotiate(i)
    PROVE  Tile!PlaybackInv'
<1>1. CASE Tile!BadAnswer(i)
  BY <1>1, FailsSafe DEF Tile!BadAnswer
<1> QED
  BY <1>1, ResolvedSafe, GatheredSafe, ServeSafe, PostedSafe, RejectedSafe, AnsweredSafe DEF Tile!Negotiate

LEMMA RetryFiresSafe ==
    ASSUME MediaAssumption, Tile!PlaybackInv, Tile!RetryFires
    PROVE  Tile!PlaybackInv'
<1>1. Tile!TypeOK /\ Tile!OnePeer /\ Tile!NoForgottenSession /\ Tile!NeverStuck /\ Tile!Attempting /\ Tile!Watched
  BY DEF Tile!PlaybackInv
<1>2. PICK i \in Attempts :
          /\ "retry" \in p_timers /\ p_timers' = p_timers \ {"retry"} /\ i \in Tile!Unused
          /\ p_generation' = i /\ p_step' = [p_step EXCEPT ![i] = "resolving"] /\ p_server' = [p_server EXCEPT ![i] = "none"]
          /\ p_state' = IF p_retried THEN "reconnecting" ELSE "checking"
          /\ UNCHANGED <<Tile!tile, Tile!link, p_open, p_watchdog, p_stage, p_retried, p_peer, p_alive, p_session>>
  BY DEF Tile!RetryFires, Tile!Begin
<1>3. p_open /\ p_peer = Absent /\ p_session = Absent /\ ~p_watchdog /\ p_stage = {} /\ p_timers' = {} /\ i # Absent
      /\ p_step[p_generation] = "free" /\ p_generation \in Attempts
  BY <1>1, <1>2 DEF Tile!TypeOK, Tile!Attempting, MediaAssumption
<1>4. p_step'[i] = "resolving" /\ \A j \in Attempts : j # i => p_step'[j] = p_step[j] /\ p_server'[j] = p_server[j]
  BY <1>1, <1>2 DEF Tile!TypeOK
<1>5. Tile!TypeOK'
  BY <1>1, <1>2, <1>3 DEF Tile!TypeOK, Tile!tile, Tile!link
<1>6. Tile!OnePeer' /\ Tile!NoForgottenSession' /\ Tile!NeverStuck'
  BY <1>1, <1>2, <1>3, <1>4 DEF Tile!OnePeer, Tile!NoForgottenSession, Tile!NeverStuck, Tile!TypeOK
<1>7. Tile!Attempting'
  BY <1>1, <1>2, <1>3, <1>4 DEF Tile!Attempting, Tile!Early, Tile!tile
<1>8. Tile!Watched'
  BY <1>2, <1>3, <1>4 DEF Tile!Watched
<1> QED
  BY <1>5, <1>6, <1>7, <1>8 DEF Tile!PlaybackInv

\* A peer that connects gets the timer of its first frame, one that fails is
\* given up.
LEMMA IceChangesSafe ==
    ASSUME MediaAssumption, Tile!PlaybackInv, NEW now \in DOMAIN Tile!Moves, Tile!IceChanges(now)
    PROVE  Tile!PlaybackInv'
<1>1. Tile!TypeOK /\ Tile!OnePeer /\ Tile!NoForgottenSession /\ Tile!NeverStuck /\ Tile!Attempting /\ Tile!Watched
  BY DEF Tile!PlaybackInv
<1>2. /\ p_peer # Absent /\ (p_step[p_peer] = "reading" \/ "signaling" \in p_stage)
      /\ UNCHANGED <<p_open, p_generation, Tile!tile, p_path, p_fresh, p_acts>>
  BY DEF Tile!IceChanges
<1>3. p_open /\ p_peer = p_generation /\ "retry" \notin p_timers /\ p_step[p_generation] \in {"free", "reading"}
  BY <1>1, <1>2 DEF Tile!TypeOK, Tile!Attempting, Tile!Early
<1>4. CASE now = "failed"
  BY <1>1, <1>2, <1>3, <1>4, GiveUpSafe DEF Tile!IceChanges, Tile!tile, Tile!TypeOK
<1>5. CASE now # "failed"
  <2>1. /\ p_timers' = Tile!StateTimers(now)
        /\ p_stage' = IF now = "connected" THEN p_stage \cup {"ice"} ELSE p_stage
        /\ UNCHANGED <<Tile!held, p_watchdog, p_retried, p_state>>
    BY <1>5 DEF Tile!IceChanges
  <2>2. /\ p_timers' \subseteq p_timers \cup {"firstFrame", "disconnected"}
        /\ now # "connected" => p_timers \ {"disconnected"} \subseteq p_timers'
        /\ now = "connected" /\ "frame" \notin p_stage => "firstFrame" \in p_timers'
    BY <2>1 DEF Tile!StateTimers
  <2>3. "firstFrame" \in p_timers => "firstFrame" \in p_timers'
    BY <2>1 DEF Tile!StateTimers
  <2>4. Tile!TypeOK'
    BY <1>1, <1>2, <1>3, <2>1, <2>2 DEF Tile!TypeOK, Tile!tile, Tile!held
  <2>5. Tile!OnePeer' /\ Tile!NoForgottenSession'
    BY <1>1, <1>2, <2>1 DEF Tile!OnePeer, Tile!NoForgottenSession, Tile!held
  <2>6. Tile!Attempting'
    BY <1>1, <1>2, <1>3, <2>1, <2>2 DEF Tile!Attempting, Tile!Early, Tile!tile, Tile!held
  <2>7. Tile!Watched'
    BY <1>1, <1>2, <1>3, <2>1, <2>2, <2>3 DEF Tile!Watched, Tile!held
  <2>8. Tile!NeverStuck'
    BY <2>7, <2>1 DEF Tile!Watched, Tile!NeverStuck
  <2> QED
    BY <2>4, <2>5, <2>6, <2>7, <2>8 DEF Tile!PlaybackInv
<1> QED
  BY <1>4, <1>5

\* A timer that has done its work goes; the next one already runs.
LEMMA TimerSafe ==
    ASSUME MediaAssumption, Tile!PlaybackInv, NEW t \in {"handshake", "firstFrame"},
           Tile!TimerFires(t, IF t = "handshake" THEN "ice" \in p_stage ELSE "frame" \in p_stage)
    PROVE  Tile!PlaybackInv'
<1>1. Tile!TypeOK /\ Tile!OnePeer /\ Tile!NoForgottenSession /\ Tile!NeverStuck /\ Tile!Attempting /\ Tile!Watched
  BY DEF Tile!PlaybackInv
<1> DEFINE done == IF t = "handshake" THEN "ice" \in p_stage ELSE "frame" \in p_stage
<1>2. CASE ~done
  BY <1>2, ReconnectSafe DEF Tile!TimerFires
<1>3. CASE done
  <2>1. /\ t \in p_timers /\ p_timers' = p_timers \ {t}
        /\ UNCHANGED <<Tile!tile, Tile!link, p_open, p_generation, p_watchdog, p_stage, p_retried, p_state, Tile!held>>
    BY <1>3 DEF Tile!TimerFires
  <2>2. p_open /\ "retry" \notin p_timers /\ p_step[p_generation] \in {"free", "reading"}
    BY <1>1, <2>1 DEF Tile!TypeOK, Tile!Attempting, Tile!Early
  <2>3. Tile!TypeOK'
    BY <1>1, <2>1, <2>2 DEF Tile!TypeOK, Tile!tile, Tile!link, Tile!held
  <2>4. Tile!OnePeer' /\ Tile!NoForgottenSession'
    BY <1>1, <2>1 DEF Tile!OnePeer, Tile!NoForgottenSession, Tile!held
  <2>5. Tile!Attempting'
    BY <1>1, <2>1, <2>2 DEF Tile!Attempting, Tile!Early, Tile!tile, Tile!held
  <2>6. Tile!Watched'
    BY <1>1, <1>3, <2>1, <2>2 DEF Tile!Watched, Tile!held
  <2>7. Tile!NeverStuck'
    BY <2>1, <2>6 DEF Tile!Watched, Tile!NeverStuck
  <2> QED
    BY <2>3, <2>4, <2>5, <2>6, <2>7 DEF Tile!PlaybackInv
<1> QED
  BY <1>2, <1>3

LEMMA TimersSafe ==
    ASSUME MediaAssumption, Tile!PlaybackInv, Tile!Timers
    PROVE  Tile!PlaybackInv'
<1>1. CASE Tile!HandshakeTimeout
  BY <1>1, TimerSafe DEF Tile!HandshakeTimeout
<1>2. CASE Tile!FirstFrameTimeout
  BY <1>2, TimerSafe DEF Tile!FirstFrameTimeout
<1>3. CASE Tile!DisconnectedTimeout
  BY <1>3, ReconnectSafe DEF Tile!DisconnectedTimeout
<1> QED
  BY <1>1, <1>2, <1>3, RetryFiresSafe DEF Tile!Timers

LEMMA MarkFrameSafe ==
    ASSUME MediaAssumption, Tile!PlaybackInv, Tile!markFrame
    PROVE  Tile!PlaybackInv'
<1>1. Tile!TypeOK /\ Tile!OnePeer /\ Tile!NoForgottenSession /\ Tile!NeverStuck /\ Tile!Attempting /\ Tile!Watched
  BY DEF Tile!PlaybackInv
<1>2. /\ p_peer # Absent /\ p_fresh' = TRUE
      /\ UNCHANGED <<Tile!tile, Tile!held>>
  BY DEF Tile!markFrame
<1>3. CASE "frame" \in p_stage
  <2>1. UNCHANGED Tile!conn
    BY <1>3 DEF Tile!markFrame
  <2>2. p_ice' = p_ice
    BY DEF Tile!markFrame
  <2>3. Tile!TypeOK'
    BY <1>1, <1>2, <2>1 DEF Tile!TypeOK, Tile!conn, Tile!held, Tile!tile
  <2>4. Tile!OnePeer' /\ Tile!NoForgottenSession' /\ Tile!NeverStuck' /\ Tile!Watched'
    BY <1>1, <1>2, <2>1 DEF Tile!OnePeer, Tile!NoForgottenSession, Tile!NeverStuck, Tile!Watched, Tile!conn, Tile!held
  <2>5. Tile!Attempting'
    BY <1>1, <1>2, <2>1, <2>2 DEF Tile!Attempting, Tile!conn, Tile!held, Tile!tile
  <2> QED
    BY <2>3, <2>4, <2>5 DEF Tile!PlaybackInv
<1>4. CASE "frame" \notin p_stage
  <2>1. /\ p_stage' = p_stage \cup {"frame", "ice"} /\ p_timers' = p_timers \ {"firstFrame"}
        /\ p_retried' = FALSE /\ p_state' = "live" /\ p_watchdog' = TRUE
        /\ UNCHANGED <<p_open, p_generation>>
    BY <1>4 DEF Tile!markFrame, Tile!startWatchdog
  <2>2. p_open /\ "retry" \notin p_timers /\ p_peer = p_generation
    BY <1>1, <1>2 DEF Tile!TypeOK, Tile!Attempting
  <2>3. Tile!TypeOK'
    BY <1>1, <1>2, <2>1, <2>2 DEF Tile!TypeOK, Tile!tile, Tile!held
  <2>4. Tile!OnePeer' /\ Tile!NoForgottenSession' /\ Tile!NeverStuck' /\ Tile!Watched'
    BY <1>1, <1>2, <2>1 DEF Tile!OnePeer, Tile!NoForgottenSession, Tile!NeverStuck, Tile!Watched, Tile!held
  <2>5. p_step[p_generation] \notin Tile!Early
    BY <1>1, <1>2, <2>2 DEF Tile!Attempting, Tile!markFrame
  <2>6. Tile!Attempting'
    BY <1>1, <1>2, <2>1, <2>2, <2>5 DEF Tile!Attempting, Tile!tile, Tile!held
  <2> QED
    BY <2>3, <2>4, <2>6 DEF Tile!PlaybackInv
<1> QED
  BY <1>3, <1>4

\* What leaves the connection as it is.
LEMMA MediaSafe ==
    ASSUME MediaAssumption, Tile!PlaybackInv, Tile!Media
    PROVE  Tile!PlaybackInv'
<1>1. CASE Tile!StallSeen
  BY <1>1, ReconnectSafe DEF Tile!StallSeen
<1>2. CASE Tile!GoesStale \/ Tile!Replay \/ Tile!MediaStops
  <2>1. /\ UNCHANGED <<p_enabled, p_visible, p_mayPlay, p_ice, Tile!conn, Tile!held>>
        /\ p_paused' \in {p_paused, FALSE} /\ p_fresh' \in {p_fresh, FALSE}
    BY <1>2 DEF Tile!GoesStale, Tile!Replay, Tile!MediaStops, Tile!tile, Tile!link
  <2>2. Tile!TypeOK /\ Tile!OnePeer /\ Tile!NoForgottenSession /\ Tile!NeverStuck /\ Tile!Attempting /\ Tile!Watched
    BY DEF Tile!PlaybackInv
  <2>3. Tile!TypeOK'
    BY <2>1, <2>2 DEF Tile!TypeOK, Tile!conn, Tile!held
  <2>4. Tile!OnePeer' /\ Tile!NoForgottenSession' /\ Tile!NeverStuck' /\ Tile!Watched'
    BY <2>1, <2>2 DEF Tile!OnePeer, Tile!NoForgottenSession, Tile!NeverStuck, Tile!Watched, Tile!conn, Tile!held
  <2>5. Tile!Attempting'
    BY <2>1, <2>2 DEF Tile!Attempting, Tile!conn, Tile!held
  <2> QED
    BY <2>3, <2>4, <2>5 DEF Tile!PlaybackInv
<1> QED
  BY <1>1, <1>2, MarkFrameSafe DEF Tile!Media

LEMMA SuspendSafe ==
    ASSUME MediaAssumption, Tile!PlaybackInv, Tile!Suspend
    PROVE  Tile!PlaybackInv'
<1>1. Tile!TypeOK /\ Tile!Attempting
  BY DEF Tile!PlaybackInv
<1>2. /\ p_enabled' = FALSE /\ p_open' = FALSE /\ p_generation' = Absent /\ p_timers' = {} /\ p_state' = "disabled"
      /\ Tile!releaseSession(Absent)
      /\ UNCHANGED <<p_visible, p_mayPlay, p_paused, Tile!link, p_stage, p_retried>>
  BY DEF Tile!Suspend, Tile!close
<1>3. /\ p_peer' = Absent /\ p_alive' = {} /\ p_watchdog' = FALSE /\ p_session' = Absent
      /\ p_step' \in [Attempts -> {"free", "resolving", "gathering", "rejected"}]
      /\ p_server' \in [Attempts -> {"none", "made", "gone", "refused", "denied", "badAnswer"}]
  BY <1>2, TileReleased
<1>4. Tile!TypeOK'
  BY <1>1, <1>2, <1>3 DEF Tile!TypeOK, Tile!link
<1>5. Tile!OnePeer' /\ Tile!NoForgottenSession' /\ Tile!NeverStuck' /\ Tile!Watched'
  BY <1>2, <1>3 DEF Tile!OnePeer, Tile!NoForgottenSession, Tile!NeverStuck, Tile!Watched
<1>6. Tile!Attempting'
  BY <1>2, <1>3 DEF Tile!Attempting
<1> QED
  BY <1>4, <1>5, <1>6 DEF Tile!PlaybackInv

LEMMA OpenSafe ==
    ASSUME MediaAssumption, Tile!PlaybackInv, Tile!Open
    PROVE  Tile!PlaybackInv'
<1>1. Tile!TypeOK /\ Tile!OnePeer /\ Tile!NoForgottenSession /\ Tile!Attempting
  BY DEF Tile!PlaybackInv
<1>2. PICK i \in Attempts :
          /\ ~p_enabled /\ p_enabled' = TRUE
          /\ p_open' = TRUE /\ p_generation' = i /\ p_timers' = {} /\ p_stage' = {} /\ p_retried' = FALSE
          /\ p_step' = [p_step EXCEPT ![i] = "resolving"] /\ p_server' = [p_server EXCEPT ![i] = "none"]
          /\ p_state' = "checking" /\ p_paused' = TRUE
          /\ UNCHANGED <<p_visible, p_mayPlay, Tile!link, p_watchdog, p_peer, p_alive, p_session>>
  BY DEF Tile!Open
<1>3. ~p_open /\ p_generation = Absent /\ p_peer = Absent /\ p_session = Absent /\ ~p_watchdog /\ i # Absent
  BY <1>1, <1>2 DEF Tile!Attempting, MediaAssumption
<1>4. p_step'[i] = "resolving" /\ \A j \in Attempts : j # i => p_step'[j] = p_step[j] /\ p_server'[j] = p_server[j]
  BY <1>1, <1>2 DEF Tile!TypeOK
<1>5. Tile!TypeOK'
  BY <1>1, <1>2, <1>3 DEF Tile!TypeOK, Tile!link
<1>6. Tile!OnePeer' /\ Tile!NoForgottenSession' /\ Tile!NeverStuck' /\ Tile!Watched'
  BY <1>1, <1>2, <1>3, <1>4 DEF Tile!OnePeer, Tile!NoForgottenSession, Tile!NeverStuck, Tile!Watched, Tile!TypeOK
<1>7. Tile!Attempting'
  BY <1>1, <1>2, <1>3, <1>4 DEF Tile!Attempting, Tile!Early, MediaAssumption
<1> QED
  BY <1>5, <1>6, <1>7 DEF Tile!PlaybackInv

LEMMA UserSafe ==
    ASSUME MediaAssumption, Tile!PlaybackInv, Tile!User
    PROVE  Tile!PlaybackInv'
<1>1. CASE Tile!Turn \/ Tile!BrowserPauses \/ Tile!Resume
  <2>1. /\ UNCHANGED <<p_enabled, Tile!link, Tile!conn, Tile!held>>
        /\ {p_visible', p_mayPlay', p_paused'} \subseteq BOOLEAN
    BY <1>1 DEF Tile!Turn, Tile!BrowserPauses, Tile!Resume, Tile!PlaybackInv, Tile!TypeOK
  <2> QED
    BY <2>1 DEF Tile!PlaybackInv, Tile!TypeOK, Tile!OnePeer, Tile!NoForgottenSession, Tile!NeverStuck,
        Tile!Attempting, Tile!Watched, Tile!conn, Tile!held, Tile!link
<1> QED
  BY <1>1, SuspendSafe, OpenSafe DEF Tile!User

LEMMA PlaybackStep ==
    ASSUME MediaAssumption, Tile!PlaybackInv, Tile!Next
    PROVE  Tile!PlaybackInv'
  BY NegotiateSafe, TimersSafe, IceChangesSafe, MediaSafe, UserSafe DEF Tile!Next

LEMMA PlaybackInit ==
    ASSUME MediaAssumption, Tile!Init
    PROVE  Tile!PlaybackInv
<1>1. p_generation \in Attempts /\ p_generation # Absent /\ Absent \notin Attempts
  BY DEF Tile!Init, MediaAssumption
<1>2. /\ p_enabled = TRUE /\ p_visible = TRUE /\ p_mayPlay = TRUE /\ p_paused = TRUE
      /\ p_state = "checking" /\ p_open = TRUE /\ p_timers = {} /\ p_watchdog = FALSE /\ p_stage = {} /\ p_retried = FALSE
      /\ p_step = [i \in Attempts |-> IF i = p_generation THEN "resolving" ELSE "free"]
      /\ p_peer = Absent /\ p_alive = {} /\ p_session = Absent /\ p_server = [i \in Attempts |-> "none"]
      /\ p_fresh = FALSE
  BY DEF Tile!Init
<1>3. Tile!TypeOK
  BY <1>1, <1>2 DEF Tile!TypeOK
<1>4. Tile!OnePeer /\ Tile!NoForgottenSession /\ Tile!NeverStuck /\ Tile!Attempting /\ Tile!Watched
  BY <1>1, <1>2 DEF Tile!OnePeer, Tile!NoForgottenSession, Tile!NeverStuck, Tile!Attempting, Tile!Watched
<1> QED
  BY <1>3, <1>4 DEF Tile!PlaybackInv

-----------------------------------------------------------------------------
(* A track's audio channel (AudioChannel).                                 *)

\* Letting go, to wait for a retry or for good.
LEMMA ChannelReconnects ==
    ASSUME MediaAssumption, Channel!ChannelInv, ~h_closed, h_state # "disabled", Channel!scheduleReconnect,
           UNCHANGED <<h_closed, h_made>>, h_faults' \in 0..ChannelFaults,
           h_flight' \in {h_flight, Channel!NoFlight}
    PROVE  Channel!ChannelInv'
<1>1. Channel!TypeOK /\ Channel!NoForgottenSession /\ Channel!Owned
  BY DEF Channel!ChannelInv
<1>2. /\ h_state' = "reconnecting" /\ h_attempt' \in 0..2 /\ h_peer' = 0 /\ h_location' = 0 /\ h_sampling' = 0
      /\ h_timers' = {"retry"} /\ h_sessions' = h_sessions \ {h_location}
  BY <1>1 DEF Channel!scheduleReconnect, Channel!TypeOK
<1>3. h_sessions' = {}
  BY <1>1, <1>2 DEF Channel!NoForgottenSession
<1>4. Channel!TypeOK'
  BY <1>1, <1>2, <1>3 DEF Channel!TypeOK, Channel!NoFlight
<1>5. Channel!NoForgottenSession' /\ Channel!NeverStuck' /\ Channel!Owned'
  BY <1>1, <1>2, <1>3 DEF Channel!NoForgottenSession, Channel!NeverStuck, Channel!Owned, Channel!TypeOK, Channel!NoFlight
<1> QED
  BY <1>4, <1>5 DEF Channel!ChannelInv

LEMMA ChannelReleased ==
    ASSUME MediaAssumption, Channel!ChannelInv, Channel!release, h_state' = "disabled",
           UNCHANGED <<h_attempt, h_made>>, h_faults' \in 0..ChannelFaults,
           h_flight' = Channel!NoFlight \/ (h_closed' /\ h_flight' = h_flight)
    PROVE  Channel!ChannelInv'
<1>1. Channel!TypeOK /\ Channel!NoForgottenSession /\ Channel!Owned
  BY DEF Channel!ChannelInv
<1>2. h_timers' = {} /\ h_peer' = 0 /\ h_location' = 0 /\ h_sampling' = 0 /\ h_sessions' = {}
  BY <1>1 DEF Channel!release, Channel!NoForgottenSession
<1>3. Channel!TypeOK'
  BY <1>1, <1>2 DEF Channel!TypeOK, Channel!NoFlight
<1>4. Channel!NoForgottenSession' /\ Channel!NeverStuck' /\ Channel!Owned'
  BY <1>1, <1>2 DEF Channel!NoForgottenSession, Channel!NeverStuck, Channel!Owned, Channel!TypeOK, Channel!NoFlight
<1> QED
  BY <1>3, <1>4 DEF Channel!ChannelInv

\* The attempt: a session is known only if the channel still wants it.
LEMMA ChannelAttempt ==
    ASSUME MediaAssumption, Channel!ChannelInv, Channel!Gathered \/ Channel!Created \/ Channel!Answered
    PROVE  Channel!ChannelInv'
<1>1. Channel!TypeOK /\ Channel!NoForgottenSession /\ Channel!NeverStuck /\ Channel!Owned
  BY DEF Channel!ChannelInv
<1> USE DEF Channel!Current, Channel!NoFlight, Channel!media
<1>2. CASE Channel!Gathered
  <2>1. Channel!TypeOK'
    BY <1>1, <1>2 DEF Channel!Gathered, Channel!TypeOK
  <2>2. Channel!NoForgottenSession' /\ Channel!NeverStuck' /\ Channel!Owned'
    BY <1>1, <1>2 DEF Channel!Gathered, Channel!NoForgottenSession, Channel!NeverStuck, Channel!Owned, Channel!TypeOK
  <2> QED
    BY <2>1, <2>2 DEF Channel!ChannelInv
<1>3. CASE Channel!Created
  <2>1. Channel!TypeOK'
    BY <1>1, <1>3 DEF Channel!Created, Channel!TypeOK, Channel!Owned
  <2>2. Channel!NoForgottenSession' /\ Channel!NeverStuck' /\ Channel!Owned'
    BY <1>1, <1>3 DEF Channel!Created, Channel!NoForgottenSession, Channel!NeverStuck, Channel!Owned, Channel!TypeOK
  <2> QED
    BY <2>1, <2>2 DEF Channel!ChannelInv
<1>4. CASE Channel!Answered
  <2>1. Channel!TypeOK'
    BY <1>1, <1>4 DEF Channel!Answered, Channel!TypeOK, Channel!Owned
  <2>2. Channel!NoForgottenSession' /\ Channel!NeverStuck' /\ Channel!Owned'
    BY <1>1, <1>4 DEF Channel!Answered, Channel!NoForgottenSession, Channel!NeverStuck, Channel!Owned, Channel!TypeOK
  <2> QED
    BY <2>1, <2>2 DEF Channel!ChannelInv
<1> QED
  BY <1>2, <1>3, <1>4

LEMMA ChannelFaulted ==
    ASSUME MediaAssumption, Channel!TypeOK, Channel!Fault
    PROVE  h_faults' \in 0..ChannelFaults
  BY DEF Channel!Fault, Channel!TypeOK, MediaAssumption

LEMMA ChannelStep ==
    ASSUME MediaAssumption, Channel!ChannelInv, Channel!Next
    PROVE  Channel!ChannelInv'
<1>1. Channel!TypeOK /\ Channel!NoForgottenSession /\ Channel!NeverStuck /\ Channel!Owned
  BY DEF Channel!ChannelInv
<1>2. CASE Channel!Denied
  BY <1>1, <1>2, ChannelReleased, ChannelFaulted DEF Channel!Denied
<1>3. CASE Channel!AttemptFails
  <2>1. h_faults' \in 0..ChannelFaults /\ h_flight' = Channel!NoFlight /\ UNCHANGED <<h_closed, h_made>>
    BY <1>1, <1>3, ChannelFaulted DEF Channel!AttemptFails
  <2>2. CASE h_closed
    <3>1. UNCHANGED <<h_state, h_attempt, h_peer, h_location, h_timers, h_sampling, h_sessions, h_connection>>
      BY <1>3, <2>2 DEF Channel!AttemptFails
    <3>2. Channel!TypeOK'
      BY <1>1, <2>1, <3>1 DEF Channel!TypeOK, Channel!NoFlight
    <3>3. Channel!NoForgottenSession' /\ Channel!NeverStuck' /\ Channel!Owned'
      BY <1>1, <2>1, <2>2, <3>1 DEF Channel!NoForgottenSession, Channel!NeverStuck, Channel!Owned, Channel!TypeOK, Channel!NoFlight
    <3> QED
      BY <3>2, <3>3 DEF Channel!ChannelInv
  <2>3. CASE ~h_closed
    <3>1. h_state # "disabled"
      BY <1>1, <1>3, <2>3 DEF Channel!AttemptFails, Channel!Owned
    <3> QED
      BY <1>3, <2>1, <2>3, <3>1, ChannelReconnects DEF Channel!AttemptFails
  <2> QED
    BY <2>2, <2>3
<1>4. CASE Channel!HandshakeEnds \/ Channel!ConnectionFails
  <2>1. h_faults' \in 0..ChannelFaults /\ UNCHANGED <<h_closed, h_made, h_flight>> /\ Channel!scheduleReconnect
    BY <1>1, <1>4, ChannelFaulted DEF Channel!HandshakeEnds, Channel!ConnectionFails
  <2>2. ~h_closed /\ h_state # "disabled"
    BY <1>1, <1>4 DEF Channel!HandshakeEnds, Channel!ConnectionFails, Channel!Owned
  <2> QED
    BY <2>1, <2>2, ChannelReconnects
<1>5. CASE Channel!Retry
  <2>1. /\ "retry" \in h_timers /\ ~h_closed /\ h_timers' = h_timers \ {"retry"}
        /\ h_made < ChannelPeers /\ h_made' = h_made + 1 /\ h_peer' = h_made + 1
        /\ h_flight' = [of |-> h_made + 1, at |-> "gathering"]
        /\ h_state' \in {"connecting", "reconnecting"} /\ h_connection' = "new"
        /\ UNCHANGED <<h_closed, h_attempt, h_location, h_sampling, h_sessions, h_faults>>
    BY <1>5 DEF Channel!Retry, Channel!connect
  <2>2. h_peer = 0 /\ h_timers = {"retry"} /\ h_location = 0 /\ h_sampling = 0 /\ h_sessions = {}
    BY <1>1, <2>1 DEF Channel!Owned, Channel!TypeOK, Channel!NoForgottenSession
  <2>3. Channel!TypeOK'
    BY <1>1, <2>1, <2>2 DEF Channel!TypeOK, MediaAssumption
  <2>4. Channel!NoForgottenSession' /\ Channel!NeverStuck' /\ Channel!Owned'
    BY <1>1, <2>1, <2>2 DEF Channel!NoForgottenSession, Channel!NeverStuck, Channel!Owned, Channel!TypeOK
  <2> QED
    BY <2>3, <2>4 DEF Channel!ChannelInv
<1>6. CASE Channel!StallTick
  <2>1. /\ "stall" \in h_timers /\ h_connection = "connected" /\ h_timers' = h_timers \ {"handshake"}
        /\ h_state' = "connected" /\ h_attempt' \in {h_attempt, 0} /\ h_sampling' = h_peer
        /\ UNCHANGED <<h_closed, h_peer, h_location, h_flight, h_made, h_connection, h_sessions, h_faults>>
    BY <1>6 DEF Channel!StallTick, Channel!media
  <2>2. h_peer # 0 /\ ~h_closed
    BY <1>1, <2>1 DEF Channel!Owned, Channel!TypeOK
  <2>3. Channel!TypeOK'
    BY <1>1, <2>1, <2>2 DEF Channel!TypeOK
  <2>4. Channel!NoForgottenSession' /\ Channel!NeverStuck' /\ Channel!Owned'
    BY <1>1, <2>1, <2>2 DEF Channel!NoForgottenSession, Channel!NeverStuck, Channel!Owned
  <2> QED
    BY <2>3, <2>4 DEF Channel!ChannelInv
<1>7. CASE Channel!Sampled
  <2>1. h_sampling # 0 /\ h_sampling = h_peer /\ ~h_closed /\ UNCHANGED <<h_closed, h_flight, h_made, h_faults>>
    BY <1>7 DEF Channel!Sampled
  <2>2. CASE Channel!scheduleReconnect
    <3>1. h_state # "disabled" /\ h_faults' \in 0..ChannelFaults
      BY <1>1, <2>1 DEF Channel!Owned, Channel!TypeOK
    <3> QED
      BY <2>1, <2>2, <3>1, ChannelReconnects
  <2>3. CASE h_sampling' = 0 /\ UNCHANGED <<h_state, h_attempt, h_peer, h_location, h_timers, h_sessions, h_connection>>
    <3>1. Channel!TypeOK'
      BY <1>1, <2>1, <2>3 DEF Channel!TypeOK
    <3>2. Channel!NoForgottenSession' /\ Channel!NeverStuck' /\ Channel!Owned'
      BY <1>1, <2>1, <2>3 DEF Channel!NoForgottenSession, Channel!NeverStuck, Channel!Owned
    <3> QED
      BY <3>1, <3>2 DEF Channel!ChannelInv
  <2> QED
    BY <1>7, <2>2, <2>3 DEF Channel!Sampled
<1>8. CASE Channel!close
  BY <1>1, <1>8, ChannelReleased DEF Channel!close, Channel!TypeOK
<1>9. CASE Channel!Connected \/ Channel!SourceStops \/ Channel!SourceReturns \/ Channel!TimePasses
  <2>1. /\ UNCHANGED <<Channel!channel, h_sessions>> /\ h_faults' \in 0..ChannelFaults
        /\ h_connection' \in {h_connection, "connected"}
    BY <1>1, <1>9, ChannelFaulted DEF Channel!Connected, Channel!SourceStops, Channel!SourceReturns, Channel!TimePasses, Channel!TypeOK
  <2>2. Channel!TypeOK'
    BY <1>1, <2>1 DEF Channel!TypeOK, Channel!channel
  <2>3. Channel!NoForgottenSession' /\ Channel!NeverStuck' /\ Channel!Owned'
    BY <1>1, <2>1 DEF Channel!NoForgottenSession, Channel!NeverStuck, Channel!Owned, Channel!channel
  <2> QED
    BY <2>2, <2>3 DEF Channel!ChannelInv
<1> QED
  BY <1>2, <1>3, <1>4, <1>5, <1>6, <1>7, <1>8, <1>9, ChannelAttempt DEF Channel!Next

LEMMA ChannelInit ==
    ASSUME MediaAssumption, Channel!Init
    PROVE  Channel!ChannelInv
<1>1. Channel!TypeOK
  BY DEF Channel!Init, Channel!TypeOK, MediaAssumption
<1>2. Channel!NoForgottenSession /\ Channel!NeverStuck /\ Channel!Owned
  BY DEF Channel!Init, Channel!NoForgottenSession, Channel!NeverStuck, Channel!Owned
<1> QED
  BY <1>1, <1>2 DEF Channel!ChannelInv

-----------------------------------------------------------------------------
(* The events socket (SceneEvents).                                        *)

\* One socket: the page has at most the one it listens to.
SocketAt == {"free", "requested", "accepted", "joined", "ready", "hung", "broken"}
SocketRow == [at : SocketAt, snapshot : 0..Revisions, out : Seq(0..Revisions \cup {Operational}), raced : BOOLEAN]

LEMMA EventsTypes ==
    ASSUME Events!EventsInv
    PROVE  /\ e_wire \in [Sockets -> SocketRow]
           /\ \A s \in Sockets : Len(e_wire[s].out) <= QueueLimit
           /\ e_socket \in Sockets \cup {Absent}
           /\ \A s \in Sockets : e_wire[s].at # "free" => s = e_socket
  BY DEF Events!EventsInv, Events!TypeOK, Events!OneSocket, SocketRow, SocketAt

\* A socket that is free or new is well formed.
LEMMA SocketRows ==
    ASSUME MediaAssumption
    PROVE  /\ Events!Free \in SocketRow /\ Events!Free.at = "free" /\ Events!Free.out = << >>
           /\ Events!New \in SocketRow /\ Events!New.at = "requested" /\ Events!New.out = << >>
           /\ Len(<< >>) = 0 /\ 0 <= QueueLimit
<1>1. << >> \in Seq(0..Revisions \cup {Operational}) /\ Len(<< >>) = 0
  OBVIOUS
<1>2. 0 \in 0..Revisions /\ 0 <= QueueLimit
  BY DEF MediaAssumption
<1> QED
  BY <1>1, <1>2 DEF Events!Free, Events!New, SocketRow, SocketAt

\* retire closes the socket in use: none is left.
LEMMA Retired ==
    ASSUME MediaAssumption, Events!EventsInv, Events!retire
    PROVE  /\ e_wire' \in [Sockets -> SocketRow]
           /\ \A s \in Sockets : Len(e_wire'[s].out) <= QueueLimit /\ e_wire'[s].at = "free"
<1>1. e_wire' = [s \in Sockets |-> IF s = e_socket THEN Events!Free ELSE e_wire[s]]
  BY DEF Events!retire
<1>2. e_wire' \in [Sockets -> SocketRow]
  BY <1>1, EventsTypes, SocketRows
<1>3. \A s \in Sockets : Len(e_wire'[s].out) <= QueueLimit /\ e_wire'[s].at = "free"
  BY <1>1, EventsTypes, SocketRows
<1> QED
  BY <1>2, <1>3

\* What a step leaves of the page's side, and what it may do to the sockets.
Others == UNCHANGED <<e_shown, e_revision, e_handlers, e_told>>
Toggled == {e_visible', e_network', e_hiddenLong'} \subseteq BOOLEAN

LEMMA RetiredSafe ==
    ASSUME MediaAssumption, Events!EventsInv, Events!retire, Toggled, Others,
           e_socket' = Absent, e_opened' = FALSE, e_deadline' = FALSE,
           e_closed' \in BOOLEAN, e_retry' \in BOOLEAN, e_online' \in BOOLEAN,
           e_online' => e_closed',
           ~e_closed' /\ e_network' /\ e_visible' => e_retry'
    PROVE  Events!EventsInv'
<1>1. Events!TypeOK /\ Events!Sessions
  BY DEF Events!EventsInv
<1>2. /\ e_wire' \in [Sockets -> SocketRow]
      /\ \A s \in Sockets : Len(e_wire'[s].out) <= QueueLimit /\ e_wire'[s].at = "free"
  BY Retired
<1>3. Events!TypeOK'
  BY <1>1, <1>2 DEF Events!TypeOK, Toggled, Others, SocketRow, SocketAt
<1>4. Events!OneSocket' /\ Events!NeverStuck' /\ Events!Sessions'
  BY <1>1, <1>2 DEF Events!OneSocket, Events!NeverStuck, Events!Sessions, Events!canConnect, Others
<1> QED
  BY <1>3, <1>4 DEF Events!EventsInv

\* connect: the old socket gives way to a new one, under a deadline.
LEMMA ConnectSafe ==
    ASSUME MediaAssumption, Events!EventsInv, NEW possible \in BOOLEAN, Events!connect(possible), Toggled, Others,
           ~possible => ~(e_network' /\ e_visible')
    PROVE  Events!EventsInv'
<1>1. Events!TypeOK /\ Events!Sessions
  BY DEF Events!EventsInv
<1>2. CASE ~possible
  BY <1>1, <1>2, RetiredSafe DEF Events!connect, Events!Down, Events!TypeOK
<1>3. CASE possible
  <2>1. PICK s \in Sockets :
            /\ e_wire' = [t \in Sockets |-> IF t = s THEN Events!New ELSE IF t = e_socket THEN Events!Free ELSE e_wire[t]]
            /\ e_socket' = s /\ e_opened' = FALSE /\ e_deadline' = TRUE /\ e_retry' = FALSE /\ e_online' = FALSE
            /\ UNCHANGED e_closed
    BY <1>3 DEF Events!connect
  <2>2. e_wire' \in [Sockets -> SocketRow]
    BY <2>1, EventsTypes, SocketRows
  <2>3. \A t \in Sockets : Len(e_wire'[t].out) <= QueueLimit /\ (e_wire'[t].at # "free" => t = s)
    BY <2>1, EventsTypes, SocketRows
  <2>4. s # Absent
    BY DEF MediaAssumption
  <2>5. Events!TypeOK'
    BY <1>1, <2>1, <2>2, <2>3 DEF Events!TypeOK, Toggled, Others, SocketRow, SocketAt
  <2>6. Events!OneSocket' /\ Events!NeverStuck' /\ Events!Sessions'
    BY <1>1, <2>1, <2>3, <2>4 DEF Events!OneSocket, Events!NeverStuck, Events!Sessions, Others
  <2> QED
    BY <2>5, <2>6 DEF Events!EventsInv
<1> QED
  BY <1>2, <1>3

\* The sockets stay as they are, and so does what runs for them.
LEMMA StillSafe ==
    ASSUME Events!EventsInv, Toggled, Others, UNCHANGED <<Events!client, e_wire>>,
           ~e_closed /\ e_network' /\ e_visible' => e_socket # Absent \/ e_retry
    PROVE  Events!EventsInv'
<1>1. Events!TypeOK /\ Events!OneSocket /\ Events!NeverStuck /\ Events!Sessions
  BY DEF Events!EventsInv
<1>2. Events!TypeOK'
  BY <1>1 DEF Events!TypeOK, Toggled, Others, Events!client
<1>3. Events!OneSocket' /\ Events!NeverStuck' /\ Events!Sessions'
  BY <1>1 DEF Events!OneSocket, Events!NeverStuck, Events!Sessions, Events!canConnect, Others, Events!client
<1> QED
  BY <1>2, <1>3 DEF Events!EventsInv

\* The core's side: a session moves on, none is freed or begun.
LEMMA WireSafe ==
    ASSUME Events!EventsInv, UNCHANGED <<Events!browser, Events!client, e_shown>>,
           e_revision' \in 0..Revisions, e_told' \in Nat, e_told' <= e_revision', e_handlers' \subseteq 1..e_revision',
           e_wire' \in [Sockets -> SocketRow],
           \A s \in Sockets : Len(e_wire'[s].out) <= QueueLimit /\ (e_wire'[s].at = "free" <=> e_wire[s].at = "free")
    PROVE  Events!EventsInv'
<1>1. Events!TypeOK /\ Events!OneSocket /\ Events!NeverStuck /\ Events!Sessions
  BY DEF Events!EventsInv
<1>2. Events!TypeOK'
  BY <1>1 DEF Events!TypeOK, Events!browser, Events!client, SocketRow, SocketAt
<1>3. Events!OneSocket' /\ Events!NeverStuck' /\ Events!Sessions'
  BY <1>1 DEF Events!OneSocket, Events!NeverStuck, Events!Sessions, Events!canConnect, Events!browser, Events!client
<1> QED
  BY <1>2, <1>3 DEF Events!EventsInv

\* A message is kept while the queue has room.
LEMMA PushRow ==
    ASSUME MediaAssumption, NEW w \in SocketRow, Len(w.out) <= QueueLimit, NEW m \in 0..Revisions \cup {Operational}
    PROVE  /\ Events!Push(w, m) \in SocketRow /\ Len(Events!Push(w, m).out) <= QueueLimit
           /\ Events!Push(w, m).at = w.at
<1>1. CASE Events!Full(w)
  BY <1>1 DEF Events!Push, SocketRow
<1>2. CASE ~Events!Full(w)
  <2>1. w.out \in Seq(0..Revisions \cup {Operational})
    BY DEF SocketRow
  <2>2. /\ Append(w.out, m) \in Seq(0..Revisions \cup {Operational})
        /\ Len(Append(w.out, m)) = Len(w.out) + 1 /\ Len(w.out) \in Nat
    BY <2>1
  <2>3. Len(Append(w.out, m)) <= QueueLimit
    BY <1>2, <2>2 DEF Events!Full, MediaAssumption
  <2>4. Events!Push(w, m) = [w EXCEPT !.out = Append(@, m)]
    BY <1>2 DEF Events!Push
  <2> QED
    BY <2>2, <2>3, <2>4 DEF SocketRow
<1> QED
  BY <1>1, <1>2

LEMMA ReachedRow ==
    ASSUME MediaAssumption, NEW w \in SocketRow, Len(w.out) <= QueueLimit, NEW m \in 0..Revisions \cup {Operational}
    PROVE  /\ Events!Reached(w, m) \in SocketRow /\ Len(Events!Reached(w, m).out) <= QueueLimit
           /\ Events!Reached(w, m).at = w.at
  BY PushRow DEF Events!Reached

LEMMA ToldRow ==
    ASSUME NEW w \in SocketRow, NEW m \in 0..Revisions
    PROVE  /\ Events!Told(w, m) \in SocketRow /\ Events!Told(w, m).at = w.at /\ Events!Told(w, m).out = w.out
  BY DEF Events!Told, SocketRow

LEMMA EventsPage ==
    ASSUME MediaAssumption, Events!EventsInv, Events!Page
    PROVE  Events!EventsInv'
<1>1. Events!TypeOK /\ Events!OneSocket /\ Events!NeverStuck /\ Events!Sessions
  BY DEF Events!EventsInv
<1>2. CASE Events!RetryFires
  <2>1. Events!connect(Events!canConnect) /\ UNCHANGED <<Events!browser, e_shown, Events!server>>
    BY <1>2 DEF Events!RetryFires
  <2>2. Toggled /\ Others /\ Events!canConnect \in BOOLEAN /\ (~Events!canConnect => ~(e_network' /\ e_visible'))
    BY <1>1, <2>1 DEF Toggled, Others, Events!browser, Events!server, Events!TypeOK, Events!canConnect
  <2> QED
    BY <2>1, <2>2, ConnectSafe
<1>3. CASE Events!Deadline \/ Events!TransportFails
  <2>1. Events!wait /\ UNCHANGED <<Events!browser, e_shown, Events!server>>
    BY <1>3 DEF Events!Deadline, Events!TransportFails
  <2>2. Toggled /\ Others /\ e_closed' \in BOOLEAN /\ e_retry' \in BOOLEAN
        /\ (~e_closed' /\ e_network' /\ e_visible' => e_retry')
    BY <1>1, <2>1 DEF Toggled, Others, Events!browser, Events!server, Events!TypeOK, Events!wait, Events!canConnect
  <2> QED
    BY <2>1, <2>2, RetiredSafe DEF Events!wait
<1>4. CASE Events!Opened
  <2>1. /\ e_socket # Absent /\ e_opened' = TRUE /\ e_deadline' = TRUE
        /\ UNCHANGED <<Events!browser, e_closed, e_socket, e_retry, e_online, e_shown, e_wire, Events!server>>
    BY <1>4 DEF Events!Opened
  <2>2. Events!TypeOK'
    BY <1>1, <2>1 DEF Events!TypeOK, Events!browser, Events!server
  <2>3. Events!OneSocket' /\ Events!NeverStuck' /\ Events!Sessions'
    BY <1>1, <2>1 DEF Events!OneSocket, Events!NeverStuck, Events!Sessions, Events!canConnect, Events!browser, Events!server
  <2> QED
    BY <2>2, <2>3 DEF Events!EventsInv
<1>5. CASE Events!Receive
  <2> DEFINE out == e_wire[e_socket].out
  <2>1. e_opened /\ out # << >> /\ e_wire' = [e_wire EXCEPT ![e_socket].out = Tail(out)]
        /\ UNCHANGED <<Events!browser, Events!server>>
    BY <1>5 DEF Events!Receive
  <2>2. e_socket \in Sockets /\ e_socket # Absent /\ e_wire[e_socket] \in SocketRow /\ e_wire \in [Sockets -> SocketRow]
    BY <1>1, <2>1, EventsTypes DEF Events!Sessions
  <2>3. /\ out \in Seq(0..Revisions \cup {Operational}) /\ Head(out) \in 0..Revisions \cup {Operational}
        /\ Tail(out) \in Seq(0..Revisions \cup {Operational}) /\ Len(Tail(out)) = Len(out) - 1 /\ Len(out) \in Nat
    <3>1. out \in Seq(0..Revisions \cup {Operational})
      BY <2>2 DEF SocketRow
    <3> HIDE DEF out
    <3> QED
      BY <2>1, <3>1
  <2>4. e_wire' \in [Sockets -> SocketRow]
    BY <2>1, <2>2, <2>3 DEF SocketRow
  <2>5. \A s \in Sockets : e_wire'[s].at = e_wire[s].at /\ Len(e_wire'[s].out) <= Len(e_wire[s].out)
    <3> TAKE s \in Sockets
    <3>1. CASE s = e_socket
      <4>1. e_wire'[s] = [e_wire[s] EXCEPT !.out = Tail(out)]
        BY <2>1, <2>2, <3>1
      <4>2. e_wire'[s].at = e_wire[s].at /\ e_wire'[s].out = Tail(out)
        BY <2>2, <3>1, <4>1 DEF SocketRow
      <4> QED
        BY <2>3, <3>1, <4>2
    <3>2. CASE s # e_socket
      <4>1. e_wire'[s] = e_wire[s] /\ e_wire[s] \in SocketRow
        BY <2>1, <2>2, <3>2
      <4>2. Len(e_wire[s].out) \in Nat
        BY <4>1 DEF SocketRow
      <4> QED
        BY <4>1, <4>2
    <3> QED
      BY <3>1, <3>2
  <2>6. \A s \in Sockets : Len(e_wire'[s].out) <= QueueLimit
    <3> TAKE s \in Sockets
    <3>1. Len(e_wire[s].out) <= QueueLimit /\ Len(e_wire[s].out) \in Nat /\ Len(e_wire'[s].out) \in Nat
      BY <2>2, <2>4, EventsTypes DEF SocketRow
    <3> QED
      BY <2>5, <3>1 DEF MediaAssumption
  <2>7. \/ UNCHANGED <<e_shown, Events!client>>
        \/ /\ e_shown' \in 0..Revisions /\ e_online' = TRUE /\ e_deadline' = FALSE
           /\ UNCHANGED <<e_closed, e_socket, e_opened, e_retry>>
    BY <1>5, <2>3 DEF Events!Receive
  <2>8. Events!TypeOK'
    BY <1>1, <2>1, <2>4, <2>6, <2>7 DEF Events!TypeOK, Events!browser, Events!server, Events!client, SocketRow, SocketAt
  <2>9. Events!OneSocket' /\ Events!NeverStuck' /\ Events!Sessions'
    <3>1. UNCHANGED <<e_visible, e_network, e_closed, e_socket, e_opened, e_retry, e_revision, e_told>>
          /\ (UNCHANGED <<e_online, e_deadline>> \/ (e_online' = TRUE /\ e_deadline' = FALSE))
      BY <2>1, <2>7 DEF Events!browser, Events!server, Events!client
    <3>2. Events!OneSocket'
      BY <1>1, <2>5, <3>1 DEF Events!OneSocket
    <3> QED
      BY <1>1, <2>2, <3>1, <3>2 DEF Events!NeverStuck, Events!Sessions, Events!canConnect
  <2> QED
    BY <2>8, <2>9 DEF Events!EventsInv
<1> QED
  BY <1>2, <1>3, <1>4, <1>5 DEF Events!Page

LEMMA EventsUser ==
    ASSUME MediaAssumption, Events!EventsInv, Events!User
    PROVE  Events!EventsInv'
<1>1. Events!TypeOK /\ Events!OneSocket /\ Events!NeverStuck /\ Events!Sessions
  BY DEF Events!EventsInv
<1>2. CASE Events!Manual
  <2>1. Toggled /\ Others
    BY <1>1, <1>2 DEF Events!Manual, Toggled, Others, Events!browser, Events!server, Events!TypeOK
  <2> QED
    BY <1>2, <2>1, ConnectSafe DEF Events!Manual
<1>3. CASE Events!NetworkLost
  <2>1. Toggled /\ Others /\ e_network' = FALSE
    BY <1>1, <1>3 DEF Events!NetworkLost, Toggled, Others, Events!server, Events!TypeOK
  <2>2. CASE UNCHANGED <<Events!client, e_wire>>
    BY <2>1, <2>2, StillSafe
  <2>3. CASE Events!retire /\ Events!Down
    BY <1>1, <2>1, <2>3, RetiredSafe DEF Events!Down, Events!TypeOK
  <2> QED
    BY <1>3, <2>2, <2>3 DEF Events!NetworkLost
<1>4. CASE Events!NetworkBack
  <2>1. Toggled /\ Others /\ e_visible' = e_visible
    BY <1>1, <1>4 DEF Events!NetworkBack, Toggled, Others, Events!server, Events!TypeOK
  <2>2. CASE ~e_closed /\ e_visible /\ Events!wakes(FALSE)
    BY <1>4, <2>1, <2>2, ConnectSafe DEF Events!NetworkBack
  <2>3. CASE ~(~e_closed /\ e_visible /\ Events!wakes(FALSE))
    <3>1. UNCHANGED <<Events!client, e_wire>>
      BY <1>4, <2>3 DEF Events!NetworkBack
    <3>2. ~e_closed /\ e_visible => e_socket # Absent
      BY <2>3 DEF Events!wakes
    <3> QED
      BY <2>1, <3>1, <3>2, StillSafe
  <2> QED
    BY <2>2, <2>3
<1>5. CASE Events!Hide
  <2>1. Toggled /\ Others /\ e_visible' = FALSE
    BY <1>1, <1>5 DEF Events!Hide, Toggled, Others, Events!server, Events!TypeOK
  <2>2. CASE UNCHANGED <<Events!client, e_wire>>
    BY <2>1, <2>2, StillSafe
  <2>3. CASE Events!retire /\ Events!Down
    BY <1>1, <2>1, <2>3, RetiredSafe DEF Events!Down, Events!TypeOK
  <2> QED
    BY <1>5, <2>2, <2>3 DEF Events!Hide
<1>6. CASE Events!StaysHidden
  <2>1. Toggled /\ Others /\ ~e_visible' /\ UNCHANGED <<Events!client, e_wire>>
    BY <1>1, <1>6 DEF Events!StaysHidden, Toggled, Others, Events!server, Events!TypeOK
  <2> QED
    BY <2>1, StillSafe
<1>7. CASE Events!Show
  <2>1. Toggled /\ Others /\ e_network' = e_network
    BY <1>1, <1>7 DEF Events!Show, Toggled, Others, Events!server, Events!TypeOK
  <2>2. CASE ~e_closed /\ e_network /\ Events!wakes(FALSE)
    BY <1>7, <2>1, <2>2, ConnectSafe DEF Events!Show
  <2>3. CASE ~(~e_closed /\ e_network /\ Events!wakes(FALSE))
    <3>1. UNCHANGED <<Events!client, e_wire>>
      BY <1>7, <2>3 DEF Events!Show
    <3>2. ~e_closed /\ e_network => e_socket # Absent
      BY <2>3 DEF Events!wakes
    <3> QED
      BY <2>1, <3>1, <3>2, StillSafe
  <2> QED
    BY <2>2, <2>3
<1>8. CASE Events!Close
  <2>1. Toggled /\ Others
    BY <1>1, <1>8 DEF Events!Close, Toggled, Others, Events!browser, Events!server, Events!TypeOK
  <2> QED
    BY <1>1, <1>8, <2>1, RetiredSafe DEF Events!Close, Events!TypeOK
<1> QED
  BY <1>2, <1>3, <1>4, <1>5, <1>6, <1>7, <1>8 DEF Events!User

LEMMA EventsServe ==
    ASSUME MediaAssumption, Events!EventsInv, NEW s \in Sockets, Events!Serve(s)
    PROVE  Events!EventsInv'
<1>1. Events!TypeOK /\ Events!Sessions
  BY DEF Events!EventsInv
<1>2. e_wire \in [Sockets -> SocketRow] /\ e_wire[s] \in SocketRow /\ \A t \in Sockets : Len(e_wire[t].out) <= QueueLimit
  BY EventsTypes
<1>3. UNCHANGED <<Events!browser, Events!client, e_shown, Events!server>>
  BY DEF Events!Serve, Events!Upgrade, Events!Join, Events!SendSnapshot
<1>4. PICK w \in SocketRow :
          e_wire' = [e_wire EXCEPT ![s] = w] /\ w.at # "free" /\ e_wire[s].at # "free" /\ Len(w.out) <= QueueLimit
  <2>1. CASE Events!Upgrade(s)
    <3> DEFINE w == [e_wire[s] EXCEPT !.at = "accepted", !.snapshot = e_revision]
    <3>1. w \in SocketRow /\ w.at = "accepted" /\ w.out = e_wire[s].out
      BY <1>1, <1>2 DEF Events!Sessions, SocketRow, SocketAt
    <3>2. e_wire' = [e_wire EXCEPT ![s] = w] /\ e_wire[s].at # "free"
      BY <1>2, <2>1 DEF Events!Upgrade
    <3> QED
      BY <1>2, <3>1, <3>2
  <2>2. CASE Events!Join(s)
    <3> DEFINE w == [e_wire[s] EXCEPT !.at = "joined"]
    <3>1. w \in SocketRow /\ w.at = "joined" /\ w.out = e_wire[s].out
      BY <1>2 DEF SocketRow, SocketAt
    <3>2. e_wire' = [e_wire EXCEPT ![s] = w] /\ e_wire[s].at # "free"
      BY <1>2, <2>2 DEF Events!Join
    <3> QED
      BY <1>2, <3>1, <3>2
  <2>3. CASE Events!SendSnapshot(s)
    <3> DEFINE q == Events!Push(e_wire[s], e_wire[s].snapshot)
               w == [q EXCEPT !.at = "ready"]
    <3>1. e_wire[s].snapshot \in 0..Revisions
      BY <1>2 DEF SocketRow
    <3>2. q \in SocketRow /\ Len(q.out) <= QueueLimit
      BY <1>2, <3>1, PushRow
    <3>3. e_wire' = [e_wire EXCEPT ![s] = w] /\ e_wire[s].at # "free"
      BY <1>2, <2>3 DEF Events!SendSnapshot
    <3> HIDE DEF q
    <3>4. w \in SocketRow /\ w.at = "ready" /\ w.out = q.out
      BY <3>2 DEF SocketRow, SocketAt
    <3> QED
      BY <3>2, <3>3, <3>4
  <2> QED
    BY <2>1, <2>2, <2>3 DEF Events!Serve
<1>5. e_wire' \in [Sockets -> SocketRow]
  BY <1>2, <1>4
<1>6. \A t \in Sockets : Len(e_wire'[t].out) <= QueueLimit /\ (e_wire'[t].at = "free" <=> e_wire[t].at = "free")
  BY <1>2, <1>4
<1>7. e_revision' \in 0..Revisions /\ e_told' \in Nat /\ e_told' <= e_revision' /\ e_handlers' \subseteq 1..e_revision'
  BY <1>1, <1>3 DEF Events!TypeOK, Events!Sessions, Events!server
<1> QED
  BY <1>3, <1>5, <1>6, <1>7, WireSafe

LEMMA EventsCore ==
    ASSUME MediaAssumption, Events!EventsInv, Events!Core
    PROVE  Events!EventsInv'
<1>1. Events!TypeOK /\ Events!Sessions
  BY DEF Events!EventsInv
<1>2. e_wire \in [Sockets -> SocketRow] /\ \A t \in Sockets : e_wire[t] \in SocketRow /\ Len(e_wire[t].out) <= QueueLimit
  BY EventsTypes
<1>3. e_revision \in 0..Revisions /\ e_told \in Nat /\ e_told <= e_revision /\ e_handlers \subseteq 1..e_revision
  BY <1>1 DEF Events!TypeOK, Events!Sessions
<1>4. CASE Events!Commit
  <2>1. /\ e_revision' = e_revision + 1 /\ e_revision < Revisions /\ e_handlers' = e_handlers \cup {e_revision'}
        /\ UNCHANGED <<Events!browser, Events!client, e_shown, e_wire, e_told>>
    BY <1>4 DEF Events!Commit
  <2>2. e_revision' \in 0..Revisions /\ e_told' \in Nat /\ e_told' <= e_revision' /\ e_handlers' \subseteq 1..e_revision'
    BY <1>3, <2>1 DEF MediaAssumption
  <2> QED
    BY <1>2, <2>1, <2>2, WireSafe
<1>5. CASE Events!Broadcast
  <2>0. PICK r \in e_handlers : \E sent \in r..e_revision :
            /\ e_handlers' = e_handlers \ {r}
            /\ e_wire' = [s \in Sockets |-> Events!Reached(Events!Told(e_wire[s], sent), sent)]
            /\ e_told' = IF sent > e_told THEN sent ELSE e_told
            /\ UNCHANGED <<Events!browser, Events!client, e_shown, e_revision, e_spent>>
    BY <1>5 DEF Events!Broadcast
  <2>1. PICK sent \in r..e_revision :
            /\ e_handlers' = e_handlers \ {r}
            /\ e_wire' = [s \in Sockets |-> Events!Reached(Events!Told(e_wire[s], sent), sent)]
            /\ e_told' = IF sent > e_told THEN sent ELSE e_told
            /\ UNCHANGED <<Events!browser, Events!client, e_shown, e_revision, e_spent>>
    BY <2>0
  <2>2. sent \in 0..Revisions /\ sent \in Nat /\ sent <= e_revision
    BY <1>3, <2>1 DEF MediaAssumption
  <2>3. \A s \in Sockets : LET w == Events!Told(e_wire[s], sent)
                               v == Events!Reached(w, sent)
                           IN v \in SocketRow /\ Len(v.out) <= QueueLimit /\ v.at = e_wire[s].at
    <3> TAKE s \in Sockets
    <3> DEFINE w == Events!Told(e_wire[s], sent)
    <3>1. w \in SocketRow /\ w.at = e_wire[s].at /\ w.out = e_wire[s].out
      BY <1>2, <2>2, ToldRow
    <3>2. Len(w.out) <= QueueLimit
      BY <1>2, <3>1
    <3> HIDE DEF w
    <3>3. LET v == Events!Reached(w, sent) IN v \in SocketRow /\ Len(v.out) <= QueueLimit /\ v.at = w.at
      BY <2>2, <3>1, <3>2, ReachedRow
    <3> QED
      BY <3>1, <3>3 DEF w
  <2>4. e_wire' \in [Sockets -> SocketRow]
    BY <2>1, <2>3
  <2>5. \A s \in Sockets : Len(e_wire'[s].out) <= QueueLimit /\ (e_wire'[s].at = "free" <=> e_wire[s].at = "free")
    BY <2>1, <2>3
  <2>6. e_revision' \in 0..Revisions /\ e_told' \in Nat /\ e_told' <= e_revision' /\ e_handlers' \subseteq 1..e_revision'
    BY <1>3, <2>1, <2>2
  <2> QED
    BY <2>1, <2>4, <2>5, <2>6, WireSafe
<1>6. CASE Events!OperationalEvent
  <2>1. /\ e_wire' = [s \in Sockets |-> Events!Reached(e_wire[s], Operational)]
        /\ UNCHANGED <<Events!browser, Events!client, e_shown, Events!server>>
    BY <1>6 DEF Events!OperationalEvent
  <2>2. \A s \in Sockets : LET v == Events!Reached(e_wire[s], Operational)
                           IN v \in SocketRow /\ Len(v.out) <= QueueLimit /\ v.at = e_wire[s].at
    BY <1>2, ReachedRow
  <2>3. e_wire' \in [Sockets -> SocketRow]
    BY <2>1, <2>2
  <2>4. \A s \in Sockets : Len(e_wire'[s].out) <= QueueLimit /\ (e_wire'[s].at = "free" <=> e_wire[s].at = "free")
    BY <2>1, <2>2
  <2> QED
    BY <1>3, <2>1, <2>3, <2>4, WireSafe DEF Events!server
<1>7. CASE Events!Fault
  <2>1. /\ e_socket # Absent /\ e_wire[e_socket].at # "free"
        /\ \E at \in {"hung", "broken"} : e_wire' = [e_wire EXCEPT ![e_socket].at = at, ![e_socket].out = << >>]
        /\ UNCHANGED <<Events!browser, Events!client, e_shown, Events!server>>
    BY <1>7 DEF Events!Fault
  <2>2. PICK at \in {"hung", "broken"} : e_wire' = [e_wire EXCEPT ![e_socket].at = at, ![e_socket].out = << >>]
    BY <2>1
  <2>3. e_socket \in Sockets /\ e_wire[e_socket] \in SocketRow
    BY <1>2, <2>1, EventsTypes
  <2> DEFINE w == [e_wire[e_socket] EXCEPT !.at = at, !.out = << >>]
  <2>4. << >> \in Seq(0..Revisions \cup {Operational})
    OBVIOUS
  <2>5. w \in SocketRow /\ w.at = at /\ w.out = << >>
    BY <2>3, <2>4 DEF SocketRow, SocketAt
  <2>6. e_wire' = [e_wire EXCEPT ![e_socket] = w]
    BY <1>2, <2>2, <2>3
  <2> HIDE DEF w
  <2>7. e_wire' \in [Sockets -> SocketRow]
    BY <1>2, <2>5, <2>6
  <2>8. \A s \in Sockets : Len(e_wire'[s].out) <= QueueLimit /\ (e_wire'[s].at = "free" <=> e_wire[s].at = "free")
    BY <1>2, <2>1, <2>3, <2>5, <2>6, SocketRows
  <2> QED
    BY <1>3, <2>1, <2>7, <2>8, WireSafe DEF Events!server
<1> QED
  BY <1>4, <1>5, <1>6, <1>7, EventsServe DEF Events!Core

LEMMA EventsStep ==
    ASSUME MediaAssumption, Events!EventsInv, Events!Next
    PROVE  Events!EventsInv'
  BY EventsPage, EventsUser, EventsCore DEF Events!Next

LEMMA EventsInit ==
    ASSUME MediaAssumption, Events!Init
    PROVE  Events!EventsInv
<1>1. e_socket \in Sockets \cup {Absent} /\ (e_visible => e_socket \in Sockets) /\ (~e_visible => e_socket = Absent)
  BY DEF Events!Init, MediaAssumption
<1>2. e_wire = [s \in Sockets |-> IF s = e_socket THEN Events!New ELSE Events!Free]
  BY DEF Events!Init
<1>3. e_wire \in [Sockets -> SocketRow]
  BY <1>2, SocketRows
<1>4. \A s \in Sockets : Len(e_wire[s].out) <= QueueLimit /\ (e_wire[s].at # "free" => s = e_socket)
  BY <1>2, SocketRows
<1>5. Events!TypeOK
  <2>1. /\ e_visible \in BOOLEAN /\ e_network = TRUE /\ e_hiddenLong = FALSE /\ e_closed = FALSE /\ e_online = FALSE
        /\ e_retry = FALSE /\ e_opened = FALSE /\ e_deadline = e_visible /\ e_shown = Absent
        /\ e_revision = 0 /\ e_handlers = {} /\ e_told = 0
    BY DEF Events!Init
  <2>2. {e_visible, e_network, e_hiddenLong, e_closed, e_opened, e_deadline, e_retry, e_online} \subseteq BOOLEAN
    <3>1. e_deadline \in BOOLEAN
      BY <2>1
    <3> QED
      BY <2>1, <3>1
  <2>3. e_told <= e_revision /\ e_handlers \subseteq 1..e_revision /\ e_shown \in 0..Revisions \cup {Absent}
    BY <2>1
  <2> QED
    BY <1>1, <1>3, <1>4, <2>2, <2>3 DEF Events!TypeOK, SocketRow, SocketAt
<1>6. Events!OneSocket /\ Events!NeverStuck /\ Events!Sessions
  BY <1>1, <1>4 DEF Events!Init, Events!OneSocket, Events!NeverStuck, Events!Sessions, Events!canConnect, MediaAssumption
<1> QED
  BY <1>5, <1>6 DEF Events!EventsInv

-----------------------------------------------------------------------------
(* The audio workspace (AudioTracks).                                      *)

\* The first of a source's tracks is one of them.
LEMMA FirstTrack ==
    ASSUME NEW T \in SUBSET Nat, T # {}
    PROVE  Audio!Min(T) \in T
<1> DEFINE Less == OpToRel(<, Nat)
<1>1. IsWellFoundedOn(Less, Nat)
  BY NatLessThanWellFounded
<1>2. \A x, y \in Nat : x < y => <<x, y>> \in Less
  BY DEF OpToRel
<1> HIDE DEF Less
<1>3. \A R, S, U : IsWellFoundedOn(R, S) /\ U \subseteq S /\ U # {} => \E x \in U : \A y \in U : ~(<<y, x>> \in R)
  BY WFMin
<1>4. PICK x \in T : \A y \in T : ~(<<y, x>> \in Less)
  <2>1. T \subseteq Nat
    OBVIOUS
  <2> QED
    BY <1>1, <1>3, <2>1, Zenon
<1>5. \A y \in T : x <= y
  <2> TAKE y \in T
  <2>1. x \in Nat /\ y \in Nat
    OBVIOUS
  <2>2. ~(y < x)
    BY <1>2, <1>4, <2>1, Zenon
  <2> QED
    BY <2>1, <2>2
<1> QED
  BY <1>5 DEF Audio!Min

\* The two halves of the invariant of the audio workspace: what it knows of
\* the tracks, and what the mixer plays of them.
SelectionOf(sel) ==
    /\ DOMAIN sel = DOMAIN TracksOf
    /\ \A s \in DOMAIN TracksOf : sel[s] \in [known : BOOLEAN, on : SUBSET TracksOf[s]]
TracksKnown ==
    /\ t_probed \in [DOMAIN TracksOf -> Audio!SourceAudioTracks]
    /\ SelectionOf(t_selection)
    /\ t_request \in [DOMAIN TracksOf -> {"none", "running", "aborted"}]
    /\ \A w \in t_waiting : t_request[w[1]] # "none"
    /\ t_scene \in DOMAIN ScenesOf /\ t_front \in BOOLEAN
    /\ t_cached \in [DOMAIN TracksOf -> Audio!SourceAudioTracks]
    /\ \A s \in DOMAIN TracksOf : "available" \in {t_probed[s], t_cached[s]} => TracksOf[s] # {}
    /\ t_waiting \subseteq (DOMAIN TracksOf) \X {"page", "button"}
    /\ t_reprobing \subseteq (DOMAIN TracksOf) \X BOOLEAN
TracksPlayed ==
    /\ t_live \subseteq t_channels /\ t_channels \subseteq Audio!Pairs
    /\ t_bound \subseteq t_channels
    /\ t_gain \subseteq Audio!applyConfiguration(t_attached, t_bound)

LEMMA TracksHalves ==
    /\ Audio!TracksInv <=> TracksKnown /\ TracksPlayed
    /\ Audio!TracksInv' <=> TracksKnown' /\ TracksPlayed'
<1>1. Audio!TracksInv <=> TracksKnown /\ TracksPlayed
  BY DEF Audio!TracksInv, Audio!TypeOK, Audio!NeverTwice, Audio!NoStrayTrack, Audio!Kept, Audio!Source, Audio!Nothing,
         Audio!TrackSelection, Audio!applyConfiguration, SelectionOf, TracksKnown, TracksPlayed
<1>2. Audio!TracksInv' <=> TracksKnown' /\ TracksPlayed'
  BY DEF Audio!TracksInv, Audio!TypeOK, Audio!NeverTwice, Audio!NoStrayTrack, Audio!Kept, Audio!Source, Audio!Nothing,
         Audio!TrackSelection, Audio!applyConfiguration, SelectionOf, TracksKnown, TracksPlayed
<1> QED
  BY <1>1, <1>2

\* However the effects of a change find the page, the mixer afterwards plays
\* only tracks of open channels.
LEMMA SyncSafe ==
    ASSUME NEW active \in SUBSET DOMAIN TracksOf, NEW p, NEW sel, NEW b, NEW a,
           SelectionOf(sel), Audio!Sync(active, p, sel, b, a)
    PROVE  TracksPlayed'
<1> DEFINE wanted == Audio!Wanted(active, p, sel)
<1>1. wanted \subseteq Audio!Pairs
  <2> SUFFICES ASSUME NEW s \in active
               PROVE  {s} \X sel[s].on \subseteq {s} \X TracksOf[s]
    BY DEF Audio!Wanted, Audio!Pairs, Audio!PairsOf, Audio!Source
  <2> QED
    BY DEF SelectionOf
<1>2. /\ t_channels' = wanted /\ t_live' = t_live \cap wanted
      /\ Audio!Configured(a, Audio!configureTracks(Audio!unbindTrack(b, wanted), active, sel))
  BY DEF Audio!Sync
<1> HIDE DEF wanted
<1>3. t_bound' \subseteq wanted
  BY <1>2 DEF Audio!Configured, Audio!configureTracks, Audio!unbindTrack
<1>4. t_gain' = Audio!applyConfiguration(t_attached', t_bound')
  BY <1>2 DEF Audio!Configured
<1> QED
  BY <1>1, <1>2, <1>3, <1>4 DEF TracksPlayed, Audio!applyConfiguration, Audio!Pairs, Audio!Source

\* What becomes known of a source leaves its selection among its tracks.
LEMMA KnownSafe ==
    ASSUME MediaAssumption, SelectionOf(t_selection), NEW s \in DOMAIN TracksOf, NEW value, NEW button,
           value = "available" => TracksOf[s] # {}
    PROVE  SelectionOf(Audio!Known(s, value, button))
<1>1. value = "available" => Audio!Min(TracksOf[s]) \in TracksOf[s]
  BY FirstTrack DEF MediaAssumption
<1>2. \A x \in DOMAIN TracksOf :
        Audio!Known(s, value, button)[x] = t_selection[x]
        \/ (x = s /\ value = "available"
            /\ Audio!Known(s, value, button)[x] = [known |-> TRUE, on |-> {Audio!Min(TracksOf[s])}])
  BY DEF Audio!Known, Audio!defaultSelectedTracks, SelectionOf
<1>3. DOMAIN Audio!Known(s, value, button) = DOMAIN TracksOf
  BY DEF Audio!Known, SelectionOf
<1>4. value = "available" =>
        [known |-> TRUE, on |-> {Audio!Min(TracksOf[s])}] \in [known : BOOLEAN, on : SUBSET TracksOf[s]]
  <2> SUFFICES ASSUME value = "available"
               PROVE  {Audio!Min(TracksOf[s])} \in SUBSET TracksOf[s]
    OBVIOUS
  <2> QED
    BY <1>1
<1> DEFINE k == Audio!Known(s, value, button)
<1>5. \A x \in DOMAIN TracksOf : k[x] \in [known : BOOLEAN, on : SUBSET TracksOf[x]]
  <2> HIDE DEF k
  <2> TAKE x \in DOMAIN TracksOf
  <2>1. CASE k[x] = t_selection[x]
    BY <2>1 DEF SelectionOf
  <2>2. CASE x = s /\ value = "available" /\ k[x] = [known |-> TRUE, on |-> {Audio!Min(TracksOf[s])}]
    BY <1>4, <2>2, Zenon
  <2> QED
    BY <1>2, <2>1, <2>2 DEF k
<1> QED
  BY <1>3, <1>5 DEF SelectionOf

LEMMA ActiveSafe ==
    ASSUME MediaAssumption, t_scene \in DOMAIN ScenesOf
    PROVE  /\ ScenesOf[t_scene] \subseteq DOMAIN TracksOf
           /\ Audio!Active \subseteq DOMAIN TracksOf
  BY DEF MediaAssumption, Audio!Active

\* Another scene: its sources are probed, those of the old one released.
LEMMA TracksScene ==
    ASSUME MediaAssumption, TracksKnown, NEW sc \in DOMAIN ScenesOf, Audio!SetScene(sc)
    PROVE  TracksKnown' /\ TracksPlayed'
<1> DEFINE S == DOMAIN TracksOf
           aborted == [s \in S |-> IF t_request[s] = "running" THEN "aborted" ELSE t_request[s]]
           hits == {s \in ScenesOf[sc] : t_cached[s] # "none"}
           now == [s \in S |-> IF s \in hits THEN t_cached[s]
                               ELSE IF s \in ScenesOf[sc] THEN Audio!Loading(s) ELSE t_probed[s]]
           sel == [s \in S |-> IF s \in hits THEN Audio!Known(s, t_cached[s], FALSE)[s] ELSE t_selection[s]]
           tiles == [s \in S |-> IF s \in ScenesOf[sc] THEN "element" ELSE "none"]
           here == IF t_front THEN ScenesOf[sc] ELSE {}
<1>1. /\ t_scene' = sc
      /\ t_request' = [s \in S |-> IF s \in ScenesOf[sc] \ hits THEN Audio!Probing(s, aborted) ELSE aborted[s]]
      /\ t_waiting' = (ScenesOf[sc] \ hits) \X {"page"}
      /\ t_reprobing' = {<<r[1], FALSE>> : r \in t_reprobing}
      /\ t_probed' = now /\ t_selection' = sel
      /\ Audio!Sync(here, now, sel, Audio!detach(S), tiles)
      /\ UNCHANGED <<t_front, t_cached>>
  BY DEF Audio!SetScene, Audio!Source, Audio!Nothing
<1>2. ScenesOf[sc] \subseteq S
  BY DEF MediaAssumption
<1>3. aborted \in [S -> {"none", "running", "aborted"}]
  BY DEF TracksKnown
<1>4. \A s \in S : Audio!Probing(s, aborted) \in {"running", "aborted"}
  BY <1>3 DEF Audio!Probing, Audio!Nothing
<1>5. now \in [S -> Audio!SourceAudioTracks] /\ \A s \in S : now[s] = "available" => TracksOf[s] # {}
  BY <1>2 DEF TracksKnown, Audio!Loading, Audio!Nothing, Audio!SourceAudioTracks
<1>6. SelectionOf(sel)
  <2> SUFFICES ASSUME NEW s \in S
               PROVE  sel[s] \in [known : BOOLEAN, on : SUBSET TracksOf[s]]
    BY DEF SelectionOf
  <2>1. SelectionOf(t_selection) /\ (t_cached[s] = "available" => TracksOf[s] # {})
    BY DEF TracksKnown
  <2>2. SelectionOf(Audio!Known(s, t_cached[s], FALSE))
    BY <2>1, KnownSafe
  <2> QED
    BY <2>1, <2>2 DEF SelectionOf
<1> HIDE DEF aborted, now, sel
<1>7. TracksPlayed'
  <2>1. here \in SUBSET S
    BY <1>2
  <2> HIDE DEF here, tiles
  <2> QED
    BY <1>1, <1>6, <2>1, SyncSafe
<1>8. t_request' \in [S -> {"none", "running", "aborted"}] /\ \A s \in ScenesOf[sc] \ hits : t_request'[s] # "none"
  BY <1>1, <1>2, <1>3, <1>4
<1>9. /\ t_waiting' \subseteq S \X {"page", "button"} /\ t_reprobing' \subseteq S \X BOOLEAN
      /\ \A w \in t_waiting' : t_request'[w[1]] # "none"
  <2>1. \A w \in t_waiting' : w[1] \in ScenesOf[sc] \ hits /\ w \in S \X {"page", "button"}
    BY <1>1, <1>2
  <2>2. t_reprobing' \subseteq S \X BOOLEAN
    <3>1. \A r \in t_reprobing : r[1] \in S
      BY DEF TracksKnown
    <3>2. \A r \in t_reprobing : <<r[1], FALSE>> \in S \X BOOLEAN
      BY <3>1
    <3> QED
      BY <1>1, <3>2
  <2> QED
    BY <1>8, <2>1, <2>2
<1>10. TracksKnown'
  BY <1>1, <1>5, <1>6, <1>8, <1>9 DEF TracksKnown
<1> QED
  BY <1>7, <1>10

\* The answer of a probe.
LEMMA TracksAnswered ==
    ASSUME MediaAssumption, TracksKnown, NEW s \in DOMAIN TracksOf, Audio!Answered(s)
    PROVE  TracksKnown' /\ TracksPlayed'
<1> DEFINE S == DOMAIN TracksOf
           told == Audio!Of(t_waiting, s) # {}
<1>1. /\ t_request' = [t_request EXCEPT ![s] = "none"] /\ t_waiting' = t_waiting \ Audio!Of(t_waiting, s)
      /\ UNCHANGED <<t_scene, t_front, t_reprobing>>
  BY DEF Audio!Answered, Audio!Nothing
<1>2. PICK value \in Audio!Outcomes(s) :
        LET now == IF told THEN [t_probed EXCEPT ![s] = value] ELSE t_probed
            sel == IF told THEN Audio!Known(s, value, <<s, "button">> \in t_waiting) ELSE t_selection
        IN  /\ t_cached' = IF t_request[s] = "aborted" THEN t_cached ELSE [t_cached EXCEPT ![s] = value]
            /\ t_probed' = now /\ t_selection' = sel
            /\ Audio!Sync(Audio!Active, now, sel, t_bound, t_attached)
  BY DEF Audio!Answered
<1>3. value \in Audio!SourceAudioTracks /\ (value = "available" => TracksOf[s] # {})
  BY DEF Audio!Outcomes, Audio!SourceAudioTracks
<1> DEFINE now == IF told THEN [t_probed EXCEPT ![s] = value] ELSE t_probed
           sel == IF told THEN Audio!Known(s, value, <<s, "button">> \in t_waiting) ELSE t_selection
<1>4. SelectionOf(sel)
  BY <1>3, KnownSafe DEF TracksKnown
<1>5. now \in [S -> Audio!SourceAudioTracks] /\ \A x \in S : now[x] = "available" => TracksOf[x] # {}
  BY <1>3 DEF TracksKnown
<1>6. t_cached' \in [S -> Audio!SourceAudioTracks] /\ \A x \in S : t_cached'[x] = "available" => TracksOf[x] # {}
  BY <1>2, <1>3 DEF TracksKnown
<1>7. t_probed' = now /\ t_selection' = sel /\ Audio!Sync(Audio!Active, now, sel, t_bound, t_attached)
  BY <1>2
<1> HIDE DEF now, sel, told
<1>8. TracksPlayed'
  BY <1>4, <1>7, SyncSafe, ActiveSafe DEF TracksKnown
<1>9. /\ t_waiting' \subseteq S \X {"page", "button"}
      /\ t_request' \in [S -> {"none", "running", "aborted"}]
      /\ \A w \in t_waiting' : t_request'[w[1]] # "none"
  BY <1>1 DEF TracksKnown, Audio!Of
<1> QED
  BY <1>1, <1>4, <1>5, <1>6, <1>7, <1>8, <1>9 DEF TracksKnown

\* A request begun for a source leaves every other as it was.
LEMMA TracksProbing ==
    ASSUME TracksKnown, NEW s \in DOMAIN TracksOf, NEW ww,
           t_request' = [t_request EXCEPT ![s] = Audio!Probing(s, t_request)],
           ww \subseteq t_waiting \cup {<<s, "button">>}
    PROVE  /\ t_request' \in [DOMAIN TracksOf -> {"none", "running", "aborted"}]
           /\ ww \subseteq (DOMAIN TracksOf) \X {"page", "button"}
           /\ \A w \in ww : t_request'[w[1]] # "none"
<1>1. t_request \in [DOMAIN TracksOf -> {"none", "running", "aborted"}]
  BY DEF TracksKnown
<1>2. Audio!Probing(s, t_request) \in {"running", "aborted"}
  BY <1>1 DEF Audio!Probing, Audio!Nothing
<1>3. t_request' \in [DOMAIN TracksOf -> {"none", "running", "aborted"}]
  BY <1>1, <1>2
<1>4. ww \subseteq (DOMAIN TracksOf) \X {"page", "button"}
  BY DEF TracksKnown
<1>5. ASSUME NEW w \in ww
      PROVE  t_request'[w[1]] # "none"
  <2>1. CASE w[1] = s
    BY <1>1, <1>2, <2>1
  <2>2. CASE w[1] # s
    <3>1. w \in t_waiting /\ w[1] \in DOMAIN TracksOf
      BY <1>4, <2>2
    <3> QED
      BY <1>1, <2>2, <3>1 DEF TracksKnown
  <2> QED
    BY <2>1, <2>2
<1> QED
  BY <1>3, <1>4, <1>5

\* The button at a source that could not be probed, and its profile.
LEMMA TracksReprobe ==
    ASSUME MediaAssumption, TracksKnown, Audio!reprobe
    PROVE  TracksKnown' /\ TracksPlayed'
<1> DEFINE S == DOMAIN TracksOf
<1>1. PICK s \in ScenesOf[t_scene] :
        /\ t_probed' = [t_probed EXCEPT ![s] = "loading"]
        /\ Audio!Sync(Audio!Active, [t_probed EXCEPT ![s] = "loading"], t_selection, t_bound, t_attached)
        /\ t_cached' = [t_cached EXCEPT ![s] = "none"]
        /\ \/ /\ t_request' = [t_request EXCEPT ![s] = Audio!Probing(s, t_request)]
              /\ t_waiting' = t_waiting \cup {<<s, "button">>} /\ UNCHANGED t_reprobing
           \/ t_reprobing' = t_reprobing \cup {<<s, TRUE>>} /\ UNCHANGED <<t_request, t_waiting>>
        /\ UNCHANGED <<t_scene, t_front, t_selection>>
  BY DEF Audio!reprobe, Audio!Nothing
<1>2. s \in S /\ Audio!Active \subseteq S
  BY ActiveSafe DEF TracksKnown
<1>3. TracksPlayed'
  <2> DEFINE now == [t_probed EXCEPT ![s] = "loading"]
  <2>1. Audio!Sync(Audio!Active, now, t_selection, t_bound, t_attached)
    BY <1>1
  <2> HIDE DEF now
  <2> QED
    BY <1>2, <2>1, SyncSafe DEF TracksKnown
<1>4. /\ t_probed' \in [S -> Audio!SourceAudioTracks] /\ t_cached' \in [S -> Audio!SourceAudioTracks]
      /\ \A x \in S : "available" \in {t_probed'[x], t_cached'[x]} => TracksOf[x] # {}
  BY <1>1, <1>2 DEF TracksKnown, Audio!SourceAudioTracks, Audio!Nothing
<1>5. /\ t_request' \in [S -> {"none", "running", "aborted"}]
      /\ t_waiting' \subseteq S \X {"page", "button"}
      /\ \A w \in t_waiting' : t_request'[w[1]] # "none"
  <2>1. CASE /\ t_request' = [t_request EXCEPT ![s] = Audio!Probing(s, t_request)]
             /\ t_waiting' = t_waiting \cup {<<s, "button">>}
    BY <1>2, <2>1, TracksProbing
  <2>2. CASE UNCHANGED <<t_request, t_waiting>>
    BY <2>2 DEF TracksKnown
  <2> QED
    BY <1>1, <2>1, <2>2
<1>6. t_reprobing' \subseteq S \X BOOLEAN
  <2>1. <<s, TRUE>> \in S \X BOOLEAN /\ t_reprobing \subseteq S \X BOOLEAN
    BY <1>2 DEF TracksKnown
  <2> QED
    BY <1>1, <2>1
<1> QED
  BY <1>1, <1>3, <1>4, <1>5, <1>6 DEF TracksKnown

LEMMA TracksProfile ==
    ASSUME MediaAssumption, TracksKnown, TracksPlayed, Audio!ProfileProbed
    PROVE  TracksKnown' /\ TracksPlayed'
<1> DEFINE S == DOMAIN TracksOf
<1>1. PICK r \in t_reprobing :
        /\ t_reprobing' = t_reprobing \ {r}
        /\ \/ /\ t_request' = [t_request EXCEPT ![r[1]] = Audio!Probing(r[1], t_request)]
              /\ t_waiting' = IF r[2] THEN t_waiting \cup {<<r[1], "button">>} ELSE t_waiting
              /\ UNCHANGED <<t_probed, t_channels, t_live, Audio!mixer>>
           \/ /\ LET now == IF r[2] THEN [t_probed EXCEPT ![r[1]] = "unavailable"] ELSE t_probed
                 IN  t_probed' = now /\ Audio!Sync(Audio!Active, now, t_selection, t_bound, t_attached)
              /\ UNCHANGED <<t_request, t_waiting>>
        /\ UNCHANGED <<t_scene, t_front, t_cached, t_selection>>
  BY DEF Audio!ProfileProbed
<1>2. r[1] \in S /\ Audio!Active \subseteq S /\ t_reprobing' \subseteq S \X BOOLEAN
  BY <1>1, ActiveSafe DEF TracksKnown
<1>3. CASE /\ t_request' = [t_request EXCEPT ![r[1]] = Audio!Probing(r[1], t_request)]
           /\ t_waiting' = IF r[2] THEN t_waiting \cup {<<r[1], "button">>} ELSE t_waiting
           /\ UNCHANGED <<t_probed, t_channels, t_live, Audio!mixer>>
  <2>1. TracksPlayed'
    BY <1>3 DEF TracksPlayed, Audio!mixer, Audio!applyConfiguration, Audio!Pairs, Audio!Source
  <2>2. /\ t_request' \in [S -> {"none", "running", "aborted"}]
        /\ t_waiting' \subseteq S \X {"page", "button"}
        /\ \A w \in t_waiting' : t_request'[w[1]] # "none"
    <3>1. t_waiting' \subseteq t_waiting \cup {<<r[1], "button">>}
      BY <1>3
    <3> QED
      BY <1>2, <1>3, <3>1, TracksProbing
  <2> QED
    BY <1>1, <1>2, <1>3, <2>1, <2>2 DEF TracksKnown
<1>4. CASE /\ LET now == IF r[2] THEN [t_probed EXCEPT ![r[1]] = "unavailable"] ELSE t_probed
              IN  t_probed' = now /\ Audio!Sync(Audio!Active, now, t_selection, t_bound, t_attached)
           /\ UNCHANGED <<t_request, t_waiting>>
  <2> DEFINE now == IF r[2] THEN [t_probed EXCEPT ![r[1]] = "unavailable"] ELSE t_probed
  <2>1. t_probed' = now /\ Audio!Sync(Audio!Active, now, t_selection, t_bound, t_attached)
    BY <1>4
  <2>2. now \in [S -> Audio!SourceAudioTracks] /\ \A x \in S : now[x] = "available" => TracksOf[x] # {}
    BY DEF TracksKnown, Audio!SourceAudioTracks
  <2> HIDE DEF now
  <2>3. TracksPlayed'
    BY <1>2, <2>1, SyncSafe DEF TracksKnown
  <2> QED
    BY <1>1, <1>2, <1>4, <2>1, <2>2, <2>3 DEF TracksKnown
<1> QED
  BY <1>1, <1>3, <1>4

\* What the operator chooses, and the page going to the back.
LEMMA TracksChosen ==
    ASSUME MediaAssumption, TracksKnown, Audio!updateSelection \/ Audio!Foreground
    PROVE  TracksKnown' /\ TracksPlayed'
<1>1. ScenesOf[t_scene] \subseteq DOMAIN TracksOf /\ Audio!Active \subseteq DOMAIN TracksOf
  BY ActiveSafe DEF TracksKnown
<1>2. CASE Audio!updateSelection
  <2>1. PICK s \in ScenesOf[t_scene], t \in UNION {TracksOf[x] : x \in Audio!Source} :
          /\ t \in TracksOf[s]
          /\ Audio!Select([t_selection EXCEPT ![s].on = IF t \in @ THEN @ \ {t} ELSE @ \cup {t}])
    BY <1>2 DEF Audio!updateSelection
  <2> DEFINE sel == [t_selection EXCEPT ![s].on = IF t \in @ THEN @ \ {t} ELSE @ \cup {t}]
  <2>2. SelectionOf(sel)
    <3>1. SelectionOf(t_selection) /\ s \in DOMAIN TracksOf
      BY <1>1 DEF TracksKnown
    <3>2. t_selection[s].on \in SUBSET TracksOf[s] /\ t_selection[s] \in [known : BOOLEAN, on : SUBSET TracksOf[s]]
      BY <3>1 DEF SelectionOf
    <3>3. (IF t \in t_selection[s].on THEN t_selection[s].on \ {t} ELSE t_selection[s].on \cup {t}) \in SUBSET TracksOf[s]
      BY <2>1, <3>2
    <3>4. sel[s] \in [known : BOOLEAN, on : SUBSET TracksOf[s]]
      BY <3>1, <3>2, <3>3 DEF SelectionOf
    <3> QED
      BY <3>1, <3>4 DEF SelectionOf
  <2>3. /\ t_selection' = sel /\ Audio!Sync(Audio!Active, t_probed, sel, t_bound, t_attached)
        /\ UNCHANGED <<t_scene, t_front, t_probed, t_request, t_waiting, t_reprobing, t_cached>>
    BY <2>1 DEF Audio!Select, Audio!probes
  <2> HIDE DEF sel
  <2> QED
    BY <1>1, <2>2, <2>3, SyncSafe DEF TracksKnown
<1>3. CASE Audio!Foreground
  <2> DEFINE here == IF t_front THEN {} ELSE ScenesOf[t_scene]
  <2>1. /\ t_front' = ~t_front /\ Audio!Sync(here, t_probed, t_selection, t_bound, t_attached)
        /\ UNCHANGED <<t_scene, t_selection, t_probed, t_request, t_waiting, t_reprobing, t_cached>>
    BY <1>3 DEF Audio!Foreground, Audio!probes
  <2>2. here \in SUBSET DOMAIN TracksOf
    BY <1>1
  <2> HIDE DEF here
  <2>3. TracksPlayed'
    BY <2>1, <2>2, SyncSafe DEF TracksKnown
  <2> QED
    BY <2>1, <2>3 DEF TracksKnown
<1> QED
  BY <1>2, <1>3

\* What arrives, drops or is attached again.
LEMMA TracksArrive ==
    ASSUME TracksKnown, TracksPlayed,
           Audio!commit \/ Audio!bindStream \/ Audio!bindTrack \/ Audio!ChannelDrops \/ Audio!CacheExpires
    PROVE  TracksKnown' /\ TracksPlayed'
<1>1. CASE Audio!CacheExpires
  <2>1. TracksPlayed'
    BY <1>1 DEF Audio!CacheExpires, TracksPlayed, Audio!mixer, Audio!applyConfiguration, Audio!Pairs, Audio!Source
  <2>2. PICK s \in DOMAIN TracksOf : t_cached' = [t_cached EXCEPT ![s] = "none"]
    BY <1>1 DEF Audio!CacheExpires, Audio!Source, Audio!Nothing
  <2>3. /\ t_cached' \in [DOMAIN TracksOf -> Audio!SourceAudioTracks]
        /\ \A x \in DOMAIN TracksOf : t_cached'[x] = "available" => t_cached[x] = "available"
    BY <2>2 DEF TracksKnown, Audio!SourceAudioTracks, Audio!Nothing
  <2>4. UNCHANGED <<t_scene, t_front, t_probed, t_request, t_waiting, t_reprobing, t_selection>>
    BY <1>1 DEF Audio!CacheExpires
  <2> QED
    BY <2>1, <2>3, <2>4 DEF TracksKnown
<1>2. CASE Audio!commit \/ Audio!bindStream \/ Audio!bindTrack \/ Audio!ChannelDrops
  <2>1. UNCHANGED <<t_scene, t_front, t_probed, t_request, t_waiting, t_reprobing, t_cached, t_selection, t_channels>>
    BY <1>2 DEF Audio!commit, Audio!bindStream, Audio!bindTrack, Audio!ChannelDrops, Audio!probes
  <2>2. t_bound' \subseteq t_channels /\ t_live' \subseteq t_channels
    BY <1>2 DEF Audio!commit, Audio!bindStream, Audio!bindTrack, Audio!ChannelDrops, Audio!Configured, Audio!mixer,
                Audio!detach, TracksPlayed
  <2>3. t_gain' \subseteq Audio!applyConfiguration(t_attached', t_bound')
    BY <1>2 DEF Audio!commit, Audio!bindStream, Audio!bindTrack, Audio!ChannelDrops, Audio!Configured, Audio!mixer,
                TracksPlayed, Audio!applyConfiguration, Audio!Source
  <2>4. TracksPlayed'
    BY <2>1, <2>2, <2>3 DEF TracksPlayed, Audio!applyConfiguration, Audio!Pairs, Audio!Source
  <2> QED
    BY <2>1, <2>4 DEF TracksKnown
<1> QED
  BY <1>1, <1>2

LEMMA TracksStep ==
    ASSUME MediaAssumption, Audio!TracksInv, Audio!Next
    PROVE  Audio!TracksInv'
<1>1. TracksKnown /\ TracksPlayed
  BY TracksHalves
<1>2. TracksKnown' /\ TracksPlayed'
  BY <1>1, TracksScene, TracksAnswered, TracksReprobe, TracksProfile, TracksChosen, TracksArrive
     DEF Audio!Next, Audio!Operator, Audio!Source
<1> QED
  BY <1>2, TracksHalves

LEMMA TracksInit ==
    ASSUME MediaAssumption, Audio!Init
    PROVE  Audio!TracksInv
<1>1. t_scene \in DOMAIN ScenesOf /\ t_front \in BOOLEAN /\ ScenesOf[t_scene] \subseteq DOMAIN TracksOf
  BY DEF Audio!Init, MediaAssumption
<1>2. TracksPlayed
  BY DEF Audio!Init, TracksPlayed
<1>3. SelectionOf(t_selection)
  BY DEF Audio!Init, SelectionOf, Audio!Source
<1>4. /\ t_probed \in [DOMAIN TracksOf -> {"loading", "none"}] /\ t_cached \in [DOMAIN TracksOf -> {"none"}]
      /\ t_request = [s \in DOMAIN TracksOf |-> IF s \in ScenesOf[t_scene] THEN "running" ELSE "none"]
      /\ t_waiting = ScenesOf[t_scene] \X {"page"} /\ t_reprobing = {}
  BY DEF Audio!Init, Audio!Source, Audio!Nothing
<1>5. \A w \in t_waiting : w[1] \in ScenesOf[t_scene] /\ w \in (DOMAIN TracksOf) \X {"page", "button"}
  BY <1>1, <1>4
<1>6. TracksKnown
  BY <1>1, <1>3, <1>4, <1>5 DEF TracksKnown, Audio!SourceAudioTracks, Audio!Nothing
<1> QED
  BY <1>2, <1>6, TracksHalves

-----------------------------------------------------------------------------
(* The page.                                                               *)

\* A part that rests keeps its invariant.
LEMMA MediaRests ==
    /\ Tile!PlaybackInv /\ UNCHANGED TileVars => Tile!PlaybackInv'
    /\ Channel!ChannelInv /\ UNCHANGED ChannelVars => Channel!ChannelInv'
    /\ Events!EventsInv /\ UNCHANGED EventsVars => Events!EventsInv'
    /\ Audio!TracksInv /\ UNCHANGED AudioVars => Audio!TracksInv'
<1>1. ASSUME Tile!PlaybackInv, UNCHANGED TileVars PROVE Tile!PlaybackInv'
  BY <1>1 DEF TileVars, Tile!PlaybackInv, Tile!TypeOK, Tile!OnePeer, Tile!NoForgottenSession, Tile!NeverStuck,
              Tile!Attempting, Tile!Watched
<1>2. ASSUME Channel!ChannelInv, UNCHANGED ChannelVars PROVE Channel!ChannelInv'
  BY <1>2 DEF ChannelVars, Channel!ChannelInv, Channel!TypeOK, Channel!NoForgottenSession, Channel!NeverStuck,
              Channel!Owned
<1>3. ASSUME Events!EventsInv, UNCHANGED EventsVars PROVE Events!EventsInv'
  BY <1>3 DEF EventsVars, Events!EventsInv, Events!TypeOK, Events!OneSocket, Events!NeverStuck, Events!Sessions,
              Events!canConnect
<1>4. ASSUME Audio!TracksInv, UNCHANGED AudioVars PROVE Audio!TracksInv'
  BY <1>4 DEF AudioVars, Audio!TracksInv, Audio!TypeOK, Audio!NeverTwice, Audio!NoStrayTrack, Audio!Kept,
              Audio!applyConfiguration, Audio!Pairs, Audio!Source
<1> QED
  BY <1>1, <1>2, <1>3, <1>4

\* However attempts, timeouts, closes and changes of scene overlap, every
\* tile, channel, socket and mixer of a page keeps its invariant: one peer,
\* one socket and one channel at a time, no session of the server forgotten,
\* nobody waiting for nothing, no track played that is closed or heard twice.
THEOREM NothingLeftBehindTheorem == MediaSpec => []NothingLeftBehind
<1>1. MediaInit => NothingLeftBehind
  BY MediaAssumption, PlaybackInit, ChannelInit, EventsInit, TracksInit DEF MediaInit, NothingLeftBehind
<1>2. NothingLeftBehind /\ [MediaNext]_media => NothingLeftBehind'
  <2> SUFFICES ASSUME NothingLeftBehind, [MediaNext]_media PROVE NothingLeftBehind'
    OBVIOUS
  <2>1. showing' = showing
    BY DEF MediaNext, media
  <2>2. showing = "playback" => Tile!Next \/ UNCHANGED TileVars
    BY DEF MediaNext, media
  <2>3. showing = "channel" => Channel!Next \/ UNCHANGED ChannelVars
    BY DEF MediaNext, media
  <2>4. showing = "events" => Events!Next \/ UNCHANGED EventsVars
    BY DEF MediaNext, media
  <2>5. showing = "tracks" => Audio!Next \/ UNCHANGED AudioVars
    BY DEF MediaNext, media
  <2>6. showing = "playback" => Tile!PlaybackInv'
    BY MediaAssumption, MediaRests, PlaybackStep, <2>2 DEF NothingLeftBehind
  <2>7. showing = "channel" => Channel!ChannelInv'
    BY MediaAssumption, MediaRests, ChannelStep, <2>3 DEF NothingLeftBehind
  <2>8. showing = "events" => Events!EventsInv'
    BY MediaAssumption, MediaRests, EventsStep, <2>4 DEF NothingLeftBehind
  <2>9. showing = "tracks" => Audio!TracksInv'
    BY MediaAssumption, MediaRests, TracksStep, <2>5 DEF NothingLeftBehind
  <2> QED
    BY <2>1, <2>6, <2>7, <2>8, <2>9 DEF NothingLeftBehind
<1> QED
  BY <1>1, <1>2, PTL DEF MediaSpec
=============================================================================
