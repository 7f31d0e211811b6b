-------------------------- MODULE ExportJobsProofs --------------------------
(***************************************************************************)
(* Proofs about the evidence exports.  ExportInv is inductive, and the     *)
(* safety properties of the jobs follow from it for every set of jobs,     *)
(* direct exports and segments, every queue bound and any number of        *)
(* restarts.  The page that submits them (ExportSubmission) never forgets  *)
(* a request whose fate it does not know, for every set of requests.  The  *)
(* timeline page (ArchivePage) gives back every lease it was given, and    *)
(* nobody deletes what it protects, for every set of cameras, cursors and  *)
(* leases that last for two renewals or more: WatchInv is inductive.       *)
(***************************************************************************)
EXTENDS EvidenceExports, FiniteSetTheorems, TLAPS

\* Writing the state of one row leaves the other rows alone.
LEMMA JobUpdate ==
    ASSUME TypeOK, NEW j \in Jobs, NEW s \in JobStates
    PROVE  LET new == [job EXCEPT ![j].state = s]
           IN  /\ new \in [Jobs -> JobRow]
               /\ new[j].state = s
               /\ \A i \in Jobs \ {j} : new[i] = job[i]
  BY DEF TypeOK, JobRow

\* A fresh catalog satisfies the invariant.
LEMMA ExportInit == Init => ExportInv
<1> SUFFICES ASSUME Init PROVE ExportInv
  OBVIOUS
<1> USE ExportsAssumption
<1>1. TypeOK
  BY DEF Init, TypeOK, JobRow, JobStates, Dirs, NoCancel, Steps, Phases
<1>2. Charged = {}
  BY DEF Init, Charged, ActiveJobs, ACTIVE, LockFree
<1>3. Cardinality(Charged) <= MAX_OUTSTANDING
  BY <1>2, FS_EmptySet
<1>4. WorkerTask /\ TaskState /\ RunningIsTask
  BY DEF Init, WorkerTask, TaskState, RunningIsTask, Exporting, Exporters
<1>5. CancelView /\ DirOwned /\ Recovering /\ PinsHeld /\ Stopping
  BY DEF Init, CancelView, DirOwned, Recovering, PinsHeld, Stopping, LockFree,
      Exports
<1>6. NothingAfterDrain /\ PublicationConsistent
  BY DEF Init, NothingAfterDrain, PublicationConsistent
<1> QED
  BY <1>1, <1>3, <1>4, <1>5, <1>6 DEF ExportInv

-----------------------------------------------------------------------------
(* Every conjunct of ExportInv is preserved.                               *)

\* Types are preserved.
LEMMA TypeStep == ASSUME ExportInv, [Next]_vars PROVE TypeOK'
<1>1. ASSUME NEW j \in Jobs, Submit(j) PROVE TypeOK'
  <2>1. IsFiniteSet(Inserted)
    BY ExportsAssumption, FS_Subset DEF Inserted
  <2>2. Cardinality(Inserted) \in Nat
    BY <2>1, FS_CardinalityType
  <2>3. job' \in [Jobs -> JobRow]
    BY <1>1, <2>2 DEF ExportInv, TypeOK, Submit, JobRow, JobStates, ACTIVE
  <2> QED
    BY <1>1, <2>3 DEF ExportInv, TypeOK, Submit, control, threads
<1>2. ASSUME NEW j \in Jobs, CancelRead(j) PROVE TypeOK'
  BY <1>2, ExportsAssumption DEF CancelRead, LockFree, tables, control,
      threads, TypeOK, JobRow, JobStates, ACTIVE, CancelRequest, NoCancel,
      Dirs, Steps, Phases, Exports, Exporters, ExportInv, WorkerTask
<1>3. ASSUME CancelRefused PROVE TypeOK'
  BY <1>3 DEF CancelRefused, tables, control, threads, TypeOK, ExportInv
<1>4. ASSUME CancelSignal PROVE TypeOK'
  <2>1. cancelling \in CancelRequest
    BY <1>4 DEF ExportInv, TypeOK, CancelSignal, NoCancel
  <2>2. cancelling' \in CancelRequest /\ cancelling.job \in Jobs
    BY <1>4, <2>1 DEF CancelSignal, CancelRequest
  <2>3. event' \in [Jobs -> {"none", "clear", "set"}]
    BY <1>4, <2>2 DEF ExportInv, TypeOK, CancelSignal
  <2> QED
    BY <1>4, <2>2, <2>3 DEF ExportInv, TypeOK, CancelSignal, tables, control, threads
<1>5. ASSUME CancelWrite PROVE TypeOK'
  <2>1. cancelling.job \in Jobs
    BY <1>5 DEF ExportInv, TypeOK, CancelWrite, NoCancel, CancelRequest
  <2>2. job' \in [Jobs -> JobRow]
    BY <1>5, <2>1, JobUpdate DEF ExportInv, CancelWrite, JobStates, ACTIVE
  <2> QED
    BY <1>5, <2>2 DEF ExportInv, TypeOK, CancelWrite, control, threads
<1>6. ASSUME NEW s \in Segments, DeleteSegment(s) PROVE TypeOK'
  BY <1>6 DEF DeleteSegment, Deletable, control, threads, TypeOK, ExportInv
<1>7. ASSUME NEW s \in Segments, NEW value \in BOOLEAN, SetLock(s, value)
     PROVE  TypeOK'
  BY <1>7 DEF SetLock, control, threads, TypeOK, ExportInv
<1>8. ASSUME NEW j \in Jobs, Claim(j) PROVE TypeOK'
  BY <1>8, ExportsAssumption DEF Claim, Oldest, LockFree, control, TypeOK,
      JobRow, JobStates, ACTIVE, CancelRequest, NoCancel, Dirs, Steps, Phases,
      Exports, Exporters, ExportInv, WorkerTask
<1>9. ASSUME NEW ok \in BOOLEAN, WorkerAuthorize(ok) PROVE TypeOK'
  BY <1>9, ExportsAssumption DEF WorkerAuthorize, tables, control, TypeOK,
      JobRow, JobStates, ACTIVE, CancelRequest, NoCancel, Dirs, Steps, Phases,
      Exports, Exporters, ExportInv, WorkerTask
<1>10. ASSUME NEW d \in Direct, DirectBegin(d) PROVE TypeOK'
  BY <1>10, ExportsAssumption DEF DirectBegin, tables, control, TypeOK,
      JobRow, JobStates, ACTIVE, CancelRequest, NoCancel, Dirs, Steps, Phases,
      Exports, Exporters, ExportInv, WorkerTask
<1>11. ASSUME NEW p \in Exporters, NEW ok \in BOOLEAN, Pin(p, ok)
     PROVE  TypeOK'
  <2>1. pins' \in [Exporters -> SUBSET Segments]
    BY <1>11 DEF ExportInv, TypeOK, Pin
  <2>2. pc' \in [Exporters -> Steps]
    BY <1>11 DEF ExportInv, TypeOK, Pin, Steps
  <2> QED
    BY <1>11, <2>1, <2>2 DEF ExportInv, TypeOK, Pin, tables, control
<1>12. ASSUME NEW p \in Exporters, NEW ok \in BOOLEAN, Prepare(p, ok)
     PROVE  TypeOK'
  BY <1>12, ExportsAssumption DEF Prepare, Cancelled, Id, control, TypeOK,
      JobRow, JobStates, ACTIVE, CancelRequest, NoCancel, Dirs, Steps, Phases,
      Exports, Exporters, ExportInv, WorkerTask
<1>13. ASSUME NEW p \in Exporters, NEW ok \in BOOLEAN, Convert(p, ok)
     PROVE  TypeOK'
  BY <1>13, ExportsAssumption DEF Convert, Cancelled, Id, control, TypeOK,
      JobRow, JobStates, ACTIVE, CancelRequest, NoCancel, Dirs, Steps, Phases,
      Exports, Exporters, ExportInv, WorkerTask
<1>14. ASSUME NEW p \in Exporters, NEW ok \in BOOLEAN, Publish(p, ok)
     PROVE  TypeOK'
  <2>1. p = Worker => task \in Jobs
    BY <1>14 DEF ExportInv, WorkerTask, TypeOK, Publish
  <2>2. job' \in [Jobs -> JobRow]
    <3>1. CASE job' = job
      BY <3>1 DEF ExportInv, TypeOK
    <3>2. CASE p = Worker /\ job' = [job EXCEPT ![task].state = "completed"]
      BY <2>1, <3>2, JobUpdate DEF ExportInv, JobStates
    <3> QED
      BY <1>14, <3>1, <3>2 DEF Publish
  <2>3. exports' \subseteq Exports /\ locked' \subseteq Segments
    BY <1>14, <2>1 DEF ExportInv, TypeOK, Publish, Id, Exports, Exporters
  <2>4. pc' \in [Exporters -> Steps]
    BY <1>14 DEF ExportInv, TypeOK, Publish, Steps
  <2> QED
    BY <1>14, <2>2, <2>3, <2>4 DEF ExportInv, TypeOK, Publish, control
<1>15. ASSUME NEW p \in Exporters, NEW ok \in BOOLEAN, Published(p, ok)
     PROVE  TypeOK'
  BY <1>15, ExportsAssumption DEF Published, tables, control, TypeOK, JobRow,
      JobStates, ACTIVE, CancelRequest, NoCancel, Dirs, Steps, Phases,
      Exports, Exporters, ExportInv, WorkerTask
<1>16. ASSUME NEW p \in Exporters, Cleanup(p) PROVE TypeOK'
  BY <1>16, ExportsAssumption DEF Cleanup, Id, control, TypeOK, JobRow,
      JobStates, ACTIVE, CancelRequest, NoCancel, Dirs, Steps, Phases,
      Exports, Exporters, ExportInv, WorkerTask
<1>17. ASSUME Record PROVE TypeOK'
  BY <1>17, ExportsAssumption DEF Record, Recordable, FailureState, control,
      TypeOK, JobRow, JobStates, ACTIVE, CancelRequest, NoCancel, Dirs, Steps,
      Phases, Exports, Exporters, ExportInv, WorkerTask
<1>18. ASSUME Finish PROVE TypeOK'
  BY <1>18, ExportsAssumption DEF Finish, LockFree, tables, control, TypeOK,
      JobRow, JobStates, ACTIVE, CancelRequest, NoCancel, Dirs, Steps, Phases,
      Exports, Exporters, ExportInv, WorkerTask
<1>19. ASSUME DrainBegin PROVE TypeOK'
  BY <1>19, ExportsAssumption DEF DrainBegin, LockFree, tables, threads,
      TypeOK, JobRow, JobStates, ACTIVE, CancelRequest, NoCancel, Dirs, Steps,
      Phases, Exports, Exporters, ExportInv, WorkerTask
<1>20. ASSUME DrainDone PROVE TypeOK'
  BY <1>20, ExportsAssumption DEF DrainDone, tables, threads, TypeOK, JobRow,
      JobStates, ACTIVE, CancelRequest, NoCancel, Dirs, Steps, Phases,
      Exports, Exporters, ExportInv, WorkerTask
<1>21. ASSUME DrainTimeout PROVE TypeOK'
  BY <1>21, ExportsAssumption DEF DrainTimeout, tables, threads, TypeOK,
      JobRow, JobStates, ACTIVE, CancelRequest, NoCancel, Dirs, Steps, Phases,
      Exports, Exporters, ExportInv, WorkerTask
<1>22. ASSUME Crash PROVE TypeOK'
  <2>1. pc' \in [Exporters -> Steps]
    BY <1>22 DEF ExportInv, TypeOK, Crash, Steps
  <2>2. /\ event' \in [Jobs -> {"none", "clear", "set"}]
        /\ pins' \in [Exporters -> SUBSET Segments]
        /\ cancelling' \in CancelRequest \cup {NoCancel}
    BY <1>22 DEF Crash
  <2>3. crashes' \in Nat /\ phase' \in Phases /\ task' \in Jobs \cup {None}
    BY <1>22 DEF ExportInv, TypeOK, Crash, Phases
  <2>4. accepting' \in BOOLEAN /\ stop' \in BOOLEAN
    BY <1>22 DEF Crash
  <2> QED
    BY <1>22, <2>1, <2>2, <2>3, <2>4 DEF ExportInv, TypeOK, Crash, tables
<1>23. ASSUME NEW j \in Jobs, RecoverClean(j) PROVE TypeOK'
  BY <1>23, ExportsAssumption DEF RecoverClean, control, threads, TypeOK,
      JobRow, JobStates, ACTIVE, CancelRequest, NoCancel, Dirs, Steps, Phases,
      Exports, Exporters, ExportInv, WorkerTask
<1>24. ASSUME RecoverMark PROVE TypeOK'
  BY <1>24, ExportsAssumption DEF RecoverMark, Removed, ActiveJobs, threads,
      TypeOK, JobRow, JobStates, ACTIVE, CancelRequest, NoCancel, Dirs, Steps,
      Phases, Exports, Exporters, ExportInv, WorkerTask
<1>25. CASE UNCHANGED vars
  BY <1>25 DEF vars, TypeOK, ExportInv
<1> QED
  BY <1>1, <1>2, <1>3, <1>4, <1>5, <1>6, <1>7, <1>8, <1>9, <1>10, <1>11, <1>12, <1>13, <1>14, <1>15, <1>16, <1>17, <1>18, <1>19, <1>20, <1>21, <1>22, <1>23, <1>24, <1>25
  DEF
      Next, WorkerStep, ExporterStep, CancelStep, RecoverStep, Exporters, vars

\* The worker's thread, its job and the registered cancel event agree.
LEMMA WorkerTaskStep == ASSUME ExportInv, TypeOK', [Next]_vars PROVE WorkerTask'
<1>1. ASSUME CancelSignal PROVE WorkerTask'
  BY <1>1 DEF CancelSignal, tables, control, threads, WorkerTask, ExportInv
<1>2. ASSUME NEW j \in Jobs, Claim(j) PROVE WorkerTask'
  BY <1>2, ExportsAssumption DEF Claim, control, WorkerTask, ExportInv,
      TypeOK, Exporters
<1>3. ASSUME NEW ok \in BOOLEAN, WorkerAuthorize(ok) PROVE WorkerTask'
  BY <1>3 DEF WorkerAuthorize, tables, control, WorkerTask, ExportInv
<1>4. ASSUME NEW d \in Direct, DirectBegin(d) PROVE WorkerTask'
  BY <1>4, ExportsAssumption DEF DirectBegin, tables, control, WorkerTask,
      ExportInv, TypeOK, Exporters
<1>5. ASSUME NEW p \in Exporters, NEW ok \in BOOLEAN, Pin(p, ok)
     PROVE  WorkerTask'
  BY <1>5 DEF Pin, tables, control, WorkerTask, ExportInv, TypeOK, Exporters
<1>6. ASSUME NEW p \in Exporters, NEW ok \in BOOLEAN, Prepare(p, ok)
     PROVE  WorkerTask'
  BY <1>6 DEF Prepare, control, WorkerTask, ExportInv, TypeOK, Exporters
<1>7. ASSUME NEW p \in Exporters, NEW ok \in BOOLEAN, Convert(p, ok)
     PROVE  WorkerTask'
  BY <1>7 DEF Convert, control, WorkerTask, ExportInv, TypeOK, Exporters
<1>8. ASSUME NEW p \in Exporters, NEW ok \in BOOLEAN, Publish(p, ok)
     PROVE  WorkerTask'
  BY <1>8 DEF Publish, control, WorkerTask, ExportInv, TypeOK, Exporters
<1>9. ASSUME NEW p \in Exporters, NEW ok \in BOOLEAN, Published(p, ok)
     PROVE  WorkerTask'
  BY <1>9 DEF Published, tables, control, WorkerTask, ExportInv
<1>10. ASSUME NEW p \in Exporters, Cleanup(p) PROVE WorkerTask'
  BY <1>10 DEF Cleanup, control, WorkerTask, ExportInv
<1>11. ASSUME Record PROVE WorkerTask'
  BY <1>11 DEF Record, control, WorkerTask, ExportInv
<1>12. ASSUME Finish PROVE WorkerTask'
  BY <1>12, ExportsAssumption DEF Finish, tables, control, WorkerTask,
      ExportInv, TypeOK, Exporters
<1>13. ASSUME Crash PROVE WorkerTask'
  BY <1>13, ExportsAssumption DEF Crash, tables, WorkerTask, ExportInv,
      TypeOK, Exporters
<1>14. CASE UNCHANGED <<pc, task, event>>
  BY <1>14 DEF WorkerTask, Exporters, TypeOK, ExportInv, TaskState,
      CancelView, Recovering, CancelRequest, NoCancel, LockFree
<1> QED
  BY <1>1, <1>2, <1>3, <1>4, <1>5, <1>6, <1>7, <1>8, <1>9, <1>10, <1>11, <1>12, <1>13, <1>14
  DEF
      Next, WorkerStep, ExporterStep, CancelStep, RecoverStep, Exporters,
      vars, Submit, CancelRead, CancelRefused, CancelWrite, DeleteSegment,
      SetLock, DrainBegin, DrainDone, DrainTimeout, RecoverClean, RecoverMark,
      control, threads, tables

\* What is not published yet is not in the table, and a cancellation that
\* has been written is known to the thread.
LEMMA TaskStateStep == ASSUME ExportInv, TypeOK', [Next]_vars PROVE TaskState'
<1>1. ASSUME NEW j \in Jobs, Submit(j) PROVE TaskState'
  BY <1>1, ExportsAssumption DEF Submit, Admits, LockFree, control, threads,
      TaskState, Exporting, Exporters, Exports, Id, TypeOK, ExportInv,
      WorkerTask
<1>2. ASSUME CancelSignal PROVE TaskState'
  BY <1>2, ExportsAssumption DEF CancelSignal, tables, control, threads,
      TaskState, Exporting, Exporters, Exports, Id, TypeOK, ExportInv,
      WorkerTask
<1>3. ASSUME CancelWrite PROVE TaskState'
  BY <1>3, ExportsAssumption DEF CancelWrite, control, threads, TaskState,
      Exporting, Exporters, Exports, Id, TypeOK, ExportInv, CancelView,
      NoCancel, LockFree, CancelRequest
<1>4. ASSUME NEW j \in Jobs, Claim(j) PROVE TaskState'
  BY <1>4, ExportsAssumption DEF Claim, Oldest, LockFree, control, TaskState,
      Exporting, Exporters, Exports, Id, TypeOK, ExportInv, WorkerTask,
      CancelView, PublicationConsistent, Recovering, NoCancel, CancelRequest
<1>5. ASSUME NEW ok \in BOOLEAN, WorkerAuthorize(ok) PROVE TaskState'
  BY <1>5, ExportsAssumption DEF WorkerAuthorize, tables, control, TaskState,
      Exporting, Exporters, Exports, Id, TypeOK, ExportInv, WorkerTask
<1>6. ASSUME NEW d \in Direct, DirectBegin(d) PROVE TaskState'
  BY <1>6, ExportsAssumption DEF DirectBegin, tables, control, TaskState,
      Exporting, Exporters, Exports, Id, TypeOK, ExportInv, WorkerTask
<1>7. ASSUME NEW p \in Exporters, NEW ok \in BOOLEAN, Pin(p, ok)
     PROVE  TaskState'
  BY <1>7, ExportsAssumption DEF Pin, tables, control, TaskState, Exporting,
      Exporters, Exports, Id, TypeOK, ExportInv, WorkerTask
<1>8. ASSUME NEW p \in Exporters, NEW ok \in BOOLEAN, Prepare(p, ok)
     PROVE  TaskState'
  BY <1>8, ExportsAssumption DEF Prepare, Cancelled, Id, control, TaskState,
      Exporting, Exporters, Exports, TypeOK, ExportInv, WorkerTask
<1>9. ASSUME NEW p \in Exporters, NEW ok \in BOOLEAN, Convert(p, ok)
     PROVE  TaskState'
  BY <1>9, ExportsAssumption DEF Convert, Cancelled, Id, control, TaskState,
      Exporting, Exporters, Exports, TypeOK, ExportInv, WorkerTask
<1>10. ASSUME NEW p \in Exporters, NEW ok \in BOOLEAN, Publish(p, ok)
     PROVE  TaskState'
  <2>1. CASE p = Worker
    <3>1. task \in Jobs /\ event[task] = event[task]
      BY <1>10, <2>1 DEF ExportInv, WorkerTask, TypeOK, Publish
    <3>2. pc' = [pc EXCEPT ![Worker] = "published"] \/ pc' = [pc EXCEPT ![Worker] = "cleanup"]
      BY <1>10, <2>1 DEF Publish
    <3>3. \A d \in Direct : pc'[d] = pc[d]
      BY <2>1, <3>2, ExportsAssumption DEF ExportInv, TypeOK, Exporters
    <3>4. pc'[Worker] \in {"published", "cleanup"}
      BY <3>2 DEF ExportInv, TypeOK, Exporters
    <3>5. \A d \in Direct : d \in exports' => d \in exports
      BY <1>10, <2>1, <3>1, ExportsAssumption DEF Publish, Id, Exporters
    <3>6. pc'[Worker] = "published" => task' \in exports'
      BY <1>10, <2>1, <3>4 DEF Publish, Id, ExportInv, TypeOK, Exporters
    <3>7. pc'[Worker] = "cleanup" => UNCHANGED <<job, exports, event, task>>
      BY <1>10, <2>1 DEF Publish, Id, ExportInv, TypeOK, Exporters
    <3> QED
      BY <1>10, <2>1, <3>3, <3>4, <3>5, <3>6, <3>7 DEF TaskState, ExportInv, Exporting, Publish, Id, Exporters
  <2>2. CASE p \in Direct
    <3>1. p # Worker
      BY <2>2, ExportsAssumption
    <3>2. pc'[Worker] = pc[Worker]
      BY <1>10, <3>1 DEF Publish, ExportInv, TypeOK, Exporters
    <3>3. \A d \in Direct \ {p} : pc'[d] = pc[d]
      BY <1>10, <2>2, <3>1 DEF Publish, ExportInv, TypeOK, Exporters
    <3>4. exports' = exports \/ (exports' = exports \cup {p} /\ pc'[p] = "published")
      BY <1>10, <2>2, <3>1 DEF Publish, Id, ExportInv, TypeOK, Exporters
    <3>5. pc'[p] \in {"published", "cleanup"} /\ p \notin exports
      BY <1>10, <2>2, <3>1 DEF Publish, ExportInv, TypeOK, Exporters, TaskState, Exporting
    <3>6. UNCHANGED <<job, task, event, dir>>
      BY <1>10, <3>1 DEF Publish
    <3>7. task # p
      BY <2>2, ExportsAssumption DEF ExportInv, TypeOK, Exporters, Exports
    <3> QED
      BY <2>2, <3>1, <3>2, <3>3, <3>4, <3>5, <3>6, <3>7 DEF TaskState, ExportInv, Exporting, Exporters, Id
  <2> QED
    BY <2>1, <2>2 DEF Exporters
<1>11. ASSUME NEW p \in Exporters, NEW ok \in BOOLEAN, Published(p, ok)
     PROVE  TaskState'
  BY <1>11, ExportsAssumption DEF Published, tables, control, TaskState,
      Exporting, Exporters, Exports, Id, TypeOK, ExportInv, WorkerTask,
      CancelView, PublicationConsistent, Recovering, NoCancel, LockFree,
      CancelRequest
<1>12. ASSUME NEW p \in Exporters, Cleanup(p) PROVE TaskState'
  BY <1>12, ExportsAssumption DEF Cleanup, Id, control, TaskState, Exporting,
      Exporters, Exports, TypeOK, ExportInv, WorkerTask
<1>13. ASSUME Record PROVE TaskState'
  BY <1>13, ExportsAssumption DEF Record, Recordable, FailureState, control,
      TaskState, Exporting, Exporters, Exports, Id, TypeOK, ExportInv,
      WorkerTask
<1>14. ASSUME Finish PROVE TaskState'
  BY <1>14, ExportsAssumption DEF Finish, LockFree, tables, control,
      TaskState, Exporting, Exporters, Exports, Id, TypeOK, ExportInv,
      WorkerTask
<1>15. ASSUME Crash PROVE TaskState'
  BY <1>15, ExportsAssumption DEF Crash, tables, TaskState, ExportInv, TypeOK,
      Exporters, Exporting
<1>16. ASSUME NEW j \in Jobs, RecoverClean(j) PROVE TaskState'
  BY <1>16, ExportsAssumption DEF RecoverClean, control, threads, TaskState,
      Exporting, Exporters, Exports, Id, TypeOK, ExportInv, WorkerTask,
      CancelView, PublicationConsistent, Recovering, NoCancel, LockFree,
      CancelRequest
<1>17. ASSUME RecoverMark PROVE TaskState'
  BY <1>17, ExportsAssumption DEF RecoverMark, Removed, ActiveJobs, threads,
      TaskState, Exporting, Exporters, Exports, Id, TypeOK, ExportInv,
      WorkerTask, CancelView, PublicationConsistent, Recovering, NoCancel,
      LockFree, CancelRequest
<1>18. CASE UNCHANGED <<pc, task, event, job, exports, dir>>
  BY <1>18 DEF TaskState, Exporting, Exporters, Exports, Id, TypeOK,
      ExportInv, WorkerTask, CancelView, PublicationConsistent, Recovering,
      NoCancel, LockFree, CancelRequest
<1> QED
  BY <1>1, <1>2, <1>3, <1>4, <1>5, <1>6, <1>7, <1>8, <1>9, <1>10, <1>11, <1>12, <1>13, <1>14, <1>15, <1>16, <1>17, <1>18
  DEF
      Next, WorkerStep, ExporterStep, CancelStep, RecoverStep, Exporters,
      vars, CancelRead, CancelRefused, DeleteSegment, SetLock, DrainBegin,
      DrainDone, DrainTimeout, tables, control, threads

\* A running row is the worker's.
LEMMA RunningStep == ASSUME ExportInv, TypeOK', [Next]_vars PROVE RunningIsTask'
<1>1. ASSUME NEW j \in Jobs, Submit(j) PROVE RunningIsTask'
  BY <1>1 DEF Submit, control, threads, RunningIsTask, ExportInv
<1>2. ASSUME CancelWrite PROVE RunningIsTask'
  BY <1>2 DEF CancelWrite, control, threads, RunningIsTask, ExportInv
<1>3. ASSUME NEW j \in Jobs, Claim(j) PROVE RunningIsTask'
  BY <1>3, ExportsAssumption DEF Claim, control, RunningIsTask, ExportInv,
      TypeOK, Exporters, Exporting
<1>4. ASSUME NEW ok \in BOOLEAN, WorkerAuthorize(ok) PROVE RunningIsTask'
  BY <1>4, ExportsAssumption DEF WorkerAuthorize, tables, control,
      RunningIsTask, ExportInv, TypeOK, Exporters, Exporting
<1>5. ASSUME NEW d \in Direct, DirectBegin(d) PROVE RunningIsTask'
  BY <1>5, ExportsAssumption DEF DirectBegin, tables, control, RunningIsTask,
      ExportInv, TypeOK, Exporters, Exporting
<1>6. ASSUME NEW p \in Exporters, NEW ok \in BOOLEAN, Pin(p, ok)
     PROVE  RunningIsTask'
  BY <1>6, ExportsAssumption DEF Pin, tables, control, RunningIsTask,
      ExportInv, TypeOK, Exporters, Exporting
<1>7. ASSUME NEW p \in Exporters, NEW ok \in BOOLEAN, Prepare(p, ok)
     PROVE  RunningIsTask'
  BY <1>7, ExportsAssumption DEF Prepare, control, RunningIsTask, ExportInv,
      TypeOK, Exporters, Exporting
<1>8. ASSUME NEW p \in Exporters, NEW ok \in BOOLEAN, Convert(p, ok)
     PROVE  RunningIsTask'
  BY <1>8, ExportsAssumption DEF Convert, control, RunningIsTask, ExportInv,
      TypeOK, Exporters, Exporting
<1>9. ASSUME NEW p \in Exporters, NEW ok \in BOOLEAN, Publish(p, ok)
     PROVE  RunningIsTask'
  <2>1. p = Worker => task \in Jobs
    BY <1>9 DEF Publish, ExportInv, WorkerTask, TypeOK
  <2>2. UNCHANGED <<task, phase>>
    BY <1>9 DEF Publish, control
  <2>3. CASE p = Worker /\ job' = [job EXCEPT ![task].state = "completed"]
    <3>1. \A j \in Jobs \ {task} : job'[j].state = job[j].state
      BY <2>1, <2>3 DEF ExportInv, TypeOK
    <3>2. job'[task].state = "completed"
      BY <2>1, <2>3 DEF ExportInv, TypeOK, JobRow
    <3> QED
      BY <2>2, <3>1, <3>2 DEF RunningIsTask, ExportInv
  <2>4. CASE job' = job /\ pc'[Worker] \in {pc[Worker], "cleanup"}
    BY <2>2, <2>4 DEF RunningIsTask, ExportInv, Exporting
  <2> QED
    BY <1>9, <2>3, <2>4, ExportsAssumption
    DEF Publish, ExportInv, TypeOK, Exporters
<1>10. ASSUME NEW p \in Exporters, NEW ok \in BOOLEAN, Published(p, ok)
     PROVE  RunningIsTask'
  BY <1>10, ExportsAssumption DEF Published, tables, control, RunningIsTask,
      ExportInv, TypeOK, Exporters, Exporting
<1>11. ASSUME NEW p \in Exporters, Cleanup(p) PROVE RunningIsTask'
  BY <1>11 DEF Cleanup, control, RunningIsTask, ExportInv
<1>12. ASSUME Record PROVE RunningIsTask'
  <2>1. task \in Jobs
    BY <1>12 DEF Record, ExportInv, WorkerTask, TypeOK
  <2>2. \A j \in Jobs \ {task} : job'[j].state = job[j].state
    BY <1>12, <2>1 DEF Record, ExportInv, TypeOK, JobRow
  <2>3. job'[task].state # "running"
    BY <1>12, <2>1 DEF Record, Recordable, FailureState, ExportInv, TypeOK, JobRow
  <2> QED
    BY <1>12, <2>1, <2>2, <2>3 DEF RunningIsTask, Record, ExportInv, control
<1>13. ASSUME Finish PROVE RunningIsTask'
  BY <1>13, ExportsAssumption DEF Finish, tables, control, RunningIsTask,
      ExportInv, TypeOK, Exporters, Exporting
<1>14. ASSUME DrainBegin PROVE RunningIsTask'
  BY <1>14 DEF DrainBegin, tables, threads, RunningIsTask, ExportInv
<1>15. ASSUME DrainDone PROVE RunningIsTask'
  BY <1>15 DEF DrainDone, tables, threads, RunningIsTask, ExportInv
<1>16. ASSUME DrainTimeout PROVE RunningIsTask'
  BY <1>16 DEF DrainTimeout, tables, threads, RunningIsTask, ExportInv
<1>17. ASSUME Crash PROVE RunningIsTask'
  BY <1>17 DEF Crash, tables, RunningIsTask, ExportInv
<1>18. ASSUME RecoverMark PROVE RunningIsTask'
  <2>1. \A j \in Jobs : job'[j].state # "running"
    BY <1>18 DEF RecoverMark, ACTIVE, ExportInv, TypeOK, JobRow
  <2> QED
    BY <2>1 DEF RunningIsTask
<1>19. CASE UNCHANGED <<job, phase, task, pc>>
  BY <1>19 DEF RunningIsTask, Exporting, Exporters, TypeOK, ExportInv,
      WorkerTask, TaskState, CancelView, NoCancel, LockFree, CancelRequest
<1> QED
  BY <1>1, <1>2, <1>3, <1>4, <1>5, <1>6, <1>7, <1>8, <1>9, <1>10, <1>11, <1>12, <1>13, <1>14, <1>15, <1>16, <1>17, <1>18, <1>19
  DEF
      Next, WorkerStep, ExporterStep, CancelStep, RecoverStep, Exporters,
      vars, CancelRead, CancelRefused, CancelSignal, DeleteSegment, SetLock,
      RecoverClean, tables, control, threads

\* What cancel read stays a sound view of the row while it holds jobs.lock.
LEMMA CancelViewStep == ASSUME ExportInv, TypeOK', [Next]_vars PROVE CancelView'
<1>1. ASSUME NEW j \in Jobs, Submit(j) PROVE CancelView'
  BY <1>1, ExportsAssumption DEF Submit, Admits, LockFree, control, threads,
      CancelView, NoCancel, TypeOK, ACTIVE, ExportInv, WorkerTask, TaskState
<1>2. ASSUME NEW j \in Jobs, CancelRead(j) PROVE CancelView'
  BY <1>2, ExportsAssumption DEF CancelRead, tables, control, threads,
      CancelView, ExportInv, TypeOK, Exporters, ACTIVE
<1>3. ASSUME CancelRefused PROVE CancelView'
  BY <1>3, ExportsAssumption DEF CancelRefused, tables, control, threads,
      CancelView, LockFree, NoCancel, TypeOK, ACTIVE, ExportInv, WorkerTask,
      TaskState
<1>4. ASSUME CancelSignal PROVE CancelView'
  BY <1>4, ExportsAssumption DEF CancelSignal, tables, control, threads,
      CancelView, LockFree, NoCancel, TypeOK, ACTIVE, ExportInv, WorkerTask,
      TaskState
<1>5. ASSUME CancelWrite PROVE CancelView'
  BY <1>5, ExportsAssumption DEF CancelWrite, control, threads, CancelView,
      LockFree, NoCancel, TypeOK, ACTIVE, ExportInv, WorkerTask, TaskState
<1>6. ASSUME NEW j \in Jobs, Claim(j) PROVE CancelView'
  BY <1>6, ExportsAssumption DEF Claim, Oldest, LockFree, control, CancelView,
      NoCancel, TypeOK, ACTIVE, ExportInv, WorkerTask, TaskState
<1>7. ASSUME NEW p \in Exporters, NEW ok \in BOOLEAN, Publish(p, ok)
     PROVE  CancelView'
  BY <1>7, ExportsAssumption DEF Publish, Publishable, Cancelled, Id,
      LockFree, control, CancelView, NoCancel, TypeOK, ACTIVE, ExportInv,
      WorkerTask, TaskState
<1>8. ASSUME Record PROVE CancelView'
  <2>1. task \in Jobs /\ job[task].state # "queued"
    BY <1>8 DEF Record, ExportInv, WorkerTask, TaskState, TypeOK
  <2>2. \A j \in Jobs \ {task} : job'[j].state = job[j].state
    BY <1>8, <2>1 DEF Record, ExportInv, TypeOK
  <2>3. job'[task].state \in {job[task].state, "cancelled", "failed"}
    BY <1>8, <2>1 DEF Record, FailureState, ExportInv, TypeOK
  <2>4. ~LockFree => cancelling.job \in Jobs
    BY DEF ExportInv, TypeOK, CancelRequest, LockFree
  <2> QED
    BY <1>8, <2>1, <2>2, <2>3, <2>4 DEF Record, CancelView, LockFree, ExportInv
<1>9. ASSUME Finish PROVE CancelView'
  BY <1>9, ExportsAssumption DEF Finish, LockFree, tables, control,
      CancelView, NoCancel, TypeOK, ACTIVE, ExportInv, WorkerTask, TaskState
<1>10. ASSUME Crash PROVE CancelView'
  BY <1>10, ExportsAssumption DEF Crash, tables, CancelView, LockFree,
      NoCancel, TypeOK, ACTIVE, ExportInv, WorkerTask, TaskState
<1>11. ASSUME RecoverMark PROVE CancelView'
  BY <1>11, ExportsAssumption DEF RecoverMark, Removed, ActiveJobs, threads,
      CancelView, LockFree, NoCancel, TypeOK, ACTIVE, ExportInv, WorkerTask,
      TaskState, RunningIsTask, Recovering, CancelRequest
<1>12. CASE UNCHANGED <<cancelling, job, task, event>>
  BY <1>12 DEF CancelView, LockFree, NoCancel, TypeOK, ACTIVE, ExportInv,
      WorkerTask, TaskState, RunningIsTask, Recovering, CancelRequest
<1> QED
  BY <1>1, <1>2, <1>3, <1>4, <1>5, <1>6, <1>7, <1>8, <1>9, <1>10, <1>11, <1>12
  DEF
      Next, WorkerStep, ExporterStep, CancelStep, RecoverStep, Exporters,
      vars, DeleteSegment, SetLock, WorkerAuthorize, DirectBegin, Pin,
      Prepare, Convert, Published, Cleanup, DrainBegin, DrainDone,
      DrainTimeout, RecoverClean, control, threads, tables

\* Every directory has an owner.
LEMMA DirOwnedStep == ASSUME ExportInv, TypeOK', [Next]_vars PROVE DirOwned'
<1>1. ASSUME NEW j \in Jobs, Submit(j) PROVE DirOwned'
  BY <1>1, ExportsAssumption DEF Submit, control, threads, DirOwned,
      ExportInv, TypeOK, Exporters, ACTIVE, Exporting
<1>2. ASSUME CancelWrite PROVE DirOwned'
  BY <1>2, ExportsAssumption DEF CancelWrite, control, threads, DirOwned,
      ACTIVE, Exporters, TypeOK, ExportInv, WorkerTask, TaskState,
      RunningIsTask, Exporting, Recovering, CancelView, PublicationConsistent,
      NoCancel, LockFree, CancelRequest
<1>3. ASSUME NEW j \in Jobs, Claim(j) PROVE DirOwned'
  BY <1>3, ExportsAssumption DEF Claim, control, DirOwned, ExportInv, TypeOK,
      Exporters, ACTIVE, Exporting
<1>4. ASSUME NEW ok \in BOOLEAN, WorkerAuthorize(ok) PROVE DirOwned'
  BY <1>4 DEF WorkerAuthorize, tables, control, DirOwned, ExportInv
<1>5. ASSUME NEW d \in Direct, DirectBegin(d) PROVE DirOwned'
  BY <1>5 DEF DirectBegin, tables, control, DirOwned, ExportInv
<1>6. ASSUME NEW p \in Exporters, NEW ok \in BOOLEAN, Pin(p, ok)
     PROVE  DirOwned'
  BY <1>6 DEF Pin, tables, control, DirOwned, ExportInv, TypeOK, Exporters
<1>7. ASSUME NEW p \in Exporters, NEW ok \in BOOLEAN, Prepare(p, ok)
     PROVE  DirOwned'
  <2>1. CASE p = Worker
    <3>1. \A j \in Jobs \ {task} : dir'[j] = dir[j]
      BY <1>7, <2>1 DEF Prepare, Convert, Id, ExportInv, TypeOK, Exports
    <3>2. UNCHANGED <<job, exports, task, phase>>
      BY <1>7 DEF Prepare, Convert, control
    <3>3. task \in Jobs
      BY <1>7, <2>1 DEF Prepare, Convert, ExportInv, WorkerTask, TypeOK
    <3>4. \/ pc'[Worker] \in {"convert", "publish", "cleanup"}
      BY <1>7, <2>1 DEF Prepare, Convert, ExportInv, TypeOK
    <3> QED
      BY <2>1, <3>1, <3>2, <3>3, <3>4 DEF DirOwned, ExportInv
  <2>2. CASE p \in Direct
    <3>1. \A j \in Jobs : dir'[j] = dir[j]
      BY <1>7, <2>2, ExportsAssumption DEF Prepare, Convert, Id, ExportInv, TypeOK, Exports, Exporters
    <3>2. pc'[Worker] = pc[Worker]
      BY <1>7, <2>2, ExportsAssumption DEF Prepare, Convert, ExportInv, TypeOK, Exporters
    <3>3. UNCHANGED <<job, exports, task, phase>>
      BY <1>7 DEF Prepare, Convert, control
    <3> QED
      BY <3>1, <3>2, <3>3 DEF DirOwned, ExportInv
  <2> QED
    BY <2>1, <2>2 DEF Exporters
<1>8. ASSUME NEW p \in Exporters, NEW ok \in BOOLEAN, Convert(p, ok)
     PROVE  DirOwned'
  <2>1. CASE p = Worker
    <3>1. \A j \in Jobs \ {task} : dir'[j] = dir[j]
      BY <1>8, <2>1 DEF Prepare, Convert, Id, ExportInv, TypeOK, Exports
    <3>2. UNCHANGED <<job, exports, task, phase>>
      BY <1>8 DEF Prepare, Convert, control
    <3>3. task \in Jobs
      BY <1>8, <2>1 DEF Prepare, Convert, ExportInv, WorkerTask, TypeOK
    <3>4. \/ pc'[Worker] \in {"convert", "publish", "cleanup"}
      BY <1>8, <2>1 DEF Prepare, Convert, ExportInv, TypeOK
    <3> QED
      BY <2>1, <3>1, <3>2, <3>3, <3>4 DEF DirOwned, ExportInv
  <2>2. CASE p \in Direct
    <3>1. \A j \in Jobs : dir'[j] = dir[j]
      BY <1>8, <2>2, ExportsAssumption DEF Prepare, Convert, Id, ExportInv, TypeOK, Exports, Exporters
    <3>2. pc'[Worker] = pc[Worker]
      BY <1>8, <2>2, ExportsAssumption DEF Prepare, Convert, ExportInv, TypeOK, Exporters
    <3>3. UNCHANGED <<job, exports, task, phase>>
      BY <1>8 DEF Prepare, Convert, control
    <3> QED
      BY <3>1, <3>2, <3>3 DEF DirOwned, ExportInv
  <2> QED
    BY <2>1, <2>2 DEF Exporters
<1>9. ASSUME NEW p \in Exporters, NEW ok \in BOOLEAN, Publish(p, ok)
     PROVE  DirOwned'
  BY <1>9, ExportsAssumption DEF Publish, Publishable, Cancelled, Id,
      LockFree, control, DirOwned, ACTIVE, Exporters, TypeOK, ExportInv,
      WorkerTask, TaskState, Exporting
<1>10. ASSUME NEW p \in Exporters, NEW ok \in BOOLEAN, Published(p, ok)
     PROVE  DirOwned'
  BY <1>10 DEF Published, tables, control, DirOwned, ExportInv
<1>11. ASSUME NEW p \in Exporters, Cleanup(p) PROVE DirOwned'
  BY <1>11, ExportsAssumption DEF Cleanup, Id, control, DirOwned, ACTIVE,
      Exporters, TypeOK, ExportInv, WorkerTask, TaskState, Exporting
<1>12. ASSUME Record PROVE DirOwned'
  BY <1>12, ExportsAssumption DEF Record, Recordable, FailureState, control,
      DirOwned, ACTIVE, Exporters, TypeOK, ExportInv, WorkerTask, TaskState,
      RunningIsTask, Exporting, Recovering, CancelView, PublicationConsistent,
      NoCancel, LockFree, CancelRequest
<1>13. ASSUME Finish PROVE DirOwned'
  BY <1>13 DEF Finish, tables, control, DirOwned, ExportInv
<1>14. ASSUME DrainBegin PROVE DirOwned'
  BY <1>14 DEF DrainBegin, tables, threads, DirOwned, ExportInv
<1>15. ASSUME DrainDone PROVE DirOwned'
  BY <1>15 DEF DrainDone, tables, threads, DirOwned, ExportInv
<1>16. ASSUME DrainTimeout PROVE DirOwned'
  BY <1>16 DEF DrainTimeout, tables, threads, DirOwned, ExportInv
<1>17. ASSUME Crash PROVE DirOwned'
  BY <1>17, ExportsAssumption DEF Crash, tables, DirOwned, ACTIVE, Exporters,
      TypeOK, ExportInv, WorkerTask, TaskState, Exporting
<1>18. ASSUME NEW j \in Jobs, RecoverClean(j) PROVE DirOwned'
  BY <1>18 DEF RecoverClean, control, threads, DirOwned, ExportInv
<1>19. ASSUME RecoverMark PROVE DirOwned'
  BY <1>19, ExportsAssumption DEF RecoverMark, Removed, ActiveJobs, threads,
      DirOwned, ACTIVE, Exporters, TypeOK, ExportInv, WorkerTask, TaskState,
      Exporting
<1>20. CASE UNCHANGED <<dir, exports, task, pc, phase, job>>
  BY <1>20 DEF DirOwned, ACTIVE, Exporters, TypeOK, ExportInv, WorkerTask,
      TaskState, RunningIsTask, Exporting, Recovering, CancelView,
      PublicationConsistent, NoCancel, LockFree, CancelRequest
<1> QED
  BY <1>1, <1>2, <1>3, <1>4, <1>5, <1>6, <1>7, <1>8, <1>9, <1>10, <1>11, <1>12, <1>13, <1>14, <1>15, <1>16, <1>17, <1>18, <1>19, <1>20
  DEF
      Next, WorkerStep, ExporterStep, CancelStep, RecoverStep, Exporters,
      vars, CancelRead, CancelRefused, CancelSignal, DeleteSegment, SetLock,
      tables, control, threads

\* No thread of the old process survives into the constructor.
LEMMA RecoveringStep == ASSUME ExportInv, TypeOK', [Next]_vars PROVE Recovering'
<1>1. ASSUME NEW j \in Jobs, CancelRead(j) PROVE Recovering'
  BY <1>1 DEF CancelRead, LockFree, tables, control, threads, Recovering,
      Running, Exporters, ExportInv
<1>2. ASSUME CancelRefused PROVE Recovering'
  BY <1>2 DEF CancelRefused, tables, control, threads, Recovering, LockFree,
      Running, Exporters, ExportInv
<1>3. ASSUME CancelSignal PROVE Recovering'
  BY <1>3 DEF CancelSignal, tables, control, threads, Recovering, LockFree,
      Running, Exporters, ExportInv
<1>4. ASSUME CancelWrite PROVE Recovering'
  BY <1>4 DEF CancelWrite, control, threads, Recovering, LockFree, Running,
      Exporters, ExportInv
<1>5. ASSUME NEW j \in Jobs, Claim(j) PROVE Recovering'
  BY <1>5 DEF Claim, Oldest, LockFree, control, Recovering, Running,
      Exporters, ExportInv
<1>6. ASSUME NEW ok \in BOOLEAN, WorkerAuthorize(ok) PROVE Recovering'
  BY <1>6 DEF WorkerAuthorize, tables, control, Recovering, ExportInv, TypeOK,
      Exporters
<1>7. ASSUME NEW d \in Direct, DirectBegin(d) PROVE Recovering'
  BY <1>7 DEF DirectBegin, tables, control, Recovering, LockFree, Running,
      Exporters, ExportInv
<1>8. ASSUME NEW p \in Exporters, NEW ok \in BOOLEAN, Pin(p, ok)
     PROVE  Recovering'
  BY <1>8 DEF Pin, tables, control, Recovering, ExportInv
<1>9. ASSUME NEW p \in Exporters, NEW ok \in BOOLEAN, Prepare(p, ok)
     PROVE  Recovering'
  BY <1>9 DEF Prepare, control, Recovering, ExportInv
<1>10. ASSUME NEW p \in Exporters, NEW ok \in BOOLEAN, Convert(p, ok)
     PROVE  Recovering'
  BY <1>10 DEF Convert, control, Recovering, ExportInv
<1>11. ASSUME NEW p \in Exporters, NEW ok \in BOOLEAN, Publish(p, ok)
     PROVE  Recovering'
  BY <1>11 DEF Publish, control, Recovering, ExportInv
<1>12. ASSUME NEW p \in Exporters, NEW ok \in BOOLEAN, Published(p, ok)
     PROVE  Recovering'
  BY <1>12 DEF Published, tables, control, Recovering, ExportInv
<1>13. ASSUME NEW p \in Exporters, Cleanup(p) PROVE Recovering'
  BY <1>13 DEF Cleanup, control, Recovering, ExportInv
<1>14. ASSUME Record PROVE Recovering'
  BY <1>14 DEF Record, control, Recovering, ExportInv, TypeOK, Exporters
<1>15. ASSUME Finish PROVE Recovering'
  BY <1>15 DEF Finish, tables, control, Recovering, ExportInv, TypeOK,
      Exporters
<1>16. ASSUME DrainBegin PROVE Recovering'
  BY <1>16 DEF DrainBegin, tables, threads, Recovering, ExportInv
<1>17. ASSUME DrainDone PROVE Recovering'
  BY <1>17 DEF DrainDone, tables, threads, Recovering, ExportInv
<1>18. ASSUME DrainTimeout PROVE Recovering'
  BY <1>18 DEF DrainTimeout, tables, threads, Recovering, ExportInv
<1>19. ASSUME Crash PROVE Recovering'
  BY <1>19 DEF Crash, tables, Recovering, LockFree, Running, Exporters,
      ExportInv
<1>20. ASSUME RecoverMark PROVE Recovering'
  BY <1>20 DEF RecoverMark, threads, Recovering, ExportInv
<1>21. CASE UNCHANGED <<phase, task, cancelling, pc>>
  BY <1>21 DEF Recovering, LockFree, Running, Exporters, ExportInv
<1> QED
  BY <1>1, <1>2, <1>3, <1>4, <1>5, <1>6, <1>7, <1>8, <1>9, <1>10, <1>11, <1>12, <1>13, <1>14, <1>15, <1>16, <1>17, <1>18, <1>19, <1>20, <1>21
  DEF
      Next, WorkerStep, ExporterStep, CancelStep, RecoverStep, Exporters,
      vars, Submit, DeleteSegment, SetLock, RecoverClean, control, threads

\* Pinned segments are not deleted.
LEMMA PinsHeldStep == ASSUME ExportInv, TypeOK', [Next]_vars PROVE PinsHeld'
<1>1. ASSUME NEW s \in Segments, DeleteSegment(s) PROVE PinsHeld'
  BY <1>1 DEF DeleteSegment, Deletable, control, threads, PinsHeld, ExportInv
<1>2. ASSUME NEW j \in Jobs, Claim(j) PROVE PinsHeld'
  BY <1>2 DEF Claim, control, PinsHeld, ExportInv
<1>3. ASSUME NEW ok \in BOOLEAN, WorkerAuthorize(ok) PROVE PinsHeld'
  BY <1>3 DEF WorkerAuthorize, tables, control, PinsHeld, ExportInv
<1>4. ASSUME NEW d \in Direct, DirectBegin(d) PROVE PinsHeld'
  BY <1>4 DEF DirectBegin, tables, control, PinsHeld, ExportInv
<1>5. ASSUME NEW p \in Exporters, NEW ok \in BOOLEAN, Pin(p, ok)
     PROVE  PinsHeld'
  BY <1>5 DEF Pin, tables, control, PinsHeld, ExportInv, TypeOK, Exporters
<1>6. ASSUME NEW p \in Exporters, NEW ok \in BOOLEAN, Prepare(p, ok)
     PROVE  PinsHeld'
  BY <1>6 DEF Prepare, control, PinsHeld, ExportInv, TypeOK, Exporters
<1>7. ASSUME NEW p \in Exporters, NEW ok \in BOOLEAN, Convert(p, ok)
     PROVE  PinsHeld'
  BY <1>7 DEF Convert, control, PinsHeld, ExportInv, TypeOK, Exporters
<1>8. ASSUME NEW p \in Exporters, NEW ok \in BOOLEAN, Publish(p, ok)
     PROVE  PinsHeld'
  BY <1>8 DEF Publish, control, PinsHeld, ExportInv, TypeOK, Exporters
<1>9. ASSUME NEW p \in Exporters, NEW ok \in BOOLEAN, Published(p, ok)
     PROVE  PinsHeld'
  BY <1>9 DEF Published, tables, control, PinsHeld, ExportInv
<1>10. ASSUME NEW p \in Exporters, Cleanup(p) PROVE PinsHeld'
  BY <1>10 DEF Cleanup, control, PinsHeld, ExportInv
<1>11. ASSUME Record PROVE PinsHeld'
  BY <1>11 DEF Record, control, PinsHeld, ExportInv
<1>12. ASSUME Finish PROVE PinsHeld'
  BY <1>12 DEF Finish, tables, control, PinsHeld, ExportInv
<1>13. ASSUME Crash PROVE PinsHeld'
  BY <1>13 DEF Crash, tables, PinsHeld, ExportInv
<1>14. CASE UNCHANGED <<pins, deleted, pc>>
  BY <1>14 DEF PinsHeld, Exporters, TypeOK, ExportInv
<1> QED
  BY <1>1, <1>2, <1>3, <1>4, <1>5, <1>6, <1>7, <1>8, <1>9, <1>10, <1>11, <1>12, <1>13, <1>14
  DEF
      Next, WorkerStep, ExporterStep, CancelStep, RecoverStep, Exporters,
      vars, Submit, CancelRead, CancelRefused, CancelSignal, CancelWrite,
      SetLock, DrainBegin, DrainDone, DrainTimeout, RecoverClean, RecoverMark,
      control, threads, tables

LEMMA StoppingStep == ASSUME ExportInv, TypeOK', [Next]_vars PROVE Stopping'
<1>1. ASSUME DrainBegin PROVE Stopping'
  BY <1>1 DEF DrainBegin, tables, threads, Stopping, ExportInv
<1>2. ASSUME DrainDone PROVE Stopping'
  BY <1>2 DEF DrainDone, tables, threads, Stopping, ExportInv
<1>3. ASSUME DrainTimeout PROVE Stopping'
  BY <1>3 DEF DrainTimeout, tables, threads, Stopping, ExportInv
<1>4. ASSUME Crash PROVE Stopping'
  BY <1>4 DEF Crash, tables, Stopping, ExportInv
<1>5. ASSUME RecoverMark PROVE Stopping'
  BY <1>5 DEF RecoverMark, threads, Stopping, ExportInv
<1>6. CASE UNCHANGED <<phase, accepting, stop>>
  BY <1>6 DEF Stopping, ExportInv
<1> QED
  BY <1>1, <1>2, <1>3, <1>4, <1>5, <1>6
  DEF Next, WorkerStep, ExporterStep,
      CancelStep, RecoverStep, Exporters, vars, Submit, CancelRead,
      CancelRefused, CancelSignal, CancelWrite, DeleteSegment, SetLock, Claim,
      WorkerAuthorize, DirectBegin, Pin, Prepare, Convert, Publish, Published,
      Cleanup, Record, Finish, RecoverClean, control, threads, tables

LEMMA QuietStep == ASSUME ExportInv, TypeOK', [Next]_vars PROVE NothingAfterDrain'
<1>1. ASSUME NEW j \in Jobs, Submit(j) PROVE NothingAfterDrain'
  BY <1>1 DEF Submit, Admits, LockFree, control, threads, NothingAfterDrain,
      TypeOK, ExportInv, Stopping, CancelView
<1>2. ASSUME CancelWrite PROVE NothingAfterDrain'
  BY <1>2 DEF CancelWrite, control, threads, NothingAfterDrain, ExportInv
<1>3. ASSUME NEW j \in Jobs, Claim(j) PROVE NothingAfterDrain'
  BY <1>3 DEF Claim, control, NothingAfterDrain, ExportInv
<1>4. ASSUME NEW p \in Exporters, NEW ok \in BOOLEAN, Publish(p, ok)
     PROVE  NothingAfterDrain'
  <2>1. p = Worker => task \in Jobs
    BY <1>4 DEF Publish, ExportInv, WorkerTask, TypeOK
  <2>2. \A j \in Jobs : job'[j].state \in {job[j].state, "completed"}
    <3>1. CASE job' = job
      BY <3>1
    <3>2. CASE p = Worker /\ job' = [job EXCEPT ![task].state = "completed"]
      BY <2>1, <3>2 DEF ExportInv, TypeOK
    <3> QED
      BY <1>4, <3>1, <3>2 DEF Publish
  <2> QED
    BY <1>4, <2>2 DEF Publish, control, ExportInv, NothingAfterDrain
<1>5. ASSUME Record PROVE NothingAfterDrain'
  BY <1>5 DEF Record, Recordable, FailureState, control, NothingAfterDrain,
      TypeOK, ExportInv
<1>6. ASSUME DrainDone PROVE NothingAfterDrain'
  <2>1. IsFiniteSet(ActiveJobs)
    BY ExportsAssumption, FS_Subset DEF ActiveJobs
  <2>2. ActiveJobs = {}
    BY <1>6, <2>1, FS_EmptySet DEF DrainDone, Outstanding
  <2> QED
    BY <1>6, <2>2 DEF ActiveJobs, ACTIVE, NothingAfterDrain, DrainDone, tables
<1>7. ASSUME Crash PROVE NothingAfterDrain'
  BY <1>7 DEF Crash, tables, NothingAfterDrain, ExportInv
<1>8. ASSUME RecoverMark PROVE NothingAfterDrain'
  BY <1>8 DEF RecoverMark, threads, NothingAfterDrain, ExportInv
<1>9. CASE UNCHANGED <<stop, job>>
  BY <1>9 DEF NothingAfterDrain, TypeOK, ExportInv, Stopping, CancelView
<1> QED
  BY <1>1, <1>2, <1>3, <1>4, <1>5, <1>6, <1>7, <1>8, <1>9
  DEF Next,
      WorkerStep, ExporterStep, CancelStep, RecoverStep, Exporters, vars,
      CancelRead, CancelRefused, CancelSignal, DeleteSegment, SetLock,
      WorkerAuthorize, DirectBegin, Pin, Prepare, Convert, Published, Cleanup,
      Finish, DrainBegin, DrainTimeout, RecoverClean, tables, control, threads

\* The exports row, the directory and the job's result agree.
LEMMA PublicationStep == ASSUME ExportInv, TypeOK', [Next]_vars PROVE PublicationConsistent'
<1>1. ASSUME NEW j \in Jobs, Submit(j) PROVE PublicationConsistent'
  BY <1>1 DEF Submit, control, threads, PublicationConsistent, ExportInv
<1>2. ASSUME CancelWrite PROVE PublicationConsistent'
  BY <1>2, ExportsAssumption DEF CancelWrite, control, threads,
      PublicationConsistent, Exports, Exporters, TypeOK, ExportInv,
      CancelView, NoCancel, LockFree, CancelRequest
<1>3. ASSUME NEW j \in Jobs, Claim(j) PROVE PublicationConsistent'
  BY <1>3, ExportsAssumption DEF Claim, Oldest, LockFree, control,
      PublicationConsistent, Exports, Exporters, TypeOK, ExportInv, TaskState,
      Exporting, WorkerTask
<1>4. ASSUME NEW p \in Exporters, NEW ok \in BOOLEAN, Prepare(p, ok)
     PROVE  PublicationConsistent'
  BY <1>4, ExportsAssumption DEF Prepare, Cancelled, Id, control,
      PublicationConsistent, Exports, Exporters, TypeOK, ExportInv, TaskState,
      Exporting, WorkerTask
<1>5. ASSUME NEW p \in Exporters, NEW ok \in BOOLEAN, Convert(p, ok)
     PROVE  PublicationConsistent'
  BY <1>5 DEF Convert, control, PublicationConsistent, ExportInv, TypeOK,
      Exporters
<1>6. ASSUME NEW p \in Exporters, NEW ok \in BOOLEAN, Publish(p, ok)
     PROVE  PublicationConsistent'
  <2>0. p = Worker => task \in Jobs
    BY <1>6 DEF Publish, ExportInv, WorkerTask, TypeOK
  <2>1. CASE UNCHANGED <<job, exports>>
    BY <1>6, <2>1 DEF Publish, control, ExportInv, PublicationConsistent
  <2>2. CASE p = Worker /\ exports' = exports \cup {task} /\ job' = [job EXCEPT ![task].state = "completed"]
    <3>1. \A j \in Jobs : job'[j].state = IF j = task THEN "completed" ELSE job[j].state
      BY <2>0, <2>2 DEF ExportInv, TypeOK, JobRow
    <3>2. dir'[task] = "complete" /\ dir' = dir
      BY <1>6, <2>2 DEF Publish, ExportInv, TaskState, Id, Exporters
    <3> QED
      BY <1>6, <2>0, <2>2, <3>1, <3>2 DEF Publish, control, ExportInv, PublicationConsistent
  <2>3. CASE p # Worker /\ exports' = exports \cup {p} /\ job' = job
    <3>1. dir'[p] = "complete" /\ dir' = dir
      BY <1>6, <2>3 DEF Publish, ExportInv, TaskState, Id
    <3>2. p \notin Jobs
      BY ExportsAssumption
    <3> QED
      BY <1>6, <2>3, <3>1, <3>2 DEF Publish, control, ExportInv, PublicationConsistent
  <2> QED
    BY <1>6, <2>1, <2>2, <2>3 DEF Publish, Id
<1>7. ASSUME NEW p \in Exporters, Cleanup(p) PROVE PublicationConsistent'
  BY <1>7, ExportsAssumption DEF Cleanup, Id, control, PublicationConsistent,
      Exports, Exporters, TypeOK, ExportInv, TaskState, Exporting, WorkerTask
<1>8. ASSUME Record PROVE PublicationConsistent'
  BY <1>8, ExportsAssumption DEF Record, Recordable, FailureState, control,
      PublicationConsistent, Exports, Exporters, TypeOK, ExportInv, TaskState,
      Exporting, WorkerTask
<1>9. ASSUME NEW j \in Jobs, RecoverClean(j) PROVE PublicationConsistent'
  BY <1>9 DEF RecoverClean, control, threads, PublicationConsistent, ExportInv
<1>10. ASSUME RecoverMark PROVE PublicationConsistent'
  <2>1. \A j \in Jobs : job'[j].state = IF job[j].state \in ACTIVE
                                      THEN "interrupted" ELSE job[j].state
    BY <1>10 DEF RecoverMark, ExportInv, TypeOK, JobRow
  <2> QED
    BY <1>10, <2>1 DEF RecoverMark, ExportInv, PublicationConsistent, ACTIVE
<1>11. CASE UNCHANGED <<job, exports, dir>>
  BY <1>11 DEF PublicationConsistent, Exports, Exporters, TypeOK, ExportInv,
      TaskState, Exporting, WorkerTask, CancelView, NoCancel, LockFree,
      CancelRequest
<1> QED
  BY <1>1, <1>2, <1>3, <1>4, <1>5, <1>6, <1>7, <1>8, <1>9, <1>10, <1>11
  DEF
      Next, WorkerStep, ExporterStep, CancelStep, RecoverStep, Exporters,
      vars, CancelRead, CancelRefused, CancelSignal, DeleteSegment, SetLock,
      WorkerAuthorize, DirectBegin, Pin, Published, Finish, DrainBegin,
      DrainDone, DrainTimeout, Crash, tables, control, threads

\* The number of charged jobs only grows in Submit, which has looked at it.
LEMMA ChargedShrinks ==
    ASSUME ExportInv, TypeOK', Charged' \subseteq Charged
    PROVE  (Cardinality(Charged) <= MAX_OUTSTANDING)'
<1>1. Charged \subseteq Jobs
  BY DEF Charged, ActiveJobs, ExportInv, TypeOK, CancelRequest, LockFree
<1>2. IsFiniteSet(Charged)
  BY <1>1, ExportsAssumption, FS_Subset
<1>3. Cardinality(Charged') <= Cardinality(Charged) /\ IsFiniteSet(Charged')
  BY <1>2, FS_Subset
<1>4. Cardinality(Charged) \in Nat /\ Cardinality(Charged') \in Nat
  BY <1>2, <1>3, FS_CardinalityType
<1> QED
  BY <1>3, <1>4, ExportsAssumption DEF ExportInv
LEMMA ChargedStep == ASSUME ExportInv, TypeOK', [Next]_vars PROVE (Cardinality(Charged) <= MAX_OUTSTANDING)'
<1>1. ASSUME NEW j \in Jobs, Submit(j) PROVE (Cardinality(Charged) <= MAX_OUTSTANDING)'
  <2>1. Charged = ActiveJobs /\ Charged' = ActiveJobs'
    BY <1>1 DEF Submit, Charged, LockFree
  <2>2. ActiveJobs' = ActiveJobs \cup {j} /\ j \notin ActiveJobs
    BY <1>1 DEF Submit, ActiveJobs, ACTIVE, ExportInv, TypeOK
  <2>3. IsFiniteSet(ActiveJobs)
    BY ExportsAssumption, FS_Subset DEF ActiveJobs
  <2>4. Cardinality(ActiveJobs') = Cardinality(ActiveJobs) + 1 /\ Cardinality(ActiveJobs) \in Nat
    BY <2>2, <2>3, FS_AddElement, FS_CardinalityType
  <2> QED
    BY <1>1, <2>1, <2>4, ExportsAssumption DEF Submit, Admits, Outstanding
<1>2. ASSUME NEW j \in Jobs, CancelRead(j) PROVE Charged' \subseteq Charged
  BY <1>2 DEF CancelRead, tables, Charged, ActiveJobs, LockFree
<1>3. ASSUME CancelRefused PROVE Charged' \subseteq Charged
  BY <1>3 DEF CancelRefused, tables, Charged, ActiveJobs, LockFree
<1>4. ASSUME CancelSignal PROVE Charged' \subseteq Charged
  <2>1. ~LockFree /\ cancelling \in CancelRequest
    BY <1>4 DEF CancelSignal, LockFree, NoCancel, ExportInv, TypeOK
  <2>2. cancelling'.job = cancelling.job
    BY <1>4, <2>1 DEF CancelSignal, CancelRequest
  <2>3. ActiveJobs' = ActiveJobs
    BY <1>4 DEF CancelSignal, tables, ActiveJobs
  <2> QED
    BY <2>1, <2>2, <2>3 DEF Charged
<1>5. ASSUME CancelWrite PROVE Charged' \subseteq Charged
  <2>1. ~LockFree /\ cancelling.job \in Jobs
    BY <1>5 DEF CancelWrite, LockFree, NoCancel, ExportInv, TypeOK, CancelRequest
  <2>2. LockFree' /\ \A j \in Jobs \ {cancelling.job} : job'[j].state = job[j].state
    BY <1>5, <2>1 DEF CancelWrite, LockFree, ExportInv, TypeOK
  <2> QED
    BY <2>1, <2>2 DEF Charged, ActiveJobs
<1>6. ASSUME NEW j \in Jobs, Claim(j) PROVE Charged' \subseteq Charged
  BY <1>6 DEF Claim, Oldest, Charged, ActiveJobs, ACTIVE, LockFree, ExportInv, TypeOK
<1>7. ASSUME NEW p \in Exporters, NEW ok \in BOOLEAN, Publish(p, ok) PROVE Charged' \subseteq Charged
  <2>1. p = Worker => task \in Jobs
    BY <1>7 DEF Publish, ExportInv, WorkerTask, TypeOK
  <2>2. \A j \in Jobs : job'[j].state \in {job[j].state, "completed"}
    <3>1. CASE job' = job
      BY <3>1
    <3>2. CASE p = Worker /\ job' = [job EXCEPT ![task].state = "completed"]
      BY <2>1, <3>2 DEF ExportInv, TypeOK
    <3> QED
      BY <1>7, <3>1, <3>2 DEF Publish
  <2> QED
    BY <1>7, <2>2 DEF Publish, Charged, ActiveJobs, ACTIVE, LockFree
<1>8. ASSUME Record PROVE Charged' \subseteq Charged
  <2>1. task \in Jobs
    BY <1>8 DEF Record, ExportInv, WorkerTask, TypeOK
  <2>2. \A j \in Jobs : job'[j].state \in {job[j].state, "cancelled", "failed"}
    BY <1>8, <2>1 DEF Record, FailureState, ExportInv, TypeOK
  <2> QED
    BY <1>8, <2>2 DEF Record, Charged, ActiveJobs, ACTIVE, LockFree
<1>9. ASSUME Crash PROVE Charged' \subseteq Charged
  BY <1>9 DEF Crash, tables, Charged, ActiveJobs, LockFree
<1>10. ASSUME RecoverMark PROVE Charged' \subseteq Charged
  <2>1. \A j \in Jobs : job'[j].state \in {job[j].state, "interrupted"}
    BY <1>10 DEF RecoverMark, ExportInv, TypeOK
  <2> QED
    BY <1>10, <2>1 DEF RecoverMark, Charged, ActiveJobs, ACTIVE, LockFree
<1>11. ASSUME UNCHANGED <<job, cancelling>> PROVE Charged' \subseteq Charged
  BY <1>11 DEF Charged, ActiveJobs, LockFree
<1> QED
  BY <1>1, <1>2, <1>3, <1>4, <1>5, <1>6, <1>7, <1>8, <1>9, <1>10, <1>11, ChargedShrinks
  DEF Next, WorkerStep, ExporterStep, CancelStep, RecoverStep, Exporters, vars, tables,
      DeleteSegment, SetLock, WorkerAuthorize, DirectBegin, Pin, Prepare,
      Convert, Published, Cleanup, Finish, DrainBegin, DrainDone, DrainTimeout, RecoverClean

-----------------------------------------------------------------------------
(* Theorems.                                                               *)

LEMMA ExportNext == ExportInv /\ [Next]_vars => ExportInv'
<1> SUFFICES ASSUME ExportInv, [Next]_vars PROVE ExportInv'
  OBVIOUS
<1>1. TypeOK'
  BY TypeStep
<1> QED
  BY <1>1, WorkerTaskStep, TaskStateStep, RunningStep, CancelViewStep,
     DirOwnedStep, RecoveringStep, PinsHeldStep, StoppingStep, QuietStep,
     PublicationStep, ChargedStep
  DEF ExportInv

\* The invariant holds in every state the service can reach.
THEOREM ExportInvariant == Spec => []ExportInv
  BY ExportInit, ExportNext, PTL DEF Spec

\* Every variable keeps its type.
THEOREM ExportTypes == Spec => []TypeOK
<1>1. ExportInv => TypeOK
  BY DEF ExportInv
<1> QED
  BY <1>1, ExportInvariant, PTL

\* Publication is all or nothing, whatever crashes: completed job, exports
\* row and finished directory go together.
THEOREM PublicationAtomic == Spec => []PublicationConsistent
<1>1. ExportInv => PublicationConsistent
  BY DEF ExportInv
<1> QED
  BY <1>1, ExportInvariant, PTL

\* Jobs that fail, are cancelled or are interrupted leave no directory.
THEOREM NothingLeft == Spec => []NoLeftovers
<1>1. ExportInv => NoLeftovers
  <2> SUFFICES ASSUME ExportInv, NEW j \in Jobs,
                      job[j].state \in {"cancelled", "failed", "interrupted"},
                      dir[j] # "none"
               PROVE  FALSE
    BY DEF NoLeftovers
  <2>1. j \notin exports
    BY DEF ExportInv, PublicationConsistent
  <2>2. job[j].state \notin ACTIVE
    BY DEF ACTIVE
  <2>3. j = task /\ pc[Worker] \in {"convert", "publish", "cleanup"}
    BY <2>1, <2>2 DEF ExportInv, DirOwned
  <2> QED
    BY <2>3 DEF ExportInv, TaskState, Exporting
<1> QED
  BY <1>1, ExportInvariant, PTL

\* The queue never holds more than MAX_OUTSTANDING jobs.
THEOREM QueueWithinBound == Spec => []QueueBounded
<1>1. ExportInv => QueueBounded
  <2> SUFFICES ASSUME ExportInv PROVE QueueBounded
    OBVIOUS
  <2>1. Charged \subseteq Jobs
    BY DEF Charged, ActiveJobs, ExportInv, TypeOK, CancelRequest, LockFree
  <2>2. IsFiniteSet(Charged) /\ ActiveJobs \subseteq Charged
    BY <2>1, ExportsAssumption, FS_Subset DEF Charged
  <2>3. /\ Cardinality(ActiveJobs) <= Cardinality(Charged)
        /\ Cardinality(ActiveJobs) \in Nat
        /\ Cardinality(Charged) \in Nat
    BY <2>2, FS_Subset, FS_CardinalityType
  <2> QED
    BY <2>3, ExportsAssumption DEF ExportInv, QueueBounded, Outstanding
<1> QED
  BY <1>1, ExportInvariant, PTL

\* A stopped worker leaves no job queued or running.
THEOREM DrainComplete == Spec => []NothingAfterDrain
<1>1. ExportInv => NothingAfterDrain
  BY DEF ExportInv
<1> QED
  BY <1>1, ExportInvariant, PTL

\* A cancellation that has been written is final: the export under way does
\* not complete the job.
THEOREM CancellationWins == Spec => NeverCompletedLate
<1>1. ExportInv /\ [Next]_vars =>
        [\A j \in Jobs :
            job[j].state \in {"cancelling", "cancelled", "failed", "interrupted"}
            => job'[j].state # "completed"]_vars
  <2> SUFFICES ASSUME ExportInv, [Next]_vars, NEW j \in Jobs,
                      job[j].state \in {"cancelling", "cancelled", "failed", "interrupted"},
                      job'[j].state = "completed"
               PROVE  FALSE
    OBVIOUS
  <2> USE DEF ExportInv, TypeOK
  <2>1. ASSUME NEW i \in Jobs, Submit(i) PROVE FALSE
    BY <2>1 DEF Submit
  <2>2. ASSUME CancelWrite PROVE FALSE
    BY <2>2 DEF CancelWrite
  <2>3. ASSUME NEW i \in Jobs, Claim(i) PROVE FALSE
    BY <2>3 DEF Claim
  <2>4. ASSUME NEW p \in Exporters, NEW ok \in BOOLEAN, Publish(p, ok) PROVE FALSE
    <3>1. p = Worker /\ j = task /\ ~Cancelled(p)
      BY <2>4 DEF Publish, Publishable
    <3>2. job[task].state = "cancelling" => event[task] = "set"
      BY <2>4, <3>1 DEF Publish, TaskState, Exporting
    <3>3. job[task].state \in {"running", "cancelling"}
      BY <2>4, <3>1 DEF Publish, TaskState, Exporting
    <3> QED
      BY <3>1, <3>2, <3>3 DEF Cancelled
  <2>5. ASSUME Record PROVE FALSE
    BY <2>5 DEF Record, FailureState
  <2>6. ASSUME RecoverMark PROVE FALSE
    BY <2>6 DEF RecoverMark
  <2>7. CASE UNCHANGED job
    BY <2>7
  <2> QED
    BY <2>1, <2>2, <2>3, <2>4, <2>5, <2>6, <2>7
    DEF Next, WorkerStep, ExporterStep, CancelStep, RecoverStep, Exporters,
        vars, tables, CancelRead, CancelRefused, CancelSignal, DeleteSegment,
        SetLock, WorkerAuthorize, DirectBegin, Pin, Prepare, Convert,
        Published, Cleanup, Finish, DrainBegin, DrainDone, DrainTimeout, Crash,
        RecoverClean
<1> QED
  BY <1>1, ExportInvariant, PTL DEF Spec, NeverCompletedLate

\* An export is published from segments that still exist: pins outlive every
\* deletion request and every retention pass.
THEOREM SourcesKept == Spec => PublishedFromLiveSources
<1>1. ExportInv => \A p \in Exporters :
        pc[p] = "publish" => pins[p] # {} /\ pins[p] \cap deleted = {}
  BY DEF ExportInv, PinsHeld
<1>2. ExportInv =>
        [\A p \in Exporters :
            pc[p] = "publish" /\ pc'[p] = "published"
            => pins[p] # {} /\ pins[p] \cap deleted = {}]_vars
  BY <1>1
<1> QED
  BY <1>2, ExportInvariant, PTL DEF PublishedFromLiveSources

-----------------------------------------------------------------------------
(* The page that submits exports (ExportSubmission).                       *)

\* A page that is not closed is open.
LEMMA OpenPage ==
    ASSUME Submission!TypeOK, e_page.is # "closed"
    PROVE  e_page \in Submission!OpenPages
  BY DEF Submission!TypeOK, Submission!Closed

\* A list of no jobs.
LEMMA EmptyList == [r \in {} |-> "none"] \in Submission!JobLists /\ DOMAIN [r \in {} |-> "none"] = {}
  BY DEF Submission!JobLists

\* A page that has just been opened, or is not there, knows of nothing.
LEMMA SubmissionInit == Submission!Init => Submission!SubmissionInv
<1> SUFFICES ASSUME Submission!Init PROVE Submission!SubmissionInv
  OBVIOUS
<1>1. e_page = Submission!Closed /\ e_page.is = "closed"
  BY DEF Submission!Init, Submission!Closed
<1>2. Submission!TypeOK
  BY <1>1, RequestAssumption
  DEF Submission!Init, Submission!TypeOK, Submission!Lasting, Submission!IsReady
<1> QED
  BY <1>1, <1>2 DEF Submission!Init, Submission!SubmissionInv, Submission!PendingUnknown,
      Submission!JobsTold, Submission!ActionSound, Submission!ListCurrent,
      Submission!UncertainIsKept, Submission!IsReady, Submission!HasList

\* Reading starts afresh or goes on.
LEMMA ReadBegins ==
    ASSUME NEW p \in Submission!OpenPages
    PROVE  LET n == Submission!BeginRead(p)
           IN  /\ n \in Submission!OpenPages /\ n.is = p.is /\ n.pending = p.pending
               /\ n.action = p.action /\ n.jobs = p.jobs
               /\ \/ n.read = p.read
                  \/ n.action = None /\ n.read = [current |-> TRUE, answer |-> None]
<1>1. [current |-> TRUE, answer |-> None] \in Submission!Reads
  BY DEF Submission!Reads
<1>2. CASE p.read # None \/ p.action # None
  BY <1>2 DEF Submission!BeginRead
<1>3. CASE p.read = None /\ p.action = None
  <2> DEFINE n == [p EXCEPT !.read = [current |-> TRUE, answer |-> None]]
  <2>1. Submission!BeginRead(p) = n
    BY <1>3 DEF Submission!BeginRead
  <2>2. n \in Submission!OpenPages
    BY <1>1 DEF Submission!OpenPages
  <2>3. n.is = p.is /\ n.pending = p.pending /\ n.action = p.action /\ n.jobs = p.jobs
        /\ n.read = [current |-> TRUE, answer |-> None]
    BY DEF Submission!OpenPages
  <2> QED
    BY <2>1, <2>2, <2>3, <1>3
<1> QED
  BY <1>2, <1>3

\* An action begins: a list on its way is of an earlier generation.
LEMMA ActBegins ==
    ASSUME e_page \in Submission!OpenPages, NEW kind \in {"submit", "cancel"}, NEW r \in Request
    PROVE  LET n == Submission!Act(kind, r)
           IN  /\ n \in Submission!OpenPages /\ n.is = e_page.is /\ n.pending = e_page.pending
               /\ n.jobs = e_page.jobs
               /\ n.action = [kind |-> kind, request |-> r, answer |-> None]
               /\ n.read # None => e_page.read # None /\ n.read.answer = e_page.read.answer
                                  /\ ~n.read.current
<1> DEFINE n == Submission!Act(kind, r)
<1>1. [kind |-> kind, request |-> r, answer |-> None] \in Submission!Actions
  BY DEF Submission!Actions
<1>2. CASE e_page.read = None
  BY <1>1, <1>2 DEF Submission!Act, Submission!OpenPages
<1>3. CASE e_page.read # None
  <2>1. e_page.read \in Submission!Reads
    BY <1>3 DEF Submission!OpenPages
  <2> DEFINE stale == [e_page.read EXCEPT !.current = FALSE]
  <2>2. stale \in Submission!Reads /\ ~stale.current /\ stale.answer = e_page.read.answer
    BY <2>1 DEF Submission!Reads
  <2>3. n = [e_page EXCEPT !.action = [kind |-> kind, request |-> r, answer |-> None],
                           !.read = stale]
    BY <1>3 DEF Submission!Act
  <2> HIDE DEF stale, n
  <2>4. n \in Submission!OpenPages
    BY <1>1, <2>2, <2>3 DEF Submission!OpenPages
  <2>5. n.is = e_page.is /\ n.pending = e_page.pending /\ n.jobs = e_page.jobs /\ n.read = stale
        /\ n.action = [kind |-> kind, request |-> r, answer |-> None]
    BY <2>3 DEF Submission!OpenPages
  <2> QED
    BY <2>2, <2>4, <2>5, <1>3 DEF n
<1> QED
  BY <1>2, <1>3

\* What a list may hold.
LEMMA ListShape ==
    ASSUME NEW D \in SUBSET Request, NEW f \in [D -> Submission!Lasting]
    PROVE  f \in Submission!JobLists /\ DOMAIN f = D
  BY DEF Submission!JobLists
LEMMA ListFields ==
    ASSUME NEW f \in Submission!JobLists
    PROVE  DOMAIN f \subseteq Request /\ \A r \in DOMAIN f : f[r] \in Submission!Lasting
  BY DEF Submission!JobLists

\* What is shown and listed are jobs of requests.
LEMMA ListedRequests ==
    ASSUME e_page \in Submission!OpenPages
    PROVE  /\ DOMAIN e_page.jobs \subseteq Request
           /\ Submission!HasList => DOMAIN e_page.read.answer \subseteq Request
<1>1. DOMAIN e_page.jobs \subseteq Request
  BY ListFields DEF Submission!OpenPages
<1>2. ASSUME Submission!HasList PROVE DOMAIN e_page.read.answer \subseteq Request
  <2>1. e_page.read \in Submission!Reads
    BY <1>2 DEF Submission!HasList, Submission!OpenPages
  <2>2. e_page.read.answer \in Submission!JobLists
    BY <1>2, <2>1 DEF Submission!HasList, Submission!Reads
  <2> QED
    BY <2>2, ListFields
<1> QED
  BY <1>1, <1>2

\* The service moves: jobs go forward or are reopened, and at most the answer
\* of the action under way arrives.
LEMMA ServiceMoves ==
    ASSUME Submission!SubmissionInv,
           UNCHANGED <<e_stored, e_sent, e_known, e_withheld, e_leaves>>, e_faults' \in 0..MaxFaults,
           e_late' \subseteq [kind : {"submit", "cancel"}, request : e_sent],
           e_job' \in [Request -> Submission!Lasting \cup {"none"}],
           e_reopened \subseteq e_reopened', e_reopened' \subseteq e_sent,
           \A x \in Request : e_job'[x] # "none" => x \in e_sent,
           \A x \in Request : e_job[x] # "none" =>
               /\ e_job'[x] # "none"
               /\ x \in e_reopened' \/ ~Submission!Behind(e_job'[x], e_job[x]),
           e_cancelling' \in e_sent \cup {None},
           e_cancelling' # None => e_job'[e_cancelling'] # "none",
           NEW a,
           \/ /\ e_page' = e_page
              /\ e_page.is = "ready" /\ e_page.action # None /\ e_page.action.answer = "begun" =>
                    e_cancelling' = e_cancelling
           \/ /\ e_page.is = "ready" /\ e_page.action # None /\ e_page.action.answer \in {None, "begun"}
              /\ e_page' = [e_page EXCEPT !.action.answer = a]
              /\ \/ a \in Submission!Lasting /\ e_job'[e_page.action.request] = a
                    /\ (e_page.action.kind = "cancel" => a # "active")
                 \/ a = "refused" /\ e_page.action.kind = "submit"
                 \/ a = "begun" /\ e_page.action.kind = "cancel" /\ e_cancelling' = e_page.action.request
    PROVE  Submission!SubmissionInv'
<1> USE RequestAssumption DEF Submission!SubmissionInv
<1>1. e_page.is # "closed" => e_page \in Submission!OpenPages
  BY OpenPage
<1>2. \A x \in Request, s \in Submission!Lasting : Submission!Told(x, s) => Submission!Told(x, s)'
  <2> SUFFICES ASSUME NEW x \in Request, NEW s \in Submission!Lasting, Submission!Told(x, s)
               PROVE  Submission!Told(x, s)'
    OBVIOUS
  <2>1. e_job[x] \in Submission!Lasting /\ e_job'[x] \in Submission!Lasting
    BY DEF Submission!Told, Submission!TypeOK
  <2> QED
    BY <2>1 DEF Submission!Told, Submission!Behind, Submission!Lasting
<1>3. /\ e_page'.is = e_page.is /\ e_page'.pending = e_page.pending /\ e_page'.jobs = e_page.jobs
      /\ e_page'.read = e_page.read /\ e_page' \in Submission!OpenPages \cup {Submission!Closed}
      /\ (e_page'.is # "ready" => e_page' = e_page)
      /\ e_page.is = "ready" =>
            /\ e_page'.action # None => e_page.action # None
            /\ e_page.action # None =>
                  /\ e_page'.action.kind = e_page.action.kind /\ e_page'.action.request = e_page.action.request
                  /\ e_page'.action.answer = e_page.action.answer \/ e_page'.action.answer = a
  <2>1. CASE e_page' = e_page
    BY <2>1 DEF Submission!TypeOK
  <2>2. CASE e_page' # e_page
    <3>1. /\ e_page \in Submission!OpenPages /\ e_page.action \in Submission!Actions
          /\ e_page.is = "ready" /\ e_page' = [e_page EXCEPT !.action.answer = a]
      BY <2>2, <1>1 DEF Submission!OpenPages
    <3>5. a \in Submission!Lasting \cup {"refused", "begun"}
      BY <2>2
    <3> DEFINE x == [e_page.action EXCEPT !.answer = a]
    <3>2. x \in Submission!Actions /\ x.kind = e_page.action.kind /\ x.request = e_page.action.request
          /\ x.answer = a
      BY <3>1, <3>5 DEF Submission!Actions
    <3>3. e_page' = [e_page EXCEPT !.action = x]
      BY <3>1
    <3> HIDE DEF x
    <3> QED
      BY <3>1, <3>2, <3>3, <2>2 DEF Submission!OpenPages
  <2> QED
    BY <2>1, <2>2
<1>4. Submission!TypeOK'
  <2>1. /\ (e_page = Submission!Closed \/ e_page.pending \in {e_stored, None})
        /\ e_page.is \in {"opening", "failed"} => e_page = [Submission!NewPage EXCEPT !.is = e_page.is]
        /\ (e_page.is = "ready" => e_page.pending = e_stored)
    BY DEF Submission!TypeOK, Submission!IsReady
  <2>2. e_page.is = "ready" \/ e_page' = e_page
    BY <1>3
  <2>3. /\ (e_page' = Submission!Closed \/ e_page'.pending \in {e_stored, None})
        /\ e_page'.is \in {"opening", "failed"} => e_page' = [Submission!NewPage EXCEPT !.is = e_page'.is]
        /\ (e_page'.is = "ready" => e_page'.pending = e_stored)
    BY <1>3, <2>1, <2>2
  <2>4. /\ e_job' \in [Request -> Submission!Lasting \cup {"none"}]
        /\ {x \in Request : e_job'[x] # "none"} \subseteq e_sent
        /\ e_cancelling' \in e_sent \cup {None} /\ (e_cancelling' # None => e_job'[e_cancelling'] # "none")
        /\ e_known' \cup e_reopened' \cup e_withheld' \subseteq e_sent
    BY DEF Submission!TypeOK
  <2> QED
    BY <1>3, <2>3, <2>4 DEF Submission!TypeOK, Submission!IsReady
<1>5. Submission!PendingUnknown' /\ Submission!UncertainIsKept'
  BY DEF Submission!PendingUnknown, Submission!UncertainIsKept
<1>6. Submission!JobsTold'
  <2>1. e_page.is = "ready" => \A x \in DOMAIN e_page.jobs : x \in Request /\ e_page.jobs[x] \in Submission!Lasting
    BY <1>1, ListFields DEF Submission!OpenPages
  <2>2. Submission!HasList => \A x \in DOMAIN e_page.read.answer :
                                 x \in Request /\ e_page.read.answer[x] \in Submission!Lasting
    BY <1>1, ListFields DEF Submission!OpenPages, Submission!Reads, Submission!HasList, Submission!IsReady
  <2>3. Submission!HasList' = Submission!HasList
    BY <1>3 DEF Submission!HasList, Submission!IsReady
  <2> QED
    BY <2>1, <2>2, <2>3, <1>2, <1>3 DEF Submission!JobsTold, Submission!IsReady
<1>7. Submission!ListCurrent'
  BY <1>3 DEF Submission!ListCurrent, Submission!HasList, Submission!IsReady
<1>8. Submission!ActionSound'
  <2> SUFFICES ASSUME e_page.is = "ready", e_page.action # None
               PROVE  Submission!ActionSound'
    BY <1>3 DEF Submission!ActionSound, Submission!IsReady
  <2>1. e_page \in Submission!OpenPages /\ e_page.action \in Submission!Actions
        /\ e_page.action.request \in Request /\ e_page.action.kind \in {"submit", "cancel"}
    BY <1>1 DEF Submission!OpenPages, Submission!Actions
  <2>2. CASE /\ e_page' = e_page
             /\ e_page.action.answer = "begun" => e_cancelling' = e_cancelling
    <3>1. e_page.action.answer \in Submission!Lasting =>
             Submission!Told(e_page.action.request, e_page.action.answer)'
      <4>1. e_page.action.answer \in Submission!Lasting =>
               Submission!Told(e_page.action.request, e_page.action.answer)
        BY DEF Submission!ActionSound, Submission!IsReady
      <4> QED
        BY <2>1, <2>2, <1>2, <4>1
    <3>2. e_page.action.answer = "begun" => e_cancelling' = e_page.action.request
      BY <2>2, <2>1 DEF Submission!ActionSound, Submission!IsReady
    <3> QED
      BY <2>1, <2>2, <3>1, <3>2 DEF Submission!ActionSound, Submission!IsReady
  <2>3. CASE /\ e_page' = [e_page EXCEPT !.action.answer = a]
             /\ \/ /\ a \in Submission!Lasting /\ e_job'[e_page.action.request] = a
                   /\ e_page.action.kind = "cancel" => a # "active"
                \/ a = "refused" /\ e_page.action.kind = "submit"
                \/ a = "begun" /\ e_page.action.kind = "cancel" /\ e_cancelling' = e_page.action.request
    <3>1. e_page'.action.answer = a /\ e_page.action # None
      <4>1. e_page' = [e_page EXCEPT !.action.answer = a]
        BY <2>3
      <4>2. e_page'.action = [e_page.action EXCEPT !.answer = a]
        BY <2>1, <4>1 DEF Submission!OpenPages
      <4> QED
        BY <2>1, <2>3, <4>2 DEF Submission!Actions
    <3>2. ASSUME a \in Submission!Lasting
          PROVE  Submission!Told(e_page.action.request, a)'
      <4>1. e_job'[e_page.action.request] = a /\ e_page'.action.request = e_page.action.request
        BY <2>3, <3>2, <1>3 DEF Submission!Lasting
      <4> QED
        BY <3>2, <4>1 DEF Submission!Told, Submission!Behind, Submission!Lasting
    <3>3. e_page.action.kind = "cancel" => a # "active"
      BY <2>3
    <3>4. a = "refused" => e_page.action.kind = "submit"
      BY <2>3 DEF Submission!Lasting
    <3>5. a = "begun" => e_page.action.kind = "cancel" /\ e_cancelling' = e_page.action.request
      BY <2>3 DEF Submission!Lasting
    <3> QED
      BY <1>3, <2>1, <3>1, <3>2, <3>3, <3>4, <3>5 DEF Submission!ActionSound, Submission!IsReady
  <2> QED
    BY <2>2, <2>3
<1> QED
  BY <1>4, <1>5, <1>6, <1>7, <1>8

\* Every step of the page and the service keeps the invariant.
LEMMA SubmissionMoves ==
    Submission!SubmissionInv /\ [Submission!Next]_SubmissionVars => Submission!SubmissionInv'
<1> SUFFICES ASSUME Submission!SubmissionInv, [Submission!Next]_SubmissionVars
             PROVE  Submission!SubmissionInv'
  OBVIOUS
<1> USE RequestAssumption DEF Submission!SubmissionInv, Submission!bounds, Submission!service
<1> USE DEF Submission!TypeOK, Submission!PendingUnknown, Submission!JobsTold, Submission!ActionSound,
      Submission!ListCurrent, Submission!UncertainIsKept, Submission!IsReady, Submission!HasList,
      Submission!Told
<1>1. CASE UNCHANGED SubmissionVars
  BY <1>1 DEF SubmissionVars
<1>2. CASE Submission!Open
  <2>1. Submission!NewPage \in Submission!OpenPages
    BY EmptyList DEF Submission!NewPage, Submission!OpenPages
  <2> QED
    BY <1>2, <2>1 DEF Submission!Open, Submission!NewPage
<1>3. CASE Submission!Ready
  <2> DEFINE p == [e_page EXCEPT !.is = "ready", !.pending = e_stored]
  <2>1. e_page = Submission!NewPage /\ e_page \in Submission!OpenPages
    BY <1>3, OpenPage DEF Submission!Ready, Submission!NewPage
  <2>2. p \in Submission!OpenPages /\ p.is = "ready" /\ p.pending = e_stored
        /\ p.read = None /\ p.action = None /\ p.jobs = [r \in {} |-> "none"]
    BY <2>1 DEF Submission!OpenPages, Submission!NewPage
  <2>3. e_page' = Submission!BeginRead(p)
    BY <1>3 DEF Submission!Ready
  <2> HIDE DEF p
  <2>4. /\ e_page' \in Submission!OpenPages /\ e_page'.is = "ready"
        /\ e_page'.pending = e_stored /\ e_page'.action = None
        /\ DOMAIN e_page'.jobs = {}
        /\ \/ e_page'.read = None
           \/ e_page'.read = [current |-> TRUE, answer |-> None]
    BY <2>2, <2>3, ReadBegins
  <2> QED
    BY <1>3, <2>4 DEF Submission!Ready
<1>4. CASE Submission!Leave
  BY <1>4, OpenPage DEF Submission!Leave, Submission!Closed, Submission!InFlight, Submission!OpenPages,
     Submission!Actions
<1>5. CASE Submission!Refresh
  <2>1. e_page \in Submission!OpenPages
    BY <1>5, OpenPage DEF Submission!Refresh, Submission!Idle
  <2>2. e_page' = Submission!BeginRead(e_page)
    BY <1>5 DEF Submission!Refresh
  <2> QED
    BY <1>5, <2>1, <2>2, ReadBegins DEF Submission!Refresh, Submission!Idle
<1>6. CASE Submission!List \/ Submission!ListWithholds
  <2>0. PICK D \in SUBSET Submission!Listing : Submission!Lists(D)
             /\ e_withheld' = e_withheld \cup (Submission!Listing \ D) /\ e_faults' \in 0..MaxFaults
    <3>1. CASE Submission!List
      BY <3>1 DEF Submission!List
    <3>2. CASE Submission!ListWithholds
      <4>1. PICK E \in SUBSET Submission!Listing : /\ Submission!Lists(Submission!Listing \ E)
                                                 /\ e_withheld' = e_withheld \cup E
        BY <3>2 DEF Submission!ListWithholds
      <4>2. Submission!Listing \ (Submission!Listing \ E) = E
        OBVIOUS
      <4> QED
        BY <3>2, <4>1, <4>2 DEF Submission!ListWithholds
    <3> QED
      BY <1>6, <3>1, <3>2
  <2> DEFINE list == [r \in D |-> e_job[r]]
             read == [e_page.read EXCEPT !.answer = list]
  <2>1. e_page \in Submission!OpenPages /\ e_page.is = "ready" /\ e_page.read # None
    BY <1>6, OpenPage DEF Submission!List, Submission!ListWithholds, Submission!Listable
  <2>2. list \in Submission!JobLists /\ DOMAIN list = D
    BY ListShape DEF Submission!Listing
  <2>3. e_page.read \in Submission!Reads
    BY <2>1 DEF Submission!OpenPages
  <2>4. read \in Submission!Reads /\ read.answer = list /\ read.current = e_page.read.current
    BY <2>2, <2>3 DEF Submission!Reads
  <2>5. e_page' = [e_page EXCEPT !.read = read]
    BY <2>0 DEF Submission!Lists
  <2>6. \A r \in D : list[r] = e_job[r]
    OBVIOUS
  <2> HIDE DEF list, read
  <2>7. /\ e_page' \in Submission!OpenPages /\ e_page'.is = e_page.is /\ e_page'.pending = e_page.pending
        /\ e_page'.action = e_page.action /\ e_page'.jobs = e_page.jobs /\ e_page'.read = read
    BY <2>1, <2>4, <2>5 DEF Submission!OpenPages
  <2>8. UNCHANGED <<e_job, e_cancelling, e_late, e_stored, e_sent, e_known, e_reopened, e_leaves>>
    BY <1>6 DEF Submission!List, Submission!ListWithholds
  <2>9. /\ DOMAIN e_page.jobs \subseteq Submission!Listing
        /\ \A r \in DOMAIN e_page.jobs : r \in e_reopened \/ ~Submission!Behind(e_job[r], e_page.jobs[r])
    BY <2>1, ListFields DEF Submission!OpenPages, Submission!Listing
  <2>11. Submission!TypeOK' /\ Submission!PendingUnknown' /\ Submission!UncertainIsKept'
    BY <2>0, <2>1, <2>7, <2>8 DEF Submission!Listing
  <2>12. Submission!JobsTold'
    BY <2>1, <2>2, <2>4, <2>6, <2>7, <2>8 DEF Submission!Listing, Submission!Behind
  <2>13. Submission!ActionSound'
    BY <2>1, <2>4, <2>7, <2>8
  <2>14. Submission!ListCurrent'
    BY <2>0, <2>1, <2>2, <2>4, <2>6, <2>7, <2>8, <2>9
  <2> QED
    BY <2>11, <2>12, <2>13, <2>14
<1>7. CASE Submission!Listed
  <2>1. /\ e_page \in Submission!OpenPages /\ e_page.is = "ready"
        /\ e_page.read # None /\ e_page.read.answer # None
        /\ UNCHANGED <<e_job, e_cancelling, e_late, e_sent, e_reopened, e_withheld, e_faults, e_leaves>>
    BY <1>7, OpenPage DEF Submission!Listed
  <2>2. e_page.read \in Submission!Reads /\ e_page.read.answer \in Submission!JobLists
    BY <2>1 DEF Submission!OpenPages, Submission!Reads
  <2>3. DOMAIN e_page.read.answer \subseteq e_sent
    BY <2>1, <2>2, ListFields
  <2>4. CASE ~e_page.read.current
    <3>1. e_page' = [e_page EXCEPT !.read = None] /\ UNCHANGED <<e_stored, e_known>>
      BY <1>7, <2>4 DEF Submission!Listed
    <3>2. /\ e_page' \in Submission!OpenPages /\ e_page'.is = e_page.is /\ e_page'.pending = e_page.pending
          /\ e_page'.action = e_page.action /\ e_page'.jobs = e_page.jobs /\ e_page'.read = None
      BY <2>1, <3>1 DEF Submission!OpenPages
    <3> QED
      BY <2>1, <3>1, <3>2
  <2>5. CASE e_page.read.current
    <3> DEFINE list == e_page.read.answer
    <3>1. /\ e_stored' = IF e_page.pending # None /\ e_page.pending \in DOMAIN list THEN None ELSE e_stored
          /\ e_page' = [e_page EXCEPT !.read = None, !.jobs = list, !.pending = e_stored']
          /\ e_known' = e_known \cup DOMAIN list
      BY <1>7, <2>5 DEF Submission!Listed, Submission!savePending
    <3>2. e_stored' \in Request \cup {None}
      BY <3>1
    <3>3. /\ e_page' \in Submission!OpenPages /\ e_page'.is = e_page.is /\ e_page'.pending = e_stored'
          /\ e_page'.action = e_page.action /\ e_page'.jobs = list /\ e_page'.read = None
      BY <2>1, <2>2, <3>1, <3>2 DEF Submission!OpenPages
    <3>4. e_page.action = None
      BY <2>1, <2>5
    <3> QED
      BY <2>1, <2>3, <3>1, <3>3, <3>4
  <2> QED
    BY <2>4, <2>5
<1>8. CASE Submission!ListFails
  <2>1. /\ e_page \in Submission!OpenPages /\ e_page.is = "ready" /\ e_page.read # None
        /\ UNCHANGED <<e_job, e_cancelling, e_late, e_stored, e_sent, e_known, e_reopened, e_leaves>>
        /\ e_faults' \in 0..MaxFaults
    BY <1>8, OpenPage DEF Submission!ListFails
  <2>2. CASE e_page' = [e_page EXCEPT !.read = None] /\ UNCHANGED e_withheld
    <3>1. /\ e_page' \in Submission!OpenPages /\ e_page'.is = e_page.is /\ e_page'.pending = e_page.pending
          /\ e_page'.action = e_page.action /\ e_page'.jobs = e_page.jobs /\ e_page'.read = None
      BY <2>1, <2>2 DEF Submission!OpenPages
    <3> QED
      BY <2>1, <2>2, <3>1
  <2>3. CASE /\ e_page' = [e_page EXCEPT !.read = None, !.jobs = Submission!NewPage.jobs]
             /\ e_withheld' = e_withheld \cup DOMAIN e_page.jobs
    <3>1. /\ e_page' \in Submission!OpenPages /\ e_page'.is = e_page.is /\ e_page'.pending = e_page.pending
          /\ e_page'.action = e_page.action /\ DOMAIN e_page'.jobs = {} /\ e_page'.read = None
      BY <2>1, <2>3, EmptyList DEF Submission!OpenPages, Submission!NewPage
    <3>2. DOMAIN e_page.jobs \subseteq e_sent
      BY <2>1, ListedRequests
    <3> QED
      BY <2>1, <2>3, <3>1, <3>2
  <2> QED
    BY <1>8, <2>2, <2>3 DEF Submission!ListFails
<1>9. CASE Submission!Submit
  <2> DEFINE r == Submission!Fresh
  <2>0. r \in Request /\ r \notin e_sent
    BY <1>9 DEF Submission!Submit, Submission!Fresh
  <2> HIDE DEF r
  <2>1. e_page \in Submission!OpenPages /\ e_page.is = "ready" /\ e_page.pending = None
        /\ e_page.action = None
    BY <1>9, OpenPage DEF Submission!Submit, Submission!Idle
  <2> DEFINE n == Submission!Act("submit", r)
  <2>2. e_page' = [n EXCEPT !.pending = r] /\ e_stored' = r /\ e_sent' = e_sent \cup {r}
        /\ UNCHANGED <<e_job, e_cancelling, e_late, e_known, e_reopened, e_withheld, e_faults, e_leaves>> /\ r \notin e_sent
    BY <1>9, <2>0 DEF Submission!Submit, Submission!savePending, r
  <2> HIDE DEF n
  <2>3. /\ n \in Submission!OpenPages /\ n.is = e_page.is /\ n.jobs = e_page.jobs
        /\ n.action = [kind |-> "submit", request |-> r, answer |-> None]
        /\ n.read # None => e_page.read # None /\ n.read.answer = e_page.read.answer /\ ~n.read.current
    BY <2>0, <2>1, ActBegins DEF n
  <2>4. /\ e_page' \in Submission!OpenPages /\ e_page'.is = e_page.is /\ e_page'.pending = r
        /\ e_page'.action = n.action /\ e_page'.jobs = e_page.jobs /\ e_page'.read = n.read
    BY <2>0, <2>2, <2>3 DEF Submission!OpenPages
  <2> QED
    <3>1. Submission!TypeOK'
      BY <2>0, <2>1, <2>2, <2>3, <2>4 DEF Submission!Closed
    <3>2. Submission!PendingUnknown' /\ Submission!UncertainIsKept'
      BY <2>1, <2>2, <2>3, <2>4
    <3>3. Submission!JobsTold'
      BY <2>1, <2>2, <2>3, <2>4
    <3>4. Submission!ActionSound'
      BY <2>1, <2>2, <2>3, <2>4 DEF Submission!Lasting
    <3>5. Submission!ListCurrent'
      BY <2>1, <2>2, <2>3, <2>4
    <3> QED
      BY <3>1, <3>2, <3>3, <3>4, <3>5
<1>10. CASE Submission!Recover
  <2>1. e_page \in Submission!OpenPages /\ e_page.is = "ready" /\ e_page.action = None /\ e_page.pending # None
    BY <1>10, OpenPage DEF Submission!Recover, Submission!Idle
  <2>2. e_page.pending \in Request
    BY <2>1, ListFields DEF Submission!OpenPages
  <2>3. e_page' = Submission!Act("submit", e_page.pending)
        /\ UNCHANGED <<e_job, e_cancelling, e_late, e_stored, e_sent, e_known, e_reopened, e_withheld, e_faults, e_leaves>>
    BY <1>10 DEF Submission!Recover
  <2>4. /\ e_page' \in Submission!OpenPages /\ e_page'.is = e_page.is /\ e_page'.jobs = e_page.jobs
        /\ e_page'.pending = e_page.pending
        /\ e_page'.action = [kind |-> "submit", request |-> e_page.pending, answer |-> None]
        /\ e_page'.read # None => e_page.read # None /\ e_page'.read.answer = e_page.read.answer
                                  /\ ~e_page'.read.current
    BY <2>1, <2>2, <2>3, ActBegins
  <2>5. Submission!TypeOK'
    BY <2>1, <2>3, <2>4 DEF Submission!Closed
  <2>6. Submission!PendingUnknown' /\ Submission!UncertainIsKept'
    BY <2>1, <2>3, <2>4
  <2>7. Submission!JobsTold'
    BY <2>1, <2>3, <2>4
  <2>8. Submission!ActionSound'
    BY <2>1, <2>3, <2>4 DEF Submission!Lasting
  <2>9. Submission!ListCurrent'
    BY <2>1, <2>3, <2>4
  <2> QED
    BY <2>5, <2>6, <2>7, <2>8, <2>9
<1>11. CASE \E r \in Request : Submission!Cancel(r)
  <2> PICK r \in Request : Submission!Cancel(r)
    BY <1>11
  <2>1. e_page \in Submission!OpenPages /\ e_page.is = "ready" /\ e_page.action = None /\ r \in DOMAIN e_page.jobs
        /\ e_page.jobs[r] = "active"
    BY OpenPage DEF Submission!Cancel, Submission!Idle
  <2>2. r \in Request
    BY <2>1, ListFields DEF Submission!OpenPages
  <2>3. e_page' = Submission!Act("cancel", r)
        /\ UNCHANGED <<e_job, e_cancelling, e_late, e_stored, e_sent, e_known, e_reopened, e_withheld, e_faults, e_leaves>>
    BY DEF Submission!Cancel
  <2>4. /\ e_page' \in Submission!OpenPages /\ e_page'.is = e_page.is /\ e_page'.jobs = e_page.jobs
        /\ e_page'.pending = e_page.pending
        /\ e_page'.action = [kind |-> "cancel", request |-> r, answer |-> None]
        /\ e_page'.read # None => e_page.read # None /\ e_page'.read.answer = e_page.read.answer
                                  /\ ~e_page'.read.current
    BY <2>1, <2>2, <2>3, ActBegins
  <2>5. Submission!TypeOK'
    BY <2>1, <2>3, <2>4 DEF Submission!Closed
  <2>6. Submission!PendingUnknown' /\ Submission!UncertainIsKept'
    BY <2>1, <2>3, <2>4
  <2>7. Submission!JobsTold'
    BY <2>1, <2>3, <2>4
  <2>8. Submission!ActionSound'
    BY <2>1, <2>3, <2>4 DEF Submission!Lasting
  <2>9. Submission!ListCurrent'
    BY <2>1, <2>3, <2>4
  <2> QED
    BY <2>5, <2>6, <2>7, <2>8, <2>9
<1>12. CASE Submission!Execute \/ Submission!Refuse
  <2> DEFINE r == e_page.action.request
  <2>1. /\ e_page \in Submission!OpenPages /\ e_page.is = "ready" /\ e_page.action # None
        /\ e_page.action \in Submission!Actions /\ r \in Request /\ r \in e_sent
        /\ e_page.action.answer = None /\ e_page.action.kind = "submit"
    BY <1>12, OpenPage DEF Submission!Execute, Submission!Refuse, Submission!Waiting, Submission!OpenPages,
       Submission!Actions
  <2>2. CASE Submission!Execute
    <3>1. /\ UNCHANGED <<e_cancelling, e_late, e_stored, e_sent, e_known, e_reopened, e_withheld, e_faults, e_leaves>>
          /\ e_job' = [e_job EXCEPT ![r] = IF @ = "none" THEN "active" ELSE @]
          /\ e_page' = [e_page EXCEPT !.action.answer = e_job'[r]]
      BY <2>2 DEF Submission!Execute, Submission!Answered, Submission!Accepted
    <3> HIDE DEF r
    <3>2. /\ e_job' \in [Request -> Submission!Lasting \cup {"none"}] /\ e_job'[r] \in Submission!Lasting
          /\ \A x \in Request : e_job'[x] # "none" => x \in e_sent
          /\ \A x \in Request : e_job[x] # "none" => e_job'[x] = e_job[x]
      BY <2>1, <3>1 DEF Submission!Lasting
    <3> QED
      BY <2>1, <3>1, <3>2, ServiceMoves DEF Submission!Behind, r
  <2>3. CASE Submission!Refuse
    <3>1. /\ UNCHANGED <<e_job, e_cancelling, e_late, e_stored, e_sent, e_known, e_reopened, e_withheld, e_leaves>>
          /\ e_faults' \in 0..MaxFaults
          /\ e_page' = [e_page EXCEPT !.action.answer = "refused"]
      BY <2>3 DEF Submission!Refuse, Submission!Answered
    <3> QED
      BY <2>1, <3>1, ServiceMoves DEF Submission!Behind
  <2> QED
    BY <1>12, <2>2, <2>3
<1>13. CASE Submission!ExecuteCancel
  <2> DEFINE r == e_page.action.request
  <2>1. /\ e_page \in Submission!OpenPages /\ e_page.is = "ready" /\ e_page.action # None
        /\ e_page.action \in Submission!Actions /\ r \in Request /\ r \in e_sent
        /\ e_page.action.answer = None /\ e_page.action.kind = "cancel"
    BY <1>13, OpenPage DEF Submission!ExecuteCancel, Submission!Waiting, Submission!OpenPages, Submission!Actions
  <2>2. UNCHANGED <<e_job, e_late, e_stored, e_sent, e_known, e_reopened, e_withheld, e_faults, e_leaves>>
    BY <1>13 DEF Submission!ExecuteCancel
  <2>3. \/ e_job[r] = "done" /\ e_page' = [e_page EXCEPT !.action.answer = "done"] /\ e_cancelling' = e_cancelling
        \/ e_job[r] # "none" /\ e_page' = [e_page EXCEPT !.action.answer = "begun"] /\ e_cancelling' = r
    BY <1>13 DEF Submission!ExecuteCancel, Submission!Answered, Submission!Active
  <2>4. e_cancelling' \in e_sent \cup {None} /\ (e_cancelling' # None => e_job'[e_cancelling'] # "none")
    BY <2>1, <2>2, <2>3
  <2> QED
    BY <2>1, <2>2, <2>3, <2>4, ServiceMoves DEF Submission!Behind, Submission!Lasting
<1>18. CASE Submission!CancelWrites
  <2>1. /\ e_cancelling # None /\ e_cancelling \in Request /\ e_cancelling \in e_sent /\ e_cancelling' = None
        /\ UNCHANGED <<e_late, e_stored, e_sent, e_known, e_withheld, e_faults, e_leaves>>
        /\ e_job[e_cancelling] # "none"
    BY <1>18 DEF Submission!CancelWrites
  <2>2. PICK s \in {"cancelling", "done"} : e_job' = [e_job EXCEPT ![e_cancelling] = s]
    BY <1>18 DEF Submission!CancelWrites
  <2>3. /\ e_job' \in [Request -> Submission!Lasting \cup {"none"}] /\ e_job'[e_cancelling] = s
        /\ \A x \in Request \ {e_cancelling} : e_job'[x] = e_job[x]
    BY <2>1, <2>2 DEF Submission!Lasting
  <2>4. /\ e_reopened \subseteq e_reopened' /\ e_reopened' \subseteq e_sent
        /\ e_job[e_cancelling] = "done" /\ s = "cancelling" => e_cancelling \in e_reopened'
    BY <1>18, <2>1, <2>3 DEF Submission!CancelWrites
  <2>5. \A x \in Request : e_job[x] # "none" =>
           e_job'[x] # "none" /\ (x \in e_reopened' \/ ~Submission!Behind(e_job'[x], e_job[x]))
    BY <2>1, <2>2, <2>3, <2>4 DEF Submission!Behind, Submission!Lasting
  <2>6. \A x \in Request : e_job'[x] # "none" => x \in e_sent
    BY <2>1, <2>3
  <2>7. CASE e_page.is = "ready" /\ e_page.action # None /\ e_page.action.answer = "begun"
    <3>1. e_page' = [e_page EXCEPT !.action.answer = s] /\ e_page.action.request = e_cancelling
          /\ s \in Submission!Lasting
      BY <1>18, <2>3, <2>7 DEF Submission!CancelWrites, Submission!Answered, Submission!Lasting
    <3> QED
      BY <2>1, <2>3, <2>4, <2>5, <2>6, <2>7, <3>1, ServiceMoves
  <2>8. CASE ~(e_page.is = "ready" /\ e_page.action # None /\ e_page.action.answer = "begun")
    <3>1. e_page' = e_page
      BY <1>18, <2>8 DEF Submission!CancelWrites
    <3> QED
      BY <2>1, <2>3, <2>4, <2>5, <2>6, <2>8, <3>1, ServiceMoves
  <2> QED
    BY <2>7, <2>8
<1>14. CASE Submission!Fails
  <2> DEFINE p == [e_page EXCEPT !.action = None]
  <2>1. /\ e_page \in Submission!OpenPages /\ e_page.is = "ready" /\ e_page.action # None
        /\ UNCHANGED <<e_job, e_cancelling, e_stored, e_sent, e_known, e_reopened, e_withheld, e_leaves>>
        /\ e_faults' \in 0..MaxFaults /\ e_late' = e_late \cup Submission!InFlight
        /\ e_page' = Submission!BeginRead(p)
    BY <1>14, OpenPage DEF Submission!Fails
  <2>2. Submission!InFlight \subseteq [kind : {"submit", "cancel"}, request : e_sent]
    BY <2>1 DEF Submission!InFlight, Submission!OpenPages, Submission!Actions
  <2>3. /\ p \in Submission!OpenPages /\ p.is = e_page.is /\ p.pending = e_page.pending
        /\ p.action = None /\ p.jobs = e_page.jobs /\ p.read = e_page.read
    BY <2>1 DEF Submission!OpenPages
  <2> HIDE DEF p
  <2>4. /\ e_page' \in Submission!OpenPages /\ e_page'.is = e_page.is /\ e_page'.pending = e_page.pending
        /\ e_page'.action = None /\ e_page'.jobs = e_page.jobs
        /\ \/ e_page'.read = e_page.read
           \/ e_page'.read = [current |-> TRUE, answer |-> None]
    BY <2>1, <2>3, ReadBegins
  <2>5. Submission!TypeOK'
    BY <2>1, <2>2, <2>4 DEF Submission!Closed
  <2>6. Submission!PendingUnknown' /\ Submission!UncertainIsKept' /\ Submission!ActionSound'
    BY <2>1, <2>4
  <2>7. Submission!JobsTold' /\ Submission!ListCurrent'
    BY <2>1, <2>4
  <2> QED
    BY <2>5, <2>6, <2>7
<1>15. CASE Submission!Answer
  <2> DEFINE x == e_page.action
             jobs == IF x.answer = "refused" THEN e_page.jobs
                     ELSE [r \in DOMAIN e_page.jobs \cup {x.request} |->
                             IF r = x.request THEN x.answer ELSE e_page.jobs[r]]
             p == [e_page EXCEPT !.action = None, !.jobs = jobs]
  <2>1. /\ e_page \in Submission!OpenPages /\ e_page.is = "ready" /\ x # None /\ x.answer \notin {None, "begun"}
        /\ UNCHANGED <<e_job, e_cancelling, e_late, e_sent, e_reopened, e_withheld, e_faults, e_leaves>>
        /\ e_page' = [Submission!BeginRead(p) EXCEPT !.pending = e_stored']
        /\ e_stored' = IF x.kind = "submit" THEN None ELSE e_stored
        /\ e_known' = e_known \cup {x.request}
    BY <1>15, OpenPage DEF Submission!Answer, Submission!savePending
  <2>2. x \in Submission!Actions /\ x.request \in Request /\ x.request \in e_sent
        /\ x.answer \in Submission!Lasting \cup {"refused"} /\ x.kind \in {"submit", "cancel"}
    BY <2>1 DEF Submission!OpenPages, Submission!Actions
  <2>3. e_page.jobs \in Submission!JobLists /\ DOMAIN e_page.jobs \subseteq Request
        /\ \A r \in DOMAIN e_page.jobs : e_page.jobs[r] \in Submission!Lasting
    BY <2>1, ListFields DEF Submission!OpenPages
  <2>4. /\ jobs \in Submission!JobLists
        /\ \A r \in DOMAIN jobs :
              \/ r \in DOMAIN e_page.jobs /\ jobs[r] = e_page.jobs[r]
              \/ r = x.request /\ jobs[r] = x.answer /\ x.answer # "refused"
    <3>1. CASE x.answer = "refused"
      BY <2>3, <3>1
    <3>2. CASE x.answer # "refused"
      <4> DEFINE D == DOMAIN e_page.jobs \cup {x.request}
      <4>1. D \in SUBSET Request /\ jobs \in [D -> Submission!Lasting]
        BY <2>2, <2>3, <3>2
      <4> QED
        BY <2>3, <3>2, <4>1, ListShape
    <3> QED
      BY <3>1, <3>2
  <2> HIDE DEF jobs
  <2>5. /\ p \in Submission!OpenPages /\ p.is = e_page.is /\ p.pending = e_page.pending
        /\ p.action = None /\ p.jobs = jobs /\ p.read = e_page.read
    BY <2>1, <2>4 DEF Submission!OpenPages
  <2> HIDE DEF p
  <2> DEFINE n == Submission!BeginRead(p)
  <2>6. /\ n \in Submission!OpenPages /\ n.is = e_page.is
        /\ n.action = None /\ n.jobs = jobs
        /\ \/ n.read = e_page.read
           \/ n.read = [current |-> TRUE, answer |-> None]
    BY <2>5, ReadBegins
  <2> HIDE DEF n
  <2>7. e_stored' \in Request \cup {None} /\ e_page' = [n EXCEPT !.pending = e_stored']
    BY <2>1 DEF n
  <2>8. /\ e_page' \in Submission!OpenPages /\ e_page'.is = e_page.is /\ e_page'.pending = e_stored'
        /\ e_page'.action = None /\ e_page'.jobs = jobs
        /\ \/ e_page'.read = e_page.read
           \/ e_page'.read = [current |-> TRUE, answer |-> None]
    BY <2>6, <2>7 DEF Submission!OpenPages
  <2>9. e_page.read # None => ~e_page.read.current
    BY <2>1
  <2>10. x.answer # "refused" => Submission!Told(x.request, x.answer)
    BY <2>1, <2>2
  <2>11. x.kind = "submit" => e_stored = x.request
    BY <2>1
  <2>12. x.kind = "cancel" => x.request \in e_known
    BY <2>1
  <2> HIDE DEF x
  <2>13. Submission!TypeOK'
    BY <2>1, <2>2, <2>7, <2>8
  <2>14. Submission!PendingUnknown' /\ Submission!UncertainIsKept' /\ Submission!ActionSound'
    BY <2>1, <2>2, <2>8, <2>11, <2>12
  <2>15. Submission!JobsTold'
    BY <2>1, <2>4, <2>8, <2>10
  <2>16. Submission!ListCurrent'
    BY <2>1, <2>8, <2>9
  <2> QED
    BY <2>13, <2>14, <2>15, <2>16
<1>16. CASE \E l \in e_late : Submission!Arrives(l)
  <2> PICK l \in e_late : Submission!Arrives(l)
    BY <1>16
  <2>1. /\ UNCHANGED <<e_page, e_stored, e_sent, e_known, e_reopened, e_withheld, e_faults, e_leaves>>
        /\ e_late' \subseteq [kind : {"submit", "cancel"}, request : e_sent]
        /\ l.request \in e_sent /\ l.request \in Request /\ e_cancelling = None
    BY DEF Submission!Arrives
  <2>2. /\ e_job' \in [Request -> Submission!Lasting \cup {"none"}]
        /\ \A x \in Request : e_job'[x] # "none" => x \in e_sent
        /\ \A x \in Request : e_job[x] # "none" => e_job'[x] = e_job[x]
    BY <2>1 DEF Submission!Arrives, Submission!Accepted, Submission!Lasting
  <2>3. /\ e_cancelling' \in e_sent \cup {None} /\ (e_cancelling' # None => e_job'[e_cancelling'] # "none")
        /\ e_cancelling' # e_cancelling => l.kind = "cancel"
    BY <2>1, <2>2 DEF Submission!Arrives, Submission!Active
  <2>4. ~(e_page.is = "ready" /\ e_page.action # None /\ e_page.action.answer = "begun")
    BY <2>1
  <2> QED
    BY <2>1, <2>2, <2>3, <2>4, ServiceMoves DEF Submission!Behind
<1>17. CASE (\E r \in Request : Submission!Finish(r)) \/ Submission!FailsBeside
  <2>1. PICK r \in Request : /\ Submission!Active(r) /\ e_job' = [e_job EXCEPT ![r] = "done"]
                             /\ UNCHANGED <<e_page, e_cancelling, e_late, e_stored, e_sent, e_known, e_reopened,
                                           e_withheld, e_leaves>>
                             /\ e_faults' \in 0..MaxFaults
    BY <1>17 DEF Submission!Finish, Submission!FailsBeside
  <2>2. /\ e_job' \in [Request -> Submission!Lasting \cup {"none"}]
        /\ \A x \in Request : e_job'[x] # "none" => x \in e_sent
        /\ \A x \in Request : e_job[x] # "none" => e_job'[x] # "none" /\ ~Submission!Behind(e_job'[x], e_job[x])
        /\ e_cancelling # None => e_job'[e_cancelling] # "none"
    BY <2>1 DEF Submission!Active, Submission!Behind, Submission!Lasting
  <2> QED
    BY <2>1, <2>2, ServiceMoves
<1>19. CASE Submission!Hide \/ Submission!Show
  <2>1. /\ e_page \in Submission!OpenPages /\ e_page.is = "ready"
        /\ UNCHANGED <<e_job, e_cancelling, e_late, e_stored, e_sent, e_known, e_reopened, e_withheld, e_faults>>
        /\ e_leaves' \in 0..MaxLeaves
    BY <1>19, OpenPage DEF Submission!Hide, Submission!Show
  <2>2. PICK v \in BOOLEAN : LET p == [e_page EXCEPT !.visible = v]
                             IN  e_page' = p \/ e_page' = Submission!BeginRead(p)
    BY <1>19 DEF Submission!Hide, Submission!Show
  <2> DEFINE p == [e_page EXCEPT !.visible = v]
  <2>3. /\ p \in Submission!OpenPages /\ p.is = e_page.is /\ p.pending = e_page.pending
        /\ p.action = e_page.action /\ p.jobs = e_page.jobs /\ p.read = e_page.read
    BY <2>1 DEF Submission!OpenPages
  <2> HIDE DEF p
  <2>4. /\ e_page' \in Submission!OpenPages /\ e_page'.is = e_page.is /\ e_page'.pending = e_page.pending
        /\ e_page'.action = e_page.action /\ e_page'.jobs = e_page.jobs
        /\ \/ e_page'.read = e_page.read
           \/ e_page'.action = None /\ e_page'.read = [current |-> TRUE, answer |-> None]
    BY <2>2, <2>3, ReadBegins DEF p
  <2>5. Submission!TypeOK' /\ Submission!PendingUnknown' /\ Submission!UncertainIsKept'
    BY <2>1, <2>4 DEF Submission!Closed
  <2>6. Submission!ActionSound'
    BY <2>1, <2>4
  <2>7. Submission!JobsTold' /\ Submission!ListCurrent'
    BY <2>1, <2>4
  <2> QED
    BY <2>5, <2>6, <2>7
<1>20. CASE Submission!ReadyFails
  <2>1. e_page = Submission!NewPage /\ e_page' = [Submission!NewPage EXCEPT !.is = "failed"]
    BY <1>20 DEF Submission!ReadyFails, Submission!NewPage
  <2>2. e_page' \in Submission!OpenPages /\ e_page'.is = "failed" /\ e_page'.pending = None
    BY <2>1, EmptyList DEF Submission!NewPage, Submission!OpenPages
  <2> QED
    BY <1>20, <2>1, <2>2 DEF Submission!ReadyFails
<1> QED
  BY <1>1, <1>2, <1>3, <1>4, <1>5, <1>6, <1>7, <1>8, <1>9, <1>10, <1>11, <1>12, <1>13,
     <1>14, <1>15, <1>16, <1>17, <1>18, <1>19, <1>20 DEF Submission!Next

\* The steps of the systems side by side are steps of the page, or leave it.
LEMMA SubmissionOfAll == [AnyNext]_all => [Submission!Next]_SubmissionVars
  BY DEF AnyNext, all, SubmissionVars

\* The page's invariant holds beside the other systems too.
LEMMA SubmissionInvariant == AnySpec => []Submission!SubmissionInv
<1>1. AnyInit => Submission!SubmissionInv
  BY SubmissionInit DEF AnyInit
<1>2. Submission!SubmissionInv /\ [AnyNext]_all => Submission!SubmissionInv'
  BY SubmissionMoves, SubmissionOfAll
<1> QED
  BY <1>1, <1>2, PTL DEF AnySpec

\* Nothing the page shows is taken back: a list that is still applied was
\* read with nothing done since, an answer adds the job of its action.
LEMMA ShownForward ==
    Submission!SubmissionInv /\ [Submission!Next]_SubmissionVars =>
        [e_page'.is = "ready" =>
           \A r \in DOMAIN Submission!Shown(e_page) :
              \/ r \in DOMAIN Submission!Shown(e_page')
                 /\ ~Submission!Behind(Submission!Shown(e_page')[r], Submission!Shown(e_page)[r])
              \/ r \in e_reopened' \cup e_withheld']_(Submission!vars)
<1> SUFFICES ASSUME Submission!SubmissionInv, [Submission!Next]_SubmissionVars, e_page'.is = "ready",
                    Submission!vars' # Submission!vars,
                    NEW r \in DOMAIN Submission!Shown(e_page)
             PROVE  \/ r \in DOMAIN Submission!Shown(e_page')
                       /\ ~Submission!Behind(Submission!Shown(e_page')[r], Submission!Shown(e_page)[r])
                    \/ r \in e_reopened' \cup e_withheld'
  BY DEF Submission!Shown
<1> USE RequestAssumption
<1>1. e_page.is = "ready" /\ e_page \in Submission!OpenPages /\ r \in DOMAIN e_page.jobs
      /\ Submission!Shown(e_page) = e_page.jobs /\ Submission!Shown(e_page') = e_page'.jobs
  <2>1. Submission!Shown(e_page') = e_page'.jobs
    BY DEF Submission!Shown
  <2>2. e_page.is = "ready"
    BY DEF Submission!Shown, Submission!NewPage
  <2> QED
    BY <2>1, <2>2, OpenPage DEF Submission!Shown, Submission!SubmissionInv
<1>2. CASE e_page'.jobs = e_page.jobs
  BY <1>1, <1>2 DEF Submission!Behind
<1>3. CASE Submission!Listed
  <2>1. CASE ~e_page.read.current
    BY <1>1, <1>2, <1>3, <2>1 DEF Submission!Listed, Submission!OpenPages
  <2>2. CASE e_page.read.current
    <3>1. e_page' = [e_page EXCEPT !.read = None, !.jobs = e_page.read.answer, !.pending = e_stored']
      BY <1>3, <2>2 DEF Submission!Listed, Submission!savePending
    <3>2. e_page'.jobs = e_page.read.answer
      BY <1>1, <3>1 DEF Submission!OpenPages
    <3> QED
      BY <1>1, <1>3, <2>2, <3>2 DEF Submission!Listed, Submission!SubmissionInv, Submission!ListCurrent,
         Submission!HasList, Submission!IsReady, Submission!service, Submission!bounds
  <2> QED
    BY <2>1, <2>2
<1>4. CASE Submission!Answer
  <2> DEFINE x == e_page.action
             jobs == IF x.answer = "refused" THEN e_page.jobs
                     ELSE [s \in DOMAIN e_page.jobs \cup {x.request} |->
                             IF s = x.request THEN x.answer ELSE e_page.jobs[s]]
             p == [e_page EXCEPT !.action = None, !.jobs = jobs]
  <2>1. x # None /\ x.answer \notin {None, "begun"} /\ UNCHANGED <<e_job, e_reopened>>
        /\ e_page' = [Submission!BeginRead(p) EXCEPT !.pending = e_stored']
    BY <1>4 DEF Submission!Answer, Submission!savePending, Submission!service
  <2>2. x \in Submission!Actions /\ x.request \in Request /\ x.answer \in Submission!Lasting \cup {"refused"}
    BY <1>1, <2>1 DEF Submission!OpenPages, Submission!Actions
  <2>3. e_page.jobs \in Submission!JobLists /\ DOMAIN e_page.jobs \subseteq Request
        /\ \A s \in DOMAIN e_page.jobs : e_page.jobs[s] \in Submission!Lasting
    BY <1>1, ListFields DEF Submission!OpenPages
  <2>4. jobs \in Submission!JobLists /\ r \in DOMAIN jobs
        /\ (jobs[r] = e_page.jobs[r] \/ (r = x.request /\ jobs[r] = x.answer))
    <3>1. CASE x.answer = "refused"
      BY <1>1, <2>3, <3>1
    <3>2. CASE x.answer # "refused"
      <4> DEFINE D == DOMAIN e_page.jobs \cup {x.request}
      <4>1. D \in SUBSET Request /\ jobs \in [D -> Submission!Lasting]
        BY <2>2, <2>3, <3>2
      <4> QED
        BY <1>1, <2>3, <3>2, <4>1, ListShape
    <3> QED
      BY <3>1, <3>2
  <2>5. r = x.request => x.answer # "active" /\ e_page.jobs[r] = "active"
    <3> SUFFICES ASSUME r = x.request PROVE x.answer # "active" /\ e_page.jobs[r] = "active"
      OBVIOUS
    <3>1. r \in e_known
      BY <1>1 DEF Submission!SubmissionInv, Submission!JobsTold, Submission!IsReady
    <3>2. x.kind # "submit"
      BY <1>1, <2>1, <2>2, <3>1 DEF Submission!SubmissionInv, Submission!ActionSound,
         Submission!PendingUnknown, Submission!IsReady
    <3>3. x.kind = "cancel"
      BY <2>2, <3>2 DEF Submission!Actions
    <3> QED
      BY <1>1, <2>1, <2>2, <3>3 DEF Submission!SubmissionInv, Submission!ActionSound, Submission!IsReady
  <2> HIDE DEF jobs
  <2>6. p \in Submission!OpenPages /\ p.jobs = jobs
    BY <1>1, <2>4 DEF Submission!OpenPages
  <2> HIDE DEF p
  <2>7. Submission!BeginRead(p) \in Submission!OpenPages /\ Submission!BeginRead(p).jobs = jobs
    BY <2>6, ReadBegins
  <2>8. e_page'.jobs = jobs
    BY <2>1, <2>7 DEF Submission!OpenPages
  <2>9. x.answer = "refused" => jobs = e_page.jobs
    BY DEF jobs
  <2> HIDE DEF x
  <2>10. ~Submission!Behind(jobs[r], e_page.jobs[r])
    BY <1>1, <2>2, <2>4, <2>5, <2>9 DEF Submission!Behind
  <2> QED
    BY <1>1, <2>4, <2>8, <2>10
<1>5. CASE \/ Submission!List \/ Submission!ListWithholds \/ Submission!Execute \/ Submission!Refuse
           \/ Submission!ExecuteCancel \/ Submission!CancelWrites \/ Submission!FailsBeside
  BY <1>1, <1>2, <1>5 DEF Submission!List, Submission!ListWithholds, Submission!Lists, Submission!Execute,
     Submission!Refuse, Submission!ExecuteCancel, Submission!CancelWrites, Submission!FailsBeside,
     Submission!Answered, Submission!OpenPages
<1>13. CASE Submission!ListFails
  <2>1. CASE e_page' = [e_page EXCEPT !.read = None]
    BY <1>1, <1>2, <2>1 DEF Submission!OpenPages
  <2>2. CASE e_withheld' = e_withheld \cup DOMAIN e_page.jobs
    BY <1>1, <2>2
  <2> QED
    BY <1>13, <2>1, <2>2 DEF Submission!ListFails
<1>14. CASE Submission!Hide \/ Submission!Show
  <2> PICK v \in BOOLEAN : LET p == [e_page EXCEPT !.visible = v]
                            IN  e_page' = p \/ e_page' = Submission!BeginRead(p)
    BY <1>14 DEF Submission!Hide, Submission!Show
  <2> DEFINE p == [e_page EXCEPT !.visible = v]
  <2>1. p \in Submission!OpenPages /\ p.jobs = e_page.jobs
    BY <1>1 DEF Submission!OpenPages
  <2> HIDE DEF p
  <2> QED
    BY <1>2, <2>1, ReadBegins DEF p
<1>6. CASE Submission!Fails
  <2> DEFINE p == [e_page EXCEPT !.action = None]
  <2>1. p \in Submission!OpenPages /\ p.jobs = e_page.jobs
    BY <1>1 DEF Submission!OpenPages
  <2>2. e_page' = Submission!BeginRead(p)
    BY <1>6 DEF Submission!Fails
  <2> HIDE DEF p
  <2> QED
    BY <1>2, <2>1, <2>2, ReadBegins
<1>7. CASE Submission!Refresh
  BY <1>1, <1>2, <1>7, ReadBegins DEF Submission!Refresh
<1>8. CASE Submission!Recover
  <2>1. e_page.pending \in Request
    BY <1>1, <1>8 DEF Submission!Recover, Submission!OpenPages
  <2> QED
    BY <1>1, <1>2, <1>8, <2>1, ActBegins DEF Submission!Recover
<1>9. CASE Submission!Submit
  <2> DEFINE s == Submission!Fresh
             n == Submission!Act("submit", s)
  <2>1. s \in Request
    BY <1>9 DEF Submission!Submit, Submission!Fresh, Submission!SubmissionInv, Submission!TypeOK
  <2>2. e_page' = [n EXCEPT !.pending = s]
    BY <1>9 DEF Submission!Submit, Submission!savePending
  <2> HIDE DEF n, s
  <2>3. n \in Submission!OpenPages /\ n.jobs = e_page.jobs
    BY <1>1, <2>1, ActBegins DEF n
  <2> QED
    BY <1>2, <2>2, <2>3 DEF Submission!OpenPages
<1>15. CASE \E s \in Request : Submission!Cancel(s)
  BY <1>1, <1>2, <1>15, ActBegins DEF Submission!Cancel
<1>10. CASE Submission!Open \/ Submission!Ready \/ Submission!ReadyFails \/ Submission!Leave
  BY <1>1, <1>10 DEF Submission!Open, Submission!Ready, Submission!ReadyFails, Submission!Leave, Submission!Closed
<1>11. CASE (\E l \in e_late : Submission!Arrives(l)) \/ (\E s \in Request : Submission!Finish(s))
  BY <1>2, <1>11 DEF Submission!Arrives, Submission!Finish
<1>12. CASE UNCHANGED SubmissionVars
  BY <1>2, <1>12 DEF SubmissionVars
<1> QED
  BY <1>3, <1>4, <1>5, <1>6, <1>7, <1>8, <1>9, <1>10, <1>11, <1>12, <1>13, <1>14,
     <1>15 DEF Submission!Next

\* A submission whose outcome nobody has seen stays in the tab, whatever is
\* lost, reloaded or polled, and nothing the page has shown is taken back.
THEOREM SubmissionsKept == AnySpec => SubmissionKept
<1>1. [AnyNext]_all => [Submission!Next]_SubmissionVars
  BY SubmissionOfAll
<1>2. Submission!SubmissionInv => Submission!UncertainIsKept
  BY DEF Submission!SubmissionInv
<1>3. AnySpec => []((part = "submission") => Submission!SubmissionInv /\ Submission!UncertainIsKept)
  BY <1>2, SubmissionInvariant, PTL
<1>4. AnySpec => Submission!NeverBackwards
  BY <1>1, SubmissionInvariant, ShownForward, PTL DEF AnySpec, Submission!NeverBackwards
<1> QED
  BY <1>3, <1>4 DEF SubmissionKept

-----------------------------------------------------------------------------
(* The timeline page: what a run of the lease effect becomes.              *)

\* What the assumptions say of the timeline's constants.
LEMMA WatchConstants ==
    /\ None \notin Page!Rounds /\ None \notin Page!Actions
    /\ \A S \in SUBSET Camera : S # None
    /\ None \notin {"gone", "conflict", "deleted"} /\ Cursor # {}
    /\ Life \in Nat /\ Life > 1 /\ MaxMoves \in Nat /\ MaxFaults \in Nat
  BY RequestAssumption, WatchAssumption

\* A run that goes on holds what it held, for the same segments.
Same(h, g) ==
    /\ g.closed = h.closed /\ g.key = h.key /\ g.deleting = h.deleting /\ g.awaited = h.awaited
    /\ Page!Held(g) = Page!Held(h)

\* The parts of a run.
LEMMA RunFields ==
    ASSUME NEW h \in Page!Runs
    PROVE  /\ h.key \in SUBSET Camera /\ h.deleting \in BOOLEAN /\ h.closed \in BOOLEAN
           /\ h.ids \in SUBSET Lease /\ h.giving \in SUBSET Lease
           /\ h.awaited \in BOOLEAN /\ h.sure \in BOOLEAN
           /\ h.round = None \/ h.round \in Page!Rounds
           /\ h.round # None => /\ h.round.asked \in SUBSET Camera /\ h.round.got \in SUBSET Lease
                                /\ h.round.all \in BOOLEAN /\ h.round.settled \in BOOLEAN
                                /\ h.round.giving \in SUBSET Lease
           /\ Page!Held(h) \in SUBSET Lease
<1>1. h.round = None \/ h.round \in Page!Rounds
  BY DEF Page!Runs
<1>2. h.round # None => /\ h.round.asked \in SUBSET Camera /\ h.round.got \in SUBSET Lease
                        /\ h.round.all \in BOOLEAN /\ h.round.settled \in BOOLEAN
                        /\ h.round.giving \in SUBSET Lease
  BY <1>1 DEF Page!Rounds
<1>3. h.ids \in SUBSET Lease /\ h.giving \in SUBSET Lease
  BY DEF Page!Runs
<1>4. Page!Held(h) \in SUBSET Lease
  BY <1>2, <1>3 DEF Page!Held
<1> QED
  BY <1>1, <1>2, <1>3, <1>4 DEF Page!Runs

\* A round that is answered leaves the run sound, with the leases it held.
LEMMA RunSettled ==
    ASSUME NEW h \in Page!Runs, NEW ls, NEW visible \in BOOLEAN, Page!RunSound(ls, visible, h)
    PROVE  /\ Page!Settled(h, visible) \in Page!Runs
           /\ Page!RunSound(ls, visible, Page!Settled(h, visible))
           /\ Same(h, Page!Settled(h, visible))
<1> DEFINE g == Page!Settled(h, visible)
<1>c. None \notin Page!Rounds
  BY WatchConstants
<1>1. CASE h.round = None \/ h.round.settled \/ h.round.asked # {}
  <2>1. g = h
    BY <1>1 DEF Page!Settled
  <2> QED
    BY <2>1 DEF Same
<1>2. CASE h.round # None /\ ~h.round.settled /\ h.round.asked = {} /\ (h.closed \/ ~visible)
  <2> DEFINE r == [asked |-> {}, got |-> {}, all |-> h.round.all, settled |-> TRUE, giving |-> h.round.got]
  <2>1. r \in Page!Rounds
    BY <1>2, RunFields DEF Page!Rounds
  <2>2. g = [h EXCEPT !.round = r]
    <3>1. g = [h EXCEPT !.round.settled = TRUE, !.round.giving = h.round.got, !.round.got = {}]
      BY <1>2 DEF Page!Settled
    <3>2. h.round \in Page!Rounds
      BY <1>2, RunFields
    <3> QED
      BY <1>2, <3>1, <3>2 DEF Page!Runs, Page!Rounds
  <2>3. g \in Page!Runs
    BY <2>1, <2>2 DEF Page!Runs
  <2>4. g.round = r /\ g.closed = h.closed /\ g.key = h.key /\ g.deleting = h.deleting /\ g.awaited = h.awaited
        /\ g.ids = h.ids /\ g.giving = h.giving /\ g.sure = h.sure
    BY <2>2 DEF Page!Runs
  <2>5. r # None /\ r.asked = {} /\ r.got = {} /\ r.settled = TRUE /\ r.giving = h.round.got
    BY <2>1, <1>c
  <2>6. h.round.giving = {} /\ h.ids \cap h.round.got = {} /\ ~h.deleting
    BY <1>2 DEF Page!RunSound
  <2>7. Page!Held(g) = Page!Held(h)
    <3> HIDE DEF g, r
    <3> QED
      BY <1>2, <2>4, <2>5, <2>6 DEF Page!Held
  <2>8. Page!RunSound(ls, visible, g)
    <3> HIDE DEF g, r
    <3>1. ~h.closed => ~h.sure
      BY <1>2 DEF Page!RunSound
    <3>2. ~h.closed => h.giving = {}
      BY DEF Page!RunSound
    <3> QED
      BY <2>4, <2>5, <2>6, <3>1, <3>2 DEF Page!RunSound
  <2> QED
    BY <2>3, <2>4, <2>7, <2>8 DEF Same
<1>3. CASE h.round # None /\ ~h.round.settled /\ h.round.asked = {} /\ ~h.closed /\ visible
  <2> DEFINE r == [asked |-> {}, got |-> {}, all |-> h.round.all, settled |-> TRUE, giving |-> h.ids]
  <2>1. r \in Page!Rounds
    BY <1>3, RunFields DEF Page!Rounds
  <2>2. g = [h EXCEPT !.ids = h.round.got, !.sure = h.round.all, !.round = r]
    <3>1. g = [h EXCEPT !.ids = h.round.got, !.sure = h.round.all, !.round.got = {},
                        !.round.settled = TRUE, !.round.giving = h.ids]
      BY <1>3 DEF Page!Settled
    <3>2. h.round \in Page!Rounds
      BY <1>3, RunFields
    <3> QED
      BY <1>3, <3>1, <3>2 DEF Page!Runs, Page!Rounds
  <2>3. g \in Page!Runs
    BY <1>3, <2>1, <2>2, RunFields DEF Page!Runs
  <2>4. g.round = r /\ g.closed = h.closed /\ g.key = h.key /\ g.deleting = h.deleting /\ g.awaited = h.awaited
        /\ g.ids = h.round.got /\ g.giving = h.giving /\ g.sure = h.round.all
    BY <2>2 DEF Page!Runs
  <2>5. r # None /\ r.asked = {} /\ r.got = {} /\ r.settled = TRUE /\ r.giving = h.ids /\ r.all = h.round.all
    BY <2>1, <1>c
  <2>6. h.round.giving = {} /\ h.ids \cap h.round.got = {} /\ h.giving = {}
    BY <1>3 DEF Page!RunSound
  <2>7. Page!Held(g) = Page!Held(h)
    <3> HIDE DEF g, r
    <3> QED
      BY <1>3, <2>4, <2>5, <2>6 DEF Page!Held
  <2>8. h.round.all => ~h.deleting /\ \A s \in h.key : \E l \in h.round.got : Page!Protects(ls, l, s, Life)
    BY <1>3 DEF Page!RunSound
  <2>9. Page!RunSound(ls, visible, g)
    <3> HIDE DEF g, r
    <3> QED
      BY <1>3, <2>4, <2>5, <2>6, <2>8 DEF Page!RunSound
  <2> QED
    BY <2>3, <2>4, <2>7, <2>9 DEF Same
<1> QED
  BY <1>1, <1>2, <1>3, RunFields

\* So does the end of a round.
LEMMA RunEnded ==
    ASSUME NEW h \in Page!Runs, NEW ls, NEW visible \in BOOLEAN, Page!RunSound(ls, visible, h)
    PROVE  /\ Page!RoundEnded(h) \in Page!Runs
           /\ Page!RunSound(ls, visible, Page!RoundEnded(h))
           /\ Same(h, Page!RoundEnded(h))
<1> DEFINE g == Page!RoundEnded(h)
<1>1. CASE h.round # None /\ h.round.settled /\ h.round.giving = {}
  <2>1. g = [h EXCEPT !.round = None]
    BY <1>1 DEF Page!RoundEnded
  <2>2. g \in Page!Runs
    BY <2>1 DEF Page!Runs
  <2>3. g.round = None /\ g.closed = h.closed /\ g.key = h.key /\ g.deleting = h.deleting /\ g.awaited = h.awaited
        /\ g.ids = h.ids /\ g.giving = h.giving /\ g.sure = h.sure
    BY <2>1 DEF Page!Runs
  <2>4. h.round.got = {}
    BY <1>1 DEF Page!RunSound
  <2>5. Page!Held(g) = Page!Held(h)
    <3> HIDE DEF g
    <3> QED
      BY <1>1, <2>3, <2>4 DEF Page!Held
  <2>6. Page!RunSound(ls, visible, g)
    <3> HIDE DEF g
    <3>1. ~h.closed => h.giving = {}
      BY DEF Page!RunSound
    <3>2. ~h.closed /\ h.sure =>
            visible /\ ~h.deleting /\ \A s \in h.key : \E l \in h.ids : Page!Protects(ls, l, s, Life)
      BY <1>1 DEF Page!RunSound
    <3> QED
      BY <2>3, <3>1, <3>2 DEF Page!RunSound
  <2> QED
    BY <2>2, <2>3, <2>5, <2>6 DEF Same
<1>2. CASE ~(h.round # None /\ h.round.settled /\ h.round.giving = {})
  <2>1. g = h
    BY <1>2 DEF Page!RoundEnded
  <2> QED
    BY <2>1 DEF Same
<1> QED
  BY <1>1, <1>2

\* So does a stop, when no round is on its way.
LEMMA RunStopped ==
    ASSUME NEW h \in Page!Runs, NEW ls, NEW visible \in BOOLEAN, Page!RunSound(ls, visible, h)
    PROVE  /\ Page!Stopped(h) \in Page!Runs
           /\ Page!RunSound(ls, visible, Page!Stopped(h))
           /\ Same(h, Page!Stopped(h))
<1> DEFINE g == Page!Stopped(h)
<1>1. CASE h.closed /\ h.round = None
  <2>1. g = [h EXCEPT !.giving = @ \cup h.ids, !.ids = {}]
    BY <1>1 DEF Page!Stopped
  <2>2. g \in Page!Runs
    BY <2>1 DEF Page!Runs
  <2>3. g.round = None /\ g.closed = h.closed /\ g.key = h.key /\ g.deleting = h.deleting /\ g.awaited = h.awaited
        /\ g.ids = {} /\ g.giving = h.giving \cup h.ids
    BY <1>1, <2>1 DEF Page!Runs
  <2>4. Page!Held(g) = Page!Held(h)
    <3> HIDE DEF g
    <3> QED
      BY <1>1, <2>3 DEF Page!Held
  <2>5. Page!RunSound(ls, visible, g)
    <3> HIDE DEF g
    <3> QED
      BY <1>1, <2>3 DEF Page!RunSound
  <2> QED
    BY <2>2, <2>3, <2>4, <2>5 DEF Same
<1>2. CASE ~(h.closed /\ h.round = None)
  <2>1. g = h
    BY <1>2 DEF Page!Stopped
  <2> QED
    BY <2>1 DEF Same
<1> QED
  BY <1>1, <1>2

\* And so do all three, one after the other.
LEMMA RunAdvances ==
    ASSUME NEW h \in Page!Runs, NEW ls, NEW visible \in BOOLEAN, Page!RunSound(ls, visible, h)
    PROVE  /\ Page!Advance(h, visible) \in Page!Runs
           /\ Page!RunSound(ls, visible, Page!Advance(h, visible))
           /\ Same(h, Page!Advance(h, visible))
<1> DEFINE f == Page!Settled(h, visible)
           g == Page!RoundEnded(f)
<1>1. f \in Page!Runs /\ Page!RunSound(ls, visible, f) /\ Same(h, f)
  BY RunSettled
<1>2. g \in Page!Runs /\ Page!RunSound(ls, visible, g) /\ Same(f, g)
  <2> HIDE DEF f
  <2> QED
    BY <1>1, RunEnded
<1>3. /\ Page!Stopped(g) \in Page!Runs /\ Page!RunSound(ls, visible, Page!Stopped(g))
      /\ Same(g, Page!Stopped(g))
  <2> HIDE DEF g
  <2> QED
    BY <1>2, RunStopped
<1>4. Page!Advance(h, visible) = Page!Stopped(g)
  BY DEF Page!Advance
<1> HIDE DEF f, g
<1> QED
  BY <1>1, <1>2, <1>3, <1>4 DEF Same

\* A stopped run is closed and holds what it held; the deletion may wait for it.
LEMMA RunCloses ==
    ASSUME NEW h \in Page!Runs, NEW ls, NEW visible \in BOOLEAN, Page!RunSound(ls, visible, h)
    PROVE  LET g == Page!Close(h)
           IN  /\ g \in Page!Runs /\ Page!RunSound(ls, visible, g)
               /\ g.closed /\ g.awaited = h.awaited /\ Page!Held(g) = Page!Held(h)
<1> DEFINE f == [h EXCEPT !.closed = TRUE]
<1>1. f \in Page!Runs
  BY DEF Page!Runs
<1>2. f.closed = TRUE /\ f.round = h.round /\ f.ids = h.ids /\ f.giving = h.giving /\ f.awaited = h.awaited
      /\ f.deleting = h.deleting
  BY DEF Page!Runs
<1>3. Page!Held(f) = Page!Held(h) /\ Page!RunSound(ls, visible, f)
  <2> HIDE DEF f
  <2> QED
    BY <1>2 DEF Page!Held, Page!RunSound
<1>4. /\ Page!Stopped(f) \in Page!Runs /\ Page!RunSound(ls, visible, Page!Stopped(f))
      /\ Same(f, Page!Stopped(f))
  <2> HIDE DEF f
  <2> QED
    BY <1>1, <1>3, RunStopped
<1>5. Page!Close(h) = Page!Stopped(f)
  BY DEF Page!Close
<1> HIDE DEF f
<1> QED
  BY <1>2, <1>3, <1>4, <1>5 DEF Same

\* A deletion waits for the run.
LEMMA RunAwaited ==
    ASSUME NEW h \in Page!Runs, NEW ls, NEW visible, Page!RunSound(ls, visible, h)
    PROVE  LET g == [h EXCEPT !.awaited = TRUE]
           IN  g \in Page!Runs /\ Page!RunSound(ls, visible, g) /\ Page!Held(g) = Page!Held(h)
<1> DEFINE g == [h EXCEPT !.awaited = TRUE]
<1>1. g \in Page!Runs
  BY DEF Page!Runs
<1>2. g.closed = h.closed /\ g.round = h.round /\ g.ids = h.ids /\ g.giving = h.giving
      /\ g.deleting = h.deleting /\ g.sure = h.sure /\ g.key = h.key
  BY DEF Page!Runs
<1>3. Page!Held(g) = Page!Held(h) /\ Page!RunSound(ls, visible, g)
  <2> HIDE DEF g
  <2> QED
    BY <1>2 DEF Page!Held, Page!RunSound
<1> QED
  BY <1>1, <1>3

\* A new round asks for all segments, and renews the leases of the last one
\* after a period of their time.
Older(ls, ks) == \A l \in DOMAIN ls, s \in Camera :
    Page!Protects(ls, l, s, Life) => Page!Protects(ks, l, s, Life - 1)

\* The round leaves an old lease with one period less.
LEMMA RunRenewed ==
    ASSUME NEW h \in Page!Runs, NEW ls, NEW ks, NEW visible \in BOOLEAN,
           h.round = None, Page!RunSound(ls, visible, h), Older(ls, ks)
    PROVE  LET g == Page!Renewed(h, visible)
           IN  g \in Page!Runs /\ Page!RunSound(ks, visible, g) /\ Same(h, g)
<1> DEFINE g == Page!Renewed(h, visible)
<1>c. None \notin Page!Rounds
  BY WatchConstants
<1>1. CASE h.closed \/ h.deleting \/ h.key = {} \/ ~visible
  <2>1. g = h
    BY <1>1 DEF Page!Renewed
  <2>2. Page!RunSound(ks, visible, h)
    BY <1>1, RunFields DEF Page!RunSound
  <2> QED
    BY <2>1, <2>2 DEF Same
<1>2. CASE ~(h.closed \/ h.deleting \/ h.key = {} \/ ~visible)
  <2> DEFINE r == [asked |-> h.key, got |-> {}, all |-> TRUE, settled |-> FALSE, giving |-> {}]
  <2>1. g = [h EXCEPT !.round = r]
    BY <1>2 DEF Page!Renewed
  <2>2. r \in Page!Rounds
    BY RunFields DEF Page!Rounds
  <2>3. g \in Page!Runs
    BY <2>1, <2>2 DEF Page!Runs
  <2>4. g.round = r /\ g.closed = h.closed /\ g.key = h.key /\ g.deleting = h.deleting /\ g.awaited = h.awaited
        /\ g.ids = h.ids /\ g.giving = h.giving /\ g.sure = h.sure
    BY <2>1 DEF Page!Runs
  <2>5. r # None /\ r.asked = h.key /\ r.got = {} /\ r.settled = FALSE /\ r.giving = {}
    BY <2>2, <1>c
  <2>6. h.giving = {} /\ (h.sure => \A s \in h.key : \E l \in h.ids : Page!Protects(ls, l, s, Life))
    BY <1>2 DEF Page!RunSound
  <2>7. h.sure => \A s \in h.key : \E l \in h.ids : Page!Protects(ks, l, s, Life - 1)
    <3> SUFFICES ASSUME h.sure, NEW s \in h.key PROVE \E l \in h.ids : Page!Protects(ks, l, s, Life - 1)
      OBVIOUS
    <3>1. PICK l \in h.ids : Page!Protects(ls, l, s, Life)
      BY <2>6
    <3>2. l \in DOMAIN ls /\ s \in Camera
      BY <3>1, RunFields DEF Page!Protects
    <3> QED
      BY <3>1, <3>2 DEF Older
  <2>8. Page!Held(g) = Page!Held(h)
    <3> HIDE DEF g, r
    <3> QED
      BY <2>4, <2>5 DEF Page!Held
  <2>9. Page!RunSound(ks, visible, g)
    <3> HIDE DEF g, r
    <3> QED
      BY <1>2, <2>4, <2>5, <2>6, <2>7 DEF Page!RunSound
  <2> QED
    BY <2>3, <2>4, <2>8, <2>9 DEF Same
<1> QED
  BY <1>1, <1>2

\* A new run holds nothing, and asks for the segments under the cursor.
LEMMA RunBegins ==
    ASSUME NEW key \in SUBSET Camera, NEW deleting \in BOOLEAN, NEW visible \in BOOLEAN, NEW ls
    PROVE  LET g == Page!Renewed(Page!NewHolder(key, deleting), visible)
           IN  /\ g \in Page!Runs /\ Page!RunSound(ls, visible, g) /\ Page!Held(g) = {}
               /\ ~g.closed /\ g.key = key /\ g.deleting = deleting /\ ~g.awaited
<1> DEFINE h == Page!NewHolder(key, deleting)
           g == Page!Renewed(h, visible)
<1>1. h \in Page!Runs
  BY DEF Page!NewHolder, Page!Runs
<1>2. h.round = None /\ h.closed = FALSE /\ h.key = key /\ h.deleting = deleting /\ h.awaited = FALSE
      /\ h.ids = {} /\ h.giving = {} /\ h.sure = FALSE
  BY DEF Page!NewHolder
<1>3. Page!Held(h) = {}
  <2> HIDE DEF h
  <2> QED
    BY <1>2 DEF Page!Held
<1>4. Page!RunSound([l \in {} |-> None], visible, h)
  <2> HIDE DEF h
  <2> QED
    BY <1>2 DEF Page!RunSound
<1>5. Older([l \in {} |-> None], ls)
  BY DEF Older
<1>6. g \in Page!Runs /\ Page!RunSound(ls, visible, g) /\ Same(h, g)
  <2> HIDE DEF h
  <2> QED
    BY <1>1, <1>2, <1>4, <1>5, RunRenewed
<1> HIDE DEF h, g
<1> QED
  BY <1>2, <1>3, <1>6 DEF Same, h, g

-----------------------------------------------------------------------------
(* The timeline page: its runs together.                                   *)

\* Nothing that was held is forgotten, and who is waited for stays known.
HeldOn(hs, gs) ==
    /\ Len(gs) >= Len(hs)
    /\ \A i \in 1..Len(hs) : /\ Page!Held(gs[i]) = Page!Held(hs[i])
                             /\ gs[i].awaited = hs[i].awaited
                             /\ hs[i].closed => gs[i].closed
                             /\ i < Len(hs) => gs[i] = hs[i]
    /\ \A i \in 1..Len(gs) : i > Len(hs) => Page!Held(gs[i]) = {} /\ ~gs[i].awaited

RunsSound(ls, visible, hs) ==
    hs \in Seq(Page!Runs) /\ hs # <<>> /\ \A i \in 1..Len(hs) : Page!RunSound(ls, visible, hs[i])

\* A render: the effect runs anew if the page shows something else.
LEMMA EffectsRun ==
    ASSUME NEW hs, NEW ls, NEW p, p.on \in BOOLEAN, p.visible \in BOOLEAN, p.deleting \in BOOLEAN,
           Page!Key(p) \in SUBSET Camera, RunsSound(ls, p.visible, hs), Page!Disjoint(hs),
           \A i \in 1..Len(hs) : i < Len(hs) => hs[i].closed,
           p.on /\ hs[Len(hs)].key = Page!Key(p) /\ hs[Len(hs)].deleting = p.deleting
             => ~hs[Len(hs)].closed
    PROVE  LET gs == Page!Effects(hs, p)
           IN  /\ RunsSound(ls, p.visible, gs) /\ Page!Disjoint(gs)
               /\ Page!NewestOpen(p, gs) /\ HeldOn(hs, gs)
<1> DEFINE gs == Page!Effects(hs, p)
           n == Len(hs)
<1>1. hs \in Seq(Page!Runs) /\ n \in Nat /\ n >= 1 /\ \A i \in 1..n : hs[i] \in Page!Runs
  BY DEF RunsSound
<1>2. \A i \in 1..n : Page!RunSound(ls, p.visible, hs[i])
  BY DEF RunsSound
<1> DEFINE c == Page!Close(hs[n])
           r == Page!Renewed(Page!NewHolder(Page!Key(p), p.deleting), p.visible)
<1>3. /\ c \in Page!Runs /\ Page!RunSound(ls, p.visible, c)
      /\ c.closed /\ c.awaited = hs[n].awaited /\ Page!Held(c) = Page!Held(hs[n])
  <2>1. hs[n] \in Page!Runs /\ Page!RunSound(ls, p.visible, hs[n])
    BY <1>1, <1>2
  <2> HIDE DEF n
  <2> QED
    BY <2>1, RunCloses
<1>4. /\ r \in Page!Runs /\ Page!RunSound(ls, p.visible, r) /\ Page!Held(r) = {}
      /\ ~r.closed /\ r.key = Page!Key(p) /\ r.deleting = p.deleting /\ ~r.awaited
  BY RunBegins
<1>5. CASE ~p.on
  <2>1. gs = [hs EXCEPT ![n] = c]
    BY <1>5 DEF Page!Effects
  <2> HIDE DEF gs, c
  <2>2. gs \in Seq(Page!Runs) /\ Len(gs) = n /\ gs[n] = c /\ \A i \in 1..n : i # n => gs[i] = hs[i]
    BY <1>1, <1>3, <2>1
  <2>3. RunsSound(ls, p.visible, gs)
    BY <1>1, <1>2, <1>3, <2>2 DEF RunsSound
  <2>4. HeldOn(hs, gs)
    BY <1>1, <1>3, <2>2 DEF HeldOn
  <2>5. Page!Disjoint(gs)
    BY <1>1, <1>3, <2>2 DEF Page!Disjoint
  <2>6. Page!NewestOpen(p, gs)
    BY <1>1, <1>3, <1>5, <2>2 DEF Page!NewestOpen
  <2> QED
    BY <2>3, <2>4, <2>5, <2>6 DEF gs
<1>6. CASE p.on /\ hs[n].key = Page!Key(p) /\ hs[n].deleting = p.deleting
  <2>1. gs = hs
    BY <1>6 DEF Page!Effects
  <2>2. HeldOn(hs, hs)
    BY <1>1 DEF HeldOn
  <2>3. Page!NewestOpen(p, hs)
    BY <1>1, <1>6 DEF Page!NewestOpen
  <2> QED
    BY <2>1, <2>2, <2>3
<1>7. CASE p.on /\ ~(hs[n].key = Page!Key(p) /\ hs[n].deleting = p.deleting)
  <2>1. gs = Append([hs EXCEPT ![n] = c], r)
    BY <1>7 DEF Page!Effects
  <2> HIDE DEF gs, c, r
  <2> DEFINE cs == [hs EXCEPT ![n] = c]
  <2>2. cs \in Seq(Page!Runs) /\ Len(cs) = n /\ cs[n] = c /\ \A i \in 1..n : i # n => cs[i] = hs[i]
    BY <1>1, <1>3
  <2>3. /\ gs \in Seq(Page!Runs) /\ Len(gs) = n + 1 /\ gs[n + 1] = r /\ gs[n] = c
        /\ \A i \in 1..n : i # n => gs[i] = hs[i]
    <3> HIDE DEF cs
    <3>1. gs = Append(cs, r)
      BY <2>1 DEF cs
    <3>2. \A i \in 1..n : gs[i] = cs[i]
      BY <1>1, <1>4, <2>2, <3>1
    <3>3. gs \in Seq(Page!Runs) /\ Len(gs) = n + 1 /\ gs[n + 1] = r
      BY <1>1, <1>4, <2>2, <3>1
    <3>4. n \in 1..n
      BY <1>1
    <3> QED
      BY <2>2, <3>2, <3>3, <3>4
  <2> HIDE DEF cs, n
  <2>4. RunsSound(ls, p.visible, gs)
    BY <1>1, <1>2, <1>3, <1>4, <2>3 DEF RunsSound
  <2>5. HeldOn(hs, gs)
    <3>1. n \in Nat /\ n = Len(hs) /\ n >= 1
      BY <1>1 DEF n
    <3>2. \A i \in 1..n : i # n => gs[i] = hs[i]
      BY <2>3
    <3>3. \A i \in 1..(n + 1) : i > n => i = n + 1
      BY <3>1
    <3>4. \A i \in 1..n : /\ Page!Held(gs[i]) = Page!Held(hs[i]) /\ gs[i].awaited = hs[i].awaited
                          /\ hs[i].closed => gs[i].closed
                          /\ i < n => gs[i] = hs[i]
      BY <1>3, <2>3, <3>1, <3>2
    <3>5. \A i \in 1..(n + 1) : i > n => Page!Held(gs[i]) = {} /\ ~gs[i].awaited
      BY <1>4, <2>3, <3>3
    <3>6. Len(gs) = n + 1 /\ n + 1 >= n
      BY <2>3, <3>1
    <3> QED
      BY <3>1, <3>4, <3>5, <3>6 DEF HeldOn
  <2>6. Page!Disjoint(gs)
    <3>1. n \in Nat /\ n = Len(hs) /\ n >= 1
      BY <1>1 DEF n
    <3>2. SUFFICES ASSUME NEW i \in 1..Len(gs), NEW j \in 1..Len(gs), i # j
                   PROVE  Page!Held(gs[i]) \cap Page!Held(gs[j]) = {}
      BY DEF Page!Disjoint
    <3>3. CASE i > n \/ j > n
      BY <2>5, <3>1, <3>3 DEF HeldOn
    <3>4. CASE i \in 1..n /\ j \in 1..n
      BY <2>5, <3>1, <3>2, <3>4 DEF HeldOn, Page!Disjoint
    <3> QED
      BY <2>3, <3>1, <3>3, <3>4
  <2>7. Page!NewestOpen(p, gs)
    BY <1>1, <1>3, <1>4, <1>7, <2>3 DEF Page!NewestOpen, n
  <2> QED
    BY <2>4, <2>5, <2>6, <2>7 DEF gs
<1> QED
  BY <1>5, <1>6, <1>7

\* One run goes on as h, of the same segments; the leases are ks.
MovesOn(hs, ks, visible, i, h) ==
    /\ hs \in Seq(Page!Runs) /\ hs # <<>> /\ visible \in BOOLEAN /\ Page!Disjoint(hs)
    /\ i \in 1..Len(hs) /\ h \in Page!Runs /\ Page!RunSound(ks, visible, h)
    /\ h.closed = hs[i].closed /\ h.key = hs[i].key /\ h.deleting = hs[i].deleting
    /\ h.awaited = hs[i].awaited
    /\ \A j \in 1..Len(hs) : j # i => /\ Page!RunSound(ks, visible, hs[j])
                                      /\ Page!Held(h) \cap Page!Held(hs[j]) = {}
MovedOn(hs, ks, visible, i, h, gs) ==
    /\ RunsSound(ks, visible, gs) /\ Page!Disjoint(gs) /\ Len(gs) = Len(hs)
    /\ \A j \in 1..Len(hs) : j # i => gs[j] = hs[j]
    /\ Page!Held(gs[i]) = Page!Held(h)
    /\ \A j \in 1..Len(hs) : /\ gs[j].closed = hs[j].closed /\ gs[j].key = hs[j].key
                             /\ gs[j].deleting = hs[j].deleting /\ gs[j].awaited = hs[j].awaited

\* The runs remain sound and disjoint.
LEMMA HolderStep ==
    ASSUME NEW hs, NEW ks, NEW visible, NEW i, NEW h, MovesOn(hs, ks, visible, i, h)
    PROVE  MovedOn(hs, ks, visible, i, h, [hs EXCEPT ![i] = Page!Advance(h, visible)])
<1> DEFINE a == Page!Advance(h, visible)
           gs == [hs EXCEPT ![i] = a]
<1> USE DEF MovesOn
<1>1. a \in Page!Runs /\ Page!RunSound(ks, visible, a) /\ Same(h, a)
  BY RunAdvances
<1> HIDE DEF a
<1>2. /\ gs \in Seq(Page!Runs) /\ Len(gs) = Len(hs) /\ gs[i] = a /\ gs # <<>>
      /\ \A j \in 1..Len(hs) : j # i => gs[j] = hs[j]
  BY <1>1
<1> HIDE DEF gs
<1>3. RunsSound(ks, visible, gs)
  BY <1>1, <1>2 DEF RunsSound
<1>4. Page!Disjoint(gs)
  BY <1>1, <1>2 DEF Page!Disjoint, Same
<1>5. MovedOn(hs, ks, visible, i, h, gs)
  BY <1>1, <1>2, <1>3, <1>4 DEF Same, MovedOn
<1> QED
  BY <1>5 DEF a, gs

\* What a run relies on: its leases while it is open.
Live(h) == h.ids \cup (IF h.round = None THEN {} ELSE h.round.got)

\* A run stays sound while the leases it relies on do.
LEMMA SoundOver ==
    ASSUME NEW h \in Page!Runs, NEW ls, NEW ks, NEW visible, Page!RunSound(ls, visible, h),
           h.closed \/ \A l \in Live(h) : l \in DOMAIN ls => l \in DOMAIN ks /\ ks[l] = ls[l]
    PROVE  Page!RunSound(ks, visible, h)
<1>1. CASE h.closed
  BY <1>1 DEF Page!RunSound
<1>2. CASE ~h.closed
  <2>1. \A l \in Live(h) : \A s, n : Page!Protects(ls, l, s, n) => Page!Protects(ks, l, s, n)
    BY <1>2 DEF Page!Protects
  <2>2. h.ids \subseteq Live(h) /\ (h.round # None => h.round.got \subseteq Live(h))
    BY DEF Live
  <2>3. (h.round # None /\ ~h.round.settled /\ h.round.all) =>
          \A s \in h.key : s \in h.round.asked \/ \E l \in h.round.got : Page!Protects(ks, l, s, Life)
    BY <1>2, <2>1, <2>2 DEF Page!RunSound
  <2>4. h.sure => /\ visible /\ ~h.deleting
                  /\ \A s \in h.key : \E l \in h.ids :
                       Page!Protects(ks, l, s, IF h.round = None \/ h.round.settled THEN Life ELSE Life - 1)
    BY <1>2, <2>1, <2>2 DEF Page!RunSound
  <2> QED
    BY <2>3, <2>4 DEF Page!RunSound
<1> QED
  BY <1>1, <1>2

\* A lease l is given to the run g for the segment s it asked for: g becomes h.
Gets(g, ls, visible, s, l, ks, h) ==
    /\ g \in Page!Runs /\ Page!RunSound(ls, visible, g) /\ g.round # None /\ s \in g.round.asked
    /\ l \in Lease /\ l \notin DOMAIN ls /\ l \notin Page!Held(g)
    /\ DOMAIN ks = DOMAIN ls \cup {l} /\ ks[l] = [segment |-> s, left |-> Life]
    /\ \A k \in DOMAIN ls : ks[k] = ls[k]
    /\ h = [g EXCEPT !.round.asked = @ \ {s}, !.round.got = @ \cup {l}]

\* The run then holds that lease too.
LEMMA RunGets ==
    ASSUME NEW g, NEW ls, NEW visible, NEW s, NEW l, NEW ks, NEW h,
           Gets(g, ls, visible, s, l, ks, h)
    PROVE  /\ h \in Page!Runs /\ Page!RunSound(ks, visible, h)
           /\ Page!Held(h) = Page!Held(g) \cup {l}
           /\ h.closed = g.closed /\ h.key = g.key /\ h.deleting = g.deleting /\ h.awaited = g.awaited
<1> USE DEF Gets
<1> DEFINE r == [g.round EXCEPT !.asked = @ \ {s}, !.got = @ \cup {l}]
<1>c. None \notin Page!Rounds /\ Life \in Nat /\ Life > 1
  BY WatchConstants
<1>1. g.round \in Page!Rounds
  BY RunFields
<1>2. r \in Page!Rounds
  BY <1>1 DEF Page!Rounds
<1>3. h = [g EXCEPT !.round = r]
  <2> DEFINE f == [g EXCEPT !.round.asked = @ \ {s}]
             q == [g.round EXCEPT !.asked = @ \ {s}]
  <2>1. f.round = q /\ f = [g EXCEPT !.round = q] /\ q \in Page!Rounds
    BY <1>1 DEF Page!Runs, Page!Rounds
  <2>2. h = [f EXCEPT !.round.got = @ \cup {l}]
    OBVIOUS
  <2>3. h = [g EXCEPT !.round = [q EXCEPT !.got = @ \cup {l}]]
    <3> HIDE DEF q, f
    <3> QED
      BY <2>1, <2>2 DEF Page!Runs, Page!Rounds
  <2>4. [q EXCEPT !.got = @ \cup {l}] = r
    OBVIOUS
  <2> QED
    BY <2>3, <2>4
<1>4. h \in Page!Runs
  BY <1>2, <1>3 DEF Page!Runs
<1>5. h.round = r /\ h.closed = g.closed /\ h.key = g.key /\ h.deleting = g.deleting /\ h.awaited = g.awaited
      /\ h.ids = g.ids /\ h.giving = g.giving /\ h.sure = g.sure
  BY <1>3 DEF Page!Runs
<1>6. r # None /\ r.asked = g.round.asked \ {s} /\ r.got = g.round.got \cup {l} /\ r.all = g.round.all
      /\ r.settled = g.round.settled /\ r.giving = g.round.giving
  BY <1>1, <1>2, <1>c DEF Page!Rounds
<1> HIDE DEF r
<1>7. Page!Held(h) = Page!Held(g) \cup {l}
  BY <1>5, <1>6 DEF Page!Held
<1>8. ~g.round.settled /\ l \notin g.ids /\ ~g.deleting
  BY DEF Page!RunSound, Page!Held
<1>9. Page!RunSound(ks, visible, g)
  BY SoundOver
<1>10. Page!Protects(ks, l, s, Life)
  BY <1>c DEF Page!Protects
<1>11. ~g.closed /\ g.round.all =>
         \A t \in g.key : t \in r.asked \/ \E k \in r.got : Page!Protects(ks, k, t, Life)
  BY <1>6, <1>8, <1>9, <1>10 DEF Page!RunSound
<1>12. Page!RunSound(ks, visible, h)
  BY <1>5, <1>6, <1>8, <1>9, <1>11 DEF Page!RunSound
<1> QED
  BY <1>4, <1>5, <1>7, <1>12

\* A lease is refused, or nothing is heard of it.
LEMMA RunMisses ==
    ASSUME NEW g \in Page!Runs, NEW ls, NEW visible, Page!RunSound(ls, visible, g),
           g.round # None, NEW s \in g.round.asked
    PROVE  LET h == [g EXCEPT !.round.asked = @ \ {s}, !.round.all = FALSE]
           IN  /\ h \in Page!Runs /\ Page!RunSound(ls, visible, h) /\ Same(g, h)
<1> DEFINE h == [g EXCEPT !.round.asked = @ \ {s}, !.round.all = FALSE]
           r == [g.round EXCEPT !.asked = @ \ {s}, !.all = FALSE]
<1>c. None \notin Page!Rounds
  BY WatchConstants
<1>1. g.round \in Page!Rounds
  BY RunFields
<1>2. r \in Page!Rounds
  BY <1>1 DEF Page!Rounds
<1>3. h = [g EXCEPT !.round = r]
  <2> DEFINE f == [g EXCEPT !.round.asked = @ \ {s}]
             q == [g.round EXCEPT !.asked = @ \ {s}]
  <2>1. f.round = q /\ f = [g EXCEPT !.round = q] /\ q \in Page!Rounds
    BY <1>1 DEF Page!Runs, Page!Rounds
  <2>2. h = [f EXCEPT !.round.all = FALSE]
    OBVIOUS
  <2>3. h = [g EXCEPT !.round = [q EXCEPT !.all = FALSE]]
    <3> HIDE DEF q, h, f
    <3> QED
      BY <2>1, <2>2 DEF Page!Runs, Page!Rounds
  <2>4. [q EXCEPT !.all = FALSE] = r
    OBVIOUS
  <2> QED
    BY <2>3, <2>4
<1>4. h \in Page!Runs
  BY <1>2, <1>3 DEF Page!Runs
<1>5. h.round = r /\ h.closed = g.closed /\ h.key = g.key /\ h.deleting = g.deleting /\ h.awaited = g.awaited
      /\ h.ids = g.ids /\ h.giving = g.giving /\ h.sure = g.sure
  BY <1>3 DEF Page!Runs
<1>6. r # None /\ r.asked = g.round.asked \ {s} /\ r.got = g.round.got /\ r.all = FALSE
      /\ r.settled = g.round.settled /\ r.giving = g.round.giving
  BY <1>1, <1>2, <1>c DEF Page!Rounds
<1> HIDE DEF h, r
<1>7. Page!Held(h) = Page!Held(g)
  BY <1>5, <1>6 DEF Page!Held
<1>8. ~g.round.settled
  BY DEF Page!RunSound
<1>9. Page!RunSound(ls, visible, h)
  BY <1>5, <1>6, <1>8 DEF Page!RunSound
<1> QED
  BY <1>4, <1>5, <1>7, <1>9 DEF h, Same

\* A lease has been given back, or that was lost: an open run does not rely on it.
LEMMA RunGives ==
    ASSUME NEW g \in Page!Runs, NEW ls, NEW visible, Page!RunSound(ls, visible, g),
           NEW l \in Page!Giving(g), NEW ks,
           \A k \in DOMAIN ls : k # l => k \in DOMAIN ks /\ ks[k] = ls[k],
           NEW h, h = IF l \in g.giving THEN [g EXCEPT !.giving = @ \ {l}]
                      ELSE [g EXCEPT !.round.giving = @ \ {l}]
    PROVE  /\ h \in Page!Runs /\ Page!RunSound(ks, visible, h)
           /\ Page!Held(h) \subseteq Page!Held(g) /\ Page!Held(g) \subseteq Page!Held(h) \cup {l}
           /\ h.closed = g.closed /\ h.key = g.key /\ h.deleting = g.deleting /\ h.awaited = g.awaited
<1>c. None \notin Page!Rounds
  BY WatchConstants
<1>1. g.closed \/ l \notin Live(g)
  BY RunFields DEF Page!RunSound, Page!Giving, Live
<1>2. Page!RunSound(ks, visible, g)
  BY <1>1, SoundOver
<1>3. CASE l \in g.giving
  <2>1. h \in Page!Runs
    BY <1>3 DEF Page!Runs
  <2>2. h.round = g.round /\ h.closed = g.closed /\ h.key = g.key /\ h.deleting = g.deleting
        /\ h.awaited = g.awaited /\ h.ids = g.ids /\ h.giving = g.giving \ {l} /\ h.sure = g.sure
    BY <1>3 DEF Page!Runs
  <2>3. Page!Held(h) \subseteq Page!Held(g) /\ Page!Held(g) \subseteq Page!Held(h) \cup {l}
    BY <2>2 DEF Page!Held
  <2>4. Page!RunSound(ks, visible, h)
    BY <1>2, <2>2 DEF Page!RunSound
  <2> QED
    BY <2>1, <2>2, <2>3, <2>4
<1>4. CASE l \notin g.giving
  <2> DEFINE r == [g.round EXCEPT !.giving = @ \ {l}]
  <2>1. g.round # None /\ l \in g.round.giving
    BY <1>4 DEF Page!Giving
  <2>2. g.round \in Page!Rounds
    BY <2>1, RunFields
  <2>3. r \in Page!Rounds
    BY <2>2 DEF Page!Rounds
  <2>4. h = [g EXCEPT !.round = r]
    <3>1. h = [g EXCEPT !.round.giving = @ \ {l}]
      BY <1>4
    <3> QED
      BY <3>1
  <2>5. h \in Page!Runs
    BY <2>3, <2>4 DEF Page!Runs
  <2>6. h.round = r /\ h.closed = g.closed /\ h.key = g.key /\ h.deleting = g.deleting
        /\ h.awaited = g.awaited /\ h.ids = g.ids /\ h.giving = g.giving /\ h.sure = g.sure
    BY <2>4 DEF Page!Runs
  <2>7. r # None /\ r.asked = g.round.asked /\ r.got = g.round.got /\ r.all = g.round.all
        /\ r.settled = g.round.settled /\ r.giving = g.round.giving \ {l}
    BY <2>2, <2>3, <1>c DEF Page!Rounds
  <2> HIDE DEF r
  <2>8. Page!Held(h) \subseteq Page!Held(g) /\ Page!Held(g) \subseteq Page!Held(h) \cup {l}
    BY <2>1, <2>6, <2>7 DEF Page!Held
  <2>9. Page!RunSound(ks, visible, h)
    BY <1>2, <2>1, <2>6, <2>7 DEF Page!RunSound
  <2> QED
    BY <2>5, <2>6, <2>8, <2>9
<1> QED
  BY <1>3, <1>4

-----------------------------------------------------------------------------
(* The timeline page: its steps.                                           *)

\* The parts of the page.
LEMMA ScreenFields ==
    ASSUME NEW p \in Page!Screens
    PROVE  /\ p.on \in BOOLEAN /\ p.visible \in BOOLEAN /\ p.selection \in SUBSET Camera
           /\ p.started \in BOOLEAN /\ p.listing \in BOOLEAN /\ p.result \in Page!Results
           /\ p.query \in Nat /\ p.cursor \in Cursor /\ p.deleting \in BOOLEAN
           /\ p.action \in Page!Actions \cup {None}
           /\ p.result.selection \in SUBSET Camera /\ p.result.query \in Nat
           /\ p.result.loading \in BOOLEAN /\ p.result.document \in SUBSET Camera
           /\ p.action # None => /\ p.action.segment \in Camera
                                 /\ p.action.stage \in {"releasing", "sent"}
                                 /\ p.action.answer \in {None, "gone", "conflict", "deleted"}
           /\ Page!Key(p) \in SUBSET Camera
<1>1. p.result \in Page!Results /\ p.action \in Page!Actions \cup {None}
  BY DEF Page!Screens
<1>2. /\ p.result.selection \in SUBSET Camera /\ p.result.query \in Nat
      /\ p.result.loading \in BOOLEAN /\ p.result.document \in SUBSET Camera
  BY <1>1 DEF Page!Results
<1>3. p.action # None => /\ p.action.segment \in Camera /\ p.action.stage \in {"releasing", "sent"}
                         /\ p.action.answer \in {None, "gone", "conflict", "deleted"}
  BY <1>1 DEF Page!Actions
<1>4. Page!Key(p) \in SUBSET Camera
  BY <1>2 DEF Page!Key, Page!Timeline
<1> QED
  BY <1>1, <1>2, <1>3, <1>4 DEF Page!Screens

\* The runs after a step, however it is described.
LEMMA RunsTogether ==
    ASSUME RunsSound(a_leases, a_page.visible, a_holders), Page!Disjoint(a_holders),
           Page!NewestOpen(a_page, a_holders)
    PROVE  Page!RunsOK
  BY DEF Page!RunsOK, RunsSound

\* The parts of RunsOK.
LEMMA RunsApart ==
    ASSUME Page!RunsOK
    PROVE  /\ RunsSound(a_leases, a_page.visible, a_holders) /\ Page!Disjoint(a_holders)
           /\ Page!NewestOpen(a_page, a_holders)
           /\ a_holders \in Seq(Page!Runs) /\ Len(a_holders) \in Nat /\ Len(a_holders) >= 1
           /\ \A i \in 1..Len(a_holders) :
                a_holders[i] \in Page!Runs /\ Page!RunSound(a_leases, a_page.visible, a_holders[i])
  BY DEF Page!RunsOK, RunsSound

\* What may be said of a step besides the invariant: who deletes asks about
\* leases, and an answer of the deletion is one to a deletion that was sent.
Deletes == \A s \in a_kept \ a_kept' : ~Page!_segment_active(s)
Answers == a_page.action # None /\ a_page'.action # None =>
             a_page'.action.answer = a_page.action.answer \/ a_page.action.stage = "sent"

\* A render leaves the leases held, whatever the page shows.
LEMMA Renders ==
    ASSUME Page!TypeOK, Page!RunsOK, Page!NoForgottenLease, NEW p \in Page!Screens,
           p.visible = a_page.visible, p.on => a_page.on, Page!Render(p),
           UNCHANGED <<a_leases, a_lost>>
    PROVE  /\ Page!RunsOK' /\ Page!NoForgottenLease' /\ a_page' = p
           /\ a_page.on /\ Page!Released => Page!Released'
<1> DEFINE gs == Page!Effects(a_holders, p)
           n == Len(a_holders)
<1>1. a_page' = p /\ a_holders' = gs
  BY DEF Page!Render
<1>2. /\ RunsSound(a_leases, p.visible, a_holders) /\ Page!Disjoint(a_holders)
      /\ Page!NewestOpen(a_page, a_holders) /\ n \in Nat /\ n >= 1
  BY RunsApart
<1>3. /\ p.on \in BOOLEAN /\ p.visible \in BOOLEAN /\ p.deleting \in BOOLEAN
      /\ Page!Key(p) \in SUBSET Camera
  BY ScreenFields
<1>4. \A i \in 1..n : i < n => a_holders[i].closed
  BY <1>2 DEF Page!NewestOpen
<1>5. p.on => ~a_holders[n].closed
  BY <1>2 DEF Page!NewestOpen
<1>6. /\ RunsSound(a_leases, p.visible, gs) /\ Page!Disjoint(gs)
      /\ Page!NewestOpen(p, gs) /\ HeldOn(a_holders, gs)
  <2>1. \A i \in 1..Len(a_holders) : i < Len(a_holders) => a_holders[i].closed
    BY <1>4
  <2>2. p.on /\ a_holders[Len(a_holders)].key = Page!Key(p) /\ a_holders[Len(a_holders)].deleting = p.deleting
          => ~a_holders[Len(a_holders)].closed
    BY <1>5
  <2>3. RunsSound(a_leases, p.visible, a_holders) /\ Page!Disjoint(a_holders)
    BY <1>2
  <2> HIDE DEF n
  <2> QED
    BY <1>3, <2>1, <2>2, <2>3, EffectsRun
<1> HIDE DEF gs
<1>7. Page!RunsOK'
  BY <1>1, <1>6 DEF Page!RunsOK, RunsSound
<1>8. \A i \in 1..n : i \in 1..Len(gs) /\ Page!Held(gs[i]) = Page!Held(a_holders[i])
  <2>1. Len(gs) \in Nat
    BY <1>6 DEF RunsSound
  <2> QED
    BY <1>2, <1>6, <2>1 DEF HeldOn
<1>9. Page!NoForgottenLease'
  BY <1>1, <1>8 DEF Page!NoForgottenLease
<1>10. ASSUME a_page.on, Page!Released PROVE Page!Released'
  <2>1. ~a_holders[n].awaited
    BY <1>2, <1>10 DEF Page!NewestOpen, Page!Released, Page!Finished
  <2>2. ASSUME NEW i \in 1..Len(gs), gs[i].awaited PROVE Page!Finished(gs[i])
    <3>1. i \in 1..n
      BY <1>2, <1>6, <2>2 DEF HeldOn
    <3>2. i # n
      BY <1>6, <2>1, <2>2, <3>1 DEF HeldOn
    <3>3. gs[i] = a_holders[i]
      BY <1>2, <1>6, <3>1, <3>2 DEF HeldOn
    <3> QED
      BY <1>10, <2>2, <3>1, <3>3 DEF Page!Released
  <2> QED
    BY <1>1, <2>2 DEF Page!Released
<1> QED
  BY <1>1, <1>7, <1>9, <1>10

\* A reload: only its query counts, for the selection on the screen.
LEMMA Reloads ==
    ASSUME Page!TypeOK, Page!QueriesOK, Page!RunsOK, Page!NoForgottenLease, NEW p \in Page!Screens,
           p.visible = a_page.visible, p.on => a_page.on, Page!Reload(p),
           UNCHANGED <<a_leases, a_lost>>
    PROVE  /\ Page!RunsOK' /\ Page!NoForgottenLease' /\ Page!QueriesOK'
           /\ a_page.on /\ Page!Released => Page!Released'
           /\ a_page' \in Page!Screens /\ a_queries' \subseteq Page!Queries
           /\ a_page'.on = p.on /\ a_page'.deleting = p.deleting /\ a_page'.action = p.action
           /\ a_page'.listing = p.listing /\ a_page'.query = p.query + 1
<1> DEFINE r == Page!reload(p)
           d == [selection |-> p.selection, query |-> p.query + 1,
                 loading |-> p.selection # {}, document |-> {}]
           m == [number |-> p.query + 1, selection |-> p.selection, live |-> TRUE, document |-> None]
<1>1. r = [p EXCEPT !.query = p.query + 1, !.result = d]
  BY DEF Page!reload
<1>2. d \in Page!Results
  BY ScreenFields DEF Page!Results
<1>3. r \in Page!Screens
  <2>1. p.query \in Nat
    BY ScreenFields
  <2>2. p.query + 1 \in Nat
    BY <2>1
  <2> HIDE DEF d, r
  <2> QED
    BY <1>1, <1>2, <2>2 DEF Page!Screens
<1>4. /\ r.on = p.on /\ r.visible = p.visible /\ r.deleting = p.deleting /\ r.action = p.action
      /\ r.listing = p.listing /\ r.query = p.query + 1 /\ r.result = d
  BY <1>1 DEF Page!Screens
<1>5. a_queries' = Page!Asked(p) /\ Page!Render(r)
  BY DEF Page!Reload
<1> HIDE DEF r
<1>6. /\ Page!RunsOK' /\ Page!NoForgottenLease' /\ a_page' = r
      /\ a_page.on /\ Page!Released => Page!Released'
  BY <1>3, <1>4, <1>5, Renders
<1>7. a_queries \subseteq Page!Queries
  BY DEF Page!TypeOK
<1>8. m \in Page!Queries
  <2>1. p.query \in Nat /\ p.selection \in SUBSET Camera
    BY ScreenFields
  <2> QED
    BY <2>1 DEF Page!Queries
<1>9. ASSUME NEW q \in a_queries'
      PROVE  /\ q \in Page!Queries /\ (q.live => q.number = p.query + 1)
             /\ q.document # None => q.document \subseteq q.selection
  <2>1. CASE \E o \in a_queries : q = [o EXCEPT !.live = FALSE]
    <3> PICK o \in a_queries : q = [o EXCEPT !.live = FALSE]
      BY <2>1
    <3>1. q \in Page!Queries /\ ~q.live /\ q.document = o.document /\ q.selection = o.selection
      BY <1>7 DEF Page!Queries
    <3> QED
      BY <3>1 DEF Page!QueriesOK
  <2>2. CASE q = m
    BY <1>8, <2>2
  <2> QED
    BY <1>5, <1>9, <2>1, <2>2 DEF Page!Asked, Page!Reloaded
<1>10. Page!QueriesOK'
  <2>1. a_page'.query = p.query + 1 /\ a_page'.result.query = p.query + 1 /\ a_page'.result.document = {}
    BY <1>4, <1>6
  <2> QED
    BY <1>9, <2>1 DEF Page!QueriesOK
<1> QED
  BY <1>3, <1>4, <1>6, <1>9, <1>10

\* The step keeps the invariant, and deletes and answers as it should.
StepSafe == Page!WatchInv' /\ Deletes /\ Answers

\* A step that renders another page p, the leases unchanged.
Bounded(p) ==
    /\ a_moves' \in 0..MaxMoves /\ a_faults' \in 0..MaxFaults
    /\ Page!IsBusy(p) <=> p.on /\ p.deleting
    /\ p.action = a_page.action \/ p.action = None
    /\ p.visible = a_page.visible /\ (p.on => a_page.on)
    /\ UNCHANGED <<a_kept, a_leases, a_lost, a_configured>>
    /\ a_late' \subseteq Camera

\* A render of p keeps the invariant.
LEMMA RenderSafe ==
    ASSUME Page!WatchInv, NEW p \in Page!Screens, Bounded(p), Page!Render(p),
           p.query + Page!Count(p.listing) + Page!Count(Page!IsBusy(p)) <= 1 + 2 * a_moves',
           a_queries' \subseteq Page!Queries,
           \A q \in a_queries' : /\ q.live => q.number = p.query
                                 /\ q.document # None => q.document \subseteq q.selection,
           p.result.query = p.query /\ p.result.document \subseteq p.result.selection
    PROVE  StepSafe
<1>1. /\ Page!TypeOK /\ Page!QueriesOK /\ Page!RunsOK /\ Page!ActionOK /\ Page!NoForgottenLease
  BY DEF Page!WatchInv
<1>2. /\ Page!RunsOK' /\ Page!NoForgottenLease' /\ a_page' = p
      /\ a_page.on /\ Page!Released => Page!Released'
  BY <1>1, Renders DEF Bounded
<1>3. Page!TypeOK'
  BY <1>1, <1>2 DEF Page!TypeOK, Bounded
<1>4. Page!QueriesOK'
  BY <1>2 DEF Page!QueriesOK
<1>5. Page!ActionOK'
  <2>1. a_page.action # None => a_page.on
    BY <1>1 DEF Page!TypeOK, Page!IsBusy
  <2> QED
    BY <1>1, <1>2, <2>1 DEF Page!ActionOK, Bounded
<1>6. Deletes /\ Answers
  BY <1>2 DEF Deletes, Answers, Bounded
<1> QED
  BY <1>2, <1>3, <1>4, <1>5, <1>6 DEF StepSafe, Page!WatchInv

\* A render of p with a reload does, too.
LEMMA ReloadSafe ==
    ASSUME Page!WatchInv, NEW p \in Page!Screens, Bounded(p), Page!Reload(p),
           p.query + 1 + Page!Count(p.listing) + Page!Count(Page!IsBusy(p)) <= 1 + 2 * a_moves'
    PROVE  StepSafe
<1>1. /\ Page!TypeOK /\ Page!QueriesOK /\ Page!RunsOK /\ Page!ActionOK /\ Page!NoForgottenLease
  BY DEF Page!WatchInv
<1>2. /\ Page!RunsOK' /\ Page!NoForgottenLease' /\ Page!QueriesOK'
      /\ a_page.on /\ Page!Released => Page!Released'
      /\ a_page' \in Page!Screens /\ a_queries' \subseteq Page!Queries
      /\ a_page'.on = p.on /\ a_page'.deleting = p.deleting /\ a_page'.action = p.action
      /\ a_page'.listing = p.listing /\ a_page'.query = p.query + 1
  BY <1>1, Reloads DEF Bounded
<1>3. Page!TypeOK'
  BY <1>1, <1>2 DEF Page!TypeOK, Page!IsBusy, Bounded
<1>5. Page!ActionOK'
  <2>1. a_page.action # None => a_page.on
    BY <1>1 DEF Page!TypeOK, Page!IsBusy
  <2> QED
    BY <1>1, <1>2, <2>1 DEF Page!ActionOK, Bounded
<1>6. Deletes /\ Answers
  BY <1>2 DEF Deletes, Answers, Bounded
<1> QED
  BY <1>2, <1>3, <1>5, <1>6 DEF StepSafe, Page!WatchInv

\* Where the invariant puts the page.
LEMMA PageFields ==
    ASSUME Page!WatchInv
    PROVE  /\ a_page \in Page!Screens /\ a_page.query \in Nat
           /\ a_moves \in 0..MaxMoves /\ a_faults \in 0..MaxFaults /\ a_moves \in Nat
           /\ MaxMoves \in Nat /\ MaxFaults \in Nat
           /\ a_page.action # None <=> a_page.on /\ a_page.deleting
           /\ a_page.query + Page!Count(a_page.listing) + Page!Count(Page!IsBusy(a_page)) <= 1 + 2 * a_moves
           /\ a_late \subseteq Camera /\ a_kept \subseteq Camera /\ a_configured \subseteq Camera
           /\ a_page.result.query = a_page.query
           /\ a_page.result.document \subseteq a_page.result.selection
<1>1. a_page.query \in Nat /\ MaxMoves \in Nat /\ MaxFaults \in Nat /\ a_moves \in 0..MaxMoves
  BY ScreenFields, WatchConstants DEF Page!WatchInv, Page!TypeOK
<1> QED
  BY <1>1 DEF Page!WatchInv, Page!TypeOK, Page!IsBusy, Page!QueriesOK

\* A query is answered; an aborted one changes nothing on the page.
LEMMA AnswerSafe ==
    ASSUME Page!WatchInv, NEW q, Page!Answer(q)
    PROVE  StepSafe
<1> DEFINE p == [a_page EXCEPT !.result = [selection |-> q.selection, query |-> q.number,
                                           loading |-> FALSE, document |-> q.document]]
<1>1. /\ q \in a_queries /\ q.document # None /\ a_queries' = a_queries \ {q}
      /\ UNCHANGED <<a_kept, a_leases, a_lost, a_configured, a_late, a_moves, a_faults>>
  BY DEF Page!Answer, Page!service, Page!bounds
<1>2. q \in Page!Queries /\ (q.live => q.number = a_page.query) /\ q.document \subseteq q.selection
  BY <1>1 DEF Page!WatchInv, Page!TypeOK, Page!QueriesOK
<1>3. /\ a_queries' \subseteq Page!Queries
      /\ \A o \in a_queries' : /\ o.live => o.number = a_page.query
                               /\ o.document # None => o.document \subseteq o.selection
  BY <1>1 DEF Page!WatchInv, Page!TypeOK, Page!QueriesOK
<1>4. CASE q.live /\ a_page.on
  <2>1. [selection |-> q.selection, query |-> q.number, loading |-> FALSE,
         document |-> q.document] \in Page!Results
    BY <1>1, <1>2 DEF Page!Queries, Page!Results
  <2>2. /\ p \in Page!Screens /\ p.action = a_page.action /\ p.on = a_page.on /\ p.visible = a_page.visible
        /\ p.deleting = a_page.deleting /\ p.listing = a_page.listing /\ p.query = a_page.query
        /\ p.result.query = q.number /\ p.result.document = q.document
        /\ p.result.selection = q.selection
    BY <2>1, PageFields DEF Page!Screens
  <2>3. Page!Render(p)
    BY <1>4 DEF Page!Answer
  <2> HIDE DEF p
  <2>4. Bounded(p)
    BY <1>1, <2>2, PageFields DEF Bounded, Page!IsBusy
  <2>5. p.query + Page!Count(p.listing) + Page!Count(Page!IsBusy(p)) <= 1 + 2 * a_moves'
    BY <1>1, <2>2, PageFields DEF Page!IsBusy
  <2> QED
    BY <1>2, <1>3, <1>4, <2>2, <2>3, <2>4, <2>5, RenderSafe
<1>5. CASE ~(q.live /\ a_page.on)
  <2>1. UNCHANGED <<a_page, a_holders>>
    BY <1>5 DEF Page!Answer
  <2>2. Page!TypeOK' /\ Page!QueriesOK'
    BY <1>1, <1>3, <2>1 DEF Page!WatchInv, Page!TypeOK, Page!QueriesOK
  <2>3. Page!RunsOK' /\ Page!ActionOK' /\ Page!NoForgottenLease'
    BY <1>1, <2>1 DEF Page!WatchInv, Page!RunsOK, Page!ActionOK, Page!NoForgottenLease, Page!Released
  <2> QED
    BY <1>1, <2>1, <2>2, <2>3 DEF StepSafe, Page!WatchInv, Deletes, Answers
<1> QED
  BY <1>4, <1>5

\* A query fails.
LEMMA QueryFailsSafe ==
    ASSUME Page!WatchInv, NEW q, Page!QueryFails(q)
    PROVE  StepSafe
<1> DEFINE p == [a_page EXCEPT !.result.loading = FALSE]
<1>1. /\ q \in a_queries /\ a_queries' = a_queries \ {q} /\ a_faults < MaxFaults /\ a_faults' = a_faults + 1
      /\ UNCHANGED <<a_kept, a_leases, a_lost, a_configured, a_late, a_moves>>
  BY DEF Page!QueryFails, Page!service
<1>2. a_faults' \in 0..MaxFaults
  BY <1>1, PageFields
<1>3. /\ a_queries' \subseteq Page!Queries
      /\ \A o \in a_queries' : /\ o.live => o.number = a_page.query
                               /\ o.document # None => o.document \subseteq o.selection
  BY <1>1 DEF Page!WatchInv, Page!TypeOK, Page!QueriesOK
<1>4. CASE q.live /\ a_page.on
  <2> DEFINE r == [a_page.result EXCEPT !.loading = FALSE]
  <2>1. a_page \in Page!Screens /\ a_page.result \in Page!Results
    BY PageFields, ScreenFields
  <2>2. r \in Page!Results /\ p = [a_page EXCEPT !.result = r]
    BY <2>1 DEF Page!Results, Page!Screens
  <2>3. /\ p \in Page!Screens /\ p.action = a_page.action /\ p.on = a_page.on /\ p.visible = a_page.visible
        /\ p.deleting = a_page.deleting /\ p.listing = a_page.listing /\ p.query = a_page.query
        /\ p.result = r
    BY <2>1, <2>2 DEF Page!Screens
  <2>4. r.query = a_page.result.query /\ r.document = a_page.result.document
        /\ r.selection = a_page.result.selection
    BY <2>1 DEF Page!Results
  <2>5. Page!Render(p)
    BY <1>4 DEF Page!QueryFails
  <2> HIDE DEF p, r
  <2>6. Bounded(p)
    BY <1>1, <1>2, <2>3, PageFields DEF Bounded, Page!IsBusy
  <2>7. p.query + Page!Count(p.listing) + Page!Count(Page!IsBusy(p)) <= 1 + 2 * a_moves'
    BY <1>1, <2>3, PageFields DEF Page!IsBusy
  <2>8. p.result.query = p.query /\ p.result.document \subseteq p.result.selection
    BY <2>3, <2>4, PageFields
  <2> QED
    BY <1>3, <2>3, <2>5, <2>6, <2>7, <2>8, RenderSafe
<1>5. CASE ~(q.live /\ a_page.on)
  <2>1. UNCHANGED <<a_page, a_holders>>
    BY <1>5 DEF Page!QueryFails
  <2>2. Page!TypeOK' /\ Page!QueriesOK'
    BY <1>1, <1>2, <1>3, <2>1 DEF Page!WatchInv, Page!TypeOK, Page!QueriesOK
  <2>3. Page!RunsOK' /\ Page!ActionOK' /\ Page!NoForgottenLease'
    BY <1>1, <2>1 DEF Page!WatchInv, Page!RunsOK, Page!ActionOK, Page!NoForgottenLease, Page!Released
  <2> QED
    BY <1>1, <2>1, <2>2, <2>3 DEF StepSafe, Page!WatchInv, Deletes, Answers
<1> QED
  BY <1>4, <1>5

\* What stays of the queries when the page only renders.
LEMMA QueriesStay ==
    ASSUME Page!WatchInv, a_queries' \subseteq a_queries
    PROVE  /\ a_queries' \subseteq Page!Queries
           /\ \A q \in a_queries' : /\ q.live => q.number = a_page.query
                                    /\ q.document # None => q.document \subseteq q.selection
  BY DEF Page!WatchInv, Page!TypeOK, Page!QueriesOK

\* The cameras are listed, and the selection becomes what is left of it.
LEMMA CatalogSafe ==
    ASSUME Page!WatchInv, Page!CatalogAnswered
    PROVE  StepSafe
<1> DEFINE p == [a_page EXCEPT !.listing = FALSE, !.started = TRUE, !.selection = Page!Chosen(a_page)]
<1>1. /\ a_page.on /\ a_page.listing
      /\ UNCHANGED <<a_kept, a_leases, a_lost, a_configured, a_late, a_moves, a_faults>>
      /\ IF p.selection = a_page.selection THEN Page!Render(p) /\ UNCHANGED a_queries ELSE Page!Reload(p)
  BY DEF Page!CatalogAnswered, Page!service, Page!bounds
<1>2. Page!Chosen(a_page) \in SUBSET Camera
  BY PageFields, ScreenFields DEF Page!Chosen
<1>3. /\ p \in Page!Screens /\ p.action = a_page.action /\ p.on = a_page.on /\ p.visible = a_page.visible
      /\ p.deleting = a_page.deleting /\ p.listing = FALSE /\ p.query = a_page.query
      /\ p.result = a_page.result
  BY <1>2, PageFields DEF Page!Screens
<1> HIDE DEF p
<1>4. Bounded(p)
  BY <1>1, <1>3, PageFields DEF Bounded, Page!IsBusy
<1>5. p.query + 1 + Page!Count(p.listing) + Page!Count(Page!IsBusy(p)) <= 1 + 2 * a_moves'
  <2>1. Page!IsBusy(p) = Page!IsBusy(a_page)
    BY <1>3 DEF Page!IsBusy
  <2>2. a_page.query \in Nat /\ a_moves' = a_moves /\ a_moves \in Nat
    BY <1>1, PageFields
  <2> QED
    BY <1>1, <1>3, <2>1, <2>2, PageFields DEF Page!Count
<1>6. CASE p.selection = a_page.selection
  <2>1. Page!Render(p) /\ a_queries' \subseteq a_queries
    BY <1>1, <1>6
  <2>2. p.query + Page!Count(p.listing) + Page!Count(Page!IsBusy(p)) <= 1 + 2 * a_moves'
    BY <1>1, <1>3, <1>5, PageFields DEF Page!Count
  <2> QED
    BY <1>3, <1>4, <2>1, <2>2, PageFields, QueriesStay, RenderSafe
<1>7. CASE p.selection # a_page.selection
  BY <1>1, <1>3, <1>4, <1>5, <1>7, ReloadSafe
<1> QED
  BY <1>6, <1>7

\* A camera is chosen, or no longer.
LEMMA ToggleSafe ==
    ASSUME Page!WatchInv, NEW c \in Camera, Page!Toggle(c)
    PROVE  StepSafe
<1> DEFINE p == [a_page EXCEPT !.selection = IF c \in @ THEN @ \ {c} ELSE @ \cup {c}]
<1>1. /\ a_moves < MaxMoves /\ a_moves' = a_moves + 1 /\ Page!Reload(p)
      /\ UNCHANGED <<a_kept, a_leases, a_lost, a_configured, a_late, a_faults>>
  BY DEF Page!Toggle, Page!Moves, Page!service
<1>2. a_page.selection \in SUBSET Camera
  BY PageFields, ScreenFields
<1>3. /\ p \in Page!Screens /\ p.action = a_page.action /\ p.on = a_page.on /\ p.visible = a_page.visible
      /\ p.deleting = a_page.deleting /\ p.listing = a_page.listing /\ p.query = a_page.query
  BY <1>2, PageFields DEF Page!Screens
<1> HIDE DEF p
<1>4. a_moves' \in 0..MaxMoves
  BY <1>1, PageFields
<1>5. Bounded(p)
  BY <1>1, <1>3, <1>4, PageFields DEF Bounded, Page!IsBusy
<1>6. p.query + 1 + Page!Count(p.listing) + Page!Count(Page!IsBusy(p)) <= 1 + 2 * a_moves'
  BY <1>1, <1>3, PageFields DEF Page!Count, Page!IsBusy
<1> QED
  BY <1>1, <1>3, <1>5, <1>6, ReloadSafe

\* The cursor moves.
LEMMA SeekSafe ==
    ASSUME Page!WatchInv, NEW c \in Cursor, Page!Seek(c)
    PROVE  StepSafe
<1> DEFINE p == [a_page EXCEPT !.cursor = c]
<1>1. /\ a_moves < MaxMoves /\ a_moves' = a_moves + 1 /\ Page!Render(p)
      /\ UNCHANGED <<a_kept, a_leases, a_lost, a_configured, a_queries, a_late, a_faults>>
  BY DEF Page!Seek, Page!Moves, Page!service
<1>3. /\ p \in Page!Screens /\ p.action = a_page.action /\ p.on = a_page.on /\ p.visible = a_page.visible
      /\ p.deleting = a_page.deleting /\ p.listing = a_page.listing /\ p.query = a_page.query
      /\ p.result = a_page.result
  BY PageFields DEF Page!Screens
<1> HIDE DEF p
<1>4. a_moves' \in 0..MaxMoves
  BY <1>1, PageFields
<1>5. Bounded(p)
  BY <1>1, <1>3, <1>4, PageFields DEF Bounded, Page!IsBusy
<1>6. p.query + Page!Count(p.listing) + Page!Count(Page!IsBusy(p)) <= 1 + 2 * a_moves'
  BY <1>1, <1>3, PageFields DEF Page!Count, Page!IsBusy
<1>7. a_queries' \subseteq a_queries
  BY <1>1
<1> QED
  BY <1>1, <1>3, <1>5, <1>6, <1>7, PageFields, QueriesStay, RenderSafe

\* Everything is asked for again.
LEMMA RefreshSafe ==
    ASSUME Page!WatchInv, Page!RefreshAll
    PROVE  StepSafe
<1> DEFINE p == [a_page EXCEPT !.listing = TRUE]
<1>1. /\ a_moves < MaxMoves /\ a_moves' = a_moves + 1 /\ Page!Reload(p) /\ ~a_page.listing
      /\ UNCHANGED <<a_kept, a_leases, a_lost, a_configured, a_late, a_faults>>
  BY DEF Page!RefreshAll, Page!Moves, Page!service
<1>3. /\ p \in Page!Screens /\ p.action = a_page.action /\ p.on = a_page.on /\ p.visible = a_page.visible
      /\ p.deleting = a_page.deleting /\ p.listing = TRUE /\ p.query = a_page.query
  BY PageFields DEF Page!Screens
<1> HIDE DEF p
<1>4. a_moves' \in 0..MaxMoves
  BY <1>1, PageFields
<1>5. Bounded(p)
  BY <1>1, <1>3, <1>4, PageFields DEF Bounded, Page!IsBusy
<1>6. p.query + 1 + Page!Count(p.listing) + Page!Count(Page!IsBusy(p)) <= 1 + 2 * a_moves'
  BY <1>1, <1>3, PageFields DEF Page!Count, Page!IsBusy
<1> QED
  BY <1>1, <1>3, <1>5, <1>6, ReloadSafe

\* The page is left: nothing more is asked, its leases are given back.
LEMMA LeaveSafe ==
    ASSUME Page!WatchInv, Page!Leave
    PROVE  StepSafe
<1> DEFINE p == [a_page EXCEPT !.on = FALSE, !.action = None, !.listing = FALSE]
<1>1. /\ a_moves < MaxMoves /\ a_moves' = a_moves + 1 /\ Page!Render(p) /\ a_queries' = {}
      /\ a_page.on
      /\ a_late' \in {a_late, a_late \cup {a_page.action.segment}}
      /\ a_late' # a_late => a_page.action # None
      /\ UNCHANGED <<a_kept, a_leases, a_lost, a_configured, a_faults>>
  BY DEF Page!Leave, Page!Moves, Page!service, Page!IsBusy
<1>2. a_late' \subseteq Camera
  BY <1>1, PageFields, ScreenFields
<1>3. /\ p \in Page!Screens /\ p.action = None /\ p.on = FALSE /\ p.visible = a_page.visible
      /\ p.listing = FALSE /\ p.query = a_page.query /\ p.result = a_page.result
  BY PageFields DEF Page!Screens
<1> HIDE DEF p
<1>4. a_moves' \in 0..MaxMoves
  BY <1>1, PageFields
<1>5. Bounded(p)
  BY <1>1, <1>2, <1>3, <1>4, PageFields DEF Bounded, Page!IsBusy
<1>6. p.query + Page!Count(p.listing) + Page!Count(Page!IsBusy(p)) <= 1 + 2 * a_moves'
  BY <1>1, <1>3, PageFields DEF Page!Count, Page!IsBusy
<1>7. a_queries' \subseteq a_queries
  BY <1>1
<1> QED
  BY <1>1, <1>3, <1>5, <1>6, <1>7, PageFields, QueriesStay, RenderSafe

\* The deletion is over, one way or another.
LEMMA NotDeletingFields ==
    ASSUME Page!WatchInv
    PROVE  LET p == Page!NotDeleting(a_page)
           IN  /\ p \in Page!Screens /\ p.action = None /\ p.on = a_page.on /\ p.visible = a_page.visible
               /\ p.deleting = FALSE /\ p.listing = a_page.listing /\ p.query = a_page.query
               /\ p.result = a_page.result
  BY PageFields DEF Page!Screens, Page!NotDeleting

\* The deletion is answered.
LEMMA DeleteAnsweredSafe ==
    ASSUME Page!WatchInv, Page!DeleteAnswered
    PROVE  StepSafe
<1> DEFINE p == Page!NotDeleting(a_page)
<1>1. /\ UNCHANGED <<a_kept, a_leases, a_lost, a_configured, a_late, a_moves, a_faults>>
      /\ Page!IsBusy(a_page)
      /\ IF a_page.action.answer = "deleted" THEN Page!Reload(p) ELSE Page!Render(p) /\ UNCHANGED a_queries
  BY DEF Page!DeleteAnswered, Page!service, Page!bounds
<1>2. /\ p \in Page!Screens /\ p.action = None /\ p.on = a_page.on /\ p.visible = a_page.visible
      /\ p.deleting = FALSE /\ p.listing = a_page.listing /\ p.query = a_page.query
      /\ p.result = a_page.result
  BY NotDeletingFields
<1> HIDE DEF p
<1>3. Bounded(p)
  BY <1>1, <1>2, PageFields DEF Bounded, Page!IsBusy
<1>4. p.query + 1 + Page!Count(p.listing) + Page!Count(Page!IsBusy(p)) <= 1 + 2 * a_moves'
  BY <1>1, <1>2, PageFields DEF Page!Count, Page!IsBusy
<1>5. CASE a_page.action.answer = "deleted"
  BY <1>1, <1>2, <1>3, <1>4, <1>5, ReloadSafe
<1>6. CASE a_page.action.answer # "deleted"
  <2>1. Page!Render(p) /\ a_queries' \subseteq a_queries
    BY <1>1, <1>6
  <2>2. p.query + Page!Count(p.listing) + Page!Count(Page!IsBusy(p)) <= 1 + 2 * a_moves'
    BY <1>1, <1>2, PageFields DEF Page!Count, Page!IsBusy
  <2> QED
    BY <1>2, <1>3, <2>1, <2>2, PageFields, QueriesStay, RenderSafe
<1> QED
  BY <1>5, <1>6

\* The deletion is given up, and may still arrive.
LEMMA DeleteTimesOutSafe ==
    ASSUME Page!WatchInv, Page!DeleteTimesOut
    PROVE  StepSafe
<1> DEFINE p == Page!NotDeleting(a_page)
<1>1. /\ UNCHANGED <<a_kept, a_leases, a_lost, a_configured, a_queries, a_moves>>
      /\ Page!IsBusy(a_page) /\ a_faults < MaxFaults /\ a_faults' = a_faults + 1 /\ Page!Render(p)
      /\ a_late' \in {a_late, a_late \cup {a_page.action.segment}}
  BY DEF Page!DeleteTimesOut, Page!service
<1>2. /\ p \in Page!Screens /\ p.action = None /\ p.on = a_page.on /\ p.visible = a_page.visible
      /\ p.deleting = FALSE /\ p.listing = a_page.listing /\ p.query = a_page.query
      /\ p.result = a_page.result
  BY NotDeletingFields
<1> HIDE DEF p
<1>3. a_late' \subseteq Camera /\ a_faults' \in 0..MaxFaults
  BY <1>1, PageFields, ScreenFields DEF Page!IsBusy
<1>4. Bounded(p)
  BY <1>1, <1>2, <1>3, PageFields DEF Bounded, Page!IsBusy
<1>5. p.query + Page!Count(p.listing) + Page!Count(Page!IsBusy(p)) <= 1 + 2 * a_moves'
  BY <1>1, <1>2, PageFields DEF Page!Count, Page!IsBusy
<1>6. a_queries' \subseteq a_queries
  BY <1>1
<1> QED
  BY <1>1, <1>2, <1>4, <1>5, <1>6, PageFields, QueriesStay, RenderSafe

\* Steps that leave the runs and what they are for alone.
LEMMA RunsRest ==
    ASSUME Page!WatchInv, UNCHANGED <<a_leases, a_lost, a_holders>>,
           a_page'.on = a_page.on, a_page'.visible = a_page.visible,
           a_page'.deleting = a_page.deleting, Page!Key(a_page') = Page!Key(a_page)
    PROVE  Page!RunsOK' /\ Page!NoForgottenLease' /\ (Page!Released' <=> Page!Released)
<1>1. Page!RunsOK /\ Page!NoForgottenLease
  BY DEF Page!WatchInv
<1>2. Page!NewestOpen(a_page', a_holders)
  BY <1>1 DEF Page!RunsOK, Page!NewestOpen
<1> QED
  BY <1>1, <1>2 DEF Page!RunsOK, Page!NoForgottenLease, Page!Released

\* The service answers a query.
LEMMA ServeSafe ==
    ASSUME Page!WatchInv, NEW q, Page!Serve(q)
    PROVE  StepSafe
<1> DEFINE o == [q EXCEPT !.document = q.selection \cap a_kept]
<1>1. /\ q \in a_queries /\ a_queries' = (a_queries \ {q}) \cup {o}
      /\ UNCHANGED <<a_kept, a_leases, a_lost, a_configured, a_page, a_holders, a_late, a_moves, a_faults>>
  BY DEF Page!Serve, Page!service, Page!bounds
<1>2. q \in Page!Queries /\ (q.live => q.number = a_page.query)
  BY <1>1 DEF Page!WatchInv, Page!TypeOK, Page!QueriesOK
<1>3. o \in Page!Queries /\ o.live = q.live /\ o.number = q.number /\ o.document \subseteq o.selection
  BY <1>2 DEF Page!Queries
<1> HIDE DEF o
<1>4. Page!TypeOK' /\ Page!QueriesOK'
  BY <1>1, <1>2, <1>3 DEF Page!WatchInv, Page!TypeOK, Page!QueriesOK
<1>5. Page!RunsOK' /\ Page!NoForgottenLease' /\ Page!ActionOK'
  BY <1>1, RunsRest DEF Page!WatchInv, Page!ActionOK
<1> QED
  BY <1>1, <1>4, <1>5 DEF StepSafe, Page!WatchInv, Deletes, Answers

\* The cameras are not listed.
LEMMA CatalogFailsSafe ==
    ASSUME Page!WatchInv, Page!CatalogFails
    PROVE  StepSafe
<1>1. /\ a_page' = [a_page EXCEPT !.listing = FALSE] /\ a_faults < MaxFaults /\ a_faults' = a_faults + 1
      /\ UNCHANGED <<a_kept, a_leases, a_lost, a_configured, a_queries, a_holders, a_late, a_moves>>
  BY DEF Page!CatalogFails, Page!service
<1>2. /\ a_page' \in Page!Screens /\ a_page'.action = a_page.action /\ a_page'.on = a_page.on
      /\ a_page'.visible = a_page.visible /\ a_page'.deleting = a_page.deleting
      /\ a_page'.listing = FALSE /\ a_page'.query = a_page.query /\ a_page'.result = a_page.result
      /\ a_page'.selection = a_page.selection /\ a_page'.cursor = a_page.cursor
  BY <1>1, PageFields DEF Page!Screens
<1>3. a_page'.query + Page!Count(a_page'.listing) + Page!Count(Page!IsBusy(a_page')) <= 1 + 2 * a_moves'
  BY <1>1, <1>2, PageFields DEF Page!Count, Page!IsBusy
<1>4. Page!TypeOK'
  <2>1. a_faults' \in 0..MaxFaults
    BY <1>1, PageFields
  <2> QED
    BY <1>1, <1>2, <1>3, <2>1 DEF Page!WatchInv, Page!TypeOK, Page!IsBusy
<1>5. Page!QueriesOK'
  BY <1>1, <1>2 DEF Page!WatchInv, Page!QueriesOK
<1>6. Page!RunsOK' /\ Page!NoForgottenLease' /\ Page!ActionOK'
  <2>1. Page!Key(a_page') = Page!Key(a_page)
    BY <1>2 DEF Page!Key, Page!Timeline
  <2> QED
    BY <1>1, <1>2, <2>1, RunsRest DEF Page!WatchInv, Page!ActionOK
<1> QED
  BY <1>1, <1>2, <1>4, <1>5, <1>6 DEF StepSafe, Page!WatchInv, Deletes, Answers

\* What others do to configuration and segments.
LEMMA OthersSafe ==
    ASSUME Page!WatchInv, NEW c \in Camera, Page!Reconfigure(c) \/ Page!Retain(c) \/ Page!Arrives(c)
    PROVE  StepSafe
<1>1. UNCHANGED <<a_leases, a_lost, a_page, a_queries, a_holders, a_faults>>
  BY DEF Page!Reconfigure, Page!Retain, Page!Arrives, Page!service, Page!bounds
<1>2. /\ a_kept' \subseteq Camera /\ a_configured' \subseteq Camera /\ a_late' \subseteq Camera
  BY PageFields DEF Page!Reconfigure, Page!Retain, Page!Arrives, Page!service, Page!Executes
<1>3. a_moves' \in 0..MaxMoves /\ a_moves' >= a_moves /\ a_moves' \in Nat
  BY PageFields DEF Page!Reconfigure, Page!Retain, Page!Arrives, Page!Moves, Page!bounds
<1>4. Deletes
  <2>1. CASE a_kept' = a_kept
    BY <2>1 DEF Deletes
  <2>2. CASE a_kept' # a_kept
    <3>1. ~Page!_segment_active(c) /\ a_kept' = a_kept \ {c}
      BY <2>2 DEF Page!Reconfigure, Page!Retain, Page!Arrives, Page!service, Page!Executes, Page!delete_segment
    <3> QED
      BY <3>1 DEF Deletes
  <2> QED
    BY <2>1, <2>2
<1>5. Page!TypeOK'
  <2>1. a_page'.query + Page!Count(a_page'.listing) + Page!Count(Page!IsBusy(a_page')) <= 1 + 2 * a_moves'
    BY <1>1, <1>3, PageFields DEF Page!Count
  <2> QED
    BY <1>1, <1>2, <1>3, <2>1 DEF Page!WatchInv, Page!TypeOK
<1>6. Page!QueriesOK'
  BY <1>1 DEF Page!WatchInv, Page!QueriesOK
<1>7. Page!RunsOK' /\ Page!NoForgottenLease' /\ Page!ActionOK'
  BY <1>1, RunsRest DEF Page!WatchInv, Page!ActionOK
<1> QED
  BY <1>1, <1>4, <1>5, <1>6, <1>7 DEF StepSafe, Page!WatchInv, Answers

\* The deletion on its way.
LEMMA DeletionSafe ==
    ASSUME Page!WatchInv, Page!SendDelete \/ Page!ExecuteDelete
    PROVE  StepSafe
<1> DEFINE x == a_page.action
<1>1. /\ UNCHANGED <<a_leases, a_lost, a_configured, a_queries, a_holders, a_late, a_moves, a_faults>>
      /\ x # None /\ Page!Released
  BY DEF Page!SendDelete, Page!ExecuteDelete, Page!service, Page!bounds, Page!IsBusy, Page!WatchInv,
     Page!ActionOK
<1>2. x \in Page!Actions /\ a_page \in Page!Screens
  BY <1>1, PageFields DEF Page!Screens
<1>3. PICK y \in Page!Actions : a_page' = [a_page EXCEPT !.action = y] /\ y.stage = "sent"
  <2>1. CASE Page!SendDelete
    <3> DEFINE y == [x EXCEPT !.stage = "sent"]
    <3>1. y \in Page!Actions /\ y.stage = "sent"
      BY <1>2 DEF Page!Actions
    <3>2. a_page' = [a_page EXCEPT !.action = y]
      BY <1>2, <2>1 DEF Page!SendDelete, Page!Screens
    <3> QED
      BY <3>1, <3>2
  <2>2. CASE Page!ExecuteDelete
    <3> DEFINE y == [x EXCEPT !.answer = Page!delete_segment(x.segment)]
    <3>1. y \in Page!Actions /\ y.stage = "sent"
      BY <1>2, <2>2 DEF Page!Actions, Page!ExecuteDelete, Page!delete_segment
    <3>2. a_page' = [a_page EXCEPT !.action = y]
      BY <1>2, <2>2 DEF Page!ExecuteDelete, Page!Screens
    <3> QED
      BY <3>1, <3>2
  <2> QED
    BY <2>1, <2>2
<1>4. /\ a_page' \in Page!Screens /\ a_page'.action = y /\ a_page'.on = a_page.on
      /\ a_page'.visible = a_page.visible /\ a_page'.deleting = a_page.deleting
      /\ a_page'.listing = a_page.listing /\ a_page'.query = a_page.query /\ a_page'.result = a_page.result
      /\ a_page'.selection = a_page.selection /\ a_page'.cursor = a_page.cursor
  BY <1>2, <1>3 DEF Page!Screens
<1>5. y # None
  BY WatchConstants
<1>6. a_kept' \subseteq Camera /\ Deletes
  <2>1. CASE a_kept' = a_kept
    BY <2>1, PageFields DEF Deletes
  <2>2. CASE a_kept' # a_kept
    <3>1. ~Page!_segment_active(x.segment) /\ a_kept' = a_kept \ {x.segment}
      BY <2>2 DEF Page!SendDelete, Page!ExecuteDelete, Page!service, Page!Executes, Page!delete_segment
    <3> QED
      BY <3>1, PageFields DEF Deletes
  <2> QED
    BY <2>1, <2>2
<1>7. Page!TypeOK'
  <2>1. a_page'.query + Page!Count(a_page'.listing) + Page!Count(Page!IsBusy(a_page')) <= 1 + 2 * a_moves'
    BY <1>1, <1>4, <1>5, PageFields DEF Page!Count, Page!IsBusy
  <2> QED
    BY <1>1, <1>4, <1>5, <1>6, <2>1 DEF Page!WatchInv, Page!TypeOK, Page!IsBusy
<1>8. Page!QueriesOK'
  BY <1>1, <1>4 DEF Page!WatchInv, Page!QueriesOK
<1>9. Page!RunsOK' /\ Page!NoForgottenLease' /\ Page!ActionOK'
  <2>1. Page!Key(a_page') = Page!Key(a_page)
    BY <1>4 DEF Page!Key, Page!Timeline
  <2>2. Page!RunsOK' /\ Page!NoForgottenLease' /\ Page!Released'
    BY <1>1, <1>4, <2>1, RunsRest
  <2> QED
    BY <1>3, <1>4, <2>2 DEF Page!ActionOK
<1>10. Answers
  <2>1. CASE Page!SendDelete
    BY <1>2, <2>1 DEF Page!SendDelete, Page!Screens, Page!Actions, Answers
  <2>2. CASE Page!ExecuteDelete
    BY <2>2 DEF Page!ExecuteDelete, Answers
  <2> QED
    BY <2>1, <2>2
<1> QED
  BY <1>6, <1>7, <1>8, <1>9, <1>10 DEF StepSafe, Page!WatchInv

\* What a closed run claims depends on nothing else.
LEMMA ClosedSound ==
    ASSUME NEW h, NEW ls, NEW ks, NEW visible, NEW shown, h.closed, Page!RunSound(ls, visible, h)
    PROVE  Page!RunSound(ks, shown, h)
  BY DEF Page!RunSound

\* The newest run is changed, for a page that shows the same.
LEMMA NewestChanges ==
    ASSUME Page!WatchInv, NEW g \in Page!Runs, a_page.on,
           Page!RunSound(a_leases', a_page'.visible, g), Same(a_holders[Len(a_holders)], g),
           a_holders' = [a_holders EXCEPT ![Len(a_holders)] = g],
           a_page'.on = a_page.on, a_page'.deleting = a_page.deleting,
           Page!Key(a_page') = Page!Key(a_page)
    PROVE  /\ Page!RunsOK' /\ Len(a_holders') = Len(a_holders)
           /\ \A i \in 1..Len(a_holders) : Page!Held(a_holders'[i]) = Page!Held(a_holders[i])
           /\ Page!Released => Page!Released'
<1> DEFINE n == Len(a_holders)
<1>1. Page!RunsOK
  BY DEF Page!WatchInv
<1>2. /\ Page!Disjoint(a_holders) /\ Page!NewestOpen(a_page, a_holders)
      /\ a_holders \in Seq(Page!Runs) /\ n \in Nat /\ n >= 1 /\ n \in 1..n
      /\ \A i \in 1..n :
           a_holders[i] \in Page!Runs /\ Page!RunSound(a_leases, a_page.visible, a_holders[i])
  BY <1>1, RunsApart
<1>3. /\ a_holders' \in Seq(Page!Runs) /\ Len(a_holders') = n /\ a_holders'[n] = g
      /\ \A i \in 1..n : i # n => a_holders'[i] = a_holders[i]
  BY <1>2
<1>4. \A i \in 1..n : i # n => a_holders[i].closed
  BY <1>2 DEF Page!NewestOpen
<1>5. \A i \in 1..n : Page!RunSound(a_leases', a_page'.visible, a_holders'[i])
  BY <1>2, <1>3, <1>4, ClosedSound
<1>6. \A i \in 1..n : Page!Held(a_holders'[i]) = Page!Held(a_holders[i])
  BY <1>3 DEF Same
<1>7. RunsSound(a_leases', a_page'.visible, a_holders')
  <2>1. Len(a_holders') >= 1
    BY <1>2, <1>3
  <2>2. a_holders' # <<>>
    BY <2>1
  <2> QED
    BY <1>3, <1>5, <2>2 DEF RunsSound
<1>8. Page!Disjoint(a_holders')
  BY <1>2, <1>3, <1>6 DEF Page!Disjoint
<1>9. Page!NewestOpen(a_page', a_holders')
  BY <1>2, <1>3, <1>4 DEF Page!NewestOpen, Same
<1>10. Page!RunsOK'
  BY <1>7, <1>8, <1>9 DEF Page!RunsOK, RunsSound
<1>11. ASSUME Page!Released PROVE Page!Released'
  <2>1. ~a_holders[n].awaited
    BY <1>2, <1>11 DEF Page!NewestOpen, Page!Released, Page!Finished
  <2>2. ~a_holders'[n].awaited
    BY <1>3, <2>1 DEF Same
  <2> QED
    BY <1>3, <1>11, <2>2 DEF Page!Released
<1> QED
  BY <1>3, <1>6, <1>10, <1>11

\* A hidden page relies on nothing.
LEMMA RunHidden ==
    ASSUME NEW h \in Page!Runs, NEW ls, NEW visible, NEW shown, Page!RunSound(ls, visible, h)
    PROVE  LET g == [h EXCEPT !.sure = FALSE]
           IN  g \in Page!Runs /\ Page!RunSound(ls, shown, g) /\ Same(h, g)
<1> DEFINE g == [h EXCEPT !.sure = FALSE]
<1>1. g \in Page!Runs
  BY DEF Page!Runs
<1>2. g.closed = h.closed /\ g.round = h.round /\ g.ids = h.ids /\ g.giving = h.giving
      /\ g.deleting = h.deleting /\ ~g.sure /\ g.key = h.key /\ g.awaited = h.awaited
  BY DEF Page!Runs
<1>3. Same(h, g) /\ Page!RunSound(ls, shown, g)
  <2> HIDE DEF g
  <2> QED
    BY <1>2 DEF Page!Held, Page!RunSound, Same
<1> QED
  BY <1>1, <1>3

\* A page that is shown again is sure of no more than before.
LEMMA RunShown ==
    ASSUME NEW h, NEW ls, NEW visible, Page!RunSound(ls, visible, h)
    PROVE  Page!RunSound(ls, TRUE, h)
  BY DEF Page!RunSound

\* The page is hidden: its leases are no longer renewed.
LEMMA HideSafe ==
    ASSUME Page!WatchInv, Page!Hide
    PROVE  StepSafe
<1> DEFINE n == Len(a_holders)
           g == [a_holders[n] EXCEPT !.sure = FALSE]
<1>1. /\ a_page' = [a_page EXCEPT !.visible = FALSE] /\ a_moves < MaxMoves /\ a_moves' = a_moves + 1
      /\ a_holders' = [a_holders EXCEPT ![n].sure = FALSE] /\ a_page.on
      /\ UNCHANGED <<a_kept, a_leases, a_lost, a_configured, a_queries, a_late, a_faults>>
  BY DEF Page!Hide, Page!Moves, Page!service
<1>2. /\ a_page' \in Page!Screens /\ a_page'.action = a_page.action /\ a_page'.on = a_page.on
      /\ a_page'.visible = FALSE /\ a_page'.deleting = a_page.deleting
      /\ a_page'.listing = a_page.listing /\ a_page'.query = a_page.query /\ a_page'.result = a_page.result
      /\ a_page'.selection = a_page.selection /\ a_page'.cursor = a_page.cursor
  BY <1>1, PageFields DEF Page!Screens
<1>3. /\ n \in 1..n /\ a_holders \in Seq(Page!Runs)
      /\ a_holders[n] \in Page!Runs /\ Page!RunSound(a_leases, a_page.visible, a_holders[n])
  BY RunsApart DEF Page!WatchInv
<1>4. g \in Page!Runs /\ Page!RunSound(a_leases', FALSE, g) /\ Same(a_holders[n], g)
  BY <1>1, <1>3, RunHidden
<1>5. a_holders' = [a_holders EXCEPT ![n] = g]
  BY <1>1, <1>3
<1> HIDE DEF g
<1>6. Page!Key(a_page') = Page!Key(a_page)
  BY <1>2 DEF Page!Key, Page!Timeline
<1>7. /\ Page!RunsOK' /\ Len(a_holders') = n
      /\ \A i \in 1..n : Page!Held(a_holders'[i]) = Page!Held(a_holders[i])
      /\ Page!Released => Page!Released'
  BY <1>1, <1>2, <1>4, <1>5, <1>6, NewestChanges
<1>8. Page!TypeOK'
  <2>1. a_moves' \in 0..MaxMoves
    BY <1>1, PageFields
  <2>2. a_page'.query + Page!Count(a_page'.listing) + Page!Count(Page!IsBusy(a_page')) <= 1 + 2 * a_moves'
    BY <1>1, <1>2, PageFields DEF Page!Count, Page!IsBusy
  <2> QED
    BY <1>1, <1>2, <2>1, <2>2 DEF Page!WatchInv, Page!TypeOK, Page!IsBusy
<1>9. Page!QueriesOK' /\ Page!ActionOK' /\ Page!NoForgottenLease'
  BY <1>1, <1>2, <1>7 DEF Page!WatchInv, Page!QueriesOK, Page!ActionOK, Page!NoForgottenLease
<1> QED
  BY <1>1, <1>2, <1>7, <1>8, <1>9 DEF StepSafe, Page!WatchInv, Deletes, Answers

\* The leases as the invariant has them, and a period later.
LEMMA LeasesAge ==
    ASSUME Page!WatchInv
    PROVE  /\ Older(a_leases, a_leases)
           /\ LET ks == [l \in {k \in DOMAIN a_leases : a_leases[k].left > 1} |->
                           [a_leases[l] EXCEPT !.left = @ - 1]]
              IN  /\ Older(a_leases, ks)
                  /\ \A l \in DOMAIN ks : l \in DOMAIN a_leases
                                          /\ ks[l] \in [segment : Camera, left : 1..Life]
<1> DEFINE ks == [l \in {k \in DOMAIN a_leases : a_leases[k].left > 1} |->
                    [a_leases[l] EXCEPT !.left = @ - 1]]
<1>c. Life \in Nat /\ Life > 1
  BY WatchConstants
<1>1. \A l \in DOMAIN a_leases : a_leases[l] \in [segment : Camera, left : 1..Life]
  BY DEF Page!WatchInv, Page!TypeOK
<1>2. \A l \in DOMAIN a_leases : a_leases[l].left \in Nat
  BY <1>c, <1>1
<1>3. Older(a_leases, a_leases)
  BY <1>c, <1>2 DEF Older, Page!Protects
<1>4. ASSUME NEW l \in DOMAIN ks
      PROVE  /\ l \in DOMAIN a_leases /\ ks[l] \in [segment : Camera, left : 1..Life]
             /\ ks[l].segment = a_leases[l].segment /\ ks[l].left = a_leases[l].left - 1
  <2>1. l \in DOMAIN a_leases /\ a_leases[l].left > 1 /\ ks[l] = [a_leases[l] EXCEPT !.left = @ - 1]
    BY <1>4
  <2>2. a_leases[l] \in [segment : Camera, left : 1..Life]
    BY <1>1, <2>1
  <2> QED
    BY <1>c, <2>1, <2>2
<1>5. ASSUME NEW l \in DOMAIN a_leases, a_leases[l].left > 1 PROVE l \in DOMAIN ks
  BY <1>5
<1> HIDE DEF ks
<1>6. Older(a_leases, ks)
  BY <1>c, <1>2, <1>4, <1>5 DEF Older, Page!Protects
<1> QED
  BY <1>3, <1>4, <1>6 DEF ks

\* The page is shown again: a round begins.
LEMMA ShowSafe ==
    ASSUME Page!WatchInv, Page!Show
    PROVE  StepSafe
<1> DEFINE n == Len(a_holders)
           g == Page!Renewed(a_holders[n], TRUE)
<1>1. /\ a_page' = [a_page EXCEPT !.visible = TRUE] /\ a_page.on
      /\ a_holders' = [a_holders EXCEPT ![n] = Page!Renewed(@, TRUE)]
      /\ UNCHANGED <<a_kept, a_leases, a_lost, a_configured, a_queries, a_late, a_moves, a_faults>>
  BY DEF Page!Show, Page!service, Page!bounds
<1>2. /\ a_page' \in Page!Screens /\ a_page'.action = a_page.action /\ a_page'.on = a_page.on
      /\ a_page'.visible = TRUE /\ a_page'.deleting = a_page.deleting
      /\ a_page'.listing = a_page.listing /\ a_page'.query = a_page.query /\ a_page'.result = a_page.result
      /\ a_page'.selection = a_page.selection /\ a_page'.cursor = a_page.cursor
  BY <1>1, PageFields DEF Page!Screens
<1>3. /\ n \in 1..n /\ a_holders \in Seq(Page!Runs)
      /\ a_holders[n] \in Page!Runs /\ Page!RunSound(a_leases, a_page.visible, a_holders[n])
  BY RunsApart DEF Page!WatchInv
<1>4. g \in Page!Runs /\ Page!RunSound(a_leases', TRUE, g) /\ Same(a_holders[n], g)
  <2>1. Page!RunSound(a_leases, TRUE, a_holders[n])
    BY <1>3, RunShown
  <2>2. CASE a_holders[n].round = None
    BY <1>1, <1>3, <2>1, <2>2, LeasesAge, RunRenewed
  <2>3. CASE a_holders[n].round # None
    BY <1>1, <1>3, <2>1, <2>3 DEF Page!Renewed, Same
  <2> QED
    BY <2>2, <2>3
<1>5. a_holders' = [a_holders EXCEPT ![n] = g]
  BY <1>1, <1>3
<1> HIDE DEF g
<1>6. Page!Key(a_page') = Page!Key(a_page)
  BY <1>2 DEF Page!Key, Page!Timeline
<1>7. /\ Page!RunsOK' /\ Len(a_holders') = n
      /\ \A i \in 1..n : Page!Held(a_holders'[i]) = Page!Held(a_holders[i])
      /\ Page!Released => Page!Released'
  BY <1>1, <1>2, <1>4, <1>5, <1>6, NewestChanges
<1>8. Page!TypeOK'
  BY <1>1, <1>2 DEF Page!WatchInv, Page!TypeOK, Page!IsBusy
<1>9. Page!QueriesOK' /\ Page!ActionOK' /\ Page!NoForgottenLease'
  BY <1>1, <1>2, <1>7 DEF Page!WatchInv, Page!QueriesOK, Page!ActionOK, Page!NoForgottenLease
<1> QED
  BY <1>1, <1>2, <1>7, <1>8, <1>9 DEF StepSafe, Page!WatchInv, Deletes, Answers

\* Twenty seconds pass.
LEMMA TickSafe ==
    ASSUME Page!WatchInv, Page!Tick
    PROVE  StepSafe
<1> DEFINE n == Len(a_holders)
           g == Page!Renewed(a_holders[n], a_page.visible)
           ks == [l \in {k \in DOMAIN a_leases : a_leases[k].left > 1} |->
                    [a_leases[l] EXCEPT !.left = @ - 1]]
<1>1. /\ a_leases' = ks /\ a_lost' = a_lost \cap DOMAIN a_leases'
      /\ \A i \in 1..n : a_holders[i].round = None
      /\ a_holders' = IF a_page.on THEN [a_holders EXCEPT ![n] = Page!Renewed(@, a_page.visible)]
                      ELSE a_holders
      /\ UNCHANGED <<a_kept, a_configured, a_page, a_queries, a_late, a_moves, a_faults>>
  BY DEF Page!Tick, Page!bounds
<1>2. /\ Older(a_leases, ks)
      /\ \A l \in DOMAIN ks : l \in DOMAIN a_leases /\ ks[l] \in [segment : Camera, left : 1..Life]
  BY LeasesAge
<1> HIDE DEF ks
<1>3. /\ n \in 1..n /\ a_holders \in Seq(Page!Runs) /\ Page!NewestOpen(a_page, a_holders)
      /\ \A i \in 1..n :
           a_holders[i] \in Page!Runs /\ Page!RunSound(a_leases, a_page.visible, a_holders[i])
  BY RunsApart DEF Page!WatchInv
<1>4. Page!TypeOK'
  BY <1>1, <1>2 DEF Page!WatchInv, Page!TypeOK
<1>5. /\ Page!RunsOK' /\ Len(a_holders') = n
      /\ \A i \in 1..n : Page!Held(a_holders'[i]) = Page!Held(a_holders[i])
      /\ Page!Released => Page!Released'
  <2>1. CASE a_page.on
    <3>1. a_page.visible \in BOOLEAN
      BY PageFields, ScreenFields
    <3>2. g \in Page!Runs /\ Page!RunSound(a_leases', a_page'.visible, g) /\ Same(a_holders[n], g)
      BY <1>1, <1>2, <1>3, <3>1, RunRenewed
    <3>3. a_holders' = [a_holders EXCEPT ![n] = g]
      BY <1>1, <1>3, <2>1
    <3> HIDE DEF g
    <3> QED
      BY <1>1, <2>1, <3>2, <3>3, NewestChanges
  <2>2. CASE ~a_page.on
    <3>1. a_holders' = a_holders /\ \A i \in 1..n : a_holders[i].closed
      BY <1>1, <1>3, <2>2 DEF Page!NewestOpen
    <3>2. \A i \in 1..n : Page!RunSound(a_leases', a_page.visible, a_holders[i])
      BY <1>3, <3>1, ClosedSound
    <3>3. Page!RunsOK'
      BY <1>1, <3>1, <3>2 DEF Page!RunsOK, Page!WatchInv
    <3> QED
      BY <3>1, <3>3 DEF Page!Released
  <2> QED
    BY <2>1, <2>2
<1>6. Page!QueriesOK' /\ Page!ActionOK'
  BY <1>1, <1>5 DEF Page!WatchInv, Page!QueriesOK, Page!ActionOK
<1>7. Page!NoForgottenLease'
  BY <1>1, <1>2, <1>5 DEF Page!WatchInv, Page!NoForgottenLease
<1> QED
  BY <1>1, <1>4, <1>5, <1>6, <1>7 DEF StepSafe, Page!WatchInv, Deletes, Answers

\* The deletion begins: the run of the segment is stopped, and waited for.
LEMMA DeleteSafe ==
    ASSUME Page!WatchInv, NEW s \in Camera, Page!Delete(s)
    PROVE  StepSafe
<1> DEFINE n == Len(a_holders)
           x == [segment |-> s, stage |-> "releasing", answer |-> None]
           p == [a_page EXCEPT !.action = x, !.deleting = TRUE]
           w == [a_holders[n] EXCEPT !.awaited = TRUE]
           c == Page!Close(w)
           hs == [a_holders EXCEPT ![n] = c]
           gs == Page!Effects(hs, p)
<1>1. /\ a_moves < MaxMoves /\ a_moves' = a_moves + 1 /\ a_page.on /\ a_page.action = None /\ a_page' = p
      /\ a_holders' = Page!Effects([a_holders EXCEPT ![n] = Page!Close([@ EXCEPT !.awaited = TRUE])], a_page')
      /\ UNCHANGED <<a_kept, a_leases, a_lost, a_configured, a_queries, a_late, a_faults>>
  BY DEF Page!Delete, Page!Moves, Page!IsBusy, Page!service
<1>2. /\ n \in 1..n /\ n \in Nat /\ a_holders \in Seq(Page!Runs) /\ Page!NewestOpen(a_page, a_holders)
      /\ RunsSound(a_leases, a_page.visible, a_holders) /\ Page!Disjoint(a_holders)
      /\ \A i \in 1..n :
           a_holders[i] \in Page!Runs /\ Page!RunSound(a_leases, a_page.visible, a_holders[i])
  BY RunsApart DEF Page!WatchInv
<1>3. a_holders' = gs
  BY <1>1, <1>2
<1>4. x \in Page!Actions
  BY DEF Page!Actions
<1>5. x # None
  BY <1>4, WatchConstants
<1>6. /\ p \in Page!Screens /\ p.action = x /\ p.on = TRUE
      /\ p.visible = a_page.visible /\ p.deleting = TRUE
      /\ p.listing = a_page.listing /\ p.query = a_page.query /\ p.result = a_page.result
  BY <1>1, <1>4, PageFields DEF Page!Screens
<1>7. x.answer = None /\ x.stage = "releasing"
  OBVIOUS
<1> HIDE DEF x, p, gs
<1>8. a_page.visible \in BOOLEAN /\ Page!Key(p) \in SUBSET Camera
  BY <1>6, PageFields, ScreenFields
<1>9. w \in Page!Runs /\ Page!RunSound(a_leases, a_page.visible, w) /\ Page!Held(w) = Page!Held(a_holders[n])
  BY <1>2, RunAwaited
<1> HIDE DEF w
<1>10. /\ c \in Page!Runs /\ Page!RunSound(a_leases, a_page.visible, c) /\ c.closed
       /\ Page!Held(c) = Page!Held(a_holders[n])
  BY <1>8, <1>9, RunCloses
<1> HIDE DEF c
<1>11. /\ hs \in Seq(Page!Runs) /\ Len(hs) = n /\ hs[n] = c /\ hs # <<>>
       /\ \A i \in 1..n : i # n => hs[i] = a_holders[i]
  BY <1>2, <1>10
<1>12. gs = Page!Effects(hs, p)
  BY DEF gs
<1> HIDE DEF hs
<1>13. RunsSound(a_leases, p.visible, hs)
  BY <1>2, <1>6, <1>10, <1>11 DEF RunsSound
<1>14. Page!Disjoint(hs)
  BY <1>2, <1>10, <1>11 DEF Page!Disjoint
<1>15. \A i \in 1..Len(hs) : i < Len(hs) => hs[i].closed
  BY <1>2, <1>11 DEF Page!NewestOpen
<1>16. ~a_holders[n].deleting
  BY <1>1, <1>2, PageFields DEF Page!NewestOpen
<1>17. hs[Len(hs)].deleting # p.deleting
  <2>1. c.deleting = a_holders[n].deleting
    BY <1>2 DEF c, w, Page!Close, Page!Stopped, Page!Runs
  <2> QED
    BY <1>6, <1>11, <1>16, <2>1
<1>18. /\ RunsSound(a_leases, p.visible, gs) /\ Page!Disjoint(gs)
       /\ Page!NewestOpen(p, gs) /\ HeldOn(hs, gs)
  <2>1. p.on \in BOOLEAN /\ p.visible \in BOOLEAN /\ p.deleting \in BOOLEAN
    BY <1>6, <1>8
  <2>2. p.on /\ hs[Len(hs)].key = Page!Key(p) /\ hs[Len(hs)].deleting = p.deleting
          => ~hs[Len(hs)].closed
    BY <1>17
  <2> HIDE DEF n
  <2>3. Page!Key(p) \in SUBSET Camera
    BY <1>8
  <2> QED
    BY <1>12, <1>13, <1>14, <1>15, <2>1, <2>2, <2>3, EffectsRun
<1>19. Page!RunsOK'
  BY <1>1, <1>3, <1>18 DEF Page!RunsOK, RunsSound
<1>20. Page!NoForgottenLease'
  <2>1. \A i \in 1..n : Page!Held(hs[i]) = Page!Held(a_holders[i])
    BY <1>10, <1>11
  <2>2. Len(gs) \in Nat
    BY <1>18 DEF RunsSound
  <2>3. \A i \in 1..n : i \in 1..Len(gs) /\ Page!Held(gs[i]) = Page!Held(a_holders[i])
    BY <1>2, <1>11, <1>18, <2>1, <2>2 DEF HeldOn
  <2> QED
    BY <1>1, <1>3, <2>3 DEF Page!WatchInv, Page!NoForgottenLease
<1>21. Page!TypeOK'
  <2>1. a_moves' \in 0..MaxMoves
    BY <1>1, PageFields
  <2>2. a_page'.query + Page!Count(a_page'.listing) + Page!Count(Page!IsBusy(a_page')) <= 1 + 2 * a_moves'
    BY <1>1, <1>6, PageFields DEF Page!Count, Page!IsBusy
  <2>3. Page!IsBusy(a_page') <=> a_page'.on /\ a_page'.deleting
    BY <1>1, <1>5, <1>6 DEF Page!IsBusy
  <2> QED
    BY <1>1, <1>6, <2>1, <2>2, <2>3 DEF Page!WatchInv, Page!TypeOK
<1>22. Page!QueriesOK' /\ Page!ActionOK' /\ Deletes /\ Answers
  BY <1>1, <1>6, <1>7 DEF Page!WatchInv, Page!QueriesOK, Page!ActionOK, Deletes, Answers
<1> QED
  BY <1>19, <1>20, <1>21, <1>22 DEF StepSafe, Page!WatchInv

\* A request of one run is answered, or gives up: the others go on as they were.
LEMMA OneRunMoves ==
    ASSUME Page!WatchInv, NEW i \in 1..Len(a_holders), NEW h \in Page!Runs,
           ~Page!Finished(a_holders[i]), Page!HolderIs(i, h), a_page' = a_page,
           Page!RunSound(a_leases', a_page.visible, h),
           h.closed = a_holders[i].closed, h.key = a_holders[i].key,
           h.deleting = a_holders[i].deleting, h.awaited = a_holders[i].awaited,
           \A j \in 1..Len(a_holders) : j # i =>
              /\ Page!RunSound(a_leases', a_page.visible, a_holders[j])
              /\ Page!Held(h) \cap Page!Held(a_holders[j]) = {}
    PROVE  /\ Page!RunsOK' /\ Page!ActionOK' /\ Len(a_holders') = Len(a_holders)
           /\ Page!Held(a_holders'[i]) = Page!Held(h)
           /\ \A j \in 1..Len(a_holders) : j # i => Page!Held(a_holders'[j]) = Page!Held(a_holders[j])
<1> DEFINE n == Len(a_holders)
           gs == [a_holders EXCEPT ![i] = Page!Advance(h, a_page.visible)]
<1>1. /\ Page!Disjoint(a_holders) /\ Page!NewestOpen(a_page, a_holders)
      /\ a_holders \in Seq(Page!Runs) /\ n \in Nat /\ n \in 1..n /\ n >= 1
  BY RunsApart DEF Page!WatchInv
<1>2. a_holders' = gs /\ a_page.visible \in BOOLEAN
  BY PageFields, ScreenFields DEF Page!HolderIs
<1>3. a_holders # <<>>
  BY <1>1
<1>4. MovedOn(a_holders, a_leases', a_page.visible, i, h, gs)
  <2>1. MovesOn(a_holders, a_leases', a_page.visible, i, h)
    BY <1>1, <1>2, <1>3 DEF MovesOn
  <2> QED
    BY <2>1, HolderStep
<1> HIDE DEF gs
<1>5. Page!NewestOpen(a_page, gs)
  BY <1>1, <1>4 DEF Page!NewestOpen, MovedOn
<1>6. Page!RunsOK'
  BY <1>2, <1>4, <1>5 DEF Page!RunsOK, RunsSound, MovedOn
<1>7. Page!Released => Page!Released'
  BY <1>2, <1>4 DEF Page!Released, MovedOn
<1>8. Page!ActionOK'
  BY <1>7 DEF Page!WatchInv, Page!ActionOK
<1> QED
  BY <1>2, <1>4, <1>6, <1>8 DEF MovedOn

\* What remains to be said of such a request.
LEMMA RequestSafe ==
    ASSUME Page!WatchInv, Page!RunsOK', Page!ActionOK', Page!NoForgottenLease',
           UNCHANGED <<a_kept, a_configured, a_page, a_queries, a_late, a_moves>>,
           \A l \in DOMAIN a_leases' :
              l \in Lease /\ a_leases'[l] \in [segment : Camera, left : 1..Life],
           a_lost' \subseteq Lease, a_faults' \in 0..MaxFaults
    PROVE  StepSafe
<1>1. Page!TypeOK' /\ Page!QueriesOK'
  BY DEF Page!WatchInv, Page!TypeOK, Page!QueriesOK
<1> QED
  BY <1>1 DEF StepSafe, Page!WatchInv, Deletes, Answers

\* A new lease is of no run.
LEMMA LeaseGiven ==
    ASSUME Page!WatchInv, Page!Fresh # {}, NEW s \in Camera, NEW ks, ks = Page!Given(Page!NewLease, s)
    PROVE  LET l == Page!NewLease
           IN  /\ l \in Lease /\ l \notin DOMAIN a_leases
               /\ \A i \in 1..Len(a_holders) : l \notin Page!Held(a_holders[i])
               /\ DOMAIN ks = DOMAIN a_leases \cup {l} /\ ks[l] = [segment |-> s, left |-> Life]
               /\ \A k \in DOMAIN a_leases : ks[k] = a_leases[k]
               /\ \A k \in DOMAIN ks : k \in Lease /\ ks[k] \in [segment : Camera, left : 1..Life]
<1> DEFINE l == Page!NewLease
<1>1. l \in Page!Fresh
  BY DEF Page!NewLease
<1>2. l \in Lease /\ l \notin DOMAIN a_leases /\ \A i \in 1..Len(a_holders) : l \notin Page!Held(a_holders[i])
  BY <1>1 DEF Page!Fresh
<1> HIDE DEF l
<1>3. ks = [k \in DOMAIN a_leases \cup {l} |->
              IF k = l THEN [segment |-> s, left |-> Life] ELSE a_leases[k]]
  BY DEF Page!Given, l
<1>4. /\ DOMAIN ks = DOMAIN a_leases \cup {l} /\ ks[l] = [segment |-> s, left |-> Life]
      /\ \A k \in DOMAIN a_leases : ks[k] = a_leases[k]
  BY <1>2, <1>3
<1>5. [segment |-> s, left |-> Life] \in [segment : Camera, left : 1..Life]
  BY WatchConstants
<1>6. \A k \in DOMAIN a_leases : k \in Lease /\ a_leases[k] \in [segment : Camera, left : 1..Life]
  BY DEF Page!WatchInv, Page!TypeOK
<1>7. \A k \in DOMAIN ks : k \in Lease /\ ks[k] \in [segment : Camera, left : 1..Life]
  BY <1>2, <1>4, <1>5, <1>6
<1> QED
  BY <1>2, <1>4, <1>7 DEF l

\* A lease is given to the run that asked for it.
LEMMA CreateSafe ==
    ASSUME Page!WatchInv, NEW i \in 1..Len(a_holders), NEW s \in Camera,
           Page!create_playback_lease(i, s)
    PROVE  StepSafe
<1> DEFINE g == a_holders[i]
           l == Page!NewLease
           h == [g EXCEPT !.round.asked = @ \ {s}, !.round.got = @ \cup {l}]
<1>1. /\ g.round # None /\ s \in g.round.asked /\ Page!Fresh # {} /\ a_leases' = Page!Given(l, s)
      /\ Page!HolderIs(i, h) /\ a_lost' = a_lost \ {l}
      /\ UNCHANGED <<a_kept, a_configured, a_page, a_queries, a_late, a_moves, a_faults>>
  BY DEF Page!create_playback_lease, Page!Asks, Page!bounds
<1>2. /\ l \in Lease /\ l \notin DOMAIN a_leases
      /\ \A j \in 1..Len(a_holders) : l \notin Page!Held(a_holders[j])
      /\ DOMAIN a_leases' = DOMAIN a_leases \cup {l} /\ a_leases'[l] = [segment |-> s, left |-> Life]
      /\ \A k \in DOMAIN a_leases : a_leases'[k] = a_leases[k]
      /\ \A k \in DOMAIN a_leases' : k \in Lease /\ a_leases'[k] \in [segment : Camera, left : 1..Life]
  BY <1>1, LeaseGiven
<1> HIDE DEF l
<1>3. /\ Page!Disjoint(a_holders)
      /\ \A j \in 1..Len(a_holders) :
           a_holders[j] \in Page!Runs /\ Page!RunSound(a_leases, a_page.visible, a_holders[j])
  BY RunsApart DEF Page!WatchInv
<1>4. /\ h \in Page!Runs /\ Page!RunSound(a_leases', a_page.visible, h)
      /\ Page!Held(h) = Page!Held(g) \cup {l}
      /\ h.closed = g.closed /\ h.key = g.key /\ h.deleting = g.deleting /\ h.awaited = g.awaited
  <2>1. Gets(g, a_leases, a_page.visible, s, l, a_leases', h)
    BY <1>1, <1>2, <1>3 DEF Gets
  <2> HIDE DEF g, h
  <2> QED
    BY <2>1, RunGets
<1>5. ~Page!Finished(g)
  BY <1>1 DEF Page!Finished
<1> HIDE DEF h
<1>6. ASSUME NEW j \in 1..Len(a_holders), j # i
      PROVE  /\ Page!RunSound(a_leases', a_page.visible, a_holders[j])
             /\ Page!Held(h) \cap Page!Held(a_holders[j]) = {}
  <2>1. Page!RunSound(a_leases', a_page.visible, a_holders[j])
    BY <1>2, <1>3, SoundOver
  <2> QED
    BY <1>2, <1>3, <1>4, <1>6, <2>1 DEF Page!Disjoint
<1>7. /\ Page!RunsOK' /\ Page!ActionOK' /\ Len(a_holders') = Len(a_holders)
      /\ Page!Held(a_holders'[i]) = Page!Held(h)
      /\ \A j \in 1..Len(a_holders) : j # i => Page!Held(a_holders'[j]) = Page!Held(a_holders[j])
  <2> HIDE DEF g
  <2>1. /\ h.closed = a_holders[i].closed /\ h.key = a_holders[i].key
        /\ h.deleting = a_holders[i].deleting /\ h.awaited = a_holders[i].awaited
        /\ ~Page!Finished(a_holders[i])
    BY <1>4, <1>5 DEF g
  <2> QED
    BY <1>1, <1>4, <1>6, <2>1, OneRunMoves
<1>8. \A j \in 1..Len(a_holders) : Page!Held(a_holders[j]) \subseteq Page!Held(a_holders'[j])
  BY <1>4, <1>7
<1>9. Page!NoForgottenLease'
  BY <1>1, <1>2, <1>4, <1>7, <1>8 DEF Page!WatchInv, Page!NoForgottenLease
<1>10. a_lost' \subseteq Lease /\ a_faults' \in 0..MaxFaults
  BY <1>1, PageFields DEF Page!WatchInv, Page!TypeOK
<1> QED
  BY <1>1, <1>2, <1>7, <1>9, <1>10, RequestSafe

\* A lease is refused, or nothing is heard of it, whether it was given or not.
LEMMA UnansweredSafe ==
    ASSUME Page!WatchInv, NEW i \in 1..Len(a_holders), NEW s \in Camera,
           Page!LeaseRefused(i, s) \/ Page!LeaseFails(i, s)
    PROVE  StepSafe
<1> DEFINE g == a_holders[i]
           l == Page!NewLease
           h == [g EXCEPT !.round.asked = @ \ {s}, !.round.all = FALSE]
<1>1. /\ g.round # None /\ s \in g.round.asked /\ Page!HolderIs(i, h)
      /\ \/ UNCHANGED <<a_leases, a_lost>>
         \/ Page!Fresh # {} /\ a_leases' = Page!Given(l, s) /\ a_lost' = a_lost \cup {l}
      /\ a_faults' = a_faults \/ (a_faults < MaxFaults /\ a_faults' = a_faults + 1)
      /\ UNCHANGED <<a_kept, a_configured, a_page, a_queries, a_late, a_moves>>
  BY DEF Page!LeaseRefused, Page!LeaseFails, Page!Unanswered, Page!Asks, Page!bounds, Page!service
<1>2. /\ \A k \in DOMAIN a_leases : k \in DOMAIN a_leases' /\ a_leases'[k] = a_leases[k]
      /\ \A k \in DOMAIN a_leases' : k \in DOMAIN a_leases \/ k \in a_lost'
      /\ \A k \in DOMAIN a_leases' : k \in Lease /\ a_leases'[k] \in [segment : Camera, left : 1..Life]
      /\ a_lost' \subseteq Lease /\ a_lost \subseteq a_lost'
  <2>1. CASE UNCHANGED <<a_leases, a_lost>>
    BY <2>1 DEF Page!WatchInv, Page!TypeOK
  <2>2. CASE Page!Fresh # {} /\ a_leases' = Page!Given(l, s) /\ a_lost' = a_lost \cup {l}
    <3>1. /\ l \in Lease /\ DOMAIN a_leases' = DOMAIN a_leases \cup {l}
          /\ \A k \in DOMAIN a_leases : a_leases'[k] = a_leases[k]
          /\ \A k \in DOMAIN a_leases' : k \in Lease /\ a_leases'[k] \in [segment : Camera, left : 1..Life]
      BY <2>2, LeaseGiven
    <3>2. a_lost \subseteq Lease
      BY DEF Page!WatchInv, Page!TypeOK
    <3> HIDE DEF l
    <3> QED
      BY <2>2, <3>1, <3>2
  <2> QED
    BY <1>1, <2>1, <2>2
<1>3. /\ Page!Disjoint(a_holders)
      /\ \A j \in 1..Len(a_holders) :
           a_holders[j] \in Page!Runs /\ Page!RunSound(a_leases, a_page.visible, a_holders[j])
  BY RunsApart DEF Page!WatchInv
<1>4. h \in Page!Runs /\ Page!RunSound(a_leases, a_page.visible, h) /\ Same(g, h)
  BY <1>1, <1>3, RunMisses
<1>5. ~Page!Finished(g)
  BY <1>1 DEF Page!Finished
<1> HIDE DEF h
<1>6. Page!RunSound(a_leases', a_page.visible, h)
  BY <1>2, <1>4, SoundOver
<1>7. ASSUME NEW j \in 1..Len(a_holders), j # i
      PROVE  /\ Page!RunSound(a_leases', a_page.visible, a_holders[j])
             /\ Page!Held(h) \cap Page!Held(a_holders[j]) = {}
  <2>1. Page!RunSound(a_leases', a_page.visible, a_holders[j])
    BY <1>2, <1>3, SoundOver
  <2> QED
    BY <1>3, <1>4, <1>7, <2>1 DEF Page!Disjoint, Same
<1>8. /\ Page!RunsOK' /\ Page!ActionOK' /\ Len(a_holders') = Len(a_holders)
      /\ Page!Held(a_holders'[i]) = Page!Held(h)
      /\ \A j \in 1..Len(a_holders) : j # i => Page!Held(a_holders'[j]) = Page!Held(a_holders[j])
  <2> HIDE DEF g
  <2>1. /\ h.closed = a_holders[i].closed /\ h.key = a_holders[i].key
        /\ h.deleting = a_holders[i].deleting /\ h.awaited = a_holders[i].awaited
        /\ ~Page!Finished(a_holders[i])
    BY <1>4, <1>5 DEF g, Same
  <2> QED
    BY <1>1, <1>4, <1>6, <1>7, <2>1, OneRunMoves
<1>9. Page!NoForgottenLease'
  <2>1. \A j \in 1..Len(a_holders) : Page!Held(a_holders'[j]) = Page!Held(a_holders[j])
    BY <1>4, <1>8 DEF Same
  <2> QED
    BY <1>2, <1>8, <2>1 DEF Page!WatchInv, Page!NoForgottenLease
<1>10. a_faults' \in 0..MaxFaults
  BY <1>1, PageFields
<1> QED
  BY <1>1, <1>2, <1>8, <1>9, <1>10, RequestSafe

\* A lease is given back, or the request to do so is lost.
LEMMA ReleaseSafe ==
    ASSUME Page!WatchInv, NEW i \in 1..Len(a_holders), NEW l \in Lease,
           Page!release_playback_lease(i, l) \/ Page!ReleaseFails(i, l)
    PROVE  StepSafe
<1> DEFINE g == a_holders[i]
           h == IF l \in g.giving THEN [g EXCEPT !.giving = @ \ {l}]
                ELSE [g EXCEPT !.round.giving = @ \ {l}]
<1>1. /\ l \in Page!Giving(g) /\ Page!HolderIs(i, h)
      /\ \/ a_leases' = Page!Without({l}) /\ a_lost' = a_lost
         \/ a_leases' = a_leases /\ a_lost' = IF l \in DOMAIN a_leases THEN a_lost \cup {l} ELSE a_lost
      /\ a_faults' = a_faults \/ (a_faults < MaxFaults /\ a_faults' = a_faults + 1)
      /\ UNCHANGED <<a_kept, a_configured, a_page, a_queries, a_late, a_moves>>
  BY DEF Page!release_playback_lease, Page!ReleaseFails, Page!Relinquishes, Page!bounds
<1>2. /\ \A k \in DOMAIN a_leases : k # l => k \in DOMAIN a_leases' /\ a_leases'[k] = a_leases[k]
      /\ \A k \in DOMAIN a_leases' : /\ k \in DOMAIN a_leases /\ (k # l \/ k \in a_lost')
                                     /\ a_leases'[k] = a_leases[k]
      /\ a_lost' \subseteq Lease /\ a_lost \subseteq a_lost'
  <2>1. a_lost \subseteq Lease
    BY DEF Page!WatchInv, Page!TypeOK
  <2> QED
    BY <1>1, <2>1 DEF Page!Without
<1>3. /\ Page!Disjoint(a_holders)
      /\ \A j \in 1..Len(a_holders) :
           a_holders[j] \in Page!Runs /\ Page!RunSound(a_leases, a_page.visible, a_holders[j])
  BY RunsApart DEF Page!WatchInv
<1>4. /\ h \in Page!Runs /\ Page!RunSound(a_leases', a_page.visible, h)
      /\ Page!Held(h) \subseteq Page!Held(g) /\ Page!Held(g) \subseteq Page!Held(h) \cup {l}
      /\ h.closed = g.closed /\ h.key = g.key /\ h.deleting = g.deleting /\ h.awaited = g.awaited
  <2>1. g \in Page!Runs /\ Page!RunSound(a_leases, a_page.visible, g) /\ l \in Page!Giving(g)
    BY <1>1, <1>3
  <2>2. \A k \in DOMAIN a_leases : k # l => k \in DOMAIN a_leases' /\ a_leases'[k] = a_leases[k]
    BY <1>2
  <2>3. h = IF l \in g.giving THEN [g EXCEPT !.giving = @ \ {l}]
            ELSE [g EXCEPT !.round.giving = @ \ {l}]
    OBVIOUS
  <2> HIDE DEF g, h
  <2> QED
    BY <2>1, <2>2, <2>3, RunGives
<1> HIDE DEF h
<1>5. l \in Page!Held(g) /\ ~Page!Finished(g)
  BY <1>1 DEF Page!Giving, Page!Held, Page!Finished
<1>6. ASSUME NEW j \in 1..Len(a_holders), j # i
      PROVE  /\ Page!RunSound(a_leases', a_page.visible, a_holders[j])
             /\ Page!Held(h) \cap Page!Held(a_holders[j]) = {}
  <2>1. l \notin Page!Held(a_holders[j])
    BY <1>3, <1>5, <1>6 DEF Page!Disjoint
  <2>2. Live(a_holders[j]) \subseteq Page!Held(a_holders[j])
    BY DEF Live, Page!Held
  <2>3. Page!RunSound(a_leases', a_page.visible, a_holders[j])
    BY <1>2, <1>3, <2>1, <2>2, SoundOver
  <2> QED
    BY <1>3, <1>4, <1>6, <2>3 DEF Page!Disjoint
<1>7. /\ Page!RunsOK' /\ Page!ActionOK' /\ Len(a_holders') = Len(a_holders)
      /\ Page!Held(a_holders'[i]) = Page!Held(h)
      /\ \A j \in 1..Len(a_holders) : j # i => Page!Held(a_holders'[j]) = Page!Held(a_holders[j])
  <2> HIDE DEF g
  <2>1. /\ h.closed = a_holders[i].closed /\ h.key = a_holders[i].key
        /\ h.deleting = a_holders[i].deleting /\ h.awaited = a_holders[i].awaited
        /\ ~Page!Finished(a_holders[i])
    BY <1>4, <1>5 DEF g
  <2> QED
    BY <1>1, <1>4, <1>6, <2>1, OneRunMoves
<1>8. Page!NoForgottenLease'
  <2>1. \A j \in 1..Len(a_holders) : \A k \in Page!Held(a_holders[j]) : k = l \/ k \in Page!Held(a_holders'[j])
    BY <1>4, <1>7
  <2> QED
    BY <1>2, <1>7, <2>1 DEF Page!WatchInv, Page!NoForgottenLease
<1>9. /\ a_faults' \in 0..MaxFaults
      /\ \A k \in DOMAIN a_leases' : k \in Lease /\ a_leases'[k] \in [segment : Camera, left : 1..Life]
  BY <1>1, <1>2, PageFields DEF Page!WatchInv, Page!TypeOK
<1> QED
  BY <1>1, <1>2, <1>7, <1>8, <1>9, RequestSafe

\* Every step of the page keeps its invariant.
LEMMA PageStepSafe ==
    ASSUME Page!WatchInv, Page!Next
    PROVE  StepSafe
<1>1. CASE Page!QueryStep \/ \E q \in a_queries : Page!QueryFails(q)
  BY <1>1, ServeSafe, AnswerSafe, QueryFailsSafe DEF Page!QueryStep
<1>2. CASE Page!CatalogAnswered \/ Page!CatalogFails
  BY <1>2, CatalogSafe, CatalogFailsSafe
<1>3. CASE Page!RefreshAll \/ Page!Hide \/ Page!Show \/ Page!Leave \/ Page!Tick
  BY <1>3, RefreshSafe, HideSafe, ShowSafe, LeaveSafe, TickSafe
<1>4. CASE Page!SendDelete \/ Page!ExecuteDelete \/ Page!DeleteAnswered \/ Page!DeleteTimesOut
  BY <1>4, DeletionSafe, DeleteAnsweredSafe, DeleteTimesOutSafe
<1>5. CASE \E i \in 1..Len(a_holders) : Page!LeaseRequest(i) \/ Page!LeaseFault(i)
  <2> PICK i \in 1..Len(a_holders) : Page!LeaseRequest(i) \/ Page!LeaseFault(i)
    BY <1>5
  <2>1. CASE \E s \in Camera : Page!create_playback_lease(i, s)
    BY <2>1, CreateSafe
  <2>2. CASE \E s \in Camera : Page!LeaseRefused(i, s) \/ Page!LeaseFails(i, s)
    BY <2>2, UnansweredSafe
  <2>3. CASE \E l \in Lease : Page!release_playback_lease(i, l) \/ Page!ReleaseFails(i, l)
    BY <2>3, ReleaseSafe
  <2> QED
    BY <2>1, <2>2, <2>3 DEF Page!LeaseRequest, Page!LeaseFault
<1>6. CASE \E c \in Camera : Page!Toggle(c) \/ Page!Reconfigure(c) \/ Page!Retain(c)
                             \/ Page!Delete(c) \/ Page!Arrives(c)
  BY <1>6, ToggleSafe, OthersSafe, DeleteSafe
<1>7. CASE \E c \in Cursor : Page!Seek(c)
  BY <1>7, SeekSafe
<1> QED
  BY <1>1, <1>2, <1>3, <1>4, <1>5, <1>6, <1>7 DEF Page!Next

\* The page as it is opened: one run that holds nothing.
LEMMA PageOpens == Page!Init => Page!WatchInv
<1> SUFFICES ASSUME Page!Init PROVE Page!WatchInv
  OBVIOUS
<1> DEFINE h == Page!NewHolder({}, FALSE)
           p == Page!NewPage
           r == Page!NewResult
<1>1. /\ a_kept = Camera /\ a_configured = Camera /\ a_leases = [l \in {} |-> None] /\ a_page = p
      /\ a_queries = {} /\ a_holders = <<h>> /\ a_late = {} /\ a_lost = {} /\ a_moves = 0 /\ a_faults = 0
  BY DEF Page!Init
<1>2. r \in Page!Results /\ r.query = 0 /\ r.document = {} /\ r.selection = {} /\ ~r.loading
  BY DEF Page!NewResult, Page!Results
<1>3. (CHOOSE c \in Cursor : TRUE) \in Cursor
  BY WatchConstants
<1>4. /\ p \in Page!Screens /\ p.on = TRUE /\ p.visible = TRUE /\ p.listing = TRUE /\ p.query = 0 /\ p.action = None
      /\ p.deleting = FALSE /\ p.result = r
  BY <1>2, <1>3 DEF Page!NewPage, Page!Screens
<1>5. /\ h \in Page!Runs /\ h.round = None /\ h.key = {} /\ h.deleting = FALSE /\ h.closed = FALSE
      /\ h.giving = {} /\ h.ids = {} /\ h.sure = FALSE
  BY DEF Page!NewHolder, Page!Runs
<1> HIDE DEF h, p, r
<1>6. Page!TypeOK
  <2>1. DOMAIN a_leases = {}
    BY <1>1
  <2>2. MaxMoves \in Nat /\ MaxFaults \in Nat
    BY WatchConstants
  <2>3. a_page.query + Page!Count(a_page.listing) + Page!Count(Page!IsBusy(a_page)) <= 1 + 2 * a_moves
    BY <1>1, <1>4 DEF Page!Count, Page!IsBusy
  <2> QED
    BY <1>1, <1>4, <2>1, <2>2, <2>3 DEF Page!TypeOK, Page!IsBusy
<1>7. Page!QueriesOK
  BY <1>1, <1>2, <1>4 DEF Page!QueriesOK
<1>8. Page!RunsOK
  <2>1. /\ a_holders \in Seq(Page!Runs) /\ a_holders # <<>> /\ Len(a_holders) = 1 /\ a_holders[1] = h
        /\ \A i \in 1..Len(a_holders) : i = 1
    BY <1>1, <1>5
  <2>2. Page!Disjoint(a_holders)
    BY <2>1 DEF Page!Disjoint
  <2>3. Page!Key(p) = {}
    BY <1>2, <1>4 DEF Page!Key, Page!Timeline
  <2>4. Page!NewestOpen(a_page, a_holders)
    <3>1. a_holders[Len(a_holders)] = h /\ \A i \in 1..Len(a_holders) : ~(i < Len(a_holders))
      BY <2>1
    <3> QED
      BY <1>1, <1>4, <1>5, <2>3, <3>1 DEF Page!NewestOpen
  <2>5. Page!RunSound(a_leases, a_page.visible, h)
    BY <1>5 DEF Page!RunSound
  <2> QED
    BY <2>1, <2>2, <2>4, <2>5 DEF Page!RunsOK
<1>9. Page!ActionOK /\ Page!NoForgottenLease
  BY <1>1, <1>4 DEF Page!ActionOK, Page!NoForgottenLease
<1> QED
  BY <1>6, <1>7, <1>8, <1>9 DEF Page!WatchInv

\* Nothing changes.
LEMMA PageRests ==
    ASSUME Page!WatchInv, UNCHANGED PageVars
    PROVE  StepSafe
  BY DEF PageVars, StepSafe, Deletes, Answers, Page!WatchInv, Page!TypeOK, Page!QueriesOK, Page!RunsOK,
     Page!ActionOK, Page!NoForgottenLease, Page!Released

\* A step of the whole is a step of the page, or leaves it alone.
LEMMA PageOfAll == [AnyNext]_all => [Page!Next]_PageVars
  BY DEF AnyNext, all, PageVars

\* The page's invariant holds beside the other systems too.
LEMMA PageInvariant == AnySpec => []Page!WatchInv
<1>1. AnyInit => Page!WatchInv
  BY PageOpens DEF AnyInit
<1>2. Page!WatchInv /\ [AnyNext]_all => Page!WatchInv'
  BY PageStepSafe, PageRests, PageOfAll DEF StepSafe
<1> QED
  BY <1>1, <1>2, PTL DEF AnySpec

\* The timeline that is shown is of the selection, from the latest query.
LEMMA LatestShown == Page!WatchInv => Page!ShownIsLatest
<1> SUFFICES ASSUME Page!WatchInv, a_page.on, Page!Timeline(a_page) # {}
             PROVE  a_page.result.query = a_page.query /\ Page!Timeline(a_page) \subseteq a_page.selection
  BY DEF Page!ShownIsLatest
<1> QED
  BY DEF Page!WatchInv, Page!QueriesOK, Page!Timeline

\* What a sure run shows has leases, and whoever deletes asks about them.
LEMMA ShownIsKept ==
    Page!WatchInv /\ [Page!Next]_PageVars =>
        [\A s \in a_kept \ a_kept' :
           ~(a_page.on /\ a_page.visible /\ Page!Newest.sure /\ s \in Page!Newest.key)]_(Page!vars)
<1> SUFFICES ASSUME Page!WatchInv, [Page!Next]_PageVars, NEW s \in a_kept \ a_kept',
                    a_page.on, Page!Newest.sure, s \in Page!Newest.key
             PROVE  FALSE
  OBVIOUS
<1>1. ~Page!_segment_active(s)
  BY PageStepSafe, PageRests DEF StepSafe, Deletes
<1>2. /\ Len(a_holders) \in 1..Len(a_holders) /\ Page!RunSound(a_leases, a_page.visible, Page!Newest)
      /\ ~Page!Newest.closed
  BY RunsApart DEF Page!WatchInv, Page!Newest, Page!NewestOpen
<1>3. \E l \in Page!Newest.ids : \E n : Page!Protects(a_leases, l, s, n)
  BY <1>2 DEF Page!RunSound
<1>4. Page!_segment_active(s)
  BY <1>3 DEF Page!Protects, Page!_segment_active, Page!LeasesOf
<1> QED
  BY <1>1, <1>4

\* When a deletion is refused, the run it stopped holds nothing any more.
LEMMA StoppedYields ==
    Page!WatchInv /\ [Page!Next]_PageVars =>
        [(a_page.action # None /\ a_page'.action # None /\ a_page'.action.answer = "conflict") =>
           \A l \in Page!LeasesOf(a_page.action.segment) :
              l \in a_lost \/ \E i \in 1..Len(a_holders) :
                 ~a_holders[i].awaited /\ l \in Page!Held(a_holders[i])]_(Page!vars)
<1> SUFFICES ASSUME Page!WatchInv, [Page!Next]_PageVars, a_page.action # None, a_page'.action # None,
                    a_page'.action.answer = "conflict", NEW l \in Page!LeasesOf(a_page.action.segment),
                    l \notin a_lost
             PROVE  \E i \in 1..Len(a_holders) : ~a_holders[i].awaited /\ l \in Page!Held(a_holders[i])
  OBVIOUS
<1>1. a_page'.action.answer = a_page.action.answer \/ a_page.action.stage = "sent"
  BY PageStepSafe, PageRests DEF StepSafe, Answers
<1>2. Page!Released
  BY <1>1, WatchConstants DEF Page!WatchInv, Page!ActionOK
<1>3. PICK i \in 1..Len(a_holders) : l \in Page!Held(a_holders[i])
  BY DEF Page!WatchInv, Page!NoForgottenLease, Page!LeasesOf
<1>4. ~a_holders[i].awaited
  BY <1>2, <1>3 DEF Page!Released, Page!Finished
<1> QED
  BY <1>3, <1>4

\* Every lease the service counts is held by a run that gives it back, the
\* timeline answers the latest query, what a visible page has leased is
\* deleted by nobody, and its own deletion does not meet its own lease.
THEOREM WatchingSafe == AnySpec => WatchingIsSafe
<1>1. [AnyNext]_all => [Page!Next]_PageVars
  BY PageOfAll
<1>2. Page!WatchInv => Page!NoForgottenLease /\ Page!ShownIsLatest
  BY LatestShown DEF Page!WatchInv
<1>3. AnySpec => []((part = "page") => Page!WatchInv /\ Page!NoForgottenLease /\ Page!ShownIsLatest)
  BY <1>2, PageInvariant, PTL
<1>4. AnySpec => Page!WatchedIsKept
  BY <1>1, PageInvariant, ShownIsKept, PTL DEF AnySpec, Page!WatchedIsKept
<1>5. AnySpec => Page!OwnLeaseYields
  BY <1>1, PageInvariant, StoppedYields, PTL DEF AnySpec, Page!OwnLeaseYields
<1> QED
  BY <1>3, <1>4, <1>5 DEF WatchingIsSafe

=============================================================================
