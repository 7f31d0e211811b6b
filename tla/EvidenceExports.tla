---------------------------- MODULE EvidenceExports ---------------------------
(* The evidence exports side by side: the service's jobs (ExportJobs), the  *)
(* page that submits them (ExportSubmission), and the timeline page the     *)
(* segments are watched and deleted from (ArchivePage).  A behaviour is one *)
(* of one of the three; the others rest.                                    *)
EXTENDS ExportJobs, Sequences

CONSTANTS
    Request,    \* request ids of the submitting page
    Camera,     \* cameras of the timeline, each with one segment
    Cursor,     \* positions on its day
    Covers,     \* the segments under each position
    Lease,      \* ids of playback leases
    Life,       \* renewals a lease lasts for
    MaxFaults, MaxLeaves, MaxMoves

\* What is absent is no request id, no answer and no round, action or
\* answer of the timeline; a lease outlives the round that renews it.
ASSUME RequestAssumption ==
    /\ None \notin Request \cup {"active", "cancelling", "done", "refused", "begun"}
    /\ MaxFaults \in Nat /\ MaxLeaves \in Nat /\ MaxMoves \in Nat
    /\ None \notin {"gone", "conflict", "deleted"} /\ Cursor # {} /\ \A S \in SUBSET Camera : S # None
    /\ Life \in Nat /\ Life > 1

VARIABLES
    part,   \* which of the systems this behaviour is of
    e_job, e_cancelling, e_late, e_page, e_stored, e_sent, e_known, e_reopened, e_withheld,
    e_faults, e_leaves,
    a_kept, a_leases, a_configured, a_page, a_queries, a_holders, a_late,
    a_lost, a_moves, a_faults

Submission == INSTANCE ExportSubmission WITH
    job <- e_job, cancelling <- e_cancelling, late <- e_late, page <- e_page, stored <- e_stored,
    sent <- e_sent, known <- e_known, reopened <- e_reopened, withheld <- e_withheld,
    faults <- e_faults, leaves <- e_leaves
SubmissionVars == <<e_job, e_cancelling, e_late, e_page, e_stored, e_sent, e_known, e_reopened,
    e_withheld, e_faults, e_leaves>>
Page == INSTANCE ArchivePage WITH
    kept <- a_kept, leases <- a_leases,
    configured <- a_configured, page <- a_page, queries <- a_queries,
    holders <- a_holders, late <- a_late, lost <- a_lost, moves <- a_moves,
    faults <- a_faults
PageVars == <<a_kept, a_leases, a_configured, a_page, a_queries, a_holders, a_late,
    a_lost, a_moves, a_faults>>

ASSUME WatchAssumption == None \notin Page!Rounds /\ None \notin Page!Actions

all == <<part, vars, SubmissionVars, PageVars>>

AnyInit ==
    /\ part \in {"jobs", "submission", "page"}
    /\ Init
    /\ Submission!Init
    /\ Page!Init

\* Only the system of the behaviour moves.
AnyNext ==
    \/ part = "jobs" /\ Next /\ UNCHANGED <<part, SubmissionVars, PageVars>>
    \/ part = "submission" /\ Submission!Next /\ UNCHANGED <<part, vars, PageVars>>
    \/ part = "page" /\ Page!Next /\ UNCHANGED <<part, vars, SubmissionVars>>

\* The fairness of each system: as the part never changes, a condition on
\* the steps of several of them is one on those of the part.
BaseStep(A) == part = "jobs" /\ A /\ UNCHANGED <<part, SubmissionVars, PageVars>>
SubmissionStep(A) == part = "submission" /\ A /\ UNCHANGED <<part, vars, PageVars>>
PageStep(A) == part = "page" /\ A /\ UNCHANGED <<part, vars, SubmissionVars>>
Fairly ==
    /\ WF_all(\/ BaseStep(CancelStep)
              \/ SubmissionStep(Submission!Ready)
              \/ PageStep(Page!Tick))
    /\ WF_all(\/ BaseStep(RecoverStep)
              \/ SubmissionStep(Submission!Refresh)
              \/ PageStep(Page!QueryStep))
    /\ WF_all(\/ BaseStep(\E d \in Direct : ExporterStep(d))
              \/ SubmissionStep(Submission!List)
              \/ PageStep(Page!CatalogAnswered))
    /\ WF_all(\/ SubmissionStep(Submission!Listed)
              \/ PageStep(Page!SendDelete \/ Page!ExecuteDelete))
    /\ WF_all(\/ SubmissionStep(Submission!Execute \/ Submission!ExecuteCancel)
              \/ PageStep(Page!DeleteAnswered))
    /\ WF_all(\/ SubmissionStep(Submission!Answer)
              \/ PageStep(\E i \in 1..(Len(a_holders) - 1) : Page!LeaseRequest(i)))
    /\ WF_all(\/ SubmissionStep(Submission!CancelWrites)
              \/ PageStep(Page!LeaseRequest(Len(a_holders))))
    /\ SF_all(BaseStep(WorkerStep))
AnySpec == AnyInit /\ [][AnyNext]_all /\ Fairly

\* A submission whose outcome nobody has seen stays in the tab through
\* failures, reloads and polls (useNvrExportJobs.ts:46-52, 107-110), and no
\* late list takes back a job, or an end of it, that the page has shown
\* (useNvrExportJobs.ts:58-61, 101), unless a cancellation was written over
\* that end (evidence.py:200) or the account was not to see the job.
SubmissionKept ==
    /\ []((part = "submission") => Submission!SubmissionInv /\ Submission!UncertainIsKept)
    /\ Submission!NeverBackwards

\* A playback lease the service counts is held by a run of the page's effect
\* that gives it back, unless its answer or release was lost
\* (NvrTimeline.tsx:98-109), and the timeline shown answers the latest
\* query (useNvrArchiveQuery.ts:53-64). What a visible page shows and has
\* leased is deleted by nobody (NvrTimeline.tsx:92-104,
\* nvr_service.py:1563), and its own deletion is not refused because of the
\* lease it was to hand back before (NvrTimeline.tsx:196-198). WatchInv says
\* what this rests on: how the runs of the effect share the leases out.
WatchingIsSafe ==
    /\ []((part = "page") => Page!WatchInv /\ Page!NoForgottenLease /\ Page!ShownIsLatest)
    /\ Page!WatchedIsKept /\ Page!OwnLeaseYields

\* A page in view whose session could be read comes to show every job the
\* service has accepted, with its submission confirmed, although answers were
\* lost (useNvrExportJobs.ts:66). A visible page that keeps showing existing
\* segments leases them in the end (NvrTimeline.tsx:111-113).
SeenInTheEnd ==
    /\ (part = "submission") => Submission!AcceptedIsShown
    /\ (part = "page") => Page!ProtectsInTheEnd
=============================================================================
