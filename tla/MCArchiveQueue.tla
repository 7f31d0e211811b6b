--------------------------- MODULE MCArchiveQueue ---------------------------
(* Two small instances of ArchiveQueue for TLC in one specification: three  *)
(* segments for the safety properties, two for liveness.  A behaviour is    *)
(* one of one of the two; the other rests.                                  *)
EXTENDS ArchiveQueue, TLC

CONSTANTS w1, w2

\* The first two segments have the same content.
Contents == [s \in Segments |-> IF s <= 2 THEN "first" ELSE "second"]

VARIABLES
    part,   \* which of the systems this behaviour is of
    s_row, s_written, s_job, s_due, s_scanned, s_pc, s_task, s_store,
    s_crashes, s_errors

Small == INSTANCE ArchiveQueue WITH
    Segments <- {1, 2}, Digest <- Contents, MAX_QUEUE <- 2, MaxFaults <- 1,
    row <- s_row, written <- s_written, job <- s_job, due <- s_due,
    scanned <- s_scanned, pc <- s_pc, task <- s_task, store <- s_store,
    crashes <- s_crashes, errors <- s_errors
SmallVars == <<s_row, s_written, s_job, s_due, s_scanned, s_pc, s_task, s_store,
    s_crashes, s_errors>>

all == <<part, vars, SmallVars>>

AnyInit ==
    /\ part \in {"queue", "small"}
    /\ Init
    /\ Small!Init

\* Only the system of the behaviour moves.
AnyNext ==
    \/ part = "queue" /\ Next /\ UNCHANGED <<part, SmallVars>>
    \/ part = "small" /\ Small!Next /\ UNCHANGED <<part, vars>>

\* The fairness of each system: as the part never changes, a condition on
\* the steps of several of them is one on those of the part.
BaseStep(A) == part = "queue" /\ A /\ UNCHANGED <<part, SmallVars>>
SmallStep(A) == part = "small" /\ A /\ UNCHANGED <<part, vars>>
Fairly ==
    /\ WF_all(SmallStep(Small!ScanRead))
    /\ WF_all(SmallStep(\E s \in {1, 2} : Small!Enqueue(s)))
    /\ \A w \in Workers : WF_all(SmallStep(Small!Work(w)))
    /\ \A s \in {1, 2} :
          /\ WF_all(SmallStep(Small!BackoffEnds(s)))
          /\ SF_all(SmallStep(\E w \in Workers : Small!Claim(w, s)))
          /\ SF_all(SmallStep(\E w \in Workers : s_task[w] = s /\ Small!Put(w, TRUE, TRUE)))
          /\ SF_all(SmallStep(\E w \in Workers : s_task[w] = s /\ Small!Verify(w, TRUE)))
AnySpec == AnyInit /\ [][AnyNext]_all /\ Fairly

\* Every segment that stays is uploaded in the end, unless one of the three
\* named losses keeps it (s3_archive.py:194-223, 245-291).
UploadedInTheEnd == (part = "small") => Small!Archived
=============================================================================
