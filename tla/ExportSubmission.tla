-------------------------- MODULE ExportSubmission --------------------------
(* The archive page's evidence exports: one action at a time (submit,       *)
(* recover, cancel), the request whose outcome is not known yet, which the  *)
(* tab keeps in its session storage, and the list of jobs the page polls    *)
(* (web/src/useNvrExportJobs.ts, NvrExportPanel.tsx). The service creates   *)
(* one job for a request id, whatever number of times it arrives            *)
(* (nvr/evidence.py; the job's own life is in ExportJobs).                  *)
EXTENDS Naturals, FiniteSets

CONSTANTS
    Request,    \* request ids, one for each click of an export button
    MaxFaults,  \* bound: lost requests or answers, a full queue, refusals
    MaxLeaves,  \* bound: the page left, reloaded or hidden
    None

VARIABLES
    job,        \* export_jobs: "none", "active", "cancelling" or "done"
    cancelling, \* the cancellation that has read its job active, or None
    late,       \* submissions and cancellations given up that may still arrive
    page,       \* the hook's refs and state, or Closed
    stored,     \* the tab's session storage: the submission to be confirmed
    sent,       \* history: requests that left the page
    known,      \* history: requests whose job or refusal the user has seen
    reopened,   \* history: jobs a cancellation wrote over their end
    withheld,   \* history: requests whose job a list was denied
    faults, leaves

vars == <<job, cancelling, late, page, stored, sent, known, reopened, withheld, faults, leaves>>
service == <<job, cancelling, late, reopened>>
bounds == <<withheld, faults, leaves>>

Closed == [is |-> "closed"]
\* action: what busyRef guards; read: the list on its way, and whether the
\* generation it was given is still the page's.
NewPage == [is |-> "opening", visible |-> TRUE, pending |-> None, action |-> None,
            read |-> None, jobs |-> [r \in {} |-> "none"]]

Init ==
    /\ job = [r \in Request |-> "none"] /\ cancelling = None
    /\ late = {}
    /\ page = Closed
    /\ stored = None
    /\ sent = {} /\ known = {} /\ reopened = {} /\ withheld = {}
    /\ faults = 0 /\ leaves = 0

IsReady == page.is = "ready"
Idle == IsReady /\ page.action = None

---------------------------------------------------------------------------
(* Opening and leaving the page.                                           *)

Open ==
    /\ page = Closed
    /\ page' = NewPage
    /\ UNCHANGED <<service, stored, sent, known, bounds>>

\* refresh: not while an action is under way; one read at a time.
BeginRead(p) ==
    IF p.read # None \/ p.action # None THEN p
    ELSE [p EXCEPT !.read = [current |-> TRUE, answer |-> None]]

\* The session tells the account, and with it the storage key.
Ready ==
    /\ page.is = "opening"
    /\ page' = BeginRead([page EXCEPT !.is = "ready", !.pending = stored])
    /\ UNCHANGED <<service, stored, sent, known, bounds>>

\* The session cannot be read: the page never gets a storage key, and every
\* later refresh, submission and recovery returns at once.
ReadyFails ==
    /\ page.is = "opening" /\ faults < MaxFaults
    /\ faults' = faults + 1
    /\ page' = [page EXCEPT !.is = "failed"]
    /\ UNCHANGED <<service, stored, sent, known, withheld, leaves>>

\* The tab is hidden; coming back into view it refreshes. Neither matters
\* before the page is ready.
Hide ==
    /\ IsReady /\ page.visible /\ leaves < MaxLeaves
    /\ page' = [page EXCEPT !.visible = FALSE]
    /\ leaves' = leaves + 1
    /\ UNCHANGED <<service, stored, sent, known, withheld, faults>>

Show ==
    /\ IsReady /\ ~page.visible
    /\ page' = BeginRead([page EXCEPT !.visible = TRUE])
    /\ UNCHANGED <<service, stored, sent, known, bounds>>

\* savePending: what is to be confirmed, on the page p and in the tab's storage.
savePending(p, r) ==
    /\ page' = [p EXCEPT !.pending = r]
    /\ stored' = r

\* The request of the action that has not been served yet.
InFlight == IF page.action # None /\ page.action.answer = None
            THEN {[kind |-> page.action.kind, request |-> page.action.request]} ELSE {}

Leave ==
    /\ page # Closed /\ leaves < MaxLeaves
    /\ late' = IF IsReady THEN late \cup InFlight ELSE late
    /\ page' = Closed
    /\ leaves' = leaves + 1
    /\ UNCHANGED <<job, cancelling, reopened, stored, sent, known, withheld, faults>>

---------------------------------------------------------------------------
(* The list.                                                               *)

\* The five-second timer of a page in view, and the button.
Refresh ==
    /\ Idle /\ page.read = None /\ page.visible
    /\ page' = BeginRead(page)
    /\ UNCHANGED <<service, stored, sent, known, bounds>>

Listing == {r \in Request : job[r] # "none"}
Listable == IsReady /\ page.read # None /\ page.read.answer = None
Lists(D) == page' = [page EXCEPT !.read.answer = [r \in D |-> job[r]]]

List ==
    /\ Listable /\ Lists(Listing)
    /\ UNCHANGED <<service, stored, sent, known, bounds>>

\* The account may not see the jobs of D now (a camera was taken from it):
\* the list leaves them out.
ListWithholds ==
    /\ Listable /\ faults < MaxFaults
    /\ faults' = faults + 1
    /\ \E D \in SUBSET Listing \ {{}} : Lists(Listing \ D) /\ withheld' = withheld \cup D
    /\ UNCHANGED <<service, stored, sent, known, leaves>>

\* As Listed, a list of an earlier generation leaving "reading" set.
ListedStuck ==
    /\ IsReady /\ page.read # None /\ page.read.answer # None /\ page.read.current
    /\ LET list == page.read.answer
           confirmed == page.pending # None /\ page.pending \in DOMAIN list
       IN /\ savePending([page EXCEPT !.read = None, !.jobs = list],
                         IF confirmed THEN None ELSE stored)
          /\ known' = known \cup DOMAIN list
    /\ UNCHANGED <<service, sent, bounds>>

\* The answer of the list: dropped when an action began meanwhile, else shown;
\* a pending submission whose job is listed is confirmed.
Listed ==
    /\ IsReady /\ page.read # None /\ page.read.answer # None
    /\ LET list == page.read.answer
           confirmed == page.pending # None /\ page.pending \in DOMAIN list
       IN IF page.read.current
          THEN /\ savePending([page EXCEPT !.read = None, !.jobs = list],
                              IF confirmed THEN None ELSE stored)
               /\ known' = known \cup DOMAIN list
          ELSE /\ page' = [page EXCEPT !.read = None]
               /\ UNCHANGED <<stored, known>>
    /\ UNCHANGED <<service, sent, bounds>>

\* The list fails; one that is refused (403) also empties what is shown,
\* unless it is of an earlier generation.
ListFails ==
    /\ IsReady /\ page.read # None /\ faults < MaxFaults
    /\ faults' = faults + 1
    /\ \/ page' = [page EXCEPT !.read = None] /\ UNCHANGED withheld
       \/ /\ page.read.current
          /\ page' = [page EXCEPT !.read = None, !.jobs = NewPage.jobs]
          /\ withheld' = withheld \cup DOMAIN page.jobs
    /\ UNCHANGED <<service, stored, sent, known, leaves>>

---------------------------------------------------------------------------
(* Actions.                                                                *)

\* As Act, leaving the list being read valid.
ActBeside(kind, r) == [page EXCEPT !.action = [kind |-> kind, request |-> r, answer |-> None]]

\* action: a list being read is of an earlier generation from here on.
Act(kind, r) ==
    [page EXCEPT !.action = [kind |-> kind, request |-> r, answer |-> None],
                 !.read = IF @ = None THEN None ELSE [@ EXCEPT !.current = FALSE]]

\* Each submission has an id of its own.
Fresh == CHOOSE r \in Request : r \notin sent
Submit ==
    /\ Idle /\ page.pending = None
    /\ sent # Request
    /\ savePending(Act("submit", Fresh), Fresh)
    /\ sent' = sent \cup {Fresh}
    /\ UNCHANGED <<service, known, bounds>>

Recover ==
    /\ Idle /\ page.pending # None
    /\ page' = Act("submit", page.pending)
    /\ UNCHANGED <<service, stored, sent, known, bounds>>

Cancel(r) ==
    /\ Idle /\ r \in DOMAIN page.jobs /\ page.jobs[r] = "active"
    /\ page' = Act("cancel", r)
    /\ UNCHANGED <<service, stored, sent, known, bounds>>

Waiting == IsReady /\ page.action # None /\ page.action.answer = None
Accepted(r) == [job EXCEPT ![r] = IF @ = "none" THEN "active" ELSE @]

Active(r) == job[r] \in {"active", "cancelling"}
Answered(a) == page' = [page EXCEPT !.action.answer = a]

\* ExportJobs.submit: with the lock no cancellation holds, the id is looked
\* up; a job that is there is answered as it is.
Execute ==
    /\ Waiting /\ page.action.kind = "submit" /\ cancelling = None
    /\ LET r == page.action.request
       IN job' = Accepted(r) /\ Answered(job'[r])
    /\ UNCHANGED <<cancelling, late, reopened, stored, sent, known, bounds>>

\* A refusal (4xx) comes before the id is looked up: the range is not valid,
\* or the session, the role or a camera was taken from the account, whatever
\* became of the submission before.
Refuse ==
    /\ Waiting /\ page.action.kind = "submit" /\ faults < MaxFaults
    /\ faults' = faults + 1
    /\ Answered("refused")
    /\ UNCHANGED <<service, stored, sent, known, withheld, leaves>>

\* ExportJobs.cancel: with the lock, a job that has ended is answered as it
\* is; one that was read active is written in a step of its own.
ExecuteCancel ==
    /\ Waiting /\ page.action.kind = "cancel" /\ cancelling = None
    /\ LET r == page.action.request
       IN \/ job[r] = "done" /\ Answered("done") /\ UNCHANGED cancelling
          \/ Active(r) /\ Answered("begun") /\ cancelling' = r
    /\ UNCHANGED <<job, late, reopened, stored, sent, known, bounds>>

\* The state computed from what was read: "cancelled", or "cancelling" -
\* also over a failure recorded meanwhile, which takes no lock. The answer is
\* read again; the job may have ended by then.
CancelWrites ==
    /\ cancelling # None
    /\ \E s \in {"cancelling", "done"} : job' = [job EXCEPT ![cancelling] = s]
    /\ reopened' = IF job[cancelling] = "done" /\ job'[cancelling] = "cancelling"
                   THEN reopened \cup {cancelling} ELSE reopened
    /\ IF IsReady /\ page.action # None /\ page.action.answer = "begun"
       THEN Answered(job'[cancelling]) ELSE UNCHANGED page
    /\ cancelling' = None
    /\ UNCHANGED <<late, stored, sent, known, bounds>>

\* As Fails, forgetting the submission.
FailsForgetting ==
    /\ IsReady /\ page.action # None /\ faults < MaxFaults
    /\ faults' = faults + 1
    /\ late' = late \cup InFlight
    /\ savePending(BeginRead([page EXCEPT !.action = None]), None)
    /\ UNCHANGED <<job, cancelling, reopened, sent, known, withheld, leaves>>

\* A full queue (503), and any failure whose cause the page cannot tell.
Fails ==
    /\ IsReady /\ page.action # None /\ faults < MaxFaults
    /\ faults' = faults + 1
    /\ late' = late \cup InFlight
    /\ page' = BeginRead([page EXCEPT !.action = None])
    /\ UNCHANGED <<job, cancelling, reopened, stored, sent, known, withheld, leaves>>

\* The job of the answer goes in front of the list; a submission that is
\* answered or refused is no longer to be confirmed.
Answer ==
    /\ IsReady /\ page.action # None /\ page.action.answer \notin {None, "begun"}
    /\ LET a == page.action
           jobs == IF a.answer = "refused" THEN page.jobs
                   ELSE [r \in DOMAIN page.jobs \cup {a.request} |->
                           IF r = a.request THEN a.answer ELSE page.jobs[r]]
           done == a.kind = "submit"
       IN /\ savePending(BeginRead([page EXCEPT !.action = None, !.jobs = jobs]),
                         IF done THEN None ELSE stored)
          /\ known' = known \cup {a.request}
    /\ UNCHANGED <<service, sent, bounds>>

---------------------------------------------------------------------------
(* The service.                                                            *)

\* A request the page no longer waits for arrives, or never does.
Arrives(l) ==
    /\ l \in late /\ cancelling = None
    /\ late' = late \ {l}
    /\ \/ l.kind = "submit" /\ job' = Accepted(l.request) /\ UNCHANGED cancelling
       \/ l.kind = "cancel" /\ Active(l.request) /\ cancelling' = l.request /\ UNCHANGED job
    /\ UNCHANGED <<page, reopened, stored, sent, known, bounds>>

\* The job completes, fails or is cancelled.
Finish(r) ==
    /\ Active(r) /\ cancelling # r
    /\ job' = [job EXCEPT ![r] = "done"]
    /\ UNCHANGED <<cancelling, late, reopened, page, stored, sent, known, bounds>>

\* The one end that takes no lock: a failure is recorded while a cancellation
\* of the job is about to write.
FailsBeside ==
    /\ cancelling # None /\ Active(cancelling) /\ faults < MaxFaults
    /\ faults' = faults + 1
    /\ job' = [job EXCEPT ![cancelling] = "done"]
    /\ UNCHANGED <<cancelling, late, reopened, page, stored, sent, known, withheld, leaves>>

Next ==
    \/ Open \/ Ready \/ ReadyFails \/ Leave \/ Hide \/ Show
    \/ Refresh \/ List \/ ListWithholds \/ Listed \/ ListFails
    \/ Submit \/ Recover \/ Execute \/ Refuse \/ ExecuteCancel \/ CancelWrites \/ Fails \/ Answer
    \/ FailsBeside
    \/ \E r \in Request : Cancel(r) \/ Finish(r)
    \/ \E l \in late : Arrives(l)

\* The polling timer keeps firing, and every request ends, by its 12-second
\* limit at the latest.
Fairness ==
    /\ WF_vars(Ready) /\ WF_vars(Refresh) /\ WF_vars(List) /\ WF_vars(Listed)
    /\ WF_vars(Execute \/ ExecuteCancel) /\ WF_vars(CancelWrites) /\ WF_vars(Answer)
Spec == Init /\ [][Next]_vars
FairSpec == Spec /\ Fairness

---------------------------------------------------------------------------
(* Properties.                                                             *)

Lasting == {"active", "cancelling", "done"}
JobLists == UNION {[D -> Lasting] : D \in SUBSET Request}
Actions == [kind : {"submit", "cancel"}, request : Request,
            answer : Lasting \cup {None, "refused", "begun"}]
Reads == [current : BOOLEAN, answer : JobLists \cup {None}]
OpenPages == [is : {"opening", "ready", "failed"}, visible : BOOLEAN, pending : Request \cup {None},
              action : Actions \cup {None}, read : Reads \cup {None}, jobs : JobLists]
\* The types, and that nothing is sent unrecorded.
TypeOK ==
    /\ job \in [Request -> Lasting \cup {"none"}] /\ {r \in Request : job[r] # "none"} \subseteq sent
    /\ late \subseteq [kind : {"submit", "cancel"}, request : sent]
    /\ cancelling \in sent \cup {None} /\ (cancelling # None => job[cancelling] # "none")
    /\ known \cup reopened \cup withheld \subseteq sent /\ sent \subseteq Request
    /\ stored \in Request \cup {None} /\ stored \in sent \cup {None}
    /\ faults \in 0..MaxFaults /\ leaves \in 0..MaxLeaves
    /\ page \in OpenPages \cup {Closed}
    /\ page = Closed \/ page.pending \in {stored, None}
    /\ page.is \in {"opening", "failed"} =>
          page = [NewPage EXCEPT !.is = page.is]
    /\ IsReady => page.pending = stored

\* What is confirmed is no longer pending.
PendingUnknown == stored # None => stored \notin known

\* A job's states come in this order, unless a cancellation was written over
\* its end.
Behind(state, other) ==
    \/ state = "active" /\ other # "active"
    \/ state = "cancelling" /\ other = "done"
\* What of the service's state a list, an answer or the page may say.
Told(r, state) == job[r] # "none" /\ (r \in reopened \/ ~Behind(job[r], state))
HasList == IsReady /\ page.read # None /\ page.read.answer # None
JobsTold ==
    /\ IsReady => \A r \in DOMAIN page.jobs : Told(r, page.jobs[r]) /\ r \in known
    /\ HasList => \A r \in DOMAIN page.read.answer : Told(r, page.read.answer[r])

\* An action is one of a request that was sent, a submission under way is the
\* pending one; a cancellation is of a job known and shown running, and a list
\* read beside an action is of an earlier generation.
ActionSound ==
    IsReady /\ page.action # None =>
        /\ page.action.request \in sent
        /\ page.action.kind = "submit" => stored = page.action.request
        /\ page.action.kind = "cancel" =>
              /\ page.action.request \in known /\ page.action.answer \notin {"active", "refused"}
              /\ page.action.request \in DOMAIN page.jobs => page.jobs[page.action.request] = "active"
        /\ page.action.answer = "begun" =>
              page.action.kind = "cancel" /\ cancelling = page.action.request
        /\ page.read # None => ~page.read.current
        /\ page.action.answer \in Lasting => Told(page.action.request, page.action.answer)

\* A list of the page's generation was read with nothing done since: it says
\* all that the page shows.
ListCurrent ==
    HasList /\ page.read.current =>
        \A r \in DOMAIN page.jobs :
            \/ r \in DOMAIN page.read.answer /\ ~Behind(page.read.answer[r], page.jobs[r])
            \/ r \in reopened \cup withheld

\* A submission whose outcome nobody has seen stays with the tab, through
\* failures, reloads and polls, until its job is listed or a submission of it
\* is refused: no further export can be submitted before, and recovering it
\* sends the same request id (useNvrExportJobs.ts:117-123,
\* NvrExportPanel.tsx:18-22). Any 4xx is a refusal (line 109), also one of a
\* recovery whose first attempt had been accepted.
UncertainIsKept == \A r \in sent \ known : stored = r

SubmissionInv ==
    /\ TypeOK /\ PendingUnknown /\ JobsTold /\ ActionSound /\ ListCurrent /\ UncertainIsKept

Shown(p) == IF p.is = "ready" THEN p.jobs ELSE NewPage.jobs
\* What a page shows never goes backwards, whatever list or answer arrives
\* late (useNvrExportJobs.ts:58-61, 101: the generations): a job that was
\* shown stays shown unless the account was not to see it, and one that is
\* being cancelled or has ended is not shown as running again unless a
\* cancellation was written over its end (evidence.py:200).
NeverBackwards ==
    [][page'.is = "ready" =>
         \A r \in DOMAIN Shown(page) :
            \/ r \in DOMAIN Shown(page')
               /\ ~Behind(Shown(page')[r], Shown(page)[r])
            \/ r \in reopened' \cup withheld']_vars

\* A page that stays open and in view and whose session could be read comes
\* to show every job the service has accepted, with its submission confirmed,
\* although answers were lost (useNvrExportJobs.ts:66: the list confirms the
\* pending submission).
AcceptedIsShown ==
    (page.is \in {"opening", "ready"} /\ page.visible)
        ~> \/ page.is \in {"closed", "failed"} \/ ~page.visible
           \/ \A r \in Request :
                 job[r] # "none" => r \in DOMAIN Shown(page) /\ page.pending # r
=============================================================================
