---------------------------- MODULE AccessProofs ----------------------------
(***************************************************************************)
(* Proofs about Access: no saved edit of a layout is lost or hidden before *)
(* it is answered, and no upload replaces content of another device that   *)
(* its writer had not pulled (DeviceSync); what the pages show of the      *)
(* account's profiles, of the controls of sources and of the clients is so *)
(* (ConfigProfiles, SourceControls, ClientManagement), for any scenes,     *)
(* windows, profiles, sources, enrolments, clients and bounds.             *)
(***************************************************************************)
EXTENDS Access, Sequences, FiniteSetTheorems, TLAPS

-----------------------------------------------------------------------------
(* The operators of the synchronization.                                   *)

\* The smaller of two revisions.
LEMMA Smaller ==
    ASSUME NEW a \in Nat, NEW b \in Nat
    PROVE  Min({a, b}) \in Nat /\ Min({a, b}) <= a /\ Min({a, b}) <= b
<1>1. \E x \in {a, b} : \A y \in {a, b} : x <= y
  <2>1. CASE a <= b
    BY <2>1
  <2>2. CASE ~(a <= b)
    BY <2>2
  <2> QED
    BY <2>1, <2>2
<1>2. Min({a, b}) \in {a, b} /\ \A y \in {a, b} : Min({a, b}) <= y
  BY <1>1 DEF Min
<1> QED
  BY <1>2

\* What a commit leaves: each document it writes at a revision of its own above
\* the server's, and every other as it was.
Rows(muts, written, who) ==
    \A s \in Scenes :
      /\ s \notin written => server'[s] = server[s]
      /\ s \in written => /\ server'[s].content = muts[s].content
                          /\ server'[s].content \in {Gone, server'[s].body}
                          /\ server'[s].by = who
                          /\ server'[s].rev \in Nat /\ server'[s].rev > revision
                          /\ server'[s].rev <= revision'

LEMMA CommittedRows ==
    ASSUME NEW muts, NEW written \in SUBSET Scenes, NEW who, revision \in Nat,
           server' = Committed(muts, written, who),
           revision' = revision + Cardinality(written)
    PROVE  /\ revision' \in Nat /\ revision <= revision'
           /\ Rows(muts, written, who)
<1> DEFINE Places == [written -> 1..Cardinality(written)]
           place == CHOOSE p \in Places : IsInjective(p)
<1>1. IsFiniteSet(written) /\ Cardinality(written) \in Nat
  BY FS_Subset, FS_CardinalityType, SyncAssumption
<1>2. ExistsBijection(written, 1..Cardinality(written))
  BY <1>1, FS_CardinalityType, FS_Interval, FS_SameCardinalityBij
<1>3. \E p \in Places : IsInjective(p)
  BY <1>2 DEF ExistsBijection, Bijection, Injection, IsInjective
<1>4. place \in Places
  BY <1>3
<1> HIDE DEF place
<1>5. \A s \in written : place[s] \in 1..Cardinality(written)
  BY <1>4
<1>6. revision' \in Nat /\ revision <= revision'
  BY <1>1
<1>7. ASSUME NEW s \in Scenes, s \notin written
      PROVE  server'[s] = server[s]
  BY <1>7 DEF Committed
<1>8. ASSUME NEW s \in written
      PROVE  /\ server'[s].content = muts[s].content /\ server'[s].by = who
             /\ server'[s].rev = revision + place[s]
             /\ server'[s].content \in {Gone, server'[s].body}
  BY <1>8 DEF Committed, place
<1>9. ASSUME NEW s \in written
      PROVE  /\ revision + place[s] \in Nat /\ revision + place[s] > revision
             /\ revision + place[s] <= revision'
  <2>1. place[s] \in 1..Cardinality(written)
    BY <1>5, <1>9
  <2> QED
    BY <2>1, <1>1
<1>10. ASSUME NEW s \in written
       PROVE  /\ server'[s].content = muts[s].content /\ server'[s].by = who
              /\ server'[s].rev \in Nat /\ server'[s].rev > revision
              /\ server'[s].rev <= revision'
              /\ server'[s].content \in {Gone, server'[s].body}
  <2>1. /\ server'[s].content = muts[s].content /\ server'[s].by = who
        /\ server'[s].rev = revision + place[s]
        /\ server'[s].content \in {Gone, server'[s].body}
    BY <1>8, <1>10
  <2>2. /\ revision + place[s] \in Nat /\ revision + place[s] > revision
        /\ revision + place[s] <= revision'
    BY <1>9, <1>10
  <2> QED
    BY <2>1, <2>2
<1> QED
  BY <1>6, <1>7, <1>10 DEF Rows

-----------------------------------------------------------------------------
(* What a step leaves as it was.                                           *)

\* Revisions and stamps only grow, and what the server gets is this browser's
\* or new content, at a new revision.
Grows ==
    /\ stamp \in Nat /\ stamp' \in Nat /\ stamp <= stamp'
    /\ revision \in Nat /\ revision' \in Nat /\ revision <= revision'
    /\ state.rev \in Nat /\ state'.rev \in Nat /\ state.rev <= state'.rev
    /\ \A s \in Scenes :
         /\ server'[s].rev \in Nat
         /\ \/ server'[s] = server[s]
            \/ /\ server'[s].rev > revision
               /\ server'[s].by = "browser" \/ server'[s].content = Gone
                    \/ server'[s].content > stamp

\* Nothing of the server or of the counters changes.
LEMMA Still ==
    ASSUME TypeOK, UNCHANGED <<server, revision, stamp>>,
           state'.rev \in Nat, state.rev <= state'.rev
    PROVE  Grows /\ ServerOK' /\ state.rev \in 0..revision
  BY DEF TypeOK, ServerOK, StateOK, Grows, Foreign

LEMMA KnownStays ==
    ASSUME Grows, NEW s \in Scenes, NEW c \in 0..stamp, NEW r, PulledBy(s, c, r)
    PROVE  PulledBy(s, c, r)'
  BY DEF Grows, PulledBy, Foreign

LEMMA FoundedStays ==
    ASSUME Grows, NEW s \in Scenes, NEW m, NEW base \in 0..revision,
           Founded(s, m, base)
    PROVE  Founded(s, m, base)'
  BY DEF Grows, Founded, Foreign

LEMMA QueueStays ==
    ASSUME Grows, NEW q, QueueOK(q)
    PROVE  QueueOK(q)'
<1>1. ASSUME NEW s \in DOMAIN q.muts
      PROVE  MutationOK(s, q.muts[s])' /\ Founded(s, q.muts[s], q.base)'
  <2>1. /\ s \in Scenes /\ MutationOK(s, q.muts[s]) /\ q.base \in 0..revision
        /\ Founded(s, q.muts[s], q.base)
    BY DEF QueueOK
  <2>2. PulledBy(s, q.muts[s].content, q.muts[s].seen)'
    BY <2>1, KnownStays DEF MutationOK
  <2> QED
    BY <2>1, <2>2, FoundedStays DEF MutationOK, Grows
<1> QED
  BY <1>1 DEF QueueOK, Grows

LEMMA StateStays ==
    ASSUME Grows, NEW st, StateOK(st)
    PROVE  StateOK(st)'
<1>1. ASSUME NEW s \in DOMAIN st.docs
      PROVE  PulledBy(s, st.docs[s].content, st.rev)' /\ s \in Scenes
  BY KnownStays DEF StateOK
<1>2. ASSUME NEW s \in Scenes, Foreign(s)', server'[s].rev <= st.rev
      PROVE  s \in DOMAIN st.docs
  BY <1>2 DEF StateOK, Foreign, Grows
<1> QED
  BY <1>1, <1>2 DEF StateOK, Grows

LEMMA ScenesStay ==
    ASSUME Grows, NEW scenes, ScenesOK(scenes), paired' => paired
    PROVE  ScenesOK(scenes)'
<1>1. ASSUME NEW s \in Scenes, paired
      PROVE  PulledBy(s, scenes[s], state.rev)'
  <2>1. \A r : PulledBy(s, scenes[s], r) => PulledBy(s, scenes[s], r)'
    BY KnownStays DEF ScenesOK
  <2>2. Foreign(s)' /\ server'[s].content = scenes[s] => server'[s].rev <= state.rev
    BY <1>1, <2>1 DEF ScenesOK, PulledBy
  <2> QED
    BY <2>2 DEF PulledBy, Foreign, Grows
<1> QED
  BY <1>1 DEF ScenesOK, Grows

LEMMA AnswerStays ==
    ASSUME Grows, NEW muts, NEW answer, AnswerOK(muts, answer),
           DOMAIN muts \subseteq Scenes
    PROVE  AnswerOK(muts, answer)'
<1>1. \A s \in answer.accepted : Founded(s, muts[s], answer.rev)'
  BY FoundedStays DEF AnswerOK
<1> QED
  BY <1>1 DEF AnswerOK, Grows

LEMMA RunStays ==
    ASSUME Grows, NEW r, RunOK(r), state'.rev <= r.st.rev,
           r.pc \in {"cache", "resolved"} => state'.rev = state.rev,
           r.pc \in Uploading => StillQueued(r.req.muts)'
    PROVE  RunOK(r)'
<1>1. StateOK(r.st)'
  BY StateStays DEF RunOK
<1>2. r.pc \in Uploading => QueueOK(r.req)' /\ DOMAIN r.req.muts \subseteq Scenes
  BY QueueStays DEF RunOK, QueueOK
<1>3. r.pc \in {"answered", "acknowledge"} => AnswerOK(r.req.muts, r.answer)'
  BY <1>2, AnswerStays DEF RunOK, Uploading
<1> QED
  BY <1>1, <1>2, <1>3 DEF RunOK

-----------------------------------------------------------------------------
(* What a run makes of what it holds.                                      *)

\* A pull brings every live document of another device the browser lacked.
LEMMA PulledAll ==
    ASSUME ServerOK, NEW st, StateOK(st), NEW reset \in BOOLEAN
    PROVE  StateOK(Pulled(st, reset)) /\ st.rev <= Pulled(st, reset).rev
<1> DEFINE known == IF reset THEN NoScenes ELSE st.docs
           sent == Sent(st.rev, reset)
           docs == Merged(known, sent)
<1>1. /\ DOMAIN docs = DOMAIN known \cup sent
      /\ DOMAIN known \subseteq Scenes /\ sent \subseteq Scenes
  BY DEF Merged, Sent, StateOK, NoScenes
<1>2. ASSUME NEW s \in DOMAIN docs
      PROVE  /\ docs[s].content \in 0..stamp /\ (s = Base => docs[s].content # Gone)
             /\ docs[s].rev \in 0..revision
             /\ PulledBy(s, docs[s].content, revision)
  <2>1. s \in Scenes
    BY <1>1
  <2>2. \/ s \in sent /\ docs[s].content = server[s].content /\ docs[s].rev = server[s].rev
        \/ s \in DOMAIN st.docs /\ docs[s] = st.docs[s]
    BY DEF Merged, NoScenes
  <2>3. PulledBy(s, docs[s].content, revision)
    BY <2>1 DEF PulledBy, ServerOK
  <2> QED
    BY <2>1, <2>2, <2>3 DEF StateOK, ServerOK
<1>3. ASSUME NEW s \in Scenes, Foreign(s)
      PROVE  s \in DOMAIN docs
  BY <1>1, <1>3 DEF Sent, StateOK, ServerOK, Foreign
<1>4. Pulled(st, reset) = [rev |-> revision, conflicts |-> st.conflicts, docs |-> docs]
  BY DEF Pulled
<1> HIDE DEF docs
<1> QED
  BY <1>1, <1>2, <1>3, <1>4 DEF StateOK, ServerOK

\* An answer that founds what stays of the mutations it names may move the base.
LEMMA AcknowledgedOK ==
    ASSUME QueueOK(queue), NEW request, NEW answer,
           answer.rev \in 0..revision,
           \A s \in answer.accepted \cap DOMAIN queue.muts :
               Founded(s, queue.muts[s], answer.rev),
           revision \in Nat
    PROVE  /\ QueueOK(Acknowledged(request, answer))
           /\ \A s \in DOMAIN Acknowledged(request, answer).muts :
                /\ s \in DOMAIN queue.muts
                /\ Acknowledged(request, answer).muts[s] = queue.muts[s]
           /\ \A s \in DOMAIN queue.muts \ DOMAIN Acknowledged(request, answer).muts :
                s \in answer.accepted /\ request[s].content = queue.muts[s].content
<1> DEFINE kept == {s \in DOMAIN queue.muts : s \in answer.accepted
                      => request[s].content # queue.muts[s].content}
           rebase == answer.conflicts = {} /\ kept \subseteq answer.accepted
           base == IF rebase THEN answer.rev ELSE queue.base
           muts == Restrict(queue.muts, kept)
<1>1. Acknowledged(request, answer) = QueueOf(base, muts)
  BY DEF Acknowledged
<1>2. DOMAIN muts = kept /\ \A s \in kept : muts[s] = queue.muts[s]
  BY DEF Restrict
<1>3. /\ base \in 0..revision /\ kept \subseteq DOMAIN queue.muts
      /\ \A s \in kept : Founded(s, queue.muts[s], base)
  BY DEF QueueOK
<1>4. \A s \in DOMAIN queue.muts \ kept :
        s \in answer.accepted /\ request[s].content = queue.muts[s].content
  OBVIOUS
<1> HIDE DEF kept, base, muts
<1> QED
  BY <1>1, <1>2, <1>3, <1>4 DEF QueueOf, QueueOK, NoQueue, NoScenes

\* A queue of some of the mutations.
LEMMA RestrictedOK ==
    ASSUME QueueOK(queue), revision \in Nat, NEW some \in SUBSET DOMAIN queue.muts
    PROVE  LET new == QueueOf(queue.base, Restrict(queue.muts, some))
           IN /\ QueueOK(new) /\ DOMAIN new.muts = some
              /\ \A s \in some : new.muts[s] = queue.muts[s]
  BY DEF QueueOf, QueueOK, NoQueue, NoScenes, Restrict

\* The run goes on with what it pulled and the queue as it is.
LEMMA UploadOK ==
    ASSUME NEW st, NEW req, StateOK(st)', state'.rev <= st.rev, QueueOK(req)',
           StillQueued(req.muts)'
    PROVE  Upload(st, req) = Idle \/ RunOK(Upload(st, req))'
  BY DEF Upload, RunOK, Stages, Uploading

-----------------------------------------------------------------------------
(* The runs of the windows.                                                *)

\* A step of the run that holds the lock, or that takes it, is a step of the
\* only one.
LEMMA RunStep ==
    ASSUME RunsOK, NEW w \in Windows, NEW r, Goto(w, r), Busy(w) \/ ~Locked,
           r = Idle \/ (RunOK(r)' /\ paired')
    PROVE  RunsOK'
<1>1. \A v \in Windows : v # w => run'[v] = run[v] /\ ~Busy(v)
  BY DEF Goto, RunsOK, Locked, Busy
<1>2. run'[w] = r /\ run' = [v \in Windows |-> run'[v]]
  BY DEF Goto, RunsOK
<1>3. \A v \in Windows : Busy(v)' => v = w
  BY <1>1 DEF Busy, Idle
<1> QED
  BY <1>2, <1>3 DEF RunsOK, Busy

\* A step of somebody else leaves the run as it was.
LEMMA RunsStay ==
    ASSUME RunsOK, Grows, run' = run, state' = state, paired' = paired,
           \A w \in Windows : Busy(w) /\ run[w].pc \in Uploading
               => StillQueued(run[w].req.muts)'
    PROVE  RunsOK'
<1>1. ASSUME NEW w \in Windows, Busy(w)
      PROVE  RunOK(run[w])'
  <2>1. RunOK(run[w]) /\ state'.rev <= run[w].st.rev
    BY <1>1 DEF RunsOK, RunOK
  <2> QED
    BY <1>1, <2>1, RunStays
<1> QED
  BY <1>1 DEF RunsOK, Busy

\* While the queue does not change, a batch stays queued.
LEMMA BatchStays ==
    ASSUME queue' = queue, NEW muts, StillQueued(muts)
    PROVE  StillQueued(muts)'
  BY DEF StillQueued

LEMMA LayoutsStay ==
    ASSUME LayoutsOK, Grows, paired' => paired, UNCHANGED <<layout, draft>>
    PROVE  LayoutsOK'
  BY ScenesStay DEF LayoutsOK

-----------------------------------------------------------------------------
(* The steps of a run that touch neither the queue nor the server.         *)

LEMMA QuietStep ==
    ASSUME EditsKept, UNCHANGED <<server, revision, stamp, queue, layout, draft, owed>>,
           paired' = paired, StateOK(state)', state.rev <= state'.rev, RunsOK'
    PROVE  EditsKept'
<1>1. state'.rev \in Nat
  BY DEF StateOK, EditsKept, TypeOK, ServerOK
<1>2. Grows /\ ServerOK'
  BY <1>1, Still DEF EditsKept
<1>3. QueueOK(queue)' /\ LayoutsOK'
  BY <1>2, QueueStays, LayoutsStay DEF EditsKept, TypeOK
<1> QED
  BY <1>2, <1>3 DEF EditsKept, TypeOK, SavedEditsQueued, PendingScenesShown

\* Any step that leaves the server and the bound on edits alone.
LEMMA Settled ==
    ASSUME EditsKept, UNCHANGED <<server, revision, stamp>>, state' = state
    PROVE  Grows /\ StateOK(state)' /\ state.rev \in Nat
<1>1. state.rev \in Nat
  BY DEF EditsKept, TypeOK, StateOK, ServerOK
<1>2. Grows
  BY <1>1, Still DEF EditsKept
<1> QED
  BY <1>1, <1>2, StateStays DEF EditsKept, TypeOK

LEMMA StartStep ==
    ASSUME EditsKept, NEW w \in Windows, Start(w)
    PROVE  EditsKept'
<1>1. PICK r : r = [pc |-> "pull", st |-> state]
  OBVIOUS
<1>2. Grows /\ StateOK(state)' /\ state.rev \in Nat
  BY Settled DEF Start, remote, disk, bounds
<1>3. StateOK(r.st)' /\ state'.rev <= r.st.rev
  BY <1>1, <1>2 DEF Start, disk
<1>4. RunOK(r)' /\ paired'
  BY <1>1, <1>3 DEF Start, disk, RunOK, Stages, Uploading
<1>5. RunsOK'
  BY <1>1, <1>4, RunStep DEF Start, EditsKept, TypeOK
<1> QED
  BY <1>2, <1>5, QuietStep DEF Start, remote, disk, bounds

LEMMA PullStep ==
    ASSUME EditsKept, NEW w \in Windows, NEW reset \in BOOLEAN, Pull(w, reset)
    PROVE  EditsKept'
<1>1. PICK st : st = Pulled(run[w].st, reset)
  OBVIOUS
<1>2. PICK r : r = [pc |-> "queue", st |-> st]
  OBVIOUS
<1>3. Grows /\ StateOK(state)' /\ state.rev \in Nat
  BY Settled DEF Pull, remote, disk
<1>4. Busy(w) /\ RunOK(run[w]) /\ paired
  BY DEF Pull, At, Busy, Idle, EditsKept, TypeOK, RunsOK
<1>5. StateOK(st) /\ run[w].st.rev <= st.rev
  BY <1>1, <1>4, PulledAll DEF EditsKept, TypeOK, RunOK
<1>6. StateOK(st)' /\ state'.rev <= st.rev
  BY <1>3, <1>4, <1>5, StateStays DEF RunOK, StateOK, EditsKept, TypeOK, ServerOK, Pull, disk
<1>7. RunOK(r)' /\ paired'
  BY <1>2, <1>4, <1>6 DEF Pull, disk, RunOK, Stages, Uploading
<1>8. RunsOK'
  BY <1>1, <1>2, <1>4, <1>7, RunStep DEF Pull, EditsKept, TypeOK
<1> QED
  BY <1>3, <1>8, QuietStep DEF Pull, remote, disk

LEMMA PullAgainStep ==
    ASSUME EditsKept, NEW w \in Windows, PullAgain(w)
    PROVE  EditsKept'
<1>1. PICK st : st = Pulled(run[w].st, FALSE)
  OBVIOUS
<1>2. PICK r : r = [pc |-> "finish", st |-> st]
  OBVIOUS
<1>3. Grows /\ StateOK(state)' /\ state.rev \in Nat
  BY Settled DEF PullAgain, remote, disk, bounds
<1>4. Busy(w) /\ RunOK(run[w]) /\ paired
  BY DEF PullAgain, At, Busy, Idle, EditsKept, TypeOK, RunsOK
<1>5. StateOK(st) /\ run[w].st.rev <= st.rev
  BY <1>1, <1>4, PulledAll DEF EditsKept, TypeOK, RunOK
<1>6. StateOK(st)' /\ state'.rev <= st.rev
  BY <1>3, <1>4, <1>5, StateStays DEF RunOK, StateOK, EditsKept, TypeOK, ServerOK, PullAgain, disk
<1>7. RunOK(r)' /\ paired'
  BY <1>2, <1>4, <1>6 DEF PullAgain, disk, RunOK, Stages, Uploading
<1>8. RunsOK'
  BY <1>1, <1>2, <1>4, <1>7, RunStep DEF PullAgain, EditsKept, TypeOK
<1> QED
  BY <1>3, <1>8, QuietStep DEF PullAgain, remote, disk, bounds

LEMMA LoadQueueStep ==
    ASSUME EditsKept, NEW w \in Windows, LoadQueue(w)
    PROVE  EditsKept'
<1>1. PICK st, req, r :
        st = run[w].st /\ req = queue /\ r = [pc |-> "unknown", st |-> st, req |-> req]
  OBVIOUS
<1>2. Grows /\ StateOK(state)' /\ state.rev \in Nat
  BY Settled DEF LoadQueue, remote, disk, bounds
<1>3. Busy(w) /\ RunOK(run[w]) /\ paired
  BY DEF LoadQueue, At, Busy, Idle, EditsKept, TypeOK, RunsOK
<1>4. StateOK(st)' /\ state'.rev <= st.rev
  BY <1>1, <1>2, <1>3, StateStays DEF RunOK, LoadQueue, disk
<1>5. QueueOK(req)'
  BY <1>1, <1>2, QueueStays DEF EditsKept, TypeOK
<1>6. StillQueued(req.muts)'
  BY <1>1, <1>2 DEF StillQueued, EditsKept, TypeOK, QueueOK, MutationOK, LoadQueue, disk
<1>7. Upload(st, req) = Idle \/ RunOK(Upload(st, req))'
  BY <1>4, <1>5, <1>6, UploadOK
<1>8. RunOK(r)' /\ paired'
  BY <1>1, <1>3, <1>4, <1>5, <1>6 DEF LoadQueue, disk, RunOK, Stages, Uploading
<1>9. RunsOK'
  <2>1. PICK next : next = IF Missing(st, req.muts) # {} THEN r ELSE Upload(st, req)
    OBVIOUS
  <2>2. next = Idle \/ (RunOK(next)' /\ paired')
    BY <2>1, <1>7, <1>8
  <2>3. Goto(w, next)
    BY <2>1, <1>1 DEF LoadQueue
  <2> QED
    BY <2>2, <2>3, <1>3, RunStep DEF EditsKept, TypeOK
<1> QED
  BY <1>2, <1>9, QuietStep DEF LoadQueue, remote, disk, bounds

\* A run that keeps its batch and its answer keeps their invariants.
LEMMA Carried ==
    ASSUME Grows, queue' = queue
    PROVE  /\ \A q : QueueOK(q) => QueueOK(q)'
           /\ \A st : StateOK(st) => StateOK(st)'
           /\ \A muts, answer : AnswerOK(muts, answer) /\ DOMAIN muts \subseteq Scenes
                => AnswerOK(muts, answer)'
           /\ \A muts : StillQueued(muts) => StillQueued(muts)'
  BY QueueStays, StateStays, AnswerStays, BatchStays

LEMMA SaveConflictsStep ==
    ASSUME EditsKept, NEW w \in Windows, SaveConflicts(w)
    PROVE  EditsKept'
<1>1. PICK req, answer, st, r :
        /\ req = run[w].req /\ answer = run[w].answer
        /\ st = WithConflicts(run[w].st, answer.conflicts)
        /\ r = [pc |-> "acknowledge", st |-> st, req |-> req, answer |-> answer]
  OBVIOUS
<1>2. Busy(w) /\ RunOK(run[w]) /\ paired /\ paired'
  BY DEF SaveConflicts, At, Busy, Idle, EditsKept, TypeOK, RunsOK
<1>3. /\ StateOK(run[w].st) /\ state.rev <= run[w].st.rev
      /\ QueueOK(req) /\ StillQueued(req.muts) /\ AnswerOK(req.muts, answer)
  BY <1>1, <1>2 DEF RunOK, SaveConflicts, At, Uploading
<1>4. answer.conflicts \subseteq Scenes
  BY <1>3 DEF AnswerOK, QueueOK
<1>5. StateOK(st) /\ state.rev <= st.rev
  BY <1>1, <1>3, <1>4 DEF WithConflicts, StateOK
<1>6. CASE Valid(req.muts, answer, run[w].st.rev)
  <2>1. state' = st /\ Goto(w, r)
    BY <1>1, <1>6 DEF SaveConflicts, WithConflicts
  <2>2. Grows
    <3>1. server' = server /\ stamp' = stamp /\ revision' = revision /\ state'.rev = st.rev
      BY <2>1 DEF SaveConflicts, remote, bounds
    <3>2. state.rev \in Nat /\ st.rev \in Nat /\ stamp \in Nat /\ revision \in Nat
      BY <1>5 DEF EditsKept, TypeOK, ServerOK, StateOK
    <3> QED
      BY <3>1, <3>2, <1>5, Still DEF EditsKept
  <2>3. /\ StateOK(st)' /\ QueueOK(req)' /\ AnswerOK(req.muts, answer)'
        /\ StillQueued(req.muts)'
    BY <2>2, <1>3, <1>5, Carried DEF QueueOK, SaveConflicts
  <2>4. RunOK(r)'
    <3>1. st.rev <= st.rev
      BY <2>3 DEF StateOK
    <3>2. /\ r.pc = "acknowledge" /\ r.st = st /\ r.req = req /\ r.answer = answer
          /\ state'.rev = st.rev
      BY <1>1, <2>1
    <3> QED
      BY <2>3, <3>1, <3>2 DEF RunOK, Stages, Uploading
  <2>5. RunsOK'
    BY <2>1, <2>4, <1>2, RunStep DEF EditsKept, TypeOK
  <2>6. StateOK(state)' /\ state.rev <= state'.rev
    BY <2>1, <2>3, <1>5
  <2> QED
    BY <2>5, <2>6, <1>2, QuietStep DEF SaveConflicts, remote, bounds
<1>7. CASE ~Valid(req.muts, answer, run[w].st.rev)
  <2>1. state' = state /\ Goto(w, Idle)
    BY <1>1, <1>7 DEF SaveConflicts, WithConflicts
  <2>2. Grows /\ StateOK(state)' /\ state.rev \in Nat
    BY <2>1, Settled DEF SaveConflicts, remote, bounds
  <2>3. RunsOK'
    BY <2>1, <1>2, RunStep DEF EditsKept, TypeOK
  <2> QED
    BY <2>1, <2>2, <2>3, <1>2, QuietStep DEF SaveConflicts, remote, bounds
<1> QED
  BY <1>6, <1>7

LEMMA FinishStep ==
    ASSUME EditsKept, NEW w \in Windows, Finish(w)
    PROVE  EditsKept'
<1>1. PICK st, r : st = run[w].st /\ r = [pc |-> "cache", st |-> st]
  OBVIOUS
<1>2. Busy(w) /\ RunOK(run[w]) /\ paired /\ paired'
  BY DEF Finish, At, Busy, Idle, EditsKept, TypeOK, RunsOK
<1>3. StateOK(st) /\ state.rev <= st.rev /\ state' = st /\ Goto(w, r)
  BY <1>1, <1>2 DEF RunOK, Finish
<1>4. Grows
  BY <1>3, Still DEF EditsKept, TypeOK, ServerOK, StateOK, Finish, remote, bounds
<1>5. StateOK(st)'
  BY <1>3, <1>4, StateStays
<1>6. RunOK(r)'
  BY <1>1, <1>3, <1>5 DEF RunOK, Stages, Uploading, StateOK
<1>7. RunsOK'
  BY <1>2, <1>3, <1>6, RunStep DEF EditsKept, TypeOK
<1>8. StateOK(state)' /\ state.rev <= state'.rev
  BY <1>3, <1>5
<1> QED
  BY <1>2, <1>7, <1>8, QuietStep DEF Finish, remote, bounds

LEMMA ResolvedStep ==
    ASSUME EditsKept, NEW w \in Windows, Resolved(w)
    PROVE  EditsKept'
<1>1. PICK st, r : /\ st = run[w].st
                   /\ r = [pc |-> IF run[w].choice = "server" THEN "cache" ELSE "pull",
                           st |-> st]
  OBVIOUS
<1>2. Busy(w) /\ RunOK(run[w]) /\ paired /\ paired'
  BY DEF Resolved, At, Busy, Idle, EditsKept, TypeOK, RunsOK
<1>3. StateOK(st) /\ state.rev <= st.rev /\ state' = st /\ Goto(w, r)
  BY <1>1, <1>2 DEF RunOK, Resolved
<1>4. Grows
  BY <1>3, Still DEF EditsKept, TypeOK, ServerOK, StateOK, Resolved, remote, bounds
<1>5. StateOK(st)'
  BY <1>3, <1>4, StateStays
<1>6. RunOK(r)'
  BY <1>1, <1>3, <1>5 DEF RunOK, Stages, Uploading, StateOK
<1>7. RunsOK'
  BY <1>2, <1>3, <1>6, RunStep DEF EditsKept, TypeOK
<1>8. StateOK(state)' /\ state.rev <= state'.rev
  BY <1>3, <1>5
<1> QED
  BY <1>2, <1>7, <1>8, QuietStep DEF Resolved, remote, bounds

\* A request that fails ends the run and nothing else.
LEMMA RequestFailsStep ==
    ASSUME EditsKept, NEW w \in Windows, RequestFails(w)
    PROVE  EditsKept'
<1>1. Busy(w)
  BY DEF RequestFails, Busy, Idle
<1>2. Grows /\ StateOK(state)' /\ state.rev \in Nat
  BY Settled DEF RequestFails, remote, disk
<1>3. RunsOK'
  BY <1>1, RunStep DEF RequestFails, EditsKept, TypeOK
<1> QED
  BY <1>2, <1>3, QuietStep DEF RequestFails, remote, disk

-----------------------------------------------------------------------------
(* The steps that show layouts.                                            *)

\* What the windows and the layout show may be taken from either.
LEMMA ShownStep ==
    ASSUME EditsKept, UNCHANGED <<server, revision, stamp, queue, state, owed>>,
           paired' = paired, LayoutsOK', RunsOK',
           \A s \in DOMAIN queue.muts : layout'[s] = layout[s]
    PROVE  EditsKept'
<1>1. Grows /\ StateOK(state)' /\ ServerOK'
  BY Settled, Still DEF EditsKept
<1>2. QueueOK(queue)'
  BY <1>1, QueueStays DEF EditsKept, TypeOK
<1> QED
  BY <1>1, <1>2 DEF EditsKept, TypeOK, SavedEditsQueued, PendingScenesShown

\* Showing the layout in a window keeps every draft sound.
LEMMA DraftFromLayout ==
    ASSUME LayoutsOK, Grows, paired' = paired, layout' = layout, NEW w \in Windows,
           draft' = [draft EXCEPT ![w] = layout]
    PROVE  LayoutsOK'
<1>1. ScenesOK(layout)'
  BY ScenesStay DEF LayoutsOK
<1>2. ASSUME NEW v \in Windows
      PROVE  ScenesOK(draft[v])'
  <2>1. PICK shown : shown = draft'[v]
    OBVIOUS
  <2>2. ScenesOK(shown)
    BY <2>1 DEF LayoutsOK
  <2> QED
    BY <2>1, <2>2, ScenesStay
<1> QED
  BY <1>1, <1>2 DEF LayoutsOK

LEMMA LoadLayoutStep ==
    ASSUME EditsKept, NEW w \in Windows, LoadLayout(w)
    PROVE  EditsKept'
<1>1. Grows
  BY Settled DEF LoadLayout, remote, disk, bounds
<1>2. LayoutsOK'
  BY <1>1, DraftFromLayout DEF LoadLayout, disk, EditsKept, TypeOK
<1>3. RunsOK'
  BY <1>1, RunsStay, BatchStays DEF LoadLayout, disk, EditsKept, TypeOK, RunsOK, RunOK
<1> QED
  BY <1>2, <1>3, ShownStep DEF LoadLayout, remote, disk, bounds

LEMMA ReloadStep ==
    ASSUME EditsKept, NEW w \in Windows, Reload(w)
    PROVE  EditsKept'
<1>1. Grows
  BY Settled DEF Reload, remote, disk
<1>2. LayoutsOK'
  BY <1>1, DraftFromLayout DEF Reload, disk, EditsKept, TypeOK
<1>3. RunsOK'
  BY RunStep DEF Reload, EditsKept, TypeOK
<1> QED
  BY <1>2, <1>3, ShownStep DEF Reload, remote, disk

\* What a pull brought may be shown once its revision is stored.
LEMMA CacheStep ==
    ASSUME EditsKept, NEW w \in Windows, Cache(w)
    PROVE  EditsKept'
<1>1. Busy(w) /\ RunOK(run[w]) /\ paired
  BY DEF Cache, At, Busy, Idle, EditsKept, TypeOK, RunsOK
<1>2. PICK docs, scenes : docs = run[w].st.docs /\ scenes = Cached(docs, queue.muts)
  OBVIOUS
<1>3. Grows
  BY Settled DEF Cache, remote, bounds
<1>4. StateOK(run[w].st) /\ run[w].st.rev = state.rev /\ state.rev \in Nat
  BY <1>1 DEF RunOK, Cache, At, EditsKept, TypeOK, StateOK, ServerOK
<1>5. \A s \in Scenes : \/ s \in DOMAIN docs \ DOMAIN queue.muts
                              /\ scenes[s] = docs[s].content
                        \/ (s \notin DOMAIN docs \/ s \in DOMAIN queue.muts)
                              /\ scenes[s] = layout[s]
  BY <1>2 DEF Cached
<1>6. ScenesOK(scenes)
  BY <1>2, <1>4, <1>5 DEF ScenesOK, StateOK, EditsKept, TypeOK, LayoutsOK
<1>7. layout' = scenes /\ scenes \in [Scenes -> Nat]
  BY <1>2, <1>6 DEF Cache, Cached, ScenesOK, EditsKept, TypeOK
<1>8. LayoutsOK'
  <2>1. ScenesOK(scenes)' /\ \A v \in Windows : ScenesOK(draft[v])'
    BY <1>3, <1>6, ScenesStay DEF Cache, EditsKept, TypeOK, LayoutsOK
  <2> QED
    BY <2>1, <1>7 DEF LayoutsOK, Cache, EditsKept, TypeOK
<1>9. RunsOK'
  BY <1>1, RunStep DEF Cache, EditsKept, TypeOK
<1>10. \A s \in DOMAIN queue.muts : layout'[s] = layout[s]
  BY <1>5, <1>7 DEF EditsKept, TypeOK, QueueOK
<1> QED
  BY <1>8, <1>9, <1>10, ShownStep DEF Cache, remote, bounds

LEMMA RevokeStep ==
    ASSUME EditsKept, Revoke
    PROVE  EditsKept'
<1>1. Grows
  BY Settled DEF Revoke, disk
<1>2. LayoutsOK'
  BY <1>1, LayoutsStay DEF Revoke, disk, EditsKept, TypeOK
<1>3. RunsOK'
  BY <1>1, RunsStay, BatchStays DEF Revoke, disk, EditsKept, TypeOK, RunsOK, RunOK
<1> QED
  BY <1>2, <1>3, ShownStep DEF Revoke, disk

-----------------------------------------------------------------------------
(* The steps that answer or drop what is queued.                           *)

\* Edits that leave the queue as they were saved are owed no more.
LEMMA AnsweredStep ==
    ASSUME EditsKept, NEW w \in Windows, NEW muts, NEW answer,
           UNCHANGED <<server, revision, stamp, state, layout, draft, paired>>,
           queue' = Acknowledged(muts, answer), owed' = Answered(muts, answer.accepted),
           answer.rev \in 0..revision,
           \A s \in answer.accepted \cap DOMAIN queue.muts :
               Founded(s, queue.muts[s], answer.rev),
           RunsOK'
    PROVE  EditsKept'
<1>1. Grows /\ StateOK(state)' /\ ServerOK'
  BY Settled, Still DEF EditsKept
<1>2. LayoutsOK'
  BY <1>1, LayoutsStay DEF EditsKept, TypeOK
<1>3. /\ QueueOK(Acknowledged(muts, answer))
      /\ \A s \in DOMAIN queue'.muts :
           s \in DOMAIN queue.muts /\ queue'.muts[s] = queue.muts[s]
      /\ \A s \in DOMAIN queue.muts \ DOMAIN queue'.muts :
           s \in answer.accepted /\ muts[s].content = queue.muts[s].content
  BY AcknowledgedOK DEF EditsKept, TypeOK, ServerOK
<1>4. QueueOK(queue)'
  BY <1>1, <1>3, QueueStays
<1>5. owed' \in [Scenes -> Nat \cup {None}]
  BY DEF Answered, EditsKept, TypeOK
<1>6. SavedEditsQueued' /\ PendingScenesShown'
  BY <1>3 DEF Answered, EditsKept, SavedEditsQueued, PendingScenesShown
<1> QED
  BY <1>1, <1>2, <1>4, <1>5, <1>6 DEF EditsKept, TypeOK

LEMMA AcknowledgeStep ==
    ASSUME EditsKept, NEW w \in Windows, Acknowledge(w)
    PROVE  EditsKept'
<1>1. Busy(w) /\ RunOK(run[w]) /\ paired /\ paired'
  BY DEF Acknowledge, disk, At, Busy, Idle, EditsKept, TypeOK, RunsOK
<1>2. PICK muts, answer, r : /\ muts = run[w].req.muts /\ answer = run[w].answer
                             /\ r = [pc |-> "repull", st |-> run[w].st]
  OBVIOUS
<1>3. /\ StateOK(r.st) /\ state.rev <= r.st.rev
      /\ QueueOK(run[w].req) /\ StillQueued(muts) /\ AnswerOK(muts, answer)
  BY <1>1, <1>2 DEF RunOK, Acknowledge, At, Uploading
<1>4. ASSUME NEW s \in answer.accepted \cap DOMAIN queue.muts
      PROVE  Founded(s, queue.muts[s], answer.rev)
  <2>1. /\ s \in DOMAIN muts /\ s \in Scenes /\ Founded(s, muts[s], answer.rev)
        /\ muts[s].seen \in Nat /\ queue.muts[s].seen \in Nat
        /\ server[s].rev \in Nat
    BY <1>2, <1>3 DEF AnswerOK, QueueOK, MutationOK, EditsKept, TypeOK, StateOK, ServerOK
  <2>2. muts[s].seen <= queue.muts[s].seen /\ (muts[s].ahead => queue.muts[s].ahead)
    BY <1>3, <2>1 DEF StillQueued
  <2> QED
    BY <2>1, <2>2 DEF Founded
<1>5. Grows /\ answer.rev \in 0..revision
  BY <1>3, Settled DEF AnswerOK, Acknowledge, remote, bounds
<1>6. RunOK(r)'
  BY <1>2, <1>3, <1>5, StateStays DEF RunOK, Stages, Uploading, Acknowledge
<1>7. RunsOK'
  BY <1>1, <1>2, <1>6, RunStep DEF Acknowledge, EditsKept, TypeOK
<1> QED
  BY <1>2, <1>4, <1>5, <1>7, AnsweredStep DEF Acknowledge, remote, bounds

LEMMA DropUnknownStep ==
    ASSUME EditsKept, NEW w \in Windows, DropUnknown(w)
    PROVE  EditsKept'
<1>1. Busy(w) /\ RunOK(run[w]) /\ paired /\ paired'
  BY DEF DropUnknown, disk, At, Busy, Idle, EditsKept, TypeOK, RunsOK
<1>2. PICK st, muts, missing, answer :
        /\ st = run[w].st /\ muts = run[w].req.muts /\ missing = Missing(st, muts)
        /\ answer = [accepted |-> missing, conflicts |-> {}, rev |-> st.rev]
  OBVIOUS
<1>3. PICK req, r : req = queue' /\ r = Upload(st, req)
  OBVIOUS
<1>4. StateOK(st) /\ state.rev <= st.rev
  BY <1>1, <1>2 DEF RunOK
<1>5. ASSUME NEW s \in missing \cap DOMAIN queue.muts
      PROVE  Founded(s, queue.muts[s], st.rev)
  <2>1. s \in Scenes /\ s \notin DOMAIN st.docs
    BY <1>2 DEF Missing, EditsKept, TypeOK, QueueOK
  <2> QED
    BY <2>1, <1>4 DEF StateOK, Founded
<1>6. Grows /\ st.rev \in 0..revision
  BY <1>4, Settled DEF StateOK, DropUnknown, remote, bounds
<1>7. queue' = Acknowledged(muts, answer) /\ QueueOK(Acknowledged(muts, answer))
  BY <1>2, <1>5, <1>6, AcknowledgedOK DEF DropUnknown, EditsKept, TypeOK, ServerOK
<1>8. QueueOK(req)' /\ StateOK(st)' /\ state'.rev <= st.rev
  BY <1>3, <1>4, <1>6, <1>7, QueueStays, StateStays DEF DropUnknown
<1>9. StillQueued(req.muts)'
  <2>1. \A s \in DOMAIN req.muts : req.muts[s].seen \in Nat
    BY <1>8 DEF QueueOK, MutationOK, Grows
  <2> QED
    BY <2>1, <1>3 DEF StillQueued
<1>10. r = Idle \/ RunOK(r)'
  BY <1>3, <1>8, <1>9, UploadOK
<1>11. RunsOK'
  BY <1>1, <1>2, <1>3, <1>10, RunStep DEF DropUnknown, EditsKept, TypeOK
<1> QED
  BY <1>2, <1>5, <1>6, <1>7, <1>11, AnsweredStep DEF DropUnknown, remote, bounds

\* The user's choice bases the queue on what the browser has pulled, or drops
\* the conflicting edits.
LEMMA ResolveStep ==
    ASSUME EditsKept, NEW w \in Windows, NEW choice \in {"server", "local"},
           Resolve(w, choice)
    PROVE  EditsKept'
<1>1. PICK st, r : /\ st = WithConflicts(state, {})
                   /\ r = [pc |-> "resolved", st |-> st, choice |-> choice]
  OBVIOUS
<1>2. Grows /\ StateOK(state)' /\ ServerOK' /\ state.rev \in Nat
  BY Settled, Still DEF EditsKept, Resolve, remote, bounds
<1>3. LayoutsOK'
  BY <1>2, LayoutsStay DEF Resolve, EditsKept, TypeOK
<1>4. StateOK(st)' /\ state'.rev = st.rev
  BY <1>1, <1>2 DEF WithConflicts, StateOK, Resolve
<1>5. RunOK(r)' /\ paired'
  BY <1>1, <1>2, <1>4 DEF RunOK, Stages, Uploading, Resolve
<1>6. RunsOK'
  BY <1>1, <1>5, RunStep DEF Resolve, EditsKept, TypeOK
<1>7. owed' \in [Scenes -> Nat \cup {None}]
  BY DEF Resolve, EditsKept, TypeOK
<1>8. CASE choice = "server"
  <2>1. PICK some : some = DOMAIN queue.muts \ state.conflicts
    OBVIOUS
  <2>2. queue' = QueueOf(queue.base, Restrict(queue.muts, some))
    BY <1>8, <2>1 DEF Resolve
  <2>3. /\ QueueOK(queue') /\ DOMAIN queue'.muts = some
        /\ \A s \in some : queue'.muts[s] = queue.muts[s]
    BY <2>1, <2>2, RestrictedOK DEF EditsKept, TypeOK, ServerOK
  <2>4. QueueOK(queue)'
    BY <1>2, <2>3, QueueStays
  <2>5. SavedEditsQueued' /\ PendingScenesShown'
    BY <1>8, <2>1, <2>3 DEF Resolve, EditsKept, SavedEditsQueued, PendingScenesShown
  <2> QED
    BY <1>2, <1>3, <1>6, <1>7, <2>4, <2>5 DEF EditsKept, TypeOK, Resolve, bounds
<1>9. CASE choice = "local"
  <2>1. PICK muts : muts = [s \in DOMAIN queue.muts |->
                              [content |-> queue.muts[s].content, seen |-> state.rev,
                               ahead |-> FALSE]]
    OBVIOUS
  <2>2. queue' = QueueOf(state.rev, muts)
    BY <1>9, <2>1 DEF Resolve
  <2>3. ASSUME NEW s \in DOMAIN queue.muts
        PROVE  MutationOK(s, muts[s]) /\ Founded(s, muts[s], state.rev)
    <3>1. /\ s \in Scenes /\ MutationOK(s, queue.muts[s])
          /\ muts[s] = [content |-> queue.muts[s].content, seen |-> state.rev,
                        ahead |-> FALSE]
      BY <2>1 DEF EditsKept, TypeOK, QueueOK
    <3> QED
      BY <3>1, <1>2 DEF MutationOK, Founded, PulledBy, EditsKept, TypeOK, ServerOK
  <2>4. QueueOK(QueueOf(state.rev, muts))
    <3>1. /\ DOMAIN muts = DOMAIN queue.muts /\ DOMAIN muts \subseteq Scenes
          /\ state.rev \in 0..revision /\ revision \in Nat
      BY <2>1 DEF EditsKept, TypeOK, QueueOK, StateOK, ServerOK
    <3> QED
      BY <2>3, <3>1 DEF QueueOf, QueueOK, NoQueue, NoScenes
  <2>5. QueueOK(queue)'
    BY <1>2, <2>2, <2>4, QueueStays
  <2>6. /\ DOMAIN queue'.muts = DOMAIN queue.muts
        /\ \A s \in DOMAIN queue.muts : queue'.muts[s].content = queue.muts[s].content
    BY <2>1, <2>2 DEF QueueOf, NoQueue, NoScenes
  <2>7. SavedEditsQueued' /\ PendingScenesShown'
    BY <1>9, <2>6 DEF Resolve, EditsKept, SavedEditsQueued, PendingScenesShown
  <2> QED
    BY <1>2, <1>3, <1>6, <1>7, <2>5, <2>7 DEF EditsKept, TypeOK, Resolve, bounds
<1> QED
  BY <1>8, <1>9

\* A revoked browser forgets its private state, all of it at once.
LEMMA DeniedStep ==
    ASSUME EditsKept, NEW w \in Windows, Denied(w)
    PROVE  EditsKept'
<1>1. /\ queue' = NoQueue /\ state' = NoState /\ ~paired'
      /\ UNCHANGED <<server, revision, stamp, draft>>
      /\ layout' = [s \in Scenes |-> Gone] /\ owed' = [s \in Scenes |-> None]
  BY DEF Denied, ClearPrivateState, remote, bounds
<1>2. ServerOK' /\ stamp' \in Nat
  BY <1>1 DEF EditsKept, TypeOK, ServerOK, Foreign
<1>3. QueueOK(queue)' /\ StateOK(state)'
  BY <1>1, <1>2 DEF QueueOK, StateOK, NoQueue, NoState, NoScenes, ServerOK
<1>4. LayoutsOK'
  BY <1>1 DEF LayoutsOK, ScenesOK, Gone, EditsKept, TypeOK
<1>5. RunsOK'
  BY RunStep DEF Denied, EditsKept, TypeOK, Busy, Idle
<1>6. SavedEditsQueued' /\ PendingScenesShown'
  BY <1>1 DEF SavedEditsQueued, PendingScenesShown, NoQueue, NoScenes
<1> QED
  BY <1>1, <1>2, <1>3, <1>4, <1>5, <1>6 DEF EditsKept, TypeOK

-----------------------------------------------------------------------------
(* The steps that change the server.                                       *)

\* Whoever writes, the browser's stores stay as they are.
LEMMA ServerStep ==
    ASSUME EditsKept, Grows, ServerOK', RunsOK', paired' = paired,
           UNCHANGED <<queue, state, layout, draft>>,
           owed' \in [Scenes -> Nat \cup {None}],
           \A s \in Scenes : owed'[s] \in {owed[s], None}
    PROVE  EditsKept'
<1>1. StateOK(state)' /\ QueueOK(queue)' /\ LayoutsOK'
  BY StateStays, QueueStays, LayoutsStay DEF EditsKept, TypeOK
<1> QED
  BY <1>1 DEF EditsKept, TypeOK, SavedEditsQueued, PendingScenesShown, Grows

LEMMA ForeignRow ==
    ASSUME revision \in Nat, NEW s \in Scenes, NEW content, ForeignEdit(s, content),
           NEW t \in Scenes
    PROVE  /\ t # s => server'[t] = server[t]
           /\ t = s => /\ server'[t].content = content /\ server'[t].by = "other"
                       /\ server'[t].rev \in Nat /\ server'[t].rev > revision
                       /\ server'[t].rev <= revision'
                       /\ server'[t].content \in {Gone, server'[t].body}
<1>1. /\ revision' = revision + 1
      /\ server' = Committed([u \in {s} |-> [content |-> content]], {s}, "other")
  BY DEF ForeignEdit
<1>2. revision' = revision + Cardinality({s})
  BY <1>1, FS_Singleton
<1> DEFINE muts == [u \in {s} |-> [content |-> content]]
<1>3. muts[s].content = content /\ {s} \in SUBSET Scenes
  OBVIOUS
<1> HIDE DEF muts
<1>4. server' = Committed(muts, {s}, "other")
  BY <1>1 DEF muts
<1>5. Rows(muts, {s}, "other")
  <2>1. {s} \in SUBSET Scenes
    OBVIOUS
  <2> QED
    BY <1>2, <1>4, <2>1, CommittedRows
<1>6. CASE t = s
  BY <1>3, <1>5, <1>6 DEF Rows
<1>7. CASE t # s
  BY <1>5, <1>7 DEF Rows
<1> QED
  BY <1>6, <1>7

LEMMA ForeignEditStep ==
    ASSUME EditsKept, NEW s \in Scenes, NEW content \in {stamp + 1, Gone},
           ForeignEdit(s, content)
    PROVE  EditsKept'
<1>1. /\ revision' = revision + 1 /\ stamp' = stamp + 1 /\ paired' = paired
      /\ UNCHANGED <<queue, state, layout, draft, run, owed>>
      /\ content = Gone => s # Base
  BY DEF ForeignEdit, disk
<1>2. /\ stamp \in Nat /\ revision \in Nat /\ state.rev \in Nat
      /\ \A t \in Scenes : server[t].rev \in 0..revision /\ server[t].content \in 0..stamp
  BY DEF EditsKept, TypeOK, ServerOK, StateOK
<1>3. ASSUME NEW t \in Scenes
      PROVE  /\ t # s => server'[t] = server[t]
             /\ t = s => /\ server'[t].content = content /\ server'[t].by = "other"
                         /\ server'[t].rev \in Nat /\ server'[t].rev > revision
                         /\ server'[t].rev <= revision'
                         /\ server'[t].content \in {Gone, server'[t].body}
  BY <1>2, ForeignRow
<1>4. \A t \in Scenes : server'[t].rev \in Nat
  BY <1>2, <1>3
<1>5. Grows
  <2>1. content = Gone \/ content > stamp
    BY <1>2
  <2> QED
    BY <1>1, <1>2, <1>3, <1>4, <2>1 DEF Grows
<1>6. ServerOK'
  <2>1. server'[Base].content # Gone
    BY <1>1, <1>3, <1>2, SyncAssumption DEF EditsKept, TypeOK, ServerOK, Gone
  <2> QED
    <3>1. content \in 0..stamp' /\ revision' \in Nat
      BY <1>1, <1>2 DEF Gone
    <3>2. ASSUME NEW t \in Scenes
          PROVE  /\ server'[t].content \in 0..stamp' /\ server'[t].rev \in 0..revision'
                 /\ server'[t].content \in {Gone, server'[t].body}
                 /\ Foreign(t)' => server'[t].rev > 0
      BY <1>1, <1>2, <1>3, <3>1 DEF EditsKept, TypeOK, ServerOK, Foreign
    <3> QED
      BY <2>1, <3>1, <3>2 DEF ServerOK
<1>7. RunsOK'
  BY <1>1, <1>5, RunsStay, BatchStays DEF EditsKept, TypeOK, RunsOK, RunOK
<1> QED
  BY <1>1, <1>5, <1>6, <1>7, ServerStep DEF EditsKept, TypeOK

\* What a batch does at the server.
LEMMA Posted ==
    ASSUME EditsKept, NEW w \in Windows, NEW lost \in BOOLEAN, Post(w, lost),
           NEW muts, muts = run[w].req.muts,
           NEW basis, basis = Min({run[w].req.base, run[w].st.rev}),
           ~Refused(muts, basis)
    PROVE  /\ Grows /\ ServerOK'
           /\ \A s \in Scenes :
                IF s \in Written(muts, basis)
                THEN server'[s].by = "browser" /\ Founded(s, muts[s], server[s].rev)
                ELSE server'[s] = server[s]
<1>1. Busy(w) /\ RunOK(run[w])
  BY DEF Post, At, Busy, Idle, EditsKept, TypeOK, RunsOK
<1>2. QueueOK(run[w].req) /\ StateOK(run[w].st)
  BY <1>1 DEF RunOK, Post, At, Uploading
<1>3. /\ stamp \in Nat /\ revision \in Nat /\ state.rev \in Nat
      /\ \A s \in Scenes : server[s].rev \in 0..revision /\ server[s].content \in 0..stamp
  BY DEF EditsKept, TypeOK, ServerOK, StateOK
<1>4. PICK written : written = Written(muts, basis)
  OBVIOUS
<1>5. written \in SUBSET Scenes
  BY <1>2, <1>4 DEF Written, QueueOK
<1>6. /\ server' = Committed(muts, written, "browser")
      /\ revision' = revision + Cardinality(written)
      /\ UNCHANGED <<stamp, state>>
  BY <1>4 DEF Post, disk
<1>7. /\ revision' \in Nat /\ revision <= revision'
      /\ Rows(muts, written, "browser")
  BY <1>3, <1>5, <1>6, CommittedRows
<1>8. \A s \in Scenes :
        /\ s \notin written => server'[s] = server[s]
        /\ s \in written => /\ server'[s].content = muts[s].content
                            /\ server'[s].content \in {Gone, server'[s].body}
                            /\ server'[s].by = "browser"
                            /\ server'[s].rev \in Nat /\ server'[s].rev > revision
                            /\ server'[s].rev <= revision'
  BY <1>7 DEF Rows
<1>9. Grows
  BY <1>3, <1>6, <1>7, <1>8 DEF Grows
<1>10. \A s \in written : /\ muts[s].content \in 0..stamp
                          /\ s = Base => muts[s].content # Gone
  BY <1>2, <1>4 DEF Written, QueueOK, MutationOK
<1>11. ServerOK'
  <2>1. server'[Base].content # Gone
    BY <1>8, <1>10, SyncAssumption DEF EditsKept, TypeOK, ServerOK
  <2>2. ASSUME NEW s \in Scenes
        PROVE  /\ server'[s].content \in 0..stamp
               /\ server'[s].rev \in 0..revision'
               /\ server'[s].content \in {Gone, server'[s].body}
               /\ Foreign(s)' => server'[s].rev > 0
    <3>1. CASE s \in written
      BY <3>1, <1>3, <1>7, <1>8, <1>10
    <3>2. CASE s \notin written
      <4>1. server'[s] = server[s]
        BY <3>2, <1>8
      <4>2. /\ Foreign(s)' => server[s].rev > 0
            /\ server[s].content \in {Gone, server[s].body}
        BY <4>1 DEF Foreign, EditsKept, TypeOK, ServerOK
      <4> QED
        BY <4>1, <4>2, <1>3, <1>7
    <3> QED
      BY <3>1, <3>2
  <2> QED
    BY <2>1, <2>2, <1>6, <1>7 DEF ServerOK
<1>12. ASSUME NEW s \in written
       PROVE  Founded(s, muts[s], server[s].rev)
  <2>1. /\ s \in Scenes /\ Founded(s, muts[s], run[w].req.base)
        /\ run[w].req.base \in Nat /\ run[w].st.rev \in Nat /\ server[s].rev \in Nat
    BY <1>2, <1>3, <1>4, <1>5 DEF Written, QueueOK, StateOK
  <2>2. basis <= run[w].req.base /\ basis \in Nat
    BY <2>1, Smaller
  <2>3. s \notin Conflicting(muts, basis) /\ s \notin Unchanged(muts) /\ s \in DOMAIN muts
    BY <1>4 DEF Written
  <2>4. Foreign(s) => server[s].rev <= basis
    BY <2>1, <2>2, <2>3 DEF Conflicting, Unchanged, Foreign, EditsKept, TypeOK, ServerOK
  <2> QED
    BY <2>1, <2>2, <2>4 DEF Founded
<1> QED
  BY <1>4, <1>8, <1>9, <1>11, <1>12

LEMMA PostStep ==
    ASSUME EditsKept, NEW w \in Windows, NEW lost \in BOOLEAN, Post(w, lost)
    PROVE  EditsKept'
<1>1. Busy(w) /\ RunOK(run[w]) /\ paired /\ paired'
  BY DEF Post, disk, At, Busy, Idle, EditsKept, TypeOK, RunsOK
<1>2. PICK st, req, basis : /\ st = run[w].st /\ req = run[w].req
                            /\ basis = Min({req.base, st.rev})
  OBVIOUS
<1>3. /\ StateOK(st) /\ state.rev <= st.rev
      /\ QueueOK(req) /\ StillQueued(req.muts)
  BY <1>1, <1>2 DEF RunOK, Post, At, Uploading
<1>4. /\ owed' \in [Scenes -> Nat \cup {None}]
      /\ \A s \in Scenes : owed'[s] \in {owed[s], None}
  BY DEF Post, Answered, EditsKept, TypeOK
<1>5. CASE Refused(req.muts, basis)
  <2>1. UNCHANGED <<server, revision, stamp, state>> /\ Goto(w, Idle)
    BY <1>2, <1>5 DEF Post, disk
  <2>2. Grows /\ ServerOK'
    BY <2>1, Settled, Still DEF EditsKept
  <2>3. RunsOK'
    BY <2>1, <1>1, RunStep DEF EditsKept, TypeOK
  <2> QED
    BY <1>1, <1>4, <2>2, <2>3, ServerStep DEF Post, disk
<1>6. CASE ~Refused(req.muts, basis)
  <2>1. /\ Grows /\ ServerOK'
        /\ \A s \in Scenes :
             IF s \in Written(req.muts, basis)
             THEN server'[s].by = "browser" ELSE server'[s] = server[s]
    BY <1>2, <1>6, Posted
  <2>2. PICK answer, r :
          /\ answer = [accepted |-> DOMAIN req.muts \ Conflicting(req.muts, basis),
                       rev |-> revision', conflicts |-> Conflicting(req.muts, basis)]
          /\ r = [pc |-> "answered", st |-> st, req |-> req, answer |-> answer]
    OBVIOUS
  <2>3. ASSUME NEW s \in answer.accepted
        PROVE  Founded(s, req.muts[s], answer.rev)'
    <3>1. s \in DOMAIN req.muts /\ s \notin Conflicting(req.muts, basis) /\ s \in Scenes
      BY <2>2, <1>3 DEF QueueOK
    <3>2. CASE s \in Written(req.muts, basis)
      BY <3>1, <3>2, <2>1 DEF Founded, Foreign
    <3>3. CASE s \notin Written(req.muts, basis)
      <4>1. s \in Unchanged(req.muts) /\ server'[s] = server[s]
        BY <3>1, <3>3, <2>1 DEF Written
      <4>2. PulledBy(s, req.muts[s].content, req.muts[s].seen)
        BY <3>1, <1>3 DEF QueueOK, MutationOK
      <4> QED
        BY <4>1, <4>2 DEF Unchanged, PulledBy, Founded, Foreign
    <3> QED
      BY <3>2, <3>3
  <2>4. AnswerOK(req.muts, answer)'
    BY <2>1, <2>2, <2>3 DEF AnswerOK, Conflicting, Grows
  <2>5. StateOK(st)' /\ QueueOK(req)' /\ StillQueued(req.muts)'
    BY <2>1, <1>3, Carried DEF Post, disk
  <2>6. RunOK(r)'
    BY <2>2, <2>4, <2>5, <1>3 DEF RunOK, Stages, Uploading, Post, disk
  <2>7. RunsOK'
    <3>1. CASE lost
      BY <3>1, <1>1, RunStep DEF Post, EditsKept, TypeOK
    <3>2. CASE ~lost
      <4>1. Goto(w, r)
        BY <3>2, <1>2, <1>6, <2>2 DEF Post
      <4> QED
        BY <4>1, <1>1, <2>6, RunStep DEF EditsKept, TypeOK
    <3> QED
      BY <3>1, <3>2
  <2> QED
    BY <1>1, <1>4, <2>1, <2>7, ServerStep DEF Post, disk
<1> QED
  BY <1>5, <1>6

-----------------------------------------------------------------------------
(* The user's saves.                                                       *)

LEMMA SaveStep ==
    ASSUME EditsKept, NEW w \in Windows, NEW scenes \in [Scenes -> Nat],
           Save(w, scenes),
           \A s \in Scenes : \/ scenes[s] = draft[w][s] \/ scenes[s] = stamp + 1
                             \/ scenes[s] = Gone /\ s # Base
    PROVE  EditsKept'
<1>1. /\ UNCHANGED <<server, revision, state, run, paired>> /\ paired
      /\ stamp' = stamp + 1 /\ layout' = scenes
      /\ draft' = [draft EXCEPT ![w] = scenes] /\ queue' = Queued(scenes)
  BY DEF Save, SaveQueuedStudio, remote
<1>2. /\ stamp \in Nat /\ revision \in Nat /\ state.rev \in 0..revision
      /\ \A s \in Scenes : server[s].rev \in 0..revision /\ server[s].content \in 0..stamp
  BY DEF EditsKept, TypeOK, ServerOK, StateOK
<1>3. Grows /\ ServerOK'
  BY <1>1, <1>2 DEF Grows, EditsKept, TypeOK, ServerOK, Foreign
<1>4. StateOK(state)'
  BY <1>1, <1>3, StateStays DEF EditsKept, TypeOK
<1>5. ScenesOK(scenes)'
  <2>1. ScenesOK(draft[w])
    BY DEF EditsKept, TypeOK, LayoutsOK
  <2>2. ASSUME NEW s \in Scenes
        PROVE  /\ scenes[s] \in 0..(stamp + 1) /\ (s = Base => scenes[s] # Gone)
               /\ PulledBy(s, scenes[s], state.rev)
    BY <1>1, <1>2, <2>1 DEF ScenesOK, PulledBy, Foreign, Gone
  <2> QED
    BY <1>1, <2>2 DEF ScenesOK, PulledBy, Foreign
<1>6. LayoutsOK'
  <2>1. ASSUME NEW v \in Windows
        PROVE  ScenesOK(draft[v])'
    <3>1. PICK shown : shown = draft'[v]
      OBVIOUS
    <3>2. CASE v = w
      BY <3>1, <3>2, <1>1, <1>5 DEF EditsKept, TypeOK, LayoutsOK
    <3>3. CASE v # w
      BY <3>1, <3>3, <1>1, <1>3, ScenesStay DEF EditsKept, TypeOK, LayoutsOK
    <3> QED
      BY <3>2, <3>3
  <2> QED
    BY <2>1, <1>1, <1>5 DEF LayoutsOK, EditsKept, TypeOK
<1> DEFINE row(s, b) ==
             [content |-> scenes[s],
              seen |-> IF s \in DOMAIN queue.muts /\ queue.muts[s].content = scenes[s]
                         THEN queue.muts[s].seen ELSE state.rev,
              ahead |-> IF s \in DOMAIN queue.muts THEN queue.muts[s].ahead
                        ELSE b > state.rev]
<1>7a. PICK base, ids :
         /\ base = IF Pending THEN queue.base ELSE state.rev
         /\ ids = DOMAIN SceneMutations(scenes) \cup DOMAIN queue.muts
  OBVIOUS
<1>7b. PICK muts : muts = [s \in ids |-> row(s, base)]
  OBVIOUS
<1>7. /\ base = IF Pending THEN queue.base ELSE state.rev
      /\ ids = DOMAIN SceneMutations(scenes) \cup DOMAIN queue.muts
      /\ muts = [s \in ids |-> row(s, base)]
  BY <1>7a, <1>7b
<1>8. ids \subseteq Scenes /\ Base \in ids /\ DOMAIN queue.muts \subseteq ids
  BY <1>7, <1>5, <1>1, SyncAssumption
     DEF SceneMutations, Live, ScenesOK, EditsKept, TypeOK, StateOK, QueueOK
<1>9. queue' = [base |-> base, muts |-> muts] /\ DOMAIN muts = ids
  BY <1>1, <1>7, <1>8 DEF Queued, QueueOf
<1>10. ASSUME NEW s \in ids
       PROVE  MutationOK(s, muts[s])' /\ Founded(s, muts[s], base)'
  <2>1. /\ s \in Scenes /\ scenes[s] \in 0..stamp' /\ (s = Base => scenes[s] # Gone)
        /\ PulledBy(s, scenes[s], state.rev)
    BY <1>1, <1>5, <1>8 DEF ScenesOK, PulledBy, Foreign
  <2>2. CASE s \in DOMAIN queue.muts
    <3>1. /\ MutationOK(s, queue.muts[s]) /\ Founded(s, queue.muts[s], queue.base)
          /\ base = queue.base
      BY <2>2, <1>7 DEF EditsKept, TypeOK, QueueOK, Pending
    <3>2. /\ muts[s].content = scenes[s] /\ muts[s].ahead = queue.muts[s].ahead
          /\ muts[s].seen = IF queue.muts[s].content = scenes[s]
                            THEN queue.muts[s].seen ELSE state.rev
      BY <2>2, <1>7
    <3>3. MutationOK(s, muts[s])'
      BY <3>1, <3>2, <2>1, <1>1, <1>2 DEF MutationOK, PulledBy, Foreign
    <3>4. muts[s].seen \in Nat /\ queue.muts[s].seen <= muts[s].seen
      BY <3>1, <3>2, <1>2 DEF MutationOK
    <3>5. queue.muts[s].seen \in Nat /\ server[s].rev \in Nat
      BY <3>1, <2>1, <1>2 DEF MutationOK
    <3>6. Founded(s, muts[s], base)'
      BY <3>1, <3>2, <3>4, <3>5, <1>1 DEF Founded, Foreign
    <3> QED
      BY <3>3, <3>6
  <2>3. CASE s \notin DOMAIN queue.muts
    <3>1. base \in Nat
      BY <1>2, <1>7 DEF EditsKept, TypeOK, QueueOK
    <3>2. /\ muts[s].content = scenes[s] /\ muts[s].seen = state.rev
          /\ muts[s].ahead = (base > state.rev) /\ (~muts[s].ahead => ~(base > state.rev))
      BY <2>3, <1>7
    <3>3. MutationOK(s, muts[s])'
      BY <3>1, <3>2, <2>1, <1>1, <1>2 DEF MutationOK, PulledBy, Foreign
    <3>4. ASSUME server[s].rev <= base, ~muts[s].ahead
          PROVE  server[s].rev <= muts[s].seen
      BY <3>1, <3>2, <3>4, <2>1, <1>2
    <3>5. Founded(s, muts[s], base)'
      BY <3>4, <1>1 DEF Founded
    <3> QED
      BY <3>3, <3>5
  <2> QED
    BY <2>2, <2>3
<1>11. QueueOK(queue)'
  <2>1. base \in 0..revision
    BY <1>2, <1>7 DEF EditsKept, TypeOK, QueueOK
  <2> QED
    BY <2>1, <1>1, <1>8, <1>9, <1>10 DEF QueueOK
<1>12. ASSUME NEW batch, StillQueued(batch), \A s \in DOMAIN batch : batch[s].seen \in 0..state.rev
       PROVE  StillQueued(batch)'
  <2>1. ASSUME NEW s \in DOMAIN queue.muts
        PROVE  /\ s \in ids /\ muts[s].ahead = queue.muts[s].ahead
               /\ queue.muts[s].seen \in 0..state.rev
               /\ muts[s].seen \in {queue.muts[s].seen, state.rev}
    BY <1>7, <1>8 DEF EditsKept, TypeOK, QueueOK, MutationOK
  <2> QED
    BY <2>1, <1>2, <1>9, <1>12 DEF StillQueued
<1>13. RunsOK'
  <2>1. ASSUME NEW v \in Windows, Busy(v), run[v].pc \in Uploading
        PROVE  StillQueued(run[v].req.muts)'
    <3>1. QueueOK(run[v].req) /\ StillQueued(run[v].req.muts)
      BY <2>1 DEF EditsKept, TypeOK, RunsOK, RunOK
    <3>2. PICK batch : batch = run[v].req.muts
      OBVIOUS
    <3>3. StillQueued(batch)'
      BY <3>1, <3>2, <1>12 DEF QueueOK, MutationOK
    <3> QED
      BY <3>2, <3>3, <1>1
  <2> QED
    BY <2>1, <1>1, <1>3, RunsStay DEF EditsKept, TypeOK
<1>14. owed' \in [Scenes -> Nat \cup {None}]
  BY DEF Save, EditsKept, TypeOK
<1>15. SavedEditsQueued' /\ PendingScenesShown'
  <2>1. \A s \in DOMAIN queue'.muts : queue'.muts[s].content = scenes[s]
    BY <1>7, <1>9
  <2>2. ASSUME NEW s \in Scenes, owed'[s] # None
        PROVE  s \in DOMAIN queue'.muts /\ queue'.muts[s].content = owed'[s]
    BY <2>1, <2>2, <1>8, <1>9 DEF Save, EditsKept, SavedEditsQueued
  <2> QED
    BY <2>1, <2>2, <1>1 DEF SavedEditsQueued, PendingScenesShown
<1> QED
  BY <1>1, <1>2, <1>3, <1>4, <1>6, <1>11, <1>13, <1>14, <1>15 DEF EditsKept, TypeOK

LEMMA UserSaves ==
    ASSUME EditsKept, NEW w \in Windows, NEW s \in Scenes,
           EditScene(w, s) \/ RemoveScene(w, s)
    PROVE  EditsKept'
<1>1. draft[w] \in [Scenes -> Nat] /\ stamp \in Nat
  BY DEF EditsKept, TypeOK, LayoutsOK
<1>2. CASE EditScene(w, s)
  <2>1. PICK scenes : scenes = [draft[w] EXCEPT ![s] = stamp + 1]
    OBVIOUS
  <2>2. /\ scenes \in [Scenes -> Nat] /\ Save(w, scenes)
        /\ \A t \in Scenes : scenes[t] = draft[w][t] \/ scenes[t] = stamp + 1
    BY <1>1, <1>2, <2>1 DEF EditScene
  <2> QED
    BY <2>2, SaveStep
<1>3. CASE RemoveScene(w, s)
  <2>1. PICK scenes : scenes = [draft[w] EXCEPT ![s] = Gone]
    OBVIOUS
  <2>2. /\ scenes \in [Scenes -> Nat] /\ Save(w, scenes)
        /\ \A t \in Scenes : scenes[t] = draft[w][t] \/ (scenes[t] = Gone /\ t # Base)
    BY <1>1, <1>3, <2>1 DEF RemoveScene, Gone
  <2> QED
    BY <2>2, SaveStep
<1> QED
  BY <1>2, <1>3

-----------------------------------------------------------------------------
(* The theorems.                                                           *)

LEMMA InitKept == Init => EditsKept
<1> SUFFICES ASSUME Init PROVE EditsKept
  OBVIOUS
<1>1. /\ stamp = 1 /\ revision = 0 /\ queue = NoQueue /\ state = NoState
      /\ \A s \in Scenes : /\ server[s].rev = 0 /\ server[s].by = "none"
                           /\ server[s].content = IF s = Base THEN 1 ELSE Gone
                           /\ server[s].content = server[s].body
                           /\ layout[s] = IF s = Base THEN 1 ELSE Gone
      /\ layout \in [Scenes -> Nat] /\ draft = [w \in Windows |-> layout]
      /\ owed = [s \in Scenes |-> None] /\ run = [w \in Windows |-> Idle]
  BY DEF Init, Gone
<1>2. ServerOK
  BY <1>1, SyncAssumption DEF ServerOK, Gone, Foreign
<1>3. QueueOK(queue) /\ StateOK(state)
  BY <1>1 DEF QueueOK, StateOK, NoQueue, NoState, NoScenes, Foreign
<1>4. LayoutsOK
  BY <1>1 DEF LayoutsOK, ScenesOK, PulledBy, Foreign, Gone
<1>5. RunsOK
  BY <1>1 DEF RunsOK, Busy
<1> QED
  BY <1>1, <1>2, <1>3, <1>4, <1>5
     DEF EditsKept, TypeOK, SavedEditsQueued, PendingScenesShown, NoQueue, NoScenes

LEMMA NextKept == EditsKept /\ [Next]_vars => EditsKept'
<1> SUFFICES ASSUME EditsKept, [Next]_vars PROVE EditsKept'
  OBVIOUS
<1>1. ASSUME NEW w \in Windows, SyncStep(w)
      PROVE  EditsKept'
  BY <1>1, StartStep, LoadQueueStep, DropUnknownStep, PostStep, PullStep,
     SaveConflictsStep, AcknowledgeStep, PullAgainStep, FinishStep, CacheStep,
     ResolvedStep, DeniedStep DEF SyncStep
<1>2. ASSUME NEW w \in Windows, UserStep(w)
      PROVE  EditsKept'
  BY <1>2, UserSaves, LoadLayoutStep, ResolveStep DEF UserStep
<1>3. ASSUME NEW w \in Windows, Fault(w)
      PROVE  EditsKept'
  BY <1>3, RequestFailsStep, ReloadStep, PostStep, PullStep DEF Fault
<1>4. ASSUME NEW s \in Scenes, ForeignEdit(s, stamp + 1) \/ ForeignEdit(s, Gone)
      PROVE  EditsKept'
  BY <1>4, ForeignEditStep
<1>5. CASE UNCHANGED vars
  <2>1. StateOK(state)' /\ state.rev <= state'.rev /\ Grows
    BY <1>5, Settled DEF vars, remote, disk, bounds, Grows
  <2>2. RunsOK'
    BY <1>5, <2>1, RunsStay, BatchStays DEF vars, EditsKept, TypeOK, RunsOK, RunOK
  <2> QED
    BY <1>5, <2>1, <2>2, QuietStep DEF vars
<1> QED
  BY <1>1, <1>2, <1>3, <1>4, <1>5, RevokeStep DEF Next

\* What the device saved is neither lost nor hidden before it is answered
\* (acknowledgeQueue, cacheUnqueuedScenes, saveQueuedStudio).
THEOREM EditsKeptTheorem == Spec => []EditsKept
  BY InitKept, NextKept, PTL DEF Spec

\* Only an upload makes the server's content this browser's.
LEMMA OnlyPosts ==
    ASSUME EditsKept, [Next]_vars, NEW s \in Scenes, Foreign(s),
           server'[s].by = "browser"
    PROVE  \E w \in Windows, lost \in BOOLEAN : Post(w, lost)
<1> SUFFICES ASSUME ~\E w \in Windows, lost \in BOOLEAN : Post(w, lost) PROVE FALSE
  OBVIOUS
<1>1. CASE server' = server
  BY <1>1 DEF Foreign
<1>2. ASSUME NEW t \in Scenes, NEW content, ForeignEdit(t, content)
      PROVE  FALSE
  <2>1. revision \in Nat
    BY DEF EditsKept, TypeOK, ServerOK
  <2> QED
    BY <2>1, <1>2, ForeignRow DEF Foreign
<1>3. ASSUME NEW w \in Windows, SyncStep(w)
      PROVE  FALSE
  <2>1. server' = server
    BY <1>3 DEF SyncStep, Start, LoadQueue, DropUnknown, Pull, SaveConflicts, Acknowledge,
                PullAgain, Finish, Cache, Resolved, Denied, remote
  <2> QED
    BY <2>1, <1>1
<1>4. ASSUME NEW w \in Windows, UserStep(w) \/ Fault(w)
      PROVE  FALSE
  <2>1. server' = server
    BY <1>4 DEF UserStep, EditScene, RemoveScene, Save, LoadLayout, Resolve, Fault,
                RequestFails, Reload, Pull, remote
  <2> QED
    BY <2>1, <1>1
<1>5. ASSUME Revoke \/ UNCHANGED vars
      PROVE  FALSE
  <2>1. server' = server
    BY <1>5 DEF Revoke, vars, remote
  <2> QED
    BY <2>1, <1>1
<1> QED
  BY <1>2, <1>3, <1>4, <1>5 DEF Next

\* No upload replaces a scene of another device that its writer had not pulled,
\* the scenes first queued ahead apart (queueMutations, acknowledgeQueue,
\* resolveSyncConflicts, sync_mutations).
THEOREM NoBlindUploadTheorem == Spec => NoBlindUpload
<1>1. ASSUME EditsKept, [Next]_vars, NEW s \in Scenes, Foreign(s),
             server'[s].by = "browser"
      PROVE  \E w \in Windows : /\ At(w, "post")
                                /\ s \in DOMAIN run[w].req.muts
                                /\ \/ server[s].rev <= run[w].req.muts[s].seen
                                   \/ run[w].req.muts[s].ahead
  <2>1. PICK w \in Windows, lost \in BOOLEAN : Post(w, lost)
    BY <1>1, OnlyPosts
  <2>2. PICK muts, basis : /\ muts = run[w].req.muts
                           /\ basis = Min({run[w].req.base, run[w].st.rev})
    OBVIOUS
  <2>3. ~Refused(muts, basis)
    BY <1>1, <2>1, <2>2 DEF Post, Foreign
  <2>4. s \in Written(muts, basis) /\ Founded(s, muts[s], server[s].rev)
    BY <1>1, <2>1, <2>2, <2>3, Posted DEF Foreign
  <2>5. s \in DOMAIN muts /\ server[s].rev \in Nat
    BY <1>1, <2>4 DEF Written, EditsKept, TypeOK, ServerOK
  <2> QED
    BY <1>1, <2>1, <2>2, <2>4, <2>5 DEF Founded, Post
<1>2. EditsKept /\ [Next]_vars =>
        [\A s \in Scenes :
           (Foreign(s) /\ server'[s].by = "browser")
           => \E w \in Windows : /\ At(w, "post")
                                 /\ s \in DOMAIN run[w].req.muts
                                 /\ \/ server[s].rev <= run[w].req.muts[s].seen
                                    \/ run[w].req.muts[s].ahead]_vars
  BY <1>1
<1> QED
  BY <1>2, EditsKeptTheorem, PTL DEF Spec, NoBlindUpload

-----------------------------------------------------------------------------
(* The controls of sources (SourceControls).                               *)

RecordOf(k) == IF k \in {"stat", "meter"} THEN Adjusted!Decoration ELSE Adjusted!Audio
Fields(k) == IF k \in {"stat", "meter"} THEN {"stat", "meter"} ELSE {"muted", "monitor"}

\* The records of a document.
LEMMA Shape ==
    ASSUME NEW view \in Adjusted!MonitorView, NEW k \in Adjusted!Controls
    PROVE  /\ Adjusted!RecordsOf(view, k) \in Adjusted!Records(RecordOf(k))
           /\ DOMAIN Adjusted!RecordsOf(view, k) \subseteq Sources
           /\ \A s \in DOMAIN Adjusted!RecordsOf(view, k) :
                 /\ Adjusted!RecordsOf(view, k)[s] \in RecordOf(k)
                 /\ DOMAIN Adjusted!RecordsOf(view, k)[s] = Fields(k)
                 /\ k \in Fields(k) /\ Adjusted!RecordsOf(view, k)[s][k] \in BOOLEAN
           /\ view.stat \in BOOLEAN
<1>1. Adjusted!RecordsOf(view, k) \in Adjusted!Records(RecordOf(k)) /\ view.stat \in BOOLEAN
  BY DEF Adjusted!MonitorView, Adjusted!RecordsOf, RecordOf
<1>2. PICK D \in SUBSET Sources : Adjusted!RecordsOf(view, k) \in [D -> RecordOf(k)]
  BY <1>1 DEF Adjusted!Records
<1>3. ASSUME NEW r \in RecordOf(k)
      PROVE  DOMAIN r = Fields(k) /\ k \in Fields(k) /\ r[k] \in BOOLEAN
  BY <1>3 DEF RecordOf, Fields, Adjusted!Decoration, Adjusted!Audio, Adjusted!Controls
<1> QED BY <1>1, <1>2, <1>3

LEMMA UsualValues ==
    /\ Adjusted!Usual["stat"] = FALSE /\ Adjusted!Usual["meter"] = FALSE /\ Adjusted!Usual["muted"] = FALSE
    /\ Adjusted!Usual["monitor"] = TRUE
    /\ \A k \in Adjusted!Controls : Adjusted!Usual[k] \in BOOLEAN
<1>1. /\ Adjusted!Usual["stat"] = FALSE /\ Adjusted!Usual["meter"] = FALSE /\ Adjusted!Usual["muted"] = FALSE
      /\ Adjusted!Usual["monitor"] = TRUE
  BY DEF Adjusted!Usual
<1> QED BY <1>1 DEF Adjusted!Controls

\* Maps from sources to records.
LEMMA Mapped ==
    ASSUME NEW S, NEW f, f = [s \in DOMAIN f |-> f[s]], DOMAIN f \subseteq Sources,
           \A s \in DOMAIN f : f[s] \in S
    PROVE  f \in Adjusted!Records(S)
<1>1. f \in [DOMAIN f -> S] /\ DOMAIN f \in SUBSET Sources
  OBVIOUS
<1> QED BY <1>1 DEF Adjusted!Records

\* What a merge makes of the records of one kind.
LEMMA MergedRecords ==
    ASSUME NEW k \in Adjusted!Controls, NEW c \in Adjusted!Records(RecordOf(k)), NEW b \in Adjusted!Records(RecordOf(k)),
           NEW e \in Adjusted!Records(RecordOf(k)), NEW m, m = Adjusted!MergeRecords(c, b, e)
    PROVE  /\ m \in Adjusted!Records(RecordOf(k))
           /\ \A s : s \in DOMAIN m <=>
               ((s \in DOMAIN c /\ (s \in DOMAIN b => s \in DOMAIN e))
                 \/ (s \in DOMAIN e /\ (s \in DOMAIN b => e[s] # b[s])))
           /\ \A s \in DOMAIN m :
                 \/ s \in DOMAIN e \ DOMAIN b /\ m[s] = e[s]
                 \/ /\ s \in DOMAIN e \cap DOMAIN b
                    /\ m[s][k] = IF e[s][k] # b[s][k] THEN e[s][k]
                                 ELSE IF s \in DOMAIN c THEN c[s][k] ELSE b[s][k]
                 \/ /\ s \in DOMAIN c /\ m[s] = c[s]
                    /\ s \notin DOMAIN e
<1> DEFINE new == DOMAIN e \ DOMAIN b
           changed == {s \in DOMAIN e \cap DOMAIN b : e[s] # b[s]}
           removed == DOMAIN b \ DOMAIN e
           D == (DOMAIN c \ removed) \cup new \cup changed
           val(s) == IF s \in new THEN e[s]
                     ELSE IF s \in changed
                     THEN Adjusted!MergeRecord(IF s \in DOMAIN c THEN c[s] ELSE b[s], b[s], e[s])
                     ELSE c[s]
<1>1. m = [s \in D |-> val(s)]
  BY DEF Adjusted!MergeRecords
<1>2. \A f \in {c, b, e} : /\ DOMAIN f \subseteq Sources
                           /\ \A s \in DOMAIN f : f[s] \in RecordOf(k)
  BY DEF Adjusted!Records
<1>3. ASSUME NEW x \in RecordOf(k), NEW y \in RecordOf(k), NEW z \in RecordOf(k)
      PROVE  /\ Adjusted!MergeRecord(x, y, z) \in RecordOf(k)
             /\ Adjusted!MergeRecord(x, y, z)[k] = IF z[k] # y[k] THEN z[k] ELSE x[k]
  <2>1. k \in DOMAIN z
    BY DEF RecordOf, Adjusted!Decoration, Adjusted!Audio, Adjusted!Controls
  <2>2. CASE k \in {"stat", "meter"}
    <3>1. x \in Adjusted!Decoration /\ y \in Adjusted!Decoration /\ z \in Adjusted!Decoration
      BY <2>2 DEF RecordOf
    <3>2. DOMAIN z = {"stat", "meter"}
      BY <3>1 DEF Adjusted!Decoration
    <3>3. Adjusted!MergeRecord(x, y, z) \in Adjusted!Decoration
      BY <3>1, <3>2 DEF Adjusted!Decoration, Adjusted!MergeRecord
    <3> QED BY <2>1, <2>2, <3>3 DEF RecordOf, Adjusted!MergeRecord
  <2>3. CASE k \notin {"stat", "meter"}
    <3>1. x \in Adjusted!Audio /\ y \in Adjusted!Audio /\ z \in Adjusted!Audio
      BY <2>3 DEF RecordOf
    <3>2. DOMAIN z = {"muted", "monitor"}
      BY <3>1 DEF Adjusted!Audio
    <3>3. Adjusted!MergeRecord(x, y, z) \in Adjusted!Audio
      BY <3>1, <3>2 DEF Adjusted!Audio, Adjusted!MergeRecord
    <3> QED BY <2>1, <2>3, <3>3 DEF RecordOf, Adjusted!MergeRecord
  <2> QED BY <2>2, <2>3
<1>4. DOMAIN m = D
  BY <1>1
<1>5. ASSUME NEW s \in D
      PROVE  /\ val(s) \in RecordOf(k)
             /\ \/ s \in DOMAIN e \ DOMAIN b /\ val(s) = e[s]
                \/ /\ s \in DOMAIN e \cap DOMAIN b
                   /\ val(s)[k] = IF e[s][k] # b[s][k] THEN e[s][k]
                                  ELSE IF s \in DOMAIN c THEN c[s][k] ELSE b[s][k]
                \/ s \in DOMAIN c /\ val(s) = c[s] /\ s \notin DOMAIN e
  <2>1. CASE s \in new
    BY <1>2, <2>1
  <2>2. CASE s \in changed
    <3>1. val(s) = Adjusted!MergeRecord(IF s \in DOMAIN c THEN c[s] ELSE b[s], b[s], e[s])
      BY <2>2
    <3>2. /\ e[s] \in RecordOf(k) /\ b[s] \in RecordOf(k)
          /\ s \in DOMAIN c => c[s] \in RecordOf(k)
      BY <1>2, <2>2
    <3> HIDE DEF val, D
    <3>3. CASE s \in DOMAIN c
      <4>1. val(s) = Adjusted!MergeRecord(c[s], b[s], e[s])
        BY <3>1, <3>3
      <4> QED BY <1>3, <2>2, <3>2, <3>3, <4>1
    <3>4. CASE s \notin DOMAIN c
      <4>1. val(s) = Adjusted!MergeRecord(b[s], b[s], e[s])
        BY <3>1, <3>4
      <4> QED BY <1>3, <2>2, <3>2, <3>4, <4>1
    <3> QED BY <3>3, <3>4
  <2>3. CASE s \notin new /\ s \notin changed
    <3>1. s \in DOMAIN c /\ val(s) = c[s]
      BY <2>3
    <3>2. s \in DOMAIN e => e[s] = b[s] /\ s \in DOMAIN b
      BY <2>3
    <3> QED BY <1>2, <3>1, <3>2
  <2> QED BY <2>1, <2>2, <2>3
<1>6. m \in Adjusted!Records(RecordOf(k))
  <2>1. D \subseteq Sources
    BY <1>2
  <2>2. \A s \in D : m[s] = val(s)
    BY <1>1
  <2> HIDE DEF val, D
  <2> QED BY <1>1, <1>4, <1>5, <2>1, <2>2, Mapped
<1>7. \A s \in DOMAIN m : m[s] = val(s)
  BY <1>1
<1>8. \A s : s \in DOMAIN m <=>
               ((s \in DOMAIN c /\ (s \in DOMAIN b => s \in DOMAIN e))
                 \/ (s \in DOMAIN e /\ (s \in DOMAIN b => e[s] # b[s])))
  <2> TAKE s
  <2>1. s \in D <=> (s \in DOMAIN c /\ s \notin removed) \/ s \in new \/ s \in changed
    OBVIOUS
  <2>2. s \in changed <=> s \in DOMAIN e /\ s \in DOMAIN b /\ e[s] # b[s]
    OBVIOUS
  <2>3. s \in new <=> s \in DOMAIN e /\ s \notin DOMAIN b
    OBVIOUS
  <2>4. s \notin removed <=> (s \in DOMAIN b => s \in DOMAIN e)
    OBVIOUS
  <2>5. s \in DOMAIN m <=> s \in D
    BY <1>4
  <2> HIDE DEF D, val, changed, new, removed
  <2> QED BY <2>1, <2>2, <2>3, <2>4, <2>5
<1> HIDE DEF val
<1> QED BY <1>4, <1>5, <1>6, <1>7, <1>8

\* A merge of documents merges the records of each kind, and the default.
LEMMA MergedDocument ==
    ASSUME NEW c \in Adjusted!MonitorView, NEW b \in Adjusted!MonitorView, NEW e \in Adjusted!MonitorView
    PROVE  /\ Adjusted!merge(c, b, e) \in Adjusted!MonitorView
           /\ \A k \in Adjusted!Controls : Adjusted!RecordsOf(Adjusted!merge(c, b, e), k) =
                 Adjusted!MergeRecords(Adjusted!RecordsOf(c, k), Adjusted!RecordsOf(b, k), Adjusted!RecordsOf(e, k))
           /\ Adjusted!merge(c, b, e).stat = IF e.stat = b.stat THEN c.stat ELSE e.stat
<1>1. ASSUME NEW k \in Adjusted!Controls
      PROVE  Adjusted!MergeRecords(Adjusted!RecordsOf(c, k), Adjusted!RecordsOf(b, k), Adjusted!RecordsOf(e, k)) \in Adjusted!Records(RecordOf(k))
  <2>1. Adjusted!RecordsOf(c, k) \in Adjusted!Records(RecordOf(k)) /\ Adjusted!RecordsOf(b, k) \in Adjusted!Records(RecordOf(k))
           /\ Adjusted!RecordsOf(e, k) \in Adjusted!Records(RecordOf(k))
    BY Shape
  <2> QED BY <2>1, MergedRecords
<1>2. \A k \in Adjusted!Controls : Adjusted!RecordsOf(Adjusted!merge(c, b, e), k) =
         Adjusted!MergeRecords(Adjusted!RecordsOf(c, k), Adjusted!RecordsOf(b, k), Adjusted!RecordsOf(e, k))
  BY DEF Adjusted!RecordsOf, Adjusted!merge
<1>3. Adjusted!merge(c, b, e).decor \in Adjusted!Records(Adjusted!Decoration) /\ Adjusted!merge(c, b, e).audio \in Adjusted!Records(Adjusted!Audio)
  <2>1. "stat" \in Adjusted!Controls /\ "muted" \in Adjusted!Controls
    BY DEF Adjusted!Controls
  <2> QED BY <1>1, <1>2, <2>1 DEF Adjusted!RecordsOf, RecordOf
<1>4. Adjusted!merge(c, b, e).stat = IF e.stat = b.stat THEN c.stat ELSE e.stat
  BY DEF Adjusted!merge
<1>5. Adjusted!merge(c, b, e).stat \in BOOLEAN
  BY <1>4 DEF Adjusted!MonitorView
<1>6. Adjusted!merge(c, b, e) = [stat |-> Adjusted!merge(c, b, e).stat, decor |-> Adjusted!merge(c, b, e).decor,
                        audio |-> Adjusted!merge(c, b, e).audio]
  BY DEF Adjusted!merge
<1> HIDE DEF Adjusted!merge
<1> QED BY <1>2, <1>3, <1>4, <1>5, <1>6 DEF Adjusted!MonitorView

\* What a control is set to after a merge.
LEMMA MergedControl ==
    ASSUME NEW c \in Adjusted!MonitorView, NEW b \in Adjusted!MonitorView, NEW e \in Adjusted!MonitorView,
           NEW s, NEW k \in Adjusted!Controls, NEW m, m = Adjusted!merge(c, b, e)
    PROVE  /\ Adjusted!IsSet(m, s, k) => Adjusted!IsSet(c, s, k) \/ Adjusted!IsSet(b, s, k) \/ Adjusted!IsSet(e, s, k)
           /\ Adjusted!HasRecord(m, s, k) => Adjusted!HasRecord(c, s, k) \/ Adjusted!HasRecord(e, s, k)
           /\ (Adjusted!HasRecord(b, s, k) => Adjusted!HasRecord(e, s, k)) =>
                 /\ Adjusted!HasRecord(c, s, k) => Adjusted!HasRecord(m, s, k)
                 /\ Adjusted!HasRecord(e, s, k) /\ ~Adjusted!HasRecord(b, s, k) => Adjusted!HasRecord(m, s, k)
           /\ /\ Adjusted!HasRecord(e, s, k) <=> Adjusted!HasRecord(b, s, k)
              /\ Adjusted!IsSet(b, s, k) => Adjusted!IsSet(e, s, k)
              => /\ Adjusted!IsSet(c, s, k) => Adjusted!IsSet(m, s, k)
                 /\ Adjusted!IsSet(e, s, k) /\ ~Adjusted!IsSet(b, s, k) => Adjusted!IsSet(m, s, k)
<1> DEFINE C == Adjusted!RecordsOf(c, k)  B == Adjusted!RecordsOf(b, k)  E == Adjusted!RecordsOf(e, k)  M == Adjusted!RecordsOf(m, k)
<1>1. C \in Adjusted!Records(RecordOf(k)) /\ B \in Adjusted!Records(RecordOf(k)) /\ E \in Adjusted!Records(RecordOf(k))
  BY Shape
<1>2. M = Adjusted!MergeRecords(C, B, E)
  BY MergedDocument
<1>3. \A f \in {C, B, E} : \A t \in DOMAIN f : f[t][k] \in BOOLEAN
  BY Shape
<1>4. Adjusted!Usual[k] \in BOOLEAN
  BY UsualValues
<1> HIDE DEF C, B, E, M
<1>5. /\ \A t : t \in DOMAIN M <=>
               ((t \in DOMAIN C /\ (t \in DOMAIN B => t \in DOMAIN E))
                 \/ (t \in DOMAIN E /\ (t \in DOMAIN B => E[t] # B[t])))
      /\ \A t \in DOMAIN M :
            \/ t \in DOMAIN E \ DOMAIN B /\ M[t] = E[t]
            \/ /\ t \in DOMAIN E \cap DOMAIN B
               /\ M[t][k] = IF E[t][k] # B[t][k] THEN E[t][k]
                            ELSE IF t \in DOMAIN C THEN C[t][k] ELSE B[t][k]
            \/ /\ t \in DOMAIN C /\ M[t] = C[t]
               /\ t \notin DOMAIN E
  BY <1>1, <1>2, MergedRecords
<1>6. /\ Adjusted!HasRecord(c, s, k) <=> s \in DOMAIN C
      /\ Adjusted!HasRecord(b, s, k) <=> s \in DOMAIN B
      /\ Adjusted!HasRecord(e, s, k) <=> s \in DOMAIN E
      /\ Adjusted!HasRecord(m, s, k) <=> s \in DOMAIN M
  BY DEF Adjusted!HasRecord, C, B, E, M
<1>7. /\ Adjusted!IsSet(c, s, k) <=> s \in DOMAIN C /\ C[s][k] # Adjusted!Usual[k]
      /\ Adjusted!IsSet(b, s, k) <=> s \in DOMAIN B /\ B[s][k] # Adjusted!Usual[k]
      /\ Adjusted!IsSet(e, s, k) <=> s \in DOMAIN E /\ E[s][k] # Adjusted!Usual[k]
      /\ Adjusted!IsSet(m, s, k) <=> s \in DOMAIN M /\ M[s][k] # Adjusted!Usual[k]
  BY DEF Adjusted!HasRecord, Adjusted!IsSet, C, B, E, M
<1>8. CASE s \in DOMAIN M
  BY <1>3, <1>4, <1>5, <1>6, <1>7, <1>8
<1>9. CASE s \notin DOMAIN M
  <2>1. s \in DOMAIN E /\ s \in DOMAIN B => E[s] = B[s]
    BY <1>5, <1>9
  <2>2. s \in DOMAIN E => s \in DOMAIN B
    BY <1>5, <1>9
  <2>3. s \in DOMAIN C => s \in DOMAIN B /\ s \notin DOMAIN E
    <3>1. s \in DOMAIN C /\ (s \in DOMAIN B => s \in DOMAIN E) => s \in DOMAIN M
      BY <1>5
    <3> QED BY <1>9, <3>1
  <2> QED BY <1>6, <1>7, <1>9, <2>1, <2>2, <2>3
<1> QED BY <1>8, <1>9

\* A merge holds what its parts hold, and keeps what they keep.
LEMMA MergeSound ==
    ASSUME NEW c \in Adjusted!MonitorView, NEW b \in Adjusted!MonitorView, NEW e \in Adjusted!MonitorView, NEW h,
           Adjusted!Sound(h, c), Adjusted!Sound(h, b), Adjusted!Sound(h, e)
    PROVE  Adjusted!Sound(h, Adjusted!merge(c, b, e))
<1>1. \A s \in Sources, k \in Adjusted!Controls : Adjusted!IsSet(Adjusted!merge(c, b, e), s, k)
         => Adjusted!IsSet(c, s, k) \/ Adjusted!IsSet(b, s, k) \/ Adjusted!IsSet(e, s, k)
  BY MergedControl
<1>2. Adjusted!merge(c, b, e).stat => c.stat \/ e.stat
  BY MergedDocument
<1> QED BY <1>1, <1>2 DEF Adjusted!Sound

LEMMA MergeKeeps ==
    ASSUME NEW c \in Adjusted!MonitorView, NEW b \in Adjusted!MonitorView, NEW e \in Adjusted!MonitorView, NEW h,
           Adjusted!Follows(h, b, e)
    PROVE  /\ Adjusted!Keeps(h, c, Adjusted!merge(c, b, e))
           /\ \A k \in Adjusted!Controls : DOMAIN Adjusted!RecordsOf(c, k) \subseteq DOMAIN Adjusted!RecordsOf(Adjusted!merge(c, b, e), k)
           /\ \A s \in Sources, k \in Adjusted!Controls :
                 Adjusted!OneWay(h, s, k) /\ Adjusted!IsSet(e, s, k) /\ ~Adjusted!IsSet(b, s, k) => Adjusted!IsSet(Adjusted!merge(c, b, e), s, k)
<1> DEFINE m == Adjusted!merge(c, b, e)
<1>1. \A s \in Sources, k \in Adjusted!Controls :
         Adjusted!OneWay(h, s, k) => (Adjusted!HasRecord(e, s, k) <=> Adjusted!HasRecord(b, s, k))
  BY DEF Adjusted!Follows, Adjusted!OneWay, Adjusted!HasRecord
<1>2. ASSUME NEW s \in Sources, NEW k \in Adjusted!Controls, Adjusted!OneWay(h, s, k)
      PROVE  /\ Adjusted!IsSet(c, s, k) => Adjusted!IsSet(m, s, k)
             /\ Adjusted!IsSet(e, s, k) /\ ~Adjusted!IsSet(b, s, k) => Adjusted!IsSet(m, s, k)
             /\ k = "stat" /\ c.stat => m.stat
  <2>1. Adjusted!IsSet(b, s, k) => Adjusted!IsSet(e, s, k)
    BY <1>2 DEF Adjusted!Follows, Adjusted!Keeps
  <2>2. m.stat = IF e.stat = b.stat THEN c.stat ELSE e.stat
    BY MergedDocument
  <2>3. b.stat \in BOOLEAN /\ e.stat \in BOOLEAN /\ c.stat \in BOOLEAN
    BY DEF Adjusted!MonitorView
  <2>4. k = "stat" /\ b.stat => e.stat
    BY <1>2 DEF Adjusted!Follows, Adjusted!Keeps
  <2> HIDE DEF m
  <2>5. k = "stat" /\ c.stat => m.stat
    BY <2>2, <2>3, <2>4
  <2>6. /\ Adjusted!IsSet(c, s, k) => Adjusted!IsSet(m, s, k)
        /\ Adjusted!IsSet(e, s, k) /\ ~Adjusted!IsSet(b, s, k) => Adjusted!IsSet(m, s, k)
    BY <1>1, <1>2, <2>1, MergedControl DEF m
  <2> QED BY <2>5, <2>6
<1>3. ASSUME NEW k \in Adjusted!Controls, NEW s \in DOMAIN Adjusted!RecordsOf(c, k)
      PROVE  s \in DOMAIN Adjusted!RecordsOf(m, k)
  <2>1. Adjusted!HasRecord(c, s, k)
    BY <1>3 DEF Adjusted!HasRecord
  <2>2. Adjusted!HasRecord(b, s, k) => Adjusted!HasRecord(e, s, k)
    BY DEF Adjusted!Follows, Adjusted!HasRecord
  <2>3. Adjusted!HasRecord(m, s, k)
    BY <2>1, <2>2, MergedControl
  <2> QED BY <2>3 DEF Adjusted!HasRecord
<1> HIDE DEF m
<1> QED BY <1>2, <1>3 DEF Adjusted!Keeps, m

\* A history that has gone on.
Later(h, g) == h.chosen \subseteq g.chosen /\ h.defaults \subseteq g.defaults /\ h.late \subseteq g.late

LEMMA LaterHolds ==
    ASSUME NEW h, NEW g, Later(h, g), NEW a, NEW b
    PROVE  /\ Adjusted!Sound(h, a) => Adjusted!Sound(g, a)
           /\ Adjusted!Keeps(h, a, b) => Adjusted!Keeps(g, a, b)
           /\ Adjusted!Follows(h, a, b) => Adjusted!Follows(g, a, b)
<1>1. \A s, k : Adjusted!OneWay(g, s, k) => Adjusted!OneWay(h, s, k)
  BY DEF Later, Adjusted!OneWay
<1>2. \A s, k : Adjusted!Given(h, s, k) => Adjusted!Given(g, s, k)
  BY DEF Later, Adjusted!Given
<1>3. Adjusted!Keeps(h, a, b) => Adjusted!Keeps(g, a, b)
  BY <1>1 DEF Adjusted!Keeps
<1>4. Adjusted!Sound(h, a) => Adjusted!Sound(g, a)
  BY <1>2 DEF Adjusted!Sound, Later
<1>5. Sources \ g.late \subseteq Sources \ h.late
  BY DEF Later
<1> QED BY <1>3, <1>4, <1>5 DEF Adjusted!Follows

LEMMA FollowsOn ==
    ASSUME NEW h, NEW a, NEW b, NEW c
    PROVE  /\ Adjusted!Keeps(h, a, a) /\ Adjusted!Follows(h, a, a)
           /\ Adjusted!Keeps(h, a, b) /\ Adjusted!Keeps(h, b, c) => Adjusted!Keeps(h, a, c)
           /\ Adjusted!Follows(h, a, b) /\ Adjusted!Follows(h, b, c) => Adjusted!Follows(h, a, c)
<1>1. Adjusted!Keeps(h, a, a) /\ (Adjusted!Keeps(h, a, b) /\ Adjusted!Keeps(h, b, c) => Adjusted!Keeps(h, a, c))
  BY DEF Adjusted!Keeps
<1> QED BY <1>1 DEF Adjusted!Follows

\* A window that does nothing.
LEMMA WindowRests ==
    ASSUME NEW h, NEW g, Later(h, g), NEW d, NEW e, Adjusted!Keeps(g, d, e), NEW x \in Adjusted!Window,
           Adjusted!WindowSound(h, x), Adjusted!WindowFollows(h, d, x)
    PROVE  Adjusted!WindowSound(g, x) /\ Adjusted!WindowFollows(g, e, x)
<1>1. Adjusted!WindowSound(g, x)
  <2>1. \A z : Adjusted!Sound(h, z) => Adjusted!Sound(g, z)
    BY LaterHolds
  <2>2. \A i \in 1..Len(x.saves) :
           Adjusted!Sound(g, x.saves[i].view) /\ Adjusted!Sound(g, x.saves[i].base) /\ Adjusted!Sound(g, x.saves[i].saved)
    BY <2>1 DEF Adjusted!WindowSound
  <2> QED BY <2>1, <2>2 DEF Adjusted!WindowSound
<1>2. /\ Adjusted!Follows(g, x.baseline, x.view)
      /\ x.saves = <<>> => Adjusted!Keeps(g, x.lastQueued, x.baseline)
      /\ x.saves # <<>> => /\ Adjusted!Follows(g, x.saves[Len(x.saves)].view, x.view)
                           /\ Adjusted!Keeps(g, x.saves[Len(x.saves)].base, x.baseline)
  BY LaterHolds DEF Adjusted!WindowFollows
<1>3. ASSUME NEW i \in 1..Len(x.saves)
      PROVE  /\ Adjusted!Follows(g, x.saves[i].base, x.saves[i].view)
             /\ x.saves[i].done => Adjusted!Keeps(g, x.saves[i].saved, e) /\ Adjusted!SavedSets(g, x.saves[i])
  <2>1. /\ Adjusted!Follows(h, x.saves[i].base, x.saves[i].view)
        /\ x.saves[i].done => Adjusted!Keeps(h, x.saves[i].saved, d) /\ Adjusted!SavedSets(h, x.saves[i])
    BY <1>3 DEF Adjusted!WindowFollows
  <2>2. Adjusted!SavedSets(h, x.saves[i]) => Adjusted!SavedSets(g, x.saves[i])
    BY DEF Later, Adjusted!SavedSets, Adjusted!OneWay
  <2>3. /\ Adjusted!Follows(h, x.saves[i].base, x.saves[i].view) => Adjusted!Follows(g, x.saves[i].base, x.saves[i].view)
        /\ Adjusted!Keeps(h, x.saves[i].saved, d) => Adjusted!Keeps(g, x.saves[i].saved, d)
    BY LaterHolds
  <2>4. Adjusted!Keeps(g, x.saves[i].saved, d) => Adjusted!Keeps(g, x.saves[i].saved, e)
    BY FollowsOn
  <2> QED BY <2>1, <2>2, <2>3, <2>4
<1> QED BY <1>1, <1>2, <1>3 DEF Adjusted!WindowFollows

\* A user changes the view, and seeds the baseline.
LEMMA WindowEdited ==
    ASSUME NEW h, NEW g, Later(h, g), NEW d, NEW x \in Adjusted!Window, NEW b, NEW v,
           Adjusted!WindowSound(h, x), Adjusted!WindowFollows(h, d, x),
           Adjusted!Sound(g, b), Adjusted!Sound(g, v), Adjusted!Follows(g, b, v), Adjusted!Keeps(g, x.baseline, b),
           x.saves # <<>> => Adjusted!Follows(g, x.view, v)
    PROVE  /\ Adjusted!WindowSound(g, [x EXCEPT !.baseline = b, !.view = v])
           /\ Adjusted!WindowFollows(g, d, [x EXCEPT !.baseline = b, !.view = v])
<1> DEFINE y == [x EXCEPT !.baseline = b, !.view = v]
<1>1. y.baseline = b /\ y.view = v /\ y.saves = x.saves /\ y.lastQueued = x.lastQueued
  BY DEF Adjusted!Window
<1>2. Adjusted!WindowSound(g, x) /\ Adjusted!WindowFollows(g, d, x)
  <2>1. Adjusted!Keeps(g, d, d)
    BY FollowsOn
  <2> QED BY <2>1, WindowRests
<1> HIDE DEF y
<1>3. Adjusted!WindowSound(g, y)
  BY <1>1, <1>2 DEF Adjusted!WindowSound
<1>4. x.saves = <<>> => Adjusted!Keeps(g, x.lastQueued, b)
  <2>1. x.saves = <<>> => Adjusted!Keeps(g, x.lastQueued, x.baseline)
    BY <1>2 DEF Adjusted!WindowFollows
  <2> QED BY <2>1, FollowsOn
<1>5. x.saves # <<>> => /\ Adjusted!Follows(g, x.saves[Len(x.saves)].view, v)
                        /\ Adjusted!Keeps(g, x.saves[Len(x.saves)].base, b)
  <2>1. x.saves # <<>> => /\ Adjusted!Follows(g, x.saves[Len(x.saves)].view, x.view)
                          /\ Adjusted!Keeps(g, x.saves[Len(x.saves)].base, x.baseline)
    BY <1>2 DEF Adjusted!WindowFollows
  <2> QED BY <2>1, FollowsOn
<1>6. Adjusted!WindowFollows(g, d, y)
  BY <1>1, <1>2, <1>4, <1>5 DEF Adjusted!WindowFollows
<1> QED BY <1>3, <1>6 DEF y

\* Nothing is lost by a step of one window that loses nothing of its own.
LEMMA OthersUnsaved ==
    ASSUME Adjusted!NothingLost, NEW w \in Windows,
           \A u \in Windows \ {w} : c_window'[u] = c_window[u],
           Later(Adjusted!told, Adjusted!told'), Adjusted!Keeps(Adjusted!told', c_doc, c_doc'),
           \A s \in Sources, k \in Adjusted!Controls :
              Adjusted!OneWay(Adjusted!told', s, k) /\ <<s, k, ~Adjusted!Usual[k]>> \in c_chosen' =>
                 \/ Adjusted!IsSet(c_doc', s, k)
                 \/ Adjusted!IsSet(c_window'[w].view, s, k) /\ ~Adjusted!IsSet(c_window'[w].baseline, s, k)
                 \/ /\ <<s, k, ~Adjusted!Usual[k]>> \in c_chosen
                    /\ ~(Adjusted!IsSet(c_window[w].view, s, k) /\ ~Adjusted!IsSet(c_window[w].baseline, s, k))
    PROVE  Adjusted!NothingLost'
<1> SUFFICES ASSUME NEW s \in Sources, NEW k \in Adjusted!Controls,
                    Adjusted!OneWay(Adjusted!told', s, k), <<s, k, ~Adjusted!Usual[k]>> \in c_chosen',
                    ~Adjusted!IsSet(c_doc', s, k),
                    ~(Adjusted!IsSet(c_window'[w].view, s, k) /\ ~Adjusted!IsSet(c_window'[w].baseline, s, k))
             PROVE  \E u \in Windows : Adjusted!IsSet(c_window'[u].view, s, k) /\ ~Adjusted!IsSet(c_window'[u].baseline, s, k)
  BY DEF Adjusted!NothingLost, Adjusted!Unsaved
<1>1. /\ <<s, k, ~Adjusted!Usual[k]>> \in c_chosen
      /\ ~(Adjusted!IsSet(c_window[w].view, s, k) /\ ~Adjusted!IsSet(c_window[w].baseline, s, k))
  OBVIOUS
<1>2. Adjusted!OneWay(Adjusted!told, s, k)
  BY DEF Adjusted!OneWay, Later
<1>3. ~Adjusted!IsSet(c_doc, s, k)
  BY DEF Adjusted!Keeps
<1>4. PICK u \in Windows : Adjusted!IsSet(c_window[u].view, s, k) /\ ~Adjusted!IsSet(c_window[u].baseline, s, k)
  BY <1>1, <1>2, <1>3 DEF Adjusted!NothingLost, Adjusted!Unsaved
<1> QED BY <1>1, <1>4

\* What a user's change of the default makes of a document.
LEMMA DefaultChanged ==
    ASSUME NEW view \in Adjusted!MonitorView, NEW v \in BOOLEAN, NEW h, v \in h.defaults, Adjusted!Sound(h, view),
           NEW m, m = Adjusted!updateDefaultTelemetry(view, v)
    PROVE  m \in Adjusted!MonitorView /\ Adjusted!Follows(h, view, m) /\ Adjusted!Sound(h, m)
<1> DEFINE D == view.decor
           E == [s \in DOMAIN D |-> [D[s] EXCEPT !.stat = v]]
<1>1. /\ m = [stat |-> v, decor |-> E, audio |-> view.audio]
      /\ m.stat = v /\ m.decor = E /\ m.audio = view.audio
  BY DEF Adjusted!updateDefaultTelemetry, Adjusted!MonitorView
<1>2. D \in Adjusted!Records(Adjusted!Decoration) /\ view.audio \in Adjusted!Records(Adjusted!Audio)
  BY DEF Adjusted!MonitorView
<1>3. DOMAIN D \subseteq Sources /\ \A s \in DOMAIN D : D[s] \in Adjusted!Decoration
  BY <1>2 DEF Adjusted!Records
<1>4. \A s \in DOMAIN D : E[s] \in Adjusted!Decoration /\ E[s]["stat"] = v /\ E[s]["meter"] = D[s]["meter"]
  <2> TAKE s \in DOMAIN D
  <2>1. D[s] \in Adjusted!Decoration
    BY <1>3
  <2>2. E[s] = [D[s] EXCEPT !.stat = v]
    OBVIOUS
  <2> HIDE DEF D, E
  <2> QED BY <2>1, <2>2 DEF Adjusted!Decoration
<1>5. E \in Adjusted!Records(Adjusted!Decoration) /\ DOMAIN E = DOMAIN D
  <2>1. DOMAIN E = DOMAIN D /\ E = [s \in DOMAIN E |-> E[s]]
    OBVIOUS
  <2> HIDE DEF D, E
  <2> QED BY <1>3, <1>4, <2>1, Mapped
<1> HIDE DEF D, E
<1>6. m \in Adjusted!MonitorView
  BY <1>1, <1>2, <1>5 DEF Adjusted!MonitorView
<1>7. \A s, k : Adjusted!HasRecord(m, s, k) <=> Adjusted!HasRecord(view, s, k)
  BY <1>1, <1>5 DEF Adjusted!HasRecord, Adjusted!RecordsOf, D
<1>8. /\ \A s, k : k \in Adjusted!Controls \ {"stat"} => (Adjusted!IsSet(m, s, k) <=> Adjusted!IsSet(view, s, k))
      /\ \A s : Adjusted!IsSet(m, s, "stat") <=> Adjusted!HasRecord(view, s, "stat") /\ v
  <2>1. \A s, k : k \in {"muted", "monitor"} => (Adjusted!IsSet(m, s, k) <=> Adjusted!IsSet(view, s, k))
    BY <1>1 DEF Adjusted!IsSet, Adjusted!HasRecord, Adjusted!RecordsOf
  <2>2. \A s : Adjusted!IsSet(m, s, "meter") <=> Adjusted!IsSet(view, s, "meter")
    BY <1>1, <1>4, <1>5 DEF Adjusted!IsSet, Adjusted!HasRecord, Adjusted!RecordsOf, D
  <2>3. \A s : Adjusted!IsSet(m, s, "stat") <=> Adjusted!HasRecord(view, s, "stat") /\ v
    BY <1>1, <1>4, <1>5, UsualValues DEF Adjusted!IsSet, Adjusted!HasRecord, Adjusted!RecordsOf, D
  <2> QED BY <2>1, <2>2, <2>3 DEF Adjusted!Controls
<1>9. Adjusted!Keeps(h, view, m)
  <2> SUFFICES ASSUME NEW s \in Sources, NEW k \in Adjusted!Controls, Adjusted!OneWay(h, s, k)
               PROVE  /\ Adjusted!IsSet(view, s, k) => Adjusted!IsSet(m, s, k)
                      /\ k = "stat" /\ view.stat => m.stat
    BY DEF Adjusted!Keeps
  <2>1. k = "stat" => v
    BY DEF Adjusted!OneWay
  <2> QED BY <1>1, <1>8, <2>1 DEF Adjusted!IsSet
<1>10. Adjusted!Follows(h, view, m)
  BY <1>7, <1>9 DEF Adjusted!Follows, Adjusted!HasRecord
<1>11. Adjusted!Sound(h, m)
  <2>1. v => TRUE \in h.defaults
    OBVIOUS
  <2>2. \A s \in Sources, k \in Adjusted!Controls : Adjusted!IsSet(m, s, k) => Adjusted!Given(h, s, k)
    BY <1>8, <2>1 DEF Adjusted!Sound, Adjusted!Given
  <2> QED BY <1>1, <2>1, <2>2 DEF Adjusted!Sound
<1> QED BY <1>6, <1>10, <1>11

\* What a source inherits, and what writing its record does.
Inherited(view, s, k) ==
    IF k \in {"stat", "meter"} THEN Adjusted!sourceDecoration(view, s) ELSE Adjusted!sourceAudio(view, s)

LEMMA InheritedRecord ==
    ASSUME NEW view \in Adjusted!MonitorView, NEW s, NEW k \in Adjusted!Controls
    PROVE  /\ Inherited(view, s, k) \in RecordOf(k)
           /\ \A j \in Fields(k) : Inherited(view, s, k)[j] = Adjusted!Effective(view, s, j)
           /\ Adjusted!Effective(view, s, k) \in BOOLEAN
           /\ Adjusted!Effective(view, s, k) # Adjusted!Usual[k] <=>
                Adjusted!IsSet(view, s, k) \/ (~Adjusted!HasRecord(view, s, k) /\ k = "stat" /\ view.stat)
<1>1. /\ Adjusted!RecordsOf(view, k) \in Adjusted!Records(RecordOf(k))
      /\ \A t \in DOMAIN Adjusted!RecordsOf(view, k) :
            Adjusted!RecordsOf(view, k)[t] \in RecordOf(k) /\ Adjusted!RecordsOf(view, k)[t][k] \in BOOLEAN
      /\ view.stat \in BOOLEAN
  BY Shape
<1>2. CASE k \in {"stat", "meter"}
  <2>1. CASE s \in DOMAIN view.decor
    BY <1>1, <1>2, <2>1 DEF Inherited, Adjusted!sourceDecoration, Adjusted!Effective, Adjusted!RecordsOf, RecordOf, Fields, Adjusted!IsSet, Adjusted!HasRecord
  <2>2. CASE s \notin DOMAIN view.decor
    <3>1. Inherited(view, s, k) = [stat |-> view.stat, meter |-> FALSE]
      BY <1>2, <2>2 DEF Inherited, Adjusted!sourceDecoration, Adjusted!defaultSourceDecoration
    <3>2. Inherited(view, s, k) \in RecordOf(k)
      BY <1>1, <1>2, <3>1 DEF RecordOf, Adjusted!Decoration
    <3>3. /\ \A j \in Fields(k) : Inherited(view, s, k)[j] = Adjusted!Effective(view, s, j)
          /\ Adjusted!Effective(view, s, k) = Inherited(view, s, k)[k]
      BY <1>2 DEF Adjusted!Effective, Inherited, Fields
    <3>4. ~Adjusted!HasRecord(view, s, k) /\ ~Adjusted!IsSet(view, s, k)
      BY <1>2, <2>2 DEF Adjusted!IsSet, Adjusted!HasRecord, Adjusted!RecordsOf
    <3>5. Inherited(view, s, k)["stat"] = view.stat /\ Inherited(view, s, k)["meter"] = FALSE
      BY <3>1
    <3> QED BY <1>1, <1>2, <3>2, <3>3, <3>4, <3>5, UsualValues
  <2> QED BY <2>1, <2>2
<1>3. CASE k \notin {"stat", "meter"}
  <2>0. k \in {"muted", "monitor"}
    BY <1>3 DEF Adjusted!Controls
  <2>1. CASE s \in DOMAIN view.audio
    BY <1>1, <1>3, <2>0, <2>1 DEF Inherited, Adjusted!sourceAudio, Adjusted!Effective, Adjusted!RecordsOf, RecordOf, Fields, Adjusted!IsSet, Adjusted!HasRecord
  <2>2. CASE s \notin DOMAIN view.audio
    <3>1. Inherited(view, s, k) = [muted |-> FALSE, monitor |-> TRUE]
      BY <1>3, <2>2 DEF Inherited, Adjusted!sourceAudio
    <3>2. Inherited(view, s, k) \in RecordOf(k)
      BY <1>3, <3>1 DEF RecordOf, Adjusted!Audio
    <3>3. /\ \A j \in Fields(k) : Inherited(view, s, k)[j] = Adjusted!Effective(view, s, j)
          /\ Adjusted!Effective(view, s, k) = Inherited(view, s, k)[k]
      BY <1>3 DEF Adjusted!Effective, Inherited, Fields
    <3>4. ~Adjusted!HasRecord(view, s, k) /\ ~Adjusted!IsSet(view, s, k)
      BY <1>3, <2>2 DEF Adjusted!IsSet, Adjusted!HasRecord, Adjusted!RecordsOf
    <3>5. Inherited(view, s, k)["muted"] = FALSE /\ Inherited(view, s, k)["monitor"] = TRUE
      BY <3>1
    <3> QED BY <2>0, <3>2, <3>3, <3>4, <3>5, UsualValues
  <2> QED BY <2>1, <2>2
<1> QED BY <1>2, <1>3

LEMMA Recorded ==
    ASSUME NEW view \in Adjusted!MonitorView, NEW s \in Sources, NEW k \in Adjusted!Controls, NEW r \in RecordOf(k), NEW m,
           m = IF k \in {"stat", "meter"} THEN [view EXCEPT !.decor = Adjusted!WithRecord(@, s, r)]
               ELSE [view EXCEPT !.audio = Adjusted!WithRecord(@, s, r)]
    PROVE  /\ m \in Adjusted!MonitorView /\ m.stat = view.stat
           /\ \A t \in Sources, j \in Adjusted!Controls :
                 /\ Adjusted!HasRecord(m, t, j) <=> Adjusted!HasRecord(view, t, j) \/ (t = s /\ j \in Fields(k))
                 /\ Adjusted!IsSet(m, t, j) <=> IF t = s /\ j \in Fields(k) THEN r[j] # Adjusted!Usual[j]
                                       ELSE Adjusted!IsSet(view, t, j)
<1> DEFINE R == Adjusted!RecordsOf(view, k)
           W == Adjusted!WithRecord(R, s, r)
<1>1. /\ W = [t \in DOMAIN R \cup {s} |-> IF t = s THEN r ELSE R[t]]
      /\ DOMAIN W = DOMAIN R \cup {s} /\ W[s] = r
      /\ \A t \in DOMAIN R : t # s => W[t] = R[t]
  BY DEF Adjusted!WithRecord
<1>2. W \in Adjusted!Records(RecordOf(k))
  <2>1. DOMAIN R \subseteq Sources /\ \A t \in DOMAIN R : R[t] \in RecordOf(k)
    BY Shape
  <2>2. W = [t \in DOMAIN W |-> W[t]]
    BY <1>1
  <2> HIDE DEF R, W
  <2>3. DOMAIN W \subseteq Sources /\ \A t \in DOMAIN W : W[t] \in RecordOf(k)
    BY <1>1, <2>1
  <2> QED BY <2>2, <2>3, Mapped
<1>3. CASE k \in {"stat", "meter"}
  <2>1. m = [stat |-> view.stat, decor |-> W, audio |-> view.audio]
        /\ m.stat = view.stat /\ m.decor = W /\ m.audio = view.audio /\ R = view.decor
    BY <1>3 DEF Adjusted!MonitorView, Adjusted!RecordsOf
  <2> HIDE DEF R, W
  <2>2. m \in Adjusted!MonitorView
    BY <1>2, <1>3, <2>1 DEF Adjusted!MonitorView, RecordOf
  <2>3. Fields(k) = {"stat", "meter"}
    BY <1>3 DEF Fields
  <2> QED BY <1>1, <2>1, <2>2, <2>3 DEF Adjusted!HasRecord, Adjusted!IsSet, Adjusted!RecordsOf
<1>4. CASE k \notin {"stat", "meter"}
  <2>1. m = [stat |-> view.stat, decor |-> view.decor, audio |-> W]
        /\ m.stat = view.stat /\ m.decor = view.decor /\ m.audio = W /\ R = view.audio
    BY <1>4 DEF Adjusted!MonitorView, Adjusted!RecordsOf
  <2> HIDE DEF R, W
  <2>2. m \in Adjusted!MonitorView
    BY <1>2, <1>4, <2>1 DEF Adjusted!MonitorView, RecordOf
  <2>3. Fields(k) = {"muted", "monitor"}
    BY <1>4 DEF Fields
  <2> QED BY <1>1, <2>1, <2>2, <2>3 DEF Adjusted!HasRecord, Adjusted!IsSet, Adjusted!RecordsOf, Adjusted!Controls
<1> QED BY <1>3, <1>4

\* The record that is put into the baseline.
LEMMA Seeded ==
    ASSUME NEW base \in Adjusted!MonitorView, NEW s \in Sources, NEW k \in Adjusted!Controls, NEW m,
           m = Adjusted!SeedBaseline(base, s, k)
    PROVE  /\ m \in Adjusted!MonitorView /\ m.stat = base.stat
           /\ \A t \in Sources, j \in Adjusted!Controls :
                 /\ Adjusted!HasRecord(m, t, j) <=> Adjusted!HasRecord(base, t, j) \/ (t = s /\ j \in Fields(k))
                 /\ Adjusted!IsSet(m, t, j) <=>
                      \/ Adjusted!IsSet(base, t, j)
                      \/ /\ t = s /\ j \in Fields(k) /\ ~Adjusted!HasRecord(base, t, j)
                         /\ j = "stat" /\ base.stat
<1>1. Inherited(base, s, k) \in RecordOf(k)
  BY InheritedRecord
<1>2. m = IF k \in {"stat", "meter"} THEN [base EXCEPT !.decor = Adjusted!WithRecord(@, s, Inherited(base, s, k))]
          ELSE [base EXCEPT !.audio = Adjusted!WithRecord(@, s, Inherited(base, s, k))]
  BY DEF Adjusted!SeedBaseline, Inherited, Adjusted!defaultSourceDecoration
<1>3. \A j \in Fields(k) \cap Adjusted!Controls : Inherited(base, s, k)[j] # Adjusted!Usual[j] <=>
         Adjusted!IsSet(base, s, j) \/ (~Adjusted!HasRecord(base, s, j) /\ j = "stat" /\ base.stat)
  BY InheritedRecord
<1>4. \A t, j : Adjusted!IsSet(base, t, j) => Adjusted!HasRecord(base, t, j)
  BY DEF Adjusted!IsSet
<1>5. /\ m \in Adjusted!MonitorView /\ m.stat = base.stat
      /\ \A t \in Sources, j \in Adjusted!Controls :
            /\ Adjusted!HasRecord(m, t, j) <=> Adjusted!HasRecord(base, t, j) \/ (t = s /\ j \in Fields(k))
            /\ Adjusted!IsSet(m, t, j) <=> IF t = s /\ j \in Fields(k) THEN Inherited(base, s, k)[j] # Adjusted!Usual[j]
                                  ELSE Adjusted!IsSet(base, t, j)
  BY <1>1, <1>2, Recorded
<1> QED BY <1>3, <1>4, <1>5

\* The view with the control toggled.
Toggled(view, s, k) ==
    IF k \in {"stat", "meter"}
    THEN Adjusted!normalizeMonitorView(Adjusted!updateSourceDecoration(view, s, k, ~Adjusted!Effective(view, s, k)), Sources)
    ELSE Adjusted!updateAudioSource(view, s, k, ~Adjusted!Effective(view, s, k))

LEMMA ToggledView ==
    ASSUME NEW view \in Adjusted!MonitorView, NEW s \in Sources, NEW k \in Adjusted!Controls, NEW m,
           m = Toggled(view, s, k)
    PROVE  /\ m \in Adjusted!MonitorView /\ m.stat = view.stat
           /\ \A t \in Sources, j \in Adjusted!Controls :
                 /\ Adjusted!HasRecord(m, t, j) <=> Adjusted!HasRecord(view, t, j) \/ (t = s /\ j \in Fields(k))
                 /\ Adjusted!IsSet(m, t, j) <=>
                      \/ t = s /\ j = k /\ Adjusted!Effective(view, s, k) = Adjusted!Usual[k]
                      \/ ~(t = s /\ j = k) /\ Adjusted!IsSet(view, t, j)
                      \/ /\ t = s /\ j # k /\ j \in Fields(k) /\ ~Adjusted!HasRecord(view, t, j)
                         /\ j = "stat" /\ view.stat
<1> DEFINE v == ~Adjusted!Effective(view, s, k)
           r == [Inherited(view, s, k) EXCEPT ![k] = v]
           n == IF k \in {"stat", "meter"} THEN [view EXCEPT !.decor = Adjusted!WithRecord(@, s, r)]
                ELSE [view EXCEPT !.audio = Adjusted!WithRecord(@, s, r)]
<1>1. /\ Inherited(view, s, k) \in RecordOf(k)
      /\ \A j \in Fields(k) \cap Adjusted!Controls :
            /\ Inherited(view, s, k)[j] = Adjusted!Effective(view, s, j)
            /\ Adjusted!Effective(view, s, j) # Adjusted!Usual[j] <=>
                 Adjusted!IsSet(view, s, j) \/ (~Adjusted!HasRecord(view, s, j) /\ j = "stat" /\ view.stat)
      /\ Adjusted!Effective(view, s, k) \in BOOLEAN /\ k \in Fields(k)
  BY InheritedRecord DEF Fields, Adjusted!Controls
<1>2. r \in RecordOf(k) /\ r[k] = v /\ \A j \in Fields(k) : j # k => r[j] = Inherited(view, s, k)[j]
  <2>1. CASE k \in {"stat", "meter"}
    BY <1>1, <2>1 DEF RecordOf, Adjusted!Decoration, Fields
  <2>2. CASE k \notin {"stat", "meter"}
    BY <1>1, <2>2 DEF RecordOf, Adjusted!Audio, Fields, Adjusted!Controls
  <2> QED BY <2>1, <2>2
<1>3. /\ n \in Adjusted!MonitorView /\ n.stat = view.stat
      /\ \A t \in Sources, j \in Adjusted!Controls :
            /\ Adjusted!HasRecord(n, t, j) <=> Adjusted!HasRecord(view, t, j) \/ (t = s /\ j \in Fields(k))
            /\ Adjusted!IsSet(n, t, j) <=> IF t = s /\ j \in Fields(k) THEN r[j] # Adjusted!Usual[j]
                                  ELSE Adjusted!IsSet(view, t, j)
  <2> HIDE DEF r
  <2> QED BY <1>2, Recorded
<1>4. m = n
  <2>1. CASE k \notin {"stat", "meter"}
    BY <2>1 DEF Toggled, Adjusted!updateAudioSource, Inherited
  <2>2. CASE k \in {"stat", "meter"}
    <3>1. m = Adjusted!normalizeMonitorView(n, Sources)
      BY <2>2 DEF Toggled, Adjusted!updateSourceDecoration, Inherited
    <3> HIDE DEF n
    <3>2. n.decor \in Adjusted!Records(Adjusted!Decoration)
      BY <1>3 DEF Adjusted!MonitorView
    <3>3. n.decor = [t \in DOMAIN n.decor \cap Sources |-> n.decor[t]]
      BY <3>2 DEF Adjusted!Records
    <3>4. m = [n EXCEPT !.decor = n.decor]
      BY <3>1, <3>3 DEF Adjusted!normalizeMonitorView
    <3> QED BY <1>3, <3>4 DEF Adjusted!MonitorView
  <2> QED BY <2>1, <2>2
<1>5. Adjusted!Usual[k] \in BOOLEAN
  BY UsualValues
<1> HIDE DEF r, n
<1>6. ASSUME NEW j \in Adjusted!Controls
      PROVE  j \in Fields(k) /\ j # k => (r[j] # Adjusted!Usual[j] <=>
                 Adjusted!IsSet(view, s, j) \/ (~Adjusted!HasRecord(view, s, j) /\ j = "stat" /\ view.stat))
  BY <1>1, <1>2
<1>7. r[k] # Adjusted!Usual[k] <=> Adjusted!Effective(view, s, k) = Adjusted!Usual[k]
  BY <1>1, <1>2, <1>5
<1> QED BY <1>1, <1>3, <1>4, <1>6, <1>7

\* A user's adjustment of a control.
LEMMA AdjustedWindow ==
    ASSUME NEW h, NEW g, NEW d, NEW x \in Adjusted!Window, NEW s \in Sources, NEW k \in Adjusted!Controls, NEW b, NEW v,
           Adjusted!WindowSound(h, x), Adjusted!WindowFollows(h, d, x),
           b = Adjusted!SeedBaseline(x.baseline, s, k), v = Toggled(x.view, s, k),
           g.chosen = h.chosen \cup {<<s, k, ~Adjusted!Effective(x.view, s, k)>>},
           g.defaults = h.defaults,
           g.late = IF x.saves # <<>> /\ ~Adjusted!HasRecord(x.baseline, s, k) THEN h.late \cup {s} ELSE h.late
    PROVE  /\ Later(h, g) /\ b \in Adjusted!MonitorView /\ v \in Adjusted!MonitorView
           /\ Adjusted!Sound(g, b) /\ Adjusted!Sound(g, v) /\ Adjusted!Follows(g, b, v) /\ Adjusted!Keeps(g, x.baseline, b)
           /\ x.saves # <<>> => Adjusted!Follows(g, x.view, v)
           /\ \A t \in Sources, j \in Adjusted!Controls :
                 Adjusted!OneWay(g, t, j) /\ <<t, j, ~Adjusted!Usual[j]>> \in g.chosen =>
                    \/ Adjusted!IsSet(v, t, j) /\ ~Adjusted!IsSet(b, t, j)
                    \/ /\ <<t, j, ~Adjusted!Usual[j]>> \in h.chosen
                       /\ ~(Adjusted!IsSet(x.view, t, j) /\ ~Adjusted!IsSet(x.baseline, t, j))
<1> DEFINE o == Adjusted!Effective(x.view, s, k)
           B(t, j) == Adjusted!IsSet(x.baseline, t, j)
           V(t, j) == Adjusted!IsSet(x.view, t, j)
           HB(t, j) == Adjusted!HasRecord(x.baseline, t, j)
           HV(t, j) == Adjusted!HasRecord(x.view, t, j)
<1>1. x.baseline \in Adjusted!MonitorView /\ x.view \in Adjusted!MonitorView
  BY DEF Adjusted!Window
<1>2. Later(h, g)
  BY DEF Later
<1>3. Adjusted!Sound(g, x.baseline) /\ Adjusted!Sound(g, x.view) /\ Adjusted!Follows(g, x.baseline, x.view)
  BY <1>2, LaterHolds DEF Adjusted!WindowSound, Adjusted!WindowFollows
<1>4. /\ b \in Adjusted!MonitorView /\ b.stat = x.baseline.stat
      /\ \A t \in Sources, j \in Adjusted!Controls :
            /\ Adjusted!HasRecord(b, t, j) <=> HB(t, j) \/ (t = s /\ j \in Fields(k))
            /\ Adjusted!IsSet(b, t, j) <=>
                 \/ B(t, j)
                 \/ /\ t = s /\ j \in Fields(k) /\ ~HB(t, j)
                    /\ j = "stat" /\ x.baseline.stat
  BY <1>1, Seeded
<1>5. /\ v \in Adjusted!MonitorView /\ v.stat = x.view.stat
      /\ \A t \in Sources, j \in Adjusted!Controls :
            /\ Adjusted!HasRecord(v, t, j) <=> HV(t, j) \/ (t = s /\ j \in Fields(k))
            /\ Adjusted!IsSet(v, t, j) <=>
                 \/ t = s /\ j = k /\ o = Adjusted!Usual[k]
                 \/ ~(t = s /\ j = k) /\ V(t, j)
                 \/ /\ t = s /\ j # k /\ j \in Fields(k) /\ ~HV(t, j)
                    /\ j = "stat" /\ x.view.stat
  BY <1>1, ToggledView
<1>6. /\ o \in BOOLEAN /\ Adjusted!Usual[k] \in BOOLEAN
      /\ o # Adjusted!Usual[k] <=> V(s, k) \/ (~HV(s, k) /\ k = "stat" /\ x.view.stat)
  BY <1>1, InheritedRecord, UsualValues
<1>7. /\ o = Adjusted!Usual[k] => <<s, k, ~Adjusted!Usual[k]>> \in g.chosen
      /\ o # Adjusted!Usual[k] => ~Adjusted!OneWay(g, s, k)
  BY <1>6 DEF Adjusted!OneWay
<1>8. /\ \A t \in Sources, j \in Adjusted!Controls : Adjusted!OneWay(g, t, j) =>
            /\ B(t, j) => V(t, j)
            /\ j = "stat" /\ x.baseline.stat => x.view.stat
            /\ HV(t, j) <=> HB(t, j)
      /\ \A t \in Sources, j \in Adjusted!Controls :
            /\ HB(t, j) => HV(t, j)
            /\ t \notin g.late /\ HV(t, j) => HB(t, j)
  BY <1>3 DEF Adjusted!Follows, Adjusted!Keeps, Adjusted!OneWay, Adjusted!HasRecord
<1>9. \A t, j : (B(t, j) => HB(t, j)) /\ (V(t, j) => HV(t, j))
  BY DEF Adjusted!IsSet
<1>10. \A j \in Adjusted!Controls : j \in Fields(k) => (HB(s, j) <=> HB(s, k)) /\ (HV(s, j) <=> HV(s, k))
  BY DEF Fields, Adjusted!HasRecord, Adjusted!RecordsOf, Adjusted!Controls
<1>11. x.saves # <<>> /\ s \notin g.late => HB(s, k)
  OBVIOUS
<1>12. /\ \A t \in Sources, j \in Adjusted!Controls : B(t, j) \/ V(t, j) => Adjusted!Given(g, t, j)
       /\ x.view.stat => TRUE \in g.defaults
       /\ x.baseline.stat => TRUE \in g.defaults
  BY <1>3 DEF Adjusted!Sound
<1>13. \A t, j : \/ j = "stat" /\ TRUE \in g.defaults
                 \/ <<t, j, ~Adjusted!Usual[j]>> \in g.chosen
                 => Adjusted!Given(g, t, j)
  BY DEF Adjusted!Given
<1>14. \A t \in Sources, j \in Adjusted!Controls : <<t, j, ~Adjusted!Usual[j]>> \in g.chosen =>
          \/ <<t, j, ~Adjusted!Usual[j]>> \in h.chosen
          \/ t = s /\ j = k /\ o = Adjusted!Usual[k]
  BY <1>6
<1> HIDE DEF o, B, V, HB, HV
<1>15. Adjusted!Sound(g, b)
  BY <1>4, <1>12, <1>13 DEF Adjusted!Sound
<1>16. Adjusted!Sound(g, v)
  BY <1>5, <1>7, <1>12, <1>13 DEF Adjusted!Sound
<1>17. Adjusted!Keeps(g, x.baseline, b)
  BY <1>4 DEF Adjusted!Keeps, B
<1>18. Adjusted!Keeps(g, b, v)
  <2> SUFFICES ASSUME NEW t \in Sources, NEW j \in Adjusted!Controls, Adjusted!OneWay(g, t, j)
               PROVE  /\ Adjusted!IsSet(b, t, j) => Adjusted!IsSet(v, t, j)
                      /\ j = "stat" /\ b.stat => v.stat
    BY DEF Adjusted!Keeps
  <2>1. j = "stat" /\ b.stat => v.stat
    BY <1>4, <1>5, <1>8
  <2>2. ASSUME Adjusted!IsSet(b, t, j)
        PROVE  Adjusted!IsSet(v, t, j)
    <3>1. CASE B(t, j)
      <4>1. V(t, j)
        BY <1>8, <3>1
      <4>2. ~(t = s /\ j = k)
        BY <1>6, <1>7, <4>1
      <4> QED BY <1>5, <4>1, <4>2
    <3>2. CASE t = s /\ j \in Fields(k) /\ ~HB(t, j) /\ j = "stat" /\ x.baseline.stat
      <4>1. ~HV(t, j) /\ x.view.stat
        BY <1>8, <3>2
      <4>2. j # k
        BY <1>6, <1>7, <3>2, <4>1
      <4> QED BY <1>5, <3>2, <4>1, <4>2
    <3> QED BY <1>4, <2>2, <3>1, <3>2
  <2> QED BY <2>1, <2>2
<1>19. Adjusted!Follows(g, b, v)
  <2>1. ASSUME NEW j \in Adjusted!Controls
        PROVE  DOMAIN Adjusted!RecordsOf(b, j) \subseteq DOMAIN Adjusted!RecordsOf(v, j)
    <3>1. \A t \in Sources : Adjusted!HasRecord(b, t, j) => Adjusted!HasRecord(v, t, j)
      BY <1>4, <1>5, <1>8
    <3>2. DOMAIN Adjusted!RecordsOf(b, j) \subseteq Sources
      BY <1>4, Shape
    <3> QED BY <3>1, <3>2 DEF Adjusted!HasRecord
  <2>2. ASSUME NEW j \in Adjusted!Controls, NEW t \in Sources \ g.late
        PROVE  Adjusted!HasRecord(v, t, j) => Adjusted!HasRecord(b, t, j)
    BY <1>4, <1>5, <1>8
  <2> QED BY <1>18, <2>1, <2>2 DEF Adjusted!Follows
<1>20. ASSUME x.saves # <<>>
       PROVE  Adjusted!Follows(g, x.view, v)
  <2>1. Adjusted!Keeps(g, x.view, v)
    <3> SUFFICES ASSUME NEW t \in Sources, NEW j \in Adjusted!Controls, Adjusted!OneWay(g, t, j)
                 PROVE  /\ V(t, j) => Adjusted!IsSet(v, t, j)
                        /\ j = "stat" /\ x.view.stat => v.stat
      BY DEF Adjusted!Keeps, V
    <3>1. t = s /\ j = k => ~V(t, j)
      BY <1>6, <1>7
    <3> QED BY <1>5, <3>1
  <2>2. ASSUME NEW j \in Adjusted!Controls
        PROVE  DOMAIN Adjusted!RecordsOf(x.view, j) \subseteq DOMAIN Adjusted!RecordsOf(v, j)
    <3>1. \A t \in Sources : HV(t, j) => Adjusted!HasRecord(v, t, j)
      BY <1>5
    <3>2. DOMAIN Adjusted!RecordsOf(x.view, j) \subseteq Sources
      BY <1>1, Shape
    <3> QED BY <3>1, <3>2 DEF Adjusted!HasRecord, HV
  <2>3. ASSUME NEW j \in Adjusted!Controls, NEW t \in Sources \ g.late
        PROVE  Adjusted!HasRecord(v, t, j) => HV(t, j)
    <3>1. t = s /\ j \in Fields(k) => HV(t, j)
      <4>1. t = s => HB(s, k)
        BY <1>11, <1>20
      <4>2. t = s => HV(s, k)
        BY <1>8, <4>1
      <4> QED BY <1>10, <4>2
    <3> QED BY <1>5, <3>1
  <2> QED BY <2>1, <2>2, <2>3 DEF Adjusted!Follows, HV, Adjusted!HasRecord
<1>21. ASSUME NEW t \in Sources, NEW j \in Adjusted!Controls,
              Adjusted!OneWay(g, t, j), <<t, j, ~Adjusted!Usual[j]>> \in g.chosen
       PROVE  \/ Adjusted!IsSet(v, t, j) /\ ~Adjusted!IsSet(b, t, j)
              \/ <<t, j, ~Adjusted!Usual[j]>> \in h.chosen /\ ~(V(t, j) /\ ~B(t, j))
  <2>1. CASE t = s /\ j = k /\ o = Adjusted!Usual[k]
    <3>1. ~V(s, k) /\ ~(~HV(s, k) /\ k = "stat" /\ x.view.stat)
      BY <1>6, <2>1
    <3>2. ~B(t, j)
      BY <1>8, <1>21, <2>1, <3>1
    <3>3. ~(~HB(t, j) /\ j = "stat" /\ x.baseline.stat)
      BY <1>8, <1>21, <2>1, <3>1
    <3>4. ~Adjusted!IsSet(b, t, j)
      BY <1>4, <3>2, <3>3
    <3> QED BY <1>5, <2>1, <3>4
  <2>2. CASE <<t, j, ~Adjusted!Usual[j]>> \in h.chosen
    <3> SUFFICES ASSUME V(t, j), ~B(t, j)
                 PROVE  Adjusted!IsSet(v, t, j) /\ ~Adjusted!IsSet(b, t, j)
      BY <2>2
    <3>1. ~(t = s /\ j = k)
      BY <1>6, <1>7, <1>21
    <3>2. HB(t, j)
      BY <1>8, <1>9, <1>21
    <3> QED BY <1>4, <1>5, <3>1, <3>2
  <2> QED BY <1>14, <1>21, <2>1, <2>2
<1> QED BY <1>2, <1>4, <1>5, <1>15, <1>16, <1>17, <1>19, <1>20, <1>21 DEF V, B

\* What holds of each window.
WindowOK(x) ==
    /\ x \in Adjusted!Window /\ Len(x.saves) \in 0..MaxSaves
    /\ \A i \in 1..Len(x.saves) : x.saves[i].done => i = 1
WindowInv(h, d, x) == WindowOK(x) /\ Adjusted!WindowSound(h, x) /\ Adjusted!WindowFollows(h, d, x)

\* The debounce ends.
SaveQueued(x, d) ==
    [x EXCEPT !.lastQueued = x.view,
              !.saves = Append(@, [view |-> x.view, base |-> x.baseline, done |-> FALSE, saved |-> d])]

LEMMA WindowQueued ==
    ASSUME NEW h, NEW d \in Adjusted!MonitorView, Adjusted!Sound(h, d), NEW x, WindowInv(h, d, x), Len(x.saves) < MaxSaves,
           NEW y, y = SaveQueued(x, d)
    PROVE  WindowInv(h, d, y) /\ y.view = x.view /\ y.baseline = x.baseline
<1> DEFINE n == [view |-> x.view, base |-> x.baseline, done |-> FALSE, saved |-> d]
           z == Append(x.saves, n)
<1>1. /\ x \in Adjusted!Window /\ x.view \in Adjusted!MonitorView /\ x.baseline \in Adjusted!MonitorView /\ x.saves \in Seq(Adjusted!Save)
      /\ Len(x.saves) \in Nat /\ MaxSaves \in Nat
  BY AccessAssumption DEF WindowInv, WindowOK, Adjusted!Window
<1>2. n \in Adjusted!Save /\ ~n.done /\ n.view = x.view /\ n.base = x.baseline /\ n.saved = d
  BY <1>1 DEF Adjusted!Save
<1> HIDE DEF n
<1>3. /\ z \in Seq(Adjusted!Save) /\ Len(z) = Len(x.saves) + 1 /\ z # <<>> /\ z[Len(z)] = n
      /\ \A i \in 1..Len(x.saves) : z[i] = x.saves[i]
  <2>1. z \in Seq(Adjusted!Save) /\ Len(z) = Len(x.saves) + 1
    BY <1>1, <1>2
  <2>2. z[Len(x.saves) + 1] = n /\ \A i \in 1..Len(x.saves) : z[i] = x.saves[i]
    BY <1>1, <1>2
  <2>3. z # <<>>
    BY <1>1, <2>1
  <2> QED BY <2>1, <2>2, <2>3
<1> HIDE DEF z
<1>4. y = [x EXCEPT !.lastQueued = x.view, !.saves = z]
  BY DEF n, z, SaveQueued
<1>5. y \in Adjusted!Window /\ y.view = x.view /\ y.baseline = x.baseline /\ y.lastQueued = x.view /\ y.saves = z
  BY <1>1, <1>3, <1>4 DEF Adjusted!Window
<1>6. \A i \in 1..Len(z) : (i \in 1..Len(x.saves) /\ z[i] = x.saves[i]) \/ (i = Len(z) /\ z[i] = n)
  BY <1>1, <1>3
<1>7. WindowOK(y)
  BY <1>1, <1>2, <1>3, <1>5, <1>6 DEF WindowInv, WindowOK
<1>8. Adjusted!WindowSound(h, y)
  BY <1>2, <1>3, <1>5, <1>6 DEF WindowInv, Adjusted!WindowSound
<1>9. Adjusted!WindowFollows(h, d, y)
  <2>1. Adjusted!Follows(h, x.baseline, x.view) /\ Adjusted!Follows(h, x.view, x.view) /\ Adjusted!Keeps(h, x.baseline, x.baseline)
    BY FollowsOn DEF WindowInv, Adjusted!WindowFollows
  <2>2. \A i \in 1..Len(z) :
            /\ Adjusted!Follows(h, z[i].base, z[i].view)
            /\ z[i].done => Adjusted!Keeps(h, z[i].saved, d) /\ Adjusted!SavedSets(h, z[i])
    BY <1>2, <1>6, <2>1 DEF WindowInv, Adjusted!WindowFollows
  <2> QED BY <1>2, <1>3, <1>5, <2>1, <2>2 DEF Adjusted!WindowFollows
<1> QED BY <1>5, <1>7, <1>8, <1>9 DEF WindowInv

\* The server executes the oldest save.
SaveDone(x, e) == [x EXCEPT !.saves[1].done = TRUE, !.saves[1].saved = e]

LEMMA WindowCommitted ==
    ASSUME NEW h, NEW d \in Adjusted!MonitorView, Adjusted!Sound(h, d), NEW x, WindowInv(h, d, x),
           x.saves # <<>>, ~x.saves[1].done, NEW e, e = Adjusted!merge(d, x.saves[1].base, x.saves[1].view),
           NEW y, y = SaveDone(x, e)
    PROVE  /\ e \in Adjusted!MonitorView /\ Adjusted!Sound(h, e) /\ Adjusted!Keeps(h, d, e)
           /\ WindowInv(h, e, y) /\ y.view = x.view /\ y.baseline = x.baseline
<1> DEFINE s == x.saves[1]  t == [s EXCEPT !.done = TRUE, !.saved = e]
           z == [x.saves EXCEPT ![1] = t]
<1>1. x \in Adjusted!Window /\ x.saves \in Seq(Adjusted!Save) /\ Len(x.saves) \in Nat
  BY DEF WindowInv, WindowOK, Adjusted!Window
<1>2. 1 \in 1..Len(x.saves)
  BY <1>1
<1>3. s \in Adjusted!Save /\ s.base \in Adjusted!MonitorView /\ s.view \in Adjusted!MonitorView
  <2>1. s \in Adjusted!Save
    BY <1>1, <1>2
  <2> QED BY <2>1 DEF Adjusted!Save
<1>4. Adjusted!Sound(h, s.base) /\ Adjusted!Sound(h, s.view) /\ Adjusted!Follows(h, s.base, s.view)
  BY <1>2 DEF WindowInv, Adjusted!WindowSound, Adjusted!WindowFollows
<1> HIDE DEF s
<1>5. e = Adjusted!merge(d, s.base, s.view)
  BY DEF s
<1>6. e \in Adjusted!MonitorView /\ Adjusted!Sound(h, e) /\ Adjusted!Keeps(h, d, e)
      /\ \A u \in Sources, k \in Adjusted!Controls :
            Adjusted!OneWay(h, u, k) /\ Adjusted!IsSet(s.view, u, k) /\ ~Adjusted!IsSet(s.base, u, k) => Adjusted!IsSet(e, u, k)
  <2>1. e \in Adjusted!MonitorView
    BY <1>3, <1>5, MergedDocument
  <2>2. Adjusted!Sound(h, e)
    BY <1>3, <1>4, <1>5, MergeSound
  <2> QED BY <1>3, <1>4, <1>5, <2>1, <2>2, MergeKeeps
<1>7. t \in Adjusted!Save /\ t.done /\ t.saved = e /\ t.view = s.view /\ t.base = s.base
  BY <1>3, <1>6 DEF Adjusted!Save
<1> HIDE DEF t
<1>8. /\ z \in Seq(Adjusted!Save) /\ Len(z) = Len(x.saves) /\ z # <<>> /\ z[1] = t
      /\ \A i \in 1..Len(z) : i # 1 => z[i] = x.saves[i]
  BY <1>1, <1>2, <1>7
<1>9. y = [x EXCEPT !.saves = z]
  <2>1. /\ y = [x EXCEPT !.saves = [[x.saves EXCEPT ![1] = [s EXCEPT !.done = TRUE]]
                    EXCEPT ![1] = [[s EXCEPT !.done = TRUE] EXCEPT !.saved = e]]]
    BY <1>1, <1>2 DEF Adjusted!Window, s, SaveDone
  <2>2. [[x.saves EXCEPT ![1] = [s EXCEPT !.done = TRUE]]
             EXCEPT ![1] = [[s EXCEPT !.done = TRUE] EXCEPT !.saved = e]] = z
    BY <1>1, <1>2 DEF t
  <2> QED BY <2>1, <2>2
<1> HIDE DEF z
<1>10. y \in Adjusted!Window /\ y.view = x.view /\ y.baseline = x.baseline /\ y.lastQueued = x.lastQueued /\ y.saves = z
  BY <1>1, <1>8, <1>9 DEF Adjusted!Window
<1>11. WindowOK(y)
  BY <1>8, <1>10 DEF WindowInv, WindowOK
<1>12. Adjusted!WindowSound(h, y)
  <2>1. Adjusted!WindowSound(h, x)
    BY DEF WindowInv
  <2>2. \A i \in 1..Len(z) : Adjusted!Sound(h, z[i].view) /\ Adjusted!Sound(h, z[i].base) /\ Adjusted!Sound(h, z[i].saved)
    BY <1>4, <1>6, <1>7, <1>8, <2>1 DEF Adjusted!WindowSound
  <2> QED BY <1>10, <2>1, <2>2 DEF Adjusted!WindowSound
<1>13. Adjusted!WindowFollows(h, e, y)
  <2>1. Adjusted!WindowFollows(h, d, x)
    BY DEF WindowInv
  <2>2. Adjusted!SavedSets(h, t) /\ Adjusted!Keeps(h, e, e) /\ Adjusted!Follows(h, t.base, t.view)
    BY <1>4, <1>6, <1>7, FollowsOn DEF Adjusted!SavedSets
  <2>3. \A i \in 1..Len(z) : i # 1 => ~z[i].done
    BY <1>8 DEF WindowInv, WindowOK
  <2>4. ASSUME NEW i \in 1..Len(z)
        PROVE  /\ Adjusted!Follows(h, z[i].base, z[i].view)
               /\ z[i].done => Adjusted!Keeps(h, z[i].saved, e) /\ Adjusted!SavedSets(h, z[i])
    <3>1. CASE i = 1
      BY <1>7, <1>8, <2>2, <3>1
    <3>2. CASE i # 1
      BY <1>8, <2>1, <2>3, <3>2 DEF Adjusted!WindowFollows
    <3> QED BY <3>1, <3>2
  <2>5. z[Len(z)].view = x.saves[Len(z)].view /\ z[Len(z)].base = x.saves[Len(z)].base
    <3>1. Len(z) \in 1..Len(z)
      BY <1>1, <1>2, <1>8
    <3>2. CASE Len(z) = 1
      BY <1>7, <1>8, <3>2 DEF s
    <3>3. CASE Len(z) # 1
      BY <1>8, <3>1, <3>3
    <3> QED BY <3>2, <3>3
  <2>6. /\ Adjusted!Follows(h, x.saves[Len(x.saves)].view, x.view)
        /\ Adjusted!Keeps(h, x.saves[Len(x.saves)].base, x.baseline)
        /\ Adjusted!Follows(h, x.baseline, x.view)
    BY <2>1 DEF Adjusted!WindowFollows
  <2> QED BY <1>8, <1>10, <2>4, <2>5, <2>6 DEF Adjusted!WindowFollows
<1> QED BY <1>6, <1>10, <1>11, <1>12, <1>13 DEF WindowInv

\* The answer of a save that is not the newest.
LEMMA WindowAnswered ==
    ASSUME NEW h, NEW d, NEW x, WindowInv(h, d, x), Len(x.saves) > 1,
           NEW y, y = [x EXCEPT !.saves = Tail(@)]
    PROVE  WindowInv(h, d, y) /\ y.view = x.view /\ y.baseline = x.baseline
<1> DEFINE z == Tail(x.saves)
<1>1. x \in Adjusted!Window /\ x.saves \in Seq(Adjusted!Save) /\ Len(x.saves) \in Nat /\ MaxSaves \in Nat
  BY AccessAssumption DEF WindowInv, WindowOK, Adjusted!Window
<1>2. /\ z \in Seq(Adjusted!Save) /\ Len(z) = Len(x.saves) - 1 /\ z # <<>>
      /\ \A i \in 1..Len(z) : z[i] = x.saves[i + 1] /\ i + 1 \in 1..Len(x.saves) /\ i + 1 # 1
      /\ z[Len(z)] = x.saves[Len(x.saves)]
  <2>1. /\ z \in Seq(Adjusted!Save) /\ Len(z) = Len(x.saves) - 1
        /\ \A i \in 1..Len(x.saves) - 1 : z[i] = x.saves[i + 1]
    BY <1>1
  <2> HIDE DEF z
  <2>2. Len(z) # 0 /\ Len(z) \in 1..Len(x.saves) - 1
    BY <1>1, <2>1
  <2>3. z # <<>>
    BY <2>2
  <2>4. \A i \in 1..Len(z) : i + 1 \in 1..Len(x.saves) /\ i + 1 # 1
    BY <1>1, <2>1
  <2>5. z[Len(z)] = x.saves[Len(x.saves)]
    BY <1>1, <2>1, <2>2
  <2> QED BY <2>1, <2>3, <2>4, <2>5
<1> HIDE DEF z
<1>3. y \in Adjusted!Window /\ y.view = x.view /\ y.baseline = x.baseline /\ y.lastQueued = x.lastQueued /\ y.saves = z
  <2>1. y = [x EXCEPT !.saves = z]
    BY DEF z
  <2> QED BY <1>1, <1>2, <2>1 DEF Adjusted!Window
<1>4. WindowOK(y)
  BY <1>1, <1>2, <1>3 DEF WindowInv, WindowOK
<1>5. Adjusted!WindowSound(h, y)
  BY <1>2, <1>3 DEF WindowInv, Adjusted!WindowSound
<1>6. Adjusted!WindowFollows(h, d, y)
  <2>1. /\ Adjusted!Follows(h, x.baseline, x.view)
        /\ \A i \in 1..Len(x.saves) :
              /\ Adjusted!Follows(h, x.saves[i].base, x.saves[i].view)
              /\ x.saves[i].done =>
                   Adjusted!Keeps(h, x.saves[i].saved, d) /\ Adjusted!SavedSets(h, x.saves[i])
        /\ x.saves # <<>> =>
              /\ Adjusted!Follows(h, x.saves[Len(x.saves)].view, x.view)
              /\ Adjusted!Keeps(h, x.saves[Len(x.saves)].base, x.baseline)
    BY DEF WindowInv, Adjusted!WindowFollows
  <2>2. x.saves # <<>>
    BY <1>1
  <2> QED BY <1>2, <1>3, <2>1, <2>2 DEF Adjusted!WindowFollows
<1> QED BY <1>3, <1>4, <1>5, <1>6 DEF WindowInv

\* The answer of the newest save.
LEMMA WindowSaved ==
    ASSUME NEW h, NEW g, NEW d, NEW x, WindowInv(h, d, x), Len(x.saves) = 1, x.saves[1].done,
           NEW v, v = Adjusted!merge(x.saves[1].saved, x.saves[1].view, x.view),
           g.chosen = h.chosen, g.defaults = h.defaults,
           g.late = h.late \cup (DOMAIN v.decor \ DOMAIN x.saves[1].saved.decor)
                           \cup (DOMAIN v.audio \ DOMAIN x.saves[1].saved.audio),
           NEW y, y = [view |-> v, baseline |-> x.saves[1].saved, lastQueued |-> x.saves[1].saved, saves |-> <<>>]
    PROVE  /\ Later(h, g) /\ WindowInv(g, d, y)
           /\ v \in Adjusted!MonitorView
           /\ \A t \in Sources, k \in Adjusted!Controls :
                 Adjusted!OneWay(g, t, k) /\ Adjusted!IsSet(x.view, t, k) /\ ~Adjusted!IsSet(x.baseline, t, k) =>
                    Adjusted!IsSet(d, t, k) \/ (Adjusted!IsSet(y.view, t, k) /\ ~Adjusted!IsSet(y.baseline, t, k))
<1> DEFINE s == x.saves[1]
<1>1. /\ x \in Adjusted!Window /\ x.saves \in Seq(Adjusted!Save) /\ x.view \in Adjusted!MonitorView /\ x.saves # <<>>
      /\ 1 \in 1..Len(x.saves) /\ MaxSaves \in Nat
  BY AccessAssumption DEF WindowInv, WindowOK, Adjusted!Window
<1>2. s \in Adjusted!Save /\ s.saved \in Adjusted!MonitorView /\ s.view \in Adjusted!MonitorView
  <2>1. s \in Adjusted!Save
    BY <1>1
  <2> QED BY <2>1 DEF Adjusted!Save
<1>3. Later(h, g)
  BY DEF Later
<1>4. /\ Adjusted!Follows(h, s.view, x.view) /\ Adjusted!Keeps(h, s.base, x.baseline)
      /\ Adjusted!Keeps(h, s.saved, d) /\ Adjusted!SavedSets(h, s)
      /\ Adjusted!Sound(h, s.saved) /\ Adjusted!Sound(h, s.view) /\ Adjusted!Sound(h, x.view)
  BY <1>1 DEF WindowInv, Adjusted!WindowFollows, Adjusted!WindowSound
<1> HIDE DEF s
<1>5. v = Adjusted!merge(s.saved, s.view, x.view)
  BY DEF s
<1>6. /\ v \in Adjusted!MonitorView /\ Adjusted!Sound(h, v) /\ Adjusted!Keeps(h, s.saved, v)
      /\ \A k \in Adjusted!Controls : DOMAIN Adjusted!RecordsOf(s.saved, k) \subseteq DOMAIN Adjusted!RecordsOf(v, k)
      /\ \A t \in Sources, k \in Adjusted!Controls :
            Adjusted!OneWay(h, t, k) /\ Adjusted!IsSet(x.view, t, k) /\ ~Adjusted!IsSet(s.view, t, k) => Adjusted!IsSet(v, t, k)
  <2>1. v \in Adjusted!MonitorView
    BY <1>1, <1>2, <1>5, MergedDocument
  <2>2. Adjusted!Sound(h, v)
    BY <1>1, <1>2, <1>4, <1>5, MergeSound
  <2> QED BY <1>1, <1>2, <1>4, <1>5, <2>1, <2>2, MergeKeeps
<1>7. y.view = v /\ y.baseline = s.saved /\ y.lastQueued = s.saved /\ y.saves = <<>>
  BY DEF s
<1>8. WindowOK(y)
  <2>1. y \in Adjusted!Window
    BY <1>2, <1>6 DEF Adjusted!Window, s
  <2> QED BY <1>1, <1>7, <2>1 DEF WindowOK
<1>9. Adjusted!WindowSound(g, y)
  <2>1. Adjusted!Sound(g, v) /\ Adjusted!Sound(g, s.saved)
    BY <1>3, <1>4, <1>6, LaterHolds
  <2> QED BY <1>7, <2>1 DEF Adjusted!WindowSound
<1>10. Adjusted!WindowFollows(g, d, y)
  <2>1. Adjusted!Keeps(g, s.saved, v) /\ Adjusted!Keeps(g, s.saved, s.saved)
    BY <1>3, <1>6, LaterHolds, FollowsOn
  <2>2. \A k \in Adjusted!Controls, t \in Sources \ g.late : Adjusted!HasRecord(v, t, k) => Adjusted!HasRecord(s.saved, t, k)
    BY DEF Adjusted!HasRecord, Adjusted!RecordsOf, s
  <2>3. Adjusted!Follows(g, s.saved, v)
    BY <1>6, <2>1, <2>2 DEF Adjusted!Follows
  <2> QED BY <1>7, <2>1, <2>3 DEF Adjusted!WindowFollows
<1>11. ASSUME NEW t \in Sources, NEW k \in Adjusted!Controls,
              Adjusted!OneWay(g, t, k), Adjusted!IsSet(x.view, t, k), ~Adjusted!IsSet(x.baseline, t, k)
       PROVE  Adjusted!IsSet(d, t, k) \/ (Adjusted!IsSet(v, t, k) /\ ~Adjusted!IsSet(s.saved, t, k))
  <2>1. Adjusted!OneWay(h, t, k)
    BY <1>3, <1>11 DEF Adjusted!OneWay, Later
  <2>2. ~Adjusted!IsSet(s.base, t, k)
    BY <1>4, <1>11, <2>1 DEF Adjusted!Keeps
  <2>3. Adjusted!IsSet(s.saved, t, k) => Adjusted!IsSet(d, t, k)
    BY <1>4, <2>1 DEF Adjusted!Keeps
  <2>4. Adjusted!IsSet(s.view, t, k) => Adjusted!IsSet(s.saved, t, k)
    BY <1>4, <2>1, <2>2 DEF Adjusted!SavedSets
  <2> QED BY <1>6, <1>11, <2>1, <2>3, <2>4
<1> QED BY <1>3, <1>6, <1>7, <1>8, <1>9, <1>10, <1>11 DEF WindowInv

\* A page without unsaved edits takes the account's document.
LEMMA WindowRefreshed ==
    ASSUME NEW h, NEW d \in Adjusted!MonitorView, Adjusted!Sound(h, d), NEW x, WindowInv(h, d, x),
           x.saves = <<>>, x.view = x.lastQueued,
           NEW y, y = [x EXCEPT !.view = d, !.baseline = d, !.lastQueued = d]
    PROVE  /\ WindowInv(h, d, y)
           /\ \A t \in Sources, k \in Adjusted!Controls :
                 Adjusted!OneWay(h, t, k) => ~(Adjusted!IsSet(x.view, t, k) /\ ~Adjusted!IsSet(x.baseline, t, k))
<1>1. x \in Adjusted!Window /\ MaxSaves \in Nat
  BY AccessAssumption DEF WindowInv, WindowOK
<1>2. y \in Adjusted!Window /\ y.view = d /\ y.baseline = d /\ y.lastQueued = d /\ y.saves = <<>>
  BY <1>1 DEF Adjusted!Window
<1>3. WindowOK(y) /\ Adjusted!WindowSound(h, y)
  BY <1>1, <1>2 DEF WindowOK, Adjusted!WindowSound
<1>4. Adjusted!WindowFollows(h, d, y)
  BY <1>2, FollowsOn DEF Adjusted!WindowFollows
<1>5. Adjusted!Keeps(h, x.view, x.baseline)
  BY DEF WindowInv, Adjusted!WindowFollows
<1> QED BY <1>3, <1>4, <1>5 DEF WindowInv, Adjusted!Keeps

\* A step of one window.
LEMMA StepOfWindow ==
    ASSUME Adjusted!ControlsInv, NEW w \in Windows, DOMAIN c_window' = Windows,
           \A u \in Windows \ {w} : c_window'[u] = c_window[u],
           Later(Adjusted!told, Adjusted!told'), c_doc' \in Adjusted!MonitorView, Adjusted!Sound(Adjusted!told', c_doc'), Adjusted!Keeps(Adjusted!told', c_doc, c_doc'),
           WindowInv(Adjusted!told', c_doc', c_window'[w]),
           c_edits' \in 0..MaxAdjustments, c_chosen' \subseteq Sources \X Adjusted!Controls \X BOOLEAN,
           c_defaults' \subseteq BOOLEAN, c_late' \subseteq Sources,
           \A s \in Sources, k \in Adjusted!Controls :
              Adjusted!OneWay(Adjusted!told', s, k) /\ <<s, k, ~Adjusted!Usual[k]>> \in c_chosen' =>
                 \/ Adjusted!IsSet(c_doc', s, k)
                 \/ Adjusted!IsSet(c_window'[w].view, s, k) /\ ~Adjusted!IsSet(c_window'[w].baseline, s, k)
                 \/ /\ <<s, k, ~Adjusted!Usual[k]>> \in c_chosen
                    /\ ~(Adjusted!IsSet(c_window[w].view, s, k) /\ ~Adjusted!IsSet(c_window[w].baseline, s, k))
    PROVE  Adjusted!ControlsInv'
<1>1. Adjusted!NothingLost'
  BY OthersUnsaved DEF Adjusted!ControlsInv
<1>2. ASSUME NEW u \in Windows
      PROVE  WindowInv(Adjusted!told', c_doc', c_window'[u])
  <2>1. CASE u = w
    BY <2>1
  <2>2. CASE u # w
    <3>1. WindowInv(Adjusted!told, c_doc, c_window[u])
      BY DEF Adjusted!ControlsInv, Adjusted!TypeOK, WindowInv, WindowOK
    <3>2. c_window'[u] = c_window[u] /\ c_window[u] \in Adjusted!Window
      BY <2>2, <3>1 DEF WindowInv, WindowOK
    <3>3. Adjusted!WindowSound(Adjusted!told', c_window[u]) /\ Adjusted!WindowFollows(Adjusted!told', c_doc', c_window[u])
      BY <3>1, <3>2, WindowRests DEF WindowInv
    <3> QED BY <3>1, <3>2, <3>3 DEF WindowInv
  <2> QED BY <2>1, <2>2
<1>3. Adjusted!TypeOK'
  BY <1>2 DEF Adjusted!TypeOK, WindowInv, WindowOK
<1> QED BY <1>1, <1>2, <1>3 DEF Adjusted!ControlsInv, WindowInv

\* What the invariant says, of one window.
LEMMA OfWindow ==
    ASSUME Adjusted!ControlsInv, NEW w \in Windows
    PROVE  /\ WindowInv(Adjusted!told, c_doc, c_window[w]) /\ c_window[w] \in Adjusted!Window
           /\ c_window[w].view \in Adjusted!MonitorView /\ c_window[w].baseline \in Adjusted!MonitorView
           /\ c_doc \in Adjusted!MonitorView /\ Adjusted!Sound(Adjusted!told, c_doc) /\ DOMAIN c_window = Windows
           /\ MaxAdjustments \in Nat
<1>1. /\ WindowInv(Adjusted!told, c_doc, c_window[w]) /\ c_window[w] \in Adjusted!Window
      /\ c_doc \in Adjusted!MonitorView /\ Adjusted!Sound(Adjusted!told, c_doc) /\ DOMAIN c_window = Windows
  BY DEF Adjusted!ControlsInv, Adjusted!TypeOK, WindowInv, WindowOK
<1> QED BY <1>1, AccessAssumption DEF Adjusted!Window

LEMMA DefaultStep ==
    ASSUME Adjusted!ControlsInv, NEW w \in Windows, Adjusted!ChangeDefault(w)
    PROVE  Adjusted!ControlsInv'
<1> DEFINE x == c_window[w]  c == ~x.view.stat  v == Adjusted!updateDefaultTelemetry(x.view, c)
           y == [x EXCEPT !.baseline = x.baseline, !.view = v]
<1>1. /\ WindowInv(Adjusted!told, c_doc, x) /\ x \in Adjusted!Window /\ x.view \in Adjusted!MonitorView
      /\ c_doc \in Adjusted!MonitorView /\ Adjusted!Sound(Adjusted!told, c_doc) /\ DOMAIN c_window = Windows /\ MaxAdjustments \in Nat
  BY OfWindow
<1>2. /\ c_window' = [c_window EXCEPT ![w].baseline = x.baseline, ![w].view = v]
      /\ c_doc' = c_doc /\ c_edits' = c_edits + 1 /\ c_edits < MaxAdjustments /\ c_chosen' = c_chosen /\ c_late' = c_late
      /\ c_defaults' = c_defaults \cup {c}
  BY DEF Adjusted!ChangeDefault, Adjusted!Edited
<1>3. c \in BOOLEAN
  OBVIOUS
<1> HIDE DEF c
<1>4. /\ DOMAIN c_window' = Windows /\ c_window'[w] = y
      /\ \A u \in Windows \ {w} : c_window'[u] = c_window[u]
  BY <1>1, <1>2
<1>5. /\ Later(Adjusted!told, Adjusted!told') /\ c \in Adjusted!told'.defaults
  BY <1>2 DEF Later, Adjusted!told
<1>6. /\ Adjusted!Sound(Adjusted!told', c_doc) /\ Adjusted!Sound(Adjusted!told', x.view) /\ Adjusted!Sound(Adjusted!told', x.baseline)
      /\ Adjusted!Keeps(Adjusted!told', c_doc, c_doc) /\ Adjusted!Follows(Adjusted!told', x.baseline, x.view) /\ Adjusted!Keeps(Adjusted!told', x.baseline, x.baseline)
  BY <1>1, <1>5, LaterHolds, FollowsOn DEF WindowInv, Adjusted!WindowSound, Adjusted!WindowFollows
<1>7. v \in Adjusted!MonitorView /\ Adjusted!Follows(Adjusted!told', x.view, v) /\ Adjusted!Sound(Adjusted!told', v)
  BY <1>1, <1>3, <1>5, <1>6, DefaultChanged
<1> HIDE DEF v
<1>8. Adjusted!Follows(Adjusted!told', x.baseline, v)
  BY <1>6, <1>7, FollowsOn
<1>9. Adjusted!WindowSound(Adjusted!told', y) /\ Adjusted!WindowFollows(Adjusted!told', c_doc, y)
  BY <1>1, <1>5, <1>6, <1>7, <1>8, WindowEdited DEF WindowInv
<1>10. y \in Adjusted!Window /\ y.view = v /\ y.baseline = x.baseline /\ y.saves = x.saves
  BY <1>1, <1>7 DEF Adjusted!Window
<1> HIDE DEF y
<1>11. WindowInv(Adjusted!told', c_doc', c_window'[w])
  BY <1>1, <1>2, <1>4, <1>9, <1>10 DEF WindowInv, WindowOK
<1>12. c_edits' \in 0..MaxAdjustments /\ c_chosen' \subseteq Sources \X Adjusted!Controls \X BOOLEAN
       /\ c_defaults' \subseteq BOOLEAN /\ c_late' \subseteq Sources
  BY <1>1, <1>2, <1>3 DEF Adjusted!ControlsInv, Adjusted!TypeOK
<1>13. \A s \in Sources, k \in Adjusted!Controls :
         Adjusted!OneWay(Adjusted!told', s, k) /\ <<s, k, ~Adjusted!Usual[k]>> \in c_chosen' =>
            \/ Adjusted!IsSet(c_doc', s, k)
            \/ Adjusted!IsSet(c_window'[w].view, s, k) /\ ~Adjusted!IsSet(c_window'[w].baseline, s, k)
            \/ /\ <<s, k, ~Adjusted!Usual[k]>> \in c_chosen
               /\ ~(Adjusted!IsSet(c_window[w].view, s, k) /\ ~Adjusted!IsSet(c_window[w].baseline, s, k))
  BY <1>2, <1>4, <1>7, <1>10 DEF Adjusted!Follows, Adjusted!Keeps
<1> QED BY <1>1, <1>2, <1>4, <1>5, <1>6, <1>11, <1>12, <1>13, StepOfWindow

LEMMA AdjustmentStep ==
    ASSUME Adjusted!ControlsInv, NEW w \in Windows, Adjusted!Adjustment(w)
    PROVE  Adjusted!ControlsInv'
<1> DEFINE x == c_window[w]
<1>1. PICK s \in Sources, k \in Adjusted!Controls : Adjusted!Adjust(w, s, k, Toggled(x.view, s, k))
  <2>1. PICK s \in Sources : \/ \E k \in {"stat", "meter"} : Adjusted!ChangeDecoration(w, s, k)
                             \/ \E k \in {"muted", "monitor"} : Adjusted!ChangeAudio(w, s, k)
    BY DEF Adjusted!Adjustment
  <2>2. ASSUME NEW k \in {"stat", "meter"}, Adjusted!ChangeDecoration(w, s, k)
        PROVE  k \in Adjusted!Controls /\ Adjusted!Adjust(w, s, k, Toggled(x.view, s, k))
    BY <2>2 DEF Adjusted!ChangeDecoration, Toggled, Adjusted!Controls
  <2>3. ASSUME NEW k \in {"muted", "monitor"}, Adjusted!ChangeAudio(w, s, k)
        PROVE  k \in Adjusted!Controls /\ Adjusted!Adjust(w, s, k, Toggled(x.view, s, k))
    <3>1. k \notin {"stat", "meter"}
      OBVIOUS
    <3> QED BY <2>3, <3>1 DEF Adjusted!ChangeAudio, Toggled, Adjusted!Controls
  <2> QED BY <2>1, <2>2, <2>3
<1> DEFINE b == Adjusted!SeedBaseline(x.baseline, s, k)  v == Toggled(x.view, s, k)
           y == [x EXCEPT !.baseline = b, !.view = v]
           c == <<s, k, ~Adjusted!Effective(x.view, s, k)>>
<1>2. /\ WindowInv(Adjusted!told, c_doc, x) /\ x \in Adjusted!Window /\ x.view \in Adjusted!MonitorView
      /\ c_doc \in Adjusted!MonitorView /\ Adjusted!Sound(Adjusted!told, c_doc) /\ DOMAIN c_window = Windows /\ MaxAdjustments \in Nat
  BY OfWindow
<1>3. /\ c_window' = [c_window EXCEPT ![w].baseline = b, ![w].view = v]
      /\ c_doc' = c_doc /\ c_edits' = c_edits + 1 /\ c_edits < MaxAdjustments /\ c_defaults' = c_defaults
      /\ c_chosen' = c_chosen \cup {c}
      /\ c_late' = IF x.saves # <<>> /\ ~Adjusted!HasRecord(x.baseline, s, k) THEN c_late \cup {s} ELSE c_late
  BY <1>1 DEF Adjusted!Adjust, Adjusted!Edited
<1>4. c \in Sources \X Adjusted!Controls \X BOOLEAN
  <2>1. Adjusted!Effective(x.view, s, k) \in BOOLEAN
    BY <1>2, InheritedRecord
  <2> QED BY <2>1
<1>5. /\ Adjusted!told'.chosen = Adjusted!told.chosen \cup {c} /\ Adjusted!told'.defaults = Adjusted!told.defaults
      /\ Adjusted!told'.late = IF x.saves # <<>> /\ ~Adjusted!HasRecord(x.baseline, s, k) THEN Adjusted!told.late \cup {s} ELSE Adjusted!told.late
      /\ Adjusted!told.chosen = c_chosen /\ Adjusted!told'.chosen = c_chosen'
  BY <1>3 DEF Adjusted!told
<1>6. /\ Later(Adjusted!told, Adjusted!told') /\ b \in Adjusted!MonitorView /\ v \in Adjusted!MonitorView
      /\ Adjusted!Sound(Adjusted!told', b) /\ Adjusted!Sound(Adjusted!told', v) /\ Adjusted!Follows(Adjusted!told', b, v) /\ Adjusted!Keeps(Adjusted!told', x.baseline, b)
      /\ x.saves # <<>> => Adjusted!Follows(Adjusted!told', x.view, v)
      /\ \A t \in Sources, j \in Adjusted!Controls :
            Adjusted!OneWay(Adjusted!told', t, j) /\ <<t, j, ~Adjusted!Usual[j]>> \in Adjusted!told'.chosen =>
               \/ Adjusted!IsSet(v, t, j) /\ ~Adjusted!IsSet(b, t, j)
               \/ /\ <<t, j, ~Adjusted!Usual[j]>> \in Adjusted!told.chosen
                  /\ ~(Adjusted!IsSet(x.view, t, j) /\ ~Adjusted!IsSet(x.baseline, t, j))
  <2>1. Adjusted!WindowSound(Adjusted!told, x) /\ Adjusted!WindowFollows(Adjusted!told, c_doc, x)
    BY <1>2 DEF WindowInv
  <2> HIDE DEF x, b, v
  <2>2. b = Adjusted!SeedBaseline(x.baseline, s, k) /\ v = Toggled(x.view, s, k)
    BY DEF b, v
  <2> QED BY <1>2, <1>5, <2>1, <2>2, AdjustedWindow DEF c
<1>7. /\ DOMAIN c_window' = Windows /\ c_window'[w] = y
      /\ \A u \in Windows \ {w} : c_window'[u] = c_window[u]
  BY <1>2, <1>3
<1> HIDE DEF b, v, c
<1>8. Adjusted!WindowSound(Adjusted!told', y) /\ Adjusted!WindowFollows(Adjusted!told', c_doc, y)
  BY <1>2, <1>6, WindowEdited DEF WindowInv
<1>9. y \in Adjusted!Window /\ y.view = v /\ y.baseline = b /\ y.saves = x.saves
  BY <1>2, <1>6 DEF Adjusted!Window
<1> HIDE DEF y
<1>10. WindowInv(Adjusted!told', c_doc', c_window'[w])
  BY <1>2, <1>3, <1>7, <1>8, <1>9 DEF WindowInv, WindowOK
<1>11. c_edits' \in 0..MaxAdjustments /\ c_chosen' \subseteq Sources \X Adjusted!Controls \X BOOLEAN
       /\ c_defaults' \subseteq BOOLEAN /\ c_late' \subseteq Sources
  BY <1>2, <1>3, <1>4 DEF Adjusted!ControlsInv, Adjusted!TypeOK
<1>12. Adjusted!Sound(Adjusted!told', c_doc') /\ Adjusted!Keeps(Adjusted!told', c_doc, c_doc')
  BY <1>2, <1>3, <1>6, LaterHolds, FollowsOn
<1>13. \A t \in Sources, j \in Adjusted!Controls :
         Adjusted!OneWay(Adjusted!told', t, j) /\ <<t, j, ~Adjusted!Usual[j]>> \in c_chosen' =>
            \/ Adjusted!IsSet(c_doc', t, j)
            \/ Adjusted!IsSet(c_window'[w].view, t, j) /\ ~Adjusted!IsSet(c_window'[w].baseline, t, j)
            \/ /\ <<t, j, ~Adjusted!Usual[j]>> \in c_chosen
               /\ ~(Adjusted!IsSet(c_window[w].view, t, j) /\ ~Adjusted!IsSet(c_window[w].baseline, t, j))
  BY <1>5, <1>6, <1>7, <1>9
<1> QED BY <1>2, <1>3, <1>6, <1>7, <1>10, <1>11, <1>12, <1>13, StepOfWindow

LEMMA PersistStep ==
    ASSUME Adjusted!ControlsInv, NEW w \in Windows, Adjusted!Persist(w)
    PROVE  Adjusted!ControlsInv'
<1> DEFINE x == c_window[w]
           n == [view |-> x.view, base |-> x.baseline, done |-> FALSE, saved |-> c_doc]
           y == [x EXCEPT !.lastQueued = x.view, !.saves = Append(@, n)]
<1>1. /\ WindowInv(Adjusted!told, c_doc, x) /\ x \in Adjusted!Window /\ c_doc \in Adjusted!MonitorView /\ Adjusted!Sound(Adjusted!told, c_doc)
      /\ DOMAIN c_window = Windows
  BY OfWindow
<1>2. /\ c_window' = [c_window EXCEPT ![w].lastQueued = x.view, ![w].saves = Append(@, n)]
      /\ c_doc' = c_doc /\ c_edits' = c_edits /\ c_chosen' = c_chosen /\ c_defaults' = c_defaults /\ c_late' = c_late
      /\ Len(x.saves) < MaxSaves
  BY DEF Adjusted!Persist, Adjusted!history
<1>3. /\ DOMAIN c_window' = Windows /\ c_window'[w] = y
      /\ \A u \in Windows \ {w} : c_window'[u] = c_window[u]
  BY <1>1, <1>2
<1>4. Adjusted!told' = Adjusted!told
  BY <1>2 DEF Adjusted!told
<1>5. WindowInv(Adjusted!told, c_doc, y) /\ y.view = x.view /\ y.baseline = x.baseline
  <2>1. Adjusted!Sound(Adjusted!told, c_doc) /\ WindowInv(Adjusted!told, c_doc, x) /\ c_doc \in Adjusted!MonitorView /\ Len(x.saves) < MaxSaves
    BY <1>1, <1>2
  <2>2. y = SaveQueued(x, c_doc)
    BY DEF SaveQueued
  <2> HIDE DEF x, y
  <2> QED BY <2>1, <2>2, WindowQueued
<1> HIDE DEF y
<1>6. Later(Adjusted!told, Adjusted!told') /\ Adjusted!Keeps(Adjusted!told', c_doc, c_doc')
  BY <1>2, <1>4, FollowsOn DEF Later
<1>7. c_edits' \in 0..MaxAdjustments /\ c_chosen' \subseteq Sources \X Adjusted!Controls \X BOOLEAN
       /\ c_defaults' \subseteq BOOLEAN /\ c_late' \subseteq Sources
  BY <1>2 DEF Adjusted!ControlsInv, Adjusted!TypeOK
<1>8. \A t \in Sources, j \in Adjusted!Controls :
         Adjusted!OneWay(Adjusted!told', t, j) /\ <<t, j, ~Adjusted!Usual[j]>> \in c_chosen' =>
            \/ Adjusted!IsSet(c_doc', t, j)
            \/ Adjusted!IsSet(c_window'[w].view, t, j) /\ ~Adjusted!IsSet(c_window'[w].baseline, t, j)
            \/ /\ <<t, j, ~Adjusted!Usual[j]>> \in c_chosen
               /\ ~(Adjusted!IsSet(c_window[w].view, t, j) /\ ~Adjusted!IsSet(c_window[w].baseline, t, j))
  BY <1>2, <1>3, <1>5
<1> HIDE DEF x
<1> QED BY <1>1, <1>2, <1>3, <1>4, <1>5, <1>6, <1>7, <1>8, StepOfWindow

LEMMA CommitStep ==
    ASSUME Adjusted!ControlsInv, NEW w \in Windows, Adjusted!Commit(w)
    PROVE  Adjusted!ControlsInv'
<1> DEFINE x == c_window[w]
           y == [x EXCEPT !.saves[1].done = TRUE, !.saves[1].saved = c_doc']
<1>1. /\ WindowInv(Adjusted!told, c_doc, x) /\ x \in Adjusted!Window /\ c_doc \in Adjusted!MonitorView /\ Adjusted!Sound(Adjusted!told, c_doc)
      /\ DOMAIN c_window = Windows
  BY OfWindow
<1>2. /\ c_window' = [c_window EXCEPT ![w].saves[1].done = TRUE, ![w].saves[1].saved = c_doc']
      /\ c_edits' = c_edits /\ c_chosen' = c_chosen /\ c_defaults' = c_defaults /\ c_late' = c_late
      /\ x.saves # <<>> /\ ~x.saves[1].done
      /\ c_doc' = Adjusted!merge(c_doc, x.saves[1].base, x.saves[1].view)
  <2>1. Head(x.saves) = x.saves[1]
    OBVIOUS
  <2> QED BY <2>1 DEF Adjusted!Commit, Adjusted!history
<1>3. /\ DOMAIN c_window' = Windows /\ c_window'[w] = y
      /\ \A u \in Windows \ {w} : c_window'[u] = c_window[u]
  BY <1>1, <1>2
<1>4. Adjusted!told' = Adjusted!told
  BY <1>2 DEF Adjusted!told
<1>5. /\ c_doc' \in Adjusted!MonitorView /\ Adjusted!Sound(Adjusted!told, c_doc') /\ Adjusted!Keeps(Adjusted!told, c_doc, c_doc')
      /\ WindowInv(Adjusted!told, c_doc', y) /\ y.view = x.view /\ y.baseline = x.baseline
  <2>1. /\ Adjusted!Sound(Adjusted!told, c_doc) /\ WindowInv(Adjusted!told, c_doc, x) /\ c_doc \in Adjusted!MonitorView
        /\ x.saves # <<>> /\ ~x.saves[1].done /\ c_doc' = Adjusted!merge(c_doc, x.saves[1].base, x.saves[1].view)
    BY <1>1, <1>2
  <2>2. y = SaveDone(x, c_doc')
    BY DEF SaveDone
  <2> HIDE DEF x, y
  <2> QED BY <2>1, <2>2, WindowCommitted
<1> HIDE DEF y
<1>6. Later(Adjusted!told, Adjusted!told')
  BY <1>4 DEF Later
<1>7. c_edits' \in 0..MaxAdjustments /\ c_chosen' \subseteq Sources \X Adjusted!Controls \X BOOLEAN
       /\ c_defaults' \subseteq BOOLEAN /\ c_late' \subseteq Sources
  BY <1>2 DEF Adjusted!ControlsInv, Adjusted!TypeOK
<1>8. \A t \in Sources, j \in Adjusted!Controls :
         Adjusted!OneWay(Adjusted!told', t, j) /\ <<t, j, ~Adjusted!Usual[j]>> \in c_chosen' =>
            \/ Adjusted!IsSet(c_doc', t, j)
            \/ Adjusted!IsSet(c_window'[w].view, t, j) /\ ~Adjusted!IsSet(c_window'[w].baseline, t, j)
            \/ /\ <<t, j, ~Adjusted!Usual[j]>> \in c_chosen
               /\ ~(Adjusted!IsSet(c_window[w].view, t, j) /\ ~Adjusted!IsSet(c_window[w].baseline, t, j))
  BY <1>2, <1>3, <1>5
<1> HIDE DEF x
<1> QED BY <1>1, <1>2, <1>3, <1>4, <1>5, <1>6, <1>7, <1>8, StepOfWindow

LEMMA AnswerStep ==
    ASSUME Adjusted!ControlsInv, NEW w \in Windows, Adjusted!Answer(w)
    PROVE  Adjusted!ControlsInv'
<1> DEFINE x == c_window[w]
           s == x.saves[1]
           v == Adjusted!merge(s.saved, s.view, x.view)
<1>1. /\ WindowInv(Adjusted!told, c_doc, x) /\ x \in Adjusted!Window /\ c_doc \in Adjusted!MonitorView /\ Adjusted!Sound(Adjusted!told, c_doc)
      /\ DOMAIN c_window = Windows
  BY OfWindow
<1>2. Head(x.saves) = x.saves[1]
  OBVIOUS
<1>3. c_doc' = c_doc /\ c_edits' = c_edits /\ c_chosen' = c_chosen /\ c_defaults' = c_defaults /\ x.saves # <<>> /\ s.done
  BY <1>2 DEF Adjusted!Answer
<1>4. CASE Len(x.saves) > 1
  <2> DEFINE y == [x EXCEPT !.saves = Tail(@)]
  <2>1. c_window' = [c_window EXCEPT ![w].saves = Tail(@)] /\ c_late' = c_late
    <3>1. Len(x.saves) # 1
      <4> DEFINE n == Len(x.saves)
      <4>1. n \in Nat /\ n > 1
        BY <1>1, <1>4 DEF Adjusted!Window
      <4> HIDE DEF n
      <4>2. n # 1
        BY <4>1
      <4> QED BY <4>2 DEF n
    <3> QED BY <3>1 DEF Adjusted!Answer
  <2>2. /\ DOMAIN c_window' = Windows /\ c_window'[w] = y
        /\ \A u \in Windows \ {w} : c_window'[u] = c_window[u]
    BY <1>1, <2>1
  <2>3. Adjusted!told' = Adjusted!told
    BY <1>3, <2>1 DEF Adjusted!told
  <2>4. WindowInv(Adjusted!told, c_doc, y) /\ y.view = x.view /\ y.baseline = x.baseline
    <3>1. y = [x EXCEPT !.saves = Tail(@)]
      OBVIOUS
    <3> HIDE DEF x, y
    <3> QED BY <1>1, <1>4, <3>1, WindowAnswered
  <2> HIDE DEF y
  <2>5. Later(Adjusted!told, Adjusted!told') /\ Adjusted!Keeps(Adjusted!told', c_doc, c_doc')
    BY <1>3, <2>3, FollowsOn DEF Later
  <2>6. c_edits' \in 0..MaxAdjustments /\ c_chosen' \subseteq Sources \X Adjusted!Controls \X BOOLEAN
         /\ c_defaults' \subseteq BOOLEAN /\ c_late' \subseteq Sources
    BY <1>3, <2>1 DEF Adjusted!ControlsInv, Adjusted!TypeOK
  <2>7. \A t \in Sources, j \in Adjusted!Controls :
           Adjusted!OneWay(Adjusted!told', t, j) /\ <<t, j, ~Adjusted!Usual[j]>> \in c_chosen' =>
              \/ Adjusted!IsSet(c_doc', t, j)
              \/ Adjusted!IsSet(c_window'[w].view, t, j) /\ ~Adjusted!IsSet(c_window'[w].baseline, t, j)
              \/ /\ <<t, j, ~Adjusted!Usual[j]>> \in c_chosen
                 /\ ~(Adjusted!IsSet(c_window[w].view, t, j) /\ ~Adjusted!IsSet(c_window[w].baseline, t, j))
    BY <1>3, <2>2, <2>4
  <2> HIDE DEF x
  <2> QED BY <1>1, <1>3, <2>2, <2>3, <2>4, <2>5, <2>6, <2>7, StepOfWindow
<1>5. CASE Len(x.saves) = 1
  <2> DEFINE y == [view |-> v, baseline |-> s.saved, lastQueued |-> s.saved, saves |-> <<>>]
  <2>1. /\ c_window' = [c_window EXCEPT ![w] = y]
        /\ c_late' = c_late \cup (DOMAIN v.decor \ DOMAIN s.saved.decor)
                        \cup (DOMAIN v.audio \ DOMAIN s.saved.audio)
    BY <1>2, <1>5 DEF Adjusted!Answer
  <2>2. /\ DOMAIN c_window' = Windows /\ c_window'[w] = y
        /\ \A u \in Windows \ {w} : c_window'[u] = c_window[u]
    BY <1>1, <2>1
  <2>3. /\ Adjusted!told'.chosen = Adjusted!told.chosen /\ Adjusted!told'.defaults = Adjusted!told.defaults
        /\ Adjusted!told'.late = Adjusted!told.late \cup (DOMAIN v.decor \ DOMAIN s.saved.decor)
                                  \cup (DOMAIN v.audio \ DOMAIN s.saved.audio)
    BY <1>3, <2>1 DEF Adjusted!told
  <2>4. /\ Later(Adjusted!told, Adjusted!told') /\ WindowInv(Adjusted!told', c_doc, y) /\ v \in Adjusted!MonitorView
        /\ \A t \in Sources, k \in Adjusted!Controls :
              Adjusted!OneWay(Adjusted!told', t, k) /\ Adjusted!IsSet(x.view, t, k) /\ ~Adjusted!IsSet(x.baseline, t, k) =>
                 Adjusted!IsSet(c_doc, t, k) \/ (Adjusted!IsSet(y.view, t, k) /\ ~Adjusted!IsSet(y.baseline, t, k))
    <3>1. v = Adjusted!merge(x.saves[1].saved, x.saves[1].view, x.view)
      OBVIOUS
    <3>2. y = [view |-> v, baseline |-> x.saves[1].saved, lastQueued |-> x.saves[1].saved, saves |-> <<>>]
      OBVIOUS
    <3>3. WindowInv(Adjusted!told, c_doc, x) /\ x.saves[1].done
      BY <1>1, <1>3
    <3>4. Adjusted!told'.late = Adjusted!told.late \cup (DOMAIN v.decor \ DOMAIN x.saves[1].saved.decor)
                                    \cup (DOMAIN v.audio \ DOMAIN x.saves[1].saved.audio)
      BY <2>3
    <3>5. Adjusted!told'.chosen = Adjusted!told.chosen /\ Adjusted!told'.defaults = Adjusted!told.defaults
      BY <2>3
    <3>6. Len(x.saves) = 1
      BY <1>5
    <3> DEFINE h == Adjusted!told
               g == Adjusted!told'
    <3> HIDE DEF x, v, y, s, h, g
    <3>7. /\ WindowInv(h, c_doc, x)
          /\ g.late = h.late \cup (DOMAIN v.decor \ DOMAIN x.saves[1].saved.decor)
                           \cup (DOMAIN v.audio \ DOMAIN x.saves[1].saved.audio)
          /\ g.chosen = h.chosen /\ g.defaults = h.defaults
      BY <3>3, <3>4, <3>5 DEF h, g
    <3>8. /\ Later(h, g) /\ WindowInv(g, c_doc, y) /\ v \in Adjusted!MonitorView
          /\ \A t \in Sources, k \in Adjusted!Controls :
                Adjusted!OneWay(g, t, k) /\ Adjusted!IsSet(x.view, t, k) /\ ~Adjusted!IsSet(x.baseline, t, k) =>
                   Adjusted!IsSet(c_doc, t, k) \/ (Adjusted!IsSet(y.view, t, k) /\ ~Adjusted!IsSet(y.baseline, t, k))
      BY <3>1, <3>2, <3>3, <3>6, <3>7, WindowSaved
    <3> QED BY <3>8 DEF h, g
  <2>5. v.decor \in Adjusted!Records(Adjusted!Decoration) /\ v.audio \in Adjusted!Records(Adjusted!Audio)
    BY <2>4 DEF Adjusted!MonitorView
  <2>6. DOMAIN v.decor \subseteq Sources /\ DOMAIN v.audio \subseteq Sources
    BY <2>5 DEF Adjusted!Records
  <2>7. c_edits' \in 0..MaxAdjustments /\ c_chosen' \subseteq Sources \X Adjusted!Controls \X BOOLEAN
         /\ c_defaults' \subseteq BOOLEAN
    BY <1>3 DEF Adjusted!ControlsInv, Adjusted!TypeOK
  <2>8. c_late' \subseteq Sources
    <3>1. c_late \subseteq Sources
      BY DEF Adjusted!ControlsInv, Adjusted!TypeOK
    <3> HIDE DEF v
    <3> QED BY <2>1, <2>6, <3>1
  <2> HIDE DEF y
  <2>9. Adjusted!Keeps(Adjusted!told', c_doc, c_doc') /\ Adjusted!Sound(Adjusted!told', c_doc')
    BY <1>1, <1>3, <2>4, LaterHolds, FollowsOn
  <2>10. \A t \in Sources, j \in Adjusted!Controls :
           Adjusted!OneWay(Adjusted!told', t, j) /\ <<t, j, ~Adjusted!Usual[j]>> \in c_chosen' =>
              \/ Adjusted!IsSet(c_doc', t, j)
              \/ Adjusted!IsSet(c_window'[w].view, t, j) /\ ~Adjusted!IsSet(c_window'[w].baseline, t, j)
              \/ /\ <<t, j, ~Adjusted!Usual[j]>> \in c_chosen
                 /\ ~(Adjusted!IsSet(c_window[w].view, t, j) /\ ~Adjusted!IsSet(c_window[w].baseline, t, j))
    BY <1>3, <2>2, <2>4
  <2> HIDE DEF x, v
  <2> QED BY <1>1, <1>3, <2>2, <2>4, <2>7, <2>8, <2>9, <2>10, StepOfWindow
<1> QED BY <1>4, <1>5 DEF Adjusted!Answer

LEMMA RefreshStep ==
    ASSUME Adjusted!ControlsInv, NEW w \in Windows, Adjusted!Refresh(w)
    PROVE  Adjusted!ControlsInv'
<1> DEFINE x == c_window[w]
           y == [x EXCEPT !.view = c_doc, !.baseline = c_doc, !.lastQueued = c_doc]
<1>1. /\ WindowInv(Adjusted!told, c_doc, x) /\ x \in Adjusted!Window /\ c_doc \in Adjusted!MonitorView /\ Adjusted!Sound(Adjusted!told, c_doc)
      /\ DOMAIN c_window = Windows
  BY OfWindow
<1>2. /\ c_window' = [c_window EXCEPT ![w] = y]
      /\ c_doc' = c_doc /\ c_edits' = c_edits /\ c_chosen' = c_chosen /\ c_defaults' = c_defaults /\ c_late' = c_late
      /\ x.saves = <<>> /\ x.view = x.lastQueued
  BY DEF Adjusted!Refresh, Adjusted!history
<1>3. /\ DOMAIN c_window' = Windows /\ c_window'[w] = y
      /\ \A u \in Windows \ {w} : c_window'[u] = c_window[u]
  BY <1>1, <1>2
<1>4. Adjusted!told' = Adjusted!told
  BY <1>2 DEF Adjusted!told
<1>5. /\ WindowInv(Adjusted!told, c_doc, y)
      /\ \A t \in Sources, k \in Adjusted!Controls :
            Adjusted!OneWay(Adjusted!told, t, k) => ~(Adjusted!IsSet(x.view, t, k) /\ ~Adjusted!IsSet(x.baseline, t, k))
  <2> HIDE DEF x
  <2> QED BY <1>1, <1>2, WindowRefreshed
<1> HIDE DEF y
<1>6. Later(Adjusted!told, Adjusted!told') /\ Adjusted!Keeps(Adjusted!told', c_doc, c_doc')
  BY <1>2, <1>4, FollowsOn DEF Later
<1>7. c_edits' \in 0..MaxAdjustments /\ c_chosen' \subseteq Sources \X Adjusted!Controls \X BOOLEAN
       /\ c_defaults' \subseteq BOOLEAN /\ c_late' \subseteq Sources
  BY <1>2 DEF Adjusted!ControlsInv, Adjusted!TypeOK
<1>8. \A t \in Sources, j \in Adjusted!Controls :
         Adjusted!OneWay(Adjusted!told', t, j) /\ <<t, j, ~Adjusted!Usual[j]>> \in c_chosen' =>
            \/ Adjusted!IsSet(c_doc', t, j)
            \/ Adjusted!IsSet(c_window'[w].view, t, j) /\ ~Adjusted!IsSet(c_window'[w].baseline, t, j)
            \/ /\ <<t, j, ~Adjusted!Usual[j]>> \in c_chosen
               /\ ~(Adjusted!IsSet(c_window[w].view, t, j) /\ ~Adjusted!IsSet(c_window[w].baseline, t, j))
  BY <1>2, <1>4, <1>5
<1> HIDE DEF x
<1> QED BY <1>1, <1>2, <1>3, <1>4, <1>5, <1>6, <1>7, <1>8, StepOfWindow

LEMMA ControlsStart ==
    ASSUME Adjusted!Init
    PROVE  Adjusted!ControlsInv
<1> DEFINE d == Adjusted!defaultMonitorView
<1>1. Adjusted!NoRecords \in Adjusted!Records(Adjusted!Decoration) /\ Adjusted!NoRecords \in Adjusted!Records(Adjusted!Audio) /\ DOMAIN Adjusted!NoRecords = {}
  <2>1. Adjusted!NoRecords = [s \in (DOMAIN Adjusted!NoRecords) |-> Adjusted!NoRecords[s]] /\ DOMAIN Adjusted!NoRecords = {}
    BY DEF Adjusted!NoRecords
  <2> QED BY <2>1, Mapped
<1>2. d \in Adjusted!MonitorView /\ d.stat = FALSE /\ d.decor = Adjusted!NoRecords /\ d.audio = Adjusted!NoRecords
  BY <1>1 DEF Adjusted!defaultMonitorView, Adjusted!MonitorView
<1> HIDE DEF d
<1>3. \A s, k : ~Adjusted!HasRecord(d, s, k) /\ ~Adjusted!IsSet(d, s, k)
  BY <1>1, <1>2 DEF Adjusted!IsSet, Adjusted!HasRecord, Adjusted!RecordsOf
<1>4. \A h : Adjusted!Sound(h, d)
  BY <1>2, <1>3 DEF Adjusted!Sound
<1>5. c_doc = d /\ DOMAIN c_window = Windows
      /\ \A w \in Windows : c_window[w] = [view |-> d, baseline |-> d, lastQueued |-> d, saves |-> <<>>]
  BY DEF Adjusted!Init, d
<1>6. ASSUME NEW w \in Windows
      PROVE  /\ c_window[w] \in Adjusted!Window /\ c_window[w].saves = <<>>
             /\ c_window[w].view = d /\ c_window[w].baseline = d /\ c_window[w].lastQueued = d
  <2>1. c_window[w] = [view |-> d, baseline |-> d, lastQueued |-> d, saves |-> <<>>]
    BY <1>5
  <2>2. <<>> \in Seq(Adjusted!Save)
    OBVIOUS
  <2> QED BY <1>2, <2>1, <2>2 DEF Adjusted!Window
<1>7. Adjusted!TypeOK
  BY <1>2, <1>5, <1>6, AccessAssumption DEF Adjusted!Init, Adjusted!TypeOK
<1>8. Adjusted!NothingLost
  BY DEF Adjusted!NothingLost, Adjusted!Init
<1>9. ASSUME NEW w \in Windows
      PROVE  Adjusted!WindowSound(Adjusted!told, c_window[w]) /\ Adjusted!WindowFollows(Adjusted!told, c_doc, c_window[w])
  BY <1>4, <1>6, FollowsOn DEF Adjusted!WindowSound, Adjusted!WindowFollows
<1> QED BY <1>4, <1>5, <1>7, <1>8, <1>9 DEF Adjusted!ControlsInv

LEMMA ControlsStep ==
    ASSUME Adjusted!ControlsInv, Adjusted!Next \/ UNCHANGED Adjusted!vars
    PROVE  Adjusted!ControlsInv'
<1>1. CASE Adjusted!Next
  BY <1>1, DefaultStep, AdjustmentStep, PersistStep, CommitStep, AnswerStep, RefreshStep DEF Adjusted!Next
<1>2. CASE UNCHANGED Adjusted!vars
  <2>1. /\ c_doc' = c_doc /\ c_window' = c_window /\ c_edits' = c_edits /\ c_chosen' = c_chosen
        /\ c_defaults' = c_defaults /\ c_late' = c_late /\ Adjusted!told' = Adjusted!told
    BY <1>2 DEF Adjusted!vars, Adjusted!told
  <2>2. Adjusted!TypeOK'
    BY <2>1 DEF Adjusted!ControlsInv, Adjusted!TypeOK
  <2>3. Adjusted!NothingLost'
    BY <2>1 DEF Adjusted!ControlsInv, Adjusted!NothingLost, Adjusted!Unsaved
  <2> QED BY <2>1, <2>2, <2>3 DEF Adjusted!ControlsInv
<1> QED BY <1>1, <1>2

\* Why no control falls back.
LEMMA ControlsHonest ==
    ASSUME Adjusted!ControlsInv
    PROVE  Adjusted!NoControlFallsBack
<1> SUFFICES ASSUME Adjusted!Quiet, NEW s \in Sources \ c_late, NEW k \in Adjusted!Controls, Adjusted!FallsBack(s, k)
             PROVE  FALSE
  BY DEF Adjusted!NoControlFallsBack
<1> DEFINE e == Adjusted!Effective(c_doc, s, k)
<1>1. c_doc \in Adjusted!MonitorView /\ c_chosen \subseteq Sources \X Adjusted!Controls \X BOOLEAN
  BY DEF Adjusted!ControlsInv, Adjusted!TypeOK
<1>2. /\ e \in BOOLEAN /\ Adjusted!Usual[k] \in BOOLEAN
      /\ e # Adjusted!Usual[k] <=> Adjusted!IsSet(c_doc, s, k) \/ (~Adjusted!HasRecord(c_doc, s, k) /\ k = "stat" /\ c_doc.stat)
  BY <1>1, InheritedRecord, UsualValues
<1>3. /\ \E v \in BOOLEAN : <<s, k, v>> \in c_chosen
      /\ <<s, k, e>> \notin c_chosen
      /\ ~(k = "stat" /\ e \in c_defaults)
  BY DEF Adjusted!FallsBack
<1> HIDE DEF e
<1>4. <<s, k, ~e>> \in c_chosen
  BY <1>2, <1>3
<1>5. CASE e = Adjusted!Usual[k]
  <2>1. Adjusted!OneWay(Adjusted!told, s, k)
    BY <1>3, <1>5, UsualValues DEF Adjusted!OneWay, Adjusted!told
  <2>2. Adjusted!Unsaved(s, k)
    BY <1>2, <1>4, <1>5, <2>1 DEF Adjusted!ControlsInv, Adjusted!NothingLost
  <2>3. PICK w \in Windows : Adjusted!IsSet(c_window[w].view, s, k) /\ ~Adjusted!IsSet(c_window[w].baseline, s, k)
    BY <2>2 DEF Adjusted!Unsaved
  <2>4. Adjusted!Keeps(Adjusted!told, c_window[w].view, c_window[w].baseline)
    BY DEF Adjusted!Quiet, Adjusted!ControlsInv, Adjusted!WindowFollows
  <2> QED BY <2>1, <2>3, <2>4 DEF Adjusted!Keeps
<1>6. CASE e # Adjusted!Usual[k]
  <2>1. Adjusted!Given(Adjusted!told, s, k) \/ (k = "stat" /\ TRUE \in Adjusted!told.defaults)
    BY <1>2, <1>6 DEF Adjusted!ControlsInv, Adjusted!Sound
  <2>2. e = ~Adjusted!Usual[k] /\ (k = "stat" => e = TRUE)
    BY <1>2, <1>6, UsualValues
  <2> QED BY <1>3, <2>1, <2>2 DEF Adjusted!Given, Adjusted!told
<1> QED BY <1>5, <1>6

-----------------------------------------------------------------------------
(* The configuration profiles (ConfigProfiles).                            *)

\* A view has one newest reload at most; and the view when reload r has found c.
ViewOK(v) ==
  /\ v \in [selected : Profiles!Choices, reloads : SUBSET Profiles!Reloads]
  /\ \A r, s \in v.reloads : r.newest /\ s.newest => r = s
FoundIn(v, r, c) == [v EXCEPT !.reloads = (@ \ {r}) \cup {[r EXCEPT !.read = TRUE, !.found = c]}]


-----------------------------------------------------------------------------
(* Configuration profiles (ConfigProfiles).                                *)

\* A reload begins: it is the newest, and to be read.
LEMMA ReloadBegins ==
    ASSUME NEW view, view \in [selected : Profiles!Choices, reloads : SUBSET Profiles!Reloads],
           \A r, s \in view.reloads : r.newest /\ s.newest => r = s
    PROVE  /\ Profiles!Begins(view) \in [selected : Profiles!Choices, reloads : SUBSET Profiles!Reloads]
           /\ \A r, s \in Profiles!Begins(view).reloads : r.newest /\ s.newest => r = s
           /\ \E r \in Profiles!Begins(view).reloads : r.newest /\ ~r.read
           /\ Profiles!Begins(view).selected = view.selected
<1> DEFINE n == [newest |-> TRUE, read |-> FALSE, found |-> None]
           old == {[r EXCEPT !.newest = FALSE] : r \in view.reloads}
           z == Profiles!Begins(view)
<1>1. n \in Profiles!Reloads /\ n.newest /\ ~n.read
  BY DEF Profiles!Reloads, Profiles!Choices
<1>2. \A r \in old : r \in Profiles!Reloads /\ ~r.newest
  BY DEF Profiles!Reloads
<1>3. z = [view EXCEPT !.reloads = old \cup {n}]
  BY DEF Profiles!Begins
<1> HIDE DEF n, old
<1>4. z \in [selected : Profiles!Choices, reloads : SUBSET Profiles!Reloads]
      /\ z.reloads = old \cup {n} /\ z.selected = view.selected
  BY <1>1, <1>2, <1>3
<1> QED BY <1>1, <1>2, <1>4

\* Reads go on: a reload is read, or shown.
LEMMA ReloadRead ==
    ASSUME NEW view, ViewOK(view), NEW r \in view.reloads, NEW c \in Profiles!Choices
    PROVE  /\ ViewOK(FoundIn(view, r, c)) /\ FoundIn(view, r, c).selected = view.selected
           /\ \A a \in view.reloads : a # r => a \in FoundIn(view, r, c).reloads
           /\ r.newest => \E a \in FoundIn(view, r, c).reloads : a.newest /\ a.found = c
           /\ (\A a \in view.reloads : ~a.newest) => (\A a \in FoundIn(view, r, c).reloads : ~a.newest)
<1> DEFINE q == [r EXCEPT !.read = TRUE, !.found = c]
           z == FoundIn(view, r, c)
<1>0. /\ view \in [selected : Profiles!Choices, reloads : SUBSET Profiles!Reloads]
      /\ \A a, b \in view.reloads : a.newest /\ b.newest => a = b
  BY DEF ViewOK
<1>1. q \in Profiles!Reloads /\ q.newest = r.newest /\ q.found = c
  BY <1>0 DEF Profiles!Reloads
<1> HIDE DEF q
<1>2. z = [view EXCEPT !.reloads = (@ \ {r}) \cup {q}]
  BY DEF q, FoundIn
<1>3. /\ z \in [selected : Profiles!Choices, reloads : SUBSET Profiles!Reloads] /\ z.selected = view.selected
      /\ z.reloads = (view.reloads \ {r}) \cup {q}
  BY <1>0, <1>1, <1>2
<1> HIDE DEF z
<1>4. \A a, b \in z.reloads : a.newest /\ b.newest => a = b
  BY <1>0, <1>1, <1>3
<1>5. ViewOK(z)
  BY <1>3, <1>4 DEF ViewOK
<1>6. /\ \A a \in view.reloads : a # r => a \in z.reloads
      /\ r.newest => \E a \in z.reloads : a.newest /\ a.found = c
      /\ (\A a \in view.reloads : ~a.newest) => (\A a \in z.reloads : ~a.newest)
  BY <1>1, <1>3
<1> QED BY <1>3, <1>5, <1>6 DEF z

LEMMA Settings ==
    ASSUME Profiles!ProfilesInv
    PROVE  /\ f_account.list \in Profiles!Lists /\ f_account.active \in Profiles!Choices /\ f_account = [list |-> f_account.list, active |-> f_account.active]
           /\ f_cache.list \in Profiles!Lists /\ f_cache.active \in Profiles!Choices /\ f_cache = [list |-> f_cache.list, active |-> f_cache.active]
           /\ Profiles!Effective(f_account.active, f_account.list) \in Profiles!Choices
           /\ Profiles!Effective(f_cache.active, f_cache.list) \in Profiles!Choices
           /\ MaxProfiles \in Nat /\ None \notin Profile
<1>1. f_account \in Profiles!Documents /\ f_cache \in Profiles!Documents
  BY DEF Profiles!ProfilesInv, Profiles!TypeOK
<1>2. /\ f_account.list \in Profiles!Lists /\ f_account.active \in Profiles!Choices
      /\ f_cache.list \in Profiles!Lists /\ f_cache.active \in Profiles!Choices
      /\ f_account = [list |-> f_account.list, active |-> f_account.active]
      /\ f_cache = [list |-> f_cache.list, active |-> f_cache.active]
  BY <1>1 DEF Profiles!Documents
<1>3. None \in Profiles!Choices
  BY DEF Profiles!Choices
<1> QED BY <1>2, <1>3, AccessAssumption DEF Profiles!Effective

\* What depends on the panel's reloads, and on the lanes.
LEMMA SameShown ==
    ASSUME Profiles!PanelFollows, f_panel' = f_panel, f_account' = f_account, f_op' = f_op, f_stale' = f_stale
    PROVE  Profiles!PanelFollows'
  BY DEF Profiles!PanelFollows, Profiles!Deleting

LEMMA Announced ==
    ASSUME \E r \in f_panel'.reloads : r.newest /\ ~r.read
    PROVE  Profiles!PanelFollows'
  BY DEF Profiles!PanelFollows

LEMMA Stale ==
    ASSUME f_stale' = TRUE
    PROVE  Profiles!PanelFollows' /\ Profiles!SelectionFollows'
  BY DEF Profiles!PanelFollows, Profiles!SelectionFollows

\* What a lane is doing, by its step.
LEMMA Doing ==
    ASSUME Profiles!ProfilesInv, NEW l \in Profiles!Lanes
    PROVE  /\ f_op \in [Profiles!Lanes -> Profiles!Operations] /\ f_op[l] \in Profiles!Operations
           /\ f_op[l].do \in {"list", "write", "pick", "select", "listToDelete", "check", "erase"} => f_op[l].id \in Profiles!Choices
           /\ f_op[l].do \in {"list", "write", "listToDelete", "check", "erase"} => f_op[l].id \in Profile
           /\ f_op[l].do \in {"list", "write"} => f_op[l].then \in {"select", "done"}
           /\ f_op[l].do \in {"write", "erase"} => f_op[l].seen \in Profiles!Lists
<1>1. f_op \in [Profiles!Lanes -> Profiles!Operations] /\ f_op[l] \in Profiles!Operations
  BY DEF Profiles!ProfilesInv, Profiles!TypeOK
<1>2. ASSUME NEW o \in Profiles!Operations
      PROVE  /\ o.do \in {"list", "write", "pick", "select", "listToDelete", "check", "erase"} => o.id \in Profiles!Choices
             /\ o.do \in {"list", "write", "listToDelete", "check", "erase"} => o.id \in Profile
             /\ o.do \in {"list", "write"} => o.then \in {"select", "done"}
             /\ o.do \in {"write", "erase"} => o.seen \in Profiles!Lists
  BY <1>2 DEF Profiles!Operations, Profiles!Choices, Profiles!Idle
<1> QED BY <1>1, <1>2

LEMMA Ops ==
    ASSUME NEW id \in Profile, NEW c \in Profiles!Choices, NEW then \in {"select", "done"}, NEW seen \in Profiles!Lists
    PROVE  /\ Profiles!Idle \in Profiles!Operations /\ Profiles!Saving(id, then) \in Profiles!Operations /\ Profiles!Selecting(c) \in Profiles!Operations
           /\ [do |-> "write", id |-> id, then |-> then, seen |-> seen] \in Profiles!Operations
           /\ [do |-> "erase", id |-> id, seen |-> seen] \in Profiles!Operations
           /\ [do |-> "listToDelete", id |-> id] \in Profiles!Operations
           /\ [do |-> "check", id |-> id] \in Profiles!Operations
           /\ [do |-> "select", id |-> c] \in Profiles!Operations
  BY DEF Profiles!Operations, Profiles!Saving, Profiles!Selecting

\* A lane that is neither deleting nor selecting goes on.
LEMMA LaneMoves ==
    ASSUME Profiles!ProfilesInv, NEW l \in Profiles!Lanes, f_op[l].do \notin {"check", "select"}, NEW o \in Profiles!Operations,
           f_op' = [f_op EXCEPT ![l] = o], f_account' = f_account, f_panel' = f_panel, f_overwritten' = f_overwritten,
           f_crossed' = f_crossed, f_stale' = f_stale \/ f_stale' = TRUE
    PROVE  Profiles!SelectionFollows' /\ Profiles!PanelFollows' /\ f_op' \in [Profiles!Lanes -> Profiles!Operations]
<1>1. f_op \in [Profiles!Lanes -> Profiles!Operations]
  BY DEF Profiles!ProfilesInv, Profiles!TypeOK
<1>2. Profiles!SelectionFollows'
  <2>1. \A k \in Profiles!Lanes : f_op[k].do \in {"check", "select"} => f_op'[k] = f_op[k]
    BY <1>1
  <2>2. \A k \in Profiles!Lanes : \A id : Profiles!At(k, "check", id) => Profiles!At(k, "check", id)'
    BY <2>1 DEF Profiles!At
  <2>3. \A k \in Profiles!Lanes : Profiles!At(k, "select", None) => Profiles!At(k, "select", None)'
    BY <2>1 DEF Profiles!At
  <2> QED BY <2>2, <2>3 DEF Profiles!ProfilesInv, Profiles!SelectionFollows
<1>3. Profiles!PanelFollows'
  <2>1. Profiles!Deleting => Profiles!Deleting'
    BY <1>1 DEF Profiles!Deleting
  <2> QED BY <2>1 DEF Profiles!ProfilesInv, Profiles!PanelFollows
<1> QED BY <1>1, <1>2, <1>3

LEMMA StartHolds ==
    ASSUME Profiles!ProfilesInv, NEW l \in Profiles!Lanes, NEW o \in Profiles!Operations, Profiles!Start(l, o)
    PROVE  Profiles!ProfilesInv'
<1>1. /\ f_op[l].do \notin {"check", "select"} /\ f_op' = [f_op EXCEPT ![l] = o]
      /\ f_account' = f_account /\ f_cache' = f_cache /\ f_panel' = f_panel /\ f_shell' = f_shell /\ f_version' = f_version
      /\ f_made' = f_made /\ f_overwritten' = f_overwritten /\ f_stale' = f_stale /\ f_crossed' = f_crossed
  BY DEF Profiles!Start, Profiles!hist, Profiles!Idle
<1>2. Profiles!SelectionFollows' /\ Profiles!PanelFollows' /\ f_op' \in [Profiles!Lanes -> Profiles!Operations]
  BY <1>1, LaneMoves
<1>3. Profiles!OthersKept'
  BY <1>1 DEF Profiles!ProfilesInv, Profiles!OthersKept
<1>4. Profiles!TypeOK'
  BY <1>1, <1>2 DEF Profiles!ProfilesInv, Profiles!TypeOK
<1> QED BY <1>2, <1>3, <1>4 DEF Profiles!ProfilesInv

LEMMA UsersStep ==
    ASSUME Profiles!ProfilesInv, Profiles!User
    PROVE  Profiles!ProfilesInv'
<1>1. f_panel.selected \in Profiles!Choices /\ f_shell.selected \in Profiles!Choices
  BY DEF Profiles!ProfilesInv, Profiles!TypeOK
<1>2. \A c \in Profiles!Choices : c # None => c \in Profile
  BY DEF Profiles!Choices
<1>3. Profiles!Nothing \in Profiles!Lists
  BY Settings DEF Profiles!Nothing, Profiles!Lists
<1>4. \A id \in Profile, then \in {"select", "done"} : Profiles!Saving(id, then) \in Profiles!Operations
  BY <1>3, Ops DEF Profiles!Choices
<1>5. \A c \in Profiles!Choices : Profiles!Selecting(c) \in Profiles!Operations
  BY DEF Profiles!Operations, Profiles!Selecting
<1>6. \A id \in Profile : [do |-> "listToDelete", id |-> id] \in Profiles!Operations
  BY DEF Profiles!Operations
<1>7. "panel" \in Profiles!Lanes /\ "selector" \in Profiles!Lanes /\ "studio" \in Profiles!Lanes
  BY DEF Profiles!Lanes
<1>8. CASE Profiles!saveCurrent
  BY <1>4, <1>7, <1>8, StartHolds DEF Profiles!saveCurrent
<1>9. CASE Profiles!restoreLocalConfigBackup
  BY <1>4, <1>7, <1>9, StartHolds DEF Profiles!restoreLocalConfigBackup
<1>10. CASE Profiles!importFile
  BY <1>4, <1>7, <1>10, StartHolds DEF Profiles!importFile
<1>11. CASE Profiles!createLocalConfigBackup
  BY <1>4, <1>7, <1>11, StartHolds DEF Profiles!createLocalConfigBackup
<1>12. CASE Profiles!save
  BY <1>1, <1>2, <1>4, <1>7, <1>12, StartHolds DEF Profiles!save
<1>13. CASE Profiles!selectProfile
  BY <1>5, <1>7, <1>13, StartHolds DEF Profiles!selectProfile, Profiles!Choices
<1>14. CASE Profiles!chooseProfile
  BY <1>5, <1>7, <1>14, StartHolds DEF Profiles!chooseProfile, Profiles!Choices
<1>15. CASE Profiles!remove
  BY <1>1, <1>2, <1>6, <1>7, <1>15, StartHolds DEF Profiles!remove
<1>16. \/ Profiles!saveCurrent \/ Profiles!createLocalConfigBackup \/ Profiles!restoreLocalConfigBackup \/ Profiles!importFile
       \/ Profiles!selectProfile \/ Profiles!remove \/ Profiles!chooseProfile \/ Profiles!save
  BY DEF Profiles!User
<1> QED BY <1>8, <1>9, <1>10, <1>11, <1>12, <1>13, <1>14, <1>15, <1>16

LEMMA ListedStep ==
    ASSUME Profiles!ProfilesInv, NEW l \in Profiles!Lanes, Profiles!Listed(l)
    PROVE  Profiles!ProfilesInv'
<1>1. PICK seen \in {f_account.list, f_cache.list} :
        /\ f_op[l].do \in {"list", "listToDelete"}
        /\ Profiles!listLocalConfigProfiles(seen)
        /\ f_op' = [f_op EXCEPT ![l] =
              IF f_op[l].do = "list" THEN [do |-> "write", id |-> @.id, then |-> @.then, seen |-> seen]
              ELSE IF Profiles!Has(seen, @.id) THEN [do |-> "erase", id |-> @.id, seen |-> seen]
              ELSE Profiles!Idle]
        /\ UNCHANGED <<f_account, f_panel, f_shell, f_version, f_acts, f_made, f_overwritten, f_crossed>>
  BY DEF Profiles!Listed
<1>2. seen \in Profiles!Lists
  BY <1>1, Settings
<1> DEFINE o == IF f_op[l].do = "list" THEN [do |-> "write", id |-> f_op[l].id, then |-> f_op[l].then, seen |-> seen]
                ELSE IF Profiles!Has(seen, f_op[l].id) THEN [do |-> "erase", id |-> f_op[l].id, seen |-> seen]
                ELSE Profiles!Idle
<1>3. f_op' = [f_op EXCEPT ![l] = o]
  BY <1>1, Doing
<1>4. o \in Profiles!Operations
  <2>1. f_op[l].id \in Profile /\ (f_op[l].do = "list" => f_op[l].then \in {"select", "done"})
    BY <1>1, Doing
  <2>2. Profiles!Idle \in Profiles!Operations
    BY DEF Profiles!Operations
  <2>3. ASSUME f_op[l].do = "list"
        PROVE  [do |-> "write", id |-> f_op[l].id, then |-> f_op[l].then, seen |-> seen] \in Profiles!Operations
    BY <1>2, <2>1, <2>3 DEF Profiles!Operations
  <2>4. [do |-> "erase", id |-> f_op[l].id, seen |-> seen] \in Profiles!Operations
    BY <1>2, <2>1 DEF Profiles!Operations
  <2> QED BY <2>2, <2>3, <2>4
<1>5. f_cache' \in Profiles!Documents /\ (f_stale' = f_stale \/ f_stale' = TRUE)
  <2>1. f_cache' = f_cache \/ f_cache' = [f_cache EXCEPT !.list = seen]
    BY <1>1 DEF Profiles!listLocalConfigProfiles
  <2>2. f_cache \in Profiles!Documents
    BY DEF Profiles!ProfilesInv, Profiles!TypeOK
  <2> QED BY <1>1, <1>2, <2>1, <2>2 DEF Profiles!listLocalConfigProfiles, Profiles!Documents
<1>6. /\ f_account' = f_account /\ f_panel' = f_panel /\ f_shell' = f_shell /\ f_version' = f_version
      /\ f_made' = f_made /\ f_overwritten' = f_overwritten /\ f_crossed' = f_crossed
  BY <1>1
<1> HIDE DEF o
<1>7. Profiles!SelectionFollows' /\ Profiles!PanelFollows' /\ f_op' \in [Profiles!Lanes -> Profiles!Operations]
  <2>1. f_op[l].do \notin {"check", "select"}
    BY <1>1
  <2> QED BY <1>3, <1>4, <1>5, <1>6, <2>1, LaneMoves
<1>8. Profiles!OthersKept'
  BY <1>6 DEF Profiles!ProfilesInv, Profiles!OthersKept
<1>9. Profiles!TypeOK'
  BY <1>5, <1>6, <1>7 DEF Profiles!ProfilesInv, Profiles!TypeOK
<1> QED BY <1>7, <1>8, <1>9 DEF Profiles!ProfilesInv

LEMMA PickedStep ==
    ASSUME Profiles!ProfilesInv, NEW l \in Profiles!Lanes, Profiles!Picked(l)
    PROVE  Profiles!ProfilesInv'
<1>1. PICK seen \in {f_account.list, f_cache.list} :
        /\ f_op[l].do = "pick"
        /\ IF f_op[l].id = None
           THEN /\ f_cache' = [f_cache EXCEPT !.active = None] /\ UNCHANGED <<f_trouble, f_stale>>
                /\ f_op' = [f_op EXCEPT ![l] = [do |-> "select", id |-> None]]
           ELSE /\ \/ /\ seen = f_account.list
                      /\ f_cache' = [list |-> seen, active |-> IF Profiles!Has(seen, f_op[l].id) THEN f_op[l].id ELSE f_cache.active]
                      /\ UNCHANGED <<f_trouble, f_stale>>
                   \/ /\ seen = f_cache.list
                      /\ f_cache' = [f_cache EXCEPT !.active = IF Profiles!Has(seen, f_op[l].id) THEN f_op[l].id ELSE @]
                      /\ f_trouble < MaxTrouble /\ f_trouble' = f_trouble + 1 /\ f_stale' = TRUE
                /\ f_op' = [f_op EXCEPT ![l] = IF Profiles!Has(seen, f_op[l].id) THEN [do |-> "select", id |-> f_op[l].id] ELSE Profiles!Idle]
        /\ UNCHANGED <<f_account, f_panel, f_shell, f_version, f_acts, f_made, f_overwritten, f_crossed>>
  BY DEF Profiles!Picked
<1>2. seen \in Profiles!Lists /\ f_op[l].id \in Profiles!Choices /\ None \in Profiles!Choices /\ f_cache.active \in Profiles!Choices /\ f_cache.list \in Profiles!Lists
  BY <1>1, Settings, Doing DEF Profiles!Choices
<1>3. PICK o : o \in Profiles!Operations /\ f_op' = [f_op EXCEPT ![l] = o]
  <2>1. Profiles!Idle \in Profiles!Operations /\ [do |-> "select", id |-> f_op[l].id] \in Profiles!Operations
        /\ [do |-> "select", id |-> None] \in Profiles!Operations
    BY <1>2 DEF Profiles!Operations
  <2> QED BY <1>1, <2>1
<1>4. f_cache' \in Profiles!Documents /\ (f_stale' = f_stale \/ f_stale' = TRUE)
  <2>0. f_cache \in Profiles!Documents
    BY DEF Profiles!ProfilesInv, Profiles!TypeOK
  <2>1. CASE f_op[l].id = None
    BY <1>1, <1>2, <2>0, <2>1 DEF Profiles!Documents
  <2>2. CASE f_op[l].id # None
    BY <1>1, <1>2, <2>0, <2>2 DEF Profiles!Documents
  <2> QED BY <2>1, <2>2
<1>5. /\ f_account' = f_account /\ f_panel' = f_panel /\ f_shell' = f_shell /\ f_version' = f_version
      /\ f_made' = f_made /\ f_overwritten' = f_overwritten /\ f_crossed' = f_crossed
  BY <1>1
<1>6. Profiles!SelectionFollows' /\ Profiles!PanelFollows' /\ f_op' \in [Profiles!Lanes -> Profiles!Operations]
  <2>1. f_op[l].do \notin {"check", "select"}
    BY <1>1
  <2> QED BY <1>3, <1>4, <1>5, <2>1, LaneMoves
<1>7. Profiles!OthersKept'
  BY <1>5 DEF Profiles!ProfilesInv, Profiles!OthersKept
<1>8. Profiles!TypeOK'
  BY <1>4, <1>5, <1>6 DEF Profiles!ProfilesInv, Profiles!TypeOK
<1> QED BY <1>6, <1>7, <1>8 DEF Profiles!ProfilesInv

\* A write of the list, from one read before.
LEMMA ListWritten ==
    ASSUME Profiles!ProfilesInv, NEW l \in Profiles!Lanes, f_op[l].do \in {"write", "erase"}, NEW o \in Profiles!Operations,
           f_op' = [f_op EXCEPT ![l] = o], NEW v \in 0..MaxProfiles, NEW seen \in Profiles!Lists, NEW id \in Profile,
           NEW list, list = [seen EXCEPT ![id] = v], Profiles!writeList(seen, list, id), f_crossed' = f_crossed,
           v # 0 \/ (o.do = "check" /\ o.id = id)
    PROVE  /\ f_account' \in Profiles!Documents /\ f_made' \in Profiles!Lists /\ f_overwritten' \subseteq Profile /\ f_stale' \in BOOLEAN
           /\ f_op' \in [Profiles!Lanes -> Profiles!Operations] /\ list \in Profiles!Lists
           /\ Profiles!OthersKept' /\ Profiles!SelectionFollows'
<1>1. /\ f_op \in [Profiles!Lanes -> Profiles!Operations] /\ f_account \in Profiles!Documents /\ f_made \in Profiles!Lists /\ f_overwritten \subseteq Profile
      /\ f_stale \in BOOLEAN /\ f_account.list \in Profiles!Lists /\ None \notin Profile
  BY Settings DEF Profiles!ProfilesInv, Profiles!TypeOK
<1>2. /\ list \in Profiles!Lists /\ list[id] = v
      /\ \A p \in Profile : p # id => list[p] = seen[p]
  BY DEF Profiles!Lists
<1>3. f_op' \in [Profiles!Lanes -> Profiles!Operations] /\ f_op'[l] = o /\ \A k \in Profiles!Lanes : k # l => f_op'[k] = f_op[k]
  BY <1>1
<1>4. CASE /\ f_account' = [f_account EXCEPT !.list = list]
           /\ f_made' = [f_made EXCEPT ![id] = list[id]]
           /\ f_overwritten' = (f_overwritten \cup {p \in Profile : seen[p] # f_account.list[p]}) \ {id}
           /\ f_stale' = f_stale
  <2>1. f_account' \in Profiles!Documents /\ f_account'.list = list /\ f_account'.active = f_account.active
    BY <1>1, <1>2, <1>4 DEF Profiles!Documents
  <2>2. f_made' \in Profiles!Lists /\ f_made'[id] = list[id] /\ \A p \in Profile : p # id => f_made'[p] = f_made[p]
    BY <1>1, <1>2, <1>4 DEF Profiles!Lists
  <2>3. \A p \in Profile : p # id => (p \in f_overwritten' <=> p \in f_overwritten \/ seen[p] # f_account.list[p])
    BY <1>4
  <2>4. Profiles!OthersKept'
    <3>1. \A p \in Profile : f_account'.list[p] # f_made'[p] => p \in f_overwritten'
      BY <1>2, <2>1, <2>2, <2>3 DEF Profiles!ProfilesInv, Profiles!OthersKept
    <3> QED BY <3>1 DEF Profiles!OthersKept
  <2>5. Profiles!SelectionFollows'
    <3> SUFFICES ASSUME f_account'.active # None, f_account'.list[f_account'.active] = 0, ~f_stale', ~f_crossed',
                        f_account'.active \notin f_overwritten'
                 PROVE  \E k \in Profiles!Lanes :
                    \/ f_op'[k].do = "check" /\ f_op'[k].id = f_account'.active
                    \/ f_op'[k].do = "select" /\ f_op'[k].id = None
      BY DEF Profiles!SelectionFollows, Profiles!Has, Profiles!At
    <3> DEFINE p == f_account.active
    <3>1. p \in Profile /\ p # None /\ list[p] = 0 /\ p \notin f_overwritten'
      BY <1>1, <2>1 DEF Profiles!Documents, Profiles!Choices
    <3>2. CASE p = id
      <4>1. o.do = "check" /\ o.id = id
        BY <1>2, <3>1, <3>2
      <4>2. f_op'[l].do = "check" /\ f_op'[l].id = f_account'.active
        BY <1>3, <2>1, <3>2, <4>1
      <4> QED BY <4>2
    <3>3. CASE p # id
      <4>1. p \notin f_overwritten /\ f_account.list[p] = 0
        BY <1>2, <2>3, <3>1, <3>3
      <4>2. PICK k \in Profiles!Lanes : Profiles!At(k, "check", p) \/ Profiles!At(k, "select", None)
        BY <1>4, <3>1, <4>1 DEF Profiles!ProfilesInv, Profiles!SelectionFollows, Profiles!Has
      <4>3. k # l
        BY <4>2 DEF Profiles!At
      <4>4. f_op'[k] = f_op[k]
        BY <1>3, <4>3
      <4> HIDE DEF p
      <4>5. \/ f_op'[k].do = "check" /\ f_op'[k].id = p
            \/ f_op'[k].do = "select" /\ f_op'[k].id = None
        BY <4>2, <4>4 DEF Profiles!At
      <4> QED BY <2>1, <4>5 DEF p
    <3> QED BY <3>2, <3>3
  <2> QED BY <1>1, <1>2, <1>3, <1>4, <2>1, <2>2, <2>4, <2>5
<1>5. CASE f_stale' = TRUE /\ f_account' = f_account /\ f_made' = f_made /\ f_overwritten' = f_overwritten
  BY <1>1, <1>2, <1>3, <1>5, Stale DEF Profiles!ProfilesInv, Profiles!OthersKept
<1> QED BY <1>4, <1>5 DEF Profiles!writeList

LEMMA ProfileSaved ==
    ASSUME Profiles!ProfilesInv, NEW l \in Profiles!Lanes, Profiles!saveLocalConfigProfile(l)
    PROVE  Profiles!ProfilesInv'
<1> DEFINE id == f_op[l].id  seen == f_op[l].seen
           next == [seen EXCEPT ![id] = f_version']
           o == IF f_op[l].then = "select" THEN Profiles!Selecting(id) ELSE Profiles!Idle
<1>1. /\ f_op[l].do = "write" /\ f_version < MaxProfiles /\ f_version' = f_version + 1
      /\ f_cache' = [f_cache EXCEPT !.list = next] /\ Profiles!writeList(seen, next, id)
      /\ f_panel' = Profiles!Begins(f_panel) /\ f_shell' = Profiles!Begins(f_shell)
      /\ f_op' = [f_op EXCEPT ![l] = o] /\ f_crossed' = f_crossed
  BY DEF Profiles!saveLocalConfigProfile, Profiles!announce
<1>2. id \in Profile /\ id \in Profiles!Choices /\ seen \in Profiles!Lists
  BY <1>1, Doing
<1>3. f_version' \in 1..MaxProfiles /\ f_version' \in 0..MaxProfiles /\ f_version' # 0
  <2>1. f_version \in 0..MaxProfiles /\ MaxProfiles \in Nat
    BY Settings DEF Profiles!ProfilesInv, Profiles!TypeOK
  <2> QED BY <1>1, <2>1
<1>4. o \in Profiles!Operations
  BY <1>2 DEF Profiles!Operations, Profiles!Selecting
<1> HIDE DEF o
<1>5. /\ f_account' \in Profiles!Documents /\ f_made' \in Profiles!Lists /\ f_overwritten' \subseteq Profile /\ f_stale' \in BOOLEAN
      /\ f_op' \in [Profiles!Lanes -> Profiles!Operations] /\ next \in Profiles!Lists
      /\ Profiles!OthersKept' /\ Profiles!SelectionFollows'
  <2>1. f_op[l].do \in {"write", "erase"}
    BY <1>1
  <2> HIDE DEF id, seen
  <2>2. Profiles!writeList(seen, next, id)
    BY <1>1
  <2>3. next = [seen EXCEPT ![id] = f_version']
    OBVIOUS
  <2> HIDE DEF next
  <2> QED BY <1>1, <1>2, <1>3, <1>4, <2>1, <2>2, <2>3, ListWritten
<1>6. f_cache' \in Profiles!Documents
  <2>1. f_cache \in Profiles!Documents
    BY DEF Profiles!ProfilesInv, Profiles!TypeOK
  <2> QED BY <1>1, <1>5, <2>1 DEF Profiles!Documents
<1>7. /\ \A view \in {f_panel', f_shell'} :
            /\ view \in [selected : Profiles!Choices, reloads : SUBSET Profiles!Reloads]
            /\ \A r, s \in view.reloads : r.newest /\ s.newest => r = s
      /\ \E r \in f_panel'.reloads : r.newest /\ ~r.read
  BY <1>1, ReloadBegins DEF Profiles!ProfilesInv, Profiles!TypeOK
<1>8. Profiles!TypeOK'
  BY <1>1, <1>3, <1>5, <1>6, <1>7 DEF Profiles!ProfilesInv, Profiles!TypeOK
<1> QED BY <1>5, <1>7, <1>8, Announced DEF Profiles!ProfilesInv

LEMMA EraseStep ==
    ASSUME Profiles!ProfilesInv, NEW l \in Profiles!Lanes, Profiles!Erase(l)
    PROVE  Profiles!ProfilesInv'
<1> DEFINE id == f_op[l].id  seen == f_op[l].seen
           next == [seen EXCEPT ![id] = 0]
           o == [do |-> "check", id |-> id]
<1>1. /\ f_op[l].do = "erase"
      /\ f_cache' = [f_cache EXCEPT !.list = next] /\ Profiles!writeList(seen, next, id)
      /\ f_panel' = f_panel /\ f_shell' = f_shell /\ f_version' = f_version
      /\ f_op' = [f_op EXCEPT ![l] = o] /\ f_crossed' = f_crossed
  BY DEF Profiles!Erase
<1>2. id \in Profile /\ seen \in Profiles!Lists
  BY <1>1, Doing
<1>3. 0 \in 0..MaxProfiles
  BY Settings
<1>4. o \in Profiles!Operations /\ o.do = "check" /\ o.id = id
  BY <1>2 DEF Profiles!Operations
<1> HIDE DEF o
<1>5. /\ f_account' \in Profiles!Documents /\ f_made' \in Profiles!Lists /\ f_overwritten' \subseteq Profile /\ f_stale' \in BOOLEAN
      /\ f_op' \in [Profiles!Lanes -> Profiles!Operations] /\ next \in Profiles!Lists
      /\ Profiles!OthersKept' /\ Profiles!SelectionFollows'
  <2>1. f_op[l].do \in {"write", "erase"}
    BY <1>1
  <2> HIDE DEF id, seen
  <2>2. Profiles!writeList(seen, next, id)
    BY <1>1
  <2>3. next = [seen EXCEPT ![id] = 0]
    OBVIOUS
  <2> HIDE DEF next
  <2> QED BY <1>1, <1>2, <1>3, <1>4, <2>1, <2>2, <2>3, ListWritten
<1>6. f_cache' \in Profiles!Documents
  <2>1. f_cache \in Profiles!Documents
    BY DEF Profiles!ProfilesInv, Profiles!TypeOK
  <2> QED BY <1>1, <1>5, <2>1 DEF Profiles!Documents
<1>7. Profiles!TypeOK'
  BY <1>1, <1>5, <1>6 DEF Profiles!ProfilesInv, Profiles!TypeOK
<1>8. Profiles!PanelFollows'
  <2>1. f_op'[l].do = "check"
    BY <1>1, <1>4, Doing
  <2>2. Profiles!Deleting'
    BY <2>1 DEF Profiles!Deleting
  <2> QED BY <2>2 DEF Profiles!PanelFollows
<1> QED BY <1>5, <1>7, <1>8 DEF Profiles!ProfilesInv

LEMMA SelectStep ==
    ASSUME Profiles!ProfilesInv, NEW l \in Profiles!Lanes, Profiles!setActiveLocalConfigProfile(l)
    PROVE  Profiles!ProfilesInv'
<1> DEFINE id == f_op[l].id
           p == IF l = "panel" THEN [f_panel EXCEPT !.selected = id] ELSE f_panel
           h == IF l = "selector" THEN [f_shell EXCEPT !.selected = id] ELSE f_shell
<1>1. /\ f_op[l].do = "select" /\ Profiles!writeActive(id)
      /\ f_panel' = Profiles!Begins(p) /\ f_shell' = Profiles!Begins(h) /\ f_op' = [f_op EXCEPT ![l] = Profiles!Idle]
      /\ f_cache' = f_cache /\ f_version' = f_version /\ f_made' = f_made /\ f_overwritten' = f_overwritten
  BY DEF Profiles!setActiveLocalConfigProfile
<1>2. id \in Profiles!Choices
  BY <1>1, Doing
<1>3. \A view \in {p, h} :
         /\ view \in [selected : Profiles!Choices, reloads : SUBSET Profiles!Reloads]
         /\ \A r, s \in view.reloads : r.newest /\ s.newest => r = s
  BY <1>2 DEF Profiles!ProfilesInv, Profiles!TypeOK
<1> HIDE DEF p, h
<1>4. /\ \A view \in {f_panel', f_shell'} :
            /\ view \in [selected : Profiles!Choices, reloads : SUBSET Profiles!Reloads]
            /\ \A r, s \in view.reloads : r.newest /\ s.newest => r = s
      /\ \E r \in f_panel'.reloads : r.newest /\ ~r.read
  BY <1>1, <1>3, ReloadBegins
<1>5. Profiles!Idle \in Profiles!Operations
  BY DEF Profiles!Operations
<1>6. f_op' \in [Profiles!Lanes -> Profiles!Operations]
  BY <1>1, <1>5, Doing
<1>7. CASE f_account' = [f_account EXCEPT !.active = id] /\ f_crossed' = (f_crossed \/ (id # None /\ ~Profiles!Has(f_account.list, id)))
           /\ f_stale' = f_stale
  <2>1. f_account' \in Profiles!Documents /\ f_account'.list = f_account.list /\ f_account'.active = id
    <3>1. f_account \in Profiles!Documents
      BY DEF Profiles!ProfilesInv, Profiles!TypeOK
    <3> QED BY <1>2, <1>7, <3>1 DEF Profiles!Documents
  <2>2. f_crossed \in BOOLEAN
    BY DEF Profiles!ProfilesInv, Profiles!TypeOK
  <2>3. Profiles!SelectionFollows'
    <3> SUFFICES ASSUME f_account'.active # None, ~(f_account'.active # None /\ f_account'.list[f_account'.active] # 0),
                        ~f_crossed'
                 PROVE  FALSE
      BY DEF Profiles!SelectionFollows, Profiles!Has
    <3> QED BY <1>7, <2>1 DEF Profiles!Has
  <2>4. Profiles!OthersKept'
    BY <1>1, <2>1 DEF Profiles!ProfilesInv, Profiles!OthersKept
  <2>5. Profiles!TypeOK'
    BY <1>1, <1>4, <1>6, <1>7, <2>1, <2>2 DEF Profiles!ProfilesInv, Profiles!TypeOK
  <2> QED BY <1>4, <2>3, <2>4, <2>5, Announced DEF Profiles!ProfilesInv
<1>8. CASE f_stale' = TRUE /\ f_account' = f_account /\ f_crossed' = f_crossed
  <2>1. Profiles!OthersKept'
    BY <1>1, <1>8 DEF Profiles!ProfilesInv, Profiles!OthersKept
  <2>2. Profiles!TypeOK'
    BY <1>1, <1>4, <1>6, <1>8 DEF Profiles!ProfilesInv, Profiles!TypeOK
  <2> QED BY <1>8, <2>1, <2>2, Stale DEF Profiles!ProfilesInv
<1> QED BY <1>1, <1>7, <1>8 DEF Profiles!writeActive

LEMMA DeleteStep ==
    ASSUME Profiles!ProfilesInv, NEW l \in Profiles!Lanes, Profiles!deleteLocalConfigProfile(l)
    PROVE  Profiles!ProfilesInv'
<1> DEFINE id == f_op[l].id
<1>1. PICK active \in {f_account.active, f_cache.active} :
        /\ f_op[l].do = "check"
        /\ (active = f_account.active /\ f_stale' = f_stale) \/ (active = f_cache.active /\ f_stale' = TRUE)
        /\ IF active = id
           THEN /\ f_op' = [f_op EXCEPT ![l] = [do |-> "select", id |-> None]]
                /\ f_cache' = [f_cache EXCEPT !.active = None]
                /\ UNCHANGED <<f_panel, f_shell>>
           ELSE /\ f_op' = [f_op EXCEPT ![l] = Profiles!Idle]
                /\ f_cache' = [f_cache EXCEPT !.active = IF @ = id THEN None ELSE @]
                /\ Profiles!announce([f_panel EXCEPT !.selected = None])
        /\ f_account' = f_account /\ f_version' = f_version /\ f_made' = f_made /\ f_overwritten' = f_overwritten
        /\ f_crossed' = f_crossed
  BY DEF Profiles!deleteLocalConfigProfile
<1>2. Profiles!Idle \in Profiles!Operations /\ [do |-> "select", id |-> None] \in Profiles!Operations /\ None \in Profiles!Choices
  BY DEF Profiles!Operations, Profiles!Choices
<1>3. PICK o \in Profiles!Operations : f_op' = [f_op EXCEPT ![l] = o] /\ o = IF active = id THEN [do |-> "select", id |-> None] ELSE Profiles!Idle
  BY <1>1, <1>2
<1>4. f_op' \in [Profiles!Lanes -> Profiles!Operations] /\ f_op'[l] = o /\ \A k \in Profiles!Lanes : k # l => f_op'[k] = f_op[k]
  BY <1>3, Doing
<1>5. f_cache' \in Profiles!Documents
  <2>1. f_cache \in Profiles!Documents
    BY DEF Profiles!ProfilesInv, Profiles!TypeOK
  <2> QED BY <1>1, <1>2, <2>1 DEF Profiles!Documents
<1>6. Profiles!SelectionFollows'
  <2> SUFFICES ASSUME f_account.active # None, ~Profiles!Has(f_account.list, f_account.active), ~f_stale', ~f_crossed',
                      f_account.active \notin f_overwritten
               PROVE  \E k \in Profiles!Lanes :
                    \/ f_op'[k].do = "check" /\ f_op'[k].id = f_account.active
                    \/ f_op'[k].do = "select" /\ f_op'[k].id = None
    BY <1>1 DEF Profiles!SelectionFollows, Profiles!Has, Profiles!At
  <2>1. active = f_account.active /\ ~f_stale /\ ~f_crossed
    BY <1>1
  <2>2. PICK k \in Profiles!Lanes : Profiles!At(k, "check", f_account.active) \/ Profiles!At(k, "select", None)
    BY <2>1 DEF Profiles!ProfilesInv, Profiles!SelectionFollows
  <2>3. CASE k # l
    <3>1. f_op'[k] = f_op[k]
      BY <1>4, <2>3
    <3> QED BY <2>2, <3>1 DEF Profiles!At
  <2>4. CASE k = l
    <3>1. active = id
      BY <1>1, <2>1, <2>2, <2>4 DEF Profiles!At
    <3> QED BY <1>3, <1>4, <3>1
  <2> QED BY <2>3, <2>4
<1>7. /\ \A view \in {f_panel', f_shell'} :
            /\ view \in [selected : Profiles!Choices, reloads : SUBSET Profiles!Reloads]
            /\ \A r, s \in view.reloads : r.newest /\ s.newest => r = s
      /\ Profiles!PanelFollows'
  <2>0. \A view \in {f_panel, f_shell} :
            /\ view \in [selected : Profiles!Choices, reloads : SUBSET Profiles!Reloads]
            /\ \A r, s \in view.reloads : r.newest /\ s.newest => r = s
    BY DEF Profiles!ProfilesInv, Profiles!TypeOK
  <2>1. CASE active = id
    <3>1. f_panel' = f_panel /\ f_shell' = f_shell /\ f_op'[l].do = "select"
      BY <1>1, <1>3, <1>4, <2>1
    <3>2. Profiles!Deleting'
      BY <3>1 DEF Profiles!Deleting
    <3> QED BY <2>0, <3>1, <3>2 DEF Profiles!PanelFollows
  <2>2. CASE active # id
    <3> DEFINE p == [f_panel EXCEPT !.selected = None]
    <3>1. f_panel' = Profiles!Begins(p) /\ f_shell' = Profiles!Begins(f_shell)
      BY <1>1, <2>2 DEF Profiles!announce
    <3>2. /\ p \in [selected : Profiles!Choices, reloads : SUBSET Profiles!Reloads]
          /\ \A r, s \in p.reloads : r.newest /\ s.newest => r = s
      BY <1>2, <2>0
    <3> HIDE DEF p
    <3>3. /\ \A view \in {f_panel', f_shell'} :
                /\ view \in [selected : Profiles!Choices, reloads : SUBSET Profiles!Reloads]
                /\ \A r, s \in view.reloads : r.newest /\ s.newest => r = s
          /\ \E r \in f_panel'.reloads : r.newest /\ ~r.read
      BY <2>0, <3>1, <3>2, ReloadBegins
    <3> QED BY <3>3, Announced
  <2> QED BY <2>1, <2>2
<1>8. Profiles!OthersKept'
  BY <1>1 DEF Profiles!ProfilesInv, Profiles!OthersKept
<1>9. Profiles!TypeOK'
  BY <1>1, <1>4, <1>5, <1>7 DEF Profiles!ProfilesInv, Profiles!TypeOK
<1> QED BY <1>6, <1>7, <1>8, <1>9 DEF Profiles!ProfilesInv

\* A reload is read: what is in its reload changes, and this browser's copy.
LEMMA LoadStep ==
    ASSUME Profiles!ProfilesInv, Profiles!panelReads \/ Profiles!shellReads
    PROVE  Profiles!ProfilesInv'
<1>1. ViewOK(f_panel) /\ ViewOK(f_shell)
  BY DEF Profiles!ProfilesInv, Profiles!TypeOK, ViewOK
<1>3. /\ f_account' = f_account /\ f_op' = f_op /\ f_version' = f_version /\ f_made' = f_made /\ f_overwritten' = f_overwritten
      /\ f_crossed' = f_crossed
  BY DEF Profiles!panelReads, Profiles!shellReads, Profiles!loadActive
<1>4. f_cache' \in Profiles!Documents /\ f_stale' \in BOOLEAN /\ (f_stale' = f_stale \/ f_stale' = TRUE)
  <2>1. f_cache \in Profiles!Documents /\ f_stale \in BOOLEAN
    BY DEF Profiles!ProfilesInv, Profiles!TypeOK
  <2>2. f_cache' = f_cache \/ f_cache' = [f_cache EXCEPT !.list = f_account.list]
    BY DEF Profiles!panelReads, Profiles!shellReads, Profiles!loadActive
  <2>3. f_cache' \in Profiles!Documents
    BY <2>1, <2>2, Settings DEF Profiles!Documents
  <2> QED BY <2>1, <2>3 DEF Profiles!panelReads, Profiles!shellReads, Profiles!loadActive
<1>5. Profiles!OthersKept' /\ Profiles!SelectionFollows'
  <2>1. \A l \in Profiles!Lanes : \A id : (Profiles!At(l, "check", id) => Profiles!At(l, "check", id)') /\ (Profiles!At(l, "select", id) => Profiles!At(l, "select", id)')
    BY <1>3 DEF Profiles!At
  <2> QED BY <1>3, <1>4, <2>1 DEF Profiles!ProfilesInv, Profiles!OthersKept, Profiles!SelectionFollows
<1>6. CASE Profiles!panelReads
  <2>1. PICK r \in f_panel.reloads :
           \/ /\ f_panel' = FoundIn(f_panel, r, Profiles!Effective(f_account.active, f_account.list))
              /\ f_stale' = f_stale
           \/ /\ f_panel' = FoundIn(f_panel, r, Profiles!Effective(f_cache.active, f_cache.list))
              /\ f_stale' = TRUE
    BY <1>6 DEF Profiles!panelReads, Profiles!loadActive, FoundIn
  <2>2. f_shell' = f_shell
    BY <1>6 DEF Profiles!panelReads
  <2>3. CASE f_panel' = FoundIn(f_panel, r, Profiles!Effective(f_account.active, f_account.list))
             /\ f_stale' = f_stale
    <3> DEFINE c == Profiles!Effective(f_account.active, f_account.list)
    <3>1. c \in Profiles!Choices
      BY Settings
    <3>2. f_panel' = FoundIn(f_panel, r, c)
      BY <2>3
    <3> HIDE DEF c
    <3>3. /\ ViewOK(f_panel') /\ f_panel'.selected = f_panel.selected
          /\ \A a \in f_panel.reloads : a # r => a \in f_panel'.reloads
          /\ r.newest => \E a \in f_panel'.reloads : a.newest /\ a.found = c
          /\ (\A a \in f_panel.reloads : ~a.newest) => (\A a \in f_panel'.reloads : ~a.newest)
      BY <1>1, <3>1, <3>2, ReloadRead
    <3>4. Profiles!PanelFollows'
      <4> SUFFICES ASSUME ~f_stale', ~Profiles!Deleting'
                   PROVE  \/ \E a \in f_panel'.reloads : a.newest /\ (~a.read \/ a.found = c)
                          \/ (\A a \in f_panel'.reloads : ~a.newest) /\ f_panel'.selected = c
        BY <1>3 DEF Profiles!PanelFollows, c
      <4>1. \/ \E a \in f_panel.reloads : a.newest /\ (~a.read \/ a.found = c)
            \/ (\A a \in f_panel.reloads : ~a.newest) /\ f_panel.selected = c
        BY <1>3, <2>3 DEF Profiles!ProfilesInv, Profiles!PanelFollows, Profiles!Deleting, c
      <4>2. ASSUME NEW a \in f_panel.reloads, a.newest, ~a.read \/ a.found = c
            PROVE  \E b \in f_panel'.reloads : b.newest /\ (~b.read \/ b.found = c)
        BY <3>3, <4>2
      <4> QED BY <3>3, <4>1, <4>2
    <3>5. Profiles!TypeOK'
      BY <1>1, <1>3, <1>4, <2>2, <3>3 DEF Profiles!ProfilesInv, Profiles!TypeOK, ViewOK
    <3> QED BY <1>5, <3>4, <3>5 DEF Profiles!ProfilesInv
  <2>4. CASE f_panel' = FoundIn(f_panel, r, Profiles!Effective(f_cache.active, f_cache.list))
             /\ f_stale' = TRUE
    <3> DEFINE c == Profiles!Effective(f_cache.active, f_cache.list)
    <3>1. c \in Profiles!Choices
      BY Settings
    <3>2. f_panel' = FoundIn(f_panel, r, c)
      BY <2>4
    <3> HIDE DEF c
    <3>3. ViewOK(f_panel')
      BY <1>1, <3>1, <3>2, ReloadRead
    <3>4. Profiles!TypeOK'
      BY <1>1, <1>3, <1>4, <2>2, <3>3 DEF Profiles!ProfilesInv, Profiles!TypeOK, ViewOK
    <3> QED BY <1>5, <2>4, <3>4, Stale DEF Profiles!ProfilesInv
  <2> QED BY <2>1, <2>3, <2>4
<1>7. CASE Profiles!shellReads
  <2>1. PICK r \in f_shell.reloads, c \in Profiles!Choices :
           f_shell' = FoundIn(f_shell, r, c)
    BY <1>7, Settings DEF Profiles!shellReads, Profiles!loadActive, FoundIn
  <2>2. f_panel' = f_panel
    BY <1>7 DEF Profiles!shellReads
  <2>3. ViewOK(f_shell')
    BY <1>1, <2>1, ReloadRead
  <2>4. Profiles!TypeOK'
    BY <1>1, <1>3, <1>4, <2>2, <2>3 DEF Profiles!ProfilesInv, Profiles!TypeOK, ViewOK
  <2>5. Profiles!PanelFollows'
    <3>1. CASE f_stale' = f_stale
      BY <1>3, <2>2, <3>1, SameShown DEF Profiles!ProfilesInv
    <3>2. CASE f_stale' = TRUE
      BY <3>2, Stale
    <3> QED BY <1>4, <3>1, <3>2
  <2> QED BY <1>5, <2>4, <2>5 DEF Profiles!ProfilesInv
<1> QED BY <1>6, <1>7

LEMMA ReloadHolds ==
    ASSUME Profiles!ProfilesInv, Profiles!reload \/ Profiles!reloadProfiles
    PROVE  Profiles!ProfilesInv'
<1> DEFINE View(v) == v \in [selected : Profiles!Choices, reloads : SUBSET Profiles!Reloads]
           Unique(v) == \A r, s \in v.reloads : r.newest /\ s.newest => r = s
<1>1. View(f_panel) /\ Unique(f_panel) /\ View(f_shell) /\ Unique(f_shell)
  BY DEF Profiles!ProfilesInv, Profiles!TypeOK
<1>2. /\ f_account' = f_account /\ f_op' = f_op /\ f_version' = f_version /\ f_made' = f_made /\ f_overwritten' = f_overwritten
      /\ f_crossed' = f_crossed /\ f_stale' = f_stale /\ f_cache' = f_cache
  BY DEF Profiles!reload, Profiles!reloadProfiles, Profiles!hist
<1>3. Profiles!OthersKept' /\ Profiles!SelectionFollows'
  <2>1. \A l \in Profiles!Lanes : \A id : (Profiles!At(l, "check", id) => Profiles!At(l, "check", id)') /\ (Profiles!At(l, "select", id) => Profiles!At(l, "select", id)')
    BY <1>2 DEF Profiles!At
  <2> QED BY <1>2, <2>1 DEF Profiles!ProfilesInv, Profiles!OthersKept, Profiles!SelectionFollows
<1>4. CASE Profiles!reload
  <2>1. PICK r \in f_panel.reloads :
           /\ r.read /\ f_shell' = f_shell
           /\ f_panel' = [f_panel EXCEPT !.reloads = @ \ {r}, !.selected = IF r.newest THEN r.found ELSE @]
    BY <1>4 DEF Profiles!reload
  <2>2. r.found \in Profiles!Choices
    BY <1>1 DEF Profiles!Reloads
  <2>3. /\ View(f_panel') /\ f_panel'.reloads = f_panel.reloads \ {r}
        /\ f_panel'.selected = IF r.newest THEN r.found ELSE f_panel.selected
    BY <1>1, <2>1, <2>2
  <2>4. Unique(f_panel')
    BY <1>1, <2>3
  <2>5. Profiles!TypeOK'
    BY <1>1, <1>2, <2>1, <2>3, <2>4 DEF Profiles!ProfilesInv, Profiles!TypeOK
  <2>6. Profiles!PanelFollows'
    <3> DEFINE c == Profiles!Effective(f_account.active, f_account.list)
    <3> SUFFICES ASSUME ~f_stale, ~Profiles!Deleting
                 PROVE  \/ \E a \in f_panel'.reloads : a.newest /\ (~a.read \/ a.found = c)
                        \/ (\A a \in f_panel'.reloads : ~a.newest) /\ f_panel'.selected = c
      BY <1>2 DEF Profiles!PanelFollows, Profiles!Deleting
    <3>1. \/ \E a \in f_panel.reloads : a.newest /\ (~a.read \/ a.found = c)
          \/ (\A a \in f_panel.reloads : ~a.newest) /\ f_panel.selected = c
      BY DEF Profiles!ProfilesInv, Profiles!PanelFollows
    <3> HIDE DEF c
    <3>2. CASE r.newest
      BY <1>1, <2>1, <2>3, <3>1, <3>2
    <3>3. CASE ~r.newest
      BY <2>3, <3>1, <3>3
    <3> QED BY <3>2, <3>3
  <2> QED BY <1>3, <2>5, <2>6 DEF Profiles!ProfilesInv
<1>5. CASE Profiles!reloadProfiles
  <2>1. PICK r \in f_shell.reloads :
           f_panel' = f_panel /\ f_shell' = [f_shell EXCEPT !.reloads = @ \ {r}, !.selected = r.found]
    BY <1>5 DEF Profiles!reloadProfiles
  <2>2. r.found \in Profiles!Choices
    BY <1>1 DEF Profiles!Reloads
  <2>3. View(f_shell') /\ Unique(f_shell')
    BY <1>1, <2>1, <2>2
  <2>4. Profiles!TypeOK'
    BY <1>1, <1>2, <2>1, <2>3 DEF Profiles!ProfilesInv, Profiles!TypeOK
  <2> QED BY <1>2, <1>3, <2>1, <2>4, SameShown DEF Profiles!ProfilesInv
<1> QED BY <1>4, <1>5

LEMMA ForeignStep ==
    ASSUME Profiles!ProfilesInv, Profiles!Foreign
    PROVE  Profiles!ProfilesInv'
<1>1. /\ f_stale' = TRUE /\ f_cache' = f_cache /\ f_op' = f_op /\ f_panel' = f_panel /\ f_shell' = f_shell /\ f_crossed' = f_crossed
  BY DEF Profiles!Foreign
<1>2. /\ f_account \in Profiles!Documents /\ f_made \in Profiles!Lists /\ f_overwritten \subseteq Profile /\ f_version \in 0..MaxProfiles
      /\ MaxProfiles \in Nat /\ f_account.list \in Profiles!Lists /\ f_account.active \in Profiles!Choices /\ None \in Profiles!Choices
  BY Settings DEF Profiles!ProfilesInv, Profiles!TypeOK, Profiles!Choices
<1>3. /\ f_account' \in Profiles!Documents /\ f_made' \in Profiles!Lists /\ f_overwritten' \subseteq Profile /\ f_version' \in 0..MaxProfiles
      /\ Profiles!OthersKept'
  <2>1. ASSUME NEW id \in Profile, NEW v \in 0..MaxProfiles,
               f_account'.list = [f_account.list EXCEPT ![id] = v],
               f_made' = [f_made EXCEPT ![id] = v], f_overwritten' = f_overwritten \ {id}
        PROVE  f_made' \in Profiles!Lists /\ f_overwritten' \subseteq Profile /\ Profiles!OthersKept'
    <3>1. f_account'.list[id] = f_made'[id]
      BY <1>2, <2>1 DEF Profiles!Lists
    <3>2. \A p \in Profile : p # id => f_account'.list[p] = f_account.list[p] /\ f_made'[p] = f_made[p]
                                     /\ (p \in f_overwritten' <=> p \in f_overwritten)
      BY <1>2, <2>1 DEF Profiles!Lists
    <3>3. Profiles!OthersKept'
      BY <3>1, <3>2 DEF Profiles!ProfilesInv, Profiles!OthersKept
    <3> QED BY <1>2, <2>1, <3>3 DEF Profiles!Lists
  <2>2. ASSUME NEW id \in Profile, f_version < MaxProfiles, f_version' = f_version + 1,
               f_account' = [f_account EXCEPT !.list[id] = f_version'], f_made' = [f_made EXCEPT ![id] = f_version'],
               f_overwritten' = f_overwritten \ {id}
        PROVE  /\ f_account' \in Profiles!Documents /\ f_made' \in Profiles!Lists /\ f_overwritten' \subseteq Profile
               /\ f_version' \in 0..MaxProfiles /\ Profiles!OthersKept'
    <3>1. f_version' \in 0..MaxProfiles
      BY <1>2, <2>2
    <3>2. [f_account.list EXCEPT ![id] = f_version'] \in Profiles!Lists
      BY <1>2, <3>1 DEF Profiles!Lists
    <3>3. f_account' = [f_account EXCEPT !.list = [f_account.list EXCEPT ![id] = f_version']]
      BY <2>2
    <3>4. f_account' \in Profiles!Documents /\ f_account'.list = [f_account.list EXCEPT ![id] = f_version']
      BY <1>2, <3>2, <3>3 DEF Profiles!Documents
    <3> QED BY <2>1, <2>2, <3>1, <3>4
  <2>3. ASSUME NEW id \in Profile, f_version' = f_version,
               f_account' = [list |-> [f_account.list EXCEPT ![id] = 0],
                           active |-> IF f_account.active = id THEN None ELSE f_account.active],
               f_made' = [f_made EXCEPT ![id] = 0], f_overwritten' = f_overwritten \ {id}
        PROVE  /\ f_account' \in Profiles!Documents /\ f_made' \in Profiles!Lists /\ f_overwritten' \subseteq Profile
               /\ f_version' \in 0..MaxProfiles /\ Profiles!OthersKept'
    <3>1. 0 \in 0..MaxProfiles
      BY <1>2
    <3>2. [f_account.list EXCEPT ![id] = 0] \in Profiles!Lists
      BY <1>2, <3>1 DEF Profiles!Lists
    <3>3. f_account' \in Profiles!Documents /\ f_account'.list = [f_account.list EXCEPT ![id] = 0]
      BY <1>2, <2>3, <3>2 DEF Profiles!Documents
    <3> QED BY <1>2, <2>1, <2>3, <3>1, <3>3
  <2>4. ASSUME NEW id \in Profile, f_account' = [f_account EXCEPT !.active = id],
               f_version' = f_version, f_made' = f_made, f_overwritten' = f_overwritten
        PROVE  /\ f_account' \in Profiles!Documents /\ f_made' \in Profiles!Lists /\ f_overwritten' \subseteq Profile
               /\ f_version' \in 0..MaxProfiles /\ Profiles!OthersKept'
    <3>1. f_account' \in Profiles!Documents /\ f_account'.list = f_account.list
      BY <1>2, <2>4 DEF Profiles!Documents, Profiles!Choices
    <3> QED BY <1>2, <2>4, <3>1 DEF Profiles!ProfilesInv, Profiles!OthersKept
  <2> QED BY <2>2, <2>3, <2>4 DEF Profiles!Foreign
<1>4. Profiles!TypeOK'
  BY <1>1, <1>3 DEF Profiles!ProfilesInv, Profiles!TypeOK
<1> QED BY <1>1, <1>3, <1>4, Stale DEF Profiles!ProfilesInv

LEMMA ProfilesStart ==
    ASSUME Profiles!Init
    PROVE  Profiles!ProfilesInv
<1>1. Profiles!Nothing \in Profiles!Lists /\ None \in Profiles!Choices /\ 0 \in 0..MaxProfiles
  BY AccessAssumption DEF Profiles!Nothing, Profiles!Lists, Profiles!Choices
<1>2. f_account \in Profiles!Documents /\ f_cache = f_account /\ f_account.active = None /\ f_account.list = Profiles!Nothing
  BY <1>1 DEF Profiles!Init, Profiles!Documents
<1>3. f_op \in [Profiles!Lanes -> Profiles!Operations]
  BY DEF Profiles!Init, Profiles!Operations
<1>4. \A view \in {f_panel, f_shell} :
         /\ view \in [selected : Profiles!Choices, reloads : SUBSET Profiles!Reloads]
         /\ \A r, s \in view.reloads : r.newest /\ s.newest => r = s
  BY <1>1 DEF Profiles!Init
<1>5. Profiles!TypeOK
  BY <1>1, <1>2, <1>3, <1>4 DEF Profiles!Init, Profiles!TypeOK
<1>6. Profiles!OthersKept /\ Profiles!SelectionFollows
  BY <1>2 DEF Profiles!Init, Profiles!OthersKept, Profiles!SelectionFollows
<1>7. Profiles!PanelFollows
  <2>1. Profiles!Effective(f_account.active, f_account.list) = None
    BY <1>2 DEF Profiles!Effective
  <2> QED BY <2>1 DEF Profiles!Init, Profiles!PanelFollows
<1> QED BY <1>5, <1>6, <1>7 DEF Profiles!ProfilesInv

LEMMA ProfilesStep ==
    ASSUME Profiles!ProfilesInv, Profiles!Next \/ UNCHANGED Profiles!vars
    PROVE  Profiles!ProfilesInv'
<1>1. CASE Profiles!Next
  BY <1>1, UsersStep, ListedStep, ProfileSaved, PickedStep, SelectStep, EraseStep, DeleteStep, LoadStep, ReloadHolds,
     ForeignStep DEF Profiles!Next, Profiles!Step
<1>2. CASE UNCHANGED Profiles!vars
  <2>1. /\ f_account' = f_account /\ f_op' = f_op /\ f_version' = f_version /\ f_made' = f_made /\ f_overwritten' = f_overwritten
        /\ f_crossed' = f_crossed /\ f_stale' = f_stale /\ f_cache' = f_cache /\ f_panel' = f_panel /\ f_shell' = f_shell
    BY <1>2 DEF Profiles!vars, Profiles!hist
  <2>2. Profiles!TypeOK' /\ Profiles!OthersKept'
    BY <2>1 DEF Profiles!ProfilesInv, Profiles!TypeOK, Profiles!OthersKept
  <2>3. Profiles!SelectionFollows'
    <3>1. \A l \in Profiles!Lanes : \A id : (Profiles!At(l, "check", id) => Profiles!At(l, "check", id)') /\ (Profiles!At(l, "select", id) => Profiles!At(l, "select", id)')
      BY <2>1 DEF Profiles!At
    <3> QED BY <2>1, <3>1 DEF Profiles!ProfilesInv, Profiles!SelectionFollows
  <2> QED BY <2>1, <2>2, <2>3, SameShown DEF Profiles!ProfilesInv
<1> QED BY <1>1, <1>2

LEMMA ProfilesHonest ==
    ASSUME Profiles!ProfilesInv
    PROVE  Profiles!SelectionExists /\ Profiles!PanelCurrent
<1>1. Profiles!SelectionExists
  <2>1. \A l \in Profiles!Lanes : \A id : Profiles!At(l, "check", id) \/ Profiles!At(l, "select", id) => Profiles!Deleting
    BY DEF Profiles!At, Profiles!Deleting
  <2> QED BY <2>1 DEF Profiles!ProfilesInv, Profiles!SelectionFollows, Profiles!SelectionExists
<1>2. Profiles!PanelCurrent
  <2>1. Profiles!Settled(f_panel) => ~Profiles!Deleting /\ ~f_stale /\ f_panel.reloads = {}
    BY DEF Profiles!Settled, Profiles!Deleting, Profiles!Idle
  <2> QED BY <2>1 DEF Profiles!ProfilesInv, Profiles!PanelFollows, Profiles!PanelCurrent
<1> QED BY <1>1, <1>2

-----------------------------------------------------------------------------
(* The page of clients (ClientManagement).                                 *)

\* What the server has approved and revoked it does not take back.
Grown ==
  /\ \A e \in Enrollment : g_server.enrollments[e] = "approved" => g_server'.enrollments[e] = "approved"
  /\ \A c \in Client : g_server.clients[c] = "revoked" => g_server'.clients[c] = "revoked"

\* The keys of requests.
LEMMA KeysOf ==
    ASSUME Management!TypeOK, Management!RequestsKnown, NEW r \in g_wire
    PROVE  /\ r \in Management!Requests /\ Management!Keys(r) \subseteq Management!Key /\ r.key \in Management!Keys(r) /\ r.key \in Management!Key
           /\ r.id \in 1..MaxRequests /\ r.id # 0 /\ r.id # MaxRequests + 1
           /\ \A e \in Enrollment : e \in Management!Keys(r) => r.kind = "approve" /\ r.key = e
           /\ \A c \in Client : c \in Management!Keys(r) => (r.kind = "approve" /\ r.related = c) \/ (r.kind = "revoke" /\ r.key = c)
<1>1. r \in Management!Requests /\ r.id \in 1..MaxRequests /\ r.key \in Management!Key /\ r.related \in Client \cup {NoTarget}
      /\ r.kind \in {"approve", "revoke"}
  BY DEF Management!TypeOK, Management!Requests
<1>2. NoTarget \notin Management!Key /\ Enrollment \cap Client = {} /\ MaxRequests \in Nat
  BY AccessAssumption DEF Management!Key
<1>3. IF r.kind = "approve" THEN r.key \in Enrollment ELSE r.key \in Client /\ r.related = NoTarget
  BY DEF Management!RequestsKnown
<1>4. Management!Keys(r) = {r.key, r.related} \ {NoTarget} /\ Management!Key = Enrollment \cup Client
  BY DEF Management!Keys, Management!Key
<1>5. Management!Keys(r) \subseteq Management!Key /\ r.key \in Management!Keys(r)
  BY <1>1, <1>2, <1>4
<1>6. r.id # 0 /\ r.id # MaxRequests + 1
  BY <1>1, <1>2
<1>7. \A e \in Enrollment : e \in Management!Keys(r) => r.kind = "approve" /\ r.key = e
  BY <1>1, <1>2, <1>3, <1>4
<1>8. \A c \in Client : c \in Management!Keys(r) => (r.kind = "approve" /\ r.related = c) \/ (r.kind = "revoke" /\ r.key = c)
  BY <1>1, <1>2, <1>3, <1>4
<1> QED BY <1>1, <1>5, <1>6, <1>7, <1>8

\* Who owns a key of a request the page waits for.
LEMMA Freeing ==
    ASSUME Management!TypeOK, Management!RequestsKnown, Management!KeysOwned, NEW r \in g_wire, r.watched
    PROVE  /\ \A k \in Management!Key : g_owner[k] = r.id <=> k \in Management!Keys(r)
           /\ Management!Freed(r) = [x \in Management!Key |-> IF x \in Management!Keys(r) THEN 0 ELSE g_owner[x]]
<1>1. \A k \in Management!Keys(r) : g_owner[k] = r.id
  BY DEF Management!KeysOwned
<1>2. ASSUME NEW k \in Management!Key, g_owner[k] = r.id
      PROVE  k \in Management!Keys(r)
  <2>1. PICK q \in g_wire : q.id = g_owner[k] /\ q.watched /\ k \in Management!Keys(q)
    BY <1>2, KeysOf DEF Management!KeysOwned
  <2>2. q = r
    BY <1>2, <2>1 DEF Management!RequestsKnown
  <2> QED BY <2>1, <2>2
<1>3. Management!Keys(r) \subseteq Management!Key
  BY KeysOf
<1> QED BY <1>1, <1>2, <1>3 DEF Management!Freed

\* A locked key takes no new request.
LEMMA LockedBlocked ==
    ASSUME Management!KeysOwned, NEW k \in Management!Key, Management!Locked(k)
    PROVE  Management!blocked(k)
  BY DEF Management!KeysOwned, Management!Locked, Management!blocked

\* What a request may still do, when the server grows.
LEMMA SpentStays ==
    ASSUME Management!TypeOK, Management!RequestsKnown, Grown, NEW r \in g_wire, Management!Spent(r)
    PROVE  Management!Spent(r)'
<1>1. /\ r.kind \in {"approve", "revoke"} /\ r.related \in Client \cup {NoTarget}
      /\ IF r.kind = "approve" THEN r.key \in Enrollment ELSE r.key \in Client
  BY DEF Management!TypeOK, Management!Requests, Management!RequestsKnown
<1> QED BY <1>1 DEF Management!Spent, Grown

\* The lists, when the server stays as it is.
LEMMA Same ==
    ASSUME g_server' = g_server
    PROVE  Grown /\ \A r : (Management!Spent(r)' <=> Management!Spent(r)) /\ (Management!Open(r)' <=> Management!Open(r))
  BY DEF Grown, Management!Spent, Management!Open

\* A request is sent.
LEMMA RunHolds ==
    ASSUME Management!ManagementInv, NEW k \in Management!Key, NEW related \in Client \cup {NoTarget}, NEW kind \in {"approve", "revoke"},
           Management!Run(k, related, kind),
           IF kind = "approve"
           THEN /\ k \in Enrollment /\ g_shown.enrollments[k] = "pending"
                /\ g_attempts' = [g_attempts EXCEPT ![k] = related]
           ELSE k \in Client /\ related = NoTarget /\ g_attempts' = g_attempts
    PROVE  Management!ManagementInv'
<1> DEFINE r == [id |-> g_acts + 1, key |-> k, related |-> related, kind |-> kind,
                 at |-> "sent", watched |-> TRUE]
<1>1. /\ g_acts < MaxRequests /\ g_acts' = g_acts + 1
      /\ \A x \in Management!Keys(r) : ~Management!blocked(x)
      /\ g_wire' = g_wire \cup {r}
      /\ g_owner' = [x \in Management!Key |-> IF x \in Management!Keys(r) THEN r.id ELSE g_owner[x]]
      /\ g_phase' = [g_phase EXCEPT ![k] = "pending"]
      /\ g_reads' = [s \in Management!Section |-> Management!NoRead]
      /\ g_server' = g_server /\ g_shown' = g_shown /\ g_checking' = g_checking /\ g_confirmed' = g_confirmed /\ g_late' = g_late
  BY DEF Management!Run, Management!cancelReads
<1>2. /\ r.id = g_acts + 1 /\ r.key = k /\ r.related = related /\ r.kind = kind /\ r.at = "sent" /\ r.watched = TRUE
  OBVIOUS
<1>3. /\ MaxRequests \in Nat /\ g_acts \in 0..MaxRequests /\ NoTarget \notin Management!Key /\ Enrollment \cap Client = {}
      /\ k \in Management!Keys(r) /\ Management!Keys(r) \subseteq Management!Key
      /\ \A e \in Enrollment : e \in Management!Keys(r) => kind = "approve" /\ k = e
  BY <1>2, AccessAssumption DEF Management!ManagementInv, Management!TypeOK, Management!Key, Management!Keys
<1>4. r \in Management!Requests
  BY <1>1, <1>3 DEF Management!Requests
<1> HIDE DEF r
<1>5. /\ Management!TypeOK /\ Management!RequestsKnown /\ Management!KeysOwned /\ Management!OpenLocked /\ Management!AwaitedAlone /\ Management!CheckTrue /\ Management!ConfirmedKnown /\ ~g_late
  BY DEF Management!ManagementInv
<1>6. \A x \in Management!Keys(r) : g_owner[x] = 0 /\ g_phase[x] \notin {"unknown", "pending"} /\ ~Management!Locked(x)
  BY <1>1, <1>3, <1>5, LockedBlocked DEF Management!blocked, Management!KeysOwned
<1>7. /\ \A q \in g_wire : q.id # r.id /\ q.id \in 1..MaxRequests /\ q.id <= g_acts
      /\ \A q \in g_wire : q.watched => Management!Keys(q) \cap Management!Keys(r) = {}
      /\ \A q \in g_wire : Management!Open(q) => Management!Keys(q) \cap Management!Keys(r) = {}
      /\ g_checking.at # "idle" => g_checking.key \notin Management!Keys(r)
  <2>1. \A q \in g_wire : q.id \in 1..MaxRequests /\ q.id <= g_acts /\ q.id # 0
    BY <1>5, KeysOf DEF Management!RequestsKnown
  <2>2. \A q \in g_wire : q.watched => \A x \in Management!Keys(q) : g_owner[x] = q.id
    BY <1>5 DEF Management!KeysOwned
  <2>3. \A q \in g_wire : Management!Open(q) => \A x \in Management!Keys(q) : Management!Locked(x)
    BY <1>5 DEF Management!OpenLocked
  <2>4. g_checking.at # "idle" => g_owner[g_checking.key] = MaxRequests + 1
    BY <1>5 DEF Management!KeysOwned
  <2> QED BY <1>1, <1>2, <1>3, <1>6, <2>1, <2>2, <2>3, <2>4
<1>8. Management!TypeOK'
  <2>1. g_attempts' \in [Enrollment -> Client \cup {NoTarget}]
    BY <1>5 DEF Management!TypeOK
  <2>2. g_acts' \in 0..MaxRequests /\ r.id \in 0..(MaxRequests + 1)
    BY <1>1, <1>2, <1>3
  <2>3. g_reads' \in [Management!Section -> [at : {"idle", "asked", "read"}, copy : Management!Lists]]
    BY <1>1 DEF Management!NoRead, Management!Fresh, Management!Lists
  <2>4. g_phase' \in [Management!Key -> {"none", "pending", "unknown", "conflict"}] /\ g_owner' \in [Management!Key -> 0..(MaxRequests + 1)]
    BY <1>1, <1>5, <2>2 DEF Management!TypeOK
  <2> QED BY <1>1, <1>4, <1>5, <2>1, <2>2, <2>3, <2>4 DEF Management!TypeOK
<1>9. Management!RequestsKnown'
  <2>1. ASSUME NEW q \in g_wire, q.kind = "approve", q.watched
        PROVE  g_attempts'[q.key] = q.related
    <3>1. q.key \in Enrollment /\ q.key \in Management!Keys(q) /\ g_attempts[q.key] = q.related
      BY <1>5, <2>1, KeysOf DEF Management!RequestsKnown
    <3>2. q.key # k
      BY <1>3, <1>7, <2>1, <3>1
    <3> QED BY <1>5, <3>1, <3>2 DEF Management!TypeOK
  <2>2. kind = "approve" => g_attempts'[k] = related
    BY <1>5 DEF Management!TypeOK
  <2>3. \A q, z \in g_wire' : q.id = z.id => q = z
    BY <1>1, <1>5, <1>7 DEF Management!RequestsKnown
  <2>4. ASSUME NEW q \in g_wire
        PROVE  /\ q.id <= g_acts' /\ (q.watched \/ q.at = "sent")
               /\ IF q.kind = "approve" THEN q.key \in Enrollment ELSE q.key \in Client /\ q.related = NoTarget
               /\ (q.kind = "approve" /\ q.at = "done") => g_server'.enrollments[q.key] = "approved"
    <3>1. q.id <= g_acts /\ q.id \in 1..MaxRequests
      BY <1>7
    <3>2. q.id <= g_acts'
      BY <1>1, <1>3, <3>1
    <3> QED BY <1>1, <1>5, <3>2 DEF Management!RequestsKnown
  <2>5. /\ r.id <= g_acts' /\ r.watched /\ r.at # "done"
        /\ IF r.kind = "approve" THEN r.key \in Enrollment ELSE r.key \in Client /\ r.related = NoTarget
        /\ (r.kind = "approve" /\ r.watched) => g_attempts'[r.key] = r.related
    BY <1>1, <1>2, <1>3, <2>2
  <2> QED BY <1>1, <2>1, <2>3, <2>4, <2>5 DEF Management!RequestsKnown
<1>10. Management!KeysOwned'
  <2>1. \A x \in Management!Key : g_owner'[x] = IF x \in Management!Keys(r) THEN r.id ELSE g_owner[x]
    BY <1>1
  <2>2. \A x \in Management!Key : g_phase'[x] = IF x = k THEN "pending" ELSE g_phase[x]
    BY <1>1, <1>5 DEF Management!TypeOK
  <2>3. r.id # 0 /\ r \in g_wire' /\ r.watched
    BY <1>1, <1>2, <1>3
  <2>4. \A x \in Management!Key : g_owner'[x] \in 1..MaxRequests => \E q \in g_wire' : q.id = g_owner'[x] /\ q.watched /\ x \in Management!Keys(q)
    <3> SUFFICES ASSUME NEW x \in Management!Key, g_owner'[x] \in 1..MaxRequests
                 PROVE  \E q \in g_wire' : q.id = g_owner'[x] /\ q.watched /\ x \in Management!Keys(q)
      OBVIOUS
    <3>1. CASE x \in Management!Keys(r)
      BY <2>1, <2>3, <3>1
    <3>2. CASE x \notin Management!Keys(r)
      BY <1>1, <1>5, <2>1, <3>2 DEF Management!KeysOwned
    <3> QED BY <3>1, <3>2
  <2>5. \A q \in g_wire' : q.watched => \A x \in Management!Keys(q) : g_owner'[x] = q.id
    <3>1. ASSUME NEW q \in g_wire, q.watched, NEW x \in Management!Keys(q)
          PROVE  g_owner'[x] = q.id
      <4>1. x \in Management!Key /\ x \notin Management!Keys(r) /\ g_owner[x] = q.id
        BY <1>5, <1>7, <3>1, KeysOf DEF Management!KeysOwned
      <4> QED BY <2>1, <4>1
    <3> QED BY <1>1, <1>3, <2>1, <3>1
  <2>6. \A x \in Management!Key : g_phase'[x] = "pending" => g_owner'[x] # 0
    BY <1>3, <1>5, <2>1, <2>2, <2>3 DEF Management!KeysOwned
  <2>7. g_checking'.at # "idle" =>
          g_checking'.key \in Management!Key /\ g_owner'[g_checking'.key] = MaxRequests + 1 /\ g_phase'[g_checking'.key] = "pending"
    BY <1>1, <1>3, <1>5, <1>7, <2>1, <2>2 DEF Management!KeysOwned
  <2>8. \A q \in g_wire' : (q.watched /\ q.related # NoTarget) => g_phase'[q.related] \notin {"pending", "unknown"}
    <3>1. ASSUME NEW q \in g_wire, q.watched, q.related # NoTarget
          PROVE  g_phase'[q.related] \notin {"pending", "unknown"}
      <4>1. q.related \in Management!Keys(q) /\ q.related \in Management!Key
        BY <1>5, <3>1, KeysOf DEF Management!Keys
      <4>2. q.related # k /\ g_phase[q.related] \notin {"pending", "unknown"}
        BY <1>3, <1>5, <1>7, <3>1, <4>1 DEF Management!KeysOwned
      <4> QED BY <2>2, <4>1, <4>2
    <3>2. ASSUME related # NoTarget
          PROVE  g_phase'[related] \notin {"pending", "unknown"}
      <4>1. related \in Client /\ related \in Management!Key /\ related \in Management!Keys(r)
        BY <1>2, <3>2 DEF Management!Keys, Management!Key
      <4>2. related # k
        BY <1>3, <3>2, <4>1
      <4> QED BY <1>6, <2>2, <4>1, <4>2
    <3> QED BY <1>1, <1>2, <3>1, <3>2
  <2> QED BY <2>4, <2>5, <2>6, <2>7, <2>8 DEF Management!KeysOwned
<1>11. \A x \in Management!Key : x \notin Management!Keys(r) => (Management!Locked(x)' <=> Management!Locked(x))
  BY <1>1, <1>3, <1>5 DEF Management!Locked, Management!TypeOK
<1>12. \A q \in g_wire' : Management!Open(q)' => q \in g_wire /\ Management!Open(q)
  BY <1>1, <1>2, Same DEF Management!Open
<1>13. Management!OpenLocked'
  <2> SUFFICES ASSUME NEW q \in g_wire', Management!Open(q)', NEW x \in Management!Keys(q)
               PROVE  Management!Locked(x)'
    BY DEF Management!OpenLocked
  <2>1. q \in g_wire /\ Management!Open(q) /\ x \in Management!Key /\ x \notin Management!Keys(r) /\ Management!Locked(x)
    BY <1>5, <1>7, <1>12, KeysOf DEF Management!OpenLocked
  <2> QED BY <1>11, <2>1
<1>14. \A e \in Enrollment, c \in Client : Management!Waits(e, c)' => Management!Waits(e, c)
  <2> SUFFICES ASSUME NEW e \in Enrollment, NEW c \in Client, Management!Waits(e, c)'
               PROVE  Management!Waits(e, c)
    OBVIOUS
  <2>1. e \in Management!Key /\ g_phase'[e] = IF e = k THEN "pending" ELSE g_phase[e]
    BY <1>1, <1>5 DEF Management!TypeOK, Management!Key
  <2>2. e # k
    BY <1>1, <1>3, <1>7, <2>1 DEF Management!Waits, Management!Awaited
  <2>3. g_attempts'[e] = g_attempts[e]
    BY <1>5, <2>2 DEF Management!TypeOK
  <2> QED BY <1>1, <2>1, <2>2, <2>3 DEF Management!Waits, Management!Awaited
<1>15. Management!AwaitedAlone'
  <2> SUFFICES ASSUME NEW e \in Enrollment, NEW c \in Client, Management!Waits(e, c)'
               PROVE  /\ Management!Locked(c)'
                      /\ \A q \in g_wire' : (Management!Open(q)' /\ c \in Management!Keys(q)) => q.key = e
                      /\ \A x \in Enrollment : Management!Waits(x, c)' => x = e
    BY DEF Management!AwaitedAlone
  <2>1. /\ Management!Locked(c) /\ c \in Management!Key
        /\ \A q \in g_wire : (Management!Open(q) /\ c \in Management!Keys(q)) => q.key = e
        /\ \A x \in Enrollment : Management!Waits(x, c) => x = e
    BY <1>5, <1>14 DEF Management!AwaitedAlone, Management!Key
  <2>2. c \notin Management!Keys(r)
    BY <1>6, <2>1
  <2> QED BY <1>11, <1>12, <1>14, <2>1, <2>2
<1>16. Management!CheckTrue'
  BY <1>1, <1>5 DEF Management!CheckTrue
<1>17. Management!ConfirmedKnown'
  <2> SUFFICES ASSUME NEW e \in g_confirmed
               PROVE  /\ g_phase'[e] = "none" /\ g_owner'[e] = 0
                      /\ g_shown'.enrollments[e] = "approved" /\ g_server'.enrollments[e] = "approved"
                      /\ g_reads'["enrollments"].at # "read"
    BY <1>1 DEF Management!ConfirmedKnown
  <2>1. /\ e \in Enrollment /\ e \in Management!Key /\ g_phase[e] = "none" /\ g_owner[e] = 0
        /\ g_shown.enrollments[e] = "approved" /\ g_server.enrollments[e] = "approved"
    BY <1>5 DEF Management!ConfirmedKnown, Management!TypeOK, Management!Key
  <2>2. e \notin Management!Keys(r) /\ e # k
    BY <1>3, <2>1
  <2>3. g_reads'["enrollments"].at # "read"
    BY <1>1 DEF Management!Section, Management!NoRead
  <2> QED BY <1>1, <1>5, <2>1, <2>2, <2>3 DEF Management!TypeOK
<1> QED BY <1>1, <1>5, <1>8, <1>9, <1>10, <1>13, <1>15, <1>16, <1>17 DEF Management!ManagementInv

\* A request that the page waited for ends, or is given up.
LEMMA EndHolds ==
    ASSUME Management!ManagementInv, NEW r \in g_wire, r.watched,
           g_wire \ {r} \subseteq g_wire',
           \A q \in g_wire' :
              \/ q \in g_wire \ {r}
              \/ /\ q = [r EXCEPT !.watched = FALSE] /\ r.at = "sent"
                 /\ \A x \in Management!Keys(r) : g_phase'[x] = "unknown",
           g_owner' = Management!Freed(r), g_phase' \in [Management!Key -> {"none", "pending", "unknown", "conflict"}],
           \A x \in Management!Key \ Management!Keys(r) : g_phase'[x] = g_phase[x],
           \A x \in Management!Keys(r) : g_phase'[x] # "pending",
           (\E x \in Management!Keys(r) : g_phase'[x] = "unknown") => \A x \in Management!Keys(r) : g_phase'[x] = "unknown",
           g_server' = g_server, g_checking' = g_checking, g_attempts' = g_attempts, g_late' = g_late, g_acts' = g_acts,
           g_shown' \in Management!Lists, g_reads' \in [Management!Section -> [at : {"idle", "asked", "read"}, copy : Management!Lists]],
           g_confirmed' \subseteq Enrollment, Management!ConfirmedKnown'
    PROVE  Management!ManagementInv'
<1>1. /\ Management!TypeOK /\ Management!RequestsKnown /\ Management!KeysOwned /\ Management!OpenLocked /\ Management!AwaitedAlone /\ Management!CheckTrue /\ Management!ConfirmedKnown /\ ~g_late
  BY DEF Management!ManagementInv
<1>2. /\ Management!Keys(r) \subseteq Management!Key /\ r.key \in Management!Keys(r) /\ r.id \in 1..MaxRequests /\ r.id # 0 /\ r.id # MaxRequests + 1
      /\ \A e \in Enrollment : e \in Management!Keys(r) => r.kind = "approve" /\ r.key = e
      /\ \A k \in Management!Key : g_owner[k] = r.id <=> k \in Management!Keys(r)
      /\ g_owner' = [x \in Management!Key |-> IF x \in Management!Keys(r) THEN 0 ELSE g_owner[x]]
  BY <1>1, KeysOf, Freeing
<1> DEFINE g == [r EXCEPT !.watched = FALSE]
<1>0. \A q \in g_wire' :
         \/ q \in g_wire /\ q # r
         \/ q = g /\ r.at = "sent" /\ \A x \in Management!Keys(r) : g_phase'[x] = "unknown"
  OBVIOUS
<1>a. r \in Management!Requests
  BY <1>1, KeysOf
<1>b. /\ g \in Management!Requests /\ g.id = r.id /\ g.key = r.key /\ g.related = r.related
      /\ g.kind = r.kind /\ g.at = r.at /\ g.watched = FALSE
  BY <1>a DEF Management!Requests
<1> HIDE DEF g
<1>3. /\ r \in Management!Requests /\ g \in Management!Requests /\ g.id = r.id /\ g.key = r.key /\ g.related = r.related
      /\ g.kind = r.kind /\ g.at = r.at /\ g.watched = FALSE /\ Management!Keys(g) = Management!Keys(r)
  BY <1>a, <1>b DEF Management!Keys
<1>4. \A q \in g_wire' :
         \/ q \in g_wire /\ q # r
         \/ q = g /\ r.at = "sent" /\ \A x \in Management!Keys(r) : g_phase'[x] = "unknown"
  BY <1>0
<1>5. /\ \A q \in g_wire : (q.watched /\ q # r) => Management!Keys(q) \cap Management!Keys(r) = {}
      /\ \A q \in g_wire : Management!Open(q) => Management!Keys(q) \cap Management!Keys(r) = {}
      /\ g_checking.at # "idle" => g_checking.key \in Management!Key /\ g_checking.key \notin Management!Keys(r)
      /\ \A x \in Management!Keys(r) : ~Management!Locked(x)
  <2>1. \A q \in g_wire : q.watched => \A x \in Management!Keys(q) : g_owner[x] = q.id
    BY <1>1 DEF Management!KeysOwned
  <2>2. \A q \in g_wire : q.id = r.id => q = r
    BY <1>1 DEF Management!RequestsKnown
  <2>3. \A x \in Management!Keys(r) : ~Management!Locked(x)
    BY <1>2 DEF Management!Locked
  <2>4. \A q \in g_wire : Management!Open(q) => \A x \in Management!Keys(q) : Management!Locked(x)
    BY <1>1 DEF Management!OpenLocked
  <2>5. g_checking.at # "idle" => g_checking.key \in Management!Key /\ g_owner[g_checking.key] = MaxRequests + 1
    BY <1>1 DEF Management!KeysOwned
  <2> QED BY <1>2, <2>1, <2>2, <2>3, <2>4, <2>5
<1>6. Management!TypeOK'
  <2>1. g_owner' \in [Management!Key -> 0..(MaxRequests + 1)]
    <3>1. 0 \in 0..(MaxRequests + 1)
      BY AccessAssumption
    <3> QED BY <1>1, <1>2, <3>1 DEF Management!TypeOK
  <2>2. g_wire' \subseteq Management!Requests
    BY <1>1, <1>3, <1>4 DEF Management!TypeOK
  <2> QED BY <1>1, <2>1, <2>2 DEF Management!TypeOK
<1>7. Management!RequestsKnown'
  <2>1. \A q, z \in g_wire' : q.id = z.id => q = z
    BY <1>1, <1>3, <1>4 DEF Management!RequestsKnown
  <2>2. /\ g.id <= g_acts /\ ~g.watched
        /\ IF g.kind = "approve" THEN g.key \in Enrollment ELSE g.key \in Client /\ g.related = NoTarget
    BY <1>1, <1>3 DEF Management!RequestsKnown
  <2>3. r.at = "sent" => g.at = "sent" /\ g.at # "done"
    BY <1>3
  <2> QED BY <1>1, <1>4, <2>1, <2>2, <2>3 DEF Management!RequestsKnown
<1>8. Management!KeysOwned'
  <2>1. \A k \in Management!Key : g_owner'[k] \in 1..MaxRequests =>
          \E q \in g_wire' : q.id = g_owner'[k] /\ q.watched /\ k \in Management!Keys(q)
    <3> SUFFICES ASSUME NEW k \in Management!Key, g_owner'[k] \in 1..MaxRequests
                 PROVE  \E q \in g_wire' : q.id = g_owner'[k] /\ q.watched /\ k \in Management!Keys(q)
      OBVIOUS
    <3>1. k \notin Management!Keys(r) /\ g_owner'[k] = g_owner[k]
      BY <1>2
    <3>2. PICK q \in g_wire : q.id = g_owner[k] /\ q.watched /\ k \in Management!Keys(q)
      BY <1>1, <3>1 DEF Management!KeysOwned
    <3> QED BY <3>1, <3>2
  <2>2. ASSUME NEW q \in g_wire, q.watched, q # r
        PROVE  /\ \A x \in Management!Keys(q) : g_owner'[x] = q.id
               /\ q.related # NoTarget => g_phase'[q.related] \notin {"pending", "unknown"}
    <3>1. \A x \in Management!Keys(q) : x \in Management!Key /\ x \notin Management!Keys(r) /\ g_owner[x] = q.id
      BY <1>1, <1>5, <2>2, KeysOf DEF Management!KeysOwned
    <3>2. q.related # NoTarget => q.related \in Management!Keys(q) /\ g_phase[q.related] \notin {"pending", "unknown"}
      BY <1>1, <2>2 DEF Management!KeysOwned, Management!Keys
    <3> QED BY <1>2, <3>1, <3>2
  <2>3. \A q \in g_wire' : q.watched => q \in g_wire /\ q # r
    BY <1>3, <1>4
  <2>4. \A k \in Management!Key : g_phase'[k] = "pending" => g_owner'[k] # 0
    BY <1>1, <1>2 DEF Management!KeysOwned
  <2>5. g_checking'.at # "idle" =>
          g_checking'.key \in Management!Key /\ g_owner'[g_checking'.key] = MaxRequests + 1 /\ g_phase'[g_checking'.key] = "pending"
    BY <1>1, <1>2, <1>5 DEF Management!KeysOwned
  <2> QED BY <2>1, <2>2, <2>3, <2>4, <2>5 DEF Management!KeysOwned
<1>9. \A x \in Management!Key : x \notin Management!Keys(r) => (Management!Locked(x)' <=> Management!Locked(x))
  BY <1>1, <1>2 DEF Management!Locked
<1>10. \A q \in g_wire' : Management!Open(q)' => (q \in g_wire /\ q # r /\ Management!Open(q)) \/ (q = g /\ \A x \in Management!Keys(r) : g_phase'[x] = "unknown")
  BY <1>4, Same
<1>11. ASSUME \A x \in Management!Keys(r) : g_phase'[x] = "unknown"
       PROVE  \A x \in Management!Keys(r) : Management!Locked(x)'
  BY <1>2, <1>11 DEF Management!Locked
<1>12. Management!OpenLocked'
  <2> SUFFICES ASSUME NEW q \in g_wire', Management!Open(q)', NEW x \in Management!Keys(q)
               PROVE  Management!Locked(x)'
    BY DEF Management!OpenLocked
  <2>1. CASE q \in g_wire /\ q # r /\ Management!Open(q)
    <3>1. x \in Management!Key /\ x \notin Management!Keys(r) /\ Management!Locked(x)
      BY <1>1, <1>5, <2>1, KeysOf DEF Management!OpenLocked
    <3> QED BY <1>9, <3>1
  <2>2. CASE q = g /\ \A y \in Management!Keys(r) : g_phase'[y] = "unknown"
    BY <1>3, <1>11, <2>2
  <2> QED BY <1>10, <2>1, <2>2
\* An enrolment that waits for its device: as before, or the one given up.
<1>13. ASSUME NEW e \in Enrollment, NEW c \in Client, Management!Waits(e, c)'
       PROVE  \/ Management!Waits(e, c) /\ e \notin Management!Keys(r)
              \/ r.kind = "approve" /\ r.key = e /\ r.related = c /\ \A x \in Management!Keys(r) : g_phase'[x] = "unknown"
  <2>1. e \in Management!Key
    BY DEF Management!Key
  <2>2. CASE e \notin Management!Keys(r)
    BY <1>13, <2>1, <2>2 DEF Management!Waits, Management!Awaited
  <2>3. CASE e \in Management!Keys(r)
    <3>1. r.kind = "approve" /\ r.key = e
      BY <1>2, <2>3
    <3>2. g_phase'[e] = "unknown"
      BY <1>5, <1>13, <2>3 DEF Management!Waits, Management!Awaited
    <3>3. r.related = c
      BY <1>1, <1>13, <3>1 DEF Management!RequestsKnown, Management!Waits
    <3> QED BY <2>3, <3>1, <3>2, <3>3
  <2> QED BY <2>2, <2>3
<1>14. Management!AwaitedAlone'
  <2> SUFFICES ASSUME NEW e \in Enrollment, NEW c \in Client, Management!Waits(e, c)'
               PROVE  /\ Management!Locked(c)'
                      /\ \A q \in g_wire' : (Management!Open(q)' /\ c \in Management!Keys(q)) => q.key = e
                      /\ \A x \in Enrollment : Management!Waits(x, c)' => x = e
    BY DEF Management!AwaitedAlone
  <2>0. c \in Management!Key
    BY DEF Management!Key
  <2>1. CASE Management!Waits(e, c) /\ e \notin Management!Keys(r)
    <3>1. /\ Management!Locked(c) /\ c \notin Management!Keys(r)
          /\ \A q \in g_wire : (Management!Open(q) /\ c \in Management!Keys(q)) => q.key = e
          /\ \A x \in Enrollment : Management!Waits(x, c) => x = e
      BY <1>1, <1>5, <2>0, <2>1 DEF Management!AwaitedAlone
    <3>2. \A x \in Enrollment : Management!Waits(x, c)' => x = e
      <4> SUFFICES ASSUME NEW x \in Enrollment, Management!Waits(x, c)'
                   PROVE  x = e
        OBVIOUS
      <4>1. c \in Client /\ (r.related = c => c \in Management!Keys(r))
        BY AccessAssumption DEF Management!Keys
      <4> QED BY <1>13, <3>1, <4>1
    <3> QED BY <1>3, <1>9, <1>10, <2>0, <3>1, <3>2
  <2>2. CASE r.kind = "approve" /\ r.key = e /\ r.related = c /\ \A x \in Management!Keys(r) : g_phase'[x] = "unknown"
    <3>1. c \in Management!Keys(r)
      BY <2>2, AccessAssumption DEF Management!Keys
    <3>2. Management!Locked(c)'
      BY <1>11, <2>2, <3>1
    <3>3. \A q \in g_wire' : (Management!Open(q)' /\ c \in Management!Keys(q)) => q.key = e
      BY <1>3, <1>5, <1>10, <2>2, <3>1
    <3>4. \A x \in Enrollment : ~Management!Waits(x, c)
      BY <1>1, <1>5, <3>1 DEF Management!AwaitedAlone
    <3>5. \A x \in Enrollment : Management!Waits(x, c)' => x = e
      BY <1>13, <2>2, <3>4
    <3> QED BY <3>2, <3>3, <3>5
  <2> QED BY <1>13, <2>1, <2>2
<1>15. Management!CheckTrue'
  BY <1>1 DEF Management!CheckTrue
<1> QED BY <1>1, <1>6, <1>7, <1>8, <1>12, <1>14, <1>15 DEF Management!ManagementInv

LEMMA ConfirmedHolds ==
    ASSUME Management!ManagementInv, NEW r \in g_wire, Management!Confirmed(r)
    PROVE  Management!ManagementInv'
<1>1. /\ r.watched /\ r.at = "done" /\ g_wire' = g_wire \ {r} /\ g_owner' = Management!Freed(r)
      /\ g_phase' = [g_phase EXCEPT ![r.key] = "none"]
      /\ g_shown' = IF r.kind = "approve" THEN [g_shown EXCEPT !.enrollments[r.key] = "approved"]
                                        ELSE [g_shown EXCEPT !.clients[r.key] = "revoked"]
      /\ g_reads' = [s \in Management!Section |-> Management!NoRead]
      /\ g_confirmed' = g_confirmed \cup ({r.key} \cap Enrollment)
      /\ g_server' = g_server /\ g_checking' = g_checking /\ g_attempts' = g_attempts /\ g_late' = g_late /\ g_acts' = g_acts
  BY DEF Management!Confirmed, Management!cancelReads
<1>2. Management!TypeOK /\ Management!RequestsKnown /\ Management!KeysOwned /\ Management!ConfirmedKnown
  BY DEF Management!ManagementInv
<1>3. /\ Management!Keys(r) \subseteq Management!Key /\ r.key \in Management!Keys(r) /\ r.key \in Management!Key /\ r.id # 0
      /\ \A e \in Enrollment : e \in Management!Keys(r) => r.kind = "approve" /\ r.key = e
      /\ g_owner' = [x \in Management!Key |-> IF x \in Management!Keys(r) THEN 0 ELSE g_owner[x]]
      /\ \A x \in Management!Keys(r) : g_owner[x] = r.id
  BY <1>1, <1>2, KeysOf, Freeing DEF Management!KeysOwned
<1>4. /\ IF r.kind = "approve" THEN r.key \in Enrollment /\ g_server.enrollments[r.key] = "approved" ELSE r.key \in Client
  BY <1>1, <1>2 DEF Management!RequestsKnown
<1>5. /\ g_phase' \in [Management!Key -> {"none", "pending", "unknown", "conflict"}]
      /\ \A x \in Management!Key : g_phase'[x] = IF x = r.key THEN "none" ELSE g_phase[x]
  BY <1>1, <1>2 DEF Management!TypeOK
<1>6. \A x \in Management!Keys(r) : g_phase'[x] \notin {"pending", "unknown"}
  BY <1>1, <1>2, <1>3, <1>5 DEF Management!Keys, Management!KeysOwned
<1>7. /\ g_shown' \in Management!Lists
      /\ r.kind = "approve" => \A e \in Enrollment : g_shown'.enrollments[e] = IF e = r.key THEN "approved" ELSE g_shown.enrollments[e]
      /\ r.kind # "approve" => g_shown'.enrollments = g_shown.enrollments
  BY <1>1, <1>2, <1>4 DEF Management!TypeOK, Management!Lists
<1>8. g_reads' \in [Management!Section -> [at : {"idle", "asked", "read"}, copy : Management!Lists]] /\ g_reads'["enrollments"].at # "read"
  BY <1>1 DEF Management!NoRead, Management!Fresh, Management!Lists, Management!Section
<1>9. Management!ConfirmedKnown'
  <2> SUFFICES ASSUME NEW e \in g_confirmed'
               PROVE  /\ g_phase'[e] = "none" /\ g_owner'[e] = 0
                      /\ g_shown'.enrollments[e] = "approved" /\ g_server'.enrollments[e] = "approved"
    BY <1>8 DEF Management!ConfirmedKnown
  <2>1. CASE e \in g_confirmed
    <3>1. /\ e \in Enrollment /\ e \in Management!Key /\ g_phase[e] = "none" /\ g_owner[e] = 0
          /\ g_shown.enrollments[e] = "approved" /\ g_server.enrollments[e] = "approved"
      BY <1>2, <2>1 DEF Management!ConfirmedKnown, Management!TypeOK, Management!Key
    <3>2. e \notin Management!Keys(r)
      BY <1>3, <3>1
    <3> QED BY <1>1, <1>3, <1>5, <1>7, <3>1, <3>2
  <2>2. CASE e = r.key /\ e \in Enrollment
    BY <1>1, <1>3, <1>4, <1>5, <1>7, <2>2
  <2> QED BY <1>1, <2>1, <2>2
<1>10. g_confirmed' \subseteq Enrollment
  BY <1>1, <1>2 DEF Management!TypeOK
<1>11. \A x \in Management!Key \ Management!Keys(r) : g_phase'[x] = g_phase[x]
  BY <1>3, <1>5
<1> QED BY <1>1, <1>5, <1>6, <1>7, <1>8, <1>9, <1>10, <1>11, EndHolds

\* What a confirmed approval is keeps so.
LEMMA KeptConfirmed ==
    ASSUME Management!ManagementInv, g_confirmed' = g_confirmed, g_shown' = g_shown, g_reads' = g_reads, Grown,
           \A e \in Enrollment : g_phase[e] = "none" /\ g_owner[e] = 0 => g_phase'[e] = "none" /\ g_owner'[e] = 0
    PROVE  Management!ConfirmedKnown'
<1>1. \A e \in g_confirmed : e \in Enrollment
  BY DEF Management!ManagementInv, Management!TypeOK
<1> QED BY <1>1 DEF Management!ManagementInv, Management!ConfirmedKnown, Grown

LEMMA GivenUpHolds ==
    ASSUME Management!ManagementInv, NEW r \in g_wire, Management!Rejected(r) \/ Management!GivesUp(r)
    PROVE  Management!ManagementInv'
<1>1. /\ r.watched /\ g_owner' = Management!Freed(r)
      /\ g_server' = g_server /\ g_shown' = g_shown /\ g_reads' = g_reads /\ g_checking' = g_checking /\ g_attempts' = g_attempts
      /\ g_confirmed' = g_confirmed /\ g_late' = g_late /\ g_acts' = g_acts
  BY DEF Management!Rejected, Management!GivesUp, Management!memo
<1>2. Management!TypeOK /\ Management!RequestsKnown /\ Management!KeysOwned
  BY DEF Management!ManagementInv
<1>3. /\ Management!Keys(r) \subseteq Management!Key /\ r.key \in Management!Keys(r) /\ r.key \in Management!Key /\ r.id # 0
      /\ g_owner' = [x \in Management!Key |-> IF x \in Management!Keys(r) THEN 0 ELSE g_owner[x]]
      /\ \A x \in Management!Keys(r) : g_owner[x] = r.id
  BY <1>1, <1>2, KeysOf, Freeing DEF Management!KeysOwned
<1>4. /\ g_shown \in Management!Lists /\ g_reads \in [Management!Section -> [at : {"idle", "asked", "read"}, copy : Management!Lists]]
      /\ g_confirmed \subseteq Enrollment /\ g_phase \in [Management!Key -> {"none", "pending", "unknown", "conflict"}]
  BY <1>2 DEF Management!TypeOK
<1>5. ASSUME \A x \in Management!Key \ Management!Keys(r) : g_phase'[x] = g_phase[x]
      PROVE  Management!ConfirmedKnown'
  <2>1. \A e \in Enrollment : g_phase[e] = "none" /\ g_owner[e] = 0 => g_phase'[e] = "none" /\ g_owner'[e] = 0
    BY <1>3, <1>5 DEF Management!Key
  <2> QED BY <1>1, <2>1, KeptConfirmed, Same
<1>6. CASE Management!Rejected(r)
  <2>1. g_wire' = g_wire \ {r} /\ g_phase' = [g_phase EXCEPT ![r.key] = "conflict"]
    BY <1>6 DEF Management!Rejected
  <2>2. /\ g_phase' \in [Management!Key -> {"none", "pending", "unknown", "conflict"}]
        /\ \A x \in Management!Key : g_phase'[x] = IF x = r.key THEN "conflict" ELSE g_phase[x]
    BY <1>4, <2>1
  <2>3. \A x \in Management!Keys(r) : g_phase'[x] \notin {"pending", "unknown"}
    BY <1>1, <1>2, <1>3, <2>2 DEF Management!Keys, Management!KeysOwned
  <2>4. \A x \in Management!Key \ Management!Keys(r) : g_phase'[x] = g_phase[x]
    BY <1>3, <2>2
  <2> QED BY <1>1, <1>4, <1>5, <2>1, <2>2, <2>3, <2>4, EndHolds
<1>7. CASE Management!GivesUp(r)
  <2>1. /\ g_wire' = (g_wire \ {r}) \cup (IF r.at = "sent" THEN {[r EXCEPT !.watched = FALSE]} ELSE {})
        /\ g_phase' = [k \in Management!Key |-> IF k \in Management!Keys(r) THEN "unknown" ELSE g_phase[k]]
    BY <1>7 DEF Management!GivesUp
  <2>2. g_phase' \in [Management!Key -> {"none", "pending", "unknown", "conflict"}]
    BY <1>4, <2>1
  <2>3. \A x \in Management!Keys(r) : g_phase'[x] = "unknown"
    BY <1>3, <2>1
  <2>4. \A x \in Management!Key \ Management!Keys(r) : g_phase'[x] = g_phase[x]
    BY <1>3, <2>1
  <2>5. g_wire \ {r} \subseteq g_wire'
    BY <2>1
  <2>6. \A q \in g_wire' :
           \/ q \in g_wire \ {r}
           \/ /\ q = [r EXCEPT !.watched = FALSE] /\ r.at = "sent"
              /\ \A x \in Management!Keys(r) : g_phase'[x] = "unknown"
    BY <2>1, <2>3
  <2> QED BY <1>1, <1>4, <1>5, <2>2, <2>3, <2>4, <2>5, <2>6, EndHolds
<1> QED BY <1>6, <1>7

\* A read of the lists goes on.
LEMMA ReadHolds ==
    ASSUME Management!ManagementInv, Management!Reading \/ Management!ReconcileReads
    PROVE  Management!ManagementInv'
<1>1. Management!TypeOK /\ Management!RequestsKnown /\ Management!KeysOwned /\ Management!OpenLocked /\ Management!AwaitedAlone /\ Management!CheckTrue /\ Management!ConfirmedKnown /\ ~g_late
  BY DEF Management!ManagementInv
<1>2. /\ g_server' = g_server /\ g_phase' = g_phase /\ g_owner' = g_owner /\ g_wire' = g_wire /\ g_attempts' = g_attempts
      /\ g_confirmed' = g_confirmed /\ g_late' = g_late /\ g_acts' = g_acts
  BY DEF Management!Reading, Management!Refresh, Management!SectionReads, Management!SectionApplies, Management!ReconcileReads, Management!memo, Management!page
<1>3. /\ g_checking' \in [key : Management!Key \cup {NoTarget}, at : {"idle", "asked", "read"}, copy : Management!Lists]
      /\ g_checking'.key = g_checking.key /\ (g_checking'.at # "idle" <=> g_checking.at # "idle")
      /\ Management!CheckTrue'
  <2>1. CASE g_checking' = g_checking
    BY <1>1, <1>2, <2>1 DEF Management!TypeOK, Management!CheckTrue
  <2>2. CASE Management!ReconcileReads
    <3>1. g_checking.at = "asked" /\ g_checking' = [g_checking EXCEPT !.at = "read", !.copy = g_server]
      BY <2>2 DEF Management!ReconcileReads
    <3>2. g_checking'.at = "read" /\ g_checking'.copy = g_server /\ g_checking'.key = g_checking.key
          /\ g_checking' \in [key : Management!Key \cup {NoTarget}, at : {"idle", "asked", "read"}, copy : Management!Lists]
      BY <1>1, <3>1 DEF Management!TypeOK
    <3> QED BY <1>2, <3>1, <3>2 DEF Management!CheckTrue
  <2> QED BY <2>1, <2>2 DEF Management!Reading, Management!Refresh, Management!SectionReads, Management!SectionApplies
<1>4. /\ \A k : Management!Locked(k)' <=> Management!Locked(k)
      /\ \A r : Management!Open(r)' <=> Management!Open(r)
      /\ \A e, c : Management!Waits(e, c)' <=> Management!Waits(e, c)
  <2>1. \A r : Management!Open(r)' <=> Management!Open(r)
    BY <1>2, Same
  <2> QED BY <1>2, <1>3, <2>1 DEF Management!Locked, Management!Waits, Management!Awaited
<1>5. Management!OpenLocked' /\ Management!AwaitedAlone'
  BY <1>1, <1>2, <1>4 DEF Management!OpenLocked, Management!AwaitedAlone
<1>6. Management!RequestsKnown' /\ Management!KeysOwned'
  BY <1>1, <1>2, <1>3 DEF Management!RequestsKnown, Management!KeysOwned
<1>7. Management!TypeOK' /\ Management!ConfirmedKnown'
  <2>1. CASE g_shown' = g_shown /\ g_reads' = g_reads
    BY <1>1, <1>2, <1>3, <2>1 DEF Management!TypeOK, Management!ConfirmedKnown
  <2>2. CASE Management!Refresh
    <3>1. g_reads' = [s \in Management!Section |-> [Management!NoRead EXCEPT !.at = "asked"]] /\ g_shown' = g_shown
      BY <2>2 DEF Management!Refresh, Management!page
    <3>2. [Management!NoRead EXCEPT !.at = "asked"] \in [at : {"idle", "asked", "read"}, copy : Management!Lists]
          /\ [Management!NoRead EXCEPT !.at = "asked"].at = "asked"
      BY DEF Management!NoRead, Management!Fresh, Management!Lists
    <3>3. /\ g_reads' \in [Management!Section -> [at : {"idle", "asked", "read"}, copy : Management!Lists]]
          /\ g_reads'["enrollments"].at # "read"
      BY <3>1, <3>2 DEF Management!Section
    <3> QED BY <1>1, <1>2, <1>3, <3>1, <3>3 DEF Management!TypeOK, Management!ConfirmedKnown
  <2>3. ASSUME NEW s \in Management!Section, Management!SectionReads(s)
        PROVE  Management!TypeOK' /\ Management!ConfirmedKnown'
    <3> DEFINE z == [at |-> "read", copy |-> [Management!Fresh EXCEPT ![s] = g_server[s]]]
    <3>1. g_reads' = [g_reads EXCEPT ![s] = z] /\ g_shown' = g_shown
      BY <2>3 DEF Management!SectionReads, Management!page
    <3>2. /\ g_server = [enrollments |-> g_server.enrollments, clients |-> g_server.clients]
          /\ g_server.enrollments \in [Enrollment -> {"pending", "approved"}]
          /\ g_server.clients \in [Client -> {"active", "revoked"}]
      BY <1>1 DEF Management!TypeOK, Management!Lists
    <3>3. z \in [at : {"idle", "asked", "read"}, copy : Management!Lists] /\ z.copy = [Management!Fresh EXCEPT ![s] = g_server[s]]
      BY <3>2 DEF Management!Fresh, Management!Lists, Management!Section
    <3>4. s = "enrollments" => z.copy.enrollments = g_server.enrollments
      BY <3>3 DEF Management!Fresh
    <3> HIDE DEF z
    <3>5. /\ g_reads' \in [Management!Section -> [at : {"idle", "asked", "read"}, copy : Management!Lists]]
          /\ g_reads'["enrollments"] = IF s = "enrollments" THEN z ELSE g_reads["enrollments"]
      BY <1>1, <3>1, <3>3 DEF Management!TypeOK, Management!Section
    <3> QED BY <1>1, <1>2, <1>3, <3>1, <3>4, <3>5 DEF Management!TypeOK, Management!ConfirmedKnown
  <2>4. ASSUME NEW s \in Management!Section, Management!SectionApplies(s)
        PROVE  Management!TypeOK' /\ Management!ConfirmedKnown'
    <3>1. g_reads[s].at = "read" /\ g_shown' = [g_shown EXCEPT ![s] = g_reads[s].copy[s]] /\ g_reads' = [g_reads EXCEPT ![s] = Management!NoRead]
      BY <2>4 DEF Management!SectionApplies
    <3>2. Management!NoRead \in [at : {"idle", "asked", "read"}, copy : Management!Lists] /\ Management!NoRead.at = "idle"
      BY DEF Management!NoRead, Management!Fresh, Management!Lists
    <3>3. /\ g_reads' \in [Management!Section -> [at : {"idle", "asked", "read"}, copy : Management!Lists]]
          /\ g_reads'["enrollments"] = IF s = "enrollments" THEN Management!NoRead ELSE g_reads["enrollments"]
      BY <1>1, <3>1, <3>2 DEF Management!TypeOK, Management!Section
    <3>4. g_reads[s].copy \in Management!Lists /\ g_shown \in Management!Lists
      BY <1>1 DEF Management!TypeOK
    <3>5. CASE s = "enrollments"
      <4>1. g_shown' = [g_shown EXCEPT !.enrollments = g_reads[s].copy.enrollments]
        BY <3>1, <3>4, <3>5 DEF Management!Lists
      <4>2. g_shown' \in Management!Lists /\ g_shown'.enrollments = g_reads[s].copy.enrollments
        BY <3>4, <4>1 DEF Management!Lists
      <4>3. Management!ConfirmedKnown'
        BY <1>1, <1>2, <3>1, <3>2, <3>3, <3>5, <4>2 DEF Management!ConfirmedKnown
      <4> QED BY <1>1, <1>2, <1>3, <3>3, <4>2, <4>3 DEF Management!TypeOK
    <3>6. CASE s = "clients"
      <4>1. g_shown' = [g_shown EXCEPT !.clients = g_reads[s].copy.clients]
        BY <3>1, <3>4, <3>6 DEF Management!Lists
      <4>2. g_shown' \in Management!Lists /\ g_shown'.enrollments = g_shown.enrollments
        BY <3>4, <4>1 DEF Management!Lists
      <4>3. Management!ConfirmedKnown'
        BY <1>1, <1>2, <3>1, <3>2, <3>3, <3>6, <4>2 DEF Management!ConfirmedKnown
      <4> QED BY <1>1, <1>2, <1>3, <3>3, <4>2, <4>3 DEF Management!TypeOK
    <3> QED BY <3>5, <3>6 DEF Management!Section
  <2>5. CASE Management!ReconcileReads
    BY <2>1, <2>5 DEF Management!ReconcileReads, Management!page
  <2> QED BY <2>2, <2>3, <2>4, <2>5 DEF Management!Reading
<1> QED BY <1>1, <1>2, <1>3, <1>5, <1>6, <1>7 DEF Management!ManagementInv

\* A conflict is cleared, or a check begins: no key is locked or freed.
LEMMA AskedHolds ==
    ASSUME Management!ManagementInv, NEW k \in Management!Key, Management!Clear(k) \/ Management!ReconcileAsks(k)
    PROVE  Management!ManagementInv'
<1>1. Management!TypeOK /\ Management!RequestsKnown /\ Management!KeysOwned /\ Management!OpenLocked /\ Management!AwaitedAlone /\ Management!CheckTrue /\ Management!ConfirmedKnown /\ ~g_late
  BY DEF Management!ManagementInv
<1>2. /\ g_server' = g_server /\ g_wire' = g_wire /\ g_attempts' = g_attempts /\ g_shown' = g_shown /\ g_reads' = g_reads
      /\ g_confirmed' = g_confirmed /\ g_late' = g_late /\ g_acts' = g_acts
  BY DEF Management!Clear, Management!ReconcileAsks, Management!memo
<1>3. /\ g_owner[k] = 0 /\ g_phase[k] \in {"conflict", "unknown"} /\ MaxRequests \in Nat
      /\ g_phase \in [Management!Key -> {"none", "pending", "unknown", "conflict"}] /\ g_owner \in [Management!Key -> 0..(MaxRequests + 1)]
  BY <1>1, AccessAssumption DEF Management!Clear, Management!ReconcileAsks, Management!TypeOK
<1>4. /\ g_phase' \in [Management!Key -> {"none", "pending", "unknown", "conflict"}] /\ g_owner' \in [Management!Key -> 0..(MaxRequests + 1)]
      /\ \A x \in Management!Key : x # k => g_phase'[x] = g_phase[x] /\ g_owner'[x] = g_owner[x]
      /\ g_owner'[k] \in {0, MaxRequests + 1} /\ g_phase'[k] # "unknown" /\ (g_phase'[k] = "pending" => g_owner'[k] # 0)
      /\ Management!Locked(k)' <=> Management!Locked(k)
  <2>1. CASE Management!Clear(k)
    <3>1. g_phase[k] = "conflict" /\ g_phase' = [g_phase EXCEPT ![k] = "none"] /\ g_owner' = g_owner
      BY <2>1 DEF Management!Clear
    <3> QED BY <1>3, <3>1 DEF Management!Locked
  <2>2. CASE Management!ReconcileAsks(k)
    <3>1. g_phase[k] = "unknown" /\ g_phase' = [g_phase EXCEPT ![k] = "pending"] /\ g_owner' = [g_owner EXCEPT ![k] = MaxRequests + 1]
      BY <2>2 DEF Management!ReconcileAsks
    <3>2. MaxRequests + 1 \in 0..(MaxRequests + 1) /\ MaxRequests + 1 # 0
      BY <1>3
    <3> QED BY <1>3, <3>1, <3>2 DEF Management!Locked
  <2> QED BY <2>1, <2>2
<1>5. /\ g_checking' \in [key : Management!Key \cup {NoTarget}, at : {"idle", "asked", "read"}, copy : Management!Lists]
      /\ \/ Management!Clear(k) /\ g_checking' = g_checking
         \/ Management!ReconcileAsks(k) /\ g_checking.at = "idle" /\ g_checking'.key = k /\ g_checking'.at = "asked"
            /\ g_phase[k] = "unknown" /\ g_phase'[k] = "pending" /\ g_owner'[k] = MaxRequests + 1
  <2>1. CASE Management!Clear(k)
    BY <1>1, <2>1 DEF Management!Clear, Management!TypeOK
  <2>2. CASE Management!ReconcileAsks(k)
    <3>1. g_checking.at = "idle" /\ g_checking' = [Management!NoCheck EXCEPT !.key = k, !.at = "asked"]
          /\ g_phase[k] = "unknown" /\ g_phase' = [g_phase EXCEPT ![k] = "pending"] /\ g_owner' = [g_owner EXCEPT ![k] = MaxRequests + 1]
      BY <2>2 DEF Management!ReconcileAsks
    <3>2. g_checking' = [key |-> k, at |-> "asked", copy |-> Management!Fresh] /\ Management!Fresh \in Management!Lists
      BY <3>1 DEF Management!NoCheck, Management!Fresh, Management!Lists
    <3> QED BY <1>3, <2>2, <3>1, <3>2
  <2> QED BY <2>1, <2>2
<1>6. Management!TypeOK'
  BY <1>1, <1>2, <1>4, <1>5 DEF Management!TypeOK
<1>7. Management!RequestsKnown'
  BY <1>1, <1>2 DEF Management!RequestsKnown
<1>8. Management!KeysOwned'
  <2>1. \A x \in Management!Key : g_owner'[x] \in 1..MaxRequests => \E r \in g_wire' : r.id = g_owner'[x] /\ r.watched /\ x \in Management!Keys(r)
    BY <1>1, <1>2, <1>3, <1>4 DEF Management!KeysOwned
  <2>2. ASSUME NEW r \in g_wire, r.watched
        PROVE  /\ \A x \in Management!Keys(r) : g_owner'[x] = r.id
               /\ r.related # NoTarget => g_phase'[r.related] \notin {"pending", "unknown"}
    <3>1. \A x \in Management!Keys(r) : x \in Management!Key /\ g_owner[x] = r.id /\ x # k
      BY <1>1, <1>3, <2>2, KeysOf DEF Management!KeysOwned
    <3>2. r.related # NoTarget => r.related \in Management!Keys(r) /\ g_phase[r.related] \notin {"pending", "unknown"}
      BY <1>1, <2>2 DEF Management!KeysOwned, Management!Keys
    <3> QED BY <1>4, <3>1, <3>2
  <2>3. \A x \in Management!Key : g_phase'[x] = "pending" => g_owner'[x] # 0
    BY <1>1, <1>4 DEF Management!KeysOwned
  <2>4. g_checking'.at # "idle" =>
          g_checking'.key \in Management!Key /\ g_owner'[g_checking'.key] = MaxRequests + 1 /\ g_phase'[g_checking'.key] = "pending"
    <3>1. CASE Management!Clear(k) /\ g_checking' = g_checking
      <4>1. g_checking.at # "idle" => g_checking.key \in Management!Key /\ g_checking.key # k
        BY <1>1, <1>3 DEF Management!KeysOwned
      <4> QED BY <1>1, <1>4, <3>1, <4>1 DEF Management!KeysOwned
    <3> QED BY <1>5, <3>1
  <2> QED BY <1>2, <2>1, <2>2, <2>3, <2>4 DEF Management!KeysOwned
<1>9. /\ \A x \in Management!Key : Management!Locked(x)' <=> Management!Locked(x)
      /\ \A r : Management!Open(r)' <=> Management!Open(r)
  <2>1. \A r : Management!Open(r)' <=> Management!Open(r)
    BY <1>2, Same
  <2> QED BY <1>4, <2>1 DEF Management!Locked
<1>10. \A e \in Enrollment, c \in Client : Management!Waits(e, c)' => Management!Waits(e, c)
  <2> SUFFICES ASSUME NEW e \in Enrollment, NEW c \in Client, Management!Waits(e, c)'
               PROVE  Management!Waits(e, c)
    OBVIOUS
  <2>1. e \in Management!Key
    BY DEF Management!Key
  <2>2. Management!Awaited(e)
    BY <1>4, <1>5, <2>1 DEF Management!Waits, Management!Awaited
  <2> QED BY <1>2, <2>2 DEF Management!Waits
<1>11. Management!OpenLocked' /\ Management!AwaitedAlone'
  <2>1. \A r \in g_wire : Management!Keys(r) \subseteq Management!Key
    BY <1>1, KeysOf
  <2>2. Client \subseteq Management!Key
    BY DEF Management!Key
  <2> QED BY <1>1, <1>2, <1>9, <1>10, <2>1, <2>2 DEF Management!OpenLocked, Management!AwaitedAlone
<1>12. Management!CheckTrue'
  BY <1>1, <1>2, <1>5 DEF Management!CheckTrue
<1>13. Management!ConfirmedKnown'
  <2>1. \A e \in Enrollment : (g_phase[e] = "none" /\ g_owner[e] = 0) => (g_phase'[e] = "none" /\ g_owner'[e] = 0)
    BY <1>3, <1>4 DEF Management!Key
  <2> QED BY <1>2, <2>1, KeptConfirmed, Same
<1> QED BY <1>1, <1>2, <1>6, <1>7, <1>8, <1>11, <1>12, <1>13 DEF Management!ManagementInv

\* A check ends: its key is locked again, or freed with the device that its
\* enrolment was to replace.
LEMMA CheckEnds ==
    ASSUME Management!ManagementInv, Management!ReconcileAnswers \/ Management!ReconcileFails
    PROVE  Management!ManagementInv'
<1> DEFINE k == g_checking.key
           related == IF k \in Enrollment THEN g_attempts[k] ELSE NoTarget
           resolved == Management!ReconcileAnswers /\ g_checking.at = "read" /\ Management!Resolved(k, g_checking.copy)
<1>1. Management!TypeOK /\ Management!RequestsKnown /\ Management!KeysOwned /\ Management!OpenLocked /\ Management!AwaitedAlone /\ Management!CheckTrue /\ Management!ConfirmedKnown /\ ~g_late
  BY DEF Management!ManagementInv
<1>2. /\ g_server' = g_server /\ g_wire' = g_wire /\ g_attempts' = g_attempts /\ g_reads' = g_reads
      /\ g_confirmed' = g_confirmed /\ g_late' = g_late /\ g_acts' = g_acts
      /\ g_checking.at # "idle" /\ g_checking' = Management!NoCheck /\ g_owner' = [g_owner EXCEPT ![k] = 0]
  BY DEF Management!ReconcileAnswers, Management!ReconcileFails, Management!memo
<1>3. /\ k \in Management!Key /\ g_owner[k] = MaxRequests + 1 /\ g_phase[k] = "pending" /\ Management!Locked(k) /\ MaxRequests \in Nat
      /\ g_phase \in [Management!Key -> {"none", "pending", "unknown", "conflict"}] /\ g_owner \in [Management!Key -> 0..(MaxRequests + 1)]
  BY <1>1, <1>2, AccessAssumption DEF Management!KeysOwned, Management!Locked, Management!TypeOK
<1>4. /\ related \in Client \cup {NoTarget} /\ related # k
      /\ related \in Client => k \in Enrollment /\ g_attempts[k] = related
  BY <1>1, <1>3, AccessAssumption DEF Management!TypeOK, Management!Key
<1>5. g_phase' = [x \in Management!Key |-> IF x = k THEN (IF resolved THEN "none" ELSE "unknown")
                              ELSE IF x = related /\ resolved THEN "none" ELSE g_phase[x]]
  <2>1. CASE Management!ReconcileAnswers
    <3>1. g_checking.at = "read"
      BY <2>1 DEF Management!ReconcileAnswers
    <3>2. resolved <=> Management!Resolved(k, g_checking.copy)
      BY <2>1, <3>1
    <3> QED BY <2>1, <3>2 DEF Management!ReconcileAnswers
  <2>2. CASE ~Management!ReconcileAnswers
    <3>1. g_phase' = [g_phase EXCEPT ![k] = "unknown"] /\ ~resolved
      BY <2>2 DEF Management!ReconcileFails
    <3> QED BY <1>3, <3>1
  <2> QED BY <2>1, <2>2
<1>6. /\ g_shown' \in Management!Lists
      /\ \A e \in Enrollment : e # k => g_shown'.enrollments[e] = g_shown.enrollments[e]
  <2>0. g_shown \in Management!Lists /\ g_checking.copy \in Management!Lists
    BY <1>1 DEF Management!TypeOK
  <2>1. CASE Management!ReconcileAnswers
    <3>1. g_shown' = IF k \in Enrollment
                   THEN [g_shown EXCEPT !.enrollments[k] = g_checking.copy.enrollments[k]]
                   ELSE [g_shown EXCEPT !.clients = g_checking.copy.clients]
      BY <2>1 DEF Management!ReconcileAnswers
    <3>2. CASE k \in Enrollment
      BY <2>0, <3>1, <3>2 DEF Management!Lists
    <3>3. CASE k \notin Enrollment
      BY <2>0, <3>1, <3>3 DEF Management!Lists
    <3> QED BY <3>2, <3>3
  <2>2. CASE Management!ReconcileFails
    BY <2>0, <2>2 DEF Management!ReconcileFails
  <2> QED BY <2>1, <2>2
\* What the check found approved or revoked is so.
<1>7. resolved => IF k \in Enrollment THEN g_server.enrollments[k] = "approved" ELSE g_server.clients[k] = "revoked"
  BY <1>1, <1>3 DEF Management!CheckTrue, Management!Resolved, Management!Key
<1> HIDE DEF k, related, resolved
<1>8. /\ g_owner' \in [Management!Key -> 0..(MaxRequests + 1)] /\ g_phase' \in [Management!Key -> {"none", "pending", "unknown", "conflict"}]
      /\ \A x \in Management!Key : g_owner'[x] = IF x = k THEN 0 ELSE g_owner[x]
      /\ \A x \in Management!Key : x # k => g_phase'[x] = g_phase[x] \/ (x = related /\ resolved /\ g_phase'[x] = "none")
      /\ g_phase'[k] = IF resolved THEN "none" ELSE "unknown"
  <2>1. 0 \in 0..(MaxRequests + 1)
    BY <1>3
  <2>2. g_owner' \in [Management!Key -> 0..(MaxRequests + 1)] /\ \A x \in Management!Key : g_owner'[x] = IF x = k THEN 0 ELSE g_owner[x]
    BY <1>2, <1>3, <2>1 DEF k
  <2> QED BY <1>3, <1>5, <2>2
<1>9. g_checking'.at = "idle" /\ g_checking' \in [key : Management!Key \cup {NoTarget}, at : {"idle", "asked", "read"}, copy : Management!Lists]
  BY <1>2 DEF Management!NoCheck, Management!Fresh, Management!Lists
<1>10. Management!TypeOK'
  BY <1>1, <1>2, <1>6, <1>8, <1>9 DEF Management!TypeOK
<1>11. Management!RequestsKnown' /\ Management!CheckTrue'
  BY <1>1, <1>2, <1>9 DEF Management!RequestsKnown, Management!CheckTrue
<1>12. Management!KeysOwned'
  <2>1. \A x \in Management!Key : g_owner'[x] \in 1..MaxRequests => \E r \in g_wire' : r.id = g_owner'[x] /\ r.watched /\ x \in Management!Keys(r)
    BY <1>1, <1>2, <1>8 DEF Management!KeysOwned
  <2>2. ASSUME NEW r \in g_wire, r.watched
        PROVE  /\ \A x \in Management!Keys(r) : g_owner'[x] = r.id
               /\ r.related # NoTarget => g_phase'[r.related] \notin {"pending", "unknown"}
    <3>1. \A x \in Management!Keys(r) : x \in Management!Key /\ g_owner[x] = r.id /\ x # k
      BY <1>1, <1>3, <2>2, KeysOf DEF Management!KeysOwned
    <3>2. r.related # NoTarget => r.related \in Management!Keys(r) /\ g_phase[r.related] \notin {"pending", "unknown"}
      BY <1>1, <2>2 DEF Management!KeysOwned, Management!Keys
    <3> QED BY <1>8, <3>1, <3>2
  <2>3. \A x \in Management!Key : g_phase'[x] = "pending" => g_owner'[x] # 0
    BY <1>1, <1>8 DEF Management!KeysOwned
  <2> QED BY <1>2, <1>9, <2>1, <2>2, <2>3 DEF Management!KeysOwned
<1>13. /\ \A x \in Management!Key : (x # k /\ ~(x = related /\ resolved)) => (Management!Locked(x)' <=> Management!Locked(x))
       /\ ~resolved => g_phase'[k] = "unknown" /\ g_owner'[k] = 0
       /\ \A r : Management!Open(r)' <=> Management!Open(r)
  <2>1. \A r : Management!Open(r)' <=> Management!Open(r)
    BY <1>2, Same
  <2>2. ASSUME NEW x \in Management!Key, x # k, ~(x = related /\ resolved)
        PROVE  Management!Locked(x)' <=> Management!Locked(x)
    <3>1. g_phase'[x] = g_phase[x] /\ g_owner'[x] = g_owner[x]
      BY <1>8, <2>2
    <3> QED BY <3>1 DEF Management!Locked
  <2>3. ~resolved => g_phase'[k] = "unknown" /\ g_owner'[k] = 0
    BY <1>3, <1>8
  <2> QED BY <2>1, <2>2, <2>3
<1>14. \A e \in Enrollment, c \in Client : Management!Waits(e, c)' => Management!Waits(e, c) /\ (resolved => e # k)
  <2> SUFFICES ASSUME NEW e \in Enrollment, NEW c \in Client, Management!Waits(e, c)'
               PROVE  Management!Waits(e, c) /\ (resolved => e # k)
    OBVIOUS
  <2>1. e \in Management!Key /\ g_phase'[e] = "unknown"
    BY <1>9 DEF Management!Key, Management!Waits, Management!Awaited
  <2>2. resolved => e # k
    BY <1>8, <2>1
  <2>3. Management!Awaited(e)
    BY <1>2, <1>8, <2>1 DEF Management!Awaited, k
  <2> QED BY <1>2, <2>2, <2>3 DEF Management!Waits
\* An enrolment that was checked and found approved waits no more, alone.
<1>15. ASSUME resolved, related \in Client, g_server.clients[related] # "revoked"
       PROVE  /\ Management!Waits(k, related) /\ k \in Enrollment
              /\ \A r \in g_wire : (Management!Open(r) /\ related \in Management!Keys(r)) => r.key = k
              /\ \A x \in Enrollment : Management!Waits(x, related) => x = k
  <2>1. g_server.clients[related] = "active"
    BY <1>1, <1>15 DEF Management!TypeOK, Management!Lists
  <2>2. Management!Waits(k, related) /\ k \in Enrollment
    BY <1>2, <1>4, <1>15, <2>1 DEF Management!Waits, Management!Awaited, k
  <2> QED BY <1>1, <1>15, <2>2 DEF Management!AwaitedAlone
<1>16. ASSUME resolved, NEW r \in g_wire, Management!Open(r)
       PROVE  k \notin Management!Keys(r) /\ related \notin Management!Keys(r)
  <2>0. /\ r \in Management!Requests /\ NoTarget \notin Management!Keys(r)
        /\ \A e \in Enrollment : e \in Management!Keys(r) => r.kind = "approve" /\ r.key = e
        /\ \A c \in Client : c \in Management!Keys(r) => (r.kind = "approve" /\ r.related = c) \/ (r.kind = "revoke" /\ r.key = c)
    BY <1>1, KeysOf DEF Management!Keys
  <2>1. k \notin Management!Keys(r)
    <3>1. CASE k \in Enrollment
      BY <1>7, <1>16, <2>0, <3>1 DEF Management!Open, Management!Spent
    <3>2. CASE k \notin Enrollment
      <4>1. k \in Client /\ g_server.clients[k] = "revoked"
        BY <1>3, <1>7, <1>16, <3>2 DEF Management!Key
      <4> QED BY <1>16, <2>0, <4>1 DEF Management!Open, Management!Spent
    <3> QED BY <3>1, <3>2
  <2>2. related \notin Management!Keys(r)
    <3> SUFFICES ASSUME related \in Client, related \in Management!Keys(r)
                 PROVE  FALSE
      BY <1>4, <2>0
    <3>1. CASE g_server.clients[related] = "revoked"
      BY <1>16, <2>0, <3>1 DEF Management!Open, Management!Spent
    <3>2. CASE g_server.clients[related] # "revoked"
      <4>1. r.key = k /\ k \in Enrollment
        BY <1>15, <1>16, <3>2
      <4>2. k \in Management!Keys(r)
        BY <1>1, <4>1, KeysOf
      <4> QED BY <2>1, <4>2
    <3> QED BY <3>1, <3>2
  <2> QED BY <2>1, <2>2
<1>17. Management!OpenLocked'
  <2> SUFFICES ASSUME NEW r \in g_wire, Management!Open(r), NEW x \in Management!Keys(r)
               PROVE  Management!Locked(x)'
    BY <1>2, <1>13 DEF Management!OpenLocked
  <2>1. x \in Management!Key /\ Management!Locked(x)
    BY <1>1, KeysOf DEF Management!OpenLocked
  <2>2. CASE resolved
    <3>1. x # k /\ x # related
      BY <1>16, <2>2
    <3> QED BY <1>13, <2>1, <3>1
  <2>3. CASE ~resolved
    <3>1. CASE x = k
      BY <1>13, <2>3, <3>1 DEF Management!Locked
    <3>2. CASE x # k
      BY <1>13, <2>1, <2>3, <3>2
    <3> QED BY <3>1, <3>2
  <2> QED BY <2>2, <2>3
<1>18. Management!AwaitedAlone'
  <2> SUFFICES ASSUME NEW e \in Enrollment, NEW c \in Client, Management!Waits(e, c)'
               PROVE  /\ Management!Locked(c)'
                      /\ \A q \in g_wire' : (Management!Open(q)' /\ c \in Management!Keys(q)) => q.key = e
                      /\ \A x \in Enrollment : Management!Waits(x, c)' => x = e
    BY DEF Management!AwaitedAlone
  <2>1. /\ Management!Locked(c) /\ c \in Management!Key /\ g_server.clients[c] = "active"
        /\ \A q \in g_wire : (Management!Open(q) /\ c \in Management!Keys(q)) => q.key = e
        /\ \A x \in Enrollment : Management!Waits(x, c) => x = e
    BY <1>1, <1>14 DEF Management!AwaitedAlone, Management!Key, Management!Waits
  <2>2. ASSUME resolved
        PROVE  c # k /\ c # related
    <3>1. c # k
      BY <1>7, <2>1, <2>2, AccessAssumption
    <3>2. c # related
      BY <1>14, <1>15, <2>1, <2>2
    <3> QED BY <3>1, <3>2
  <2>3. Management!Locked(c)'
    <3>1. CASE c # k /\ ~(c = related /\ resolved)
      BY <1>13, <2>1, <3>1
    <3>2. CASE c = k /\ ~resolved
      BY <1>13, <3>2 DEF Management!Locked
    <3> QED BY <2>2, <3>1, <3>2
  <2> QED BY <1>2, <1>13, <1>14, <2>1, <2>3
<1>19. Management!ConfirmedKnown'
  <2> SUFFICES ASSUME NEW e \in g_confirmed
               PROVE  /\ g_phase'[e] = "none" /\ g_owner'[e] = 0
                      /\ g_shown'.enrollments[e] = "approved" /\ g_server'.enrollments[e] = "approved"
                      /\ g_reads'["enrollments"].at = "read" => g_reads'["enrollments"].copy.enrollments[e] = "approved"
    BY <1>2 DEF Management!ConfirmedKnown
  <2>1. /\ e \in Enrollment /\ e \in Management!Key /\ g_phase[e] = "none" /\ g_owner[e] = 0
        /\ g_shown.enrollments[e] = "approved" /\ g_server.enrollments[e] = "approved"
    BY <1>1 DEF Management!ConfirmedKnown, Management!TypeOK, Management!Key
  <2>2. e # k
    BY <1>3, <2>1
  <2> QED BY <1>1, <1>2, <1>6, <1>8, <2>1, <2>2 DEF Management!ConfirmedKnown
<1> QED BY <1>1, <1>2, <1>10, <1>11, <1>12, <1>17, <1>18, <1>19 DEF Management!ManagementInv

\* The server grows: what waited for it waits no longer.
LEMMA GrowHolds ==
    ASSUME Management!ManagementInv, Grown, g_server' \in Management!Lists,
           g_phase' = g_phase, g_owner' = g_owner, g_shown' = g_shown, g_reads' = g_reads, g_checking' = g_checking,
           g_attempts' = g_attempts, g_confirmed' = g_confirmed, g_acts' = g_acts, g_late' = FALSE,
           \A q \in g_wire' : q \in g_wire \/ q.watched,
           g_wire' \subseteq Management!Requests, Management!RequestsKnown', Management!KeysOwned'
    PROVE  Management!ManagementInv'
<1>1. Management!TypeOK /\ Management!RequestsKnown /\ Management!KeysOwned /\ Management!OpenLocked /\ Management!AwaitedAlone /\ Management!CheckTrue /\ Management!ConfirmedKnown
  BY DEF Management!ManagementInv
<1>2. Management!TypeOK'
  BY <1>1 DEF Management!TypeOK
<1>3. \A q \in g_wire' : Management!Open(q)' => q \in g_wire /\ Management!Open(q)
  BY <1>1, SpentStays DEF Management!Open
<1>4. \A k : Management!Locked(k)' <=> Management!Locked(k)
  BY DEF Management!Locked
<1>5. \A e \in Enrollment, c \in Client : Management!Waits(e, c)' => Management!Waits(e, c)
  <2> SUFFICES ASSUME NEW e \in Enrollment, NEW c \in Client, Management!Waits(e, c)'
               PROVE  Management!Waits(e, c)
    OBVIOUS
  <2>1. g_server.clients[c] = "active"
    BY <1>1 DEF Management!Waits, Grown, Management!TypeOK, Management!Lists
  <2> QED BY <2>1 DEF Management!Waits, Management!Awaited
<1>6. Management!OpenLocked' /\ Management!AwaitedAlone'
  BY <1>1, <1>3, <1>4, <1>5 DEF Management!OpenLocked, Management!AwaitedAlone
<1>7. Management!CheckTrue'
  BY <1>1 DEF Management!CheckTrue, Grown
<1>8. Management!ConfirmedKnown'
  BY KeptConfirmed
<1> QED BY <1>2, <1>6, <1>7, <1>8 DEF Management!ManagementInv

LEMMA EffectGrows ==
    ASSUME g_server \in Management!Lists, NEW kind \in {"approve", "revoke"}, NEW key,
           IF kind = "approve" THEN key \in Enrollment ELSE key \in Client,
           g_server' = g_server \/ g_server' = Management!Effect(kind, key)
    PROVE  /\ g_server' \in Management!Lists /\ Grown
           /\ (kind = "approve" /\ g_server' = Management!Effect(kind, key)) => g_server'.enrollments[key] = "approved"
<1>1. CASE g_server' = g_server
  <2>1. g_server' = Management!Effect(kind, key) /\ kind = "approve" => g_server'.enrollments[key] = "approved"
    BY DEF Management!Effect, Management!Lists
  <2> QED BY <1>1, <2>1, Same
<1>2. CASE g_server' = Management!Effect(kind, key) /\ kind = "approve"
  BY <1>2 DEF Management!Effect, Management!Lists, Grown
<1>3. CASE g_server' = Management!Effect(kind, key) /\ kind # "approve"
  BY <1>3 DEF Management!Effect, Management!Lists, Grown
<1> QED BY <1>1, <1>2, <1>3

LEMMA HandlesHolds ==
    ASSUME Management!ManagementInv, NEW r \in g_wire, Management!Handles(r)
    PROVE  Management!ManagementInv'
<1> DEFINE accepted == Management!Accepts(r.kind, r.key, r.related)
           z == [r EXCEPT !.at = IF accepted THEN "done" ELSE "refused"]
<1>1. Management!TypeOK /\ Management!RequestsKnown /\ Management!KeysOwned /\ Management!OpenLocked /\ ~g_late
  BY DEF Management!ManagementInv
<1>2. /\ g_server' = IF accepted THEN Management!Effect(r.kind, r.key) ELSE g_server
      /\ g_wire' = (g_wire \ {r}) \cup (IF r.watched THEN {z} ELSE {})
      /\ g_late' = (g_late \/ (~r.watched /\ accepted /\ g_server' # g_server /\ Management!Overtaken(r)))
      /\ g_phase' = g_phase /\ g_owner' = g_owner /\ g_shown' = g_shown /\ g_reads' = g_reads /\ g_checking' = g_checking
      /\ g_attempts' = g_attempts /\ g_confirmed' = g_confirmed /\ g_acts' = g_acts
  BY DEF Management!Handles, Management!page, Management!memo
<1>3. /\ r \in Management!Requests /\ r.kind \in {"approve", "revoke"} /\ r.watched \in BOOLEAN
      /\ IF r.kind = "approve" THEN r.key \in Enrollment ELSE r.key \in Client /\ r.related = NoTarget
      /\ g_server \in Management!Lists
  BY <1>1 DEF Management!TypeOK, Management!Requests, Management!RequestsKnown
<1>4. /\ z \in Management!Requests /\ z.id = r.id /\ z.key = r.key /\ z.related = r.related /\ z.kind = r.kind
      /\ z.watched = r.watched /\ (z.at = "done" => accepted)
  BY <1>3 DEF Management!Requests
<1> HIDE DEF z
<1>5. Management!Keys(z) = Management!Keys(r)
  BY <1>4 DEF Management!Keys
<1>6. /\ g_server' \in Management!Lists /\ Grown
      /\ (r.kind = "approve" /\ accepted) => g_server'.enrollments[r.key] = "approved"
  BY <1>2, <1>3, EffectGrows
<1>7. /\ g_wire' \subseteq Management!Requests
      /\ \A q \in g_wire' : (q \in g_wire /\ q # r) \/ (q = z /\ r.watched)
      /\ \A q \in g_wire : q # r => q \in g_wire'
      /\ r.watched => z \in g_wire'
  BY <1>1, <1>2, <1>4 DEF Management!TypeOK
<1>8. Management!RequestsKnown'
  <2>1. \A q, y \in g_wire' : q.id = y.id => q = y
    BY <1>1, <1>4, <1>7 DEF Management!RequestsKnown
  <2>2. ASSUME NEW q \in g_wire
        PROVE  /\ q.id <= g_acts' /\ (q.watched \/ q.at = "sent")
               /\ IF q.kind = "approve" THEN q.key \in Enrollment ELSE q.key \in Client /\ q.related = NoTarget
               /\ (q.kind = "approve" /\ q.watched) => g_attempts'[q.key] = q.related
               /\ (q.kind = "approve" /\ q.at = "done") => g_server'.enrollments[q.key] = "approved"
    BY <1>1, <1>2, <1>6 DEF Management!RequestsKnown, Grown
  <2>3. ASSUME r.watched
        PROVE  /\ z.id <= g_acts' /\ (z.watched \/ z.at = "sent")
               /\ IF z.kind = "approve" THEN z.key \in Enrollment ELSE z.key \in Client /\ z.related = NoTarget
               /\ (z.kind = "approve" /\ z.watched) => g_attempts'[z.key] = z.related
               /\ (z.kind = "approve" /\ z.at = "done") => g_server'.enrollments[z.key] = "approved"
    BY <1>4, <1>6, <2>2, <2>3
  <2> QED BY <1>7, <2>1, <2>2, <2>3 DEF Management!RequestsKnown
<1>9. Management!KeysOwned'
  <2>1. \A x \in Management!Key : g_owner'[x] \in 1..MaxRequests => \E q \in g_wire' : q.id = g_owner'[x] /\ q.watched /\ x \in Management!Keys(q)
    <3> SUFFICES ASSUME NEW x \in Management!Key, g_owner[x] \in 1..MaxRequests
                 PROVE  \E q \in g_wire' : q.id = g_owner[x] /\ q.watched /\ x \in Management!Keys(q)
      BY <1>2
    <3>1. PICK q \in g_wire : q.id = g_owner[x] /\ q.watched /\ x \in Management!Keys(q)
      BY <1>1 DEF Management!KeysOwned
    <3>2. CASE q = r
      BY <1>4, <1>5, <1>7, <3>1, <3>2
    <3> QED BY <1>7, <3>1, <3>2
  <2>2. \A q \in g_wire' : q.watched =>
           /\ \A x \in Management!Keys(q) : g_owner'[x] = q.id
           /\ q.related # NoTarget => g_phase'[q.related] \notin {"pending", "unknown"}
    BY <1>1, <1>2, <1>4, <1>5, <1>7 DEF Management!KeysOwned
  <2> QED BY <1>1, <1>2, <2>1, <2>2 DEF Management!KeysOwned
<1>10. g_late' = FALSE
  <2> SUFFICES ASSUME ~r.watched, accepted, g_server' # g_server, Management!Overtaken(r)
               PROVE  FALSE
    BY <1>1, <1>2 DEF Management!ManagementInv, Management!TypeOK
  <2>1. ~Management!Spent(r)
    <3>1. CASE r.kind = "approve"
      <4>1. g_server.enrollments[r.key] = "pending" /\ (r.related \in Client => g_server.clients[r.related] = "active")
        BY <3>1 DEF Management!Accepts
      <4> QED BY <3>1, <4>1 DEF Management!Spent
    <3>2. CASE r.kind # "approve"
      <4> SUFFICES ASSUME g_server.clients[r.key] = "revoked"
                   PROVE  FALSE
        BY <3>2 DEF Management!Spent
      <4>1. g_server' = [g_server EXCEPT !.clients[r.key] = "revoked"]
        BY <1>2, <3>2 DEF Management!Effect
      <4>2. [g_server EXCEPT !.clients[r.key] = "revoked"] = g_server
        BY <1>3, <3>2 DEF Management!Lists
      <4> QED BY <4>1, <4>2
    <3> QED BY <3>1, <3>2
  <2>2. PICK k \in Management!Keys(r) : g_phase[k] \in {"none", "conflict"} \/ g_owner[k] \in (r.id + 1)..MaxRequests
    BY DEF Management!Overtaken
  <2>3. Management!Locked(k)
    BY <1>1, <2>1 DEF Management!Open, Management!OpenLocked
  <2>4. r.id \in 1..MaxRequests /\ MaxRequests \in Nat
    BY <1>3, AccessAssumption DEF Management!Requests
  <2> QED BY <2>2, <2>3, <2>4 DEF Management!Locked
<1>11. \A q \in g_wire' : q \in g_wire \/ q.watched
  BY <1>4, <1>7
<1> QED BY <1>2, <1>6, <1>7, <1>8, <1>9, <1>10, <1>11, GrowHolds

LEMMA OthersHold ==
    ASSUME Management!ManagementInv, NEW kind \in {"approve", "revoke"}, NEW key,
           IF kind = "approve" THEN key \in Enrollment ELSE key \in Client,
           Management!OtherAdministrator(kind, key)
    PROVE  Management!ManagementInv'
<1>1. Management!TypeOK /\ Management!RequestsKnown /\ Management!KeysOwned /\ ~g_late
  BY DEF Management!ManagementInv
<1>2. /\ g_server' = Management!Effect(kind, key) /\ g_wire' = g_wire /\ g_late' = g_late
      /\ g_phase' = g_phase /\ g_owner' = g_owner /\ g_shown' = g_shown /\ g_reads' = g_reads /\ g_checking' = g_checking
      /\ g_attempts' = g_attempts /\ g_confirmed' = g_confirmed /\ g_acts' = g_acts
  BY DEF Management!OtherAdministrator, Management!page, Management!memo
<1>3. g_server' \in Management!Lists /\ Grown
  BY <1>1, <1>2, EffectGrows DEF Management!TypeOK
<1>4. Management!RequestsKnown' /\ Management!KeysOwned'
  BY <1>1, <1>2, <1>3 DEF Management!RequestsKnown, Management!KeysOwned, Grown
<1>5. g_wire' \subseteq Management!Requests
  BY <1>1, <1>2 DEF Management!TypeOK
<1>6. g_late' = FALSE
  BY <1>1, <1>2 DEF Management!ManagementInv
<1> QED BY <1>2, <1>3, <1>4, <1>5, <1>6, GrowHolds

LEMMA ManagementStarts ==
    ASSUME Management!Init
    PROVE  Management!ManagementInv
<1>1. Management!Fresh \in Management!Lists
  BY DEF Management!Fresh, Management!Lists
<1>2. MaxRequests \in Nat /\ 0 \in 0..MaxRequests /\ 0 \in 0..(MaxRequests + 1) /\ ~(0 \in 1..MaxRequests)
  BY AccessAssumption
<1>3. Management!TypeOK
  BY <1>1, <1>2 DEF Management!Init, Management!TypeOK, Management!NoRead, Management!NoCheck
<1>4. Management!RequestsKnown /\ Management!KeysOwned /\ Management!OpenLocked
  BY <1>2 DEF Management!Init, Management!RequestsKnown, Management!KeysOwned, Management!OpenLocked, Management!NoCheck
<1>5. Management!AwaitedAlone
  BY DEF Management!Init, Management!AwaitedAlone, Management!Waits, Management!Awaited, Management!NoCheck, Management!Key
<1>6. Management!CheckTrue /\ Management!ConfirmedKnown
  BY DEF Management!Init, Management!CheckTrue, Management!ConfirmedKnown, Management!NoCheck
<1> QED BY <1>3, <1>4, <1>5, <1>6 DEF Management!ManagementInv, Management!Init

LEMMA ManagementSteps ==
    ASSUME Management!ManagementInv, Management!Next \/ UNCHANGED Management!vars
    PROVE  Management!ManagementInv'
<1>1. ASSUME NEW e \in Enrollment, NEW t \in Client \cup {NoTarget}, Management!Approve(e, t)
      PROVE  Management!ManagementInv'
  <2>1. e \in Management!Key
    BY DEF Management!Key
  <2> QED BY <1>1, <2>1, RunHolds DEF Management!Approve
<1>2. ASSUME NEW c \in Client, Management!revoke(c)
      PROVE  Management!ManagementInv'
  <2>1. c \in Management!Key /\ NoTarget \in Client \cup {NoTarget}
    BY DEF Management!Key
  <2> QED BY <1>2, <2>1, RunHolds DEF Management!revoke
<1>3. ASSUME NEW c \in Client, Management!OtherAdministrator("revoke", c)
      PROVE  Management!ManagementInv'
  BY <1>3, OthersHold
<1>4. ASSUME NEW e \in Enrollment, Management!OtherAdministrator("approve", e)
      PROVE  Management!ManagementInv'
  BY <1>4, OthersHold
<1>5. ASSUME Management!Mutation
      PROVE  Management!ManagementInv'
  BY <1>5, ConfirmedHolds, GivenUpHolds DEF Management!Mutation
<1>6. ASSUME UNCHANGED Management!vars
      PROVE  Management!ManagementInv'
  <2>1. /\ g_server' = g_server /\ g_shown' = g_shown /\ g_phase' = g_phase /\ g_owner' = g_owner /\ g_wire' = g_wire
        /\ g_reads' = g_reads /\ g_checking' = g_checking /\ g_attempts' = g_attempts /\ g_confirmed' = g_confirmed
        /\ g_late' = g_late /\ g_acts' = g_acts
    BY <1>6 DEF Management!vars, Management!page, Management!memo
  <2> QED BY <2>1 DEF Management!ManagementInv, Management!TypeOK, Management!RequestsKnown, Management!KeysOwned, Management!OpenLocked, Management!AwaitedAlone, Management!CheckTrue,
                       Management!ConfirmedKnown, Management!Open, Management!Spent, Management!Locked, Management!Waits, Management!Awaited
<1>7. CASE \E r \in g_wire : Management!Handles(r)
  BY <1>7, HandlesHolds
<1>8. CASE Management!Reading \/ Management!ReconcileReads
  BY <1>8, ReadHolds
<1>9. CASE \E k \in Management!Key : Management!Clear(k) \/ Management!ReconcileAsks(k)
  BY <1>9, AskedHolds
<1>10. CASE Management!ReconcileAnswers \/ Management!ReconcileFails
  BY <1>10, CheckEnds
<1> QED BY <1>1, <1>2, <1>3, <1>4, <1>5, <1>6, <1>7, <1>8, <1>9, <1>10 DEF Management!Next

LEMMA ManagementHonest ==
    ASSUME Management!ManagementInv
    PROVE  Management!NoLateEffect /\ Management!ConfirmedStays
  BY DEF Management!ManagementInv, Management!NoLateEffect, Management!ConfirmedStays, Management!ConfirmedKnown

-----------------------------------------------------------------------------
(* The desktop shell (DesktopShell).                                       *)

\* The threads, and where they may be.
LEMMA ThreadNames ==
    /\ "boot" \in Desktop!Threads /\ "op" \in Desktop!Threads /\ "boot" # "op"
    /\ \A t \in Desktop!Threads : t = "boot" \/ t = "op"
    /\ Desktop!Idle \in Desktop!Frames
    /\ Desktop!Idle.do = Desktop!Nil /\ Desktop!Idle.pc = Desktop!Nil
<1>1. <<>> \in Seq(Desktop!Processes)
  OBVIOUS
<1> QED BY <1>1 DEF Desktop!Threads, Desktop!Idle, Desktop!Frames, Desktop!Dos, Desktop!Pcs, Desktop!Nil

\* A thread goes on to another step of what it does.
LEMMA GoesTo ==
    ASSUME Desktop!TypeOK, NEW t \in Desktop!Threads, NEW pc \in Desktop!Pcs["boot"] \cup Desktop!Pcs["op"], Desktop!Goto(t, pc)
    PROVE  /\ d_at' \in [Desktop!Threads -> Desktop!Frames]
           /\ d_at'[t].pc = pc /\ d_at'[t].do = d_at[t].do /\ d_at'[t].n = d_at[t].n /\ d_at'[t].left = d_at[t].left
           /\ \A u \in Desktop!Threads : u # t => d_at'[u] = d_at[u]
<1>1. d_at \in [Desktop!Threads -> Desktop!Frames] /\ d_at[t] \in Desktop!Frames
  BY DEF Desktop!TypeOK
<1>2. d_at' = [d_at EXCEPT ![t] = [d_at[t] EXCEPT !.pc = pc]]
  BY <1>1 DEF Desktop!Goto
<1>3. d_at'[t] = [d_at[t] EXCEPT !.pc = pc]
  BY <1>1, <1>2
<1>4. [d_at[t] EXCEPT !.pc = pc] \in Desktop!Frames
  BY <1>1 DEF Desktop!Frames
<1>5. /\ d_at'[t].pc = pc /\ d_at'[t].do = d_at[t].do /\ d_at'[t].n = d_at[t].n /\ d_at'[t].left = d_at[t].left
  BY <1>1, <1>3 DEF Desktop!Frames
<1> QED BY <1>1, <1>2, <1>4, <1>5
LEMMA OperationGoesTo ==
    ASSUME Desktop!TypeOK, NEW pc \in Desktop!Pcs["op"], Desktop!Goto("op", pc)
    PROVE  /\ d_at' \in [Desktop!Threads -> Desktop!Frames]
           /\ d_at'["op"].pc = pc /\ d_at'["op"].do = d_at["op"].do /\ d_at'["op"].n = d_at["op"].n
           /\ d_at'["boot"] = d_at["boot"] /\ \A u \in Desktop!Threads : u # "op" => d_at'[u] = d_at[u]
<1>1. pc \in Desktop!Pcs["boot"] \cup Desktop!Pcs["op"]
  OBVIOUS
<1> QED BY <1>1, GoesTo, ThreadNames

\* A thread begins, or ends.
LEMMA Begins ==
    ASSUME Desktop!TypeOK, NEW t \in Desktop!Threads, NEW do \in Desktop!Dos["boot"] \cup Desktop!Dos["op"], NEW pc \in Desktop!Pcs["boot"] \cup Desktop!Pcs["op"],
           Desktop!Begin(t, do, pc)
    PROVE  /\ d_at' \in [Desktop!Threads -> Desktop!Frames]
           /\ d_at'[t].pc = pc /\ d_at'[t].do = do /\ d_at'[t].n = 0
           /\ \A u \in Desktop!Threads : u # t => d_at'[u] = d_at[u]
<1>1. [Desktop!Idle EXCEPT !.do = do, !.pc = pc] \in Desktop!Frames
  BY ThreadNames DEF Desktop!Frames
<1>2. d_at' = [d_at EXCEPT ![t] = [Desktop!Idle EXCEPT !.do = do, !.pc = pc]]
  BY DEF Desktop!Begin
<1>3. /\ [Desktop!Idle EXCEPT !.do = do, !.pc = pc].pc = pc /\ [Desktop!Idle EXCEPT !.do = do, !.pc = pc].do = do
      /\ [Desktop!Idle EXCEPT !.do = do, !.pc = pc].n = 0
  BY DEF Desktop!Idle
<1> QED BY <1>1, <1>2, <1>3 DEF Desktop!TypeOK
LEMMA Ends ==
    ASSUME Desktop!TypeOK, NEW t \in Desktop!Threads, Desktop!Done(t)
    PROVE  /\ d_at' \in [Desktop!Threads -> Desktop!Frames]
           /\ d_at'[t] = Desktop!Idle /\ d_at'[t].pc = Desktop!Nil /\ d_at'[t].do = Desktop!Nil
           /\ \A u \in Desktop!Threads : u # t => d_at'[u] = d_at[u]
  BY ThreadNames DEF Desktop!Done, Desktop!TypeOK

\* The list of processes, turned round.
LEMMA TurnedRound ==
    ASSUME NEW S, NEW s \in Seq(S)
    PROVE  Desktop!Reversed(s) \in Seq(S) /\ Desktop!Range(Desktop!Reversed(s)) = Desktop!Range(s)
<1>1. Len(s) \in Nat /\ DOMAIN s = 1 .. Len(s) /\ \A i \in 1 .. Len(s) : s[i] \in S
  OBVIOUS
<1>2. /\ DOMAIN Desktop!Reversed(s) = 1 .. Len(s)
      /\ \A i \in 1 .. Len(s) : Desktop!Reversed(s)[i] = s[Len(s) + 1 - i] /\ Len(s) + 1 - i \in 1 .. Len(s)
  BY <1>1 DEF Desktop!Reversed
<1>3. Desktop!Reversed(s) \in Seq(S)
  <2>1. Desktop!Reversed(s) = [i \in 1 .. Len(s) |-> s[Len(s) + 1 - i]]
    BY <1>1 DEF Desktop!Reversed
  <2>2. \A i \in 1 .. Len(s) : s[Len(s) + 1 - i] \in S
    BY <1>1, <1>2
  <2> QED BY <1>1, <2>1, <2>2
<1>4. \A i \in 1 .. Len(s) : s[i] = Desktop!Reversed(s)[Len(s) + 1 - i]
  BY <1>1, <1>2
<1>5. Desktop!Range(Desktop!Reversed(s)) = Desktop!Range(s)
  BY <1>1, <1>2, <1>4 DEF Desktop!Range
<1> QED BY <1>3, <1>5

\* A thread begins to stop the processes.
LEMMA StopBegins ==
    ASSUME Desktop!TypeOK, NEW t \in Desktop!Threads, Desktop!BeginsStop(t)
    PROVE  /\ d_at' \in [Desktop!Threads -> Desktop!Frames]
           /\ d_at'[t].pc = "stop" /\ d_at'[t].do = d_at[t].do /\ d_at'[t].n = d_at[t].n
           /\ Desktop!Range(d_at'[t].left) = Desktop!Range(d_children)
           /\ \A u \in Desktop!Threads : u # t => d_at'[u] = d_at[u]
<1>1. Desktop!Reversed(d_children) \in Seq(Desktop!Processes) /\ Desktop!Range(Desktop!Reversed(d_children)) = Desktop!Range(d_children)
  BY TurnedRound DEF Desktop!TypeOK
<1>2. "stop" \in Desktop!Pcs["boot"]
  BY DEF Desktop!Pcs, Desktop!Working
<1>3. d_at' = [d_at EXCEPT ![t].pc = "stop", ![t].left = Desktop!Reversed(d_children), ![t].failed = FALSE]
  BY DEF Desktop!BeginsStop
<1>4. d_at'[t] = [d_at[t] EXCEPT !.pc = "stop", !.left = Desktop!Reversed(d_children), !.failed = FALSE]
  BY <1>3 DEF Desktop!TypeOK
<1>5. d_at[t] \in Desktop!Frames
  BY DEF Desktop!TypeOK
<1>6. /\ d_at'[t] \in Desktop!Frames
      /\ d_at'[t].pc = "stop" /\ d_at'[t].do = d_at[t].do /\ d_at'[t].n = d_at[t].n /\ d_at'[t].left = Desktop!Reversed(d_children)
  BY <1>1, <1>2, <1>4, <1>5 DEF Desktop!Frames
<1>7. DOMAIN d_at' = Desktop!Threads /\ \A u \in Desktop!Threads : u # t => d_at'[u] = d_at[u]
  BY <1>3 DEF Desktop!TypeOK
<1>8. d_at' \in [Desktop!Threads -> Desktop!Frames]
  BY <1>3, <1>6, <1>7 DEF Desktop!TypeOK
<1> QED BY <1>1, <1>6, <1>7, <1>8

\* What a step of a thread that works, or begins to stop the processes,
\* does to the threads and the records.
Works(t) ==
    /\ d_app /\ d_app' = d_app /\ d_updates' = d_updates /\ (~d_mishap' => ~d_mishap)
    /\ d_version' = d_version /\ d_pending' = d_pending /\ d_installer' = d_installer /\ d_recovery' = d_recovery
    /\ d_page' = d_page
    /\ d_data' = d_data \/ d_data' = d_version
    /\ d_at[t].pc \in Desktop!Working \cup {"begin stop"} /\ d_at'[t].pc \in Desktop!Working
    /\ d_at'[t].pc \in {"prepare", "spawn", "health"} => d_at'[t].n > 0
    /\ d_at'[t].n = 0 /\ d_at'[t].pc \in {"stop", "stopped"} =>
         d_at[t].n = 0 /\ d_at[t].pc \in {"begin stop", "stop", "stopped"}
    /\ d_at'[t].do = d_at[t].do /\ \A u \in Desktop!Threads : u # t => d_at'[u] = d_at[u]
LEMMA WorkingThreads ==
    ASSUME Desktop!TypeOK, Desktop!ThreadsOK, NEW t \in Desktop!Threads, Works(t)
    PROVE  Desktop!ThreadsOK'
<1>1. d_at'[t].pc \in Desktop!Pcs[t] /\ d_at'[t].pc # Desktop!Nil /\ d_at[t].pc # Desktop!Nil
  <2>1. Desktop!Working \subseteq Desktop!Pcs["boot"] /\ Desktop!Working \subseteq Desktop!Pcs["op"]
    BY DEF Desktop!Pcs
  <2>2. d_at'[t].pc \in Desktop!Working /\ d_at[t].pc \in Desktop!Working \cup {"begin stop"}
    BY DEF Works
  <2> QED BY <2>1, <2>2, ThreadNames DEF Desktop!Working, Desktop!Nil
<1>2. d_at'[t].pc \notin {"verify", "record", "launch", "give up", "stage", "move", "swap", "forget"}
  BY DEF Works, Desktop!Working
<1>3. \A u \in Desktop!Threads :
         /\ d_at'[u].pc \in Desktop!Pcs[u] /\ d_at'[u].do \in Desktop!Dos[u]
         /\ (d_at'[u].do = Desktop!Nil <=> d_at'[u].pc = Desktop!Nil)
         /\ d_at'[u].pc \in {"prepare", "spawn", "health"} => d_at'[u].n > 0
  <2> SUFFICES ASSUME NEW u \in Desktop!Threads
               PROVE  /\ d_at'[u].pc \in Desktop!Pcs[u] /\ d_at'[u].do \in Desktop!Dos[u]
                      /\ (d_at'[u].do = Desktop!Nil <=> d_at'[u].pc = Desktop!Nil)
                      /\ d_at'[u].pc \in {"prepare", "spawn", "health"} => d_at'[u].n > 0
    OBVIOUS
  <2>1. CASE u = t
    BY <1>1, <2>1 DEF Works, Desktop!ThreadsOK
  <2>2. CASE u # t
    BY <2>2 DEF Works, Desktop!ThreadsOK
  <2> QED BY <2>1, <2>2
<1>4. /\ d_at'["op"].pc \in {"verify", "record", "launch", "give up"} => d_at'["op"].do = "install"
      /\ d_at'["op"].pc \in {"stage", "move", "swap", "forget"} => d_at'["op"].do = "restore"
  <2>1. CASE t = "op"
    BY <1>2, <2>1
  <2>2. CASE t # "op"
    BY <2>2, ThreadNames DEF Works, Desktop!ThreadsOK
  <2> QED BY <2>1, <2>2
<1>5. ~d_mishap' => \E u \in Desktop!Threads : d_at'[u].pc = Desktop!Nil
  BY <1>1 DEF Works, Desktop!ThreadsOK
<1> QED BY <1>3, <1>4, <1>5 DEF Desktop!ThreadsOK
LEMMA WorkingRecords ==
    ASSUME Desktop!TypeOK, Desktop!ThreadsOK, Desktop!RecordsOK, NEW t \in Desktop!Threads, Works(t)
    PROVE  Desktop!RecordsOK'
<1>1. /\ d_version \in 1 .. MaxVersion /\ d_data \in 0 .. MaxVersion /\ MaxVersion \in Nat
      /\ d_pending # Desktop!NoRecord => d_pending \in Desktop!Records
      /\ d_recovery # Desktop!NoRecord => d_recovery \in Desktop!Records
  BY AccessAssumption DEF Desktop!TypeOK
<1>2. /\ d_pending # Desktop!NoRecord => d_version <= d_pending.to /\ d_pending.to \in Nat
      /\ d_data' = d_version \/ d_data' = d_data
      /\ d_data' \in Nat /\ d_version \in Nat /\ d_data \in Nat
  <2>1. d_pending # Desktop!NoRecord => d_pending.from \in Nat /\ d_pending.to \in Nat /\ d_pending.to = d_pending.from + 1
    BY <1>1 DEF Desktop!Records
  <2>2. d_pending # Desktop!NoRecord => d_version \in {d_pending.from, d_pending.to}
    BY DEF Desktop!RecordsOK
  <2>3. d_data' = d_version \/ d_data' = d_data
    BY DEF Works
  <2> QED BY <1>1, <2>1, <2>2, <2>3
<1>3. /\ d_at[t].pc \notin {Desktop!Nil, "read", "launch", "give up", "forget"}
      /\ d_at'[t].pc \notin {Desktop!Nil, "read", "launch", "give up", "forget", "stage", "move", "swap", "begin stop"}
  BY DEF Works, Desktop!Working, Desktop!Nil
<1>4. Desktop!Restores' => Desktop!Restores
  <2>1. CASE t = "op"
    BY <1>3, <2>1 DEF Works, Desktop!Restores
  <2>2. CASE t # "op"
    BY <2>2, ThreadNames DEF Works, Desktop!Restores
  <2> QED BY <2>1, <2>2
<1>5. d_data' <= IF d_pending = Desktop!NoRecord THEN d_version ELSE d_pending.to
  <2>1. d_data <= IF d_pending = Desktop!NoRecord THEN d_version ELSE d_pending.to
    BY DEF Desktop!RecordsOK
  <2> QED BY <1>2, <2>1
<1>6. /\ (d_app' /\ d_at'["boot"].pc # "read") => d_recovery = d_pending \/ (d_updates /\ d_page = "wall")
      /\ (d_app' /\ d_at'["boot"].pc # "read" /\ d_at'["op"].pc \notin {"launch", "give up"} /\ ~d_mishap')
           => d_pending \in {Desktop!NoRecord, d_recovery}
      /\ (d_at'["boot"].pc \notin {Desktop!Nil, "read"} /\ d_pending # Desktop!NoRecord) => d_version = d_pending.to
      /\ d_updates => /\ d_at'["boot"].pc = Desktop!Nil /\ d_data' <= d_version
                      /\ (d_recovery # Desktop!NoRecord => d_version = d_recovery.to)
      /\ d_at'["boot"].pc = "read" => d_at'["op"].pc = Desktop!Nil
      /\ d_at'["op"].do = "install" => d_updates /\ d_page = "wall" /\ d_version < MaxVersion
      /\ d_at'["op"].pc = "launch" => d_pending # Desktop!NoRecord
      /\ d_at'["op"].pc = "forget" => d_data' <= d_version
  <2>1. CASE t = "op"
    <3>1. d_at'["boot"] = d_at["boot"]
      BY <2>1, ThreadNames DEF Works
    <3>2. d_at'["op"].do = d_at["op"].do /\ d_app' = d_app /\ (~d_mishap' => ~d_mishap)
      BY <2>1 DEF Works
    <3>3. d_data <= d_version => d_data' <= d_version
      BY <1>2
    <3> QED BY <1>3, <2>1, <3>1, <3>2, <3>3 DEF Desktop!RecordsOK
  <2>2. CASE t = "boot"
    <3>1. d_at'["op"] = d_at["op"]
      BY <2>2, ThreadNames DEF Works
    <3>2. d_data <= d_version => d_data' <= d_version
      BY <1>2
    <3>3. d_app' = d_app /\ (~d_mishap' => ~d_mishap)
      BY DEF Works
    <3> QED BY <1>3, <2>2, <3>1, <3>2, <3>3 DEF Desktop!RecordsOK
  <2> QED BY <2>1, <2>2, ThreadNames
<1>7. /\ d_app' = d_app /\ d_updates' = d_updates /\ d_version' = d_version /\ d_pending' = d_pending
      /\ d_installer' = d_installer /\ d_recovery' = d_recovery /\ d_page' = d_page /\ d_app
  BY DEF Works
<1> QED BY <1>4, <1>5, <1>6, <1>7 DEF Desktop!RecordsOK

\* Without a race nobody else works.
LEMMA Alone ==
    ASSUME Desktop!ThreadsOK, ~d_mishap, NEW t \in Desktop!Threads, d_at[t].pc # Desktop!Nil
    PROVE  \A u \in Desktop!Threads : u # t => d_at[u].pc = Desktop!Nil
  BY ThreadNames DEF Desktop!ThreadsOK

\* The names of processes stay, unless processes change.
LEMMA SameProcesses ==
    ASSUME Desktop!TypeOK, d_app' = d_app, d_app, d_updates' \in BOOLEAN, d_mishap' \in BOOLEAN, UNCHANGED Desktop!procs,
           d_at' \in [Desktop!Threads -> Desktop!Frames],
           d_version' \in 1 .. MaxVersion, d_data' \in 0 .. MaxVersion, d_installer' \in 0 .. MaxVersion,
           d_pending' \in Desktop!Records \cup {Desktop!NoRecord}, d_recovery' \in Desktop!Records \cup {Desktop!NoRecord}
    PROVE  Desktop!TypeOK'
<1>1. d_children' = d_children /\ d_alive' = d_alive /\ d_asked' = d_asked /\ d_bad' = d_bad
  BY DEF Desktop!procs
<1> QED BY <1>1 DEF Desktop!TypeOK

\* The same for the processes, when a thread goes on and none starts.
LEMMA SameKnown ==
    ASSUME Desktop!TypeOK, Desktop!ThreadsOK, Desktop!ProcessesKnown, UNCHANGED Desktop!procs, NEW t \in Desktop!Threads, ~d_mishap => d_at[t].pc # Desktop!Nil,
           ~d_mishap' => ~d_mishap, d_at[t].pc # "stop", d_at'[t].pc # "stop",
           d_at'[t].pc \in {"stopped", "snapshot", "record", "launch", "stage", "move", "swap"} => (~d_mishap => d_children = <<>>),
           \A u \in Desktop!Threads : u # t => d_at'[u] = d_at[u]
    PROVE  Desktop!ProcessesKnown'
<1> SUFFICES ASSUME ~d_mishap'
             PROVE  /\ \A u \in Desktop!Threads :
                        /\ d_at'[u].pc = "stop" => d_alive' \subseteq Desktop!Range(d_at'[u].left)
                        /\ d_at'[u].pc \in {"stopped", "snapshot", "record", "launch", "stage", "move", "swap"} => d_children' = <<>>
                    /\ (\A u \in Desktop!Threads : d_at'[u].pc # "stop") => d_alive' \subseteq Desktop!Range(d_children')
  BY DEF Desktop!ProcessesKnown
<1>1. d_children' = d_children /\ d_alive' = d_alive
  BY DEF Desktop!procs
<1>2. \A u \in Desktop!Threads : u # t => d_at[u].pc = Desktop!Nil
  BY Alone
<1>3. \A u \in Desktop!Threads : u # t => d_at'[u].pc = Desktop!Nil
  BY <1>2
<1>4. \A u \in Desktop!Threads : d_at[u].pc # "stop" /\ d_at'[u].pc # "stop"
  BY <1>2, <1>3 DEF Desktop!Nil
<1>5. d_alive \subseteq Desktop!Range(d_children)
  BY <1>4 DEF Desktop!ProcessesKnown
<1>6. \A u \in Desktop!Threads : d_at'[u].pc \in {"stopped", "snapshot", "record", "launch", "stage", "move", "swap"} => d_children' = <<>>
  BY <1>1, <1>3 DEF Desktop!Nil
<1> QED BY <1>1, <1>4, <1>5, <1>6

\* The same when it begins to stop them.
LEMMA StopKnown ==
    ASSUME Desktop!TypeOK, Desktop!ThreadsOK, Desktop!ProcessesKnown, NEW t \in Desktop!Threads, Desktop!BeginsStop(t), UNCHANGED <<Desktop!procs, d_mishap>>,
           d_at[t].pc # Desktop!Nil, d_at[t].pc # "stop"
    PROVE  Desktop!ProcessesKnown'
<1> SUFFICES ASSUME ~d_mishap
             PROVE  /\ \A u \in Desktop!Threads :
                        /\ d_at'[u].pc = "stop" => d_alive' \subseteq Desktop!Range(d_at'[u].left)
                        /\ d_at'[u].pc \in {"stopped", "snapshot", "record", "launch", "stage", "move", "swap"} => d_children' = <<>>
                    /\ (\A u \in Desktop!Threads : d_at'[u].pc # "stop") => d_alive' \subseteq Desktop!Range(d_children')
  BY DEF Desktop!ProcessesKnown
<1>1. d_children' = d_children /\ d_alive' = d_alive
  BY DEF Desktop!procs
<1>2. \A u \in Desktop!Threads : u # t => d_at[u].pc = Desktop!Nil
  BY Alone
<1>3. \A u \in Desktop!Threads : d_at[u].pc # "stop"
  BY <1>2 DEF Desktop!Nil
<1>4. d_alive \subseteq Desktop!Range(d_children)
  BY <1>3 DEF Desktop!ProcessesKnown
<1>5. /\ d_at'[t].pc = "stop" /\ Desktop!Range(d_at'[t].left) = Desktop!Range(d_children)
      /\ \A u \in Desktop!Threads : u # t => d_at'[u].pc = Desktop!Nil
  BY <1>2, StopBegins
<1> QED BY <1>1, <1>4, <1>5 DEF Desktop!Nil

\* What holds of the sets the bounds and the services make.
LEMMA Ranges ==
    ASSUME Desktop!TypeOK
    PROVE  /\ MaxVersion \in Nat /\ MaxProcesses \in Nat /\ d_version \in Nat /\ d_data \in Nat
           /\ d_version \in 0 .. MaxVersion
           /\ Desktop!Larger(d_data, d_version) \in {d_data, d_version}
           /\ Desktop!Working \subseteq Desktop!Pcs["boot"] \cup Desktop!Pcs["op"]
           /\ \A n \in 1 .. Len(Services) : Services[n] \in Desktop!Range(Services)
<1>1. Services \in Seq({Services[i] : i \in DOMAIN Services}) /\ MaxVersion \in Nat /\ MaxProcesses \in Nat
  BY AccessAssumption
<1>2. DOMAIN Services = 1 .. Len(Services)
  BY <1>1
<1>3. d_version \in Nat /\ d_data \in Nat /\ d_version \in 0 .. MaxVersion
  BY <1>1 DEF Desktop!TypeOK
<1>4. Desktop!Larger(d_data, d_version) \in {d_data, d_version}
  BY DEF Desktop!Larger
<1>5. Desktop!Working \subseteq Desktop!Pcs["boot"] \cup Desktop!Pcs["op"]
  BY DEF Desktop!Pcs
<1>6. \A n \in 1 .. Len(Services) : Services[n] \in Desktop!Range(Services)
  BY <1>2 DEF Desktop!Range
<1> QED BY <1>1, <1>3, <1>4, <1>5, <1>6

\* The steps of starting the services.
LEMMA StartStepHolds ==
    ASSUME Desktop!ShellInv, NEW t \in Desktop!Threads, Desktop!start(t) \/ Desktop!Started(t) \/ Desktop!StartFails(t)
    PROVE  Desktop!ShellInv'
<1>1. Desktop!TypeOK /\ Desktop!ThreadsOK /\ Desktop!RecordsOK /\ Desktop!ProcessesKnown
  BY DEF Desktop!ShellInv
<1>2. d_app /\ UNCHANGED <<d_app, d_updates, Desktop!disk, Desktop!procs, d_page, d_recovery, Desktop!counts, d_mishap>>
  BY DEF Desktop!start, Desktop!Started, Desktop!StartFails, Desktop!At
<1>3. d_at[t].pc \in {"start", "spawn", "stopped"}
  BY DEF Desktop!start, Desktop!Started, Desktop!StartFails, Desktop!At
<1>4. /\ d_at' \in [Desktop!Threads -> Desktop!Frames] /\ d_at'[t].do = d_at[t].do
      /\ d_at'[t].pc \in {"start failed", "prepare", "started"}
      /\ d_at'[t].pc = "prepare" => d_at'[t].n > 0
      /\ \A u \in Desktop!Threads : u # t => d_at'[u] = d_at[u]
  <2>1. {"start failed", "prepare", "started"} \subseteq Desktop!Pcs["boot"] \cup Desktop!Pcs["op"]
    BY DEF Desktop!Pcs, Desktop!Working
  <2>2. CASE \E pc \in {"start failed", "started"} : Desktop!Goto(t, pc)
    BY <1>1, <2>1, <2>2, GoesTo
  <2>3. CASE d_at' = [d_at EXCEPT ![t].pc = "prepare", ![t].n = 1]
    <3>1. d_at[t] \in Desktop!Frames /\ d_at'[t] = [d_at[t] EXCEPT !.pc = "prepare", !.n = 1]
      BY <1>1, <2>3 DEF Desktop!TypeOK
    <3>2. "prepare" \in Desktop!Pcs["boot"] \cup Desktop!Pcs["op"] /\ 1 \in Nat
      BY <2>1
    <3>3. d_at'[t] \in Desktop!Frames /\ d_at'[t].pc = "prepare" /\ d_at'[t].n = 1 /\ d_at'[t].do = d_at[t].do
      BY <3>1, <3>2 DEF Desktop!Frames
    <3> QED BY <1>1, <2>3, <3>3 DEF Desktop!TypeOK
  <2> QED BY <2>2, <2>3 DEF Desktop!start, Desktop!Started, Desktop!StartFails
<1>5. Desktop!TypeOK'
  BY <1>1, <1>2, <1>4, Ranges, SameProcesses DEF Desktop!TypeOK, Desktop!disk
<1>6. Works(t)
  BY <1>2, <1>3, <1>4 DEF Works, Desktop!Working, Desktop!disk
<1>7. Desktop!ProcessesKnown'
  BY <1>1, <1>2, <1>3, <1>4, SameKnown DEF Desktop!Nil
<1> QED BY <1>1, <1>5, <1>6, <1>7, WorkingThreads, WorkingRecords DEF Desktop!ShellInv

\* The services are prepared, or one is found healthy, or the start fails.
LEMMA PrepareHolds ==
    ASSUME Desktop!ShellInv, NEW t \in Desktop!Threads, Desktop!prepare(t) \/ Desktop!health(t)
    PROVE  Desktop!ShellInv'
<1>1. Desktop!TypeOK /\ Desktop!ThreadsOK /\ Desktop!RecordsOK /\ Desktop!ProcessesKnown
  BY DEF Desktop!ShellInv
<1>2. /\ d_app /\ UNCHANGED <<d_app, d_updates, d_version, d_pending, d_installer, Desktop!procs, d_page, d_recovery, d_mishap>>
      /\ d_at[t].pc \in {"prepare", "health"}
      /\ d_data' = d_data \/ d_data' = d_version
  BY DEF Desktop!prepare, Desktop!health, Desktop!At, Desktop!disk
<1>3. d_at[t].n > 0 /\ d_at[t] \in Desktop!Frames /\ d_at[t].n \in Nat
  BY <1>1, <1>2 DEF Desktop!ThreadsOK, Desktop!TypeOK, Desktop!Frames
<1>4. CASE Desktop!BeginsStop(t)
  <2>1. /\ d_at' \in [Desktop!Threads -> Desktop!Frames]
        /\ d_at'[t].pc = "stop" /\ d_at'[t].do = d_at[t].do /\ d_at'[t].n = d_at[t].n
        /\ \A u \in Desktop!Threads : u # t => d_at'[u] = d_at[u]
    BY <1>1, <1>4, StopBegins
  <2>2. Desktop!TypeOK'
    BY <1>1, <1>2, <2>1, Ranges, SameProcesses DEF Desktop!TypeOK
  <2>3. Works(t)
    <3>1. d_at'[t].n # 0
      BY <1>3, <2>1
    <3> QED BY <1>2, <2>1, <3>1 DEF Works, Desktop!Working
  <2>4. Desktop!ProcessesKnown'
    BY <1>1, <1>2, <1>4, StopKnown DEF Desktop!Nil
  <2> QED BY <1>1, <2>2, <2>3, <2>4, WorkingThreads, WorkingRecords DEF Desktop!ShellInv
<1>5. CASE Desktop!Goto(t, "spawn") \/ d_at' = [d_at EXCEPT ![t].pc = "spawn", ![t].n = @ + 1, ![t].proc = <<>>]
  <2>1. "spawn" \in Desktop!Pcs["boot"] \cup Desktop!Pcs["op"]
    BY DEF Desktop!Pcs, Desktop!Working
  <2>2. /\ d_at' \in [Desktop!Threads -> Desktop!Frames]
        /\ d_at'[t].pc = "spawn" /\ d_at'[t].do = d_at[t].do /\ d_at'[t].n > 0
        /\ \A u \in Desktop!Threads : u # t => d_at'[u] = d_at[u]
    <3>1. CASE Desktop!Goto(t, "spawn")
      BY <1>1, <1>3, <2>1, <3>1, GoesTo
    <3>2. CASE d_at' = [d_at EXCEPT ![t].pc = "spawn", ![t].n = @ + 1, ![t].proc = <<>>]
      <4>1. d_at'[t] = [d_at[t] EXCEPT !.pc = "spawn", !.n = d_at[t].n + 1, !.proc = <<>>]
        BY <1>1, <3>2 DEF Desktop!TypeOK
      <4>2. d_at[t].n + 1 \in Nat /\ d_at[t].n + 1 > 0
        BY <1>3
      <4>3. d_at'[t] \in Desktop!Frames /\ d_at'[t].pc = "spawn" /\ d_at'[t].n = d_at[t].n + 1 /\ d_at'[t].do = d_at[t].do
        BY <1>3, <2>1, <4>1, <4>2 DEF Desktop!Frames
      <4> QED BY <1>1, <3>2, <4>2, <4>3 DEF Desktop!TypeOK
    <3> QED BY <1>5, <3>1, <3>2
  <2>3. Desktop!TypeOK'
    BY <1>1, <1>2, <2>2, Ranges, SameProcesses DEF Desktop!TypeOK
  <2>4. Works(t)
    BY <1>2, <1>3, <2>2 DEF Works, Desktop!Working
  <2>5. Desktop!ProcessesKnown'
    BY <1>1, <1>2, <2>2, SameKnown DEF Desktop!Nil
  <2> QED BY <1>1, <2>3, <2>4, <2>5, WorkingThreads, WorkingRecords DEF Desktop!ShellInv
<1> QED BY <1>4, <1>5 DEF Desktop!prepare, Desktop!health

\* A service is started: its process is a new one.
LEMMA SpawnHolds ==
    ASSUME Desktop!ShellInv, NEW t \in Desktop!Threads, Desktop!spawn(t)
    PROVE  Desktop!ShellInv'
<1>1. Desktop!TypeOK /\ Desktop!ThreadsOK /\ Desktop!RecordsOK /\ Desktop!ProcessesKnown
  BY DEF Desktop!ShellInv
<1>2. /\ d_app /\ UNCHANGED <<d_app, d_updates, d_version, d_pending, d_installer, d_asked, d_page, d_recovery, d_mishap>>
      /\ d_at[t].pc = "spawn" /\ d_data' \in {d_data, d_version}
  BY <1>1, Ranges DEF Desktop!spawn, Desktop!At
<1>3. d_at[t].n > 0 /\ d_at[t] \in Desktop!Frames /\ d_at[t].n \in Nat
  BY <1>1, <1>2 DEF Desktop!ThreadsOK, Desktop!TypeOK, Desktop!Frames
<1>4. PICK p \in {Services[d_at[t].n]} \X (1 .. MaxProcesses) :
        /\ Desktop!Fresh(p) /\ d_children' = Append(d_children, p)
        /\ (d_alive' = d_alive /\ d_bad' = d_bad \cup {p}) \/ (d_alive' = d_alive \cup {p} /\ d_bad' = d_bad \ {p})
        /\ d_at' = [d_at EXCEPT ![t].pc = "health", ![t].proc = p]
  BY DEF Desktop!spawn
<1>5. p \in Desktop!Processes
  <2>1. d_at[t].n \in 1 .. Len(Services)
    <3>1. d_at[t].n <= Len(Services) /\ Len(Services) \in Nat
      BY AccessAssumption DEF Desktop!spawn
    <3> QED BY <1>3, <3>1
  <2>2. Services[d_at[t].n] \in Desktop!Range(Services)
    BY <1>1, <2>1, Ranges
  <2> QED BY <1>4, <2>2 DEF Desktop!Processes
<1>6. p \notin d_alive /\ p \notin Desktop!Range(d_children)
  BY <1>4 DEF Desktop!Fresh, Desktop!Named
<1>7. /\ d_at' \in [Desktop!Threads -> Desktop!Frames]
      /\ d_at'[t].pc = "health" /\ d_at'[t].do = d_at[t].do /\ d_at'[t].n = d_at[t].n
      /\ \A u \in Desktop!Threads : u # t => d_at'[u] = d_at[u]
  <2>1. "health" \in Desktop!Pcs["boot"] \cup Desktop!Pcs["op"]
    BY DEF Desktop!Pcs, Desktop!Working
  <2>2. d_at'[t] = [d_at[t] EXCEPT !.pc = "health", !.proc = p]
    BY <1>1, <1>4 DEF Desktop!TypeOK
  <2>3. d_at'[t] \in Desktop!Frames /\ d_at'[t].pc = "health" /\ d_at'[t].n = d_at[t].n /\ d_at'[t].do = d_at[t].do
    BY <1>3, <1>5, <2>1, <2>2 DEF Desktop!Frames
  <2> QED BY <1>1, <1>4, <2>3 DEF Desktop!TypeOK
<1>8. /\ d_children' \in Seq(Desktop!Processes) /\ Len(d_children') = Len(d_children) + 1 /\ Len(d_children) \in Nat
      /\ DOMAIN d_children' = 1 .. Len(d_children) + 1 /\ DOMAIN d_children = 1 .. Len(d_children)
      /\ \A i \in 1 .. Len(d_children) : d_children'[i] = d_children[i]
      /\ d_children'[Len(d_children) + 1] = p
  BY <1>1, <1>4, <1>5 DEF Desktop!TypeOK
<1>9. Desktop!Range(d_children') = Desktop!Range(d_children) \cup {p}
  BY <1>8 DEF Desktop!Range
<1>10. Desktop!TypeOK'
  <2>1. \A i \in DOMAIN d_children : d_children[i] # p
    BY <1>6 DEF Desktop!Range
  <2>2. \A i, j \in DOMAIN d_children' : d_children'[i] = d_children'[j] => i = j
    <3>1. \A i, j \in 1 .. Len(d_children) : d_children[i] = d_children[j] => i = j
      BY <1>1, <1>8 DEF Desktop!TypeOK
    <3> QED BY <1>8, <2>1, <3>1
  <2>3. d_alive' \subseteq Desktop!Processes /\ d_asked' \subseteq d_alive' /\ d_alive' \cap d_bad' = {}
    BY <1>1, <1>2, <1>4, <1>5, <1>6 DEF Desktop!TypeOK
  <2>4. d_data' \in 0 .. MaxVersion
    BY <1>1, <1>2, Ranges DEF Desktop!TypeOK
  <2> QED BY <1>1, <1>2, <1>7, <1>8, <2>2, <2>3, <2>4 DEF Desktop!TypeOK
<1>11. Works(t)
  BY <1>2, <1>3, <1>7 DEF Works, Desktop!Working
<1>12. Desktop!ProcessesKnown'
  <2> SUFFICES ASSUME ~d_mishap
               PROVE  /\ \A u \in Desktop!Threads :
                          /\ d_at'[u].pc = "stop" => d_alive' \subseteq Desktop!Range(d_at'[u].left)
                          /\ d_at'[u].pc \in {"stopped", "snapshot", "record", "launch", "stage", "move", "swap"} => d_children' = <<>>
                      /\ (\A u \in Desktop!Threads : d_at'[u].pc # "stop") => d_alive' \subseteq Desktop!Range(d_children')
    BY <1>2 DEF Desktop!ProcessesKnown
  <2>1. \A u \in Desktop!Threads : u # t => d_at[u].pc = Desktop!Nil
    BY <1>1, <1>2, Alone DEF Desktop!Nil
  <2>2. d_alive \subseteq Desktop!Range(d_children)
    BY <1>1, <1>2, <2>1 DEF Desktop!ProcessesKnown, Desktop!Nil
  <2>3. \A u \in Desktop!Threads : d_at'[u].pc \in {Desktop!Nil, "health"}
    BY <1>7, <2>1
  <2> QED BY <1>4, <1>9, <2>2, <2>3 DEF Desktop!Nil
<1> QED BY <1>1, <1>10, <1>11, <1>12, WorkingThreads, WorkingRecords DEF Desktop!ShellInv

\* The processes are stopped, one after the other.
LEMMA StopStepHolds ==
    ASSUME Desktop!ShellInv, NEW t \in Desktop!Threads, Desktop!stop(t)
    PROVE  Desktop!ShellInv'
<1> DEFINE p == Head(d_at[t].left)
<1>1. Desktop!TypeOK /\ Desktop!ThreadsOK /\ Desktop!RecordsOK /\ Desktop!ProcessesKnown
  BY DEF Desktop!ShellInv
<1>2. /\ d_app /\ UNCHANGED <<d_app, d_updates, d_version, d_data, d_pending, d_installer, d_children, d_alive, d_bad, d_page, d_recovery, d_mishap>>
      /\ d_at[t].pc = "stop" /\ d_at[t].left # <<>>
      /\ IF p \in d_alive
         THEN d_asked' = d_asked \cup {p} /\ d_at' = d_at
         ELSE d_at' = [d_at EXCEPT ![t].left = Tail(@), ![t].failed = @ \/ p \in d_bad] /\ d_asked' = d_asked
  BY DEF Desktop!stop, Desktop!At, Desktop!disk
<1>3. /\ d_at[t] \in Desktop!Frames /\ d_at[t].left \in Seq(Desktop!Processes) /\ d_at[t].failed \in BOOLEAN
  BY <1>1 DEF Desktop!TypeOK, Desktop!Frames
<1>4. CASE p \in d_alive
  <2>1. d_at' = d_at /\ d_asked' = d_asked \cup {p}
    BY <1>2, <1>4
  <2> HIDE DEF p
  <2>2. d_asked' \subseteq d_alive'
    BY <1>1, <1>2, <1>4, <2>1 DEF Desktop!TypeOK
  <2>3. Desktop!TypeOK'
    BY <1>1, <1>2, <2>1, <2>2 DEF Desktop!TypeOK
  <2>4. Desktop!ThreadsOK' /\ Desktop!RecordsOK' /\ Desktop!ProcessesKnown'
    BY <1>1, <1>2, <2>1 DEF Desktop!ThreadsOK, Desktop!RecordsOK, Desktop!Restores, Desktop!ProcessesKnown
  <2> QED BY <2>3, <2>4 DEF Desktop!ShellInv
<1>5. CASE p \notin d_alive
  <2>1. /\ d_at'[t] = [d_at[t] EXCEPT !.left = Tail(d_at[t].left), !.failed = d_at[t].failed \/ p \in d_bad]
        /\ d_asked' = d_asked /\ DOMAIN d_at' = Desktop!Threads
        /\ \A u \in Desktop!Threads : u # t => d_at'[u] = d_at[u]
    BY <1>1, <1>2, <1>5 DEF Desktop!TypeOK
  <2>2. Tail(d_at[t].left) \in Seq(Desktop!Processes) /\ Desktop!Range(d_at[t].left) \subseteq Desktop!Range(Tail(d_at[t].left)) \cup {p}
    <3>1. /\ Len(d_at[t].left) \in Nat \ {0} /\ DOMAIN d_at[t].left = 1 .. Len(d_at[t].left)
          /\ Tail(d_at[t].left) \in Seq(Desktop!Processes)
          /\ DOMAIN Tail(d_at[t].left) = 1 .. Len(d_at[t].left) - 1
          /\ \A i \in 1 .. Len(d_at[t].left) - 1 : Tail(d_at[t].left)[i] = d_at[t].left[i + 1]
          /\ p = d_at[t].left[1]
      BY <1>2, <1>3
    <3>2. \A i \in 1 .. Len(d_at[t].left) : i # 1 => i - 1 \in 1 .. Len(d_at[t].left) - 1 /\ d_at[t].left[i] = Tail(d_at[t].left)[i - 1]
      BY <3>1
    <3> DEFINE l == d_at[t].left
               r == Tail(d_at[t].left)
    <3>3. Desktop!Range(l) = {l[i] : i \in 1 .. Len(l)} /\ \A i \in 1 .. Len(l) - 1 : r[i] \in Desktop!Range(r)
      BY <3>1 DEF Desktop!Range
    <3>4. \A i \in 1 .. Len(l) : l[i] = p \/ l[i] \in Desktop!Range(r)
      BY <3>1, <3>2, <3>3
    <3> QED BY <3>1, <3>3, <3>4
  <2> HIDE DEF p
  <2>3. (d_at[t].failed \/ p \in d_bad) \in BOOLEAN
    OBVIOUS
  <2>4. /\ d_at'[t] \in Desktop!Frames
        /\ d_at'[t].pc = "stop" /\ d_at'[t].do = d_at[t].do /\ d_at'[t].n = d_at[t].n
        /\ d_at'[t].left = Tail(d_at[t].left)
    BY <1>2, <1>3, <2>1, <2>2, <2>3 DEF Desktop!Frames
  <2>5. d_at' \in [Desktop!Threads -> Desktop!Frames]
    BY <1>1, <1>2, <1>5, <2>1, <2>4 DEF Desktop!TypeOK
  <2>6. Desktop!TypeOK'
    BY <1>1, <1>2, <2>1, <2>5 DEF Desktop!TypeOK
  <2>7. Works(t)
    BY <1>2, <2>1, <2>4 DEF Works, Desktop!Working
  <2>8. Desktop!ProcessesKnown'
    <3>1. \A u \in Desktop!Threads : u # t => d_at'[u] = d_at[u]
      BY <2>1
    <3>2. ~d_mishap => d_alive \subseteq Desktop!Range(d_at[t].left)
      BY <1>1, <1>2 DEF Desktop!ProcessesKnown
    <3>3. ~d_mishap => d_alive \subseteq Desktop!Range(d_at'[t].left)
      BY <1>5, <2>2, <2>4, <3>2
    <3> QED BY <1>1, <1>2, <2>4, <3>1, <3>3 DEF Desktop!ProcessesKnown
  <2> QED BY <1>1, <2>6, <2>7, <2>8, WorkingThreads, WorkingRecords DEF Desktop!ShellInv
<1> QED BY <1>4, <1>5
LEMMA AbandonHolds ==
    ASSUME Desktop!ShellInv, NEW t \in Desktop!Threads, Desktop!abandon(t)
    PROVE  Desktop!ShellInv'
<1>1. Desktop!TypeOK /\ Desktop!ThreadsOK /\ Desktop!RecordsOK /\ Desktop!ProcessesKnown
  BY DEF Desktop!ShellInv
<1>2. /\ d_app /\ UNCHANGED <<d_app, d_updates, d_version, d_data, d_pending, d_installer, d_page, d_recovery>> /\ UNCHANGED Desktop!procs
      /\ d_at[t].pc = "stop" /\ d_at[t].left # <<>> /\ d_mishap' = TRUE
      /\ d_at' = [d_at EXCEPT ![t].left = Tail(@), ![t].failed = TRUE]
  BY DEF Desktop!abandon, Desktop!At, Desktop!disk
<1>3. d_at[t] \in Desktop!Frames /\ d_at[t].left \in Seq(Desktop!Processes)
  BY <1>1 DEF Desktop!TypeOK, Desktop!Frames
<1>4. /\ d_at'[t] = [d_at[t] EXCEPT !.left = Tail(d_at[t].left), !.failed = TRUE]
      /\ DOMAIN d_at' = Desktop!Threads
      /\ \A u \in Desktop!Threads : u # t => d_at'[u] = d_at[u]
  BY <1>1, <1>2 DEF Desktop!TypeOK
<1>5. Tail(d_at[t].left) \in Seq(Desktop!Processes)
  BY <1>2, <1>3
<1>6. /\ d_at'[t] \in Desktop!Frames
      /\ d_at'[t].pc = "stop" /\ d_at'[t].do = d_at[t].do /\ d_at'[t].n = d_at[t].n
  BY <1>2, <1>3, <1>4, <1>5 DEF Desktop!Frames
<1>7. d_at' \in [Desktop!Threads -> Desktop!Frames]
  BY <1>1, <1>2, <1>4, <1>6 DEF Desktop!TypeOK
<1>8. Desktop!TypeOK'
  BY <1>1, <1>2, <1>7, SameProcesses DEF Desktop!TypeOK
<1>9. Works(t)
  BY <1>2, <1>4, <1>6 DEF Works, Desktop!Working
<1>10. Desktop!ProcessesKnown'
  BY <1>2 DEF Desktop!ProcessesKnown
<1> QED BY <1>1, <1>8, <1>9, <1>10, WorkingThreads, WorkingRecords DEF Desktop!ShellInv
LEMMA StoppedHolds ==
    ASSUME Desktop!ShellInv, NEW t \in Desktop!Threads, Desktop!Stopped(t)
    PROVE  Desktop!ShellInv'
<1>1. Desktop!TypeOK /\ Desktop!ThreadsOK /\ Desktop!RecordsOK /\ Desktop!ProcessesKnown
  BY DEF Desktop!ShellInv
<1>2. /\ d_app /\ UNCHANGED <<d_app, d_updates, d_version, d_data, d_pending, d_installer, d_alive, d_asked, d_bad, d_page, d_recovery, d_mishap>>
      /\ d_at[t].pc = "stop" /\ d_at[t].left = <<>> /\ d_children' = <<>> /\ Desktop!Goto(t, "stopped")
  BY DEF Desktop!Stopped, Desktop!At, Desktop!disk
<1>3. /\ d_at' \in [Desktop!Threads -> Desktop!Frames]
      /\ d_at'[t].pc = "stopped" /\ d_at'[t].do = d_at[t].do /\ d_at'[t].n = d_at[t].n
      /\ \A u \in Desktop!Threads : u # t => d_at'[u] = d_at[u]
  <2>1. "stopped" \in Desktop!Pcs["boot"] \cup Desktop!Pcs["op"]
    BY DEF Desktop!Pcs, Desktop!Working
  <2> QED BY <1>1, <1>2, <2>1, GoesTo
<1>4. Desktop!TypeOK'
  <2>1. d_children' \in Seq(Desktop!Processes) /\ \A i, j \in DOMAIN d_children' : d_children'[i] = d_children'[j] => i = j
    BY <1>2
  <2> QED BY <1>1, <1>2, <1>3, <2>1 DEF Desktop!TypeOK
<1>5. Works(t)
  BY <1>2, <1>3 DEF Works, Desktop!Working
<1>6. Desktop!ProcessesKnown'
  <2>1. \A u \in Desktop!Threads : u # t => (~d_mishap => d_at[u].pc = Desktop!Nil)
    BY <1>1, <1>2, Alone DEF Desktop!Nil
  <2>2. Desktop!Range(<<>>) = {}
    BY DEF Desktop!Range
  <2>3. ~d_mishap => d_alive = {}
    BY <1>1, <1>2, <2>2 DEF Desktop!ProcessesKnown
  <2> QED BY <1>2, <1>3, <2>1, <2>3 DEF Desktop!ProcessesKnown, Desktop!Nil
<1> QED BY <1>1, <1>4, <1>5, <1>6, WorkingThreads, WorkingRecords DEF Desktop!ShellInv

\* A process exits.
LEMMA ExitHolds ==
    ASSUME Desktop!ShellInv, Desktop!Exits
    PROVE  Desktop!ShellInv'
<1>1. Desktop!TypeOK /\ Desktop!ThreadsOK /\ Desktop!RecordsOK /\ Desktop!ProcessesKnown
  BY DEF Desktop!ShellInv
<1>2. PICK p \in d_alive :
        /\ d_alive' = d_alive \ {p} /\ d_asked' = d_asked \ {p} /\ (d_bad' = d_bad \/ d_bad' = d_bad \cup {p})
        /\ UNCHANGED <<d_app, d_updates, d_version, d_data, d_pending, d_installer, d_children, d_page, d_recovery, d_at, d_mishap>>
  BY DEF Desktop!Exits, Desktop!disk
<1>3. d_asked' \subseteq d_alive' /\ d_alive' \cap d_bad' = {} /\ d_alive' \subseteq d_alive
  BY <1>1, <1>2 DEF Desktop!TypeOK
<1>4. Desktop!TypeOK'
  BY <1>1, <1>2, <1>3 DEF Desktop!TypeOK
<1>5. Desktop!ThreadsOK' /\ Desktop!RecordsOK'
  BY <1>1, <1>2 DEF Desktop!ThreadsOK, Desktop!RecordsOK, Desktop!Restores
<1>6. Desktop!ProcessesKnown'
  BY <1>1, <1>2, <1>3 DEF Desktop!ProcessesKnown
<1> QED BY <1>4, <1>5, <1>6 DEF Desktop!ShellInv

\* The application goes off: nothing runs.
LEMMA OffHolds ==
    ASSUME Desktop!ShellInv, Desktop!Off, d_app, d_version' = d_version, d_data' = d_data, d_pending' = d_pending, d_recovery' = d_recovery,
           d_installer' = d_installer \/ (d_pending # Desktop!NoRecord /\ d_installer' \in {d_pending.from, d_pending.to})
    PROVE  Desktop!ShellInv'
<1>1. Desktop!TypeOK /\ Desktop!RecordsOK
  BY DEF Desktop!ShellInv
<1>2. /\ d_app' = FALSE /\ d_updates' = FALSE /\ d_at' = [t \in Desktop!Threads |-> Desktop!Idle] /\ d_mishap' = FALSE
      /\ d_children' = <<>> /\ d_alive' = {} /\ d_asked' = {} /\ d_bad' = {}
  BY DEF Desktop!Off
<1>3. d_installer = 0
  BY <1>1 DEF Desktop!RecordsOK
<1>4. d_installer' \in 0 .. MaxVersion /\ (d_installer' # 0 => d_pending # Desktop!NoRecord /\ d_installer' \in {d_pending.from, d_pending.to})
  <2>1. d_pending # Desktop!NoRecord => d_pending.from \in 1 .. MaxVersion /\ d_pending.to \in 1 .. MaxVersion
    BY <1>1 DEF Desktop!TypeOK, Desktop!Records
  <2> QED BY <1>1, <1>3, <2>1, AccessAssumption
<1>5. \A t \in Desktop!Threads : d_at'[t] = Desktop!Idle /\ d_at'[t].pc = Desktop!Nil /\ d_at'[t].do = Desktop!Nil
  BY <1>2, ThreadNames
<1>6. Desktop!TypeOK'
  <2>1. d_at' \in [Desktop!Threads -> Desktop!Frames]
    BY <1>2, ThreadNames
  <2>2. d_children' \in Seq(Desktop!Processes) /\ \A i, j \in DOMAIN d_children' : d_children'[i] = d_children'[j] => i = j
    BY <1>2
  <2> QED BY <1>1, <1>2, <1>4, <2>1, <2>2 DEF Desktop!TypeOK
<1>7. Desktop!ThreadsOK'
  <2>1. \A t \in Desktop!Threads : Desktop!Nil \in Desktop!Pcs[t] /\ Desktop!Nil \in Desktop!Dos[t]
    <3>1. Desktop!Nil \in Desktop!Pcs["boot"] /\ Desktop!Nil \in Desktop!Pcs["op"] /\ Desktop!Nil \in Desktop!Dos["boot"] /\ Desktop!Nil \in Desktop!Dos["op"]
      BY DEF Desktop!Pcs, Desktop!Dos
    <3> QED BY <3>1, ThreadNames
  <2> QED BY <1>5, <2>1, ThreadNames DEF Desktop!ThreadsOK, Desktop!Nil
<1>8. Desktop!RecordsOK'
  BY <1>1, <1>2, <1>4, <1>5, ThreadNames DEF Desktop!RecordsOK, Desktop!Restores, Desktop!Nil
<1>9. Desktop!ProcessesKnown'
  BY <1>2, <1>5 DEF Desktop!ProcessesKnown, Desktop!Nil
<1> QED BY <1>6, <1>7, <1>8, <1>9 DEF Desktop!ShellInv

\* The boot.
LEMMA LaunchHolds ==
    ASSUME Desktop!ShellInv, Desktop!Launch
    PROVE  Desktop!ShellInv'
<1>1. Desktop!TypeOK /\ Desktop!ThreadsOK /\ Desktop!RecordsOK /\ Desktop!ProcessesKnown
  BY DEF Desktop!ShellInv
<1>2. /\ ~d_app /\ d_installer = 0 /\ d_app' = TRUE /\ d_recovery' = Desktop!NoRecord /\ Desktop!Begin("boot", "boot", "read")
      /\ UNCHANGED <<d_updates, d_version, d_data, d_pending, d_installer, d_children, d_alive, d_asked, d_bad, d_mishap>>
  BY DEF Desktop!Launch, Desktop!disk, Desktop!procs
<1>3. /\ d_at = [t \in Desktop!Threads |-> Desktop!Idle] /\ d_updates = FALSE /\ d_alive = {} /\ d_children = <<>>
      /\ d_at["op"].pc = Desktop!Nil /\ d_at["op"].do = Desktop!Nil
  BY <1>1, <1>2, ThreadNames DEF Desktop!TypeOK, Desktop!RecordsOK
<1>4. /\ d_at' \in [Desktop!Threads -> Desktop!Frames]
      /\ d_at'["boot"].pc = "read" /\ d_at'["boot"].do = "boot" /\ d_at'["boot"].n = 0
      /\ d_at'["op"] = d_at["op"]
  <2>1. "boot" \in Desktop!Dos["boot"] /\ "read" \in Desktop!Pcs["boot"]
    BY DEF Desktop!Dos, Desktop!Pcs
  <2> QED BY <1>1, <1>2, <2>1, Begins, ThreadNames
<1>5. Desktop!TypeOK'
  BY <1>1, <1>2, <1>4 DEF Desktop!TypeOK
<1>6. Desktop!ThreadsOK'
  <2>1. "boot" \in Desktop!Dos["boot"] /\ "read" \in Desktop!Pcs["boot"]
    BY DEF Desktop!Dos, Desktop!Pcs
  <2>2. /\ d_at'["op"].pc = Desktop!Nil /\ d_at'["op"].do = Desktop!Nil /\ Desktop!Nil = "none"
        /\ Desktop!Nil \in Desktop!Pcs["op"] /\ Desktop!Nil \in Desktop!Dos["op"]
    BY <1>3, <1>4 DEF Desktop!Pcs, Desktop!Dos, Desktop!Nil
  <2> QED BY <1>4, <2>1, <2>2, ThreadNames DEF Desktop!ThreadsOK
<1>7. Desktop!RecordsOK'
  BY <1>1, <1>2, <1>3, <1>4 DEF Desktop!RecordsOK, Desktop!Restores, Desktop!Nil
<1>8. Desktop!ProcessesKnown'
  BY <1>2, <1>3, <1>4, ThreadNames DEF Desktop!ProcessesKnown, Desktop!Nil
<1> QED BY <1>5, <1>6, <1>7, <1>8 DEF Desktop!ShellInv
LEMMA BootReadsHolds ==
    ASSUME Desktop!ShellInv, Desktop!BootReads
    PROVE  Desktop!ShellInv'
<1>1. Desktop!TypeOK /\ Desktop!ThreadsOK /\ Desktop!RecordsOK /\ Desktop!ProcessesKnown
  BY DEF Desktop!ShellInv
<1>2. /\ d_app /\ d_at["boot"].pc = "read" /\ d_recovery' = d_pending
      /\ \/ d_pending # Desktop!NoRecord /\ d_version # d_pending.to /\ Desktop!Done("boot")
         \/ (d_pending # Desktop!NoRecord => d_version = d_pending.to) /\ Desktop!Goto("boot", "start")
      /\ UNCHANGED <<d_app, d_updates, d_version, d_data, d_pending, d_installer, d_page, d_mishap>> /\ UNCHANGED Desktop!procs
  BY DEF Desktop!BootReads, Desktop!At, Desktop!disk
<1>3. d_at["op"].pc = Desktop!Nil /\ d_at["op"].do = Desktop!Nil /\ ~d_updates
  BY <1>1, <1>2, ThreadNames DEF Desktop!ThreadsOK, Desktop!RecordsOK, Desktop!Nil
<1>4. /\ d_at' \in [Desktop!Threads -> Desktop!Frames] /\ d_at'["op"] = d_at["op"]
      /\ \/ d_at'["boot"].pc = Desktop!Nil /\ d_at'["boot"].do = Desktop!Nil
         \/ /\ d_at'["boot"].pc = "start" /\ d_at'["boot"].do = d_at["boot"].do
            /\ d_pending # Desktop!NoRecord => d_version = d_pending.to
  <2>1. "start" \in Desktop!Pcs["boot"]
    BY DEF Desktop!Pcs, Desktop!Working
  <2>2. CASE Desktop!Done("boot")
    BY <1>1, <2>2, Ends, ThreadNames
  <2>3. CASE Desktop!Goto("boot", "start") /\ (d_pending # Desktop!NoRecord => d_version = d_pending.to)
    BY <1>1, <2>1, <2>3, GoesTo, ThreadNames
  <2> QED BY <1>2, <2>2, <2>3
<1>5. Desktop!TypeOK'
  BY <1>1, <1>2, <1>4, SameProcesses DEF Desktop!TypeOK
<1>6. Desktop!ThreadsOK'
  <2>1. Desktop!Nil \in Desktop!Dos["boot"] /\ Desktop!Nil \in Desktop!Pcs["boot"] /\ "start" \in Desktop!Pcs["boot"]
    BY DEF Desktop!Dos, Desktop!Pcs, Desktop!Working
  <2> QED BY <1>1, <1>2, <1>3, <1>4, <2>1, ThreadNames DEF Desktop!ThreadsOK, Desktop!Nil
<1>7. Desktop!RecordsOK'
  BY <1>1, <1>2, <1>3, <1>4 DEF Desktop!RecordsOK, Desktop!Restores, Desktop!Nil
<1>8. Desktop!ProcessesKnown'
  <2>1. \A u \in Desktop!Threads : u # "boot" => d_at'[u] = d_at[u]
    BY <1>4, ThreadNames
  <2> QED BY <1>1, <1>2, <1>4, <2>1, SameKnown, ThreadNames DEF Desktop!Nil
<1> QED BY <1>5, <1>6, <1>7, <1>8 DEF Desktop!ShellInv
LEMMA BootEndsHolds ==
    ASSUME Desktop!ShellInv, Desktop!BootEnds \/ Desktop!BootFails
    PROVE  Desktop!ShellInv'
<1>1. Desktop!TypeOK /\ Desktop!ThreadsOK /\ Desktop!RecordsOK /\ Desktop!ProcessesKnown
  BY DEF Desktop!ShellInv
<1>2. /\ d_app /\ d_at["boot"].pc \in {"started", "start failed"} /\ Desktop!Done("boot")
      /\ UNCHANGED <<d_app, d_version, d_data, d_installer, d_mishap>> /\ UNCHANGED Desktop!procs
      /\ \/ Desktop!Forgets /\ d_updates' = TRUE
         \/ d_updates' = TRUE /\ UNCHANGED <<d_pending, d_recovery>>
         \/ UNCHANGED <<d_updates, d_pending, d_recovery>>
  BY DEF Desktop!BootEnds, Desktop!BootFails, Desktop!At
<1>3. ~d_updates /\ d_at["op"].do # "install" /\ d_at["op"].pc \notin {"launch", "give up"} /\ d_recovery = d_pending
  BY <1>1, <1>2 DEF Desktop!ThreadsOK, Desktop!RecordsOK, Desktop!Nil
<1>4. d_recovery # Desktop!NoRecord => d_version = d_recovery.to /\ d_recovery \in Desktop!Records
  BY <1>1, <1>2, <1>3 DEF Desktop!RecordsOK, Desktop!Nil, Desktop!TypeOK
<1>5. ~Desktop!Restores
  <2>1. d_recovery # Desktop!NoRecord => d_recovery.to = d_recovery.from + 1 /\ d_recovery.from \in Nat
    BY <1>4, AccessAssumption DEF Desktop!Records
  <2>2. Desktop!Restores => d_recovery # Desktop!NoRecord /\ d_version = d_recovery.from
    BY <1>1 DEF Desktop!RecordsOK
  <2> QED BY <1>4, <2>1, <2>2
<1>6. d_at' \in [Desktop!Threads -> Desktop!Frames] /\ d_at'["op"] = d_at["op"] /\ d_at'["boot"].pc = Desktop!Nil /\ d_at'["boot"].do = Desktop!Nil
  BY <1>1, <1>2, Ends, ThreadNames
<1>7. Desktop!TypeOK'
  <2>1. /\ d_pending' \in Desktop!Records \cup {Desktop!NoRecord} /\ d_recovery' \in Desktop!Records \cup {Desktop!NoRecord} /\ d_updates' \in BOOLEAN
    BY <1>1, <1>2 DEF Desktop!TypeOK, Desktop!Forgets
  <2> QED BY <1>1, <1>2, <1>6, <2>1, SameProcesses DEF Desktop!TypeOK
<1>8. Desktop!ThreadsOK'
  <2>1. Desktop!Nil \in Desktop!Dos["boot"] /\ Desktop!Nil \in Desktop!Pcs["boot"]
    BY DEF Desktop!Dos, Desktop!Pcs
  <2> QED BY <1>1, <1>2, <1>6, <2>1, ThreadNames DEF Desktop!ThreadsOK, Desktop!Nil
<1>9. Desktop!RecordsOK'
  <2>1. ~Desktop!Restores'
    BY <1>5, <1>6 DEF Desktop!Restores
  <2>2. d_data <= d_version /\ d_installer = 0 /\ d_version \in Nat
    BY <1>1, <1>2, <1>3, <1>4, Ranges DEF Desktop!RecordsOK, Desktop!Nil
  <2>3. CASE UNCHANGED <<d_updates, d_pending, d_recovery>>
    BY <1>1, <1>2, <1>3, <1>6, <2>1, <2>3 DEF Desktop!RecordsOK, Desktop!Nil
  <2>4. CASE d_updates' = TRUE /\ UNCHANGED <<d_pending, d_recovery>>
    BY <1>1, <1>2, <1>3, <1>4, <1>6, <2>1, <2>2, <2>4 DEF Desktop!RecordsOK, Desktop!Nil
  <2>5. CASE Desktop!Forgets /\ d_updates' = TRUE
    <3>1. d_pending' = Desktop!NoRecord /\ d_recovery' = Desktop!NoRecord
      BY <1>3, <2>5 DEF Desktop!Forgets
    <3> QED BY <1>1, <1>2, <1>3, <1>6, <2>1, <2>2, <2>5, <3>1 DEF Desktop!RecordsOK, Desktop!Nil
  <2> QED BY <1>2, <2>3, <2>4, <2>5
<1>10. Desktop!ProcessesKnown'
  <2>1. \A u \in Desktop!Threads : u # "boot" => d_at'[u] = d_at[u]
    BY <1>6, ThreadNames
  <2> QED BY <1>1, <1>2, <1>6, <2>1, SameKnown, ThreadNames DEF Desktop!Nil
<1> QED BY <1>7, <1>8, <1>9, <1>10 DEF Desktop!ShellInv

\* The installer puts its version in place.
LEMMA InstallsHolds ==
    ASSUME Desktop!ShellInv, Desktop!Installs
    PROVE  Desktop!ShellInv'
<1>1. Desktop!TypeOK /\ Desktop!ThreadsOK /\ Desktop!RecordsOK /\ Desktop!ProcessesKnown
  BY DEF Desktop!ShellInv
<1>2. /\ ~d_app /\ d_installer # 0 /\ d_installer' = 0 /\ (d_version' = d_installer \/ d_version' = d_version)
      /\ UNCHANGED <<d_app, d_updates, d_data, d_pending, d_children, d_alive, d_asked, d_bad, d_page, d_recovery, d_at, d_mishap>>
  BY DEF Desktop!Installs, Desktop!procs
<1>3. d_pending # Desktop!NoRecord /\ d_installer \in {d_pending.from, d_pending.to} /\ d_pending \in Desktop!Records /\ ~d_updates
  BY <1>1, <1>2 DEF Desktop!RecordsOK, Desktop!TypeOK
<1>4. d_version' \in 1 .. MaxVersion /\ d_version' \in {d_pending.from, d_pending.to}
  <2>1. d_pending.from \in 1 .. MaxVersion /\ d_pending.to \in 1 .. MaxVersion
    BY <1>3 DEF Desktop!Records
  <2> QED BY <1>1, <1>2, <1>3, <2>1 DEF Desktop!TypeOK, Desktop!RecordsOK
<1>5. \A t \in Desktop!Threads : d_at[t] = Desktop!Idle /\ d_at[t].pc = Desktop!Nil /\ d_at[t].do = Desktop!Nil
  BY <1>1, <1>2, ThreadNames DEF Desktop!TypeOK
<1>6. d_installer' \in 0 .. MaxVersion
  BY <1>2, AccessAssumption
<1>7. Desktop!TypeOK'
  BY <1>1, <1>2, <1>4, <1>6 DEF Desktop!TypeOK
<1>8. Desktop!ThreadsOK' /\ Desktop!ProcessesKnown'
  BY <1>1, <1>2 DEF Desktop!ThreadsOK, Desktop!ProcessesKnown
<1>9. Desktop!RecordsOK'
  <2>1. d_at'["op"].pc = Desktop!Nil /\ d_at'["op"].do = Desktop!Nil /\ d_at'["boot"].pc = Desktop!Nil /\ ~Desktop!Restores'
    BY <1>2, <1>5, ThreadNames DEF Desktop!Restores, Desktop!Nil
  <2> QED BY <1>1, <1>2, <1>3, <1>4, <2>1 DEF Desktop!RecordsOK, Desktop!Nil
<1> QED BY <1>7, <1>8, <1>9 DEF Desktop!ShellInv

\* The operations. One begins.
LEMMA AsksHolds ==
    ASSUME Desktop!ShellInv, Desktop!Asks
    PROVE  Desktop!ShellInv'
<1>1. Desktop!TypeOK /\ Desktop!ThreadsOK /\ Desktop!RecordsOK /\ Desktop!ProcessesKnown
  BY DEF Desktop!ShellInv
<1>2. \E do \in Desktop!Dos["op"] \ {Desktop!Nil}, pc \in {"begin stop", "verify"} :
        /\ Desktop!Operation(do, pc)
        /\ do = "install" => d_updates /\ d_page = "wall" /\ d_version < MaxVersion
        /\ pc = "verify" => do = "install"
        /\ do = "restore" => d_recovery # Desktop!NoRecord /\ d_version = d_recovery.from
  <2>1. /\ "restart" \in Desktop!Dos["op"] \ {Desktop!Nil} /\ "quit" \in Desktop!Dos["op"] \ {Desktop!Nil} /\ "backup" \in Desktop!Dos["op"] \ {Desktop!Nil}
        /\ "install" \in Desktop!Dos["op"] \ {Desktop!Nil} /\ "restore" \in Desktop!Dos["op"] \ {Desktop!Nil}
    BY DEF Desktop!Dos, Desktop!Nil
  <2>2. CASE Desktop!Operation("restart", "begin stop")
    BY <2>1, <2>2
  <2>3. CASE Desktop!Operation("quit", "begin stop")
    BY <2>1, <2>3
  <2>4. CASE Desktop!Operation("backup", "begin stop")
    BY <2>1, <2>4
  <2>5. CASE d_updates /\ d_page = "wall" /\ d_version < MaxVersion /\ Desktop!Operation("install", "verify")
    BY <2>1, <2>5
  <2>6. CASE d_recovery # Desktop!NoRecord /\ d_version = d_recovery.from /\ Desktop!Operation("restore", "begin stop")
    BY <2>1, <2>6
  <2> QED BY <2>2, <2>3, <2>4, <2>5, <2>6 DEF Desktop!Asks
<1> PICK do \in Desktop!Dos["op"] \ {Desktop!Nil}, pc \in {"begin stop", "verify"} :
        /\ Desktop!Operation(do, pc)
        /\ do = "install" => d_updates /\ d_page = "wall" /\ d_version < MaxVersion
        /\ pc = "verify" => do = "install"
        /\ do = "restore" => d_recovery # Desktop!NoRecord /\ d_version = d_recovery.from
  BY <1>2
<1>3. /\ d_app /\ d_at["op"].do = Desktop!Nil /\ d_at["op"].pc = Desktop!Nil /\ d_at["boot"].pc # "read" /\ Desktop!Begin("op", do, pc)
      /\ d_mishap' = (d_mishap \/ d_at["boot"] # Desktop!Idle)
      /\ UNCHANGED <<d_app, d_updates, d_version, d_data, d_pending, d_installer, d_page, d_recovery>> /\ UNCHANGED Desktop!procs
  BY <1>1, <1>2, ThreadNames DEF Desktop!Operation, Desktop!operating, Desktop!disk, Desktop!ThreadsOK
<1>4. /\ d_at' \in [Desktop!Threads -> Desktop!Frames] /\ d_at'["boot"] = d_at["boot"]
      /\ d_at'["op"].pc = pc /\ d_at'["op"].do = do /\ d_at'["op"].n = 0
  <2>1. pc \in Desktop!Pcs["boot"] \cup Desktop!Pcs["op"] /\ do \in Desktop!Dos["boot"] \cup Desktop!Dos["op"]
    BY DEF Desktop!Pcs
  <2>2. Desktop!Begin("op", do, pc)
    BY <1>3
  <2>3. /\ d_at' \in [Desktop!Threads -> Desktop!Frames]
        /\ d_at'["op"].pc = pc /\ d_at'["op"].do = do /\ d_at'["op"].n = 0
        /\ \A u \in Desktop!Threads : u # "op" => d_at'[u] = d_at[u]
    <3>1. Desktop!TypeOK /\ "op" \in Desktop!Threads
      BY <1>1, ThreadNames
    <3> HIDE <1>1
    <3> QED BY <2>1, <2>2, <3>1, Begins
  <2> QED BY <2>3, ThreadNames
<1>5. Desktop!TypeOK'
  <2>1. d_mishap' \in BOOLEAN
    BY <1>3
  <2> QED BY <1>1, <1>3, <1>4, <2>1, SameProcesses DEF Desktop!TypeOK
<1>6. Desktop!ThreadsOK'
  <2>1. pc \in Desktop!Pcs["op"]
    BY DEF Desktop!Pcs
  <2>2. ~d_mishap' => d_at'["boot"].pc = Desktop!Nil
    BY <1>3, <1>4, ThreadNames
  <2>3. /\ pc \in {"begin stop", "verify"} /\ pc # Desktop!Nil /\ do \in Desktop!Dos["op"] /\ do # Desktop!Nil
        /\ pc = "verify" => do = "install"
    BY DEF Desktop!Nil
  <2> QED BY <1>1, <1>4, <2>1, <2>2, <2>3, ThreadNames DEF Desktop!ThreadsOK
<1>7. Desktop!RecordsOK'
  <2>1. ~d_mishap' => ~d_mishap
    BY <1>3
  <2>2. Desktop!Restores' => do = "restore"
    BY <1>4 DEF Desktop!Restores
  <2> QED BY <1>1, <1>2, <1>3, <1>4, <2>1, <2>2 DEF Desktop!RecordsOK, Desktop!Nil
<1>8. Desktop!ProcessesKnown'
  <2> SUFFICES ASSUME ~d_mishap'
               PROVE  /\ \A u \in Desktop!Threads :
                          /\ d_at'[u].pc = "stop" => d_alive' \subseteq Desktop!Range(d_at'[u].left)
                          /\ d_at'[u].pc \in {"stopped", "snapshot", "record", "launch", "stage", "move", "swap"} => d_children' = <<>>
                      /\ (\A u \in Desktop!Threads : d_at'[u].pc # "stop") => d_alive' \subseteq Desktop!Range(d_children')
    BY DEF Desktop!ProcessesKnown
  <2>1. ~d_mishap /\ \A u \in Desktop!Threads : d_at[u].pc = Desktop!Nil
    BY <1>3, ThreadNames
  <2>2. d_alive \subseteq Desktop!Range(d_children)
    BY <1>1, <2>1 DEF Desktop!ProcessesKnown, Desktop!Nil
  <2>3. \A u \in Desktop!Threads : d_at'[u].pc \in {Desktop!Nil, "begin stop", "verify"}
    BY <1>2, <1>4, <2>1, ThreadNames
  <2> QED BY <1>3, <2>2, <2>3 DEF Desktop!Nil, Desktop!procs
<1> QED BY <1>5, <1>6, <1>7, <1>8 DEF Desktop!ShellInv

\* One begins to stop the services.
LEMMA BeginStopHolds ==
    ASSUME Desktop!ShellInv, Desktop!BeginStop
    PROVE  Desktop!ShellInv'
<1>1. Desktop!TypeOK /\ Desktop!ThreadsOK /\ Desktop!RecordsOK /\ Desktop!ProcessesKnown
  BY DEF Desktop!ShellInv
<1>2. /\ d_app /\ d_at["op"].pc = "begin stop" /\ Desktop!BeginsStop("op")
      /\ UNCHANGED <<d_app, d_updates, d_version, d_data, d_pending, d_installer, d_page, d_recovery, d_mishap>> /\ UNCHANGED Desktop!procs
  BY DEF Desktop!BeginStop, Desktop!At, Desktop!disk
<1>3. /\ d_at' \in [Desktop!Threads -> Desktop!Frames]
      /\ d_at'["op"].pc = "stop" /\ d_at'["op"].do = d_at["op"].do /\ d_at'["op"].n = d_at["op"].n
      /\ \A u \in Desktop!Threads : u # "op" => d_at'[u] = d_at[u]
  BY <1>1, <1>2, StopBegins, ThreadNames
<1>4. Desktop!TypeOK'
  BY <1>1, <1>2, <1>3, SameProcesses DEF Desktop!TypeOK
<1>5. Works("op")
  BY <1>2, <1>3 DEF Works, Desktop!Working
<1>6. Desktop!ProcessesKnown'
  BY <1>1, <1>2, StopKnown, ThreadNames DEF Desktop!Nil
<1> QED BY <1>1, <1>4, <1>5, <1>6, WorkingThreads, WorkingRecords, ThreadNames DEF Desktop!ShellInv

\* One goes on, while the records and the processes stay: to a step its
\* kind has, with nothing left to stop when the next steps need that.
Continues(pc) ==
    /\ d_app /\ d_app' = d_app /\ d_updates' = d_updates /\ d_mishap' = d_mishap /\ d_page' = d_page
    /\ d_version' = d_version /\ d_data' = d_data /\ d_pending' = d_pending /\ d_installer' = d_installer /\ d_recovery' = d_recovery
    /\ UNCHANGED Desktop!procs /\ Desktop!Goto("op", pc)
    /\ d_at["op"].pc \notin {Desktop!Nil, "stop", "launch"}
    /\ d_at["op"].do = "install" => d_at["op"].pc # "give up"
LEMMA ContinuesHolds ==
    ASSUME Desktop!ShellInv, NEW pc \in Desktop!Pcs["op"] \ {Desktop!Nil, "stop", "stopped", "launch", "forget", "prepare", "spawn", "health"},
           Continues(pc),
           pc \in {"verify", "record", "give up"} => d_at["op"].do = "install",
           pc \in {"stage", "move", "swap"} => Desktop!Restores,
           pc = "begin stop" => d_at["op"].do = "install",
           pc \in {"snapshot", "record", "stage", "move", "swap"} => (~d_mishap => d_children = <<>>)
    PROVE  Desktop!ShellInv'
<1>1. Desktop!TypeOK /\ Desktop!ThreadsOK /\ Desktop!RecordsOK /\ Desktop!ProcessesKnown
  BY DEF Desktop!ShellInv
<1>2. /\ d_app /\ UNCHANGED <<d_app, d_updates, d_version, d_data, d_pending, d_installer, d_page, d_recovery, d_mishap>> /\ UNCHANGED Desktop!procs
      /\ d_at["op"].pc \notin {Desktop!Nil, "stop", "launch", "give up"} /\ d_at["op"].do # Desktop!Nil
  BY <1>1, ThreadNames DEF Continues, Desktop!ThreadsOK
<1>3. /\ d_at' \in [Desktop!Threads -> Desktop!Frames]
      /\ d_at'["op"].pc = pc /\ d_at'["op"].do = d_at["op"].do /\ d_at'["op"].n = d_at["op"].n
      /\ d_at'["boot"] = d_at["boot"] /\ \A u \in Desktop!Threads : u # "op" => d_at'[u] = d_at[u]
  <2>1. Desktop!Goto("op", pc)
    BY DEF Continues
  <2> QED BY <1>1, <2>1, OperationGoesTo
<1>4. Desktop!TypeOK'
  BY <1>1, <1>2, <1>3, SameProcesses DEF Desktop!TypeOK
<1>5. Desktop!ThreadsOK'
  <2>1. d_at["op"].do = "install" => d_at["op"].do # "restore"
    OBVIOUS
  <2>2. Desktop!Restores => d_at["op"].do = "restore"
    BY DEF Desktop!Restores
  <2>3. ~d_mishap' => d_at'["boot"].pc = Desktop!Nil
    BY <1>1, <1>2, <1>3, ThreadNames DEF Desktop!ThreadsOK
  <2> QED BY <1>1, <1>2, <1>3, <2>2, <2>3, ThreadNames DEF Desktop!ThreadsOK
<1>6. Desktop!RecordsOK'
  <2>1. Desktop!Restores' => Desktop!Restores
    BY <1>3 DEF Desktop!Restores
  <2> QED BY <1>1, <1>2, <1>3, <2>1 DEF Desktop!RecordsOK
<1>7. Desktop!ProcessesKnown'
  BY <1>1, <1>2, <1>3, SameKnown, ThreadNames
<1> QED BY <1>4, <1>5, <1>6, <1>7 DEF Desktop!ShellInv

\* The steps that go on like that.
LEMMA OperationStoppedHolds ==
    ASSUME Desktop!ShellInv, Desktop!OperationStopped
    PROVE  Desktop!ShellInv'
<1>1. Desktop!TypeOK /\ Desktop!ThreadsOK /\ Desktop!RecordsOK /\ Desktop!ProcessesKnown
  BY DEF Desktop!ShellInv
<1>2. /\ d_app /\ UNCHANGED <<d_app, d_updates, d_version, d_data, d_pending, d_installer, d_page, d_recovery, d_mishap>> /\ UNCHANGED Desktop!procs
      /\ d_at["op"].pc = "stopped" /\ d_at["op"].n = 0
      /\ Desktop!Goto("op", (IF d_at["op"].failed THEN Desktop!AfterFailedStop ELSE Desktop!AfterStop)[d_at["op"].do])
  BY DEF Desktop!OperationStopped, Desktop!At, Desktop!disk
<1>3. d_at["op"].do \in {"restart", "quit", "backup", "install", "restore"}
  BY <1>1, <1>2, ThreadNames DEF Desktop!ThreadsOK, Desktop!Dos, Desktop!Nil
<1>4. PICK pc \in {"start", "end", "quit", "snapshot", "give up", "stage"} :
        /\ Desktop!Goto("op", pc)
        /\ pc = "give up" => d_at["op"].do = "install"
        /\ pc = "stage" => d_at["op"].do = "restore"
  <2> DEFINE next == (IF d_at["op"].failed THEN Desktop!AfterFailedStop ELSE Desktop!AfterStop)[d_at["op"].do]
  <2>1. /\ next \in {"start", "end", "quit", "snapshot", "give up", "stage"}
        /\ next = "give up" => d_at["op"].do = "install"
        /\ next = "stage" => d_at["op"].do = "restore"
    <3>1. ASSUME NEW do \in {"restart", "quit", "backup", "install", "restore"}, NEW f \in {Desktop!AfterFailedStop, Desktop!AfterStop}
          PROVE  /\ f[do] \in {"start", "end", "quit", "snapshot", "give up", "stage"}
                 /\ f[do] = "give up" => do = "install"
                 /\ f[do] = "stage" => do = "restore"
      <4>1. /\ Desktop!AfterStop["restart"] = "start" /\ Desktop!AfterStop["backup"] = "snapshot" /\ Desktop!AfterStop["install"] = "snapshot"
            /\ Desktop!AfterStop["restore"] = "stage" /\ Desktop!AfterStop["quit"] = "quit"
        BY DEF Desktop!AfterStop
      <4>2. /\ Desktop!AfterFailedStop["restart"] = "end" /\ Desktop!AfterFailedStop["backup"] = "end"
            /\ Desktop!AfterFailedStop["install"] = "give up"
            /\ Desktop!AfterFailedStop["restore"] = "stage" /\ Desktop!AfterFailedStop["quit"] = "end"
        BY DEF Desktop!AfterFailedStop
      <4>3. CASE f = Desktop!AfterStop
        BY <4>1, <4>3
      <4>4. CASE f = Desktop!AfterFailedStop
        BY <4>2, <4>4
      <4> QED BY <4>3, <4>4
    <3>2. (IF d_at["op"].failed THEN Desktop!AfterFailedStop ELSE Desktop!AfterStop) \in {Desktop!AfterFailedStop, Desktop!AfterStop}
      OBVIOUS
    <3> QED BY <1>3, <3>1, <3>2
  <2>2. Desktop!Goto("op", next)
    BY <1>2
  <2> HIDE DEF next
  <2> QED BY <2>1, <2>2
<1>5. pc \in Desktop!Pcs["op"] \ {Desktop!Nil, "stop", "stopped", "launch", "forget", "prepare", "spawn", "health"}
  BY DEF Desktop!Pcs, Desktop!Working, Desktop!Nil
<1>6. ~d_mishap => d_children = <<>>
  BY <1>1, <1>2, ThreadNames DEF Desktop!ProcessesKnown
<1>7. pc = "stage" => Desktop!Restores
  BY <1>2, <1>4 DEF Desktop!Restores
<1>8. Continues(pc)
  BY <1>2, <1>4 DEF Continues, Desktop!Nil
<1> QED BY <1>4, <1>5, <1>6, <1>7, <1>8, ContinuesHolds
LEMMA SnapshotHolds ==
    ASSUME Desktop!ShellInv, Desktop!snapshot \/ Desktop!verify \/ Desktop!stage
    PROVE  Desktop!ShellInv'
<1>1. Desktop!TypeOK /\ Desktop!ThreadsOK /\ Desktop!RecordsOK /\ Desktop!ProcessesKnown
  BY DEF Desktop!ShellInv
<1>2. /\ d_app /\ UNCHANGED <<d_app, d_updates, d_version, d_data, d_pending, d_installer, d_page, d_recovery, d_mishap>> /\ UNCHANGED Desktop!procs
      /\ d_at["op"].pc \in {"snapshot", "verify", "stage"}
  BY DEF Desktop!snapshot, Desktop!verify, Desktop!stage, Desktop!At, Desktop!disk
<1>3. PICK pc \in {"start", "end", "record", "give up", "begin stop", "move"} :
        /\ Desktop!Goto("op", pc)
        /\ pc \in {"record", "give up"} => d_at["op"].do = "install"
        /\ pc = "record" => d_children = <<>>
        /\ pc = "begin stop" => d_at["op"].pc = "verify"
        /\ pc = "move" => d_at["op"].pc = "stage"
  <2>1. CASE Desktop!snapshot
    <3>1. CASE d_at["op"].do = "install"
      BY <2>1, <3>1 DEF Desktop!snapshot
    <3>2. CASE d_at["op"].do # "install"
      BY <2>1, <3>2 DEF Desktop!snapshot
    <3> QED BY <3>1, <3>2
  <2>2. CASE Desktop!verify
    BY <2>2 DEF Desktop!verify, Desktop!At
  <2>3. CASE Desktop!stage
    BY <2>3 DEF Desktop!stage, Desktop!At
  <2> QED BY <2>1, <2>2, <2>3
<1>4. pc \in Desktop!Pcs["op"] \ {Desktop!Nil, "stop", "stopped", "launch", "forget", "prepare", "spawn", "health"}
  BY DEF Desktop!Pcs, Desktop!Working, Desktop!Nil
<1>5. /\ pc = "begin stop" => d_at["op"].do = "install"
      /\ pc = "move" => Desktop!Restores /\ (~d_mishap => d_children = <<>>)
  <2>1. d_at["op"].pc = "verify" => d_at["op"].do = "install"
    BY <1>1 DEF Desktop!ThreadsOK
  <2>2. d_at["op"].pc = "stage" => d_at["op"].do = "restore"
    BY <1>1 DEF Desktop!ThreadsOK
  <2>3. d_at["op"].pc = "stage" => (~d_mishap => d_children = <<>>)
    BY <1>1, ThreadNames DEF Desktop!ProcessesKnown
  <2> QED BY <1>3, <2>1, <2>2, <2>3 DEF Desktop!Restores
<1>6. Continues(pc)
  BY <1>2, <1>3 DEF Continues, Desktop!Nil
<1> QED BY <1>3, <1>4, <1>5, <1>6, ContinuesHolds

\* One ends.
LEMMA OperationEndsHolds ==
    ASSUME Desktop!ShellInv, Desktop!OperationEnds
    PROVE  Desktop!ShellInv'
<1>1. Desktop!TypeOK /\ Desktop!ThreadsOK /\ Desktop!RecordsOK /\ Desktop!ProcessesKnown
  BY DEF Desktop!ShellInv
<1>2. /\ d_app /\ UNCHANGED <<d_app, d_updates, d_version, d_data, d_pending, d_installer, d_recovery, d_mishap>> /\ UNCHANGED Desktop!procs
      /\ d_at["op"].pc \in {"end", "started", "start failed"} /\ Desktop!Done("op")
      /\ d_page = "wall" => d_page' = "wall"
  BY DEF Desktop!OperationEnds, Desktop!disk
<1>3. /\ d_at' \in [Desktop!Threads -> Desktop!Frames] /\ d_at'["op"].pc = Desktop!Nil /\ d_at'["op"].do = Desktop!Nil
      /\ d_at'["boot"] = d_at["boot"] /\ \A u \in Desktop!Threads : u # "op" => d_at'[u] = d_at[u]
  BY <1>1, <1>2, Ends, ThreadNames
<1>4. Desktop!TypeOK'
  BY <1>1, <1>2, <1>3, SameProcesses DEF Desktop!TypeOK
<1>5. Desktop!ThreadsOK'
  <2>1. Desktop!Nil \in Desktop!Dos["op"] /\ Desktop!Nil \in Desktop!Pcs["op"]
    BY DEF Desktop!Dos, Desktop!Pcs
  <2>2. \A u \in Desktop!Threads :
            /\ d_at'[u].pc \in Desktop!Pcs[u] /\ d_at'[u].do \in Desktop!Dos[u]
            /\ (d_at'[u].do = Desktop!Nil <=> d_at'[u].pc = Desktop!Nil)
            /\ d_at'[u].pc \in {"prepare", "spawn", "health"} => d_at'[u].n > 0
    BY <1>1, <1>3, <2>1 DEF Desktop!ThreadsOK, Desktop!Nil
  <2>3. /\ d_at'["op"].pc \notin {"verify", "record", "launch", "give up", "stage", "move", "swap", "forget"}
        /\ \E u \in Desktop!Threads : d_at'[u].pc = Desktop!Nil
    BY <1>3, ThreadNames DEF Desktop!Nil
  <2> QED BY <2>2, <2>3 DEF Desktop!ThreadsOK, Desktop!Pcs, Desktop!Dos
<1>6. Desktop!RecordsOK'
  BY <1>1, <1>2, <1>3 DEF Desktop!RecordsOK, Desktop!Restores, Desktop!Nil
<1>7. Desktop!ProcessesKnown'
  BY <1>1, <1>2, <1>3, SameKnown, ThreadNames DEF Desktop!Nil
<1> QED BY <1>4, <1>5, <1>6, <1>7 DEF Desktop!ShellInv

\* One goes on, and changes the records or the data.
LEMMA ChangesHolds ==
    ASSUME Desktop!ShellInv, d_app, d_app' = d_app, d_updates' = d_updates, d_mishap' \in BOOLEAN, ~d_mishap' => ~d_mishap, d_version' = d_version, d_installer' = d_installer,
           UNCHANGED Desktop!procs, NEW pc \in Desktop!Pcs["op"] \ {Desktop!Nil, "stop", "stopped", "begin stop", "prepare", "spawn", "health",
                                                   "snapshot", "record", "stage", "move"},
           Desktop!Goto("op", pc), d_at["op"].pc \notin {Desktop!Nil, "stop"},
           pc \in {"verify", "launch", "give up"} => d_at["op"].do = "install",
           pc \in {"swap", "forget"} => d_at["op"].do = "restore",
           pc \in {"launch", "swap"} => (~d_mishap => d_children = <<>>),
           d_data' \in 0 .. MaxVersion, d_pending' \in Desktop!Records \cup {Desktop!NoRecord}, d_recovery' \in Desktop!Records \cup {Desktop!NoRecord},
           Desktop!RecordsOK'
    PROVE  Desktop!ShellInv'
<1>1. Desktop!TypeOK /\ Desktop!ThreadsOK /\ Desktop!RecordsOK /\ Desktop!ProcessesKnown
  BY DEF Desktop!ShellInv
<1>2. /\ d_at' \in [Desktop!Threads -> Desktop!Frames]
      /\ d_at'["op"].pc = pc /\ d_at'["op"].do = d_at["op"].do
      /\ d_at'["boot"] = d_at["boot"] /\ \A u \in Desktop!Threads : u # "op" => d_at'[u] = d_at[u]
  BY <1>1, OperationGoesTo
<1>3. Desktop!TypeOK'
  BY <1>1, <1>2, SameProcesses DEF Desktop!TypeOK
<1>4. d_at["op"].do # Desktop!Nil
  BY <1>1, ThreadNames DEF Desktop!ThreadsOK
<1>5. Desktop!ThreadsOK'
  <2>1. ~d_mishap' => d_at'["boot"].pc = Desktop!Nil
    BY <1>1, <1>2, ThreadNames DEF Desktop!ThreadsOK
  <2>2. d_at["op"].do \in Desktop!Dos["op"] /\ pc # Desktop!Nil
        /\ d_at'["op"].pc \notin {"prepare", "spawn", "health"}
    BY <1>1, <1>2, ThreadNames DEF Desktop!ThreadsOK
  <2>3. \A u \in Desktop!Threads :
            /\ d_at'[u].pc \in Desktop!Pcs[u] /\ d_at'[u].do \in Desktop!Dos[u]
            /\ (d_at'[u].do = Desktop!Nil <=> d_at'[u].pc = Desktop!Nil)
            /\ d_at'[u].pc \in {"prepare", "spawn", "health"} => d_at'[u].n > 0
    BY <1>1, <1>2, <1>4, <2>2 DEF Desktop!ThreadsOK
  <2>4. /\ d_at'["op"].pc \in {"verify", "record", "launch", "give up"} => d_at'["op"].do = "install"
        /\ d_at'["op"].pc \in {"stage", "move", "swap", "forget"} => d_at'["op"].do = "restore"
    BY <1>2
  <2>5. ~d_mishap' => \E u \in Desktop!Threads : d_at'[u].pc = Desktop!Nil
    BY <2>1, ThreadNames
  <2> QED BY <2>3, <2>4, <2>5 DEF Desktop!ThreadsOK, Desktop!Pcs, Desktop!Dos
<1>6. Desktop!ProcessesKnown'
  BY <1>1, <1>2, SameKnown, ThreadNames
<1> QED BY <1>3, <1>5, <1>6 DEF Desktop!ShellInv

\* An update: its record, its installer, and one that is given up.
LEMMA InstallingHolds ==
    ASSUME Desktop!ShellInv, Desktop!record \/ Desktop!giveUp
    PROVE  Desktop!ShellInv'
<1>1. Desktop!TypeOK /\ Desktop!ThreadsOK /\ Desktop!RecordsOK /\ Desktop!ProcessesKnown
  BY DEF Desktop!ShellInv
<1>2. /\ d_app /\ UNCHANGED <<d_app, d_updates, d_version, d_data, d_installer, d_page, d_recovery>> /\ UNCHANGED Desktop!procs
      /\ d_at["op"].pc \in {"record", "give up"}
      /\ \/ /\ d_at["op"].pc = "record" /\ d_pending' = [from |-> d_version, to |-> d_version + 1, data |-> d_data]
            /\ Desktop!Goto("op", "launch") /\ d_mishap' = d_mishap
         \/ /\ d_at["op"].pc = "give up" /\ Desktop!Goto("op", "start")
            /\ (d_pending' = Desktop!NoRecord /\ d_mishap' = d_mishap) \/ (d_pending' = d_pending /\ d_mishap' = TRUE)
  BY DEF Desktop!record, Desktop!giveUp, Desktop!At
<1>3. /\ d_at["op"].do = "install" /\ d_updates /\ d_version < MaxVersion /\ d_data <= d_version /\ d_page = "wall"
      /\ (d_recovery # Desktop!NoRecord => d_version = d_recovery.to) /\ d_at["boot"].pc = Desktop!Nil /\ d_installer = 0
  BY <1>1, <1>2 DEF Desktop!ThreadsOK, Desktop!RecordsOK
<1>4. CASE /\ d_at["op"].pc = "record" /\ d_pending' = [from |-> d_version, to |-> d_version + 1, data |-> d_data]
           /\ Desktop!Goto("op", "launch") /\ d_mishap' = d_mishap
  <2>1. /\ d_version \in 1 .. MaxVersion /\ d_data \in 0 .. MaxVersion /\ MaxVersion \in Nat
    BY <1>1, AccessAssumption DEF Desktop!TypeOK
  <2>2. /\ d_pending'.from = d_version /\ d_pending'.to = d_version + 1 /\ d_pending'.data = d_data
        /\ d_pending' \in Desktop!Records /\ d_pending' # Desktop!NoRecord
    <3>1. d_version + 1 \in 1 .. MaxVersion
      BY <1>3, <2>1
    <3>2. d_pending'.from = d_version /\ d_pending'.to = d_version + 1 /\ d_pending'.data = d_data
      BY <1>4
    <3>3. d_pending' \in Desktop!Records
      BY <1>3, <1>4, <2>1, <3>1, <3>2 DEF Desktop!Records
    <3>4. d_version # 0 /\ Desktop!NoRecord.from = 0
      BY <2>1 DEF Desktop!NoRecord
    <3> QED BY <3>2, <3>3, <3>4
  <2>3. d_at'["op"].pc = "launch" /\ d_at'["op"].do = "install" /\ d_at'["boot"] = d_at["boot"]
    <3>1. "launch" \in Desktop!Pcs["op"]
      BY DEF Desktop!Pcs
    <3> QED BY <1>1, <1>3, <1>4, <3>1, OperationGoesTo
  <2>4. Desktop!RecordsOK'
    <3>1. ~Desktop!Restores'
      BY <2>3 DEF Desktop!Restores
    <3>2. d_version \in {d_pending'.from, d_pending'.to} /\ d_data <= d_pending'.to
      BY <1>3, <2>1, <2>2
    <3> QED BY <1>2, <1>3, <2>2, <2>3, <3>1, <3>2 DEF Desktop!RecordsOK, Desktop!Nil
  <2>5. "launch" \in Desktop!Pcs["op"]
    BY DEF Desktop!Pcs
  <2>6. ~d_mishap => d_children = <<>>
    BY <1>1, <1>4, ThreadNames DEF Desktop!ProcessesKnown
  <2>7. d_data' \in 0 .. MaxVersion /\ d_recovery' \in Desktop!Records \cup {Desktop!NoRecord} /\ d_mishap' \in BOOLEAN
    BY <1>1, <1>2, <1>4 DEF Desktop!TypeOK
  <2> QED BY <1>2, <1>3, <1>4, <2>2, <2>4, <2>5, <2>6, <2>7, ChangesHolds DEF Desktop!Nil
<1>5. CASE /\ d_at["op"].pc = "give up" /\ Desktop!Goto("op", "start")
           /\ (d_pending' = Desktop!NoRecord /\ d_mishap' = d_mishap) \/ (d_pending' = d_pending /\ d_mishap' = TRUE)
  <2>1. d_at'["op"].pc = "start" /\ d_at'["op"].do = "install" /\ d_at'["boot"] = d_at["boot"]
    <3>1. "start" \in Desktop!Pcs["op"]
      BY DEF Desktop!Pcs, Desktop!Working
    <3> QED BY <1>1, <1>3, <1>5, <3>1, OperationGoesTo
  <2>2. Desktop!RecordsOK'
    <3>1. ~Desktop!Restores'
      BY <2>1 DEF Desktop!Restores
    <3>2. CASE d_pending' = Desktop!NoRecord /\ d_mishap' = d_mishap
      BY <1>2, <1>3, <2>1, <3>1, <3>2 DEF Desktop!RecordsOK, Desktop!Nil
    <3>3. CASE d_pending' = d_pending /\ d_mishap' = TRUE
      BY <1>1, <1>2, <1>3, <2>1, <3>1, <3>3 DEF Desktop!RecordsOK, Desktop!Nil
    <3> QED BY <1>5, <3>2, <3>3
  <2>3. "start" \in Desktop!Pcs["op"]
    BY DEF Desktop!Pcs, Desktop!Working
  <2>4. /\ d_data' \in 0 .. MaxVersion /\ d_recovery' \in Desktop!Records \cup {Desktop!NoRecord} /\ d_pending' \in Desktop!Records \cup {Desktop!NoRecord}
        /\ d_mishap' \in BOOLEAN /\ (~d_mishap' => ~d_mishap)
    <3>1. d_data \in 0 .. MaxVersion /\ d_recovery \in Desktop!Records \cup {Desktop!NoRecord} /\ d_pending \in Desktop!Records \cup {Desktop!NoRecord}
          /\ d_mishap \in BOOLEAN
      BY <1>1 DEF Desktop!TypeOK
    <3>2. CASE d_pending' = Desktop!NoRecord /\ d_mishap' = d_mishap
      BY <1>2, <3>1, <3>2
    <3>3. CASE d_pending' = d_pending /\ d_mishap' = TRUE
      BY <1>2, <3>1, <3>3
    <3> QED BY <1>5, <3>2, <3>3
  <2> QED BY <1>2, <1>5, <2>2, <2>3, <2>4, ChangesHolds DEF Desktop!Nil
<1> QED BY <1>2, <1>4, <1>5
LEMMA LaunchInstallerHolds ==
    ASSUME Desktop!ShellInv, Desktop!launchInstaller
    PROVE  Desktop!ShellInv'
<1>1. Desktop!TypeOK /\ Desktop!ThreadsOK /\ Desktop!RecordsOK /\ Desktop!ProcessesKnown
  BY DEF Desktop!ShellInv
<1>2. /\ d_app /\ d_at["op"].pc = "launch"
      /\ d_version' = d_version /\ d_data' = d_data /\ d_pending' = d_pending /\ d_recovery' = d_recovery /\ d_page' = d_page
      /\ \/ d_installer' = d_pending.to /\ Desktop!Off
         \/ Desktop!Goto("op", "give up") /\ UNCHANGED <<d_installer, d_app, d_updates, d_mishap>> /\ UNCHANGED Desktop!procs
  BY DEF Desktop!launchInstaller, Desktop!At
<1>3. d_at["op"].do = "install" /\ d_updates /\ d_pending # Desktop!NoRecord
  BY <1>1, <1>2 DEF Desktop!ThreadsOK, Desktop!RecordsOK
<1>4. CASE d_installer' = d_pending.to /\ Desktop!Off
  BY <1>2, <1>3, <1>4, OffHolds
<1>5. CASE Desktop!Goto("op", "give up") /\ UNCHANGED <<d_installer, d_app, d_updates, d_mishap>> /\ UNCHANGED Desktop!procs
  <2>1. "give up" \in Desktop!Pcs["op"]
    BY DEF Desktop!Pcs
  <2>2. d_at'["op"].pc = "give up" /\ d_at'["op"].do = "install" /\ d_at'["boot"] = d_at["boot"]
    BY <1>1, <1>3, <1>5, <2>1, OperationGoesTo
  <2>3. Desktop!RecordsOK'
    <3>1. ~Desktop!Restores'
      BY <2>2 DEF Desktop!Restores
    <3> QED BY <1>1, <1>2, <1>3, <1>5, <2>2, <3>1 DEF Desktop!RecordsOK, Desktop!Nil
  <2>4. d_data' \in 0 .. MaxVersion /\ d_recovery' \in Desktop!Records \cup {Desktop!NoRecord} /\ d_pending' \in Desktop!Records \cup {Desktop!NoRecord}
    BY <1>1, <1>2 DEF Desktop!TypeOK
  <2>5. d_mishap' \in BOOLEAN /\ (~d_mishap' => ~d_mishap)
    BY <1>1, <1>5 DEF Desktop!TypeOK
  <2> QED BY <1>2, <1>3, <1>5, <2>1, <2>3, <2>4, <2>5, ChangesHolds DEF Desktop!Nil
<1> QED BY <1>2, <1>4, <1>5

\* The data is restored, and the record goes.
LEMMA RestoringHolds ==
    ASSUME Desktop!ShellInv, Desktop!moveAside \/ Desktop!swap \/ Desktop!forget
    PROVE  Desktop!ShellInv'
<1>1. Desktop!TypeOK /\ Desktop!ThreadsOK /\ Desktop!RecordsOK /\ Desktop!ProcessesKnown
  BY DEF Desktop!ShellInv
<1>2. /\ d_app /\ UNCHANGED <<d_app, d_updates, d_version, d_installer, d_page, d_mishap>> /\ UNCHANGED Desktop!procs
      /\ d_at["op"].pc \in {"move", "swap", "forget"}
  BY DEF Desktop!moveAside, Desktop!swap, Desktop!forget, Desktop!At
<1>3. PICK pc \in {"end", "swap", "forget", "start"} :
        /\ Desktop!Goto("op", pc)
        /\ \/ d_data' = 0 /\ d_pending' = d_pending /\ d_recovery' = d_recovery /\ pc \in {"end", "swap"} /\ d_at["op"].pc = "move"
           \/ d_data' = d_recovery.data /\ d_pending' = d_pending /\ d_recovery' = d_recovery /\ pc = "forget"
           \/ d_data' = d_data /\ d_pending' = Desktop!NoRecord /\ d_recovery' = Desktop!NoRecord /\ pc = "start" /\ d_at["op"].pc = "forget"
  <2>1. CASE Desktop!moveAside
    BY <2>1 DEF Desktop!moveAside, Desktop!At
  <2>2. CASE Desktop!swap
    BY <2>2 DEF Desktop!swap, Desktop!At
  <2>3. CASE Desktop!forget
    BY <2>3 DEF Desktop!forget, Desktop!At
  <2> QED BY <2>1, <2>2, <2>3
<1>4. /\ d_at["op"].do = "restore" /\ Desktop!Restores /\ d_recovery # Desktop!NoRecord /\ d_version = d_recovery.from
      /\ d_at["boot"].pc # "read" /\ d_recovery = d_pending /\ d_recovery \in Desktop!Records /\ ~d_updates /\ d_installer = 0
  <2>1. d_at["op"].do = "restore"
    BY <1>1, <1>2 DEF Desktop!ThreadsOK
  <2>2. Desktop!Restores
    BY <1>2, <2>1 DEF Desktop!Restores
  <2>3. d_recovery # Desktop!NoRecord /\ d_version = d_recovery.from
    BY <1>1, <2>2 DEF Desktop!RecordsOK
  <2>4. d_recovery \in Desktop!Records /\ d_recovery.to # d_recovery.from
    <3>1. d_recovery \in Desktop!Records
      BY <1>1, <2>3 DEF Desktop!TypeOK
    <3>2. d_recovery.to = d_recovery.from + 1 /\ d_recovery.from \in Nat
      BY <3>1, AccessAssumption DEF Desktop!Records
    <3> QED BY <3>1, <3>2
  <2>5. ~d_updates /\ d_at["boot"].pc # "read"
    BY <1>1, <1>2, <2>3, <2>4 DEF Desktop!RecordsOK, Desktop!Nil
  <2> QED BY <1>1, <1>2, <2>1, <2>2, <2>3, <2>4, <2>5 DEF Desktop!RecordsOK
<1>5. /\ pc \in Desktop!Pcs["op"] \ {Desktop!Nil, "stop", "stopped", "begin stop", "prepare", "spawn", "health",
                            "snapshot", "record", "stage", "move"}
  BY DEF Desktop!Pcs, Desktop!Working, Desktop!Nil
<1>6. d_at'["op"].pc = pc /\ d_at'["op"].do = "restore" /\ d_at'["boot"] = d_at["boot"]
  <2>1. pc \in Desktop!Pcs["op"] /\ Desktop!Goto("op", pc)
    BY <1>3, <1>5
  <2> QED BY <1>1, <1>4, <2>1, OperationGoesTo
<1>7. /\ d_recovery.data \in 0 .. MaxVersion /\ d_recovery.data <= d_recovery.from
      /\ d_version \in Nat /\ d_data \in 0 .. MaxVersion /\ MaxVersion \in Nat /\ d_version <= d_pending.to
      /\ d_pending.to \in Nat
  <2>1. /\ d_recovery.from \in 1 .. MaxVersion /\ d_recovery.to = d_recovery.from + 1
        /\ d_recovery.data \in 0 .. MaxVersion /\ d_recovery.data <= d_recovery.from
    BY <1>4 DEF Desktop!Records
  <2>2. d_version \in Nat /\ d_data \in 0 .. MaxVersion /\ MaxVersion \in Nat
    BY <1>1, AccessAssumption DEF Desktop!TypeOK
  <2> QED BY <1>4, <2>1, <2>2
<1>8. d_data' \in 0 .. MaxVersion /\ d_pending' \in Desktop!Records \cup {Desktop!NoRecord} /\ d_recovery' \in Desktop!Records \cup {Desktop!NoRecord}
  BY <1>1, <1>3, <1>7 DEF Desktop!TypeOK
<1>9. Desktop!RecordsOK'
  <2>1. /\ pc = "end" => ~Desktop!Restores'
        /\ pc = "start" => ~Desktop!Restores'
    BY <1>6 DEF Desktop!Restores
  <2>2. CASE d_data' = d_data /\ d_pending' = Desktop!NoRecord /\ d_recovery' = Desktop!NoRecord /\ pc = "start" /\ d_at["op"].pc = "forget"
    <3>1. d_data <= d_version
      BY <1>1, <2>2 DEF Desktop!RecordsOK
    <3> QED BY <1>2, <1>4, <1>6, <2>1, <2>2, <3>1 DEF Desktop!RecordsOK, Desktop!Nil
  <2>3. CASE d_pending' = d_pending /\ d_recovery' = d_recovery /\ pc \in {"end", "swap", "forget"} /\ d_data' <= d_version
    <3>1. d_data' <= d_pending.to
      BY <1>7, <1>8, <2>3
    <3>2. d_version \in {d_pending.from, d_pending.to} /\ (d_at["boot"].pc \notin {Desktop!Nil, "read"} => d_version = d_pending.to)
      BY <1>1, <1>4 DEF Desktop!RecordsOK
    <3> QED BY <1>2, <1>4, <1>6, <2>3, <3>1, <3>2 DEF Desktop!RecordsOK, Desktop!Nil
  <2>4. d_data' = 0 => d_data' <= d_version
    BY <1>7
  <2>5. d_data' = d_recovery.data => d_data' <= d_version
    BY <1>4, <1>7
  <2> QED BY <1>3, <2>2, <2>3, <2>4, <2>5
<1>10. pc = "swap" => (~d_mishap => d_children = <<>>)
  BY <1>1, <1>3, ThreadNames DEF Desktop!ProcessesKnown
<1>11. d_mishap' \in BOOLEAN /\ (~d_mishap' => ~d_mishap)
  BY <1>1, <1>2 DEF Desktop!TypeOK
<1> QED BY <1>2, <1>3, <1>4, <1>5, <1>8, <1>9, <1>10, <1>11, ChangesHolds DEF Desktop!Nil

\* The invariant of the shell.
LEMMA ShellStarts ==
    ASSUME Desktop!Init
    PROVE  Desktop!ShellInv
<1>1. /\ d_app = FALSE /\ d_updates = FALSE /\ d_version = 1 /\ d_data = 1 /\ d_pending = Desktop!NoRecord /\ d_installer = 0
      /\ d_children = <<>> /\ d_alive = {} /\ d_asked = {} /\ d_bad = {} /\ d_recovery = Desktop!NoRecord
      /\ d_at = [t \in Desktop!Threads |-> Desktop!Idle] /\ d_mishap = FALSE
  BY DEF Desktop!Init
<1>2. MaxVersion \in Nat /\ 1 \in 1 .. MaxVersion /\ 1 \in 0 .. MaxVersion /\ 0 \in 0 .. MaxVersion
  BY AccessAssumption
<1>3. \A t \in Desktop!Threads : d_at[t] = Desktop!Idle /\ d_at[t].pc = Desktop!Nil /\ d_at[t].do = Desktop!Nil
  BY <1>1, ThreadNames
<1>4. Desktop!TypeOK
  <2>1. d_at \in [Desktop!Threads -> Desktop!Frames]
    BY <1>1, ThreadNames
  <2>2. d_children \in Seq(Desktop!Processes) /\ \A i, j \in DOMAIN d_children : d_children[i] = d_children[j] => i = j
    BY <1>1
  <2> QED BY <1>1, <1>2, <2>1, <2>2 DEF Desktop!TypeOK
<1>5. Desktop!ThreadsOK
  <2>1. \A t \in Desktop!Threads : Desktop!Nil \in Desktop!Pcs[t] /\ Desktop!Nil \in Desktop!Dos[t]
    <3>1. Desktop!Nil \in Desktop!Pcs["boot"] /\ Desktop!Nil \in Desktop!Pcs["op"] /\ Desktop!Nil \in Desktop!Dos["boot"] /\ Desktop!Nil \in Desktop!Dos["op"]
      BY DEF Desktop!Pcs, Desktop!Dos
    <3> QED BY <3>1, ThreadNames
  <2> QED BY <1>3, <2>1, ThreadNames DEF Desktop!ThreadsOK, Desktop!Nil
<1>6. Desktop!RecordsOK
  <2>1. d_at["op"].pc = Desktop!Nil /\ d_at["op"].do = Desktop!Nil /\ d_at["boot"].pc = Desktop!Nil
    BY <1>3, ThreadNames
  <2>2. ~Desktop!Restores
    BY <2>1 DEF Desktop!Restores, Desktop!Nil
  <2>3. d_data <= d_version
    BY <1>1
  <2> QED BY <1>1, <2>1, <2>2, <2>3 DEF Desktop!RecordsOK, Desktop!Nil
<1>7. Desktop!ProcessesKnown
  BY <1>1, <1>3 DEF Desktop!ProcessesKnown, Desktop!Nil
<1> QED BY <1>4, <1>5, <1>6, <1>7 DEF Desktop!ShellInv
LEMMA ShellSteps ==
    ASSUME Desktop!ShellInv, Desktop!Next \/ UNCHANGED Desktop!vars
    PROVE  Desktop!ShellInv'
<1>1. ASSUME NEW t \in Desktop!Threads, Desktop!StartSteps(t) \/ Desktop!StopSteps(t) \/ Desktop!abandon(t)
      PROVE  Desktop!ShellInv'
  BY <1>1, StartStepHolds, PrepareHolds, SpawnHolds, StopStepHolds, AbandonHolds, StoppedHolds DEF Desktop!StartSteps, Desktop!StopSteps
<1>2. CASE Desktop!OpSteps
  <2>1. CASE Desktop!quit
    BY <2>1, OffHolds DEF Desktop!quit, Desktop!disk, Desktop!At
  <2> QED BY <1>2, <2>1, BeginStopHolds, OperationStoppedHolds, OperationEndsHolds, SnapshotHolds,
             InstallingHolds, LaunchInstallerHolds, RestoringHolds DEF Desktop!OpSteps, Desktop!Restoring, Desktop!Installing
<1>3. CASE Desktop!Booting
  BY <1>3, LaunchHolds, BootReadsHolds, BootEndsHolds DEF Desktop!Booting
<1>4. CASE Desktop!PowerCut
  BY <1>4, OffHolds DEF Desktop!PowerCut, Desktop!disk
<1>5. CASE Desktop!previousInstaller
  <2>1. \A t \in Desktop!Threads : d_at[t].pc = Desktop!Nil
    BY <1>5, ThreadNames DEF Desktop!previousInstaller
  <2>2. /\ d_app /\ d_recovery # Desktop!NoRecord /\ d_installer' = d_recovery.from /\ Desktop!Off /\ d_page = "diagnostics"
        /\ d_version' = d_version /\ d_data' = d_data /\ d_pending' = d_pending /\ d_recovery' = d_recovery
    BY <1>5 DEF Desktop!previousInstaller
  <2>3. d_recovery = d_pending
    BY <2>1, <2>2, ThreadNames DEF Desktop!ShellInv, Desktop!RecordsOK, Desktop!Nil
  <2> QED BY <2>2, <2>3, OffHolds
<1>6. CASE UNCHANGED Desktop!vars
  <2>1. UNCHANGED <<d_app, d_updates, d_version, d_data, d_pending, d_installer, d_children, d_alive, d_asked, d_bad, d_page, d_recovery, d_at, d_mishap>>
    BY <1>6 DEF Desktop!vars, Desktop!disk, Desktop!procs
  <2>2. Desktop!TypeOK' /\ Desktop!ThreadsOK'
    BY <2>1 DEF Desktop!ShellInv, Desktop!TypeOK, Desktop!ThreadsOK
  <2>3. Desktop!RecordsOK'
    BY <2>1 DEF Desktop!ShellInv, Desktop!RecordsOK, Desktop!Restores
  <2>4. Desktop!ProcessesKnown'
    BY <2>1 DEF Desktop!ShellInv, Desktop!ProcessesKnown
  <2> QED BY <2>2, <2>3, <2>4 DEF Desktop!ShellInv
<1> QED BY <1>1, <1>2, <1>3, <1>4, <1>5, <1>6, AsksHolds, ExitHolds, InstallsHolds DEF Desktop!Next

\* What follows from it.
LEMMA ShellMatches ==
    ASSUME Desktop!ShellInv
    PROVE  Desktop!SnapshotIsQuiet /\ Desktop!BootRespectsData /\ Desktop!RecordIsKnown
<1>1. Desktop!TypeOK /\ Desktop!ThreadsOK /\ Desktop!RecordsOK /\ Desktop!ProcessesKnown
  BY DEF Desktop!ShellInv
<1>2. Desktop!SnapshotIsQuiet
  <2> SUFFICES ASSUME d_at["op"].pc \in {"snapshot", "record", "launch", "stage", "move", "swap"}, ~d_mishap
               PROVE  d_alive = {}
    BY DEF Desktop!SnapshotIsQuiet
  <2>1. d_children = <<>> /\ Desktop!Range(<<>>) = {}
    BY <1>1, ThreadNames DEF Desktop!ProcessesKnown, Desktop!Range
  <2>2. \A t \in Desktop!Threads : d_at[t].pc # "stop"
    BY <1>1, ThreadNames, Alone DEF Desktop!Nil
  <2> QED BY <1>1, <2>1, <2>2 DEF Desktop!ProcessesKnown
<1>3. Desktop!BootRespectsData
  BY <1>1 DEF Desktop!BootRespectsData, Desktop!RecordsOK, Desktop!Nil
<1>4. Desktop!RecordIsKnown
  BY <1>1, ThreadNames DEF Desktop!RecordIsKnown, Desktop!RecordsOK, Desktop!Nil
<1> QED BY <1>2, <1>3, <1>4

-----------------------------------------------------------------------------
(* The systems side by side.                                               *)

\* What each page is shown to keep.
PagesInv ==
  /\ (part = "management") => Management!ManagementInv
  /\ (part = "profiles") => Profiles!ProfilesInv
  /\ (part = "controls") => Adjusted!ControlsInv

LEMMA PagesStart ==
    ASSUME AnyInit
    PROVE  PagesInv
  BY ManagementStarts, ProfilesStart, ControlsStart DEF AnyInit, PagesInv
LEMMA DesktopStarts ==
    ASSUME AnyInit
    PROVE  part = "desktop" => Desktop!ShellInv
  BY ShellStarts DEF AnyInit

\* Only one system moves: a step is its own, or leaves its state alone.
LEMMA PagesStep ==
    ASSUME PagesInv, AnyNext \/ UNCHANGED all
    PROVE  PagesInv'
<1>1. part' = part
  BY DEF AnyNext, all
<1>2. ASSUME part = "management"
      PROVE  Management!ManagementInv'
  <2>1. Management!Next \/ UNCHANGED Management!vars
    BY <1>2 DEF AnyNext, all, ManagementVars, Management!vars, Management!page, Management!memo
  <2> QED BY <1>2, <2>1, ManagementSteps DEF PagesInv
<1>3. ASSUME part = "profiles"
      PROVE  Profiles!ProfilesInv'
  <2>1. Profiles!Next \/ UNCHANGED Profiles!vars
    BY <1>3 DEF AnyNext, all, ProfilesVars, Profiles!vars, Profiles!hist
  <2> QED BY <1>3, <2>1, ProfilesStep DEF PagesInv
<1>4. ASSUME part = "controls"
      PROVE  Adjusted!ControlsInv'
  <2>1. Adjusted!Next \/ UNCHANGED Adjusted!vars
    BY <1>4 DEF AnyNext, all, AdjustedVars, Adjusted!vars
  <2> QED BY <1>4, <2>1, ControlsStep DEF PagesInv
<1> QED BY <1>1, <1>2, <1>3, <1>4 DEF PagesInv

LEMMA DesktopStep ==
    ASSUME part = "desktop" => Desktop!ShellInv, AnyNext \/ UNCHANGED all
    PROVE  (part = "desktop" => Desktop!ShellInv)'
<1>1. part' = part
  BY DEF AnyNext, all
<1>2. ASSUME part = "desktop"
      PROVE  Desktop!ShellInv'
  <2>1. Desktop!Next \/ UNCHANGED Desktop!vars
    BY <1>2 DEF AnyNext, all, DesktopVars, Desktop!vars, Desktop!disk, Desktop!procs, Desktop!counts
  <2> QED BY <1>2, <2>1, ShellSteps
<1> QED BY <1>1, <1>2

LEMMA PagesHonest ==
    ASSUME PagesInv
    PROVE  PagesAreHonest
<1>1. (part = "management") => Management!NoLateEffect /\ Management!ConfirmedStays
  BY ManagementHonest DEF PagesInv
<1>2. (part = "profiles") => Profiles!SelectionExists /\ Profiles!PanelCurrent
  BY ProfilesHonest DEF PagesInv
<1>3. (part = "controls") => Adjusted!NoControlFallsBack
  BY ControlsHonest DEF PagesInv
<1> QED BY <1>1, <1>2, <1>3 DEF PagesInv, PagesAreHonest

\* What pages show of what they share is so: a request the page of clients no
\* longer calls unknown takes no effect, a confirmed approval is not undone
\* by an older list, the account holds what the last save made of each
\* profile and shows the selection, and no control that somebody adjusted
\* falls back (useManagementActions.ts, localRuntime.ts, ConfigProfiles.tsx,
\* DirectPreview.tsx).
THEOREM PagesAreHonestTheorem == AnySpec => []PagesAreHonest
<1>1. AnyInit => PagesInv
  BY PagesStart
<1>2. PagesInv /\ [AnyNext]_all => PagesInv'
  BY PagesStep
<1>3. PagesInv => PagesAreHonest
  BY PagesHonest
<1> QED BY <1>1, <1>2, <1>3, PTL DEF AnySpec

\* No service runs while a snapshot is taken or restored, unless the user
\* restarted the services during the boot; the boot starts no old version on
\* newer data; and the record of an update is the one the application knows
\* (desktop/main.mjs, supervisor.mjs, updates.mjs).
THEOREM DataMatchesServicesTheorem == AnySpec => []DataMatchesServices
<1> DEFINE Kept == part = "desktop" => Desktop!ShellInv
<1>1. AnyInit => Kept
  BY DesktopStarts
<1>2. Kept /\ [AnyNext]_all => Kept'
  BY DesktopStep
<1>3. Kept => DataMatchesServices
  BY ShellMatches DEF DataMatchesServices
<1> QED BY <1>1, <1>2, <1>3, PTL DEF AnySpec

\* Beside the other systems the devices are as alone: what was saved is kept,
\* and no upload is blind.
COROLLARY DevicesKept == AnySpec => []EditsKept /\ NoBlindUpload
<1>1. AnyInit => Init
  BY DEF AnyInit
<1>2. [AnyNext]_all => [Next]_vars
  BY DEF AnyNext, all
<1>3. AnySpec => Spec
  BY <1>1, <1>2, PTL DEF AnySpec, Spec
<1> QED BY <1>3, EditsKeptTheorem, NoBlindUploadTheorem

=============================================================================
