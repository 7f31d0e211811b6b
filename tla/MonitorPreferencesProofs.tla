---------------------- MODULE MonitorPreferencesProofs ----------------------
(***************************************************************************)
(* Proofs about what the browsers of an account keep of it (BrowserSync).  *)
(*                                                                         *)
(* PreferenceInv is inductive, and with it every step of the pages, their  *)
(* saves and the account service is a step of PreferenceStore or leaves    *)
(* the account's document alone.  OrderInv, with it, keeps what a page     *)
(* read, sent and was answered in the order of its user's choices, so that *)
(* no control falls back.  BrowserInv ties the identity a browser stores,  *)
(* and those its operations carry, to the account whose data it holds.     *)
(* All for any pages, controls, choices, faults, accounts and enrolments.  *)
(***************************************************************************)
EXTENDS BrowserSync, SequenceTheorems, TLAPS

AnyPage == OpenPage \cup LoadingPage \cup {Closed, Cleared}

-----------------------------------------------------------------------------
(* Rows.                                                                   *)

\* A page is what its tag says.
LEMMA PageRows ==
    ASSUME TypeOK, NEW p \in Pages
    PROVE  /\ Open(p) => page[p] \in OpenPage /\ ~Loading(p) /\ page[p] # Closed
           /\ Loading(p) => page[p] \in LoadingPage /\ page[p] # Closed
           /\ AtWork(p) <=> page[p] \notin {Closed, Cleared}
  BY DEF TypeOK, OpenPage, LoadingPage, Closed, Cleared, Open, Loading, AtWork

LEMMA HookRow ==
    ASSUME NEW v \in Known, NEW b \in Known, NEW q \in Known \cup {None},
           NEW s \in Known, NEW t \in BOOLEAN
    PROVE  /\ Hook(v, b, q, s) \in OpenPage
           /\ [Hook(v, b, q, s) EXCEPT !.timer = t] \in OpenPage
  BY DEF Hook, OpenPage

LEMMA MergedKnown ==
    ASSUME NEW x \in Known, NEW y \in Known, NEW z \in Known
    PROVE  MergePreference(x, y, z) \in Known /\ MergeEdits(x, y, z) \in Known
  BY DEF MergePreference, Changed, MergeEdits, Known

\* A save that is marked stays a save.
LEMMA MarkedRow ==
    ASSUME NEW s \in SaveRow, NEW v \in Known \cup {None},
           NEW a \in {"queued", "sent", "answered", "failed"}
    PROVE  LET t == [s EXCEPT !.at = a]
               u == [s EXCEPT !.at = a, !.saved = v]
           IN /\ t \in SaveRow /\ u \in SaveRow
              /\ t.view = s.view /\ t.base = s.base /\ t.for = s.for
              /\ u.view = s.view /\ u.base = s.base /\ u.for = s.for
              /\ t.at = a /\ t.saved = s.saved /\ u.at = a /\ u.saved = v
  BY DEF SaveRow

\* Only the head of a page's saves is ever marked.
LEMMA MarkedSeq ==
    ASSUME NEW ss \in Seq(SaveRow), NEW e, ss # <<>> => e \in SaveRow
    PROVE  LET tt == [ss EXCEPT ![1] = e]
           IN /\ tt \in Seq(SaveRow) /\ Len(tt) = Len(ss) /\ DOMAIN tt = DOMAIN ss
              /\ \A i \in DOMAIN ss : tt[i] = IF i = 1 THEN e ELSE ss[i]
<1> DEFINE tt == [ss EXCEPT ![1] = e]
<1>1. /\ Len(ss) \in Nat /\ DOMAIN ss = 1..Len(ss)
  BY LenProperties
<1>2. CASE ss = <<>>
  <2>1. DOMAIN ss = {}
    BY <1>2, <1>1
  <2>2. tt = ss
    BY <2>1
  <2> QED
    BY <2>1, <2>2
<1>3. CASE ss # <<>>
  <2>1. 1 \in 1..Len(ss)
    BY <1>3, EmptySeq
  <2>2. /\ tt \in Seq(SaveRow) /\ Len(tt) = Len(ss)
        /\ \A j \in 1..Len(ss) : tt[j] = IF j = 1 THEN e ELSE ss[j]
    BY <1>3, <2>1, ExceptSeq
  <2> QED
    BY <1>1, <2>2, LenProperties
<1> QED
  BY <1>2, <1>3

-----------------------------------------------------------------------------
(* Types.                                                                  *)

\* Settings chosen so far only grow.
LEMMA Grows ==
    ASSUME TypeOK, stamp' \in Nat, stamp' >= stamp
    PROVE  /\ Known \subseteq Known' /\ OpenPage \subseteq OpenPage'
           /\ LoadingPage \subseteq LoadingPage' /\ SaveRow \subseteq SaveRow'
           /\ Request \subseteq Request' /\ CacheRow \subseteq CacheRow'
           /\ Seq(SaveRow) \subseteq Seq(SaveRow)'
<1>1. Known \subseteq Known'
  BY DEF TypeOK, Known
<1>2. SaveRow \subseteq SaveRow'
  BY <1>1 DEF SaveRow
<1> QED
  BY <1>1, <1>2, SeqMonotonic DEF OpenPage, LoadingPage, Request, CacheRow

LEMMA TypeFrame ==
    ASSUME TypeOK, stamp' = stamp, chosen' = chosen, doc' \in Known,
           page' \in [Pages -> AnyPage], saves' \in [Pages -> Seq(SaveRow)],
           wire' \subseteq Request, cache' \in [Pages -> CacheRow \cup {None}]
    PROVE  TypeOK'
<1>1. stamp' \in Nat /\ stamp' >= stamp
  BY DEF TypeOK
<1>2. Known' = Known
  BY DEF Known
<1>3. /\ OpenPage' = OpenPage /\ LoadingPage' = LoadingPage
      /\ SaveRow' = SaveRow /\ Request' = Request /\ CacheRow' = CacheRow
  BY <1>2 DEF OpenPage, LoadingPage, SaveRow, Request, CacheRow
<1> QED
  BY <1>2, <1>3 DEF TypeOK, AnyPage

\* A page's record after a step of its hook.
LEMMA SettledRow ==
    ASSUME TypeOK, NEW p \in Pages, NEW s \in SaveRow, NEW v \in Known,
           AtWork(p), Loading(p) => s.for = ForLoad
    PROVE  Settled(p, s, v) \in OpenPage /\ Failed(p, s) \in OpenPage
<1>1. s.view \in Known /\ s.base \in Known
  BY DEF SaveRow
<1>2. CASE s.for = ForLoad
  BY <1>1, <1>2, HookRow DEF Settled, Failed, Current, AnyPage, TypeOK
<1>3. CASE s.for # ForLoad
  <2>1. page[p] \in OpenPage
    BY <1>3, PageRows DEF AtWork
  <2>2. MergeEdits(v, s.view, page[p].latest) \in Known
    BY <1>1, <2>1, MergedKnown DEF OpenPage
  <2>3. Settled(p, s, v) \in OpenPage
    <3>1. CASE Current(p, s)
      BY <1>3, <2>1, <2>2, <3>1 DEF Settled, OpenPage
    <3>2. CASE ~Current(p, s)
      BY <1>3, <2>1, <3>2 DEF Settled
    <3> QED
      BY <3>1, <3>2
  <2>4. Failed(p, s) \in OpenPage
    <3>1. CASE Current(p, s)
      BY <1>3, <2>1, <3>1 DEF Failed, OpenPage
    <3>2. CASE ~Current(p, s)
      BY <1>3, <2>1, <3>2 DEF Failed
    <3> QED
      BY <3>1, <3>2
  <2> QED
    BY <2>3, <2>4
<1> QED
  BY <1>2, <1>3

\* The head of a page's saves.
LEMMA HeadRow ==
    ASSUME TypeOK, NEW p \in Pages, saves[p] # <<>>
    PROVE  /\ Head(saves[p]) = saves[p][1] /\ saves[p][1] \in SaveRow
           /\ 1 \in DOMAIN saves[p]
           /\ Tail(saves[p]) \in Seq(SaveRow)
           /\ DOMAIN Tail(saves[p]) = 1..(Len(saves[p]) - 1)
           /\ Len(saves[p]) \in Nat
           /\ \A i \in DOMAIN Tail(saves[p]) :
                i + 1 \in DOMAIN saves[p] /\ Tail(saves[p])[i] = saves[p][i + 1]
<1>1. saves[p] \in Seq(SaveRow)
  BY DEF TypeOK
<1>2. /\ Len(saves[p]) \in Nat \ {0} /\ DOMAIN saves[p] = 1..Len(saves[p])
  BY <1>1, EmptySeq, LenProperties
<1>3. /\ Tail(saves[p]) \in Seq(SaveRow)
      /\ Len(Tail(saves[p])) = Len(saves[p]) - 1
      /\ \A i \in 1..Len(Tail(saves[p])) : Tail(saves[p])[i] = saves[p][i + 1]
  BY <1>1, HeadTailProperties
<1>4. DOMAIN Tail(saves[p]) = 1..Len(Tail(saves[p]))
  BY <1>3, LenProperties
<1>5. Head(saves[p]) = saves[p][1]
  BY <1>1
<1>6. saves[p][1] \in SaveRow
  BY <1>1, <1>2, ElementOfSeq
<1> QED
  BY <1>2, <1>3, <1>4, <1>5, <1>6

LEMMA OrphanedRows == ASSUME TypeOK, NEW p PROVE Orphaned(p) \subseteq Request
  BY DEF TypeOK, Orphaned, Request

\* A page's record once its view is queued.
LEMMA NextRow ==
    ASSUME NEW h \in OpenPage
    PROVE  LET next == [h EXCEPT !.timer = FALSE, !.lastQueued = h.latest,
                                 !.generation = @ + 1]
           IN /\ next \in OpenPage /\ next.is = "open"
              /\ next.latest = h.latest /\ next.baseline = h.baseline
              /\ next.lastSaved = h.lastSaved /\ next.lastQueued = h.latest
              /\ next.before = h.before /\ next.got = h.got
              /\ next.generation = h.generation + 1
              /\ h.generation \in Nat
<1>1. h.generation \in Nat /\ h.generation + 1 \in Nat
  BY DEF OpenPage
<1> QED
  BY <1>1 DEF OpenPage

\* persist.
LEMMA PersistedType ==
    ASSUME TypeOK, NEW p \in Pages, Open(p), Persisted(p)
    PROVE  page' \in [Pages -> AnyPage] /\ saves' \in [Pages -> Seq(SaveRow)]
<1>1. page[p] \in OpenPage
  BY PageRows
<1>2. CASE page[p].latest = page[p].lastQueued
  <2>1. [page[p] EXCEPT !.timer = FALSE] \in OpenPage
    BY <1>1 DEF OpenPage
  <2>2. page' = [page EXCEPT ![p] = [page[p] EXCEPT !.timer = FALSE]]
    BY <1>2 DEF Persisted, TypeOK
  <2> QED
    BY <1>2, <2>1, <2>2 DEF Persisted, TypeOK, AnyPage
<1>3. CASE page[p].latest # page[p].lastQueued
  <2> DEFINE next == [page[p] EXCEPT !.timer = FALSE, !.lastQueued = page[p].latest,
                                     !.generation = @ + 1]
             s == Save(page[p].latest, page[p].baseline, next.generation)
  <2>1. next \in OpenPage /\ next.generation \in Nat
    BY <1>1, NextRow DEF OpenPage
  <2>2. s \in SaveRow
    BY <1>1, <2>1 DEF OpenPage, Save, SaveRow
  <2>3. page' = [page EXCEPT ![p] = next] /\ saves' = [saves EXCEPT ![p] = Append(@, s)]
    BY <1>3 DEF Persisted, Enqueue
  <2>4. Append(saves[p], s) \in Seq(SaveRow)
    BY <2>2, AppendProperties DEF TypeOK
  <2> HIDE DEF next, s
  <2> QED
    BY <2>1, <2>3, <2>4 DEF TypeOK, AnyPage
<1> QED
  BY <1>2, <1>3

LEMMA TypeStep ==
    ASSUME MaxChoices \in Nat, TypeOK, \A p \in Pages : PageInv(p), Step
    PROVE  TypeOK'
<1>t. /\ page \in [Pages -> AnyPage] /\ saves \in [Pages -> Seq(SaveRow)]
      /\ wire \subseteq Request /\ cache \in [Pages -> CacheRow \cup {None}]
      /\ doc \in Known /\ stamp \in 0..MaxChoices
  BY DEF TypeOK, AnyPage
<1>1. ASSUME NEW p \in Pages, Send(p) PROVE TypeOK'
  <2>1. saves[p][1] \in SaveRow /\ Head(saves[p]) = saves[p][1]
    BY <1>1, HeadRow DEF Send
  <2>2. [saves[p] EXCEPT ![1].at = "sent"] \in Seq(SaveRow)
    <3>1. [saves[p][1] EXCEPT !.at = "sent"] \in SaveRow
      BY <2>1 DEF SaveRow
    <3>2. saves[p] \in Seq(SaveRow)
      BY <1>t
    <3>3. [saves[p] EXCEPT ![1] = [saves[p][1] EXCEPT !.at = "sent"]] \in Seq(SaveRow)
      BY <3>1, <3>2, MarkedSeq
    <3> QED
      BY <3>3
  <2>3. Record(saves[p][1].view, TRUE, saves[p][1].base) \in CacheRow
    <3>1. saves[p][1].view \in Known /\ saves[p][1].base \in Known
      BY <2>1 DEF SaveRow
    <3> QED
      BY <3>1 DEF Record, CacheRow
  <2>4. [page |-> p, view |-> saves[p][1].view, base |-> saves[p][1].base,
         awaited |-> TRUE] \in Request
    BY <2>1 DEF Request, SaveRow
  <2>5. saves' \in [Pages -> Seq(SaveRow)]
    BY <1>t, <1>1, <2>2 DEF Send
  <2>6. cache' \in [Pages -> CacheRow \cup {None}] /\ wire' \subseteq Request
    BY <1>t, <1>1, <2>1, <2>3, <2>4 DEF Send
  <2> QED
    BY <1>t, <1>1, <2>5, <2>6, TypeFrame DEF Send, bounds
<1>2. ASSUME NEW r \in wire, Put(r) \/ \E executed \in BOOLEAN : PutLost(r, executed)
      PROVE  TypeOK'
  <2>1. r \in Request /\ r.page \in Pages
    BY <1>t DEF Request
  <2>2. MergePreference(doc, r.base, r.view) \in Known
    BY <1>t, <2>1, MergedKnown DEF Request
  <2>3. doc' \in Known /\ wire' \subseteq Request
    BY <1>t, <1>2, <2>2 DEF Put, PutLost
  <2>4. /\ [saves[r.page] EXCEPT ![1] = [@ EXCEPT !.at = "answered", !.saved = doc']] \in Seq(SaveRow)
        /\ [saves[r.page] EXCEPT ![1].at = "failed"] \in Seq(SaveRow)
    <3>1. saves[r.page] \in Seq(SaveRow)
      BY <1>t, <2>1
    <3>2. saves[r.page] # <<>> => saves[r.page][1] \in SaveRow
      BY <2>1, HeadRow
    <3>3. saves[r.page] # <<>> =>
            /\ [saves[r.page][1] EXCEPT !.at = "answered", !.saved = doc'] \in SaveRow
            /\ [saves[r.page][1] EXCEPT !.at = "failed"] \in SaveRow
      BY <2>3, <3>2, MarkedRow
    <3> QED
      BY <3>1, <3>3, MarkedSeq
  <2>5. saves' \in [Pages -> Seq(SaveRow)]
    BY <1>t, <1>2, <2>4 DEF Put, PutLost
  <2> QED
    BY <1>t, <1>2, <2>3, <2>5, TypeFrame DEF Put, PutLost, bounds
<1>3. ASSUME NEW p \in Pages, Answer(p) \/ Fail(p) PROVE TypeOK'
  <2>1. /\ saves[p][1] \in SaveRow /\ Head(saves[p]) = saves[p][1]
        /\ Tail(saves[p]) \in Seq(SaveRow) /\ 1 \in DOMAIN saves[p]
    BY <1>3, HeadRow DEF Answer, Fail
  <2>2. AtWork(p) /\ (Loading(p) => saves[p][1].for = ForLoad)
    BY <1>3 DEF PageInv, SavesInOrder, AtWork, Open, Loading, Answer, Fail
  <2>3. CASE Answer(p)
    <3>1. saves[p][1].saved \in Known
      BY <1>3, <2>1, <2>3 DEF PageInv, SavesInOrder, AtWork, Open, Loading, Answer
    <3>2. Settled(p, saves[p][1], saves[p][1].saved) \in AnyPage
      BY <2>1, <2>2, <3>1, SettledRow DEF AnyPage
    <3>3. Record(saves[p][1].saved, FALSE, saves[p][1].saved) \in CacheRow
      BY <3>1 DEF Record, CacheRow
    <3>4. page' \in [Pages -> AnyPage] /\ cache' \in [Pages -> CacheRow \cup {None}]
      BY <1>t, <2>1, <2>3, <3>2, <3>3 DEF Answer
    <3> QED
      BY <1>t, <2>1, <2>3, <3>4, TypeFrame DEF Answer, bounds
  <2>4. CASE Fail(p)
    <3>1. Failed(p, saves[p][1]) \in AnyPage
      BY <1>t, <2>1, <2>2, SettledRow DEF AnyPage
    <3>2. page' \in [Pages -> AnyPage]
      BY <1>t, <2>1, <2>4, <3>1 DEF Fail
    <3> QED
      BY <1>t, <2>1, <2>4, <3>2, TypeFrame DEF Fail, bounds
  <2> QED
    BY <1>3, <2>3, <2>4
<1>4. ASSUME NEW p \in Pages, Load(p) PROVE TypeOK'
  <2>1. [is |-> "loading", got |-> None] \in AnyPage
    BY DEF AnyPage, LoadingPage
  <2>2. saves' \in [Pages -> Seq(SaveRow)]
    <3>1. CASE cache[p] # None /\ cache[p].pending
      <4>1. Save(cache[p].view, cache[p].base, ForLoad) \in SaveRow
        BY <1>t, <3>1 DEF Save, SaveRow, CacheRow, ForLoad
      <4> QED
        <5>1. Append(saves[p], Save(cache[p].view, cache[p].base, ForLoad))
                \in Seq(SaveRow)
          BY <1>t, <4>1, AppendProperties
        <5> QED
          BY <1>t, <1>4, <3>1, <5>1 DEF Load, Enqueue
    <3>2. CASE ~(cache[p] # None /\ cache[p].pending)
      BY <1>t, <1>4, <3>2 DEF Load
    <3> QED
      BY <3>1, <3>2
  <2> QED
    BY <1>t, <1>4, <2>1, <2>2, TypeFrame DEF Load, bounds
<1>5. ASSUME NEW p \in Pages, Read(p) \/ Loaded(p) \/ ReadFails(p) \/ Refreshed(p)
      PROVE  TypeOK'
  <2>1. page'[p] \in AnyPage
    <3>1. CASE Loading(p)
      <4>1. page[p] \in LoadingPage /\ ~Open(p)
        BY <3>1, PageRows
      <4>2. page[p].got # None => page[p].got \in Known
        BY <4>1 DEF LoadingPage
      <4>3. CASE Read(p)
        BY <1>t, <4>1, <4>3 DEF Read, AnyPage, LoadingPage
      <4>4. CASE Loaded(p)
        BY <1>t, <4>1, <4>2, <4>4, HookRow DEF Loaded, AnyPage
      <4>5. CASE ReadFails(p)
        <5>1. cache[p] # None =>
                Hook(cache[p].view, cache[p].view, cache[p].view, cache[p].view) \in OpenPage
          BY <1>t, HookRow DEF CacheRow
        <5> QED
          BY <1>t, <4>1, <4>5, <5>1 DEF ReadFails, AnyPage
      <4> QED
        BY <1>5, <4>1, <4>3, <4>4, <4>5 DEF Refreshed
    <3>2. CASE Open(p)
      <4>1. page[p] \in OpenPage /\ ~Loading(p)
        BY <3>2, PageRows
      <4>2. CASE Read(p)
        BY <1>t, <4>1, <4>2 DEF Read, AnyPage, OpenPage
      <4>3. CASE ReadFails(p)
        BY <1>t, <3>2, <4>1, <4>3 DEF ReadFails, AnyPage, OpenPage
      <4>4. CASE Refreshed(p)
        <5>1. page[p].got \in Known
          BY <4>1, <4>4 DEF Refreshed, OpenPage
        <5>2. Applied(page[p]) \in OpenPage
          BY <4>1, <5>1 DEF Applied, OpenPage
        <5> QED
          BY <1>t, <4>4, <5>2 DEF Refreshed, AnyPage
      <4> QED
        BY <1>5, <4>1, <4>2, <4>3, <4>4 DEF Loaded
    <3> QED
      BY <1>5, <3>1, <3>2 DEF Read, Loaded, ReadFails, Refreshed, AtWork
  <2>2. page' \in [Pages -> AnyPage]
    BY <1>t, <1>5, <2>1 DEF Read, Loaded, ReadFails, Refreshed
  <2> QED
    BY <1>t, <1>5, <2>2, TypeFrame DEF Read, Loaded, ReadFails, Refreshed, bounds
<1>6. ASSUME NEW p \in Pages, NEW c \in Controls, Choose(p, c)
      PROVE  TypeOK'
  <2>1. page[p] \in OpenPage
    BY <1>6, PageRows DEF Choose
  <2>2. /\ stamp' = stamp + 1 /\ stamp' \in Nat /\ stamp' >= stamp
        /\ stamp' \in 0..MaxChoices
    BY <1>t, <1>6 DEF Choose
  <2>3. /\ Known \subseteq Known' /\ OpenPage \subseteq OpenPage'
        /\ LoadingPage \subseteq LoadingPage' /\ SaveRow \subseteq SaveRow'
        /\ Request \subseteq Request' /\ CacheRow \subseteq CacheRow'
        /\ Seq(SaveRow) \subseteq Seq(SaveRow)'
    BY <2>2, Grows
  <2>4. [page[p].latest EXCEPT ![c] = stamp + 1] \in Known'
    BY <1>t, <2>1, <2>2 DEF OpenPage, Known
  <2>5. [page[p] EXCEPT !.latest[c] = stamp + 1, !.timer = TRUE] \in OpenPage'
    BY <2>1, <2>3, <2>4 DEF OpenPage
  <2>6. page' \in [Pages -> OpenPage' \cup LoadingPage' \cup {Closed, Cleared}]
    BY <1>t, <1>6, <2>3, <2>5 DEF Choose, AnyPage
  <2>7. chosen' \subseteq [browser : Pages, control : Controls, setting : 1..stamp']
    BY <1>t, <1>6, <2>2 DEF Choose, TypeOK
  <2>8. /\ saves' \in [Pages -> Seq(SaveRow)'] /\ wire' \subseteq Request'
        /\ cache' \in [Pages -> CacheRow' \cup {None}] /\ doc' \in Known'
    BY <1>t, <1>6, <2>3 DEF Choose
  <2> QED
    BY <2>2, <2>6, <2>7, <2>8 DEF TypeOK, Closed
<1>7. ASSUME NEW p \in Pages, Persist(p) \/ Refresh(p) PROVE TypeOK'
  <2>1. CASE Persisted(p)
    BY <1>t, <1>7, <2>1, PersistedType, TypeFrame DEF Persist, Refresh, bounds
  <2>2. CASE ~Persisted(p)
    <3>1. page[p] \in OpenPage
      BY <1>7, PageRows DEF Persist, Refresh
    <3>2. [page[p] EXCEPT !.before = page[p].latest] \in AnyPage
      BY <3>1 DEF OpenPage, AnyPage
    <3>3. page' = [page EXCEPT ![p] = [page[p] EXCEPT !.before = page[p].latest]]
      BY <1>t, <1>7, <2>2 DEF Persist, Refresh
    <3> QED
      BY <1>t, <1>7, <2>2, <3>2, <3>3, TypeFrame DEF Persist, Refresh, bounds
  <2> QED
    BY <2>1, <2>2
<1>8. ASSUME NEW p \in Pages, Clear(p) \/ Unmount(p) \/ \E cached \in BOOLEAN : Hide(p, cached)
      PROVE  TypeOK'
  <2>1. /\ Orphaned(p) \subseteq Request /\ <<>> \in Seq(SaveRow)
        /\ Closed \in AnyPage /\ Cleared \in AnyPage
    BY OrphanedRows, EmptySeq DEF AnyPage
  <2>2. Open(p) => /\ [page |-> p, view |-> page[p].latest, base |-> page[p].baseline,
                       awaited |-> FALSE] \in Request
                   /\ Record(page[p].latest, TRUE, page[p].baseline) \in CacheRow
    BY PageRows DEF OpenPage, Request, CacheRow, Record
  <2>3. /\ page' \in [Pages -> AnyPage] /\ saves' \in [Pages -> Seq(SaveRow)]
        /\ wire' \subseteq Request /\ cache' \in [Pages -> CacheRow \cup {None}]
    <3>1. CASE Clear(p)
      BY <1>t, <2>1, <3>1 DEF Clear
    <3>2. CASE Unmount(p)
      BY <1>t, <2>1, <3>2 DEF Unmount, bounds
    <3>3. ASSUME NEW cached \in BOOLEAN, Hide(p, cached)
          PROVE  /\ page' \in [Pages -> AnyPage] /\ saves' \in [Pages -> Seq(SaveRow)]
                 /\ wire' \subseteq Request /\ cache' \in [Pages -> CacheRow \cup {None}]
      <4>1. page' = [page EXCEPT ![p] = Closed] /\ saves' = [saves EXCEPT ![p] = <<>>]
        BY <3>3 DEF Hide
      <4>2. wire' \subseteq Request /\ cache' \in [Pages -> CacheRow \cup {None}]
        BY <1>t, <2>1, <2>2, <3>3 DEF Hide
      <4> QED
        BY <1>t, <2>1, <4>1, <4>2
    <3> QED
      BY <1>8, <3>1, <3>2, <3>3
  <2> QED
    BY <1>t, <1>8, <2>3, TypeFrame DEF Clear, Unmount, Hide, bounds
<1> QED
  BY <1>1, <1>2, <1>3, <1>4, <1>5, <1>6, <1>7, <1>8 DEF Step, PageStep

-----------------------------------------------------------------------------
(* What travels in a page's name.                                          *)

LEMMA WireStep ==
    ASSUME TypeOK, WireMine, \A p \in Pages : PageInv(p), Step
    PROVE  WireMine'
<1>1. chosen \subseteq chosen'
  <2>1. ASSUME NEW r \in wire, Put(r) \/ \E executed \in BOOLEAN : PutLost(r, executed)
        PROVE  chosen' = chosen
    BY <2>1 DEF Put, PutLost
  <2>2. ASSUME NEW p \in Pages, NEW c \in Controls, Choose(p, c)
        PROVE  chosen \subseteq chosen'
    BY <2>2 DEF Choose
  <2>3. ASSUME NEW p \in Pages,
               \/ PageStep(p) \/ ReadFails(p) \/ Clear(p) \/ Unmount(p)
               \/ \E cached \in BOOLEAN : Hide(p, cached)
        PROVE  chosen' = chosen
    BY <2>3 DEF PageStep, Send, Answer, Fail, Load, Read, Loaded, Persist, Refresh,
                Refreshed, ReadFails, Clear, Unmount, Hide
  <2> QED
    BY <2>1, <2>2, <2>3 DEF Step
<1>2. \A r \in wire : \A c \in Controls :
        r.view[c] # r.base[c] =>
          [browser |-> r.page, control |-> c, setting |-> r.view[c]] \in chosen'
  BY <1>1 DEF WireMine, Edits, Mine
<1>3. ASSUME NEW p \in Pages
      PROVE  \A r \in Orphaned(p) : \A c \in Controls :
               r.view[c] # r.base[c] =>
                 [browser |-> r.page, control |-> c, setting |-> r.view[c]] \in chosen'
  <2>1. \A r \in wire : LET o == [r EXCEPT !.awaited = FALSE]
                        IN o.page = r.page /\ o.view = r.view /\ o.base = r.base
    BY DEF TypeOK, Request
  <2>2. ASSUME NEW o \in Orphaned(p)
        PROVE  \E r \in wire : o.page = r.page /\ o.view = r.view /\ o.base = r.base
    <3>1. PICK r \in wire : o = IF r.page = p THEN [r EXCEPT !.awaited = FALSE] ELSE r
      BY DEF Orphaned
    <3> QED
      BY <2>1, <3>1
  <2> QED
    BY <1>2, <2>2
<1>4. ASSUME wire' \subseteq wire PROVE WireMine'
  BY <1>2, <1>4 DEF WireMine, Edits, Mine
<1>5. ASSUME NEW p \in Pages, Send(p) PROVE WireMine'
  <2>1. /\ Head(saves[p]) = saves[p][1] /\ 1 \in DOMAIN saves[p]
    BY <1>5, HeadRow DEF Send
  <2>2. \A c \in Controls : saves[p][1].view[c] # saves[p][1].base[c] =>
          [browser |-> p, control |-> c, setting |-> saves[p][1].view[c]] \in chosen'
    BY <1>1, <2>1 DEF PageInv, SavesMine, Edits, Mine
  <2>3. \A r \in wire' : \/ r \in wire
                         \/ /\ r.page = p /\ r.view = saves[p][1].view
                            /\ r.base = saves[p][1].base
    BY <1>5, <2>1 DEF Send
  <2> QED
    BY <1>2, <2>2, <2>3 DEF WireMine, Edits, Mine
<1>6. ASSUME NEW p \in Pages, Clear(p) \/ \E cached \in BOOLEAN : Hide(p, cached)
      PROVE  WireMine'
  <2>1. \A r \in wire' : \/ r \in Orphaned(p)
                         \/ /\ Open(p) /\ r.page = p /\ r.view = page[p].latest
                            /\ r.base = page[p].baseline
    <3>1. CASE Clear(p)
      BY <3>1 DEF Clear
    <3>2. ASSUME NEW cached \in BOOLEAN, Hide(p, cached),
                 Open(p) /\ page[p].latest # page[p].lastSaved
          PROVE  wire' = Orphaned(p) \cup {[page |-> p, view |-> page[p].latest,
                                            base |-> page[p].baseline, awaited |-> FALSE]}
      BY <3>2 DEF Hide
    <3>3. ASSUME NEW cached \in BOOLEAN, Hide(p, cached),
                 ~(Open(p) /\ page[p].latest # page[p].lastSaved)
          PROVE  wire' = Orphaned(p)
      BY <3>3 DEF Hide
    <3> QED
      BY <1>6, <3>1, <3>2, <3>3
  <2>2. Open(p) => \A c \in Controls : page[p].latest[c] # page[p].baseline[c] =>
          [browser |-> p, control |-> c, setting |-> page[p].latest[c]] \in chosen'
    BY <1>1 DEF PageInv, HookIsSound, Edits, Mine
  <2> QED
    BY <1>3, <2>1, <2>2 DEF WireMine, Edits, Mine
<1>7. ASSUME NEW r \in wire, Put(r) \/ \E executed \in BOOLEAN : PutLost(r, executed)
      PROVE  WireMine'
  BY <1>4, <1>7 DEF Put, PutLost
<1>8. ASSUME NEW p \in Pages,
             \/ Answer(p) \/ Fail(p) \/ Load(p) \/ Read(p) \/ Loaded(p) \/ Persist(p)
             \/ Refresh(p) \/ Refreshed(p) \/ ReadFails(p) \/ Unmount(p)
             \/ \E c \in Controls : Choose(p, c)
      PROVE  WireMine'
  BY <1>4, <1>8 DEF Answer, Fail, Load, Read, Loaded, Persist, Refresh, Refreshed,
                    ReadFails, Unmount, Choose
<1> QED
  BY <1>5, <1>6, <1>7, <1>8 DEF Step, PageStep

-----------------------------------------------------------------------------
(* A page and its saves.                                                   *)

\* Whatever a step does elsewhere leaves a page's invariant.
LEMMA PageKept ==
    ASSUME TypeOK, TypeOK', NEW q \in Pages, PageInv(q), stamp' >= stamp,
           page'[q] = page[q], saves'[q] = saves[q], cache'[q] = cache[q],
           chosen \subseteq chosen'
    PROVE  PageInv(q)'
<1>1. SavesMine(q)' /\ CacheMine(q)'
  BY DEF PageInv, SavesMine, CacheMine, Edits, Mine
<1>2. Known \subseteq Known'
  BY DEF TypeOK, Known
<1>3. SavesInOrder(q)'
  BY <1>2 DEF PageInv, SavesInOrder, AtWork, Loading, Open
<1>4. HookIsSound(q)'
  BY DEF PageInv, HookIsSound, Open, Current, Edits, Mine
<1> QED
  BY <1>1, <1>3, <1>4 DEF PageInv

\* A head that is marked.
LEMMA PageMarked ==
    ASSUME TypeOK, NEW q \in Pages, PageInv(q), stamp' = stamp, chosen' = chosen,
           page'[q] = page[q], NEW e,
           saves'[q] = [saves[q] EXCEPT ![1] = e],
           saves[q] # <<>> =>
             /\ e \in SaveRow
             /\ e.view = saves[q][1].view /\ e.base = saves[q][1].base
             /\ e.for = saves[q][1].for
             /\ e.at = "answered" => e.saved \in Known
    PROVE  SavesMine(q)' /\ SavesInOrder(q)' /\ HookIsSound(q)'
<1>1. /\ saves[q] \in Seq(SaveRow)
      /\ saves[q] # <<>> => 1 \in DOMAIN saves[q]
      /\ Len(saves[q]) \in Nat /\ DOMAIN saves[q] = 1..Len(saves[q])
  BY HeadRow, LenProperties DEF TypeOK
<1>2. /\ Len(saves'[q]) = Len(saves[q]) /\ DOMAIN saves'[q] = DOMAIN saves[q]
      /\ saves'[q] \in Seq(SaveRow)
      /\ \A i \in DOMAIN saves[q] : saves'[q][i] = IF i = 1 THEN e ELSE saves[q][i]
  BY <1>1, MarkedSeq
<1>3. \A i \in DOMAIN saves[q] :
        /\ saves'[q][i].view = saves[q][i].view /\ saves'[q][i].base = saves[q][i].base
        /\ saves'[q][i].for = saves[q][i].for
        /\ i > 1 => saves'[q][i] = saves[q][i]
        /\ saves'[q][i].at = "answered" => saves'[q][i].saved \in Known
  BY <1>1, <1>2 DEF PageInv, SavesInOrder, AtWork, Open, Loading
<1>4. saves'[q] = <<>> <=> saves[q] = <<>>
  BY <1>1, <1>2, EmptySeq
<1>5. SavesMine(q)'
  BY <1>2, <1>3 DEF PageInv, SavesMine, Edits, Mine
<1>6. Known' = Known
  BY DEF Known
<1>7. SavesInOrder(q)'
  <2>1. ~AtWork(q)' => saves'[q] = <<>>
    BY <1>4 DEF PageInv, SavesInOrder, AtWork, Open, Loading
  <2>2. Loading(q)' /\ saves'[q] # <<>> =>
          page'[q].got = None /\ Len(saves'[q]) = 1 /\ saves'[q][1].for = ForLoad
    BY <1>1, <1>2, <1>3, <1>4 DEF PageInv, SavesInOrder, AtWork, Open, Loading
  <2>3. ASSUME NEW i \in DOMAIN saves'[q]
        PROVE  /\ i > 1 => saves'[q][i].at = "queued"
               /\ saves'[q][i].at = "answered" => saves'[q][i].saved \in Known'
               /\ Open(q)' => saves'[q][i].for \in 1..page'[q].generation
               /\ \A j \in DOMAIN saves'[q] :
                    saves'[q][i].for = saves'[q][j].for => i = j
    BY <1>2, <1>3, <1>6, <2>3 DEF PageInv, SavesInOrder, AtWork, Open, Loading
  <2> QED
    BY <2>1, <2>2, <2>3 DEF SavesInOrder, AtWork, Open, Loading
<1>8. HookIsSound(q)'
  BY <1>2, <1>3 DEF PageInv, HookIsSound, Open, Current, Edits, Mine
<1> QED
  BY <1>5, <1>7, <1>8

\* A head that is answered or given up.
LEMMA PageTail ==
    ASSUME TypeOK, NEW p \in Pages, PageInv(p), stamp' = stamp, chosen' = chosen,
           saves[p] # <<>>, saves'[p] = Tail(saves[p]), Open(p)',
           \/ Loading(p)
           \/ Open(p) /\ page'[p].generation = page[p].generation
    PROVE  /\ SavesMine(p)' /\ SavesInOrder(p)'
           /\ \A i \in DOMAIN saves'[p] :
                /\ Open(p) /\ i + 1 \in DOMAIN saves[p]
                /\ saves'[p][i] = saves[p][i + 1]
                /\ saves'[p][i].for # saves[p][1].for
                /\ saves'[p][i].for # ForLoad
<1>1. /\ 1 \in DOMAIN saves[p] /\ Len(saves[p]) \in Nat
      /\ DOMAIN saves'[p] = 1..(Len(saves[p]) - 1)
      /\ \A i \in DOMAIN saves'[p] :
           i + 1 \in DOMAIN saves[p] /\ saves'[p][i] = saves[p][i + 1]
  BY HeadRow
<1>2. Loading(p) => DOMAIN saves'[p] = {}
  BY <1>1 DEF PageInv, SavesInOrder, AtWork, Open, Loading
<1>3. \A i \in DOMAIN saves'[p] : Open(p) /\ page'[p].generation = page[p].generation
  BY <1>2
<1>4. \A i \in DOMAIN saves'[p] :
        /\ saves'[p][i].at = "queued"
        /\ saves'[p][i].for \in 1..page'[p].generation
        /\ saves'[p][i].for # saves[p][1].for
        /\ \A j \in DOMAIN saves'[p] : saves'[p][i].for = saves'[p][j].for => i = j
  <2> SUFFICES ASSUME NEW i \in DOMAIN saves'[p]
               PROVE  /\ saves'[p][i].at = "queued"
                      /\ saves'[p][i].for \in 1..page'[p].generation
                      /\ saves'[p][i].for # saves[p][1].for
                      /\ \A j \in DOMAIN saves'[p] :
                           saves'[p][i].for = saves'[p][j].for => i = j
    OBVIOUS
  <2>1. i + 1 > 1 /\ i + 1 # 1 /\ i \in Nat
    BY <1>1
  <2>2. \A j \in DOMAIN saves[p] : saves[p][i + 1].for = saves[p][j].for => i + 1 = j
    BY <1>1 DEF PageInv, SavesInOrder, AtWork, Open, Loading
  <2>3. /\ saves'[p][i].at = "queued"
        /\ saves'[p][i].for \in 1..page'[p].generation
    BY <1>1, <1>3, <2>1 DEF PageInv, SavesInOrder, AtWork, Open, Loading
  <2>4. saves'[p][i].for # saves[p][1].for
    BY <1>1, <2>1, <2>2
  <2>5. ASSUME NEW j \in DOMAIN saves'[p], saves'[p][i].for = saves'[p][j].for
        PROVE  i = j
    <3>1. i + 1 = j + 1 /\ j \in Nat
      BY <1>1, <2>2, <2>5
    <3> QED
      BY <2>1, <3>1
  <2> QED
    BY <2>3, <2>4, <2>5
<1>5. SavesMine(p)'
  BY <1>1 DEF PageInv, SavesMine, Edits, Mine
<1>6. page'[p] # Closed /\ ~Loading(p)'
  BY DEF Open, Closed, Loading
<1>7. SavesInOrder(p)'
  BY <1>4, <1>6 DEF SavesInOrder, AtWork, Open, Loading
<1>8. \A i \in DOMAIN saves'[p] : saves'[p][i].for # ForLoad
  <2>1. Open(p) => page[p].generation \in Nat
    BY PageRows DEF OpenPage
  <2> QED
    BY <1>3, <1>4, <2>1 DEF ForLoad
<1> QED
  BY <1>1, <1>3, <1>4, <1>5, <1>7, <1>8

\* A page that has just been loaded waits for no save.
LEMMA PageLoaded ==
    ASSUME NEW p \in Pages, NEW v, NEW b, NEW q,
           page'[p] = Hook(v, b, q, b)
             \/ page'[p] = [Hook(v, b, q, b) EXCEPT !.timer = TRUE],
           DOMAIN saves'[p] = {}, v = b => q = v,
           \A c \in Controls : v[c] # b[c] =>
               [browser |-> p, control |-> c, setting |-> v[c]] \in chosen'
    PROVE  Open(p)' /\ HookIsSound(p)'
<1>1. /\ page'[p].latest = v /\ page'[p].baseline = b /\ page'[p].lastSaved = b
      /\ page'[p].lastQueued = q /\ page'[p].before = None /\ page'[p].is = "open"
      /\ page'[p].got = None
  BY DEF Hook
<1>2. Edits(p, page[p].latest, page[p].baseline)'
  BY <1>1 DEF Edits, Mine
<1> QED
  BY <1>1, <1>2 DEF HookIsSound, Open

\* The hook takes over what the account made of its save; what was edited
\* meanwhile stays on the page.
LEMMA HookSettled ==
    ASSUME TypeOK, NEW p \in Pages, PageInv(p), chosen' = chosen, Open(p),
           saves[p] # <<>>, Current(p, saves[p][1]), NEW v \in Known,
           page'[p] = Settled(p, saves[p][1], v),
           \A i \in DOMAIN saves'[p] : saves'[p][i].for # saves[p][1].for
    PROVE  Open(p)' /\ page'[p].generation = page[p].generation /\ HookIsSound(p)'
<1> DEFINE h == page[p]
           s == saves[p][1]
           merged == MergeEdits(v, s.view, h.latest)
<1>1. h \in OpenPage /\ 1 \in DOMAIN saves[p]
  BY PageRows, HeadRow
<1>2. /\ page'[p].is = "open" /\ page'[p].generation = h.generation
      /\ page'[p].latest = merged /\ page'[p].baseline = v /\ page'[p].lastSaved = v
      /\ page'[p].lastQueued = v /\ page'[p].before = h.before
      /\ page'[p].got = h.got
  BY <1>1 DEF Settled, Current, OpenPage
<1>3. \A c \in Controls : merged[c] # v[c] =>
        /\ merged[c] = h.latest[c]
        /\ h.latest[c] # s.view[c]
  BY DEF MergeEdits
<1>4. /\ h.latest # h.lastSaved
      /\ \A c \in Controls : h.latest[c] # s.view[c] =>
           /\ Mine(p, c, h.latest[c])
           /\ h.before # None => h.latest[c] # h.before[c]
  BY <1>1 DEF PageInv, HookIsSound, Edits
<1>5. merged = v \/ \E c \in Controls : merged[c] # v[c]
  <2>1. merged \in Known
    BY <1>1, MergedKnown, HeadRow DEF OpenPage, SaveRow
  <2> HIDE DEF merged
  <2> QED
    BY <2>1 DEF Known
<1> HIDE DEF merged, h, s
<1>6. Edits(p, page[p].latest, page[p].baseline)'
  BY <1>2, <1>3, <1>4 DEF Edits, Mine
<1>7. page'[p].before # None /\ page'[p].latest = page'[p].before
        => page'[p].latest = page'[p].lastSaved
  BY <1>2, <1>3, <1>4, <1>5
<1>8. page'[p].got # None => page'[p].before # None
  BY <1>2 DEF PageInv, HookIsSound, h
<1>9. \A i \in DOMAIN saves'[p] : ~Current(p, saves[p][i])'
  BY <1>2 DEF Current, h, s
<1> QED
  BY <1>2, <1>6, <1>7, <1>8, <1>9 DEF HookIsSound, Open, h

\* Nothing the hook is judged by changes.
LEMMA HookSame ==
    ASSUME NEW p \in Pages, PageInv(p), chosen' = chosen, Open(p), Open(p)',
           page'[p].latest = page[p].latest, page'[p].baseline = page[p].baseline,
           page'[p].lastSaved = page[p].lastSaved,
           page'[p].lastQueued = page[p].lastQueued \/ page[p].latest # page[p].lastSaved,
           page'[p].generation = page[p].generation,
           page'[p].before \in {page[p].before, None},
           page'[p].got # None => page'[p].before # None,
           \A i \in DOMAIN saves'[p] : \E j \in DOMAIN saves[p] :
               saves'[p][i] = saves[p][j]
    PROVE  HookIsSound(p)'
<1>1. Edits(p, page[p].latest, page[p].baseline)'
  BY DEF PageInv, HookIsSound, Edits, Mine
<1>2. ASSUME NEW i \in DOMAIN saves'[p], Current(p, saves[p][i])'
      PROVE  /\ page'[p].latest # page'[p].lastSaved
             /\ Edits(p, page[p].latest, saves[p][i].view)'
             /\ page'[p].before # None => \A c \in Controls :
                  page'[p].latest[c] # saves'[p][i].view[c]
                  => page'[p].latest[c] # page'[p].before[c]
  <2>1. PICK j \in DOMAIN saves[p] : saves'[p][i] = saves[p][j]
    OBVIOUS
  <2>2. Current(p, saves[p][j])
    BY <1>2, <2>1 DEF Current
  <2> QED
    BY <2>1, <2>2 DEF PageInv, HookIsSound, Edits, Mine
<1> QED
  BY <1>1, <1>2 DEF PageInv, HookIsSound, Open

LEMMA AnswerPage ==
    ASSUME TypeOK, NEW p \in Pages, PageInv(p), Answer(p) \/ Fail(p)
    PROVE  PageInv(p)'
<1>1. /\ saves[p] # <<>> /\ saves'[p] = Tail(saves[p]) /\ stamp' = stamp
      /\ chosen' = chosen /\ Head(saves[p]) = saves[p][1]
      /\ saves[p][1] \in SaveRow /\ 1 \in DOMAIN saves[p]
  BY HeadRow DEF Answer, Fail, TypeOK, bounds
<1>2. saves[p][1].at = "answered" => saves[p][1].saved \in Known
  BY <1>1 DEF PageInv, SavesInOrder, AtWork, Open, Loading
<1>3. /\ Answer(p) => /\ saves[p][1].at = "answered"
                      /\ page'[p] = Settled(p, saves[p][1], saves[p][1].saved)
                      /\ cache'[p] = Record(saves[p][1].saved, FALSE, saves[p][1].saved)
      /\ Fail(p) => page'[p] = Failed(p, saves[p][1]) /\ cache'[p] = cache[p]
  BY <1>1 DEF Answer, Fail, TypeOK
<1>4. Open(p) \/ Loading(p)
  BY <1>1, PageRows DEF PageInv, SavesInOrder, AtWork, Open, Loading
<1>5. Edits(p, saves[p][1].view, saves[p][1].base) /\ saves[p][1].view # saves[p][1].base
  BY <1>1 DEF PageInv, SavesMine
<1>6. Loading(p) => saves[p][1].for = ForLoad /\ DOMAIN Tail(saves[p]) = {}
  BY <1>1, HeadRow DEF PageInv, SavesInOrder, AtWork, Open, Loading
<1>7. Open(p) => saves[p][1].for # ForLoad /\ page[p] \in OpenPage /\ ~Loading(p)
  BY <1>1, PageRows DEF PageInv, SavesInOrder, AtWork, Open, Loading, ForLoad, OpenPage
<1>8. SavesMine(p)' /\ SavesInOrder(p)' /\ HookIsSound(p)'
  <2>1. CASE Loading(p)
    <3>1. CASE Answer(p)
      <4>1. page'[p] = Hook(saves[p][1].saved, saves[p][1].saved,
                            saves[p][1].saved, saves[p][1].saved)
        BY <1>3, <1>6, <2>1, <3>1 DEF Settled, Current
      <4>2. Open(p)' /\ HookIsSound(p)'
        BY <1>1, <1>6, <2>1, <4>1, PageLoaded
      <4> QED
        BY <1>1, <2>1, <4>2, PageTail
    <3>2. CASE Fail(p)
      <4>1. page'[p] = [Hook(saves[p][1].view, saves[p][1].base, None, saves[p][1].base)
                          EXCEPT !.timer = TRUE]
        BY <1>3, <1>6, <2>1, <3>2 DEF Failed, Current
      <4>2. \A c \in Controls : saves[p][1].view[c] # saves[p][1].base[c] =>
              [browser |-> p, control |-> c, setting |-> saves[p][1].view[c]] \in chosen'
        BY <1>1, <1>5 DEF Edits, Mine
      <4>3. Open(p)' /\ HookIsSound(p)'
        BY <1>1, <1>5, <1>6, <2>1, <4>1, <4>2, PageLoaded
      <4> QED
        BY <1>1, <2>1, <4>3, PageTail
    <3> QED
      BY <3>1, <3>2
  <2>2. CASE Open(p) /\ Answer(p) /\ Current(p, saves[p][1])
    <3>0. \A i \in DOMAIN Tail(saves[p]) : Tail(saves[p])[i].for # saves[p][1].for
      <4> SUFFICES ASSUME NEW i \in DOMAIN Tail(saves[p])
                   PROVE  Tail(saves[p])[i].for # saves[p][1].for
        OBVIOUS
      <4>1. /\ i + 1 \in DOMAIN saves[p] /\ Tail(saves[p])[i] = saves[p][i + 1]
            /\ i \in Nat \ {0}
        BY <1>1, HeadRow
      <4>2. saves[p][i + 1].for = saves[p][1].for => i + 1 = 1
        BY <1>1, <4>1 DEF PageInv, SavesInOrder, AtWork, Open, Loading
      <4> QED
        BY <4>1, <4>2
    <3>1. Open(p)' /\ page'[p].generation = page[p].generation /\ HookIsSound(p)'
      BY <1>1, <1>2, <1>3, <2>2, <3>0, HookSettled
    <3> QED
      BY <1>1, <2>2, <3>1, PageTail
  <2>3. CASE Open(p) /\ ~(Answer(p) /\ Current(p, saves[p][1]))
    <3>1. /\ page'[p].is = "open" /\ page'[p].latest = page[p].latest
          /\ page'[p].baseline = page[p].baseline /\ page'[p].lastSaved = page[p].lastSaved
          /\ page'[p].generation = page[p].generation /\ page'[p].before = page[p].before
          /\ page'[p].got = page[p].got
          /\ \/ page'[p].lastQueued = page[p].lastQueued
             \/ Current(p, saves[p][1])
      <4>1. CASE ~Current(p, saves[p][1])
        <5>1. page'[p] = page[p]
          BY <1>3, <1>7, <2>3, <4>1 DEF Settled, Failed, Answer, Fail
        <5> QED
          BY <2>3, <5>1 DEF Open
      <4>2. CASE Current(p, saves[p][1]) /\ Fail(p)
        <5>1. page'[p] = [page[p] EXCEPT !.lastQueued = IF @ = saves[p][1].view THEN None ELSE @]
          BY <1>3, <1>7, <2>3, <4>2 DEF Failed
        <5> QED
          BY <1>7, <2>3, <4>2, <5>1 DEF Open, OpenPage
      <4> QED
        BY <2>3, <4>1, <4>2
    <3>2. Open(p)'
      BY <3>1 DEF Open
    <3>3. /\ SavesMine(p)' /\ SavesInOrder(p)'
          /\ \A i \in DOMAIN saves'[p] : \E j \in DOMAIN saves[p] :
               saves'[p][i] = saves[p][j]
      BY <1>1, <2>3, <3>1, <3>2, PageTail
    <3>4. Current(p, saves[p][1]) => page[p].latest # page[p].lastSaved
      BY <1>1, <2>3 DEF PageInv, HookIsSound
    <3>5. /\ page'[p].before \in {page[p].before, None}
          /\ page'[p].got # None => page'[p].before # None
      BY <2>3, <3>1 DEF PageInv, HookIsSound
    <3> QED
      BY <1>1, <2>3, <3>1, <3>2, <3>3, <3>4, <3>5, HookSame
  <2> QED
    BY <1>4, <2>1, <2>2, <2>3
<1>9. CacheMine(p)'
  <2>1. CASE Answer(p)
    BY <1>3, <2>1 DEF CacheMine, Record, Edits
  <2>2. CASE Fail(p)
    BY <1>1, <1>3, <2>2 DEF PageInv, CacheMine, Edits, Mine
  <2> QED
    BY <2>1, <2>2
<1> QED
  BY <1>8, <1>9 DEF PageInv

LEMMA SendPage ==
    ASSUME TypeOK, NEW p \in Pages, PageInv(p), Send(p)
    PROVE  PageInv(p)'
<1>1. /\ saves[p] # <<>> /\ Head(saves[p]) = saves[p][1]
      /\ saves[p][1] \in SaveRow /\ 1 \in DOMAIN saves[p]
  BY HeadRow DEF Send
<1> DEFINE e == [saves[p][1] EXCEPT !.at = "sent"]
<1>2. /\ e \in SaveRow /\ e.view = saves[p][1].view /\ e.base = saves[p][1].base
      /\ e.for = saves[p][1].for /\ e.at # "answered"
  BY <1>1 DEF SaveRow
<1>3. /\ saves'[p] = [saves[p] EXCEPT ![1] = e] /\ page'[p] = page[p]
      /\ cache'[p] = Record(saves[p][1].view, TRUE, saves[p][1].base)
      /\ stamp' = stamp /\ chosen' = chosen
  BY <1>1 DEF Send, TypeOK, bounds
<1> HIDE DEF e
<1>4. SavesMine(p)' /\ SavesInOrder(p)' /\ HookIsSound(p)'
  BY <1>1, <1>2, <1>3, PageMarked
<1>5. CacheMine(p)'
  BY <1>1, <1>3 DEF CacheMine, Record, PageInv, SavesMine, Edits, Mine
<1> QED
  BY <1>4, <1>5 DEF PageInv

LEMMA PutPage ==
    ASSUME TypeOK, TypeOK', NEW p \in Pages, PageInv(p), NEW r \in wire,
           Put(r) \/ \E executed \in BOOLEAN : PutLost(r, executed)
    PROVE  PageInv(p)'
<1>1. /\ page' = page /\ cache' = cache /\ stamp' = stamp /\ chosen' = chosen
      /\ doc' \in Known /\ stamp \in Nat
  BY DEF Put, PutLost, bounds, TypeOK, Known
<1>2. CASE saves'[p] = saves[p]
  BY <1>1, <1>2, PageKept
<1>3. ASSUME NEW e,
             \/ e = [saves[p][1] EXCEPT !.at = "answered", !.saved = doc']
             \/ e = [saves[p][1] EXCEPT !.at = "failed"],
             saves'[p] = [saves[p] EXCEPT ![1] = e]
      PROVE  PageInv(p)'
  <2>1. saves[p] # <<>> =>
          /\ e \in SaveRow /\ e.view = saves[p][1].view /\ e.base = saves[p][1].base
          /\ e.for = saves[p][1].for
          /\ e.at = "answered" => e.saved \in Known
    <3> SUFFICES ASSUME saves[p] # <<>>
                 PROVE  /\ e \in SaveRow /\ e.view = saves[p][1].view
                        /\ e.base = saves[p][1].base /\ e.for = saves[p][1].for
                        /\ e.at = "answered" => e.saved \in Known
      OBVIOUS
    <3>1. saves[p][1] \in SaveRow
      BY HeadRow
    <3> QED
      BY <1>1, <1>3, <3>1 DEF SaveRow
  <2>2. SavesMine(p)' /\ SavesInOrder(p)' /\ HookIsSound(p)'
    BY <1>1, <1>3, <2>1, PageMarked
  <2>3. CacheMine(p)'
    BY <1>1 DEF CacheMine, PageInv, Edits, Mine
  <2> QED
    BY <2>2, <2>3 DEF PageInv
<1>4. \/ saves'[p] = saves[p]
      \/ saves'[p] = [saves[p] EXCEPT ![1] =
             [saves[p][1] EXCEPT !.at = "answered", !.saved = doc']]
      \/ saves'[p] = [saves[p] EXCEPT ![1] = [saves[p][1] EXCEPT !.at = "failed"]]
  <2>1. r.page \in Pages /\ saves \in [Pages -> Seq(SaveRow)]
    BY DEF TypeOK, Request
  <2>2. CASE p # r.page \/ ~r.awaited
    BY <2>1, <2>2 DEF Put, PutLost
  <2>3. CASE p = r.page /\ r.awaited /\ Put(r)
    BY <2>1, <2>3 DEF Put
  <2>4. CASE p = r.page /\ r.awaited /\ ~Put(r)
    BY <2>1, <2>4 DEF PutLost
  <2> QED
    BY <2>2, <2>3, <2>4
<1> QED
  BY <1>2, <1>3, <1>4

LEMMA LoadPage ==
    ASSUME TypeOK, NEW p \in Pages, PageInv(p), Load(p)
    PROVE  PageInv(p)'
<1>1. /\ page'[p] = [is |-> "loading", got |-> None] /\ saves[p] = <<>>
      /\ cache' = cache /\ chosen' = chosen
  BY DEF Load, TypeOK, PageInv, SavesInOrder, AtWork, Open, Loading, Closed
<1>2. ~Open(p)' /\ AtWork(p)' /\ page'[p].got = None
  BY <1>1 DEF Open, Loading, AtWork
<1>3. CASE saves'[p] = <<>>
  BY <1>1, <1>2, <1>3
  DEF PageInv, SavesMine, SavesInOrder, AtWork, Open, Loading, CacheMine, HookIsSound, Edits, Mine
<1>4. CASE cache[p] # None /\ cache[p].pending
  <2> DEFINE s == Save(cache[p].view, cache[p].base, ForLoad)
  <2>1. s \in SaveRow /\ cache[p] \in CacheRow
    BY <1>4 DEF TypeOK, Save, SaveRow, CacheRow, ForLoad
  <2>2. /\ s.view = cache[p].view /\ s.base = cache[p].base /\ s.for = ForLoad
        /\ s.at = "queued"
    BY DEF Save
  <2>3. saves'[p] = Append(<<>>, s)
    BY <1>1, <1>4 DEF Load, Enqueue, TypeOK
  <2> HIDE DEF s
  <2>4. Len(saves'[p]) = 1 /\ saves'[p][1] = s /\ DOMAIN saves'[p] = {1}
    BY <2>3
  <2>5. SavesMine(p)'
    BY <1>1, <1>4, <2>2, <2>4 DEF SavesMine, PageInv, CacheMine, Edits, Mine
  <2>6. SavesInOrder(p)'
    BY <1>2, <2>2, <2>4 DEF SavesInOrder, AtWork, Open, Loading
  <2>7. CacheMine(p)'
    BY <1>1 DEF CacheMine, PageInv, Edits, Mine
  <2>8. HookIsSound(p)'
    BY <1>2 DEF HookIsSound
  <2> QED
    BY <2>5, <2>6, <2>7, <2>8 DEF PageInv
<1> QED
  BY <1>1, <1>3, <1>4 DEF Load

LEMMA ClosePage ==
    ASSUME TypeOK, NEW p \in Pages, PageInv(p),
           Clear(p) \/ Unmount(p) \/ \E cached \in BOOLEAN : Hide(p, cached)
    PROVE  PageInv(p)'
<1>1. page'[p] \in {Closed, Cleared} /\ saves'[p] = <<>> /\ chosen' = chosen
  <2>1. CASE Unmount(p)
    <3>1. ~Open(p) /\ ~Loading(p)
      BY <2>1 DEF Unmount, Open, Loading, Cleared
    <3>2. saves[p] = <<>>
      BY <3>1 DEF PageInv, SavesInOrder, AtWork, Open, Loading
    <3> QED
      BY <2>1, <3>2 DEF Unmount, TypeOK
  <2>2. CASE ~Unmount(p)
    BY <2>2 DEF Clear, Hide, TypeOK
  <2> QED
    BY <2>1, <2>2
<1>2. ~Open(p)' /\ ~Loading(p)'
  BY <1>1 DEF Open, Loading, Closed, Cleared
<1>3. SavesMine(p)' /\ SavesInOrder(p)' /\ HookIsSound(p)'
  BY <1>1, <1>2 DEF SavesMine, SavesInOrder, AtWork, Open, Loading, HookIsSound
<1>4. \/ cache'[p] = cache[p] \/ cache'[p] = None
      \/ /\ Open(p) /\ page[p].latest # page[p].lastSaved
         /\ cache'[p] = Record(page[p].latest, TRUE, page[p].baseline)
  BY DEF Clear, Unmount, Hide, TypeOK
<1>5. CacheMine(p)'
  BY <1>1, <1>4 DEF CacheMine, PageInv, HookIsSound, Record, Edits, Mine
<1> QED
  BY <1>3, <1>5 DEF PageInv

LEMMA ReadPage ==
    ASSUME TypeOK, TypeOK', NEW p \in Pages, PageInv(p),
           Read(p) \/ Loaded(p) \/ ReadFails(p) \/ Refreshed(p)
    PROVE  PageInv(p)'
<1>1. /\ saves' = saves /\ cache' = cache /\ chosen' = chosen /\ stamp' = stamp
      /\ page \in [Pages -> AnyPage]
  BY DEF Read, Loaded, ReadFails, Refreshed, bounds, TypeOK, AnyPage
<1>2. SavesMine(p)' /\ CacheMine(p)' /\ Known' = Known
  BY <1>1 DEF PageInv, SavesMine, CacheMine, Edits, Mine, Known
<1>3. CASE Loading(p)
  <2>1. page[p] \in LoadingPage /\ ~Open(p) /\ page[p] # Closed
    BY <1>3, PageRows
  <2>2. saves[p] = <<>>
    BY <1>3, <2>1 DEF PageInv, SavesInOrder, AtWork, Open, Loading, Read, Loaded, ReadFails, Refreshed
  <2>3. DOMAIN saves'[p] = {}
    BY <1>1, <2>2
  <2>4. page'[p] # Closed /\ HookIsSound(p)'
    <3>1. CASE Read(p)
      <4>1. page'[p] = [page[p] EXCEPT !.got = doc]
        BY <1>1, <3>1 DEF Read
      <4>2. page'[p].is = "loading"
        BY <2>1, <4>1 DEF LoadingPage
      <4> QED
        BY <4>2 DEF HookIsSound, Open, Closed
    <3>2. CASE Loaded(p)
      <4>1. page'[p] = Hook(page[p].got, page[p].got, page[p].got, page[p].got)
        BY <1>1, <3>2 DEF Loaded
      <4>2. Open(p)' /\ HookIsSound(p)'
        BY <2>3, <4>1, PageLoaded
      <4> QED
        BY <4>2 DEF Open, Closed
    <3>3. CASE ReadFails(p) /\ cache[p] # None
      <4>1. page'[p] = Hook(cache[p].view, cache[p].view, cache[p].view, cache[p].view)
        BY <1>1, <2>1, <3>3 DEF ReadFails
      <4>2. Open(p)' /\ HookIsSound(p)'
        BY <2>3, <4>1, PageLoaded
      <4> QED
        BY <4>2 DEF Open, Closed
    <3>4. CASE ReadFails(p) /\ cache[p] = None
      <4>1. page'[p] = page[p]
        BY <1>1, <2>1, <3>4 DEF ReadFails
      <4> QED
        BY <2>1, <4>1 DEF HookIsSound, Open
    <3> QED
      BY <2>1, <3>1, <3>2, <3>3, <3>4 DEF Refreshed
  <2>5. SavesInOrder(p)'
    BY <1>1, <2>2, <2>3, <2>4 DEF SavesInOrder, AtWork, Open, Loading
  <2> QED
    BY <1>2, <2>4, <2>5 DEF PageInv
<1>4. CASE Open(p)
  <2>1. page[p] \in OpenPage /\ ~Loading(p) /\ page[p] # Closed
    BY <1>4, PageRows
  <2>2. CASE Read(p) \/ ReadFails(p) \/ (Refreshed(p) /\ page[p].latest # page[p].before)
    <3>0. \/ page'[p] = [page[p] EXCEPT !.got = doc] /\ page[p].before # None
          \/ page'[p] = [page[p] EXCEPT !.before = None] /\ page[p].got = None
          \/ page'[p] = [page[p] EXCEPT !.before = None, !.got = None]
      BY <1>1, <1>4, <2>1, <2>2 DEF Read, ReadFails, Refreshed, Applied
    <3>1. /\ page'[p].is = "open" /\ page'[p].latest = page[p].latest
          /\ page'[p].baseline = page[p].baseline /\ page'[p].lastSaved = page[p].lastSaved
          /\ page'[p].generation = page[p].generation
          /\ page'[p].before \in {page[p].before, None}
          /\ page'[p].got # None => page'[p].before # None
          /\ page'[p].lastQueued = page[p].lastQueued
      <4>1. CASE page'[p] = [page[p] EXCEPT !.got = doc] /\ page[p].before # None
        BY <1>4, <2>1, <4>1 DEF OpenPage
      <4>2. CASE page'[p] = [page[p] EXCEPT !.before = None] /\ page[p].got = None
        BY <1>4, <2>1, <4>2 DEF OpenPage
      <4>3. CASE page'[p] = [page[p] EXCEPT !.before = None, !.got = None]
        BY <1>4, <2>1, <4>3 DEF OpenPage
      <4> QED
        BY <3>0, <4>1, <4>2, <4>3
    <3>2. Open(p)' /\ ~Loading(p)' /\ page'[p] # Closed
      BY <3>1 DEF Open, Loading, Closed
    <3>3. HookIsSound(p)'
      BY <1>1, <1>4, <3>1, <3>2, HookSame
    <3>4. SavesInOrder(p)'
      BY <1>1, <1>2, <1>4, <3>1, <3>2 DEF PageInv, SavesInOrder, AtWork, Open, Loading
    <3> QED
      BY <1>2, <3>3, <3>4 DEF PageInv
  <2>3. CASE Refreshed(p) /\ page[p].latest = page[p].before
    <3>1. page[p].before # None
      BY <1>4, <2>3 DEF PageInv, HookIsSound, Refreshed
    <3>2. /\ page'[p].is = "open" /\ page'[p].latest = page[p].got
          /\ page'[p].baseline = page[p].got /\ page'[p].lastSaved = page[p].got
          /\ page'[p].lastQueued = page[p].got
          /\ page'[p].generation = page[p].generation /\ page'[p].before = None
          /\ page'[p].got = None
      BY <1>1, <2>1, <2>3 DEF Refreshed, Applied, OpenPage
    <3>3. \A i \in DOMAIN saves[p] : ~Current(p, saves[p][i])
      BY <1>4, <2>3, <3>1 DEF PageInv, HookIsSound
    <3>4. Open(p)' /\ ~Loading(p)' /\ page'[p] # Closed
      BY <3>2 DEF Open, Loading, Closed
    <3>5. \A i \in DOMAIN saves'[p] : ~Current(p, saves[p][i])'
      BY <1>1, <3>2, <3>3 DEF Current
    <3>6. HookIsSound(p)'
      BY <3>2, <3>5 DEF HookIsSound, Edits
    <3>7. SavesInOrder(p)'
      BY <1>1, <1>2, <1>4, <3>2, <3>4 DEF PageInv, SavesInOrder, AtWork, Open, Loading
    <3> QED
      BY <1>2, <3>6, <3>7 DEF PageInv
  <2> QED
    BY <1>4, <2>1, <2>2, <2>3 DEF Loaded, Read, ReadFails, Refreshed
<1> QED
  BY <1>3, <1>4 DEF Read, Loaded, ReadFails, Refreshed, AtWork

LEMMA ChoosePage ==
    ASSUME TypeOK, TypeOK', NEW p \in Pages, PageInv(p), NEW c \in Controls, Choose(p, c)
    PROVE  PageInv(p)'
<1> DEFINE h == page[p]
<1>1. h \in OpenPage /\ Open(p) /\ ~Loading(p)
  BY PageRows DEF Choose
<1>2. /\ stamp \in Nat /\ stamp' = stamp + 1 /\ saves' = saves /\ cache' = cache
      /\ chosen \subseteq chosen'
      /\ [browser |-> p, control |-> c, setting |-> stamp + 1] \in chosen'
  BY DEF Choose, TypeOK
<1>3. page'[p] = [h EXCEPT !.latest[c] = stamp + 1, !.timer = TRUE]
  BY DEF Choose, TypeOK
<1>4. /\ page'[p].is = "open" /\ page'[p].latest = [h.latest EXCEPT ![c] = stamp + 1]
      /\ page'[p].baseline = h.baseline /\ page'[p].lastSaved = h.lastSaved
      /\ page'[p].lastQueued = h.lastQueued /\ page'[p].generation = h.generation
      /\ page'[p].before = h.before /\ page'[p].got = h.got
  BY <1>1, <1>3 DEF OpenPage
<1>5. /\ \A d \in Controls : page'[p].latest[d] = IF d = c THEN stamp + 1 ELSE h.latest[d]
      /\ h.lastSaved[c] # stamp + 1
      /\ h.before # None => h.before[c] # stamp + 1
  BY <1>1, <1>2, <1>4 DEF OpenPage, Known
<1>6. /\ page'[p].latest # page'[p].lastSaved
      /\ page'[p].before # None => page'[p].latest # page'[p].before
  BY <1>4, <1>5
<1>7. Open(p)' /\ ~Loading(p)' /\ page'[p] # Closed /\ page[p] # Closed
  BY <1>1, <1>4, PageRows DEF Open, Loading, Closed
<1>8. SavesMine(p)' /\ CacheMine(p)'
  BY <1>2 DEF PageInv, SavesMine, CacheMine, Edits, Mine
<1>9. Known \subseteq Known'
  BY <1>2, Grows
<1>10. SavesInOrder(p)'
  BY <1>1, <1>2, <1>4, <1>7, <1>9 DEF PageInv, SavesInOrder, AtWork, Open, Loading
<1> HIDE DEF h
<1>11. Edits(p, page[p].latest, page[p].baseline)'
  <2>1. \A d \in Controls : h.latest[d] # h.baseline[d] => Mine(p, d, h.latest[d])
    BY <1>1 DEF PageInv, HookIsSound, Edits, h
  <2> QED
    BY <1>2, <1>4, <1>5, <2>1 DEF Edits, Mine
<1>12. ASSUME NEW i \in DOMAIN saves'[p], Current(p, saves[p][i])'
       PROVE  /\ Edits(p, page[p].latest, saves[p][i].view)'
              /\ page'[p].before # None => \A d \in Controls :
                   page'[p].latest[d] # saves'[p][i].view[d]
                   => page'[p].latest[d] # page'[p].before[d]
  <2>1. Current(p, saves[p][i])
    BY <1>2, <1>4, <1>12 DEF Current, h
  <2>2. \A d \in Controls : h.latest[d] # saves[p][i].view[d] =>
          /\ Mine(p, d, h.latest[d])
          /\ h.before # None => h.latest[d] # h.before[d]
    BY <1>1, <1>2, <2>1 DEF PageInv, HookIsSound, Edits, h
  <2> QED
    BY <1>2, <1>4, <1>5, <2>2 DEF Edits, Mine
<1>13. h.got # None => h.before # None
  BY <1>1 DEF PageInv, HookIsSound, h
<1>14. h.baseline = h.lastSaved
  BY <1>1 DEF PageInv, HookIsSound, h
<1>15. HookIsSound(p)'
  BY <1>4, <1>6, <1>7, <1>11, <1>12, <1>13, <1>14 DEF HookIsSound
<1> QED
  BY <1>8, <1>10, <1>15 DEF PageInv

\* A view is only queued when it differs from what was saved.
LEMMA PersistPage ==
    ASSUME TypeOK, TypeOK', NEW p \in Pages, PageInv(p), Open(p), Persisted(p),
           cache' = cache, chosen' = chosen, stamp' = stamp
    PROVE  PageInv(p)'
<1> DEFINE h == page[p]
<1>1. h \in OpenPage /\ ~Loading(p) /\ h # Closed
  BY PageRows
<1>2. CacheMine(p)' /\ Known' = Known
  BY DEF PageInv, CacheMine, Edits, Mine, Known
<1>3. CASE h.latest = h.lastQueued
  <2>1. page'[p] = [h EXCEPT !.timer = FALSE] /\ saves' = saves
    BY <1>3 DEF Persisted, TypeOK
  <2>2. /\ page'[p].is = "open" /\ page'[p].latest = h.latest
        /\ page'[p].baseline = h.baseline /\ page'[p].lastSaved = h.lastSaved
        /\ page'[p].lastQueued = h.lastQueued /\ page'[p].generation = h.generation
        /\ page'[p].before = h.before /\ page'[p].got = h.got
    BY <1>1, <2>1 DEF OpenPage
  <2>3. Open(p)' /\ ~Loading(p)' /\ page'[p] # Closed
    BY <2>2 DEF Open, Loading, Closed
  <2>4. h.got # None => h.before # None
    BY DEF PageInv, HookIsSound
  <2>5. HookIsSound(p)'
    BY <2>1, <2>2, <2>3, <2>4, HookSame
  <2>6. SavesMine(p)' /\ SavesInOrder(p)'
    BY <1>1, <1>2, <2>1, <2>2, <2>3
    DEF PageInv, SavesMine, SavesInOrder, AtWork, Open, Loading, Edits, Mine
  <2> QED
    BY <1>2, <2>5, <2>6 DEF PageInv
<1>4. CASE h.latest # h.lastQueued
  <2> DEFINE next == [h EXCEPT !.timer = FALSE, !.lastQueued = h.latest, !.generation = @ + 1]
             s == Save(h.latest, h.baseline, next.generation)
  <2>1. page'[p] = next /\ saves'[p] = Append(saves[p], s)
    BY <1>4 DEF Persisted, Enqueue, TypeOK
  <2>2. /\ next \in OpenPage /\ next.is = "open"
        /\ next.latest = h.latest /\ next.baseline = h.baseline
        /\ next.lastSaved = h.lastSaved /\ next.lastQueued = h.latest
        /\ next.before = h.before /\ next.got = h.got
        /\ next.generation = h.generation + 1 /\ h.generation \in Nat
    BY <1>1, NextRow
  <2>3. /\ s \in SaveRow /\ s.view = h.latest /\ s.base = h.baseline
        /\ s.for = h.generation + 1 /\ s.at = "queued"
    BY <1>1, <2>2 DEF Save, SaveRow, OpenPage
  <2> HIDE DEF next, s
  <2>4. /\ saves[p] \in Seq(SaveRow) /\ Len(saves[p]) \in Nat
        /\ DOMAIN saves[p] = 1..Len(saves[p])
    BY LenProperties DEF TypeOK
  <2>5. /\ DOMAIN saves'[p] = 1..(Len(saves[p]) + 1)
        /\ \A i \in DOMAIN saves[p] : saves'[p][i] = saves[p][i]
        /\ saves'[p][Len(saves[p]) + 1] = s
    BY <2>1, <2>3, <2>4, AppendProperties, LenProperties
  <2>6. \A i \in DOMAIN saves'[p] : i \in DOMAIN saves[p] \/ i = Len(saves[p]) + 1
    BY <2>4, <2>5
  <2>7. /\ h.baseline = h.lastSaved /\ h.latest # h.lastSaved
        /\ Edits(p, h.latest, h.baseline)
        /\ h.got # None => h.before # None
        /\ h.before # None => h.latest # h.before
    BY <1>4 DEF PageInv, HookIsSound
  <2>8. Open(p)' /\ ~Loading(p)' /\ page'[p] # Closed
    BY <2>1, <2>2 DEF Open, Loading, Closed
  <2>9. SavesMine(p)'
    BY <2>3, <2>5, <2>6, <2>7 DEF PageInv, SavesMine, Edits, Mine
  <2>10. \A i \in DOMAIN saves[p] :
           /\ saves[p][i].for \in 1..h.generation
           /\ saves[p][i].for # h.generation + 1
    BY <2>2 DEF PageInv, SavesInOrder, AtWork, Open, Loading
  <2>11. SavesInOrder(p)'
    <3>1. ASSUME NEW i \in DOMAIN saves'[p]
          PROVE  /\ i > 1 => saves'[p][i].at = "queued"
                 /\ saves'[p][i].at = "answered" => saves'[p][i].saved \in Known'
                 /\ saves'[p][i].for \in 1..page'[p].generation
                 /\ \A j \in DOMAIN saves'[p] :
                      saves'[p][i].for = saves'[p][j].for => i = j
      <4>1. CASE i = Len(saves[p]) + 1
        BY <2>1, <2>2, <2>3, <2>5, <2>6, <2>10, <4>1
      <4>2. CASE i \in DOMAIN saves[p]
        <5>1. /\ i > 1 => saves[p][i].at = "queued"
              /\ saves[p][i].at = "answered" => saves[p][i].saved \in Known
              /\ \A j \in DOMAIN saves[p] : saves[p][i].for = saves[p][j].for => i = j
          BY <4>2 DEF PageInv, SavesInOrder, AtWork, Open, Loading
        <5> QED
          BY <1>2, <2>1, <2>2, <2>3, <2>5, <2>6, <2>10, <4>2, <5>1
      <4> QED
        BY <2>6, <4>1, <4>2
    <3> QED
      BY <2>8, <3>1 DEF SavesInOrder, AtWork, Open, Loading
  <2>12. HookIsSound(p)'
    <3>1. ASSUME NEW i \in DOMAIN saves'[p], Current(p, saves[p][i])'
          PROVE  saves'[p][i] = s
      BY <2>1, <2>2, <2>5, <2>6, <2>10, <3>1 DEF Current
    <3>2. Edits(p, page[p].latest, page[p].baseline)'
      BY <2>1, <2>2, <2>7 DEF Edits, Mine
    <3>3. \A i \in DOMAIN saves'[p] : Current(p, saves[p][i])' =>
            saves'[p][i].view = page'[p].latest
      BY <2>1, <2>2, <2>3, <3>1
    <3>4. \A i \in DOMAIN saves'[p] : Current(p, saves[p][i])' =>
            Edits(p, page[p].latest, saves[p][i].view)'
      BY <3>3 DEF Edits
    <3> HIDE DEF h
    <3> QED
      BY <2>1, <2>2, <2>7, <3>2, <3>3, <3>4 DEF HookIsSound
  <2> QED
    BY <1>2, <2>9, <2>11, <2>12 DEF PageInv
<1> QED
  BY <1>3, <1>4

LEMMA RefreshPage ==
    ASSUME TypeOK, TypeOK', NEW p \in Pages, PageInv(p), Refresh(p)
    PROVE  PageInv(p)'
<1> DEFINE h == page[p]
<1>1. /\ Open(p) /\ h \in OpenPage /\ ~Loading(p) /\ h # Closed
      /\ cache' = cache /\ chosen' = chosen /\ stamp' = stamp
  BY PageRows DEF Refresh, bounds
<1>2. CASE h.latest # h.lastSaved
  BY <1>1, <1>2, PersistPage DEF Refresh
<1>3. CASE h.latest = h.lastSaved
  <2>1. saves[p] = <<>> /\ saves' = saves /\ page'[p] = [h EXCEPT !.before = h.latest]
    BY <1>3 DEF Refresh, TypeOK
  <2>2. /\ page'[p].is = "open" /\ page'[p].latest = h.latest
        /\ page'[p].baseline = h.baseline /\ page'[p].lastSaved = h.lastSaved
        /\ page'[p].lastQueued = h.lastQueued /\ page'[p].got = h.got
    BY <1>1, <2>1 DEF OpenPage
  <2>3. h.got = None
    BY <1>1 DEF PageInv, HookIsSound, Refresh
  <2>4. DOMAIN saves'[p] = {}
    BY <2>1
  <2>5. Open(p)' /\ ~Loading(p)' /\ page'[p] # Closed
    BY <2>2 DEF Open, Loading, Closed
  <2>6. SavesMine(p)' /\ SavesInOrder(p)'
    BY <2>4, <2>5 DEF SavesMine, SavesInOrder, AtWork, Open, Loading
  <2>7. CacheMine(p)'
    BY <1>1 DEF PageInv, CacheMine, Edits, Mine
  <2>8. HookIsSound(p)'
    <3>1. /\ h.baseline = h.lastSaved /\ h.lastQueued = h.latest
          /\ Edits(p, h.latest, h.baseline)
      BY <1>1, <1>3 DEF PageInv, HookIsSound
    <3>2. Edits(p, page[p].latest, page[p].baseline)'
      BY <1>1, <2>2, <3>1 DEF Edits, Mine
    <3> QED
      BY <1>3, <2>2, <2>3, <2>4, <3>1, <3>2 DEF HookIsSound
  <2> QED
    BY <2>6, <2>7, <2>8 DEF PageInv
<1> QED
  BY <1>2, <1>3

\* Every action: the page it is of by the lemma of the action, the others by
\* PageKept.
LEMMA PagesStep ==
    ASSUME TypeOK, TypeOK', \A p \in Pages : PageInv(p), Step, NEW q \in Pages
    PROVE  PageInv(q)'
<1>t. stamp \in Nat /\ page \in [Pages -> AnyPage] /\ saves \in [Pages -> Seq(SaveRow)]
      /\ cache \in [Pages -> CacheRow \cup {None}]
  BY DEF TypeOK, AnyPage
<1>1. ASSUME NEW r \in wire, Put(r) \/ \E executed \in BOOLEAN : PutLost(r, executed)
      PROVE  PageInv(q)'
  BY <1>1, PutPage
<1>2. ASSUME NEW p \in Pages, p # q,
             \/ PageStep(p) \/ ReadFails(p) \/ Clear(p) \/ Unmount(p)
             \/ \E cached \in BOOLEAN : Hide(p, cached)
             \/ \E c \in Controls : Choose(p, c)
      PROVE  PageInv(q)'
  <2>1. page'[q] = page[q]
    BY <1>t, <1>2
    DEF PageStep, Send, Answer, Fail, Load, Read, Loaded, Persist, Refresh, Refreshed,
        Persisted, ReadFails, Clear, Unmount, Hide, Choose
  <2>2. saves'[q] = saves[q]
    BY <1>t, <1>2
    DEF PageStep, Send, Answer, Fail, Load, Read, Loaded, Persist, Refresh, Refreshed,
        Persisted, Enqueue, ReadFails, Clear, Unmount, Hide, Choose
  <2>3. cache'[q] = cache[q]
    BY <1>t, <1>2
    DEF PageStep, Send, Answer, Fail, Load, Read, Loaded, Persist, Refresh, Refreshed,
        ReadFails, Clear, Unmount, Hide, Choose
  <2>4. stamp' >= stamp /\ chosen \subseteq chosen'
    <3>1. CASE \E c \in Controls : Choose(p, c)
      BY <1>t, <3>1 DEF Choose
    <3>2. ASSUME PageStep(p) PROVE stamp' = stamp /\ chosen' = chosen
      BY <3>2
      DEF PageStep, Send, Answer, Fail, Load, Read, Loaded, Persist, Refresh, Refreshed,
          bounds
    <3>3. ASSUME ReadFails(p) \/ Clear(p) \/ Unmount(p) \/ \E cached \in BOOLEAN : Hide(p, cached)
          PROVE  stamp' = stamp /\ chosen' = chosen
      BY <3>3 DEF ReadFails, Clear, Unmount, Hide, bounds
    <3> QED
      BY <1>t, <1>2, <3>1, <3>2, <3>3
  <2> QED
    BY <2>1, <2>2, <2>3, <2>4, PageKept
<1>3. CASE Send(q)
  BY <1>3, SendPage
<1>4. CASE Answer(q) \/ Fail(q)
  BY <1>4, AnswerPage
<1>5. CASE Load(q)
  BY <1>5, LoadPage
<1>6. CASE Read(q) \/ Loaded(q) \/ ReadFails(q) \/ Refreshed(q)
  BY <1>6, ReadPage
<1>7. CASE Persist(q)
  BY <1>7, PersistPage DEF Persist, bounds
<1>8. CASE Refresh(q)
  BY <1>8, RefreshPage
<1>9. CASE \E c \in Controls : Choose(q, c)
  BY <1>9, ChoosePage
<1>10. CASE Clear(q) \/ Unmount(q) \/ \E cached \in BOOLEAN : Hide(q, cached)
  BY <1>10, ClosePage
<1> QED
  BY <1>1, <1>2, <1>3, <1>4, <1>5, <1>6, <1>7, <1>8, <1>9, <1>10 DEF Step, PageStep

-----------------------------------------------------------------------------
(* The order of a page's own choices.                                      *)

\* A step of another page leaves this page alone, and puts no choice of this
\* page into the account's document.
Untouched(q) ==
    /\ page'[q] = page[q] /\ saves'[q] = saves[q] /\ cache'[q] = cache[q]
    /\ \A r \in wire' : r.page = q => r \in wire
    /\ \A a \in chosen' : a.browser = q => a \in chosen
    /\ \A c \in Controls : Mine(q, c, doc'[c]) => doc'[c] = doc[c]

LEMMA StampsTell ==
    ASSUME TypeOK, ChoicesKnown, NEW p \in Pages, NEW q \in Pages, NEW c \in Controls, NEW v,
           Mine(p, c, v), Mine(q, c, v)
    PROVE  p = q /\ v \in 1..stamp
<1> DEFINE a == [browser |-> p, control |-> c, setting |-> v]
           b == [browser |-> q, control |-> c, setting |-> v]
<1>1. a \in chosen /\ b \in chosen /\ a.setting = b.setting
  BY DEF Mine
<1>2. a = b /\ a \in [browser : Pages, control : Controls, setting : 1..stamp]
  BY <1>1 DEF ChoicesKnown, TypeOK
<1> QED
  BY <1>2

LEMMA OthersRequest ==
    ASSUME TypeOK, WireMine, ChoicesKnown, NEW q \in Pages, NEW r \in wire, r.page # q,
           Put(r) \/ PutLost(r, TRUE) \/ PutLost(r, FALSE)
    PROVE  Untouched(q)
<1>1. /\ page' = page /\ cache' = cache /\ chosen' = chosen /\ wire' \subseteq wire
      /\ doc' \in {doc, MergePreference(doc, r.base, r.view)}
  BY DEF Put, PutLost, bounds
<1>2. saves'[q] = saves[q]
  BY DEF Put, PutLost, TypeOK
<1>3. ASSUME NEW c \in Controls, Mine(q, c, doc'[c]) PROVE doc'[c] = doc[c]
  <2>1. CASE doc' = MergePreference(doc, r.base, r.view) /\ c \in Changed(r.base, r.view)
    <3>1. doc'[c] = r.view[c] /\ r.page \in Pages /\ Mine(r.page, c, r.view[c])
      BY <2>1 DEF MergePreference, Changed, WireMine, Edits, TypeOK, Request
    <3> QED
      BY <1>3, <3>1, StampsTell
  <2>2. CASE doc' = MergePreference(doc, r.base, r.view) /\ c \notin Changed(r.base, r.view)
    BY <2>2 DEF MergePreference
  <2> QED
    BY <1>1, <2>1, <2>2
<1> QED
  BY <1>1, <1>2, <1>3 DEF Untouched

LEMMA OthersStep ==
    ASSUME TypeOK, NEW q \in Pages, NEW p \in Pages, p # q,
           PageStep(p) \/ ReadFails(p) \/ Unmount(p) \/ \E c \in Controls : Choose(p, c)
    PROVE  Untouched(q)
<1>t. /\ page \in [Pages -> AnyPage] /\ saves \in [Pages -> Seq(SaveRow)]
      /\ cache \in [Pages -> CacheRow \cup {None}]
  BY DEF TypeOK, AnyPage
<1>1. page'[q] = page[q]
  BY <1>t
  DEF PageStep, Send, Answer, Fail, Load, Read, Loaded, Persist, Refresh, Refreshed,
      Persisted, ReadFails, Unmount, Choose
<1>2. saves'[q] = saves[q]
  BY <1>t
  DEF PageStep, Send, Answer, Fail, Load, Read, Loaded, Persist, Refresh, Refreshed,
      Persisted, Enqueue, ReadFails, Unmount, Choose
<1>3. cache'[q] = cache[q]
  BY <1>t
  DEF PageStep, Send, Answer, Fail, Load, Read, Loaded, Persist, Refresh, Refreshed, ReadFails,
      Unmount, Choose
<1>4. doc' = doc
  BY DEF PageStep, Send, Answer, Fail, Load, Read, Loaded, Persist, Refresh, Refreshed, ReadFails,
     Unmount, Choose
<1>5. \A r \in wire' : r.page = q => r \in wire
  <2>1. Send(p) \/ wire' = wire
    BY DEF PageStep, Answer, Fail, Load, Read, Loaded, Persist, Refresh, Refreshed, ReadFails,
       Unmount, Choose
  <2>2. ASSUME Send(p), NEW r \in wire', r \notin wire PROVE r.page = p
    BY <2>2 DEF Send
  <2> QED
    BY <2>1, <2>2
<1>6. \A a \in chosen' : a.browser = q => a \in chosen
  <2>1. CASE \E c \in Controls : Choose(p, c)
    BY <2>1 DEF Choose
  <2>2. CASE PageStep(p)
    BY <2>2 DEF PageStep, Send, Answer, Fail, Load, Read, Loaded, Persist, Refresh, Refreshed,
       bounds
  <2>3. CASE ReadFails(p) \/ Unmount(p)
    BY <2>3 DEF ReadFails, Unmount
  <2> QED
    BY <2>1, <2>2, <2>3
<1> QED
  BY <1>1, <1>2, <1>3, <1>4, <1>5, <1>6 DEF Untouched

\* Every step, as one page sees it while nobody leaves.
LEMMA StepsSeen ==
    ASSUME TypeOK, WireMine, OrderInv, Step, hides' = 0, NEW q \in Pages
    PROVE  \/ Untouched(q)
           \/ \E r \in wire : r.page = q /\ (Put(r) \/ PutLost(r, TRUE) \/ PutLost(r, FALSE))
           \/ PageStep(q) \/ ReadFails(q) \/ Unmount(q) \/ \E c \in Controls : Choose(q, c)
<1>1. ASSUME NEW p \in Pages, Clear(p) \/ \E cached \in BOOLEAN : Hide(p, cached)
      PROVE  FALSE
  <2>1. hides \in Nat /\ hides' = hides + 1
    BY <1>1 DEF OrderInv, Clear, Hide
  <2> QED
    BY <2>1
<1>2. ASSUME NEW r \in wire, Put(r) \/ \E executed \in BOOLEAN : PutLost(r, executed)
      PROVE  /\ Put(r) \/ PutLost(r, TRUE) \/ PutLost(r, FALSE)
             /\ r.page # q => Untouched(q)
  <2>1. Put(r) \/ PutLost(r, TRUE) \/ PutLost(r, FALSE)
    BY <1>2
  <2> QED
    BY <2>1, OthersRequest DEF OrderInv
<1>3. ASSUME NEW p \in Pages, PageStep(p) \/ ReadFails(p) \/ Unmount(p) \/ \E c \in Controls : Choose(p, c)
      PROVE  p # q => Untouched(q)
  BY <1>3, OthersStep
<1> QED
  BY <1>1, <1>2, <1>3 DEF Step

LEMMA NobodyLeaves ==
    ASSUME OrderInv, Step, hides' = 0
    PROVE  hides = 0
<1>1. hides \in Nat
  BY DEF OrderInv
<1>2. hides' = hides \/ hides' = hides + 1
  BY DEF Step, PageStep, Send, Answer, Fail, Load, Read, Loaded, Persist, Refresh, Refreshed,
         ReadFails, Choose, Hide, Clear, Unmount, Put, PutLost, bounds
<1> QED
  BY <1>1, <1>2

\* A page's record and its saves, apart from the rest.
LEMMA OrderSame ==
    ASSUME NEW M, NEW N, N \subseteq M, NEW h, NEW g, NEW ss, NEW tt, NEW d, NEW e,
           OrderKept(M, h, ss, d), NEW k \in {0, 1},
           g.latest = h.latest, g.baseline = h.baseline, g.generation = h.generation,
           g.before \in {h.before, None}, g.got \in {h.got, None},
           g.got # None => g.before # None,
           Len(ss) \in Nat, DOMAIN ss = 1..Len(ss), ss = <<>> => Len(ss) = 0,
           Len(tt) \in Nat, DOMAIN tt = 1..Len(tt), tt # <<>> => Len(tt) # 0, Len(ss) = Len(tt) + k,
           \A i \in DOMAIN tt : /\ tt[i].view = ss[i + k].view /\ tt[i].base = ss[i + k].base
                                /\ tt[i].for = ss[i + k].for,
           tt # <<>> /\ tt[1].at = "answered" =>
               k = 0 /\ ss[1].at = "answered" /\ tt[1].saved = ss[1].saved,
           \A c \in Controls : <<c, e[c]>> \in N => e[c] = d[c]
    PROVE  OrderKept(N, g, tt, e)
<1>1. /\ \A x, y, c : ForwardAt(M, c, x, y) => ForwardAt(N, c, x, y)
      /\ \A x, y : Forward(M, x, y) => Forward(N, x, y)
  BY DEF Forward, ForwardAt
<1>2. /\ \A x : \A c \in Controls : ForwardAt(M, c, d, x) => ForwardAt(N, c, e, x)
      /\ \A x : Forward(M, x, d) => Forward(N, x, e)
      /\ \A x : Forward(M, d, x) => Forward(N, e, x)
  BY DEF Forward, ForwardAt
<1>3. Past(g) \subseteq Past(h)
  BY DEF Past
<1>4. \A i \in DOMAIN tt : i + k \in DOMAIN ss /\ i \in Nat
  OBVIOUS
<1>5. tt # <<>> => ss # <<>> /\ 1 \in DOMAIN tt /\ Len(tt) \in DOMAIN tt /\ Len(tt) + k = Len(ss)
  OBVIOUS
<1>6. SavesOfBaseline(g, tt)
  <2>1. \A i \in DOMAIN tt : tt[i].base = g.baseline
    BY <1>4 DEF OrderKept, SavesOfBaseline
  <2>2. tt # <<>> => tt[Len(tt)].for = g.generation
    BY <1>5 DEF OrderKept, SavesOfBaseline
  <2> QED
    BY <2>1, <2>2 DEF SavesOfBaseline
<1>7. AccountForward(N, g, e)
  <2>1. \A x \in Past(g) : Forward(N, x, e) /\ Forward(N, x, g.latest)
    BY <1>1, <1>2, <1>3 DEF OrderKept, AccountForward
  <2>2. Forward(N, e, g.latest)
    BY <1>2 DEF OrderKept, AccountForward
  <2>3. ASSUME g.got # None PROVE Forward(N, g.before, g.got)
    <3>1. g.got = h.got /\ g.before = h.before
      BY <2>3
    <3>2. Forward(M, h.before, h.got)
      BY <2>3, <3>1 DEF OrderKept, AccountForward
    <3> QED
      BY <1>1, <3>1, <3>2
  <2> QED
    BY <2>1, <2>2, <2>3 DEF AccountForward
<1>8. SavesForward(N, g, tt, e)
  <2> SUFFICES ASSUME NEW i \in DOMAIN tt
               PROVE  /\ Forward(N, tt[i].view, g.latest)
                      /\ \A j \in DOMAIN tt : j < i => Forward(N, tt[j].view, tt[i].view)
                      /\ \A c \in Changed(tt[i].base, tt[i].view), x \in Past(g) \cup {e} :
                           ForwardAt(N, c, x, tt[i].view)
    BY DEF SavesForward
  <2>1. Forward(N, tt[i].view, g.latest)
    BY <1>1, <1>4 DEF OrderKept, SavesForward
  <2>2. ASSUME NEW j \in DOMAIN tt, j < i PROVE Forward(N, tt[j].view, tt[i].view)
    <3>1. j + k \in DOMAIN ss /\ i + k \in DOMAIN ss /\ j + k < i + k
      BY <1>4, <2>2
    <3>2. Forward(M, ss[j + k].view, ss[i + k].view)
      BY <3>1 DEF OrderKept, SavesForward
    <3> QED
      BY <1>1, <3>2
  <2>3. ASSUME NEW c \in Changed(tt[i].base, tt[i].view), NEW x \in Past(g) \cup {e}
        PROVE  ForwardAt(N, c, x, tt[i].view)
    <3>1. /\ i + k \in DOMAIN ss /\ c \in Changed(ss[i + k].base, ss[i + k].view) /\ c \in Controls
          /\ tt[i].view = ss[i + k].view
      BY <1>4, <2>3 DEF Changed
    <3>2. CASE x \in Past(g)
      BY <1>1, <1>3, <3>1, <3>2 DEF OrderKept, SavesForward
    <3>3. CASE x = e
      <4>1. ForwardAt(M, c, d, ss[i + k].view)
        BY <3>1 DEF OrderKept, SavesForward
      <4> QED
        BY <1>2, <3>1, <3>3, <4>1
    <3> QED
      BY <3>2, <3>3
  <2> QED
    BY <2>1, <2>2, <2>3
<1>9. AnswerForward(N, g, tt, e)
  <2> SUFFICES ASSUME tt # <<>>, tt[1].at = "answered"
               PROVE  /\ \A x \in Past(g) \cup {e} : Forward(N, x, tt[1].saved)
                      /\ Forward(N, tt[1].saved, e) /\ Forward(N, tt[1].saved, g.latest)
                      /\ \A c \in Changed(tt[1].base, tt[1].view) : tt[1].saved[c] = tt[1].view[c]
    BY DEF AnswerForward
  <2>1. /\ ss # <<>> /\ ss[1].at = "answered" /\ tt[1].saved = ss[1].saved
        /\ tt[1].view = ss[1].view /\ tt[1].base = ss[1].base
    BY <1>5
  <2> QED
    BY <1>1, <1>2, <1>3, <2>1 DEF OrderKept, AnswerForward
<1>10. ReadOvertaken(N, g, tt, e)
  <2> SUFFICES ASSUME g.before # None
               PROVE  /\ \A c \in Changed(g.baseline, g.latest) : g.latest[c] # g.before[c]
                      /\ \A i \in DOMAIN tt :
                           \A c \in Changed(tt[i].base, tt[i].view) : tt[i].view[c] # g.before[c]
                      /\ g.got # None /\ g.latest = g.before => Forward(N, e, g.got)
    BY DEF ReadOvertaken
  <2>1. g.before = h.before /\ h.before # None
    OBVIOUS
  <2>2. ASSUME NEW i \in DOMAIN tt PROVE \A c \in Changed(tt[i].base, tt[i].view) : tt[i].view[c] # g.before[c]
    <3>1. i + k \in DOMAIN ss /\ tt[i].view = ss[i + k].view /\ tt[i].base = ss[i + k].base
      BY <1>4
    <3> QED
      BY <2>1, <3>1 DEF OrderKept, ReadOvertaken
  <2>3. g.got # None /\ g.latest = g.before => Forward(N, e, g.got)
    BY <1>2, <2>1 DEF OrderKept, ReadOvertaken
  <2>4. \A c \in Changed(g.baseline, g.latest) : g.latest[c] # g.before[c]
    BY <2>1 DEF OrderKept, ReadOvertaken
  <2> QED
    BY <2>2, <2>3, <2>4
<1> QED
  BY <1>6, <1>7, <1>8, <1>9, <1>10 DEF OrderKept

\* A document is no older than itself.
LEMMA ForwardSelf ==
    ASSUME NEW M, M \subseteq Controls \X Nat
    PROVE  \A x : Forward(M, x, x)
BY DEF Forward, ForwardAt

\* The account takes over the oldest save.
LEMMA OrderPut ==
    ASSUME NEW M, M \subseteq Controls \X Nat, NEW h, NEW ss, NEW tt, NEW d, NEW e,
           OrderKept(M, h, ss, d), ss # <<>>, 1 \in DOMAIN ss, DOMAIN ss \subseteq Nat,
           \A i \in DOMAIN ss : i >= 1,
           h.before # None => h.latest # h.before,
           e = MergePreference(d, ss[1].base, ss[1].view),
           DOMAIN tt = DOMAIN ss, Len(tt) = Len(ss), Len(ss) \in DOMAIN ss,
           \A i \in DOMAIN ss : tt[i].view = ss[i].view /\ tt[i].base = ss[i].base /\ tt[i].for = ss[i].for,
           tt[1].at = "answered" => tt[1].saved = e
    PROVE  OrderKept(M, h, tt, e)
<1> DEFINE s == ss[1]
<1>1. \A c \in Controls : e[c] = IF c \in Changed(s.base, s.view) THEN s.view[c] ELSE d[c]
  BY DEF MergePreference
<1>2. \A x \in Past(h) : Forward(M, x, e)
  <2> SUFFICES ASSUME NEW x \in Past(h), NEW c \in Controls PROVE ForwardAt(M, c, x, e)
    BY DEF Forward
  <2>1. ForwardAt(M, c, x, d)
    BY DEF OrderKept, AccountForward, Forward
  <2>2. c \in Changed(s.base, s.view) => ForwardAt(M, c, x, s.view)
    BY DEF OrderKept, SavesForward
  <2> QED
    BY <1>1, <2>1, <2>2 DEF ForwardAt
<1>3. Forward(M, e, h.latest)
  <2> SUFFICES ASSUME NEW c \in Controls PROVE ForwardAt(M, c, e, h.latest)
    BY DEF Forward
  <2>1. ForwardAt(M, c, d, h.latest)
    BY DEF OrderKept, AccountForward, Forward
  <2>2. ForwardAt(M, c, s.view, h.latest)
    BY DEF OrderKept, SavesForward, Forward
  <2> QED
    BY <1>1, <2>1, <2>2 DEF ForwardAt
<1>4. SavesOfBaseline(h, tt)
  <2>1. tt[Len(tt)].for = h.generation
    BY DEF OrderKept, SavesOfBaseline
  <2> QED
    BY <2>1 DEF OrderKept, SavesOfBaseline
<1>5. AccountForward(M, h, e)
  BY <1>2, <1>3 DEF OrderKept, AccountForward
<1>6. SavesForward(M, h, tt, e)
  <2> SUFFICES ASSUME NEW i \in DOMAIN tt
               PROVE  /\ Forward(M, tt[i].view, h.latest)
                      /\ \A j \in DOMAIN tt : j < i => Forward(M, tt[j].view, tt[i].view)
                      /\ \A c \in Changed(tt[i].base, tt[i].view), x \in Past(h) \cup {e} :
                           ForwardAt(M, c, x, tt[i].view)
    BY DEF SavesForward
  <2>1. /\ Forward(M, tt[i].view, h.latest)
        /\ \A j \in DOMAIN tt : j < i => Forward(M, tt[j].view, tt[i].view)
        /\ \A c \in Changed(tt[i].base, tt[i].view), x \in Past(h) \cup {d} :
             ForwardAt(M, c, x, tt[i].view)
    BY DEF OrderKept, SavesForward
  <2>2. Forward(M, s.view, tt[i].view)
    <3>1. CASE i = 1
      BY <3>1, ForwardSelf
    <3>2. CASE i # 1
      <4>1. 1 < i
        BY <3>2
      <4> QED
        BY <2>1, <4>1
    <3> QED
      BY <3>1, <3>2
  <2>3. ASSUME NEW c \in Changed(tt[i].base, tt[i].view) PROVE ForwardAt(M, c, e, tt[i].view)
    <3>1. c \in Controls
      BY DEF Changed
    <3>2. ForwardAt(M, c, d, tt[i].view) /\ ForwardAt(M, c, s.view, tt[i].view)
      BY <2>1, <2>2, <3>1 DEF Forward
    <3> QED
      BY <1>1, <3>1, <3>2 DEF ForwardAt
  <2> QED
    BY <2>1, <2>3
<1>7. AnswerForward(M, h, tt, e)
  <2> SUFFICES ASSUME tt[1].at = "answered"
               PROVE  /\ \A x \in Past(h) \cup {e} : Forward(M, x, e)
                      /\ Forward(M, e, e) /\ Forward(M, e, h.latest)
                      /\ \A c \in Changed(tt[1].base, tt[1].view) : e[c] = tt[1].view[c]
    BY DEF AnswerForward
  <2>1. \A c \in Changed(tt[1].base, tt[1].view) : e[c] = tt[1].view[c]
    BY <1>1 DEF Changed
  <2> QED
    BY <1>2, <1>3, <2>1, ForwardSelf
<1>8. ReadOvertaken(M, h, tt, e)
  BY DEF OrderKept, ReadOvertaken
<1> QED
  BY <1>4, <1>5, <1>6, <1>7, <1>8 DEF OrderKept

-----------------------------------------------------------------------------
(* The invariant and the refinement.                                       *)

LEMMA PreferenceInit == ASSUME MaxChoices \in Nat, Init PROVE PreferenceInv
<1>1. stamp = 0 /\ Blank \in Known
  BY DEF Init, Blank, Known, Default
<1>2. TypeOK
  BY <1>1, EmptySeq DEF Init, TypeOK
<1>3. \A p \in Pages : ~Open(p) /\ ~Loading(p)
  BY DEF Init, Open, Loading, Closed
<1>4. WireMine
  BY DEF Init, WireMine
<1>5. \A p \in Pages : PageInv(p)
  BY <1>3 DEF Init, PageInv, SavesMine, CacheMine, SavesInOrder, AtWork, Open, Loading, HookIsSound
<1> QED
  BY <1>2, <1>4, <1>5 DEF PreferenceInv

LEMMA PreferenceStep ==
    ASSUME MaxChoices \in Nat PROVE PreferenceInv /\ [Step]_vars => PreferenceInv'
<1> SUFFICES ASSUME PreferenceInv, [Step]_vars PROVE PreferenceInv'
  OBVIOUS
<1>1. CASE Step
  <2>1. TypeOK'
    BY <1>1, TypeStep DEF PreferenceInv
  <2> QED
    BY <1>1, <2>1, WireStep, PagesStep DEF PreferenceInv
<1>2. CASE UNCHANGED vars
  <2>1. TypeOK'
    BY <1>2, TypeFrame DEF vars, TypeOK, AnyPage, PreferenceInv
  <2>2. WireMine'
    BY <1>2 DEF vars, PreferenceInv, WireMine, Edits, Mine
  <2>3. ASSUME NEW q \in Pages PROVE PageInv(q)'
    <3>1. stamp' >= stamp
      BY <1>2 DEF vars, PreferenceInv, TypeOK
    <3> QED
      BY <1>2, <2>1, <3>1, PageKept DEF vars, PreferenceInv
  <2> QED
    BY <2>1, <2>2, <2>3 DEF PreferenceInv
<1> QED
  BY <1>1, <1>2

\* While no control is set back, each step is one of the others.
LEMMA NotSetBack ==
    ASSUME [Next]_vars, ~setBack' PROVE ~setBack /\ [Step]_vars
<1>1. \A p \in Pages, c \in Controls : ~SetBack(p, c)
  BY DEF SetBack
<1>2. Step => setBack' = setBack
  BY DEF Step, PageStep, Send, Answer, Fail, Load, Read, Loaded, Persist, Refresh, Refreshed,
         ReadFails, Choose, Hide, Clear, Unmount, Put, PutLost, bounds
<1> QED
  BY <1>1, <1>2 DEF Next, vars

\* What pages, saves, requests and caches hold of the account's preferences,
\* in every reachable state until a control is set back
\* (useMonitorPreferences.ts, localRuntime.ts).
THEOREM PreferenceInvariant ==
    ASSUME MaxChoices \in Nat PROVE Spec => [](~setBack => PreferenceInv)
<1>1. Init => (~setBack => PreferenceInv)
  BY PreferenceInit
<1>2. (~setBack => PreferenceInv) /\ [Next]_vars => (~setBack => PreferenceInv)'
  BY NotSetBack, PreferenceStep
<1> QED
  BY <1>1, <1>2, PTL DEF Spec

\* A choice is a choice of the store; a merged request commits choices of the
\* page that sent it; nothing else touches the document.
LEMMA StoreStep ==
    ASSUME MaxChoices \in Nat, PreferenceInv, PreferenceInv', [Step]_vars
    PROVE  [Store!Next]_<<doc, chosen>>
<1>1. ASSUME NEW r \in wire, doc' = MergePreference(doc, r.base, r.view), chosen' = chosen
      PROVE  Store!Next
  <2>1. r.page \in Pages /\ Edits(r.page, r.view, r.base)
    BY DEF PreferenceInv, TypeOK, Request, WireMine
  <2>2. doc' \in [Controls -> Settings]
    BY DEF PreferenceInv, TypeOK, Known, Settings
  <2>3. \A c \in Controls : doc'[c] # doc[c] =>
          [browser |-> r.page, control |-> c, setting |-> doc'[c]] \in chosen
    BY <1>1, <2>1 DEF MergePreference, Changed, Edits, Mine
  <2> QED
    BY <1>1, <2>1, <2>2, <2>3 DEF Store!Next, Store!Commit
<1>2. ASSUME NEW r \in wire, Put(r) \/ \E executed \in BOOLEAN : PutLost(r, executed)
      PROVE  [Store!Next]_<<doc, chosen>>
  BY <1>1, <1>2 DEF Put, PutLost
<1>3. ASSUME NEW p \in Pages, NEW c \in Controls, Choose(p, c)
      PROVE  Store!Next
  <2>1. /\ stamp + 1 \in Settings
        /\ \A x \in chosen : x.setting # stamp + 1
    BY <1>3 DEF Choose, PreferenceInv, TypeOK, Settings
  <2> QED
    BY <1>3, <2>1 DEF Choose, Store!Next, Store!Choose
<1>4. ASSUME NEW p \in Pages,
             \/ PageStep(p) \/ ReadFails(p) \/ Clear(p) \/ Unmount(p)
             \/ \E cached \in BOOLEAN : Hide(p, cached)
      PROVE  UNCHANGED <<doc, chosen>>
  BY <1>4 DEF PageStep, Send, Answer, Fail, Load, Read, Loaded, Persist, Refresh,
              Refreshed, ReadFails, Clear, Unmount, Hide
<1>5. CASE UNCHANGED vars
  BY <1>5 DEF vars
<1> QED
  BY <1>2, <1>3, <1>4, <1>5 DEF Step

\* The refinement: no page ever puts back a setting that was chosen elsewhere
\* (merge_monitor_preference, the baselines of the hook), whatever is lost,
\* aborted, retried or executed late, until a control is set back.
THEOREM StoreRefined ==
    ASSUME MaxChoices \in Nat PROVE Spec => PreferencesStore
<1>1. Init => Store!Init
  BY DEF Init, Blank, Store!Init
<1>2. (~setBack => PreferenceInv) /\ (~setBack => PreferenceInv)' /\ [Next]_vars =>
        [~setBack' => Store!Next]_<<doc, chosen>>
  BY NotSetBack, StoreStep
<1> QED
  BY <1>1, <1>2, PreferenceInvariant, PTL DEF Spec, PreferencesStore

-----------------------------------------------------------------------------
(* The order of a page's own choices, step by step.                        *)

\* The hook takes over the answer to its newest save.
LEMMA OrderAnswered ==
    ASSUME NEW M, M \subseteq Controls \X Nat, NEW h, NEW g, NEW ss, NEW tt, NEW d,
           OrderKept(M, h, ss, d), ss # <<>>, 1 \in DOMAIN ss, ss[1].at = "answered",
           tt = <<>>, ss[1].view # ss[1].base, ss[1].view \in [Controls -> Nat],
           ss[1].base \in [Controls -> Nat],
           h.before # None => \A c \in Controls :
               h.latest[c] # ss[1].view[c] => h.latest[c] # h.before[c],
           g.baseline = ss[1].saved, g.latest = MergeEdits(ss[1].saved, ss[1].view, h.latest),
           g.before = h.before, g.got = h.got
    PROVE  OrderKept(M, g, tt, d) /\ Forward(M, h.latest, g.latest)
<1> DEFINE v == ss[1].view
           s == ss[1].saved
<1>1. \A c \in Controls : g.latest[c] = IF h.latest[c] = v[c] THEN s[c] ELSE h.latest[c]
  BY DEF MergeEdits
<1>2. /\ \A x \in Past(h) : Forward(M, x, d) /\ Forward(M, x, h.latest) /\ Forward(M, x, s)
      /\ Forward(M, d, h.latest) /\ Forward(M, d, s) /\ Forward(M, s, d) /\ Forward(M, s, h.latest)
      /\ Forward(M, s, s) /\ h.baseline \in Past(h)
      /\ \A c \in Changed(h.baseline, v) : s[c] = v[c]
      /\ ss[1].base = h.baseline
      /\ h.got # None => Forward(M, h.before, h.got)
  <2>1. /\ \A x \in Past(h) \cup {d} : Forward(M, x, s)
        /\ Forward(M, s, d) /\ Forward(M, s, h.latest)
        /\ \A c \in Changed(ss[1].base, v) : s[c] = v[c]
    BY DEF OrderKept, AnswerForward
  <2>2. ss[1].base = h.baseline
    BY DEF OrderKept, SavesOfBaseline
  <2>3. h.baseline \in Past(h)
    BY DEF Past
  <2>4. Forward(M, s, s)
    BY ForwardSelf
  <2>5. /\ \A x \in Past(h) : Forward(M, x, d) /\ Forward(M, x, h.latest)
        /\ Forward(M, d, h.latest) /\ (h.got # None => Forward(M, h.before, h.got))
    BY DEF OrderKept, AccountForward
  <2> HIDE DEF v, s
  <2> QED
    BY <2>1, <2>2, <2>3, <2>4, <2>5
\* What is no newer than the answer nor than the view is no newer than both.
<1>3. ASSUME NEW x, Forward(M, x, s), Forward(M, x, h.latest) PROVE Forward(M, x, g.latest)
  <2> SUFFICES ASSUME NEW c \in Controls PROVE ForwardAt(M, c, x, g.latest)
    BY DEF Forward
  <2>1. ForwardAt(M, c, x, s) /\ ForwardAt(M, c, x, h.latest)
    BY <1>3 DEF Forward
  <2> QED
    BY <1>1, <2>1 DEF ForwardAt
<1>4. \A x \in Past(g) : x = s \/ x \in Past(h)
  BY DEF Past
<1>5. AccountForward(M, g, d)
  <2>1. \A x \in Past(g) : Forward(M, x, d) /\ Forward(M, x, g.latest)
    BY <1>2, <1>3, <1>4
  <2>2. Forward(M, d, g.latest)
    BY <1>2, <1>3
  <2> QED
    BY <1>2, <2>1, <2>2 DEF AccountForward
<1>6. DOMAIN tt = {}
  OBVIOUS
<1>7. SavesOfBaseline(g, tt) /\ SavesForward(M, g, tt, d) /\ AnswerForward(M, g, tt, d)
  BY <1>6 DEF SavesOfBaseline, SavesForward, AnswerForward
<1>8. ReadOvertaken(M, g, tt, d)
  <2> SUFFICES ASSUME g.before # None
               PROVE  /\ \A c \in Changed(g.baseline, g.latest) : g.latest[c] # g.before[c]
                      /\ g.latest # g.before
    BY <1>6 DEF ReadOvertaken
  <2>1. ASSUME NEW c \in Changed(g.baseline, g.latest) PROVE g.latest[c] # g.before[c]
    <3>1. c \in Controls /\ g.latest[c] # s[c]
      BY DEF Changed
    <3> QED
      BY <1>1, <3>1
  <2>2. PICK c \in Controls : v[c] # ss[1].base[c]
    OBVIOUS
  <2>3. c \in Changed(h.baseline, v) /\ c \in Changed(ss[1].base, v)
    BY <1>2, <2>2 DEF Changed
  <2>4. s[c] = v[c]
    BY <1>2, <2>3
  <2>5. v[c] # h.before[c]
    BY <2>3 DEF OrderKept, ReadOvertaken
  <2>6. g.latest[c] # g.before[c]
    BY <1>1, <2>4, <2>5
  <2> QED
    BY <2>1, <2>6
<1>9. Forward(M, h.latest, g.latest)
  <2> SUFFICES ASSUME NEW c \in Controls PROVE ForwardAt(M, c, h.latest, g.latest)
    BY DEF Forward
  <2>1. CASE h.latest[c] # v[c] \/ c \in Changed(h.baseline, v)
    <3>1. g.latest[c] = h.latest[c]
      BY <1>1, <1>2, <2>1
    <3> QED
      BY <3>1 DEF ForwardAt
  <2>2. CASE h.latest[c] = v[c] /\ c \notin Changed(h.baseline, v)
    <3>1. h.latest[c] = h.baseline[c] /\ g.latest[c] = s[c]
      BY <1>1, <2>2 DEF Changed
    <3>2. ForwardAt(M, c, h.baseline, s)
      BY <1>2 DEF Forward
    <3> QED
      BY <3>1, <3>2 DEF ForwardAt
  <2> QED
    BY <2>1, <2>2
<1> QED
  BY <1>5, <1>7, <1>8, <1>9 DEF OrderKept

\* The account answers a read of the hook.
LEMMA OrderRead ==
    ASSUME NEW M, M \subseteq Controls \X Nat, NEW h, NEW g, NEW ss, NEW d,
           OrderKept(M, h, ss, d), h.before # None,
           g.latest = h.latest, g.baseline = h.baseline, g.generation = h.generation,
           g.before = h.before, g.got = d
    PROVE  OrderKept(M, g, ss, d)
<1>1. \A x \in Past(g) : x \in Past(h) \cup {d}
  BY DEF Past
<1>2. h.before \in Past(h) /\ Forward(M, d, d)
  BY ForwardSelf DEF Past
<1>3. SavesOfBaseline(g, ss)
  BY DEF OrderKept, SavesOfBaseline
<1>4. AccountForward(M, g, d)
  BY <1>1, <1>2 DEF OrderKept, AccountForward
<1>5. SavesForward(M, g, ss, d)
  BY <1>1 DEF OrderKept, SavesForward
<1>6. AnswerForward(M, g, ss, d)
  BY <1>1 DEF OrderKept, AnswerForward
<1>7. ReadOvertaken(M, g, ss, d)
  BY <1>2 DEF OrderKept, ReadOvertaken
<1> QED
  BY <1>3, <1>4, <1>5, <1>6, <1>7 DEF OrderKept

\* Without saves only the account and the reads of it count.
LEMMA OrderIdle ==
    ASSUME NEW M, M \subseteq Controls \X Nat, NEW g, NEW d, g.latest = g.baseline,
           \A x \in Past(g) : x = g.latest, Forward(M, g.latest, d), Forward(M, d, g.latest),
           g.got = None
    PROVE  OrderKept(M, g, <<>>, d)
<1>1. DOMAIN <<>> = {} /\ Forward(M, g.latest, g.latest)
  BY ForwardSelf
<1>2. Changed(g.baseline, g.latest) = {}
  BY DEF Changed
<1>3. SavesOfBaseline(g, <<>>) /\ SavesForward(M, g, <<>>, d) /\ AnswerForward(M, g, <<>>, d)
  BY <1>1 DEF SavesOfBaseline, SavesForward, AnswerForward
<1>4. AccountForward(M, g, d)
  BY <1>1 DEF AccountForward
<1>5. ReadOvertaken(M, g, <<>>, d)
  BY <1>1, <1>2 DEF ReadOvertaken
<1> QED
  BY <1>3, <1>4, <1>5 DEF OrderKept

\* The view is queued for the account.
LEMMA OrderPersisted ==
    ASSUME NEW M, M \subseteq Controls \X Nat, NEW h, NEW g, NEW ss \in Seq(SaveRow), NEW tt, NEW d,
           NEW a \in SaveRow, OrderKept(M, h, ss, d), tt = Append(ss, a),
           a.view = h.latest, a.base = h.baseline, a.for = g.generation, a.at = "queued",
           g.latest = h.latest, g.baseline = h.baseline, g.before = h.before, g.got = h.got
    PROVE  OrderKept(M, g, tt, d)
<1> DEFINE n == Len(ss) + 1
<1>1. /\ Len(ss) \in Nat /\ DOMAIN ss = 1..Len(ss) /\ DOMAIN tt = 1..n /\ Len(tt) = n
      /\ tt[n] = a /\ \A i \in DOMAIN ss : tt[i] = ss[i]
  <2>1. tt \in Seq(SaveRow) /\ Len(tt) = n /\ tt[n] = a /\ \A i \in 1..Len(ss) : tt[i] = ss[i]
    BY AppendProperties
  <2> QED
    BY <2>1, LenProperties
<1>2. \A i \in DOMAIN tt : i = n \/ (i \in DOMAIN ss /\ i < n)
  BY <1>1
<1>3. Past(g) = Past(h)
  BY DEF Past
<1>4. SavesOfBaseline(g, tt)
  BY <1>1, <1>2 DEF OrderKept, SavesOfBaseline
<1>5. AccountForward(M, g, d)
  BY <1>3 DEF OrderKept, AccountForward
<1>6. SavesForward(M, g, tt, d)
  <2> SUFFICES ASSUME NEW i \in DOMAIN tt
               PROVE  /\ Forward(M, tt[i].view, g.latest)
                      /\ \A j \in DOMAIN tt : j < i => Forward(M, tt[j].view, tt[i].view)
                      /\ \A c \in Changed(tt[i].base, tt[i].view), x \in Past(g) \cup {d} :
                           ForwardAt(M, c, x, tt[i].view)
    BY DEF SavesForward
  <2>1. CASE i \in DOMAIN ss /\ i < n
    <3>1. \A j \in DOMAIN tt : j < i => j \in DOMAIN ss
      BY <1>1, <2>1
    <3> QED
      BY <1>1, <1>3, <2>1, <3>1 DEF OrderKept, SavesForward
  <2>2. CASE i = n
    <3>1. tt[i].view = h.latest /\ tt[i].base = h.baseline
      BY <1>1, <2>2
    <3>2. Forward(M, h.latest, h.latest)
      BY ForwardSelf
    <3>3. \A j \in DOMAIN tt : j < i => j \in DOMAIN ss
      BY <1>1, <2>2
    <3>4. \A j \in DOMAIN tt : j < i => Forward(M, tt[j].view, h.latest)
      BY <1>1, <3>3 DEF OrderKept, SavesForward
    <3>5. \A x \in Past(g) \cup {d} : Forward(M, x, h.latest)
      BY <1>3 DEF OrderKept, AccountForward
    <3>6. \A c \in Changed(tt[i].base, tt[i].view), x \in Past(g) \cup {d} :
            ForwardAt(M, c, x, h.latest)
      BY <3>5 DEF Forward, Changed
    <3> QED
      BY <3>1, <3>2, <3>4, <3>6
  <2> QED
    BY <1>2, <2>1, <2>2
<1>7. AnswerForward(M, g, tt, d)
  <2>1. CASE ss = <<>>
    <3>1. tt[1].at = "queued"
      BY <1>1, <2>1
    <3> QED
      BY <3>1 DEF AnswerForward
  <2>2. CASE ss # <<>>
    <3>1. 1 \in DOMAIN ss /\ tt[1] = ss[1]
      BY <1>1, <2>2, EmptySeq
    <3> QED
      BY <1>3, <2>2, <3>1 DEF OrderKept, AnswerForward
  <2> QED
    BY <2>1, <2>2
<1>8. ReadOvertaken(M, g, tt, d)
  <2> SUFFICES ASSUME g.before # None
               PROVE  /\ \A c \in Changed(g.baseline, g.latest) : g.latest[c] # g.before[c]
                      /\ \A i \in DOMAIN tt :
                           \A c \in Changed(tt[i].base, tt[i].view) : tt[i].view[c] # g.before[c]
                      /\ g.got # None /\ g.latest = g.before => Forward(M, d, g.got)
    BY DEF ReadOvertaken
  <2>1. /\ \A c \in Changed(h.baseline, h.latest) : h.latest[c] # h.before[c]
        /\ \A i \in DOMAIN ss : \A c \in Changed(ss[i].base, ss[i].view) : ss[i].view[c] # h.before[c]
        /\ h.got # None /\ h.latest = h.before => Forward(M, d, h.got)
    BY DEF OrderKept, ReadOvertaken
  <2>2. ASSUME NEW i \in DOMAIN tt
        PROVE  \A c \in Changed(tt[i].base, tt[i].view) : tt[i].view[c] # g.before[c]
    BY <1>1, <1>2, <2>1
  <2> QED
    BY <2>1, <2>2
<1> QED
  BY <1>4, <1>5, <1>6, <1>7, <1>8 DEF OrderKept

\* The user sets a control: its stamp is newer than everything so far.
LEMMA OrderChosen ==
    ASSUME NEW n \in Nat, NEW c0 \in Controls, NEW M, M \subseteq Controls \X (0..(n - 1)),
           NEW h, NEW g, NEW ss, NEW d, OrderKept(M, h, ss, d),
           d \in [Controls -> 0..(n - 1)], h.latest \in [Controls -> 0..(n - 1)],
           \A x \in Past(h) : x \in [Controls -> 0..(n - 1)],
           \A i \in DOMAIN ss : ss[i].view \in [Controls -> 0..(n - 1)],
           ss # <<>> /\ ss[1].at = "answered" => ss[1].saved \in [Controls -> 0..(n - 1)],
           ss # <<>> => 1 \in DOMAIN ss,
           h.got # None => h.before # None,
           g.latest = [h.latest EXCEPT ![c0] = n], g.baseline = h.baseline,
           g.before = h.before, g.got = h.got, g.generation = h.generation
    PROVE  OrderKept(M \cup {<<c0, n>>}, g, ss, d)
<1> DEFINE N == M \cup {<<c0, n>>}
           D == [Controls -> 0..(n - 1)]
<1>1. \A x \in D : \A c \in Controls : <<c, x[c]>> \in N => <<c, x[c]>> \in M
  OBVIOUS
<1>2. \A c \in Controls : \A x, y \in D : ForwardAt(M, c, x, y) => ForwardAt(N, c, x, y)
  BY <1>1 DEF ForwardAt
<1>3. \A x, y \in D : Forward(M, x, y) => Forward(N, x, y)
  BY <1>2 DEF Forward
<1>4. ASSUME NEW x \in D, Forward(M, x, h.latest) PROVE Forward(N, x, g.latest)
  <2> SUFFICES ASSUME NEW c \in Controls, <<c, x[c]>> \in N, <<c, g.latest[c]>> \in N
               PROVE  x[c] <= g.latest[c]
    BY DEF Forward, ForwardAt
  <2>1. CASE c = c0
    BY <2>1
  <2>2. CASE c # c0
    <3>1. g.latest[c] = h.latest[c] /\ <<c, x[c]>> \in M /\ <<c, h.latest[c]>> \in M
      BY <2>2
    <3> QED
      BY <1>4, <3>1 DEF Forward, ForwardAt
  <2> QED
    BY <2>1, <2>2
<1>5. Past(g) = Past(h)
  BY DEF Past
<1>6. SavesOfBaseline(g, ss)
  BY DEF OrderKept, SavesOfBaseline
<1>7. AccountForward(N, g, d)
  <2>1. \A x \in Past(g) : Forward(N, x, d) /\ Forward(N, x, g.latest)
    BY <1>3, <1>4, <1>5 DEF OrderKept, AccountForward
  <2>2. Forward(N, d, g.latest)
    BY <1>4 DEF OrderKept, AccountForward
  <2>3. ASSUME g.got # None PROVE Forward(N, g.before, g.got)
    <3>1. Forward(M, h.before, h.got) /\ h.got \in D
      BY <2>3 DEF OrderKept, AccountForward, Past
    <3>2. h.before \in D
      BY <2>3 DEF Past
    <3> QED
      BY <1>3, <3>1, <3>2
  <2> QED
    BY <2>1, <2>2, <2>3 DEF AccountForward
<1>8. SavesForward(N, g, ss, d)
  <2> SUFFICES ASSUME NEW i \in DOMAIN ss
               PROVE  /\ Forward(N, ss[i].view, g.latest)
                      /\ \A j \in DOMAIN ss : j < i => Forward(N, ss[j].view, ss[i].view)
                      /\ \A c \in Changed(ss[i].base, ss[i].view), x \in Past(g) \cup {d} :
                           ForwardAt(N, c, x, ss[i].view)
    BY DEF SavesForward
  <2>1. /\ Forward(M, ss[i].view, h.latest)
        /\ \A j \in DOMAIN ss : j < i => Forward(M, ss[j].view, ss[i].view)
        /\ \A c \in Changed(ss[i].base, ss[i].view), x \in Past(h) \cup {d} :
             ForwardAt(M, c, x, ss[i].view)
    BY DEF OrderKept, SavesForward
  <2>2. Forward(N, ss[i].view, g.latest)
    BY <1>4, <2>1
  <2>3. ASSUME NEW j \in DOMAIN ss, j < i PROVE Forward(N, ss[j].view, ss[i].view)
    BY <1>3, <2>1, <2>3
  <2>4. ASSUME NEW c \in Changed(ss[i].base, ss[i].view), NEW x \in Past(g) \cup {d}
        PROVE  ForwardAt(N, c, x, ss[i].view)
    <3>1. c \in Controls /\ x \in D /\ ss[i].view \in D
      BY <1>5 DEF Changed
    <3>2. ForwardAt(M, c, x, ss[i].view)
      BY <1>5, <2>1
    <3> QED
      BY <1>2, <3>1, <3>2
  <2> QED
    BY <2>2, <2>3, <2>4
<1>9. AnswerForward(N, g, ss, d)
  <2> SUFFICES ASSUME ss # <<>>, ss[1].at = "answered"
               PROVE  /\ \A x \in Past(g) \cup {d} : Forward(N, x, ss[1].saved)
                      /\ Forward(N, ss[1].saved, d) /\ Forward(N, ss[1].saved, g.latest)
                      /\ \A c \in Changed(ss[1].base, ss[1].view) : ss[1].saved[c] = ss[1].view[c]
    BY DEF AnswerForward
  <2>1. /\ \A x \in Past(h) \cup {d} : Forward(M, x, ss[1].saved)
        /\ Forward(M, ss[1].saved, d) /\ Forward(M, ss[1].saved, h.latest)
        /\ \A c \in Changed(ss[1].base, ss[1].view) : ss[1].saved[c] = ss[1].view[c]
    BY DEF OrderKept, AnswerForward
  <2> QED
    BY <1>3, <1>4, <1>5, <2>1
<1>10. ReadOvertaken(N, g, ss, d)
  <2> SUFFICES ASSUME g.before # None
               PROVE  /\ \A c \in Changed(g.baseline, g.latest) : g.latest[c] # g.before[c]
                      /\ \A i \in DOMAIN ss :
                           \A c \in Changed(ss[i].base, ss[i].view) : ss[i].view[c] # g.before[c]
                      /\ g.latest # g.before
    BY DEF ReadOvertaken
  <2>1. h.before \in D
    BY DEF Past
  <2>2. g.latest[c0] = n /\ g.latest[c0] # g.before[c0]
    BY <2>1
  <2>3. ASSUME NEW c \in Changed(g.baseline, g.latest) PROVE g.latest[c] # g.before[c]
    <3>1. c \in Controls /\ (c # c0 => g.latest[c] = h.latest[c] /\ c \in Changed(h.baseline, h.latest))
      BY DEF Changed
    <3> QED
      BY <2>2, <3>1 DEF OrderKept, ReadOvertaken
  <2>4. \A i \in DOMAIN ss :
          \A c \in Changed(ss[i].base, ss[i].view) : ss[i].view[c] # g.before[c]
    BY DEF OrderKept, ReadOvertaken
  <2> QED
    BY <2>2, <2>3, <2>4
<1> QED
  BY <1>6, <1>7, <1>8, <1>9, <1>10 DEF OrderKept

\* The same saves, but for how far the head is.
LEMMA OrderStays ==
    ASSUME NEW M, NEW N, N \subseteq M, NEW h, NEW g, NEW ss, NEW tt, NEW d, NEW e,
           OrderKept(M, h, ss, d),
           g.latest = h.latest, g.baseline = h.baseline, g.generation = h.generation,
           g.before \in {h.before, None}, g.got \in {h.got, None},
           g.got # None => g.before # None,
           Len(ss) \in Nat, DOMAIN ss = 1..Len(ss), ss = <<>> => Len(ss) = 0,
           DOMAIN tt = DOMAIN ss, Len(tt) = Len(ss), tt # <<>> => Len(tt) # 0,
           \A i \in DOMAIN ss : /\ tt[i].view = ss[i].view /\ tt[i].base = ss[i].base
                                /\ tt[i].for = ss[i].for,
           tt # <<>> /\ tt[1].at = "answered" =>
               ss[1].at = "answered" /\ tt[1].saved = ss[1].saved,
           \A c \in Controls : <<c, e[c]>> \in N => e[c] = d[c]
    PROVE  OrderKept(N, g, tt, e)
<1>1. /\ Len(tt) \in Nat /\ DOMAIN tt = 1..Len(tt) /\ Len(ss) = Len(tt) + 0
      /\ \A i \in DOMAIN tt : i + 0 = i
  OBVIOUS
<1>2. \A i \in DOMAIN tt : /\ tt[i].view = ss[i + 0].view /\ tt[i].base = ss[i + 0].base
                           /\ tt[i].for = ss[i + 0].for
  BY <1>1
<1> QED
  BY <1>1, <1>2, OrderSame

\* The oldest save is done with, and was not the hook's newest.
LEMMA OrderTail ==
    ASSUME NEW M, NEW h, NEW g, NEW ss, NEW tt, NEW d,
           OrderKept(M, h, ss, d),
           g.latest = h.latest, g.baseline = h.baseline, g.generation = h.generation,
           g.before = h.before, g.got = h.got, h.got # None => h.before # None,
           Len(ss) \in Nat, DOMAIN ss = 1..Len(ss), ss # <<>>,
           Len(tt) = Len(ss) - 1, Len(tt) \in Nat, DOMAIN tt = 1..Len(tt), tt # <<>> => Len(tt) # 0,
           \A i \in DOMAIN tt : tt[i] = ss[i + 1],
           tt # <<>> => tt[1].at # "answered"
    PROVE  OrderKept(M, g, tt, d)
<1>1. /\ Len(ss) = Len(tt) + 1
      /\ \A i \in DOMAIN tt : /\ tt[i].view = ss[i + 1].view /\ tt[i].base = ss[i + 1].base
                              /\ tt[i].for = ss[i + 1].for
  OBVIOUS
<1> QED
  BY <1>1, OrderSame

\* Of one page: what its requests and its choices say, the order while it is
\* open, and that a step takes its view forward.
Shut(q) == ~Open(q) => saves[q] = <<>> /\ cache[q] = None /\ ChosenBy(q) = {}
InOrder(q) == Open(q) => OrderKept(ChosenBy(q), page[q], saves[q], doc)
Onward(q) ==
    Open(q) /\ Open(q)' => Forward(ChosenBy(q), page[q].latest, page'[q].latest)
PageOrder(q) == RequestOfHead(q) /\ Shut(q) /\ InOrder(q)

LEMMA PageFacts ==
    ASSUME PreferenceInv, NEW q \in Pages
    PROVE  /\ ChosenBy(q) \subseteq Controls \X (0..stamp) /\ stamp \in Nat
           /\ ChosenBy(q) \subseteq Controls \X Nat
           /\ saves[q] \in Seq(SaveRow) /\ Len(saves[q]) \in Nat
           /\ DOMAIN saves[q] = 1..Len(saves[q])
           /\ saves[q] = <<>> => Len(saves[q]) = 0
           /\ saves[q] # <<>> => Len(saves[q]) # 0 /\ 1 \in DOMAIN saves[q] /\ saves[q][1] \in SaveRow
           /\ \A i \in DOMAIN saves[q] : saves[q][i] \in SaveRow
           /\ Open(q) => page[q] \in OpenPage /\ page[q].generation \in Nat
           /\ page \in [Pages -> AnyPage] /\ saves \in [Pages -> Seq(SaveRow)]
           /\ cache \in [Pages -> CacheRow \cup {None}] /\ doc \in Known
           /\ SavesMine(q) /\ SavesInOrder(q) /\ HookIsSound(q)
<1>1. /\ page \in [Pages -> AnyPage] /\ saves \in [Pages -> Seq(SaveRow)] /\ stamp \in Nat
      /\ cache \in [Pages -> CacheRow \cup {None}] /\ doc \in Known
  BY DEF PreferenceInv, TypeOK, AnyPage
<1>2. ChosenBy(q) \subseteq Controls \X (0..stamp)
  BY <1>1 DEF PreferenceInv, TypeOK, ChosenBy
<1>3. saves[q] \in Seq(SaveRow)
  BY <1>1
<1>4. /\ Len(saves[q]) \in Nat /\ DOMAIN saves[q] = 1..Len(saves[q])
      /\ (saves[q] = <<>> <=> Len(saves[q]) = 0)
      /\ \A i \in DOMAIN saves[q] : saves[q][i] \in SaveRow
  BY <1>3, LenProperties, EmptySeq, ElementOfSeq
<1>5. saves[q] # <<>> => 1 \in DOMAIN saves[q]
  BY <1>4
<1>6. Open(q) => page[q] \in OpenPage /\ page[q].generation \in Nat
  BY PageRows DEF PreferenceInv, OpenPage
<1>7. SavesMine(q) /\ SavesInOrder(q) /\ HookIsSound(q)
  BY DEF PreferenceInv, PageInv
<1>8. ChosenBy(q) \subseteq Controls \X Nat
  BY <1>1, <1>2
<1> QED
  BY <1>1, <1>2, <1>3, <1>4, <1>5, <1>6, <1>7, <1>8

\* The hook waits for its newest save, so that its view is unsaved and not
\* what a read under way began with.
LEMMA NewestAwaited ==
    ASSUME PreferenceInv, NEW q \in Pages, Open(q), PageOrder(q), saves[q] # <<>>
    PROVE  /\ Current(q, saves[q][Len(saves[q])]) /\ Len(saves[q]) \in DOMAIN saves[q]
           /\ page[q].latest # page[q].lastSaved
           /\ page[q].before # None => page[q].latest # page[q].before
<1> DEFINE n == Len(saves[q])
<1>1. n \in DOMAIN saves[q] /\ saves[q][n].for = page[q].generation
  BY PageFacts DEF PageOrder, InOrder, OrderKept, SavesOfBaseline
<1>2. saves[q][n].for \in 1..page[q].generation /\ page[q].generation \in Nat
  BY <1>1, PageFacts DEF SavesInOrder, AtWork, Open, Loading
<1>3. Current(q, saves[q][n])
  BY <1>1, <1>2 DEF Current, ForLoad
<1> QED
  BY <1>1, <1>3, PageFacts DEF HookIsSound

LEMMA OrderUntouched ==
    ASSUME PreferenceInv, NEW q \in Pages, PageOrder(q), Untouched(q)
    PROVE  PageOrder(q)' /\ Onward(q)
<1>1. page'[q] = page[q] /\ saves'[q] = saves[q] /\ cache'[q] = cache[q]
  BY DEF Untouched
<1>2. ChosenBy(q)' \subseteq ChosenBy(q)
  BY DEF Untouched, ChosenBy
<1>3. RequestOfHead(q)'
  BY <1>1 DEF Untouched, PageOrder, RequestOfHead
<1>4. Shut(q)'
  BY <1>1, <1>2 DEF PageOrder, Shut, Open
<1>5. InOrder(q)'
  <2> SUFFICES ASSUME Open(q) PROVE OrderKept(ChosenBy(q)', page[q], saves[q], doc')
    BY <1>1 DEF InOrder, Open
  <2> DEFINE M == ChosenBy(q)
             N == ChosenBy(q)'
             h == page[q]
             ss == saves[q]
             d == doc
             e == doc'
  <2>1. OrderKept(M, h, ss, d)
    BY DEF PageOrder, InOrder
  <2>2. \A c \in Controls : <<c, e[c]>> \in N => e[c] = d[c]
    <3>1. ASSUME NEW c \in Controls, <<c, e[c]>> \in N PROVE Mine(q, c, e[c])
      <4>1. PICK a \in chosen : a.browser = q /\ <<a.control, a.setting>> = <<c, e[c]>>
        BY <1>2, <3>1 DEF ChosenBy
      <4>2. a \in [browser : Pages, control : Controls, setting : 1..stamp]
        BY DEF PreferenceInv, TypeOK
      <4> QED
        BY <4>1, <4>2 DEF Mine
    <3> QED
      BY <3>1 DEF Untouched
  <2>3. /\ Len(ss) \in Nat /\ DOMAIN ss = 1..Len(ss) /\ (ss = <<>> => Len(ss) = 0)
        /\ (ss # <<>> => Len(ss) # 0)
    BY PageFacts
  <2>4. h.got # None => h.before # None
    BY PageFacts DEF HookIsSound
  <2>5. N \subseteq M
    BY <1>2
  <2>6. OrderKept(N, h, ss, e)
    <3> HIDE DEF M, N, h, ss, d, e
    <3> QED
      BY <2>1, <2>2, <2>3, <2>4, <2>5, OrderStays
  <2> QED
    BY <2>6
<1>6. Onward(q)
  <2>1. Forward(ChosenBy(q), page[q].latest, page[q].latest)
    BY PageFacts, ForwardSelf
  <2> QED
    BY <1>1, <2>1 DEF Onward
<1> QED
  BY <1>3, <1>4, <1>5, <1>6 DEF PageOrder

\* The account executes the request of the page, or it is lost.
LEMMA OrderRequest ==
    ASSUME PreferenceInv, NEW q \in Pages, PageOrder(q), NEW r \in wire, r.page = q,
           Put(r) \/ PutLost(r, TRUE) \/ PutLost(r, FALSE)
    PROVE  PageOrder(q)' /\ Onward(q)
<1> DEFINE s == saves[q][1]
           e == IF Put(r) THEN [s EXCEPT !.at = "answered", !.saved = doc'] ELSE [s EXCEPT !.at = "failed"]
<1>1. /\ r.awaited /\ saves[q] # <<>> /\ s.at = "sent" /\ r.view = s.view /\ r.base = s.base
      /\ Open(q)
  BY DEF PageOrder, RequestOfHead, Shut
<1>2. /\ page' = page /\ cache' = cache /\ chosen' = chosen /\ wire' = wire \ {r}
      /\ doc' \in {doc, MergePreference(doc, r.base, r.view)}
      /\ Put(r) => doc' = MergePreference(doc, r.base, r.view)
  BY DEF Put, PutLost, bounds
<1>3. saves'[q] = [saves[q] EXCEPT ![1] = e]
  <2>1. saves \in [Pages -> Seq(SaveRow)]
    BY PageFacts
  <2>2. CASE Put(r)
    BY <1>1, <2>1, <2>2 DEF Put
  <2>3. CASE ~Put(r)
    BY <1>1, <2>1, <2>3 DEF PutLost
  <2> QED
    BY <2>2, <2>3
<1>4. s \in SaveRow /\ e \in SaveRow /\ e.view = s.view /\ e.base = s.base /\ e.for = s.for
      /\ (e.at = "answered" => Put(r) /\ e.saved = doc')
  <2>1. s \in SaveRow
    BY <1>1, PageFacts
  <2>2. doc' \in Known
    <3>1. r \in Request /\ doc \in Known
      BY DEF PreferenceInv, TypeOK
    <3> QED
      BY <1>2, <3>1, MergedKnown DEF Request
  <2>3. /\ [s EXCEPT !.at = "answered", !.saved = doc'] \in SaveRow
        /\ [s EXCEPT !.at = "failed"] \in SaveRow
        /\ [s EXCEPT !.at = "failed"].at = "failed"
        /\ [s EXCEPT !.at = "answered", !.saved = doc'].saved = doc'
        /\ [s EXCEPT !.at = "answered", !.saved = doc'].view = s.view
        /\ [s EXCEPT !.at = "answered", !.saved = doc'].base = s.base
        /\ [s EXCEPT !.at = "answered", !.saved = doc'].for = s.for
        /\ [s EXCEPT !.at = "failed"].view = s.view
        /\ [s EXCEPT !.at = "failed"].base = s.base
        /\ [s EXCEPT !.at = "failed"].for = s.for
    BY <2>1, <2>2 DEF SaveRow
  <2>4. e \in {[s EXCEPT !.at = "answered", !.saved = doc'], [s EXCEPT !.at = "failed"]}
    OBVIOUS
  <2>5. e.view = s.view /\ e.base = s.base /\ e.for = s.for
    BY <2>3, <2>4
  <2> QED
    BY <2>1, <2>3, <2>4, <2>5
<1> HIDE DEF e
<1>5. /\ Len(saves'[q]) = Len(saves[q]) /\ DOMAIN saves'[q] = DOMAIN saves[q]
      /\ saves'[q][1] = e /\ \A i \in DOMAIN saves[q] : i # 1 => saves'[q][i] = saves[q][i]
  <2>1. saves[q] \in Seq(SaveRow) /\ 1 \in DOMAIN saves[q]
    BY <1>1, PageFacts
  <2> QED
    BY <1>3, <1>4, <2>1, MarkedSeq
<1>6. RequestOfHead(q)'
  <2>1. ASSUME NEW x \in wire, x.page = q PROVE x = r
    <3>1. x \in Request /\ r \in Request
      BY DEF PreferenceInv, TypeOK
    <3>2. x.awaited /\ x.view = s.view /\ x.base = s.base
      BY <2>1 DEF PageOrder, RequestOfHead
    <3> QED
      BY <1>1, <2>1, <3>1, <3>2 DEF Request
  <2> QED
    BY <1>2, <2>1 DEF RequestOfHead
<1>7. Shut(q)'
  BY <1>1, <1>2 DEF Shut, Open
<1>8. InOrder(q)'
  <2> DEFINE M == ChosenBy(q)
             h == page[q]
             ss == saves[q]
             tt == saves'[q]
             d == doc
             f == doc'
  <2>1. ChosenBy(q)' = M /\ page'[q] = h
    BY <1>2 DEF ChosenBy
  <2>2. OrderKept(M, h, ss, d) /\ M \subseteq Controls \X Nat
    BY <1>1, PageFacts DEF PageOrder, InOrder
  <2>3. /\ Len(ss) \in Nat /\ DOMAIN ss = 1..Len(ss) /\ ss # <<>> /\ Len(ss) # 0
        /\ 1 \in DOMAIN ss /\ Len(ss) \in DOMAIN ss
    BY <1>1, PageFacts
  <2>4. /\ DOMAIN tt = DOMAIN ss /\ Len(tt) = Len(ss)
        /\ \A i \in DOMAIN ss : tt[i].view = ss[i].view /\ tt[i].base = ss[i].base /\ tt[i].for = ss[i].for
    BY <1>4, <1>5
  <2>5. h.got # None => h.before # None
    BY <1>1, PageFacts DEF HookIsSound
  <2>6. h.before # None => h.latest # h.before
    BY <1>1, NewestAwaited
  <2>7. tt[1].at = "answered" => tt[1].saved = f /\ Put(r)
    BY <1>4, <1>5
  <2>8. CASE f = MergePreference(d, ss[1].base, ss[1].view)
    <3>1. \A i \in DOMAIN ss : i >= 1 /\ i \in Nat
      BY <2>3
    <3>2. OrderKept(M, h, tt, f)
      <4> HIDE DEF M, h, ss, tt, d, f
      <4> QED
        BY <2>2, <2>3, <2>4, <2>6, <2>7, <2>8, <3>1, OrderPut
    <3> QED
      BY <2>1, <3>2 DEF InOrder
  <2>9. CASE f = d /\ ~Put(r)
    <3>1. tt[1].at # "answered"
      BY <2>7, <2>9
    <3>2. OrderKept(M, h, tt, f)
      <4> HIDE DEF M, h, ss, tt, d, f
      <4> QED
        BY <2>2, <2>3, <2>4, <2>5, <2>9, <3>1, OrderStays
    <3> QED
      BY <2>1, <3>2 DEF InOrder
  <2> QED
    BY <1>1, <1>2, <2>8, <2>9
<1>9. Onward(q)
  <2>1. Forward(ChosenBy(q), page[q].latest, page[q].latest)
    BY PageFacts, ForwardSelf
  <2> QED
    BY <1>2, <2>1 DEF Onward
<1> QED
  BY <1>6, <1>7, <1>8, <1>9 DEF PageOrder

\* What holds of every step of the page in which only the page and its saves
\* change: who is open stays open or is closed already.
LEMMA OrderHook ==
    ASSUME PreferenceInv, NEW q \in Pages, PageOrder(q), Open(q),
           wire' = wire, doc' = doc, chosen' = chosen, page'[q].is = "open",
           saves[q] # <<>> /\ saves[q][1].at = "sent" =>
               saves'[q] # <<>> /\ saves'[q][1] = saves[q][1],
           OrderKept(ChosenBy(q), page'[q], saves'[q], doc),
           Forward(ChosenBy(q), page[q].latest, page'[q].latest)
    PROVE  PageOrder(q)' /\ Onward(q)
<1>1. ChosenBy(q)' = ChosenBy(q)
  BY DEF ChosenBy
<1>2. RequestOfHead(q)'
  BY DEF PageOrder, RequestOfHead
<1>3. Shut(q)'
  BY DEF Shut, Open
<1>4. InOrder(q)'
  BY <1>1 DEF InOrder
<1>5. Onward(q)
  BY DEF Onward
<1> QED
  BY <1>2, <1>3, <1>4, <1>5 DEF PageOrder

LEMMA OrderSend ==
    ASSUME PreferenceInv, NEW q \in Pages, PageOrder(q), Send(q)
    PROVE  PageOrder(q)' /\ Onward(q)
<1> DEFINE s == saves[q][1]
           e == [s EXCEPT !.at = "sent"]
           M == ChosenBy(q)
           h == page[q]
           ss == saves[q]
           tt == saves'[q]
           d == doc
<1>1. /\ ss # <<>> /\ s.at = "queued" /\ Open(q) /\ s \in SaveRow /\ 1 \in DOMAIN ss
      /\ page' = page /\ doc' = doc /\ chosen' = chosen
      /\ wire' = wire \cup {[page |-> q, view |-> s.view, base |-> s.base, awaited |-> TRUE]}
  BY HeadRow DEF Send, PageOrder, Shut, bounds, PreferenceInv
<1>2. tt = [ss EXCEPT ![1] = e]
  BY PageFacts DEF Send
<1>3. e \in SaveRow /\ e.view = s.view /\ e.base = s.base /\ e.for = s.for /\ e.at = "sent"
  BY <1>1 DEF SaveRow
<1> HIDE DEF e
<1>4. /\ tt \in Seq(SaveRow) /\ Len(tt) = Len(ss) /\ DOMAIN tt = DOMAIN ss
      /\ tt[1] = e /\ \A i \in DOMAIN ss : i # 1 => tt[i] = ss[i]
  BY <1>1, <1>2, <1>3, MarkedSeq, PageFacts
<1>5. RequestOfHead(q)'
  <2>1. \A r \in wire : r.page # q
    BY <1>1 DEF PageOrder, RequestOfHead
  <2>2. tt # <<>>
    BY <1>1, <1>4, PageFacts, EmptySeq
  <2> QED
    BY <1>1, <1>3, <1>4, <2>1, <2>2 DEF RequestOfHead
<1>6. Shut(q)'
  BY <1>1 DEF Shut, Open
<1>7. InOrder(q)'
  <2>1. ChosenBy(q)' = M /\ page'[q] = h /\ doc' = d
    BY <1>1 DEF ChosenBy
  <2>2. OrderKept(M, h, ss, d)
    BY <1>1 DEF PageOrder, InOrder
  <2>3. /\ Len(ss) \in Nat /\ DOMAIN ss = 1..Len(ss) /\ Len(ss) # 0
        /\ \A i \in DOMAIN ss : tt[i].view = ss[i].view /\ tt[i].base = ss[i].base /\ tt[i].for = ss[i].for
        /\ tt[1].at # "answered"
    BY <1>1, <1>3, <1>4, PageFacts
  <2>4. h.got # None => h.before # None
    BY <1>1, PageFacts DEF HookIsSound
  <2>5. OrderKept(M, h, tt, d)
    <3> HIDE DEF M, h, ss, tt, d
    <3> QED
      BY <1>1, <1>4, <2>2, <2>3, <2>4, OrderStays
  <2> QED
    BY <2>1, <2>5 DEF InOrder
<1>8. Onward(q)
  <2>1. Forward(ChosenBy(q), page[q].latest, page[q].latest)
    BY PageFacts, ForwardSelf
  <2> QED
    BY <1>1, <2>1 DEF Onward
<1> QED
  BY <1>5, <1>6, <1>7, <1>8 DEF PageOrder

LEMMA OrderSettled ==
    ASSUME PreferenceInv, NEW q \in Pages, PageOrder(q), Answer(q) \/ Fail(q)
    PROVE  PageOrder(q)' /\ Onward(q)
<1> DEFINE M == ChosenBy(q)
           h == page[q]
           g == page'[q]
           ss == saves[q]
           tt == saves'[q]
           s == saves[q][1]
           d == doc
<1>1. /\ ss # <<>> /\ Open(q) /\ h \in OpenPage /\ Head(ss) = s /\ s \in SaveRow
      /\ s.at \in {"answered", "failed"} /\ wire' = wire /\ doc' = doc /\ chosen' = chosen
  BY HeadRow, PageFacts DEF Answer, Fail, PageOrder, Shut, bounds, PreferenceInv
<1>2. /\ tt = Tail(ss) /\ s.for # ForLoad
  <2>1. tt = Tail(ss)
    BY <1>1, PageFacts DEF Answer, Fail
  <2>2. 1 \in DOMAIN ss /\ SavesInOrder(q) /\ h.generation \in Nat
    BY <1>1, PageFacts
  <2>3. s.for \in 1..h.generation
    BY <1>1, <2>2 DEF SavesInOrder, AtWork, Open, Loading
  <2> QED
    BY <2>1, <2>2, <2>3 DEF ForLoad
<1>3. /\ Len(ss) \in Nat /\ DOMAIN ss = 1..Len(ss) /\ 1 \in DOMAIN ss
      /\ Len(tt) \in Nat /\ DOMAIN tt = 1..Len(tt) /\ Len(tt) = Len(ss) - 1
      /\ \A i \in DOMAIN tt : i + 1 \in DOMAIN ss /\ tt[i] = ss[i + 1]
      /\ (tt # <<>> <=> Len(tt) # 0)
  <2>1. ss \in Seq(SaveRow)
    BY PageFacts
  <2>2. Len(tt) \in Nat /\ Len(tt) = Len(ss) - 1 /\ \A i \in 1..Len(tt) : tt[i] = ss[i + 1]
    BY <1>1, <1>2, <2>1, HeadTailProperties, LenProperties
  <2>3. tt \in Seq(SaveRow)
    BY <1>1, <1>2, <2>1, HeadTailProperties
  <2>4. /\ Len(ss) \in Nat /\ DOMAIN ss = 1..Len(ss) /\ DOMAIN tt = 1..Len(tt)
        /\ (tt # <<>> <=> Len(tt) # 0) /\ 1 \in DOMAIN ss
    BY <1>1, <2>1, <2>3, PageFacts, LenProperties, EmptySeq
  <2>5. \A i \in DOMAIN tt : i + 1 \in DOMAIN ss
    BY <2>2, <2>4
  <2> HIDE DEF ss, tt
  <2> QED
    BY <2>2, <2>4, <2>5
<1>4. ASSUME tt # <<>> PROVE tt[1].at # "answered"
  <2>1. 2 \in DOMAIN ss /\ tt[1] = ss[2]
    BY <1>3, <1>4
  <2>2. ss[2].at = "queued"
    BY <2>1, PageFacts DEF SavesInOrder, AtWork, Open, Loading
  <2> QED
    BY <2>1, <2>2
<1>5. OrderKept(M, h, ss, d) /\ M \subseteq Controls \X Nat
  BY <1>1, PageFacts DEF PageOrder, InOrder
<1>6. h.got # None => h.before # None
  BY <1>1, PageFacts DEF HookIsSound
<1>7. CASE Answer(q) /\ Current(q, s)
  <2>1. /\ g.baseline = s.saved /\ g.latest = MergeEdits(s.saved, s.view, h.latest)
        /\ g.before = h.before /\ g.got = h.got /\ g.is = "open"
    <3>1. g = Settled(q, s, s.saved)
      BY <1>1, <1>7, PageFacts DEF Answer
    <3> QED
      BY <1>1, <1>2, <1>7, <3>1 DEF Settled, OpenPage
  <2>2. tt = <<>>
    <3>1. Current(q, ss[Len(ss)]) /\ Len(ss) \in DOMAIN ss
      BY <1>1, NewestAwaited
    <3>2. Len(ss) = 1
      BY <1>3, <1>7, <3>1, PageFacts DEF SavesInOrder, AtWork, Open, Loading, Current
    <3> QED
      BY <1>3, <3>2
  <2>3. s.view # s.base
    BY <1>3, PageFacts DEF SavesMine
  <2>4. s.view \in [Controls -> Nat] /\ s.base \in [Controls -> Nat]
    <3>1. s.view \in Known /\ s.base \in Known /\ stamp \in Nat
      BY <1>1, PageFacts DEF SaveRow
    <3> QED
      BY <3>1 DEF Known
  <2>5. h.before # None => \A c \in Controls : h.latest[c] # s.view[c] => h.latest[c] # h.before[c]
    BY <1>1, <1>3, <1>7, PageFacts DEF HookIsSound
  <2>6. s.at = "answered"
    BY <1>1, <1>7 DEF Answer
  <2>7. OrderKept(M, g, tt, d) /\ Forward(M, h.latest, g.latest)
    <3> HIDE DEF M, h, g, tt, d
    <3> QED
      BY <1>1, <1>3, <1>5, <2>1, <2>2, <2>3, <2>4, <2>5, <2>6, OrderAnswered
  <2> QED
    BY <1>1, <2>1, <2>7, OrderHook
<1>8. CASE ~(Answer(q) /\ Current(q, s))
  <2>1. /\ g.latest = h.latest /\ g.baseline = h.baseline /\ g.generation = h.generation
        /\ g.before = h.before /\ g.got = h.got /\ g.is = "open"
    <3>1. (g = Settled(q, s, s.saved) /\ ~Current(q, s)) \/ g = Failed(q, s)
      BY <1>1, <1>8, PageFacts DEF Answer, Fail
    <3>2. Settled(q, s, s.saved) = h \/ Current(q, s)
      BY <1>2 DEF Settled
    <3>3. /\ Failed(q, s).latest = h.latest /\ Failed(q, s).baseline = h.baseline
          /\ Failed(q, s).generation = h.generation /\ Failed(q, s).before = h.before
          /\ Failed(q, s).got = h.got /\ Failed(q, s).is = "open"
      <4>1. Failed(q, s) = h \/ Failed(q, s) = [h EXCEPT !.lastQueued = IF @ = s.view THEN None ELSE @]
        BY <1>2 DEF Failed
      <4> QED
        BY <1>1, <4>1 DEF OpenPage
    <3> QED
      BY <1>1, <3>1, <3>2, <3>3 DEF Open
  <2>2. OrderKept(M, g, tt, d)
    <3> HIDE DEF M, h, g, ss, tt, d
    <3> QED
      BY <1>1, <1>3, <1>4, <1>5, <1>6, <2>1, OrderTail
  <2>3. Forward(M, h.latest, g.latest)
    BY <1>5, <2>1, ForwardSelf
  <2> QED
    BY <1>1, <2>1, <2>2, <2>3, OrderHook
<1> QED
  BY <1>7, <1>8

\* A page is loaded; who loads has chosen nothing and saved nothing yet.
LEMMA OrderLoads ==
    ASSUME PreferenceInv, NEW q \in Pages, PageOrder(q), ~Open(q),
           Load(q) \/ Read(q) \/ Loaded(q) \/ ReadFails(q) \/ Unmount(q)
    PROVE  PageOrder(q)' /\ Onward(q)
<1>1. /\ saves[q] = <<>> /\ cache[q] = None /\ ChosenBy(q) = {}
      /\ cache' = cache /\ chosen' = chosen /\ wire' = wire
  BY DEF PageOrder, Shut, Load, Read, Loaded, ReadFails, Unmount, bounds
<1>2. saves' = saves
  BY <1>1 DEF Load, Read, Loaded, ReadFails, Unmount
<1>3. ChosenBy(q)' = {}
  BY <1>1 DEF ChosenBy
<1>4. RequestOfHead(q)'
  BY <1>1, <1>2 DEF PageOrder, RequestOfHead
<1>5. Shut(q)' /\ Onward(q)
  BY <1>1, <1>2, <1>3 DEF Shut, Onward
<1>6. InOrder(q)'
  <2>1. CASE Loaded(q)
    <3> DEFINE v == page[q].got
               g == Hook(v, v, v, v)
    <3>1. page'[q] = g
      BY <2>1, PageFacts DEF Loaded
    <3>2. /\ g.latest = v /\ g.baseline = v /\ g.got = None /\ Past(g) = {v}
          /\ Forward({}, v, doc') /\ Forward({}, doc', v) /\ {} \subseteq Controls \X Nat
      BY DEF Hook, Past, Forward, ForwardAt
    <3>3. OrderKept({}, g, <<>>, doc')
      <4> HIDE DEF g, v
      <4> QED
        BY <3>2, OrderIdle
    <3> QED
      BY <1>1, <1>2, <1>3, <3>1, <3>3 DEF InOrder
  <2>2. CASE Load(q) \/ Read(q) \/ ReadFails(q) \/ Unmount(q)
    <3>1. page'[q].is # "open"
      <4>1. CASE Load(q)
        BY <4>1, PageFacts DEF Load
      <4>2. CASE Read(q)
        <5>1. Loading(q) /\ page[q] \in LoadingPage
          BY <4>2, PageRows DEF Read, PreferenceInv
        <5> QED
          BY <4>2, <5>1, PageFacts DEF Read, LoadingPage
      <4>3. CASE ReadFails(q)
        BY <1>1, <4>3, PageFacts DEF ReadFails, Open
      <4>4. CASE Unmount(q)
        BY <4>4, PageFacts DEF Unmount, Closed
      <4> QED
        BY <2>2, <4>1, <4>2, <4>3, <4>4
    <3> QED
      BY <3>1 DEF InOrder, Open
  <2> QED
    BY <2>1, <2>2 DEF Load, Read, Loaded, ReadFails, Unmount
<1> QED
  BY <1>4, <1>5, <1>6 DEF PageOrder

\* A read of the account under way in an open page.
LEMMA OrderReads ==
    ASSUME PreferenceInv, NEW q \in Pages, PageOrder(q), Open(q),
           Read(q) \/ ReadFails(q) \/ Refreshed(q)
    PROVE  PageOrder(q)' /\ Onward(q)
<1> DEFINE M == ChosenBy(q)
           h == page[q]
           g == page'[q]
           ss == saves[q]
           d == doc
<1>1. /\ h \in OpenPage /\ ~Loading(q) /\ h # Closed
      /\ wire' = wire /\ doc' = doc /\ chosen' = chosen /\ saves' = saves
  BY PageRows DEF Read, ReadFails, Refreshed, bounds, PreferenceInv
<1>2. OrderKept(M, h, ss, d) /\ M \subseteq Controls \X Nat
  BY PageFacts DEF PageOrder, InOrder
<1>3. /\ Len(ss) \in Nat /\ DOMAIN ss = 1..Len(ss) /\ (ss = <<>> => Len(ss) = 0)
      /\ (ss # <<>> => Len(ss) # 0)
  BY PageFacts
<1>4. h.got # None => h.before # None
  BY PageFacts DEF HookIsSound
<1>5. CASE Read(q)
  <2>1. /\ h.before # None /\ g.latest = h.latest /\ g.baseline = h.baseline
        /\ g.generation = h.generation /\ g.before = h.before /\ g.got = d /\ g.is = "open"
    BY <1>1, <1>5, PageFacts DEF Read, OpenPage
  <2>2. OrderKept(M, g, ss, d)
    <3> HIDE DEF M, h, g, ss, d
    <3> QED
      BY <1>2, <2>1, OrderRead
  <2>3. Forward(M, h.latest, g.latest)
    BY <1>2, <2>1, ForwardSelf
  <2> QED
    BY <1>1, <2>1, <2>2, <2>3, OrderHook
<1>6. CASE ReadFails(q) \/ (Refreshed(q) /\ h.latest # h.before)
  <2>1. /\ g.latest = h.latest /\ g.baseline = h.baseline /\ g.generation = h.generation
        /\ g.before = None /\ g.got = None /\ g.is = "open"
    <3>1. CASE ReadFails(q)
      BY <1>1, <3>1, PageFacts DEF ReadFails, OpenPage
    <3>2. CASE Refreshed(q) /\ h.latest # h.before
      BY <1>1, <3>2, PageFacts DEF Refreshed, Applied, OpenPage
    <3> QED
      BY <1>6, <3>1, <3>2
  <2>2. OrderKept(M, g, ss, d)
    <3> HIDE DEF M, h, g, ss, d
    <3> QED
      BY <1>2, <1>3, <2>1, OrderStays
  <2>3. Forward(M, h.latest, g.latest)
    BY <1>2, <2>1, ForwardSelf
  <2> QED
    BY <1>1, <2>1, <2>2, <2>3, OrderHook
<1>7. CASE Refreshed(q) /\ h.latest = h.before
  <2>1. /\ g.latest = h.got /\ g.baseline = h.got /\ g.before = None /\ g.got = None /\ g.is = "open"
        /\ h.got # None /\ h.before # None
    BY <1>1, <1>4, <1>7, PageFacts DEF Refreshed, Applied, OpenPage
  <2>2. ss = <<>>
    BY <1>7, <2>1, NewestAwaited
  <2>3. /\ Forward(M, h.got, d) /\ Forward(M, d, h.got) /\ Forward(M, h.before, h.got)
    <3>1. h.got \in Past(h)
      BY <2>1 DEF Past
    <3>2. Forward(M, h.got, d) /\ Forward(M, h.before, h.got)
      BY <1>2, <2>1, <3>1 DEF OrderKept, AccountForward
    <3>3. Forward(M, d, h.got)
      BY <1>2, <1>7, <2>1 DEF OrderKept, ReadOvertaken
    <3> QED
      BY <3>2, <3>3
  <2>4. \A x \in Past(g) : x = g.latest
    BY <2>1 DEF Past
  <2>5. OrderKept(M, g, ss, d)
    <3> HIDE DEF M, h, g, ss, d
    <3> QED
      BY <1>2, <2>1, <2>2, <2>3, <2>4, OrderIdle
  <2>6. Forward(M, h.latest, g.latest)
    BY <1>7, <2>1, <2>3
  <2> QED
    BY <1>1, <2>1, <2>5, <2>6, OrderHook
<1> QED
  BY <1>5, <1>6, <1>7

\* persist and refresh.
LEMMA OrderPersists ==
    ASSUME PreferenceInv, NEW q \in Pages, PageOrder(q), Persist(q) \/ Refresh(q)
    PROVE  PageOrder(q)' /\ Onward(q)
<1> DEFINE M == ChosenBy(q)
           h == page[q]
           g == page'[q]
           ss == saves[q]
           tt == saves'[q]
           d == doc
<1>1. /\ h \in OpenPage /\ Open(q) /\ h.generation \in Nat /\ h.is = "open"
      /\ wire' = wire /\ doc' = doc /\ chosen' = chosen
  BY PageFacts DEF Persist, Refresh, bounds, Open
<1>2. OrderKept(M, h, ss, d) /\ M \subseteq Controls \X Nat
  BY <1>1, PageFacts DEF PageOrder, InOrder
<1>3. /\ Len(ss) \in Nat /\ DOMAIN ss = 1..Len(ss) /\ (ss = <<>> => Len(ss) = 0)
      /\ (ss # <<>> => Len(ss) # 0 /\ 1 \in DOMAIN ss) /\ ss \in Seq(SaveRow)
  BY PageFacts
<1>4. h.got # None => h.before # None
  BY <1>1, PageFacts DEF HookIsSound
<1>5. CASE Persisted(q) /\ h.latest = h.lastQueued
  <2>1. /\ g.latest = h.latest /\ g.baseline = h.baseline /\ g.generation = h.generation
        /\ g.before = h.before /\ g.got = h.got /\ g.is = "open" /\ tt = ss
    BY <1>1, <1>5, PageFacts DEF Persisted, OpenPage
  <2>2. OrderKept(M, g, ss, d)
    <3> HIDE DEF M, h, g, ss, d
    <3> QED
      BY <1>2, <1>3, <1>4, <2>1, OrderStays
  <2>3. Forward(M, h.latest, g.latest)
    BY <1>2, <2>1, ForwardSelf
  <2> QED
    BY <1>1, <2>1, <2>2, <2>3, OrderHook
<1>6. CASE Persisted(q) /\ h.latest # h.lastQueued
  <2> DEFINE next == [h EXCEPT !.timer = FALSE, !.lastQueued = h.latest, !.generation = @ + 1]
             a == Save(h.latest, h.baseline, next.generation)
  <2>1. g = next /\ tt = Append(ss, a)
    BY <1>6, PageFacts DEF Persisted, Enqueue
  <2>2. /\ g.latest = h.latest /\ g.baseline = h.baseline /\ g.generation = h.generation + 1
        /\ g.before = h.before /\ g.got = h.got /\ g.is = "open" /\ g = next
    BY <1>1, <2>1, NextRow
  <2>3. a.view = h.latest /\ a.base = h.baseline /\ a.for = g.generation /\ a.at = "queued"
    BY <2>2 DEF Save
  <2>4. a \in SaveRow
    <3>1. next.generation \in Nat
      BY <1>1, <2>2
    <3> HIDE DEF next
    <3> QED
      BY <1>1, <3>1 DEF Save, SaveRow, OpenPage
  <2> HIDE DEF a, next
  <2>5. OrderKept(M, g, tt, d)
    <3> HIDE DEF M, h, g, ss, tt, d
    <3> QED
      BY <1>2, <1>3, <2>1, <2>2, <2>3, <2>4, OrderPersisted
  <2>6. ss # <<>> => tt # <<>> /\ tt[1] = ss[1]
    <3>1. tt \in Seq(SaveRow) /\ Len(tt) = Len(ss) + 1 /\ \A i \in 1..Len(ss) : tt[i] = ss[i]
      BY <1>3, <2>1, <2>4, AppendProperties
    <3> QED
      BY <1>3, <3>1, EmptySeq
  <2>7. Forward(M, h.latest, g.latest)
    BY <1>2, <2>2, ForwardSelf
  <2> QED
    BY <1>1, <2>2, <2>5, <2>6, <2>7, OrderHook
<1>7. CASE ~Persisted(q)
  <2>1. /\ Refresh(q) /\ h.latest = h.lastSaved /\ h.before = None /\ ss = <<>> /\ tt = ss
        /\ g = [h EXCEPT !.before = h.latest]
    BY <1>7, PageFacts DEF Persist, Refresh
  <2>2. /\ g.latest = h.latest /\ g.baseline = h.baseline /\ g.before = h.latest
        /\ g.got = h.got /\ g.is = "open"
    BY <1>1, <2>1 DEF OpenPage
  <2>3. h.baseline = h.latest /\ h.got = None
    BY <1>1, <2>1, PageFacts DEF HookIsSound
  <2>4. \A x \in Past(g) : x = g.latest
    BY <2>2, <2>3 DEF Past
  <2>5. Forward(M, g.latest, d) /\ Forward(M, d, g.latest)
    BY <1>2, <2>2, <2>3 DEF OrderKept, AccountForward, Past
  <2>6. OrderKept(M, g, ss, d)
    <3> HIDE DEF M, h, g, ss, d
    <3> QED
      BY <1>2, <2>1, <2>2, <2>3, <2>4, <2>5, OrderIdle
  <2>7. Forward(M, h.latest, g.latest)
    BY <1>2, <2>2, ForwardSelf
  <2> QED
    BY <1>1, <2>1, <2>2, <2>6, <2>7, OrderHook
<1> QED
  BY <1>5, <1>6, <1>7

\* The user sets a control of the page.
LEMMA OrderChooses ==
    ASSUME PreferenceInv, NEW q \in Pages, PageOrder(q), NEW c0 \in Controls, Choose(q, c0)
    PROVE  PageOrder(q)' /\ Onward(q)
<1> DEFINE M == ChosenBy(q)
           h == page[q]
           g == page'[q]
           ss == saves[q]
           d == doc
           n == stamp + 1
           D == [Controls -> 0..(n - 1)]
<1>1. /\ h \in OpenPage /\ Open(q) /\ h.is = "open" /\ stamp \in Nat /\ n \in Nat /\ D = Known
      /\ wire' = wire /\ doc' = doc /\ saves' = saves
      /\ chosen' = chosen \cup {[browser |-> q, control |-> c0, setting |-> n]}
  BY PageFacts DEF Choose, Open, Known
<1>2. OrderKept(M, h, ss, d) /\ M \subseteq Controls \X (0..(n - 1)) /\ M \subseteq Controls \X Nat
  BY <1>1, PageFacts DEF PageOrder, InOrder
<1>3. /\ g.latest = [h.latest EXCEPT ![c0] = n] /\ g.baseline = h.baseline
      /\ g.generation = h.generation /\ g.before = h.before /\ g.got = h.got /\ g.is = "open"
  BY <1>1, PageFacts DEF Choose, OpenPage
<1>4. ChosenBy(q)' = M \cup {<<c0, n>>}
  <2>1. PICK e : e = [browser |-> q, control |-> c0, setting |-> n]
    OBVIOUS
  <2>2. {b \in chosen' : b.browser = q} = {b \in chosen : b.browser = q} \cup {e}
    BY <1>1, <2>1
  <2> QED
    BY <2>1, <2>2 DEF ChosenBy
<1>5. /\ d \in D /\ h.latest \in D /\ (\A x \in Past(h) : x \in D)
      /\ \A i \in DOMAIN ss : ss[i].view \in D
  <2>1. /\ d \in Known /\ h.latest \in Known /\ h.baseline \in Known
        /\ h.before \in Known \cup {None} /\ h.got \in Known \cup {None}
    BY <1>1, PageFacts DEF OpenPage
  <2>2. \A x \in Past(h) : x \in Known
    BY <2>1 DEF Past
  <2>3. \A i \in DOMAIN ss : ss[i].view \in Known
    BY PageFacts DEF SaveRow
  <2> QED
    BY <1>1, <2>1, <2>2, <2>3
<1>6. /\ ss # <<>> /\ ss[1].at = "answered" => ss[1].saved \in D
      /\ ss # <<>> => 1 \in DOMAIN ss
  BY <1>1, PageFacts DEF SavesInOrder, AtWork, Open, Loading
<1>7. h.got # None => h.before # None
  BY <1>1, PageFacts DEF HookIsSound
<1>8. OrderKept(M \cup {<<c0, n>>}, g, ss, d)
  <2> HIDE DEF M, h, g, ss, d, n
  <2> QED
    BY <1>1, <1>2, <1>3, <1>5, <1>6, <1>7, OrderChosen
<1>9. RequestOfHead(q)' /\ Shut(q)'
  BY <1>1, <1>3 DEF PageOrder, RequestOfHead, Shut, Open
<1>10. InOrder(q)'
  BY <1>1, <1>4, <1>8 DEF InOrder
<1>11. Onward(q)
  <2>1. Forward(M, h.latest, g.latest)
    <3> SUFFICES ASSUME NEW c \in Controls, <<c, h.latest[c]>> \in M PROVE h.latest[c] <= g.latest[c]
      BY DEF Forward, ForwardAt
    <3>1. h.latest[c] \in 0..stamp
      BY <1>1, <1>5 DEF Known
    <3> QED
      BY <1>1, <1>3, <1>5, <3>1
  <2> QED
    BY <2>1 DEF Onward
<1> QED
  BY <1>9, <1>10, <1>11 DEF PageOrder

\* Every step, as the page sees it.
LEMMA PageOrderStep ==
    ASSUME PreferenceInv, OrderInv, Step, hides = 0, hides' = 0, NEW q \in Pages
    PROVE  PageOrder(q)' /\ Onward(q)
<1>1. PageOrder(q)
  BY DEF OrderInv, ChoicesKnown, PageOrder, Shut, InOrder
<1>2. CASE Untouched(q)
  BY <1>1, <1>2, OrderUntouched
<1>3. CASE \E r \in wire : r.page = q /\ (Put(r) \/ PutLost(r, TRUE) \/ PutLost(r, FALSE))
  BY <1>1, <1>3, OrderRequest
<1>4. CASE PageStep(q) \/ ReadFails(q) \/ Unmount(q) \/ \E c \in Controls : Choose(q, c)
  <2>1. CASE Send(q)
    BY <1>1, <2>1, OrderSend
  <2>2. CASE Answer(q) \/ Fail(q)
    BY <1>1, <2>2, OrderSettled
  <2>3. CASE ~Open(q) /\ (Load(q) \/ Read(q) \/ Loaded(q) \/ ReadFails(q) \/ Unmount(q))
    BY <1>1, <2>3, OrderLoads
  <2>4. CASE Open(q) /\ (Read(q) \/ ReadFails(q) \/ Refreshed(q))
    BY <1>1, <2>4, OrderReads
  <2>5. CASE Persist(q) \/ Refresh(q)
    BY <1>1, <2>5, OrderPersists
  <2>6. CASE \E c \in Controls : Choose(q, c)
    BY <1>1, <2>6, OrderChooses
  <2>7. /\ ~(Load(q) /\ Open(q)) /\ ~(Loaded(q) /\ Open(q)) /\ ~(Refreshed(q) /\ ~Open(q))
        /\ ~(Unmount(q) /\ Open(q))
    BY DEF Load, Loaded, Refreshed, Unmount, Loading, Open, Closed, Cleared
  <2> QED
    BY <1>4, <2>1, <2>2, <2>3, <2>4, <2>5, <2>6, <2>7 DEF PageStep
<1> QED
  BY <1>2, <1>3, <1>4, StepsSeen DEF PreferenceInv

\* A new stamp is nobody's yet.
LEMMA StampsOnce ==
    ASSUME PreferenceInv, OrderInv, Step
    PROVE  \A a, b \in chosen' : a.setting = b.setting => a = b
<1>0. \A a, b \in chosen : a.setting = b.setting => a = b
  BY DEF OrderInv, ChoicesKnown
<1>1. ASSUME NEW p \in Pages, NEW c \in Controls, Choose(p, c)
      PROVE  \A a, b \in chosen' : a.setting = b.setting => a = b
  <2>1. \A a \in chosen : a.setting \in 1..stamp /\ stamp \in Nat
    BY DEF PreferenceInv, TypeOK
  <2>2. PICK e : e = [browser |-> p, control |-> c, setting |-> stamp + 1]
    OBVIOUS
  <2>3. chosen' = chosen \cup {e} /\ e.setting = stamp + 1
    BY <1>1, <2>2 DEF Choose
  <2>4. \A a \in chosen : a.setting # e.setting
    BY <2>1, <2>3
  <2> QED
    BY <1>0, <2>3, <2>4
<1>2. ASSUME ~\E p \in Pages, c \in Controls : Choose(p, c) PROVE chosen' = chosen
  <2>1. ASSUME NEW p \in Pages, PageStep(p) PROVE chosen' = chosen
    BY <2>1 DEF PageStep, Send, Answer, Fail, Load, Read, Loaded, Persist, Refresh, Refreshed
  <2>2. ASSUME NEW p \in Pages, ReadFails(p) \/ Clear(p) \/ Unmount(p) \/ \E cached \in BOOLEAN : Hide(p, cached)
        PROVE  chosen' = chosen
    BY <2>2 DEF ReadFails, Clear, Unmount, Hide
  <2>3. ASSUME NEW r \in wire, Put(r) \/ \E executed \in BOOLEAN : PutLost(r, executed)
        PROVE  chosen' = chosen
    BY <2>3 DEF Put, PutLost
  <2> QED
    BY <1>2, <2>1, <2>2, <2>3 DEF Step
<1> QED
  BY <1>0, <1>1, <1>2

LEMMA OrderInit == ASSUME Init PROVE OrderInv
<1>1. \A p \in Pages : ~Open(p) /\ saves[p] = <<>> /\ cache[p] = None /\ ChosenBy(p) = {}
  BY DEF Init, Open, Closed, ChosenBy
<1>2. wire = {} /\ hides = 0 /\ chosen = {}
  BY DEF Init
<1> QED
  BY <1>1, <1>2 DEF OrderInv, ChoicesKnown, RequestOfHead

LEMMA OrderStep ==
    ASSUME PreferenceInv, OrderInv, [Step]_vars PROVE OrderInv'
<1>1. CASE Step
  <2>1. hides' \in Nat
    <3>1. hides \in Nat
      BY DEF OrderInv
    <3>2. hides' = hides \/ hides' = hides + 1
      BY <1>1
      DEF Step, PageStep, Send, Answer, Fail, Load, Read, Loaded, Persist, Refresh, Refreshed,
          ReadFails, Choose, Hide, Clear, Unmount, Put, PutLost, bounds
    <3> QED
      BY <3>1, <3>2
  <2>2. ASSUME hides' = 0, NEW p \in Pages PROVE PageOrder(p)'
    <3>1. hides = 0
      BY <1>1, <2>2, NobodyLeaves
    <3> QED
      BY <1>1, <2>2, <3>1, PageOrderStep
  <2>3. ChoicesKnown'
    <3>1. ASSUME hides' = 0, NEW p \in Pages, ~Open(p)'
          PROVE  saves'[p] = <<>> /\ cache'[p] = None /\ ChosenBy(p)' = {}
      BY <2>2, <3>1 DEF PageOrder, Shut
    <3> QED
      BY <1>1, <3>1, StampsOnce DEF ChoicesKnown
  <2>4. ASSUME hides' = 0, NEW p \in Pages
        PROVE  /\ RequestOfHead(p)'
               /\ Open(p)' => OrderKept(ChosenBy(p)', page'[p], saves'[p], doc')
    BY <2>2, <2>4 DEF PageOrder, InOrder
  <2> QED
    BY <2>1, <2>3, <2>4 DEF OrderInv
<1>2. CASE UNCHANGED vars
  <2>1. /\ hides' = hides /\ wire' = wire /\ page' = page /\ saves' = saves /\ cache' = cache
        /\ chosen' = chosen /\ doc' = doc
    BY <1>2 DEF vars
  <2>2. ChoicesKnown'
    BY <2>1 DEF OrderInv, ChoicesKnown, Open, ChosenBy
  <2>3. ASSUME hides = 0, NEW p \in Pages
        PROVE  /\ RequestOfHead(p)'
               /\ Open(p)' => OrderKept(ChosenBy(p)', page'[p], saves'[p], doc')
    <3>1. ChosenBy(p)' = ChosenBy(p)
      BY <2>1 DEF ChosenBy
    <3>2. RequestOfHead(p)'
      BY <2>1, <2>3 DEF OrderInv, RequestOfHead
    <3>3. Open(p) => OrderKept(ChosenBy(p), page[p], saves[p], doc)
      BY <2>3 DEF OrderInv
    <3>4. ASSUME Open(p)' PROVE OrderKept(ChosenBy(p)', page'[p], saves'[p], doc')
      BY <2>1, <3>1, <3>3, <3>4 DEF Open
    <3> QED
      BY <3>2, <3>4
  <2> QED
    BY <2>1, <2>2, <2>3 DEF OrderInv
<1> QED
  BY <1>1, <1>2

\* No step takes a control back to an older choice of its own page.
LEMMA ForwardStep ==
    ASSUME PreferenceInv, OrderInv, Step, NEW p \in Pages, NEW c \in Controls,
           hides = 0, Open(p), page'[p].is = "open",
           Mine(p, c, page[p].latest[c]), Mine(p, c, page'[p].latest[c])
    PROVE  page'[p].latest[c] >= page[p].latest[c]
<1>1. CASE hides' = 0
  <2>1. Forward(ChosenBy(p), page[p].latest, page'[p].latest)
    BY <1>1, PageOrderStep DEF Onward, Open
  <2>2. \A v : Mine(p, c, v) => <<c, v>> \in ChosenBy(p) /\ v \in Nat
    <3>1. ASSUME NEW v, Mine(p, c, v) PROVE <<c, v>> \in ChosenBy(p)
      <4>1. PICK a : a = [browser |-> p, control |-> c, setting |-> v]
        OBVIOUS
      <4>2. a \in chosen /\ a.browser = p /\ a.control = c /\ a.setting = v
        BY <3>1, <4>1 DEF Mine
      <4> QED
        BY <4>2 DEF ChosenBy
    <3> QED
      BY <3>1, PageFacts
  <2>3. page[p].latest[c] <= page'[p].latest[c]
    BY <2>1, <2>2 DEF Forward, ForwardAt
  <2> QED
    BY <2>2, <2>3
<1>2. CASE hides' # 0
  <2>1. PICK q \in Pages : Clear(q) \/ \E cached \in BOOLEAN : Hide(q, cached)
    BY <1>2
    DEF Step, PageStep, Send, Answer, Fail, Load, Read, Loaded, Persist, Refresh, Refreshed,
        ReadFails, Unmount, Choose, Put, PutLost, bounds
  <2>2. page' = [page EXCEPT ![q] = Closed] \/ page' = [page EXCEPT ![q] = Cleared]
    BY <2>1 DEF Clear, Hide
  <2>3. page'[p] = page[p]
    BY <2>2, PageFacts DEF Closed, Cleared
  <2>4. page[p].latest[c] \in Nat
    BY PageFacts DEF OpenPage, Known
  <2> QED
    BY <2>3, <2>4
<1> QED
  BY <1>1, <1>2

\* On a page nobody has left, a control never falls back to an older choice
\* of its user, whatever is answered in whatever order, and what a page
\* sends, caches and shows beyond its baseline is its own: for any number of
\* pages, controls, choices and faults (useMonitorPreferences.ts,
\* localRuntime.ts, monitorPreferenceMerge.ts, cluster_service.py), as long
\* as no control was set back to a setting it had before.
THEOREM SettingsKeptTheorem ==
    ASSUME MaxChoices \in Nat PROVE AnySpec => SettingsKept
<1> DEFINE Kept == ~setBack => PreferenceInv /\ OrderInv
<1>1. AnyInit => Kept
  BY PreferenceInit, OrderInit DEF AnyInit
<1>2. [AnyNext]_all => [Next]_vars
  BY DEF AnyNext, all
<1>3. Kept /\ [AnyNext]_all => Kept'
  <2> SUFFICES ASSUME Kept, [Next]_vars, ~setBack' PROVE (PreferenceInv /\ OrderInv)'
    BY <1>2
  <2>1. ~setBack /\ [Step]_vars
    BY NotSetBack
  <2>2. PreferenceInv /\ OrderInv
    BY <2>1
  <2> QED
    BY <2>1, <2>2, PreferenceStep, OrderStep
<1>4. Kept /\ [AnyNext]_all =>
        [\A p \in Pages, c \in Controls :
           (/\ hides = 0 /\ ~setBack' /\ Open(p) /\ page'[p].is = "open"
            /\ Mine(p, c, page[p].latest[c]) /\ Mine(p, c, page'[p].latest[c]))
           => page'[p].latest[c] >= page[p].latest[c]]_vars
  <2> SUFFICES ASSUME Kept, [Next]_vars, ~setBack', ~(UNCHANGED vars),
                      NEW p \in Pages, NEW c \in Controls,
                      hides = 0, Open(p), page'[p].is = "open",
                      Mine(p, c, page[p].latest[c]), Mine(p, c, page'[p].latest[c])
               PROVE  page'[p].latest[c] >= page[p].latest[c]
    BY <1>2
  <2>1. ~setBack /\ Step
    BY NotSetBack
  <2>2. PreferenceInv /\ OrderInv
    BY <2>1
  <2> QED
    BY <2>1, <2>2, ForwardStep
<1> HIDE DEF Kept
<1>5. AnySpec => []Kept
  BY <1>1, <1>3, PTL DEF AnySpec
<1>6. Kept => ((part = "monitor") /\ ~setBack => PreferenceInv /\ OrderInv)
  BY DEF Kept
<1> QED
  BY <1>4, <1>5, <1>6, PTL DEF AnySpec, SettingsKept, NeverFallsBack

\* The pages of the composition, too, share their document as PreferenceStore
\* says.
THEOREM PreferencesStoreTheorem ==
    ASSUME MaxChoices \in Nat PROVE AnySpec => PreferencesStore
<1>1. AnyInit => Init
  BY DEF AnyInit
<1>2. [AnyNext]_all => [Next]_vars
  BY DEF AnyNext, all
<1> QED
  BY <1>1, <1>2, StoreRefined, PTL DEF AnySpec, Spec

-----------------------------------------------------------------------------
(* A browser and its owner.                                                *)

\* Nobody is not an account, and the browser's time is a tick of MaxTime.
LEMMA BrowserConstants ==
    ASSUME Browser!WorldOK
    PROVE  /\ Nobody \notin Account /\ "unavailable" \notin Account
           /\ \A e \in Enrollment : e \in Nat /\ e # 0
           /\ MaxTime \in Nat \ {0} /\ Life \in Nat \ {0} /\ Browser!now \in 0..MaxTime
<1>1. b_real \in 1..MaxTime /\ b_skew \in {0, 1} /\ MaxTime \in Nat \ {0}
  BY BrowserAssumption DEF Browser!WorldOK
<1>2. Browser!now \in 0..MaxTime
  BY <1>1 DEF Browser!now
<1> QED
  BY <1>2, BrowserAssumption

\* What a step leaves alone keeps its shape.
LEMMA BrowserFrames ==
    ASSUME Browser!TypeOK
    PROVE  /\ UNCHANGED Browser!world => Browser!WorldOK'
           /\ UNCHANGED Browser!store => Browser!StoreOK'
           /\ UNCHANGED Browser!gate => Browser!GateOK'
           /\ UNCHANGED Browser!tasks => Browser!TasksOK'
           /\ UNCHANGED <<b_pairing, b_sync>> => Browser!WorkOK'
  BY DEF Browser!TypeOK, Browser!WorldOK, Browser!StoreOK, Browser!GateOK, Browser!TasksOK,
     Browser!WorkOK, Browser!world, Browser!store, Browser!gate, Browser!tasks,
         Browser!Identity, Browser!NoIdentity, Browser!Stages, Browser!Session, Browser!Shown,
         Browser!SignedIn, Browser!Person

\* An operation that has been outlived is still one; a deletion keeps shapes.
LEMMA OutlivedWork ==
    ASSUME Browser!TypeOK
    PROVE  /\ Browser!NoTask \in [at : Browser!Stages, copy : Browser!Identity, stale : BOOLEAN]
           /\ \A t \in [at : Browser!Stages, copy : Browser!Identity, stale : BOOLEAN] :
                /\ Browser!Outlived(t) \in [at : Browser!Stages, copy : Browser!Identity, stale : BOOLEAN]
                /\ Browser!Outlived(t).at = t.at /\ Browser!Outlived(t).copy = t.copy
                /\ Browser!Outlived(t).stale = (t.at # "idle")
           /\ Browser!Wiped => Browser!StoreOK'
<1>1. Browser!NoIdentity \in Browser!Identity
  BY DEF Browser!Identity
<1>2. Browser!NoTask \in [at : Browser!Stages, copy : Browser!Identity, stale : BOOLEAN]
  BY <1>1 DEF Browser!NoTask, Browser!Stages
<1>3. ASSUME NEW t \in [at : Browser!Stages, copy : Browser!Identity, stale : BOOLEAN]
      PROVE  /\ Browser!Outlived(t) \in [at : Browser!Stages, copy : Browser!Identity, stale : BOOLEAN]
             /\ Browser!Outlived(t).at = t.at /\ Browser!Outlived(t).copy = t.copy
             /\ Browser!Outlived(t).stale = (t.at # "idle")
  BY DEF Browser!Outlived
<1>4. ASSUME Browser!Wiped PROVE Browser!StoreOK'
  <2>1. MaxTime + Life \in Nat
    BY BrowserConstants DEF Browser!TypeOK
  <2> QED
    BY <1>1, <1>4, <2>1 DEF Browser!Wiped, Browser!StoreOK, Browser!TypeOK, Browser!Identity,
       Browser!NoIdentity
<1> QED
  BY <1>2, <1>3, <1>4

\* The gate after a decision.
LEMMA GateShown ==
    ASSUME Browser!TypeOK
    PROVE  /\ \A k \in {"checking", "out", "unavailable"} :
                b_session' = Browser!Shown(k) /\ b_left' = 0 /\ b_active' \in Browser!Person => Browser!GateOK'
           /\ \A u \in Account : Browser!Admit(u) => Browser!GateOK'
<1> USE DEF Browser!GateOK, Browser!Session, Browser!Person, Browser!Shown, Browser!SignedIn
<1>1. ASSUME NEW k \in {"checking", "out", "unavailable"},
             b_session' = Browser!Shown(k), b_left' = 0, b_active' \in Browser!Person
      PROVE  Browser!GateOK'
  BY <1>1
<1>2. ASSUME NEW u \in Account, Browser!Admit(u) PROVE Browser!GateOK'
  BY <1>2 DEF Browser!Admit
<1> QED
  BY <1>1, <1>2

\* Saving an identity keeps the store's shape.
LEMMA SavedStore ==
    ASSUME Browser!TypeOK, NEW t \in {b_pairing, b_sync}, Browser!SaveBrowserIdentity(t)
    PROVE  Browser!StoreOK'
<1>1. t.copy \in Browser!Identity
  BY DEF Browser!TypeOK, Browser!WorkOK
<1>2. CASE t.copy.expires \in (Browser!now + 1)..(Browser!now + Life)
  <2>1. b_identity' = t.copy /\ b_clock' = Browser!now /\ b_snapshot' = b_snapshot /\ Browser!now \in 0..MaxTime
    BY <1>2, BrowserConstants DEF Browser!SaveBrowserIdentity, Browser!TypeOK
  <2> QED
    BY <1>1, <2>1 DEF Browser!TypeOK, Browser!StoreOK, Browser!Identity, Browser!NoIdentity
<1>3. CASE t.copy.expires \notin (Browser!now + 1)..(Browser!now + Life)
  BY <1>3, BrowserFrames DEF Browser!SaveBrowserIdentity
<1> QED
  BY <1>2, <1>3

\* The clock that is remembered.
LEMMA RememberedStore ==
    ASSUME Browser!TypeOK
    PROVE  /\ b_clock' = Browser!Remembered /\ UNCHANGED <<b_identity, b_snapshot>> => Browser!StoreOK'
           /\ b_snapshot' = Browser!now + Life /\ b_clock' = Browser!now /\ UNCHANGED b_identity => Browser!StoreOK'
<1>1. Browser!now \in 0..MaxTime /\ b_clock \in 0..MaxTime /\ MaxTime \in Nat /\ Life \in Nat
  BY BrowserConstants DEF Browser!TypeOK, Browser!StoreOK
<1>2. Browser!Remembered \in 0..MaxTime /\ Browser!now + Life \in 0..(MaxTime + Life)
  BY <1>1 DEF Browser!Remembered
<1>3. b_identity' = b_identity => b_identity' \in Browser!Identity'
  BY DEF Browser!TypeOK, Browser!StoreOK, Browser!Identity, Browser!NoIdentity
<1>4. b_snapshot \in 0..(MaxTime + Life)
  BY DEF Browser!TypeOK, Browser!StoreOK
<1>5. ASSUME b_clock' = Browser!Remembered, UNCHANGED <<b_identity, b_snapshot>> PROVE Browser!StoreOK'
  BY <1>2, <1>3, <1>4, <1>5 DEF Browser!StoreOK
<1>6. ASSUME b_snapshot' = Browser!now + Life, b_clock' = Browser!now, UNCHANGED b_identity PROVE Browser!StoreOK'
  BY <1>1, <1>2, <1>3, <1>6 DEF Browser!StoreOK
<1> QED
  BY <1>5, <1>6

\* Every step keeps the shapes: what a step disturbs, one part at a time.
LEMMA BrowserTypeStep ==
    ASSUME Browser!TypeOK, Browser!TasksCarry, Browser!Next
    PROVE  Browser!TypeOK'
<1> USE BrowserConstants, BrowserFrames, OutlivedWork
<1>t. Browser!WorldOK /\ Browser!StoreOK /\ Browser!GateOK /\ Browser!TasksOK /\ Browser!WorkOK
  BY DEF Browser!TypeOK
<1>k. b_pairing' = b_pairing /\ (b_sync' = Browser!NoTask \/ b_sync' = b_sync) => Browser!WorkOK'
  BY <1>t DEF Browser!WorkOK, Browser!Stages, Browser!Identity
<1>b. Browser!ClearingBegins /\ b_pairing' = b_pairing => Browser!WorkOK'
  BY <1>k, <1>t DEF Browser!ClearingBegins, Browser!WorkOK
<1>w. Browser!ClearPrivateRuntimeState => Browser!StoreOK' /\ Browser!WorkOK'
  <2>1. ASSUME Browser!ClearPrivateRuntimeState PROVE Browser!StoreOK'
    BY <2>1 DEF Browser!ClearPrivateRuntimeState
  <2>2. ASSUME Browser!ClearPrivateRuntimeState PROVE Browser!WorkOK'
    <3>1. {Browser!Outlived(b_pairing), Browser!Outlived(b_sync)} \subseteq [at : Browser!Stages, copy : Browser!Identity, stale : BOOLEAN]
      BY <1>t DEF Browser!WorkOK
    <3> QED
      BY <2>2, <3>1 DEF Browser!ClearPrivateRuntimeState, Browser!WorkOK, Browser!Stages,
         Browser!Identity
  <2> QED
    BY <2>1, <2>2
<1>1. CASE Browser!CheckAnswered
  <2>1. Browser!WorldOK' /\ Browser!StoreOK'
    BY <1>1 DEF Browser!CheckAnswered
  <2>2. Browser!GateOK'
    <3>1. CASE b_cookie = Nobody \/ Browser!Foreign(b_cookie)
      BY <1>1, <3>1 DEF Browser!CheckAnswered
    <3>2. CASE ~(b_cookie = Nobody \/ Browser!Foreign(b_cookie))
      <4>1. b_cookie \in Account /\ Browser!Admit(b_cookie)
        BY <1>1, <1>t, <3>2 DEF Browser!CheckAnswered, Browser!WorldOK, Browser!Person
      <4> QED
        BY <4>1, GateShown
    <3> QED
      BY <3>1, <3>2
  <2>3. Browser!TasksOK'
    BY <1>1, <1>t DEF Browser!CheckAnswered, Browser!TasksOK, Browser!Idle, Browser!WorldOK,
       Browser!Person
  <2>4. Browser!WorkOK'
    BY <1>1, <1>b, <1>k DEF Browser!CheckAnswered
  <2> QED
    BY <2>1, <2>2, <2>3, <2>4 DEF Browser!TypeOK
<1>2. CASE Browser!CheckFails \/ Browser!Recheck
  <2>1. Browser!WorldOK' /\ Browser!StoreOK' /\ Browser!GateOK' /\ Browser!WorkOK'
    BY <1>2 DEF Browser!CheckFails, Browser!Recheck
  <2>2. Browser!TasksOK'
    BY <1>2, <1>t DEF Browser!CheckFails, Browser!Recheck, Browser!TasksOK, Browser!NextCheck,
       Browser!Person
  <2> QED
    BY <2>1, <2>2 DEF Browser!TypeOK
<1>3. CASE Browser!LoadOfflineStudio
  <2>1. Browser!WorldOK' /\ Browser!StoreOK'
    BY <1>3, RememberedStore DEF Browser!LoadOfflineStudio
  <2>2. Browser!TasksOK'
    BY <1>3, <1>t DEF Browser!LoadOfflineStudio, Browser!TasksOK, Browser!Idle, Browser!Person
  <2>3. Browser!WorkOK'
    BY <1>3, <1>b, <1>k DEF Browser!LoadOfflineStudio
  <2>4. Browser!GateOK'
    <3>1. CASE Browser!TurnedBack \/ Browser!Expired(b_identity) \/ (Browser!ApprovedIdentity(b_identity) /\ b_snapshot > 0 /\ b_snapshot <= Browser!now)
      BY <1>3, <3>1 DEF Browser!LoadOfflineStudio
    <3>2. CASE ~(Browser!TurnedBack \/ Browser!Expired(b_identity) \/ (Browser!ApprovedIdentity(b_identity) /\ b_snapshot > 0 /\ b_snapshot <= Browser!now))
      <4>1. CASE Browser!ApprovedIdentity(b_identity) /\ b_snapshot > 0
        <5>1. /\ b_identity.expires > Browser!now /\ b_snapshot > Browser!now /\ Browser!now \in Nat /\ b_snapshot \in Nat
              /\ b_identity.expires \in Nat
          BY <1>t, <3>2, <4>1 DEF Browser!ApprovedIdentity, Browser!StoreOK, Browser!Identity,
             Browser!NoIdentity
        <5>2. (IF b_snapshot < b_identity.expires THEN b_snapshot ELSE b_identity.expires) - Browser!now \in Nat
          BY <5>1
        <5>3. b_session' = Browser!Shown("offline") /\ b_left' \in Nat /\ b_active' = b_active
          BY <1>3, <1>t, <3>2, <4>1, <5>2
          DEF Browser!LoadOfflineStudio, Browser!SetOffline, Browser!GateOK
        <5> QED
          BY <1>t, <5>3 DEF Browser!GateOK, Browser!Session, Browser!Shown, Browser!Person
      <4>2. CASE ~(Browser!ApprovedIdentity(b_identity) /\ b_snapshot > 0)
        BY <1>3, <1>t, <3>2, <4>2, GateShown DEF Browser!LoadOfflineStudio, Browser!GateOK
      <4> QED
        BY <4>1, <4>2
    <3> QED
      BY <3>1, <3>2
  <2> QED
    BY <2>1, <2>2, <2>3, <2>4 DEF Browser!TypeOK
<1>4. CASE Browser!CheckCleared
  <2>1. Browser!WorldOK' /\ Browser!StoreOK' /\ Browser!WorkOK'
    BY <1>4, <1>w DEF Browser!CheckCleared
  <2>2. Browser!TasksOK'
    BY <1>4, <1>t DEF Browser!CheckCleared, Browser!TasksOK, Browser!Idle, Browser!Person
  <2>3. Browser!GateOK'
    BY <1>4, <1>t, GateShown DEF Browser!CheckCleared, Browser!GateOK
  <2> QED
    BY <2>1, <2>2, <2>3 DEF Browser!TypeOK
<1>5. CASE Browser!CheckAgain \/ Browser!Reload
  <2>1. Browser!WorldOK' /\ Browser!StoreOK'
    BY <1>5 DEF Browser!CheckAgain, Browser!Reload
  <2>2. Browser!GateOK'
    BY <1>5, <1>t, GateShown DEF Browser!CheckAgain, Browser!Reload, Browser!GateOK
  <2>3. Browser!TasksOK'
    BY <1>5, <1>t DEF Browser!CheckAgain, Browser!Reload, Browser!TasksOK, Browser!NextCheck,
       Browser!Idle, Browser!Person
  <2>4. Browser!WorkOK'
    BY <1>5 DEF Browser!CheckAgain, Browser!Reload, Browser!WorkOK, Browser!Stages, Browser!Identity
  <2> QED
    BY <2>1, <2>2, <2>3, <2>4 DEF Browser!TypeOK
<1>6. ASSUME NEW user \in Account, Browser!Submit(user) PROVE Browser!TypeOK'
  <2>1. Browser!WorldOK' /\ Browser!StoreOK' /\ Browser!GateOK' /\ Browser!WorkOK'
    BY <1>6 DEF Browser!Submit
  <2>2. Browser!TasksOK'
    BY <1>6, <1>t DEF Browser!Submit, Browser!TasksOK, Browser!Person
  <2> QED
    BY <2>1, <2>2 DEF Browser!TypeOK
<1>7. CASE Browser!SubmitAnswered
  <2>1. b_signin.then \in Account
    BY <1>7, <1>t DEF Browser!SubmitAnswered, Browser!TasksOK
  <2>2. Browser!WorldOK' /\ Browser!StoreOK'
    BY <1>7, <1>t, <2>1 DEF Browser!SubmitAnswered, Browser!WorldOK, Browser!Person
  <2>3. Browser!GateOK'
    BY <1>7, <2>1, GateShown DEF Browser!SubmitAnswered
  <2>4. Browser!TasksOK'
    BY <1>7, <1>t, <2>1 DEF Browser!SubmitAnswered, Browser!TasksOK, Browser!Idle, Browser!Person
  <2>5. Browser!WorkOK'
    BY <1>7, <1>b, <1>k DEF Browser!SubmitAnswered
  <2> QED
    BY <2>2, <2>3, <2>4, <2>5 DEF Browser!TypeOK
<1>8. CASE Browser!SubmitCleared
  <2>1. Browser!WorldOK' /\ Browser!StoreOK' /\ Browser!WorkOK'
    BY <1>8, <1>w DEF Browser!SubmitCleared
  <2>2. Browser!GateOK'
    BY <1>8, <1>t, GateShown DEF Browser!SubmitCleared, Browser!TasksOK
  <2>3. Browser!TasksOK'
    BY <1>8, <1>t DEF Browser!SubmitCleared, Browser!TasksOK, Browser!Idle, Browser!Person
  <2> QED
    BY <2>1, <2>2, <2>3 DEF Browser!TypeOK
<1>9. CASE Browser!Logout \/ Browser!LogoutAnswered \/ Browser!ExpiryFires \/ Browser!PlanRefused
  <2>1. Browser!WorldOK'
    BY <1>9, <1>t DEF Browser!Logout, Browser!LogoutAnswered, Browser!ExpiryFires,
       Browser!PlanRefused, Browser!WorldOK, Browser!Person
  <2>2. Browser!StoreOK' /\ Browser!GateOK'
    BY <1>9 DEF Browser!Logout, Browser!LogoutAnswered, Browser!ExpiryFires, Browser!PlanRefused
  <2>3. Browser!TasksOK'
    BY <1>9, <1>t DEF Browser!Logout, Browser!LogoutAnswered, Browser!ExpiryFires,
       Browser!PlanRefused, Browser!TasksOK, Browser!Person
  <2>4. Browser!WorkOK'
    BY <1>9, <1>b, <1>k DEF Browser!Logout, Browser!LogoutAnswered, Browser!ExpiryFires,
       Browser!PlanRefused
  <2> QED
    BY <2>1, <2>2, <2>3, <2>4 DEF Browser!TypeOK
<1>10. CASE Browser!LogoutCleared \/ Browser!ExpiryCleared \/ Browser!PlanCleared
  <2>1. Browser!WorldOK' /\ Browser!StoreOK' /\ Browser!WorkOK'
    BY <1>10, <1>w DEF Browser!LogoutCleared, Browser!ExpiryCleared, Browser!PlanCleared
  <2>2. Nobody \in Browser!Person /\ b_active \in Browser!Person
    BY <1>t DEF Browser!GateOK, Browser!Person
  <2>3. Browser!GateOK'
    BY <1>10, <2>2, GateShown DEF Browser!LogoutCleared, Browser!ExpiryCleared, Browser!PlanCleared
  <2>4. Browser!TasksOK'
    BY <1>10, <1>t DEF Browser!LogoutCleared, Browser!ExpiryCleared, Browser!PlanCleared,
       Browser!TasksOK, Browser!Person
  <2> QED
    BY <2>1, <2>3, <2>4 DEF Browser!TypeOK
<1>11. ASSUME NEW e \in Enrollment, Browser!Begin(e) PROVE Browser!TypeOK'
  <2>1. Browser!StoreOK' /\ Browser!GateOK' /\ Browser!TasksOK'
    BY <1>11 DEF Browser!Begin
  <2>2. Browser!WorldOK'
    BY <1>11, <1>t DEF Browser!Begin, Browser!WorldOK, Browser!Person
  <2>3. b_session.user \in Account
    BY <1>11, <1>t DEF Browser!Begin, Browser!GateOK, Browser!Session, Browser!Shown,
       Browser!SignedIn
  <2>4. Browser!now + 1 \in 0..(MaxTime + Life)
    BY <1>t
  <2>5. b_pairing' \in [at : Browser!Stages, copy : Browser!Identity, stale : BOOLEAN]
    BY <1>11, <2>3, <2>4 DEF Browser!Begin, Browser!Stages, Browser!Identity
  <2>6. Browser!WorkOK'
    BY <1>11, <1>t, <2>5 DEF Browser!Begin, Browser!ClearingBegins, Browser!WorkOK
  <2> QED
    BY <2>1, <2>2, <2>6 DEF Browser!TypeOK
<1>12. CASE Browser!BeginCleared
  <2>1. Browser!WorldOK' /\ Browser!GateOK' /\ Browser!TasksOK' /\ Browser!StoreOK'
    BY <1>12 DEF Browser!BeginCleared
  <2>2. [b_pairing EXCEPT !.at = "saving"] \in [at : Browser!Stages, copy : Browser!Identity, stale : BOOLEAN]
    BY <1>t DEF Browser!WorkOK, Browser!Stages
  <2>3. Browser!WorkOK'
    BY <1>12, <1>t, <2>2 DEF Browser!BeginCleared, Browser!WorkOK
  <2> QED
    BY <2>1, <2>3 DEF Browser!TypeOK
<1>13. CASE Browser!Complete
  <2>1. Browser!WorldOK' /\ Browser!GateOK' /\ Browser!TasksOK' /\ Browser!StoreOK'
    BY <1>13, RememberedStore DEF Browser!Complete
  <2>2. Browser!WorkOK'
    BY <1>13, <1>t DEF Browser!Complete, Browser!WorkOK, Browser!StoreOK, Browser!Stages
  <2> QED
    BY <2>1, <2>2 DEF Browser!TypeOK
<1>14. CASE Browser!CompleteAnswered
  <2> DEFINE g == b_granted[b_pairing.copy.enrollment]
  <2>1. Browser!WorldOK' /\ Browser!StoreOK' /\ Browser!GateOK' /\ Browser!TasksOK'
    BY <1>14 DEF Browser!CompleteAnswered
  <2>2. /\ b_pairing.copy \in Browser!Identity /\ b_pairing.copy # Browser!NoIdentity
        /\ b_pairing.copy.enrollment \in Enrollment
    BY <1>14, <1>t DEF Browser!CompleteAnswered, Browser!WorkOK, Browser!TasksCarry,
       Browser!Identity
  <2>3. g.expires \in 0..(MaxTime + Life)
    BY <1>t, <2>2 DEF Browser!WorldOK
  <2>4. Browser!Verified(b_pairing.copy, g.expires) \in Browser!Identity
    BY <2>2, <2>3 DEF Browser!Verified, Browser!Identity
  <2>5. b_pairing' \in {Browser!NoTask, [b_pairing EXCEPT !.at = "saving", !.copy = Browser!Verified(b_pairing.copy, g.expires)]}
    BY <1>14 DEF Browser!CompleteAnswered
  <2>6. [b_pairing EXCEPT !.at = "saving", !.copy = Browser!Verified(b_pairing.copy, g.expires)]
          \in [at : Browser!Stages, copy : Browser!Identity, stale : BOOLEAN]
    BY <1>t, <2>4 DEF Browser!WorkOK, Browser!Stages
  <2>7. Browser!WorkOK'
    BY <1>14, <1>t, <2>5, <2>6 DEF Browser!CompleteAnswered, Browser!WorkOK
  <2> QED
    BY <2>1, <2>7 DEF Browser!TypeOK
<1>15. CASE Browser!PairingSaved \/ Browser!SyncSaved
  <2>1. Browser!WorldOK' /\ Browser!GateOK' /\ Browser!TasksOK'
    BY <1>15 DEF Browser!PairingSaved, Browser!SyncSaved
  <2>2. Browser!StoreOK'
    BY <1>15, SavedStore DEF Browser!PairingSaved, Browser!SyncSaved
  <2>3. Browser!WorkOK'
    BY <1>15, <1>t DEF Browser!PairingSaved, Browser!SyncSaved, Browser!WorkOK
  <2> QED
    BY <2>1, <2>2, <2>3 DEF Browser!TypeOK
<1>16. CASE Browser!SyncStarts
  <2>1. Browser!WorldOK' /\ Browser!GateOK' /\ Browser!TasksOK' /\ Browser!StoreOK'
    BY <1>16, RememberedStore DEF Browser!SyncStarts
  <2>2. /\ [Browser!NoTask EXCEPT !.at = "clearing"] \in [at : Browser!Stages, copy : Browser!Identity, stale : BOOLEAN]
        /\ [at |-> "asked", copy |-> b_identity, stale |-> FALSE]
             \in [at : Browser!Stages, copy : Browser!Identity, stale : BOOLEAN]
    BY <1>t DEF Browser!StoreOK, Browser!NoTask, Browser!Stages, Browser!Identity
  <2>3. Browser!WorkOK'
    BY <1>16, <1>t, <2>2 DEF Browser!SyncStarts, Browser!WorkOK
  <2> QED
    BY <2>1, <2>3 DEF Browser!TypeOK
<1>17. CASE Browser!SyncAnswered
  <2> DEFINE e == b_sync.copy.enrollment
  <2>1. Browser!StoreOK' /\ Browser!GateOK' /\ Browser!TasksOK'
    BY <1>17 DEF Browser!SyncAnswered
  <2>2. b_sync.copy \in Browser!Identity /\ b_sync.copy # Browser!NoIdentity /\ e \in Enrollment
    BY <1>17, <1>t DEF Browser!SyncAnswered, Browser!WorkOK, Browser!TasksCarry, Browser!Identity
  <2>3. b_real + Life \in 0..(MaxTime + Life)
    BY <1>t DEF Browser!WorldOK
  <2>4. Browser!Renewed(e) \in [Enrollment -> [state : {"none", "pending", "approved", "revoked"},
                                        expires : 0..(MaxTime + Life)]]
    BY <1>t, <2>2, <2>3 DEF Browser!Renewed, Browser!WorldOK
  <2>5. b_granted' \in {b_granted, Browser!Renewed(e)}
    BY <1>17, <1>t DEF Browser!SyncAnswered, Browser!WorldOK
  <2>6. Browser!WorldOK'
    BY <1>17, <1>t, <2>4, <2>5 DEF Browser!SyncAnswered, Browser!WorldOK, Browser!Person
  <2>7. /\ [Browser!NoTask EXCEPT !.at = "clearing"] \in [at : Browser!Stages, copy : Browser!Identity, stale : BOOLEAN]
        /\ [b_sync EXCEPT !.at = "saving", !.copy = Browser!Verified(b_sync.copy, b_real + Life)]
             \in [at : Browser!Stages, copy : Browser!Identity, stale : BOOLEAN]
    <3>1. Browser!Verified(b_sync.copy, b_real + Life) \in Browser!Identity
      BY <2>2, <2>3 DEF Browser!Verified, Browser!Identity
    <3> QED
      BY <1>t, <3>1 DEF Browser!WorkOK, Browser!NoTask, Browser!Stages, Browser!Identity
  <2>8. b_sync' \in {Browser!NoTask, [Browser!NoTask EXCEPT !.at = "clearing"],
                   [b_sync EXCEPT !.at = "saving", !.copy = Browser!Verified(b_sync.copy, b_real + Life)]}
    BY <1>17, <1>t DEF Browser!SyncAnswered, Browser!WorldOK
  <2>9. b_pairing' = b_pairing
    BY <1>17 DEF Browser!SyncAnswered
  <2>10. b_sync' \in [at : Browser!Stages, copy : Browser!Identity, stale : BOOLEAN]
    <3>1. Browser!NoTask \in [at : Browser!Stages, copy : Browser!Identity, stale : BOOLEAN]
      BY BrowserConstants DEF Browser!NoTask, Browser!Stages
    <3> QED
      BY <2>7, <2>8, <3>1
  <2>11. Browser!WorkOK'
    BY <1>t, <2>9, <2>10 DEF Browser!WorkOK
  <2> QED
    BY <2>1, <2>6, <2>11 DEF Browser!TypeOK
<1>18. CASE Browser!SyncCleared
  <2>1. Browser!WorldOK' /\ Browser!GateOK' /\ Browser!TasksOK' /\ Browser!StoreOK'
    BY <1>18 DEF Browser!SyncCleared
  <2>2. Browser!WorkOK'
    BY <1>18, <1>t DEF Browser!SyncCleared, Browser!WorkOK
  <2> QED
    BY <2>1, <2>2 DEF Browser!TypeOK
<1>19. CASE Browser!SaveStudioSnapshot
  <2>1. Browser!WorldOK' /\ Browser!GateOK' /\ Browser!TasksOK' /\ Browser!StoreOK' /\ Browser!WorkOK'
    BY <1>19, RememberedStore DEF Browser!SaveStudioSnapshot
  <2> QED
    BY <2>1 DEF Browser!TypeOK
<1>20. ASSUME NEW e \in Enrollment, Browser!Decide(e, "approved") \/ Browser!Decide(e, "revoked") PROVE Browser!TypeOK'
  <2>1. Browser!StoreOK' /\ Browser!GateOK' /\ Browser!TasksOK' /\ Browser!WorkOK'
    BY <1>20 DEF Browser!Decide
  <2>2. b_real + Life \in 0..(MaxTime + Life)
    BY <1>t DEF Browser!WorldOK
  <2>3. b_granted' \in [Enrollment -> [state : {"none", "pending", "approved", "revoked"},
                                     expires : 0..(MaxTime + Life)]]
    BY <1>20, <1>t, <2>2 DEF Browser!Decide, Browser!WorldOK
  <2>4. Browser!WorldOK'
    BY <1>20, <1>t, <2>3 DEF Browser!Decide, Browser!WorldOK, Browser!Person
  <2> QED
    BY <2>1, <2>4 DEF Browser!TypeOK
<1>21. CASE Browser!Tick
  <2>1. Browser!StoreOK' /\ Browser!TasksOK' /\ Browser!WorkOK'
    BY <1>21 DEF Browser!Tick
  <2>2. Browser!WorldOK'
    BY <1>21, <1>t DEF Browser!Tick, Browser!WorldOK, Browser!Person
  <2>3. Browser!GateOK'
    BY <1>21, <1>t DEF Browser!Tick, Browser!GateOK, Browser!Person, Browser!Session,
       Browser!Shown, Browser!SignedIn
  <2> QED
    BY <2>1, <2>2, <2>3 DEF Browser!TypeOK
<1>22. CASE Browser!Goes \/ Browser!Returns
  <2>1. Browser!StoreOK' /\ Browser!GateOK' /\ Browser!TasksOK' /\ Browser!WorkOK'
    BY <1>22 DEF Browser!Goes, Browser!Returns
  <2>2. /\ b_granted' = b_granted /\ b_real' = b_real /\ b_online' \in BOOLEAN
        /\ b_cookie' \in Browser!Person /\ b_skew' \in {0, 1}
    <3>1. b_granted' = b_granted /\ b_real' = b_real
      BY <1>22 DEF Browser!Goes, Browser!Returns
    <3>2. b_online' \in BOOLEAN
      BY <1>22, <1>t DEF Browser!Goes, Browser!Returns, Browser!WorldOK
    <3>3. b_cookie' \in Browser!Person
      BY <1>22, <1>t DEF Browser!Goes, Browser!Returns, Browser!WorldOK, Browser!Person
    <3>4. b_skew' = b_skew \/ b_skew' = 1 - b_skew
      BY <1>22 DEF Browser!Goes, Browser!Returns
    <3>5. b_skew' \in {0, 1}
      BY <1>t, <3>4 DEF Browser!WorldOK
    <3> QED
      BY <3>1, <3>2, <3>3, <3>5
  <2>3. Browser!WorldOK'
    BY <1>t, <2>2 DEF Browser!WorldOK, Browser!Person
  <2> QED
    BY <2>1, <2>3 DEF Browser!TypeOK
<1> QED
  BY <1>1, <1>2, <1>3, <1>4, <1>5, <1>6, <1>7, <1>8, <1>9, <1>10, <1>11, <1>12, <1>13, <1>14,
     <1>15, <1>16, <1>17, <1>18, <1>19, <1>20, <1>21, <1>22
  DEF Browser!Next

\* A pairing carries its identity from its beginning, a synchronisation from
\* its request on.
LEMMA BrowserCarryStep ==
    ASSUME Browser!TypeOK, Browser!TypeOK', Browser!TasksCarry, Browser!Next
    PROVE  Browser!TasksCarry'
<1> USE BrowserConstants, OutlivedWork DEF Browser!TasksCarry, Browser!NoTask
<1>t. Browser!WorkOK /\ b_pairing \in [at : Browser!Stages, copy : Browser!Identity, stale : BOOLEAN]
             /\ b_sync \in [at : Browser!Stages, copy : Browser!Identity, stale : BOOLEAN]
             /\ b_identity \in Browser!Identity /\ Browser!WorldOK
  BY DEF Browser!TypeOK, Browser!WorkOK, Browser!StoreOK
<1>n. Browser!NoIdentity = [enrollment |-> 0, approved |-> FALSE, expires |-> 0, owner |-> Nobody]
  BY DEF Browser!NoIdentity
<1>o. Browser!ClearPrivateRuntimeState => Browser!TasksCarry'
  BY <1>t DEF Browser!ClearPrivateRuntimeState
<1>b. b_pairing' = b_pairing /\ (b_sync' = b_sync \/ b_sync' = Browser!NoTask \/ Browser!ClearingBegins) => Browser!TasksCarry'
  BY <1>t DEF Browser!ClearingBegins
<1>1. CASE Browser!CheckAnswered \/ Browser!SubmitAnswered \/ Browser!LoadOfflineStudio
  BY <1>1, <1>b DEF Browser!CheckAnswered, Browser!SubmitAnswered, Browser!LoadOfflineStudio
<1>2. CASE \/ Browser!CheckFails \/ Browser!Recheck \/ Browser!CheckAgain \/ (\E user \in Account : Browser!Submit(user)) \/ Browser!Logout
           \/ Browser!SaveStudioSnapshot \/ Browser!Tick \/ Browser!Goes \/ Browser!Returns
           \/ \E e \in Enrollment : Browser!Decide(e, "approved") \/ Browser!Decide(e, "revoked")
  BY <1>2, <1>b DEF Browser!CheckFails, Browser!Recheck, Browser!CheckAgain, Browser!Submit,
     Browser!Logout, Browser!SaveStudioSnapshot, Browser!Tick, Browser!Goes,
                    Browser!Returns, Browser!Decide
<1>3. CASE Browser!LogoutAnswered \/ Browser!ExpiryFires \/ Browser!PlanRefused
  BY <1>3, <1>b DEF Browser!LogoutAnswered, Browser!ExpiryFires, Browser!PlanRefused
<1>4. CASE Browser!CheckCleared \/ Browser!SubmitCleared \/ Browser!LogoutCleared \/ Browser!ExpiryCleared \/ Browser!PlanCleared
  BY <1>4, <1>o DEF Browser!CheckCleared, Browser!SubmitCleared, Browser!LogoutCleared,
     Browser!ExpiryCleared, Browser!PlanCleared
<1>5. CASE Browser!Reload
  BY <1>5 DEF Browser!Reload
<1>6. ASSUME NEW e \in Enrollment, Browser!Begin(e) PROVE Browser!TasksCarry'
  <2>1. b_pairing'.copy.enrollment = e /\ e # 0
    BY <1>6, <1>t DEF Browser!Begin
  <2>2. b_pairing'.copy # Browser!NoIdentity
    BY <1>n, <2>1
  <2> QED
    BY <1>6, <1>t, <2>2 DEF Browser!Begin, Browser!ClearingBegins
<1>7. CASE Browser!BeginCleared
  <2>1. b_pairing'.copy = b_pairing.copy /\ b_pairing.copy # Browser!NoIdentity
    BY <1>7, <1>t DEF Browser!BeginCleared
  <2> QED
    BY <1>7, <1>t, <2>1 DEF Browser!BeginCleared
<1>8. CASE Browser!Complete
  BY <1>8, <1>t DEF Browser!Complete
<1>9. CASE Browser!CompleteAnswered
  <2> DEFINE v == Browser!Verified(b_pairing.copy, b_granted[b_pairing.copy.enrollment].expires)
  <2>1. b_pairing.copy # Browser!NoIdentity /\ b_pairing.copy.enrollment \in Enrollment
    BY <1>9, <1>t DEF Browser!CompleteAnswered, Browser!Identity
  <2>2. v.enrollment = b_pairing.copy.enrollment /\ v.enrollment # 0
    BY <1>t, <2>1 DEF Browser!Verified, Browser!Identity
  <2>3. v # Browser!NoIdentity
    BY <1>n, <2>2
  <2>4. b_pairing' \in {Browser!NoTask, [b_pairing EXCEPT !.at = "saving", !.copy = v]} /\ b_sync' = b_sync
    BY <1>9 DEF Browser!CompleteAnswered
  <2> QED
    BY <1>t, <2>3, <2>4
<1>10. CASE Browser!PairingSaved \/ Browser!SyncSaved \/ Browser!SyncCleared
  BY <1>10, <1>t DEF Browser!PairingSaved, Browser!SyncSaved, Browser!SyncCleared
<1>11. CASE Browser!SyncStarts
  <2>1. b_identity # Browser!NoIdentity
    BY <1>11, <1>n DEF Browser!SyncStarts
  <2> QED
    BY <1>11, <1>t, <2>1 DEF Browser!SyncStarts
<1>12. CASE Browser!SyncAnswered
  <2> DEFINE v == Browser!Verified(b_sync.copy, b_real + Life)
  <2>1. b_sync.copy # Browser!NoIdentity /\ b_sync.copy.enrollment \in Enrollment
    BY <1>12, <1>t DEF Browser!SyncAnswered, Browser!Identity
  <2>2. v.enrollment = b_sync.copy.enrollment /\ v.enrollment # 0
    BY <1>t, <2>1 DEF Browser!Verified, Browser!Identity
  <2>3. v # Browser!NoIdentity
    BY <1>n, <2>2
  <2>4. /\ b_sync' \in {Browser!NoTask, [Browser!NoTask EXCEPT !.at = "clearing"], [b_sync EXCEPT !.at = "saving", !.copy = v]}
        /\ b_pairing' = b_pairing
    BY <1>12, <1>t DEF Browser!SyncAnswered, Browser!WorldOK
  <2>5. b_sync'.at \in {"asked", "saving"} => b_sync'.copy = v
    <3>1. Browser!NoTask.at = "idle" /\ [Browser!NoTask EXCEPT !.at = "clearing"].at = "clearing"
      OBVIOUS
    <3>2. [b_sync EXCEPT !.at = "saving", !.copy = v].copy = v
      BY <1>t
    <3> HIDE DEF v, Browser!NoTask
    <3> QED
      BY <2>4, <3>1, <3>2
  <2> QED
    BY <1>t, <2>3, <2>4, <2>5
<1> QED
  BY <1>1, <1>2, <1>3, <1>4, <1>5, <1>6, <1>7, <1>8, <1>9, <1>10, <1>11, <1>12 DEF Browser!Next

\* Whoever is admitted finds nothing of another account; what an operation
\* carries over a deletion is marked stale.
LEMMA BrowserOwnersStep ==
    ASSUME Browser!TypeOK, Browser!TypeOK', Browser!TasksCarry, Browser!TasksCarry', Browser!OwnersKnown, Browser!Next
    PROVE  Browser!OwnersKnown'
<1> USE BrowserConstants, OutlivedWork
<1>t. /\ b_pairing \in [at : Browser!Stages, copy : Browser!Identity, stale : BOOLEAN]
      /\ b_sync \in [at : Browser!Stages, copy : Browser!Identity, stale : BOOLEAN]
      /\ b_identity \in Browser!Identity /\ Browser!WorldOK /\ Browser!TasksOK /\ Browser!GateOK
      /\ b_active \in Browser!Person /\ b_session \in Browser!Session
  BY DEF Browser!TypeOK, Browser!WorkOK, Browser!StoreOK, Browser!GateOK
<1>n. \A i \in Browser!Identity : i # Browser!NoIdentity => i.owner \in Account
  BY DEF Browser!Identity
<1>o. /\ b_session.kind = "in" => b_active = b_session.user
      /\ ~b_revived =>
           /\ b_identity # Browser!NoIdentity => b_identity.owner = b_active
           /\ Browser!Carries(b_pairing) /\ ~b_pairing.stale => b_pairing.copy.owner = b_active
           /\ Browser!Carries(b_sync) /\ ~b_sync.stale => b_sync.copy.owner = b_active
  BY DEF Browser!OwnersKnown
<1>s. \A u, k : Browser!Shown(k).kind = k /\ Browser!SignedIn(u).kind = "in" /\ Browser!SignedIn(u).user = u
  BY DEF Browser!Shown, Browser!SignedIn
\* Whoever is admitted is the owner already, or nothing has an owner.
<1>a. ASSUME NEW u \in Account, Browser!Admit(u), ~Browser!Foreign(u), b_pairing' = b_pairing, b_identity' = b_identity,
             b_sync' = b_sync \/ Browser!ClearingBegins, b_revived' = b_revived
      PROVE  Browser!OwnersKnown'
  <2>1. b_active' = u /\ b_session' = Browser!SignedIn(u) /\ (b_active = Nobody \/ b_active = u)
    BY <1>a DEF Browser!Admit, Browser!Foreign
  <2>2. b_sync' = b_sync \/ b_sync' = Browser!NoTask
    BY <1>a DEF Browser!ClearingBegins
  <2>3. \A i \in Browser!Identity : i # Browser!NoIdentity /\ i.owner = b_active => i.owner = u
    BY <1>n, <1>t, <2>1
  <2> QED
    BY <1>a, <1>o, <1>s, <1>t, <2>1, <2>2, <2>3
    DEF Browser!OwnersKnown, Browser!Carries, Browser!NoTask
\* A deletion leaves nothing that has an owner.
<1>c. ASSUME Browser!ClearPrivateRuntimeState, b_session'.kind = "in" => b_active' = b_session'.user
      PROVE  Browser!OwnersKnown'
  BY <1>c, <1>t DEF Browser!ClearPrivateRuntimeState, Browser!Wiped, Browser!OwnersKnown,
     Browser!Carries
\* Who begins to delete, or only loses a synchronisation, changes no owner.
<1>b. ASSUME b_active' = b_active, b_session'.kind = "in" => b_session' = b_session, b_identity' = b_identity,
             b_revived' = b_revived, b_pairing' = b_pairing,
             b_sync' = b_sync \/ Browser!ClearingBegins \/ b_sync' = Browser!NoTask
      PROVE  Browser!OwnersKnown'
  <2>1. b_sync' = b_sync \/ b_sync' = Browser!NoTask
    BY <1>b DEF Browser!ClearingBegins
  <2> QED
    BY <1>b, <1>o, <2>1 DEF Browser!OwnersKnown, Browser!Carries, Browser!NoTask
<1>1. CASE Browser!CheckAnswered
  <2>1. CASE b_cookie = Nobody \/ Browser!Foreign(b_cookie)
    BY <1>1, <1>b, <2>1 DEF Browser!CheckAnswered, Browser!store, Browser!gate
  <2>2. CASE ~(b_cookie = Nobody \/ Browser!Foreign(b_cookie))
    <3>1. b_cookie \in Account /\ Browser!Admit(b_cookie)
      BY <1>1, <1>t, <2>2 DEF Browser!CheckAnswered, Browser!WorldOK, Browser!Person
    <3> QED
      BY <1>1, <1>a, <2>2, <3>1 DEF Browser!CheckAnswered, Browser!store
  <2> QED
    BY <2>1, <2>2
<1>2. CASE Browser!SubmitAnswered
  <2>1. b_signin.then \in Account
    BY <1>2, <1>t DEF Browser!SubmitAnswered, Browser!TasksOK
  <2>2. CASE ~b_online \/ Browser!Foreign(b_signin.then)
    BY <1>2, <1>b, <2>2 DEF Browser!SubmitAnswered, Browser!store, Browser!gate
  <2>3. CASE ~(~b_online \/ Browser!Foreign(b_signin.then))
    BY <1>2, <1>a, <2>1, <2>3 DEF Browser!SubmitAnswered, Browser!store
  <2> QED
    BY <2>2, <2>3
<1>3. CASE Browser!LoadOfflineStudio
  <2>1. b_active' = b_active /\ (b_session'.kind = "in" => b_session' = b_session)
    BY <1>3, <1>s DEF Browser!LoadOfflineStudio, Browser!gate, Browser!SetOffline
  <2> QED
    BY <1>3, <1>b, <2>1 DEF Browser!LoadOfflineStudio
<1>4. CASE \/ Browser!CheckFails \/ Browser!Recheck \/ Browser!CheckAgain \/ (\E user \in Account : Browser!Submit(user)) \/ Browser!Logout
           \/ Browser!LogoutAnswered \/ Browser!ExpiryFires \/ Browser!PlanRefused
  BY <1>4, <1>b, <1>s DEF Browser!CheckFails, Browser!Recheck, Browser!CheckAgain, Browser!Submit,
     Browser!Logout, Browser!LogoutAnswered, Browser!ExpiryFires,
                    Browser!PlanRefused, Browser!gate, Browser!store
<1>5. CASE \/ Browser!SaveStudioSnapshot \/ Browser!Tick \/ Browser!Goes \/ Browser!Returns
           \/ \E e \in Enrollment : Browser!Decide(e, "approved") \/ Browser!Decide(e, "revoked")
  BY <1>5, <1>b DEF Browser!SaveStudioSnapshot, Browser!Tick, Browser!Goes, Browser!Returns,
     Browser!Decide, Browser!gate, Browser!store
<1>6. CASE Browser!CheckCleared
  BY <1>6, <1>c, <1>o, <1>s, <1>t DEF Browser!CheckCleared, Browser!Admit
<1>7. CASE Browser!SubmitCleared \/ Browser!LogoutCleared \/ Browser!ExpiryCleared \/ Browser!PlanCleared
  BY <1>7, <1>c, <1>o, <1>s DEF Browser!SubmitCleared, Browser!LogoutCleared,
     Browser!ExpiryCleared, Browser!PlanCleared, Browser!Admit, Browser!gate
<1>8. CASE Browser!Reload
  BY <1>8, <1>o, <1>s DEF Browser!Reload, Browser!OwnersKnown, Browser!Carries, Browser!NoTask,
     Browser!store
<1>9. ASSUME NEW e \in Enrollment, Browser!Begin(e) PROVE Browser!OwnersKnown'
  <2>1. /\ b_active' = b_active /\ b_session' = b_session /\ b_identity' = b_identity /\ b_revived' = b_revived
        /\ b_sync' = b_sync \/ b_sync' = Browser!NoTask
        /\ b_pairing'.copy.owner = b_session.user /\ b_active = b_session.user
    BY <1>9, <1>o DEF Browser!Begin, Browser!ClearingBegins, Browser!gate, Browser!store
  <2> QED
    BY <1>o, <2>1 DEF Browser!OwnersKnown, Browser!Carries, Browser!NoTask
<1>10. CASE Browser!BeginCleared
  <2>1. /\ b_pairing'.copy = b_pairing.copy /\ b_pairing'.stale = b_pairing.stale /\ b_pairing.at # "idle"
    BY <1>10, <1>t DEF Browser!BeginCleared
  <2> QED
    BY <1>10, <1>o, <1>t, <2>1 DEF Browser!BeginCleared, Browser!Wiped, Browser!OwnersKnown,
       Browser!Carries, Browser!gate
<1>11. CASE Browser!Complete
  BY <1>11, <1>o DEF Browser!Complete, Browser!OwnersKnown, Browser!Carries, Browser!gate
<1>12. CASE Browser!CompleteAnswered
  <2> DEFINE v == Browser!Verified(b_pairing.copy, b_granted[b_pairing.copy.enrollment].expires)
  <2>1. v.owner = b_pairing.copy.owner
    BY <1>12, <1>t DEF Browser!Verified, Browser!Identity, Browser!NoIdentity
  <2>2. b_pairing' \in {Browser!NoTask, [b_pairing EXCEPT !.at = "saving", !.copy = v]}
    BY <1>12 DEF Browser!CompleteAnswered
  <2>3. Browser!Carries(b_pairing) /\ b_pairing.at # "idle"
    BY <1>12 DEF Browser!CompleteAnswered, Browser!TasksCarry, Browser!Carries
  <2>4. Browser!Carries(b_pairing') /\ ~b_pairing'.stale => ~b_pairing.stale /\ b_pairing'.copy.owner = b_pairing.copy.owner
    <3> HIDE DEF v
    <3>1. CASE b_pairing' = [b_pairing EXCEPT !.at = "saving", !.copy = v]
      <4>1. b_pairing'.copy = v /\ b_pairing'.stale = b_pairing.stale
        BY <1>t, <3>1
      <4> QED
        BY <2>1, <4>1
    <3>2. CASE b_pairing' # [b_pairing EXCEPT !.at = "saving", !.copy = v]
      <4>1. ~Browser!Carries(b_pairing')
        BY <2>2, <3>2 DEF Browser!Carries, Browser!NoTask
      <4> QED
        BY <4>1
    <3> QED
      BY <3>1, <3>2
  <2>5. UNCHANGED <<b_session, b_active, b_revived, b_identity, b_sync>>
    BY <1>12 DEF Browser!CompleteAnswered, Browser!gate, Browser!store
  <2> QED
    BY <1>o, <2>3, <2>4, <2>5 DEF Browser!OwnersKnown, Browser!Carries
<1>13. CASE Browser!PairingSaved
  <2>1. Browser!Carries(b_pairing) /\ b_pairing' = Browser!NoTask /\ b_sync' = b_sync /\ b_active' = b_active /\ b_session' = b_session
    BY <1>13 DEF Browser!PairingSaved, Browser!TasksCarry, Browser!Carries, Browser!gate
  <2>2. \/ b_identity' = b_identity /\ b_revived' = b_revived
        \/ b_identity' = b_pairing.copy /\ b_revived' = (b_revived \/ b_pairing.stale)
    BY <1>13 DEF Browser!PairingSaved, Browser!SaveBrowserIdentity, Browser!store
  <2> QED
    BY <1>o, <2>1, <2>2 DEF Browser!OwnersKnown, Browser!Carries, Browser!NoTask
<1>14. CASE Browser!SyncSaved
  <2>1. Browser!Carries(b_sync) /\ b_sync' = Browser!NoTask /\ b_pairing' = b_pairing /\ b_active' = b_active /\ b_session' = b_session
    BY <1>14 DEF Browser!SyncSaved, Browser!TasksCarry, Browser!Carries, Browser!gate
  <2>2. \/ b_identity' = b_identity /\ b_revived' = b_revived
        \/ b_identity' = b_sync.copy /\ b_revived' = (b_revived \/ b_sync.stale)
    BY <1>14 DEF Browser!SyncSaved, Browser!SaveBrowserIdentity, Browser!store
  <2> QED
    BY <1>o, <2>1, <2>2 DEF Browser!OwnersKnown, Browser!Carries, Browser!NoTask
<1>15. CASE Browser!SyncStarts
  <2>1. b_identity # Browser!NoIdentity
    BY <1>15 DEF Browser!SyncStarts, Browser!NoIdentity
  <2>2. /\ b_sync' = [Browser!NoTask EXCEPT !.at = "clearing"] \/ b_sync' = [at |-> "asked", copy |-> b_identity, stale |-> FALSE]
        /\ b_active' = b_active /\ b_session' = b_session /\ b_pairing' = b_pairing /\ b_identity' = b_identity
        /\ b_revived' = b_revived
    BY <1>15 DEF Browser!SyncStarts, Browser!gate
  <2> QED
    BY <1>o, <2>1, <2>2 DEF Browser!OwnersKnown, Browser!Carries, Browser!NoTask
<1>16. CASE Browser!SyncAnswered
  <2> DEFINE v == Browser!Verified(b_sync.copy, b_real + Life)
  <2>1. v.owner = b_sync.copy.owner
    BY <1>16, <1>t DEF Browser!Verified, Browser!Identity, Browser!NoIdentity
  <2>2. b_sync' \in {Browser!NoTask, [Browser!NoTask EXCEPT !.at = "clearing"], [b_sync EXCEPT !.at = "saving", !.copy = v]}
    BY <1>16, <1>t DEF Browser!SyncAnswered, Browser!WorldOK
  <2>3. Browser!Carries(b_sync)
    BY <1>16 DEF Browser!SyncAnswered, Browser!TasksCarry, Browser!Carries
  <2>4. Browser!Carries(b_sync') /\ ~b_sync'.stale => ~b_sync.stale /\ b_sync'.copy.owner = b_sync.copy.owner
    <3> HIDE DEF v
    <3>1. CASE b_sync' = [b_sync EXCEPT !.at = "saving", !.copy = v]
      <4>1. b_sync'.copy = v /\ b_sync'.stale = b_sync.stale
        BY <1>t, <3>1
      <4> QED
        BY <2>1, <4>1
    <3>2. CASE b_sync' # [b_sync EXCEPT !.at = "saving", !.copy = v]
      <4>1. ~Browser!Carries(b_sync')
        BY <2>2, <3>2 DEF Browser!Carries, Browser!NoTask
      <4> QED
        BY <4>1
    <3> QED
      BY <3>1, <3>2
  <2>5. UNCHANGED <<b_session, b_active, b_revived, b_identity, b_pairing>>
    BY <1>16 DEF Browser!SyncAnswered, Browser!gate, Browser!store
  <2> QED
    BY <1>o, <2>3, <2>4, <2>5 DEF Browser!OwnersKnown, Browser!Carries
<1>17. CASE Browser!SyncCleared
  BY <1>17, <1>o, <1>t DEF Browser!SyncCleared, Browser!Wiped, Browser!OwnersKnown,
     Browser!Carries, Browser!NoTask, Browser!gate
<1> QED
  BY <1>1, <1>2, <1>3, <1>4, <1>5, <1>6, <1>7, <1>8, <1>9, <1>10, <1>11, <1>12, <1>13, <1>14,
     <1>15, <1>16, <1>17
  DEF Browser!Next

LEMMA BrowserInitial == ASSUME Browser!Init PROVE Browser!BrowserInv
<1>1. MaxTime \in Nat \ {0} /\ Life \in Nat \ {0} /\ Nobody \notin Account
  BY BrowserAssumption
<1>2. Browser!NoIdentity \in Browser!Identity
  BY DEF Browser!Identity
<1>3. Browser!WorldOK
  BY <1>1 DEF Browser!Init, Browser!WorldOK, Browser!Person
<1>4. Browser!StoreOK
  BY <1>1, <1>2 DEF Browser!Init, Browser!StoreOK
<1>5. Browser!GateOK
  BY DEF Browser!Init, Browser!GateOK, Browser!Person, Browser!Session, Browser!Shown
<1>6. Browser!TasksOK
  BY DEF Browser!Init, Browser!TasksOK, Browser!Person, Browser!Idle
<1>7. Browser!WorkOK
  BY <1>2 DEF Browser!Init, Browser!WorkOK, Browser!NoTask, Browser!Stages
<1>8. Browser!TasksCarry /\ Browser!OwnersKnown
  BY DEF Browser!Init, Browser!TasksCarry, Browser!OwnersKnown, Browser!Carries, Browser!NoTask,
     Browser!Shown
<1> QED
  BY <1>3, <1>4, <1>5, <1>6, <1>7, <1>8 DEF Browser!BrowserInv, Browser!TypeOK

LEMMA BrowserInductive == ASSUME Browser!BrowserInv, Browser!Next PROVE Browser!BrowserInv'
<1>1. Browser!TypeOK'
  BY BrowserTypeStep DEF Browser!BrowserInv
<1>2. Browser!TasksCarry'
  BY <1>1, BrowserCarryStep DEF Browser!BrowserInv
<1> QED
  BY <1>1, <1>2, BrowserOwnersStep DEF Browser!BrowserInv

LEMMA BrowserResting == ASSUME Browser!BrowserInv, UNCHANGED BrowserVars PROVE Browser!BrowserInv'
<1>1. Browser!TypeOK'
  BY BrowserFrames DEF BrowserVars, Browser!BrowserInv, Browser!TypeOK, Browser!world,
     Browser!store, Browser!gate, Browser!tasks
<1>2. Browser!TasksCarry' /\ Browser!OwnersKnown'
  BY DEF BrowserVars, Browser!BrowserInv, Browser!TasksCarry, Browser!OwnersKnown, Browser!Carries
<1> QED
  BY <1>1, <1>2 DEF Browser!BrowserInv

\* Only loadOfflineStudio opens the workspace without the server.
LEMMA OfflineStep ==
    ASSUME Browser!BrowserInv, Browser!Next, b_session.kind # "offline", b_session'.kind = "offline"
    PROVE  /\ Browser!ApprovedIdentity(b_identity) /\ b_snapshot > Browser!now /\ Browser!now >= b_clock
           /\ b_left' <= b_identity.expires - Browser!now
<1>s. \A u, k : Browser!Shown(k).kind = k /\ Browser!SignedIn(u).kind = "in"
  BY DEF Browser!Shown, Browser!SignedIn
<1>1. Browser!LoadOfflineStudio
  <2>1. CASE Browser!CheckAnswered \/ Browser!CheckCleared \/ Browser!SubmitAnswered \/ Browser!SubmitCleared
    BY <2>1, <1>s DEF Browser!CheckAnswered, Browser!CheckCleared, Browser!SubmitAnswered,
       Browser!SubmitCleared, Browser!Admit, Browser!gate
  <2>2. CASE Browser!CheckFails \/ Browser!Recheck \/ Browser!CheckAgain \/ (\E user \in Account : Browser!Submit(user)) \/ Browser!Logout
    BY <2>2, <1>s DEF Browser!CheckFails, Browser!Recheck, Browser!CheckAgain, Browser!Submit,
       Browser!Logout, Browser!gate
  <2>3. CASE Browser!LogoutAnswered \/ Browser!LogoutCleared \/ Browser!ExpiryFires \/ Browser!ExpiryCleared \/ Browser!Reload \/ Browser!PlanRefused \/ Browser!PlanCleared
    BY <2>3, <1>s DEF Browser!LogoutAnswered, Browser!LogoutCleared, Browser!ExpiryFires,
       Browser!ExpiryCleared, Browser!Reload, Browser!PlanRefused,
                      Browser!PlanCleared, Browser!gate
  <2>4. CASE \E e \in Enrollment : Browser!Begin(e) \/ Browser!Decide(e, "approved") \/ Browser!Decide(e, "revoked")
    BY <2>4 DEF Browser!Begin, Browser!Decide, Browser!gate
  <2>5. CASE Browser!BeginCleared \/ Browser!Complete \/ Browser!CompleteAnswered \/ Browser!PairingSaved \/ Browser!SyncStarts \/ Browser!SyncAnswered
    BY <2>5 DEF Browser!BeginCleared, Browser!Complete, Browser!CompleteAnswered,
       Browser!PairingSaved, Browser!SyncStarts, Browser!SyncAnswered, Browser!gate
  <2>6. CASE Browser!SyncCleared \/ Browser!SyncSaved \/ Browser!SaveStudioSnapshot \/ Browser!Tick \/ Browser!Goes \/ Browser!Returns
    BY <2>6 DEF Browser!SyncCleared, Browser!SyncSaved, Browser!SaveStudioSnapshot, Browser!Tick,
       Browser!Goes, Browser!Returns, Browser!gate
  <2> QED
    BY <2>1, <2>2, <2>3, <2>4, <2>5, <2>6 DEF Browser!Next
<1>2. /\ ~Browser!TurnedBack /\ Browser!ApprovedIdentity(b_identity) /\ b_snapshot > 0 /\ ~(b_snapshot <= Browser!now)
      /\ Browser!SetOffline(IF b_snapshot < b_identity.expires THEN b_snapshot ELSE b_identity.expires)
  BY <1>1, <1>s DEF Browser!LoadOfflineStudio, Browser!gate
<1>3. /\ Browser!now \in Nat /\ b_clock \in Nat /\ b_snapshot \in Nat /\ b_identity.expires \in Nat
  BY BrowserConstants DEF Browser!BrowserInv, Browser!TypeOK, Browser!StoreOK, Browser!Identity,
     Browser!NoIdentity
<1>4. b_left' = (IF b_snapshot < b_identity.expires THEN b_snapshot ELSE b_identity.expires) - Browser!now
  BY <1>2 DEF Browser!SetOffline
<1> QED
  BY <1>2, <1>3, <1>4 DEF Browser!TurnedBack

\* An account never works with the paired identity of another one, through
\* logouts, ended sessions, reloads and offline hours, unless a late answer
\* brought a deleted identity back, and the workspace opens without the
\* server only on an identity and a copy that are valid on a clock that was
\* not set back: for any number of accounts, enrolments and operations
\* (LoginGate.tsx, localRuntime.ts, browserEnrollment.ts, syncRuntime.ts).
THEOREM AccountsKeptApartTheorem == AnySpec => AccountsKeptApart
<1>1. AnyInit => Browser!BrowserInv
  BY BrowserInitial DEF AnyInit
<1>2. Browser!BrowserInv /\ [AnyNext]_all => Browser!BrowserInv'
  BY BrowserInductive, BrowserResting DEF AnyNext, all
<1>3. Browser!BrowserInv => ((part = "browser") => Browser!BrowserInv /\ Browser!AccountsApart)
  <2>1. ASSUME Browser!BrowserInv, b_session.kind = "in", b_identity # Browser!NoIdentity, ~b_revived
        PROVE  b_identity.owner = b_session.user
    BY <2>1 DEF Browser!BrowserInv, Browser!OwnersKnown
  <2> QED
    BY <2>1 DEF Browser!AccountsApart
<1>4. Browser!BrowserInv /\ [AnyNext]_all =>
        [b_session.kind # "offline" /\ b_session'.kind = "offline"
           => /\ Browser!ApprovedIdentity(b_identity) /\ b_snapshot > Browser!now /\ Browser!now >= b_clock
              /\ b_left' <= b_identity.expires - Browser!now]_(Browser!vars)
  <2>1. ASSUME Browser!BrowserInv, AnyNext, part = "browser" /\ Browser!Next
        PROVE b_session.kind # "offline" /\ b_session'.kind = "offline"
           => /\ Browser!ApprovedIdentity(b_identity) /\ b_snapshot > Browser!now /\ Browser!now >= b_clock
              /\ b_left' <= b_identity.expires - Browser!now
    BY <2>1, OfflineStep
  <2>2. ASSUME UNCHANGED BrowserVars PROVE UNCHANGED Browser!vars
    BY <2>2 DEF BrowserVars, Browser!vars, Browser!world, Browser!store, Browser!gate, Browser!tasks
  <2> QED
    BY <2>1, <2>2 DEF AnyNext, all
<1> QED
  BY <1>1, <1>2, <1>3, <1>4, PTL DEF AnySpec, AccountsKeptApart, Browser!OfflineNeedsGrant
=============================================================================
