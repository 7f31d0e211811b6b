------------------------- MODULE MonitorPreferences -------------------------
(* The monitor wall's preferences, which every page of an account edits and *)
(* shares: the hook that holds them in a page (web/src/useMonitorPreferences *)
(* .ts), the serialized saves and the private cache behind it               *)
(* (web/src/localRuntime.ts), the three-way merges on both sides            *)
(* (web/src/monitorPreferenceMerge.ts, cluster/cluster_service.py).         *)
(*                                                                          *)
(* A document gives each control (a leaf path) a setting; settings are      *)
(* stamps, so that each one tells who chose it. A page is one window of its *)
(* own browser. The hook's timers are enabledness: 250 ms of debounce, a    *)
(* poll every 5 seconds, 8 seconds for a request.                           *)
EXTENDS Naturals, FiniteSets, Sequences

CONSTANTS
    Pages,      \* one page in each browser
    Controls,
    MaxChoices, \* bound: choices made by all users
    MaxFaults,  \* bound: failed requests, crashes and lost answers
    MaxHides,   \* bound: pages left or closed
    None

Settings == 0..MaxChoices
Default == 0

VARIABLES
    doc,        \* account_preferences: the account's document
    page,       \* each page's hook
    saves,      \* each page's saves, in the order of monitorViewWrites
    wire,       \* requests on their way to the account service
    cache,      \* the browser's private 'monitor-view' record, or None
    chosen,     \* history: which setting was chosen where
    setBack,    \* history: a control was set back to a setting it had before
    stamp,      \* bound: choices so far
    faults,     \* bound: faults so far
    hides       \* bound: pages left so far

vars == <<doc, page, saves, wire, cache, chosen, setBack, stamp, faults, hides>>
bounds == <<setBack, stamp, faults, hides>>

Blank == [c \in Controls |-> Default]

\* The hook's refs: the view on screen, the merge's baseline, what was queued
\* and saved last, whether the debounce runs, the save generation, and the
\* account read under way (what the view was when it began, what came back).
Closed == [is |-> "closed"]
\* clearing: the hook stays mounted and from now on does nothing.
Cleared == [is |-> "cleared"]
Hook(view, base, queued, saved) ==
    [is |-> "open", latest |-> view, baseline |-> base, lastQueued |-> queued,
     lastSaved |-> saved, timer |-> FALSE, generation |-> 0, before |-> None, got |-> None]

Init ==
    /\ doc = Blank
    /\ page = [p \in Pages |-> Closed]
    /\ saves = [p \in Pages |-> <<>>]
    /\ wire = {}
    /\ cache = [p \in Pages |-> None]
    /\ chosen = {} /\ setBack = FALSE
    /\ stamp = 0 /\ faults = 0 /\ hides = 0

Open(p) == page[p].is = "open"
Loading(p) == page[p].is = "loading"
AtWork(p) == Open(p) \/ Loading(p)

---------------------------------------------------------------------------
(* Merges.                                                                 *)

\* compactMonitorPreference: what a request carries of the two documents.
Changed(base, edited) == {c \in Controls : edited[c] # base[c]}

MergeWhole(current, base, edited) == edited
\* merge_monitor_preference: only what the edit changed goes on top of what
\* the account holds by now.
MergePreference(current, base, edited) ==
    [c \in Controls |-> IF c \in Changed(base, edited) THEN edited[c] ELSE current[c]]

ServerWins(saved, submitted, latest) == saved
\* mergeMonitorEdits: the edits made while the save was in flight stay.
MergeEdits(saved, submitted, latest) ==
    [c \in Controls |-> IF latest[c] = submitted[c] THEN saved[c] ELSE latest[c]]

---------------------------------------------------------------------------
(* The save chain of a page.                                               *)

\* saveMonitorView: a save is awaited by the persist of its generation, or
\* by the load (generation 0).
ForLoad == 0
Enqueue(p, save) == saves' = [saves EXCEPT ![p] = Append(@, save)]
Save(view, base, for) ==
    [view |-> view, base |-> base, for |-> for, at |-> "queued", saved |-> None]

Record(view, pending, base) == [view |-> view, pending |-> pending, base |-> base]

SendUnordered(p) ==
    \E i \in 1..Len(saves[p]) :
        LET s == saves[p][i]
        IN /\ s.at = "queued"
           /\ saves' = [saves EXCEPT ![p][i].at = "sent"]
           /\ cache' = [cache EXCEPT ![p] = Record(s.view, TRUE, s.base)]
           /\ wire' = wire \cup {[page |-> p, view |-> s.view, base |-> s.base, awaited |-> TRUE]}
           /\ UNCHANGED <<doc, page, chosen, bounds>>
\* persistMonitorView: the request goes out before the local record is written.
Send(p) ==
    /\ saves[p] # <<>>
    /\ LET s == Head(saves[p])
       IN /\ s.at = "queued"
          /\ saves' = [saves EXCEPT ![p][1].at = "sent"]
          /\ cache' = [cache EXCEPT ![p] = Record(s.view, TRUE, s.base)]
          /\ wire' = wire \cup {[page |-> p, view |-> s.view, base |-> s.base, awaited |-> TRUE]}
    /\ UNCHANGED <<doc, page, chosen, bounds>>

\* account_preference with a baseline, in the store's transaction.
Put(r) ==
    /\ r \in wire
    /\ doc' = MergePreference(doc, r.base, r.view)
    /\ wire' = wire \ {r}
    /\ saves' = IF r.awaited
                 THEN [saves EXCEPT ![r.page][1] = [@ EXCEPT !.at = "answered", !.saved = doc']]
                 ELSE saves
    /\ UNCHANGED <<page, cache, chosen, bounds>>

\* The request is lost, or only its answer.
PutLost(r, executed) ==
    /\ r \in wire /\ faults < MaxFaults
    /\ faults' = faults + 1
    /\ doc' = IF executed THEN MergePreference(doc, r.base, r.view) ELSE doc
    /\ wire' = wire \ {r}
    /\ saves' = IF r.awaited THEN [saves EXCEPT ![r.page][1].at = "failed"] ELSE saves
    /\ UNCHANGED <<page, cache, chosen, setBack, stamp, hides>>

\* The hook ignores the outcome of a save that a later one has replaced.
Current(p, s) == s.for # ForLoad /\ s.for = page[p].generation

\* What the hook makes of an answered save (persist, load and refresh).
Settled(p, s, saved) ==
    CASE s.for = ForLoad -> Hook(saved, saved, saved, saved)
      [] Current(p, s) ->
           [page[p] EXCEPT !.baseline = saved, !.lastQueued = saved, !.lastSaved = saved,
                           !.latest = MergeEdits(saved, s.view, @),
                           !.timer = @ \/ MergeEdits(saved, s.view, page[p].latest) # saved]
      [] OTHER -> page[p]

Answer(p) ==
    /\ saves[p] # <<>>
    /\ LET s == Head(saves[p])
       IN /\ s.at = "answered"
          /\ cache' = [cache EXCEPT ![p] = Record(s.saved, FALSE, s.saved)]
          /\ page' = [page EXCEPT ![p] = Settled(p, s, s.saved)]
    /\ saves' = [saves EXCEPT ![p] = Tail(@)]
    /\ UNCHANGED <<doc, wire, chosen, bounds>>

FailedForgotten(p, s) ==
    IF s.for = ForLoad THEN Hook(s.view, s.base, None, s.base) ELSE page[p]
\* A failed save stays pending in the cache; the hook will queue it again.
Failed(p, s) ==
    CASE s.for = ForLoad -> [Hook(s.view, s.base, None, s.base) EXCEPT !.timer = TRUE]
      [] Current(p, s) ->
           [page[p] EXCEPT !.lastQueued = IF @ = s.view THEN None ELSE @]
      [] OTHER -> page[p]

Fail(p) ==
    /\ saves[p] # <<>>
    /\ LET s == Head(saves[p])
       IN /\ s.at = "failed"
          /\ page' = [page EXCEPT ![p] = Failed(p, s)]
    /\ saves' = [saves EXCEPT ![p] = Tail(@)]
    /\ UNCHANGED <<doc, wire, cache, chosen, bounds>>

---------------------------------------------------------------------------
(* The hook.                                                               *)

\* loadMonitorView at mount: an unsaved edit of an earlier page is saved
\* first, else the account is read.
Load(p) ==
    /\ page[p] = Closed
    /\ page' = [page EXCEPT ![p] = [is |-> "loading", got |-> None]]
    /\ IF cache[p] # None /\ cache[p].pending
         THEN Enqueue(p, Save(cache[p].view, cache[p].base, ForLoad))
         ELSE UNCHANGED saves
    /\ UNCHANGED <<doc, wire, cache, chosen, bounds>>

\* The account service answers a read, of a load or of a refresh.
Read(p) ==
    /\ \/ Loading(p) /\ saves[p] = <<>>
       \/ Open(p) /\ page[p].before # None
    /\ page[p].got = None
    /\ page' = [page EXCEPT ![p].got = doc]
    /\ UNCHANGED <<doc, saves, wire, cache, chosen, bounds>>

Loaded(p) ==
    /\ Loading(p) /\ page[p].got # None
    /\ page' = [page EXCEPT ![p] = LET view == page[p].got
                                   IN Hook(view, view, view, view)]
    /\ UNCHANGED <<doc, saves, wire, cache, chosen, bounds>>

\* A failed read falls back to the private cache, if there is one; a load
\* without it shows an error and is retried by the user, a refresh is skipped.
ReadFails(p) ==
    /\ faults < MaxFaults
    /\ AtWork(p) /\ page[p].got = None
    /\ Loading(p) => saves[p] = <<>>
    /\ Open(p) => page[p].before # None
    /\ page' = [page EXCEPT ![p] =
         IF Open(p) THEN [@ EXCEPT !.before = None]
         ELSE IF cache[p] = None THEN @
         ELSE Hook(cache[p].view, cache[p].view, cache[p].view, cache[p].view)]
    /\ faults' = faults + 1
    /\ UNCHANGED <<doc, saves, wire, cache, chosen, setBack, stamp, hides>>

\* setView: the edit is in the ref before React renders it.
Choose(p, c) ==
    /\ Open(p)
    /\ stamp < MaxChoices
    /\ stamp' = stamp + 1
    /\ chosen' = chosen \cup {[browser |-> p, control |-> c, setting |-> stamp + 1]}
    /\ page' = [page EXCEPT ![p].latest[c] = stamp + 1, ![p].timer = TRUE]
    /\ UNCHANGED <<doc, saves, wire, cache, setBack, faults, hides>>

\* setView with a setting that the control had before: one the page may take
\* for no change at all, or for what it is reading.
SetBack(p, c) ==
    /\ Open(p)
    /\ stamp < MaxChoices /\ stamp' = stamp + 1
    /\ \E s \in {Default} \cup {a.setting : a \in {b \in chosen : b.control = c}} :
         /\ s # page[p].latest[c]
         /\ page' = [page EXCEPT ![p].latest[c] = s, ![p].timer = TRUE]
    /\ setBack' = TRUE
    /\ UNCHANGED <<doc, saves, wire, cache, chosen, faults, hides>>

\* persist.
Persisted(p) ==
    LET h == page[p]
        next == [h EXCEPT !.timer = FALSE, !.lastQueued = h.latest, !.generation = @ + 1]
    IN IF h.latest = h.lastQueued
         THEN page' = [page EXCEPT ![p].timer = FALSE] /\ UNCHANGED saves
         ELSE /\ page' = [page EXCEPT ![p] = next]
              /\ Enqueue(p, Save(h.latest, h.baseline, next.generation))

\* The debounce runs out, or the page is hidden and flushes it.
Persist(p) ==
    /\ Open(p) /\ page[p].timer
    /\ Persisted(p)
    /\ UNCHANGED <<doc, wire, cache, chosen, bounds>>

\* refresh, every 5 seconds and on focus: it queues what a failed save left,
\* or reads the account once no save is under way.
Refresh(p) ==
    /\ Open(p) /\ page[p].before = None
    /\ IF page[p].latest # page[p].lastSaved
         THEN page[p].lastQueued = None /\ Persisted(p)
         ELSE /\ saves[p] = <<>>
              /\ page' = [page EXCEPT ![p].before = page[p].latest]
              /\ UNCHANGED saves
    /\ UNCHANGED <<doc, wire, cache, chosen, bounds>>

\* A read that an edit has overtaken is dropped.
Applied(h) ==
    IF h.latest # h.before THEN [h EXCEPT !.before = None, !.got = None]
    ELSE [h EXCEPT !.before = None, !.got = None, !.latest = h.got, !.lastQueued = h.got,
                   !.lastSaved = h.got, !.baseline = h.got]

Refreshed(p) ==
    /\ Open(p) /\ page[p].got # None
    /\ page' = [page EXCEPT ![p] = Applied(page[p])]
    /\ UNCHANGED <<doc, saves, wire, cache, chosen, bounds>>

\* What nobody waits for any more may still reach the account service.
Orphaned(p) ==
    {IF r.page = p THEN [r EXCEPT !.awaited = FALSE] ELSE r : r \in wire}

\* pagehide with flushMonitorView: the saves under way are aborted and the
\* newest view goes out with keepalive; the page may end before the cache
\* record is written.
Hide(p, cached) ==
    /\ AtWork(p) /\ hides < MaxHides
    /\ hides' = hides + 1
    /\ IF Open(p) /\ page[p].latest # page[p].lastSaved
         THEN /\ wire' = Orphaned(p) \cup {[page |-> p, view |-> page[p].latest,
                                           base |-> page[p].baseline, awaited |-> FALSE]}
              /\ cache' = IF cached THEN [cache EXCEPT ![p] =
                              Record(page[p].latest, TRUE, page[p].baseline)] ELSE cache
         ELSE ~cached /\ wire' = Orphaned(p) /\ UNCHANGED cache
    /\ page' = [page EXCEPT ![p] = Closed]
    /\ saves' = [saves EXCEPT ![p] = <<>>]
    /\ UNCHANGED <<doc, chosen, setBack, stamp, faults>>

\* clearPrivateRuntimeState: saves are aborted, the record deleted, and a
\* page that stays mounted ignores its user and the account from then on.
Clear(p) ==
    /\ AtWork(p) /\ hides < MaxHides
    /\ hides' = hides + 1
    /\ wire' = Orphaned(p)
    /\ cache' = [cache EXCEPT ![p] = None]
    /\ page' = [page EXCEPT ![p] = Cleared]
    /\ saves' = [saves EXCEPT ![p] = <<>>]
    /\ UNCHANGED <<doc, chosen, setBack, stamp, faults>>

\* It is unmounted or reloaded: a hook of its own starts over.
Unmount(p) ==
    /\ page[p] = Cleared
    /\ page' = [page EXCEPT ![p] = Closed]
    /\ UNCHANGED <<doc, saves, wire, cache, chosen, bounds>>

---------------------------------------------------------------------------
PageStep(p) ==
    \/ Send(p) \/ Answer(p) \/ Fail(p) \/ Load(p) \/ Read(p) \/ Loaded(p)
    \/ Persist(p) \/ Refresh(p) \/ Refreshed(p)

Step ==
    \/ \E p \in Pages :
         \/ PageStep(p)
         \/ ReadFails(p)
         \/ \E c \in Controls : Choose(p, c)
         \/ \E cached \in BOOLEAN : Hide(p, cached)
         \/ Clear(p) \/ Unmount(p)
    \/ \E r \in wire :
         \/ Put(r)
         \/ \E executed \in BOOLEAN : PutLost(r, executed)

Next ==
    \/ Step
    \/ \E p \in Pages, c \in Controls : SetBack(p, c)

Spec == Init /\ [][Next]_vars
\* Timers fire, requests are answered or time out, polls go on.
FairSpec ==
    /\ Spec
    /\ \A p \in Pages : WF_vars(PageStep(p))
    /\ WF_vars(\E r \in wire : Put(r))

---------------------------------------------------------------------------
(* The invariant: what the pages, their saves, the requests and the caches *)
(* hold, while no control was set back.                                     *)

\* The page itself chose this setting.
Mine(p, c, s) == [browser |-> p, control |-> c, setting |-> s] \in chosen
Edits(p, view, base) == \A c \in Controls : view[c] # base[c] => Mine(p, c, view[c])

Known == [Controls -> 0..stamp]
OpenPage == [is : {"open"}, latest : Known, baseline : Known,
             lastQueued : Known \cup {None}, lastSaved : Known, timer : BOOLEAN,
             generation : Nat, before : Known \cup {None}, got : Known \cup {None}]
LoadingPage == [is : {"loading"}, got : Known \cup {None}]
SaveRow == [view : Known, base : Known, for : Nat, saved : Known \cup {None},
            at : {"queued", "sent", "answered", "failed"}]
Request == [page : Pages, view : Known, base : Known, awaited : BOOLEAN]
CacheRow == [view : Known, pending : BOOLEAN, base : Known]

TypeOK ==
    /\ stamp \in 0..MaxChoices
    /\ doc \in Known
    /\ page \in [Pages -> OpenPage \cup LoadingPage \cup {Closed, Cleared}]
    /\ saves \in [Pages -> Seq(SaveRow)]
    /\ wire \subseteq Request
    /\ cache \in [Pages -> CacheRow \cup {None}]
    /\ chosen \subseteq [browser : Pages, control : Controls, setting : 1..stamp]

\* Whatever travels in a page's name differs from its base, and only by
\* settings chosen on that page: a save, a record in the cache, a request.
SavesMine(p) ==
    \A i \in DOMAIN saves[p] :
        LET s == saves[p][i] IN Edits(p, s.view, s.base) /\ s.view # s.base
CacheMine(p) ==
    cache[p] # None => /\ Edits(p, cache[p].view, cache[p].base)
                       /\ cache[p].pending => cache[p].view # cache[p].base
WireMine == \A r \in wire : Edits(r.page, r.view, r.base)

\* A page's saves are answered one after the other; each is of another
\* generation, and only a loading page has one of the load.
SavesInOrder(p) ==
    /\ ~AtWork(p) => saves[p] = <<>>
    /\ Loading(p) /\ saves[p] # <<>> =>
         page[p].got = None /\ Len(saves[p]) = 1 /\ saves[p][1].for = ForLoad
    /\ \A i \in DOMAIN saves[p] :
         /\ i > 1 => saves[p][i].at = "queued"
         /\ saves[p][i].at = "answered" => saves[p][i].saved \in Known
         /\ Open(p) => saves[p][i].for \in 1..page[p].generation
         /\ \A j \in DOMAIN saves[p] : saves[p][i].for = saves[p][j].for => i = j

\* What the view adds to the baseline, and to a save the hook still waits
\* for, is the page's own; a view that equals what was saved or read waits
\* for no save.
HookIsSound(p) ==
    Open(p) =>
        LET h == page[p]
        IN /\ h.baseline = h.lastSaved
           /\ Edits(p, h.latest, h.baseline)
           /\ h.latest = h.lastSaved => h.lastQueued = h.latest
           /\ h.got # None => h.before # None
           /\ h.before # None /\ h.latest = h.before => h.latest = h.lastSaved
           /\ \A i \in DOMAIN saves[p] :
                LET s == saves[p][i]
                IN Current(p, s) =>
                     /\ h.latest # h.lastSaved
                     /\ Edits(p, h.latest, s.view)
                     /\ h.before # None => \A c \in Controls :
                          h.latest[c] # s.view[c] => h.latest[c] # h.before[c]

PageInv(p) == SavesMine(p) /\ CacheMine(p) /\ SavesInOrder(p) /\ HookIsSound(p)
PreferenceInv == TypeOK /\ WireMine /\ \A p \in Pages : PageInv(p)

---------------------------------------------------------------------------
(* The order of a page's own choices, while nobody has left a page: stated  *)
(* for the page's choices M, its hook h, its saves ss and the account's     *)
(* document d.                                                              *)

ChosenBy(p) == {<<a.control, a.setting>> : a \in {b \in chosen : b.browser = p}}

\* From one document to another no control goes back to an older choice.
ForwardAt(M, c, x, y) == <<c, x[c]>> \in M /\ <<c, y[c]>> \in M => x[c] <= y[c]
Forward(M, x, y) == \A c \in Controls : ForwardAt(M, c, x, y)

\* What the hook has of the account from before.
Past(h) == {h.baseline} \cup ({h.before, h.got} \ {None})

\* Saves are of the baseline, and the hook waits for the newest one.
SavesOfBaseline(h, ss) ==
    /\ \A i \in DOMAIN ss : ss[i].base = h.baseline
    /\ ss # <<>> => ss[Len(ss)].for = h.generation

\* What is newer holds no older choice: the account than what was read of it,
\* a save than both where it changes something, its answer, the view.
AccountForward(M, h, d) ==
    /\ \A x \in Past(h) : Forward(M, x, d) /\ Forward(M, x, h.latest)
    /\ Forward(M, d, h.latest)
    /\ h.got # None => Forward(M, h.before, h.got)
SavesForward(M, h, ss, d) ==
    \A i \in DOMAIN ss :
        /\ Forward(M, ss[i].view, h.latest)
        /\ \A j \in DOMAIN ss : j < i => Forward(M, ss[j].view, ss[i].view)
        /\ \A c \in Changed(ss[i].base, ss[i].view), x \in Past(h) \cup {d} :
             ForwardAt(M, c, x, ss[i].view)
AnswerForward(M, h, ss, d) ==
    ss # <<>> /\ ss[1].at = "answered" =>
        /\ \A x \in Past(h) \cup {d} : Forward(M, x, ss[1].saved)
        /\ Forward(M, ss[1].saved, d) /\ Forward(M, ss[1].saved, h.latest)
        /\ \A c \in Changed(ss[1].base, ss[1].view) : ss[1].saved[c] = ss[1].view[c]

\* An edit since a read began shows: the view is not what it was, and the
\* account has nothing newer of this page than what was read.
ReadOvertaken(M, h, ss, d) ==
    h.before # None =>
        /\ \A c \in Changed(h.baseline, h.latest) : h.latest[c] # h.before[c]
        /\ \A i \in DOMAIN ss :
             \A c \in Changed(ss[i].base, ss[i].view) : ss[i].view[c] # h.before[c]
        /\ h.got # None /\ h.latest = h.before => Forward(M, d, h.got)

OrderKept(M, h, ss, d) ==
    /\ SavesOfBaseline(h, ss) /\ AccountForward(M, h, d) /\ SavesForward(M, h, ss, d)
    /\ AnswerForward(M, h, ss, d) /\ ReadOvertaken(M, h, ss, d)

\* The only request of a page is that of its oldest save.
RequestOfHead(p) ==
    \A r \in wire : r.page = p =>
        /\ r.awaited /\ saves[p] # <<>> /\ saves[p][1].at = "sent"
        /\ r.view = saves[p][1].view /\ r.base = saves[p][1].base

\* A stamp is one choice; who has not opened the page has chosen nothing.
ChoicesKnown ==
    /\ \A a, b \in chosen : a.setting = b.setting => a = b
    /\ hides = 0 => \A p \in Pages : ~Open(p) =>
         saves[p] = <<>> /\ cache[p] = None /\ ChosenBy(p) = {}

OrderInv ==
    /\ hides \in Nat /\ ChoicesKnown
    /\ hides = 0 => \A p \in Pages :
         RequestOfHead(p) /\ (Open(p) => OrderKept(ChosenBy(p), page[p], saves[p], doc))

---------------------------------------------------------------------------
(* Properties.                                                             *)

\* The account's document obeys PreferenceStore: no page ever puts back a
\* setting that was chosen elsewhere (merge_monitor_preference's promise, and
\* the reason for the baselines kept by the hook), as long as no control was
\* set back: a view that is again what it was when a read began takes over
\* what was read although a save is under way (useMonitorPreferences.ts:111).
Store == INSTANCE PreferenceStore WITH Browsers <- Pages
PreferencesStore ==
    /\ Store!Init
    /\ [][~setBack' => Store!Next]_<<doc, chosen>>

\* On a page nobody has left, a control the user has set never falls back to
\* an older choice of the same user, whatever is answered in whatever order
\* (saveGeneration, mergeMonitorEdits and refresh's check), as long as no
\* control was set back: one put back to the baseline while it is saved
\* changes nothing in the next save (compactMonitorPreference), whose answer
\* brings back what the user undid. Leaving a page gives it up, too: the save
\* it aborts may still be executed, after the newer one pagehide sent.
NeverFallsBack ==
    [][\A p \in Pages, c \in Controls :
         (/\ hides = 0 /\ ~setBack' /\ Open(p) /\ page'[p].is = "open"
          /\ Mine(p, c, page[p].latest[c]) /\ Mine(p, c, page'[p].latest[c]))
         => page'[p].latest[c] >= page[p].latest[c]]_vars

\* Once the users stop, every open page shows the account's document, but for
\* one whose private state was cleared while it stayed mounted.
Converges == <>[](\A p \in Pages : Open(p) => page[p].latest = doc)
=============================================================================
