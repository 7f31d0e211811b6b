---------------------------- MODULE ArchivePage ----------------------------
(* The NVR timeline page: the camera selection and the timeline query bound *)
(* to it (web/src/useNvrArchiveQuery.ts), the playback leases that protect  *)
(* the segments under the cursor from retention, and the deletion of the    *)
(* segment being shown, which must first hand the page's own leases back    *)
(* (web/src/NvrTimeline.tsx; nvr/nvr_service.py keeps leases and segments). *)
(* Each camera has one segment, named as the camera; a cursor lies over the *)
(* segments of Covers[cursor]. The day is one more part of the selection,   *)
(* which only the user changes, as the cameras, and is left out.            *)
EXTENDS Naturals, FiniteSets, Sequences

CONSTANTS
    Camera,     \* cameras, each with one segment
    Cursor,     \* positions on the day
    Covers,     \* the segments under each position
    Lease,      \* lease ids the service may give
    Life,       \* the 40 seconds of a lease, in periods of its 20-second renewal
    MaxMoves,   \* bound: what the user, or the configuration, does
    MaxFaults,  \* bound: requests or answers lost, timed out or refused
    None

VARIABLES
    kept,       \* segments: those not deleted
    leases,     \* playback_leases: lease id -> its segment and the time left
    configured, \* the cameras nvr/status lists
    page,       \* the page's state
    queries,    \* timeline queries on their way, aborted ones too
    holders,    \* the runs of the lease effect, the newest one last
    late,       \* deletions the page gave up, which may still arrive
    lost,       \* history: leases whose id, or whose release, was lost
    moves, faults

vars == <<kept, leases, configured, page, queries, holders, late, lost, moves, faults>>
service == <<kept, leases, lost>>
bounds == <<moves, faults>>

\* A run of the effect. round: the segments asked for, the leases got, whether
\* all were got, and what the settled round still gives back; giving: what
\* stop() still gives back; awaited: a deletion waits for its stop(). sure is
\* history: the last round protected all and the page was visible ever since.
NewHolder(key, deleting) ==
    [key |-> key, deleting |-> deleting, closed |-> FALSE, ids |-> {}, round |-> None,
     giving |-> {}, awaited |-> FALSE, sure |-> FALSE]

\* The selection the result was asked for, its query, loading, its document.
NewResult == [selection |-> {}, query |-> 0, loading |-> FALSE, document |-> {}]
NewPage ==
    [on |-> TRUE, visible |-> TRUE, selection |-> {}, started |-> FALSE, listing |-> TRUE,
     result |-> NewResult,
     query |-> 0, cursor |-> CHOOSE c \in Cursor : TRUE, action |-> None, deleting |-> FALSE]

Init ==
    /\ kept = Camera /\ configured = Camera
    /\ leases = [l \in {} |-> None]
    /\ page = NewPage
    /\ queries = {}
    /\ holders = <<NewHolder({}, FALSE)>>
    /\ late = {} /\ lost = {}
    /\ moves = 0 /\ faults = 0

\* timeline: nothing unless the result is of the very selection.
Timeline(p) ==
    IF p.result.selection = p.selection /\ ~p.result.loading THEN p.result.document ELSE {}
\* active: what is under the cursor, and with it activeSegmentKey.
Key(p) == Timeline(p) \cap Covers[p.cursor]
IsBusy(p) == p.action # None
---------------------------------------------------------------------------
(* The lease effect.                                                       *)

Newest == holders[Len(holders)]
Held(h) == h.ids \cup h.giving \cup (IF h.round = None THEN {} ELSE h.round.got \cup h.round.giving)
Finished(h) == h.closed /\ h.round = None /\ Held(h) = {}

\* renew.
Renewed(h, visible) ==
    IF h.closed \/ h.round # None \/ h.deleting \/ h.key = {} \/ ~visible THEN h
    ELSE [h EXCEPT !.round = [asked |-> h.key, got |-> {}, all |-> TRUE,
                              settled |-> FALSE, giving |-> {}]]

\* As Settled, a closed run keeping what it got.
SettledOpen(h, visible) ==
    IF h.round = None \/ (h.round # None /\ (h.round.settled \/ h.round.asked # {})) THEN h
    ELSE IF ~visible
         THEN [h EXCEPT !.round.settled = TRUE, !.round.giving = h.round.got, !.round.got = {}]
         ELSE [h EXCEPT !.ids = h.round.got, !.sure = h.round.all, !.round.got = {},
                        !.round.settled = TRUE, !.round.giving = IF h.closed THEN {} ELSE h.ids]

\* Every lease of the round was answered: a stopped or hidden page gives the
\* new ones back, another gives back those it had.
Settled(h, visible) ==
    IF h.round = None \/ (h.round # None /\ (h.round.settled \/ h.round.asked # {})) THEN h
    ELSE IF h.closed \/ ~visible
         THEN [h EXCEPT !.round.settled = TRUE, !.round.giving = h.round.got, !.round.got = {}]
         ELSE [h EXCEPT !.ids = h.round.got, !.sure = h.round.all, !.round.got = {},
                        !.round.settled = TRUE, !.round.giving = h.ids]

\* As RoundEnded, a round that did not get everything left "in flight".
RoundEndedWell(h) ==
    IF h.round # None /\ (h.round # None => h.round.settled /\ h.round.all /\ h.round.giving = {})
    THEN [h EXCEPT !.round = None] ELSE h

\* inFlight is cleared once what the round gives back is gone.
RoundEnded(h) ==
    IF h.round # None /\ (h.round # None => h.round.settled /\ h.round.giving = {})
    THEN [h EXCEPT !.round = None] ELSE h

\* stop, once the round on its way has ended.
Stopped(h) ==
    IF h.closed /\ h.round = None THEN [h EXCEPT !.giving = @ \cup h.ids, !.ids = {}] ELSE h

Advance(h, visible) == Stopped(RoundEnded(Settled(h, visible)))
Close(h) == Stopped([h EXCEPT !.closed = TRUE])

\* A render with other segments under the cursor, or a deletion begun or
\* ended, runs the effect anew.
Effects(hs, p) ==
    LET last == hs[Len(hs)]
    IN IF ~p.on THEN [hs EXCEPT ![Len(hs)] = Close(@)]
       ELSE IF last.key = Key(p) /\ last.deleting = p.deleting THEN hs
       ELSE Append([hs EXCEPT ![Len(hs)] = Close(@)],
                   Renewed(NewHolder(Key(p), p.deleting), p.visible))
Render(p) == page' = p /\ holders' = Effects(holders, p)
---------------------------------------------------------------------------
(* The queries.                                                            *)

\* As Reloaded, the query before it left valid.
ReloadedBeside(p) == queries

\* reload: the query before it is aborted; nothing is asked for no camera.
Reloaded(p) == {[q EXCEPT !.live = FALSE] : q \in queries}

reload(p) ==
    [p EXCEPT !.query = @ + 1,
              !.result = [selection |-> p.selection, query |-> p.query + 1,
                          loading |-> p.selection # {}, document |-> {}]]
Asked(p) ==
    Reloaded(p) \cup (IF p.selection = {} THEN {}
                     ELSE {[number |-> p.query + 1, selection |-> p.selection,
                            live |-> TRUE, document |-> None]})
\* p with a reload, which a changed selection brings about by itself.
Reload(p) == queries' = Asked(p) /\ Render(reload(p))

Serve(q) ==
    /\ q \in queries /\ q.document = None
    /\ queries' = (queries \ {q}) \cup {[q EXCEPT !.document = q.selection \cap kept]}
    /\ UNCHANGED <<service, configured, page, holders, late, bounds>>

Answer(q) ==
    /\ q \in queries /\ q.document # None
    /\ queries' = queries \ {q}
    /\ IF q.live /\ page.on
       THEN Render([page EXCEPT !.result = [selection |-> q.selection, query |-> q.number,
                                            loading |-> FALSE, document |-> q.document]])
       ELSE UNCHANGED <<page, holders>>
    /\ UNCHANGED <<service, configured, late, bounds>>

QueryFails(q) ==
    /\ q \in queries /\ faults < MaxFaults
    /\ faults' = faults + 1
    /\ queries' = queries \ {q}
    /\ IF q.live /\ page.on
       THEN Render([page EXCEPT !.result.loading = FALSE])
       ELSE UNCHANGED <<page, holders>>
    /\ UNCHANGED <<service, configured, late, moves>>

\* reloadCatalog: the list of cameras, then the selection.
Chosen(p) == IF p.started THEN p.selection \cap configured ELSE configured
CatalogAnswered ==
    /\ page.on /\ page.listing
    /\ LET p == [page EXCEPT !.listing = FALSE, !.started = TRUE, !.selection = Chosen(page)]
       IN IF p.selection = page.selection THEN Render(p) /\ UNCHANGED queries ELSE Reload(p)
    /\ UNCHANGED <<service, configured, late, bounds>>

CatalogFails ==
    /\ page.on /\ page.listing /\ faults < MaxFaults
    /\ faults' = faults + 1
    /\ page' = [page EXCEPT !.listing = FALSE]
    /\ UNCHANGED <<service, configured, queries, holders, late, moves>>
---------------------------------------------------------------------------
(* The user.                                                               *)

Moves == page.on /\ moves < MaxMoves /\ moves' = moves + 1

Toggle(c) ==
    /\ Moves /\ page.started /\ ~IsBusy(page)
    /\ Reload([page EXCEPT !.selection = IF c \in @ THEN @ \ {c} ELSE @ \cup {c}])
    /\ UNCHANGED <<service, configured, late, faults>>

Seek(c) ==
    /\ Moves /\ ~IsBusy(page) /\ c # page.cursor /\ ~page.result.loading
    /\ Render([page EXCEPT !.cursor = c])
    /\ UNCHANGED <<service, configured, queries, late, faults>>

RefreshAll ==
    /\ Moves /\ ~IsBusy(page) /\ ~page.listing /\ ~page.result.loading
    /\ Reload([page EXCEPT !.listing = TRUE])
    /\ UNCHANGED <<service, configured, late, faults>>

Hide ==
    /\ Moves /\ page.visible
    /\ page' = [page EXCEPT !.visible = FALSE]
    /\ holders' = [holders EXCEPT ![Len(holders)].sure = FALSE]
    /\ UNCHANGED <<service, configured, queries, late, faults>>

Show ==
    /\ page.on /\ ~page.visible
    /\ page' = [page EXCEPT !.visible = TRUE]
    /\ holders' = [holders EXCEPT ![Len(holders)] = Renewed(@, TRUE)]
    /\ UNCHANGED <<service, configured, queries, late, bounds>>

\* The page is left: its queries and its action are aborted, its leases given back.
Leave ==
    /\ Moves
    /\ LET p == [page EXCEPT !.on = FALSE, !.action = None, !.listing = FALSE]
       IN Render(p)
    /\ queries' = {}
    /\ late' = IF IsBusy(page) /\ page.action.stage = "sent" THEN late \cup {page.action.segment} ELSE late
    /\ UNCHANGED <<service, configured, faults>>

Reconfigure(c) ==
    /\ Moves /\ c \in configured
    /\ configured' = configured \ {c}
    /\ UNCHANGED <<service, page, queries, holders, late, faults>>
---------------------------------------------------------------------------
(* Leases.                                                                 *)

\* What run i has become.
HolderIs(i, h) == holders' = [holders EXCEPT ![i] = Advance(h, page.visible)]
Asks(i, s) == holders[i].round # None /\ s \in holders[i].round.asked
Giving(h) == h.giving \cup (IF h.round = None THEN {} ELSE h.round.giving)
Fresh == Lease \ (DOMAIN leases \cup UNION {Held(holders[i]) : i \in 1..Len(holders)})
NewLease == CHOOSE l \in Fresh : TRUE
Given(l, s) == [k \in DOMAIN leases \cup {l} |->
                  IF k = l THEN [segment |-> s, left |-> Life] ELSE leases[k]]
Without(ls) == [k \in DOMAIN leases \ ls |-> leases[k]]

create_playback_lease(i, s) ==
    /\ Asks(i, s) /\ s \in kept /\ Fresh # {}
    /\ leases' = Given(NewLease, s)
    /\ HolderIs(i, [holders[i] EXCEPT !.round.asked = @ \ {s}, !.round.got = @ \cup {NewLease}])
    /\ lost' = lost \ {NewLease}
    /\ UNCHANGED <<kept, configured, page, queries, late, bounds>>

Unanswered(i, s) == HolderIs(i, [holders[i] EXCEPT !.round.asked = @ \ {s}, !.round.all = FALSE])

\* The segment is gone.
LeaseRefused(i, s) ==
    /\ Asks(i, s) /\ s \notin kept
    /\ Unanswered(i, s)
    /\ UNCHANGED <<service, configured, page, queries, late, bounds>>

\* Eight seconds pass, and the lease was or was not given.
LeaseFails(i, s) ==
    /\ Asks(i, s) /\ faults < MaxFaults
    /\ faults' = faults + 1
    /\ Unanswered(i, s)
    /\ \/ UNCHANGED <<leases, lost>>
       \/ /\ s \in kept
          /\ Fresh # {}
          /\ leases' = Given(NewLease, s) /\ lost' = lost \cup {NewLease}
    /\ UNCHANGED <<kept, configured, page, queries, late, moves>>

Relinquishes(i, l) ==
    HolderIs(i, IF l \in holders[i].giving THEN [holders[i] EXCEPT !.giving = @ \ {l}]
                ELSE [holders[i] EXCEPT !.round.giving = @ \ {l}])

release_playback_lease(i, l) ==
    /\ l \in Giving(holders[i])
    /\ leases' = Without({l})
    /\ Relinquishes(i, l)
    /\ UNCHANGED <<kept, lost, configured, page, queries, late, bounds>>

ReleaseFails(i, l) ==
    /\ l \in Giving(holders[i]) /\ faults < MaxFaults
    /\ faults' = faults + 1
    /\ Relinquishes(i, l)
    /\ lost' = IF l \in DOMAIN leases THEN lost \cup {l} ELSE lost
    /\ UNCHANGED <<kept, leases, configured, page, queries, late, moves>>

\* As Tick, the timer firing too late to renew.
TickOnly ==
    /\ \A i \in 1..Len(holders) : holders[i].round = None /\ holders[i].giving = {}
    /\ leases' = [l \in {k \in DOMAIN leases : leases[k].left > 1} |->
                    [leases[l] EXCEPT !.left = @ - 1]]
    /\ lost' = lost \cap DOMAIN leases'
    /\ UNCHANGED <<kept, configured, page, queries, holders, late, bounds>>

\* Twenty seconds: what was asked or given back (at most 8 + 8 seconds) has
\* ended before the timer that starts the next round; _expire_playback_leases forgets what is over.
Tick ==
    /\ \A i \in 1..Len(holders) : holders[i].round = None /\ holders[i].giving = {}
    /\ leases' = [l \in {k \in DOMAIN leases : leases[k].left > 1} |->
                    [leases[l] EXCEPT !.left = @ - 1]]
    /\ lost' = lost \cap DOMAIN leases'
    /\ holders' = IF page.on THEN [holders EXCEPT ![Len(holders)] = Renewed(@, page.visible)]
                  ELSE holders
    /\ UNCHANGED <<kept, configured, page, queries, late, bounds>>

LeasesOf(s) == {l \in DOMAIN leases : leases[l].segment = s}
_segment_active(s) == LeasesOf(s) # {}

\* Retention, a migration or another browser's user: nobody here is asked.
Retain(s) ==
    /\ s \in kept /\ ~_segment_active(s)
    /\ kept' = kept \ {s}
    /\ UNCHANGED <<leases, lost, configured, page, queries, holders, late, bounds>>
---------------------------------------------------------------------------
(* Deleting the segment being shown.                                       *)

\* mutateSegment: the player is unmounted, the run of the effect stopped.
Delete(s) ==
    /\ Moves /\ ~IsBusy(page) /\ s \in Key(page)
    /\ page' = [page EXCEPT !.action = [segment |-> s, stage |-> "releasing", answer |-> None],
                            !.deleting = TRUE]
    /\ holders' = Effects([holders EXCEPT ![Len(holders)] = Close([@ EXCEPT !.awaited = TRUE])], page')
    /\ UNCHANGED <<service, configured, queries, late, faults>>

\* As Released, the stopped run still giving its leases back.
ReleasedAsked == \A i \in 1..Len(holders) : holders[i].awaited => holders[i].round = None

\* releaseLeases.current() has returned.
Released == \A i \in 1..Len(holders) : holders[i].awaited => Finished(holders[i])

SendDelete ==
    /\ IsBusy(page) /\ page.action.stage = "releasing" /\ Released
    /\ page' = [page EXCEPT !.action.stage = "sent"]
    /\ UNCHANGED <<service, configured, queries, holders, late, bounds>>

\* delete_segment: what the service does about it.
delete_segment(s) ==
    IF s \notin kept THEN "gone" ELSE IF _segment_active(s) THEN "conflict" ELSE "deleted"

Executes(s) == kept' = IF delete_segment(s) = "deleted" THEN kept \ {s} ELSE kept

ExecuteDelete ==
    /\ IsBusy(page) /\ page.action.stage = "sent" /\ page.action.answer = None
    /\ page' = [page EXCEPT !.action.answer = delete_segment(page.action.segment)]
    /\ Executes(page.action.segment)
    /\ UNCHANGED <<leases, lost, configured, queries, holders, late, bounds>>

\* As NotDeleting, leaving the players unmounted.
NotDeletingYet(p) == [p EXCEPT !.action = None]

\* The end of perform.
NotDeleting(p) == [p EXCEPT !.action = None, !.deleting = FALSE]

DeleteAnswered ==
    /\ IsBusy(page) /\ page.action.answer # None
    /\ IF page.action.answer = "deleted" THEN Reload(NotDeleting(page))
       ELSE Render(NotDeleting(page)) /\ UNCHANGED queries
    /\ UNCHANGED <<service, configured, late, bounds>>

\* Thirty-five seconds: the outcome is not known.
DeleteTimesOut ==
    /\ IsBusy(page) /\ page.action.stage = "sent" /\ faults < MaxFaults
    /\ faults' = faults + 1
    /\ late' = IF page.action.answer = None THEN late \cup {page.action.segment} ELSE late
    /\ Render(NotDeleting(page))
    /\ UNCHANGED <<service, configured, queries, moves>>

Arrives(s) ==
    /\ s \in late
    /\ late' = late \ {s}
    /\ Executes(s) \/ UNCHANGED kept
    /\ UNCHANGED <<leases, lost, configured, page, queries, holders, bounds>>
---------------------------------------------------------------------------

LeaseRequest(i) ==
    \/ \E s \in Camera : create_playback_lease(i, s) \/ LeaseRefused(i, s)
    \/ \E l \in Lease : release_playback_lease(i, l)
LeaseFault(i) ==
    \/ \E s \in Camera : LeaseFails(i, s)
    \/ \E l \in Lease : ReleaseFails(i, l)
QueryStep == \E q \in queries : Serve(q) \/ Answer(q)

Next ==
    \/ QueryStep \/ \E q \in queries : QueryFails(q)
    \/ CatalogAnswered \/ CatalogFails
    \/ RefreshAll \/ Hide \/ Show \/ Leave \/ Tick
    \/ SendDelete \/ ExecuteDelete \/ DeleteAnswered \/ DeleteTimesOut
    \/ \E i \in 1..Len(holders) : LeaseRequest(i) \/ LeaseFault(i)
    \/ \E c \in Camera : Toggle(c) \/ Reconfigure(c) \/ Retain(c) \/ Delete(c) \/ Arrives(c)
    \/ \E c \in Cursor : Seek(c)

\* The timers fire and every request ends, by its own limit at the latest.
Fairness ==
    /\ WF_vars(Tick) /\ WF_vars(QueryStep) /\ WF_vars(CatalogAnswered)
    /\ WF_vars(SendDelete \/ ExecuteDelete) /\ WF_vars(DeleteAnswered)
    /\ WF_vars(\E i \in 1..(Len(holders) - 1) : LeaseRequest(i))
    /\ WF_vars(LeaseRequest(Len(holders)))
Spec == Init /\ [][Next]_vars
FairSpec == Spec /\ Fairness
---------------------------------------------------------------------------
(* Properties.                                                             *)

Rounds == [asked : SUBSET Camera, got : SUBSET Lease, all : BOOLEAN, settled : BOOLEAN,
           giving : SUBSET Lease]
Runs   == [key : SUBSET Camera, deleting : BOOLEAN, closed : BOOLEAN, ids : SUBSET Lease,
           round : Rounds \cup {None}, giving : SUBSET Lease, awaited : BOOLEAN, sure : BOOLEAN]
Results == [selection : SUBSET Camera, query : Nat, loading : BOOLEAN, document : SUBSET Camera]
Actions == [segment : Camera, stage : {"releasing", "sent"},
            answer : {None, "gone", "conflict", "deleted"}]
Screens == [on : BOOLEAN, visible : BOOLEAN, selection : SUBSET Camera, started : BOOLEAN,
            listing : BOOLEAN, result : Results, query : Nat, cursor : Cursor,
            action : Actions \cup {None}, deleting : BOOLEAN]
Queries == [number : Nat, selection : SUBSET Camera, live : BOOLEAN,
            document : (SUBSET Camera) \cup {None}]

\* Leases are of segments with time left; a deletion under way keeps the
\* players unmounted; each reload is one of the user's, of a list he asked
\* for or of a deletion.
Count(b) == IF b THEN 1 ELSE 0
TypeOK ==
    /\ kept \subseteq Camera /\ configured \subseteq Camera /\ late \subseteq Camera
    /\ \A l \in DOMAIN leases : l \in Lease /\ leases[l] \in [segment : Camera, left : 1..Life]
    /\ lost \subseteq Lease
    /\ page \in Screens /\ queries \subseteq Queries
    /\ IsBusy(page) <=> page.on /\ page.deleting
    /\ faults \in 0..MaxFaults /\ moves \in 0..MaxMoves
    /\ page.query + Count(page.listing) + Count(IsBusy(page)) <= 1 + 2 * moves

\* A query that still counts is the latest one, answers are of what was asked
\* for, and so is what the page keeps.
QueriesOK ==
    /\ \A q \in queries : /\ q.live => q.number = page.query
                          /\ q.document # None => q.document \subseteq q.selection
    /\ page.result.query = page.query /\ page.result.document \subseteq page.result.selection

\* A run asks for its segments, has leases that are neither to be given back
\* nor older than those of its round; if it is sure, each of its segments has
\* one that outlives the round to come.
Protects(ls, l, s, n) == l \in DOMAIN ls /\ ls[l].segment = s /\ ls[l].left >= n
RunSound(ls, visible, h) ==
    /\ h.round # None =>
         /\ IF h.round.settled THEN h.round.asked = {} /\ h.round.got = {} ELSE h.round.giving = {}
         /\ h.ids \cap (h.round.got \cup h.round.giving) = {} /\ ~h.deleting
    /\ ~h.closed =>
         /\ h.giving = {}
         /\ (h.round # None /\ ~h.round.settled /\ h.round.all) =>
              \A s \in h.key : s \in h.round.asked \/ \E l \in h.round.got : Protects(ls, l, s, Life)
         /\ h.sure =>
              /\ visible /\ ~h.deleting
              /\ \A s \in h.key : \E l \in h.ids :
                   Protects(ls, l, s, IF h.round = None \/ h.round.settled THEN Life ELSE Life - 1)

\* No lease is held by two runs; the last run is the open one, for what is
\* under the cursor, while the page is on.
Disjoint(hs) == \A i, j \in 1..Len(hs) : i # j => Held(hs[i]) \cap Held(hs[j]) = {}
NewestOpen(p, hs) ==
    /\ \A i \in 1..Len(hs) : i < Len(hs) \/ ~p.on => hs[i].closed
    /\ p.on => ~hs[Len(hs)].closed /\ hs[Len(hs)].key = Key(p) /\ hs[Len(hs)].deleting = p.deleting
RunsOK ==
    /\ holders \in Seq(Runs) /\ holders # <<>> /\ Disjoint(holders) /\ NewestOpen(page, holders)
    /\ \A i \in 1..Len(holders) : RunSound(leases, page.visible, holders[i])

\* A deletion is sent, and answered, when the stopped run holds nothing more.
ActionOK ==
    page.action # None /\ (page.action.stage = "sent" \/ page.action.answer # None) =>
        page.action.stage = "sent" /\ Released

\* What the page shows was answered to the latest query, of the selection
\* that is on the screen: neither another camera's media nor a segment listed
\* before the page's own deletion comes back (useNvrArchiveQuery.ts:21, 53-59).
ShownIsLatest ==
    (page.on /\ Timeline(page) # {}) =>
        page.result.query = page.query /\ Timeline(page) \subseteq page.selection

\* A lease the service still counts is held by a run of the effect that will
\* give it back, however selection, visibility and deletions cross the
\* requests: only one whose answer or release was lost waits for its 40
\* seconds (NvrTimeline.tsx:98, 105-109).
NoForgottenLease ==
    \A l \in DOMAIN leases : l \in lost \/ \E i \in 1..Len(holders) : l \in Held(holders[i])

\* Together they are inductive, and give the properties of this section.
WatchInv == TypeOK /\ QueriesOK /\ RunsOK /\ ActionOK /\ NoForgottenLease

\* While the page is visible and its last round protected all it shows,
\* nothing deletes what it shows, not even its own late deletion
\* (NvrTimeline.tsx:92-104; nvr_service.py:1563).
WatchedIsKept ==
    [][\A s \in kept \ kept' : ~(page.on /\ page.visible /\ Newest.sure /\ s \in Newest.key)]_vars

\* The page's deletion is not refused because of the lease of the run it has
\* stopped: only a lost lease, or an earlier run still giving back, may be in
\* its way (NvrTimeline.tsx:196).
OwnLeaseYields ==
    [][(page.action # None /\ page'.action # None /\ page'.action.answer = "conflict") =>
         \A l \in LeasesOf(page.action.segment) :
            l \in lost \/ \E i \in 1..Len(holders) : ~holders[i].awaited /\ l \in Held(holders[i])]_vars

\* A visible page that keeps showing segments which exist protects them in
\* the end, after failed rounds, hidden periods and refused deletions
\* (NvrTimeline.tsx:111-113, 189).
Watches == page.on /\ page.visible /\ ~page.deleting /\ Key(page) # {} /\ Key(page) \subseteq kept
ProtectsInTheEnd == []<>(~Watches \/ Newest.sure)
=============================================================================
