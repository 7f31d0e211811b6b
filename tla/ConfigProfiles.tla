--------------------------- MODULE ConfigProfiles ---------------------------
(***************************************************************************)
(* An account's configuration profiles (web/src/localRuntime.ts,           *)
(* ConfigProfiles.tsx, WorkspaceShell.tsx, App.tsx): the list and the      *)
(* selection are two documents of the account, read and written whole by   *)
(* the settings panel, the selector in the page's header and the Studio's  *)
(* save, each of which awaits the server between its steps. A write that   *)
(* fails is not reported to its caller; a read that fails falls back to    *)
(* this browser's cache. Another device of the account does the same.      *)
(*                                                                         *)
(* A profile is its version; 0 says that it does not exist.                *)
(***************************************************************************)
EXTENDS Integers, FiniteSets

CONSTANTS
    Profile,        \* identifiers
    None,
    MaxVersion,     \* bound: saves, of this browser and of the other device
    MaxActs,        \* bound: operations started in this browser
    MaxTrouble      \* bound: requests that fail and acts of the other device

Lanes == {"panel", "selector", "studio"}

VARIABLES
    account, cache,     \* the account's documents; this browser's copies
    op,                 \* what each lane is doing
    panel, shell,       \* the selections shown, and the reloads under way
    version, acts, trouble,
    made,               \* (history) what the last write of each profile made of it
    overwritten,        \* (history) profiles lost to a write based on an older list
    stale, crossed      \* (history) a read failed or another device wrote; a
                        \* profile was selected while it was being deleted
hist == <<made, overwritten, stale, crossed>>
vars == <<account, cache, op, panel, shell, version, acts, trouble, hist>>

Nothing == [p \in Profile |-> 0]
Idle == [do |-> "idle"]
Has(list, id) == id # None /\ list[id] # 0
Effective(active, list) == IF Has(list, active) THEN active ELSE None

Init ==
    /\ account = [list |-> Nothing, active |-> None] /\ cache = account
    /\ op = [l \in Lanes |-> Idle]
    /\ panel = [selected |-> None, reloads |-> {}]
    /\ shell = [selected |-> None, reloads |-> {}]
    /\ version = 0 /\ acts = 0 /\ trouble = 0
    /\ made = Nothing /\ overwritten = {} /\ stale = FALSE /\ crossed = FALSE

-----------------------------------------------------------------------------
(* Reloads: both views listen to what this browser changes *)

(* Mutant: the version is compared but never raised. *)
BeginsSame(view) == [view EXCEPT !.reloads = @ \cup {[newest |-> TRUE, read |-> FALSE, found |-> None]}]
(* reloadVersion: a reload knows whether a newer one has begun. *)
Begins(view) == [view EXCEPT !.reloads =
    {[r EXCEPT !.newest = FALSE] : r \in @} \cup {[newest |-> TRUE, read |-> FALSE, found |-> None]}]
announce(shown) == panel' = Begins(shown) /\ shell' = Begins(shell)

(* loadActiveLocalConfigProfile *)
loadActive(view) ==
    \E r \in view.reloads :
        /\ ~r.read
        /\ \/ /\ view' = [view EXCEPT !.reloads = (@ \ {r}) \cup {[r EXCEPT !.read = TRUE, !.found = Effective(account.active, account.list)]}]
              /\ cache' = [cache EXCEPT !.list = account.list]
              /\ UNCHANGED <<trouble, stale>>
           \/ /\ trouble < MaxTrouble /\ trouble' = trouble + 1 /\ stale' = TRUE
              /\ view' = [view EXCEPT !.reloads = (@ \ {r}) \cup {[r EXCEPT !.read = TRUE, !.found = Effective(cache.active, cache.list)]}]
              /\ UNCHANGED cache
    /\ UNCHANGED <<account, op, version, acts, made, overwritten, crossed>>

(* Mutant: whichever answer comes last is shown. *)
reloadAny ==
    \E r \in panel.reloads :
        /\ r.read
        /\ panel' = [panel EXCEPT !.reloads = @ \ {r}, !.selected = r.found]
        /\ UNCHANGED <<account, cache, op, shell, version, acts, trouble, hist>>
(* The panel shows the newest reload only. *)
reload ==
    \E r \in panel.reloads :
        /\ r.read
        /\ panel' = [panel EXCEPT !.reloads = @ \ {r}, !.selected = IF r.newest THEN r.found ELSE @]
        /\ UNCHANGED <<account, cache, op, shell, version, acts, trouble, hist>>
(* The header shows every one. *)
reloadProfiles ==
    \E r \in shell.reloads :
        /\ r.read
        /\ shell' = [shell EXCEPT !.reloads = @ \ {r}, !.selected = r.found]
        /\ UNCHANGED <<account, cache, op, panel, version, acts, trouble, hist>>
panelReads == loadActive(panel) /\ UNCHANGED shell
shellReads == loadActive(shell) /\ UNCHANGED panel

-----------------------------------------------------------------------------
(* Starting an operation: one at a time in a lane *)

Start(l, o) ==
    /\ op[l] = Idle /\ acts < MaxActs /\ acts' = acts + 1
    /\ op' = [op EXCEPT ![l] = o]
    /\ UNCHANGED <<account, cache, panel, shell, version, trouble, hist>>
Saving(id, then) == [do |-> "list", id |-> id, then |-> then]
Selecting(id) == [do |-> "pick", id |-> id]

(* Saved under the selected profile or a new one, then selected. *)
saveCurrent == \E id \in Profile : (panel.selected \in {id, None}) /\ Start("panel", Saving(id, "select"))
(* Also creates a profile, which is not selected. *)
createLocalConfigBackup == \E id \in Profile : cache.list[id] = 0 /\ Start("panel", Saving(id, "done"))
restoreLocalConfigBackup == \E id \in Profile : Start("panel", Saving(id, "select"))
(* An imported profile keeps its identifier unless the list has it. *)
importFile == \E id \in Profile : cache.list[id] = 0 /\ Start("panel", Saving(id, "select"))
selectProfile == \E id \in Profile \cup {None} : Start("panel", Selecting(id))
remove == panel.selected # None /\ Start("panel", [do |-> "listToDelete", id |-> panel.selected])
chooseProfile == \E id \in Profile \cup {None} : id # shell.selected /\ Start("selector", Selecting(id))
save == shell.selected # None /\ Start("studio", Saving(shell.selected, "done"))

-----------------------------------------------------------------------------
(* The steps of an operation *)

(* listLocalConfigProfiles: the account's list, or the cached one. *)
listLocalConfigProfiles(seen) ==
    \/ seen = account.list /\ cache' = [cache EXCEPT !.list = seen] /\ UNCHANGED <<trouble, stale>>
    \/ seen = cache.list /\ trouble < MaxTrouble /\ trouble' = trouble + 1 /\ stale' = TRUE /\ UNCHANGED cache

Listed(l) ==
    \E seen \in {account.list, cache.list} :
        /\ op[l].do \in {"list", "listToDelete"}
        /\ listLocalConfigProfiles(seen)
        /\ op' = [op EXCEPT ![l] =
              IF op[l].do = "list" THEN [do |-> "write", id |-> @.id, then |-> @.then, seen |-> seen]
              ELSE IF Has(seen, @.id) THEN [do |-> "erase", id |-> @.id, seen |-> seen]
              ELSE Idle]
        /\ UNCHANGED <<account, panel, shell, version, acts, made, overwritten, crossed>>

(* writeAccountPreference: executed, or failed without the caller knowing. *)
writeList(seen, list, id) ==
    \/ /\ account' = [account EXCEPT !.list = list]
       /\ made' = [made EXCEPT ![id] = list[id]]
       /\ overwritten' = (overwritten \cup {p \in Profile : seen[p] # account.list[p]}) \ {id}
       /\ UNCHANGED <<trouble, stale>>
    \/ /\ trouble < MaxTrouble /\ trouble' = trouble + 1 /\ stale' = TRUE
       /\ UNCHANGED <<account, made, overwritten>>

(* Mutant: the saved profile replaces the list. *)
saveAlone(l) ==
    /\ op[l].do = "write" /\ version < MaxVersion /\ version' = version + 1
    /\ LET next == [Nothing EXCEPT ![op[l].id] = version'] IN
       /\ cache' = [cache EXCEPT !.list = next]
       /\ writeList(op[l].seen, next, op[l].id)
    /\ announce(panel)
    /\ op' = [op EXCEPT ![l] = IF op[l].then = "select" THEN Selecting(op[l].id) ELSE Idle]
    /\ UNCHANGED <<acts, crossed>>
saveLocalConfigProfile(l) ==
    /\ op[l].do = "write" /\ version < MaxVersion /\ version' = version + 1
    /\ LET next == [op[l].seen EXCEPT ![op[l].id] = version'] IN
       /\ cache' = [cache EXCEPT !.list = next]
       /\ writeList(op[l].seen, next, op[l].id)
    /\ announce(panel)
    /\ op' = [op EXCEPT ![l] = IF op[l].then = "select" THEN Selecting(op[l].id) ELSE Idle]
    /\ UNCHANGED <<acts, crossed>>

(* A profile is selected only if the list has it. *)
Picked(l) ==
    \E seen \in {account.list, cache.list} :
        /\ op[l].do = "pick"
        /\ IF op[l].id = None
           THEN /\ cache' = [cache EXCEPT !.active = None] /\ UNCHANGED <<trouble, stale>>
                /\ op' = [op EXCEPT ![l] = [do |-> "select", id |-> None]]
           ELSE /\ \/ seen = account.list /\ cache' = [list |-> seen, active |-> IF Has(seen, op[l].id) THEN op[l].id ELSE cache.active]
                      /\ UNCHANGED <<trouble, stale>>
                   \/ seen = cache.list /\ cache' = [cache EXCEPT !.active = IF Has(seen, op[l].id) THEN op[l].id ELSE @]
                      /\ trouble < MaxTrouble /\ trouble' = trouble + 1 /\ stale' = TRUE
                /\ op' = [op EXCEPT ![l] = IF Has(seen, op[l].id) THEN [do |-> "select", id |-> op[l].id] ELSE Idle]
        /\ UNCHANGED <<account, panel, shell, version, acts, made, overwritten, crossed>>

(* The selection is written and the lane's own view set. *)
writeActive(id) ==
    \/ account' = [account EXCEPT !.active = id] /\ crossed' = (crossed \/ (id # None /\ ~Has(account.list, id)))
       /\ UNCHANGED <<trouble, stale>>
    \/ trouble < MaxTrouble /\ trouble' = trouble + 1 /\ stale' = TRUE /\ UNCHANGED <<account, crossed>>
setActiveLocalConfigProfile(l) ==
    /\ op[l].do = "select" /\ writeActive(op[l].id)
    /\ panel' = Begins(IF l = "panel" THEN [panel EXCEPT !.selected = op[l].id] ELSE panel)
    /\ shell' = Begins(IF l = "selector" THEN [shell EXCEPT !.selected = op[l].id] ELSE shell)
    /\ op' = [op EXCEPT ![l] = Idle]
    /\ UNCHANGED <<cache, version, acts, made, overwritten>>

Erase(l) ==
    /\ op[l].do = "erase"
    /\ LET next == [op[l].seen EXCEPT ![op[l].id] = 0] IN
       /\ cache' = [cache EXCEPT !.list = next] /\ writeList(op[l].seen, next, op[l].id)
    /\ op' = [op EXCEPT ![l] = [do |-> "check", id |-> op[l].id]]
    /\ UNCHANGED <<panel, shell, version, acts, crossed>>

(* Mutant: only this browser's own selection is cleared. *)
deleteLocally(l) ==
    /\ op[l].do = "check"
    /\ cache' = [cache EXCEPT !.active = IF @ = op[l].id THEN None ELSE @]
    /\ announce([panel EXCEPT !.selected = None]) /\ op' = [op EXCEPT ![l] = Idle]
    /\ UNCHANGED <<account, version, acts, trouble, hist>>
(* The selection of what was deleted is cleared, here and on the account. *)
deleteLocalConfigProfile(l) ==
    /\ op[l].do = "check"
    /\ \E active \in {account.active, cache.active} :
           /\ \/ active = account.active /\ UNCHANGED <<trouble, stale>>
              \/ active = cache.active /\ trouble < MaxTrouble /\ trouble' = trouble + 1 /\ stale' = TRUE
           /\ IF active = op[l].id
              THEN /\ op' = [op EXCEPT ![l] = [do |-> "select", id |-> None]]
                   /\ cache' = [cache EXCEPT !.active = None]
                   /\ UNCHANGED <<panel, shell>>
              ELSE /\ op' = [op EXCEPT ![l] = Idle]
                   /\ cache' = [cache EXCEPT !.active = IF @ = op[l].id THEN None ELSE @]
                   /\ announce([panel EXCEPT !.selected = None])
    /\ UNCHANGED <<account, version, acts, made, overwritten, crossed>>

(* Another device of the account saves, deletes or selects. *)
Foreign ==
    /\ trouble < MaxTrouble /\ trouble' = trouble + 1 /\ stale' = TRUE
    /\ \/ \E id \in Profile :
            /\ version < MaxVersion /\ version' = version + 1
            /\ account' = [account EXCEPT !.list[id] = version'] /\ made' = [made EXCEPT ![id] = version']
            /\ overwritten' = overwritten \ {id}
       \/ \E id \in Profile :
            /\ Has(account.list, id) /\ UNCHANGED version
            /\ account' = [list |-> [account.list EXCEPT ![id] = 0], active |-> IF account.active = id THEN None ELSE account.active]
            /\ made' = [made EXCEPT ![id] = 0] /\ overwritten' = overwritten \ {id}
       \/ \E id \in Profile :
            /\ Has(account.list, id) /\ account' = [account EXCEPT !.active = id]
            /\ UNCHANGED <<version, made, overwritten>>
    /\ UNCHANGED <<cache, op, panel, shell, acts, crossed>>

User == saveCurrent \/ createLocalConfigBackup \/ restoreLocalConfigBackup \/ importFile \/ selectProfile \/ remove \/ chooseProfile \/ save
Step(l) == Listed(l) \/ saveLocalConfigProfile(l) \/ Picked(l) \/ setActiveLocalConfigProfile(l) \/ Erase(l) \/ deleteLocalConfigProfile(l)
Next == User \/ (\E l \in Lanes : Step(l)) \/ panelReads \/ shellReads \/ reload \/ reloadProfiles \/ Foreign
Spec == Init /\ [][Next]_vars

-----------------------------------------------------------------------------
Lists == [Profile -> 0..MaxVersion]
Choices == Profile \cup {None}
Documents == [list : Lists, active : Choices]
Reloads == [newest : BOOLEAN, read : BOOLEAN, found : Choices]
Operations ==
    {Idle} \cup [do : {"list"}, id : Profile, then : {"select", "done"}]
           \cup [do : {"write"}, id : Profile, then : {"select", "done"}, seen : Lists]
           \cup [do : {"pick", "select"}, id : Choices]
           \cup [do : {"listToDelete", "check"}, id : Profile]
           \cup [do : {"erase"}, id : Profile, seen : Lists]
TypeOK ==
    /\ account \in Documents /\ cache \in Documents
    /\ op \in [Lanes -> Operations]
    /\ \A view \in {panel, shell} :
          /\ view \in [selected : Choices, reloads : SUBSET Reloads]
          /\ \A r, s \in view.reloads : r.newest /\ s.newest => r = s
    /\ version \in 0..MaxVersion
    /\ made \in Lists /\ overwritten \subseteq Profile /\ {stale, crossed} \subseteq BOOLEAN

(* The account holds of each profile what the last save or deletion made of *)
(* it, except where a later write started from a list read before: a save   *)
(* carries its own change and nothing of an older cache.                    *)
OthersKept == \A p \in Profile : account.list[p] # made[p] => p \in overwritten

(* Deleting the current profile clears the account's selection: unless a    *)
(* request failed, another device interfered or the profile was selected    *)
(* meanwhile, what is selected exists.                                      *)
Deleting == \E l \in Lanes : op[l].do \in {"check", "select"}
SelectionExists ==
    account.active # None /\ ~Has(account.list, account.active) /\ ~stale /\ ~crossed => Deleting \/ overwritten # {}

(* Once all is answered, the panel shows the account's selection, in        *)
(* whatever order its reloads were answered.                                *)
Settled(view) == (\A l \in Lanes : op[l] = Idle) /\ view.reloads = {} /\ ~stale
PanelCurrent == Settled(panel) => panel.selected = Effective(account.active, account.list)

(* Why: what is selected and does not exist was lost to an older list, is   *)
(* being deleted, or a selection of none is on its way; and the newest      *)
(* reload is still to be read or has found what the account selects.        *)
At(l, step, id) == op[l].do = step /\ op[l].id = id
SelectionFollows ==
    account.active # None /\ ~Has(account.list, account.active) /\ ~stale /\ ~crossed =>
        \/ account.active \in overwritten
        \/ \E l \in Lanes : At(l, "check", account.active) \/ At(l, "select", None)
PanelFollows ==
    ~stale /\ ~Deleting =>
        LET current == Effective(account.active, account.list)
        IN \/ \E r \in panel.reloads : r.newest /\ (~r.read \/ r.found = current)
           \/ (\A r \in panel.reloads : ~r.newest) /\ panel.selected = current
ProfilesInv == TypeOK /\ OthersKept /\ SelectionFollows /\ PanelFollows
=============================================================================
