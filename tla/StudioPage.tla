----------------------------- MODULE StudioPage -----------------------------
(***************************************************************************)
(* Where the Studio page's document comes from and where a save takes it   *)
(* (web/src/App.tsx, web/src/api.ts): the server's Studio behind If-Match  *)
(* revisions, the device layout with its synchronisation queue, and an     *)
(* account's configuration profile. Loads, saves and TAKE are requests     *)
(* that are answered later; the user goes on typing meanwhile, another     *)
(* operator saves too, and the profile selector is never disabled.         *)
(*                                                                         *)
(* A document is its revision and the set of edits it contains; what an    *)
(* edit does to the scenes is module StudioEditor.                         *)
(***************************************************************************)
EXTENDS Integers, SequencesExt

CONSTANTS
    MaxEdits,     \* bound: edits typed on this page
    MaxOthers,    \* bound: commits by another operator
    MaxLoads,     \* bound: reload, return, device-layout and profile loads
    MaxActions,   \* bound: TAKE, undo and redo requests of this page
    MaxFailures,  \* bound: requests the network fails
    Conflict,     \* the answer 412
    None

VARIABLES
    log,             \* the server's Studio: its content at revisions 0, 1, ...
    past, future,    \* its undo and redo stacks
    paired,          \* the browser holds a valid device identity
    snapshot,        \* the server's Studio as last seen, kept in the browser
    layout,          \* the device layout, kept in the browser once it was saved
    queued,          \* the synchronisation queue holds the layout
    deviceFlag,      \* isDeviceWorkspace(), kept across page loads
    activeId,        \* the account's active profile: chosen or not
    profile,         \* the profile's document
    studioBaseline, studioDraft,
    activeLocalProfile, deviceWorkspace, connection, conflict,
    request,         \* the one save, copy or action under way (savingRef)
    loads,           \* loads under way, by kind
    origin,          \* (history) the stores baseline and draft came from
    overlapped,      \* (history) a save or load began while a load was under way
    seen,            \* (history) the edits this page has shown
    spent            \* edits typed, others' commits, loads, actions, failures

server == <<log, past, future>>
device == <<paired, snapshot, layout, queued, deviceFlag>>
local  == <<device, activeId, profile>>
page   == <<studioBaseline, studioDraft, activeLocalProfile, deviceWorkspace, connection, conflict>>
history == <<origin, overlapped, seen>>
vars   == <<server, local, page, request, loads, history, spent>>

Kinds  == {"reload", "return", "device"}
Typed  == {<<"typed", i>> : i \in 1..MaxEdits}
Others == {<<"other", i>> : i \in 1..MaxOthers}
Doc    == [rev : Nat, val : SUBSET (Typed \cup Others)]

Current == [rev |-> Len(log) - 1, val |-> Last(log)]
dirty   == studioBaseline # None /\ studioDraft # studioBaseline
saving  == request # None

(* loadOfflineStudio: the layout saved on this device, else the snapshot. *)
cache == IF ~paired THEN None ELSE IF layout # None THEN layout ELSE snapshot
fromDevice == (deviceFlag \/ queued) /\ cache # None
Spend(what) == spent' = [spent EXCEPT ![what] = @ + 1]
May(what, bound) == spent[what] < bound

Init ==
    /\ log = <<{}>> /\ past = <<>> /\ future = <<>>
    /\ paired \in BOOLEAN
    /\ snapshot = None /\ layout = None /\ queued = FALSE
    /\ deviceFlag = FALSE /\ activeId = FALSE
    /\ profile = [rev |-> 0, val |-> {}]
    /\ studioBaseline = None /\ studioDraft = None
    /\ activeLocalProfile = FALSE /\ deviceWorkspace = FALSE
    /\ connection = "connecting" /\ conflict = FALSE
    /\ request = None
    /\ loads = [k \in Kinds |-> IF k = "reload" THEN [at |-> "start", doc |-> None] ELSE None]
    /\ origin = [base |-> None, draft |-> None] /\ overlapped = FALSE /\ seen = {}
    /\ spent = [typed |-> 0, others |-> 0, loads |-> 0, actions |-> 0, failures |-> 0]

-----------------------------------------------------------------------------
(* The page's document *)

(* applyRemoteStudio: a loaded document replaces baseline and draft. *)
applyRemoteStudio(doc, from) ==
    /\ studioBaseline' = doc /\ studioDraft' = doc
    /\ conflict' = FALSE
    /\ origin' = [base |-> from, draft |-> from]
    /\ seen' = seen \cup doc.val

commitReplaces(committed, submitted, to) == applyRemoteStudio(committed, to)
commitDraft(committed, submitted, to) ==
    /\ studioDraft' = [studioDraft EXCEPT !.rev = committed.rev]
    /\ studioBaseline' = studioDraft'
    /\ conflict' = FALSE /\ origin' = [origin EXCEPT !.base = to]
    /\ UNCHANGED seen

(* commitSavedStudio: edits typed while the save was under way stay in the  *)
(* draft, on top of the committed revision.                                 *)
commitSavedStudio(committed, submitted, to) ==
    IF studioDraft = submitted
    THEN applyRemoteStudio(committed, to)
    ELSE /\ studioBaseline' = committed
         /\ studioDraft' = [studioDraft EXCEPT !.rev = committed.rev]
         /\ conflict' = FALSE
         /\ origin' = [origin EXCEPT !.base = to]
         /\ UNCHANGED seen

applyLocalProfile ==
    /\ deviceWorkspace' = FALSE /\ activeLocalProfile' = TRUE
    /\ applyRemoteStudio(profile, "profile")

Loading == \E k \in Kinds : loads[k] # None
Overlap(busy) == overlapped' = (overlapped \/ busy)

(* updateDraft and the rest of the editor: one more edit. *)
Type ==
    /\ studioDraft # None /\ May("typed", MaxEdits)
    /\ studioDraft' = [studioDraft EXCEPT !.val = @ \cup {<<"typed", spent.typed + 1>>}]
    /\ Spend("typed")
    /\ UNCHANGED <<server, local, studioBaseline, activeLocalProfile, deviceWorkspace,
                   connection, conflict, request, loads, history>>

(* Mutant: what was typed is kept and called saved. *)
DiscardNothing ==
    /\ dirty /\ ~saving
    /\ studioBaseline' = studioDraft /\ UNCHANGED studioDraft
    /\ UNCHANGED <<server, local, activeLocalProfile, deviceWorkspace, connection, conflict, request, loads, history, spent>>

Discard ==
    /\ dirty /\ ~saving
    /\ applyRemoteStudio(studioBaseline, origin.base)
    /\ UNCHANGED <<overlapped, server, local, activeLocalProfile, deviceWorkspace, connection, request, loads, spent>>

(* connectSceneEvents reports whether the control connection is up. *)
SceneConnection ==
    /\ \E c \in {"online", "offline"} : c # connection /\ connection' = c
    /\ UNCHANGED <<server, local, studioBaseline, studioDraft, activeLocalProfile, deviceWorkspace,
                   conflict, request, loads, history, spent>>

-----------------------------------------------------------------------------
(* The server: every write names the revision it replaces *)

Commit(val, undo, redo) == log' = Append(log, val) /\ past' = undo /\ future' = redo
replaceStudio(doc) == Commit(doc.val, Append(past, Last(log)), <<>>)

studioAction(kind) ==
    CASE kind = "take" -> Commit(Last(log), past, future)
      [] kind = "undo" -> past # <<>> /\ Commit(Last(past), Front(past), Append(future, Last(log)))
      [] kind = "redo" -> future # <<>> /\ Commit(Last(future), Append(past, Last(log)), Front(future))

OtherOperatorSaves ==
    /\ May("others", MaxOthers)
    /\ replaceStudio([val |-> Last(log) \cup {<<"other", spent.others + 1>>}])
    /\ Spend("others")
    /\ UNCHANGED <<local, page, request, loads, history>>

-----------------------------------------------------------------------------
(* Saves and actions *)

Ask(kind, doc) ==
    /\ request' = [kind |-> kind, doc |-> doc, base |-> studioDraft, from |-> origin.draft, reply |-> None]
    /\ Overlap(Loading)

SaveTargetForgetful ==
    IF activeLocalProfile THEN "profile" ELSE IF connection = "offline" THEN "device" ELSE "server"

(* save: to the profile, else to the device layout, else to the server. *)
SaveTarget == IF activeLocalProfile THEN "profile"
              ELSE IF deviceWorkspace \/ connection = "offline" THEN "device" ELSE "server"
Save ==
    /\ dirty /\ ~saving /\ ~conflict
    /\ Ask(SaveTarget, studioDraft)
    /\ UNCHANGED <<server, local, page, loads, origin, seen, spent>>

RunStudioAction ==
    /\ studioDraft # None /\ ~deviceWorkspace /\ connection = "online" /\ ~dirty /\ ~saving
    /\ May("actions", MaxActions) /\ Spend("actions")
    /\ \E kind \in {"take", "undo", "redo"} : Ask(kind, studioDraft)
    /\ UNCHANGED <<server, local, page, loads, origin, seen>>

(* copyDeviceToServer: fetches the server's Studio and appends the layout.  *)
CopyDeviceToServer ==
    /\ deviceWorkspace /\ studioDraft # None /\ ~dirty /\ ~saving /\ ~queued /\ connection = "online"
    /\ May("actions", MaxActions) /\ Spend("actions")
    /\ Ask("copy", [rev |-> Current.rev, val |-> Current.val \cup studioDraft.val])
    /\ UNCHANGED <<server, local, page, loads, origin, seen>>

Reply(doc) == request' = [request EXCEPT !.reply = doc]

(* A server request arrives. A profile's document is kept with the account, *)
(* the device layout in the browser.                                        *)
Execute ==
    /\ saving /\ request.reply = None
    /\ \/ /\ request.kind = "profile"
          /\ profile' = request.doc /\ Reply(request.doc)
          /\ UNCHANGED <<server, device, activeId>>
       \/ /\ request.kind = "device" /\ paired
          /\ layout' = request.doc /\ queued' = TRUE /\ deviceFlag' = TRUE /\ Reply(request.doc)
          /\ UNCHANGED <<server, paired, snapshot, activeId, profile>>
       \/ /\ request.kind \notin {"profile", "device"}
          /\ request.doc.rev # Current.rev
          /\ Reply(Conflict)
          /\ UNCHANGED <<server, local>>
       \/ /\ request.kind \in {"server", "copy"}
          /\ request.doc.rev = Current.rev
          /\ replaceStudio(request.doc)
          /\ Reply([rev |-> Current.rev + 1, val |-> request.doc.val])
          /\ UNCHANGED local
       \/ /\ request.kind \in {"take", "undo", "redo"}
          /\ request.doc.rev = Current.rev
          /\ studioAction(request.kind)
          /\ Reply([rev |-> Current.rev + 1, val |-> Last(log')])
          /\ UNCHANGED local
    /\ UNCHANGED <<page, loads, history, spent>>

(* The answer is an error, or does not come: the request may have executed. *)
RequestFails ==
    /\ saving
    /\ \/ May("failures", MaxFailures) /\ Spend("failures")
       \/ /\ request.reply = None /\ UNCHANGED spent
          /\ \/ request.kind = "undo" /\ past = <<>>
             \/ request.kind = "redo" /\ future = <<>>
             \/ request.kind = "device" /\ ~paired
    /\ request' = None
    /\ UNCHANGED <<server, local, page, loads, history>>

AnswerConflictRebases ==
    /\ saving /\ request.reply = Conflict
    /\ studioDraft # None
    /\ studioDraft' = [studioDraft EXCEPT !.rev = Current.rev]
    /\ request' = None
    /\ UNCHANGED <<server, local, studioBaseline, conflict, activeLocalProfile, deviceWorkspace,
                   connection, loads, history, spent>>

AnswerConflict ==
    /\ saving /\ request.reply = Conflict
    /\ conflict' = (request.kind # "copy" \/ conflict)
    /\ request' = None
    /\ UNCHANGED <<server, local, studioBaseline, studioDraft, activeLocalProfile, deviceWorkspace,
                   connection, loads, history, spent>>

AnswerSave ==
    /\ saving /\ request.reply \notin {None, Conflict}
    /\ request.kind \in {"profile", "device", "server"}
    /\ activeLocalProfile' = (request.kind = "profile" \/ activeLocalProfile)
    /\ deviceWorkspace' = (request.kind = "device" \/ deviceWorkspace)
    /\ commitSavedStudio(request.reply, request.doc, request.kind)
    /\ snapshot' = IF request.kind = "server" THEN request.reply ELSE snapshot
    /\ request' = None
    /\ UNCHANGED <<server, paired, layout, queued, deviceFlag, activeId, profile, connection, loads,
                   overlapped, spent>>

(* TAKE, undo and redo: the committed document replaces the draft. *)
AnswerAction ==
    /\ saving /\ request.reply \notin {None, Conflict}
    /\ request.kind \in {"take", "undo", "redo"}
    /\ applyRemoteStudio(request.reply, "server")
    /\ request' = None
    /\ UNCHANGED <<server, local, activeLocalProfile, deviceWorkspace, connection, loads, overlapped, spent>>

(* After a copy the page looks whether the layout was edited meanwhile: if  *)
(* so it stays as it is, else it leaves the device's mode ...               *)
LeaveDevice ==
    /\ request' = [request EXCEPT !.kind = "copied", !.base = studioDraft]
    /\ deviceFlag' = FALSE
(* Mutant: it does not look. *)
AnswerCopyUnchecked ==
    /\ saving /\ request.reply \notin {None, Conflict} /\ request.kind = "copy"
    /\ LeaveDevice
    /\ UNCHANGED <<server, paired, snapshot, layout, queued, activeId, profile, page, loads, history, spent>>
AnswerCopy ==
    /\ saving /\ request.reply \notin {None, Conflict} /\ request.kind = "copy"
    /\ IF studioDraft # request.base THEN request' = None /\ UNCHANGED deviceFlag ELSE LeaveDevice
    /\ UNCHANGED <<server, paired, snapshot, layout, queued, activeId, profile, page, loads, history, spent>>

(* ... and, once that is stored, shows the server's document, whatever was  *)
(* typed since it looked.                                                   *)
CopyApplies ==
    /\ saving /\ request.reply \notin {None, Conflict} /\ request.kind = "copied"
    /\ deviceWorkspace' = FALSE
    /\ applyRemoteStudio(request.reply, "server")
    /\ request' = None
    /\ UNCHANGED <<server, local, activeLocalProfile, connection, loads, overlapped, spent>>

(* The queue is uploaded: the account's shared layout, never the Studio     *)
(* (module DeviceSync).                                                     *)
QueueSynced ==
    /\ queued /\ queued' = FALSE
    /\ UNCHANGED <<server, paired, snapshot, layout, deviceFlag, activeId, profile, page, request,
                   loads, history, spent>>

-----------------------------------------------------------------------------
(* Loads *)

Start(kind) ==
    /\ loads[kind] = None /\ May("loads", MaxLoads) /\ Spend("loads")
    /\ loads' = [loads EXCEPT ![kind] = [at |-> "start", doc |-> None]]
    /\ Overlap(saving \/ Loading)

(* reloadAfterConflict (confirmed when dirty), and "reconnect" on the boot  *)
(* screen.                                                                  *)
Reload ==
    /\ conflict \/ studioDraft = None
    /\ Start("reload")
    /\ UNCHANGED <<server, local, page, request, origin, seen>>

(* returnToServer and loadDeviceLayout (confirmed when dirty). *)
ReturnToServer ==
    /\ deviceWorkspace /\ connection = "online" /\ ~saving
    /\ Start("return")
    /\ UNCHANGED <<server, local, page, request, origin, seen>>

LoadDeviceLayout ==
    /\ ~saving /\ cache # None
    /\ Start("device")
    /\ UNCHANGED <<server, local, page, request, origin, seen>>

(* chooseProfile: the selector in the page's frame. Picking the profile     *)
(* loads it at once; picking the server's default reloads.                  *)
ChooseProfile ==
    /\ activeId' = ~activeId
    /\ \/ /\ ~activeId
          /\ May("loads", MaxLoads) /\ Spend("loads")
          /\ UNCHANGED <<loads, connection>>
          /\ applyLocalProfile /\ deviceFlag' = FALSE /\ Overlap(saving \/ Loading)
       \/ /\ activeId /\ Start("reload")
          /\ UNCHANGED <<page, origin, seen, deviceFlag>>
    /\ UNCHANGED <<server, paired, snapshot, layout, queued, profile, request>>

Step(kind, at, doc) == loads' = [loads EXCEPT ![kind] = [at |-> at, doc |-> doc]]
Finish(kind) == loads' = [loads EXCEPT ![kind] = None]

(* reload looks at the device layout first. *)
ReloadFromDevice ==
    /\ loads["reload"] # None /\ loads["reload"].at = "start" /\ fromDevice
    /\ activeLocalProfile' = FALSE /\ deviceWorkspace' = TRUE
    /\ Finish("reload")
    /\ applyRemoteStudio(cache, "device")
    /\ UNCHANGED <<server, local, connection, request, overlapped, spent>>

(* fetchStudio answers with the Studio of that moment. *)
Fetched ==
    /\ \E k \in {"reload", "return"} :
           /\ loads[k] # None /\ loads[k].at = "start"
           /\ k = "reload" => ~fromDevice
           /\ Step(k, "fetched", Current)
    /\ UNCHANGED <<server, local, page, request, history, spent>>

(* reload then asks which profile is active, and shows it or the Studio. *)
ReloadApplies ==
    /\ loads["reload"] # None /\ loads["reload"].at = "fetched"
    /\ Finish("reload")
    /\ IF activeId THEN applyLocalProfile /\ deviceFlag' = FALSE
       ELSE /\ activeLocalProfile' = FALSE /\ deviceWorkspace' = FALSE
            /\ applyRemoteStudio(loads["reload"].doc, "server")
            /\ UNCHANGED deviceFlag
    /\ snapshot' = loads["reload"].doc
    /\ UNCHANGED <<server, paired, layout, queued, activeId, profile, connection, request, overlapped, spent>>

(* Unreachable within 8 s: the profile, else the device layout, else only   *)
(* an error. The mode changes first, the document after it is stored.       *)
ReloadFails ==
    /\ loads["reload"] # None /\ loads["reload"].at = "start"
    /\ ~fromDevice
    /\ May("failures", MaxFailures) /\ Spend("failures")
    /\ \/ /\ activeId
          /\ Finish("reload")
          /\ applyLocalProfile /\ deviceFlag' = FALSE /\ connection' = "offline"
          /\ UNCHANGED overlapped
       \/ /\ ~activeId /\ cache # None
          /\ deviceWorkspace' = TRUE
          /\ Step("reload", "storing", cache)
          /\ UNCHANGED <<deviceFlag, connection, activeLocalProfile, studioBaseline, studioDraft,
                         conflict, history>>
       \/ /\ ~activeId /\ cache = None
          /\ Finish("reload")
          /\ UNCHANGED <<deviceFlag, page, history>>
    /\ UNCHANGED <<server, paired, snapshot, layout, queued, activeId, profile, request>>

ReloadStored ==
    /\ loads["reload"] # None /\ loads["reload"].at = "storing"
    /\ deviceFlag' = TRUE /\ connection' = "offline"
    /\ Finish("reload")
    /\ applyRemoteStudio(loads["reload"].doc, "device")
    /\ UNCHANGED <<server, paired, snapshot, layout, queued, activeId, profile, activeLocalProfile, deviceWorkspace, request, overlapped, spent>>

ReturnApplies ==
    /\ loads["return"] # None /\ loads["return"].at = "fetched"
    /\ deviceFlag' = FALSE /\ deviceWorkspace' = FALSE /\ activeLocalProfile' = FALSE
    /\ Finish("return")
    /\ applyRemoteStudio(loads["return"].doc, "server")
    /\ UNCHANGED <<server, paired, snapshot, layout, queued, activeId, profile, connection, request, overlapped, spent>>

ReturnFails ==
    /\ loads["return"] # None /\ loads["return"].at = "start"
    /\ May("failures", MaxFailures) /\ Spend("failures")
    /\ Finish("return")
    /\ UNCHANGED <<server, local, page, request, history>>

DeviceApplies ==
    /\ loads["device"] # None
    /\ deviceFlag' = TRUE /\ deviceWorkspace' = TRUE /\ activeLocalProfile' = FALSE
    /\ Finish("device")
    /\ applyRemoteStudio(cache, "device")
    /\ UNCHANGED <<server, paired, snapshot, layout, queued, activeId, profile, connection, request, overlapped, spent>>

User   == Type \/ Discard \/ Save \/ RunStudioAction \/ CopyDeviceToServer
          \/ Reload \/ ReturnToServer \/ LoadDeviceLayout \/ ChooseProfile
Server == OtherOperatorSaves \/ Execute \/ Fetched \/ QueueSynced
Answer == AnswerConflict \/ AnswerSave \/ AnswerAction \/ AnswerCopy \/ CopyApplies \/ RequestFails
          \/ ReloadFromDevice \/ ReloadApplies \/ ReloadFails \/ ReloadStored
          \/ ReturnApplies \/ ReturnFails \/ DeviceApplies

Next == User \/ Server \/ Answer \/ SceneConnection

Spec == Init /\ [][Next]_vars

-----------------------------------------------------------------------------
Edits   == Typed \cup Others
Sources == {"server", "device", "profile"}
Request == [kind : {"profile", "device", "server", "take", "undo", "redo", "copy", "copied"},
            doc : Doc, base : Doc, from : Sources, reply : Doc \cup {None, Conflict}]
Load    == [at : {"start", "fetched", "storing"}, doc : Doc \cup {None}]

(* The page's documents, modes, requests and loads are well formed. *)
TypeOK ==
    /\ log \in Seq(SUBSET Edits) \ {<<>>} /\ {past, future} \subseteq Seq(SUBSET Edits)
    /\ {snapshot, layout, studioBaseline, studioDraft} \subseteq Doc \cup {None} /\ profile \in Doc
    /\ {paired, queued, deviceFlag, activeId, activeLocalProfile, deviceWorkspace, conflict, overlapped}
         \subseteq BOOLEAN
    /\ connection \in {"connecting", "online", "offline"}
    /\ request \in Request \cup {None} /\ loads \in [Kinds -> Load \cup {None}]
    /\ origin \in [base : Sources \cup {None}, draft : Sources \cup {None}] /\ seen \subseteq Edits
    /\ spent \in [{"typed", "others", "loads", "actions", "failures"} -> Nat]
    /\ studioDraft = None <=> studioBaseline = None
    /\ request # None => studioDraft # None
    /\ studioDraft # None => None \notin {origin.base, origin.draft}

(* Documents that hold what the server has at their revision; that hold the *)
(* others' part of it, but for edits the page has shown; and those of which *)
(* every edit of another operator was shown.                                *)
Exact   == {doc \in Doc : doc.rev < Len(log) /\ doc.val = log[doc.rev + 1]}
Covered == {doc \in Doc : doc.rev < Len(log) /\ log[doc.rev + 1] \cap Others \subseteq doc.val \cup seen}
Shown   == {doc \in Doc : doc.val \cap Others \subseteq seen}

(* Whatever the page edits or keeps belongs to the revision it names. *)
DocumentsCovered ==
    /\ {snapshot, layout, studioBaseline, studioDraft, profile} \subseteq Covered \cup {None}
    /\ {layout, studioBaseline, studioDraft, profile} \subseteq Shown \cup {None}
    /\ origin.base = "server" => studioBaseline \in Exact

(* So does what a request carries; the answer to a save or a copy is what   *)
(* was sent, and a server's answer is what the server has at its revision.  *)
RequestCovered == request # None =>
    /\ request.doc \in Covered
    /\ IF request.kind \in {"copy", "copied"} THEN request.base.val \subseteq request.doc.val ELSE request.doc \in Shown
    /\ request.reply \notin {None, Conflict} =>
         /\ request.kind \notin {"take", "undo", "redo"} => request.reply.val = request.doc.val
         /\ IF request.kind \in {"profile", "device"} THEN request.reply = request.doc
            ELSE request.reply \in Exact

LoadsCovered == \A k \in Kinds : loads[k] # None =>
    /\ k = "device" => loads[k].at = "start" /\ cache # None
    /\ loads[k].at = "fetched" => loads[k].doc \in Exact
    /\ loads[k].at = "storing" => k = "reload" /\ loads[k].doc \in Covered

(* While each load ends before the next save or load begins, the modes say  *)
(* where the documents came from, and only the server's are saved there.    *)
ModesTell == ~overlapped =>
    /\ ~(saving /\ Loading) /\ \A j, k \in Kinds : loads[j] # None /\ loads[k] # None => j = k
    /\ studioDraft # None /\ ~activeLocalProfile /\ ~deviceWorkspace => origin = [base |-> "server", draft |-> "server"]
    /\ loads["reload"] # None /\ loads["reload"].at = "storing" => deviceWorkspace
    /\ saving /\ request.kind = "server" => request.from = "server"

PageInv == TypeOK /\ DocumentsCovered /\ RequestCovered /\ LoadsCovered /\ ModesTell

(* What this page commits never removes an edit of another operator that    *)
(* the page has not shown: the If-Match revision travels with the content   *)
(* it belongs to through loads, saves, conflicts and changes of mode.       *)
NoUnseenLoss == [][(Last(log) \ Last(log)') \cap Others \subseteq seen]_vars

(* The answer to a save or a copy never takes away what was typed while it  *)
(* was under way (commitSavedStudio, copyDeviceToServer); only what is      *)
(* typed after the answer to a copy was looked at, while the mode is being  *)
(* stored, gives way to the committed document.                             *)
SaveKeepsTyping ==
    [][saving /\ request' = None /\ studioDraft # None =>
         /\ request.kind \in {"profile", "device", "server", "copy"} => studioDraft.val \subseteq studioDraft'.val
         /\ request.kind = "copied" => studioDraft.val \cap request.base.val \subseteq studioDraft'.val]_vars

(* A draft of the server's Studio that the page calls saved is the server's *)
(* content at the revision the page shows: if each load ended before the    *)
(* next save or load began.                                                 *)
CleanMeansSaved ==
    ~overlapped /\ studioDraft # None /\ ~dirty /\ ~deviceWorkspace /\ ~activeLocalProfile =>
        studioDraft.rev < Len(log) /\ studioDraft.val = log[studioDraft.rev + 1]

(* Uploading a device layout or saving a profile is not a PUT of the        *)
(* server's Studio: only a document that came from the server is saved to   *)
(* it, whatever the modes went through (docs/offline-workspace.md:19), if   *)
(* each load ended before the next save or load began.                      *)
OnlyServerDocumentsSaved ==
    [][log' # log /\ request' # request /\ request.kind = "server" /\ ~overlapped
        => request.from = "server"]_vars
=============================================================================
