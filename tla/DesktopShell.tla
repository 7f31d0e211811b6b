----------------------------- MODULE DesktopShell -----------------------------
(***************************************************************************)
(* The Windows shell (desktop/src): the supervisor that starts the         *)
(* services in order and stops them in reverse (supervisor.mjs), the boot  *)
(* of the application and its operations, of which one runs at a time      *)
(* (main.mjs), the installation of an update behind a snapshot             *)
(* (updates.mjs), and the recovery record that ties the two versions to    *)
(* it. Both the boot and an operation are sequences of awaits: each await  *)
(* is a step, and the two interleave.                                      *)
(***************************************************************************)
EXTENDS Integers, Sequences, FiniteSets

CONSTANTS
    Services,       \* in starting order
    Ported,         \* those that hold a port; the others are mere writers
    MaxVersion,     \* bound: versions of the application
    MaxActs,        \* bound: the user's operations
    MaxTrouble,     \* bound: exits, time-outs, failed steps and power cuts
    MaxProcesses    \* bound: processes of one service that are told apart
Nil == "none"
Threads == {"boot", "op"}
NoRecord == [from |-> 0, to |-> 0, data |-> 0]

VARIABLES
    app,            \* the application runs
    updates,        \* its boot got as far as to look for updates
    version, data,  \* version installed; that which last wrote the data, 0 if there is none
    pending,        \* pending-update.json: the two versions and the data kept
    installer,      \* the version an installer is about to put in place, 0 if none
    children,       \* the processes the supervisor knows, in order
    alive, asked,   \* those that run, and those asked to shut down
    bad,            \* dead ones whose exit code was not 0
    phase,          \* what the supervisor announces
    stopping,       \* the supervisor means its processes to exit
    page,           \* what the main window shows
    recovery,       \* the record the boot read
    at,             \* where the boot and the operation are
    acts, trouble,
    mishap          \* (history) since the application started: an operation ran while the
                    \* services booted, a killed process ran on, or a record stayed
disk == <<version, data, pending, installer>>
procs == <<children, alive, asked, bad>>
counts == <<acts, trouble>>
vars == <<app, updates, disk, procs, stopping, phase, page, recovery, at, counts, mishap>>

Range(s) == {s[i] : i \in DOMAIN s}
Larger(a, b) == IF a < b THEN b ELSE a
Reversed(s) == [i \in DOMAIN s |-> s[Len(s) + 1 - i]]
Trouble == trouble < MaxTrouble /\ trouble' = trouble + 1

(* do: the operation; pc: its next step; n: the service being started;      *)
(* left: processes still to be stopped; failed: one did not stop well;      *)
(* proc: the process whose health is awaited.                               *)
Idle == [do |-> Nil, pc |-> Nil, n |-> 0, left |-> <<>>, failed |-> FALSE, proc |-> <<>>]
Goto(t, pc) == at' = [at EXCEPT ![t].pc = pc]
Begin(t, do, pc) == at' = [at EXCEPT ![t] = [Idle EXCEPT !.do = do, !.pc = pc]]
Done(t) == at' = [at EXCEPT ![t] = Idle]
operating == at["op"].do # Nil
At(t, pc) == app /\ at[t].pc = pc

Init ==
    /\ app = FALSE /\ updates = FALSE /\ version = 1 /\ data = 1 /\ pending = NoRecord /\ installer = 0
    /\ children = <<>> /\ alive = {} /\ asked = {} /\ bad = {}
    /\ phase = "stopped" /\ stopping = FALSE /\ page = Nil /\ recovery = NoRecord
    /\ at = [t \in Threads |-> Idle] /\ acts = 0 /\ trouble = 0 /\ mishap = FALSE

-----------------------------------------------------------------------------
(* Stopping: every process of a copy of the list, last first                *)

BeginsStop(t) ==
    /\ stopping' = TRUE /\ phase' = "stopping"
    /\ at' = [at EXCEPT ![t].pc = "stop", ![t].left = Reversed(children), ![t].failed = FALSE]

(* Mutant: nobody waits for the exit.                                       *)
stopHurried(t) ==
    /\ At(t, "stop") /\ at[t].left # <<>>
    /\ LET p == Head(at[t].left)
       IN  /\ asked' = IF p \in alive THEN asked \cup {p} ELSE asked
           /\ at' = [at EXCEPT ![t].left = Tail(@), ![t].failed = @ \/ p \in bad]
    /\ UNCHANGED <<app, updates, disk, children, alive, bad, stopping, phase, page, recovery, counts, mishap>>
stop(t) ==
    /\ At(t, "stop") /\ at[t].left # <<>>
    /\ LET p == Head(at[t].left)
       IN  IF p \in alive
           THEN p \notin asked /\ asked' = asked \cup {p} /\ UNCHANGED at
           ELSE at' = [at EXCEPT ![t].left = Tail(@), ![t].failed = @ \/ p \in bad] /\ UNCHANGED asked
    /\ UNCHANGED <<app, updates, disk, children, alive, bad, stopping, phase, page, recovery, counts, mishap>>
(* One that does not exit within 5 s of being killed is given up, and runs  *)
(* on.                                                                      *)
abandon(t) ==
    /\ At(t, "stop") /\ at[t].left # <<>> /\ Head(at[t].left) \in asked /\ Trouble
    /\ at' = [at EXCEPT ![t].left = Tail(@), ![t].failed = TRUE]
    /\ mishap' = TRUE
    /\ UNCHANGED <<app, updates, disk, procs, stopping, phase, page, recovery, acts>>
Stopped(t) ==
    /\ At(t, "stop") /\ at[t].left = <<>>
    /\ children' = <<>> /\ phase' = "stopped" /\ Goto(t, "stopped")
    /\ UNCHANGED <<app, updates, disk, alive, asked, bad, stopping, page, recovery, counts, mishap>>

(* Mutant: a dead process is still asked to shut down.                      *)
ExitsAsked ==
    \E p \in alive :
        /\ alive' = alive \ {p} /\ UNCHANGED asked
        /\ phase' = IF phase = "ready" /\ ~stopping THEN "failed" ELSE phase
        /\ \/ p \in asked /\ UNCHANGED <<bad, trouble>>
           \/ Trouble /\ bad' = bad \cup {p}
        /\ UNCHANGED <<app, updates, disk, children, stopping, page, recovery, at, acts, mishap>>
(* A process exits: as asked, or by itself, or killed after its time.       *)
Exits ==
    \E p \in alive :
        /\ alive' = alive \ {p} /\ asked' = asked \ {p}
        /\ phase' = IF phase = "ready" /\ ~stopping THEN "failed" ELSE phase
        /\ \/ p \in asked /\ UNCHANGED <<bad, trouble>>
           \/ Trouble /\ bad' = bad \cup {p}
        /\ UNCHANGED <<app, updates, disk, children, stopping, page, recovery, at, acts, mishap>>

-----------------------------------------------------------------------------
(* Starting                                                                 *)

start(t) ==
    /\ At(t, "start")
    /\ IF children # <<>>
       THEN Goto(t, "start failed") /\ UNCHANGED <<phase, stopping>>
       ELSE /\ at' = [at EXCEPT ![t].pc = "prepare", ![t].n = 1]
            /\ phase' = "starting" /\ stopping' = FALSE
    /\ UNCHANGED <<app, updates, disk, procs, page, recovery, counts, mishap>>

(* The ports are bound for a moment to see that they are free.              *)
allocatePorts == \A p \in alive : p[1] \notin Ported
(* A missing data directory is made anew.                                   *)
prepare(t) ==
    /\ At(t, "prepare")
    /\ data' = IF data = 0 THEN version ELSE data
    /\ \/ /\ allocatePorts
          /\ Goto(t, "spawn") /\ UNCHANGED <<phase, stopping, trouble>>
       \/ /\ ~allocatePorts
          /\ BeginsStop(t) /\ UNCHANGED trouble
       \/ Trouble /\ BeginsStop(t)
    /\ UNCHANGED <<app, updates, version, pending, installer, procs, page, recovery, acts, mishap>>

Named == alive \cup Range(children) \cup UNION {Range(at[t].left) : t \in Threads} \cup {at[t].proc : t \in Threads}
Fresh(p) == p \notin Named /\ \A k \in 1 .. p[2] - 1 : <<p[1], k>> \in Named

(* The service opens the data, and brings it to its version.                *)
spawn(t) ==
    /\ At(t, "spawn") /\ at[t].n <= Len(Services)
    /\ \E p \in {Services[at[t].n]} \X (1 .. MaxProcesses) :
           /\ Fresh(p)
           /\ children' = Append(children, p)
           /\ IF p[1] \in Ported /\ \E q \in alive : q[1] = p[1]
              THEN bad' = bad \cup {p} /\ UNCHANGED alive
              ELSE bad' = bad \ {p} /\ alive' = alive \cup {p}
           /\ at' = [at EXCEPT ![t].pc = "health", ![t].proc = p]
    /\ data' = Larger(data, version) /\ phase' = "starting"
    /\ UNCHANGED <<app, updates, version, pending, installer, asked, stopping, page, recovery, counts, mishap>>
health(t) ==
    /\ At(t, "health")
    /\ \/ /\ at[t].proc \in alive
          /\ at' = [at EXCEPT ![t].pc = "spawn", ![t].n = @ + 1, ![t].proc = <<>>] /\ UNCHANGED <<phase, stopping, trouble>>
       \/ at[t].proc \notin alive /\ BeginsStop(t) /\ UNCHANGED trouble
       \/ Trouble /\ BeginsStop(t)
    /\ UNCHANGED <<app, updates, disk, procs, page, recovery, acts, mishap>>
Started(t) ==
    /\ At(t, "spawn") /\ at[t].n > Len(Services)
    /\ phase' = "ready" /\ Goto(t, "started")
    /\ UNCHANGED <<app, updates, disk, procs, stopping, page, recovery, counts, mishap>>
(* A start that failed has stopped what it had started.                     *)
StartFails(t) ==
    /\ At(t, "stopped") /\ at[t].n > 0
    /\ phase' = "failed" /\ Goto(t, "start failed")
    /\ UNCHANGED <<app, updates, disk, procs, stopping, page, recovery, counts, mishap>>
StartSteps(t) == start(t) \/ prepare(t) \/ spawn(t) \/ health(t) \/ Started(t) \/ StartFails(t)
StopSteps(t) == stop(t) \/ Stopped(t)

-----------------------------------------------------------------------------
(* The boot                                                                 *)

Launch ==
    /\ ~app /\ installer = 0
    /\ app' = TRUE /\ page' = "diagnostics" /\ phase' = "stopped" /\ recovery' = NoRecord
    /\ Begin("boot", "boot", "read")
    /\ UNCHANGED <<updates, disk, procs, stopping, counts, mishap>>
(* A recovery record of other versions, or one to go back with, stops it.   *)
(* Mutant: the old version starts on the new data.                          *)
BootReadsLoosely ==
    /\ At("boot", "read") /\ recovery' = pending
    /\ IF pending # NoRecord /\ version # pending.to /\ version # pending.from
       THEN phase' = "failed" /\ Done("boot")
       ELSE Goto("boot", "start") /\ UNCHANGED phase
    /\ UNCHANGED <<app, updates, disk, procs, stopping, page, counts, mishap>>
BootReads ==
    /\ At("boot", "read") /\ recovery' = pending
    /\ IF pending # NoRecord /\ version # pending.to
       THEN phase' = "failed" /\ Done("boot")
       ELSE Goto("boot", "start") /\ UNCHANGED phase
    /\ UNCHANGED <<app, updates, disk, procs, stopping, page, counts, mishap>>
(* Only a boot that brought the services up sets up the updates, and then   *)
(* forgets the record.                                                      *)
Forgets ==
    /\ pending' = IF recovery # NoRecord THEN NoRecord ELSE pending
    /\ recovery' = NoRecord
BootEnds ==
    /\ \/ At("boot", "started") /\ Forgets /\ page' = "wall" /\ updates' = TRUE /\ UNCHANGED phase
       \/ /\ At("boot", "start failed") /\ phase' = "failed" /\ page' = "diagnostics"
          /\ UNCHANGED <<updates, pending, recovery>>
    /\ Done("boot")
    /\ UNCHANGED <<app, version, data, installer, procs, stopping, counts, mishap>>
(* It may fail before the updates are set up, before the record is removed, *)
(* or with the page of the wall; the services stay up.                      *)
BootFails ==
    /\ At("boot", "started") /\ Trouble /\ phase' = "failed" /\ page' = "diagnostics"
    /\ \/ UNCHANGED <<updates, pending, recovery>>
       \/ updates' = TRUE /\ (Forgets \/ UNCHANGED <<pending, recovery>>)
    /\ Done("boot")
    /\ UNCHANGED <<app, version, data, installer, procs, stopping, acts, mishap>>

(* The services die with the application.                                   *)
Off ==
    /\ app' = FALSE /\ updates' = FALSE /\ at' = [t \in Threads |-> Idle] /\ mishap' = FALSE
    /\ children' = <<>> /\ alive' = {} /\ asked' = {} /\ bad' = {}

-----------------------------------------------------------------------------
(* The operations, one at a time                                            *)

Operation(do, pc) ==
    /\ app /\ ~operating /\ at["boot"].pc # "read" /\ acts < MaxActs /\ acts' = acts + 1
    /\ Begin("op", do, pc)
    /\ mishap' = (mishap \/ at["boot"] # Idle)
    /\ UNCHANGED <<app, updates, disk, procs, stopping, phase, page, recovery, trouble>>
Asks ==
    \/ Operation("restart", "begin stop") \/ Operation("quit", "begin stop")
    \/ page = "wall" /\ Operation("backup", "begin stop")
    \/ updates /\ page = "wall" /\ version < MaxVersion /\ Operation("install", "verify")
    \/ recovery # NoRecord /\ version = recovery.from /\ Operation("restore", "begin stop")
BeginStop ==
    /\ At("op", "begin stop") /\ BeginsStop("op")
    /\ UNCHANGED <<app, updates, disk, procs, page, recovery, counts, mishap>>
(* What follows an operation's own stop, and what its failure does.         *)
AfterStop ==
    [restart |-> "start", backup |-> "snapshot", install |-> "snapshot", restore |-> "stage", quit |-> "quit"]
AfterFailedStop ==
    [restart |-> "end", backup |-> "end", install |-> "give up", restore |-> "stage", quit |-> "end"]
OperationStopped ==
    /\ At("op", "stopped") /\ at["op"].n = 0
    /\ Goto("op", (IF at["op"].failed THEN AfterFailedStop ELSE AfterStop)[at["op"].do])
    /\ UNCHANGED <<app, updates, disk, procs, stopping, phase, page, recovery, counts, mishap>>
(* Mutant: one that fails never ends.                                       *)
OperationEndsWell ==
    /\ app /\ at["op"].pc \in {"end", "started"}
    /\ page' = IF at["op"].pc = "started" THEN "wall" ELSE page
    /\ Done("op")
    /\ UNCHANGED <<app, updates, disk, procs, stopping, phase, recovery, counts, mishap>>
OperationEnds ==
    /\ app /\ at["op"].pc \in {"end", "started", "start failed"}
    /\ page' = IF at["op"].pc = "started" THEN "wall" ELSE page
    /\ Done("op")
    /\ UNCHANGED <<app, updates, disk, procs, stopping, phase, recovery, counts, mishap>>

(* Every writer must have stopped; a backup starts them again in any case.  *)
snapshot ==
    /\ At("op", "snapshot")
    /\ \/ children = <<>> /\ Goto("op", IF at["op"].do = "install" THEN "record" ELSE "start") /\ UNCHANGED trouble
       \/ children # <<>> /\ Goto("op", IF at["op"].do = "install" THEN "give up" ELSE "start") /\ UNCHANGED trouble
       \/ Trouble /\ Goto("op", IF at["op"].do = "install" THEN "give up" ELSE "start")
    /\ UNCHANGED <<app, updates, disk, procs, stopping, phase, page, recovery, acts, mishap>>

(* The update is verified and confirmed before anything is stopped, and     *)
(* verified again when the recovery record is written.                      *)
verify ==
    /\ At("op", "verify") /\ (Goto("op", "begin stop") \/ Goto("op", "end"))
    /\ UNCHANGED <<app, updates, disk, procs, stopping, phase, page, recovery, counts, mishap>>
record ==
    /\ At("op", "record") /\ pending' = [from |-> version, to |-> version + 1, data |-> data]
    /\ Goto("op", "launch")
    /\ UNCHANGED <<app, updates, version, data, installer, procs, stopping, phase, page, recovery, counts, mishap>>
(* The application quits once the installer runs.                           *)
launchInstaller ==
    /\ At("op", "launch")
    /\ \/ installer' = pending.to /\ Off /\ UNCHANGED trouble
       \/ Trouble /\ Goto("op", "give up") /\ UNCHANGED <<installer, app, updates, procs, mishap>>
    /\ UNCHANGED <<version, data, pending, stopping, phase, page, recovery, acts>>
(* Mutant: the record of an update that was not installed is kept.          *)
giveUpKeeps ==
    /\ At("op", "give up") /\ Goto("op", "start")
    /\ UNCHANGED <<app, updates, disk, procs, stopping, phase, page, recovery, counts, mishap>>
(* That the record cannot be removed is ignored.                            *)
giveUp ==
    /\ At("op", "give up") /\ Goto("op", "start")
    /\ \/ pending' = NoRecord /\ UNCHANGED <<trouble, mishap>>
       \/ Trouble /\ UNCHANGED pending /\ mishap' = TRUE
    /\ UNCHANGED <<app, updates, version, data, installer, procs, stopping, phase, page, recovery, acts>>

(* The snapshot is staged, the data moved aside and the staged data moved   *)
(* in; the record goes last.                                                *)
stage ==
    /\ At("op", "stage") /\ ((Goto("op", "move") /\ UNCHANGED trouble) \/ (Trouble /\ Goto("op", "end")))
    /\ UNCHANGED <<app, updates, disk, procs, stopping, phase, page, recovery, acts, mishap>>
moveAside ==
    /\ At("op", "move")
    /\ IF data = 0 THEN Goto("op", "end") ELSE Goto("op", "swap")
    /\ data' = 0
    /\ UNCHANGED <<app, updates, version, pending, installer, procs, stopping, phase, page, recovery, counts, mishap>>
swap ==
    /\ At("op", "swap") /\ data' = recovery.data /\ Goto("op", "forget")
    /\ UNCHANGED <<app, updates, version, pending, installer, procs, stopping, phase, page, recovery, counts, mishap>>
forget ==
    /\ At("op", "forget") /\ pending' = NoRecord /\ recovery' = NoRecord /\ Goto("op", "start")
    /\ UNCHANGED <<app, updates, version, data, installer, procs, stopping, phase, page, counts, mishap>>

quit ==
    /\ At("op", "quit") /\ Off
    /\ UNCHANGED <<disk, stopping, phase, page, recovery, counts>>
PowerCut ==
    /\ app /\ Trouble /\ Off
    /\ UNCHANGED <<disk, stopping, phase, page, recovery, acts>>
(* The installer puts its version in place, or is cancelled.                *)
Installs ==
    /\ ~app /\ installer # 0 /\ installer' = 0
    /\ \/ version' = installer /\ UNCHANGED trouble
       \/ Trouble /\ UNCHANGED version
    /\ UNCHANGED <<app, updates, data, pending, procs, stopping, phase, page, recovery, at, acts, mishap>>
(* The diagnostics page opens the previous version's installer.             *)
previousInstaller ==
    /\ app /\ recovery # NoRecord /\ version = recovery.to /\ page = "diagnostics"
    /\ at = [t \in Threads |-> Idle] /\ acts < MaxActs /\ acts' = acts + 1
    /\ installer' = recovery.from /\ Off
    /\ UNCHANGED <<version, data, pending, stopping, phase, page, recovery, trouble>>

-----------------------------------------------------------------------------
Restoring == stage \/ moveAside \/ swap \/ forget
Installing == verify \/ record \/ launchInstaller \/ giveUp
OpSteps == BeginStop \/ OperationStopped \/ OperationEnds \/ snapshot \/ Restoring \/ Installing \/ quit
Booting == Launch \/ BootReads \/ BootEnds \/ BootFails
Next == (\E t \in Threads : StartSteps(t) \/ StopSteps(t) \/ abandon(t)) \/ OpSteps \/ Booting \/ Asks \/ Exits \/ PowerCut \/ Installs \/ previousInstaller
Spec == Init /\ [][Next]_vars
(* Every await ends: it has a time-out, or the process one waits for is     *)
(* killed when it does not exit.                                            *)
Operating == OpSteps \/ StartSteps("op") \/ StopSteps("op")
BootGoesOn == BootReads \/ BootEnds \/ StartSteps("boot") \/ StopSteps("boot")
FairSpec == Spec /\ WF_vars(Operating) /\ WF_vars(BootGoesOn) /\ WF_vars(Exits)

-----------------------------------------------------------------------------
(* What the threads, the processes and the versions are.                    *)
Processes == Range(Services) \X (1 .. MaxProcesses)
Working == {"start", "prepare", "spawn", "health", "started", "start failed", "stop", "stopped"}
Pcs == [boot |-> {Nil, "read"} \cup Working,
        op   |-> {Nil, "begin stop", "snapshot", "verify", "record", "launch", "give up",
                  "stage", "move", "swap", "forget", "quit", "end"} \cup Working]
Dos == [boot |-> {Nil, "boot"}, op |-> {Nil, "restart", "quit", "backup", "install", "restore"}]
Frames == [do : Dos["boot"] \cup Dos["op"], pc : Pcs["boot"] \cup Pcs["op"], n : Nat,
           left : Seq(Processes), failed : BOOLEAN, proc : Processes \cup {<<>>}]
Records == {r \in [from : 1 .. MaxVersion, to : 1 .. MaxVersion, data : 0 .. MaxVersion] :
              r.to = r.from + 1 /\ r.data <= r.from}
TypeOK ==
    /\ app \in BOOLEAN /\ updates \in BOOLEAN /\ mishap \in BOOLEAN
    /\ version \in 1 .. MaxVersion /\ data \in 0 .. MaxVersion /\ installer \in 0 .. MaxVersion
    /\ pending \in Records \cup {NoRecord} /\ recovery \in Records \cup {NoRecord}
    /\ children \in Seq(Processes) /\ \A i, j \in DOMAIN children : children[i] = children[j] => i = j
    /\ alive \subseteq Processes /\ asked \subseteq alive /\ alive \cap bad = {}
    /\ at \in [Threads -> Frames]
    /\ ~app => alive = {} /\ children = <<>> /\ at = [t \in Threads |-> Idle]

(* A thread takes the steps of what it does, counts the services it starts, *)
(* and has the shell to itself unless there was a mishap.                   *)
ThreadsOK ==
    /\ \A t \in Threads :
         /\ at[t].pc \in Pcs[t] /\ at[t].do \in Dos[t]
         /\ (at[t].do = Nil <=> at[t].pc = Nil)
         /\ at[t].pc \in {"prepare", "spawn", "health"} => at[t].n > 0
    /\ at["op"].pc \in {"verify", "record", "launch", "give up"} => at["op"].do = "install"
    /\ at["op"].pc \in {"stage", "move", "swap", "forget"} => at["op"].do = "restore"
    /\ ~mishap => \E t \in Threads : at[t].pc = Nil

(* The data is of the version installed or of an older one, except while a  *)
(* record says how to go back; the record names the two versions and is     *)
(* known to the application that booted, unless that has written another    *)
(* one for an update; and an installer puts one of them in place.           *)
Restores == at["op"].do = "restore" /\
    (at["op"].pc \in {"stage", "move", "swap", "forget"}
     \/ (at["op"].n = 0 /\ at["op"].pc \in {"begin stop", "stop", "stopped"}))
RecordsOK ==
    /\ pending # NoRecord => version \in {pending.from, pending.to}
    /\ data <= IF pending = NoRecord THEN version ELSE pending.to
    /\ installer # 0 => ~app /\ pending # NoRecord /\ installer \in {pending.from, pending.to}
    /\ (app /\ at["boot"].pc # "read") => recovery = pending \/ (updates /\ page = "wall")
    /\ (app /\ at["boot"].pc # "read" /\ at["op"].pc \notin {"launch", "give up"} /\ ~mishap)
         => pending \in {NoRecord, recovery}
    /\ (at["boot"].pc \notin {Nil, "read"} /\ pending # NoRecord) => version = pending.to
    /\ updates => /\ app /\ at["boot"].pc = Nil /\ data <= version
                  /\ (recovery # NoRecord => version = recovery.to)
    /\ at["boot"].pc = "read" => at["op"].pc = Nil
    /\ at["op"].do = "install" => updates /\ page = "wall" /\ version < MaxVersion
    /\ at["op"].pc = "launch" => pending # NoRecord
    /\ Restores => recovery # NoRecord /\ version = recovery.from
    /\ at["op"].pc = "forget" => data <= version

(* What runs is known, unless there was a mishap: it is among the children, *)
(* or still to be stopped; and after a stop nothing is left.                *)
ProcessesKnown == ~mishap =>
    /\ \A t \in Threads :
         /\ at[t].pc = "stop" => alive \subseteq Range(at[t].left)
         /\ at[t].pc \in {"stopped", "snapshot", "record", "launch", "stage", "move", "swap"} => children = <<>>
    /\ (\A t \in Threads : at[t].pc # "stop") => alive \subseteq Range(children)

(* Together they are inductive, and give the three properties below.        *)
ShellInv == TypeOK /\ ThreadsOK /\ RecordsOK /\ ProcessesKnown

(* "Snapshot requires all writers to stop": none runs when the snapshot is  *)
(* taken, unless the user restarted the services during the boot or one was *)
(* killed and ran on.                                                       *)
SnapshotIsQuiet == at["op"].pc \in {"snapshot", "record", "launch", "stage", "move", "swap"} /\ ~mishap => alive = {}

(* The boot does not start an old version on the data of a newer one.       *)
BootRespectsData == at["boot"].pc = "spawn" => data <= version

(* No record is left by an update that was given up: the next boot would    *)
(* refuse to start the version that is still installed. The code ignores    *)
(* that the record cannot be removed, and then it would.                    *)
RecordIsKnown == app /\ at = [t \in Threads |-> Idle] /\ ~mishap => pending \in {NoRecord, recovery}
=============================================================================
