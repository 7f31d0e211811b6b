---------------------------- MODULE NvrSegments ----------------------------
(***************************************************************************)
(* Recorded segments of the NVR service (nvr/nvr_service.py): capture into *)
(* a partial file, catalog rows, evidence locks, reader pins and playback  *)
(* leases, deletion, and the maintenance thread with its retention,        *)
(* migration and scrub passes; process crashes and the reconciliation that *)
(* every start runs.                                                       *)
(*                                                                         *)
(* File-system changes and catalog statements are separate steps, so that  *)
(* a crash may fall between any two of them; reader_lock is held across    *)
(* the steps the code holds it across.  A maintenance pass works from rows *)
(* it has read before; only this one thread moves segments between         *)
(* volumes, so the volume of such a row is still the current one.          *)
(*                                                                         *)
(* Abstractions: quotas, ages and watermarks decide nothing but whether a  *)
(* pass acts, which is left open; catalog statements succeed; a segment    *)
(* that was renamed to its final name can be probed; pre-event rings, the  *)
(* S3 archive and cameras removed from the configuration are left out.     *)
(***************************************************************************)
EXTENDS Naturals

CONSTANTS
    Segments,   \* segment ids
    Volumes,    \* recording volumes in use: the mounted ones, or the default
    None,       \* model value: no segment, no volume
    MaxReaders, \* bound on the readers of one segment
    MaxCrashes  \* bound on restarts

ASSUME SegmentsAssumption ==
    /\ None \notin Segments /\ None \notin Volumes
    /\ MaxReaders \in Nat /\ MaxCrashes \in Nat

VARIABLES
    row,      \* segments table
    media,    \* finished files: <<volume, segment>>
    partials, \* files still being written: <<volume, segment>>
    capture,  \* the recorder's progress with each segment
    readers,  \* active_readers
    lease,    \* playback_leases: none, live or expired
    holder,   \* reader_lock held from one step to the next, by whom, for what
    scan,     \* the pass of the maintenance thread and the rows left in it
    phase,    \* serving or reconciling
    born,     \* bound: segment ids used so far
    unlinked, \* observation: segments whose media was deleted on purpose
    strays,   \* observation: second copies migrations have left behind
    crashes   \* bound: restarts so far

files == <<media, partials>>
readersVars == <<readers, lease>>
history == <<born, unlinked, strays, crashes>>
vars == <<row, media, partials, capture, readers, lease, holder, scan, phase, born, unlinked, strays, crashes>>

-----------------------------------------------------------------------------
Integrities == {"absent", "verified", "recovered", "reconciled", "corrupt",
                "missing", "migration-failed", "deleted"}
Row == [integrity : Integrities, locked : BOOLEAN, volume : Volumes \cup {None}]
NoRow == [integrity |-> "absent", locked |-> FALSE, volume |-> None]
Holders == {"none", "delete", "retention", "switch", "unlink"}
Holder == [who : Holders, segment : Segments \cup {None}]
Free == [who |-> "none", segment |-> None]
Passes == {"none", "retention", "migrate", "scrub"}
Scan == [pass : Passes, rows : SUBSET Segments,
         source : Volumes \cup {None}, target : Volumes \cup {None}]
NoScan == [pass |-> "none", rows |-> {}, source |-> None, target |-> None]

Init ==
    /\ row = [s \in Segments |-> NoRow]
    /\ media = {}
    /\ partials = {}
    /\ capture = [s \in Segments |-> "none"]
    /\ readers = [s \in Segments |-> 0]
    /\ lease = [s \in Segments |-> "none"]
    /\ holder = Free
    /\ scan = NoScan
    /\ phase = "serving"
    /\ born = {}
    /\ unlinked = {} /\ strays = {}
    /\ crashes = 0

Exists(s) == row[s].integrity \notin {"absent", "deleted"}
\* segment_row
Visible(s) == row[s].integrity \notin {"absent", "deleted", "missing"}
Located(s) == <<row[s].volume, s>>
Serving == phase = "serving"
LockFree == holder = Free
\* _segment_active; expired leases count until somebody prunes them.
Active(s) == readers[s] > 0 \/ lease[s] # "none"
ActiveNow(s) == readers[s] > 0 \/ lease[s] = "live"
\* _expire_playback_leases
Pruned == [s \in Segments |-> IF lease[s] = "expired" THEN "none" ELSE lease[s]]

-----------------------------------------------------------------------------
(* Recorder.                                                               *)

CaptureStart(s, v) ==
    /\ Serving
    /\ s \notin born
    /\ born' = born \cup {s}
    /\ partials' = partials \cup {<<v, s>>}
    /\ capture' = [capture EXCEPT ![s] = "writing"]
    /\ UNCHANGED <<row, media, readersVars, holder, scan, phase, unlinked, strays, crashes>>

\* A failed capture leaves its partial file for the next start.
CaptureFail(s) ==
    /\ Serving
    /\ capture[s] = "writing"
    /\ capture' = [capture EXCEPT ![s] = "none"]
    /\ UNCHANGED <<row, files, readersVars, holder, scan, phase, history>>

\* os.replace(partial, final)
CaptureRename(s) ==
    /\ Serving
    /\ capture[s] = "writing"
    /\ \E v \in Volumes :
         /\ <<v, s>> \in partials
         /\ partials' = partials \ {<<v, s>>}
         /\ media' = media \cup {<<v, s>>}
    /\ capture' = [capture EXCEPT ![s] = "finalized"]
    /\ UNCHANGED <<row, readersVars, holder, scan, phase, history>>

\* add_segment
CaptureCatalog(s) ==
    /\ Serving
    /\ capture[s] = "finalized"
    /\ \E v \in Volumes :
         /\ <<v, s>> \in media
         /\ row' = [row EXCEPT ![s] = [integrity |-> "verified",
                                       locked |-> FALSE, volume |-> v]]
    /\ capture' = [capture EXCEPT ![s] = "none"]
    /\ UNCHANGED <<files, readersVars, holder, scan, phase, history>>

-----------------------------------------------------------------------------
(* Readers, leases, locks.                                                 *)

PinSegment(s) ==
    /\ Serving /\ LockFree
    /\ Visible(s)
    /\ readers[s] < MaxReaders
    /\ readers' = [readers EXCEPT ![s] = @ + 1]
    /\ UNCHANGED <<row, files, capture, lease, holder, scan, phase, history>>

UnpinSegment(s) ==
    /\ Serving /\ LockFree
    /\ readers[s] > 0
    /\ readers' = [readers EXCEPT ![s] = @ - 1]
    /\ UNCHANGED <<row, files, capture, lease, holder, scan, phase, history>>

CreatePlaybackLease(s) ==
    /\ Serving /\ LockFree
    /\ Visible(s)
    /\ lease' = [Pruned EXCEPT ![s] = "live"]
    /\ UNCHANGED <<row, files, capture, readers, holder, scan, phase, history>>

ReleasePlaybackLease(s) ==
    /\ Serving /\ LockFree
    /\ lease[s] # "none"
    /\ lease' = [lease EXCEPT ![s] = "none"]
    /\ UNCHANGED <<row, files, capture, readers, holder, scan, phase, history>>

LeaseExpires(s) ==
    /\ lease[s] = "live"
    /\ lease' = [lease EXCEPT ![s] = "expired"]
    /\ UNCHANGED <<row, files, capture, readers, holder, scan, phase, history>>

SetLock(s, value) ==
    /\ Serving /\ LockFree
    /\ Exists(s)
    /\ row' = [row EXCEPT ![s].locked = value]
    /\ UNCHANGED <<files, capture, readersVars, holder, scan, phase, history>>

-----------------------------------------------------------------------------
(* delete_segment: checks, unlink and catalog under one hold of the lock.  *)

DeleteUnlink(s) ==
    /\ Serving /\ LockFree
    /\ Visible(s)
    /\ ~row[s].locked
    /\ lease' = Pruned
    /\ IF ~ActiveNow(s) /\ Located(s) \in media
       THEN /\ media' = media \ {Located(s)}
            /\ unlinked' = unlinked \cup {s}
            /\ holder' = [who |-> "delete", segment |-> s]
       ELSE UNCHANGED <<media, unlinked, holder>>
    /\ UNCHANGED <<row, partials, capture, readers, scan, phase, born, strays, crashes>>

DeleteMark(s) ==
    /\ Serving
    /\ holder = [who |-> "delete", segment |-> s]
    /\ row' = [row EXCEPT ![s].integrity = "deleted"]
    /\ holder' = Free
    /\ UNCHANGED <<files, capture, readersVars, scan, phase, history>>

-----------------------------------------------------------------------------
(* Maintenance thread.  A pass reads its rows once, then takes reader_lock *)
(* for every row anew.                                                     *)

Next1(s) == [scan EXCEPT !.rows = @ \ {s}]

\* A row that is in use, or that the policy does not ask for, is passed over.
ScanSkip(s) ==
    /\ Serving /\ LockFree
    /\ s \in scan.rows
    /\ scan' = Next1(s)
    /\ lease' = IF scan.pass = "retention" THEN Pruned ELSE lease
    /\ UNCHANGED <<row, files, capture, readers, holder, phase, history>>

ScanEnd ==
    /\ Serving /\ LockFree
    /\ scan.pass # "none"
    /\ scan.rows = {}
    /\ scan' = NoScan
    /\ UNCHANGED <<row, files, capture, readersVars, holder, phase, history>>

RetentionScan ==
    /\ Serving
    /\ scan = NoScan
    /\ scan' = [NoScan EXCEPT !.pass = "retention",
                  !.rows = {s \in Segments : Visible(s) /\ ~row[s].locked}]
    /\ UNCHANGED <<row, files, capture, readersVars, holder, phase, history>>

\* Mutant: the lock is not read again before the file is removed.
RetainableStale(s) == ~ActiveNow(s) /\ row[s].integrity # "deleted"
Retainable(s) == /\ ~ActiveNow(s)
                 /\ ~row[s].locked
                 /\ row[s].integrity # "deleted"

RetentionUnlink(s) ==
    /\ Serving /\ LockFree
    /\ scan.pass = "retention"
    /\ s \in scan.rows
    /\ Retainable(s)
    /\ lease' = Pruned
    /\ media' = media \ {Located(s)}
    /\ unlinked' = unlinked \cup {s}
    /\ holder' = [who |-> "retention", segment |-> s]
    /\ scan' = Next1(s)
    /\ UNCHANGED <<row, partials, capture, readers, phase, born, strays, crashes>>

RetentionMark(s) ==
    /\ Serving
    /\ holder = [who |-> "retention", segment |-> s]
    /\ row' = [row EXCEPT ![s].integrity = "deleted"]
    /\ holder' = Free
    /\ UNCHANGED <<files, capture, readersVars, scan, phase, history>>

MigrateScan(v, w) ==
    /\ Serving
    /\ scan = NoScan
    /\ v # w
    /\ scan' = [pass |-> "migrate", source |-> v, target |-> w,
                rows |-> {s \in Segments : /\ Visible(s)
                                           /\ row[s].integrity # "corrupt"
                                           /\ row[s].volume = v
                                           /\ ~row[s].locked}]
    /\ UNCHANGED <<row, files, capture, readersVars, holder, phase, history>>

\* Mutant: a segment in use is moved.
MovableWhileRead(s) == row[s].integrity # "absent" /\ ~row[s].locked
\* What the second look under reader_lock checks: not the integrity.
Movable(s) == /\ ~Active(s)
              /\ row[s].integrity # "absent"
              /\ ~row[s].locked

\* Copy to a temporary file, digest check, os.replace.  A source that is
\* gone or a copy that differs ends the pass with a mark on the row.
MigrateCopy(s, copied) ==
    /\ Serving /\ LockFree
    /\ scan.pass = "migrate"
    /\ s \in scan.rows
    /\ Movable(s)
    /\ IF copied /\ <<scan.source, s>> \in media
       THEN /\ media' = media \cup {<<scan.target, s>>}
            /\ strays' = strays \ {<<scan.target, s>>}
            /\ holder' = [who |-> "switch", segment |-> s]
            /\ UNCHANGED <<row, scan>>
       ELSE /\ row' = [row EXCEPT ![s].integrity = "migration-failed"]
            /\ scan' = NoScan
            /\ UNCHANGED <<media, strays, holder>>
    /\ UNCHANGED <<partials, capture, readersVars, phase, born, unlinked, crashes>>

\* Mutant: the catalog keeps the old location.
MigrateSwitchForgotten(s) ==
    /\ Serving
    /\ holder = [who |-> "switch", segment |-> s]
    /\ holder' = [who |-> "unlink", segment |-> s]
    /\ UNCHANGED <<row, files, capture, readersVars, scan, phase, history>>

\* Mutant: the pass ends with the switch.
MigrateSwitchOnly(s) ==
    /\ Serving
    /\ holder = [who |-> "switch", segment |-> s]
    /\ row' = [row EXCEPT ![s].volume = scan.target]
    /\ holder' = Free /\ scan' = NoScan
    /\ UNCHANGED <<files, capture, readersVars, phase, history>>

MigrateSwitch(s) ==
    /\ Serving
    /\ holder = [who |-> "switch", segment |-> s]
    /\ row' = [row EXCEPT ![s].volume = scan.target]
    /\ holder' = [who |-> "unlink", segment |-> s]
    /\ UNCHANGED <<files, capture, readersVars, scan, phase, history>>

\* An error of the last unlink is suppressed: nothing ever removes the copy.
MigrateUnlink(s, removed) ==
    /\ Serving
    /\ holder = [who |-> "unlink", segment |-> s]
    /\ IF removed THEN media' = media \ {<<scan.source, s>>} /\ UNCHANGED strays
                  ELSE strays' = strays \cup {<<scan.source, s>>} /\ UNCHANGED media
    /\ holder' = Free
    /\ scan' = NoScan
    /\ UNCHANGED <<row, partials, capture, readersVars, phase, born, unlinked, crashes>>

ScrubScan ==
    /\ Serving
    /\ scan = NoScan
    /\ scan' = [NoScan EXCEPT !.pass = "scrub",
                  !.rows = {s \in Segments : Visible(s) /\ row[s].integrity # "corrupt"}]
    /\ UNCHANGED <<row, files, capture, readersVars, holder, phase, history>>

\* Hash and UPDATE run without the lock and without a second look.
ScrubCheck(s, intact) ==
    /\ Serving
    /\ scan.pass = "scrub"
    /\ s \in scan.rows
    /\ ~Active(s)
    /\ row' = IF intact /\ Located(s) \in media THEN row
              ELSE [row EXCEPT ![s].integrity = "corrupt"]
    /\ scan' = Next1(s)
    /\ UNCHANGED <<files, capture, readersVars, holder, phase, history>>

-----------------------------------------------------------------------------
(* Crash, and reconcile() in the constructor of the next process.          *)

\* The copy of segment s that a migration holding the lock is making or is
\* about to remove: the one the catalog does not name.
Extra(s, v) ==
    /\ holder.segment = s
    /\ \/ holder.who = "switch" /\ v = scan.target
       \/ holder.who = "unlink" /\ v = scan.source

Crash ==
    /\ crashes < MaxCrashes
    /\ crashes' = crashes + 1
    /\ strays' = strays \cup {f \in media : Extra(f[2], f[1])}
    /\ phase' = "reconciling"
    /\ capture' = [s \in Segments |-> "none"]
    /\ readers' = [s \in Segments |-> 0]
    /\ lease' = [s \in Segments |-> "none"]
    /\ holder' = Free
    /\ scan' = NoScan
    /\ UNCHANGED <<row, files, born, unlinked>>

\* Mutant: a found file is entered under a state no other code knows.
AddedAsOrphan(s, v, integrity) ==
    IF row[s].integrity # "absent" THEN row
    ELSE [row EXCEPT ![s] = [integrity |-> "orphan", locked |-> FALSE, volume |-> v]]

\* INSERT OR IGNORE: a segment that has a row, in any volume, keeps it.
Added(s, v, integrity) ==
    IF row[s].integrity # "absent" THEN row
    ELSE [row EXCEPT ![s] = [integrity |-> integrity, locked |-> FALSE, volume |-> v]]

\* A partial file that can be probed becomes a segment, another one moves to
\* quarantine.
ReconcilePartial(s, v, probed) ==
    /\ phase = "reconciling"
    /\ <<v, s>> \in partials
    /\ partials' = partials \ {<<v, s>>}
    /\ media' = IF probed THEN media \cup {<<v, s>>} ELSE media
    /\ row' = IF probed THEN Added(s, v, "recovered") ELSE row
    /\ UNCHANGED <<capture, readersVars, holder, scan, phase, history>>

\* Mutant: files left by a crash between rename and catalog stay unknown.
OrphanNever(s, v) == <<v, s>> \in partials /\ <<v, s>> \in media
Orphan(s, v) == <<v, s>> \in media /\ row[s].integrity = "absent"

ReconcileOrphan(s, v) ==
    /\ phase = "reconciling"
    /\ Orphan(s, v)
    /\ row' = Added(s, v, "reconciled")
    /\ UNCHANGED <<files, capture, readersVars, holder, scan, phase, history>>

ReconcileMissing(s) ==
    /\ phase = "reconciling"
    /\ Visible(s)
    /\ Located(s) \notin media
    /\ row' = [row EXCEPT ![s].integrity = "missing"]
    /\ UNCHANGED <<files, capture, readersVars, holder, scan, phase, history>>

ReconcileDone ==
    /\ phase = "reconciling"
    /\ partials = {}
    /\ \A s \in Segments : /\ \A v \in Volumes : ~Orphan(s, v)
                           /\ Visible(s) => Located(s) \in media
    /\ phase' = "serving"
    /\ UNCHANGED <<row, files, capture, readersVars, holder, scan, history>>

-----------------------------------------------------------------------------
RecorderStep(s) ==
    \/ \E v \in Volumes : CaptureStart(s, v)
    \/ CaptureFail(s) \/ CaptureRename(s) \/ CaptureCatalog(s)
RequestStep(s) ==
    \/ PinSegment(s) \/ UnpinSegment(s)
    \/ CreatePlaybackLease(s) \/ ReleasePlaybackLease(s) \/ LeaseExpires(s)
    \/ \E value \in BOOLEAN : SetLock(s, value)
    \/ DeleteUnlink(s) \/ DeleteMark(s)
MaintenanceStep ==
    \/ ScanEnd \/ RetentionScan \/ ScrubScan
    \/ \E v, w \in Volumes : MigrateScan(v, w)
    \/ \E s \in Segments :
         \/ ScanSkip(s) \/ RetentionUnlink(s) \/ RetentionMark(s)
         \/ MigrateSwitch(s)
         \/ \E ok \in BOOLEAN : \/ MigrateCopy(s, ok) \/ MigrateUnlink(s, ok)
                                \/ ScrubCheck(s, ok)
ReconcileStep ==
    \/ \E s \in Segments :
         \/ \E v \in Volumes : \/ ReconcileOrphan(s, v)
                               \/ \E ok \in BOOLEAN : ReconcilePartial(s, v, ok)
         \/ ReconcileMissing(s)
    \/ ReconcileDone

Next ==
    \/ \E s \in Segments : RecorderStep(s) \/ RequestStep(s)
    \/ MaintenanceStep
    \/ Crash
    \/ ReconcileStep

Spec == Init /\ [][Next]_vars

-----------------------------------------------------------------------------
(* Properties.                                                             *)

TypeOK ==
    /\ row \in [Segments -> Row]
    /\ media \subseteq Volumes \X Segments
    /\ partials \subseteq Volumes \X Segments
    /\ capture \in [Segments -> {"none", "writing", "finalized"}]
    /\ readers \in [Segments -> Nat]
    /\ lease \in [Segments -> {"none", "live", "expired"}]
    /\ holder \in Holder
    /\ scan \in Scan
    /\ phase \in {"serving", "reconciling"}
    /\ born \subseteq Segments
    /\ unlinked \subseteq Segments /\ strays \subseteq Volumes \X Segments
    /\ crashes \in Nat

\* Recordings are lost only by deletion: whatever maintenance, crashes and
\* restarts do, the catalog's location of a segment nobody deleted holds its
\* media, at every moment.
NothingLost ==
    \A s \in Segments :
        row[s].integrity # "absent" /\ s \notin unlinked => Located(s) \in media

\* Media under an evidence lock, a reader or an unexpired lease stays where
\* the catalog says it is; no pass that read its rows earlier takes it away.
ProtectedMediaStays ==
    [][\A s \in Segments :
          /\ row[s].locked \/ ActiveNow(s)
          /\ Located(s) \in media
          => Located(s)' \in media' /\ row'[s].integrity # "deleted"]_vars

\* The path handed to a reader stays valid: no volume change under a pin.
PinnedPathStays ==
    [][\A s \in Segments :
          readers[s] > 0 /\ readers'[s] > 0 => row'[s].volume = row[s].volume]_vars

\* Every finished file is of a segment the catalog has, up to the moment
\* between a capture's rename and its INSERT; a crash in that moment is made
\* good.
NoOrphans ==
    phase = "serving" =>
        \A s \in Segments, v \in Volumes :
            <<v, s>> \in media =>
                row[s].integrity # "absent" \/ capture[s] = "finalized"

\* A file lies where the catalog says its segment is. The only others are the
\* second copy a migration is making or about to remove, and those it left
\* behind when it was cut short or its unlink failed
\* (nvr_service.py:1018-1023): no restart removes or enters them, as their
\* segment has a row, and they outlive its deletion; only a migration to
\* their volume takes them over.
CopiesAccounted ==
    \A s \in Segments, v \in Volumes :
        <<v, s>> \in media /\ row[s].integrity # "absent" =>
            v = row[s].volume \/ Extra(s, v) \/ <<v, s>> \in strays

(* What the steps of one operation rely on between them, whoever comes in   *)
(* between: the two properties above hold because of these.                *)

\* Only segments whose capture was begun have files, rows or readers; a
\* segment that is still captured, or left as a partial file, has no row,
\* and a segment without a row has one file at most.
BornOnce ==
    \A s \in Segments :
        /\ s \notin born => /\ row[s].integrity = "absent" /\ capture[s] = "none"
                            /\ \A v \in Volumes : <<v, s>> \notin media \cup partials
        /\ row[s].integrity = "absent" => row[s] = NoRow
        /\ capture[s] # "none" => row[s].integrity = "absent"
        /\ readers[s] > 0 => row[s].integrity # "absent"
        /\ row[s].integrity = "absent" =>
              \A v, w \in Volumes : <<v, s>> \in media /\ <<w, s>> \in media => v = w
        /\ \A v \in Volumes : <<v, s>> \in partials =>
              /\ row[s].integrity = "absent" /\ capture[s] # "finalized"
              /\ \A w \in Volumes : <<w, s>> \notin media /\ (w # v => <<w, s>> \notin partials)

\* What was deleted on purpose is not where the catalog says it was, and
\* never comes back there, whichever integrity a later pass writes.
DeletedIsGone ==
    \A s \in Segments :
        /\ s \in unlinked => row[s].integrity # "absent" /\ Located(s) \notin media
        /\ row[s].integrity = "deleted" => s \in unlinked

\* Who holds the lock from one step to the next has done what its next step
\* takes for granted: a deletion its unlink, a migration its copy and, at
\* the end, the catalog's switch to it.
HolderReady ==
    /\ holder.who # "none" => holder.segment \in Segments
    /\ holder.who \in {"delete", "retention"} => holder.segment \in unlinked
    /\ holder.who \in {"switch", "unlink"} =>
          /\ scan.pass = "migrate"
          /\ row[holder.segment].integrity # "absent"
          /\ <<scan.target, holder.segment>> \in media
          /\ holder.segment \notin unlinked
    /\ holder.who = "switch" => /\ row[holder.segment].volume = scan.source
                                /\ readers[holder.segment] = 0
    /\ holder.who = "unlink" => row[holder.segment].volume = scan.target

\* The rows a pass has read are still rows, and those of a migration are
\* still on the volume it empties.
ScanCurrent ==
    /\ \A s \in scan.rows : row[s].integrity # "absent"
    /\ scan.pass = "migrate" =>
          /\ scan.source \in Volumes /\ scan.target \in Volumes /\ scan.source # scan.target
          /\ holder.who # "unlink" => \A s \in scan.rows : row[s].volume = scan.source

\* A starting process does nothing but reconcile.
StartsIdle ==
    phase = "reconciling" =>
        /\ \A s \in Segments : capture[s] = "none" /\ readers[s] = 0
        /\ holder = Free /\ scan = NoScan

\* Catalog and volumes agree: what the catalog has is on its volume, and what
\* is on a volume gets into the catalog or is a copy a migration accounts for,
\* whatever falls between two steps.
CatalogMatchesVolumes ==
    /\ TypeOK /\ NothingLost /\ NoOrphans /\ CopiesAccounted
    /\ BornOnce /\ DeletedIsGone /\ HolderReady /\ ScanCurrent /\ StartsIdle

-----------------------------------------------------------------------------
(* A statement of the documentation that the code does not keep.           *)

\* Deletion is irreversible.  (Scrub and a failed migration overwrite the
\* integrity of a row that was deleted after they had read it.)
DeletedIsFinal ==
    [][\A s \in Segments :
          row[s].integrity = "deleted" => row'[s].integrity = "deleted"]_vars
=============================================================================
