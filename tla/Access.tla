------------------------------- MODULE Access -------------------------------
(* Devices, the pages that share what the server keeps, and the desktop,    *)
(* side by side: a browser's layouts and the server's (DeviceSync), the     *)
(* page on which administrators manage clients (ClientManagement), the      *)
(* profiles in the account (ConfigProfiles), the controls of sources in     *)
(* several windows (SourceControls) and the desktop shell that owns the     *)
(* services' processes and data (DesktopShell).  A behaviour is one of one  *)
(* of them; the others rest.                                                *)
EXTENDS DeviceSync, Sequences

CONSTANTS
    Enrollment, Client,     \* what administrators approve and revoke
    NoTarget,               \* an approval that creates a new device
    MaxRequests, MaxOthers,
    Profile,                \* configuration profiles
    MaxProfiles, MaxOperations, MaxTrouble,
    Sources, SceneOf,       \* sources, and those on each window's wall
    MaxAdjustments, MaxSaves,
    Services, Ported,       \* the desktop's services, and those with a port
    MaxProcesses, MaxVersion, MaxActs

\* Enrolments and devices are told apart by their names.
ASSUME AccessAssumption ==
    /\ NoTarget \notin Enrollment \cup Client /\ Enrollment \cap Client = {}
    /\ None \notin Profile
    /\ Services \in Seq({Services[i] : i \in DOMAIN Services})
    /\ {MaxRequests, MaxOthers, MaxProfiles, MaxOperations, MaxTrouble, MaxAdjustments,
        MaxSaves, MaxProcesses, MaxVersion, MaxActs} \subseteq Nat
    /\ MaxVersion > 0

VARIABLES
    part,   \* which of the systems this behaviour is of
    f_account, f_cache, f_op, f_panel, f_shell, f_version, f_acts,
    f_trouble, f_made, f_overwritten, f_stale, f_crossed,
    c_doc, c_window, c_edits, c_chosen, c_defaults, c_late,
    g_server, g_shown, g_phase, g_owner, g_wire, g_reads, g_checking,
    g_attempts, g_confirmed, g_late, g_acts, g_others,
    d_app, d_updates, d_version, d_data, d_pending, d_installer, d_children, d_alive,
    d_asked, d_bad, d_phase, d_stopping, d_page, d_recovery, d_at, d_acts,
    d_trouble, d_mishap

Profiles == INSTANCE ConfigProfiles WITH
    MaxVersion <- MaxProfiles, MaxActs <- MaxOperations,
    account <- f_account, cache <- f_cache, op <- f_op, panel <- f_panel,
    shell <- f_shell, version <- f_version, acts <- f_acts,
    trouble <- f_trouble, made <- f_made, overwritten <- f_overwritten,
    stale <- f_stale, crossed <- f_crossed
ProfilesVars == <<f_account, f_cache, f_op, f_panel, f_shell, f_version, f_acts,
    f_trouble, f_made, f_overwritten, f_stale, f_crossed>>
Adjusted == INSTANCE SourceControls WITH
    MaxEdits <- MaxAdjustments, doc <- c_doc, window <- c_window,
    edits <- c_edits, chosen <- c_chosen, defaults <- c_defaults,
    late <- c_late
AdjustedVars == <<c_doc, c_window, c_edits, c_chosen, c_defaults, c_late>>
Management == INSTANCE ClientManagement WITH
    MaxActs <- MaxRequests, server <- g_server, shown <- g_shown, phase <- g_phase,
    owner <- g_owner, wire <- g_wire, reads <- g_reads,
    checking <- g_checking, attempts <- g_attempts,
    confirmed <- g_confirmed, late <- g_late, acts <- g_acts,
    others <- g_others
ManagementVars == <<g_server, g_shown, g_phase, g_owner, g_wire, g_reads, g_checking,
    g_attempts, g_confirmed, g_late, g_acts, g_others>>
Desktop == INSTANCE DesktopShell WITH
    app <- d_app, updates <- d_updates, version <- d_version,
    data <- d_data, pending <- d_pending, installer <- d_installer,
    children <- d_children, alive <- d_alive, asked <- d_asked,
    bad <- d_bad, phase <- d_phase, stopping <- d_stopping, page <- d_page,
    recovery <- d_recovery, at <- d_at, acts <- d_acts,
    trouble <- d_trouble, mishap <- d_mishap
DesktopVars == <<d_app, d_updates, d_version, d_data, d_pending, d_installer, d_children, d_alive,
    d_asked, d_bad, d_phase, d_stopping, d_page, d_recovery, d_at, d_acts,
    d_trouble, d_mishap>>

all == <<part, vars, ProfilesVars, AdjustedVars, ManagementVars, DesktopVars>>

AnyInit ==
    /\ part \in {"device", "profiles", "controls", "management", "desktop"}
    /\ Init
    /\ Profiles!Init
    /\ Adjusted!Init
    /\ Management!Init
    /\ Desktop!Init

\* Only the system of the behaviour moves.
AnyNext ==
    \/ part = "device" /\ Next
       /\ UNCHANGED <<part, ProfilesVars, AdjustedVars, ManagementVars, DesktopVars>>
    \/ part = "profiles" /\ Profiles!Next
       /\ UNCHANGED <<part, vars, AdjustedVars, ManagementVars, DesktopVars>>
    \/ part = "controls" /\ Adjusted!Next
       /\ UNCHANGED <<part, vars, ProfilesVars, ManagementVars, DesktopVars>>
    \/ part = "management" /\ Management!Next
       /\ UNCHANGED <<part, vars, ProfilesVars, AdjustedVars, DesktopVars>>
    \/ part = "desktop" /\ Desktop!Next
       /\ UNCHANGED <<part, vars, ProfilesVars, AdjustedVars, ManagementVars>>

\* The fairness of each system, on steps of its own.
Fairly ==
    /\ WF_vars(part = "device" /\ (\E w \in Windows : SyncStep(w)))
    /\ WF_ManagementVars(part = "management" /\ Management!Mutation)
    /\ WF_ManagementVars(part = "management" /\ Management!Reading)
    /\ WF_ManagementVars(part = "management" /\ (Management!ReconcileAnswers \/ Management!ReconcileFails))
    /\ WF_DesktopVars(part = "desktop" /\ Desktop!Operating)
    /\ WF_DesktopVars(part = "desktop" /\ Desktop!BootGoesOn)
    /\ WF_DesktopVars(part = "desktop" /\ Desktop!Exits)
AnySpec == AnyInit /\ [][AnyNext]_all /\ Fairly

\* What pages show of what they share is so. A request whose outcome the
\* page of clients no longer calls unknown never takes effect afterwards,
\* and an approval that was confirmed is not undone by a list read before
\* it (useManagementActions.ts:45, 57-60). The account holds of each
\* profile what the last save or deletion made of it, its selection exists
\* and the panel shows it (ConfigProfiles.tsx, localRuntime.ts). A control
\* that somebody adjusted has a value that somebody gave it: another
\* window's first adjustment of the same source does not put it back
\* (DirectPreview.tsx:694, 716).
PagesAreHonest ==
    /\ (part = "management") =>
         Management!ManagementInv /\ Management!NoLateEffect /\ Management!ConfirmedStays
    /\ (part = "profiles") =>
         /\ Profiles!ProfilesInv
         /\ Profiles!SelectionExists /\ Profiles!PanelCurrent
    /\ (part = "controls") => Adjusted!ControlsInv /\ Adjusted!NoControlFallsBack

\* No service runs while a snapshot of the data is taken, unless the user
\* restarted the services during the boot or a killed one ran on; the boot
\* does not start an old version on the data of a newer one; no record is
\* left by an update that was given up, unless it could not be removed
\* (desktop/main.mjs, supervisor.mjs, updates.mjs).
DataMatchesServices == (part = "desktop") =>
    /\ Desktop!ShellInv /\ Desktop!SnapshotIsQuiet
    /\ Desktop!BootRespectsData /\ Desktop!RecordIsKnown

\* Whatever is queued is uploaded or waits for the user's choice, unless it
\* is more than one request carries or a scene the server refuses
\* (syncRuntime.ts:256-264), and a device with nothing left to upload ends
\* with the server's scenes;
\* nothing is in progress for ever, and the lists catch up with the server
\* (useManagementActions.ts:43, 72); every operation of the desktop shell
\* ends.
AtRest ==
    /\ (part = "device") => Uploaded /\ Converged
    /\ (part = "management") => Management!CaughtUp
Free(k) ==
    /\ (part = "management") => ~Management!InProgress(k)
    /\ (part = "desktop") => ~Desktop!operating
AccessSettles == <>[]AtRest /\ \A k \in Management!Key : []<>Free(k)
=============================================================================
