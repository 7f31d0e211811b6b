----------------------------- MODULE BrowserSync -----------------------------
(* What the browsers of an account keep of it: its monitor preferences      *)
(* (MonitorPreferences), and a browser's sessions and paired identity       *)
(* (BrowserAuthorization).  A behaviour is one of one of the two; the other *)
(* rests.                                                                   *)
EXTENDS MonitorPreferences

CONSTANTS
    Account, Nobody,        \* accounts of the server; nobody is logged in
    Enrollment,             \* numbers of the enrolments the server may create
    Life, MaxTime,          \* the length of a grant, and the time, in ticks
    MaxActs, MaxTrouble     \* what the person does, and what goes wrong

VARIABLES
    part,   \* which of the systems this behaviour is of
    b_real, b_skew, b_online, b_cookie, b_granted, b_identity, b_snapshot,
    b_clock, b_active, b_session, b_left, b_check, b_logout, b_signin,
    b_expiry, b_pairing, b_sync, b_media, b_revived, b_acts, b_trouble

Browser == INSTANCE BrowserAuthorization WITH
    real <- b_real, skew <- b_skew, online <- b_online, cookie <- b_cookie,
    granted <- b_granted, identity <- b_identity, snapshot <- b_snapshot,
    clock <- b_clock, active <- b_active, session <- b_session,
    left <- b_left, check <- b_check, logout <- b_logout,
    signin <- b_signin, expiry <- b_expiry, pairing <- b_pairing,
    sync <- b_sync, media <- b_media, revived <- b_revived, acts <- b_acts,
    trouble <- b_trouble
BrowserVars == <<b_real, b_skew, b_online, b_cookie, b_granted, b_identity, b_snapshot,
    b_clock, b_active, b_session, b_left, b_check, b_logout, b_signin,
    b_expiry, b_pairing, b_sync, b_media, b_revived, b_acts, b_trouble>>

\* Nobody and the screen "unavailable" are told apart from accounts, and 0
\* from enrolments; a grant lasts.
ASSUME BrowserAssumption ==
    /\ {Nobody, "unavailable"} \cap Account = {}
    /\ Enrollment \subseteq Nat \ {0}
    /\ Life \in Nat \ {0} /\ MaxTime \in Nat \ {0}

all == <<part, vars, BrowserVars>>

AnyInit ==
    /\ part \in {"monitor", "browser"}
    /\ Init
    /\ Browser!Init

\* Only the system of the behaviour moves.
AnyNext ==
    \/ part = "monitor" /\ Next /\ UNCHANGED <<part, BrowserVars>>
    \/ part = "browser" /\ Browser!Next /\ UNCHANGED <<part, vars>>

\* The fairness of each system, on steps of its own.
Fairly ==
    /\ \A p \in Pages : WF_vars(part = "monitor" /\ PageStep(p))
    /\ WF_vars(part = "monitor" /\ (\E r \in wire : Put(r)))
    /\ WF_BrowserVars(part = "browser" /\ Browser!CheckAnswered)
    /\ WF_BrowserVars(part = "browser" /\ Browser!CheckFails)
    /\ WF_BrowserVars(part = "browser" /\ Browser!LoadOfflineStudio)
    /\ WF_BrowserVars(part = "browser" /\ Browser!CheckCleared)
    /\ WF_BrowserVars(part = "browser" /\ Browser!ExpiryFires)
    /\ WF_BrowserVars(part = "browser" /\ Browser!ExpiryCleared)
    /\ WF_BrowserVars(part = "browser" /\ Browser!SyncStarts)
    /\ WF_BrowserVars(part = "browser" /\ Browser!SyncAnswered)
    /\ WF_BrowserVars(part = "browser" /\ Browser!SyncCleared)
    /\ WF_BrowserVars(part = "browser" /\ Browser!SyncSaved)
    /\ WF_BrowserVars(part = "browser" /\ Browser!LogoutAnswered)
    /\ WF_BrowserVars(part = "browser" /\ Browser!LogoutCleared)
    /\ WF_BrowserVars(part = "browser" /\ Browser!Returns)
AnySpec == AnyInit /\ [][AnyNext]_all /\ Fairly

\* On a page nobody has left, a control the user has set never falls back
\* to an older choice of the same user, in whatever order saves are
\* answered; what a page sends, caches and shows beyond its baseline is its
\* own choices (useMonitorPreferences.ts). All as long as no control was set
\* back to a setting it had before, which the merges may take for no change
\* (monitorPreferenceMerge.ts:9-41).
SettingsKept ==
    /\ NeverFallsBack
    /\ []((part = "monitor") /\ ~setBack => PreferenceInv /\ OrderInv)

\* An account never works with the paired identity of another one, through
\* logouts, ended sessions, reloads and offline hours, unless a late answer
\* brought a deleted identity back; the workspace opens without the server
\* only on an approved identity and an offline copy, both valid on a clock
\* that was not set back (LoginGate.tsx:11-16, 67-77).
AccountsKeptApart ==
    /\ []((part = "browser") => Browser!BrowserInv /\ Browser!AccountsApart)
    /\ Browser!OfflineNeedsGrant

\* Once the users stop, every open page shows the account's preferences, but
\* for one that stays mounted after its private state was cleared;
\* the gate never keeps checking, an offline session whose authorisation
\* has run out is not shown for ever, and a revocation reaches the browser
\* somebody works in (LoginGate.tsx:36-71, syncRuntime.ts:190).
SyncedInTheEnd ==
    /\ (part = "monitor") => Converges
    /\ (part = "browser") => Browser!OfflineEnds /\ Browser!GateDecides /\ Browser!RevocationLands
=============================================================================
