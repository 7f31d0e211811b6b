SPECIFICATION AnySpec
CONSTANTS
    Pages = {p1, p2}
    Controls = {volume, picture}
    MaxChoices = 2
    MaxFaults = 1
    MaxHides = 1
    None = None
    Account = {ann, ben}
    Nobody = nobody
    Enrollment = {1}
    Life = 1
    MaxTime = 2
    MaxActs = 4
    MaxTrouble = 2
CHECK_DEADLOCK FALSE
PROPERTIES
    PreferencesStore
    SettingsKept
    AccountsKeptApart
    SyncedInTheEnd
