SPECIFICATION Spec
CONSTANTS
    None = None
    Failed = Failed
    Torn = Torn
    Texts <- TheTexts
    Passwords <- ThePasswords
    LongPasswords <- TheLongPasswords
    Secrets <- TheSecrets
    Salts <- TheSalts
    Keys <- TheKeys
    Workers <- TwoWorkers
    Persistent = FALSE
    SaltMayFail = TRUE
    RandomRepeats = FALSE
    Menu <- MeetingMenu
    Candidates <- Meeting
    RandomKeys <- TheRandomKeys
INVARIANTS
    TypeOK
    PromiseKept
    ShownIsAuthorised
    NoPlaintext
PROPERTIES
    RefusedOnlyByEdits
    EntriesSettle
