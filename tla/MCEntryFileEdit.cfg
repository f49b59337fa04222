SPECIFICATION Spec
CONSTANTS
    None = None
    Failed = Failed
    Torn = Torn
    Texts <- TheTexts
    Passwords <- ThePasswords
    LongPasswords <- TheLongPasswords
    Secrets <- TheSecrets
    Salts <- TheSalts
    Keys <- TheKeys
    Workers <- OneWorker
    Persistent = TRUE
    SaltMayFail = FALSE
    RandomRepeats = FALSE
    Menu <- OwnerMenu
    Candidates <- Apart
    RandomKeys <- TheRandomKeys
INVARIANTS
    PromiseKept
