SPECIFICATION Spec
CONSTANTS
    None = None
    Failed = Failed
    Torn = Torn
    Texts <- TheTexts
    Passwords <- ThePasswords
    LongPasswords <- TheLongPasswords
    Secrets <- TheSecrets
    Salts <- TheSalts
    Keys <- TheKeys
    Workers <- OneWorker
    Persistent = FALSE
    SaltMayFail = FALSE
    RandomRepeats = FALSE
    Menu <- SameTextMenu
    Candidates <- Colliding
    RandomKeys <- SharedRandomKeys
INVARIANTS
    PromiseKept
