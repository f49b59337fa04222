SPECIFICATION FairSpec
CONSTANTS
    None = None
    Failed = Failed
    Torn = Torn
    Texts <- TheTexts
    Passwords <- ThePasswords
    LongPasswords <- TheLongPasswords
    Secrets <- TheSecrets
    Salts <- TheSalts
    Keys <- MoreKeys
    Workers <- TwoWorkers
    Persistent = FALSE
    SaltMayFail = FALSE
    RandomRepeats = FALSE
    Menu <- CreatorMenu
    Candidates <- ApartWithRoom
    RandomKeys <- MoreRandomKeys
INVARIANTS
    PromiseKept
    OneKeyPerInput
PROPERTIES
    Answered
