SPECIFICATION Spec
CONSTANTS
    None = None
    Failed = Failed
    Torn = Torn
    Texts <- TheTexts
    Passwords <- ThePasswords
    LongPasswords <- TheLongPasswords
    Secrets <- TheSecrets
    Salts <- TheSalts
    Keys <- TheKeys
    Workers <- TwoWorkers
    Persistent = FALSE
    SaltMayFail = FALSE
    RandomRepeats = TRUE
    Menu <- ClashMenu
    Candidates <- Colliding
    RandomKeys <- TheRandomKeys
INVARIANTS
    OneKeyPerInput
