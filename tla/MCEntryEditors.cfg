SPECIFICATION Spec
CONSTANTS
    None = None
    Failed = Failed
    Torn = Torn
    Texts <- TheTexts
    Passwords <- ThePasswords
    LongPasswords <- TheLongPasswords
    Secrets <- TheSecrets
    Salts <- TheSalts
    Keys <- TheKeys
    Workers <- TwoWorkers
    Persistent = FALSE
    SaltMayFail = FALSE
    RandomRepeats = FALSE
    Menu <- EditorsMenu
    Candidates <- Apart
    RandomKeys <- TheRandomKeys
INVARIANTS
    PromiseKept
