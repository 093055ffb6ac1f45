\* Two configs (made by new or clone) over four KEMs, each with its own
\* PRNG: a two-byte test pool, two ChaCha20 draws, one test seed.
CONSTANTS
    Configs <- KemConfigs
    PoolLen = 2
    KeyLen = 1
    TestSeeds <- MCTestSeeds
    ReceiverPk <- MCReceiverPk
    Infos = {"info"}
    Psks <- NoPsks
    PskIds <- NoPsks
    Ikms = {"k1", "k2", "k3"}
    InvalidScalars <- MCInvalidScalars
    CandidateLimit <- MCCandidateLimit
    MaxInstances = 2
    MaxRngDraws = 2
    MaxKeys = 4
    None = None
INIT Init
NEXT Next
INVARIANTS
    TypeOK
    KeysFresh
CHECK_DEADLOCK FALSE
