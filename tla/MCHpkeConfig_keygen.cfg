\* The order of the tuple libcrux kem_key_gen returns, on every config
\* and KEM: the spec's provider interface gives (sk, pk).
CONSTANTS
    Configs <- KemConfigs
    PoolLen = 2
    KeyLen = 1
    TestSeeds <- MCTestSeeds
    ReceiverPk <- MCReceiverPk
    Infos = {"info"}
    Psks <- NoPsks
    PskIds <- NoPsks
    Ikms = {"k1", "k2", "k3"}
    InvalidScalars <- MCInvalidScalars
    CandidateLimit <- MCCandidateLimit
    MaxInstances = 2
    MaxRngDraws = 2
    MaxKeys = 4
    None = None
INIT Init
NEXT Next
INVARIANTS
    KemKeyGenIsSkPk
CHECK_DEADLOCK FALSE
