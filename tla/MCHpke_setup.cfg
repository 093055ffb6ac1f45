\* Setup: every mode, both kinds of KEM, psk inputs valid and invalid (two
\* valid psks and psk_ids), two infos, two receiver keys, two sender keys;
\* one sender session, one ciphertext, so that what varies is what the two
\* parties agree on, and a one-byte pool that a failed setup may use up.
CONSTANTS
    Configs <- SetupConfigs
    SenderKeys = {s1, s2}
    ReceiverKeys = {r1, r2}
    Seed <- SetupSeed
    KeyLen = 1
    MaxRngDraws = 0
    SingleShotApi = FALSE
    Psks <- SetupPsks
    PskValues = {p1, p2}
    PskIdValues = {d1, d2}
    PskIds <- SetupPskIds
    Infos = {i1, i2}
    Aads = {"a"}
    Plaintexts = {"m"}
    ExporterContexts = {"x"}
    ExportLengths = {32}
    None = None
    NoContext = NoContext
    MaxSeals = 1
    MaxOpens = 1
    SeqBits = 1
    NonceLimit = 3
    OverflowChecks = TRUE
    EncFaults = FALSE
INIT Init
NEXT Next
INVARIANTS
    PoolAccounting
    OpenImpliesAgreement
SYMMETRY SetupSymmetry
CHECK_DEADLOCK FALSE
