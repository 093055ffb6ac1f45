\* The single-shot APIs beside the context API, with a DH-KEM and X-Wing:
\* a single-shot open is offered ciphertexts of sessions it did not agree
\* on (another KEM), and later messages of one it did.
CONSTANTS
    Configs <- OneShotConfigs
    SenderKeys = {}
    ReceiverKeys = {r1}
    Seed <- SetupSeed
    KeyLen = 1
    MaxRngDraws = 1
    SingleShotApi = TRUE
    Psks <- NoPsks
    PskValues = {}
    PskIdValues = {}
    PskIds <- NoPsks
    Infos = {"info"}
    Aads = {"a"}
    Plaintexts = {"m1", "m2"}
    ExporterContexts = {"x"}
    ExportLengths = {32}
    None = None
    NoContext = NoContext
    MaxSeals = 2
    MaxOpens = 1
    SeqBits = 2
    NonceLimit = 7
    OverflowChecks = TRUE
    EncFaults = FALSE
INIT Init
NEXT Next
INVARIANTS
    SingleOpenOnlyFirst
    NonceUnique
CHECK_DEADLOCK FALSE
