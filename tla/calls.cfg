SPECIFICATION FairSpec
CONSTANTS
    t1 = t1  t2 = t2  s1 = s1  s2 = s2
    here = here  elsewhere = elsewhere  vault = vault  stranger = stranger
    h1 = h1  h2 = h2  h3 = h3  h4 = h4
    None = None  Absent = Absent  NoThread = NoThread
    U64Max = 4
    Thread = {t1, t2}
    Signer = {s1}
    SignerOf <- Clones
    Network = here
    Policies <- CallPolicies
    InitPolicies <- CallInit
    Txs <- CallTxs
    Handle = {h1, h2}
    Window = 1
    Ops = {"sign_transaction", "sign_pset", "policy", "set_policy", "health_check"}
    Fallible = {"info", "find", "read", "sign", "destroy", "create"}
    MaxCalls = 2
    MaxTime = 0
    MaxCrashes = 1
    ClockMayStepBack = FALSE
INVARIANTS
    PoisonedIsDead
PROPERTIES
    HolderReturns
