SPECIFICATION Spec
CONSTANTS
    t1 = t1  t2 = t2  s1 = s1  s2 = s2
    here = here  elsewhere = elsewhere  vault = vault  stranger = stranger
    h1 = h1  h2 = h2  h3 = h3  h4 = h4
    None = None  Absent = Absent  NoThread = NoThread
    U64Max = 4
    Thread = {t1, t2}
    Signer = {s1}
    SignerOf <- Clones
    Network = here
    Policies <- ClonePolicies
    InitPolicies <- CloneInit
    Txs <- CloneTxs
    Handle = {h1, h2}
    Window = 1
    Ops = {"sign_transaction", "set_policy"}
    Fallible = {}
    MaxCalls = 2
    MaxTime = 2
    MaxCrashes = 1
    ClockMayStepBack = FALSE
INVARIANT
    PolicyNeverLapses
