SPECIFICATION Spec
CONSTANTS
    alice = alice  bob = bob  la = la  lb = lb
    NoLeaf = NoLeaf
    Cosigner = {alice, bob}
    Identity <- SharedIdentities
    Psbts <- SharedPsbts
    Ops = {"sign_transaction", "sign_pset"}
    Fallible = {}
    MaxCalls = 2
INVARIANT
    StoredUnderItsKey
