SPECIFICATION Spec
CONSTANTS
    alice = alice  bob = bob  la = la  lb = lb
    NoLeaf = NoLeaf
    Cosigner = {alice, bob}
    Identity <- Identities
    Psbts <- MCPsbts
    Ops = {"sign_transaction", "sign_pset"}
    Fallible = {"derive", "sign", "destroy"}
    MaxCalls = 3
INVARIANTS
    TypeOK
    StoredUnderItsKey
    SignedInOrder
    FederationKeyKept
    OnlyIntermediatesLeft
PROPERTIES
    OthersSignaturesKept
    CallEnds
