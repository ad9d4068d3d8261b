SPECIFICATION Spec
CONSTANTS
    b1 = b1  b2 = b2  east = east  west = west  annex = annex  nowhere = nowhere
    lib = lib  pin = pin  dev = dev  acme = acme  shy = shy
    eastSeed = eastSeed  westSeed = westSeed  annexSeed = annexSeed  old = old  vault = vault
    None = None  Missing = Missing  Garbled = Garbled  Unset = Unset  Blank = Blank
    Registered = {dev, shy}
    Rejecting = {shy}
    Points <- MCPoints
    Token = {east, west, annex}
    TokenOf <- MCTokenOf
    SlotSeed <- MCSlotSeed
    PointForm <- MCPointForm
    SeedLen = 2
    Builder = {b1, b2}
    Envs <- CeremonyEnvs
    Deletions <- DeleteOld
    Provisioned <- CeremonyProvisioned
    Handle = {1, 2, 3, 4, 5, 6, 7}
    Fallible = {"login", "derive", "destroy_seed", "read", "find", "destroy"}
    MaxBuilds = 2
    MaxCrashes = 1
SYMMETRY Threads
INVARIANTS
    TypeOK
    SeedsReaped
    SignerHoldsItsKey
    XpubAsRequested
    FleetFollowsEnvironment
    LoggedInWhileOpen
    DeleteRemovesAll
    DistinctCosigners
    LoadedOfOneKey
