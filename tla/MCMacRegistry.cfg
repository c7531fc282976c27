SPECIFICATION RegistrySpec
CONSTANT Macs = {m1, m2, m3}
INVARIANTS
    DistinctIds
    IdsForLife
