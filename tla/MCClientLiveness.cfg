SPECIFICATION Spec
CONSTANT Clients = {c1}
INVARIANTS
    PlanesConsistent
    CompleteIsAnnounced
