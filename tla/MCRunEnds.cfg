SPECIFICATION FairSpecFewerOutcomes
CONSTANT Clients = {c1, c2}
PROPERTY RunEnds
