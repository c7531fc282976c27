SPECIFICATION Spec
CONSTANT Clients = {c1, c2}
SYMMETRY Symmetry
INVARIANT FilesClosed
