SPECIFICATION Spec
CONSTANT Clients = {c1}
INVARIANT AnnouncedIsComplete
