\* Three workers, one name, every interleaving; a stop is like a start here.
CONSTANTS
    Workers = {w1, w2, w3}
    Names = {"cam1"}
    Revisions = {r1, r2}
    Kinds = {"good", "nameless", "unknown"}
    Ops = {"add", "delete", "start", "getChannelConfig"}
SPECIFICATION Spec
SYMMETRY Symmetry
INVARIANTS ConfigTellsChannel OnlyFailedAddsAreOrphans UndefinedOnlyInDelete
PROPERTIES ExistingChannelIsKept
CHECK_DEADLOCK FALSE
