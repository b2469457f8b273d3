SPECIFICATION Spec
CONSTANTS
    Files = {f1}
    QueueIds = {q1, q2}
    ForgeIds = {g1}
    Revert = revert
    None = none
    Slots = 2
SYMMETRY Symmetry
INVARIANTS TypeOK KindExclusion
PROPERTY NoSilentReplacement
CHECK_DEADLOCK FALSE
