SPECIFICATION Spec
CONSTANTS
    Operators = {1, 2, 3, 4}
    Self = 1
    Threshold = 3
    block = block
    other_block = other_block
    envelope = envelope
    randao = randao
    c1 = c1
    c2 = c2
    Roots = {block, other_block, envelope, randao}
    Callers = {c1, c2}
    Duties <- MCDuties
    DutySlot = 2
    StartSlot = 2
    MaxSlot = 4
    None = None
INVARIANTS
    QuorumNeverIdle
    EnvelopeFollowsBlock
PROPERTIES
    HonestSharesKept
    EveryCallAnswered
CHECK_DEADLOCK FALSE
