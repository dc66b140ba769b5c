CONSTANTS
    m1 = m1
    m2 = m2
    m3 = m3
    pA = pA
    pB = pB
    None = None
    MaxView = 3
    Member = {1, 2, 3}
    MaxSeq = 2
    MsgIds <- MCMsgIds3
    Payloads <- MCPayloads
SPECIFICATION Spec
SYMMETRY MCSymmetry3
INVARIANT ParkedProcessedInItsView
CHECK_DEADLOCK FALSE
