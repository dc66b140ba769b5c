CONSTANTS
    m1 = m1
    m2 = m2
    m3 = m3
    pA = pA
    pB = pB
    None = None
    MaxView = 2
    Member = {1}
    MaxSeq = 2
    MsgIds <- MCMsgIds3
    Payloads <- MCPayloads
SPECIFICATION Spec
SYMMETRY MCSymmetry3
INVARIANT TypeOK
INVARIANT ReadAnswerCorrect
INVARIANT PendingReadsWait
CHECK_DEADLOCK FALSE
PROPERTY LogRefined
