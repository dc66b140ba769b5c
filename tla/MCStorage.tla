----------------------------- MODULE MCStorage -----------------------------
(* Storage with a handful of messages; message ids are interchangeable. *)
EXTENDS Storage, TLC

CONSTANTS m1, m2, m3, pA, pB

MCMsgIds3 == {m1, m2, m3}
MCPayloads == {pA, pB}
MCSymmetry3 == Permutations(MCMsgIds3)
=============================================================================
