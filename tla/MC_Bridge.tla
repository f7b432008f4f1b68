----------------------------- MODULE MC_Bridge -----------------------------
(***************************************************************************)
(* Frames for checking Bridge: a classic frame and FD frames whose lengths *)
(* need the DLC table (12) and its last entry (64).                        *)
(***************************************************************************)
EXTENDS Bridge, TLC

MCRxFrames ==
  { [fd |-> FALSE, len |-> 3], [fd |-> TRUE, len |-> 12],
    [fd |-> TRUE, len |-> 64] }

ClientSymmetry == Permutations(Clients)
============================================================================
