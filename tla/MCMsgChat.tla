----------------------------- MODULE MCMsgChat -----------------------------
(* MsgChat for TLC: pids and chat ids are only compared, so interchangeable. *)
EXTENDS MsgChat, TLC

Symmetry == Permutations(Clients) \cup Permutations(Names)
=============================================================================
