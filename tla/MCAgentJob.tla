------------------------------ MODULE MCAgentJob ------------------------------
(***************************************************************************)
(* Small instances of AgentJob.                                            *)
(***************************************************************************)
EXTENDS AgentJob, TLC

CONSTANTS c1, c2

\* The calls are alike.
CallerSymmetry == Permutations(Caller)

=============================================================================
