------------------------------ MODULE MCMergeGate ------------------------------
(* Values TLC gives to the constants of MergeGate.                          *)
EXTENDS MergeGate

MCNoDependency == [r \in Runs |-> NoRun]

\* Every run waits for the one before it.
MCChain == [r \in Runs |-> r - 1]
=============================================================================
