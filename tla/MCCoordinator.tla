---------------------------- MODULE MCCoordinator ----------------------------
(***************************************************************************)
(* Small instances of Coordinator for TLC.                                 *)
(***************************************************************************)
EXTENDS Coordinator

MCRuns == {1, 2}

MCOneRun == {1}

MCProviders == {"subscription"}

MCProviderOf == [r \in Runs |-> "subscription"]

MCNoDependency == [r \in Runs |-> NoRun]

MCPriority == [r \in Runs |-> 0]

MCOneEach == [p \in MCProviders |-> 1]

MCTwoEach == [p \in MCProviders |-> 2]

MCNoFaults == {}
==============================================================================
