----------------------------- MODULE MCExecutor -----------------------------
(* Small instances of Executor: every valid deployment, and a wallet that    *)
(* starts with or without WS.                                                *)
EXTENDS Executor

MCDeployments == DeploymentType
MCLiveSigner == {d \in DeploymentType : d.signer /\ ~d.dryRun /\ ~d.mevRelay}
MCStock == {0, 1}
=============================================================================
