------------------------------- MODULE MCSync -------------------------------
(* Small instances of SyncSystem for TLC. *)
EXTENDS SyncInvariant, TLC

CONSTANTS Loss, Crashes, Restarts, Refusals, Revocations, Stales, Careless

MCFaultLimit == [k \in FaultKind |->
    CASE k = "loss"    -> Loss
      [] k = "crash"   -> Crashes
      [] k = "restart" -> Restarts
      [] k = "refuse"  -> Refusals
      [] k = "revoke"  -> Revocations
      [] k = "stale"   -> Stales]

\* The first op of each careless author fails validation, so its stream stops.
FirstOps == {op \in Op : op[1] \in Careless /\ op[2] = 1}

Symmetry == Permutations(Actor)
=============================================================================
