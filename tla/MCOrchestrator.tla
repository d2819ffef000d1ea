---------------------------- MODULE MCOrchestrator ----------------------------
(* Scheduled runs and manifest checkpoints on small instances: the two calls
   that start something they must finish.  They share no state, so it is enough
   to let one of them move while the other is still new.  Days have two hours,
   and policies run in the first one. *)
EXTENDS Orchestrator, Materialize

VARIABLE moving   \* the component that moves

Mornings == {<<0, 1>>}

finishVars == <<moving, orchVars, matVars>>

FinishInit == moving \in {"orchestrator", "materialize"} /\ OrchestratorInit /\ MaterializeInit

FinishNext ==
    /\ UNCHANGED moving
    /\ \/ moving = "orchestrator" /\ OrchestratorNext /\ UNCHANGED matVars
       \/ moving = "materialize" /\ MaterializeNext /\ UNCHANGED orchVars

FinishSpec ==
    FinishInit /\ [][FinishNext]_finishVars /\ OrchestratorFairness /\ MaterializeFairness
=============================================================================
