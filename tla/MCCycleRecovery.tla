---------------------------- MODULE MCCycleRecovery ----------------------------
(* Three scenarios of ManagedCycle for one run of TLC: recovery from the      *)
(* faults of the configuration, the EXIT command with a broker that never     *)
(* fails, and the dry-run phase with the dashboard reading beside the loop.   *)
EXTENDS MCManagedCycle

VARIABLE scenario

Exit == INSTANCE ManagedCycle WITH Faults <- {}, MaxGlitches <- 0

Dry == INSTANCE ManagedCycle WITH
         Live <- FALSE,
         Faults <- {"query", "nobroker", "dashboard", "manual", "crash", "lag"}

ScenarioInit == scenario \in {"recovery", "exit", "dry"} /\ Init

ScenarioNext == /\ \/ scenario = "recovery" /\ Next
                   \/ scenario = "exit" /\ Exit!Next
                   \/ scenario = "dry" /\ Dry!Next
                /\ UNCHANGED scenario

\* The fairness of ManagedCycle names no fault; the dry run needs none.
RecoveryFairness ==
  /\ WF_vars(scenario # "dry" /\ Step)
  /\ WF_vars(scenario # "dry" /\ At("await") /\ \E i \in OrderIds : LimitFills(i))

ScenarioSpec == /\ ScenarioInit /\ [][ScenarioNext]_<<vars, scenario>>
                /\ RecoveryFairness

-----------------------------------------------------------------------------
(* A position without a working stop is protected again or closed
   (_ensure_protective_stop), after every fault of the configuration. *)
NakednessPasses == scenario # "dry" => NakedIsTransient

(* A position whose observed low reached its stop is closed (_execute_sell). *)
StopOutsComplete == scenario # "dry" => StopOutCompletes

(* An EXIT command closes the position (handle_exit), when no call fails. *)
ExitClosesPosition == scenario = "exit" => ExitCompletes

(* In the dry-run phase nothing is ever sent to the exchange (_is_live). *)
DryPhaseSendsNothing == scenario = "dry" => Dry!DryRunSendsNothing
================================================================================
