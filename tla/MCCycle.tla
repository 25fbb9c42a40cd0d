-------------------------------- MODULE MCCycle --------------------------------
(* Two scenarios of ManagedCycle for one run of TLC, over one set of          *)
(* variables: every kind of fault (the constants of the run), and orders that *)
(* fail while every query is answered.                                        *)
EXTENDS MCManagedCycle

VARIABLE scenario

Quiet == INSTANCE ManagedCycle WITH
           Prices <- {2, 3, 5, 6}, MaxOrders <- 7, Faults <- {"place", "nofill"}

CycleInit == \/ scenario = "faults" /\ Init
             \/ scenario = "quiet" /\ Quiet!Init

CycleNext == /\ \/ scenario = "faults" /\ Next
                \/ scenario = "quiet" /\ Quiet!Next
             /\ UNCHANGED scenario

CycleSpec == CycleInit /\ [][CycleNext]_<<vars, scenario>>
================================================================================
