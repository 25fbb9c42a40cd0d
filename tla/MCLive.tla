------------------------------- MODULE MCLive --------------------------------
(* One run of TLC for components that share no variable: `part' says which of
   them a behaviour is about; that one runs, the others stay where they begin.
   The states of the parts add up, they do not multiply.  This run: what must end,
   the broker client's call, the bot's commands and the radar's rows. *)
EXTENDS OrderConfirm, CommandBot, Radar

VARIABLE part

partVars == <<orderVars, bVars, rVars>>

PartsInit ==
  /\ part \in {"orders", "commands", "radar"}
  /\ OrderInit /\ BInit /\ RInit

(* Part p runs: only its variables may change. *)
Running(p) ==
  /\ UNCHANGED part
  /\ p # "orders" => UNCHANGED orderVars
  /\ p # "commands" => UNCHANGED bVars
  /\ p # "radar" => UNCHANGED rVars

PartsNext ==
  \/ part = "orders" /\ OrderNext /\ Running("orders")
  \/ part = "commands" /\ BNext /\ Running("commands")
  \/ part = "radar" /\ RNext /\ Running("radar")

(* The fairness of each component, while it is the one that runs. *)
PartsFairness ==
  /\ WF_orderVars(part = "orders" /\ PlaceOrderAndConfirm)
  /\ WF_bVars(part = "commands" /\ Poll)
  /\ WF_bVars(part = "commands" /\ Handle)
  /\ WF_bVars(part = "commands" /\ FinishSave("bot"))
  /\ WF_rVars(part = "radar" /\ RadarLoop)

PartsSpec == PartsInit /\ [][PartsNext]_<<partVars, part>> /\ PartsFairness
==============================================================================
