---------------------------- MODULE OrderOutcome ----------------------------
(***************************************************************************)
(* What place_order_and_confirm promises its callers                       *)
(* (src/src/execution/broker.py): one call after the other, each about one *)
(* order of OrderQty shares.  The exchange may fill an order in parts,     *)
(* also after the caller has been told that it did not fill; the answer    *)
(* "filled" is only ever given for an order that is whole.                 *)
(***************************************************************************)
EXTENDS Naturals

CONSTANTS OrderCalls,  \* how many calls are looked at
          OrderQty     \* shares asked for by each of them

VARIABLES reply,   \* what each call answered
          filled   \* shares the exchange filled of each call's order

outcomeVars == <<reply, filled>>

Calls == 1 .. OrderCalls

OutcomeInit == /\ reply = [n \in Calls |-> "unasked"]
               /\ filled = [n \in Calls |-> 0]

(* A call starts when all earlier ones have returned. *)
Ask(n) == /\ reply[n] = "unasked"
          /\ \A m \in 1 .. n - 1 : reply[m] \in {"filled", "unfilled"}
          /\ reply' = [reply EXCEPT ![n] = "pending"]
          /\ UNCHANGED filled

(* The exchange fills some more of an order that has not been answered as
   filled. *)
FillMore(n) == /\ reply[n] \in {"pending", "unfilled"}
               /\ \E k \in filled[n] + 1 .. OrderQty :
                     filled' = [filled EXCEPT ![n] = k]
               /\ UNCHANGED reply

AnswerFilled(n) == /\ reply[n] = "pending"
                   /\ filled[n] = OrderQty
                   /\ reply' = [reply EXCEPT ![n] = "filled"]
                   /\ UNCHANGED filled

AnswerUnfilled(n) == /\ reply[n] = "pending"
                     /\ reply' = [reply EXCEPT ![n] = "unfilled"]
                     /\ UNCHANGED filled

OutcomeNext == \E n \in Calls : \/ Ask(n)
                                \/ FillMore(n)
                                \/ AnswerFilled(n)
                                \/ AnswerUnfilled(n)

OutcomeSpec == OutcomeInit /\ [][OutcomeNext]_outcomeVars
=============================================================================
