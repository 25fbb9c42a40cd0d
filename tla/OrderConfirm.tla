---------------------------- MODULE OrderConfirm ----------------------------
(***************************************************************************)
(* Broker.place_order_and_confirm (src/src/execution/broker.py), one broker *)
(* call at a time, beside an exchange that fills an order in parts, rejects *)
(* it, or cancels the rest of it.  Every call may fail; an order may reach  *)
(* the exchange although its placement failed.                              *)
(***************************************************************************)
EXTENDS Naturals

CONSTANTS OrderCalls,  \* calls made one after the other
          OrderQty,    \* shares of each order
          MaxPolls     \* FILL_TIMEOUT_S / FILL_POLL_S

ASSUME OrderAssumption == /\ OrderCalls \in Nat \ {0}
                          /\ OrderQty \in Nat \ {0}
                          /\ MaxPolls \in Nat \ {0}

VARIABLES reply,    \* what each call answered
          filled,   \* shares filled of each order
          status,   \* the exchange's status of each order
          current,  \* the call that runs, or 0
          stage,    \* where it stands
          polls,    \* how often it has asked for the order's history
          glitched  \* history: calls in which a broker call failed

orderVars == <<reply, filled, status, current, stage, polls, glitched>>

Calls == 1 .. OrderCalls

Replies == {"unasked", "pending", "filled", "unfilled"}

Statuses == {"unplaced", "OPEN", "COMPLETE", "REJECTED", "CANCELLED"}

OrderInit ==
  /\ reply = [n \in Calls |-> "unasked"]
  /\ filled = [n \in Calls |-> 0]
  /\ status = [n \in Calls |-> "unplaced"]
  /\ current = 0 /\ stage = "idle" /\ polls = 0 /\ glitched = {}

(* The call returns: result is what its caller is told. *)
Answer(result) == /\ reply' = [reply EXCEPT ![current] = result]
                  /\ current' = 0
                  /\ stage' = "idle"
                  /\ polls' = 0

Fails == glitched' = glitched \cup {current}

PriceOrder ==
  /\ stage = "idle"
  /\ \E n \in Calls : /\ reply[n] = "unasked"
                      /\ \A m \in 1 .. n - 1 : reply[m] # "unasked"
                      /\ reply' = [reply EXCEPT ![n] = "pending"]
                      /\ current' = n
  /\ stage' = "pricing"
  /\ UNCHANGED <<filled, status, polls, glitched>>

(* get_ltp answers 0 when it fails. *)
NoPrice == /\ stage = "pricing"
           /\ Answer("unfilled")
           /\ Fails
           /\ UNCHANGED <<filled, status>>

(* place_order fails before the order reaches the exchange or after. *)
PlaceFails == /\ stage = "pricing"
              /\ \/ UNCHANGED status
                 \/ status' = [status EXCEPT ![current] = "OPEN"]
              /\ Answer("unfilled")
              /\ Fails
              /\ UNCHANGED filled

PlaceLimitOrder == /\ stage = "pricing"
                   /\ status' = [status EXCEPT ![current] = "OPEN"]
                   /\ stage' = "polling"
                   /\ UNCHANGED <<reply, filled, current, polls, glitched>>

(* order_history fails or is empty: the wait goes on. *)
PollAgain == /\ stage = "polling"
             /\ polls < MaxPolls
             /\ polls' = polls + 1
             /\ UNCHANGED <<reply, filled, status, current, stage>>

PollSeesNothing == PollAgain /\ Fails

PollSeesOpen == /\ PollAgain
                /\ status[current] = "OPEN"
                /\ UNCHANGED glitched

(* filled_quantity of a complete order, or qty where the history omits it. *)
ConfirmedQty == {filled[current], OrderQty}

\* Mutant: any fill counts as a complete one.
PollSeesAnyFill ==
  /\ stage = "polling" /\ polls < MaxPolls
  /\ status[current] = "COMPLETE" \/ filled[current] > 0
  /\ Answer("filled")
  /\ UNCHANGED <<filled, status, glitched>>

PollSeesComplete ==
  /\ stage = "polling" /\ polls < MaxPolls
  /\ status[current] = "COMPLETE"
  /\ \E q \in ConfirmedQty :
        Answer(IF q < OrderQty THEN "unfilled" ELSE "filled")
  /\ UNCHANGED <<filled, status, glitched>>

(* A rejected or cancelled order counts as unfilled, whatever part of it was
   filled before. *)
PollSeesDead == /\ stage = "polling" /\ polls < MaxPolls
                /\ status[current] \in {"REJECTED", "CANCELLED"}
                /\ Answer("unfilled")
                /\ UNCHANGED <<filled, status, glitched>>

\* Mutant: a failed query does not count against the deadline.
WindowNeedsAnAnswer == /\ stage = "polling" /\ polls > 0
                       /\ current \notin glitched
                       /\ stage' = "cancelling"
                       /\ UNCHANGED <<reply, filled, status, current, polls, glitched>>

(* A call of the broker may be slow, so the window may close after any poll. *)
WindowCloses == /\ stage = "polling" /\ polls > 0
                /\ stage' = "cancelling"
                /\ UNCHANGED <<reply, filled, status, current, polls, glitched>>

\* Mutant: the order is left open when the window closes.
CancelForgotten == /\ stage = "cancelling"
                   /\ Answer("unfilled")
                   /\ UNCHANGED <<filled, status, glitched>>

CancelStillOpen ==
  /\ stage = "cancelling"
  /\ status' = [status EXCEPT ![current] = IF @ = "OPEN" THEN "CANCELLED" ELSE @]
  /\ Answer("unfilled")
  /\ UNCHANGED <<filled, glitched>>

CancelFails == /\ stage = "cancelling"
               /\ Answer("unfilled")
               /\ Fails
               /\ UNCHANGED <<filled, status>>

(* The exchange. *)
ExchangeFills(n) ==
  /\ status[n] = "OPEN"
  /\ \E k \in filled[n] + 1 .. OrderQty :
        /\ filled' = [filled EXCEPT ![n] = k]
        /\ status' = [status EXCEPT ![n] = IF k = OrderQty THEN "COMPLETE" ELSE @]
  /\ UNCHANGED <<reply, current, stage, polls, glitched>>

ExchangeEnds(n) ==
  /\ status[n] = "OPEN"
  /\ \/ filled[n] = 0 /\ status' = [status EXCEPT ![n] = "REJECTED"]
     \/ status' = [status EXCEPT ![n] = "CANCELLED"]
  /\ UNCHANGED <<reply, filled, current, stage, polls, glitched>>

AwaitFill == \/ PollSeesNothing \/ PollSeesOpen \/ PollSeesComplete
             \/ PollSeesDead \/ WindowCloses \/ CancelStillOpen \/ CancelFails

PlaceOrderAndConfirm == \/ PriceOrder \/ NoPrice \/ PlaceFails
                        \/ PlaceLimitOrder \/ AwaitFill

OrderNext == \/ PlaceOrderAndConfirm
             \/ \E n \in Calls : ExchangeFills(n) \/ ExchangeEnds(n)

OrderSpec == OrderInit /\ [][OrderNext]_orderVars

(* The calling process runs: the wait is a loop with a deadline. *)
OrderFairness == WF_orderVars(PlaceOrderAndConfirm)

-----------------------------------------------------------------------------
OrderTypeOK ==
  /\ reply \in [Calls -> Replies]
  /\ filled \in [Calls -> 0 .. OrderQty]
  /\ status \in [Calls -> Statuses]
  /\ current \in Calls \cup {0}
  /\ stage \in {"idle", "pricing", "polling", "cancelling"}
  /\ polls \in 0 .. MaxPolls
  /\ glitched \subseteq Calls

(* What a caller is promised: "filled" is answered for whole orders only,
   whatever parts are filled when, and an answer is final. *)
Outcome == INSTANCE OrderOutcome

OrderRefinesOutcome == Outcome!OutcomeSpec

(* After a call in which no broker call failed, an order that was answered
   as unfilled is dead: it cannot fill unattended (_await_fill's cancel, and
   its race with the exchange). *)
UnfilledOrderIsDead ==
  \A n \in Calls : reply[n] = "unfilled" /\ n \notin glitched => status[n] # "OPEN"

(* Every call returns to its caller, whatever the exchange does and however
   many queries fail (the deadline of _await_fill). *)
EveryCallReturns ==
  \A n \in Calls : reply[n] = "pending" ~> reply[n] \in {"filled", "unfilled"}

=============================================================================
