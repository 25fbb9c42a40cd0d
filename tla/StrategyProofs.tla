--------------------------- MODULE StrategyProofs ---------------------------
(***************************************************************************)
(* The supertrend strategy's books hold, for any prices, slips, sizes,      *)
(* charges, days and faults.  Current is the state as the code sees it,     *)
(* saved or not yet; the three books relate it to the venue and to the      *)
(* trades of the day.  And the swing lab's backtest is honest: SwingInv     *)
(* says what its open position may lose and what its trades lost.  And the  *)
(* coins' backtest trades one position at a time, without hindsight: the    *)
(* run over the longer data is compared with the run over the shorter.  And *)
(* the ledger tells every trade: DigestsTell says what each digest told.    *)
(* And the replay of the intraday rule is honest and its report adds up:    *)
(* BacktestInv says the trades are those of the data, EachDayTraded that    *)
(* they are the days that trade, in order.                                  *)
(***************************************************************************)
EXTENDS Supertrend, SwingLab, CryptoLab, Ledger, DayBacktest, FiniteSetTheorems,
        CountingTheorems, TLAPS

Sessions == [date : Nat, losses : Nat, pnl : Int]
States == [position : {NoStPosition} \cup StPositions, session : Sessions]
Histories == [unchecked : BOOLEAN, drift : BOOLEAN, unsaved : BOOLEAN, losses : Nat,
              earned : Int, legs : Nat, carried : BOOLEAN, buys : Nat]

WithinSize(s) == s.position # NoStPosition => s.position.rem <= s.position.qty

TypesInv == /\ stday \in 1 .. StDays /\ stpc \in {"idle", "save"}
            /\ stfile \in States /\ WithinSize(stfile) /\ stfile.session.date <= stday
            /\ stpending \in States /\ WithinSize(stpending)
            /\ stpending.session.date <= stday
            /\ stpc = "save" => stpending.session.date = stday
            /\ stshares \in Int /\ sthist \in Histories

Current == IF stpc = "save" THEN stpending ELSE stfile

Held(s) == IF s.position = NoStPosition THEN 0 ELSE s.position.rem
Unbooked(s) == IF s.position = NoStPosition THEN 0 ELSE s.position.charges

(* The record is what the venue holds. *)
SharesFit(s, h, n) == ~ h.drift => n = Held(s)

(* The breaker's count is the trades lost in a row today. *)
LossesFit(s, h, d) ==
  ~ h.unsaved => IF s.session.date = d THEN s.session.losses = h.losses
                                       ELSE h.losses = 0

(* The session's result, less the charges an open position has yet to book, is
   what today's trades made. *)
ResultFits(s, h, d) ==
  ~ h.unsaved /\ ~ h.carried =>
    IF s.session.date = d
    THEN s.session.pnl - Unbooked(s) = h.earned - StCharge * h.legs
    ELSE s.position = NoStPosition /\ h.earned = 0 /\ h.legs = 0

OneSize == ~ sthist.unchecked => stshares <= StRisk \div StAtr

BooksInv == /\ TypesInv
            /\ SharesFit(Current, sthist, stshares)
            /\ LossesFit(Current, sthist, stday)
            /\ ResultFits(Current, sthist, stday)
            /\ OneSize

-----------------------------------------------------------------------------
(* Operators of the model: what they return. *)

LEMMA ConstantsTyped ==
  /\ StDays \in Nat /\ 1 <= StDays /\ StAtr \in Nat /\ 1 <= StAtr
  /\ StCapital \in Nat /\ StRisk \in Nat /\ StCharge \in Nat
  /\ StRisk \div StAtr \in Nat
  /\ \A p \in StSignalPrices \cup StPrices :
        /\ p \in Nat /\ 1 <= p
        /\ \A slip \in StSlip : p + slip \in Nat /\ 1 <= p + slip
<1>1. /\ StDays \in Nat /\ 1 <= StDays /\ StAtr \in Nat /\ 1 <= StAtr
      /\ StCapital \in Nat /\ StRisk \in Nat /\ StCharge \in Nat
  BY StAssumption
<1>2. \A p \in StSignalPrices \cup StPrices :
        /\ p \in Nat /\ 1 <= p
        /\ \A slip \in StSlip : p + slip \in Nat /\ 1 <= p + slip
  BY StAssumption
<1>3. StRisk \div StAtr \in Nat
  BY <1>1
<1> QED  BY <1>1, <1>2, <1>3

LEMMA SizeIsCapped ==
  ASSUME NEW p \in Nat, 1 <= p
  PROVE  /\ PositionSizeAt(p) \in Nat
         /\ PositionSizeAt(p) <= StRisk \div StAtr
<1>1. StRisk \div StAtr \in Nat /\ StCapital \div p \in Nat
  BY ConstantsTyped
<1> QED  BY <1>1 DEF PositionSizeAt, StLeast

LEMMA ThirdIsAShare ==
  ASSUME NEW pos \in StPositions
  PROVE  Third(pos) \in Nat /\ 1 <= Third(pos)
BY DEF Third, StMost, StPositions

LEMMA ChargesTyped ==
  ASSUME NEW qty \in Int
  PROVE  /\ Charges(qty) \in Nat
         /\ qty > 0 => Charges(qty) = StCharge
         /\ qty <= 0 => Charges(qty) = 0
BY ConstantsTyped DEF Charges

LEMMA PositionTyped ==
  ASSUME NEW pos \in StPositions
  PROVE  /\ pos.entry \in Nat /\ pos.sl \in Int /\ pos.qty \in Nat /\ pos.rem \in Int
         /\ pos.b1 \in BOOLEAN /\ pos.b2 \in BOOLEAN /\ pos.b3 \in BOOLEAN
         /\ pos.partial \in Int /\ pos.charges \in Nat
         /\ pos # NoStPosition
BY NoStPositionAssumption DEF StPositions

LEMMA StateTyped ==
  ASSUME NEW s \in States
  PROVE  /\ s.position \in {NoStPosition} \cup StPositions
         /\ s.session \in Sessions
         /\ s.session.date \in Nat /\ s.session.losses \in Nat /\ s.session.pnl \in Int
BY DEF States, Sessions

LEMMA StateChanged ==
  ASSUME NEW s \in States, NEW p \in {NoStPosition} \cup StPositions,
         NEW pnl \in Int, NEW losses \in Nat
  PROVE  LET t == [position |-> p, session |-> [date |-> s.session.date,
                                                losses |-> losses, pnl |-> pnl]]
         IN  /\ t \in States
             /\ t.position = p /\ t.session.date = s.session.date
             /\ t.session.losses = losses /\ t.session.pnl = pnl
BY StateTyped DEF States, Sessions

LEMMA LoadedState ==
  ASSUME TypesInv
  PROVE  /\ StLoaded \in States /\ WithinSize(StLoaded)
         /\ StLoaded.position = stfile.position
         /\ StLoaded.session.date = stday
         /\ stfile.session.date = stday => StLoaded = stfile
         /\ stfile.session.date # stday =>
              StLoaded.session.losses = 0 /\ StLoaded.session.pnl = 0
<1>1. stday \in Nat /\ 0 \in Nat /\ 0 \in Int
  BY ConstantsTyped DEF TypesInv
<1>2. FreshSession(stday) \in Sessions
  BY <1>1 DEF FreshSession, Sessions
<1> QED  BY <1>1, <1>2 DEF StLoaded, ResetIfNewDay, States, TypesInv, WithinSize, FreshSession

LEMMA PartialBooked ==
  ASSUME NEW s \in States, WithinSize(s), s.position # NoStPosition,
         NEW exit \in Int, NEW reason
  PROVE  LET t == BookPartial(s, exit, reason)
         IN  /\ t \in States /\ WithinSize(t)
             /\ t.position # NoStPosition
             /\ t.position.rem = s.position.rem - Third(s.position)
             /\ t.position.charges = s.position.charges + StCharge
             /\ t.session.date = s.session.date
             /\ t.session.losses = s.session.losses
             /\ t.session.pnl = s.session.pnl
                                  + (exit - s.position.entry) * Third(s.position)
<1> DEFINE pos == s.position
           third == Third(pos)
           made == (exit - pos.entry) * third
           rem == pos.rem - third
           partial == pos.partial + made
           charges == pos.charges + Charges(third)
           sl == IF reason = "t1_hit" THEN pos.entry ELSE pos.sl
           b1 == pos.b1 \/ reason = "t1_hit"
           b2 == pos.b2 \/ reason = "t2_hit"
           b3 == pos.b3 \/ reason = "t3_hit"
           new == [pos EXCEPT !.rem = rem, !.partial = partial, !.charges = charges,
                              !.b1 = b1, !.b2 = b2, !.b3 = b3, !.sl = sl]
           t == BookPartial(s, exit, reason)
<1>1. pos \in StPositions /\ s.session \in Sessions
  BY StateTyped
<1>2. third \in Nat /\ 1 <= third
  BY <1>1, ThirdIsAShare
<1>3. made \in Int
  BY <1>1, <1>2, PositionTyped
<1>4. Charges(third) = StCharge
  BY <1>2, ChargesTyped
<1>5. /\ rem \in Int /\ partial \in Int /\ charges \in Nat /\ sl \in Int
      /\ b1 \in BOOLEAN /\ b2 \in BOOLEAN /\ b3 \in BOOLEAN
  <2>1. pos.rem \in Int /\ pos.partial \in Int /\ pos.charges \in Nat
        /\ pos.sl \in Int /\ pos.entry \in Nat
    BY <1>1, PositionTyped
  <2>2. rem \in Int
    BY <2>1, <1>2
  <2>3. partial \in Int
    BY <2>1, <1>3
  <2>4. charges \in Nat
    BY <2>1, <1>4, ConstantsTyped
  <2>5. sl \in Int
    BY <2>1
  <2>6. b1 \in BOOLEAN /\ b2 \in BOOLEAN /\ b3 \in BOOLEAN
    BY Zenon
  <2> QED  BY <2>2, <2>3, <2>4, <2>5, <2>6
<1>6. /\ new \in StPositions /\ new.rem = rem /\ new.charges = charges
      /\ new.qty = pos.qty /\ new # NoStPosition
  <2>1. PICK c1 \in BOOLEAN, c2 \in BOOLEAN, c3 \in BOOLEAN :
               c1 = b1 /\ c2 = b2 /\ c3 = b3
    BY Zenon
  <2>2. new = [pos EXCEPT !.rem = rem, !.partial = partial, !.charges = charges,
                          !.b1 = c1, !.b2 = c2, !.b3 = c3, !.sl = sl]
    BY <2>1, Zenon
  <2> HIDE DEF pos, rem, partial, charges, sl, new
  <2> QED  BY <1>1, <1>5, <2>2, NoStPositionAssumption DEF StPositions
<1>7. t = [s EXCEPT !.position = new, !.session.pnl = s.session.pnl + made]
  BY DEF BookPartial, States, Sessions, StPositions
<1>8. s.session.pnl + made \in Int
  BY <1>3, StateTyped
<1>9. /\ t \in States /\ t.position = new /\ t.session.date = s.session.date
      /\ t.session.losses = s.session.losses /\ t.session.pnl = s.session.pnl + made
  <2> DEFINE pnl == s.session.pnl + made
  <2>1. t = [s EXCEPT !.position = new, !.session.pnl = pnl] /\ pnl \in Int
    BY <1>7, <1>8
  <2> HIDE DEF new, t, pnl
  <2>2. /\ t \in States /\ t.position = new /\ t.session.date = s.session.date
        /\ t.session.losses = s.session.losses /\ t.session.pnl = pnl
    BY <1>6, <2>1 DEF States, Sessions
  <2> QED  BY <2>2 DEF pnl
<1> HIDE DEF new, t
<1>10. new.rem <= new.qty
  <2>1. pos.rem <= pos.qty /\ pos.rem \in Int /\ pos.qty \in Nat
    BY <1>1, PositionTyped DEF WithinSize
  <2> HIDE DEF pos, third
  <2> QED  BY <1>2, <1>6, <2>1
<1> QED  BY <1>4, <1>6, <1>9, <1>10 DEF WithinSize, t

LEMMA CloseBooked ==
  ASSUME NEW s \in States, s.position # NoStPosition, NEW exit \in Int
  PROVE  LET t == ClosePositionAt(s, exit)
         IN  /\ t \in States /\ t.position = NoStPosition
             /\ t.session.date = s.session.date
             /\ t.session.losses = IF NetPnl(s.position, exit) < 0
                                   THEN s.session.losses + 1 ELSE 0
             /\ t.session.pnl = s.session.pnl
                                  + (exit - s.position.entry) * s.position.rem
                                  - (s.position.charges + Charges(s.position.rem))
<1> DEFINE pos == s.position
           pnl == s.session.pnl + (exit - pos.entry) * pos.rem
                    - (pos.charges + Charges(pos.rem))
           losses == IF NetPnl(pos, exit) < 0 THEN s.session.losses + 1 ELSE 0
           t == ClosePositionAt(s, exit)
<1>1. pos \in StPositions /\ s.session.losses \in Nat /\ s.session.pnl \in Int
  BY StateTyped
<1>2. (exit - pos.entry) * pos.rem \in Int /\ pos.charges \in Nat
      /\ Charges(pos.rem) \in Nat
  BY <1>1, PositionTyped, ChargesTyped
<1>3. pnl \in Int /\ losses \in Nat
  BY <1>1, <1>2
<1>4. t = [s EXCEPT !.position = NoStPosition, !.session.pnl = pnl,
                    !.session.losses = losses]
  BY DEF ClosePositionAt, States, Sessions
<1> HIDE DEF pnl, losses, t
<1>5. /\ t \in States /\ t.position = NoStPosition /\ t.session.date = s.session.date
      /\ t.session.losses = losses /\ t.session.pnl = pnl
  BY <1>3, <1>4 DEF States, Sessions
<1> QED  BY <1>5 DEF pnl, losses, t

LEMMA PositionOpened ==
  ASSUME NEW s \in States, NEW z,
         z.entry \in Nat, z.sl \in Int, z.t1 \in Nat, z.t2 \in Nat, z.t3 \in Nat,
         z.qty \in Nat, z.qty > 0
  PROVE  LET t == OpenPosition(s, z)
         IN  /\ t \in States /\ WithinSize(t)
             /\ t.position # NoStPosition
             /\ t.position.rem = z.qty /\ t.position.charges = 0
             /\ t.session = s.session
<1> DEFINE p == [entry |-> z.entry, sl |-> z.sl, t1 |-> z.t1, t2 |-> z.t2,
                 t3 |-> z.t3, qty |-> z.qty, rem |-> z.qty,
                 b1 |-> FALSE, b2 |-> FALSE, b3 |-> FALSE,
                 partial |-> 0, charges |-> 0]
           t == OpenPosition(s, z)
<1>1. p \in StPositions
  BY DEF StPositions
<1>2. p # NoStPosition /\ p.rem = z.qty /\ p.qty = z.qty /\ p.charges = 0
  BY <1>1, NoStPositionAssumption
<1>3. t = [s EXCEPT !.position = p]
  BY DEF OpenPosition
<1> HIDE DEF p, t
<1>4. t \in States /\ t.position = p /\ t.session = s.session
  BY <1>1, <1>3 DEF States
<1> QED  BY <1>2, <1>4 DEF t, WithinSize

LEMMA SizedAtFill ==
  ASSUME NEW price \in StSignalPrices, NEW fill \in Nat, 1 <= fill,
         NEW qty \in Nat
  PROVE  LET z == SizingAtFill(price, fill, qty)
         IN  /\ z.entry \in Nat /\ z.sl \in Int /\ z.t1 \in Nat /\ z.t2 \in Nat
             /\ z.t3 \in Nat /\ z.qty = qty
<1>1. price \in Nat /\ StAtr \in Nat
  BY ConstantsTyped
<1>2. \A p \in Nat : /\ Sizing(p).sl \in Int /\ Sizing(p).t1 \in Nat
                     /\ Sizing(p).t2 \in Nat /\ Sizing(p).t3 \in Nat
  BY <1>1 DEF Sizing
<1> DEFINE base == IF PositionSizeAt(fill) > 0 THEN Sizing(fill) ELSE Sizing(price)
<1>3. /\ base.sl \in Int /\ base.t1 \in Nat /\ base.t2 \in Nat /\ base.t3 \in Nat
  BY <1>1, <1>2
<1>4. SizingAtFill(price, fill, qty) = [base EXCEPT !.entry = fill, !.qty = qty]
  BY DEF SizingAtFill
<1>5. base = [entry |-> base.entry, sl |-> base.sl, t1 |-> base.t1, t2 |-> base.t2,
              t3 |-> base.t3, qty |-> base.qty]
  BY DEF Sizing
<1> HIDE DEF base
<1> QED  BY <1>3, <1>4, <1>5

LEMMA HistoryTyped ==
  ASSUME TypesInv
  PROVE  /\ sthist.earned \in Int /\ sthist.legs \in Nat /\ sthist.losses \in Nat
         /\ sthist.buys \in Nat /\ sthist.drift \in BOOLEAN /\ sthist.unsaved \in BOOLEAN
         /\ sthist.unchecked \in BOOLEAN /\ sthist.carried \in BOOLEAN
BY DEF TypesInv, Histories

LEMMA SoldHistory ==
  ASSUME TypesInv, StLoaded.position # NoStPosition,
         NEW broker \in BOOLEAN, NEW qty \in Int, NEW exit \in Int
  PROVE  LET h == Drift(broker, LegSold(qty, exit))
         IN  /\ h \in Histories
             /\ h.drift = (sthist.drift \/ ~ broker)
             /\ h.unchecked = sthist.unchecked /\ h.unsaved = sthist.unsaved
             /\ h.carried = sthist.carried /\ h.losses = sthist.losses
             /\ h.earned = sthist.earned + (exit - StLoaded.position.entry) * qty
             /\ h.legs = IF qty > 0 THEN sthist.legs + 1 ELSE sthist.legs
<1> DEFINE earned == sthist.earned + (exit - StLoaded.position.entry) * qty
           legs == IF qty > 0 THEN sthist.legs + 1 ELSE sthist.legs
           h == Drift(broker, LegSold(qty, exit))
<1>1. StLoaded.position.entry \in Nat
  BY LoadedState, StateTyped, PositionTyped
<1>2. earned \in Int /\ legs \in Nat
  <2>1. (exit - StLoaded.position.entry) * qty \in Int
    BY <1>1
  <2> QED  BY <2>1, HistoryTyped
<1>3. PICK d \in BOOLEAN : d = (sthist.drift \/ ~ broker)
  BY Zenon
<1>4. h = [sthist EXCEPT !.earned = earned, !.legs = legs, !.drift = d]
  BY <1>3 DEF Drift, LegSold, TypesInv, Histories
<1> HIDE DEF earned, legs, h
<1>5. /\ h \in Histories /\ h.drift = d
      /\ h.unchecked = sthist.unchecked /\ h.unsaved = sthist.unsaved
      /\ h.carried = sthist.carried /\ h.losses = sthist.losses
      /\ h.earned = earned /\ h.legs = legs
  BY <1>2, <1>4 DEF TypesInv, Histories
<1> QED  BY <1>3, <1>5 DEF earned, legs, h

\* The history h after a sale at exit that closes the position.
ClosedAs(h, broker, qty, exit) ==
  /\ h \in Histories
  /\ h.drift = (sthist.drift \/ ~ broker)
  /\ h.unchecked = sthist.unchecked /\ h.unsaved = sthist.unsaved
  /\ h.carried = sthist.carried
  /\ h.losses = IF NetPnl(StLoaded.position, exit) < 0 THEN sthist.losses + 1 ELSE 0
  /\ h.earned = sthist.earned + (exit - StLoaded.position.entry) * qty
  /\ h.legs = IF qty > 0 THEN sthist.legs + 1 ELSE sthist.legs

LEMMA ClosedHistory ==
  ASSUME TypesInv, StLoaded.position # NoStPosition,
         NEW broker \in BOOLEAN, NEW qty \in Int, NEW exit \in Int
  PROVE  ClosedAs(Drift(broker, StClosed(LegSold(qty, exit), exit)), broker, qty, exit)
<1> DEFINE losses == IF NetPnl(StLoaded.position, exit) < 0
                     THEN sthist.losses + 1 ELSE 0
           h == Drift(broker, StClosed(LegSold(qty, exit), exit))
           g == Drift(broker, LegSold(qty, exit))
<1>1. losses \in Nat
  BY HistoryTyped
<1>2. g \in Histories /\ g.losses = sthist.losses
  BY SoldHistory
<1>3. h = [g EXCEPT !.losses = losses]
  BY HistoryTyped DEF Drift, StClosed, LegSold, TypesInv, Histories
<1> HIDE DEF losses, h, g
<1>4. /\ h \in Histories /\ h.losses = losses
      /\ h.drift = g.drift /\ h.unchecked = g.unchecked
      /\ h.unsaved = g.unsaved /\ h.carried = g.carried
      /\ h.earned = g.earned /\ h.legs = g.legs
  BY <1>1, <1>2, <1>3 DEF Histories
<1>5. /\ g.drift = (sthist.drift \/ ~ broker)
      /\ g.unchecked = sthist.unchecked /\ g.unsaved = sthist.unsaved
      /\ g.carried = sthist.carried
      /\ g.earned = sthist.earned + (exit - StLoaded.position.entry) * qty
      /\ g.legs = IF qty > 0 THEN sthist.legs + 1 ELSE sthist.legs
  BY SoldHistory DEF g
<1>6. ClosedAs(h, broker, qty, exit)
  BY <1>4, <1>5, Zenon DEF losses, ClosedAs
<1> QED  BY <1>6 DEF h

-----------------------------------------------------------------------------
(* What a refresh finds, and the two ways it ends. *)

LEMMA LoadedFits ==
  ASSUME BooksInv, stpc = "idle"
  PROVE  /\ SharesFit(StLoaded, sthist, stshares)
         /\ ~ sthist.unsaved => StLoaded.session.losses = sthist.losses
         /\ ~ sthist.unsaved /\ ~ sthist.carried =>
              StLoaded.session.pnl - Unbooked(StLoaded)
                = sthist.earned - StCharge * sthist.legs
<1>1. Current = stfile
  BY DEF Current
<1>2. /\ StLoaded.position = stfile.position
      /\ stfile.session.date = stday => StLoaded = stfile
      /\ stfile.session.date # stday =>
           StLoaded.session.losses = 0 /\ StLoaded.session.pnl = 0
  BY LoadedState DEF BooksInv
<1>3. StCharge * 0 = 0 /\ StCharge \in Nat
  BY ConstantsTyped
<1>4. CASE stfile.session.date = stday
  BY <1>1, <1>2, <1>4 DEF BooksInv, SharesFit, LossesFit, ResultFits
<1>5. CASE stfile.session.date # stday
  BY <1>1, <1>2, <1>3, <1>5 DEF BooksInv, SharesFit, LossesFit, ResultFits, Held, Unbooked
<1> QED  BY <1>4, <1>5

(* A refresh that trades nothing, or whose order filled unconfirmed. *)
LEMMA Settles ==
  ASSUME BooksInv, stpc = "idle", stfile' = StLoaded,
         UNCHANGED <<stday, stpc, stpending>>,
         sthist' \in Histories, stshares' \in Int,
         sthist'.unsaved = sthist.unsaved, sthist'.carried = sthist.carried,
         sthist'.losses = sthist.losses, sthist'.earned = sthist.earned,
         sthist'.legs = sthist.legs,
         ~ sthist'.drift => ~ sthist.drift /\ stshares' = stshares,
         OneSize'
  PROVE  BooksInv'
<1>1. /\ StLoaded \in States /\ WithinSize(StLoaded)
      /\ StLoaded.session.date = stday /\ stday \in Nat
  BY LoadedState, ConstantsTyped DEF BooksInv, TypesInv
<1>2. TypesInv'
  BY <1>1 DEF BooksInv, TypesInv, WithinSize
<1>3. Current' = StLoaded
  BY DEF Current
<1>4. SharesFit(Current, sthist, stshares)'
  BY <1>3, LoadedFits DEF SharesFit, Held
<1>5. LossesFit(Current, sthist, stday)'
  BY <1>1, <1>3, LoadedFits DEF LossesFit
<1>6. ResultFits(Current, sthist, stday)'
  BY <1>1, <1>3, LoadedFits DEF ResultFits, Unbooked
<1> QED  BY <1>2, <1>4, <1>5, <1>6 DEF BooksInv

(* A refresh that trades: t is yet to be saved. *)
LEMMA Trades ==
  ASSUME BooksInv, NEW t \in States, WithinSize(t), t.session.date = stday,
         Pending(t), UNCHANGED <<stday, stfile>>,
         sthist' \in Histories, stshares' \in Int,
         SharesFit(t, sthist', stshares'), LossesFit(t, sthist', stday),
         ResultFits(t, sthist', stday), OneSize'
  PROVE  BooksInv'
<1>1. stday \in Nat
  BY ConstantsTyped DEF BooksInv, TypesInv
<1>2. TypesInv'
  BY <1>1 DEF BooksInv, TypesInv, WithinSize, Pending
<1>3. Current' = t
  BY DEF Current, Pending
<1>4. SharesFit(Current, sthist, stshares)'
  BY <1>3 DEF SharesFit, Held
<1>5. LossesFit(Current, sthist, stday)'
  BY <1>3 DEF LossesFit
<1>6. ResultFits(Current, sthist, stday)'
  BY <1>3 DEF ResultFits, Unbooked
<1> QED  BY <1>2, <1>4, <1>5, <1>6 DEF BooksInv

-----------------------------------------------------------------------------
(* One lemma for each action. *)

LEMMA QuietKeeps ==
  ASSUME BooksInv, StIdle, SavesLoaded
  PROVE  BooksInv'
<1>1. stpc = "idle" /\ UNCHANGED <<stday, stpc, stpending, stshares, sthist>>
      /\ stfile' = StLoaded
  BY DEF StIdle, SavesLoaded
<1>2. OneSize'
  BY <1>1 DEF BooksInv, OneSize
<1>3. sthist' \in Histories /\ stshares' \in Int
  BY <1>1 DEF BooksInv, TypesInv
<1> QED  BY <1>1, <1>2, <1>3, Settles

LEMMA UnfilledKeeps ==
  ASSUME BooksInv, StIdle, NEW qty \in Int, SellUnfilled(qty)
  PROVE  BooksInv'
<1>1. stpc = "idle" /\ UNCHANGED <<stday, stpc, stpending>> /\ stfile' = StLoaded
  BY DEF StIdle, SellUnfilled
<1>2. StRisk \div StAtr \in Nat /\ stshares \in Int
  BY ConstantsTyped DEF BooksInv, TypesInv
<1>3. CASE UNCHANGED <<stshares, sthist>>
  <2>1. OneSize'
    BY <1>3 DEF BooksInv, OneSize
  <2>2. sthist' \in Histories /\ stshares' \in Int
    BY <1>3 DEF BooksInv, TypesInv
  <2> QED  BY <1>1, <1>3, <2>1, <2>2, Settles
<1>4. CASE /\ qty > 0 /\ stshares' = stshares - qty
           /\ sthist' = [sthist EXCEPT !.drift = TRUE]
  <2>1. /\ sthist' \in Histories /\ sthist'.drift = TRUE
        /\ sthist'.unchecked = sthist.unchecked
        /\ sthist'.unsaved = sthist.unsaved /\ sthist'.carried = sthist.carried
        /\ sthist'.losses = sthist.losses /\ sthist'.earned = sthist.earned
        /\ sthist'.legs = sthist.legs
    BY <1>4 DEF BooksInv, TypesInv, Histories
  <2>2. stshares' \in Int /\ OneSize'
    BY <1>2, <1>4, <2>1 DEF BooksInv, OneSize
  <2> QED  BY <1>1, <2>1, <2>2, Settles
<1> QED  BY <1>3, <1>4 DEF SellUnfilled

LEMMA PartialKeeps ==
  ASSUME BooksInv, ExitPartial
  PROVE  BooksInv'
<1>1. PICK price \in StPrices, flip \in BOOLEAN, broker \in BOOLEAN, slip \in StSlip :
        LET reason == ManagePosition(StLoaded.position, price, flip)
            qty == Third(StLoaded.position)
            exit == IF broker THEN price + slip ELSE price
        IN  \/ /\ Sells(broker, qty)
               /\ Pending(BookPartial(StLoaded, exit, reason))
               /\ sthist' = Drift(broker, LegSold(qty, exit))
            \/ broker /\ SellUnfilled(qty)
  BY DEF ExitPartial
<1> DEFINE reason == ManagePosition(StLoaded.position, price, flip)
           pos == StLoaded.position
           qty == Third(pos)
           exit == IF broker THEN price + slip ELSE price
           made == (exit - pos.entry) * qty
           t == BookPartial(StLoaded, exit, reason)
<1>2. StIdle /\ stpc = "idle" /\ pos # NoStPosition
  BY DEF ExitPartial, StIdle
<1>3. TypesInv /\ StLoaded \in States /\ WithinSize(StLoaded) /\ pos \in StPositions
      /\ StLoaded.session.date = stday
  BY <1>2, LoadedState, StateTyped DEF BooksInv
<1>4. qty \in Nat /\ 1 <= qty /\ exit \in Int
  BY <1>3, ThirdIsAShare, ConstantsTyped
<1>5. made \in Int
  BY <1>3, <1>4, PositionTyped
<1>6. CASE broker /\ SellUnfilled(qty)
  BY <1>2, <1>4, <1>6, UnfilledKeeps
<1>7. CASE /\ Sells(broker, qty) /\ Pending(t)
           /\ sthist' = Drift(broker, LegSold(qty, exit))
  <2>1. /\ t \in States /\ WithinSize(t) /\ t.position # NoStPosition
        /\ t.position.rem = pos.rem - qty
        /\ t.position.charges = pos.charges + StCharge
        /\ t.session.date = stday
        /\ t.session.losses = StLoaded.session.losses
        /\ t.session.pnl = StLoaded.session.pnl + made
    BY <1>2, <1>3, <1>4, PartialBooked
  <2>2. /\ sthist' \in Histories /\ sthist'.drift = (sthist.drift \/ ~ broker)
        /\ sthist'.unchecked = sthist.unchecked /\ sthist'.unsaved = sthist.unsaved
        /\ sthist'.carried = sthist.carried /\ sthist'.losses = sthist.losses
        /\ sthist'.earned = sthist.earned + made
        /\ sthist'.legs = sthist.legs + 1
    BY <1>2, <1>3, <1>4, <1>7, SoldHistory
  <2>3. /\ UNCHANGED <<stday, stfile>>
        /\ stshares' = IF broker THEN stshares - qty ELSE stshares
    BY <1>2, <1>7 DEF Sells, StIdle
  <2>4. /\ stshares \in Int /\ StRisk \div StAtr \in Nat /\ StCharge \in Nat
        /\ sthist.legs \in Nat /\ sthist.earned \in Int
        /\ pos.rem \in Int /\ pos.charges \in Nat /\ StLoaded.session.pnl \in Int
    BY <1>3, ConstantsTyped, HistoryTyped, PositionTyped, StateTyped DEF TypesInv
  <2>5. StCharge * (sthist.legs + 1) = StCharge * sthist.legs + StCharge
    BY <2>4
  <2> HIDE DEF t, made, qty, exit, pos
  <2>6. stshares' \in Int /\ OneSize'
    BY <1>4, <2>2, <2>3, <2>4 DEF BooksInv, OneSize
  <2>7. SharesFit(t, sthist', stshares')
    BY <1>2, <2>1, <2>2, <2>3, LoadedFits DEF SharesFit, Held, pos
  <2>8. LossesFit(t, sthist', stday)
    BY <1>2, <2>1, <2>2, LoadedFits DEF LossesFit
  <2>9. ResultFits(t, sthist', stday)
    <3>1. SUFFICES ASSUME ~ sthist.unsaved, ~ sthist.carried
                   PROVE  t.session.pnl - Unbooked(t)
                            = sthist'.earned - StCharge * sthist'.legs
      BY <2>1, <2>2 DEF ResultFits
    <3>2. StLoaded.session.pnl - pos.charges = sthist.earned - StCharge * sthist.legs
      BY <1>2, <3>1, LoadedFits DEF Unbooked, pos
    <3>3. Unbooked(t) = pos.charges + StCharge
      BY <2>1 DEF Unbooked
    <3>4. StCharge * sthist.legs \in Int
      BY <2>4
    <3> DEFINE due == StCharge * sthist.legs
    <3>5. /\ t.session.pnl = StLoaded.session.pnl + made
          /\ sthist'.earned = sthist.earned + made
          /\ StCharge * sthist'.legs = due + StCharge
          /\ StLoaded.session.pnl - pos.charges = sthist.earned - due
          /\ due \in Int
      BY <2>1, <2>2, <2>5, <3>2, <3>4
    <3> HIDE DEF due
    <3> DEFINE before == StLoaded.session.pnl
               open == pos.charges
               earned == sthist.earned
    <3>6. /\ before \in Int /\ open \in Int /\ earned \in Int /\ StCharge \in Int /\ made \in Int
          /\ before - open = earned - due /\ due \in Int
      BY <1>5, <2>4, <3>5
    <3>7. /\ t.session.pnl = before + made /\ sthist'.earned = earned + made
          /\ StCharge * sthist'.legs = due + StCharge /\ Unbooked(t) = open + StCharge
      BY <3>3, <3>5
    <3> HIDE DEF before, open, earned
    <3>8. (before + made) - (open + StCharge) = (earned + made) - (due + StCharge)
      BY <3>6
    <3> QED  BY <3>7, <3>8
  <2> QED  BY <1>2, <1>7, <2>1, <2>2, <2>3, <2>6, <2>7, <2>8, <2>9, Trades
<1> QED  BY <1>1, <1>6, <1>7

LEMMA FullKeeps ==
  ASSUME BooksInv, ExitFull
  PROVE  BooksInv'
<1>1. PICK price \in StPrices, flip \in BOOLEAN, broker \in BOOLEAN, slip \in StSlip :
        LET qty == StLoaded.position.rem
            exit == IF broker THEN price + slip ELSE price
        IN  \/ /\ qty > 0 \/ ~ broker
               /\ Sells(broker, qty)
               /\ Pending(ClosePositionAt(StLoaded, exit))
               /\ sthist' = Drift(broker, StClosed(LegSold(qty, exit), exit))
            \/ broker /\ SellUnfilled(qty)
            \/ SavesLoaded
  BY DEF ExitFull
<1> DEFINE pos == StLoaded.position
           qty == pos.rem
           exit == IF broker THEN price + slip ELSE price
           made == (exit - pos.entry) * qty
           t == ClosePositionAt(StLoaded, exit)
           h == Drift(broker, StClosed(LegSold(qty, exit), exit))
<1>2. StIdle /\ stpc = "idle" /\ pos # NoStPosition
  BY DEF ExitFull, StIdle
<1>3. TypesInv /\ StLoaded \in States /\ pos \in StPositions
      /\ StLoaded.session.date = stday
  BY <1>2, LoadedState, StateTyped DEF BooksInv
<1>4. qty \in Int /\ exit \in Int /\ pos.entry \in Nat
  BY <1>3, PositionTyped, ConstantsTyped
<1>5. made \in Int
  BY <1>4
<1>6. CASE broker /\ SellUnfilled(qty)
  BY <1>2, <1>4, <1>6, UnfilledKeeps
<1>7. CASE SavesLoaded
  BY <1>2, <1>7, QuietKeeps
<1>8. CASE (qty > 0 \/ ~ broker) /\ Sells(broker, qty) /\ Pending(t) /\ sthist' = h
  <2>1. /\ t \in States /\ t.position = NoStPosition
        /\ t.session.date = stday
        /\ t.session.losses = IF NetPnl(pos, exit) < 0
                              THEN StLoaded.session.losses + 1 ELSE 0
        /\ t.session.pnl = StLoaded.session.pnl + made - (pos.charges + Charges(qty))
    BY <1>2, <1>3, <1>4, CloseBooked
  <2>2. /\ sthist' \in Histories
        /\ sthist'.drift = (sthist.drift \/ ~ broker)
        /\ sthist'.unchecked = sthist.unchecked /\ sthist'.unsaved = sthist.unsaved
        /\ sthist'.carried = sthist.carried
        /\ sthist'.losses = IF NetPnl(pos, exit) < 0 THEN sthist.losses + 1 ELSE 0
        /\ sthist'.earned = sthist.earned + made
        /\ sthist'.legs = IF qty > 0 THEN sthist.legs + 1 ELSE sthist.legs
    <3>1. TypesInv /\ pos # NoStPosition
      BY <1>2, <1>3
    <3>2. sthist' = Drift(broker, StClosed(LegSold(qty, exit), exit))
      BY <1>8
    <3> HIDE DEF qty, exit
    <3>3. ClosedAs(Drift(broker, StClosed(LegSold(qty, exit), exit)), broker, qty, exit)
      BY <1>4, <3>1, ClosedHistory
    <3>4. ClosedAs(sthist', broker, qty, exit)
      BY <3>2, <3>3
    <3> QED  BY Zenon, <3>4 DEF ClosedAs
  <2>3. /\ UNCHANGED <<stday, stfile>>
        /\ stshares' = IF broker THEN stshares - qty ELSE stshares
    BY <1>2, <1>8 DEF Sells, StIdle
  <2>4. /\ stshares \in Int /\ StRisk \div StAtr \in Nat /\ StCharge \in Nat
        /\ sthist.legs \in Nat /\ sthist.earned \in Int
        /\ pos.charges \in Nat /\ StLoaded.session.pnl \in Int
    BY <1>3, ConstantsTyped, HistoryTyped, PositionTyped, StateTyped DEF TypesInv
  <2>5. StCharge * (sthist.legs + 1) = StCharge * sthist.legs + StCharge
    BY <2>4
  <2>6. /\ Charges(qty) \in Nat
        /\ qty > 0 => Charges(qty) = StCharge
        /\ qty <= 0 => Charges(qty) = 0
    BY <1>4, ChargesTyped
  <2> HIDE DEF t, h, made, qty, exit, pos
  <2>7. stshares' \in Int /\ OneSize'
    BY <1>4, <1>8, <2>2, <2>3, <2>4 DEF BooksInv, OneSize
  <2>8. SharesFit(t, sthist', stshares')
    <3>1. SUFFICES ASSUME ~ sthist'.drift PROVE stshares' = 0
      BY <2>1 DEF SharesFit, Held
    <3>2. broker /\ ~ sthist.drift
      BY <2>2, <3>1
    <3>3. stshares = qty
      BY <1>2, <3>2, LoadedFits DEF SharesFit, Held, pos, qty
    <3> QED  BY <1>4, <2>3, <3>2, <3>3
  <2>9. LossesFit(t, sthist', stday)
    BY <1>2, <2>1, <2>2, LoadedFits DEF LossesFit
  <2>10. ResultFits(t, sthist', stday)
    <3>1. SUFFICES ASSUME ~ sthist.unsaved, ~ sthist.carried
                   PROVE  t.session.pnl - Unbooked(t)
                            = sthist'.earned - StCharge * sthist'.legs
      BY <2>1, <2>2 DEF ResultFits
    <3>2. StLoaded.session.pnl - pos.charges = sthist.earned - StCharge * sthist.legs
      BY <1>2, <3>1, LoadedFits DEF Unbooked, pos
    <3>3. Unbooked(t) = 0
      BY <2>1 DEF Unbooked
    <3> DEFINE due == StCharge * sthist.legs
    <3>4. due \in Int
      BY <2>4
    <3>5. StCharge * sthist'.legs = due + Charges(qty)
      <4>1. CASE qty > 0
        BY <2>2, <2>5, <2>6, <4>1
      <4>2. CASE qty <= 0
        BY <1>4, <2>2, <2>6, <3>4, <4>2
      <4> QED  BY <1>4, <4>1, <4>2
    <3>6. StLoaded.session.pnl - pos.charges = sthist.earned - due
      BY <3>2
    <3> HIDE DEF due
    <3> QED  BY <1>5, <2>1, <2>2, <2>4, <2>6, <3>3, <3>4, <3>5, <3>6
  <2>11. WithinSize(t)
    BY <2>1 DEF WithinSize
  <2>12. Pending(t)
    BY <1>8
  <2> QED  BY <1>2, <2>1, <2>2, <2>3, <2>7, <2>8, <2>9, <2>10, <2>11, <2>12, Trades
<1> QED  BY <1>1, <1>6, <1>7, <1>8

(* An entry: whatever the history becomes, its counts of the day stay. *)
LEMMA EntryKeeps ==
  ASSUME BooksInv, StIdle, StLoaded.position = NoStPosition, NEW z,
         z.entry \in Nat, z.sl \in Int, z.t1 \in Nat, z.t2 \in Nat, z.t3 \in Nat,
         z.qty \in Nat, z.qty > 0,
         Pending(OpenPosition(StLoaded, z)), UNCHANGED stfile,
         sthist' \in Histories, stshares' \in Int,
         sthist'.unsaved = sthist.unsaved, sthist'.carried = sthist.carried,
         sthist'.losses = sthist.losses, sthist'.earned = sthist.earned,
         sthist'.legs = sthist.legs,
         ~ sthist'.drift => stshares' = z.qty, OneSize'
  PROVE  BooksInv'
<1> DEFINE t == OpenPosition(StLoaded, z)
<1>1. stpc = "idle" /\ UNCHANGED <<stday, stfile>>
  BY DEF StIdle
<1>2. StLoaded \in States /\ StLoaded.session.date = stday
  BY LoadedState DEF BooksInv
<1>3. /\ t \in States /\ WithinSize(t) /\ t.position # NoStPosition
      /\ t.position.rem = z.qty /\ t.position.charges = 0
      /\ t.session = StLoaded.session
  BY <1>2, PositionOpened
<1>4. Unbooked(t) = Unbooked(StLoaded)
  BY <1>3 DEF Unbooked
<1>5. Pending(t)
  OBVIOUS
<1> HIDE DEF t
<1>6. SharesFit(t, sthist', stshares')
  BY <1>3 DEF SharesFit, Held
<1>7. LossesFit(t, sthist', stday)
  BY <1>1, <1>2, <1>3, LoadedFits DEF LossesFit
<1>8. ResultFits(t, sthist', stday)
  BY <1>1, <1>2, <1>3, <1>4, LoadedFits DEF ResultFits
<1> QED  BY <1>1, <1>2, <1>3, <1>5, <1>6, <1>7, <1>8, Trades

LEMMA EnterKeeps ==
  ASSUME BooksInv, Enter
  PROVE  BooksInv'
<1>1. PICK price \in StSignalPrices, slip \in StSlip :
        LET qty == Sizing(price).qty
        IN  /\ qty > 0
            /\ Buys(price, price + slip, qty)
            /\ \/ /\ NothingHeld(TRUE, stshares)
                  /\ sthist' = [sthist EXCEPT !.buys = @ + 1]
               \/ sthist' = [sthist EXCEPT !.unchecked = TRUE, !.buys = @ + 1,
                                           !.drift = @ \/ stshares # 0]
  BY DEF Enter
<1> DEFINE qty == Sizing(price).qty
           z == SizingAtFill(price, price + slip, qty)
           buys == sthist.buys + 1
<1>2. /\ price \in Nat /\ 1 <= price /\ price + slip \in Nat /\ 1 <= price + slip
      /\ stshares \in Int /\ TypesInv
  BY ConstantsTyped DEF BooksInv, TypesInv
<1>3. qty = PositionSizeAt(price)
  BY DEF Sizing
<1>4. qty \in Nat /\ qty <= StRisk \div StAtr
  BY <1>2, <1>3, SizeIsCapped
<1>5. /\ z.entry \in Nat /\ z.sl \in Int /\ z.t1 \in Nat /\ z.t2 \in Nat
      /\ z.t3 \in Nat /\ z.qty = qty
  <2> HIDE DEF qty
  <2> QED  BY <1>2, <1>4, SizedAtFill
<1>6. StIdle /\ StLoaded.position = NoStPosition
  BY DEF Enter, MayEnter
<1>7. /\ stshares' = stshares + qty /\ UNCHANGED stfile
      /\ Pending(OpenPosition(StLoaded, z))
  BY <1>1 DEF Buys
<1>8. buys \in Nat
  BY <1>2, HistoryTyped
<1>9. qty > 0 /\ StRisk \div StAtr \in Nat
  BY <1>1, ConstantsTyped
<1>10. CASE NothingHeld(TRUE, stshares) /\ sthist' = [sthist EXCEPT !.buys = @ + 1]
  <2>1. sthist' = [sthist EXCEPT !.buys = buys] /\ stshares = 0
    BY <1>10 DEF NothingHeld
  <2> HIDE DEF buys, qty, z
  <2>2. /\ sthist' \in Histories
        /\ sthist'.unsaved = sthist.unsaved /\ sthist'.carried = sthist.carried
        /\ sthist'.losses = sthist.losses /\ sthist'.earned = sthist.earned
        /\ sthist'.legs = sthist.legs
    BY <1>2, <1>8, <2>1 DEF TypesInv, Histories
  <2>3. stshares' = z.qty /\ stshares' \in Int /\ OneSize'
    BY <1>4, <1>5, <1>7, <2>1 DEF OneSize
  <2> QED  BY <1>4, <1>5, <1>6, <1>7, <1>9, <2>2, <2>3, EntryKeeps
<1>11. CASE sthist' = [sthist EXCEPT !.unchecked = TRUE, !.buys = @ + 1,
                                     !.drift = @ \/ stshares # 0]
  <2>1. PICK d \in BOOLEAN : d = (sthist.drift \/ stshares # 0)
    BY Zenon
  <2>2. sthist' = [sthist EXCEPT !.unchecked = TRUE, !.buys = buys, !.drift = d]
    BY <1>2, <1>11, <2>1 DEF TypesInv, Histories
  <2> HIDE DEF buys, qty, z
  <2>3. /\ sthist' \in Histories /\ sthist'.unchecked = TRUE /\ sthist'.drift = d
        /\ sthist'.unsaved = sthist.unsaved /\ sthist'.carried = sthist.carried
        /\ sthist'.losses = sthist.losses /\ sthist'.earned = sthist.earned
        /\ sthist'.legs = sthist.legs
    BY <1>2, <1>8, <2>2 DEF TypesInv, Histories
  <2>4. stshares' \in Int /\ OneSize'
    BY <1>2, <1>4, <1>7, <2>3 DEF OneSize
  <2>5. ~ sthist'.drift => stshares' = z.qty
    <3>1. SUFFICES ASSUME ~ sthist'.drift PROVE stshares' = z.qty
      OBVIOUS
    <3>2. ~ d
      BY <2>3, <3>1
    <3>3. stshares = 0
      BY <2>1, <3>2, Zenon
    <3> QED  BY <1>2, <1>4, <1>5, <1>7, <3>3
  <2> QED  BY <1>4, <1>5, <1>6, <1>7, <1>9, <2>3, <2>4, <2>5, EntryKeeps
<1> QED  BY <1>1, <1>10, <1>11

LEMMA EnterFailsKeeps ==
  ASSUME BooksInv, EnterFails
  PROVE  BooksInv'
<1>1. PICK price \in StSignalPrices : stshares' = stshares + Sizing(price).qty
  BY DEF EnterFails
<1> DEFINE qty == Sizing(price).qty
           buys == sthist.buys + 1
<1>2. price \in Nat /\ 1 <= price /\ stshares \in Int /\ TypesInv
  BY ConstantsTyped DEF BooksInv, TypesInv
<1>3. qty = PositionSizeAt(price)
  BY DEF Sizing
<1>4. qty \in Nat /\ qty <= StRisk \div StAtr
  BY <1>2, <1>3, SizeIsCapped
<1>5. buys \in Nat
  BY <1>2, HistoryTyped
<1>6. sthist' = [sthist EXCEPT !.drift = TRUE, !.buys = buys] /\ stshares = 0
  BY <1>2 DEF EnterFails, NothingHeld, TypesInv, Histories
<1>7. /\ stpc = "idle" /\ UNCHANGED <<stday, stpc, stpending>> /\ stfile' = StLoaded
  BY DEF EnterFails, StIdle
<1> HIDE DEF buys, qty
<1>8. /\ sthist' \in Histories /\ sthist'.drift = TRUE
      /\ sthist'.unsaved = sthist.unsaved /\ sthist'.carried = sthist.carried
      /\ sthist'.losses = sthist.losses /\ sthist'.earned = sthist.earned
      /\ sthist'.legs = sthist.legs
  BY <1>2, <1>5, <1>6 DEF TypesInv, Histories
<1>9. stshares' \in Int /\ OneSize'
  BY <1>1, <1>4, <1>6 DEF OneSize, qty
<1> QED  BY <1>7, <1>8, <1>9, Settles

LEMMA PaperKeeps ==
  ASSUME BooksInv, EnterOnPaper
  PROVE  BooksInv'
<1>1. PICK price \in StSignalPrices :
        Sizing(price).qty > 0 /\ Pending(OpenPosition(StLoaded, Sizing(price)))
  BY DEF EnterOnPaper
<1> DEFINE z == Sizing(price)
           buys == sthist.buys + 1
<1>2. /\ price \in Nat /\ 1 <= price /\ StAtr \in Nat /\ TypesInv
  BY ConstantsTyped DEF BooksInv
<1>3. /\ z.entry \in Nat /\ z.sl \in Int /\ z.t1 \in Nat /\ z.t2 \in Nat
      /\ z.t3 \in Nat /\ z.qty \in Nat /\ z.qty > 0
  BY <1>1, <1>2, SizeIsCapped DEF Sizing
<1>4. buys \in Nat
  BY <1>2, HistoryTyped
<1>5. sthist' = [sthist EXCEPT !.drift = TRUE, !.buys = buys]
  BY <1>2 DEF EnterOnPaper, TypesInv, Histories
<1>6. StIdle /\ StLoaded.position = NoStPosition /\ UNCHANGED <<stfile, stshares>>
  BY DEF EnterOnPaper, MayEnter
<1> HIDE DEF buys, z
<1>7. /\ sthist' \in Histories /\ sthist'.drift = TRUE
      /\ sthist'.unchecked = sthist.unchecked
      /\ sthist'.unsaved = sthist.unsaved /\ sthist'.carried = sthist.carried
      /\ sthist'.losses = sthist.losses /\ sthist'.earned = sthist.earned
      /\ sthist'.legs = sthist.legs
  BY <1>2, <1>4, <1>5 DEF TypesInv, Histories
<1>8. stshares' \in Int /\ OneSize'
  BY <1>2, <1>6, <1>7 DEF BooksInv, OneSize, TypesInv
<1>9. Pending(OpenPosition(StLoaded, z))
  BY <1>1 DEF z
<1> QED  BY <1>3, <1>6, <1>7, <1>8, <1>9, EntryKeeps

LEMMA DefaultTyped ==
  /\ DefaultState \in States /\ WithinSize(DefaultState)
  /\ DefaultState.position = NoStPosition
  /\ DefaultState.session.date = 0
  /\ DefaultState.session.losses = 0 /\ DefaultState.session.pnl = 0
BY DEF DefaultState, FreshSession, States, Sessions, WithinSize

(* The save that fails and the process that dies leave the older record. *)
LEMMA ForgetKeeps ==
  ASSUME BooksInv, stpc' = "idle", stpending' = DefaultState,
         sthist' = [sthist EXCEPT !.drift = TRUE, !.unsaved = TRUE],
         UNCHANGED <<stday, stfile, stshares>>
  PROVE  BooksInv'
<1>1. /\ sthist' \in Histories /\ sthist'.drift = TRUE /\ sthist'.unsaved = TRUE
      /\ sthist'.unchecked = sthist.unchecked
  BY DEF BooksInv, TypesInv, Histories
<1>2. stday \in Nat
  BY ConstantsTyped DEF BooksInv, TypesInv
<1>3. TypesInv'
  BY <1>1, <1>2, DefaultTyped DEF BooksInv, TypesInv, WithinSize
<1>4. OneSize'
  BY <1>1 DEF BooksInv, OneSize
<1>5. /\ SharesFit(Current, sthist, stshares)'
      /\ LossesFit(Current, sthist, stday)'
      /\ ResultFits(Current, sthist, stday)'
  BY <1>1 DEF SharesFit, LossesFit, ResultFits
<1> QED  BY <1>3, <1>4, <1>5 DEF BooksInv

LEMMA SaveKeeps ==
  ASSUME BooksInv, SaveState
  PROVE  BooksInv'
<1>1. stpc = "save" /\ stpc' = "idle" /\ stpending' = DefaultState
      /\ UNCHANGED <<stday, stshares>>
  BY DEF SaveState
<1>2. CASE stfile' = stpending /\ UNCHANGED sthist
  <2>1. stday \in Nat
    BY ConstantsTyped DEF BooksInv, TypesInv
  <2>2. TypesInv'
    BY <1>1, <1>2, <2>1, DefaultTyped DEF BooksInv, TypesInv, WithinSize
  <2>3. Current' = Current
    BY <1>1, <1>2 DEF Current
  <2>4. OneSize'
    BY <1>1, <1>2 DEF BooksInv, OneSize
  <2>5. /\ SharesFit(Current, sthist, stshares)'
        /\ LossesFit(Current, sthist, stday)'
        /\ ResultFits(Current, sthist, stday)'
    BY <1>1, <1>2, <2>3 DEF BooksInv, SharesFit, LossesFit, ResultFits, Held, Unbooked
  <2> QED  BY <2>2, <2>4, <2>5 DEF BooksInv
<1>3. CASE /\ UNCHANGED stfile
           /\ sthist' = [sthist EXCEPT !.drift = TRUE, !.unsaved = TRUE]
  BY <1>1, <1>3, ForgetKeeps
<1> QED  BY <1>2, <1>3 DEF SaveState

LEMMA RestartKeeps ==
  ASSUME BooksInv, StRestart
  PROVE  BooksInv'
BY ForgetKeeps DEF StRestart

LEMMA NextDayKeeps ==
  ASSUME BooksInv, StNextDay
  PROVE  BooksInv'
<1>1. /\ stpc = "idle" /\ stday < StDays /\ stday' = stday + 1
      /\ UNCHANGED <<stfile, stpc, stpending, stshares>>
  BY DEF StNextDay
<1>2. stday \in Nat /\ StDays \in Nat /\ TypesInv
  BY ConstantsTyped DEF BooksInv, TypesInv
<1>3. PICK c \in BOOLEAN : c = (stfile.position # NoStPosition)
  BY Zenon
<1>4. sthist' = [sthist EXCEPT !.losses = 0, !.earned = 0, !.legs = 0, !.carried = c]
  BY <1>3 DEF StNextDay
<1>5. /\ sthist' \in Histories /\ sthist'.losses = 0 /\ sthist'.earned = 0
      /\ sthist'.legs = 0 /\ sthist'.carried = c
      /\ sthist'.drift = sthist.drift /\ sthist'.unchecked = sthist.unchecked
  <2>1. sthist \in Histories /\ 0 \in Nat /\ 0 \in Int
    BY <1>2 DEF TypesInv
  <2> QED  BY <1>4, <2>1 DEF Histories
<1>6. stfile.session.date \in Nat /\ stpending.session.date \in Nat
  BY <1>2, StateTyped DEF TypesInv
<1>7. stfile.session.date # stday'
  BY <1>1, <1>2, <1>6 DEF TypesInv
<1>8. TypesInv'
  BY <1>1, <1>2, <1>5, <1>6 DEF TypesInv, WithinSize
<1>9. Current' = stfile /\ Current = stfile
  BY <1>1 DEF Current
<1>10. OneSize'
  BY <1>1, <1>5 DEF BooksInv, OneSize
<1>11. SharesFit(Current, sthist, stshares)'
  BY <1>1, <1>5, <1>9 DEF BooksInv, SharesFit, Held
<1>12. LossesFit(Current, sthist, stday)' /\ ResultFits(Current, sthist, stday)'
  BY <1>3, <1>5, <1>7, <1>9 DEF LossesFit, ResultFits
<1> QED  BY <1>8, <1>10, <1>11, <1>12 DEF BooksInv

-----------------------------------------------------------------------------
LEMMA BooksInitially ==
  ASSUME StInit
  PROVE  BooksInv
<1>1. /\ stpc = "idle" /\ stfile = DefaultState /\ stpending = DefaultState
      /\ stshares = 0 /\ stday = 1
      /\ sthist = [unchecked |-> FALSE, drift |-> FALSE, unsaved |-> FALSE,
                   losses |-> 0, earned |-> 0, legs |-> 0, carried |-> FALSE,
                   buys |-> 0]
  BY DEF StInit
<1>2. sthist \in Histories /\ sthist.losses = 0 /\ sthist.earned = 0 /\ sthist.legs = 0
  BY <1>1 DEF Histories
<1>3. TypesInv
  BY <1>1, <1>2, DefaultTyped, ConstantsTyped DEF TypesInv
<1>4. Current = DefaultState
  BY <1>1 DEF Current
<1>5. SharesFit(Current, sthist, stshares)
  BY <1>1, <1>4, DefaultTyped DEF SharesFit, Held
<1>6. LossesFit(Current, sthist, stday) /\ ResultFits(Current, sthist, stday)
  BY <1>1, <1>2, <1>4, DefaultTyped DEF LossesFit, ResultFits
<1>7. OneSize
  BY <1>1, ConstantsTyped DEF OneSize
<1> QED  BY <1>3, <1>5, <1>6, <1>7 DEF BooksInv

LEMMA BooksKept ==
  ASSUME BooksInv, [StNext]_stVars
  PROVE  BooksInv'
<1>1. CASE HoldPosition
  BY <1>1, QuietKeeps DEF HoldPosition
<1>2. CASE StayFlat
  BY <1>2, QuietKeeps DEF StayFlat
<1>3. CASE UNCHANGED stVars
  BY <1>3 DEF stVars, BooksInv, TypesInv, Current, SharesFit, LossesFit, ResultFits,
              OneSize, Held, Unbooked, WithinSize
<1> QED
  BY <1>1, <1>2, <1>3, PartialKeeps, FullKeeps, EnterKeeps, EnterFailsKeeps,
     PaperKeeps, SaveKeeps, RestartKeeps, NextDayKeeps DEF StNext

LEMMA OnlyEntriesBuy ==
  ASSUME BooksInv, [StNext]_stVars, stshares' > stshares
  PROVE  stpc = "idle" /\ MayEnter
<1>1. stshares \in Int /\ TypesInv
  BY DEF BooksInv, TypesInv
<1>2. CASE ExitPartial
  <2>1. Third(StLoaded.position) \in Nat /\ 1 <= Third(StLoaded.position)
    BY <1>1, <1>2, LoadedState, StateTyped, ThirdIsAShare DEF ExitPartial
  <2> DEFINE qty == Third(StLoaded.position)
  <2>2. stshares' \in {stshares, stshares - qty}
    BY <1>2 DEF ExitPartial, Sells, SellUnfilled
  <2> HIDE DEF qty
  <2> QED  BY <1>1, <2>1, <2>2 DEF qty
<1>3. CASE ExitFull
  <2> DEFINE qty == StLoaded.position.rem
  <2>1. qty \in Int
    BY <1>1, <1>3, LoadedState, StateTyped, PositionTyped DEF ExitFull
  <2>2. stshares' = stshares \/ (qty > 0 /\ stshares' = stshares - qty)
    BY <1>3 DEF ExitFull, Sells, SellUnfilled, SavesLoaded
  <2> HIDE DEF qty
  <2> QED  BY <1>1, <2>1, <2>2
<1>4. CASE Enter \/ EnterFails
  BY <1>4 DEF Enter, EnterFails, StIdle
<1>5. CASE \/ HoldPosition \/ StayFlat \/ EnterOnPaper \/ SaveState \/ StRestart
           \/ StNextDay \/ UNCHANGED stVars
  BY <1>1, <1>5 DEF HoldPosition, StayFlat, SavesLoaded, EnterOnPaper, SaveState,
                    StRestart, StNextDay, stVars
<1> QED  BY <1>2, <1>3, <1>4, <1>5 DEF StNext

LEMMA ThirdTryIsRefused ==
  ASSUME BooksInv, [StNext]_stVars, stshares' > stshares, ~ sthist.unsaved
  PROVE  sthist.losses < 2
<1>1. stpc = "idle" /\ MayEnter
  BY OnlyEntriesBuy
<1>2. StLoaded.session.losses = sthist.losses
  BY <1>1, LoadedFits
<1>3. ~ StLoaded.session.losses >= 2
  BY <1>1 DEF MayEnter, CircuitBreaker
<1> QED  BY <1>2, <1>3, HistoryTyped DEF BooksInv

LEMMA BooksImplyClaims ==
  ASSUME BooksInv
  PROVE  /\ StTypeOK /\ VenueMatchesStrategy /\ NoDoubledPosition /\ SessionPnlIsNet
<1>1. stday \in Nat /\ StDays \in Nat
  BY ConstantsTyped DEF BooksInv, TypesInv
<1>2. StTypeOK
  BY <1>1, StateTyped DEF BooksInv, TypesInv, StTypeOK, StateOK, WithinSize
<1>3. VenueMatchesStrategy
  BY DEF BooksInv, VenueMatchesStrategy, SharesFit, Current, Held
<1>4. NoDoubledPosition
  BY DEF BooksInv, OneSize, NoDoubledPosition
<1>5. SessionPnlIsNet
  <2>1. SUFFICES ASSUME stpc = "idle", stfile.position = NoStPosition,
                        stfile.session.date = stday, ~ sthist.unsaved, ~ sthist.carried
                 PROVE  stfile.session.pnl = sthist.earned - StCharge * sthist.legs
    BY DEF SessionPnlIsNet
  <2>2. stfile.session.pnl - 0 = sthist.earned - StCharge * sthist.legs
    BY <2>1 DEF BooksInv, ResultFits, Current, Unbooked
  <2>3. stfile.session.pnl \in Int
    BY StateTyped DEF BooksInv, TypesInv
  <2> QED  BY <2>2, <2>3
<1> QED  BY <1>2, <1>3, <1>4, <1>5

(* The strategy's file follows its orders, whatever fails: the record is what
   the venue holds, one position's worth at most is bought, the session's result
   is net of charges, and a third try after two losses is refused (apps/main.py
   _execute_strategy, src/emcure/state.py). *)
THEOREM BooksHold == StSpec => SupertrendBooks
<1>1. StInit => BooksInv
  BY BooksInitially
<1>2. BooksInv /\ [StNext]_stVars => BooksInv'
  BY BooksKept
<1>3. BooksInv => /\ StTypeOK /\ VenueMatchesStrategy
                  /\ NoDoubledPosition /\ SessionPnlIsNet
  BY BooksImplyClaims
<1>4. BooksInv /\ [StNext]_stVars =>
        [stshares' > stshares /\ ~ sthist.unsaved => sthist.losses < 2]_stVars
  BY ThirdTryIsRefused
<1> QED  BY <1>1, <1>2, <1>3, <1>4, PTL DEF StSpec, SupertrendBooks, TwoLossesEndTheDay

-----------------------------------------------------------------------------
(* SwingLab *)
(* What an open position is: its risk covers the way to its stop. *)
SwingPositions ==
  [stock : Nat, day : Nat, entry : Int, qty : Nat \ {0}, held : Nat, stop : Int, target : Int,
   risk : Int, signal : Int]

PositionHolds(p) ==
  /\ p \in SwingPositions /\ p.stock \in DOMAIN SwingStocks
  /\ p.held < MaxHoldDays
  /\ p.target >= p.stop
  /\ 100 * ((p.entry - p.stop) * p.qty) <= p.risk

TradeHolds(t) ==
  /\ -t.gross <= t.risk
  /\ t.reason = "target" => t.low > t.stop
  /\ t.held <= MaxHoldDays

SwingInv ==
  /\ swDay \in Nat /\ swEquity \in Int
  /\ swDay # 0 => swPrev \in SwingDays
  /\ swDay = 0 => swPosition = NoSwing
  /\ swPosition # NoSwing => PositionHolds(swPosition)
  /\ DOMAIN swTrades = 1 .. Len(swTrades) /\ Len(swTrades) \in Nat
  /\ \A k \in 1 .. Len(swTrades) : TradeHolds(swTrades[k])

LEMMA SwingConstants ==
  /\ SwingCapital \in Nat /\ RiskCap \in Nat /\ SwingScoreGate \in Nat
  /\ MaxHoldDays \in Nat \ {0} /\ MaxSwingDays \in Nat
  /\ DOMAIN SwingStocks = 1 .. Len(SwingStocks) /\ Len(SwingStocks) \in Nat
  /\ DOMAIN SwingStocks \subseteq Nat /\ IsFiniteSet(DOMAIN SwingStocks)
<1>1. /\ SwingCapital \in Nat /\ RiskCap \in Nat /\ SwingScoreGate \in Nat
      /\ MaxHoldDays \in Nat \ {0} /\ MaxSwingDays \in Nat
  BY SwingLabAssumption
<1>2. SwingStocks \in Seq(STRING)
  BY SwingLabAssumption
<1>3. DOMAIN SwingStocks = 1 .. Len(SwingStocks) /\ Len(SwingStocks) \in Nat
  BY <1>2
<1>4. IsFiniteSet(DOMAIN SwingStocks)
  BY <1>3, FS_Interval
<1> QED  BY <1>1, <1>3, <1>4

LEMMA BarsTyped ==
  ASSUME NEW d \in SwingDays, NEW s \in DOMAIN SwingStocks
  PROVE  LET b == d.bars[s]
         IN  /\ b.low \in Nat \ {0} /\ b.high \in Nat
             /\ b.open \in Nat \ {0} /\ b.close \in Int /\ b.low <= b.close
             /\ b.atr \in Nat /\ b.score \in Nat
<1> DEFINE b == d.bars[s]
<1>1. /\ {b.low, b.high} \subseteq Nat \ {0} /\ {b.open, b.close} \subseteq b.low .. b.high
      /\ b.atr \in Nat /\ b.score \in Nat
  BY SwingLabAssumption
<1> HIDE DEF b
<1>2. b.low \in Nat \ {0} /\ b.high \in Nat
  BY <1>1
<1>3. b.open \in b.low .. b.high /\ b.close \in b.low .. b.high
  BY <1>1
<1>4. /\ b.low \in Nat \ {0} /\ b.high \in Nat
      /\ b.open \in Nat \ {0} /\ b.close \in Int /\ b.low <= b.close
      /\ b.atr \in Nat /\ b.score \in Nat
  BY <1>1, <1>2, <1>3
<1> QED  BY <1>4 DEF b

LEMMA LeastOfTwo ==
  ASSUME NEW a \in Int, NEW b \in Int
  PROVE  Min({a, b}) \in {a, b} /\ Min({a, b}) <= a /\ Min({a, b}) <= b
<1>1. \E x \in {a, b} : \A y \in {a, b} : x <= y
  <2>1. CASE a <= b
    BY <2>1
  <2>2. CASE ~ (a <= b)
    BY <2>2
  <2> QED  BY <2>1, <2>2
<1>2. Min({a, b}) \in {a, b} /\ \A y \in {a, b} : Min({a, b}) <= y
  BY <1>1 DEF Min
<1> QED  BY <1>2

(* The size of a position: it is not worth more than its risk, down to its stop. *)
LEMMA SizeFitsRisk ==
  ASSUME NEW equity \in Int, NEW entry \in Nat \ {0}, NEW atr \in Nat, Size(equity, entry, atr) >= 1
  PROVE  /\ Size(equity, entry, atr) \in Nat \ {0} /\ RiskOf(equity) \in Int
         /\ 150 * (atr * Size(equity, entry, atr)) <= RiskOf(equity)
<1> DEFINE risk == RiskOf(equity)
           most == (2 * risk) \div (300 * atr)
           cash == (9 * equity) \div (1000 * entry)
           qty == Size(equity, entry, atr)
<1>1. risk \in Int
  <2>1. equity \div 50 \in Int /\ RiskCap \in Int
    BY SwingConstants
  <2> QED  BY <2>1, LeastOfTwo DEF RiskOf
<1> HIDE DEF risk
<1>2. atr > 0 /\ qty = Min({most, cash})
  <2>1. CASE atr <= 0
    <3>1. qty = 0
      BY <2>1 DEF Size
    <3> QED  BY <3>1
  <2>2. CASE ~ (atr <= 0)
    BY <2>2 DEF Size, risk
  <2> QED  BY <2>1, <2>2
<1> DEFINE d == 300 * atr
           n == 2 * risk
<1>3. d \in Nat \ {0} /\ n \in Int
  BY <1>1, <1>2
<1>4. most = n \div d
  OBVIOUS
<1>5. cash \in Int
  <2>1. 1000 * entry \in Nat \ {0} /\ 9 * equity \in Int
    OBVIOUS
  <2>2. ASSUME NEW x \in Int, NEW y \in Nat \ {0} PROVE x \div y \in Int
    OBVIOUS
  <2> QED  BY <2>1, <2>2
<1> HIDE DEF cash, most
<1>6. most \in Int /\ d * most <= n
  <2>1. ASSUME NEW x \in Int, NEW y \in Nat \ {0} PROVE x \div y \in Int /\ y * (x \div y) <= x
    <3>1. x \div y \in Int /\ x % y \in Int /\ 0 <= x % y /\ x = y * (x \div y) + (x % y)
      OBVIOUS
    <3>2. y * (x \div y) \in Int
      BY <3>1
    <3> QED  BY <3>1, <3>2
  <2> HIDE DEF d, n
  <2> QED  BY <1>3, <1>4, <2>1
<1>7. qty \in Int /\ qty <= most /\ qty >= 1
  <2>1. Min({most, cash}) \in Int /\ Min({most, cash}) <= most
    BY <1>5, <1>6, LeastOfTwo
  <2> HIDE DEF qty
  <2> QED  BY <1>2, <2>1 DEF qty
<1> HIDE DEF qty
<1>8. atr * qty <= atr * most /\ atr * qty \in Int /\ atr * most \in Int
  <2>1. ASSUME NEW e \in Nat, NEW a \in Int, NEW b \in Int, a <= b PROVE e * a <= e * b
    BY <2>1
  <2> QED  BY <1>6, <1>7, <2>1
<1>9. d * most = 300 * (atr * most)
  BY <1>6
<1> DEFINE am == atr * most
           aq == atr * qty
<1>10. am \in Int /\ aq \in Int /\ aq <= am /\ 300 * am <= 2 * risk
  BY <1>6, <1>8, <1>9
<1> HIDE DEF am, aq
<1>11. 150 * aq <= risk
  BY <1>1, <1>10
<1> QED  BY <1>1, <1>7, <1>11 DEF qty, aq, risk

-----------------------------------------------------------------------------
(* _select: the best of the candidates exists. *)
LEMMA BestIsSelected ==
  ASSUME NEW d \in SwingDays, Candidates(d) # {}
  PROVE  /\ Select(d) \in Candidates(d) /\ Select(d) \in DOMAIN SwingStocks
         /\ \A r \in Candidates(d) : d.bars[r].score <= d.bars[Select(d)].score
<1> DEFINE C == Candidates(d)
           beaten == [s \in C |-> {r \in C : d.bars[r].score > d.bars[s].score}]
           best == {s \in C : \A r \in C : d.bars[r].score <= d.bars[s].score}
<1>1. C \subseteq DOMAIN SwingStocks /\ C \subseteq Nat /\ IsFiniteSet(C)
  <2>1. C \subseteq DOMAIN SwingStocks
    BY DEF Candidates
  <2> QED  BY <2>1, SwingConstants, FS_Subset
<1>2. \A s \in C : d.bars[s].score \in Nat
  BY <1>1, BarsTyped
<1> HIDE DEF C
<1>3. /\ beaten \in [C -> SUBSET C]
      /\ \A s, r \in C : r \in beaten[s] <=> d.bars[r].score > d.bars[s].score
  OBVIOUS
<1> HIDE DEF beaten
<1>4. Order(C, beaten)
  <2>1. \A m \in C : m \notin beaten[m]
    BY <1>2, <1>3
  <2>2. \A m \in C : \A o \in beaten[m] : beaten[o] \subseteq beaten[m]
    <3> SUFFICES ASSUME NEW m \in C, NEW o \in beaten[m], NEW q \in beaten[o]
                 PROVE  q \in beaten[m]
      OBVIOUS
    <3>1. o \in C /\ q \in C
      BY <1>3
    <3>2. d.bars[o].score > d.bars[m].score /\ d.bars[q].score > d.bars[o].score
      BY <1>3, <3>1
    <3>3. d.bars[q].score > d.bars[m].score
      BY <1>2, <3>1, <3>2
    <3> QED  BY <1>3, <3>1, <3>3
  <2> QED  BY <2>1, <2>2 DEF Order
<1>5. PICK m \in C : beaten[m] = {}
  BY <1>1, <1>3, <1>4, FirstOne DEF C
<1>6. m \in best
  BY <1>2, <1>3, <1>5
<1>7. best \subseteq Nat /\ best # {}
  BY <1>1, <1>6
<1>8. Min(best) \in best
  <2> HIDE DEF best
  <2>1. \E x \in best : \A y \in best : x <= y
    BY <1>7, LeastOne
  <2> QED  BY <2>1 DEF Min
<1>9. Select(d) = Min(best)
  BY DEF Select, C
<1> QED  BY <1>1, <1>8, <1>9 DEF C

(* An entry is of the best candidate of the day before, within its risk. *)
LEMMA EntryHolds ==
  ASSUME NEW today \in SwingDays, NEW equity \in Int, swPrev \in SwingDays, swDay \in Nat,
         EntryToday(today, equity) # NoSwing
  PROVE  LET p == EntryToday(today, equity)
         IN  /\ PositionHolds(p) /\ p.held = 0
             /\ swPrev.regime = "TRENDING_BULL"
             /\ Candidates(swPrev) # {} /\ p.signal = swPrev.bars[Select(swPrev)].score
<1> DEFINE s == Select(swPrev)
           open == today.bars[s].open
           atr == swPrev.bars[s].atr
           signal == swPrev.bars[s].score
           qty == Size(equity, open, atr)
           risk == RiskOf(equity)
           stop == open - (3 * atr) \div 2
           target == open + 3 * atr
           p == [stock |-> s, day |-> swDay + 1, entry |-> open, qty |-> qty, held |-> 0,
                 stop |-> stop, target |-> target, risk |-> risk, signal |-> signal]
<1>1. swPrev.regime = "TRENDING_BULL" /\ Select(swPrev) # NoSwing
  BY DEF EntryToday
<1>2. Candidates(swPrev) # {}
  BY <1>1 DEF Select
<1>3. s \in DOMAIN SwingStocks /\ s \in Nat
  BY <1>2, BestIsSelected, SwingConstants
<1>4. open \in Nat \ {0} /\ atr \in Nat /\ signal \in Nat
  BY <1>3, BarsTyped
<1>5. qty >= 1 /\ EntryToday(today, equity) = p
  <2>1. ~ (qty < 1) /\ EntryToday(today, equity) = p
    BY <1>1 DEF EntryToday
  <2>2. qty \in Int \/ qty = 0
    <3>1. qty \in Int
      <4>1. RiskOf(equity) \in Int
        <5>1. equity \div 50 \in Int /\ RiskCap \in Int
          BY SwingConstants
        <5> QED  BY <5>1, LeastOfTwo DEF RiskOf
      <4> HIDE DEF open, atr
      <4>2. CASE atr <= 0
        BY <4>2 DEF Size
      <4>3. CASE ~ (atr <= 0)
        <5> DEFINE a == (2 * RiskOf(equity)) \div (300 * atr)
                   b == (9 * equity) \div (1000 * open)
        <5>1. ASSUME NEW x \in Int, NEW y \in Nat \ {0} PROVE x \div y \in Int
          OBVIOUS
        <5>2. /\ 2 * RiskOf(equity) \in Int /\ 300 * atr \in Nat \ {0}
              /\ 9 * equity \in Int /\ 1000 * open \in Nat \ {0}
          BY <1>4, <4>1, <4>3
        <5>3. a \in Int /\ b \in Int
          BY <5>1, <5>2
        <5>4. qty = Min({a, b})
          BY <4>3 DEF Size
        <5> HIDE DEF a, b, qty
        <5> QED  BY <5>3, <5>4, LeastOfTwo
      <4> QED  BY <4>2, <4>3
    <3> QED  BY <3>1
  <2> HIDE DEF qty
  <2> QED  BY <2>1, <2>2
<1>6. qty \in Nat \ {0} /\ risk \in Int /\ 150 * (atr * qty) <= risk
  <2> HIDE DEF open, atr
  <2> QED  BY <1>4, <1>5, SizeFitsRisk
<1> DEFINE dist == (3 * atr) \div 2
<1>7. dist \in Nat /\ 2 * dist <= 3 * atr
  <2> HIDE DEF atr
  <2> QED  BY <1>4
<1>8. 100 * (dist * qty) <= 150 * (atr * qty)
  <2> HIDE DEF dist, qty, atr
  <2>1. ASSUME NEW x \in Nat, NEW a \in Nat, NEW q \in Nat, 2 * x <= 3 * a
        PROVE  100 * (x * q) <= 150 * (a * q)
    <3>1. (3 * a - 2 * x) * q >= 0
      BY <2>1
    <3>2. (3 * a - 2 * x) * q = 3 * (a * q) - 2 * (x * q) /\ a * q \in Int /\ x * q \in Int
      OBVIOUS
    <3> QED  BY <3>1, <3>2
  <2> QED  BY <1>4, <1>6, <1>7, <2>1
<1> HIDE DEF dist, qty, atr, open, risk, signal, s
<1>9. open - stop = dist /\ stop \in Int /\ target \in Int /\ target >= stop
  <2>1. stop = open - dist
    BY DEF dist
  <2> HIDE DEF stop
  <2> QED  BY <1>4, <1>7, <2>1
<1>10. dist * qty \in Int /\ 100 * (dist * qty) <= risk
  <2>1. dist * qty \in Int /\ atr * qty \in Int
    BY <1>4, <1>6, <1>7
  <2> QED  BY <1>6, <1>8, <2>1
<1> HIDE DEF stop, target
<1>11. /\ p.stock = s /\ p.entry = open /\ p.qty = qty /\ p.held = 0 /\ p.stop = stop
       /\ p.target = target /\ p.risk = risk /\ p.signal = signal
  OBVIOUS
<1>12. p \in SwingPositions
  BY <1>3, <1>4, <1>6, <1>9 DEF SwingPositions
<1> HIDE DEF p
<1>13. 100 * ((p.entry - p.stop) * p.qty) <= p.risk
  BY <1>9, <1>10, <1>11
<1>14. PositionHolds(p)
  BY <1>3, <1>9, <1>11, <1>12, <1>13, SwingConstants DEF PositionHolds
<1> QED  BY <1>1, <1>2, <1>5, <1>11, <1>14 DEF signal, s

-----------------------------------------------------------------------------
(* should_exit: what it says and why. *)
LEMMA ExitCases ==
  ASSUME NEW pos, PositionHolds(pos), NEW today \in SwingDays
  PROVE  LET held == pos.held + 1
             bar == today.bars[pos.stock]
             done == ShouldExit(pos, bar, held, today.regime)
         IN  \/ done = Stay /\ held < MaxHoldDays
             \/ \E reason, fill : /\ done = Leave(reason, fill)
                                  /\ fill \in Int /\ fill >= pos.stop
                                  /\ reason = "target" => bar.low > pos.stop
<1> DEFINE held == pos.held + 1
           bar == today.bars[pos.stock]
           done == ShouldExit(pos, bar, held, today.regime)
<1>1. /\ pos.held \in Nat /\ pos.stop \in Int /\ pos.target \in Int /\ pos.target >= pos.stop
      /\ pos.stock \in DOMAIN SwingStocks
  BY DEF PositionHolds, SwingPositions
<1>2. bar.low \in Nat /\ bar.close \in Int /\ bar.low <= bar.close
  BY <1>1, BarsTyped
<1>3. held \in Nat /\ MaxHoldDays \in Nat
  BY <1>1, SwingConstants
<1> HIDE DEF bar, held
<1>4. CASE bar.low <= pos.stop
  <2>1. done = Leave("stop", pos.stop)
    BY <1>4 DEF ShouldExit
  <2>2. "stop" # "target"
    OBVIOUS
  <2> QED  BY <1>1, <2>1, <2>2 DEF bar, held
<1>5. CASE ~ (bar.low <= pos.stop)
  <2>1. bar.low > pos.stop /\ bar.close >= pos.stop
    BY <1>1, <1>2, <1>5
  <2>2. \/ done = Leave("target", pos.target)
        \/ done = Leave("regime_bear", bar.close)
        \/ done = Leave("below_average", bar.close)
        \/ done = Leave("time_stop", bar.close)
        \/ done = Stay /\ ~ (held >= MaxHoldDays)
    BY <1>5 DEF ShouldExit
  <2>3. held < MaxHoldDays \/ held >= MaxHoldDays
    BY <1>3
  <2> QED  BY <1>1, <1>2, <1>3, <2>1, <2>2, <2>3 DEF bar, held
<1> QED  BY <1>4, <1>5

(* What a closed trade books. *)
LEMMA CloseHolds ==
  ASSUME NEW pos, PositionHolds(pos), NEW today \in SwingDays, NEW reason, NEW fill \in Int,
         fill >= pos.stop, reason = "target" => today.bars[pos.stock].low > pos.stop
  PROVE  LET t == CloseTrade(pos, today.bars[pos.stock], Leave(reason, fill), pos.held + 1)
         IN  TradeHolds(t) /\ t.net \in Int
<1> DEFINE bar == today.bars[pos.stock]
           gross == 100 * (fill - pos.entry) * pos.qty
           charges == SwingCharges(pos.entry, fill, pos.qty)
           net == gross - charges
           held == pos.held + 1
           t == [stock |-> pos.stock, entryDay |-> pos.day, exitDay |-> swDay + 1, held |-> held,
                 reason |-> reason, risk |-> pos.risk, gross |-> gross, low |-> bar.low,
                 stop |-> pos.stop, net |-> net]
<1>1. /\ pos.entry \in Int /\ pos.stop \in Int /\ pos.qty \in Nat \ {0} /\ pos.risk \in Int
      /\ pos.held \in Nat /\ pos.held < MaxHoldDays
      /\ 100 * ((pos.entry - pos.stop) * pos.qty) <= pos.risk
  BY DEF PositionHolds, SwingPositions
<1>2. Leave(reason, fill).fill = fill /\ Leave(reason, fill).reason = reason
  BY DEF Leave
<1>3. CloseTrade(pos, bar, Leave(reason, fill), held) = t
  BY <1>2 DEF CloseTrade
<1>4. gross \in Int /\ -gross <= pos.risk
  <2>1. ASSUME NEW e \in Int, NEW f \in Int, NEW s \in Int, NEW q \in Nat, f >= s
        PROVE  /\ 100 * (f - e) * q \in Int
               /\ -(100 * (f - e) * q) <= 100 * ((e - s) * q)
    <3>1. (f - s) * q >= 0 /\ (f - s) * q \in Int
      BY <2>1
    <3>2. /\ 100 * (f - e) * q = 100 * (f * q) - 100 * (e * q)
          /\ (e - s) * q = e * q - s * q
          /\ (f - s) * q = f * q - s * q
          /\ f * q \in Int /\ e * q \in Int /\ s * q \in Int
      OBVIOUS
    <3> QED  BY <3>1, <3>2
  <2>2. gross \in Int /\ -gross <= 100 * ((pos.entry - pos.stop) * pos.qty)
    BY <1>1, <2>1
  <2>3. 100 * ((pos.entry - pos.stop) * pos.qty) \in Int
    BY <1>1
  <2> HIDE DEF gross
  <2> QED  BY <1>1, <2>2, <2>3
<1>5. charges \in Int
  <2>1. ASSUME NEW e \in Int, NEW f \in Int, NEW q \in Nat PROVE SwingCharges(e, f, q) \in Int
    <3>1. 1036 * (e + f) * q + 150 * e * q + 5000 \in Int
      OBVIOUS
    <3> QED  BY <3>1 DEF SwingCharges
  <2> QED  BY <1>1, <2>1
<1> HIDE DEF gross, charges, bar
<1>6. held <= MaxHoldDays
  BY <1>1, SwingConstants
<1> HIDE DEF held
<1>7. net \in Int
  BY <1>4, <1>5
<1> HIDE DEF net
<1>8. /\ t.gross = gross /\ t.risk = pos.risk /\ t.reason = reason /\ t.low = bar.low
      /\ t.stop = pos.stop /\ t.held = held /\ t.net = net
  OBVIOUS
<1> HIDE DEF t
<1>9. reason = "target" => bar.low > pos.stop
  BY DEF bar
<1>10. TradeHolds(t) /\ t.net \in Int
  BY <1>4, <1>6, <1>7, <1>8, <1>9 DEF TradeHolds
<1> QED  BY <1>3, <1>10 DEF bar, held

-----------------------------------------------------------------------------
(* A day of the loop: the position stays, or is closed into one more trade that
   holds; then a position held on is the one that was held, any other enters. *)
HeldOn(today) ==
  /\ swPosition # NoSwing
  /\ swTrades' = swTrades /\ swEquity' = swEquity
  /\ swPosition' = [swPosition EXCEPT !.held = swPosition.held + 1]
  /\ swPosition.held + 1 < MaxHoldDays

FreeToEnter(today) ==
  /\ swEquity' \in Int
  /\ \/ swTrades' = swTrades
     \/ \E t : swTrades' = Append(swTrades, t) /\ TradeHolds(t)
  /\ swPosition' = EntryToday(today, swEquity')

LEMMA DayIsOneOrOther ==
  ASSUME SwingInv, TradingDay
  PROVE  /\ swDay \in Nat /\ swDay # 0 /\ swPrev \in SwingDays /\ swDay' = swDay + 1
         /\ \E today \in SwingDays : swPrev' = today /\ (HeldOn(today) \/ FreeToEnter(today))
<1>1. swDay \in Nat /\ swDay # 0 /\ swDay' = swDay + 1
  BY DEF TradingDay, SwingInv
<1>2. swPrev \in SwingDays /\ swEquity \in Int
  BY <1>1 DEF SwingInv
<1>3. PICK today \in SwingDays :
        LET held == swPosition.held + 1
            bar == today.bars[swPosition.stock]
            done == IF swPosition = NoSwing THEN Stay
                    ELSE ShouldExit(swPosition, bar, held, today.regime)
            trade == CloseTrade(swPosition, bar, done, held)
            equity == IF done.exit THEN swEquity + trade.net ELSE swEquity
        IN  /\ swTrades' = IF done.exit THEN Append(swTrades, trade) ELSE swTrades
            /\ swEquity' = equity
            /\ swPosition' = IF swPosition = NoSwing \/ done.exit THEN EntryToday(today, equity)
                             ELSE [swPosition EXCEPT !.held = held]
            /\ swPrev' = today
  BY DEF TradingDay
<1> DEFINE held == swPosition.held + 1
           bar == today.bars[swPosition.stock]
           done == IF swPosition = NoSwing THEN Stay
                   ELSE ShouldExit(swPosition, bar, held, today.regime)
           trade == CloseTrade(swPosition, bar, done, held)
           equity == IF done.exit THEN swEquity + trade.net ELSE swEquity
<1>4. /\ swTrades' = IF done.exit THEN Append(swTrades, trade) ELSE swTrades
      /\ swEquity' = equity
      /\ swPosition' = IF swPosition = NoSwing \/ done.exit THEN EntryToday(today, equity)
                       ELSE [swPosition EXCEPT !.held = held]
      /\ swPrev' = today
  BY <1>3
<1>5. CASE swPosition = NoSwing
  <2>1. done.exit = FALSE
    BY <1>5 DEF Stay
  <2>2. equity = swEquity
    BY <2>1
  <2> HIDE DEF done, trade, equity
  <2>3. swTrades' = swTrades /\ swEquity' = swEquity /\ swPosition' = EntryToday(today, swEquity')
    BY <1>4, <1>5, <2>1, <2>2
  <2> QED  BY <1>1, <1>2, <1>4, <2>3 DEF FreeToEnter
<1>6. CASE swPosition # NoSwing
  <2>1. PositionHolds(swPosition)
    BY <1>6 DEF SwingInv
  <2>2. done = ShouldExit(swPosition, bar, held, today.regime)
    BY <1>6
  <2>3. \/ done = Stay /\ held < MaxHoldDays
        \/ \E reason, fill : /\ done = Leave(reason, fill)
                             /\ fill \in Int /\ fill >= swPosition.stop
                             /\ reason = "target" => bar.low > swPosition.stop
    BY <2>1, <2>2, ExitCases
  <2> HIDE DEF done
  <2>4. CASE done = Stay /\ held < MaxHoldDays
    <3>1. done.exit = FALSE
      BY <2>4 DEF Stay
    <3>2. equity = swEquity
      BY <3>1
    <3> HIDE DEF trade, equity
    <3>3. /\ swTrades' = swTrades /\ swEquity' = swEquity
          /\ swPosition' = [swPosition EXCEPT !.held = held]
      BY <1>4, <1>6, <3>1, <3>2
    <3> QED  BY <1>1, <1>2, <1>4, <1>6, <2>4, <3>3 DEF HeldOn
  <2>5. ASSUME NEW reason, NEW fill, done = Leave(reason, fill), fill \in Int,
               fill >= swPosition.stop, reason = "target" => bar.low > swPosition.stop
        PROVE  FreeToEnter(today)
    <3>1. done.exit = TRUE
      BY <2>5 DEF Leave
    <3>2. TradeHolds(trade) /\ trade.net \in Int
      BY <2>1, <2>5, CloseHolds
    <3> HIDE DEF trade
    <3>3. equity = swEquity + trade.net
      BY <3>1
    <3> HIDE DEF equity
    <3>4. equity \in Int
      BY <1>2, <3>2, <3>3
    <3>5. /\ swTrades' = Append(swTrades, trade) /\ swEquity' = equity
          /\ swPosition' = EntryToday(today, swEquity')
      BY <1>4, <3>1
    <3> QED  BY <3>2, <3>4, <3>5 DEF FreeToEnter
  <2> QED  BY <1>1, <1>2, <1>4, <2>3, <2>4, <2>5
<1> QED  BY <1>5, <1>6

LEMMA SwingInitially == SwInit => SwingInv
<1> SUFFICES ASSUME SwInit PROVE SwingInv
  OBVIOUS
<1>1. /\ swDay = 0 /\ swEquity = SwingCapital /\ swPosition = NoSwing /\ swTrades = <<>>
  BY DEF SwInit
<1>2. DOMAIN swTrades = 1 .. Len(swTrades) /\ Len(swTrades) \in Nat /\ 1 .. Len(swTrades) = {}
  BY <1>1
<1> QED  BY <1>1, <1>2, SwingConstants DEF SwingInv

LEMMA SwingKept == SwingInv /\ [SwNext]_swVars => SwingInv'
<1> SUFFICES ASSUME SwingInv, [SwNext]_swVars PROVE SwingInv'
  OBVIOUS
<1>1. CASE FirstSwingDay
  BY <1>1 DEF FirstSwingDay, SwingInv
<1>2. CASE TradingDay
  <2>1. PICK today \in SwingDays : swPrev' = today /\ (HeldOn(today) \/ FreeToEnter(today))
    BY <1>2, DayIsOneOrOther
  <2>2. swDay \in Nat /\ swDay' \in Nat /\ swDay' # 0 /\ swPrev \in SwingDays
    BY <1>2, DayIsOneOrOther
  <2>3. CASE HeldOn(today)
    <3>1. PositionHolds(swPosition)
      BY <2>3 DEF HeldOn, SwingInv
    <3> DEFINE p == swPosition
               h == p.held + 1
               q == [p EXCEPT !.held = h]
    <3>2. h \in Nat /\ h < MaxHoldDays /\ swPosition' = q
      BY <2>3, <3>1 DEF HeldOn, PositionHolds, SwingPositions
    <3>3. p \in SwingPositions
      BY <3>1 DEF PositionHolds
    <3>4. /\ q.stock = p.stock /\ q.entry = p.entry /\ q.qty = p.qty /\ q.stop = p.stop
          /\ q.target = p.target /\ q.risk = p.risk /\ q.held = h /\ q \in SwingPositions
      <4> HIDE DEF p, h
      <4> QED  BY <3>2, <3>3 DEF SwingPositions
    <3>5. PositionHolds(p)
      BY <3>1
    <3> HIDE DEF p, h, q
    <3>6. PositionHolds(q)
      BY <3>2, <3>4, <3>5 DEF PositionHolds
    <3>7. PositionHolds(swPosition')
      BY <3>2, <3>6
    <3>8. swTrades' = swTrades /\ swEquity' = swEquity
      BY <2>3 DEF HeldOn
    <3> QED  BY <2>1, <2>2, <3>7, <3>8 DEF SwingInv, PositionHolds, TradeHolds
  <2>4. CASE FreeToEnter(today)
    <3>1. swEquity' \in Int
      BY <2>4 DEF FreeToEnter
    <3>2. swPosition' # NoSwing => PositionHolds(swPosition')
      BY <2>2, <2>4, EntryHolds DEF FreeToEnter
    <3>3. /\ DOMAIN swTrades' = 1 .. Len(swTrades') /\ Len(swTrades') \in Nat
          /\ \A k \in 1 .. Len(swTrades') : TradeHolds(swTrades'[k])
      <4>1. /\ DOMAIN swTrades = 1 .. Len(swTrades) /\ Len(swTrades) \in Nat
            /\ \A k \in 1 .. Len(swTrades) : TradeHolds(swTrades[k])
        BY DEF SwingInv
      <4>2. CASE swTrades' = swTrades
        BY <4>1, <4>2
      <4>3. ASSUME NEW t, swTrades' = Append(swTrades, t), TradeHolds(t)
            PROVE  /\ DOMAIN swTrades' = 1 .. Len(swTrades') /\ Len(swTrades') \in Nat
                   /\ \A k \in 1 .. Len(swTrades') : TradeHolds(swTrades'[k])
        <5> DEFINE new == Append(swTrades, t)
                   n == Len(swTrades)
        <5>1. /\ Len(new) = n + 1 /\ DOMAIN new = 1 .. n + 1 /\ new[n + 1] = t
              /\ \A k \in 1 .. n : new[k] = swTrades[k]
          BY <4>1
        <5> HIDE DEF new, n
        <5>2. \A k \in 1 .. n + 1 : k \in 1 .. n \/ k = n + 1
          BY <4>1 DEF n
        <5>3. \A k \in 1 .. n + 1 : TradeHolds(new[k])
          BY <4>1, <4>3, <5>1, <5>2 DEF n
        <5>4. swTrades' = new
          BY <4>3 DEF new
        <5>5. n + 1 \in Nat
          BY <4>1 DEF n
        <5> QED  BY <5>1, <5>3, <5>4, <5>5
      <4> QED  BY <2>4, <4>2, <4>3 DEF FreeToEnter
    <3> QED  BY <2>1, <2>2, <3>1, <3>2, <3>3 DEF SwingInv, PositionHolds, TradeHolds
  <2> QED  BY <2>1, <2>3, <2>4
<1>3. CASE UNCHANGED swVars
  BY <1>3 DEF swVars, SwingInv, PositionHolds, TradeHolds
<1> QED  BY <1>1, <1>2, <1>3 DEF SwNext

(* What is bought is the best signal of the day before. *)
LEMMA BestIsBought ==
  ASSUME SwingInv, [SwNext]_swVars
  PROVE  swPosition' # NoSwing /\ (swPosition = NoSwing \/ swPosition'.day # swPosition.day) =>
           /\ swPrev.regime = "TRENDING_BULL"
           /\ swPosition'.signal >= SwingScoreGate
           /\ \A s \in DOMAIN SwingStocks :
                swPrev.bars[s].entry /\ swPrev.bars[s].liquid =>
                  swPrev.bars[s].score <= swPosition'.signal
<1> SUFFICES ASSUME swPosition' # NoSwing,
                    swPosition = NoSwing \/ swPosition'.day # swPosition.day
             PROVE  /\ swPrev.regime = "TRENDING_BULL"
                    /\ swPosition'.signal >= SwingScoreGate
                    /\ \A s \in DOMAIN SwingStocks :
                         swPrev.bars[s].entry /\ swPrev.bars[s].liquid =>
                           swPrev.bars[s].score <= swPosition'.signal
  OBVIOUS
<1>1. CASE FirstSwingDay
  <2>1. swPosition' = swPosition
    BY <1>1 DEF FirstSwingDay
  <2>2. swPosition'.day = swPosition.day
    BY <2>1
  <2> QED  BY <2>1, <2>2
<1>2. CASE UNCHANGED swVars
  <2>1. swPosition' = swPosition
    BY <1>2 DEF swVars
  <2>2. swPosition'.day = swPosition.day
    BY <2>1
  <2> QED  BY <2>1, <2>2
<1>3. CASE TradingDay
  <2>1. PICK today \in SwingDays : HeldOn(today) \/ FreeToEnter(today)
    BY <1>3, DayIsOneOrOther
  <2>2. swDay \in Nat /\ swPrev \in SwingDays
    BY <1>3, DayIsOneOrOther
  <2>3. CASE HeldOn(today)
    <3> DEFINE p == swPosition
               h == p.held + 1
    <3>1. p # NoSwing /\ p \in SwingPositions /\ swPosition' = [p EXCEPT !.held = h]
      BY <2>3 DEF HeldOn, SwingInv, PositionHolds
    <3> HIDE DEF h
    <3>2. [p EXCEPT !.held = h].day = p.day
      <4> HIDE DEF p
      <4> QED  BY <3>1 DEF SwingPositions
    <3> QED  BY <3>1, <3>2
  <2>4. CASE FreeToEnter(today)
    <3> DEFINE p == EntryToday(today, swEquity')
    <3>1. swPosition' = p /\ p # NoSwing /\ swEquity' \in Int
      BY <2>4 DEF FreeToEnter
    <3>2. /\ swPrev.regime = "TRENDING_BULL" /\ Candidates(swPrev) # {}
          /\ p.signal = swPrev.bars[Select(swPrev)].score
      BY <2>2, <3>1, EntryHolds
    <3> HIDE DEF p
    <3>3. /\ Select(swPrev) \in Candidates(swPrev)
          /\ \A r \in Candidates(swPrev) : swPrev.bars[r].score <= p.signal
      BY <2>2, <3>2, BestIsSelected
    <3>4. p.signal >= SwingScoreGate
      BY <3>2, <3>3 DEF Candidates
    <3>5. p.signal \in Nat
      BY <2>2, <3>2, <3>3, BarsTyped DEF Candidates
    <3>6. ASSUME NEW s \in DOMAIN SwingStocks, swPrev.bars[s].entry, swPrev.bars[s].liquid
          PROVE  swPrev.bars[s].score <= p.signal
      <4>1. swPrev.bars[s].score \in Nat
        BY <2>2, BarsTyped
      <4>2. CASE swPrev.bars[s].score >= SwingScoreGate
        <5>1. s \in Candidates(swPrev)
          BY <3>6, <4>2 DEF Candidates
        <5> QED  BY <3>3, <5>1
      <4>3. CASE ~ (swPrev.bars[s].score >= SwingScoreGate)
        <5> DEFINE c == swPrev.bars[s].score
        <5>1. c \in Nat /\ ~ (c >= SwingScoreGate)
          BY <4>1, <4>3
        <5> HIDE DEF c
        <5>2. c <= p.signal
          BY <3>4, <3>5, <5>1, SwingConstants
        <5> QED  BY <5>2 DEF c
      <4> QED  BY <4>2, <4>3
    <3> QED  BY <3>1, <3>2, <3>4, <3>6
  <2> QED  BY <2>1, <2>3, <2>4
<1> QED  BY <1>1, <1>2, <1>3 DEF SwNext

LEMMA SwingMeans == SwingInv => LossIsCapped /\ DoubtIsALoss /\ PositionsEnd
<1> SUFFICES ASSUME SwingInv PROVE LossIsCapped /\ DoubtIsALoss /\ PositionsEnd
  OBVIOUS
<1>1. DOMAIN swTrades = 1 .. Len(swTrades) /\ \A k \in 1 .. Len(swTrades) : TradeHolds(swTrades[k])
  BY DEF SwingInv
<1>2. swPosition # NoSwing => swPosition.held < MaxHoldDays
  BY DEF SwingInv, PositionHolds
<1> QED  BY <1>1, <1>2 DEF LossIsCapped, DoubtIsALoss, PositionsEnd, TradeHolds

(* The swing backtest is honest, for any stocks, days, capital and gates
   (SwingLabIsHonest). *)
THEOREM SwingIsHonest == SwSpec => SwingLabIsHonest
<1>1. SwInit => SwingInv
  BY SwingInitially
<1>2. SwingInv /\ [SwNext]_swVars => SwingInv'
  BY SwingKept
<1>3. SwingInv => LossIsCapped /\ DoubtIsALoss /\ PositionsEnd
  BY SwingMeans
<1>4. SwingInv /\ [SwNext]_swVars =>
        [swPosition' # NoSwing /\ (swPosition = NoSwing \/ swPosition'.day # swPosition.day) =>
           /\ swPrev.regime = "TRENDING_BULL"
           /\ swPosition'.signal >= SwingScoreGate
           /\ \A s \in DOMAIN SwingStocks :
                swPrev.bars[s].entry /\ swPrev.bars[s].liquid =>
                  swPrev.bars[s].score <= swPosition'.signal]_swVars
  BY BestIsBought
<1> QED  BY <1>1, <1>2, <1>3, <1>4, PTL DEF SwSpec, SwingLabIsHonest, BestSignalIsTaken

-----------------------------------------------------------------------------
ClShapes == [open : Nat, high : Nat, low : Nat, close : Nat]
Days == Seq(ClShapes)

LEMMA LabConstants ==
  /\ ClHoldDays \in Nat
  /\ \A b \in ClBars : b \in ClShapes
  /\ \A s \in ClSeeds : Len(s) = 7 /\ \A i \in 1 .. 7 : s[i] \in Nat
<1>1. ClHoldDays \in Nat
  <2>1. {MaxClDays, BelowSmaPct, TargetPct, SlPct, ClHoldDays} \subseteq Nat
    BY CryptoLabAssumption
  <2> QED  BY <2>1
<1>2. ASSUME NEW b \in ClBars PROVE b \in ClShapes
  <2>1. b \in [open : Nat, high : Nat, low : Nat \ {0}, close : Nat]
    BY CryptoLabAssumption
  <2> QED  BY <2>1 DEF ClShapes
<1>3. ASSUME NEW s \in ClSeeds PROVE Len(s) = 7 /\ \A i \in 1 .. 7 : s[i] \in Nat
  <2> DEFINE P == Nat \ {0}
  <2>1. ClSeeds \subseteq Seq(P) /\ Len(s) = 7
    BY CryptoLabAssumption
  <2>2. \A x \in P : x \in Nat
    OBVIOUS
  <2> HIDE DEF P
  <2>3. s \in Seq(P)
    BY <2>1
  <2>4. \A i \in 1 .. Len(s) : s[i] \in P
    BY <2>3
  <2> QED  BY <2>1, <2>2, <2>4
<1> QED  BY <1>1, <1>2, <1>3

(* The least of the days that end a trade. *)
LEMMA FirstEnding ==
  ASSUME NEW bars, NEW i \in Nat, Len(bars) \in Nat, EndingBars(bars, i) # {}
  PROVE  /\ Min(EndingBars(bars, i)) \in EndingBars(bars, i)
         /\ \A j \in EndingBars(bars, i) : Min(EndingBars(bars, i)) <= j
<1> DEFINE S == EndingBars(bars, i)
<1>1. S \subseteq Nat /\ S # {}
  BY LabConstants DEF EndingBars
<1> HIDE DEF S
<1>2. \E x \in S : \A y \in S : x <= y
  BY <1>1, LeastOne
<1>3. Min(S) \in S /\ \A y \in S : Min(S) <= y
  BY <1>2 DEF Min
<1> QED  BY <1>3 DEF S

(* A trade of day i lasts until a day of the data, of the holding days. *)
LEMMA TradeLasts ==
  ASSUME NEW bars, NEW N \in Nat, Len(bars) = N, NEW i \in 1 .. N
  PROVE  LET t == LabTrade(bars, i)
         IN  t.day = i /\ t.out \in i .. N /\ t.out <= i + ClHoldDays
<1> DEFINE t == LabTrade(bars, i)
<1>1. ClHoldDays \in Nat
  BY LabConstants
<1>2. \A o, at : Ended(bars, i, o, at).day = i /\ Ended(bars, i, o, at).out = at
  BY DEF Ended
<1>3. CASE EntryBarExit(bars[i]) # "none"
  <2>1. t.day = i /\ t.out = i
    BY <1>2, <1>3 DEF LabTrade
  <2> QED  BY <1>1, <2>1
<1>4. CASE EntryBarExit(bars[i]) = "none" /\ EndingBars(bars, i) = {}
  <2>1. t.day = i /\ t.out = LastHeld(bars, i)
    BY <1>2, <1>4 DEF LabTrade
  <2>2. LastHeld(bars, i) \in i .. N /\ LastHeld(bars, i) <= i + ClHoldDays
    BY <1>1 DEF LastHeld
  <2> QED  BY <2>1, <2>2
<1>5. CASE EntryBarExit(bars[i]) = "none" /\ EndingBars(bars, i) # {}
  <2> DEFINE j == Min(EndingBars(bars, i))
  <2>1. t.day = i /\ t.out = j
    BY <1>2, <1>5 DEF LabTrade
  <2>2. j \in EndingBars(bars, i)
    <3>1. i \in Nat /\ Len(bars) \in Nat
      OBVIOUS
    <3> QED  BY <1>5, <3>1, FirstEnding
  <2> HIDE DEF j
  <2>3. j \in i .. N /\ j <= i + ClHoldDays
    BY <1>1, <2>2 DEF EndingBars
  <2> QED  BY <2>1, <2>3
<1> QED  BY <1>3, <1>4, <1>5

(* The run of the backtest, day by day. *)
TradesOf(bars) == {LabTrade(bars, i) : i \in 1 .. Len(bars)}
Runs(bars) == [free : Nat, trades : Seq(TradesOf(bars))]

LEMMA TurnTyped ==
  ASSUME NEW bars, Len(bars) \in Nat, NEW i \in 1 .. Len(bars), NEW run \in Runs(bars)
  PROVE  LabTurn(run, bars, i) \in Runs(bars)
<1> DEFINE t == LabTrade(bars, i)
<1>1. t \in TradesOf(bars)
  BY DEF TradesOf
<1>2. t.out \in Nat
  <2>1. t.out \in i .. Len(bars)
    BY TradeLasts
  <2> QED  BY <2>1
<1> HIDE DEF t
<1> DEFINE V == TradesOf(bars)
<1>3. run \in [free : Nat, trades : Seq(V)] /\ t \in V
  BY <1>1 DEF Runs
<1> HIDE DEF V
<1>4. [free |-> t.out + 1, trades |-> Append(run.trades, t)] \in [free : Nat, trades : Seq(V)]
  <2>1. Append(run.trades, t) \in Seq(V)
    BY <1>3
  <2> QED  BY <1>2, <2>1
<1> QED  BY <1>3, <1>4 DEF LabTurn, Runs, V, t

LEMMA LabRunsRun ==
  ASSUME NEW bars, Len(bars) \in Nat
  PROVE  /\ LabRuns(bars)[0] = LabStart
         /\ \A i \in 1 .. Len(bars) : LabRuns(bars)[i] = LabTurn(LabRuns(bars)[i - 1], bars, i)
         /\ \A i \in 0 .. Len(bars) : LabRuns(bars)[i] \in Runs(bars)
<1> DEFINE N == Len(bars)
           V == Runs(bars)
           turn(f, i) == IF i = 0 THEN LabStart ELSE LabTurn(f[i - 1], bars, i)
           run == CHOOSE f : f = [i \in 0 .. N |-> turn(f, i)]
           next == [i \in 1 .. N |-> [v \in V |-> LabTurn(v, bars, i)]]
<1>1. LabRuns(bars) = run
  BY DEF LabRuns
<1>2. \A i \in 1 .. N : \A v \in V : LabTurn(v, bars, i) \in V
  BY TurnTyped
<1>3. LabStart \in V
  <2> DEFINE T == TradesOf(bars)
  <2> HIDE DEF T
  <2>1. LabStart \in [free : Nat, trades : Seq(T)]
    BY DEF LabStart
  <2> QED  BY <2>1 DEF T, Runs
<1>4. N \in Nat
  OBVIOUS
<1> HIDE DEF V, N
<1>5. next \in [1 .. N -> [V -> V]]
  BY <1>2
<1>6. \A i \in 1 .. N : \A v \in V : next[i][v] = LabTurn(v, bars, i)
  OBVIOUS
<1> HIDE DEF next
<1>7. PICK f \in [0 .. N -> V] : f[0] = LabStart /\ \A i \in 1 .. N : f[i] = next[i][f[i - 1]]
  <2>1. HasRun(V, N, LabStart, next)
    BY <1>3, <1>4, <1>5, LoopRuns
  <2> QED  BY <2>1 DEF HasRun
<1>8. \A i \in 1 .. N : i - 1 \in 0 .. N /\ f[i] = LabTurn(f[i - 1], bars, i)
  BY <1>4, <1>6, <1>7
<1>9. ASSUME NEW i \in 0 .. N PROVE f[i] = turn(f, i)
  <2>1. CASE i = 0
    BY <1>7, <2>1
  <2>2. CASE i # 0
    <3>1. i \in 1 .. N
      BY <1>4, <2>2
    <3> QED  BY <1>8, <2>2, <3>1
  <2> QED  BY <2>1, <2>2
<1>10. f = [i \in 0 .. N |-> turn(f, i)]
  <2> HIDE DEF turn
  <2> QED  BY <1>7, <1>9
<1>11. run = [i \in 0 .. N |-> turn(run, i)]
  <2> HIDE DEF turn
  <2> QED  BY <1>10
<1> HIDE DEF run
<1>12. run[0] = LabStart /\ \A i \in 1 .. N : run[i] = LabTurn(run[i - 1], bars, i)
  BY <1>4, <1>11
<1> DEFINE T == {i \in 0 .. N : run[i] \in V}
<1>13. 0 \in T
  BY <1>3, <1>4, <1>12
<1>14. ASSUME NEW i \in 1 .. N, i - 1 \in T PROVE i \in T
  <2>1. i \in 0 .. N /\ run[i - 1] \in V
    BY <1>4, <1>14
  <2> QED  BY <1>2, <1>12, <2>1
<1>15. 0 .. N \subseteq T
  <2> HIDE DEF T
  <2> QED  BY <1>4, <1>13, <1>14, UpTo
<1>16. \A i \in 0 .. N : run[i] \in V
  BY <1>15
<1> QED  BY <1>1, <1>12, <1>16 DEF V, N

-----------------------------------------------------------------------------
(* One position at a time, up to day i. *)
OneAtATime(run, bars, i) ==
  /\ \A j, k \in DOMAIN run.trades : j < k => run.trades[j].out < run.trades[k].day
  /\ \A k \in DOMAIN run.trades : run.trades[k].day <= i /\ run.trades[k].out < run.free
  /\ \A d \in 8 .. i : Signalled(bars, d) =>
       \E k \in DOMAIN run.trades : run.trades[k].day <= d /\ d <= run.trades[k].out
  /\ run.free = 8 \/ \E k \in DOMAIN run.trades : run.trades[k].out = run.free - 1

LEMMA TurnKeepsOne ==
  ASSUME NEW bars, Len(bars) \in Nat, NEW i \in 1 .. Len(bars), NEW run \in Runs(bars),
         OneAtATime(run, bars, i - 1)
  PROVE  OneAtATime(LabTurn(run, bars, i), bars, i)
<1> DEFINE q == LabTurn(run, bars, i)
           n == Len(run.trades)
           ts == run.trades
           t == LabTrade(bars, i)
<1>1. /\ n \in Nat /\ DOMAIN ts = 1 .. n /\ run.free \in Nat
      /\ \A k \in 1 .. n : ts[k].day \in Nat /\ ts[k].out \in Nat
  <2> DEFINE T == TradesOf(bars)
  <2>1. \A x \in T : x.day \in Nat /\ x.out \in Nat
    <3> SUFFICES ASSUME NEW x \in T PROVE x.day \in Nat /\ x.out \in Nat
      OBVIOUS
    <3>1. PICK d \in 1 .. Len(bars) : x = LabTrade(bars, d)
      BY DEF TradesOf
    <3>2. x.day = d /\ x.out \in d .. Len(bars)
      BY <3>1, TradeLasts
    <3> QED  BY <3>2
  <2>2. run \in [free : Nat, trades : Seq(T)]
    BY DEF Runs
  <2> HIDE DEF T
  <2>3. ts \in Seq(T) /\ run.free \in Nat
    BY <2>2
  <2> QED  BY <2>1, <2>3
<1>2. /\ \A j, k \in 1 .. n : j < k => ts[j].out < ts[k].day
      /\ \A k \in 1 .. n : ts[k].day <= i - 1 /\ ts[k].out < run.free
      /\ \A d \in 8 .. i - 1 : Signalled(bars, d) =>
           \E k \in 1 .. n : ts[k].day <= d /\ d <= ts[k].out
      /\ run.free = 8 \/ \E k \in 1 .. n : ts[k].out = run.free - 1
  BY <1>1 DEF OneAtATime
<1>3. CASE i < run.free \/ ~ Signalled(bars, i)
  <2>1. q = run
    BY <1>3 DEF LabTurn
  <2>2. \A d \in 8 .. i : d \in 8 .. i - 1 \/ d = i
    OBVIOUS
  <2>3. i \in 8 .. i /\ Signalled(bars, i) => \E k \in 1 .. n : ts[k].day <= i /\ i <= ts[k].out
    <3> SUFFICES ASSUME i >= 8, i < run.free
                 PROVE  \E k \in 1 .. n : ts[k].day <= i /\ i <= ts[k].out
      BY <1>3
    <3>1. PICK k \in 1 .. n : ts[k].out = run.free - 1
      BY <1>1, <1>2
    <3>2. ts[k].day <= i /\ i <= ts[k].out
      BY <1>1, <1>2, <3>1
    <3> QED  BY <3>2
  <2>4. \A d \in 8 .. i : Signalled(bars, d) => \E k \in 1 .. n : ts[k].day <= d /\ d <= ts[k].out
    BY <1>2, <2>2, <2>3
  <2>5. \A k \in 1 .. n : ts[k].day <= i /\ ts[k].out < run.free
    <3> SUFFICES ASSUME NEW k \in 1 .. n PROVE ts[k].day <= i /\ ts[k].out < run.free
      OBVIOUS
    <3>1. ts[k].day \in Nat /\ ts[k].day <= i - 1 /\ ts[k].out < run.free
      BY <1>1, <1>2
    <3> QED  BY <3>1
  <2>6. OneAtATime(run, bars, i)
    BY Zenon, <1>1, <1>2, <2>4, <2>5 DEF OneAtATime
  <2> QED  BY <2>1, <2>6
<1>4. CASE ~ (i < run.free \/ ~ Signalled(bars, i))
  <2>1. q.free = t.out + 1 /\ q.trades = Append(ts, t)
    BY <1>4 DEF LabTurn
  <2>2. t.day = i /\ t.out \in i .. Len(bars)
    BY TradeLasts
  <2> DEFINE qs == q.trades
  <2>3. /\ DOMAIN qs = 1 .. n + 1 /\ qs[n + 1] = t
        /\ \A k \in 1 .. n : qs[k] = ts[k]
    <3> DEFINE T == TradesOf(bars)
    <3>1. run \in [free : Nat, trades : Seq(T)]
      BY DEF Runs
    <3> HIDE DEF T
    <3>2. ts \in Seq(T)
      BY <3>1
    <3> HIDE DEF q, t
    <3> QED  BY <2>1, <3>2
  <2> HIDE DEF q, t, qs, ts
  <2>4. \A k \in 1 .. n + 1 : k \in 1 .. n \/ k = n + 1
    BY <1>1
  <2>5. q.free \in Nat /\ i < q.free /\ t.out < q.free /\ run.free <= i /\ t.out = q.free - 1
    BY <1>1, <1>4, <2>1, <2>2
  <2>6. \A j, k \in 1 .. n + 1 : j < k => qs[j].out < qs[k].day
    <3> SUFFICES ASSUME NEW j \in 1 .. n + 1, NEW k \in 1 .. n + 1, j < k
                 PROVE  qs[j].out < qs[k].day
      OBVIOUS
    <3>1. j \in 1 .. n /\ qs[j] = ts[j]
      BY <1>1, <2>3
    <3>2. CASE k \in 1 .. n
      BY <1>2, <2>3, <3>1, <3>2
    <3>3. CASE k = n + 1
      <4>1. ts[j].out < run.free /\ ts[j].out \in Nat /\ qs[k].day = i
        BY <1>1, <1>2, <2>2, <2>3, <3>1, <3>3
      <4> QED  BY <1>1, <2>5, <3>1, <4>1
    <3> QED  BY <2>4, <3>2, <3>3
  <2>7. \A k \in 1 .. n + 1 : qs[k].day <= i /\ qs[k].out < q.free
    <3> SUFFICES ASSUME NEW k \in 1 .. n + 1 PROVE qs[k].day <= i /\ qs[k].out < q.free
      OBVIOUS
    <3>1. CASE k \in 1 .. n
      <4>1. ts[k].day <= i - 1 /\ ts[k].out < run.free /\ ts[k].day \in Nat /\ ts[k].out \in Nat
        BY <1>1, <1>2, <3>1
      <4> QED  BY <1>1, <2>3, <2>5, <3>1, <4>1
    <3>2. CASE k = n + 1
      BY <2>2, <2>3, <2>5, <3>2
    <3> QED  BY <2>4, <3>1, <3>2
  <2>8. n + 1 \in 1 .. n + 1 /\ \A k \in 1 .. n : k \in 1 .. n + 1
    BY <1>1
  <2>9. ASSUME NEW d \in 8 .. i, Signalled(bars, d)
        PROVE  \E k \in 1 .. n + 1 : qs[k].day <= d /\ d <= qs[k].out
    <3>1. CASE d = i
      <4>1. qs[n + 1].day <= d /\ d <= qs[n + 1].out
        BY <2>2, <2>3, <3>1
      <4> QED  BY <2>8, <4>1
    <3>2. CASE d # i
      <4>1. d \in 8 .. i - 1
        BY <3>2
      <4>2. PICK k \in 1 .. n : ts[k].day <= d /\ d <= ts[k].out
        BY <1>2, <2>9, <4>1
      <4> QED  BY <2>3, <2>8, <4>2
    <3> QED  BY <3>1, <3>2
  <2>10. \E k \in 1 .. n + 1 : qs[k].out = q.free - 1
    BY <2>3, <2>5, <2>8
  <2>11. OneAtATime(q, bars, i)
    BY <2>3, <2>6, <2>7, <2>9, <2>10 DEF OneAtATime, qs
  <2> QED  BY <2>11 DEF q
<1> QED  BY <1>3, <1>4

LEMMA NeverTwo ==
  ASSUME NEW bars, Len(bars) \in Nat
  PROVE  \A i \in 0 .. Len(bars) : OneAtATime(LabRuns(bars)[i], bars, i)
<1> DEFINE N == Len(bars)
           run == LabRuns(bars)
           T == {i \in 0 .. N : OneAtATime(run[i], bars, i)}
<1>1. /\ run[0] = LabStart
      /\ \A i \in 1 .. N : run[i] = LabTurn(run[i - 1], bars, i)
      /\ \A i \in 0 .. N : run[i] \in Runs(bars)
  BY LabRunsRun
<1> HIDE DEF run
<1>2. N \in Nat
  OBVIOUS
<1>3. 0 \in T
  <2>1. OneAtATime(LabStart, bars, 0)
    BY DEF OneAtATime, LabStart
  <2> QED  BY <1>1, <1>2, <2>1
<1>4. ASSUME NEW i \in 1 .. N, i - 1 \in T PROVE i \in T
  <2>1. i \in 0 .. N /\ i - 1 \in 0 .. N /\ OneAtATime(run[i - 1], bars, i - 1)
    BY <1>2, <1>4
  <2>2. run[i - 1] \in Runs(bars) /\ run[i] = LabTurn(run[i - 1], bars, i)
    BY <1>1, <2>1
  <2>3. OneAtATime(run[i], bars, i)
    BY <2>1, <2>2, TurnKeepsOne
  <2> QED  BY <2>1, <2>3
<1>5. 0 .. N \subseteq T
  <2> HIDE DEF T
  <2> QED  BY <1>2, <1>3, <1>4, UpTo
<1> QED  BY <1>5 DEF run

-----------------------------------------------------------------------------
(* The trade of a day, told again with one day more: the same, unless it was only
   waiting for the days to come. *)
Waits(t, n) == t.outcome = "time_exit" /\ t.out = n /\ t.out # t.day + ClHoldDays
Retold(t, u, n) ==
  \/ u = t
  \/ Waits(t, n) /\ u.day = t.day /\ u.out = n + 1

LongerBy(bars, more, n) ==
  /\ Len(bars) = n /\ Len(more) = n + 1
  /\ \A i \in 1 .. n : more[i] = bars[i]

LEMMA SameSignals ==
  ASSUME NEW n \in Nat, NEW bars, NEW more, LongerBy(bars, more, n), NEW i \in 1 .. n
  PROVE  Signalled(more, i) <=> Signalled(bars, i)
<1>1. more[i] = bars[i] /\ \A k \in 1 .. i - 1 : more[k] = bars[k]
  BY DEF LongerBy
<1>2. PriorCloses(more, i) = PriorCloses(bars, i)
  BY <1>1 DEF PriorCloses
<1> QED  BY <1>1, <1>2 DEF Signalled

LEMMA SameEnd ==
  ASSUME NEW n \in Nat, NEW bars, NEW more, LongerBy(bars, more, n),
         NEW i \in 1 .. n, NEW j \in 1 .. n, NEW outcome
  PROVE  Ended(more, i, outcome, j) = Ended(bars, i, outcome, j)
<1>1. more[i] = bars[i] /\ more[j] = bars[j]
  BY DEF LongerBy
<1> QED  BY <1>1 DEF Ended

LEMMA SameEndings ==
  ASSUME NEW n \in Nat, NEW bars, NEW more, LongerBy(bars, more, n), NEW i \in 1 .. n
  PROVE  /\ \A j \in 1 .. n : j \in EndingBars(more, i) <=> j \in EndingBars(bars, i)
         /\ EndingBars(bars, i) \subseteq i + 1 .. n
         /\ EndingBars(more, i) \subseteq i + 1 .. n + 1
         /\ EndingBars(more, i) \subseteq i + 1 .. i + ClHoldDays
<1>1. ClHoldDays \in Nat
  BY LabConstants
<1>2. more[i] = bars[i] /\ \A j \in 1 .. n : more[j] = bars[j]
  BY DEF LongerBy
<1>3. Len(bars) = n /\ Len(more) = n + 1
  BY DEF LongerBy
<1>4. ASSUME NEW j \in 1 .. n
      PROVE  j \in EndingBars(more, i) <=> j \in EndingBars(bars, i)
  <2>1. j <= Len(bars) /\ j <= Len(more) /\ more[j] = bars[j]
    BY <1>2, <1>3
  <2> QED  BY <1>2, <2>1 DEF EndingBars
<1>5. \A j \in EndingBars(bars, i) : j \in i + 1 .. i + ClHoldDays /\ j <= n
  BY <1>3 DEF EndingBars
<1>6. \A j \in EndingBars(more, i) : j \in i + 1 .. i + ClHoldDays /\ j <= n + 1
  BY <1>3 DEF EndingBars
<1> QED  BY <1>1, <1>4, <1>5, <1>6

LEMMA TradeRetold ==
  ASSUME NEW n \in Nat, NEW bars, NEW more, LongerBy(bars, more, n), NEW i \in 1 .. n
  PROVE  Retold(LabTrade(bars, i), LabTrade(more, i), n)
<1> DEFINE E == EndingBars(bars, i)
           F == EndingBars(more, i)
           t == LabTrade(bars, i)
           u == LabTrade(more, i)
<1>1. ClHoldDays \in Nat /\ i \in Nat /\ i <= n
  BY LabConstants
<1>2. more[i] = bars[i] /\ Len(bars) = n /\ Len(more) = n + 1
  BY DEF LongerBy
<1>3. /\ \A j \in 1 .. n : j \in F <=> j \in E
      /\ E \subseteq i + 1 .. n /\ F \subseteq i + 1 .. n + 1
      /\ F \subseteq i + 1 .. i + ClHoldDays
  BY SameEndings
<1>4. \A o, at : /\ Ended(bars, i, o, at).day = i /\ Ended(bars, i, o, at).out = at
                 /\ Ended(bars, i, o, at).outcome = o
                 /\ Ended(more, i, o, at).day = i /\ Ended(more, i, o, at).out = at
  BY DEF Ended
<1>5. CASE EntryBarExit(bars[i]) # "none"
  <2>1. t = Ended(bars, i, EntryBarExit(bars[i]), i)
    BY <1>5 DEF LabTrade
  <2>2. u = Ended(more, i, EntryBarExit(bars[i]), i)
    BY <1>2, <1>5 DEF LabTrade
  <2>3. u = t
    BY <2>1, <2>2, SameEnd
  <2> QED  BY <2>3 DEF Retold
<1>6. CASE EntryBarExit(bars[i]) = "none" /\ E # {}
  <2> DEFINE j == Min(E)
             k == Min(F)
  <2>1. j \in E /\ \A x \in E : j <= x
    BY <1>1, <1>2, <1>6, FirstEnding
  <2>2. j \in 1 .. n /\ j \in F
    <3> HIDE DEF j, E, F
    <3>1. j \in 1 .. n
      BY <1>1, <1>3, <2>1
    <3> QED  BY <1>3, <2>1, <3>1
  <2>3. k \in F /\ \A x \in F : k <= x
    <3>1. F # {} /\ Len(more) \in Nat
      BY <1>2, <2>2
    <3> QED  BY <1>1, <3>1, FirstEnding
  <2>4. k = j
    <3> HIDE DEF j, k, E, F
    <3>1. k <= j /\ k \in 1 .. n
      BY <1>1, <1>3, <2>2, <2>3
    <3>2. k \in E
      BY <1>3, <2>3, <3>1
    <3>3. j <= k
      BY <2>1, <3>2
    <3> QED  BY <2>2, <3>1, <3>3
  <2> DEFINE o == IF HitsStop(bars[j], bars[i].open) THEN "stop" ELSE "target"
  <2>5. t = Ended(bars, i, o, j)
    BY <1>6 DEF LabTrade
  <2>6. more[j] = bars[j]
    BY <2>2 DEF LongerBy
  <2>7. u = Ended(more, i, o, j)
    <3>1. F # {}
      BY <2>2
    <3>2. u = Ended(more, i, IF HitsStop(more[k], more[i].open) THEN "stop" ELSE "target", k)
      BY <1>2, <1>6, <3>1 DEF LabTrade
    <3> QED  BY <1>2, <2>4, <2>6, <3>2
  <2>8. u = t
    <3> HIDE DEF t, u, j, o
    <3> QED  BY <2>2, <2>5, <2>7, SameEnd
  <2> QED  BY <2>8 DEF Retold
<1>7. CASE EntryBarExit(bars[i]) = "none" /\ E = {} /\ i + ClHoldDays <= n
  <2>1. F = {}
    <3> HIDE DEF E, F
    <3>1. \A x \in F : x \in 1 .. n
      BY <1>1, <1>3, <1>7
    <3> QED  BY <1>3, <1>7, <3>1
  <2>2. LastHeld(bars, i) = i + ClHoldDays /\ LastHeld(more, i) = i + ClHoldDays
    BY <1>1, <1>2, <1>7 DEF LastHeld
  <2>3. t = Ended(bars, i, "time_exit", i + ClHoldDays)
    BY <1>7, <2>2 DEF LabTrade
  <2>4. u = Ended(more, i, "time_exit", i + ClHoldDays)
    BY <1>2, <1>7, <2>1, <2>2 DEF LabTrade
  <2>5. i + ClHoldDays \in 1 .. n
    BY <1>1, <1>7
  <2>6. u = t
    <3> HIDE DEF t, u
    <3> QED  BY <2>3, <2>4, <2>5, SameEnd
  <2> QED  BY <2>6 DEF Retold
<1>8. CASE EntryBarExit(bars[i]) = "none" /\ E = {} /\ i + ClHoldDays > n
  <2>1. LastHeld(bars, i) = n /\ LastHeld(more, i) = n + 1
    BY <1>1, <1>2, <1>8 DEF LastHeld
  <2>2. t = Ended(bars, i, "time_exit", n)
    BY <1>8, <2>1 DEF LabTrade
  <2>3. t.outcome = "time_exit" /\ t.out = n /\ t.day = i
    BY <1>4, <2>2
  <2>4. n # i + ClHoldDays
    BY <1>1, <1>8
  <2>5. Waits(t, n)
    BY <2>3, <2>4 DEF Waits
  <2>6. u.day = i /\ u.out = n + 1
    <3>1. CASE F = {}
      <4>1. u = Ended(more, i, "time_exit", n + 1)
        BY <1>2, <1>8, <2>1, <3>1 DEF LabTrade
      <4> QED  BY <1>4, <4>1
    <3>2. CASE F # {}
      <4> DEFINE k == Min(F)
      <4>1. k \in F
        <5>1. Len(more) \in Nat
          BY <1>2
        <5> QED  BY <1>1, <3>2, <5>1, FirstEnding
      <4>2. k = n + 1
        <5> HIDE DEF E, F, k
        <5>1. k \in 1 .. n + 1
          BY <1>1, <1>3, <4>1
        <5>2. k \notin 1 .. n
          BY <1>3, <1>8, <4>1
        <5> QED  BY <5>1, <5>2
      <4>3. u = Ended(more, i, IF HitsStop(more[k], more[i].open) THEN "stop" ELSE "target", k)
        BY <1>2, <1>8, <3>2 DEF LabTrade
      <4>4. u.day = i /\ u.out = k
        BY <1>4, <4>3
      <4> QED  BY <4>2, <4>4
    <3> QED  BY <3>1, <3>2
  <2> QED  BY <2>3, <2>5, <2>6 DEF Retold
<1> QED  BY <1>1, <1>5, <1>6, <1>7, <1>8

(* The whole run of a day, told again: the trades retold, and the book free on the
   same day, unless the open trade now lasts a day longer. *)
RunRetold(run, again, n) ==
  /\ DOMAIN again.trades = DOMAIN run.trades
  /\ \A k \in DOMAIN run.trades : Retold(run.trades[k], again.trades[k], n)
  /\ again.free = run.free \/ (run.free = n + 1 /\ again.free = n + 2)

LEMMA TurnRetold ==
  ASSUME NEW n \in Nat, NEW bars, NEW more, LongerBy(bars, more, n), NEW i \in 1 .. n,
         NEW run \in Runs(bars), NEW again \in Runs(more), RunRetold(run, again, n)
  PROVE  RunRetold(LabTurn(run, bars, i), LabTurn(again, more, i), n)
<1> DEFINE t == LabTrade(bars, i)
           u == LabTrade(more, i)
           m == Len(run.trades)
           T == TradesOf(bars)
           U == TradesOf(more)
<1>1. /\ run.free \in Nat /\ run.trades \in Seq(T)
      /\ again.free \in Nat /\ again.trades \in Seq(U)
  <2>1. run \in [free : Nat, trades : Seq(T)] /\ again \in [free : Nat, trades : Seq(U)]
    BY DEF Runs
  <2> HIDE DEF T, U
  <2> QED  BY <2>1
<1>2. t \in T /\ u \in U
  BY DEF TradesOf, LongerBy
<1>3. Retold(t, u, n)
  BY TradeRetold
<1>4. Signalled(more, i) <=> Signalled(bars, i)
  BY SameSignals
<1> HIDE DEF T, U
<1>5. m \in Nat /\ DOMAIN run.trades = 1 .. m /\ DOMAIN again.trades = 1 .. m
  BY <1>1 DEF RunRetold
<1>6. Len(again.trades) = m
  BY <1>1, <1>5
<1>7. i < again.free <=> i < run.free
  BY <1>1 DEF RunRetold
<1>8. CASE i < run.free \/ ~ Signalled(bars, i)
  BY <1>4, <1>7, <1>8 DEF LabTurn
<1>9. CASE ~ (i < run.free \/ ~ Signalled(bars, i))
  <2> DEFINE r == LabTurn(run, bars, i)
             a == LabTurn(again, more, i)
  <2>1. r.free = t.out + 1 /\ r.trades = Append(run.trades, t)
    BY <1>9 DEF LabTurn
  <2>2. a.free = u.out + 1 /\ a.trades = Append(again.trades, u)
    BY <1>4, <1>7, <1>9 DEF LabTurn
  <2> HIDE DEF r, a, t, u, m
  <2>3. /\ DOMAIN r.trades = 1 .. m + 1 /\ r.trades[m + 1] = t
        /\ \A k \in 1 .. m : r.trades[k] = run.trades[k]
    BY <1>1, <1>2, <2>1 DEF m
  <2>4. /\ DOMAIN a.trades = 1 .. m + 1 /\ a.trades[m + 1] = u
        /\ \A k \in 1 .. m : a.trades[k] = again.trades[k]
    BY <1>1, <1>2, <1>6, <2>2
  <2>5. ASSUME NEW k \in 1 .. m + 1 PROVE Retold(r.trades[k], a.trades[k], n)
    <3>1. CASE k = m + 1
      BY <1>3, <2>3, <2>4, <3>1
    <3>2. CASE k \in 1 .. m
      BY <1>5, <2>3, <2>4, <3>2 DEF RunRetold
    <3> QED  BY <1>5, <3>1, <3>2
  <2>6. a.free = r.free \/ (r.free = n + 1 /\ a.free = n + 2)
    BY <1>3, <2>1, <2>2 DEF Retold, Waits
  <2>7. RunRetold(r, a, n)
    BY <2>3, <2>4, <2>5, <2>6 DEF RunRetold
  <2> QED  BY <2>7 DEF r, a
<1> QED  BY <1>8, <1>9

LEMMA RunsRetold ==
  ASSUME NEW n \in Nat, NEW bars, NEW more, LongerBy(bars, more, n)
  PROVE  RunRetold(LabRuns(bars)[n], LabRuns(more)[n], n)
<1> DEFINE run == LabRuns(bars)
           again == LabRuns(more)
           T == {i \in 0 .. n : RunRetold(run[i], again[i], n)}
<1>1. Len(bars) = n /\ Len(more) = n + 1
  BY DEF LongerBy
<1>2. /\ run[0] = LabStart
      /\ \A i \in 1 .. n : run[i] = LabTurn(run[i - 1], bars, i)
      /\ \A i \in 0 .. n : run[i] \in Runs(bars)
  BY <1>1, LabRunsRun
<1>3. /\ again[0] = LabStart
      /\ \A i \in 1 .. n + 1 : again[i] = LabTurn(again[i - 1], more, i)
      /\ \A i \in 0 .. n + 1 : again[i] \in Runs(more)
  <2>1. Len(more) \in Nat
    BY <1>1
  <2> QED  BY <1>1, <2>1, LabRunsRun
<1> HIDE DEF run, again
<1>4. 0 \in T
  <2>1. RunRetold(LabStart, LabStart, n)
    <3>1. LabStart.trades = <<>> /\ DOMAIN <<>> = {}
      BY DEF LabStart
    <3> QED  BY <3>1 DEF RunRetold
  <2> QED  BY <1>2, <1>3, <2>1
<1>5. ASSUME NEW i \in 1 .. n, i - 1 \in T PROVE i \in T
  <2>1. /\ i \in 0 .. n /\ i - 1 \in 0 .. n /\ RunRetold(run[i - 1], again[i - 1], n)
        /\ i \in 1 .. n + 1 /\ i - 1 \in 0 .. n + 1
    BY <1>5
  <2>2. run[i - 1] \in Runs(bars) /\ again[i - 1] \in Runs(more)
    BY <1>2, <1>3, <2>1
  <2>3. run[i] = LabTurn(run[i - 1], bars, i) /\ again[i] = LabTurn(again[i - 1], more, i)
    BY <1>2, <1>3, <2>1
  <2>4. RunRetold(run[i], again[i], n)
    BY <2>1, <2>2, <2>3, TurnRetold
  <2> QED  BY <2>1, <2>4
<1>6. 0 .. n \subseteq T
  <2> HIDE DEF T
  <2> QED  BY <1>4, <1>5, UpTo
<1>7. n \in 0 .. n
  OBVIOUS
<1> QED  BY <1>6, <1>7 DEF run, again

(* A day more retells the trades, and may add one. *)
LEMMA TradesRetold ==
  ASSUME NEW n \in Nat, NEW bars, NEW more, LongerBy(bars, more, n)
  PROVE  \A k \in DOMAIN RunLab(bars) :
           /\ k \in DOMAIN RunLab(more)
           /\ Retold(RunLab(bars)[k], RunLab(more)[k], n)
<1> DEFINE run == LabRuns(bars)[n]
           again == LabRuns(more)[n]
           last == LabRuns(more)[n + 1]
           U == TradesOf(more)
<1>1. Len(bars) = n /\ Len(more) = n + 1
  BY DEF LongerBy
<1>2. RunRetold(run, again, n)
  BY RunsRetold
<1>3. again \in Runs(more) /\ last = LabTurn(again, more, n + 1)
  <2>1. Len(more) \in Nat /\ n \in 0 .. Len(more) /\ n + 1 \in 1 .. Len(more)
    BY <1>1
  <2>2. /\ \A i \in 1 .. Len(more) : LabRuns(more)[i] = LabTurn(LabRuns(more)[i - 1], more, i)
        /\ \A i \in 0 .. Len(more) : LabRuns(more)[i] \in Runs(more)
    BY <2>1, LabRunsRun
  <2>3. n + 1 - 1 = n
    OBVIOUS
  <2>4. last = LabTurn(LabRuns(more)[n + 1 - 1], more, n + 1)
    BY <2>1, <2>2
  <2> QED  BY <2>1, <2>2, <2>3, <2>4
<1>4. RunLab(bars) = run.trades /\ RunLab(more) = last.trades
  BY <1>1 DEF RunLab
<1>5. last.trades = again.trades \/ \E t \in U : last.trades = Append(again.trades, t)
  <2>1. LabTrade(more, n + 1) \in U
    BY <1>1 DEF TradesOf
  <2> QED  BY <1>3, <2>1 DEF LabTurn
<1>6. again.trades \in Seq(U)
  <2>1. again \in [free : Nat, trades : Seq(U)]
    BY <1>3 DEF Runs
  <2> HIDE DEF U, again
  <2> QED  BY <2>1
<1> HIDE DEF run, again, last, U
<1>7. \A k \in DOMAIN again.trades : k \in DOMAIN last.trades /\ last.trades[k] = again.trades[k]
  <2>1. CASE last.trades = again.trades
    BY <2>1
  <2>2. CASE \E t \in U : last.trades = Append(again.trades, t)
    <3>1. PICK t \in U : last.trades = Append(again.trades, t)
      BY <2>2
    <3> DEFINE m == Len(again.trades)
    <3>2. m \in Nat /\ DOMAIN again.trades = 1 .. m
      BY <1>6
    <3>3. DOMAIN last.trades = 1 .. m + 1 /\ \A k \in 1 .. m : last.trades[k] = again.trades[k]
      BY <1>6, <3>1
    <3> HIDE DEF m
    <3>4. \A k \in 1 .. m : k \in 1 .. m + 1
      BY <3>2
    <3> QED  BY <3>2, <3>3, <3>4
  <2> QED  BY <1>5, <2>1, <2>2
<1> QED  BY <1>2, <1>4, <1>7 DEF RunRetold

-----------------------------------------------------------------------------
(* The first seven days are data only. *)
LEMMA NoTradeYet ==
  ASSUME NEW bars, Len(bars) = 7
  PROVE  RunLab(bars) = <<>>
<1> DEFINE run == LabRuns(bars)
           T == {i \in 0 .. 7 : run[i] = LabStart}
<1>1. run[0] = LabStart /\ \A i \in 1 .. 7 : run[i] = LabTurn(run[i - 1], bars, i)
  <2>1. Len(bars) \in Nat /\ Len(bars) = 7
    OBVIOUS
  <2> QED  BY <2>1, LabRunsRun
<1>2. RunLab(bars) = run[7].trades
  BY DEF RunLab
<1> HIDE DEF run
<1>3. 0 \in T
  BY <1>1
<1>4. ASSUME NEW i \in 1 .. 7, i - 1 \in T PROVE i \in T
  <2>1. i \in 0 .. 7 /\ run[i] = LabTurn(LabStart, bars, i) /\ i < 8
    BY <1>1, <1>4
  <2>2. LabTurn(LabStart, bars, i) = LabStart
    BY <2>1 DEF LabTurn, LabStart
  <2> QED  BY <2>1, <2>2
<1>5. 0 .. 7 \subseteq T
  <2> HIDE DEF T
  <2> QED  BY <1>3, <1>4, UpTo
<1>6. run[7] = LabStart
  BY <1>5
<1> QED  BY <1>2, <1>6 DEF LabStart

LabInv ==
  \/ clBars = <<>> /\ clTrades = <<>>
  \/ clBars \in Days /\ Len(clBars) >= 7 /\ clTrades = RunLab(clBars)

LEMMA LabInvHolds == ClSpec => []LabInv
<1>1. ClInit => LabInv
  BY DEF ClInit, LabInv
<1>2. ASSUME LabInv, [ClNext]_clVars PROVE LabInv'
  <2>1. CASE ClSeed
    <3>1. PICK s \in ClSeeds : clBars' = [i \in 1 .. 7 |-> [open |-> s[i], high |-> s[i],
                                                        low |-> s[i], close |-> s[i]]]
      BY <2>1 DEF ClSeed
    <3>2. \A i \in 1 .. 7 : s[i] \in Nat
      BY LabConstants
    <3> DEFINE B == ClShapes
    <3>3. \A i \in 1 .. 7 : [open |-> s[i], high |-> s[i], low |-> s[i], close |-> s[i]] \in B
      BY <3>2 DEF ClShapes
    <3> HIDE DEF B
    <3>4. clBars' \in Seq(B) /\ Len(clBars') = 7
      BY <3>1, <3>3
    <3>5. RunLab(clBars') = <<>>
      BY <3>4, NoTradeYet
    <3>6. clBars = <<>> /\ clTrades' = clTrades
      BY <2>1 DEF ClSeed
    <3>7. clTrades = <<>>
      <4>1. Len(<<>>) = 0
        OBVIOUS
      <4> QED  BY <1>2, <3>6, <4>1 DEF LabInv
    <3> QED  BY <3>4, <3>5, <3>6, <3>7 DEF LabInv, Days, B
  <2>2. CASE CoinDayAdded
    <3>1. PICK b \in ClBars : clBars' = Append(clBars, b)
      BY <2>2 DEF CoinDayAdded
    <3>2. clBars # <<>> /\ clTrades' = RunLab(clBars')
      BY <2>2 DEF CoinDayAdded
    <3> DEFINE B == ClShapes
    <3>3. clBars \in Seq(B) /\ Len(clBars) >= 7 /\ b \in B
      BY <1>2, <3>2, LabConstants DEF LabInv, Days
    <3> HIDE DEF B
    <3>4. clBars' \in Seq(B) /\ Len(clBars') >= 7
      BY <3>1, <3>3
    <3> QED  BY <3>2, <3>4 DEF LabInv, Days, B
  <2>3. CASE UNCHANGED clVars
    BY <1>2, <2>3 DEF clVars, LabInv
  <2> QED  BY <1>2, <2>1, <2>2, <2>3 DEF ClNext
<1> QED  BY <1>1, <1>2, PTL DEF ClSpec

LEMMA NoneOverlap == LabInv => LabTradesNeverOverlap
<1>1. CASE clBars = <<>> /\ clTrades = <<>>
  <2>1. DOMAIN clTrades = {} /\ 8 .. Len(clBars) = {}
    BY <1>1
  <2> QED  BY <2>1 DEF LabTradesNeverOverlap
<1>2. CASE clBars \in Days /\ Len(clBars) >= 7 /\ clTrades = RunLab(clBars)
  <2> DEFINE n == Len(clBars)
  <2>1. n \in Nat
    <3> DEFINE B == ClShapes
    <3>1. clBars \in Seq(B)
      BY <1>2 DEF Days
    <3> HIDE DEF B
    <3> QED  BY <3>1
  <2>2. OneAtATime(LabRuns(clBars)[n], clBars, n)
    <3>1. n \in 0 .. n
      BY <2>1
    <3> QED  BY <2>1, <3>1, NeverTwo
  <2>3. clTrades = LabRuns(clBars)[n].trades
    BY <1>2 DEF RunLab
  <2> QED  BY <2>2, <2>3 DEF OneAtATime, LabTradesNeverOverlap
<1> QED  BY <1>1, <1>2 DEF LabInv

(* The trades of the coins' backtest are real: one at a time, every day with a
   signal covered, and none of them changed by the days that come later, in data
   of every length. *)
THEOREM LabIsReal == ClSpec => LabTradesAreReal
<1> DEFINE Stand == \A k \in DOMAIN clTrades :
             LET t == clTrades[k]
             IN  /\ k \in DOMAIN clTrades' /\ clTrades'[k].day = t.day
                 /\ t.outcome # "time_exit" \/ t.out = t.day + ClHoldDays => clTrades'[k] = t
<1>1. ASSUME LabInv, [ClNext]_clVars PROVE [Stand]_clVars
  <2>1. CASE clBars = <<>> /\ ClNext
    <3>1. clTrades = <<>>
      <4>1. Len(<<>>) = 0
        OBVIOUS
      <4> QED  BY <1>1, <2>1, <4>1 DEF LabInv
    <3>2. DOMAIN clTrades = {}
      BY <3>1
    <3> QED  BY <3>2
  <2>2. CASE clBars # <<>> /\ ClNext
    <3> DEFINE n == Len(clBars)
               B == ClShapes
    <3>1. CoinDayAdded
      BY <2>2 DEF ClNext, ClSeed
    <3>2. PICK b \in ClBars : clBars' = Append(clBars, b)
      BY <3>1 DEF CoinDayAdded
    <3>3. clBars \in Seq(B) /\ b \in B /\ clTrades = RunLab(clBars)
      BY <1>1, <2>2, LabConstants DEF LabInv, Days
    <3>4. clTrades' = RunLab(clBars')
      BY <3>1 DEF CoinDayAdded
    <3> HIDE DEF B
    <3>5. n \in Nat /\ Len(clBars') = n + 1 /\ \A i \in 1 .. n : clBars'[i] = clBars[i]
      BY <3>2, <3>3
    <3>6. LongerBy(clBars, clBars', n)
      BY <3>5 DEF LongerBy
    <3>7. ASSUME NEW k \in DOMAIN clTrades
          PROVE  k \in DOMAIN clTrades' /\ Retold(clTrades[k], clTrades'[k], n)
      <4> DEFINE more == clBars'
      <4>1. LongerBy(clBars, more, n) /\ clTrades' = RunLab(more)
        BY <3>4, <3>6
      <4> HIDE DEF more
      <4> QED  BY <3>3, <3>5, <4>1, TradesRetold
    <3>8. Stand
      BY <3>7 DEF Retold, Waits
    <3> QED  BY <3>8
  <2>3. CASE UNCHANGED clVars
    BY <2>3
  <2> QED  BY <1>1, <2>1, <2>2, <2>3
<1>2. LabInv => LabTradesNeverOverlap
  BY NoneOverlap
<1>3. ClSpec => []LabInv
  BY LabInvHolds
<1>4. [ClNext]_clVars /\ LabInv => [Stand]_clVars
  BY <1>1
<1> QED  BY <1>2, <1>3, <1>4, PTL DEF ClSpec, LabTradesAreReal, LabTradesStand

LedgerNames == {LedgerStrategies[i] : i \in DOMAIN LedgerStrategies}
LedgerRows == [strategy : LedgerNames, pnl : Int, net : Int \cup {NoNet}, dry : BOOLEAN,
               day : Nat, after : BOOLEAN, late : BOOLEAN]
Tables == Seq(LedgerRows)

LEMMA LedgerConstants ==
  /\ WeekDays \in Nat /\ WeekDays >= 1 /\ NoNet \notin Int
  /\ LastLedgerDay \in Nat /\ LastLedgerDay >= 1
  /\ \A g \in Grosses : g \in Int
  /\ \A c \in ChargeSet : c \in Int
  /\ Len(LedgerStrategies) \in Nat
  /\ DOMAIN LedgerStrategies = 1 .. Len(LedgerStrategies)
  /\ \A i, j \in 1 .. Len(LedgerStrategies) : LedgerStrategies[i] = LedgerStrategies[j] => i = j
<1> DEFINE S == {LedgerStrategies[i] : i \in DOMAIN LedgerStrategies}
<1>1. LedgerStrategies \in Seq(S)
  BY LedgerAssumption
<1>2. \A i, j \in DOMAIN LedgerStrategies : LedgerStrategies[i] = LedgerStrategies[j] => i = j
  BY LedgerAssumption
<1>3. WeekDays \in Nat \ {0} /\ LastLedgerDay \in Nat \ {0} /\ Grosses \subseteq Int /\ ChargeSet \subseteq Nat /\ NoNet \notin Int
  BY LedgerAssumption
<1> HIDE DEF S
<1>4. Len(LedgerStrategies) \in Nat /\ DOMAIN LedgerStrategies = 1 .. Len(LedgerStrategies)
  BY <1>1
<1> QED  BY <1>2, <1>3, <1>4

(* Rows of a table. *)
LEMMA TableRows ==
  ASSUME NEW rows \in Tables
  PROVE  /\ Len(rows) \in Nat /\ DOMAIN rows = 1 .. Len(rows)
         /\ \A k \in 1 .. Len(rows) :
              /\ rows[k] \in LedgerRows /\ NetOfRow(rows[k]) \in Int
              /\ rows[k].day \in Nat /\ rows[k].dry \in BOOLEAN /\ rows[k].late \in BOOLEAN
              /\ rows[k].after \in BOOLEAN /\ rows[k].strategy \in LedgerNames
<1> DEFINE R == LedgerRows
<1>1. \A r \in R : /\ NetOfRow(r) \in Int /\ r.day \in Nat /\ r.dry \in BOOLEAN
                   /\ r.late \in BOOLEAN /\ r.after \in BOOLEAN /\ r.strategy \in LedgerNames
  <2> SUFFICES ASSUME NEW r \in R
               PROVE  /\ NetOfRow(r) \in Int /\ r.day \in Nat /\ r.dry \in BOOLEAN
                      /\ r.late \in BOOLEAN /\ r.after \in BOOLEAN /\ r.strategy \in LedgerNames
    OBVIOUS
  <2>1. r.pnl \in Int /\ (r.net \in Int \/ r.net = NoNet)
    BY DEF LedgerRows
  <2>2. NetOfRow(r) \in Int
    BY <2>1 DEF NetOfRow
  <2> QED  BY <2>2 DEF LedgerRows
<1>2. rows \in Seq(R)
  BY DEF Tables
<1> HIDE DEF R
<1>3. Len(rows) \in Nat /\ DOMAIN rows = 1 .. Len(rows) /\ \A k \in 1 .. Len(rows) : rows[k] \in R
  BY <1>2
<1> QED  BY <1>1, <1>3 DEF R

(* A total of the table is one over its rows' results. *)
Nets(rows) == [k \in 1 .. Len(rows) |-> NetOfRow(rows[k])]

LEMMA AddedIs ==
  ASSUME NEW N \in Nat, NEW g \in [1 .. N -> Int]
  PROVE  Added(g) = PartialSums(g)[N]
<1>1. Len(g) = N
  OBVIOUS
<1> QED  BY <1>1 DEF Added, PartialSums

LEMMA NetTotalIs ==
  ASSUME NEW rows \in Tables
  PROVE  /\ Len(rows) \in Nat /\ Nets(rows) \in [1 .. Len(rows) -> Int]
         /\ \A ids : NetTotal(rows, ids) = TotalAt(Nets(rows), ids)
<1> DEFINE N == Len(rows)
           v == Nets(rows)
<1>1. N \in Nat /\ v \in [1 .. N -> Int] /\ \A k \in 1 .. N : v[k] = NetOfRow(rows[k])
  BY TableRows DEF Nets
<1>2. ASSUME NEW ids PROVE NetTotal(rows, ids) = TotalAt(v, ids)
  <2> DEFINE g == Masked(v, ids)
  <2> HIDE DEF v
  <2>1. Len(v) = N
    BY <1>1
  <2>2. g \in [1 .. N -> Int] /\ g = [k \in 1 .. N |-> IF k \in ids THEN NetOfRow(rows[k]) ELSE 0]
    BY <1>1, <2>1 DEF Masked
  <2>3. NetTotal(rows, ids) = Added(g)
    BY <2>2 DEF NetTotal
  <2> HIDE DEF g
  <2>4. Added(g) = PartialSums(g)[N]
    BY <1>1, <2>2, AddedIs
  <2> QED  BY <2>1, <2>3, <2>4 DEF TotalAt, g
<1> QED  BY <1>1, <1>2

LEMMA TotalIsNumber ==
  ASSUME NEW rows \in Tables, NEW ids
  PROVE  NetTotal(rows, ids) \in Int
BY NetTotalIs, TotalIsInt

LEMMA TotalOfNone ==
  ASSUME NEW rows \in Tables, NEW A, \A k \in 1 .. Len(rows) : k \notin A
  PROVE  NetTotal(rows, A) = 0
BY NetTotalIs, TotalAtNone

(* A row more. *)
LEMMA TotalWithRow ==
  ASSUME NEW rows \in Tables, NEW more \in Tables, Len(more) = Len(rows) + 1,
         \A k \in 1 .. Len(rows) : more[k] = rows[k], NEW A, NEW B,
         \A k \in 1 .. Len(rows) : k \in A <=> k \in B, Len(rows) + 1 \in B
  PROVE  NetTotal(more, B) = NetTotal(rows, A) + NetOfRow(more[Len(more)])
<1> DEFINE N == Len(rows)
           v == Nets(rows)
           w == Nets(more)
<1>1. /\ N \in Nat /\ v \in [1 .. N -> Int] /\ w \in [1 .. N + 1 -> Int]
      /\ NetTotal(rows, A) = TotalAt(v, A) /\ NetTotal(more, B) = TotalAt(w, B)
  BY NetTotalIs
<1>2. (\A k \in 1 .. N : w[k] = v[k]) /\ w[N + 1] = NetOfRow(more[Len(more)])
  <2>1. N + 1 \in 1 .. Len(more) /\ \A k \in 1 .. N : k \in 1 .. Len(more)
    BY <1>1
  <2> QED  BY <2>1 DEF Nets
<1>3. (\A k \in 1 .. N : k \in A <=> k \in B) /\ N + 1 \in B
  OBVIOUS
<1> HIDE DEF N, v, w
<1> QED  BY <1>1, <1>2, <1>3, TotalOfOneMore

(* A row more does not move the total of others. *)
LEMMA TotalKept ==
  ASSUME NEW rows \in Tables, NEW more \in Tables, Len(more) = Len(rows) + 1,
         \A k \in 1 .. Len(rows) : more[k] = rows[k], NEW A, A \subseteq 1 .. Len(rows)
  PROVE  NetTotal(more, A) = NetTotal(rows, A)
<1> DEFINE N == Len(rows)
           v == Nets(rows)
           w == Nets(more)
           last == {N + 1}
<1>1. /\ N \in Nat /\ v \in [1 .. N -> Int] /\ w \in [1 .. N + 1 -> Int] /\ N + 1 \in Nat
      /\ NetTotal(rows, A) = TotalAt(v, A) /\ NetTotal(more, A) = TotalAt(w, A)
  BY NetTotalIs
<1>2. \A k \in 1 .. N : w[k] = v[k]
  <2>1. \A k \in 1 .. N : k \in 1 .. Len(more)
    BY <1>1
  <2> QED  BY <2>1 DEF Nets
<1>3. A \subseteq 1 .. N
  OBVIOUS
<1> HIDE DEF N, v, w
<1>4. N + 1 \notin 1 .. N /\ N + 1 \in last /\ \A k \in 1 .. N : k \notin last
  BY <1>1
<1>5. TotalAt(w, A \cup last) = TotalAt(v, A) + w[N + 1]
  <2>1. (\A k \in 1 .. N : k \in A <=> k \in A \cup last) /\ N + 1 \in A \cup last
    BY <1>4
  <2> QED  BY <1>1, <1>2, <2>1, TotalOfOneMore
<1>6. TotalAt(w, last) = TotalAt(v, {}) + w[N + 1]
  <2> DEFINE none == {}
  <2>1. (\A k \in 1 .. N : k \in none <=> k \in last) /\ N + 1 \in last
    BY <1>4
  <2> HIDE DEF none, last
  <2>2. TotalAt(w, last) = TotalAt(v, none) + w[N + 1]
    BY <1>1, <1>2, <2>1, TotalOfOneMore
  <2> QED  BY <2>2 DEF none
<1>7. TotalAt(v, {}) = 0
  BY <1>1, TotalAtNone
<1>8. TotalAt(w, A \cup last) = TotalAt(w, A) + TotalAt(w, last)
  <2>1. A \cap last = {}
    BY <1>3, <1>4
  <2> QED  BY <1>1, <2>1, TotalsOfTwo
<1>9. /\ TotalAt(w, A) \in Int /\ TotalAt(v, A) \in Int /\ w[N + 1] \in Int
  <2>1. N + 1 \in 1 .. N + 1
    BY <1>1
  <2> QED  BY <1>1, <2>1, TotalIsInt
<1> DEFINE x == TotalAt(w, A)
           y == TotalAt(v, A)
           z == w[N + 1]
<1>10. x \in Int /\ y \in Int /\ z \in Int /\ x + (0 + z) = y + z
  BY <1>5, <1>6, <1>7, <1>8, <1>9
<1> HIDE DEF x, y, z
<1>11. x = y
  BY <1>10
<1> QED  BY <1>1, <1>11 DEF x, y

-----------------------------------------------------------------------------
(* Fridays: the last days of the weeks. *)
Friday(d) == d % WeekDays = 0

LEMMA OneFriday ==
  ASSUME NEW a \in Nat, NEW b \in Nat, Friday(a), Friday(b), a - WeekDays < b, b <= a
  PROVE  a = b
<1> DEFINE W == WeekDays
           p == a \div W
           q == b \div W
<1>1. W \in Nat \ {0}
  BY LedgerConstants
<1>2. p \in Int /\ a = W * p + (a % W) /\ a % W = 0
  BY <1>1, Euclid DEF Friday
<1>3. q \in Int /\ b = W * q + (b % W) /\ b % W = 0
  BY <1>1, Euclid DEF Friday
<1>4. a - W < b
  OBVIOUS
<1> HIDE DEF W, p, q
<1>5. W * p \in Int /\ W * q \in Int /\ a = W * p /\ b = W * q
  BY <1>1, <1>2, <1>3
<1>6. W * q + 0 <= W * p + 0
  BY <1>5
<1>7. q < p \/ (q = p /\ 0 <= 0)
  BY <1>1, <1>2, <1>3, <1>6, QuotientsGrow
<1>8. W * p + 0 <= W * q + (W - 1)
  BY <1>1, <1>4, <1>5
<1>9. 0 <= W - 1 /\ W - 1 < W /\ W - 1 \in Int
  BY <1>1
<1>10. p < q \/ (p = q /\ 0 <= W - 1)
  BY <1>1, <1>2, <1>3, <1>8, <1>9, QuotientsGrow
<1>11. p = q
  BY <1>2, <1>3, <1>7, <1>10
<1> QED  BY <1>5, <1>11

-----------------------------------------------------------------------------
DigestRecords == [end : Nat, answered : BOOLEAN, sent : BOOLEAN, told : SUBSET Nat,
                  total : Int, trades : Nat]
LineRecords == [answered : BOOLEAN, pnl : Int, trades : Nat]

LedgerTypes ==
  /\ ldDay \in 1 .. LastLedgerDay /\ ldRows \in Tables /\ ldSaid \in BOOLEAN /\ ldSent \in BOOLEAN
  /\ ldLines \in [1 .. LastLedgerDay -> LineRecords]
  /\ ldDigests \in Seq(DigestRecords)

(* A row is of its day; a late one is of a Friday whose digest went out. *)
RowsOfDays ==
  /\ ldSent => Friday(ldDay) /\ ldSaid
  /\ \A k \in DOMAIN ldRows :
       /\ 1 <= ldRows[k].day /\ ldRows[k].day <= ldDay
       /\ ldRows[k].after /\ ldRows[k].day = ldDay => ldSaid
       /\ ldRows[k].late => /\ Friday(ldRows[k].day) /\ ldRows[k].after
                            /\ ldRows[k].day = ldDay => ldSent

InTime(rows, end) == {k \in DOMAIN rows : InWeek(rows[k].day, end) /\ ~ rows[k].dry /\ ~ rows[k].late}
Early(rows, day) == {k \in DOMAIN rows : ~ rows[k].dry /\ rows[k].day = day /\ ~ rows[k].after}

(* A line said what the rows of its day made by then, or nothing. *)
LineTells(rows, day) ==
  /\ ldLines[day].answered =>
       /\ ldLines[day].pnl = NetTotal(rows, Early(rows, day))
       /\ ldLines[day].trades = Cardinality(Early(rows, day))
       /\ day <= ldDay /\ (day = ldDay => ldSaid)
  /\ ~ ldLines[day].answered => ldLines[day].pnl = 0 /\ ldLines[day].trades = 0

LinesTell == \A day \in 1 .. LastLedgerDay : LineTells(ldRows, day)

(* A digest whose query was answered told of the rows of its week that were not
   late, and of what they made; another told of none. *)
Tells(rows, d) ==
  /\ d.told = Selected(InTime(rows, d.end), d.answered)
  /\ d.total = NetTotal(rows, d.told) /\ d.trades = Cardinality(d.told)
  /\ d.told # {} => d.sent

DigestsTell ==
  /\ \A d \in DOMAIN ldDigests :
       /\ Friday(ldDigests[d].end) /\ 1 <= ldDigests[d].end /\ ldDigests[d].end <= ldDay
       /\ ldDigests[d].end = ldDay => ldSent
       /\ Tells(ldRows, ldDigests[d])
  /\ \A c, d \in DOMAIN ldDigests : c < d => ldDigests[c].end < ldDigests[d].end

LedgerInv == LedgerTypes /\ RowsOfDays /\ LinesTell /\ DigestsTell

LEMMA DigestFacts ==
  ASSUME LedgerTypes
  PROVE  /\ Len(ldDigests) \in Nat /\ DOMAIN ldDigests = 1 .. Len(ldDigests)
         /\ \A d \in 1 .. Len(ldDigests) :
              /\ ldDigests[d].end \in Nat /\ ldDigests[d].answered \in BOOLEAN
              /\ ldDigests[d].sent \in BOOLEAN
<1> DEFINE D == DigestRecords
<1>1. \A r \in D : r.end \in Nat /\ r.answered \in BOOLEAN /\ r.sent \in BOOLEAN
  BY DEF DigestRecords
<1>2. ldDigests \in Seq(D)
  BY DEF LedgerTypes
<1> HIDE DEF D
<1>3. /\ Len(ldDigests) \in Nat /\ DOMAIN ldDigests = 1 .. Len(ldDigests)
      /\ \A d \in 1 .. Len(ldDigests) : ldDigests[d] \in D
  BY <1>2
<1> QED  BY <1>1, <1>3

(* The digests tile the weeks. *)
LEMMA TheyTile == LedgerInv => DigestsTile
<1> SUFFICES ASSUME LedgerInv, NEW k \in DOMAIN ldRows
             PROVE  LET telling == {d \in DOMAIN ldDigests : ldDigests[d].sent /\ k \in ldDigests[d].told}
                        own == {d \in DOMAIN ldDigests : InWeek(ldRows[k].day, ldDigests[d].end)}
                    IN  /\ Cardinality(own) <= 1
                        /\ telling = {d \in own : /\ ldDigests[d].answered /\ ~ ldRows[k].dry
                                                  /\ ~ ldRows[k].late}
  BY DEF DigestsTile
<1> DEFINE N == Len(ldDigests)
           end(d) == ldDigests[d].end
           r == ldRows[k]
           telling == {d \in DOMAIN ldDigests : ldDigests[d].sent /\ k \in ldDigests[d].told}
           own == {d \in DOMAIN ldDigests : InWeek(r.day, end(d))}
<1>1. /\ N \in Nat /\ DOMAIN ldDigests = 1 .. N /\ \A d \in 1 .. N : end(d) \in Nat
  BY DigestFacts DEF LedgerInv
<1>2. r.day \in Nat /\ r.dry \in BOOLEAN /\ r.late \in BOOLEAN
  BY TableRows DEF LedgerInv, LedgerTypes
<1>3. ASSUME NEW d \in 1 .. N
      PROVE  /\ k \in ldDigests[d].told
                   <=> ldDigests[d].answered /\ InWeek(r.day, end(d)) /\ ~ r.dry /\ ~ r.late
             /\ k \in ldDigests[d].told => ldDigests[d].sent
  <2>1. Tells(ldRows, ldDigests[d])
    BY <1>1 DEF LedgerInv, DigestsTell
  <2> QED  BY <2>1 DEF Tells, Selected, InTime
<1>4. telling = {d \in own : ldDigests[d].answered /\ ~ r.dry /\ ~ r.late}
  <2> HIDE DEF r, end
  <2> QED  BY <1>1, <1>3
<1>5. ASSUME NEW c \in own, NEW d \in own, c < d PROVE FALSE
  <2>1. c \in 1 .. N /\ d \in 1 .. N /\ InWeek(r.day, end(c)) /\ InWeek(r.day, end(d))
    BY <1>1
  <2>2. /\ end(c) < end(d) /\ Friday(end(c)) /\ Friday(end(d))
        /\ end(c) \in Nat /\ end(d) \in Nat
    BY <1>1, <1>5, <2>1 DEF LedgerInv, DigestsTell
  <2> HIDE DEF end, r
  <2>3. end(d) - WeekDays < end(c) /\ end(c) <= end(d)
    BY <1>2, <2>1, <2>2, LedgerConstants DEF InWeek
  <2>4. end(d) = end(c)
    BY <2>2, <2>3, OneFriday
  <2> QED  BY <2>2, <2>4
<1>6. \A c, d \in own : c = d
  <2> SUFFICES ASSUME NEW c \in own, NEW d \in own, c # d PROVE FALSE
    OBVIOUS
  <2>1. c \in 1 .. N /\ d \in 1 .. N
    BY <1>1
  <2> HIDE DEF own
  <2>2. c < d \/ d < c
    BY <1>1, <2>1
  <2> QED  BY <1>5, <2>2
<1>7. Cardinality(own) <= 1
  <2> HIDE DEF own
  <2>1. CASE own = {}
    BY <2>1, FS_EmptySet
  <2>2. CASE own # {}
    <3>1. PICK d \in own : TRUE
      BY <2>2
    <3>2. own = {d}
      BY <1>6, <3>1
    <3>3. Cardinality({d}) = 1
      BY FS_Singleton
    <3> QED  BY <3>2, <3>3
  <2> QED  BY <2>1, <2>2
<1> QED  BY <1>4, <1>7

-----------------------------------------------------------------------------
(* What the actions do to the table: nothing, or a row more of today. *)
OneRowMore ==
  \E row \in LedgerRows : /\ row.day = ldDay /\ row.after = ldSaid /\ row.late = ldSent
                          /\ ldRows' = Append(ldRows, row)

LEMMA RowsGrow ==
  ASSUME LedgerTypes, LdNext
  PROVE  UNCHANGED ldRows \/ (OneRowMore /\ UNCHANGED <<ldDay, ldTold>>)
<1>1. CASE OldRecord
  <2>1. PICK i \in DOMAIN LedgerStrategies, g \in Grosses, d \in BOOLEAN :
          ldRows' = Append(ldRows, [strategy |-> LedgerStrategies[i], pnl |-> g, net |-> NoNet,
                                    dry |-> d, day |-> ldDay, after |-> ldSaid, late |-> ldSent])
    BY <1>1 DEF OldRecord
  <2> DEFINE row == [strategy |-> LedgerStrategies[i], pnl |-> g, net |-> NoNet,
                     dry |-> d, day |-> ldDay, after |-> ldSaid, late |-> ldSent]
  <2>2. /\ LedgerStrategies[i] \in LedgerNames /\ g \in Int /\ ldDay \in Nat
        /\ ldSaid \in BOOLEAN /\ ldSent \in BOOLEAN
    BY LedgerConstants DEF LedgerNames, LedgerTypes
  <2>3. row \in LedgerRows
    BY <2>2 DEF LedgerRows
  <2>4. /\ row.day = ldDay /\ row.after = ldSaid /\ row.late = ldSent
        /\ ldRows' = Append(ldRows, row)
    BY <2>1
  <2> HIDE DEF row
  <2>5. OneRowMore
    BY <2>3, <2>4 DEF OneRowMore
  <2> QED  BY <1>1, <2>5 DEF OldRecord
<1>2. CASE LogTrade
  <2>1. CASE UNCHANGED ldRows
    BY <2>1
  <2>2. CASE ~ UNCHANGED ldRows
    <3>1. PICK i \in DOMAIN LedgerStrategies, g \in Grosses, c \in ChargeSet, d \in BOOLEAN :
            ldRows' = Append(ldRows, [strategy |-> LedgerStrategies[i], pnl |-> g, net |-> g - c,
                                      dry |-> d, day |-> ldDay, after |-> ldSaid, late |-> ldSent])
      BY <1>2, <2>2 DEF LogTrade
    <3> DEFINE row == [strategy |-> LedgerStrategies[i], pnl |-> g, net |-> g - c,
                       dry |-> d, day |-> ldDay, after |-> ldSaid, late |-> ldSent]
    <3>2. /\ LedgerStrategies[i] \in LedgerNames /\ g \in Int /\ c \in Int
          /\ ldDay \in Nat /\ ldSaid \in BOOLEAN /\ ldSent \in BOOLEAN
      BY LedgerConstants DEF LedgerNames, LedgerTypes
    <3>3. g - c \in Int \cup {NoNet}
      BY <3>2
    <3>4. row \in LedgerRows
      BY <3>2, <3>3 DEF LedgerRows
    <3>5. /\ row.day = ldDay /\ row.after = ldSaid /\ row.late = ldSent
          /\ ldRows' = Append(ldRows, row)
      BY <3>1
    <3> HIDE DEF row
    <3>6. OneRowMore
      BY <3>4, <3>5 DEF OneRowMore
    <3> QED  BY <1>2, <3>6 DEF LogTrade
  <2> QED  BY <2>1, <2>2
<1>3. CASE Connect \/ EveningLine \/ Digest \/ LedgerDayEnds
  BY <1>3 DEF Connect, EveningLine, Digest, LedgerDayEnds
<1> QED  BY <1>1, <1>2, <1>3 DEF LdNext

(* A table with a row more. *)
GrownBy(rows, row, more) ==
  /\ more \in Tables /\ Len(more) = Len(rows) + 1 /\ more[Len(rows) + 1] = row
  /\ DOMAIN more = 1 .. Len(rows) + 1
  /\ \A k \in 1 .. Len(rows) : more[k] = rows[k]

LEMMA MoreRows ==
  ASSUME NEW rows \in Tables, NEW row \in LedgerRows
  PROVE  GrownBy(rows, row, Append(rows, row))
<1> DEFINE R == LedgerRows
           more == Append(rows, row)
<1>1. rows \in Seq(R) /\ row \in R
  BY DEF Tables
<1> HIDE DEF R
<1>2. /\ more \in Seq(R) /\ Len(more) = Len(rows) + 1 /\ more[Len(rows) + 1] = row
      /\ DOMAIN more = 1 .. Len(rows) + 1
      /\ \A k \in 1 .. Len(rows) : more[k] = rows[k]
  BY <1>1
<1>3. more \in Tables
  BY <1>2 DEF R, Tables
<1> HIDE DEF more
<1>4. GrownBy(rows, row, more)
  BY <1>2, <1>3 DEF GrownBy
<1> QED  BY <1>4 DEF more

(* Rows of a table that the row more is not one of. *)
LEMMA SetKept ==
  ASSUME NEW rows \in Tables, NEW row \in LedgerRows, NEW more, GrownBy(rows, row, more),
         NEW A, A \subseteq DOMAIN rows
  PROVE  NetTotal(more, A) = NetTotal(rows, A)
<1>1. /\ more \in Tables /\ Len(more) = Len(rows) + 1
      /\ \A k \in 1 .. Len(rows) : more[k] = rows[k]
  BY DEF GrownBy
<1>2. A \subseteq 1 .. Len(rows)
  BY TableRows
<1> QED  BY <1>1, <1>2, TotalKept

LEMMA RowKeeps ==
  ASSUME LedgerInv, OneRowMore, UNCHANGED <<ldDay, ldTold>>
  PROVE  LedgerInv'
<1> DEFINE N == Len(ldRows)
<1>1. PICK row \in LedgerRows : /\ row.day = ldDay /\ row.after = ldSaid /\ row.late = ldSent
                                /\ ldRows' = Append(ldRows, row)
  BY DEF OneRowMore
<1>2. ldRows \in Tables
  BY DEF LedgerInv, LedgerTypes
<1>3. /\ ldRows' \in Tables /\ ldRows'[N + 1] = row /\ DOMAIN ldRows' = 1 .. N + 1
      /\ \A k \in 1 .. N : ldRows'[k] = ldRows[k]
      /\ \A A : A \subseteq DOMAIN ldRows => NetTotal(ldRows', A) = NetTotal(ldRows, A)
  <2>1. GrownBy(ldRows, row, Append(ldRows, row))
    BY <1>2, MoreRows
  <2>2. GrownBy(ldRows, row, ldRows')
    BY <1>1, <2>1
  <2>3. \A A : A \subseteq DOMAIN ldRows => NetTotal(ldRows', A) = NetTotal(ldRows, A)
    BY <1>2, <2>2, SetKept
  <2> QED  BY <2>2, <2>3 DEF GrownBy
<1>4. /\ N \in Nat /\ DOMAIN ldRows = 1 .. N /\ N + 1 \notin 1 .. N
      /\ \A k \in 1 .. N : /\ ldRows[k].day \in Nat /\ ldRows[k].late \in BOOLEAN
                           /\ ldRows[k].after \in BOOLEAN
  BY <1>2, TableRows
<1> HIDE DEF N
<1>5. \A k \in 1 .. N + 1 : k \in 1 .. N \/ k = N + 1
  BY <1>4
<1>6. /\ ldDay' = ldDay /\ ldSaid' = ldSaid /\ ldSent' = ldSent /\ ldLines' = ldLines
      /\ ldDigests' = ldDigests
  BY DEF ldTold
<1>7. LedgerTypes'
  BY <1>3, <1>6 DEF LedgerInv, LedgerTypes
<1>8. RowsOfDays'
  <2>1. /\ ldSent => Friday(ldDay) /\ ldSaid
        /\ ldDay \in Nat /\ 1 <= ldDay
    <3>1. ldDay \in 1 .. LastLedgerDay /\ LastLedgerDay \in Nat
      BY LedgerConstants DEF LedgerInv, LedgerTypes
    <3> QED  BY <3>1 DEF LedgerInv, RowsOfDays
  <2>2. ASSUME NEW k \in 1 .. N + 1
        PROVE  /\ 1 <= ldRows'[k].day /\ ldRows'[k].day <= ldDay
               /\ ldRows'[k].after /\ ldRows'[k].day = ldDay => ldSaid
               /\ ldRows'[k].late => /\ Friday(ldRows'[k].day) /\ ldRows'[k].after
                                     /\ ldRows'[k].day = ldDay => ldSent
    <3>1. CASE k \in 1 .. N
      BY <1>3, <1>4, <3>1 DEF LedgerInv, RowsOfDays
    <3>2. CASE k = N + 1
      BY <1>1, <1>3, <2>1, <3>2
    <3> QED  BY <1>5, <3>1, <3>2
  <2>3. ldSent' => Friday(ldDay') /\ ldSaid'
    BY <1>6, <2>1
  <2>4. \A k \in DOMAIN ldRows' :
          /\ 1 <= ldRows'[k].day /\ ldRows'[k].day <= ldDay'
          /\ ldRows'[k].after /\ ldRows'[k].day = ldDay' => ldSaid'
          /\ ldRows'[k].late => /\ Friday(ldRows'[k].day) /\ ldRows'[k].after
                                /\ ldRows'[k].day = ldDay' => ldSent'
    BY <1>3, <1>6, <2>2
  <2> QED  BY <2>3, <2>4 DEF RowsOfDays, Friday
<1>9. LinesTell'
  <2>1. ASSUME NEW day \in 1 .. LastLedgerDay PROVE LineTells(ldRows, day)'
    <3>1. LineTells(ldRows, day)
      BY DEF LedgerInv, LinesTell
    <3>2. CASE ~ ldLines[day].answered
      BY <1>6, <3>1, <3>2 DEF LineTells
    <3>3. CASE ldLines[day].answered
      <4>1. day <= ldDay /\ (day = ldDay => ldSaid)
        BY <3>1, <3>3 DEF LineTells
      <4>2. row.day = day => row.after
        BY <1>1, <4>1
      <4>3. Early(ldRows', day) = Early(ldRows, day)
        <5>1. \A k \in 1 .. N + 1 : k \in Early(ldRows', day) <=> k \in Early(ldRows, day)
          <6> SUFFICES ASSUME NEW k \in 1 .. N + 1
                       PROVE  k \in Early(ldRows', day) <=> k \in Early(ldRows, day)
            OBVIOUS
          <6>1. CASE k \in 1 .. N
            BY <1>3, <1>4, <6>1 DEF Early
          <6>2. CASE k = N + 1
            <7>1. k \notin Early(ldRows, day)
              BY <1>4, <6>2 DEF Early
            <7>2. k \notin Early(ldRows', day)
              BY <1>3, <4>2, <6>2 DEF Early
            <7> QED  BY <7>1, <7>2
          <6> QED  BY <1>5, <6>1, <6>2
        <5>2. Early(ldRows', day) \subseteq 1 .. N + 1 /\ Early(ldRows, day) \subseteq 1 .. N + 1
          BY <1>3, <1>4 DEF Early
        <5> QED  BY <5>1, <5>2
      <4>4. NetTotal(ldRows', Early(ldRows', day)) = NetTotal(ldRows, Early(ldRows, day))
        <5>1. Early(ldRows, day) \subseteq DOMAIN ldRows
          BY DEF Early
        <5> QED  BY <1>3, <4>3, <5>1
      <4> QED  BY <1>6, <3>1, <3>3, <4>1, <4>3, <4>4 DEF LineTells
    <3> QED  BY <3>2, <3>3
  <2> QED  BY <2>1 DEF LinesTell
<1>10. DigestsTell'
  <2>1. ASSUME NEW d \in DOMAIN ldDigests
        PROVE  Tells(ldRows', ldDigests[d])
    <3> DEFINE e == ldDigests[d].end
    <3>1. e <= ldDay /\ (e = ldDay => ldSent) /\ e \in Nat /\ ldDay \in Nat
      <4>1. ldDay \in 1 .. LastLedgerDay /\ LedgerTypes
        BY DEF LedgerInv, LedgerTypes
      <4> QED  BY <4>1, DigestFacts, LedgerConstants DEF LedgerInv, DigestsTell
    <3>2. Tells(ldRows, ldDigests[d])
      BY DEF LedgerInv, DigestsTell
    <3> HIDE DEF e
    <3>3. ~ (InWeek(row.day, e) /\ ~ row.late)
      BY <1>1, <3>1 DEF InWeek
    <3>4. \A k \in 1 .. N + 1 : k \in InTime(ldRows', e) <=> k \in InTime(ldRows, e)
      <4> SUFFICES ASSUME NEW k \in 1 .. N + 1
                   PROVE  k \in InTime(ldRows', e) <=> k \in InTime(ldRows, e)
        OBVIOUS
      <4>1. CASE k \in 1 .. N
        BY <1>3, <1>4, <4>1 DEF InTime
      <4>2. CASE k = N + 1
        <5>1. k \notin InTime(ldRows, e)
          BY <1>4, <4>2 DEF InTime
        <5>2. k \notin InTime(ldRows', e)
          BY <1>3, <3>3, <4>2 DEF InTime
        <5> QED  BY <5>1, <5>2
      <4> QED  BY <1>5, <4>1, <4>2
    <3>5. InTime(ldRows', e) \subseteq 1 .. N + 1 /\ InTime(ldRows, e) \subseteq 1 .. N + 1
      BY <1>3, <1>4 DEF InTime
    <3>6. InTime(ldRows', e) = InTime(ldRows, e)
      BY <3>4, <3>5
    <3>7. ldDigests[d].told \subseteq DOMAIN ldRows
      BY <3>2 DEF Tells, Selected, InTime
    <3>8. NetTotal(ldRows', ldDigests[d].told) = NetTotal(ldRows, ldDigests[d].told)
      BY <1>3, <3>7
    <3> QED  BY <3>2, <3>6, <3>8 DEF Tells, e
  <2>2. \A d \in DOMAIN ldDigests :
          /\ Friday(ldDigests[d].end) /\ 1 <= ldDigests[d].end /\ ldDigests[d].end <= ldDay
          /\ ldDigests[d].end = ldDay => ldSent
    BY DEF LedgerInv, DigestsTell
  <2>3. \A c, d \in DOMAIN ldDigests : c < d => ldDigests[c].end < ldDigests[d].end
    BY DEF LedgerInv, DigestsTell
  <2> QED  BY <1>6, <2>1, <2>2, <2>3 DEF DigestsTell
<1> QED  BY <1>7, <1>8, <1>9, <1>10 DEF LedgerInv

(* The ids of a table are finitely many numbers. *)
LEMMA IdsAreFew ==
  ASSUME NEW rows \in Tables, NEW ids, ids \subseteq DOMAIN rows
  PROVE  IsFiniteSet(ids) /\ ids \subseteq Nat /\ Cardinality(ids) \in Nat
<1>1. Len(rows) \in Nat /\ DOMAIN rows = 1 .. Len(rows)
  BY TableRows
<1> HIDE DEF Tables
<1>2. IsFiniteSet(1 .. Len(rows)) /\ ids \subseteq 1 .. Len(rows)
  BY <1>1, FS_Interval
<1> QED  BY <1>1, <1>2, FS_Subset, FS_CardinalityType

LEMMA EveningKeeps ==
  ASSUME LedgerInv, EveningLine
  PROVE  LedgerInv'
<1>1. PICK answered \in BOOLEAN :
        ldLines' = [ldLines EXCEPT ![ldDay] = [answered |-> answered,
                                               pnl |-> DayStats(ldDay, answered).pnl,
                                               trades |-> DayStats(ldDay, answered).trades]]
  BY DEF EveningLine
<1> DEFINE ids == Selected(LiveOfDay(ldRows, ldDay), answered)
           line == [answered |-> answered, pnl |-> NetTotal(ldRows, ids), trades |-> Cardinality(ids)]
<1>2. ldLines' = [ldLines EXCEPT ![ldDay] = line]
  BY <1>1 DEF DayStats
<1>3. /\ ~ ldSaid /\ ldSaid' = TRUE /\ ldDay' = ldDay /\ ldRows' = ldRows /\ ldSent' = ldSent
      /\ ldDigests' = ldDigests
  BY DEF EveningLine
<1>4. /\ ldRows \in Tables /\ ldDay \in 1 .. LastLedgerDay
      /\ ldLines \in [1 .. LastLedgerDay -> LineRecords]
  BY DEF LedgerInv, LedgerTypes
<1>5. ids \subseteq DOMAIN ldRows
  BY DEF Selected, LiveOfDay
<1> HIDE DEF ids
<1>6. line \in LineRecords
  BY <1>4, <1>5, TotalIsNumber, IdsAreFew DEF LineRecords
<1>7. LiveOfDay(ldRows, ldDay) = Early(ldRows, ldDay)
  BY <1>3 DEF LiveOfDay, Early, LedgerInv, RowsOfDays
<1>8. LedgerTypes'
  <2>1. ldLines' \in [1 .. LastLedgerDay -> LineRecords]
    <3> HIDE DEF line
    <3> QED  BY <1>2, <1>4, <1>6
  <2> QED  BY <1>3, <2>1 DEF LedgerInv, LedgerTypes
<1>9. RowsOfDays'
  BY <1>3 DEF LedgerInv, RowsOfDays, Friday
<1>10. LinesTell'
  <2>1. ASSUME NEW day \in 1 .. LastLedgerDay PROVE LineTells(ldRows, day)'
    <3>1. LineTells(ldRows, day)
      BY DEF LedgerInv, LinesTell
    <3>2. CASE day # ldDay
      <4>1. ldLines'[day] = ldLines[day]
        BY <1>2, <1>4, <3>2
      <4> QED  BY <1>3, <3>1, <3>2, <4>1 DEF LineTells
    <3>3. CASE day = ldDay
      <4>1. ldLines'[day] = line
        BY <1>2, <1>4, <3>3
      <4>2. /\ ldLines'[day].answered = answered /\ ldLines'[day].pnl = NetTotal(ldRows, ids)
            /\ ldLines'[day].trades = Cardinality(ids)
        BY <4>1
      <4>3. CASE answered
        <5>1. ids = Early(ldRows, day)
          BY <1>7, <3>3, <4>3 DEF ids, Selected
        <5>2. ldDay' = ldDay /\ ldSaid' /\ ldRows' = ldRows /\ day <= ldDay
          BY <1>3, <1>4, <3>3
        <5> QED  BY <4>2, <4>3, <5>1, <5>2 DEF LineTells
      <4>4. CASE ~ answered
        <5>1. ids = {}
          BY <4>4 DEF ids, Selected
        <5>2. NetTotal(ldRows, ids) = 0
          BY <1>4, <5>1, TotalOfNone
        <5>3. Cardinality(ids) = 0
          BY <5>1, FS_EmptySet
        <5> QED  BY <4>2, <4>4, <5>2, <5>3 DEF LineTells
      <4> QED  BY <4>3, <4>4
    <3> QED  BY <3>2, <3>3
  <2> QED  BY <2>1 DEF LinesTell
<1>11. DigestsTell'
  BY <1>3 DEF LedgerInv, DigestsTell
<1> QED  BY <1>8, <1>9, <1>10, <1>11 DEF LedgerInv

LEMMA DigestKeeps ==
  ASSUME LedgerInv, Digest
  PROVE  LedgerInv'
<1>1. PICK answered \in BOOLEAN :
        ldDigests' = Append(ldDigests,
          [end |-> ldDay, answered |-> answered,
           sent |-> WeekStats(ldDay, answered).live.trades + WeekStats(ldDay, answered).dry.trades # 0,
           told |-> Selected(OfWeek(ldRows, ldDay, FALSE), answered),
           total |-> WeekStats(ldDay, answered).live.total,
           trades |-> WeekStats(ldDay, answered).live.trades])
  BY DEF Digest
<1> DEFINE told == Selected(OfWeek(ldRows, ldDay, FALSE), answered)
           paper == Selected(OfWeek(ldRows, ldDay, TRUE), answered)
           sent == Cardinality(told) + Cardinality(paper) # 0
           rec == [end |-> ldDay, answered |-> answered, sent |-> sent, told |-> told,
                   total |-> NetTotal(ldRows, told), trades |-> Cardinality(told)]
           N == Len(ldDigests)
<1>2. /\ WeekStats(ldDay, answered).live.trades = Cardinality(told)
      /\ WeekStats(ldDay, answered).dry.trades = Cardinality(paper)
      /\ WeekStats(ldDay, answered).live.total = NetTotal(ldRows, told)
  BY DEF WeekStats, Stats
<1>3. /\ Friday(ldDay) /\ ldSaid /\ ~ ldSent /\ ldSent' = TRUE /\ ldDay' = ldDay
      /\ ldRows' = ldRows /\ ldSaid' = ldSaid /\ ldLines' = ldLines
  BY DEF Digest, Friday
<1>4. ldDigests' = Append(ldDigests, rec)
  BY <1>1, <1>2
<1>5. /\ ldRows \in Tables /\ ldDay \in 1 .. LastLedgerDay /\ ldDay \in Nat /\ 1 <= ldDay
      /\ N \in Nat /\ DOMAIN ldDigests = 1 .. N
      /\ \A d \in 1 .. N : ldDigests[d].end \in Nat
  <2>1. ldRows \in Tables /\ ldDay \in 1 .. LastLedgerDay /\ LedgerTypes
    BY DEF LedgerInv, LedgerTypes
  <2>2. ldDay \in Nat /\ 1 <= ldDay
    BY <2>1, LedgerConstants
  <2> QED  BY <2>1, <2>2, DigestFacts
<1>6. OfWeek(ldRows, ldDay, FALSE) = InTime(ldRows, ldDay)
  <2>1. ASSUME NEW k \in DOMAIN ldRows, InWeek(ldRows[k].day, ldDay) PROVE ~ ldRows[k].late
    <3> DEFINE day == ldRows[k].day
    <3>1. day \in Nat /\ day <= ldDay /\ ldDay - WeekDays < day
      BY <1>5, <2>1, TableRows DEF InWeek
    <3>2. ldRows[k].late => Friday(day) /\ day # ldDay
      BY <1>3 DEF LedgerInv, RowsOfDays
    <3>3. Friday(day) => day = ldDay
      BY <1>3, <1>5, <3>1, OneFriday
    <3> QED  BY <3>2, <3>3
  <2>2. \A k \in DOMAIN ldRows : ldRows[k].dry \in BOOLEAN
    BY <1>5, TableRows
  <2> QED  BY <2>1, <2>2 DEF OfWeek, InTime
<1>7. told = Selected(InTime(ldRows, ldDay), answered)
  BY <1>6
<1>8. told \subseteq DOMAIN ldRows /\ paper \subseteq DOMAIN ldRows
  BY DEF Selected, OfWeek
<1> HIDE DEF told, paper
<1>9. /\ told \subseteq Nat /\ NetTotal(ldRows, told) \in Int
      /\ IsFiniteSet(told) /\ Cardinality(told) \in Nat /\ Cardinality(paper) \in Nat
  BY <1>5, <1>8, IdsAreFew, TotalIsNumber
<1>10. sent \in BOOLEAN /\ (told # {} => sent)
  <2>1. told # {} => Cardinality(told) # 0
    BY <1>9, FS_EmptySet
  <2> QED  BY <1>9, <2>1
<1> HIDE DEF sent
<1>11. rec \in DigestRecords
  BY <1>5, <1>9, <1>10 DEF DigestRecords
<1>12. /\ rec.end = ldDay /\ rec.answered = answered /\ rec.told = told /\ rec.sent = sent
       /\ rec.total = NetTotal(ldRows, told) /\ rec.trades = Cardinality(told)
  OBVIOUS
<1> HIDE DEF rec
<1>13. Tells(ldRows, rec)
  BY <1>7, <1>10, <1>12 DEF Tells
<1>14. RowsOfDays'
  BY <1>3 DEF LedgerInv, RowsOfDays, Friday
<1>15. LinesTell'
  <2>1. ASSUME NEW day \in 1 .. LastLedgerDay PROVE LineTells(ldRows, day)'
    <3>1. LineTells(ldRows, day)
      BY DEF LedgerInv, LinesTell
    <3> QED  BY <1>3, <3>1 DEF LineTells
  <2> QED  BY <2>1 DEF LinesTell
<1>16. \A d \in 1 .. N : /\ Friday(ldDigests[d].end) /\ 1 <= ldDigests[d].end
                         /\ ldDigests[d].end < ldDay /\ Tells(ldRows, ldDigests[d])
  <2>1. \A d \in 1 .. N : /\ Friday(ldDigests[d].end) /\ 1 <= ldDigests[d].end
                          /\ ldDigests[d].end <= ldDay /\ ldDigests[d].end # ldDay
                          /\ Tells(ldRows, ldDigests[d])
    BY <1>3, <1>5 DEF LedgerInv, DigestsTell
  <2> HIDE DEF N
  <2> QED  BY <1>5, <2>1
<1>17. \A c, d \in 1 .. N : c < d => ldDigests[c].end < ldDigests[d].end
  BY <1>5 DEF LedgerInv, DigestsTell
<1> DEFINE D == DigestRecords
           more == ldDigests'
<1>18. ldDigests \in Seq(D) /\ rec \in D
  BY <1>11 DEF LedgerInv, LedgerTypes
<1> HIDE DEF D
<1>19. /\ more \in Seq(D) /\ DOMAIN more = 1 .. N + 1 /\ more[N + 1] = rec
       /\ \A d \in 1 .. N : more[d] = ldDigests[d]
  BY <1>4, <1>18
<1>20. LedgerTypes'
  BY <1>3, <1>19 DEF LedgerInv, LedgerTypes, D
<1> HIDE DEF N, more
<1>21. \A d \in 1 .. N + 1 : d \in 1 .. N \/ d = N + 1
  BY <1>5
<1>22. ASSUME NEW d \in 1 .. N + 1
       PROVE  /\ Friday(more[d].end) /\ 1 <= more[d].end /\ more[d].end <= ldDay
              /\ Tells(ldRows, more[d])
  <2>1. CASE d = N + 1
    BY <1>3, <1>5, <1>12, <1>13, <1>19, <2>1
  <2>2. CASE d \in 1 .. N
    BY <1>5, <1>16, <1>19, <2>2
  <2> QED  BY <1>21, <2>1, <2>2
<1>23. ASSUME NEW c \in 1 .. N + 1, NEW d \in 1 .. N + 1, c < d PROVE more[c].end < more[d].end
  <2>1. c \in 1 .. N
    BY <1>5, <1>23
  <2>2. CASE d = N + 1
    BY <1>12, <1>16, <1>19, <2>1, <2>2
  <2>3. CASE d \in 1 .. N
    BY <1>17, <1>19, <1>23, <2>1, <2>3
  <2> QED  BY <1>21, <2>2, <2>3
<1>24. DigestsTell'
  <2>1. \A d \in DOMAIN more : /\ Friday(more[d].end) /\ 1 <= more[d].end /\ more[d].end <= ldDay'
                               /\ more[d].end = ldDay' => ldSent'
                               /\ Tells(ldRows', more[d])
    BY <1>3, <1>19, <1>22
  <2>2. \A c, d \in DOMAIN more : c < d => more[c].end < more[d].end
    BY <1>19, <1>23
  <2> QED  BY <2>1, <2>2 DEF DigestsTell, more, Friday
<1> QED  BY <1>14, <1>15, <1>20, <1>24 DEF LedgerInv

LEMMA DayEndKeeps ==
  ASSUME LedgerInv, LedgerDayEnds
  PROVE  LedgerInv'
<1>1. /\ ldDay' = ldDay + 1 /\ ldSaid' = FALSE /\ ldSent' = FALSE /\ ldRows' = ldRows
      /\ ldLines' = ldLines /\ ldDigests' = ldDigests /\ ldDay < LastLedgerDay
  BY DEF LedgerDayEnds
<1>2. /\ ldDay \in Nat /\ 1 <= ldDay /\ ldRows \in Tables /\ LedgerTypes
      /\ \A k \in DOMAIN ldRows : ldRows[k].day \in Nat
      /\ \A d \in DOMAIN ldDigests : ldDigests[d].end \in Nat
  <2>1. ldRows \in Tables /\ ldDay \in 1 .. LastLedgerDay /\ LedgerTypes
    BY DEF LedgerInv, LedgerTypes
  <2>2. ldDay \in Nat /\ 1 <= ldDay
    BY <2>1, LedgerConstants
  <2> QED  BY <2>1, <2>2, DigestFacts, TableRows
<1>3. LedgerTypes'
  <2>1. ldDay + 1 \in 1 .. LastLedgerDay /\ FALSE \in BOOLEAN
    BY <1>1, <1>2, LedgerConstants
  <2>2. /\ ldLines \in [1 .. LastLedgerDay -> LineRecords] /\ ldDigests \in Seq(DigestRecords)
    BY <1>2 DEF LedgerTypes
  <2> QED  BY Zenon, <1>1, <1>2, <2>1, <2>2 DEF LedgerTypes
<1>4. RowsOfDays'
  BY <1>1, <1>2 DEF LedgerInv, RowsOfDays, Friday
<1>5. LinesTell'
  <2>1. ASSUME NEW day \in 1 .. LastLedgerDay PROVE LineTells(ldRows, day)'
    <3>1. LineTells(ldRows, day) /\ day \in Nat
      BY LedgerConstants DEF LedgerInv, LinesTell
    <3> QED  BY <1>1, <1>2, <3>1 DEF LineTells
  <2> QED  BY <2>1 DEF LinesTell
<1>6. DigestsTell'
  <2>1. \A d \in DOMAIN ldDigests :
          /\ Friday(ldDigests[d].end) /\ 1 <= ldDigests[d].end /\ ldDigests[d].end <= ldDay + 1
          /\ ldDigests[d].end # ldDay + 1 /\ Tells(ldRows, ldDigests[d])
    <3>1. \A d \in DOMAIN ldDigests :
            /\ Friday(ldDigests[d].end) /\ 1 <= ldDigests[d].end /\ ldDigests[d].end <= ldDay
            /\ Tells(ldRows, ldDigests[d])
      BY DEF LedgerInv, DigestsTell
    <3> QED  BY <1>2, <3>1
  <2>2. \A c, d \in DOMAIN ldDigests : c < d => ldDigests[c].end < ldDigests[d].end
    BY DEF LedgerInv, DigestsTell
  <2> QED  BY <1>1, <2>1, <2>2 DEF DigestsTell, Friday
<1> QED  BY <1>3, <1>4, <1>5, <1>6 DEF LedgerInv

LEMMA LedgerInvHolds == LdSpec => []LedgerInv
<1>1. LdInit => LedgerInv
  <2> SUFFICES ASSUME LdInit PROVE LedgerInv
    OBVIOUS
  <2> DEFINE silent == [answered |-> FALSE, pnl |-> 0, trades |-> 0]
  <2>1. <<>> \in Tables /\ <<>> \in Seq(DigestRecords) /\ DOMAIN <<>> = {}
    BY DEF Tables
  <2>2. /\ ldDay = 1 /\ ldRows = <<>> /\ ldSaid = FALSE /\ ldSent = FALSE /\ ldDigests = <<>>
        /\ ldLines = [day \in 1 .. LastLedgerDay |-> silent]
    BY DEF LdInit
  <2>3. silent \in LineRecords
    BY DEF LineRecords
  <2>4. ~ silent.answered /\ silent.pnl = 0 /\ silent.trades = 0
    OBVIOUS
  <2> HIDE DEF silent
  <2>5. LinesTell
    <3>1. \A day \in 1 .. LastLedgerDay : ldLines[day] = silent
      BY <2>2
    <3> QED  BY <2>4, <3>1 DEF LinesTell, LineTells
  <2>6. LedgerTypes
    <3>1. 1 \in 1 .. LastLedgerDay
      BY LedgerConstants
    <3>2. ldLines \in [1 .. LastLedgerDay -> LineRecords]
      BY <2>2, <2>3
    <3> QED  BY <2>1, <2>2, <3>1, <3>2 DEF LedgerTypes
  <2>7. RowsOfDays /\ DigestsTell
    BY <2>1, <2>2 DEF RowsOfDays, DigestsTell
  <2> QED  BY <2>5, <2>6, <2>7 DEF LedgerInv
<1>2. ASSUME LedgerInv, [LdNext]_ldVars PROVE LedgerInv'
  <2>1. CASE OneRowMore /\ UNCHANGED <<ldDay, ldTold>>
    BY <1>2, <2>1, RowKeeps
  <2>2. CASE Digest
    BY <1>2, <2>2, DigestKeeps
  <2>3. CASE LedgerDayEnds
    BY <1>2, <2>3, DayEndKeeps
  <2>4. CASE EveningLine
    BY <1>2, <2>4, EveningKeeps
  <2>5. CASE UNCHANGED <<ldDay, ldRows, ldTold>>
    <3>1. /\ ldDay' = ldDay /\ ldRows' = ldRows /\ ldSaid' = ldSaid /\ ldSent' = ldSent
          /\ ldLines' = ldLines /\ ldDigests' = ldDigests
      BY <2>5 DEF ldTold
    <3>2. LedgerTypes' /\ RowsOfDays' /\ DigestsTell'
      BY <1>2, <3>1 DEF LedgerInv, LedgerTypes, RowsOfDays, DigestsTell
    <3>3. LinesTell'
      BY <1>2, <3>1 DEF LedgerInv, LinesTell, LineTells
    <3> QED  BY <3>2, <3>3 DEF LedgerInv
  <2>6. CASE UNCHANGED ldVars
    BY <2>5, <2>6 DEF ldVars, ldTold
  <2>7. CASE LdNext
    <3>1. UNCHANGED ldRows \/ (OneRowMore /\ UNCHANGED <<ldDay, ldTold>>)
      BY <1>2, <2>7, RowsGrow DEF LedgerInv
    <3>2. CASE UNCHANGED ldRows
      <4>1. EveningLine \/ Digest \/ LedgerDayEnds \/ UNCHANGED <<ldDay, ldRows, ldTold>>
        BY <2>7, <3>2 DEF LdNext, OldRecord, LogTrade, Connect
      <4> QED  BY <2>2, <2>3, <2>4, <2>5, <4>1
    <3> QED  BY <2>1, <3>1, <3>2
  <2> QED  BY <1>2, <2>6, <2>7
<1> QED  BY <1>1, <1>2, PTL DEF LdSpec

-----------------------------------------------------------------------------
(* Sets that a table's rows are parted into add up. *)
LEMMA PartsTotal ==
  ASSUME NEW rows \in Tables, NEW M \in Nat, NEW parts, NEW upto, Parting(M, parts, upto),
         NEW f, f = [i \in 1 .. M |-> NetTotal(rows, parts[i])]
  PROVE  Added(f) = NetTotal(rows, upto[M])
<1> DEFINE N == Len(rows)
           v == Nets(rows)
<1>1. /\ N \in Nat /\ v \in [1 .. N -> Int]
      /\ \A ids : NetTotal(rows, ids) = TotalAt(v, ids)
  BY NetTotalIs
<1>2. f \in [1 .. M -> Int]
  BY TotalIsNumber
<1> HIDE DEF N, v
<1>3. f = [i \in 1 .. M |-> TotalAt(v, parts[i])]
  BY <1>1
<1>4. Added(f) = PartialSums(f)[M]
  BY <1>2, AddedIs
<1>5. PartialSums(f)[M] = TotalAt(v, upto[M])
  BY <1>1, <1>3, PartsAddUp
<1> QED  BY <1>1, <1>4, <1>5

LEMMA CountsTotal ==
  ASSUME NEW N \in Nat, NEW M \in Nat, NEW parts, NEW upto, Parting(M, parts, upto),
         \A i \in 0 .. M : upto[i] \subseteq 1 .. N, \A i \in 1 .. M : parts[i] \subseteq 1 .. N,
         NEW f, f = [i \in 1 .. M |-> Cardinality(parts[i])]
  PROVE  Added(f) = Cardinality(upto[M])
<1>1. IsFiniteSet(1 .. N)
  BY FS_Interval
<1>2. f \in [1 .. M -> Int]
  <2>1. \A i \in 1 .. M : Cardinality(parts[i]) \in Nat
    BY <1>1, FS_Subset, FS_CardinalityType
  <2> QED  BY <2>1
<1>3. Added(f) = PartialSums(f)[M]
  BY <1>2, AddedIs
<1>4. PartialSums(f)[M] = Cardinality(upto[M])
  BY <1>1, PartsCount
<1> QED  BY <1>3, <1>4

(* The days of a week part the rows its digest told of. *)
LEMMA DaysAddUp == LedgerInv => DaysMakeTheWeek
<1> SUFFICES ASSUME LedgerInv, NEW n \in DOMAIN ldDigests, ldDigests[n].answered,
                    Heard(ldDigests[n].told)
             PROVE  /\ Added([i \in 1 .. WeekDays |-> ldLines[ldDigests[n].end - WeekDays + i].pnl])
                         = ldDigests[n].total
                    /\ Added([i \in 1 .. WeekDays |-> ldLines[ldDigests[n].end - WeekDays + i].trades])
                         = ldDigests[n].trades
  BY DEF DaysMakeTheWeek
<1> DEFINE W == WeekDays
           rows == ldRows
           N == Len(rows)
           d == ldDigests[n]
           base == d.end - W
           parts == [i \in 1 .. W |-> {k \in d.told : rows[k].day = base + i}]
           upto == [i \in 0 .. W |-> {k \in d.told : base < rows[k].day /\ rows[k].day <= base + i}]
           pnls == [i \in 1 .. W |-> ldLines[base + i].pnl]
           counts == [i \in 1 .. W |-> ldLines[base + i].trades]
<1>1. /\ W \in Nat /\ rows \in Tables /\ d.end \in Nat /\ ldDay \in 1 .. LastLedgerDay
      /\ LastLedgerDay \in Nat /\ 1 <= d.end /\ d.end <= ldDay /\ Friday(d.end)
      /\ Tells(rows, d)
  <2>1. rows \in Tables /\ ldDay \in 1 .. LastLedgerDay
    BY DEF LedgerInv, LedgerTypes
  <2>2. d.end \in Nat
    BY DigestFacts DEF LedgerInv
  <2>3. 1 <= d.end /\ d.end <= ldDay /\ Friday(d.end) /\ Tells(rows, d)
    BY DEF LedgerInv, DigestsTell
  <2> QED  BY <2>1, <2>2, <2>3, LedgerConstants
<1>2. /\ N \in Nat /\ DOMAIN rows = 1 .. N
      /\ \A k \in 1 .. N : rows[k].day \in Nat /\ rows[k].dry \in BOOLEAN
  BY <1>1, TableRows
<1>3. /\ d.told = InTime(rows, d.end) /\ d.total = NetTotal(rows, d.told)
      /\ d.trades = Cardinality(d.told)
  BY <1>1 DEF Tells, Selected
<1>4. base \in Nat /\ base + W = d.end
  <2> DEFINE e == d.end
  <2>1. e \in Nat /\ Friday(e) /\ 1 <= e /\ W \in Nat /\ W >= 1
    BY <1>1, LedgerConstants
  <2>2. 0 \in Nat /\ Friday(0)
    BY LedgerConstants DEF Friday
  <2>3. e - W < 0 => e = 0
    <3> HIDE DEF e
    <3> QED  BY <2>1, <2>2, OneFriday
  <2> HIDE DEF e, W
  <2>4. e - W \in Nat /\ e - W + W = e
    BY <2>1, <2>3
  <2> QED  BY <2>4 DEF e
<1>5. /\ d.told \subseteq 1 .. N
      /\ \A k \in d.told : base < rows[k].day /\ rows[k].day <= base + W /\ ~ rows[k].dry
  BY <1>2, <1>3, <1>4 DEF InTime, InWeek
<1>6. ASSUME NEW i \in 1 .. W
      PROVE  ldLines[base + i].pnl = NetTotal(rows, parts[i])
             /\ ldLines[base + i].trades = Cardinality(parts[i])
  <2> DEFINE day == base + i
             part == parts[i]
  <2>1. day \in 1 .. LastLedgerDay /\ day <= d.end /\ d.end - W < day
    BY <1>1, <1>4
  <2>2. part = {k \in d.told : rows[k].day = day}
    OBVIOUS
  <2>3. LineTells(rows, day)
    BY <2>1 DEF LedgerInv, LinesTell
  <2>4. \A k \in part : ldLines[day].answered /\ ~ rows[k].after
    BY <2>2 DEF Heard
  <2> HIDE DEF day, part
  <2>5. CASE ldLines[day].answered
    <3>1. ASSUME NEW k \in 1 .. N PROVE k \in Early(rows, day) <=> k \in part
      <4>1. k \in Early(rows, day) => k \in part
        <5> SUFFICES ASSUME k \in Early(rows, day) PROVE k \in part
          OBVIOUS
        <5>1. ~ rows[k].dry /\ rows[k].day = day /\ ~ rows[k].after /\ k \in DOMAIN rows
          BY DEF Early
        <5>2. ~ rows[k].late
          BY <5>1 DEF LedgerInv, RowsOfDays
        <5>3. InWeek(rows[k].day, d.end)
          BY <2>1, <5>1 DEF InWeek
        <5>4. k \in d.told
          BY <1>3, <5>1, <5>2, <5>3 DEF InTime
        <5> QED  BY <2>2, <5>1, <5>4
      <4>2. k \in part => k \in Early(rows, day)
        BY <1>2, <1>5, <2>2, <2>4 DEF Early
      <4> QED  BY <4>1, <4>2
    <3>2. Early(rows, day) \subseteq 1 .. N /\ part \subseteq 1 .. N
      BY <1>2, <1>5, <2>2 DEF Early
    <3>3. Early(rows, day) = part
      BY <3>1, <3>2
    <3>4. /\ ldLines[day].pnl = NetTotal(rows, part) /\ ldLines[day].trades = Cardinality(part)
      BY <2>3, <2>5, <3>3 DEF LineTells
    <3> QED  BY <3>4 DEF day, part
  <2>6. CASE ~ ldLines[day].answered
    <3>1. part = {}
      BY <2>4, <2>6
    <3>2. NetTotal(rows, part) = 0
      BY <1>1, <3>1, TotalOfNone
    <3>3. Cardinality(part) = 0
      BY <3>1, FS_EmptySet
    <3>4. ldLines[day].pnl = 0 /\ ldLines[day].trades = 0
      BY <2>3, <2>6 DEF LineTells
    <3> QED  BY <3>2, <3>3, <3>4 DEF day, part
  <2> QED  BY <2>5, <2>6
<1>7. /\ pnls = [i \in 1 .. W |-> NetTotal(rows, parts[i])]
      /\ counts = [i \in 1 .. W |-> Cardinality(parts[i])]
  <2> HIDE DEF parts, W, base
  <2> QED  BY <1>6
<1>8. upto[W] = d.told
  <2>1. W \in 0 .. W
    BY <1>1
  <2>2. upto[W] = {k \in d.told : base < rows[k].day /\ rows[k].day <= base + W}
    BY <2>1
  <2> HIDE DEF upto, base, W
  <2> QED  BY <1>5, <2>2
<1>9. \A i \in 1 .. W : parts[i] = {k \in d.told : rows[k].day = base + i}
  OBVIOUS
<1>10. Parting(W, parts, upto)
  <2> DEFINE told == d.told
  <2>1. told \subseteq 1 .. N /\ \A k \in told : rows[k].day \in Nat
    BY <1>2, <1>5
  <2> HIDE DEF W, rows, N, parts, base, told
  <2>2. upto[0] = {}
    <3>1. 0 \in 0 .. W /\ \A k \in told : ~ (base < rows[k].day /\ rows[k].day <= base + 0)
      BY <1>1, <1>4, <2>1
    <3> QED  BY <3>1 DEF told
  <2>3. ASSUME NEW i \in 1 .. W
        PROVE  upto[i] = upto[i - 1] \cup parts[i] /\ upto[i - 1] \cap parts[i] = {}
    <3>1. i \in 0 .. W /\ i - 1 \in 0 .. W /\ i \in Int
      BY <1>1
    <3>2. /\ upto[i] = {k \in told : base < rows[k].day /\ rows[k].day <= base + i}
          /\ upto[i - 1] = {k \in told : base < rows[k].day /\ rows[k].day <= base + (i - 1)}
          /\ parts[i] = {k \in told : rows[k].day = base + i}
      BY <1>9, <3>1 DEF told
    <3> HIDE DEF upto
    <3>3. \A k \in told : /\ k \in upto[i] <=> k \in upto[i - 1] \/ k \in parts[i]
                          /\ ~ (k \in upto[i - 1] /\ k \in parts[i])
      <4> SUFFICES ASSUME NEW k \in told
                   PROVE  /\ k \in upto[i] <=> k \in upto[i - 1] \/ k \in parts[i]
                          /\ ~ (k \in upto[i - 1] /\ k \in parts[i])
        OBVIOUS
      <4> DEFINE x == rows[k].day
      <4>1. x \in Int /\ base \in Int
        BY <1>4, <2>1
      <4>2. /\ k \in upto[i] <=> base < x /\ x <= base + i
            /\ k \in upto[i - 1] <=> base < x /\ x <= base + (i - 1)
            /\ k \in parts[i] <=> x = base + i
        BY <3>2
      <4> HIDE DEF x
      <4>3. (x <= base + i <=> x <= base + (i - 1) \/ x = base + i) /\ (x = base + i => base < x)
            /\ ~ (x <= base + (i - 1) /\ x = base + i)
        BY <3>1, <4>1
      <4> QED  BY <4>2, <4>3
    <3>4. upto[i] \subseteq told /\ upto[i - 1] \subseteq told /\ parts[i] \subseteq told
      BY <3>2
    <3> QED  BY <3>3, <3>4
  <2> HIDE DEF upto
  <2> QED  BY <2>2, <2>3 DEF Parting
<1>11. /\ \A i \in 0 .. W : upto[i] \subseteq 1 .. N
       /\ \A i \in 1 .. W : parts[i] \subseteq 1 .. N
  <2>1. (\A i \in 0 .. W : upto[i] \subseteq d.told) /\ (\A i \in 1 .. W : parts[i] \subseteq d.told)
    OBVIOUS
  <2> HIDE DEF upto, parts
  <2> QED  BY <1>5, <2>1
<1> HIDE DEF W, rows, N, d, base, parts, upto, pnls, counts
<1>12. Added(pnls) = NetTotal(rows, upto[W])
  BY <1>1, <1>7, <1>10, PartsTotal
<1>13. Added(counts) = Cardinality(upto[W])
  BY <1>1, <1>2, <1>7, <1>10, <1>11, CountsTotal
<1>14. Added(pnls) = d.total /\ Added(counts) = d.trades
  BY <1>3, <1>8, <1>12, <1>13
<1> QED  BY <1>14 DEF pnls, counts, W, d, base

(* The strategies part the table. *)
LineOf(rows, s) ==
  LET by == [t \in {rows[k].strategy : k \in DOMAIN rows} |-> Stats(rows, OfStrategy(rows, t))]
  IN  IF s \in DOMAIN by THEN by[s].total ELSE 0

LEMMA LinesAddUp ==
  ASSUME NEW rows \in Tables
  PROVE  Added([i \in 1 .. Len(LedgerStrategies) |-> LineOf(rows, LedgerStrategies[i])])
           = NetTotal(rows, DOMAIN rows)
<1> DEFINE M == Len(LedgerStrategies)
           name == LedgerStrategies
           N == Len(rows)
           parts == [i \in 1 .. M |-> OfStrategy(rows, name[i])]
           upto == [i \in 0 .. M |-> {k \in 1 .. N : \E j \in 1 .. i : rows[k].strategy = name[j]}]
           lines == [i \in 1 .. M |-> LineOf(rows, name[i])]
<1>1. /\ M \in Nat /\ DOMAIN name = 1 .. M
      /\ \A i, j \in 1 .. M : name[i] = name[j] => i = j
  BY LedgerConstants
<1>2. /\ N \in Nat /\ DOMAIN rows = 1 .. N
      /\ \A k \in 1 .. N : \E j \in 1 .. M : rows[k].strategy = name[j]
  BY <1>1, TableRows DEF LedgerNames
<1>3. \A i \in 1 .. M : parts[i] = {k \in 1 .. N : rows[k].strategy = name[i]}
  BY <1>2 DEF OfStrategy
<1>4. \A i \in 1 .. M : LineOf(rows, name[i]) = NetTotal(rows, parts[i])
  <2> SUFFICES ASSUME NEW i \in 1 .. M PROVE LineOf(rows, name[i]) = NetTotal(rows, parts[i])
    OBVIOUS
  <2>1. \A t : Stats(rows, OfStrategy(rows, t)).total = NetTotal(rows, OfStrategy(rows, t))
    BY DEF Stats
  <2>2. CASE name[i] \in {rows[k].strategy : k \in DOMAIN rows}
    <3>1. LineOf(rows, name[i]) = Stats(rows, OfStrategy(rows, name[i])).total
      BY <2>2 DEF LineOf
    <3> QED  BY <2>1, <3>1
  <2>3. CASE name[i] \notin {rows[k].strategy : k \in DOMAIN rows}
    <3>1. LineOf(rows, name[i]) = 0
      BY <2>3 DEF LineOf
    <3>2. \A k \in 1 .. N : k \notin parts[i]
      BY <1>2, <1>3, <2>3
    <3> HIDE DEF parts
    <3>3. NetTotal(rows, parts[i]) = 0
      BY <3>2, TotalOfNone
    <3> QED  BY <3>1, <3>3
  <2> QED  BY <2>2, <2>3
<1>5. lines = [i \in 1 .. M |-> NetTotal(rows, parts[i])]
  <2> HIDE DEF parts
  <2> QED  BY <1>4
<1>6. upto[M] = DOMAIN rows
  <2>1. M \in 0 .. M
    BY <1>1
  <2>2. upto[M] = {k \in 1 .. N : \E j \in 1 .. M : rows[k].strategy = name[j]}
    BY <2>1
  <2> QED  BY <1>2, <2>2
<1>7. Parting(M, parts, upto)
  <2> HIDE DEF M, N, parts, name
  <2>1. upto[0] = {}
    <3>1. 0 \in 0 .. M /\ 1 .. 0 = {}
      BY <1>1
    <3> QED  BY <3>1
  <2>2. ASSUME NEW i \in 1 .. M
        PROVE  upto[i] = upto[i - 1] \cup parts[i] /\ upto[i - 1] \cap parts[i] = {}
    <3>1. i \in 0 .. M /\ i - 1 \in 0 .. M /\ i \in 1 .. i /\ i \notin 1 .. i - 1
      BY <1>1
    <3>2. /\ upto[i] = {k \in 1 .. N : \E j \in 1 .. i : rows[k].strategy = name[j]}
          /\ upto[i - 1] = {k \in 1 .. N : \E j \in 1 .. i - 1 : rows[k].strategy = name[j]}
      BY <3>1
    <3> HIDE DEF upto
    <3>3. \A j \in 1 .. i : j \in 1 .. i - 1 \/ j = i
      BY <1>1
    <3>4. \A j \in 1 .. i - 1 : j \in 1 .. i /\ j \in 1 .. M /\ j # i
      BY <1>1
    <3>5. \A j \in 1 .. i - 1 : name[j] # name[i]
      BY <1>1, <3>4
    <3> QED  BY <1>3, <3>1, <3>2, <3>3, <3>4, <3>5
  <2> HIDE DEF upto
  <2> QED  BY <2>1, <2>2 DEF Parting
<1> HIDE DEF M, N, parts, upto, lines
<1>8. Added(lines) = NetTotal(rows, upto[M])
  BY <1>1, <1>5, <1>7, PartsTotal
<1> QED  BY <1>6, <1>8 DEF lines, M

-----------------------------------------------------------------------------
(* The reports account for every trade, for any strategies, results, charges,
   weeks and failures: the digests tile the weeks, the days add up to them, the
   strategies to the total, and no total moves without its row
   (LedgerTellsEveryTrade). *)
THEOREM LedgerHolds == LdSpec => LedgerTellsEveryTrade
<1> DEFINE Follow ==
             /\ LedgerSummary(TRUE)'.total = LinesTotal'
             /\ ldRows' = ldRows => LedgerSummary(TRUE)' = LedgerSummary(TRUE)
             /\ ldRows' # ldRows =>
                  LET row == ldRows'[Len(ldRows')]
                  IN  LedgerSummary(TRUE)'.total - LedgerSummary(TRUE).total
                        = IF row.net = NoNet THEN row.pnl ELSE row.net
<1>1. LedgerInv => DigestsTile /\ DaysMakeTheWeek
  BY TheyTile, DaysAddUp
<1>2. ASSUME LedgerInv, LedgerInv', [LdNext]_ldVars PROVE [Follow]_ldVars
  <2>1. ldRows \in Tables /\ ldRows' \in Tables
    BY <1>2 DEF LedgerInv, LedgerTypes
  <2>2. /\ LedgerSummary(TRUE).total = NetTotal(ldRows, DOMAIN ldRows)
        /\ LedgerSummary(TRUE)'.total = NetTotal(ldRows', DOMAIN ldRows')
    <3>1. \A rows : {k \in DOMAIN rows : TRUE \/ ~ rows[k].dry} = DOMAIN rows
      OBVIOUS
    <3> QED  BY <3>1 DEF LedgerSummary, Stats
  <2>3. LedgerSummary(TRUE)'.total = LinesTotal'
    <3>1. LinesTotal' = Added([i \in 1 .. Len(LedgerStrategies) |-> LineOf(ldRows', LedgerStrategies[i])])
      BY DEF LinesTotal, ByStrategy, LineOf
    <3> QED  BY <2>1, <2>2, <3>1, LinesAddUp
  <2>4. ldRows' = ldRows => LedgerSummary(TRUE)' = LedgerSummary(TRUE)
    BY DEF LedgerSummary
  <2>5. ASSUME LdNext, ldRows' # ldRows
        PROVE  LedgerSummary(TRUE)'.total - LedgerSummary(TRUE).total = NetOfRow(ldRows'[Len(ldRows')])
    <3>1. OneRowMore
      BY <1>2, <2>5, RowsGrow DEF LedgerInv
    <3>2. PICK row \in LedgerRows : ldRows' = Append(ldRows, row)
      BY <3>1 DEF OneRowMore
    <3>3. GrownBy(ldRows, row, ldRows')
      BY <2>1, <3>2, MoreRows
    <3> DEFINE rows == ldRows
               more == ldRows'
    <3>4. /\ Len(more) = Len(rows) + 1 /\ DOMAIN more = 1 .. Len(rows) + 1
          /\ \A k \in 1 .. Len(rows) : more[k] = rows[k]
      BY <3>3 DEF GrownBy
    <3>5. Len(rows) \in Nat /\ DOMAIN rows = 1 .. Len(rows) /\ NetOfRow(more[Len(more)]) \in Int
      <4>1. Len(rows) \in Nat /\ DOMAIN rows = 1 .. Len(rows)
        BY <2>1, TableRows
      <4>2. Len(more) \in 1 .. Len(more)
        BY <3>4, <4>1
      <4>3. more \in Tables
        BY <2>1
      <4> HIDE DEF rows, more
      <4>4. NetOfRow(more[Len(more)]) \in Int
        BY <4>2, <4>3, TableRows
      <4> QED  BY <4>1, <4>4
    <3>6. rows \in Tables /\ more \in Tables
      BY <2>1
    <3> HIDE DEF rows, more
    <3>7. NetTotal(more, DOMAIN more) = NetTotal(rows, DOMAIN rows) + NetOfRow(more[Len(more)])
      <4>1. /\ \A k \in 1 .. Len(rows) : k \in DOMAIN rows <=> k \in DOMAIN more
            /\ Len(rows) + 1 \in DOMAIN more
        BY <3>4, <3>5
      <4> QED  BY <3>4, <3>6, <4>1, TotalWithRow
    <3>8. NetTotal(rows, DOMAIN rows) \in Int
      BY <3>6, TotalIsNumber
    <3> DEFINE before == LedgerSummary(TRUE).total
               after == LedgerSummary(TRUE)'.total
               net == NetOfRow(ldRows'[Len(ldRows')])
    <3>9. before = NetTotal(rows, DOMAIN rows) /\ after = NetTotal(more, DOMAIN more)
      BY <2>2 DEF rows, more
    <3>10. net = NetOfRow(more[Len(more)])
      BY DEF more
    <3>11. net \in Int /\ before \in Int /\ after = before + net
      BY <3>5, <3>7, <3>8, <3>9, <3>10
    <3> HIDE DEF before, after, net
    <3>12. after - before = net
      BY <3>11
    <3> QED  BY <3>12 DEF before, after, net
  <2>6. CASE LdNext
    BY <2>3, <2>4, <2>5, <2>6 DEF NetOfRow
  <2>7. CASE UNCHANGED ldVars
    BY <2>7
  <2> QED  BY <1>2, <2>6, <2>7
<1>3. LdSpec => []LedgerInv
  BY LedgerInvHolds
<1>4. LedgerInv /\ LedgerInv' /\ [LdNext]_ldVars => [Follow]_ldVars
  BY <1>2
<1> QED  BY <1>1, <1>3, <1>4, PTL DEF LdSpec, LedgerTellsEveryTrade, TotalsFollowTheRows

-----------------------------------------------------------------------------
(* The replay of the intraday rule: a bar, and a history of bars.          *)
BarFits(b) ==
  /\ b.open \in Nat /\ b.high \in Nat /\ b.low \in Nat /\ b.close \in Nat
  /\ 1 <= b.low /\ b.low <= b.open /\ b.open <= b.high /\ b.low <= b.close /\ b.close <= b.high
BtShapes == {b \in [open : Nat, high : Nat, low : Nat, close : Nat] : BarFits(b)}
BtDays == Seq(BtShapes)

LEMMA BtConstants ==
  /\ HoldDays \in Nat /\ BtCapital \in Nat /\ BtRisk \in Nat /\ MonthDays \in Nat \ {0}
  /\ \A b \in BtBars : b \in BtShapes
  /\ \A s \in BtSeeds : Len(s) = 7 /\ \A i \in 1 .. 7 : s[i] \in Nat /\ s[i] >= 1
<1>1. HoldDays \in Nat /\ BtCapital \in Nat /\ BtRisk \in Nat /\ MonthDays \in Nat \ {0}
  BY DayBacktestAssumption
<1>2. ASSUME NEW b \in BtBars PROVE b \in BtShapes
  <2>1. b \in [open : Nat, high : Nat, low : Nat \ {0}, close : Nat]
    BY DayBacktestAssumption
  <2>2. {b.open, b.close} \subseteq b.low .. b.high
    BY DayBacktestAssumption
  <2>3. BarFits(b)
    BY <2>1, <2>2 DEF BarFits
  <2>4. b \in [open : Nat, high : Nat, low : Nat, close : Nat]
    BY <2>1
  <2> QED  BY <2>3, <2>4 DEF BtShapes
<1>3. ASSUME NEW s \in BtSeeds PROVE Len(s) = 7 /\ \A i \in 1 .. 7 : s[i] \in Nat /\ s[i] >= 1
  <2> DEFINE P == Nat \ {0}
  <2>1. BtSeeds \subseteq Seq(P) /\ Len(s) = 7
    BY DayBacktestAssumption
  <2>2. \A x \in P : x \in Nat /\ x >= 1
    OBVIOUS
  <2> HIDE DEF P
  <2>3. s \in Seq(P)
    BY <2>1
  <2>4. \A i \in 1 .. Len(s) : s[i] \in P
    BY <2>3
  <2> QED  BY <2>1, <2>2, <2>4
<1> QED  BY <1>1, <1>2, <1>3

LEMMA DaysTyped ==
  ASSUME NEW bars \in BtDays
  PROVE  /\ Len(bars) \in Nat /\ DOMAIN bars = 1 .. Len(bars)
         /\ \A i \in 1 .. Len(bars) : bars[i] \in BtShapes /\ BarFits(bars[i])
<1> DEFINE B == BtShapes
<1>1. bars \in Seq(B)
  BY DEF BtDays
<1>2. \A b \in B : BarFits(b)
  BY DEF BtShapes
<1> HIDE DEF B
<1> QED  BY <1>1, <1>2 DEF B

-----------------------------------------------------------------------------
(* The trade of a day.                                                      *)

(* The furthest target reached. *)
LEMMA BestTarget ==
  ASSUME NEW bar, BarFits(bar), ReachedTargets(bar, TargetsOf(bar)) # {}
  PROVE  LET best == TargetsOf(bar)[Max(ReachedTargets(bar, TargetsOf(bar)))]
         IN  best \in Int /\ 100 * bar.open <= best /\ best <= 100 * bar.high
<1> DEFINE T == TargetsOf(bar)
           S == ReachedTargets(bar, T)
<1>1. bar.open \in Nat /\ bar.high \in Nat
  BY DEF BarFits
<1>2. T[1] = 100 * bar.open + 1000 /\ T[2] = 100 * bar.open + 2000 /\ T[3] = 100 * bar.open + 2500
  BY DEF TargetsOf
<1>3. \A k \in S : k \in {1, 2, 3} /\ 100 * bar.high >= T[k]
  BY DEF ReachedTargets
<1>4. S \subseteq {1, 2, 3} /\ S # {}
  BY <1>3
<1> HIDE DEF T, S
<1>5. \E x \in S : \A y \in S : x >= y
  <2>1. CASE 3 \in S
    BY <1>4, <2>1
  <2>2. CASE 3 \notin S /\ 2 \in S
    BY <1>4, <2>2
  <2>3. CASE 3 \notin S /\ 2 \notin S
    <3>1. \A x \in S : x = 1
      BY <1>4, <2>3
    <3>2. PICK x \in S : x = 1
      BY <1>4, <3>1
    <3>3. \A y \in S : x >= y
      BY <3>1, <3>2
    <3> QED  BY <3>2, <3>3
  <2> QED  BY <2>1, <2>2, <2>3
<1>6. Max(S) \in S
  BY <1>5 DEF Max
<1>7. T[Max(S)] \in Int /\ 100 * bar.open <= T[Max(S)] /\ T[Max(S)] <= 100 * bar.high
  <2> DEFINE m == Max(S)
  <2>1. m \in {1, 2, 3} /\ 100 * bar.high >= T[m]
    BY <1>3, <1>6
  <2> HIDE DEF m
  <2>2. T[m] \in Int /\ 100 * bar.open <= T[m]
    BY <1>1, <1>2, <2>1
  <2>3. 100 * bar.high \in Int
    BY <1>1
  <2>4. T[m] <= 100 * bar.high
    BY <2>1, <2>2, <2>3
  <2> QED  BY <2>2, <2>4 DEF m
<1> QED  BY <1>7 DEF T, S

(* The stop is under the entry. *)
LEMMA StopTyped ==
  ASSUME NEW bar, BarFits(bar), BtCapital >= bar.open
  PROVE  /\ SharesFor(bar) \in Nat /\ SharesFor(bar) >= 1
         /\ StopOf(bar) \in Int /\ StopOf(bar) <= 100 * bar.open
<1> DEFINE q == SharesFor(bar)
           x == 200 * BtRisk + q
           d == 2 * q
<1>1. BtCapital \in Nat /\ BtRisk \in Nat /\ bar.open \in Nat /\ bar.open >= 1
  BY BtConstants DEF BarFits
<1>2. q = BtCapital \div bar.open
  BY DEF SharesFor
<1>3. q \in Nat /\ q >= 1
  <2> DEFINE c == BtCapital
             o == bar.open
  <2>1. c \in Nat /\ o \in Nat \ {0} /\ c >= o
    BY <1>1
  <2> HIDE DEF c, o
  <2>2. c \div o \in Int /\ 0 <= c % o /\ c % o < o /\ c % o \in Int /\ c = o * (c \div o) + (c % o)
    BY <2>1, Euclid
  <2>3. c \div o >= 1
    <3> DEFINE k == c \div o
               r == c % o
    <3>1. k \in Int /\ r \in Int /\ r < o /\ c = o * k + r
      BY <2>2
    <3> HIDE DEF k, r
    <3>2. ASSUME k <= 0 PROVE FALSE
      <4>1. o * k <= 0
        <5>1. - k \in Nat
          BY <3>1, <3>2
        <5>2. o * (- k) \in Nat
          BY <2>1, <5>1
        <5>3. o * (- k) = - (o * k)
          BY <2>1, <3>1
        <5>4. o * k \in Int
          BY <2>1, <3>1
        <5> QED  BY <5>2, <5>3, <5>4
      <4>2. o * k \in Int
        BY <2>1, <3>1
      <4> QED  BY <2>1, <3>1, <4>1, <4>2
    <3>3. k >= 1
      BY <3>1, <3>2
    <3> QED  BY <3>3 DEF k
  <2> QED  BY <1>2, <2>2, <2>3 DEF c, o
<1> HIDE DEF q
<1>4. x \in Nat /\ d \in Nat \ {0}
  BY <1>1, <1>3
<1>5. StopOf(bar) = 100 * bar.open - (x \div d)
  BY DEF StopOf, q
<1> HIDE DEF x, d
<1>6. x \div d \in Nat
  BY <1>4
<1> DEFINE e == x \div d
<1> HIDE DEF e
<1>7. e \in Nat /\ StopOf(bar) = 100 * bar.open - e
  BY <1>5, <1>6 DEF e
<1> QED  BY <1>1, <1>3, <1>7 DEF q

(* An exit is a price; one of the day is a price of the day. *)
Priced(bar, done) ==
  /\ done.exit \in Int
  /\ done.outcome \in {"target", "stop", "square_off"} =>
       100 * bar.low <= done.exit /\ done.exit <= 100 * bar.high

LEMMA DayPriced ==
  ASSUME NEW bars \in BtDays, NEW i \in 1 .. Len(bars), BtCapital >= bars[i].open
  PROVE  Priced(bars[i], SimulateDay(bars, i, StopOf(bars[i]), TargetsOf(bars[i])))
<1> DEFINE bar == bars[i]
           sl == StopOf(bar)
           T == TargetsOf(bar)
           entry == 100 * bar.open
           close == 100 * bar.close
           reached == ReachedTargets(bar, T)
           stopped == 100 * bar.low <= sl
           best == T[Max(reached)]
           done == SimulateDay(bars, i, sl, T)
           late == 100 * bars[HeldUntil(i, Len(bars))].close
<1>1. /\ Len(bars) \in Nat /\ BarFits(bar)
      /\ \A j \in 1 .. Len(bars) : BarFits(bars[j])
  BY DaysTyped
<1>2. sl \in Int /\ sl <= entry
  BY <1>1, StopTyped
<1>3. reached # {} => best \in Int /\ entry <= best /\ best <= 100 * bar.high
  BY <1>1, BestTarget
<1>4. HeldUntil(i, Len(bars)) \in 1 .. Len(bars)
  BY <1>1, BtConstants DEF HeldUntil
<1>5. late \in Int
  <2> DEFINE h == HeldUntil(i, Len(bars))
  <2>1. bars[h].close \in Nat
    BY <1>1, <1>4 DEF BarFits
  <2> HIDE DEF h
  <2> QED  BY <2>1 DEF h
<1>6. /\ entry \in Int /\ close \in Int /\ 100 * bar.low \in Int /\ 100 * bar.high \in Int
      /\ 100 * bar.low <= entry /\ entry <= 100 * bar.high
      /\ 100 * bar.low <= close /\ close <= 100 * bar.high
  <2> DEFINE o == bar.open
             c == bar.close
             l == bar.low
             h == bar.high
  <2>1. /\ o \in Nat /\ c \in Nat /\ l \in Nat /\ h \in Nat
        /\ l <= o /\ o <= h /\ l <= c /\ c <= h
    BY <1>1 DEF BarFits
  <2> HIDE DEF o, c, l, h
  <2>2. /\ 100 * o \in Int /\ 100 * c \in Int /\ 100 * l \in Int /\ 100 * h \in Int
        /\ 100 * l <= 100 * o /\ 100 * o <= 100 * h /\ 100 * l <= 100 * c /\ 100 * c <= 100 * h
    BY <2>1
  <2> QED  BY <2>2 DEF o, c, l, h
<1>7. done = IF reached # {} /\ (stopped => best - entry < entry - sl)
             THEN [outcome |-> "target", exit |-> best]
             ELSE IF stopped THEN [outcome |-> "stop", exit |-> sl]
             ELSE IF close >= entry - Drastic THEN [outcome |-> "square_off", exit |-> close]
             ELSE IF ComesBack(bars, i) THEN [outcome |-> "nplp_recovered", exit |-> entry]
             ELSE [outcome |-> "overnight_loss", exit |-> late]
  BY DEF SimulateDay
<1> DEFINE low == 100 * bar.low
           high == 100 * bar.high
<1>8. /\ done \in {[outcome |-> "target", exit |-> best], [outcome |-> "stop", exit |-> sl],
                   [outcome |-> "square_off", exit |-> close],
                   [outcome |-> "nplp_recovered", exit |-> entry],
                   [outcome |-> "overnight_loss", exit |-> late]}
      /\ done.outcome = "target" => reached # {} /\ done.exit = best
      /\ done.outcome = "stop" => stopped /\ done.exit = sl
      /\ done.outcome = "square_off" => done.exit = close
      /\ done = [outcome |-> "target", exit |-> best] => reached # {}
  <2> HIDE DEF reached, stopped, best, sl, entry, close, late, done
  <2> QED  BY <1>7
<1> HIDE DEF done, reached, best, sl, entry, close, late
<1>9. done.exit \in Int
  BY <1>2, <1>3, <1>5, <1>6, <1>8
<1>10. ASSUME done.outcome \in {"target", "stop", "square_off"}
       PROVE  low <= done.exit /\ done.exit <= high
  <2>0. low \in Int /\ high \in Int /\ low <= entry /\ entry <= high /\ low <= close /\ close <= high
        /\ entry \in Int /\ close \in Int
    BY <1>6
  <2>1. CASE done.outcome = "target"
    <3>1. done.exit = best /\ best \in Int /\ entry <= best /\ best <= high
      BY <1>3, <1>8, <2>1
    <3> HIDE DEF low, high
    <3> QED  BY <2>0, <3>1
  <2>2. CASE done.outcome = "stop"
    <3>1. done.exit = sl /\ low <= sl /\ sl <= entry /\ sl \in Int
      BY <1>2, <1>8, <2>2
    <3> HIDE DEF low, high
    <3> QED  BY <2>0, <3>1
  <2>3. CASE done.outcome = "square_off"
    <3>1. done.exit = close
      BY <1>8, <2>3
    <3> HIDE DEF low, high
    <3> QED  BY <2>0, <3>1
  <2> QED  BY <1>10, <2>1, <2>2, <2>3
<1>11. Priced(bar, done)
  BY <1>9, <1>10 DEF Priced
<1> QED  BY <1>11 DEF done, sl


(* A trade: its day, and what the report reads of it. *)
TradeTyped(t, bars, n) ==
  /\ t.day \in 8 .. n /\ t.pnl \in Int /\ t.exit \in Int
  /\ t.trend \in {"Upward", "Downward", "Choppy"}
  /\ t.reason \in {"mean_reversion", "trend_entry"}
  /\ t.outcome \in {"target", "stop", "square_off"} =>
       100 * bars[t.day].low <= t.exit /\ t.exit <= 100 * bars[t.day].high

LEMMA TrendIsKnown ==
  ASSUME NEW bars \in BtDays, NEW i \in 8 .. Len(bars)
  PROVE  Trend(KnownCloses(bars, i)) \in {"Upward", "Downward", "Choppy"}
<1> DEFINE c == KnownCloses(bars, i)
           d == LastSeven(c)
<1>1. Len(bars) \in Nat /\ \A k \in 1 .. Len(bars) : bars[k].close \in Nat
  BY DaysTyped DEF BarFits
<1>2. c \in [1 .. i - 1 -> Nat]
  <2>1. \A k \in 1 .. i - 1 : k \in 1 .. Len(bars)
    BY <1>1
  <2> QED  BY <1>1, <2>1 DEF KnownCloses
<1>3. c \in Seq(Nat) /\ Len(c) = i - 1 /\ i - 1 \in Nat /\ i - 1 >= 7
  <2> HIDE DEF c
  <2>1. i - 1 \in Nat /\ i - 1 >= 7
    BY <1>1
  <2> QED  BY <1>2, <2>1
<1> HIDE DEF c
<1>4. Len(d) = 7
  <2>1. d = SubSeq(c, IF Len(c) > 7 THEN Len(c) - 6 ELSE 1, Len(c))
    BY DEF LastSeven
  <2>2. CASE Len(c) > 7
    <3>1. d = SubSeq(c, Len(c) - 6, Len(c)) /\ Len(c) \in Nat
      BY <1>3, <2>1, <2>2
    <3> QED  BY <1>3, <2>2, <3>1
  <2>3. CASE Len(c) = 7
    <3>1. d = SubSeq(c, 1, Len(c)) /\ Len(c) \in Nat
      BY <1>3, <2>1, <2>3
    <3> QED  BY <1>3, <2>3, <3>1
  <2> QED  BY <1>3, <2>2, <2>3
<1> HIDE DEF d
<1>5. Trend(c) \in {"Upward", "Downward", "Choppy"}
  <2>1. ~ (Len(LastSeven(c)) < 4)
    BY <1>4 DEF d
  <2> QED  BY <2>1 DEF Trend
<1> QED  BY <1>5 DEF c

LEMMA TradeIsTyped ==
  ASSUME NEW bars \in BtDays, NEW i \in 1 .. Len(bars), TradedDay(bars, i)
  PROVE  TradeTyped(TradeOf(bars, i), bars, Len(bars)) /\ TradeOf(bars, i).day = i
<1> DEFINE t == TradeOf(bars, i)
           done == SimulateDay(bars, i, StopOf(bars[i]), TargetsOf(bars[i]))
           q == SharesFor(bars[i])
           entry == 100 * bars[i].open
           trend == Trend(KnownCloses(bars, i))
           reason == EntryReason(bars, i, TRUE)
           n == Len(bars)
<1>1. n \in Nat /\ i \in 8 .. n /\ BarFits(bars[i]) /\ BtCapital >= bars[i].open /\ reason # "none"
  <2>1. n \in Nat /\ BarFits(bars[i])
    BY DaysTyped
  <2>2. i > 7 /\ BtCapital >= bars[i].open /\ reason # "none"
    BY Zenon DEF TradedDay
  <2>3. i \in 8 .. n
    BY <2>1, <2>2
  <2> QED  BY <2>1, <2>2, <2>3
<1>2. Priced(bars[i], done)
  BY <1>1, DayPriced
<1>3. q \in Nat /\ entry \in Int
  <2>1. q \in Nat
    BY <1>1, StopTyped
  <2>2. bars[i].open \in Nat
    BY <1>1 DEF BarFits
  <2> QED  BY <2>1, <2>2
<1>4. trend \in {"Upward", "Downward", "Choppy"}
  BY <1>1, TrendIsKnown
<1>5. reason \in {"mean_reversion", "trend_entry"}
  BY <1>1 DEF EntryReason
<1>6. t = [day |-> i, trend |-> trend, reason |-> reason, entry |-> entry,
           outcome |-> done.outcome, exit |-> done.exit, pnl |-> (done.exit - entry) * q]
  BY DEF TradeOf
<1> HIDE DEF t, done, q, entry, trend, reason, n
<1>7. /\ t.day = i /\ t.trend = trend /\ t.reason = reason /\ t.exit = done.exit
      /\ t.outcome = done.outcome /\ t.pnl = (done.exit - entry) * q
  BY <1>6
<1>8. t.exit \in Int /\ t.pnl \in Int
  BY <1>2, <1>3, <1>7 DEF Priced
<1>9. t.outcome \in {"target", "stop", "square_off"} =>
        100 * bars[t.day].low <= t.exit /\ t.exit <= 100 * bars[t.day].high
  BY <1>2, <1>7 DEF Priced
<1>10. TradeTyped(t, bars, n)
  BY <1>1, <1>4, <1>5, <1>7, <1>8, <1>9 DEF TradeTyped
<1> QED  BY <1>7, <1>10 DEF t, n

-----------------------------------------------------------------------------
(* The run of the backtest.                                                 *)
DaysTraded(bars) == {d \in 1 .. Len(bars) : TradedDay(bars, d)}
Books(bars) == Seq({TradeOf(bars, d) : d \in DaysTraded(bars)})

LEMMA BtRunsRun ==
  ASSUME NEW bars, Len(bars) \in Nat
  PROVE  /\ BtRuns(bars)[0] = <<>>
         /\ \A i \in 1 .. Len(bars) : BtRuns(bars)[i] = BtTurn(BtRuns(bars)[i - 1], bars, i)
         /\ \A i \in 0 .. Len(bars) : BtRuns(bars)[i] \in Books(bars)
<1> DEFINE N == Len(bars)
           V == Books(bars)
           turn(f, i) == IF i = 0 THEN <<>> ELSE BtTurn(f[i - 1], bars, i)
           run == CHOOSE f : f = [i \in 0 .. N |-> turn(f, i)]
           next == [i \in 1 .. N |-> [v \in V |-> BtTurn(v, bars, i)]]
<1>1. BtRuns(bars) = run
  BY DEF BtRuns
<1>2. <<>> \in V /\ \A i \in 1 .. N : \A v \in V : BtTurn(v, bars, i) \in V
  <2> DEFINE T == {TradeOf(bars, d) : d \in DaysTraded(bars)}
  <2>1. \A i \in 1 .. N : TradedDay(bars, i) => TradeOf(bars, i) \in T
    BY DEF DaysTraded
  <2>2. V = Seq(T)
    BY DEF Books
  <2> HIDE DEF T, V, N
  <2>3. ASSUME NEW i \in 1 .. N, NEW v \in V PROVE BtTurn(v, bars, i) \in V
    <3>1. CASE TradedDay(bars, i)
      <4>1. v \in Seq(T) /\ TradeOf(bars, i) \in T
        BY <2>1, <2>2, <3>1
      <4>2. Append(v, TradeOf(bars, i)) \in Seq(T)
        BY <4>1
      <4> QED  BY <2>2, <3>1, <4>2 DEF BtTurn
    <3>2. CASE ~ TradedDay(bars, i)
      BY <3>2 DEF BtTurn
    <3> QED  BY <3>1, <3>2
  <2>4. <<>> \in Seq(T)
    OBVIOUS
  <2> QED  BY <2>2, <2>3, <2>4
<1>3. N \in Nat
  OBVIOUS
<1> HIDE DEF V, N
<1>4. next \in [1 .. N -> [V -> V]]
  BY <1>2
<1>5. \A i \in 1 .. N : \A v \in V : next[i][v] = BtTurn(v, bars, i)
  OBVIOUS
<1> HIDE DEF next
<1>6. PICK f \in [0 .. N -> V] : f[0] = <<>> /\ \A i \in 1 .. N : f[i] = next[i][f[i - 1]]
  <2> DEFINE start == <<>>
  <2>1. start \in V
    BY <1>2
  <2> HIDE DEF start
  <2>2. HasRun(V, N, start, next)
    BY <1>3, <1>4, <2>1, LoopRuns
  <2> QED  BY <2>2 DEF HasRun, start
<1>7. \A i \in 1 .. N : i - 1 \in 0 .. N /\ f[i] = BtTurn(f[i - 1], bars, i)
  BY <1>3, <1>5, <1>6
<1>8. ASSUME NEW i \in 0 .. N PROVE f[i] = turn(f, i)
  <2>1. CASE i = 0
    BY <1>6, <2>1
  <2>2. CASE i # 0
    <3>1. i \in 1 .. N
      BY <1>3, <2>2
    <3> QED  BY <1>7, <2>2, <3>1
  <2> QED  BY <2>1, <2>2
<1>9. f = [i \in 0 .. N |-> turn(f, i)]
  <2> HIDE DEF turn
  <2> QED  BY <1>6, <1>8
<1>10. run = [i \in 0 .. N |-> turn(run, i)]
  <2> HIDE DEF turn
  <2> QED  BY <1>9
<1> HIDE DEF run
<1>11. run[0] = <<>> /\ \A i \in 1 .. N : run[i] = BtTurn(run[i - 1], bars, i)
  BY <1>3, <1>10
<1> DEFINE T == {i \in 0 .. N : run[i] \in V}
<1>12. 0 \in T
  BY <1>2, <1>3, <1>11
<1>13. ASSUME NEW i \in 1 .. N, i - 1 \in T PROVE i \in T
  <2>1. i \in 0 .. N /\ run[i - 1] \in V
    BY <1>3, <1>13
  <2> QED  BY <1>2, <1>11, <2>1
<1>14. 0 .. N \subseteq T
  <2> HIDE DEF T
  <2> QED  BY <1>3, <1>12, <1>13, UpTo
<1>15. \A i \in 0 .. N : run[i] \in V
  BY <1>14
<1> QED  BY <1>1, <1>11, <1>15 DEF V, N

-----------------------------------------------------------------------------
(* The days that trade, up to day i, each once at least; and each trade is its
   day's. *)
EachDayTraded(trades, bars, i) ==
  /\ \A k \in DOMAIN trades : /\ trades[k].day \in 1 .. i /\ TradedDay(bars, trades[k].day)
                              /\ trades[k] = TradeOf(bars, trades[k].day)
  /\ \A d \in 1 .. i : TradedDay(bars, d) => \E k \in DOMAIN trades : trades[k].day = d

LEMMA DayOfTrade ==
  ASSUME NEW bars, NEW i
  PROVE  TradeOf(bars, i).day = i
BY DEF TradeOf

LEMMA TurnTrades ==
  ASSUME NEW bars, Len(bars) \in Nat, NEW i \in 1 .. Len(bars), NEW trades \in Books(bars),
         EachDayTraded(trades, bars, i - 1)
  PROVE  EachDayTraded(BtTurn(trades, bars, i), bars, i)
<1> DEFINE t == TradeOf(bars, i)
           V == {TradeOf(bars, d) : d \in DaysTraded(bars)}
           m == Len(trades)
           more == Append(trades, t)
<1>1. trades \in Seq(V)
  BY DEF Books
<1>2. \A d \in 1 .. i : d \in 1 .. i - 1 \/ d = i
  OBVIOUS
<1>3. \A d \in 1 .. i - 1 : d \in 1 .. i
  OBVIOUS
<1>4. t.day = i /\ i \in 1 .. i
  BY DayOfTrade
<1>5. CASE ~ TradedDay(bars, i)
  <2>1. BtTurn(trades, bars, i) = trades
    BY <1>5 DEF BtTurn
  <2>2. EachDayTraded(trades, bars, i)
    BY <1>2, <1>3, <1>5 DEF EachDayTraded
  <2> QED  BY <2>1, <2>2
<1>6. CASE TradedDay(bars, i)
  <2>1. BtTurn(trades, bars, i) = more
    BY <1>6 DEF BtTurn
  <2>2. t \in V
    BY <1>6 DEF DaysTraded
  <2> HIDE DEF V, t
  <2>3. /\ m \in Nat /\ DOMAIN trades = 1 .. m /\ DOMAIN more = 1 .. m + 1
        /\ more[m + 1] = t /\ \A k \in 1 .. m : more[k] = trades[k]
    BY <1>1, <2>2
  <2> HIDE DEF m, more
  <2>4. ASSUME NEW k \in 1 .. m + 1
        PROVE  /\ more[k].day \in 1 .. i /\ TradedDay(bars, more[k].day)
               /\ more[k] = TradeOf(bars, more[k].day)
    <3>1. CASE k = m + 1
      BY <1>4, <1>6, <2>3, <3>1 DEF t
    <3>2. CASE k # m + 1
      <4>1. k \in 1 .. m
        BY <2>3, <3>2
      <4> QED  BY <1>3, <2>3, <4>1 DEF EachDayTraded
    <3> QED  BY <3>1, <3>2
  <2>5. ASSUME NEW d \in 1 .. i, TradedDay(bars, d)
        PROVE  \E k \in 1 .. m + 1 : more[k].day = d
    <3>1. CASE d = i
      <4>1. m + 1 \in 1 .. m + 1
        BY <2>3
      <4> QED  BY <1>4, <2>3, <3>1, <4>1
    <3>2. CASE d \in 1 .. i - 1
      <4>1. PICK k \in 1 .. m : trades[k].day = d
        BY <2>3, <2>5, <3>2 DEF EachDayTraded
      <4>2. k \in 1 .. m + 1
        BY <2>3
      <4> QED  BY <2>3, <4>1, <4>2
    <3> QED  BY <1>2, <3>1, <3>2
  <2>6. EachDayTraded(more, bars, i)
    BY <2>3, <2>4, <2>5 DEF EachDayTraded
  <2> QED  BY <2>1, <2>6
<1> QED  BY <1>5, <1>6

LEMMA EachDayIsTraded ==
  ASSUME NEW bars, Len(bars) \in Nat
  PROVE  EachDayTraded(RunBacktest(bars), bars, Len(bars)) /\ RunBacktest(bars) \in Books(bars)
<1> DEFINE N == Len(bars)
           run == BtRuns(bars)
           T == {i \in 0 .. N : EachDayTraded(run[i], bars, i)}
<1>1. /\ run[0] = <<>>
      /\ \A i \in 1 .. N : run[i] = BtTurn(run[i - 1], bars, i)
      /\ \A i \in 0 .. N : run[i] \in Books(bars)
  BY BtRunsRun
<1> HIDE DEF run
<1>2. 0 \in T
  <2>1. DOMAIN <<>> = {} /\ 1 .. 0 = {}
    OBVIOUS
  <2>2. EachDayTraded(<<>>, bars, 0)
    BY <2>1 DEF EachDayTraded
  <2> QED  BY <1>1, <2>2
<1>3. ASSUME NEW i \in 1 .. N, i - 1 \in T PROVE i \in T
  <2>1. i \in 0 .. N /\ i - 1 \in 0 .. N /\ EachDayTraded(run[i - 1], bars, i - 1)
    BY <1>3
  <2>2. run[i - 1] \in Books(bars) /\ run[i] = BtTurn(run[i - 1], bars, i)
    BY <1>1, <2>1
  <2>3. EachDayTraded(run[i], bars, i)
    BY <2>1, <2>2, TurnTrades
  <2> QED  BY <2>1, <2>3
<1>4. 0 .. N \subseteq T
  <2> HIDE DEF T
  <2> QED  BY <1>2, <1>3, UpTo
<1>5. N \in 0 .. N
  OBVIOUS
<1>6. EachDayTraded(run[N], bars, N) /\ run[N] \in Books(bars)
  BY <1>1, <1>4, <1>5
<1> QED  BY <1>6 DEF run, RunBacktest

(* A trade of a book. *)
LEMMA BookTyped ==
  ASSUME NEW bars \in BtDays, NEW trades \in Books(bars)
  PROVE  /\ Len(trades) \in Nat /\ DOMAIN trades = 1 .. Len(trades)
         /\ \A k \in 1 .. Len(trades) : TradeTyped(trades[k], bars, Len(bars))
<1> DEFINE V == {TradeOf(bars, d) : d \in DaysTraded(bars)}
<1>1. trades \in Seq(V)
  BY DEF Books
<1>2. \A t \in V : TradeTyped(t, bars, Len(bars))
  BY TradeIsTyped DEF DaysTraded
<1> HIDE DEF V
<1> QED  BY <1>1, <1>2

-----------------------------------------------------------------------------
(* A trade told again with one day more. *)
BtRetold(t, u, n) ==
  \/ u = t
  \/ ~ Settled(t) /\ n < t.day + HoldDays /\ Decision(u) = Decision(t)

MoreDays(bars, more, n) ==
  /\ Len(bars) = n /\ Len(more) = n + 1
  /\ \A i \in 1 .. n : more[i] = bars[i]

LEMMA SameDecision ==
  ASSUME NEW n \in Nat, NEW bars, NEW more, MoreDays(bars, more, n), NEW i \in 1 .. n
  PROVE  /\ more[i] = bars[i] /\ KnownCloses(more, i) = KnownCloses(bars, i)
         /\ EntryReason(more, i, TRUE) = EntryReason(bars, i, TRUE)
         /\ TradedDay(more, i) <=> TradedDay(bars, i)
<1>1. more[i] = bars[i] /\ \A k \in 1 .. i - 1 : more[k] = bars[k]
  BY DEF MoreDays
<1>2. KnownCloses(more, i) = KnownCloses(bars, i)
  BY <1>1 DEF KnownCloses
<1>3. EntryReason(more, i, TRUE) = EntryReason(bars, i, TRUE)
  BY <1>1, <1>2 DEF EntryReason
<1> QED  BY <1>1, <1>2, <1>3 DEF TradedDay

LEMMA DayToldAgain ==
  ASSUME NEW n \in Nat, NEW bars, NEW more, MoreDays(bars, more, n), NEW i \in 1 .. n,
         NEW sl, NEW targets
  PROVE  \/ SimulateDay(more, i, sl, targets) = SimulateDay(bars, i, sl, targets)
         \/ SimulateDay(bars, i, sl, targets).outcome = "overnight_loss" /\ n < i + HoldDays
<1> DEFINE hb == HeldUntil(i, n)
           hm == HeldUntil(i, n + 1)
           back(days) == ComesBack(days, i)
           early(days) ==
             LET entry == 100 * days[i].open  close == 100 * days[i].close
                 reached == ReachedTargets(days[i], targets)
                 stopped == 100 * days[i].low <= sl
             IN  \/ reached # {} /\ (stopped => targets[Max(reached)] - entry < entry - sl)
                 \/ stopped \/ close >= entry - Drastic
<1>1. more[i] = bars[i] /\ Len(bars) = n /\ Len(more) = n + 1 /\ \A j \in 1 .. n : more[j] = bars[j]
  BY DEF MoreDays
<1>2. HoldDays \in Nat
  BY BtConstants
<1>3. early(bars) => SimulateDay(more, i, sl, targets) = SimulateDay(bars, i, sl, targets)
  BY <1>1 DEF SimulateDay
<1>4. back(bars) => back(more)
  <2> SUFFICES ASSUME back(bars) PROVE back(more)
    OBVIOUS
  <2>1. PICK j \in i + 1 .. hb : bars[j].high >= bars[i].open
    BY <1>1 DEF ComesBack
  <2>2. j \in 1 .. n /\ j \in i + 1 .. hm
    BY <1>2, <2>1 DEF HeldUntil
  <2>3. more[j].high >= more[i].open
    BY <1>1, <2>1, <2>2
  <2> QED  BY <1>1, <2>2, <2>3 DEF ComesBack
<1>5. CASE early(bars)
  BY <1>3, <1>5
<1>6. CASE ~ early(bars) /\ back(bars)
  <2>1. SimulateDay(bars, i, sl, targets) = [outcome |-> "nplp_recovered", exit |-> 100 * bars[i].open]
    BY <1>6 DEF SimulateDay
  <2>2. ~ early(more) /\ back(more)
    BY <1>1, <1>4, <1>6
  <2>3. SimulateDay(more, i, sl, targets) = [outcome |-> "nplp_recovered", exit |-> 100 * more[i].open]
    BY <2>2 DEF SimulateDay
  <2> QED  BY <1>1, <2>1, <2>3
<1>7. CASE ~ early(bars) /\ ~ back(bars)
  <2>1. SimulateDay(bars, i, sl, targets)
          = [outcome |-> "overnight_loss", exit |-> 100 * bars[hb].close]
    BY <1>1, <1>7 DEF SimulateDay
  <2>2. CASE n < i + HoldDays
    BY <2>1, <2>2
  <2>3. CASE ~ (n < i + HoldDays)
    <3>1. hb = i + HoldDays /\ hm = i + HoldDays /\ hb \in 1 .. n
      BY <1>2, <2>3 DEF HeldUntil
    <3>2. ~ back(more)
      <4> SUFFICES ASSUME NEW j \in i + 1 .. hm, more[j].high >= more[i].open PROVE FALSE
        BY <1>1 DEF ComesBack
      <4>1. j \in i + 1 .. hb /\ j \in 1 .. n
        BY <1>2, <3>1
      <4>2. bars[j].high >= bars[i].open
        BY <1>1, <4>1
      <4> QED  BY <1>1, <1>7, <4>1, <4>2 DEF ComesBack
    <3>3. ~ early(more)
      BY <1>1, <1>7
    <3>4. SimulateDay(more, i, sl, targets)
            = [outcome |-> "overnight_loss", exit |-> 100 * more[hm].close]
      BY <1>1, <3>2, <3>3 DEF SimulateDay
    <3>5. more[hm] = bars[hb]
      BY <1>1, <3>1
    <3> QED  BY <2>1, <3>4, <3>5
  <2> QED  BY <2>2, <2>3
<1> QED  BY <1>5, <1>6, <1>7

LEMMA BtTradeRetold ==
  ASSUME NEW n \in Nat, NEW bars, NEW more, MoreDays(bars, more, n), NEW i \in 1 .. n
  PROVE  BtRetold(TradeOf(bars, i), TradeOf(more, i), n)
<1> DEFINE t == TradeOf(bars, i)
           u == TradeOf(more, i)
           sl == StopOf(bars[i])
           targets == TargetsOf(bars[i])
           done(days) == SimulateDay(days, i, sl, targets)
           told(d) == [day |-> i, trend |-> Trend(KnownCloses(bars, i)),
                       reason |-> EntryReason(bars, i, TRUE), entry |-> 100 * bars[i].open,
                       outcome |-> d.outcome, exit |-> d.exit,
                       pnl |-> (d.exit - 100 * bars[i].open) * SharesFor(bars[i])]
<1>1. /\ more[i] = bars[i] /\ KnownCloses(more, i) = KnownCloses(bars, i)
      /\ EntryReason(more, i, TRUE) = EntryReason(bars, i, TRUE)
  BY SameDecision
<1>2. t = told(done(bars)) /\ u = told(done(more))
  BY <1>1 DEF TradeOf
<1>3. done(more) = done(bars) \/ (done(bars).outcome = "overnight_loss" /\ n < i + HoldDays)
  BY DayToldAgain
<1>4. Decision(u) = Decision(t) /\ t.day = i /\ t.outcome = done(bars).outcome
  BY <1>2 DEF Decision
<1>5. CASE done(more) = done(bars)
  BY <1>2, <1>5 DEF BtRetold
<1>6. CASE done(bars).outcome = "overnight_loss" /\ n < i + HoldDays
  BY <1>4, <1>6 DEF BtRetold, Settled
<1> QED  BY <1>3, <1>5, <1>6

BooksRetold(trades, again, n) ==
  /\ DOMAIN again = DOMAIN trades
  /\ \A k \in DOMAIN trades : BtRetold(trades[k], again[k], n)

LEMMA BtTurnRetold ==
  ASSUME NEW n \in Nat, NEW bars, NEW more, MoreDays(bars, more, n), NEW i \in 1 .. n,
         NEW trades \in Books(bars), NEW again \in Books(more), BooksRetold(trades, again, n)
  PROVE  BooksRetold(BtTurn(trades, bars, i), BtTurn(again, more, i), n)
<1> DEFINE t == TradeOf(bars, i)
           u == TradeOf(more, i)
           m == Len(trades)
           T == {TradeOf(bars, d) : d \in DaysTraded(bars)}
           U == {TradeOf(more, d) : d \in DaysTraded(more)}
           r == Append(trades, t)
           a == Append(again, u)
<1>1. trades \in Seq(T) /\ again \in Seq(U)
  BY DEF Books
<1>2. TradedDay(more, i) <=> TradedDay(bars, i)
  BY SameDecision
<1>3. TradedDay(bars, i) => t \in T /\ u \in U
  BY <1>2 DEF DaysTraded, MoreDays
<1>4. BtRetold(t, u, n)
  BY BtTradeRetold
<1> HIDE DEF T, U, t, u
<1>5. m \in Nat /\ DOMAIN trades = 1 .. m /\ DOMAIN again = 1 .. m
  BY <1>1 DEF BooksRetold
<1>6. Len(again) = m
  BY <1>1, <1>5
<1>7. CASE ~ TradedDay(bars, i)
  BY <1>2, <1>7 DEF BtTurn
<1>8. CASE TradedDay(bars, i)
  <2>1. BtTurn(trades, bars, i) = r /\ BtTurn(again, more, i) = a
    BY <1>2, <1>8 DEF BtTurn, t, u
  <2>2. DOMAIN r = 1 .. m + 1 /\ r[m + 1] = t /\ \A k \in 1 .. m : r[k] = trades[k]
    BY <1>1, <1>3, <1>5, <1>8
  <2>3. DOMAIN a = 1 .. m + 1 /\ a[m + 1] = u /\ \A k \in 1 .. m : a[k] = again[k]
    BY <1>1, <1>3, <1>5, <1>6, <1>8
  <2> HIDE DEF r, a, m
  <2>4. ASSUME NEW k \in 1 .. m + 1 PROVE BtRetold(r[k], a[k], n)
    <3>1. CASE k = m + 1
      BY <1>4, <2>2, <2>3, <3>1
    <3>2. CASE k \in 1 .. m
      BY <1>5, <2>2, <2>3, <3>2 DEF BooksRetold
    <3> QED  BY <1>5, <3>1, <3>2
  <2>5. BooksRetold(r, a, n)
    BY <2>2, <2>3, <2>4 DEF BooksRetold
  <2> QED  BY <2>1, <2>5
<1> QED  BY <1>7, <1>8

LEMMA BooksAreRetold ==
  ASSUME NEW n \in Nat, NEW bars, NEW more, MoreDays(bars, more, n)
  PROVE  \A k \in DOMAIN RunBacktest(bars) :
           /\ k \in DOMAIN RunBacktest(more)
           /\ BtRetold(RunBacktest(bars)[k], RunBacktest(more)[k], n)
<1> DEFINE run == BtRuns(bars)
           again == BtRuns(more)
           T == {i \in 0 .. n : BooksRetold(run[i], again[i], n)}
           U == {TradeOf(more, d) : d \in DaysTraded(more)}
           M == n + 1
<1>1. Len(bars) = n /\ Len(more) = M /\ M \in Nat /\ M \in 1 .. M /\ M - 1 = n
  BY DEF MoreDays
<1>2. /\ run[0] = <<>>
      /\ \A i \in 1 .. n : run[i] = BtTurn(run[i - 1], bars, i)
      /\ \A i \in 0 .. n : run[i] \in Books(bars)
  BY <1>1, BtRunsRun
<1>3. /\ again[0] = <<>>
      /\ \A i \in 1 .. M : again[i] = BtTurn(again[i - 1], more, i)
      /\ \A i \in 0 .. M : again[i] \in Books(more)
  <2>1. Len(more) \in Nat
    BY <1>1
  <2> QED  BY <1>1, <2>1, BtRunsRun
<1>4. RunBacktest(bars) = run[n] /\ RunBacktest(more) = again[M]
  BY <1>1 DEF RunBacktest
<1> HIDE DEF run, again
<1>5. 0 \in T
  <2>1. BooksRetold(<<>>, <<>>, n)
    BY DEF BooksRetold
  <2> QED  BY <1>2, <1>3, <2>1
<1>6. ASSUME NEW i \in 1 .. n, i - 1 \in T PROVE i \in T
  <2>1. /\ i \in 0 .. n /\ i - 1 \in 0 .. n /\ BooksRetold(run[i - 1], again[i - 1], n)
        /\ i \in 1 .. M /\ i - 1 \in 0 .. M
    BY <1>6
  <2> HIDE DEF M
  <2>2. run[i - 1] \in Books(bars) /\ again[i - 1] \in Books(more)
    BY <1>2, <1>3, <2>1
  <2>3. run[i] = BtTurn(run[i - 1], bars, i) /\ again[i] = BtTurn(again[i - 1], more, i)
    BY <1>2, <1>3, <2>1
  <2>4. BooksRetold(run[i], again[i], n)
    BY <2>1, <2>2, <2>3, BtTurnRetold
  <2> QED  BY <2>1, <2>4
<1>7. 0 .. n \subseteq T
  <2> HIDE DEF T
  <2> QED  BY <1>5, <1>6, UpTo
<1>8. BooksRetold(run[n], again[n], n)
  BY <1>7
<1>9. again[n] \in Seq(U) /\ again[M] = BtTurn(again[n], more, M)
  <2>1. n \in 0 .. M
    BY <1>1
  <2>2. again[n] \in Books(more)
    BY <1>3, <2>1
  <2>3. again[M] = BtTurn(again[M - 1], more, M)
    BY <1>1, <1>3
  <2> QED  BY <1>1, <2>2, <2>3 DEF Books
<1>10. TradedDay(more, M) => TradeOf(more, M) \in U
  BY <1>1 DEF DaysTraded
<1> HIDE DEF U, M, T
<1>11. \A k \in DOMAIN again[n] : k \in DOMAIN again[M] /\ again[M][k] = again[n][k]
  <2> DEFINE b == again[n]
             m == Len(b)
             x == TradeOf(more, M)
  <2>1. CASE ~ TradedDay(more, M)
    BY <1>9, <2>1 DEF BtTurn
  <2>2. CASE TradedDay(more, M)
    <3>1. again[M] = Append(b, x) /\ b \in Seq(U) /\ x \in U
      BY <1>9, <1>10, <2>2 DEF BtTurn
    <3> HIDE DEF b, x
    <3>2. m \in Nat /\ DOMAIN b = 1 .. m
      BY <3>1
    <3>3. DOMAIN Append(b, x) = 1 .. m + 1 /\ \A k \in 1 .. m : Append(b, x)[k] = b[k]
      BY <3>1
    <3>4. \A k \in 1 .. m : k \in 1 .. m + 1
      BY <3>2
    <3>5. \A k \in DOMAIN b : k \in DOMAIN again[M] /\ again[M][k] = b[k]
      <4> HIDE DEF m
      <4> QED  BY <3>1, <3>2, <3>3, <3>4
    <3> QED  BY <3>5 DEF b
  <2> QED  BY <2>1, <2>2
<1> QED  BY <1>4, <1>8, <1>11 DEF BooksRetold

-----------------------------------------------------------------------------
(* The invariant: the trades and the report are those of the data.           *)
BacktestInv ==
  \/ dbBars = <<>> /\ dbTrades = <<>> /\ dbStats = NoStats
  \/ /\ dbBars \in BtDays /\ Len(dbBars) >= 7
     /\ dbTrades = RunBacktest(dbBars) /\ dbStats = ComputeStats(dbTrades)

LEMMA NothingTradedYet ==
  ASSUME NEW bars, Len(bars) = 7
  PROVE  RunBacktest(bars) = <<>>
<1> DEFINE run == BtRuns(bars)
           T == {i \in 0 .. 7 : run[i] = <<>>}
<1>1. run[0] = <<>> /\ \A i \in 1 .. 7 : run[i] = BtTurn(run[i - 1], bars, i)
  <2>1. Len(bars) \in Nat /\ Len(bars) = 7
    OBVIOUS
  <2> QED  BY <2>1, BtRunsRun
<1>2. RunBacktest(bars) = run[7]
  BY DEF RunBacktest
<1> HIDE DEF run
<1>3. 0 \in T
  BY <1>1
<1>4. ASSUME NEW i \in 1 .. 7, i - 1 \in T PROVE i \in T
  <2>1. i \in 0 .. 7 /\ run[i] = BtTurn(<<>>, bars, i) /\ ~ (i > 7)
    BY <1>1, <1>4
  <2>2. BtTurn(<<>>, bars, i) = <<>>
    BY <2>1 DEF BtTurn, TradedDay
  <2> QED  BY <2>1, <2>2
<1>5. 0 .. 7 \subseteq T
  <2> HIDE DEF T
  <2> QED  BY <1>3, <1>4, UpTo
<1>6. run[7] = <<>>
  BY <1>5
<1> QED  BY <1>2, <1>6

LEMMA BacktestInvHolds == DbSpec => []BacktestInv
<1>1. DbInit => BacktestInv
  BY DEF DbInit, BacktestInv
<1>2. ASSUME BacktestInv, [DbNext]_dbVars PROVE BacktestInv'
  <2>1. CASE SeedDays
    <3>1. PICK s \in BtSeeds : dbBars' = [i \in 1 .. 7 |-> [open |-> s[i], high |-> s[i],
                                                        low |-> s[i], close |-> s[i]]]
      BY <2>1 DEF SeedDays
    <3>2. \A i \in 1 .. 7 : s[i] \in Nat /\ s[i] >= 1
      BY BtConstants
    <3> DEFINE B == BtShapes
    <3>3. \A i \in 1 .. 7 : [open |-> s[i], high |-> s[i], low |-> s[i], close |-> s[i]] \in B
      BY <3>2 DEF BtShapes, BarFits
    <3> HIDE DEF B
    <3>4. dbBars' \in Seq(B) /\ Len(dbBars') = 7
      BY <3>1, <3>3
    <3>5. RunBacktest(dbBars') = <<>>
      BY <3>4, NothingTradedYet
    <3>6. dbBars = <<>> /\ dbTrades' = dbTrades /\ dbStats' = dbStats
      BY <2>1 DEF SeedDays
    <3>7. dbTrades = <<>> /\ dbStats = NoStats
      <4>1. Len(<<>>) = 0
        OBVIOUS
      <4> QED  BY <1>2, <3>6, <4>1 DEF BacktestInv
    <3>8. dbStats' = ComputeStats(dbTrades')
      BY <3>6, <3>7 DEF ComputeStats
    <3> QED  BY <3>4, <3>5, <3>6, <3>7, <3>8 DEF BacktestInv, BtDays, B
  <2>2. CASE DayAdded
    <3>1. PICK b \in BtBars : dbBars' = Append(dbBars, b)
      BY <2>2 DEF DayAdded
    <3>2. /\ dbBars # <<>> /\ dbTrades' = RunBacktest(dbBars')
          /\ dbStats' = ComputeStats(dbTrades')
      BY <2>2 DEF DayAdded
    <3> DEFINE B == BtShapes
    <3>3. dbBars \in Seq(B) /\ Len(dbBars) >= 7 /\ b \in B
      BY <1>2, <3>2, BtConstants DEF BacktestInv, BtDays
    <3> HIDE DEF B
    <3>4. dbBars' \in Seq(B) /\ Len(dbBars') >= 7
      BY <3>1, <3>3
    <3> QED  BY <3>2, <3>4 DEF BacktestInv, BtDays, B
  <2>3. CASE UNCHANGED dbVars
    BY <1>2, <2>3 DEF dbVars, BacktestInv
  <2> QED  BY <1>2, <2>1, <2>2, <2>3 DEF DbNext
<1> QED  BY <1>1, <1>2, PTL DEF DbSpec

(* Hindsight. *)
LEMMA TradesStand == BacktestInv /\ [DbNext]_dbVars =>
  [\A k \in DOMAIN dbTrades :
     LET t == dbTrades[k]
     IN  /\ k \in DOMAIN dbTrades' /\ Decision(dbTrades'[k]) = Decision(t)
         /\ Settled(t) \/ Len(dbBars) >= t.day + HoldDays => dbTrades'[k] = t]_dbVars
<1> DEFINE Stand == \A k \in DOMAIN dbTrades :
             LET t == dbTrades[k]
             IN  /\ k \in DOMAIN dbTrades' /\ Decision(dbTrades'[k]) = Decision(t)
                 /\ Settled(t) \/ Len(dbBars) >= t.day + HoldDays => dbTrades'[k] = t
<1> SUFFICES ASSUME BacktestInv, [DbNext]_dbVars PROVE [Stand]_dbVars
  OBVIOUS
<1>1. CASE dbBars = <<>> /\ DbNext
  <2>1. dbTrades = <<>>
    <3>1. Len(<<>>) = 0
      OBVIOUS
    <3> QED  BY <1>1, <3>1 DEF BacktestInv
  <2>2. DOMAIN dbTrades = {}
    BY <2>1
  <2> QED  BY <2>2
<1>2. CASE dbBars # <<>> /\ DbNext
  <2> DEFINE n == Len(dbBars)
             B == BtShapes
             more == dbBars'
             again == dbTrades'
  <2>1. DayAdded
    BY <1>2 DEF DbNext, SeedDays
  <2>2. PICK b \in BtBars : dbBars' = Append(dbBars, b)
    BY <2>1 DEF DayAdded
  <2>3. dbBars \in BtDays /\ b \in B /\ dbTrades = RunBacktest(dbBars)
    BY <1>2, BtConstants DEF BacktestInv
  <2>4. again = RunBacktest(more)
    BY <2>1 DEF DayAdded
  <2>5. dbBars \in Seq(B)
    BY <2>3 DEF BtDays
  <2> HIDE DEF B
  <2>6. n \in Nat /\ Len(more) = n + 1 /\ \A i \in 1 .. n : more[i] = dbBars[i]
    BY <2>2, <2>3, <2>5
  <2>7. MoreDays(dbBars, more, n)
    BY <2>6 DEF MoreDays
  <2>8. \A k \in DOMAIN dbTrades : k \in DOMAIN again /\ BtRetold(dbTrades[k], again[k], n)
    <3> HIDE DEF more, again
    <3> QED  BY <2>3, <2>4, <2>6, <2>7, BooksAreRetold
  <2>9. ASSUME NEW k \in DOMAIN dbTrades
        PROVE  /\ k \in DOMAIN again /\ Decision(again[k]) = Decision(dbTrades[k])
               /\ Settled(dbTrades[k]) \/ n >= dbTrades[k].day + HoldDays => again[k] = dbTrades[k]
    <3> DEFINE t == dbTrades[k]
    <3>1. k \in DOMAIN again /\ BtRetold(t, again[k], n)
      BY <2>8
    <3>2. t.day + HoldDays \in Int
      <4>1. dbTrades \in Books(dbBars)
        BY <2>3, <2>6, EachDayIsTraded
      <4>2. TradeTyped(t, dbBars, n)
        BY <2>3, <4>1, BookTyped
      <4>3. t.day \in Int
        BY <4>2 DEF TradeTyped
      <4> HIDE DEF t
      <4> QED  BY <4>3, BtConstants
    <3> HIDE DEF t, again, n, more
    <3>3. CASE again[k] = t
      BY <3>1, <3>3 DEF t
    <3>4. CASE ~ Settled(t) /\ n < t.day + HoldDays /\ Decision(again[k]) = Decision(t)
      <4>1. n \in Int /\ ~ (n >= t.day + HoldDays)
        BY <2>6, <3>2, <3>4
      <4> QED  BY <3>1, <3>4, <4>1 DEF t
    <3> QED  BY <3>1, <3>3, <3>4 DEF BtRetold
  <2> QED  BY <2>9
<1>3. CASE UNCHANGED dbVars
  BY <1>3
<1> QED  BY <1>1, <1>2, <1>3

(* What the open decides. *)
LEMMA OpensDecide == BacktestInv => DecidedAtTheOpen
<1> SUFFICES ASSUME BacktestInv, NEW i \in 8 .. Len(dbBars), NEW b \in BtBars, b.open = dbBars[i].open
             PROVE  LET other == [dbBars EXCEPT ![i] = b]
                    IN  (\E k \in DOMAIN dbTrades : dbTrades[k].day = i) =
                          (EntryReason(other, i, TRUE) # "none" /\ BtCapital >= b.open)
  BY DEF DecidedAtTheOpen
<1> DEFINE n == Len(dbBars)
           other == [dbBars EXCEPT ![i] = b]
           traded == \E k \in DOMAIN dbTrades : dbTrades[k].day = i
<1>1. dbBars \in BtDays /\ dbTrades = RunBacktest(dbBars)
  <2>1. dbBars # <<>>
    BY Len(<<>>) = 0
  <2> QED  BY <2>1 DEF BacktestInv
<1>2. n \in Nat /\ i \in 1 .. n /\ i > 7 /\ DOMAIN dbBars = 1 .. n
  BY <1>1, DaysTyped
<1>3. traded <=> TradedDay(dbBars, i)
  <2>1. EachDayTraded(dbTrades, dbBars, n)
    BY <1>1, <1>2, EachDayIsTraded
  <2>2. ASSUME traded PROVE TradedDay(dbBars, i)
    BY <2>1, <2>2 DEF EachDayTraded
  <2>3. ASSUME TradedDay(dbBars, i) PROVE traded
    BY <1>2, <2>1, <2>3 DEF EachDayTraded
  <2> QED  BY <2>2, <2>3
<1>4. other[i] = b /\ \A k \in 1 .. i - 1 : other[k] = dbBars[k]
  BY <1>2
<1> HIDE DEF other, traded
<1>5. KnownCloses(other, i) = KnownCloses(dbBars, i)
  BY <1>4 DEF KnownCloses
<1>6. EntryReason(other, i, TRUE) = EntryReason(dbBars, i, TRUE)
  BY <1>4, <1>5 DEF EntryReason
<1>7. TradedDay(dbBars, i) <=> EntryReason(other, i, TRUE) # "none" /\ BtCapital >= b.open
  BY <1>2, <1>6 DEF TradedDay
<1>8. traded = (EntryReason(other, i, TRUE) # "none" /\ BtCapital >= b.open)
  <2>1. traded \in BOOLEAN
    BY DEF traded
  <2> QED  BY Zenon, <1>3, <1>7, <2>1
<1> QED  BY <1>8 DEF other, traded

(* Exits of the day are prices of the day. *)
LEMMA PricesWereTraded == BacktestInv => ExitsWereTraded
<1> SUFFICES ASSUME BacktestInv, NEW k \in DOMAIN dbTrades,
                    dbTrades[k].outcome \in {"target", "stop", "square_off"}
             PROVE  /\ 100 * dbBars[dbTrades[k].day].low <= dbTrades[k].exit
                    /\ dbTrades[k].exit <= 100 * dbBars[dbTrades[k].day].high
  BY DEF ExitsWereTraded
<1>1. dbBars \in BtDays /\ dbTrades = RunBacktest(dbBars)
  <2>1. dbTrades # <<>>
    OBVIOUS
  <2> QED  BY <2>1 DEF BacktestInv
<1>2. dbTrades \in Books(dbBars)
  BY <1>1, DaysTyped, EachDayIsTraded
<1>3. TradeTyped(dbTrades[k], dbBars, Len(dbBars))
  BY <1>1, <1>2, BookTyped
<1> QED  BY <1>3 DEF TradeTyped

-----------------------------------------------------------------------------
(* The report.                                                              *)
Pnls(trades) == [k \in 1 .. Len(trades) |-> trades[k].pnl]

LEMMA TotalOfIs ==
  ASSUME NEW N \in Nat, NEW g \in [1 .. N -> Int]
  PROVE  TotalOf(g) = PartialSums(g)[N]
<1>1. Len(g) = N
  OBVIOUS
<1> QED  BY <1>1 DEF TotalOf, PartialSums

LEMMA TotalOfParts ==
  ASSUME NEW N \in Nat, NEW v \in [1 .. N -> Int], NEW M \in Nat, NEW parts, NEW upto,
         Parting(M, parts, upto), NEW f, f = [i \in 1 .. M |-> TotalAt(v, parts[i])]
  PROVE  TotalOf(f) = TotalAt(v, upto[M])
<1>1. f \in [1 .. M -> Int]
  BY TotalIsInt
<1>2. TotalOf(f) = PartialSums(f)[M]
  BY <1>1, TotalOfIs
<1>3. PartialSums(f)[M] = TotalAt(v, upto[M])
  BY PartsAddUp
<1> QED  BY <1>2, <1>3

LEMMA PnlIsATotal ==
  ASSUME NEW N \in Nat, NEW trades, Len(trades) = N, \A k \in 1 .. N : trades[k].pnl \in Int
  PROVE  /\ Pnls(trades) \in [1 .. N -> Int] /\ \A k \in 1 .. N : Pnls(trades)[k] = trades[k].pnl
         /\ \A ks : PnlOf(trades, ks) = TotalAt(Pnls(trades), ks)
<1> DEFINE v == Pnls(trades)
<1>1. v \in [1 .. N -> Int] /\ \A k \in 1 .. N : v[k] = trades[k].pnl
  BY DEF Pnls
<1>2. ASSUME NEW ks PROVE PnlOf(trades, ks) = TotalAt(v, ks)
  <2> DEFINE g == Masked(v, ks)
  <2> HIDE DEF v
  <2>1. Len(v) = N
    BY <1>1
  <2>2. g \in [1 .. N -> Int] /\ g = [k \in 1 .. N |-> IF k \in ks THEN trades[k].pnl ELSE 0]
    BY <1>1, <2>1 DEF Masked
  <2>3. PnlOf(trades, ks) = TotalOf(g)
    BY <2>2 DEF PnlOf
  <2> HIDE DEF g
  <2>4. TotalOf(g) = PartialSums(g)[N]
    BY <2>2, TotalOfIs
  <2> QED  BY <2>1, <2>3, <2>4 DEF TotalAt, g
<1> QED  BY <1>1, <1>2

(* A table with one line for each name that a trade goes by adds up to the trades. *)
TableOf(lines, trades, label, names) ==
  \A j \in DOMAIN names :
    LET ks == {k \in DOMAIN label : label[k] = names[j]}
    IN  /\ ks # {} => names[j] \in DOMAIN lines /\ lines[names[j]].pnl = PnlOf(trades, ks)
        /\ ks = {} => names[j] \notin DOMAIN lines

Tabulated(lines, trades, N, label, names, M) ==
  /\ Len(trades) = N /\ \A k \in 1 .. N : trades[k].pnl \in Int
  /\ Len(names) = M /\ DOMAIN names = 1 .. M
  /\ \A i, j \in 1 .. M : names[i] = names[j] => i = j
  /\ DOMAIN label = 1 .. N /\ \A k \in 1 .. N : \E j \in 1 .. M : label[k] = names[j]
  /\ TableOf(lines, trades, label, names)

LEMMA TableAddsUp ==
  ASSUME NEW N \in Nat, NEW M \in Nat, NEW trades, NEW label, NEW names, NEW lines,
         Tabulated(lines, trades, N, label, names, M)
  PROVE  SumOfLines(lines, names) = PnlOf(trades, 1 .. N)
<1> USE DEF Tabulated
<1> DEFINE v == Pnls(trades)
           parts == [j \in 1 .. M |-> {k \in 1 .. N : label[k] = names[j]}]
           upto == [i \in 0 .. M |-> {k \in 1 .. N : \E j \in 1 .. i : label[k] = names[j]}]
           f == [i \in 1 .. M |-> IF names[i] \in DOMAIN lines THEN lines[names[i]].pnl ELSE 0]
<1>1. v \in [1 .. N -> Int] /\ \A ks : PnlOf(trades, ks) = TotalAt(v, ks)
  BY PnlIsATotal
<1> HIDE DEF v
<1>2. ASSUME NEW i \in 1 .. M PROVE f[i] = TotalAt(v, parts[i])
  <2>1. CASE parts[i] = {}
    <3>1. names[i] \notin DOMAIN lines
      <4> DEFINE ks == {k \in DOMAIN label : label[k] = names[i]}
      <4>1. ks = {}
        BY <2>1
      <4> QED  BY <4>1 DEF TableOf
    <3>2. TotalAt(v, parts[i]) = 0
      BY <1>1, <2>1, TotalAtNone
    <3> QED  BY <3>1, <3>2
  <2>2. CASE parts[i] # {}
    <3> DEFINE ks == {k \in DOMAIN label : label[k] = names[i]}
    <3>1. ks = parts[i]
      OBVIOUS
    <3>2. names[i] \in DOMAIN lines /\ lines[names[i]].pnl = PnlOf(trades, ks)
      <4> HIDE DEF parts
      <4>1. ks # {}
        BY <2>2, <3>1
      <4> QED  BY <4>1 DEF TableOf
    <3> HIDE DEF parts, ks
    <3> QED  BY <1>1, <3>1, <3>2
  <2> QED  BY <2>1, <2>2
<1>3. f = [i \in 1 .. M |-> TotalAt(v, parts[i])]
  <2> HIDE DEF parts
  <2> QED  BY <1>2
<1>4. upto[M] = 1 .. N
  <2>1. M \in 0 .. M
    OBVIOUS
  <2>2. upto[M] = {k \in 1 .. N : \E j \in 1 .. M : label[k] = names[j]}
    BY <2>1
  <2> QED  BY <2>2
<1>5. Parting(M, parts, upto)
  <2>1. upto[0] = {}
    <3>1. 0 \in 0 .. M /\ 1 .. 0 = {}
      OBVIOUS
    <3> QED  BY <3>1
  <2>2. ASSUME NEW i \in 1 .. M
        PROVE  upto[i] = upto[i - 1] \cup parts[i] /\ upto[i - 1] \cap parts[i] = {}
    <3>1. i \in 0 .. M /\ i - 1 \in 0 .. M /\ i \in 1 .. i /\ i \notin 1 .. i - 1
      OBVIOUS
    <3>2. /\ upto[i] = {k \in 1 .. N : \E j \in 1 .. i : label[k] = names[j]}
          /\ upto[i - 1] = {k \in 1 .. N : \E j \in 1 .. i - 1 : label[k] = names[j]}
          /\ parts[i] = {k \in 1 .. N : label[k] = names[i]}
      BY <3>1
    <3> HIDE DEF upto, parts
    <3>3. \A j \in 1 .. i : j \in 1 .. i - 1 \/ j = i
      OBVIOUS
    <3>4. \A j \in 1 .. i - 1 : j \in 1 .. i /\ j \in 1 .. M /\ j # i
      OBVIOUS
    <3>5. \A j \in 1 .. i - 1 : names[j] # names[i]
      BY <3>4
    <3> QED  BY <3>1, <3>2, <3>3, <3>4, <3>5
  <2> HIDE DEF upto, parts
  <2> QED  BY <2>1, <2>2 DEF Parting
<1>6. SumOfLines(lines, names) = TotalOf(f)
  BY DEF SumOfLines
<1> HIDE DEF parts, upto, f
<1> HIDE DEF Tabulated
<1>7. TotalOf(f) = TotalAt(v, upto[M])
  BY <1>1, <1>3, <1>5, TotalOfParts
<1> QED  BY <1>1, <1>4, <1>6, <1>7

(* A book of trades, as the report reads it. *)
Reported(trades, N, L) ==
  /\ Len(trades) = N /\ DOMAIN trades = 1 .. N
  /\ \A k \in 1 .. N : /\ trades[k].pnl \in Int /\ trades[k].day \in 8 .. L
                       /\ trades[k].trend \in {"Upward", "Downward", "Choppy"}
                       /\ trades[k].reason \in {"mean_reversion", "trend_entry"}

LEMMA TrendsAddUp ==
  ASSUME NEW N \in Nat, NEW L \in Nat, NEW trades, Reported(trades, N, L), trades # <<>>
  PROVE  SumOfLines(ComputeStats(trades).byTrend, TrendNames) = PnlOf(trades, 1 .. N)
<1> DEFINE label == [k \in 1 .. N |-> trades[k].trend]
           lines == ComputeStats(trades).byTrend
           X == {y \in Range(TrendNames) : OfTrend(trades, y) # {}}
<1>1. lines = [x \in X |-> Breakdown(trades, OfTrend(trades, x))]
  BY DEF ComputeStats
<1>2. /\ Len(TrendNames) = 3 /\ DOMAIN TrendNames = 1 .. 3
      /\ \A i, j \in 1 .. 3 : TrendNames[i] = TrendNames[j] => i = j
  BY DEF TrendNames
<1>3. \A k \in 1 .. N : \E j \in 1 .. 3 : label[k] = TrendNames[j]
  BY DEF Reported, TrendNames
<1>4. \A x : OfTrend(trades, x) = {k \in DOMAIN label : label[k] = x}
  BY DEF OfTrend, Reported
<1>5. \A j \in 1 .. 3 : TrendNames[j] \in Range(TrendNames)
  BY <1>2 DEF Range
<1>6. \A ks : Breakdown(trades, ks).pnl = PnlOf(trades, ks)
  BY DEF Breakdown
<1> HIDE DEF lines
<1>7. TableOf(lines, trades, label, TrendNames)
  <2> HIDE DEF label
  <2> SUFFICES ASSUME NEW j \in 1 .. 3
               PROVE  LET ks == {k \in DOMAIN label : label[k] = TrendNames[j]}
                      IN  /\ ks # {} => /\ TrendNames[j] \in DOMAIN lines
                                        /\ lines[TrendNames[j]].pnl = PnlOf(trades, ks)
                          /\ ks = {} => TrendNames[j] \notin DOMAIN lines
    BY <1>2 DEF TableOf
  <2> DEFINE x == TrendNames[j]
             ks == {k \in DOMAIN label : label[k] = x}
  <2>1. OfTrend(trades, x) = ks /\ x \in Range(TrendNames)
    BY <1>4, <1>5
  <2> HIDE DEF x, ks
  <2>2. x \in DOMAIN lines <=> ks # {}
    BY <1>1, <2>1
  <2>3. x \in DOMAIN lines => lines[x] = Breakdown(trades, ks)
    BY <1>1, <2>1
  <2>4. ks # {} => lines[x].pnl = PnlOf(trades, ks)
    BY <1>6, <2>2, <2>3
  <2> QED  BY <2>2, <2>4 DEF x, ks
<1>8. Len(trades) = N /\ DOMAIN label = 1 .. N /\ \A k \in 1 .. N : trades[k].pnl \in Int
  BY DEF Reported
<1> DEFINE M == 3
           names == TrendNames
<1>9. M \in Nat /\ Tabulated(lines, trades, N, label, names, M)
  <2> HIDE DEF label
  <2> QED  BY <1>2, <1>3, <1>7, <1>8 DEF Tabulated
<1> HIDE DEF M, names, label
<1>10. SumOfLines(lines, names) = PnlOf(trades, 1 .. N)
  BY <1>9, TableAddsUp
<1> QED  BY <1>10 DEF lines, names

LEMMA ReasonsAddUp ==
  ASSUME NEW N \in Nat, NEW L \in Nat, NEW trades, Reported(trades, N, L), trades # <<>>
  PROVE  SumOfLines(ComputeStats(trades).byReason, ReasonNames) = PnlOf(trades, 1 .. N)
<1> DEFINE label == [k \in 1 .. N |-> trades[k].reason]
           lines == ComputeStats(trades).byReason
           X == {y \in Range(ReasonNames) : OfReason(trades, y) # {}}
<1>1. lines = [x \in X |-> Breakdown(trades, OfReason(trades, x))]
  BY DEF ComputeStats
<1>2. /\ Len(ReasonNames) = 2 /\ DOMAIN ReasonNames = 1 .. 2
      /\ \A i, j \in 1 .. 2 : ReasonNames[i] = ReasonNames[j] => i = j
  BY DEF ReasonNames
<1>3. \A k \in 1 .. N : \E j \in 1 .. 2 : label[k] = ReasonNames[j]
  BY DEF Reported, ReasonNames
<1>4. \A x : OfReason(trades, x) = {k \in DOMAIN label : label[k] = x}
  BY DEF OfReason, Reported
<1>5. \A j \in 1 .. 2 : ReasonNames[j] \in Range(ReasonNames)
  BY <1>2 DEF Range
<1>6. \A ks : Breakdown(trades, ks).pnl = PnlOf(trades, ks)
  BY DEF Breakdown
<1> HIDE DEF lines
<1>7. TableOf(lines, trades, label, ReasonNames)
  <2> HIDE DEF label
  <2> SUFFICES ASSUME NEW j \in 1 .. 2
               PROVE  LET ks == {k \in DOMAIN label : label[k] = ReasonNames[j]}
                      IN  /\ ks # {} => /\ ReasonNames[j] \in DOMAIN lines
                                        /\ lines[ReasonNames[j]].pnl = PnlOf(trades, ks)
                          /\ ks = {} => ReasonNames[j] \notin DOMAIN lines
    BY <1>2 DEF TableOf
  <2> DEFINE x == ReasonNames[j]
             ks == {k \in DOMAIN label : label[k] = x}
  <2>1. OfReason(trades, x) = ks /\ x \in Range(ReasonNames)
    BY <1>4, <1>5
  <2> HIDE DEF x, ks
  <2>2. x \in DOMAIN lines <=> ks # {}
    BY <1>1, <2>1
  <2>3. x \in DOMAIN lines => lines[x] = Breakdown(trades, ks)
    BY <1>1, <2>1
  <2>4. ks # {} => lines[x].pnl = PnlOf(trades, ks)
    BY <1>6, <2>2, <2>3
  <2> QED  BY <2>2, <2>4 DEF x, ks
<1>8. Len(trades) = N /\ DOMAIN label = 1 .. N /\ \A k \in 1 .. N : trades[k].pnl \in Int
  BY DEF Reported
<1> DEFINE M == 2
           names == ReasonNames
<1>9. M \in Nat /\ Tabulated(lines, trades, N, label, names, M)
  <2> HIDE DEF label
  <2> QED  BY <1>2, <1>3, <1>7, <1>8 DEF Tabulated
<1> HIDE DEF M, names, label
<1>10. SumOfLines(lines, names) = PnlOf(trades, 1 .. N)
  BY <1>9, TableAddsUp
<1> QED  BY <1>10 DEF lines, names

(* The months from the first day's to the last. *)
LEMMA MonthsFollow ==
  ASSUME NEW L \in Nat, NEW d \in 8 .. L
  PROVE  Month(L) \in Nat /\ Month(d) \in 0 .. Month(L)
<1> DEFINE m == MonthDays
           x == d - 8
           y == L - 8
<1>1. m \in Nat \ {0} /\ x \in Nat /\ y \in Nat /\ x <= y
  BY BtConstants
<1> HIDE DEF m, x, y
<1>2. /\ x \div m \in Nat /\ x % m \in Int /\ 0 <= x % m /\ x % m < m /\ x = m * (x \div m) + (x % m)
      /\ y \div m \in Nat /\ y % m \in Int /\ 0 <= y % m /\ y % m < m /\ y = m * (y \div m) + (y % m)
  <2>1. x \div m \in Nat /\ y \div m \in Nat
    BY <1>1
  <2> QED  BY <1>1, <2>1, Euclid
<1> DEFINE s == x \div m
           t == y \div m
           a == x % m
           b == y % m
<1>3. /\ s \in Nat /\ t \in Nat /\ a \in Int /\ b \in Int /\ 0 <= a /\ a < m /\ 0 <= b /\ b < m
      /\ x = m * s + a /\ y = m * t + b
  BY <1>2
<1> HIDE DEF s, t, a, b
<1>4. m * s + a <= m * t + b
  BY <1>1, <1>3
<1>5. s < t \/ (s = t /\ a <= b)
  BY <1>1, <1>3, <1>4, QuotientsGrow
<1>6. s \in 0 .. t
  BY <1>3, <1>5
<1>7. Month(d) = s /\ Month(L) = t
  BY DEF Month, s, t, x, y, m
<1> QED  BY <1>3, <1>6, <1>7

LEMMA MonthsAddUp ==
  ASSUME NEW N \in Nat, NEW L \in Nat, NEW trades, Reported(trades, N, L), trades # <<>>, L >= 8,
         NEW names, names = [i \in 1 .. Month(L) + 1 |-> i - 1]
  PROVE  SumOfLines(ComputeStats(trades).monthly, names) = PnlOf(trades, 1 .. N)
<1> DEFINE label == [k \in 1 .. N |-> Month(trades[k].day)]
           lines == ComputeStats(trades).monthly
           X == {Month(trades[k].day) : k \in DOMAIN trades}
           M == Month(L) + 1
<1>1. lines = [m \in X |-> Breakdown(trades, OfMonth(trades, m))]
  BY DEF ComputeStats
<1>2. M \in Nat
  <2>1. L \in 8 .. L
    OBVIOUS
  <2>2. Month(L) \in Nat
    BY <2>1, MonthsFollow
  <2> QED  BY <2>2
<1>3. \A k \in 1 .. N : label[k] \in 0 .. M - 1
  <2> SUFFICES ASSUME NEW k \in 1 .. N PROVE Month(trades[k].day) \in 0 .. M - 1
    OBVIOUS
  <2>1. trades[k].day \in 8 .. L
    BY DEF Reported
  <2>2. Month(L) \in Nat /\ Month(trades[k].day) \in 0 .. Month(L)
    BY <2>1, MonthsFollow
  <2>3. M - 1 = Month(L)
    BY <2>2
  <2> QED  BY <2>2, <2>3
<1>4. Len(trades) = N /\ DOMAIN trades = 1 .. N /\ \A k \in 1 .. N : trades[k].pnl \in Int
  BY DEF Reported
<1>5. \A x : OfMonth(trades, x) = {k \in 1 .. N : label[k] = x}
  BY <1>4 DEF OfMonth
<1>6. \A ks : Breakdown(trades, ks).pnl = PnlOf(trades, ks)
  BY DEF Breakdown
<1>7. \A x : x \in X <=> \E k \in 1 .. N : label[k] = x
  BY <1>4
<1>8. names = [i \in 1 .. M |-> i - 1]
  OBVIOUS
<1>9. DOMAIN label = 1 .. N
  OBVIOUS
<1> HIDE DEF lines, X, M, label
<1>10. Len(names) = M /\ DOMAIN names = 1 .. M /\ \A i \in 1 .. M : names[i] = i - 1
  <2>1. DOMAIN names = 1 .. M /\ \A i \in 1 .. M : names[i] = i - 1
    BY <1>8
  <2>2. Len([i \in 1 .. M |-> i - 1]) = M
    BY <1>2
  <2> QED  BY <1>8, <2>1, <2>2
<1>11. \A i, j \in 1 .. M : names[i] = names[j] => i = j
  <2> SUFFICES ASSUME NEW i \in 1 .. M, NEW j \in 1 .. M, names[i] = names[j] PROVE i = j
    OBVIOUS
  <2>1. i - 1 = j - 1 /\ i \in Int /\ j \in Int
    BY <1>2, <1>10
  <2> QED  BY <2>1
<1>12. \A k \in 1 .. N : \E j \in 1 .. M : label[k] = names[j]
  <2> SUFFICES ASSUME NEW k \in 1 .. N PROVE \E j \in 1 .. M : label[k] = names[j]
    OBVIOUS
  <2> DEFINE x == label[k]
             j == x + 1
  <2>1. x \in 0 .. M - 1
    BY <1>3
  <2> HIDE DEF x
  <2>2. j \in 1 .. M /\ j - 1 = x
    BY <1>2, <2>1
  <2> HIDE DEF j
  <2>3. names[j] = x
    BY <1>10, <2>2
  <2> QED  BY <2>2, <2>3 DEF x
<1>13. TableOf(lines, trades, label, names)
  <2> SUFFICES ASSUME NEW j \in 1 .. M
               PROVE  LET ks == {k \in DOMAIN label : label[k] = names[j]}
                      IN  /\ ks # {} => names[j] \in DOMAIN lines /\ lines[names[j]].pnl = PnlOf(trades, ks)
                          /\ ks = {} => names[j] \notin DOMAIN lines
    BY <1>10 DEF TableOf
  <2> DEFINE x == names[j]
             ks == {k \in DOMAIN label : label[k] = x}
  <2>1. OfMonth(trades, x) = ks
    BY <1>5, <1>9
  <2>2. x \in X <=> ks # {}
    BY <1>7, <1>9
  <2> HIDE DEF x, ks
  <2>3. x \in DOMAIN lines <=> ks # {}
    BY <1>1, <2>2
  <2>4. x \in DOMAIN lines => lines[x] = Breakdown(trades, ks)
    BY <1>1, <2>1
  <2>5. ks # {} => lines[x].pnl = PnlOf(trades, ks)
    BY <1>6, <2>3, <2>4
  <2> QED  BY <2>3, <2>5 DEF x, ks
<1>14. Tabulated(lines, trades, N, label, names, M)
  BY <1>4, <1>9, <1>10, <1>11, <1>12, <1>13 DEF Tabulated
<1>15. SumOfLines(lines, names) = PnlOf(trades, 1 .. N)
  BY <1>2, <1>14, TableAddsUp
<1> QED  BY <1>15 DEF lines

-----------------------------------------------------------------------------
(* The walks of the report.                                                 *)
LEMMA LeastIs ==
  ASSUME NEW S, S \subseteq Int, NEW m \in S, \A y \in S : m <= y
  PROVE  Min(S) = m
<1>1. \E x \in S : \A y \in S : x <= y
  OBVIOUS
<1> DEFINE x == Min(S)
<1>2. x \in S /\ \A y \in S : x <= y
  BY <1>1 DEF Min
<1> HIDE DEF x
<1>3. x \in Int /\ m \in Int /\ x <= m /\ m <= x
  BY <1>2
<1>4. x = m
  BY <1>3
<1> QED  BY <1>4 DEF x

LEMMA GreatestIs ==
  ASSUME NEW S, S \subseteq Int, NEW m \in S, \A y \in S : y <= m
  PROVE  Max(S) = m
<1>1. \E x \in S : \A y \in S : x >= y
  <2>1. \A y \in S : m >= y
    OBVIOUS
  <2> QED  BY <2>1
<1> DEFINE x == Max(S)
<1>2. x \in S /\ \A y \in S : x >= y
  BY <1>1 DEF Max
<1> HIDE DEF x
<1>3. x \in Int /\ m \in Int /\ x >= m /\ x <= m
  BY <1>2
<1>4. x = m
  BY <1>3
<1> QED  BY <1>4 DEF x

Walks == [cum : Int, peak : Int, worst : Int]
NoFall == [cum |-> 0, peak |-> 0, worst |-> 0]

LEMMA DrawdownsRun ==
  ASSUME NEW N \in Nat, NEW trades, Len(trades) = N, \A k \in 1 .. N : trades[k].pnl \in Int
  PROVE  /\ Drawdowns(trades)[0] = NoFall
         /\ \A k \in 1 .. N : Drawdowns(trades)[k] = DrawdownTurn(Drawdowns(trades)[k - 1], trades[k].pnl)
         /\ \A k \in 0 .. N : Drawdowns(trades)[k] \in Walks
<1> DEFINE V == Walks
           turn(f, k) == IF k = 0 THEN [cum |-> 0, peak |-> 0, worst |-> 0]
                         ELSE DrawdownTurn(f[k - 1], trades[k].pnl)
           walk == CHOOSE f : f = [k \in 0 .. N |-> turn(f, k)]
           next == [k \in 1 .. N |-> [w \in V |-> DrawdownTurn(w, trades[k].pnl)]]
<1>1. Drawdowns(trades) = walk
  BY DEF Drawdowns
<1>2. NoFall \in V /\ \A w \in V : \A p \in Int : DrawdownTurn(w, p) \in V
  BY DEF Walks, NoFall, DrawdownTurn, Larger
<1> HIDE DEF V
<1>3. next \in [1 .. N -> [V -> V]]
  BY <1>2
<1>4. \A k \in 1 .. N : \A w \in V : next[k][w] = DrawdownTurn(w, trades[k].pnl)
  OBVIOUS
<1> HIDE DEF next
<1>5. PICK f \in [0 .. N -> V] : f[0] = NoFall /\ \A k \in 1 .. N : f[k] = next[k][f[k - 1]]
  <2>1. HasRun(V, N, NoFall, next)
    BY <1>2, <1>3, LoopRuns
  <2> QED  BY <2>1 DEF HasRun
<1>6. \A k \in 1 .. N : k - 1 \in 0 .. N /\ f[k] = DrawdownTurn(f[k - 1], trades[k].pnl)
  BY <1>4, <1>5
<1>7. ASSUME NEW k \in 0 .. N PROVE f[k] = turn(f, k)
  <2>1. CASE k = 0
    BY <1>5, <2>1 DEF NoFall
  <2>2. CASE k # 0
    <3>1. k \in 1 .. N
      BY <2>2
    <3> QED  BY <1>6, <2>2, <3>1
  <2> QED  BY <2>1, <2>2
<1>8. f = [k \in 0 .. N |-> turn(f, k)]
  <2> HIDE DEF turn
  <2> QED  BY <1>5, <1>7
<1>9. walk = [k \in 0 .. N |-> turn(walk, k)]
  <2> HIDE DEF turn
  <2> QED  BY <1>8
<1> HIDE DEF walk
<1>10. walk[0] = NoFall /\ \A k \in 1 .. N : walk[k] = DrawdownTurn(walk[k - 1], trades[k].pnl)
  BY <1>9 DEF NoFall
<1> DEFINE T == {k \in 0 .. N : walk[k] \in V}
<1>11. 0 \in T
  BY <1>2, <1>10
<1>12. ASSUME NEW k \in 1 .. N, k - 1 \in T PROVE k \in T
  <2>1. k \in 0 .. N /\ walk[k - 1] \in V
    BY <1>12
  <2> QED  BY <1>2, <1>10, <2>1
<1>13. 0 .. N \subseteq T
  <2> HIDE DEF T
  <2> QED  BY <1>11, <1>12, UpTo
<1>14. \A k \in 0 .. N : walk[k] \in V
  BY <1>13
<1> QED  BY <1>1, <1>10, <1>14 DEF V

(* Of a walk c of the results: the peak is the highest so far, the worst the
   deepest fall from an earlier place to a later one. *)
DeepestFall(w, c, k) ==
  /\ w.cum = c[k]
  /\ \E i \in 0 .. k : w.peak = c[i]
  /\ \A i \in 0 .. k : c[i] <= w.peak
  /\ \E i \in 0 .. k : \E j \in i .. k : w.worst = c[j] - c[i]
  /\ \A i \in 0 .. k : \A j \in i .. k : w.worst <= c[j] - c[i]

LEMMA TurnFalls ==
  ASSUME NEW N \in Nat, NEW c \in [0 .. N -> Int], NEW k \in 1 .. N, NEW p \in Int,
         c[k] = c[k - 1] + p, NEW w \in Walks, DeepestFall(w, c, k - 1)
  PROVE  DeepestFall(DrawdownTurn(w, p), c, k)
<1> DEFINE cum == w.cum + p
           peak == Larger(w.peak, cum)
           fall == cum - peak
           worst == IF fall < w.worst THEN fall ELSE w.worst
           x == DrawdownTurn(w, p)
<1>1. w.cum \in Int /\ w.peak \in Int /\ w.worst \in Int /\ w.cum = c[k - 1]
  BY DEF Walks, DeepestFall
<1>2. cum = c[k] /\ cum \in Int
  BY <1>1
<1>3. /\ peak \in Int /\ cum <= peak /\ w.peak <= peak /\ (peak = w.peak \/ peak = cum)
      /\ fall \in Int /\ worst \in Int /\ worst <= fall /\ worst <= w.worst
      /\ (worst = fall \/ worst = w.worst)
  BY <1>1, <1>2 DEF Larger
<1>4. x.cum = cum /\ x.peak = peak /\ x.worst = worst
  BY DEF DrawdownTurn
<1> HIDE DEF cum, peak, worst, x
<1>5. \A i \in 0 .. k : i \in 0 .. k - 1 \/ i = k
  OBVIOUS
<1>6. \A i \in 0 .. k - 1 : i \in 0 .. k /\ c[i] \in Int
  OBVIOUS
<1>7. k \in 0 .. k /\ k \in k .. k /\ c[k] \in Int
  OBVIOUS
<1>8. /\ \E i \in 0 .. k - 1 : w.peak = c[i]
      /\ \A i \in 0 .. k - 1 : c[i] <= w.peak
      /\ \E i \in 0 .. k - 1 : \E j \in i .. k - 1 : w.worst = c[j] - c[i]
      /\ \A i \in 0 .. k - 1 : \A j \in i .. k - 1 : w.worst <= c[j] - c[i]
  BY DEF DeepestFall
<1>9. PICK top \in 0 .. k : peak = c[top]
  BY <1>2, <1>3, <1>6, <1>7, <1>8
<1>10. \A i \in 0 .. k : c[i] <= peak
  <2> SUFFICES ASSUME NEW i \in 0 .. k PROVE c[i] <= peak
    OBVIOUS
  <2>1. CASE i = k
    BY <1>2, <1>3, <2>1
  <2>2. CASE i \in 0 .. k - 1
    <3>1. c[i] <= w.peak /\ c[i] \in Int
      BY <1>6, <1>8, <2>2
    <3> QED  BY <1>1, <1>3, <3>1
  <2> QED  BY <1>5, <2>1, <2>2
<1>11. \E i \in 0 .. k : \E j \in i .. k : worst = c[j] - c[i]
  <2>1. CASE worst = fall
    <3>1. k \in top .. k /\ worst = c[k] - c[top]
      BY <1>2, <1>9, <2>1
    <3> QED  BY <1>9, <3>1
  <2>2. CASE worst = w.worst
    <3>1. PICK i \in 0 .. k - 1 : \E j \in i .. k - 1 : w.worst = c[j] - c[i]
      BY <1>8
    <3>2. PICK j \in i .. k - 1 : w.worst = c[j] - c[i]
      BY <3>1
    <3>3. i \in 0 .. k /\ j \in i .. k
      BY <3>1, <3>2
    <3> QED  BY <2>2, <3>2, <3>3
  <2> QED  BY <1>3, <2>1, <2>2
<1>12. ASSUME NEW i \in 0 .. k, NEW j \in i .. k PROVE worst <= c[j] - c[i]
  <2>1. CASE j = k
    <3>1. c[i] <= peak /\ c[i] \in Int /\ fall = c[k] - peak
      BY <1>2, <1>5, <1>6, <1>7, <1>10
    <3>2. fall <= c[k] - c[i]
      <4> HIDE DEF fall
      <4> QED  BY <1>3, <1>7, <3>1
    <3> HIDE DEF fall
    <3> QED  BY <1>3, <1>7, <2>1, <3>1, <3>2
  <2>2. CASE j # k
    <3>1. i \in 0 .. k - 1 /\ j \in i .. k - 1 /\ j \in 0 .. k - 1
      BY <2>2
    <3>2. w.worst <= c[j] - c[i] /\ c[j] \in Int /\ c[i] \in Int
      BY <1>6, <1>8, <3>1
    <3> QED  BY <1>1, <1>3, <3>2
  <2> QED  BY <2>1, <2>2
<1>13. DeepestFall(x, c, k)
  BY <1>2, <1>4, <1>9, <1>10, <1>11, <1>12 DEF DeepestFall
<1> QED  BY <1>13 DEF x

LEMMA DrawdownIsDeepest ==
  ASSUME NEW N \in Nat, NEW trades, Len(trades) = N, DOMAIN trades = 1 .. N,
         \A k \in 1 .. N : trades[k].pnl \in Int
  PROVE  MaxDrawdown(trades) = Min(FallsOf(trades))
<1> DEFINE v == Pnls(trades)
           c == PartialSums(v)
           d == Drawdowns(trades)
           S == FallsOf(trades)
           worst == d[N].worst
           T == {k \in 0 .. N : DeepestFall(d[k], c, k)}
<1>1. /\ v \in [1 .. N -> Int] /\ \A k \in 1 .. N : v[k] = trades[k].pnl
      /\ \A ks : PnlOf(trades, ks) = TotalAt(v, ks)
  BY PnlIsATotal
<1> HIDE DEF v
<1>2. c \in [0 .. N -> Int] /\ c[0] = 0 /\ \A k \in 1 .. N : c[k] = c[k - 1] + trades[k].pnl
  <2>1. c \in [0 .. N -> Int] /\ c[0] = 0 /\ \A k \in 1 .. N : c[k] = c[k - 1] + v[k]
    BY <1>1, SumsAdd
  <2> HIDE DEF c
  <2> QED  BY <1>1, <2>1
<1>3. /\ d[0] = NoFall
      /\ \A k \in 1 .. N : d[k] = DrawdownTurn(d[k - 1], trades[k].pnl)
      /\ \A k \in 0 .. N : d[k] \in Walks
  BY DrawdownsRun
<1>4. \A i, j \in 1 .. N : PnlOf(trades, i .. j) = IF i <= j THEN c[j] - c[i - 1] ELSE 0
  <2> SUFFICES ASSUME NEW i \in 1 .. N, NEW j \in 1 .. N
               PROVE  PnlOf(trades, i .. j) = IF i <= j THEN c[j] - c[i - 1] ELSE 0
    OBVIOUS
  <2>1. CASE i <= j
    <3>1. i \in 1 .. N + 1 /\ j \in 0 .. N /\ i <= j + 1
      BY <2>1
    <3>2. TotalAt(v, i .. j) = c[j] - c[i - 1]
      BY <1>1, <3>1, TotalOfStretch
    <3> QED  BY <1>1, <2>1, <3>2
  <2>2. CASE ~ (i <= j)
    <3> DEFINE ks == i .. j
    <3>1. \A k \in 1 .. N : k \notin ks
      BY <2>2
    <3> HIDE DEF ks
    <3>2. TotalAt(v, ks) = 0
      BY <1>1, <3>1, TotalAtNone
    <3> QED  BY <1>1, <2>2, <3>2 DEF ks
  <2> QED  BY <2>1, <2>2
<1> HIDE DEF c, d
<1>5. 0 \in T
  <2>1. DeepestFall(NoFall, c, 0)
    BY <1>2 DEF DeepestFall, NoFall
  <2> QED  BY <1>3, <2>1
<1>6. ASSUME NEW k \in 1 .. N, k - 1 \in T PROVE k \in T
  <2> DEFINE p == trades[k].pnl
             w == d[k - 1]
  <2>1. k \in 0 .. N /\ k - 1 \in 0 .. N /\ DeepestFall(w, c, k - 1)
    BY <1>6
  <2>2. w \in Walks /\ d[k] = DrawdownTurn(w, p) /\ p \in Int /\ c[k] = c[k - 1] + p
    BY <1>2, <1>3, <2>1
  <2> HIDE DEF p, w
  <2>3. DeepestFall(DrawdownTurn(w, p), c, k)
    BY <1>2, <2>1, <2>2, TurnFalls
  <2> QED  BY <2>1, <2>2, <2>3
<1>7. 0 .. N \subseteq T
  <2> HIDE DEF T
  <2> QED  BY <1>5, <1>6, UpTo
<1>8. N \in 0 .. N /\ DeepestFall(d[N], c, N)
  BY <1>7
<1>9. S = {0} \cup {PnlOf(trades, i .. j) : i \in 1 .. N, j \in 1 .. N}
  BY DEF FallsOf
<1>10. \A y \in S : y \in Int /\ worst <= y
  <2> SUFFICES ASSUME NEW y \in S PROVE y \in Int /\ worst <= y
    OBVIOUS
  <2>1. CASE y = 0
    <3>1. 0 \in 0 .. N /\ 0 \in 0 .. N /\ c[0] - c[0] = 0
      BY <1>2
    <3>2. worst <= c[0] - c[0]
      BY <1>8, <3>1 DEF DeepestFall
    <3> QED  BY <2>1, <3>1, <3>2
  <2>2. CASE \E i, j \in 1 .. N : y = PnlOf(trades, i .. j)
    <3>1. PICK i \in 1 .. N, j \in 1 .. N : y = PnlOf(trades, i .. j)
      BY <2>2
    <3>2. CASE ~ (i <= j)
      <4>1. y = 0
        BY <1>4, <3>1, <3>2
      <4> QED  BY <2>1, <4>1
    <3>3. CASE i <= j
      <4>1. i - 1 \in 0 .. N /\ j \in i - 1 .. N /\ j \in 0 .. N
        BY <3>3
      <4>2. y = c[j] - c[i - 1]
        BY <1>4, <3>1, <3>3
      <4>3. c[j] \in Int /\ c[i - 1] \in Int
        BY <1>2, <4>1
      <4> QED  BY <1>8, <4>1, <4>2, <4>3 DEF DeepestFall
    <3> QED  BY <3>2, <3>3
  <2> QED  BY <1>9, <2>1, <2>2
<1>11. worst \in S
  <2>1. PICK i \in 0 .. N : \E j \in i .. N : worst = c[j] - c[i]
    BY <1>8 DEF DeepestFall
  <2>2. PICK j \in i .. N : worst = c[j] - c[i]
    BY <2>1
  <2>3. CASE i = j
    <3>1. c[i] \in Int
      BY <1>2, <2>1
    <3>2. worst = 0
      BY <2>2, <2>3, <3>1
    <3> QED  BY <1>9, <3>2
  <2>4. CASE i # j
    <3>1. i + 1 \in 1 .. N /\ j \in 1 .. N /\ i + 1 <= j /\ i + 1 - 1 = i
      BY <2>4
    <3>2. PnlOf(trades, i + 1 .. j) = c[j] - c[i]
      BY <1>4, <3>1
    <3> QED  BY <1>9, <2>2, <3>1, <3>2
  <2> QED  BY <2>3, <2>4
<1> HIDE DEF S, worst
<1>12. Min(S) = worst
  <2>1. S \subseteq Int /\ \A y \in S : worst <= y
    BY <1>10
  <2> QED  BY <1>11, <2>1, LeastIs
<1>13. MaxDrawdown(trades) = worst
  BY DEF MaxDrawdown, worst, d
<1> QED  BY <1>12, <1>13 DEF S

Streaks == [run : Nat, most : Nat]
NoStreak == [run |-> 0, most |-> 0]

LEMMA LosingWalkRuns ==
  ASSUME NEW N \in Nat, NEW trades, Len(trades) = N, \A k \in 1 .. N : trades[k].pnl \in Int
  PROVE  /\ LosingWalk(trades)[0] = NoStreak
         /\ \A k \in 1 .. N : LosingWalk(trades)[k] = LosingTurn(LosingWalk(trades)[k - 1], trades[k].pnl)
         /\ \A k \in 0 .. N : LosingWalk(trades)[k] \in Streaks
<1> DEFINE V == Streaks
           turn(f, k) == IF k = 0 THEN [run |-> 0, most |-> 0]
                         ELSE LosingTurn(f[k - 1], trades[k].pnl)
           walk == CHOOSE f : f = [k \in 0 .. N |-> turn(f, k)]
           next == [k \in 1 .. N |-> [w \in V |-> LosingTurn(w, trades[k].pnl)]]
<1>1. LosingWalk(trades) = walk
  BY DEF LosingWalk
<1>2. NoStreak \in V /\ \A w \in V : \A p \in Int : LosingTurn(w, p) \in V
  BY DEF Streaks, NoStreak, LosingTurn, Larger
<1> HIDE DEF V
<1>3. next \in [1 .. N -> [V -> V]]
  BY <1>2
<1>4. \A k \in 1 .. N : \A w \in V : next[k][w] = LosingTurn(w, trades[k].pnl)
  OBVIOUS
<1> HIDE DEF next
<1>5. PICK f \in [0 .. N -> V] : f[0] = NoStreak /\ \A k \in 1 .. N : f[k] = next[k][f[k - 1]]
  <2>1. HasRun(V, N, NoStreak, next)
    BY <1>2, <1>3, LoopRuns
  <2> QED  BY <2>1 DEF HasRun
<1>6. \A k \in 1 .. N : k - 1 \in 0 .. N /\ f[k] = LosingTurn(f[k - 1], trades[k].pnl)
  BY <1>4, <1>5
<1>7. ASSUME NEW k \in 0 .. N PROVE f[k] = turn(f, k)
  <2>1. CASE k = 0
    BY <1>5, <2>1 DEF NoStreak
  <2>2. CASE k # 0
    <3>1. k \in 1 .. N
      BY <2>2
    <3> QED  BY <1>6, <2>2, <3>1
  <2> QED  BY <2>1, <2>2
<1>8. f = [k \in 0 .. N |-> turn(f, k)]
  <2> HIDE DEF turn
  <2> QED  BY <1>5, <1>7
<1>9. walk = [k \in 0 .. N |-> turn(walk, k)]
  <2> HIDE DEF turn
  <2> QED  BY <1>8
<1> HIDE DEF walk
<1>10. walk[0] = NoStreak /\ \A k \in 1 .. N : walk[k] = LosingTurn(walk[k - 1], trades[k].pnl)
  BY <1>9 DEF NoStreak
<1> DEFINE T == {k \in 0 .. N : walk[k] \in V}
<1>11. 0 \in T
  BY <1>2, <1>10
<1>12. ASSUME NEW k \in 1 .. N, k - 1 \in T PROVE k \in T
  <2>1. k \in 0 .. N /\ walk[k - 1] \in V
    BY <1>12
  <2> QED  BY <1>2, <1>10, <2>1
<1>13. 0 .. N \subseteq T
  <2> HIDE DEF T
  <2> QED  BY <1>11, <1>12, UpTo
<1>14. \A k \in 0 .. N : walk[k] \in V
  BY <1>13
<1> QED  BY <1>1, <1>10, <1>14 DEF V

(* The losing run so far is the last trades, the longest one is somewhere and
   none is longer; lost is the set of the trades that lost. *)
LongestRun(s, lost, k) ==
  /\ s.run \in 0 .. k /\ s.most \in 0 .. k
  /\ \A l \in k - s.run + 1 .. k : l \in lost
  /\ s.run < k => k - s.run \notin lost
  /\ \E i \in 1 .. k - s.most + 1 : \A l \in i .. i + s.most - 1 : l \in lost
  /\ \A m \in 0 .. k : \A i \in 1 .. k - m + 1 :
       (\A l \in i .. i + m - 1 : l \in lost) => m <= s.most

LEMMA TurnLoses ==
  ASSUME NEW k \in Nat, k >= 1, NEW lost, NEW p \in Int, p < 0 <=> k \in lost,
         NEW s \in Streaks, LongestRun(s, lost, k - 1)
  PROVE  LongestRun(LosingTurn(s, p), lost, k)
<1> DEFINE run == IF p < 0 THEN s.run + 1 ELSE 0
           most == Larger(s.most, run)
           x == LosingTurn(s, p)
<1>1. x.run = run /\ x.most = most
  BY DEF LosingTurn
<1>2. s.run \in 0 .. k - 1 /\ s.most \in 0 .. k - 1
  BY DEF LongestRun
<1>3. /\ \A l \in k - 1 - s.run + 1 .. k - 1 : l \in lost
      /\ s.run < k - 1 => k - 1 - s.run \notin lost
      /\ \E i \in 1 .. k - 1 - s.most + 1 : \A l \in i .. i + s.most - 1 : l \in lost
      /\ \A m \in 0 .. k - 1 : \A i \in 1 .. k - 1 - m + 1 :
           (\A l \in i .. i + m - 1 : l \in lost) => m <= s.most
  BY DEF LongestRun
<1>4. /\ k \in lost => run = s.run + 1
      /\ k \notin lost => run = 0
  OBVIOUS
<1> HIDE DEF run
<1>5. run \in 0 .. k
  BY <1>2, <1>4
<1>6. most \in 0 .. k /\ s.most <= most /\ run <= most /\ (most = s.most \/ most = run)
  BY <1>2, <1>5 DEF Larger
<1> HIDE DEF most, x
<1>7. ASSUME NEW l \in k - run + 1 .. k PROVE l \in lost
  <2>1. CASE k \in lost
    <3>1. run = s.run + 1
      BY <1>4, <2>1
    <3>2. l = k \/ l \in k - 1 - s.run + 1 .. k - 1
      BY <1>2, <3>1
    <3> QED  BY <1>3, <2>1, <3>2
  <2>2. CASE k \notin lost
    BY <1>4, <2>2
  <2> QED  BY <2>1, <2>2
<1>8. ASSUME run < k PROVE k - run \notin lost
  <2>1. CASE k \in lost
    <3>1. s.run < k - 1 /\ k - run = k - 1 - s.run
      BY <1>2, <1>4, <1>8, <2>1
    <3> QED  BY <1>3, <3>1
  <2>2. CASE k \notin lost
    BY <1>4, <2>2
  <2> QED  BY <2>1, <2>2
<1>9. \E i \in 1 .. k - most + 1 : \A l \in i .. i + most - 1 : l \in lost
  <2>1. CASE most = run
    <3> DEFINE i == k - most + 1
    <3>1. i \in 1 .. k - most + 1 /\ i .. i + most - 1 = k - run + 1 .. k
      BY <1>5, <1>6, <2>1
    <3> QED  BY <1>7, <3>1
  <2>2. CASE most = s.most
    <3>1. PICK i \in 1 .. k - 1 - s.most + 1 : \A l \in i .. i + s.most - 1 : l \in lost
      BY <1>3
    <3>2. i \in 1 .. k - most + 1
      BY <1>2, <2>2
    <3> QED  BY <2>2, <3>1, <3>2
  <2> QED  BY <1>6, <2>1, <2>2
<1>10. ASSUME NEW m \in 0 .. k, NEW i \in 1 .. k - m + 1, \A l \in i .. i + m - 1 : l \in lost
       PROVE  m <= most
  <2>1. CASE m = 0
    BY <1>6, <2>1
  <2>2. CASE m # 0 /\ i + m - 1 < k
    <3>1. m \in 0 .. k - 1 /\ i \in 1 .. k - 1 - m + 1
      BY <2>2
    <3>2. m <= s.most
      BY <1>3, <1>10, <3>1
    <3> QED  BY <1>2, <1>6, <3>2
  <2>3. CASE m # 0 /\ ~ (i + m - 1 < k)
    <3>1. SUFFICES ASSUME m > run PROVE FALSE
      BY <1>5, <1>6
    <3>2. run < k /\ k - run \in i .. i + m - 1
      BY <1>5, <2>3, <3>1
    <3> QED  BY <1>8, <1>10, <3>2
  <2> QED  BY <2>1, <2>2, <2>3
<1>11. LongestRun(x, lost, k)
  BY <1>1, <1>5, <1>6, <1>7, <1>8, <1>9, <1>10 DEF LongestRun
<1> QED  BY <1>11 DEF x

LEMMA LossesAreLongest ==
  ASSUME NEW N \in Nat, NEW trades, Len(trades) = N, \A k \in 1 .. N : trades[k].pnl \in Int
  PROVE  MaxLosses(trades) = Max(LosingRuns(trades))
<1> DEFINE w == LosingWalk(trades)
           lost == {k \in 1 .. N : trades[k].pnl < 0}
           S == LosingRuns(trades)
           most == w[N].most
           T == {k \in 0 .. N : LongestRun(w[k], lost, k)}
<1>1. /\ w[0] = NoStreak
      /\ \A k \in 1 .. N : w[k] = LosingTurn(w[k - 1], trades[k].pnl)
      /\ \A k \in 0 .. N : w[k] \in Streaks
  BY LosingWalkRuns
<1> HIDE DEF w
<1>2. 0 \in T
  <2>1. LongestRun(NoStreak, lost, 0)
    BY DEF LongestRun, NoStreak
  <2> QED  BY <1>1, <2>1
<1>3. ASSUME NEW k \in 1 .. N, k - 1 \in T PROVE k \in T
  <2> DEFINE p == trades[k].pnl
  <2>1. k \in 0 .. N /\ k - 1 \in 0 .. N /\ LongestRun(w[k - 1], lost, k - 1)
    BY <1>3
  <2>2. w[k - 1] \in Streaks /\ w[k] = LosingTurn(w[k - 1], p) /\ p \in Int
    BY <1>1, <2>1
  <2>3. p < 0 <=> k \in lost
    OBVIOUS
  <2> HIDE DEF lost, p
  <2>4. LongestRun(LosingTurn(w[k - 1], p), lost, k)
    BY <2>1, <2>2, <2>3, TurnLoses
  <2> QED  BY <2>1, <2>2, <2>4
<1>4. 0 .. N \subseteq T
  <2> HIDE DEF T
  <2> QED  BY <1>2, <1>3, UpTo
<1>5. LongestRun(w[N], lost, N)
  <2>1. N \in 0 .. N
    OBVIOUS
  <2>2. N \in T
    <3> HIDE DEF T
    <3> QED  BY <1>4, <2>1
  <2> HIDE DEF lost
  <2> QED  BY <2>2
<1>6. most \in 0 .. N
  BY <1>5 DEF LongestRun
<1>7. \A n \in 0 .. N : \A i \in 1 .. N - n + 1 :
        (\A k \in i .. i + n - 1 : trades[k].pnl < 0) <=> (\A k \in i .. i + n - 1 : k \in lost)
  OBVIOUS
<1>8. S = {n \in 0 .. N : \E i \in 1 .. N - n + 1 : \A k \in i .. i + n - 1 : trades[k].pnl < 0}
  BY DEF LosingRuns
<1> HIDE DEF S, lost
<1>9. most \in S
  <2>1. PICK i \in 1 .. N - most + 1 : \A k \in i .. i + most - 1 : k \in lost
    BY <1>5 DEF LongestRun
  <2> HIDE DEF most
  <2>2. \A k \in i .. i + most - 1 : trades[k].pnl < 0
    BY <1>6, <1>7, <2>1
  <2> QED  BY <1>6, <1>8, <2>1, <2>2
<1>10. ASSUME NEW n \in S PROVE n \in 0 .. N /\ n <= most
  <2>1. n \in 0 .. N
    BY <1>8
  <2>2. PICK i \in 1 .. N - n + 1 : \A k \in i .. i + n - 1 : trades[k].pnl < 0
    BY <1>8
  <2>3. \A k \in i .. i + n - 1 : k \in lost
    BY <1>7, <2>1, <2>2
  <2> QED  BY <1>5, <2>1, <2>3 DEF LongestRun
<1> HIDE DEF most
<1>11. Max(S) = most
  <2>1. S \subseteq Int /\ most \in S /\ \A y \in S : y <= most
    BY <1>9, <1>10
  <2> QED  BY <2>1, GreatestIs
<1>12. MaxLosses(trades) = most
  BY DEF MaxLosses, most, w
<1> QED  BY <1>11, <1>12 DEF S

-----------------------------------------------------------------------------
(* The report as a whole. *)
LEMMA ReportHolds == BacktestInv => ReportAddsUp
<1> SUFFICES ASSUME BacktestInv, dbTrades # <<>>
             PROVE  /\ SumOfLines(dbStats.monthly, MonthNames) = dbStats.total
                    /\ SumOfLines(dbStats.byTrend, TrendNames) = dbStats.total
                    /\ SumOfLines(dbStats.byReason, ReasonNames) = dbStats.total
                    /\ dbStats.drawdown = Min(FallsOf(dbTrades))
                    /\ dbStats.losses = Max(LosingRuns(dbTrades))
  BY DEF ReportAddsUp
<1> DEFINE N == Len(dbTrades)
           L == Len(dbBars)
           stats == ComputeStats(dbTrades)
<1>1. dbBars \in BtDays /\ dbTrades = RunBacktest(dbBars) /\ dbStats = stats
  BY DEF BacktestInv
<1>2. L \in Nat
  BY <1>1, DaysTyped
<1>3. dbTrades \in Books(dbBars)
  BY <1>1, <1>2, EachDayIsTraded
<1>4. /\ N \in Nat /\ DOMAIN dbTrades = 1 .. N
      /\ \A k \in 1 .. N : TradeTyped(dbTrades[k], dbBars, L)
  BY <1>1, <1>3, BookTyped
<1>5. Reported(dbTrades, N, L)
  BY <1>4 DEF Reported, TradeTyped
<1>6. \A k \in 1 .. N : dbTrades[k].pnl \in Int
  BY <1>5 DEF Reported
<1>7. /\ stats.total = PnlOf(dbTrades, 1 .. N)
      /\ stats.drawdown = MaxDrawdown(dbTrades) /\ stats.losses = MaxLosses(dbTrades)
  BY <1>4 DEF ComputeStats
<1>8. SumOfLines(stats.monthly, MonthNames) = PnlOf(dbTrades, 1 .. N)
  <2>1. 1 \in 1 .. N
    <3>1. dbTrades \in Seq({TradeOf(dbBars, d) : d \in DaysTraded(dbBars)})
      BY <1>3 DEF Books
    <3>2. N # 0
      BY <3>1
    <3> QED  BY <1>4, <3>2
  <2>2. L >= 8
    <3>1. dbTrades[1].day \in 8 .. L
      BY <1>5, <2>1 DEF Reported
    <3> QED  BY <1>2, <3>1
  <2> QED  BY <1>2, <1>4, <1>5, <2>2, MonthsAddUp DEF MonthNames
<1>9. SumOfLines(stats.byTrend, TrendNames) = PnlOf(dbTrades, 1 .. N)
  BY <1>2, <1>4, <1>5, TrendsAddUp
<1>10. SumOfLines(stats.byReason, ReasonNames) = PnlOf(dbTrades, 1 .. N)
  BY <1>2, <1>4, <1>5, ReasonsAddUp
<1>11. MaxDrawdown(dbTrades) = Min(FallsOf(dbTrades))
  BY <1>4, <1>6, DrawdownIsDeepest
<1>12. MaxLosses(dbTrades) = Max(LosingRuns(dbTrades))
  BY <1>4, <1>6, LossesAreLongest
<1> HIDE DEF stats
<1> QED  BY <1>1, <1>7, <1>8, <1>9, <1>10, <1>11, <1>12

(* The backtest of the intraday rule looks at no later day, books no price that
   the day did not trade at, and its report adds up: run_backtest,
   _simulate_day and _compute_stats of backtest.py, for every history and every
   setting. *)
THEOREM BacktestHolds == DbSpec => BacktestIsHonest
<1>1. BacktestInv => DecidedAtTheOpen /\ ExitsWereTraded /\ ReportAddsUp
  BY OpensDecide, PricesWereTraded, ReportHolds
<1> QED  BY <1>1, BacktestInvHolds, TradesStand, PTL
            DEF DbSpec, BacktestIsHonest, PastTradesStand
=============================================================================
