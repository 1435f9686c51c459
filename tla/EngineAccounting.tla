-------------------------- MODULE EngineAccounting --------------------------
(***************************************************************************)
(* The reference engine together with the part of the account that only    *)
(* reports read: average_prices and realized_pnl, which _update_position   *)
(* changes along with the quantity at every fill (adapters/reference.py).  *)
(* Prices are in 1/PriceUnit of a tick, as in ReferenceEngine; averages    *)
(* and profits are exact fractions.                                        *)
(***************************************************************************)
EXTENDS ReferenceEngine, Rational, SequencesExt

(* The positions of an account are a finite dictionary.                     *)
ASSUME AccountAssumption == IsFiniteSet(Instruments)

VARIABLES average_prices, realized_pnl

bookVars == <<average_prices, realized_pnl>>

Zero == Whole(0)
Magnitude(n) == IF n < 0 THEN -n ELSE n

InitBooks ==
  /\ average_prices = [i \in Instruments |-> Zero]
  /\ realized_pnl = [i \in Instruments |-> Zero]

(* old_quantity == 0 or old_quantity * delta > 0                            *)
Opens(old, delta) == old = 0 \/ old * delta > 0

(* The weighted mean of what was held and what was added.                   *)
MeanPrice(old, average, delta, price) ==
  Over(Plus(Times(average, Magnitude(old)), Whole(Magnitude(delta) * price)),
       Magnitude(old + delta))

(* Two slips: turning round, and closing, leave the average as it was.      *)
SlipKeepsOnTurn(old, average, delta, price) ==
  IF Opens(old, delta) THEN MeanPrice(old, average, delta, price)
  ELSE IF old + delta = 0 THEN Zero ELSE average

SlipKeepsOnClose(old, average, delta, price) ==
  IF Opens(old, delta) THEN MeanPrice(old, average, delta, price)
  ELSE IF old * (old + delta) < 0 THEN Whole(price) ELSE average

(* A fill that reduces the position keeps its average; one that closes it   *)
(* clears it; one that turns it round starts again at the fill's price.     *)
AverageAfter(old, average, delta, price) ==
  IF Opens(old, delta) THEN MeanPrice(old, average, delta, price)
  ELSE IF old + delta = 0 THEN Zero
  ELSE IF old * (old + delta) < 0 THEN Whole(price)
  ELSE average

RealizedAfter(old, average, delta, price, realized) ==
  IF Opens(old, delta) THEN realized
  ELSE LET closing == IF Magnitude(old) < Magnitude(delta) THEN Magnitude(old)
                      ELSE Magnitude(delta)
           gain    == Times(Minus(Whole(price), average), closing)
       IN Plus(realized, IF old > 0 THEN gain ELSE Times(gain, -1))

(* _update_position, for a fill of the step that has just been settled.     *)
UpdatePosition(f) ==
  LET i == f.instrument_id
      delta == Signed(f.side, f.quantity)
  IN
  /\ average_prices' = [average_prices EXCEPT
       ![i] = AverageAfter(quantities[i], @, delta, f.price)]
  /\ realized_pnl' = [realized_pnl EXCEPT
       ![i] = RealizedAfter(quantities[i], average_prices[i], delta, f.price, @)]

Filling == fills' # fills

BooksInit == Init /\ InitBooks
BooksNext ==
  \/ SettleFilled /\ UpdatePosition(Last(fills'))
  \/ Next /\ ~Filling /\ UNCHANGED bookVars

BooksSpec == BooksInit /\ [][BooksNext]_<<vars, bookVars>>

-----------------------------------------------------------------------------
Unrealized(i) == Times(Minus(Whole(marks[i]), average_prices[i]), quantities[i])
Profit(i)     == Plus(realized_pnl[i], Unrealized(i))
FeesPaid      == SumFunction([j \in DOMAIN fills |-> fills[j].fee])

(* Every snapshot's equity is the initial cash, plus the realized and the   *)
(* unrealized profit of every position it reports, less every fee.          *)
EquityIdentity ==
  phase = "act" =>
    Whole(snapshot.equity) =
      Plus(Whole(InitialCash * CashUnit - FeesPaid),
           Times(FoldFunction(Plus, Zero, [i \in Instruments |-> Profit(i)]), FeeDen))

(* A position has an average price exactly when it is not flat, and the     *)
(* average lies between two prices at which the instrument has filled on    *)
(* the side that opened it (Position.average_price is never negative).      *)
Opening(i) ==
  {j \in DOMAIN fills : fills[j].instrument_id = i
                        /\ fills[j].side = IF quantities[i] > 0 THEN "buy" ELSE "sell"}

AverageWithinFills ==
  \A i \in Instruments :
    IF quantities[i] = 0 THEN average_prices[i] = Zero
    ELSE \E low, high \in Opening(i) :
           /\ AtMost(Whole(fills[low].price), average_prices[i])
           /\ AtMost(average_prices[i], Whole(fills[high].price))

(* The cash and the positions are those the reported fills add up to.       *)
FillsOf(i) == {j \in DOMAIN fills : fills[j].instrument_id = i}
Bought(i)  == SumFunction([j \in FillsOf(i) |-> Signed(fills[j].side, fills[j].quantity)])
Spent(i)   == SumFunction([j \in FillsOf(i) |->
                             Signed(fills[j].side, fills[j].quantity * fills[j].price)])

FillsExplainAccount ==
  /\ \A i \in Instruments : quantities[i] = Bought(i)
  /\ cash = InitialCash * CashUnit - FeesPaid
               - FeeDen * SumFunction([i \in Instruments |-> Spent(i)])
=============================================================================
