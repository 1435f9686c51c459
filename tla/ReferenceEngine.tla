--------------------------- MODULE ReferenceEngine ---------------------------
(***************************************************************************)
(* ReferenceEngine.run (adapters/reference.py): the deterministic event    *)
(* loop of the reference backtest engine.                                  *)
(*                                                                         *)
(* For every market event the engine sets the mark of its instrument,      *)
(* settles the pending orders of that instrument in the order in which     *)
(* they were accepted, values the account, shows the strategy that         *)
(* snapshot and handles the actions the strategy returns one by one.  The  *)
(* first illegal action ends the whole run.  When the events are used up   *)
(* every order that is still pending expires.                              *)
(*                                                                         *)
(* The strategy is the environment: at every event it may return any       *)
(* tuple of at most MaxActions members of Actions, and any of its          *)
(* callbacks may raise.                                                    *)
(*                                                                         *)
(* Money.  Quantities are whole lots (the engine quantizes to 0.000001)    *)
(* and event prices whole ticks per lot.  Marks and fill prices are kept   *)
(* in 1/PriceUnit of a tick and cash in 1/CashUnit of a tick, which makes  *)
(* slippage, midpoints and fees exact integers, as Decimal makes them.     *)
(*                                                                         *)
(* The code's list "pending" is the function pending from acceptance       *)
(* numbers to orders: an order is only ever appended, a replacement keeps  *)
(* its place and removals keep the order of the rest, so the list is that  *)
(* function read in ascending order.                                       *)
(***************************************************************************)
EXTENDS Market

CONSTANTS
  Tapes,            \* the event tuples a run may be given
  Actions,          \* the actions the strategy may return
  MaxActions,       \* bound: actions returned for one event
  InitialCash,      \* initial_cash, in ticks
  FeeNum, FeeDen,   \* fee_rate = FeeNum / FeeDen
  SlipNum, SlipDen, \* slippage_bps / 10000 = SlipNum / SlipDen
  WeightOne,        \* a weight w stands for w / WeightOne
  MaxAbsPosition,   \* manifest.action_requirements.max_abs_position, or NoLimit
  MaxOrderQuantity, \* manifest.action_requirements.max_order_quantity, or NoLimit
  NoLimit           \* Python's None for the two limits

(* An order identifier.  <<"order", n>> is the string f"order:{n}", the     *)
(* form the engine generates for targets; <<"client", n>> is any other.     *)
OrderId == {"order", "client"} \X Nat

GeneratedId(n) == <<"order", n>>

NoneSide == "none"

Action ==
       [kind: {"no_op", "prediction"}]
  \cup [kind: {"target_position"}, instrument_id: Instruments, quantity: Int]
  \cup [kind: {"target_weight"}, instrument_id: Instruments,
        weight: -WeightOne .. WeightOne]
  \cup {a \in [kind: {"submit_order"}, client_order_id: OrderId,
               instrument_id: Instruments, side: Side,
               order_type: {"market", "limit", "stop", "stop_limit"},
               quantity: Nat \ {0}, limit_price: Nat] :
          a.order_type \in {"limit", "stop_limit"} => a.limit_price # 0}
  \cup [kind: {"cancel_order"}, client_order_id: OrderId]
  \cup [kind: {"replace_order"}, client_order_id: OrderId,
        new_quantity: Nat, new_limit_price: Nat]

(* A pending order; a field that is None in the code is 0 or NoneSide.      *)
Order ==
  {o \in [client_order_id: OrderId, instrument_id: Instruments,
          order_type: {"target", "market", "limit"}, submitted_at: Nat,
          side: Side \cup {NoneSide}, quantity: Nat, target_quantity: Int,
          limit_price: Nat] :
     /\ o.order_type # "target" => o.side \in Side /\ o.quantity > 0
     /\ o.order_type = "limit" => o.limit_price > 0}

ASSUME ConstantsAssumption ==
  /\ Tapes \subseteq Seq(MarketEvent)
  /\ Actions \subseteq Action
  /\ MaxActions \in Nat
  /\ InitialCash \in Nat \ {0}
  /\ FeeNum \in Nat  /\ FeeDen \in Nat \ {0}
  /\ SlipNum \in Nat /\ SlipDen \in Nat \ {0} /\ SlipNum < SlipDen
  /\ WeightOne \in Nat \ {0}

(* None is no number: it is what tells "no limit" from every limit.         *)
ASSUME LimitsAssumption ==
  /\ MaxAbsPosition = NoLimit   \/ MaxAbsPosition \in Nat \ {0}
  /\ MaxOrderQuantity = NoLimit \/ MaxOrderQuantity \in Nat \ {0}
  /\ NoLimit \notin Int

PriceUnit == 2 * SlipDen
CashUnit  == PriceUnit * FeeDen

-----------------------------------------------------------------------------
VARIABLES
  events,        \* the event tuple of this run
  phase,         \* where the program is: see Phases
  error,         \* the code of the ContractError that ended the run
  event_index,   \* number of events begun; the current one is events[event_index]
  acted,         \* number of actions of the current event handled so far
  cash,          \* in 1/CashUnit
  quantities,    \* position of every instrument, 0 where the dict has no key
  marks,         \* in 1/PriceUnit, 0 where the dict has no key
  pending,       \* acceptance number -> live order
  unsettled,     \* numbers _settle_pending has still to look at
  unvalued,      \* instruments _snapshot has still to add up
  market_value,  \* _snapshot's running sum, in 1/CashUnit
  snapshot,      \* the snapshot shown to the strategy
  fills,         \* the fill records
  order_events,  \* the order event records
  order_count,   \* orders accepted
  no_op_count

accountVars  == <<cash, quantities, fills>>
valueVars    == <<unvalued, market_value, snapshot>>
orderVars    == <<pending, order_events, order_count>>
programVars  == <<events, phase, error, event_index, acted>>
vars == <<programVars, accountVars, valueVars, orderVars, marks, unsettled, no_op_count>>

Phases == {"validate", "loop", "settle", "value", "act", "finish",
           "succeeded", "failed"}

Errors == {"none", "BACKTEST_FAILED", "DATA_ORDERING_INVALID", "ACTION_INVALID",
           "ORDER_REJECTED", "exception"}

Terminal == {"filled", "satisfied", "canceled", "expired"}

(* number is the acceptance number of the order, order its terms at the     *)
(* time (the code records only its identifier and its instrument).          *)
OrderEvent == [status: Terminal \cup {"accepted", "replaced"}, at: Nat,
               number: Nat, order: Order]

Fill == [at: Nat, number: Nat, client_order_id: OrderId, instrument_id: Instruments,
         side: Side, quantity: Nat \ {0}, price: Nat \ {0}, fee: Nat]

event    == events[event_index]
universe == {events[i].instrument_id : i \in DOMAIN events}

Record(status, n, o) ==
  [status |-> status, at |-> event_index, number |-> n, order |-> o]

(* A slip: the list is consumed from its end.                               *)
SlipNewestFirst(numbers) == CHOOSE n \in numbers : \A m \in numbers : n >= m

(* The head of what remains of the list.                                    *)
First(numbers) == CHOOSE n \in numbers : \A m \in numbers : n <= m

(* A slip: the settled order is left on the list. (No action uses a slip;   *)
(* the README says which property each of them breaks.)                     *)
SlipKeepsOrder(f, S) == f

Without(f, S) == [n \in DOMAIN f \ S |-> f[n]]

-----------------------------------------------------------------------------
Init ==
  /\ events \in Tapes
  /\ phase = "validate" /\ error = "none"
  /\ event_index = 0 /\ acted = 0
  /\ cash = InitialCash * CashUnit
  /\ quantities = [i \in Instruments |-> 0]
  /\ marks = [i \in Instruments |-> 0]
  /\ pending = <<>> /\ unsettled = {} /\ unvalued = {}
  /\ market_value = 0
  /\ snapshot = [cash |-> cash, equity |-> cash]
  /\ fills = <<>> /\ order_events = <<>>
  /\ order_count = 0 /\ no_op_count = 0

(* A ContractViolation, or an exception of the strategy, leaves run() at    *)
(* once: nothing of the run is reported.                                    *)
Fail(code) ==
  /\ phase' = "failed" /\ error' = code
  /\ UNCHANGED <<events, event_index, acted, accountVars, valueVars, orderVars,
                 marks, unsettled, no_op_count>>

GoTo(next) ==
  /\ phase' = next
  /\ UNCHANGED <<events, error>>

-----------------------------------------------------------------------------
(* _validate_events.                                                        *)
RejectEmptyTape ==
  /\ phase = "validate" /\ events = <<>>
  /\ Fail("BACKTEST_FAILED")

RejectDisorder ==
  /\ phase = "validate" /\ events # <<>> /\ ~StrictlyOrdered(events)
  /\ Fail("DATA_ORDERING_INVALID")

Start ==
  /\ phase = "validate" /\ events # <<>> /\ StrictlyOrdered(events)
  /\ GoTo("loop")
  /\ UNCHANGED <<event_index, acted, accountVars, valueVars, orderVars, marks,
                 unsettled, no_op_count>>

(* on_start, on_event or on_finish raises; the engine catches nothing.      *)
StrategyRaises ==
  /\ \/ phase = "loop" /\ event_index \in {0, Len(events)}
     \/ phase = "act" /\ acted = 0
  /\ Fail("exception")

(* The top of the loop: the mark first, then the pending orders.            *)
BeginEvent ==
  /\ phase = "loop" /\ event_index < Len(events)
  /\ event_index' = event_index + 1
  /\ marks' = [marks EXCEPT ![events[event_index'].instrument_id] =
                 SlipDen * DoubleMark(events[event_index'].payload)]
  /\ unsettled' = DOMAIN pending
  /\ GoTo("settle")
  /\ UNCHANGED <<acted, accountVars, valueVars, orderVars, no_op_count>>

-----------------------------------------------------------------------------
(* _settle_pending, one step per pending order.                             *)
Delta(o) == o.target_quantity - quantities[o.instrument_id]

FillSide(o) ==
  IF o.order_type # "target" THEN o.side
  ELSE IF Delta(o) > 0 THEN "buy" ELSE "sell"

(* Two slips: the sign is kept; the whole target is bought or sold.         *)
SlipSignedQuantity(o) ==
  IF o.order_type # "target" THEN o.quantity ELSE Delta(o)

SlipWholeTarget(o) ==
  IF o.order_type # "target" THEN o.quantity
  ELSE IF o.target_quantity > 0 THEN o.target_quantity ELSE -o.target_quantity

FillQuantity(o) ==
  IF o.order_type # "target" THEN o.quantity
  ELSE IF Delta(o) > 0 THEN Delta(o) ELSE -Delta(o)

(* The limit price, or the market price with the slippage against the side. *)
FillPrice(o) ==
  IF o.order_type = "limit"
  THEN PriceUnit * LimitFillPrice(event.payload, o.side, o.limit_price)
  ELSE 2 * MarketPrice(event.payload, FillSide(o)) *
         (IF FillSide(o) = "buy" THEN SlipDen + SlipNum ELSE SlipDen - SlipNum)

Executable(o, e) ==
  /\ o.instrument_id = e.instrument_id
  /\ o.order_type = "limit" => LimitTouched(e.payload, o.side, o.limit_price)

Satisfied(o) == o.order_type = "target" /\ Delta(o) = 0

(* A slip: break where the loop says continue.                              *)
SlipBreak ==
  /\ phase = "settle" /\ unsettled # {}
  /\ ~Executable(pending[First(unsettled)], event)
  /\ unsettled' = {}
  /\ UNCHANGED <<programVars, accountVars, valueVars, orderVars, marks, no_op_count>>

(* The order stays on the list.                                             *)
SettleKept ==
  /\ phase = "settle" /\ unsettled # {}
  /\ ~Executable(pending[First(unsettled)], event)
  /\ unsettled' = unsettled \ {First(unsettled)}
  /\ UNCHANGED <<programVars, accountVars, valueVars, orderVars, marks, no_op_count>>

SettleSatisfied ==
  LET n == First(unsettled) o == pending[n] IN
  /\ phase = "settle" /\ unsettled # {}
  /\ Executable(o, event) /\ Satisfied(o)
  /\ unsettled' = unsettled \ {n}
  /\ pending' = Without(pending, {n})
  /\ order_events' = Append(order_events, Record("satisfied", n, o))
  /\ UNCHANGED <<programVars, accountVars, valueVars, order_count, marks, no_op_count>>

(* What a fill does to the account.                                         *)
Signed(side, amount) == IF side = "buy" THEN amount ELSE -amount

FillOf(n, o) ==
  LET q == FillQuantity(o) p == FillPrice(o) IN
  [at |-> event_index, number |-> n, client_order_id |-> o.client_order_id,
   instrument_id |-> o.instrument_id, side |-> FillSide(o), quantity |-> q,
   price |-> p, fee |-> q * p * FeeNum]

(* A slip of precedence: only a sale pays its fee.                          *)
SlipFeeOnSales(f) ==
  IF f.side = "buy" THEN -(f.quantity * f.price * FeeDen)
  ELSE f.quantity * f.price * FeeDen - f.fee

CashDelta(f) == -Signed(f.side, f.quantity * f.price * FeeDen) - f.fee

SettleFilled ==
  LET n == First(unsettled) o == pending[n] f == FillOf(n, o) IN
  /\ phase = "settle" /\ unsettled # {}
  /\ Executable(o, event) /\ ~Satisfied(o)
  /\ unsettled' = unsettled \ {n}
  /\ pending' = Without(pending, {n})
  /\ cash' = cash + CashDelta(f)
  /\ quantities' = [quantities EXCEPT ![o.instrument_id] = @ + Signed(f.side, f.quantity)]
  /\ fills' = Append(fills, f)
  /\ order_events' = Append(order_events, Record("filled", n, o))
  /\ UNCHANGED <<programVars, valueVars, order_count, marks, no_op_count>>

EndSettlement ==
  /\ phase = "settle" /\ unsettled = {}
  /\ unvalued' = {i \in Instruments : quantities[i] # 0}
  /\ market_value' = 0
  /\ GoTo("value")
  /\ UNCHANGED <<event_index, acted, accountVars, snapshot, orderVars, marks,
                 unsettled, no_op_count>>

(* _snapshot, one step per position; then the strategy is called.           *)
ValuePosition ==
  LET i == CHOOSE j \in unvalued : TRUE IN
  /\ phase = "value" /\ unvalued # {}
  /\ unvalued' = unvalued \ {i}
  /\ market_value' = market_value + quantities[i] * marks[i] * FeeDen
  /\ UNCHANGED <<programVars, accountVars, snapshot, orderVars, marks, unsettled,
                 no_op_count>>

TakeSnapshot ==
  /\ phase = "value" /\ unvalued = {}
  /\ snapshot' = [cash |-> cash, equity |-> cash + market_value]
  /\ acted' = 0
  /\ GoTo("act")
  /\ UNCHANGED <<event_index, accountVars, unvalued, market_value, orderVars,
                 marks, unsettled, no_op_count>>

-----------------------------------------------------------------------------
(* The actions of the strategy.  Every handler below is one branch of the   *)
(* loop over the returned tuple.                                            *)
Acting(a, kind) == phase = "act" /\ acted < MaxActions /\ a.kind = kind

Reject(code) == phase = "act" /\ Fail(code)

ActionDone ==
  /\ acted' = acted + 1
  /\ UNCHANGED <<events, phase, error, event_index, accountVars, valueVars,
                 marks, unsettled>>

HandleNoOp(a) ==
  /\ Acting(a, "no_op")
  /\ no_op_count' = no_op_count + 1
  /\ ActionDone /\ UNCHANGED orderVars

HandlePrediction(a) ==
  /\ Acting(a, "prediction")
  /\ ActionDone /\ UNCHANGED <<orderVars, no_op_count>>

(* The live orders that carry an identifier: two can, see the README.       *)
Bearers(id) == {n \in DOMAIN pending : pending[n].client_order_id = id}

(* A slip: the cancel is reported and the order stays.                      *)
SlipReportsCancel(a) ==
  LET bearers == Bearers(a.client_order_id) IN
  /\ Acting(a, "cancel_order") /\ bearers # {}
  /\ order_events' = Append(order_events,
       Record("canceled", First(bearers), pending[First(bearers)]))
  /\ ActionDone /\ UNCHANGED <<pending, order_count, no_op_count>>

(* _cancel reports the first bearer and removes them all.                   *)
HandleCancel(a) ==
  LET bearers == Bearers(a.client_order_id) IN
  /\ Acting(a, "cancel_order")
  /\ bearers # {}
  /\ pending' = Without(pending, bearers)
  /\ order_events' = Append(order_events,
       Record("canceled", First(bearers), pending[First(bearers)]))
  /\ ActionDone /\ UNCHANGED <<order_count, no_op_count>>

RejectCancel(a) ==
  /\ Acting(a, "cancel_order") /\ Bearers(a.client_order_id) = {}
  /\ Reject("ACTION_INVALID")

(* Python's "new or old": None and the old value come to the same.          *)
NewOrOld(new, old) == IF new # 0 THEN new ELSE old

Updated(o, a) ==
  [o EXCEPT !.quantity = NewOrOld(a.new_quantity, @),
            !.limit_price = NewOrOld(a.new_limit_price, @)]

(* _replace updates the first bearer and puts the result in place of each.  *)
Replaceable(bearers) ==
  bearers # {} /\ pending[First(bearers)].order_type = "limit"

HandleReplace(a) ==
  LET bearers == Bearers(a.client_order_id)
      n       == First(bearers)
      updated == Updated(pending[n], a)
  IN
  /\ Acting(a, "replace_order")
  /\ Replaceable(bearers)
  /\ pending' = [m \in DOMAIN pending |-> IF m \in bearers THEN updated ELSE pending[m]]
  /\ order_events' = Append(order_events, Record("replaced", n, updated))
  /\ ActionDone /\ UNCHANGED <<order_count, no_op_count>>

RejectReplace(a) ==
  /\ Acting(a, "replace_order") /\ ~Replaceable(Bearers(a.client_order_id))
  /\ Reject("ACTION_INVALID")

(* The tail of the loop body: the new order joins the end of the list.      *)
Accept(o) ==
  /\ order_count' = order_count + 1
  /\ pending' = [n \in DOMAIN pending \cup {order_count + 1} |->
                   IF n = order_count + 1 THEN o ELSE pending[n]]
  /\ order_events' = Append(order_events, Record("accepted", order_count + 1, o))
  /\ ActionDone /\ UNCHANGED no_op_count

TargetOrder(i, q) ==
  [client_order_id |-> GeneratedId(order_count + 1), instrument_id |-> i,
   order_type |-> "target", submitted_at |-> event_index, side |-> NoneSide,
   quantity |-> 0, target_quantity |-> q, limit_price |-> 0]

DirectOrder(a) ==
  [client_order_id |-> a.client_order_id, instrument_id |-> a.instrument_id,
   order_type |-> a.order_type, submitted_at |-> event_index, side |-> a.side,
   quantity |-> a.quantity, target_quantity |-> 0, limit_price |-> a.limit_price]

(* _validate_target.                                                        *)
TargetAllowed(q) ==
  MaxAbsPosition # NoLimit => -MaxAbsPosition <= q /\ q <= MaxAbsPosition

AcceptTarget(i, q) == TargetAllowed(q) /\ Accept(TargetOrder(i, q))
RejectTarget(q)    == ~TargetAllowed(q) /\ Reject("ACTION_INVALID")

HandleTarget(a) ==
  /\ Acting(a, "target_position") /\ a.instrument_id \in universe
  /\ \/ AcceptTarget(a.instrument_id, a.quantity)
     \/ RejectTarget(a.quantity)

(* Decimal.quantize rounds half to even; den > 0.                           *)
RoundHalfEven(num, den) ==
  LET floor == num \div den
      twice == 2 * (num % den)
  IN IF twice < den \/ (twice = den /\ floor % 2 = 0) THEN floor ELSE floor + 1

(* The position a weight asks for: weight * equity / mark, in lots.         *)
WeightTarget(a) ==
  RoundHalfEven(a.weight * snapshot.equity,
                WeightOne * FeeDen * marks[a.instrument_id])

HandleWeight(a) ==
  /\ Acting(a, "target_weight") /\ a.instrument_id \in universe
  /\ marks[a.instrument_id] > 0
  /\ \/ AcceptTarget(a.instrument_id, WeightTarget(a))
     \/ RejectTarget(WeightTarget(a))

RejectUnmarked(a) ==
  /\ Acting(a, "target_weight") /\ a.instrument_id \in universe
  /\ marks[a.instrument_id] = 0
  /\ Reject("ACTION_INVALID")

(* A slip: the identifier is not looked up.                                 *)
SlipAnyIdentifier(a) ==
  /\ a.order_type \in {"market", "limit"}
  /\ MaxOrderQuantity # NoLimit => a.quantity <= MaxOrderQuantity

(* SubmitOrder: the checks in the order of the code, the first that fails   *)
(* decides; all three end the run with ORDER_REJECTED.                      *)
Submittable(a) ==
  /\ a.order_type \in {"market", "limit"}
  /\ Bearers(a.client_order_id) = {}
  /\ MaxOrderQuantity # NoLimit => a.quantity <= MaxOrderQuantity

HandleSubmit(a) ==
  /\ Acting(a, "submit_order") /\ a.instrument_id \in universe
  /\ \/ Submittable(a) /\ Accept(DirectOrder(a))
     \/ ~Submittable(a) /\ Reject("ORDER_REJECTED")

RejectInstrument(a) ==
  /\ a.kind \in {"target_position", "target_weight", "submit_order"}
  /\ Acting(a, a.kind) /\ a.instrument_id \notin universe
  /\ Reject("ACTION_INVALID")

(* A slip: new orders are settled at the event they were decided on.        *)
SlipSettlesAgain ==
  /\ phase = "act" /\ pending # <<>>
  /\ unsettled' = DOMAIN pending
  /\ GoTo("settle")
  /\ UNCHANGED <<event_index, acted, accountVars, valueVars, orderVars, marks,
                 no_op_count>>

EndEvent ==
  /\ phase = "act"
  /\ GoTo("loop")
  /\ UNCHANGED <<event_index, acted, accountVars, valueVars, orderVars, marks,
                 unsettled, no_op_count>>

-----------------------------------------------------------------------------
(* The end of the run: what is still pending expires, in list order.        *)

(* A slip: the end of the run waits for the pending orders.                 *)
SlipWaitsForOrders ==
  /\ phase = "loop" /\ event_index = Len(events) /\ pending = <<>>
  /\ GoTo("finish")
  /\ UNCHANGED <<event_index, acted, accountVars, valueVars, orderVars, marks,
                 unsettled, no_op_count>>

Finish ==
  /\ phase = "loop" /\ event_index = Len(events)
  /\ GoTo("finish")
  /\ UNCHANGED <<event_index, acted, accountVars, valueVars, orderVars, marks,
                 unsettled, no_op_count>>

ExpireOrder ==
  LET n == First(DOMAIN pending) IN
  /\ phase = "finish" /\ DOMAIN pending # {}
  /\ pending' = Without(pending, {n})
  /\ order_events' = Append(order_events, Record("expired", n, pending[n]))
  /\ UNCHANGED <<programVars, accountVars, valueVars, order_count, marks,
                 unsettled, no_op_count>>

Report ==
  /\ phase = "finish" /\ DOMAIN pending = {}
  /\ GoTo("succeeded")
  /\ UNCHANGED <<event_index, acted, accountVars, valueVars, orderVars, marks,
                 unsettled, no_op_count>>

Ended == phase \in {"succeeded", "failed"} /\ UNCHANGED vars

-----------------------------------------------------------------------------
Settle == SettleKept \/ SettleSatisfied \/ SettleFilled \/ EndSettlement

Handle(a) ==
  \/ HandleNoOp(a)  \/ HandlePrediction(a)
  \/ HandleCancel(a) \/ RejectCancel(a)
  \/ HandleReplace(a) \/ RejectReplace(a)
  \/ HandleTarget(a) \/ HandleWeight(a) \/ RejectUnmarked(a)
  \/ HandleSubmit(a) \/ RejectInstrument(a)

(* What the engine does while the strategy's callbacks return.              *)
Proceed ==
  \/ RejectEmptyTape \/ RejectDisorder \/ Start
  \/ BeginEvent \/ Settle \/ ValuePosition \/ TakeSnapshot
  \/ \E a \in Actions : Handle(a)
  \/ EndEvent \/ Finish \/ ExpireOrder \/ Report
  \/ Ended

Next == Proceed \/ StrategyRaises

Spec == Init /\ [][Next]_vars

(* One thread runs the loop to its end; no callback has to raise.           *)
FairSpec == Spec /\ WF_vars(Proceed)
=============================================================================
