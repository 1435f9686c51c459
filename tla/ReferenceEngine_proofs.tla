----------------------- MODULE ReferenceEngine_proofs -----------------------
(***************************************************************************)
(* Proofs about the reference engine, for every tape, every set of actions *)
(* and every bound.                                                        *)
(***************************************************************************)
EXTENDS EngineProperties, WellFoundedInduction, SequenceTheorems, TLAPS

(* What TypeOK needs to be inductive: an event is current while orders are  *)
(* settled and actions handled, and only settlement has unsettled orders.   *)
LoopInv ==
  /\ phase \in {"settle", "value", "act"} => event_index >= 1
  /\ phase # "settle" => unsettled = {}

TypeInv == TypeOK /\ LoopInv

-----------------------------------------------------------------------------
(* The library's well-ordering of the naturals, as a plain set of pairs.    *)
Smaller == {p \in Nat \X Nat : p[1] < p[2]}

LEMMA SmallerWellFounded == IsWellFoundedOn(Smaller, Nat)
  BY NatLessThanWellFounded DEF OpToRel, Smaller

(* The head of a non-empty list of orders is its least number.              *)
LEMMA FirstIsLeast ==
  ASSUME NEW S \in SUBSET Nat, S # {}
  PROVE  First(S) \in S /\ \A m \in S : First(S) <= m
<1>1. PICK x \in S : \A y \in S : ~(<<y, x>> \in Smaller)
  BY SmallerWellFounded, WFMin
<1>2. ASSUME NEW y \in S PROVE x <= y
  <2>1. y < x => <<y, x>> \in Smaller
    BY DEF Smaller
  <2>2. QED
    BY <1>1, <2>1
<1>3. QED
  BY <1>2 DEF First

LEMMA PositiveProduct ==
  ASSUME NEW a \in Nat \ {0}, NEW b \in Nat \ {0}
  PROVE  a * b \in Nat \ {0}
  OBVIOUS

(* The prices the engine derives from an event are positive whole numbers.  *)
LEMMA PricesPositive ==
  ASSUME NEW p \in Payload, NEW side \in Side, NEW limit \in Nat \ {0}
  PROVE  /\ DoubleMark(p) \in Nat \ {0}
         /\ MarketPrice(p, side) \in Nat \ {0}
         /\ LimitFillPrice(p, side, limit) \in Nat \ {0}
<1>1. CASE p \in BarPayload
  BY <1>1 DEF BarPayload, Price, DoubleMark, MarketPrice, LimitFillPrice
<1>2. CASE p \in TradePayload
  BY <1>2 DEF TradePayload, Price, DoubleMark, MarketPrice, LimitFillPrice
<1>3. CASE p \in QuotePayload
  BY <1>3 DEF QuotePayload, Price, DoubleMark, MarketPrice, LimitFillPrice
<1>4. QED
  BY <1>1, <1>2, <1>3 DEF Payload

LEMMA CurrentEvent ==
  ASSUME TypeInv, phase \in {"settle", "value", "act"}
  PROVE  event \in MarketEvent /\ event_index \in DOMAIN events
  BY SMTT(30), ConstantsAssumption, ElementOfSeq DEF TypeInv, TypeOK, LoopInv, event

-----------------------------------------------------------------------------
(* The order at the head of the list, and what filling it records.          *)
LEMMA HeadOrder ==
  ASSUME TypeInv, unsettled # {}
  PROVE  /\ First(unsettled) \in unsettled
         /\ First(unsettled) \in Nat
         /\ pending[First(unsettled)] \in Order
<1>1. unsettled \in SUBSET Nat /\ unsettled \subseteq DOMAIN pending
  BY DEF TypeInv, TypeOK
<1>2. First(unsettled) \in unsettled
  BY <1>1, FirstIsLeast
<1>3. QED
  BY <1>1, <1>2 DEF TypeInv, TypeOK

LEMMA RecordType ==
  ASSUME TypeInv, NEW n \in Nat, NEW o \in Order,
         NEW status \in Terminal \cup {"accepted", "replaced"}
  PROVE  Record(status, n, o) \in OrderEvent
  BY DEF Record, OrderEvent, TypeInv, TypeOK

LEMMA FillType ==
  ASSUME TypeInv, phase = "settle", NEW n \in Nat, NEW o \in Order, ~Satisfied(o)
  PROVE  /\ FillOf(n, o) \in Fill
         /\ CashDelta(FillOf(n, o)) \in Int
         /\ Signed(FillOf(n, o).side, FillOf(n, o).quantity) \in Int
<1> DEFINE q == FillQuantity(o)
           p == FillPrice(o)
           side == FillSide(o)
<1>1. event.payload \in Payload
  BY CurrentEvent DEF MarketEvent
<1>2. Delta(o) \in Int
  BY SMTT(30) DEF Delta, Order, TypeInv, TypeOK
<1>3. side \in Side
  BY DEF FillSide, Order, Side
<1>4. q \in Nat \ {0}
  BY <1>2 DEF FillQuantity, Satisfied, Order
<1>5. p \in Nat \ {0}
  <2>1. CASE o.order_type = "limit"
    <3>1. LimitFillPrice(event.payload, o.side, o.limit_price) \in Nat \ {0}
      BY <1>1, <2>1, PricesPositive DEF Order
    <3>2. PriceUnit \in Nat \ {0}
      BY ConstantsAssumption DEF PriceUnit
    <3>3. QED
      BY <2>1, <3>1, <3>2, PositiveProduct DEF FillPrice
  <2>2. CASE o.order_type # "limit"
    <3>1. MarketPrice(event.payload, side) \in Nat \ {0}
      BY <1>1, <1>3, PricesPositive, 1 \in Nat \ {0}
    <3>2. /\ SlipDen + SlipNum \in Nat \ {0}
          /\ SlipDen - SlipNum \in Nat \ {0}
      BY ConstantsAssumption
    <3>3. /\ (2 * MarketPrice(event.payload, side)) * (SlipDen + SlipNum) \in Nat \ {0}
          /\ (2 * MarketPrice(event.payload, side)) * (SlipDen - SlipNum) \in Nat \ {0}
      BY <3>1, <3>2, PositiveProduct, 2 * MarketPrice(event.payload, side) \in Nat \ {0}
    <3>4. QED
      BY <2>2, <3>3 DEF FillPrice
  <2>3. QED
    BY <2>1, <2>2
<1>6. q * p \in Nat \ {0}
  BY <1>4, <1>5, PositiveProduct
<1>7. q * p * FeeNum \in Nat /\ q * p * FeeDen \in Nat
  BY <1>6, ConstantsAssumption
<1>8. FillOf(n, o) \in Fill
  <2>1. o.client_order_id \in OrderId /\ o.instrument_id \in Instruments
    BY DEF Order
  <2>2. event_index \in Nat
    BY DEF TypeInv, TypeOK
  <2>3. QED
    BY <1>3, <1>4, <1>5, <1>7, <2>1, <2>2 DEF FillOf, Fill
<1>9. CashDelta(FillOf(n, o)) \in Int
  BY <1>7 DEF CashDelta, FillOf, Signed
<1>10. Signed(FillOf(n, o).side, FillOf(n, o).quantity) \in Int
  BY <1>4 DEF FillOf, Signed
<1>11. QED
  BY <1>8, <1>9, <1>10

-----------------------------------------------------------------------------
(* Steps that several actions share.                                        *)
LEMMA WithoutType ==
  ASSUME TypeInv, NEW S
  PROVE  /\ Without(pending, S) \in [DOMAIN pending \ S -> Order]
         /\ DOMAIN Without(pending, S) = DOMAIN pending \ S
         /\ DOMAIN Without(pending, S) \subseteq 1 .. order_count
  BY DEF Without, TypeInv, TypeOK

LEMMA FailType ==
  ASSUME TypeInv, phase # "settle", NEW code \in Errors, Fail(code)
  PROVE  TypeInv'
  BY DEF Fail, TypeInv, TypeOK, LoopInv, Phases, accountVars, valueVars, orderVars

LEMMA AcceptType ==
  ASSUME TypeInv, phase = "act", NEW o \in Order, Accept(o)
  PROVE  TypeInv'
<1>1. order_count' = order_count + 1 /\ order_count \in Nat
  BY DEF Accept, TypeInv, TypeOK
<1>2. Record("accepted", order_count + 1, o) \in OrderEvent
  BY <1>1, RecordType
<1>3. order_events' \in Seq(OrderEvent)
  BY <1>2, AppendProperties DEF Accept, TypeInv, TypeOK
<1>4. /\ pending' \in [DOMAIN pending' -> Order]
      /\ DOMAIN pending' = DOMAIN pending \cup {order_count + 1}
  BY <1>1 DEF Accept, TypeInv, TypeOK
<1>5. DOMAIN pending' \subseteq 1 .. order_count'
  BY <1>1, <1>4 DEF TypeInv, TypeOK
<1>6. UNCHANGED <<events, phase, error, event_index, accountVars, valueVars, marks,
                  unsettled, no_op_count>> /\ acted' = acted + 1
  BY DEF Accept, ActionDone
<1>7. QED
  BY SMTT(30), <1>1, <1>3, <1>4, <1>5, <1>6
  DEF TypeInv, TypeOK, LoopInv, accountVars, valueVars

LEMMA TargetOrderType ==
  ASSUME TypeInv, NEW i \in Instruments, NEW q \in Int
  PROVE  TargetOrder(i, q) \in Order
  BY SMTT(30) DEF TargetOrder, Order, GeneratedId, OrderId, NoneSide, TypeInv, TypeOK

LEMMA SubmitActionFields ==
  ASSUME NEW a \in Action, a.kind = "submit_order"
  PROVE  /\ a.client_order_id \in OrderId /\ a.instrument_id \in Instruments
         /\ a.side \in Side /\ a.quantity \in Nat \ {0} /\ a.limit_price \in Nat
         /\ a.order_type = "limit" => a.limit_price # 0
  BY DEF Action

LEMMA DirectOrderType ==
  ASSUME TypeInv, NEW a \in Action, a.kind = "submit_order",
         a.order_type \in {"market", "limit"}
  PROVE  DirectOrder(a) \in Order
  BY SMTT(30), SubmitActionFields DEF DirectOrder, Order, TypeInv, TypeOK

LEMMA RoundedType ==
  ASSUME NEW num \in Int, NEW den \in Nat \ {0}
  PROVE  RoundHalfEven(num, den) \in Int
  BY DEF RoundHalfEven

LEMMA WeightTargetType ==
  ASSUME TypeInv, NEW a \in Action, a.kind = "target_weight",
         marks[a.instrument_id] > 0
  PROVE  WeightTarget(a) \in Int
<1>1. a.instrument_id \in Instruments /\ a.weight \in Int
  BY ConstantsAssumption DEF Action
<1>2. marks[a.instrument_id] \in Nat \ {0} /\ snapshot.equity \in Int
  BY <1>1 DEF TypeInv, TypeOK
<1>3. WeightOne * FeeDen * marks[a.instrument_id] \in Nat \ {0}
  BY <1>2, PositiveProduct, ConstantsAssumption
<1>4. a.weight * snapshot.equity \in Int
  BY <1>1, <1>2
<1>5. QED
  BY <1>3, <1>4, RoundedType DEF WeightTarget

-----------------------------------------------------------------------------
(* Every action keeps TypeInv.                                              *)
LEMMA InitType == Init => TypeInv
<1> SUFFICES ASSUME Init PROVE TypeInv
  OBVIOUS
<1>1. events \in Seq(MarketEvent) /\ Len(events) \in Nat
  BY ConstantsAssumption DEF Init
<1>2. InitialCash * CashUnit \in Int
  BY ConstantsAssumption DEF CashUnit, PriceUnit
<1>3. pending \in [DOMAIN pending -> Order] /\ DOMAIN pending = {}
  BY DEF Init
<1>4. fills \in Seq(Fill) /\ order_events \in Seq(OrderEvent)
  BY EmptySeq DEF Init
<1>5. QED
  BY <1>1, <1>2, <1>3, <1>4 DEF Init, TypeInv, TypeOK, LoopInv, Phases, Errors

LEMMA LoopType ==
  ASSUME TypeInv, Start \/ BeginEvent \/ EndEvent \/ Finish \/ Report \/ TakeSnapshot
  PROVE  TypeInv'
<1> USE DEF GoTo, accountVars, valueVars, orderVars, TypeInv, TypeOK, LoopInv, Phases
<1>1. CASE Start
  BY <1>1 DEF Start
<1>2. CASE BeginEvent
  <2>0. Len(events) \in Nat /\ events \in Seq(MarketEvent)
    BY ConstantsAssumption
  <2>1. /\ event_index' \in 1 .. Len(events) /\ events' = events
        /\ phase' = "settle" /\ error' = error
    BY <1>2, <2>0 DEF BeginEvent
  <2>2. events[event_index'] \in MarketEvent
    BY <2>0, <2>1, ElementOfSeq
  <2>3. DoubleMark(events[event_index'].payload) \in Nat
    BY <2>2, PricesPositive, 1 \in Nat \ {0}, "buy" \in Side DEF MarketEvent, Side
  <2>4. \A m \in Nat : SlipDen * m \in Nat
    BY SMTT(30), ConstantsAssumption
  <2>5. marks' \in [Instruments -> Nat]
    BY <1>2, <2>3, <2>4 DEF BeginEvent
  <2>6. QED
    BY SMTT(30), <1>2, <2>0, <2>1, <2>5 DEF BeginEvent
<1>3. CASE EndEvent
  BY <1>3 DEF EndEvent
<1>4. CASE Finish
  BY <1>4 DEF Finish
<1>5. CASE Report
  BY <1>5 DEF Report
<1>6. CASE TakeSnapshot
  BY <1>6 DEF TakeSnapshot
<1>7. QED
  BY <1>1, <1>2, <1>3, <1>4, <1>5, <1>6

LEMMA SettleType ==
  ASSUME TypeInv, Settle
  PROVE  TypeInv'
<1> DEFINE n == First(unsettled)
           o == pending[n]
<1> USE DEF programVars, accountVars, valueVars, orderVars
<1>1. CASE SettleKept
  BY <1>1 DEF SettleKept, TypeInv, TypeOK, LoopInv
<1>2. CASE SettleSatisfied
  <2>1. n \in Nat /\ o \in Order /\ phase = "settle"
    BY <1>2, HeadOrder DEF SettleSatisfied
  <2>2. order_events' \in Seq(OrderEvent)
    BY <1>2, <2>1, RecordType, AppendProperties
    DEF SettleSatisfied, Terminal, TypeInv, TypeOK
  <2>3. /\ pending' \in [DOMAIN pending' -> Order]
        /\ DOMAIN pending' \subseteq 1 .. order_count
        /\ DOMAIN pending' = DOMAIN pending \ {n}
    BY <1>2, WithoutType DEF SettleSatisfied
  <2>4. QED
    BY <1>2, <2>2, <2>3 DEF SettleSatisfied, TypeInv, TypeOK, LoopInv
<1>3. CASE SettleFilled
  <2> DEFINE f == FillOf(n, o)
  <2>1. n \in Nat /\ o \in Order /\ phase = "settle" /\ ~Satisfied(o)
    BY <1>3, HeadOrder DEF SettleFilled
  <2>2. /\ f \in Fill /\ CashDelta(f) \in Int
        /\ Signed(f.side, f.quantity) \in Int
    BY <2>1, FillType
  <2>3. order_events' \in Seq(OrderEvent)
    BY <1>3, <2>1, RecordType, AppendProperties
    DEF SettleFilled, Terminal, TypeInv, TypeOK
  <2>4. fills' \in Seq(Fill)
    BY <1>3, <2>2, AppendProperties DEF SettleFilled, TypeInv, TypeOK
  <2>5. /\ pending' \in [DOMAIN pending' -> Order]
        /\ DOMAIN pending' \subseteq 1 .. order_count
        /\ DOMAIN pending' = DOMAIN pending \ {n}
    BY <1>3, WithoutType DEF SettleFilled
  <2>6. cash' \in Int /\ quantities' \in [Instruments -> Int]
    <3>1. cash' = cash + CashDelta(f) /\ cash \in Int
      BY <1>3 DEF SettleFilled, TypeInv, TypeOK
    <3>2. /\ quantities' = [quantities EXCEPT
                ![o.instrument_id] = @ + Signed(f.side, f.quantity)]
          /\ quantities \in [Instruments -> Int]
      BY <1>3 DEF SettleFilled, TypeInv, TypeOK
    <3>3. o.instrument_id \in Instruments
      BY <2>1 DEF Order
    <3>4. quantities[o.instrument_id] + Signed(f.side, f.quantity) \in Int
      BY <2>2, <3>2, <3>3
    <3>5. quantities' \in [Instruments -> Int]
      BY <3>2, <3>3, <3>4
    <3>6. QED
      BY <2>2, <3>1, <3>5
  <2>7. unsettled' \subseteq DOMAIN pending'
    BY <1>3, <2>5 DEF SettleFilled, TypeInv, TypeOK
  <2>8. QED
    BY <1>3, <2>3, <2>4, <2>5, <2>6, <2>7 DEF SettleFilled, TypeInv, TypeOK, LoopInv
<1>4. CASE EndSettlement
  BY <1>4 DEF EndSettlement, GoTo, TypeInv, TypeOK, LoopInv, Phases
<1>5. QED
  BY <1>1, <1>2, <1>3, <1>4 DEF Settle

LEMMA ValueType ==
  ASSUME TypeInv, ValuePosition
  PROVE  TypeInv'
<1> DEFINE i == CHOOSE j \in unvalued : TRUE
<1>1. i \in Instruments
  BY DEF ValuePosition, TypeInv, TypeOK
<1>2. quantities[i] \in Int /\ marks[i] \in Int /\ FeeDen \in Int
  BY <1>1, ConstantsAssumption DEF TypeInv, TypeOK
<1>3. quantities[i] * marks[i] * FeeDen \in Int
  BY <1>2
<1>4. market_value' \in Int
  BY <1>3 DEF ValuePosition, TypeInv, TypeOK
<1>5. QED
  BY <1>4
  DEF ValuePosition, TypeInv, TypeOK, LoopInv, programVars, accountVars, orderVars

(* A rejected action ends the run and touches nothing else.                 *)
LEMMA RejectType ==
  ASSUME TypeInv, NEW code \in Errors, Reject(code)
  PROVE  TypeInv'
  BY FailType DEF Reject

LEMMA BearersOfId ==
  ASSUME TypeInv, NEW id, Bearers(id) # {}
  PROVE  /\ First(Bearers(id)) \in Bearers(id)
         /\ First(Bearers(id)) \in Nat
         /\ First(Bearers(id)) \in DOMAIN pending
         /\ pending[First(Bearers(id))] \in Order
<1>1. Bearers(id) \in SUBSET Nat /\ Bearers(id) \subseteq DOMAIN pending
  BY DEF Bearers, TypeInv, TypeOK
<1>2. First(Bearers(id)) \in Bearers(id)
  BY <1>1, FirstIsLeast
<1>3. QED
  BY <1>1, <1>2 DEF TypeInv, TypeOK

LEMMA CancelType ==
  ASSUME TypeInv, NEW a \in Action, HandleCancel(a)
  PROVE  TypeInv'
<1> DEFINE bearers == Bearers(a.client_order_id)
<1>1. phase = "act" /\ bearers # {}
  BY DEF HandleCancel, Acting
<1>2. order_events' \in Seq(OrderEvent)
  BY <1>1, BearersOfId, RecordType, AppendProperties
  DEF HandleCancel, Terminal, TypeInv, TypeOK
<1>3. /\ pending' \in [DOMAIN pending' -> Order]
      /\ DOMAIN pending' \subseteq 1 .. order_count
  BY WithoutType DEF HandleCancel
<1>4. /\ acted' = acted + 1
      /\ UNCHANGED <<events, phase, error, event_index, accountVars, valueVars,
                     marks, unsettled, order_count, no_op_count>>
  BY DEF HandleCancel, ActionDone
<1>5. QED
  BY SMTT(30), <1>1, <1>2, <1>3, <1>4 DEF TypeInv, TypeOK, LoopInv, accountVars, valueVars

LEMMA UpdatedType ==
  ASSUME NEW o \in Order, o.order_type = "limit",
         NEW a \in Action, a.kind = "replace_order"
  PROVE  Updated(o, a) \in Order
<1>1. a.new_quantity \in Nat /\ a.new_limit_price \in Nat
  BY DEF Action
<1>2. PICK q, limit : /\ q = NewOrOld(a.new_quantity, o.quantity)
                       /\ limit = NewOrOld(a.new_limit_price, o.limit_price)
  OBVIOUS
<1>3. q \in Nat \ {0} /\ limit \in Nat \ {0}
  BY <1>1, <1>2 DEF NewOrOld, Order
<1>4. Updated(o, a) = [o EXCEPT !.quantity = q, !.limit_price = limit]
  BY <1>2 DEF Updated
<1> DEFINE Fields ==
             [client_order_id: OrderId, instrument_id: Instruments,
              order_type: {"target", "market", "limit"}, submitted_at: Nat,
              side: Side \cup {NoneSide}, quantity: Nat, target_quantity: Int,
              limit_price: Nat]
<1>5. o \in Fields /\ o.side \in Side
  BY DEF Order
<1>6. [o EXCEPT !.quantity = q] \in Fields
  BY <1>3, <1>5
<1>7. [[o EXCEPT !.quantity = q] EXCEPT !.limit_price = limit] \in Fields
  BY <1>3, <1>6
<1>8. Updated(o, a) \in Fields
  BY <1>4, <1>7
<1>9. /\ Updated(o, a).order_type = "limit" /\ Updated(o, a).side = o.side
      /\ Updated(o, a).quantity = q /\ Updated(o, a).limit_price = limit
  BY <1>4, <1>5
<1>10. QED
  BY <1>3, <1>5, <1>8, <1>9 DEF Order

LEMMA ReplaceType ==
  ASSUME TypeInv, NEW a \in Action, HandleReplace(a)
  PROVE  TypeInv'
<1> DEFINE bearers == Bearers(a.client_order_id)
           n == First(bearers)
           updated == Updated(pending[n], a)
<1>1. /\ phase = "act" /\ bearers # {} /\ a.kind = "replace_order"
      /\ pending[n].order_type = "limit"
  BY DEF HandleReplace, Acting, Replaceable
<1>2. n \in Nat /\ pending[n] \in Order
  BY <1>1, BearersOfId
<1>3. updated \in Order
  BY <1>1, <1>2, UpdatedType
<1>4. order_events' \in Seq(OrderEvent)
  BY <1>2, <1>3, RecordType, AppendProperties DEF HandleReplace, TypeInv, TypeOK
<1>5. pending' = [m \in DOMAIN pending |-> IF m \in bearers THEN updated ELSE pending[m]]
  BY DEF HandleReplace
<1>6. /\ pending' \in [DOMAIN pending' -> Order]
      /\ DOMAIN pending' \subseteq 1 .. order_count
  BY <1>3, <1>5 DEF TypeInv, TypeOK
<1>7. /\ acted' = acted + 1
      /\ UNCHANGED <<events, phase, error, event_index, accountVars, valueVars,
                     marks, unsettled, order_count, no_op_count>>
  BY DEF HandleReplace, ActionDone
<1>8. QED
  BY SMTT(30), <1>1, <1>4, <1>6, <1>7 DEF TypeInv, TypeOK, LoopInv, accountVars, valueVars

LEMMA HandleType ==
  ASSUME TypeInv, NEW a \in Action, Handle(a)
  PROVE  TypeInv'
<1>1. CASE HandleNoOp(a) \/ HandlePrediction(a)
  BY SMTT(30), <1>1 DEF HandleNoOp, HandlePrediction, ActionDone, TypeInv, TypeOK, LoopInv,
              accountVars, valueVars, orderVars
<1>2. CASE HandleCancel(a)
  BY <1>2, CancelType
<1>3. CASE HandleReplace(a)
  BY <1>3, ReplaceType
<1>4. CASE RejectCancel(a) \/ RejectReplace(a) \/ RejectUnmarked(a) \/ RejectInstrument(a)
  BY <1>4, RejectType
  DEF RejectCancel, RejectReplace, RejectUnmarked, RejectInstrument, Errors
<1>5. CASE HandleTarget(a)
  <2>1. a.instrument_id \in Instruments /\ a.quantity \in Int /\ phase = "act"
    BY <1>5 DEF HandleTarget, Acting, Action
  <2>2. CASE AcceptTarget(a.instrument_id, a.quantity)
    BY <2>1, <2>2, TargetOrderType, AcceptType DEF AcceptTarget
  <2>3. CASE RejectTarget(a.quantity)
    BY <2>3, RejectType DEF RejectTarget, Errors
  <2>4. QED
    BY <1>5, <2>2, <2>3 DEF HandleTarget
<1>6. CASE HandleWeight(a)
  <2>1. a.instrument_id \in Instruments /\ phase = "act"
    BY <1>6 DEF HandleWeight, Acting, Action
  <2>2. WeightTarget(a) \in Int
    BY <1>6, WeightTargetType DEF HandleWeight, Acting
  <2>3. CASE AcceptTarget(a.instrument_id, WeightTarget(a))
    BY <2>1, <2>2, <2>3, TargetOrderType, AcceptType DEF AcceptTarget
  <2>4. CASE RejectTarget(WeightTarget(a))
    BY <2>4, RejectType DEF RejectTarget, Errors
  <2>5. QED
    BY <1>6, <2>3, <2>4 DEF HandleWeight
<1>7. CASE HandleSubmit(a)
  <2>1. CASE Submittable(a) /\ Accept(DirectOrder(a))
    BY <1>7, <2>1, DirectOrderType, AcceptType DEF HandleSubmit, Acting, Submittable
  <2>2. CASE Reject("ORDER_REJECTED")
    BY <2>2, RejectType DEF Errors
  <2>3. QED
    BY <1>7, <2>1, <2>2 DEF HandleSubmit
<1>8. QED
  BY <1>1, <1>2, <1>3, <1>4, <1>5, <1>6, <1>7 DEF Handle

LEMMA ExpireType ==
  ASSUME TypeInv, ExpireOrder
  PROVE  TypeInv'
<1> DEFINE n == First(DOMAIN pending)
<1>1. DOMAIN pending \in SUBSET Nat /\ DOMAIN pending # {} /\ phase = "finish"
  BY DEF ExpireOrder, TypeInv, TypeOK
<1>2. n \in Nat /\ n \in DOMAIN pending
  BY <1>1, FirstIsLeast
<1>3. pending[n] \in Order
  BY <1>2 DEF TypeInv, TypeOK
<1>4. order_events' \in Seq(OrderEvent)
  BY <1>2, <1>3, RecordType, AppendProperties DEF ExpireOrder, Terminal, TypeInv, TypeOK
<1>5. /\ pending' \in [DOMAIN pending' -> Order]
      /\ DOMAIN pending' \subseteq 1 .. order_count
  BY WithoutType DEF ExpireOrder
<1>6. QED
  BY <1>1, <1>4, <1>5
  DEF ExpireOrder, TypeInv, TypeOK, LoopInv, programVars, accountVars, valueVars

LEMMA StepType ==
  ASSUME TypeInv, [Next]_vars
  PROVE  TypeInv'
<1>1. CASE RejectEmptyTape \/ RejectDisorder \/ StrategyRaises
  BY <1>1, FailType DEF RejectEmptyTape, RejectDisorder, StrategyRaises, Errors
<1>2. CASE UNCHANGED vars
  BY <1>2 DEF vars, programVars, accountVars, valueVars, orderVars, TypeInv, TypeOK, LoopInv
<1>3. CASE Next
  BY <1>1, <1>2, <1>3, ConstantsAssumption, LoopType, SettleType, ValueType, HandleType,
     ExpireType
  DEF Next, Proceed, Ended
<1>4. QED
  BY <1>2, <1>3

(* Type correctness: every variable keeps its type in every run.            *)
THEOREM TypeCorrect == Spec => []TypeOK
<1>1. Init => TypeInv
  BY InitType
<1>2. TypeInv /\ [Next]_vars => TypeInv'
  BY StepType
<1>3. TypeInv => TypeOK
  BY DEF TypeInv
<1>4. QED
  BY <1>1, <1>2, <1>3, PTL DEF Spec

-----------------------------------------------------------------------------
(* What the engine does with its orders.                                    *)
(*                                                                          *)
(* Every step of the engine is one of four moves on the order book (lemma   *)
(* StepMoves): it leaves it alone, adds an order, amends one or closes one. *)
(* That cancel and replace touch one order only needs distinct identifiers, *)
(* and those need a strategy that keeps away from generated ones, so that   *)
(* invariant comes first.                                                   *)

(* Generated identifiers carry the number of their order, others are the    *)
(* strategy's; no two live orders share one.                                *)
IdInv ==
  /\ \A n \in DOMAIN pending :
       IF pending[n].order_type = "target"
       THEN pending[n].client_order_id = GeneratedId(n)
       ELSE pending[n].client_order_id[1] = "client"
  /\ LiveIdsUnique

(* The four moves.                                                          *)
Quiet ==
  /\ UNCHANGED <<events, orderVars, accountVars>>
  /\ \/ UNCHANGED <<event_index, unsettled>> /\ (phase' = "settle" => phase = "settle")
     \/ SettleKept
     \/ BeginEvent
  /\ \/ Stage' = Stage
     \/ Stage = "trading" /\ Stage' \in {"closing", "aborted"}
     \/ Stage = "closing" /\ Stage' = "reported" /\ DOMAIN pending = {}

Allowed(o) ==
  IF o.order_type = "target"
  THEN /\ TargetAllowed(o.target_quantity)
       /\ o.client_order_id = GeneratedId(order_count + 1)
  ELSE /\ Bearers(o.client_order_id) = {}
       /\ \E a \in Actions : a.kind = "submit_order" /\ o = DirectOrder(a)

Adds(o) ==
  /\ phase = "act" /\ Allowed(o)
  /\ order_count' = order_count + 1
  /\ pending' = [n \in DOMAIN pending \cup {order_count + 1} |->
                   IF n = order_count + 1 THEN o ELSE pending[n]]
  /\ order_events' = Append(order_events, Record("accepted", order_count + 1, o))
  /\ UNCHANGED <<events, event_index, phase, accountVars, unsettled>>

SameBearing(o, p) ==
  /\ o.client_order_id = p.client_order_id /\ o.order_type = p.order_type
  /\ o.instrument_id = p.instrument_id

Amends(n, o) ==
  /\ phase = "act" /\ n \in DOMAIN pending
  /\ pending[n].order_type = "limit" /\ SameBearing(o, pending[n])
  /\ pending' = [pending EXCEPT ![n] = o]
  /\ order_events' = Append(order_events, Record("replaced", n, o))
  /\ UNCHANGED <<events, event_index, phase, accountVars, order_count, unsettled>>

Fills(n) ==
  LET o == pending[n] f == FillOf(n, o) IN
  /\ phase = "settle" /\ Executable(o, event) /\ ~Satisfied(o)
  /\ fills' = Append(fills, f)
  /\ quantities' = [quantities EXCEPT ![o.instrument_id] = @ + Signed(f.side, f.quantity)]

Closes(n, why) ==
  /\ n \in DOMAIN pending /\ why \in Terminal
  /\ phase \in {"settle", "act", "finish"} /\ (why = "expired" <=> phase = "finish")
  /\ pending' = Without(pending, {n})
  /\ order_events' = Append(order_events, Record(why, n, pending[n]))
  /\ unsettled' = unsettled \ {n}
  /\ UNCHANGED <<events, event_index, phase, order_count>>
  /\ UNCHANGED accountVars \/ Fills(n)

(* A failed step keeps everything but the phase and the error.              *)
LEMMA FailQuiet ==
  ASSUME NEW code, Fail(code), phase \in {"validate", "loop", "act"}
  PROVE  Quiet
  BY DEF Fail, Quiet, Stage

LEMMA LoopQuiet ==
  ASSUME TypeInv,
         \/ Start \/ BeginEvent \/ EndEvent \/ Finish \/ Report \/ TakeSnapshot
         \/ EndSettlement \/ SettleKept \/ ValuePosition \/ Ended
  PROVE  Quiet
<1> USE DEF Quiet, Stage, GoTo, programVars
<1>1. CASE Start
  BY <1>1 DEF Start
<1>2. CASE BeginEvent
  BY <1>2 DEF BeginEvent
<1>3. CASE EndEvent
  BY <1>3 DEF EndEvent
<1>4. CASE Finish
  BY <1>4 DEF Finish
<1>5. CASE Report
  BY <1>5 DEF Report
<1>6. CASE TakeSnapshot
  BY <1>6 DEF TakeSnapshot
<1>7. CASE EndSettlement
  BY <1>7 DEF EndSettlement
<1>8. CASE SettleKept
  BY <1>8 DEF SettleKept
<1>9. CASE ValuePosition
  BY <1>9 DEF ValuePosition
<1>10. CASE Ended
  BY <1>10 DEF Ended, vars
<1>11. QED
  BY <1>1, <1>2, <1>3, <1>4, <1>5, <1>6, <1>7, <1>8, <1>9, <1>10

LEMMA SettledCloses ==
  ASSUME TypeInv, SettleSatisfied \/ SettleFilled
  PROVE  \E n \in DOMAIN pending, why \in Terminal : Closes(n, why)
<1> DEFINE n == First(unsettled)
<1>1. n \in DOMAIN pending
  BY HeadOrder DEF SettleSatisfied, SettleFilled, TypeInv, TypeOK
<1>2. CASE SettleSatisfied
  BY <1>1, <1>2 DEF SettleSatisfied, Closes, Terminal, programVars
<1>3. CASE SettleFilled
  BY <1>1, <1>3 DEF SettleFilled, Closes, Fills, Terminal, programVars
<1>4. QED
  BY <1>2, <1>3

LEMMA ExpiryCloses ==
  ASSUME TypeInv, ExpireOrder
  PROVE  \E n \in DOMAIN pending, why \in Terminal : Closes(n, why)
<1>1. DOMAIN pending \in SUBSET Nat /\ DOMAIN pending # {}
  BY DEF ExpireOrder, TypeInv, TypeOK
<1>2. First(DOMAIN pending) \in DOMAIN pending
  BY <1>1, FirstIsLeast
<1>3. QED
  BY <1>2 DEF ExpireOrder, Closes, Terminal, programVars, TypeInv, LoopInv

(* With distinct identifiers an identifier has at most one bearer.          *)
LEMMA OneBearer ==
  ASSUME TypeInv, IdInv, NEW id, Bearers(id) # {}
  PROVE  Bearers(id) = {First(Bearers(id))}
  BY BearersOfId DEF IdInv, LiveIdsUnique, Bearers

LEMMA CancelCloses ==
  ASSUME TypeInv, IdInv, NEW a \in Actions, HandleCancel(a)
  PROVE  \E n \in DOMAIN pending, why \in Terminal : Closes(n, why)
<1> DEFINE bearers == Bearers(a.client_order_id)
           n == First(bearers)
<1>1. phase = "act" /\ bearers # {}
  BY DEF HandleCancel, Acting
<1>2. n \in DOMAIN pending /\ bearers = {n}
  BY <1>1, BearersOfId, OneBearer
<1>3. Closes(n, "canceled")
  BY <1>1, <1>2 DEF HandleCancel, Closes, Terminal, ActionDone, TypeInv, LoopInv
<1>4. QED
  BY <1>2, <1>3 DEF Terminal

LEMMA ReplaceAmends ==
  ASSUME TypeInv, IdInv, NEW a \in Actions, HandleReplace(a)
  PROVE  \E n \in DOMAIN pending, o \in Order : Amends(n, o)
<1> DEFINE bearers == Bearers(a.client_order_id)
           n == First(bearers)
           o == Updated(pending[n], a)
<1>1. /\ phase = "act" /\ bearers # {} /\ a.kind = "replace_order"
      /\ pending[n].order_type = "limit"
  BY DEF HandleReplace, Acting, Replaceable
<1>2. n \in DOMAIN pending /\ bearers = {n} /\ pending[n] \in Order
  BY <1>1, BearersOfId, OneBearer
<1>3. o \in Order
  BY <1>1, <1>2, UpdatedType, ConstantsAssumption
<1>4. SameBearing(o, pending[n])
  BY <1>2 DEF Updated, SameBearing, Order
<1>5. pending' = [pending EXCEPT ![n] = o]
  BY <1>2 DEF HandleReplace, TypeInv, TypeOK
<1>6. Amends(n, o)
  BY <1>1, <1>2, <1>4, <1>5 DEF HandleReplace, Amends, ActionDone
<1>7. QED
  BY <1>2, <1>3, <1>6

LEMMA AcceptAdds ==
  ASSUME NEW o, phase = "act", Allowed(o), Accept(o)
  PROVE  Adds(o)
  BY DEF Accept, Adds, ActionDone

LEMMA HandleMoves ==
  ASSUME TypeInv, IdInv, IdsApart, NEW a \in Actions, Handle(a)
  PROVE  \/ Quiet
         \/ \E o \in Order : Adds(o)
         \/ \E n \in DOMAIN pending, o \in Order : Amends(n, o)
         \/ \E n \in DOMAIN pending, why \in Terminal : Closes(n, why)
<1>1. CASE HandleNoOp(a) \/ HandlePrediction(a)
  BY <1>1 DEF HandleNoOp, HandlePrediction, ActionDone, Acting, Quiet, Stage
<1>2. CASE HandleCancel(a)
  BY <1>2, CancelCloses
<1>3. CASE HandleReplace(a)
  BY <1>3, ReplaceAmends
<1>4. ASSUME NEW code, Reject(code) PROVE Quiet
  BY <1>4, FailQuiet DEF Reject
<1>5. CASE RejectCancel(a) \/ RejectReplace(a) \/ RejectUnmarked(a) \/ RejectInstrument(a)
  BY <1>4, <1>5 DEF RejectCancel, RejectReplace, RejectUnmarked, RejectInstrument
<1>6. ASSUME NEW i \in Instruments, NEW q \in Int, phase = "act", AcceptTarget(i, q)
      PROVE  \E o \in Order : Adds(o)
  <2>1. TargetOrder(i, q) \in Order
    BY TargetOrderType
  <2>2. Allowed(TargetOrder(i, q))
    BY <1>6 DEF Allowed, TargetOrder, AcceptTarget
  <2>3. QED
    BY <1>6, <2>1, <2>2, AcceptAdds DEF AcceptTarget
<1>7. CASE HandleTarget(a)
  <2>1. a.instrument_id \in Instruments /\ a.quantity \in Int /\ phase = "act"
    BY <1>7, ConstantsAssumption DEF HandleTarget, Acting, Action
  <2>2. QED
    BY <1>4, <1>6, <1>7, <2>1 DEF HandleTarget, RejectTarget
<1>8. CASE HandleWeight(a)
  <2>1. a.instrument_id \in Instruments /\ phase = "act"
    BY <1>8, ConstantsAssumption DEF HandleWeight, Acting, Action
  <2>2. WeightTarget(a) \in Int
    BY <1>8, WeightTargetType, ConstantsAssumption DEF HandleWeight, Acting
  <2>3. QED
    BY <1>4, <1>6, <1>8, <2>1, <2>2 DEF HandleWeight, RejectTarget
<1>9. CASE HandleSubmit(a)
  <2>1. CASE Submittable(a) /\ Accept(DirectOrder(a))
    <3>1. phase = "act" /\ a.kind = "submit_order" /\ a.order_type \in {"market", "limit"}
      BY <1>9, <2>1 DEF HandleSubmit, Acting, Submittable
    <3>2. DirectOrder(a) \in Order
      BY <3>1, DirectOrderType, ConstantsAssumption
    <3>3. Allowed(DirectOrder(a))
      BY <2>1, <3>1 DEF Allowed, DirectOrder, Submittable
    <3>4. QED
      BY <2>1, <3>1, <3>2, <3>3, AcceptAdds
  <2>2. QED
    BY <1>4, <1>9, <2>1 DEF HandleSubmit
<1>10. QED
  BY <1>1, <1>2, <1>3, <1>5, <1>7, <1>8, <1>9 DEF Handle

(* Every step is one of the four moves.                                     *)
LEMMA StepMoves ==
  ASSUME TypeInv, IdInv, IdsApart, [Next]_vars
  PROVE  \/ Quiet
         \/ \E o \in Order : Adds(o)
         \/ \E n \in DOMAIN pending, o \in Order : Amends(n, o)
         \/ \E n \in DOMAIN pending, why \in Terminal : Closes(n, why)
<1>1. CASE RejectEmptyTape \/ RejectDisorder \/ StrategyRaises
  BY <1>1, FailQuiet DEF RejectEmptyTape, RejectDisorder, StrategyRaises
<1>2. CASE UNCHANGED vars
  BY <1>2 DEF vars, programVars, orderVars, Quiet, Stage
<1>3. CASE \E a \in Actions : Handle(a)
  BY <1>3, HandleMoves
<1>4. CASE ExpireOrder
  BY <1>4, ExpiryCloses
<1>5. CASE SettleSatisfied \/ SettleFilled
  BY <1>5, SettledCloses
<1>6. CASE \/ Start \/ BeginEvent \/ EndEvent \/ Finish \/ Report \/ TakeSnapshot
           \/ EndSettlement \/ SettleKept \/ ValuePosition \/ Ended
  BY <1>6, LoopQuiet
<1>7. QED
  BY <1>1, <1>2, <1>3, <1>4, <1>5, <1>6 DEF Next, Proceed, Settle

-----------------------------------------------------------------------------
LEMMA IdStep ==
  ASSUME TypeInv, IdInv, IdsApart, [Next]_vars
  PROVE  IdInv'
<1> USE DEF IdInv, LiveIdsUnique
<1>1. CASE Quiet
  BY <1>1 DEF Quiet, orderVars
<1>2. ASSUME NEW o \in Order, Adds(o) PROVE IdInv'
  <2>1. /\ order_count \in Nat /\ DOMAIN pending \subseteq 1 .. order_count
        /\ DOMAIN pending' = DOMAIN pending \cup {order_count + 1}
        /\ order_count + 1 \notin DOMAIN pending
        /\ pending'[order_count + 1] = o
        /\ \A n \in DOMAIN pending : pending'[n] = pending[n]
    BY <1>2 DEF Adds, TypeInv, TypeOK
  <2>2. \A n \in DOMAIN pending : pending[n].client_order_id # o.client_order_id
    BY <1>2, <2>1 DEF Adds, Allowed, Bearers, GeneratedId
  <2>3. IF o.order_type = "target" THEN o.client_order_id = GeneratedId(order_count + 1)
        ELSE o.client_order_id[1] = "client"
    BY <1>2 DEF Adds, Allowed, DirectOrder, IdsApart
  <2>4. QED
    BY <2>1, <2>2, <2>3
<1>3. ASSUME NEW n \in DOMAIN pending, NEW o \in Order, Amends(n, o) PROVE IdInv'
  <2>1. /\ DOMAIN pending' = DOMAIN pending /\ pending'[n] = o
        /\ \A m \in DOMAIN pending : m # n => pending'[m] = pending[m]
    BY <1>3 DEF Amends, TypeInv, TypeOK
  <2>2. QED
    BY <1>3, <2>1 DEF Amends, SameBearing
<1>4. ASSUME NEW n \in DOMAIN pending, NEW why \in Terminal, Closes(n, why) PROVE IdInv'
  <2>1. /\ DOMAIN pending' = DOMAIN pending \ {n}
        /\ \A m \in DOMAIN pending' : pending'[m] = pending[m]
    BY <1>4 DEF Closes, Without
  <2>2. QED
    BY <2>1
<1>5. QED
  BY <1>1, <1>2, <1>3, <1>4, StepMoves

LEMMA IdStart == Init => IdInv
  BY DEF Init, IdInv, LiveIdsUnique

(* A strategy that keeps away from generated identifiers never has two live *)
(* orders of one identifier, so its cancels and replacements mean one order.*)
THEOREM LiveIdentifiersUnique ==
  ASSUME IdsApart
  PROVE  Spec => []LiveIdsUnique
<1> DEFINE Inv == TypeInv /\ IdInv
<1>1. Init => Inv
  BY InitType, IdStart
<1>2. Inv /\ [Next]_vars => Inv'
  BY StepType, IdStep
<1>3. Inv => LiveIdsUnique
  BY DEF IdInv
<1>4. QED
  BY <1>1, <1>2, <1>3, PTL DEF Spec

-----------------------------------------------------------------------------
(* Events are about accepted orders; what OneEnd needs to be inductive.     *)
EndInv ==
  /\ \A j \in DOMAIN order_events : order_events[j].number \in 1 .. order_count
  /\ OneEnd

(* What one more order event adds to the ends of an order.                  *)
LEMMA OneMoreEvent ==
  ASSUME TypeInv, NEW e \in OrderEvent, order_events' = Append(order_events, e)
  PROVE  /\ Len(order_events) \in Nat
         /\ DOMAIN order_events = 1 .. Len(order_events)
         /\ DOMAIN order_events' = 1 .. Len(order_events) + 1
         /\ order_events'[Len(order_events) + 1] = e
         /\ \A j \in 1 .. Len(order_events) : order_events'[j] = order_events[j]
  BY DEF TypeInv, TypeOK

LEMMA EndsAfter ==
  ASSUME TypeInv, NEW e \in OrderEvent, order_events' = Append(order_events, e), NEW n
  PROVE  EndsOf(n)' =
           EndsOf(n) \cup (IF e.number = n /\ e.status \in Terminal
                           THEN {Len(order_events) + 1} ELSE {})
<1>1. /\ Len(order_events) \in Nat
      /\ DOMAIN order_events = 1 .. Len(order_events)
      /\ DOMAIN order_events' = 1 .. Len(order_events) + 1
      /\ order_events'[Len(order_events) + 1] = e
      /\ \A j \in 1 .. Len(order_events) : order_events'[j] = order_events[j]
  BY OneMoreEvent
<1>2. 1 .. Len(order_events) + 1 = 1 .. Len(order_events) \cup {Len(order_events) + 1}
  BY <1>1
<1>3. QED
  BY <1>1, <1>2 DEF EndsOf

LEMMA RecordOf ==
  ASSUME NEW n, NEW o, NEW status
  PROVE  /\ Record(status, n, o).number = n /\ Record(status, n, o).status = status
         /\ Record(status, n, o).order = o /\ Record(status, n, o).at = event_index
  BY DEF Record

LEMMA EndStep ==
  ASSUME TypeInv, IdInv, IdsApart, EndInv, [Next]_vars
  PROVE  EndInv'
<1>0. /\ order_count \in Nat /\ DOMAIN pending \subseteq 1 .. order_count
      /\ pending \in [DOMAIN pending -> Order]
  BY DEF TypeInv, TypeOK
<1>1. CASE Quiet
  BY <1>1 DEF Quiet, orderVars, EndInv, OneEnd, EndsOf
<1>2. ASSUME NEW o \in Order, Adds(o) PROVE EndInv'
  <2> DEFINE e == Record("accepted", order_count + 1, o)
  <2>0. order_count + 1 \in Nat
    BY <1>0
  <2>1. e \in OrderEvent /\ order_events' = Append(order_events, e)
    BY <2>0, <1>2, RecordType DEF Adds
  <2>2. ASSUME NEW n PROVE EndsOf(n)' = EndsOf(n)
    <3>1. e.status = "accepted"
      BY RecordOf
    <3>2. QED
      BY <2>1, <3>1, EndsAfter DEF Terminal
  <2>3. EndsOf(order_count + 1) = {}
    BY <1>0 DEF EndInv, EndsOf
  <2>4. \A j \in DOMAIN order_events' : order_events'[j].number \in 1 .. order_count'
    BY <1>0, <1>2, <2>1, OneMoreEvent, RecordOf DEF Adds, EndInv
  <2>5. OneEnd'
    <3>1. ASSUME NEW n \in 1 .. order_count'
          PROVE  IF n \in DOMAIN pending' THEN EndsOf(n)' = {}
                 ELSE \E j \in DOMAIN order_events' : EndsOf(n)' = {j}
      <4>1. CASE n = order_count + 1
        BY <1>2, <2>2, <2>3, <4>1 DEF Adds
      <4>2. CASE n \in 1 .. order_count
        <5>1. n \in DOMAIN pending' <=> n \in DOMAIN pending
          BY <1>0, <1>2, <4>2 DEF Adds
        <5>2. DOMAIN order_events \subseteq DOMAIN order_events'
          BY <2>1, OneMoreEvent
        <5>3. QED
          BY <2>2, <4>2, <5>1, <5>2 DEF EndInv, OneEnd
      <4>3. QED
        BY <1>0, <1>2, <4>1, <4>2 DEF Adds
    <3>2. QED
      BY <3>1 DEF OneEnd
  <2>6. QED
    BY <2>4, <2>5 DEF EndInv
<1>3. ASSUME NEW n \in DOMAIN pending, NEW o \in Order, Amends(n, o) PROVE EndInv'
  <2> DEFINE e == Record("replaced", n, o)
  <2>1. e \in OrderEvent /\ order_events' = Append(order_events, e)
    BY <1>0, <1>3, RecordType DEF Amends
  <2>2. ASSUME NEW m PROVE EndsOf(m)' = EndsOf(m)
    <3>1. e.status = "replaced"
      BY RecordOf
    <3>2. QED
      BY <2>1, <3>1, EndsAfter DEF Terminal
  <2>3. \A j \in DOMAIN order_events' : order_events'[j].number \in 1 .. order_count'
    BY <1>0, <1>3, <2>1, OneMoreEvent, RecordOf DEF Amends, EndInv
  <2>4. DOMAIN pending' = DOMAIN pending /\ order_count' = order_count
    BY <1>3 DEF Amends
  <2>5. DOMAIN order_events \subseteq DOMAIN order_events'
    BY <2>1, OneMoreEvent
  <2>6. QED
    BY <2>2, <2>3, <2>4, <2>5 DEF EndInv, OneEnd
<1>4. ASSUME NEW n \in DOMAIN pending, NEW why \in Terminal, Closes(n, why) PROVE EndInv'
  <2> DEFINE e == Record(why, n, pending[n])
  <2>1. e \in OrderEvent /\ order_events' = Append(order_events, e)
    BY <1>0, <1>4, RecordType DEF Closes
  <2>2. ASSUME NEW m, m # n PROVE EndsOf(m)' = EndsOf(m)
    <3>1. e.number = n
      BY RecordOf
    <3>2. QED
      BY <2>1, <2>2, <3>1, EndsAfter
  <2>3. EndsOf(n)' = {Len(order_events) + 1}
    BY <1>0, <2>1, EndsAfter, RecordOf DEF EndInv, OneEnd
  <2>4. \A j \in DOMAIN order_events' : order_events'[j].number \in 1 .. order_count'
    BY <1>0, <1>4, <2>1, OneMoreEvent, RecordOf DEF Closes, EndInv
  <2>5. DOMAIN pending' = DOMAIN pending \ {n} /\ order_count' = order_count
    BY <1>4 DEF Closes, Without
  <2>6. /\ DOMAIN order_events \subseteq DOMAIN order_events'
        /\ Len(order_events) + 1 \in DOMAIN order_events'
    BY <2>1, OneMoreEvent
  <2>7. QED
    BY <2>2, <2>3, <2>4, <2>5, <2>6 DEF EndInv, OneEnd
<1>5. QED
  BY <1>1, <1>2, <1>3, <1>4, StepMoves

LEMMA EndStart == Init => EndInv
  BY DEF Init, EndInv, OneEnd, EndsOf

(* Every accepted order is live, or has ended exactly once.                 *)
THEOREM OrdersEndOnce ==
  ASSUME IdsApart
  PROVE  Spec => []OneEnd
<1> DEFINE Inv == TypeInv /\ IdInv /\ EndInv
<1>1. Init => Inv
  BY InitType, IdStart, EndStart
<1>2. Inv /\ [Next]_vars => Inv'
  BY StepType, IdStep, EndStep
<1>3. Inv => OneEnd
  BY DEF EndInv
<1>4. QED
  BY <1>1, <1>2, <1>3, PTL DEF Spec

-----------------------------------------------------------------------------
(* The reference engine implements the order ledger: each move is a step of *)
(* the ledger or leaves it alone.                                           *)

(* Its parts, for any events and any number of orders.                      *)
EndsIn(recorded, n) ==
  {j \in DOMAIN recorded : recorded[j].number = n /\ recorded[j].status \in Terminal}

EndedIn(recorded, count) == {n \in 1 .. count : EndsIn(recorded, n) # {}}

EndIn(recorded, n) == CHOOSE j \in EndsIn(recorded, n) : TRUE

OutcomeIn(recorded, count) ==
  [n \in EndedIn(recorded, count) |-> recorded[EndIn(recorded, n)].status]

(* The refinement mapping's outcome.                                        *)
Outcome == [n \in EndedNumbers |-> order_events[CHOOSE j \in EndsOf(n) : TRUE].status]

LEMMA MappedOutcome ==
  /\ Outcome = OutcomeIn(order_events, order_count)
  /\ Outcome' = OutcomeIn(order_events', order_count')
  /\ EndedNumbers = EndedIn(order_events, order_count)
  BY DEF Outcome, OutcomeIn, EndedIn, EndIn, EndsIn, EndedNumbers, EndsOf

LEMMA OnlyEnd ==
  ASSUME NEW recorded, NEW n, NEW j, EndsIn(recorded, n) = {j}
  PROVE  EndIn(recorded, n) = j
  BY DEF EndIn

LEMMA EndsAppended ==
  ASSUME NEW recorded \in Seq(OrderEvent), NEW e \in OrderEvent, NEW n
  PROVE  EndsIn(Append(recorded, e), n) =
           EndsIn(recorded, n) \cup (IF e.number = n /\ e.status \in Terminal
                                     THEN {Len(recorded) + 1} ELSE {})
<1> DEFINE longer == Append(recorded, e)
<1>1. /\ Len(recorded) \in Nat /\ DOMAIN recorded = 1 .. Len(recorded)
      /\ DOMAIN longer = 1 .. Len(recorded) + 1
      /\ longer[Len(recorded) + 1] = e
      /\ \A j \in 1 .. Len(recorded) : longer[j] = recorded[j]
  OBVIOUS
<1> HIDE DEF longer
<1>2. 1 .. Len(recorded) + 1 = 1 .. Len(recorded) \cup {Len(recorded) + 1}
  BY <1>1
<1>3. EndsIn(longer, n) = EndsIn(recorded, n) \cup
        (IF e.number = n /\ e.status \in Terminal THEN {Len(recorded) + 1} ELSE {})
  BY <1>1, <1>2 DEF EndsIn
<1>4. QED
  BY <1>3 DEF longer

(* One more event adds the outcome of the order it ends, and no other.      *)
LEMMA OutcomeAppended ==
  ASSUME NEW recorded \in Seq(OrderEvent), NEW e \in OrderEvent,
         NEW c \in Nat, NEW d \in {c, c + 1}, e.number \in 1 .. d,
         \A n \in 1 .. c : EndsIn(recorded, n) = {}
                             \/ \E j \in DOMAIN recorded : EndsIn(recorded, n) = {j},
         EndsIn(recorded, c + 1) = {},
         e.status \in Terminal => e.number \in 1 .. c /\ EndsIn(recorded, e.number) = {}
  PROVE  OutcomeIn(Append(recorded, e), d) =
           IF e.status \in Terminal
           THEN [n \in EndedIn(recorded, c) \cup {e.number} |->
                   IF n = e.number THEN e.status ELSE OutcomeIn(recorded, c)[n]]
           ELSE OutcomeIn(recorded, c)
<1> DEFINE longer == Append(recorded, e)
<1>1. /\ Len(recorded) \in Nat /\ DOMAIN recorded = 1 .. Len(recorded)
      /\ longer[Len(recorded) + 1] = e
      /\ \A j \in 1 .. Len(recorded) : longer[j] = recorded[j]
  OBVIOUS
<1>2. ASSUME NEW n
      PROVE  EndsIn(longer, n) =
               EndsIn(recorded, n) \cup (IF e.number = n /\ e.status \in Terminal
                                         THEN {Len(recorded) + 1} ELSE {})
  BY EndsAppended
<1> HIDE DEF longer
<1>3. ASSUME NEW n \in EndedIn(recorded, c), ~(e.number = n /\ e.status \in Terminal)
      PROVE  longer[EndIn(longer, n)].status = OutcomeIn(recorded, c)[n]
  <2>1. PICK j \in DOMAIN recorded : EndsIn(recorded, n) = {j}
    BY DEF EndedIn
  <2>2. EndsIn(longer, n) = {j}
    BY <1>2, <1>3, <2>1
  <2>3. EndIn(longer, n) = j
    BY <2>2, OnlyEnd
  <2>4. EndIn(recorded, n) = j
    BY <2>1, OnlyEnd
  <2>5. OutcomeIn(recorded, c)[n] = recorded[j].status
    BY <2>4 DEF OutcomeIn
  <2>6. QED
    BY <1>1, <2>1, <2>3, <2>5
<1>4. OutcomeIn(longer, d) =
        [n \in EndedIn(longer, d) |-> longer[EndIn(longer, n)].status]
  BY DEF OutcomeIn
<1>5. CASE e.status \in Terminal
  <2>1. EndsIn(longer, e.number) = EndsIn(recorded, e.number) \cup {Len(recorded) + 1}
    BY <1>2, <1>5
  <2>2. EndsIn(longer, e.number) = {Len(recorded) + 1}
    BY <1>5, <2>1
  <2>3. EndIn(longer, e.number) = Len(recorded) + 1
    BY <2>2, OnlyEnd
  <2>4. ASSUME NEW n, n # e.number PROVE EndsIn(longer, n) = EndsIn(recorded, n)
    BY <1>2, <2>4
  <2>5. EndedIn(longer, d) = EndedIn(recorded, c) \cup {e.number}
    <3>1. ASSUME NEW n \in EndedIn(longer, d), n # e.number
          PROVE  n \in EndedIn(recorded, c)
      BY <2>4, <3>1 DEF EndedIn
    <3>2. ASSUME NEW n \in EndedIn(recorded, c), n # e.number
          PROVE  n \in EndedIn(longer, d)
      BY <2>4, <3>2 DEF EndedIn
    <3>3. e.number \in EndedIn(longer, d)
      BY <2>2 DEF EndedIn
    <3>4. QED
      BY <3>1, <3>2, <3>3
  <2>6. ASSUME NEW n \in EndedIn(longer, d)
        PROVE  longer[EndIn(longer, n)].status =
                 IF n = e.number THEN e.status ELSE OutcomeIn(recorded, c)[n]
    BY <1>1, <1>3, <2>3, <2>5
  <2>7. OutcomeIn(longer, d) =
          [n \in EndedIn(recorded, c) \cup {e.number} |->
             IF n = e.number THEN e.status ELSE OutcomeIn(recorded, c)[n]]
    BY <1>4, <2>5, <2>6
  <2>8. QED
    BY <1>5, <2>7 DEF longer
<1>6. CASE e.status \notin Terminal
  <2>1. ASSUME NEW n PROVE EndsIn(longer, n) = EndsIn(recorded, n)
    BY <1>2, <1>6
  <2>2. EndedIn(longer, d) = EndedIn(recorded, c)
    <3>1. ASSUME NEW n \in EndedIn(longer, d) PROVE n \in EndedIn(recorded, c)
      BY <2>1 DEF EndedIn
    <3>2. ASSUME NEW n \in EndedIn(recorded, c) PROVE n \in EndedIn(longer, d)
      BY <2>1 DEF EndedIn
    <3>3. QED
      BY <3>1, <3>2
  <2>3. OutcomeIn(recorded, c) =
          [n \in EndedIn(recorded, c) |-> OutcomeIn(recorded, c)[n]]
    BY DEF OutcomeIn
  <2>4. ASSUME NEW n \in EndedIn(recorded, c)
        PROVE  longer[EndIn(longer, n)].status = OutcomeIn(recorded, c)[n]
    BY <1>3, <1>6
  <2>5. OutcomeIn(longer, d) = OutcomeIn(recorded, c)
    BY <1>4, <2>2, <2>3, <2>4
  <2>6. QED
    BY <1>6, <2>5 DEF longer
<1>7. QED
  BY <1>5, <1>6

LEMMA OutcomeAfter ==
  ASSUME TypeInv, EndInv, NEW e \in OrderEvent, order_events' = Append(order_events, e),
         e.status \in Terminal => e.number \in DOMAIN pending,
         e.number \in 1 .. order_count',
         order_count' \in {order_count, order_count + 1}
  PROVE  IF e.status \in Terminal
         THEN Outcome' = [n \in EndedNumbers \cup {e.number} |->
                            IF n = e.number THEN e.status ELSE Outcome[n]]
         ELSE Outcome' = Outcome
<1>0. /\ order_count \in Nat /\ DOMAIN pending \subseteq 1 .. order_count
      /\ order_events \in Seq(OrderEvent)
  BY DEF TypeInv, TypeOK
<1>1. \A n : EndsIn(order_events, n) = EndsOf(n)
  BY DEF EndsIn, EndsOf
<1>2. \A n \in 1 .. order_count :
        \/ EndsIn(order_events, n) = {}
        \/ \E j \in DOMAIN order_events : EndsIn(order_events, n) = {j}
  BY <1>1 DEF EndInv, OneEnd
<1>3. EndsIn(order_events, order_count + 1) = {}
  BY <1>0 DEF EndInv, EndsIn
<1>4. e.status \in Terminal =>
        e.number \in 1 .. order_count /\ EndsIn(order_events, e.number) = {}
  BY <1>0, <1>1 DEF EndInv, OneEnd
<1>5. EndedNumbers = EndedIn(order_events, order_count)
  BY MappedOutcome
<1>6. OutcomeIn(Append(order_events, e), order_count') =
        IF e.status \in Terminal
        THEN [n \in EndedIn(order_events, order_count) \cup {e.number} |->
                IF n = e.number THEN e.status
                ELSE OutcomeIn(order_events, order_count)[n]]
        ELSE OutcomeIn(order_events, order_count)
  BY <1>0, <1>2, <1>3, <1>4, OutcomeAppended
<1>7. Outcome' = OutcomeIn(Append(order_events, e), order_count')
  BY MappedOutcome
<1>8. Outcome = OutcomeIn(order_events, order_count)
  BY MappedOutcome
<1>9. QED
  BY <1>5, <1>6, <1>7, <1>8

LEMMA LedgerStart == Init => Ledger!LedgerInit
<1> SUFFICES ASSUME Init PROVE Ledger!LedgerInit
  OBVIOUS
<1>1. Stage = "trading" /\ order_count = 0 /\ DOMAIN pending = {}
  BY DEF Init, Stage
<1>2. EndedNumbers = {}
  BY <1>1 DEF EndedNumbers
<1>3. QED
  BY <1>1, <1>2 DEF Ledger!LedgerInit

(* Every step of the engine is a step of the ledger, or none.               *)
LEMMA LedgerStep ==
  ASSUME TypeInv, IdInv, IdsApart, EndInv, [Next]_vars
  PROVE  [Ledger!LedgerNext]_(Ledger!ledgerVars)
<1>0. /\ order_count \in Nat /\ DOMAIN pending \subseteq 1 .. order_count
      /\ pending \in [DOMAIN pending -> Order]
  BY DEF TypeInv, TypeOK
<1> SUFFICES [Ledger!LedgerNext]_<<Stage, order_count, DOMAIN pending, Outcome>>
  BY DEF Ledger!ledgerVars, Outcome
<1>1. CASE Quiet
  <2>1. UNCHANGED <<order_count, pending, order_events>>
    BY <1>1 DEF Quiet, orderVars
  <2>4. Outcome' = Outcome
    BY <2>1, MappedOutcome
  <2>5. CASE Stage' = Stage
    BY <2>1, <2>4, <2>5
  <2>6. CASE Stage = "trading" /\ Stage' = "closing"
    BY <2>1, <2>4, <2>6 DEF Ledger!LedgerNext, Ledger!StopTrading, Outcome
  <2>7. CASE Stage = "trading" /\ Stage' = "aborted"
    BY <2>1, <2>4, <2>7 DEF Ledger!LedgerNext, Ledger!Abort, Outcome
  <2>8. CASE Stage = "closing" /\ Stage' = "reported" /\ DOMAIN pending = {}
    BY <2>1, <2>4, <2>8 DEF Ledger!LedgerNext, Ledger!ReportLedger, Outcome
  <2>9. QED
    BY <1>1, <2>5, <2>6, <2>7, <2>8 DEF Quiet
<1>2. ASSUME NEW o \in Order, Adds(o) PROVE Ledger!AcceptOrder
  <2> DEFINE e == Record("accepted", order_count + 1, o)
  <2>1. e \in OrderEvent /\ e.number = order_count + 1 /\ e.status = "accepted"
    BY <1>0, RecordType, RecordOf, order_count + 1 \in Nat
  <2>2. order_events' = Append(order_events, e) /\ order_count' = order_count + 1
    BY <1>2 DEF Adds
  <2> HIDE DEF e
  <2>3. e.status \notin Terminal /\ e.number \in 1 .. order_count'
    BY <1>0, <2>1, <2>2 DEF Terminal
  <2>4. Outcome' = Outcome
    BY <2>1, <2>2, <2>3, OutcomeAfter
  <2>5. Stage = "trading" /\ Stage' = Stage
    BY <1>2 DEF Adds, Stage
  <2>6. DOMAIN pending' = DOMAIN pending \cup {order_count + 1}
    BY <1>2 DEF Adds
  <2>7. QED
    BY <2>2, <2>4, <2>5, <2>6 DEF Ledger!AcceptOrder, Outcome
<1>3. ASSUME NEW n \in DOMAIN pending, NEW o \in Order, Amends(n, o)
      PROVE  UNCHANGED <<Stage, order_count, DOMAIN pending, Outcome>>
  <2> DEFINE e == Record("replaced", n, o)
  <2>1. e \in OrderEvent /\ e.number = n /\ e.status = "replaced" /\ n \in 1 .. order_count
    BY <1>0, RecordType, RecordOf
  <2>2. order_events' = Append(order_events, e) /\ order_count' = order_count
    BY <1>3 DEF Amends
  <2> HIDE DEF e
  <2>3. Outcome' = Outcome
    BY <2>1, <2>2, OutcomeAfter DEF Terminal
  <2>4. Stage' = Stage /\ DOMAIN pending' = DOMAIN pending
    BY <1>3 DEF Amends, Stage
  <2>5. QED
    BY <2>2, <2>3, <2>4
<1>4. ASSUME NEW n \in DOMAIN pending, NEW why \in Terminal, Closes(n, why)
      PROVE  Ledger!CloseOrder(n, why)
  <2> DEFINE e == Record(why, n, pending[n])
  <2>1. e \in OrderEvent /\ e.number = n /\ e.status = why /\ n \in 1 .. order_count
    BY <1>0, RecordType, RecordOf
  <2>2. order_events' = Append(order_events, e) /\ order_count' = order_count
    BY <1>4 DEF Closes
  <2> HIDE DEF e
  <2>3. Outcome' = [m \in EndedNumbers \cup {n} |-> IF m = n THEN why ELSE Outcome[m]]
    BY <2>1, <2>2, OutcomeAfter
  <2>4. Stage' = Stage /\ DOMAIN pending' = DOMAIN pending \ {n}
    BY <1>4 DEF Closes, Stage, Without
  <2>5. Stage \in {"trading", "closing"} /\ (why = "expired" <=> Stage = "closing")
    BY <1>4 DEF Closes, Stage
  <2>6. DOMAIN Outcome = EndedNumbers
    BY DEF Outcome
  <2>7. QED
    BY <2>2, <2>3, <2>4, <2>5, <2>6 DEF Ledger!CloseOrder, Outcome
<1>5. QED
  BY <1>1, <1>2, <1>3, <1>4, StepMoves DEF Ledger!LedgerNext, Terminal

(* The engine implements the order ledger: accepted orders are closed once, *)
(* for one reason, none expires early and a reported run leaves none open.  *)
THEOREM EngineImplementsLedger ==
  ASSUME IdsApart
  PROVE  Spec => ImplementsLedger
<1> DEFINE Inv == TypeInv /\ IdInv /\ EndInv
<1>1. Init => Inv /\ Ledger!LedgerInit
  BY InitType, IdStart, EndStart, LedgerStart
<1>2. Inv /\ [Next]_vars => Inv' /\ [Ledger!LedgerNext]_(Ledger!ledgerVars)
  BY StepType, IdStep, EndStep, LedgerStep
<1>3. QED
  BY <1>1, <1>2, PTL DEF Spec, ImplementsLedger, Ledger!LedgerSpec

-----------------------------------------------------------------------------
(* Nothing is recorded ahead of time; while orders are settled every        *)
(* decision is older than the current event; a filled order is gone.        *)
ClockInv ==
  /\ \A j \in DOMAIN order_events :
       /\ order_events[j].at <= event_index
       /\ phase = "settle" /\ order_events[j].status \in Accepting
            => order_events[j].at < event_index
  /\ \A f \in DOMAIN fills : fills[f].number \in (1 .. order_count) \ DOMAIN pending
  /\ FillsAfterDecision

LEMMA FillStamp ==
  ASSUME NEW n, NEW o
  PROVE  FillOf(n, o).at = event_index /\ FillOf(n, o).number = n
  BY DEF FillOf

(* The events after one more decision about an order that is live or new.   *)
LEMMA DecisionClock ==
  ASSUME TypeInv, ClockInv, phase = "act", NEW n \in Nat, NEW o \in Order,
         NEW status \in Accepting,
         n \in DOMAIN pending \/ n \notin 1 .. order_count,
         order_events' = Append(order_events, Record(status, n, o)),
         DOMAIN pending' \subseteq DOMAIN pending \cup {n},
         order_count' >= order_count, order_count' \in Nat,
         UNCHANGED <<event_index, phase, fills>>
  PROVE  ClockInv'
<1> DEFINE e == Record(status, n, o)
<1>1. e \in OrderEvent
  BY RecordType DEF Accepting
<1>2. /\ Len(order_events) \in Nat
      /\ DOMAIN order_events = 1 .. Len(order_events)
      /\ DOMAIN order_events' = 1 .. Len(order_events) + 1
      /\ order_events'[Len(order_events) + 1] = e
      /\ \A j \in 1 .. Len(order_events) : order_events'[j] = order_events[j]
  BY <1>1, OneMoreEvent
<1>3. e.at = event_index /\ e.number = n /\ event_index \in Nat /\ order_count \in Nat
  BY RecordOf DEF TypeInv, TypeOK
<1>4. \A f \in DOMAIN fills : fills[f].number # n
  BY DEF ClockInv
<1>5. \A j \in DOMAIN order_events' : order_events'[j].at <= event_index'
  BY <1>2, <1>3 DEF ClockInv
<1>6. \A f \in DOMAIN fills' : fills'[f].number \in (1 .. order_count') \ DOMAIN pending'
  BY <1>3, <1>4 DEF ClockInv
<1>7. FillsAfterDecision'
  BY <1>2, <1>3, <1>4 DEF ClockInv, FillsAfterDecision
<1>8. QED
  BY <1>5, <1>6, <1>7 DEF ClockInv

LEMMA ClockStep ==
  ASSUME TypeInv, IdInv, IdsApart, ClockInv, [Next]_vars
  PROVE  ClockInv'
<1>0. /\ order_count \in Nat /\ DOMAIN pending \subseteq 1 .. order_count
      /\ pending \in [DOMAIN pending -> Order] /\ event_index \in Nat
  BY DEF TypeInv, TypeOK
<1>1. CASE Quiet
  <2>1. UNCHANGED <<pending, order_events, order_count, fills>>
    BY <1>1 DEF Quiet, orderVars, accountVars
  <2>2. \/ event_index' = event_index /\ (phase' = "settle" => phase = "settle")
        \/ event_index' = event_index + 1
    BY <1>1 DEF Quiet, SettleKept, BeginEvent, programVars
  <2>3. \A j \in DOMAIN order_events : order_events[j].at \in Nat
    <3>1. order_events \in Seq(OrderEvent)
      BY DEF TypeInv, TypeOK
    <3>2. ASSUME NEW j \in DOMAIN order_events PROVE order_events[j] \in OrderEvent
      BY <3>1, ElementOfSeq
    <3>3. QED
      BY <3>2 DEF OrderEvent
  <2>4. QED
    BY <1>0, <2>1, <2>2, <2>3 DEF ClockInv, FillsAfterDecision
<1>2. ASSUME NEW o \in Order, Adds(o) PROVE ClockInv'
  <2>1. order_count + 1 \in Nat /\ order_count + 1 \notin 1 .. order_count
    BY <1>0
  <2>2. DOMAIN pending' \subseteq DOMAIN pending \cup {order_count + 1}
    BY <1>2 DEF Adds
  <2>3. QED
    BY <1>0, <1>2, <2>1, <2>2, DecisionClock DEF Adds, Accepting, accountVars
<1>3. ASSUME NEW n \in DOMAIN pending, NEW o \in Order, Amends(n, o) PROVE ClockInv'
  <2>1. n \in Nat /\ DOMAIN pending' \subseteq DOMAIN pending \cup {n}
    BY <1>0, <1>3 DEF Amends
  <2>2. order_count' >= order_count /\ order_count' \in Nat
    BY <1>0, <1>3 DEF Amends
  <2>3. QED
    BY <1>3, <2>1, <2>2, DecisionClock DEF Amends, Accepting, accountVars
<1>4. ASSUME NEW n \in DOMAIN pending, NEW why \in Terminal, Closes(n, why) PROVE ClockInv'
  <2> DEFINE e == Record(why, n, pending[n])
             f == FillOf(n, pending[n])
  <2>1. e \in OrderEvent /\ order_events' = Append(order_events, e)
    BY <1>0, <1>4, RecordType DEF Closes
  <2>2. /\ Len(order_events) \in Nat
        /\ DOMAIN order_events = 1 .. Len(order_events)
        /\ DOMAIN order_events' = 1 .. Len(order_events) + 1
        /\ order_events'[Len(order_events) + 1] = e
        /\ \A j \in 1 .. Len(order_events) : order_events'[j] = order_events[j]
    BY <2>1, OneMoreEvent
  <2>3. e.at = event_index /\ e.status = why /\ why \notin Accepting
    BY RecordOf DEF Terminal, Accepting
  <2>4. /\ DOMAIN pending' = DOMAIN pending \ {n}
        /\ UNCHANGED <<order_count, event_index, phase>>
    BY <1>4 DEF Closes, Without
  <2>5. \A j \in DOMAIN order_events' :
          /\ order_events'[j].at <= event_index'
          /\ phase' = "settle" /\ order_events'[j].status \in Accepting
               => order_events'[j].at < event_index'
    BY <1>0, <2>2, <2>3, <2>4 DEF ClockInv
  <2>6. CASE fills' = fills
    <3>1. FillsAfterDecision'
      BY <2>2, <2>3, <2>6 DEF ClockInv, FillsAfterDecision
    <3>2. QED
      BY <2>4, <2>5, <2>6, <3>1 DEF ClockInv
  <2>7. CASE fills' = Append(fills, f) /\ phase = "settle"
    <3>1. /\ Len(fills) \in Nat /\ DOMAIN fills = 1 .. Len(fills)
          /\ DOMAIN fills' = 1 .. Len(fills) + 1
          /\ fills'[Len(fills) + 1] = f
          /\ \A k \in 1 .. Len(fills) : fills'[k] = fills[k]
      BY <2>7 DEF TypeInv, TypeOK
    <3>2. f.at = event_index /\ f.number = n
      BY FillStamp
    <3>3. \A k \in DOMAIN fills' : fills'[k].number \in (1 .. order_count') \ DOMAIN pending'
      BY <1>0, <2>4, <3>1, <3>2 DEF ClockInv
    <3>4. FillsAfterDecision'
      <4>1. ASSUME NEW k \in DOMAIN fills', NEW j \in DOMAIN order_events',
                   order_events'[j].number = fills'[k].number,
                   order_events'[j].status \in Accepting
            PROVE  order_events'[j].at < fills'[k].at
        <5>1. j \in DOMAIN order_events /\ order_events'[j] = order_events[j]
          BY <2>2, <2>3, <4>1
        <5>2. CASE k = Len(fills) + 1
          BY <2>7, <3>1, <3>2, <4>1, <5>1, <5>2 DEF ClockInv
        <5>3. CASE k \in DOMAIN fills
          BY <3>1, <4>1, <5>1, <5>3 DEF ClockInv, FillsAfterDecision
        <5>4. QED
          BY <3>1, <5>2, <5>3
      <4>2. QED
        BY <4>1 DEF FillsAfterDecision
    <3>5. QED
      BY <2>5, <3>3, <3>4 DEF ClockInv
  <2>8. QED
    BY <1>4, <2>6, <2>7 DEF Closes, Fills, accountVars
<1>5. QED
  BY <1>1, <1>2, <1>3, <1>4, StepMoves

LEMMA ClockStart == Init => ClockInv
  BY DEF Init, ClockInv, FillsAfterDecision

(* No look-ahead: a fill always comes at a later event than the decision    *)
(* that made its order what it is.                                          *)
THEOREM NoLookAhead ==
  ASSUME IdsApart
  PROVE  Spec => []FillsAfterDecision
<1> DEFINE Inv == TypeInv /\ IdInv /\ ClockInv
<1>1. Init => Inv
  BY InitType, IdStart, ClockStart
<1>2. Inv /\ [Next]_vars => Inv'
  BY StepType, IdStep, ClockStep
<1>3. Inv => FillsAfterDecision
  BY DEF ClockInv
<1>4. QED
  BY <1>1, <1>2, <1>3, PTL DEF Spec

-----------------------------------------------------------------------------
(* The events of an order after an event about another order.               *)
LEMMA OthersEvents ==
  ASSUME TypeInv, NEW e \in OrderEvent, order_events' = Append(order_events, e),
         NEW m, m # e.number, NEW k,
         \A j \in DOMAIN order_events' : order_events'[j].number = m => order_events'[j].at < k
  PROVE  \A j \in DOMAIN order_events : order_events[j].number = m => order_events[j].at < k
  BY OneMoreEvent

LEMMA MissedStep ==
  ASSUME TypeInv, IdInv, IdsApart, NothingMissed, [Next]_vars
  PROVE  NothingMissed'
<1>0. /\ order_count \in Nat /\ DOMAIN pending \subseteq 1 .. order_count
      /\ pending \in [DOMAIN pending -> Order] /\ event_index \in Nat
      /\ phase # "settle" => unsettled = {}
  BY DEF TypeInv, TypeOK, LoopInv
<1> DEFINE Decided(n, k) ==
             \A j \in DOMAIN order_events : order_events[j].number = n => order_events[j].at < k
<1> SUFFICES ASSUME NEW n \in DOMAIN pending', NEW k \in (1 .. event_index)',
                    Decided(n, k)', ~(k = event_index' /\ n \in unsettled')
             PROVE  ~Executable(pending'[n], events'[k])
  BY DEF NothingMissed, Executable
<1>q. ASSUME n \in DOMAIN pending, k \in 1 .. event_index, Decided(n, k),
             ~(k = event_index /\ n \in unsettled)
      PROVE  ~Executable(pending[n], events[k])
  BY <1>q DEF NothingMissed
<1> HIDE DEF Decided
<1>1. CASE Quiet
  <2>1. UNCHANGED <<events, pending, order_events>>
    BY <1>1 DEF Quiet, orderVars
  <2>2. Decided(n, k)
    BY <2>1 DEF Decided
  <2>3. CASE UNCHANGED <<event_index, unsettled>>
    BY <1>q, <2>1, <2>2, <2>3
  <2>4. CASE SettleKept
    <3>1. /\ event_index' = event_index /\ unsettled' = unsettled \ {First(unsettled)}
          /\ ~Executable(pending[First(unsettled)], events[event_index])
      BY <2>4 DEF SettleKept, programVars, event
    <3>2. QED
      BY <1>q, <2>1, <2>2, <3>1
  <2>5. CASE BeginEvent
    <3>1. /\ event_index' = event_index + 1 /\ unsettled' = DOMAIN pending
          /\ phase = "loop"
      BY <2>5 DEF BeginEvent
    <3>2. k \in 1 .. event_index /\ unsettled = {}
      BY <1>0, <2>1, <3>1
    <3>3. QED
      BY <1>q, <2>1, <2>2, <3>2
  <2>6. QED
    BY <1>1, <2>3, <2>4, <2>5 DEF Quiet
<1>2. ASSUME NEW m \in Nat, NEW o \in Order, NEW status \in Accepting,
             phase = "act",
             order_events' = Append(order_events, Record(status, m, o)),
             DOMAIN pending' \subseteq DOMAIN pending \cup {m},
             \A p \in DOMAIN pending : p # m => pending'[p] = pending[p],
             UNCHANGED <<events, event_index, unsettled>>
      PROVE  ~Executable(pending'[n], events'[k])
  <2> DEFINE e == Record(status, m, o)
  <2>1. e \in OrderEvent /\ e.number = m /\ e.at = event_index
    BY RecordType, RecordOf DEF Accepting
  <2>2. n # m
    BY <1>0, <1>2, <2>1, OneMoreEvent DEF Decided
  <2>3. Decided(n, k)
    BY <1>2, <2>1, <2>2, OthersEvents DEF Decided
  <2>4. n \in DOMAIN pending /\ pending'[n] = pending[n]
    BY <1>2, <2>2
  <2>5. QED
    BY <1>q, <1>0, <1>2, <2>3, <2>4
<1>3. ASSUME NEW o \in Order, Adds(o) PROVE ~Executable(pending'[n], events'[k])
  <2>1. order_count + 1 \in Nat /\ order_count + 1 \notin DOMAIN pending
    BY <1>0
  <2>2. /\ DOMAIN pending' \subseteq DOMAIN pending \cup {order_count + 1}
        /\ \A p \in DOMAIN pending : p # order_count + 1 => pending'[p] = pending[p]
    BY <1>3 DEF Adds
  <2>3. QED
    BY <1>2, <1>3, <2>1, <2>2 DEF Adds, Accepting
<1>4. ASSUME NEW m \in DOMAIN pending, NEW o \in Order, Amends(m, o)
      PROVE  ~Executable(pending'[n], events'[k])
  <2>1. /\ m \in Nat /\ DOMAIN pending' \subseteq DOMAIN pending \cup {m}
        /\ \A p \in DOMAIN pending : p # m => pending'[p] = pending[p]
    BY <1>0, <1>4 DEF Amends
  <2>2. QED
    BY <1>2, <1>4, <2>1 DEF Amends, Accepting
<1>5. ASSUME NEW m \in DOMAIN pending, NEW why \in Terminal, Closes(m, why)
      PROVE  ~Executable(pending'[n], events'[k])
  <2> DEFINE e == Record(why, m, pending[m])
  <2>1. /\ e \in OrderEvent /\ e.number = m
        /\ order_events' = Append(order_events, e)
    BY <1>0, <1>5, RecordType, RecordOf DEF Closes
  <2>2. n \in DOMAIN pending /\ n # m /\ pending'[n] = pending[n]
    BY <1>5 DEF Closes, Without
  <2>3. Decided(n, k)
    BY <2>1, <2>2, OthersEvents DEF Decided
  <2>4. UNCHANGED <<events, event_index>> /\ unsettled' = unsettled \ {m}
    BY <1>5 DEF Closes
  <2>5. QED
    BY <1>q, <2>2, <2>3, <2>4
<1>6. QED
  BY <1>1, <1>3, <1>4, <1>5, StepMoves

LEMMA MissedStart == Init => NothingMissed
  BY DEF Init, NothingMissed

(* Next-event execution: no order lives through an event that could have    *)
(* executed it.                                                             *)
THEOREM NoMissedExecution ==
  ASSUME IdsApart
  PROVE  Spec => []NothingMissed
<1> DEFINE Inv == TypeInv /\ IdInv /\ NothingMissed
<1>1. Init => Inv
  BY InitType, IdStart, MissedStart
<1>2. Inv /\ [Next]_vars => Inv'
  BY StepType, IdStep, MissedStep
<1>3. Inv => NothingMissed
  OBVIOUS
<1>4. QED
  BY <1>1, <1>2, <1>3, PTL DEF Spec

-----------------------------------------------------------------------------
(* Among these events, the one that last set the terms of order n.          *)
LastDecision(recorded, n, j) ==
  /\ j \in DOMAIN recorded
  /\ recorded[j].number = n /\ recorded[j].status \in Accepting
  /\ \A k \in DOMAIN recorded :
       k > j => ~(recorded[k].number = n /\ recorded[k].status \in Accepting)

(* TermsHonoured, of any fills and any order events.                        *)
HonouredBy(filled, recorded) ==
  \A f \in DOMAIN filled : \A j :
    LastDecision(recorded, filled[f].number, j) => Honours(filled[f], recorded[j].order)

(* A live order has the terms last decided; what TermsHonoured needs to be  *)
(* inductive.                                                               *)
TermsInv ==
  /\ \A n \in DOMAIN pending : \A j :
       LastDecision(order_events, n, j) => order_events[j].order = pending[n]
  /\ \A f \in DOMAIN fills : fills[f].number \in (1 .. order_count) \ DOMAIN pending
  /\ \A j \in DOMAIN order_events : order_events[j].number \in 1 .. order_count
  /\ HonouredBy(fills, order_events)

LEMMA TermsByDecision == HonouredBy(fills, order_events) => TermsHonoured
  BY DEF TermsHonoured, HonouredBy, LastDecision

LEMMA ScaledOrder ==
  ASSUME NEW a \in Nat, NEW b \in Nat, NEW c \in Nat, a <= b
  PROVE  c * a <= c * b
  OBVIOUS

(* A touched limit order gets its limit or better.                          *)
LEMMA LimitKept ==
  ASSUME NEW p \in Payload, NEW side \in Side, NEW limit \in Nat \ {0},
         LimitTouched(p, side, limit)
  PROVE  IF side = "buy" THEN LimitFillPrice(p, side, limit) <= limit
                         ELSE LimitFillPrice(p, side, limit) >= limit
  BY DEF LimitTouched, BestPrice, LimitFillPrice

LEMMA FillHonours ==
  ASSUME TypeInv, phase = "settle", NEW n \in Nat, NEW o \in Order, Executable(o, event)
  PROVE  Honours(FillOf(n, o), o)
<1> DEFINE f == FillOf(n, o)
<1>1. o.order_type # "target" => f.quantity = o.quantity /\ f.side = o.side
  BY DEF FillOf, FillQuantity, FillSide
<1>2. CASE o.order_type = "limit"
  <2>1. /\ event.payload \in Payload /\ o.side \in Side /\ o.limit_price \in Nat \ {0}
        /\ LimitTouched(event.payload, o.side, o.limit_price)
    BY <1>2, CurrentEvent DEF MarketEvent, Order, Executable
  <2>2. PICK p : p = LimitFillPrice(event.payload, o.side, o.limit_price)
    OBVIOUS
  <2>3. /\ p \in Nat
        /\ IF o.side = "buy" THEN p <= o.limit_price ELSE p >= o.limit_price
    BY <2>1, <2>2, PricesPositive, LimitKept
  <2>4. PriceUnit \in Nat
    BY ConstantsAssumption DEF PriceUnit
  <2>5. f.price = PriceUnit * p
    BY <1>2, <2>2 DEF FillOf, FillPrice
  <2>6. IF o.side = "buy" THEN PriceUnit * p <= PriceUnit * o.limit_price
                          ELSE PriceUnit * p >= PriceUnit * o.limit_price
    BY <2>1, <2>3, <2>4, ScaledOrder
  <2>7. QED
    BY <1>1, <1>2, <2>5, <2>6 DEF Honours
<1>3. CASE o.order_type # "limit"
  BY <1>1, <1>3 DEF Honours
<1>4. QED
  BY <1>2, <1>3

(* One more event changes the last decision only of the order it is about,  *)
(* and only if it is a decision.                                            *)
LEMMA DecisionsAfter ==
  ASSUME TypeInv, NEW e \in OrderEvent, order_events' = Append(order_events, e), NEW n, NEW j,
         LastDecision(order_events', n, j)
  PROVE  IF e.number = n /\ e.status \in Accepting
         THEN order_events'[j] = e
         ELSE LastDecision(order_events, n, j) /\ order_events'[j] = order_events[j]
<1>1. /\ Len(order_events) \in Nat
      /\ DOMAIN order_events = 1 .. Len(order_events)
      /\ DOMAIN order_events' = 1 .. Len(order_events) + 1
      /\ order_events'[Len(order_events) + 1] = e
      /\ \A k \in 1 .. Len(order_events) : order_events'[k] = order_events[k]
  BY OneMoreEvent
<1>2. QED
  BY <1>1 DEF LastDecision

LEMMA TermsDecision ==
  ASSUME TypeInv, TermsInv, NEW n \in Nat, NEW o \in Order, NEW status \in Accepting,
         n \in DOMAIN pending \/ n \notin 1 .. order_count,
         order_events' = Append(order_events, Record(status, n, o)),
         DOMAIN pending' \subseteq DOMAIN pending \cup {n},
         n \in DOMAIN pending' => pending'[n] = o,
         \A m \in DOMAIN pending : m # n => pending'[m] = pending[m],
         n \in 1 .. order_count', order_count \in Nat, order_count' \in Nat,
         order_count' >= order_count, fills' = fills
  PROVE  TermsInv'
<1> DEFINE e == Record(status, n, o)
<1>1. e \in OrderEvent /\ e.number = n /\ e.status = status /\ e.order = o
  BY RecordType, RecordOf DEF Accepting
<1>e. order_events' = Append(order_events, e)
  OBVIOUS
<1> HIDE DEF e
<1>d. ASSUME NEW m, NEW j, LastDecision(order_events', m, j)
      PROVE  IF m = n THEN order_events'[j] = e
             ELSE LastDecision(order_events, m, j) /\ order_events'[j] = order_events[j]
  <2>1. IF e.number = m /\ e.status \in Accepting
        THEN order_events'[j] = e
        ELSE LastDecision(order_events, m, j) /\ order_events'[j] = order_events[j]
    BY <1>1, <1>d, <1>e, DecisionsAfter
  <2>2. QED
    BY <1>1, <2>1
<1>2. ASSUME NEW m \in DOMAIN pending', NEW j, LastDecision(order_events', m, j)
      PROVE  order_events'[j].order = pending'[m]
  <2>1. CASE m = n
    BY <1>1, <1>2, <1>d, <2>1
  <2>2. CASE m # n
    BY <1>2, <1>d, <2>2 DEF TermsInv
  <2>3. QED
    BY <2>1, <2>2
<1>3. \A f \in DOMAIN fills : fills[f].number # n
  BY DEF TermsInv
<1>4. \A f \in DOMAIN fills' : fills'[f].number \in (1 .. order_count') \ DOMAIN pending'
  BY <1>3 DEF TermsInv
<1>5. \A j \in DOMAIN order_events' : order_events'[j].number \in 1 .. order_count'
  BY <1>1, <1>e, OneMoreEvent DEF TermsInv
<1>6. ASSUME NEW f \in DOMAIN fills', NEW j, LastDecision(order_events', fills'[f].number, j)
      PROVE  Honours(fills'[f], order_events'[j].order)
  <2>1. f \in DOMAIN fills /\ fills'[f] = fills[f] /\ fills[f].number # n
    BY <1>3, <1>6
  <2>2. /\ LastDecision(order_events, fills[f].number, j)
        /\ order_events'[j] = order_events[j]
    BY <1>6, <1>d, <2>1
  <2>3. QED
    BY <2>1, <2>2 DEF TermsInv, HonouredBy
<1>7. HonouredBy(fills', order_events')
  BY <1>6 DEF HonouredBy
<1>8. QED
  BY <1>2, <1>4, <1>5, <1>7 DEF TermsInv

LEMMA TermsStep ==
  ASSUME TypeInv, IdInv, IdsApart, TermsInv, [Next]_vars
  PROVE  TermsInv'
<1>0. /\ order_count \in Nat /\ DOMAIN pending \subseteq 1 .. order_count
      /\ pending \in [DOMAIN pending -> Order]
  BY DEF TypeInv, TypeOK
<1>1. CASE Quiet
  BY <1>1 DEF Quiet, orderVars, accountVars, TermsInv
<1>2. ASSUME NEW o \in Order, Adds(o) PROVE TermsInv'
  <2>1. /\ order_count + 1 \in Nat /\ order_count + 1 \notin 1 .. order_count
        /\ order_count' \in Nat /\ order_count' >= order_count
        /\ order_count + 1 \in 1 .. order_count'
    BY <1>0, <1>2 DEF Adds
  <2>2. /\ DOMAIN pending' \subseteq DOMAIN pending \cup {order_count + 1}
        /\ pending'[order_count + 1] = o
        /\ \A m \in DOMAIN pending : m # order_count + 1 => pending'[m] = pending[m]
    BY <1>2 DEF Adds
  <2>3. QED
    BY <1>0, <1>2, <2>1, <2>2, TermsDecision DEF Adds, Accepting, accountVars
<1>3. ASSUME NEW n \in DOMAIN pending, NEW o \in Order, Amends(n, o) PROVE TermsInv'
  <2>1. /\ n \in Nat /\ n \in 1 .. order_count' /\ order_count' = order_count
        /\ DOMAIN pending' = DOMAIN pending /\ pending'[n] = o
        /\ \A m \in DOMAIN pending : m # n => pending'[m] = pending[m]
    BY <1>0, <1>3 DEF Amends
  <2>2. QED
    BY <1>0, <1>3, <2>1, TermsDecision DEF Amends, Accepting, accountVars
<1>4. ASSUME NEW n \in DOMAIN pending, NEW why \in Terminal, Closes(n, why) PROVE TermsInv'
  <2> DEFINE e == Record(why, n, pending[n])
             f == FillOf(n, pending[n])
  <2>1. /\ e \in OrderEvent /\ e.number = n /\ e.status \notin Accepting
        /\ order_events' = Append(order_events, e)
    BY <1>0, <1>4, RecordType, RecordOf DEF Closes, Terminal, Accepting
  <2>2. /\ DOMAIN pending' = DOMAIN pending \ {n} /\ order_count' = order_count
        /\ \A m \in DOMAIN pending' : pending'[m] = pending[m]
    BY <1>4 DEF Closes, Without
  <2>3. ASSUME NEW m, NEW j, LastDecision(order_events', m, j)
        PROVE  LastDecision(order_events, m, j) /\ order_events'[j] = order_events[j]
    BY <2>1, <2>3, DecisionsAfter
  <2>4. ASSUME NEW m \in DOMAIN pending', NEW j, LastDecision(order_events', m, j)
        PROVE  order_events'[j].order = pending'[m]
    BY <2>2, <2>3, <2>4 DEF TermsInv
  <2>5. \A j \in DOMAIN order_events' : order_events'[j].number \in 1 .. order_count'
    BY <1>0, <2>1, <2>2, OneMoreEvent DEF TermsInv
  <2>6. ASSUME NEW k \in DOMAIN fills, NEW j, LastDecision(order_events', fills[k].number, j)
        PROVE  Honours(fills[k], order_events'[j].order)
    BY <2>3, <2>6 DEF TermsInv, HonouredBy
  <2>7. /\ \A k \in DOMAIN fills' : fills'[k].number \in (1 .. order_count') \ DOMAIN pending'
        /\ \A k \in DOMAIN fills' : \A j :
             LastDecision(order_events', fills'[k].number, j) => Honours(fills'[k], order_events'[j].order)
    <3>1. CASE fills' = fills
      BY <2>2, <2>6, <3>1 DEF TermsInv
    <3>2. CASE Fills(n)
      <4>1. /\ Len(fills) \in Nat /\ DOMAIN fills = 1 .. Len(fills)
            /\ DOMAIN fills' = 1 .. Len(fills) + 1
            /\ fills'[Len(fills) + 1] = f
            /\ \A k \in 1 .. Len(fills) : fills'[k] = fills[k]
        BY <3>2 DEF Fills, TypeInv, TypeOK
      <4>2. f.number = n /\ n \in 1 .. order_count
        BY <1>0, FillStamp
      <4>3. Honours(f, pending[n])
        BY <1>0, <3>2, FillHonours DEF Fills
      <4>4. ASSUME NEW j, LastDecision(order_events', n, j) PROVE order_events'[j].order = pending[n]
        BY <2>3, <4>4 DEF TermsInv
      <4>5. QED
        BY <2>2, <2>6, <4>1, <4>2, <4>3, <4>4 DEF TermsInv
    <3>3. QED
      BY <1>4, <3>1, <3>2 DEF Closes, accountVars
  <2>8. HonouredBy(fills', order_events')
    BY <2>7 DEF HonouredBy
  <2>9. QED
    BY <2>4, <2>5, <2>7, <2>8 DEF TermsInv
<1>5. QED
  BY <1>1, <1>2, <1>3, <1>4, StepMoves

LEMMA TermsStart == Init => TermsInv
  BY DEF Init, TermsInv, LastDecision, HonouredBy

(* Every direct order that fills does so in full, and a limit order at its  *)
(* limit or better, on the terms that were last accepted or replaced.       *)
THEOREM OrdersHonoured ==
  ASSUME IdsApart
  PROVE  Spec => []TermsHonoured
<1> DEFINE Inv == TypeInv /\ IdInv /\ TermsInv
<1>1. Init => Inv
  BY InitType, IdStart, TermsStart
<1>2. Inv /\ [Next]_vars => Inv'
  BY StepType, IdStep, TermsStep
<1>3. Inv => TermsHonoured
  BY TermsByDecision DEF TermsInv
<1>4. QED
  BY <1>1, <1>2, <1>3, PTL DEF Spec

-----------------------------------------------------------------------------
(* Without direct orders only allowed targets are ever pending.             *)
LimitInv ==
  /\ PositionWithinLimit
  /\ \A n \in DOMAIN pending :
       pending[n].order_type = "target" /\ TargetAllowed(pending[n].target_quantity)

LEMMA TargetsApart == TargetsOnly => IdsApart
  BY DEF TargetsOnly, IdsApart

(* A filled target moves the position exactly to the target.                *)
LEMMA TargetReached ==
  ASSUME TypeInv, NEW n, NEW o \in Order, o.order_type = "target"
  PROVE  quantities[o.instrument_id] + Signed(FillOf(n, o).side, FillOf(n, o).quantity)
           = o.target_quantity
<1>1. quantities[o.instrument_id] \in Int /\ o.target_quantity \in Int
  BY DEF TypeInv, TypeOK, Order
<1>2. /\ FillOf(n, o).side = IF Delta(o) > 0 THEN "buy" ELSE "sell"
      /\ FillOf(n, o).quantity = IF Delta(o) > 0 THEN Delta(o) ELSE -Delta(o)
  BY DEF FillOf, FillSide, FillQuantity
<1>3. Signed(FillOf(n, o).side, FillOf(n, o).quantity) = Delta(o)
  BY <1>1, <1>2 DEF Signed, Delta
<1>4. QED
  BY <1>1, <1>3 DEF Delta

LEMMA LimitStep ==
  ASSUME TargetsOnly, TypeInv, IdInv, LimitInv, [Next]_vars
  PROVE  LimitInv'
<1>0. pending \in [DOMAIN pending -> Order] /\ quantities \in [Instruments -> Int]
  BY DEF TypeInv, TypeOK
<1> USE DEF LimitInv, PositionWithinLimit
<1>1. CASE Quiet
  BY <1>1 DEF Quiet, orderVars, accountVars, TargetAllowed
<1>2. ASSUME NEW o \in Order, Adds(o) PROVE LimitInv'
  <2>1. o.order_type = "target" /\ TargetAllowed(o.target_quantity)
    BY <1>2 DEF Adds, Allowed, TargetsOnly
  <2>2. QED
    BY <1>2, <2>1 DEF Adds, accountVars, TargetAllowed
<1>3. ASSUME NEW n \in DOMAIN pending, NEW o \in Order, Amends(n, o) PROVE LimitInv'
  BY <1>3 DEF Amends
<1>4. ASSUME NEW n \in DOMAIN pending, NEW why \in Terminal, Closes(n, why) PROVE LimitInv'
  <2> DEFINE o == pending[n]
  <2>1. /\ DOMAIN pending' = DOMAIN pending \ {n}
        /\ \A m \in DOMAIN pending' : pending'[m] = pending[m]
    BY <1>4 DEF Closes, Without
  <2>2. CASE quantities' = quantities
    BY <2>1, <2>2 DEF TargetAllowed
  <2>3. CASE Fills(n)
    <3>1. o \in Order /\ o.order_type = "target" /\ TargetAllowed(o.target_quantity)
      BY <1>0
    <3>2. quantities' = [quantities EXCEPT ![o.instrument_id] = o.target_quantity]
      BY <1>0, <2>3, <3>1, TargetReached DEF Fills
    <3>3. \A i \in Instruments : quantities'[i] \in {quantities[i], o.target_quantity}
      BY <1>0, <3>2
    <3>4. QED
      BY <2>1, <3>1, <3>3 DEF TargetAllowed
  <2>4. QED
    BY <1>4, <2>2, <2>3 DEF Closes, accountVars
<1>5. QED
  BY <1>1, <1>2, <1>3, <1>4, StepMoves, TargetsApart

LEMMA LimitStart == Init => LimitInv
<1> SUFFICES ASSUME Init PROVE LimitInv
  OBVIOUS
<1>1. TargetAllowed(0)
  BY LimitsAssumption DEF TargetAllowed
<1>2. QED
  BY <1>1 DEF Init, LimitInv, PositionWithinLimit

(* A strategy that sets targets only never holds a position beyond the      *)
(* manifest's limit, although the engine compares only targets with it.     *)
THEOREM LimitHolds ==
  ASSUME TargetsOnly
  PROVE  Spec => []PositionWithinLimit
<1> DEFINE Inv == TypeInv /\ IdInv /\ LimitInv
<1>1. Init => Inv
  BY InitType, IdStart, LimitStart
<1>2. Inv /\ [Next]_vars => Inv'
  BY StepType, IdStep, LimitStep, TargetsApart
<1>3. Inv => PositionWithinLimit
  BY DEF LimitInv
<1>4. QED
  BY <1>1, <1>2, <1>3, PTL DEF Spec

-----------------------------------------------------------------------------
(* Targets settle in the order in which they were accepted: those that were *)
(* settled are older than those of the same instrument that are live, and   *)
(* no live one of the current instrument was passed over.                   *)
TargetEnd(e, i) == e.order.instrument_id = i /\ e.status \in {"filled", "satisfied"}

LastInv ==
  /\ phase = "settle" =>
       \A m \in DOMAIN pending \ unsettled : pending[m].instrument_id # event.instrument_id
  /\ \A n \in DOMAIN pending, j \in DOMAIN order_events :
       TargetEnd(order_events[j], pending[n].instrument_id) => order_events[j].number < n
  /\ PositionIsLastTarget

(* The steps after which an order is no longer live.                        *)
LEMMA ClosingStep ==
  ASSUME TypeInv, [Next]_vars, NEW n \in DOMAIN pending, n \notin DOMAIN pending'
  PROVE  \/ SettleSatisfied \/ SettleFilled \/ ExpireOrder
         \/ \E a \in Actions : HandleCancel(a)
<1>1. pending' # pending
  OBVIOUS
<1>2. ASSUME NEW a \in Actions, Handle(a) PROVE HandleCancel(a)
  <2>1. pending' # pending
    BY <1>1
  <2>2. ~HandleReplace(a)
    BY DEF HandleReplace
  <2>3. \A o : ~Accept(o)
    BY DEF Accept
  <2>4. ~HandleTarget(a) /\ ~HandleWeight(a) /\ ~HandleSubmit(a)
    BY <2>1, <2>3
    DEF HandleTarget, HandleWeight, HandleSubmit, AcceptTarget, RejectTarget, Reject, Fail, orderVars
  <2>5. ~HandleNoOp(a) /\ ~HandlePrediction(a)
    BY <2>1 DEF HandleNoOp, HandlePrediction, orderVars
  <2>6. ~RejectCancel(a) /\ ~RejectReplace(a) /\ ~RejectUnmarked(a) /\ ~RejectInstrument(a)
    BY <2>1
    DEF RejectCancel, RejectReplace, RejectUnmarked, RejectInstrument, Reject, Fail, orderVars
  <2>7. QED
    BY <1>2, <2>2, <2>4, <2>5, <2>6 DEF Handle
<1>3. ~(\/ RejectEmptyTape \/ RejectDisorder \/ StrategyRaises \/ Start \/ BeginEvent
        \/ SettleKept \/ EndSettlement \/ ValuePosition \/ TakeSnapshot
        \/ EndEvent \/ Finish \/ Report \/ UNCHANGED vars)
  BY <1>1
  DEF RejectEmptyTape, RejectDisorder, StrategyRaises, Fail, Start, BeginEvent, SettleKept,
      EndSettlement, ValuePosition, TakeSnapshot, EndEvent, Finish, Report, orderVars, vars
<1>4. QED
  BY <1>2, <1>3 DEF Next, Proceed, Settle, Ended

LEMMA TargetEndsAre ==
  ASSUME NEW i
  PROVE  TargetEnds(i) = {j \in DOMAIN order_events : TargetEnd(order_events[j], i)}
  BY DEF TargetEnds, TargetEnd

(* What one more order event adds to the settled targets of an instrument.  *)
LEMMA TargetEndsAfter ==
  ASSUME TypeInv, NEW e \in OrderEvent, order_events' = Append(order_events, e), NEW i
  PROVE  TargetEnds(i)' =
           TargetEnds(i) \cup (IF TargetEnd(e, i) THEN {Len(order_events) + 1} ELSE {})
<1>1. /\ Len(order_events) \in Nat
      /\ DOMAIN order_events = 1 .. Len(order_events)
      /\ DOMAIN order_events' = 1 .. Len(order_events) + 1
      /\ order_events'[Len(order_events) + 1] = e
      /\ \A j \in 1 .. Len(order_events) : order_events'[j] = order_events[j]
  BY OneMoreEvent
<1>2. 1 .. Len(order_events) + 1 = 1 .. Len(order_events) \cup {Len(order_events) + 1}
  BY <1>1
<1>3. QED
  BY <1>1, <1>2 DEF TargetEnds, TargetEnd

(* An event that settles nothing, after which the live orders are older     *)
(* ones, or one that is newer than all that were settled.                   *)
LEMMA NothingSettled ==
  ASSUME TypeInv, EndInv, LastInv, NEW e \in OrderEvent, order_events' = Append(order_events, e),
         e.status \notin {"filled", "satisfied"}, quantities' = quantities,
         \A n \in DOMAIN pending' :
            (n \in DOMAIN pending /\ pending'[n] = pending[n]) \/ n = order_count + 1,
         phase' # "settle"
  PROVE  LastInv'
<1>1. /\ Len(order_events) \in Nat
      /\ DOMAIN order_events = 1 .. Len(order_events)
      /\ DOMAIN order_events' = 1 .. Len(order_events) + 1
      /\ order_events'[Len(order_events) + 1] = e
      /\ \A j \in 1 .. Len(order_events) : order_events'[j] = order_events[j]
  BY OneMoreEvent
<1>2. \A i : TargetEnds(i)' = TargetEnds(i)
  BY TargetEndsAfter DEF TargetEnd
<1>3. \A i, j : j \in TargetEnds(i) => order_events'[j] = order_events[j]
  BY <1>1 DEF TargetEnds
<1>4. PositionIsLastTarget'
  <2> SUFFICES ASSUME NEW i \in Instruments
               PROVE  IF TargetEnds(i)' = {} THEN quantities[i] = 0
                      ELSE \E j \in TargetEnds(i)' :
                             /\ \A k \in TargetEnds(i)' :
                                   order_events'[k].number <= order_events'[j].number
                             /\ quantities[i] = order_events'[j].order.target_quantity
    BY DEF PositionIsLastTarget
  <2>1. TargetEnds(i)' = TargetEnds(i)
    BY <1>2
  <2>2. IF TargetEnds(i) = {} THEN quantities[i] = 0
        ELSE \E j \in TargetEnds(i) :
               /\ \A k \in TargetEnds(i) : order_events[k].number <= order_events[j].number
               /\ quantities[i] = order_events[j].order.target_quantity
    BY DEF LastInv, PositionIsLastTarget
  <2>3. \A j \in TargetEnds(i) : order_events'[j] = order_events[j]
    BY <1>3
  <2>4. QED
    BY <2>1, <2>2, <2>3
<1>5. ASSUME NEW n \in DOMAIN pending', NEW j \in DOMAIN order_events',
             TargetEnd(order_events'[j], pending'[n].instrument_id)
      PROVE  order_events'[j].number < n
  <2>1. j \in DOMAIN order_events /\ order_events'[j] = order_events[j]
    BY <1>1, <1>5 DEF TargetEnd
  <2>2. order_events[j].number \in 1 .. order_count /\ order_count \in Nat
    BY <2>1 DEF EndInv, TypeInv, TypeOK
  <2>3. CASE n = order_count + 1
    BY <2>1, <2>2, <2>3
  <2>4. CASE n \in DOMAIN pending /\ pending'[n] = pending[n]
    BY <1>5, <2>1, <2>4 DEF LastInv
  <2>5. QED
    BY <2>3, <2>4
<1>6. QED
  BY <1>4, <1>5 DEF LastInv

(* The head of the orders still to settle is settled: it is newer than the  *)
(* settled ones of its instrument and older than the live ones.             *)
LEMMA HeadSettled ==
  ASSUME TypeInv, LimitInv, EndInv, LastInv, SettleSatisfied \/ SettleFilled
  PROVE  LastInv'
<1> DEFINE n == First(unsettled)
           o == pending[n]
<1>1. /\ n \in unsettled /\ n \in DOMAIN pending /\ o \in Order /\ o.order_type = "target"
      /\ \A m \in unsettled : n <= m
  <2>1. unsettled # {}
    BY DEF SettleSatisfied, SettleFilled
  <2>2. unsettled \in SUBSET Nat /\ unsettled \subseteq DOMAIN pending
    BY DEF TypeInv, TypeOK
  <2>3. n \in unsettled /\ o \in Order /\ \A m \in unsettled : n <= m
    BY <2>1, <2>2, HeadOrder, FirstIsLeast
  <2>4. QED
    BY <2>2, <2>3 DEF LimitInv
<1>2. \E status \in {"filled", "satisfied"} :
        order_events' = Append(order_events, Record(status, n, o))
  BY DEF SettleSatisfied, SettleFilled
<1>3. PICK e \in OrderEvent :
        /\ order_events' = Append(order_events, e) /\ e.status \in {"filled", "satisfied"}
        /\ e.number = n /\ e.order = o
  BY <1>1, <1>2, RecordType, RecordOf, HeadOrder DEF Terminal, SettleSatisfied, SettleFilled
<1>4. /\ Len(order_events) \in Nat
      /\ DOMAIN order_events = 1 .. Len(order_events)
      /\ DOMAIN order_events' = 1 .. Len(order_events) + 1
      /\ order_events'[Len(order_events) + 1] = e
      /\ \A j \in 1 .. Len(order_events) : order_events'[j] = order_events[j]
  BY <1>3, OneMoreEvent
<1>5. /\ phase = "settle" /\ phase' = phase /\ event' = event
      /\ o.instrument_id = event.instrument_id
      /\ DOMAIN pending' = DOMAIN pending \ {n} /\ unsettled' = unsettled \ {n}
      /\ \A m \in DOMAIN pending' : pending'[m] = pending[m]
  BY DEF SettleSatisfied, SettleFilled, Executable, Without, programVars, event
<1>6. /\ quantities'[o.instrument_id] = o.target_quantity
      /\ \A i \in Instruments \ {o.instrument_id} : quantities'[i] = quantities[i]
  <2>1. quantities \in [Instruments -> Int] /\ o.instrument_id \in Instruments
        /\ o.target_quantity \in Int
    BY <1>1 DEF TypeInv, TypeOK, Order
  <2>2. CASE SettleSatisfied
    BY <2>1, <2>2 DEF SettleSatisfied, Satisfied, Delta, accountVars
  <2>3. CASE SettleFilled
    <3>1. quantities' = [quantities EXCEPT ![o.instrument_id] =
                           @ + Signed(FillOf(n, o).side, FillOf(n, o).quantity)]
      BY <2>3 DEF SettleFilled
    <3>2. QED
      BY <1>1, <2>1, <3>1, TargetReached
  <2>4. QED
    BY <2>2, <2>3
<1>7. \A j \in DOMAIN order_events :
         TargetEnd(order_events[j], o.instrument_id) => order_events[j].number < n
  BY <1>1 DEF LastInv
<1> HIDE DEF n, o
<1>8. \A m \in DOMAIN pending' \ unsettled' : pending'[m].instrument_id # event'.instrument_id
  BY <1>5 DEF LastInv
<1>9. ASSUME NEW m \in DOMAIN pending', NEW j \in DOMAIN order_events',
             TargetEnd(order_events'[j], pending'[m].instrument_id)
      PROVE  order_events'[j].number < m
  <2>1. CASE j = Len(order_events) + 1
    <3>1. pending[m].instrument_id = o.instrument_id
      BY <1>3, <1>4, <1>5, <1>9, <2>1 DEF TargetEnd
    <3>2. m \in unsettled /\ m # n
      BY <1>5, <3>1 DEF LastInv
    <3>3. n < m
      BY <1>1, <3>2 DEF TypeInv, TypeOK
    <3>4. QED
      BY <1>3, <1>4, <2>1, <3>3
  <2>2. CASE j # Len(order_events) + 1
    <3>1. j \in DOMAIN order_events /\ order_events'[j] = order_events[j]
      BY <1>4, <2>2
    <3>2. QED
      BY <1>5, <1>9, <3>1 DEF LastInv
  <2>3. QED
    BY <2>1, <2>2
<1>10. PositionIsLastTarget'
  <2> SUFFICES ASSUME NEW i \in Instruments
               PROVE  IF TargetEnds(i)' = {} THEN quantities'[i] = 0
                      ELSE \E j \in TargetEnds(i)' :
                             /\ \A k \in TargetEnds(i)' :
                                   order_events'[k].number <= order_events'[j].number
                             /\ quantities'[i] = order_events'[j].order.target_quantity
    BY DEF PositionIsLastTarget
  <2>1. TargetEnds(i)' = TargetEnds(i) \cup
           (IF TargetEnd(e, i) THEN {Len(order_events) + 1} ELSE {})
    BY <1>3, TargetEndsAfter
  <2>2. \A j \in TargetEnds(i) : j \in DOMAIN order_events /\ TargetEnd(order_events[j], i)
                                /\ order_events'[j] = order_events[j]
    BY <1>4 DEF TargetEnds, TargetEnd
  <2>3. CASE i = o.instrument_id
    <3>1. TargetEnds(i)' = TargetEnds(i) \cup {Len(order_events) + 1}
      BY <1>3, <2>1, <2>3 DEF TargetEnd
    <3>2. ASSUME NEW k \in TargetEnds(i)' PROVE order_events'[k].number <= n
      <4>1. n \in Nat
        BY <1>1 DEF TypeInv, TypeOK
      <4>2. CASE k \in TargetEnds(i)
        <5>1. order_events[k] \in OrderEvent
          BY <2>2, <4>2, ElementOfSeq DEF TypeInv, TypeOK
        <5>2. order_events[k].number < n /\ order_events[k].number \in Nat
          BY <1>7, <2>2, <2>3, <4>2, <5>1 DEF OrderEvent
        <5>3. QED
          BY <2>2, <4>1, <4>2, <5>2
      <4>3. CASE k = Len(order_events) + 1
        BY <1>3, <1>4, <4>1, <4>3
      <4>4. QED
        BY <3>1, <4>2, <4>3
    <3>3. QED
      BY <1>3, <1>4, <1>6, <2>3, <3>1, <3>2
  <2>4. CASE i # o.instrument_id
    <3>1. TargetEnds(i)' = TargetEnds(i) /\ quantities'[i] = quantities[i]
      BY <1>3, <1>6, <2>1, <2>4 DEF TargetEnd
    <3>2. QED
      BY <2>2, <3>1 DEF LastInv, PositionIsLastTarget
  <2>5. QED
    BY <2>3, <2>4
<1>11. QED
  BY <1>8, <1>9, <1>10 DEF LastInv

LEMMA QuietKeepsLast ==
  ASSUME TypeInv, LimitInv, LastInv, Quiet
  PROVE  LastInv'
<1>1. UNCHANGED <<events, pending, order_events, quantities>>
  BY DEF Quiet, orderVars, accountVars
<1>2. PositionIsLastTarget'
  BY <1>1 DEF LastInv, PositionIsLastTarget, TargetEnds
<1>3. \A n \in DOMAIN pending, j \in DOMAIN order_events :
         TargetEnd(order_events[j], pending[n].instrument_id) => order_events[j].number < n
  BY DEF LastInv
<1>4. phase' = "settle" =>
        \A m \in DOMAIN pending \ unsettled' : pending[m].instrument_id # event'.instrument_id
  <2>1. CASE UNCHANGED <<event_index, unsettled>> /\ (phase' = "settle" => phase = "settle")
    BY <1>1, <2>1 DEF LastInv, event
  <2>2. CASE SettleKept
    <3>1. /\ phase = "settle" /\ event' = event /\ unsettled' = unsettled \ {First(unsettled)}
          /\ ~Executable(pending[First(unsettled)], event)
      BY <2>2 DEF SettleKept, programVars, event
    <3>2. First(unsettled) \in DOMAIN pending
      BY <2>2, HeadOrder DEF SettleKept, TypeInv, TypeOK
    <3>3. pending[First(unsettled)].instrument_id # event.instrument_id
      BY <3>1, <3>2 DEF Executable, LimitInv
    <3>4. QED
      BY <3>1, <3>3 DEF LastInv
  <2>3. CASE BeginEvent
    BY <2>3 DEF BeginEvent
  <2>4. QED
    BY <2>1, <2>2, <2>3 DEF Quiet
<1>5. QED
  BY <1>1, <1>2, <1>3, <1>4 DEF LastInv

LEMMA LastStep ==
  ASSUME TargetsOnly, TypeInv, IdInv, LimitInv, EndInv, LastInv, [Next]_vars
  PROVE  LastInv'
<1>1. /\ order_count \in Nat /\ DOMAIN pending \subseteq 1 .. order_count
      /\ pending \in [DOMAIN pending -> Order]
  BY DEF TypeInv, TypeOK
<1>2. CASE SettleSatisfied \/ SettleFilled
  BY <1>2, HeadSettled
<1>3. CASE Quiet
  BY <1>3, QuietKeepsLast
<1>4. ASSUME NEW o \in Order, Adds(o) PROVE LastInv'
  <2> DEFINE e == Record("accepted", order_count + 1, o)
  <2>1. e \in OrderEvent /\ e.status = "accepted"
    BY <1>1, RecordType, RecordOf
  <2>2. /\ order_events' = Append(order_events, e) /\ quantities' = quantities
        /\ phase' = "act"
        /\ \A n \in DOMAIN pending' :
             (n \in DOMAIN pending /\ pending'[n] = pending[n]) \/ n = order_count + 1
    BY <1>1, <1>4 DEF Adds, accountVars
  <2> HIDE DEF e
  <2>3. QED
    BY <2>1, <2>2, NothingSettled
<1>5. ASSUME NEW n \in DOMAIN pending, NEW o \in Order, Amends(n, o) PROVE LastInv'
  BY <1>5 DEF Amends, LimitInv
<1>6. ASSUME NEW n \in DOMAIN pending, NEW why \in Terminal, Closes(n, why),
             ~SettleSatisfied, ~SettleFilled
      PROVE  LastInv'
  <2> DEFINE e == Record(why, n, pending[n])
  <2>1. n \in Nat /\ n \notin DOMAIN pending' /\ e \in OrderEvent /\ e.status = why
    BY <1>1, <1>6, RecordType, RecordOf DEF Closes, Without
  <2>2. /\ order_events' = Append(order_events, e) /\ phase' = phase
        /\ \A m \in DOMAIN pending' : m \in DOMAIN pending /\ pending'[m] = pending[m]
    BY <1>6 DEF Closes, Without
  <2>3. ExpireOrder \/ \E a \in Actions : HandleCancel(a)
    BY <1>6, <2>1, ClosingStep
  <2>4. phase # "settle" /\ quantities' = quantities
    BY <2>3 DEF ExpireOrder, HandleCancel, Acting, ActionDone, accountVars
  <2>5. PICK status \in {"expired", "canceled"}, m \in Nat, p \in Order :
           order_events' = Append(order_events, Record(status, m, p))
    <3>1. CASE ExpireOrder
      <4>1. First(DOMAIN pending) \in DOMAIN pending
        BY <1>1, <1>6, FirstIsLeast
      <4>2. QED
        BY <1>1, <3>1, <4>1 DEF ExpireOrder
    <3>2. CASE \E a \in Actions : HandleCancel(a)
      <4>1. PICK a \in Actions : HandleCancel(a)
        BY <3>2
      <4>2. /\ First(Bearers(a.client_order_id)) \in DOMAIN pending
            /\ First(Bearers(a.client_order_id)) \in Nat
        <5>1. Bearers(a.client_order_id) \in SUBSET Nat /\ Bearers(a.client_order_id) # {}
          BY <1>1, <4>1 DEF Bearers, HandleCancel
        <5>2. First(Bearers(a.client_order_id)) \in Bearers(a.client_order_id)
          BY <5>1, FirstIsLeast
        <5>3. QED
          BY <5>1, <5>2 DEF Bearers
      <4>3. QED
        BY <1>1, <4>1, <4>2 DEF HandleCancel
    <3>3. QED
      BY <2>3, <3>1, <3>2
  <2>6. e.status \in {"expired", "canceled"}
    <3>1. Record(status, m, p) \in OrderEvent /\ Record(status, m, p).status = status
      BY RecordType, RecordOf DEF Terminal
    <3>2. e = Record(status, m, p)
      BY <2>1, <2>2, <2>5, <3>1, OneMoreEvent
    <3>3. QED
      BY <3>1, <3>2
  <2> HIDE DEF e
  <2>7. QED
    BY <2>1, <2>2, <2>4, <2>6, NothingSettled
<1>7. QED
  BY <1>2, <1>3, <1>4, <1>5, <1>6, StepMoves, TargetsApart

LEMMA LastStart == Init => LastInv
BY DEF Init, LastInv, PositionIsLastTarget, TargetEnds

(* A position is what the newest settled target of its instrument asked     *)
(* for, however many targets were live at once and whatever was canceled in *)
(* between: targets settle in the order in which they were accepted.        *)
THEOREM NewestTargetCounts ==
  ASSUME TargetsOnly
  PROVE  Spec => []PositionIsLastTarget
<1> DEFINE Inv == TypeInv /\ IdInv /\ LimitInv /\ EndInv /\ LastInv
<1>1. Init => Inv
  BY InitType, IdStart, LimitStart, EndStart, LastStart
<1>2. Inv /\ [Next]_vars => Inv'
  BY StepType, IdStep, LimitStep, EndStep, LastStep, TargetsApart
<1>3. Inv => PositionIsLastTarget
  BY DEF LastInv
<1>4. QED
  BY <1>1, <1>2, <1>3, PTL DEF Spec
=============================================================================
