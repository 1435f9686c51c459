------------------------- MODULE Strategies_proofs -------------------------
(***************************************************************************)
(* Proofs about the bundled strategies and the engine that runs them, for  *)
(* every tape, every instrument and every bound.                           *)
(*                                                                         *)
(* A strategy is not told what became of its actions; it guesses from what *)
(* it remembers and from the orders that are open when it is called.  The  *)
(* guesses are right because of the order of the callbacks: an event       *)
(* settles the orders of its instrument before the strategy is called, and *)
(* its whole answer is handled before the next event.  The parts of        *)
(* ServeInv say for each family of strategies what that leaves true        *)
(* between two steps of the engine.                                        *)
(***************************************************************************)
EXTENDS Strategies, EngineAccounting_proofs

-----------------------------------------------------------------------------
(* What a bundled strategy remembers and answers.                           *)

Marked == {i \in universe : marks[i] > 0}

(* The event that is handled has marked its instrument.                     *)
CurrentInv == phase \in {"settle", "value", "act"} => event.instrument_id \in Marked

(* The memory of a strategy, whose latest prices are of marked instruments. *)
Remembers(m) ==
  /\ m = [window |-> m.window, latest |-> m.latest, counter |-> m.counter]
  /\ m.counter \in Nat
  /\ DOMAIN m.latest \subseteq Marked

StrategyInv ==
  /\ strategy \in {"any"} \cup DOMAIN Manifests
  /\ Remembers(memory)
  /\ response \in Seq(Action)

Answers == IF event.payload.kind = manifest.reads THEN Decision ELSE Idle(memory)

(* The strategies that name their orders by counting them.                  *)
Counting == {"l1_microprice", "twap_execution", "contextual_bandit_execution"}

(* What a strategy may put into its answer.                                 *)
Aims(a) ==
  \E i \in Marked, q \in Int :
    /\ a = TargetPosition(i, q)
    /\ manifest.max_abs_position \in Nat /\ Magnitude(q) <= manifest.max_abs_position

Weighs(a) ==
  /\ manifest.max_abs_position = NoLimit
  /\ \E i \in Marked, w \in -WeightOne .. WeightOne : a = TargetWeight(i, w)

Takes(a) ==
  /\ strategy \in Counting /\ manifest.max_order_quantity \in Nat
  /\ \E side \in Side, q \in Nat \ {0} :
       /\ a = SubmitOrder(memory.counter + 1, side, "market", q, 0)
       /\ strategy # "twap_execution" => q <= manifest.max_order_quantity
       /\ strategy = "twap_execution" => q = SliceQuantity

Sides == <<"buy", "sell">>

Makes(a) ==
  /\ strategy = "l2_imbalance_maker"
  /\ \E k \in 1 .. 2, price \in Nat \ {0} : a = MakerOrder(k, Sides[k], price)

Proper(a) ==
  /\ a.kind \in manifest.allowed
  /\ a = NoOp \/ a = Prediction \/ Aims(a) \/ Weighs(a) \/ Takes(a) \/ Makes(a)

Sound(r) ==
  /\ Remembers(r.memory)
  /\ r.actions \in Seq(Action)
  /\ \A n \in DOMAIN r.actions : Proper(r.actions[n])

-----------------------------------------------------------------------------
LEMMA MarkedAre ==
  ASSUME TypeInv
  PROVE  Marked \subseteq Instruments
<1>1. events \in Seq(MarketEvent)
  BY ConstantsAssumption DEF TypeInv, TypeOK
<1>2. \A i \in 1 .. Len(events) : events[i] \in MarketEvent
  BY <1>1, ElementOfSeq
<1>3. \A i \in DOMAIN events : events[i].instrument_id \in Instruments
  BY <1>1, <1>2 DEF MarketEvent
<1>4. QED
  BY <1>3 DEF Marked, universe

(* Every proper action is one the engine knows.                             *)
LEMMA ProperType ==
  ASSUME TypeInv, StrategyInv, NEW a, Proper(a), event.instrument_id \in Marked
  PROVE  a \in Action
<1>1. CASE a = NoOp \/ a = Prediction
  BY <1>1 DEF NoOp, Prediction, Action
<1>2. CASE Aims(a)
  BY <1>2, MarkedAre DEF Aims, TargetPosition, Action
<1>3. CASE Weighs(a)
  BY <1>3, MarkedAre DEF Weighs, TargetWeight, Action
<1>4. ASSUME NEW n \in Nat, NEW side \in Side, NEW type \in {"market", "limit"},
             NEW q \in Nat \ {0}, NEW limit \in Nat, type = "limit" => limit # 0
      PROVE  SubmitOrder(n, side, type, q, limit) \in Action
  BY <1>4, MarkedAre DEF SubmitOrder, Action, OrderId
<1>5. CASE Takes(a)
  <2>1. memory.counter + 1 \in Nat
    BY DEF StrategyInv, Remembers
  <2>2. QED
    BY <1>4, <1>5, <2>1 DEF Takes
<1>6. CASE Makes(a)
  <2>1. PICK k \in 1 .. 2, price \in Nat \ {0} : a = MakerOrder(k, Sides[k], price)
    BY <1>6 DEF Makes
  <2>2. Sides[k] \in Side
    BY DEF Sides, Side
  <2>3. SubmitOrder(k, Sides[k], "limit", 1, price) \in Action
    BY <1>4, <2>2
  <2>4. ReplaceOrder(k, price) \in Action
    BY DEF ReplaceOrder, Action, OrderId
  <2>5. QED
    BY <2>1, <2>3, <2>4 DEF MakerOrder
<1>7. QED
  BY <1>1, <1>2, <1>3, <1>5, <1>6 DEF Proper

(* The manifests, one by one.                                               *)
LEMMA ManifestsAre ==
  /\ Manifests["donchian_breakout"] = Manifest("bar", Targets, 2, 10)
  /\ Manifests["sma_cross"]         = Manifest("bar", Targets, 1, NoLimit)
  /\ Manifests["pairs_zscore"]      = Manifest("bar", Targets, 1, 10)
  /\ Manifests["l1_microprice"]     = Manifest("quote", Orders, 10, 1)
  /\ Manifests["l2_imbalance_maker"] = Manifest("quote", Orders \cup {"replace_order"}, 10, 1)
  /\ Manifests["twap_execution"]    = Manifest("bar", Orders, NoLimit, 2)
  /\ Manifests["logistic_direction"] = Manifest("bar", Modelled, 1, 10)
  /\ Manifests["ridge_return"]      = Manifest("bar", Modelled, 2, 10)
  /\ Manifests["gaussian_volume_breakout"] = Manifest("bar", Modelled, 1, 10)
  /\ Manifests["l1_adverse_selection"] = Manifest("quote", Modelled, 1, 10)
  /\ Manifests["l2_fill_probability"] = Manifest("quote", Modelled, 1, 10)
  /\ Manifests["cross_sectional_ranker"] =
       Manifest("bar", {"prediction", "target_weight"}, NoLimit, 10)
  /\ Manifests["tabular_q_inventory"] = Manifest("bar", Targets, 1, 10)
  /\ Manifests["sarsa_trend"]       = Manifest("bar", Targets, 2, 10)
  /\ Manifests["double_q_book_inventory"] = Manifest("quote", Targets, 1, 10)
  /\ Manifests["contextual_bandit_execution"] = Manifest("bar", Orders, NoLimit, 2)
  /\ Manifests["dyna_q_pairs"]      = Manifest("bar", Targets, 1, 10)
  /\ Manifests["linear_actor_critic_allocation"] =
       Manifest("bar", {"target_weight"}, NoLimit, 10)
  BY DEF Manifests

LEMMA StrategiesAre ==
  DOMAIN Manifests =
    {"donchian_breakout", "sma_cross", "pairs_zscore", "l1_microprice", "l2_imbalance_maker",
     "twap_execution", "logistic_direction", "ridge_return", "gaussian_volume_breakout",
     "l1_adverse_selection", "l2_fill_probability", "cross_sectional_ranker",
     "tabular_q_inventory", "sarsa_trend", "double_q_book_inventory",
     "contextual_bandit_execution", "dyna_q_pairs", "linear_actor_critic_allocation"}
  BY DEF Manifests

-----------------------------------------------------------------------------
(* What each strategy answers is sound.                                     *)
LEMMA TupleSound ==
  ASSUME TypeInv, StrategyInv, event.instrument_id \in Marked, NEW m, Remembers(m)
  PROVE  /\ \A a : Proper(a) => Sound(Returned(<<a>>, m))
         /\ \A a, b : Proper(a) /\ Proper(b) => Sound(Returned(<<a, b>>, m))
<1>1. ASSUME NEW a, Proper(a) PROVE Sound(Returned(<<a>>, m))
  <2>1. a \in Action
    BY <1>1, ProperType
  <2>2. <<a>> \in Seq(Action) /\ DOMAIN <<a>> = {1}
    BY <2>1
  <2>3. QED
    BY <1>1, <2>2 DEF Sound, Returned
<1>2. ASSUME NEW a, NEW b, Proper(a), Proper(b) PROVE Sound(Returned(<<a, b>>, m))
  <2>1. a \in Action /\ b \in Action
    BY <1>2, ProperType
  <2>2. <<a, b>> \in Seq(Action) /\ DOMAIN <<a, b>> = {1, 2}
    BY <2>1
  <2>3. QED
    BY <1>2, <2>2 DEF Sound, Returned
<1>3. QED
  BY <1>1, <1>2

LEMMA IdleSound ==
  ASSUME TypeInv, StrategyInv, ~Free, event.instrument_id \in Marked,
         NEW m, Remembers(m), NEW r \in Idle(m)
  PROVE  Sound(r)
<1>1. "no_op" \in manifest.allowed
  BY ManifestsAre, StrategiesAre DEF StrategyInv, Free, manifest, Manifest
<1>2. Proper(NoOp)
  BY <1>1 DEF Proper, NoOp
<1>3. QED
  BY <1>2, TupleSound DEF Idle

(* What a strategy remembers on the way.                                    *)
LEMMA RemembersMore ==
  ASSUME StrategyInv, event.instrument_id \in Marked
  PROVE  /\ Remembers(memory) /\ Remembers(Counted) /\ Remembers(Noted)
         /\ Counted.counter = memory.counter + 1
         /\ \A w : /\ Remembers([memory EXCEPT !.window = w])
                  /\ Remembers([Noted EXCEPT !.window = w])
<1>1. PICK w0, l0, c0 : /\ memory = [window |-> w0, latest |-> l0, counter |-> c0]
                        /\ c0 \in Nat /\ DOMAIN l0 \subseteq Marked
  BY DEF StrategyInv, Remembers
<1>2. Remembers(memory)
  BY DEF StrategyInv
<1>3. Counted = [window |-> w0, latest |-> l0, counter |-> c0 + 1]
  BY <1>1 DEF Counted
<1>4. PICK l : /\ Noted = [window |-> w0, latest |-> l, counter |-> c0]
               /\ DOMAIN l = {event.instrument_id} \cup DOMAIN l0
  <2> DEFINE k == [i \in {event.instrument_id} \cup DOMAIN memory.latest |->
                     IF i = event.instrument_id
                     THEN [time |-> event.available_time, close |-> event.payload.close]
                     ELSE memory.latest[i]]
  <2>1. Noted = [memory EXCEPT !.latest = k]
    BY DEF Noted
  <2>2. DOMAIN k = {event.instrument_id} \cup DOMAIN l0
    BY <1>1
  <2> HIDE DEF k
  <2>3. [memory EXCEPT !.latest = k] = [window |-> w0, latest |-> k, counter |-> c0]
    BY <1>1
  <2>4. QED
    BY <2>1, <2>2, <2>3
<1>5. ASSUME NEW w
      PROVE  /\ [memory EXCEPT !.window = w] = [window |-> w, latest |-> l0, counter |-> c0]
             /\ [Noted EXCEPT !.window = w] = [window |-> w, latest |-> l, counter |-> c0]
  BY <1>1, <1>4
<1>6. \A w, k, c : c \in Nat /\ DOMAIN k \subseteq Marked =>
                    Remembers([window |-> w, latest |-> k, counter |-> c])
  BY DEF Remembers
<1>7. c0 + 1 \in Nat /\ DOMAIN l \subseteq Marked
  BY <1>1, <1>4
<1>8. QED
  BY <1>1, <1>2, <1>3, <1>4, <1>5, <1>6, <1>7

(* A target of the current instrument.                                      *)
LEMMA TargetProper ==
  ASSUME event.instrument_id \in Marked, NEW q \in Int,
         "target_position" \in manifest.allowed,
         manifest.max_abs_position \in Nat, Magnitude(q) <= manifest.max_abs_position
  PROVE  Proper(TargetPosition(event.instrument_id, q))
  BY DEF Proper, Aims, TargetPosition

LEMMA DonchianSound ==
  ASSUME TypeInv, StrategyInv, event.instrument_id \in Marked,
         strategy = "donchian_breakout", NEW r \in Donchian
  PROVE  Sound(r)
<1>1. ~Free /\ "target_position" \in manifest.allowed /\ manifest.max_abs_position = 2
  BY ManifestsAre DEF Free, manifest, Manifest, Targets
<1> DEFINE pushed == [memory EXCEPT
               !.window = Pushed(@, [high |-> event.payload.high, low |-> event.payload.low],
                                 Lookback)]
<1>2. Remembers(pushed)
  BY RemembersMore
<1>3. Proper(TargetPosition(event.instrument_id, 2)) /\ Proper(TargetPosition(event.instrument_id, -2))
  BY <1>1, TargetProper, Magnitude(2) <= 2, Magnitude(-2) <= 2 DEF Magnitude
<1>4. \/ r \in Idle(pushed) \/ r = Returned(<<TargetPosition(event.instrument_id, 2)>>, pushed)
      \/ r = Returned(<<TargetPosition(event.instrument_id, -2)>>, pushed)
  BY DEF Donchian
<1> HIDE DEF pushed
<1>5. QED
  BY <1>1, <1>2, <1>3, <1>4, IdleSound, TupleSound

LEMMA SmaSound ==
  ASSUME TypeInv, StrategyInv, event.instrument_id \in Marked,
         strategy = "sma_cross", NEW r \in SmaCross
  PROVE  Sound(r)
<1>1. ~Free /\ "target_position" \in manifest.allowed /\ manifest.max_abs_position = 1
  BY ManifestsAre DEF Free, manifest, Manifest, Targets
<1> DEFINE pushed == [memory EXCEPT !.window = Pushed(memory.window, event.payload.close, LongWindow)]
<1>2. Remembers(pushed)
  BY RemembersMore
<1>3. Proper(TargetPosition(event.instrument_id, 1)) /\ Proper(TargetPosition(event.instrument_id, -1))
  BY <1>1, TargetProper DEF Magnitude
<1>4. \/ r \in Idle(pushed) \/ r = Returned(<<TargetPosition(event.instrument_id, 1)>>, pushed)
      \/ r = Returned(<<TargetPosition(event.instrument_id, -1)>>, pushed)
  BY DEF SmaCross
<1> HIDE DEF pushed
<1>5. QED
  BY <1>1, <1>2, <1>3, <1>4, IdleSound, TupleSound

(* Both legs of a pair, for a direction.                                    *)
LEMMA LegsProper ==
  ASSUME strategy \in {"pairs_zscore", "dyna_q_pairs"}, NEW d \in {-1, 0, 1},
         \A k \in 1 .. 2 : PairSymbols[k] \in Marked
  PROVE  /\ BothLegs(d) = <<Leg(1, d), Leg(2, -d)>>
         /\ Proper(Leg(1, d)) /\ Proper(Leg(2, -d))
<1>1. "target_position" \in manifest.allowed /\ manifest.max_abs_position = 1
  BY ManifestsAre DEF manifest, Manifest, Targets
<1>2. ASSUME NEW k \in 1 .. 2, NEW q \in {-1, 0, 1} PROVE Proper(Leg(k, q))
  <2>1. Magnitude(q) <= 1
    BY DEF Magnitude
  <2>2. QED
    BY <1>1, <2>1 DEF Proper, Aims, Leg, TargetPosition
<1>3. QED
  BY <1>2, -d \in {-1, 0, 1} DEF BothLegs

LEMMA SynchronizedMarked ==
  ASSUME NEW m, Remembers(m), NEW k, NEW symbols \in [1 .. k -> Instruments],
         Synchronized(m.latest, symbols)
  PROVE  \A n \in 1 .. k : symbols[n] \in Marked
  BY DEF Remembers, Synchronized, Range

LEMMA PairsSound ==
  ASSUME TypeInv, StrategyInv, event.instrument_id \in Marked,
         strategy \in {"pairs_zscore", "dyna_q_pairs"},
         NEW r \in PairsZScore \cup DynaQPairs
  PROVE  /\ Sound(r)
         /\ r.actions = <<NoOp>> \/ \E d \in {-1, 0, 1} : r.actions = BothLegs(d)
<1>1. ~Free /\ Remembers(Noted) /\ \A w : Remembers([Noted EXCEPT !.window = w])
  BY RemembersMore DEF Free
<1>2. ASSUME NEW m, Remembers(m), r \in Idle(m) PROVE r.actions = <<NoOp>> /\ Sound(r)
  BY <1>1, <1>2, IdleSound DEF Idle, Returned
<1>3. ASSUME NEW m, Remembers(m), NEW d \in {-1, 0, 1}, r = Returned(BothLegs(d), m),
             Synchronized(Noted.latest, PairSymbols)
      PROVE  r.actions = BothLegs(d) /\ Sound(r)
  <2>1. \A k \in 1 .. 2 : PairSymbols[k] \in Marked
    BY <1>1, <1>3, SynchronizedMarked, StrategiesAssumption
  <2>2. /\ BothLegs(d) = <<Leg(1, d), Leg(2, -d)>>
        /\ Proper(Leg(1, d)) /\ Proper(Leg(2, -d))
    BY <2>1, LegsProper
  <2>3. QED
    BY <1>3, <2>2, TupleSound DEF Returned
<1>4. CASE r \in PairsZScore
  <2> DEFINE spread == Noted.latest[PairSymbols[1]].close - Noted.latest[PairSymbols[2]].close
             pushed == [Noted EXCEPT !.window = Pushed(@, spread, Lookback)]
  <2>1. Remembers(pushed)
    BY <1>1
  <2>2. \/ r \in Idle(Noted) \/ r \in Idle(pushed)
        \/ /\ Synchronized(Noted.latest, PairSymbols)
           /\ \E d \in {-1, 0, 1} : r = Returned(BothLegs(d), pushed)
    BY <1>4 DEF PairsZScore
  <2> HIDE DEF pushed
  <2>3. QED
    BY <1>1, <1>2, <1>3, <2>1, <2>2
<1>5. CASE r \in DynaQPairs
  <2>1. \/ r \in Idle(Noted)
        \/ /\ Synchronized(Noted.latest, PairSymbols)
           /\ \E d \in {-1, 0, 1} : r = Returned(BothLegs(d), Noted)
    BY <1>5 DEF DynaQPairs
  <2>2. QED
    BY <1>1, <1>2, <1>3, <2>1
<1>6. QED
  BY <1>4, <1>5

(* An order that a counting strategy takes.                                 *)
LEMMA TakesProper ==
  ASSUME strategy \in Counting, NEW side \in Side, NEW q \in Nat \ {0},
         strategy # "twap_execution" => q <= manifest.max_order_quantity,
         strategy = "twap_execution" => q = SliceQuantity
  PROVE  Proper(SubmitOrder(memory.counter + 1, side, "market", q, 0))
<1>1. "submit_order" \in manifest.allowed /\ manifest.max_order_quantity \in Nat
  BY ManifestsAre DEF manifest, Manifest, Orders, Counting
<1>2. QED
  BY <1>1 DEF Proper, Takes, SubmitOrder

LEMMA CountingSound ==
  ASSUME TypeInv, StrategyInv, event.instrument_id \in Marked, strategy \in Counting,
         NEW r, \/ strategy = "l1_microprice" /\ r \in L1Microprice
                \/ strategy = "twap_execution" /\ r \in TwapExecution
                \/ strategy = "contextual_bandit_execution" /\ r \in ContextualBandit
  PROVE  /\ Sound(r)
         /\ Len(r.actions) = 1 /\ r.memory.counter >= memory.counter
         /\ r.actions[1].kind = "submit_order" => r.memory.counter = memory.counter + 1
<1> DEFINE Fine ==
             /\ Sound(r)
             /\ Len(r.actions) = 1 /\ r.memory.counter >= memory.counter
             /\ r.actions[1].kind = "submit_order" => r.memory.counter = memory.counter + 1
<1>1. /\ ~Free /\ Remembers(memory) /\ Remembers(Counted)
      /\ Counted.counter = memory.counter + 1 /\ memory.counter \in Nat
  BY RemembersMore DEF Free, Counting, Remembers
<1>2. ASSUME NEW m \in {memory, Counted}, r \in Idle(m)
      PROVE  Fine
  BY <1>1, <1>2, IdleSound DEF Idle, Returned, NoOp
<1>3. ASSUME NEW side \in Side, NEW q \in Nat \ {0},
             Proper(SubmitOrder(memory.counter + 1, side, "market", q, 0)),
             r = Returned(<<SubmitOrder(memory.counter + 1, side, "market", q, 0)>>, Counted)
      PROVE  Fine
  BY <1>1, <1>3, TupleSound DEF Returned
<1> HIDE DEF Fine
<1> SUFFICES Fine
  BY DEF Fine
<1>4. CASE strategy = "l1_microprice" /\ r \in L1Microprice
  <2>1. r \in Idle(memory) \/ \E side \in Side :
          r = Returned(<<SubmitOrder(memory.counter + 1, side, "market", 1, 0)>>, Counted)
    BY <1>1, <1>4 DEF L1Microprice
  <2>2. manifest.max_order_quantity = 1
    BY <1>4, ManifestsAre DEF manifest, Manifest
  <2>3. \A side \in Side : Proper(SubmitOrder(memory.counter + 1, side, "market", 1, 0))
    BY <1>4, <2>2, TakesProper
  <2>4. QED
    BY <1>2, <1>3, <2>1, <2>3, 1 \in Nat \ {0}
<1>5. CASE strategy = "twap_execution" /\ r \in TwapExecution
  <2>1. r \in Idle(memory) \/
          r = Returned(<<SubmitOrder(memory.counter + 1, "buy", "market", SliceQuantity, 0)>>, Counted)
    BY <1>1, <1>5 DEF TwapExecution
  <2>2. SliceQuantity \in Nat \ {0} /\ "buy" \in Side
    BY StrategiesAssumption DEF Side
  <2>3. Proper(SubmitOrder(memory.counter + 1, "buy", "market", SliceQuantity, 0))
    BY <1>5, <2>2, TakesProper
  <2>4. QED
    BY <1>2, <1>3, <2>1, <2>2, <2>3
<1>6. CASE strategy = "contextual_bandit_execution" /\ r \in ContextualBandit
  <2>1. r \in Idle(Counted) \/ \E q \in {1, 2} :
          r = Returned(<<SubmitOrder(memory.counter + 1, "buy", "market", q, 0)>>, Counted)
    BY <1>1, <1>6 DEF ContextualBandit
  <2>2. manifest.max_order_quantity = 2 /\ "buy" \in Side
    BY <1>6, ManifestsAre DEF manifest, Manifest, Side
  <2>3. \A q \in {1, 2} : Proper(SubmitOrder(memory.counter + 1, "buy", "market", q, 0))
    BY <1>6, <2>2, TakesProper
  <2>4. QED
    BY <1>2, <1>3, <2>1, <2>2, <2>3, {1, 2} \subseteq Nat \ {0}
<1>7. QED
  BY <1>4, <1>5, <1>6

(* The two orders of the maker.                                             *)
LEMMA MakerSound ==
  ASSUME TypeInv, StrategyInv, event.instrument_id \in Marked,
         strategy = "l2_imbalance_maker", event.payload \in QuotePayload,
         NEW r \in L2ImbalanceMaker
  PROVE  /\ Sound(r)
         /\ \/ r.actions = <<NoOp>>
            \/ \E p, q \in Nat \ {0} :
                 r.actions = <<MakerOrder(1, "buy", p), MakerOrder(2, "sell", q)>>
<1>1. /\ ~Free /\ Remembers(memory) /\ Remembers(Counted)
      /\ manifest.allowed = {"submit_order", "replace_order", "no_op"}
  BY RemembersMore, ManifestsAre DEF Free, manifest, Manifest, Orders
<1>2. ASSUME r \in Idle(memory)
      PROVE  Sound(r) /\ r.actions = <<NoOp>>
  BY <1>1, <1>2, IdleSound DEF Idle, Returned
<1>3. ASSUME NEW p \in Nat \ {0}, NEW q \in Nat \ {0},
             r = Returned(<<MakerOrder(1, "buy", p), MakerOrder(2, "sell", q)>>, Counted)
      PROVE  Sound(r) /\ r.actions = <<MakerOrder(1, "buy", p), MakerOrder(2, "sell", q)>>
  <2>1. ASSUME NEW k \in 1 .. 2, NEW side, side = Sides[k], NEW price \in Nat \ {0}
        PROVE  Proper(MakerOrder(k, side, price))
    <3>1. Makes(MakerOrder(k, side, price))
      BY <2>1 DEF Makes
    <3>2. MakerOrder(k, side, price).kind \in {"submit_order", "replace_order"}
      BY DEF MakerOrder, SubmitOrder, ReplaceOrder
    <3>3. QED
      BY <1>1, <3>1, <3>2 DEF Proper
  <2>2. Proper(MakerOrder(1, "buy", p)) /\ Proper(MakerOrder(2, "sell", q))
    BY <2>1 DEF Sides
  <2>3. QED
    BY <1>1, <1>3, <2>2, TupleSound DEF Returned
<1>4. r \in Idle(memory) \/ \E p, q \in Nat \ {0} :
        r = Returned(<<MakerOrder(1, "buy", p), MakerOrder(2, "sell", q)>>, Counted)
  <2> DEFINE bid == event.payload.bid
             ask == event.payload.ask
  <2>1. bid \in Nat \ {0} /\ ask \in Nat \ {0}
    BY DEF QuotePayload, Price
  <2> HIDE DEF bid, ask
  <2>2. ASSUME NEW skew \in {-1, 0, 1}, NEW tick \in {t \in 1 .. MaxTick : t < bid}
        PROVE  /\ (IF skew < 0 THEN bid - tick ELSE bid) \in Nat \ {0}
               /\ (IF skew > 0 THEN ask + tick ELSE ask) \in Nat \ {0}
    BY <2>1
  <2>3. r \in Idle(memory) \/
          \E skew \in {-1, 0, 1}, tick \in {t \in 1 .. MaxTick : t < bid} :
            r = Returned(<<MakerOrder(1, "buy", IF skew < 0 THEN bid - tick ELSE bid),
                           MakerOrder(2, "sell", IF skew > 0 THEN ask + tick ELSE ask)>>, Counted)
    BY DEF L2ImbalanceMaker, bid, ask
  <2>4. QED
    BY <2>2, <2>3
<1>5. QED
  BY <1>2, <1>3, <1>4

(* Targets that a score or a policy is turned into.                         *)
LEMMA DecidedSound ==
  ASSUME TypeInv, StrategyInv, event.instrument_id \in Marked,
         NEW L \in {1, 2}, NEW Q \in SUBSET (-L .. L),
         "target_position" \in manifest.allowed, manifest.max_abs_position = L,
         NEW r, \/ r \in Decided(Q)
                \/ r \in Predicted(Q) /\ "prediction" \in manifest.allowed
  PROVE  Sound(r)
<1>1. \A q \in Q : Proper(TargetPosition(event.instrument_id, q))
  <2>1. \A q \in Q : q \in Int /\ Magnitude(q) <= L
    BY DEF Magnitude
  <2>2. QED
    BY <2>1, TargetProper
<1>2. "prediction" \in manifest.allowed => Proper(Prediction)
  BY DEF Proper, Prediction
<1>3. Remembers(memory)
  BY DEF StrategyInv
<1>4. \E q \in Q :
        \/ r = Returned(<<TargetPosition(event.instrument_id, q)>>, memory)
        \/ /\ "prediction" \in manifest.allowed
           /\ r = Returned(<<Prediction, TargetPosition(event.instrument_id, q)>>, memory)
  BY DEF Decided, Predicted
<1>5. QED
  BY <1>1, <1>2, <1>3, <1>4, TupleSound

(* A weight of the current instrument, and a batch of weights.              *)
LEMMA ActorCriticSound ==
  ASSUME TypeInv, StrategyInv, event.instrument_id \in Marked,
         strategy = "linear_actor_critic_allocation", NEW r \in LinearActorCritic
  PROVE  Sound(r)
<1>1. "target_weight" \in manifest.allowed /\ manifest.max_abs_position = NoLimit
  BY ManifestsAre DEF manifest, Manifest
<1>2. PICK w \in -WeightOne .. WeightOne :
        r = Returned(<<TargetWeight(event.instrument_id, w)>>, memory)
  BY DEF LinearActorCritic
<1>3. Proper(TargetWeight(event.instrument_id, w))
  BY <1>1 DEF Proper, Weighs, TargetWeight
<1>4. Remembers(memory)
  BY DEF StrategyInv
<1>5. QED
  BY <1>2, <1>3, <1>4, TupleSound

LEMMA RankerSound ==
  ASSUME TypeInv, StrategyInv, event.instrument_id \in Marked,
         strategy = "cross_sectional_ranker", NEW r \in CrossSectionalRanker
  PROVE  Sound(r)
<1> DEFINE half == WeightOne \div 2
           weights == {w \in [1 .. 3 -> {-half, 0, half}] : IsInjective(w)}
           Batch(w) == [n \in 1 .. 6 |-> IF n % 2 = 1 THEN Prediction
                                         ELSE TargetWeight(BatchSymbols[n \div 2], w[n \div 2])]
<1>1. /\ ~Free /\ Remembers(Noted) /\ manifest.max_abs_position = NoLimit
      /\ "prediction" \in manifest.allowed /\ "target_weight" \in manifest.allowed
  BY RemembersMore, ManifestsAre DEF Free, manifest, Manifest
<1>2. \/ r \in Idle(Noted)
      \/ Synchronized(Noted.latest, BatchSymbols) /\ \E w \in weights : r = Returned(Batch(w), Noted)
  BY DEF CrossSectionalRanker
<1>3. ASSUME Synchronized(Noted.latest, BatchSymbols), NEW w \in weights,
             r = Returned(Batch(w), Noted)
      PROVE  Sound(r)
  <2>1. half \in Nat /\ half <= WeightOne
    BY ConstantsAssumption
  <2>2. \A n \in 1 .. 3 : BatchSymbols[n] \in Marked /\ w[n] \in -WeightOne .. WeightOne
    <3>1. \A n \in 1 .. 3 : BatchSymbols[n] \in Marked
      BY <1>1, <1>3, SynchronizedMarked, StrategiesAssumption
    <3>2. \A n \in 1 .. 3 : w[n] \in {-half, 0, half}
      OBVIOUS
    <3> HIDE DEF half
    <3>3. {-half, 0, half} \subseteq -WeightOne .. WeightOne
      BY <2>1, ConstantsAssumption
    <3>4. QED
      BY <3>1, <3>2, <3>3
  <2>3. \A n \in 1 .. 6 : Proper(Batch(w)[n])
    <3>1. \A n \in 1 .. 6 : n % 2 = 1 \/ n \div 2 \in 1 .. 3
      OBVIOUS
    <3>2. Proper(Prediction)
      BY <1>1 DEF Proper, Prediction
    <3>3. \A n \in 1 .. 3 : Proper(TargetWeight(BatchSymbols[n], w[n]))
      BY <1>1, <2>2 DEF Proper, Weighs, TargetWeight
    <3>4. ASSUME NEW n \in 1 .. 6 PROVE Proper(Batch(w)[n])
      <4>1. CASE n % 2 = 1
        BY <3>2, <4>1
      <4>2. CASE n % 2 # 1
        <5>1. n \div 2 \in 1 .. 3
          BY <3>1, <4>2
        <5>2. Batch(w)[n] = TargetWeight(BatchSymbols[n \div 2], w[n \div 2])
          BY <4>2
        <5>3. QED
          BY <3>3, <5>1, <5>2
      <4>3. QED
        BY <4>1, <4>2
    <3>5. QED
      BY <3>4
  <2>4. DOMAIN Batch(w) = 1 .. 6
    OBVIOUS
  <2> HIDE DEF Batch
  <2>5. Batch(w) \in Seq(Action)
    <3>1. \A n \in 1 .. 6 : Batch(w)[n] \in Action
      BY <2>3, ProperType
    <3>2. Batch(w) \in [1 .. 6 -> Action]
      BY <2>4, <3>1 DEF Batch
    <3>3. QED
      BY <3>2, SeqDef
  <2>6. QED
    BY <1>1, <1>3, <2>3, <2>4, <2>5 DEF Sound, Returned
<1>4. QED
  BY <1>1, <1>2, <1>3, IdleSound

LEMMA DecisionIs ==
  /\ strategy = "donchian_breakout" => Decision = Donchian
  /\ strategy = "sma_cross" => Decision = SmaCross
  /\ strategy = "pairs_zscore" => Decision = PairsZScore
  /\ strategy = "l1_microprice" => Decision = L1Microprice
  /\ strategy = "l2_imbalance_maker" => Decision = L2ImbalanceMaker
  /\ strategy = "twap_execution" => Decision = TwapExecution
  /\ strategy = "logistic_direction" => Decision = LogisticDirection
  /\ strategy = "ridge_return" => Decision = RidgeReturn
  /\ strategy = "gaussian_volume_breakout" => Decision = GaussianVolumeBreakout
  /\ strategy = "l1_adverse_selection" => Decision = L1AdverseSelection
  /\ strategy = "l2_fill_probability" => Decision = L2FillProbability
  /\ strategy = "cross_sectional_ranker" => Decision = CrossSectionalRanker
  /\ strategy = "tabular_q_inventory" => Decision = TabularQInventory
  /\ strategy = "sarsa_trend" => Decision = SarsaTrend
  /\ strategy = "double_q_book_inventory" => Decision = DoubleQBookInventory
  /\ strategy = "contextual_bandit_execution" => Decision = ContextualBandit
  /\ strategy = "dyna_q_pairs" => Decision = DynaQPairs
  /\ strategy = "linear_actor_critic_allocation" => Decision = LinearActorCritic
  BY DEF Decision

Directional ==
  {"logistic_direction", "ridge_return", "gaussian_volume_breakout", "l1_adverse_selection",
   "l2_fill_probability", "tabular_q_inventory", "sarsa_trend", "double_q_book_inventory"}

LEMMA DirectionalSound ==
  ASSUME TypeInv, StrategyInv, event.instrument_id \in Marked,
         strategy \in Directional, NEW r \in Decision
  PROVE  Sound(r)
<1> DEFINE Wanted(L, Q) ==
             /\ Q \in SUBSET (-L .. L) /\ manifest.max_abs_position = L
             /\ "target_position" \in manifest.allowed
             /\ \/ r \in Decided(Q)
                \/ r \in Predicted(Q) /\ "prediction" \in manifest.allowed
<1>1. \/ Wanted(1, {-1, 1}) \/ Wanted(2, {-2, 0, 2}) \/ Wanted(1, {0, 1})
      \/ Wanted(1, {-1, 0, 1})
  <2>1. CASE strategy = "logistic_direction"
    BY <2>1, DecisionIs, ManifestsAre DEF LogisticDirection, manifest, Manifest, Modelled
  <2>2. CASE strategy = "ridge_return"
    BY <2>2, DecisionIs, ManifestsAre DEF RidgeReturn, manifest, Manifest, Modelled
  <2>3. CASE strategy = "gaussian_volume_breakout"
    BY <2>3, DecisionIs, ManifestsAre DEF GaussianVolumeBreakout, manifest, Manifest, Modelled
  <2>4. CASE strategy = "l1_adverse_selection"
    BY <2>4, DecisionIs, ManifestsAre DEF L1AdverseSelection, manifest, Manifest, Modelled
  <2>5. CASE strategy = "l2_fill_probability"
    BY <2>5, DecisionIs, ManifestsAre DEF L2FillProbability, manifest, Manifest, Modelled
  <2>6. CASE strategy = "tabular_q_inventory"
    BY <2>6, DecisionIs, ManifestsAre DEF TabularQInventory, manifest, Manifest, Targets
  <2>7. CASE strategy = "sarsa_trend"
    BY <2>7, DecisionIs, ManifestsAre DEF SarsaTrend, manifest, Manifest, Targets
  <2>8. CASE strategy = "double_q_book_inventory"
    BY <2>8, DecisionIs, ManifestsAre DEF DoubleQBookInventory, manifest, Manifest, Targets
  <2>9. QED
    BY <2>1, <2>2, <2>3, <2>4, <2>5, <2>6, <2>7, <2>8 DEF Directional
<1>2. \A L \in {1, 2} : \A Q : Wanted(L, Q) => Sound(r)
  BY DecidedSound
<1> HIDE DEF Wanted
<1>3. QED
  BY <1>1, <1>2

(* Whatever is answered to an event is sound.                               *)
LEMMA AnswersSound ==
  ASSUME TypeInv, StrategyInv, CurrentInv, phase = "value", ~Free, NEW r \in Answers
  PROVE  Sound(r)
<1>1. event.instrument_id \in Marked /\ event.payload \in Payload /\ Remembers(memory)
  BY CurrentEvent DEF CurrentInv, MarketEvent, StrategyInv
<1>2. CASE r \in Idle(memory)
  BY <1>1, <1>2, IdleSound
<1>3. CASE r \in Decision /\ event.payload.kind = manifest.reads
  <2>1. strategy \in DOMAIN Manifests
    BY DEF StrategyInv, Free
  <2>2. CASE strategy = "donchian_breakout"
    BY <1>1, <1>3, <2>2, DecisionIs, DonchianSound
  <2>3. CASE strategy = "sma_cross"
    BY <1>1, <1>3, <2>3, DecisionIs, SmaSound
  <2>4. CASE strategy \in {"pairs_zscore", "dyna_q_pairs"}
    BY <1>1, <1>3, <2>4, DecisionIs, PairsSound
  <2>5. CASE strategy \in Counting
    BY <1>1, <1>3, <2>5, DecisionIs, CountingSound DEF Counting
  <2>6. CASE strategy = "l2_imbalance_maker"
    <3>1. manifest.reads = "quote"
      BY <2>6, ManifestsAre DEF manifest, Manifest
    <3>2. event.payload \in QuotePayload
      BY <1>1, <1>3, <3>1 DEF Payload, BarPayload, TradePayload, QuotePayload
    <3>3. QED
      BY <1>1, <1>3, <2>6, <3>2, DecisionIs, MakerSound
  <2>7. CASE strategy \in Directional
    BY <1>1, <1>3, <2>7, DirectionalSound
  <2>8. CASE strategy = "cross_sectional_ranker"
    BY <1>1, <1>3, <2>8, DecisionIs, RankerSound
  <2>9. CASE strategy = "linear_actor_critic_allocation"
    BY <1>1, <1>3, <2>9, DecisionIs, ActorCriticSound
  <2>10. QED
    BY <2>1, <2>2, <2>3, <2>4, <2>5, <2>6, <2>7, <2>8, <2>9, StrategiesAre
    DEF Counting, Directional
<1>4. QED
  BY <1>2, <1>3 DEF Answers

-----------------------------------------------------------------------------
(* The engine under a bundled strategy: what its steps leave alone.         *)

(* An action is rejected, or it is done and leaves the account alone.       *)
Rejected == \E code : Reject(code)

LEMMA ActionDoneOrRejected ==
  ASSUME NEW a, Handle(a)
  PROVE  phase = "act" /\ (ActionDone \/ Rejected)
<1>1. \A kind : Acting(a, kind) => phase = "act"
  BY DEF Acting
<1>2. \A code : Reject(code) => phase = "act" /\ Rejected
  BY DEF Reject, Rejected
<1>3. \A o : Accept(o) => ActionDone
  BY DEF Accept
<1>4. CASE HandleNoOp(a) \/ HandlePrediction(a) \/ HandleCancel(a) \/ HandleReplace(a)
  BY <1>1, <1>4 DEF HandleNoOp, HandlePrediction, HandleCancel, HandleReplace
<1>5. CASE RejectCancel(a) \/ RejectReplace(a) \/ RejectUnmarked(a) \/ RejectInstrument(a)
  BY <1>2, <1>5 DEF RejectCancel, RejectReplace, RejectUnmarked, RejectInstrument
<1>6. CASE HandleTarget(a)
  BY <1>1, <1>2, <1>3, <1>6 DEF HandleTarget, AcceptTarget, RejectTarget
<1>7. CASE HandleWeight(a)
  BY <1>1, <1>2, <1>3, <1>7 DEF HandleWeight, AcceptTarget, RejectTarget
<1>8. CASE HandleSubmit(a)
  BY <1>1, <1>2, <1>3, <1>8 DEF HandleSubmit
<1>9. QED
  BY <1>4, <1>5, <1>6, <1>7, <1>8 DEF Handle

(* Marks are only ever set, and none is cleared.                            *)
LEMMA MarksStep ==
  ASSUME TypeInv, CurrentInv, [Next]_vars \/ \E a \in Action : Handle(a)
  PROVE  CurrentInv' /\ Marked \subseteq Marked' /\ events' = events
<1> DEFINE Still == events' = events /\ event_index' = event_index /\ marks' = marks
<1> USE DEF programVars, accountVars, valueVars, orderVars
<1>1. Still => universe' = universe /\ Marked' = Marked /\ event' = event
  BY DEF universe, Marked, event
<1>2. CASE BeginEvent
  <2>0. Len(events) \in Nat /\ events \in Seq(MarketEvent) /\ event_index \in Nat
    BY ConstantsAssumption DEF TypeInv, TypeOK
  <2>1. /\ event_index' \in 1 .. Len(events) /\ events' = events
        /\ marks' = [marks EXCEPT ![event'.instrument_id] = SlipDen * DoubleMark(event'.payload)]
    BY <1>2, <2>0 DEF BeginEvent, event, GoTo, TypeInv, TypeOK
  <2>2. event' \in MarketEvent
    BY <2>0, <2>1, ElementOfSeq DEF event
  <2>3. DoubleMark(event'.payload) \in Nat \ {0}
    BY <2>2, PricesPositive, 1 \in Nat \ {0}, "buy" \in Side DEF MarketEvent, Side
  <2>4. SlipDen * DoubleMark(event'.payload) \in Nat \ {0}
    BY <2>3, PositiveProduct, ConstantsAssumption
  <2>5. marks \in [Instruments -> Nat] /\ event'.instrument_id \in Instruments
    BY <2>2 DEF TypeInv, TypeOK, MarketEvent
  <2>6. \A i \in Instruments : marks[i] > 0 => marks'[i] > 0
    BY <2>1, <2>4, <2>5
  <2>7. marks'[event'.instrument_id] > 0
    BY <2>1, <2>4, <2>5
  <2>8. universe' = universe /\ event'.instrument_id \in universe
    BY <2>0, <2>1 DEF universe, event
  <2>9. \A i \in universe : i \in Instruments
    <3>1. \A n \in 1 .. Len(events) : events[n] \in MarketEvent
      BY <2>0, ElementOfSeq
    <3>2. QED
      BY <2>0, <3>1 DEF universe, MarketEvent
  <2>10. QED
    BY <2>1, <2>6, <2>7, <2>8, <2>9 DEF CurrentInv, Marked
<1>3. ASSUME Still, \/ phase' \notin {"settle", "value", "act"}
                    \/ phase \in {"settle", "value", "act"}
      PROVE  CurrentInv' /\ Marked \subseteq Marked' /\ events' = events
  BY <1>1, <1>3 DEF CurrentInv
<1> DEFINE Kept == Still /\ (phase' \notin {"settle", "value", "act"} \/ phase \in {"settle", "value", "act"})
<1>4. \A code : Fail(code) => Kept
  BY DEF Fail
<1>5. CASE RejectEmptyTape \/ RejectDisorder \/ StrategyRaises
  BY <1>3, <1>4, <1>5 DEF RejectEmptyTape, RejectDisorder, StrategyRaises
<1>6. CASE Start \/ EndEvent \/ Finish \/ Report
  BY <1>3, <1>6 DEF Start, EndEvent, Finish, Report, GoTo
<1>7. CASE Settle \/ ValuePosition \/ TakeSnapshot \/ ExpireOrder
  BY <1>3, <1>7 DEF Settle, SettleKept, SettleSatisfied, SettleFilled, EndSettlement, ValuePosition,
                    TakeSnapshot, ExpireOrder, GoTo
<1>8. CASE \E a \in Action : Handle(a)
  <2>1. ActionDone /\ phase = "act" => Kept
    BY DEF ActionDone
  <2>2. Rejected => Kept
    BY <1>4 DEF Reject, Rejected
  <2>3. QED
    BY <1>3, <1>8, <2>1, <2>2, ActionDoneOrRejected
<1>9. CASE UNCHANGED vars
  BY <1>3, <1>9 DEF vars
<1>10. QED
  BY <1>2, <1>5, <1>6, <1>7, <1>8, <1>9, ConstantsAssumption DEF Next, Proceed, Ended

-----------------------------------------------------------------------------
(* The books of the engine are kept under every strategy.                   *)

allVars == <<vars, bookVars, strategyVars>>

(* Every step of a run is one of the engine with its books, or follows an   *)
(* action of the answer.                                                    *)
LEMMA EngineMoves ==
  ASSUME TypeInv, StrategyInv, [StrategiesNext]_allVars
  PROVE  \/ [BooksNext]_<<vars, bookVars>>
         \/ ~Free /\ UNCHANGED <<strategyVars, bookVars>> /\ \E a \in Action : Handle(a)
<1>1. CASE FreeStep \/ EngineStep
  BY <1>1 DEF FreeStep, EngineStep
<1>2. CASE OnEvent
  <2>1. TakeSnapshot /\ UNCHANGED bookVars
    BY <1>2 DEF OnEvent
  <2>2. Next /\ ~Filling
    BY <2>1 DEF Next, Proceed, TakeSnapshot, Filling, accountVars
  <2>3. QED
    BY <2>1, <2>2 DEF BooksNext
<1>3. CASE AllFollowed
  <2>1. EndEvent /\ UNCHANGED bookVars
    BY <1>3 DEF AllFollowed
  <2>2. Next /\ ~Filling
    BY <2>1 DEF Next, Proceed, EndEvent, Filling, accountVars
  <2>3. QED
    BY <2>1, <2>2 DEF BooksNext
<1>4. CASE Follow
  <2>1. acted + 1 \in 1 .. Len(response)
    BY <1>4, LenProperties DEF Follow, StrategyInv, TypeInv, TypeOK
  <2>2. response[acted + 1] \in Action
    BY <2>1, ElementOfSeq DEF StrategyInv
  <2>3. Handle(response[acted + 1])
    BY <1>4 DEF Follow
  <2>4. \E a \in Action : Handle(a)
    BY <2>2, <2>3
  <2>5. QED
    BY <1>4, <2>4 DEF Follow
<1>5. CASE UNCHANGED allVars
  BY <1>5 DEF allVars
<1>6. CASE ModelRaises
  <2>1. Next /\ UNCHANGED bookVars
    BY <1>6 DEF ModelRaises, Next
  <2>2. ~Filling
    BY <1>6 DEF ModelRaises, StrategyRaises, Fail, Filling, accountVars
  <2>3. QED
    BY <2>1, <2>2 DEF BooksNext
<1>7. QED
  BY <1>1, <1>2, <1>3, <1>4, <1>5, <1>6 DEF StrategiesNext

LEMMA BooksMove ==
  ASSUME TypeInv, MoneyInv, StrategyInv, [StrategiesNext]_allVars
  PROVE  TypeInv' /\ MoneyInv'
<1>1. CASE [BooksNext]_<<vars, bookVars>>
  BY <1>1, BooksStep
<1>2. CASE UNCHANGED bookVars /\ \E a \in Action : Handle(a)
  BY <1>2, HandleType, ActionRests, RestingStep
<1>3. QED
  BY <1>1, <1>2, EngineMoves

LEMMA BooksAreNext ==
  ASSUME [BooksNext]_<<vars, bookVars>>
  PROVE  [Next]_vars
  BY DEF BooksNext, Next, Proceed, Settle

LEMMA StrategyStep ==
  ASSUME TypeInv, CurrentInv, StrategyInv, [StrategiesNext]_allVars
  PROVE  /\ CurrentInv' /\ StrategyInv'
         /\ strategy' = strategy /\ events' = events /\ Marked \subseteq Marked'
<1>1. CurrentInv' /\ Marked \subseteq Marked' /\ events' = events
  BY EngineMoves, BooksAreNext, MarksStep
<1>2. CASE UNCHANGED strategyVars
  <2>1. strategy' = strategy /\ memory' = memory /\ response' = response
    BY <1>2 DEF strategyVars
  <2>2. Remembers(memory)'
    BY <1>1, <2>1 DEF StrategyInv, Remembers
  <2>3. QED
    BY <1>1, <2>1, <2>2 DEF StrategyInv
<1>3. CASE OnEvent
  <2>1. PICK r \in Answers : response' = r.actions /\ memory' = r.memory
    BY <1>3 DEF OnEvent, Answers, manifest
  <2>2. Sound(r)
    BY <1>3, <2>1, AnswersSound DEF OnEvent, Called
  <2>3. strategy' = strategy
    BY <1>3 DEF OnEvent
  <2>4. Remembers(memory)'
    BY <1>1, <2>1, <2>2 DEF Sound, Remembers
  <2>5. QED
    BY <1>1, <2>1, <2>2, <2>3, <2>4 DEF Sound, StrategyInv
<1>4. QED
  BY <1>2, <1>3 DEF StrategiesNext, FreeStep, EngineStep, ModelRaises, Follow,
                        AllFollowed, allVars

LEMMA StrategiesStart == StrategiesInit => TypeInv /\ MoneyInv /\ CurrentInv /\ StrategyInv
<1> SUFFICES ASSUME StrategiesInit PROVE TypeInv /\ MoneyInv /\ CurrentInv /\ StrategyInv
  OBVIOUS
<1>1. TypeInv /\ MoneyInv
  BY InitType, BooksStart DEF StrategiesInit, BooksInit
<1>2. CurrentInv
  BY DEF StrategiesInit, BooksInit, Init, CurrentInv
<1>3. strategy \in {"any"} \cup DOMAIN Manifests
  BY SessionsAssumption DEF StrategiesInit
<1>4. Remembers(memory)
  BY DEF StrategiesInit, NewMemory, Remembers
<1>5. response \in Seq(Action)
  BY EmptySeq DEF StrategiesInit
<1>6. QED
  BY <1>1, <1>2, <1>3, <1>4, <1>5 DEF StrategyInv

(* Under every strategy that comes with the program, and under any other,   *)
(* the cash, the positions and their average prices are what the fills add  *)
(* up to, and the equity of a snapshot is the cash paid in plus every       *)
(* profit less every fee.                                                   *)
THEOREM BundledBooks ==
  StrategiesSpec => [](EquityIdentity /\ AverageWithinFills /\ FillsExplainAccount)
<1> DEFINE Kept == TypeInv /\ MoneyInv /\ CurrentInv /\ StrategyInv
<1>1. StrategiesInit => Kept
  BY StrategiesStart
<1>2. Kept /\ [StrategiesNext]_<<vars, bookVars, strategyVars>> => Kept'
  BY BooksMove, StrategyStep DEF allVars
<1>3. Kept => EquityIdentity /\ AverageWithinFills /\ FillsExplainAccount
  BY EquityFollows DEF MoneyInv
<1>4. QED
  BY <1>1, <1>2, <1>3, PTL DEF StrategiesSpec

-----------------------------------------------------------------------------
(* An action that the engine will take, and that is within the manifest.    *)
Orderly == {"submit_order", "replace_order"}

Fit(a) ==
  /\ a.kind \in manifest.allowed
  /\ a.kind \in {"target_position", "target_weight", "submit_order"} =>
       a.instrument_id \in universe
  /\ a.kind = "target_position" =>
       TargetAllowed(a.quantity) /\ Within(manifest.max_abs_position, Magnitude(a.quantity))
  /\ a.kind = "target_weight" =>
       /\ marks[a.instrument_id] > 0
       /\ MaxAbsPosition = NoLimit /\ manifest.max_abs_position = NoLimit
  /\ a.kind = "submit_order" =>
       Submittable(a) /\ Within(manifest.max_order_quantity, a.quantity)
  /\ a.kind = "replace_order" => Replaceable(Bearers(a.client_order_id)) /\ a.new_quantity = 0
  /\ a.kind \in Orderly => a.client_order_id \in {"client"} \X Nat

(* What is left of the answer fits, and its orders are different ones.      *)
FitInv ==
  phase = "act" =>
    /\ acted <= Len(response)
    /\ \A k \in acted + 1 .. Len(response) : Fit(response[k])
    /\ \A k, l \in DOMAIN response :
         /\ response[k].kind \in Orderly /\ response[l].kind \in Orderly
         /\ response[k].client_order_id = response[l].client_order_id
         => k = l

(* What the engine makes of an action that fits.                            *)
Move(a) ==
  \/ a.kind \in {"no_op", "prediction"} /\ UNCHANGED pending
  \/ a.kind = "target_position" /\ Accept(TargetOrder(a.instrument_id, a.quantity))
  \/ a.kind = "target_weight" /\ Accept(TargetOrder(a.instrument_id, WeightTarget(a)))
  \/ a.kind = "submit_order" /\ Accept(DirectOrder(a))
  \/ a.kind = "replace_order" /\ HandleReplace(a)

LEMMA AllowedKinds ==
  ASSUME StrategyInv, ~Free
  PROVE  /\ "cancel_order" \notin manifest.allowed
         /\ manifest.max_abs_position \in Nat \cup {NoLimit}
         /\ manifest.max_order_quantity \in Nat \cup {NoLimit}
<1>1. strategy \in DOMAIN Manifests
  BY DEF StrategyInv, Free
<1>2. QED
  BY <1>1, StrategiesAre, ManifestsAre DEF manifest, Manifest, Targets, Modelled, Orders

LEMMA FitMoves ==
  ASSUME StrategyInv, ~Free, NEW a \in Action, Fit(a), Handle(a)
  PROVE  ActionDone /\ Move(a)
<1>1. a.kind # "cancel_order"
  BY AllowedKinds DEF Fit
<1>2. \A kind : Acting(a, kind) => a.kind = kind
  BY DEF Acting
<1>3. \A o : Accept(o) => ActionDone
  BY DEF Accept
<1>4. CASE HandleNoOp(a) \/ HandlePrediction(a)
  BY <1>2, <1>4 DEF HandleNoOp, HandlePrediction, Move, orderVars
<1>5. ~HandleCancel(a) /\ ~RejectCancel(a)
  BY <1>1, <1>2 DEF HandleCancel, RejectCancel
<1>6. CASE HandleReplace(a)
  BY <1>2, <1>6 DEF HandleReplace, Move
<1>7. ~RejectReplace(a) /\ ~RejectUnmarked(a) /\ ~RejectInstrument(a)
  <2>1. ~RejectReplace(a)
    BY <1>2 DEF RejectReplace, Fit
  <2>2. ~RejectUnmarked(a)
    BY <1>2 DEF RejectUnmarked, Fit
  <2>3. ~RejectInstrument(a)
    BY DEF RejectInstrument, Fit
  <2>4. QED
    BY <2>1, <2>2, <2>3
<1>8. CASE HandleTarget(a)
  <2>1. a.kind = "target_position"
    BY <1>2, <1>8 DEF HandleTarget
  <2>2. ~RejectTarget(a.quantity)
    BY <2>1 DEF RejectTarget, Fit
  <2>3. QED
    BY <1>3, <1>8, <2>1, <2>2 DEF HandleTarget, AcceptTarget, Move
<1>9. CASE HandleWeight(a)
  <2>1. a.kind = "target_weight"
    BY <1>2, <1>9 DEF HandleWeight
  <2>2. ~RejectTarget(WeightTarget(a))
    BY <2>1 DEF RejectTarget, Fit, TargetAllowed
  <2>3. QED
    BY <1>3, <1>9, <2>1, <2>2 DEF HandleWeight, AcceptTarget, Move
<1>10. CASE HandleSubmit(a)
  <2>1. a.kind = "submit_order"
    BY <1>2, <1>10 DEF HandleSubmit
  <2>2. QED
    BY <1>3, <1>10, <2>1 DEF HandleSubmit, Fit, Move
<1>11. QED
  BY <1>4, <1>5, <1>6, <1>7, <1>8, <1>9, <1>10 DEF Handle

(* A replacement leaves everything of an order but its limit.               *)
LEMMA UpdatedIs ==
  ASSUME NEW o \in Order, NEW a \in Action, a.kind = "replace_order", a.new_quantity = 0
  PROVE  /\ Updated(o, a) = [o EXCEPT !.limit_price = NewOrOld(a.new_limit_price, @)]
         /\ Updated(o, a).client_order_id = o.client_order_id
         /\ Updated(o, a).order_type = o.order_type /\ Updated(o, a).side = o.side
         /\ Updated(o, a).quantity = o.quantity
         /\ Updated(o, a).target_quantity = o.target_quantity
         /\ Updated(o, a).instrument_id = o.instrument_id
         /\ Updated(o, a).limit_price = NewOrOld(a.new_limit_price, o.limit_price)
<1>1. [o EXCEPT !.quantity = o.quantity] = o
  BY DEF Order
<1>2. NewOrOld(a.new_quantity, o.quantity) = o.quantity
  BY DEF NewOrOld
<1>3. PICK limit : limit = NewOrOld(a.new_limit_price, o.limit_price)
  OBVIOUS
<1>4. Updated(o, a) = [[o EXCEPT !.quantity = o.quantity] EXCEPT !.limit_price = limit]
  BY <1>2, <1>3 DEF Updated
<1>5. Updated(o, a) = [o EXCEPT !.limit_price = limit]
  BY <1>1, <1>4
<1>6. QED
  BY <1>3, <1>5 DEF Order

-----------------------------------------------------------------------------
(* What an action of an answer does to the orders of others, and to what    *)
(* is left of the answer.                                                   *)

(* Joining the list changes no other order.                                 *)
LEMMA Joined ==
  ASSUME TypeInv, NEW o, Accept(o)
  PROVE  /\ order_count + 1 \notin DOMAIN pending /\ order_count + 1 \in Nat
         /\ DOMAIN pending' = DOMAIN pending \cup {order_count + 1}
         /\ pending'[order_count + 1] = o
         /\ \A n \in DOMAIN pending : pending'[n] = pending[n] /\ n < order_count + 1
<1>1. order_count \in Nat /\ DOMAIN pending \subseteq 1 .. order_count
  BY DEF TypeInv, TypeOK
<1>2. pending' = [n \in DOMAIN pending \cup {order_count + 1} |->
                    IF n = order_count + 1 THEN o ELSE pending[n]]
  BY DEF Accept
<1>3. QED
  BY <1>1, <1>2

LEMMA Replaced ==
  ASSUME TypeInv, NEW a \in Action, a.kind = "replace_order", a.new_quantity = 0,
         HandleReplace(a)
  PROVE  LET bearers == Bearers(a.client_order_id) IN
         /\ bearers # {} /\ First(bearers) \in bearers
         /\ pending[First(bearers)] \in Order /\ pending[First(bearers)].order_type = "limit"
         /\ DOMAIN pending' = DOMAIN pending
         /\ \A n \in DOMAIN pending :
              pending'[n] = IF n \in bearers THEN Updated(pending[First(bearers)], a)
                            ELSE pending[n]
<1> DEFINE bearers == Bearers(a.client_order_id)
<1>1. bearers # {} /\ pending[First(bearers)].order_type = "limit"
  BY DEF HandleReplace, Replaceable
<1>2. First(bearers) \in bearers /\ pending[First(bearers)] \in Order
  BY <1>1, BearersOfId
<1>3. pending' = [m \in DOMAIN pending |->
                    IF m \in bearers THEN Updated(pending[First(bearers)], a) ELSE pending[m]]
  BY DEF HandleReplace
<1>4. QED
  BY <1>1, <1>2, <1>3

(* An action moves no order of another identifier.                          *)
LEMMA BearersKept ==
  ASSUME TypeInv, NEW a \in Action, Fit(a), Move(a), NEW id \in {"client"} \X Nat,
         a.kind \in Orderly => a.client_order_id # id
  PROVE  Bearers(id)' = Bearers(id) /\ \A n \in Bearers(id) : pending'[n] = pending[n]
<1>1. ASSUME NEW o, Accept(o), o.client_order_id # id
      PROVE  Bearers(id)' = Bearers(id) /\ \A n \in Bearers(id) : pending'[n] = pending[n]
  BY <1>1, Joined DEF Bearers
<1>2. \A i, q : TargetOrder(i, q).client_order_id # id
  BY DEF TargetOrder, GeneratedId
<1>3. DirectOrder(a).client_order_id = a.client_order_id
  BY DEF DirectOrder
<1>4. CASE a.kind = "replace_order" /\ HandleReplace(a)
  <2> DEFINE mine == Bearers(a.client_order_id)
             updated == Updated(pending[First(mine)], a)
  <2>1. a.new_quantity = 0
    BY <1>4 DEF Fit
  <2>2. /\ DOMAIN pending' = DOMAIN pending
        /\ \A n \in DOMAIN pending : pending'[n] = IF n \in mine THEN updated ELSE pending[n]
        /\ First(mine) \in mine /\ pending[First(mine)] \in Order
    BY <1>4, <2>1, Replaced
  <2>3. updated.client_order_id = pending[First(mine)].client_order_id
    BY <1>4, <2>1, <2>2, UpdatedIs
  <2>4. updated.client_order_id = a.client_order_id
    BY <2>2, <2>3 DEF Bearers
  <2>5. \A n \in mine : pending[n].client_order_id = a.client_order_id
    BY DEF Bearers
  <2>6. a.client_order_id # id
    BY <1>4 DEF Orderly
  <2> HIDE DEF updated, mine
  <2>7. QED
    BY <2>2, <2>4, <2>5, <2>6 DEF Bearers
<1>5. CASE UNCHANGED pending
  BY <1>5 DEF Bearers
<1>6. QED
  BY <1>1, <1>2, <1>3, <1>4, <1>5 DEF Move, Orderly

LEMMA FitKept ==
  ASSUME TypeInv, StrategyInv, ~Free, strategy' = strategy,
         NEW a \in Action, Fit(a), ActionDone, Move(a),
         NEW b \in Action, Fit(b),
         a.kind \in Orderly /\ b.kind \in Orderly => a.client_order_id # b.client_order_id
  PROVE  Fit(b)'
<1>1. universe' = universe /\ marks' = marks /\ manifest' = manifest
  BY DEF ActionDone, universe, manifest
<1>2. b.kind \in Orderly =>
        /\ Bearers(b.client_order_id)' = Bearers(b.client_order_id)
        /\ \A n \in Bearers(b.client_order_id) : pending'[n] = pending[n]
  BY BearersKept DEF Fit
<1>3. b.kind = "submit_order" => Submittable(b)'
  BY <1>2 DEF Fit, Submittable, Orderly
<1>4. b.kind = "replace_order" => Replaceable(Bearers(b.client_order_id))'
  <2>1. SUFFICES ASSUME b.kind = "replace_order"
                 PROVE  Replaceable(Bearers(b.client_order_id))'
    OBVIOUS
  <2> DEFINE bearers == Bearers(b.client_order_id)
  <2>2. bearers # {} /\ pending[First(bearers)].order_type = "limit"
    BY <2>1 DEF Fit, Replaceable
  <2>3. First(bearers) \in bearers
    BY <2>2, BearersOfId
  <2>4. bearers' = bearers /\ pending'[First(bearers)] = pending[First(bearers)]
    BY <1>2, <2>1, <2>3 DEF Orderly
  <2>5. First(bearers)' = First(bearers)
    BY <2>4 DEF First
  <2>6. QED
    BY <2>2, <2>4, <2>5 DEF Replaceable
<1>5. QED
  BY <1>1, <1>3, <1>4 DEF Fit, TargetAllowed, Within

(* What Follow does, with the action it follows.                            *)
LEMMA FollowMoves ==
  ASSUME TypeInv, StrategyInv, FitInv, Follow
  PROVE  /\ ~Free /\ phase = "act" /\ phase' = "act" /\ UNCHANGED strategyVars
         /\ acted \in Nat /\ acted + 1 \in DOMAIN response /\ acted' = acted + 1
         /\ DOMAIN response = 1 .. Len(response) /\ Len(response) \in Nat
         /\ ActionDone
         /\ \E a \in Action : a = response[acted + 1] /\ Fit(a) /\ Move(a)
<1>1. acted \in Nat /\ DOMAIN response = 1 .. Len(response) /\ Len(response) \in Nat
  BY LenProperties DEF StrategyInv, TypeInv, TypeOK
<1>2. acted + 1 \in 1 .. Len(response) /\ ~Free /\ phase = "act" /\ UNCHANGED strategyVars
  BY <1>1 DEF Follow
<1>3. PICK a \in Action : a = response[acted + 1]
  BY <1>2, ElementOfSeq DEF StrategyInv
<1>4. Fit(a)
  BY <1>1, <1>2, <1>3 DEF FitInv
<1>5. Handle(a)
  BY <1>3 DEF Follow
<1>6. ActionDone /\ Move(a)
  BY <1>2, <1>4, <1>5, FitMoves
<1>7. phase' = "act" /\ acted' = acted + 1
  BY <1>2, <1>6 DEF ActionDone
<1>8. QED
  BY <1>1, <1>2, <1>3, <1>4, <1>6, <1>7

LEMMA FitFollowed ==
  ASSUME TypeInv, StrategyInv, FitInv, Follow
  PROVE  FitInv'
<1>1. PICK a \in Action : a = response[acted + 1] /\ Fit(a) /\ Move(a)
  BY FollowMoves
<1>2. /\ ~Free /\ phase = "act" /\ ActionDone /\ acted' = acted + 1 /\ acted \in Nat
      /\ strategy' = strategy /\ response' = response
      /\ acted + 1 \in DOMAIN response
      /\ DOMAIN response = 1 .. Len(response) /\ Len(response) \in Nat
  BY FollowMoves DEF strategyVars
<1>3. ASSUME NEW k \in acted + 2 .. Len(response) PROVE Fit(response[k])'
  <2>1. k \in acted + 1 .. Len(response) /\ k \in DOMAIN response /\ k # acted + 1
    BY <1>2
  <2>2. PICK b \in Action : b = response[k]
    BY <1>2, <2>1, ElementOfSeq DEF StrategyInv
  <2>3. Fit(b)
    BY <1>2, <2>1, <2>2 DEF FitInv
  <2>4. a.kind \in Orderly /\ b.kind \in Orderly => a.client_order_id # b.client_order_id
    BY <1>1, <1>2, <2>1, <2>2 DEF FitInv
  <2>5. Fit(b)'
    BY <1>1, <1>2, <2>3, <2>4, FitKept
  <2>6. QED
    BY <1>2, <2>2, <2>5
<1>4. QED
  BY <1>2, <1>3 DEF FitInv

-----------------------------------------------------------------------------
(* An answer fits when it is given.                                         *)

(* A counting strategy has given its orders the numbers it has counted.     *)
CountInv ==
  strategy \in Counting =>
    /\ \A n \in DOMAIN pending : \E c \in 1 .. memory.counter :
         pending[n].client_order_id = <<"client", c>>
    /\ Len(response) <= 1
    /\ \A k \in DOMAIN response : response[k].kind \in Orderly =>
         \E c \in 1 .. memory.counter : response[k].client_order_id = <<"client", c>>

(* The maker's orders are its two quotes, each at most once.                *)
ListInv ==
  strategy = "l2_imbalance_maker" =>
    /\ \A n \in DOMAIN pending :
         /\ pending[n].order_type = "limit"
         /\ \E k \in 1 .. 2 : /\ pending[n].client_order_id = <<"client", k>>
                              /\ pending[n].side = Sides[k]
    /\ \A m, n \in DOMAIN pending :
         pending[m].client_order_id = pending[n].client_order_id => m = n

LEMMA ProperFits ==
  ASSUME TypeInv, StrategyInv, ~Free, LimitsServe, CountInv, ListInv,
         event.instrument_id \in Marked, NEW a, Proper(a)
  PROVE  Fit(a)
<1>1. a.kind \in manifest.allowed
  BY DEF Proper
<1>2. Marked \subseteq universe /\ \A i \in Marked : marks[i] > 0
  BY DEF Marked
<1>3. CASE a = NoOp \/ a = Prediction
  BY <1>1, <1>3 DEF NoOp, Prediction, Fit, Orderly
<1>4. CASE Aims(a)
  <2>1. PICK i \in Marked, q \in Int :
          /\ a = TargetPosition(i, q)
          /\ manifest.max_abs_position \in Nat /\ Magnitude(q) <= manifest.max_abs_position
    BY <1>4 DEF Aims
  <2>2. TargetAllowed(q)
    BY <2>1, LimitsAssumption DEF TargetAllowed, Magnitude, LimitsServe
  <2>3. /\ a.kind = "target_position" /\ a.instrument_id = i /\ a.quantity = q
    BY <2>1 DEF TargetPosition
  <2>4. QED
    BY <1>1, <1>2, <2>1, <2>2, <2>3 DEF Fit, Orderly, Within
<1>5. CASE Weighs(a)
  <2>1. PICK i \in Marked, w \in -WeightOne .. WeightOne : a = TargetWeight(i, w)
    BY <1>5 DEF Weighs
  <2>2. MaxAbsPosition = NoLimit /\ manifest.max_abs_position = NoLimit
    BY <1>5 DEF Weighs, LimitsServe
  <2>3. a.kind = "target_weight" /\ a.instrument_id = i
    BY <2>1 DEF TargetWeight
  <2>4. QED
    BY <1>1, <1>2, <2>2, <2>3 DEF Fit, Orderly
<1>6. ASSUME NEW n \in Nat, NEW side, NEW type \in {"market", "limit"}, NEW q \in Nat, NEW limit,
             a = SubmitOrder(n, side, type, q, limit), <<"client", n>> \notin Live,
             manifest.max_order_quantity \in Nat, q <= manifest.max_order_quantity
      PROVE  Fit(a)
  <2>1. /\ a.kind = "submit_order" /\ a.client_order_id = <<"client", n>>
        /\ a.instrument_id = event.instrument_id /\ a.order_type = type /\ a.quantity = q
    BY <1>6 DEF SubmitOrder
  <2>2. Bearers(a.client_order_id) = {}
    BY <1>6, <2>1 DEF Bearers, Live
  <2>3. Submittable(a)
    BY <1>6, <2>1, <2>2, LimitsAssumption DEF Submittable, LimitsServe
  <2>4. QED
    BY <1>1, <1>2, <1>6, <2>1, <2>3 DEF Fit, Within
<1>7. CASE Takes(a)
  <2>1. PICK side \in Side, q \in Nat \ {0} :
          /\ a = SubmitOrder(memory.counter + 1, side, "market", q, 0)
          /\ strategy # "twap_execution" => q <= manifest.max_order_quantity
          /\ strategy = "twap_execution" => q = SliceQuantity
    BY <1>7 DEF Takes
  <2>2. strategy \in Counting /\ manifest.max_order_quantity \in Nat
    BY <1>7 DEF Takes
  <2>3. memory.counter + 1 \in Nat /\ memory.counter \in Nat
    BY DEF StrategyInv, Remembers
  <2>4. <<"client", memory.counter + 1>> \notin Live
    BY <2>2, <2>3 DEF CountInv, Live
  <2>5. q <= manifest.max_order_quantity
    BY <2>1 DEF LimitsServe
  <2>6. QED
    BY <1>6, <2>1, <2>2, <2>3, <2>4, <2>5
<1>8. CASE Makes(a)
  <2>1. PICK k \in 1 .. 2, price \in Nat \ {0} : a = MakerOrder(k, Sides[k], price)
    BY <1>8 DEF Makes
  <2>2. strategy = "l2_imbalance_maker" /\ manifest.max_order_quantity = 1
    BY <1>8, ManifestsAre DEF Makes, manifest, Manifest
  <2>3. CASE <<"client", k>> \in Live
    <3>1. a = ReplaceOrder(k, price)
      BY <2>1, <2>3 DEF MakerOrder
    <3>2. /\ a.kind = "replace_order" /\ a.client_order_id = <<"client", k>>
          /\ a.new_quantity = 0
      BY <3>1 DEF ReplaceOrder
    <3>3. Bearers(a.client_order_id) # {}
      BY <2>3, <3>2 DEF Live, Bearers
    <3>4. Replaceable(Bearers(a.client_order_id))
      BY <2>2, <3>3, BearersOfId DEF Replaceable, ListInv
    <3>5. QED
      BY <1>1, <3>2, <3>4 DEF Fit
  <2>4. CASE <<"client", k>> \notin Live
    <3>1. a = SubmitOrder(k, Sides[k], "limit", 1, price)
      BY <2>1, <2>4 DEF MakerOrder
    <3>2. QED
      BY <1>6, <2>2, <2>4, <3>1
  <2>5. QED
    BY <2>3, <2>4
<1>9. QED
  BY <1>3, <1>4, <1>5, <1>7, <1>8 DEF Proper

(* The answer to an event, by kind of strategy.                             *)
LEMMA AnswerIs ==
  ASSUME TypeInv, StrategyInv, CurrentInv, phase = "value", ~Free, NEW r \in Answers
  PROVE  /\ Sound(r)
         /\ strategy \in Counting =>
              /\ Len(r.actions) = 1 /\ r.memory.counter >= memory.counter
              /\ r.actions[1].kind = "submit_order" => r.memory.counter = memory.counter + 1
         /\ strategy = "l2_imbalance_maker" =>
              \/ r.actions = <<NoOp>>
              \/ \E p, q \in Nat \ {0} :
                   r.actions = <<MakerOrder(1, "buy", p), MakerOrder(2, "sell", q)>>
         /\ strategy \in {"pairs_zscore", "dyna_q_pairs"} =>
              r.actions = <<NoOp>> \/ \E d \in {-1, 0, 1} : r.actions = BothLegs(d)
<1>1. event.instrument_id \in Marked /\ event.payload \in Payload
  BY CurrentEvent DEF CurrentInv, MarketEvent
<1>2. Sound(r)
  BY AnswersSound
<1>3. CASE r \in Idle(memory)
  <2>1. r.actions = <<NoOp>> /\ r.memory = memory /\ NoOp.kind # "submit_order"
    BY <1>3 DEF Idle, Returned, NoOp
  <2>2. memory.counter \in Nat
    BY DEF StrategyInv, Remembers
  <2>3. QED
    BY <1>2, <2>1, <2>2
<1>4. CASE r \in Decision /\ event.payload.kind = manifest.reads
  <2>1. CASE strategy \in Counting
    <3>1. strategy \notin {"l2_imbalance_maker", "pairs_zscore", "dyna_q_pairs"}
      BY <2>1 DEF Counting
    <3>2. /\ Len(r.actions) = 1 /\ r.memory.counter >= memory.counter
          /\ r.actions[1].kind = "submit_order" => r.memory.counter = memory.counter + 1
      BY <1>1, <1>4, <2>1, DecisionIs, CountingSound DEF Counting
    <3>3. QED
      BY <1>2, <3>1, <3>2
  <2>2. CASE strategy = "l2_imbalance_maker"
    <3>1. manifest.reads = "quote"
      BY <2>2, ManifestsAre DEF manifest, Manifest
    <3>2. event.payload \in QuotePayload
      BY <1>1, <1>4, <3>1 DEF Payload, BarPayload, TradePayload, QuotePayload
    <3>3. QED
      BY <1>1, <1>2, <1>4, <2>2, <3>2, DecisionIs, MakerSound DEF Counting
  <2>3. CASE strategy \in {"pairs_zscore", "dyna_q_pairs"}
    BY <1>1, <1>2, <1>4, <2>3, DecisionIs, PairsSound DEF Counting
  <2>4. QED
    BY <1>2, <2>1, <2>2, <2>3
<1>5. QED
  BY <1>3, <1>4 DEF Answers

LEMMA MakerKinds ==
  ASSUME NEW n, NEW side, NEW price
  PROVE  /\ MakerOrder(n, side, price).kind \in Orderly
         /\ MakerOrder(n, side, price).client_order_id = <<"client", n>>
  BY DEF MakerOrder, SubmitOrder, ReplaceOrder, Orderly

LEMMA FitAnswered ==
  ASSUME TypeInv, StrategyInv, CurrentInv, LimitsServe, CountInv, ListInv, OnEvent
  PROVE  FitInv'
<1>1. PICK r \in Answers : response' = r.actions /\ memory' = r.memory
  BY DEF OnEvent, Answers, manifest
<1>2. /\ ~Free /\ phase = "value" /\ phase' = "act" /\ acted' = 0 /\ pending' = pending
      /\ marks' = marks /\ events' = events /\ strategy' = strategy
  BY DEF OnEvent, Called, TakeSnapshot, GoTo, orderVars
<1>3. Sound(r)
  BY <1>1, <1>2, AnswersSound
<1>4. event.instrument_id \in Marked
  BY <1>2 DEF CurrentInv
<1>5. \A a : Fit(a) => Fit(a)'
  BY <1>2 DEF Fit, universe, manifest, TargetAllowed, Within, Submittable, Replaceable, Bearers, First
<1>6. Len(r.actions) \in Nat /\ DOMAIN r.actions = 1 .. Len(r.actions)
  BY <1>3, LenProperties DEF Sound
<1>7. \A k \in 1 .. Len(r.actions) : Fit(r.actions[k])
  BY <1>2, <1>3, <1>4, <1>6, ProperFits DEF Sound
<1>8. ASSUME NEW k \in DOMAIN r.actions, NEW l \in DOMAIN r.actions,
             r.actions[k].kind \in Orderly, r.actions[l].kind \in Orderly,
             r.actions[k].client_order_id = r.actions[l].client_order_id
      PROVE  k = l
  <2>1. CASE strategy \in Counting
    BY <1>1, <1>2, <1>6, <2>1, AnswerIs
  <2>2. CASE strategy = "l2_imbalance_maker"
    <3>1. CASE r.actions = <<NoOp>>
      BY <1>6, <3>1
    <3>2. ASSUME NEW p \in Nat \ {0}, NEW q \in Nat \ {0},
                 r.actions = <<MakerOrder(1, "buy", p), MakerOrder(2, "sell", q)>>
          PROVE  k = l
      <4>1. k \in {1, 2} /\ l \in {1, 2}
        BY <1>6, <3>2
      <4>2. /\ r.actions[1].client_order_id = <<"client", 1>>
            /\ r.actions[2].client_order_id = <<"client", 2>>
        BY <3>2, MakerKinds
      <4>3. QED
        BY <1>8, <4>1, <4>2
    <3>3. QED
      BY <1>1, <1>2, <2>2, <3>1, <3>2, AnswerIs
  <2>3. CASE strategy \notin Counting \cup {"l2_imbalance_maker"}
    <3>1. strategy \in DOMAIN Manifests
      BY <1>2 DEF StrategyInv, Free
    <3>2. manifest.allowed \cap Orderly = {}
      BY <2>3, <3>1, StrategiesAre, ManifestsAre
      DEF manifest, Manifest, Targets, Modelled, Orderly, Counting
    <3>3. r.actions[k].kind \in manifest.allowed
      BY <1>3 DEF Sound, Proper
    <3>4. QED
      BY <1>8, <3>2, <3>3
  <2>4. QED
    BY <2>1, <2>2, <2>3
<1>9. QED
  BY <1>1, <1>2, <1>5, <1>6, <1>7, <1>8 DEF FitInv

-----------------------------------------------------------------------------
(* An answer still fits when its actions before have been handled.          *)

(* The steps of the engine between two calls of a bundled strategy.         *)
Between ==
  \/ RejectEmptyTape \/ RejectDisorder \/ Start \/ BeginEvent
  \/ Settle \/ ValuePosition
  \/ Finish \/ ExpireOrder \/ Report \/ Ended

LEMMA EngineStepIs ==
  ASSUME EngineStep
  PROVE  /\ Between /\ ~Free /\ phase # "act" /\ UNCHANGED strategyVars
<1>1. ~Free /\ phase # "act" /\ UNCHANGED strategyVars /\ ~Called /\ ~StrategyRaises
  BY DEF EngineStep
<1>2. ~TakeSnapshot
  BY <1>1 DEF TakeSnapshot, Called
<1>3. ~EndEvent
  BY <1>1 DEF EndEvent
<1>4. \A a \in Actions : ~Handle(a)
  BY <1>1, ActionDoneOrRejected
<1>5. SettleFilled \/ Next
  BY DEF EngineStep, BooksNext
<1>6. QED
  BY <1>1, <1>2, <1>3, <1>4, <1>5 DEF Next, Proceed, Between, Settle

(* They take orders off the list and change none.                           *)
Shrinking ==
  /\ DOMAIN pending' \subseteq DOMAIN pending
  /\ \A n \in DOMAIN pending' : pending'[n] = pending[n]

LEMMA WithoutShrinks ==
  ASSUME NEW S, pending' = Without(pending, S) \/ pending' = pending
  PROVE  Shrinking
  BY DEF Without, Shrinking

LEMMA BetweenShrinks ==
  ASSUME TypeInv, Between, phase # "act"
  PROVE  /\ Shrinking /\ phase' # "act" /\ acted' = acted /\ events' = events
         /\ error' \in {error, "BACKTEST_FAILED", "DATA_ORDERING_INVALID"}
         /\ phase' = "loop" => phase = "validate"
         /\ phase' = "validate" => phase = "validate" /\ pending' = pending
<1> USE DEF programVars, accountVars, valueVars, orderVars
<1> DEFINE Small == /\ acted' = acted /\ events' = events
                    /\ phase' # "act"
                    /\ error' \in {error, "BACKTEST_FAILED", "DATA_ORDERING_INVALID"}
                    /\ phase' = "loop" => phase = "validate"
                    /\ phase' = "validate" => phase = "validate" /\ pending' = pending
<1>1. CASE RejectEmptyTape \/ RejectDisorder
  BY <1>1, WithoutShrinks DEF RejectEmptyTape, RejectDisorder, Fail
<1>2. CASE Start \/ BeginEvent \/ EndSettlement \/ Finish \/ Report
  BY <1>2, WithoutShrinks DEF Start, BeginEvent, EndSettlement, Finish, Report, GoTo
<1>3. CASE SettleKept
  BY <1>3, WithoutShrinks DEF SettleKept
<1>4. CASE SettleSatisfied
  BY <1>4, WithoutShrinks DEF SettleSatisfied
<1>5. CASE SettleFilled
  BY <1>5, WithoutShrinks DEF SettleFilled
<1>6. CASE ExpireOrder
  BY <1>6, WithoutShrinks DEF ExpireOrder
<1>7. CASE ValuePosition
  BY <1>7, WithoutShrinks DEF ValuePosition
<1>8. CASE Ended
  BY <1>8, WithoutShrinks DEF Ended, vars
<1>9. QED
  BY <1>1, <1>2, <1>3, <1>4, <1>5, <1>6, <1>7, <1>8 DEF Between, Settle

(* What the steps of a bundled strategy can be, seen from the order list.   *)
LEMMA BundledStep ==
  ASSUME TypeInv, StrategyInv, FitInv, ~Free, [StrategiesNext]_allVars
  PROVE  EngineStep \/ OnEvent \/ ModelRaises \/ Follow \/ AllFollowed \/ UNCHANGED allVars
  BY DEF StrategiesNext, FreeStep

(* A strategy that raises leaves everything but the phase as it is.         *)
LEMMA ModelRaisesIs ==
  ASSUME ModelRaises
  PROVE  /\ strategy \in Trained /\ phase = "act" /\ phase' = "failed" /\ error' = "exception"
         /\ acted = 0 /\ acted' = 0 /\ UNCHANGED strategyVars
         /\ pending' = pending /\ quantities' = quantities
  BY DEF ModelRaises, StrategyRaises, Fail, accountVars, orderVars

LEMMA FitStep ==
  ASSUME TypeInv, StrategyInv, CurrentInv, ~Free, LimitsServe, FitInv, CountInv, ListInv,
         [StrategiesNext]_allVars
  PROVE  FitInv'
<1>1. CASE EngineStep
  <2>1. phase' # "act"
    BY <1>1, EngineStepIs, BetweenShrinks
  <2>2. QED
    BY <2>1 DEF FitInv
<1>2. CASE OnEvent
  BY <1>2, FitAnswered
<1>3. CASE Follow
  BY <1>3, FitFollowed
<1>4. CASE AllFollowed
  <2>1. phase' = "loop"
    BY <1>4 DEF AllFollowed, EndEvent, GoTo
  <2>2. QED
    BY <2>1 DEF FitInv
<1>5. CASE UNCHANGED allVars
  <2>1. phase' = phase /\ acted' = acted /\ response' = response /\ pending' = pending
        /\ marks' = marks /\ events' = events /\ strategy' = strategy
    BY <1>5 DEF allVars, vars, programVars, orderVars, strategyVars
  <2>2. \A a : Fit(a) => Fit(a)'
    BY <2>1 DEF Fit, universe, manifest, TargetAllowed, Within, Submittable, Replaceable, Bearers, First
  <2>3. QED
    BY <2>1, <2>2 DEF FitInv
<1>6. CASE ModelRaises
  BY <1>6, ModelRaisesIs DEF FitInv
<1>7. QED
  BY <1>1, <1>2, <1>3, <1>4, <1>5, <1>6, BundledStep

-----------------------------------------------------------------------------
LEMMA PendingIs ==
  ASSUME TypeInv
  PROVE  order_count \in Nat /\ \A n \in DOMAIN pending : pending[n] \in Order /\ n \in Nat
  BY DEF TypeInv, TypeOK

LEMMA DeclaredStep ==
  ASSUME TypeInv, StrategyInv, CurrentInv, ~Free, FitInv, Declared,
         [StrategiesNext]_allVars
  PROVE  Declared'
<1> DEFINE Small(o) == /\ Within(manifest.max_order_quantity, o.quantity)
                       /\ Within(manifest.max_abs_position, Magnitude(o.target_quantity))
<1>0. Declared <=>
        /\ error \notin {"ACTION_INVALID", "ORDER_REJECTED"}
        /\ \A n \in DOMAIN response : response[n].kind \in manifest.allowed
        /\ \A n \in DOMAIN pending : Small(pending[n])
  BY DEF Declared, manifest
<1>0a. ASSUME strategy' = strategy,
              error' \notin {"ACTION_INVALID", "ORDER_REJECTED"},
              \A n \in DOMAIN response' : response'[n].kind \in manifest.allowed,
              \A n \in DOMAIN pending' : Small(pending'[n])
       PROVE  Declared'
  BY <1>0a DEF Declared, manifest, Within, Magnitude
<1> DEFINE Calm == /\ strategy' = strategy
                   /\ error' \notin {"ACTION_INVALID", "ORDER_REJECTED"}
<1> HIDE DEF Small
<1>1. CASE EngineStep
  <2>1. UNCHANGED strategyVars /\ Shrinking
        /\ error' \in {error, "BACKTEST_FAILED", "DATA_ORDERING_INVALID"}
    BY <1>1, EngineStepIs, BetweenShrinks
  <2>2. QED
    BY <1>0, <1>0a, <2>1 DEF Shrinking, strategyVars
<1>2. CASE OnEvent
  <2>1. PICK r \in Answers : response' = r.actions
    BY <1>2 DEF OnEvent, Answers, manifest
  <2>2. /\ phase = "value" /\ error' = error /\ pending' = pending /\ strategy' = strategy
    BY <1>2 DEF OnEvent, Called, TakeSnapshot, GoTo, orderVars
  <2>3. Sound(r)
    BY <2>1, <2>2, AnswersSound
  <2>4. \A n \in DOMAIN r.actions : r.actions[n].kind \in manifest.allowed
    BY <2>3 DEF Sound, Proper
  <2>5. QED
    BY <1>0, <1>0a, <2>1, <2>2, <2>4
<1>3. CASE Follow
  <2>1. PICK a \in Action : a = response[acted + 1] /\ Fit(a) /\ Move(a)
    BY <1>3, FollowMoves
  <2>2. /\ error' = error /\ strategy' = strategy /\ response' = response
    BY <1>3, FollowMoves DEF ActionDone, strategyVars
  <2>3. \A n \in DOMAIN pending' : Small(pending'[n])
    <3>0. /\ manifest.max_abs_position \in Nat \cup {NoLimit}
          /\ manifest.max_order_quantity \in Nat \cup {NoLimit}
      BY AllowedKinds
    <3>1. ASSUME NEW o, Accept(o), Small(o) PROVE \A n \in DOMAIN pending' : Small(pending'[n])
      BY <1>0, <3>1, Joined
    <3>2. CASE UNCHANGED pending
      BY <1>0, <3>2
    <3>3. CASE a.kind = "target_position" /\ Accept(TargetOrder(a.instrument_id, a.quantity))
      <4>1. Within(manifest.max_abs_position, Magnitude(a.quantity))
        BY <2>1, <3>3 DEF Fit
      <4>2. Within(manifest.max_order_quantity, 0)
        BY <3>0 DEF Within
      <4>3. Small(TargetOrder(a.instrument_id, a.quantity))
        BY <4>1, <4>2 DEF Small, TargetOrder
      <4>4. QED
        BY <3>1, <3>3, <4>3
    <3>4. CASE a.kind = "target_weight" /\ Accept(TargetOrder(a.instrument_id, WeightTarget(a)))
      <4>1. manifest.max_abs_position = NoLimit
        BY <2>1, <3>4 DEF Fit
      <4>2. Within(manifest.max_order_quantity, 0)
        BY <3>0 DEF Within
      <4>3. Small(TargetOrder(a.instrument_id, WeightTarget(a)))
        BY <4>1, <4>2 DEF Small, TargetOrder, Within
      <4>4. QED
        BY <3>1, <3>4, <4>3
    <3>5. CASE a.kind = "submit_order" /\ Accept(DirectOrder(a))
      <4>1. Within(manifest.max_order_quantity, a.quantity)
        BY <2>1, <3>5 DEF Fit
      <4>2. Within(manifest.max_abs_position, Magnitude(0))
        BY <3>0 DEF Within, Magnitude
      <4>3. Small(DirectOrder(a))
        BY <4>1, <4>2 DEF Small, DirectOrder
      <4>4. QED
        BY <3>1, <3>5, <4>3
    <3>6. CASE a.kind = "replace_order" /\ HandleReplace(a)
      <4>1. a.new_quantity = 0
        BY <2>1, <3>6 DEF Fit
      <4> DEFINE mine == Bearers(a.client_order_id)
                 updated == Updated(pending[First(mine)], a)
      <4>2. /\ DOMAIN pending' = DOMAIN pending
            /\ \A n \in DOMAIN pending : pending'[n] = IF n \in mine THEN updated ELSE pending[n]
            /\ First(mine) \in mine /\ pending[First(mine)] \in Order
        BY <3>6, <4>1, Replaced
      <4>3. /\ updated.quantity = pending[First(mine)].quantity
            /\ updated.target_quantity = pending[First(mine)].target_quantity
        BY <3>6, <4>1, <4>2, UpdatedIs
      <4>4. First(mine) \in DOMAIN pending
        BY <4>2 DEF Bearers
      <4>5. Small(updated)
        BY <1>0, <4>3, <4>4 DEF Small
      <4> HIDE DEF updated, mine
      <4>6. QED
        BY <1>0, <4>2, <4>5
    <3>7. QED
      BY <2>1, <3>2, <3>3, <3>4, <3>5, <3>6 DEF Move
  <2>4. QED
    BY <1>0, <1>0a, <2>2, <2>3
<1>4. CASE AllFollowed \/ UNCHANGED allVars
  <2>1. error' = error /\ strategy' = strategy /\ response' = response /\ pending' = pending
    BY <1>4 DEF AllFollowed, EndEvent, GoTo, orderVars, allVars, vars, programVars, strategyVars
  <2>2. QED
    BY <1>0, <1>0a, <2>1
<1>5. CASE ModelRaises
  <2>1. /\ error' = "exception" /\ strategy' = strategy /\ response' = response
        /\ pending' = pending
    BY <1>5, ModelRaisesIs DEF strategyVars
  <2>2. QED
    BY <1>0, <1>0a, <2>1
<1>6. QED
  BY <1>1, <1>2, <1>3, <1>4, <1>5, BundledStep

-----------------------------------------------------------------------------
(* The numbers that strategies have counted name their orders, and the      *)
(* maker's list holds no order but its quotes.                              *)

(* Order n is the one that a strategy counted as its c-th.                  *)
Named(n, c) == pending[n].client_order_id = <<"client", c>>

LEMMA CountStep ==
  ASSUME TypeInv, StrategyInv, CurrentInv, ~Free, FitInv, CountInv, [StrategiesNext]_allVars
  PROVE  CountInv'
<1> SUFFICES ASSUME strategy' \in Counting PROVE CountInv'
  BY DEF CountInv, Counting
<1>0. strategy' = strategy /\ memory.counter \in Nat
  BY StrategyStep DEF StrategyInv, Remembers
<1>1. CASE EngineStep
  <2>1. UNCHANGED strategyVars /\ Shrinking
    BY <1>1, EngineStepIs, BetweenShrinks
  <2>2. QED
    BY <1>0, <2>1 DEF Shrinking, strategyVars, CountInv
<1>2. CASE OnEvent
  <2>1. PICK r \in Answers : response' = r.actions /\ memory' = r.memory
    BY <1>2 DEF OnEvent, Answers, manifest
  <2>2. phase = "value" /\ pending' = pending
    BY <1>2 DEF OnEvent, Called, TakeSnapshot, GoTo, orderVars
  <2>3. /\ Sound(r) /\ Len(r.actions) = 1 /\ r.memory.counter >= memory.counter
        /\ r.actions[1].kind = "submit_order" => r.memory.counter = memory.counter + 1
    BY <1>0, <2>1, <2>2, AnswerIs
  <2>4. r.memory.counter \in Nat
    BY <2>3 DEF Sound, Remembers
  <2>5. DOMAIN r.actions = {1}
    BY <2>3, LenProperties DEF Sound
  <2>6. ASSUME r.actions[1].kind \in Orderly
        PROVE  \E c \in 1 .. r.memory.counter : r.actions[1].client_order_id = <<"client", c>>
    <3>1. Proper(r.actions[1])
      BY <2>3, <2>5 DEF Sound
    <3>2. Takes(r.actions[1])
      <4>1. r.actions[1] # NoOp /\ r.actions[1] # Prediction
        BY <2>6 DEF NoOp, Prediction, Orderly
      <4>2. ~Aims(r.actions[1])
        <5>1. \A i, q : TargetPosition(i, q).kind \notin Orderly
          BY DEF TargetPosition, Orderly
        <5>2. QED
          BY <2>6, <5>1 DEF Aims
      <4>3. ~Weighs(r.actions[1])
        <5>1. \A i, w : TargetWeight(i, w).kind \notin Orderly
          BY DEF TargetWeight, Orderly
        <5>2. QED
          BY <2>6, <5>1 DEF Weighs
      <4>4. ~Makes(r.actions[1])
        BY <1>0 DEF Makes, Counting
      <4>5. QED
        BY <3>1, <4>1, <4>2, <4>3, <4>4 DEF Proper
    <3>3. /\ r.actions[1].kind = "submit_order"
          /\ r.actions[1].client_order_id = <<"client", memory.counter + 1>>
      BY <3>2 DEF Takes, SubmitOrder
    <3>4. QED
      BY <1>0, <2>3, <3>3
  <2>7. \A c \in 1 .. memory.counter : c \in 1 .. memory'.counter
    BY <1>0, <2>1, <2>3, <2>4
  <2>8. \A n \in DOMAIN pending' : \E c \in 1 .. memory'.counter :
          pending'[n].client_order_id = <<"client", c>>
    BY <1>0, <2>2, <2>7 DEF CountInv
  <2>9. QED
    BY <2>1, <2>3, <2>5, <2>6, <2>8 DEF CountInv
<1>3. CASE Follow
  <2>1. PICK a \in Action : a = response[acted + 1] /\ Fit(a) /\ Move(a)
    BY <1>3, FollowMoves
  <2>2. strategy' = strategy /\ response' = response /\ memory' = memory
        /\ acted + 1 \in DOMAIN response
    BY <1>3, FollowMoves DEF strategyVars
  <2>3. manifest.allowed = {"submit_order", "no_op"}
    BY <1>0, ManifestsAre DEF manifest, Manifest, Orders, Counting
  <2>4. a.kind \in {"submit_order", "no_op"}
    BY <2>1, <2>3 DEF Fit
  <2>5. \A n \in DOMAIN pending' : \E c \in 1 .. memory.counter :
          pending'[n].client_order_id = <<"client", c>>
    <3>1. CASE UNCHANGED pending
      BY <1>0, <3>1 DEF CountInv
    <3>2. CASE a.kind = "submit_order" /\ Accept(DirectOrder(a))
      <4>1. \E c \in 1 .. memory.counter : a.client_order_id = <<"client", c>>
        BY <1>0, <2>1, <2>2, <3>2 DEF CountInv, Orderly
      <4>2. DirectOrder(a).client_order_id = a.client_order_id
        BY DEF DirectOrder
      <4>3. QED
        BY <1>0, <3>2, <4>1, <4>2, Joined DEF CountInv
    <3>3. QED
      BY <2>1, <2>4, <3>1, <3>2 DEF Move
  <2>6. QED
    BY <1>0, <2>2, <2>5 DEF CountInv
<1>4. CASE AllFollowed \/ UNCHANGED allVars
  <2>1. memory' = memory /\ response' = response /\ pending' = pending
    BY <1>4 DEF AllFollowed, EndEvent, GoTo, orderVars, allVars, vars, programVars, strategyVars
  <2>2. QED
    BY <1>0, <2>1 DEF CountInv
<1>5. CASE ModelRaises
  <2>1. memory' = memory /\ response' = response /\ pending' = pending
    BY <1>5, ModelRaisesIs DEF strategyVars
  <2>2. QED
    BY <1>0, <2>1 DEF CountInv
<1>6. QED
  BY <1>1, <1>2, <1>3, <1>4, <1>5, BundledStep

-----------------------------------------------------------------------------
(* The price of the maker's quote k, which it submits or moves.             *)
QuotedAt(k) == IF response[k].kind = "submit_order" THEN response[k].limit_price
               ELSE response[k].new_limit_price

IsQuote(k) ==
  /\ response[k].client_order_id = <<"client", k>>
  /\ \/ /\ response[k].kind = "submit_order"
        /\ response[k].side = Sides[k] /\ response[k].order_type = "limit"
     \/ response[k].kind = "replace_order" /\ response[k].new_limit_price # 0

Stands(k) ==
  \E n \in DOMAIN pending : Named(n, k) /\ pending[n].limit_price = QuotedAt(k)

(* The quotes of an answer stand once they have been followed.              *)
QuoteInv ==
  strategy = "l2_imbalance_maker" =>
    /\ phase = "validate" => response = <<>>
    /\ response \notin {<<>>, <<NoOp>>} =>
         /\ Len(response) = 2
         /\ \A k \in 1 .. 2 : IsQuote(k)
         /\ phase = "loop" => acted = 2
         /\ phase \in {"act", "loop"} => \A k \in 1 .. 2 : k <= acted => Stands(k)

LEMMA QuoteAnswered ==
  ASSUME TypeInv, StrategyInv, CurrentInv, ~Free, strategy = "l2_imbalance_maker", OnEvent
  PROVE  QuoteInv' /\ (ListInv => ListInv')
<1>1. PICK r \in Answers : response' = r.actions
  BY DEF OnEvent, Answers, manifest
<1>2. phase = "value" /\ pending' = pending /\ phase' = "act" /\ acted' = 0 /\ strategy' = strategy
  BY DEF OnEvent, Called, TakeSnapshot, GoTo, orderVars
<1>3. \/ r.actions = <<NoOp>>
      \/ \E p, q \in Nat \ {0} : r.actions = <<MakerOrder(1, "buy", p), MakerOrder(2, "sell", q)>>
  BY <1>1, <1>2, AnswerIs
<1>4. ListInv => ListInv'
  BY <1>2 DEF ListInv
<1>5. CASE r.actions = <<NoOp>>
  BY <1>1, <1>2, <1>4, <1>5 DEF QuoteInv
<1>6. ASSUME NEW p \in Nat \ {0}, NEW q \in Nat \ {0},
             r.actions = <<MakerOrder(1, "buy", p), MakerOrder(2, "sell", q)>>
      PROVE  QuoteInv'
  <2>1. /\ Len(response') = 2
        /\ response'[1] = MakerOrder(1, "buy", p) /\ response'[2] = MakerOrder(2, "sell", q)
    BY <1>1, <1>6
  <2>2. IsQuote(1)' /\ IsQuote(2)'
    BY <2>1 DEF IsQuote, MakerOrder, SubmitOrder, ReplaceOrder, Sides
  <2>3. \A k \in 1 .. 2 : IsQuote(k)'
    BY <2>2
  <2>4. QED
    BY <1>2, <2>1, <2>3 DEF QuoteInv
<1>7. QED
  BY <1>3, <1>4, <1>5, <1>6

(* The quote that is followed is in the market afterwards, as it was meant. *)
LEMMA QuotePlaced ==
  ASSUME TypeInv, ListInv, strategy = "l2_imbalance_maker", strategy' = strategy,
         NEW k \in 1 .. 2, NEW a \in Action, a = response[k], response' = response,
         IsQuote(k), Fit(a), Move(a)
  PROVE  ListInv' /\ Stands(k)'
<1>0. \A l \in 1 .. 2 : <<"client", l>> = <<"client", k>> => l = k
  OBVIOUS
<1>1. CASE a.kind = "submit_order" /\ Accept(DirectOrder(a))
  <2> DEFINE o == DirectOrder(a) m == order_count + 1
  <2>1. /\ o.client_order_id = <<"client", k>> /\ o.order_type = "limit" /\ o.side = Sides[k]
        /\ o.limit_price = QuotedAt(k)
    BY <1>1 DEF DirectOrder, IsQuote, QuotedAt
  <2>2. \A n \in DOMAIN pending : pending[n].client_order_id # <<"client", k>>
    BY <1>1 DEF Fit, Submittable, Bearers, IsQuote
  <2>3. /\ DOMAIN pending' = DOMAIN pending \cup {m} /\ pending'[m] = o
        /\ \A n \in DOMAIN pending : pending'[n] = pending[n]
    BY <1>1, Joined
  <2> HIDE DEF o, m
  <2>4. Stands(k)'
    BY <2>1, <2>3 DEF Stands, Named, QuotedAt
  <2>5. QED
    BY <2>1, <2>2, <2>3, <2>4 DEF ListInv
<1>2. CASE a.kind = "replace_order" /\ HandleReplace(a)
  <2> DEFINE mine == Bearers(a.client_order_id)
             updated == Updated(pending[First(mine)], a)
  <2>1. a.new_quantity = 0 /\ a.new_limit_price # 0 /\ a.client_order_id = <<"client", k>>
    BY <1>2 DEF Fit, IsQuote
  <2>2. /\ DOMAIN pending' = DOMAIN pending
        /\ \A n \in DOMAIN pending : pending'[n] = IF n \in mine THEN updated ELSE pending[n]
        /\ First(mine) \in mine /\ pending[First(mine)] \in Order
    BY <1>2, <2>1, Replaced
  <2>3. First(mine) \in DOMAIN pending /\ pending[First(mine)].client_order_id = <<"client", k>>
    BY <2>1, <2>2 DEF Bearers
  <2>4. updated.side = Sides[k] /\ pending[First(mine)].order_type = "limit"
    <3>1. pending[First(mine)].order_type = "limit" /\ pending[First(mine)].side = Sides[k]
      BY <1>0, <2>3 DEF ListInv
    <3>2. QED
      BY <1>2, <2>1, <2>2, <3>1, UpdatedIs
  <2>5. /\ updated.client_order_id = <<"client", k>> /\ updated.order_type = "limit"
        /\ updated.limit_price = QuotedAt(k)
    BY <1>2, <2>1, <2>2, <2>3, <2>4, UpdatedIs DEF NewOrOld, QuotedAt
  <2>6. \A n \in mine : pending[n].client_order_id = <<"client", k>>
    BY <2>1 DEF Bearers
  <2> HIDE DEF updated, mine
  <2>7. Stands(k)'
    BY <2>2, <2>3, <2>5 DEF Stands, Named, QuotedAt
  <2>8. \A n \in DOMAIN pending : pending'[n].client_order_id = pending[n].client_order_id
    BY <2>2, <2>5, <2>6
  <2>9. \A n \in DOMAIN pending' :
         /\ pending'[n].order_type = "limit"
         /\ \E l \in 1 .. 2 : pending'[n].client_order_id = <<"client", l>> /\ pending'[n].side = Sides[l]
    BY <2>2, <2>4, <2>5 DEF ListInv
  <2>10. QED
    BY <2>2, <2>7, <2>8, <2>9 DEF ListInv
<1>3. QED
  BY <1>1, <1>2 DEF Move, IsQuote

LEMMA QuoteStep ==
  ASSUME TypeInv, StrategyInv, CurrentInv, ~Free, FitInv, ListInv, QuoteInv,
         [StrategiesNext]_allVars
  PROVE  ListInv' /\ QuoteInv'
<1>0. strategy' = strategy
  BY StrategyStep
<1> SUFFICES ASSUME strategy = "l2_imbalance_maker" PROVE ListInv' /\ QuoteInv'
  BY <1>0 DEF ListInv, QuoteInv
<1>1. CASE EngineStep
  <2>1. /\ response' = response /\ acted' = acted /\ phase' # "act"
        /\ phase' = "loop" => phase = "validate"
        /\ phase' = "validate" => phase = "validate"
    BY <1>1, EngineStepIs, BetweenShrinks DEF strategyVars
  <2>2. ListInv'
    <3>1. Shrinking
      BY <1>1, EngineStepIs, BetweenShrinks
    <3>2. QED
      BY <1>0, <3>1 DEF ListInv, Shrinking
  <2>3. \A k : IsQuote(k) => IsQuote(k)'
    BY <2>1 DEF IsQuote
  <2>4. QED
    BY <1>0, <2>1, <2>2, <2>3 DEF QuoteInv
<1>2. CASE OnEvent
  BY <1>2, QuoteAnswered
<1>3. CASE Follow
  <2>1. PICK a \in Action : a = response[acted + 1] /\ Fit(a) /\ Move(a)
    BY <1>3, FollowMoves
  <2>2. /\ response' = response /\ phase = "act" /\ phase' = "act" /\ acted' = acted + 1
        /\ acted \in Nat /\ acted + 1 \in 1 .. Len(response)
    BY <1>3, FollowMoves DEF strategyVars
  <2>3. CASE response \in {<<>>, <<NoOp>>}
    <3>1. a = NoOp
      BY <2>1, <2>2, <2>3
    <3>2. pending' = pending
      BY <2>1, <3>1 DEF Move, NoOp
    <3>3. QED
      BY <1>0, <2>2, <2>3, <3>2 DEF ListInv, QuoteInv
  <2>4. CASE response \notin {<<>>, <<NoOp>>}
    <3>1. /\ Len(response) = 2 /\ IsQuote(1) /\ IsQuote(2)
          /\ \A k \in 1 .. 2 : k <= acted => Stands(k)
      BY <2>2, <2>4 DEF QuoteInv
    <3>2. PICK j \in 1 .. 2 : j = acted + 1 /\ IsQuote(j)
      <4>1. acted + 1 \in 1 .. 2
        BY <2>2, <3>1
      <4>2. IsQuote(acted + 1)
        BY <3>1, <4>1
      <4>3. QED
        BY <4>1, <4>2
    <3>3. ListInv' /\ Stands(j)'
      BY <1>0, <2>1, <2>2, <3>2, QuotePlaced
    <3>4. ASSUME NEW k \in 1 .. 2, k <= acted PROVE Stands(k)'
      <4>1. PICK n \in DOMAIN pending : Named(n, k) /\ pending[n].limit_price = QuotedAt(k)
        BY <3>1, <3>4 DEF Stands
      <4>2. n \in Bearers(<<"client", k>>) /\ <<"client", k>> \in {"client"} \X Nat
        BY <4>1 DEF Named, Bearers
      <4>3. a.client_order_id # <<"client", k>>
        BY <2>1, <3>2, <3>4, <2>2 DEF IsQuote
      <4>4. n \in Bearers(<<"client", k>>)' /\ pending'[n] = pending[n]
        BY <2>1, <4>2, <4>3, BearersKept
      <4>5. QED
        BY <2>2, <4>1, <4>4 DEF Bearers, Stands, Named, QuotedAt
    <3>5. \A k \in 1 .. 2 : k <= acted' => Stands(k)'
      <4>1. \A k \in 1 .. 2 : k <= acted' => k <= acted \/ k = j
        BY <2>2, <3>2
      <4>2. QED
        BY <3>3, <3>4, <4>1
    <3>6. IsQuote(1)' /\ IsQuote(2)'
      BY <2>2, <3>1 DEF IsQuote
    <3>7. \A k \in 1 .. 2 : IsQuote(k)'
      BY <3>6
    <3>8. QED
      BY <2>2, <2>4, <3>1, <3>3, <3>5, <3>7 DEF QuoteInv
  <2>5. QED
    BY <2>3, <2>4
<1>4. CASE AllFollowed
  <2>1. /\ response' = response /\ pending' = pending /\ acted' = acted
        /\ phase = "act" /\ phase' = "loop" /\ acted = Len(response)
    BY <1>4 DEF AllFollowed, EndEvent, GoTo, orderVars, strategyVars
  <2>2. \A k : (IsQuote(k) => IsQuote(k)') /\ (Stands(k) => Stands(k)')
    BY <2>1 DEF IsQuote, Stands, Named, QuotedAt
  <2>3. ListInv'
    BY <1>0, <2>1 DEF ListInv
  <2>4. QED
    BY <1>0, <2>1, <2>2, <2>3 DEF QuoteInv
<1>5. CASE UNCHANGED allVars
  <2>1. response' = response /\ pending' = pending /\ acted' = acted /\ phase' = phase
    BY <1>5 DEF allVars, vars, programVars, orderVars, strategyVars
  <2>2. \A k : (IsQuote(k) => IsQuote(k)') /\ (Stands(k) => Stands(k)')
    BY <2>1 DEF IsQuote, Stands, Named, QuotedAt
  <2>3. ListInv'
    BY <1>0, <2>1 DEF ListInv
  <2>4. QED
    BY <1>0, <2>1, <2>2, <2>3 DEF QuoteInv
<1>6. CASE ModelRaises
  BY <1>0, <1>6, ModelRaisesIs DEF Trained
<1>7. QED
  BY <1>1, <1>2, <1>3, <1>4, <1>5, <1>6, BundledStep

LEMMA QuotesFollow ==
  ASSUME TypeInv, ListInv, QuoteInv
  PROVE  QuotesStand
<1> SUFFICES ASSUME strategy = "l2_imbalance_maker", phase = "loop", Len(response) = 2
             PROVE  LET price == [n \in 1 .. 2 |-> IF response[n].kind = "submit_order"
                                                   THEN response[n].limit_price
                                                   ELSE response[n].new_limit_price]
                    IN /\ Cardinality(DOMAIN pending) = 2
                       /\ \A n \in DOMAIN pending, k \in 1 .. 2 :
                            pending[n].client_order_id = <<"client", k>> =>
                              pending[n].limit_price = price[k] /\ pending[n].side = <<"buy", "sell">>[k]
  BY DEF QuotesStand
<1>1. response \notin {<<>>, <<NoOp>>}
  OBVIOUS
<1>2. Stands(1) /\ Stands(2)
  BY <1>1 DEF QuoteInv
<1>3. PICK m1 \in DOMAIN pending : Named(m1, 1) /\ pending[m1].limit_price = QuotedAt(1)
  BY <1>2 DEF Stands
<1>4. PICK m2 \in DOMAIN pending : Named(m2, 2) /\ pending[m2].limit_price = QuotedAt(2)
  BY <1>2 DEF Stands
<1>5. \A n \in DOMAIN pending : (Named(n, 1) => n = m1) /\ (Named(n, 2) => n = m2)
  BY <1>3, <1>4 DEF Named, ListInv
<1>6. \A n \in DOMAIN pending : Named(n, 1) \/ Named(n, 2)
  BY DEF Named, ListInv
<1>7. DOMAIN pending = {m1, m2} /\ m1 # m2
  BY <1>3, <1>4, <1>5, <1>6 DEF Named
<1>8. Cardinality({m1}) = 1 /\ IsFiniteSet({m1})
  BY FS_Singleton
<1>9. Cardinality({m1} \cup {m2}) = 2
  BY <1>7, <1>8, FS_AddElement
<1>10. Cardinality(DOMAIN pending) = 2
  <2>1. DOMAIN pending = {m1} \cup {m2}
    BY <1>7
  <2>2. QED
    BY <1>9, <2>1
<1>11. ASSUME NEW n \in DOMAIN pending, NEW k \in 1 .. 2, Named(n, k)
       PROVE  pending[n].limit_price = QuotedAt(k) /\ pending[n].side = Sides[k]
  <2>1. k = 1 \/ k = 2
    OBVIOUS
  <2>2. \E l \in 1 .. 2 : Named(n, l) /\ pending[n].side = Sides[l]
    BY DEF ListInv, Named
  <2>3. \A l \in 1 .. 2 : Named(n, l) => l = k
    BY <1>11 DEF Named
  <2>4. QED
    BY <1>3, <1>4, <1>5, <1>11, <2>1, <2>2, <2>3
<1>12. QED
  BY <1>10, <1>11 DEF Named, QuotedAt, Sides

-----------------------------------------------------------------------------
(* Pairs.  The next bars settle the targets of both legs, at different      *)
(* events: what each leg is aimed at stays right in between.                *)

Pairs == {"pairs_zscore", "dyna_q_pairs"}

(* What the account will hold of a leg when its orders have been settled.   *)
OfLeg(k) == {n \in DOMAIN pending : pending[n].instrument_id = PairSymbols[k]}

(* The last target of leg k is q, or it holds q and has no target left.     *)
Aimed(k, q) ==
  /\ OfLeg(k) = {} => quantities[PairSymbols[k]] = q
  /\ \A n \in OfLeg(k) : (\A m \in OfLeg(k) : m <= n) => pending[n].target_quantity = q

Aiming == \E q \in Int : Aimed(1, q) /\ Aimed(2, -q)

PairInv ==
  strategy \in Pairs =>
    /\ \A n \in DOMAIN pending : pending[n].order_type = "target"
    /\ \/ response \in {<<>>, <<NoOp>>}
       \/ \E d \in {-1, 0, 1} :
            /\ response = BothLegs(d)
            /\ phase = "act" /\ acted >= 1 => Aimed(1, d)
            /\ phase = "act" /\ acted >= 2 => Aimed(2, -d)
    /\ phase = "settle" =>
         \A n \in DOMAIN pending \ unsettled : pending[n].instrument_id # event.instrument_id
    /\ \/ phase \in {"validate", "loop", "settle", "value"}
       \/ phase = "act" /\ (acted = 0 \/ response \in {<<>>, <<NoOp>>})
       => Aiming

LEMMA PairSymbolsAre ==
  /\ PairSymbols[1] \in Instruments /\ PairSymbols[2] \in Instruments
  /\ PairSymbols[1] # PairSymbols[2]
  BY StrategiesAssumption

LEMMA LegsAre ==
  ASSUME NEW d \in {-1, 0, 1}
  PROVE  /\ BothLegs(d) \notin {<<>>, <<NoOp>>} /\ Len(BothLegs(d)) = 2
         /\ BothLegs(d)[1] = TargetPosition(PairSymbols[1], d)
         /\ BothLegs(d)[2] = TargetPosition(PairSymbols[2], -d)
<1>1. BothLegs(d) = <<Leg(1, d), Leg(2, -d)>>
  BY DEF BothLegs
<1>2. Len(BothLegs(d)) = 2 /\ Len(<<NoOp>>) = 1 /\ Len(<<>>) = 0
  BY <1>1
<1>3. QED
  BY <1>1, <1>2 DEF Leg

(* A target that is settled leaves the account at the target.               *)
LEMMA TargetFilled ==
  ASSUME TypeInv, NEW n \in DOMAIN pending, pending[n].order_type = "target",
         NEW f, f = FillOf(n, pending[n]),
         quantities' = [quantities EXCEPT ![pending[n].instrument_id] = @ + Signed(f.side, f.quantity)]
  PROVE  /\ quantities'[pending[n].instrument_id] = pending[n].target_quantity
         /\ \A i \in Instruments : i # pending[n].instrument_id => quantities'[i] = quantities[i]
<1> DEFINE o == pending[n]
<1>1. o \in Order /\ quantities \in [Instruments -> Int]
  BY DEF TypeInv, TypeOK
<1>2. o.instrument_id \in Instruments /\ o.target_quantity \in Int /\ Delta(o) \in Int
      /\ Delta(o) = o.target_quantity - quantities[o.instrument_id]
      /\ quantities[o.instrument_id] \in Int
  BY <1>1 DEF Order, Delta
<1>3. f.side = (IF Delta(o) > 0 THEN "buy" ELSE "sell")
      /\ f.quantity = (IF Delta(o) > 0 THEN Delta(o) ELSE -Delta(o))
  BY DEF FillOf, FillSide, FillQuantity
<1>4. Signed(f.side, f.quantity) = Delta(o)
  BY <1>2, <1>3 DEF Signed
<1>5. quantities[o.instrument_id] + Delta(o) = o.target_quantity
  BY <1>2
<1>6. QED
  BY <1>1, <1>2, <1>4, <1>5

(* Settling the oldest order of a leg keeps what the leg aims at.           *)
LEMMA AimSettled ==
  ASSUME TypeInv, NEW k \in 1 .. 2, NEW q, Aimed(k, q), NEW n \in DOMAIN pending,
         pending' = Without(pending, {n}),
         n \in OfLeg(k) => /\ \A m \in OfLeg(k) : n <= m
                           /\ quantities'[PairSymbols[k]] = pending[n].target_quantity,
         n \notin OfLeg(k) => quantities'[PairSymbols[k]] = quantities[PairSymbols[k]]
  PROVE  Aimed(k, q)'
<1>1. /\ OfLeg(k)' = OfLeg(k) \ {n}
      /\ \A m \in OfLeg(k)' : pending'[m] = pending[m] /\ m \in DOMAIN pending
  BY DEF OfLeg, Without
<1>2. \A m \in DOMAIN pending : m \in Nat
  BY PendingIs
<1>3. CASE n \notin OfLeg(k)
  BY <1>1, <1>3 DEF Aimed
<1>4. CASE n \in OfLeg(k)
  <2>1. CASE OfLeg(k) = {n}
    <3>1. pending[n].target_quantity = q
      BY <1>2, <2>1 DEF Aimed
    <3>2. OfLeg(k)' = {}
      BY <1>1, <2>1
    <3>3. QED
      BY <1>4, <3>1, <3>2 DEF Aimed
  <2>2. CASE OfLeg(k) # {n}
    <3>1. OfLeg(k)' # {}
      BY <1>1, <1>4, <2>2
    <3>2. ASSUME NEW m \in OfLeg(k)', \A l \in OfLeg(k)' : l <= m
          PROVE  pending'[m].target_quantity = q
      <4>1. \A l \in OfLeg(k) : l <= m
        BY <1>1, <1>4, <3>2
      <4>2. QED
        BY <1>1, <3>2, <4>1 DEF Aimed
    <3>3. QED
      BY <3>1, <3>2 DEF Aimed
  <2>3. QED
    BY <2>1, <2>2
<1>5. QED
  BY <1>3, <1>4

(* A new target is what its leg aims at; the other leg is as it was.        *)
LEMMA AimAccepted ==
  ASSUME TypeInv, NEW k \in 1 .. 2, NEW q, Accept(TargetOrder(PairSymbols[k], q))
  PROVE  /\ Aimed(k, q)'
         /\ \A l \in 1 .. 2 : \A p : l # k /\ Aimed(l, p) => Aimed(l, p)'
<1> DEFINE o == TargetOrder(PairSymbols[k], q)
<1>1. PICK m : m = order_count + 1
  OBVIOUS
<1>2. /\ DOMAIN pending' = DOMAIN pending \cup {m} /\ pending'[m] = o /\ m \in Nat
      /\ \A n \in DOMAIN pending : pending'[n] = pending[n] /\ n < m
  BY <1>1, Joined
<1>3. o.instrument_id = PairSymbols[k] /\ o.target_quantity = q
  BY DEF TargetOrder
<1>4. quantities' = quantities
  BY DEF Accept, ActionDone, accountVars
<1> HIDE DEF o
<1>5. Aimed(k, q)'
  <2>1. m \in OfLeg(k)'
    BY <1>2, <1>3 DEF OfLeg
  <2>2. \A n \in OfLeg(k)' : (\A j \in OfLeg(k)' : j <= n) => n = m
    <3>1. \A n \in OfLeg(k)' : n = m \/ (n \in Nat /\ n < m)
      BY <1>2, PendingIs DEF OfLeg
    <3>2. QED
      BY <1>2, <2>1, <3>1
  <2>3. QED
    BY <1>2, <1>3, <2>1, <2>2 DEF Aimed
<1>6. ASSUME NEW l \in 1 .. 2, NEW p, l # k, Aimed(l, p) PROVE Aimed(l, p)'
  <2>1. PairSymbols[l] # PairSymbols[k]
    BY <1>6, PairSymbolsAre
  <2>2. OfLeg(l)' = OfLeg(l) /\ \A n \in OfLeg(l) : pending'[n] = pending[n]
    BY <1>2, <1>3, <2>1 DEF OfLeg
  <2>3. QED
    BY <1>4, <1>6, <2>2 DEF Aimed
<1>7. QED
  BY <1>5, <1>6

LEMMA AimKept ==
  ASSUME pending' = pending, quantities' = quantities
  PROVE  (\A k, q : Aimed(k, q) => Aimed(k, q)') /\ (Aiming => Aiming')
<1>1. \A k, q : Aimed(k, q) => Aimed(k, q)'
  BY DEF Aimed, OfLeg
<1>2. QED
  BY <1>1 DEF Aiming

(* The settlement of one order of the event's instrument.                   *)
LEMMA PairSettled ==
  ASSUME TypeInv, PairInv, strategy \in Pairs, strategyVars' = strategyVars,
         SettleSatisfied \/ SettleFilled
  PROVE  PairInv'
<1>1. PICK n : n = First(unsettled)
  OBVIOUS
<1>2. phase = "settle" /\ unsettled # {} /\ unsettled \in SUBSET Nat
      /\ unsettled \subseteq DOMAIN pending
  BY DEF SettleSatisfied, SettleFilled, TypeInv, TypeOK
<1>3. n \in unsettled /\ n \in DOMAIN pending /\ \A m \in unsettled : n <= m
  BY <1>1, <1>2, FirstIsLeast
<1>4. /\ unsettled' = unsettled \ {n} /\ pending' = Without(pending, {n})
      /\ phase' = "settle" /\ events' = events /\ event_index' = event_index
      /\ Executable(pending[n], event)
      /\ strategy' = strategy /\ response' = response
  BY <1>1, <1>2 DEF SettleSatisfied, SettleFilled, programVars, strategyVars
<1>5. pending[n].order_type = "target" /\ pending[n].instrument_id = event.instrument_id
  BY <1>3, <1>4 DEF PairInv, Executable
<1>6. pending[n] \in Order /\ quantities \in [Instruments -> Int]
  BY <1>3, PendingIs DEF TypeInv, TypeOK
<1>7. /\ quantities'[pending[n].instrument_id] = pending[n].target_quantity
      /\ \A i \in Instruments : i # pending[n].instrument_id => quantities'[i] = quantities[i]
  <2>1. CASE SettleSatisfied
    <3>1. Delta(pending[n]) = 0 /\ quantities' = quantities
      BY <1>1, <2>1 DEF SettleSatisfied, Satisfied, accountVars
    <3>2. quantities[pending[n].instrument_id] \in Int /\ pending[n].target_quantity \in Int
      BY <1>6 DEF Order
    <3>3. QED
      BY <3>1, <3>2 DEF Delta
  <2>2. CASE SettleFilled
    <3>1. PICK f : f = FillOf(n, pending[n])
      OBVIOUS
    <3>2. quantities' = [quantities EXCEPT ![pending[n].instrument_id] = @ + Signed(f.side, f.quantity)]
      BY <1>1, <2>2, <3>1 DEF SettleFilled
    <3>3. QED
      BY <1>3, <1>5, <3>1, <3>2, TargetFilled
  <2>3. QED
    BY <2>1, <2>2
<1>8. ASSUME NEW k \in 1 .. 2, NEW q, Aimed(k, q) PROVE Aimed(k, q)'
  <2>0. PairSymbols[k] \in Instruments
    BY PairSymbolsAre
  <2>1. ASSUME n \in OfLeg(k)
        PROVE  /\ \A m \in OfLeg(k) : n <= m
               /\ quantities'[PairSymbols[k]] = pending[n].target_quantity
    <3>1. pending[n].instrument_id = PairSymbols[k]
      BY <2>1 DEF OfLeg
    <3>2. OfLeg(k) \subseteq unsettled
      BY <1>2, <1>5, <3>1 DEF OfLeg, PairInv
    <3>3. QED
      BY <1>3, <1>7, <3>1, <3>2
  <2>2. ASSUME n \notin OfLeg(k)
        PROVE  quantities'[PairSymbols[k]] = quantities[PairSymbols[k]]
    <3>1. PairSymbols[k] # pending[n].instrument_id
      BY <1>3, <2>2 DEF OfLeg
    <3>2. QED
      BY <1>7, <2>0, <3>1
  <2>3. QED
    BY <1>3, <1>4, <1>8, <2>1, <2>2, AimSettled
<1>9. Aiming'
  <2>1. PICK q \in Int : Aimed(1, q) /\ Aimed(2, -q)
    BY <1>2 DEF PairInv, Aiming
  <2>2. Aimed(1, q)' /\ Aimed(2, -q)'
    BY <1>8, <2>1
  <2>3. QED
    BY <2>2 DEF Aiming
<1>10. /\ \A m \in DOMAIN pending' : pending'[m] = pending[m] /\ m \in DOMAIN pending
       /\ DOMAIN pending' \ unsettled' = DOMAIN pending \ unsettled
  BY <1>3, <1>4 DEF Without
<1>11. event' = event
  BY <1>4 DEF event
<1>12. \A m \in DOMAIN pending' : pending'[m].order_type = "target"
  BY <1>10 DEF PairInv
<1>13. \A m \in DOMAIN pending' \ unsettled' : pending'[m].instrument_id # event'.instrument_id
  BY <1>2, <1>10, <1>11 DEF PairInv
<1>14. \/ response' \in {<<>>, <<NoOp>>}
       \/ \E d \in {-1, 0, 1} : response' = BothLegs(d)'
  BY <1>4 DEF PairInv, BothLegs, Leg, TargetPosition
<1>15. QED
  BY <1>4, <1>9, <1>12, <1>13, <1>14 DEF PairInv

LEMMA PairBetween ==
  ASSUME TypeInv, PairInv, strategy \in Pairs, EngineStep
  PROVE  PairInv'
<1>1. /\ Between /\ phase # "act" /\ Shrinking /\ phase' # "act" /\ strategyVars' = strategyVars
      /\ strategy' = strategy /\ response' = response
      /\ phase' = "loop" => phase = "validate"
      /\ phase' = "validate" => phase = "validate"
  BY EngineStepIs, BetweenShrinks DEF strategyVars
<1>2. CASE SettleSatisfied \/ SettleFilled
  BY <1>1, <1>2, PairSettled
<1>3. \A m \in DOMAIN pending' : pending'[m].order_type = "target"
  BY <1>1 DEF PairInv, Shrinking
<1>4. \/ response' \in {<<>>, <<NoOp>>}
      \/ \E d \in {-1, 0, 1} : response' = BothLegs(d)'
  BY <1>1 DEF PairInv, BothLegs, Leg, TargetPosition
<1> DEFINE Apart == \A n \in DOMAIN pending \ unsettled : pending[n].instrument_id # event.instrument_id
<1>5. ASSUME phase' = "settle" => Apart',
             phase' \in {"validate", "loop", "settle", "value"} => Aiming'
      PROVE  PairInv'
  BY <1>1, <1>3, <1>4, <1>5 DEF PairInv
<1>6. phase \in {"validate", "loop", "settle", "value"} => Aiming
  BY DEF PairInv
<1>7. ASSUME pending' = pending, quantities' = quantities, phase' = "settle" => Apart',
             phase' \in {"validate", "loop", "settle", "value"} =>
               phase \in {"validate", "loop", "settle", "value"}
      PROVE  PairInv'
  BY <1>5, <1>6, <1>7, AimKept
<1>8. CASE SettleKept
  <2>1. /\ phase = "settle" /\ pending' = pending /\ quantities' = quantities
        /\ events' = events /\ event_index' = event_index
        /\ unsettled' = unsettled \ {First(unsettled)} /\ unsettled # {}
        /\ ~Executable(pending[First(unsettled)], event) /\ phase' = "settle"
    BY <1>8 DEF SettleKept, programVars, accountVars, orderVars
  <2>2. First(unsettled) \in unsettled /\ unsettled \subseteq DOMAIN pending
    BY <2>1, HeadOrder DEF TypeInv, TypeOK
  <2>3. pending[First(unsettled)].instrument_id # event.instrument_id
    BY <2>1, <2>2 DEF PairInv, Executable
  <2>4. Apart
    BY <2>1 DEF PairInv
  <2>5. event' = event
    BY <2>1 DEF event
  <2>6. Apart'
    BY <2>1, <2>3, <2>4, <2>5
  <2> HIDE DEF Apart
  <2>7. QED
    BY <1>7, <2>1, <2>6
<1>9. CASE BeginEvent
  <2>1. pending' = pending /\ quantities' = quantities /\ unsettled' = DOMAIN pending
        /\ phase = "loop"
    BY <1>9 DEF BeginEvent, accountVars, orderVars
  <2>2. Apart'
    BY <2>1
  <2> HIDE DEF Apart
  <2>3. QED
    BY <1>7, <2>1, <2>2
<1>10. CASE Start \/ EndSettlement \/ ValuePosition
  <2>1. pending' = pending /\ quantities' = quantities /\ phase' # "settle"
        /\ phase \in {"validate", "settle", "value"}
    BY <1>10 DEF Start, EndSettlement, ValuePosition, GoTo, accountVars, orderVars, programVars
  <2> HIDE DEF Apart
  <2>2. QED
    BY <1>7, <2>1
<1>11. CASE RejectEmptyTape \/ RejectDisorder \/ Finish \/ ExpireOrder \/ Report \/ Ended
  <2>1. phase' \in {"failed", "finish", "succeeded"}
    BY <1>11 DEF RejectEmptyTape, RejectDisorder, Fail, Finish, ExpireOrder, Report, Ended, GoTo,
                 programVars, vars
  <2> HIDE DEF Apart
  <2>2. QED
    BY <1>5, <2>1
<1>12. QED
  BY <1>1, <1>2, <1>8, <1>9, <1>10, <1>11 DEF Between, Settle

LEMMA PairAnswered ==
  ASSUME TypeInv, StrategyInv, CurrentInv, PairInv, strategy \in Pairs, ~Free, OnEvent
  PROVE  PairInv'
<1>1. PICK r \in Answers : response' = r.actions
  BY DEF OnEvent, Answers, manifest
<1>2. /\ phase = "value" /\ pending' = pending /\ phase' = "act" /\ acted' = 0
      /\ strategy' = strategy /\ quantities' = quantities
  BY DEF OnEvent, Called, TakeSnapshot, GoTo, orderVars, accountVars
<1>3. r.actions = <<NoOp>> \/ \E d \in {-1, 0, 1} : r.actions = BothLegs(d)
  BY <1>1, <1>2, AnswerIs DEF Pairs
<1>4. Aiming'
  BY <1>2, AimKept DEF PairInv
<1>5. response' = <<NoOp>> \/ \E d \in {-1, 0, 1} : response' = BothLegs(d)'
  BY <1>1, <1>3 DEF BothLegs, Leg, TargetPosition
<1>6. \A n \in DOMAIN pending' : pending'[n].order_type = "target"
  BY <1>2 DEF PairInv
<1>7. ~(acted' >= 1) /\ ~(acted' >= 2)
  BY <1>2
<1>8. QED
  BY <1>2, <1>4, <1>5, <1>6, <1>7 DEF PairInv

LEMMA PairFollowed ==
  ASSUME TypeInv, StrategyInv, FitInv, PairInv, strategy \in Pairs, Follow
  PROVE  PairInv'
<1>1. PICK a \in Action : a = response[acted + 1] /\ Fit(a) /\ Move(a)
  BY FollowMoves
<1>2. /\ response' = response /\ strategy' = strategy /\ phase = "act" /\ phase' = "act"
      /\ acted' = acted + 1 /\ acted \in Nat /\ acted + 1 \in 1 .. Len(response) /\ ActionDone
  BY FollowMoves DEF strategyVars
<1>3. quantities' = quantities
  BY <1>2 DEF ActionDone, accountVars
<1>4. CASE response \in {<<>>, <<NoOp>>}
  <2>1. a = NoOp
    BY <1>1, <1>2, <1>4
  <2>2. pending' = pending
    BY <1>1, <2>1 DEF Move, NoOp
  <2>3. Aiming'
    BY <1>2, <1>3, <1>4, <2>2, AimKept DEF PairInv
  <2>4. QED
    BY <1>2, <1>4, <2>2, <2>3 DEF PairInv
<1>5. ASSUME NEW d \in {-1, 0, 1}, response = BothLegs(d), acted >= 1 => Aimed(1, d)
      PROVE  PairInv'
  <2>0. /\ Len(response) = 2 /\ response \notin {<<>>, <<NoOp>>}
        /\ response[1] = TargetPosition(PairSymbols[1], d)
        /\ response[2] = TargetPosition(PairSymbols[2], -d)
    BY <1>5, LegsAre
  <2>1. response' = BothLegs(d)'
    BY <1>2, <1>5 DEF BothLegs, Leg, TargetPosition
  <2>2. \A n \in DOMAIN pending : pending[n].order_type = "target"
    BY DEF PairInv
  <2>3. ASSUME NEW k \in 1 .. 2, NEW q, a = TargetPosition(PairSymbols[k], q)
        PROVE  /\ Aimed(k, q)'
               /\ \A l \in 1 .. 2 : \A p : l # k /\ Aimed(l, p) => Aimed(l, p)'
               /\ \A n \in DOMAIN pending' : pending'[n].order_type = "target"
    <3>1. Accept(TargetOrder(PairSymbols[k], q))
      BY <1>1, <2>3 DEF Move, TargetPosition
    <3>2. TargetOrder(PairSymbols[k], q).order_type = "target"
      BY DEF TargetOrder
    <3>3. \A n \in DOMAIN pending' : pending'[n].order_type = "target"
      BY <2>2, <3>1, <3>2, Joined
    <3>4. QED
      BY <3>1, <3>3, AimAccepted
  <2>4. CASE acted = 0
    <3>1. Aimed(1, d)' /\ \A n \in DOMAIN pending' : pending'[n].order_type = "target"
      BY <1>1, <2>0, <2>3, <2>4
    <3>2. ~(acted' >= 2) /\ acted' # 0
      BY <1>2, <2>4
    <3>3. QED
      BY <1>2, <2>0, <2>1, <3>1, <3>2 DEF PairInv
  <2>5. CASE acted = 1
    <3>1. Aimed(2, -d)' /\ \A n \in DOMAIN pending' : pending'[n].order_type = "target"
      BY <1>1, <2>0, <2>3, <2>5
    <3>2. Aimed(1, d)'
      BY <1>1, <1>5, <2>0, <2>3, <2>5
    <3>3. acted' # 0
      BY <1>2, <2>5
    <3>4. QED
      BY <1>2, <2>0, <2>1, <3>1, <3>2, <3>3 DEF PairInv
  <2>6. QED
    BY <1>2, <2>0, <2>4, <2>5
<1>6. QED
  BY <1>2, <1>4, <1>5 DEF PairInv

LEMMA PairStep ==
  ASSUME TypeInv, StrategyInv, CurrentInv, ~Free, FitInv, PairInv, [StrategiesNext]_allVars
  PROVE  PairInv'
<1>0. strategy' = strategy
  BY StrategyStep
<1> SUFFICES ASSUME strategy \in Pairs PROVE PairInv'
  BY <1>0 DEF PairInv, Pairs
<1>1. CASE EngineStep
  BY <1>1, PairBetween
<1>2. CASE OnEvent
  BY <1>2, PairAnswered
<1>3. CASE Follow
  BY <1>3, PairFollowed
<1>4. CASE AllFollowed
  <2>1. /\ response' = response /\ pending' = pending /\ quantities' = quantities
        /\ phase = "act" /\ phase' = "loop" /\ acted = Len(response)
    BY <1>4 DEF AllFollowed, EndEvent, GoTo, orderVars, accountVars, strategyVars
  <2>2. Aiming
    <3>1. CASE response \in {<<>>, <<NoOp>>}
      BY <2>1, <3>1 DEF PairInv
    <3>2. CASE response \notin {<<>>, <<NoOp>>}
      <4>1. PICK d \in {-1, 0, 1} : /\ response = BothLegs(d)
                                    /\ acted >= 1 => Aimed(1, d)
                                    /\ acted >= 2 => Aimed(2, -d)
        BY <2>1, <3>2 DEF PairInv
      <4>2. acted = 2
        BY <2>1, <4>1, LegsAre
      <4>3. Aimed(1, d) /\ Aimed(2, -d) /\ d \in Int
        BY <4>1, <4>2
      <4>4. QED
        BY <4>3 DEF Aiming
    <3>3. QED
      BY <3>1, <3>2
  <2>3. Aiming'
    BY <2>1, <2>2, AimKept
  <2>4. \/ response' \in {<<>>, <<NoOp>>}
        \/ \E d \in {-1, 0, 1} : response' = BothLegs(d)'
    BY <2>1 DEF PairInv, BothLegs, Leg, TargetPosition
  <2>5. \A m \in DOMAIN pending' : pending'[m].order_type = "target"
    BY <2>1 DEF PairInv
  <2>6. QED
    BY <2>1, <2>3, <2>4, <2>5 DEF PairInv
<1>5. CASE UNCHANGED allVars
  <2>1. /\ response' = response /\ pending' = pending /\ quantities' = quantities
        /\ phase' = phase /\ acted' = acted /\ unsettled' = unsettled
        /\ events' = events /\ event_index' = event_index
    BY <1>5 DEF allVars, vars, programVars, orderVars, accountVars, strategyVars
  <2>2. event' = event
    BY <2>1 DEF event
  <2>3. (\A k, q : Aimed(k, q) => Aimed(k, q)') /\ (Aiming => Aiming')
    BY <2>1, AimKept
  <2>4. \A d : BothLegs(d)' = BothLegs(d)
    BY DEF BothLegs, Leg, TargetPosition
  <2>5. QED
    BY <1>0, <2>1, <2>2, <2>3, <2>4 DEF PairInv
<1>6. CASE ModelRaises
  <2>1. phase' = "failed" /\ response' = response /\ pending' = pending
    BY <1>6, ModelRaisesIs DEF strategyVars
  <2>2. \A d : BothLegs(d)' = BothLegs(d)
    BY DEF BothLegs, Leg, TargetPosition
  <2>3. QED
    BY <1>0, <2>1, <2>2 DEF PairInv
<1>7. QED
  BY <1>1, <1>2, <1>3, <1>4, <1>5, <1>6, BundledStep

LEMMA HedgedFollows ==
  ASSUME TypeInv, PairInv
  PROVE  Hedged
<1> SUFFICES ASSUME strategy \in Pairs, phase = "loop", pending = <<>>
             PROVE  quantities[PairSymbols[1]] = -quantities[PairSymbols[2]]
  BY DEF Hedged, Pairs
<1>1. PICK q \in Int : Aimed(1, q) /\ Aimed(2, -q)
  BY DEF PairInv, Aiming
<1>2. OfLeg(1) = {} /\ OfLeg(2) = {}
  BY DEF OfLeg
<1>3. quantities[PairSymbols[1]] = q /\ quantities[PairSymbols[2]] = -q
  BY <1>1, <1>2 DEF Aimed
<1>4. QED
  BY <1>3

-----------------------------------------------------------------------------
(* TWAP.  An order that has been sent waits for the next event of its       *)
(* instrument, so that slices are fills or orders, and none is lost.        *)

LEMMA SumConstant ==
  ASSUME NEW S, IsFiniteSet(S), NEW c \in Nat
  PROVE  SumFunction([x \in S |-> c]) = Cardinality(S) * c
<1> DEFINE g == [x \in S |-> c]
           G == [T \in SUBSET S |-> Cardinality(T) * c]
<1>1. \A T \in SUBSET S : IsFiniteSet(T) /\ Cardinality(T) \in Nat
  BY FS_Subset, FS_CardinalityType
<1>2. G \in [SUBSET S -> Int]
  BY <1>1
<1>3. G[{}] = 0
  BY FS_EmptySet
<1>4. ASSUME NEW T \in SUBSET S, NEW x \in S, x \notin T
      PROVE  G[T \cup {x}] = G[T] + g[x]
  <2>1. Cardinality(T \cup {x}) = Cardinality(T) + 1
    BY <1>1, <1>4, FS_AddElement
  <2>2. (Cardinality(T) + 1) * c = Cardinality(T) * c + c
    BY <1>1
  <2>3. QED
    BY <2>1, <2>2
<1>5. Additive(G, g, S)
  BY <1>2, <1>3, <1>4 DEF Additive
<1>6. g \in [S -> Int]
  OBVIOUS
<1>7. SumFunction(g) = G[S]
  BY <1>5, <1>6, SumIs
<1>8. QED
  BY <1>7

-----------------------------------------------------------------------------
(* The bars among the first events, counted.                                *)
LEMMA BarsAre ==
  ASSUME NEW n \in Nat
  PROVE  /\ Bars(n) \subseteq 1 .. n /\ IsFiniteSet(Bars(n)) /\ Cardinality(Bars(n)) \in Nat
         /\ n + 1 \in Bars(n + 1) =>
              /\ Bars(n + 1) = Bars(n) \cup {n + 1}
              /\ Cardinality(Bars(n + 1)) = Cardinality(Bars(n)) + 1
         /\ n + 1 \notin Bars(n + 1) => Bars(n + 1) = Bars(n)
<1>1. Bars(n) \subseteq 1 .. n
  BY DEF Bars
<1>2. IsFiniteSet(Bars(n))
  BY <1>1, FS_Interval, FS_Subset
<1>3. Cardinality(Bars(n)) \in Nat
  BY <1>2, FS_CardinalityType
<1>4. 1 .. n + 1 = (1 .. n) \cup {n + 1} /\ n + 1 \notin Bars(n)
  BY <1>1
<1>5. n + 1 \in Bars(n + 1) => Bars(n + 1) = Bars(n) \cup {n + 1}
  BY <1>4 DEF Bars
<1>6. n + 1 \notin Bars(n + 1) => Bars(n + 1) = Bars(n)
  BY <1>4 DEF Bars
<1>7. QED
  BY <1>1, <1>2, <1>3, <1>4, <1>5, <1>6, FS_AddElement

LEMMA BarsGrow ==
  ASSUME NEW m \in Nat, NEW n \in Nat, m <= n
  PROVE  Bars(m) \subseteq Bars(n) /\ Cardinality(Bars(m)) <= Cardinality(Bars(n))
<1>1. Bars(m) \subseteq Bars(n)
  BY DEF Bars
<1>2. QED
  BY <1>1, BarsAre, FS_Subset

(* A bar that is one of the first Slices is among any that many.            *)
LEMMA BarIsEarly ==
  ASSUME NEW m \in Nat, Cardinality(Bars(m)) = Slices, NEW n \in Nat, NEW k \in Bars(n),
         Cardinality(Bars(k)) <= Slices
  PROVE  k \in Bars(m)
<1>1. k \in Nat \ {0} /\ events[k].payload.kind = "bar"
  BY BarsAre DEF Bars
<1>2. CASE k <= m
  BY <1>1, <1>2 DEF Bars
<1>3. CASE ~(k <= m)
  <2>1. PICK j \in Nat : k = j + 1
    BY <1>1, k - 1 \in Nat
  <2>2. m <= j
    BY <1>3, <2>1
  <2>3. k \in Bars(k)
    BY <1>1 DEF Bars
  <2>4. Cardinality(Bars(k)) = Cardinality(Bars(j)) + 1
    BY <2>1, <2>3, BarsAre
  <2>5. Cardinality(Bars(m)) <= Cardinality(Bars(j))
    BY <2>2, BarsGrow
  <2>6. QED
    BY <2>1, <2>4, <2>5, BarsAre, StrategiesAssumption
<1>4. QED
  BY <1>2, <1>3

-----------------------------------------------------------------------------
(* The slices that a TWAP run has sent after n events.                      *)
Sliced(n) == IF Cardinality(Bars(n)) < Slices THEN Cardinality(Bars(n)) ELSE Slices

LEMMA SlicedNext ==
  ASSUME NEW n \in Nat
  PROVE  /\ Sliced(n) \in 0 .. Slices
         /\ n + 1 \notin Bars(n + 1) => Sliced(n + 1) = Sliced(n)
         /\ n + 1 \in Bars(n + 1) =>
              IF Sliced(n) >= Slices THEN Sliced(n + 1) = Sliced(n)
              ELSE Sliced(n + 1) = Sliced(n) + 1 /\ Cardinality(Bars(n + 1)) <= Slices
<1>1. PICK b \in Nat : b = Cardinality(Bars(n))
  BY BarsAre
<1>2. Slices \in Nat \ {0}
  BY StrategiesAssumption
<1>3. Sliced(n) = (IF b < Slices THEN b ELSE Slices)
  BY <1>1 DEF Sliced
<1>4. ASSUME n + 1 \in Bars(n + 1)
      PROVE  IF Sliced(n) >= Slices THEN Sliced(n + 1) = Sliced(n)
             ELSE Sliced(n + 1) = Sliced(n) + 1 /\ Cardinality(Bars(n + 1)) <= Slices
  <2>1. Cardinality(Bars(n + 1)) = b + 1
    BY <1>1, <1>4, BarsAre
  <2>2. Sliced(n + 1) = (IF b + 1 < Slices THEN b + 1 ELSE Slices)
    BY <2>1 DEF Sliced
  <2>3. QED
    BY <1>2, <1>3, <2>1, <2>2
<1>5. n + 1 \notin Bars(n + 1) => Sliced(n + 1) = Sliced(n)
  BY BarsAre DEF Sliced
<1>6. QED
  BY <1>2, <1>3, <1>4, <1>5

(* A slice that waits for the first event of its instrument.                *)
Awaits(o, n) ==
  /\ o.order_type = "market" /\ o.side = "buy" /\ o.quantity = SliceQuantity
  /\ o.submitted_at \in Bars(n) /\ Cardinality(Bars(o.submitted_at)) <= Slices
  /\ o.instrument_id = events[o.submitted_at].instrument_id
  /\ \A m \in o.submitted_at + 1 .. n : events[m].instrument_id # o.instrument_id

LEMMA AwaitsNext ==
  ASSUME NEW n \in Nat, NEW o, Awaits(o, n), events[n + 1].instrument_id # o.instrument_id
  PROVE  Awaits(o, n + 1)
<1>1. o.submitted_at \in Bars(n + 1) /\ o.submitted_at \in Nat
  BY BarsAre, BarsGrow, n <= n + 1 DEF Awaits
<1>2. \A m \in o.submitted_at + 1 .. n + 1 : m \in o.submitted_at + 1 .. n \/ m = n + 1
  BY <1>1
<1>3. \A m \in o.submitted_at + 1 .. n + 1 : events[m].instrument_id # o.instrument_id
  BY <1>2 DEF Awaits
<1>4. QED
  BY <1>1, <1>3 DEF Awaits

Seen(n) == IF n \in unsettled THEN event_index - 1 ELSE event_index

Answered == IF phase \in {"settle", "value"} THEN event_index - 1 ELSE event_index

Slicing == phase = "act" /\ acted = 0 /\ response \notin {<<>>, <<NoOp>>}

Served == \E n \in DOMAIN events : Cardinality(Bars(n)) = Slices /\ Bars(n) \subseteq Followed

AllAwait == \A n \in DOMAIN pending : Awaits(pending[n], Seen(n))

(* The counter of TWAP is the number of bars it has been given, to Slices.  *)
AllCounted == memory.counter = Sliced(Answered)

TwapInv ==
  strategy = "twap_execution" =>
    /\ \A n \in DOMAIN fills : fills[n].quantity = SliceQuantity
    /\ AllAwait /\ AllCounted
    /\ IF phase \in {"finish", "succeeded"}
       THEN Len(fills) <= Slices /\ (Served => Len(fills) = Slices)
       ELSE Len(fills) + Cardinality(DOMAIN pending) + (IF Slicing THEN 1 ELSE 0) = memory.counter
    /\ response \notin {<<>>, <<NoOp>>} =>
         /\ Len(response) = 1
         /\ Slicing => /\ response[1] = SubmitOrder(memory.counter, "buy", "market", SliceQuantity, 0)
                       /\ event_index \in Bars(event_index)
                       /\ Cardinality(Bars(event_index)) <= Slices

(* What the counts of a TWAP run are made of does not change with the list. *)
LEMMA TapeKept ==
  ASSUME events' = events
  PROVE  /\ \A n : Bars(n)' = Bars(n) /\ Sliced(n)' = Sliced(n)
         /\ Served' <=> Served
<1>1. \A n : Bars(n)' = Bars(n)
  BY DEF Bars
<1>2. \A n : Sliced(n)' = Sliced(n)
  BY <1>1 DEF Sliced
<1>3. Served' <=> Served
  BY <1>1 DEF Served, Followed
<1>4. QED
  BY <1>1, <1>2, <1>3

LEMMA CountKept ==
  ASSUME AllCounted, events' = events, memory' = memory, Sliced(Answered') = Sliced(Answered)
  PROVE  AllCounted'
<1>1. PICK n : n = Answered'
  OBVIOUS
<1>2. Sliced(n)' = Sliced(n)
  BY TapeKept
<1>3. memory'.counter = Sliced(n)'
  BY <1>1, <1>2 DEF AllCounted
<1>4. QED
  BY <1>1, <1>3 DEF AllCounted, Sliced, Bars

LEMMA AwaitsKept ==
  ASSUME events' = events, NEW m \in DOMAIN pending', NEW o, NEW n, Awaits(o, n),
         pending'[m] = o, Seen(m)' = n
  PROVE  Awaits(pending[m], Seen(m))'
  BY DEF Awaits, Bars

LEMMA ListAwaits ==
  ASSUME AllAwait, events' = events,
         \A m \in DOMAIN pending' : /\ m \in DOMAIN pending /\ pending'[m] = pending[m]
                                   /\ Seen(m)' = Seen(m)
  PROVE  AllAwait'
<1>1. ASSUME NEW m \in DOMAIN pending' PROVE Awaits(pending[m], Seen(m))'
  <2>1. PICK o, n : o = pending[m] /\ n = Seen(m)
    OBVIOUS
  <2>2. Awaits(o, n)
    BY <1>1, <2>1 DEF AllAwait
  <2>3. QED
    BY <1>1, <2>1, <2>2, AwaitsKept
<1>2. QED
  BY <1>1 DEF AllAwait

LEMMA ListIsFinite ==
  ASSUME TypeInv
  PROVE  /\ IsFiniteSet(DOMAIN pending) /\ Cardinality(DOMAIN pending) \in Nat
         /\ Len(fills) \in Nat /\ DOMAIN fills = 1 .. Len(fills)
         /\ Len(events) \in Nat /\ DOMAIN events = 1 .. Len(events) /\ event_index \in Nat
         /\ phase \in {"settle", "value", "act"} => event_index >= 1
         /\ phase # "settle" => unsettled = {}
<1>1. DOMAIN pending \subseteq 1 .. order_count /\ order_count \in Nat
  BY DEF TypeInv, TypeOK
<1>2. IsFiniteSet(DOMAIN pending)
  <2>1. PICK c \in Nat : c = order_count
    BY <1>1
  <2>2. IsFiniteSet(1 .. c) /\ DOMAIN pending \in SUBSET (1 .. c)
    BY <1>1, <2>1, FS_Interval
  <2>3. QED
    BY <2>2, FS_Subset
<1>3. Cardinality(DOMAIN pending) \in Nat
  BY <1>2, FS_CardinalityType
<1>4. Len(fills) \in Nat /\ DOMAIN fills = 1 .. Len(fills)
  BY LenProperties DEF TypeInv, TypeOK
<1>5. events \in Seq(MarketEvent)
  BY ConstantsAssumption DEF TypeInv, TypeOK
<1>6. Len(events) \in Nat /\ DOMAIN events = 1 .. Len(events)
  BY <1>5, LenProperties
<1>7. QED
  BY <1>2, <1>3, <1>4, <1>6 DEF TypeInv, TypeOK, LoopInv

(* A slice is filled, in whole, and leaves the list.                        *)
LEMMA SliceFilled ==
  ASSUME TypeInv, TwapInv, strategy = "twap_execution", EngineStep,
         SettleSatisfied \/ SettleFilled
  PROVE  TwapInv'
<1>1. PICK n : n = First(unsettled)
  OBVIOUS
<1>2. phase = "settle" /\ unsettled # {} /\ Executable(pending[n], event)
  BY <1>1 DEF SettleSatisfied, SettleFilled
<1>3. n \in unsettled /\ n \in DOMAIN pending /\ pending[n] \in Order /\ n \in Nat
  BY <1>1, <1>2, HeadOrder DEF TypeInv, TypeOK
<1>4. pending[n].order_type = "market" /\ pending[n].quantity = SliceQuantity
  BY <1>3 DEF TwapInv, AllAwait, Awaits
<1>5. SettleFilled /\ ~Satisfied(pending[n])
  BY <1>1, <1>4 DEF SettleSatisfied, Satisfied
<1>6. PICK f : f = FillOf(n, pending[n])
  OBVIOUS
<1>7. /\ unsettled' = unsettled \ {n} /\ pending' = Without(pending, {n})
      /\ fills' = Append(fills, f)
      /\ phase' = "settle" /\ events' = events /\ event_index' = event_index
  BY <1>1, <1>2, <1>5, <1>6 DEF SettleFilled, programVars
<1>8. strategy' = strategy /\ memory' = memory /\ response' = response
  BY EngineStepIs DEF strategyVars
<1>9. f.quantity = SliceQuantity
  BY <1>4, <1>6 DEF FillOf, FillQuantity
<1>10. fills \in Seq(Fill) /\ f \in Fill
  BY <1>2, <1>3, <1>5, <1>6, FillType DEF TypeInv, TypeOK
<1>11. /\ Len(fills') = Len(fills) + 1
       /\ \A j \in DOMAIN fills' : fills'[j].quantity = SliceQuantity
  <2>1. /\ Len(fills') = Len(fills) + 1 /\ fills'[Len(fills) + 1] = f
        /\ \A j \in 1 .. Len(fills) : fills'[j] = fills[j]
    BY <1>7, <1>10, AppendProperties
  <2>2. DOMAIN fills' = 1 .. Len(fills) + 1
    BY <1>7, <1>10, <2>1, AppendProperties, LenProperties
  <2>3. DOMAIN fills = 1 .. Len(fills) /\ Len(fills) \in Nat
    BY ListIsFinite
  <2>4. \A j \in DOMAIN fills' : j \in 1 .. Len(fills) \/ j = Len(fills) + 1
    BY <2>2, <2>3
  <2>5. QED
    BY <1>9, <2>1, <2>3, <2>4 DEF TwapInv
<1>12. /\ DOMAIN pending' = DOMAIN pending \ {n}
       /\ \A m \in DOMAIN pending' : pending'[m] = pending[m]
  BY <1>7 DEF Without
<1>13. Cardinality(DOMAIN pending') = Cardinality(DOMAIN pending) - 1
  <2>1. PICK S : S = DOMAIN pending
    OBVIOUS
  <2>2. IsFiniteSet(S) /\ n \in S
    BY <1>3, <2>1, ListIsFinite
  <2>3. Cardinality(S \ {n}) = Cardinality(S) - 1
    BY <2>2, FS_RemoveElement
  <2>4. QED
    BY <1>12, <2>1, <2>3
<1>14. AllAwait'
  <2>1. \A m \in DOMAIN pending' : Seen(m)' = Seen(m)
    BY <1>7, <1>12 DEF Seen
  <2>2. QED
    BY <1>7, <1>12, <2>1, ListAwaits DEF TwapInv
<1>16. Answered' = Answered /\ ~Slicing /\ ~Slicing'
  BY <1>2, <1>7 DEF Answered, Slicing
<1>17. AllCounted'
  BY <1>7, <1>8, <1>16, CountKept DEF TwapInv
<1>18. Len(fills) + Cardinality(DOMAIN pending) = memory.counter
  BY <1>2, <1>16, ListIsFinite DEF TwapInv
<1>19. Len(fills') + Cardinality(DOMAIN pending') + 0 = memory'.counter
  BY <1>8, <1>11, <1>13, <1>18, ListIsFinite
<1>20. response' \notin {<<>>, <<NoOp>>} => Len(response') = 1
  BY <1>8 DEF TwapInv
<1>21. QED
  BY <1>7, <1>11, <1>14, <1>16, <1>17, <1>19, <1>20 DEF TwapInv

(* The parts of TwapInv that a step leaves alone.                           *)
LEMMA TwapKept ==
  ASSUME TwapInv, strategy = "twap_execution", AllAwait', AllCounted',
         fills' = fills, memory' = memory, response' = response,
         ~Slicing, ~Slicing',
         IF phase' \in {"finish", "succeeded"}
         THEN Len(fills) <= Slices /\ (Served' => Len(fills) = Slices)
         ELSE /\ phase \notin {"finish", "succeeded"}
              /\ Cardinality(DOMAIN pending') = Cardinality(DOMAIN pending)
  PROVE  TwapInv'
<1>1. \A n \in DOMAIN fills' : fills'[n].quantity = SliceQuantity
  BY DEF TwapInv
<1>2. response' \notin {<<>>, <<NoOp>>} => Len(response') = 1
  BY DEF TwapInv
<1>3. phase \notin {"finish", "succeeded"} =>
        Len(fills) + Cardinality(DOMAIN pending) + 0 = memory.counter
  BY DEF TwapInv
<1>4. QED
  BY <1>1, <1>2, <1>3 DEF TwapInv

(* Every slice that must be followed by an event of its instrument is filled*)
(* when the events are used up.                                             *)
LEMMA AllSlicesFilled ==
  ASSUME TypeInv, TwapInv, strategy = "twap_execution", Finish
  PROVE  Len(fills) <= Slices /\ (Served => Len(fills) = Slices)
<1>1. phase = "loop" /\ event_index = Len(events) /\ unsettled = {} /\ ~Slicing
  BY ListIsFinite DEF Finish, Slicing
<1>2. PICK e \in Nat : e = event_index /\ e = Len(events) /\ DOMAIN events = 1 .. e
  BY <1>1, ListIsFinite
<1>3. memory.counter = Sliced(e)
  BY <1>1, <1>2 DEF TwapInv, AllCounted, Answered
<1>4. Len(fills) + Cardinality(DOMAIN pending) = Sliced(e)
  BY <1>1, <1>3, ListIsFinite DEF TwapInv
<1>5. Len(fills) <= Slices
  BY <1>4, SlicedNext, ListIsFinite, StrategiesAssumption
<1>6. ASSUME Served PROVE Len(fills) = Slices
  <2>1. PICK m \in 1 .. e : Cardinality(Bars(m)) = Slices /\ Bars(m) \subseteq Followed
    BY <1>2, <1>6 DEF Served
  <2>2. Sliced(e) = Slices
    <3>1. Cardinality(Bars(m)) <= Cardinality(Bars(e)) /\ Cardinality(Bars(e)) \in Nat
      BY BarsGrow, BarsAre
    <3>2. QED
      BY <2>1, <3>1, StrategiesAssumption DEF Sliced
  <2>3. ASSUME NEW n \in DOMAIN pending PROVE FALSE
    <3>1. PICK o : o = pending[n]
      OBVIOUS
    <3>2. Awaits(o, e)
      BY <1>1, <1>2, <2>3, <3>1 DEF TwapInv, AllAwait, Seen
    <3>3. o.submitted_at \in Followed
      BY <2>1, <3>2, BarIsEarly DEF Awaits
    <3>4. PICK l \in 1 .. e : l > o.submitted_at /\ events[l].instrument_id = events[o.submitted_at].instrument_id
      BY <1>2, <3>3 DEF Followed
    <3>5. o.submitted_at \in Nat
      BY <3>2, BarsAre DEF Awaits
    <3>6. l \in o.submitted_at + 1 .. e
      BY <3>4, <3>5
    <3>7. QED
      BY <3>2, <3>4, <3>6 DEF Awaits
  <2>4. Cardinality(DOMAIN pending) = 0
    <3>1. DOMAIN pending = {}
      BY <2>3
    <3>2. Cardinality({}) = 0
      BY FS_EmptySet
    <3>3. QED
      BY <3>1, <3>2
  <2>5. QED
    BY <1>4, <2>2, <2>4, ListIsFinite
<1>7. QED
  BY <1>5, <1>6

LEMMA TwapBetween ==
  ASSUME TypeInv, TwapInv, strategy = "twap_execution", EngineStep
  PROVE  TwapInv'
<1>1. /\ Between /\ phase # "act" /\ phase' # "act"
      /\ events' = events /\ strategy' = strategy /\ memory' = memory /\ response' = response
  BY EngineStepIs, BetweenShrinks DEF strategyVars
<1>2. ~Slicing /\ ~Slicing' /\ AllAwait /\ AllCounted
  BY <1>1 DEF Slicing, TwapInv
<1>3. CASE SettleSatisfied \/ SettleFilled
  BY <1>3, SliceFilled
<1>4. ASSUME pending' = pending, fills' = fills, event_index' = event_index,
             unsettled' = unsettled,
             \/ phase' \in {"settle", "value"} /\ phase \in {"settle", "value"}
             \/ phase' \notin {"settle", "value", "finish", "succeeded"}
                  /\ phase \notin {"settle", "value", "finish", "succeeded"}
      PROVE  TwapInv'
  <2>1. Answered' = Answered /\ \A m : Seen(m)' = Seen(m)
    BY <1>4 DEF Answered, Seen
  <2>2. AllCounted'
    BY <1>1, <1>2, <2>1, CountKept
  <2>3. AllAwait'
    BY <1>1, <1>2, <1>4, <2>1, ListAwaits
  <2>4. QED
    BY <1>1, <1>2, <1>4, <2>2, <2>3, TwapKept
<1>5. CASE RejectEmptyTape \/ RejectDisorder \/ Start
  <2>1. /\ pending' = pending /\ fills' = fills /\ event_index' = event_index
        /\ unsettled' = unsettled /\ phase' \in {"failed", "loop"} /\ phase = "validate"
    BY <1>5 DEF RejectEmptyTape, RejectDisorder, Start, Fail, GoTo, orderVars, accountVars
  <2>2. QED
    BY <1>4, <2>1
<1>6. CASE EndSettlement \/ ValuePosition
  <2>1. /\ pending' = pending /\ fills' = fills /\ event_index' = event_index
        /\ unsettled' = unsettled /\ phase' = "value" /\ phase \in {"settle", "value"}
    BY <1>6 DEF EndSettlement, ValuePosition, GoTo, orderVars, accountVars, programVars
  <2>2. QED
    BY <1>4, <2>1
<1>7. CASE BeginEvent
  <2>1. /\ pending' = pending /\ fills' = fills /\ event_index' = event_index + 1
        /\ unsettled' = DOMAIN pending /\ phase' = "settle" /\ phase = "loop" /\ unsettled = {}
    BY <1>7, ListIsFinite DEF BeginEvent, GoTo, orderVars, accountVars
  <2>2. Answered' = Answered /\ \A m \in DOMAIN pending : Seen(m)' = Seen(m)
    BY <2>1, ListIsFinite DEF Answered, Seen
  <2>3. AllCounted'
    BY <1>1, <1>2, <2>2, CountKept
  <2>4. AllAwait'
    BY <1>1, <1>2, <2>1, <2>2, ListAwaits
  <2>5. QED
    BY <1>1, <1>2, <2>1, <2>3, <2>4, TwapKept
<1>8. CASE SettleKept
  <2>1. /\ pending' = pending /\ fills' = fills /\ event_index' = event_index
        /\ unsettled' = unsettled \ {First(unsettled)} /\ unsettled # {}
        /\ ~Executable(pending[First(unsettled)], event)
        /\ phase' = "settle" /\ phase = "settle"
    BY <1>8 DEF SettleKept, programVars, orderVars, accountVars
  <2>2. PICK e \in Nat : event_index = e + 1
    BY <2>1, ListIsFinite, event_index - 1 \in Nat
  <2>3. Answered' = Answered
    BY <2>1 DEF Answered
  <2>4. AllCounted'
    BY <1>1, <1>2, <2>3, CountKept
  <2>5. ASSUME NEW m \in DOMAIN pending' PROVE Awaits(pending[m], Seen(m))'
    <3>1. PICK o : o = pending[m]
      OBVIOUS
    <3>2. Awaits(o, Seen(m))
      BY <1>2, <2>1, <2>5, <3>1 DEF AllAwait
    <3>3. CASE m # First(unsettled)
      <4>1. PICK n : n = Seen(m)
        OBVIOUS
      <4>2. Seen(m)' = n
        BY <2>1, <3>3, <4>1 DEF Seen
      <4>3. QED
        BY <1>1, <2>1, <2>5, <3>1, <3>2, <4>1, <4>2, AwaitsKept
    <3>4. CASE m = First(unsettled)
      <4>1. m \in unsettled
        BY <2>1, <3>4, HeadOrder
      <4>2. Awaits(o, e) /\ Seen(m)' = e + 1
        BY <2>1, <2>2, <3>2, <3>4, <4>1 DEF Seen
      <4>3. o.instrument_id # events[e + 1].instrument_id
        BY <2>1, <2>2, <3>1, <3>4, <4>2 DEF Executable, Awaits, event
      <4>4. Awaits(o, e + 1)
        BY <4>2, <4>3, AwaitsNext
      <4>5. QED
        BY <1>1, <2>1, <2>5, <3>1, <4>2, <4>4, AwaitsKept
    <3>5. QED
      BY <3>3, <3>4
  <2>6. AllAwait'
    BY <2>5 DEF AllAwait
  <2>7. QED
    BY <1>1, <1>2, <2>1, <2>4, <2>6, TwapKept
<1>9. ASSUME fills' = fills, event_index' = event_index, unsettled' = unsettled, Shrinking,
             phase' \in {"finish", "succeeded"}, phase \notin {"settle", "value"},
             Len(fills) <= Slices /\ (Served => Len(fills) = Slices)
      PROVE  TwapInv'
  <2>1. Answered' = Answered /\ \A m : Seen(m)' = Seen(m)
    BY <1>9 DEF Answered, Seen
  <2>2. AllCounted'
    BY <1>1, <1>2, <2>1, CountKept
  <2>3. AllAwait'
    BY <1>1, <1>2, <1>9, <2>1, ListAwaits DEF Shrinking
  <2>4. Served' <=> Served
    BY <1>1, TapeKept
  <2>5. QED
    BY <1>1, <1>2, <1>9, <2>2, <2>3, <2>4, TwapKept
<1>10. CASE Finish
  <2>1. /\ fills' = fills /\ event_index' = event_index /\ unsettled' = unsettled
        /\ phase' = "finish" /\ phase = "loop"
    BY <1>10 DEF Finish, GoTo, accountVars
  <2>2. Shrinking
    BY <1>1, BetweenShrinks
  <2>3. QED
    BY <1>9, <1>10, <2>1, <2>2, AllSlicesFilled
<1>11. CASE ExpireOrder \/ Report
  <2>1. /\ fills' = fills /\ event_index' = event_index /\ unsettled' = unsettled
        /\ phase' \in {"finish", "succeeded"} /\ phase = "finish"
    BY <1>11 DEF ExpireOrder, Report, GoTo, accountVars, programVars
  <2>2. Shrinking
    BY <1>1, BetweenShrinks
  <2>3. QED
    BY <1>9, <2>1, <2>2 DEF TwapInv
<1>12. CASE Ended
  <2>1. /\ pending' = pending /\ fills' = fills /\ event_index' = event_index
        /\ unsettled' = unsettled /\ phase' = phase /\ phase \in {"succeeded", "failed"}
    BY <1>12 DEF Ended, vars, programVars, orderVars, accountVars
  <2>2. CASE phase = "failed"
    BY <1>4, <2>1, <2>2
  <2>3. CASE phase = "succeeded"
    <3>1. Shrinking
      BY <1>1, BetweenShrinks
    <3>2. QED
      BY <1>9, <2>1, <2>3, <3>1 DEF TwapInv
  <2>4. QED
    BY <2>1, <2>2, <2>3
<1>13. QED
  BY <1>1, <1>3, <1>5, <1>6, <1>7, <1>8, <1>10, <1>11, <1>12 DEF Between, Settle

LEMMA TwapAnswered ==
  ASSUME TypeInv, StrategyInv, CurrentInv, TwapInv, strategy = "twap_execution", ~Free, OnEvent
  PROVE  TwapInv'
<1>1. PICK r \in Answers : response' = r.actions /\ memory' = r.memory
  BY DEF OnEvent, Answers, manifest
<1>2. /\ phase = "value" /\ phase' = "act" /\ acted' = 0 /\ pending' = pending
      /\ fills' = fills /\ events' = events /\ event_index' = event_index
      /\ unsettled' = unsettled /\ strategy' = strategy
  BY DEF OnEvent, Called, TakeSnapshot, GoTo, orderVars, accountVars
<1>3. PICK e \in Nat : event_index = e + 1
  BY <1>2, ListIsFinite, event_index - 1 \in Nat
<1>4. event \in MarketEvent /\ event = events[e + 1] /\ memory.counter \in Nat
  BY <1>2, <1>3, CurrentEvent DEF event, StrategyInv, Remembers
<1>5. memory.counter = Sliced(e) /\ Answered' = e + 1 /\ \A m : Seen(m)' = Seen(m)
  BY <1>2, <1>3 DEF TwapInv, AllCounted, Answered, Seen
<1>6. AllAwait'
  BY <1>2, <1>5, ListAwaits DEF TwapInv
<1>7. e + 1 \in Bars(e + 1) <=> event.payload.kind = "bar"
  BY <1>3, <1>4 DEF Bars
<1>8. manifest.reads = "bar"
  BY ManifestsAre DEF manifest, Manifest
<1>9. ASSUME NEW c, memory'.counter = c, c = Sliced(e + 1) PROVE AllCounted'
  <2>1. Sliced(e + 1)' = Sliced(e + 1)
    BY <1>2, TapeKept
  <2>2. QED
    BY <1>5, <1>9, <2>1 DEF AllCounted, Sliced, Bars
<1>10. /\ \A n \in DOMAIN fills' : fills'[n].quantity = SliceQuantity
       /\ Len(fills) + Cardinality(DOMAIN pending) = memory.counter
  <2>1. ~Slicing
    BY <1>2 DEF Slicing
  <2>2. QED
    BY <1>2, <2>1, ListIsFinite DEF TwapInv
<1>11. CASE r.actions = <<NoOp>> /\ r.memory = memory /\ Sliced(e + 1) = Sliced(e)
  <2>1. AllCounted'
    BY <1>1, <1>5, <1>9, <1>11
  <2>2. ~Slicing' /\ response' = <<NoOp>>
    BY <1>1, <1>11 DEF Slicing
  <2>3. QED
    BY <1>1, <1>2, <1>6, <1>10, <1>11, <2>1, <2>2, ListIsFinite DEF TwapInv
<1>12. CASE event.payload.kind # "bar"
  <2>1. r.actions = <<NoOp>> /\ r.memory = memory
    BY <1>8, <1>12 DEF Answers, Idle, Returned
  <2>2. Sliced(e + 1) = Sliced(e)
    BY <1>7, <1>12, SlicedNext
  <2>3. QED
    BY <1>11, <2>1, <2>2
<1>13. CASE event.payload.kind = "bar" /\ memory.counter >= Slices
  <2>1. r \in TwapExecution
    BY <1>8, <1>13, DecisionIs DEF Answers
  <2>2. r.actions = <<NoOp>> /\ r.memory = memory
    BY <1>13, <2>1 DEF TwapExecution, Idle, Returned
  <2>3. Sliced(e + 1) = Sliced(e)
    BY <1>5, <1>7, <1>13, SlicedNext
  <2>4. QED
    BY <1>11, <2>2, <2>3
<1>14. CASE event.payload.kind = "bar" /\ ~(memory.counter >= Slices)
  <2>1. r \in TwapExecution
    BY <1>8, <1>14, DecisionIs DEF Answers
  <2>2. r = Returned(<<SubmitOrder(Counted.counter, "buy", "market", SliceQuantity, 0)>>, Counted)
    BY <1>14, <2>1 DEF TwapExecution
  <2>3. Counted.counter = memory.counter + 1
    BY <1>2, RemembersMore DEF CurrentInv
  <2>4. /\ response' = <<SubmitOrder(memory.counter + 1, "buy", "market", SliceQuantity, 0)>>
        /\ memory'.counter = memory.counter + 1
    BY <1>1, <2>2, <2>3 DEF Returned
  <2>5. Sliced(e + 1) = Sliced(e) + 1 /\ Cardinality(Bars(e + 1)) <= Slices
        /\ e + 1 \in Bars(e + 1)
    BY <1>5, <1>7, <1>14, SlicedNext
  <2>6. AllCounted'
    BY <1>5, <1>9, <2>4, <2>5
  <2>7. Slicing' /\ response' \notin {<<>>, <<NoOp>>} /\ Len(response') = 1
    <3>1. SubmitOrder(memory.counter + 1, "buy", "market", SliceQuantity, 0).kind # NoOp.kind
      BY DEF SubmitOrder, NoOp
    <3>2. PICK a : a = SubmitOrder(memory.counter + 1, "buy", "market", SliceQuantity, 0)
      OBVIOUS
    <3>3. response' = <<a>> /\ a # NoOp
      BY <2>4, <3>1, <3>2
    <3>4. response' \notin {<<>>, <<NoOp>>} /\ Len(response') = 1
      BY <3>3
    <3>5. QED
      BY <1>2, <3>4 DEF Slicing
  <2>8. /\ response'[1] = SubmitOrder(memory.counter, "buy", "market", SliceQuantity, 0)'
        /\ (event_index \in Bars(event_index))'
        /\ (Cardinality(Bars(event_index)) <= Slices)'
    <3>1. event' = event
      BY <1>2 DEF event
    <3>2. response'[1] = SubmitOrder(memory.counter, "buy", "market", SliceQuantity, 0)'
      BY <2>4, <3>1 DEF SubmitOrder
    <3>3. (event_index \in Bars(event_index))' /\ (Cardinality(Bars(event_index)) <= Slices)'
      BY <1>2, <1>3, <2>5 DEF Bars
    <3>4. QED
      BY <3>2, <3>3
  <2>9. Len(fills') + Cardinality(DOMAIN pending') + 1 = memory'.counter
    BY <1>2, <1>10, <2>4, ListIsFinite
  <2>10. QED
    BY <1>2, <1>6, <1>10, <2>6, <2>7, <2>8, <2>9 DEF TwapInv
<1>15. QED
  BY <1>12, <1>13, <1>14

LEMMA TwapFollowed ==
  ASSUME TypeInv, StrategyInv, FitInv, TwapInv, strategy = "twap_execution", Follow
  PROVE  TwapInv'
<1>1. PICK a \in Action : a = response[acted + 1] /\ Fit(a) /\ Move(a)
  BY FollowMoves
<1>2. /\ response' = response /\ strategy' = strategy /\ memory' = memory
      /\ phase = "act" /\ phase' = "act"
      /\ acted' = acted + 1 /\ acted \in Nat /\ acted + 1 \in 1 .. Len(response) /\ ActionDone
  BY FollowMoves DEF strategyVars
<1>3. fills' = fills /\ events' = events /\ event_index' = event_index /\ unsettled' = unsettled
      /\ unsettled = {}
  BY <1>2, ListIsFinite DEF ActionDone, accountVars
<1>4. Answered' = Answered /\ ~Slicing' /\ \A m : Seen(m)' = event_index /\ Seen(m) = event_index
  BY <1>2, <1>3 DEF Answered, Slicing, Seen
<1>5. AllAwait /\ AllCounted'
  BY <1>2, <1>3, <1>4, CountKept DEF TwapInv
<1>6. CASE response \in {<<>>, <<NoOp>>}
  <2>1. a = NoOp
    BY <1>1, <1>2, <1>6
  <2>2. pending' = pending
    BY <1>1, <2>1 DEF Move, NoOp
  <2>3. AllAwait'
    BY <1>3, <1>4, <1>5, <2>2, ListAwaits
  <2>4. ~Slicing
    BY <1>6 DEF Slicing
  <2>5. QED
    BY <1>2, <1>3, <1>4, <1>5, <2>2, <2>3, <2>4, TwapKept
<1>7. CASE response \notin {<<>>, <<NoOp>>}
  <2>1. Len(response) = 1
    BY <1>7 DEF TwapInv
  <2>2. acted = 0
    BY <1>2, <2>1
  <2>3. Slicing
    BY <1>2, <1>7, <2>2 DEF Slicing
  <2>4. /\ a = SubmitOrder(memory.counter, "buy", "market", SliceQuantity, 0)
        /\ event_index \in Bars(event_index) /\ Cardinality(Bars(event_index)) <= Slices
    BY <1>1, <1>7, <2>2, <2>3 DEF TwapInv
  <2>5. PICK o : o = DirectOrder(a)
    OBVIOUS
  <2>6. /\ o.order_type = "market" /\ o.side = "buy" /\ o.quantity = SliceQuantity
        /\ o.submitted_at = event_index /\ o.instrument_id = events[event_index].instrument_id
    BY <2>4, <2>5 DEF DirectOrder, SubmitOrder, event
  <2>7. Accept(o)
    BY <1>1, <2>4, <2>5 DEF Move, SubmitOrder
  <2>8. PICK e \in Nat : e = event_index
    BY ListIsFinite
  <2>9. Awaits(o, e)
    BY <2>4, <2>6, <2>8 DEF Awaits
  <2>10. PICK n \in Nat : n = order_count + 1
    BY <2>7, Joined
  <2>11. /\ DOMAIN pending' = DOMAIN pending \cup {n} /\ n \notin DOMAIN pending
         /\ pending'[n] = o /\ \A m \in DOMAIN pending : pending'[m] = pending[m]
    BY <2>7, <2>10, Joined
  <2>12. ASSUME NEW m \in DOMAIN pending' PROVE Awaits(pending[m], Seen(m))'
    <3>1. CASE m = n
      BY <1>3, <1>4, <2>8, <2>9, <2>11, <2>12, <3>1, AwaitsKept
    <3>2. CASE m # n
      <4>1. PICK p : p = pending[m] /\ pending'[m] = p
        BY <2>11, <2>12, <3>2
      <4>2. Awaits(p, e)
        BY <1>4, <1>5, <2>8, <2>11, <2>12, <3>2, <4>1 DEF AllAwait
      <4>3. QED
        BY <1>3, <1>4, <2>8, <2>12, <4>1, <4>2, AwaitsKept
    <3>3. QED
      BY <3>1, <3>2
  <2>13. AllAwait'
    BY <2>12 DEF AllAwait
  <2>14. Cardinality(DOMAIN pending') = Cardinality(DOMAIN pending) + 1
    <3>1. PICK S : S = DOMAIN pending
      OBVIOUS
    <3>2. IsFiniteSet(S) /\ n \notin S
      BY <2>11, <3>1, ListIsFinite
    <3>3. Cardinality(S \cup {n}) = Cardinality(S) + 1
      BY <3>2, FS_AddElement
    <3>4. QED
      BY <2>11, <3>1, <3>3
  <2>15. Len(fills) + Cardinality(DOMAIN pending) + 1 = memory.counter
    BY <1>2, <2>3 DEF TwapInv
  <2>16. Len(fills') + Cardinality(DOMAIN pending') + 0 = memory'.counter
    BY <1>2, <1>3, <2>14, <2>15, ListIsFinite
  <2>17. \A j \in DOMAIN fills' : fills'[j].quantity = SliceQuantity
    BY <1>3 DEF TwapInv
  <2>18. QED
    BY <1>2, <1>4, <1>5, <2>1, <2>13, <2>16, <2>17 DEF TwapInv
<1>8. QED
  BY <1>6, <1>7

LEMMA TwapStep ==
  ASSUME TypeInv, StrategyInv, CurrentInv, ~Free, FitInv, TwapInv, [StrategiesNext]_allVars
  PROVE  TwapInv'
<1>0. strategy' = strategy
  BY StrategyStep
<1> SUFFICES ASSUME strategy = "twap_execution" PROVE TwapInv'
  BY <1>0 DEF TwapInv
<1>1. CASE EngineStep
  BY <1>1, TwapBetween
<1>2. CASE OnEvent
  BY <1>2, TwapAnswered
<1>3. CASE Follow
  BY <1>3, TwapFollowed
<1>4. CASE AllFollowed
  <2>1. /\ response' = response /\ pending' = pending /\ fills' = fills /\ memory' = memory
        /\ events' = events /\ event_index' = event_index /\ unsettled' = unsettled
        /\ phase = "act" /\ phase' = "loop" /\ acted = Len(response)
    BY <1>4 DEF AllFollowed, EndEvent, GoTo, orderVars, accountVars, strategyVars
  <2>2. Answered' = Answered /\ ~Slicing' /\ \A m : Seen(m)' = Seen(m)
    BY <2>1 DEF Answered, Slicing, Seen
  <2>3. ~Slicing
    BY <2>1 DEF Slicing, TwapInv
  <2>4. AllCounted'
    BY <2>1, <2>2, CountKept DEF TwapInv
  <2>5. AllAwait'
    BY <2>1, <2>2, ListAwaits DEF TwapInv
  <2>6. QED
    BY <2>1, <2>2, <2>3, <2>4, <2>5, TwapKept
<1>5. CASE UNCHANGED allVars
  <2>1. /\ response' = response /\ pending' = pending /\ fills' = fills /\ memory' = memory
        /\ events' = events /\ event_index' = event_index /\ unsettled' = unsettled
        /\ phase' = phase /\ acted' = acted
    BY <1>5 DEF allVars, vars, programVars, orderVars, accountVars, strategyVars
  <2>2. Answered' = Answered /\ (Slicing' <=> Slicing) /\ \A m : Seen(m)' = Seen(m)
    BY <2>1 DEF Answered, Slicing, Seen
  <2>3. AllCounted'
    BY <2>1, <2>2, CountKept DEF TwapInv
  <2>4. AllAwait'
    BY <2>1, <2>2, ListAwaits DEF TwapInv
  <2>5. Served' <=> Served
    BY <2>1, TapeKept
  <2>6. event' = event
    BY <2>1 DEF event
  <2>7. SubmitOrder(memory.counter, "buy", "market", SliceQuantity, 0)'
          = SubmitOrder(memory.counter, "buy", "market", SliceQuantity, 0)
    BY <2>1, <2>6 DEF SubmitOrder
  <2>8. /\ event_index \in Bars(event_index) => (event_index \in Bars(event_index))'
        /\ Cardinality(Bars(event_index)) <= Slices => (Cardinality(Bars(event_index)) <= Slices)'
    BY <2>1 DEF Bars
  <2>9. QED
    BY <1>0, <2>1, <2>2, <2>3, <2>4, <2>5, <2>7, <2>8 DEF TwapInv
<1>6. CASE ModelRaises
  BY <1>6, ModelRaisesIs DEF Trained
<1>7. QED
  BY <1>1, <1>2, <1>3, <1>4, <1>5, <1>6, BundledStep

LEMMA TotalFollows ==
  ASSUME TypeInv, TwapInv
  PROVE  TotalBought
<1> DEFINE bought == SumFunction([n \in DOMAIN fills |-> fills[n].quantity])
<1> SUFFICES ASSUME strategy = "twap_execution"
             PROVE  /\ bought <= Slices * SliceQuantity
                    /\ phase = "succeeded" /\ Served => bought = Slices * SliceQuantity
  BY DEF TotalBought, Served
<1>1. PICK m \in Nat : m = Len(fills) /\ DOMAIN fills = 1 .. m
  BY ListIsFinite
<1>2. PICK c \in Nat : c = SliceQuantity
  BY StrategiesAssumption
<1>3. bought = SumFunction([n \in 1 .. m |-> c])
  <2>1. [n \in DOMAIN fills |-> fills[n].quantity] = [n \in 1 .. m |-> c]
    BY <1>1, <1>2 DEF TwapInv
  <2>2. QED
    BY <2>1
<1>4. IsFiniteSet(1 .. m) /\ Cardinality(1 .. m) = m
  <2>1. 1 \in Int /\ m \in Int
    OBVIOUS
  <2>2. Cardinality(1 .. m) = IF 1 > m THEN 0 ELSE m - 1 + 1
    BY <2>1, FS_Interval
  <2>3. QED
    BY <2>1, <2>2, FS_Interval
<1>5. bought = m * c
  BY <1>3, <1>4, SumConstant
<1>6. m <= Slices
  <2>1. CASE phase \in {"finish", "succeeded"}
    BY <1>1, <2>1 DEF TwapInv
  <2>2. CASE phase \notin {"finish", "succeeded"}
    <3>1. Answered \in Nat
      BY ListIsFinite DEF Answered
    <3>2. memory.counter \in 0 .. Slices
      BY <3>1, SlicedNext DEF TwapInv, AllCounted
    <3>3. QED
      BY <1>1, <2>2, <3>2, ListIsFinite, StrategiesAssumption DEF TwapInv
  <2>3. QED
    BY <2>1, <2>2
<1>7. m * c <= Slices * c
  <2>1. PICK d \in Nat : Slices = m + d
    BY <1>6, StrategiesAssumption, Slices - m \in Nat
  <2>2. (m + d) * c = m * c + d * c /\ m * c \in Nat /\ d * c \in Nat
    OBVIOUS
  <2>3. QED
    BY <2>1, <2>2
<1>8. phase = "succeeded" /\ Served => m = Slices
  BY <1>1 DEF TwapInv
<1>9. QED
  BY <1>2, <1>5, <1>7, <1>8

-----------------------------------------------------------------------------
(* All of it together.                                                      *)

(* What is kept under a bundled strategy that the engine's limits suit.     *)
ServeInv ==
  ~Free /\ LimitsServe =>
    FitInv /\ Declared /\ CountInv /\ ListInv /\ QuoteInv /\ PairInv /\ TwapInv

LEMMA ServeStart == StrategiesInit => ServeInv
<1> SUFFICES ASSUME StrategiesInit, ~Free, LimitsServe
             PROVE  FitInv /\ Declared /\ CountInv /\ ListInv /\ QuoteInv /\ PairInv /\ TwapInv
  BY DEF ServeInv
<1>1. /\ phase = "validate" /\ error = "none" /\ event_index = 0 /\ acted = 0
      /\ quantities = [i \in Instruments |-> 0]
      /\ pending = <<>> /\ unsettled = {} /\ fills = <<>>
      /\ memory = NewMemory /\ response = <<>>
  BY DEF StrategiesInit, BooksInit, Init
<1>2. DOMAIN pending = {} /\ DOMAIN response = {} /\ DOMAIN fills = {} /\ Len(fills) = 0
  BY <1>1
<1>3. FitInv
  BY <1>1 DEF FitInv
<1>4. Declared
  BY <1>1, <1>2 DEF Declared
<1>5. Len(response) = 0
  BY <1>1
<1>6. CountInv /\ ListInv /\ QuoteInv
  BY <1>1, <1>2, <1>5 DEF CountInv, ListInv, QuoteInv
<1>7. PairInv
  <2>1. OfLeg(1) = {} /\ OfLeg(2) = {}
    BY <1>2 DEF OfLeg
  <2>2. PICK q \in Int : q + 0 = -q /\ \A i \in Instruments : quantities[i] = q
    <3>1. \A z \in Int : z + z = 0 => z + 0 = -z /\ z = 0
      OBVIOUS
    <3>2. 0 + 0 = 0
      OBVIOUS
    <3>3. QED
      BY <1>1, <3>1, <3>2
  <2>3. quantities[PairSymbols[1]] = q /\ quantities[PairSymbols[2]] = -q
    BY <2>2, PairSymbolsAre
  <2>4. Aiming
    BY <2>1, <2>3 DEF Aiming, Aimed
  <2>5. QED
    BY <1>1, <1>2, <2>4 DEF PairInv
<1>8. TwapInv
  <2>1. Bars(0) = {} /\ Cardinality({}) = 0
    BY FS_EmptySet DEF Bars
  <2>2. Sliced(0) = 0
    BY <2>1, StrategiesAssumption DEF Sliced
  <2>3. AllCounted
    BY <1>1, <2>2 DEF AllCounted, Answered, NewMemory
  <2>4. AllAwait
    BY <1>2 DEF AllAwait
  <2>5. Cardinality(DOMAIN pending) = 0
    BY <1>2, <2>1
  <2>6. QED
    BY <1>1, <1>2, <2>3, <2>4, <2>5 DEF TwapInv, Slicing, NewMemory
<1>9. QED
  BY <1>3, <1>4, <1>6, <1>7, <1>8

LEMMA ServeStep ==
  ASSUME TypeInv, StrategyInv, CurrentInv, ServeInv, [StrategiesNext]_allVars
  PROVE  ServeInv'
<1>1. strategy' = strategy
  BY StrategyStep
<1>2. (Free' <=> Free) /\ (LimitsServe' <=> LimitsServe)
  BY <1>1 DEF Free, LimitsServe, manifest
<1>3. CASE ~Free /\ LimitsServe
  <2>1. FitInv /\ Declared /\ CountInv /\ ListInv /\ QuoteInv /\ PairInv /\ TwapInv
    BY <1>3 DEF ServeInv
  <2>2. FitInv'
    BY <1>3, <2>1, FitStep
  <2>3. Declared'
    BY <1>3, <2>1, DeclaredStep
  <2>4. CountInv'
    BY <1>3, <2>1, CountStep
  <2>5. ListInv' /\ QuoteInv'
    BY <1>3, <2>1, QuoteStep
  <2>6. PairInv'
    BY <1>3, <2>1, PairStep
  <2>7. TwapInv'
    BY <1>3, <2>1, TwapStep
  <2>8. QED
    BY <2>2, <2>3, <2>4, <2>5, <2>6, <2>7 DEF ServeInv
<1>4. QED
  BY <1>2, <1>3 DEF ServeInv

(* The bundled strategies and the engine fit one another over whole runs,   *)
(* if the engine's limits are no tighter than what the manifests declare.   *)
THEOREM StrategiesServe == StrategiesSpec => [](LimitsServe => BundledStrategiesServe)
<1> DEFINE Kept == TypeInv /\ MoneyInv /\ CurrentInv /\ StrategyInv /\ ServeInv
<1>1. StrategiesInit => Kept
  BY StrategiesStart, ServeStart
<1>2. Kept /\ [StrategiesNext]_<<vars, bookVars, strategyVars>> => Kept'
  BY BooksMove, StrategyStep, ServeStep DEF allVars
<1>3. Kept => (LimitsServe => BundledStrategiesServe)
  BY QuotesFollow, TotalFollows, HedgedFollows DEF ServeInv, BundledStrategiesServe
<1>4. QED
  BY <1>1, <1>2, <1>3, PTL DEF StrategiesSpec
=============================================================================
