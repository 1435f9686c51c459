------------------------------ MODULE Strategies ------------------------------
(***************************************************************************)
(* The bundled strategies (strategies/, examples/sma_cross.py) as the      *)
(* strategy of the reference engine: what on_event returns and remembers.  *)
(*                                                                         *)
(* Windows, counters, last prices and the orders a strategy keeps in the   *)
(* market are modelled; what a trained model or policy computes from an    *)
(* event is any of the values it can give, and so are the sizes and the    *)
(* deeper levels of a book, which Market leaves out.  The strategy "any"   *)
(* is the environment of ReferenceEngine: it returns any actions.          *)
(***************************************************************************)
EXTENDS EngineAccounting

CONSTANTS
  Sessions,        \* the <<strategy, tape>> of the runs
  FreeActions,     \* bound: actions "any" returns for one event
  Lookback,        \* Donchian's and the pair's constructor argument
  ShortWindow, LongWindow,
  Slices,          \* of a TWAP order
  SliceQuantity,   \* total_quantity / slices
  MaxTick,         \* bound: distance of the first two levels of a book
  PairSymbols,     \* the two symbols of the pair strategies
  BatchSymbols     \* the three symbols of the cross-sectional ranker

ASSUME StrategiesAssumption ==
  /\ Lookback \in Nat \ {0} /\ Slices \in Nat \ {0} /\ SliceQuantity \in Nat \ {0}
  /\ ShortWindow \in Nat \ {0} /\ LongWindow \in Nat /\ ShortWindow < LongWindow
  /\ WeightOne % 2 = 0
  /\ PairSymbols \in [1 .. 2 -> Instruments] /\ PairSymbols[1] # PairSymbols[2]
  /\ BatchSymbols \in [1 .. 3 -> Instruments]

VARIABLES
  strategy,
  memory,     \* the strategy's attributes
  response    \* what on_event returned for the current event

strategyVars == <<strategy, memory, response>>

NewMemory == [window |-> <<>>, latest |-> <<>>, counter |-> 0]

StrategiesInit ==
  /\ BooksInit
  /\ \E s \in Sessions : strategy = s[1] /\ events = s[2]
  /\ memory = NewMemory
  /\ response = <<>>

-----------------------------------------------------------------------------
(* The actions, as the engine takes them.                                   *)
NoOp == [kind |-> "no_op"]
Prediction == [kind |-> "prediction"]
TargetPosition(i, q) == [kind |-> "target_position", instrument_id |-> i, quantity |-> q]
TargetWeight(i, w) == [kind |-> "target_weight", instrument_id |-> i, weight |-> w]
SubmitOrder(n, side, type, q, limit) ==
  [kind |-> "submit_order", client_order_id |-> <<"client", n>>,
   instrument_id |-> event.instrument_id, side |-> side, order_type |-> type,
   quantity |-> q, limit_price |-> limit]
ReplaceOrder(n, limit) ==
  [kind |-> "replace_order", client_order_id |-> <<"client", n>>,
   new_quantity |-> 0, new_limit_price |-> limit]

Returned(actions, remembered) == [actions |-> actions, memory |-> remembered]
Idle(remembered) == {Returned(<<NoOp>>, remembered)}

(* deque(maxlen=length).append                                              *)
Pushed(window, item, length) ==
  Append(IF Len(window) = length THEN Tail(window) ELSE window, item)

Total(window) == FoldLeft(LAMBDA sum, x : sum + x, 0, window)

Counted == [memory EXCEPT !.counter = @ + 1]

-----------------------------------------------------------------------------
(* Rules.                                                                   *)
Donchian ==
  LET p == event.payload
      seen == {memory.window[n] : n \in DOMAIN memory.window}
      upper == Max({s.high : s \in seen})
      lower == Min({s.low : s \in seen})
      pushed == [memory EXCEPT
                   !.window = Pushed(@, [high |-> p.high, low |-> p.low], Lookback)]
  IN IF Len(memory.window) < Lookback THEN Idle(pushed)
     ELSE IF p.close > upper
          THEN {Returned(<<TargetPosition(event.instrument_id, 2)>>, pushed)}
     ELSE IF p.close < lower
          THEN {Returned(<<TargetPosition(event.instrument_id, -2)>>, pushed)}
     ELSE Idle(pushed)

SmaCross ==
  LET closes == Pushed(memory.window, event.payload.close, LongWindow)
      shorter == SubSeq(closes, LongWindow - ShortWindow + 1, LongWindow)
      rising == Total(shorter) * LongWindow > Total(closes) * ShortWindow
      pushed == [memory EXCEPT !.window = closes]
  IN IF Len(closes) < LongWindow THEN Idle(pushed)
     ELSE {Returned(<<TargetPosition(event.instrument_id, IF rising THEN 1 ELSE -1)>>, pushed)}

(* Several symbols: a batch is complete when the last bars of all of them   *)
(* are of one time.                                                         *)
Noted == [memory EXCEPT
            !.latest = [i \in {event.instrument_id} \cup DOMAIN @ |->
                          IF i = event.instrument_id
                          THEN [time |-> event.available_time, close |-> event.payload.close]
                          ELSE @[i]]]

Synchronized(latest, symbols) ==
  /\ Range(symbols) \subseteq DOMAIN latest
  /\ \A i, j \in Range(symbols) : latest[i].time = latest[j].time

Leg(n, q) == TargetPosition(PairSymbols[n], q)

BothLegs(direction) == <<Leg(1, direction), Leg(2, -direction)>>

(* z = (spread - mean) / sqrt(variance), compared with a threshold of 1.    *)
PairsZScore ==
  LET latest == Noted.latest
      spread == latest[PairSymbols[1]].close - latest[PairSymbols[2]].close
      spreads == memory.window
      deviation == Lookback * spread - Total(spreads)
      variance == Lookback * Total([n \in DOMAIN spreads |-> spreads[n] * spreads[n]])
                    - Total(spreads) * Total(spreads)
      pushed == [Noted EXCEPT !.window = Pushed(@, spread, Lookback)]
      direction == IF deviation * deviation < variance THEN 0
                   ELSE IF deviation > 0 THEN -1 ELSE 1
  IN IF ~Synchronized(latest, PairSymbols) THEN Idle(Noted)
     ELSE IF Len(spreads) < Lookback \/ variance = 0 THEN Idle(pushed)
     ELSE {Returned(BothLegs(direction), pushed)}

(* The microprice is on one side of the middle, or too close to it.         *)
L1Microprice ==
  Idle(memory) \cup
    {Returned(<<SubmitOrder(Counted.counter, side, "market", 1, 0)>>, Counted) : side \in Side}

(* The maker quotes both sides, one tick further out on the side the book   *)
(* leans against, and asks the snapshot which of its orders still stand.    *)
Live == {pending[n].client_order_id : n \in DOMAIN pending}

(* A slip: what was quoted once is taken to stand.                        *)
SlipMakerOrder(n, side, price) ==
  IF memory.counter > 0 THEN ReplaceOrder(n, price) ELSE SubmitOrder(n, side, "limit", 1, price)

MakerOrder(n, side, price) ==
  IF <<"client", n>> \in Live THEN ReplaceOrder(n, price)
  ELSE SubmitOrder(n, side, "limit", 1, price)

L2ImbalanceMaker ==
  LET bid == event.payload.bid
      ask == event.payload.ask
      BidPrice(skew, tick) == IF skew < 0 THEN bid - tick ELSE bid
      AskPrice(skew, tick) == IF skew > 0 THEN ask + tick ELSE ask
  IN Idle(memory) \cup
       {Returned(<<MakerOrder(1, "buy", BidPrice(skew, tick)),
                   MakerOrder(2, "sell", AskPrice(skew, tick))>>, Counted) :
          skew \in {-1, 0, 1}, tick \in {t \in 1 .. MaxTick : t < bid}}

TwapExecution ==
  IF memory.counter >= Slices THEN Idle(memory)
  ELSE {Returned(<<SubmitOrder(Counted.counter, "buy", "market", SliceQuantity, 0)>>, Counted)}

-----------------------------------------------------------------------------
(* Trained strategies: the targets that a score or a policy is turned into. *)
Predicted(targets) ==
  {Returned(<<Prediction, TargetPosition(event.instrument_id, q)>>, memory) : q \in targets}
Decided(targets) ==
  {Returned(<<TargetPosition(event.instrument_id, q)>>, memory) : q \in targets}

LogisticDirection      == Predicted({-1, 1})
RidgeReturn            == Predicted({-2, 0, 2})
GaussianVolumeBreakout == Predicted({0, 1})
L1AdverseSelection     == Predicted({-1, 1})
L2FillProbability      == Predicted({-1, 1})

TabularQInventory    == Decided({-1, 0, 1})
SarsaTrend           == Decided({-2, 0, 2})
DoubleQBookInventory == Decided({-1, 0, 1})

ContextualBandit ==
  Idle(Counted) \cup
    {Returned(<<SubmitOrder(Counted.counter, "buy", "market", q, 0)>>, Counted) : q \in {1, 2}}

DynaQPairs ==
  IF ~Synchronized(Noted.latest, PairSymbols) THEN Idle(Noted)
  ELSE {Returned(BothLegs(direction), Noted) : direction \in {-1, 0, 1}}

(* tanh, cut off at 0.8                                                     *)
LinearActorCritic ==
  {Returned(<<TargetWeight(event.instrument_id, w)>>, memory) :
     w \in {v \in -WeightOne .. WeightOne : 10 * Magnitude(v) <= 8 * WeightOne}}

(* The lowest score is sold, the highest bought.                            *)
CrossSectionalRanker ==
  LET half == WeightOne \div 2
      weights == {w \in [1 .. 3 -> {-half, 0, half}] : IsInjective(w)}
      Batch(w) == [n \in 1 .. 6 |-> IF n % 2 = 1 THEN Prediction
                                    ELSE TargetWeight(BatchSymbols[n \div 2], w[n \div 2])]
  IN IF ~Synchronized(Noted.latest, BatchSymbols) THEN Idle(Noted)
     ELSE {Returned(Batch(w), Noted) : w \in weights}

-----------------------------------------------------------------------------
(* What a manifest declares of the actions; the payloads the strategy reads.*)
Manifest(reads, allowed, max_position, max_order) ==
  [reads |-> reads, allowed |-> allowed \cup {"no_op"},
   max_abs_position |-> max_position, max_order_quantity |-> max_order]

Targets == {"target_position"}
Modelled == {"prediction", "target_position"}
Orders == {"submit_order"}

Manifests ==
  [donchian_breakout |-> Manifest("bar", Targets, 2, 10),
   sma_cross         |-> Manifest("bar", Targets, 1, NoLimit),
   pairs_zscore      |-> Manifest("bar", Targets, 1, 10),
   l1_microprice     |-> Manifest("quote", Orders, 10, 1),
   l2_imbalance_maker |-> Manifest("quote", Orders \cup {"replace_order"}, 10, 1),
   twap_execution    |-> Manifest("bar", Orders, NoLimit, 2),
   logistic_direction |-> Manifest("bar", Modelled, 1, 10),
   ridge_return      |-> Manifest("bar", Modelled, 2, 10),
   gaussian_volume_breakout |-> Manifest("bar", Modelled, 1, 10),
   l1_adverse_selection |-> Manifest("quote", Modelled, 1, 10),
   l2_fill_probability |-> Manifest("quote", Modelled, 1, 10),
   cross_sectional_ranker |-> Manifest("bar", {"prediction", "target_weight"}, NoLimit, 10),
   tabular_q_inventory |-> Manifest("bar", Targets, 1, 10),
   sarsa_trend       |-> Manifest("bar", Targets, 2, 10),
   double_q_book_inventory |-> Manifest("quote", Targets, 1, 10),
   contextual_bandit_execution |-> Manifest("bar", Orders, NoLimit, 2),
   dyna_q_pairs      |-> Manifest("bar", Targets, 1, 10),
   linear_actor_critic_allocation |-> Manifest("bar", {"target_weight"}, NoLimit, 10)]

manifest == Manifests[strategy]

(* TrainingMode.REQUIRED                                                    *)
Trained ==
  {"logistic_direction", "ridge_return", "gaussian_volume_breakout", "l1_adverse_selection",
   "l2_fill_probability", "cross_sectional_ranker", "tabular_q_inventory", "sarsa_trend",
   "double_q_book_inventory", "contextual_bandit_execution", "dyna_q_pairs",
   "linear_actor_critic_allocation"}

(* A session is of a bundled strategy, or of any.                           *)
ASSUME SessionsAssumption ==
  \A s \in Sessions : s[1] \in {"any"} \cup DOMAIN Manifests

(* An engine that is no stricter than the manifest it runs, whose limits    *)
(* are the ones it reads, and a slice that the manifest of TWAP allows.     *)
LimitsServe ==
  /\ \/ MaxAbsPosition = NoLimit
     \/ manifest.max_abs_position # NoLimit /\ manifest.max_abs_position <= MaxAbsPosition
  /\ \/ MaxOrderQuantity = NoLimit
     \/ manifest.max_order_quantity # NoLimit /\ manifest.max_order_quantity <= MaxOrderQuantity
  /\ strategy = "twap_execution" => SliceQuantity <= manifest.max_order_quantity

Decision ==
  CASE strategy = "donchian_breakout" -> Donchian
    [] strategy = "sma_cross" -> SmaCross
    [] strategy = "pairs_zscore" -> PairsZScore
    [] strategy = "l1_microprice" -> L1Microprice
    [] strategy = "l2_imbalance_maker" -> L2ImbalanceMaker
    [] strategy = "twap_execution" -> TwapExecution
    [] strategy = "logistic_direction" -> LogisticDirection
    [] strategy = "ridge_return" -> RidgeReturn
    [] strategy = "gaussian_volume_breakout" -> GaussianVolumeBreakout
    [] strategy = "l1_adverse_selection" -> L1AdverseSelection
    [] strategy = "l2_fill_probability" -> L2FillProbability
    [] strategy = "cross_sectional_ranker" -> CrossSectionalRanker
    [] strategy = "tabular_q_inventory" -> TabularQInventory
    [] strategy = "sarsa_trend" -> SarsaTrend
    [] strategy = "double_q_book_inventory" -> DoubleQBookInventory
    [] strategy = "contextual_bandit_execution" -> ContextualBandit
    [] strategy = "dyna_q_pairs" -> DynaQPairs
    [] strategy = "linear_actor_critic_allocation" -> LinearActorCritic

-----------------------------------------------------------------------------
Free == strategy = "any"
Called == phase = "value" /\ unvalued = {}

FreeStep ==
  /\ Free /\ BooksNext
  /\ acted' <= FreeActions
  /\ UNCHANGED strategyVars

(* The steps between the callbacks: on_start and on_finish do not raise.    *)
EngineStep ==
  /\ ~Free /\ ~Called /\ phase # "act"
  /\ BooksNext /\ ~StrategyRaises
  /\ UNCHANGED strategyVars

(* on_event, with the snapshot and the open orders of this moment; an event *)
(* of another kind is declined.                                             *)
OnEvent ==
  /\ ~Free /\ Called /\ TakeSnapshot
  /\ \E r \in IF event.payload.kind = manifest.reads THEN Decision ELSE Idle(memory) :
       response' = r.actions /\ memory' = r.memory
  /\ UNCHANGED <<strategy, bookVars>>

Follow ==
  /\ ~Free /\ phase = "act" /\ acted < Len(response)
  /\ Handle(response[acted + 1])
  /\ UNCHANGED <<strategyVars, bookVars>>

AllFollowed ==
  /\ ~Free /\ phase = "act" /\ acted = Len(response)
  /\ EndEvent
  /\ UNCHANGED <<strategyVars, bookVars>>

(* on_event of a trained strategy raises instead of answering: it requires  *)
(* its model, and may compute out of the range of a float (math.exp).       *)
ModelRaises ==
  /\ strategy \in Trained /\ phase = "act" /\ event.payload.kind = manifest.reads
  /\ StrategyRaises
  /\ UNCHANGED <<strategyVars, bookVars>>

StrategiesNext ==
  FreeStep \/ EngineStep \/ OnEvent \/ ModelRaises \/ Follow \/ AllFollowed

StrategiesSpec == StrategiesInit /\ [][StrategiesNext]_<<vars, bookVars, strategyVars>>

-----------------------------------------------------------------------------
(* A bundled strategy returns declared actions within its declared limits,  *)
(* and none that the engine refuses: not a second order under a live        *)
(* identifier, nor a replacement of an order that has filled.               *)
Within(limit, q) == limit = NoLimit \/ q <= limit

Declared ==
  /\ error \notin {"ACTION_INVALID", "ORDER_REJECTED"}
  /\ \A n \in DOMAIN response : response[n].kind \in manifest.allowed
  /\ \A n \in DOMAIN pending :
       /\ Within(manifest.max_order_quantity, pending[n].quantity)
       /\ Within(manifest.max_abs_position, Magnitude(pending[n].target_quantity))

(* The maker has exactly its two orders in the market when it has quoted,   *)
(* at the prices it quoted last, whichever of them had filled.              *)
QuotesStand ==
  (strategy = "l2_imbalance_maker" /\ phase = "loop" /\ Len(response) = 2) =>
    LET price == [n \in 1 .. 2 |-> IF response[n].kind = "submit_order"
                                   THEN response[n].limit_price
                                   ELSE response[n].new_limit_price]
    IN /\ Cardinality(DOMAIN pending) = 2
       /\ \A n \in DOMAIN pending, k \in 1 .. 2 :
            pending[n].client_order_id = <<"client", k>> =>
              pending[n].limit_price = price[k] /\ pending[n].side = <<"buy", "sell">>[k]

(* A TWAP run buys no more than its total, and all of it if every bar that  *)
(* it slices at is followed by an event of the bar's instrument.            *)
Bars(n) == {k \in 1 .. n : events[k].payload.kind = "bar"}

Followed ==
  {k \in DOMAIN events : \E m \in DOMAIN events :
     m > k /\ events[m].instrument_id = events[k].instrument_id}

TotalBought ==
  LET bought == SumFunction([n \in DOMAIN fills |-> fills[n].quantity])
  IN strategy = "twap_execution" =>
       /\ bought <= Slices * SliceQuantity
       /\ (/\ phase = "succeeded"
           /\ \E n \in DOMAIN events : Cardinality(Bars(n)) = Slices /\ Bars(n) \subseteq Followed) =>
            bought = Slices * SliceQuantity

(* A pair whose targets have all executed is hedged.                        *)
Hedged ==
  (strategy \in {"pairs_zscore", "dyna_q_pairs"} /\ phase = "loop" /\ pending = <<>>) =>
    quantities[PairSymbols[1]] = -quantities[PairSymbols[2]]

(* The bundled strategies and the engine fit one another over whole runs:   *)
(* their guesses about their own orders are never refused, and positions    *)
(* and quotes are what they mean them to be.                                *)
BundledStrategiesServe ==
  ~Free => Declared /\ QuotesStand /\ TotalBought /\ Hedged
=============================================================================
