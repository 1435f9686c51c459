-------------------------- MODULE EngineProperties --------------------------
(***************************************************************************)
(* What must hold of every run of the reference engine.                    *)
(***************************************************************************)
EXTENDS ReferenceEngine

(* The type of every variable (the Decimals and dicts of run()).            *)
TypeOK ==
  /\ events \in Tapes /\ phase \in Phases /\ error \in Errors
  /\ event_index \in 0 .. Len(events) /\ acted \in Nat
  /\ cash \in Int /\ quantities \in [Instruments -> Int]
  /\ marks \in [Instruments -> Nat]
  /\ pending \in [DOMAIN pending -> Order] /\ DOMAIN pending \subseteq 1 .. order_count
  /\ unsettled \subseteq DOMAIN pending /\ unvalued \subseteq Instruments
  /\ market_value \in Int /\ snapshot \in [cash: Int, equity: Int]
  /\ fills \in Seq(Fill) /\ order_events \in Seq(OrderEvent)
  /\ order_count \in Nat /\ no_op_count \in Nat

Accepting == {"accepted", "replaced"}

(* The strategy never picks an identifier of the form the engine generates. *)
IdsApart ==
  \A a \in Actions : a.kind = "submit_order" => a.client_order_id[1] = "client"

(* "Duplicate client_order_id is not allowed": no two live orders share an  *)
(* identifier, so a cancel or a replace names one order.                    *)
LiveIdsUnique ==
  \A m, n \in DOMAIN pending :
    pending[m].client_order_id = pending[n].client_order_id => m = n

(* Every accepted order is live and has no terminal event, or is gone and   *)
(* has exactly one: none is lost, none ends twice.                          *)
EndsOf(n) ==
  {j \in DOMAIN order_events :
     order_events[j].number = n /\ order_events[j].status \in Terminal}

OneEnd ==
  \A n \in 1 .. order_count :
    IF n \in DOMAIN pending THEN EndsOf(n) = {} ELSE \E j \in DOMAIN order_events : EndsOf(n) = {j}

(* next-event.v1: nothing that has been settled since an order was accepted *)
(* or last replaced could have executed it.  A market or target order goes  *)
(* at the first later event of its instrument, a limit order at the first   *)
(* that proves its price.                                                   *)
NothingMissed ==
  \A n \in DOMAIN pending, k \in 1 .. event_index :
    /\ \A j \in DOMAIN order_events : order_events[j].number = n => order_events[j].at < k
    /\ ~(k = event_index /\ n \in unsettled)
    => ~Executable(pending[n], events[k])

(* No look-ahead: an order never fills at the event on which it was         *)
(* accepted or replaced, nor before it.                                     *)
FillsAfterDecision ==
  \A f \in DOMAIN fills, j \in DOMAIN order_events :
    /\ order_events[j].number = fills[f].number
    /\ order_events[j].status \in Accepting
    => order_events[j].at < fills[f].at

(* A direct order fills in full for its quantity, and a limit order at its  *)
(* limit or better, both as last accepted or replaced.                      *)
Honours(f, o) ==
  /\ o.order_type # "target" => f.quantity = o.quantity /\ f.side = o.side
  /\ o.order_type = "limit" =>
       IF f.side = "buy" THEN f.price <= PriceUnit * o.limit_price
                         ELSE f.price >= PriceUnit * o.limit_price

TermsHonoured ==
  \A f \in DOMAIN fills, j \in DOMAIN order_events :
    /\ order_events[j].number = fills[f].number
    /\ order_events[j].status \in Accepting
    /\ \A k \in DOMAIN order_events :
         k > j => ~(/\ order_events[k].number = fills[f].number
                    /\ order_events[k].status \in Accepting)
    => Honours(fills[f], order_events[j].order)

-----------------------------------------------------------------------------
(* Strategies that only set targets.                                        *)
TargetsOnly == \A a \in Actions : a.kind \notin {"submit_order"}

(* max_abs_position bounds the position itself, at every moment, although   *)
(* the engine only ever looks at the requested target.                      *)
PositionWithinLimit ==
  \A i \in Instruments : TargetAllowed(quantities[i])

(* The position is what the newest settled target of the instrument asked   *)
(* for, however many were pending at once.                                  *)
TargetEnds(i) ==
  {j \in DOMAIN order_events : /\ order_events[j].order.instrument_id = i
                               /\ order_events[j].status \in {"filled", "satisfied"}}

PositionIsLastTarget ==
  \A i \in Instruments :
    IF TargetEnds(i) = {} THEN quantities[i] = 0
    ELSE \E j \in TargetEnds(i) :
           /\ \A k \in TargetEnds(i) : order_events[k].number <= order_events[j].number
           /\ quantities[i] = order_events[j].order.target_quantity

-----------------------------------------------------------------------------
(* The engine implements the order ledger: no order closes twice, is lost   *)
(* or reopened, none expires early, and a reported run leaves none open.    *)
Stage ==
  CASE phase = "failed"    -> "aborted"
    [] phase = "finish"    -> "closing"
    [] phase = "succeeded" -> "reported"
    [] OTHER               -> "trading"

EndedNumbers == {n \in 1 .. order_count : EndsOf(n) # {}}

Ledger == INSTANCE OrderLedger WITH
  stage <- Stage, accepted <- order_count, open <- DOMAIN pending,
  outcome <- [n \in EndedNumbers |-> order_events[CHOOSE j \in EndsOf(n) : TRUE].status]

ImplementsLedger == Ledger!LedgerSpec

(* Every run ends, in a report or in an error, and a reported run has       *)
(* closed every order it accepted.                                          *)
RunEnds ==
  <>(\/ phase = "failed" /\ error # "none"
     \/ phase = "succeeded" /\ \A n \in 1 .. order_count : EndsOf(n) # {})

=============================================================================
