------------------------------- MODULE Market -------------------------------
(***************************************************************************)
(* The canonical market events a run is fed (domain/market.py) and the     *)
(* three prices the reference engine derives from one of them: the mark,   *)
(* the price a market order gets and the price a limit order gets          *)
(* (ReferenceEngine._mark, _market_price, _limit_fill_price).              *)
(*                                                                         *)
(* Prices are whole ticks.  An L1 quote and an L2 snapshot are read in the *)
(* same way, through their best bid and ask, so both are "quote" payloads. *)
(* Sizes, identifiers of events and the fields nobody reads are left out.  *)
(***************************************************************************)
EXTENDS Integers, Sequences

CONSTANT Instruments     \* every instrument identifier the run may mention

Price == Nat \ {0}
Side  == {"buy", "sell"}

BarPayload ==
  {p \in [kind: {"bar"}, open: Price, high: Price, low: Price, close: Price] :
     /\ p.high >= p.open /\ p.high >= p.close
     /\ p.low <= p.open  /\ p.low <= p.close}

TradePayload == [kind: {"trade"}, price: Price]

QuotePayload ==
  {p \in [kind: {"quote"}, bid: Price, ask: Price] : p.bid <= p.ask}

Payload == BarPayload \cup TradePayload \cup QuotePayload

MarketEvent == [instrument_id: Instruments, available_time: Nat, sequence: Nat,
                payload: Payload]

-----------------------------------------------------------------------------
(* The order the engine requires of its events: by available_time, then by  *)
(* sequence, with no two events sharing both.                               *)
Before(e, f) ==
  \/ e.available_time < f.available_time
  \/ e.available_time = f.available_time /\ e.sequence < f.sequence

StrictlyOrdered(events) ==
  \A i, j \in DOMAIN events : i < j => Before(events[i], events[j])

-----------------------------------------------------------------------------
(* Twice the mark of an event, so that the midpoint of a quote is whole.    *)
DoubleMark(p) ==
  CASE p.kind = "bar"   -> 2 * p.close
    [] p.kind = "trade" -> 2 * p.price
    [] p.kind = "quote" -> p.bid + p.ask

MarketPrice(p, side) ==
  CASE p.kind = "bar"   -> p.open
    [] p.kind = "trade" -> p.price
    [] p.kind = "quote" -> IF side = "buy" THEN p.ask ELSE p.bid

(* The most favourable price the event proves for a side: a limit order     *)
(* fills exactly when this price reaches its limit.                         *)
BestPrice(p, side) ==
  IF p.kind = "bar"
  THEN IF side = "buy" THEN p.low ELSE p.high
  ELSE MarketPrice(p, side)

LimitTouched(p, side, limit) ==
  IF side = "buy" THEN BestPrice(p, side) <= limit ELSE BestPrice(p, side) >= limit

(* A slip: a bar fills a touched limit order at its open.                   *)
SlipFillsAtOpen(p, side, limit) == MarketPrice(p, side)

(* The price of a touched limit order: a bar only proves the limit itself.  *)
LimitFillPrice(p, side, limit) ==
  IF p.kind = "bar" THEN limit ELSE MarketPrice(p, side)
=============================================================================
