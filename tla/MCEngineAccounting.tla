------------------------- MODULE MCEngineAccounting -------------------------
(***************************************************************************)
(* A small instance of the engine with its books: a strategy that returns  *)
(* any market and limit orders, which add to, reduce, close and turn round *)
(* positions at several prices, and every bundled strategy on the kind of  *)
(* tape it reads.                                                          *)
(***************************************************************************)
EXTENDS Strategies, MCReferenceEngine

BookTapes ==
  {<<At(1, 0, "a", Trade(3)), At(2, 0, "a", Quote(2, 5)), At(3, 0, "a", WideBar),
     At(4, 0, "a", Trade(6))>>,
   <<At(1, 0, "a", Quote(3, 4)), At(2, 0, "b", Trade(5)), At(3, 0, "a", NarrowBar),
     At(4, 0, "b", Quote(2, 7))>>}

BookActions ==
  {Submit(C1, "a", "buy", "market", 2, 0), Submit(C2, "a", "sell", "market", 3, 0),
   Submit(C1, "a", "sell", "limit", 1, 5), Submit(C2, "b", "buy", "limit", 2, 5),
   Target("b", -1)}

-----------------------------------------------------------------------------
ThreeInstruments == {"a", "b", "c"}
MCPair  == <<"a", "b">>
MCBatch == <<"a", "b", "c">>

Flat(price) == Bar(price, price, price, price)

(* Rising, falling and still bars, with a quote among them; quotes that     *)
(* touch and miss the orders of the event before, with a trade among them.  *)
BarTape   == <<At(1, 0, "a", Flat(3)), At(2, 0, "a", Flat(4)), At(3, 0, "a", WideBar),
               At(4, 0, "a", Quote(5, 6)), At(5, 0, "a", Flat(7)), At(6, 0, "a", Flat(1))>>
QuoteTape == <<At(1, 0, "a", Quote(4, 6)), At(2, 0, "a", Quote(6, 8)), At(3, 0, "a", Trade(5)),
               At(4, 0, "a", Quote(3, 4)), At(5, 0, "a", Quote(4, 7))>>

(* Bars of a pair, out of step at time 3 and in the other order at time 4,  *)
(* and with a bar of a third instrument between; bars of three instruments. *)
PairTape  == <<At(1, 0, "a", Flat(5)), At(1, 1, "b", Flat(4)),
               At(2, 0, "a", Flat(7)), At(2, 1, "b", Flat(4)), At(2, 2, "c", Flat(2)),
               At(3, 0, "a", Flat(9)),
               At(4, 0, "b", Flat(4)), At(4, 1, "a", Flat(9)),
               At(5, 0, "a", Flat(3)), At(5, 1, "b", Flat(5)),
               At(6, 0, "a", Flat(3)), At(6, 1, "b", Flat(5))>>
BatchTape == <<At(1, 0, "a", Flat(5)), At(1, 1, "b", Flat(4)), At(1, 2, "c", Flat(2)),
               At(2, 0, "c", Flat(3)), At(2, 1, "a", Flat(4))>>

Pairs == {"pairs_zscore", "dyna_q_pairs"}
Reading(kind) == {s \in DOMAIN Manifests : Manifests[s].reads = kind}

MCSessions ==
  ({"any"} \X BookTapes) \cup (Pairs \X {PairTape}) \cup {<<"cross_sectional_ranker", BatchTape>>}
  \cup ((Reading("bar") \ (Pairs \cup {"cross_sectional_ranker"})) \X {BarTape})
  \cup (Reading("quote") \X {QuoteTape})

MCTapes == {s[2] : s \in MCSessions}
=============================================================================
