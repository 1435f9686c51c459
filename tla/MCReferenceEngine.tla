-------------------------- MODULE MCReferenceEngine --------------------------
(***************************************************************************)
(* Small instances of the reference engine for TLC.                        *)
(***************************************************************************)
EXTENDS EngineProperties

Bar(o, h, l, c) == [kind |-> "bar", open |-> o, high |-> h, low |-> l, close |-> c]
Trade(p)        == [kind |-> "trade", price |-> p]
Quote(b, a)     == [kind |-> "quote", bid |-> b, ask |-> a]

At(t, s, i, p) ==
  [instrument_id |-> i, available_time |-> t, sequence |-> s, payload |-> p]

Submit(id, i, side, type, q, limit) ==
  [kind |-> "submit_order", client_order_id |-> id, instrument_id |-> i,
   side |-> side, order_type |-> type, quantity |-> q, limit_price |-> limit]
Target(i, q)   == [kind |-> "target_position", instrument_id |-> i, quantity |-> q]
Weight(i, w)   == [kind |-> "target_weight", instrument_id |-> i, weight |-> w]
Cancel(id)     == [kind |-> "cancel_order", client_order_id |-> id]
Replace(id, q, p) ==
  [kind |-> "replace_order", client_order_id |-> id, new_quantity |-> q,
   new_limit_price |-> p]

C1 == <<"client", 1>>
C2 == <<"client", 2>>

-----------------------------------------------------------------------------
(* Runs about orders: a bar that jumps through both limits, a bar that only *)
(* touches its low, quotes and trades, two instruments, a shared timestamp, *)
(* and the two tapes the validation refuses.                                *)
TwoInstruments == {"a", "b"}

WideBar   == Bar(4, 6, 2, 5)
NarrowBar == Bar(3, 4, 3, 4)

BadTapes == {<<>>, <<At(2, 0, "a", WideBar), At(1, 0, "a", WideBar)>>,
             <<At(1, 0, "a", WideBar), At(1, 0, "b", Trade(3))>>}

OrderTapes == BadTapes \cup
  {<<At(1, 0, "a", NarrowBar), At(2, 0, "a", NarrowBar), At(2, 1, "a", WideBar)>>,
   <<At(1, 0, "a", WideBar), At(2, 0, "b", Quote(3, 5)), At(3, 0, "a", NarrowBar)>>,
   <<At(1, 0, "a", Trade(4)), At(2, 0, "a", Quote(2, 5)), At(3, 0, "a", Trade(3))>>}

OrderActions ==
  {Submit(C1, "a", "buy", "limit", 2, 2), Submit(C2, "a", "sell", "limit", 1, 5),
   Submit(C1, "a", "sell", "market", 1, 0), Submit(C2, "b", "buy", "stop", 1, 0),
   Target("a", 2), Cancel(C1), Cancel(GeneratedId(1)), Replace(C1, 0, 3)}

(* The same with identifiers of the generated form in the strategy's hands. *)
CollidingActions ==
  {Submit(GeneratedId(2), "a", "buy", "limit", 1, 2), Target("a", 1),
   Cancel(GeneratedId(2)), [kind |-> "no_op"]}

-----------------------------------------------------------------------------
(* Runs about targets: several pending at once, on two instruments, by      *)
(* quantity and by weight, canceled, beyond the limit, off the universe.    *)
TargetTapes ==
  {<<At(1, 0, "a", WideBar), At(2, 0, "b", Quote(2, 3)), At(3, 0, "a", Trade(3))>>,
   <<At(1, 0, "b", Trade(3)), At(2, 0, "a", Trade(4)), At(2, 1, "b", Quote(2, 5))>>,
   <<At(1, 0, "a", NarrowBar), At(2, 0, "a", WideBar), At(3, 0, "a", NarrowBar)>>}

TargetActions ==
  {Target("a", 2), Target("a", -1), Weight("a", 1), Weight("b", -1),
   Cancel(GeneratedId(1)), [kind |-> "no_op"], [kind |-> "prediction"]}

=============================================================================
