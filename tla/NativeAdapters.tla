---------------------------- MODULE NativeAdapters ----------------------------
(***************************************************************************)
(* The bridges to Backtrader and NautilusTrader (adapters/backtrader.py,   *)
(* adapters/nautilus.py) beside the reference engine, on one tape of bars  *)
(* and one stream of decisions, as evidence/adapters.py compares them.     *)
(*                                                                         *)
(* The three runs share no state; they are stepped together, bar by bar.   *)
(* The native brokers are external: Backtrader executes an order at the    *)
(* bar after its submission, NautilusTrader after the callback of the bar  *)
(* it was submitted in, perhaps in parts, and either may refuse one.       *)
(* Prices, cash and order identifiers are left out.  Quantities are whole  *)
(* numbers of a unit as fine as the decimals and the doubles need, of which *)
(* a lot has LotSize: NautilusTrader trades whole lots.  Backtrader counts *)
(* in doubles, which the bridge rounds targets to and prints fills from.   *)
(***************************************************************************)
EXTENDS Integers, Sequences, SequencesExt, FiniteSetsExt

CONSTANTS
  Tapes,        \* sequences of [instrument_id, kind]; event n has time n
  Quantities,   \* targets the strategy may ask for
  LotSize,
  Doubles,      \* the quantities that are doubles
  Printed,      \* the decimal that str makes of a double
  MaxActions,   \* bound on the actions of an event
  MaxRefusals,  \* bound on the orders the brokers refuse
  NoTarget      \* pending_target is None

(* float(): the nearest double.                                             *)
Abs(size) == IF size < 0 THEN -size ELSE size

Double(x) == CHOOSE d \in Doubles : \A e \in Doubles : Abs(d - x) <= Abs(e - x)

(* str prints the sign, and zero of zero only; two doubles that differ have *)
(* a difference that is not rounded to zero (gradual underflow).            *)
ASSUME DoublesAssumption ==
  /\ Doubles \subseteq Int /\ 0 \in Doubles
  /\ Printed \in [Doubles -> Int]
  /\ \A d \in Doubles : /\ -d \in Doubles /\ Printed[-d] = -Printed[d]
                        /\ d > 0 => Printed[d] > 0
  /\ \A d, e \in Doubles : d # e => Double(d - e) # 0

ASSUME AdaptersAssumption ==
  /\ \A t \in Tapes : Len(t) \in Nat /\ DOMAIN t = 1 .. Len(t)
  /\ Quantities \subseteq Int /\ NoTarget \notin Int
  /\ LotSize \in Nat \ {0} /\ MaxActions \in Nat /\ MaxRefusals \in Nat

VARIABLES
  tape, phase, cursor,
  acted,        \* how many actions of this event were handled
  reference, backtrader, nautilus,   \* what each run has
  refused,      \* per bridge, the orders its broker refused
  asked,        \* how many targets this event has asked for
  crowded       \* history: an event asked for more than one

bridges == <<reference, backtrader, nautilus, refused>>
vars == <<tape, phase, cursor, acted, bridges, asked, crowded>>

SlipFillAt(time, size) ==
  [time |-> time, side |-> IF size > 0 THEN "buy" ELSE "sell", quantity |-> size]

FillAt(time, size) ==
  [time |-> time, side |-> IF size > 0 THEN "buy" ELSE "sell", quantity |-> Abs(size)]

(* submitted holds the native orders not yet executed (of the reference     *)
(* engine, the pending targets); shown is the position the strategy was     *)
(* last given; rounded is history: a quantity was no double, or was printed *)
(* as another.                                                              *)
Fresh == [position |-> 0, submitted |-> <<>>, orders |-> <<>>, fills |-> <<>>, shown |-> 0,
          pending_target |-> NoTarget, rounded |-> FALSE]

Init ==
  /\ tape \in Tapes
  /\ phase = "validate" /\ cursor = 0 /\ acted = 0
  /\ reference = Fresh /\ backtrader = Fresh /\ nautilus = Fresh
  /\ refused = [backtrader |-> {}, nautilus |-> {}]
  /\ asked = 0 /\ crowded = FALSE

-----------------------------------------------------------------------------
(* Both adapters take a tape of bars of one instrument.                     *)
Acceptable ==
  /\ tape # <<>>
  /\ \A n \in DOMAIN tape : tape[n].kind = "bar"
  /\ \A m, n \in DOMAIN tape : tape[m].instrument_id = tape[n].instrument_id

RejectTape ==
  /\ phase = "validate" /\ ~Acceptable
  /\ phase' = "failed"
  /\ UNCHANGED <<tape, cursor, acted, bridges, asked, crowded>>

Start ==
  /\ phase = "validate" /\ Acceptable
  /\ phase' = "bar"
  /\ UNCHANGED <<tape, cursor, acted, bridges, asked, crowded>>

-----------------------------------------------------------------------------
(* The reference engine settles the targets of the last event one after the *)
(* other, each against the position the one before it left.                 *)
Settle(run, target, time) ==
  IF target = run.position THEN run
  ELSE [run EXCEPT !.position = target, !.fills = Append(@, FillAt(time, target - run.position))]

Settled(run, time) ==
  LET after == FoldLeft(LAMBDA r, target : Settle(r, target, time), run, run.submitted)
  IN [after EXCEPT !.submitted = <<>>, !.shown = after.position]

(* What both bridges do to submit an order and to report a fill of one.     *)
Accepted(run, size) ==
  LET id == Len(run.orders) + 1
  IN [run EXCEPT !.submitted = Append(@, [id |-> id, size |-> size]),
                 !.orders = Append(@, [id |-> id, status |-> "accepted"])]

Reported(run, id, size, time) ==
  [run EXCEPT !.position = @ + size,
              !.fills = Append(@, FillAt(time, size)),
              !.orders = Append(@, [id |-> id, status |-> "filled"])]

Exact(x) == x \in Doubles /\ Printed[x] = x

(* Backtrader's broker adds the size to the position it holds, as doubles.  *)
Executed(run, order, time) ==
  LET sum == run.position + order.size
  IN [Reported(run, order.id, Printed[order.size], time) EXCEPT
        !.position = Double(sum),
        !.rounded = @ \/ ~Exact(order.size) \/ ~Exact(sum)]

SlipNotifyOrder(run, order, completed, time) ==
  LET executed == Executed(run, order, time)
  IN IF completed THEN executed ELSE [executed EXCEPT !.position = run.position]

(* notify_order: an order that was not completed leaves no trace.           *)
NotifyOrder(run, order, completed, time) ==
  IF completed THEN Executed(run, order, time) ELSE run

(* Backtrader's broker at a bar: the submitted orders but the refused ones. *)
Brokered(run, refusals, time) ==
  LET after == FoldLeft(LAMBDA r, order : NotifyOrder(r, order, order.id \notin refusals, time),
                        run, run.submitted)
  IN [after EXCEPT !.submitted = <<>>, !.shown = Printed[after.position]]

(* The nearest whole lots; a half goes either way.                          *)
MakeQty(quantity) == {q \in {n * LotSize : n \in 0 .. quantity} : 2 * Abs(q - quantity) <= LotSize}

SlipDeltaOf(run) == IF run.pending_target = NoTarget THEN 0 ELSE run.pending_target

DeltaOf(run) ==
  IF run.pending_target = NoTarget THEN 0 ELSE run.pending_target - run.position

(* The first part of on_bar: what was decided at the last bar is submitted, *)
(* and the strategy is shown the position as it is before that executes.    *)
Submitted(run, quantity) ==
  LET cleared == [run EXCEPT !.pending_target = NoTarget, !.shown = run.position]
  IN IF DeltaOf(run) = 0 THEN cleared
     ELSE Accepted(cleared, IF DeltaOf(run) > 0 THEN quantity ELSE -quantity)

Refusals == Cardinality(refused.backtrader) + Cardinality(refused.nautilus)

BeginBar ==
  /\ phase = "bar" /\ cursor < Len(tape)
  /\ \E refusals \in SUBSET {order.id : order \in ToSet(backtrader.submitted)} :
       /\ Refusals + Cardinality(refusals) <= MaxRefusals
       /\ refused' = [refused EXCEPT !.backtrader = @ \cup refusals]
       /\ backtrader' = Brokered(backtrader, refusals, cursor + 1)
  /\ \E quantity \in MakeQty(Abs(DeltaOf(nautilus))) :
       /\ quantity = 0 => DeltaOf(nautilus) = 0
       /\ nautilus' = Submitted(nautilus, quantity)
  /\ reference' = Settled(reference, cursor + 1)
  /\ cursor' = cursor + 1
  /\ acted' = 0 /\ asked' = 0
  /\ phase' = "act"
  /\ UNCHANGED <<tape, crowded>>

(* make_qty raises for less than a lot, and the run is BACKTEST_FAILED.     *)
NautilusRaises ==
  /\ phase = "bar" /\ cursor < Len(tape)
  /\ DeltaOf(nautilus) # 0 /\ 0 \in MakeQty(Abs(DeltaOf(nautilus)))
  /\ phase' = "failed"
  /\ UNCHANGED <<tape, cursor, acted, bridges, asked, crowded>>

-----------------------------------------------------------------------------
(* The actions of an event.  NoOp and Prediction only count.                *)
HandleOther ==
  /\ phase = "act" /\ acted < MaxActions
  /\ acted' = acted + 1
  /\ UNCHANGED <<tape, phase, cursor, bridges, asked, crowded>>

(* order_target_size compares with the position and not with what is        *)
(* already submitted, and makes no order when they are equal.               *)
OrderTargetSize(run, target) == Double(Double(target) - run.position)

Ordered(run, target) ==
  LET asking == [run EXCEPT !.rounded = @ \/ ~Exact(target) \/ ~Exact(target - run.position)]
  IN IF Double(target) = run.position THEN asking
     ELSE Accepted(asking, OrderTargetSize(run, target))

SlipTargeted(run, target) ==
  IF run.pending_target = NoTarget THEN [run EXCEPT !.pending_target = target] ELSE run

(* A later target of the same event replaces the one before.                *)
Targeted(run, target) == [run EXCEPT !.pending_target = target]

HandleTarget(target) ==
  /\ phase = "act" /\ acted < MaxActions
  /\ acted' = acted + 1
  /\ reference' = [reference EXCEPT !.submitted = Append(@, target)]
  /\ backtrader' = Ordered(backtrader, target)
  /\ nautilus' = Targeted(nautilus, target)
  /\ asked' = asked + 1
  /\ crowded' = (crowded \/ asked > 0)
  /\ UNCHANGED <<tape, phase, cursor, refused>>

(* An action of another kind: both adapters fail the run.                   *)
RejectAction ==
  /\ phase = "act" /\ acted < MaxActions
  /\ phase' = "failed"
  /\ UNCHANGED <<tape, cursor, acted, bridges, asked, crowded>>

(* How NautilusTrader may fill an order of this size: whole, or in two.     *)
Parts(size) ==
  LET lots == {n * LotSize : n \in 1 .. Abs(size)}
  IN {<<size>>} \cup
     {<<size - part, part>> : part \in IF size > 0 THEN {l \in lots : l < size}
                                       ELSE {-l : l \in {m \in lots : m < -size}}}

(* on_order_filled, once for each part.                                     *)
Filled(run, parts, time) ==
  LET after == FoldLeft(LAMBDA r, size : Reported(r, run.submitted[1].id, size, time),
                        run, parts)
  IN [after EXCEPT !.submitted = <<>>]

(* The end of a bar: NautilusTrader's message queue runs.                   *)
EndBar ==
  /\ phase = "act"
  /\ IF nautilus.submitted = <<>> THEN UNCHANGED <<nautilus, refused>>
     ELSE \/ /\ \E parts \in Parts(nautilus.submitted[1].size) :
                  nautilus' = Filled(nautilus, parts, cursor)
             /\ UNCHANGED refused
          \/ /\ Refusals < MaxRefusals
             /\ refused' = [refused EXCEPT !.nautilus = @ \cup {nautilus.submitted[1].id}]
             /\ nautilus' = [nautilus EXCEPT !.submitted = <<>>]
  /\ phase' = "bar"
  /\ UNCHANGED <<tape, cursor, acted, reference, backtrader, asked, crowded>>

Finish ==
  /\ phase = "bar" /\ cursor = Len(tape)
  /\ phase' = "finished"
  /\ UNCHANGED <<tape, cursor, acted, bridges, asked, crowded>>

Ended == phase \in {"finished", "failed"} /\ UNCHANGED vars

Next ==
  \/ RejectTape \/ Start \/ BeginBar \/ NautilusRaises
  \/ HandleOther \/ (\E q \in Quantities : HandleTarget(q)) \/ RejectAction
  \/ EndBar \/ Finish \/ Ended

Spec == Init /\ [][Next]_vars

-----------------------------------------------------------------------------
Fill == [time : 1 .. Len(tape), side : {"buy", "sell"}, quantity : Nat \ {0}]

RunTypeOK(run) ==
  /\ {run.position, run.shown} \subseteq Int
  /\ run.pending_target \in Quantities \cup {NoTarget}
  /\ \A n \in DOMAIN run.fills : run.fills[n] \in Fill

(* Types: a fill has a side and a quantity that is not zero or signed.      *)
BridgesTypeOK ==
  /\ phase \in {"validate", "bar", "act", "finished", "failed"}
  /\ cursor \in 0 .. Len(tape)
  /\ RunTypeOK(reference) /\ RunTypeOK(backtrader) /\ RunTypeOK(nautilus)

(* What the reports of the runs must agree on when the brokers refuse       *)
(* nothing: all three hold, at the end of every bar, the position decided   *)
(* at the bar before, NautilusTrader to the nearest lot, and Backtrader as  *)
(* long as no double was rounded and an event has one target only: of       *)
(* several, it adds up the differences.                                     *)
PositionsAgree ==
  phase = "bar" =>
    /\ refused.nautilus = {} => 2 * Abs(nautilus.position - reference.position) <= LotSize
    /\ (refused.backtrader = {} /\ ~crowded /\ ~backtrader.rounded)
         => backtrader.position = reference.position

(* The fills of the three runs agree in time, side and quantity, which is   *)
(* what the cross-engine evidence compares, when in addition no order is    *)
(* filled in parts and quantities are whole lots.                           *)
WholeLots(quantity) == quantity % LotSize = 0

Split(run) ==
  \E m, n \in DOMAIN run.orders :
    m < n /\ run.orders[m] = run.orders[n] /\ run.orders[m].status = "filled"

FillShapesAgree ==
  (phase = "bar" /\ ~crowded) =>
    /\ (refused.backtrader = {} /\ ~backtrader.rounded) => backtrader.fills = reference.fills
    /\ (/\ refused.nautilus = {} /\ ~Split(nautilus)
        /\ \A n \in DOMAIN reference.fills : WholeLots(reference.fills[n].quantity))
         => nautilus.fills = reference.fills

(* The position a strategy is shown is the sum of the fills reported so     *)
(* far, on Backtrader as long as no double was rounded: of this bar too,    *)
(* except on NautilusTrader, where the orders of this bar have not executed *)
(* when the strategy is called.                                             *)
Signed(fill) == IF fill.side = "buy" THEN fill.quantity ELSE -fill.quantity

Counted(sum, fill, time) == IF fill.time <= time THEN sum + Signed(fill) ELSE sum

PositionAt(run, time) ==
  FoldLeft(LAMBDA sum, fill : Counted(sum, fill, time), 0, run.fills)

SnapshotsExplained ==
  phase = "act" =>
    /\ reference.shown = PositionAt(reference, cursor)
    /\ ~backtrader.rounded => backtrader.shown = PositionAt(backtrader, cursor)
    /\ nautilus.shown = PositionAt(nautilus, cursor - 1)

(* Orders and fills are normalized into the report and no rejection is      *)
(* swallowed (docs/adapter-guide.md:31): of every order the broker refused, *)
(* the report has an entry that says so.                                    *)
RejectionsReported ==
  \A broker \in {<<backtrader, refused.backtrader>>, <<nautilus, refused.nautilus>>} :
    \A id \in broker[2] :
      \E order \in ToSet(broker[1].orders) : order.id = id /\ order.status = "rejected"
=============================================================================
