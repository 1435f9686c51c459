------------------------- MODULE NativeAdapters_proofs -------------------------
(***************************************************************************)
(* Proofs that the bridges and the reference engine agree, for any tapes,  *)
(* any targets and any number of actions, and however the native brokers   *)
(* fill and refuse.                                                        *)
(***************************************************************************)
EXTENDS NativeAdapters, SequenceTheorems, WellFoundedInduction, TLAPS

OrderEntry == [id : Nat \ {0}, status : {"accepted", "filled"}]
NativeOrder == [id : Nat \ {0}, size : Int \ {0}]
Bridge(S) == [position : Int, submitted : Seq(S), orders : Seq(OrderEntry), fills : Seq(Fill),
              shown : Int, pending_target : Quantities \cup {NoTarget}, rounded : BOOLEAN]

(* Backtrader holds and trades doubles, and as long as none was rounded the *)
(* position prints as what it is.                                           *)
DoubleOrder == [id : Nat \ {0}, size : Doubles \ {0}]
Holding == {run \in Bridge(DoubleOrder) : /\ run.position \in Doubles
                                          /\ ~run.rounded => Exact(run.position)}

(* The invariant.  TapeInv: what does not depend on the bridges.            *)
TapeInv ==
  /\ tape \in Tapes
  /\ phase \in {"validate", "bar", "act", "finished", "failed"}
  /\ cursor \in 0 .. Len(tape) /\ (phase = "act" => cursor # 0)
  /\ acted \in Nat /\ asked \in Nat /\ crowded \in BOOLEAN
  /\ refused \in [backtrader : SUBSET Nat, nautilus : SUBSET Nat]

BridgesInv ==
  /\ reference \in Bridge(Quantities)
  /\ backtrader \in Holding
  /\ nautilus \in Bridge(NativeOrder)

(* What this event asked for is what the reference engine will settle, and  *)
(* an event that is not crowded asked for one target at most.               *)
AskedInv ==
  /\ asked = Len(reference.submitted)
  /\ ~crowded => asked <= 1

Flying(run) == {order.id : order \in ToSet(run.submitted)}

(* Backtrader has, of the one target there may be, the order that will      *)
(* bring it where the reference engine goes.                                *)
BacktraderInv ==
  (~crowded /\ refused.backtrader = {} /\ ~backtrader.rounded) =>
    /\ backtrader.position = reference.position
    /\ backtrader.fills = reference.fills
    /\ IF reference.submitted = <<>> \/ reference.submitted[1] = reference.position
       THEN backtrader.submitted = <<>>
       ELSE /\ Len(backtrader.submitted) = 1
            /\ backtrader.submitted[1].size = reference.submitted[1] - reference.position

InFlight(run) == IF run.submitted = <<>> THEN 0 ELSE run.submitted[1].size

(* NautilusTrader keeps the last target, holds whole lots, and has one      *)
(* order at most, within a bar.                                             *)
PendingInv ==
  /\ nautilus.pending_target = IF reference.submitted = <<>> THEN NoTarget
                               ELSE reference.submitted[Len(reference.submitted)]
  /\ Len(nautilus.submitted) <= 1
  /\ phase # "act" /\ phase # "failed" => nautilus.submitted = <<>>
  /\ WholeLots(nautilus.position)
  /\ WholeLots(InFlight(nautilus))

(* With what is in flight, it is where the reference engine is to the       *)
(* nearest lot.                                                             *)
NautilusInv ==
  refused.nautilus = {} =>
    2 * Abs((nautilus.position + InFlight(nautilus)) - reference.position) <= LotSize

(* Fills in whole lots leave a position in whole lots, and NautilusTrader's *)
(* fills are the reference engine's but for the one in flight.              *)
WholeFills == \A n \in DOMAIN reference.fills : WholeLots(reference.fills[n].quantity)

FillsInv ==
  (~crowded /\ WholeFills) =>
    /\ WholeLots(reference.position)
    /\ (refused.nautilus = {} /\ ~Split(nautilus)) =>
         reference.fills = IF nautilus.submitted = <<>> THEN nautilus.fills
                           ELSE Append(nautilus.fills, FillAt(cursor, nautilus.submitted[1].size))

AdaptersInv ==
  /\ TapeInv /\ BridgesInv /\ AskedInv
  /\ BacktraderInv /\ PendingInv /\ NautilusInv /\ FillsInv

-----------------------------------------------------------------------------
(* Induction over the numbers, in the form of a least counterexample.       *)
Before == OpToRel(<, Nat)

LEMMA Inductive ==
  ASSUME NEW S, 0 \in S, \A k \in Nat : k \in S => k + 1 \in S
  PROVE  Nat \subseteq S
<1> DEFINE T == Nat \ S
<1> SUFFICES ASSUME T # {} PROVE FALSE
  OBVIOUS
<1>1. IsWellFoundedOn(Before, Nat)
  BY NatLessThanWellFounded DEF Before
<1>2. PICK k \in T : \A m \in T : ~(<<m, k>> \in Before)
  BY <1>1, WFMin
<1>3. k \in Nat /\ k # 0 /\ k - 1 \in Nat
  OBVIOUS
<1>4. k - 1 \in S
  <2>1. <<k - 1, k>> \in Before
    BY <1>3 DEF Before, OpToRel
  <2>2. QED
    BY <1>2, <1>3, <2>1
<1>5. QED
  BY <1>3, <1>4

(* The greatest number of a tuple's positions.                              *)
LEMMA GreatestNumber ==
  ASSUME NEW n \in Nat, NEW s \in SUBSET (1 .. n), s # {}
  PROVE  Max(s) \in s /\ \A m \in s : Max(s) >= m
<1> DEFINE T == {n - m : m \in s}
<1>1. T \subseteq Nat /\ T # {}
  <2>1. \A m \in s : m \in 1 .. n /\ n - m \in Nat
    OBVIOUS
  <2>2. PICK m \in s : TRUE
    OBVIOUS
  <2>3. n - m \in T
    BY <2>2
  <2>4. QED
    BY <2>1, <2>3
<1>2. IsWellFoundedOn(Before, Nat)
  BY NatLessThanWellFounded DEF Before
<1>3. PICK d \in T : \A e \in T : ~(<<e, d>> \in Before)
  BY <1>1, <1>2, WFMin
<1>4. PICK m \in s : d = n - m
  OBVIOUS
<1>5. ASSUME NEW k \in s PROVE m >= k
  <2>1. n - k \in T /\ n - k \in Nat /\ d \in Nat
    BY <1>1
  <2>2. ~(n - k < d)
    BY <1>3, <2>1 DEF Before, OpToRel
  <2>3. QED
    BY <1>4, <2>2
<1>6. QED
  BY <1>5 DEF Max

(* A fold over the first n elements of a tuple, one element at a time: the  *)
(* function over sets of positions that FoldLeft recurs over exists.        *)
Iterates(g, n, step, base, seq) ==
  \A s \in SUBSET (1 .. n) :
    g[s] = IF s = {} THEN base ELSE step[<<g[s \ {Max(s)}], seq[Max(s)]>>]

LEMMA IterateExists ==
  ASSUME NEW V, NEW E, NEW step \in [V \X E -> V], NEW base \in V, NEW N \in Nat,
         NEW seq \in [1 .. N -> E]
  PROVE  \A n \in Nat : n <= N => \E g \in [SUBSET (1 .. n) -> V] : Iterates(g, n, step, base, seq)
<1> DEFINE Exists(n) == \E g \in [SUBSET (1 .. n) -> V] : Iterates(g, n, step, base, seq)
           S == {n \in Nat : n <= N => Exists(n)}
<1>1. Exists(0)
  <2> DEFINE g == [s \in SUBSET (1 .. 0) |-> base]
  <2>1. \A s \in SUBSET (1 .. 0) : s = {}
    OBVIOUS
  <2>2. g \in [SUBSET (1 .. 0) -> V] /\ Iterates(g, 0, step, base, seq)
    BY <2>1 DEF Iterates
  <2>3. QED
    BY <2>2
<1>2. ASSUME NEW n \in Nat, Exists(n), n + 1 <= N PROVE Exists(n + 1)
  <2>1. PICK g \in [SUBSET (1 .. n) -> V] : Iterates(g, n, step, base, seq)
    BY <1>2
  <2> DEFINE h == [s \in SUBSET (1 .. n + 1) |->
                     IF n + 1 \in s THEN step[<<g[s \ {n + 1}], seq[n + 1]>>] ELSE g[s]]
  <2>2. \A s \in SUBSET (1 .. n + 1) : /\ s \ {n + 1} \in SUBSET (1 .. n)
                                       /\ n + 1 \notin s => s \in SUBSET (1 .. n)
    OBVIOUS
  <2>3. h \in [SUBSET (1 .. n + 1) -> V]
    <3>1. n + 1 \in 1 .. N
      BY <1>2
    <3>2. QED
      BY <2>2, <3>1
  <2>4. ASSUME NEW s \in SUBSET (1 .. n + 1)
        PROVE  h[s] = IF s = {} THEN base ELSE step[<<h[s \ {Max(s)}], seq[Max(s)]>>]
    <3>1. CASE n + 1 \in s
      <4>1. Max(s) \in s /\ \A m \in s : Max(s) >= m
        <5>1. n + 1 \in Nat /\ s # {}
          BY <3>1
        <5>2. QED
          BY <5>1, GreatestNumber
      <4>2. Max(s) = n + 1
        <5>1. \A m \in s : m \in Int /\ m <= n + 1
          OBVIOUS
        <5>2. Max(s) \in Int /\ Max(s) <= n + 1
          BY <4>1, <5>1
        <5>3. Max(s) >= n + 1
          BY <3>1, <4>1
        <5>4. n + 1 \in Int
          OBVIOUS
        <5>5. QED
          BY <5>2, <5>3, <5>4
      <4>3. s \ {n + 1} \in SUBSET (1 .. n) /\ s \ {n + 1} \in SUBSET (1 .. n + 1)
            /\ n + 1 \notin s \ {n + 1}
        BY <2>2
      <4>4. h[s \ {n + 1}] = g[s \ {n + 1}]
        BY <4>3
      <4>5. QED
        BY <3>1, <4>2, <4>4
    <3>2. CASE n + 1 \notin s /\ s # {}
      <4>1. s \in SUBSET (1 .. n) /\ Max(s) \in s
        <5>1. n + 1 \in Nat /\ s # {}
          BY <3>2
        <5>2. Max(s) \in s
          BY <5>1, GreatestNumber
        <5>3. QED
          BY <2>2, <3>2, <5>2
      <4>2. s \ {Max(s)} \in SUBSET (1 .. n + 1) /\ n + 1 \notin s \ {Max(s)}
        BY <3>2
      <4>3. h[s \ {Max(s)}] = g[s \ {Max(s)}] /\ h[s] = g[s]
        BY <3>2, <4>2
      <4>4. QED
        BY <2>1, <3>2, <4>1, <4>3 DEF Iterates
    <3>3. CASE s = {}
      BY <2>1, <3>3 DEF Iterates
    <3>4. QED
      BY <3>1, <3>2, <3>3
  <2> HIDE DEF h
  <2>5. Iterates(h, n + 1, step, base, seq)
    BY <2>4 DEF Iterates
  <2>6. QED
    BY <2>3, <2>5
<1> HIDE DEF Exists
<1>3. 0 \in S /\ \A n \in Nat : n \in S => n + 1 \in S
  BY <1>1, <1>2
<1> HIDE DEF S
<1>4. Nat \subseteq S
  BY <1>3, Inductive
<1>5. \A n \in Nat : n <= N => Exists(n)
  BY <1>4 DEF S
<1>6. QED
  BY <1>5 DEF Exists

LEMMA UpTo ==
  ASSUME NEW k \in Nat, k # 0
  PROVE  1 .. k # {} /\ Max(1 .. k) = k /\ (1 .. k) \ {k} = 1 .. (k - 1)
<1>1. k \in 1 .. k /\ 1 .. k \in SUBSET (1 .. k)
  OBVIOUS
<1>2. Max(1 .. k) \in 1 .. k /\ \A m \in 1 .. k : Max(1 .. k) >= m
  BY <1>1, GreatestNumber
<1>3. QED
  BY <1>1, <1>2

(* Such a function, over the first k positions, is the fold after k steps.  *)
Recurs(iter, V, E, N, step, base, seq) ==
  /\ step \in [V \X E -> V] /\ base \in V /\ N \in Nat /\ seq \in [1 .. N -> E]
  /\ iter[{}] = base
  /\ \A s \in SUBSET (1 .. N) :
       s # {} /\ iter[s \ {Max(s)}] \in V
         => iter[s] = step[<<iter[s \ {Max(s)}], seq[Max(s)]>>]

LEMMA Walk ==
  ASSUME NEW V, NEW E, NEW N, NEW step, NEW base, NEW seq, NEW iter,
         Recurs(iter, V, E, N, step, base, seq)
  PROVE  \E h \in [0 .. N -> V] :
           /\ h[0] = base
           /\ \A k \in 1 .. N : h[k] = step[<<h[k - 1], seq[k]>>]
           /\ h[N] = iter[1 .. N]
<1> DEFINE T == {k \in Nat : k <= N => iter[1 .. k] \in V}
           h == [k \in 0 .. N |-> iter[1 .. k]]
<1> USE DEF Recurs
<1>1. ASSUME NEW k \in 1 .. N, iter[1 .. (k - 1)] \in V
      PROVE  iter[1 .. k] = step[<<iter[1 .. (k - 1)], seq[k]>>] /\ iter[1 .. k] \in V
  <2>1. k \in Nat /\ k # 0 /\ 1 .. k \in SUBSET (1 .. N) /\ seq[k] \in E
    OBVIOUS
  <2>2. 1 .. k # {} /\ Max(1 .. k) = k /\ (1 .. k) \ {k} = 1 .. (k - 1)
    BY <2>1, UpTo
  <2>3. QED
    BY <1>1, <2>1, <2>2
<1>2. 1 .. 0 = {}
  OBVIOUS
<1>3. 0 \in T
  BY <1>2
<1>4. ASSUME NEW k \in Nat, k \in T, k + 1 <= N PROVE iter[1 .. (k + 1)] \in V
  <2>1. k + 1 \in 1 .. N /\ (k + 1) - 1 = k /\ iter[1 .. k] \in V
    BY <1>4
  <2>2. QED
    BY <1>1, <2>1
<1>5. \A k \in Nat : k \in T => k + 1 \in T
  BY <1>4
<1> HIDE DEF T
<1>6. Nat \subseteq T
  BY <1>3, <1>5, Inductive
<1>7. \A k \in Nat : k <= N => iter[1 .. k] \in V
  BY <1>6 DEF T
<1>8. \A k \in 0 .. N : iter[1 .. k] \in V
  <2>1. \A k \in 0 .. N : k \in Nat /\ k <= N
    OBVIOUS
  <2>2. QED
    BY <1>7, <2>1
<1>9. h \in [0 .. N -> V] /\ h[0] = base /\ h[N] = iter[1 .. N]
  BY <1>2, <1>8
<1>10. ASSUME NEW k \in 1 .. N PROVE h[k] = step[<<h[k - 1], seq[k]>>]
  <2>1. k \in 0 .. N /\ k - 1 \in 0 .. N
    OBVIOUS
  <2>2. QED
    BY <1>1, <1>8, <2>1
<1> HIDE DEF h
<1>11. QED
  BY <1>9, <1>10

(* What the reference engine's fold over the targets passes through.        *)
Settles(V, S, time) == \A r \in V, target \in S : Settle(r, target, time) \in V

SettleAll(run, targets, time) ==
  FoldLeft(LAMBDA r, target : Settle(r, target, time), run, targets)

LEMMA SettleFold ==
  ASSUME NEW V, NEW S, NEW run \in V, NEW targets \in Seq(S), NEW time,
         Settles(V, S, time)
  PROVE  \E h \in [0 .. Len(targets) -> V] :
           /\ h[0] = run
           /\ \A k \in 1 .. Len(targets) : h[k] = Settle(h[k - 1], targets[k], time)
           /\ h[Len(targets)] = SettleAll(run, targets, time)
<1> DEFINE N == Len(targets)
           D == DOMAIN targets
           step == [p \in V \X S |-> Settle(p[1], p[2], time)]
           Steps(f) == f = [s \in SUBSET D |-> IF s = {} THEN run
                              ELSE Settle(f[s \ {Max(s)}], targets[Max(s)], time)]
           iter == CHOOSE f : Steps(f)
<1>1. N \in Nat /\ D = 1 .. N /\ targets \in [1 .. N -> S]
  OBVIOUS
<1>2. /\ step \in [V \X S -> V]
      /\ \A r \in V, target \in S : step[<<r, target>>] = Settle(r, target, time)
  BY DEF Settles
<1>3. ASSUME NEW f, NEW s \in SUBSET D, s # {}, f[s \ {Max(s)}] \in V
      PROVE  step[<<f[s \ {Max(s)}], targets[Max(s)]>>]
               = Settle(f[s \ {Max(s)}], targets[Max(s)], time)
  <2>1. Max(s) \in D
    BY <1>1, <1>3, GreatestNumber
  <2> HIDE DEF step
  <2>2. QED
    BY <1>1, <1>2, <1>3, <2>1
<1> HIDE DEF step
<1>4. \E f : Steps(f)
  <2>1. N <= N
    BY <1>1
  <2>2. PICK g \in [SUBSET (1 .. N) -> V] : Iterates(g, N, step, run, targets)
    BY <1>1, <1>2, <2>1, IterateExists
  <2>3. g[{}] = run /\ \A s \in SUBSET D : g[s \ {Max(s)}] \in V
    BY <1>1, <2>2 DEF Iterates
  <2>4. ASSUME NEW s \in SUBSET D, s # {}
        PROVE  g[s] = Settle(g[s \ {Max(s)}], targets[Max(s)], time)
    BY <1>1, <1>3, <2>2, <2>3, <2>4 DEF Iterates
  <2>5. Steps(g)
    BY <1>1, <2>2, <2>3, <2>4
  <2>6. QED
    BY <2>5
<1>5. Steps(iter)
  BY <1>4
<1>6. SettleAll(run, targets, time) = iter[D]
  BY DEF SettleAll, FoldLeft, MapThenFoldSet
<1> HIDE DEF iter
<1>7. iter[{}] = run
  BY <1>5
<1>8. Recurs(iter, V, S, N, step, run, targets)
  <2>1. \A s \in SUBSET (1 .. N) :
          s # {} /\ iter[s \ {Max(s)}] \in V
            => iter[s] = step[<<iter[s \ {Max(s)}], targets[Max(s)]>>]
    BY <1>1, <1>3, <1>5
  <2> HIDE DEF N
  <2>2. QED
    BY <1>1, <1>2, <1>7, <2>1 DEF Recurs
<1>9. PICK h \in [0 .. N -> V] :
             /\ h[0] = run
             /\ \A k \in 1 .. N : h[k] = step[<<h[k - 1], targets[k]>>]
             /\ h[N] = iter[1 .. N]
  BY <1>8, Walk
<1>10. ASSUME NEW k \in 1 .. N PROVE h[k] = Settle(h[k - 1], targets[k], time)
  <2>1. h[k - 1] \in V /\ targets[k] \in S
    BY <1>1, <1>9
  <2>2. QED
    BY <1>2, <1>9, <2>1
<1>11. h[N] = iter[D]
  BY <1>1, <1>9
<1>12. QED
  BY <1>6, <1>9, <1>10, <1>11

Notified(r, order, refusals, time) == NotifyOrder(r, order, order.id \notin refusals, time)

(* And Backtrader's over the orders submitted.                              *)
Notifies(V, S, refusals, time) == \A r \in V, order \in S : Notified(r, order, refusals, time) \in V

NotifyAll(run, orders, refusals, time) ==
  FoldLeft(LAMBDA r, order : Notified(r, order, refusals, time), run, orders)

LEMMA NotifyFold ==
  ASSUME NEW V, NEW S, NEW run \in V, NEW orders \in Seq(S), NEW refusals, NEW time,
         Notifies(V, S, refusals, time)
  PROVE  \E h \in [0 .. Len(orders) -> V] :
           /\ h[0] = run
           /\ \A k \in 1 .. Len(orders) : h[k] = Notified(h[k - 1], orders[k], refusals, time)
           /\ h[Len(orders)] = NotifyAll(run, orders, refusals, time)
<1> DEFINE N == Len(orders)
           D == DOMAIN orders
           step == [p \in V \X S |-> Notified(p[1], p[2], refusals, time)]
           Steps(f) == f = [s \in SUBSET D |-> IF s = {} THEN run
                              ELSE Notified(f[s \ {Max(s)}], orders[Max(s)], refusals, time)]
           iter == CHOOSE f : Steps(f)
<1>1. N \in Nat /\ D = 1 .. N /\ orders \in [1 .. N -> S]
  OBVIOUS
<1>2. /\ step \in [V \X S -> V]
      /\ \A r \in V, order \in S : step[<<r, order>>] = Notified(r, order, refusals, time)
  BY DEF Notifies
<1>3. ASSUME NEW f, NEW s \in SUBSET D, s # {}, f[s \ {Max(s)}] \in V
      PROVE  step[<<f[s \ {Max(s)}], orders[Max(s)]>>]
               = Notified(f[s \ {Max(s)}], orders[Max(s)], refusals, time)
  <2>1. Max(s) \in D
    BY <1>1, <1>3, GreatestNumber
  <2> HIDE DEF step
  <2>2. QED
    BY <1>1, <1>2, <1>3, <2>1
<1> HIDE DEF step
<1>4. \E f : Steps(f)
  <2>1. N <= N
    BY <1>1
  <2>2. PICK g \in [SUBSET (1 .. N) -> V] : Iterates(g, N, step, run, orders)
    BY <1>1, <1>2, <2>1, IterateExists
  <2>3. g[{}] = run /\ \A s \in SUBSET D : g[s \ {Max(s)}] \in V
    BY <1>1, <2>2 DEF Iterates
  <2>4. ASSUME NEW s \in SUBSET D, s # {}
        PROVE  g[s] = Notified(g[s \ {Max(s)}], orders[Max(s)], refusals, time)
    BY <1>1, <1>3, <2>2, <2>3, <2>4 DEF Iterates
  <2>5. Steps(g)
    BY <1>1, <2>2, <2>3, <2>4
  <2>6. QED
    BY <2>5
<1>5. Steps(iter)
  BY <1>4
<1>6. NotifyAll(run, orders, refusals, time) = iter[D]
  BY DEF NotifyAll, FoldLeft, MapThenFoldSet
<1> HIDE DEF iter
<1>7. iter[{}] = run
  BY <1>5
<1>8. Recurs(iter, V, S, N, step, run, orders)
  <2>1. \A s \in SUBSET (1 .. N) :
          s # {} /\ iter[s \ {Max(s)}] \in V
            => iter[s] = step[<<iter[s \ {Max(s)}], orders[Max(s)]>>]
    BY <1>1, <1>3, <1>5
  <2> HIDE DEF N
  <2>2. QED
    BY <1>1, <1>2, <1>7, <2>1 DEF Recurs
<1>9. PICK h \in [0 .. N -> V] :
             /\ h[0] = run
             /\ \A k \in 1 .. N : h[k] = step[<<h[k - 1], orders[k]>>]
             /\ h[N] = iter[1 .. N]
  BY <1>8, Walk
<1>10. ASSUME NEW k \in 1 .. N PROVE h[k] = Notified(h[k - 1], orders[k], refusals, time)
  <2>1. h[k - 1] \in V /\ orders[k] \in S
    BY <1>1, <1>9
  <2>2. QED
    BY <1>2, <1>9, <2>1
<1>11. h[N] = iter[D]
  BY <1>1, <1>9
<1>12. QED
  BY <1>6, <1>9, <1>10, <1>11

(* And NautilusTrader's over the parts an order is filled in.               *)
Reports(V, S, id, time) == \A r \in V, size \in S : Reported(r, id, size, time) \in V

ReportAll(run, parts, id, time) ==
  FoldLeft(LAMBDA r, size : Reported(r, id, size, time), run, parts)

LEMMA ReportFold ==
  ASSUME NEW V, NEW S, NEW run \in V, NEW parts \in Seq(S), NEW id, NEW time,
         Reports(V, S, id, time)
  PROVE  \E h \in [0 .. Len(parts) -> V] :
           /\ h[0] = run
           /\ \A k \in 1 .. Len(parts) : h[k] = Reported(h[k - 1], id, parts[k], time)
           /\ h[Len(parts)] = ReportAll(run, parts, id, time)
<1> DEFINE N == Len(parts)
           D == DOMAIN parts
           step == [p \in V \X S |-> Reported(p[1], id, p[2], time)]
           Steps(f) == f = [s \in SUBSET D |-> IF s = {} THEN run
                              ELSE Reported(f[s \ {Max(s)}], id, parts[Max(s)], time)]
           iter == CHOOSE f : Steps(f)
<1>1. N \in Nat /\ D = 1 .. N /\ parts \in [1 .. N -> S]
  OBVIOUS
<1>2. /\ step \in [V \X S -> V]
      /\ \A r \in V, size \in S : step[<<r, size>>] = Reported(r, id, size, time)
  BY DEF Reports
<1>3. ASSUME NEW f, NEW s \in SUBSET D, s # {}, f[s \ {Max(s)}] \in V
      PROVE  step[<<f[s \ {Max(s)}], parts[Max(s)]>>]
               = Reported(f[s \ {Max(s)}], id, parts[Max(s)], time)
  <2>1. Max(s) \in D
    BY <1>1, <1>3, GreatestNumber
  <2> HIDE DEF step
  <2>2. QED
    BY <1>1, <1>2, <1>3, <2>1
<1> HIDE DEF step
<1>4. \E f : Steps(f)
  <2>1. N <= N
    BY <1>1
  <2>2. PICK g \in [SUBSET (1 .. N) -> V] : Iterates(g, N, step, run, parts)
    BY <1>1, <1>2, <2>1, IterateExists
  <2>3. g[{}] = run /\ \A s \in SUBSET D : g[s \ {Max(s)}] \in V
    BY <1>1, <2>2 DEF Iterates
  <2>4. ASSUME NEW s \in SUBSET D, s # {}
        PROVE  g[s] = Reported(g[s \ {Max(s)}], id, parts[Max(s)], time)
    BY <1>1, <1>3, <2>2, <2>3, <2>4 DEF Iterates
  <2>5. Steps(g)
    BY <1>1, <2>2, <2>3, <2>4
  <2>6. QED
    BY <2>5
<1>5. Steps(iter)
  BY <1>4
<1>6. ReportAll(run, parts, id, time) = iter[D]
  BY DEF ReportAll, FoldLeft, MapThenFoldSet
<1> HIDE DEF iter
<1>7. iter[{}] = run
  BY <1>5
<1>8. Recurs(iter, V, S, N, step, run, parts)
  <2>1. \A s \in SUBSET (1 .. N) :
          s # {} /\ iter[s \ {Max(s)}] \in V
            => iter[s] = step[<<iter[s \ {Max(s)}], parts[Max(s)]>>]
    BY <1>1, <1>3, <1>5
  <2> HIDE DEF N
  <2>2. QED
    BY <1>1, <1>2, <1>7, <2>1 DEF Recurs
<1>9. PICK h \in [0 .. N -> V] :
             /\ h[0] = run
             /\ \A k \in 1 .. N : h[k] = step[<<h[k - 1], parts[k]>>]
             /\ h[N] = iter[1 .. N]
  BY <1>8, Walk
<1>10. ASSUME NEW k \in 1 .. N PROVE h[k] = Reported(h[k - 1], id, parts[k], time)
  <2>1. h[k - 1] \in V /\ parts[k] \in S
    BY <1>1, <1>9
  <2>2. QED
    BY <1>2, <1>9, <2>1
<1>11. h[N] = iter[D]
  BY <1>1, <1>9
<1>12. QED
  BY <1>6, <1>9, <1>10, <1>11

(* And the sum of the fills, for the position a strategy is shown.          *)
LEMMA PositionFold ==
  ASSUME NEW run, run.fills \in Seq(Fill), NEW time
  PROVE  \E h \in [0 .. Len(run.fills) -> Int] :
           /\ h[0] = 0
           /\ \A k \in 1 .. Len(run.fills) : h[k] = Counted(h[k - 1], run.fills[k], time)
           /\ h[Len(run.fills)] = PositionAt(run, time)
<1> DEFINE fills == run.fills
           N == Len(fills)
           D == DOMAIN fills
           step == [p \in Int \X Fill |-> Counted(p[1], p[2], time)]
           Steps(f) == f = [s \in SUBSET D |-> IF s = {} THEN 0
                              ELSE Counted(f[s \ {Max(s)}], fills[Max(s)], time)]
           iter == CHOOSE f : Steps(f)
<1>1. N \in Nat /\ D = 1 .. N /\ fills \in [1 .. N -> Fill]
  OBVIOUS
<1>2. \A sum \in Int, fill \in Fill : Counted(sum, fill, time) \in Int
  BY DEF Counted, Signed, Fill
<1>3. /\ step \in [Int \X Fill -> Int]
      /\ \A sum \in Int, fill \in Fill : step[<<sum, fill>>] = Counted(sum, fill, time)
  BY <1>2
<1>4. ASSUME NEW f, NEW s \in SUBSET D, s # {}, f[s \ {Max(s)}] \in Int
      PROVE  step[<<f[s \ {Max(s)}], fills[Max(s)]>>]
               = Counted(f[s \ {Max(s)}], fills[Max(s)], time)
  <2>1. Max(s) \in D
    BY <1>1, <1>4, GreatestNumber
  <2> HIDE DEF step
  <2>2. QED
    BY <1>1, <1>3, <1>4, <2>1
<1> HIDE DEF step
<1>5. \E f : Steps(f)
  <2>1. N <= N
    BY <1>1
  <2>2. PICK g \in [SUBSET (1 .. N) -> Int] : Iterates(g, N, step, 0, fills)
    <3>1. \A V, E, base :
            base \in V /\ step \in [V \X E -> V] /\ fills \in [1 .. N -> E]
              => \E g \in [SUBSET (1 .. N) -> V] : Iterates(g, N, step, base, fills)
      <4> HIDE DEF N, fills
      <4>1. QED
        BY <1>1, <2>1, IterateExists
    <3>2. 0 \in Int
      OBVIOUS
    <3>3. QED
      BY <1>1, <1>3, <3>1, <3>2
  <2>3. g[{}] = 0 /\ \A s \in SUBSET D : g[s \ {Max(s)}] \in Int
    BY <1>1, <2>2 DEF Iterates
  <2>4. ASSUME NEW s \in SUBSET D, s # {}
        PROVE  g[s] = Counted(g[s \ {Max(s)}], fills[Max(s)], time)
    BY <1>1, <1>4, <2>2, <2>3, <2>4 DEF Iterates
  <2>5. Steps(g)
    BY <1>1, <2>2, <2>3, <2>4
  <2>6. QED
    BY <2>5
<1>6. Steps(iter)
  BY <1>5
<1>7. PositionAt(run, time) = iter[D]
  BY DEF PositionAt, FoldLeft, MapThenFoldSet
<1> HIDE DEF iter
<1>8. iter[{}] = 0
  BY <1>6
<1>9. Recurs(iter, Int, Fill, N, step, 0, fills)
  <2>1. \A s \in SUBSET (1 .. N) :
          s # {} /\ iter[s \ {Max(s)}] \in Int
            => iter[s] = step[<<iter[s \ {Max(s)}], fills[Max(s)]>>]
    BY <1>1, <1>4, <1>6
  <2>2. 0 \in Int
    OBVIOUS
  <2> HIDE DEF N, fills
  <2>3. QED
    BY <1>1, <1>3, <1>8, <2>1, <2>2, Zenon DEF Recurs
<1>10. PICK h \in [0 .. N -> Int] :
             /\ h[0] = 0
             /\ \A k \in 1 .. N : h[k] = step[<<h[k - 1], fills[k]>>]
             /\ h[N] = iter[1 .. N]
  BY <1>9, Walk
<1>11. ASSUME NEW k \in 1 .. N PROVE h[k] = Counted(h[k - 1], fills[k], time)
  <2>1. h[k - 1] \in Int /\ fills[k] \in Fill
    BY <1>1, <1>10
  <2>2. QED
    BY <1>3, <1>10, <2>1
<1>12. h[N] = iter[D]
  BY <1>1, <1>10
<1>13. QED
  BY <1>7, <1>10, <1>11, <1>12
-----------------------------------------------------------------------------
(* The steps of the runs, on what the invariant speaks of.                  *)
LEMMA FlyingOf ==
  ASSUME NEW run
  PROVE  \A id : id \in Flying(run) <=> \E n \in DOMAIN run.submitted : run.submitted[n].id = id
  BY DEF Flying, ToSet

LEMMA FillIs ==
  ASSUME NEW time \in 1 .. Len(tape), NEW size \in Int, size # 0
  PROVE  FillAt(time, size) \in Fill
  BY DEF FillAt, Fill, Abs

LEMMA SettleOne ==
  ASSUME NEW run \in Bridge(Quantities), NEW target \in Quantities, NEW time \in 1 .. Len(tape)
  PROVE  /\ Settle(run, target, time) \in Bridge(Quantities)
         /\ Settle(run, target, time).position = target
         /\ Settle(run, target, time).submitted = run.submitted
         /\ Settle(run, target, time).fills =
              IF target = run.position THEN run.fills
              ELSE Append(run.fills, FillAt(time, target - run.position))
<1>1. CASE target = run.position
  BY <1>1 DEF Settle
<1>2. CASE target # run.position
  <2>1. target \in Int /\ run.position \in Int /\ target - run.position # 0
    BY <1>2, AdaptersAssumption DEF Bridge
  <2>2. FillAt(time, target - run.position) \in Fill
    BY <2>1, FillIs
  <2>3. Append(run.fills, FillAt(time, target - run.position)) \in Seq(Fill)
    BY <2>2 DEF Bridge
  <2>4. QED
    BY <1>2, <2>1, <2>3 DEF Settle, Bridge
<1>3. QED
  BY <1>1, <1>2

LEMMA SettledIs ==
  ASSUME NEW run \in Bridge(Quantities), NEW time \in 1 .. Len(tape)
  PROVE  /\ Settled(run, time) \in Bridge(Quantities)
         /\ Settled(run, time).submitted = <<>>
         /\ Settled(run, time).position =
              IF run.submitted = <<>> THEN run.position ELSE run.submitted[Len(run.submitted)]
         /\ Len(run.submitted) = 0 => Settled(run, time).fills = run.fills
         /\ Len(run.submitted) = 1 =>
              Settled(run, time).fills =
                IF run.submitted[1] = run.position THEN run.fills
                ELSE Append(run.fills, FillAt(time, run.submitted[1] - run.position))
<1> DEFINE N == Len(run.submitted)
           after == SettleAll(run, run.submitted, time)
<1>1. run.submitted \in Seq(Quantities) /\ N \in Nat
  BY DEF Bridge
<1>2. Settles(Bridge(Quantities), Quantities, time)
  BY SettleOne DEF Settles
<1>3. PICK h \in [0 .. N -> Bridge(Quantities)] :
             /\ h[0] = run
             /\ \A k \in 1 .. N : h[k] = Settle(h[k - 1], run.submitted[k], time)
             /\ h[N] = after
  <2>1. \A ts \in Seq(Quantities) :
          \E h \in [0 .. Len(ts) -> Bridge(Quantities)] :
             /\ h[0] = run
             /\ \A k \in 1 .. Len(ts) : h[k] = Settle(h[k - 1], ts[k], time)
             /\ h[Len(ts)] = SettleAll(run, ts, time)
    BY <1>2, SettleFold
  <2>2. QED
    BY <1>1, <2>1
<1>4. Settled(run, time) = [after EXCEPT !.submitted = <<>>, !.shown = after.position]
  BY DEF Settled, SettleAll
<1> HIDE DEF after
<1>5. after \in Bridge(Quantities)
  BY <1>1, <1>3
<1>6. /\ Settled(run, time) \in Bridge(Quantities)
      /\ Settled(run, time).submitted = <<>>
      /\ Settled(run, time).position = after.position
      /\ Settled(run, time).fills = after.fills
  <2>1. after.position \in Int /\ <<>> \in Seq(Quantities)
    BY <1>5 DEF Bridge
  <2>2. QED
    BY <1>4, <1>5, <2>1 DEF Bridge
<1>7. CASE N = 0
  BY <1>1, <1>3, <1>6, <1>7
<1>8. CASE N # 0
  <2>1. N \in 1 .. N /\ N - 1 \in 0 .. N /\ run.submitted[N] \in Quantities
    BY <1>1, <1>8
  <2>2. h[N] = Settle(h[N - 1], run.submitted[N], time) /\ h[N - 1] \in Bridge(Quantities)
    BY <1>3, <2>1
  <2>3. after.position = run.submitted[N]
    BY <1>3, <2>1, <2>2, SettleOne
  <2>4. ASSUME N = 1
        PROVE  after.fills = IF run.submitted[1] = run.position THEN run.fills
                             ELSE Append(run.fills, FillAt(time, run.submitted[1] - run.position))
    <3>1. after = Settle(run, run.submitted[1], time) /\ run.submitted[1] \in Quantities
      BY <1>3, <2>1, <2>2, <2>4
    <3>2. QED
      BY <3>1, SettleOne
  <2>5. run.submitted # <<>>
    BY <1>1, <1>8
  <2>6. QED
    BY <1>6, <1>8, <2>3, <2>4, <2>5
<1>9. QED
  BY <1>7, <1>8
LEMMA ReportedOne ==
  ASSUME NEW S, NEW run \in Bridge(S), NEW order \in NativeOrder, NEW time \in 1 .. Len(tape)
  PROVE  LET new == Reported(run, order.id, order.size, time)
         IN /\ new \in Bridge(S)
            /\ new.position = run.position + order.size
            /\ new.submitted = run.submitted
            /\ new.pending_target = run.pending_target
            /\ new.rounded = run.rounded
            /\ new.fills = Append(run.fills, FillAt(time, order.size))
            /\ new.orders = Append(run.orders, [id |-> order.id, status |-> "filled"])
<1>0. order.id \in Nat \ {0} /\ order.size \in Int \ {0}
  BY DEF NativeOrder
<1>1. FillAt(time, order.size) \in Fill /\ [id |-> order.id, status |-> "filled"] \in OrderEntry
  BY <1>0, FillIs DEF OrderEntry
<1>2. /\ run.position + order.size \in Int
      /\ Append(run.fills, FillAt(time, order.size)) \in Seq(Fill)
      /\ Append(run.orders, [id |-> order.id, status |-> "filled"]) \in Seq(OrderEntry)
  BY <1>0, <1>1 DEF Bridge
<1>3. QED
  BY <1>2 DEF Reported, Bridge
-----------------------------------------------------------------------------
(* Decimals and doubles.                                                    *)
LEMMA NearestIs ==
  ASSUME NEW x \in Int
  PROVE  Double(x) \in Doubles /\ \A e \in Doubles : Abs(Double(x) - x) <= Abs(e - x)
<1> DEFINE T == {Abs(d - x) : d \in Doubles}
<1>1. Doubles \subseteq Int /\ 0 \in Doubles
  BY DoublesAssumption
<1>2. T \subseteq Nat /\ T # {}
  <2>1. \A d \in Doubles : Abs(d - x) \in Nat
    BY <1>1 DEF Abs
  <2>2. Abs(0 - x) \in T
    BY <1>1
  <2>3. QED
    BY <2>1, <2>2
<1>3. IsWellFoundedOn(Before, Nat)
  BY NatLessThanWellFounded DEF Before
<1>4. PICK a \in T : \A b \in T : ~(<<b, a>> \in Before)
  BY <1>2, <1>3, WFMin
<1>5. PICK d \in Doubles : a = Abs(d - x)
  OBVIOUS
<1>6. ASSUME NEW e \in Doubles PROVE Abs(d - x) <= Abs(e - x)
  <2>1. Abs(e - x) \in T /\ Abs(e - x) \in Nat /\ a \in Nat
    BY <1>2
  <2>2. ~(Abs(e - x) < a)
    BY <1>4, <2>1 DEF Before, OpToRel
  <2>3. QED
    BY <1>5, <2>1, <2>2
<1>7. QED
  BY <1>6 DEF Double

LEMMA DoubleIs ==
  ASSUME NEW d \in Doubles
  PROVE  Double(d) = d
<1>1. d \in Int /\ Doubles \subseteq Int
  BY DoublesAssumption
<1>2. Double(d) \in Int /\ Abs(Double(d) - d) <= Abs(d - d)
  BY <1>1, NearestIs
<1>3. QED
  BY <1>1, <1>2 DEF Abs

LEMMA PrintedIs ==
  ASSUME NEW d \in Doubles
  PROVE  Printed[d] \in Int /\ (d # 0 => Printed[d] # 0) /\ (d = 0 => Printed[d] = 0)
<1>1. d \in Int /\ -d \in Doubles /\ Printed[-d] = -Printed[d]
      /\ Printed[d] \in Int /\ Printed[-d] \in Int
  BY DoublesAssumption
<1>2. \A e \in Doubles : e > 0 => Printed[e] > 0
  BY DoublesAssumption
<1>3. d < 0 => Printed[-d] > 0
  BY <1>1, <1>2
<1>4. ASSUME d = 0 PROVE Printed[d] = 0
  <2>1. \A n \in Int : ~(n > 0) /\ ~(n < 0) => -n = n
    OBVIOUS
  <2>2. ~(d > 0) /\ ~(d < 0)
    BY <1>4
  <2>3. -d = d
    BY <1>1, <2>1, <2>2
  <2>4. Printed[d] = -Printed[d]
    BY <1>1, <2>3
  <2>5. QED
    BY <1>1, <2>4
<1>5. ASSUME d # 0 PROVE Printed[d] # 0
  BY <1>1, <1>2, <1>3, <1>5
<1>6. QED
  BY <1>1, <1>4, <1>5

(* Backtrader's fill of an order, and what it is when nothing was rounded.  *)
LEMMA ExecutedIs ==
  ASSUME NEW run \in Holding, NEW order \in DoubleOrder, NEW time \in 1 .. Len(tape)
  PROVE  LET new == Executed(run, order, time)
         IN /\ new \in Holding
            /\ run.rounded => new.rounded
            /\ ~new.rounded => /\ new.position = run.position + order.size
                               /\ new.fills = Append(run.fills, FillAt(time, order.size))
            /\ (~run.rounded /\ Exact(order.size) /\ Exact(run.position + order.size))
                 => ~new.rounded
<1> DEFINE sum == run.position + order.size
           size == Printed[order.size]
           reported == Reported(run, order.id, size, time)
           rounded == run.rounded \/ ~Exact(order.size) \/ ~Exact(sum)
           new == Executed(run, order, time)
<1>1. /\ run \in Bridge(DoubleOrder) /\ run.position \in Doubles /\ run.rounded \in BOOLEAN
      /\ order.id \in Nat \ {0} /\ order.size \in Doubles \ {0}
  BY DEF Holding, DoubleOrder, Bridge
<1>2. sum \in Int /\ order.size \in Int \ {0}
  <2>1. Doubles \subseteq Int
    BY DoublesAssumption
  <2>2. run.position \in Doubles /\ order.size \in Doubles /\ order.size # 0
    BY <1>1
  <2>3. run.position \in Int /\ order.size \in Int
    BY <2>1, <2>2
  <2>4. QED
    BY <2>2, <2>3
<1>3. Double(sum) \in Doubles /\ Double(sum) \in Int
  BY <1>2, NearestIs, DoublesAssumption
<1>4. size \in Int \ {0}
  BY <1>1, PrintedIs
<1> HIDE DEF size
<1>5. /\ reported \in Bridge(DoubleOrder)
      /\ reported.rounded = run.rounded
      /\ reported.fills = Append(run.fills, FillAt(time, size))
  <2> DEFINE shown == [id |-> order.id, size |-> size]
  <2>1. shown \in NativeOrder /\ shown.id = order.id /\ shown.size = size
    BY <1>1, <1>4 DEF NativeOrder
  <2> HIDE DEF shown, sum
  <2>2. run \in Bridge(DoubleOrder)
    BY <1>1
  <2>3. LET filled == Reported(run, shown.id, shown.size, time)
        IN /\ filled \in Bridge(DoubleOrder)
           /\ filled.rounded = run.rounded
           /\ filled.fills = Append(run.fills, FillAt(time, shown.size))
    BY <2>1, <2>2, ReportedOne
  <2>4. QED
    BY <2>1, <2>3
<1>6. new = [reported EXCEPT !.position = Double(sum), !.rounded = @ \/ ~Exact(order.size) \/ ~Exact(sum)]
  BY DEF Executed, size
<1> HIDE DEF reported, sum, new
<1>7. /\ new \in Bridge(DoubleOrder) /\ new.position = Double(sum)
      /\ new.rounded = rounded /\ new.fills = reported.fills
  <2>1. rounded \in BOOLEAN
    OBVIOUS
  <2>2. new = [reported EXCEPT !.position = Double(sum), !.rounded = rounded]
    BY <1>5, <1>6 DEF Bridge
  <2> HIDE DEF rounded
  <2>3. QED
    BY <1>3, <1>5, <2>1, <2>2 DEF Bridge
<1>8. ASSUME ~new.rounded
      PROVE  /\ ~run.rounded /\ Exact(sum) /\ new.position = sum
             /\ new.fills = Append(run.fills, FillAt(time, order.size))
  <2>1. ~run.rounded /\ Exact(order.size) /\ Exact(sum)
    BY <1>7, <1>8
  <2>2. sum \in Doubles /\ size = order.size
    BY <2>1 DEF Exact, size
  <2>3. QED
    BY <1>5, <1>7, <2>1, <2>2, DoubleIs
<1>9. new \in Holding
  BY <1>3, <1>7, <1>8 DEF Holding
<1>10. QED
  BY <1>7, <1>8, <1>9 DEF new, sum

LEMMA BrokeredIs ==
  ASSUME NEW run \in Holding, NEW refusals, NEW time \in 1 .. Len(tape)
  PROVE  LET new == Brokered(run, refusals, time)
         IN /\ new \in Holding /\ new.submitted = <<>>
            /\ run.rounded => new.rounded
            /\ Len(run.submitted) = 0 => new.position = run.position /\ new.fills = run.fills
            /\ (Len(run.submitted) = 1 /\ refusals = {} /\ ~new.rounded) =>
                 /\ new.position = run.position + run.submitted[1].size
                 /\ new.fills = Append(run.fills, FillAt(time, run.submitted[1].size))
<1> DEFINE orders == run.submitted
           N == Len(orders)
           after == NotifyAll(run, orders, refusals, time)
           new == Brokered(run, refusals, time)
           V == {r \in Holding : run.rounded => r.rounded}
<1>1. /\ orders \in Seq(DoubleOrder) /\ N \in Nat
      /\ \A k \in 1 .. N : orders[k] \in DoubleOrder
  BY DEF Holding, Bridge
<1>2. ASSUME NEW r \in V, NEW order \in DoubleOrder
      PROVE  Notified(r, order, refusals, time) \in V
  <2>1. Executed(r, order, time) \in V
    BY ExecutedIs
  <2> HIDE DEF V
  <2>2. QED
    BY <2>1 DEF Notified, NotifyOrder
<1>3. Notifies(V, DoubleOrder, refusals, time)
  BY <1>2 DEF Notifies
<1>4. run \in V
  OBVIOUS
<1>5. PICK h \in [0 .. N -> V] :
             /\ h[0] = run
             /\ \A k \in 1 .. N : h[k] = Notified(h[k - 1], orders[k], refusals, time)
             /\ h[N] = after
  <2>1. \A os \in Seq(DoubleOrder) :
          \E h \in [0 .. Len(os) -> V] :
             /\ h[0] = run
             /\ \A k \in 1 .. Len(os) : h[k] = Notified(h[k - 1], os[k], refusals, time)
             /\ h[Len(os)] = NotifyAll(run, os, refusals, time)
    <3> HIDE DEF V
    <3>1. QED
      BY <1>3, <1>4, NotifyFold
  <2>2. QED
    BY <1>1, <2>1
<1>6. new = [after EXCEPT !.submitted = <<>>, !.shown = Printed[after.position]]
  BY DEF Brokered, NotifyAll, Notified
<1>7. after \in V
  BY <1>1, <1>5
<1>8. N = 0 => after = run
  BY <1>5
<1>9. (N = 1 /\ refusals = {}) => after = Executed(run, orders[1], time)
  <2>1. SUFFICES ASSUME N = 1, refusals = {} PROVE after = Executed(run, orders[1], time)
    OBVIOUS
  <2>2. 1 \in 1 .. N /\ 1 - 1 = 0
    BY <2>1
  <2>3. after = Notified(run, orders[1], refusals, time)
    BY <1>5, <2>1, <2>2
  <2>4. QED
    BY <2>1, <2>3 DEF Notified, NotifyOrder
<1> HIDE DEF after, new
<1>10. /\ new \in Holding /\ new.submitted = <<>> /\ new.position = after.position
       /\ new.fills = after.fills /\ new.rounded = after.rounded
  <2>1. after \in Bridge(DoubleOrder) /\ after.position \in Doubles
        /\ (~after.rounded => Exact(after.position))
    BY <1>7 DEF Holding
  <2>2. Printed[after.position] \in Int /\ <<>> \in Seq(DoubleOrder)
    BY <2>1, PrintedIs
  <2>3. /\ new \in Bridge(DoubleOrder) /\ new.submitted = <<>> /\ new.position = after.position
        /\ new.fills = after.fills /\ new.rounded = after.rounded
    BY <1>6, <2>1, <2>2 DEF Bridge
  <2>4. QED
    BY <2>1, <2>3 DEF Holding
<1>11. ASSUME N = 1, refusals = {}, ~new.rounded
       PROVE  /\ new.position = run.position + orders[1].size
              /\ new.fills = Append(run.fills, FillAt(time, orders[1].size))
  <2> DEFINE order == orders[1]
  <2>1. order \in DoubleOrder /\ after = Executed(run, order, time)
    BY <1>1, <1>9, <1>11
  <2> HIDE DEF order, orders
  <2>2. QED
    BY <1>10, <1>11, <2>1, ExecutedIs DEF order
<1>12. QED
  BY <1>7, <1>8, <1>10, <1>11 DEF new
-----------------------------------------------------------------------------
(* Whole lots.                                                              *)
LEMMA WholeIsMultiple ==
  ASSUME NEW q \in Int
  PROVE  WholeLots(q) <=> \E n \in Int : q = n * LotSize
<1>1. LotSize \in Nat /\ LotSize > 0
  BY AdaptersAssumption
<1>2. ASSUME q % LotSize = 0 PROVE \E n \in Int : q = n * LotSize
  <2>1. q = LotSize * (q \div LotSize) + (q % LotSize) /\ q \div LotSize \in Int
    BY <1>1
  <2>2. q = (q \div LotSize) * LotSize
    BY <1>1, <1>2, <2>1
  <2>3. QED
    BY <2>1, <2>2
<1>3. ASSUME NEW n \in Int, q = n * LotSize PROVE q % LotSize = 0
  BY <1>1, <1>3
<1>4. QED
  BY <1>2, <1>3 DEF WholeLots

LEMMA WholeSum ==
  ASSUME NEW a \in Int, NEW b \in Int, WholeLots(a), WholeLots(b)
  PROVE  WholeLots(a + b) /\ WholeLots(a - b) /\ WholeLots(-a) /\ WholeLots(Abs(a))
<1>1. PICK m \in Int : a = m * LotSize
  BY WholeIsMultiple
<1>2. PICK n \in Int : b = n * LotSize
  BY WholeIsMultiple
<1>3. LotSize \in Int
  BY AdaptersAssumption
<1>4. a + b = (m + n) * LotSize /\ a - b = (m - n) * LotSize /\ -a = (-m) * LotSize
  BY <1>1, <1>2, <1>3
<1>5. m + n \in Int /\ m - n \in Int /\ -m \in Int
  OBVIOUS
<1>6. a + b \in Int /\ a - b \in Int /\ -a \in Int
  OBVIOUS
<1>7. WholeLots(a + b) /\ WholeLots(a - b) /\ WholeLots(-a)
  BY <1>4, <1>5, <1>6, WholeIsMultiple
<1>8. QED
  BY <1>7 DEF Abs

LEMMA LotsApart ==
  ASSUME NEW a \in Int, NEW b \in Int, WholeLots(a), WholeLots(b), 2 * Abs(a - b) <= LotSize
  PROVE  a = b
<1>1. PICK m \in Int : a = m * LotSize
  BY WholeIsMultiple
<1>2. PICK n \in Int : b = n * LotSize
  BY WholeIsMultiple
<1>3. LotSize \in Int /\ LotSize > 0
  BY AdaptersAssumption
<1> DEFINE d == m - n
<1>4. d \in Int /\ a - b = d * LotSize
  BY <1>1, <1>2, <1>3
<1> HIDE DEF d
<1>5. CASE d >= 1
  <2>1. d * LotSize >= LotSize
    BY <1>3, <1>4, <1>5
  <2>2. QED
    BY <1>3, <1>4, <2>1 DEF Abs
<1>6. CASE d <= -1
  <2>1. d * LotSize <= -LotSize
    BY <1>3, <1>4, <1>6
  <2>2. QED
    BY <1>3, <1>4, <2>1 DEF Abs
<1>7. CASE d = 0
  BY <1>3, <1>4, <1>7
<1>8. QED
  BY <1>4, <1>5, <1>6, <1>7

(* What make_qty may return: whole lots, and a whole quantity as it is.     *)
LEMMA MakeQtyIs ==
  ASSUME NEW size \in Int, NEW quantity \in MakeQty(Abs(size))
  PROVE  /\ quantity \in Nat /\ WholeLots(quantity)
         /\ 2 * Abs(quantity - Abs(size)) <= LotSize
         /\ WholeLots(size) => quantity = Abs(size)
<1>1. Abs(size) \in Nat
  BY DEF Abs
<1>2. PICK n \in 0 .. Abs(size) : quantity = n * LotSize
  BY DEF MakeQty
<1>3. 2 * Abs(quantity - Abs(size)) <= LotSize
  BY DEF MakeQty
<1>4. n \in Nat /\ LotSize \in Nat
  BY <1>1, AdaptersAssumption
<1>5. quantity \in Nat
  BY <1>2, <1>4
<1>6. WholeLots(quantity)
  BY <1>2, <1>4, <1>5, WholeIsMultiple
<1>7. ASSUME WholeLots(size) PROVE quantity = Abs(size)
  <2>1. WholeLots(Abs(size))
    BY <1>7, WholeSum
  <2>2. QED
    BY <1>1, <1>3, <1>5, <1>6, <2>1, LotsApart
<1>8. QED
  BY <1>3, <1>5, <1>6, <1>7
-----------------------------------------------------------------------------
NewOrder(run, size) == [id |-> Len(run.orders) + 1, size |-> size]

LEMMA AcceptedIs ==
  ASSUME NEW S, NEW run, NEW amount, run \in Bridge(S), NewOrder(run, amount) \in S
  PROVE  LET new == Accepted(run, amount)
         IN /\ new \in Bridge(S)
            /\ new.position = run.position /\ new.fills = run.fills
            /\ new.shown = run.shown
            /\ new.pending_target = run.pending_target
            /\ new.submitted = Append(run.submitted, NewOrder(run, amount))
            /\ new.orders
                 = Append(run.orders, [id |-> Len(run.orders) + 1, status |-> "accepted"])
<1> DEFINE order == NewOrder(run, amount)
           entry == [id |-> Len(run.orders) + 1, status |-> "accepted"]
<1>1. Len(run.orders) \in Nat
  BY DEF Bridge
<1>2. entry \in OrderEntry
  BY <1>1 DEF OrderEntry
<1>3. Append(run.submitted, order) \in Seq(S) /\ Append(run.orders, entry) \in Seq(OrderEntry)
  BY <1>2 DEF Bridge
<1>4. Accepted(run, amount) = [run EXCEPT !.submitted = Append(@, order), !.orders = Append(@, entry)]
  BY DEF Accepted, NewOrder
<1> HIDE DEF order, entry
<1>5. QED
  BY <1>3, <1>4 DEF Bridge, order, entry

LEMMA AcceptedKeeps ==
  ASSUME NEW S, NEW run, NEW amount, run \in Bridge(S)
  PROVE  /\ Accepted(run, amount).rounded = run.rounded
         /\ Accepted(run, amount).shown = run.shown
BY DEF Accepted, Bridge
-----------------------------------------------------------------------------
(* NautilusTrader's fill of an order, whole or in two parts.                *)
LEMMA PartsAre ==
  ASSUME NEW size \in Int \ {0}, NEW parts \in Parts(size)
  PROVE  \/ parts = <<size>>
         \/ \E a, b \in Int \ {0} : a + b = size /\ parts = <<a, b>>
<1>1. LotSize \in Nat /\ LotSize > 0
  BY AdaptersAssumption
<1>2. \A n \in 1 .. Abs(size) : n * LotSize \in Int /\ n * LotSize > 0
  BY <1>1 DEF Abs
<1> DEFINE lots == {n * LotSize : n \in 1 .. Abs(size)}
<1>3. \A l \in lots : l \in Int /\ l > 0
  BY <1>2
<1>4. parts \in {<<size>>} \cup
        {<<size - part, part>> : part \in IF size > 0 THEN {l \in lots : l < size}
                                          ELSE {-l : l \in {m \in lots : m < -size}}}
  BY DEF Parts
<1> HIDE DEF lots
<1>5. CASE parts # <<size>> /\ size > 0
  <2>1. PICK part \in lots : part < size /\ parts = <<size - part, part>>
    BY <1>4, <1>5
  <2>2. part \in Int \ {0} /\ size - part \in Int \ {0} /\ (size - part) + part = size
    BY <1>3, <2>1
  <2>3. QED
    BY <2>1, <2>2
<1>6. CASE parts # <<size>> /\ ~(size > 0)
  <2>1. PICK l \in lots : l < -size /\ parts = <<size - (-l), -l>>
    BY <1>4, <1>6
  <2>2. -l \in Int \ {0} /\ size - (-l) \in Int \ {0} /\ (size - (-l)) + (-l) = size
    BY <1>3, <2>1
  <2>3. QED
    BY <2>1, <2>2
<1>7. QED
  BY <1>5, <1>6

(* One report, and what the orders are after it.                            *)
LEMMA ReportedOrder ==
  ASSUME NEW run \in Bridge(NativeOrder), NEW order \in NativeOrder, NEW time \in 1 .. Len(tape)
  PROVE  LET new == Reported(run, order.id, order.size, time)
         IN /\ Len(new.orders) = Len(run.orders) + 1
            /\ \A n \in DOMAIN run.orders : new.orders[n] = run.orders[n]
            /\ new.orders[Len(run.orders) + 1] = [id |-> order.id, status |-> "filled"]
<1> DEFINE new == Reported(run, order.id, order.size, time)
           entry == [id |-> order.id, status |-> "filled"]
<1>1. new.orders = Append(run.orders, entry)
  BY ReportedOne
<1>2. run.orders \in Seq(OrderEntry) /\ entry \in OrderEntry
  BY DEF Bridge, OrderEntry, NativeOrder
<1> HIDE DEF new, entry
<1>3. QED
  BY <1>1, <1>2 DEF new, entry

(* An order that was filled in parts is never forgotten.                    *)
LEMMA SplitStays ==
  ASSUME NEW run \in Bridge(NativeOrder), NEW new \in Bridge(NativeOrder),
         Len(new.orders) >= Len(run.orders),
         \A n \in DOMAIN run.orders : new.orders[n] = run.orders[n], Split(run)
  PROVE  Split(new)
<1>1. /\ Len(run.orders) \in Nat /\ Len(new.orders) \in Nat
      /\ DOMAIN run.orders = 1 .. Len(run.orders) /\ DOMAIN new.orders = 1 .. Len(new.orders)
  BY DEF Bridge
<1>2. PICK m, n \in DOMAIN run.orders :
        m < n /\ run.orders[m] = run.orders[n] /\ run.orders[m].status = "filled"
  BY DEF Split
<1>3. m \in DOMAIN new.orders /\ n \in DOMAIN new.orders
  BY <1>1
<1>4. QED
  BY <1>2, <1>3 DEF Split
(* What a bridge is after its order was filled.                             *)
IsFilled(run, new, time) ==
  /\ new \in Bridge(NativeOrder)
  /\ new.position = run.position + run.submitted[1].size
  /\ new.pending_target = run.pending_target
  /\ Len(new.orders) >= Len(run.orders)
  /\ \A n \in DOMAIN run.orders : new.orders[n] = run.orders[n]
  /\ Split(new) \/ new.fills = Append(run.fills, FillAt(time, run.submitted[1].size))

LEMMA ReportAllIs ==
  ASSUME NEW run \in Bridge(NativeOrder), Len(run.submitted) = 1,
         NEW parts \in Parts(run.submitted[1].size), NEW time \in 1 .. Len(tape)
  PROVE  IsFilled(run, ReportAll(run, parts, run.submitted[1].id, time), time)
<1> DEFINE V == Bridge(NativeOrder)
           S == Int \ {0}
           id == run.submitted[1].id
           size == run.submitted[1].size
           after == ReportAll(run, parts, id, time)
<1>1. run.submitted[1] \in NativeOrder
  BY DEF Bridge
<1>2. id \in Nat \ {0} /\ size \in S
  BY <1>1 DEF NativeOrder
<1>3. ASSUME NEW r \in V, NEW part \in S
      PROVE  LET new == Reported(r, id, part, time)
             IN /\ new \in V
                /\ new.position = r.position + part
                /\ new.pending_target = r.pending_target
                /\ new.fills = Append(r.fills, FillAt(time, part))
                /\ Len(new.orders) = Len(r.orders) + 1
                /\ \A n \in DOMAIN r.orders : new.orders[n] = r.orders[n]
                /\ new.orders[Len(r.orders) + 1] = [id |-> id, status |-> "filled"]
  <2> DEFINE order == [id |-> id, size |-> part]
  <2>1. order \in NativeOrder /\ order.id = id /\ order.size = part
    BY <1>2 DEF NativeOrder
  <2> HIDE DEF order, id
  <2>2. r \in Bridge(NativeOrder)
    OBVIOUS
  <2>3. LET new == Reported(r, order.id, order.size, time)
        IN /\ new \in V
           /\ new.position = r.position + order.size
           /\ new.pending_target = r.pending_target
           /\ new.fills = Append(r.fills, FillAt(time, order.size))
    BY <2>1, <2>2, ReportedOne
  <2>4. LET new == Reported(r, order.id, order.size, time)
        IN /\ Len(new.orders) = Len(r.orders) + 1
           /\ \A n \in DOMAIN r.orders : new.orders[n] = r.orders[n]
           /\ new.orders[Len(r.orders) + 1] = [id |-> order.id, status |-> "filled"]
    BY <2>1, <2>2, ReportedOrder
  <2>5. QED
    BY <2>1, <2>3, <2>4
<1>4. parts \in Seq(S)
  <2>1. CASE parts = <<size>>
    BY <1>2, <2>1
  <2>2. CASE \E a, b \in S : a + b = size /\ parts = <<a, b>>
    BY <2>2
  <2>3. QED
    BY <1>2, <2>1, <2>2, PartsAre
<1>5. Reports(V, S, id, time)
  BY <1>3 DEF Reports
<1>6. PICK h \in [0 .. Len(parts) -> V] :
             /\ h[0] = run
             /\ \A k \in 1 .. Len(parts) : h[k] = Reported(h[k - 1], id, parts[k], time)
             /\ h[Len(parts)] = after
  <2>1. \A ps \in Seq(S) :
          \E h \in [0 .. Len(ps) -> V] :
             /\ h[0] = run
             /\ \A k \in 1 .. Len(ps) : h[k] = Reported(h[k - 1], id, ps[k], time)
             /\ h[Len(ps)] = ReportAll(run, ps, id, time)
    BY <1>5, ReportFold
  <2>2. QED
    BY <1>4, <2>1
<1> HIDE DEF after, id
<1>7. CASE parts = <<size>>
  <2>1. Len(parts) = 1 /\ 1 \in 1 .. Len(parts) /\ 1 - 1 = 0 /\ parts[1] = size
    BY <1>7
  <2>2. after = Reported(run, id, size, time)
    BY <1>6, <2>1
  <2>3. /\ after \in V
        /\ after.position = run.position + size
        /\ after.pending_target = run.pending_target
        /\ after.fills = Append(run.fills, FillAt(time, size))
        /\ Len(after.orders) = Len(run.orders) + 1
        /\ \A n \in DOMAIN run.orders : after.orders[n] = run.orders[n]
    BY <1>2, <1>3, <2>2
  <2>4. Len(after.orders) >= Len(run.orders)
    BY <2>3 DEF Bridge
  <2>5. QED
    BY <2>3, <2>4 DEF IsFilled, after, id
<1>8. CASE \E a, b \in S : a + b = size /\ parts = <<a, b>>
  <2>1. PICK a, b \in S : a + b = size /\ parts = <<a, b>>
    BY <1>8
  <2>2. Len(parts) = 2 /\ parts[1] = a /\ parts[2] = b /\ 1 - 1 = 0 /\ 2 - 1 = 1
        /\ 1 \in 1 .. Len(parts) /\ 2 \in 1 .. Len(parts)
    BY <2>1
  <2> DEFINE r == Reported(run, id, a, time)
  <2>3. after = Reported(r, id, b, time)
    BY <1>6, <2>2
  <2>4. /\ r \in V /\ r.position = run.position + a
        /\ r.pending_target = run.pending_target
        /\ Len(r.orders) = Len(run.orders) + 1
        /\ \A n \in DOMAIN run.orders : r.orders[n] = run.orders[n]
        /\ r.orders[Len(run.orders) + 1] = [id |-> id, status |-> "filled"]
    BY <1>3, <2>1
  <2> HIDE DEF r
  <2>5. /\ after \in V /\ after.position = r.position + b
        /\ after.pending_target = r.pending_target
        /\ Len(after.orders) = Len(r.orders) + 1
        /\ \A n \in DOMAIN r.orders : after.orders[n] = r.orders[n]
        /\ after.orders[Len(r.orders) + 1] = [id |-> id, status |-> "filled"]
    BY <1>3, <2>1, <2>3, <2>4
  <2>6. run.position \in Int /\ Len(run.orders) \in Nat
        /\ DOMAIN run.orders = 1 .. Len(run.orders) /\ DOMAIN r.orders = 1 .. Len(r.orders)
        /\ DOMAIN after.orders = 1 .. Len(after.orders)
    BY <2>4, <2>5 DEF Bridge
  <2> DEFINE m == Len(run.orders) + 1
             n == Len(r.orders) + 1
  <2>7. /\ m \in DOMAIN after.orders /\ n \in DOMAIN after.orders /\ m < n
        /\ after.orders[m] = after.orders[n] /\ after.orders[m].status = "filled"
    <3>1. Len(r.orders) = m /\ m \in Nat /\ n = m + 1 /\ Len(after.orders) = n
      BY <2>4, <2>5, <2>6
    <3> HIDE DEF m, n
    <3>2. m \in DOMAIN r.orders /\ m \in DOMAIN after.orders /\ n \in DOMAIN after.orders
      BY <2>4, <2>6, <3>1 DEF m
    <3>3. /\ after.orders[m] = [id |-> id, status |-> "filled"]
          /\ after.orders[n] = [id |-> id, status |-> "filled"]
      BY <2>4, <2>5, <3>2 DEF m, n
    <3>4. QED
      BY <3>1, <3>2, <3>3
  <2>8. Split(after)
    BY <2>7 DEF Split
  <2>9. after.position = run.position + size
    BY <2>1, <2>4, <2>5, <2>6
  <2>10. Len(after.orders) >= Len(run.orders)
         /\ \A k \in DOMAIN run.orders : after.orders[k] = run.orders[k]
    BY <2>4, <2>5, <2>6
  <2> HIDE DEF size
  <2>11. QED
    BY <2>4, <2>5, <2>8, <2>9, <2>10 DEF IsFilled, after, id, size
<1>9. QED
  BY <1>2, <1>7, <1>8, PartsAre DEF after, id

LEMMA FilledIs ==
  ASSUME NEW run \in Bridge(NativeOrder), Len(run.submitted) = 1,
         NEW parts \in Parts(run.submitted[1].size), NEW time \in 1 .. Len(tape)
  PROVE  /\ IsFilled(run, Filled(run, parts, time), time)
         /\ Filled(run, parts, time).submitted = <<>>
<1> DEFINE after == ReportAll(run, parts, run.submitted[1].id, time)
           new == Filled(run, parts, time)
<1>1. IsFilled(run, after, time)
  BY ReportAllIs
<1>2. new = [after EXCEPT !.submitted = <<>>]
  BY DEF Filled, ReportAll
<1> HIDE DEF after, new
<1>3. after \in Bridge(NativeOrder) /\ <<>> \in Seq(NativeOrder)
  BY <1>1 DEF IsFilled
<1>4. /\ new \in Bridge(NativeOrder) /\ new.submitted = <<>> /\ new.position = after.position
      /\ new.pending_target = after.pending_target /\ new.fills = after.fills
      /\ new.orders = after.orders
  BY <1>2, <1>3 DEF Bridge
<1>5. Split(new) <=> Split(after)
  BY <1>4 DEF Split
<1>6. IsFilled(run, new, time)
  BY <1>1, <1>4, <1>5 DEF IsFilled
<1>7. QED
  BY <1>4, <1>6 DEF new
(* What NautilusTrader submits at a bar: nothing, or an order in whole lots *)
(* that goes all the way where the way is in whole lots.                    *)
LEMMA SubmittedIs ==
  ASSUME NEW run \in Bridge(NativeOrder), NEW quantity \in MakeQty(Abs(DeltaOf(run))),
         quantity = 0 => DeltaOf(run) = 0
  PROVE  LET new == Submitted(run, quantity)
         IN /\ new \in Bridge(NativeOrder)
            /\ new.position = run.position /\ new.fills = run.fills
            /\ new.pending_target = NoTarget
            /\ Len(new.orders) >= Len(run.orders)
            /\ \A n \in DOMAIN run.orders : new.orders[n] = run.orders[n]
            /\ DeltaOf(run) = 0 => new.submitted = run.submitted
            /\ DeltaOf(run) # 0 =>
                 \E order \in NativeOrder : /\ new.submitted = Append(run.submitted, order)
                                            /\ WholeLots(order.size)
                                            /\ 2 * Abs(order.size - DeltaOf(run)) <= LotSize
<1> DEFINE new == Submitted(run, quantity)
           delta == DeltaOf(run)
           cleared == [run EXCEPT !.pending_target = NoTarget, !.shown = run.position]
           size == IF delta > 0 THEN quantity ELSE -quantity
<1>1. delta \in Int
  <2>1. run.position \in Int /\ run.pending_target \in Int \cup {NoTarget}
    BY AdaptersAssumption DEF Bridge
  <2>2. QED
    BY <2>1 DEF DeltaOf
<1>2. /\ cleared \in Bridge(NativeOrder)
      /\ cleared.position = run.position /\ cleared.fills = run.fills
      /\ cleared.pending_target = NoTarget
      /\ cleared.orders = run.orders /\ cleared.submitted = run.submitted
  BY DEF Bridge
<1>4. Len(run.orders) \in Nat
  BY DEF Bridge
<1>5. new = IF delta = 0 THEN cleared ELSE Accepted(cleared, size)
  BY DEF Submitted
<1>6. quantity \in Nat /\ WholeLots(quantity) /\ 2 * Abs(quantity - Abs(delta)) <= LotSize
  BY <1>1, MakeQtyIs
<1> HIDE DEF new, cleared
<1>7. CASE delta = 0
  BY <1>2, <1>4, <1>5, <1>7 DEF new
<1>8. CASE delta # 0
  <2>1. size \in Int \ {0}
    BY <1>6, <1>8
  <2>2. WholeLots(size)
    <3>1. quantity \in Int /\ WholeLots(quantity)
      BY <1>6
    <3>2. WholeLots(-quantity)
      BY <3>1, WholeSum
    <3>3. QED
      BY <3>1, <3>2
  <2>3. 2 * Abs(size - delta) <= LotSize
    BY <1>1, <1>6, <1>8, AdaptersAssumption DEF Abs
  <2> HIDE DEF size, delta
  <2> DEFINE order == NewOrder(cleared, size)
             entry == [id |-> Len(run.orders) + 1, status |-> "accepted"]
  <2>4. /\ new \in Bridge(NativeOrder)
        /\ new.position = run.position /\ new.fills = run.fills
        /\ new.pending_target = NoTarget
        /\ new.submitted = Append(run.submitted, order)
        /\ new.orders = Append(run.orders, entry)
    <3>1. order \in NativeOrder /\ Len(cleared.orders) = Len(run.orders)
      BY <1>2, <1>4, <2>1 DEF NativeOrder, NewOrder
    <3>2. new = Accepted(cleared, size)
      BY <1>5, <1>8
    <3>3. LET given == Accepted(cleared, size)
          IN /\ given \in Bridge(NativeOrder)
             /\ given.position = cleared.position /\ given.fills = cleared.fills
             /\ given.pending_target = cleared.pending_target
             /\ given.submitted = Append(cleared.submitted, order)
             /\ given.orders = Append(cleared.orders,
                                      [id |-> Len(cleared.orders) + 1, status |-> "accepted"])
      BY <1>2, <3>1, AcceptedIs
    <3> HIDE DEF order
    <3>4. QED
      BY <1>2, <3>1, <3>2, <3>3
  <2>6. order \in NativeOrder /\ order.size = size
    BY <1>2, <1>4, <2>1 DEF NativeOrder, NewOrder
  <2>7. run.orders \in Seq(OrderEntry)
    BY DEF Bridge
  <2> HIDE DEF order, entry
  <2>8. /\ Len(new.orders) >= Len(run.orders)
        /\ \A n \in DOMAIN run.orders : new.orders[n] = run.orders[n]
    BY <1>4, <2>4, <2>7
  <2>9. QED
    BY <1>8, <2>2, <2>3, <2>4, <2>6, <2>8 DEF new, delta
<1>9. QED
  BY <1>7, <1>8

-----------------------------------------------------------------------------
(* The invariant holds at the start, and every action keeps it.             *)
LEMMA AdaptersStart == Init => AdaptersInv
<1> SUFFICES ASSUME Init PROVE AdaptersInv
  OBVIOUS
<1>1. /\ Fresh \in Bridge(Quantities) /\ Fresh \in Bridge(NativeOrder) /\ Fresh \in Bridge(DoubleOrder)
      /\ Fresh.position = 0 /\ Fresh.submitted = <<>> /\ Fresh.orders = <<>>
      /\ Fresh.fills = <<>> /\ Fresh.pending_target = NoTarget
  BY DEF Fresh, Bridge
<1>2. /\ reference = Fresh /\ backtrader = Fresh /\ nautilus = Fresh
      /\ refused = [backtrader |-> {}, nautilus |-> {}]
      /\ asked = 0 /\ crowded = FALSE
  BY DEF Init
<1>3. TapeInv
  <2>1. tape \in Tapes /\ phase = "validate" /\ cursor = 0 /\ acted = 0 /\ Len(tape) \in Nat
    BY AdaptersAssumption DEF Init
  <2>2. refused \in [backtrader : SUBSET Nat, nautilus : SUBSET Nat]
    BY <1>2
  <2>3. cursor \in 0 .. Len(tape)
    BY <2>1
  <2>4. asked \in Nat /\ crowded \in BOOLEAN /\ acted \in Nat
    BY <1>2, <2>1
  <2>5. QED
    BY <2>1, <2>2, <2>3, <2>4 DEF TapeInv
<1>4. BridgesInv /\ AskedInv
  <2>1. 0 \in Doubles /\ Exact(0)
    BY PrintedIs, DoublesAssumption DEF Exact
  <2>2. Fresh \in Holding
    BY <1>1, <2>1 DEF Holding
  <2>3. QED
    BY <1>1, <1>2, <2>2 DEF BridgesInv, AskedInv
<1>6. WholeLots(0) /\ InFlight(Fresh) = 0
  <2>1. 0 = 0 * LotSize
    BY AdaptersAssumption
  <2>2. WholeLots(0)
    BY <2>1, WholeIsMultiple
  <2>3. QED
    BY <1>1, <2>2 DEF InFlight
<1>7. BacktraderInv /\ PendingInv /\ NautilusInv /\ FillsInv
  <2>1. 2 * Abs((0 + 0) - 0) <= LotSize
    BY AdaptersAssumption DEF Abs
  <2>2. NautilusInv
    BY <1>1, <1>2, <1>6, <2>1 DEF NautilusInv
  <2>3. QED
    BY <1>1, <1>2, <1>6, <2>2 DEF BacktraderInv, PendingInv, FillsInv, Init
<1>8. QED
  BY <1>2, <1>3, <1>4, <1>7 DEF AdaptersInv

LEMMA Keeps ==
  ASSUME AdaptersInv, UNCHANGED <<tape, cursor, bridges, asked, crowded>>,
         phase' \in {"validate", "bar", "act", "finished", "failed"}, acted' \in Nat,
         phase' \in {"act", "failed"} \/ phase \notin {"act", "failed"},
         phase' = "act" => phase = "act"
  PROVE  AdaptersInv'
<1>1. /\ tape' = tape /\ cursor' = cursor /\ asked' = asked /\ crowded' = crowded
      /\ reference' = reference /\ backtrader' = backtrader /\ nautilus' = nautilus
      /\ refused' = refused
  BY DEF bridges
<1>2. TapeInv' /\ BridgesInv' /\ AskedInv'
  BY <1>1 DEF AdaptersInv, TapeInv, BridgesInv, AskedInv, Bridge, Fill, Holding, Exact
<1>3. BacktraderInv' /\ PendingInv' /\ NautilusInv' /\ FillsInv'
  BY <1>1 DEF AdaptersInv, BacktraderInv, PendingInv, NautilusInv, FillsInv, WholeFills,
              WholeLots, InFlight, Split, FillAt, Abs
<1>4. QED
  BY <1>2, <1>3 DEF AdaptersInv
(* A bar begins: the reference engine settles, Backtrader's broker deals    *)
(* with its orders, and NautilusTrader's bridge submits one.                *)
LEMMA BeginsBar == AdaptersInv /\ BeginBar => AdaptersInv'
<1> SUFFICES ASSUME AdaptersInv, BeginBar PROVE AdaptersInv'
  OBVIOUS
<1> DEFINE time == cursor + 1
<1>1. PICK refusals \in SUBSET {order.id : order \in ToSet(backtrader.submitted)} :
             /\ refused' = [refused EXCEPT !.backtrader = @ \cup refusals]
             /\ backtrader' = Brokered(backtrader, refusals, time)
  BY DEF BeginBar
<1>2. PICK quantity \in MakeQty(Abs(DeltaOf(nautilus))) :
             /\ quantity = 0 => DeltaOf(nautilus) = 0
             /\ nautilus' = Submitted(nautilus, quantity)
  BY DEF BeginBar
<1>3. /\ phase = "bar" /\ phase' = "act" /\ tape' = tape /\ crowded' = crowded
      /\ cursor' = time /\ acted' = 0 /\ asked' = 0 /\ cursor < Len(tape)
      /\ reference' = Settled(reference, time)
  BY DEF BeginBar
<1>4. /\ TapeInv /\ BridgesInv /\ AskedInv /\ BacktraderInv /\ PendingInv /\ NautilusInv /\ FillsInv
  BY DEF AdaptersInv
<1>5. /\ Len(tape) \in Nat /\ cursor \in Nat /\ time \in 1 .. Len(tape)
      /\ tape \in Tapes
  <2>1. tape \in Tapes /\ Len(tape) \in Nat
    BY <1>4, AdaptersAssumption DEF TapeInv
  <2>2. QED
    BY <1>3, <1>4, <2>1 DEF TapeInv
<1>6. /\ reference \in Bridge(Quantities) /\ nautilus \in Bridge(NativeOrder)
      /\ backtrader \in Holding /\ backtrader \in Bridge(DoubleOrder)
      /\ backtrader.position \in Doubles
  BY <1>4 DEF BridgesInv, Holding
<1>7. refusals \subseteq Flying(backtrader)
  BY DEF Flying
<1> HIDE DEF time
<1>8. Fill' = Fill /\ Holding' = Holding /\ \A S : Bridge(S)' = Bridge(S)
  BY <1>3 DEF Fill, Bridge, Holding, Exact
<1> DEFINE target == reference.submitted[Len(reference.submitted)]
           delta == DeltaOf(nautilus)
           before == reference.position
<1>9. /\ reference' \in Bridge(Quantities) /\ reference'.submitted = <<>>
      /\ reference'.position = IF reference.submitted = <<>> THEN before ELSE target
      /\ Len(reference.submitted) = 0 => reference'.fills = reference.fills
      /\ Len(reference.submitted) = 1 =>
           reference'.fills = IF reference.submitted[1] = before THEN reference.fills
                              ELSE Append(reference.fills,
                                          FillAt(time, reference.submitted[1] - before))
  BY <1>3, <1>5, <1>6, SettledIs
<1>10. /\ backtrader' \in Holding /\ backtrader'.submitted = <<>>
       /\ backtrader.rounded => backtrader'.rounded
       /\ (Len(backtrader.submitted) = 0) =>
            /\ backtrader'.position = backtrader.position
            /\ backtrader'.fills = backtrader.fills
       /\ (Len(backtrader.submitted) = 1 /\ refusals = {} /\ ~backtrader'.rounded) =>
            /\ backtrader'.position = backtrader.position + backtrader.submitted[1].size
            /\ backtrader'.fills
                 = Append(backtrader.fills, FillAt(time, backtrader.submitted[1].size))
  BY <1>1, <1>5, <1>6, BrokeredIs
<1>11. nautilus.submitted = <<>> /\ InFlight(nautilus) = 0
  BY <1>3, <1>4 DEF PendingInv, InFlight
<1>12. /\ nautilus' \in Bridge(NativeOrder)
       /\ nautilus'.position = nautilus.position /\ nautilus'.fills = nautilus.fills
       /\ nautilus'.pending_target = NoTarget
       /\ Len(nautilus'.orders) >= Len(nautilus.orders)
       /\ \A n \in DOMAIN nautilus.orders : nautilus'.orders[n] = nautilus.orders[n]
       /\ delta = 0 => nautilus'.submitted = <<>>
       /\ delta # 0 =>
            \E order \in NativeOrder : /\ nautilus'.submitted = Append(<<>>, order)
                                       /\ WholeLots(order.size)
                                       /\ 2 * Abs(order.size - delta) <= LotSize
  BY <1>2, <1>6, <1>11, SubmittedIs
<1>13. delta = IF reference.submitted = <<>> THEN 0 ELSE target - nautilus.position
  <2>1. reference.submitted # <<>> => target \in Quantities
    BY <1>6 DEF Bridge
  <2>2. reference.submitted # <<>> => target # NoTarget
    BY <2>1, AdaptersAssumption
  <2>3. nautilus.pending_target = IF reference.submitted = <<>> THEN NoTarget ELSE target
    BY <1>4 DEF PendingInv
  <2>4. QED
    BY <2>2, <2>3 DEF DeltaOf
<1>14. /\ before \in Int /\ nautilus.position \in Int /\ LotSize \in Nat \ {0}
       /\ reference.submitted # <<>> => target \in Int
  <2>1. reference.submitted # <<>> => target \in Quantities
    BY <1>6 DEF Bridge
  <2>2. QED
    BY <1>6, <2>1, AdaptersAssumption DEF Bridge
<1>15. /\ reference.submitted \in Seq(Quantities) /\ Len(reference.submitted) \in Nat
       /\ reference.submitted # <<>> => Len(reference.submitted) # 0
  <2>1. reference.submitted \in Seq(Quantities)
    BY <1>6 DEF Bridge
  <2>2. \A s \in Seq(Quantities) : Len(s) \in Nat /\ (s # <<>> => Len(s) # 0)
    OBVIOUS
  <2>3. QED
    BY <2>1, <2>2
<1> HIDE DEF target, delta, before
(* In flight after the step: what NautilusTrader is behind, to half a lot.  *)
<1>16. /\ Len(nautilus'.submitted) <= 1
       /\ WholeLots(InFlight(nautilus'))
       /\ nautilus'.submitted = <<>> <=> delta = 0
       /\ delta # 0 => InFlight(nautilus') = nautilus'.submitted[1].size
       /\ InFlight(nautilus') \in Int
       /\ 2 * Abs(InFlight(nautilus') - delta) <= LotSize
       /\ WholeLots(delta) => InFlight(nautilus') = delta
  <2>1. delta \in Int
    BY <1>13, <1>14
  <2>2. CASE delta = 0
    <3>1. nautilus'.submitted = <<>> /\ InFlight(nautilus') = 0
      BY <1>12, <2>2 DEF InFlight
    <3>2. WholeLots(0)
      BY <1>4, <1>11 DEF PendingInv
    <3>3. 2 * Abs(0 - 0) <= LotSize /\ Len(<<>>) <= 1
      BY <1>14 DEF Abs
    <3>4. QED
      BY <2>2, <3>1, <3>2, <3>3
  <2>3. CASE delta # 0
    <3>1. PICK order \in NativeOrder : /\ nautilus'.submitted = Append(<<>>, order)
                                       /\ WholeLots(order.size)
                                       /\ 2 * Abs(order.size - delta) <= LotSize
      BY <1>12, <2>3
    <3>2. /\ nautilus'.submitted # <<>> /\ Len(nautilus'.submitted) = 1
          /\ nautilus'.submitted[1] = order /\ order.size \in Int
      BY <3>1 DEF NativeOrder
    <3>3. InFlight(nautilus') = order.size
      BY <3>2 DEF InFlight
    <3>4. WholeLots(delta) => order.size = delta
      BY <2>1, <3>1, <3>2, LotsApart
    <3>5. QED
      BY <2>3, <3>1, <3>2, <3>3, <3>4
  <2>4. QED
    BY <2>2, <2>3
<1>17. TapeInv'
  <2>1. \A n \in DOMAIN backtrader.submitted : backtrader.submitted[n].id \in Nat
    <3>1. \A n \in DOMAIN backtrader.submitted : backtrader.submitted[n] \in DoubleOrder
      BY <1>6 DEF Bridge
    <3>2. QED
      BY <3>1 DEF DoubleOrder
  <2>2. refusals \subseteq Nat
    BY <1>7, <2>1, FlyingOf
  <2>3. refused \in [backtrader : SUBSET Nat, nautilus : SUBSET Nat]
    BY <1>4 DEF TapeInv
  <2>4. refused' \in [backtrader : SUBSET Nat, nautilus : SUBSET Nat]
    BY <1>1, <2>2, <2>3
  <2>5. tape' \in Tapes /\ cursor' \in 0 .. Len(tape') /\ cursor' # 0
    BY <1>3, <1>5
  <2>6. crowded' \in BOOLEAN
    BY <1>3, <1>4 DEF TapeInv
  <2>7. QED
    BY <1>3, <2>4, <2>5, <2>6 DEF TapeInv
<1>18. /\ refused'.backtrader = refused.backtrader \cup refusals
       /\ refused'.nautilus = refused.nautilus
  BY <1>1, <1>4 DEF TapeInv
<1>19. BridgesInv'
  BY <1>8, <1>9, <1>10, <1>12 DEF BridgesInv
<1>20. AskedInv'
  BY <1>3, <1>9 DEF AskedInv
<1>23. BacktraderInv'
  <2>1. SUFFICES ASSUME ~crowded', refused'.backtrader = {}, ~backtrader'.rounded
                 PROVE  /\ backtrader'.position = reference'.position
                        /\ backtrader'.fills = reference'.fills
    BY <1>9, <1>10 DEF BacktraderInv
  <2>2. ~crowded /\ refused.backtrader = {} /\ refusals = {} /\ ~backtrader.rounded
    BY <1>3, <1>10, <1>18, <2>1
  <2>3. Len(reference.submitted) <= 1
    BY <1>4, <2>2 DEF AskedInv
  <2>4. /\ backtrader.position = before
        /\ backtrader.fills = reference.fills
        /\ IF reference.submitted = <<>> \/ reference.submitted[1] = before
           THEN backtrader.submitted = <<>>
           ELSE /\ Len(backtrader.submitted) = 1
                /\ backtrader.submitted[1].size = reference.submitted[1] - before
    BY <1>4, <2>2 DEF BacktraderInv, before
  <2>5. CASE reference.submitted = <<>>
    BY <1>9, <1>10, <2>4, <2>5
  <2>6. CASE reference.submitted # <<>>
    <3>1. Len(reference.submitted) = 1 /\ target = reference.submitted[1]
      <4>1. Len(reference.submitted) = 1
        <5>1. \A n \in Nat : n # 0 /\ n <= 1 => n = 1
          OBVIOUS
        <5>2. QED
          BY <1>15, <2>3, <2>6, <5>1, Zenon
      <4>2. QED
        BY <4>1 DEF target
    <3>2. CASE target = before
      BY <1>9, <1>10, <2>4, <2>6, <3>1, <3>2
    <3>3. CASE target # before
      <4>1. /\ Len(backtrader.submitted) = 1
            /\ backtrader.submitted[1].size = target - before
        BY <2>4, <2>6, <3>1, <3>3
      <4>2. /\ backtrader'.position = before + (target - before)
            /\ backtrader'.fills = Append(reference.fills, FillAt(time, target - before))
        BY <1>10, <2>1, <2>2, <2>4, <4>1
      <4>3. before + (target - before) = target
        BY <1>14, <2>6
      <4>4. QED
        BY <1>9, <2>6, <3>1, <3>3, <4>2, <4>3
    <3>4. QED
      BY <3>2, <3>3
  <2>7. QED
    BY <2>5, <2>6
<1>24. PendingInv'
  BY <1>3, <1>4, <1>9, <1>12, <1>16 DEF PendingInv, WholeLots
<1>25. NautilusInv'
  <2>1. SUFFICES ASSUME refused'.nautilus = {}
                 PROVE  2 * Abs((nautilus'.position + InFlight(nautilus')) - reference'.position)
                          <= LotSize
    BY DEF NautilusInv, InFlight, Abs
  <2>2. CASE reference.submitted = <<>>
    <3>1. 2 * Abs((nautilus.position + 0) - before) <= LotSize
      BY <1>4, <1>11, <1>18, <2>1 DEF NautilusInv, before
    <3>2. InFlight(nautilus') = 0
      BY <1>12, <1>13, <2>2 DEF InFlight
    <3>3. QED
      BY <1>9, <1>12, <2>2, <3>1, <3>2
  <2>3. CASE reference.submitted # <<>>
    <3>1. delta = target - nautilus.position /\ target \in Int
      BY <1>13, <1>14, <2>3
    <3>2. (nautilus.position + InFlight(nautilus')) - target = InFlight(nautilus') - delta
      BY <1>14, <1>16, <3>1
    <3>3. QED
      BY <1>9, <1>12, <1>16, <2>3, <3>2
  <2>4. QED
    BY <2>2, <2>3
<1>26. FillsInv'
  <2>1. SUFFICES ASSUME ~crowded', WholeFills'
                 PROVE  /\ WholeLots(reference'.position)
                        /\ (refused'.nautilus = {} /\ ~Split(nautilus')) =>
                             reference'.fills =
                               IF nautilus'.submitted = <<>> THEN nautilus'.fills
                               ELSE Append(nautilus'.fills, FillAt(time, nautilus'.submitted[1].size))
    BY <1>3 DEF FillsInv, WholeLots, Split, FillAt
  <2>2. Len(reference.submitted) <= 1 /\ ~crowded
    BY <1>3, <1>4, <2>1 DEF AskedInv
  <2> DEFINE moved == reference.submitted # <<>> /\ target # before
  <2>3. reference.submitted # <<>> => Len(reference.submitted) = 1 /\ target = reference.submitted[1]
    <3>1. reference.submitted # <<>> => Len(reference.submitted) = 1
      <4>1. \A n \in Nat : n # 0 /\ n <= 1 => n = 1
        OBVIOUS
      <4>2. QED
        BY <1>15, <2>2, <4>1, Zenon
    <3>2. QED
      BY <3>1 DEF target
  <2>4. /\ ~moved => reference'.fills = reference.fills /\ reference'.position = before
        /\ moved => /\ reference'.fills = Append(reference.fills, FillAt(time, target - before))
                    /\ reference'.position = target
    <3>1. CASE reference.submitted = <<>>
      BY <1>9, <3>1
    <3>2. CASE reference.submitted # <<>>
      BY <1>9, <2>3, <3>2
    <3>3. QED
      BY <3>1, <3>2
  <2>5. \A n \in DOMAIN reference'.fills : WholeLots(reference'.fills[n].quantity)
    BY <2>1 DEF WholeFills, WholeLots
  <2>6. WholeFills
    <3>1. CASE ~moved
      BY <2>4, <2>5, <3>1 DEF WholeFills
    <3>2. CASE moved
      <4>1. reference.fills \in Seq(Fill)
        BY <1>6 DEF Bridge
      <4>2. \A n \in DOMAIN reference.fills :
              n \in DOMAIN reference'.fills /\ reference'.fills[n] = reference.fills[n]
        BY <2>4, <3>2, <4>1
      <4>3. QED
        BY <2>5, <4>2 DEF WholeFills
    <3>3. QED
      BY <3>1, <3>2
  <2>7. WholeLots(before)
    BY <1>4, <2>2, <2>6 DEF FillsInv, before
  <2>8. moved => WholeLots(target - before) /\ WholeLots(target)
    <3>1. SUFFICES ASSUME moved PROVE WholeLots(target - before) /\ WholeLots(target)
      OBVIOUS
    <3>2. reference.fills \in Seq(Fill)
      BY <1>6 DEF Bridge
    <3> DEFINE d == target - before
               last == FillAt(time, d)
    <3>3. reference'.fills = Append(reference.fills, last)
      BY <2>4, <3>1
    <3> HIDE DEF last
    <3>4. WholeLots(last.quantity)
      BY <2>5, <3>2, <3>3
    <3>5. last.quantity = Abs(d)
      BY DEF last, FillAt
    <3>6. d \in Int /\ target \in Int
      BY <1>14, <3>1
    <3>7. d = Abs(d) \/ d = -Abs(d)
      BY <3>6 DEF Abs
    <3>8. Abs(d) \in Int
      BY <3>6 DEF Abs
    <3>9. WholeLots(-Abs(d))
      BY <3>4, <3>5, <3>8, WholeSum
    <3>10. WholeLots(d)
      BY <3>4, <3>5, <3>7, <3>9
    <3> HIDE DEF d
    <3>11. WholeLots(before + d)
      BY <1>14, <2>7, <3>6, <3>10, WholeSum
    <3>12. before + d = target
      BY <1>14, <3>6 DEF d
    <3>13. QED
      BY <3>10, <3>11, <3>12 DEF d
  <2>9. WholeLots(reference'.position)
    BY <2>4, <2>7, <2>8
  <2>10. ASSUME refused'.nautilus = {}, ~Split(nautilus')
         PROVE  reference'.fills =
                  IF nautilus'.submitted = <<>> THEN nautilus'.fills
                  ELSE Append(nautilus'.fills, FillAt(time, nautilus'.submitted[1].size))
    <3>1. refused.nautilus = {}
      BY <1>18, <2>10
    <3>2. ~Split(nautilus)
      <4> DEFINE new == nautilus'
      <4>1. /\ new \in Bridge(NativeOrder) /\ Len(new.orders) >= Len(nautilus.orders)
            /\ \A n \in DOMAIN nautilus.orders : new.orders[n] = nautilus.orders[n]
        BY <1>12
      <4>2. ~Split(new)
        BY <2>10
      <4> HIDE DEF new
      <4>3. QED
        BY <1>6, <4>1, <4>2, SplitStays
    <3>3. nautilus.position = before
      <4>1. 2 * Abs((nautilus.position + 0) - before) <= LotSize
        BY <1>4, <1>11, <3>1 DEF NautilusInv, before
      <4>2. (nautilus.position + 0) - before = nautilus.position - before
        BY <1>14
      <4>3. WholeLots(nautilus.position)
        BY <1>4 DEF PendingInv
      <4>4. QED
        BY <1>14, <2>7, <4>1, <4>2, <4>3, LotsApart
    <3>4. reference.fills = nautilus.fills
      BY <1>4, <1>11, <2>2, <2>6, <3>1, <3>2 DEF FillsInv
    <3>5. CASE ~moved
      <4>1. delta = 0
        BY <1>13, <1>14, <3>3, <3>5
      <4>2. QED
        BY <1>12, <2>4, <3>4, <3>5, <4>1
    <3>6. CASE moved
      <4>1. delta = target - before /\ delta # 0
        BY <1>13, <1>14, <3>3, <3>6
      <4>2. /\ nautilus'.submitted # <<>> /\ nautilus'.submitted[1].size = target - before
        BY <1>16, <2>8, <3>6, <4>1
      <4>3. QED
        BY <1>12, <2>4, <3>4, <3>6, <4>2
    <3>7. QED
      BY <3>5, <3>6
  <2>11. QED
    BY <2>9, <2>10
<1>27. QED
  BY <1>17, <1>19, <1>20, <1>23, <1>24, <1>25, <1>26 DEF AdaptersInv

(* Backtrader gets an order for the way from the position it has.           *)
LEMMA OrderedIs ==
  ASSUME NEW run \in Holding, NEW target \in Int
  PROVE  LET new == Ordered(run, target)
         IN /\ new \in Holding
            /\ new.position = run.position /\ new.fills = run.fills /\ new.shown = run.shown
            /\ run.rounded => new.rounded
            /\ ~new.rounded =>
                 IF target = run.position THEN new.submitted = run.submitted
                 ELSE \E order \in DoubleOrder : /\ new.submitted = Append(run.submitted, order)
                                                 /\ order.size = target - run.position
            /\ (~run.rounded /\ Exact(target) /\ Exact(target - run.position)) => ~new.rounded
<1> DEFINE delta == target - run.position
           rounded == run.rounded \/ ~Exact(target) \/ ~Exact(delta)
           asking == [run EXCEPT !.rounded = @ \/ ~Exact(target) \/ ~Exact(delta)]
           size == OrderTargetSize(run, target)
           new == Ordered(run, target)
<1>1. /\ run \in Bridge(DoubleOrder) /\ run.position \in Doubles /\ run.rounded \in BOOLEAN
      /\ Doubles \subseteq Int /\ (~run.rounded => Exact(run.position))
  BY DoublesAssumption DEF Holding, Bridge
<1>2. Double(target) \in Doubles
  BY NearestIs
<1>3. size \in Doubles
  <2>1. Double(target) - run.position \in Int
    <3>1. run.position \in Doubles /\ Doubles \subseteq Int
      BY <1>1
    <3>2. run.position \in Int /\ Double(target) \in Int
      BY <1>2, <3>1
    <3>3. QED
      BY <3>2
  <2> DEFINE x == Double(target) - run.position
  <2>2. size = Double(x) /\ x \in Int
    BY <2>1 DEF OrderTargetSize
  <2> HIDE DEF x, size
  <2>3. QED
    BY <2>2, NearestIs
<1>4. Double(target) # run.position => size # 0
  BY <1>1, <1>2, DoublesAssumption DEF OrderTargetSize
<1>5. new = IF Double(target) = run.position THEN asking ELSE Accepted(asking, size)
  BY DEF Ordered
<1>6. /\ asking \in Bridge(DoubleOrder) /\ asking.rounded = rounded
      /\ asking.position = run.position /\ asking.fills = run.fills
      /\ asking.shown = run.shown /\ asking.submitted = run.submitted
      /\ asking.orders = run.orders
  <2>1. rounded \in BOOLEAN
    OBVIOUS
  <2>2. asking = [run EXCEPT !.rounded = rounded]
    BY <1>1 DEF Bridge
  <2> HIDE DEF rounded, asking
  <2>3. QED
    BY <1>1, <2>1, <2>2 DEF Bridge
<1>7. ~rounded => /\ Double(target) = target /\ ~run.rounded
                  /\ target # run.position => size = delta
  <2>1. ~rounded => target \in Doubles /\ delta \in Doubles /\ ~run.rounded
    BY DEF Exact
  <2>2. ~rounded => Double(target) = target /\ Double(delta) = delta
    BY <2>1, DoubleIs
  <2>3. QED
    BY <2>1, <2>2 DEF OrderTargetSize
<1> HIDE DEF rounded, asking, size, new
<1>8. CASE Double(target) = run.position
  <2>1. new = asking
    BY <1>5, <1>8
  <2>2. new \in Holding
    BY <1>1, <1>6, <2>1 DEF Holding, rounded
  <2>3. ~new.rounded => target = run.position
    BY <1>6, <1>7, <1>8, <2>1
  <2>4. QED
    BY <1>6, <2>1, <2>2, <2>3 DEF new, rounded
<1>9. CASE Double(target) # run.position
  <2> DEFINE order == NewOrder(asking, size)
  <2>1. order \in DoubleOrder /\ order.size = size
    <3>1. Len(asking.orders) \in Nat
      BY <1>6 DEF Bridge
    <3>2. QED
      BY <1>3, <1>4, <1>9, <3>1 DEF DoubleOrder, NewOrder
  <2>2. /\ new \in Bridge(DoubleOrder) /\ new.position = asking.position
        /\ new.fills = asking.fills /\ new.shown = asking.shown /\ new.rounded = asking.rounded
        /\ new.submitted = Append(asking.submitted, order)
    <3>1. new = Accepted(asking, size)
      BY <1>5, <1>9
    <3>2. asking \in Bridge(DoubleOrder)
      BY <1>6
    <3>3. NewOrder(asking, size) \in DoubleOrder
      BY <2>1
    <3>4. Accepted(asking, size) \in Bridge(DoubleOrder)
      BY <3>2, <3>3, AcceptedIs
    <3>5. Accepted(asking, size).position = asking.position
      BY <3>2, <3>3, AcceptedIs
    <3>6. Accepted(asking, size).fills = asking.fills
      BY <3>2, <3>3, AcceptedIs
    <3>7. Accepted(asking, size).rounded = asking.rounded
          /\ Accepted(asking, size).shown = asking.shown
      BY <3>2, AcceptedKeeps
    <3>8. Accepted(asking, size).submitted = Append(asking.submitted, NewOrder(asking, size))
      BY <3>2, <3>3, AcceptedIs
    <3>9. QED
      BY <3>1, <3>4, <3>5, <3>6, <3>7, <3>8
  <2> HIDE DEF order
  <2>3. new \in Holding
    BY <1>1, <1>6, <2>2 DEF Holding, rounded
  <2>4. ~new.rounded => target # run.position /\ order.size = target - run.position
    BY <1>6, <1>7, <1>9, <2>1, <2>2
  <2>5. QED
    BY <1>6, <2>1, <2>2, <2>3, <2>4 DEF new, rounded
<1>10. QED
  BY <1>8, <1>9

(* A target: the reference engine and NautilusTrader's bridge keep it.      *)
LEMMA HandlesTarget ==
  ASSUME NEW q \in Quantities, AdaptersInv, HandleTarget(q)
  PROVE  AdaptersInv'
<1>1. /\ phase = "act" /\ phase' = "act" /\ tape' = tape /\ cursor' = cursor
      /\ acted' = acted + 1 /\ asked' = asked + 1 /\ crowded' = (crowded \/ asked > 0)
      /\ refused' = refused
      /\ reference' = [reference EXCEPT !.submitted = Append(@, q)]
      /\ backtrader' = Ordered(backtrader, q)
      /\ nautilus' = [nautilus EXCEPT !.pending_target = q]
  BY DEF HandleTarget, Targeted
<1>2. TapeInv /\ BridgesInv /\ AskedInv /\ BacktraderInv /\ PendingInv /\ NautilusInv /\ FillsInv
  BY DEF AdaptersInv
<1>3. /\ reference \in Bridge(Quantities) /\ backtrader \in Holding
      /\ nautilus \in Bridge(NativeOrder) /\ q \in Int
  BY <1>2, AdaptersAssumption DEF BridgesInv
<1>4. Fill' = Fill /\ Holding' = Holding /\ \A S : Bridge(S)' = Bridge(S)
  BY <1>1 DEF Fill, Bridge, Holding, Exact
<1>5. /\ reference' \in Bridge(Quantities)
      /\ reference'.submitted = Append(reference.submitted, q)
      /\ reference'.position = reference.position /\ reference'.fills = reference.fills
  <2>1. Append(reference.submitted, q) \in Seq(Quantities)
    BY <1>3 DEF Bridge
  <2>2. QED
    BY <1>1, <1>3, <2>1 DEF Bridge
<1>7. /\ backtrader' \in Holding
      /\ backtrader'.position = backtrader.position /\ backtrader'.fills = backtrader.fills
      /\ backtrader.rounded => backtrader'.rounded
      /\ ~backtrader'.rounded =>
           IF q = backtrader.position THEN backtrader'.submitted = backtrader.submitted
           ELSE \E order \in DoubleOrder : /\ backtrader'.submitted = Append(backtrader.submitted, order)
                                           /\ order.size = q - backtrader.position
  BY <1>1, <1>3, OrderedIs
<1>8. /\ nautilus' \in Bridge(NativeOrder)
      /\ nautilus'.pending_target = q
      /\ nautilus'.position = nautilus.position /\ nautilus'.fills = nautilus.fills
      /\ nautilus'.submitted = nautilus.submitted /\ nautilus'.orders = nautilus.orders
  BY <1>1, <1>3 DEF Bridge
<1>9. asked \in Nat /\ Len(reference.submitted) = asked
      /\ Len(reference'.submitted) = asked + 1 /\ reference'.submitted # <<>>
      /\ reference'.submitted[asked + 1] = q
  <2>1. reference.submitted \in Seq(Quantities)
    BY <1>3 DEF Bridge
  <2>2. asked \in Nat /\ Len(reference.submitted) = asked
    BY <1>2 DEF TapeInv, AskedInv
  <2>3. reference'.submitted = Append(reference.submitted, q)
    BY <1>5
  <2>4. \A seq \in Seq(Quantities) : /\ Len(Append(seq, q)) = Len(seq) + 1
                                     /\ Append(seq, q) # <<>>
                                     /\ Append(seq, q)[Len(seq) + 1] = q
    OBVIOUS
  <2>5. QED
    BY <2>1, <2>2, <2>3, <2>4
<1>10. TapeInv'
  <2>1. crowded' \in BOOLEAN /\ acted' \in Nat /\ asked' \in Nat
    BY <1>1, <1>2 DEF TapeInv
  <2>2. QED
    BY <1>1, <1>2, <2>1 DEF TapeInv
<1>11. BridgesInv'
  BY <1>4, <1>5, <1>7, <1>8 DEF BridgesInv
<1>12. ~crowded' => ~crowded /\ asked = 0
  <2>1. ~crowded' => ~crowded /\ ~(asked > 0)
    BY <1>1, Zenon
  <2>2. QED
    BY <1>9, <2>1
<1>14. BacktraderInv'
  <2>1. SUFFICES ASSUME ~crowded', refused'.backtrader = {}, ~backtrader'.rounded
                 PROVE  /\ backtrader'.position = reference'.position
                        /\ backtrader'.fills = reference'.fills
                        /\ IF reference'.submitted[1] = reference'.position
                           THEN backtrader'.submitted = <<>>
                           ELSE /\ Len(backtrader'.submitted) = 1
                                /\ backtrader'.submitted[1].size
                                     = reference'.submitted[1] - reference'.position
    BY <1>9 DEF BacktraderInv
  <2>2. ~crowded /\ refused.backtrader = {} /\ asked = 0 /\ ~backtrader.rounded
    BY <1>1, <1>7, <1>12, <2>1
  <2>3. reference.submitted = <<>>
    <3>1. \A s \in Seq(Quantities) : Len(s) = 0 => s = <<>>
      OBVIOUS
    <3>2. reference.submitted \in Seq(Quantities)
      BY <1>3 DEF Bridge
    <3>3. QED
      BY <1>9, <2>2, <3>1, <3>2
  <2>4. /\ backtrader.position = reference.position
        /\ backtrader.fills = reference.fills /\ backtrader.submitted = <<>>
    BY <1>2, <2>2, <2>3 DEF BacktraderInv
  <2>5. reference'.submitted[1] = q
    BY <1>9, <2>2
  <2>6. CASE q = reference.position
    BY <1>5, <1>7, <2>1, <2>4, <2>5, <2>6
  <2>7. CASE q # reference.position
    <3>1. PICK order \in DoubleOrder : /\ backtrader'.submitted = Append(<<>>, order)
                                       /\ order.size = q - reference.position
      BY <1>7, <2>1, <2>4, <2>7
    <3>2. Len(backtrader'.submitted) = 1 /\ backtrader'.submitted[1] = order
      BY <3>1
    <3>3. QED
      BY <1>5, <1>7, <2>4, <2>5, <2>7, <3>1, <3>2
  <2>8. QED
    BY <2>6, <2>7
<1>15. PendingInv'
  BY <1>1, <1>2, <1>8, <1>9 DEF PendingInv, WholeLots, InFlight
<1>16. NautilusInv'
  BY <1>1, <1>2, <1>5, <1>8 DEF NautilusInv, InFlight, Abs
<1>17. FillsInv'
  <2>1. crowded' \/ ~crowded
    BY <1>1
  <2>2. QED
    BY <1>1, <1>2, <1>5, <1>8, <2>1 DEF FillsInv, WholeFills, WholeLots, Split, FillAt
<1>18. AskedInv'
  BY <1>1, <1>9, <1>12 DEF AskedInv
<1>19. QED
  BY <1>10, <1>11, <1>14, <1>15, <1>16, <1>17, <1>18 DEF AdaptersInv

(* A bar ends: NautilusTrader fills its order, or refuses it.               *)
LEMMA EndsBar == AdaptersInv /\ EndBar => AdaptersInv'
<1> SUFFICES ASSUME AdaptersInv, EndBar PROVE AdaptersInv'
  OBVIOUS
<1> DEFINE order == nautilus.submitted[1]
<1>1. /\ phase = "act" /\ phase' = "bar" /\ tape' = tape /\ cursor' = cursor
      /\ acted' = acted /\ asked' = asked /\ crowded' = crowded
      /\ reference' = reference /\ backtrader' = backtrader
  BY DEF EndBar
<1>2. /\ TapeInv /\ BridgesInv /\ AskedInv /\ BacktraderInv /\ PendingInv /\ NautilusInv /\ FillsInv
  BY DEF AdaptersInv
<1>3. reference \in Bridge(Quantities) /\ backtrader \in Holding /\ nautilus \in Bridge(NativeOrder)
  BY <1>2 DEF BridgesInv
<1>4. Fill' = Fill /\ Holding' = Holding /\ \A S : Bridge(S)' = Bridge(S)
  BY <1>1 DEF Fill, Bridge, Holding, Exact
<1>5. nautilus.submitted # <<>> => Len(nautilus.submitted) = 1 /\ order \in NativeOrder
  <2>1. \A s \in Seq(NativeOrder) : s # <<>> /\ Len(s) <= 1 => Len(s) = 1 /\ s[1] \in NativeOrder
    OBVIOUS
  <2>2. QED
    BY <1>2, <1>3, <2>1 DEF PendingInv, Bridge
(* What all three ends have in common, and what is left to show for each.   *)
<1> DEFINE Ends(new, refusals) ==
             /\ new \in Bridge(NativeOrder) /\ new.submitted = <<>>
             /\ new.pending_target = nautilus.pending_target
             /\ WholeLots(new.position)
             /\ refusals \in SUBSET Nat /\ refused.nautilus \subseteq refusals
             /\ refusals = {} => new.position = nautilus.position + InFlight(nautilus)
             /\ Split(nautilus) => Split(new)
             /\ (refusals = {} /\ ~Split(new)) =>
                  new.fills = IF nautilus.submitted = <<>> THEN nautilus.fills
                              ELSE Append(nautilus.fills, FillAt(cursor, order.size))
<1>6. nautilus.position \in Int /\ WholeLots(nautilus.position) /\ refused.nautilus \in SUBSET Nat
  BY <1>2, <1>3 DEF PendingInv, Bridge, TapeInv
<1>7. refused'.backtrader = refused.backtrader /\ Ends(nautilus', refused'.nautilus)
      /\ refused' \in [backtrader : SUBSET Nat, nautilus : SUBSET Nat]
  <2>1. CASE nautilus.submitted = <<>>
    <3>1. nautilus' = nautilus /\ refused' = refused
      BY <2>1 DEF EndBar
    <3>2. nautilus.position = nautilus.position + InFlight(nautilus)
      BY <1>6, <2>1 DEF InFlight
    <3>3. QED
      BY <1>2, <1>3, <1>6, <2>1, <3>1, <3>2 DEF TapeInv
  <2>2. ASSUME nautilus.submitted # <<>>,
               NEW parts \in Parts(order.size),
               nautilus' = Filled(nautilus, parts, cursor), refused' = refused
        PROVE  Ends(nautilus', refused'.nautilus)
    <3> DEFINE new == nautilus'
    <3>1. cursor \in 1 .. Len(tape)
      <4>1. Len(tape) \in Nat /\ cursor \in 0 .. Len(tape) /\ cursor # 0
        BY <1>1, <1>2, AdaptersAssumption DEF TapeInv
      <4>2. QED
        BY <4>1
    <3>2. IsFilled(nautilus, new, cursor) /\ new.submitted = <<>>
      BY <1>3, <1>5, <2>2, <3>1, FilledIs
    <3>3. /\ new \in Bridge(NativeOrder) /\ new.pending_target = nautilus.pending_target
          /\ new.position = nautilus.position + order.size
          /\ Len(new.orders) >= Len(nautilus.orders)
          /\ \A n \in DOMAIN nautilus.orders : new.orders[n] = nautilus.orders[n]
          /\ Split(new) \/ new.fills = Append(nautilus.fills, FillAt(cursor, order.size))
      BY <3>2 DEF IsFilled
    <3>5. InFlight(nautilus) = order.size /\ order.size \in Int
      BY <1>5, <2>2 DEF InFlight, NativeOrder
    <3> HIDE DEF new, order
    <3>7. WholeLots(new.position)
      BY <1>2, <1>6, <3>3, <3>5, WholeSum DEF PendingInv
    <3>8. Split(nautilus) => Split(new)
      BY <1>3, <3>3, SplitStays
    <3>9. QED
      BY <1>6, <2>2, <3>2, <3>3, <3>5, <3>7, <3>8 DEF new
  <2>3. ASSUME nautilus.submitted # <<>>,
               refused' = [refused EXCEPT !.nautilus = @ \cup {order.id}],
               nautilus' = [nautilus EXCEPT !.submitted = <<>>]
        PROVE  Ends(nautilus', refused'.nautilus) /\ refused'.backtrader = refused.backtrader
               /\ refused' \in [backtrader : SUBSET Nat, nautilus : SUBSET Nat]
    <3> DEFINE new == nautilus'
               more == {order.id}
    <3>1. /\ new \in Bridge(NativeOrder) /\ new.submitted = <<>>
          /\ new.pending_target = nautilus.pending_target /\ new.position = nautilus.position
          /\ new.orders = nautilus.orders
      <4>1. <<>> \in Seq(NativeOrder)
        OBVIOUS
      <4>2. QED
        BY <1>3, <2>3, <4>1 DEF Bridge
    <3>3. order.id \in Nat
      BY <1>5, <2>3 DEF NativeOrder
    <3>4. /\ refused'.nautilus = refused.nautilus \cup more
          /\ refused'.backtrader = refused.backtrader
          /\ refused' \in [backtrader : SUBSET Nat, nautilus : SUBSET Nat]
      <4>1. refused \in [backtrader : SUBSET Nat, nautilus : SUBSET Nat]
        BY <1>2 DEF TapeInv
      <4>2. QED
        BY <2>3, <3>3, <4>1
    <3>5. refused'.nautilus # {} /\ refused.nautilus \subseteq refused'.nautilus
          /\ refused'.nautilus \in SUBSET Nat
      BY <1>6, <3>3, <3>4
    <3> HIDE DEF new, more, order
    <3>7. Split(nautilus) => Split(new)
      BY <3>1 DEF Split
    <3>8. QED
      BY <1>6, <3>1, <3>4, <3>5, <3>7 DEF new
  <2>4. CASE nautilus.submitted # <<>>
    <3>1. \/ \E parts \in Parts(order.size) :
               nautilus' = Filled(nautilus, parts, cursor) /\ refused' = refused
          \/ /\ refused' = [refused EXCEPT !.nautilus = @ \cup {order.id}]
             /\ nautilus' = [nautilus EXCEPT !.submitted = <<>>]
      BY <2>4 DEF EndBar
    <3> HIDE DEF Ends, order
    <3>2. refused \in [backtrader : SUBSET Nat, nautilus : SUBSET Nat]
      BY <1>2 DEF TapeInv
    <3>3. QED
      BY <2>2, <2>3, <2>4, <3>1, <3>2
  <2>5. QED
    BY <2>1, <2>4
<1>8. TapeInv'
  BY <1>1, <1>2, <1>7 DEF TapeInv
<1>9. BridgesInv'
  BY <1>1, <1>3, <1>4, <1>7 DEF BridgesInv
<1>10. AskedInv'
  BY <1>1, <1>2 DEF AskedInv
<1>12. BacktraderInv'
  BY <1>1, <1>2, <1>7 DEF BacktraderInv
<1>13. InFlight(nautilus') = 0 /\ nautilus'.submitted = <<>> /\ WholeLots(0)
  <2>1. InFlight(nautilus') = 0 /\ nautilus'.submitted = <<>>
    BY <1>7 DEF InFlight
  <2>2. 0 = 0 * LotSize
    BY AdaptersAssumption
  <2>3. QED
    BY <2>1, <2>2, WholeIsMultiple
<1>14. PendingInv'
  <2>1. nautilus'.pending_target = IF reference.submitted = <<>> THEN NoTarget
                                   ELSE reference.submitted[Len(reference.submitted)]
    BY <1>2, <1>7 DEF PendingInv
  <2>2. WholeLots(nautilus'.position) /\ WholeLots(InFlight(nautilus')) /\ Len(nautilus'.submitted) <= 1
    BY <1>7, <1>13
  <2>3. QED
    BY <1>1, <1>13, <2>1, <2>2 DEF PendingInv, WholeLots
<1>15. NautilusInv'
  <2>1. ASSUME refused'.nautilus = {}
        PROVE  2 * Abs((nautilus'.position + InFlight(nautilus')) - reference.position) <= LotSize
    <3>1. refused.nautilus = {}
      BY <1>7, <2>1
    <3>2. nautilus'.position = nautilus.position + InFlight(nautilus) /\ nautilus'.position \in Int
      BY <1>7, <2>1 DEF Bridge
    <3>3. nautilus'.position + InFlight(nautilus') = nautilus.position + InFlight(nautilus)
      BY <1>13, <3>2
    <3>4. 2 * Abs((nautilus.position + InFlight(nautilus)) - reference.position) <= LotSize
      BY <1>2, <3>1 DEF NautilusInv
    <3> HIDE DEF Ends
    <3>5. (nautilus'.position + InFlight(nautilus')) - reference.position
            = (nautilus.position + InFlight(nautilus)) - reference.position
      BY <3>3
    <3>6. QED
      BY <3>4, <3>5
  <2>2. QED
    BY <1>1, <2>1 DEF NautilusInv, InFlight, Abs
<1>16. FillsInv'
  <2>1. ASSUME ~crowded, WholeFills
        PROVE  /\ WholeLots(reference.position)
               /\ (refused'.nautilus = {} /\ ~Split(nautilus')) => reference.fills = nautilus'.fills
    <3>1. refused'.nautilus = {} => refused.nautilus = {}
      BY <1>7
    <3>2. QED
      BY <1>2, <1>7, <2>1, <3>1 DEF FillsInv
  <2>2. QED
    BY <1>1, <1>13, <2>1 DEF FillsInv, WholeFills, WholeLots, Split
<1>17. QED
  BY <1>8, <1>9, <1>10, <1>12, <1>14, <1>15, <1>16 DEF AdaptersInv

(* Every step keeps the invariant.                                          *)
LEMMA AdaptersStep == AdaptersInv /\ [Next]_vars => AdaptersInv'
<1> SUFFICES ASSUME AdaptersInv, [Next]_vars PROVE AdaptersInv'
  OBVIOUS
<1>1. phase \in {"validate", "bar", "act", "finished", "failed"} /\ acted \in Nat
  BY DEF AdaptersInv, TapeInv
<1>2. CASE RejectTape \/ NautilusRaises \/ RejectAction
  <2>1. /\ UNCHANGED <<tape, cursor, bridges, asked, crowded>>
        /\ phase' = "failed" /\ acted' = acted
    BY <1>2 DEF RejectTape, NautilusRaises, RejectAction
  <2>2. QED
    BY <1>1, <2>1, Keeps
<1>3. CASE Start \/ Finish
  <2>1. /\ UNCHANGED <<tape, cursor, bridges, asked, crowded>>
        /\ phase \in {"validate", "bar"} /\ phase' \in {"bar", "finished"} /\ acted' = acted
    BY <1>3 DEF Start, Finish
  <2>2. QED
    BY <1>1, <2>1, Keeps
<1>4. CASE HandleOther
  <2>1. /\ UNCHANGED <<tape, cursor, bridges, asked, crowded>>
        /\ phase = "act" /\ phase' = phase /\ acted' = acted + 1
    BY <1>4 DEF HandleOther
  <2>2. QED
    BY <1>1, <2>1, Keeps
<1>5. CASE Ended \/ UNCHANGED vars
  <2>1. /\ UNCHANGED <<tape, cursor, bridges, asked, crowded>>
        /\ phase' = phase /\ acted' = acted
    BY <1>5 DEF Ended, vars
  <2>2. QED
    BY <1>1, <2>1, Keeps
<1>6. CASE BeginBar
  BY <1>6, BeginsBar
<1>7. CASE \E q \in Quantities : HandleTarget(q)
  BY <1>7, HandlesTarget
<1>8. CASE EndBar
  BY <1>8, EndsBar
<1>9. QED
  BY <1>2, <1>3, <1>4, <1>5, <1>6, <1>7, <1>8 DEF Next

LEMMA AdaptersInvariant == Spec => []AdaptersInv
  BY AdaptersStart, AdaptersStep, PTL DEF Spec

(* Types: adapters/backtrader.py and adapters/nautilus.py report a fill     *)
(* with a side and a quantity that is neither zero nor signed, at a bar.    *)
THEOREM BridgesTypes == Spec => []BridgesTypeOK
<1>1. AdaptersInv => BridgesTypeOK
  <2>1. ASSUME NEW S, NEW run \in Bridge(S) PROVE RunTypeOK(run)
    <3>1. \A s \in Seq(Fill) : \A n \in DOMAIN s : s[n] \in Fill
      OBVIOUS
    <3>2. run.fills \in Seq(Fill) /\ {run.position, run.shown} \subseteq Int
          /\ run.pending_target \in Quantities \cup {NoTarget}
      BY DEF Bridge
    <3>3. QED
      BY <3>1, <3>2 DEF RunTypeOK
  <2>2. QED
    BY <2>1 DEF AdaptersInv, TapeInv, BridgesInv, BridgesTypeOK, Holding
<1>2. QED
  BY <1>1, AdaptersInvariant, PTL

(* When the brokers refuse nothing, the three engines hold the same         *)
(* positions at the end of a bar, what evidence/adapters.py compares:       *)
(* NautilusTrader to the nearest lot, whatever it is asked for, and         *)
(* Backtrader while an event has one target and no double was rounded.      *)
THEOREM SamePositions == Spec => []PositionsAgree
<1>1. AdaptersInv => PositionsAgree
  <2> SUFFICES ASSUME AdaptersInv, phase = "bar"
               PROVE  /\ refused.nautilus = {}
                           => 2 * Abs(nautilus.position - reference.position) <= LotSize
                      /\ (refused.backtrader = {} /\ ~crowded /\ ~backtrader.rounded)
                           => backtrader.position = reference.position
    BY DEF PositionsAgree
  <2>1. InFlight(nautilus) = 0 /\ nautilus.position \in Int
    BY DEF AdaptersInv, PendingInv, InFlight, BridgesInv, Bridge
  <2>2. nautilus.position + InFlight(nautilus) = nautilus.position
    BY <2>1
  <2>3. refused.nautilus = {} =>
          2 * Abs((nautilus.position + InFlight(nautilus)) - reference.position) <= LotSize
    BY DEF AdaptersInv, NautilusInv
  <2>4. (refused.backtrader = {} /\ ~crowded /\ ~backtrader.rounded)
          => backtrader.position = reference.position
    BY DEF AdaptersInv, BacktraderInv
  <2>5. (nautilus.position + InFlight(nautilus)) - reference.position
          = nautilus.position - reference.position
    BY <2>2
  <2>6. QED
    BY <2>3, <2>4, <2>5
<1>2. QED
  BY <1>1, AdaptersInvariant, PTL

(* And they report the same fills, in time, side and quantity, with one     *)
(* target to an event: NautilusTrader with whole lots and no order filled   *)
(* in parts, Backtrader while no double was rounded.                        *)
THEOREM SameFills == Spec => []FillShapesAgree
<1>1. AdaptersInv => FillShapesAgree
  BY DEF AdaptersInv, PendingInv, BacktraderInv, FillsInv, WholeFills, FillShapesAgree
<1>2. QED
  BY <1>1, AdaptersInvariant, PTL

-----------------------------------------------------------------------------
(* The fills account for the positions.                                     *)
(* Nothing was filled later than this, and the fills account for the        *)
(* position: some running sum of them ends at it.                           *)
RunningSum(h, run) ==
  /\ h \in [0 .. Len(run.fills) -> Int]
  /\ h[0] = 0
  /\ \A k \in 1 .. Len(run.fills) : h[k] = h[k - 1] + Signed(run.fills[k])
  /\ h[Len(run.fills)] = run.position

Explained(run, time) ==
  /\ \E h : RunningSum(h, run)
  /\ \A n \in DOMAIN run.fills : run.fills[n].time <= time

LEMMA ExplainedPosition ==
  ASSUME NEW run, run.fills \in Seq(Fill), NEW time, Explained(run, time)
  PROVE  PositionAt(run, time) = run.position
<1> DEFINE N == Len(run.fills)
<1>1. PICK h : RunningSum(h, run)
  BY DEF Explained
<1>2. PICK g \in [0 .. N -> Int] :
             /\ g[0] = 0
             /\ \A k \in 1 .. N : g[k] = Counted(g[k - 1], run.fills[k], time)
             /\ g[N] = PositionAt(run, time)
  BY PositionFold
<1>3. N \in Nat /\ DOMAIN run.fills = 1 .. N
  OBVIOUS
<1> DEFINE S == {k \in Nat : k <= N => g[k] = h[k]}
<1>4. 0 \in S
  BY <1>1, <1>2 DEF RunningSum
<1>5. ASSUME NEW k \in Nat, k \in S, k + 1 <= N PROVE g[k + 1] = h[k + 1]
  <2>1. k + 1 \in 1 .. N /\ (k + 1) - 1 = k /\ g[k] = h[k]
    BY <1>3, <1>5
  <2>2. run.fills[k + 1].time <= time
    BY <1>3, <2>1 DEF Explained
  <2>3. g[k + 1] = g[k] + Signed(run.fills[k + 1])
    BY <1>2, <2>1, <2>2 DEF Counted
  <2>4. h[k + 1] = h[k] + Signed(run.fills[k + 1])
    BY <1>1, <2>1 DEF RunningSum
  <2>5. QED
    BY <2>1, <2>3, <2>4
<1>6. \A k \in Nat : k \in S => k + 1 \in S
  BY <1>5
<1> HIDE DEF S
<1>7. Nat \subseteq S
  BY <1>4, <1>6, Inductive
<1>8. g[N] = h[N]
  BY <1>3, <1>7 DEF S
<1>9. QED
  BY <1>1, <1>2, <1>8 DEF RunningSum

(* A fill of the difference keeps the account.                              *)
LEMMA ExplainedFill ==
  ASSUME NEW run, run.fills \in Seq(Fill), run.position \in Int, NEW new,
         NEW time \in 1 .. Len(tape), NEW size \in Int \ {0}, Explained(run, time),
         new.position = run.position + size,
         new.fills = Append(run.fills, FillAt(time, size))
  PROVE  Explained(new, time)
<1> DEFINE N == Len(run.fills)
           fill == FillAt(time, size)
<1>1. PICK h : RunningSum(h, run)
  BY DEF Explained
<1>2. fill.time = time /\ Signed(fill) = size
  BY DEF FillAt, Signed, Abs
<1> HIDE DEF fill
<1>3. /\ N \in Nat /\ Len(new.fills) = N + 1 /\ new.fills[N + 1] = fill
      /\ \A k \in 1 .. N : new.fills[k] = run.fills[k]
      /\ DOMAIN run.fills = 1 .. N /\ DOMAIN new.fills = 1 .. N + 1
  BY DEF fill
<1> HIDE DEF N
<1> DEFINE g == [k \in 0 .. N + 1 |-> IF k = N + 1 THEN new.position ELSE h[k]]
<1>4. /\ h \in [0 .. N -> Int] /\ h[0] = 0 /\ h[N] = run.position
      /\ \A k \in 1 .. N : h[k] = h[k - 1] + Signed(run.fills[k])
  BY <1>1 DEF RunningSum, N
<1>5. g \in [0 .. N + 1 -> Int] /\ g[0] = 0 /\ g[N + 1] = new.position
  BY <1>3, <1>4
<1>6. ASSUME NEW k \in 1 .. N + 1 PROVE g[k] = g[k - 1] + Signed(new.fills[k])
  <2>1. CASE k = N + 1
    <3>1. k - 1 = N /\ N \in 0 .. N + 1 /\ N # N + 1 /\ k \in 0 .. N + 1
      BY <1>3, <2>1
    <3>2. g[k - 1] = run.position /\ g[k] = new.position
      BY <1>4, <2>1, <3>1
    <3>3. QED
      BY <1>2, <1>3, <2>1, <3>2
  <2>2. CASE k # N + 1
    <3>1. k \in 1 .. N /\ k \in 0 .. N + 1 /\ k - 1 \in 0 .. N + 1 /\ k - 1 # N + 1
      BY <1>3, <2>2
    <3>2. g[k] = h[k] /\ g[k - 1] = h[k - 1]
      BY <2>2, <3>1
    <3>3. QED
      BY <1>3, <1>4, <3>1, <3>2
  <2>3. QED
    BY <2>1, <2>2
<1> HIDE DEF g
<1>7. RunningSum(g, new)
  BY <1>3, <1>5, <1>6 DEF RunningSum
<1>8. \A n \in DOMAIN new.fills : new.fills[n].time <= time
  <2>1. \A n \in 1 .. N : run.fills[n].time <= time
    BY <1>3 DEF Explained
  <2>2. \A n \in 1 .. N + 1 : n \in 1 .. N \/ n = N + 1
    BY <1>3
  <2>3. time <= time
    OBVIOUS
  <2>4. QED
    BY <1>2, <1>3, <2>1, <2>2, <2>3
<1>9. QED
  BY <1>7, <1>8 DEF Explained

(* It lasts while neither fills nor position change.                        *)
LEMMA ExplainedStays ==
  ASSUME NEW run, run.fills \in Seq(Fill), NEW new, NEW time \in Int, NEW later \in Int,
         time <= later, Explained(run, time),
         new.position = run.position, new.fills = run.fills
  PROVE  Explained(new, later)
<1>1. \E h : RunningSum(h, new)
  BY DEF Explained, RunningSum
<1>2. ASSUME NEW n \in DOMAIN new.fills PROVE new.fills[n].time <= later
  <2>1. run.fills[n].time \in Int /\ run.fills[n].time <= time
    <3>1. run.fills[n] \in Fill
      OBVIOUS
    <3>2. Fill \subseteq [time : Int, side : {"buy", "sell"}, quantity : Nat \ {0}]
      BY DEF Fill
    <3>3. QED
      BY <3>1, <3>2 DEF Explained
  <2>2. QED
    BY <2>1
<1>3. QED
  BY <1>1, <1>2 DEF Explained

(* What each engine does at a bar keeps the account, and shows its result.  *)
LEMMA SettledExplained ==
  ASSUME NEW run \in Bridge(Quantities), NEW time \in 1 .. Len(tape), Explained(run, time)
  PROVE  LET new == Settled(run, time)
         IN Explained(new, time) /\ new.shown = new.position
<1> DEFINE V == {r \in Bridge(Quantities) : Explained(r, time)}
           after == SettleAll(run, run.submitted, time)
<1>1. ASSUME NEW r \in V, NEW target \in Quantities PROVE Settle(r, target, time) \in V
  <2> DEFINE new == Settle(r, target, time)
  <2>1. /\ new \in Bridge(Quantities) /\ new.position = target
        /\ new.fills = IF target = r.position THEN r.fills
                       ELSE Append(r.fills, FillAt(time, target - r.position))
    BY SettleOne
  <2>2. new = r \/ target # r.position
    BY DEF Settle
  <2> HIDE DEF new
  <2>3. /\ r.fills \in Seq(Fill) /\ r.position \in Int /\ target \in Int
    BY AdaptersAssumption DEF Bridge
  <2>4. CASE target # r.position
    <3>1. target - r.position \in Int \ {0} /\ new.position = r.position + (target - r.position)
      BY <2>1, <2>3, <2>4
    <3>2. Explained(new, time)
      BY <2>1, <2>3, <2>4, <3>1, ExplainedFill
    <3>3. QED
      BY <2>1, <3>2 DEF new
  <2>5. CASE new = r
    BY <2>5 DEF new
  <2>6. QED
    BY <2>2, <2>4, <2>5
<1>2. Settles(V, Quantities, time)
  BY <1>1 DEF Settles
<1>3. run \in V /\ run.submitted \in Seq(Quantities)
  BY DEF Bridge
<1>4. after \in V
  <2>1. \A ts \in Seq(Quantities) :
          \E h \in [0 .. Len(ts) -> V] : h[Len(ts)] = SettleAll(run, ts, time)
    <3> HIDE DEF V
    <3>1. QED
      BY <1>2, <1>3, SettleFold
  <2>2. Len(run.submitted) \in 0 .. Len(run.submitted)
    BY <1>3
  <2>3. QED
    BY <1>3, <2>1, <2>2
<1>5. Settled(run, time) = [after EXCEPT !.submitted = <<>>, !.shown = after.position]
  BY DEF Settled, SettleAll
<1> HIDE DEF after
<1>6. /\ Settled(run, time).position = after.position /\ Settled(run, time).fills = after.fills
      /\ Settled(run, time).shown = after.position
      /\ after.fills \in Seq(Fill) /\ Explained(after, time) /\ time \in Int
  BY <1>4, <1>5 DEF Bridge
<1>7. QED
  BY <1>6, ExplainedStays

LEMMA BrokeredExplained ==
  ASSUME NEW run \in Holding, NEW refusals, NEW time \in 1 .. Len(tape),
         ~run.rounded => Explained(run, time)
  PROVE  LET new == Brokered(run, refusals, time)
         IN ~new.rounded => Explained(new, time) /\ new.shown = new.position
<1> DEFINE V == {r \in Holding : r.rounded \/ Explained(r, time)}
           after == NotifyAll(run, run.submitted, refusals, time)
           result == Brokered(run, refusals, time)
<1>1. ASSUME NEW r \in V, NEW order \in DoubleOrder PROVE Notified(r, order, refusals, time) \in V
  <2> DEFINE new == Executed(r, order, time)
  <2>1. /\ new \in Holding /\ (r.rounded => new.rounded)
        /\ ~new.rounded => /\ new.position = r.position + order.size
                           /\ new.fills = Append(r.fills, FillAt(time, order.size))
    BY ExecutedIs
  <2>2. Notified(r, order, refusals, time) \in {r, new}
    BY DEF Notified, NotifyOrder
  <2> HIDE DEF new
  <2>3. r.fills \in Seq(Fill) /\ r.position \in Int /\ order.size \in Int \ {0}
    BY DoublesAssumption DEF Holding, Bridge, DoubleOrder
  <2>4. ~new.rounded => Explained(new, time)
    BY <2>1, <2>3, ExplainedFill
  <2>5. QED
    BY <2>1, <2>2, <2>4
<1>2. Notifies(V, DoubleOrder, refusals, time)
  BY <1>1 DEF Notifies
<1>3. run \in V /\ run.submitted \in Seq(DoubleOrder)
  BY DEF Holding, Bridge
<1>4. after \in V
  <2>1. \A os \in Seq(DoubleOrder) :
          \E h \in [0 .. Len(os) -> V] : h[Len(os)] = NotifyAll(run, os, refusals, time)
    <3> HIDE DEF V
    <3>1. QED
      BY <1>2, <1>3, NotifyFold
  <2>2. Len(run.submitted) \in 0 .. Len(run.submitted)
    BY <1>3
  <2>3. QED
    BY <1>3, <2>1, <2>2
<1>5. result = [after EXCEPT !.submitted = <<>>, !.shown = Printed[after.position]]
  BY DEF Brokered, NotifyAll, Notified
<1> HIDE DEF after, result
<1>6. /\ result.position = after.position /\ result.fills = after.fills
      /\ result.shown = Printed[after.position] /\ result.rounded = after.rounded
      /\ after.fills \in Seq(Fill) /\ time \in Int /\ time <= time
  BY <1>4, <1>5 DEF Holding, Bridge
<1>7. ASSUME ~result.rounded PROVE Explained(result, time) /\ result.shown = result.position
  <2>1. Explained(after, time) /\ Exact(after.position)
    BY <1>4, <1>6, <1>7 DEF Holding
  <2>2. result.shown = result.position
    BY <1>6, <2>1 DEF Exact
  <2>3. QED
    BY <1>6, <2>1, <2>2, ExplainedStays
<1>8. QED
  BY <1>7 DEF result

LEMMA FilledExplained ==
  ASSUME NEW run \in Bridge(NativeOrder), Len(run.submitted) = 1,
         NEW parts \in Parts(run.submitted[1].size), NEW time \in 1 .. Len(tape),
         Explained(run, time)
  PROVE  Explained(Filled(run, parts, time), time)
<1> DEFINE V == {r \in Bridge(NativeOrder) : Explained(r, time)}
           S == Int \ {0}
           id == run.submitted[1].id
           after == ReportAll(run, parts, id, time)
<1>1. id \in Nat \ {0} /\ run.submitted[1].size \in S
  <2>1. run.submitted[1] \in NativeOrder
    BY DEF Bridge
  <2>2. QED
    BY <2>1 DEF NativeOrder
<1>2. parts \in Seq(S)
  <2>1. CASE parts = <<run.submitted[1].size>>
    BY <1>1, <2>1
  <2>2. CASE \E a, b \in S : parts = <<a, b>>
    BY <2>2
  <2>3. QED
    BY <1>1, <2>1, <2>2, PartsAre
<1>3. ASSUME NEW r \in V, NEW part \in S PROVE Reported(r, id, part, time) \in V
  <2> DEFINE order == [id |-> id, size |-> part]
             new == Reported(r, id, part, time)
  <2>1. order \in NativeOrder /\ order.id = id /\ order.size = part
    BY <1>1 DEF NativeOrder
  <2> HIDE DEF order, id
  <2>2. LET reported == Reported(r, order.id, order.size, time)
        IN /\ reported \in Bridge(NativeOrder) /\ reported.position = r.position + order.size
           /\ reported.fills = Append(r.fills, FillAt(time, order.size))
    BY <2>1, ReportedOne
  <2>3. /\ new \in Bridge(NativeOrder) /\ new.position = r.position + part
        /\ new.fills = Append(r.fills, FillAt(time, part))
    BY <2>1, <2>2
  <2> HIDE DEF new
  <2>4. r.fills \in Seq(Fill) /\ r.position \in Int
    BY DEF Bridge
  <2>5. Explained(new, time)
    BY <2>3, <2>4, ExplainedFill
  <2>6. QED
    BY <2>3, <2>5 DEF new
<1> HIDE DEF id
<1>4. Reports(V, S, id, time)
  BY <1>3 DEF Reports
<1>5. after \in V
  <2>1. run \in V
    OBVIOUS
  <2>2. \A ps \in Seq(S) :
          \E h \in [0 .. Len(ps) -> V] : h[Len(ps)] = ReportAll(run, ps, id, time)
    <3> HIDE DEF V, S
    <3>1. QED
      BY <1>4, <2>1, ReportFold
  <2>3. Len(parts) \in 0 .. Len(parts)
    BY <1>2
  <2>4. QED
    BY <1>2, <2>2, <2>3
<1>6. Filled(run, parts, time) = [after EXCEPT !.submitted = <<>>]
  BY DEF Filled, ReportAll, id
<1> HIDE DEF after
<1>7. /\ Filled(run, parts, time).position = after.position
      /\ Filled(run, parts, time).fills = after.fills
      /\ after.fills \in Seq(Fill) /\ Explained(after, time) /\ time \in Int
  BY <1>5, <1>6 DEF Bridge
<1>8. QED
  BY <1>7, ExplainedStays

(* The fills account for the position at the bar, except of NautilusTrader, *)
(* whose order of this bar is yet to be filled; and they account for what   *)
(* the strategy is shown.  Of Backtrader, while no double was rounded.      *)
ShownInv ==
  LET before == IF phase = "act" THEN cursor - 1 ELSE cursor
  IN /\ Explained(reference, cursor) /\ Explained(nautilus, before)
     /\ ~backtrader.rounded => Explained(backtrader, cursor)
     /\ phase = "act" => /\ reference.shown = reference.position
                         /\ ~backtrader.rounded => backtrader.shown = backtrader.position
                         /\ nautilus.shown = nautilus.position

LEMMA ShownStart == Init => ShownInv
<1> SUFFICES ASSUME Init PROVE ShownInv
  OBVIOUS
<1>1. /\ reference = Fresh /\ backtrader = Fresh /\ nautilus = Fresh
      /\ cursor = 0 /\ phase = "validate"
  BY DEF Init
<1>2. Explained(Fresh, 0)
  <2> DEFINE h == [k \in 0 .. 0 |-> 0]
  <2>1. Fresh.fills = <<>> /\ Fresh.position = 0 /\ Len(<<>>) = 0
    BY DEF Fresh
  <2>2. h \in [0 .. 0 -> Int] /\ h[0] = 0 /\ 1 .. 0 = {}
    OBVIOUS
  <2> HIDE DEF h
  <2>3. RunningSum(h, Fresh)
    BY <2>1, <2>2 DEF RunningSum
  <2>4. \A n \in DOMAIN Fresh.fills : Fresh.fills[n].time <= 0
    BY <2>1
  <2>5. QED
    BY <2>3, <2>4 DEF Explained
<1>3. QED
  BY <1>1, <1>2 DEF ShownInv

LEMMA ShownStep == AdaptersInv /\ ShownInv /\ [Next]_vars => ShownInv'
<1> SUFFICES ASSUME AdaptersInv, ShownInv, [Next]_vars PROVE ShownInv'
  OBVIOUS
<1>1. /\ reference \in Bridge(Quantities) /\ nautilus \in Bridge(NativeOrder)
      /\ backtrader \in Holding /\ backtrader \in Bridge(DoubleOrder)
      /\ tape \in Tapes /\ Len(tape) \in Nat /\ cursor \in Nat
      /\ cursor <= Len(tape) /\ (phase = "act" => cursor # 0)
  BY AdaptersAssumption DEF AdaptersInv, TapeInv, BridgesInv, Holding
<1>2. reference.fills \in Seq(Fill) /\ backtrader.fills \in Seq(Fill) /\ nautilus.fills \in Seq(Fill)
  BY <1>1 DEF Bridge
<1>3. /\ Explained(reference, cursor)
      /\ ~backtrader.rounded => Explained(backtrader, cursor)
      /\ phase = "act" => Explained(nautilus, cursor - 1)
      /\ phase # "act" => Explained(nautilus, cursor)
  BY DEF ShownInv
<1>4. Explained(nautilus, cursor)
  <2>1. CASE phase = "act"
    <3>1. cursor - 1 \in Int /\ cursor \in Int /\ cursor - 1 <= cursor
      BY <1>1
    <3>2. QED
      BY <1>2, <1>3, <2>1, <3>1, ExplainedStays
  <2>2. QED
    BY <1>3, <2>1
<1>5. CASE UNCHANGED <<cursor, bridges>> /\ (phase' = "act" <=> phase = "act")
  <2>1. /\ cursor' = cursor /\ reference' = reference /\ backtrader' = backtrader
        /\ nautilus' = nautilus
    BY <1>5 DEF bridges
  <2>2. QED
    BY <1>5, <2>1 DEF ShownInv, Explained, RunningSum, Signed
<1>6. CASE UNCHANGED <<cursor, bridges>> /\ phase' # "act"
  <2>1. /\ cursor' = cursor /\ reference' = reference /\ backtrader' = backtrader
        /\ nautilus' = nautilus
    BY <1>6 DEF bridges
  <2>2. QED
    BY <1>3, <1>4, <1>6, <2>1 DEF ShownInv, Explained, RunningSum, Signed
<1>7. CASE BeginBar
  <2> DEFINE time == cursor + 1
  <2>1. PICK refusals : backtrader' = Brokered(backtrader, refusals, time)
    BY <1>7 DEF BeginBar
  <2>2. PICK quantity : nautilus' = Submitted(nautilus, quantity)
    BY <1>7 DEF BeginBar
  <2>3. /\ reference' = Settled(reference, time) /\ cursor' = time /\ cursor < Len(tape)
        /\ phase = "bar" /\ phase' = "act" /\ tape' = tape
    BY <1>7 DEF BeginBar
  <2>4. time \in 1 .. Len(tape) /\ time \in Int /\ cursor \in Int /\ cursor <= time
        /\ time - 1 = cursor
    BY <1>1, <2>3
  <2> HIDE DEF time
  <2>5. Explained(reference, time) /\ (~backtrader.rounded => Explained(backtrader, time))
    BY <1>2, <1>3, <2>4, ExplainedStays
  <2>6. Explained(reference', time) /\ reference'.shown = reference'.position
    BY <1>1, <2>3, <2>4, <2>5, SettledExplained
  <2>7. ~backtrader'.rounded =>
          Explained(backtrader', time) /\ backtrader'.shown = backtrader'.position
    BY <1>1, <2>1, <2>4, <2>5, BrokeredExplained
  <2>8. nautilus'.position = nautilus.position /\ nautilus'.fills = nautilus.fills
        /\ nautilus'.shown = nautilus.position
    BY <1>1, <2>2 DEF Submitted, Accepted, Bridge
  <2>9. Explained(nautilus', cursor)
    BY <1>2, <1>4, <2>4, <2>8, ExplainedStays
  <2>10. QED
    BY <2>3, <2>4, <2>6, <2>7, <2>8, <2>9 DEF ShownInv
<1>8. CASE \E q \in Quantities : HandleTarget(q)
  <2>1. PICK q \in Quantities : HandleTarget(q)
    BY <1>8
  <2>2. /\ phase = "act" /\ phase' = "act" /\ cursor' = cursor
        /\ reference' = [reference EXCEPT !.submitted = Append(@, q)]
        /\ backtrader' = Ordered(backtrader, q)
        /\ nautilus' = Targeted(nautilus, q)
    BY <2>1 DEF HandleTarget
  <2>3. /\ reference'.position = reference.position /\ reference'.fills = reference.fills
        /\ reference'.shown = reference.shown
        /\ nautilus'.position = nautilus.position /\ nautilus'.fills = nautilus.fills
        /\ nautilus'.shown = nautilus.shown
    BY <1>1, <2>2 DEF Targeted, Bridge
  <2>4. /\ backtrader'.position = backtrader.position /\ backtrader'.fills = backtrader.fills
        /\ backtrader'.shown = backtrader.shown
        /\ backtrader.rounded => backtrader'.rounded
    <3>1. q \in Int
      BY AdaptersAssumption
    <3>2. QED
      BY <1>1, <2>2, <3>1, OrderedIs
  <2>5. cursor \in Int /\ cursor - 1 \in Int /\ cursor <= cursor /\ cursor - 1 <= cursor - 1
    BY <1>1
  <2>6. Explained(reference', cursor) /\ (~backtrader'.rounded => Explained(backtrader', cursor))
    BY <1>2, <1>3, <2>3, <2>4, <2>5, ExplainedStays
  <2>7. Explained(nautilus', cursor - 1)
    BY <1>2, <1>3, <2>2, <2>3, <2>5, ExplainedStays
  <2>8. QED
    BY <2>2, <2>3, <2>4, <2>6, <2>7 DEF ShownInv
<1>9. CASE EndBar
  <2>1. /\ phase = "act" /\ phase' = "bar" /\ tape' = tape /\ cursor' = cursor
        /\ reference' = reference /\ backtrader' = backtrader
    BY <1>9 DEF EndBar
  <2>2. Explained(nautilus', cursor)
    <3>1. CASE nautilus' = nautilus
      BY <1>4, <3>1
    <3>2. CASE nautilus' = [nautilus EXCEPT !.submitted = <<>>]
      <4>1. nautilus'.position = nautilus.position /\ nautilus'.fills = nautilus.fills
            /\ cursor \in Int /\ cursor <= cursor
        BY <1>1, <3>2 DEF Bridge
      <4>2. QED
        BY <1>2, <1>4, <4>1, ExplainedStays
    <3>3. CASE /\ nautilus.submitted # <<>>
               /\ \E parts \in Parts(nautilus.submitted[1].size) :
                    nautilus' = Filled(nautilus, parts, cursor)
      <4>1. cursor \in 1 .. Len(tape)
        BY <1>1, <2>1
      <4>2. Len(nautilus.submitted) = 1
        <5>1. \A s \in Seq(NativeOrder) : Len(s) \in Nat /\ (s # <<>> => Len(s) # 0)
          OBVIOUS
        <5>2. nautilus.submitted \in Seq(NativeOrder) /\ Len(nautilus.submitted) <= 1
          BY <1>1 DEF Bridge, AdaptersInv, PendingInv
        <5>3. Len(nautilus.submitted) \in Nat /\ Len(nautilus.submitted) # 0
          BY <3>3, <5>1, <5>2
        <5>4. \A n \in Nat : n # 0 /\ n <= 1 => n = 1
          OBVIOUS
        <5>5. QED
          BY <5>2, <5>3, <5>4
      <4>3. QED
        BY <1>1, <1>4, <3>3, <4>1, <4>2, FilledExplained
    <3>4. QED
      BY <1>9, <3>1, <3>2, <3>3 DEF EndBar
  <2>3. QED
    BY <1>3, <2>1, <2>2 DEF ShownInv
<1>10. QED
  <2>1. ASSUME \/ RejectTape \/ Start \/ NautilusRaises \/ HandleOther \/ RejectAction
               \/ Finish \/ Ended \/ UNCHANGED vars
        PROVE  UNCHANGED <<cursor, bridges>> /\ ((phase' = "act" <=> phase = "act") \/ phase' # "act")
    BY <2>1 DEF RejectTape, Start, NautilusRaises, HandleOther, RejectAction, Finish, Ended, vars
  <2>2. QED
    BY <1>5, <1>6, <1>7, <1>8, <1>9, <2>1 DEF Next

(* The position in the snapshot a strategy is called with is the sum of the *)
(* fills reported so far, on each engine; on Backtrader while no double was *)
(* rounded.                                                                 *)
THEOREM SnapshotsAddUp == Spec => []SnapshotsExplained
<1>1. AdaptersInv /\ ShownInv => SnapshotsExplained
  <2> SUFFICES ASSUME AdaptersInv, ShownInv, phase = "act"
               PROVE  /\ reference.shown = PositionAt(reference, cursor)
                      /\ ~backtrader.rounded => backtrader.shown = PositionAt(backtrader, cursor)
                      /\ nautilus.shown = PositionAt(nautilus, cursor - 1)
    BY DEF SnapshotsExplained
  <2>1. /\ reference.fills \in Seq(Fill) /\ backtrader.fills \in Seq(Fill)
        /\ nautilus.fills \in Seq(Fill)
    BY DEF AdaptersInv, BridgesInv, Bridge, Holding
  <2>2. /\ Explained(reference, cursor) /\ Explained(nautilus, cursor - 1)
        /\ ~backtrader.rounded =>
             Explained(backtrader, cursor) /\ backtrader.shown = backtrader.position
        /\ reference.shown = reference.position
        /\ nautilus.shown = nautilus.position
    BY DEF ShownInv
  <2>3. QED
    BY <2>1, <2>2, ExplainedPosition
<1>2. Spec => []ShownInv
  BY ShownStart, ShownStep, AdaptersInvariant, PTL DEF Spec
<1>3. QED
  BY <1>1, <1>2, AdaptersInvariant, PTL
-----------------------------------------------------------------------------
(* Shares: when the differences of the targets are doubles that print as    *)
(* what they are, as those of whole numbers below 2^53 are, nothing is      *)
(* rounded, and the exception for the rounding of doubles is empty.         *)
Shares == Quantities \cup {0}

SharesExact == \A a, b \in Shares : Exact(a - b)

NothingRounded == ~crowded => ~backtrader.rounded

(* Backtrader holds one of the targets, and has an order for the way to one *)
(* when this event, or the last, asked for it.                              *)
SharesInv ==
  ~crowded =>
    /\ ~backtrader.rounded
    /\ backtrader.position \in Shares
    /\ \/ backtrader.submitted = <<>>
       \/ /\ asked # 0 /\ Len(backtrader.submitted) = 1
          /\ backtrader.position + backtrader.submitted[1].size \in Shares

LEMMA BrokeredOne ==
  ASSUME NEW run, NEW refusals, NEW time, run \in Holding, time \in 1 .. Len(tape),
         ~run.rounded, Len(run.submitted) <= 1,
         Len(run.submitted) = 1 =>
           Exact(run.submitted[1].size) /\ Exact(run.position + run.submitted[1].size)
  PROVE  LET new == Brokered(run, refusals, time)
         IN /\ ~new.rounded
            /\ \/ new.position = run.position
               \/ /\ Len(run.submitted) = 1
                  /\ new.position = run.position + run.submitted[1].size
<1> DEFINE orders == run.submitted
           N == Len(orders)
           after == NotifyAll(run, orders, refusals, time)
           new == Brokered(run, refusals, time)
<1>1. /\ orders \in Seq(DoubleOrder) /\ N \in Nat
      /\ \A k \in 1 .. N : orders[k] \in DoubleOrder
  BY DEF Holding, Bridge
<1>2. Notifies(Holding, DoubleOrder, refusals, time)
  <2>1. ASSUME NEW r \in Holding, NEW order \in DoubleOrder
        PROVE  Notified(r, order, refusals, time) \in Holding
    <3>1. Executed(r, order, time) \in Holding
      BY ExecutedIs
    <3>2. QED
      BY <3>1 DEF Notified, NotifyOrder
  <2>2. QED
    BY <2>1 DEF Notifies
<1>3. PICK h \in [0 .. N -> Holding] :
             /\ h[0] = run
             /\ \A k \in 1 .. N : h[k] = Notified(h[k - 1], orders[k], refusals, time)
             /\ h[N] = after
  BY <1>1, <1>2, NotifyFold
<1>4. after \in Holding
  BY <1>1, <1>3
<1>5. new = [after EXCEPT !.submitted = <<>>, !.shown = Printed[after.position]]
  BY DEF Brokered, NotifyAll, Notified
<1> HIDE DEF after, new
<1>6. new.position = after.position /\ new.rounded = after.rounded
  BY <1>4, <1>5 DEF Holding, Bridge
<1>7. CASE N = 0
  <2>1. after = run
    BY <1>3, <1>7
  <2>2. QED
    BY <1>6, <2>1 DEF new
<1>8. CASE N = 1
  <2> DEFINE order == orders[1]
  <2>1. order \in DoubleOrder /\ Exact(order.size) /\ Exact(run.position + order.size)
    BY <1>1, <1>8
  <2>2. after = Notified(run, order, refusals, time)
    <3>1. 1 \in 1 .. N /\ 1 - 1 = 0
      BY <1>8
    <3>2. QED
      BY <1>3, <1>8, <3>1
  <2> HIDE DEF order
  <2>3. after = Executed(run, order, time) \/ after = run
    BY <2>2 DEF Notified, NotifyOrder
  <2>4. /\ ~Executed(run, order, time).rounded
        /\ Executed(run, order, time).position = run.position + order.size
    BY <2>1, ExecutedIs
  <2>5. QED
    BY <1>6, <1>8, <2>3, <2>4 DEF new, order
<1>9. N = 0 \/ N = 1
  <2>1. \A n \in Nat : n <= 1 => n = 0 \/ n = 1
    OBVIOUS
  <2>2. N <= 1
    OBVIOUS
  <2>3. QED
    BY <1>1, <2>1, <2>2
<1>10. QED
  BY <1>7, <1>8, <1>9, Zenon

LEMMA SharesStep ==
  ASSUME SharesExact
  PROVE  AdaptersInv /\ SharesInv /\ [Next]_vars => SharesInv'
<1> SUFFICES ASSUME AdaptersInv, SharesInv, [Next]_vars PROVE SharesInv'
  OBVIOUS
<1> USE DEF SharesInv
<1>1. /\ backtrader \in Holding /\ backtrader.position \in Int
      /\ backtrader.submitted \in Seq(DoubleOrder)
      /\ Shares \subseteq Int /\ asked \in Nat /\ crowded \in BOOLEAN
  BY AdaptersAssumption DEF AdaptersInv, BridgesInv, TapeInv, Holding, Bridge, Shares
<1>2. ASSUME NEW size \in Int, backtrader.position \in Shares,
             backtrader.position + size \in Shares
      PROVE  Exact(size) /\ Exact(backtrader.position + size)
  <2>1. /\ (backtrader.position + size) - backtrader.position = size
        /\ (backtrader.position + size) - 0 = backtrader.position + size
    BY <1>1
  <2>2. 0 \in Shares
    BY DEF Shares
  <2>3. /\ Exact((backtrader.position + size) - backtrader.position)
        /\ Exact((backtrader.position + size) - 0)
    BY <1>2, <2>2 DEF SharesExact
  <2>4. QED
    BY <2>1, <2>3
<1>3. CASE BeginBar
  <2> SUFFICES ASSUME ~crowded'
               PROVE  /\ ~backtrader'.rounded /\ backtrader'.position \in Shares
                      /\ backtrader'.submitted = <<>>
    OBVIOUS
  <2>1. crowded' = crowded /\ cursor + 1 \in 1 .. Len(tape)
    BY <1>3, AdaptersAssumption DEF BeginBar, AdaptersInv, TapeInv
  <2>2. PICK refusals : backtrader' = Brokered(backtrader, refusals, cursor + 1)
    BY <1>3 DEF BeginBar
  <2>3. Len(backtrader.submitted) \in {0, 1}
    BY <2>1
  <2>4. ASSUME Len(backtrader.submitted) = 1
        PROVE  /\ backtrader.position + backtrader.submitted[1].size \in Shares
               /\ Exact(backtrader.submitted[1].size)
               /\ Exact(backtrader.position + backtrader.submitted[1].size)
    <3>1. backtrader.submitted[1] \in DoubleOrder
      BY <1>1, <2>4
    <3>2. backtrader.submitted[1].size \in Int
      BY <3>1, DoublesAssumption DEF DoubleOrder
    <3>3. backtrader.submitted # <<>>
      BY <2>4
    <3>4. QED
      BY <1>2, <2>1, <3>2, <3>3
  <2>5. /\ ~backtrader'.rounded
        /\ \/ backtrader'.position = backtrader.position
           \/ /\ Len(backtrader.submitted) = 1
              /\ backtrader'.position = backtrader.position + backtrader.submitted[1].size
    <3> DEFINE given == Brokered(backtrader, refusals, cursor + 1)
    <3>1. ~backtrader.rounded /\ Len(backtrader.submitted) <= 1
      <4>1. ~backtrader.rounded
        BY <2>1
      <4>2. Len(backtrader.submitted) <= 1
        <5>1. \A n \in {0, 1} : n <= 1
          OBVIOUS
        <5>2. QED
          BY <2>3, <5>1
      <4>3. QED
        BY <4>1, <4>2
    <3>2. /\ ~given.rounded
          /\ \/ given.position = backtrader.position
             \/ /\ Len(backtrader.submitted) = 1
                /\ given.position = backtrader.position + backtrader.submitted[1].size
      BY <1>1, <2>1, <2>4, <3>1, BrokeredOne
    <3>3. QED
      BY <2>2, <3>2
  <2>6. backtrader'.submitted = <<>>
    BY <1>1, <2>1, <2>2, BrokeredIs
  <2>7. QED
    BY <2>1, <2>4, <2>5, <2>6
<1>4. ASSUME NEW q \in Quantities, HandleTarget(q) PROVE SharesInv'
  <2> SUFFICES ASSUME ~crowded'
               PROVE  /\ ~backtrader'.rounded /\ backtrader'.position \in Shares
                      /\ \/ backtrader'.submitted = <<>>
                         \/ /\ asked' # 0 /\ Len(backtrader'.submitted) = 1
                            /\ backtrader'.position + backtrader'.submitted[1].size \in Shares
    OBVIOUS
  <2>1. /\ backtrader' = Ordered(backtrader, q)
        /\ ~crowded /\ asked = 0 /\ asked' = 1
    <3>1. backtrader' = Ordered(backtrader, q) /\ asked' = asked + 1
      BY <1>4 DEF HandleTarget
    <3>2. ~(crowded \/ asked > 0)
      BY <1>4 DEF HandleTarget
    <3>3. ~crowded /\ ~(asked > 0)
      BY <3>2
    <3>4. \A n \in Nat : ~(n > 0) => n = 0
      OBVIOUS
    <3>5. asked = 0
      BY <1>1, <3>3, <3>4
    <3>6. QED
      BY <3>1, <3>3, <3>5
  <2>2. backtrader.submitted = <<>> /\ ~backtrader.rounded /\ backtrader.position \in Shares
    BY <2>1
  <2>3. Exact(q) /\ Exact(q - backtrader.position) /\ q \in Shares /\ q \in Int
    <3>1. q \in Shares /\ 0 \in Shares /\ q \in Int /\ q - 0 = q
      BY <1>1 DEF Shares
    <3>2. Exact(q - 0) /\ Exact(q - backtrader.position)
      BY <2>2, <3>1 DEF SharesExact
    <3>3. QED
      BY <3>1, <3>2
  <2>4. /\ backtrader'.position = backtrader.position
        /\ ~backtrader'.rounded
        /\ IF q = backtrader.position THEN backtrader'.submitted = backtrader.submitted
           ELSE \E order \in DoubleOrder :
                  /\ backtrader'.submitted = Append(backtrader.submitted, order)
                  /\ order.size = q - backtrader.position
    <3> DEFINE given == Ordered(backtrader, q)
    <3>1. /\ given.position = backtrader.position
          /\ ~given.rounded =>
               IF q = backtrader.position THEN given.submitted = backtrader.submitted
               ELSE \E order \in DoubleOrder :
                      /\ given.submitted = Append(backtrader.submitted, order)
                      /\ order.size = q - backtrader.position
          /\ (~backtrader.rounded /\ Exact(q) /\ Exact(q - backtrader.position))
               => ~given.rounded
      BY <1>1, <2>3, OrderedIs
    <3>2. ~given.rounded
      BY <2>2, <2>3, <3>1
    <3>3. QED
      BY <2>1, <3>1, <3>2
  <2>5. ASSUME q # backtrader.position
        PROVE  /\ Len(backtrader'.submitted) = 1
               /\ backtrader'.position + backtrader'.submitted[1].size \in Shares
    <3>1. PICK order \in DoubleOrder : /\ backtrader'.submitted = Append(<<>>, order)
                                       /\ order.size = q - backtrader.position
      BY <2>2, <2>4, <2>5
    <3>2. Len(backtrader'.submitted) = 1 /\ backtrader'.submitted[1] = order
      BY <3>1
    <3>3. backtrader.position + (q - backtrader.position) = q
      BY <1>1, <2>3
    <3>4. QED
      BY <2>3, <2>4, <3>1, <3>2, <3>3
  <2>6. QED
    BY <2>1, <2>2, <2>4, <2>5
<1>5. ASSUME UNCHANGED <<backtrader, asked, crowded>> PROVE SharesInv'
  BY <1>5
<1>6. QED
  <2>1. ASSUME \/ RejectTape \/ Start \/ NautilusRaises \/ HandleOther \/ RejectAction
               \/ EndBar \/ Finish \/ Ended \/ UNCHANGED vars
        PROVE  UNCHANGED <<backtrader, asked, crowded>>
    BY <2>1 DEF RejectTape, Start, NautilusRaises, HandleOther, RejectAction, EndBar, Finish,
                Ended, vars, bridges
  <2>2. QED
    BY <1>3, <1>4, <1>5, <2>1 DEF Next

(* The bridge to Backtrader computes in floats (adapters/backtrader.py:149, *)
(* 170, 204), but with whole shares, and one target to an event, it rounds  *)
(* nothing, whatever its broker refuses: what SamePositions, SameFills and  *)
(* SnapshotsAddUp say of it has no exception for rounding then.             *)
THEOREM WholeSharesAreExact == SharesExact => (Spec => []NothingRounded)
<1> SUFFICES ASSUME SharesExact PROVE Spec => []NothingRounded
  OBVIOUS
<1>1. Init => SharesInv
  BY DEF Init, Fresh, SharesInv, Shares
<1>2. AdaptersInv /\ SharesInv /\ [Next]_vars => SharesInv'
  BY SharesStep
<1>3. SharesInv => NothingRounded
  BY DEF SharesInv, NothingRounded
<1>4. QED
  BY <1>1, <1>2, <1>3, AdaptersInvariant, PTL DEF Spec
=============================================================================
