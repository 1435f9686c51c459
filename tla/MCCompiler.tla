------------------------------- MODULE MCCompiler -------------------------------
(* Instances of Compiler.  A and B are instruments of the datasets; M is a  *)
(* name that only a mapping gives.                                          *)
EXTENDS CompilerProperties, TLC

(* The identifier of a merged bar of B has room for one digit only.         *)
Ranks == [A |-> 1, B |-> 2, M |-> 3]
Lengths == [A |-> 1, B |-> 116, M |-> 1]

Spelled(spelling, interval) ==
  [mode |-> "bar", spelling |-> spelling, interval |-> interval, grid |-> "UTC"]
Bars(interval) ==
  Spelled(CASE interval = 1 -> "PT1S" [] interval = 2 -> "PT2S" [] interval = 3 -> "PT3S", interval)
BarsElsewhere(interval) == [Bars(interval) EXCEPT !.grid = "NYSE"]
Ticks == [mode |-> "event", spelling |-> "none", interval |-> 0, grid |-> "UTC"]

Observed(stream, instrument, time, available, sequence, kind) ==
  [instrument_id |-> instrument, event_time |-> time, available_time |-> available,
   sequence |-> sequence, source |-> stream, source_length |-> 1,
   payload |-> [kind |-> kind, open |-> 10 + time, high |-> 13 + ((time * time) % 5),
                low |-> 9 - ((time * time) % 5), close |-> 11 + time, volume |-> time]]

Bar(stream, instrument, time, sequence) ==
  Observed(stream, instrument, time, time, sequence, "bar")

(* Bars of A and B every second; the bar of time 2 missing; every bar one   *)
(* second late; bars every two seconds; quotes.                             *)
EverySecond == << Bar("s", "A", 1, 0), Bar("s", "B", 1, 1), Bar("s", "A", 2, 0),
                  Bar("s", "B", 2, 1), Bar("s", "A", 3, 0), Bar("s", "A", 4, 0) >>
WithGap     == << Bar("s", "A", 1, 0), Bar("s", "A", 3, 0), Bar("s", "A", 4, 0) >>
Late        == [n \in DOMAIN EverySecond |->
                  [EverySecond[n] EXCEPT !.available_time = @ + 1]]
EveryOther  == << Bar("s", "A", 2, 0), Bar("s", "B", 2, 1), Bar("s", "A", 4, 0) >>
Quotes      == << Observed("s", "A", 1, 1, 0, "quote"), Observed("s", "B", 1, 1, 1, "quote") >>

Stream(id, kind, timeframe, symbols, fields) ==
  [stream_id |-> id, kind |-> kind, timeframe |-> timeframe, symbols |-> symbols,
   fields |-> fields]

Requirement(id, kind, timeframe, symbols) ==
  [stream_id |-> id, kind |-> kind, timeframe |-> timeframe, symbols |-> symbols,
   fields |-> {"close"}]

Basic ==
  [strategy |-> [version |-> 1, sandbox |-> 0, profiles |-> {"bars"}, actions |-> {"target"},
                 requirements |-> << Requirement("s", "bar", Bars(2), {"A", "B"}) >>],
   dataset  |-> [version |-> 1,
                 streams |-> << Stream("s", "bar", Bars(1), {"A", "B"}, {"close", "open"}) >>],
   engine   |-> [version |-> 1, support |-> 2, profiles |-> {"bars"}, actions |-> {"target"},
                 data_kinds |-> {"bar"}, sandbox_modes |-> {0, 1}],
   policy   |-> [sandbox |-> 0, support |-> 1,
                 transformations |-> {"bar.resample.v1", "symbol.map.v1"},
                 allow_lossy |-> TRUE, mapping |-> << >>],
   events   |-> EverySecond]

(* Every combination of declarations that may be refused.                   *)
Declarations ==
  {[Basic EXCEPT !.dataset.version = version, !.strategy.sandbox = least,
                 !.policy.sandbox = asked, !.engine.sandbox_modes = modes,
                 !.engine.support = support, !.engine.profiles = profiles,
                 !.engine.actions = actions, !.engine.data_kinds = kinds] :
     version \in {1, 2}, least \in {0, 1}, asked \in {0, 1}, modes \in {{}, {0}, {0, 1}},
     support \in {0, 1}, profiles \in {{}, {"bars"}}, actions \in {{}, {"target"}},
     kinds \in {{}, {"bar"}}}

Mappings == {<< >>, [A |-> "M"], [A |-> "M", B |-> "M"], [B |-> "A"]}

(* One stream, converted in every way.                                      *)
Conversions ==
  {[Basic EXCEPT !.strategy.requirements = << Requirement("s", kind, target, symbols) >>,
                 !.dataset.streams = << Stream("s", "bar", source[1], {"A", "B"}, fields) >>,
                 !.policy.mapping = mapping, !.policy.transformations = allowed,
                 !.policy.allow_lossy = lossy, !.events = source[2]] :
     kind \in {"bar", "trade"},
     target \in {Bars(1), Bars(2), Spelled("PT02S", 2), Bars(3), BarsElsewhere(2),
                 Spelled("P2W", 0), Ticks},
     symbols \in {{}, {"A"}, {"M"}, {"B", "M"}},
     source \in {<<Bars(1), EverySecond>>, <<Bars(1), WithGap>>, <<Bars(1), Late>>,
                 <<Bars(2), EveryOther>>, <<Spelled("P1W", 0), EverySecond>>, <<Ticks, Quotes>>},
     fields \in {{"open"}, {"close"}},
     mapping \in Mappings,
     allowed \in SUBSET {"bar.resample.v1", "symbol.map.v1"},
     lossy \in BOOLEAN}

(* Two streams, A in one and B in the other, both converted alike or both   *)
(* as they are, or the second one missing; and two streams of one name.     *)
TwoStreams(first, second, held) ==
  [Basic EXCEPT
     !.strategy.requirements = <<Requirement("s", "bar", first, {"A"}),
                                 Requirement("t", "bar", second, {"B"})>>,
     !.dataset.streams = held,
     !.events = << Bar("s", "A", 1, 0), Bar("t", "B", 1, 1), Bar("s", "A", 2, 0),
                   Bar("t", "B", 2, 1) >>]

StreamA == Stream("s", "bar", Bars(1), {"A"}, {"close"})
StreamB == Stream("t", "bar", Bars(1), {"B"}, {"close"})
Namesake == [StreamA EXCEPT !.fields = {"open"}]

Pairs == {TwoStreams(Bars(n), Bars(n), held) :
            n \in 1 .. 3, held \in {<<StreamA, StreamB>>, <<StreamA>>, <<StreamB, StreamA>>,
                          <<Namesake, StreamA, StreamB>>}}

(* Sources that have just room for the prefixes of two records, and not so; *)
(* and after a gap, in which no interval has a bar, bars of A or B late     *)
(* enough for the number of their interval to take two digits.              *)
Named(length, stream, instrument) ==
  LET pair == TwoStreams(Bars(2), Bars(2), <<StreamA, StreamB>>)
      late == << Bar(stream, instrument, 21, 0), Bar(stream, instrument, 22, 0) >>
  IN [pair EXCEPT !.events = [n \in 1 .. 6 |->
        [(@ \o late)[n] EXCEPT !.source_length = length]]]

LongNames == {Named(length, late[1], late[2]) :
                length \in {1, 82, 83}, late \in {<<"s", "A">>, <<"t", "B">>}}

(* What the run compiler asks: no mapping takes a symbol away that is       *)
(* required as well, and streams of one run are converted alike.            *)
Asked == {r \in Declarations \cup Conversions \cup Pairs \cup LongNames :
            \A n \in DOMAIN r.strategy.requirements :
              DOMAIN r.policy.mapping \cap r.strategy.requirements[n].symbols = {}}

(* What it leaves out: a mapping that takes a required symbol away, and two *)
(* streams of which one is converted.                                       *)
Entangled ==
  {[Basic EXCEPT !.strategy.requirements = << Requirement("s", "bar", Bars(n), {"A", "M"}) >>,
                 !.policy.mapping = [A |-> "M"], !.events = observed] :
     n \in {1, 2}, observed \in {EverySecond, Late}}
  \cup {TwoStreams(Bars(m), Bars(n), <<StreamA, StreamB>>) : m, n \in {1, 2}}
=============================================================================
