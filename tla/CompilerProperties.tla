--------------------------- MODULE CompilerProperties ---------------------------
(* The properties of Compiler.                                              *)
EXTENDS Compiler

tape == request.events

(* Types.  A plan has only records that apply_compatibility_plan knows.     *)
CompilerTypeOK ==
  /\ stage \in {"declaration", "requirement", "planned", "delivered", "refused", "failed"}
  /\ next \in 1 .. Len(records) + Len(strategy.requirements) + 1
  /\ \A n \in DOMAIN records :
       /\ records[n].result \in {"EXACT", "TRANSFORMED_LOSSLESS", "TRANSFORMED_LOSSY"}
       /\ records[n].transformation_id \in {"none", "symbol.map.v1", "bar.resample.v1"}
  /\ \A n \in DOMAIN events : events[n] \in Event
  /\ (stage \in {"refused", "failed"}) <=> (code # "none")

-----------------------------------------------------------------------------
(* What a requirement asks for, stated without the order of the checks and  *)
(* without records.                                                         *)
Provided(symbol, stream) ==
  \/ symbol \in stream.symbols
  \/ /\ "symbol.map.v1" \in policy.transformations
     /\ \E s \in stream.symbols \cap DOMAIN policy.mapping : policy.mapping[s] = symbol

Reversible(requirement, stream) ==
  LET used == {s \in stream.symbols \cap DOMAIN policy.mapping :
                 policy.mapping[s] \in requirement.symbols}
  IN \A s \in used : /\ policy.mapping[s] \notin stream.symbols
                     /\ \A t \in used \ {s} : policy.mapping[t] # policy.mapping[s]

Reachable(source, target, transformations) ==
  \/ source = target
  \/ /\ "bar.resample.v1" \in transformations /\ policy.allow_lossy
     /\ {source.mode, target.mode} = {"bar"} /\ source.grid = target.grid
     /\ \E n \in 2 .. target.interval : target.interval = n * source.interval

(* Of the streams of one identifier, which nothing keeps apart, the first   *)
(* counts.                                                                  *)
Fits(requirement) ==
  \E n \in DOMAIN streams :
    LET stream == streams[n]
    IN /\ stream.stream_id = requirement.stream_id
       /\ \A m \in 1 .. n - 1 : streams[m].stream_id # requirement.stream_id
       /\ requirement.kind = stream.kind /\ stream.kind \in engine.data_kinds
       /\ requirement.fields \subseteq stream.fields
       /\ \A symbol \in requirement.symbols : Provided(symbol, stream)
       /\ requirement.symbols \subseteq stream.symbols \/ Reversible(requirement, stream)
       /\ Reachable(stream.timeframe, requirement.timeframe, policy.transformations)

Fit ==
  /\ \A m \in {strategy, request.dataset, engine} : m.version = ContractMajor
  /\ strategy.sandbox <= policy.sandbox /\ policy.sandbox \in engine.sandbox_modes
  /\ policy.support <= engine.support
  /\ strategy.profiles \subseteq engine.profiles
  /\ strategy.actions \subseteq engine.actions
  /\ \A n \in DOMAIN strategy.requirements : Fits(strategy.requirements[n])

(* compile_run refuses exactly the requests that do not fit, whichever      *)
(* check comes first: none is skipped because an earlier requirement was    *)
(* transformed, and none that fits is refused.                              *)
RefusedIffUnfit ==
  /\ stage = "refused" => ~Fit
  /\ stage \in {"planned", "delivered", "failed"} => Fit

-----------------------------------------------------------------------------
(* The events a requirement is owed, from the dataset's own: a symbol the   *)
(* stream has, or the one mapped to it; bars of the timeframe, each merged  *)
(* from the stream's bars that close within it.                             *)
Wanted(requirement, stream) ==
  IF requirement.symbols = {} THEN stream.symbols ELSE requirement.symbols

SourceSymbol(symbol, stream) ==
  IF symbol \in stream.symbols THEN symbol
  ELSE CHOOSE s \in stream.symbols : s \in DOMAIN policy.mapping /\ policy.mapping[s] = symbol

View(instrument, time, available, payload) ==
  [instrument_id |-> instrument, event_time |-> time, available_time |-> available,
   payload |-> payload]

TotalVolume(bars) == MapThenSumSet(LAMBDA b : b.payload.volume, bars)

OwedBar(symbol, close, bars) ==
  LET first == CHOOSE b \in bars : \A c \in bars : b.event_time <= c.event_time
      last  == CHOOSE b \in bars : \A c \in bars : b.event_time >= c.event_time
  IN View(symbol, close, Max({b.available_time : b \in bars}),
          [kind |-> "bar", open |-> first.payload.open, close |-> last.payload.close,
           high |-> Max({b.payload.high : b \in bars}),
           low  |-> Min({b.payload.low : b \in bars}),
           volume |-> TotalVolume(bars)])

Owed(requirement) ==
  LET stream == FindStream(requirement.stream_id)
      Raw(symbol) == {e \in ToSet(tape) : /\ e.source = stream.stream_id
                                          /\ e.instrument_id = SourceSymbol(symbol, stream)}
      interval == requirement.timeframe.interval
      Within(symbol, close) ==
        {e \in Raw(symbol) : close - interval < e.event_time /\ e.event_time <= close}
      Closes(symbol) ==
        {close \in 0 .. Max({0} \cup {e.event_time : e \in ToSet(tape)}) + interval :
           close % interval = 0 /\ Within(symbol, close) # {}}
  IN UNION {IF stream.timeframe = requirement.timeframe
            THEN {View(symbol, e.event_time, e.available_time, e.payload) : e \in Raw(symbol)}
            ELSE {OwedBar(symbol, close, Within(symbol, close)) : close \in Closes(symbol)} :
              symbol \in Wanted(requirement, stream)}

Delivered(requirement) ==
  LET stream == FindStream(requirement.stream_id)
  IN {View(e.instrument_id, e.event_time, e.available_time, e.payload) :
        e \in {d \in ToSet(events) : /\ d.source = stream.stream_id
                                     /\ d.instrument_id \in Wanted(requirement, stream)}}

(* A request is accepted only when what every requirement declares can be   *)
(* delivered exactly or by an authorized conversion: the events the engine  *)
(* is given contain, for every requirement, the events it is owed.          *)
RequirementsSatisfied ==
  stage = "delivered" =>
    \A n \in DOMAIN strategy.requirements :
      Delivered(strategy.requirements[n]) = Owed(strategy.requirements[n])

-----------------------------------------------------------------------------
(* What is delivered from a tape in the engine's order is in that order,    *)
(* whatever instruments were resampled and renumbered.                      *)
InOrder(tuple) == \A m, n \in DOMAIN tuple : m < n => Earlier(tuple[m], tuple[n])

DeliveredInOrder == InOrder(tape) => InOrder(events)

(* A conversion does not see the future: an event that is available at a    *)
(* time is what the events available at that time convert to.               *)
Unnumbered(tuple) ==
  {View(e.instrument_id, e.event_time, e.available_time, e.payload) : e \in ToSet(tuple)}

KnownAt(time) ==
  FoldLeft(LAMBDA known, e : IF e.available_time <= time THEN Append(known, e) ELSE known,
           <<>>, tape)

Causal ==
  stage = "delivered" =>
    \A n \in DOMAIN events :
      View(events[n].instrument_id, events[n].event_time, events[n].available_time,
           events[n].payload)
        \in Unnumbered(AppliedAll(records, KnownAt(events[n].available_time)))

(* Of every interval that has a bar, the stream's data have every bar;      *)
(* intervals without any bar, a night or a holiday, may come between.       *)
Whole(stream, requirement) ==
  LET interval == requirement.timeframe.interval
      Close(time) == interval * ((time + interval - 1) \div interval)
  IN \A e \in {d \in ToSet(tape) : d.source = stream.stream_id} :
       \A time \in Close(e.event_time) - interval + 1 .. Close(e.event_time) :
         e.event_time > 0 /\ time % stream.timeframe.interval = 0 =>
           \E d \in ToSet(tape) : /\ d.source = stream.stream_id
                                  /\ d.instrument_id = e.instrument_id
                                  /\ d.event_time = time

(* The identifiers made on the way fit: the source of an event takes one    *)
(* more prefix for every record of the plan, and the identifier of every    *)
(* bar that can come of it takes its instrument or any a mapping may give.  *)
Roomy ==
  \A e \in ToSet(tape) :
    /\ e.source_length + 23 * Len(records) <= Room
    /\ \A n \in DOMAIN strategy.requirements :
         LET interval == strategy.requirements[n].timeframe.interval
         IN interval # 0 => \A i \in {e.instrument_id} \cup Range(policy.mapping) :
              EventIdLength(<<i, Bucket(e, interval)>>) <= Room

(* A dataset that has every bar of the intervals it is resampled to, under  *)
(* names that leave room for what is put around them, is converted without  *)
(* failing: resample_bars gives every closed interval bounds that its own   *)
(* validator takes.                                                         *)
WholeTapesConvert ==
  stage = "failed" =>
    \/ ~Roomy
    \/ \E n \in DOMAIN strategy.requirements :
         ~Whole(FindStream(strategy.requirements[n].stream_id), strategy.requirements[n])

(* Every event is a bar of a stream that is required, and all are wanted at *)
(* one interval.                                                            *)
ConvertedAlike ==
  /\ \A e \in ToSet(tape) :
       /\ e.payload.kind = "bar"
       /\ \E n \in DOMAIN strategy.requirements :
            e.source = FindStream(strategy.requirements[n].stream_id).stream_id
  /\ \A m, n \in DOMAIN strategy.requirements :
       strategy.requirements[m].timeframe.interval = strategy.requirements[n].timeframe.interval

(* Every instrument of the tape is of a stream, and no mapping gives a      *)
(* symbol of one stream the name of a symbol of another, or two symbols of  *)
(* two streams one name.                                                    *)
SymbolsApart ==
  /\ \A e \in ToSet(tape) : \E s \in ToSet(streams) : e.instrument_id \in s.symbols
  /\ \A s, t \in ToSet(streams) : s # t =>
       \A i \in s.symbols \cap DOMAIN policy.mapping :
         /\ policy.mapping[i] \notin t.symbols
         /\ \A j \in t.symbols \cap DOMAIN policy.mapping :
              policy.mapping[i] = policy.mapping[j] => i = j

(* What is lost was declared: without a lossy record in the plan the events *)
(* are those of the dataset, in number and order, under names from which    *)
(* the dataset's can be told (and sources with a prefix each); a lossy      *)
(* record needs the policy's consent.                                       *)
Undone(m, n) ==
  (events[m].instrument_id = events[n].instrument_id)
    <=> (tape[m].instrument_id = tape[n].instrument_id)

LossesDeclared ==
  /\ (\E n \in DOMAIN records : records[n].result = "TRANSFORMED_LOSSY") => policy.allow_lossy
  /\ (\A n \in DOMAIN records : records[n].result # "TRANSFORMED_LOSSY") =>
       /\ Len(events) = Len(tape)
       /\ \A n \in DOMAIN events :
            [events[n] EXCEPT !.instrument_id = tape[n].instrument_id,
                              !.source_length = tape[n].source_length] = tape[n]
       /\ \A m, n \in DOMAIN events : Undone(m, n)

(* One requirement, and the tape has the symbols of its stream from that    *)
(* stream only and no other symbol under a wanted name; no wanted name is   *)
(* itself mapped to another; and of one instrument, bars that are to be     *)
(* merged became available in the order of their times, each time once.     *)
AskedAlone ==
  Len(strategy.requirements) = 1 /\
  LET requirement == strategy.requirements[1]
      stream == FindStream(requirement.stream_id)
  IN /\ requirement.symbols \cap DOMAIN policy.mapping = {}
     /\ \A e \in ToSet(tape) :
          e.instrument_id \in stream.symbols \cup requirement.symbols =>
            e.source = stream.stream_id /\ e.instrument_id \in stream.symbols
     /\ MustResample(requirement, stream) =>
          \A m, n \in DOMAIN tape :
            tape[m].instrument_id = tape[n].instrument_id /\ Precedes(tape, m, n) =>
              tape[m].event_time < tape[n].event_time

=============================================================================
