----------------------------- MODULE Compatibility -----------------------------
(***************************************************************************)
(* The transformations of a compatibility plan (contract/compatibility.py) *)
(* over tuples of market events: symbol.map.v1 and bar.resample.v1.        *)
(*                                                                         *)
(* Times are in seconds since the epoch of the alignment.  The source of   *)
(* an event is the stream it comes from; the prefixes that the             *)
(* transformations put before it only count by their length, and           *)
(* receive_time is left out.                                               *)
(***************************************************************************)
EXTENDS Integers, Sequences, FiniteSetsExt, SequencesExt

CONSTANTS
  InstrumentRank,   \* the order of instrument identifiers, as numbers
  InstrumentLength  \* their lengths, in characters

(* Identifiers have a total order: those with one rank are the same.        *)
ASSUME RankAssumption ==
  \A i, j \in DOMAIN InstrumentRank :
    InstrumentRank[i] \in Nat /\ (InstrumentRank[i] = InstrumentRank[j] => i = j)

ASSUME LengthAssumption == InstrumentLength \in [DOMAIN InstrumentRank -> Nat]

(* The fields of a market event that are read here.                         *)
Event == [instrument_id : DOMAIN InstrumentRank, event_time : Nat, available_time : Nat,
          sequence : Nat, source : STRING, source_length : Nat, payload : [kind : {"bar", "quote"},
          open : Nat, high : Nat, low : Nat, close : Nat, volume : Nat]]

(* The fields that decide the order of events for the engine.               *)
Earlier(e, f) ==
  \/ e.available_time < f.available_time
  \/ e.available_time = f.available_time /\ e.sequence < f.sequence

(* A mapping is a function from the source symbols to the target symbols.   *)
(* The source of a mapped event gets the prefix "compat.symbol-map.v1:".    *)
MapSymbols(events, mapping) ==
  [n \in DOMAIN events |->
     IF events[n].instrument_id \in DOMAIN mapping
     THEN [events[n] EXCEPT !.instrument_id = mapping[@], !.source_length = @ + 21]
     ELSE events[n]]

-----------------------------------------------------------------------------
SlipBucket(event, interval) == event.event_time \div interval

(* A bar is stamped with its close, so one on a boundary belongs to the     *)
(* interval that ends there.                                                *)
Bucket(event, interval) == (event.event_time - 1) \div interval

Key(event, interval) == <<event.instrument_id, Bucket(event, interval)>>

KeyBefore(k, l) ==
  \/ InstrumentRank[k[1]] < InstrumentRank[l[1]]
  \/ k[1] = l[1] /\ k[2] < l[2]

(* Python's sort by (available_time, sequence) is stable: events that are   *)
(* equal in both keep the order of their positions.                         *)
Precedes(events, m, n) ==
  \/ Earlier(events[m], events[n])
  \/ m < n /\ ~Earlier(events[n], events[m])

Ordered(events, positions) ==
  [k \in 1 .. Cardinality(positions) |->
     events[CHOOSE n \in positions :
              Cardinality({m \in positions : Precedes(events, m, n)}) = k - 1]]

(* The bars of one instrument and interval, in order of availability.       *)
Group(events, key, interval) ==
  Ordered(events, {n \in DOMAIN events : Key(events[n], interval) = key})

SlipAvailableTime(group) == group[1].available_time
AvailableTime(group) == Max({e.available_time : e \in ToSet(group)})

SlipMergedPayload(group) ==
  [group[1].payload EXCEPT
     !.high = Max({e.payload.high : e \in ToSet(group)}),
     !.low = Min({e.payload.low : e \in ToSet(group)}),
     !.volume = FoldLeft(LAMBDA sum, e : sum + e.payload.volume, 0, group)]

MergedPayload(group) ==
  [kind   |-> "bar",
   open   |-> group[1].payload.open,
   high   |-> Max({e.payload.high : e \in ToSet(group)}),
   low    |-> Min({e.payload.low : e \in ToSet(group)}),
   close  |-> group[Len(group)].payload.close,
   volume |-> FoldLeft(LAMBDA sum, e : sum + e.payload.volume, 0, group)]

(* The source gets the prefix "compat.bar-resample.v1:".                    *)
MergedBar(group, key, interval, sequence) ==
  [instrument_id  |-> key[1],
   event_time     |-> (key[2] + 1) * interval,
   available_time |-> AvailableTime(group),
   sequence       |-> sequence,
   source         |-> group[1].source,
   source_length  |-> group[1].source_length + 23,
   payload        |-> MergedPayload(group)]

(* The merged bars, numbered by instrument and interval.                    *)
Numbered(events, interval) ==
  LET keys == {Key(events[n], interval) : n \in DOMAIN events}
      KeyAt(n) == CHOOSE k \in keys : Cardinality({l \in keys : KeyBefore(l, k)}) = n - 1
  IN [n \in 1 .. Cardinality(keys) |->
        MergedBar(Group(events, KeyAt(n), interval), KeyAt(n), interval, n - 1)]

SlipResampled(events, interval) == Numbered(events, interval)

(* resample_bars: they leave in order of availability.                      *)
Resampled(events, interval) ==
  LET bars == Numbered(events, interval) IN Ordered(bars, DOMAIN bars)

(* What makes it raise: an event that is no bar, and a bar that MarketEvent *)
(* refuses.  That is one that would end after all it is made of was         *)
(* available (validate_times), and one whose source or whose identifier     *)
(* "resampled:<instrument>:<bucket>" is longer than an Identifier.          *)
AllBars(events) == \A e \in ToSet(events) : e.payload.kind = "bar"
TimesValid(events) == \A e \in ToSet(events) : e.event_time <= e.available_time

Room == 128

Digits(number) ==
  LET digits[n \in Nat] == IF n < 10 THEN 1 ELSE 1 + digits[n \div 10]
  IN IF number < 0 THEN 1 + digits[-number] ELSE digits[number]

EventIdLength(key) == 11 + InstrumentLength[key[1]] + Digits(key[2])

IdentifiersFit(events, interval) ==
  /\ \A n \in DOMAIN events : EventIdLength(Key(events[n], interval)) <= Room
  /\ \A e \in ToSet(Resampled(events, interval)) : e.source_length <= Room

CanResample(events, interval) ==
  /\ AllBars(events)
  /\ TimesValid(Resampled(events, interval))
  /\ IdentifiersFit(events, interval)

-----------------------------------------------------------------------------
Applicable(record, events) ==
  record.transformation_id = "bar.resample.v1" => CanResample(events, record.target_interval)

(* One record of a plan, applied to all events.                             *)
Applied(record, events) ==
  CASE record.result = "EXACT" -> events
    [] record.transformation_id = "symbol.map.v1" -> MapSymbols(events, record.mapping)
    [] record.transformation_id = "bar.resample.v1" ->
         Resampled(events, record.target_interval)

AppliedAll(records, events) ==
  FoldLeft(LAMBDA done, record : Applied(record, done), events, records)
=============================================================================
