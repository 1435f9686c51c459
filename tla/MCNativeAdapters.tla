--------------------------- MODULE MCNativeAdapters ---------------------------
(* Instances of NativeAdapters.                                             *)
EXTENDS NativeAdapters

A(kind) == [instrument_id |-> "A", kind |-> kind]
B(kind) == [instrument_id |-> "B", kind |-> kind]

(* Three bars, and the tapes both adapters reject.                           *)
BarTapes == { <<A("bar"), A("bar"), A("bar")>>,
              <<A("bar"), B("bar")>>, <<A("bar"), A("quote")>>, <<>> }

(* Whole lots up to two each way, one and a half, and a third of one, which *)
(* no double is.                                                            *)
Targets == {-24, 0, 8, 36, 48}

(* The doubles lie closer together around zero; 9 is printed as the third   *)
(* of a lot that it is the nearest double of.                               *)
Magnitudes == {0, 3, 6, 9, 12, 18, 24, 36, 48, 72, 96, 144, 192}
FewDoubles == Magnitudes \cup {-m : m \in Magnitudes}
Shortest == [d \in FewDoubles |-> CASE d = 9 -> 8 [] d = -9 -> -8 [] OTHER -> d]
=============================================================================
