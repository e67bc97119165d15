--------------------------- MODULE MCConfigCache ----------------------------
(***************************************************************************)
(* Instances of module ConfigCache for TLC, with ints up to 1010.  The     *)
(* spans, in halves: 0 to 2 and -3 to 0 (SpanHigh gets the default); -1.5  *)
(* to 0.5, which truncation makes one; 1100 to 1200, which saturate; and   *)
(* -1009 to 1000, whose difference wraps.                                  *)
(***************************************************************************)
EXTENDS ConfigCache

Setting(low, high, deadband) ==
  [SpanLow |-> low, SpanHigh |-> high, Deadband |-> deadband]

MCSettings ==
  {Setting(0, 4, 5), Setting(-6, 0, 5), Setting(-3, 1, 0), Setting(2200, 2400, 5),
   Setting(-2018, 2000, 5)}
=============================================================================
