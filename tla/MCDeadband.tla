----------------------------- MODULE MCDeadband -----------------------------
(***************************************************************************)
(* Instances of module Deadband for TLC.  With a span of 2, a deadband of  *)
(* 100 percent asks for a change of 2, one of 50 percent for a change of 1.*)
(***************************************************************************)
EXTENDS Deadband

MCValues == 0..2
MCOneConfig == {[span |-> 2, deadband |-> 100]}
MCTagConfigs == {[span |-> 2, deadband |-> 100], [span |-> 2, deadband |-> 0]}
MCZeroSpan == {[span |-> 0, deadband |-> 100]}

\* Tags are interchangeable, and so are devices.
MCSymmetry == Permutations(Tags) \union Permutations(Devices)
=============================================================================
