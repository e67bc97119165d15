------------------------------ MODULE MCCJSON -------------------------------
(***************************************************************************)
(* Instances of module CJSON for TLC.  Items are interchangeable and so    *)
(* are names: nothing in the module or its properties, which are all       *)
(* safety properties, names one of them.                                   *)
(***************************************************************************)
EXTENDS CJSON, TLC

Symmetry == Permutations(Items) \union Permutations(Keys)
=============================================================================
