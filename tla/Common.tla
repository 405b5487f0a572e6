------------------------------- MODULE Common -------------------------------
(***************************************************************************)
(* What the component modules share: the value that stands for an absent   *)
(* string, row or record, and the counters that bound what an environment  *)
(* does.                                                                   *)
(***************************************************************************)
EXTENDS Integers

CONSTANT None
=============================================================================
