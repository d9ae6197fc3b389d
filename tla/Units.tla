------------------------------- MODULE Units -------------------------------
(***************************************************************************)
(* Sums of natural-valued functions, counted unit by unit.                 *)
(*                                                                         *)
(* The contracts never store a sum over all holders or all queued requests *)
(* next to its summands: total_subscribed, reserved balances and the like  *)
(* are kept in step by hand, one addition or subtraction per call.  To     *)
(* state that they agree, a function f is read as a heap of units <<x, i>> *)
(* with i in 1..f[x], and its sum is the number of units in the heap.      *)
(* Counting instead of folding is what lets the sums be reasoned about     *)
(* with the finite-set theorems alone, without induction over the domain.  *)
(***************************************************************************)
EXTENDS Integers, FiniteSets

\* The heap of units f stands for.
UnitsOf(f) == UNION {{x} \X (1..f[x]) : x \in DOMAIN f}

\* The sum of f[x] over the domain of f.
Total(f) == Cardinality(UnitsOf(f))
=============================================================================
