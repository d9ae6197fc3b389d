--------------------------- MODULE BalanceHistory ---------------------------
(***************************************************************************)
(* The balance history of the bond issuer: a list of checkpoints, each a   *)
(* value and the balance version that wrote it, read back by a binary      *)
(* search (contracts/bond-issuer/src/lib.rs).                              *)
(*                                                                         *)
(* Operators introduced by "Mutant" are plausible wrong versions of the    *)
(* definition after them.                                                  *)
(***************************************************************************)
EXTENDS Integers, Sequences

Checkpoint == [version : Nat, value : Nat]
Checkpoints == Seq(Checkpoint)

\* Mutant: stamps the checkpoint with the version before the write.
AppendCheckpointStale(cps, v, previous, value) ==
  Append(IF cps = <<>> THEN <<[version |-> 0, value |-> previous]>> ELSE cps,
         [version |-> v - 1, value |-> value])

\* append_holder_checkpoint and append_supply_checkpoint: the first write also
\* records the value before it under version 0.
AppendCheckpoint(cps, v, previous, value) ==
  Append(IF cps = <<>> THEN <<[version |-> 0, value |-> previous]>> ELSE cps,
         [version |-> v, value |-> value])

\* Mutant: the search stops before the checkpoint of version v itself.
PartitionPointExclusive(cps, v) ==
  CHOOSE low \in 0..Len(cps) : /\ \A j \in 1..low : cps[j].version < v
                               /\ \A j \in (low + 1)..Len(cps) : cps[j].version >= v

\* Where the binary search over checkpoints stops: everything up to it has a
\* version at or below v, everything after it a higher one.
PartitionPoint(cps, v) ==
  CHOOSE low \in 0..Len(cps) : /\ \A j \in 1..low : cps[j].version <= v
                               /\ \A j \in (low + 1)..Len(cps) : cps[j].version > v

ValueAt(cps, v, current) ==
  IF cps = <<>> THEN current
  ELSE LET low == PartitionPoint(cps, v)
       IN  IF low = 0 THEN 0 ELSE cps[low].value
=============================================================================
