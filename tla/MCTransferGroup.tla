-------------------------- MODULE MCTransferGroup --------------------------
(* Small instances of TransferGroup.                                        *)
EXTENDS TransferGroup, TLC

CONSTANTS a, b, job1, job2

\* A move, and a merge into the same directory that shares its group.
MoveAndMerge == job1 :> "move" @@ job2 :> "merge"
OneMove      == job1 :> "move"

Symm == Permutations(Files)
=============================================================================
