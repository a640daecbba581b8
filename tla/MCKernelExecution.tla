-------------------------- MODULE MCKernelExecution --------------------------
(* Instances of KernelExecution for TLC.                                   *)
EXTENDS KernelExecution, TLC

CONSTANTS a, b

CellsAreInterchangeable == Permutations(Cells)
=============================================================================
