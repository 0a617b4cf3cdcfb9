------------------------------- MODULE MCFile -------------------------------
(* EfFile for TLC: the processes are interchangeable.                      *)
EXTENDS EfFile, TLC

ProcSymmetry == Permutations(Procs)

=============================================================================
