------------------------------- MODULE ShmMC -------------------------------
(* The instance of Shm that TLC checks: handles, regions and chunks are      *)
(* interchangeable.                                                          *)
EXTENDS Shm
Symmetry == Permutations(Handle) \cup Permutations(Heap) \cup Permutations(Chunk) \cup
            Permutations(Data)
=============================================================================
