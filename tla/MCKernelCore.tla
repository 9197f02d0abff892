---------------------------- MODULE MCKernelCore ----------------------------
(***************************************************************************)
(* An instance of KernelCore: three pools of 3, 2 and 1 blocks, with       *)
(* requests that fit all, two or one of them, and one that fits none; the  *)
(* handlers and the interrupts are interchangeable.                        *)
(***************************************************************************)
EXTENDS KernelCore, TLC

MCBlockSize == <<32, 64, 128>>
MCBlockCount == <<3, 2, 1>>
MCRequest == {32, 64, 100, 200}

Symmetry == Permutations(Handler) \cup Permutations(Irq)
=============================================================================
