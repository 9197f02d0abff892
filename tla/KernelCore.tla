----------------------------- MODULE KernelCore -----------------------------
(***************************************************************************)
(* The memory pools and the interrupt controller of kernel/core under      *)
(* their callers.  The interrupt handler allocates nothing and the pools   *)
(* enter no critical section, so that neither reads the state of the       *)
(* other: a behaviour follows one of them, which may be either.            *)
(***************************************************************************)
EXTENDS MemoryPools, InterruptController

VARIABLE subsystem     \* the subsystem that is followed

kernelVars == <<subsystem, vars, interruptVars>>

KernelInit ==
  /\ subsystem \in {"memory", "interrupts"}
  /\ Init /\ InterruptInit

KernelNext ==
  \/ /\ subsystem = "memory" /\ Next
     /\ UNCHANGED <<subsystem, interruptVars>>
  \/ /\ subsystem = "interrupts" /\ InterruptNext
     /\ UNCHANGED <<subsystem, vars>>

KernelSpec == KernelInit /\ [][KernelNext]_kernelVars
=============================================================================
