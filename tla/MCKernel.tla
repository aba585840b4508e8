------------------------------ MODULE MCKernel ------------------------------
(***************************************************************************)
(* Small instances of the kernel: up to three tasks under an idle task of  *)
(* priority 4, two mutexes, and one device, or two whose periods are two   *)
(* and three ticks, so that their signals fall together and apart.         *)
(***************************************************************************)
EXTENDS KernelInv

\* bound: a task that is given a mutex it slept on while another has taken it
\* counts one more than it can release, again and again; three values show the
\* counter below, at and above what its priority is decided by.
CountersBounded == \A t \in Tcbs : holds_lock[t] \in -1 .. 1

\* bound: FirstComeFirstServed, LostOnlyAtCeiling and TangledOnlyByCreation speak
\* of the steps from states in which no task is in two places, those that lead out
\* of them included.
UntilTangled == OnePlace

MCFreq == [d \in Devices |-> d + 2]
=============================================================================
