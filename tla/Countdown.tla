------------------------------ MODULE Countdown ------------------------------
(***************************************************************************)
(* What the devices of lab 4 are to the tasks that wait for them: each has *)
(* a number of ticks left, is signalled by the tick that takes the last,   *)
(* and begins again with its period.  There is no count and no match here, *)
(* and nothing that wraps.                                                 *)
(***************************************************************************)
EXTENDS Integers

CONSTANTS
  Devices,
  Period     \* of each device, in ticks

VARIABLE left

\* A device that no task set has armed is signalled by the first tick.
Init == left = [d \in Devices |-> 0]

Signalled == {d \in Devices : left[d] <= 1}
Tick == left' = [d \in Devices |-> IF d \in Signalled THEN Period[d] ELSE left[d] - 1]

\* A new task set begins with whole periods.
Reset == left' = Period

Spec == Init /\ [][Tick \/ Reset]_left
=============================================================================
