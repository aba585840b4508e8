----------------------------- MODULE MCPrograms -----------------------------
(***************************************************************************)
(* The six programs on four devices whose periods stand to each other as   *)
(* those of device.c do (100, 200, 500 and 50 milliseconds), with three    *)
(* mutexes for 32, six tasks of stress for 60 and three rounds of cyclone  *)
(* for 30.                                                                 *)
(***************************************************************************)
EXTENDS Programs

MCFreq == [d \in Devices |-> <<2, 4, 10, 1>>[d + 1]]
=============================================================================
