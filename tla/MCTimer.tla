------------------------------ MODULE MCTimer ------------------------------
(***************************************************************************)
(* A period of three counter units, a counter of ten, a count of 26        *)
(* milliseconds that advances by four, and two devices: neither size is a  *)
(* multiple of the step that wraps it, as 2^32 is not of 32500 or 10.      *)
(***************************************************************************)
EXTENDS Timer

MCFreq == [d \in Devices |-> 4 * (d + 1)]
=============================================================================
