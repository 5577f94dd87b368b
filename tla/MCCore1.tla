------------------------------- MODULE MCCore1 -------------------------------
(* Two devices, for TLC. *)
EXTENDS Core1

MCDevices == <<"d1", "d2">>
=============================================================================
