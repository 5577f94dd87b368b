----------------------------- MODULE MCNetwork -----------------------------
(* Instances of Network for TLC.                                           *)
EXTENDS Network

ImmediateThenOne == <<0, 1>>
OnlyOne == <<1>>

=============================================================================
