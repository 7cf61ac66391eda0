---------------------------- MODULE MCGDBEngine ----------------------------
(* Instances of GDBEngine for TLC.                                         *)
EXTENDS GDBEngine

AllOptions     == [compress : BOOLEAN, convert : BOOLEAN]
DefaultOptions == {[compress |-> FALSE, convert |-> TRUE]}
=============================================================================
