------------------------------- MODULE MCSponge -------------------------------
(***************************************************************************)
(* Instances of Sponge for TLC.                                            *)
(***************************************************************************)
EXTENDS Sponge

SomeBytes == {"x", "y"}
=============================================================================
