----------------------------- MODULE MCSnowflake -----------------------------
(***************************************************************************)
(* Instances of Snowflake for TLC.  TLC's integers have 32 bits: with the   *)
(* shift of the code the clock has to stay below 2^9.                      *)
(***************************************************************************)
EXTENDS Snowflake

\* 12 bits of sn and 10 of machineID.
CodeShift == 2^22
=============================================================================
