---------------------------- MODULE MCFileLogger ----------------------------
(***************************************************************************)
(* Instances of FileLogger for TLC.                                        *)
(***************************************************************************)
EXTENDS FileLogger, TLC

WriterSymmetry == Permutations(Writer)
=============================================================================
