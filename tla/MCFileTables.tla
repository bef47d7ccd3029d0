---------------------------- MODULE MCFileTables ----------------------------
(***************************************************************************)
(* FileTables for TLC.  Names are model values: nothing tells one from     *)
(* another, so that a state stands for all its renamings.                  *)
(***************************************************************************)
EXTENDS FileTables, TLC

NameSymmetry == Permutations(Names)
=============================================================================
