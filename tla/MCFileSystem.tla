---------------------------- MODULE MCFileSystem ----------------------------
(***************************************************************************)
(* FileSystem for TLC.                                                     *)
(***************************************************************************)
EXTENDS FileSystem

\* Nothing, less than a block, a block, and more than one.
SomeStrings == {<<1, 2, 2, 1, 1, 1>>, <<2, 1, 1>>}
=============================================================================
