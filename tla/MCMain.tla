------------------------------- MODULE MCMain -------------------------------
(***************************************************************************)
(* Main for TLC: everything that can be typed in a block of eight bytes.    *)
(***************************************************************************)
EXTENDS Main

Typed == UNION {[1..n -> {1, 2}] : n \in 0..BLOCK_SIZE-1}
=============================================================================
