----------------------------- MODULE BufferPool -----------------------------
(***************************************************************************)
(* What the buffer cache of buffer.c promises its callers, without hash    *)
(* queues, headers or flags: a fixed number of buffers, each standing for  *)
(* one disk block; a block is asked for, its buffer is the caller's alone  *)
(* until it is given back, and a block that has no buffer takes the one    *)
(* that has been back the longest.                                         *)
(*                                                                         *)
(* The pool may also stop for good (Halt): a call of the real cache can    *)
(* wait for ever, exit() or fault.  BufferCache refines this module.       *)
(***************************************************************************)
EXTENDS Naturals, Sequences, SequencesExt

CONSTANTS
  BlockNumbers,   \* the block numbers a caller may ask for
  Capacity        \* how many buffers there are

VARIABLES
  available,      \* blocks whose buffer nobody uses, longest unused first
  out,            \* blocks whose buffer a caller holds
  up              \* FALSE once the process has stopped

vars == <<available, out, up>>

Init ==
  /\ available = [i \in 1..Capacity |-> i]
  /\ out = {}
  /\ up = TRUE

IsAvailable(b) == \E i \in DOMAIN available : available[i] = b

\* Block b still has its buffer: the caller gets that one, wherever it is in
\* the order.
Reuse(b) ==
  /\ up
  /\ \E i \in DOMAIN available :
       /\ available[i] = b
       /\ available' = RemoveAt(available, i)
  /\ out' = out \union {b}
  /\ UNCHANGED up

\* Block b has no buffer: the one unused for longest is taken away from its
\* block and given to b.
Reassign(b) ==
  /\ up
  /\ ~IsAvailable(b)
  /\ b \notin out
  /\ available # <<>>
  /\ available' = Tail(available)
  /\ out' = out \union {b}
  /\ UNCHANGED up

\* The caller gives the buffer of block b back; it is now the most recently
\* used one.
Release(b) ==
  /\ up
  /\ b \in out
  /\ out' = out \ {b}
  /\ available' = Append(available, b)
  /\ UNCHANGED up

\* The process waits for ever, exits or faults.  Nothing is promised about
\* the pool of a process that is gone.
Halt == up /\ ~up'

Next ==
  \/ \E b \in BlockNumbers : Reuse(b) \/ Reassign(b) \/ Release(b)
  \/ Halt

Spec == Init /\ [][Next]_vars
=============================================================================
