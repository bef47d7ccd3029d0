----------------------------- MODULE AppendOnly -----------------------------
(***************************************************************************)
(* What writefile of syscalls.c promises: a file is the sequence of bytes  *)
(* appended to it, a call appends its bytes in order, in as many pieces as *)
(* it likes, to one file, and returns their number when all are there.     *)
(* Nothing else changes a file.                                            *)
(*                                                                         *)
(* The process may stop for good at any point.  FileSystem refines this    *)
(* module.                                                                 *)
(***************************************************************************)
EXTENDS Naturals, Sequences

CONSTANTS
  Files,
  Strings     \* what a caller may write in one call

VARIABLES
  contents,   \* the bytes of every file
  writing,    \* the call under way: the file, the string, how much of it is written
  up

vars == <<contents, writing, up>>

None == [file |-> {}, string |-> <<>>, done |-> 0]

Init ==
  /\ contents = [f \in Files |-> <<>>]
  /\ writing = None
  /\ up = TRUE

Begin(f, s) ==
  /\ up
  /\ writing = None
  /\ writing' = [file |-> {f}, string |-> s, done |-> 0]
  /\ UNCHANGED <<contents, up>>

\* The next bytes of the string, up to the n-th.
Extend(f, n) ==
  /\ up
  /\ writing.file = {f}
  /\ writing.done < n
  /\ contents' = [contents EXCEPT ![f] = @ \o SubSeq(writing.string, writing.done + 1, n)]
  /\ writing' = [writing EXCEPT !.done = n]
  /\ UNCHANGED up

Return ==
  /\ up
  /\ writing # None
  /\ writing.done = Len(writing.string)
  /\ writing' = None
  /\ UNCHANGED <<contents, up>>

Halt == up /\ ~up'

Next ==
  \/ \E f \in Files :
       \/ \E s \in Strings : Begin(f, s)
       \/ \E n \in 1..Len(writing.string) : Extend(f, n)
  \/ Return
  \/ Halt

Spec == Init /\ [][Next]_vars
=============================================================================
