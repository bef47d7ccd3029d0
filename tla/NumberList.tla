----------------------------- MODULE NumberList -----------------------------
(***************************************************************************)
(* What the circular lists of buffer.c and DoublyCircularList.c promise: a *)
(* list of different numbers, changed at its ends or by removing a number  *)
(* wherever it is.  BufferCache and FileTables use their lists as such     *)
(* sequences.  CircularList refines this module.                           *)
(***************************************************************************)
EXTENDS Naturals, Sequences, SequencesExt

CONSTANTS
  Numbers,
  Removable,   \* the numbers Remove accepts
  NULL

VARIABLES
  list,
  did,   \* what the last call returned: the call, its number, its result; or <<>>
  up     \* whether the process runs; it may stop for good in any call

vars == <<list, did, up>>

Init == list = <<>> /\ did = <<>> /\ up = TRUE

InsertFirst(n) == n \notin ToSet(list) /\ list' = <<n>> \o list

InsertLast(n) == n \notin ToSet(list) /\ list' = Append(list, n)

DeleteFirst(n) ==
  IF list = <<>> THEN n = NULL /\ UNCHANGED list ELSE n = Head(list) /\ list' = Tail(list)

DeleteLast(n) ==
  IF list = <<>> THEN n = NULL /\ UNCHANGED list ELSE n = Last(list) /\ list' = Front(list)

Finds(n, result) == result = IF n \in ToSet(list) THEN n ELSE NULL

Removes(n, result) ==
  \/ /\ n \in Removable /\ result = n
     /\ \E k \in DOMAIN list : list[k] = n /\ list' = RemoveAt(list, k)
  \/ /\ n \notin Removable \/ n \notin ToSet(list)
     /\ result = NULL /\ UNCHANGED list

Return(op, n, result) == up /\ did' = <<op, n, result>> /\ UNCHANGED up

Next ==
  \/ \E n \in Numbers : \E result \in {n, NULL} :
       \/ Return("Remove", n, result) /\ Removes(n, result)
       \/ Return("Search", n, result) /\ Finds(n, result) /\ UNCHANGED list
  \/ \E n \in Numbers \union {NULL} :
       \/ Return("DeleteFirst", NULL, n) /\ DeleteFirst(n)
       \/ Return("DeleteLast", NULL, n) /\ DeleteLast(n)
  \/ up /\ did' = <<>> /\ UNCHANGED list      \* a call begins, and may be the last
  \/ up /\ did' = <<>> /\ UNCHANGED up /\ \E n \in Numbers : InsertFirst(n) \/ InsertLast(n)

Spec == Init /\ [][Next]_vars
=============================================================================
