----------------------------- MODULE FileNames ------------------------------
(***************************************************************************)
(* What createfile and openFile of syscalls.c promise: files have a name   *)
(* and permissions that never change, and a descriptor, once handed out,   *)
(* designates the same file for ever (nothing closes one).                 *)
(*                                                                         *)
(* The process may stop for good in any call.  FileTables refines this     *)
(* module.                                                                 *)
(***************************************************************************)
EXTENDS Integers, Sequences

CONSTANTS
  Names,
  Modes,
  Descriptors   \* how many descriptors there can be

VARIABLES
  files,        \* the permissions of every file, by name
  fds,          \* fds[i+1] is the name of the file of descriptor i
  call,         \* what the last call was given: a name, and permissions
  ret,          \* what it returned
  up

vars == <<files, fds, call, ret, up>>

Init ==
  /\ files = <<>>
  /\ fds = <<>>
  /\ call = <<>>
  /\ ret = -1
  /\ up = TRUE

\* A descriptor for the file, the lowest one, while there is one left.
Grant(name) ==
  \/ /\ Len(fds) < Descriptors
     /\ fds' = Append(fds, name)
     /\ ret' = Len(fds)
  \/ /\ Len(fds) = Descriptors
     /\ ret' = -1
     /\ UNCHANGED fds

Exists(name) == name \in DOMAIN files

Create(name, permissions) ==
  /\ up
  /\ ~Exists(name)
  /\ files' = [n \in DOMAIN files \union {name} |->
                 IF n = name THEN permissions ELSE files[n]]
  /\ Grant(name)
  /\ UNCHANGED up

Open(name, mode) ==
  /\ up
  /\ Exists(name)
  /\ files[name] = mode
  /\ Grant(name)
  /\ UNCHANGED <<files, up>>

Refuse(name, mode) ==
  /\ up
  /\ Exists(name)
  /\ files[name] # mode
  /\ ret' = -1
  /\ UNCHANGED <<files, fds, up>>

\* The first descriptor of the file.  The last one there can be is not searched.
Search(name) ==
  LET found == {i \in 0..Descriptors-2 : i < Len(fds) /\ fds[i + 1] = name}
  IN  /\ up
      /\ ret' = IF found = {} THEN -1 ELSE CHOOSE i \in found : \A j \in found : i <= j
      /\ UNCHANGED <<files, fds, up>>

Halt == up /\ ~up'

Next ==
  \/ \E name \in Names, mode \in Modes :
       /\ Create(name, mode) \/ Open(name, mode) \/ Refuse(name, mode)
       /\ call' = <<name, mode>>
  \/ \E name \in Names : Search(name) /\ call' = <<name>>
  \/ Halt

Spec == Init /\ [][Next]_vars
=============================================================================
