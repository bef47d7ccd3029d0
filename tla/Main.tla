-------------------------------- MODULE Main --------------------------------
(***************************************************************************)
(* main of syscalls.c: three files are created, two of them opened, what   *)
(* the user types is written to one and read back.  The tables, the cache  *)
(* and the disk have the sizes of the code here; a block is smaller.       *)
(*                                                                         *)
(* Left out: what is displayed between the calls, and that the cache and   *)
(* the disk list are set up after the files have been opened.              *)
(***************************************************************************)
EXTENDS FileSystem

CONSTANT Count     \* how much main reads, 20: less than a block

ASSUME MainAssumption ==
  /\ {"penguin", "python", "cloud"} \subseteq Names
  /\ {"0644", "0777", "0444"} \subseteq Modes /\ Unreadable = {"0444"}
  /\ \A string \in Strings : Len(string) < BLOCK_SIZE   \* more is TypesTooMuch
  /\ Count \in Counts /\ Count < BLOCK_SIZE
  /\ MAX_INODES > 4        \* it is 100, and main needs five descriptors

VARIABLES
  line,   \* the next call of the script
  fd,     \* fd1 to fd5
  arr     \* what the user has typed

mainvars == <<vars, line, fd, arr>>

----------------------------------------------------------------------------

\* The calls of createfile and openFile: the descriptor each result is stored in, and the
\* one that is then compared with -1.
Script == <<
  [call |-> "create", name |-> "penguin", mode |-> "0644", to |-> 1, tested |-> {1}],
  [call |-> "create", name |-> "python",  mode |-> "0777", to |-> 4, tested |-> {}],
  [call |-> "create", name |-> "cloud",   mode |-> "0444", to |-> 5, tested |-> {}],
  [call |-> "open",   name |-> "penguin", mode |-> "0644", to |-> 2, tested |-> {2}],
  [call |-> "open",   name |-> "python",  mode |-> "0777", to |-> 3, tested |-> {2}] >>

WriteLine == Len(Script) + 1
ReadLine  == WriteLine + 1
Exited    == 0

MainInit ==
  /\ Init
  /\ line = 1
  /\ fd = [i \in 1..5 |-> 0]
  /\ arr = <<>>

\* createfile or openFile, the result, and the test: a failure ends the process.
OpensFiles ==
  /\ line \in DOMAIN Script
  /\ LET c == Script[line]
     IN  /\ \/ c.call = "create" /\ Tables!createfile(c.name, c.mode)
            \/ c.call = "open" /\ Tables!openFile(c.name, c.mode)
         /\ call' = <<c.name, c.mode>>
         /\ CallerGets
         /\ fd' = [fd EXCEPT ![c.to] = ret']
         /\ line' = IF \E i \in c.tested : fd'[i] = -1 THEN Exited ELSE line + 1
  /\ UNCHANGED <<cache, alloc, files, readoffset, act, arr>>

\* Mutant: the descriptor that is tested above is used.
WritesToTested ==
  /\ line = WriteLine
  /\ \E string \in Strings : WriteBegins(fd[2], string) /\ arr' = string
  /\ line' = line + 1
  /\ UNCHANGED fd

\* The user types something, or nothing: then arr is what it happens to contain.
Writes ==
  /\ line = WriteLine
  /\ \E string \in Strings : WriteBegins(fd[3], string) /\ arr' = string
  /\ line' = line + 1
  /\ UNCHANGED fd

\* scanf has no width: with a block or more the NUL, at least, is behind arr.  Nothing is
\* said of the process from there on.
TypesTooMuch ==
  /\ line = WriteLine
  /\ Running /\ proc' = "overrun"
  /\ UNCHANGED <<cache, alloc, tables, ufdt, ret, files, readoffset, act, line, fd, arr>>

\* The result of writefile is not used.  ufdt.offset is set to 0 before the call, and by
\* it: both are descriptor MAX_INODES.
Reads ==
  /\ line = ReadLine
  /\ ReadBegins(fd[3], Count)
  /\ line' = line + 1
  /\ UNCHANGED <<fd, arr>>

InCall == (writefile \/ readfile) /\ UNCHANGED <<line, fd, arr>>

MainNext == OpensFiles \/ Writes \/ TypesTooMuch \/ Reads \/ InCall

\* The process goes on as long as it can.  The user need not type anything.
MainSpec == MainInit /\ [][MainNext]_mainvars /\ WF_mainvars(OpensFiles \/ Reads \/ InCall)

----------------------------------------------------------------------------
\* Properties.

\* When the files are open, the five descriptors are five, those of one file have the same
\* node, those of different files different ones: nothing was refused, although main
\* tests fd2 where it means fd3 and does not test fd4 and fd5 at all.
NodeOf(i) == FTABLE[ufdt[fd[i]]]
FilesOpen ==
  line >= WriteLine =>
    /\ \A i, j \in 1..5 : fd[i] = fd[j] => i = j
    /\ NodeOf(1) = NodeOf(2) /\ NodeOf(3) = NodeOf(4)
    /\ Cardinality({NodeOf(i) : i \in 1..5}) = 3

\* What was typed is in python.txt when main begins to read, however it is called there,
\* and all else is empty.
InputStored ==
  line > ReadLine \/ (line = ReadLine /\ act = Idle) =>
    \A n \in Node : Contents(n) = IF n = NodeOf(4) THEN arr ELSE <<>>

\* What becomes of main: it never prints what it has read.  If something was typed,
\* readfile waits for ever for the buffer writefile has not released; if not, yet wraps
\* around, and the copying goes on until there is no memory left.
EndsInRead ==
  line = ReadLine ~>
    /\ Reading
    /\ IF arr # <<>> THEN proc = "spinning" ELSE proc = "crashed"
=============================================================================
