---------------------------------- MODULE Shell ----------------------------------
(***************************************************************************)
(* The gendata and solve commands of the shell (shell/shell.c) and the     *)
(* checkdata tool (tools/100_checkdata/checkdata.c), run side by side for  *)
(* solvers that share one data file.  What a process does to a file is a   *)
(* step for each block: fopen "wb" truncates, each writer writes at its    *)
(* own offset, the last block waits in stdio's buffer for fclose.  A       *)
(* process may be killed, the disc may be full and malloc may fail.  A     *)
(* block of a file is the number of a block of the table the processes     *)
(* share, or 0 for zeros never written: two generations of a table write   *)
(* the same.                                                               *)
(***************************************************************************)
EXTENDS TableData

CONSTANTS
  Procs,
  Sessions,       \* the commands run together: each a function from some of
                  \* Procs to [cmd, solver, niss, file]
  Disks(_),       \* which directories can be written, and what they hold
  MaxFaults       \* bound on kills and failures

tablepaths == <<"tables/", "">>
Paths == {tablepaths[i] : i \in DOMAIN tablepaths}

(* The commands of a session share one data file: those that go as far as   *)
(* a file ask for the same data.  A file begins with what one generation at *)
(* a time has left in it, a table or the beginning of one.                  *)
ASSUME SessionsAssumption ==
  /\ MaxFaults \in Nat
  /\ \A s \in Sessions : DOMAIN s \subseteq Procs
  /\ \A s \in Sessions : \A p \in DOMAIN s :
        s[p].cmd \in {"gendata", "solve", "check"} /\ s[p].file \in Paths
  /\ \A s \in Sessions : \A p, q \in DOMAIN s :
        {s[p].solver, s[q].solver} \subseteq DOMAIN dataid =>
          dataid[s[p].solver] = dataid[s[q].solver]

ASSUME DisksAssumption ==
  \A s \in Sessions : \A disk \in Disks(s) :
    /\ disk.writable \subseteq Paths
    /\ \A files \in disk.files :
         /\ DOMAIN files \subseteq Paths /\ files = [f \in DOMAIN files |-> files[f]]
         /\ \A f \in DOMAIN files : /\ files[f] \in Seq(Nat)
                                   /\ \A i \in DOMAIN files[f] : files[f][i] = i

nisstypes == {"", "normal", "inverse", "linear", "mixed", "all"}
NISSY_ERROR_INVALID_SOLVER == -50

VARIABLES
  command,        \* what each process runs
  writable,       \* the directories in which a file can be opened "wb"
  file,           \* the files there are
  size,           \* what nissy_solverinfo told each process
  pc, path, ret,  \* where each process is, the file it has open, what it returns
  buf,            \* what it has read of the file
  pos,            \* how much of the table it has given to the file
  faults,
  (* Kept only to state the properties:                                     *)
  found,          \* the files there were when the process began
  opener,         \* who truncated the file last
  complete,       \* that process has closed the file after writing it all
  overlap,        \* the file has been open to two writers since one opened it alone
  mixed           \* the process has read while that was so

aux == <<found, opener, complete, overlap, mixed>>
fixed == <<command, writable, size>>
vars == <<fixed, file, pc, path, ret, buf, pos, faults, aux>>

Solver(p) == command[p].solver
Known(p) == Solver(p) \in DOMAIN dataid
Data(p) == data[dataid[Solver(p)]]
Blocks(p) == [i \in DOMAIN buf[p] |-> IF buf[p][i] = 0 THEN Zero ELSE Data(p)[buf[p][i]]]
Writing(p, f) == pc[p] \in {"generate", "write"} /\ path[p] = f
Ended(p) == pc[p] \in {"end", "crashed", "killed", "undefined"}

FirstIn(S) == tablepaths[CHOOSE i \in DOMAIN tablepaths :
                           tablepaths[i] \in S /\ \A j \in 1 .. i-1 : tablepaths[j] \notin S]

ShellInit ==
  /\ command \in Sessions
  /\ \E disk \in Disks(command) :
        /\ writable = disk.writable
        /\ file \in disk.files
  /\ pc = [p \in Procs |-> "start"]
  /\ size = [p \in Procs |-> 0]
  /\ path = [p \in Procs |-> ""]
  /\ ret = [p \in Procs |-> 0]
  /\ buf = [p \in Procs |-> <<>>]
  /\ pos = [p \in Procs |-> 0]
  /\ faults = 0
  /\ found = [p \in Procs |-> {}]
  /\ opener = [f \in Paths |-> {}]
  /\ complete = [f \in Paths |-> FALSE]
  /\ overlap = [f \in Paths |-> FALSE]
  /\ mixed = [p \in Procs |-> FALSE]

Goto(p, l) == pc' = [pc EXCEPT ![p] = l] /\ UNCHANGED <<ret, buf, pos>>
Stop(p, l, r) ==
  /\ pc' = [pc EXCEPT ![p] = l]
  /\ path' = [path EXCEPT ![p] = ""]
  /\ ret' = [ret EXCEPT ![p] = r]
  /\ buf' = [buf EXCEPT ![p] = <<>>]
  /\ pos' = [pos EXCEPT ![p] = 0]
End(p, r) == Stop(p, "end", r)
Fault == faults < MaxFaults /\ faults' = faults + 1

(* solve_exec looks at the NISS type first.  nissy_solverinfo fails for a   *)
(* name it does not know.  For a name it can parse but does not support it  *)
(* returns 1 and leaves 'dataid' unset, and the program goes on with it.    *)
SolverInfo(p) ==
  /\ pc[p] = "start"
  /\ IF command[p].cmd = "solve" /\ command[p].niss \notin nisstypes THEN End(p, -1) /\ UNCHANGED size
     ELSE \/ /\ Known(p)
             /\ Goto(p, IF command[p].cmd = "gendata" THEN "open" ELSE "look")
             /\ size' = [size EXCEPT ![p] = Len(Data(p))]
             /\ UNCHANGED path
          \/ Solver(p) \in Unsupported /\ Stop(p, "undefined", 0) /\ UNCHANGED size
          \/ /\ ~Known(p) /\ Solver(p) \notin Unsupported
             /\ End(p, IF command[p].cmd = "gendata" THEN -3
                       ELSE NISSY_ERROR_INVALID_SOLVER)
             /\ UNCHANGED size
  /\ found' = [found EXCEPT ![p] = DOMAIN file]
  /\ UNCHANGED <<command, writable, file, faults, opener, complete, overlap, mixed>>

OpenToRead(p, f) ==
  /\ path' = [path EXCEPT ![p] = f]
  /\ Goto(p, "read")

LookFirstOnly(p) ==       \* in the first directory only
  /\ pc[p] \in {"look", "look_again"} /\ command[p].cmd = "solve"
  /\ \/ "tables/" \in DOMAIN file /\ OpenToRead(p, "tables/")
     \/ "tables/" \notin DOMAIN file /\ Goto(p, "open") /\ UNCHANGED path
  /\ UNCHANGED <<fixed, file, faults, aux>>

(* solve_exec takes the first file it can open, and generates the table if  *)
(* there is none; after that it looks again.  Nothing removes files, so it  *)
(* then finds one.                                                          *)
Look(p) ==
  /\ pc[p] \in {"look", "look_again"} /\ command[p].cmd = "solve"
  /\ \/ DOMAIN file # {} /\ OpenToRead(p, FirstIn(DOMAIN file))
     \/ DOMAIN file = {} /\ Goto(p, "open") /\ UNCHANGED path
  /\ UNCHANGED <<fixed, file, faults, aux>>

(* The checkdata tool opens the file it is given.                           *)
OpenNamed(p) ==
  /\ pc[p] = "look" /\ command[p].cmd = "check"
  /\ \/ command[p].file \in DOMAIN file /\ OpenToRead(p, command[p].file)
     \/ command[p].file \notin DOMAIN file /\ End(p, -1)
  /\ UNCHANGED <<fixed, file, faults, aux>>

(* gendata_exec opens, that is empties, the file before it generates the    *)
(* table.  With no directory to write in it calls fclose(NULL).             *)
OpenToWrite(p) ==
  /\ pc[p] = "open"
  /\ writable # {}
  /\ LET f == FirstIn(writable)
     IN  /\ file' = [g \in DOMAIN file \cup {f} |-> IF g = f THEN <<>> ELSE file[g]]
         /\ path' = [path EXCEPT ![p] = f]
         /\ opener' = [opener EXCEPT ![f] = {p}]
         /\ complete' = [complete EXCEPT ![f] = FALSE]
         /\ overlap' = [overlap EXCEPT ![f] = \E q \in DOMAIN command \ {p} : Writing(q, f)]
  /\ Goto(p, "generate")
  /\ UNCHANGED <<fixed, faults, found, mixed>>

NowhereToWrite(p) ==
  /\ pc[p] = "open"
  /\ writable = {}
  /\ End(p, -2) \/ Stop(p, "crashed", 0)
  /\ UNCHANGED <<fixed, file, faults, aux>>

Generate(p) ==
  /\ pc[p] = "generate"
  /\ Goto(p, "write")
  /\ UNCHANGED <<fixed, file, path, faults, aux>>

(* A NULL buffer is a dry run for nissy_gendata, which returns the size     *)
(* expected; fwrite then fails, or the program does.                        *)
GenerateInNull(p) ==
  /\ pc[p] = "generate"
  /\ Fault
  /\ End(p, -6) \/ Stop(p, "crashed", 0)
  /\ UNCHANGED <<fixed, file, aux>>

WriteAtEnd(content, off, block) == Append(content, block)      \* fopen "ab"

(* A write past the end of the file leaves zeros in between.                *)
WriteAt(content, off, block) ==
  IF off < Len(content) THEN [content EXCEPT ![off + 1] = block]
  ELSE content \o [i \in 1 .. off - Len(content) |-> 0] \o <<block>>

WriteNext(p) ==
  file' = [file EXCEPT ![path[p]] = WriteAt(@, pos[p], pos[p] + 1)]

Write(p) ==
  /\ pc[p] = "write"
  /\ pos[p] < size[p] - 1
  /\ WriteNext(p)
  /\ pos' = [pos EXCEPT ![p] = @ + 1]
  /\ UNCHANGED <<fixed, pc, path, ret, buf, faults, aux>>

WriteFails(p) ==
  /\ pc[p] = "write"
  /\ pos[p] < size[p] - 1
  /\ Fault
  /\ End(p, -6)
  /\ UNCHANGED <<fixed, file, aux>>

(* fclose writes the last block.  Its result is not looked at.              *)
Written(p) == Stop(p, IF command[p].cmd = "solve" THEN "look_again" ELSE "end", 0)

CloseNot(p) ==
  /\ pc[p] = "write"
  /\ pos[p] = size[p] - 1
  /\ complete' = [complete EXCEPT ![path[p]] = @ \/ opener[path[p]] = {p}]
  /\ Written(p)
  /\ UNCHANGED <<fixed, file, faults, found, opener, overlap, mixed>>

Close(p) ==
  /\ pc[p] = "write"
  /\ pos[p] = size[p] - 1
  /\ WriteNext(p)
  /\ complete' = [complete EXCEPT ![path[p]] = @ \/ opener[path[p]] = {p}]
  /\ Written(p)
  /\ UNCHANGED <<fixed, faults, found, opener, overlap, mixed>>

CloseFails(p) ==
  /\ pc[p] = "write"
  /\ pos[p] = size[p] - 1
  /\ Fault
  /\ Written(p)
  /\ UNCHANGED <<fixed, file, aux>>

(* fread, up to the size of the table.  A file that ends before is an error *)
(* for solve; the checkdata tool takes it for the result of its check.      *)
HasRead(p) == pc[p] = "read" /\ Len(buf[p]) = size[p]

Read(p) ==
  /\ pc[p] = "read"
  /\ Len(buf[p]) < size[p]
  /\ Len(buf[p]) < Len(file[path[p]])
  /\ buf' = [buf EXCEPT ![p] = Append(@, file[path[p]][Len(@) + 1])]
  /\ mixed' = [mixed EXCEPT ![p] = @ \/ overlap[path[p]]]
  /\ UNCHANGED <<fixed, file, pc, path, ret, pos, faults, found, opener,
                 complete, overlap>>

ReadShort(p) ==
  /\ pc[p] = "read"
  /\ Len(buf[p]) < size[p]
  /\ Len(buf[p]) >= Len(file[path[p]])
  /\ End(p, IF command[p].cmd = "solve" THEN -2 ELSE 0)
  /\ UNCHANGED <<fixed, file, faults, aux>>

ReadInNull(p) ==
  /\ pc[p] = "read"
  /\ buf[p] = <<>>
  /\ Fault
  /\ End(p, IF command[p].cmd = "solve" THEN -2 ELSE 0) \/ Stop(p, "crashed", 0)
  /\ UNCHANGED <<fixed, file, aux>>

(* solve_exec returns 0 whatever nissy_solve does.                          *)
Solve(p) ==
  /\ HasRead(p) /\ command[p].cmd = "solve"
  /\ End(p, 0)
  /\ UNCHANGED <<fixed, file, faults, aux>>

(* 0 is printed as "succeeded".                                             *)
Check(p) ==
  /\ HasRead(p) /\ command[p].cmd = "check"
  /\ End(p, IF nissy_checkdata(Blocks(p)) THEN 0 ELSE 1)
  /\ UNCHANGED <<fixed, file, faults, aux>>

Kill(p) ==
  /\ ~Ended(p)
  /\ Fault
  /\ Stop(p, "killed", 0)
  /\ UNCHANGED <<fixed, file, aux>>

ShellNext == \E p \in DOMAIN command :
  \/ SolverInfo(p) \/ Look(p) \/ OpenNamed(p) \/ OpenToWrite(p) \/ NowhereToWrite(p)
  \/ Generate(p) \/ GenerateInNull(p) \/ Write(p) \/ WriteFails(p) \/ Close(p)
  \/ CloseFails(p) \/ Read(p) \/ ReadShort(p) \/ ReadInNull(p) \/ Solve(p) \/ Check(p)
  \/ Kill(p)

Spec == ShellInit /\ [][ShellNext]_vars

-----------------------------------------------------------------------------
(* The type invariant.                                                       *)
TypeOK ==
  /\ command \in Sessions
  /\ writable \subseteq Paths
  /\ DOMAIN file \subseteq Paths
  /\ \A p \in DOMAIN command :
        /\ pc[p] \in {"start", "look", "look_again", "open", "generate", "write", "read",
                      "end", "crashed", "killed", "undefined"}
        /\ pc[p] \in {"generate", "write", "read"} => path[p] \in DOMAIN file
        /\ Len(buf[p]) <= size[p] /\ pos[p] \in 0 .. size[p]
  /\ \A f \in DOMAIN file : \A i \in DOMAIN file[f] : file[f][i] \in {0, i}
  /\ faults \in 0 .. MaxFaults

(* The offsets at which a solver finds the tables it uses, in a whole file.  *)
StartOf(part, content) == (CHOOSE i \in DOMAIN content : content[i] = Body(part, 1)) - 1
Uses == [h48h0k4 |-> <<"cocsep", "h48h0k4", "eoesep">>,
         h48h2k2 |-> <<"cocsep", "h48k2", "h48h0k4", "eoesep">>,
         EO |-> <<"pruning">>, DR |-> <<"helper", "pruning">>]
RightOffsets(id) == [i \in DOMAIN Uses[id] |-> StartOf(Uses[id][i], data[id])]

(* What the solver is given (shell/shell.c:408-433, solvers/h48/solve.h:     *)
(* 418-448, solvers/coord/solve.h:271-285).  A generation that was cut short *)
(* by a signal, a full disc or a failed allocation never leaves data that a  *)
(* later solve takes for a table: unless two generations of the file         *)
(* overlapped while it was there to be read, nissy_solve is given the whole  *)
(* data, and finds every table at its place.  Even after an overlap, blocks  *)
(* are either right or zeros; zeros in place of a header of an H48 table     *)
(* make solve_h48 refuse the data, and nothing else does.                    *)
SolversTables == \A p \in DOMAIN command :
  HasRead(p) /\ command[p].cmd = "solve" =>
    LET id    == dataid[Solver(p)]
        holes == {i \in DOMAIN buf[p] : buf[p][i] # i}
        found_at == Offsets(id, Blocks(p))
    IN  /\ holes # {} => mixed[p]
        /\ \A i \in holes : buf[p][i] = 0
        /\ holes = {} \/ IsH48(id) =>
              IF \E i \in holes : data[id][i].at = 0 THEN found_at.error
              ELSE ~found_at.error /\ found_at.offsets = RightOffsets(id)

(* nissy_checkdata (nissy.c:418-447) tells a hole left by overlapping        *)
(* generations anywhere in the data, except in the data of the two kinds of  *)
(* table whose entries checkdata does not count (nissy.c:88-91).             *)
CheckdataExact == \A p \in DOMAIN command :
  HasRead(p) /\ command[p].cmd = "check" =>
    LET id == dataid[Solver(p)]
    IN  nissy_checkdata(Blocks(p)) <=>
          \A i \in DOMAIN buf[p] :
             \/ buf[p][i] = i
             \/ data[id][i].of \in {"eoesep", "helper"} /\ data[id][i].at > 0

(* Whoever empties a file last decides (shell/shell.c:310-346): once it has  *)
(* closed the file after writing all of it the table is whole, whatever      *)
(* other generations of the same table were under way or died on the way,    *)
(* and stays so until somebody empties it again.                             *)
LastGenerationWins == \A f \in DOMAIN file :
  complete[f] => \A p \in DOMAIN command : opener[f] = {p} => file[f] = [i \in 1 .. size[p] |-> i]

(* A solve generates a table only for want of a file (shell/shell.c:384-398): *)
(* it never writes to a file that was there when it began, so it neither     *)
(* destroys a table nor repairs one that was cut short.                      *)
SolveKeepsFiles == \A p \in DOMAIN command :
  command[p].cmd = "solve" =>
    \A f \in found[p] : ~Writing(p, f) /\ opener[f] # {p}
=============================================================================
