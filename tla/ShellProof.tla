------------------------------ MODULE ShellProof ------------------------------
(***************************************************************************)
(* Proofs about Shell, for any sessions, any files the commands find and   *)
(* any number of faults: a solve leaves alone what it found, the last one  *)
(* to empty a file and write all of it leaves a whole table, and what is   *)
(* read of a file that had one writer at a time is the beginning of the    *)
(* table.                                                                  *)
(***************************************************************************)
EXTENDS Shell, TableDataProof

Labels == {"start", "look", "look_again", "open", "generate", "write", "read",
           "end", "crashed", "killed", "undefined"}
Busy == {"look", "look_again", "open", "generate", "write", "read"}

Types ==
  /\ command \in Sessions /\ writable \subseteq Paths
  /\ DOMAIN file \subseteq Paths /\ file \in [DOMAIN file -> Seq(Nat)]
  /\ size \in [Procs -> Nat] /\ pc \in [Procs -> Labels] /\ path \in [Procs -> Paths]
  /\ buf \in [Procs -> Seq(Nat)] /\ pos \in [Procs -> Nat] /\ faults \in 0 .. MaxFaults
  /\ found \in [Procs -> SUBSET Paths] /\ opener \in [Paths -> SUBSET Procs]
  /\ complete \in [Paths -> BOOLEAN] /\ overlap \in [Paths -> BOOLEAN]
  /\ mixed \in [Procs -> BOOLEAN]

(* Who has asked for the size of the data knows it.                        *)
Sized(p) == Known(p) /\ size[p] = Len(Data(p))

(* Where a process is, in the table and in the file.                       *)
Writer(p) ==
  /\ pc[p] \in {"generate", "write"} => path[p] \in DOMAIN file /\ opener[path[p]] # {}
  /\ pos[p] <= size[p] /\ (pc[p] # "write" => pos[p] = 0)
Reader(p) ==
  /\ pc[p] = "read" => path[p] \in DOMAIN file
  /\ pc[p] # "read" => buf[p] = <<>>
  /\ Len(buf[p]) <= size[p]
  /\ \A i \in 1 .. Len(buf[p]) : buf[p][i] \in {0, i} /\ (mixed[p] \/ buf[p][i] = i)

(* A solve that goes on to write found no file.                            *)
FoundNone(p) ==
  /\ found[p] \subseteq DOMAIN file
  /\ command[p].cmd = "solve" /\ pc[p] \in {"open", "generate", "write"} => found[p] = {}
  /\ command[p].cmd = "solve" => \A f \in Paths : opener[f] = {p} => found[p] = {}

ProcOK(p) ==
  /\ pc[p] \in Busy => Sized(p)
  /\ pc[p] = "start" => size[p] = 0
  /\ Writer(p) /\ Reader(p) /\ FoundNone(p)

(* A file that was emptied when nobody else wrote to it, and to which      *)
(* nobody came since, is what its only writer has written so far.          *)
Alone(f) ==
  /\ \A p, q \in DOMAIN command : Writing(p, f) /\ Writing(q, f) => p = q
  /\ \A p \in DOMAIN command : Writing(p, f) => pos[p] = Len(file[f])
  /\ f \in DOMAIN file => \A i \in 1 .. Len(file[f]) : file[f][i] = i

(* Of the file it emptied last a process has written all it says it has:   *)
(* the others only write what it has written or is going to write.         *)
OpenedBy(f, p) ==
  /\ f \in DOMAIN file /\ pc[p] # "start" /\ Sized(p)
  /\ Len(file[f]) <= size[p]
  /\ Writing(p, f) => pos[p] <= Len(file[f]) /\ \A i \in 1 .. pos[p] : file[f][i] = i
  /\ complete[f] => file[f] = [i \in 1 .. size[p] |-> i]

FileOK(f) ==
  /\ f \in DOMAIN file => \A i \in 1 .. Len(file[f]) : file[f][i] \in {0, i}
  /\ overlap[f] \/ Alone(f)
  /\ opener[f] = {} \/ \E p \in DOMAIN command : opener[f] = {p}
  /\ \A p \in DOMAIN command : opener[f] = {p} => OpenedBy(f, p)

IInv ==
  /\ Types
  /\ \A p \in DOMAIN command : ProcOK(p)
  /\ \A f \in Paths : FileOK(f)

-----------------------------------------------------------------------------
(* What the processes of a session have in common.                         *)
LEMMA SessionParts ==
  ASSUME command \in Sessions
  PROVE  /\ DOMAIN command \subseteq Procs
         /\ \A p \in DOMAIN command : command[p].cmd \in {"gendata", "solve", "check"}
                                      /\ command[p].file \in Paths
         /\ \A p, q \in DOMAIN command : Known(p) /\ Known(q) => Data(p) = Data(q)
<1>1. /\ DOMAIN command \subseteq Procs
      /\ \A p \in DOMAIN command : command[p].cmd \in {"gendata", "solve", "check"}
                                   /\ command[p].file \in Paths
  BY SessionsAssumption
<1>2. ASSUME NEW p \in DOMAIN command, NEW q \in DOMAIN command, Known(p), Known(q)
      PROVE  Data(p) = Data(q)
  <2>1. dataid[Solver(p)] = dataid[Solver(q)]
    BY <1>2, SessionsAssumption DEF Known, Solver
  <2> QED BY <2>1 DEF Data
<1> QED BY <1>1, <1>2

(* The processes of a session that know the size of their data agree on    *)
(* it.                                                                     *)
LEMMA SameSize ==
  ASSUME Types, NEW p \in DOMAIN command, NEW q \in DOMAIN command, Sized(p), Sized(q)
  PROVE  size[p] = size[q]
<1>1. Data(p) = Data(q)
  BY SessionParts DEF Types, Sized
<1> QED BY <1>1 DEF Sized

(* A step of one process leaves alone what is said of another.             *)
SameProc(q) ==
  /\ pc'[q] = pc[q] /\ path'[q] = path[q] /\ size'[q] = size[q] /\ pos'[q] = pos[q]
  /\ buf'[q] = buf[q] /\ mixed'[q] = mixed[q] /\ found'[q] = found[q]

(* What is said of a process stays when another one steps.                 *)
LEMMA OtherProc ==
  ASSUME IInv, NEW p \in DOMAIN command, NEW q \in DOMAIN command, p # q, SameProc(q),
         command' = command, DOMAIN file \subseteq DOMAIN file',
         \A f \in Paths : opener'[f] = opener[f] \/ opener'[f] = {p}
  PROVE  ProcOK(q)'
<1>1. ProcOK(q) /\ path[q] \in Paths
  BY SessionParts DEF IInv, Types
<1>2. pc'[q] \in Busy => Sized(q)'
  BY <1>1 DEF ProcOK, SameProc, Sized, Known, Data, Solver
<1>3. Writer(q)'
  BY <1>1 DEF ProcOK, SameProc, Writer
<1>4. Reader(q)'
  BY <1>1 DEF ProcOK, SameProc, Reader
<1>5. FoundNone(q)'
  BY <1>1 DEF ProcOK, SameProc, FoundNone
<1> QED BY <1>1, <1>2, <1>3, <1>4, <1>5 DEF ProcOK, SameProc

(* A step of one process that touches no file: what is said of the files   *)
(* stays, if the process does not begin to write.                          *)
LEMMA FilesStay ==
  ASSUME IInv, NEW p \in DOMAIN command,
         \A q \in DOMAIN command : q # p => SameProc(q),
         command' = command, file' = file, opener' = opener, overlap' = overlap,
         complete' = complete,
         \A f \in Paths : Writing(p, f)' => Writing(p, f) /\ pos'[p] = pos[p],
         size'[p] = size[p] \/ pc[p] = "start", pc'[p] # "start"
  PROVE  \A f \in Paths : FileOK(f)'
<1> SUFFICES ASSUME NEW f \in Paths PROVE FileOK(f)'
  OBVIOUS
<1>1. FileOK(f)
  BY DEF IInv
<1>2. ASSUME NEW q \in DOMAIN command, Writing(q, f)'
      PROVE  Writing(q, f) /\ pos'[q] = pos[q]
  BY <1>2 DEF SameProc, Writing
<1>3. overlap'[f] \/ Alone(f)'
  BY <1>1, <1>2 DEF FileOK, Alone
<1>4. ASSUME NEW q \in DOMAIN command, opener[f] = {q}
      PROVE  OpenedBy(f, q)'
  <2>1. OpenedBy(f, q)
    BY <1>1, <1>4 DEF FileOK
  <2>2. pc'[q] # "start" /\ size'[q] = size[q]
    BY <2>1 DEF OpenedBy, SameProc
  <2>3. Sized(q)'
    BY <2>1, <2>2 DEF OpenedBy, Sized, Known, Data, Solver
  <2> QED BY <1>2, <2>1, <2>2, <2>3 DEF OpenedBy
<1> QED BY <1>1, <1>3, <1>4 DEF FileOK

(* The types of what a process of the session has.                         *)
LEMMA ProcTypes ==
  ASSUME IInv, NEW p \in DOMAIN command
  PROVE  /\ p \in Procs /\ pc[p] \in Labels /\ path[p] \in Paths /\ size[p] \in Nat
         /\ pos[p] \in Nat /\ buf[p] \in Seq(Nat) /\ found[p] \subseteq Paths
         /\ mixed[p] \in BOOLEAN
  BY SessionParts DEF IInv, Types

(* A process that empties no file has emptied one only if it has begun.    *)
LEMMA NotYet ==
  ASSUME IInv, NEW p \in DOMAIN command, pc[p] = "start", NEW f \in Paths
  PROVE  opener[f] # {p}
  BY DEF IInv, FileOK, OpenedBy

-----------------------------------------------------------------------------
(* A process with no file open has the current directory for its path.     *)
LEMMA HereIsAPath == "" \in Paths
<1>1. tablepaths[2] = ""
  BY DEF tablepaths
<1>2. 2 \in DOMAIN tablepaths
  BY DEF tablepaths
<1> QED BY <1>1, <1>2 DEF Paths

(* A process ends, for one reason or another, or has written its table and *)
(* looks for it again.                                                     *)
LEMMA StopStep ==
  ASSUME IInv, NEW p \in DOMAIN command, NEW l, NEW r, Stop(p, l, r),
         \/ l \in {"end", "crashed", "killed", "undefined"}
         \/ l = "look_again" /\ pc[p] = "write",
         UNCHANGED <<command, writable, size, file, opener, complete, overlap, mixed>>,
         faults' \in 0 .. MaxFaults,
         \/ found' = found
         \/ pc[p] = "start" /\ found' = [found EXCEPT ![p] = DOMAIN file]
  PROVE  IInv'
<1>1. /\ p \in Procs /\ pc[p] \in Labels /\ ProcOK(p) /\ Types
  BY ProcTypes DEF IInv
<1>2. /\ pc' = [pc EXCEPT ![p] = l] /\ path' = [path EXCEPT ![p] = ""]
      /\ buf' = [buf EXCEPT ![p] = <<>>] /\ pos' = [pos EXCEPT ![p] = 0]
      /\ l \in Labels
  BY DEF Stop, Labels
<1>3. Types'
  <2>1. "" \in Paths /\ <<>> \in Seq(Nat)
    <3>1. <<>> \in Seq(Nat)
      OBVIOUS
    <3> QED BY <3>1, HereIsAPath
  <2>2. pc' \in [Procs -> Labels] /\ path' \in [Procs -> Paths]
        /\ buf' \in [Procs -> Seq(Nat)] /\ pos' \in [Procs -> Nat]
    BY <1>1, <1>2, <2>1 DEF Types
  <2>3. found' \in [Procs -> SUBSET Paths]
    BY <1>1 DEF Types
  <2> QED BY <1>1, <2>2, <2>3 DEF Types
<1>4. ASSUME NEW q \in DOMAIN command, q # p PROVE SameProc(q)
  BY <1>1, <1>2, <1>4, ProcTypes DEF SameProc, Types
<1>5. pc'[p] = l /\ path'[p] = "" /\ buf'[p] = <<>> /\ pos'[p] = 0
  BY <1>1, <1>2 DEF Types
<1>6. ProcOK(p)'
  <2>1. pc'[p] \in Busy => Sized(p)'
    BY <1>1, <1>5 DEF ProcOK, Busy, Sized, Known, Data, Solver
  <2>2. Writer(p)' /\ Reader(p)'
    <3>1. pc'[p] \notin {"generate", "write", "read"}
      BY <1>5
    <3>2. pos'[p] = 0 /\ buf'[p] = <<>> /\ size'[p] \in Nat
      BY <1>5, ProcTypes
    <3>3. Writer(p)'
      BY <3>1, <3>2 DEF Writer
    <3>4. Len(buf'[p]) <= size'[p] /\ \A i \in 1 .. Len(buf'[p]) : FALSE
      BY <3>2
    <3> QED BY <3>1, <3>2, <3>3, <3>4 DEF Reader
  <2>3. FoundNone(p)'
    <3>1. \/ found'[p] = found[p]
          \/ pc[p] = "start" /\ found'[p] = DOMAIN file
      BY <1>1 DEF Types
    <3>2. pc'[p] \notin {"open", "generate", "write"}
      BY <1>5
    <3> QED BY <1>1, <3>1, <3>2, NotYet DEF ProcOK, FoundNone
  <2>4. pc'[p] # "start"
    BY <1>5
  <2> QED BY <2>1, <2>2, <2>3, <2>4 DEF ProcOK
<1>7. ASSUME NEW q \in DOMAIN command PROVE ProcOK(q)'
  BY <1>4, <1>6, OtherProc
<1>8. \A f \in Paths : FileOK(f)'
  <2>1. \A f \in Paths : ~Writing(p, f)'
    BY <1>5 DEF Writing
  <2> QED BY <1>4, <1>5, <2>1, FilesStay
<1> QED BY <1>3, <1>7, <1>8 DEF IInv

(* The steps that only move on: to look for a file, to open one or to read *)
(* from it, to generate or to write.                                       *)
LEMMA MoveStep ==
  ASSUME IInv, NEW p \in DOMAIN command, NEW l, Goto(p, l),
         UNCHANGED <<command, writable, faults, file, opener, complete, overlap, mixed>>,
         \/ /\ pc[p] = "start" /\ l \in {"look", "open"} /\ path' = path
            /\ Known(p) /\ Len(Data(p)) \in Nat
            /\ size' = [size EXCEPT ![p] = Len(Data(p))]
            /\ found' = [found EXCEPT ![p] = DOMAIN file]
            /\ l = "open" => command[p].cmd # "solve"
         \/ /\ pc[p] \in {"look", "look_again"} /\ l = "open" /\ DOMAIN file = {}
            /\ UNCHANGED <<path, size, found>>
         \/ /\ pc[p] \in {"look", "look_again"} /\ l = "read"
            /\ \E f \in DOMAIN file : path' = [path EXCEPT ![p] = f]
            /\ UNCHANGED <<size, found>>
         \/ /\ pc[p] = "generate" /\ l = "write"
            /\ UNCHANGED <<path, size, found>>
  PROVE  IInv'
<1>1. /\ p \in Procs /\ pc[p] \in Labels /\ ProcOK(p) /\ Types
  BY ProcTypes DEF IInv
<1>2. pc' = [pc EXCEPT ![p] = l] /\ buf' = buf /\ pos' = pos
      /\ l \in {"look", "open", "read", "write"} /\ l \in Labels /\ pc'[p] = l
  <2>1. l \in {"look", "open", "read", "write"}
    OBVIOUS
  <2> QED BY <1>1, <2>1 DEF Goto, Labels, Types
<1>3. Types'
  <2>1. pc' \in [Procs -> Labels] /\ path' \in [Procs -> Paths] /\ size' \in [Procs -> Nat]
    <3>1. path' = path \/ \E f \in Paths : path' = [path EXCEPT ![p] = f]
      BY <1>1 DEF Types
    <3>2. size' = size \/ (size' = [size EXCEPT ![p] = Len(Data(p))] /\ Len(Data(p)) \in Nat)
      OBVIOUS
    <3>3. path' \in [Procs -> Paths]
      BY <1>1, <3>1 DEF Types
    <3>4. size' \in [Procs -> Nat]
      BY <1>1, <3>2 DEF Types
    <3> QED BY <1>1, <1>2, <3>3, <3>4 DEF Types
  <2>2. found' \in [Procs -> SUBSET Paths]
    BY <1>1 DEF Types
  <2> QED BY <1>1, <1>2, <2>1, <2>2 DEF Types
<1>4. ASSUME NEW q \in DOMAIN command, q # p PROVE SameProc(q)
  BY <1>1, <1>2, <1>4, ProcTypes DEF SameProc, Types
<1>5. ProcOK(p)'
  <2>1. Sized(p)'
    <3>1. CASE pc[p] = "start"
      BY <1>1, <3>1 DEF Sized, Known, Data, Solver, Types
    <3>2. CASE pc[p] # "start"
      BY <1>1, <3>2 DEF ProcOK, Busy, Sized, Known, Data, Solver
    <3> QED BY <3>1, <3>2
  <2>2. Writer(p)'
    <3>1. pos[p] = 0
      BY <1>1 DEF ProcOK, Writer
    <3>2. l = "write" => path' = path /\ path[p] \in DOMAIN file /\ opener[path[p]] # {}
      <4>1. l = "write" => path' = path /\ pc[p] = "generate"
        OBVIOUS
      <4> QED BY <1>1, <4>1 DEF ProcOK, Writer
    <3>3. size'[p] \in Nat
      BY <1>1, <1>3 DEF Types
    <3>4. pos'[p] = 0 /\ pc'[p] # "generate"
      BY <1>2, <3>1
    <3>5. pos'[p] <= size'[p]
      BY <3>3, <3>4
    <3> QED BY <1>2, <3>2, <3>4, <3>5 DEF Writer
  <2>3. Reader(p)'
    <3>1. buf[p] = <<>>
      BY <1>1 DEF ProcOK, Reader
    <3>2. size'[p] \in Nat
      BY <1>1, <1>3 DEF Types
    <3>3. l = "read" => path'[p] \in DOMAIN file
      BY <1>1 DEF Types
    <3>4. buf'[p] = <<>>
      BY <1>2, <3>1
    <3>5. Len(buf'[p]) <= size'[p] /\ \A i \in 1 .. Len(buf'[p]) : FALSE
      BY <3>2, <3>4
    <3> QED BY <3>3, <3>4, <3>5, <1>2 DEF Reader
  <2>4. FoundNone(p)'
    <3>1. CASE pc[p] = "start"
      <4>1. found'[p] = DOMAIN file
        BY <1>1, <3>1 DEF Types
      <4> QED BY <1>2, <3>1, <4>1, NotYet DEF FoundNone
    <3>2. CASE pc[p] # "start"
      <4>1. found' = found /\ FoundNone(p)
        BY <1>1, <3>2 DEF ProcOK
      <4>2. l = "open" => found[p] = {}
        BY <3>2, <4>1 DEF FoundNone
      <4> QED BY <1>1, <1>2, <4>1, <4>2 DEF FoundNone
    <3> QED BY <3>1, <3>2
  <2> QED BY <1>2, <2>1, <2>2, <2>3, <2>4 DEF ProcOK
<1>6. ASSUME NEW q \in DOMAIN command PROVE ProcOK(q)'
  BY <1>4, <1>5, OtherProc
<1>7. \A g \in Paths : FileOK(g)'
  <2>1. \A g \in Paths : Writing(p, g)' => Writing(p, g) /\ pos'[p] = pos[p]
    BY <1>2 DEF Writing
  <2>2. size'[p] = size[p] \/ pc[p] = "start"
    OBVIOUS
  <2> QED BY <1>2, <1>4, <2>1, <2>2, FilesStay
<1> QED BY <1>3, <1>6, <1>7 DEF IInv

-----------------------------------------------------------------------------
(* What a whole table is.                                                  *)
LEMMA InARow ==
  ASSUME NEW t \in Seq(Nat), NEW n \in Nat, Len(t) = n, \A i \in 1 .. n : t[i] = i
  PROVE  t = [i \in 1 .. n |-> i]
OBVIOUS

(* A block is written where it belongs, after zeros if the file is short.  *)
Wrote(t, content, off, block) ==
  /\ t \in Seq(Nat)
  /\ Len(t) = IF off < Len(content) THEN Len(content) ELSE off + 1
  /\ t[off + 1] = block
  /\ \A i \in 1 .. Len(content) : i # off + 1 => t[i] = content[i]
  /\ \A i \in Len(content) + 1 .. off : t[i] = 0

(* What WriteAt does to a file: the block is at its place, what was there  *)
(* stays, and zeros fill what was missing.                                 *)
LEMMA BlockWritten ==
  \A content \in Seq(Nat) : \A off, block \in Nat :
    Wrote(WriteAt(content, off, block), content, off, block)
<1> SUFFICES ASSUME NEW content \in Seq(Nat), NEW off \in Nat, NEW block \in Nat
             PROVE  Wrote(WriteAt(content, off, block), content, off, block)
  OBVIOUS
<1>1. CASE off < Len(content)
  <2>1. WriteAt(content, off, block) = [content EXCEPT ![off + 1] = block]
    BY <1>1 DEF WriteAt
  <2> QED BY <1>1, <2>1 DEF Wrote
<1>2. CASE ~(off < Len(content))
  <2> DEFINE zeros == [i \in 1 .. off - Len(content) |-> 0]
  <2>1. zeros \in Seq(Nat) /\ Len(zeros) = off - Len(content)
        /\ \A i \in 1 .. Len(zeros) : zeros[i] = 0
    BY <1>2
  <2> DEFINE before == content \o zeros
  <2>2. WriteAt(content, off, block) = before \o <<block>>
    BY <1>2 DEF WriteAt
  <2> HIDE DEF zeros
  <2>3. before \in Seq(Nat) /\ Len(before) = off
    BY <1>2, <2>1
  <2>4. \A i \in 1 .. Len(content) : before[i] = content[i]
    BY <2>1
  <2>5. ASSUME NEW i \in Len(content) + 1 .. off PROVE before[i] = 0
    <3>1. i - Len(content) \in 1 .. Len(zeros)
      BY <1>2, <2>1
    <3>2. before[i] = zeros[i - Len(content)]
      BY <1>2, <2>1, <3>1
    <3> QED BY <2>1, <3>1, <3>2
  <2> HIDE DEF before
  <2>6. /\ before \o <<block>> \in Seq(Nat) /\ Len(before \o <<block>>) = off + 1
        /\ (before \o <<block>>)[off + 1] = block
        /\ \A i \in 1 .. off : (before \o <<block>>)[i] = before[i]
    BY <2>3
  <2>7. Len(content) <= off
    BY <1>2
  <2> QED BY <1>2, <2>2, <2>4, <2>5, <2>6, <2>7 DEF Wrote
<1> QED BY <1>1, <1>2

(* What a write does to a file: every block stays or becomes right.        *)
LEMMA WriteFacts ==
  ASSUME IInv, NEW p \in DOMAIN command, pc[p] = "write", pos[p] < size[p],
         WriteNext(p), NEW f, f = path[p]
  PROVE  /\ f \in Paths /\ f \in DOMAIN file /\ file' = [file EXCEPT ![f] = file'[f]]
         /\ DOMAIN file' = DOMAIN file /\ file'[f] \in Seq(Nat)
         /\ Len(file[f]) <= Len(file'[f]) /\ pos[p] + 1 <= Len(file'[f])
         /\ \A i \in 1 .. Len(file'[f]) : file'[f][i] \in {0, i}
         /\ file'[f][pos[p] + 1] = pos[p] + 1
         /\ \A i \in 1 .. Len(file[f]) : file[f][i] = i => file'[f][i] = i
         /\ pos[p] = Len(file[f]) => Len(file'[f]) = pos[p] + 1
         /\ pos[p] <= Len(file[f]) /\ (\A i \in 1 .. Len(file[f]) : file[f][i] = i) =>
              \A i \in 1 .. Len(file'[f]) : file'[f][i] = i
         /\ \A q \in DOMAIN command : opener[f] = {q} => Len(file'[f]) <= size[q]
<1>1. /\ Types /\ ProcOK(p) /\ p \in Procs /\ pos[p] \in Nat /\ size[p] \in Nat
      /\ path[p] \in Paths
  BY ProcTypes DEF IInv
<1>2. /\ f \in Paths /\ f \in DOMAIN file /\ file[f] \in Seq(Nat)
  BY <1>1 DEF ProcOK, Writer, Types
<1>3. file' = [file EXCEPT ![f] = WriteAt(file[f], pos[p], pos[p] + 1)]
  BY DEF WriteNext
<1>4. file'[f] = WriteAt(file[f], pos[p], pos[p] + 1) /\ DOMAIN file' = DOMAIN file
  BY <1>1, <1>2, <1>3 DEF Types
<1> DEFINE old == file[f]
           new == file'[f]
<1>5. /\ new \in Seq(Nat)
      /\ Len(new) = IF pos[p] < Len(old) THEN Len(old) ELSE pos[p] + 1
      /\ new[pos[p] + 1] = pos[p] + 1
      /\ \A i \in 1 .. Len(old) : i # pos[p] + 1 => new[i] = old[i]
      /\ \A i \in Len(old) + 1 .. pos[p] : new[i] = 0
  <2>1. pos[p] + 1 \in Nat /\ pos[p] \in Nat /\ old \in Seq(Nat)
    BY <1>1, <1>2
  <2>2. new = WriteAt(old, pos[p], pos[p] + 1)
    BY <1>4
  <2> HIDE DEF new, old
  <2>3. Wrote(new, old, pos[p], pos[p] + 1)
    BY <2>1, <2>2, BlockWritten, Zenon
  <2> QED BY <2>3 DEF Wrote
<1>6. \A i \in 1 .. Len(old) : old[i] \in {0, i}
  BY <1>2 DEF IInv, FileOK
<1>7. old \in Seq(Nat) /\ Len(old) \in Nat
  BY <1>2
<1>8. ASSUME NEW q \in DOMAIN command, opener[f] = {q} PROVE Len(new) <= size[q]
  <2>1. OpenedBy(f, q)
    BY <1>2, <1>8 DEF IInv, FileOK
  <2>2. size[q] = size[p]
    BY <1>1, <2>1, SameSize DEF ProcOK, Busy, OpenedBy
  <2>3. Len(old) <= size[p]
    BY <2>1, <2>2 DEF OpenedBy
  <2> QED BY <1>1, <1>5, <1>7, <2>2, <2>3
<1> HIDE DEF old, new
<1>9. /\ Len(old) <= Len(new) /\ pos[p] + 1 <= Len(new)
      /\ pos[p] = Len(old) => Len(new) = pos[p] + 1
      /\ pos[p] <= Len(old) => Len(new) <= Len(old) \/ Len(new) = pos[p] + 1
  BY <1>1, <1>5, <1>7
<1>10. ASSUME NEW i \in 1 .. Len(new)
       PROVE  /\ new[i] \in {0, i}
              /\ i <= Len(old) /\ old[i] = i => new[i] = i
              /\ pos[p] <= Len(old) /\ (\A j \in 1 .. Len(old) : old[j] = j) => new[i] = i
  <2>1. CASE i = pos[p] + 1
    BY <1>5, <2>1
  <2>2. CASE i # pos[p] + 1 /\ i <= Len(old)
    <3>1. i \in 1 .. Len(old)
      BY <1>7, <2>2
    <3> QED BY <1>5, <1>6, <2>2, <3>1 DEF old
  <2>3. CASE i # pos[p] + 1 /\ ~(i <= Len(old))
    <3>1. i \in Len(old) + 1 .. pos[p] /\ Len(old) < pos[p]
      BY <1>1, <1>5, <1>7, <2>3
    <3> QED BY <1>1, <1>5, <1>7, <2>3, <3>1
  <2> QED BY <2>1, <2>2, <2>3
<1>11. file' = [file EXCEPT ![f] = new]
  BY <1>3, <1>4 DEF new
<1> QED BY <1>2, <1>4, <1>5, <1>8, <1>9, <1>10, <1>11 DEF old, new

(* What is said of a file after a write to it, by a process that goes on   *)
(* writing at the next place or stops.                                     *)
LEMMA FilesAfterWrite ==
  ASSUME IInv, NEW p \in DOMAIN command, pc[p] = "write", pos[p] < size[p],
         WriteNext(p),
         \A q \in DOMAIN command : q # p => SameProc(q),
         command' = command, opener' = opener, overlap' = overlap, size' = size,
         \/ Writing(p, path[p])' /\ pos'[p] = pos[p] + 1
         \/ pc'[p] \notin {"generate", "write"},
         pc'[p] # "start", \A f \in Paths : Writing(p, f)' => f = path[p],
         \A f \in Paths :
           complete'[f] => \/ complete[f]
                           \/ f = path[p] /\ opener[f] = {p} /\ pos[p] = size[p] - 1
  PROVE  \A f \in Paths : FileOK(f)'
<1>1. /\ Types /\ ProcOK(p) /\ p \in Procs /\ pos[p] \in Nat /\ size[p] \in Nat
      /\ path[p] \in Paths /\ Writing(p, path[p])
  BY ProcTypes DEF IInv, Writing
<1> SUFFICES ASSUME NEW f \in Paths PROVE FileOK(f)'
  OBVIOUS
<1>2. FileOK(f)
  BY DEF IInv
<1>3. CASE f # path[p]
  <2>1. /\ f \in DOMAIN file' <=> f \in DOMAIN file
        /\ f \in DOMAIN file => file'[f] = file[f]
    <3>1. file' = [file EXCEPT ![path[p]] = file'[path[p]]] /\ DOMAIN file' = DOMAIN file
      BY WriteFacts
    <3> QED BY <1>1, <1>3, <3>1 DEF Types
  <2>2. ASSUME NEW q \in DOMAIN command, Writing(q, f)'
        PROVE  Writing(q, f) /\ pos'[q] = pos[q] /\ f \in DOMAIN file
    <3>1. Writing(q, f) /\ pos'[q] = pos[q]
      BY <1>3, <2>2 DEF SameProc, Writing
    <3> QED BY <3>1 DEF IInv, ProcOK, Writer, Writing
  <2>3. overlap'[f] \/ Alone(f)'
    BY <1>2, <2>1, <2>2 DEF FileOK, Alone
  <2>4. ASSUME NEW q \in DOMAIN command, opener[f] = {q}
        PROVE  OpenedBy(f, q)'
    <3>1. OpenedBy(f, q)
      BY <1>2, <2>4 DEF FileOK
    <3>2. pc'[q] # "start" /\ Sized(q)'
      BY <3>1 DEF OpenedBy, SameProc, Sized, Known, Data, Solver
    <3> QED BY <1>3, <2>1, <2>2, <3>1, <3>2 DEF OpenedBy
  <2> QED BY <1>2, <2>1, <2>3, <2>4 DEF FileOK
<1>4. CASE f = path[p]
  <2> DEFINE new == file'[f]
  <2>1. /\ f \in DOMAIN file /\ f \in DOMAIN file' /\ new \in Seq(Nat)
        /\ Len(file[f]) <= Len(new) /\ pos[p] + 1 <= Len(new)
        /\ \A i \in 1 .. Len(new) : new[i] \in {0, i}
        /\ new[pos[p] + 1] = pos[p] + 1
        /\ \A i \in 1 .. Len(file[f]) : file[f][i] = i => new[i] = i
        /\ pos[p] = Len(file[f]) => Len(new) = pos[p] + 1
        /\ pos[p] <= Len(file[f]) /\ (\A i \in 1 .. Len(file[f]) : file[f][i] = i) =>
             \A i \in 1 .. Len(new) : new[i] = i
        /\ \A q \in DOMAIN command : opener[f] = {q} => Len(new) <= size[q]
    BY <1>4, WriteFacts
  <2>2. file[f] \in Seq(Nat) /\ Len(file[f]) \in Nat
    BY <1>1, <2>1 DEF Types
  <2>3. ASSUME NEW q \in DOMAIN command, q # p, Writing(q, f)'
        PROVE  Writing(q, f) /\ pos'[q] = pos[q]
    BY <2>3 DEF SameProc, Writing
  <2> HIDE DEF new
  <2>4. ASSUME ~overlap[f] PROVE Alone(f)'
    <3>1. Alone(f)
      BY <1>2, <2>4 DEF FileOK
    <3>2. pos[p] = Len(file[f]) /\ \A q \in DOMAIN command : Writing(q, f) => q = p
      BY <1>1, <1>4, <3>1 DEF Alone
    <3>3. Len(new) = pos[p] + 1 /\ \A i \in 1 .. Len(new) : new[i] = i
      <4>1. \A i \in 1 .. Len(file[f]) : file[f][i] = i
        BY <2>1, <3>1 DEF Alone
      <4>2. pos[p] <= Len(file[f])
        BY <2>2, <3>2
      <4> QED BY <2>1, <3>2, <4>1, <4>2
    <3>4. \A q \in DOMAIN command : Writing(q, f)' => q = p
      BY <2>3, <3>2
    <3>5. Writing(p, f)' => pos'[p] = pos[p] + 1
      BY <1>4 DEF Writing
    <3> QED BY <2>1, <3>3, <3>4, <3>5 DEF Alone, new
  <2>5. ASSUME NEW q \in DOMAIN command, opener[f] = {q}
        PROVE  OpenedBy(f, q)'
    <3>1. OpenedBy(f, q)
      BY <1>2, <2>5 DEF FileOK
    <3>2. pc'[q] # "start" /\ Sized(q)' /\ size'[q] = size[q] /\ Len(new) <= size[q]
      BY <2>1, <2>5, <3>1 DEF OpenedBy, SameProc, Sized, Known, Data, Solver
    <3>3. ASSUME Writing(q, f)'
          PROVE  pos'[q] <= Len(new) /\ \A i \in 1 .. pos'[q] : new[i] = i
      <4>1. CASE q = p
        <5>1. pos'[p] = pos[p] + 1
          BY <1>4, <3>3, <4>1 DEF Writing
        <5>2. pos[p] <= Len(file[f]) /\ \A i \in 1 .. pos[p] : file[f][i] = i
          BY <1>1, <1>4, <3>1, <4>1 DEF OpenedBy
        <5>3. \A i \in 1 .. pos[p] : i \in 1 .. Len(file[f])
          BY <1>1, <2>2, <5>2
        <5>4. ASSUME NEW i \in 1 .. pos[p] + 1 PROVE new[i] = i
          <6>1. i \in 1 .. pos[p] \/ i = pos[p] + 1
            BY <1>1
          <6> QED BY <2>1, <5>2, <5>3, <6>1
        <5> QED BY <2>1, <4>1, <5>1, <5>4
      <4>2. CASE q # p
        <5>1. Writing(q, f) /\ pos'[q] = pos[q] /\ pos[q] \in Nat
          BY <2>3, <3>3, <4>2, ProcTypes
        <5>2. pos[q] <= Len(file[f]) /\ \A i \in 1 .. pos[q] : file[f][i] = i
          BY <3>1, <5>1 DEF OpenedBy
        <5>3. pos[q] <= Len(new)
          BY <2>1, <2>2, <5>1, <5>2, Len(new) \in Nat
        <5> QED BY <2>1, <2>2, <5>1, <5>2, <5>3
      <4> QED BY <4>1, <4>2
    <3>4. ASSUME complete'[f] PROVE new = [i \in 1 .. size[q] |-> i]
      <4>1. size[q] \in Nat
        BY ProcTypes
      <4>2. CASE complete[f]
        <5>1. Len(file[f]) = size[q] /\ \A i \in 1 .. size[q] : file[f][i] = i
          BY <3>1, <4>1, <4>2 DEF OpenedBy
        <5>2. Len(new) = size[q] /\ \A i \in 1 .. size[q] : new[i] = i
          BY <2>1, <2>2, <3>2, <4>1, <5>1, Len(new) \in Nat
        <5> QED BY <2>1, <4>1, <5>2, InARow, Zenon
      <4>3. CASE ~complete[f]
        <5>1. q = p /\ pos[p] = size[p] - 1
          <6>1. opener[f] = {p} /\ pos[p] = size[p] - 1
            BY <3>4, <4>3
          <6> QED BY <2>5, <6>1
        <5>2. pos[p] <= Len(file[f]) /\ \A i \in 1 .. pos[p] : file[f][i] = i
          BY <1>1, <1>4, <3>1, <5>1 DEF OpenedBy
        <5>3. \A i \in 1 .. pos[p] : i \in 1 .. Len(file[f])
          BY <1>1, <2>2, <5>2
        <5>4. ASSUME NEW i \in 1 .. size[p] PROVE new[i] = i
          <6>1. i \in 1 .. pos[p] \/ i = pos[p] + 1
            BY <1>1, <5>1
          <6> QED BY <2>1, <5>2, <5>3, <6>1
        <5>5. Len(new) = size[p]
          <6>1. Len(new) \in Nat /\ Len(new) <= size[p] /\ pos[p] + 1 <= Len(new)
            BY <2>1, <3>2, <5>1
          <6> QED BY <1>1, <5>1, <6>1
        <5> QED BY <1>1, <2>1, <5>1, <5>4, <5>5
      <4> QED BY <4>2, <4>3
    <3> QED BY <2>1, <3>2, <3>3, <3>4 DEF OpenedBy, new
  <2> QED BY <1>2, <2>1, <2>4, <2>5 DEF FileOK, new
<1> QED BY <1>3, <1>4

(* A writer's file is there and its size is a number.                      *)
LEMMA WriteStep ==
  ASSUME IInv, NEW p \in DOMAIN command, Write(p)
  PROVE  IInv'
<1>1. /\ Types /\ ProcOK(p) /\ p \in Procs /\ pos[p] \in Nat /\ size[p] \in Nat
      /\ pc[p] = "write" /\ pos[p] < size[p] - 1 /\ pos[p] < size[p] /\ path[p] \in Paths
      /\ pos' = [pos EXCEPT ![p] = @ + 1] /\ pos'[p] = pos[p] + 1
  BY ProcTypes DEF IInv, Write, Types
<1>2. /\ UNCHANGED <<command, writable, size, pc, path, ret, buf, faults>>
      /\ UNCHANGED <<found, opener, complete, overlap, mixed>>
  BY DEF Write, fixed, aux
<1>3. /\ DOMAIN file' = DOMAIN file /\ file' = [file EXCEPT ![path[p]] = file'[path[p]]]
      /\ file'[path[p]] \in Seq(Nat)
  BY <1>1, WriteFacts DEF Write
<1>4. Types'
  <2>1. file' \in [DOMAIN file' -> Seq(Nat)] /\ DOMAIN file' \subseteq Paths
    BY <1>1, <1>3 DEF Types
  <2>2. pos' \in [Procs -> Nat]
    BY <1>1 DEF Types
  <2> QED BY <1>1, <1>2, <2>1, <2>2 DEF Types
<1>5. ASSUME NEW q \in DOMAIN command, q # p PROVE SameProc(q)
  BY <1>1, <1>2, <1>5, ProcTypes DEF SameProc, Types
<1>6. ProcOK(p)'
  <2>1. Sized(p)'
    BY <1>1, <1>2 DEF ProcOK, Busy, Sized, Known, Data, Solver
  <2>2. pos'[p] <= size'[p]
    BY <1>1, <1>2
  <2>3. Writer(p)'
    BY <1>1, <1>2, <1>3, <2>2 DEF ProcOK, Writer
  <2>4. Reader(p)' /\ FoundNone(p)'
    BY <1>1, <1>2, <1>3 DEF ProcOK, Reader, FoundNone
  <2> QED BY <1>1, <1>2, <2>1, <2>3, <2>4 DEF ProcOK
<1>7. ASSUME NEW q \in DOMAIN command PROVE ProcOK(q)'
  BY <1>2, <1>3, <1>5, <1>6, OtherProc
<1>8. \A f \in Paths : FileOK(f)'
  <2>1. Writing(p, path[p])' /\ pc'[p] # "start" /\ \A f \in Paths : Writing(p, f)' => f = path[p]
    BY <1>1, <1>2 DEF Writing
  <2>2. WriteNext(p)
    BY DEF Write
  <2> QED BY <1>1, <1>2, <1>5, <2>1, <2>2, FilesAfterWrite
<1> QED BY <1>2, <1>4, <1>7, <1>8 DEF IInv

(* fclose writes the last block; the file is complete if nobody emptied it *)
(* since this process did.                                                 *)
LEMMA CloseStep ==
  ASSUME IInv, NEW p \in DOMAIN command, Close(p)
  PROVE  IInv'
<1> DEFINE l == IF command[p].cmd = "solve" THEN "look_again" ELSE "end"
<1>1. /\ Types /\ ProcOK(p) /\ p \in Procs /\ pos[p] \in Nat /\ size[p] \in Nat
      /\ pc[p] = "write" /\ pos[p] = size[p] - 1 /\ pos[p] < size[p] /\ path[p] \in Paths
  BY ProcTypes DEF IInv, Close
<1>2. /\ pc' = [pc EXCEPT ![p] = l] /\ path' = [path EXCEPT ![p] = ""]
      /\ buf' = [buf EXCEPT ![p] = <<>>] /\ pos' = [pos EXCEPT ![p] = 0]
      /\ complete' = [complete EXCEPT ![path[p]] = @ \/ opener[path[p]] = {p}]
      /\ UNCHANGED <<command, writable, size, faults, found, opener, overlap, mixed>>
  BY DEF Close, Written, Stop, fixed
<1>3. l \in {"look_again", "end"} /\ l \in Labels
  BY DEF Labels
<1> HIDE DEF l
<1>4. /\ DOMAIN file' = DOMAIN file /\ file' = [file EXCEPT ![path[p]] = file'[path[p]]]
      /\ file'[path[p]] \in Seq(Nat)
  BY <1>1, WriteFacts DEF Close
<1>5. Types'
  <2>1. file' \in [DOMAIN file' -> Seq(Nat)] /\ DOMAIN file' \subseteq Paths
    BY <1>1, <1>4 DEF Types
  <2>2. pos' \in [Procs -> Nat] /\ pc' \in [Procs -> Labels] /\ path' \in [Procs -> Paths]
    BY <1>1, <1>2, <1>3, HereIsAPath DEF Types
  <2>3. buf' \in [Procs -> Seq(Nat)]
    <3>1. <<>> \in Seq(Nat)
      OBVIOUS
    <3> QED BY <1>1, <1>2, <3>1 DEF Types
  <2>4. complete' \in [Paths -> BOOLEAN]
    <3>1. (complete[path[p]] \/ opener[path[p]] = {p}) \in BOOLEAN
      OBVIOUS
    <3> QED BY <1>1, <1>2, <3>1, Zenon DEF Types
  <2> QED BY <1>1, <1>2, <2>1, <2>2, <2>3, <2>4 DEF Types
<1>6. ASSUME NEW q \in DOMAIN command, q # p PROVE SameProc(q)
  BY <1>1, <1>2, <1>6, ProcTypes DEF SameProc, Types
<1>7. pc'[p] = l /\ path'[p] = "" /\ buf'[p] = <<>> /\ pos'[p] = 0
  BY <1>1, <1>2 DEF Types
<1>8. ProcOK(p)'
  <2>1. Sized(p)'
    BY <1>1, <1>2 DEF ProcOK, Busy, Sized, Known, Data, Solver
  <2>2. pc'[p] \notin {"generate", "write", "read"} /\ size'[p] = size[p]
        /\ buf'[p] = <<>> /\ pos'[p] = 0
    BY <1>2, <1>3, <1>7
  <2>3. pos'[p] <= size'[p] /\ Len(buf'[p]) <= size'[p]
        /\ \A i \in 1 .. Len(buf'[p]) : FALSE
    BY <1>1, <2>2
  <2>4. Writer(p)'
    BY <2>2, <2>3 DEF Writer
  <2>5. Reader(p)'
    BY <2>2, <2>3 DEF Reader
  <2>6. FoundNone(p)'
    BY <1>1, <1>2, <1>3, <1>4, <1>7 DEF ProcOK, FoundNone
  <2>7. pc'[p] # "start"
    BY <1>3, <1>7
  <2> QED BY <2>1, <2>4, <2>5, <2>6, <2>7 DEF ProcOK
<1>9. ASSUME NEW q \in DOMAIN command PROVE ProcOK(q)'
  BY <1>2, <1>4, <1>6, <1>8, OtherProc
<1>10. \A f \in Paths : FileOK(f)'
  <2>1. pc'[p] \notin {"start", "generate", "write"}
    BY <1>3, <1>7
  <2>2. \A f \in Paths : ~Writing(p, f)'
    BY <2>1 DEF Writing
  <2>3. ASSUME NEW f \in Paths, complete'[f]
        PROVE  complete[f] \/ (f = path[p] /\ opener[f] = {p} /\ pos[p] = size[p] - 1)
    BY <1>1, <1>2, <2>3 DEF Types
  <2>4. WriteNext(p)
    BY DEF Close
  <2> QED BY <1>1, <1>2, <1>6, <2>1, <2>2, <2>3, <2>4, FilesAfterWrite
<1> QED BY <1>2, <1>5, <1>9, <1>10 DEF IInv

(* What is read is a block of the file; with one writer, the right one.    *)
LEMMA ReadStep ==
  ASSUME IInv, NEW p \in DOMAIN command, Read(p)
  PROVE  IInv'
<1> DEFINE f == path[p]
           b == file[f][Len(buf[p]) + 1]
<1>1. /\ Types /\ ProcOK(p) /\ p \in Procs /\ size[p] \in Nat /\ f \in Paths
      /\ pc[p] = "read" /\ buf[p] \in Seq(Nat) /\ Len(buf[p]) \in Nat
      /\ Len(buf[p]) < size[p] /\ Len(buf[p]) < Len(file[f])
  BY ProcTypes DEF IInv, Read
<1>2. /\ buf' = [buf EXCEPT ![p] = Append(buf[p], b)]
      /\ mixed' = [mixed EXCEPT ![p] = @ \/ overlap[path[p]]]
      /\ UNCHANGED <<command, writable, size, file, pc, path, pos, faults, found, opener,
                     complete, overlap>>
  BY DEF Read, fixed
<1>3. /\ f \in DOMAIN file /\ file[f] \in Seq(Nat)
      /\ Len(buf[p]) + 1 \in 1 .. Len(file[f])
  BY <1>1 DEF ProcOK, Reader, Types
<1>4. b \in Nat /\ b \in {0, Len(buf[p]) + 1}
  BY <1>1, <1>3 DEF IInv, FileOK
<1>5. overlap[f] \/ b = Len(buf[p]) + 1
  <2>1. overlap[f] \/ Alone(f)
    BY <1>1 DEF IInv, FileOK
  <2> QED BY <1>3, <2>1 DEF Alone
<1> HIDE DEF b, f
<1>6. /\ buf'[p] = Append(buf[p], b) /\ buf'[p] \in Seq(Nat)
      /\ Len(buf'[p]) = Len(buf[p]) + 1 /\ buf'[p][Len(buf[p]) + 1] = b
      /\ \A i \in 1 .. Len(buf[p]) : buf'[p][i] = buf[p][i]
  BY <1>1, <1>2, <1>4 DEF Types
<1>7. mixed'[p] <=> mixed[p] \/ overlap[f]
  BY <1>1, <1>2 DEF Types, f
<1>8. Types'
  <2>1. buf' \in [Procs -> Seq(Nat)]
    BY <1>1, <1>2, <1>6 DEF Types
  <2>2. mixed' \in [Procs -> BOOLEAN]
    <3>1. (mixed[p] \/ overlap[path[p]]) \in BOOLEAN
      OBVIOUS
    <3> QED BY <1>1, <1>2, <3>1, Zenon DEF Types
  <2> QED BY <1>1, <1>2, <2>1, <2>2 DEF Types
<1>9. ASSUME NEW q \in DOMAIN command, q # p PROVE SameProc(q)
  BY <1>1, <1>2, <1>9, ProcTypes DEF SameProc, Types
<1>10. ProcOK(p)'
  <2>1. Sized(p)' /\ Writer(p)' /\ FoundNone(p)'
    BY <1>1, <1>2 DEF ProcOK, Busy, Sized, Known, Data, Solver, Writer, FoundNone
  <2>2. Reader(p)
    BY <1>1 DEF ProcOK
  <2>3. ASSUME NEW i \in 1 .. Len(buf'[p])
        PROVE  buf'[p][i] \in {0, i} /\ (mixed'[p] \/ buf'[p][i] = i)
    <3>1. CASE i \in 1 .. Len(buf[p])
      BY <1>6, <1>7, <2>2, <3>1 DEF Reader
    <3>2. CASE i \notin 1 .. Len(buf[p])
      <4>1. i = Len(buf[p]) + 1
        BY <1>1, <1>6, <3>2
      <4> QED BY <1>4, <1>5, <1>6, <1>7, <4>1
    <3> QED BY <3>1, <3>2
  <2>4. Len(buf'[p]) <= size'[p]
    BY <1>1, <1>2, <1>6
  <2>5. pc'[p] = "read" /\ path'[p] \in DOMAIN file'
    BY <1>1, <1>2, <1>3 DEF f
  <2>6. Reader(p)'
    BY <2>3, <2>4, <2>5 DEF Reader
  <2> QED BY <2>1, <2>5, <2>6 DEF ProcOK
<1>11. ASSUME NEW q \in DOMAIN command PROVE ProcOK(q)'
  BY <1>2, <1>9, <1>10, OtherProc
<1>12. \A g \in Paths : FileOK(g)'
  <2>1. \A g \in Paths : ~Writing(p, g)'
    BY <1>1, <1>2 DEF Writing
  <2> QED BY <1>1, <1>2, <1>9, <2>1, FilesStay
<1> QED BY <1>2, <1>8, <1>11, <1>12 DEF IInv

-----------------------------------------------------------------------------
(* The first directory in which a file can be opened is one of them.       *)
LEMMA FirstInSet ==
  ASSUME NEW S \in SUBSET Paths, S # {}
  PROVE  FirstIn(S) \in S
<1>1. DOMAIN tablepaths = {1, 2}
  BY DEF tablepaths
<1>2. \E i \in DOMAIN tablepaths :
        tablepaths[i] \in S /\ \A j \in 1 .. i-1 : tablepaths[j] \notin S
  <2>1. CASE tablepaths[1] \in S
    BY <1>1, <2>1
  <2>2. CASE tablepaths[1] \notin S
    <3>1. tablepaths[2] \in S
      BY <1>1, <2>2 DEF Paths
    <3>2. \A j \in 1 .. 2-1 : j = 1
      OBVIOUS
    <3> QED BY <1>1, <2>2, <3>1, <3>2
  <2> QED BY <2>1, <2>2
<1> QED BY <1>2 DEF FirstIn

(* A file is emptied: it has one writer unless another was writing to it,  *)
(* and what earlier ones have completed is gone.                           *)
LEMMA OpenStep ==
  ASSUME IInv, NEW p \in DOMAIN command, OpenToWrite(p)
  PROVE  IInv'
<1> DEFINE f == FirstIn(writable)
<1>1. /\ Types /\ ProcOK(p) /\ p \in Procs /\ size[p] \in Nat /\ pc[p] = "open"
      /\ f \in Paths
  BY ProcTypes, FirstInSet DEF IInv, OpenToWrite, Types
<1>2. /\ pc' = [pc EXCEPT ![p] = "generate"] /\ path' = [path EXCEPT ![p] = f]
      /\ file' = [g \in DOMAIN file \cup {f} |-> IF g = f THEN <<>> ELSE file[g]]
      /\ opener' = [opener EXCEPT ![f] = {p}]
      /\ complete' = [complete EXCEPT ![f] = FALSE]
      /\ overlap' = [overlap EXCEPT ![f] = \E q \in DOMAIN command \ {p} : Writing(q, f)]
      /\ UNCHANGED <<command, writable, size, buf, pos, faults, found, mixed>>
  BY DEF OpenToWrite, Goto, fixed
<1> HIDE DEF f
<1>3. DOMAIN file' = DOMAIN file \cup {f} /\ file'[f] = <<>>
      /\ \A g \in DOMAIN file : g # f => file'[g] = file[g]
  BY <1>2
<1>4. Types'
  <2>1. file' \in [DOMAIN file' -> Seq(Nat)] /\ DOMAIN file' \subseteq Paths
    <3>1. <<>> \in Seq(Nat)
      OBVIOUS
    <3>2. \A g \in DOMAIN file' : file'[g] \in Seq(Nat)
      BY <1>1, <1>3, <3>1 DEF Types
    <3> QED BY <1>1, <1>2, <1>3, <3>2 DEF Types
  <2>2. pc' \in [Procs -> Labels] /\ path' \in [Procs -> Paths]
        /\ opener' \in [Paths -> SUBSET Procs]
    BY <1>1, <1>2 DEF Types, Labels
  <2>3. complete' \in [Paths -> BOOLEAN] /\ overlap' \in [Paths -> BOOLEAN]
    <3>1. (\E q \in DOMAIN command \ {p} : Writing(q, f)) \in BOOLEAN /\ FALSE \in BOOLEAN
      OBVIOUS
    <3> QED BY <1>1, <1>2, <3>1, Zenon DEF Types
  <2> QED BY <1>1, <1>2, <2>1, <2>2, <2>3 DEF Types
<1>5. ASSUME NEW q \in DOMAIN command, q # p PROVE SameProc(q)
  BY <1>1, <1>2, <1>5, ProcTypes DEF SameProc, Types
<1>6. pc'[p] = "generate" /\ path'[p] = f /\ size'[p] = size[p] /\ opener'[f] = {p}
      /\ found' = found /\ command' = command
      /\ \A g \in Paths : g # f => opener'[g] = opener[g]
  BY <1>1, <1>2 DEF Types
<1>7. ProcOK(p)'
  <2>1. Sized(p)'
    BY <1>1, <1>6 DEF ProcOK, Busy, Sized, Known, Data, Solver
  <2>2. pos'[p] = 0 /\ buf'[p] = <<>>
    BY <1>1, <1>2 DEF ProcOK, Writer, Reader
  <2>3. pos'[p] <= size'[p] /\ Len(buf'[p]) <= size'[p] /\ \A i \in 1 .. Len(buf'[p]) : FALSE
    BY <1>1, <1>6, <2>2
  <2>4. Writer(p)'
    BY <1>3, <1>6, <2>2, <2>3 DEF Writer
  <2>5. Reader(p)'
    BY <1>6, <2>2, <2>3 DEF Reader
  <2>6. FoundNone(p)'
    <3>1. FoundNone(p)
      BY <1>1 DEF ProcOK
    <3>2. command[p].cmd = "solve" => found[p] = {}
      BY <1>1, <3>1 DEF FoundNone
    <3> QED BY <1>3, <1>6, <3>1, <3>2 DEF FoundNone
  <2> QED BY <1>6, <2>1, <2>4, <2>5, <2>6 DEF ProcOK
<1>8. ASSUME NEW q \in DOMAIN command PROVE ProcOK(q)'
  BY <1>3, <1>5, <1>6, <1>7, OtherProc
<1>9. ASSUME NEW g \in Paths PROVE FileOK(g)'
  <2>1. CASE g = f
    <3>1. g \in DOMAIN file' /\ file'[g] = <<>> /\ opener'[g] = {p} /\ ~complete'[g]
      BY <1>1, <1>2, <1>3, <1>6, <2>1 DEF Types
    <3>2. Len(file'[g]) = 0 /\ \A i \in 1 .. Len(file'[g]) : FALSE
      BY <3>1
    <3>3. pos'[p] = 0
      BY <1>1, <1>2 DEF ProcOK, Writer
    <3>4. ASSUME ~overlap'[g] PROVE Alone(g)'
      <4>1. ~ \E q \in DOMAIN command \ {p} : Writing(q, g)
        BY <1>1, <1>2, <2>1, <3>4 DEF Types
      <4>2. ASSUME NEW q \in DOMAIN command, Writing(q, g)' PROVE q = p
        BY <1>5, <4>1, <4>2 DEF Writing, SameProc
      <4> QED BY <1>6, <3>2, <3>3, <4>2 DEF Alone
    <3>5. OpenedBy(g, p)'
      <4>1. Sized(p)'
        BY <1>1, <1>6 DEF ProcOK, Busy, Sized, Known, Data, Solver
      <4>2. Len(file'[g]) <= size'[p] /\ pos'[p] <= Len(file'[g])
            /\ \A i \in 1 .. pos'[p] : FALSE
        BY <1>1, <1>6, <3>2, <3>3
      <4>3. pc'[p] # "start"
        BY <1>6
      <4> QED BY <3>1, <4>1, <4>2, <4>3 DEF OpenedBy
    <3>6. \A q \in DOMAIN command : opener'[g] = {q} => q = p
      BY <3>1
    <3> QED BY <1>6, <3>1, <3>2, <3>4, <3>5, <3>6 DEF FileOK
  <2>2. CASE g # f
    <3>1. FileOK(g)
      BY DEF IInv
    <3>2. /\ g \in DOMAIN file' <=> g \in DOMAIN file
          /\ g \in DOMAIN file => file'[g] = file[g]
          /\ opener'[g] = opener[g] /\ (complete'[g] <=> complete[g])
          /\ (overlap'[g] <=> overlap[g])
      BY <1>1, <1>2, <1>3, <1>6, <2>2 DEF Types
    <3>3. ASSUME NEW q \in DOMAIN command, Writing(q, g)'
          PROVE  Writing(q, g) /\ pos'[q] = pos[q] /\ g \in DOMAIN file
      <4>1. Writing(q, g) /\ pos'[q] = pos[q]
        BY <1>5, <1>6, <2>2, <3>3 DEF SameProc, Writing
      <4> QED BY <4>1 DEF IInv, ProcOK, Writer, Writing
    <3>4. overlap'[g] \/ Alone(g)'
      BY <1>6, <3>1, <3>2, <3>3 DEF FileOK, Alone
    <3>5. ASSUME NEW q \in DOMAIN command, opener[g] = {q}
          PROVE  OpenedBy(g, q)'
      <4>1. OpenedBy(g, q)
        BY <3>1, <3>5 DEF FileOK
      <4>2. pc'[q] # "start" /\ Sized(q)' /\ size'[q] = size[q]
        BY <1>2, <1>5, <1>6, <4>1 DEF OpenedBy, SameProc, Sized, Known, Data, Solver
      <4> QED BY <3>2, <3>3, <4>1, <4>2 DEF OpenedBy
    <3> QED BY <1>6, <3>1, <3>2, <3>4, <3>5 DEF FileOK
  <2> QED BY <2>1, <2>2
<1> QED BY <1>4, <1>6, <1>8, <1>9 DEF IInv

-----------------------------------------------------------------------------
(* The data of each solver are laid out as tables, linked in a row.        *)
LEMMA DataLaid ==
  ASSUME NEW id \in DOMAIN data
  PROVE  \E off, ch, n : Laid(data[id], off) /\ Chain(data[id], off, ch, n)
<1>1. DOMAIN data = {"h48h0k4", "h48h2k2", "EO", "DR"}
  BY DEF data
<1>2. /\ data["h48h0k4"] = gendata_h48(0, 4) /\ data["h48h2k2"] = gendata_h48(2, 2)
      /\ data["EO"] = gendata_coord(1) /\ data["DR"] = gendata_coord(2)
  BY DEF data
<1>3. CASE id = "h48h0k4"
  <2>1. Laid(gendata_h48(0, 4), OffsetsK4) /\ \E ch, n : Chain(gendata_h48(0, 4), OffsetsK4, ch, n)
    BY 0 \in Nat, LaidK4, ChainK4
  <2> QED BY <1>2, <1>3, <2>1
<1>4. CASE id = "h48h2k2"
  <2>1. Laid(gendata_h48(2, 2), OffsetsK2) /\ \E ch, n : Chain(gendata_h48(2, 2), OffsetsK2, ch, n)
    BY 2 \in Nat, LaidK2, ChainK2
  <2> QED BY <1>2, <1>4, <2>1
<1>5. CASE id = "EO"
  BY <1>2, <1>5, LaidEO, ChainEO
<1>6. CASE id = "DR"
  BY <1>2, <1>6, LaidDR, ChainDR
<1> QED BY <1>1, <1>3, <1>4, <1>5, <1>6

(* The data of a solver that is known are blocks.                          *)
LEMMA KnownData ==
  ASSUME NEW p, Known(p)
  PROVE  /\ dataid[Solver(p)] \in DOMAIN data /\ Data(p) \in Seq(BlockType)
         /\ Len(Data(p)) \in Nat
<1>1. dataid[Solver(p)] \in DOMAIN data
  BY DEF Known, dataid, data
<1>2. PICK off, ch, n : Laid(data[dataid[Solver(p)]], off) /\ Chain(data[dataid[Solver(p)]], off, ch, n)
  BY <1>1, DataLaid
<1>3. Data(p) \in Seq(BlockType)
  BY <1>2 DEF Laid, Data
<1> QED BY <1>1, <1>3

-----------------------------------------------------------------------------
(* Every step keeps the invariant.                                         *)
LEMMA FaultCounted ==
  ASSUME Types
  PROVE  /\ faults \in 0 .. MaxFaults
         /\ Fault => faults' \in 0 .. MaxFaults
  BY SessionsAssumption DEF Types, Fault

(* A process asks for the size of its data: it then knows it, or it ends.  *)
LEMMA SolverInfoStep ==
  ASSUME IInv, NEW p \in DOMAIN command, SolverInfo(p)
  PROVE  IInv'
<1>1. /\ pc[p] = "start" /\ found' = [found EXCEPT ![p] = DOMAIN file]
      /\ UNCHANGED <<command, writable, file, faults, opener, complete, overlap, mixed>>
  BY DEF SolverInfo
<1>2. faults' \in 0 .. MaxFaults
  BY <1>1, FaultCounted DEF IInv
<1>3. CASE /\ Known(p) /\ Goto(p, IF command[p].cmd = "gendata" THEN "open" ELSE "look")
           /\ size' = [size EXCEPT ![p] = Len(Data(p))] /\ UNCHANGED path
  <2> DEFINE l == IF command[p].cmd = "gendata" THEN "open" ELSE "look"
  <2>1. l \in {"look", "open"} /\ (l = "open" => command[p].cmd # "solve")
    OBVIOUS
  <2>2. Goto(p, l) /\ Len(Data(p)) \in Nat
    BY <1>3, KnownData
  <2> HIDE DEF l
  <2> QED BY <1>1, <1>3, <2>1, <2>2, MoveStep
<1>4. CASE UNCHANGED size /\ \E r : End(p, r) \/ Stop(p, "undefined", r)
  <2>1. PICK r : Stop(p, "end", r) \/ Stop(p, "undefined", r)
    BY <1>4 DEF End
  <2> QED BY <1>1, <1>2, <1>4, <2>1, StopStep
<1> QED BY <1>3, <1>4 DEF SolverInfo

(* The steps that only move on or end.                                     *)
LEMMA SimpleSteps ==
  ASSUME IInv, NEW p \in DOMAIN command,
         \/ Look(p) \/ OpenNamed(p) \/ NowhereToWrite(p) \/ Generate(p) \/ GenerateInNull(p)
         \/ WriteFails(p) \/ CloseFails(p) \/ ReadShort(p) \/ ReadInNull(p)
         \/ Solve(p) \/ Check(p) \/ Kill(p)
  PROVE  IInv'
<1>1. Types
  BY DEF IInv
<1>2. faults \in 0 .. MaxFaults /\ (Fault => faults' \in 0 .. MaxFaults)
  BY <1>1, FaultCounted
<1>3. ASSUME NEW l, NEW r, Stop(p, l, r), l \in {"end", "crashed", "killed", "undefined"},
             UNCHANGED <<fixed, file, aux>>, faults' = faults \/ Fault
      PROVE  IInv'
  BY <1>2, <1>3, StopStep DEF fixed, aux
<1>4. CASE Look(p)
  <2>1. CASE DOMAIN file = {} /\ Goto(p, "open") /\ UNCHANGED path
    BY <1>4, <2>1, MoveStep DEF Look, fixed, aux
  <2>2. CASE DOMAIN file # {} /\ OpenToRead(p, FirstIn(DOMAIN file))
    <3>1. FirstIn(DOMAIN file) \in DOMAIN file
      BY <1>1, <2>2, FirstInSet DEF Types
    <3>2. Goto(p, "read") /\ \E f \in DOMAIN file : path' = [path EXCEPT ![p] = f]
      BY <2>2, <3>1 DEF OpenToRead
    <3> QED BY <1>4, <3>2, MoveStep DEF Look, fixed, aux
  <2> QED BY <1>4, <2>1, <2>2 DEF Look
<1>5. CASE OpenNamed(p)
  <2>1. CASE command[p].file \in DOMAIN file /\ OpenToRead(p, command[p].file)
    <3>1. Goto(p, "read") /\ \E f \in DOMAIN file : path' = [path EXCEPT ![p] = f]
      BY <2>1 DEF OpenToRead
    <3> QED BY <1>5, <3>1, MoveStep DEF OpenNamed, fixed, aux
  <2>2. CASE End(p, -1)
    BY <1>3, <1>5, <2>2 DEF OpenNamed, End
  <2> QED BY <1>5, <2>1, <2>2 DEF OpenNamed
<1>6. CASE NowhereToWrite(p)
  BY <1>3, <1>6 DEF NowhereToWrite, End
<1>7. CASE Generate(p)
  BY <1>7, MoveStep DEF Generate, fixed, aux
<1>8. CASE GenerateInNull(p)
  BY <1>3, <1>8 DEF GenerateInNull, End
<1>9. CASE WriteFails(p)
  BY <1>3, <1>9 DEF WriteFails, End
<1>10. CASE CloseFails(p)
  <2> DEFINE l == IF command[p].cmd = "solve" THEN "look_again" ELSE "end"
  <2>1. l = "end" \/ l = "look_again"
    OBVIOUS
  <2>2. Stop(p, l, 0) /\ pc[p] = "write" /\ UNCHANGED <<fixed, file, aux>> /\ Fault
    BY <1>10 DEF CloseFails, Written
  <2> HIDE DEF l
  <2> QED BY <1>2, <2>1, <2>2, StopStep DEF fixed, aux
<1>11. CASE ReadShort(p)
  BY <1>3, <1>11 DEF ReadShort, End
<1>12. CASE ReadInNull(p)
  BY <1>3, <1>12 DEF ReadInNull, End
<1>13. CASE Solve(p)
  BY <1>3, <1>13 DEF Solve, End
<1>14. CASE Check(p)
  BY <1>3, <1>14 DEF Check, End
<1>15. CASE Kill(p)
  BY <1>3, <1>15 DEF Kill
<1> QED BY <1>4, <1>5, <1>6, <1>7, <1>8, <1>9, <1>10, <1>11, <1>12, <1>13, <1>14, <1>15

(* Nothing happens.                                                        *)
LEMMA Unchanged ==
  ASSUME IInv, UNCHANGED vars
  PROVE  IInv'
<1>1. /\ UNCHANGED <<command, writable, size, file, pc, path, ret, buf, pos, faults>>
      /\ UNCHANGED <<found, opener, complete, overlap, mixed>>
  BY DEF vars, fixed, aux
<1>2. Types'
  BY <1>1 DEF IInv, Types
<1>3. ASSUME NEW p \in DOMAIN command, ProcOK(p) PROVE ProcOK(p)'
  BY <1>1, <1>3 DEF ProcOK, Sized, Known, Data, Solver, Writer, Reader, FoundNone
<1>4. ASSUME NEW f \in Paths, FileOK(f) PROVE FileOK(f)'
  BY <1>1, <1>4 DEF FileOK, Alone, OpenedBy, Writing, Sized, Known, Data, Solver
<1> QED BY <1>1, <1>2, <1>3, <1>4 DEF IInv

(* Every step of the commands keeps the invariant.                         *)
LEMMA NextKeeps ==
  ASSUME IInv, [ShellNext]_vars
  PROVE  IInv'
<1>1. ASSUME NEW p \in DOMAIN command, SolverInfo(p) PROVE IInv'
  BY <1>1, SolverInfoStep
<1>2. ASSUME NEW p \in DOMAIN command, OpenToWrite(p) PROVE IInv'
  BY <1>2, OpenStep
<1>3. ASSUME NEW p \in DOMAIN command, Write(p) PROVE IInv'
  BY <1>3, WriteStep
<1>4. ASSUME NEW p \in DOMAIN command, Close(p) PROVE IInv'
  BY <1>4, CloseStep
<1>5. ASSUME NEW p \in DOMAIN command, Read(p) PROVE IInv'
  BY <1>5, ReadStep
<1>6. CASE ShellNext
  BY <1>1, <1>2, <1>3, <1>4, <1>5, <1>6, SimpleSteps DEF ShellNext
<1> QED BY <1>6, Unchanged

-----------------------------------------------------------------------------
(* The invariant holds when the commands begin: the files there are hold    *)
(* the beginning of a table.                                               *)
LEMMA InitKeeps ==
  ASSUME ShellInit
  PROVE  IInv
<1>1. command \in Sessions /\ DOMAIN command \subseteq Procs
  BY SessionParts DEF ShellInit
<1>2. /\ writable \subseteq Paths /\ DOMAIN file \subseteq Paths
      /\ file = [f \in DOMAIN file |-> file[f]]
      /\ \A f \in DOMAIN file : file[f] \in Seq(Nat) /\ \A i \in DOMAIN file[f] : file[f][i] = i
  <2>1. PICK disk \in Disks(command) : writable = disk.writable /\ file \in disk.files
    BY DEF ShellInit
  <2>2. writable \subseteq Paths
    BY <1>1, <2>1, DisksAssumption
  <2>3. /\ DOMAIN file \subseteq Paths /\ file = [f \in DOMAIN file |-> file[f]]
        /\ \A f \in DOMAIN file : file[f] \in Seq(Nat)
                                 /\ \A i \in DOMAIN file[f] : file[f][i] = i
    BY <1>1, <2>1, DisksAssumption
  <2> QED BY <2>2, <2>3
<1>3. /\ pc = [p \in Procs |-> "start"] /\ size = [p \in Procs |-> 0]
      /\ path = [p \in Procs |-> ""] /\ buf = [p \in Procs |-> <<>>]
      /\ pos = [p \in Procs |-> 0] /\ faults = 0 /\ found = [p \in Procs |-> {}]
      /\ opener = [f \in Paths |-> {}] /\ complete = [f \in Paths |-> FALSE]
      /\ overlap = [f \in Paths |-> FALSE] /\ mixed = [p \in Procs |-> FALSE]
  BY DEF ShellInit
<1>4. Types
  <2>1. "" \in Paths /\ <<>> \in Seq(Nat) /\ "start" \in Labels /\ 0 \in 0 .. MaxFaults
    <3>1. "" \in Paths
      BY HereIsAPath
    <3>2. <<>> \in Seq(Nat)
      OBVIOUS
    <3>3. "start" \in Labels /\ 0 \in 0 .. MaxFaults
      BY SessionsAssumption DEF Labels
    <3> QED BY <3>1, <3>2, <3>3
  <2>2. file \in [DOMAIN file -> Seq(Nat)]
    BY <1>2
  <2>3. /\ size \in [Procs -> Nat] /\ pc \in [Procs -> Labels] /\ path \in [Procs -> Paths]
        /\ buf \in [Procs -> Seq(Nat)] /\ pos \in [Procs -> Nat] /\ faults \in 0 .. MaxFaults
    BY <1>3, <2>1
  <2>4. found \in [Procs -> SUBSET Paths] /\ opener \in [Paths -> SUBSET Procs]
    BY <1>3
  <2>5. /\ complete \in [Paths -> BOOLEAN] /\ overlap \in [Paths -> BOOLEAN]
        /\ mixed \in [Procs -> BOOLEAN]
    BY <1>3
  <2> QED BY <1>1, <1>2, <2>2, <2>3, <2>4, <2>5 DEF Types
<1>5. ASSUME NEW p \in DOMAIN command PROVE ProcOK(p)
  <2>1. /\ pc[p] = "start" /\ size[p] = 0 /\ buf[p] = <<>> /\ pos[p] = 0 /\ found[p] = {}
        /\ \A f \in Paths : opener[f] = {}
    BY <1>1, <1>3
  <2>2. Len(buf[p]) = 0 /\ \A i \in 1 .. Len(buf[p]) : FALSE
    BY <2>1
  <2>3. Writer(p)
    BY <2>1 DEF Writer
  <2>4. Reader(p)
    BY <2>1, <2>2 DEF Reader
  <2>5. FoundNone(p)
    BY <2>1 DEF FoundNone
  <2> QED BY <2>1, <2>3, <2>4, <2>5 DEF ProcOK, Busy
<1>6. ASSUME NEW f \in Paths PROVE FileOK(f)
  <2>1. f \in DOMAIN file => \A i \in 1 .. Len(file[f]) : file[f][i] = i
    BY <1>2
  <2>2. opener[f] = {} /\ \A p \in DOMAIN command : ~Writing(p, f)
    BY <1>1, <1>3 DEF Writing
  <2>3. Alone(f)
    BY <2>1, <2>2 DEF Alone
  <2> QED BY <2>1, <2>2, <2>3 DEF FileOK
<1> QED BY <1>4, <1>5, <1>6 DEF IInv

(* The inductive invariant of the commands: each process knows the size of  *)
(* the data it asked for and where it is in the file, a file with one       *)
(* writer at a time is what that one has written, and of the file it        *)
(* emptied last a process has written all it says.                         *)
THEOREM Invariance == Spec => []IInv
<1>1. ShellInit => IInv
  BY InitKeeps
<1>2. IInv /\ [ShellNext]_vars => IInv'
  BY NextKeeps
<1> QED BY <1>1, <1>2, PTL DEF Spec

-----------------------------------------------------------------------------
(* The type invariant.                                                     *)
LEMMA TypesFollow ==
  ASSUME IInv
  PROVE  TypeOK
<1>1. /\ command \in Sessions /\ writable \subseteq Paths /\ DOMAIN file \subseteq Paths
      /\ faults \in 0 .. MaxFaults
  BY DEF IInv, Types
<1>2. ASSUME NEW p \in DOMAIN command
      PROVE  /\ pc[p] \in Labels
             /\ pc[p] \in {"generate", "write", "read"} => path[p] \in DOMAIN file
             /\ Len(buf[p]) <= size[p] /\ pos[p] \in 0 .. size[p]
  BY ProcTypes DEF IInv, ProcOK, Writer, Reader
<1>3. ASSUME NEW f \in DOMAIN file, NEW i \in DOMAIN file[f] PROVE file[f][i] \in {0, i}
  <2>1. FileOK(f) /\ file[f] \in Seq(Nat)
    BY <1>1 DEF IInv, Types
  <2> QED BY <2>1 DEF FileOK
<1> QED BY <1>1, <1>2, <1>3 DEF TypeOK, Labels

(* The variables of the commands keep their types, a process has a file    *)
(* open while it reads or writes, and no block of a file is in the wrong   *)
(* place.                                                                  *)
THEOREM TypeCorrect == Spec => []TypeOK
BY Invariance, TypesFollow, PTL

(* Whoever empties a file last and writes all of it leaves the whole table *)
(* in it, for any number of generations and faults.                        *)
LEMMA LastWinsFollows ==
  ASSUME IInv
  PROVE  LastGenerationWins
<1> SUFFICES ASSUME NEW f \in DOMAIN file, complete[f],
                    NEW p \in DOMAIN command, opener[f] = {p}
             PROVE  file[f] = [i \in 1 .. size[p] |-> i]
  BY DEF LastGenerationWins
<1>1. FileOK(f)
  BY DEF IInv, Types
<1> QED BY <1>1 DEF FileOK, OpenedBy

(* The file whose last generation wrote all of it is a whole table,        *)
(* whatever other generations of it were under way or died on the way      *)
(* (gendata_exec).                                                         *)
THEOREM LastGenerationStays == Spec => []LastGenerationWins
BY Invariance, LastWinsFollows, PTL

(* A solve never writes to a file that was there when it began.            *)
LEMMA KeepsFilesFollows ==
  ASSUME IInv
  PROVE  SolveKeepsFiles
<1> SUFFICES ASSUME NEW p \in DOMAIN command, command[p].cmd = "solve", NEW f \in found[p]
             PROVE  ~Writing(p, f) /\ opener[f] # {p}
  BY DEF SolveKeepsFiles
<1>1. FoundNone(p) /\ f \in Paths
  BY ProcTypes DEF IInv, ProcOK
<1> QED BY <1>1 DEF FoundNone, Writing

(* solve_exec generates a table only for want of a file: a solve never     *)
(* writes to a file that was there when it began.                          *)
THEOREM SolveKeepsWhatItFound == Spec => []SolveKeepsFiles
BY Invariance, KeepsFilesFollows, PTL

-----------------------------------------------------------------------------
(* What a process has read, once it has read as much as the table: every   *)
(* block of the data, but for holes, and holes only if it read while two   *)
(* processes wrote.                                                        *)
LEMMA HasReadBlocks ==
  ASSUME IInv, NEW p \in DOMAIN command, HasRead(p)
  PROVE  /\ Known(p) /\ DOMAIN buf[p] = 1 .. Len(Data(p))
         /\ \A i \in 1 .. Len(Data(p)) : buf[p][i] \in {0, i} /\ (mixed[p] \/ buf[p][i] = i)
         /\ WithHoles(Blocks(p), Data(p))
         /\ \A i \in 1 .. Len(Data(p)) :
              Blocks(p)[i] = IF buf[p][i] = i THEN Data(p)[i] ELSE Zero
<1>1. Reader(p) /\ Sized(p) /\ Len(buf[p]) = size[p] /\ buf[p] \in Seq(Nat)
  BY ProcTypes DEF IInv, ProcOK, HasRead, Busy
<1>2. Known(p) /\ Len(Data(p)) \in Nat /\ Len(buf[p]) = Len(Data(p))
  BY <1>1, KnownData DEF Sized
<1>3. DOMAIN buf[p] = 1 .. Len(Data(p))
  BY <1>1, <1>2
<1>4. \A i \in 1 .. Len(Data(p)) : buf[p][i] \in {0, i} /\ (mixed[p] \/ buf[p][i] = i)
  BY <1>1, <1>2 DEF Reader
<1> DEFINE d == Data(p)
<1>5. Blocks(p) = [i \in 1 .. Len(d) |-> IF buf[p][i] = 0 THEN Zero ELSE d[buf[p][i]]]
  BY <1>3 DEF Blocks
<1> HIDE DEF d
<1>6. Len(Blocks(p)) = Len(d)
  BY <1>2, <1>5 DEF d
<1>7. ASSUME NEW i \in 1 .. Len(d)
      PROVE  Blocks(p)[i] = IF buf[p][i] = i THEN d[i] ELSE Zero
  <2>1. buf[p][i] \in {0, i} /\ i # 0
    BY <1>2, <1>4, <1>7 DEF d
  <2>2. Blocks(p)[i] = IF buf[p][i] = 0 THEN Zero ELSE d[buf[p][i]]
    BY <1>5
  <2> QED BY <2>1, <2>2
<1>8. WithHoles(Blocks(p), d)
  BY <1>6, <1>7 DEF WithHoles
<1> QED BY <1>2, <1>3, <1>4, <1>7, <1>8 DEF d

(* A block of the data is not a hole.                                      *)
LEMMA NotAHole ==
  ASSUME NEW d, NEW off, Laid(d, off), NEW i \in 1 .. Len(d)
  PROVE  d[i] # Zero
<1>1. PICK q \in DOMAIN off : i \in off[q] + 1 .. off[q] + FullSize(q)
  BY LaidOut
<1>2. d[i].of \in Parts
  BY <1>1, InTable, LaidTable
<1>3. Zero.of \notin Parts
  BY DEF Zero, Parts
<1> QED BY <1>2, <1>3

(* Where checkdata and the solvers find the data of a table.               *)
LEMMA RightStart ==
  ASSUME NEW d, NEW off, Laid(d, off), NEW q \in DOMAIN off
  PROVE  StartOf(q, d) = off[q] + 1
<1>1. off[q] \in Nat
  BY LaidTable
<1> DEFINE first == CHOOSE i \in DOMAIN d : d[i] = Body(q, 1)
<1>2. first = off[q] + 2
  BY FirstBlockOfTable
<1>3. StartOf(q, d) = first - 1
  BY Zenon DEF StartOf
<1> HIDE DEF first
<1> QED BY <1>1, <1>2, <1>3

(* The offsets an H48 solver with k = 4 needs.                             *)
LEMMA RightK4 ==
  RightOffsets("h48h0k4") =
    <<OffsetsK4["cocsep"] + 1, OffsetsK4["h48h0k4"] + 1, OffsetsK4["eoesep"] + 1>>
<1>1. data["h48h0k4"] = gendata_h48(0, 4) /\ Uses["h48h0k4"] = <<"cocsep", "h48h0k4", "eoesep">>
  BY DEF data, Uses
<1> DEFINE d == gendata_h48(0, 4)
<1>2. Laid(d, OffsetsK4)
  BY 0 \in Nat, LaidK4
<1>3. DOMAIN OffsetsK4 = {"cocsep", "h48h0k4", "eoesep"}
  BY DEF OffsetsK4
<1> HIDE DEF d
<1>4. \A q \in {"cocsep", "h48h0k4", "eoesep"} : StartOf(q, d) = OffsetsK4[q] + 1
  BY <1>2, <1>3, RightStart
<1> DEFINE s(q) == StartOf(q, d)
<1>5. RightOffsets("h48h0k4") =
        [i \in DOMAIN <<"cocsep", "h48h0k4", "eoesep">> |->
           s(<<"cocsep", "h48h0k4", "eoesep">>[i])]
  BY <1>1 DEF RightOffsets, d
<1> HIDE DEF s
<1>6. RightOffsets("h48h0k4") = <<s("cocsep"), s("h48h0k4"), s("eoesep")>>
  BY <1>5
<1> QED BY <1>4, <1>6 DEF s

(* The offsets an H48 solver with k = 2 needs.                             *)
LEMMA RightK2 ==
  RightOffsets("h48h2k2") =
    <<OffsetsK2["cocsep"] + 1, OffsetsK2["h48k2"] + 1, OffsetsK2["h48h0k4"] + 1,
      OffsetsK2["eoesep"] + 1>>
<1>1. /\ data["h48h2k2"] = gendata_h48(2, 2)
      /\ Uses["h48h2k2"] = <<"cocsep", "h48k2", "h48h0k4", "eoesep">>
  BY DEF data, Uses
<1> DEFINE d == gendata_h48(2, 2)
<1>2. Laid(d, OffsetsK2)
  BY 2 \in Nat, LaidK2
<1>3. DOMAIN OffsetsK2 = {"cocsep", "h48k2", "h48h0k4", "eoesep"}
  BY DEF OffsetsK2
<1> HIDE DEF d
<1>4. \A q \in {"cocsep", "h48k2", "h48h0k4", "eoesep"} : StartOf(q, d) = OffsetsK2[q] + 1
  BY <1>2, <1>3, RightStart
<1> DEFINE s(q) == StartOf(q, d)
<1>5. RightOffsets("h48h2k2") =
        [i \in DOMAIN <<"cocsep", "h48k2", "h48h0k4", "eoesep">> |->
           s(<<"cocsep", "h48k2", "h48h0k4", "eoesep">>[i])]
  BY <1>1 DEF RightOffsets, d
<1> HIDE DEF s
<1>6. RightOffsets("h48h2k2") = <<s("cocsep"), s("h48k2"), s("h48h0k4"), s("eoesep")>>
  BY <1>5
<1> QED BY <1>4, <1>6 DEF s

(* The offset a solver for a coordinate without symmetry needs.            *)
LEMMA RightEO == RightOffsets("EO") = <<OffsetsEO["pruning"] + 1>>
<1>1. data["EO"] = gendata_coord(1) /\ Uses["EO"] = <<"pruning">>
  BY DEF data, Uses
<1> DEFINE d == gendata_coord(1)
<1>2. "pruning" \in DOMAIN OffsetsEO /\ Laid(d, OffsetsEO)
  BY LaidEO DEF OffsetsEO
<1> HIDE DEF d
<1>3. StartOf("pruning", d) = OffsetsEO["pruning"] + 1
  BY <1>2, RightStart
<1> DEFINE s(q) == StartOf(q, d)
<1>4. RightOffsets("EO") = [i \in DOMAIN <<"pruning">> |-> s(<<"pruning">>[i])]
  BY <1>1 DEF RightOffsets, d
<1> HIDE DEF s
<1>5. RightOffsets("EO") = <<s("pruning")>>
  BY <1>4
<1> QED BY <1>3, <1>5 DEF s

(* The offsets a solver for a coordinate with symmetry needs.              *)
LEMMA RightDR == RightOffsets("DR") = <<OffsetsDR["helper"] + 1, OffsetsDR["pruning"] + 1>>
<1>1. data["DR"] = gendata_coord(2) /\ Uses["DR"] = <<"helper", "pruning">>
  BY DEF data, Uses
<1> DEFINE d == gendata_coord(2)
<1>2. DOMAIN OffsetsDR = {"helper", "pruning"} /\ Laid(d, OffsetsDR)
  BY LaidDR DEF OffsetsDR
<1> HIDE DEF d
<1>3. \A q \in {"helper", "pruning"} : StartOf(q, d) = OffsetsDR[q] + 1
  BY <1>2, RightStart
<1> DEFINE s(q) == StartOf(q, d)
<1>4. RightOffsets("DR") =
        [i \in DOMAIN <<"helper", "pruning">> |-> s(<<"helper", "pruning">>[i])]
  BY <1>1 DEF RightOffsets, d
<1> HIDE DEF s
<1>5. RightOffsets("DR") = <<s("helper"), s("pruning")>>
  BY <1>4
<1> QED BY <1>3, <1>5 DEF s

(* What solve_h48 makes of data with holes: it goes by the headers.        *)
ReadOf(b, n, d) == \A i \in 1 .. Len(d) : b[i] = IF n[i] = i THEN d[i] ELSE Zero
AtHeaders(b, off, at, right) ==
  /\ (\E q \in DOMAIN off : b[off[q] + 1] = Zero) => at = Refused
  /\ (\A q \in DOMAIN off : b[off[q] + 1] # Zero) =>
       at = [error |-> FALSE, offsets |-> right]
ByHeaders(n, d, at, right) ==
  IF \E i \in 1 .. Len(d) : n[i] # i /\ d[i].at = 0 THEN at.error
  ELSE ~at.error /\ at.offsets = right

(* A hole in a header is an error; holes elsewhere move nothing.           *)
LEMMA HeadersDecide ==
  \A d, off, n, b, at, right :
    Laid(d, off) /\ ReadOf(b, n, d) /\ AtHeaders(b, off, at, right) => ByHeaders(n, d, at, right)
<1> SUFFICES ASSUME NEW d, NEW off, Laid(d, off), NEW n, NEW b, ReadOf(b, n, d),
                    NEW at, NEW right, AtHeaders(b, off, at, right)
             PROVE  ByHeaders(n, d, at, right)
  OBVIOUS
<1> USE DEF ReadOf, AtHeaders, ByHeaders
<1>1. CASE \E i \in 1 .. Len(d) : n[i] # i /\ d[i].at = 0
  <2>1. PICK i \in 1 .. Len(d) : n[i] # i /\ d[i].at = 0
    BY <1>1
  <2>2. PICK q \in DOMAIN off : i = off[q] + 1
    BY <2>1, HeadersOfData
  <2>3. at = Refused
    BY <2>1, <2>2
  <2> QED BY <1>1, <2>3 DEF Refused
<1>2. CASE ~ \E i \in 1 .. Len(d) : n[i] # i /\ d[i].at = 0
  <2>1. ASSUME NEW q \in DOMAIN off PROVE b[off[q] + 1] # Zero
    <3> DEFINE i == off[q] + 1
    <3>1. off[q] \in Nat /\ FullSize(q) \in Nat \ {0}
      BY LaidTable
    <3>2. i \in off[q] + 1 .. off[q] + FullSize(q)
      BY <3>1
    <3>3. i \in 1 .. Len(d)
      BY <3>2, InTable
    <3>4. d[i].at = 0
      BY <3>3, HeadersOfData
    <3> HIDE DEF i
    <3>5. b[i] = d[i] /\ d[i] # Zero
      BY <1>2, <3>3, <3>4, NotAHole
    <3> QED BY <3>5 DEF i
  <2>2. at = [error |-> FALSE, offsets |-> right]
    BY <2>1
  <2> QED BY <1>2, <2>2
<1> QED BY <1>1, <1>2

-----------------------------------------------------------------------------
(* What solve is given, for each kind of data.                             *)
SolverRight(p) ==
  LET id    == dataid[Solver(p)]
      holes == {i \in DOMAIN buf[p] : buf[p][i] # i}
      found_at == Offsets(id, Blocks(p))
  IN  holes = {} \/ IsH48(id) =>
        IF \E i \in holes : data[id][i].at = 0 THEN found_at.error
        ELSE ~found_at.error /\ found_at.offsets = RightOffsets(id)

(* An H48 solver refuses what it read or finds its tables.                 *)
LEMMA H48Right ==
  ASSUME IInv, NEW p \in DOMAIN command, HasRead(p), NEW off, Laid(Data(p), off),
         IsH48(dataid[Solver(p)]),
         NEW right, right = RightOffsets(dataid[Solver(p)]),
         (\E q \in DOMAIN off : Blocks(p)[off[q] + 1] = Zero) =>
           H48Offsets(Blocks(p)) = Refused,
         (\A q \in DOMAIN off : Blocks(p)[off[q] + 1] # Zero) =>
           H48Offsets(Blocks(p)) = [error |-> FALSE, offsets |-> right]
  PROVE  SolverRight(p)
<1> DEFINE holes == {i \in DOMAIN buf[p] : buf[p][i] # i}
           at == H48Offsets(Blocks(p))
<1>1. /\ DOMAIN buf[p] = 1 .. Len(Data(p))
      /\ \A i \in 1 .. Len(Data(p)) : Blocks(p)[i] = IF buf[p][i] = i THEN Data(p)[i] ELSE Zero
  BY HasReadBlocks
<1>2. at = Offsets(dataid[Solver(p)], Blocks(p))
  BY DEF Offsets
<1>3. IF \E i \in 1 .. Len(Data(p)) : buf[p][i] # i /\ Data(p)[i].at = 0 THEN at.error
      ELSE ~at.error /\ at.offsets = right
  <2>1. ReadOf(Blocks(p), buf[p], Data(p)) /\ AtHeaders(Blocks(p), off, at, right)
    BY <1>1 DEF ReadOf, AtHeaders
  <2>2. ByHeaders(buf[p], Data(p), at, right)
    BY <2>1, HeadersDecide, Zenon
  <2> QED BY <2>2 DEF ByHeaders
<1> HIDE DEF at
<1>4. (\E i \in holes : Data(p)[i].at = 0) <=>
        \E i \in 1 .. Len(Data(p)) : buf[p][i] # i /\ Data(p)[i].at = 0
  BY <1>1
<1> QED BY <1>2, <1>3, <1>4 DEF SolverRight, Data

(* The solvers of the other kind are given whole data or what one of them  *)
(* would not tell from it.                                                 *)
LEMMA CoordRight ==
  ASSUME IInv, NEW p \in DOMAIN command, HasRead(p), NEW off, Laid(Data(p), off),
         ~IsH48(dataid[Solver(p)]),
         CoordOffsets(Data(p)) =
           [error |-> FALSE, offsets |-> RightOffsets(dataid[Solver(p)])]
  PROVE  SolverRight(p)
<1> DEFINE holes == {i \in DOMAIN buf[p] : buf[p][i] # i}
<1>1. CASE holes # {}
  BY <1>1 DEF SolverRight
<1>2. CASE holes = {}
  <2>1. /\ DOMAIN buf[p] = 1 .. Len(Data(p)) /\ Data(p) \in Seq(BlockType)
        /\ \A i \in 1 .. Len(Data(p)) :
             Blocks(p)[i] = IF buf[p][i] = i THEN Data(p)[i] ELSE Zero
    BY HasReadBlocks DEF Laid
  <2>2. Blocks(p) = Data(p)
    <3>1. Blocks(p) = [i \in 1 .. Len(Data(p)) |-> Blocks(p)[i]]
      BY <2>1 DEF Blocks
    <3>2. \A i \in 1 .. Len(Data(p)) : Blocks(p)[i] = Data(p)[i]
      BY <1>2, <2>1
    <3>3. Data(p) = [i \in 1 .. Len(Data(p)) |-> Data(p)[i]]
      BY <2>1
    <3> QED BY <3>1, <3>2, <3>3
  <2>3. Offsets(dataid[Solver(p)], Blocks(p)) = CoordOffsets(Data(p))
    BY <2>2 DEF Offsets
  <2> QED BY <1>2, <2>3 DEF SolverRight
<1> QED BY <1>1, <1>2

(* What nissy_solve is given is right for each of the solvers.             *)
LEMMA RightForEach ==
  ASSUME IInv, NEW p \in DOMAIN command, HasRead(p)
  PROVE  SolverRight(p)
<1> DEFINE id == dataid[Solver(p)]
<1>1. Known(p) /\ WithHoles(Blocks(p), Data(p))
  BY HasReadBlocks
<1>2. id \in {"h48h0k4", "h48h2k2", "EO", "DR"} /\ Data(p) = data[id]
  BY <1>1 DEF Known, dataid, Data
<1> HIDE DEF id
<1>3. /\ data["h48h0k4"] = gendata_h48(0, 4) /\ data["h48h2k2"] = gendata_h48(2, 2)
      /\ data["EO"] = gendata_coord(1) /\ data["DR"] = gendata_coord(2)
  BY DEF data
<1>4. CASE id = "h48h0k4"
  <2>1. Data(p) = gendata_h48(0, 4) /\ 0 \in Nat
    BY <1>2, <1>3, <1>4
  <2>2. Laid(Data(p), OffsetsK4)
    BY <2>1, LaidK4
  <2>3. /\ (\E q \in DOMAIN OffsetsK4 : Blocks(p)[OffsetsK4[q] + 1] = Zero) =>
             H48Offsets(Blocks(p)) = Refused
        /\ (\A q \in DOMAIN OffsetsK4 : Blocks(p)[OffsetsK4[q] + 1] # Zero) =>
             H48Offsets(Blocks(p)) =
               [error |-> FALSE,
                offsets |-> <<OffsetsK4["cocsep"] + 1, OffsetsK4["h48h0k4"] + 1,
                              OffsetsK4["eoesep"] + 1>>]
    BY <1>1, <2>1, HolesK4
  <2>4. IsH48(id)
    BY <1>4 DEF IsH48
  <2> QED BY <1>4, <2>2, <2>3, <2>4, RightK4, H48Right DEF id
<1>5. CASE id = "h48h2k2"
  <2>1. Data(p) = gendata_h48(2, 2) /\ 2 \in Nat
    BY <1>2, <1>3, <1>5
  <2>2. Laid(Data(p), OffsetsK2)
    BY <2>1, LaidK2
  <2>3. /\ (\E q \in DOMAIN OffsetsK2 : Blocks(p)[OffsetsK2[q] + 1] = Zero) =>
             H48Offsets(Blocks(p)) = Refused
        /\ (\A q \in DOMAIN OffsetsK2 : Blocks(p)[OffsetsK2[q] + 1] # Zero) =>
             H48Offsets(Blocks(p)) =
               [error |-> FALSE,
                offsets |-> <<OffsetsK2["cocsep"] + 1, OffsetsK2["h48k2"] + 1,
                              OffsetsK2["h48h0k4"] + 1, OffsetsK2["eoesep"] + 1>>]
    BY <1>1, <2>1, HolesK2
  <2>4. IsH48(id)
    BY <1>5 DEF IsH48
  <2> QED BY <1>5, <2>2, <2>3, <2>4, RightK2, H48Right DEF id
<1>6. CASE id = "EO"
  <2>1. Laid(Data(p), OffsetsEO)
    BY <1>2, <1>3, <1>6, LaidEO
  <2>2. CoordOffsets(Data(p)) = [error |-> FALSE, offsets |-> RightOffsets(id)]
    BY <1>2, <1>3, <1>6, WholeEO, RightEO
  <2>3. ~IsH48(id)
    BY <1>6 DEF IsH48
  <2> QED BY <2>1, <2>2, <2>3, CoordRight DEF id
<1>7. CASE id = "DR"
  <2>1. Laid(Data(p), OffsetsDR)
    BY <1>2, <1>3, <1>7, LaidDR
  <2>2. CoordOffsets(Data(p)) = [error |-> FALSE, offsets |-> RightOffsets(id)]
    BY <1>2, <1>3, <1>7, WholeDR, RightDR
  <2>3. ~IsH48(id)
    BY <1>7 DEF IsH48
  <2> QED BY <2>1, <2>2, <2>3, CoordRight DEF id
<1> QED BY <1>2, <1>4, <1>5, <1>6, <1>7

(* The invariant says what solve is given.                                 *)
LEMMA SolversTablesFollows ==
  ASSUME IInv
  PROVE  SolversTables
<1> SUFFICES ASSUME NEW p \in DOMAIN command, HasRead(p)
             PROVE  /\ {i \in DOMAIN buf[p] : buf[p][i] # i} # {} => mixed[p]
                    /\ \A i \in {j \in DOMAIN buf[p] : buf[p][j] # j} : buf[p][i] = 0
                    /\ SolverRight(p)
  BY DEF SolversTables, SolverRight
<1>1. SolverRight(p)
  BY RightForEach
<1> QED BY <1>1, HasReadBlocks

(* A solve is never given, for a table, what a generation that was cut     *)
(* short has left: without an overlap it has the whole data and finds each *)
(* table at its place; after one it may have holes, of which solve_h48     *)
(* tells those in a header.                                                *)
THEOREM SolversTablesFound == Spec => []SolversTables
BY Invariance, SolversTablesFollows, PTL

(* checkdata finds a hole that overlapping generations left anywhere in    *)
(* the data, but in the data of tables whose entries it does not count.    *)
LEMMA CheckdataFollows ==
  ASSUME IInv
  PROVE  CheckdataExact
<1> SUFFICES ASSUME NEW p \in DOMAIN command, HasRead(p)
             PROVE  nissy_checkdata(Blocks(p)) <=>
                      \A i \in DOMAIN buf[p] :
                        \/ buf[p][i] = i
                        \/ /\ data[dataid[Solver(p)]][i].of \in {"eoesep", "helper"}
                           /\ data[dataid[Solver(p)]][i].at > 0
  BY DEF CheckdataExact
<1>1. /\ Known(p) /\ DOMAIN buf[p] = 1 .. Len(Data(p)) /\ WithHoles(Blocks(p), Data(p))
      /\ \A i \in 1 .. Len(Data(p)) : Blocks(p)[i] = IF buf[p][i] = i THEN Data(p)[i] ELSE Zero
  BY HasReadBlocks
<1>2. PICK off, ch, n : Laid(Data(p), off) /\ Chain(Data(p), off, ch, n)
  BY <1>1, KnownData, DataLaid DEF Data
<1>3. nissy_checkdata(Blocks(p)) <=>
        \A i \in 1 .. Len(Data(p)) :
          Blocks(p)[i] = Data(p)[i] \/ (Data(p)[i].of \in Uncounted /\ Data(p)[i].at > 0)
  BY <1>1, <1>2, CheckedData
<1>4. \A i \in 1 .. Len(Data(p)) : Blocks(p)[i] = Data(p)[i] <=> buf[p][i] = i
  BY <1>1, <1>2, NotAHole
<1> QED BY <1>1, <1>3, <1>4 DEF Uncounted, Data

(* The checkdata tool reports a hole left by overlapping generations       *)
(* wherever it is, but in the data of the tables whose entries it does not *)
(* count.                                                                  *)
THEOREM CheckdataFindsHoles == Spec => []CheckdataExact
BY Invariance, CheckdataFollows, PTL
=============================================================================
