---------------------------- MODULE H48SolveProof ----------------------------
(***************************************************************************)
(* Proofs about H48Solve, for any number of threads and tasks, any search  *)
(* tree and any request: its variables keep their types, the list never    *)
(* exceeds the number of solutions asked for, every line is within the     *)
(* window of lengths, and the unlocked read of shortest_sol is harmless.   *)
(***************************************************************************)
EXTENDS H48Solve, TLAPS

(* Which program counters belong to which kind of thread.                  *)
Roles ==
  /\ pc[Main] \in {"call", "maketasks", "append", "count", "prepared", "loop",
                   "create", "join", "done"}
  /\ \A t \in ThreadIds :
        pc[t] \in {"none", "poll", "pause", "search", "lock", "append",
                   "count", "exit"}

(* A worker in appendsolution holds the mutex.  With SameDepth, which says *)
(* that workers exist only while the main thread creates or joins them,    *)
(* at most one agent is in appendsolution.                                 *)
Exclusion == \A t \in ThreadIds : pc[t] \in {"append", "count"} => mutex = t

(* The solved node in hand exists and has a length that may be reported.   *)
MainCursor ==
  pc[Main] \in {"append", "count"} =>
    /\ leaf[Main] \in 1 .. Len(ShortSols)
    /\ MinMoves <= Length[Solution(Main)]
    /\ Length[Solution(Main)] <= MaxMoves
    /\ Length[Solution(Main)] <= shortest + optimal

WorkerCursor(t) ==
  /\ pc[t] \in {"pause", "search", "lock", "append", "count"} =>
       task[t] \in Tasks
  /\ pc[t] \in {"lock", "append", "count"} =>
       /\ leaf[t] \in 1 .. Len(Leaves[task[t]])
       /\ Length[Solution(t)] = target[t]

Cursor == MainCursor /\ \A t \in ThreadIds : WorkerCursor(t)

(* Between writing a line and counting it, there is still room for one     *)
(* more line and the line is the last thing in the buffer.                 *)
CountingAt(a) ==
  pc[a] = "count" =>
    /\ MoreCopies(a)
    /\ Fits(a)
    /\ \A i \in used .. used + LineLen[Solution(a)] - 1 :
          buf[i] = <<Solution(a), copy[a]>>

Counting == \A a \in Agents : CountingAt(a)

(* Which workers exist while the main thread creates and joins them.       *)
Roster ==
  /\ pc[Main] = "create" => \A t \in ThreadIds : t >= at => pc[t] = "none"
  /\ pc[Main] = "join" => \A t \in ThreadIds : t < at => pc[t] = "none"

(* The depth being searched lies in the window.                            *)
DepthInWindow ==
  /\ pc[Main] \in {"loop", "create", "join"} =>
       depth > STARTING_MOVES /\ depth >= MinMoves
  /\ pc[Main] \in {"create", "join"} =>
       depth <= MaxMoves /\ depth <= shortest + optimal

(* A counted line lies in the window, and is not longer than the next one  *)
(* can be: before the search all lines have the length of the short        *)
(* solutions, afterwards at most the current depth.                        *)
Early == pc[Main] \in {"call", "maketasks", "append", "count", "prepared"}
Searching == pc[Main] \in {"loop", "create", "join"}

LineInWindow(l) ==
  /\ l[1] \in Sols
  /\ MinMoves <= Length[l[1]] /\ Length[l[1]] <= MaxMoves
  /\ Length[l[1]] <= shortest + optimal
  /\ Early => \E k \in 1 .. Len(ShortSols) : l[1] = ShortSols[k]
  /\ Searching => Length[l[1]] <= depth

ListInWindow == \A i \in 0 .. used-1 : buf[i] # Nul => LineInWindow(buf[i])

(* Nothing is written before the call has looked at its arguments.         *)
NoLines == pc[Main] = "call" => used = 0

IInv ==
  /\ NoLines /\ TypeOK /\ Roles /\ Exclusion /\ SameDepth /\ Roster /\ Cursor /\ Counting
  /\ CountBounded /\ DepthInWindow /\ ListInWindow

-----------------------------------------------------------------------------
(* The constants and the values computed from the request have the types   *)
(* one expects.                                                            *)
LEMMA Constants ==
  /\ Main \in Agents /\ Main \notin ThreadIds /\ Main \in Nat
  /\ ThreadIds \subseteq Agents /\ Agents \subseteq Nat
  /\ \A a \in Agents : a # Main => a \in ThreadIds
  /\ 0 \in ThreadIds /\ NThreads - 1 \in ThreadIds
  BY ThreadsAssumption DEF Main, Agents, ThreadIds

(* The types of what is asked for.                                         *)
LEMMA RequestTypes ==
  ASSUME CallTypes
  PROVE  /\ MinMoves \in Nat /\ MaxMoves \in 0 .. MAXLEN
         /\ maxsolutions \in Nat /\ optimal \in Nat /\ Size \in Nat
  BY RequestsAssumption
     DEF CallTypes, MinMoves, MaxMoves, maxsolutions, optimal, Size, MIN, MAXLEN

(* The values the solver computes with are numbers.                        *)
LEMMA ValueTypes ==
  ASSUME IInv
  PROVE  /\ shortest \in Nat /\ nsols \in Nat /\ depth \in Nat
         /\ MinMoves \in Nat /\ MaxMoves \in Nat /\ MaxMoves <= MAXLEN
         /\ maxsolutions \in Nat /\ optimal \in Nat /\ Size \in Nat
<1>1. CallTypes /\ ListTypes /\ MainTypes
  BY DEF IInv, TypeOK
<1>2. shortest \in Nat /\ nsols \in Nat /\ depth \in Nat
  BY <1>1 DEF ListTypes, MainTypes, MAXLEN
<1>3. /\ MinMoves \in Nat /\ MaxMoves \in 0 .. MAXLEN
      /\ maxsolutions \in Nat /\ optimal \in Nat /\ Size \in Nat
  BY <1>1, RequestTypes
<1>4. MaxMoves \in Nat /\ MaxMoves <= MAXLEN
  BY <1>3 DEF MAXLEN
<1> QED BY <1>2, <1>3, <1>4

(* The types of a solution and of its copies.                              *)
LEMMA SolTypes ==
  ASSUME NEW s \in Sols
  PROVE  /\ Length[s] \in Nat /\ Length[s] <= MAXLEN
         /\ LineLen[s] \in Nat \ {0} /\ Copies[s] \in Nat
<1>1. /\ Length \in [Sols -> 0 .. MAXLEN] /\ Copies \in [Sols -> Nat]
      /\ LineLen \in [Sols -> Nat \ {0}]
  BY SearchTreeAssumption
<1> QED BY <1>1 DEF MAXLEN

(* The solved node an appending agent holds is one of the tree's.          *)
LEMMA SolutionTypes ==
  ASSUME IInv, NEW a \in Agents, pc[a] \in {"append", "count"}
  PROVE  /\ Solution(a) \in Sols
         /\ LineLen[Solution(a)] \in Nat \ {0}
         /\ Length[Solution(a)] \in 0 .. MAXLEN
         /\ Copies[Solution(a)] \in Nat
         /\ MinMoves <= Length[Solution(a)]
         /\ Length[Solution(a)] <= MaxMoves
         /\ Length[Solution(a)] <= shortest + optimal
<1>1. Solution(a) \in Sols
  <2>1. CASE a = Main
    <3>1. leaf[Main] \in 1 .. Len(ShortSols)
      BY <2>1 DEF IInv, Cursor, MainCursor
    <3> QED BY <2>1, <3>1, SearchTreeAssumption DEF Solution
  <2>2. CASE a # Main
    <3>1. a \in ThreadIds
      BY <2>2, Constants
    <3>2. task[a] \in Tasks /\ leaf[a] \in 1 .. Len(Leaves[task[a]])
      BY <3>1 DEF IInv, Cursor, WorkerCursor
    <3> QED BY <2>2, <3>2, SearchTreeAssumption DEF Solution
  <2> QED BY <2>1, <2>2
<1>2. LineLen[Solution(a)] \in Nat \ {0} /\ Length[Solution(a)] \in 0 .. MAXLEN
      /\ Copies[Solution(a)] \in Nat
  BY <1>1, SearchTreeAssumption
<1>3. /\ MinMoves <= Length[Solution(a)]
      /\ Length[Solution(a)] <= MaxMoves
      /\ Length[Solution(a)] <= shortest + optimal
  <2>1. CASE a = Main
    BY <2>1 DEF IInv, Cursor, MainCursor
  <2>2. CASE a # Main
    <3>1. a \in ThreadIds
      BY <2>2, Constants
    <3>2. Length[Solution(a)] = target[a] /\ target[a] = depth
          /\ pc[Main] \in {"create", "join"}
      BY <3>1 DEF IInv, Cursor, WorkerCursor, SameDepth
    <3> QED BY <3>2 DEF IInv, DepthInWindow
  <2> QED BY <2>1, <2>2
<1> QED BY <1>1, <1>2, <1>3

(* At most one agent is in appendsolution.                                 *)
LEMMA OneAppends ==
  ASSUME IInv, NEW a \in Agents, pc[a] \in {"append", "count"},
         NEW b \in Agents, b # a
  PROVE  pc[b] \notin {"append", "count"}
  BY Constants DEF IInv, Exclusion, SameDepth

(* The invariant holds when nissy_solve is called.                         *)
THEOREM InitIInv == Init => IInv
<1> SUFFICES ASSUME Init PROVE IInv
  OBVIOUS
<1> USE Constants, ThreadsAssumption
<1>0. Size \in Nat /\ maxsolutions \in Nat
  BY RequestTypes DEF Init, CallTypes
<1>1. TypeOK
  <2>1. buf \in [0 .. Size -> Lines \cup {Nul, Unset}] /\ used \in 0 .. Size
    BY <1>0 DEF Init
  <2>2. /\ pc \in [Agents -> {"call", "none"}]
        /\ task \in [ThreadIds -> Nat] /\ target \in [ThreadIds -> Nat]
        /\ leaf \in [Agents -> Nat \ {0}] /\ copy \in [Agents -> Nat \ {0}]
        /\ cancelled \in [ThreadIds -> BOOLEAN]
    BY DEF Init
  <2>3. /\ ntasks \in 0 .. NTasks /\ shortest \in 0 .. MAXLEN + 1
        /\ ret \in Nat \cup {NotYet, NISSY_ERROR_BUFFER_SIZE}
    BY SearchTreeAssumption DEF Init, MAXLEN
  <2> QED
    BY <2>1, <2>2, <2>3
       DEF Init, TypeOK, CallTypes, PcTypes, LoopTypes, ArgTypes, ListTypes,
           MainTypes
<1>2. Roles /\ Exclusion /\ SameDepth /\ Roster
  BY DEF Init, Roles, Exclusion, SameDepth, Roster
<1>3. Cursor /\ Counting /\ CountBounded
  BY <1>0 DEF Init, Cursor, MainCursor, WorkerCursor, Counting, CountingAt,
         CountBounded
<1>4. DepthInWindow /\ ListInWindow
  BY DEF Init, DepthInWindow, ListInWindow
<1>5. NoLines
  BY DEF Init, NoLines
<1> QED BY <1>1, <1>2, <1>3, <1>4, <1>5 DEF IInv

-----------------------------------------------------------------------------
(* What a step leaves alone stays as it was.                               *)
LEMMA RequestFrame ==
  ASSUME UNCHANGED req
  PROVE  /\ MinMoves' = MinMoves /\ MaxMoves' = MaxMoves /\ Size' = Size
         /\ maxsolutions' = maxsolutions /\ optimal' = optimal
  BY DEF MinMoves, MaxMoves, Size, maxsolutions, optimal

(* An agent that stays at its leaf has the same solution.                  *)
LEMMA SolutionFrame ==
  ASSUME NEW a \in Agents, leaf'[a] = leaf[a],
         a # Main => task'[a] = task[a]
  PROVE  Solution(a)' = Solution(a)
  BY DEF Solution

(* The types of variables that are left alone.                             *)
LEMMA TypeFrame ==
  ASSUME TypeOK
  PROVE  /\ UNCHANGED call => CallTypes'
         /\ UNCHANGED pc => PcTypes'
         /\ UNCHANGED <<task, leaf, copy>> => LoopTypes'
         /\ UNCHANGED <<target, cancelled, mutex>> => ArgTypes'
         /\ UNCHANGED <<req, list>> => ListTypes'
         /\ UNCHANGED main => MainTypes'
<1>1. UNCHANGED call => CallTypes'
  BY DEF TypeOK, CallTypes, call
<1>2. UNCHANGED pc => PcTypes'
  BY DEF TypeOK, PcTypes
<1>3. UNCHANGED <<task, leaf, copy>> => LoopTypes'
  BY DEF TypeOK, LoopTypes
<1>4. UNCHANGED <<target, cancelled, mutex>> => ArgTypes'
  BY DEF TypeOK, ArgTypes
<1>5. UNCHANGED <<req, list>> => ListTypes'
  BY RequestFrame DEF TypeOK, ListTypes, list
<1>6. UNCHANGED main => MainTypes'
  BY DEF TypeOK, MainTypes, main
<1> QED BY <1>1, <1>2, <1>3, <1>4, <1>5, <1>6

(* The main thread stays where it is.                                      *)
LEMMA MainFrame ==
  ASSUME MainCursor, UNCHANGED <<req, shortest>>,
         pc'[Main] = pc[Main], leaf'[Main] = leaf[Main]
  PROVE  MainCursor'
  BY RequestFrame, SolutionFrame, Constants DEF MainCursor

(* A worker stays where it is.                                             *)
LEMMA WorkerFrame ==
  ASSUME NEW t \in ThreadIds, WorkerCursor(t), pc'[t] = pc[t],
         leaf'[t] = leaf[t], task'[t] = task[t], target'[t] = target[t]
  PROVE  WorkerCursor(t)'
  BY SolutionFrame, Constants DEF WorkerCursor

(* An agent stays where it is in appendsolution.                           *)
LEMMA CountingFrame ==
  ASSUME NEW a \in Agents, CountingAt(a), UNCHANGED <<req, nsols, used, buf>>,
         pc'[a] = pc[a], leaf'[a] = leaf[a], copy'[a] = copy[a],
         a # Main => task'[a] = task[a]
  PROVE  CountingAt(a)'
<1>1. Solution(a)' = Solution(a)
  BY SolutionFrame
<1> QED BY <1>1, RequestFrame DEF CountingAt, MoreCopies, Fits

(* The list stays within the bounds of the request.                        *)
LEMMA ListFrame ==
  ASSUME ListInWindow, UNCHANGED <<req, shortest, used, buf>>,
         Early' => Early,
         Searching' => Searching /\ depth' = depth
  PROVE  ListInWindow'
<1> SUFFICES ASSUME NEW i \in 0 .. used-1, buf[i] # Nul
             PROVE  LineInWindow(buf[i])'
  BY DEF ListInWindow
<1>1. LineInWindow(buf[i])
  BY DEF ListInWindow
<1> QED BY <1>1, RequestFrame DEF LineInWindow

(* A step of a worker that does not touch the list keeps the invariant if  *)
(* it keeps the types, the mutex and the worker's own cursor.              *)
LEMMA QuietWorker ==
  ASSUME IInv, NEW t \in ThreadIds,
         UNCHANGED <<call, list, main, target>>,
         \A a \in Agents : a # t => /\ pc'[a] = pc[a] /\ leaf'[a] = leaf[a]
                                    /\ copy'[a] = copy[a],
         \A u \in ThreadIds : u # t => task'[u] = task[u],
         pc[t] # "none",
         pc'[t] \in {"poll", "pause", "search", "lock", "append", "exit"},
         TypeOK', Exclusion', WorkerCursor(t)'
  PROVE  IInv'
<1>1. t # Main /\ t \in Agents /\ pc'[Main] = pc[Main] /\ leaf'[Main] = leaf[Main]
  BY Constants
<1>2. Roles'
  BY <1>1, Constants DEF IInv, Roles
<1>3. SameDepth' /\ Roster'
  BY <1>1, Constants DEF IInv, SameDepth, Roster, main
<1>4. Cursor'
  <2>1. MainCursor'
    BY <1>1, MainFrame DEF IInv, Cursor, call, list
  <2>2. ASSUME NEW u \in ThreadIds PROVE WorkerCursor(u)'
    BY WorkerFrame, Constants DEF IInv, Cursor
  <2> QED BY <2>1, <2>2 DEF Cursor
<1>5. Counting'
  <2>1. ASSUME NEW a \in Agents, a # t PROVE CountingAt(a)'
    BY <2>1, CountingFrame, Constants DEF IInv, Counting, call, list
  <2>2. CountingAt(t)'
    BY DEF CountingAt
  <2> QED BY <2>1, <2>2 DEF Counting
<1>6. CountBounded' /\ DepthInWindow'
  BY <1>1, RequestFrame DEF IInv, CountBounded, DepthInWindow, call, list, main
<1>7. ListInWindow'
  BY <1>1, ListFrame DEF IInv, Early, Searching, call, list, main
<1>8. NoLines'
  BY <1>1 DEF IInv, NoLines, list
<1> QED BY <1>2, <1>3, <1>4, <1>5, <1>6, <1>7, <1>8 DEF IInv

(* A step of the main thread while there are no workers keeps the          *)
(* invariant if it keeps the parts that speak of the main thread.          *)
LEMMA QuietMain ==
  ASSUME IInv,
         UNCHANGED <<req, worker, mutex, nsols, used>>,
         pc[Main] \notin {"create", "join"},
         \A t \in ThreadIds : pc'[t] = pc[t],
         \A t \in ThreadIds : leaf'[t] = leaf[t] /\ copy'[t] = copy[t],
         pc'[Main] \notin {"call", "count", "join"},
         TypeOK', Roles', MainCursor', DepthInWindow', ListInWindow'
  PROVE  IInv'
<1>1. \A t \in ThreadIds : pc[t] = "none" /\ pc'[t] = "none"
  BY DEF IInv, SameDepth
<1>2. Exclusion' /\ SameDepth' /\ Roster'
  BY <1>1 DEF Exclusion, SameDepth, Roster
<1>3. Cursor'
  BY <1>1 DEF Cursor, WorkerCursor
<1>4. Counting'
  BY <1>1, Constants DEF Counting, CountingAt
<1>5. CountBounded'
  BY RequestFrame DEF IInv, CountBounded
<1> QED BY <1>2, <1>3, <1>4, <1>5 DEF IInv, NoLines

-----------------------------------------------------------------------------
(* The steps of the main thread.                                           *)
LEMMA CallStep == IInv /\ Call => IInv'
<1> SUFFICES ASSUME IInv, Call PROVE IInv'
  OBVIOUS
<1>1. TypeOK'
  <2>1. CallTypes' /\ PcTypes'
    BY Constants DEF IInv, TypeOK, CallTypes, PcTypes, Call
  <2>2. ListTypes'
    BY RequestFrame DEF IInv, TypeOK, ListTypes, Call
  <2>3. LoopTypes' /\ ArgTypes' /\ MainTypes'
    BY TypeFrame DEF IInv, Call, worker
  <2> QED BY <2>1, <2>2, <2>3 DEF IInv, TypeOK, Call
<1>2. Roles' /\ MainCursor' /\ DepthInWindow' /\ pc'[Main] \in {"maketasks", "done"}
  BY Constants
     DEF IInv, TypeOK, PcTypes, Roles, Call, MainCursor, DepthInWindow
<1>3. ListInWindow'
  BY <1>1 DEF ListInWindow, IInv, NoLines, Call
<1>4. \A t \in ThreadIds : pc'[t] = pc[t]
  BY Constants DEF IInv, TypeOK, PcTypes, Call
<1> QED BY <1>1, <1>2, <1>3, <1>4, QuietMain, Constants DEF Call

(* The main thread reports a short solution, or goes on to the next.       *)
LEMMA MakeShortStep == IInv /\ MakeShort => IInv'
<1> SUFFICES ASSUME IInv, MakeShort PROVE IInv'
  OBVIOUS
<1>1. TypeOK'
  <2>1. PcTypes'
    BY Constants DEF IInv, TypeOK, PcTypes, MakeShort
  <2>2. LoopTypes'
    <3>1. LoopTypes
      BY DEF IInv, TypeOK
    <3>2. /\ task' = task
          /\ copy' = copy \/ copy' = [copy EXCEPT ![Main] = 1]
          /\ leaf' = leaf \/ leaf' = [leaf EXCEPT ![Main] = @ + 1]
      BY DEF MakeShort, worker
    <3> QED BY <3>1, <3>2, Constants DEF LoopTypes
  <2>3. CallTypes' /\ ArgTypes' /\ ListTypes' /\ MainTypes'
    BY TypeFrame DEF IInv, MakeShort, call, worker
  <2> QED BY <2>1, <2>2, <2>3 DEF IInv, TypeOK, MakeShort
<1>2. /\ Roles' /\ DepthInWindow' /\ pc'[Main] \in {"maketasks", "append"}
      /\ \A t \in ThreadIds : /\ pc'[t] = pc[t]
                              /\ leaf'[t] = leaf[t] /\ copy'[t] = copy[t]
  BY Constants
     DEF IInv, TypeOK, PcTypes, LoopTypes, Roles, MakeShort, DepthInWindow
<1>3. MainCursor'
  <2> SUFFICES ASSUME pc'[Main] = "append" PROVE MainCursor'
    BY <1>2 DEF MainCursor
  <2>1. leaf' = leaf /\ Wanted(Length[ShortSols[leaf[Main]]])
        /\ leaf[Main] <= Len(ShortSols)
    BY DEF MakeShort, IInv, TypeOK, PcTypes
  <2>2. leaf[Main] \in 1 .. Len(ShortSols)
    BY <2>1, Constants, SearchTreeAssumption DEF IInv, TypeOK, LoopTypes
  <2>3. Length[ShortSols[leaf[Main]]] \in 0 .. MAXLEN
    BY <2>2, SearchTreeAssumption
  <2>4. shortest \in Nat /\ optimal \in Nat /\ MinMoves \in Nat /\ MaxMoves \in Nat
    BY ValueTypes
  <2>5. UNCHANGED <<req, shortest>>
    BY DEF MakeShort, call, list
  <2>6. Solution(Main)' = ShortSols[leaf[Main]]
    BY <2>1 DEF Solution
  <2>7. /\ MinMoves <= Length[ShortSols[leaf[Main]]]
        /\ Length[ShortSols[leaf[Main]]] <= MaxMoves
        /\ Length[ShortSols[leaf[Main]]] <= shortest + optimal
    <3> DEFINE n == Length[ShortSols[leaf[Main]]]
    <3>1. n >= MinMoves /\ n <= MaxMoves /\ ~(n > shortest + optimal)
      BY <2>1 DEF Wanted, SolutionsDone
    <3>2. n \in Nat
      BY <2>3 DEF MAXLEN
    <3> HIDE DEF n
    <3> QED BY <2>4, <3>1, <3>2 DEF n
  <2> QED
    BY <2>1, <2>2, <2>5, <2>6, <2>7, RequestFrame DEF MainCursor
<1>4. ListInWindow'
  BY <1>2, ListFrame DEF IInv, MakeShort, Early, Searching, call, list, main
<1> QED
  BY <1>1, <1>2, <1>3, <1>4, QuietMain DEF MakeShort, call, list

(* The tasks are made.                                                     *)
LEMMA MakeTasksEndStep == IInv /\ MakeTasksEnd => IInv'
<1> SUFFICES ASSUME IInv, MakeTasksEnd PROVE IInv'
  OBVIOUS
<1>1. TypeOK'
  <2>1. PcTypes'
    BY Constants DEF IInv, TypeOK, PcTypes, MakeTasksEnd
  <2>2. MainTypes'
    BY SearchTreeAssumption DEF IInv, TypeOK, MainTypes, MakeTasksEnd
  <2>3. CallTypes' /\ LoopTypes' /\ ArgTypes' /\ ListTypes'
    BY TypeFrame DEF IInv, MakeTasksEnd, call, worker
  <2> QED BY <2>1, <2>2, <2>3 DEF IInv, TypeOK, MakeTasksEnd
<1>2. /\ Roles' /\ DepthInWindow' /\ MainCursor' /\ pc'[Main] = "prepared"
      /\ \A t \in ThreadIds : pc'[t] = pc[t]
  BY Constants
     DEF IInv, TypeOK, PcTypes, Roles, MakeTasksEnd, DepthInWindow, MainCursor
<1>3. ListInWindow'
  BY <1>2, ListFrame DEF IInv, MakeTasksEnd, Early, Searching, call, list
<1> QED BY <1>1, <1>2, <1>3, QuietMain DEF MakeTasksEnd, call, list

(* The search by depth begins.                                             *)
LEMMA PreparedStep == IInv /\ Prepared => IInv'
<1> SUFFICES ASSUME IInv, Prepared PROVE IInv'
  OBVIOUS
<1>0. /\ shortest \in Nat /\ optimal \in Nat /\ MinMoves \in Nat
      /\ MaxMoves \in Nat /\ depth \in Nat /\ nsols \in Nat
  BY ValueTypes
<1>1. TypeOK'
  <2>1. CallTypes' /\ PcTypes'
    BY <1>0, Constants DEF IInv, TypeOK, CallTypes, PcTypes, Prepared
  <2>2. MainTypes'
    BY <1>0 DEF IInv, TypeOK, MainTypes, Prepared, MAX, STARTING_MOVES
  <2>3. LoopTypes' /\ ArgTypes' /\ ListTypes'
    BY TypeFrame DEF IInv, Prepared, worker
  <2> QED BY <2>1, <2>2, <2>3 DEF IInv, TypeOK, Prepared
<1>2. /\ Roles' /\ MainCursor' /\ pc'[Main] \in {"loop", "done"}
      /\ \A t \in ThreadIds : pc'[t] = pc[t]
  BY Constants DEF IInv, TypeOK, PcTypes, Roles, Prepared, MainCursor
<1>3. pc'[Main] = "loop" => depth' > STARTING_MOVES /\ depth' >= MinMoves
  BY <1>0, Constants
     DEF IInv, TypeOK, PcTypes, Prepared, MAX, STARTING_MOVES
<1>4. DepthInWindow'
  BY <1>2, <1>3, RequestFrame DEF DepthInWindow, Prepared
<1>5. ListInWindow'
  <2> SUFFICES ASSUME NEW i \in 0 .. used-1, buf[i] # Nul
               PROVE  LineInWindow(buf[i])'
    BY DEF ListInWindow, Prepared, list
  <2>1. LineInWindow(buf[i]) /\ Early
    BY DEF IInv, ListInWindow, Early, Prepared
  <2>2. Length[buf[i][1]] <= STARTING_MOVES /\ Length[buf[i][1]] \in Nat
    <3>1. PICK k \in 1 .. Len(ShortSols) : buf[i][1] = ShortSols[k]
      BY <2>1 DEF LineInWindow
    <3>2. Length[ShortSols[k]] <= STARTING_MOVES
      BY SearchTreeAssumption
    <3> QED BY <2>1, <3>1, <3>2, SolTypes DEF LineInWindow
  <2>3. ~Early' /\ (Searching' => Length[buf[i][1]] <= depth')
    BY <1>1, <1>2, <1>3, <2>2
       DEF Early, Searching, STARTING_MOVES, TypeOK, MainTypes
  <2> QED
    BY <2>1, <2>3, RequestFrame DEF LineInWindow, Prepared, list
<1> QED BY <1>1, <1>2, <1>4, <1>5, QuietMain DEF Prepared, list

(* The main thread goes on to the next depth, or stops.                    *)
LEMMA NextDepthStep == IInv /\ NextDepth => IInv'
<1> SUFFICES ASSUME IInv, NextDepth PROVE IInv'
  OBVIOUS
<1>0. /\ shortest \in Nat /\ optimal \in Nat /\ MinMoves \in Nat
      /\ MaxMoves \in Nat /\ depth \in Nat /\ nsols \in Nat
  BY ValueTypes
<1>1. TypeOK'
  <2>1. CallTypes' /\ PcTypes'
    BY <1>0, Constants DEF IInv, TypeOK, CallTypes, PcTypes, NextDepth
  <2>2. LoopTypes' /\ ArgTypes' /\ ListTypes' /\ MainTypes'
    BY TypeFrame DEF IInv, NextDepth, worker
  <2> QED BY <2>1, <2>2 DEF IInv, TypeOK, NextDepth
<1>2. /\ Roles' /\ MainCursor' /\ pc'[Main] \in {"create", "done"}
      /\ \A t \in ThreadIds : pc'[t] = pc[t]
  BY Constants DEF IInv, TypeOK, PcTypes, Roles, NextDepth, MainCursor
<1>3. pc'[Main] = "create" => depth <= MaxMoves /\ depth <= shortest + optimal
  BY <1>0, Constants DEF IInv, TypeOK, PcTypes, NextDepth, SolutionsDone
<1>4. DepthInWindow'
  BY <1>2, <1>3, RequestFrame DEF IInv, DepthInWindow, NextDepth, list, main
<1>5. ListInWindow'
  BY <1>2, ListFrame DEF IInv, NextDepth, Early, Searching, list, main
<1> QED BY <1>1, <1>2, <1>4, <1>5, QuietMain DEF NextDepth, list

(* A worker is created.                                                    *)
LEMMA CreateStep == \A t \in ThreadIds : IInv /\ Create(t) => IInv'
<1> SUFFICES ASSUME NEW t \in ThreadIds, IInv, Create(t) PROVE IInv'
  OBVIOUS
<1>1. TypeOK'
  <2>1. PcTypes'
    BY Constants DEF IInv, TypeOK, PcTypes, Create
  <2>2. LoopTypes'
    BY Constants DEF IInv, TypeOK, LoopTypes, Create
  <2>3. ArgTypes'
    BY DEF IInv, TypeOK, ArgTypes, MainTypes, Create
  <2>4. MainTypes'
    BY ThreadsAssumption DEF IInv, TypeOK, MainTypes, ThreadIds, Create
  <2>5. CallTypes' /\ ListTypes'
    BY TypeFrame DEF IInv, Create, call
  <2> QED BY <2>1, <2>2, <2>3, <2>4, <2>5 DEF IInv, TypeOK, Create
<1>2. /\ pc[Main] = "create" /\ pc'[Main] \in {"create", "join"}
      /\ pc'[t] = "poll" /\ t # Main /\ at = t
      /\ target'[t] = depth /\ depth' = depth
      /\ \A u \in ThreadIds : u # t => /\ pc'[u] = pc[u] /\ task'[u] = task[u]
                                       /\ target'[u] = target[u]
      /\ \A a \in Agents : leaf'[a] = leaf[a] /\ copy'[a] = copy[a]
  BY Constants
     DEF IInv, TypeOK, PcTypes, LoopTypes, ArgTypes, Create
<1>3. Roles' /\ Exclusion' /\ SameDepth'
  <2>1. Roles /\ Exclusion /\ SameDepth /\ mutex' = mutex
    BY DEF IInv, Create
  <2>2. Roles'
    BY <1>2, <2>1, Constants DEF Roles
  <2>3. Exclusion'
    BY <1>2, <2>1 DEF Exclusion
  <2>4. SameDepth'
    BY <1>2, <2>1 DEF SameDepth
  <2> QED BY <2>2, <2>3, <2>4
<1>4. Roster'
  <2>1. CASE t = NThreads-1
    BY <2>1, <1>2, Constants DEF Roster, Create, IInv, TypeOK, PcTypes, ThreadIds
  <2>2. CASE t # NThreads-1
    <3>1. pc'[Main] = "create" /\ at' = t + 1
      BY <2>2, Constants DEF Create, IInv, TypeOK, PcTypes
    <3> QED BY <3>1, <1>2, Constants DEF IInv, Roster, ThreadIds
  <2> QED BY <2>1, <2>2
<1>5. Cursor'
  <2>1. MainCursor' /\ WorkerCursor(t)'
    BY <1>2 DEF MainCursor, WorkerCursor
  <2>2. ASSUME NEW u \in ThreadIds, u # t PROVE WorkerCursor(u)'
    BY <1>2, <2>2, WorkerFrame, Constants DEF IInv, Cursor
  <2> QED BY <2>1, <2>2 DEF Cursor
<1>6. Counting'
  <2>1. ASSUME NEW a \in Agents, a # t, a # Main PROVE CountingAt(a)'
    BY <1>2, <2>1, CountingFrame, Constants DEF IInv, Counting, Create, call, list
  <2>2. CountingAt(t)' /\ CountingAt(Main)'
    BY <1>2 DEF CountingAt
  <2> QED BY <2>1, <2>2 DEF Counting
<1>7. CountBounded' /\ DepthInWindow'
  BY <1>2, RequestFrame
     DEF IInv, CountBounded, DepthInWindow, Create, call, list
<1>8. ListInWindow' /\ NoLines'
  BY <1>2, ListFrame DEF IInv, Create, Early, Searching, NoLines, call, list
<1> QED BY <1>1, <1>3, <1>4, <1>5, <1>6, <1>7, <1>8 DEF IInv

(* A worker is joined.                                                     *)
LEMMA JoinStep == \A t \in ThreadIds : IInv /\ Join(t) => IInv'
<1> SUFFICES ASSUME NEW t \in ThreadIds, IInv, Join(t) PROVE IInv'
  OBVIOUS
<1>1. TypeOK'
  <2>1. PcTypes'
    BY Constants DEF IInv, TypeOK, PcTypes, Join
  <2>2. MainTypes'
    BY ThreadsAssumption
       DEF IInv, TypeOK, MainTypes, ArgTypes, ThreadIds, Join, Collect
  <2>3. CallTypes' /\ ListTypes' /\ LoopTypes' /\ ArgTypes'
    BY TypeFrame DEF IInv, Join, call, worker
  <2> QED BY <2>1, <2>2, <2>3 DEF IInv, TypeOK, Join
<1>2. /\ pc[Main] = "join" /\ pc'[Main] \in {"join", "loop"}
      /\ pc'[t] = "none" /\ t # Main /\ at = t
      /\ \A u \in ThreadIds : u # t => pc'[u] = pc[u]
      /\ \A u \in ThreadIds : u < t => pc[u] = "none"
      /\ depth' = IF pc'[Main] = "loop" THEN depth + 1 ELSE depth
      /\ pc'[Main] = "loop" <=> t = NThreads-1
      /\ pc'[Main] = "join" => at' = t + 1
  BY Constants DEF IInv, TypeOK, PcTypes, Roster, Join
<1>3. Roles' /\ Exclusion'
  BY <1>2, Constants DEF IInv, Roles, Exclusion, Join
<1>4. SameDepth' /\ Roster'
  <2>1. CASE t = NThreads-1
    <3>1. \A u \in ThreadIds : pc'[u] = "none"
      BY <2>1, <1>2, ThreadsAssumption DEF ThreadIds
    <3> QED BY <3>1 DEF SameDepth, Roster
  <2>2. CASE t # NThreads-1
    BY <2>2, <1>2, ThreadsAssumption
       DEF IInv, SameDepth, Roster, Join, worker, ThreadIds
  <2> QED BY <2>1, <2>2
<1>5. Cursor'
  <2>1. MainCursor' /\ WorkerCursor(t)'
    BY <1>2 DEF MainCursor, WorkerCursor
  <2>2. ASSUME NEW u \in ThreadIds, u # t PROVE WorkerCursor(u)'
    BY <1>2, <2>2, WorkerFrame, Constants DEF IInv, Cursor, Join, worker
  <2> QED BY <2>1, <2>2 DEF Cursor
<1>6. Counting'
  <2>1. ASSUME NEW a \in Agents, a # t, a # Main PROVE CountingAt(a)'
    BY <1>2, <2>1, CountingFrame, Constants
       DEF IInv, Counting, Join, call, list, worker
  <2>2. CountingAt(t)' /\ CountingAt(Main)'
    BY <1>2 DEF CountingAt
  <2> QED BY <2>1, <2>2 DEF Counting
<1>7. CountBounded' /\ DepthInWindow'
  BY <1>2, RequestFrame, RequestTypes
     DEF IInv, TypeOK, MainTypes, CountBounded, DepthInWindow, Join, call, list,
         STARTING_MOVES
<1>8. ListInWindow' /\ NoLines'
  <2>1. ListInWindow'
    <3> SUFFICES ASSUME NEW i \in 0 .. used-1, buf[i] # Nul
                 PROVE  LineInWindow(buf[i])'
      BY DEF ListInWindow, Join, list
    <3>1. LineInWindow(buf[i]) /\ ~Early' /\ Searching
      BY <1>2 DEF IInv, ListInWindow, Early, Searching
    <3>2. Length[buf[i][1]] \in Nat /\ depth \in Nat
      BY <3>1, SolTypes DEF LineInWindow, IInv, TypeOK, MainTypes
    <3>3. Length[buf[i][1]] <= depth'
      BY <1>2, <3>1, <3>2 DEF LineInWindow
    <3> QED
      BY <3>1, <3>3, RequestFrame DEF LineInWindow, Join, call, list
  <2> QED BY <2>1, <1>2 DEF NoLines
<1> QED BY <1>1, <1>3, <1>4, <1>5, <1>6, <1>7, <1>8 DEF IInv

-----------------------------------------------------------------------------
(* The steps of a worker that leave the list alone.                        *)
LEMMA PollStep == \A t \in ThreadIds : IInv /\ Poll(t) => IInv'
<1> SUFFICES ASSUME NEW t \in ThreadIds, IInv, Poll(t) PROVE IInv'
  OBVIOUS
<1>1. TypeOK'
  <2>1. PcTypes'
    BY Constants DEF IInv, TypeOK, PcTypes, Poll, StartTask, Cancel
  <2>2. LoopTypes'
    BY Constants DEF IInv, TypeOK, LoopTypes, Poll, StartTask, Cancel
  <2>3. ArgTypes'
    BY DEF IInv, TypeOK, ArgTypes, Poll, StartTask, Cancel
  <2>4. CallTypes' /\ ListTypes' /\ MainTypes'
    BY TypeFrame DEF IInv, Poll, call
  <2> QED BY <2>1, <2>2, <2>3, <2>4 DEF IInv, TypeOK, Poll
<1>2. /\ t # Main /\ pc[t] = "poll" /\ pc'[t] \in {"pause", "search", "exit"}
      /\ pc'[t] \in {"pause", "search"} => task[t] < ntasks
      /\ \A a \in Agents : a # t => pc'[a] = pc[a] /\ leaf'[a] = leaf[a]
  BY Constants
     DEF IInv, TypeOK, PcTypes, LoopTypes, Poll, StartTask, Cancel
<1>3. Exclusion'
  BY <1>2, Constants DEF IInv, Exclusion, Poll
<1>4. WorkerCursor(t)'
  BY <1>2, SearchTreeAssumption
     DEF WorkerCursor, Poll, IInv, TypeOK, LoopTypes, MainTypes, Tasks
<1>5. UNCHANGED <<call, list, main, target, task, copy>>
  BY DEF Poll
<1> QED BY <1>1, <1>2, <1>3, <1>4, <1>5, QuietWorker

(* A worker comes out of a pause.                                          *)
LEMMA PauseEndStep == \A t \in ThreadIds : IInv /\ PauseEnd(t) => IInv'
<1> SUFFICES ASSUME NEW t \in ThreadIds, IInv, PauseEnd(t) PROVE IInv'
  OBVIOUS
<1>1. TypeOK'
  <2>1. PcTypes'
    BY Constants DEF IInv, TypeOK, PcTypes, PauseEnd, StartTask, Cancel
  <2>2. LoopTypes'
    BY Constants DEF IInv, TypeOK, LoopTypes, PauseEnd, StartTask, Cancel
  <2>3. ArgTypes'
    BY DEF IInv, TypeOK, ArgTypes, PauseEnd, StartTask, Cancel
  <2>4. CallTypes' /\ ListTypes' /\ MainTypes'
    BY TypeFrame DEF IInv, PauseEnd, call
  <2> QED BY <2>1, <2>2, <2>3, <2>4 DEF IInv, TypeOK, PauseEnd
<1>2. /\ t # Main /\ pc[t] = "pause" /\ pc'[t] \in {"search", "exit"}
      /\ \A a \in Agents : a # t => pc'[a] = pc[a] /\ leaf'[a] = leaf[a]
  BY Constants
     DEF IInv, TypeOK, PcTypes, LoopTypes, PauseEnd, StartTask, Cancel
<1>3. Exclusion'
  BY <1>2, Constants DEF IInv, Exclusion, PauseEnd
<1>4. WorkerCursor(t)'
  BY <1>2 DEF WorkerCursor, PauseEnd, IInv, Cursor
<1>5. UNCHANGED <<call, list, main, target, task, copy>>
  BY DEF PauseEnd
<1> QED BY <1>1, <1>2, <1>3, <1>4, <1>5, QuietWorker

(* A worker searches its task for a solution.                              *)
LEMMA SearchStep == \A t \in ThreadIds : IInv /\ Search(t) => IInv'
<1> SUFFICES ASSUME NEW t \in ThreadIds, IInv, Search(t) PROVE IInv'
  OBVIOUS
<1>1. TypeOK'
  <2>1. PcTypes'
    BY Constants DEF IInv, TypeOK, PcTypes, Search
  <2>2. LoopTypes'
    <3>1. LoopTypes
      BY DEF IInv, TypeOK
    <3>2. task' = task /\ copy' = copy
      BY DEF Search, worker
    <3>3. leaf' = leaf \/ leaf' = [leaf EXCEPT ![t] = leaf[t] + 1]
      BY DEF Search
    <3>4. leaf' \in [Agents -> Nat \ {0}]
      BY <3>1, <3>3, Constants DEF LoopTypes
    <3> QED BY <3>1, <3>2, <3>4 DEF LoopTypes
  <2>3. CallTypes' /\ ArgTypes' /\ ListTypes' /\ MainTypes'
    BY TypeFrame DEF IInv, Search, call, worker
  <2> QED BY <2>1, <2>2, <2>3 DEF IInv, TypeOK, Search
<1>2. /\ t # Main /\ pc[t] = "search" /\ pc'[t] \in {"search", "lock"}
      /\ pc'[t] = "lock" => leaf' = leaf /\ Length[Solution(t)] = target[t]
      /\ \A a \in Agents : a # t => pc'[a] = pc[a] /\ leaf'[a] = leaf[a]
  BY Constants DEF IInv, TypeOK, PcTypes, LoopTypes, Search
<1>3. Exclusion'
  BY <1>2, Constants DEF IInv, Exclusion, Search
<1>4. WorkerCursor(t)'
  <2>1. task' = task /\ target' = target /\ task[t] \in Tasks
    BY <1>2 DEF Search, worker, IInv, Cursor, WorkerCursor
  <2>2. CASE pc'[t] = "lock"
    <3>1. Solution(t)' = Solution(t)
      BY <2>1, <2>2, <1>2, SolutionFrame, Constants
    <3>2. leaf[t] \in 1 .. Len(Leaves[task[t]])
      BY <2>1, SearchTreeAssumption, Constants
         DEF Search, IInv, TypeOK, LoopTypes
    <3> QED BY <2>1, <2>2, <3>1, <3>2, <1>2 DEF WorkerCursor
  <2>3. CASE pc'[t] = "search"
    BY <2>1, <2>3 DEF WorkerCursor
  <2> QED BY <1>2, <2>2, <2>3
<1>5. UNCHANGED <<call, list, main, target, task, copy>>
  BY DEF Search, worker
<1> QED BY <1>1, <1>2, <1>3, <1>4, <1>5, QuietWorker

(* A worker is done with its task.                                         *)
LEMMA SearchEndStep == \A t \in ThreadIds : IInv /\ SearchEnd(t) => IInv'
<1> SUFFICES ASSUME NEW t \in ThreadIds, IInv, SearchEnd(t) PROVE IInv'
  OBVIOUS
<1>1. TypeOK'
  <2>1. PcTypes'
    BY Constants DEF IInv, TypeOK, PcTypes, SearchEnd
  <2>2. LoopTypes'
    BY ThreadsAssumption DEF IInv, TypeOK, LoopTypes, SearchEnd
  <2>3. CallTypes' /\ ArgTypes' /\ ListTypes' /\ MainTypes'
    BY TypeFrame DEF IInv, SearchEnd, call
  <2> QED BY <2>1, <2>2, <2>3 DEF IInv, TypeOK, SearchEnd
<1>2. /\ t # Main /\ pc[t] = "search" /\ pc'[t] = "poll"
      /\ \A a \in Agents : a # t => pc'[a] = pc[a]
      /\ \A u \in ThreadIds : u # t => task'[u] = task[u]
  BY Constants DEF IInv, TypeOK, PcTypes, LoopTypes, SearchEnd
<1>3. Exclusion' /\ WorkerCursor(t)'
  BY <1>2, Constants DEF IInv, Exclusion, WorkerCursor, SearchEnd
<1>4. UNCHANGED <<call, list, main, target, leaf, copy>>
  BY DEF SearchEnd
<1> QED BY <1>1, <1>2, <1>3, <1>4, QuietWorker

(* A worker enters the list.                                               *)
LEMMA LockListStep == \A t \in ThreadIds : IInv /\ LockList(t) => IInv'
<1> SUFFICES ASSUME NEW t \in ThreadIds, IInv, LockList(t) PROVE IInv'
  OBVIOUS
<1>1. TypeOK'
  <2>1. PcTypes'
    BY Constants DEF IInv, TypeOK, PcTypes, LockList
  <2>2. LoopTypes' /\ ArgTypes'
    BY Constants DEF IInv, TypeOK, LoopTypes, ArgTypes, LockList, worker
  <2>3. CallTypes' /\ ListTypes' /\ MainTypes'
    BY TypeFrame DEF IInv, LockList, call
  <2> QED BY <2>1, <2>2, <2>3 DEF IInv, TypeOK, LockList
<1>2. /\ t # Main /\ pc[t] = "lock" /\ pc'[t] = "append"
      /\ \A a \in Agents : a # t => pc'[a] = pc[a] /\ copy'[a] = copy[a]
  BY Constants DEF IInv, TypeOK, PcTypes, LoopTypes, LockList
<1>3. UNCHANGED <<call, list, main, target, leaf, task>>
  BY DEF LockList, worker
<1>4. Exclusion'
  <2>1. \A u \in ThreadIds : pc[u] \notin {"append", "count"}
    BY DEF IInv, Exclusion, LockList, NoThread, ThreadIds
  <2> QED BY <2>1, <1>2, Constants DEF Exclusion, LockList
<1>5. WorkerCursor(t)'
  BY <1>2, <1>3, SolutionFrame, Constants DEF IInv, Cursor, WorkerCursor
<1> QED BY <1>1, <1>2, <1>3, <1>4, <1>5, QuietWorker

-----------------------------------------------------------------------------
(* The steps of appendsolution, by a worker or by the main thread.         *)
LEMMA AppendLineStep == \A a \in Agents : IInv /\ AppendLine(a) => IInv'
<1> SUFFICES ASSUME NEW a \in Agents, IInv, AppendLine(a) PROVE IInv'
  OBVIOUS
<1> DEFINE s == Solution(a)
           n == LineLen[Solution(a)]
<1>0. /\ s \in Sols /\ n \in Nat \ {0} /\ used \in Nat /\ Size \in Nat
      /\ used + n <= Size /\ copy[a] \in Nat \ {0} /\ copy[a] <= Copies[s]
      /\ nsols < maxsolutions
  BY SolutionTypes, RequestTypes
     DEF AppendLine, Fits, MoreCopies, IInv, TypeOK, ListTypes, LoopTypes
<1>1. /\ pc[a] = "append" /\ pc'[a] = "count"
      /\ \A b \in Agents : b # a => pc'[b] = pc[b]
      /\ UNCHANGED <<call, leaf, copy, worker, mutex, nsols, shortest, used, main>>
  BY DEF AppendLine, IInv, TypeOK, PcTypes
<1>2. s' = s /\ n' = n
  BY <1>1, SolutionFrame DEF worker
<1>3. buf' = [i \in 0 .. Size |->
                IF i \in used .. used + n - 1 THEN <<s, copy[a]>> ELSE buf[i]]
  BY DEF AppendLine
<1>4. TypeOK'
  <2>1. PcTypes'
    BY DEF IInv, TypeOK, PcTypes, AppendLine
  <2>2. <<s, copy[a]>> \in Lines
    BY <1>0, SolTypes DEF Lines
  <2>3. buf' \in [0 .. Size -> Lines \cup {Nul, Unset}]
    <3>1. buf \in [0 .. Size -> Lines \cup {Nul, Unset}]
      BY DEF IInv, TypeOK, ListTypes
    <3> HIDE DEF s, n
    <3> QED BY <1>3, <2>2, <3>1
  <2>4. ListTypes'
    BY <1>1, <2>3, RequestFrame DEF IInv, TypeOK, ListTypes, call
  <2>5. CallTypes' /\ LoopTypes' /\ ArgTypes' /\ MainTypes'
    BY <1>1, TypeFrame DEF IInv, worker
  <2> QED BY <2>1, <2>4, <2>5 DEF IInv, TypeOK, AppendLine
<1>5. Roles' /\ Exclusion' /\ SameDepth' /\ Roster' /\ NoLines'
  BY <1>1, Constants
     DEF IInv, Roles, Exclusion, SameDepth, Roster, NoLines, worker, main
<1>6. Cursor'
  <2>1. MainCursor'
    <3>1. MainCursor /\ pc'[Main] = "count" => pc[Main] \in {"append", "count"}
      BY <1>1, Constants DEF IInv, Cursor
    <3>2. pc'[Main] = "append" => pc[Main] = "append"
      BY <1>1, Constants
    <3>3. Solution(Main)' = Solution(Main)
      BY <1>1, SolutionFrame, Constants
    <3> QED
      BY <1>1, <3>1, <3>2, <3>3, RequestFrame DEF IInv, Cursor, MainCursor, call
  <2>2. ASSUME NEW t \in ThreadIds PROVE WorkerCursor(t)'
    <3>1. t \in Agents /\ t # Main /\ Solution(t)' = Solution(t)
      BY <1>1, SolutionFrame, Constants DEF worker
    <3>2. pc'[t] = pc[t] \/ (pc[t] = "append" /\ pc'[t] = "count")
      BY <1>1, <3>1
    <3> QED BY <1>1, <3>1, <3>2 DEF IInv, Cursor, WorkerCursor, worker
  <2> QED BY <2>1, <2>2 DEF Cursor
<1>7. Counting'
  <2>1. ASSUME NEW b \in Agents, b # a PROVE CountingAt(b)'
    BY <1>1, <2>1, OneAppends DEF CountingAt
  <2>2. CountingAt(a)'
    <3>1. MoreCopies(a)' /\ Fits(a)'
      BY <1>0, <1>1, <1>2, RequestFrame DEF MoreCopies, Fits, call
    <3>2. \A i \in used .. used + n - 1 : buf'[i] = <<s, copy[a]>>
      <4> HIDE DEF s, n
      <4> QED BY <1>0, <1>3
    <3> QED BY <1>1, <1>2, <3>1, <3>2 DEF CountingAt
  <2> QED BY <2>1, <2>2 DEF Counting
<1>8. CountBounded' /\ DepthInWindow'
  BY <1>1, RequestFrame, Constants
     DEF IInv, CountBounded, DepthInWindow, call, main
<1>9. ListInWindow'
  <2> SUFFICES ASSUME NEW i \in 0 .. used-1, buf'[i] # Nul
               PROVE  LineInWindow(buf[i])'
    BY <1>1 DEF ListInWindow, Nul
  <2>1. buf'[i] = buf[i]
    <3> HIDE DEF s, n
    <3> QED BY <1>0, <1>3
  <2>2. LineInWindow(buf[i])
    BY <2>1 DEF IInv, ListInWindow
  <2>3. (Early' => Early) /\ (Searching' => Searching)
    BY <1>1, Constants DEF Early, Searching
  <2> QED
    BY <1>1, <2>1, <2>2, <2>3, RequestFrame DEF LineInWindow, call, main
<1> QED BY <1>4, <1>5, <1>6, <1>7, <1>8, <1>9 DEF IInv

(* A line is counted.                                                      *)
LEMMA CountLineStep == \A a \in Agents : IInv /\ CountLine(a) => IInv'
<1> SUFFICES ASSUME NEW a \in Agents, IInv, CountLine(a) PROVE IInv'
  OBVIOUS
<1> DEFINE s == Solution(a)
           n == LineLen[Solution(a)]
<1>0. /\ s \in Sols /\ n \in Nat \ {0} /\ used \in Nat /\ Size \in Nat
      /\ nsols \in Nat /\ shortest \in Nat /\ shortest <= MAXLEN + 1
      /\ optimal \in Nat /\ MinMoves \in Nat /\ MaxMoves \in Nat
      /\ maxsolutions \in Nat
      /\ Length[s] \in Nat /\ Length[s] <= MAXLEN /\ copy[a] \in Nat \ {0}
  <2>1. pc[a] = "count"
    BY DEF CountLine
  <2>2. s \in Sols /\ n \in Nat \ {0}
    BY <2>1, SolutionTypes
  <2>3. Length[s] \in Nat /\ Length[s] <= MAXLEN
    BY <2>2, SolTypes
  <2>4. CallTypes /\ nsols \in Nat /\ copy[a] \in Nat \ {0}
    BY DEF IInv, TypeOK, ListTypes, LoopTypes
  <2>5. shortest \in Nat /\ shortest <= MAXLEN + 1
    BY DEF IInv, TypeOK, ListTypes, MAXLEN
  <2>6. /\ Size \in Nat /\ optimal \in Nat /\ maxsolutions \in Nat
        /\ MinMoves \in Nat /\ MaxMoves \in Nat
    BY <2>4, RequestTypes DEF MAXLEN
  <2>7. used \in Nat
    BY <2>6 DEF IInv, TypeOK, ListTypes
  <2> HIDE DEF s, n
  <2> QED BY <2>2, <2>3, <2>4, <2>5, <2>6, <2>7
<1>1. /\ pc[a] = "count" /\ pc'[a] = "append"
      /\ \A b \in Agents : b # a => pc'[b] = pc[b]
      /\ used' = used + n /\ nsols' = nsols + 1
      /\ shortest' = MIN(shortest, Length[s])
      /\ UNCHANGED <<call, leaf, worker, mutex, buf, main>>
  BY DEF CountLine, IInv, TypeOK, PcTypes
<1>2. /\ nsols < maxsolutions /\ used + n <= Size
      /\ \A i \in used .. used + n - 1 : buf[i] = <<s, copy[a]>>
  BY <1>1 DEF IInv, Counting, CountingAt, MoreCopies, Fits
<1>3. /\ MinMoves <= Length[s] /\ Length[s] <= MaxMoves
      /\ Length[s] <= shortest + optimal
  BY <1>1, SolutionTypes
<1>4. shortest' \in Nat /\ shortest' <= shortest /\ shortest' <= Length[s]
      /\ shortest' \in {shortest, Length[s]}
  BY <1>0, <1>1 DEF MIN
<1> HIDE DEF s, n
<1>5. TypeOK'
  <2>1. PcTypes'
    BY DEF IInv, TypeOK, PcTypes, CountLine
  <2>2. LoopTypes'
    BY DEF IInv, TypeOK, LoopTypes, CountLine, worker
  <2>3. ListTypes'
    <3>1. nsols' \in Nat /\ used' \in 0 .. Size
      BY <1>0, <1>1, <1>2
    <3>2. shortest' \in 0 .. MAXLEN + 1
      BY <1>0, <1>4 DEF MAXLEN
    <3> QED
      BY <1>1, <3>1, <3>2, RequestFrame DEF IInv, TypeOK, ListTypes, call
  <2>4. CallTypes' /\ ArgTypes' /\ MainTypes'
    BY <1>1, TypeFrame DEF IInv, worker
  <2> QED BY <2>1, <2>2, <2>3, <2>4 DEF IInv, TypeOK, CountLine
<1>6. Roles' /\ Exclusion' /\ SameDepth' /\ Roster' /\ NoLines'
  BY <1>1, Constants
     DEF IInv, Roles, Exclusion, SameDepth, Roster, NoLines, worker, main
(* The lines before are not longer than this one can be.                   *)
<1>7. ASSUME NEW l, l \in Nat, l <= shortest + optimal, l <= Length[s]
      PROVE  l <= shortest' + optimal
  <2>1. CASE shortest' = shortest
    BY <1>7, <2>1
  <2>2. CASE shortest' = Length[s]
    BY <1>0, <1>7, <2>2
  <2> QED BY <1>4, <2>1, <2>2
<1>8. a # Main => pc[Main] \in {"create", "join"} /\ Length[s] = depth
  BY <1>1, Constants
     DEF IInv, SameDepth, Cursor, WorkerCursor, s
<1>9. a = Main => s = ShortSols[leaf[Main]] /\ leaf[Main] \in 1 .. Len(ShortSols)
  BY <1>1 DEF IInv, Cursor, MainCursor, Solution, s
<1>10. Cursor'
  <2>1. MainCursor'
    <3>1. CASE a = Main
      <4>1. Solution(Main)' = s
        BY <1>1, <3>1, SolutionFrame DEF s
      <4> QED
        BY <1>0, <1>1, <1>3, <1>7, <1>9, <3>1, <4>1, RequestFrame
           DEF MainCursor, call
    <3>2. CASE a # Main
      BY <1>1, <1>8, <3>2, Constants DEF MainCursor
    <3> QED BY <3>1, <3>2
  <2>2. ASSUME NEW t \in ThreadIds PROVE WorkerCursor(t)'
    <3>1. t \in Agents /\ t # Main /\ Solution(t)' = Solution(t)
      BY <1>1, SolutionFrame, Constants DEF worker
    <3>2. pc'[t] = pc[t] \/ (pc[t] = "count" /\ pc'[t] = "append")
      BY <1>1, <3>1
    <3> QED BY <1>1, <3>1, <3>2 DEF IInv, Cursor, WorkerCursor, worker
  <2> QED BY <2>1, <2>2 DEF Cursor
<1>11. Counting'
  <2>1. ASSUME NEW b \in Agents PROVE pc'[b] # "count"
    BY <1>1, OneAppends
  <2> QED BY <2>1 DEF Counting, CountingAt
<1>12. CountBounded' /\ DepthInWindow'
  <2>1. CountBounded'
    BY <1>0, <1>1, <1>2, RequestFrame DEF CountBounded, call
  <2>2. DepthInWindow'
    <3>1. pc'[Main] \in {"create", "join"} => depth <= shortest' + optimal
      BY <1>0, <1>1, <1>3, <1>7, <1>8
    <3> QED
      BY <1>1, <3>1, RequestFrame, Constants DEF IInv, DepthInWindow, call, main
  <2> QED BY <2>1, <2>2
<1>13. ListInWindow'
  <2>a. used' = used + n /\ buf' = buf
    BY <1>1
  <2>b. ListInWindow' <=>
           \A i \in 0 .. used' - 1 : buf'[i] # Nul => LineInWindow(buf[i])'
    BY DEF ListInWindow, Nul
  <2> SUFFICES ASSUME NEW i, i \in 0 .. used' - 1, buf'[i] # Nul
               PROVE  LineInWindow(buf[i])'
    BY <2>b
  <2>c. i \in 0 .. used + n - 1 /\ buf[i] # Nul
    BY <1>0, <2>a
  <2>1. (Early' => Early) /\ (Searching' => Searching)
    BY <1>1, Constants DEF Early, Searching
  <2>2. CASE i < used
    <3>1. LineInWindow(buf[i])
      BY <1>0, <2>c, <2>2 DEF IInv, ListInWindow
    <3>2. Length[buf[i][1]] \in Nat
      BY <3>1, SolTypes DEF LineInWindow
    <3>3. Length[buf[i][1]] <= Length[s]
      <4>1. CASE a = Main
        <5>1. Early
          BY <4>1, <1>1 DEF Early
        <5>2. PICK k \in 1 .. Len(ShortSols) : buf[i][1] = ShortSols[k]
          BY <5>1, <3>1 DEF LineInWindow
        <5>3. Length[buf[i][1]] = Length[s]
          BY <4>1, <5>2, <1>9, ShortSolsAssumption
        <5> QED BY <5>3, <1>0
      <4>2. CASE a # Main
        BY <4>2, <1>8, <3>1 DEF LineInWindow, Searching
      <4> QED BY <4>1, <4>2
    <3>4. Length[buf[i][1]] <= shortest' + optimal
      BY <1>7, <3>1, <3>2, <3>3 DEF LineInWindow
    <3> QED
      BY <1>1, <2>1, <3>1, <3>4, RequestFrame DEF LineInWindow, call, main
  <2>3. CASE i >= used
    <3>1. buf[i] = <<s, copy[a]>>
      BY <1>0, <1>2, <2>c, <2>3
    <3>2. buf[i][1] = s
      BY <3>1
    <3>3. Length[s] <= shortest' + optimal
      BY <1>0, <1>3, <1>7
    <3>4. Early' => \E k \in 1 .. Len(ShortSols) : s = ShortSols[k]
      BY <1>8, <1>9, <2>1 DEF Early
    <3>5. Searching' => Length[s] <= depth
      <4>1. CASE a = Main
        BY <4>1, <1>1 DEF Searching
      <4>2. CASE a # Main
        BY <4>2, <1>8, <1>0
      <4> QED BY <4>1, <4>2
    <3> QED
      BY <1>0, <1>1, <1>3, <3>2, <3>3, <3>4, <3>5, RequestFrame
         DEF LineInWindow, call, main
  <2> QED BY <1>0, <2>2, <2>3
<1> QED BY <1>5, <1>6, <1>10, <1>11, <1>12, <1>13 DEF IInv

(* A solution has been written with all its copies.                        *)
LEMMA AppendEndStep == \A a \in Agents : IInv /\ AppendEnd(a) => IInv'
<1> SUFFICES ASSUME NEW a \in Agents, IInv, AppendEnd(a) PROVE IInv'
  OBVIOUS
<1>1. /\ pc[a] = "append" /\ pc'[a] = IF a = Main THEN "maketasks" ELSE "search"
      /\ \A b \in Agents : b # a => pc'[b] = pc[b] /\ leaf'[b] = leaf[b]
      /\ UNCHANGED <<call, copy, worker, nsols, shortest, used, main>>
      /\ buf' = [buf EXCEPT ![used] = Nul]
  BY DEF AppendEnd, IInv, TypeOK, PcTypes, LoopTypes
<1>2. used \in Nat /\ Size \in Nat /\ used <= Size
      /\ buf \in [0 .. Size -> Lines \cup {Nul, Unset}]
  BY ValueTypes DEF IInv, TypeOK, ListTypes
<1>3. TypeOK'
  <2>1. PcTypes'
    BY DEF IInv, TypeOK, PcTypes, AppendEnd
  <2>2. LoopTypes'
    BY DEF IInv, TypeOK, LoopTypes, AppendEnd, worker
  <2>3. ArgTypes'
    BY <1>1 DEF IInv, TypeOK, ArgTypes, AppendEnd, Unlock, worker
  <2>4. ListTypes'
    BY <1>1, <1>2, RequestFrame DEF IInv, TypeOK, ListTypes, call
  <2>5. CallTypes' /\ MainTypes'
    BY <1>1, TypeFrame DEF IInv
  <2> QED BY <2>1, <2>2, <2>3, <2>4, <2>5 DEF IInv, TypeOK, AppendEnd
<1>4. Roles' /\ SameDepth' /\ Roster' /\ NoLines'
  BY <1>1, Constants
     DEF IInv, Roles, SameDepth, Roster, NoLines, worker, main
<1>5. Exclusion'
  BY <1>1, OneAppends, Constants DEF Exclusion
<1>6. Cursor'
  <2>1. MainCursor'
    <3>1. CASE a = Main
      BY <1>1, <3>1 DEF MainCursor
    <3>2. CASE a # Main
      BY <1>1, <3>2, MainFrame, Constants DEF IInv, Cursor, call
    <3> QED BY <3>1, <3>2
  <2>2. ASSUME NEW t \in ThreadIds PROVE WorkerCursor(t)'
    <3>1. CASE a = t
      BY <1>1, <3>1, Constants DEF IInv, Cursor, WorkerCursor, worker
    <3>2. CASE a # t
      BY <1>1, <3>2, WorkerFrame, Constants DEF IInv, Cursor, worker
    <3> QED BY <3>1, <3>2
  <2> QED BY <2>1, <2>2 DEF Cursor
<1>7. Counting'
  <2>1. ASSUME NEW b \in Agents PROVE pc'[b] # "count"
    BY <1>1, OneAppends
  <2> QED BY <2>1 DEF Counting, CountingAt
<1>8. CountBounded' /\ DepthInWindow'
  BY <1>1, RequestFrame, Constants
     DEF IInv, CountBounded, DepthInWindow, call, main
<1>9. ListInWindow'
  <2> SUFFICES ASSUME NEW i \in 0 .. used-1, buf[i] # Nul
               PROVE  LineInWindow(buf[i])' /\ buf'[i] = buf[i]
    BY <1>1, <1>2 DEF ListInWindow, Nul
  <2>1. buf'[i] = buf[i]
    BY <1>1, <1>2
  <2>2. LineInWindow(buf[i])
    BY DEF IInv, ListInWindow
  <2>3. (Early' => Early) /\ (Searching' => Searching)
    BY <1>1, Constants DEF Early, Searching
  <2> QED
    BY <1>1, <2>1, <2>2, <2>3, RequestFrame DEF LineInWindow, call, main
<1> QED BY <1>3, <1>4, <1>5, <1>6, <1>7, <1>8, <1>9 DEF IInv

(* The buffer is full.                                                     *)
LEMMA AppendOverflowStep == \A a \in Agents : IInv /\ AppendOverflow(a) => IInv'
<1> SUFFICES ASSUME NEW a \in Agents, IInv, AppendOverflow(a) PROVE IInv'
  OBVIOUS
<1>1. /\ pc[a] = "append" /\ pc'[a] = IF a = Main THEN "prepared" ELSE "poll"
      /\ \A b \in Agents : b # a => pc'[b] = pc[b]
      /\ \A t \in ThreadIds : t # a => task'[t] = task[t]
      /\ UNCHANGED <<call, leaf, copy, target, cancelled, nsols, shortest, used,
                     depth, at, anycancelled>>
  BY Constants DEF AppendOverflow, IInv, TypeOK, PcTypes, LoopTypes
<1>2. buf' = [i \in 0 .. Size |->
                IF i = 0 \/ (i = used /\ used < Size) THEN Nul ELSE buf[i]]
  BY DEF AppendOverflow
<1>3. used \in Nat /\ Size \in Nat /\ used <= Size
      /\ buf \in [0 .. Size -> Lines \cup {Nul, Unset}]
  BY ValueTypes DEF IInv, TypeOK, ListTypes
<1>4. TypeOK'
  <2>1. PcTypes'
    BY DEF IInv, TypeOK, PcTypes, AppendOverflow
  <2>2. LoopTypes'
    <3>1. task \in [ThreadIds -> Nat] /\ leaf' = leaf /\ copy' = copy
          /\ leaf \in [Agents -> Nat \ {0}] /\ copy \in [Agents -> Nat \ {0}]
      BY <1>1 DEF IInv, TypeOK, LoopTypes
    <3>2. NThreads \in Nat
      BY ThreadsAssumption
    <3>3. task' = task \/ task' = [task EXCEPT ![a] = @ + NThreads]
      BY DEF AppendOverflow
    <3>4. task' \in [ThreadIds -> Nat]
      BY <3>1, <3>2, <3>3
    <3> QED BY <3>1, <3>4 DEF LoopTypes
  <2>3. ArgTypes'
    BY <1>1 DEF IInv, TypeOK, ArgTypes, AppendOverflow, Unlock
  <2>4. ListTypes'
    BY <1>1, <1>2, <1>3, RequestFrame DEF IInv, TypeOK, ListTypes, call
  <2>5. MainTypes'
    <3>1. a = Main => TasksBefore[Solution(a)] \in 0 .. NTasks
      BY <1>1, SolutionTypes, SearchTreeAssumption
    <3>2. ntasks' \in 0 .. NTasks
      BY <3>1 DEF AppendOverflow, IInv, TypeOK, MainTypes
    <3> QED BY <1>1, <3>2 DEF IInv, TypeOK, MainTypes
  <2>6. CallTypes'
    BY <1>1, TypeFrame DEF IInv
  <2> QED BY <2>1, <2>2, <2>3, <2>4, <2>5, <2>6 DEF IInv, TypeOK, AppendOverflow
<1>5. Roles' /\ SameDepth' /\ Roster' /\ NoLines'
  BY <1>1, Constants DEF IInv, Roles, SameDepth, Roster, NoLines
<1>6. Exclusion'
  BY <1>1, OneAppends, Constants DEF Exclusion
<1>7. Cursor'
  <2>1. MainCursor'
    <3>1. CASE a = Main
      BY <1>1, <3>1 DEF MainCursor
    <3>2. CASE a # Main
      BY <1>1, <3>2, MainFrame, Constants DEF IInv, Cursor, call
    <3> QED BY <3>1, <3>2
  <2>2. ASSUME NEW t \in ThreadIds PROVE WorkerCursor(t)'
    <3>1. CASE a = t
      BY <1>1, <3>1, Constants DEF WorkerCursor
    <3>2. CASE a # t
      BY <1>1, <3>2, WorkerFrame, Constants DEF IInv, Cursor
    <3> QED BY <3>1, <3>2
  <2> QED BY <2>1, <2>2 DEF Cursor
<1>8. Counting'
  <2>1. ASSUME NEW b \in Agents PROVE pc'[b] # "count"
    BY <1>1, OneAppends
  <2> QED BY <2>1 DEF Counting, CountingAt
<1>9. CountBounded' /\ DepthInWindow'
  BY <1>1, RequestFrame, Constants DEF IInv, CountBounded, DepthInWindow, call
<1>10. ListInWindow'
  <2> SUFFICES ASSUME NEW i \in 0 .. used-1, buf'[i] # Nul
               PROVE  LineInWindow(buf[i])'
    BY <1>1 DEF ListInWindow, Nul
  <2>1. buf'[i] = buf[i]
    BY <1>2, <1>3
  <2>2. LineInWindow(buf[i])
    BY <2>1 DEF IInv, ListInWindow
  <2>3. (Early' => Early) /\ (Searching' => Searching)
    BY <1>1, Constants DEF Early, Searching
  <2> QED
    BY <1>1, <2>1, <2>2, <2>3, RequestFrame DEF LineInWindow, call
<1> QED BY <1>4, <1>5, <1>6, <1>7, <1>8, <1>9, <1>10 DEF IInv

-----------------------------------------------------------------------------
(* A step of the caller, of nobody, or after the return.                   *)
LEMMA IdleStep ==
  ASSUME IInv,
         UNCHANGED <<pc, leaf, copy, worker, mutex, list, main, call, overflowed>>,
         status' \in {"RUN", "STOP", "PAUSE"}
  PROVE  IInv'
<1>1. TypeOK'
  BY TypeFrame DEF IInv, TypeOK, worker, call
<1>2. /\ Roles' /\ Exclusion' /\ SameDepth' /\ Roster' /\ NoLines'
  BY DEF IInv, Roles, Exclusion, SameDepth, Roster, NoLines, worker, main, list
<1>3. Cursor'
  BY MainFrame, WorkerFrame DEF IInv, Cursor, worker, call, list
<1>4. Counting'
  BY CountingFrame DEF IInv, Counting, worker, call, list
<1>5. CountBounded' /\ DepthInWindow'
  BY RequestFrame DEF IInv, CountBounded, DepthInWindow, call, list, main
<1>6. ListInWindow'
  BY ListFrame DEF IInv, Early, Searching, call, list, main
<1> QED BY <1>1, <1>2, <1>3, <1>4, <1>5, <1>6 DEF IInv

(* IInv is inductive.                                                      *)
THEOREM StepIInv == IInv /\ [Next]_vars => IInv'
<1> SUFFICES ASSUME IInv, [Next]_vars PROVE IInv'
  OBVIOUS
<1>1. CASE MainStep
  BY <1>1, CallStep, MakeShortStep, MakeTasksEndStep, PreparedStep,
     NextDepthStep, CreateStep, JoinStep, AppendLineStep, CountLineStep,
     AppendEndStep, AppendOverflowStep, Constants
     DEF MainStep, AppendSolution
<1>2. ASSUME NEW t \in ThreadIds, ThreadStep(t) PROVE IInv'
  BY <1>2, PollStep, PauseEndStep, SearchStep, SearchEndStep, LockListStep,
     AppendLineStep, CountLineStep, AppendEndStep, AppendOverflowStep, Constants
     DEF ThreadStep, AppendSolution
<1>3. CASE SetStatus
  BY <1>3, IdleStep DEF SetStatus
<1>4. CASE Returned \/ UNCHANGED vars
  BY <1>4, IdleStep DEF Returned, vars, IInv, TypeOK
<1> QED BY <1>1, <1>2, <1>3, <1>4 DEF Next

-----------------------------------------------------------------------------
(* The inductive invariant of the solver, whatever the request and however *)
(* many workers.                                                           *)
THEOREM Invariance == Spec => []IInv
<1> QED BY InitIInv, StepIInv, PTL DEF Spec

(* The variables of the solver keep their types.                           *)
THEOREM TypeCorrect == Spec => []TypeOK
<1>1. IInv => TypeOK
  BY DEF IInv
<1> QED BY Invariance, <1>1, PTL

(* However many workers find solutions at once, the list never has more    *)
(* lines than were asked for (solve_h48 with appendsolution).              *)
THEOREM CountIsBounded == Spec => []CountBounded
<1>1. IInv => CountBounded
  BY DEF IInv
<1> QED BY Invariance, <1>1, PTL

(* The workers all search the depth of the main thread's loop, and only    *)
(* while it creates or joins them.                                         *)
THEOREM DepthIsShared == Spec => []SameDepth
<1>1. IInv => SameDepth
  BY DEF IInv
<1> QED BY Invariance, <1>1, PTL

(* Every line reported is within the bounds of the request and within      *)
(* 'optimal' moves of the shortest line reported.                          *)
THEOREM LinesInWindow == Spec => []WithinWindow
<1>1. IInv => WithinWindow
  BY DEF IInv, ListInWindow, LineInWindow, WithinWindow, Reported
<1> QED BY Invariance, <1>1, PTL

(* The unlocked read of shortest_sol in solve_h48_stop cannot change what  *)
(* the search does.                                                        *)
THEOREM RaceIsHarmless == Spec => []ShortestRaceHarmless
<1>1. IInv => ShortestRaceHarmless
  BY DEF IInv, SameDepth, DepthInWindow, ShortestRaceHarmless
<1> QED BY Invariance, <1>1, PTL
=============================================================================
