------------------------------- MODULE H48Solve -------------------------------
(***************************************************************************)
(* The H48 solver (solvers/h48/solve.h) as a concurrent program: the main  *)
(* thread makes the 3-move starting tasks, then for each target depth      *)
(* starts the worker threads, waits for all of them and decides whether to *)
(* search one move deeper.  The workers share the solution list, which     *)
(* appendsolution (solvers/solutions.h) extends under a mutex while other  *)
(* workers read its counters without it, and they poll the status callback *)
(* that may ask them to run, pause or stop.                                *)
(*                                                                         *)
(* The cube is abstracted away: a task has a sequence of solved nodes in   *)
(* the order the depth-first search meets them, each with its length, the  *)
(* number of lines it is written as (one per symmetry of the cube, see     *)
(* appendsolution) and the size of such a line in characters.  The         *)
(* pruning tables only cut nodes that are too far from solved, so they     *)
(* remove no solved node and do not appear here.                           *)
(***************************************************************************)
EXTENDS Integers, Sequences, FiniteSets

CONSTANTS
  NThreads,     \* threads: number of worker threads
  NTasks,       \* number of 3-move starting sequences that are not solved
  Sols,         \* the solved nodes of the whole search tree
  Length,       \* Length[s]: moves plus premoves at solved node s
  Copies,       \* Copies[s]: lines s gives under the symmetries of the cube
  LineLen,      \* LineLen[s]: characters of such a line, newline included
  Leaves,       \* Leaves[i]: the solved nodes below task i, in search order
  ShortSols,    \* the solved nodes met by solve_h48_maketasks, in order
  TasksBefore,  \* TasksBefore[s]: tasks made before short solution s is met
  Requests,     \* the argument lists nissy_solve may be called with
  CanSleep      \* NISSY_CANSLEEP

STARTING_MOVES == 3
MAXLEN == 20

Tasks == 0 .. NTasks-1
ThreadIds == 0 .. NThreads-1
Main == NThreads                \* the thread that called solve_h48
Agents == 0 .. NThreads
NoThread == -1                  \* the mutex is free

ASSUME ThreadsAssumption == NThreads \in Nat \ {0}

ASSUME SearchTreeAssumption ==
  /\ NTasks \in Nat
  /\ Length \in [Sols -> 0 .. MAXLEN]
  /\ Copies \in [Sols -> Nat]
  /\ LineLen \in [Sols -> Nat \ {0}]
  /\ Leaves \in [Tasks -> Seq(Sols)]
  /\ \A i \in Tasks : \A k \in 1 .. Len(Leaves[i]) :
        Length[Leaves[i][k]] > STARTING_MOVES
  /\ ShortSols \in Seq(Sols)
  /\ TasksBefore \in [Sols -> 0 .. NTasks]
  /\ \A k \in 1 .. Len(ShortSols) :
        Length[ShortSols[k]] <= STARTING_MOVES

(* Every solved node is met once: by maketasks or below one task.  A line  *)
(* of one character is that of no moves: then the cube given is solved and *)
(* the tree has no other node.                                             *)
ASSUME NodesAssumption ==
  /\ \A s \in Sols :
        \/ \E k \in 1 .. Len(ShortSols) : ShortSols[k] = s
        \/ \E i \in Tasks : \E k \in 1 .. Len(Leaves[i]) : Leaves[i][k] = s
  /\ \A j, k \in 1 .. Len(ShortSols) : ShortSols[j] = ShortSols[k] => j = k
  /\ \A i, j \in Tasks : \A k \in 1 .. Len(Leaves[i]), l \in 1 .. Len(Leaves[j]) :
        Leaves[i][k] = Leaves[j][l] => i = j /\ k = l
  /\ \A s \in Sols : LineLen[s] = 1 => Sols = {s} /\ Copies[s] <= 1

(* Two words of at most three moves that solve the same cube have the same *)
(* length: the shortest relation between face turns, commutation aside, is *)
(* longer than six moves.                                                  *)
ASSUME ShortSolsAssumption ==
  \A j, k \in 1 .. Len(ShortSols) :
     Length[ShortSols[j]] = Length[ShortSols[k]]

ASSUME RequestsAssumption ==
  /\ \A r \in Requests :
        r \in [minmoves : Nat, maxmoves : Nat, maxsols : Nat, optimal : Nat,
              sols_size : Nat]
  /\ CanSleep \in BOOLEAN

VARIABLES
  req,          \* the arguments of this call of nissy_solve
  ret,          \* its return value
  pc,           \* pc[a]: where agent a is
  task,         \* task[t]: i in solve_h48_runthread
  leaf,         \* leaf[a]: the next solved node of the task (of maketasks)
  copy,         \* copy[a]: the symmetry appendsolution is at
  target,       \* target[t]: arg[t].target_depth
  cancelled,    \* cancelled[t]: arg[t].cancelled
  mutex,        \* solutions_mutex: its holder or NoThread
  nsols, shortest, used, buf,  \* sollist; buf[Size] is the byte after buf
  ntasks, depth, at, anycancelled,  \* locals of solve_h48
  status,      \* what poll_status returns
  overflowed    \* some appendsolution has returned an error (history)

list == <<nsols, shortest, used, buf>>
main == <<ntasks, depth, at, anycancelled>>
worker == <<task, target, cancelled>>
call == <<req, ret>>
vars == <<pc, leaf, copy, worker, mutex, list, main, call, status, overflowed>>

Lines == UNION {{s} \X (1 .. Copies[s]) : s \in Sols}
Nul == <<0>>                    \* a '\0' character
Unset == <<1>>                  \* a byte of the buffer never written
NotYet == -1                    \* ret before the call returns
NISSY_ERROR_BUFFER_SIZE == -61
MAX(a, b) == IF a >= b THEN a ELSE b
MIN(a, b) == IF a <= b THEN a ELSE b

(* nissy_solve clamps the bounds on the length; solve_h48 receives the two *)
(* other limits as uint8_t.                                                *)
MaxMoves == MIN(req.maxmoves, MAXLEN)
MinMoves == MIN(req.minmoves, MaxMoves)
maxsolutions == req.maxsols % 256
optimal == req.optimal % 256
Size == req.sols_size

Init ==
  /\ req \in Requests
  /\ ret = NotYet
  /\ pc = [a \in Agents |-> IF a = Main THEN "call" ELSE "none"]
  /\ task = [t \in ThreadIds |-> t]
  /\ leaf = [a \in Agents |-> 1]
  /\ copy = [a \in Agents |-> 1]
  /\ target = [t \in ThreadIds |-> 0]
  /\ cancelled = [t \in ThreadIds |-> FALSE]
  /\ mutex = NoThread
  /\ nsols = 0
  /\ shortest = MAXLEN + 1
  /\ used = 0
  /\ buf = [i \in 0 .. Size |-> Unset]
  /\ ntasks = 0
  /\ depth = 0
  /\ at = 0
  /\ anycancelled = FALSE
  /\ status = "RUN"
  /\ overflowed = FALSE

-----------------------------------------------------------------------------
(* appendsolution, by whichever agent runs it: the main thread while it    *)
(* makes the tasks, a worker once it holds the mutex.                      *)

Solution(a) == IF a = Main THEN ShortSols[leaf[a]] ELSE Leaves[task[a]][leaf[a]]

(* The loop stops at the last symmetry or at the maximum of solutions.     *)
MoreCopiesUnchecked(a) == copy[a] <= Copies[Solution(a)]
MoreCopies(a) == copy[a] <= Copies[Solution(a)] /\ nsols < maxsolutions

(* writemoves wants room for the moves and a '\0', whose place the newline *)
(* then takes.                                                             *)
FitsOffByOne(a) == used + LineLen[Solution(a)] <= Size + 1
Fits(a) == used + LineLen[Solution(a)] <= Size

(* A worker returns the mutex whether or not appendsolution failed; the     *)
(* main thread never took it.                                              *)
UnlockUnlessError(a) ==
  mutex' = IF a = Main \/ (MoreCopies(a) /\ ~Fits(a)) THEN mutex ELSE NoThread
Unlock(a) == mutex' = IF a = Main THEN mutex ELSE NoThread

(* The line is written at buf+used.                                        *)
AppendLine(a) ==
  /\ pc[a] = "append"
  /\ MoreCopies(a)
  /\ Fits(a)
  /\ buf' = [i \in 0 .. Size |->
               IF i \in used .. used + LineLen[Solution(a)] - 1
               THEN <<Solution(a), copy[a]>> ELSE buf[i]]
  /\ pc' = [pc EXCEPT ![a] = "count"]
  /\ UNCHANGED <<call, leaf, copy, worker, mutex, nsols, shortest, used, main,
                 status, overflowed>>

(* list->used, nsols and shortest_sol are updated and the loop goes on.    *)
(* One step for the three: without the mutex only nsols and shortest_sol   *)
(* are read, and what is read of the latter decides nothing (see           *)
(* ShortestRaceHarmless).                                                  *)
CountLine(a) ==
  /\ pc[a] = "count"
  /\ used' = used + LineLen[Solution(a)]
  /\ nsols' = nsols + 1
  /\ shortest' = MIN(shortest, Length[Solution(a)])
  /\ copy' = [copy EXCEPT ![a] = @ + 1]
  /\ pc' = [pc EXCEPT ![a] = "append"]
  /\ UNCHANGED <<call, leaf, worker, mutex, buf, main, status, overflowed>>

(* The list is terminated; the caller goes on with the next solved node.   *)
AppendEnd(a) ==
  /\ pc[a] = "append"
  /\ ~MoreCopies(a)
  /\ buf' = [buf EXCEPT ![used] = Nul]
  /\ leaf' = [leaf EXCEPT ![a] = @ + 1]
  /\ pc' = [pc EXCEPT ![a] = IF a = Main THEN "maketasks" ELSE "search"]
  /\ Unlock(a)
  /\ UNCHANGED <<call, copy, worker, nsols, shortest, used, main, status,
                 overflowed>>

(* No room: buf[0] becomes '\0' and an error is returned.  It makes        *)
(* solve_h48_dfs give up the task, and solve_h48_maketasks stop making     *)
(* tasks; nobody looks at it after that.                                   *)
AppendOverflow(a) ==
  /\ pc[a] = "append"
  /\ MoreCopies(a)
  /\ ~Fits(a)
  /\ buf' = [i \in 0 .. Size |->
               IF i = 0 \/ (i = used /\ used < Size) THEN Nul ELSE buf[i]]
  /\ overflowed' = TRUE
  /\ IF a = Main
     THEN /\ ntasks' = TasksBefore[Solution(a)]
          /\ pc' = [pc EXCEPT ![a] = "prepared"]
          /\ UNCHANGED task
     ELSE /\ task' = [task EXCEPT ![a] = @ + NThreads]
          /\ pc' = [pc EXCEPT ![a] = "poll"]
          /\ UNCHANGED ntasks
  /\ Unlock(a)
  /\ UNCHANGED <<call, leaf, copy, target, cancelled, nsols, shortest, used,
                 depth, at, anycancelled, status>>

-----------------------------------------------------------------------------
(* The main thread.                                                        *)

SolutionsDoneOneLate(d) ==
  d > MaxMoves \/ d > shortest + optimal + 1 \/ nsols >= maxsolutions
SolutionsDone(d) ==
  \/ d > MaxMoves
  \/ d > shortest + optimal
  \/ nsols >= maxsolutions

(* solve_h48_maketasks meets a solved node of length n.                    *)
Wanted(n) == n <= MaxMoves /\ n >= MinMoves /\ ~SolutionsDone(n)

(* nissy_solve up to solution_list_init.                                   *)
Call ==
  /\ pc[Main] = "call"
  /\ IF req.maxsols = 0 \/ Size = 0
     THEN /\ ret' = IF req.maxsols = 0 THEN 0 ELSE NISSY_ERROR_BUFFER_SIZE
          /\ pc' = [pc EXCEPT ![Main] = "done"]
          /\ UNCHANGED buf
     ELSE /\ buf' = [buf EXCEPT ![0] = Nul]
          /\ pc' = [pc EXCEPT ![Main] = "maketasks"]
          /\ UNCHANGED ret
  /\ UNCHANGED <<req, leaf, copy, worker, mutex, nsols, shortest, used, main,
                 status, overflowed>>

MakeShort ==
  /\ pc[Main] = "maketasks"
  /\ leaf[Main] <= Len(ShortSols)
  /\ IF Wanted(Length[ShortSols[leaf[Main]]])
     THEN /\ pc' = [pc EXCEPT ![Main] = "append"]
          /\ copy' = [copy EXCEPT ![Main] = 1]
          /\ UNCHANGED leaf
     ELSE /\ leaf' = [leaf EXCEPT ![Main] = @ + 1]
          /\ UNCHANGED <<pc, copy>>
  /\ UNCHANGED <<call, worker, mutex, list, main, status, overflowed>>

MakeTasksEnd ==
  /\ pc[Main] = "maketasks"
  /\ leaf[Main] > Len(ShortSols)
  /\ ntasks' = NTasks
  /\ pc' = [pc EXCEPT ![Main] = "prepared"]
  /\ UNCHANGED <<call, leaf, copy, worker, mutex, list, depth, at, anycancelled,
                 status, overflowed>>

Prepared ==
  /\ pc[Main] = "prepared"
  /\ IF SolutionsDone(MAX(MinMoves, STARTING_MOVES))
     THEN /\ pc' = [pc EXCEPT ![Main] = "done"]
          /\ ret' = nsols
          /\ UNCHANGED depth
     ELSE /\ pc' = [pc EXCEPT ![Main] = "loop"]
          /\ depth' = MAX(MinMoves, STARTING_MOVES + 1)
          /\ UNCHANGED ret
  /\ UNCHANGED <<req, leaf, copy, worker, mutex, list, ntasks, at, anycancelled,
                 status, overflowed>>

NextDepth ==
  /\ pc[Main] = "loop"
  /\ IF SolutionsDone(depth) \/ anycancelled
     THEN /\ pc' = [pc EXCEPT ![Main] = "done"]
          /\ ret' = nsols
     ELSE /\ pc' = [pc EXCEPT ![Main] = "create"]
          /\ UNCHANGED ret
  /\ UNCHANGED <<req, leaf, copy, worker, mutex, list, main, status,
                 overflowed>>

(* pthread_create of thread t, which begins solve_h48_runthread.           *)
Create(t) ==
  /\ pc[Main] = "create" /\ at = t
  /\ target' = [target EXCEPT ![t] = depth]
  /\ task' = [task EXCEPT ![t] = t]
  /\ pc' = [pc EXCEPT ![t] = "poll",
                      ![Main] = IF t = NThreads-1 THEN "join" ELSE "create"]
  /\ at' = IF t = NThreads-1 THEN 0 ELSE t + 1
  /\ UNCHANGED <<call, leaf, copy, cancelled, mutex, list, ntasks, depth,
                 anycancelled, status, overflowed>>

CollectLast(t) == cancelled[t]
Collect(t) == anycancelled \/ cancelled[t]

JoinNoWait(t) ==
  /\ pc[Main] = "join" /\ at = t
  /\ anycancelled' = Collect(t)
  /\ IF t = NThreads-1
     THEN /\ pc' = [pc EXCEPT ![Main] = "loop"]
          /\ at' = 0
          /\ depth' = depth + 1
     ELSE at' = t + 1 /\ UNCHANGED <<pc, depth>>
  /\ UNCHANGED <<call, leaf, copy, worker, mutex, list, ntasks, status,
                 overflowed>>

Join(t) ==
  /\ pc[Main] = "join" /\ at = t
  /\ pc[t] = "exit"
  /\ anycancelled' = Collect(t)
  /\ IF t = NThreads-1
     THEN /\ pc' = [pc EXCEPT ![t] = "none", ![Main] = "loop"]
          /\ at' = 0
          /\ depth' = depth + 1
     ELSE /\ pc' = [pc EXCEPT ![t] = "none"]
          /\ at' = t + 1
          /\ UNCHANGED depth
  /\ UNCHANGED <<call, leaf, copy, worker, mutex, list, ntasks, status,
                 overflowed>>

-----------------------------------------------------------------------------
(* A worker thread.                                                        *)

StartTask(t) ==
  /\ pc' = [pc EXCEPT ![t] = "search"]
  /\ leaf' = [leaf EXCEPT ![t] = 1]
  /\ UNCHANGED cancelled

Cancel(t) ==
  /\ cancelled' = [cancelled EXCEPT ![t] = TRUE]
  /\ pc' = [pc EXCEPT ![t] = "exit"]
  /\ UNCHANGED leaf

(* The head of the loop of solve_h48_runthread.                            *)
Poll(t) ==
  /\ pc[t] = "poll"
  /\ \/ /\ task[t] >= ntasks
        /\ pc' = [pc EXCEPT ![t] = "exit"]
        /\ UNCHANGED <<leaf, cancelled>>
     \/ /\ task[t] < ntasks /\ status = "RUN"
        /\ StartTask(t)
     \/ /\ task[t] < ntasks /\ status = "PAUSE" /\ CanSleep
        /\ pc' = [pc EXCEPT ![t] = "pause"]
        /\ UNCHANGED <<leaf, cancelled>>
     \/ /\ task[t] < ntasks
        /\ status = "STOP" \/ (status = "PAUSE" /\ ~CanSleep)
        /\ Cancel(t)
  /\ UNCHANGED <<call, copy, task, target, mutex, list, main, status,
                 overflowed>>

(* solve_h48_runthread_continue: polls every half second until the status  *)
(* is no longer PAUSE.                                                     *)
PauseEnd(t) ==
  /\ pc[t] = "pause"
  /\ status # "PAUSE"
  /\ IF status = "RUN" THEN StartTask(t) ELSE Cancel(t)
  /\ UNCHANGED <<call, copy, task, target, mutex, list, main, status,
                 overflowed>>

(* solve_h48_stop at the parent of a solved node of length n.  It reads    *)
(* the list without the mutex.                                             *)
StopOneEarly(t, n) ==
  \/ target[t] - n <= 0
  \/ nsols >= maxsolutions
  \/ n - 1 > shortest + optimal
Stop(t, n) ==
  \/ target[t] - (n - 1) <= 0
  \/ nsols >= maxsolutions
  \/ n - 1 > shortest + optimal

(* The depth-first search goes on to the next solved node below the task:  *)
(* it is cut above it, or met at the wrong depth, or to be appended.  The  *)
(* last test before an append is the one at the parent of the node, which  *)
(* has no other solved child; a test that cuts higher up cuts there too.   *)
Search(t) ==
  /\ pc[t] = "search"
  /\ leaf[t] <= Len(Leaves[task[t]])
  /\ LET n == Length[Solution(t)]
     IN  IF ~Stop(t, n) /\ n = target[t]
         THEN /\ pc' = [pc EXCEPT ![t] = "lock"]
              /\ UNCHANGED leaf
         ELSE /\ leaf' = [leaf EXCEPT ![t] = @ + 1]
              /\ UNCHANGED pc
  /\ UNCHANGED <<call, copy, worker, mutex, list, main, status, overflowed>>

SearchEnd(t) ==
  /\ pc[t] = "search"
  /\ leaf[t] > Len(Leaves[task[t]])
  /\ task' = [task EXCEPT ![t] = @ + NThreads]
  /\ pc' = [pc EXCEPT ![t] = "poll"]
  /\ UNCHANGED <<call, leaf, copy, target, cancelled, mutex, list, main, status,
                 overflowed>>

LockListNoMutex(t) ==
  /\ pc[t] = "lock"
  /\ mutex' = t
  /\ copy' = [copy EXCEPT ![t] = 1]
  /\ pc' = [pc EXCEPT ![t] = "append"]
  /\ UNCHANGED <<call, leaf, worker, list, main, status, overflowed>>
LockList(t) ==
  /\ pc[t] = "lock"
  /\ mutex = NoThread
  /\ mutex' = t
  /\ copy' = [copy EXCEPT ![t] = 1]
  /\ pc' = [pc EXCEPT ![t] = "append"]
  /\ UNCHANGED <<call, leaf, worker, list, main, status, overflowed>>

-----------------------------------------------------------------------------
(* The program that called the solver answers poll_status as it likes.     *)
SetStatus ==
  /\ pc[Main] # "done"
  /\ status' \in {"RUN", "STOP", "PAUSE"} \ {status}
  /\ UNCHANGED <<call, pc, leaf, copy, worker, mutex, list, main, overflowed>>

Returned == pc[Main] = "done" /\ UNCHANGED vars

AppendSolution(a) ==
  AppendLine(a) \/ CountLine(a) \/ AppendEnd(a) \/ AppendOverflow(a)

MainStep ==
  \/ Call \/ MakeShort \/ MakeTasksEnd \/ Prepared \/ NextDepth
  \/ AppendSolution(Main)
  \/ \E t \in ThreadIds : Create(t) \/ Join(t)

ThreadStep(t) ==
  \/ Poll(t) \/ PauseEnd(t) \/ Search(t) \/ SearchEnd(t) \/ LockList(t)
  \/ AppendSolution(t)

Next ==
  MainStep \/ (\E t \in ThreadIds : ThreadStep(t)) \/ SetStatus \/ Returned

(* Threads are scheduled; the mutex and the status callback promise        *)
(* nothing more.                                                           *)
Fairness == WF_vars(MainStep) /\ \A t \in ThreadIds : WF_vars(ThreadStep(t))

Spec == Init /\ [][Next]_vars /\ Fairness
-----------------------------------------------------------------------------
(* Type invariant: the calling thread, the program counters, the loop      *)
(* variables of the agents, the workers' arguments, the solution list and  *)
(* the locals of solve_h48 all keep their types, and the text its buffer.  *)
CallTypes ==
  /\ req \in Requests
  /\ ret \in Nat \cup {NotYet, NISSY_ERROR_BUFFER_SIZE}

PcTypes ==
  pc \in [Agents -> {"none", "call", "maketasks", "prepared", "loop", "create",
                     "join", "done", "poll", "pause", "search", "lock",
                     "append", "count", "exit"}]

LoopTypes ==
  /\ task \in [ThreadIds -> Nat]
  /\ leaf \in [Agents -> Nat \ {0}]
  /\ copy \in [Agents -> Nat \ {0}]

ArgTypes ==
  /\ target \in [ThreadIds -> Nat]
  /\ cancelled \in [ThreadIds -> BOOLEAN]
  /\ mutex \in ThreadIds \cup {NoThread}

ListTypes ==
  /\ nsols \in Nat
  /\ shortest \in 0 .. MAXLEN + 1
  /\ used \in 0 .. Size
  /\ buf \in [0 .. Size -> Lines \cup {Nul, Unset}]

MainTypes ==
  /\ ntasks \in 0 .. NTasks
  /\ depth \in Nat
  /\ at \in ThreadIds
  /\ anycancelled \in BOOLEAN

TypeOK ==
  /\ CallTypes /\ PcTypes /\ LoopTypes /\ ArgTypes /\ ListTypes /\ MainTypes
  /\ status \in {"RUN", "STOP", "PAUSE"}
  /\ overflowed \in BOOLEAN

(* The lines counted so far, read off the part of the buffer in use.       *)
Reported == {buf[i] : i \in 0 .. used-1} \ {Nul}

(* However many workers find solutions at once, the list never has more    *)
(* lines than the caller asked for (appendsolution tests nsols, and only   *)
(* after writing the line increments it).                                  *)
CountBounded == nsols <= maxsolutions

(* The text is in step with the counter: the used part of the buffer is    *)
(* nsols different lines, none overwritten by another worker, and between  *)
(* two searches the character after them is the terminator.                *)
TextMatchesCount ==
  ~overflowed =>
    /\ Nul \notin {buf[i] : i \in 0 .. used-1}
    /\ Cardinality(Reported) = nsols
    /\ \A l \in Reported :
          Cardinality({i \in 0 .. used-1 : buf[i] = l}) = LineLen[l[1]]
    /\ pc[Main] \in {"prepared", "loop"} => buf[used] = Nul

(* Every line found is within the requested bounds and within 'optimal'    *)
(* moves of the shortest line found, also when another worker finds a      *)
(* solution between this one's test of shortest_sol and its append.        *)
WithinWindow ==
  \A l \in Reported :
    /\ MinMoves <= Length[l[1]] /\ Length[l[1]] <= MaxMoves
    /\ Length[l[1]] <= shortest + optimal

(* solve_h48_stop reads shortest_sol while another worker may be writing   *)
(* it.  The race decides nothing: at any depth that is being searched the  *)
(* test on shortest_sol cuts no node, before or after such a write.        *)
ShortestRaceHarmless ==
  \A t \in ThreadIds :
    pc[t] \in {"search", "lock"} => target[t] <= shortest + optimal

(* The workers search the same depth at the same time: a worker still at   *)
(* work when the next depth begins would report its solutions out of order *)
(* (solve_h48 joins all the threads before it increments d).               *)
SameDepth ==
  \A t \in ThreadIds :
    pc[t] # "none" => /\ target[t] = depth
                      /\ pc[Main] \in {"create", "join"}

(* Once a worker has obeyed a request to stop, no deeper search begins,    *)
(* though the other workers may not have seen the request.                 *)
CancelEndsSearch ==
  [][\A t \in ThreadIds :
       cancelled[t] /\ pc[Main] = "loop" => pc'[Main] # "create"]_vars

(* The call returns, provided the caller does not leave it paused.         *)
Termination ==
  (CanSleep => <>[](status # "PAUSE")) => <>(pc[Main] = "done")

(* The list is what SolveContract promises: shortest first, without        *)
(* repetition, within the bounds, and nothing left out unless the search   *)
(* was stopped or the buffer was too small.                                *)
Contract ==
  INSTANCE SolveContract WITH
    limits <- [min |-> MinMoves, max |-> MaxMoves,
               count |-> req.maxsols, slack |-> req.optimal],
    found <- Reported,
    excused <- overflowed \/ Size = 0 \/ (\E t \in ThreadIds : cancelled[t]),
    finished <- pc[Main] = "done"

ImplementsContract == Contract!Spec

(* nissy.h: "NISSY_ERROR_BUFFER_SIZE means that one of the buffers         *)
(* provided is too small": a call that ran out of room says so.            *)
OverflowReported ==
  overflowed /\ pc[Main] = "done" => ret = NISSY_ERROR_BUFFER_SIZE

(* nissy.h: "'\0' (NULL character) terminates the list", and sols_size is  *)
(* the size of the buffer: nothing is written after its last byte.         *)
TerminatorInBuffer == buf[Size] = Unset

(* nissy.h: maxsols is "the maximum number of solutions": when a call that *)
(* was not stopped returns none, there is none.                            *)
NoneMeansNone ==
  pc[Main] = "done" /\ ret = 0 /\ ~anycancelled /\ ~overflowed
    /\ req.maxsols > 0 =>
    \A s \in Sols : Copies[s] = 0 \/ Length[s] \notin MinMoves .. MaxMoves
=============================================================================
