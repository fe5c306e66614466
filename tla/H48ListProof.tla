----------------------------- MODULE H48ListProof -----------------------------
(***************************************************************************)
(* Proofs about the list of solutions that H48Solve returns, for any       *)
(* number of threads and tasks, any search tree and any request: the text  *)
(* agrees with the counter, and the list is what SolveContract promises,   *)
(* unless a request is one that solve_h48 truncates to eight bits.         *)
(***************************************************************************)
EXTENDS H48SolveProof, FiniteSetTheorems

Appending == {"append", "count"}

(* The used part of the buffer holds whole lines, as many as were counted. *)
(* Only an overflow writes over it, and only over the first character.     *)
InUse == 0 .. used-1
PlacesOf(l) == {i \in InUse : buf[i] = l}
Text ==
  /\ \A i \in InUse : buf[i] \in Lines \cup {Nul} /\ (buf[i] = Nul => overflowed)
  /\ IsFiniteSet(Reported) /\ Cardinality(Reported) = nsols
  /\ \A l \in Reported :
       /\ ~overflowed => Cardinality(PlacesOf(l)) = LineLen[l[1]]
       /\ LineLen[l[1]] # 1 => \E i \in InUse : i # 0 /\ buf[i] = l

(* The list is terminated whenever nobody is appending.                    *)
Terminated ==
  ~overflowed /\ (\A a \in Agents : pc[a] \notin Appending) =>
     pc[Main] \in {"call", "done"} \/ buf[used] = Nul

(* shortest is the length of the shortest line.                            *)
ShortestLine ==
  /\ \A l \in Reported : shortest <= Length[l[1]]
  /\ shortest = MAXLEN + 1 \/ \E l \in Reported : Length[l[1]] = shortest

(* What has become of a solved node.                                       *)
LinesOf(s) == {s} \X (1 .. Copies[s])
Untouched(s) == \A l \in LinesOf(s) : l \notin Reported
Settled(s) ==
  \/ LinesOf(s) \subseteq Reported
  \/ Length[s] < MinMoves \/ Length[s] > MaxMoves
  \/ Length[s] > shortest + optimal
  \/ nsols >= maxsolutions
Excused == overflowed \/ \E t \in ThreadIds : cancelled[t]

(* The lines of a node in hand are reported in order.                      *)
HandInOrder ==
  \A a \in Agents : pc[a] \in Appending =>
    \A k \in 1 .. Copies[Solution(a)] : <<Solution(a), k>> \in Reported <=> k < copy[a]

(* The nodes of at most three moves, in the order maketasks meets them.    *)
ShortNodes ==
  /\ pc[Main] \in {"call", "maketasks", "append", "count"} =>
       \A k \in 1 .. Len(ShortSols) :
         /\ k < leaf[Main] => Settled(ShortSols[k])
         /\ k > leaf[Main] \/ (k = leaf[Main] /\ pc[Main] \notin Appending) =>
              Untouched(ShortSols[k])
  /\ pc[Main] \notin {"call", "maketasks", "append", "count", "done"} =>
       overflowed \/ \A k \in 1 .. Len(ShortSols) : Settled(ShortSols[k])

(* Every task belongs to a worker, and the worker goes through its own.    *)
Owner(i) == i % NThreads
Owned == \A t \in ThreadIds : pc[t] # "none" => Owner(task[t]) = t

Ahead(t, i, k) ==
  \/ pc[t] = "none" /\ pc[Main] = "create"
  \/ pc[t] \in {"poll", "pause"} /\ i >= task[t]
  \/ pc[t] \in {"search", "lock"} /\ (i > task[t] \/ (i = task[t] /\ k >= leaf[t]))
  \/ pc[t] \in Appending /\ (i > task[t] \/ (i = task[t] /\ k > leaf[t]))
InHand(t, i, k) == pc[t] \in Appending /\ i = task[t] /\ k = leaf[t]

(* A solved node s below a task: one of a greater depth is untouched, one  *)
(* of a smaller depth settled, and at this depth it depends on whether the *)
(* worker has still to come to it.                                         *)
NodeStatus(s, ahead, inhand) ==
  /\ Early => Untouched(s)
  /\ pc[Main] = "loop" =>
       /\ Length[s] >= depth => Untouched(s)
       /\ Length[s] < depth => Settled(s) \/ Excused
  /\ pc[Main] \in {"create", "join"} =>
       /\ Length[s] > depth => Untouched(s)
       /\ Length[s] < depth => Settled(s) \/ Excused
       /\ Length[s] = depth /\ ahead => Untouched(s)
       /\ Length[s] = depth /\ ~ahead /\ ~inhand => Settled(s) \/ Excused
LeafStatus(i, k) ==
  NodeStatus(Leaves[i][k], Ahead(Owner(i), i, k), InHand(Owner(i), i, k))
LeafNodes == \A i \in Tasks : \A k \in 1 .. Len(Leaves[i]) : LeafStatus(i, k)

(* All the tasks are there unless making them was cut short, all the       *)
(* workers of a depth are created, and only a worker cuts a search short.  *)
Workers ==
  /\ pc[Main] \in {"prepared", "loop", "create", "join"} => ntasks = NTasks \/ overflowed
  /\ pc[Main] = "create" => \A t \in ThreadIds : t < at => pc[t] # "none"
  /\ pc[Main] = "join" => \A t \in ThreadIds : t >= at => pc[t] # "none"
  /\ anycancelled => \E t \in ThreadIds : cancelled[t]
  /\ \A t \in ThreadIds : cancelled[t] => pc[t] = "exit" \/ anycancelled
  /\ \A t \in ThreadIds : pc[t] = "exit" => Excused \/ task[t] >= ntasks
  /\ pc[Main] \notin {"create", "join"} => at = 0
  /\ pc[Main] = "call" => nsols = 0 /\ leaf[Main] = 1

ListInv ==
  /\ IInv /\ Text /\ Terminated /\ ShortestLine /\ HandInOrder
  /\ ShortNodes /\ Owned /\ LeafNodes /\ Workers

-----------------------------------------------------------------------------
(* What a line is, and which tasks a worker has.                           *)
LEMMA LineParts ==
  ASSUME NEW l \in Lines
  PROVE  l[1] \in Sols /\ l \in LinesOf(l[1]) /\ l # Nul
<1>1. PICK s \in Sols : l \in {s} \X (1 .. Copies[s])
  BY DEF Lines
<1>2. l[1] = s
  BY <1>1
<1>3. l # Nul
  BY <1>1 DEF Nul
<1> QED BY <1>1, <1>2, <1>3 DEF LinesOf

(* The k-th line of a solved node.                                         *)
LEMMA LineOfNode ==
  ASSUME NEW s \in Sols, NEW k \in 1 .. Copies[s]
  PROVE  /\ <<s, k>> \in Lines /\ <<s, k>> \in LinesOf(s)
         /\ <<s, k>>[1] = s /\ <<s, k>> # Nul
<1>1. <<s, k>> \in Lines
  BY DEF Lines
<1> QED BY <1>1, LineParts DEF LinesOf

(* The lines of a node are its own.                                        *)
LEMMA OwnLines ==
  ASSUME NEW s \in Sols, NEW l \in LinesOf(s)
  PROVE  /\ l \in Lines /\ l[1] = s
         /\ \E k \in 1 .. Copies[s] : l = <<s, k>>
  BY DEF LinesOf, Lines

(* Division with remainder, and that it is unique.                         *)
LEMMA Division ==
  \A n \in Nat \ {0}, x \in Nat :
     \E q \in Nat : \E r \in 0 .. n-1 : r = x % n /\ x = (n * q) + r
<1> SUFFICES ASSUME NEW n \in Nat \ {0}, NEW x \in Nat
             PROVE  /\ x \div n \in Nat /\ x % n \in 0 .. n-1
                    /\ x = (n * (x \div n)) + (x % n)
  OBVIOUS
<1> QED OBVIOUS

(* Multiples of n lie n apart.                                             *)
LEMMA Multiples ==
  ASSUME NEW n \in Nat, NEW a \in Int, NEW b \in Int, a < b
  PROVE  (n * a) + n <= n * b
<1>1. a + 1 <= b
  OBVIOUS
<1>2. n * (a + 1) <= n * b
  BY <1>1
<1> QED BY <1>2

(* A remainder is unique.                                                  *)
LEMMA SameQuotient ==
  ASSUME NEW n \in Nat \ {0}, NEW p \in Int, NEW q \in Int,
         NEW r \in 0 .. n-1, NEW s \in 0 .. n-1, (n * p) + r = (n * q) + s
  PROVE  r = s
<1>2. n * p \in Int /\ n * q \in Int
  OBVIOUS
<1>3. ~(p < q)
  <2>1. SUFFICES ASSUME p < q PROVE FALSE
    OBVIOUS
  <2>2. (n * p) + n <= n * q
    BY Multiples, <2>1
  <2> QED BY <1>2, <2>2
<1>4. ~(q < p)
  <2>1. SUFFICES ASSUME q < p PROVE FALSE
    OBVIOUS
  <2>2. (n * q) + n <= n * p
    BY Multiples, <2>1
  <2> QED BY <1>2, <2>2
<1> QED BY <1>3, <1>4

(* What is used of remainders.                                             *)
LEMMA Residues ==
  ASSUME NEW n \in Nat \ {0}, NEW x \in Nat
  PROVE  /\ x % n \in 0 .. n-1 /\ x % n <= x
         /\ x < n => x % n = x
         /\ (x + n) % n = x % n
         /\ \A y \in Nat : y % n = x % n /\ x < y => x + n <= y
<1>1. PICK q \in Nat, r \in 0 .. n-1 : r = x % n /\ x = (n * q) + r
  BY Division, Zenon
<1>2. n * q \in Nat
  BY <1>1
<1>3. x < n => x % n = x
  OBVIOUS
<1>4. (x + n) % n = x % n
  <2>1. x + n \in Nat
    OBVIOUS
  <2>2. PICK p \in Nat, s \in 0 .. n-1 : s = (x + n) % n /\ x + n = (n * p) + s
    BY <2>1, Division, Zenon
  <2>3. (n * (q + 1)) + r = (n * p) + s
    <3>1. n * (q + 1) = (n * q) + n /\ n * p \in Nat
      BY <1>1, <2>2
    <3> QED BY <1>1, <1>2, <2>2, <3>1
  <2>4. q + 1 \in Int /\ p \in Int
    BY <1>1, <2>2
  <2>5. r = s
    BY <2>3, <2>4, SameQuotient
  <2> QED BY <1>1, <2>2, <2>5
<1>5. ASSUME NEW y \in Nat, y % n = x % n, x < y PROVE x + n <= y
  <2>1. PICK p \in Nat, s \in 0 .. n-1 : s = y % n /\ y = (n * p) + s
    BY Division, Zenon
  <2>2. s = r
    BY <1>1, <1>5, <2>1
  <2>3. n * p \in Nat
    BY <2>1
  <2>4. q < p
    <3>1. SUFFICES ASSUME p <= q PROVE FALSE
      BY <1>1, <2>1
    <3>2. n * p <= n * q
      BY <1>1, <2>1, <3>1
    <3> QED BY <1>1, <1>2, <1>5, <2>1, <2>2, <2>3, <3>2
  <2>5. (n * q) + n <= n * p
    BY <1>1, <2>1, <2>4, Multiples
  <2> QED BY <1>1, <1>2, <2>1, <2>2, <2>3, <2>5
<1> QED BY <1>1, <1>2, <1>3, <1>4, <1>5

(* A task of a worker is one of its own, and the next of its own is        *)
(* 'threads' further.                                                      *)
LEMMA Owners ==
  /\ \A i \in Nat : Owner(i) \in ThreadIds /\ Owner(i) <= i
  /\ \A t \in ThreadIds : Owner(t) = t
  /\ \A i \in Nat : Owner(i + NThreads) = Owner(i)
  /\ \A i, j \in Nat : Owner(i) = Owner(j) /\ i < j => i + NThreads <= j
<1> NThreads \in Nat \ {0} /\ \A t : t \in ThreadIds <=> t \in 0 .. NThreads-1
  BY ThreadsAssumption DEF ThreadIds
<1>1. ASSUME NEW i \in Nat
      PROVE  /\ Owner(i) \in ThreadIds /\ Owner(i) <= i
             /\ Owner(i + NThreads) = Owner(i)
  BY Residues DEF Owner
<1>2. ASSUME NEW t \in ThreadIds PROVE Owner(t) = t
  <2>1. t \in Nat /\ t < NThreads
    OBVIOUS
  <2>2. t % NThreads = t
    BY <2>1, Residues, Zenon
  <2> QED BY <2>2 DEF Owner
<1>3. ASSUME NEW i \in Nat, NEW j \in Nat, Owner(i) = Owner(j), i < j
      PROVE  i + NThreads <= j
  BY <1>3, Residues DEF Owner
<1> QED BY <1>1, <1>2, <1>3

-----------------------------------------------------------------------------
(* The nodes: which are below the tasks and which are of at most three     *)
(* moves.                                                                  *)
LEMMA LeafTypes ==
  ASSUME NEW i \in Tasks, NEW k \in 1 .. Len(Leaves[i])
  PROVE  /\ Leaves[i][k] \in Sols /\ i \in Nat /\ i < NTasks /\ k \in Nat
         /\ Length[Leaves[i][k]] > STARTING_MOVES
<1>1. Leaves[i] \in Seq(Sols) /\ NTasks \in Nat
  BY SearchTreeAssumption
<1>2. i \in Nat /\ i < NTasks
  BY <1>1 DEF Tasks
<1>3. Leaves[i][k] \in Sols /\ k \in Nat
  BY <1>1
<1>4. Length[Leaves[i][k]] > STARTING_MOVES
  BY SearchTreeAssumption
<1> QED BY <1>2, <1>3, <1>4

(* The worker that owns a task.                                            *)
LEMMA OwnerOfTask ==
  ASSUME NEW i \in Tasks
  PROVE  Owner(i) \in Agents /\ Owner(i) # Main /\ Owner(i) \in ThreadIds
<1>1. i \in Nat
  BY SearchTreeAssumption DEF Tasks
<1>2. Owner(i) \in ThreadIds
  BY <1>1, Owners
<1> QED BY <1>2, Constants

(* The solved nodes met while the tasks are made.                          *)
LEMMA ShortTypes ==
  ASSUME NEW k \in 1 .. Len(ShortSols)
  PROVE  /\ ShortSols[k] \in Sols /\ k \in Nat
         /\ Length[ShortSols[k]] <= STARTING_MOVES
<1>1. ShortSols \in Seq(Sols)
  BY SearchTreeAssumption
<1>2. ShortSols[k] \in Sols /\ k \in Nat
  BY <1>1
<1>3. Length[ShortSols[k]] <= STARTING_MOVES
  BY SearchTreeAssumption
<1> QED BY <1>2, <1>3

(* The values the list is judged by.                                       *)
LEMMA ListValues ==
  ASSUME IInv
  PROVE  /\ MinMoves \in Nat /\ MaxMoves \in 0 .. MAXLEN /\ MinMoves <= MaxMoves
         /\ maxsolutions \in Nat /\ optimal \in Nat /\ Size \in Nat
         /\ MaxMoves \in Nat /\ shortest \in Nat /\ used \in Nat
         /\ nsols \in Nat /\ shortest \in 0 .. MAXLEN + 1 /\ used \in 0 .. Size
         /\ depth \in Nat /\ ntasks \in 0 .. NTasks /\ at \in ThreadIds
         /\ InUse \subseteq 0 .. Size /\ buf \in [0 .. Size -> Lines \cup {Nul, Unset}]
<1>1. CallTypes /\ ListTypes /\ MainTypes
  BY DEF IInv, TypeOK
<1>2. /\ MinMoves \in Nat /\ MaxMoves \in 0 .. MAXLEN
      /\ maxsolutions \in Nat /\ optimal \in Nat /\ Size \in Nat
  BY <1>1, RequestTypes
<1>3. MinMoves <= MaxMoves
  <2>1. req.minmoves \in Nat /\ MaxMoves \in Nat
    BY <1>1, <1>2, RequestsAssumption DEF CallTypes, MAXLEN
  <2> HIDE DEF MaxMoves
  <2> QED BY <2>1 DEF MinMoves, MIN
<1>4. /\ shortest \in 0 .. MAXLEN + 1 /\ used \in 0 .. Size /\ nsols \in Nat
      /\ buf \in [0 .. Size -> Lines \cup {Nul, Unset}]
      /\ ntasks \in 0 .. NTasks /\ depth \in Nat /\ at \in ThreadIds
  BY <1>1 DEF ListTypes, MainTypes
<1>5. MaxMoves \in Nat /\ shortest \in Nat /\ used \in Nat
  BY <1>2, <1>4 DEF MAXLEN
<1>6. InUse \subseteq 0 .. Size
  BY <1>2, <1>4 DEF InUse
<1> QED BY <1>1, <1>2, <1>3, <1>4, <1>5, <1>6

-----------------------------------------------------------------------------
(* What becomes of the list when no line is counted: a step changes at     *)
(* most the bytes after those in use.                                      *)
SameCounters == UNCHANGED <<req, nsols, shortest>>
SameText == used' = used /\ \A i \in InUse : buf'[i] = buf[i]

(* While text and counters stay, so do the lines reported.                 *)
LEMMA SameReported ==
  ASSUME SameText
  PROVE  /\ InUse' = InUse /\ Reported' = Reported
         /\ \A l : PlacesOf(l)' = PlacesOf(l)
<1>1. InUse' = InUse
  BY DEF SameText, InUse
<1>2. Reported' = Reported
  BY <1>1 DEF SameText, Reported, InUse, Nul
<1> QED BY <1>1, <1>2 DEF SameText, PlacesOf

(* The text keeps matching its counters if a step touches neither.         *)
LEMMA TextFrame ==
  ASSUME Text, SameText, SameCounters, overflowed => overflowed'
  PROVE  Text'
<1>1. /\ InUse' = InUse /\ Reported' = Reported
      /\ \A l : PlacesOf(l)' = PlacesOf(l)
      /\ \A i \in InUse : buf'[i] = buf[i]
  BY SameReported DEF SameText
<1>2. \A i \in InUse : buf'[i] \in Lines \cup {Nul} /\ (buf'[i] = Nul => overflowed')
  BY <1>1 DEF Text
<1>3. \A l \in Reported :
        /\ ~overflowed' => Cardinality(PlacesOf(l)') = LineLen[l[1]]
        /\ LineLen[l[1]] # 1 => \E i \in InUse : i # 0 /\ buf'[i] = l
  BY <1>1 DEF Text
<1> QED BY <1>1, <1>2, <1>3 DEF Text, SameCounters, Nul

(* A node keeps its status as the list grows.                              *)
LEMMA NodeFrame ==
  ASSUME Reported' = Reported, SameCounters, NEW s
  PROVE  Settled(s)' = Settled(s) /\ Untouched(s)' = Untouched(s)
  BY RequestFrame DEF SameCounters, Settled, Untouched

(* A solved node that is reported, full or out of the window stays so:     *)
(* counters only grow and the shortest length only falls.                  *)
LEMMA SettledGrows ==
  ASSUME IInv, Reported \subseteq Reported', req' = req, NEW s \in Sols, Settled(s),
         nsols' \in Nat, nsols' >= nsols, shortest' \in Nat, shortest' <= shortest
  PROVE  Settled(s)'
<1>1. /\ shortest \in Nat /\ optimal \in Nat /\ maxsolutions \in Nat
      /\ nsols \in Nat /\ Length[s] \in Nat
  <2>1. Length[s] \in Nat
    BY SolTypes
  <2> QED BY <2>1, ListValues
<1>2. MinMoves' = MinMoves /\ MaxMoves' = MaxMoves /\ optimal' = optimal
      /\ maxsolutions' = maxsolutions
  BY RequestFrame
<1>3. CASE LinesOf(s) \subseteq Reported
  BY <1>3 DEF Settled
<1>4. CASE Length[s] < MinMoves \/ Length[s] > MaxMoves
  BY <1>2, <1>4 DEF Settled
<1>5. CASE Length[s] > shortest + optimal
  <2>1. Length[s] > shortest' + optimal
    BY <1>1, <1>5
  <2> QED BY <1>2, <2>1 DEF Settled
<1>6. CASE nsols >= maxsolutions
  <2>1. nsols' >= maxsolutions
    BY <1>1, <1>6
  <2> QED BY <1>2, <2>1 DEF Settled
<1> QED BY <1>3, <1>4, <1>5, <1>6 DEF Settled

(* A step that touches no line touches no shortest one.                    *)
LEMMA ShortestFrame ==
  ASSUME ShortestLine, Reported' = Reported, SameCounters
  PROVE  ShortestLine'
  BY DEF ShortestLine, SameCounters

(* The nodes below the tasks when no line is counted and the main thread   *)
(* stays at its depth: what matters is which of them a worker left behind. *)
LEMMA LeafFrame ==
  ASSUME NEW i, NEW k, LeafStatus(i, k), Reported' = Reported, SameCounters,
         depth' = depth, Excused => Excused',
         pc'[Main] = pc[Main] \/ {pc[Main], pc'[Main]} \subseteq {"create", "join"},
         NEW t, t = Owner(i),
         pc[Main] \in {"create", "join"} /\ Length[Leaves[i][k]] = depth =>
           /\ Ahead(t, i, k)' => Ahead(t, i, k)
           /\ ~Ahead(t, i, k)' /\ ~InHand(t, i, k)' =>
                \/ ~Ahead(t, i, k) /\ ~InHand(t, i, k)
                \/ Settled(Leaves[i][k]) \/ Excused'
  PROVE  LeafStatus(i, k)'
<1> DEFINE s == Leaves[i][k]
<1>1. Settled(s)' = Settled(s) /\ Untouched(s)' = Untouched(s)
  BY NodeFrame
<1>2. /\ Early' = Early
      /\ pc'[Main] = "loop" => pc[Main] = "loop"
      /\ pc'[Main] \in {"create", "join"} => pc[Main] \in {"create", "join"}
  BY DEF Early
<1>3. NodeStatus(s, Ahead(t, i, k), InHand(t, i, k))
  BY DEF LeafStatus
<1> SUFFICES NodeStatus(s, Ahead(t, i, k), InHand(t, i, k))'
  BY DEF LeafStatus
<1> HIDE DEF s
<1> QED BY <1>1, <1>2, <1>3 DEF NodeStatus, s

(* A step of a worker that is not appending keeps the invariant if what it *)
(* leaves behind needs no attention.                                       *)
LEMMA QuietSearcher ==
  ASSUME ListInv, IInv', NEW t \in ThreadIds,
         UNCHANGED <<call, list, main, overflowed>>,
         \A a \in Agents : a # t => /\ pc'[a] = pc[a] /\ leaf'[a] = leaf[a]
                                    /\ copy'[a] = copy[a],
         \A u \in ThreadIds : u # t => /\ task'[u] = task[u]
                                       /\ cancelled'[u] = cancelled[u],
         pc[t] \notin {"none", "append", "count"}, pc'[t] \notin {"none", "count"},
         cancelled[t] => cancelled'[t],
         cancelled'[t] => pc'[t] = "exit" \/ anycancelled,
         Owner(task'[t]) = t,
         pc'[t] = "append" =>
           /\ copy'[t] = 1 /\ Solution(t)' \in Sols /\ Untouched(Solution(t)'),
         pc'[t] = "exit" => Excused' \/ task'[t] >= ntasks,
         \A i \in Tasks : \A k \in 1 .. Len(Leaves[i]) :
           Owner(i) = t /\ Length[Leaves[i][k]] = depth =>
             /\ Ahead(t, i, k)' => Ahead(t, i, k)
             /\ ~Ahead(t, i, k)' /\ ~InHand(t, i, k)' =>
                  ~Ahead(t, i, k) \/ Settled(Leaves[i][k]) \/ Excused'
  PROVE  ListInv' /\ Reported' = Reported
<1>1. /\ t \in Agents /\ t # Main /\ Main \in Agents
      /\ pc'[Main] = pc[Main] /\ leaf'[Main] = leaf[Main]
  BY Constants
<1>2. pc[Main] \in {"create", "join"}
  BY DEF ListInv, IInv, SameDepth
<1>3. SameText /\ SameCounters /\ Reported' = Reported /\ (Excused => Excused')
  <2>1. SameText /\ SameCounters
    BY DEF SameText, SameCounters, list, call
  <2> QED BY <2>1, SameReported DEF Excused
<1>4. Text' /\ ShortestLine'
  BY <1>3, TextFrame, ShortestFrame DEF ListInv
<1>5. Terminated'
  <2>1. pc'[t] \notin Appending => \A a \in Agents : pc'[a] \notin Appending => pc[a] \notin Appending
    BY DEF Appending
  <2> QED BY <1>1, <2>1 DEF ListInv, Terminated, list
<1>6. HandInOrder'
  <2> SUFFICES ASSUME NEW a \in Agents, pc'[a] \in Appending
               PROVE  \A k \in 1 .. Copies[Solution(a)'] :
                        <<Solution(a)', k>> \in Reported <=> k < copy'[a]
    BY <1>3 DEF HandInOrder, Appending
  <2>1. CASE a = t
    <3>1. copy'[t] = 1 /\ Solution(t)' \in Sols /\ Untouched(Solution(t)')
      BY <2>1 DEF Appending
    <3> QED BY <2>1, <3>1, LineOfNode, SolTypes DEF Untouched
  <2>2. CASE a # t
    <3>1. Solution(a)' = Solution(a)
      BY <2>2, SolutionFrame, Constants
    <3> QED BY <2>2, <3>1 DEF ListInv, HandInOrder
  <2> QED BY <2>1, <2>2
<1>7. ShortNodes'
  BY <1>1, <1>2, <1>3, NodeFrame DEF ListInv, ShortNodes
<1>8. Owned'
  BY Constants DEF ListInv, Owned
<1>9. LeafNodes'
  <2> SUFFICES ASSUME NEW i \in Tasks, NEW k \in 1 .. Len(Leaves[i])
               PROVE  LeafStatus(i, k)'
    BY DEF LeafNodes
  <2>1. LeafStatus(i, k)
    BY DEF ListInv, LeafNodes
  <2>2. CASE Owner(i) = t
    <3>1. ~InHand(t, i, k)
      BY DEF InHand, Appending
    <3> QED BY <1>1, <1>3, <2>1, <2>2, <3>1, LeafFrame DEF main
  <2>3. CASE Owner(i) # t
    <3>1. Owner(i) \in ThreadIds /\ Owner(i) \in Agents
      BY LeafTypes, Owners, Constants
    <3>2. /\ Ahead(Owner(i), i, k)' = Ahead(Owner(i), i, k)
          /\ InHand(Owner(i), i, k)' = InHand(Owner(i), i, k)
      BY <1>1, <2>3, <3>1 DEF Ahead, InHand
    <3> QED BY <1>1, <1>3, <2>1, <3>2, LeafFrame DEF main
  <2> QED BY <2>2, <2>3
<1>10. Workers'
  BY <1>1, <1>2, <1>3, Constants DEF ListInv, Workers, main
<1> QED BY <1>3, <1>4, <1>5, <1>6, <1>7, <1>8, <1>9, <1>10 DEF ListInv

(* Each action in turn: the status of the call is read, and a thread pauses,*)
(* goes on or stops.                                                       *)
LEMMA PollKeeps ==
  ASSUME ListInv, IInv', NEW t \in ThreadIds, Poll(t) \/ PauseEnd(t)
  PROVE  ListInv' /\ Reported' = Reported
<1>1. /\ pc[t] \in {"poll", "pause"}
      /\ UNCHANGED <<call, copy, task, target, list, main, overflowed>>
      /\ \A a \in Agents : a # t => pc'[a] = pc[a] /\ leaf'[a] = leaf[a]
      /\ \A u \in ThreadIds : u # t => cancelled'[u] = cancelled[u]
      /\ t \in Agents
  BY Constants
     DEF Poll, PauseEnd, StartTask, Cancel, ListInv, IInv, TypeOK, PcTypes,
         LoopTypes, ArgTypes
<1>2. \/ pc'[t] = "exit" /\ task[t] >= ntasks /\ cancelled' = cancelled
      \/ pc'[t] = "search" /\ leaf'[t] = 1 /\ cancelled' = cancelled
      \/ pc'[t] = "pause" /\ leaf' = leaf /\ cancelled' = cancelled
      \/ pc'[t] = "exit" /\ cancelled'[t] = TRUE
  BY Constants
     DEF Poll, PauseEnd, StartTask, Cancel, ListInv, IInv, TypeOK, PcTypes,
         LoopTypes, ArgTypes
<1>3. Owner(task'[t]) = t /\ task[t] \in Nat
  BY <1>1 DEF ListInv, Owned, IInv, TypeOK, LoopTypes
<1>4. ntasks = NTasks \/ overflowed
  BY <1>1 DEF ListInv, Workers, IInv, SameDepth
<1>5. cancelled'[t] => pc'[t] = "exit" \/ anycancelled
  BY <1>1, <1>2 DEF ListInv, Workers
<1>6. pc'[t] = "exit" => Excused' \/ task'[t] >= ntasks
  BY <1>1, <1>2 DEF Excused
<1>7. ASSUME NEW i \in Tasks, NEW k \in 1 .. Len(Leaves[i])
      PROVE  /\ Ahead(t, i, k)' => Ahead(t, i, k)
             /\ ~Ahead(t, i, k)' => ~Ahead(t, i, k) \/ Excused'
  <2>1. i \in Nat /\ i < NTasks /\ k \in Nat /\ k >= 1 /\ NTasks \in Nat
    BY LeafTypes, SearchTreeAssumption
  <2>2. Ahead(t, i, k) <=> i >= task[t]
    BY <1>1 DEF Ahead, Appending
  <2>3. CASE pc'[t] = "exit" /\ task[t] >= ntasks /\ cancelled' = cancelled
    <3>1. i >= task[t] => overflowed'
      BY <1>1, <1>3, <1>4, <2>1, <2>3
    <3> QED BY <2>2, <2>3, <3>1 DEF Ahead, Appending, Excused
  <2>4. CASE pc'[t] = "search" /\ leaf'[t] = 1 /\ cancelled' = cancelled
    <3>1. Ahead(t, i, k)' <=> i >= task[t]
      BY <1>1, <1>3, <2>1, <2>4 DEF Ahead, Appending
    <3> QED BY <2>2, <3>1
  <2>5. CASE pc'[t] = "pause"
    <3>1. Ahead(t, i, k)' <=> i >= task[t]
      BY <1>1, <2>5 DEF Ahead, Appending
    <3> QED BY <2>2, <3>1
  <2>6. CASE pc'[t] = "exit" /\ cancelled'[t] = TRUE
    BY <2>6 DEF Ahead, Appending, Excused
  <2> QED BY <1>2, <2>3, <2>4, <2>5, <2>6
<1>8. cancelled[t] => cancelled'[t]
  BY <1>2
<1>9. pc[t] \notin {"none", "append", "count"} /\ pc'[t] \notin {"none", "count", "append"}
  BY <1>1, <1>2
<1> QED BY <1>1, <1>3, <1>5, <1>6, <1>7, <1>8, <1>9, QuietSearcher

(* The search goes on to the next solved node of a task.                   *)
LEMMA SearchKeeps ==
  ASSUME ListInv, IInv', NEW t \in ThreadIds, Search(t)
  PROVE  ListInv' /\ Reported' = Reported
<1> DEFINE s == Leaves[task[t]][leaf[t]]
<1>1. /\ pc[t] = "search" /\ leaf[t] <= Len(Leaves[task[t]])
      /\ UNCHANGED <<call, copy, task, target, cancelled, list, main, overflowed>>
      /\ \A a \in Agents : a # t => pc'[a] = pc[a] /\ leaf'[a] = leaf[a]
      /\ t \in Agents /\ t # Main
      /\ \/ pc'[t] = "lock" /\ leaf' = leaf
         \/ pc'[t] = "search" /\ leaf'[t] = leaf[t] + 1 /\ (Stop(t, Length[s]) \/ Length[s] # target[t])
  BY Constants
     DEF Search, Solution, worker, ListInv, IInv, TypeOK, PcTypes, LoopTypes
<1>2. /\ Owner(task'[t]) = t /\ task[t] \in Tasks /\ task[t] \in Nat
      /\ leaf[t] \in Nat \ {0} /\ target[t] = depth /\ depth \in Nat
  BY <1>1, ListValues
     DEF ListInv, Owned, IInv, TypeOK, LoopTypes, Cursor, WorkerCursor, SameDepth
<1>3. leaf[t] \in 1 .. Len(Leaves[task[t]])
  <2>1. Len(Leaves[task[t]]) \in Nat
    BY <1>2, SearchTreeAssumption
  <2> QED BY <1>1, <1>2, <2>1
(* The node that is passed over.                                           *)
<1>4. pc'[t] = "search" /\ Length[s] = depth => Settled(s)
  <2> SUFFICES ASSUME pc'[t] = "search", Length[s] = depth PROVE Settled(s)
    OBVIOUS
  <2>1. Stop(t, Length[s])
    BY <1>1, <1>2
  <2>2. CASE nsols >= maxsolutions
    BY <2>2 DEF Settled
  <2>3. CASE Length[s] - 1 > shortest + optimal
    <3>1. Length[s] > shortest + optimal
      BY <1>2, <2>3, ListValues DEF ListInv
    <3> QED BY <3>1 DEF Settled
  <2>4. ~(target[t] - (Length[s] - 1) <= 0)
    BY <1>2
  <2> HIDE DEF s
  <2> QED BY <2>1, <2>2, <2>3, <2>4 DEF Stop
<1>5. ASSUME NEW i \in Tasks, NEW k \in 1 .. Len(Leaves[i]), Length[Leaves[i][k]] = depth
      PROVE  /\ Ahead(t, i, k)' => Ahead(t, i, k)
             /\ ~Ahead(t, i, k)' => ~Ahead(t, i, k) \/ Settled(Leaves[i][k])
  <2>1. i \in Nat /\ k \in Nat
    BY LeafTypes
  <2>2. Ahead(t, i, k) <=> i > task[t] \/ (i = task[t] /\ k >= leaf[t])
    BY <1>1 DEF Ahead, Appending
  <2>3. CASE pc'[t] = "lock" /\ leaf' = leaf
    BY <1>1, <2>2, <2>3 DEF Ahead, Appending
  <2>4. CASE pc'[t] = "search" /\ leaf'[t] = leaf[t] + 1
    <3>1. Ahead(t, i, k)' <=> i > task[t] \/ (i = task[t] /\ k >= leaf[t] + 1)
      BY <1>1, <2>4 DEF Ahead, Appending
    <3>2. ~Ahead(t, i, k)' /\ Ahead(t, i, k) => i = task[t] /\ k = leaf[t]
      BY <1>2, <2>1, <2>2, <3>1
    <3> QED BY <1>2, <1>4, <1>5, <2>1, <2>2, <2>4, <3>1, <3>2
  <2> QED BY <1>1, <2>3, <2>4
<1>6. cancelled'[t] => pc'[t] = "exit" \/ anycancelled
  BY <1>1 DEF ListInv, Workers
<1>7. /\ pc[t] \notin {"none", "append", "count"}
      /\ pc'[t] \notin {"none", "count", "append", "exit"}
  BY <1>1
<1> QED BY <1>1, <1>2, <1>5, <1>6, <1>7, QuietSearcher

(* A task is done, and the thread goes on to its next.                     *)
LEMMA SearchEndKeeps ==
  ASSUME ListInv, IInv', NEW t \in ThreadIds, SearchEnd(t)
  PROVE  ListInv' /\ Reported' = Reported
<1>1. /\ pc[t] = "search" /\ leaf[t] > Len(Leaves[task[t]])
      /\ UNCHANGED <<call, leaf, copy, target, cancelled, list, main, overflowed>>
      /\ \A a \in Agents : a # t => pc'[a] = pc[a]
      /\ \A u \in ThreadIds : u # t => task'[u] = task[u]
      /\ t \in Agents /\ t # Main
      /\ pc'[t] = "poll" /\ task'[t] = task[t] + NThreads
  BY Constants DEF SearchEnd, ListInv, IInv, TypeOK, PcTypes, LoopTypes
<1>2. /\ Owner(task[t]) = t /\ task[t] \in Tasks /\ task[t] \in Nat
      /\ leaf[t] \in Nat \ {0}
  BY <1>1 DEF ListInv, Owned, IInv, TypeOK, LoopTypes, Cursor, WorkerCursor
<1>3. Owner(task'[t]) = t
  BY <1>1, <1>2, Owners
<1>4. ASSUME NEW i \in Tasks, NEW k \in 1 .. Len(Leaves[i]), Owner(i) = t
      PROVE  Ahead(t, i, k)' <=> Ahead(t, i, k)
  <2>1. i \in Nat /\ k \in Nat /\ NThreads \in Nat \ {0} /\ Len(Leaves[i]) \in Nat
    BY LeafTypes, ThreadsAssumption, SearchTreeAssumption
  <2>2. Ahead(t, i, k) <=> i > task[t] \/ (i = task[t] /\ k >= leaf[t])
    BY <1>1 DEF Ahead, Appending
  <2>3. Ahead(t, i, k)' <=> i >= task[t] + NThreads
    BY <1>1 DEF Ahead, Appending
  <2>4. i > task[t] => i >= task[t] + NThreads
    BY <1>2, <1>4, <2>1, Owners
  <2>5. i = task[t] => k < leaf[t]
    BY <1>1, <1>2, <2>1
  <2> QED BY <1>2, <2>1, <2>2, <2>3, <2>4, <2>5
<1>5. cancelled'[t] => pc'[t] = "exit" \/ anycancelled
  BY <1>1 DEF ListInv, Workers
<1> QED BY <1>1, <1>3, <1>4, <1>5, QuietSearcher

(* A thread that has met a solved node takes the mutex of the list.        *)
LEMMA LockListKeeps ==
  ASSUME ListInv, IInv', NEW t \in ThreadIds, LockList(t)
  PROVE  ListInv' /\ Reported' = Reported
<1>1. /\ pc[t] = "lock" /\ pc'[t] = "append" /\ copy'[t] = 1
      /\ UNCHANGED <<call, leaf, task, target, cancelled, list, main, overflowed>>
      /\ \A a \in Agents : a # t => pc'[a] = pc[a] /\ copy'[a] = copy[a]
      /\ t \in Agents /\ t # Main
  BY Constants DEF LockList, worker, ListInv, IInv, TypeOK, PcTypes, LoopTypes
<1>2. /\ Owner(task[t]) = t /\ task[t] \in Tasks /\ task[t] \in Nat /\ leaf[t] \in Nat
      /\ leaf[t] \in 1 .. Len(Leaves[task[t]]) /\ Length[Solution(t)] = depth
      /\ pc[Main] \in {"create", "join"}
  BY <1>1
     DEF ListInv, Owned, IInv, TypeOK, LoopTypes, Cursor, WorkerCursor, SameDepth
<1>3. Solution(t)' = Solution(t) /\ Solution(t) = Leaves[task[t]][leaf[t]]
  BY <1>1, SolutionFrame DEF Solution
<1>4. Solution(t) \in Sols
  BY <1>2, <1>3, LeafTypes
<1>5. Untouched(Solution(t))
  <2>1. Ahead(t, task[t], leaf[t])
    BY <1>1, <1>2 DEF Ahead
  <2>2. LeafStatus(task[t], leaf[t])
    BY <1>2 DEF ListInv, LeafNodes
  <2> QED BY <1>2, <1>3, <2>1, <2>2 DEF LeafStatus, NodeStatus
<1>6. ASSUME NEW i \in Tasks, NEW k \in 1 .. Len(Leaves[i])
      PROVE  /\ Ahead(t, i, k)' => Ahead(t, i, k)
             /\ ~Ahead(t, i, k)' /\ ~InHand(t, i, k)' => ~Ahead(t, i, k)
  <2>1. i \in Nat /\ k \in Nat
    BY LeafTypes
  <2>2. Ahead(t, i, k) <=> i > task[t] \/ (i = task[t] /\ k >= leaf[t])
    BY <1>1 DEF Ahead, Appending
  <2>3. /\ Ahead(t, i, k)' <=> i > task[t] \/ (i = task[t] /\ k > leaf[t])
        /\ InHand(t, i, k)' <=> i = task[t] /\ k = leaf[t]
    BY <1>1 DEF Ahead, InHand, Appending
  <2> QED BY <1>2, <2>1, <2>2, <2>3
<1>7. cancelled'[t] => pc'[t] = "exit" \/ anycancelled
  BY <1>1 DEF ListInv, Workers
<1>8. copy'[t] = 1 /\ Solution(t)' \in Sols /\ Untouched(Solution(t)')
  BY <1>1, <1>3, <1>4, <1>5
<1> QED BY <1>1, <1>2, <1>6, <1>7, <1>8, QuietSearcher

-----------------------------------------------------------------------------
(* appendsolution.  The nodes below the tasks are not the node in hand,    *)
(* but for the one its worker is at.                                       *)
LEMMA NodeInHand ==
  ASSUME ListInv, NEW a \in Agents, pc[a] \in Appending
  PROVE  /\ Solution(a) \in Sols
         /\ a = Main => /\ leaf[Main] \in 1 .. Len(ShortSols)
                        /\ Solution(a) = ShortSols[leaf[Main]] /\ Early
         /\ a # Main => /\ a \in ThreadIds /\ task[a] \in Tasks /\ Owner(task[a]) = a
                        /\ leaf[a] \in 1 .. Len(Leaves[task[a]])
                        /\ Solution(a) = Leaves[task[a]][leaf[a]]
                        /\ Length[Solution(a)] = depth
                        /\ pc[Main] \in {"create", "join"}
         /\ \A i \in Tasks : \A k \in 1 .. Len(Leaves[i]) :
              Leaves[i][k] = Solution(a) => a # Main /\ i = task[a] /\ k = leaf[a]
         /\ \A k \in 1 .. Len(ShortSols) :
              ShortSols[k] = Solution(a) => a = Main /\ k = leaf[Main]
<1>1. Solution(a) \in Sols
  BY SolutionTypes DEF ListInv, Appending
<1>2. CASE a = Main
  <2>1. leaf[Main] \in 1 .. Len(ShortSols) /\ Solution(a) = ShortSols[leaf[Main]] /\ Early
    BY <1>2 DEF ListInv, IInv, Cursor, MainCursor, Appending, Solution, Early
  <2>2. Length[Solution(a)] <= STARTING_MOVES /\ Length[Solution(a)] \in Nat
    BY <1>1, <2>1, ShortTypes, SolTypes
  <2>3. ASSUME NEW i \in Tasks, NEW k \in 1 .. Len(Leaves[i])
        PROVE  Leaves[i][k] # Solution(a)
    <3>1. Length[Leaves[i][k]] > STARTING_MOVES
      BY LeafTypes
    <3> QED BY <2>2, <3>1 DEF STARTING_MOVES
  <2> QED BY <1>1, <1>2, <2>1, <2>3, NodesAssumption
<1>3. CASE a # Main
  <2>1. /\ a \in ThreadIds /\ task[a] \in Tasks /\ Owner(task[a]) = a
        /\ leaf[a] \in 1 .. Len(Leaves[task[a]])
        /\ Solution(a) = Leaves[task[a]][leaf[a]]
        /\ Length[Solution(a)] = depth
        /\ pc[Main] \in {"create", "join"}
    BY <1>3, Constants
       DEF ListInv, Owned, IInv, Cursor, WorkerCursor, SameDepth, Appending, Solution
  <2>2. Length[Solution(a)] > STARTING_MOVES /\ Length[Solution(a)] \in Nat
    BY <1>1, <2>1, LeafTypes, SolTypes
  <2>3. ASSUME NEW k \in 1 .. Len(ShortSols)
        PROVE  ShortSols[k] # Solution(a)
    <3>1. Length[ShortSols[k]] <= STARTING_MOVES
      BY ShortTypes
    <3> QED BY <2>2, <3>1 DEF STARTING_MOVES
  <2> QED BY <1>1, <1>3, <2>1, <2>3, NodesAssumption
<1> QED BY <1>2, <1>3

(* While a appends, nobody else does.                                      *)
LEMMA OnlyAppender ==
  ASSUME ListInv, NEW a \in Agents, pc[a] \in Appending, NEW b \in Agents, b # a
  PROVE  pc[b] \notin Appending
  BY OneAppends DEF ListInv, Appending

(* The text of a line is written behind what is counted.                   *)
LEMMA AppendLineKeeps ==
  ASSUME ListInv, IInv', NEW a \in Agents, AppendLine(a)
  PROVE  ListInv' /\ Reported' = Reported
<1>1. /\ pc[a] = "append" /\ pc'[a] = "count"
      /\ \A b \in Agents : b # a => pc'[b] = pc[b]
      /\ UNCHANGED <<call, leaf, copy, worker, nsols, shortest, used, main, overflowed>>
  BY DEF AppendLine, ListInv, IInv, TypeOK, PcTypes
<1>2. SameText /\ SameCounters /\ Reported' = Reported /\ (Excused => Excused')
  <2>1. used \in Nat /\ InUse \subseteq 0 .. Size
    BY ListValues DEF ListInv
  <2>2. \A i \in InUse : ~(used <= i)
    BY <2>1 DEF InUse
  <2>3. \A i \in InUse : buf'[i] = buf[i]
    BY <2>1, <2>2 DEF AppendLine
  <2>4. SameText /\ SameCounters
    BY <1>1, <2>3 DEF SameText, SameCounters, call
  <2> QED BY <1>1, <2>4, SameReported DEF Excused, worker
<1>3. Text' /\ ShortestLine'
  BY <1>1, <1>2, TextFrame, ShortestFrame DEF ListInv
<1>4. Terminated'
  BY <1>1 DEF Terminated, Appending
<1>5. HandInOrder'
  <2> SUFFICES ASSUME NEW b \in Agents, pc'[b] \in Appending
               PROVE  \A k \in 1 .. Copies[Solution(b)'] :
                        <<Solution(b)', k>> \in Reported <=> k < copy'[b]
    BY <1>2 DEF HandInOrder, Appending
  <2>1. b = a
    BY <1>1, OnlyAppender DEF Appending
  <2>2. Solution(b)' = Solution(b) /\ copy'[b] = copy[b]
    BY <1>1, SolutionFrame DEF worker
  <2> QED BY <1>1, <2>1, <2>2 DEF ListInv, HandInOrder, Appending
<1>6. ShortNodes'
  <2>1. \A k : Settled(ShortSols[k])' = Settled(ShortSols[k])
               /\ Untouched(ShortSols[k])' = Untouched(ShortSols[k])
    BY <1>2, NodeFrame
  <2>2. pc'[Main] = pc[Main] \/ (pc[Main] = "append" /\ pc'[Main] = "count")
    BY <1>1, Constants
  <2> QED BY <1>1, <2>1, <2>2 DEF ListInv, ShortNodes, Appending
<1>7. Owned'
  BY <1>1, Constants DEF ListInv, Owned, worker
<1>8. LeafNodes'
  <2> SUFFICES ASSUME NEW i \in Tasks, NEW k \in 1 .. Len(Leaves[i])
               PROVE  LeafStatus(i, k)'
    BY DEF LeafNodes
  <2>1. LeafStatus(i, k) /\ Owner(i) \in Agents
    <3>1. LeafStatus(i, k)
      BY DEF ListInv, LeafNodes
    <3> QED BY <3>1, LeafTypes, OwnerOfTask
  <2>2. /\ Ahead(Owner(i), i, k)' = Ahead(Owner(i), i, k)
        /\ InHand(Owner(i), i, k)' = InHand(Owner(i), i, k)
    <3>1. CASE Owner(i) = a
      <4>1. a # Main
        BY <3>1, LeafTypes, Owners, Constants
      <4> QED BY <1>1, <3>1, <4>1, Constants DEF Ahead, InHand, Appending, worker
    <3>2. CASE Owner(i) # a
      <4>1. pc'[Main] = "create" <=> pc[Main] = "create"
        BY <1>1, Constants
      <4> QED BY <1>1, <2>1, <3>2, <4>1 DEF Ahead, InHand, worker
    <3> QED BY <3>1, <3>2
  <2>3. CASE a = Main
    <3>1. Early /\ Early' /\ pc'[Main] \notin {"loop", "create", "join"}
      BY <1>1, <2>3 DEF Early
    <3>2. Untouched(Leaves[i][k])
      BY <2>1, <3>1 DEF LeafStatus, NodeStatus
    <3>3. Untouched(Leaves[i][k])'
      BY <1>2, <3>2, NodeFrame
    <3> QED BY <3>1, <3>3 DEF LeafStatus, NodeStatus
  <2>4. CASE a # Main
    <3>1. pc'[Main] = pc[Main]
      BY <1>1, <2>4, Constants
    <3> QED BY <1>1, <1>2, <2>1, <2>2, <3>1, LeafFrame DEF main
  <2> QED BY <2>3, <2>4
<1>9. Workers'
  <2>1. /\ pc'[Main] \in {"prepared", "loop", "create", "join", "call"} => pc'[Main] = pc[Main]
        /\ pc[Main] \in {"create", "join"} => pc'[Main] = pc[Main]
        /\ \A t \in ThreadIds : /\ pc'[t] = "exit" <=> pc[t] = "exit"
                                /\ pc'[t] = "none" <=> pc[t] = "none"
    BY <1>1, Constants
  <2>2. pc[Main] \notin {"create", "join"} => pc'[Main] \notin {"create", "join"}
    BY <1>1, Constants
  <2> QED BY <1>1, <1>2, <2>1, <2>2 DEF ListInv, Workers, main, worker
<1> QED BY <1>2, <1>3, <1>4, <1>5, <1>6, <1>7, <1>8, <1>9 DEF ListInv

(* What counting a line does to the list.                                  *)
LEMMA NewLine ==
  ASSUME ListInv, NEW a \in Agents, CountLine(a)
  PROVE  \E l \in Lines :
           /\ l = <<Solution(a), copy[a]>> /\ l[1] = Solution(a)
           /\ copy[a] \in 1 .. Copies[Solution(a)]
           /\ l \notin Reported /\ Reported' = Reported \cup {l}
           /\ InUse' = InUse \cup (used .. used + LineLen[l[1]] - 1)
           /\ PlacesOf(l)' = used .. used + LineLen[l[1]] - 1
           /\ \A m \in Reported : PlacesOf(m)' = PlacesOf(m)
           /\ \A i \in used .. used + LineLen[l[1]] - 1 : buf[i] = l
           /\ nsols < maxsolutions
<1> DEFINE s == Solution(a)
           n == LineLen[s]
           New == used .. used + n - 1
<1>0. PICK l : l = <<s, copy[a]>>
  OBVIOUS
<1>1. /\ pc[a] = "count" /\ buf' = buf /\ used' = used + n
      /\ s \in Sols /\ n \in Nat \ {0} /\ Copies[s] \in Nat
  BY NodeInHand, SolTypes DEF CountLine, Appending
<1>2. /\ copy[a] <= Copies[s] /\ nsols < maxsolutions /\ copy[a] \in Nat \ {0}
      /\ \A i \in New : buf[i] = l
  BY <1>0, <1>1 DEF ListInv, IInv, Counting, CountingAt, MoreCopies, TypeOK, LoopTypes
<1>3. copy[a] \in 1 .. Copies[s]
  BY <1>1, <1>2
<1>4. l \in Lines /\ l[1] = s /\ l # Nul
  BY <1>0, <1>1, <1>3, LineOfNode
<1>5. l \notin Reported
  <2>1. pc[a] \in Appending
    BY <1>1 DEF Appending
  <2>2. l \in Reported <=> copy[a] < copy[a]
    BY <1>0, <1>3, <2>1 DEF ListInv, HandInOrder
  <2> QED BY <1>2, <2>2
<1>6. used \in Nat
  BY ListValues DEF ListInv
<1> HIDE DEF s, n
<1>7. InUse' = InUse \cup New
  BY <1>1, <1>6 DEF InUse
<1>8. \E i \in New : TRUE
  <2>1. used \in New
    BY <1>1, <1>6
  <2> QED BY <2>1
<1>9. Reported' = Reported \cup {l}
  <2>1. Reported' = {buf[i] : i \in InUse'} \ {Nul} /\ Reported = {buf[i] : i \in InUse} \ {Nul}
    BY <1>1 DEF Reported, InUse, Nul
  <2>2. {buf[i] : i \in InUse'} = {buf[i] : i \in InUse} \cup {l}
    BY <1>2, <1>7, <1>8
  <2> QED BY <1>4, <2>1, <2>2
<1>10. \A i \in InUse : buf[i] # l
  BY <1>4, <1>5 DEF Reported, InUse
<1>11. PlacesOf(l)' = New
  <2>1. PlacesOf(l)' = {i \in InUse' : buf'[i] = l}
    BY DEF PlacesOf
  <2> QED BY <1>1, <1>2, <1>7, <1>10, <2>1
<1>12. ASSUME NEW m \in Reported PROVE PlacesOf(m)' = PlacesOf(m)
  <2>1. m # l
    BY <1>5
  <2> QED BY <1>1, <1>2, <1>7, <2>1 DEF PlacesOf
<1> QED BY <1>0, <1>2, <1>3, <1>4, <1>5, <1>7, <1>9, <1>11, <1>12 DEF s, n

(* The line is counted: text and counters match again, and the shortest    *)
(* length is that of the lines.                                            *)
LEMMA CountLineKeepsText ==
  ASSUME ListInv, IInv', NEW a \in Agents, CountLine(a)
  PROVE  Text' /\ ShortestLine'
<1>1. PICK l \in Lines :
           /\ l[1] = Solution(a)
           /\ l \notin Reported /\ Reported' = Reported \cup {l}
           /\ InUse' = InUse \cup (used .. used + LineLen[l[1]] - 1)
           /\ PlacesOf(l)' = used .. used + LineLen[l[1]] - 1
           /\ \A m \in Reported : PlacesOf(m)' = PlacesOf(m)
           /\ \A i \in used .. used + LineLen[l[1]] - 1 : buf[i] = l
  BY NewLine
<1> DEFINE n == LineLen[l[1]]
           len == Length[l[1]]
<1>2. /\ buf' = buf /\ overflowed' = overflowed /\ nsols' = nsols + 1
      /\ shortest' = MIN(shortest, len)
  BY <1>1 DEF CountLine
<1>3. /\ n \in Nat \ {0} /\ used \in Nat /\ l # Nul /\ nsols \in Nat
      /\ len \in Nat /\ len <= MAXLEN /\ shortest \in Nat /\ l[1] \in Sols
  BY LineParts, SolTypes, ListValues DEF ListInv
<1>4. Text
  BY DEF ListInv
<1>5. \A i \in InUse' : buf'[i] \in Lines \cup {Nul} /\ (buf'[i] = Nul => overflowed')
  BY <1>1, <1>2, <1>3, <1>4 DEF Text
<1>6. IsFiniteSet(Reported') /\ Cardinality(Reported') = nsols'
  BY <1>1, <1>2, <1>4, FS_AddElement DEF Text
<1>7. ASSUME NEW m \in Reported'
      PROVE  /\ ~overflowed' => Cardinality(PlacesOf(m)') = LineLen[m[1]]
             /\ LineLen[m[1]] # 1 => \E i \in InUse' : i # 0 /\ buf'[i] = m
  <2>1. CASE m \in Reported
    BY <1>1, <1>2, <1>4, <2>1 DEF Text
  <2>2. CASE m = l
    <3> HIDE DEF n
    <3>1. Cardinality(used .. used + n - 1) = n
      <4>1. PICK b \in Int : b = used + n - 1
        BY <1>3
      <4>2. used \in Int
        BY <1>3
      <4>3. Cardinality(used .. b) = IF used > b THEN 0 ELSE b - used + 1
        BY <4>2, FS_Interval
      <4> QED BY <1>3, <4>1, <4>3
    <3>2. n # 1 => used + 1 \in used .. used + n - 1 /\ used + 1 # 0
      BY <1>3
    <3>3. n # 1 => used + 1 \in InUse' /\ buf'[used + 1] = l
      BY <1>1, <1>2, <3>2 DEF n
    <3> QED BY <1>1, <2>2, <3>1, <3>2, <3>3 DEF n
  <2> QED BY <1>1, <2>1, <2>2
<1>8. Text'
  BY <1>5, <1>6, <1>7 DEF Text, Nul
<1>9. ShortestLine'
  <2>1. ShortestLine
    BY DEF ListInv
  <2>2. \A m \in Reported : Length[m[1]] \in Nat
    <3>1. Reported \subseteq Lines
      BY <1>4 DEF Text, Reported, InUse
    <3> QED BY <3>1, LineParts, SolTypes
  <2> HIDE DEF len
  <2>3. shortest' \in {shortest, len} /\ shortest' <= len /\ shortest' <= shortest
        /\ shortest' \in Nat
    BY <1>2, <1>3 DEF MIN
  <2>4. \A m \in Reported' : shortest' <= Length[m[1]]
    BY <1>1, <1>3, <2>1, <2>2, <2>3 DEF ShortestLine, len
  <2>5. shortest' # MAXLEN + 1 => \E m \in Reported' : Length[m[1]] = shortest'
    BY <1>1, <2>1, <2>3 DEF ShortestLine, len
  <2> QED BY <2>4, <2>5 DEF ShortestLine
<1> QED BY <1>8, <1>9

(* The same step, for the rest of the invariant.                           *)
LEMMA CountLineKeeps ==
  ASSUME ListInv, IInv', NEW a \in Agents, CountLine(a)
  PROVE  ListInv'
<1>1. PICK l \in Lines :
           /\ l = <<Solution(a), copy[a]>> /\ copy[a] \in 1 .. Copies[Solution(a)]
           /\ l[1] = Solution(a) /\ Reported' = Reported \cup {l}
  BY NewLine
<1>2. /\ pc[a] = "count" /\ pc'[a] = "append" /\ copy'[a] = copy[a] + 1
      /\ \A b \in Agents : b # a => pc'[b] = pc[b]
      /\ UNCHANGED <<call, leaf, worker, main, overflowed>> /\ nsols' = nsols + 1
      /\ shortest' = MIN(shortest, Length[Solution(a)])
  BY DEF CountLine, ListInv, IInv, TypeOK, PcTypes, LoopTypes
<1>3. Text' /\ ShortestLine'
  BY CountLineKeepsText
<1>4. Terminated'
  BY <1>2 DEF Terminated, Appending
<1>5. ASSUME NEW s \in Sols
      PROVE  /\ Settled(s) => Settled(s)'
             /\ Untouched(s) /\ s # Solution(a) => Untouched(s)'
  <2>1. nsols' \in Nat /\ nsols' >= nsols /\ shortest' \in Nat /\ shortest' <= shortest
    <3>1. nsols \in Nat /\ shortest \in Nat
      BY ListValues DEF ListInv
    <3>2. Length[Solution(a)] \in Nat
      BY <1>2, NodeInHand, SolTypes DEF Appending
    <3> QED BY <1>2, <3>1, <3>2 DEF MIN
  <2>2. Settled(s) => Settled(s)'
    BY <1>1, <1>2, <2>1, SettledGrows DEF ListInv, call
  <2>3. s # Solution(a) => l \notin LinesOf(s)
    BY <1>1 DEF LinesOf
  <2> QED BY <1>1, <2>2, <2>3 DEF Untouched
<1>6. HandInOrder'
  <2> SUFFICES ASSUME NEW b \in Agents, pc'[b] \in Appending
               PROVE  \A k \in 1 .. Copies[Solution(b)'] :
                        <<Solution(b)', k>> \in Reported' <=> k < copy'[b]
    BY DEF HandInOrder, Appending
  <2>1. b = a
    BY <1>2, OnlyAppender DEF Appending
  <2>2. Solution(a)' = Solution(a)
    BY <1>2, SolutionFrame DEF worker
  <2> SUFFICES ASSUME NEW k \in 1 .. Copies[Solution(a)]
               PROVE  <<Solution(a), k>> \in Reported' <=> k < copy[a] + 1
    BY <1>2, <2>1, <2>2
  <2>3. <<Solution(a), k>> \in Reported <=> k < copy[a]
    BY <1>2 DEF ListInv, HandInOrder, Appending
  <2>4. <<Solution(a), k>> \in Reported' <=> k < copy[a] \/ k = copy[a]
    BY <1>1, <2>3
  <2>5. Copies[Solution(a)] \in Nat
    BY <1>2, NodeInHand, SolTypes DEF Appending
  <2> QED BY <1>1, <2>4, <2>5
<1>7. ShortNodes'
  <2>1. ASSUME NEW k \in 1 .. Len(ShortSols)
        PROVE  /\ Settled(ShortSols[k]) => Settled(ShortSols[k])'
               /\ Untouched(ShortSols[k]) /\ (a = Main => k # leaf[Main])
                    => Untouched(ShortSols[k])'
    BY <1>2, <1>5, ShortTypes, NodeInHand DEF Appending
  <2>2. CASE a = Main
    <3>1. /\ pc[Main] = "count" /\ pc'[Main] = "append" /\ leaf'[Main] = leaf[Main]
          /\ leaf[Main] \in Nat
      BY <1>2, <2>2, Constants DEF ListInv, IInv, TypeOK, LoopTypes
    <3>2. \A k \in 1 .. Len(ShortSols) :
            /\ k < leaf[Main] => Settled(ShortSols[k])
            /\ k > leaf[Main] => Untouched(ShortSols[k])
      BY <3>1 DEF ListInv, ShortNodes
    <3>3. \A k \in 1 .. Len(ShortSols) :
            /\ k < leaf[Main] => Settled(ShortSols[k])'
            /\ k > leaf[Main] => Untouched(ShortSols[k])'
      BY <2>1, <3>1, <3>2
    <3> QED BY <3>1, <3>3 DEF ShortNodes, Appending
  <2>3. CASE a # Main
    <3>1. pc'[Main] = pc[Main] /\ pc[Main] \in {"create", "join"}
      BY <1>2, <2>3, NodeInHand, Constants DEF Appending
    <3> QED BY <1>2, <2>1, <3>1 DEF ListInv, ShortNodes
  <2> QED BY <2>2, <2>3
<1>8. Owned'
  BY <1>2, Constants DEF ListInv, Owned, worker
<1>9. LeafNodes'
  <2> SUFFICES ASSUME NEW i \in Tasks, NEW k \in 1 .. Len(Leaves[i])
               PROVE  LeafStatus(i, k)'
    BY DEF LeafNodes
  <2> DEFINE s == Leaves[i][k]
             o == Owner(i)
  <2>1. LeafStatus(i, k) /\ o \in Agents /\ o # Main /\ s \in Sols
    <3>1. LeafStatus(i, k)
      BY DEF ListInv, LeafNodes
    <3> QED BY <3>1, LeafTypes, OwnerOfTask
  <2>2. Settled(s) => Settled(s)'
    BY <1>5, <2>1
  <2>3. CASE a = Main
    <3>1. Early /\ Early' /\ pc'[Main] \notin {"loop", "create", "join"}
      BY <1>2, <2>3 DEF Early
    <3>2. Untouched(s) /\ s # Solution(a)
      BY <1>2, <2>1, <2>3, <3>1, NodeInHand DEF LeafStatus, NodeStatus, Appending
    <3>3. Untouched(s)'
      BY <1>5, <2>1, <3>2
    <3> QED BY <3>1, <3>3 DEF LeafStatus, NodeStatus
  <2>4. CASE a # Main
    <3>1. /\ pc'[Main] = pc[Main] /\ pc[Main] \in {"create", "join"}
          /\ Length[Solution(a)] = depth /\ Owner(task[a]) = a
      BY <1>2, <2>4, NodeInHand, Constants DEF Appending
    <3>2. Ahead(o, i, k)' = Ahead(o, i, k) /\ InHand(o, i, k)' = InHand(o, i, k)
      <4>1. pc'[o] = pc[o] \/ (pc[o] = "count" /\ pc'[o] = "append")
        BY <1>2, <2>1
      <4>2. o \in ThreadIds
        BY <2>1, Constants
      <4> HIDE DEF o
      <4> QED BY <1>2, <3>1, <4>1, <4>2 DEF Ahead, InHand, Appending, worker
    <3>3. Ahead(o, i, k) => s # Solution(a)
      <4>1. s = Solution(a) => i = task[a] /\ k = leaf[a]
        BY <1>2, NodeInHand DEF Appending
      <4>2. i \in Nat /\ k \in Nat
        BY LeafTypes
      <4>3. s = Solution(a) => ~Ahead(a, i, k)
        BY <1>2, <4>1, <4>2 DEF Ahead, Appending
      <4> QED BY <3>1, <4>1, <4>3
    <3>4. Length[s] > depth => s # Solution(a)
      BY <3>1, ListValues DEF ListInv
    <3>5. Excused' = Excused /\ depth' = depth
      BY <1>2 DEF Excused, worker, main
    <3>6. NodeStatus(s, Ahead(o, i, k), InHand(o, i, k))
      BY <2>1 DEF LeafStatus
    <3> SUFFICES NodeStatus(s, Ahead(o, i, k), InHand(o, i, k))'
      BY DEF LeafStatus
    <3>7. ~Early' /\ pc'[Main] # "loop"
      BY <3>1 DEF Early
    <3>8. /\ Length[s] > depth => Untouched(s)'
          /\ Length[s] < depth => Settled(s)' \/ Excused'
          /\ Length[s] = depth /\ Ahead(o, i, k)' => Untouched(s)'
          /\ Length[s] = depth /\ ~Ahead(o, i, k)' /\ ~InHand(o, i, k)' => Settled(s)' \/ Excused'
      <4>1. Untouched(s) /\ s # Solution(a) => Untouched(s)'
        BY <1>5, <2>1
      <4> HIDE DEF s, o
      <4> QED BY <2>2, <3>1, <3>2, <3>3, <3>4, <3>5, <3>6, <4>1 DEF NodeStatus
    <3> QED BY <3>5, <3>7, <3>8 DEF NodeStatus
  <2> QED BY <2>3, <2>4
<1>10. Workers'
  <2>1. /\ pc'[Main] \in {"prepared", "loop", "create", "join", "call"} => pc'[Main] = pc[Main]
        /\ pc[Main] \in {"create", "join"} => pc'[Main] = pc[Main]
        /\ \A t \in ThreadIds : /\ pc'[t] = "exit" <=> pc[t] = "exit"
                                /\ pc'[t] = "none" <=> pc[t] = "none"
    BY <1>2, Constants
  <2>2. pc'[Main] # "call"
    BY <1>2, NodeInHand, Constants DEF Appending
  <2>3. Excused' = Excused
    BY <1>2 DEF Excused, worker
  <2> QED BY <1>2, <2>1, <2>2, <2>3 DEF ListInv, Workers, main, worker
<1> QED BY <1>3, <1>4, <1>6, <1>7, <1>8, <1>9, <1>10 DEF ListInv

(* A node whose lines appendsolution has gone through is settled.          *)
LEMMA HandSettled ==
  ASSUME ListInv, NEW a \in Agents, pc[a] = "append", ~MoreCopies(a)
  PROVE  Settled(Solution(a))
<1>1. Solution(a) \in Sols /\ Copies[Solution(a)] \in Nat /\ copy[a] \in Nat
  BY NodeInHand, SolTypes DEF Appending, ListInv, IInv, TypeOK, LoopTypes
<1>2. CASE ~(nsols < maxsolutions)
  <2>1. nsols >= maxsolutions
    BY <1>2, ListValues DEF ListInv
  <2> QED BY <2>1 DEF Settled
<1>3. CASE ~(copy[a] <= Copies[Solution(a)])
  <2>1. ASSUME NEW m \in LinesOf(Solution(a)) PROVE m \in Reported
    <3>1. PICK k \in 1 .. Copies[Solution(a)] : m = <<Solution(a), k>>
      BY <1>1, OwnLines
    <3>2. k < copy[a]
      BY <1>1, <1>3
    <3> QED BY <3>1, <3>2 DEF ListInv, HandInOrder, Appending
  <2> QED BY <2>1 DEF Settled
<1> QED BY <1>2, <1>3 DEF MoreCopies

(* All lines of a node are written, or no more are wanted.                 *)
LEMMA AppendEndKeeps ==
  ASSUME ListInv, IInv', NEW a \in Agents, AppendEnd(a)
  PROVE  ListInv' /\ Reported' = Reported
<1>1. /\ pc[a] = "append" /\ pc'[a] = IF a = Main THEN "maketasks" ELSE "search"
      /\ leaf'[a] = leaf[a] + 1 /\ ~MoreCopies(a)
      /\ \A b \in Agents : b # a => pc'[b] = pc[b] /\ leaf'[b] = leaf[b]
      /\ UNCHANGED <<call, copy, worker, nsols, shortest, used, main, overflowed>>
      /\ buf' = [buf EXCEPT ![used] = Nul]
  BY DEF AppendEnd, ListInv, IInv, TypeOK, PcTypes, LoopTypes
<1>2. SameText /\ SameCounters /\ Reported' = Reported /\ Excused' = Excused
  <2>1. used \in Nat /\ buf \in [0 .. Size -> Lines \cup {Nul, Unset}] /\ used \in 0 .. Size
    BY ListValues DEF ListInv
  <2>2. \A i \in InUse : i # used
    BY <2>1 DEF InUse
  <2>3. SameText /\ SameCounters
    <3>1. \A i \in InUse : buf'[i] = buf[i]
      BY <1>1, <2>1, <2>2, ListValues DEF ListInv
    <3> QED BY <1>1, <3>1 DEF SameText, SameCounters, call
  <2> QED BY <1>1, <2>3, SameReported DEF Excused, worker
<1>3. Text' /\ ShortestLine'
  BY <1>1, <1>2, TextFrame, ShortestFrame DEF ListInv
<1>4. Terminated'
  <2>1. buf'[used'] = Nul
    BY <1>1, ListValues DEF ListInv
  <2> QED BY <2>1 DEF Terminated, Nul
<1>5. ASSUME NEW b \in Agents PROVE pc'[b] \notin Appending
  BY <1>1, OnlyAppender DEF Appending
<1>6. HandInOrder'
  BY <1>5 DEF HandInOrder, Appending
<1>7. Settled(Solution(a))
  BY <1>1, HandSettled
<1>8. ShortNodes'
  <2>1. \A k : Settled(ShortSols[k])' = Settled(ShortSols[k])
               /\ Untouched(ShortSols[k])' = Untouched(ShortSols[k])
    BY <1>2, NodeFrame
  <2>2. CASE a = Main
    <3>1. /\ pc[Main] = "append" /\ pc'[Main] = "maketasks" /\ leaf'[Main] = leaf[Main] + 1
          /\ leaf[Main] \in Nat /\ Solution(a) = ShortSols[leaf[Main]]
      BY <1>1, <2>2, Constants DEF ListInv, IInv, TypeOK, LoopTypes, Solution
    <3>2. \A k \in 1 .. Len(ShortSols) :
            /\ k < leaf[Main] => Settled(ShortSols[k])
            /\ k > leaf[Main] => Untouched(ShortSols[k])
      BY <3>1 DEF ListInv, ShortNodes
    <3>3. ASSUME NEW k \in 1 .. Len(ShortSols)
          PROVE  /\ k < leaf'[Main] => Settled(ShortSols[k])'
                 /\ k >= leaf'[Main] => Untouched(ShortSols[k])'
      <4>1. k \in Nat
        BY ShortTypes
      <4>2. CASE k = leaf[Main]
        BY <1>7, <2>1, <3>1, <4>1, <4>2
      <4>3. CASE k # leaf[Main]
        BY <2>1, <3>1, <3>2, <4>1, <4>3
      <4> QED BY <4>2, <4>3
    <3>4. \A k \in 1 .. Len(ShortSols) : k \in Nat
      BY ShortTypes
    <3> QED BY <3>1, <3>3, <3>4 DEF ShortNodes, Appending
  <2>3. CASE a # Main
    <3>1. pc'[Main] = pc[Main] /\ pc[Main] \in {"create", "join"}
      BY <1>1, <2>3, NodeInHand, Constants DEF Appending
    <3> QED BY <1>1, <2>1, <3>1 DEF ListInv, ShortNodes
  <2> QED BY <2>2, <2>3
<1>9. Owned'
  BY <1>1, Constants DEF ListInv, Owned, worker
<1>10. LeafNodes'
  <2> SUFFICES ASSUME NEW i \in Tasks, NEW k \in 1 .. Len(Leaves[i])
               PROVE  LeafStatus(i, k)'
    BY DEF LeafNodes
  <2> DEFINE o == Owner(i)
  <2>1. LeafStatus(i, k) /\ o \in Agents /\ o # Main /\ o \in ThreadIds
        /\ i \in Nat /\ k \in Nat
    <3>1. LeafStatus(i, k)
      BY DEF ListInv, LeafNodes
    <3> QED BY <3>1, LeafTypes, OwnerOfTask
  <2>2. CASE a = Main
    <3>1. Early /\ Early' /\ pc'[Main] \notin {"loop", "create", "join"}
      BY <1>1, <2>2 DEF Early
    <3>2. Untouched(Leaves[i][k])'
      BY <1>2, <2>1, <3>1, NodeFrame DEF LeafStatus, NodeStatus
    <3> QED BY <3>1, <3>2 DEF LeafStatus, NodeStatus
  <2>3. CASE a # Main
    <3>1. pc'[Main] = pc[Main] /\ task' = task /\ depth' = depth
      BY <1>1, <2>3, Constants DEF main, worker
    <3>2. CASE o = a
      <4>1. leaf[a] \in Nat /\ task[a] \in Nat
        BY <2>3, Constants DEF ListInv, IInv, TypeOK, LoopTypes
      <4>2. /\ Ahead(a, i, k) <=> i > task[a] \/ (i = task[a] /\ k > leaf[a])
            /\ InHand(a, i, k) <=> i = task[a] /\ k = leaf[a]
        BY <1>1 DEF Ahead, InHand, Appending
      <4>3. Ahead(a, i, k)' <=> i > task[a] \/ (i = task[a] /\ k >= leaf[a] + 1)
        BY <1>1, <2>3, <3>1 DEF Ahead, Appending
      <4>4. InHand(a, i, k) => Settled(Leaves[i][k])
        BY <1>1, <1>7, <2>3, <4>2, NodeInHand DEF Appending
      <4>5. /\ Ahead(a, i, k)' => Ahead(a, i, k)
            /\ ~Ahead(a, i, k)' =>
                 (~Ahead(a, i, k) /\ ~InHand(a, i, k)) \/ Settled(Leaves[i][k])
        BY <2>1, <4>1, <4>2, <4>3, <4>4
      <4> QED BY <1>2, <2>1, <3>1, <3>2, <4>5, LeafFrame
    <3>3. CASE o # a
      <4>1. Ahead(o, i, k)' = Ahead(o, i, k) /\ InHand(o, i, k)' = InHand(o, i, k)
        <5>1. pc'[o] = pc[o] /\ leaf'[o] = leaf[o]
          BY <1>1, <2>1, <3>3
        <5> HIDE DEF o
        <5> QED BY <3>1, <5>1 DEF Ahead, InHand
      <4> QED BY <1>2, <2>1, <3>1, <4>1, LeafFrame
    <3> QED BY <3>2, <3>3
  <2> QED BY <2>2, <2>3
<1>11. Workers'
  <2>1. /\ pc'[Main] \in {"prepared", "loop", "create", "join", "call"} => pc'[Main] = pc[Main]
        /\ pc[Main] \in {"create", "join"} => pc'[Main] = pc[Main]
        /\ \A t \in ThreadIds : /\ pc'[t] = "exit" <=> pc[t] = "exit"
                                /\ pc'[t] = "none" <=> pc[t] = "none"
    BY <1>1, Constants
  <2>2. pc'[Main] # "call"
    BY <1>1, NodeInHand, Constants DEF Appending
  <2> QED BY <1>1, <1>2, <2>1, <2>2 DEF ListInv, Workers, main, worker
<1> QED BY <1>2, <1>3, <1>4, <1>6, <1>8, <1>9, <1>10, <1>11 DEF ListInv

(* An overflow overwrites the first byte, but every line is longer than    *)
(* that, or it is the only line there is.                                  *)
LEMMA OverflowKeepsText ==
  ASSUME ListInv, NEW a \in Agents, AppendOverflow(a)
  PROVE  Reported' = Reported /\ Text' /\ ShortestLine'
<1>1. /\ pc[a] = "append" /\ MoreCopies(a) /\ overflowed' = TRUE
      /\ UNCHANGED <<call, nsols, shortest, used>>
      /\ buf' = [i \in 0 .. Size |->
                   IF i = 0 \/ (i = used /\ used < Size) THEN Nul ELSE buf[i]]
  BY DEF AppendOverflow
<1>2. used \in Nat /\ used \in 0 .. Size /\ Size \in Nat
      /\ InUse \subseteq 0 .. Size /\ InUse' = InUse
  BY <1>1, ListValues DEF ListInv, InUse
<1>3. \A i \in InUse : IF i = 0 THEN buf'[i] = Nul ELSE buf'[i] = buf[i]
  <2>1. \A i \in InUse : i # used
    BY <1>2 DEF InUse
  <2> QED BY <1>1, <1>2, <2>1
<1>4. \A m : m \in Reported <=> m # Nul /\ \E i \in InUse : m = buf[i]
  BY DEF Reported, InUse
<1>5. \A m : m \in Reported' <=> m # Nul /\ \E i \in InUse : m = buf'[i]
  BY <1>2 DEF Reported, InUse, Nul
<1>6. ASSUME NEW m \in Reported PROVE \E i \in InUse : i # 0 /\ buf[i] = m
  <2>1. m \in Lines
    BY <1>4 DEF ListInv, Text
  <2>2. CASE LineLen[m[1]] # 1
    BY <2>2 DEF ListInv, Text
  <2>3. CASE LineLen[m[1]] = 1
    <3>1. m[1] \in Sols /\ Sols = {m[1]} /\ Copies[m[1]] <= 1 /\ Copies[m[1]] \in Nat
      BY <2>1, <2>3, LineParts, NodesAssumption, SolTypes
    <3>2. Solution(a) = m[1]
      BY <1>1, <3>1, NodeInHand DEF Appending
    <3>3. copy[a] \in Nat \ {0} /\ copy[a] <= Copies[m[1]]
      BY <1>1, <3>2 DEF ListInv, IInv, TypeOK, LoopTypes, MoreCopies
    <3>4. copy[a] = 1 /\ 1 \in 1 .. Copies[m[1]]
      BY <3>1, <3>3
    <3>5. m = <<m[1], 1>>
      <4>1. PICK k \in 1 .. Copies[m[1]] : m = <<m[1], k>>
        BY <2>1, <3>1, LineParts, OwnLines
      <4>2. k = 1
        BY <3>1
      <4> QED BY <4>1, <4>2
    <3>6. <<Solution(a), 1>> \in Reported <=> 1 < copy[a]
      BY <1>1, <3>2, <3>4 DEF ListInv, HandInOrder, Appending
    <3> QED BY <3>2, <3>4, <3>5, <3>6
  <2> QED BY <2>2, <2>3
<1>7. Reported' = Reported
  <2>1. ASSUME NEW m \in Reported' PROVE m \in Reported
    BY <1>3, <1>4, <1>5
  <2>2. ASSUME NEW m \in Reported PROVE m \in Reported'
    BY <1>3, <1>4, <1>5, <1>6
  <2> QED BY <2>1, <2>2
<1>8. Text'
  <2>1. \A i \in InUse : buf'[i] \in Lines \cup {Nul}
    BY <1>3 DEF ListInv, Text
  <2>2. \A m \in Reported : \E i \in InUse : i # 0 /\ buf'[i] = m
    BY <1>3, <1>6
  <2> QED BY <1>1, <1>2, <1>7, <2>1, <2>2 DEF ListInv, Text, Nul
<1>9. ShortestLine'
  BY <1>1, <1>7, ShortestFrame DEF ListInv, SameCounters, call
<1> QED BY <1>7, <1>8, <1>9

(* The buffer is full: what was reported stays, and the call has an error to*)
(* return.                                                                 *)
LEMMA AppendOverflowKeeps ==
  ASSUME ListInv, IInv', NEW a \in Agents, AppendOverflow(a)
  PROVE  ListInv' /\ Reported' = Reported
<1>1. /\ pc[a] = "append" /\ pc'[a] = IF a = Main THEN "prepared" ELSE "poll"
      /\ \A b \in Agents : b # a => pc'[b] = pc[b]
      /\ UNCHANGED <<call, leaf, copy, cancelled, nsols, shortest, used, depth, at,
                     anycancelled>>
      /\ \A t \in ThreadIds : t # a => task'[t] = task[t]
      /\ a # Main => task'[a] = task[a] + NThreads /\ ntasks' = ntasks
      /\ overflowed' = TRUE
  BY Constants DEF AppendOverflow, ListInv, IInv, TypeOK, PcTypes, LoopTypes
<1>2. Reported' = Reported /\ Text' /\ ShortestLine' /\ SameCounters /\ Excused'
  BY <1>1, OverflowKeepsText DEF SameCounters, Excused, call
<1>3. Terminated'
  BY <1>1 DEF Terminated
<1>4. HandInOrder'
  <2>1. ASSUME NEW b \in Agents PROVE pc'[b] \notin Appending
    BY <1>1, OnlyAppender DEF Appending
  <2> QED BY <2>1 DEF HandInOrder, Appending
<1>5. ShortNodes'
  <2>1. CASE a = Main
    BY <1>1, <2>1 DEF ShortNodes
  <2>2. CASE a # Main
    <3>1. pc'[Main] = pc[Main] /\ pc[Main] \in {"create", "join"}
      BY <1>1, <2>2, NodeInHand, Constants DEF Appending
    <3> QED BY <1>1, <3>1 DEF ShortNodes
  <2> QED BY <2>1, <2>2
<1>6. Owned'
  <2> SUFFICES ASSUME NEW t \in ThreadIds, pc'[t] # "none" PROVE Owner(task'[t]) = t
    BY DEF Owned
  <2>1. CASE t = a
    <3>1. a # Main /\ task[a] \in Nat /\ Owner(task[a]) = a
      BY <1>1, <2>1, NodeInHand, Constants DEF Appending, ListInv, IInv, TypeOK, LoopTypes
    <3> QED BY <1>1, <2>1, <3>1, Owners
  <2>2. CASE t # a
    BY <1>1, <2>2, Constants DEF ListInv, Owned
  <2> QED BY <2>1, <2>2
<1>7. LeafNodes'
  <2> SUFFICES ASSUME NEW i \in Tasks, NEW k \in 1 .. Len(Leaves[i])
               PROVE  LeafStatus(i, k)'
    BY DEF LeafNodes
  <2> DEFINE o == Owner(i)
  <2>1. LeafStatus(i, k) /\ o \in Agents /\ o # Main /\ o \in ThreadIds
        /\ i \in Nat /\ k \in Nat
    <3>1. LeafStatus(i, k)
      BY DEF ListInv, LeafNodes
    <3> QED BY <3>1, LeafTypes, OwnerOfTask
  <2>2. CASE a = Main
    <3>1. Early /\ Early' /\ pc'[Main] \notin {"loop", "create", "join"}
      BY <1>1, <2>2 DEF Early
    <3>2. Untouched(Leaves[i][k])'
      BY <1>2, <2>1, <3>1, NodeFrame DEF LeafStatus, NodeStatus
    <3> QED BY <3>1, <3>2 DEF LeafStatus, NodeStatus
  <2>3. CASE a # Main
    <3>1. pc'[Main] = pc[Main]
      BY <1>1, <2>3, Constants
    <3>2. Ahead(o, i, k)' => Ahead(o, i, k)
      <4>1. CASE o = a
        <5>1. task[a] \in Nat /\ NThreads \in Nat \ {0}
          BY <2>3, Constants, ThreadsAssumption DEF ListInv, IInv, TypeOK, LoopTypes
        <5>2. Ahead(a, i, k)' => i >= task[a] + NThreads
          BY <1>1, <2>3 DEF Ahead, Appending
        <5>3. i > task[a] => Ahead(a, i, k)
          BY <1>1 DEF Ahead, Appending
        <5> QED BY <2>1, <4>1, <5>1, <5>2, <5>3
      <4>2. CASE o # a
        <5>1. pc'[o] = pc[o] /\ leaf' = leaf /\ task'[o] = task[o]
          BY <1>1, <2>1, <4>2
        <5> HIDE DEF o
        <5> QED BY <3>1, <5>1 DEF Ahead
      <4> QED BY <4>1, <4>2
    <3> QED BY <1>1, <1>2, <2>1, <3>1, <3>2, LeafFrame
  <2> QED BY <2>2, <2>3
<1>8. Workers'
  <2>1. \A t \in ThreadIds : /\ pc'[t] = "exit" => pc[t] = "exit"
                             /\ pc[t] = "exit" => pc'[t] = "exit"
                             /\ pc'[t] = "none" => pc[t] = "none"
    BY <1>1, Constants
  <2>2. pc'[Main] \notin {"call"}
    BY <1>1, NodeInHand, Constants DEF Appending
  <2>3. /\ pc[Main] \notin {"create", "join"} => pc'[Main] \notin {"create", "join"}
        /\ pc'[Main] \in {"create", "join"} => pc'[Main] = pc[Main]
        /\ pc'[Main] \notin {"create", "join"} => pc[Main] \notin {"create", "join"}
    BY <1>1, NodeInHand, Constants DEF Appending
  <2> QED BY <1>1, <1>2, <2>1, <2>2, <2>3 DEF ListInv, Workers
<1> QED BY <1>2, <1>3, <1>4, <1>5, <1>6, <1>7, <1>8 DEF ListInv

-----------------------------------------------------------------------------
(* The steps of the main thread.                                           *)

(* Before the search there are no workers.                                 *)
LEMMA NoWorkers ==
  ASSUME ListInv, pc[Main] \notin {"create", "join"}
  PROVE  /\ \A t \in ThreadIds : pc[t] = "none"
         /\ pc[Main] \notin Appending => \A a \in Agents : pc[a] \notin Appending
  BY Constants DEF ListInv, IInv, SameDepth, Appending

(* A step of the main thread outside appendsolution and while there are no *)
(* workers keeps the invariant if it keeps the parts about the nodes.      *)
LEMMA QuietPreparation ==
  ASSUME ListInv, IInv', pc[Main] \notin {"create", "join", "append", "count", "done"},
         UNCHANGED <<req, worker, nsols, shortest, used, at, anycancelled, overflowed>>,
         buf' = buf \/ (pc[Main] = "call" /\ buf' = [buf EXCEPT ![0] = Nul]),
         pc[Main] = "call" => pc'[Main] = "done" \/ buf'[used] = Nul,
         pc'[Main] \notin {"call", "join"}, \A t \in ThreadIds : pc'[t] = pc[t],
         pc'[Main] \in {"prepared", "loop", "create"} => ntasks' = NTasks \/ overflowed,
         pc'[Main] \in Appending =>
           copy'[Main] = 1 /\ Solution(Main)' \in Sols /\ Untouched(Solution(Main)'),
         Reported' = Reported => ShortNodes' /\ LeafNodes'
  PROVE  ListInv' /\ Reported' = Reported
<1>1. /\ \A t \in ThreadIds : pc[t] = "none" /\ pc'[t] = "none"
      /\ \A a \in Agents : pc[a] \notin Appending
  BY NoWorkers DEF Appending
<1>2. SameText /\ SameCounters
  <2>1. pc[Main] = "call" => InUse = {}
    BY DEF ListInv, IInv, NoLines, InUse
  <2>2. \A i \in InUse : buf'[i] = buf[i]
    BY <2>1
  <2> QED BY <2>2 DEF SameText, SameCounters
<1>3. Reported' = Reported /\ Text' /\ ShortestLine'
  BY <1>2, SameReported, TextFrame, ShortestFrame DEF ListInv
<1>4. Terminated'
  <2>1. overflowed \/ pc[Main] = "call" \/ buf[used] = Nul
    BY <1>1 DEF ListInv, Terminated
  <2>2. overflowed \/ pc'[Main] = "done" \/ buf'[used] = Nul
    BY <2>1
  <2> QED BY <2>2 DEF Terminated, Nul
<1>5. HandInOrder'
  <2> SUFFICES ASSUME NEW a \in Agents, pc'[a] \in Appending
               PROVE  \A k \in 1 .. Copies[Solution(a)'] :
                        <<Solution(a)', k>> \in Reported <=> k < copy'[a]
    BY <1>3 DEF HandInOrder, Appending
  <2>1. a = Main
    BY <1>1, Constants DEF Appending
  <2> QED BY <2>1, LineOfNode, SolTypes DEF Untouched
<1>6. Owned'
  BY <1>1 DEF Owned
<1>7. Workers'
  BY <1>1, Constants DEF ListInv, Workers, worker, ThreadIds
<1> QED BY <1>3, <1>4, <1>5, <1>6, <1>7 DEF ListInv

(* The nodes below the tasks before the search and when it ends.           *)
LEMMA EarlyLeaves ==
  ASSUME ListInv, Early, Reported' = Reported,
         Early' \/ pc'[Main] = "done"
  PROVE  LeafNodes'
<1> SUFFICES ASSUME NEW i \in Tasks, NEW k \in 1 .. Len(Leaves[i])
             PROVE  LeafStatus(i, k)'
  BY DEF LeafNodes
<1>1. Untouched(Leaves[i][k])
  BY DEF ListInv, LeafNodes, LeafStatus, NodeStatus
<1>2. Untouched(Leaves[i][k])'
  BY <1>1 DEF Untouched
<1>3. pc'[Main] \notin {"loop", "create", "join"}
  BY DEF Early
<1> QED BY <1>2, <1>3 DEF LeafStatus, NodeStatus

(* The call begins with an empty list.                                     *)
LEMMA CallKeeps == ListInv /\ IInv' /\ Call => ListInv' /\ Reported' = Reported
<1> SUFFICES ASSUME ListInv, IInv', Call PROVE ListInv' /\ Reported' = Reported
  OBVIOUS
<1>1. /\ pc[Main] = "call" /\ pc'[Main] \in {"done", "maketasks"}
      /\ \A t \in ThreadIds : pc'[t] = pc[t]
      /\ UNCHANGED <<req, leaf, worker, nsols, shortest, used, main, overflowed>>
      /\ \/ pc'[Main] = "done" /\ buf' = buf
         \/ pc'[Main] = "maketasks" /\ buf' = [buf EXCEPT ![0] = Nul]
  BY Constants DEF Call, ListInv, IInv, TypeOK, PcTypes
<1>2. pc'[Main] = "done" \/ buf'[used] = Nul
  BY <1>1, ListValues DEF ListInv, IInv, NoLines
<1>3. Early /\ (Early' \/ pc'[Main] = "done")
  BY <1>1 DEF Early
<1>4. ASSUME Reported' = Reported PROVE ShortNodes'
  <2>1. SameCounters
    BY <1>1 DEF SameCounters
  <2>2. \A k : Settled(ShortSols[k])' = Settled(ShortSols[k])
               /\ Untouched(ShortSols[k])' = Untouched(ShortSols[k])
    BY <1>4, <2>1, NodeFrame
  <2> QED BY <1>1, <2>2 DEF ListInv, ShortNodes, Appending
<1>5. ASSUME Reported' = Reported PROVE LeafNodes'
  BY <1>3, <1>5, EarlyLeaves
<1> QED BY <1>1, <1>2, <1>4, <1>5, QuietPreparation DEF Appending, main

(* One solved node of at most three moves is met while the tasks are made. *)
LEMMA MakeShortKeeps ==
  ListInv /\ IInv' /\ MakeShort => ListInv' /\ Reported' = Reported
<1> SUFFICES ASSUME ListInv, IInv', MakeShort PROVE ListInv' /\ Reported' = Reported
  OBVIOUS
<1> DEFINE s == ShortSols[leaf[Main]]
<1>1. /\ pc[Main] = "maketasks" /\ leaf[Main] <= Len(ShortSols)
      /\ \A t \in ThreadIds : pc'[t] = pc[t]
      /\ UNCHANGED <<req, worker, nsols, shortest, used, buf, main, overflowed>>
      /\ \/ pc'[Main] = "append" /\ copy'[Main] = 1 /\ leaf' = leaf
         \/ /\ pc'[Main] = "maketasks" /\ leaf'[Main] = leaf[Main] + 1
            /\ ~Wanted(Length[s])
  <2>1. /\ pc[Main] = "maketasks" /\ leaf[Main] <= Len(ShortSols)
        /\ UNCHANGED <<req, worker, nsols, shortest, used, buf, main, overflowed>>
        /\ \/ pc' = [pc EXCEPT ![Main] = "append"] /\ copy' = [copy EXCEPT ![Main] = 1]
              /\ leaf' = leaf
           \/ pc' = pc /\ leaf' = [leaf EXCEPT ![Main] = @ + 1] /\ ~Wanted(Length[s])
    BY DEF MakeShort, list, call
  <2>2. pc = [a \in Agents |-> pc[a]] /\ leaf = [a \in Agents |-> leaf[a]]
        /\ copy = [a \in Agents |-> copy[a]]
    BY DEF ListInv, IInv, TypeOK, PcTypes, LoopTypes
  <2> HIDE DEF s
  <2> QED BY <2>1, <2>2, Constants
<1>2. leaf[Main] \in 1 .. Len(ShortSols) /\ s \in Sols /\ leaf[Main] \in Nat
  <2>1. Len(ShortSols) \in Nat /\ leaf[Main] \in Nat \ {0}
    BY SearchTreeAssumption, Constants DEF ListInv, IInv, TypeOK, LoopTypes
  <2>2. leaf[Main] \in 1 .. Len(ShortSols)
    BY <1>1, <2>1
  <2> QED BY <2>1, <2>2, ShortTypes
<1>3. /\ \A k \in 1 .. Len(ShortSols) :
           /\ k < leaf[Main] => Settled(ShortSols[k])
           /\ k >= leaf[Main] => Untouched(ShortSols[k])
  <2>1. \A k \in 1 .. Len(ShortSols) : k \in Nat
    BY ShortTypes
  <2> QED BY <1>1, <1>2, <2>1 DEF ListInv, ShortNodes, Appending
<1>4. pc'[Main] = "maketasks" => Settled(s)
  <2>1. SUFFICES ASSUME ~Wanted(Length[s]) PROVE Settled(s)
    BY <1>1
  <2>2. Length[s] \in Nat /\ MinMoves \in Nat /\ MaxMoves \in Nat
        /\ nsols \in Nat /\ maxsolutions \in Nat
    BY <1>2, SolTypes, ListValues DEF ListInv
  <2> HIDE DEF s
  <2> QED BY <2>1, <2>2 DEF Wanted, SolutionsDone, Settled
<1>5. ASSUME Reported' = Reported PROVE ShortNodes'
  <2>1. SameCounters
    BY <1>1 DEF SameCounters
  <2>2. \A k : Settled(ShortSols[k])' = Settled(ShortSols[k])
               /\ Untouched(ShortSols[k])' = Untouched(ShortSols[k])
    BY <1>5, <2>1, NodeFrame
  <2>3. \A k \in 1 .. Len(ShortSols) : k \in Nat
    BY ShortTypes
  <2>4. CASE pc'[Main] = "append" /\ leaf' = leaf
    <3>1. \A k \in 1 .. Len(ShortSols) :
            /\ k < leaf'[Main] => Settled(ShortSols[k])'
            /\ k > leaf'[Main] => Untouched(ShortSols[k])'
      BY <1>2, <1>3, <2>2, <2>3, <2>4
    <3> QED BY <2>4, <3>1 DEF ShortNodes, Appending
  <2>5. CASE pc'[Main] = "maketasks" /\ leaf'[Main] = leaf[Main] + 1
    <3>1. \A k \in 1 .. Len(ShortSols) :
            /\ k < leaf'[Main] => Settled(ShortSols[k])'
            /\ k >= leaf'[Main] => Untouched(ShortSols[k])'
      BY <1>2, <1>3, <1>4, <2>2, <2>3, <2>5
    <3> QED BY <1>2, <2>3, <2>5, <3>1 DEF ShortNodes
  <2> QED BY <1>1, <2>4, <2>5
<1>6. Early /\ Early'
  BY <1>1 DEF Early
<1>7. ASSUME Reported' = Reported PROVE LeafNodes'
  BY <1>6, <1>7, EarlyLeaves
<1>8. pc'[Main] \in Appending =>
        copy'[Main] = 1 /\ Solution(Main)' \in Sols /\ Untouched(Solution(Main)')
  <2> SUFFICES ASSUME pc'[Main] \in Appending
               PROVE  copy'[Main] = 1 /\ Solution(Main)' = s /\ Untouched(s)
    BY <1>2 DEF Untouched
  <2>1. copy'[Main] = 1 /\ leaf' = leaf
    BY <1>1 DEF Appending
  <2> QED BY <1>2, <1>3, <2>1 DEF Solution
<1>9. pc'[Main] \in {"append", "maketasks"}
  BY <1>1
<1> QED BY <1>1, <1>5, <1>7, <1>8, <1>9, QuietPreparation DEF main

(* All solved nodes of at most three moves have been met.                  *)
LEMMA MakeTasksEndKeeps ==
  ListInv /\ IInv' /\ MakeTasksEnd => ListInv' /\ Reported' = Reported
<1> SUFFICES ASSUME ListInv, IInv', MakeTasksEnd PROVE ListInv' /\ Reported' = Reported
  OBVIOUS
<1>1. /\ pc[Main] = "maketasks" /\ leaf[Main] > Len(ShortSols)
      /\ \A t \in ThreadIds : pc'[t] = pc[t]
      /\ UNCHANGED <<req, worker, nsols, shortest, used, buf, at, anycancelled, overflowed>>
      /\ pc'[Main] = "prepared" /\ ntasks' = NTasks
  BY Constants DEF MakeTasksEnd, ListInv, IInv, TypeOK, PcTypes, list, call
<1>2. \A k \in 1 .. Len(ShortSols) : Settled(ShortSols[k])
  <2>1. leaf[Main] \in Nat /\ Len(ShortSols) \in Nat
    BY Constants, SearchTreeAssumption DEF ListInv, IInv, TypeOK, LoopTypes
  <2>2. \A k \in 1 .. Len(ShortSols) : k < leaf[Main]
    BY <1>1, <2>1
  <2> QED BY <1>1, <2>2 DEF ListInv, ShortNodes
<1>3. ASSUME Reported' = Reported PROVE ShortNodes'
  <2>1. SameCounters
    BY <1>1 DEF SameCounters
  <2>2. \A k : Settled(ShortSols[k])' = Settled(ShortSols[k])
    BY <1>3, <2>1, NodeFrame
  <2> QED BY <1>1, <1>2, <2>2 DEF ShortNodes
<1>4. Early /\ Early'
  BY <1>1 DEF Early
<1>5. ASSUME Reported' = Reported PROVE LeafNodes'
  BY <1>4, <1>5, EarlyLeaves
<1> QED BY <1>1, <1>3, <1>5, QuietPreparation DEF Appending

(* The search ends here if the tasks brought enough lines, or goes on to the*)
(* depths.                                                                 *)
LEMMA PreparedKeeps ==
  ListInv /\ IInv' /\ Prepared => ListInv' /\ Reported' = Reported
<1> SUFFICES ASSUME ListInv, IInv', Prepared PROVE ListInv' /\ Reported' = Reported
  OBVIOUS
<1>1. /\ pc[Main] = "prepared"
      /\ \A t \in ThreadIds : pc'[t] = pc[t]
      /\ UNCHANGED <<req, worker, nsols, shortest, used, buf, ntasks, at, anycancelled,
                     overflowed>>
      /\ \/ pc'[Main] = "done"
         \/ pc'[Main] = "loop" /\ depth' = MAX(MinMoves, STARTING_MOVES + 1)
  BY Constants DEF Prepared, ListInv, IInv, TypeOK, PcTypes, list
<1>2. SameCounters
  BY <1>1 DEF SameCounters
<1>3. ASSUME Reported' = Reported PROVE ShortNodes'
  <2>1. \A k : Settled(ShortSols[k])' = Settled(ShortSols[k])
    BY <1>2, <1>3, NodeFrame
  <2> QED BY <1>1, <2>1 DEF ListInv, ShortNodes
<1>4. ASSUME Reported' = Reported PROVE LeafNodes'
  <2>1. Early
    BY <1>1 DEF Early
  <2>2. CASE pc'[Main] = "done"
    BY <1>4, <2>1, <2>2, EarlyLeaves
  <2>3. CASE pc'[Main] = "loop" /\ depth' = MAX(MinMoves, STARTING_MOVES + 1)
    <3> SUFFICES ASSUME NEW i \in Tasks, NEW k \in 1 .. Len(Leaves[i])
                 PROVE  LeafStatus(i, k)'
      BY DEF LeafNodes
    <3> DEFINE s == Leaves[i][k]
    <3>1. Untouched(s)
      BY <2>1 DEF ListInv, LeafNodes, LeafStatus, NodeStatus
    <3>2. Untouched(s)' = Untouched(s) /\ Settled(s)' = Settled(s)
      BY <1>2, <1>4, NodeFrame
    <3>3. Length[s] < depth' => Settled(s)
      <4>1. Length[s] > STARTING_MOVES /\ Length[s] \in Nat /\ MinMoves \in Nat
        BY LeafTypes, SolTypes, ListValues DEF ListInv
      <4> HIDE DEF s
      <4> QED BY <2>3, <4>1 DEF Settled, MAX, STARTING_MOVES
    <3>4. ~Early' /\ pc'[Main] \notin {"create", "join"}
      BY <2>3 DEF Early
    <3> QED BY <3>1, <3>2, <3>3, <3>4 DEF LeafStatus, NodeStatus
  <2> QED BY <1>1, <2>2, <2>3
<1>5. ntasks' = NTasks \/ overflowed
  BY <1>1 DEF ListInv, Workers
<1>6. pc'[Main] \in {"done", "loop"}
  BY <1>1
<1> QED BY <1>1, <1>3, <1>4, <1>5, <1>6, QuietPreparation DEF Appending

(* The loop on depths: one more, or the end of the search.                 *)
LEMMA NextDepthKeeps ==
  ListInv /\ IInv' /\ NextDepth => ListInv' /\ Reported' = Reported
<1> SUFFICES ASSUME ListInv, IInv', NextDepth PROVE ListInv' /\ Reported' = Reported
  OBVIOUS
<1>1. /\ pc[Main] = "loop"
      /\ \A t \in ThreadIds : pc'[t] = pc[t]
      /\ UNCHANGED <<req, worker, nsols, shortest, used, buf, main, overflowed>>
      /\ pc'[Main] \in {"done", "create"}
  BY Constants DEF NextDepth, ListInv, IInv, TypeOK, PcTypes, list
<1>2. SameCounters /\ Excused' = Excused
  BY <1>1 DEF SameCounters, Excused, worker
<1>3. ASSUME Reported' = Reported PROVE ShortNodes'
  <2>1. \A k : Settled(ShortSols[k])' = Settled(ShortSols[k])
    BY <1>2, <1>3, NodeFrame
  <2> QED BY <1>1, <2>1 DEF ListInv, ShortNodes
<1>4. ASSUME Reported' = Reported PROVE LeafNodes'
  <2> SUFFICES ASSUME NEW i \in Tasks, NEW k \in 1 .. Len(Leaves[i])
               PROVE  LeafStatus(i, k)'
    BY DEF LeafNodes
  <2> DEFINE s == Leaves[i][k]
             o == Owner(i)
  <2>1. o \in ThreadIds
    BY LeafTypes, Owners
  <2>2. Untouched(s)' = Untouched(s) /\ Settled(s)' = Settled(s)
    BY <1>2, <1>4, NodeFrame
  <2>3. /\ Length[s] >= depth => Untouched(s)
        /\ Length[s] < depth => Settled(s) \/ Excused
    BY <1>1 DEF ListInv, LeafNodes, LeafStatus, NodeStatus
  <2>4. Length[s] \in Nat /\ depth \in Nat
    BY LeafTypes, SolTypes, ListValues DEF ListInv
  <2>5. pc'[Main] = "create" => Ahead(o, i, k)'
    <3>1. pc'[o] = "none"
      BY <1>1, <2>1, NoWorkers
    <3> QED BY <3>1 DEF Ahead
  <2>6. ~Early' /\ pc'[Main] # "loop"
    BY <1>1 DEF Early
  <2>7. depth' = depth
    BY <1>1 DEF main
  <2>8. pc'[Main] \in {"create", "join"} =>
          /\ Length[s] > depth => Untouched(s)'
          /\ Length[s] < depth => Settled(s)' \/ Excused'
          /\ Length[s] = depth => Untouched(s)' /\ Ahead(o, i, k)'
    <3>1. pc'[Main] # "join"
      BY <1>1
    <3> HIDE DEF s, o
    <3> QED BY <1>2, <2>2, <2>3, <2>4, <2>5, <3>1
  <2> QED BY <2>6, <2>7, <2>8 DEF LeafStatus, NodeStatus
<1>5. ntasks' = NTasks \/ overflowed
  BY <1>1 DEF ListInv, Workers, main
<1> QED BY <1>1, <1>3, <1>4, <1>5, QuietPreparation DEF Appending, main

(* Creating a worker puts all of its tasks before it.                      *)
LEMMA CreateKeeps ==
  ASSUME ListInv, IInv', NEW t \in ThreadIds, Create(t)
  PROVE  ListInv' /\ Reported' = Reported
<1>1. /\ pc[Main] = "create" /\ at = t /\ t # Main /\ t \in Agents
      /\ pc[t] = "none" /\ pc'[t] = "poll" /\ task'[t] = t
      /\ pc'[Main] = IF t = NThreads-1 THEN "join" ELSE "create"
      /\ \A u \in ThreadIds : u # t => pc'[u] = pc[u] /\ task'[u] = task[u]
      /\ at' = IF t = NThreads-1 THEN 0 ELSE t + 1
      /\ UNCHANGED <<call, leaf, copy, cancelled, list, ntasks, depth, anycancelled,
                     overflowed>>
  <2>1. pc[Main] = "create" /\ at = t /\ t # Main /\ t \in Agents /\ pc[t] = "none"
    <3>1. t >= t
      BY Constants
    <3> QED BY <3>1, Constants DEF Create, ListInv, IInv, Roster
  <2>2. pc' = [pc EXCEPT ![t] = "poll",
                         ![Main] = IF t = NThreads-1 THEN "join" ELSE "create"]
        /\ task' = [task EXCEPT ![t] = t]
    BY DEF Create
  <2>3. pc = [a \in Agents |-> pc[a]] /\ task = [u \in ThreadIds |-> task[u]]
    BY DEF ListInv, IInv, TypeOK, PcTypes, LoopTypes
  <2>4. /\ pc'[t] = "poll" /\ task'[t] = t
        /\ pc'[Main] = IF t = NThreads-1 THEN "join" ELSE "create"
        /\ \A u \in ThreadIds : u # t => pc'[u] = pc[u] /\ task'[u] = task[u]
    BY <2>1, <2>2, <2>3, Constants
  <2> QED BY <2>1, <2>4 DEF Create
<1>2. SameText /\ SameCounters /\ Excused' = Excused
  BY <1>1 DEF SameText, SameCounters, list, call, Excused
<1>3. Reported' = Reported /\ Text' /\ ShortestLine'
  BY <1>1, <1>2, SameReported, TextFrame, ShortestFrame DEF ListInv
<1>4. \A a \in Agents : /\ pc'[a] \in Appending <=> pc[a] \in Appending
                        /\ pc'[a] \in Appending => pc'[a] = pc[a] /\ a \in ThreadIds \ {t}
  BY <1>1, Constants DEF Appending
<1>5. Terminated'
  BY <1>1, <1>4 DEF ListInv, Terminated, list, Nul
<1>6. HandInOrder'
  <2> SUFFICES ASSUME NEW a \in Agents, pc'[a] \in Appending
               PROVE  \A k \in 1 .. Copies[Solution(a)'] :
                        <<Solution(a)', k>> \in Reported <=> k < copy'[a]
    BY <1>3 DEF HandInOrder, Appending
  <2>1. Solution(a)' = Solution(a) /\ copy'[a] = copy[a]
    BY <1>1, <1>4, SolutionFrame
  <2> QED BY <1>4, <2>1 DEF ListInv, HandInOrder
<1>7. ShortNodes'
  <2>1. \A k : Settled(ShortSols[k])' = Settled(ShortSols[k])
    BY <1>2, <1>3, NodeFrame
  <2> QED BY <1>1, <2>1 DEF ListInv, ShortNodes
<1>8. Owned'
  BY <1>1, Owners DEF ListInv, Owned
<1>9. ASSUME NEW u \in ThreadIds, u # t PROVE pc[u] = "none" => pc'[Main] = "create"
  <2>1. pc[u] = "none" => u >= t
    BY <1>1, Constants DEF ListInv, Workers, ThreadIds
  <2>2. u \in 0 .. NThreads-1 /\ t \in 0 .. NThreads-1 /\ NThreads \in Nat
    BY ThreadsAssumption DEF ThreadIds
  <2> QED BY <1>1, <1>9, <2>1, <2>2
<1>10. LeafNodes'
  <2> SUFFICES ASSUME NEW i \in Tasks, NEW k \in 1 .. Len(Leaves[i])
               PROVE  LeafStatus(i, k)'
    BY DEF LeafNodes
  <2> DEFINE o == Owner(i)
  <2>1. LeafStatus(i, k) /\ o \in ThreadIds /\ o <= i
    BY LeafTypes, Owners DEF ListInv, LeafNodes
  <2>2. CASE o = t
    <3>1. /\ Ahead(t, i, k) /\ ~InHand(t, i, k)
      BY <1>1 DEF Ahead, InHand, Appending
    <3>2. Ahead(t, i, k)'
      BY <1>1, <2>1, <2>2 DEF Ahead
    <3> QED BY <1>1, <1>2, <1>3, <2>1, <2>2, <3>1, <3>2, LeafFrame
  <2>3. CASE o # t
    <3>1. /\ pc'[o] = pc[o] /\ task'[o] = task[o] /\ leaf'[o] = leaf[o]
          /\ pc[o] = "none" => pc'[Main] = "create"
      BY <1>1, <1>9, <2>1, <2>3
    <3>2. Ahead(o, i, k)' = Ahead(o, i, k) /\ InHand(o, i, k)' = InHand(o, i, k)
      <4> HIDE DEF o
      <4> QED BY <1>1, <3>1 DEF Ahead, InHand, Appending
    <3> QED BY <1>1, <1>2, <1>3, <2>1, <3>2, LeafFrame
  <2> QED BY <2>2, <2>3
<1>11. Workers'
  <2>1. t \in 0 .. NThreads-1 /\ NThreads \in Nat /\ \A u \in ThreadIds : u \in 0 .. NThreads-1
    BY ThreadsAssumption DEF ThreadIds
  <2>2. \A u \in ThreadIds : u < t => pc[u] # "none"
    BY <1>1 DEF ListInv, Workers
  <2>3. \A u \in ThreadIds : u <= t => pc'[u] # "none"
    BY <1>1, <2>1, <2>2
  <2>4. /\ pc'[Main] = "create" => \A u \in ThreadIds : u < at' => pc'[u] # "none"
        /\ pc'[Main] = "join" => \A u \in ThreadIds : u >= at' => pc'[u] # "none"
    BY <1>1, <2>1, <2>3
  <2>5. \A u \in ThreadIds : pc'[u] = "exit" => pc[u] = "exit" /\ task'[u] = task[u]
    BY <1>1
  <2>6. \A u \in ThreadIds : pc[u] = "exit" => pc'[u] = "exit"
    BY <1>1
  <2>7. pc'[Main] \in {"create", "join"} /\ pc[Main] \in {"create", "join"}
    BY <1>1
  <2> QED BY <1>1, <1>2, <2>4, <2>5, <2>6, <2>7 DEF ListInv, Workers
<1> QED BY <1>3, <1>5, <1>6, <1>7, <1>8, <1>10, <1>11 DEF ListInv

(* The last join ends the depth: no worker has a node before it.           *)
LEMMA JoinKeeps ==
  ASSUME ListInv, IInv', NEW t \in ThreadIds, Join(t)
  PROVE  ListInv' /\ Reported' = Reported
<1>1. /\ pc[Main] = "join" /\ at = t /\ t # Main /\ t \in Agents
      /\ pc[t] = "exit" /\ pc'[t] = "none"
      /\ \A u \in ThreadIds : u # t => pc'[u] = pc[u]
      /\ anycancelled' = (anycancelled \/ cancelled[t])
      /\ UNCHANGED <<call, leaf, copy, worker, list, ntasks, overflowed>>
      /\ IF t = NThreads-1
         THEN pc'[Main] = "loop" /\ at' = 0 /\ depth' = depth + 1
         ELSE pc'[Main] = "join" /\ at' = t + 1 /\ depth' = depth
  BY Constants DEF Join, Collect, ListInv, IInv, TypeOK, PcTypes
<1>2. SameText /\ SameCounters /\ Excused' = Excused
  BY <1>1 DEF SameText, SameCounters, list, call, worker, Excused
<1>3. Reported' = Reported /\ Text' /\ ShortestLine'
  BY <1>1, <1>2, SameReported, TextFrame, ShortestFrame DEF ListInv
<1>4. \A a \in Agents : /\ pc'[a] \in Appending <=> pc[a] \in Appending
                        /\ pc'[a] \in Appending => pc'[a] = pc[a] /\ a \in ThreadIds \ {t}
  BY <1>1, Constants DEF Appending
<1>5. Terminated'
  BY <1>1, <1>4 DEF ListInv, Terminated, list, Nul
<1>6. HandInOrder'
  <2> SUFFICES ASSUME NEW a \in Agents, pc'[a] \in Appending
               PROVE  \A k \in 1 .. Copies[Solution(a)'] :
                        <<Solution(a)', k>> \in Reported <=> k < copy'[a]
    BY <1>3 DEF HandInOrder, Appending
  <2>1. Solution(a)' = Solution(a) /\ copy'[a] = copy[a]
    BY <1>1, <1>4, SolutionFrame DEF worker
  <2> QED BY <1>4, <2>1 DEF ListInv, HandInOrder
<1>7. ShortNodes'
  <2>1. \A k : Settled(ShortSols[k])' = Settled(ShortSols[k])
    BY <1>2, <1>3, NodeFrame
  <2> QED BY <1>1, <2>1 DEF ListInv, ShortNodes
<1>8. Owned'
  BY <1>1 DEF ListInv, Owned, worker
<1>9. \A u \in ThreadIds : u < t => pc[u] = "none"
  BY <1>1 DEF ListInv, IInv, Roster
<1>10. LeafNodes'
  <2> SUFFICES ASSUME NEW i \in Tasks, NEW k \in 1 .. Len(Leaves[i])
               PROVE  LeafStatus(i, k)'
    BY DEF LeafNodes
  <2> DEFINE o == Owner(i)
             s == Leaves[i][k]
  <2>1. LeafStatus(i, k) /\ o \in ThreadIds /\ Length[s] \in Nat /\ depth \in Nat
    BY LeafTypes, Owners, SolTypes, ListValues DEF ListInv, LeafNodes
  <2>2. CASE t = NThreads-1
    <3>1. pc[o] \in {"none", "exit"}
      <4>1. o \in 0 .. NThreads-1 /\ NThreads \in Nat /\ (o < t \/ o = t)
        BY <2>1, <2>2, ThreadsAssumption DEF ThreadIds
      <4> HIDE DEF o
      <4> QED BY <1>1, <1>9, <2>1, <4>1
    <3>2. ~Ahead(o, i, k) /\ ~InHand(o, i, k)
      BY <1>1, <3>1 DEF Ahead, InHand, Appending
    <3>3. Untouched(s)' = Untouched(s) /\ Settled(s)' = Settled(s)
      BY <1>2, <1>3, NodeFrame
    <3>4. /\ Length[s] > depth => Untouched(s)
          /\ Length[s] <= depth => Settled(s) \/ Excused
      <4>1. NodeStatus(s, Ahead(o, i, k), InHand(o, i, k))
        BY <2>1 DEF LeafStatus
      <4> HIDE DEF s, o
      <4> QED BY <1>1, <2>1, <3>2, <4>1 DEF NodeStatus
    <3>5. /\ Length[s] >= depth' => Untouched(s)'
          /\ Length[s] < depth' => Settled(s)' \/ Excused'
      <4>1. depth' = depth + 1
        BY <1>1, <2>2
      <4> HIDE DEF s
      <4> QED BY <1>2, <2>1, <3>3, <3>4, <4>1
    <3>6. ~Early' /\ pc'[Main] \notin {"create", "join"}
      BY <1>1, <2>2 DEF Early
    <3> QED BY <3>5, <3>6 DEF LeafStatus, NodeStatus
  <2>3. CASE t # NThreads-1
    <3>1. pc'[Main] = "join" /\ depth' = depth /\ task' = task /\ leaf' = leaf
      BY <1>1, <2>3 DEF worker
    <3>2. pc'[o] = pc[o] \/ (pc[o] = "exit" /\ pc'[o] = "none")
      BY <1>1, <2>1
    <3>3. Ahead(o, i, k)' = Ahead(o, i, k) /\ InHand(o, i, k)' = InHand(o, i, k)
      <4> HIDE DEF o
      <4> QED BY <1>1, <3>1, <3>2 DEF Ahead, InHand, Appending
    <3> QED BY <1>1, <1>2, <1>3, <2>1, <3>1, <3>3, LeafFrame
  <2> QED BY <2>2, <2>3
<1>11. Workers'
  <2>1. t \in 0 .. NThreads-1 /\ NThreads \in Nat /\ \A u \in ThreadIds : u \in 0 .. NThreads-1
    BY ThreadsAssumption DEF ThreadIds
  <2>2. \A u \in ThreadIds : u >= t => pc[u] # "none"
    BY <1>1 DEF ListInv, Workers
  <2>3. pc'[Main] = "join" => \A u \in ThreadIds : u >= at' => pc'[u] # "none"
    BY <1>1, <2>1, <2>2
  <2>4. anycancelled' => \E u \in ThreadIds : cancelled'[u]
    BY <1>1 DEF ListInv, Workers, worker
  <2>5. \A u \in ThreadIds : cancelled'[u] => pc'[u] = "exit" \/ anycancelled'
    BY <1>1 DEF ListInv, Workers, worker
  <2>6. \A u \in ThreadIds : pc'[u] = "exit" => Excused' \/ task'[u] >= ntasks'
    BY <1>1, <1>2 DEF ListInv, Workers, worker
  <2>7. /\ pc'[Main] \in {"loop", "join"} /\ (pc'[Main] # "join" => at' = 0)
        /\ ntasks' = NTasks \/ overflowed'
    BY <1>1 DEF ListInv, Workers
  <2> QED BY <2>3, <2>4, <2>5, <2>6, <2>7 DEF Workers
<1> QED BY <1>3, <1>5, <1>6, <1>7, <1>8, <1>10, <1>11 DEF ListInv

-----------------------------------------------------------------------------
(* ListInv is inductive.                                                   *)
LEMMA IdleKeeps ==
  ASSUME ListInv, IInv',
         UNCHANGED <<pc, leaf, copy, worker, mutex, list, main, call, overflowed>>
  PROVE  ListInv' /\ Reported' = Reported
<1>1. SameText /\ SameCounters /\ Excused' = Excused
  BY DEF SameText, SameCounters, list, call, worker, Excused
<1>2. Reported' = Reported /\ Text' /\ ShortestLine'
  BY <1>1, SameReported, TextFrame, ShortestFrame DEF ListInv
<1>3. Terminated'
  BY DEF ListInv, Terminated, list, Nul
<1>4. HandInOrder'
  <2> SUFFICES ASSUME NEW a \in Agents, pc[a] \in Appending
               PROVE  \A k \in 1 .. Copies[Solution(a)'] :
                        <<Solution(a)', k>> \in Reported <=> k < copy[a]
    BY <1>2 DEF HandInOrder, Appending
  <2>1. Solution(a)' = Solution(a)
    BY SolutionFrame DEF worker
  <2> QED BY <2>1 DEF ListInv, HandInOrder
<1>5. \A k : Settled(ShortSols[k])' = Settled(ShortSols[k])
             /\ Untouched(ShortSols[k])' = Untouched(ShortSols[k])
  BY <1>1, <1>2, NodeFrame
<1>6. ShortNodes'
  BY <1>5 DEF ListInv, ShortNodes, Appending
<1>7. Owned' /\ Workers'
  BY <1>1 DEF ListInv, Owned, Workers, worker, main, list
<1>8. LeafNodes'
  <2> SUFFICES ASSUME NEW i \in Tasks, NEW k \in 1 .. Len(Leaves[i])
               PROVE  LeafStatus(i, k)'
    BY DEF LeafNodes
  <2>1. LeafStatus(i, k)
    BY DEF ListInv, LeafNodes
  <2>2. /\ Ahead(Owner(i), i, k)' = Ahead(Owner(i), i, k)
        /\ InHand(Owner(i), i, k)' = InHand(Owner(i), i, k)
    BY DEF Ahead, InHand, Appending, worker
  <2> QED BY <1>1, <1>2, <2>1, <2>2, LeafFrame DEF main
<1> QED BY <1>2, <1>3, <1>4, <1>6, <1>7, <1>8 DEF ListInv

(* Before the call the list is empty and the invariant holds.              *)
THEOREM InitListInv == Init => ListInv
<1> SUFFICES ASSUME Init PROVE ListInv
  OBVIOUS
<1>1. IInv
  BY InitIInv
<1>2. Reported = {} /\ InUse = {}
  BY DEF Init, Reported, InUse
<1>3. /\ pc[Main] = "call" /\ leaf[Main] = 1 /\ nsols = 0 /\ at = 0
      /\ \A t \in ThreadIds : pc[t] = "none" /\ ~cancelled[t]
      /\ \A a \in Agents : pc[a] \notin Appending
      /\ anycancelled = FALSE /\ shortest = MAXLEN + 1
  BY Constants DEF Init, Appending
<1>4. Text /\ ShortestLine
  BY <1>2, <1>3, FS_EmptySet DEF Text, ShortestLine
<1>5. Terminated /\ HandInOrder /\ Owned /\ Workers
  BY <1>3 DEF Terminated, HandInOrder, Owned, Workers
<1>6. \A s : Untouched(s)
  BY <1>2 DEF Untouched
<1>7. ShortNodes
  <2>1. \A k \in 1 .. Len(ShortSols) : k \in Nat /\ ~(k < 1)
    BY ShortTypes
  <2> QED BY <1>3, <1>6, <2>1 DEF ShortNodes
<1>8. LeafNodes
  BY <1>3, <1>6 DEF LeafNodes, LeafStatus, NodeStatus
<1> QED BY <1>1, <1>4, <1>5, <1>7, <1>8 DEF ListInv

(* The steps that report no line.                                          *)
LEMMA QuietSteps ==
  ASSUME ListInv, [Next]_vars, \A a \in Agents : ~CountLine(a)
  PROVE  ListInv' /\ Reported' = Reported
<1> IInv'
  BY StepIInv DEF ListInv
<1>1. CASE MainStep
  BY <1>1, CallKeeps, MakeShortKeeps, MakeTasksEndKeeps, PreparedKeeps,
     NextDepthKeeps, CreateKeeps, JoinKeeps, AppendLineKeeps, AppendEndKeeps,
     AppendOverflowKeeps, Constants
     DEF MainStep, AppendSolution
<1>2. ASSUME NEW t \in ThreadIds, ThreadStep(t) PROVE ListInv' /\ Reported' = Reported
  BY <1>2, PollKeeps, SearchKeeps, SearchEndKeeps, LockListKeeps, AppendLineKeeps,
     AppendEndKeeps, AppendOverflowKeeps, Constants
     DEF ThreadStep, AppendSolution
<1>3. CASE SetStatus
  BY <1>3, IdleKeeps DEF SetStatus
<1>4. CASE Returned \/ UNCHANGED vars
  BY <1>4, IdleKeeps DEF Returned, vars
<1> QED BY <1>1, <1>2, <1>3, <1>4 DEF Next

(* Every step of the solver preserves the invariant of its list.           *)
THEOREM StepListInv == ListInv /\ [Next]_vars => ListInv'
<1> SUFFICES ASSUME ListInv, [Next]_vars PROVE ListInv'
  OBVIOUS
<1>1. IInv'
  BY StepIInv DEF ListInv
<1>2. CASE \E a \in Agents : CountLine(a)
  BY <1>1, <1>2, CountLineKeeps
<1>3. CASE ~\E a \in Agents : CountLine(a)
  BY <1>3, QuietSteps
<1> QED BY <1>2, <1>3

(* The invariant of the list holds in every execution of the solver.       *)
THEOREM ListInvariance == Spec => []ListInv
<1> QED BY InitListInv, StepListInv, PTL DEF Spec

(* The text of the list is in step with its counter: as many different     *)
(* lines as were counted, each whole, and a terminator after the last      *)
(* between two searches (appendsolution, under the mutex).                 *)
THEOREM TextIsCounted == Spec => []TextMatchesCount
<1>1. ASSUME ListInv, ~overflowed PROVE TextMatchesCount
  <2>1. pc[Main] \in {"prepared", "loop"} => buf[used] = Nul
    BY <1>1, NoWorkers DEF ListInv, Terminated, Appending
  <2>2. Nul \notin {buf[i] : i \in 0 .. used-1} /\ Cardinality(Reported) = nsols
    BY <1>1 DEF ListInv, Text, InUse
  <2>3. \A l \in Reported :
          Cardinality({i \in 0 .. used-1 : buf[i] = l}) = LineLen[l[1]]
    BY <1>1 DEF ListInv, Text, PlacesOf, InUse
  <2> QED BY <2>1, <2>2, <2>3 DEF TextMatchesCount
<1>2. ListInv => TextMatchesCount
  BY <1>1 DEF TextMatchesCount
<1> QED BY ListInvariance, <1>2, PTL

(* A worker that obeyed a request to stop is joined before the next depth, *)
(* and then solve_h48 begins no deeper search.                             *)
THEOREM CancelIsFinal == Spec => CancelEndsSearch
<1> DEFINE A == \A t \in ThreadIds :
                  cancelled[t] /\ pc[Main] = "loop" => pc'[Main] # "create"
<1>1. ASSUME ListInv, [Next]_vars PROVE A
  <2> SUFFICES ASSUME NEW t \in ThreadIds, cancelled[t], pc[Main] = "loop",
                      pc'[Main] = "create"
               PROVE  FALSE
    OBVIOUS
  <2>1. anycancelled
    BY <1>1, NoWorkers DEF ListInv, Workers
  <2>2. \A u \in ThreadIds : pc[u] = "none" /\ u # Main
    BY <1>1, NoWorkers, Constants
  <2>3. MainStep
    BY <1>1, <2>2
       DEF Next, ThreadStep, AppendSolution, AppendLine, CountLine, AppendEnd,
           AppendOverflow, Poll, PauseEnd, Search, SearchEnd, LockList, SetStatus,
           Returned, vars
  <2>4. NextDepth
    BY <2>3
       DEF MainStep, AppendSolution, AppendLine, CountLine, AppendEnd,
           AppendOverflow, Call, MakeShort, MakeTasksEnd, Prepared, Create, Join
  <2>5. pc'[Main] = "done"
    BY <1>1, <2>1, <2>4, Constants DEF NextDepth, ListInv, IInv, TypeOK, PcTypes
  <2> QED BY <2>5
<1>2. ListInv /\ [Next]_vars => [A]_vars
  BY <1>1
<1> QED BY ListInvariance, <1>2, PTL DEF Spec, CancelEndsSearch

-----------------------------------------------------------------------------
(* The refinement of SolveContract.  solve_h48 receives maxsols and        *)
(* optimal in eight bits: a request that does not fit is cut, and is then  *)
(* answered as the smaller one it became.                                  *)
RequestsFit == \A r \in Requests : r.maxsols < 256 /\ r.optimal < 256

Pardoned == overflowed \/ Size = 0 \/ (\E t \in ThreadIds : cancelled[t])

(* Requests below 256 are not truncated by the uint8_t parameters of       *)
(* solve_h48.                                                              *)
LEMMA FittingRequest ==
  ASSUME RequestsFit, IInv
  PROVE  maxsolutions = req.maxsols /\ optimal = req.optimal
<1>1. req \in Requests /\ req.maxsols \in Nat /\ req.optimal \in Nat
  BY RequestsAssumption DEF IInv, TypeOK, CallTypes
<1>2. req.maxsols < 256 /\ req.optimal < 256
  BY <1>1 DEF RequestsFit
<1>3. \A n \in Nat : n < 256 => n % 256 = n
  OBVIOUS
<1> QED BY <1>1, <1>2, <1>3 DEF maxsolutions, optimal

(* The contract counts with its own instance of the standard module.       *)
LEMMA SameCount == \A S : Contract!Cardinality(S) = Cardinality(S)
  BY DEF Contract!Cardinality, Cardinality

(* What the terms of the contract are here.                                *)
LEMMA ContractTerms ==
  /\ \A l : Contract!InRange(l) <=> MinMoves <= Length[l[1]] /\ Length[l[1]] <= MaxMoves
  /\ Contract!Complete <=>
       \/ Cardinality(Reported) = req.maxsols
       \/ \A l \in Lines \ Reported :
            MinMoves <= Length[l[1]] /\ Length[l[1]] <= MaxMoves =>
              \E f \in Reported : Length[l[1]] > Length[f[1]] + req.optimal
<1> DEFINE limits == [min |-> MinMoves, max |-> MaxMoves,
                      count |-> req.maxsols, slack |-> req.optimal]
<1>1. /\ limits.min = MinMoves /\ limits.max = MaxMoves
      /\ limits.count = req.maxsols /\ limits.slack = req.optimal
  OBVIOUS
<1>2. Contract!Lines = Lines
  BY DEF Contract!Lines, Lines
<1>3. \A l : Contract!InRange(l) <=> limits.min <= Length[l[1]] /\ Length[l[1]] <= limits.max
  BY DEF Contract!InRange, Contract!Len
<1>4. Contract!Complete <=>
        \/ Cardinality(Reported) = limits.count
        \/ \A l \in Contract!Lines \ Reported :
             Contract!InRange(l) =>
               \E f \in Reported : Length[l[1]] > Length[f[1]] + limits.slack
  BY SameCount DEF Contract!Complete, Contract!Len
<1> HIDE DEF limits
<1> QED BY <1>1, <1>2, <1>3, <1>4

(* What is reported are lines, with lengths.                               *)
LEMMA ReportedTypes ==
  ASSUME ListInv
  PROVE  Reported \subseteq Lines /\ \A l \in Reported : Length[l[1]] \in Nat
<1>1. Reported \subseteq Lines
  BY DEF ListInv, Text, Reported, InUse
<1> QED BY <1>1, LineParts, SolTypes

(* When every node is settled, nothing that qualifies is left out.         *)
LEMMA SettledIsComplete ==
  ASSUME ListInv, RequestsFit,
         \A s \in Sols : \/ Settled(s)
                         \/ nsols >= maxsolutions
                         \/ Length[s] > MaxMoves
                         \/ Length[s] > shortest + optimal
  PROVE  Contract!Complete
<1>1. maxsolutions = req.maxsols /\ optimal = req.optimal
  BY FittingRequest DEF ListInv
<1>2. /\ nsols \in Nat /\ maxsolutions \in Nat /\ shortest \in Nat /\ optimal \in Nat
      /\ MinMoves \in Nat /\ MaxMoves \in Nat
  BY ListValues DEF ListInv
<1>3. CASE nsols >= maxsolutions
  <2>1. nsols = maxsolutions
    BY <1>2, <1>3 DEF ListInv, IInv, CountBounded
  <2>2. Cardinality(Reported) = req.maxsols
    BY <1>1, <2>1 DEF ListInv, Text
  <2> QED BY <2>2, ContractTerms
<1>4. CASE ~(nsols >= maxsolutions)
  <2> SUFFICES ASSUME NEW l \in Lines, l \notin Reported,
                      MinMoves <= Length[l[1]], Length[l[1]] <= MaxMoves
               PROVE  \E f \in Reported : Length[l[1]] > Length[f[1]] + req.optimal
    BY ContractTerms
  <2>1. l[1] \in Sols /\ Length[l[1]] \in Nat /\ Length[l[1]] <= MAXLEN
        /\ ~(LinesOf(l[1]) \subseteq Reported)
    BY LineParts, SolTypes
  <2>2. Length[l[1]] > shortest + optimal
    <3>1. ~(Length[l[1]] < MinMoves) /\ ~(Length[l[1]] > MaxMoves)
      BY <1>2, <2>1
    <3> QED BY <1>4, <2>1, <3>1 DEF Settled
  <2>3. shortest # MAXLEN + 1
    BY <1>2, <2>1, <2>2 DEF MAXLEN
  <2>4. PICK f \in Reported : Length[f[1]] = shortest
    BY <2>3 DEF ListInv, ShortestLine
  <2> QED BY <1>1, <2>2, <2>4
<1> QED BY <1>3, <1>4

(* The call returns only when that is so.                                  *)
LEMMA ReturnIsComplete ==
  ASSUME ListInv, RequestsFit, Call \/ Prepared \/ NextDepth, pc'[Main] = "done"
  PROVE  Pardoned \/ Contract!Complete
<1> SUFFICES ASSUME ~Pardoned PROVE Contract!Complete
  OBVIOUS
<1>1. ~Excused /\ ~overflowed /\ Size # 0
  BY DEF Pardoned, Excused
<1>2. /\ nsols \in Nat /\ maxsolutions \in Nat /\ shortest \in Nat /\ optimal \in Nat
      /\ MinMoves \in Nat /\ MaxMoves \in Nat /\ MinMoves <= MaxMoves /\ depth \in Nat
  BY ListValues DEF ListInv
<1>3. \A s \in Sols : Length[s] \in Nat
  BY SolTypes
<1>4. CASE Call
  <2>1. req.maxsols = 0
    BY <1>1, <1>4, Constants DEF Call, ListInv, IInv, TypeOK, PcTypes
  <2>2. Reported = {}
    BY <1>4 DEF Call, ListInv, IInv, NoLines, Reported
  <2>3. Cardinality(Reported) = req.maxsols
    BY <2>1, <2>2, FS_EmptySet
  <2> QED BY <2>3, ContractTerms
<1>5. CASE Prepared
  <2>1. pc[Main] = "prepared" /\ SolutionsDone(MAX(MinMoves, STARTING_MOVES))
    BY <1>5, Constants DEF Prepared, ListInv, IInv, TypeOK, PcTypes
  <2>2. \A k \in 1 .. Len(ShortSols) : Settled(ShortSols[k])
    BY <1>1, <2>1 DEF ListInv, ShortNodes
  <2>3. ASSUME NEW s \in Sols, Length[s] > STARTING_MOVES
        PROVE  \/ Settled(s) \/ nsols >= maxsolutions
               \/ Length[s] > MaxMoves \/ Length[s] > shortest + optimal
    <3>1. Length[s] < MinMoves => Settled(s)
      BY DEF Settled
    <3> HIDE DEF MinMoves, MaxMoves
    <3> QED BY <1>2, <1>3, <2>1, <2>3, <3>1 DEF SolutionsDone, MAX, STARTING_MOVES
  <2>4. ASSUME NEW s \in Sols
        PROVE  Settled(s) \/ Length[s] > STARTING_MOVES
    BY <2>2, LeafTypes, NodesAssumption
  <2> QED BY <2>3, <2>4, SettledIsComplete
<1>6. CASE NextDepth
  <2>1. pc[Main] = "loop" /\ (SolutionsDone(depth) \/ anycancelled)
    BY <1>6, Constants DEF NextDepth, ListInv, IInv, TypeOK, PcTypes
  <2>2. SolutionsDone(depth)
    BY <1>1, <2>1 DEF ListInv, Workers, Excused
  <2>3. \A k \in 1 .. Len(ShortSols) : Settled(ShortSols[k])
    BY <1>1, <2>1 DEF ListInv, ShortNodes
  <2>4. \A i \in Tasks : \A k \in 1 .. Len(Leaves[i]) :
          Length[Leaves[i][k]] < depth => Settled(Leaves[i][k])
    BY <1>1, <2>1 DEF ListInv, LeafNodes, LeafStatus, NodeStatus
  <2>5. ASSUME NEW s \in Sols
        PROVE  \/ Settled(s) \/ nsols >= maxsolutions
               \/ Length[s] > MaxMoves \/ Length[s] > shortest + optimal
    <3>1. Settled(s) \/ Length[s] >= depth
      <4>1. CASE \E k \in 1 .. Len(ShortSols) : ShortSols[k] = s
        BY <2>3, <4>1
      <4>2. CASE \E i \in Tasks : \E k \in 1 .. Len(Leaves[i]) : Leaves[i][k] = s
        BY <1>2, <1>3, <2>4, <4>2
      <4> QED BY <4>1, <4>2, NodesAssumption
    <3> QED BY <1>2, <1>3, <2>2, <3>1 DEF SolutionsDone
  <2> QED BY <2>5, SettledIsComplete
<1> QED BY <1>4, <1>5, <1>6

(* Counting a line finds it: it is new, there is room for it in the count, *)
(* and it is neither shorter than a line before it nor too long after it.  *)
LEMMA CountLineFinds ==
  ASSUME ListInv, RequestsFit, NEW a \in Agents, CountLine(a)
  PROVE  \E l \in Lines : Contract!Find(l)
<1>1. PICK l \in Lines :
           /\ l[1] = Solution(a) /\ nsols < maxsolutions
           /\ l \notin Reported /\ Reported' = Reported \cup {l}
  BY NewLine
<1>2. /\ pc[a] = "count" /\ UNCHANGED <<call, cancelled, overflowed>>
      /\ \A b \in Agents : b # a => pc'[b] = pc[b]
      /\ pc'[a] = "append"
  BY <1>1 DEF CountLine, worker, ListInv, IInv, TypeOK, PcTypes
<1>3. pc[Main] # "done" /\ pc'[Main] # "done"
  BY <1>2, NodeInHand, Constants DEF Appending
<1>4. maxsolutions = req.maxsols /\ optimal = req.optimal
  BY FittingRequest DEF ListInv
<1>5. Cardinality(Reported) < req.maxsols
  BY <1>1, <1>4 DEF ListInv, Text
<1>6. /\ MinMoves <= Length[l[1]] /\ Length[l[1]] <= MaxMoves
      /\ Length[l[1]] <= shortest + optimal /\ Length[l[1]] \in Nat
  BY <1>1, <1>2, SolutionTypes, LineParts, SolTypes DEF ListInv
<1>7. ASSUME NEW f \in Reported
      PROVE  /\ Length[f[1]] <= Length[l[1]]
             /\ Length[l[1]] <= Length[f[1]] + req.optimal
  <2>1. LineInWindow(f)
    BY DEF ListInv, IInv, ListInWindow, Reported
  <2>2. shortest <= Length[f[1]] /\ Length[f[1]] \in Nat /\ shortest \in Nat /\ optimal \in Nat
    BY ReportedTypes, ListValues DEF ListInv, ShortestLine
  <2>3. Length[f[1]] <= Length[l[1]]
    <3>1. CASE a = Main
      <4>1. Early /\ l[1] = ShortSols[leaf[Main]] /\ leaf[Main] \in 1 .. Len(ShortSols)
        BY <1>1, <1>2, <3>1, NodeInHand DEF Appending
      <4>2. Length[f[1]] = Length[l[1]]
        BY <2>1, <4>1, ShortSolsAssumption DEF LineInWindow
      <4> QED BY <1>6, <4>2
    <3>2. CASE a # Main
      <4>1. Length[l[1]] = depth /\ Searching
        BY <1>1, <1>2, <3>2, NodeInHand DEF Appending, Searching
      <4> QED BY <2>1, <4>1 DEF LineInWindow
    <3> QED BY <3>1, <3>2
  <2> QED BY <1>4, <1>6, <2>2, <2>3
<1>8. /\ MinMoves' = MinMoves /\ MaxMoves' = MaxMoves /\ req' = req /\ Size' = Size
  BY <1>2, RequestFrame DEF call
<1> DEFINE limits == [min |-> MinMoves, max |-> MaxMoves,
                      count |-> req.maxsols, slack |-> req.optimal]
<1>9. limits.count = req.maxsols /\ limits.slack = req.optimal /\ limits' = limits
  BY <1>8
<1>10. Contract!InRange(l)
  BY <1>6, ContractTerms
<1>11. /\ Contract!Cardinality(Reported) < limits.count
       /\ \A f \in Reported : /\ Contract!Len(f) <= Contract!Len(l)
                              /\ Contract!Len(l) <= Contract!Len(f) + limits.slack
  BY <1>5, <1>7, <1>9, SameCount DEF Contract!Len
<1>12. Pardoned' = Pardoned /\ (pc[Main] = "done")' = (pc[Main] = "done")
  BY <1>2, <1>3, <1>8 DEF Pardoned
<1> HIDE DEF limits
<1>13. Contract!Find(l)
  BY <1>1, <1>3, <1>9, <1>10, <1>11, <1>12 DEF Contract!Find, Pardoned, limits
<1> QED BY <1>13

(* Every other step is a return, an excuse, or nothing to the contract.    *)
LEMMA OtherStepsRefine ==
  ASSUME ListInv, RequestsFit, [Next]_vars, \A a \in Agents : ~CountLine(a)
  PROVE  [Contract!Next]_(Contract!vars)
<1>1. Reported' = Reported
  BY QuietSteps
<1>2. /\ req' = req /\ (overflowed => overflowed')
      /\ \A t \in ThreadIds : cancelled[t] => cancelled'[t]
  <2>1. cancelled \in [ThreadIds -> BOOLEAN]
    BY DEF ListInv, IInv, TypeOK, ArgTypes
  <2>2. req' = req /\ (overflowed' = overflowed \/ overflowed' = TRUE)
        /\ \/ cancelled' = cancelled
           \/ \E t \in ThreadIds : cancelled' = [cancelled EXCEPT ![t] = TRUE]
    <3>1. CASE MainStep
      BY <3>1
         DEF MainStep, AppendSolution, AppendLine, CountLine, AppendEnd, AppendOverflow,
             Call, MakeShort, MakeTasksEnd, Prepared, NextDepth, Create, Join, call,
             worker
    <3>2. ASSUME NEW t \in ThreadIds, ThreadStep(t)
          PROVE  req' = req /\ (overflowed' = overflowed \/ overflowed' = TRUE)
                 /\ \/ cancelled' = cancelled
                    \/ \E u \in ThreadIds : cancelled' = [cancelled EXCEPT ![u] = TRUE]
      BY <3>2
         DEF ThreadStep, AppendSolution, AppendLine, CountLine, AppendEnd,
             AppendOverflow, Poll, PauseEnd, StartTask, Cancel, Search, SearchEnd,
             LockList, call, worker
    <3>3. CASE SetStatus \/ Returned \/ UNCHANGED vars
      BY <3>3 DEF SetStatus, Returned, vars, call, worker
    <3> QED BY <3>1, <3>2, <3>3 DEF Next
  <2> QED BY <2>1, <2>2
<1>3. MinMoves' = MinMoves /\ MaxMoves' = MaxMoves /\ Size' = Size
  BY <1>2, RequestFrame
<1>4. Pardoned => Pardoned'
  BY <1>2, <1>3 DEF Pardoned
<1>5. pc[Main] = "done" => pc'[Main] = "done"
  <2> SUFFICES ASSUME pc[Main] = "done" PROVE pc'[Main] = "done"
    OBVIOUS
  <2>1. \A t \in ThreadIds : pc[t] = "none" /\ t # Main
    BY NoWorkers, Constants
  <2>2. ~MainStep
    BY DEF MainStep, AppendSolution, AppendLine, CountLine, AppendEnd, AppendOverflow,
           Call, MakeShort, MakeTasksEnd, Prepared, NextDepth, Create, Join
  <2>3. \A t \in ThreadIds : ~ThreadStep(t)
    BY <2>1
       DEF ThreadStep, AppendSolution, AppendLine, CountLine, AppendEnd,
           AppendOverflow, Poll, PauseEnd, Search, SearchEnd, LockList
  <2> QED BY <2>2, <2>3 DEF Next, SetStatus, Returned, vars
<1>6. pc[Main] # "done" /\ pc'[Main] = "done" =>
        (Pardoned' = Pardoned) /\ (Pardoned \/ Contract!Complete)
  <2> SUFFICES ASSUME pc[Main] # "done", pc'[Main] = "done"
               PROVE  (Pardoned' = Pardoned) /\ (Pardoned \/ Contract!Complete)
    OBVIOUS
  <2>1. pc = [a \in Agents |-> pc[a]]
    BY DEF ListInv, IInv, TypeOK, PcTypes
  <2>2. \A t \in ThreadIds : ~ThreadStep(t)
    BY <2>1, Constants
       DEF ThreadStep, AppendSolution, AppendLine, CountLine, AppendEnd,
           AppendOverflow, Poll, PauseEnd, StartTask, Cancel, Search, SearchEnd,
           LockList
  <2>3. MainStep
    BY <2>2 DEF Next, SetStatus, Returned, vars
  <2>4. Call \/ Prepared \/ NextDepth
    BY <2>1, <2>3, Constants
       DEF MainStep, AppendSolution, AppendLine, CountLine, AppendEnd, AppendOverflow,
           MakeShort, MakeTasksEnd, Create, Join
  <2>5. UNCHANGED <<cancelled, overflowed>>
    BY <2>4 DEF Call, Prepared, NextDepth, worker
  <2>6. Pardoned' = Pardoned
    BY <1>3, <2>5 DEF Pardoned
  <2> QED BY <2>4, <2>6, ReturnIsComplete
<1> DEFINE limits == [min |-> MinMoves, max |-> MaxMoves,
                      count |-> req.maxsols, slack |-> req.optimal]
<1>7. limits' = limits
  BY <1>2, <1>3
<1>8. Pardoned \in BOOLEAN /\ Pardoned' \in BOOLEAN
      /\ (pc[Main] = "done") \in BOOLEAN /\ (pc'[Main] = "done") \in BOOLEAN
  BY DEF ListInv, IInv, TypeOK, ArgTypes, Pardoned
<1> HIDE DEF limits
<1>9. CASE pc'[Main] = "done" <=> pc[Main] = "done"
  <2>1. CASE Pardoned' = Pardoned
    BY <1>1, <1>7, <1>9, <2>1 DEF Contract!vars, Pardoned, limits
  <2>2. CASE Pardoned' # Pardoned
    <3>1. Pardoned' = TRUE
      BY <1>4, <1>8, <2>2
    <3>2. Contract!Excuse
      BY <1>1, <1>7, <1>9, <3>1 DEF Contract!Excuse, Pardoned, limits
    <3> QED BY <3>2 DEF Contract!Next
  <2> QED BY <2>1, <2>2
<1>10. CASE ~(pc'[Main] = "done" <=> pc[Main] = "done")
  <2>1. pc[Main] # "done" /\ pc'[Main] = "done"
    BY <1>5, <1>10
  <2>2. (Pardoned' = Pardoned) /\ (Pardoned \/ Contract!Complete)
    BY <1>6, <2>1
  <2>3. Contract!Finish
    BY <1>1, <1>7, <2>1, <2>2 DEF Contract!Finish, Pardoned, limits
  <2> QED BY <2>3 DEF Contract!Next
<1> QED BY <1>9, <1>10

(* Nothing is reported before the call.                                    *)
LEMMA InitRefines == Init => Contract!Init
<1> SUFFICES ASSUME Init PROVE Contract!Init
  OBVIOUS
<1>1. req \in Requests /\ MinMoves \in Nat /\ MaxMoves \in Nat
      /\ req.maxsols \in Nat /\ req.optimal \in Nat
  BY InitListInv, ListValues, RequestsAssumption
     DEF ListInv, IInv, TypeOK, CallTypes
<1>2. Reported = {} /\ pc[Main] # "done"
  BY Constants DEF Init, Reported
<1>3. Pardoned \in BOOLEAN
  BY DEF Init, Pardoned
<1> HIDE DEF MinMoves, MaxMoves
<1> QED BY <1>1, <1>2, <1>3 DEF Contract!Init, Pardoned

(* The solver keeps the contract of nissy_solve: it reports the solutions  *)
(* shortest first, none twice, all within the bounds, and leaves out none  *)
(* that qualifies unless it was stopped or ran out of room.                *)
THEOREM SolverKeepsContract == ASSUME RequestsFit PROVE Spec => ImplementsContract
<1>1. ListInv /\ [Next]_vars => [Contract!Next]_(Contract!vars)
  <2> SUFFICES ASSUME ListInv, [Next]_vars PROVE [Contract!Next]_(Contract!vars)
    OBVIOUS
  <2>1. CASE \E a \in Agents : CountLine(a)
    BY <2>1, CountLineFinds DEF Contract!Next, Contract!Lines, Lines
  <2>2. CASE ~\E a \in Agents : CountLine(a)
    BY <2>2, OtherStepsRefine
  <2> QED BY <2>1, <2>2
<1> QED BY InitRefines, <1>1, ListInvariance, PTL
        DEF Spec, ImplementsContract, Contract!Spec
=============================================================================
