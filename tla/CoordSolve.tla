------------------------------- MODULE CoordSolve -------------------------------
(***************************************************************************)
(* The solver for a coordinate (solvers/coord/solve.h and the solution     *)
(* list of solvers/solutions.h), run on the table that GenCoord makes.     *)
(* Moves may be made after the scramble, or before it, written in          *)
(* parentheses: a solution is a pair of sequences, and the search deepens  *)
(* over their total length, changing side at most once.                    *)
(***************************************************************************)
EXTENDS GenCoord

CONSTANTS
  premove(_, _), inverse(_), transform_move(_, _),
  parallel(_, _), allowednextmove(_, _), isbase(_),
  movelen(_),            \* strlen(movestr[m])
  orientation_trans,     \* the transformation of each orientation
  is_solvable(_),
  Requests               \* calls of solve_coord, t = axistrans[axis]

(* Moves on either side can be made in any order, and those on one side    *)
(* are seen from the inverse as moves on the other.                        *)
ASSUME InverseAssumption ==
  \A c \in Cubes :
     /\ inverse(c) \in Cubes
     /\ \A m \in ToSet(moves_mask) :
           /\ premove(c, m) \in Cubes
           /\ inverse(move(c, m)) = premove(inverse(c), m)
           /\ inverse(premove(c, m)) = move(inverse(c), m)
           /\ \A n \in ToSet(moves_mask) : premove(move(c, m), n) = move(premove(c, n), m)

(* What looks solved is a subgroup: it has its inverses, and a move that   *)
(* is in it leads into it only from inside.                                *)
ASSUME GoalAssumption ==
  \A c \in Cubes :
     /\ c \in Goal <=> inverse(c) \in Goal
     /\ \A m \in ToSet(moves_mask) :
           move(SOLVED_CUBE, m) \in Goal /\ move(c, m) \in Goal => c \in Goal

MAXLEN == 20

ASSUME RequestAssumption ==
  \A r \in Requests :
     /\ transform(r.cube, r.t) \in Cubes
     /\ r.minmoves \in Nat /\ r.maxmoves \in 0 .. MAXLEN
     /\ r.optimal \in Nat /\ r.maxsolutions \in Nat /\ r.size \in Nat

(* Two parallel moves follow each other in increasing order, a third never *)
(* does; others may.  A move as it is written, and back from that.         *)
OnPaper(r, m) ==
  transform_move(transform_move(m, inverse_trans(r.t)),
                 inverse_trans(orientation_trans[r.orientation]))
OffPaper(r, m) ==
  transform_move(transform_move(m, orientation_trans[r.orientation]), r.t)

ASSUME ParallelAssumption ==
  \A m, n \in ToSet(moves_mask) :
     /\ parallel(m, n) => parallel(n, m)
     /\ parallel(m, n) /\ allowednextmove(m, n) => m < n
     /\ \A p \in ToSet(moves_mask) :
           parallel(m, n) => /\ parallel(n, p) <=> parallel(m, p)
                             /\ ~(allowednextmove(m, n) /\ allowednextmove(n, p) /\ parallel(n, p))
ASSUME WritingAssumption ==
  \A r \in Requests : \A m, n \in ToSet(moves_mask) :
     LET mm == OnPaper(r, m)
         nn == OnPaper(r, n)
     IN  /\ mm \in Nat /\ movelen(mm) \in Nat /\ OffPaper(r, mm) = m
         /\ parallel(mm, nn) <=> parallel(m, n)
         /\ ~parallel(m, n) => allowednextmove(mm, nn)
         /\ parallel(m, n) /\ allowednextmove(m, n) =>
              IF mm < nn THEN allowednextmove(mm, nn) ELSE allowednextmove(nn, mm)

NORMAL == {"normal"}
INVERSE == {"inverse"}
MIXED == {"mixed"}

ERROR_UNSOLVABLE_CUBE == -11
ERROR_BUFFER_SIZE == -61
ERROR_DATA == -70

VARIABLES
  req,     \* the arguments of solve_coord
  arg,     \* cube, inverse, moves, premoves and lastisnormal of the search
  stack,   \* what the calls of solve_coord_dfs above this one keep
  depth,   \* arg.target_depth
  list,    \* the solution list
  pc, ret

solvevars == <<req, arg, stack, depth, list, pc, ret>>
vars == <<genvars, solvevars>>

-----------------------------------------------------------------------------
(* The solution list.  Of the text only its length is kept: lines holds    *)
(* the lines that were written to the end, used also counts a cut one.     *)

solution_list_init == [lines |-> <<>>, nsols |-> 0, shortest_sol |-> MAXLEN + 1, used |-> 0]

SolveInit ==
  /\ req = <<>> /\ arg = <<>> /\ stack = <<>> /\ depth = 0
  /\ list = solution_list_init /\ pc = "idle" /\ ret = 0

solutions_done ==
  \/ depth > req.maxmoves
  \/ depth > list.shortest_sol + req.optimal
  \/ list.nsols >= req.maxsolutions

(* The moves and the spaces between them.                                  *)
textlen(ms) ==
  LET text[k \in 0 .. Len(ms)] == IF k = 0 THEN Len(ms) - 1 ELSE text[k-1] + movelen(ms[k])
  IN  text[Len(ms)]

(* sorted[k]: after the rounds of the loop that look at the first k moves. *)
sortparallel_moves(ms) ==
  LET sorted[k \in 0 .. Len(ms)] ==
        IF k < 2 THEN ms
        ELSE LET s == sorted[k-1]
             IN  IF parallel(s[k-1], s[k]) /\ s[k-1] > s[k]
                 THEN [s EXCEPT ![k-1] = s[k], ![k] = s[k-1]] ELSE s
  IN  sorted[Len(ms)]

(* The moves as they are written: on the cube as it was given, and held.   *)
untransformed(ms) == ms
solution_moves_transform(ms) ==
  [k \in DOMAIN ms |-> transform_move(ms[k], inverse_trans(req.t))]
solution_moves_reorient(ms) ==
  [k \in DOMAIN ms |->
     transform_move(ms[k], inverse_trans(orientation_trans[req.orientation]))]
Written(ms) ==
  sortparallel_moves(solution_moves_reorient(solution_moves_transform(ms)))

(* The pieces of a line: moves need room for a terminator, characters do   *)
(* not, and the longer side comes first.                                   *)
Char(c) == <<[len |-> 1, what |-> c]>>
appendnormal(l) ==
  IF l.moves = <<>> THEN <<>> ELSE <<[len |-> textlen(l.moves), what |-> "moves"]>>
appendinverse(l) ==
  IF l.premoves = <<>> THEN <<>>
  ELSE Char("(") \o <<[len |-> textlen(l.premoves), what |-> "moves"]>> \o Char(")")
Pieces(l) ==
  LET space == IF l.moves # <<>> /\ l.premoves # <<>> THEN Char("space") ELSE <<>>
  IN  IF Len(l.moves) >= Len(l.premoves)
      THEN appendnormal(l) \o space \o appendinverse(l) \o Char("newline")
      ELSE appendinverse(l) \o space \o appendnormal(l) \o Char("newline")

(* appendsolution with the single transformation of this solver: the list  *)
(* and the value it returns.  A space without room makes the call return   *)
(* false, that is no solution rather than an error.                        *)
UsedAfter(ps, k) ==
  LET used[n \in 0 .. Len(ps)] == IF n = 0 THEN list.used ELSE used[n-1] + ps[n].len
  IN  used[k]
NoRoom(ps, k) ==
  LET used == UsedAfter(ps, k-1)
  IN  IF ps[k].what = "moves" THEN used + ps[k].len >= req.size ELSE used >= req.size

appendsolution(l) ==
  LET ps == Pieces(l)
      cut == {k \in DOMAIN ps : NoRoom(ps, k)}
  IN  IF list.nsols >= req.maxsolutions THEN [list |-> list, ret |-> 0]
      ELSE IF cut = {}
      THEN [list |-> [lines |-> Append(list.lines, l), nsols |-> list.nsols + 1,
                      shortest_sol |-> Min({list.shortest_sol, Len(l.moves) + Len(l.premoves)}),
                      used |-> UsedAfter(ps, Len(ps))],
            ret |-> 1]
      ELSE [list |-> [list EXCEPT !.used = UsedAfter(ps, Min(cut) - 1)],
            ret |-> IF ps[Min(cut)].what = "space" THEN 0 ELSE ERROR_BUFFER_SIZE]

ThisLine == [moves |-> Written(arg.moves), premoves |-> Written(arg.premoves)]
-----------------------------------------------------------------------------
(* solve_coord: the checks, a cube that needs no moves, then the depths.   *)
RootNotInverted(c) ==
  [cube |-> c, inverse |-> c, moves |-> <<>>, premoves |-> <<>>, lastisnormal |-> TRUE]
Root(c) ==
  [cube |-> c, inverse |-> inverse(c), moves |-> <<>>, premoves |-> <<>>,
   lastisnormal |-> TRUE]

Return(v) ==
  /\ ret' = v
  /\ pc' = "returned"

solve_coord(r) ==
  /\ pc = "idle"
  /\ gen = "done"
  /\ req' = r
  /\ list' = solution_list_init
  /\ arg' = Root(transform(r.cube, r.t))
  /\ depth' = Max({r.minmoves, 1})
  /\ IF ~is_solvable(arg'.cube) THEN Return(ERROR_UNSOLVABLE_CUBE)
     ELSE IF r.size = 0 THEN Return(ERROR_BUFFER_SIZE)
     ELSE IF ~r.dataok THEN Return(ERROR_DATA)
     ELSE pc' = "start" /\ UNCHANGED ret
  /\ UNCHANGED <<genvars, stack>>

AlreadySolved ==
  /\ pc = "start"
  /\ coord(arg.cube) = 0
  /\ \E a \in {appendsolution(ThisLine)} :
        IF req.minmoves > 0 THEN Return(0) /\ UNCHANGED list
        ELSE /\ Return(IF a.ret = 0 THEN ERROR_BUFFER_SIZE ELSE a.list.nsols)
             /\ list' = a.list
  /\ UNCHANGED <<genvars, req, arg, stack, depth>>

NeedsMoves ==
  /\ pc = "start"
  /\ coord(arg.cube) # 0
  /\ pc' = "depth"
  /\ UNCHANGED <<genvars, req, arg, stack, depth, list, ret>>

SearchDepth ==
  /\ pc = "depth"
  /\ IF solutions_done THEN Return(list.nsols)
     ELSE pc' = "visit" /\ UNCHANGED ret
  /\ UNCHANGED <<genvars, req, arg, stack, depth, list>>
-----------------------------------------------------------------------------
(* solve_coord_dfs.  A frame keeps the arguments the call was made with,   *)
(* the side whose moves it is trying, those left to try and the solutions  *)
(* counted so far.                                                         *)
nmoves == Len(arg.moves)
npremoves == Len(arg.premoves)
th == (depth + 1) \div 2

are_lastmoves_singlecw(ms) ==
  LET n == Len(ms)
  IN  n > 0 => /\ isbase(ms[n])
               /\ (n > 1 /\ parallel(ms[n], ms[n-1])) => isbase(ms[n-1])
solution_lastqt_cw ==
  are_lastmoves_singlecw(arg.moves) /\ are_lastmoves_singlecw(arg.premoves)

coord_solution_admissible == nmoves + npremoves = depth /\ solution_lastqt_cw

get_coord_pval(x) == table[x]
hasnissed == nmoves > 0 /\ npremoves > 0
stop_early == nmoves + npremoves + get_coord_pval(coord(arg.cube)) >= depth
solve_coord_dfs_stop ==
  \/ nmoves + npremoves >= depth
  \/ /\ hasnissed \/ MIXED \cap req.nissflag = {}
     /\ nmoves + npremoves
          + get_coord_pval(coord(IF arg.lastisnormal THEN arg.cube ELSE arg.inverse)) > depth

(* Only the last move is looked at, whether or not the one before it is    *)
(* parallel to it.                                                         *)
coord_can_switch(ms) ==
  ms # <<>> => coord(move(SOLVED_CUBE, ms[Len(ms)])) # 0

continue_onnormal_th ==
  IF nmoves + npremoves = 0 \/ arg.lastisnormal THEN TRUE
  ELSE nmoves = 0 /\ npremoves <= th /\ coord_can_switch(arg.premoves)
coord_continue_onnormal ==
  LET f == req.nissflag
  IN  IF nmoves + npremoves = 0 THEN f \cap (NORMAL \cup MIXED) # {}
      ELSE IF arg.lastisnormal
      THEN NORMAL \subseteq f \/ (MIXED \subseteq f /\ (npremoves > 0 \/ nmoves <= th))
      ELSE /\ MIXED \subseteq f /\ nmoves = 0 /\ npremoves < th
           /\ coord_can_switch(arg.premoves)

coord_continue_oninverse ==
  LET f == req.nissflag
  IN  IF nmoves + npremoves = 0 THEN f \cap (INVERSE \cup MIXED) # {}
      ELSE IF ~arg.lastisnormal
      THEN INVERSE \subseteq f \/ (MIXED \subseteq f /\ (nmoves > 0 \/ npremoves < th))
      ELSE /\ MIXED \subseteq f /\ npremoves = 0 /\ nmoves <= th
           /\ coord_can_switch(arg.moves)

MovesAfter(ms) ==
  {m \in ToSet(moves_mask) : ms # <<>> => allowednextmove(ms[Len(ms)], m)}

(* The end of a call, s being the frames of its callers: an error ends     *)
(* them all, a count goes to the caller.  solve_coord adds the count of a  *)
(* depth to the number that appendsolution has already increased.          *)
DfsReturnSameDepth(v, l, s) ==
  IF v < 0 \/ s = <<>>
  THEN /\ IF v < 0 THEN Return(v) ELSE pc' = "depth" /\ UNCHANGED ret
       /\ list' = l /\ stack' = s /\ UNCHANGED <<arg, depth>>
  ELSE /\ list' = l
       /\ stack' = [s EXCEPT ![Len(s)].ret = @ + v]
       /\ arg' = s[Len(s)].arg
       /\ pc' = "loop"
       /\ UNCHANGED <<depth, ret>>
DfsReturn(v, l, s) ==
  IF v < 0 THEN Return(v) /\ list' = l /\ UNCHANGED <<arg, stack, depth>>
  ELSE IF s = <<>>
  THEN /\ list' = [l EXCEPT !.nsols = @ + v]
       /\ depth' = depth + 1
       /\ stack' = s
       /\ pc' = "depth"
       /\ UNCHANGED <<arg, ret>>
  ELSE /\ list' = l
       /\ stack' = [s EXCEPT ![Len(s)].ret = @ + v]
       /\ arg' = s[Len(s)].arg
       /\ pc' = "loop"
       /\ UNCHANGED <<depth, ret>>

Visit ==
  /\ pc = "visit"
  /\ coord(arg.cube) # 0
  /\ IF solve_coord_dfs_stop THEN DfsReturn(0, list, stack)
     ELSE /\ stack' = Append(stack,
               [arg |-> arg, side |-> "normal", ret |-> 0,
                todo |-> IF coord_continue_onnormal THEN MovesAfter(arg.moves) ELSE {}])
          /\ pc' = "loop"
          /\ UNCHANGED <<arg, depth, list, ret>>
  /\ UNCHANGED <<genvars, req>>

VisitSolved ==
  /\ pc = "visit"
  /\ coord(arg.cube) = 0
  /\ IF ~coord_solution_admissible THEN DfsReturn(0, list, stack)
     ELSE \E a \in {appendsolution(ThisLine)} : DfsReturn(a.ret, a.list, stack)
  /\ UNCHANGED <<genvars, req>>

Frame == stack[Len(stack)]

TryMove ==
  /\ pc = "loop"
  /\ Frame.todo # {}
  /\ LET m == Min(Frame.todo)
     IN  arg' = IF Frame.side = "normal"
                THEN [cube |-> move(arg.cube, m), inverse |-> premove(arg.inverse, m),
                      moves |-> Append(arg.moves, m), premoves |-> arg.premoves,
                      lastisnormal |-> TRUE]
                ELSE [cube |-> premove(arg.cube, m), inverse |-> move(arg.inverse, m),
                      moves |-> arg.moves, premoves |-> Append(arg.premoves, m),
                      lastisnormal |-> FALSE]
  /\ stack' = [stack EXCEPT ![Len(stack)].todo = @ \ {Min(@)}]
  /\ pc' = "visit"
  /\ UNCHANGED <<genvars, req, depth, list, ret>>

OtherSide ==
  /\ pc = "loop"
  /\ Frame.todo = {}
  /\ Frame.side = "normal"
  /\ stack' = [stack EXCEPT ![Len(stack)].side = "inverse",
       ![Len(stack)].todo = IF coord_continue_oninverse THEN MovesAfter(arg.premoves) ELSE {}]
  /\ UNCHANGED <<genvars, req, arg, depth, list, pc, ret>>

NoMoreMoves ==
  /\ pc = "loop"
  /\ Frame.todo = {}
  /\ Frame.side = "inverse"
  /\ DfsReturn(Frame.ret, list, SubSeq(stack, 1, Len(stack) - 1))
  /\ UNCHANGED <<genvars, req>>

solve_coord_dfs == Visit \/ VisitSolved \/ TryMove \/ OtherSide \/ NoMoreMoves

Init == GenInit /\ SolveInit
Next ==
  \/ GenNext /\ UNCHANGED solvevars
  \/ \E r \in Requests : solve_coord(r)
  \/ AlreadySolved \/ NeedsMoves \/ SearchDepth
  \/ solve_coord_dfs

Spec == Init /\ [][Next]_vars /\ WF_vars(Next)
-----------------------------------------------------------------------------
TypeOK ==
  /\ pc \in {"idle", "start", "depth", "visit", "loop", "returned"}
  /\ pc # "idle" => req \in Requests /\ arg.inverse = inverse(arg.cube)
  /\ pc \in {"visit", "loop"} =>
       /\ nmoves + npremoves <= depth
       /\ pc = "loop" => Len(stack) = nmoves + npremoves + 1

(* A reference for the lines of a call: what a line does to the cube that  *)
(* was given, undone from the way it is held and seen on the right axis.   *)
Unwritten(ms) ==
  [k \in DOMAIN ms |->
     transform_move(transform_move(ms[k], orientation_trans[req.orientation]), req.t)]
Turned(side, c, m) == IF side = "normal" THEN move(c, m) ELSE premove(c, m)
After(side, c, ms) ==
  LET after[n \in 0 .. Len(ms)] == IF n = 0 THEN c ELSE Turned(side, after[n-1], ms[n])
  IN  after[Len(ms)]
Apply(c, ms, ps) == After("inverse", After("normal", c, ms), ps)
Solves(ms, ps) == Apply(transform(req.cube, req.t), ms, ps) \in Goal
Canonical(ms) == \A k \in 1 .. Len(ms) - 1 : allowednextmove(ms[k], ms[k+1])
LineLen(l) == Len(l.moves) + Len(l.premoves)

(* Every line solves the coordinate of the cube that was given, on the     *)
(* axis and in the orientation asked for, with as many moves as the depth  *)
(* it was found at, within the limits; no side ends on a half turn or a    *)
(* counterclockwise one, and parallel moves are in order.                  *)
LinesSound ==
  \A k \in DOMAIN list.lines :
     LET l == list.lines[k]
         ms == sortparallel_moves(Unwritten(l.moves))
         ps == sortparallel_moves(Unwritten(l.premoves))
     IN  /\ Solves(ms, ps)
         /\ Canonical(l.moves) /\ Canonical(l.premoves)
         /\ are_lastmoves_singlecw(ms) /\ are_lastmoves_singlecw(ps)
         /\ LineLen(l) \in req.minmoves .. req.maxmoves
         /\ \A j \in 1 .. k-1 : LineLen(list.lines[j]) <= LineLen(l)
         /\ LineLen(l) <= LineLen(list.lines[1]) + req.optimal

(* The pairs of sequences that a call has to write: solved at the end and  *)
(* at no earlier point, on the sides asked for.                            *)
SequencesOf(n) == [1 .. n -> ToSet(moves_mask)]
Sided(ms, ps) ==
  CASE ms # <<>> /\ ps # <<>> -> MIXED \subseteq req.nissflag
    [] ms # <<>> /\ ps = <<>> -> NORMAL \subseteq req.nissflag
    [] ms = <<>> /\ ps # <<>> -> INVERSE \subseteq req.nissflag
    [] OTHER                  -> FALSE
Proper(ms, ps) ==
  /\ Canonical(ms) /\ Canonical(ps) /\ Sided(ms, ps)
  /\ are_lastmoves_singlecw(ms) /\ are_lastmoves_singlecw(ps)
  /\ Solves(ms, ps)
  /\ \A j \in 0 .. Len(ms), k \in 0 .. Len(ps) :
        <<j, k>> # <<Len(ms), Len(ps)>> => ~Solves(SubSeq(ms, 1, j), SubSeq(ps, 1, k))

(* The first node of a search without the mixed flag is cut by the value   *)
(* of the cube, also when only moves on the inverse are asked for.         *)
Searched ==
  {n \in Max({req.minmoves, 1}) .. depth - 1 :
     \/ req.nissflag = NORMAL
     \/ MIXED \subseteq req.nissflag
     \/ n >= Distance[transform(req.cube, req.t)]}

(* When a call returns with room left in the list and in the buffer, every *)
(* solution of a depth it searched is there, and it stopped because of the *)
(* limits on the moves.                                                    *)
LinesComplete ==
  /\ pc = "returned" /\ ret >= 0 /\ arg.cube \notin Goal
  /\ list.nsols < req.maxsolutions /\ list.used < req.size
  => /\ \A n \in Searched : \A k \in 0 .. n :
          \A ms \in SequencesOf(k), ps \in SequencesOf(n-k) :
             Proper(ms, ps) =>
               \E l \in ToSet(list.lines) :
                  l = [moves |-> Written(ms), premoves |-> Written(ps)]
     /\ \/ depth > req.maxmoves
        \/ list.lines # <<>> /\ depth > LineLen(list.lines[1]) + req.optimal

(* A line is written once, except where a mixed search of odd depth may    *)
(* change side either way: one move more on the normal side.               *)
WrittenOnce ==
  \A j, k \in DOMAIN list.lines :
     j < k /\ list.lines[j] = list.lines[k] =>
       LET l == list.lines[j]
       IN  l.premoves # <<>> /\ Len(l.moves) = Len(l.premoves) + 1

(* A call on the generated tables returns.                                 *)
Termination == <>(pc = "returned")

(* "Any value >= 0 - The number of solutions found."  nissy.h              *)
CountReturned == pc = "returned" /\ ret >= 0 => ret = Len(list.lines)

(* "optimal - The maximum number of moves above the optimal solution."     *)
WithinOptimal ==
  pc = "returned" /\ ret >= 0 /\ req.nissflag = INVERSE /\ list.lines # <<>> =>
    LineLen(list.lines[1]) <=
      Min({n \in 1 .. req.maxmoves :
             n = req.maxmoves \/ \E ps \in SequencesOf(n) : Proper(<<>>, ps)})
================================================================================
