# A verification project for the nissy-core / H48 solver

This directory holds TLA+ models of the Rubik's cube library in `src/`: its
optimal solver H48, its coordinate solver, the generators of their tables, the
layout of the tables and what the shell does with them in files, and the cube
functions the rest is built on.  TLC checks the models on small instances;
TLAPS proves the safety of the H48 solver and its list of solutions, of both
parallel generators of its tables, of the coordinate solver and the generator of
its tables, of the layout of the tables and of the shell's work on files for all
instances, four refinements included.

    tlc -config H48Solve.cfg MCH48Solve.tla      # model-check
    tlapm H48SolveProof.tla                      # check the proofs: also of
                                                 # H48ListProof, GenH48h0k4Proof,
                                                 # H48MapProof, GenH48k2Proof,
                                                 # TableDataProof, ShellProof,
                                                 # CoordSolveProof

`PROJECT.json` lists the components, the runs, the lines of code each
definition stands for, the hazards, the findings and the theorems.

## 1. The system

Paths are relative to `src/src/`, except the shell's and the tool's.

| component | state | operations | interacts with |
|---|---|---|---|
| H48 solver, `solvers/h48/solve.h` | per call: task list, one argument record per thread, list of solutions, mutex | `solve_h48`, `solve_h48_maketasks`, `solve_h48_runthread`, `solve_h48_dfs`, `solve_h48_stop` | reads the tables; appends to the solution list; polls a callback |
| Solution list, `solvers/solutions.h` | buffer, `used`, `nsols`, `shortest_sol` | `solution_list_init`, `appendsolution`, `solutions_done` | written by every worker of the H48 solver, and by the coordinate solver |
| h0k4 generator, `solvers/h48/gendata_h48.h` | table of 4-bit entries, chunk mutexes | `gendata_h48h0k4` and its threads, `gendata_h48_mark_atomic` | used alone or as the fallback of the k = 2 tables |
| k = 2 generator, same file and `map.h` | map of short cubes, table of 2-bit entries, mutexes | `gendata_h48short`, `gendata_h48k2`, its threads and depth-first search, `h48map_*` | shares chunk mutexes with nothing else |
| derived tables, distributions, same file | the new table; one distribution per thread | `gendata_h48_derive`, `getdistribution_h48` | `nissy_checkdata`, tools |
| corner and edge helper tables, `gendata_cocsep.h`, `gendata_eoesep.h` | tables | depth-first and breadth-first fills | everything in H48 |
| H48 coordinates, `solvers/h48/coordinate.h` | none | `coord_h48`, `invcoord_h48` | index every H48 table |
| coordinate solver, `solvers/coord/solve.h` | cube and inverse, moves on both sides, solution list | `solve_coord`, `solve_coord_dfs` with the NISS conditions | one thread; ignores the status callback |
| coordinate generator, `solvers/coord/common.h`, `gendata.h` | table of classes and transformations, table of 4-bit entries | `coord_gendata_generic`, `genptable_coord` | EO, DR, DREO coordinates |
| tables, `solvers/tables.h` | chain of headers linked by `next` | `readtableinfo_n`, `writetableinfo` | both solvers, all generators, `nissy_checkdata` |
| interface, `nissy.c` | none (a logger pointer) | `nissy_solve`, `nissy_gendata`, `nissy_checkdata`, `nissy_applymoves`, ... | everything |
| cube, moves, transformations, `core/`, `utils/math.h` | none | pure functions | everything |
| constant tables, SIMD code, `core/constants.h`, `arch/` | none | pure functions | core |
| shell, `src/shell/shell.c`, and checkdata tool, `src/tools/100_checkdata` | files of tables, one per solver | `gendata`, `solve`; reading a file and checking it | interface, file system, other processes |
| C++ and Python bindings | none | wrappers | interface |

What is hard here.

* *Concurrency.*  The H48 solver starts threads at each depth, which share the
  solution list and are told to pause or stop by a callback; the table
  generators start threads that write entries of 2 or 4 bits into shared bytes,
  and decide what to write, or where to stop searching, from reads made without
  the mutex.
* *Ordering.*  Solutions are promised shortest first; tables are filled one
  depth after the other; a search with moves on two sides has to meet each pair
  of sequences once.
* *Limits.*  Sizes of buffers, number of solutions, lengths, the capacity of the
  map; several of these are narrowed to 8 bits on the way.
* *Partial failure.*  A buffer that fills up in the middle of a search; a full
  disc, a failed allocation or a signal in the middle of a generation that takes
  hours, over a file that was emptied before it began.
* *Shared files.*  `solve` makes the table it does not find, so two commands may
  write and read one file at once, with no lock.
* *Numbers that forget.*  A table is indexed by a number that keeps little of the
  cube: what it says holds only if the number decides its own future.

There is no network and no timeout, and the status callback is the only input
during a call.

What makes each component correct:

* H48 solver and list: no line lost, doubled, out of order, out of bounds or
  beyond the limit; none missing when the call ends normally; the call ends.
* generators: each entry is the distance of its coordinate (h0k4, coordinates)
  or a lower bound of it (k = 2); no update lost; the stored distribution is
  that of the table.
* coordinate solver: the lines solve the cube, on the sides asked for, none is
  missing from the depths searched, none is written twice.
* tables and files: what a solver is given is the whole table, each part found
  where it was written; an incomplete file is never taken for a table.
* cube functions: they do to the puzzle what their names say; encodings are
  inverse to each other; the sequences of moves kept by `allowedmask` are one
  per class of equivalent sequences; a coordinate's future depends on it alone.

`PROJECT.json` lists the hazards line by line, also those no module covers.

## 2. Modules

| module | stands for | uses | checked by | proofs |
|---|---|---|---|---|
| `H48Solve` | the H48 solver and its list | `SolveContract` | `MCH48Solve` | `H48SolveProof`, `H48ListProof` |
| `SolveContract` | what a solver promises | | | |
| `GenH48h0k4` | the parallel breadth-first generator | `DistanceTable` | `MCGenH48h0k4` | `GenH48h0k4Proof` |
| `DistanceTable` | what a breadth-first generator promises | | | |
| `GenH48k2`, `H48Map` | the two-bit generator and its map; derived tables | `LowerBoundTable` | `MCGenH48k2` | `GenH48k2Proof`, `H48MapProof` |
| `LowerBoundTable` | what the two-bit generator promises | | | |
| `GenCoord`, `CoordSolve` | table of a coordinate, and the solver that uses it | `DistanceTable` | `MCCoordSolve` | `CoordSolveProof` |
| `Cube`, `CubeIndex`, `Coordinates` | cubes, moves, encodings, coordinates: operators only | | | |
| `NissyCube` | a client of the cube functions | `CubeIndex` | `MCNissyCube` | |
| `StickerGeometry`, `StickerCube` | the puzzle itself | | `MCNissyCube` | |
| `TableData` | the layout of the tables and who reads them: operators only | | | `TableDataProof` |
| `Shell` | commands of the shell at work on one file | `TableData` | `MCShell` | `ShellProof` |

A definition that no other one uses is the altered form of a definition below
it, which `PROJECT.json` lists under "mutants" with the property that tells the
two apart.

### H48Solve: the solver and its list of solutions

| model | code |
|---|---|
| `req`, `Call`, `MinMoves`, `MaxMoves` | arguments of `nissy_solve` and its clamping of the lengths |
| `maxsolutions`, `optimal` | `solve_h48`'s `uint8_t` parameters (`% 256`) |
| `nsols`, `shortest`, `used`, `buf` | `solution_list_t`; `buf[Size]` stands for the byte after the buffer |
| `MakeShort`, `MakeTasksEnd`, `Prepared` | `solve_h48_maketasks` and the test after it |
| `NextDepth`, `Create(t)`, `Join(t)` | the loop on `d` in `solve_h48` |
| `Poll(t)`, `PauseEnd(t)` | the status part of `solve_h48_runthread` |
| `Search(t)`, `SearchEnd(t)`, `Stop(t, n)` | `solve_h48_dfs` and `solve_h48_stop` |
| `LockList(t)`, `Unlock(a)` | the mutex around `appendsolution` |
| `AppendLine`, `CountLine`, `AppendEnd`, `AppendOverflow` | `appendsolution`, one symmetric copy at a time: the text first, the counters after |
| `SetStatus` | the callback, which may answer anything at any time |

*The cube is abstracted away.*  `Leaves[i]` is the sequence of solved nodes below
task `i` in the order of the search, `ShortSols` the solved nodes of at most
three moves, met while the tasks are made.  Each has a length, a number of
lines (its copies under the symmetries of the cube) and a size in characters.
The cuts by pruning tables and the choice of the side to move on remove no
solved node as long as the tables hold lower bounds; that they do is
the subject of the generators' models, of which `k2_lower_bound` shows where they
do not; the cuts themselves are not modelled.  That two solved nodes give
different lines is assumed.

*Steps.*  A step reads or writes shared state once, except `CountLine`: outside
the mutex only `nsols` and `shortest_sol` are read, and `ShortestRaceHarmless`
shows that what is read of the latter never matters.  A solved node has no
solved sibling (two moves from one position do not lead to the same one), so
the last read of the counters before an append is the one at its parent:
`Search` is that read, `LockList` and the append come later.

### SolveContract: what a solver promises

Lines are found one at a time, lengths never decrease, all are in range and
within the slack of the shortest one, there are at most as many as asked for,
and the call ends only when it has that many or nothing that qualifies is left
out, unless it is excused (it was told to stop, or the buffer is too small).
`H48Solve!ImplementsContract` is the refinement.  The coordinate solver, whose
call with moves on the inverse breaks the promise on `optimal`, is checked
against properties of its own that say what it does find.

### GenH48h0k4: the parallel breadth-first generator

| model | code |
|---|---|
| `table`, `byte[t]`, `Load`, `Store` | `set_h48_pval_atomic`: load of a byte with two entries, then store |
| `table_mutex`, `Mutex(c)`, `Lock`, `Release` | the chunk mutexes of `gendata_h48_mark_atomic` |
| `CreateThreads`, `JoinThreads`, `Return` | the loop on `d` of `gendata_h48h0k4` |
| `Start`, `End`, `isize` | the ranges of the threads |
| `Scan`, `Look`, `Mark` | `gendata_h48h0k4_runthread`: three reads without the mutex |
| `Near`, `Sims`, `Dist` | `move` / `coord_h48` / `invcoord_h48`, `FOREACH_H48SIM`, the distances |

All threads of a depth are created in one step and joined in one: a thread that
is created later behaves as one that is scheduled later, and nothing happens
between two joins.  What the model takes from group theory are the
assumptions `SimilarityAssumption` and `DistanceAssumption`: similarity is an
equivalence that respects distances, a move can be undone up to similarity and
changes the distance by at most one.  Threads read and write entries one at a
time, in any interleaving; the accesses are `_Atomic` in the code.

### DistanceTable: what a generator by breadth-first search promises

Entries go from unset to the distance of their coordinate, depth by depth, and
never change again; the generator ends when no entry within its depth is unset.

### GenH48k2 and H48Map: the two-bit generator

| model | code |
|---|---|
| `h48map_*`, `Probe`, `Ends` | `map.h`: open addressing in a fixed number of slots, linear probing that ends at the key or a free slot |
| `ShortPair`, `ShortInsert` | `gendata_h48short`, which goes over the slots once for each depth, inserting while it goes |
| `next`, `NextShortCube(t)` | the loop of `gendata_h48k2_runthread`: the next short cube, under the mutex of the map |
| `todo[t]`, `Visit(t)`, `Children`, `LastLevel` | `gendata_h48k2_dfs`: the nested loops as a list of nodes to visit; which levels there are depends on `shortdepth - base` |
| `DfsStop` | `gendata_h48k2_dfs_stop`: for h = 0 and the largest h an entry read under its mutex, else a lookup in the map |
| `Load(t)`, `Store(t)` | `gendata_h48_mark` at one entry, under the chunk's mutex: a byte with four entries is loaded and stored |
| `CreateThreads`, `JoinThreads` | `gendata_h48k2`, and the count of the entries of each value |
| `Derive(hh)` | `gendata_h48_derive` |

Positions are abstract: constants say what a move makes of a position
(`Turns`), which entry it has (`Key`, the coordinate at the largest h, of which a
smaller h keeps the high part), which position the code makes of an entry
(`Rep`), which positions the loop over similar coordinates meets (`Similar`) and
how far from solved the positions of an entry are (`KeyDist`, which only the
properties and the assumptions speak of).  Several coordinates stand for no
position near solved, as in the code.  The assumptions `SimilarityAssumption`,
`DistanceAssumption` and `MovesAssumption` say what the algorithm needs of the
cube group: similarity is an equivalence that respects distances; for h = 0 and
the largest h what a move makes of a coordinate depends on the coordinate alone
(`CoordinatesSuffice` checks this on the real cube); moves can be undone and
change the distance by at most one; two moves of a face are one or none, moves of
opposite faces commute.  For the h in between nothing is assumed.
`LowerBoundTable` is the promise: an entry starts at the largest value, only
decreases, is never below the value its distance gives it, and is that value
when the generator returns.

### GenCoord and CoordSolve: a coordinate, its table and its solver

One instance of `CoordSolve` generates the tables with `GenCoord` and then makes
one call of the solver on them.

| model | code |
|---|---|
| `GenClass`, `GenTable` | `coord_gendata_generic`: one class at a time, then its table of representatives |
| `GenDepth`, `GenFill`, `GenDepthEnd`, `GenReturn` | `genptable_coord`; `fromnew` is which way a depth is filled, chosen anew at each depth |
| `coord`, `cube`, `isnasty` | `coord_coordinate_generic`, `coord_cube_generic`, `coord_isnasty_generic` |
| `solve_coord`, `AlreadySolved`, `NeedsMoves`, `SearchDepth` | `solve_coord` up to its loop, and the loop |
| `Visit`, `VisitSolved`, `TryMove`, `OtherSide`, `NoMoreMoves` | `solve_coord_dfs`: the stop test, a solved node, the loop on moves, the change to the other side, the return; `stack` holds the locals of the calls above |
| `Pieces`, `NoRoom`, `appendsolution` | the line put into the buffer piece by piece, and where it runs out |
| `stop_early`, `continue_onnormal_th`, `coord_continue_onnormal`, `coord_continue_oninverse`, `coord_can_switch` | the functions of these names |

A coordinate is any pair of a number taken up to symmetry and a number read from
the transformed cube, as `coord_t` is; the choice between the two directions of
a fill, which the code makes by cost, is free.  Of the buffer only the length is
kept, and the text as a list of lines.  `Distances` refines the generator to
`DistanceTable`, the module `GenH48h0k4` refines to too.

Cubes, moves and transformations are constants.  What the model assumes of them,
and why the code has it:

* `CoordinateAssumption`, `TransAssumption`, `MoveAssumption`: the two parts are
  numbered from 0, a cube can be made with each pair of numbers (`merge` of what
  `sym.cube` and `sym.cube2` give), the transformations in `trans_mask` are a
  group, and what a transformation or a move makes of the two parts depends on
  the parts alone: they are read off the edges' flips, the corners' twists and the
  places of the slice's edges, none of which needs the rest of the cube
  (`CoordinatesSuffice` in the run `cube` checks this on real cubes).
* `DistanceAssumption`: `Distance`, the number of moves to what looks solved, is
  the one function with these properties, and is less than the 15 that marks an
  unset entry of four bits.
* `InverseAssumption`: moves before and after the scramble commute, and each is the
  other seen from the inverse (`TransformsFit`).
* `GoalAssumption`: what looks solved is a subgroup.  It is the stabiliser of
  orientations and of a set of places, so the inverse of a member is one, and a
  last move that is a member itself can be left out: this is what
  `coord_can_switch` relies on.
* `ParallelAssumption`, `WritingAssumption`: `allowedmask` lets parallel moves follow
  each other in increasing order and never three of them; `transform_move` keeps
  parallel moves parallel and is undone by the inverse transformation.
* `RequestAssumption`: `maxmoves` is at most 20, as `nissy_solve` makes sure
  (`nissy.c:485`), and the axis gives a transformation.

TLC evaluates all of them on the instance of the run `coord`.

### Cube, CubeIndex, Coordinates, NissyCube: the cube functions

`Cube` has the operations of `arch/portable.h`, the 54 moves, the 48
transformations and `FOREACH_READMOVE` on tokens; `CubeIndex` the encodings of
`utils/math.h`, `readcube`, `writecube` and `getcube`; `Coordinates` the
coordinates of both solvers.  The cubes of the quarter turns, of x, y, z and of
the mirror are copied from `core/constants.h`, and its other cubes computed from
these (they are the same 18 and 96 cubes); the tables of orientations,
transformations and allowed moves are copied too, and a wrong entry fails
`ImplementsStickers`, `TransformsFit` or `OneWayToEachCube`.  A place of a cube holds the
number the code holds there, piece and orientation in one byte, because the
tricks on these bits are what can go wrong.

`NissyCube` is a client that begins with some string and calls `nissy_inverse`,
`nissy_applymoves`, `nissy_applytrans` and `nissy_getcube`, each with all its
error paths; it goes on with the result of each call that succeeds.
`nissy_inverse` accepts a string with one corner twice, and then leaves part of
a variable uninitialised: `Memory` is what it may hold.

`StickerCube` says what the calls promise in terms of the puzzle: 54 stickers,
centres included, at places in space, layers that turn and symmetries of space.
It shares no definition with `Cube`.  The auxiliary variable `stickers` of
`MCNissyCube` maps the client's string to the stickers, and `ImplementsStickers`
says that each call does the promised thing to them.

### TableData and Shell: the tables in memory and in files

`TableData` lays out the data of a solver as blocks, a header or a piece of a
table's data: what `gendata_h48` and `gendata_coord` write (`data`), the chain of
`next` fields as it ends up, where `solve_h48` and `solve_coord` look for each
part (`H48Offsets`, `CoordOffsets`), and what `nissy_checkdata` accepts.

`Shell` runs two or three processes, each a `gendata`, a `solve` or the checkdata
tool, on the files of one solver.

| model | code |
|---|---|
| `SolverInfo` | the check of the NISS type and `nissy_solverinfo`, with its unset result for an unsupported H48 table |
| `Look`, `OpenNamed` | the search for a file in `tables/` and the current directory |
| `OpenToWrite`, `NowhereToWrite` | `fopen(..., "wb")` *before* the table is generated; `fclose(NULL)` when no directory can be written |
| `Generate`, `GenerateInNull` | `malloc`, unchecked, and `nissy_gendata` |
| `Write`, `WriteFails`, `Close`, `CloseFails` | `fwrite` block by block at the process's own offset; the last block is in stdio's buffer until `fclose`, whose result is ignored |
| `Read`, `ReadShort`, `ReadInNull`, `Solve`, `Check` | `fread` and what is done with what was read |
| `Kill` | a signal, between any two steps |

A block of a file is the number of a block of the table, or 0 for zeros that
were never written (a hole that a write past the end leaves).  Two generations
of one table are taken to write the same bytes; the generators' runs show this
for their tables.  The variables in `aux` record who truncated a file last and
whether two writers had it open, for the properties only.

### The proof modules

Each extends the module it is about and states its theorems in terms of the
properties defined there, which are the ones TLC checks.  `H48ListProof` builds
on `H48SolveProof`, `ShellProof` on `TableDataProof`, `GenH48k2Proof` on
`H48MapProof`, which has the lemmas about the operations of the map.
`CoordSolveProof` is about both `GenCoord` and `CoordSolve`: the cuts of the solver
are right because the table is.  Section 4 describes them.

## 3. Model checking

| run | instance | result |
|---|---|---|
| `h48solve` | 3 threads, 4 tasks, 6 solved nodes, 9 argument lists | 163 227 states; all properties hold |
| `overflow_reported` | a buffer for two lines | violated: the error of `appendsolution` is dropped |
| `terminator_in_buffer` | a buffer with exactly the room of the lines | violated: the terminator is written after the last byte |
| `none_means_none` | `maxsols = 256` | violated: narrowed to 0 after the test for 0 |
| `gen_h48h0k4` | 2 threads, 21 coordinates in 11 bytes, 2 mutexes, depths 0 to 4 | 19 260 states; all properties hold |
| `gen_h48k2` | 2 threads, 24 positions, 20 coordinates, 2 mutexes, 9 slots | 106 673 states; all properties hold |
| `k2_lower_bound` | the same with another hash, which puts a short cube in the last slot | violated: that cube is skipped, entries stay too high |
| `coord` | 720 positions, 5 moves, a table of 54 entries, 26 calls | 7 261 states; all properties hold |
| `count_returned` | the same | violated: twice the number of lines is returned |
| `within_optimal` | the same | violated: with moves on the inverse only, the optimal solution is cut |
| `cube` | the real cube, 4 strings, 174 first and 11 second calls | 3 137 states; all properties hold |
| `shell` | 7 sets of commands, 9 file systems each, 2 faults | 934 782 states; all properties hold |

**`h48solve`.**  Three workers on four tasks make one worker run two tasks, let two
workers race for the mutex while a third reads the counters, and leave a worker
idle when the others append.  Of the six solved nodes one has 3 moves, three
have 4 and two have 5, and one has two symmetric copies.  The argument lists meet
every way out: all solutions, the window closed by a shorter solution, the limit
reached among workers, no solution in range, `minmoves` above `maxmoves`, a
buffer that overflows in the task creation or in the search, no buffer, no
solution wanted.  Status changes are unrestricted.  Properties:

* `CountBounded`: never more lines than asked for.
* `TextMatchesCount`: the text is `nsols` whole lines, none overwritten, and is
  terminated between searches.
* `WithinWindow`: every line is in range and within `optimal` of the shortest.
* `ShortestRaceHarmless`: the unsynchronised test on `shortest_sol` cuts nothing
  at a depth being searched.
* `SameDepth`: no worker is left over from an earlier depth.
* `CancelEndsSearch`: after a worker has stopped, no deeper search begins.
* `ImplementsContract`: the refinement.
* `Termination`: the call returns if the caller does not leave it paused.

**`gen_h48h0k4`.**  The puzzle is a torus of 3 by 7 points with four moves and the
half turn as symmetry, numbered so that points of one depth lie in the ranges of
both threads and share bytes; a move leads to only one of two similar points, so
the loop over similar coordinates is needed.  Depths 1 and 2 are forward, 3 and
4 backward; `maxdepth` is 3 or 20.  Properties: `NoLostUpdate`, `SimilarAgree`,
`DistributionMatches`, `ImplementsDistanceTable`, `Termination`.

**`gen_h48k2`.**  The puzzle is a row of four pieces moved by swaps of neighbours,
of which the outer two commute like opposite faces; the mirror image is its
symmetry, the distances are 0 to 6.  `shortdepth` is 2 and the eight short cubes
leave only the last of nine slots free, so that probing wraps around and goes
past occupied slots.  The requests take the search through all its forms: h = 0
and the largest h, where it is cut by entries, a middle h, where it is cut by
the map, and bases that make the first depth 0, -1 and -2.  Properties:
`ShortMapExact` (the map has exactly the positions within `shortdepth`),
`ImplementsLowerBoundTable` (no mark undoes another thread's, no cut loses an
entry), `DerivedAsGenerated`, `Termination` (the map never fills, no mutex stays
locked).

**`coord`.**  A cube permutes six pieces; two 3-cycles are parallel moves, the third
move is a double transposition that keeps a solved coordinate solved, and the
mirror image is the symmetry.  The coordinate has 15 symmetric values in nine
classes, three of which are their own mirror image, times 6.  The calls have each
NISS flag and all of them, both axes and orientations, minimum and maximum
lengths, limits on solutions, buffers of 1 to 9 bytes, a solved and an unsolvable
cube and wrong data.  Properties:

* `TableExact`, `ImplementsDistanceTable`: every position, in every symmetric
  form, finds its distance.
* `LinesSound`: every line solves the cube that was given on the axis and in the
  orientation asked for, is in range and canonical, and no side of it ends on a
  half turn or a counterclockwise one where the clockwise one does as well.
* `LinesComplete`: when there was room, every solution of every depth searched is
  there, and the search stopped because of the limits on moves.  Which depths are
  searched with moves on the inverse only is what `within_optimal` is about.
* `WrittenOnce`: no line twice, except where an odd depth can be split both ways.
* `Termination`.

**`cube`.**  The real cube.  The first call is one of every single move, every
transformation, strings of moves right and wrong with rotations, slices and wide
moves inside and outside of parentheses, and numbers in and out of range; the
second is one of 11, made on what the first gave, so that orientations other than
the usual one meet every kind of call.  The client begins with a solved cube, a
mixed one held with another face on top, one with a flipped edge and a string
that is no cube.  Properties:

* `ImplementsStickers`: the calls do to the puzzle what they are named for.
* `SolvabilityKept`: no sequence of calls makes a solvable cube of an unsolvable.
* `GetCubeExact`: the cube has the numbers asked for, up to what "fix" adjusts.
* `TransformsFit`: moves, transformations, inverses and premoves commute as both
  solvers assume.
* `CoordinatesSuffice`: the number after a move or a symmetry of the coordinate
  depends on the number before alone.
* `H48UpToSymmetry`: the cube made from an H48 coordinate is one with that
  coordinate, up to a transformation.
* `OneWayToEachCube`: allowed pairs of moves reach every cube two moves away
  exactly once, and none that is nearer.

**`shell`.**  Two or three commands at once for a table of each layout (one-header
EO, two-header DR, three-header h48h0k4, four-header h48h2k2), with files that
are missing, cut short or whole, and directories that can be written both, one or
not at all.  Two faults are enough for both of two generations to fail, or for
one to fail and the reader to be killed.  Properties:

* `SolversTables`: what `nissy_solve` is given is the whole table, each part found
  at its place; zeros only after two generations overlapped, and in place of an
  H48 header they are refused.
* `CheckdataExact`: `nissy_checkdata` tells a hole, except in the data of the two
  kinds of table it does not count.
* `LastGenerationWins`: who empties a file last and closes it after writing all of
  it leaves a whole table, whatever others do.
* `SolveKeepsFiles`: a solve never writes to a file that was there when it began.

**Violations.**  The six violations are disagreements between `nissy.h` or
`doc/h48.md` and the code; they are described under "findings" in
`PROJECT.json`.

**Fairness.**  Each thread, and the main thread, of the H48 solver and of the two
H48 generators is weakly fair: the operating system schedules every thread.
Nothing is assumed of the mutexes beyond what follows from this, and nothing of
the callback except, in `H48Solve`'s `Termination`, that the status is not paused
for ever.  The coordinate generator and solver are one thread, which runs
(`WF_vars(Next)`).  `NissyCube` and `Shell` have safety properties only and no
fairness: clients and processes end, or are killed (`CHECK_DEADLOCK FALSE`), and
a solve that finds no complete table may never return a solution.

**Seen while modelling, without a run.**

* `getcube_fix` takes the twists from the permutation of the corners
  (`core/cube.h:157`), although `nissy.h:204` says that values out of range are
  adjusted.
* `is_dreo_solvable` misses a flip at UF, which `coord_eo` leaves out
  (`solvers/coord/dreo.h:90`): of such a cube the solver thinks it can be solved.
* The checkdata tool prints "succeeded" for a file that is too short
  (`tools/100_checkdata/checkdata.c:28`).
* `solve_exec` prints what is in its buffer and returns 0 when `nissy_solve` fails.
* `nissy_solverinfo` returns 1 and leaves the name of the data unset for an H48
  table that is parsed but not supported (`nissy.c:337-356`); the shell takes any
  value but an error for the size.
* A header of zeros in the data of a coordinate solver is not refused.

## 4. Proofs

All theorems are about every value of the constants that satisfies the named
assumptions of the module; nothing else is assumed.

| module | theorem | states |
|---|---|---|
| `H48SolveProof` | `TypeCorrect` | `Spec => []TypeOK` |
| | `CountIsBounded` | `Spec => []CountBounded` |
| | `DepthIsShared` | `Spec => []SameDepth` |
| | `LinesInWindow` | `Spec => []WithinWindow` |
| | `RaceIsHarmless` | `Spec => []ShortestRaceHarmless` |
| `H48ListProof` | `TextIsCounted` | `Spec => []TextMatchesCount` |
| | `CancelIsFinal` | `Spec => CancelEndsSearch` |
| | `SolverKeepsContract` | `RequestsFit` implies `Spec => ImplementsContract` |
| `GenH48h0k4Proof` | `TypeCorrect` | `Spec => []TypeOK` |
| | `SimilarCoordinatesAgree` | `Spec => []SimilarAgree` |
| | `DistributionIsRight` | `Spec => []DistributionMatches` |
| | `NoMarkIsLost` | `Spec => NoLostUpdate` |
| | `GeneratorImplementsDistanceTable` | `Spec => ImplementsDistanceTable` |
| `GenH48k2Proof` | `TypeCorrect` | `Spec => []TypeOK` |
| | `EntriesNeverTooLow` | `Spec => []NeverTooLow`: no entry is below what its distance makes it |
| | `EntriesOnlyDecrease` | `Spec => [][OneEntryLowered]_vars`: a step lowers one entry or none |
| | `ShortCubesFound` | `Spec /\ []LastSlotFree => []ShortMapExact` |
| | `GeneratorImplementsLowerBoundTable` | `Spec /\ []LastSlotFree => ImplementsLowerBoundTable` |
| | `DerivedTablesExact` | `Spec /\ []LastSlotFree => []DerivedAsGenerated` |
| `CoordSolveProof` | `GeneratorInvariant` | `Spec => []GenInv`: the invariant of the coordinate generator |
| | `TableIsExact` | `Spec => []TableExact` |
| | `MadeTableIsExact` | when the tables are made, every cube's entry is its distance |
| | `CoordGeneratorImplementsDistanceTable` | `Spec => ImplementsDistanceTable` |
| | `CoordSolveTypeOK` | `Spec => []TypeOK` |
| | `CoordLinesSound` | `Spec => []LinesSound` |
| | `CoordWrittenOnce` | `Spec => []WrittenOnce` |
| | `CoordLinesComplete` | `Spec => []LinesComplete` |
| `TableDataProof` | `LaidK2` | where `gendata_h48` leaves four tables of any size |
| | `HolesK4`, `HolesK2` | which blocks never written `solve_h48` refuses, and that it finds every table else |
| | `CheckedData` | which blocks never written `nissy_checkdata` tells |
| `ShellProof` | `TypeCorrect` | `Spec => []TypeOK` |
| | `LastGenerationStays` | `Spec => []LastGenerationWins` |
| | `SolveKeepsWhatItFound` | `Spec => []SolveKeepsFiles` |
| | `SolversTablesFound` | `Spec => []SolversTables` |
| | `CheckdataFindsHoles` | `Spec => []CheckdataExact` |

The theorems `Invariance` and `ListInvariance` say that the inductive invariants
below hold in every execution.

### The H48 solver (`H48SolveProof`)

None of the properties is inductive by itself.  `IInv` adds: which program
counters belong to the main thread and which to workers (`Roles`), that a worker
in `appendsolution` holds the mutex (`Exclusion`), which workers exist while they
are created and joined (`Roster`, with `SameDepth`: so that the main thread is
never in `appendsolution` at the same time as a worker), that the solved node in
hand exists and has the length of the current depth (`Cursor`), that between
writing a line and counting it there is still room for it and the limit is not
reached (`Counting`), that the depth being searched is in the window
(`DepthInWindow`), and that the lines counted so far are no longer than the
next one can be (`ListInWindow`).  The last is what makes the unlocked read of
`shortest_sol` harmless: lines are found by increasing length, so an append can
only set `shortest_sol` to a length of at least every counted line's, or leave
it as it is.

### The list of solutions (`H48ListProof`)

`ListInv` adds to `IInv` what ties the text, the counters and the progress of the
workers together:

* `Text`: the used part of the buffer is whole lines, as many as are counted; a
  terminator within it means an overflow.  `Terminated`: outside `appendsolution`
  the byte after it is the terminator.
* `ShortestLine`: `shortest` is the length of the shortest line, not only a bound.
* `HandInOrder`: of the symmetric copies of the node in hand exactly those before
  the current one are lines already.
* `ShortNodes` and `LeafNodes`: what has become of each solved node.  It is
  *untouched* as long as a worker has it ahead, or the search is not that deep;
  after that it is *settled* (all its lines are there, or it is out of the
  window, or the limit is reached) or the call is *excused* (an overflow, a worker
  that was told to stop).  Untouched is needed so that no line is written twice,
  settled for completeness.
* `Owned`, `Workers`: task `i` is its worker's, `i % NThreads`; an exited worker
  has no task left or is excused; only a worker sets `anycancelled`.

`SolverKeepsContract` is the refinement of `SolveContract`: a `CountLine` is a
`Find`, a step to the end of the call `Finish`, an overflow or a worker that stops
an `Excuse`; everything else stutters.  Its hypothesis
`RequestsFit` is that the number of solutions and `optimal` fit the 8 bits that
`solve_h48` narrows them to; the run `none_means_none` shows what becomes of a
request that does not.  The other theorems do without it.

Assumptions: `SearchTreeAssumption` (types; tasks give solutions of more than
three moves, the task creation of at most three), `NodesAssumption` (a solved
node is met once; only the line of a cube that is already solved has one
character), `ShortSolsAssumption` (all solutions of at most three moves have one
length: `solve_h48_maketasks` meets them in depth-first order, not by length; two
different lengths would be a relation of at most six moves, and the cube group
has none but those of parallel faces) and `RequestsAssumption`.

### The parallel generator (`GenH48h0k4Proof`)

`IInv` says, for any threads, mutexes and graph of coordinates:

* `Exact`: an entry that is set is the distance of its coordinate, and all those
  nearer than `d` are set.  It needs `MarkingAt` (the coordinate a thread marks
  from has distance `d`, which it concluded from reads without a mutex) and for
  the join of a depth `ScannedBy` (every coordinate that a thread has gone past is
  `Finished`), `LookingAt` and `RangesCover` (the ranges of the threads, rounded
  down, leave no coordinate out).
* `Attended`: if of two similar coordinates one is set and one is not, some
  thread is on its way to the other.  A thread skips a coordinate it finds set,
  although those similar to it may not be set yet: this is why it may.
* `ByteInHand`, `OneByteEach`: between `Load` and `Store` the thread holds the
  mutex of the byte, and the byte in hand is the one in the table.  Two entries of
  one byte have one mutex because a chunk has an even number of them.
* `Counts`: `distribution` and `done` count the coordinates nearer than `d`.
* `Running`: threads exist only between the creation and the join.

`GeneratorImplementsDistanceTable` maps a `Store` to a `Learn` of at most
one entry and the return to `Finish`; everything else stutters.

Assumptions: `ParametersAssumption`, `SimilarityAssumption` (an equivalence that
respects distances; a solved coordinate is similar to itself only) and
`DistanceAssumption` (a move changes the distance by at most one, some move
decreases it, a move can be undone up to similarity).

### The two-bit generator (`GenH48k2Proof`, `H48MapProof`)

*What holds always.*  `IInv` says that the map is well formed (`MapOK`: a key is
found from where its hash puts it, and is in one slot only) and has no value below
the distance of its key (`Entries`), that a node to visit is no farther from
solved than its path is long beyond a short cube (`NodesOK`), that what is to be
marked and what is marked is justified by a position that near (`MarksOK`,
`TableOK`), and that the byte in hand is the one in the table (`ByteInHand`).  It
gives the first three theorems: whatever the map has lost, no entry is too low,
which would make it useless for cuts.  That none is too high, which would cut
solutions, is true only at the end, and is what the rest is about.

*What holds when no pair gets into the last slot.*  `LastSlotFree` is the
condition under which `h48map_nextkvpair` gives every pair of the map: the loops
that call it take the pair of the last slot for the end.  It is a hypothesis on
the execution, which the instance of `gen_h48k2` satisfies and that of
`k2_lower_bound` does not; with the capacity and the `shortdepth` of the code it
fails too (see "findings"), so that of the table the code generates with these
only the first three theorems hold.  The others say that nothing else is
missing: with a free last slot, or a loop that tests for the end before it moves
the index, the table is exact.

* `Found`: in pass i of `gendata_h48short` the map has all keys up to distance i
  with their distances, and those at i + 1 are in it, are being inserted, or come
  only from slots still ahead.  Insertions into slots already passed do no harm,
  since they have distance i + 1.
* `Search`: why no cut and no forbidden sequence of moves loses an entry.  Two
  positions are the `Same` when the search cannot tell them apart: for h = 0 and
  the largest h (`Real`), where a branch is cut at a marked entry, when their
  similar positions share an entry; otherwise, when they have one key up to
  similarity.  `ClassDist` is the distance of the class.  A `Route` is a way from
  a short cube through allowed moves to a node whose path is as long as its class
  is far; `RoutesEverywhere` says that one leads to every class within the last
  level, by exchanging parallel moves where the wrong order would be forbidden
  (`Reorder`).
  - `Taken`: the near short cubes taken from the map are marked or about to be.
  - `Routed`: of every route from a short cube taken that is too short to be cut,
    a node is still to be visited, or the end is marked.  Routes to a
    depth below 0 are never cut in the `Real` case, since no entry is; in the
    other no route is, since only positions in the map are cut.
  - `Closed`: a marked position has all those of its class marked.
  - `Frontier`: where routes may be cut, from every marked class each class one
    farther is marked or about to be visited, whoever has made the mark.  This is
    an invariant of all the threads together: the one that cuts relies on the one
    that marked, which marks first and visits the children afterwards.
  - `Families`: the children of a node are visited in order, so that when one is
    reached its earlier siblings are done: a child that is not allowed after its
    parent is the child of an earlier sibling.
  - `Phases`: threads exit only when the map has been gone through.
* `EndsExact`: when all threads have exited, no node is left, so every class
  within the last level is marked, by `Routed` up to the depth of value 0 and from
  there by `Frontier`, level by level.  With the bound from below, entries are exact.

`GeneratorImplementsLowerBoundTable` maps a `Store` that lowers an entry to
`Lower`, the join to `Finish`, everything else to a stutter.  `DerivedTablesExact`
needs in addition that the coordinate of a smaller h is a quotient of that of the
larger (`CoordOfCoord`).

Assumptions: `CapacityAssumption` (the map has slots), `ParametersAssumption`,
`RequestsAssumption` (`base` is at most two above `shortdepth`, as
`gendata_h48k2` chooses it), and the three on similarity, distances and moves.

### The coordinate generator and solver (`CoordSolveProof`)

*The generator.*  `GenInv` has two parts.  While classes are made (`ClassTable`), the
representatives are the least members of the classes met so far, in order, and
`classttrep` sends each member to its representative: the numbering does not depend
on the order of the loop, which is why `Least` can define it without one.
After that, `Exact` says that an entry below the depth is the distance, and one
at or above it unset or, while the depth is being filled, the depth; `Counts` that
`distribution` and `tot` count distances; `Filling` what the loop has gone past:
entries of the depth themselves when it runs from the new ones, neighbours of
entries of the depth before when it runs from the old ones.  That neither way
misses an entry is the work: a coordinate stands for a class of cubes and `cube`
gives one of them, so what a move makes of one is found only up to a
transformation (`NeighbourFound`, `NearHasOld`); where the class has symmetries
(`isnasty`) all its transforms are looked at, and `NotNasty` shows that elsewhere
one is enough.

*What a call keeps* (`CallInv`).  The calls of `solve_coord_dfs` on the stack are
as many as moves are made, each with the cube its moves lead to, that cube's
inverse and the canonical sequences of either side; moves left to try are allowed
after the last one.

*What is written* (`ListInv`).  A line is a solution because the search's moves are
(`CallInv` and the table being 0 on solved cubes only) and because writing is
undone by reading: `WrittenBack` says that `sortparallel_moves` puts the moves,
transformed for the axis and the orientation, in an order from which the
inverse transformations and another sort give back the search's own.  Sorting
moves at most two neighbours (`ParallelAssumption`), so the sort of the code,
a single pass, is enough.  Lines are ordered by length since depths are, and within
`optimal` of the first.

*No line twice* (`OnceInv`).  A pair of sequences is reached by making all moves of
one side and then all of the other: a node is a pair with the side of its last
move (`NodeRight`, `Legal`), its way is a sequence of steps (`SideAt`, `MoveAt`).
`TrailRight` says where the frames stand on the way to the present node.  A node
is `Ahead` if its way leaves the present one, at some frame, by a move that is
left to try there; every step of the search keeps the nodes ahead or
takes the one in hand from them.  A line of the depth being searched belongs to
a node no longer ahead, so the next is a new node; and a pair has two nodes only
when both limits on the change of side (at most half the depth on the first
side, rounded up and inclusive on the normal side, exclusive on the inverse)
allow it, that is with one move more on the normal side (`TwoWays`).

*None missing* (`CompleteInv`).  The same notion gives the converse.  A node is
`Wanted` if its sequences are a solution on the sides asked for that is solved at
no earlier point; `HasWay` says that every such pair has a node the limits on the
change of side let through.  As long as there is room, a wanted node of the
present depth is ahead or written (`FoundPast`), and those of the depths before are
written (`HeldTo`).  A step could lose one in three ways:

- the cut by the table: what is left of a wanted node's way after the last change
  of side is on one side, so the cube seen from that side is at most as far from
  solved as moves are left (`NormalLeft`, `InverseLeft`, `NotStopped`).  Where no
  change of side is possible this needs the side whose cube is looked up to be
  the one that moves; at the first node of a search on the inverse only it is
  not, and `Searches`, like `Searched` of the property, leaves these depths out;
- a change of side refused (`NormalTried`, `InverseTried`): the length limits are those
  of `Legal`, and `coord_can_switch` refuses only sequences whose last move could be
  left out, after which the pair would have been solved earlier (`ProperEnds`, by
  `GoalAssumption`);
- a solved node on the way, or one that does not count (`SolvedNode`).

That room is left at the end implies that it was there all along (`AppendRoom`):
counts and the length of the text only grow, and a line that does not fit
leaves the buffer full.

Assumptions: those listed in section 2 under `GenCoord` and `CoordSolve`.

### Tables and files (`TableDataProof`, `ShellProof`)

`TableDataProof` computes what `gendata_h48` and `gendata_coord` lay out, for
tables of any size: `Laid` (the data of two to four tables linked by `next`),
`Chain` (the headers `readtableinfo_n` meets from the beginning), `WithHoles` (the
same with any set of blocks missing).  `CheckedData` unrolls `nissy_checkdata`
over the at most four headers of such data.

`ShellProof` has an `IInv` on three levels: `Types`; for each process, `ProcOK`:
who asked for the size of the data knows it (`Sized`), a writer's and a reader's
file is there, blocks read are in their places or zero, and zero only after an
overlap (`Reader`), a `solve` that writes found no file (`FoundNone`); for each
file, `FileOK`: blocks are in place or zero, it has one writer unless an overlap
is recorded (`Alone`), and for the process that emptied it last, what it has
written so far is in the file, whatever others write (`OpenedBy`): they write
the same blocks at the same places.

Assumptions: `SessionsAssumption` (the commands of a
session that go as far as a file ask for one and the same data), `DisksAssumption` (the files that are there at the start each hold
the beginning of one generation) and `BodyLenAssumption` (every table has data).

### What is only model-checked

Liveness (`Termination` of four modules) is out of the prover's reach.  What a
fold or a recursive function computes for every input would need an induction
over data, for which the library's theorems cannot be used by the installed
provers; where a proof needs one (sorting and applying sequences of moves,
lengths of lines) `CoordSolveProof` argues by a least counterexample instead.
The properties of `NissyCube` (`TypeOK`, `ImplementsStickers`, `SolvabilityKept`,
`GetCubeExact`, `TransformsFit`, `CoordinatesSuffice`, `H48UpToSymmetry`,
`OneWayToEachCube`) are about the real cube, with its tables written out and no
parameter to generalise over; they stay with TLC.  So do the six violations.

## 5. Plan

Done: `H48Solve`, `SolveContract`, `H48SolveProof`; `GenH48h0k4`, `DistanceTable`;
`GenH48k2`, `H48Map`, `LowerBoundTable`; `GenCoord`, `CoordSolve`; `Cube`,
`CubeIndex`, `Coordinates`, `NissyCube` and the sticker modules; `TableData`,
`Shell`; `GenH48h0k4Proof`, `H48ListProof`, `TableDataProof`, `ShellProof`,
`H48MapProof`, `GenH48k2Proof`, `CoordSolveProof`.

1. `H48Dfs`: `solve_h48_dfs` on a small permutation puzzle with commuting moves,
   moves on both sides, lower bounds carried over by half turns and move masks,
   against an enumeration of all solutions.
2. The fills of the cocsep and eoesep tables.

### Not modelled

* The cuts of `solve_h48_dfs` by pruning tables and move masks: `H48Solve` takes
  the solved nodes in the order they are met.
* `gendata_cocsep` and `gendata_eoesep`, sequential fills of tables of 279 936 and
  of 782 times 2 048 entries; `Coordinates` takes the cocsep table at its word.
* The AVX2 and NEON versions of the cube operations, which the repository
  compares with the portable ones by its tests.
* `getdistribution_h48`'s threads, which count a finished table and share nothing.
* `nissy_datainfo`, `nissy_countmoves`, `nissy_comparemoves`, `nissy_variations`,
  the tests of the interface for NULL and misaligned buffers, the parsing of
  options, the text formats and `utils/convert.c`: input and output.
* In `nissy_getcube`, negative numbers without "fix"; in strings of moves, a `w`
  after a slice or a rotation.
* Failures of `pthread_create`, which the code does not handle, and of
  `nissy_checkdata` on data shorter than its headers say, which no caller passes.
* The C++ and Python bindings, which copy arguments and buffers.
