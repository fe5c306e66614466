--------------------------------- MODULE MCShell ---------------------------------
(* Model checking of Shell: the commands run side by side.                   *)
EXTENDS Shell, TLC

MCBodyLen == [cocsep |-> 1, h48h0k4 |-> 1, h48k2 |-> 2, eoesep |-> 1, helper |-> 1,
              pruning |-> 1]

MCProcs == {"p", "q", "r"}
Cmd(cmd, solver) == [cmd |-> cmd, solver |-> solver, niss |-> "", file |-> "tables/"]
Two(p, q) == [p |-> p, q |-> q]
Three(p, q, r) == [p |-> p, q |-> q, r |-> r]

MCSessions == {
  Two(Cmd("solve", "h48h2k2"), Cmd("solve", "h48h2k2")),
  Two(Cmd("solve", "h48h2k2"), Cmd("check", "h48h2k2")),
  Three(Cmd("gendata", "h48h0k4"), Cmd("gendata", "h48h0k4"), Cmd("check", "h48h0k4")),
  Three(Cmd("solve", "coord_EO_UD"), Cmd("solve", "coord_EO_FB"),
        Cmd("gendata", "coord_EO_UD")),
  Three(Cmd("gendata", "coord_DR_UD"), Cmd("solve", "coord_DR_UD"),
        Cmd("check", "coord_DR_UD")),
  Three([Cmd("solve", "coord_DR_UD") EXCEPT !.niss = "some"], Cmd("check", "h48k2"),
        Cmd("gendata", "h48h12k2")),
  Two(Cmd("gendata", "EO"), Cmd("solve", "EO")) }

(* A table that was cut short in tables/, or a whole one in the current      *)
(* directory, or none; tables/ is there, or only the current directory can   *)
(* be written, or none can.                                                  *)
MCDisks(cmd) ==
  LET solver == cmd["p"].solver
      table  == data[IF solver \in DOMAIN dataid THEN dataid[solver] ELSE "EO"]
      whole  == [i \in DOMAIN table |-> i]
  IN  {[writable |-> w,
        files |-> {<<>>, "tables/" :> <<1>>, "" :> whole}] :
          w \in {{"tables/", ""}, {""}, {}}}

=============================================================================
