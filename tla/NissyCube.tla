------------------------------ MODULE NissyCube ------------------------------
(* A client that calls the cube functions of the library (src/src/nissy.c)   *)
(* one after the other: inverse, applymoves, applytrans and getcube.  It     *)
(* passes the string of its cube and goes on with the result of every call   *)
(* that succeeds.                                                            *)
EXTENDS CubeIndex

CONSTANTS Strings,    \* the strings the client may begin with
          Requests(_), \* the calls it may make after so many others
          Memory,     \* what an uninitialised cube may hold
          MaxCalls    \* how many calls it makes

VARIABLES cube,       \* the client's string
          result,     \* the result buffer
          ret,        \* the last return value
          call,       \* the last call
          calls       \* how many were made

vars == <<cube, result, ret, call, calls>>

Init ==
    /\ cube \in Strings
    /\ result = cube
    /\ ret = "NISSY_OK"
    /\ call = [op |-> "none"]
    /\ calls = 0

(* write_result, and what the client makes of it.                            *)
WriteResult(res) ==
    /\ result' = WriteCube(res)
    /\ ret' = IF IsSolvable(res) THEN "NISSY_OK" ELSE "NISSY_WARNING_UNSOLVABLE"
    /\ cube' = result'

(* The error paths of inverse, applymoves and applytrans.                    *)
Fail(err) ==
    /\ result' = WriteCube(ZeroOriented)
    /\ ret' = err
    /\ cube' = cube

WriteIfConsistent(res, err) ==
    IF IsConsistent(res) THEN WriteResult(res) ELSE Fail(err)

(* nissy_inverse refuses only the zero cube before it computes the inverse;  *)
(* of a string with a piece twice the entry of the missing piece is whatever *)
(* the memory held.                                                          *)
InverseCall(r) ==
    LET c == ReadCube(cube) IN
    /\ r.op = "inverse"
    /\ IF c.corner = Zero.corner /\ c.edge = Zero.edge THEN Fail("NISSY_ERROR_INVALID_CUBE")
       ELSE \E ret0 \in Memory :
                WriteIfConsistent(Oriented(InverseInto(ret0, c), c.orientation),
                                  "NISSY_ERROR_UNKNOWN")

ApplyMovesCall(r) ==
    LET c == ReadCube(cube) IN
    /\ r.op = "applymoves"
    /\ IF ~IsConsistent(c) THEN Fail("NISSY_ERROR_INVALID_CUBE")
       ELSE WriteIfConsistent(ApplyMoves(c, r.moves), "NISSY_ERROR_INVALID_MOVES")

(* readtrans: the transformation of that name, or UINT8_ERROR, for which     *)
(* transform returns the zero cube.                                          *)
TransNamed(up, front, mirrored) ==
    LET found == {o \in 0..23 : Orientations[o + 1] = <<up, front>>} IN
    IF found = {} THEN UINT8_ERROR
    ELSE OrientationTrans[Max(found) + 1] + (IF mirrored THEN 24 ELSE 0)

ApplyTransCall(r) ==
    LET c == ReadCube(cube)
        t == TransNamed(r.up, r.front, r.mirrored)
    IN  /\ r.op = "applytrans"
        /\ IF ~IsConsistent(c) THEN Fail("NISSY_ERROR_INVALID_CUBE")
           ELSE WriteIfConsistent(IF t = UINT8_ERROR THEN Oriented(Zero, c.orientation)
                                  ELSE Oriented(Transform(c, t), c.orientation),
                                  "NISSY_ERROR_INVALID_TRANS")

(* nissy_getcube does not touch the buffer when it fails.  The orientation   *)
(* is stored in eight bits.                                                  *)
Fixed(a) == IF a.options = "fix" THEN GetCubeFix(a) ELSE a

GetCubeCall(r) ==
    /\ r.op = "getcube"
    /\ LET a   == Fixed(r)
           res == Oriented(GetCube(a.ep, a.eo, a.cp, a.co), a.orient % 256)
       IN  IF IsConsistent(res) THEN WriteResult(res)
           ELSE /\ ret' = "NISSY_ERROR_OPTIONS"
                /\ UNCHANGED <<cube, result>>

Next ==
    /\ calls < MaxCalls
    /\ calls' = calls + 1
    /\ \E r \in Requests(calls) :
        /\ call' = r
        /\ \/ InverseCall(r)
           \/ ApplyMovesCall(r)
           \/ ApplyTransCall(r)
           \/ GetCubeCall(r)

Spec == Init /\ [][Next]_vars
=============================================================================
