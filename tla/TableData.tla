-------------------------------- MODULE TableData --------------------------------
(***************************************************************************)
(* The data of a solver: one or more tables one after the other, each a    *)
(* header (tableinfo_t) and its data, the headers linked by 'next'         *)
(* (solvers/tables.h).  How gendata_h48 and gendata_coord lay them out,    *)
(* where the two solvers look for each table, and what nissy_checkdata     *)
(* accepts.  Memory is counted in blocks: a header is one block, the data  *)
(* of a table BodyLen blocks.  A block of data read as a header, or the    *)
(* other way round, is not told from zeros.                                *)
(***************************************************************************)
EXTENDS Integers, Sequences

CONSTANT BodyLen     \* the blocks of data of each table

Parts == {"cocsep", "h48h0k4", "h48k2", "eoesep", "helper", "pruning"}

ASSUME BodyLenAssumption == BodyLen \in [Parts -> Nat \ {0}]

INFOSIZE == 1
TABLETYPE_PRUNING == 0
TABLETYPE_SPECIAL == 1

(* A block.  'of' and 'at' say which block of which table it is; for a      *)
(* header, 'of' is also the table whose distribution it holds.              *)
Zero == [of |-> "none", at |-> 0, type |-> 0, h48h |-> 0, bits |-> 0, next |-> 0]
Junk == [Zero EXCEPT !.of = "not_written"]
Body(part, i) == [Zero EXCEPT !.of = part, !.at = i]

FullSize(part) == INFOSIZE + BodyLen[part]

(* The headers, as the generators first fill them in.                       *)
Info(part, h) ==
  [of |-> part, at |-> 0, next |-> IF part = "helper" THEN FullSize(part) ELSE 0,
   type |-> IF part \in {"cocsep", "eoesep", "helper"} THEN TABLETYPE_SPECIAL
            ELSE TABLETYPE_PRUNING,
   h48h |-> IF part = "h48k2" THEN h ELSE 0,
   bits |-> CASE part = "cocsep" -> 32 [] part = "h48k2" -> 2 [] part = "helper" -> 0
              [] OTHER -> 4]

Table(part, h) == <<Info(part, h)>> \o [i \in 1 .. BodyLen[part] |-> Body(part, i)]

(* Offsets start from 0.                                                    *)
Block(buf, off) == IF off < Len(buf) THEN buf[off + 1] ELSE Junk
Put(buf, off, blocks) ==
  SubSeq(buf, 1, off) \o blocks \o SubSeq(buf, off + Len(blocks) + 1, Len(buf))

(* readtableinfo_n: where the n-th header is, following 'next'; it fails    *)
(* when that is past the end.                                               *)
InfoOffset(buf, n) ==
  LET off[i \in 1 .. n] ==
        IF i = 1 THEN 0 ELSE LET before == off[i - 1] IN before + Block(buf, before).next
  IN  off[n]
readtableinfo_n(buf, n) == Block(buf, InfoOffset(buf, n))
InfoFails(buf, n) == InfoOffset(buf, n) + INFOSIZE > Len(buf)

(* Header n is read, its 'next' set, and written at off.                    *)
UpdateNext(buf, n, off, next) ==
  Put(buf, off, <<[readtableinfo_n(buf, n) EXCEPT !.next = next]>>)

gendata_h48_unlinked(h, k) ==  \* the next of the second header is not set
  LET main == IF k = 2 THEN "h48k2" ELSE "h48h0k4"
      all  == Table("cocsep", 0) \o Table(main, h)
              \o (IF k = 2 THEN Table("h48h0k4", 0) ELSE <<>>) \o Table("eoesep", 0)
  IN  UpdateNext(all, 1, 0, FullSize("cocsep"))

gendata_h48(h, k) ==
  LET main         == IF k = 2 THEN "h48k2" ELSE "h48h0k4"
      cocsepsize   == FullSize("cocsep")
      h48size      == FullSize(main)
      fallbacksize == IF k = 2 THEN FullSize("h48h0k4") ELSE 0
      size         == cocsepsize + h48size + fallbacksize + FullSize("eoesep")
      of           == cocsepsize + h48size
      generated    == Put(Put([i \in 1 .. size |-> Junk], 0, Table("cocsep", 0)),
                          cocsepsize, Table(main, h))
      linked       == UpdateNext(generated, 1, 0, cocsepsize)
      fallback     == IF k = 2 THEN Put(linked, of, Table("h48h0k4", 0)) ELSE linked
      eoesep       == Put(fallback, size - FullSize("eoesep"), Table("eoesep", 0))
      linked2      == UpdateNext(eoesep, 2, cocsepsize, h48size)
  IN  IF k = 2 THEN UpdateNext(linked2, 3, of, fallbacksize) ELSE linked2

(* A coordinate with symmetry has a helper table before the pruning table.  *)
gendata_coord(ninfo) ==
  LET helper == IF ninfo = 2 THEN Table("helper", 0) ELSE <<>>
  IN  helper \o Table("pruning", 0)

(* The solvers and their data; solvers may share it.                        *)
dataid == [h48h0k4 |-> "h48h0k4", h48h2k2 |-> "h48h2k2", coord_EO_UD |-> "EO",
           coord_EO_FB |-> "EO", coord_DR_UD |-> "DR"]
Unsupported == {"h48h12k2"}     \* parse_h48_solver returns 1, not an error
data == [h48h0k4 |-> gendata_h48(0, 4), h48h2k2 |-> gendata_h48(2, 2),
         EO |-> gendata_coord(1), DR |-> gendata_coord(2)]

-----------------------------------------------------------------------------
(* Where solve_h48 looks for its tables, or that it returns                 *)
(* NISSY_ERROR_DATA: the offset of each, in blocks.                         *)
Refused == [error |-> TRUE, offsets |-> <<>>]

H48Offsets(buf) ==
  LET info    == readtableinfo_n(buf, 2)
      fbinfo  == readtableinfo_n(buf, 3)
      two     == info.bits = 2
      n       == IF two THEN 4 ELSE 3
      fbinfo2 == readtableinfo_n(buf, n)
      h48data == FullSize("cocsep") + INFOSIZE
      offset  == info.next + IF two THEN fbinfo.next ELSE 0
  IN  IF \/ \E i \in {2, 3, n} : InfoFails(buf, i)
         \/ two /\ (fbinfo.h48h # 0 \/ fbinfo.bits # 4)
         \/ fbinfo2.bits # 4
         \/ fbinfo2.type # TABLETYPE_SPECIAL
      THEN Refused
      ELSE [error |-> FALSE,
            offsets |-> <<INFOSIZE, h48data>>
                        \o (IF two THEN <<h48data + info.next>> ELSE <<>>)
                        \o <<h48data + offset>>]

(* Where solve_coord looks: the helper table, if any, and the pruning one.  *)
CoordOffsets(buf) ==
  LET info == readtableinfo_n(buf, 1)
  IN  [error |-> FALSE,
       offsets |-> IF info.type = TABLETYPE_PRUNING THEN <<INFOSIZE>>
                   ELSE <<INFOSIZE, info.next + INFOSIZE>>]

IsH48(id) == id \in {"h48h0k4", "h48h2k2"}
Offsets(id, buf) == IF IsH48(id) THEN H48Offsets(buf) ELSE CoordOffsets(buf)

(* checkdata counts the entries of a table again; of two kinds of table it  *)
(* reads the header only, and it does not know a header of zeros.           *)
checkdata(buf, off) ==
  LET info == Block(buf, off)
  IN  /\ info.of \in Parts /\ info.at = 0
      /\ info.of \notin {"eoesep", "helper"} =>
            \A i \in 1 .. BodyLen[info.of] : Block(buf, off + i) = Body(info.of, i)

nissy_checkdata_first(buf) == checkdata(buf, 0)

nissy_checkdata(buf) ==
  LET valid[off \in 0 .. Len(buf)] ==
        /\ off < Len(buf)
        /\ checkdata(buf, off)
        /\ Block(buf, off).next # 0 => valid[off + Block(buf, off).next]
  IN  valid[0]
=============================================================================
