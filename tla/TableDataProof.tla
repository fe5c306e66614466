---------------------------- MODULE TableDataProof ----------------------------
(***************************************************************************)
(* Proofs about TableData, for tables of any size: where the generators    *)
(* leave each header and each block, where the solvers look for them, and  *)
(* what nissy_checkdata makes of data with blocks that were never written. *)
(***************************************************************************)
EXTENDS TableData, SequenceTheorems, TLAPS

BlockType == [of : Parts \cup {"none", "not_written"}, at : Nat, type : Nat, h48h : Nat,
              bits : Nat, next : Nat]

(* The blocks of a table are in the data at an offset.                     *)
Holds(buf, off, blocks) ==
  off + Len(blocks) <= Len(buf) /\ \A i \in 1 .. Len(blocks) : buf[off + i] = blocks[i]

(* What a concatenation is made of.                                        *)
LEMMA ConcatFacts ==
  ASSUME NEW S, NEW a \in Seq(S), NEW b \in Seq(S)
  PROVE  /\ a \o b \in Seq(S) /\ Len(a \o b) = Len(a) + Len(b)
         /\ \A i \in 1 .. Len(a) : (a \o b)[i] = a[i]
         /\ \A i \in 1 .. Len(b) : (a \o b)[Len(a) + i] = b[i]
<1>1. Len(a) \in Nat /\ Len(b) \in Nat
  OBVIOUS
<1>2. \A i \in 1 .. Len(a) : (a \o b)[i] = a[i]
  OBVIOUS
<1>3. ASSUME NEW i \in 1 .. Len(b) PROVE (a \o b)[Len(a) + i] = b[i]
  OBVIOUS
<1> QED BY <1>2, <1>3

(* What is put replaces what was there, and nothing else.                  *)
LEMMA PutFacts ==
  ASSUME NEW S, NEW buf \in Seq(S), NEW off \in Nat, NEW blocks \in Seq(S),
         off + Len(blocks) <= Len(buf)
  PROVE  /\ Put(buf, off, blocks) \in Seq(S)
         /\ Len(Put(buf, off, blocks)) = Len(buf)
         /\ \A i \in 1 .. Len(blocks) : Put(buf, off, blocks)[off + i] = blocks[i]
         /\ \A i \in 1 .. Len(buf) :
              i <= off \/ i > off + Len(blocks) => Put(buf, off, blocks)[i] = buf[i]
<1> DEFINE before == SubSeq(buf, 1, off)
           after == SubSeq(buf, off + Len(blocks) + 1, Len(buf))
           left == before \o blocks
<1>1. /\ before \in Seq(S) /\ Len(before) = off
      /\ \A i \in 1 .. off : before[i] = buf[i]
  OBVIOUS
<1>2. /\ after \in Seq(S) /\ Len(after) = Len(buf) - off - Len(blocks)
      /\ \A i \in 1 .. Len(after) : after[i] = buf[off + Len(blocks) + i]
  OBVIOUS
<1>3. Put(buf, off, blocks) = left \o after
  BY DEF Put
<1> HIDE DEF before, after
<1>4. /\ left \in Seq(S) /\ Len(left) = off + Len(blocks)
      /\ \A i \in 1 .. off : left[i] = buf[i]
      /\ \A i \in 1 .. Len(blocks) : left[off + i] = blocks[i]
  <2>1. before \in Seq(S) /\ blocks \in Seq(S)
    BY <1>1
  <2>2. /\ left \in Seq(S) /\ Len(left) = Len(before) + Len(blocks)
        /\ \A i \in 1 .. Len(before) : left[i] = before[i]
        /\ \A i \in 1 .. Len(blocks) : left[Len(before) + i] = blocks[i]
    BY <2>1, ConcatFacts
  <2> HIDE DEF left
  <2> QED BY <1>1, <2>2
<1> HIDE DEF left
<1>5. /\ left \o after \in Seq(S) /\ Len(left \o after) = Len(buf)
      /\ \A i \in 1 .. off + Len(blocks) : (left \o after)[i] = left[i]
      /\ \A i \in 1 .. Len(after) :
           (left \o after)[off + Len(blocks) + i] = after[i]
  BY <1>2, <1>4, ConcatFacts
<1>6. ASSUME NEW i \in off + Len(blocks) + 1 .. Len(buf)
      PROVE  (left \o after)[i] = buf[i]
  <2> DEFINE j == i - off - Len(blocks)
  <2>1. j \in 1 .. Len(after) /\ i = off + Len(blocks) + j
    BY <1>2
  <2> QED BY <1>2, <1>5, <2>1
<1>7. \A i \in 1 .. Len(blocks) : off + i \in 1 .. off + Len(blocks)
  OBVIOUS
<1>8. ASSUME NEW i \in 1 .. Len(buf), i <= off \/ i > off + Len(blocks)
      PROVE  (left \o after)[i] = buf[i]
  <2>1. i \in 1 .. off \/ i \in off + Len(blocks) + 1 .. Len(buf)
    BY <1>8
  <2>2. i \in 1 .. off => i \in 1 .. off + Len(blocks)
    OBVIOUS
  <2> QED BY <1>4, <1>5, <1>6, <2>1, <2>2
<1> QED BY <1>3, <1>4, <1>5, <1>7, <1>8

IsPut(S, buf, off, blocks, new) ==
  /\ new \in Seq(S) /\ Len(new) = Len(buf)
  /\ \A i \in 1 .. Len(blocks) : new[off + i] = blocks[i]
  /\ \A i \in 1 .. Len(buf) : i <= off \/ i > off + Len(blocks) => new[i] = buf[i]

(* What PutFacts says, in one word.                                        *)
LEMMA PutIsPut ==
  \A S : \A buf \in Seq(S), blocks \in Seq(S) : \A off \in Nat :
    off + Len(blocks) <= Len(buf) => IsPut(S, buf, off, blocks, Put(buf, off, blocks))
BY PutFacts DEF IsPut

(* A table: its header, with some 'next', and its blocks of data.          *)
LEMMA TableFacts ==
  ASSUME NEW part \in Parts, NEW h \in Nat
  PROVE  /\ BodyLen[part] \in Nat \ {0} /\ FullSize(part) \in Nat
         /\ FullSize(part) = 1 + BodyLen[part]
         /\ Table(part, h) \in Seq(BlockType) /\ Len(Table(part, h)) = FullSize(part)
         /\ Table(part, h)[1] = Info(part, h)
         /\ \A i \in 1 .. BodyLen[part] : Table(part, h)[i + 1] = Body(part, i)
<1>1. BodyLen[part] \in Nat \ {0} /\ FullSize(part) \in Nat
      /\ FullSize(part) = 1 + BodyLen[part]
  BY BodyLenAssumption DEF FullSize, INFOSIZE
<1>2. Info(part, h) \in BlockType
  <2>1. part \in Parts \cup {"none", "not_written"} /\ 0 \in Nat
    OBVIOUS
  <2>2. (IF part = "helper" THEN FullSize(part) ELSE 0) \in Nat
    BY <1>1
  <2>3. (IF part \in {"cocsep", "eoesep", "helper"} THEN TABLETYPE_SPECIAL
         ELSE TABLETYPE_PRUNING) \in Nat
    BY DEF TABLETYPE_SPECIAL, TABLETYPE_PRUNING
  <2>4. (CASE part = "cocsep" -> 32 [] part = "h48k2" -> 2 [] part = "helper" -> 0
           [] OTHER -> 4) \in Nat
    BY DEF Parts
  <2> QED BY <2>1, <2>2, <2>3, <2>4 DEF Info, BlockType
<1>3. \A i \in 1 .. BodyLen[part] : Body(part, i) \in BlockType
  <2> SUFFICES ASSUME NEW i \in 1 .. BodyLen[part] PROVE Body(part, i) \in BlockType
    OBVIOUS
  <2>1. i \in Nat /\ 0 \in Nat /\ part \in Parts \cup {"none", "not_written"}
    BY <1>1
  <2>2. Zero \in BlockType
    BY DEF Zero, BlockType
  <2>3. Body(part, i) = [Zero EXCEPT !.of = part, !.at = i]
    BY DEF Body
  <2> QED BY <2>1, <2>2, <2>3 DEF BlockType
<1> DEFINE head == <<Info(part, h)>>
           body == [i \in 1 .. BodyLen[part] |-> Body(part, i)]
<1>4. head \in Seq(BlockType) /\ Len(head) = 1 /\ head[1] = Info(part, h)
  BY <1>2
<1>5. body \in Seq(BlockType) /\ Len(body) = BodyLen[part]
      /\ \A i \in 1 .. BodyLen[part] : body[i] = Body(part, i)
  <2> DEFINE n == BodyLen[part]
  <2>1. n \in Nat
    BY <1>1
  <2>2. body \in [1 .. n -> BlockType]
    BY <1>3
  <2> HIDE DEF body
  <2>3. body \in Seq(BlockType) /\ Len(body) = n
    BY <2>1, <2>2
  <2> QED BY <2>3 DEF body
<1>6. Table(part, h) = head \o body
  BY DEF Table
<1> HIDE DEF head, body
<1>7. /\ head \o body \in Seq(BlockType) /\ Len(head \o body) = Len(head) + Len(body)
      /\ \A i \in 1 .. Len(head) : (head \o body)[i] = head[i]
      /\ \A i \in 1 .. Len(body) : (head \o body)[Len(head) + i] = body[i]
  <2>1. head \in Seq(BlockType) /\ body \in Seq(BlockType)
    BY <1>4, <1>5
  <2> QED BY <2>1, ConcatFacts
<1>8. ASSUME NEW i \in 1 .. BodyLen[part] PROVE Table(part, h)[i + 1] = Body(part, i)
  <2>1. (head \o body)[1 + i] = body[i] /\ 1 + i = i + 1
    BY <1>1, <1>4, <1>5, <1>7
  <2> QED BY <1>5, <1>6, <2>1
<1> QED BY <1>1, <1>4, <1>5, <1>6, <1>7, <1>8

(* readtableinfo_n follows 'next' from the first header.                   *)
LEMMA InfoOffsets ==
  ASSUME NEW buf
  PROVE  /\ InfoOffset(buf, 1) = 0
         /\ InfoOffset(buf, 2) = 0 + Block(buf, 0).next
         /\ InfoOffset(buf, 3) = InfoOffset(buf, 2) + Block(buf, InfoOffset(buf, 2)).next
         /\ InfoOffset(buf, 4) = InfoOffset(buf, 3) + Block(buf, InfoOffset(buf, 3)).next
<1> DEFINE o2 == 0 + Block(buf, 0).next
           o3 == o2 + Block(buf, o2).next
           o4 == o3 + Block(buf, o3).next
           o(i) == IF i = 1 THEN 0 ELSE IF i = 2 THEN o2 ELSE IF i = 3 THEN o3 ELSE o4
           Step(off, i) == IF i = 1 THEN 0 ELSE off[i - 1] + Block(buf, off[i - 1]).next
           IsOff(off, n) == off = [i \in 1 .. n |-> Step(off, i)]
<1>1. ASSUME NEW n \in 1 .. 4 PROVE InfoOffset(buf, n) = o(n)
  <2>1. InfoOffset(buf, n) = (CHOOSE off : IsOff(off, n))[n]
    BY DEF InfoOffset
  <2> DEFINE w == [i \in 1 .. n |-> o(i)]
  <2>2. ASSUME NEW i \in 1 .. n PROVE o(i) = Step(w, i)
    <3>1. i = 1 \/ (i - 1 \in 1 .. n /\ i \in {2, 3, 4})
      OBVIOUS
    <3>2. i # 1 => w[i - 1] = o(i - 1)
      BY <3>1
    <3> QED BY <3>1, <3>2
  <2>3. IsOff(w, n)
    BY <2>2
  <2>4. IsOff(CHOOSE off : IsOff(off, n), n)
    BY <2>3
  <2> DEFINE off == CHOOSE off : IsOff(off, n)
  <2> HIDE DEF off
  <2>5. \A i \in 1 .. n : off[i] = Step(off, i)
    BY <2>4 DEF off
  <2>6. off[1] = 0 /\ \A i \in 2 .. n : i - 1 \in 1 .. n
    BY <2>5
  <2>7. n >= 2 => off[2] = o2
    BY <2>5, <2>6
  <2>8. n >= 3 => off[3] = o3
    BY <2>5, <2>7
  <2>9. n >= 4 => off[4] = o4
    BY <2>5, <2>8
  <2> QED BY <2>1, <2>6, <2>7, <2>8, <2>9 DEF off
<1> QED BY <1>1

-----------------------------------------------------------------------------
Header(part, h, next) == [Info(part, h) EXCEPT !.next = next]

(* The data hold a table at an offset: its header, linked, and its blocks. *)
TableAt(buf, off, part, h, next) ==
  /\ off + FullSize(part) <= Len(buf)
  /\ buf[off + 1] = Header(part, h, next)
  /\ \A i \in 1 .. BodyLen[part] : buf[off + 1 + i] = Body(part, i)

(* A header is a block, whatever its link.                                 *)
LEMMA InfoIsABlock ==
  ASSUME NEW part \in Parts, NEW h \in Nat
  PROVE  Info(part, h) \in BlockType
<1>1. Table(part, h)[1] = Info(part, h) /\ Table(part, h) \in Seq(BlockType)
      /\ Len(Table(part, h)) \in Nat \ {0}
  BY TableFacts
<1> QED BY <1>1

(* What a header says.                                                     *)
LEMMA HeaderFields ==
  ASSUME NEW part \in Parts, NEW h \in Nat, NEW next \in Nat
  PROVE  /\ Header(part, h, next) \in BlockType
         /\ Header(part, h, next).of = part /\ Header(part, h, next).at = 0
         /\ Header(part, h, next).next = next
         /\ Header(part, h, next).type = Info(part, h).type
         /\ Header(part, h, next).bits = Info(part, h).bits
         /\ Header(part, h, next).h48h = Info(part, h).h48h
         /\ part # "helper" => Info(part, h) = Header(part, h, 0)
         /\ Info("helper", 0) = Header("helper", 0, FullSize("helper"))
<1>1. Info(part, h) \in BlockType
  BY InfoIsABlock
<1>2. Header(part, h, next) \in BlockType
  BY <1>1 DEF Header, BlockType
<1>3. /\ Info(part, h).of = part /\ Info(part, h).at = 0
      /\ Info(part, h).next = IF part = "helper" THEN FullSize(part) ELSE 0
  BY DEF Info
<1>4. /\ Header(part, h, next).of = part /\ Header(part, h, next).at = 0
      /\ Header(part, h, next).next = next
      /\ Header(part, h, next).type = Info(part, h).type
      /\ Header(part, h, next).bits = Info(part, h).bits
      /\ Header(part, h, next).h48h = Info(part, h).h48h
  BY <1>1, <1>3 DEF Header, BlockType
<1>5. part # "helper" => Info(part, h) = Header(part, h, 0)
  BY <1>1, <1>3 DEF Header, BlockType
<1>6. Info("helper", 0) = Header("helper", 0, FullSize("helper"))
  BY DEF Header, Info
<1> QED BY <1>2, <1>4, <1>5, <1>6

(* A table is where it was after a change elsewhere.                       *)
LEMMA TableStays ==
  ASSUME NEW buf \in Seq(BlockType), NEW new \in Seq(BlockType), Len(new) = Len(buf),
         NEW off \in Nat, NEW len \in Nat,
         \A i \in 1 .. Len(buf) : i <= off \/ i > off + len => new[i] = buf[i],
         NEW o \in Nat, NEW q \in Parts, NEW g, NEW next,
         TableAt(buf, o, q, g, next), o + FullSize(q) <= off \/ off + len <= o
  PROVE  TableAt(new, o, q, g, next)
<1>1. BodyLen[q] \in Nat /\ FullSize(q) = 1 + BodyLen[q]
  BY 0 \in Nat, TableFacts
<1>2. ASSUME NEW i \in 0 .. BodyLen[q] PROVE new[o + 1 + i] = buf[o + 1 + i]
  <2>1. i \in Nat /\ i <= BodyLen[q] /\ Len(buf) \in Nat /\ o + FullSize(q) <= Len(buf)
    BY <1>1 DEF TableAt
  <2>2. o + 1 + i \in 1 .. Len(buf)
    BY <1>1, <2>1
  <2>3. o + 1 + i <= off \/ o + 1 + i > off + len
    <3>1. CASE o + FullSize(q) <= off
      BY <1>1, <2>1, <3>1
    <3>2. CASE off + len <= o
      BY <2>1, <3>2
    <3> QED BY <3>1, <3>2
  <2> QED BY <2>2, <2>3
<1>3. new[o + 1] = buf[o + 1]
  <2>1. 0 \in 0 .. BodyLen[q] /\ o + 1 + 0 = o + 1
    BY <1>1
  <2> QED BY <1>2, <2>1
<1>4. \A i \in 1 .. BodyLen[q] : new[o + 1 + i] = buf[o + 1 + i]
  <2>1. \A i \in 1 .. BodyLen[q] : i \in 0 .. BodyLen[q]
    OBVIOUS
  <2> QED BY <1>2, <2>1
<1> QED BY <1>3, <1>4 DEF TableAt

(* A table is put in its place.                                            *)
LEMMA TablePut ==
  ASSUME NEW buf \in Seq(BlockType), NEW off \in Nat, NEW part \in Parts \ {"helper"},
         NEW h \in Nat, off + FullSize(part) <= Len(buf),
         NEW new, new = Put(buf, off, Table(part, h))
  PROVE  /\ new \in Seq(BlockType) /\ Len(new) = Len(buf)
         /\ TableAt(new, off, part, h, 0)
         /\ \A i \in 1 .. Len(buf) : i <= off \/ i > off + FullSize(part) => new[i] = buf[i]
<1>1. /\ BodyLen[part] \in Nat \ {0} /\ FullSize(part) = 1 + BodyLen[part]
      /\ Table(part, h) \in Seq(BlockType) /\ Len(Table(part, h)) = FullSize(part)
      /\ Table(part, h)[1] = Info(part, h)
      /\ \A i \in 1 .. BodyLen[part] : Table(part, h)[i + 1] = Body(part, i)
  BY TableFacts
<1>2. Table(part, h) \in Seq(BlockType) /\ off + Len(Table(part, h)) <= Len(buf)
  BY <1>1
<1>3. /\ new \in Seq(BlockType) /\ Len(new) = Len(buf)
      /\ \A i \in 1 .. FullSize(part) : new[off + i] = Table(part, h)[i]
      /\ \A i \in 1 .. Len(buf) : i <= off \/ i > off + FullSize(part) => new[i] = buf[i]
  <2>1. IsPut(BlockType, buf, off, Table(part, h), new)
    BY <1>2, PutIsPut, Zenon
  <2> QED BY <1>1, <2>1 DEF IsPut
<1>4. new[off + 1] = Header(part, h, 0)
  <2>1. 1 \in 1 .. FullSize(part) /\ Header(part, h, 0) = Info(part, h)
    BY <1>1, 0 \in Nat, HeaderFields
  <2> QED BY <1>1, <1>3, <2>1
<1>5. ASSUME NEW i \in 1 .. BodyLen[part] PROVE new[off + 1 + i] = Body(part, i)
  <2>1. i + 1 \in 1 .. FullSize(part) /\ off + 1 + i = off + (i + 1)
    BY <1>1
  <2> QED BY <1>1, <1>3, <2>1
<1>6. TableAt(new, off, part, h, 0)
  BY <1>3, <1>4, <1>5 DEF TableAt
<1> QED BY <1>3, <1>6

(* A header is linked to the next.                                         *)
LEMMA NextUpdated ==
  ASSUME NEW buf \in Seq(BlockType), NEW off \in Nat, NEW part \in Parts, NEW h \in Nat,
         NEW old \in Nat, NEW next \in Nat, NEW n, TableAt(buf, off, part, h, old),
         InfoOffset(buf, n) = off,
         NEW new, new = UpdateNext(buf, n, off, next)
  PROVE  /\ new \in Seq(BlockType) /\ Len(new) = Len(buf)
         /\ TableAt(new, off, part, h, next)
         /\ \A i \in 1 .. Len(buf) : i <= off \/ i > off + FullSize(part) => new[i] = buf[i]
<1> DEFINE hdr == <<Header(part, h, next)>>
<1>1. BodyLen[part] \in Nat /\ FullSize(part) = 1 + BodyLen[part] /\ off + 1 <= Len(buf)
      /\ off + 1 + BodyLen[part] <= Len(buf)
  <2>1. BodyLen[part] \in Nat /\ FullSize(part) = 1 + BodyLen[part]
    BY TableFacts
  <2> QED BY <2>1 DEF TableAt
<1>2. readtableinfo_n(buf, n) = Header(part, h, old)
  BY <1>1 DEF readtableinfo_n, Block, TableAt
<1>3. new = Put(buf, off, hdr)
  <2>1. [Header(part, h, old) EXCEPT !.next = next] = Header(part, h, next)
    <3>1. Info(part, h) \in BlockType
      BY InfoIsABlock
    <3> QED BY <3>1 DEF Header, BlockType
  <2> QED BY <1>2, <2>1 DEF UpdateNext
<1>4. hdr \in Seq(BlockType) /\ Len(hdr) = 1 /\ hdr[1] = Header(part, h, next)
  BY HeaderFields
<1> HIDE DEF hdr
<1>5. /\ new \in Seq(BlockType) /\ Len(new) = Len(buf)
      /\ new[off + 1] = Header(part, h, next)
      /\ \A i \in 1 .. Len(buf) : i # off + 1 => new[i] = buf[i]
  <2>1. hdr \in Seq(BlockType) /\ off + Len(hdr) <= Len(buf)
    BY <1>1, <1>4
  <2>2. IsPut(BlockType, buf, off, hdr, new)
    BY <1>3, <2>1, PutIsPut, Zenon
  <2> QED BY <1>4, <2>2 DEF IsPut
<1>6. TableAt(new, off, part, h, next)
  <2>1. ASSUME NEW i \in 1 .. BodyLen[part]
        PROVE  off + 1 + i \in 1 .. Len(buf) /\ off + 1 + i # off + 1
    BY <1>1
  <2> QED BY <1>5, <2>1 DEF TableAt
<1>7. ASSUME NEW i \in 1 .. Len(buf), i <= off \/ i > off + FullSize(part)
      PROVE  new[i] = buf[i]
  <2>1. i # off + 1
    BY <1>1, <1>7
  <2> QED BY <1>5, <2>1
<1> QED BY <1>5, <1>6, <1>7

(* A table is where something was put, and the rest is as it was.          *)
Changed(buf, new, off, part, h, next) ==
  /\ new \in Seq(BlockType) /\ Len(new) = Len(buf) /\ TableAt(new, off, part, h, next)
  /\ \A i \in 1 .. Len(buf) : i <= off \/ i > off + FullSize(part) => new[i] = buf[i]

(* What NextUpdated says, in one word.                                     *)
LEMMA NextChanged ==
  \A buf \in Seq(BlockType), off \in Nat, part \in Parts, h \in Nat, old \in Nat,
     next \in Nat : \A n :
       TableAt(buf, off, part, h, old) /\ InfoOffset(buf, n) = off =>
         Changed(buf, UpdateNext(buf, n, off, next), off, part, h, next)
  BY NextUpdated DEF Changed

(* A table whose link was set is at its place, with that link.             *)
LEMMA TableChanged ==
  \A buf \in Seq(BlockType), off \in Nat, part \in Parts \ {"helper"}, h \in Nat :
    off + FullSize(part) <= Len(buf) =>
      Changed(buf, Put(buf, off, Table(part, h)), off, part, h, 0)
BY TablePut DEF Changed

(* The header that readtableinfo reads.                                    *)
LEMMA BlockAtHeader ==
  ASSUME NEW buf \in Seq(BlockType), NEW off \in Nat, NEW part \in Parts, NEW h \in Nat,
         NEW next \in Nat, TableAt(buf, off, part, h, next)
  PROVE  /\ off < Len(buf) /\ Block(buf, off) = Header(part, h, next)
         /\ Block(buf, off).next = next
<1>1. BodyLen[part] \in Nat /\ FullSize(part) = 1 + BodyLen[part]
  BY TableFacts
<1>2. off < Len(buf) /\ Block(buf, off) = Header(part, h, next)
  BY <1>1 DEF TableAt, Block
<1> QED BY <1>2, HeaderFields

(* The first two tables, linked, in memory that is not set.                *)
FirstTwo(main, h, size) ==
  LET c == FullSize("cocsep")
      b == Put([i \in 1 .. size |-> Junk], 0, Table("cocsep", 0))
  IN  UpdateNext(Put(b, c, Table(main, h)), 1, 0, c)

(* Two tables are where they were put, the first linked to the second.     *)
LEMMA FirstTwoTables ==
  ASSUME NEW h \in Nat, NEW main \in Parts \ {"helper"}, NEW c, c = FullSize("cocsep"),
         NEW size \in Nat, c + FullSize(main) <= size,
         NEW new, new = FirstTwo(main, h, size)
  PROVE  /\ new \in Seq(BlockType) /\ Len(new) = size
         /\ TableAt(new, 0, "cocsep", 0, c) /\ TableAt(new, c, main, h, 0)
<1>1. "cocsep" \in Parts /\ main \in Parts /\ 0 \in Nat
  BY DEF Parts
<1>2. c \in Nat /\ FullSize(main) \in Nat
  BY <1>1, TableFacts
<1>3. "cocsep" \in Parts \ {"helper"} /\ main \in Parts \ {"helper"} /\ 0 \in Nat
  BY <1>1
<1> DEFINE b0 == [i \in 1 .. size |-> Junk]
           b1 == Put(b0, 0, Table("cocsep", 0))
           b2 == Put(b1, c, Table(main, h))
           b3 == UpdateNext(b2, 1, 0, c)
           Same(a, b, off, part) ==
             \A i \in 1 .. Len(a) : i <= off \/ i > off + FullSize(part) => b[i] = a[i]
<1>4. /\ 0 + FullSize("cocsep") <= size /\ 0 + FullSize("cocsep") <= c
      /\ FullSize("cocsep") \in Nat
  BY <1>2
<1>5. b0 \in Seq(BlockType) /\ Len(b0) = size
  <2>1. Junk \in BlockType
    <3>1. Zero \in BlockType
      BY DEF Zero, BlockType
    <3> QED BY <3>1 DEF Junk, BlockType
  <2>2. b0 \in [1 .. size -> BlockType]
    BY <2>1
  <2> HIDE DEF b0
  <2> QED BY <2>2
<1> HIDE DEF b0
<1>6. b1 \in Seq(BlockType) /\ Len(b1) = size /\ TableAt(b1, 0, "cocsep", 0, 0)
  <2>1. 0 + FullSize("cocsep") <= Len(b0)
    BY <1>4, <1>5
  <2> QED BY <1>3, <1>5, <2>1, TablePut
<1> HIDE DEF b1
<1>7. /\ b2 \in Seq(BlockType) /\ Len(b2) = size
      /\ TableAt(b2, 0, "cocsep", 0, 0) /\ TableAt(b2, c, main, h, 0)
  <2>1. c + FullSize(main) <= Len(b1)
    BY <1>4, <1>6
  <2>2. /\ b2 \in Seq(BlockType) /\ Len(b2) = Len(b1) /\ TableAt(b2, c, main, h, 0)
        /\ Same(b1, b2, c, main)
    <3>1. b1 \in Seq(BlockType) /\ main \in Parts \ {"helper"} /\ c \in Nat
      BY <1>2, <1>3, <1>6
    <3>2. Changed(b1, b2, c, main, h, 0)
      BY <2>1, <3>1, TableChanged, Zenon
    <3> QED BY <3>2, Zenon DEF Changed
  <2> HIDE DEF b2
  <2>3. TableAt(b2, 0, "cocsep", 0, 0)
    BY <1>1, <1>2, <1>4, <1>6, <2>2, TableStays
  <2> QED BY <1>6, <2>2, <2>3
<1> HIDE DEF b2
<1>8. /\ b3 \in Seq(BlockType) /\ Len(b3) = size
      /\ TableAt(b3, 0, "cocsep", 0, c) /\ TableAt(b3, c, main, h, 0)
  <2>1. InfoOffset(b2, 1) = 0
    BY InfoOffsets
  <2>2. /\ b3 \in Seq(BlockType) /\ Len(b3) = Len(b2) /\ TableAt(b3, 0, "cocsep", 0, c)
        /\ Same(b2, b3, 0, "cocsep")
    <3>1. b2 \in Seq(BlockType) /\ TableAt(b2, 0, "cocsep", 0, 0)
      BY <1>7
    <3>2. Changed(b2, b3, 0, "cocsep", 0, c)
      BY <1>1, <1>2, <2>1, <3>1, NextChanged, Zenon
    <3> QED BY <3>2, Zenon DEF Changed
  <2> HIDE DEF b3
  <2>3. TableAt(b3, c, main, h, 0)
    BY <1>1, <1>2, <1>4, <1>7, <2>2, TableStays
  <2> QED BY <1>7, <2>2, <2>3
<1> HIDE DEF b3
<1>9. new = b3
  BY DEF FirstTwo, b0, b1, b2, b3
<1> QED BY <1>8, <1>9

(* The second header is linked to the last table.                          *)
LEMMA SecondLinked ==
  ASSUME NEW buf \in Seq(BlockType), NEW main \in Parts \ {"helper"}, NEW h \in Nat,
         NEW c \in Nat, c = FullSize("cocsep"),
         NEW next \in Nat, TableAt(buf, 0, "cocsep", 0, c), TableAt(buf, c, main, h, 0),
         NEW new, new = UpdateNext(buf, 2, c, next)
  PROVE  /\ new \in Seq(BlockType) /\ Len(new) = Len(buf)
         /\ TableAt(new, 0, "cocsep", 0, c) /\ TableAt(new, c, main, h, next)
         /\ \A o \in Nat, q \in Parts :
              TableAt(buf, o, q, 0, 0) /\ c + FullSize(main) <= o => TableAt(new, o, q, 0, 0)
<1>1. "cocsep" \in Parts /\ main \in Parts /\ 0 \in Nat /\ FullSize(main) \in Nat
  <2>1. "cocsep" \in Parts /\ main \in Parts /\ 0 \in Nat
    BY DEF Parts
  <2> QED BY <2>1, TableFacts
<1>2. Block(buf, 0).next = c
  BY <1>1, BlockAtHeader
<1>3. InfoOffset(buf, 2) = c
  BY <1>2, InfoOffsets
<1>4. /\ new \in Seq(BlockType) /\ Len(new) = Len(buf) /\ TableAt(new, c, main, h, next)
      /\ \A i \in 1 .. Len(buf) : i <= c \/ i > c + FullSize(main) => new[i] = buf[i]
  <2>1. main \in Parts /\ 0 \in Nat
    BY <1>1
  <2>2. Changed(buf, new, c, main, h, next)
    BY <1>3, <2>1, NextChanged, Zenon
  <2> QED BY <2>2, Zenon DEF Changed
<1>5. TableAt(new, 0, "cocsep", 0, c)
  <2>1. 0 + FullSize("cocsep") <= c
    OBVIOUS
  <2> QED BY <1>1, <1>4, <2>1, TableStays
<1>6. ASSUME NEW o \in Nat, NEW q \in Parts, TableAt(buf, o, q, 0, 0), c + FullSize(main) <= o
      PROVE  TableAt(new, o, q, 0, 0)
  BY <1>1, <1>4, <1>6, TableStays
<1> QED BY <1>4, <1>5, <1>6

(* A table is put after the first two.                                     *)
LEMMA TableAdded ==
  ASSUME NEW buf \in Seq(BlockType), NEW main \in Parts \ {"helper"}, NEW h \in Nat,
         NEW c \in Nat, c = FullSize("cocsep"),
         TableAt(buf, 0, "cocsep", 0, c), TableAt(buf, c, main, h, 0),
         NEW off \in Nat, NEW part \in Parts \ {"helper"}, c + FullSize(main) <= off,
         off + FullSize(part) <= Len(buf),
         NEW new, new = Put(buf, off, Table(part, 0))
  PROVE  /\ new \in Seq(BlockType) /\ Len(new) = Len(buf)
         /\ TableAt(new, 0, "cocsep", 0, c) /\ TableAt(new, c, main, h, 0)
         /\ TableAt(new, off, part, 0, 0)
         /\ \A o \in Nat, q \in Parts :
              TableAt(buf, o, q, 0, 0) /\ o + FullSize(q) <= off => TableAt(new, o, q, 0, 0)
<1>1. /\ "cocsep" \in Parts /\ main \in Parts /\ 0 \in Nat /\ FullSize(main) \in Nat
      /\ FullSize(part) \in Nat
  <2>1. "cocsep" \in Parts /\ main \in Parts /\ part \in Parts /\ 0 \in Nat
    BY DEF Parts
  <2> QED BY <2>1, TableFacts
<1>2. /\ new \in Seq(BlockType) /\ Len(new) = Len(buf) /\ TableAt(new, off, part, 0, 0)
      /\ \A i \in 1 .. Len(buf) : i <= off \/ i > off + FullSize(part) => new[i] = buf[i]
  BY <1>1, TablePut
<1>3. 0 + FullSize("cocsep") <= off
  BY <1>1
<1>4. TableAt(new, 0, "cocsep", 0, c) /\ TableAt(new, c, main, h, 0)
  BY <1>1, <1>2, <1>3, TableStays
<1>5. ASSUME NEW o \in Nat, NEW q \in Parts, TableAt(buf, o, q, 0, 0), o + FullSize(q) <= off
      PROVE  TableAt(new, o, q, 0, 0)
  BY <1>1, <1>2, <1>5, TableStays
<1> QED BY <1>2, <1>4, <1>5

(* The places of two tables do not overlap.                                *)
Apart(o, q, off, part) == o + FullSize(q) <= off \/ off + FullSize(part) <= o

Kept(buf, new, off, part) ==
  \A o \in Nat, q \in Parts : \A g, n :
    TableAt(buf, o, q, g, n) /\ Apart(o, q, off, part) => TableAt(new, o, q, g, n)

(* A table apart from the one that was put stays at its place.             *)
LEMMA RestStays ==
  \A buf \in Seq(BlockType), off \in Nat, part \in Parts : \A new, h, next :
    Changed(buf, new, off, part, h, next) => Kept(buf, new, off, part)
<1> SUFFICES ASSUME NEW buf \in Seq(BlockType), NEW new, NEW off \in Nat, NEW part \in Parts,
                    NEW h, NEW next, Changed(buf, new, off, part, h, next),
                    NEW o \in Nat, NEW q \in Parts, NEW g, NEW n,
                    TableAt(buf, o, q, g, n), Apart(o, q, off, part)
             PROVE  TableAt(new, o, q, g, n)
  BY DEF Kept
<1>1. FullSize(part) \in Nat
  BY 0 \in Nat, TableFacts
<1> QED BY <1>1, TableStays DEF Changed, Apart

(* The third header is linked to the fourth.                               *)
LEMMA ThirdLinked ==
  ASSUME NEW buf \in Seq(BlockType), NEW main \in Parts \ {"helper"}, NEW h \in Nat,
         NEW c \in Nat, c = FullSize("cocsep"), NEW m \in Nat,
         NEW off \in Nat, off = c + m, c + FullSize(main) <= off,
         NEW last \in Nat, off + FullSize("h48h0k4") <= last, NEW next \in Nat,
         TableAt(buf, 0, "cocsep", 0, c), TableAt(buf, c, main, h, m),
         TableAt(buf, off, "h48h0k4", 0, 0), TableAt(buf, last, "eoesep", 0, 0),
         NEW new, new = UpdateNext(buf, 3, off, next)
  PROVE  /\ new \in Seq(BlockType) /\ Len(new) = Len(buf)
         /\ TableAt(new, 0, "cocsep", 0, c) /\ TableAt(new, c, main, h, m)
         /\ TableAt(new, off, "h48h0k4", 0, next) /\ TableAt(new, last, "eoesep", 0, 0)
<1>1. /\ "cocsep" \in Parts /\ main \in Parts /\ "h48h0k4" \in Parts /\ "eoesep" \in Parts
      /\ 0 \in Nat
  BY DEF Parts
<1>2. FullSize("h48h0k4") \in Nat /\ FullSize("cocsep") \in Nat /\ FullSize(main) \in Nat
  BY <1>1, TableFacts
<1>3. InfoOffset(buf, 3) = off
  <2>1. Block(buf, 0).next = c
    BY <1>1, BlockAtHeader
  <2>2. Block(buf, c).next = m
    BY <1>1, BlockAtHeader
  <2>3. InfoOffset(buf, 2) = c
    BY <2>1, InfoOffsets
  <2> QED BY <2>2, <2>3, InfoOffsets
<1>4. Changed(buf, new, off, "h48h0k4", 0, next)
  BY <1>1, <1>3, NextChanged, Zenon
<1>5. Kept(buf, new, off, "h48h0k4")
  BY <1>1, <1>4, RestStays, Zenon
<1>6. /\ Apart(0, "cocsep", off, "h48h0k4") /\ Apart(c, main, off, "h48h0k4")
      /\ Apart(last, "eoesep", off, "h48h0k4")
  BY <1>2 DEF Apart
<1>7. TableAt(new, 0, "cocsep", 0, c)
  BY <1>1, <1>5, <1>6, Zenon DEF Kept
<1>8. TableAt(new, c, main, h, m)
  BY <1>1, <1>5, <1>6, Zenon DEF Kept
<1>9. TableAt(new, last, "eoesep", 0, 0)
  BY <1>1, <1>5, <1>6, Zenon DEF Kept
<1> QED BY <1>4, <1>7, <1>8, <1>9 DEF Changed

(* The last of four tables is put, and the second header linked.           *)
LEMMA LastAdded ==
  ASSUME NEW buf \in Seq(BlockType), NEW main \in Parts \ {"helper"}, NEW h \in Nat,
         NEW c \in Nat, c = FullSize("cocsep"), NEW m \in Nat, c + FullSize(main) <= c + m,
         NEW off \in Nat, off = c + m,
         NEW last \in Nat, off + FullSize("h48h0k4") <= last,
         last + FullSize("eoesep") <= Len(buf),
         TableAt(buf, 0, "cocsep", 0, c), TableAt(buf, c, main, h, 0),
         TableAt(buf, off, "h48h0k4", 0, 0),
         NEW all, all = Put(buf, last, Table("eoesep", 0)),
         NEW new, new = UpdateNext(all, 2, c, m)
  PROVE  /\ new \in Seq(BlockType) /\ Len(new) = Len(buf)
         /\ TableAt(new, 0, "cocsep", 0, c) /\ TableAt(new, c, main, h, m)
         /\ TableAt(new, off, "h48h0k4", 0, 0) /\ TableAt(new, last, "eoesep", 0, 0)
<1>1. /\ "h48h0k4" \in Parts /\ "eoesep" \in Parts /\ "eoesep" \in Parts \ {"helper"}
      /\ main \in Parts /\ 0 \in Nat
  BY DEF Parts
<1>2. FullSize("h48h0k4") \in Nat /\ FullSize(main) \in Nat
  BY <1>1, TableFacts
<1>3. c + FullSize(main) <= last /\ c + FullSize(main) <= off
  BY <1>2
<1>4. /\ all \in Seq(BlockType) /\ Len(all) = Len(buf)
      /\ TableAt(all, 0, "cocsep", 0, c) /\ TableAt(all, c, main, h, 0)
      /\ TableAt(all, last, "eoesep", 0, 0)
      /\ \A o \in Nat, q \in Parts :
           TableAt(buf, o, q, 0, 0) /\ o + FullSize(q) <= last => TableAt(all, o, q, 0, 0)
  <2>1. "eoesep" \in Parts \ {"helper"} /\ c + FullSize(main) <= last
    BY <1>1, <1>3
  <2> QED BY <2>1, TableAdded
<1>5. TableAt(all, off, "h48h0k4", 0, 0)
  BY <1>1, <1>4
<1>6. /\ new \in Seq(BlockType) /\ Len(new) = Len(all)
      /\ TableAt(new, 0, "cocsep", 0, c) /\ TableAt(new, c, main, h, m)
      /\ \A o \in Nat, q \in Parts :
           TableAt(all, o, q, 0, 0) /\ c + FullSize(main) <= o => TableAt(new, o, q, 0, 0)
  BY <1>4, SecondLinked
<1>7. TableAt(new, off, "h48h0k4", 0, 0) /\ TableAt(new, last, "eoesep", 0, 0)
  BY <1>1, <1>3, <1>4, <1>5, <1>6
<1> QED BY <1>4, <1>6, <1>7

(* The steps of gendata_h48: with two tables and the last, and with a      *)
(* fallback table before the last.                                         *)
Generated4(h, main, c, m, size, last) ==
  UpdateNext(Put(FirstTwo(main, h, size), last, Table("eoesep", 0)), 2, c, m)
Generated2(h, main, c, m, f, size, last) ==
  UpdateNext(UpdateNext(Put(Put(FirstTwo(main, h, size), c + m, Table("h48h0k4", 0)),
                            last, Table("eoesep", 0)), 2, c, m),
             3, c + m, f)

MainOf(k) == IF k = 2 THEN "h48k2" ELSE "h48h0k4"
FallbackSize(k) == IF k = 2 THEN FullSize("h48h0k4") ELSE 0
SizeOf(k) ==
  FullSize("cocsep") + FullSize(MainOf(k)) + FallbackSize(k) + FullSize("eoesep")
LastOf(k) == SizeOf(k) - FullSize("eoesep")
GeneratedBy(h, k, c, m) ==
  IF k = 2 THEN Generated2(h, MainOf(k), c, m, FallbackSize(k), SizeOf(k), LastOf(k))
  ELSE Generated4(h, MainOf(k), c, m, SizeOf(k), LastOf(k))

(* gendata_h48, without its LET and for both values of k: a row of changes *)
(* to the first two tables.                                                *)
LEMMA Generated ==
  \A h, k : gendata_h48(h, k) = GeneratedBy(h, k, FullSize("cocsep"), FullSize(MainOf(k)))
<1> TAKE h, k
<1> DEFINE c == FullSize("cocsep")
           main == MainOf(k)
           m == FullSize(main)
           f == FallbackSize(k)
           size == SizeOf(k)
           last == LastOf(k)
<1>1. /\ main = IF k = 2 THEN "h48k2" ELSE "h48h0k4"
      /\ f = IF k = 2 THEN FullSize("h48h0k4") ELSE 0
      /\ size = c + m + f + FullSize("eoesep") /\ last = size - FullSize("eoesep")
      /\ c = FullSize("cocsep") /\ m = FullSize(main)
  BY Zenon DEF MainOf, FallbackSize, SizeOf, LastOf
<1> HIDE DEF c, main, m, f, size, last
<1> DEFINE b3 == FirstTwo(main, h, size)
           b4 == IF k = 2 THEN Put(b3, c + m, Table("h48h0k4", 0)) ELSE b3
           b5 == Put(b4, last, Table("eoesep", 0))
           b6 == UpdateNext(b5, 2, c, m)
           b7 == IF k = 2 THEN UpdateNext(b6, 3, c + m, f) ELSE b6
<1>2. gendata_h48(h, k) = b7
  BY <1>1, Zenon DEF gendata_h48, FirstTwo
<1> HIDE DEF b3
<1>3. CASE k = 2
  <2>1. b4 = Put(b3, c + m, Table("h48h0k4", 0)) /\ b7 = UpdateNext(b6, 3, c + m, f)
    BY <1>3
  <2> HIDE DEF b4, b7
  <2>2. gendata_h48(h, k) = Generated2(h, main, c, m, f, size, last)
    BY <1>2, <2>1, Zenon DEF Generated2, b3
  <2> QED BY <1>3, <2>2 DEF GeneratedBy, main, f, size, last, c, m
<1>4. CASE k # 2
  <2>1. b4 = b3 /\ b7 = b6
    BY <1>4
  <2> HIDE DEF b4, b7
  <2>2. gendata_h48(h, k) = Generated4(h, main, c, m, size, last)
    BY <1>2, <2>1, Zenon DEF Generated4, b3
  <2> QED BY <1>4, <2>2 DEF GeneratedBy, main, f, size, last, c, m
<1> QED BY <1>3, <1>4

(* The same for k = 4: three tables.                                       *)
LEMMA GeneratedForK4 ==
  ASSUME NEW h, NEW c, c = FullSize("cocsep"), NEW m, m = FullSize("h48h0k4"),
         NEW size, size = c + m + 0 + FullSize("eoesep"),
         NEW last, last = size - FullSize("eoesep")
  PROVE  gendata_h48(h, 4) = Generated4(h, "h48h0k4", c, m, size, last)
<1>1. MainOf(4) = "h48h0k4" /\ FallbackSize(4) = 0 /\ 4 # 2
  BY DEF MainOf, FallbackSize
<1>2. SizeOf(4) = size /\ LastOf(4) = last
  BY <1>1, Zenon DEF SizeOf, LastOf
<1>3. gendata_h48(h, 4) = GeneratedBy(h, 4, c, FullSize(MainOf(4)))
  BY Generated, Zenon
<1>4. gendata_h48(h, 4) = GeneratedBy(h, 4, c, m)
  BY <1>1, <1>3, Zenon
<1>5. GeneratedBy(h, 4, c, m) = Generated4(h, MainOf(4), c, m, SizeOf(4), LastOf(4))
  BY <1>1 DEF GeneratedBy
<1> QED BY <1>1, <1>2, <1>4, <1>5, Zenon

(* The same for k = 2: four tables.                                        *)
LEMMA GeneratedForK2 ==
  ASSUME NEW h, NEW c, c = FullSize("cocsep"), NEW m, m = FullSize("h48k2"),
         NEW f, f = FullSize("h48h0k4"),
         NEW size, size = c + m + f + FullSize("eoesep"),
         NEW last, last = size - FullSize("eoesep")
  PROVE  gendata_h48(h, 2) = Generated2(h, "h48k2", c, m, f, size, last)
<1>1. MainOf(2) = "h48k2" /\ FallbackSize(2) = f
  BY DEF MainOf, FallbackSize
<1>2. SizeOf(2) = size /\ LastOf(2) = last
  BY <1>1, Zenon DEF SizeOf, LastOf
<1>3. gendata_h48(h, 2) = GeneratedBy(h, 2, c, FullSize(MainOf(2)))
  BY Generated, Zenon
<1>4. gendata_h48(h, 2) = GeneratedBy(h, 2, c, m)
  BY <1>1, <1>3, Zenon
<1>5. GeneratedBy(h, 2, c, m) =
        Generated2(h, MainOf(2), c, m, FallbackSize(2), SizeOf(2), LastOf(2))
  BY DEF GeneratedBy
<1> QED BY <1>1, <1>2, <1>4, <1>5, Zenon

(* The same, for the steps taken together.                                 *)
Two(buf, size, main, h, next) ==
  /\ buf \in Seq(BlockType) /\ Len(buf) = size
  /\ TableAt(buf, 0, "cocsep", 0, FullSize("cocsep"))
  /\ TableAt(buf, FullSize("cocsep"), main, h, next)
Three(buf, size, main, h, next, off, part, n) ==
  Two(buf, size, main, h, next) /\ TableAt(buf, off, part, 0, n)
Four(buf, size, main, h, next, off, n, last) ==
  Three(buf, size, main, h, next, off, "h48h0k4", n) /\ TableAt(buf, last, "eoesep", 0, 0)

Main == Parts \ {"helper"}

(* What FirstTwoTables says, in one word.                                  *)
LEMMA TwoGenerated ==
  \A main \in Main, h \in Nat, size \in Nat :
    FullSize("cocsep") + FullSize(main) <= size =>
      Two(FirstTwo(main, h, size), size, main, h, 0)
<1> SUFFICES ASSUME NEW main \in Main, NEW h \in Nat, NEW size \in Nat,
                    FullSize("cocsep") + FullSize(main) <= size
             PROVE  Two(FirstTwo(main, h, size), size, main, h, 0)
  OBVIOUS
<1> QED BY FirstTwoTables DEF Two, Main

(* A third table is put after the first two.                               *)
LEMMA ThirdAdded ==
  \A buf : \A size \in Nat, main \in Main, h \in Nat, off \in Nat, part \in Main :
    /\ Two(buf, size, main, h, 0)
    /\ FullSize("cocsep") + FullSize(main) <= off /\ off + FullSize(part) <= size
    => Three(Put(buf, off, Table(part, 0)), size, main, h, 0, off, part, 0)
<1> SUFFICES ASSUME NEW buf, NEW size \in Nat, NEW main \in Main, NEW h \in Nat,
                    NEW off \in Nat, NEW part \in Main, Two(buf, size, main, h, 0),
                    FullSize("cocsep") + FullSize(main) <= off,
                    off + FullSize(part) <= size
             PROVE  Three(Put(buf, off, Table(part, 0)), size, main, h, 0, off, part, 0)
  OBVIOUS
<1> DEFINE c == FullSize("cocsep")
           new == Put(buf, off, Table(part, 0))
<1>1. /\ buf \in Seq(BlockType) /\ Len(buf) = size
      /\ TableAt(buf, 0, "cocsep", 0, c) /\ TableAt(buf, c, main, h, 0)
  BY DEF Two
<1>2. c \in Nat
  BY 0 \in Nat, TableFacts DEF Parts
<1>3. main \in Parts \ {"helper"} /\ part \in Parts \ {"helper"}
  BY DEF Main
<1>4. c + FullSize(main) <= off /\ off + FullSize(part) <= Len(buf)
  BY <1>1
<1>5. c = FullSize("cocsep") /\ new = Put(buf, off, Table(part, 0))
  OBVIOUS
<1> HIDE DEF c, new
<1>6. new \in Seq(BlockType) /\ Len(new) = Len(buf)
  BY <1>1, <1>2, <1>3, <1>4, <1>5, TableAdded
<1>7. TableAt(new, 0, "cocsep", 0, c) /\ TableAt(new, c, main, h, 0)
  BY <1>1, <1>2, <1>3, <1>4, <1>5, TableAdded
<1>8. TableAt(new, off, part, 0, 0)
  BY <1>1, <1>2, <1>3, <1>4, <1>5, TableAdded
<1> QED BY <1>1, <1>5, <1>6, <1>7, <1>8 DEF Three, Two

(* The second header is linked to the third.                               *)
LEMMA SecondToThird ==
  \A buf : \A size \in Nat, main \in Main, h \in Nat, off \in Nat, part \in Main :
            \A m \in Nat :
    /\ Three(buf, size, main, h, 0, off, part, 0)
    /\ FullSize("cocsep") + FullSize(main) <= off
    => Three(UpdateNext(buf, 2, FullSize("cocsep"), m), size, main, h, m, off, part, 0)
<1> SUFFICES ASSUME NEW buf, NEW size \in Nat, NEW main \in Main, NEW h \in Nat,
                    NEW off \in Nat, NEW part \in Main, NEW m \in Nat,
                    Three(buf, size, main, h, 0, off, part, 0),
                    FullSize("cocsep") + FullSize(main) <= off
             PROVE  Three(UpdateNext(buf, 2, FullSize("cocsep"), m), size, main, h, m, off,
                          part, 0)
  OBVIOUS
<1> DEFINE c == FullSize("cocsep")
           new == UpdateNext(buf, 2, c, m)
<1>1. /\ buf \in Seq(BlockType) /\ Len(buf) = size
      /\ TableAt(buf, 0, "cocsep", 0, c) /\ TableAt(buf, c, main, h, 0)
      /\ TableAt(buf, off, part, 0, 0)
  BY DEF Two, Three
<1>2. c \in Nat
  BY 0 \in Nat, TableFacts DEF Parts
<1>3. main \in Parts \ {"helper"} /\ part \in Parts
  BY DEF Main
<1>4. c + FullSize(main) <= off
  OBVIOUS
<1>5. c = FullSize("cocsep") /\ new = UpdateNext(buf, 2, c, m)
  OBVIOUS
<1> HIDE DEF c, new
<1>6. new \in Seq(BlockType) /\ Len(new) = Len(buf)
  BY <1>1, <1>2, <1>3, <1>5, SecondLinked
<1>7. TableAt(new, 0, "cocsep", 0, c) /\ TableAt(new, c, main, h, m)
  BY <1>1, <1>2, <1>3, <1>5, SecondLinked
<1>8. TableAt(new, off, part, 0, 0)
  <2>1. \A o \in Nat, q \in Parts :
          TableAt(buf, o, q, 0, 0) /\ c + FullSize(main) <= o => TableAt(new, o, q, 0, 0)
    BY <1>1, <1>2, <1>3, <1>5, SecondLinked
  <2> QED BY <1>1, <1>3, <1>4, <2>1
<1> QED BY <1>1, <1>5, <1>6, <1>7, <1>8 DEF Three, Two

(* The eoesep table is put last.                                           *)
LEMMA FourthAdded ==
  \A buf : \A size \in Nat, main \in Main, h \in Nat, m \in Nat, last \in Nat :
    /\ Three(buf, size, main, h, 0, FullSize("cocsep") + m, "h48h0k4", 0)
    /\ FullSize(main) <= m /\ last + FullSize("eoesep") <= size
    /\ FullSize("cocsep") + m + FullSize("h48h0k4") <= last
    => Four(UpdateNext(Put(buf, last, Table("eoesep", 0)), 2, FullSize("cocsep"), m),
            size, main, h, m, FullSize("cocsep") + m, 0, last)
<1> SUFFICES ASSUME NEW buf, NEW size \in Nat, NEW main \in Main, NEW h \in Nat,
                    NEW m \in Nat, NEW last \in Nat,
                    Three(buf, size, main, h, 0, FullSize("cocsep") + m, "h48h0k4", 0),
                    FullSize(main) <= m, last + FullSize("eoesep") <= size,
                    FullSize("cocsep") + m + FullSize("h48h0k4") <= last
             PROVE  Four(UpdateNext(Put(buf, last, Table("eoesep", 0)), 2,
                                    FullSize("cocsep"), m),
                         size, main, h, m, FullSize("cocsep") + m, 0, last)
  OBVIOUS
<1> DEFINE c == FullSize("cocsep")
           off == c + m
           all == Put(buf, last, Table("eoesep", 0))
           new == UpdateNext(all, 2, c, m)
<1>1. /\ buf \in Seq(BlockType) /\ Len(buf) = size
      /\ TableAt(buf, 0, "cocsep", 0, c) /\ TableAt(buf, c, main, h, 0)
      /\ TableAt(buf, off, "h48h0k4", 0, 0)
  BY DEF Two, Three
<1>2. c \in Nat /\ FullSize(main) \in Nat
  BY 0 \in Nat, TableFacts DEF Parts, Main
<1>3. main \in Parts \ {"helper"}
  BY DEF Main
<1>4. /\ off \in Nat /\ c + FullSize(main) <= c + m /\ off + FullSize("h48h0k4") <= last
      /\ last + FullSize("eoesep") <= Len(buf)
  BY <1>1, <1>2
<1>5. c = FullSize("cocsep") /\ off = c + m /\ all = Put(buf, last, Table("eoesep", 0))
      /\ new = UpdateNext(all, 2, c, m)
  OBVIOUS
<1> HIDE DEF c, off, all, new
<1>6. new \in Seq(BlockType) /\ Len(new) = Len(buf)
  BY <1>1, <1>2, <1>3, <1>4, <1>5, LastAdded
<1>7. TableAt(new, 0, "cocsep", 0, c) /\ TableAt(new, c, main, h, m)
  BY <1>1, <1>2, <1>3, <1>4, <1>5, LastAdded
<1>8. TableAt(new, off, "h48h0k4", 0, 0) /\ TableAt(new, last, "eoesep", 0, 0)
  BY <1>1, <1>2, <1>3, <1>4, <1>5, LastAdded
<1>9. Four(new, size, main, h, m, off, 0, last)
  BY <1>1, <1>5, <1>6, <1>7, <1>8 DEF Four, Three, Two
<1> QED BY <1>9, Zenon DEF new, all, off, c

(* The third header is linked to the fourth.                               *)
LEMMA ThirdToFourth ==
  \A buf : \A size \in Nat, main \in Main, h \in Nat, m \in Nat, last \in Nat, next \in Nat :
    /\ Four(buf, size, main, h, m, FullSize("cocsep") + m, 0, last)
    /\ FullSize(main) <= m
    /\ FullSize("cocsep") + m + FullSize("h48h0k4") <= last
    => Four(UpdateNext(buf, 3, FullSize("cocsep") + m, next),
            size, main, h, m, FullSize("cocsep") + m, next, last)
<1> SUFFICES ASSUME NEW buf, NEW size \in Nat, NEW main \in Main, NEW h \in Nat,
                    NEW m \in Nat, NEW last \in Nat, NEW next \in Nat,
                    Four(buf, size, main, h, m, FullSize("cocsep") + m, 0, last),
                    FullSize(main) <= m,
                    FullSize("cocsep") + m + FullSize("h48h0k4") <= last
             PROVE  Four(UpdateNext(buf, 3, FullSize("cocsep") + m, next),
                         size, main, h, m, FullSize("cocsep") + m, next, last)
  OBVIOUS
<1> DEFINE c == FullSize("cocsep")
           off == c + m
           new == UpdateNext(buf, 3, off, next)
<1>1. /\ buf \in Seq(BlockType) /\ Len(buf) = size
      /\ TableAt(buf, 0, "cocsep", 0, c) /\ TableAt(buf, c, main, h, m)
      /\ TableAt(buf, off, "h48h0k4", 0, 0) /\ TableAt(buf, last, "eoesep", 0, 0)
  BY DEF Two, Three, Four
<1>2. c \in Nat /\ FullSize(main) \in Nat
  BY 0 \in Nat, TableFacts DEF Parts, Main
<1>3. main \in Parts \ {"helper"}
  BY DEF Main
<1>4. off \in Nat /\ c + FullSize(main) <= off /\ off + FullSize("h48h0k4") <= last
  BY <1>1, <1>2
<1>5. c = FullSize("cocsep") /\ off = c + m /\ new = UpdateNext(buf, 3, off, next)
  OBVIOUS
<1> HIDE DEF c, off, new
<1>6. new \in Seq(BlockType) /\ Len(new) = Len(buf)
  BY <1>1, <1>2, <1>3, <1>4, <1>5, ThirdLinked
<1>7. TableAt(new, 0, "cocsep", 0, c) /\ TableAt(new, c, main, h, m)
  BY <1>1, <1>2, <1>3, <1>4, <1>5, ThirdLinked
<1>8. TableAt(new, off, "h48h0k4", 0, next) /\ TableAt(new, last, "eoesep", 0, 0)
  BY <1>1, <1>2, <1>3, <1>4, <1>5, ThirdLinked
<1>9. Four(new, size, main, h, m, off, next, last)
  BY <1>1, <1>5, <1>6, <1>7, <1>8 DEF Four, Three, Two
<1> QED BY <1>9, Zenon DEF new, off, c

(* What gendata_h48 leaves: the tables one after the other, each header    *)
(* linked to the next.                                                     *)
LEMMA DataOfH48k4 ==
  ASSUME NEW h \in Nat, NEW d, d = gendata_h48(h, 4),
         NEW c, c = FullSize("cocsep"), NEW m, m = FullSize("h48h0k4"),
         NEW e, e = FullSize("eoesep")
  PROVE  /\ c \in Nat /\ m \in Nat /\ e \in Nat
         /\ Three(d, c + m + e, "h48h0k4", h, m, c + m, "eoesep", 0)
<1>1. c \in Nat /\ m \in Nat /\ e \in Nat
  <2>1. "cocsep" \in Parts /\ "h48h0k4" \in Parts /\ "eoesep" \in Parts /\ 0 \in Nat
    BY DEF Parts
  <2> QED BY <2>1, TableFacts
<1>2. "h48h0k4" \in Main /\ "eoesep" \in Main
  BY DEF Main, Parts
<1> DEFINE size == c + m + 0 + FullSize("eoesep")
           last == size - FullSize("eoesep")
           b3 == FirstTwo("h48h0k4", h, size)
           b5 == Put(b3, last, Table("eoesep", 0))
           b6 == UpdateNext(b5, 2, c, m)
<1>3. size = c + m + e /\ last = c + m /\ size \in Nat /\ last \in Nat
  BY <1>1
<1>4. d = Generated4(h, "h48h0k4", c, m, size, last)
  BY GeneratedForK4, Zenon
<1> HIDE DEF size, last
<1>5. d = b6
  BY <1>4, Zenon DEF Generated4
<1>6. /\ FullSize("cocsep") + FullSize("h48h0k4") <= size
      /\ FullSize("cocsep") + FullSize("h48h0k4") <= last
      /\ last + FullSize("eoesep") <= size
  BY <1>1, <1>3
<1>7. Two(b3, size, "h48h0k4", h, 0)
  BY <1>2, <1>3, <1>6, TwoGenerated, Zenon
<1> HIDE DEF b3
<1>8. Three(b5, size, "h48h0k4", h, 0, last, "eoesep", 0)
  BY <1>2, <1>3, <1>6, <1>7, ThirdAdded, Zenon
<1> HIDE DEF b5
<1>9. Three(b6, size, "h48h0k4", h, m, last, "eoesep", 0)
  BY <1>1, <1>2, <1>3, <1>6, <1>8, SecondToThird, Zenon
<1> QED BY <1>1, <1>3, <1>5, <1>9, Zenon

(* The data with k = 2, and where each of the four tables is in them.      *)
LEMMA DataOfH48k2 ==
  ASSUME NEW h \in Nat, NEW d, d = gendata_h48(h, 2),
         NEW c, c = FullSize("cocsep"), NEW m, m = FullSize("h48k2"),
         NEW f, f = FullSize("h48h0k4"), NEW e, e = FullSize("eoesep")
  PROVE  /\ c \in Nat /\ m \in Nat /\ f \in Nat /\ e \in Nat
         /\ Four(d, c + m + f + e, "h48k2", h, m, c + m, f, c + m + f)
<1>1. c \in Nat /\ m \in Nat /\ f \in Nat /\ e \in Nat
  <2>1. /\ "cocsep" \in Parts /\ "h48h0k4" \in Parts /\ "eoesep" \in Parts
        /\ "h48k2" \in Parts /\ 0 \in Nat
    BY DEF Parts
  <2> QED BY <2>1, TableFacts
<1>2. "h48k2" \in Main /\ "h48h0k4" \in Main /\ 0 \in Nat
  BY DEF Main, Parts
<1> DEFINE size == c + m + f + FullSize("eoesep")
           last == size - FullSize("eoesep")
           b3 == FirstTwo("h48k2", h, size)
           b4 == Put(b3, c + m, Table("h48h0k4", 0))
           b6 == UpdateNext(Put(b4, last, Table("eoesep", 0)), 2, c, m)
           b7 == UpdateNext(b6, 3, c + m, f)
<1>3. size = c + m + f + e /\ last = c + m + f /\ size \in Nat /\ last \in Nat
      /\ c + m \in Nat
  BY <1>1
<1>4. d = Generated2(h, "h48k2", c, m, f, size, last)
  BY GeneratedForK2, Zenon
<1> HIDE DEF size, last
<1>5. d = b7
  BY <1>4, Zenon DEF Generated2
<1>6. /\ FullSize("cocsep") + FullSize("h48k2") <= size
      /\ FullSize("cocsep") + FullSize("h48k2") <= c + m
      /\ c + m + FullSize("h48h0k4") <= size /\ FullSize("h48k2") <= m
      /\ FullSize("cocsep") + m + FullSize("h48h0k4") <= last
      /\ last + FullSize("eoesep") <= size
  BY <1>1, <1>3
<1>7. Two(b3, size, "h48k2", h, 0)
  BY <1>2, <1>3, <1>6, TwoGenerated, Zenon
<1> HIDE DEF b3
<1>8. Three(b4, size, "h48k2", h, 0, c + m, "h48h0k4", 0)
  BY <1>2, <1>3, <1>6, <1>7, ThirdAdded, Zenon
<1> HIDE DEF b4
<1>9. Four(b6, size, "h48k2", h, m, c + m, 0, last)
  BY <1>1, <1>2, <1>3, <1>6, <1>8, FourthAdded, Zenon
<1> HIDE DEF b6
<1>10. Four(b7, size, "h48k2", h, m, c + m, f, last)
  BY <1>1, <1>2, <1>3, <1>6, <1>9, ThirdToFourth, Zenon
<1> QED BY <1>1, <1>3, <1>5, <1>10, Zenon

(* A table by itself, and after another.                                   *)
LEMMA TableAlone ==
  ASSUME NEW part \in Parts, NEW t, t = Table(part, 0),
         NEW n, n = IF part = "helper" THEN FullSize(part) ELSE 0
  PROVE  /\ t \in Seq(BlockType) /\ Len(t) = FullSize(part) /\ n \in Nat
         /\ TableAt(t, 0, part, 0, n)
<1>1. /\ BodyLen[part] \in Nat /\ FullSize(part) = 1 + BodyLen[part]
      /\ t \in Seq(BlockType) /\ Len(t) = FullSize(part) /\ t[1] = Info(part, 0)
      /\ \A i \in 1 .. BodyLen[part] : t[i + 1] = Body(part, i)
  BY 0 \in Nat, TableFacts
<1>2. Info(part, 0) = Header(part, 0, n)
  BY 0 \in Nat, HeaderFields
<1>3. \A i \in 1 .. BodyLen[part] : 0 + 1 + i = i + 1
  BY <1>1
<1> QED BY <1>1, <1>2, <1>3 DEF TableAt

(* A table put after other blocks moves by as many.                        *)
LEMMA TableMoved ==
  ASSUME NEW s \in Seq(BlockType), NEW t \in Seq(BlockType), NEW part \in Parts, NEW n,
         TableAt(t, 0, part, 0, n)
  PROVE  TableAt(s \o t, Len(s), part, 0, n)
<1>1. /\ s \o t \in Seq(BlockType) /\ Len(s \o t) = Len(s) + Len(t)
      /\ \A i \in 1 .. Len(t) : (s \o t)[Len(s) + i] = t[i]
  BY ConcatFacts
<1> DEFINE d == s \o t
<1> HIDE DEF d
<1>2. /\ BodyLen[part] \in Nat /\ FullSize(part) = 1 + BodyLen[part]
      /\ Len(s) \in Nat /\ Len(t) \in Nat /\ FullSize(part) <= Len(t)
  BY 0 \in Nat, TableFacts DEF TableAt
<1>3. \A i \in 0 .. BodyLen[part] :
        i + 1 \in 1 .. Len(t) /\ Len(s) + 1 + i = Len(s) + (i + 1) /\ 0 + 1 + i = i + 1
  BY <1>2
<1>4. \A i \in 0 .. BodyLen[part] : d[Len(s) + 1 + i] = t[0 + 1 + i]
  BY <1>1, <1>3 DEF d
<1>5. d[Len(s) + 1] = Header(part, 0, n)
  <2>1. 0 \in 0 .. BodyLen[part] /\ Len(s) + 1 + 0 = Len(s) + 1 /\ 0 + 1 + 0 = 0 + 1
    BY <1>2
  <2> QED BY <1>4, <2>1 DEF TableAt
<1>6. ASSUME NEW i \in 1 .. BodyLen[part] PROVE d[Len(s) + 1 + i] = Body(part, i)
  BY <1>4 DEF TableAt
<1>7. Len(s) + FullSize(part) <= Len(d)
  BY <1>1, <1>2 DEF d
<1> QED BY <1>5, <1>6, <1>7 DEF TableAt, d

(* A table put before other blocks stays.                                  *)
LEMMA TableKept ==
  ASSUME NEW s \in Seq(BlockType), NEW t \in Seq(BlockType), NEW part \in Parts, NEW n,
         TableAt(s, 0, part, 0, n)
  PROVE  TableAt(s \o t, 0, part, 0, n)
<1>1. /\ s \o t \in Seq(BlockType) /\ Len(s \o t) = Len(s) + Len(t)
      /\ \A i \in 1 .. Len(s) : (s \o t)[i] = s[i]
  BY ConcatFacts
<1> DEFINE d == s \o t
<1> HIDE DEF d
<1>2. /\ BodyLen[part] \in Nat /\ FullSize(part) = 1 + BodyLen[part]
      /\ Len(s) \in Nat /\ Len(t) \in Nat /\ FullSize(part) <= Len(s)
  BY 0 \in Nat, TableFacts DEF TableAt
<1>3. \A i \in 0 .. BodyLen[part] : 0 + 1 + i \in 1 .. Len(s)
  BY <1>2
<1>4. \A i \in 0 .. BodyLen[part] : d[0 + 1 + i] = s[0 + 1 + i]
  BY <1>1, <1>3 DEF d
<1>5. d[0 + 1] = Header(part, 0, n)
  <2>1. 0 \in 0 .. BodyLen[part] /\ 0 + 1 + 0 = 0 + 1
    BY <1>2
  <2> QED BY <1>4, <2>1 DEF TableAt
<1>6. ASSUME NEW i \in 1 .. BodyLen[part] PROVE d[0 + 1 + i] = Body(part, i)
  BY <1>4 DEF TableAt
<1>7. 0 + FullSize(part) <= Len(d)
  BY <1>1, <1>2 DEF d
<1> QED BY <1>5, <1>6, <1>7 DEF TableAt, d

(* What gendata_coord leaves, with and without a helper table.             *)
LEMMA DataOfCoord ==
  ASSUME NEW d, d = gendata_coord(1)
  PROVE  /\ d \in Seq(BlockType) /\ Len(d) = FullSize("pruning")
         /\ TableAt(d, 0, "pruning", 0, 0)
<1> DEFINE t == Table("pruning", 0)
<1>1. "pruning" \in Parts /\ 0 = IF "pruning" = "helper" THEN FullSize("pruning") ELSE 0
  BY DEF Parts
<1>2. d = <<>> \o t
  BY DEF gendata_coord
<1>3. t = Table("pruning", 0)
  OBVIOUS
<1> HIDE DEF t
<1>4. t \in Seq(BlockType) /\ Len(t) = FullSize("pruning") /\ TableAt(t, 0, "pruning", 0, 0)
  BY <1>1, <1>3, TableAlone
<1>5. d = t
  BY <1>2, <1>4
<1> QED BY <1>4, <1>5

(* The data of a coordinate with symmetry: the helper table comes first,   *)
(* linked to the pruning table.                                            *)
LEMMA DataOfCoordHelped ==
  ASSUME NEW d, d = gendata_coord(2), NEW c, c = FullSize("helper")
  PROVE  /\ c \in Nat /\ d \in Seq(BlockType) /\ Len(d) = c + FullSize("pruning")
         /\ TableAt(d, 0, "helper", 0, c) /\ TableAt(d, c, "pruning", 0, 0)
<1> DEFINE s == Table("helper", 0)
           t == Table("pruning", 0)
<1>1. /\ "pruning" \in Parts /\ 0 = IF "pruning" = "helper" THEN FullSize("pruning") ELSE 0
      /\ "helper" \in Parts /\ c = IF "helper" = "helper" THEN FullSize("helper") ELSE 0
  BY DEF Parts
<1>2. d = s \o t /\ s = Table("helper", 0) /\ t = Table("pruning", 0)
  BY DEF gendata_coord
<1> HIDE DEF s, t
<1>3. t \in Seq(BlockType) /\ Len(t) = FullSize("pruning") /\ TableAt(t, 0, "pruning", 0, 0)
  BY <1>1, <1>2, TableAlone
<1>4. s \in Seq(BlockType) /\ Len(s) = c /\ c \in Nat /\ TableAt(s, 0, "helper", 0, c)
  BY <1>1, <1>2, TableAlone
<1>5. s \o t \in Seq(BlockType) /\ Len(s \o t) = Len(s) + Len(t)
  BY <1>3, <1>4, ConcatFacts
<1>6. TableAt(s \o t, 0, "helper", 0, c)
  BY <1>1, <1>3, <1>4, TableKept
<1>7. TableAt(s \o t, Len(s), "pruning", 0, 0)
  BY <1>1, <1>3, <1>4, TableMoved
<1> QED BY <1>2, <1>3, <1>4, <1>5, <1>6, <1>7

-----------------------------------------------------------------------------
(* Data are laid out as tables, one of each part, at given offsets, with   *)
(* nothing else.                                                           *)
Laid(d, off) ==
  /\ d \in Seq(BlockType)
  /\ \A q \in DOMAIN off :
       q \in Parts /\ off[q] \in Nat /\ \E h, n \in Nat : TableAt(d, off[q], q, h, n)
  /\ \A i \in 1 .. Len(d) : \E q \in DOMAIN off : i \in off[q] + 1 .. off[q] + FullSize(q)

(* Each part that is laid out is the size of its header and its blocks.    *)
LEMMA LaidTable ==
  ASSUME NEW d, NEW off, Laid(d, off), NEW q \in DOMAIN off
  PROVE  /\ q \in Parts /\ off[q] \in Nat
         /\ BodyLen[q] \in Nat \ {0} /\ FullSize(q) = 1 + BodyLen[q]
         /\ FullSize(q) \in Nat \ {0}
<1>1. q \in Parts /\ off[q] \in Nat /\ 0 \in Nat
  BY DEF Laid
<1> QED BY <1>1, TableFacts

(* Each block is in one of the tables.                                     *)
LEMMA LaidOut ==
  ASSUME NEW d, NEW off, Laid(d, off), NEW i \in 1 .. Len(d)
  PROVE  \E q \in DOMAIN off : i \in off[q] + 1 .. off[q] + FullSize(q)
BY DEF Laid

(* What a block of a table is.                                             *)
LEMMA InTable ==
  ASSUME NEW d, NEW off, Laid(d, off), NEW q \in DOMAIN off,
         NEW i \in off[q] + 1 .. off[q] + FullSize(q)
  PROVE  /\ i \in 1 .. Len(d) /\ d[i].of = q /\ d[i].at = i - off[q] - 1
         /\ i > off[q] + 1 => d[i] = Body(q, i - off[q] - 1)
<1>1. PICK h \in Nat, n \in Nat : TableAt(d, off[q], q, h, n)
  BY DEF Laid
<1>2. q \in Parts /\ off[q] \in Nat /\ d \in Seq(BlockType)
  BY DEF Laid
<1>3. BodyLen[q] \in Nat /\ FullSize(q) = 1 + BodyLen[q]
  BY <1>1, <1>2, TableFacts
<1>4. i \in 1 .. Len(d)
  BY <1>1, <1>2, <1>3 DEF TableAt
<1>5. CASE i = off[q] + 1
  <2>1. d[i] = Header(q, h, n)
    BY <1>1, <1>5 DEF TableAt
  <2>2. d[i].of = q /\ d[i].at = 0
    BY <1>1, <1>2, <2>1, HeaderFields
  <2> QED BY <1>2, <1>4, <1>5, <2>2
<1>6. CASE i # off[q] + 1
  <2> DEFINE j == i - off[q] - 1
  <2>1. j \in 1 .. BodyLen[q] /\ off[q] + 1 + j = i
    BY <1>2, <1>3, <1>6
  <2> HIDE DEF j
  <2>2. d[i] = Body(q, j)
    BY <1>1, <2>1 DEF TableAt
  <2>3. Body(q, j).of = q /\ Body(q, j).at = j
    BY DEF Body, Zero
  <2>4. j = i - off[q] - 1
    BY DEF j
  <2> QED BY <1>4, <2>2, <2>3, <2>4
<1> QED BY <1>5, <1>6

(* The first block of the data of a table is in one place.                 *)
LEMMA FirstBlockOfTable ==
  ASSUME NEW d, NEW off, Laid(d, off), NEW q \in DOMAIN off
  PROVE  (CHOOSE i \in DOMAIN d : d[i] = Body(q, 1)) = off[q] + 2
<1>1. q \in Parts /\ off[q] \in Nat /\ d \in Seq(BlockType)
  BY DEF Laid
<1>2. BodyLen[q] \in Nat \ {0} /\ FullSize(q) = 1 + BodyLen[q]
  BY LaidTable
<1>3. off[q] + 2 \in off[q] + 1 .. off[q] + FullSize(q) /\ off[q] + 2 > off[q] + 1
      /\ off[q] + 2 - off[q] - 1 = 1
  BY <1>1, <1>2
<1>4. off[q] + 2 \in 1 .. Len(d)
  BY <1>3, InTable
<1>5. d[off[q] + 2] = Body(q, 1)
  <2>1. ASSUME NEW i, i = off[q] + 2 PROVE d[i] = Body(q, 1)
    <3>1. i \in off[q] + 1 .. off[q] + FullSize(q) /\ i > off[q] + 1 /\ i - off[q] - 1 = 1
      BY <1>1, <1>3, <2>1
    <3>2. d[i] = Body(q, i - off[q] - 1)
      BY <3>1, InTable
    <3> QED BY <3>1, <3>2
  <2> QED BY <2>1
<1>6. off[q] + 2 \in DOMAIN d
  BY <1>1, <1>4
<1>7. ASSUME NEW i \in DOMAIN d, d[i] = Body(q, 1) PROVE i = off[q] + 2
  <2>1. i \in 1 .. Len(d)
    BY <1>1
  <2>2. PICK r \in DOMAIN off : i \in off[r] + 1 .. off[r] + FullSize(r)
    BY <2>1, LaidOut
  <2>3. d[i].of = r /\ d[i].at = i - off[r] - 1
    BY <2>2, InTable
  <2>4. d[i].of = q /\ d[i].at = 1
    BY <1>7 DEF Body, Zero
  <2> QED BY <1>1, <2>1, <2>3, <2>4
<1> QED BY <1>5, <1>6, <1>7

(* The blocks that are numbered 0 are the headers.                         *)
LEMMA HeadersOfData ==
  ASSUME NEW d, NEW off, Laid(d, off), NEW i \in 1 .. Len(d)
  PROVE  d[i].at = 0 <=> \E q \in DOMAIN off : i = off[q] + 1
<1>1. PICK r \in DOMAIN off : i \in off[r] + 1 .. off[r] + FullSize(r)
  BY LaidOut
<1>2. d[i].of = r /\ d[i].at = i - off[r] - 1
  BY <1>1, InTable
<1>3. off[r] \in Nat
  BY LaidTable
<1>4. ASSUME NEW q \in DOMAIN off, i = off[q] + 1 PROVE d[i].at = 0
  <2>1. off[q] \in Nat /\ FullSize(q) \in Nat \ {0}
    BY LaidTable
  <2>2. i \in off[q] + 1 .. off[q] + FullSize(q)
    BY <1>4, <2>1
  <2>3. d[i].at = i - off[q] - 1
    BY <2>2, InTable
  <2> QED BY <1>4, <2>1, <2>3
<1>5. d[i].at = 0 => i = off[r] + 1
  BY <1>2, <1>3
<1> QED BY <1>4, <1>5

-----------------------------------------------------------------------------
(* The layouts of the data of the solvers.                                 *)
OffsetsK4 ==
  [q \in {"cocsep", "h48h0k4", "eoesep"} |->
     IF q = "cocsep" THEN 0
     ELSE IF q = "h48h0k4" THEN FullSize("cocsep")
     ELSE FullSize("cocsep") + FullSize("h48h0k4")]
OffsetsK2 ==
  [q \in {"cocsep", "h48k2", "h48h0k4", "eoesep"} |->
     IF q = "cocsep" THEN 0
     ELSE IF q = "h48k2" THEN FullSize("cocsep")
     ELSE IF q = "h48h0k4" THEN FullSize("cocsep") + FullSize("h48k2")
     ELSE FullSize("cocsep") + FullSize("h48k2") + FullSize("h48h0k4")]
OffsetsEO == [q \in {"pruning"} |-> 0]
OffsetsDR ==
  [q \in {"helper", "pruning"} |-> IF q = "helper" THEN 0 ELSE FullSize("helper")]

(* gendata_h48 lays out three tables with k = 4.                           *)
LEMMA LaidK4 ==
  ASSUME NEW h \in Nat, NEW d, d = gendata_h48(h, 4)
  PROVE  Laid(d, OffsetsK4)
<1> DEFINE c == FullSize("cocsep")
           m == FullSize("h48h0k4")
           e == FullSize("eoesep")
<1>1. /\ c \in Nat /\ m \in Nat /\ e \in Nat
      /\ Three(d, c + m + e, "h48h0k4", h, m, c + m, "eoesep", 0)
  BY DataOfH48k4
<1>2. c = FullSize("cocsep") /\ m = FullSize("h48h0k4") /\ e = FullSize("eoesep")
  OBVIOUS
<1> HIDE DEF c, m, e
<1>3. /\ DOMAIN OffsetsK4 = {"cocsep", "h48h0k4", "eoesep"}
      /\ OffsetsK4["cocsep"] = 0 /\ OffsetsK4["h48h0k4"] = c /\ OffsetsK4["eoesep"] = c + m
  BY <1>2 DEF OffsetsK4
<1>4. /\ d \in Seq(BlockType) /\ Len(d) = c + m + e
      /\ TableAt(d, 0, "cocsep", 0, c) /\ TableAt(d, c, "h48h0k4", h, m)
      /\ TableAt(d, c + m, "eoesep", 0, 0)
  BY <1>1, <1>2 DEF Three, Two
<1>5. ASSUME NEW q \in DOMAIN OffsetsK4
      PROVE  /\ q \in Parts /\ OffsetsK4[q] \in Nat
             /\ \E g, n \in Nat : TableAt(d, OffsetsK4[q], q, g, n)
  <2>1. CASE q = "cocsep"
    BY <1>1, <1>3, <1>4, <2>1 DEF Parts
  <2>2. CASE q = "h48h0k4"
    BY <1>1, <1>3, <1>4, <2>2 DEF Parts
  <2>3. CASE q = "eoesep"
    BY <1>1, <1>3, <1>4, <2>3 DEF Parts
  <2> QED BY <1>3, <2>1, <2>2, <2>3
<1>6. ASSUME NEW i \in 1 .. Len(d)
      PROVE  \E q \in DOMAIN OffsetsK4 : i \in OffsetsK4[q] + 1 .. OffsetsK4[q] + FullSize(q)
  <2>1. i \in 0 + 1 .. 0 + c \/ i \in c + 1 .. c + m \/ i \in c + m + 1 .. c + m + e
    BY <1>1, <1>4
  <2> QED BY <1>2, <1>3, <2>1
<1> QED BY <1>4, <1>5, <1>6 DEF Laid

(* gendata_h48 lays out four tables with k = 2.                            *)
THEOREM LaidK2 ==
  ASSUME NEW h \in Nat, NEW d, d = gendata_h48(h, 2)
  PROVE  Laid(d, OffsetsK2)
<1> DEFINE c == FullSize("cocsep")
           m == FullSize("h48k2")
           f == FullSize("h48h0k4")
           e == FullSize("eoesep")
<1>1. /\ c \in Nat /\ m \in Nat /\ f \in Nat /\ e \in Nat
      /\ Four(d, c + m + f + e, "h48k2", h, m, c + m, f, c + m + f)
  BY DataOfH48k2
<1>2. c = FullSize("cocsep") /\ m = FullSize("h48k2") /\ f = FullSize("h48h0k4")
      /\ e = FullSize("eoesep")
  OBVIOUS
<1> HIDE DEF c, m, f, e
<1>3. /\ DOMAIN OffsetsK2 = {"cocsep", "h48k2", "h48h0k4", "eoesep"}
      /\ OffsetsK2["cocsep"] = 0 /\ OffsetsK2["h48k2"] = c
      /\ OffsetsK2["h48h0k4"] = c + m /\ OffsetsK2["eoesep"] = c + m + f
  BY <1>2 DEF OffsetsK2
<1>4. /\ d \in Seq(BlockType) /\ Len(d) = c + m + f + e
      /\ TableAt(d, 0, "cocsep", 0, c) /\ TableAt(d, c, "h48k2", h, m)
      /\ TableAt(d, c + m, "h48h0k4", 0, f) /\ TableAt(d, c + m + f, "eoesep", 0, 0)
  BY <1>1, <1>2 DEF Four, Three, Two
<1>5. ASSUME NEW q \in DOMAIN OffsetsK2
      PROVE  /\ q \in Parts /\ OffsetsK2[q] \in Nat
             /\ \E g, n \in Nat : TableAt(d, OffsetsK2[q], q, g, n)
  <2>1. CASE q = "cocsep"
    BY <1>1, <1>3, <1>4, <2>1 DEF Parts
  <2>2. CASE q = "h48k2"
    BY <1>1, <1>3, <1>4, <2>2 DEF Parts
  <2>3. CASE q = "h48h0k4"
    BY <1>1, <1>3, <1>4, <2>3 DEF Parts
  <2>4. CASE q = "eoesep"
    BY <1>1, <1>3, <1>4, <2>4 DEF Parts
  <2> QED BY <1>3, <2>1, <2>2, <2>3, <2>4
<1>6. ASSUME NEW i \in 1 .. Len(d)
      PROVE  \E q \in DOMAIN OffsetsK2 : i \in OffsetsK2[q] + 1 .. OffsetsK2[q] + FullSize(q)
  <2>1. \/ i \in 0 + 1 .. 0 + c \/ i \in c + 1 .. c + m
        \/ i \in c + m + 1 .. c + m + f \/ i \in c + m + f + 1 .. c + m + f + e
    BY <1>1, <1>4
  <2> QED BY <1>2, <1>3, <2>1
<1> QED BY <1>4, <1>5, <1>6 DEF Laid

(* gendata_coord lays out one table for a coordinate without symmetry.     *)
LEMMA LaidEO == Laid(gendata_coord(1), OffsetsEO)
<1> DEFINE d == gendata_coord(1)
<1>1. /\ d \in Seq(BlockType) /\ Len(d) = FullSize("pruning")
      /\ TableAt(d, 0, "pruning", 0, 0)
  BY DataOfCoord
<1> HIDE DEF d
<1>2. DOMAIN OffsetsEO = {"pruning"} /\ OffsetsEO["pruning"] = 0
  BY DEF OffsetsEO
<1>3. "pruning" \in Parts /\ 0 \in Nat
  BY DEF Parts
<1>4. FullSize("pruning") \in Nat
  BY <1>3, TableFacts
<1>5. ASSUME NEW i \in 1 .. Len(d)
      PROVE  \E q \in DOMAIN OffsetsEO : i \in OffsetsEO[q] + 1 .. OffsetsEO[q] + FullSize(q)
  <2>1. i \in 0 + 1 .. 0 + FullSize("pruning")
    BY <1>1, <1>4
  <2> QED BY <1>2, <2>1
<1>6. ASSUME NEW q \in DOMAIN OffsetsEO
      PROVE  /\ q \in Parts /\ OffsetsEO[q] \in Nat
             /\ \E g, n \in Nat : TableAt(d, OffsetsEO[q], q, g, n)
  BY <1>1, <1>2, <1>3
<1>7. Laid(d, OffsetsEO)
  BY <1>1, <1>5, <1>6 DEF Laid
<1> QED BY <1>7 DEF d

(* gendata_coord lays out two tables for a coordinate with symmetry.       *)
LEMMA LaidDR == Laid(gendata_coord(2), OffsetsDR)
<1> DEFINE d == gendata_coord(2)
           c == FullSize("helper")
<1>1. /\ c \in Nat /\ d \in Seq(BlockType) /\ Len(d) = c + FullSize("pruning")
      /\ TableAt(d, 0, "helper", 0, c) /\ TableAt(d, c, "pruning", 0, 0)
  BY DataOfCoordHelped
<1>2. c = FullSize("helper")
  OBVIOUS
<1> HIDE DEF d, c
<1>3. /\ DOMAIN OffsetsDR = {"helper", "pruning"}
      /\ OffsetsDR["helper"] = 0 /\ OffsetsDR["pruning"] = c
  BY <1>2 DEF OffsetsDR
<1>4. "pruning" \in Parts /\ "helper" \in Parts /\ 0 \in Nat
  BY DEF Parts
<1>5. FullSize("pruning") \in Nat
  BY <1>4, TableFacts
<1>6. ASSUME NEW i \in 1 .. Len(d)
      PROVE  \E q \in DOMAIN OffsetsDR : i \in OffsetsDR[q] + 1 .. OffsetsDR[q] + FullSize(q)
  <2>1. i \in 0 + 1 .. 0 + c \/ i \in c + 1 .. c + FullSize("pruning")
    BY <1>1, <1>5
  <2> QED BY <1>2, <1>3, <2>1
<1>7. ASSUME NEW q \in DOMAIN OffsetsDR
      PROVE  /\ q \in Parts /\ OffsetsDR[q] \in Nat
             /\ \E g, n \in Nat : TableAt(d, OffsetsDR[q], q, g, n)
  BY <1>1, <1>3, <1>4
<1>8. Laid(d, OffsetsDR)
  BY <1>1, <1>6, <1>7 DEF Laid
<1> QED BY <1>8 DEF d

-----------------------------------------------------------------------------
(* What the headers of the tables say to solve_h48 and solve_coord.        *)
LEMMA HeaderKinds ==
  ASSUME NEW h \in Nat, NEW n \in Nat
  PROVE  /\ Header("cocsep", 0, n).next = n
         /\ Header("h48k2", h, n).next = n /\ Header("h48k2", h, n).bits = 2
         /\ Header("h48h0k4", h, n).next = n /\ Header("h48h0k4", h, n).bits = 4
         /\ Header("h48h0k4", h, n).h48h = 0
         /\ Header("eoesep", 0, n).bits = 4
         /\ Header("eoesep", 0, n).type = TABLETYPE_SPECIAL
         /\ Header("pruning", 0, n).type = TABLETYPE_PRUNING
         /\ Header("helper", 0, n).type = TABLETYPE_SPECIAL
         /\ Header("helper", 0, n).next = n
<1>1. /\ "cocsep" \in Parts /\ "h48k2" \in Parts /\ "h48h0k4" \in Parts
      /\ "eoesep" \in Parts /\ "pruning" \in Parts /\ "helper" \in Parts /\ 0 \in Nat
  BY DEF Parts
<1>2. /\ Header("cocsep", 0, n).next = n /\ Header("h48k2", h, n).next = n
      /\ Header("h48h0k4", h, n).next = n /\ Header("helper", 0, n).next = n
  BY <1>1, HeaderFields
<1>3. Header("h48k2", h, n).bits = 2
  BY <1>1, HeaderFields DEF Info
<1>4. Header("h48h0k4", h, n).bits = 4 /\ Header("h48h0k4", h, n).h48h = 0
  BY <1>1, HeaderFields DEF Info
<1>5. Header("eoesep", 0, n).bits = 4 /\ Header("eoesep", 0, n).type = TABLETYPE_SPECIAL
  BY <1>1, HeaderFields DEF Info
<1>6. /\ Header("pruning", 0, n).type = TABLETYPE_PRUNING
      /\ Header("helper", 0, n).type = TABLETYPE_SPECIAL
  BY <1>1, HeaderFields DEF Info
<1> QED BY <1>2, <1>3, <1>4, <1>5, <1>6

(* solve_h48, by the headers that it reads.                                *)
SecondAt(buf) == Block(buf, 0).next
Second(buf) == Block(buf, SecondAt(buf))
ThirdAt(buf) == SecondAt(buf) + Second(buf).next
Third(buf) == Block(buf, ThirdAt(buf))
FourthAt(buf) == ThirdAt(buf) + Third(buf).next
Fourth(buf) == Block(buf, FourthAt(buf))

(* What solve_h48 reads of its data: three headers, or four when the       *)
(* second has two bits for an entry.                                       *)
LEMMA H48Reads ==
  ASSUME NEW buf, SecondAt(buf) \in Nat
  PROVE  /\ /\ Second(buf).bits # 2
            /\ Third(buf).bits # 4 \/ Third(buf).type # TABLETYPE_SPECIAL
            => H48Offsets(buf) = Refused
         /\ /\ Second(buf).bits # 2
            /\ Third(buf).bits = 4 /\ Third(buf).type = TABLETYPE_SPECIAL
            /\ ~(SecondAt(buf) + INFOSIZE > Len(buf)) /\ ~(ThirdAt(buf) + INFOSIZE > Len(buf))
            => H48Offsets(buf) = [error |-> FALSE,
                 offsets |-> <<INFOSIZE, FullSize("cocsep") + INFOSIZE>> \o <<>>
                             \o <<FullSize("cocsep") + INFOSIZE + (Second(buf).next + 0)>>]
         /\ Second(buf).bits = 2 /\ (Third(buf).bits # 4 \/ Third(buf).h48h # 0) =>
              H48Offsets(buf) = Refused
         /\ Second(buf).bits = 2 /\ Fourth(buf).bits # 4 => H48Offsets(buf) = Refused
         /\ /\ Second(buf).bits = 2 /\ Third(buf).bits = 4 /\ Third(buf).h48h = 0
            /\ Fourth(buf).bits = 4 /\ Fourth(buf).type = TABLETYPE_SPECIAL
            /\ ~(SecondAt(buf) + INFOSIZE > Len(buf)) /\ ~(ThirdAt(buf) + INFOSIZE > Len(buf))
            /\ ~(FourthAt(buf) + INFOSIZE > Len(buf))
            => H48Offsets(buf) = [error |-> FALSE,
                 offsets |-> <<INFOSIZE, FullSize("cocsep") + INFOSIZE>>
                             \o <<FullSize("cocsep") + INFOSIZE + Second(buf).next>>
                             \o <<FullSize("cocsep") + INFOSIZE
                                  + (Second(buf).next + Third(buf).next)>>]
<1> DEFINE o2 == SecondAt(buf)
           i2 == Second(buf)
           o3 == ThirdAt(buf)
           i3 == Third(buf)
           o4 == FourthAt(buf)
           i4 == Fourth(buf)
<1>1. o2 = Block(buf, 0).next /\ i2 = Block(buf, o2) /\ o3 = o2 + i2.next
      /\ i3 = Block(buf, o3) /\ o4 = o3 + i3.next /\ i4 = Block(buf, o4) /\ o2 \in Nat
  BY DEF SecondAt, Second, ThirdAt, Third, FourthAt, Fourth
<1> HIDE DEF o2, i2, o3, i3, o4, i4
<1>2. InfoOffset(buf, 2) = o2 /\ InfoOffset(buf, 3) = o3 /\ InfoOffset(buf, 4) = o4
  <2>1. InfoOffset(buf, 2) = 0 + o2 /\ 0 + o2 = o2
    BY <1>1, InfoOffsets
  <2> QED BY <1>1, <2>1, InfoOffsets
<1>3. /\ readtableinfo_n(buf, 2) = i2 /\ readtableinfo_n(buf, 3) = i3
      /\ readtableinfo_n(buf, 4) = i4
  BY <1>1, <1>2 DEF readtableinfo_n
<1>4. /\ InfoFails(buf, 2) <=> o2 + INFOSIZE > Len(buf)
      /\ InfoFails(buf, 3) <=> o3 + INFOSIZE > Len(buf)
      /\ InfoFails(buf, 4) <=> o4 + INFOSIZE > Len(buf)
  BY <1>2 DEF InfoFails
<1> DEFINE h48data == FullSize("cocsep") + INFOSIZE
<1>5. ASSUME i2.bits # 2
      PROVE  H48Offsets(buf) =
               IF \/ o2 + INFOSIZE > Len(buf) \/ o3 + INFOSIZE > Len(buf)
                  \/ i3.bits # 4 \/ i3.type # TABLETYPE_SPECIAL
               THEN Refused
               ELSE [error |-> FALSE,
                     offsets |-> <<INFOSIZE, h48data>> \o <<>> \o <<h48data + (i2.next + 0)>>]
  <2>1. H48Offsets(buf) =
          IF \/ \E i \in {2, 3, 3} : InfoFails(buf, i)
             \/ i3.bits # 4
             \/ i3.type # TABLETYPE_SPECIAL
          THEN Refused
          ELSE [error |-> FALSE,
                offsets |-> <<INFOSIZE, h48data>> \o <<>> \o <<h48data + (i2.next + 0)>>]
    BY <1>3, <1>5 DEF H48Offsets
  <2> HIDE DEF h48data
  <2>2. (\E i \in {2, 3, 3} : InfoFails(buf, i)) <=> InfoFails(buf, 2) \/ InfoFails(buf, 3)
    OBVIOUS
  <2> QED BY <1>4, <2>1, <2>2
<1>6. ASSUME i2.bits = 2
      PROVE  H48Offsets(buf) =
               IF \/ o2 + INFOSIZE > Len(buf) \/ o3 + INFOSIZE > Len(buf)
                  \/ o4 + INFOSIZE > Len(buf)
                  \/ i3.h48h # 0 \/ i3.bits # 4 \/ i4.bits # 4
                  \/ i4.type # TABLETYPE_SPECIAL
               THEN Refused
               ELSE [error |-> FALSE,
                     offsets |-> <<INFOSIZE, h48data>> \o <<h48data + i2.next>>
                                 \o <<h48data + (i2.next + i3.next)>>]
  <2>1. H48Offsets(buf) =
          IF \/ \E i \in {2, 3, 4} : InfoFails(buf, i)
             \/ i3.h48h # 0 \/ i3.bits # 4
             \/ i4.bits # 4
             \/ i4.type # TABLETYPE_SPECIAL
          THEN Refused
          ELSE [error |-> FALSE,
                offsets |-> <<INFOSIZE, h48data>> \o <<h48data + i2.next>>
                            \o <<h48data + (i2.next + i3.next)>>]
    BY <1>3, <1>6 DEF H48Offsets
  <2> HIDE DEF h48data
  <2>2. (\E i \in {2, 3, 4} : InfoFails(buf, i)) <=>
          InfoFails(buf, 2) \/ InfoFails(buf, 3) \/ InfoFails(buf, 4)
    OBVIOUS
  <2> QED BY <1>4, <2>1, <2>2
<1>7. /\ i2.bits # 2 /\ (i3.bits # 4 \/ i3.type # TABLETYPE_SPECIAL) =>
           H48Offsets(buf) = Refused
      /\ i2.bits = 2 /\ (i3.bits # 4 \/ i3.h48h # 0) => H48Offsets(buf) = Refused
      /\ i2.bits = 2 /\ i4.bits # 4 => H48Offsets(buf) = Refused
  BY <1>5, <1>6
<1>8. ASSUME i2.bits # 2, i3.bits = 4, i3.type = TABLETYPE_SPECIAL,
             ~(o2 + INFOSIZE > Len(buf)), ~(o3 + INFOSIZE > Len(buf))
      PROVE  H48Offsets(buf) =
               [error |-> FALSE,
                offsets |-> <<INFOSIZE, h48data>> \o <<>> \o <<h48data + (i2.next + 0)>>]
  BY <1>5, <1>8
<1>9. ASSUME i2.bits = 2, i3.bits = 4, i3.h48h = 0, i4.bits = 4, i4.type = TABLETYPE_SPECIAL,
             ~(o2 + INFOSIZE > Len(buf)), ~(o3 + INFOSIZE > Len(buf)),
             ~(o4 + INFOSIZE > Len(buf))
      PROVE  H48Offsets(buf) =
               [error |-> FALSE,
                offsets |-> <<INFOSIZE, h48data>> \o <<h48data + i2.next>>
                            \o <<h48data + (i2.next + i3.next)>>]
  BY <1>6, <1>9
<1> QED BY <1>7, <1>8, <1>9, Zenon DEF o2, i2, o3, i3, o4, i4

(* No table is empty.                                                      *)
LEMMA SizePositive ==
  ASSUME NEW part \in Parts
  PROVE  FullSize(part) \in Nat \ {0}
<1>1. BodyLen[part] \in Nat \ {0} /\ FullSize(part) = 1 + BodyLen[part]
  BY 0 \in Nat, TableFacts
<1> QED BY <1>1

(* The offsets solve_h48 goes by, three or four.                           *)
LEMMA Joined ==
  ASSUME NEW a \in Nat, NEW b \in Nat, NEW x \in Nat, NEW y \in Nat
  PROVE  /\ <<a, b>> \o <<>> \o <<x>> = <<a, b, x>>
         /\ <<a, b>> \o <<y>> \o <<x>> = <<a, b, y, x>>
<1>1. /\ <<a, b>> \in Seq(Nat) /\ <<a, b, y>> \in Seq(Nat) /\ <<a, b, x>> \in Seq(Nat)
      /\ <<a, b, y, x>> \in Seq(Nat) /\ <<x>> \in Seq(Nat) /\ <<y>> \in Seq(Nat)
  OBVIOUS
<1>2. <<a, b>> \o <<>> = <<a, b>>
  BY <1>1, ConcatEmptySeq, Zenon
<1>3. ASSUME NEW z \in Nat PROVE <<a, b>> \o <<z>> = <<a, b, z>>
  <2> DEFINE s == <<a, b>> \o <<z>>
  <2>1. /\ s \in Seq(Nat) /\ Len(s) = Len(<<a, b>>) + Len(<<z>>)
        /\ \A i \in 1 .. Len(<<a, b>>) : s[i] = <<a, b>>[i]
        /\ \A i \in 1 .. Len(<<z>>) : s[Len(<<a, b>>) + i] = <<z>>[i]
    BY <1>1, ConcatFacts
  <2> HIDE DEF s
  <2>2. Len(s) = 3 /\ s[1] = a /\ s[2] = b /\ s[3] = z
    BY <2>1
  <2>3. <<a, b, z>> \in Seq(Nat) /\ Len(<<a, b, z>>) = 3
    OBVIOUS
  <2>4. \A i \in 1 .. Len(s) : s[i] = <<a, b, z>>[i]
    BY <2>2
  <2>5. s = <<a, b, z>>
    BY <2>1, <2>2, <2>3, <2>4, SeqEqual
  <2> QED BY <2>5 DEF s
<1>4. <<a, b, y>> \o <<x>> = <<a, b, y, x>>
  <2> DEFINE s == <<a, b, y>> \o <<x>>
  <2>1. /\ s \in Seq(Nat) /\ Len(s) = Len(<<a, b, y>>) + Len(<<x>>)
        /\ \A i \in 1 .. Len(<<a, b, y>>) : s[i] = <<a, b, y>>[i]
        /\ \A i \in 1 .. Len(<<x>>) : s[Len(<<a, b, y>>) + i] = <<x>>[i]
    BY <1>1, ConcatFacts
  <2> HIDE DEF s
  <2>2. Len(s) = 4 /\ s[1] = a /\ s[2] = b /\ s[3] = y /\ s[4] = x
    BY <2>1
  <2>3. <<a, b, y, x>> \in Seq(Nat) /\ Len(<<a, b, y, x>>) = 4
    OBVIOUS
  <2>4. \A i \in 1 .. Len(s) : s[i] = <<a, b, y, x>>[i]
    BY <2>2
  <2>5. s = <<a, b, y, x>>
    BY <2>1, <2>2, <2>3, <2>4, SeqEqual
  <2> QED BY <2>5 DEF s
<1> QED BY <1>2, <1>3, <1>4

(* A block that was never written.                                         *)
ZeroIsEmpty == Zero.next = 0 /\ Zero.bits = 0 /\ Zero.type = 0 /\ Zero.h48h = 0

(* A hole, read as a header, has zeros.                                    *)
LEMMA ZeroFields == ZeroIsEmpty
BY DEF ZeroIsEmpty, Zero

(* Data with blocks that were never written: a hole in place of a header   *)
(* makes solve_h48 refuse them, and nothing else moves a table.            *)
WithHoles(buf, d) ==
  Len(buf) = Len(d) /\ \A i \in 1 .. Len(d) : buf[i] = Zero \/ buf[i] = d[i]

(* With k = 4 solve_h48 refuses data with a hole in place of a header,     *)
(* whichever of the three, and otherwise finds each table at its place.    *)
THEOREM HolesK4 ==
  ASSUME NEW h \in Nat, NEW d, d = gendata_h48(h, 4), NEW buf, WithHoles(buf, d)
  PROVE  /\ (\E q \in DOMAIN OffsetsK4 : buf[OffsetsK4[q] + 1] = Zero) =>
              H48Offsets(buf) = Refused
         /\ (\A q \in DOMAIN OffsetsK4 : buf[OffsetsK4[q] + 1] # Zero) =>
              H48Offsets(buf) =
                [error |-> FALSE,
                 offsets |-> <<OffsetsK4["cocsep"] + 1, OffsetsK4["h48h0k4"] + 1,
                               OffsetsK4["eoesep"] + 1>>]
<1> DEFINE c == FullSize("cocsep")
           m == FullSize("h48h0k4")
           e == FullSize("eoesep")
<1>1. /\ c \in Nat /\ m \in Nat /\ e \in Nat
      /\ Three(d, c + m + e, "h48h0k4", h, m, c + m, "eoesep", 0)
  BY DataOfH48k4
<1>2. c \in Nat \ {0} /\ m \in Nat \ {0} /\ e \in Nat \ {0}
  <2>1. "cocsep" \in Parts /\ "h48h0k4" \in Parts /\ "eoesep" \in Parts /\ 0 \in Nat
    BY DEF Parts
  <2>2. c \in Nat \ {0}
    BY <2>1, SizePositive
  <2>3. m \in Nat \ {0}
    BY <2>1, SizePositive
  <2>4. e \in Nat \ {0}
    BY <2>1, SizePositive
  <2> QED BY <2>2, <2>3, <2>4
<1>3. c = FullSize("cocsep") /\ m = FullSize("h48h0k4") /\ e = FullSize("eoesep")
  OBVIOUS
<1> HIDE DEF c, m, e
<1>4. /\ DOMAIN OffsetsK4 = {"cocsep", "h48h0k4", "eoesep"}
      /\ OffsetsK4["cocsep"] = 0 /\ OffsetsK4["h48h0k4"] = c /\ OffsetsK4["eoesep"] = c + m
  BY <1>3 DEF OffsetsK4
<1> DEFINE h1 == Header("cocsep", 0, c)
           h2 == Header("h48h0k4", h, m)
           h3 == Header("eoesep", 0, 0)
<1>5. /\ h1.next = c /\ h2.next = m /\ h2.bits = 4 /\ h3.bits = 4
      /\ h3.type = TABLETYPE_SPECIAL
  BY <1>1, 0 \in Nat, HeaderKinds
<1> HIDE DEF h1, h2, h3
<1>6. /\ d \in Seq(BlockType) /\ Len(d) = c + m + e
      /\ d[0 + 1] = h1 /\ d[c + 1] = h2 /\ d[c + m + 1] = h3
  BY <1>1, <1>3 DEF Three, Two, TableAt, h1, h2, h3
<1>7. Len(buf) = c + m + e /\ \A i \in 1 .. c + m + e : buf[i] = Zero \/ buf[i] = d[i]
  BY <1>6 DEF WithHoles
<1>8. /\ Block(buf, 0) = buf[0 + 1] /\ Block(buf, c) = buf[c + 1]
      /\ Block(buf, c + m) = buf[c + m + 1]
  BY <1>2, <1>7 DEF Block
<1>9. /\ 0 + 1 \in 1 .. c + m + e /\ c + 1 \in 1 .. c + m + e
      /\ c + m + 1 \in 1 .. c + m + e
  BY <1>2
<1>10. /\ Block(buf, 0) = Zero \/ Block(buf, 0) = h1
       /\ Block(buf, c) = Zero \/ Block(buf, c) = h2
       /\ Block(buf, c + m) = Zero \/ Block(buf, c + m) = h3
  BY <1>6, <1>7, <1>8, <1>9
<1> DEFINE o2 == SecondAt(buf)
           i2 == Second(buf)
           o3 == ThirdAt(buf)
           i3 == Third(buf)
<1> HIDE DEF o2, i2, o3, i3
<1>11. o2 = Block(buf, 0).next /\ i2 = Block(buf, o2) /\ o3 = o2 + i2.next
      /\ i3 = Block(buf, o3)
  BY DEF SecondAt, Second, ThirdAt, Third, o2, i2, o3, i3
<1>12. o2 \in Nat
  BY <1>11, <1>1, <1>5, <1>10, ZeroFields DEF ZeroIsEmpty
<1>13. i2.bits # 2 /\ (i3.bits # 4 \/ i3.type # TABLETYPE_SPECIAL) => H48Offsets(buf) = Refused
  BY <1>12, H48Reads DEF o2, i2, i3
<1>14. ASSUME Block(buf, 0) = Zero \/ Block(buf, c) = Zero \/ Block(buf, c + m) = Zero
       PROVE  H48Offsets(buf) = Refused
  <2>1. CASE Block(buf, 0) = Zero
    <3>1. o2 = 0
      BY <1>11, <2>1, ZeroFields DEF ZeroIsEmpty
    <3>2. i2 = Zero
      BY <1>11, <2>1, <3>1
    <3>3. o3 = 0
      BY <1>11, <3>1, <3>2, ZeroFields DEF ZeroIsEmpty
    <3>4. i3 = Zero
      BY <1>11, <2>1, <3>3
    <3> QED BY <1>13, <3>2, <3>4, ZeroFields DEF ZeroIsEmpty
  <2>2. CASE Block(buf, 0) = h1 /\ Block(buf, c) = Zero
    <3>1. o2 = c
      BY <1>11, <1>5, <2>2
    <3>2. i2 = Zero
      BY <1>11, <2>2, <3>1
    <3>3. o3 = c
      BY <1>11, <1>1, <3>1, <3>2, ZeroFields DEF ZeroIsEmpty
    <3>4. i3 = Zero
      BY <1>11, <2>2, <3>3
    <3> QED BY <1>13, <3>2, <3>4, ZeroFields DEF ZeroIsEmpty
  <2>3. CASE Block(buf, 0) = h1 /\ Block(buf, c) = h2 /\ Block(buf, c + m) = Zero
    <3>1. o2 = c
      BY <1>11, <1>5, <2>3
    <3>2. i2 = h2
      BY <1>11, <2>3, <3>1
    <3>3. o3 = c + m
      BY <1>11, <1>5, <3>1, <3>2
    <3>4. i3 = Zero
      BY <1>11, <2>3, <3>3
    <3> QED BY <1>5, <1>13, <3>2, <3>4, ZeroFields DEF ZeroIsEmpty
  <2> QED BY <1>10, <1>14, <2>1, <2>2, <2>3
<1>15. ASSUME Block(buf, 0) # Zero, Block(buf, c) # Zero, Block(buf, c + m) # Zero
       PROVE  H48Offsets(buf) = [error |-> FALSE, offsets |-> <<0 + 1, c + 1, c + m + 1>>]
  <2>1. o2 = c
    BY <1>11, <1>5, <1>10, <1>15
  <2>2. i2 = h2
    BY <1>11, <1>10, <1>15, <2>1
  <2>3. o3 = c + m
    BY <1>11, <1>5, <2>1, <2>2
  <2>4. i3 = h3
    BY <1>11, <1>10, <1>15, <2>3
  <2>5. ~(o2 + INFOSIZE > Len(buf)) /\ ~(o3 + INFOSIZE > Len(buf))
    BY <1>2, <1>7, <2>1, <2>3 DEF INFOSIZE
  <2>6. i2.bits # 2 /\ i3.bits = 4 /\ i3.type = TABLETYPE_SPECIAL
    BY <1>5, <2>2, <2>4
  <2>8. H48Offsets(buf) = [error |-> FALSE,
          offsets |-> <<INFOSIZE, FullSize("cocsep") + INFOSIZE>> \o <<>>
                      \o <<FullSize("cocsep") + INFOSIZE + (i2.next + 0)>>]
    BY <1>12, <2>5, <2>6, H48Reads DEF o2, i2, o3, i3
  <2>9. <<INFOSIZE, FullSize("cocsep") + INFOSIZE>> \o <<>>
          \o <<FullSize("cocsep") + INFOSIZE + (i2.next + 0)>> = <<0 + 1, c + 1, c + m + 1>>
    <3>1. /\ INFOSIZE = 0 + 1 /\ FullSize("cocsep") + INFOSIZE = c + 1
          /\ FullSize("cocsep") + INFOSIZE + (i2.next + 0) = c + m + 1
      BY <1>1, <1>3, <1>5, <2>2 DEF INFOSIZE
    <3> QED BY <3>1, <1>1, <1>2, Joined
  <2> QED BY <2>8, <2>9
<1>16. /\ (\E q \in DOMAIN OffsetsK4 : buf[OffsetsK4[q] + 1] = Zero) <=>
            (Block(buf, 0) = Zero \/ Block(buf, c) = Zero \/ Block(buf, c + m) = Zero)
  BY <1>4, <1>8
<1> QED BY <1>4, <1>14, <1>15, <1>16

(* With k = 2 it refuses data with a hole in place of any of the four      *)
(* headers, and otherwise finds each table at its place.                   *)
THEOREM HolesK2 ==
  ASSUME NEW h \in Nat, NEW d, d = gendata_h48(h, 2), NEW buf, WithHoles(buf, d)
  PROVE  /\ (\E q \in DOMAIN OffsetsK2 : buf[OffsetsK2[q] + 1] = Zero) =>
              H48Offsets(buf) = Refused
         /\ (\A q \in DOMAIN OffsetsK2 : buf[OffsetsK2[q] + 1] # Zero) =>
              H48Offsets(buf) =
                [error |-> FALSE,
                 offsets |-> <<OffsetsK2["cocsep"] + 1, OffsetsK2["h48k2"] + 1,
                               OffsetsK2["h48h0k4"] + 1, OffsetsK2["eoesep"] + 1>>]
<1> DEFINE c == FullSize("cocsep")
           m == FullSize("h48k2")
           f == FullSize("h48h0k4")
           e == FullSize("eoesep")
<1>1. /\ c \in Nat /\ m \in Nat /\ f \in Nat /\ e \in Nat
      /\ Four(d, c + m + f + e, "h48k2", h, m, c + m, f, c + m + f)
  BY DataOfH48k2
<1>2. c \in Nat \ {0} /\ m \in Nat \ {0} /\ f \in Nat \ {0} /\ e \in Nat \ {0}
  <2>1. "cocsep" \in Parts /\ "h48k2" \in Parts /\ "h48h0k4" \in Parts /\ "eoesep" \in Parts
    BY DEF Parts
  <2>2. c \in Nat \ {0} /\ m \in Nat \ {0}
    BY <2>1, SizePositive
  <2>3. f \in Nat \ {0} /\ e \in Nat \ {0}
    BY <2>1, SizePositive
  <2> QED BY <2>2, <2>3
<1>3. c = FullSize("cocsep") /\ m = FullSize("h48k2") /\ f = FullSize("h48h0k4")
      /\ e = FullSize("eoesep")
  OBVIOUS
<1> HIDE DEF c, m, f, e
<1>4. /\ DOMAIN OffsetsK2 = {"cocsep", "h48k2", "h48h0k4", "eoesep"}
      /\ OffsetsK2["cocsep"] = 0 /\ OffsetsK2["h48k2"] = c
      /\ OffsetsK2["h48h0k4"] = c + m /\ OffsetsK2["eoesep"] = c + m + f
  BY <1>3 DEF OffsetsK2
<1> DEFINE h1 == Header("cocsep", 0, c)
           h2 == Header("h48k2", h, m)
           h3 == Header("h48h0k4", 0, f)
           h4 == Header("eoesep", 0, 0)
<1>5. /\ h1.next = c /\ h2.next = m /\ h2.bits = 2
      /\ h3.next = f /\ h3.bits = 4 /\ h3.h48h = 0
      /\ h4.bits = 4 /\ h4.type = TABLETYPE_SPECIAL
  BY <1>1, 0 \in Nat, HeaderKinds
<1> HIDE DEF h1, h2, h3, h4
<1>6. /\ d \in Seq(BlockType) /\ Len(d) = c + m + f + e
      /\ d[0 + 1] = h1 /\ d[c + 1] = h2 /\ d[c + m + 1] = h3 /\ d[c + m + f + 1] = h4
  BY <1>1, <1>3 DEF Four, Three, Two, TableAt, h1, h2, h3, h4
<1>7. Len(buf) = c + m + f + e /\ \A i \in 1 .. c + m + f + e : buf[i] = Zero \/ buf[i] = d[i]
  BY <1>6 DEF WithHoles
<1>8. /\ Block(buf, 0) = buf[0 + 1] /\ Block(buf, c) = buf[c + 1]
      /\ Block(buf, c + m) = buf[c + m + 1] /\ Block(buf, c + m + f) = buf[c + m + f + 1]
  BY <1>2, <1>7 DEF Block
<1>9. /\ 0 + 1 \in 1 .. c + m + f + e /\ c + 1 \in 1 .. c + m + f + e
      /\ c + m + 1 \in 1 .. c + m + f + e /\ c + m + f + 1 \in 1 .. c + m + f + e
  BY <1>2
<1>10. /\ Block(buf, 0) = Zero \/ Block(buf, 0) = h1
       /\ Block(buf, c) = Zero \/ Block(buf, c) = h2
       /\ Block(buf, c + m) = Zero \/ Block(buf, c + m) = h3
       /\ Block(buf, c + m + f) = Zero \/ Block(buf, c + m + f) = h4
  BY <1>6, <1>7, <1>8, <1>9
<1> DEFINE o2 == SecondAt(buf)
           i2 == Second(buf)
           o3 == ThirdAt(buf)
           i3 == Third(buf)
           o4 == FourthAt(buf)
           i4 == Fourth(buf)
<1> HIDE DEF o2, i2, o3, i3, o4, i4
<1>11. o2 = Block(buf, 0).next /\ i2 = Block(buf, o2) /\ o3 = o2 + i2.next
       /\ i3 = Block(buf, o3) /\ o4 = o3 + i3.next /\ i4 = Block(buf, o4)
  BY DEF SecondAt, Second, ThirdAt, Third, FourthAt, Fourth, o2, i2, o3, i3, o4, i4
<1>12. o2 \in Nat
  BY <1>1, <1>5, <1>10, <1>11, ZeroFields DEF ZeroIsEmpty
<1>13. /\ i2.bits # 2 /\ i3.bits # 4 => H48Offsets(buf) = Refused
       /\ i2.bits = 2 /\ (i3.bits # 4 \/ i4.bits # 4) => H48Offsets(buf) = Refused
  BY <1>12, H48Reads DEF o2, i2, i3, i4
<1>14. ASSUME \/ Block(buf, 0) = Zero \/ Block(buf, c) = Zero
              \/ Block(buf, c + m) = Zero \/ Block(buf, c + m + f) = Zero
       PROVE  H48Offsets(buf) = Refused
  <2>1. CASE Block(buf, 0) = Zero
    <3>1. o2 = 0
      BY <1>11, <2>1, ZeroFields DEF ZeroIsEmpty
    <3>2. i2 = Zero
      BY <1>11, <2>1, <3>1
    <3>3. o3 = 0
      BY <1>11, <3>1, <3>2, ZeroFields DEF ZeroIsEmpty
    <3>4. i3 = Zero
      BY <1>11, <2>1, <3>3
    <3> QED BY <1>13, <3>2, <3>4, ZeroFields DEF ZeroIsEmpty
  <2>2. CASE Block(buf, 0) = h1 /\ Block(buf, c) = Zero
    <3>1. o2 = c
      BY <1>5, <1>11, <2>2
    <3>2. i2 = Zero
      BY <1>11, <2>2, <3>1
    <3>3. o3 = c
      BY <1>1, <1>11, <3>1, <3>2, ZeroFields DEF ZeroIsEmpty
    <3>4. i3 = Zero
      BY <1>11, <2>2, <3>3
    <3> QED BY <1>13, <3>2, <3>4, ZeroFields DEF ZeroIsEmpty
  <2>3. CASE Block(buf, 0) = h1 /\ Block(buf, c) = h2
    <3>1. o2 = c
      BY <1>5, <1>11, <2>3
    <3>2. i2 = h2
      BY <1>11, <2>3, <3>1
    <3>3. o3 = c + m
      BY <1>5, <1>11, <3>1, <3>2
    <3>4. i3 = Block(buf, c + m)
      BY <1>11, <3>3
    <3>5. CASE Block(buf, c + m) = Zero
      BY <1>5, <1>13, <3>2, <3>4, <3>5, ZeroFields DEF ZeroIsEmpty
    <3>6. CASE Block(buf, c + m) = h3 /\ Block(buf, c + m + f) = Zero
      <4>1. i3 = h3
        BY <3>4, <3>6
      <4>2. o4 = c + m + f
        BY <1>5, <1>11, <3>3, <4>1
      <4>3. i4 = Zero
        BY <1>11, <3>6, <4>2
      <4> QED BY <1>5, <1>13, <3>2, <4>3, ZeroFields DEF ZeroIsEmpty
    <3>7. CASE Block(buf, c + m) = h3 /\ Block(buf, c + m + f) = h4
      <4>1. h1 # Zero /\ h2 # Zero /\ h3 # Zero /\ h4 # Zero
        BY <1>2, <1>5, ZeroFields DEF ZeroIsEmpty
      <4> QED BY <1>14, <2>3, <3>7, <4>1
    <3> QED BY <1>10, <3>5, <3>6, <3>7
  <2> QED BY <1>10, <2>1, <2>2, <2>3
<1>15. ASSUME Block(buf, 0) # Zero, Block(buf, c) # Zero, Block(buf, c + m) # Zero,
              Block(buf, c + m + f) # Zero
       PROVE  H48Offsets(buf) =
                [error |-> FALSE, offsets |-> <<0 + 1, c + 1, c + m + 1, c + m + f + 1>>]
  <2>1. o2 = c
    BY <1>5, <1>10, <1>11, <1>15
  <2>2. i2 = h2
    BY <1>10, <1>11, <1>15, <2>1
  <2>3. o3 = c + m
    BY <1>5, <1>11, <2>1, <2>2
  <2>4. i3 = h3
    BY <1>10, <1>11, <1>15, <2>3
  <2>5. o4 = c + m + f
    BY <1>5, <1>11, <2>3, <2>4
  <2>6. i4 = h4
    BY <1>10, <1>11, <1>15, <2>5
  <2>7. /\ ~(o2 + INFOSIZE > Len(buf)) /\ ~(o3 + INFOSIZE > Len(buf))
        /\ ~(o4 + INFOSIZE > Len(buf))
    BY <1>2, <1>7, <2>1, <2>3, <2>5 DEF INFOSIZE
  <2>8. /\ i2.bits = 2 /\ i3.bits = 4 /\ i3.h48h = 0
        /\ i4.bits = 4 /\ i4.type = TABLETYPE_SPECIAL
    BY <1>5, <2>2, <2>4, <2>6
  <2>9. H48Offsets(buf) = [error |-> FALSE,
          offsets |-> <<INFOSIZE, FullSize("cocsep") + INFOSIZE>>
                      \o <<FullSize("cocsep") + INFOSIZE + i2.next>>
                      \o <<FullSize("cocsep") + INFOSIZE + (i2.next + i3.next)>>]
    BY <1>12, <2>7, <2>8, H48Reads DEF o2, i2, o3, i3, o4, i4
  <2>10. <<INFOSIZE, FullSize("cocsep") + INFOSIZE>>
           \o <<FullSize("cocsep") + INFOSIZE + i2.next>>
           \o <<FullSize("cocsep") + INFOSIZE + (i2.next + i3.next)>>
         = <<0 + 1, c + 1, c + m + 1, c + m + f + 1>>
    <3>1. /\ INFOSIZE = 0 + 1 /\ FullSize("cocsep") + INFOSIZE = c + 1
          /\ FullSize("cocsep") + INFOSIZE + i2.next = c + m + 1
          /\ FullSize("cocsep") + INFOSIZE + (i2.next + i3.next) = c + m + f + 1
      BY <1>1, <1>3, <1>5, <2>2, <2>4 DEF INFOSIZE
    <3>2. 0 + 1 \in Nat /\ c + 1 \in Nat /\ c + m + 1 \in Nat /\ c + m + f + 1 \in Nat
      BY <1>1
    <3> QED BY <3>1, <3>2, Joined
  <2> QED BY <2>9, <2>10
<1>16. /\ (\E q \in DOMAIN OffsetsK2 : buf[OffsetsK2[q] + 1] = Zero) <=>
            \/ Block(buf, 0) = Zero \/ Block(buf, c) = Zero
            \/ Block(buf, c + m) = Zero \/ Block(buf, c + m + f) = Zero
  BY <1>4, <1>8
<1> QED BY <1>4, <1>14, <1>15, <1>16

(* solve_coord, given whole data.                                          *)
LEMMA WholeEO ==
  CoordOffsets(gendata_coord(1)) = [error |-> FALSE, offsets |-> <<OffsetsEO["pruning"] + 1>>]
<1> DEFINE d == gendata_coord(1)
<1>1. d \in Seq(BlockType) /\ Len(d) = FullSize("pruning") /\ TableAt(d, 0, "pruning", 0, 0)
  BY DataOfCoord
<1> HIDE DEF d
<1>2. "pruning" \in Parts /\ 0 \in Nat /\ OffsetsEO["pruning"] = 0
  BY DEF Parts, OffsetsEO
<1>3. Block(d, 0) = Header("pruning", 0, 0)
  BY <1>1, <1>2, BlockAtHeader
<1>4. readtableinfo_n(d, 1) = Block(d, 0)
  BY InfoOffsets DEF readtableinfo_n
<1>5. CoordOffsets(d) = [error |-> FALSE, offsets |-> <<INFOSIZE>>]
  <2>1. readtableinfo_n(d, 1).type = TABLETYPE_PRUNING
    BY <1>2, <1>3, <1>4, HeaderKinds
  <2> QED BY <2>1 DEF CoordOffsets
<1>6. INFOSIZE = OffsetsEO["pruning"] + 1
  BY <1>2 DEF INFOSIZE
<1> QED BY <1>5, <1>6, Zenon DEF d

(* solve_coord, given whole data with a helper table.                      *)
LEMMA WholeDR ==
  CoordOffsets(gendata_coord(2)) =
    [error |-> FALSE, offsets |-> <<OffsetsDR["helper"] + 1, OffsetsDR["pruning"] + 1>>]
<1> DEFINE d == gendata_coord(2)
           c == FullSize("helper")
<1>1. /\ c \in Nat /\ d \in Seq(BlockType) /\ Len(d) = c + FullSize("pruning")
      /\ TableAt(d, 0, "helper", 0, c) /\ TableAt(d, c, "pruning", 0, 0)
  BY DataOfCoordHelped
<1>2. OffsetsDR["helper"] = 0 /\ OffsetsDR["pruning"] = c
  BY DEF OffsetsDR
<1> HIDE DEF d, c
<1>3. "helper" \in Parts /\ 0 \in Nat
  BY DEF Parts
<1>4. Block(d, 0) = Header("helper", 0, c)
  BY <1>1, <1>3, BlockAtHeader
<1>5. readtableinfo_n(d, 1) = Block(d, 0)
  BY InfoOffsets DEF readtableinfo_n
<1>6. /\ Header("helper", 0, c).next = c
      /\ Header("helper", 0, c).type # TABLETYPE_PRUNING
  BY <1>1, <1>3, HeaderKinds DEF TABLETYPE_PRUNING, TABLETYPE_SPECIAL
<1>7. CoordOffsets(d) = [error |-> FALSE, offsets |-> <<INFOSIZE, c + INFOSIZE>>]
  BY <1>4, <1>5, <1>6 DEF CoordOffsets
<1>8. INFOSIZE = OffsetsDR["helper"] + 1 /\ c + INFOSIZE = OffsetsDR["pruning"] + 1
  BY <1>1, <1>2 DEF INFOSIZE
<1> QED BY <1>7, <1>8, Zenon DEF d

-----------------------------------------------------------------------------
(* checkdata, of data with holes: it finds a hole in the header of a table *)
(* and, where it counts entries, in its data.                              *)
Uncounted == {"eoesep", "helper"}
TableRight(buf, d, off, q) ==
  \A i \in off[q] + 1 .. off[q] + FullSize(q) :
    buf[i] = d[i] \/ (q \in Uncounted /\ i > off[q] + 1)

(* checkdata of one table: it is right, header and counted blocks.         *)
LEMMA CheckedTable ==
  ASSUME NEW d, NEW off, Laid(d, off), NEW buf, WithHoles(buf, d), NEW q \in DOMAIN off
  PROVE  /\ checkdata(buf, off[q]) <=> TableRight(buf, d, off, q)
         /\ off[q] < Len(buf)
         /\ Block(buf, off[q]) = Zero \/ Block(buf, off[q]) = d[off[q] + 1]
         /\ checkdata(buf, off[q]) => Block(buf, off[q]) = d[off[q] + 1]
<1>1. /\ q \in Parts /\ off[q] \in Nat /\ BodyLen[q] \in Nat \ {0}
      /\ FullSize(q) = 1 + BodyLen[q]
  BY LaidTable
<1>2. Len(d) \in Nat /\ Len(buf) = Len(d)
  BY DEF Laid, WithHoles
<1> DEFINE o == off[q]
<1>3. ASSUME NEW j \in 0 .. BodyLen[q]
      PROVE  /\ o + 1 + j \in 1 .. Len(d)
             /\ Block(buf, o + j) = buf[o + 1 + j]
             /\ d[o + 1 + j].of = q /\ d[o + 1 + j].at = j
             /\ j > 0 => d[o + 1 + j] = Body(q, j)
  <2>1. ASSUME NEW i, i = o + 1 + j
        PROVE  /\ i \in 1 .. Len(d) /\ d[i].of = q /\ d[i].at = j
               /\ j > 0 => d[i] = Body(q, j)
    <3>1. i \in off[q] + 1 .. off[q] + FullSize(q) /\ i - off[q] - 1 = j
          /\ (j > 0 => i > off[q] + 1)
      BY <1>1, <2>1
    <3> QED BY <3>1, InTable
  <2>2. o + j < Len(buf) /\ o + j + 1 = o + 1 + j
    BY <1>1, <1>2, <2>1
  <2> QED BY <2>1, <2>2 DEF Block
<1>4. 0 \in 0 .. BodyLen[q] /\ o + 0 = o /\ o + 1 + 0 = o + 1
  BY <1>1
<1>5. /\ o + 1 \in 1 .. Len(d) /\ Block(buf, o) = buf[o + 1]
      /\ d[o + 1].of = q /\ d[o + 1].at = 0
  BY <1>3, <1>4
<1>6. Block(buf, o) = Zero \/ Block(buf, o) = d[o + 1]
  BY <1>5 DEF WithHoles
<1>7. CASE Block(buf, o) # d[o + 1]
  <2>1. Block(buf, o).of = "none" /\ "none" \notin Parts
    BY <1>6, <1>7 DEF Zero, Parts
  <2>2. ~checkdata(buf, o)
    BY <2>1 DEF checkdata
  <2>3. ~TableRight(buf, d, off, q)
    <3>1. o + 1 \in off[q] + 1 .. off[q] + FullSize(q) /\ ~(o + 1 > off[q] + 1)
      BY <1>1
    <3> QED BY <1>5, <1>7, <3>1 DEF TableRight
  <2> QED BY <1>1, <1>2, <1>5, <1>6, <2>2, <2>3
<1>8. CASE Block(buf, o) = d[o + 1]
  <2>1. checkdata(buf, o) <=>
          (q \notin Uncounted =>
             \A i \in 1 .. BodyLen[q] : Block(buf, o + i) = Body(q, i))
    BY <1>1, <1>5, <1>8 DEF checkdata, Uncounted
  <2>2. \A i \in 1 .. BodyLen[q] : /\ Block(buf, o + i) = buf[o + 1 + i]
                                   /\ d[o + 1 + i] = Body(q, i)
    <3>1. \A i \in 1 .. BodyLen[q] : i \in 0 .. BodyLen[q] /\ i > 0
      OBVIOUS
    <3> QED BY <1>3, <3>1
  <2>3. checkdata(buf, o) <=>
          (q \notin Uncounted => \A i \in 1 .. BodyLen[q] : buf[o + 1 + i] = d[o + 1 + i])
    BY <2>1, <2>2
  <2>4. ASSUME checkdata(buf, o), NEW i \in off[q] + 1 .. off[q] + FullSize(q),
               q \notin Uncounted \/ ~(i > off[q] + 1)
        PROVE  buf[i] = d[i]
    <3>1. CASE i = o + 1
      BY <1>5, <1>8, <3>1
    <3>2. CASE i # o + 1
      <4>1. i - o - 1 \in 1 .. BodyLen[q] /\ o + 1 + (i - o - 1) = i /\ i > off[q] + 1
        BY <1>1, <3>2
      <4> QED BY <2>3, <2>4, <4>1
    <3> QED BY <3>1, <3>2
  <2>5. ASSUME TableRight(buf, d, off, q) PROVE checkdata(buf, o)
    <3>1. ASSUME q \notin Uncounted, NEW i \in 1 .. BodyLen[q]
          PROVE  buf[o + 1 + i] = d[o + 1 + i]
      <4>1. o + 1 + i \in off[q] + 1 .. off[q] + FullSize(q)
        BY <1>1
      <4> QED BY <2>5, <3>1, <4>1 DEF TableRight
    <3> QED BY <2>3, <3>1
  <2>6. checkdata(buf, o) => TableRight(buf, d, off, q)
    BY <2>4 DEF TableRight
  <2> QED BY <1>1, <1>2, <1>5, <1>8, <2>5, <2>6
<1> QED BY <1>7, <1>8

(* nissy_checkdata goes from a header to the next: where that comes to an  *)
(* end, it is what it says of itself.                                      *)
HeadersLeft(buf, left) ==
  /\ left \in [0 .. Len(buf) -> 0 .. 3]
  /\ \A o \in 0 .. Len(buf) : Block(buf, o).next # 0 =>
       /\ o + Block(buf, o).next \in 0 .. Len(buf)
       /\ left[o + Block(buf, o).next] = left[o] - 1
IsValid(buf, valid) ==
  \A o \in 0 .. Len(buf) : valid[o] =
    (/\ o < Len(buf) /\ checkdata(buf, o)
     /\ Block(buf, o).next # 0 => valid[o + Block(buf, o).next])

(* nissy_checkdata goes from header to header; that ends if the headers    *)
(* do, as the steps left from one to the end show.                         *)
LEMMA Checked ==
  ASSUME NEW buf, Len(buf) \in Nat, NEW left, HeadersLeft(buf, left)
  PROVE  \E valid : nissy_checkdata(buf) = valid[0] /\ IsValid(buf, valid)
<1> DEFINE next(o) == Block(buf, o).next
           ok(o) == o < Len(buf) /\ checkdata(buf, o)
           v0(o) == ok(o)
           v1(o) == ok(o) /\ (next(o) # 0 => v0(o + next(o)))
           v2(o) == ok(o) /\ (next(o) # 0 => v1(o + next(o)))
           v3(o) == ok(o) /\ (next(o) # 0 => v2(o + next(o)))
           v(o) == IF left[o] = 0 THEN v0(o) ELSE IF left[o] = 1 THEN v1(o)
                   ELSE IF left[o] = 2 THEN v2(o) ELSE v3(o)
           Step(f, o) == /\ o < Len(buf) /\ checkdata(buf, o)
                         /\ Block(buf, o).next # 0 => f[o + Block(buf, o).next]
           Valid(f) == f = [o \in 0 .. Len(buf) |-> Step(f, o)]
           w == [o \in 0 .. Len(buf) |-> v(o)]
<1>1. /\ left \in [0 .. Len(buf) -> 0 .. 3]
      /\ \A o \in 0 .. Len(buf) : Block(buf, o).next # 0 =>
           /\ o + Block(buf, o).next \in 0 .. Len(buf)
           /\ left[o + Block(buf, o).next] = left[o] - 1
  BY DEF HeadersLeft
<1>2. nissy_checkdata(buf) = (CHOOSE f : Valid(f))[0]
  BY DEF nissy_checkdata
<1>3. ASSUME NEW o \in 0 .. Len(buf) PROVE v(o) = Step(w, o)
  <2>1. left[o] \in {0, 1, 2, 3}
    BY <1>1
  <2>2. CASE next(o) = 0
    BY <2>1, <2>2
  <2>3. CASE next(o) # 0
    <3>1. o + next(o) \in 0 .. Len(buf) /\ left[o + next(o)] = left[o] - 1
      BY <1>1, <2>3
    <3>2. left[o] \in {1, 2, 3} /\ left[o + next(o)] \in 0 .. 3
      BY <1>1, <2>1, <3>1
    <3>3. w[o + next(o)] = v(o + next(o))
      BY <3>1
    <3> HIDE DEF w
    <3>4. CASE left[o] = 1
      <4>1. left[o + next(o)] = 0
        BY <3>1, <3>4
      <4>2. v(o + next(o)) = v0(o + next(o)) /\ v(o) = v1(o)
        BY <3>4, <4>1
      <4>3. w[o + next(o)] = v0(o + next(o))
        BY <3>3, <4>2, Zenon
      <4> HIDE DEF v0, v
      <4>4. v1(o) = Step(w, o)
        BY <4>3
      <4> QED BY <4>2, <4>4
    <3>5. CASE left[o] = 2
      <4>1. left[o + next(o)] = 1
        BY <3>1, <3>5
      <4>2. v(o + next(o)) = v1(o + next(o)) /\ v(o) = v2(o)
        BY <3>5, <4>1
      <4>3. w[o + next(o)] = v1(o + next(o))
        BY <3>3, <4>2, Zenon
      <4> HIDE DEF v1, v
      <4>4. v2(o) = Step(w, o)
        BY <4>3
      <4> QED BY <4>2, <4>4
    <3>6. CASE left[o] = 3
      <4>1. left[o + next(o)] = 2
        BY <3>1, <3>6
      <4>2. v(o + next(o)) = v2(o + next(o)) /\ v(o) = v3(o)
        BY <3>6, <4>1
      <4>3. w[o + next(o)] = v2(o + next(o))
        BY <3>3, <4>2, Zenon
      <4> HIDE DEF v2, v
      <4>4. v3(o) = Step(w, o)
        BY <4>3
      <4> QED BY <4>2, <4>4
    <3> QED BY <3>2, <3>4, <3>5, <3>6
  <2> QED BY <2>2, <2>3
<1>4. Valid(w)
  BY <1>3
<1> HIDE DEF w
<1>5. Valid(CHOOSE f : Valid(f))
  BY <1>4
<1> DEFINE valid == CHOOSE f : Valid(f)
<1> HIDE DEF valid
<1>6. \A o \in 0 .. Len(buf) : valid[o] = Step(valid, o)
  BY <1>5 DEF valid
<1>7. IsValid(buf, valid)
  BY <1>6 DEF IsValid
<1>8. nissy_checkdata(buf) = valid[0]
  BY <1>2 DEF valid
<1> QED BY <1>7, <1>8

(* The tables in the order in which the headers link them.                 *)
Chain(d, off, ch, n) ==
  /\ n \in 1 .. 4 /\ ch \in [1 .. n -> DOMAIN off] /\ off[ch[1]] = 0
  /\ \A q \in DOMAIN off : \E k \in 1 .. n : ch[k] = q
  /\ \A k \in 1 .. n : \A j \in 1 .. n : off[ch[j]] = off[ch[k]] => j = k
  /\ \A k \in 1 .. n - 1 : off[ch[k]] + d[off[ch[k]] + 1].next = off[ch[k + 1]]
  /\ d[off[ch[n]] + 1].next = 0

(* Where a header is followed by another it says so.                       *)
LEMMA ChainNext ==
  ASSUME NEW d, NEW off, Laid(d, off), NEW ch, NEW n, Chain(d, off, ch, n),
         NEW buf, WithHoles(buf, d), NEW o \in 0 .. Len(buf), Block(buf, o).next # 0
  PROVE  \E k \in 1 .. n - 1 :
           o = off[ch[k]] /\ o + Block(buf, o).next = off[ch[k + 1]]
<1>1. Len(d) \in Nat /\ Len(buf) = Len(d) /\ n \in 1 .. 4
  BY DEF Laid, WithHoles, Chain
<1>2. o < Len(buf)
  <2>1. CASE ~(o < Len(buf))
    <3>1. Block(buf, o) = Junk
      BY <2>1 DEF Block
    <3>2. Junk.next = 0
      BY DEF Junk, Zero
    <3> QED BY <3>1, <3>2
  <2> QED BY <2>1
<1>3. Block(buf, o) = buf[o + 1] /\ o + 1 \in 1 .. Len(d)
  BY <1>1, <1>2 DEF Block
<1>4. Block(buf, o) = d[o + 1]
  <2>1. Block(buf, o) = Zero \/ Block(buf, o) = d[o + 1]
    BY <1>3 DEF WithHoles
  <2> QED BY <2>1, ZeroFields DEF ZeroIsEmpty
<1>5. PICK q \in DOMAIN off : o + 1 \in off[q] + 1 .. off[q] + FullSize(q)
  BY <1>3, LaidOut
<1>6. off[q] \in Nat
  BY LaidTable
<1>7. o = off[q]
  <2>1. ASSUME o + 1 > off[q] + 1 PROVE FALSE
    <3>1. ASSUME NEW i, i = o + 1 PROVE \E j : d[i] = Body(q, j)
      <4>1. d[i] = Body(q, i - off[q] - 1)
        BY <1>5, <2>1, <3>1, InTable
      <4> QED BY <4>1
    <3>2. \A j : Body(q, j).next = 0
      BY DEF Body, Zero
    <3>3. \E j : d[o + 1] = Body(q, j)
      BY <3>1
    <3> QED BY <1>4, <3>2, <3>3
  <2> QED BY <1>5, <1>6, <2>1
<1>8. PICK k \in 1 .. n : ch[k] = q
  BY DEF Chain
<1>9. k # n
  BY <1>4, <1>7, <1>8 DEF Chain
<1>10. k \in 1 .. n - 1
  BY <1>1, <1>9
<1> QED BY <1>4, <1>7, <1>8, <1>10 DEF Chain

(* What a row of at most four checks comes to.                             *)
LEMMA FourInARow ==
  ASSUME NEW n \in 1 .. 4, NEW V(_), NEW R(_),
         \A k \in 1 .. n : V(k) <=> R(k) /\ (k < n => V(k + 1))
  PROVE  V(1) <=> \A k \in 1 .. n : R(k)
<1>1. CASE n = 1
  BY <1>1
<1>2. CASE n = 2
  <2>1. 1 .. n = {1, 2} /\ 1 < n /\ ~(2 < n) /\ 1 + 1 = 2
    BY <1>2
  <2>2. (V(1) <=> R(1) /\ V(2)) /\ (V(2) <=> R(2))
    BY <2>1
  <2> QED BY <2>1, <2>2
<1>3. CASE n = 3
  <2>1. 1 .. n = {1, 2, 3} /\ 1 < n /\ 2 < n /\ ~(3 < n) /\ 1 + 1 = 2 /\ 2 + 1 = 3
    BY <1>3
  <2>2. (V(1) <=> R(1) /\ V(2)) /\ (V(2) <=> R(2) /\ V(3)) /\ (V(3) <=> R(3))
    BY <2>1
  <2> QED BY <2>1, <2>2
<1>4. CASE n = 4
  <2>1. 1 .. n = {1, 2, 3, 4} /\ 1 < n /\ 2 < n /\ 3 < n /\ ~(4 < n)
        /\ 1 + 1 = 2 /\ 2 + 1 = 3 /\ 3 + 1 = 4
    BY <1>4
  <2>2. /\ V(1) <=> R(1) /\ V(2)
        /\ V(2) <=> R(2) /\ V(3)
        /\ V(3) <=> R(3) /\ V(4)
        /\ V(4) <=> R(4)
    BY <2>1
  <2> QED BY <2>1, <2>2
<1> QED BY <1>1, <1>2, <1>3, <1>4

(* nissy_checkdata finds a hole anywhere in the data, but in the data of   *)
(* the tables whose entries it does not count.                             *)
THEOREM CheckedData ==
  ASSUME NEW d, NEW off, Laid(d, off), NEW ch, NEW n, Chain(d, off, ch, n),
         NEW buf, WithHoles(buf, d)
  PROVE  nissy_checkdata(buf) <=>
           \A i \in 1 .. Len(d) : buf[i] = d[i] \/ (d[i].of \in Uncounted /\ d[i].at > 0)
<1>1. Len(buf) \in Nat /\ Len(buf) = Len(d) /\ n \in 1 .. 4 /\ ch \in [1 .. n -> DOMAIN off]
  BY DEF Laid, WithHoles, Chain
<1>2. \A k \in 1 .. n : ch[k] \in DOMAIN off /\ off[ch[k]] \in 0 .. Len(buf)
  <2>1. ASSUME NEW q \in DOMAIN off PROVE off[q] \in 0 .. Len(buf)
    BY <1>1, CheckedTable, LaidTable
  <2> QED BY <1>1, <2>1
<1> DEFINE at(k) == off[ch[k]]
           left == [o \in 0 .. Len(buf) |->
                      IF \E k \in 1 .. n : o = at(k) THEN n - CHOOSE k \in 1 .. n : o = at(k)
                      ELSE 0]
<1>3. \A k \in 1 .. n : left[at(k)] = n - k
  <2>1. ASSUME NEW k \in 1 .. n PROVE (CHOOSE j \in 1 .. n : at(k) = at(j)) = k
    BY DEF Chain
  <2> QED BY <1>2, <2>1
<1>4. left \in [0 .. Len(buf) -> 0 .. 3]
  <2>1. ASSUME NEW o \in 0 .. Len(buf)
        PROVE  (IF \E k \in 1 .. n : o = at(k) THEN n - CHOOSE k \in 1 .. n : o = at(k)
                ELSE 0) \in 0 .. 3
    <3>1. ASSUME \E k \in 1 .. n : o = at(k)
          PROVE  (CHOOSE k \in 1 .. n : o = at(k)) \in 1 .. n
      BY <3>1
    <3> HIDE DEF at
    <3> QED BY <1>1, <3>1
  <2> QED BY <2>1
<1> HIDE DEF left
<1>5. ASSUME NEW o \in 0 .. Len(buf), Block(buf, o).next # 0
      PROVE  /\ o + Block(buf, o).next \in 0 .. Len(buf)
             /\ left[o + Block(buf, o).next] = left[o] - 1
  <2>1. PICK k \in 1 .. n - 1 : o = at(k) /\ o + Block(buf, o).next = at(k + 1)
    BY <1>5, ChainNext
  <2>2. k \in 1 .. n /\ k + 1 \in 1 .. n /\ n - (k + 1) = n - k - 1
    BY <1>1
  <2> QED BY <1>2, <1>3, <2>1, <2>2
<1>6. PICK valid : nissy_checkdata(buf) = valid[0] /\ IsValid(buf, valid)
  <2>1. HeadersLeft(buf, left)
    BY <1>4, <1>5 DEF HeadersLeft
  <2> QED BY <1>1, <2>1, Checked
<1> DEFINE V(k) == valid[at(k)]
           R(k) == TableRight(buf, d, off, ch[k])
<1>7. ASSUME NEW k \in 1 .. n PROVE V(k) <=> R(k) /\ (k < n => V(k + 1))
  <2> DEFINE o == at(k)
  <2>1. V(k) <=> checkdata(buf, o) /\ (Block(buf, o).next # 0 => valid[o + Block(buf, o).next])
    <3>1. o \in 0 .. Len(buf) /\ o < Len(buf)
      BY <1>2, CheckedTable
    <3>2. valid[o] =
             (/\ o < Len(buf) /\ checkdata(buf, o)
              /\ Block(buf, o).next # 0 => valid[o + Block(buf, o).next])
      BY <1>6, <3>1 DEF IsValid
    <3> QED BY <3>1, <3>2
  <2>2. checkdata(buf, o) <=> R(k)
    BY <1>2, CheckedTable
  <2>3. ASSUME checkdata(buf, o)
        PROVE  IF k < n THEN Block(buf, o).next # 0 /\ o + Block(buf, o).next = at(k + 1)
               ELSE Block(buf, o).next = 0
    <3>1. Block(buf, o) = d[at(k) + 1]
      BY <1>2, <2>3, CheckedTable
    <3>2. CASE k < n
      <4>1. k \in 1 .. n - 1 /\ k + 1 \in 1 .. n /\ k # k + 1
        BY <1>1, <3>2
      <4>2. at(k) + d[at(k) + 1].next = at(k + 1) /\ at(k + 1) # at(k)
        BY <4>1 DEF Chain
      <4>3. at(k) \in Nat /\ at(k) + 0 = at(k)
        BY <1>2
      <4> QED BY <3>1, <3>2, <4>2, <4>3
    <3>3. CASE ~(k < n)
      <4>1. k = n
        BY <1>1, <3>3
      <4> QED BY <3>1, <3>3, <4>1 DEF Chain
    <3> QED BY <3>2, <3>3
  <2> HIDE DEF R
  <2> QED BY <2>1, <2>2, <2>3
<1>8. V(1) <=> \A k \in 1 .. n : R(k)
  <2> HIDE DEF V, R
  <2> QED BY <1>1, <1>7, FourInARow
<1>9. nissy_checkdata(buf) <=> \A k \in 1 .. n : R(k)
  <2>1. at(1) = 0
    BY DEF Chain
  <2> QED BY <1>6, <1>8, <2>1
<1>10. (\A k \in 1 .. n : R(k)) <=> \A q \in DOMAIN off : TableRight(buf, d, off, q)
  BY <1>1 DEF Chain
<1>11. (\A q \in DOMAIN off : TableRight(buf, d, off, q)) <=>
         \A i \in 1 .. Len(d) : buf[i] = d[i] \/ (d[i].of \in Uncounted /\ d[i].at > 0)
  <2>1. ASSUME NEW q \in DOMAIN off, NEW i \in off[q] + 1 .. off[q] + FullSize(q)
        PROVE  /\ i \in 1 .. Len(d)
               /\ (d[i].of \in Uncounted /\ d[i].at > 0) <=>
                    (q \in Uncounted /\ i > off[q] + 1)
    <3>1. i \in 1 .. Len(d) /\ d[i].of = q /\ d[i].at = i - off[q] - 1 /\ off[q] \in Nat
      BY <2>1, InTable, LaidTable
    <3> QED BY <3>1
  <2>2. ASSUME \A q \in DOMAIN off : TableRight(buf, d, off, q), NEW i \in 1 .. Len(d)
        PROVE  buf[i] = d[i] \/ (d[i].of \in Uncounted /\ d[i].at > 0)
    <3>1. PICK q \in DOMAIN off : i \in off[q] + 1 .. off[q] + FullSize(q)
      BY <2>2, LaidOut
    <3> QED BY <2>1, <2>2, <3>1 DEF TableRight
  <2>3. ASSUME \A i \in 1 .. Len(d) : buf[i] = d[i] \/ (d[i].of \in Uncounted /\ d[i].at > 0),
               NEW q \in DOMAIN off
        PROVE  TableRight(buf, d, off, q)
    BY <2>1, <2>3 DEF TableRight
  <2> QED BY <2>2, <2>3
<1> QED BY <1>9, <1>10, <1>11

(* The headers of the data with k = 4 link the three tables in a row.      *)
LEMMA ChainK4 ==
  ASSUME NEW h \in Nat, NEW d, d = gendata_h48(h, 4)
  PROVE  \E ch, n : Chain(d, OffsetsK4, ch, n)
<1> DEFINE c == FullSize("cocsep")
           m == FullSize("h48h0k4")
           e == FullSize("eoesep")
           ch == [k \in 1 .. 3 |-> IF k = 1 THEN "cocsep" ELSE IF k = 2 THEN "h48h0k4"
                                   ELSE "eoesep"]
<1>1. /\ c \in Nat /\ m \in Nat /\ e \in Nat
      /\ Three(d, c + m + e, "h48h0k4", h, m, c + m, "eoesep", 0)
  BY DataOfH48k4
<1>2. c \in Nat \ {0} /\ m \in Nat \ {0}
  <2>1. "cocsep" \in Parts /\ "h48h0k4" \in Parts
    BY DEF Parts
  <2> QED BY <2>1, SizePositive
<1>3. c = FullSize("cocsep") /\ m = FullSize("h48h0k4") /\ e = FullSize("eoesep")
  OBVIOUS
<1> HIDE DEF c, m, e
<1>4. /\ DOMAIN OffsetsK4 = {"cocsep", "h48h0k4", "eoesep"}
      /\ OffsetsK4["cocsep"] = 0 /\ OffsetsK4["h48h0k4"] = c /\ OffsetsK4["eoesep"] = c + m
  BY <1>3 DEF OffsetsK4
<1>5. /\ d[0 + 1] = Header("cocsep", 0, c) /\ d[c + 1] = Header("h48h0k4", h, m)
      /\ d[c + m + 1] = Header("eoesep", 0, 0)
  BY <1>1, <1>3 DEF Three, Two, TableAt
<1>6. d[0 + 1].next = c /\ d[c + 1].next = m /\ d[c + m + 1].next = 0
  <2>1. Header("eoesep", 0, 0).next = 0
    BY 0 \in Nat, HeaderFields DEF Parts
  <2> QED BY <1>1, <1>5, <2>1, 0 \in Nat, HeaderKinds
<1>7. /\ ch[1] = "cocsep" /\ ch[2] = "h48h0k4" /\ ch[3] = "eoesep"
      /\ ch \in [1 .. 3 -> DOMAIN OffsetsK4]
  BY <1>4
<1> HIDE DEF ch
<1>8. 1 .. 3 = {1, 2, 3} /\ 1 .. 3 - 1 = {1, 2} /\ 1 + 1 = 2 /\ 2 + 1 = 3
  OBVIOUS
<1>9. /\ OffsetsK4[ch[1]] = 0 /\ OffsetsK4[ch[2]] = c /\ OffsetsK4[ch[3]] = c + m
      /\ 0 # c /\ c # c + m /\ 0 # c + m /\ 0 + c = c
  BY <1>2, <1>4, <1>7
<1>10. \A q \in DOMAIN OffsetsK4 : \E k \in 1 .. 3 : ch[k] = q
  BY <1>4, <1>7, <1>8
<1>11. \A k, j \in 1 .. 3 : OffsetsK4[ch[j]] = OffsetsK4[ch[k]] => j = k
  BY <1>8, <1>9
<1>12. \A k \in 1 .. 3 - 1 :
         OffsetsK4[ch[k]] + d[OffsetsK4[ch[k]] + 1].next = OffsetsK4[ch[k + 1]]
  BY <1>6, <1>8, <1>9
<1>13. Chain(d, OffsetsK4, ch, 3)
  BY <1>6, <1>7, <1>9, <1>10, <1>11, <1>12 DEF Chain
<1> QED BY <1>13

(* The headers of the data with k = 2 link the four tables in a row.       *)
LEMMA ChainK2 ==
  ASSUME NEW h \in Nat, NEW d, d = gendata_h48(h, 2)
  PROVE  \E ch, n : Chain(d, OffsetsK2, ch, n)
<1> DEFINE c == FullSize("cocsep")
           m == FullSize("h48k2")
           f == FullSize("h48h0k4")
           e == FullSize("eoesep")
           ch == [k \in 1 .. 4 |-> IF k = 1 THEN "cocsep" ELSE IF k = 2 THEN "h48k2"
                                   ELSE IF k = 3 THEN "h48h0k4" ELSE "eoesep"]
<1>1. /\ c \in Nat /\ m \in Nat /\ f \in Nat /\ e \in Nat
      /\ Four(d, c + m + f + e, "h48k2", h, m, c + m, f, c + m + f)
  BY DataOfH48k2
<1>2. c \in Nat \ {0} /\ m \in Nat \ {0} /\ f \in Nat \ {0}
  <2>1. "cocsep" \in Parts /\ "h48k2" \in Parts /\ "h48h0k4" \in Parts
    BY DEF Parts
  <2> QED BY <2>1, SizePositive
<1>3. c = FullSize("cocsep") /\ m = FullSize("h48k2") /\ f = FullSize("h48h0k4")
      /\ e = FullSize("eoesep")
  OBVIOUS
<1> HIDE DEF c, m, f, e
<1>4. /\ DOMAIN OffsetsK2 = {"cocsep", "h48k2", "h48h0k4", "eoesep"}
      /\ OffsetsK2["cocsep"] = 0 /\ OffsetsK2["h48k2"] = c
      /\ OffsetsK2["h48h0k4"] = c + m /\ OffsetsK2["eoesep"] = c + m + f
  BY <1>3 DEF OffsetsK2
<1>5. /\ d[0 + 1] = Header("cocsep", 0, c) /\ d[c + 1] = Header("h48k2", h, m)
      /\ d[c + m + 1] = Header("h48h0k4", 0, f) /\ d[c + m + f + 1] = Header("eoesep", 0, 0)
  BY <1>1, <1>3 DEF Four, Three, Two, TableAt
<1>6. /\ d[0 + 1].next = c /\ d[c + 1].next = m /\ d[c + m + 1].next = f
      /\ d[c + m + f + 1].next = 0
  <2>1. Header("eoesep", 0, 0).next = 0
    BY 0 \in Nat, HeaderFields DEF Parts
  <2> QED BY <1>1, <1>5, <2>1, 0 \in Nat, HeaderKinds
<1>7. /\ ch[1] = "cocsep" /\ ch[2] = "h48k2" /\ ch[3] = "h48h0k4" /\ ch[4] = "eoesep"
      /\ ch \in [1 .. 4 -> DOMAIN OffsetsK2]
  BY <1>4
<1> HIDE DEF ch
<1>8. /\ 1 .. 4 = {1, 2, 3, 4} /\ 1 .. 4 - 1 = {1, 2, 3}
      /\ 1 + 1 = 2 /\ 2 + 1 = 3 /\ 3 + 1 = 4
  OBVIOUS
<1>9. /\ OffsetsK2[ch[1]] = 0 /\ OffsetsK2[ch[2]] = c /\ OffsetsK2[ch[3]] = c + m
      /\ OffsetsK2[ch[4]] = c + m + f
  BY <1>4, <1>7
<1>10. \A q \in DOMAIN OffsetsK2 : \E k \in 1 .. 4 : ch[k] = q
  BY <1>4, <1>7, <1>8
<1>11. \A k, j \in 1 .. 4 : OffsetsK2[ch[j]] = OffsetsK2[ch[k]] => j = k
  BY <1>2, <1>8, <1>9
<1>12. \A k \in 1 .. 4 - 1 :
         OffsetsK2[ch[k]] + d[OffsetsK2[ch[k]] + 1].next = OffsetsK2[ch[k + 1]]
  <2>1. 0 + c = c
    BY <1>1
  <2> QED BY <1>6, <1>8, <1>9, <2>1
<1>13. Chain(d, OffsetsK2, ch, 4)
  BY <1>6, <1>7, <1>9, <1>10, <1>11, <1>12 DEF Chain
<1> QED BY <1>13

(* The only header of a table alone links to nothing.                      *)
LEMMA ChainEO == \E ch, n : Chain(gendata_coord(1), OffsetsEO, ch, n)
<1> DEFINE d == gendata_coord(1)
           ch == [k \in 1 .. 1 |-> "pruning"]
<1>1. TableAt(d, 0, "pruning", 0, 0)
  BY DataOfCoord
<1> HIDE DEF d
<1>2. DOMAIN OffsetsEO = {"pruning"} /\ OffsetsEO["pruning"] = 0
  BY DEF OffsetsEO
<1>3. d[0 + 1].next = 0
  <2>1. Header("pruning", 0, 0).next = 0
    BY 0 \in Nat, HeaderFields DEF Parts
  <2> QED BY <1>1, <2>1 DEF TableAt
<1>4. ch[1] = "pruning" /\ ch \in [1 .. 1 -> DOMAIN OffsetsEO]
  BY <1>2
<1> HIDE DEF ch
<1>5. 1 .. 1 = {1} /\ 1 .. 1 - 1 = {}
  OBVIOUS
<1>6. Chain(d, OffsetsEO, ch, 1)
  BY <1>2, <1>3, <1>4, <1>5 DEF Chain
<1> QED BY <1>6 DEF d

(* The header of the helper table links to the pruning table, which is     *)
(* last.                                                                   *)
LEMMA ChainDR == \E ch, n : Chain(gendata_coord(2), OffsetsDR, ch, n)
<1> DEFINE d == gendata_coord(2)
           c == FullSize("helper")
           ch == [k \in 1 .. 2 |-> IF k = 1 THEN "helper" ELSE "pruning"]
<1>1. c \in Nat /\ TableAt(d, 0, "helper", 0, c) /\ TableAt(d, c, "pruning", 0, 0)
  BY DataOfCoordHelped
<1>2. c \in Nat \ {0}
  BY SizePositive DEF Parts
<1>3. c = FullSize("helper")
  OBVIOUS
<1> HIDE DEF d, c
<1>4. /\ DOMAIN OffsetsDR = {"helper", "pruning"}
      /\ OffsetsDR["helper"] = 0 /\ OffsetsDR["pruning"] = c
  BY <1>3 DEF OffsetsDR
<1>5. d[0 + 1].next = c /\ d[c + 1].next = 0
  <2>1. Header("pruning", 0, 0).next = 0
    BY 0 \in Nat, HeaderFields DEF Parts
  <2>2. Header("helper", 0, c).next = c
    BY <1>1, 0 \in Nat, HeaderFields DEF Parts
  <2> QED BY <1>1, <2>1, <2>2 DEF TableAt
<1>6. ch[1] = "helper" /\ ch[2] = "pruning" /\ ch \in [1 .. 2 -> DOMAIN OffsetsDR]
  BY <1>4
<1> HIDE DEF ch
<1>7. 1 .. 2 = {1, 2} /\ 1 .. 2 - 1 = {1} /\ 1 + 1 = 2
  OBVIOUS
<1>8. OffsetsDR[ch[1]] = 0 /\ OffsetsDR[ch[2]] = c /\ 0 # c /\ 0 + c = c
  BY <1>2, <1>4, <1>6
<1>9. Chain(d, OffsetsDR, ch, 2)
  BY <1>4, <1>5, <1>6, <1>7, <1>8 DEF Chain
<1> QED BY <1>9 DEF d
=============================================================================
