---------------------------- MODULE RBufferProofs ----------------------------
(***************************************************************************)
(* Theorems about RBuffer for every buffer size, every set of words and    *)
(* every mix of 32-bit and 64-bit traffic.                                 *)
(***************************************************************************)
EXTENDS RBuffer, SequenceTheorems, TLAPS

-----------------------------------------------------------------------------
(* The inductive invariant: what each side may still rely on between its   *)
(* loads of the other side's index and its own store.                      *)

WriterInv ==
    /\ wpc # "idle" => wp = p
    /\ wpc = "check2" => Used < RBUF_SIZE - 1
    /\ wpc \in {"store", "store2", "publish"} =>
           Used + Len(wdata) <= RBUF_SIZE - 1

\* What has been stored beyond p, and not published yet.
StoredInv ==
    /\ wpc \in {"store2", "publish"} => buffer[wp] = wdata[1]
    /\ wpc = "publish" /\ Len(wdata) = 2 =>
           buffer[RBUF_IDX(wp + 1)] = wdata[2]

ReaderInv ==
    /\ rpc # "idle" => rc = RBUF_IDX(c + 1)
    /\ rpc = "check2" => Used >= 1
    /\ rpc \in {"load", "load2", "consume"} => rsize <= Used

\* What has been loaded, and not given back yet.
LoadedInv ==
    /\ rpc = "load2" => Len(rdata) = 1 /\ rdata[1] = buffer[rc]
    /\ rpc = "consume" => /\ Len(rdata) = rsize
                          /\ rdata[1] = buffer[rc]
                          /\ rsize = 2 => rdata[2] = buffer[RBUF_IDX(rc + 1)]

\* In every state, a side that is past its tests still has the room or the
\* words it found there, whatever the other side has done since, and the
\* words copied so far are those of the cells: the strengthening of the
\* properties above that every step preserves.
IndInv == TypeOK /\ WriterInv /\ StoredInv /\ ReaderInv /\ LoadedInv

-----------------------------------------------------------------------------
(* Arithmetic on cell numbers.  The code takes % only of numbers below     *)
(* 2 * RBUF_SIZE, where it is a subtraction.                               *)

\* Division with remainder.
LEMMA DivMod ==
    ASSUME NEW n \in Nat, NEW d \in Nat, d > 0
    PROVE  /\ n \div d \in Nat
           /\ n % d \in 0 .. d - 1
           /\ n = (d * (n \div d)) + (n % d)
  OBVIOUS

\* Multiplication by a natural number is monotone.
LEMMA TimesMonotone ==
    ASSUME NEW a \in Nat, NEW b \in Nat, NEW m \in Nat, a >= b
    PROVE  m * a >= m * b
<1> DEFINE k == a - b
<1>1. k \in Nat /\ a = b + k
  OBVIOUS
<1> HIDE DEF k
<1>2. m * (b + k) = (m * b) + (m * k)
  BY <1>1
<1>3. m * k \in Nat /\ m * b \in Nat
  BY <1>1
<1>4. m * a = m * (b + k)
  BY <1>1, Zenon
<1> DEFINE mk == m * k
           mb == m * b
<1>5. mk \in Nat /\ mb \in Nat
  BY <1>3, Zenon
<1>6. m * a = mb + mk
  BY <1>2, <1>4, Zenon
<1> HIDE DEF mk, mb
<1>7. mb + mk >= mb
  BY <1>5
<1> QED
  BY <1>6, <1>7, Zenon DEF mb

\* RBUF_IDX wraps at most once.
LEMMA IdxValue ==
    ASSUME NEW i \in 0 .. (2 * RBUF_SIZE) - 1
    PROVE  RBUF_IDX(i) = IF i < RBUF_SIZE THEN i ELSE i - RBUF_SIZE
<1>1. RBUF_SIZE \in Nat /\ RBUF_SIZE > 0 /\ i \in Nat /\ i < 2 * RBUF_SIZE
  BY SizeAssumption
<1> DEFINE q == i \div RBUF_SIZE
           r == i % RBUF_SIZE
<1>2. q \in Nat /\ r \in 0 .. RBUF_SIZE - 1 /\ i = (RBUF_SIZE * q) + r
  BY DivMod, <1>1
<1> HIDE DEF q, r
<1>3. q = 0 \/ q = 1
  <2>1. ASSUME q >= 2 PROVE FALSE
    <3>1. RBUF_SIZE * q >= RBUF_SIZE * 2
      BY TimesMonotone, <1>1, <1>2, <2>1
    <3> QED
      BY <1>1, <1>2, <3>1
  <2> QED
    BY <1>2, <2>1
<1>4. r = IF i < RBUF_SIZE THEN i ELSE i - RBUF_SIZE
  BY <1>1, <1>2, <1>3
<1> QED
  BY <1>4 DEF RBUF_IDX, r

\* The cell i places after x, for the small i the code uses.
LEMMA IdxPlus ==
    ASSUME NEW x \in Cells, NEW i \in 0 .. 2
    PROVE  /\ RBUF_IDX(x + i) \in Cells
           /\ RBUF_IDX(x + i) = IF x + i < RBUF_SIZE THEN x + i
                                ELSE x + i - RBUF_SIZE
<1>1. x + i \in 0 .. (2 * RBUF_SIZE) - 1
  BY SizeAssumption DEF Cells
<1>2. RBUF_IDX(x + i) = IF x + i < RBUF_SIZE THEN x + i ELSE x + i - RBUF_SIZE
  BY <1>1, IdxValue, SizeAssumption DEF Cells
<1> QED
  BY <1>1, <1>2, SizeAssumption DEF Cells

\* The cell 0 places after x is x.
LEMMA IdxSame == ASSUME NEW x \in Cells PROVE x + 0 = x /\ RBUF_IDX(x) = x
<1>1. /\ RBUF_SIZE \in Nat /\ RBUF_SIZE > 0 /\ x \in Nat /\ x < RBUF_SIZE
  BY SizeAssumption DEF Cells
<1>2. x + 0 = x /\ x \in 0 .. (2 * RBUF_SIZE) - 1
  BY <1>1
<1>3. RBUF_IDX(x) = x
  BY <1>1, <1>2, IdxValue
<1> QED
  BY <1>2, <1>3

\* How many words lie between the indices x (in the place of c) and y (p).
LEMMA FillValue ==
    ASSUME NEW x \in Cells, NEW y \in Cells
    PROVE  /\ RBUF_IDX(y + RBUF_SIZE - x - 1) =
                 IF x < y THEN y - x - 1 ELSE y + RBUF_SIZE - x - 1
           /\ RBUF_IDX(y + RBUF_SIZE - x - 1) \in 0 .. RBUF_SIZE - 1
<1> DEFINE n == y + RBUF_SIZE - x - 1
<1>1. /\ RBUF_SIZE \in Nat /\ RBUF_SIZE >= 2
      /\ x \in Nat /\ y \in Nat /\ x < RBUF_SIZE /\ y < RBUF_SIZE
  BY SizeAssumption DEF Cells
<1>2. n \in 0 .. (2 * RBUF_SIZE) - 1
  BY <1>1
<1>3. /\ x < y => n >= RBUF_SIZE /\ n - RBUF_SIZE = y - x - 1
      /\ ~(x < y) => n < RBUF_SIZE
  BY <1>1
<1> HIDE DEF n
<1>4. RBUF_IDX(n) = IF n < RBUF_SIZE THEN n ELSE n - RBUF_SIZE
  BY <1>2, IdxValue
<1>5. RBUF_IDX(n) = IF x < y THEN y - x - 1 ELSE n
  BY <1>1, <1>2, <1>3, <1>4
<1>6. RBUF_IDX(n) \in 0 .. RBUF_SIZE - 1
  BY <1>1, <1>2, <1>3, <1>4
<1> QED
  BY <1>5, <1>6 DEF n

\* The argument of a write is one word or two.
LEMMA ArgFacts ==
    ASSUME NEW a \in WriteArgs
    PROVE  /\ a # <<>>
           /\ Len(a) \in {1, 2}
           /\ a[1] \in Word
           /\ Len(a) = 2 => a[2] \in Word
<1>1. a \in [1..1 -> Word] \/ a \in [1..2 -> Word]
  BY OpsAssumption
<1>2. CASE a \in [1..1 -> Word]
  BY <1>2
<1>3. CASE a \in [1..2 -> Word]
  BY <1>3
<1> QED
  BY <1>1, <1>2, <1>3

-----------------------------------------------------------------------------
(* The invariant holds at the start, and each step keeps it.               *)

\* Used, in terms of the indices, in a state and in the next one.
LEMMA UsedValue ==
    ASSUME c \in Cells, p \in Cells
    PROVE  /\ Used = IF c < p THEN p - c - 1 ELSE p + RBUF_SIZE - c - 1
           /\ Used \in 0 .. RBUF_SIZE - 1
  BY FillValue DEF Used

\* The same for the next state.
LEMMA UsedValueNext ==
    ASSUME c' \in Cells, p' \in Cells
    PROVE  /\ Used' = IF c' < p' THEN p' - c' - 1 ELSE p' + RBUF_SIZE - c' - 1
           /\ Used' \in 0 .. RBUF_SIZE - 1
  BY FillValue DEF Used

\* After initialisation the invariant holds.
LEMMA InitInd == Init => IndInv
<1> SUFFICES ASSUME Init PROVE IndInv
  OBVIOUS
<1>1. TypeOK
  <2>1. 0 \in Cells /\ 1 \in Cells
    BY SizeAssumption DEF Cells
  <2>2. buffer \in [Cells -> Word]
    BY WordAssumption DEF Init
  <2>3. rret.status \in {0, -1}
    BY DEF Init, NoResult
  <2> QED
    BY <2>1, <2>2, <2>3 DEF Init, TypeOK
<1>2. WriterInv /\ StoredInv /\ ReaderInv /\ LoadedInv
  BY DEF Init, WriterInv, StoredInv, ReaderInv, LoadedInv
<1> QED
  BY <1>1, <1>2 DEF IndInv

\* Every step keeps the types, and the indices inside the buffer.
LEMMA TypeStep == IndInv /\ [Next]_vars => TypeOK'
<1> SUFFICES ASSUME IndInv, [Next]_vars PROVE TypeOK'
  OBVIOUS
<1> USE DEF TypeOK
<1>0. TypeOK
  BY DEF IndInv
<1>1. /\ RBUF_IDX(c + 1) \in Cells
      /\ \A i \in 0 .. 2 : RBUF_IDX(wp + i) \in Cells /\ RBUF_IDX(rc + i) \in Cells
  BY <1>0, IdxPlus
<1>2. CASE WriteCall
  BY <1>0, <1>2, ArgFacts DEF WriteCall, rbufVars, readerVars
<1>3. CASE WriteCheck
  BY <1>0, <1>3, ArgFacts DEF WriteCheck, rbufVars, readerVars
<1>4. CASE WriteCheck2
  BY <1>0, <1>4, ArgFacts DEF WriteCheck2, rbufVars, readerVars
<1>5. CASE WriteFull
  BY <1>0, <1>5 DEF WriteFull, rbufVars, readerVars
<1>6. CASE WriteStore
  BY <1>0, <1>6, ArgFacts DEF WriteStore, readerVars
<1>7. CASE WriteStore2
  BY <1>0, <1>1, <1>7, ArgFacts DEF WriteStore2, readerVars
<1>8. CASE WritePublish
  <2>1. PICK n \in 0 .. 2 : Len(wdata) = n
    BY <1>0, <1>8, ArgFacts DEF WritePublish
  <2>2. p' = RBUF_IDX(wp + n) /\ RBUF_IDX(wp + n) \in Cells
    BY <1>1, <1>8, <2>1 DEF WritePublish
  <2> QED
    BY <1>0, <1>8, <2>2 DEF WritePublish, readerVars
<1>9. CASE ReadCall
  BY <1>0, <1>1, <1>9, OpsAssumption DEF ReadCall, rbufVars, writerVars
<1>10. CASE ReadCheck
  BY <1>0, <1>10 DEF ReadCheck, rbufVars, writerVars
<1>11. CASE ReadCheck2
  BY <1>0, <1>11 DEF ReadCheck2, rbufVars, writerVars
<1>12. CASE ReadEmpty
  BY <1>0, <1>12 DEF ReadEmpty, rbufVars, writerVars, NoResult
<1>13. CASE ReadLoad
  BY <1>0, <1>13, OpsAssumption DEF ReadLoad, rbufVars, writerVars
<1>14. CASE ReadLoad2
  BY <1>0, <1>1, <1>14, OpsAssumption DEF ReadLoad2, rbufVars, writerVars, IndInv, LoadedInv
<1>15. CASE ReadConsume
  BY <1>0, <1>1, <1>15, OpsAssumption DEF ReadConsume, writerVars
<1>16. CASE UNCHANGED vars
  BY <1>0, <1>16 DEF vars, rbufVars, writerVars, readerVars
<1> QED
  BY <1>2, <1>3, <1>4, <1>5, <1>6, <1>7, <1>8, <1>9, <1>10, <1>11, <1>12,
     <1>13, <1>14, <1>15, <1>16 DEF Next, Write, Read

-----------------------------------------------------------------------------
(* Cells of the producer and cells of the consumer.                        *)

\* The i-th cell from p on is not the j-th one after c as long as j words
\* are unread and there is room for i + 1 more.
LEMMA FreeCellIsUnused ==
    ASSUME c \in Cells, p \in Cells,
           NEW i \in 0 .. 1, NEW j \in 1 .. Used, Used + i + 1 <= RBUF_SIZE - 1
    PROVE  RBUF_IDX(p + i) # RBUF_IDX(c + j)
<1>1. /\ RBUF_SIZE \in Nat /\ RBUF_SIZE >= 2
      /\ c \in Nat /\ p \in Nat /\ c < RBUF_SIZE /\ p < RBUF_SIZE
  BY SizeAssumption DEF Cells
<1>2. /\ Used \in Nat
      /\ Used = IF c < p THEN p - c - 1 ELSE p + RBUF_SIZE - c - 1
  BY UsedValue
<1> DEFINE a == p + i
           b == c + j
<1>3. a \in 0 .. (2 * RBUF_SIZE) - 1 /\ b \in 0 .. (2 * RBUF_SIZE) - 1
  BY <1>1, <1>2
<1>4. /\ a # b /\ a # b - RBUF_SIZE /\ a - RBUF_SIZE # b
  BY <1>1, <1>2
<1> HIDE DEF a, b
<1>5. /\ RBUF_IDX(a) = IF a < RBUF_SIZE THEN a ELSE a - RBUF_SIZE
      /\ RBUF_IDX(b) = IF b < RBUF_SIZE THEN b ELSE b - RBUF_SIZE
  BY <1>3, IdxValue
<1>6. RBUF_IDX(a) # RBUF_IDX(b)
  BY <1>1, <1>3, <1>4, <1>5
<1> QED
  BY <1>6 DEF a, b

\* The consumer's two cells are the two after c.
LEMMA ReadCells ==
    ASSUME c \in Cells, rc = RBUF_IDX(c + 1)
    PROVE  /\ rc \in Cells
           /\ rc = RBUF_IDX(rc + 0)
           /\ RBUF_IDX(rc + 1) = RBUF_IDX(c + 2)
<1>1. RBUF_SIZE \in Nat /\ RBUF_SIZE >= 2 /\ c \in Nat /\ c < RBUF_SIZE
  BY SizeAssumption DEF Cells
<1>2. rc \in Cells /\ rc = IF c + 1 < RBUF_SIZE THEN c + 1 ELSE c + 1 - RBUF_SIZE
  BY IdxPlus
<1>3. RBUF_IDX(rc + 0) = IF rc + 0 < RBUF_SIZE THEN rc + 0 ELSE rc + 0 - RBUF_SIZE
  BY <1>2, IdxPlus
<1>4. RBUF_IDX(rc + 1) = IF rc + 1 < RBUF_SIZE THEN rc + 1 ELSE rc + 1 - RBUF_SIZE
  BY <1>2, IdxPlus
<1>5. RBUF_IDX(c + 2) = IF c + 2 < RBUF_SIZE THEN c + 2 ELSE c + 2 - RBUF_SIZE
  BY IdxPlus
<1> QED
  BY <1>1, <1>2, <1>3, <1>4, <1>5 DEF Cells

\* The invariant keeps the producer off every unread cell, those the
\* consumer is copying from included.
LEMMA CellsApart ==
    ASSUME IndInv, wpc \in {"store", "store2", "publish"}
    PROVE  /\ wp = p
           /\ \A j \in 1 .. Used :
                  /\ wp # RBUF_IDX(c + j)
                  /\ Len(wdata) = 2 => RBUF_IDX(wp + 1) # RBUF_IDX(c + j)
<1>1. wp = p /\ Used + Len(wdata) <= RBUF_SIZE - 1
  BY DEF IndInv, WriterInv
<1>2. c \in Cells /\ p \in Cells
  BY DEF IndInv, TypeOK
<1>3. Used \in Nat
  BY <1>2, UsedValue, SizeAssumption
<1>4. PICK n \in 1 .. 2 : Len(wdata) = n
  BY ArgFacts DEF IndInv, TypeOK
<1>5. Used + n <= RBUF_SIZE - 1
  BY <1>1, <1>4
<1>6. ASSUME NEW j \in 1 .. Used PROVE p # RBUF_IDX(c + j)
  <2>1. 0 \in 0 .. 1 /\ Used + 0 + 1 <= RBUF_SIZE - 1
    BY <1>3, <1>5, SizeAssumption
  <2>2. RBUF_IDX(p + 0) # RBUF_IDX(c + j)
    BY <1>2, <2>1, FreeCellIsUnused
  <2> QED
    BY <1>2, <2>2, IdxSame
<1>7. ASSUME NEW j \in 1 .. Used, n = 2 PROVE RBUF_IDX(p + 1) # RBUF_IDX(c + j)
  <2>1. 1 \in 0 .. 1 /\ Used + 1 + 1 <= RBUF_SIZE - 1
    BY <1>3, <1>5, <1>7, SizeAssumption
  <2> QED
    BY <1>2, <2>1, FreeCellIsUnused
<1> QED
  BY <1>1, <1>4, <1>6, <1>7

-----------------------------------------------------------------------------
(* Preservation of the invariant.                                          *)

\* Storing p adds the words of the argument to the unread ones.
LEMMA PublishAdds ==
    ASSUME IndInv, WritePublish PROVE Used' = Used + Len(wdata)
<1>1. /\ c \in Cells /\ p \in Cells /\ c' = c /\ p' \in Cells
      /\ wp = p /\ Used + Len(wdata) <= RBUF_SIZE - 1
  BY TypeStep DEF IndInv, TypeOK, WriterInv, WritePublish, Next, Write
<1>2. PICK n \in 1 .. 2 : Len(wdata) = n
  BY ArgFacts DEF IndInv, TypeOK, WritePublish
<1>3. p' = IF p + n < RBUF_SIZE THEN p + n ELSE p + n - RBUF_SIZE
  BY <1>1, <1>2, IdxPlus DEF WritePublish
<1>4. Used = IF c < p THEN p - c - 1 ELSE p + RBUF_SIZE - c - 1
  BY <1>1, UsedValue
<1>5. Used' = IF c < p' THEN p' - c - 1 ELSE p' + RBUF_SIZE - c - 1
  BY <1>1, UsedValueNext
<1>6. Used + n <= RBUF_SIZE - 1
  BY <1>1, <1>2
<1>7. Used' = Used + n
  BY <1>1, <1>3, <1>4, <1>5, <1>6, SizeAssumption DEF Cells
<1> QED
  BY <1>2, <1>7

\* Storing c removes the words of the read.
LEMMA ConsumeRemoves ==
    ASSUME IndInv, ReadConsume PROVE Used' = Used - rsize /\ rsize \in 1 .. 2
<1>1. /\ c \in Cells /\ p \in Cells /\ p' = p /\ c' \in Cells
      /\ rc = RBUF_IDX(c + 1) /\ rsize <= Used /\ rsize \in {1, 2}
  BY TypeStep, OpsAssumption
  DEF IndInv, TypeOK, ReaderInv, ReadConsume, Next, Read
<1>2. c' = RBUF_IDX(c + rsize)
  BY <1>1, ReadCells DEF ReadConsume
<1>3. PICK n \in 1 .. 2 : rsize = n
  BY <1>1
<1>4. c' = IF c + n < RBUF_SIZE THEN c + n ELSE c + n - RBUF_SIZE
  BY <1>1, <1>2, <1>3, IdxPlus
<1>5. Used = IF c < p THEN p - c - 1 ELSE p + RBUF_SIZE - c - 1
  BY <1>1, UsedValue
<1>6. Used' = IF c' < p THEN p - c' - 1 ELSE p + RBUF_SIZE - c' - 1
  BY <1>1, UsedValueNext
<1>7. n <= Used
  BY <1>1, <1>3
<1>8. Used' = Used - n
  BY <1>1, <1>4, <1>5, <1>6, <1>7, SizeAssumption DEF Cells
<1> QED
  BY <1>3, <1>8

\* A step that touches neither the buffer nor the producer.
LEMMA WriterFrame ==
    ASSUME IndInv, UNCHANGED <<rbufVars, writerVars>>
    PROVE  WriterInv' /\ StoredInv' /\ Used' = Used
  BY DEF IndInv, WriterInv, StoredInv, Used, rbufVars, writerVars

\* A step that touches neither the buffer nor the consumer.
LEMMA ReaderFrame ==
    ASSUME IndInv, UNCHANGED <<rbufVars, readerVars>>
    PROVE  ReaderInv' /\ LoadedInv' /\ Used' = Used
  BY DEF IndInv, ReaderInv, LoadedInv, Used, rbufVars, readerVars

\* The producer's stores leave alone the cells the consumer is copying.
LEMMA StoresSpareLoads ==
    ASSUME IndInv, WriteStore \/ WriteStore2
    PROVE  ReaderInv' /\ LoadedInv' /\ Used' = Used
<1>1. Used' = Used /\ UNCHANGED readerVars /\ c' = c /\ p' = p
  BY DEF WriteStore, WriteStore2, Used
<1>2. ReaderInv'
  BY <1>1 DEF IndInv, ReaderInv, readerVars
<1>3. ASSUME rpc \in {"load2", "consume"}
      PROVE  /\ buffer'[rc] = buffer[rc]
             /\ rsize = 2 => buffer'[RBUF_IDX(rc + 1)] = buffer[RBUF_IDX(rc + 1)]
  <2>1. /\ c \in Cells /\ p \in Cells /\ wp \in Cells /\ buffer \in [Cells -> Word]
        /\ rc = RBUF_IDX(c + 1) /\ rsize <= Used /\ rsize \in 1 .. 2
    BY <1>3, OpsAssumption DEF IndInv, TypeOK, ReaderInv
  <2>2. Used \in Nat
    BY <2>1, UsedValue, SizeAssumption
  <2>3. 1 \in 1 .. Used /\ (rsize = 2 => 2 \in 1 .. Used)
    BY <2>1, <2>2
  <2>4. /\ wp # rc
        /\ rsize = 2 => wp # RBUF_IDX(rc + 1)
        /\ Len(wdata) = 2 => /\ RBUF_IDX(wp + 1) # rc
                             /\ rsize = 2 => RBUF_IDX(wp + 1) # RBUF_IDX(rc + 1)
    <3>1. /\ wpc \in {"store", "store2", "publish"}
          /\ RBUF_IDX(rc + 1) = RBUF_IDX(c + 2)
      BY <2>1, ReadCells DEF WriteStore, WriteStore2
    <3>2. \A j \in 1 .. Used :
             /\ wp # RBUF_IDX(c + j)
             /\ Len(wdata) = 2 => RBUF_IDX(wp + 1) # RBUF_IDX(c + j)
      BY <3>1, CellsApart
    <3>3. /\ wp # RBUF_IDX(c + 1)
          /\ Len(wdata) = 2 => RBUF_IDX(wp + 1) # RBUF_IDX(c + 1)
      BY <2>3, <3>2
    <3>4. rsize = 2 => /\ wp # RBUF_IDX(c + 2)
                       /\ Len(wdata) = 2 => RBUF_IDX(wp + 1) # RBUF_IDX(c + 2)
      BY <2>3, <3>2
    <3> QED
      BY <2>1, <3>1, <3>3, <3>4
  <2>5. RBUF_IDX(rc + 1) \in Cells /\ rc \in Cells
    BY <2>1, ReadCells, IdxPlus
  <2>6. CASE WriteStore
    BY <2>1, <2>4, <2>5, <2>6 DEF WriteStore
  <2>7. CASE WriteStore2
    BY <2>1, <2>4, <2>5, <2>7 DEF WriteStore2, IndInv, TypeOK
  <2> QED
    BY <2>6, <2>7
<1>4. LoadedInv'
  BY <1>1, <1>3 DEF IndInv, LoadedInv, TypeOK, readerVars
<1> QED
  BY <1>1, <1>2, <1>4

\* Every step of the producer keeps the invariant.
LEMMA WriteKeepsInd == IndInv /\ Write => IndInv'
<1> SUFFICES ASSUME IndInv, Write PROVE IndInv'
  OBVIOUS
<1>1. TypeOK /\ WriterInv /\ StoredInv /\ TypeOK'
  BY TypeStep DEF IndInv, Next
<1>2. /\ RBUF_SIZE \in Nat /\ c \in Cells /\ p \in Cells /\ wp \in Cells
      /\ Used = IF c < p THEN p - c - 1 ELSE p + RBUF_SIZE - c - 1
      /\ Used \in 0 .. RBUF_SIZE - 1
      /\ RBUF_IDX(wp + 1) \in Cells
      /\ wpc # "idle" => Len(wdata) \in {1, 2}
  <2>1. RBUF_SIZE \in Nat /\ c \in Cells /\ p \in Cells /\ wp \in Cells
    <3>1. RBUF_SIZE \in Nat
      BY SizeAssumption
    <3>2. c \in Cells /\ p \in Cells /\ wp \in Cells
      BY <1>1, Zenon DEF TypeOK
    <3> QED
      BY <3>1, <3>2
  <2>2. RBUF_IDX(wp + 1) \in Cells
    BY <2>1, IdxPlus
  <2>3. wpc # "idle" => Len(wdata) \in {1, 2}
    BY <1>1, ArgFacts DEF TypeOK
  <2> QED
    BY <2>1, <2>2, <2>3, UsedValue
<1>3. CASE WriteCall
  <2>1. ReaderInv' /\ LoadedInv' /\ Used' = Used
    BY <1>3, ReaderFrame DEF WriteCall
  <2>2. WriterInv' /\ StoredInv'
    BY <1>3 DEF WriteCall, WriterInv, StoredInv, rbufVars
  <2> QED
    BY <1>1, <2>1, <2>2 DEF IndInv
<1>4. CASE WriteCheck
  <2>1. ReaderInv' /\ LoadedInv' /\ Used' = Used
    BY <1>4, ReaderFrame DEF WriteCheck
  <2>2. StoredInv'
    BY <1>4 DEF WriteCheck, StoredInv
  <2>3. Used < RBUF_SIZE - 1
    BY <1>1, <1>2, <1>4 DEF WriteCheck, WriterInv, Cells
  <2>4. Len(wdata) # 2 => Used + Len(wdata) <= RBUF_SIZE - 1
    <3>1. Used + 1 <= RBUF_SIZE - 1 /\ Len(wdata) \in {1, 2}
      BY <1>2, <1>4, <2>3 DEF WriteCheck
    <3> QED
      BY <3>1
  <2>5. WriterInv'
    BY <1>1, <1>4, <2>1, <2>3, <2>4 DEF WriteCheck, WriterInv, rbufVars
  <2> QED
    BY <1>1, <2>1, <2>2, <2>5 DEF IndInv
<1>5. CASE WriteCheck2
  <2>1. ReaderInv' /\ LoadedInv' /\ Used' = Used
    BY <1>5, ReaderFrame DEF WriteCheck2
  <2>2. StoredInv'
    BY <1>5 DEF WriteCheck2, StoredInv
  <2>3. wp = p /\ Used < RBUF_SIZE - 1 /\ RBUF_IDX(wp + 1) # c /\ Len(wdata) = 2
    BY <1>1, <1>5 DEF WriteCheck2, WriterInv, TypeOK
  <2>4. RBUF_IDX(wp + 1) = IF wp + 1 < RBUF_SIZE THEN wp + 1 ELSE wp + 1 - RBUF_SIZE
    BY <1>2, IdxPlus
  <2>5. Used + 2 <= RBUF_SIZE - 1
    BY <1>2, <2>3, <2>4 DEF Cells
  <2>6. WriterInv'
    BY <1>1, <1>5, <2>1, <2>3, <2>5 DEF WriteCheck2, WriterInv, rbufVars
  <2> QED
    BY <1>1, <2>1, <2>2, <2>6 DEF IndInv
<1>6. CASE WriteFull
  <2>1. ReaderInv' /\ LoadedInv' /\ Used' = Used
    BY <1>6, ReaderFrame DEF WriteFull
  <2>2. WriterInv' /\ StoredInv'
    BY <1>6 DEF WriteFull, WriterInv, StoredInv
  <2> QED
    BY <1>1, <2>1, <2>2 DEF IndInv
<1>7. CASE WriteStore
  <2>1. ReaderInv' /\ LoadedInv' /\ Used' = Used
    BY <1>7, StoresSpareLoads
  <2>2. WriterInv'
    BY <1>1, <1>7, <2>1 DEF WriteStore, WriterInv
  <2>3. buffer'[wp] = wdata[1]
    BY <1>1, <1>7 DEF WriteStore, TypeOK
  <2>4. StoredInv'
    BY <1>7, <2>3 DEF WriteStore, StoredInv
  <2> QED
    BY <1>1, <2>1, <2>2, <2>4 DEF IndInv
<1>8. CASE WriteStore2
  <2>1. ReaderInv' /\ LoadedInv' /\ Used' = Used
    BY <1>8, StoresSpareLoads
  <2>2. WriterInv'
    BY <1>1, <1>8, <2>1 DEF WriteStore2, WriterInv
  <2>3. RBUF_IDX(wp + 1) # wp
    <3>1. RBUF_IDX(wp + 1) = IF wp + 1 < RBUF_SIZE THEN wp + 1 ELSE wp + 1 - RBUF_SIZE
      BY <1>2, IdxPlus
    <3> QED
      BY <1>2, <3>1, SizeAssumption DEF Cells
  <2>4. buffer'[RBUF_IDX(wp + 1)] = wdata[2] /\ buffer'[wp] = wdata[1]
    BY <1>1, <1>2, <1>8, <2>3 DEF WriteStore2, TypeOK, StoredInv
  <2>5. StoredInv'
    BY <1>8, <2>4 DEF WriteStore2, StoredInv
  <2> QED
    BY <1>1, <2>1, <2>2, <2>5 DEF IndInv
<1>9. CASE WritePublish
  <2>1. WriterInv' /\ StoredInv'
    BY <1>9 DEF WritePublish, WriterInv, StoredInv
  <2>2. LoadedInv'
    BY <1>9 DEF WritePublish, IndInv, LoadedInv, readerVars
  <2>3. PICK n \in 1 .. 2 : Used' = Used + n
    <3>1. PICK n \in 1 .. 2 : Len(wdata) = n
      BY <1>2, <1>9 DEF WritePublish
    <3>2. Used' = Used + n
      BY <1>9, <3>1, PublishAdds
    <3> QED
      BY <3>2
  <2>4. \A k \in {1} \union ReadSizes : k <= Used => k <= Used'
    BY <1>2, <2>3, OpsAssumption
  <2>5. ReaderInv'
    BY <1>1, <1>2, <1>9, <2>3, <2>4 DEF WritePublish, IndInv, ReaderInv, readerVars, TypeOK
  <2> QED
    BY <1>1, <2>1, <2>2, <2>5 DEF IndInv
<1> QED
  BY <1>3, <1>4, <1>5, <1>6, <1>7, <1>8, <1>9 DEF Write

\* Every step of the consumer keeps the invariant.
LEMMA ReadKeepsInd == IndInv /\ Read => IndInv'
<1> SUFFICES ASSUME IndInv, Read PROVE IndInv'
  OBVIOUS
<1>1. TypeOK /\ ReaderInv /\ LoadedInv /\ TypeOK'
  BY TypeStep DEF IndInv, Next
<1>2. /\ RBUF_SIZE \in Nat /\ c \in Cells /\ p \in Cells /\ rc \in Cells
      /\ Used = IF c < p THEN p - c - 1 ELSE p + RBUF_SIZE - c - 1
      /\ Used \in 0 .. RBUF_SIZE - 1
      /\ RBUF_IDX(rc + 1) \in Cells
      /\ rpc # "idle" => rsize \in {1, 2}
  <2>1. RBUF_SIZE \in Nat /\ c \in Cells /\ p \in Cells /\ rc \in Cells
    <3>1. RBUF_SIZE \in Nat
      BY SizeAssumption
    <3>2. c \in Cells /\ p \in Cells /\ rc \in Cells
      BY <1>1, Zenon DEF TypeOK
    <3> QED
      BY <3>1, <3>2
  <2>2. RBUF_IDX(rc + 1) \in Cells
    BY <2>1, IdxPlus
  <2>3. rpc # "idle" => rsize \in {1, 2}
    BY <1>1, OpsAssumption DEF TypeOK
  <2> QED
    BY <2>1, <2>2, <2>3, UsedValue
<1>3. CASE ReadCall
  <2>1. WriterInv' /\ StoredInv'
    BY <1>3, WriterFrame DEF ReadCall
  <2>2. ReaderInv' /\ LoadedInv'
    BY <1>3 DEF ReadCall, ReaderInv, LoadedInv, rbufVars
  <2> QED
    BY <1>1, <2>1, <2>2 DEF IndInv
<1>4. CASE ReadCheck
  <2>1. WriterInv' /\ StoredInv' /\ Used' = Used
    BY <1>4, WriterFrame DEF ReadCheck
  <2>2. LoadedInv'
    BY <1>4 DEF ReadCheck, LoadedInv
  <2>3. Used >= 1
    <3>1. rc = IF c + 1 < RBUF_SIZE THEN c + 1 ELSE c + 1 - RBUF_SIZE
      BY <1>1, <1>2, <1>4, IdxPlus DEF ReadCheck, ReaderInv
    <3> QED
      BY <1>2, <1>4, <3>1 DEF ReadCheck, Cells
  <2>4. rsize # 2 => rsize <= Used
    BY <1>2, <1>4, <2>3 DEF ReadCheck
  <2>5. ReaderInv'
    BY <1>1, <1>4, <2>1, <2>3, <2>4 DEF ReadCheck, ReaderInv, rbufVars
  <2> QED
    BY <1>1, <2>1, <2>2, <2>5 DEF IndInv
<1>5. CASE ReadCheck2
  <2>1. WriterInv' /\ StoredInv' /\ Used' = Used
    BY <1>5, WriterFrame DEF ReadCheck2
  <2>2. LoadedInv'
    BY <1>5 DEF ReadCheck2, LoadedInv
  <2>3. rc = RBUF_IDX(c + 1) /\ Used >= 1 /\ RBUF_IDX(rc + 1) # p /\ rsize = 2
    BY <1>1, <1>5 DEF ReadCheck2, ReaderInv, TypeOK
  <2>4. RBUF_IDX(c + 2) = IF c + 2 < RBUF_SIZE THEN c + 2 ELSE c + 2 - RBUF_SIZE
    BY <1>2, IdxPlus
  <2>5. RBUF_IDX(c + 2) # p
    BY <1>2, <2>3, ReadCells
  <2>6. 2 <= Used
    <3>1. /\ RBUF_SIZE \in Nat /\ RBUF_SIZE >= 2
          /\ c \in Nat /\ p \in Nat /\ c < RBUF_SIZE /\ p < RBUF_SIZE
          /\ Used = IF c < p THEN p - c - 1 ELSE p + RBUF_SIZE - c - 1
      BY <1>2, SizeAssumption DEF Cells
    <3>2. p # IF c + 2 < RBUF_SIZE THEN c + 2 ELSE c + 2 - RBUF_SIZE
      BY <2>4, <2>5
    <3>3. p # c + 2 /\ (p # c + 2 - RBUF_SIZE \/ c + 2 < RBUF_SIZE)
      BY <3>1, <3>2
    <3>4. Used # 1
      BY <3>1, <3>3
    <3> QED
      BY <3>1, <3>4, <2>3
  <2>7. ReaderInv'
    BY <1>1, <1>5, <2>1, <2>3, <2>6 DEF ReadCheck2, ReaderInv, rbufVars
  <2> QED
    BY <1>1, <2>1, <2>2, <2>7 DEF IndInv
<1>6. CASE ReadEmpty
  <2>1. WriterInv' /\ StoredInv'
    BY <1>6, WriterFrame DEF ReadEmpty
  <2>2. ReaderInv' /\ LoadedInv'
    BY <1>6 DEF ReadEmpty, ReaderInv, LoadedInv
  <2> QED
    BY <1>1, <2>1, <2>2 DEF IndInv
<1>7. CASE ReadLoad
  <2>1. WriterInv' /\ StoredInv' /\ Used' = Used
    BY <1>7, WriterFrame DEF ReadLoad
  <2>2. ReaderInv'
    BY <1>1, <1>7, <2>1 DEF ReadLoad, ReaderInv, rbufVars
  <2>3. LoadedInv'
    BY <1>1, <1>2, <1>7 DEF ReadLoad, LoadedInv, rbufVars
  <2> QED
    BY <1>1, <2>1, <2>2, <2>3 DEF IndInv
<1>8. CASE ReadLoad2
  <2>1. WriterInv' /\ StoredInv' /\ Used' = Used
    BY <1>8, WriterFrame DEF ReadLoad2
  <2>2. ReaderInv'
    BY <1>1, <1>8, <2>1 DEF ReadLoad2, ReaderInv, rbufVars
  <2>3. LoadedInv'
    BY <1>1, <1>8 DEF ReadLoad2, LoadedInv, TypeOK, rbufVars
  <2> QED
    BY <1>1, <2>1, <2>2, <2>3 DEF IndInv
<1>9. CASE ReadConsume
  <2>1. PICK n \in 1 .. 2 : rsize = n /\ Used' = Used - n
    BY <1>9, ConsumeRemoves
  <2>2. ReaderInv' /\ LoadedInv'
    BY <1>9 DEF ReadConsume, ReaderInv, LoadedInv
  <2>3. StoredInv'
    BY <1>9 DEF ReadConsume, IndInv, StoredInv, writerVars
  <2>4. wpc # "idle" => Len(wdata) \in {1, 2}
    BY <1>1, ArgFacts DEF TypeOK
  <2>5. Used < RBUF_SIZE - 1 => Used' < RBUF_SIZE - 1
    BY <1>2, <2>1
  <2>6. \A k \in {1, 2} : Used + k <= RBUF_SIZE - 1 => Used' + k <= RBUF_SIZE - 1
    BY <1>2, <2>1
  <2>7. WriterInv'
    <3>1. UNCHANGED <<p, wpc, wdata, wp>>
      BY <1>9 DEF ReadConsume, writerVars
    <3>2. WriterInv
      BY DEF IndInv
    <3>3. ASSUME wpc \in {"store", "store2", "publish"}
          PROVE  Used' + Len(wdata) <= RBUF_SIZE - 1
      <4>1. PICK k \in {1, 2} : Len(wdata) = k
        BY <2>4, <3>3
      <4>2. Used + k <= RBUF_SIZE - 1
        BY <3>2, <3>3, <4>1 DEF WriterInv
      <4> QED
        BY <2>6, <4>1, <4>2
    <3> QED
      BY <2>5, <3>1, <3>2, <3>3 DEF WriterInv
  <2> QED
    BY <1>1, <2>2, <2>3, <2>7 DEF IndInv
<1> QED
  BY <1>3, <1>4, <1>5, <1>6, <1>7, <1>8, <1>9 DEF Read

-----------------------------------------------------------------------------
(* The theorems.                                                           *)

\* In every reachable state of a buffer of any size, both sides still have
\* what their tests found, and the words they have copied are right.
THEOREM IndInvHolds == Spec => []IndInv
<1>1. IndInv /\ [Next]_vars => IndInv'
  <2> SUFFICES ASSUME IndInv, [Next]_vars PROVE IndInv'
    OBVIOUS
  <2>1. CASE UNCHANGED vars
    <3>1. UNCHANGED <<rbufVars, writerVars, readerVars>>
      BY <2>1 DEF vars
    <3> QED
      BY <3>1, TypeStep, WriterFrame, ReaderFrame DEF IndInv
  <2> QED
    BY <2>1, WriteKeepsInd, ReadKeepsInd DEF Next
<1> QED
  BY <1>1, InitInd, PTL DEF Spec

\* The indices stay inside the buffer and every cell holds a 32-bit word.
THEOREM TypeCorrect == Spec => []TypeOK
<1>1. IndInv => TypeOK
  BY DEF IndInv
<1> QED
  BY <1>1, IndInvHolds, PTL

\* The producer never stores into an unread cell nor into one the consumer
\* is copying, whatever the size of the buffer and the mix of widths.
THEOREM NoConflict == Spec => []NoCellConflict
<1>1. IndInv => NoCellConflict
  <2> SUFFICES ASSUME IndInv, wpc \in {"store", "store2", "publish"}
               PROVE  NoCellConflict
    BY DEF NoCellConflict, WriterCells
  <2>1. /\ c \in Cells /\ p \in Cells /\ wp \in Cells /\ rc \in Cells
        /\ rsize \in {0, 1, 2}
    BY OpsAssumption DEF IndInv, TypeOK
  <2>2. PICK n \in 1 .. 2 : Len(wdata) = n
    BY ArgFacts DEF IndInv, TypeOK
  <2>3. WriterCells = {RBUF_IDX(wp + i) : i \in 0 .. n - 1}
    BY <2>2 DEF WriterCells
  <2>4. ASSUME NEW x \in WriterCells, NEW j \in 1 .. Used
        PROVE  x # RBUF_IDX(c + j)
    <3>1. PICK i \in 0 .. 1 : x = RBUF_IDX(wp + i) /\ (i = 1 => n = 2)
      BY <2>2, <2>3
    <3>2. x = wp \/ (n = 2 /\ x = RBUF_IDX(wp + 1))
      BY <2>1, <3>1, IdxSame
    <3> QED
      BY <2>2, <3>2, CellsApart
  <2>5. WriterCells \intersect PendingCells = {}
    BY <2>4 DEF PendingCells
  <2>6. ReaderCells \subseteq PendingCells
    <3> SUFFICES ASSUME rpc \in {"load", "load2", "consume"}, NEW x \in ReaderCells
                 PROVE  x \in PendingCells
      BY DEF ReaderCells
    <3>1. rc = RBUF_IDX(c + 1) /\ rsize <= Used /\ rsize \in {1, 2}
      BY <2>1, OpsAssumption DEF IndInv, ReaderInv, TypeOK
    <3>2. RBUF_IDX(rc + 1) = RBUF_IDX(c + 2)
      BY <2>1, <3>1, ReadCells
    <3>3. PICK i \in 0 .. 1 : x = RBUF_IDX(rc + i) /\ (i = 1 => rsize = 2)
      BY <3>1 DEF ReaderCells
    <3>4. x = RBUF_IDX(c + 1) \/ (rsize = 2 /\ x = RBUF_IDX(c + 2))
      BY <2>1, <3>1, <3>2, <3>3, IdxSame
    <3>5. Used \in Nat
      BY <2>1, UsedValue, SizeAssumption
    <3> QED
      BY <3>1, <3>4, <3>5 DEF PendingCells
  <2> QED
    BY <2>5, <2>6 DEF NoCellConflict
<1> QED
  BY <1>1, IndInvHolds, PTL

\* What a read returns are the oldest unread words at the instant it gives
\* their cells back.
THEOREM ReadsAreCurrent == Spec => []LoadsStayValid
<1>1. IndInv => LoadsStayValid
  <2> SUFFICES ASSUME IndInv, rpc = "consume"
               PROVE  /\ rsize <= Used
                      /\ rdata = [i \in 1 .. rsize |-> Pending[i]]
    BY DEF LoadsStayValid
  <2>1. /\ rsize \in {1, 2} /\ rsize <= Used /\ c \in Cells /\ p \in Cells
        /\ rc = RBUF_IDX(c + 1)
        /\ rdata \in {<<>>} \union [1..1 -> Word] \union [1..2 -> Word]
        /\ Len(rdata) = rsize
        /\ rdata[1] = buffer[rc]
        /\ rsize = 2 => rdata[2] = buffer[RBUF_IDX(rc + 1)]
    BY OpsAssumption DEF IndInv, TypeOK, ReaderInv, LoadedInv
  <2>2. RBUF_IDX(rc + 1) = RBUF_IDX(c + 2)
    BY <2>1, ReadCells
  <2>3. Used \in Nat
    BY <2>1, UsedValue, SizeAssumption
  <2>4. CASE rsize = 1
    <3>1. Pending[1] = rdata[1]
      BY <2>1, <2>3 DEF Pending
    <3>2. rdata \in [1..1 -> Word]
      BY <2>1, <2>4
    <3>3. rdata = [i \in 1..1 |-> Pending[i]]
      BY <3>1, <3>2
    <3> QED
      BY <2>1, <2>4, <3>3
  <2>5. CASE rsize = 2
    <3>1. Pending[1] = rdata[1] /\ Pending[2] = rdata[2]
      BY <2>1, <2>2, <2>3, <2>5 DEF Pending
    <3>2. rdata \in [1..2 -> Word]
      <4>1. ASSUME rdata \in [1..1 -> Word] PROVE Len(rdata) = 1
        BY <4>1
      <4>2. Len(rdata) = 2
        BY <2>1, <2>5
      <4>3. rdata # <<>>
        BY <4>2
      <4> QED
        BY <2>1, <4>1, <4>2, <4>3
    <3>3. rdata = [i \in 1..2 |-> Pending[i]]
      BY <3>1, <3>2
    <3> QED
      BY <2>1, <2>5, <3>3
  <2> QED
    BY <2>1, <2>4, <2>5
<1> QED
  BY <1>1, IndInvHolds, PTL

-----------------------------------------------------------------------------
(* The refinement.  Pending, which maps the cells between the indices to   *)
(* the queue of WordFifo, as a sequence; then one lemma for each of the    *)
(* steps that the queue sees.                                              *)

\* A cell at most RBUF_SIZE - 1 places after x.
LEMMA CellAfter ==
    ASSUME NEW x \in Cells, NEW k \in 0 .. RBUF_SIZE - 1
    PROVE  /\ RBUF_IDX(x + k) \in Cells
           /\ RBUF_IDX(x + k) = IF x + k < RBUF_SIZE THEN x + k
                                ELSE x + k - RBUF_SIZE
<1>1. /\ RBUF_SIZE \in Nat /\ RBUF_SIZE >= 2 /\ x \in Nat /\ k \in Nat
      /\ x < RBUF_SIZE /\ k < RBUF_SIZE
  BY SizeAssumption DEF Cells
<1>2. PICK m \in Nat : m = x + k
  BY <1>1
<1>3. m \in 0 .. (2 * RBUF_SIZE) - 1
  BY <1>1, <1>2
<1>4. RBUF_IDX(m) = IF m < RBUF_SIZE THEN m ELSE m - RBUF_SIZE
  BY <1>3, IdxValue
<1>5. RBUF_IDX(m) \in Cells
  BY <1>1, <1>3, <1>4 DEF Cells
<1> QED
  BY <1>1, <1>2, <1>4, <1>5

\* A cell that holds an unread word.
LEMMA PendingCell ==
    ASSUME c \in Cells, p \in Cells, NEW k \in 1 .. Used
    PROVE  RBUF_IDX(c + k) \in Cells
<1>1. k \in 0 .. RBUF_SIZE - 1
  BY UsedValue, SizeAssumption
<1> QED
  BY <1>1, CellAfter

\* The unread words form a sequence of length Used.
LEMMA PendingIsSeq ==
    ASSUME c \in Cells, p \in Cells, buffer \in [Cells -> Word]
    PROVE  /\ Pending \in Seq(Word)
           /\ Len(Pending) = Used
           /\ \A k \in 1 .. Used : Pending[k] = buffer[RBUF_IDX(c + k)]
<1>1. \A k \in 1 .. Used : buffer[RBUF_IDX(c + k)] \in Word
  BY PendingCell
<1>2. Used \in Nat
  BY UsedValue, SizeAssumption
<1>3. Pending \in [1 .. Used -> Word]
  BY <1>1 DEF Pending
<1>4. Pending \in Seq(Word) /\ Len(Pending) = Used
  BY <1>2, <1>3
<1> QED
  BY <1>4 DEF Pending

\* The first free cell is the one p names, the second the one after it.
LEMMA FreeCells ==
    ASSUME c \in Cells, p \in Cells
    PROVE  /\ RBUF_IDX(c + (Used + 1)) = p
           /\ Used + 2 <= RBUF_SIZE - 1 =>
                  RBUF_IDX(c + (Used + 2)) = RBUF_IDX(p + 1)
<1>1. /\ RBUF_SIZE \in Nat /\ RBUF_SIZE >= 2
      /\ c \in Nat /\ p \in Nat /\ c < RBUF_SIZE /\ p < RBUF_SIZE
  BY SizeAssumption DEF Cells
<1>2. /\ Used \in Nat /\ Used <= RBUF_SIZE - 1
      /\ Used = IF c < p THEN p - c - 1 ELSE p + RBUF_SIZE - c - 1
  BY <1>1, UsedValue
<1> DEFINE a == c + (Used + 1)
           b == c + (Used + 2)
<1>3. a \in 0 .. (2 * RBUF_SIZE) - 1
  BY <1>1, <1>2
<1>4. a = IF c < p THEN p ELSE p + RBUF_SIZE
  BY <1>1, <1>2
<1>5. Used + 2 <= RBUF_SIZE - 1 => b \in 0 .. (2 * RBUF_SIZE) - 1
  BY <1>1, <1>2
<1>6. b = IF c < p THEN p + 1 ELSE p + 1 + RBUF_SIZE
  BY <1>1, <1>2
<1> HIDE DEF a, b
<1>7. RBUF_IDX(a) = p
  <2>1. RBUF_IDX(a) = IF a < RBUF_SIZE THEN a ELSE a - RBUF_SIZE
    BY <1>3, IdxValue
  <2> QED
    BY <1>1, <1>4, <2>1
<1>8. Used + 2 <= RBUF_SIZE - 1 => RBUF_IDX(b) = RBUF_IDX(p + 1)
  <2> SUFFICES ASSUME Used + 2 <= RBUF_SIZE - 1 PROVE RBUF_IDX(b) = RBUF_IDX(p + 1)
    OBVIOUS
  <2>1. RBUF_IDX(b) = IF b < RBUF_SIZE THEN b ELSE b - RBUF_SIZE
    BY <1>5, IdxValue
  <2>2. RBUF_IDX(p + 1) = IF p + 1 < RBUF_SIZE THEN p + 1 ELSE p + 1 - RBUF_SIZE
    BY IdxPlus
  <2>3. ~(c < p) => p + 1 < RBUF_SIZE
    BY <1>1, <1>2
  <2> QED
    BY <1>1, <1>6, <2>1, <2>2, <2>3
<1> QED
  BY <1>7, <1>8 DEF a, b

\* Neither index nor any unread cell changes: the queue does not either.
LEMMA PendingFrame ==
    ASSUME UNCHANGED rbufVars PROVE Pending' = Pending
<1>1. c' = c /\ p' = p /\ buffer' = buffer
  BY DEF rbufVars
<1> QED
  BY <1>1 DEF Pending, Used

\* The argument of the write in progress, as a sequence.
LEMMA WdataIsSeq ==
    ASSUME IndInv
    PROVE  /\ wdata \in Seq(Word)
           /\ wpc # "idle" => wdata # <<>> /\ Len(wdata) \in {1, 2}
<1>1. wdata \in {<<>>} \union WriteArgs /\ (wpc = "idle" <=> wdata = <<>>)
  BY DEF IndInv, TypeOK
<1>2. wpc # "idle" => wdata # <<>> /\ Len(wdata) \in {1, 2}
  BY <1>1, ArgFacts
<1>3. CASE wdata = <<>>
  BY <1>2, <1>3
<1>4. CASE wdata \in WriteArgs
  <2>1. wdata \in [1..1 -> Word] \/ wdata \in [1..2 -> Word]
    BY <1>4, OpsAssumption
  <2>2. \A n \in Nat : [1..n -> Word] \subseteq Seq(Word)
    OBVIOUS
  <2>3. wdata \in Seq(Word)
    BY <2>1, <2>2
  <2> QED
    BY <1>2, <2>3
<1> QED
  BY <1>1, <1>3, <1>4

\* Storing p puts the words of the argument at the end of the queue.
LEMMA PublishEnqueues ==
    ASSUME IndInv, WritePublish PROVE Pending' = Pending \o wdata
<1>1. /\ c \in Cells /\ p \in Cells /\ buffer \in [Cells -> Word]
      /\ c' \in Cells /\ p' \in Cells /\ buffer' \in [Cells -> Word]
      /\ c' = c /\ buffer' = buffer /\ wp = p
      /\ Used + Len(wdata) <= RBUF_SIZE - 1
      /\ buffer[p] = wdata[1]
      /\ Len(wdata) = 2 => buffer[RBUF_IDX(p + 1)] = wdata[2]
  BY TypeStep
  DEF IndInv, TypeOK, WriterInv, StoredInv, WritePublish, Next, Write
<1>2. PICK n \in 1 .. 2 : Len(wdata) = n
  BY WdataIsSeq DEF WritePublish
<1>3. Used' = Used + n
  BY <1>2, PublishAdds
<1>4. Used \in Nat /\ Used + n <= RBUF_SIZE - 1
  BY <1>1, <1>2, UsedValue, SizeAssumption
<1>5. /\ Pending \in Seq(Word) /\ Len(Pending) = Used
      /\ \A k \in 1 .. Used : Pending[k] = buffer[RBUF_IDX(c + k)]
  BY <1>1, PendingIsSeq
<1>6. /\ Pending' \in Seq(Word) /\ Len(Pending') = Used'
      /\ \A k \in 1 .. Used' : Pending'[k] = buffer[RBUF_IDX(c + k)]
  <2>1. \A k \in 1 .. Used' : buffer[RBUF_IDX(c + k)] \in Word
    <3> SUFFICES ASSUME NEW k \in 1 .. Used' PROVE RBUF_IDX(c + k) \in Cells
      BY <1>1
    <3>1. k \in 0 .. RBUF_SIZE - 1
      BY <1>3, <1>4, SizeAssumption
    <3> QED
      BY <1>1, <3>1, CellAfter
  <2>2. Pending' = [k \in 1 .. Used' |-> buffer[RBUF_IDX(c + k)]]
    BY <1>1 DEF Pending
  <2>3. Used' \in Nat
    BY <1>3, <1>4
  <2> QED
    BY <2>1, <2>2, <2>3
<1>7. wdata \in Seq(Word)
  BY WdataIsSeq
<1>8. /\ Pending \o wdata \in Seq(Word)
      /\ Len(Pending \o wdata) = Used + n
      /\ \A k \in 1 .. Used + n : (Pending \o wdata)[k] =
             IF k <= Used THEN Pending[k] ELSE wdata[k - Used]
  BY <1>2, <1>5, <1>7, ConcatProperties
<1>9. ASSUME NEW k \in 1 .. Used + n PROVE Pending'[k] = (Pending \o wdata)[k]
  <2>1. k <= Used \/ k = Used + 1 \/ (k = Used + 2 /\ n = 2)
    <3>1. PICK u \in Nat : u = Used
      BY <1>4
    <3>2. k \in 1 .. u + n
      BY <3>1, Zenon
    <3>3. k <= u \/ k = u + 1 \/ (k = u + 2 /\ n = 2)
      BY <3>2
    <3> QED
      BY <3>1, <3>3
  <2>2. CASE k <= Used
    <3>1. k \in 1 .. Used /\ k \in 1 .. Used'
      BY <1>3, <1>4, <2>2
    <3> QED
      BY <1>5, <1>6, <1>8, <2>2, <3>1
  <2>3. CASE k = Used + 1
    <3>1. Pending'[k] = buffer[RBUF_IDX(c + (Used + 1))]
      BY <1>3, <1>6, <2>3
    <3>2. (Pending \o wdata)[k] = wdata[1]
      <4>1. ~(k <= Used) /\ k - Used = 1
        BY <1>4, <2>3
      <4> QED
        BY <1>8, <4>1
    <3> QED
      BY <1>1, <3>1, <3>2, FreeCells
  <2>4. CASE k = Used + 2 /\ n = 2
    <3>1. Pending'[k] = buffer[RBUF_IDX(c + (Used + 2))]
      BY <1>3, <1>6, <2>4
    <3>2. (Pending \o wdata)[k] = wdata[2]
      <4>1. ~(k <= Used) /\ k - Used = 2
        BY <1>4, <2>4
      <4> QED
        BY <1>8, <4>1
    <3>3. RBUF_IDX(c + (Used + 2)) = RBUF_IDX(p + 1)
      BY <1>1, <1>4, <2>4, FreeCells
    <3> QED
      BY <1>1, <1>2, <2>4, <3>1, <3>2, <3>3
  <2> QED
    BY <2>1, <2>2, <2>3, <2>4
<1> QED
  BY <1>3, <1>6, <1>8, <1>9, SeqEqual

\* Storing c takes the words that were copied from the front of the queue.
LEMMA ConsumeDequeues ==
    ASSUME IndInv, ReadConsume
    PROVE  /\ rsize \in 1 .. 2 /\ rsize <= Len(Pending)
           /\ Pending' = SubSeq(Pending, rsize + 1, Len(Pending))
           /\ rdata = SubSeq(Pending, 1, rsize)
<1>1. /\ c \in Cells /\ p \in Cells /\ buffer \in [Cells -> Word]
      /\ c' \in Cells /\ p' = p /\ buffer' = buffer
      /\ rc = RBUF_IDX(c + 1) /\ rsize \in {1, 2} /\ rsize <= Used
      /\ rdata \in {<<>>} \union [1..1 -> Word] \union [1..2 -> Word]
      /\ Len(rdata) = rsize
      /\ rdata[1] = buffer[rc]
      /\ rsize = 2 => rdata[2] = buffer[RBUF_IDX(rc + 1)]
  BY TypeStep, OpsAssumption
  DEF IndInv, TypeOK, ReaderInv, LoadedInv, ReadConsume, Next, Read
<1>2. c' = RBUF_IDX(c + rsize) /\ RBUF_IDX(rc + 1) = RBUF_IDX(c + 2)
  BY <1>1, ReadCells DEF ReadConsume
<1>3. PICK n \in 1 .. 2 : rsize = n
  BY <1>1
<1>4. PICK u \in Nat : u = Used
  BY <1>1, UsedValue, SizeAssumption
<1>5. n <= u /\ u <= RBUF_SIZE - 1 /\ Used' = u - n
  BY <1>1, <1>3, <1>4, UsedValue, ConsumeRemoves, SizeAssumption
<1>6. /\ Pending \in Seq(Word) /\ Len(Pending) = u
      /\ \A k \in 1 .. u : Pending[k] = buffer[RBUF_IDX(c + k)]
  BY <1>1, <1>4, PendingIsSeq
<1>7. ASSUME NEW k \in 1 .. u - n
      PROVE  RBUF_IDX(c' + k) = RBUF_IDX(c + (k + n)) /\ RBUF_IDX(c' + k) \in Cells
  <2>1. /\ RBUF_SIZE \in Nat /\ RBUF_SIZE >= 2 /\ c \in Nat /\ c < RBUF_SIZE
    BY <1>1, SizeAssumption DEF Cells
  <2>2. k \in 0 .. RBUF_SIZE - 1 /\ k + n \in 0 .. RBUF_SIZE - 1 /\ n \in 0 .. RBUF_SIZE - 1
    BY <1>5, <2>1
  <2>3. c' = IF c + n < RBUF_SIZE THEN c + n ELSE c + n - RBUF_SIZE
    BY <1>1, <1>2, <1>3, <2>2, CellAfter
  <2>4. /\ RBUF_IDX(c' + k) = IF c' + k < RBUF_SIZE THEN c' + k ELSE c' + k - RBUF_SIZE
        /\ RBUF_IDX(c' + k) \in Cells
    BY <1>1, <2>2, CellAfter
  <2>5. RBUF_IDX(c + (k + n)) = IF c + (k + n) < RBUF_SIZE THEN c + (k + n)
                                ELSE c + (k + n) - RBUF_SIZE
    BY <1>1, <2>2, CellAfter
  <2>6. /\ c' + k < RBUF_SIZE /\ c + n < RBUF_SIZE => c' + k = c + (k + n) /\ c + (k + n) < RBUF_SIZE
        /\ ~(c' + k < RBUF_SIZE) /\ c + n < RBUF_SIZE =>
              c' + k = c + (k + n) /\ ~(c + (k + n) < RBUF_SIZE)
        /\ ~(c + n < RBUF_SIZE) =>
              /\ c' + k = c + (k + n) - RBUF_SIZE /\ c' + k < RBUF_SIZE
              /\ ~(c + (k + n) < RBUF_SIZE)
    BY <1>5, <2>1, <2>3
  <2> QED
    BY <2>4, <2>5, <2>6
<1>8. /\ Pending' \in Seq(Word) /\ Len(Pending') = u - n
      /\ \A k \in 1 .. u - n : Pending'[k] = buffer[RBUF_IDX(c + (k + n))]
  <2>1. Pending' = [k \in 1 .. u - n |-> buffer[RBUF_IDX(c' + k)]]
    BY <1>1, <1>5 DEF Pending
  <2>2. \A k \in 1 .. u - n : buffer[RBUF_IDX(c' + k)] \in Word
    BY <1>1, <1>7
  <2>3. u - n \in Nat
    BY <1>5
  <2>4. Pending' \in Seq(Word) /\ Len(Pending') = u - n
    BY <2>1, <2>2, <2>3
  <2>5. ASSUME NEW k \in 1 .. u - n PROVE Pending'[k] = buffer[RBUF_IDX(c + (k + n))]
    BY <1>7, <2>1, Zenon
  <2> QED
    BY <2>4, <2>5
<1>9. Pending' = SubSeq(Pending, n + 1, u)
  <2>1. \A k \in n + 1 .. u : Pending[k] \in Word
    BY <1>6
  <2>2. n + 1 \in Int /\ u \in Int
    OBVIOUS
  <2>3. /\ SubSeq(Pending, n + 1, u) \in Seq(Word)
        /\ Len(SubSeq(Pending, n + 1, u)) = IF n + 1 <= u THEN u - (n + 1) + 1 ELSE 0
        /\ \A k \in 1 .. u - (n + 1) + 1 : SubSeq(Pending, n + 1, u)[k] = Pending[(n + 1) + k - 1]
    BY <2>1, <2>2, SubSeqProperties
  <2>4. Len(SubSeq(Pending, n + 1, u)) = u - n
    BY <1>5, <2>3
  <2>5. ASSUME NEW k \in 1 .. u - n PROVE Pending'[k] = SubSeq(Pending, n + 1, u)[k]
    <3>1. k \in 1 .. u - (n + 1) + 1 /\ (n + 1) + k - 1 = k + n /\ k + n \in 1 .. u
      BY <1>5
    <3>2. SubSeq(Pending, n + 1, u)[k] = Pending[k + n]
      BY <2>3, <3>1
    <3> QED
      BY <1>6, <1>8, <3>1, <3>2
  <2> QED
    BY <1>8, <2>3, <2>4, <2>5, SeqEqual
<1>10. rdata = SubSeq(Pending, 1, n)
  <2>1. rdata \in Seq(Word) /\ Len(rdata) = n
    <3>1. \A m \in Nat : [1..m -> Word] \subseteq Seq(Word)
      OBVIOUS
    <3>2. rdata = <<>> \/ rdata \in [1..1 -> Word] \/ rdata \in [1..2 -> Word]
      BY <1>1
    <3>3. <<>> \in Seq(Word)
      OBVIOUS
    <3> QED
      BY <1>1, <1>3, <3>1, <3>2, <3>3
  <2>2. \A k \in 1 .. n : Pending[k] \in Word
    BY <1>5, <1>6
  <2>3. /\ SubSeq(Pending, 1, n) \in Seq(Word)
        /\ Len(SubSeq(Pending, 1, n)) = IF 1 <= n THEN n - 1 + 1 ELSE 0
        /\ \A k \in 1 .. n - 1 + 1 : SubSeq(Pending, 1, n)[k] = Pending[1 + k - 1]
    BY <2>2, SubSeqProperties
  <2>4. Len(SubSeq(Pending, 1, n)) = n
    BY <2>3
  <2>5. ASSUME NEW k \in 1 .. n PROVE rdata[k] = SubSeq(Pending, 1, n)[k]
    <3>1. k \in 1 .. n - 1 + 1 /\ 1 + k - 1 = k /\ k \in 1 .. u /\ k \in {1, 2} /\ (k = 2 => n = 2)
      BY <1>5
    <3>2. SubSeq(Pending, 1, n)[k] = buffer[RBUF_IDX(c + k)]
      BY <1>6, <2>3, <3>1
    <3>3. CASE k = 1
      BY <1>1, <3>2, <3>3
    <3>4. CASE k = 2
      BY <1>1, <1>2, <1>3, <3>1, <3>2, <3>4
    <3> QED
      BY <3>1, <3>3, <3>4
  <2> QED
    BY <2>1, <2>3, <2>4, <2>5, SeqEqual
<1>11. Len(Pending) = u /\ rsize = n
  BY <1>3, <1>6
<1> QED
  BY <1>5, <1>9, <1>10, <1>11

\* A step of either side that leaves the unread words alone.
LEMMA StoresLeavePending ==
    ASSUME IndInv, WriteStore \/ WriteStore2 PROVE Pending' = Pending
<1>1. /\ c \in Cells /\ p \in Cells /\ wp \in Cells /\ buffer \in [Cells -> Word]
      /\ c' = c /\ p' = p /\ wpc \in {"store", "store2", "publish"}
      /\ (WriteStore2 => Len(wdata) = 2)
  BY DEF IndInv, TypeOK, WriteStore, WriteStore2
<1>2. Used' = Used
  BY <1>1 DEF Used
<1>3. ASSUME NEW k \in 1 .. Used
      PROVE  buffer'[RBUF_IDX(c + k)] = buffer[RBUF_IDX(c + k)]
  <2>1. /\ wp # RBUF_IDX(c + k)
        /\ Len(wdata) = 2 => RBUF_IDX(wp + 1) # RBUF_IDX(c + k)
    BY <1>1, CellsApart
  <2>2. RBUF_IDX(c + k) \in Cells /\ RBUF_IDX(wp + 1) \in Cells
    BY <1>1, PendingCell, IdxPlus
  <2>3. CASE WriteStore
    BY <1>1, <2>1, <2>2, <2>3 DEF WriteStore
  <2>4. CASE WriteStore2
    BY <1>1, <2>1, <2>2, <2>4 DEF WriteStore2
  <2> QED
    BY <2>3, <2>4
<1>4. Pending' = [k \in 1 .. Used |-> buffer'[RBUF_IDX(c + k)]]
  BY <1>1, <1>2 DEF Pending
<1> QED
  BY <1>3, <1>4 DEF Pending

\* A write is refused only while there is no room for all of its words.
LEMMA RefusedIsFull ==
    ASSUME IndInv, WriteFull PROVE Used + Len(wdata) > RBUF_SIZE - 1
<1>1. /\ c \in Cells /\ p \in Cells /\ wp = p /\ wpc # "idle"
      /\ wpc = "check2" => Len(wdata) = 2
  BY DEF IndInv, TypeOK, WriterInv, WriteFull
<1>2. PICK n \in 1 .. 2 : Len(wdata) = n
  BY <1>1, WdataIsSeq
<1>3. Used = IF c < p THEN p - c - 1 ELSE p + RBUF_SIZE - c - 1
  BY <1>1, UsedValue
<1>4. RBUF_IDX(p + 1) = IF p + 1 < RBUF_SIZE THEN p + 1 ELSE p + 1 - RBUF_SIZE
  BY <1>1, IdxPlus
<1>5. p = c \/ (n = 2 /\ RBUF_IDX(p + 1) = c)
  BY <1>1, <1>2 DEF WriteFull
<1>6. /\ RBUF_SIZE \in Nat /\ RBUF_SIZE >= 2
      /\ c \in Nat /\ p \in Nat /\ c < RBUF_SIZE /\ p < RBUF_SIZE
  BY <1>1, SizeAssumption DEF Cells
<1>7. Used + n > RBUF_SIZE - 1
  <2>1. CASE p = c
    BY <1>3, <1>6, <2>1
  <2>2. CASE n = 2 /\ RBUF_IDX(p + 1) = c
    BY <1>3, <1>4, <1>6, <2>2
  <2> QED
    BY <1>5, <2>1, <2>2
<1> QED
  BY <1>2, <1>7

\* A read reports an empty buffer only while it holds fewer words than it wants.
LEMMA RefusedIsEmpty ==
    ASSUME IndInv, ReadEmpty PROVE rsize > Used /\ rsize # 0
<1>1. /\ c \in Cells /\ p \in Cells /\ rc = RBUF_IDX(c + 1) /\ rsize \in {1, 2}
      /\ rpc = "check2" => rsize = 2
  BY OpsAssumption DEF IndInv, TypeOK, ReaderInv, ReadEmpty
<1>2. PICK n \in 1 .. 2 : rsize = n
  BY <1>1
<1>3. Used = IF c < p THEN p - c - 1 ELSE p + RBUF_SIZE - c - 1
  BY <1>1, UsedValue
<1>4. /\ RBUF_IDX(c + 1) = IF c + 1 < RBUF_SIZE THEN c + 1 ELSE c + 1 - RBUF_SIZE
      /\ RBUF_IDX(c + 2) = IF c + 2 < RBUF_SIZE THEN c + 2 ELSE c + 2 - RBUF_SIZE
  BY <1>1, IdxPlus
<1>5. RBUF_IDX(c + 1) = p \/ (n = 2 /\ RBUF_IDX(c + 2) = p)
  BY <1>1, <1>2, ReadCells DEF ReadEmpty
<1>6. /\ RBUF_SIZE \in Nat /\ RBUF_SIZE >= 2
      /\ c \in Nat /\ p \in Nat /\ c < RBUF_SIZE /\ p < RBUF_SIZE
  BY <1>1, SizeAssumption DEF Cells
<1>7. n > Used
  <2>1. CASE RBUF_IDX(c + 1) = p
    BY <1>3, <1>4, <1>6, <2>1
  <2>2. CASE n = 2 /\ RBUF_IDX(c + 2) = p
    BY <1>3, <1>4, <1>6, <2>2
  <2> QED
    BY <1>5, <2>1, <2>2
<1> QED
  BY <1>2, <1>7

-----------------------------------------------------------------------------
(* Every step of the buffer is a step of the queue, or invisible to it.    *)

\* Initialisation makes an empty queue.
LEMMA InitFifo == Init => Fifo!FifoInit
<1> SUFFICES ASSUME Init PROVE Fifo!FifoInit
  OBVIOUS
<1>1. c \in Cells /\ p \in Cells /\ buffer \in [Cells -> Word]
  BY InitInd DEF IndInv, TypeOK
<1>2. Used = 0
  BY <1>1, UsedValue, SizeAssumption DEF Init
<1>3. Pending = <<>>
  BY <1>1, <1>2, PendingIsSeq
<1>4. NoResult = Fifo!NoResult
  BY DEF NoResult, Fifo!NoResult
<1> QED
  BY <1>3, <1>4 DEF Init, Fifo!FifoInit

\* The producer's steps.
LEMMA WriteImplements == IndInv /\ Write => [Fifo!FifoNext]_(Fifo!fifoVars)
<1> SUFFICES ASSUME IndInv, Write PROVE Fifo!FifoNext \/ UNCHANGED Fifo!fifoVars
  OBVIOUS
<1>1. /\ wpc = "idle" <=> wdata = <<>>
      /\ Len(Pending) = Used
  BY PendingIsSeq DEF IndInv, TypeOK
<1>2. CASE WriteCall
  <2>1. Pending' = Pending
    BY <1>2, PendingFrame DEF WriteCall
  <2>2. Fifo!CallWrite
    BY <1>1, <1>2, <2>1 DEF WriteCall, Fifo!CallWrite, readerVars
  <2> QED
    BY <2>2 DEF Fifo!FifoNext
<1>3. CASE WriteCheck \/ WriteCheck2
  <2>1. UNCHANGED <<rbufVars, wdata, wret, readerVars>>
    BY <1>3 DEF WriteCheck, WriteCheck2
  <2> QED
    BY <2>1, PendingFrame DEF Fifo!fifoVars, readerVars
<1>4. CASE WriteFull
  <2>1. Pending' = Pending
    BY <1>4, PendingFrame DEF WriteFull
  <2>2. Len(Pending) + Len(wdata) > RBUF_SIZE - 1
    BY <1>1, <1>4, RefusedIsFull
  <2>3. wdata # <<>>
    BY <1>1, <1>4 DEF WriteFull
  <2>4. Fifo!RefuseWrite
    BY <1>4, <2>1, <2>2, <2>3 DEF WriteFull, Fifo!RefuseWrite, readerVars
  <2> QED
    BY <2>4 DEF Fifo!FifoNext
<1>5. CASE WriteStore \/ WriteStore2
  <2>1. UNCHANGED <<wdata, wret, readerVars>>
    BY <1>5 DEF WriteStore, WriteStore2
  <2> QED
    BY <1>5, <2>1, StoresLeavePending DEF Fifo!fifoVars, readerVars
<1>6. CASE WritePublish
  <2>1. Pending' = Pending \o wdata
    BY <1>6, PublishEnqueues
  <2>2. wdata # <<>> /\ Len(Pending) + Len(wdata) <= RBUF_SIZE - 1
    BY <1>1, <1>6 DEF WritePublish, IndInv, WriterInv
  <2>3. Fifo!Enqueue
    BY <1>6, <2>1, <2>2 DEF WritePublish, Fifo!Enqueue, readerVars
  <2> QED
    BY <2>3 DEF Fifo!FifoNext
<1> QED
  BY <1>2, <1>3, <1>4, <1>5, <1>6 DEF Write

\* The consumer's steps.
LEMMA ReadImplements == IndInv /\ Read => [Fifo!FifoNext]_(Fifo!fifoVars)
<1> SUFFICES ASSUME IndInv, Read PROVE Fifo!FifoNext \/ UNCHANGED Fifo!fifoVars
  OBVIOUS
<1>1. /\ rpc = "idle" <=> rsize = 0
      /\ Len(Pending) = Used
  BY PendingIsSeq DEF IndInv, TypeOK
<1>2. CASE ReadCall
  <2>1. Pending' = Pending
    BY <1>2, PendingFrame DEF ReadCall
  <2>2. Fifo!CallRead
    BY <1>1, <1>2, <2>1 DEF ReadCall, Fifo!CallRead, writerVars
  <2> QED
    BY <2>2 DEF Fifo!FifoNext
<1>3. CASE ReadCheck \/ ReadCheck2 \/ ReadLoad \/ ReadLoad2
  <2>1. UNCHANGED <<rbufVars, writerVars, rsize, rret>>
    BY <1>3 DEF ReadCheck, ReadCheck2, ReadLoad, ReadLoad2
  <2> QED
    BY <2>1, PendingFrame DEF Fifo!fifoVars, writerVars
<1>4. CASE ReadEmpty
  <2>1. Pending' = Pending
    BY <1>4, PendingFrame DEF ReadEmpty
  <2>2. rsize > Len(Pending) /\ rsize # 0
    BY <1>1, <1>4, RefusedIsEmpty
  <2>3. NoResult = Fifo!NoResult
    BY DEF NoResult, Fifo!NoResult
  <2>4. Fifo!RefuseRead
    BY <1>4, <2>1, <2>2, <2>3 DEF ReadEmpty, Fifo!RefuseRead, writerVars
  <2> QED
    BY <2>4 DEF Fifo!FifoNext
<1>5. CASE ReadConsume
  <2>1. /\ rsize # 0 /\ rsize <= Len(Pending)
        /\ Pending' = SubSeq(Pending, rsize + 1, Len(Pending))
        /\ rdata = SubSeq(Pending, 1, rsize)
    BY <1>5, ConsumeDequeues
  <2>2. Fifo!Dequeue
    BY <1>5, <2>1 DEF ReadConsume, Fifo!Dequeue, writerVars
  <2> QED
    BY <2>2 DEF Fifo!FifoNext
<1> QED
  BY <1>2, <1>3, <1>4, <1>5 DEF Read

\* Every step of the buffer is one of the queue, or invisible to it.
LEMMA WordStep == IndInv /\ [Next]_vars => [Fifo!FifoNext]_(Fifo!fifoVars)
<1> SUFFICES ASSUME IndInv, [Next]_vars
             PROVE  [Fifo!FifoNext]_(Fifo!fifoVars)
  OBVIOUS
<1>1. CASE UNCHANGED vars
  <2>1. UNCHANGED <<rbufVars, wdata, wret, rsize, rret>>
    BY <1>1 DEF vars, writerVars, readerVars
  <2> QED
    BY <2>1, PendingFrame DEF Fifo!fifoVars
<1> QED
  BY <1>1, WriteImplements, ReadImplements DEF Next

\* The ring buffer in shared memory is a bounded first-in first-out queue:
\* writes and reads of one or two words take effect at one instant, in
\* order, and fail only when the queue is full or too short, for every
\* buffer size and every mix of widths.
THEOREM RBufferImplementsFifo == Spec => ImplementsFifo
  BY WordStep, InitFifo, IndInvHolds, PTL DEF Spec, ImplementsFifo, Fifo!FifoSpec

-----------------------------------------------------------------------------
(* The buffer as the programs use it, for values of 64 bits only: it is a  *)
(* queue of values, of which it holds half as many as words.               *)

Only64 == WriteArgs \subseteq [1..2 -> Word] /\ ReadSizes = {2}

\* The values that a sequence of words makes up, lower word first.
ValuesOf(q) == [i \in 1..Len(q) \div 2 |-> <<q[(2 * i) - 1], q[2 * i]>>]

\* The queue of values: a "word" of it is a value, its two words in one.
Values == INSTANCE WordFifo WITH
              Capacity <- (RBUF_SIZE - 1) \div 2,
              WriteArgs <- {<<a>> : a \in WriteArgs},
              ReadSizes <- {1},
              queue <- ValuesOf(Pending),
              arg <- IF wdata = <<>> THEN <<>> ELSE <<wdata>>,
              want <- IF rsize = 0 THEN 0 ELSE 1,
              rret <- [status |-> rret.status,
                       data |-> IF rret.status = 0 THEN <<rret.data>> ELSE <<>>]

ImplementsValues == Values!FifoSpec

\* No value is in the buffer by half.
WholeValues == Len(Pending) % 2 = 0

\* Halves of even numbers.
LEMMA Halves ==
    ASSUME NEW n \in Nat, n % 2 = 0
    PROVE  /\ n \div 2 \in Nat /\ n = 2 * (n \div 2)
           /\ (n + 2) % 2 = 0 /\ (n + 2) \div 2 = (n \div 2) + 1
           /\ n >= 2 => (n - 2) % 2 = 0 /\ (n - 2) \div 2 = (n \div 2) - 1
  OBVIOUS

\* Half the room for words is the room for values: there is room for one more
\* value just when there is for its two words.
LEMMA HalfTheRoom ==
    ASSUME NEW n \in Nat, n % 2 = 0, NEW room \in Nat
    PROVE  n + 2 <= room <=> (n \div 2) + 1 <= room \div 2
  OBVIOUS

\* What ValuesOf makes of a sequence.
LEMMA ValuesOfFacts ==
    ASSUME NEW S, NEW q \in Seq(S), Len(q) % 2 = 0
    PROVE  /\ ValuesOf(q) \in Seq(S \X S)
           /\ Len(ValuesOf(q)) = Len(q) \div 2
           /\ \A i \in 1 .. Len(q) \div 2 : ValuesOf(q)[i] = <<q[(2 * i) - 1], q[2 * i]>>
<1>1. PICK n \in Nat : n = Len(q) \div 2 /\ Len(q) = 2 * n
  BY Halves
<1>2. \A i \in 1 .. n : (2 * i) - 1 \in 1 .. Len(q) /\ 2 * i \in 1 .. Len(q)
  BY <1>1
<1>3. \A i \in 1 .. n : <<q[(2 * i) - 1], q[2 * i]>> \in S \X S
  BY <1>2
<1>4. ValuesOf(q) = [i \in 1 .. n |-> <<q[(2 * i) - 1], q[2 * i]>>]
  BY <1>1 DEF ValuesOf
<1> DEFINE f == [i \in 1 .. n |-> <<q[(2 * i) - 1], q[2 * i]>>]
<1>5. f \in [1 .. n -> S \X S]
  BY <1>3
<1>6. f \in Seq(S \X S) /\ Len(f) = n
  BY <1>5
<1> QED
  BY <1>1, <1>4, <1>6

\* The two words of a value.
LEMMA PairFacts ==
    ASSUME NEW S, NEW w \in [1..2 -> S]
    PROVE  w \in Seq(S) /\ Len(w) = 2 /\ w = <<w[1], w[2]>> /\ w \in S \X S
<1>1. \A n \in Nat : [1..n -> S] \subseteq Seq(S)
  OBVIOUS
<1>2. w \in Seq(S)
  BY <1>1
<1>3. Len(w) \in Nat /\ DOMAIN w = 1 .. Len(w)
  BY <1>2, LenProperties
<1>4. Len(w) = 2
  <2>1. DOMAIN w = 1..2
    OBVIOUS
  <2> QED
    BY <1>3, <2>1
<1>5. w[1] \in S /\ w[2] \in S
  OBVIOUS
<1>6. w = <<w[1], w[2]>>
  BY <1>5
<1> QED
  BY <1>2, <1>4, <1>5, <1>6

\* Two words more are one value more.
LEMMA ValueAppended ==
    ASSUME NEW S, NEW q \in Seq(S), Len(q) % 2 = 0, NEW w \in [1..2 -> S]
    PROVE  /\ ValuesOf(q \o w) = ValuesOf(q) \o <<w>>
           /\ Len(q \o w) % 2 = 0
<1>1. PICK n \in Nat : n = Len(q) \div 2 /\ Len(q) = 2 * n
  BY Halves
<1>2. /\ w \in Seq(S) /\ Len(w) = 2 /\ w = <<w[1], w[2]>>
      /\ q \o w \in Seq(S) /\ Len(q \o w) = (2 * n) + 2
      /\ \A i \in 1 .. (2 * n) + 2 : (q \o w)[i] = IF i <= 2 * n THEN q[i] ELSE w[i - (2 * n)]
  <2>1. w \in Seq(S) /\ Len(w) = 2 /\ w = <<w[1], w[2]>>
    BY PairFacts
  <2>2. /\ q \o w \in Seq(S) /\ Len(q \o w) = Len(q) + Len(w)
        /\ \A i \in 1 .. Len(q) + Len(w) :
              (q \o w)[i] = IF i <= Len(q) THEN q[i] ELSE w[i - Len(q)]
    BY <2>1, ConcatProperties, Zenon
  <2>3. Len(q) = 2 * n
    BY <1>1
  <2> QED
    BY <2>1, <2>2, <2>3
<1>3. Len(q \o w) % 2 = 0 /\ Len(q \o w) \div 2 = n + 1
  BY <1>1, <1>2
<1> DEFINE v == ValuesOf(q)
           r == ValuesOf(q \o w)
<1>4. /\ v \in Seq(S \X S) /\ Len(v) = n
      /\ \A i \in 1 .. n : v[i] = <<q[(2 * i) - 1], q[2 * i]>>
  BY <1>1, ValuesOfFacts
<1>5. /\ r \in Seq(S \X S) /\ Len(r) = n + 1
      /\ \A i \in 1 .. n + 1 : r[i] = <<(q \o w)[(2 * i) - 1], (q \o w)[2 * i]>>
  BY <1>2, <1>3, ValuesOfFacts
<1>6. w \in S \X S
  BY PairFacts
<1> HIDE DEF v, r
<1>7. /\ v \o <<w>> \in Seq(S \X S) /\ Len(v \o <<w>>) = n + 1
      /\ \A i \in 1 .. n : (v \o <<w>>)[i] = v[i]
      /\ (v \o <<w>>)[n + 1] = w
  BY <1>4, <1>6
<1>8. ASSUME NEW i \in 1 .. n + 1 PROVE r[i] = (v \o <<w>>)[i]
  <2>1. CASE i \in 1 .. n
    <3>1. /\ (2 * i) - 1 \in 1 .. (2 * n) + 2 /\ (2 * i) - 1 <= 2 * n
          /\ 2 * i \in 1 .. (2 * n) + 2 /\ 2 * i <= 2 * n
      BY <2>1
    <3>2. (q \o w)[(2 * i) - 1] = q[(2 * i) - 1] /\ (q \o w)[2 * i] = q[2 * i]
      BY <1>2, <3>1, Zenon
    <3> QED
      BY <1>4, <1>5, <1>7, <2>1, <3>2
  <2>2. CASE i = n + 1
    <3>1. (2 * i) - 1 = (2 * n) + 1 /\ 2 * i = (2 * n) + 2
      BY <2>2
    <3>2. (q \o w)[(2 * n) + 1] = w[1] /\ (q \o w)[(2 * n) + 2] = w[2]
      <4>1. PICK m \in Nat : m = 2 * n
        OBVIOUS
      <4>2. /\ m + 1 \in 1 .. m + 2 /\ ~(m + 1 <= m) /\ (m + 1) - m = 1
            /\ m + 2 \in 1 .. m + 2 /\ ~(m + 2 <= m) /\ (m + 2) - m = 2
        OBVIOUS
      <4> QED
        BY <1>2, <4>1, <4>2
    <3>3. r[i] = <<w[1], w[2]>>
      BY <1>5, <2>2, <3>1, <3>2
    <3> QED
      BY <1>2, <1>7, <2>2, <3>3
  <2>3. i \in 1 .. n \/ i = n + 1
    OBVIOUS
  <2> QED
    BY <2>1, <2>2, <2>3, Zenon
<1>9. r = v \o <<w>>
  BY <1>5, <1>7, <1>8, SeqEqual
<1> QED
  BY <1>3, <1>9 DEF r, v

\* Without its first two words a sequence has a value less.
LEMMA ValueTaken ==
    ASSUME NEW S, NEW q \in Seq(S), Len(q) % 2 = 0, Len(q) >= 2
    PROVE  LET v == ValuesOf(q) IN
           /\ ValuesOf(SubSeq(q, 3, Len(q))) = SubSeq(v, 2, Len(v))
           /\ SubSeq(v, 1, 1) = <<SubSeq(q, 1, 2)>>
           /\ Len(SubSeq(q, 3, Len(q))) % 2 = 0
<1> DEFINE v == ValuesOf(q)
           t == SubSeq(q, 3, Len(q))
           r == ValuesOf(t)
<1>1. PICK n \in Nat : n = Len(q) \div 2 /\ Len(q) = 2 * n /\ n >= 1
  BY Halves
<1>2. /\ t \in Seq(S) /\ Len(t) = (2 * n) - 2
      /\ \A i \in 1 .. (2 * n) - 2 : t[i] = q[i + 2]
  BY <1>1
<1>3. Len(t) % 2 = 0 /\ Len(t) \div 2 = n - 1
  <2>1. PICK m \in Nat : m = n - 1
    BY <1>1
  <2>2. Len(t) = 2 * m /\ (2 * m) % 2 = 0 /\ (2 * m) \div 2 = m
    BY <1>2, <2>1
  <2> QED
    BY <2>1, <2>2
<1>4. /\ v \in Seq(S \X S) /\ Len(v) = n
      /\ \A i \in 1 .. n : v[i] = <<q[(2 * i) - 1], q[2 * i]>>
  BY <1>1, ValuesOfFacts
<1>5. /\ r \in Seq(S \X S) /\ Len(r) = n - 1
      /\ \A i \in 1 .. n - 1 : r[i] = <<t[(2 * i) - 1], t[2 * i]>>
  BY <1>2, <1>3, ValuesOfFacts
<1>6. SubSeq(q, 1, 2) = <<q[1], q[2]>>
  <2>1. q[1] \in S /\ q[2] \in S
    BY <1>1
  <2>2. /\ SubSeq(q, 1, 2) \in Seq(S) /\ Len(SubSeq(q, 1, 2)) = 2
        /\ SubSeq(q, 1, 2)[1] = q[1] /\ SubSeq(q, 1, 2)[2] = q[2]
    BY <1>1, <2>1
  <2>3. SubSeq(q, 1, 2) \in [1..2 -> S]
    BY <2>2, LenProperties
  <2> QED
    BY <2>2, <2>3, PairFacts
<1> HIDE DEF v, r, t
<1>7. /\ SubSeq(v, 2, n) \in Seq(S \X S) /\ Len(SubSeq(v, 2, n)) = n - 1
      /\ \A i \in 1 .. n - 1 : SubSeq(v, 2, n)[i] = v[i + 1]
  BY <1>1, <1>4
<1>8. ASSUME NEW i \in 1 .. n - 1 PROVE r[i] = SubSeq(v, 2, n)[i]
  <2>1. /\ (2 * i) - 1 \in 1 .. (2 * n) - 2 /\ 2 * i \in 1 .. (2 * n) - 2
        /\ ((2 * i) - 1) + 2 = (2 * (i + 1)) - 1 /\ (2 * i) + 2 = 2 * (i + 1)
    BY <1>1
  <2>2. t[(2 * i) - 1] = q[(2 * (i + 1)) - 1] /\ t[2 * i] = q[2 * (i + 1)]
    BY <1>2, <2>1
  <2>3. i + 1 \in 1 .. n
    BY <1>1
  <2> QED
    BY <1>4, <1>5, <1>7, <2>2, <2>3
<1>9. r = SubSeq(v, 2, n)
  BY <1>5, <1>7, <1>8, <1>1, SeqEqual
<1>10. SubSeq(v, 1, 1) = <<SubSeq(q, 1, 2)>>
  <2>1. v[1] = <<q[1], q[2]>>
    BY <1>1, <1>4
  <2>2. SubSeq(v, 1, 1) = <<v[1]>>
    <3>1. v[1] \in S \X S /\ 1 \in 1 .. Len(v)
      BY <1>1, <1>4
    <3>2. /\ SubSeq(v, 1, 1) \in Seq(S \X S) /\ Len(SubSeq(v, 1, 1)) = 1
          /\ SubSeq(v, 1, 1)[1] = v[1]
      BY <1>4, <3>1
    <3>3. <<v[1]>> \in Seq(S \X S) /\ Len(<<v[1]>>) = 1 /\ <<v[1]>>[1] = v[1]
      BY <3>1
    <3>4. \A i \in 1 .. 1 : SubSeq(v, 1, 1)[i] = <<v[1]>>[i]
      BY <3>2, <3>3
    <3> QED
      BY <3>2, <3>3, <3>4, SeqEqual
  <2> QED
    BY <1>6, <2>1, <2>2
<1> QED
  BY <1>3, <1>4, <1>9, <1>10 DEF v, r, t

\* What is in the buffer and under way.
LEMMA ValueTypes ==
    ASSUME Only64, IndInv
    PROVE  /\ Pending \in Seq(Word) /\ RBUF_SIZE - 1 \in Nat
           /\ wdata # <<>> => wdata \in WriteArgs /\ wdata \in [1..2 -> Word] /\ Len(wdata) = 2
           /\ rsize \in {0, 2}
<1>1. Pending \in Seq(Word)
  BY PendingIsSeq DEF IndInv, TypeOK
<1>2. RBUF_SIZE - 1 \in Nat
  BY SizeAssumption
<1>3. wdata # <<>> => wdata \in WriteArgs /\ wdata \in [1..2 -> Word]
  BY DEF IndInv, TypeOK, Only64
<1>4. wdata # <<>> => Len(wdata) = 2
  BY <1>3, PairFacts
<1>5. rsize \in {0, 2}
  BY DEF IndInv, TypeOK, Only64
<1> QED
  BY <1>1, <1>2, <1>3, <1>4, <1>5

\* A step of the queue of words is one of the queue of values.
LEMMA ValueStep ==
    ASSUME Only64, IndInv, WholeValues, Fifo!FifoNext
    PROVE  Values!FifoNext /\ WholeValues'
<1> DEFINE v == ValuesOf(Pending)
           cap == (RBUF_SIZE - 1) \div 2
<1>1. /\ Pending \in Seq(Word) /\ Len(Pending) \in Nat /\ Len(Pending) % 2 = 0
      /\ RBUF_SIZE - 1 \in Nat
  BY ValueTypes DEF WholeValues
<1>2. Len(v) = Len(Pending) \div 2 /\ Len(v) \in Nat
  BY <1>1, ValuesOfFacts, Halves
<1>3. Len(Pending) + 2 <= RBUF_SIZE - 1 <=> Len(v) + 1 <= cap
  BY <1>1, <1>2, HalfTheRoom
<1>4. \A x : <<x>> # <<>> /\ Len(<<x>>) = 1
  OBVIOUS
<1>5. v' = ValuesOf(Pending')
  BY DEF ValuesOf
<1>6. cap \in Nat
  BY <1>1
<1> HIDE DEF v, cap
<1>7. CASE Fifo!CallWrite
  <2>1. /\ wdata = <<>> /\ wdata' \in WriteArgs
        /\ UNCHANGED <<Pending, wret, rsize, rret>>
    BY <1>7 DEF Fifo!CallWrite
  <2>2. wdata' # <<>>
    <3>1. wdata' \in [1..2 -> Word]
      BY <2>1 DEF Only64
    <3> QED
      BY <3>1, PairFacts
  <2>3. v' = v
    BY <1>5, <2>1 DEF v
  <2>4. Values!CallWrite
    BY <2>1, <2>2, <2>3 DEF Values!CallWrite, v
  <2> QED
    BY <2>1, <2>4 DEF Values!FifoNext, WholeValues
<1>8. CASE Fifo!Enqueue
  <2>1. /\ wdata # <<>> /\ Len(Pending) + Len(wdata) <= RBUF_SIZE - 1
        /\ Pending' = Pending \o wdata /\ wdata' = <<>> /\ wret' = 0
        /\ UNCHANGED <<rsize, rret>>
    BY <1>8 DEF Fifo!Enqueue
  <2>2. wdata \in [1..2 -> Word] /\ Len(wdata) = 2
    BY <2>1, ValueTypes
  <2>3. v' = v \o <<wdata>> /\ Len(Pending') % 2 = 0
    BY <1>1, <1>5, <2>1, <2>2, ValueAppended DEF v
  <2>4. Len(v) + Len(<<wdata>>) <= cap
    BY <1>3, <1>4, <2>1, <2>2
  <2>5. Values!Enqueue
    BY <1>4, <2>1, <2>3, <2>4 DEF Values!Enqueue, v, cap
  <2> QED
    BY <2>3, <2>5 DEF Values!FifoNext, WholeValues
<1>9. CASE Fifo!RefuseWrite
  <2>1. /\ wdata # <<>> /\ Len(Pending) + Len(wdata) > RBUF_SIZE - 1
        /\ wdata' = <<>> /\ wret' = -1
        /\ UNCHANGED <<Pending, rsize, rret>>
    BY <1>9 DEF Fifo!RefuseWrite
  <2>2. Len(v) + Len(<<wdata>>) > cap
    <3>1. Len(wdata) = 2
      BY <2>1, ValueTypes
    <3> QED
      BY <1>1, <1>2, <1>3, <1>4, <1>6, <2>1, <3>1
  <2>3. v' = v
    BY <1>5, <2>1 DEF v
  <2>4. Values!RefuseWrite
    BY <1>4, <2>1, <2>2, <2>3 DEF Values!RefuseWrite, v, cap
  <2> QED
    BY <2>1, <2>4 DEF Values!FifoNext, WholeValues
<1>10. CASE Fifo!CallRead
  <2>1. rsize = 0 /\ rsize' \in ReadSizes /\ UNCHANGED <<Pending, wdata, wret, rret>>
    BY <1>10 DEF Fifo!CallRead
  <2>2. rsize' = 2
    BY <2>1 DEF Only64
  <2>3. v' = v
    BY <1>5, <2>1 DEF v
  <2>4. Values!CallRead
    BY <2>1, <2>2, <2>3 DEF Values!CallRead, v
  <2> QED
    BY <2>1, <2>4 DEF Values!FifoNext, WholeValues
<1>11. CASE Fifo!Dequeue
  <2>1. /\ rsize # 0 /\ rsize <= Len(Pending)
        /\ Pending' = SubSeq(Pending, rsize + 1, Len(Pending))
        /\ rret' = [status |-> 0, data |-> SubSeq(Pending, 1, rsize)] /\ rsize' = 0
        /\ UNCHANGED <<wdata, wret>>
    BY <1>11 DEF Fifo!Dequeue
  <2>2. rsize = 2
    BY <2>1, ValueTypes
  <2>3. Len(Pending) >= 2 /\ Pending' = SubSeq(Pending, 3, Len(Pending))
    BY <1>1, <2>1, <2>2
  <2>4. /\ v' = SubSeq(v, 2, Len(v)) /\ SubSeq(v, 1, 1) = <<SubSeq(Pending, 1, 2)>>
        /\ Len(Pending') % 2 = 0
    BY <1>1, <1>5, <2>3, ValueTaken DEF v
  <2>5. 1 <= Len(v)
    BY <1>1, <1>2, <2>3
  <2>6. rret'.status = 0 /\ rret'.data = SubSeq(Pending, 1, 2)
    BY <2>1, <2>2
  <2>7. [status |-> rret'.status, data |-> IF rret'.status = 0 THEN <<rret'.data>> ELSE <<>>]
            = [status |-> 0, data |-> SubSeq(v, 1, 1)]
    BY <2>4, <2>6
  <2>8. /\ (IF rsize = 0 THEN 0 ELSE 1) = 1 /\ (IF rsize' = 0 THEN 0 ELSE 1) = 0
        /\ v' = SubSeq(v, 1 + 1, Len(v))
    BY <2>1, <2>2, <2>4
  <2>9. Values!Dequeue
    BY <2>1, <2>5, <2>7, <2>8 DEF Values!Dequeue, v
  <2> QED
    BY <2>4, <2>9 DEF Values!FifoNext, WholeValues
<1>12. CASE Fifo!RefuseRead
  <2>1. /\ rsize # 0 /\ rsize > Len(Pending) /\ rret' = Fifo!NoResult /\ rsize' = 0
        /\ UNCHANGED <<Pending, wdata, wret>>
    BY <1>12 DEF Fifo!RefuseRead
  <2>2. rsize = 2
    BY <2>1, ValueTypes
  <2>3. 1 > Len(v)
    BY <1>1, <1>2, <2>1, <2>2
  <2>4. rret'.status = -1
    BY <2>1 DEF Fifo!NoResult
  <2>5. v' = v
    BY <1>5, <2>1 DEF v
  <2>6. Values!RefuseRead
    BY <2>1, <2>2, <2>3, <2>4, <2>5 DEF Values!RefuseRead, Values!NoResult, v
  <2> QED
    BY <2>1, <2>6 DEF Values!FifoNext, WholeValues
<1> QED
  BY <1>7, <1>8, <1>9, <1>10, <1>11, <1>12 DEF Fifo!FifoNext

\* It begins empty.
LEMMA InitValues == Init => Values!FifoInit /\ WholeValues
<1> SUFFICES ASSUME Init PROVE Values!FifoInit /\ WholeValues
  OBVIOUS
<1>1. Pending = <<>> /\ wdata = <<>> /\ wret = 0 /\ rsize = 0
  BY InitFifo DEF Fifo!FifoInit
<1>2. Len(<<>>) = 0 /\ 0 \div 2 = 0 /\ 0 % 2 = 0
  OBVIOUS
<1>3. ValuesOf(<<>>) = <<>>
  BY <1>2 DEF ValuesOf
<1>4. rret.status = -1
  BY DEF Init, NoResult
<1> QED
  BY <1>1, <1>2, <1>3, <1>4 DEF Values!FifoInit, Values!NoResult, WholeValues

\* A buffer that carries values of 64 bits only, as those of time_sync, pru_clock
\* and measure_time_sync do, is a bounded first-in first-out queue of whole
\* values, for every size: of (RBUF_SIZE - 1) \div 2 values, 127 in the code.  A
\* write is refused only when that many are in it, a read only when there is none.
THEOREM RBufferHoldsValues == ASSUME Only64 PROVE Spec => ImplementsValues
<1>1. IndInv /\ WholeValues /\ [Next]_vars =>
          [Values!FifoNext]_(Values!fifoVars) /\ WholeValues'
  <2> SUFFICES ASSUME IndInv, WholeValues, [Next]_vars
               PROVE  [Values!FifoNext]_(Values!fifoVars) /\ WholeValues'
    OBVIOUS
  <2>1. [Fifo!FifoNext]_(Fifo!fifoVars)
    BY WordStep
  <2>2. CASE Fifo!FifoNext
    BY <2>2, ValueStep
  <2>3. CASE UNCHANGED Fifo!fifoVars
    <3>1. UNCHANGED <<Pending, wdata, wret, rsize, rret>>
      BY <2>3 DEF Fifo!fifoVars
    <3>2. ValuesOf(Pending)' = ValuesOf(Pending)
      BY <3>1 DEF ValuesOf
    <3> QED
      BY <3>1, <3>2 DEF Values!fifoVars, WholeValues
  <2> QED
    BY <2>1, <2>2, <2>3
<1> QED
  BY <1>1, InitValues, IndInvHolds, PTL DEF Spec, ImplementsValues, Values!FifoSpec
=============================================================================
