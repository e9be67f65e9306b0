------------------------------- MODULE RBuffer -------------------------------
(***************************************************************************)
(* include/nesl_pru_rbuffer.h: the ring buffer in PRU shared memory, with  *)
(* one producer and one consumer that run on different processors and take *)
(* no lock.  Every step below makes at most one access to a field of       *)
(* struct rbuffer that the other side writes, so the interleavings of the  *)
(* model are those of the two instruction streams.  Stores become visible  *)
(* in program order: build.sh compiles the host without optimisation, the  *)
(* host maps the shared memory uncached, the PRU has neither cache nor     *)
(* store buffer.                                                           *)
(***************************************************************************)
EXTENDS Integers, Sequences

CONSTANTS RBUF_SIZE,   \* number of cells, 256 in the code
          Word,        \* the uint32_t values that are written
          WriteArgs,   \* <<data>>: rbuf_write_uint32; <<lower, upper>>: rbuf_write_uint64
          ReadSizes    \* 1: rbuf_read_uint32; 2: rbuf_read_uint64

\* p starts at 1, and c and p are of type uint16_t.
ASSUME SizeAssumption == RBUF_SIZE \in Nat /\ RBUF_SIZE >= 2 /\ RBUF_SIZE =< 65536

ASSUME WordAssumption == Word \subseteq Nat /\ 0 \in Word

ASSUME OpsAssumption ==
    /\ \A a \in WriteArgs : a \in [1..1 -> Word] \union [1..2 -> Word]
    /\ ReadSizes \subseteq {1, 2}

VARIABLES
  c, p, buffer,  \* struct rbuffer: last cell read, next cell to write, cells
  wpc,           \* where the producer is in rbuf_write_uint32/64
  wdata,         \* the words of the write's argument, lower word first
  wp,            \* the producer's local copy of p
  wret,          \* what the last write returned
  rpc,           \* where the consumer is in rbuf_read_uint32/64
  rsize,         \* how many words the read in progress returns, 0 if none
  rc,            \* the consumer's local c: the first cell it will read
  rdata,         \* the words it has loaded so far
  rret           \* status and data of the last read

rbufVars   == <<c, p, buffer>>
writerVars == <<wpc, wdata, wp, wret>>
readerVars == <<rpc, rsize, rc, rdata, rret>>
vars == <<rbufVars, writerVars, readerVars>>

Cells == 0 .. RBUF_SIZE - 1

Mut_RBUF_IDX(i) == i   \* mutated form: the wrap is forgotten

RBUF_IDX(i) == i % RBUF_SIZE

\* A failed read returns 0 with status -1: no word of the stream.
NoResult == [status |-> -1, data |-> <<>>]

\* init_rbuffer has run, and neither side is in a call.
Init ==
    /\ c = 0
    /\ p = 1
    /\ buffer = [i \in Cells |-> 0]
    /\ wpc = "idle" /\ wdata = <<>> /\ wp = 0 /\ wret = 0
    /\ rpc = "idle" /\ rsize = 0 /\ rc = 0 /\ rdata = <<>> /\ rret = NoResult

-----------------------------------------------------------------------------
(* Mutated forms of the steps below, each a plausible slip in the code;    *)
(* they are no part of the specification.  Substituted for its original,   *)
(* each one must make TLC refute a property.                               *)

\* rbuf_write_uint32 without the test for a full buffer.
Mut_WriteCheck ==
    /\ wpc = "check"
    /\ wpc' = IF Len(wdata) = 2 THEN "check2" ELSE "store"
    /\ UNCHANGED <<rbufVars, wdata, wp, wret, readerVars>>

\* rbuf_write_uint64 with only the 32-bit test.
Mut_WriteCheck2 ==
    /\ wpc = "check2"
    /\ wpc' = "store"
    /\ UNCHANGED <<rbufVars, wdata, wp, wret, readerVars>>

\* p advances by one cell whatever the width.
Mut_WritePublish ==
    /\ wpc = "publish"
    /\ p' = RBUF_IDX(wp + 1)
    /\ wpc' = "idle"
    /\ wdata' = <<>>
    /\ wret' = 0
    /\ UNCHANGED <<c, buffer, wp, readerVars>>

\* c is not stored.
Mut_ReadConsumeNoStore ==
    /\ rpc = "consume"
    /\ rret' = [status |-> 0, data |-> rdata]
    /\ rsize' = 0
    /\ rpc' = "idle"
    /\ UNCHANGED <<rbufVars, writerVars, rc, rdata>>

-----------------------------------------------------------------------------
(* The producer: rbuf_write_uint32(data) with <<data>>, and                *)
(* rbuf_write_uint64(data) with <<lower, upper>>.                          *)

WriteCall ==
    /\ wpc = "idle"
    /\ wdata' \in WriteArgs
    /\ wp' = p
    /\ wpc' = "check"
    /\ UNCHANGED <<rbufVars, wret, readerVars>>

\* p != rbuf->c
WriteCheck ==
    /\ wpc = "check"
    /\ wp # c
    /\ wpc' = IF Len(wdata) = 2 THEN "check2" ELSE "store"
    /\ UNCHANGED <<rbufVars, wdata, wp, wret, readerVars>>

\* RBUF_IDX(p+1) != rbuf->c: a second load of c.
WriteCheck2 ==
    /\ wpc = "check2"
    /\ RBUF_IDX(wp + 1) # c
    /\ wpc' = "store"
    /\ UNCHANGED <<rbufVars, wdata, wp, wret, readerVars>>

\* Either test fails: nothing is stored and -1 is returned.
WriteFull ==
    /\ \/ wpc = "check"  /\ wp = c
       \/ wpc = "check2" /\ RBUF_IDX(wp + 1) = c
    /\ wpc' = "idle"
    /\ wdata' = <<>>
    /\ wret' = -1
    /\ UNCHANGED <<rbufVars, wp, readerVars>>

WriteStore ==
    /\ wpc = "store"
    /\ buffer' = [buffer EXCEPT ![wp] = wdata[1]]
    /\ wpc' = IF Len(wdata) = 2 THEN "store2" ELSE "publish"
    /\ UNCHANGED <<c, p, wdata, wp, wret, readerVars>>

WriteStore2 ==
    /\ wpc = "store2"
    /\ buffer' = [buffer EXCEPT ![RBUF_IDX(wp + 1)] = wdata[2]]
    /\ wpc' = "publish"
    /\ UNCHANGED <<c, p, wdata, wp, wret, readerVars>>

WritePublish ==
    /\ wpc = "publish"
    /\ p' = RBUF_IDX(wp + Len(wdata))
    /\ wpc' = "idle"
    /\ wdata' = <<>>
    /\ wret' = 0
    /\ UNCHANGED <<c, buffer, wp, readerVars>>

Write ==
    \/ WriteCall \/ WriteCheck \/ WriteCheck2 \/ WriteFull
    \/ WriteStore \/ WriteStore2 \/ WritePublish

-----------------------------------------------------------------------------
(* The consumer: rbuf_read_uint32 and rbuf_read_uint64.                    *)

ReadCall ==
    /\ rpc = "idle"
    /\ rsize' \in ReadSizes
    /\ rc' = RBUF_IDX(c + 1)
    /\ rdata' = <<>>
    /\ rpc' = "check"
    /\ UNCHANGED <<rbufVars, writerVars, rret>>

\* c != rbuf->p
ReadCheck ==
    /\ rpc = "check"
    /\ rc # p
    /\ rpc' = IF rsize = 2 THEN "check2" ELSE "load"
    /\ UNCHANGED <<rbufVars, writerVars, rsize, rc, rdata, rret>>

\* RBUF_IDX(c+1) != rbuf->p: a second load of p.
ReadCheck2 ==
    /\ rpc = "check2"
    /\ RBUF_IDX(rc + 1) # p
    /\ rpc' = "load"
    /\ UNCHANGED <<rbufVars, writerVars, rsize, rc, rdata, rret>>

ReadEmpty ==
    /\ \/ rpc = "check"  /\ rc = p
       \/ rpc = "check2" /\ RBUF_IDX(rc + 1) = p
    /\ rpc' = "idle"
    /\ rsize' = 0
    /\ rret' = NoResult
    /\ UNCHANGED <<rbufVars, writerVars, rc, rdata>>

ReadLoad ==
    /\ rpc = "load"
    /\ rdata' = <<buffer[rc]>>
    /\ rpc' = IF rsize = 2 THEN "load2" ELSE "consume"
    /\ UNCHANGED <<rbufVars, writerVars, rsize, rc, rret>>

ReadLoad2 ==
    /\ rpc = "load2"
    /\ rdata' = <<rdata[1], buffer[RBUF_IDX(rc + 1)]>>
    /\ rpc' = "consume"
    /\ UNCHANGED <<rbufVars, writerVars, rsize, rc, rret>>

\* rbuf->c moves to the last cell read: c, or RBUF_IDX(c+1) for 64 bits.
ReadConsume ==
    /\ rpc = "consume"
    /\ c' = RBUF_IDX(rc + rsize - 1)
    /\ rret' = [status |-> 0, data |-> rdata]
    /\ rsize' = 0
    /\ rpc' = "idle"
    /\ UNCHANGED <<p, buffer, writerVars, rc, rdata>>

Read ==
    \/ ReadCall \/ ReadCheck \/ ReadCheck2 \/ ReadEmpty
    \/ ReadLoad \/ ReadLoad2 \/ ReadConsume

-----------------------------------------------------------------------------
Next == Write \/ Read

\* Safety only: this is what the proofs are about.
Spec == Init /\ [][Next]_vars

\* The consumer keeps calling: the PRU polls the buffer until status is 0
\* and the host drains it after every interrupt.  Nothing is assumed of the
\* producer, which may stop anywhere in a call.
FairSpec == Spec /\ WF_vars(Read)

-----------------------------------------------------------------------------
\* The number of words written and not yet read, and those words.
Used == RBUF_IDX(p + RBUF_SIZE - c - 1)

Pending == [i \in 1..Used |-> buffer[RBUF_IDX(c + i)]]

\* The cells that hold words not yet read.
PendingCells == {RBUF_IDX(c + i) : i \in 1..Used}

\* Cells the producer is about to store to, or has stored to and not
\* published yet.
WriterCells ==
    IF wpc \in {"store", "store2", "publish"}
    THEN {RBUF_IDX(wp + i) : i \in 0 .. Len(wdata) - 1} ELSE {}

\* Cells the consumer has found full, until it gives them back.
ReaderCells ==
    IF rpc \in {"load", "load2", "consume"}
    THEN {RBUF_IDX(rc + i) : i \in 0 .. rsize - 1} ELSE {}

TypeOK ==
    /\ c \in Cells /\ p \in Cells /\ buffer \in [Cells -> Word]
    /\ wpc \in {"idle", "check", "check2", "store", "store2", "publish"}
    /\ wdata \in {<<>>} \union WriteArgs
    /\ (wpc = "idle") <=> (wdata = <<>>)
    /\ (wpc \in {"check2", "store2"}) => Len(wdata) = 2
    /\ wp \in Cells /\ wret \in {0, -1}
    /\ rpc \in {"idle", "check", "check2", "load", "load2", "consume"}
    /\ rsize \in {0} \union ReadSizes
    /\ (rpc = "idle") <=> (rsize = 0)
    /\ (rpc \in {"check2", "load2"}) => rsize = 2
    /\ rc \in Cells
    /\ rdata \in {<<>>} \union [1..1 -> Word] \union [1..2 -> Word]
    /\ rret.status \in {0, -1}

\* The producer never stores into a cell that holds an unread word, nor into
\* one the consumer is loading from, however old its copy of rbuf->c is.
NoCellConflict ==
    /\ WriterCells \intersect PendingCells = {}
    /\ WriterCells \intersect ReaderCells = {}

\* The words the consumer has loaded are still the oldest unread ones when
\* it gives their cells back: nothing overwrote them in between.
LoadsStayValid ==
    rpc = "consume" => /\ rsize <= Used
                       /\ rdata = [i \in 1 .. rsize |-> Pending[i]]

-----------------------------------------------------------------------------
\* The buffer implements the abstract queue: a write takes effect when p is
\* stored, a read when c is stored, and a refusal when the test loads the
\* other side's index.
Fifo == INSTANCE WordFifo WITH
            Capacity <- RBUF_SIZE - 1,
            queue <- Pending, arg <- wdata, want <- rsize

ImplementsFifo == Fifo!FifoSpec

\* While there are words enough for a read, the consumer does get them: it
\* cannot take the buffer for empty for ever.
WordsGetRead == \A k \in Cells : (c = k /\ Used >= 2) ~> (c # k)
=============================================================================
