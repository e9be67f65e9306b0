------------------------------ MODULE WordFifo ------------------------------
(***************************************************************************)
(* What the ring buffer of include/nesl_pru_rbuffer.h promises to one      *)
(* producer and one consumer: a bounded first-in first-out queue of 32-bit *)
(* words.  A write enqueues all the words of its argument at one instant   *)
(* or reports that the queue is full; a read dequeues all the words it     *)
(* wants at one instant or reports that they are not there.                *)
(***************************************************************************)
EXTENDS Integers, Sequences

CONSTANTS Capacity,    \* how many words the queue holds
          WriteArgs,   \* the non-empty sequences of words that are written
          ReadSizes    \* how many words a read may want

VARIABLES queue,   \* the words written and not yet read
          arg,     \* argument of the write in progress, <<>> if none
          wret,    \* what the last write returned: 0 or -1
          want,    \* words wanted by the read in progress, 0 if none
          rret     \* what the last read returned: its status and its words

fifoVars == <<queue, arg, wret, want, rret>>

NoResult == [status |-> -1, data |-> <<>>]

FifoInit ==
    /\ queue = <<>>
    /\ arg = <<>>
    /\ wret = 0
    /\ want = 0
    /\ rret = NoResult

CallWrite ==
    /\ arg = <<>>
    /\ arg' \in WriteArgs
    /\ UNCHANGED <<queue, wret, want, rret>>

Enqueue ==
    /\ arg # <<>>
    /\ Len(queue) + Len(arg) <= Capacity
    /\ queue' = queue \o arg
    /\ arg' = <<>>
    /\ wret' = 0
    /\ UNCHANGED <<want, rret>>

\* -1 only while there really is no room for the whole argument.
RefuseWrite ==
    /\ arg # <<>>
    /\ Len(queue) + Len(arg) > Capacity
    /\ arg' = <<>>
    /\ wret' = -1
    /\ UNCHANGED <<queue, want, rret>>

CallRead ==
    /\ want = 0
    /\ want' \in ReadSizes
    /\ UNCHANGED <<queue, arg, wret, rret>>

Dequeue ==
    /\ want # 0
    /\ want <= Len(queue)
    /\ queue' = SubSeq(queue, want + 1, Len(queue))
    /\ rret' = [status |-> 0, data |-> SubSeq(queue, 1, want)]
    /\ want' = 0
    /\ UNCHANGED <<arg, wret>>

\* -1 only while there really are fewer words than the read wants.
RefuseRead ==
    /\ want # 0
    /\ want > Len(queue)
    /\ rret' = NoResult
    /\ want' = 0
    /\ UNCHANGED <<queue, arg, wret>>

FifoNext ==
    \/ CallWrite \/ Enqueue \/ RefuseWrite
    \/ CallRead  \/ Dequeue \/ RefuseRead

FifoSpec == FifoInit /\ [][FifoNext]_fifoVars
=============================================================================
