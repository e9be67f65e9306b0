---------------------------- MODULE IepTimerProofs ----------------------------
(***************************************************************************)
(* Theorems about IepTimer for every number of rounds and every buffer of  *)
(* at least three words: how far the printed counts lag behind, and that   *)
(* the program starts and ends safely with a host that keeps up.           *)
(***************************************************************************)
EXTENDS IepTimer, TLAPS

-----------------------------------------------------------------------------
(* The strengthening the proofs rest on.                                   *)

\* What is so until the program runs, and once it has ended.
PhaseInv ==
    /\ mpc \in {"setup", "exec"} => ppc = "off" /\ ~ended
    /\ mpc \in {"setup", "exec", "create"} => rpc = "none"
    /\ ppc = "boot" \/ mpc \in {"setup", "exec"} =>
           rbuf = <<>> /\ i = Rounds /\ printed = <<>> /\ dropped = 0
    /\ mpc \in {"disable", "unmapped", "done"} => ended
    /\ ended => i = 0 /\ ppc \in {"halted", "off"}

\* The interrupt is disabled from the driver's count until it is cleared.
IntcInv ==
    /\ ~enabled <=> pending \/ rpc = "clear"
    /\ ~enabled => sysevent
    /\ rpc = "clear" => ~pending

\* The buffer is used when it is initialised, and once it has been full it
\* stays nearly so.
BufferInv ==
    /\ rbuf # <<>> \/ ppc \in {"loop", "trigger", "pause"} => ready
    /\ dropped > 0 => merged - dropped >= Slots - 3

\* Until a report is dropped, those printed are the first ones, and the buffer
\* holds those after the last one printed.
OrderInv ==
    dropped = 0 => /\ printed = [k \in 1..Len(printed) |-> k]
                   /\ Len(printed) + Len(rbuf) = Rounds - i
                   /\ \A k \in 1..Len(rbuf) : rbuf[k] = Len(printed) + k

\* While the host keeps up, no event is on its way but during the pause.
LateInv ==
    ~late => /\ merged = 0
             /\ ppc # "pause" => ~sysevent /\ rpc \in {"none", "wait"}

IndInv ==
    TypeOK /\ Backlog /\ PhaseInv /\ IntcInv /\ BufferInv /\ OrderInv /\ LateInv

-----------------------------------------------------------------------------
(* Queues.                                                                 *)

\* A report put at the end of the buffer.
LEMMA AppendFacts ==
    ASSUME NEW S, NEW q \in Seq(S), NEW x \in S
    PROVE  /\ Append(q, x) \in Seq(S)
           /\ Len(Append(q, x)) = Len(q) + 1
           /\ \A k \in 1 .. Len(q) : Append(q, x)[k] = q[k]
           /\ Append(q, x)[Len(q) + 1] = x
           /\ Append(q, x) # <<>>
  OBVIOUS

\* The oldest report taken from it.
LEMMA TailFacts ==
    ASSUME NEW S, NEW q \in Seq(S), q # <<>>
    PROVE  /\ Head(q) \in S /\ Head(q) = q[1]
           /\ Tail(q) \in Seq(S)
           /\ Len(q) \in Nat /\ Len(q) >= 1
           /\ Len(Tail(q)) = Len(q) - 1
           /\ \A k \in 1 .. Len(q) - 1 : Tail(q)[k] = q[k + 1]
  OBVIOUS

\* An empty buffer.
LEMMA EmptyFacts ==
    /\ Len(<<>>) = 0
    /\ \A S : <<>> \in Seq(S)
    /\ \A S : \A q \in Seq(S) : Len(q) \in Nat /\ (Len(q) = 0 => q = <<>>)
  OBVIOUS

-----------------------------------------------------------------------------
(* The invariant holds at the start, and each step keeps it.               *)

\* Nothing has happened yet.
LEMMA InitInd == Init => IndInv
<1> SUFFICES ASSUME Init PROVE IndInv
  OBVIOUS
<1> USE DEF Init
<1>1. TypeOK
  <2>1. /\ rbuf \in Seq(1 .. Rounds) /\ Len(rbuf) = 0 /\ Len(rbuf) =< Slots
        /\ printed \in Seq(1 .. Rounds)
    BY IepTimerAssumption
  <2>2. i \in 0 .. Rounds /\ merged \in Nat /\ dropped \in Nat
    BY IepTimerAssumption
  <2>3. {stop, ready, sysevent, enabled, pending, ended, late} \subseteq BOOLEAN
    OBVIOUS
  <2>4. ppc = "off" /\ mpc = "setup" /\ rpc = "none"
    OBVIOUS
  <2> HIDE DEF Init
  <2> QED
    BY <2>1, <2>2, <2>3, <2>4 DEF TypeOK
<1>2. Backlog
  BY EmptyFacts DEF Backlog, Count
<1>3. PhaseInv /\ IntcInv /\ LateInv
  BY DEF PhaseInv, IntcInv, LateInv
<1>4. BufferInv
  BY DEF BufferInv
<1>5. OrderInv
  <2>1. printed = [k \in 1..0 |-> k]
    OBVIOUS
  <2> QED
    BY <2>1, IepTimerAssumption, EmptyFacts DEF OrderInv
<1> QED
  BY <1>1, <1>2, <1>3, <1>4, <1>5 DEF IndInv

\* Steps that touch neither the buffer nor the thread's output.
LEMMA OrderKept ==
    ASSUME OrderInv, UNCHANGED <<dropped, printed, rbuf, i>>
    PROVE  OrderInv'
  BY DEF OrderInv

\* init_rbuffer.
LEMMA PruBootStep == IndInv /\ PruBoot => IndInv'
<1> SUFFICES ASSUME IndInv, PruBoot PROVE IndInv'
  OBVIOUS
<1> USE DEF IndInv, PruBoot, hostVars, intcVars, history
<1>1. TypeOK' /\ OrderInv'
  BY EmptyFacts, IepTimerAssumption DEF TypeOK, PhaseInv, OrderInv
<1>2. Backlog'
  BY DEF PhaseInv, Backlog, Count
<1>3. PhaseInv' /\ IntcInv' /\ BufferInv' /\ LateInv'
  BY DEF TypeOK, PhaseInv, IntcInv, BufferInv, LateInv
<1> QED
  BY <1>1, <1>2, <1>3

\* A report is put into the buffer, or dropped when at most two interrupts are
\* on their way, so that many must have been merged before.
LEMMA PruReportStep == IndInv /\ PruReport => IndInv'
<1> SUFFICES ASSUME IndInv, PruReport PROVE IndInv'
  OBVIOUS
<1>1. /\ i \in Nat /\ i > 0 /\ i =< Rounds /\ i' = i - 1 /\ Rounds \in Nat
      /\ rbuf \in Seq(1 .. Rounds) /\ Len(rbuf) \in Nat /\ Len(rbuf) =< Slots /\ Slots \in Nat
      /\ merged \in Nat /\ dropped \in Nat
      /\ ppc = "loop" /\ ppc' = "trigger"
      /\ UNCHANGED <<mpc, rpc, stop, printed, ready, sysevent, enabled, pending,
                     ended, late, merged>>
  BY EmptyFacts, IepTimerAssumption
  DEF IndInv, TypeOK, PruReport, hostVars, intcVars
<1>2. Rounds - i' \in 1 .. Rounds
  BY <1>1
<1>3. PhaseInv' /\ IntcInv' /\ LateInv'
  BY <1>1 DEF IndInv, PhaseInv, IntcInv, LateInv
<1>4. CASE Len(rbuf) < Slots /\ rbuf' = Append(rbuf, Rounds - i') /\ dropped' = dropped
  <2> DEFINE r == Rounds - i'
  <2>1. /\ rbuf' \in Seq(1 .. Rounds) /\ rbuf' # <<>>
        /\ Len(rbuf') = Len(rbuf) + 1
        /\ \A k \in 1 .. Len(rbuf) : rbuf'[k] = rbuf[k]
        /\ rbuf'[Len(rbuf) + 1] = r
    BY <1>1, <1>2, <1>4, AppendFacts
  <2>2. r = Rounds - i + 1 /\ i' \in 0 .. Rounds
    BY <1>1
  <2> HIDE DEF r
  <2>3. TypeOK'
    BY <1>1, <1>4, <2>1, <2>2 DEF IndInv, TypeOK
  <2>4. Backlog'
    BY <1>1, <1>4, <2>1 DEF IndInv, Backlog, Count
  <2>5. BufferInv'
    BY <1>1, <1>4 DEF IndInv, BufferInv
  <2>6. OrderInv'
    <3> SUFFICES ASSUME dropped = 0
                 PROVE  /\ Len(printed) + Len(rbuf') = Rounds - i'
                        /\ \A k \in 1 .. Len(rbuf') : rbuf'[k] = Len(printed) + k
      BY <1>1, <1>4 DEF IndInv, OrderInv
    <3>1. /\ Len(printed) + Len(rbuf) = Rounds - i /\ Len(printed) \in Nat
          /\ \A k \in 1 .. Len(rbuf) : rbuf[k] = Len(printed) + k
      BY <1>1, EmptyFacts DEF IndInv, OrderInv, TypeOK
    <3>2. r = Len(printed) + (Len(rbuf) + 1) /\ Len(printed) + Len(rbuf') = Rounds - i'
      <4>1. /\ Len(rbuf') = Len(rbuf) + 1 /\ Len(rbuf) \in Nat
            /\ Len(printed) + Len(rbuf) = Rounds - i /\ Len(printed) \in Nat
            /\ Rounds \in Nat /\ i \in Nat /\ i' = i - 1 /\ r = Rounds - i + 1
        BY <1>1, <2>1, <2>2, <3>1, Zenon
      <4> QED
        BY <4>1
    <3>3. ASSUME NEW k \in 1 .. Len(rbuf') PROVE rbuf'[k] = Len(printed) + k
      <4>1. k \in 1 .. Len(rbuf) \/ k = Len(rbuf) + 1
        BY <1>1, <2>1
      <4> QED
        BY <2>1, <3>1, <3>2, <4>1, Zenon
    <3> QED
      BY <3>2, <3>3
  <2> QED
    BY <1>3, <2>3, <2>4, <2>5, <2>6 DEF IndInv
<1>5. CASE Len(rbuf) = Slots /\ dropped' = dropped + 1 /\ rbuf' = rbuf
  <2>1. TypeOK' /\ OrderInv'
    BY <1>1, <1>5 DEF IndInv, TypeOK, OrderInv
  <2>2. Backlog'
    BY <1>1, <1>5 DEF IndInv, Backlog, Count
  <2>3. BufferInv'
    BY <1>1, <1>5, IepTimerAssumption DEF IndInv, BufferInv, Backlog, Count
  <2> QED
    BY <1>3, <2>1, <2>2, <2>3 DEF IndInv
<1> QED
  BY <1>4, <1>5 DEF PruReport

\* The event is raised, or merged with an earlier one.
LEMMA PruTriggerStep == IndInv /\ PruTrigger => IndInv'
<1> SUFFICES ASSUME IndInv, PruTrigger PROVE IndInv'
  OBVIOUS
<1> USE DEF IndInv, PruTrigger, hostVars
<1>1. TypeOK'
  BY DEF TypeOK
<1>2. PhaseInv' /\ IntcInv' /\ OrderInv'
  BY OrderKept DEF PhaseInv, IntcInv
<1>3. Len(rbuf) \in Nat /\ merged \in Nat /\ dropped \in Nat /\ sysevent \in BOOLEAN
  BY EmptyFacts DEF TypeOK
<1>4. Backlog'
  BY <1>3 DEF Backlog, Count
<1>5. BufferInv'
  BY <1>3, IepTimerAssumption DEF BufferInv
<1>6. LateInv'
  BY DEF LateInv
<1> QED
  BY <1>1, <1>2, <1>4, <1>5, <1>6

\* The pause is over: either the host is idle or it is late.
LEMMA PruPauseStep == IndInv /\ PruPause => IndInv'
<1> SUFFICES ASSUME IndInv, PruPause PROVE IndInv'
  OBVIOUS
<1> USE DEF IndInv, PruPause, hostVars, intcVars
<1>1. TypeOK' /\ PhaseInv' /\ OrderInv' /\ IntcInv'
  BY OrderKept DEF TypeOK, PhaseInv, IntcInv
<1>2. LateInv'
  BY DEF TypeOK, LateInv, IntcInv, HostIdle
<1>3. Backlog' /\ BufferInv'
  BY DEF Backlog, BufferInv, Count
<1> QED
  BY <1>1, <1>2, <1>3

\* The end of the program on the PRU.
LEMMA PruHaltStep == IndInv /\ PruHalt => IndInv'
<1> SUFFICES ASSUME IndInv, PruHalt PROVE IndInv'
  OBVIOUS
<1> USE DEF IndInv, PruHalt, hostVars, intcVars, history
<1>1. TypeOK' /\ PhaseInv' /\ OrderInv' /\ IntcInv' /\ LateInv'
  BY OrderKept DEF TypeOK, PhaseInv, IntcInv, LateInv
<1>2. Backlog' /\ BufferInv'
  BY DEF Backlog, BufferInv, Count
<1> QED
  BY <1>1, <1>2

\* The driver counts the interrupt.
LEMMA IrqStep == IndInv /\ Irq => IndInv'
<1> SUFFICES ASSUME IndInv, Irq PROVE IndInv'
  OBVIOUS
<1> USE DEF IndInv, Irq, pruVars, hostVars, history
<1>1. TypeOK'
  BY DEF TypeOK
<1>2. PhaseInv'
  BY DEF PhaseInv
<1>3. OrderInv' /\ LateInv'
  BY OrderKept DEF LateInv
<1>4. IntcInv' /\ Backlog' /\ BufferInv'
  BY DEF IntcInv, Backlog, BufferInv, Count
<1> QED
  BY <1>1, <1>2, <1>3, <1>4

\* The main thread moves on, and starts and ends the others.
LEMMA MainStep == IndInv /\ Main => IndInv'
<1> SUFFICES ASSUME IndInv, Main PROVE IndInv'
  OBVIOUS
<1> USE DEF IndInv, Goto, pruVars, intcVars, history
<1>1. CASE MainSetup
  <2>1. TypeOK' /\ PhaseInv' /\ OrderInv' /\ BufferInv'
    BY <1>1, EmptyFacts DEF MainSetup, TypeOK, PhaseInv, OrderInv, BufferInv
  <2>2. Backlog' /\ IntcInv' /\ LateInv'
    BY <1>1 DEF MainSetup, Backlog, Count, IntcInv, LateInv, PhaseInv
  <2> QED
    BY <2>1, <2>2
<1>2. CASE MainExec
  <2>1. TypeOK' /\ PhaseInv' /\ OrderInv' /\ BufferInv'
    BY <1>2, OrderKept DEF MainExec, TypeOK, PhaseInv, BufferInv
  <2>2. Backlog' /\ IntcInv' /\ LateInv'
    BY <1>2 DEF MainExec, Backlog, Count, IntcInv, LateInv, PhaseInv
  <2> QED
    BY <2>1, <2>2
<1>3. CASE MainCreate
  <2>1. TypeOK' /\ PhaseInv' /\ OrderInv' /\ BufferInv'
    BY <1>3, OrderKept DEF MainCreate, TypeOK, PhaseInv, BufferInv
  <2>2. Backlog' /\ IntcInv' /\ LateInv'
    BY <1>3 DEF MainCreate, Backlog, Count, IntcInv, LateInv, PhaseInv
  <2> QED
    BY <2>1, <2>2
<1>4. CASE MainFail \/ MainStop \/ MainReturn
  <2>1. TypeOK' /\ BufferInv' /\ OrderInv'
    BY <1>4, OrderKept DEF MainFail, MainStop, MainReturn, TypeOK, BufferInv
  <2>2. PhaseInv'
    BY <1>4 DEF MainFail, MainStop, MainReturn, PhaseInv
  <2>3. Backlog' /\ IntcInv' /\ LateInv'
    BY <1>4 DEF MainFail, MainStop, MainReturn, Backlog, Count, IntcInv, LateInv
  <2> QED
    BY <2>1, <2>2, <2>3
<1>5. CASE MainUnmap
  <2>1. TypeOK' /\ PhaseInv' /\ OrderInv' /\ BufferInv'
    BY <1>5, OrderKept DEF MainUnmap, TypeOK, PhaseInv, BufferInv
  <2>2. Backlog' /\ IntcInv' /\ LateInv'
    BY <1>5 DEF MainUnmap, Backlog, Count, IntcInv, LateInv, PhaseInv
  <2> QED
    BY <2>1, <2>2
<1> QED
  BY <1>1, <1>2, <1>3, <1>4, <1>5 DEF Main

\* The thread takes an interrupt and goes on without touching the buffer.
LEMMA RecvOtherStep == IndInv /\ (RecvWait \/ RecvClear \/ RecvTest) => IndInv'
<1> SUFFICES ASSUME IndInv, RecvWait \/ RecvClear \/ RecvTest PROVE IndInv'
  OBVIOUS
<1> USE DEF IndInv, Step, pruVars, intcVars, history
<1>1. TypeOK'
  BY DEF RecvWait, RecvClear, RecvTest, TypeOK
<1>2. OrderInv' /\ BufferInv'
  BY OrderKept DEF RecvWait, RecvClear, RecvTest, BufferInv
<1>3. PhaseInv'
  BY DEF RecvWait, RecvClear, RecvTest, TypeOK, PhaseInv
<1>4. IntcInv' /\ Backlog'
  BY DEF RecvWait, RecvClear, RecvTest, TypeOK, IntcInv, Backlog, Count
<1>5. LateInv'
  BY DEF RecvWait, RecvClear, RecvTest, TypeOK, IntcInv, LateInv
<1> QED
  BY <1>1, <1>2, <1>3, <1>4, <1>5

\* There is always a report to read.
LEMMA ReadsFind == IndInv => ReadsFindReports
<1> SUFFICES ASSUME IndInv, rpc = "read" PROVE ready /\ rbuf # <<>>
  BY DEF ReadsFindReports
<1>1. Len(rbuf) + dropped >= merged + 1
  BY DEF IndInv, TypeOK, Backlog, Count
<1>2. dropped =< merged
  BY IepTimerAssumption DEF IndInv, TypeOK, BufferInv
<1>3. Len(rbuf) \in Nat /\ merged \in Nat /\ dropped \in Nat
  BY EmptyFacts DEF IndInv, TypeOK
<1>4. rbuf # <<>>
  BY <1>1, <1>2, <1>3, EmptyFacts
<1> QED
  BY <1>4 DEF IndInv, BufferInv

\* The read takes the oldest report.
LEMMA RecvReadStep == IndInv /\ RecvRead => IndInv'
<1> SUFFICES ASSUME IndInv, RecvRead PROVE IndInv'
  OBVIOUS
<1>1. /\ rpc = "read" /\ rpc' = "test" /\ mpc \notin {"done", "failed"}
      /\ rbuf \in Seq(1 .. Rounds) /\ rbuf # <<>>
      /\ printed' = Append(printed, Head(rbuf)) /\ rbuf' = Tail(rbuf)
      /\ UNCHANGED <<ppc, i, mpc, stop, ready, sysevent, enabled, pending, ended,
                     late, merged, dropped>>
  BY ReadsFind
  DEF IndInv, TypeOK, RecvRead, Step, ReadsFindReports, pruVars, intcVars, history
<1>2. /\ Head(rbuf) \in 1 .. Rounds
      /\ rbuf' \in Seq(1 .. Rounds)
      /\ Len(rbuf) \in Nat /\ Len(rbuf) >= 1
      /\ Len(rbuf') = Len(rbuf) - 1
  BY <1>1, TailFacts
<1>3. /\ Head(rbuf) = rbuf[1]
      /\ \A k \in 1 .. Len(rbuf) - 1 : rbuf'[k] = rbuf[k + 1]
  BY <1>1, TailFacts
<1>4. TypeOK'
  <2>1. Len(rbuf') =< Slots /\ printed' \in Seq(1 .. Rounds)
    BY <1>1, <1>2, AppendFacts, IepTimerAssumption DEF IndInv, TypeOK
  <2>2. /\ i \in 0 .. Rounds /\ merged \in Nat /\ dropped \in Nat
        /\ ppc \in {"off", "boot", "loop", "trigger", "pause", "halted"}
        /\ mpc \in {"setup", "exec", "create", "wait", "disable", "unmapped",
                     "done", "failed"}
        /\ {stop, ready, sysevent, enabled, pending, ended, late} \subseteq BOOLEAN
    BY DEF IndInv, TypeOK
  <2> QED
    BY <1>1, <1>2, <2>1, <2>2 DEF TypeOK
<1>5. Backlog'
  BY <1>1, <1>2 DEF IndInv, TypeOK, Backlog, Count
<1>6. PhaseInv'
  BY <1>1, EmptyFacts DEF IndInv, PhaseInv
<1>7. IntcInv' /\ LateInv' /\ BufferInv'
  BY <1>1 DEF IndInv, IntcInv, LateInv, BufferInv
<1>8. OrderInv'
  <2> SUFFICES ASSUME dropped = 0
               PROVE  /\ printed' = [k \in 1..Len(printed') |-> k]
                      /\ Len(printed') + Len(rbuf') = Rounds - i
                      /\ \A k \in 1 .. Len(rbuf') : rbuf'[k] = Len(printed') + k
    BY <1>1 DEF OrderInv
  <2>1. /\ Len(printed) + Len(rbuf) = Rounds - i /\ Len(printed) \in Nat
        /\ i \in Nat /\ Rounds \in Nat
        /\ printed \in Seq(1 .. Rounds) /\ printed = [k \in 1..Len(printed) |-> k]
    BY <1>1, EmptyFacts, IepTimerAssumption DEF IndInv, OrderInv, TypeOK
  <2>2. \A k \in 1 .. Len(rbuf) : rbuf[k] = Len(printed) + k
    BY DEF IndInv, OrderInv
  <2>3. Head(rbuf) = Len(printed) + 1 /\ Len(printed') = Len(printed) + 1
    BY <1>1, <1>2, <1>3, <2>1, <2>2, AppendFacts
  <2>4. printed' = [k \in 1..Len(printed') |-> k]
    <3>1. /\ printed' \in Seq(1 .. Rounds)
          /\ \A k \in 1 .. Len(printed) : printed'[k] = printed[k]
          /\ printed'[Len(printed) + 1] = Len(printed) + 1
      BY <1>1, <1>2, <2>1, <2>3, AppendFacts
    <3>2. \A k \in 1 .. Len(printed) : printed[k] = k
      BY <2>1
    <3>3. ASSUME NEW k \in 1..Len(printed') PROVE printed'[k] = k
      <4>1. k \in 1 .. Len(printed) \/ k = Len(printed) + 1
        <5>1. Len(printed') = Len(printed) + 1 /\ Len(printed) \in Nat
          BY <2>1, <2>3, Zenon
        <5> QED
          BY <5>1
      <4> QED
        BY <3>1, <3>2, <4>1, Zenon
    <3>4. printed' = [k \in 1..Len(printed') |-> printed'[k]]
      BY <3>1
    <3> QED
      BY <3>3, <3>4
  <2>5. ASSUME NEW k \in 1 .. Len(rbuf') PROVE rbuf'[k] = Len(printed') + k
    <3>1. /\ k \in 1 .. Len(rbuf) - 1
          /\ k + 1 \in 1 .. Len(rbuf)
          /\ Len(printed) + (k + 1) = (Len(printed) + 1) + k
      BY <1>2, <2>1
    <3>2. rbuf'[k] = Len(printed) + (k + 1)
      BY <1>3, <2>2, <3>1, Zenon
    <3> QED
      BY <2>3, <3>1, <3>2
  <2>6. Len(printed') + Len(rbuf') = Rounds - i
    <3>1. /\ Len(printed') = Len(printed) + 1 /\ Len(rbuf') = Len(rbuf) - 1
          /\ Len(rbuf) \in Nat /\ Len(printed) \in Nat /\ i \in Nat /\ Rounds \in Nat
          /\ Len(printed) + Len(rbuf) = Rounds - i
      BY <1>2, <2>1, <2>3, Zenon
    <3> QED
      BY <3>1
  <2> QED
    BY <2>4, <2>5, <2>6
<1> QED
  BY <1>4, <1>5, <1>6, <1>7, <1>8 DEF IndInv

-----------------------------------------------------------------------------
(* The theorems.                                                           *)

\* What the properties rest on holds in every reachable state.
THEOREM IndInvHolds == Spec => []IndInv
<1>1. IndInv /\ UNCHANGED vars => IndInv'
  BY DEF IndInv, TypeOK, Backlog, Count, PhaseInv, IntcInv, BufferInv, OrderInv, LateInv,
         vars, pruVars, hostVars, intcVars, history
<1>2. IndInv /\ [Next]_vars => IndInv'
  BY <1>1, PruBootStep, PruReportStep, PruTriggerStep, PruPauseStep, PruHaltStep,
     IrqStep, MainStep, RecvOtherStep, RecvReadStep
  DEF Next, Pru, Recv
<1> QED
  BY <1>2, InitInd, PTL DEF Spec

\* Every variable keeps its type, and the buffer never holds more than it can.
THEOREM TypeCorrect == Spec => []TypeOK
<1>1. IndInv => TypeOK
  BY DEF IndInv
<1> QED
  BY <1>1, IndInvHolds, PTL

\* What stays behind in the buffer is exactly what merged interrupts left.
THEOREM BacklogExact == Spec => []Backlog
<1>1. IndInv => Backlog
  BY DEF IndInv
<1> QED
  BY <1>1, IndInvHolds, PTL

\* An idle host has printed every report in turn up to one that is as many
\* rounds old as interrupts were merged.
THEOREM Stale == Spec => []StaleByMerged
<1>1. IndInv => StaleByMerged
  <2> SUFFICES ASSUME IndInv, HostIdle, ppc = "pause", dropped = 0
               PROVE  printed = [k \in 1..(Rounds - i) - merged |-> k]
    BY DEF StaleByMerged
  <2>1. ~sysevent /\ rpc = "wait"
    BY DEF IndInv, TypeOK, IntcInv, HostIdle
  <2>2. Len(rbuf) \in Nat /\ Len(rbuf) = merged
    BY <2>1, EmptyFacts DEF IndInv, TypeOK, Backlog, Count
  <2>3. Len(printed) = (Rounds - i) - merged
    BY <2>2, EmptyFacts, IepTimerAssumption DEF IndInv, TypeOK, OrderInv
  <2> QED
    BY <2>3 DEF IndInv, OrderInv
<1> QED
  BY <1>1, IndInvHolds, PTL

\* No interrupt outruns its report, also when reports are dropped.
THEOREM NoReadInVain == Spec => []ReadsFindReports
  BY ReadsFind, IndInvHolds, PTL

\* Nothing is read from memory that is unmapped, if the host keeps up.
THEOREM SafeShutdown == Spec => []NoUseAfterUnmap
<1>1. IndInv => NoUseAfterUnmap
  BY DEF IndInv, PhaseInv, LateInv, NoUseAfterUnmap
<1> QED
  BY <1>1, IndInvHolds, PTL

\* A host that keeps up has printed everything when it ends.
THEOREM CompleteReports == Spec => []AllReportsPrinted
<1>1. IndInv => AllReportsPrinted
  <2> SUFFICES ASSUME IndInv, ~late, mpc = "done"
               PROVE  printed = [k \in 1..Rounds |-> k]
    BY DEF AllReportsPrinted
  <2>1. i = 0 /\ ppc \in {"halted", "off"}
    BY DEF IndInv, PhaseInv
  <2>2. ~sysevent /\ rpc # "read" /\ merged = 0
    BY <2>1 DEF IndInv, LateInv
  <2>3. Len(rbuf) \in Nat /\ Len(rbuf) + dropped = 0 /\ dropped \in Nat
    BY <2>1, <2>2, EmptyFacts DEF IndInv, TypeOK, Backlog, Count
  <2>4. dropped = 0 /\ Len(printed) = Rounds
    BY <2>1, <2>3, EmptyFacts, IepTimerAssumption DEF IndInv, TypeOK, OrderInv
  <2> QED
    BY <2>4 DEF IndInv, OrderInv
<1> QED
  BY <1>1, IndInvHolds, PTL
=============================================================================
