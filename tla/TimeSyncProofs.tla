---------------------------- MODULE TimeSyncProofs ----------------------------
(***************************************************************************)
(* Theorems about TimeSync for every number of rounds, every interval of   *)
(* synchronisation, every buffer of at least one value and any number of   *)
(* failing reads: which pulse an adjustment is about, that no interrupt is *)
(* lost, and that the program starts and ends safely.                      *)
(***************************************************************************)
EXTENDS TimeSync, TLAPS

-----------------------------------------------------------------------------
(* The inductive invariant behind the safety properties.                   *)

\* What each part has done by the time another one starts or ends.
PhaseInv ==
    /\ mpc \in {"setup", "qot", "exec"} => ppc = "off" /\ ~ended
    /\ mpc \in {"setup", "qot", "exec", "create1"} => rpc = "none"
    /\ mpc \in {"setup", "qot", "exec", "create1", "create2", "failed"} => spc = "none"
    /\ mpc \in {"deinit", "disable", "unmap", "done"} => ended
    /\ mpc \in {"unmap", "done"} => ppc = "off"
    /\ ended => i = 0 /\ ppc \in {"halted", "off"}
    /\ ppc = "halted" => ended
    /\ ready <=> (ppc \notin {"off", "boot"} \/ ended)

\* Before the PRU has initialised the buffer, there is nothing in it and no
\* interrupt from it.
BootInv ==
    /\ ~ready => /\ i = Rounds /\ printed = <<>> /\ toHost = <<>>
                 /\ ~sysevent /\ ~pending /\ rpc \notin {"clear", "drain"}
    /\ ppc \in {"sync", "wait", "report", "trigger", "pause"} => i < Rounds
    /\ t1 <= IF ppc = "sync" THEN Rounds - i - 1 ELSE Rounds - i

\* A disabled interrupt is one that the receiving thread is about to clear.
IntcInv == ~enabled => pending \/ rpc = "clear"

\* Until a read() fails, T2 of the current pulse is in one place while the PRU
\* waits for it: in the kernel, in the sending thread or in the buffer.
PairInv ==
    errors = 0 =>
        IF ppc = "wait"
        THEN \/ captured = <<t1>> /\ spc # "write" /\ toPru = <<>>
             \/ captured = <<>> /\ spc = "write" /\ nano_ts = t1 /\ toPru = <<>>
             \/ captured = <<>> /\ spc # "write" /\ toPru = <<t1>>
        ELSE captured = <<>> /\ spc # "write" /\ toPru = <<>> /\ t2 = t1

\* A pause is over, and the event of the next round not yet raised.
BetweenEvents ==
    \/ ppc = "loop" /\ i < Rounds
    \/ ppc \in {"sync", "wait", "report", "trigger"} /\ i < Rounds - 1
    \/ ended

\* Until the next event, a host that keeps up has nothing to receive.
LateInv ==
    ~late /\ BetweenEvents =>
        rpc \in {"wait", "end"} /\ ~pending /\ ~(sysevent /\ enabled)

\* Reports are lost only after the buffer's first places were filled; those that
\* are not keep their order.
FirstInv ==
    /\ Len(Reports) <= Sent
    /\ Len(Reports) < Slots => Len(Reports) = Sent
    /\ \A k \in 1..Len(Reports) : (k <= Slots => Reports[k] = k) /\ Reports[k] <= Sent
    /\ \A k \in 1..Len(Reports) - 1 : Reports[k] < Reports[k + 1]

\* A host that keeps up has printed all reports but the one just sent.
BacklogInv ==
    ~late => /\ Reports = [k \in 1..Sent |-> k]
             /\ toHost = <<>> \/ (ppc \in {"trigger", "pause"} /\ toHost = <<Sent>>)

IndInv ==
    /\ TypeOK /\ PhaseInv /\ BootInv /\ IntcInv /\ NoLostWakeup
    /\ PairInv /\ LateInv /\ FirstInv /\ BacklogInv

-----------------------------------------------------------------------------
(* Queues.                                                                 *)

\* A value put at the end of a queue.
LEMMA AppendFacts ==
    ASSUME NEW S, NEW q \in Seq(S), NEW x \in S
    PROVE  /\ Append(q, x) \in Seq(S)
           /\ Len(Append(q, x)) = Len(q) + 1
           /\ q = <<>> => Append(q, x) = <<x>>
<1>1. \A y : Append(<<>>, y) = <<y>>
  OBVIOUS
<1>2. Append(q, x) \in Seq(S) /\ Len(Append(q, x)) = Len(q) + 1
  OBVIOUS
<1> QED
  BY <1>1, <1>2

\* The oldest value taken from it.
LEMMA TailFacts ==
    ASSUME NEW S, NEW q \in Seq(S), q # <<>>
    PROVE  /\ Head(q) \in S
           /\ Tail(q) \in Seq(S)
           /\ Len(q) \in Nat /\ Len(Tail(q)) \in Nat
           /\ Len(Tail(q)) <= Len(q)
  OBVIOUS

\* An empty queue, and one that holds one value.
LEMMA EmptyFacts ==
    /\ Len(<<>>) = 0
    /\ \A S : <<>> \in Seq(S)
    /\ \A x : <<x>> # <<>> /\ Head(<<x>>) = x /\ Tail(<<x>>) = <<>>
    /\ \A S : \A q \in Seq(S) : Len(q) \in Nat
  OBVIOUS

\* Each value of a queue is of the queue's type.
LEMMA ElementFacts ==
    ASSUME NEW S, NEW q \in Seq(S), NEW k \in 1..Len(q)
    PROVE  q[k] \in S
  OBVIOUS

\* A write into a ring buffer: it is of the same type, not overfull, and
\* holds the value if it was empty.
LEMMA PutFacts ==
    ASSUME NEW S, NEW q \in Seq(S), NEW x \in S, Len(q) <= Slots
    PROVE  /\ Put(q, x) \in Seq(S)
           /\ Len(Put(q, x)) <= Slots
           /\ q = <<>> => Put(q, x) = <<x>>
<1>1. Len(q) \in Nat /\ Slots \in Nat /\ Slots > 0
  BY EmptyFacts, TimeSyncAssumption
<1>2. CASE Len(q) < Slots
  <2>1. Put(q, x) = Append(q, x)
    BY <1>2 DEF Put
  <2>2. Len(q) + 1 <= Slots
    BY <1>1, <1>2
  <2> QED
    BY <2>1, <2>2, AppendFacts
<1>3. CASE ~(Len(q) < Slots)
  <2>1. Put(q, x) = q
    BY <1>3 DEF Put
  <2>2. q # <<>>
    BY <1>1, <1>3, EmptyFacts
  <2> QED
    BY <2>1, <2>2
<1> QED
  BY <1>2, <1>3

\* What was printed and what is in the buffer: a value put into the buffer is
\* the last one of both, and one taken from it and printed changes nothing.
LEMMA JoinFacts ==
    ASSUME NEW S, NEW p \in Seq(S), NEW q \in Seq(S)
    PROVE  /\ p \o q \in Seq(S)
           /\ Len(p) \in Nat /\ Len(q) \in Nat /\ Len(p \o q) = Len(p) + Len(q)
           /\ \A x \in S : p \o Append(q, x) = Append(p \o q, x)
           /\ q # <<>> => Append(p, Head(q)) \o Tail(q) = p \o q
           /\ q = <<>> => p \o q = p
<1>1. /\ p \o q \in Seq(S) /\ Len(p \o q) = Len(p) + Len(q)
      /\ Len(p) \in Nat /\ Len(q) \in Nat
  OBVIOUS
<1>2. ASSUME NEW x \in S PROVE p \o Append(q, x) = Append(p \o q, x)
  OBVIOUS
<1>3. ASSUME q # <<>> PROVE Append(p, Head(q)) \o Tail(q) = p \o q
  BY <1>3
<1>4. q = <<>> => p \o q = p
  OBVIOUS
<1> QED
  BY <1>1, <1>2, <1>3, <1>4

\* The rounds are numbered by natural numbers.
LEMMA RoundFacts ==
    ASSUME TypeOK
    PROVE  /\ Rounds \in Nat /\ Rounds > 0 /\ i \in Nat /\ i <= Rounds
           /\ t1 \in Nat /\ t2 \in Nat
  BY TimeSyncAssumption DEF TypeOK

-----------------------------------------------------------------------------
(* The invariant holds at the start.                                       *)

\* Nothing has happened yet.
LEMMA InitInd == Init => IndInv
<1> SUFFICES ASSUME Init PROVE IndInv
  OBVIOUS
<1> USE DEF Init
<1>1. TypeOK
  <2>1. /\ toPru \in Seq(0 .. Rounds) /\ Len(toPru) <= Slots
        /\ toHost \in Seq(1 .. Rounds) /\ Len(toHost) <= Slots
        /\ captured \in Seq(1 .. Rounds) /\ printed \in Seq(1 .. Rounds)
    BY EmptyFacts, TimeSyncAssumption
  <2>2. /\ i \in 0 .. Rounds /\ t1 \in 0 .. Rounds /\ t2 \in 0 .. Rounds
        /\ nano_ts \in 0 .. Rounds
        /\ errors \in 0 .. MaxReadErrors
    BY TimeSyncAssumption
  <2>3. {ready, sysevent, enabled, pending, ended, late} \subseteq BOOLEAN /\ stop \in BOOLEAN
    OBVIOUS
  <2>4. ppc = "off" /\ mpc = "setup" /\ rpc = "none" /\ spc = "none"
    OBVIOUS
  <2> HIDE DEF Init
  <2> QED
    BY <2>1, <2>2, <2>3, <2>4 DEF TypeOK
<1>2. PhaseInv /\ IntcInv /\ NoLostWakeup /\ PairInv
  BY DEF PhaseInv, IntcInv, NoLostWakeup, PairInv
<1>3. BootInv /\ LateInv
  BY TimeSyncAssumption DEF BootInv, LateInv, BetweenEvents
<1>4. FirstInv /\ BacklogInv
  <2>1. Reports = <<>> /\ Sent = 0 /\ toHost = <<>>
    BY TimeSyncAssumption DEF Reports, Sent
  <2> HIDE DEF Init
  <2>2. FirstInv
    BY <2>1, EmptyFacts DEF FirstInv
  <2>3. [k \in 1..0 |-> k] = <<>>
    OBVIOUS
  <2> QED
    BY <2>1, <2>2, <2>3 DEF BacklogInv
<1> QED
  BY <1>1, <1>2, <1>3, <1>4 DEF IndInv

-----------------------------------------------------------------------------
(* Steps of the PRU.                                                       *)

\* What a step that keeps to its own part leaves alone.
LEMMA PairKept ==
    ASSUME PairInv, UNCHANGED <<ppc, t1, t2, spc, nano_ts, errors, toPru, captured>>
    PROVE  PairInv'
  BY DEF PairInv

\* The same for the reports.
LEMMA BacklogKept ==
    ASSUME FirstInv, BacklogInv, Sent' = Sent, UNCHANGED <<printed, toHost, late>>,
           ppc \in {"trigger", "pause"} => ppc' \in {"trigger", "pause"}
    PROVE  FirstInv' /\ BacklogInv'
<1>1. Reports' = Reports
  BY DEF Reports
<1>2. FirstInv'
  BY <1>1 DEF FirstInv
<1>3. BacklogInv'
  BY <1>1 DEF BacklogInv
<1> QED
  BY <1>2, <1>3

\* init_rbuffer and the clock.
LEMMA PruBootStep == IndInv /\ PruBoot => IndInv'
<1> SUFFICES ASSUME IndInv, PruBoot PROVE IndInv'
  OBVIOUS
<1> USE DEF IndInv, PruBoot, mainVars, recvVars, sendVars, intcVars
<1>1. TypeOK'
  BY EmptyFacts, TimeSyncAssumption DEF TypeOK
<1>2. ~ready /\ ~ended /\ i = Rounds
  BY DEF PhaseInv, BootInv
<1>3. PhaseInv'
  BY <1>2 DEF PhaseInv
<1>4. BootInv' /\ IntcInv' /\ NoLostWakeup'
  BY <1>2 DEF BootInv, IntcInv, NoLostWakeup
<1>5. PairInv'
  BY DEF PairInv
<1>6. LateInv'
  BY <1>2, RoundFacts DEF LateInv, BetweenEvents
<1>7. FirstInv' /\ BacklogInv'
  <2>1. Sent' = Sent /\ toHost = <<>> /\ toHost' = toHost
    BY <1>2 DEF BootInv, Sent
  <2> QED
    BY <2>1, BacklogKept
<1> QED
  BY <1>1, <1>3, <1>4, <1>5, <1>6, <1>7

\* The next round starts.
LEMMA PruLoopStep == IndInv /\ PruLoop => IndInv'
<1> SUFFICES ASSUME IndInv, PruLoop PROVE IndInv'
  OBVIOUS
<1>1. /\ ppc = "loop" /\ ppc' \in {"sync", "report"} /\ i > 0 /\ i' = i - 1
      /\ UNCHANGED <<t1, t2, mpc, stop, rpc, printed, spc, nano_ts, errors, sysevent,
                     enabled, pending, toPru, toHost, ready, captured, ended, late>>
  BY DEF PruLoop, mainVars, recvVars, sendVars, intcVars
<1>2. /\ Rounds \in Nat /\ i \in Nat /\ i <= Rounds /\ t1 \in Nat
  BY RoundFacts DEF IndInv
<1>3. TypeOK'
  BY <1>1, <1>2 DEF IndInv, TypeOK
<1>4. PhaseInv'
  BY <1>1 DEF IndInv, PhaseInv
<1>5. BootInv' /\ IntcInv' /\ NoLostWakeup'
  BY <1>1, <1>2 DEF IndInv, PhaseInv, BootInv, IntcInv, NoLostWakeup
<1>6. PairInv'
  BY <1>1 DEF IndInv, PairInv
<1>7. LateInv'
  BY <1>1, <1>2 DEF IndInv, LateInv, BetweenEvents
<1>8. FirstInv' /\ BacklogInv'
  <2>1. Sent' = Sent
    BY <1>1, <1>2 DEF Sent
  <2> QED
    BY <1>1, <2>1, BacklogKept DEF IndInv
<1> QED
  BY <1>3, <1>4, <1>5, <1>6, <1>7, <1>8 DEF IndInv

\* T1 is read and T2 is captured.
LEMMA PruPulseStep == IndInv /\ PruPulse => IndInv'
<1> SUFFICES ASSUME IndInv, PruPulse PROVE IndInv'
  OBVIOUS
<1>1. /\ ppc = "sync" /\ ppc' = "wait" /\ t1' = t1 + 1
      /\ captured' = Append(captured, t1')
      /\ UNCHANGED <<i, t2, mpc, stop, rpc, printed, spc, nano_ts, errors, sysevent,
                     enabled, pending, toPru, toHost, ready, ended, late>>
  BY DEF PruPulse, mainVars, recvVars, sendVars, intcVars
<1>2. /\ Rounds \in Nat /\ i \in Nat /\ i <= Rounds /\ t1 \in Nat
  BY RoundFacts DEF IndInv
<1>3. t1' \in 1 .. Rounds /\ t1' <= Rounds - i
  BY <1>1, <1>2 DEF IndInv, BootInv
<1>4. /\ captured' \in Seq(1 .. Rounds)
      /\ captured = <<>> => captured' = <<t1'>>
  BY <1>1, <1>3, AppendFacts DEF IndInv, TypeOK
<1>5. TypeOK'
  BY <1>1, <1>3, <1>4 DEF IndInv, TypeOK
<1>6. PhaseInv'
  BY <1>1 DEF IndInv, PhaseInv
<1>7. BootInv' /\ IntcInv' /\ NoLostWakeup'
  BY <1>1, <1>3 DEF IndInv, PhaseInv, BootInv, IntcInv, NoLostWakeup
<1>8. PairInv'
  BY <1>1, <1>4 DEF IndInv, PairInv
<1>9. LateInv' /\ FirstInv' /\ BacklogInv'
  <2>1. Sent' = Sent
    BY <1>1 DEF Sent
  <2> QED
    BY <1>1, <2>1, BacklogKept DEF IndInv, LateInv, BetweenEvents
<1> QED
  BY <1>5, <1>6, <1>7, <1>8, <1>9 DEF IndInv

\* The adjustment takes the oldest T2 in the buffer.
LEMMA PruAdjustStep == IndInv /\ PruAdjust => IndInv'
<1> SUFFICES ASSUME IndInv, PruAdjust PROVE IndInv'
  OBVIOUS
<1>1. /\ ppc = "wait" /\ ppc' = "report" /\ toPru # <<>>
      /\ t2' = Head(toPru) /\ toPru' = Tail(toPru)
      /\ UNCHANGED <<i, t1, mpc, stop, rpc, printed, spc, nano_ts, errors, sysevent,
                     enabled, pending, toHost, ready, captured, ended, late>>
  BY DEF PruAdjust, mainVars, recvVars, sendVars, intcVars
<1>2. /\ t2' \in 0 .. Rounds /\ toPru' \in Seq(0 .. Rounds) /\ Len(toPru') <= Slots
  BY <1>1, TailFacts, TimeSyncAssumption DEF IndInv, TypeOK
<1>3. TypeOK'
  BY <1>1, <1>2 DEF IndInv, TypeOK
<1>4. PhaseInv'
  BY <1>1 DEF IndInv, PhaseInv
<1>5. BootInv' /\ IntcInv' /\ NoLostWakeup'
  BY <1>1 DEF IndInv, PhaseInv, BootInv, IntcInv, NoLostWakeup
<1>6. PairInv'
  BY <1>1, EmptyFacts DEF IndInv, PairInv
<1>7. LateInv' /\ FirstInv' /\ BacklogInv'
  <2>1. Sent' = Sent
    BY <1>1 DEF Sent
  <2> QED
    BY <1>1, <2>1, BacklogKept DEF IndInv, LateInv, BetweenEvents
<1> QED
  BY <1>3, <1>4, <1>5, <1>6, <1>7 DEF IndInv

\* The report is put into the buffer.  A host that keeps up has emptied it.
LEMMA PruReportStep == IndInv /\ PruReport => IndInv'
<1> SUFFICES ASSUME IndInv, PruReport PROVE IndInv'
  OBVIOUS
<1>1. /\ ppc = "report" /\ ppc' = "trigger" /\ toHost' = Put(toHost, Rounds - i)
      /\ UNCHANGED <<i, t1, t2, mpc, stop, rpc, printed, spc, nano_ts, errors, sysevent,
                     enabled, pending, toPru, ready, captured, ended, late>>
  BY DEF PruReport, mainVars, recvVars, sendVars, intcVars
<1>2. /\ Rounds \in Nat /\ i \in Nat /\ i < Rounds
  BY <1>1, RoundFacts DEF IndInv, BootInv
<1>3. Rounds - i \in 1 .. Rounds
  BY <1>2
<1>4. /\ toHost' \in Seq(1 .. Rounds) /\ Len(toHost') <= Slots
      /\ toHost = <<>> => toHost' = <<Rounds - i>>
  BY <1>1, <1>3, PutFacts DEF IndInv, TypeOK
<1>5. TypeOK'
  BY <1>1, <1>4 DEF IndInv, TypeOK
<1>6. PhaseInv'
  BY <1>1 DEF IndInv, PhaseInv
<1>7. BootInv' /\ IntcInv' /\ NoLostWakeup'
  BY <1>1 DEF IndInv, PhaseInv, BootInv, IntcInv, NoLostWakeup
<1>8. PairInv' /\ LateInv'
  BY <1>1 DEF IndInv, PairInv, LateInv, BetweenEvents
<1>9. /\ Sent \in Nat /\ Sent' = Sent + 1 /\ Sent' = Rounds - i /\ Len(Reports) \in Nat
      /\ printed \in Seq(1 .. Rounds) /\ toHost \in Seq(1 .. Rounds)
      /\ Len(toHost) <= Len(Reports) /\ Reports \in Seq(1 .. Rounds)
      /\ \A k \in 1..Len(Reports) : Reports[k] \in 1 .. Rounds
  <2>1. Sent \in Nat /\ Sent' = Sent + 1 /\ Sent' = Rounds - i
    BY <1>1, <1>2 DEF Sent
  <2>2. printed \in Seq(1 .. Rounds) /\ toHost \in Seq(1 .. Rounds)
    BY DEF IndInv, TypeOK
  <2>3. /\ Reports \in Seq(1 .. Rounds) /\ Len(printed) \in Nat /\ Len(toHost) \in Nat
        /\ Len(Reports) = Len(printed) + Len(toHost)
    BY <2>2, JoinFacts DEF Reports
  <2>4. \A k \in 1..Len(Reports) : Reports[k] \in 1 .. Rounds
    BY <2>3, ElementFacts
  <2> QED
    BY <2>1, <2>2, <2>3, <2>4
<1>10. ASSUME Len(toHost) < Slots PROVE FirstInv' /\ BacklogInv'
  <2>1. Reports' = Append(Reports, Sent')
    <3>1. toHost' = Append(toHost, Sent')
      BY <1>1, <1>9, <1>10 DEF Put
    <3>2. Reports' = printed \o Append(toHost, Sent')
      BY <1>1, <3>1 DEF Reports
    <3>3. Sent' \in 1 .. Rounds
      BY <1>3, <1>9
    <3>4. printed \o Append(toHost, Sent') = Append(printed \o toHost, Sent')
      BY <1>9, <3>3, JoinFacts
    <3> QED
      BY <3>2, <3>4 DEF Reports
  <2>2. /\ Len(Reports') = Len(Reports) + 1 /\ Reports'[Len(Reports) + 1] = Sent'
        /\ \A k \in 1..Len(Reports) : Reports'[k] = Reports[k]
    BY <1>3, <1>9, <2>1
  <2>3. FirstInv'
    <3>1. Len(Reports) <= Sent /\ (Len(Reports) < Slots => Len(Reports) = Sent)
      BY DEF IndInv, FirstInv
    <3>2. ASSUME NEW k \in 1..Len(Reports)
          PROVE  (k <= Slots => Reports'[k] = k) /\ Reports'[k] <= Sent
      BY <2>2 DEF IndInv, FirstInv
    <3>3. Slots \in Nat
      BY TimeSyncAssumption
    <3>4. /\ Len(Reports') <= Sent' /\ (Len(Reports') < Slots => Len(Reports') = Sent')
          /\ Len(Reports) + 1 <= Slots => Reports'[Len(Reports) + 1] = Len(Reports) + 1
      BY <1>9, <2>2, <3>1, <3>3
    <3>5. ASSUME NEW k \in 1..Len(Reports')
          PROVE  (k <= Slots => Reports'[k] = k) /\ Reports'[k] <= Sent'
      <4>1. CASE k = Len(Reports) + 1
        BY <1>9, <2>2, <3>4, <4>1
      <4>2. CASE k # Len(Reports) + 1
        <5>1. k \in 1..Len(Reports)
          BY <1>9, <2>2, <4>2
        <5>2. Reports[k] \in 1 .. Rounds
          BY <1>9, <5>1, Zenon
        <5> QED
          BY <1>9, <2>2, <3>2, <5>1, <5>2
      <4> QED
        BY <4>1, <4>2
    <3>6. ASSUME NEW k \in 1..Len(Reports') - 1
          PROVE  Reports'[k] < Reports'[k + 1]
      <4>1. k \in 1..Len(Reports)
        BY <1>9, <2>2
      <4>2. Reports[k] \in 1 .. Rounds
        BY <1>9, <4>1
      <4>3. CASE k = Len(Reports)
        BY <1>9, <2>2, <3>2, <4>1, <4>2, <4>3
      <4>4. CASE k # Len(Reports)
        <5>1. k \in 1..Len(Reports) - 1 /\ k + 1 \in 1..Len(Reports)
          BY <1>9, <4>1, <4>4
        <5>2. Reports[k] < Reports[k + 1]
          BY <5>1 DEF IndInv, FirstInv
        <5> QED
          BY <2>2, <5>1, <5>2, <4>1
      <4> QED
        BY <4>3, <4>4
    <3> QED
      BY <3>4, <3>5, <3>6 DEF FirstInv
  <2>4. BacklogInv'
    <3> SUFFICES ASSUME ~late PROVE BacklogInv'
      BY <1>1 DEF BacklogInv
    <3>1. toHost = <<>> /\ Reports = [k \in 1..Sent |-> k]
      BY <1>1 DEF IndInv, BacklogInv
    <3>2. toHost' = <<Sent'>>
      BY <1>1, <1>4, <1>9, <3>1
    <3>3. Reports' = [k \in 1..Sent' |-> k]
      BY <1>9, <2>1, <3>1
    <3> QED
      BY <1>1, <3>2, <3>3 DEF BacklogInv
  <2> QED
    BY <2>3, <2>4
<1>11. ASSUME ~(Len(toHost) < Slots) PROVE FirstInv' /\ BacklogInv'
  <2>1. toHost' = toHost /\ Reports' = Reports
    BY <1>1, <1>11 DEF Put, Reports
  <2>2. Slots \in Nat /\ Slots > 0 /\ Len(toHost) \in Nat
    BY <1>9, TimeSyncAssumption
  <2>3. FirstInv'
    <3>1. Len(Reports) <= Sent' /\ ~(Len(Reports) < Slots)
      BY <1>9, <1>11, <2>2 DEF IndInv, FirstInv
    <3>2. ASSUME NEW k \in 1..Len(Reports)
          PROVE  (k <= Slots => Reports[k] = k) /\ Reports[k] <= Sent'
      <4>1. Reports[k] \in 1 .. Rounds
        BY <1>9
      <4> QED
        BY <1>9, <4>1 DEF IndInv, FirstInv
    <3>3. \A k \in 1..Len(Reports) - 1 : Reports[k] < Reports[k + 1]
      BY DEF IndInv, FirstInv
    <3> QED
      BY <2>1, <3>1, <3>2, <3>3 DEF FirstInv
  <2>4. late
    <3>1. toHost # <<>>
      BY <1>11, <2>2, EmptyFacts
    <3> QED
      BY <1>1, <3>1 DEF IndInv, BacklogInv
  <2>5. BacklogInv'
    BY <1>1, <2>4 DEF BacklogInv
  <2> QED
    BY <2>3, <2>5
<1> QED
  BY <1>5, <1>6, <1>7, <1>8, <1>10, <1>11 DEF IndInv

\* The event is raised.
LEMMA PruTriggerStep == IndInv /\ PruTrigger => IndInv'
<1> SUFFICES ASSUME IndInv, PruTrigger PROVE IndInv'
  OBVIOUS
<1> USE DEF IndInv, PruTrigger, mainVars, recvVars, sendVars
<1>1. TypeOK'
  BY DEF TypeOK
<1>2. PhaseInv' /\ BootInv' /\ IntcInv'
  BY DEF PhaseInv, BootInv, IntcInv
<1>3. NoLostWakeup'
  BY DEF TypeOK, IntcInv, NoLostWakeup
<1>4. PairInv' /\ FirstInv' /\ BacklogInv'
  <2>1. Sent' = Sent
    BY DEF Sent
  <2> QED
    BY <2>1, BacklogKept DEF PairInv
<1>5. LateInv'
  BY DEF PhaseInv, LateInv, BetweenEvents
<1> QED
  BY <1>1, <1>2, <1>3, <1>4, <1>5

\* The pause is over: either the host is idle, and the buffer empty, or it is
\* late.
LEMMA PruPauseStep == IndInv /\ PruPause => IndInv'
<1> SUFFICES ASSUME IndInv, PruPause PROVE IndInv'
  OBVIOUS
<1> USE DEF IndInv, PruPause, mainVars, recvVars, sendVars, intcVars
<1>1. TypeOK'
  BY DEF TypeOK
<1>2. PhaseInv' /\ BootInv' /\ IntcInv' /\ NoLostWakeup'
  BY DEF PhaseInv, BootInv, IntcInv, NoLostWakeup
<1>3. PairInv'
  BY DEF PairInv
<1>4. LateInv'
  BY DEF LateInv, HostIdle
<1>5. ~late' => toHost = <<>>
  BY DEF PhaseInv, NoLostWakeup, HostIdle
<1>6. FirstInv' /\ BacklogInv'
  <2>1. Sent' = Sent /\ Reports' = Reports /\ (~late' => ~late)
    BY DEF Sent, Reports
  <2> QED
    BY <1>5, <2>1 DEF FirstInv, BacklogInv
<1> QED
  BY <1>1, <1>2, <1>3, <1>4, <1>6

\* The end of the program on the PRU.
LEMMA PruTerminateStep == IndInv /\ PruTerminate => IndInv'
<1> SUFFICES ASSUME IndInv, PruTerminate PROVE IndInv'
  OBVIOUS
<1> USE DEF IndInv, PruTerminate, mainVars, recvVars, sendVars, intcVars
<1>1. TypeOK'
  BY DEF TypeOK
<1>2. PhaseInv' /\ BootInv' /\ IntcInv' /\ NoLostWakeup'
  BY DEF PhaseInv, BootInv, IntcInv, NoLostWakeup
<1>3. PairInv' /\ FirstInv' /\ BacklogInv'
  <2>1. Sent' = Sent
    BY DEF Sent
  <2> QED
    BY <2>1, BacklogKept DEF PairInv
<1>4. LateInv'
  BY RoundFacts DEF LateInv, BetweenEvents
<1> QED
  BY <1>1, <1>2, <1>3, <1>4

\* Every step of the PRU keeps the invariant.
LEMMA PruKeepsInd == IndInv /\ Pru => IndInv'
  BY PruBootStep, PruLoopStep, PruPulseStep, PruAdjustStep, PruReportStep,
     PruTriggerStep, PruPauseStep, PruTerminateStep DEF Pru

-----------------------------------------------------------------------------
(* Steps of the interrupt controller and of the main thread.               *)

\* The driver counts the interrupt and disables it.
LEMMA IrqStep == IndInv /\ Irq => IndInv'
<1> SUFFICES ASSUME IndInv, Irq PROVE IndInv'
  OBVIOUS
<1> USE DEF IndInv, Irq, pruVars, mainVars, recvVars, sendVars
<1>1. TypeOK'
  <2>1. {ready', sysevent', enabled', pending', ended', late'} \subseteq BOOLEAN
    BY DEF TypeOK
  <2> QED
    BY <2>1 DEF TypeOK
<1>2. PhaseInv' /\ BootInv' /\ IntcInv' /\ NoLostWakeup'
  BY DEF PhaseInv, BootInv, IntcInv, NoLostWakeup
<1>3. PairInv' /\ FirstInv' /\ BacklogInv'
  BY PairKept, BacklogKept DEF Sent
<1>4. LateInv'
  BY DEF LateInv, BetweenEvents
<1> QED
  BY <1>1, <1>2, <1>3, <1>4

\* The shared memory is cleared, and the input capture enabled.
LEMMA MainStartStep == IndInv /\ (MainSetup \/ InitQot) => IndInv'
<1> SUFFICES ASSUME IndInv, MainSetup \/ InitQot PROVE IndInv'
  OBVIOUS
<1>1. /\ mpc \in {"setup", "qot"} /\ mpc' \in {"qot", "exec"}
      /\ UNCHANGED <<ppc, i, t1, t2, stop, rpc, printed, spc, nano_ts, errors, sysevent,
                     enabled, pending, ended, late>>
  BY DEF MainSetup, InitQot, Goto, pruVars, recvVars, sendVars, intcVars
<1>2. ppc = "off" /\ ~ended /\ ~ready /\ toHost = <<>>
  BY <1>1 DEF IndInv, PhaseInv, BootInv
<1>3. /\ toPru' \in {<<>>, toPru} /\ captured' \in {<<>>, captured}
      /\ toHost' = <<>> /\ ready' \in BOOLEAN /\ ~ready'
  <2>1. ready \in BOOLEAN
    BY DEF IndInv, TypeOK
  <2>2. CASE MainSetup
    BY <2>2 DEF MainSetup
  <2>3. CASE InitQot
    BY <1>2, <2>1, <2>3 DEF InitQot
  <2> QED
    BY <2>2, <2>3
<1>4. TypeOK'
  BY <1>1, <1>2, <1>3, EmptyFacts, TimeSyncAssumption DEF IndInv, TypeOK
<1>5. PhaseInv'
  BY <1>1, <1>2, <1>3 DEF IndInv, PhaseInv
<1>6. BootInv' /\ IntcInv' /\ NoLostWakeup'
  BY <1>1, <1>2, <1>3 DEF IndInv, BootInv, IntcInv, NoLostWakeup
<1>7. PairInv'
  BY <1>1, <1>2, <1>3 DEF IndInv, PairInv
<1>8. LateInv' /\ FirstInv' /\ BacklogInv'
  <2>1. Sent' = Sent
    BY <1>1 DEF Sent
  <2> QED
    BY <1>1, <1>2, <1>3, <2>1, BacklogKept DEF IndInv, LateInv, BetweenEvents
<1> QED
  BY <1>4, <1>5, <1>6, <1>7, <1>8 DEF IndInv

\* The PRU starts with an empty buffer behind it.
LEMMA MainExecStep == IndInv /\ MainExec => IndInv'
<1> SUFFICES ASSUME IndInv, MainExec PROVE IndInv'
  OBVIOUS
<1> USE DEF IndInv, MainExec, Goto, recvVars, sendVars, intcVars
<1>1. TypeOK'
  BY DEF TypeOK
<1>2. ppc = "off" /\ ~ended /\ ~ready
  BY DEF PhaseInv
<1>3. PhaseInv'
  BY <1>2 DEF PhaseInv
<1>4. BootInv' /\ IntcInv' /\ NoLostWakeup'
  BY <1>2 DEF BootInv, IntcInv, NoLostWakeup
<1>5. PairInv' /\ LateInv' /\ FirstInv' /\ BacklogInv'
  <2>1. Sent' = Sent
    BY <1>2 DEF Sent
  <2> QED
    BY <1>2, <2>1, BacklogKept DEF PairInv, LateInv, BetweenEvents
<1> QED
  BY <1>1, <1>3, <1>4, <1>5

\* The worker threads are created.
LEMMA MainCreateStep == IndInv /\ (MainCreateReceiver \/ MainCreateSender) => IndInv'
<1> SUFFICES ASSUME IndInv, MainCreateReceiver \/ MainCreateSender PROVE IndInv'
  OBVIOUS
<1> USE DEF IndInv, pruVars, recvVars, sendVars, intcVars
<1>1. CASE MainCreateReceiver
  <2> USE <1>1 DEF MainCreateReceiver, Goto
  <2>1. TypeOK' /\ PhaseInv'
    BY DEF TypeOK, PhaseInv
  <2>2. BootInv' /\ IntcInv' /\ NoLostWakeup'
    BY DEF PhaseInv, BootInv, IntcInv, NoLostWakeup
  <2>3. PairInv' /\ FirstInv' /\ BacklogInv'
    BY PairKept, BacklogKept DEF Sent
  <2>4. LateInv'
    BY DEF PhaseInv, LateInv, BetweenEvents
  <2> QED
    BY <2>1, <2>2, <2>3, <2>4
<1>2. CASE MainCreateSender
  <2> USE <1>2 DEF MainCreateSender, Goto
  <2>1. TypeOK' /\ PhaseInv'
    BY DEF TypeOK, PhaseInv
  <2>2. BootInv' /\ IntcInv' /\ NoLostWakeup'
    BY DEF PhaseInv, BootInv, IntcInv, NoLostWakeup
  <2>3. PairInv'
    BY DEF PhaseInv, PairInv
  <2>4. LateInv' /\ FirstInv' /\ BacklogInv'
    BY BacklogKept DEF LateInv, BetweenEvents, Sent
  <2> QED
    BY <2>1, <2>2, <2>3, <2>4
<1> QED
  BY <1>1, <1>2

\* The process fails, is told to stop, or returns.
LEMMA MainOtherStep == IndInv /\ (MainFail \/ MainStop \/ MainReturn) => IndInv'
<1> SUFFICES ASSUME IndInv, MainFail \/ MainStop \/ MainReturn PROVE IndInv'
  OBVIOUS
<1> USE DEF IndInv, MainFail, MainStop, MainReturn, Goto, pruVars, recvVars, sendVars, intcVars
<1>1. TypeOK'
  BY DEF TypeOK
<1>2. PhaseInv'
  BY DEF PhaseInv
<1>3. BootInv' /\ IntcInv' /\ NoLostWakeup'
  BY DEF BootInv, IntcInv, NoLostWakeup
<1>4. PairInv' /\ FirstInv' /\ BacklogInv'
  BY PairKept, BacklogKept DEF Sent
<1>5. LateInv'
  BY DEF LateInv, BetweenEvents
<1> QED
  BY <1>1, <1>2, <1>3, <1>4, <1>5

\* The input capture is disabled, after the PRU's last pulse.
LEMMA MainDeinitStep == IndInv /\ MainDeinit => IndInv'
<1> SUFFICES ASSUME IndInv, MainDeinit PROVE IndInv'
  OBVIOUS
<1> USE DEF IndInv, MainDeinit, Goto, pruVars, recvVars, sendVars, intcVars
<1>1. TypeOK'
  BY EmptyFacts DEF TypeOK
<1>2. PhaseInv'
  BY DEF PhaseInv
<1>3. BootInv' /\ IntcInv' /\ NoLostWakeup'
  BY DEF BootInv, IntcInv, NoLostWakeup
<1>4. PairInv'
  BY DEF PhaseInv, PairInv
<1>5. LateInv' /\ FirstInv' /\ BacklogInv'
  BY BacklogKept DEF LateInv, BetweenEvents, Sent
<1> QED
  BY <1>1, <1>2, <1>3, <1>4, <1>5

\* The PRU is disabled and the memory unmapped, after it has ended.
LEMMA MainUnmapStep == IndInv /\ MainUnmap => IndInv'
<1> SUFFICES ASSUME IndInv, MainUnmap PROVE IndInv'
  OBVIOUS
<1> USE DEF IndInv, MainUnmap, Goto, recvVars, sendVars, intcVars
<1>1. TypeOK'
  BY DEF TypeOK
<1>2. ended /\ ppc \in {"halted", "off"}
  BY DEF PhaseInv
<1>3. PhaseInv'
  BY <1>2 DEF PhaseInv
<1>4. BootInv' /\ IntcInv' /\ NoLostWakeup'
  BY <1>2 DEF PhaseInv, BootInv, IntcInv, NoLostWakeup
<1>5. PairInv' /\ LateInv' /\ FirstInv' /\ BacklogInv'
  <2>1. Sent' = Sent
    BY <1>2 DEF Sent
  <2> QED
    BY <1>2, <2>1, BacklogKept DEF PairInv, LateInv, BetweenEvents
<1> QED
  BY <1>1, <1>3, <1>4, <1>5

\* Every step of the main thread keeps the invariant.
LEMMA MainKeepsInd == IndInv /\ Main => IndInv'
  BY MainStartStep, MainExecStep, MainCreateStep, MainOtherStep, MainDeinitStep,
     MainUnmapStep DEF Main

-----------------------------------------------------------------------------
(* Steps of the receiving thread.                                          *)

\* A thread that runs was created.
LEMMA Running ==
    ASSUME PhaseInv, Alive
    PROVE  /\ rpc # "none" => mpc \notin {"setup", "qot", "exec", "create1", "failed"}
           /\ spc # "none" => mpc \notin {"setup", "qot", "exec", "create1", "create2", "failed"}
  BY DEF PhaseInv, Alive

\* The thread waits for the interrupt, takes it and clears it.
LEMMA RecvOtherStep == IndInv /\ (RecvTest \/ RecvWait \/ RecvClear) => IndInv'
<1> SUFFICES ASSUME IndInv, RecvTest \/ RecvWait \/ RecvClear PROVE IndInv'
  OBVIOUS
<1> USE DEF IndInv, RecvTest, RecvWait, RecvClear, pruVars, mainVars, sendVars, intcVars
<1>1. TypeOK'
  BY DEF TypeOK
<1>2. PhaseInv'
  BY Running DEF PhaseInv
<1>3. BootInv'
  BY DEF BootInv
<1>4. IntcInv' /\ NoLostWakeup'
  BY DEF TypeOK, IntcInv, NoLostWakeup
<1>5. PairInv' /\ FirstInv' /\ BacklogInv'
  BY PairKept, BacklogKept DEF Sent
<1>6. LateInv'
  BY DEF LateInv, BetweenEvents
<1> QED
  BY <1>1, <1>2, <1>3, <1>4, <1>5, <1>6

\* A report is printed: the one just sent, if the host keeps up.
LEMMA RecvPrintStep == IndInv /\ RecvPrint => IndInv'
<1> SUFFICES ASSUME IndInv, RecvPrint PROVE IndInv'
  OBVIOUS
<1>1. /\ rpc = "drain" /\ toHost # <<>>
      /\ printed' = Append(printed, Head(toHost)) /\ toHost' = Tail(toHost)
      /\ UNCHANGED <<ppc, i, t1, t2, mpc, stop, rpc, spc, nano_ts, errors, sysevent,
                     enabled, pending, toPru, ready, captured, ended, late>>
  BY DEF RecvPrint, pruVars, mainVars, sendVars, intcVars
<1>2. /\ printed' \in Seq(1 .. Rounds)
      /\ toHost' \in Seq(1 .. Rounds) /\ Len(toHost') <= Slots
  BY <1>1, AppendFacts, TailFacts, TimeSyncAssumption DEF IndInv, TypeOK
<1>3. TypeOK'
  BY <1>1, <1>2 DEF IndInv, TypeOK
<1>4. PhaseInv' /\ BootInv' /\ IntcInv' /\ NoLostWakeup'
  BY <1>1 DEF IndInv, PhaseInv, BootInv, IntcInv, NoLostWakeup
<1>5. PairInv' /\ LateInv'
  BY <1>1, PairKept DEF IndInv, LateInv, BetweenEvents
<1>6. FirstInv' /\ BacklogInv'
  <2>1. Reports' = Reports
    <3>1. printed \in Seq(1 .. Rounds) /\ toHost \in Seq(1 .. Rounds)
      BY DEF IndInv, TypeOK
    <3> QED
      BY <1>1, <3>1, JoinFacts DEF Reports
  <2>2. Sent' = Sent
    BY <1>1 DEF Sent
  <2>3. FirstInv'
    BY <2>1, <2>2 DEF IndInv, FirstInv
  <2>4. BacklogInv'
    BY <1>1, <2>1, <2>2, EmptyFacts DEF IndInv, BacklogInv
  <2> QED
    BY <2>3, <2>4
<1> QED
  BY <1>3, <1>4, <1>5, <1>6 DEF IndInv

\* The buffer is found empty.
LEMMA RecvEmptyStep == IndInv /\ RecvEmpty => IndInv'
<1> SUFFICES ASSUME IndInv, RecvEmpty PROVE IndInv'
  OBVIOUS
<1> USE DEF IndInv, RecvEmpty, pruVars, mainVars, sendVars, intcVars
<1>1. TypeOK'
  BY DEF TypeOK
<1>2. PhaseInv' /\ BootInv'
  BY Running DEF PhaseInv, BootInv
<1>3. IntcInv' /\ NoLostWakeup' /\ LateInv'
  BY DEF IntcInv, NoLostWakeup, LateInv, BetweenEvents
<1>4. PairInv' /\ FirstInv' /\ BacklogInv'
  BY PairKept, BacklogKept DEF Sent
<1> QED
  BY <1>1, <1>2, <1>3, <1>4

\* Every step of the receiving thread keeps the invariant.
LEMMA RecvKeepsInd == IndInv /\ Recv => IndInv'
  BY RecvOtherStep, RecvPrintStep, RecvEmptyStep DEF Recv

-----------------------------------------------------------------------------
(* Steps of the sending thread.                                            *)

\* What the sending thread does not touch stays as it is.
LEMMA SendFrame ==
    ASSUME IndInv,
           UNCHANGED <<ppc, i, t1, mpc, rpc, printed, toHost, ready, sysevent, enabled,
                       pending, ended, late>>
    PROVE  BootInv' /\ IntcInv' /\ NoLostWakeup' /\ LateInv' /\ FirstInv' /\ BacklogInv'
<1>1. BootInv' /\ IntcInv' /\ NoLostWakeup'
  BY DEF IndInv, BootInv, IntcInv, NoLostWakeup
<1>2. LateInv' /\ FirstInv' /\ BacklogInv'
  BY BacklogKept DEF IndInv, LateInv, BetweenEvents, Sent
<1> QED
  BY <1>1, <1>2

\* Every step of the sending thread keeps the invariant: it moves T2 from the
\* kernel through its own variable into the buffer, or read() fails.
LEMMA SendKeepsInd == IndInv /\ Send => IndInv'
<1> SUFFICES ASSUME IndInv, Send PROVE IndInv'
  OBVIOUS
<1>1. /\ spc \in {"test", "read", "write"} /\ Alive
      /\ UNCHANGED <<ppc, i, t1, t2, mpc, stop, rpc, printed, toHost, ready, sysevent,
                     enabled, pending, ended, late>>
  BY DEF Send, SendTest, SendRead, SendReadError, SendWrite, pruVars, mainVars, recvVars, intcVars
<1>2. BootInv' /\ IntcInv' /\ NoLostWakeup' /\ LateInv' /\ FirstInv' /\ BacklogInv'
  BY <1>1, SendFrame
<1>3. PhaseInv'
  BY <1>1, Running DEF IndInv, PhaseInv
<1>4. CASE SendTest
  <2>1. TypeOK'
    BY <1>1, <1>4 DEF SendTest, IndInv, TypeOK
  <2>2. PairInv'
    BY <1>1, <1>4 DEF SendTest, IndInv, PairInv
  <2> QED
    BY <1>2, <1>3, <2>1, <2>2 DEF IndInv
<1>5. CASE SendRead
  <2>1. /\ nano_ts' = Head(captured) /\ nano_ts' \in 1 .. Rounds
        /\ captured' = Tail(captured) /\ captured' \in Seq(1 .. Rounds)
        /\ spc = "read" /\ spc' = "write" /\ captured # <<>>
        /\ UNCHANGED <<errors, toPru>>
    BY <1>5, TailFacts DEF SendRead, IndInv, TypeOK
  <2>2. TypeOK'
    <3>1. nano_ts' \in 0 .. Rounds
      BY <2>1
    <3> QED
      BY <1>1, <2>1, <3>1 DEF IndInv, TypeOK
  <2>3. PairInv'
    BY <1>1, <2>1, EmptyFacts DEF IndInv, PairInv
  <2> QED
    BY <1>2, <1>3, <2>2, <2>3 DEF IndInv
<1>6. CASE SendReadError
  <2>1. /\ errors' \in 0 .. MaxReadErrors /\ errors' # 0
        /\ nano_ts' \in 0 .. Rounds /\ spc' = "write"
        /\ UNCHANGED <<captured, toPru>>
    BY <1>6, TimeSyncAssumption DEF SendReadError, IndInv, TypeOK
  <2>2. TypeOK' /\ PairInv'
    BY <1>1, <2>1 DEF IndInv, TypeOK, PairInv
  <2> QED
    BY <1>2, <1>3, <2>2 DEF IndInv
<1>7. CASE SendWrite
  <2>1. /\ toPru' = Put(toPru, nano_ts) /\ spc = "write" /\ spc' = "test"
        /\ UNCHANGED <<nano_ts, errors, captured>>
    BY <1>7 DEF SendWrite
  <2>2. /\ toPru' \in Seq(0 .. Rounds) /\ Len(toPru') <= Slots
        /\ toPru = <<>> => toPru' = <<nano_ts>>
    BY <2>1, PutFacts DEF IndInv, TypeOK
  <2>3. TypeOK'
    BY <1>1, <2>1, <2>2 DEF IndInv, TypeOK
  <2>4. PairInv'
    BY <1>1, <2>1, <2>2 DEF IndInv, PairInv
  <2> QED
    BY <1>2, <1>3, <2>3, <2>4 DEF IndInv
<1> QED
  BY <1>4, <1>5, <1>6, <1>7 DEF Send

-----------------------------------------------------------------------------
(* The theorems.                                                           *)

\* In every reachable state the invariant holds, whatever the interleaving of
\* the PRU, the controller and the three threads.
THEOREM IndInvHolds == Spec => []IndInv
<1>1. IndInv /\ [Next]_vars => IndInv'
  <2> SUFFICES ASSUME IndInv, [Next]_vars PROVE IndInv'
    OBVIOUS
  <2>1. CASE UNCHANGED vars
    <3> USE <2>1 DEF vars, pruVars, mainVars, recvVars, sendVars, intcVars
    <3>1. TypeOK' /\ PhaseInv'
      BY DEF IndInv, TypeOK, PhaseInv
    <3>2. BootInv' /\ IntcInv' /\ NoLostWakeup' /\ LateInv' /\ FirstInv' /\ BacklogInv'
      BY SendFrame
    <3>3. PairInv'
      BY PairKept DEF IndInv
    <3> QED
      BY <3>1, <3>2, <3>3 DEF IndInv
  <2> QED
    BY <2>1, PruKeepsInd, IrqStep, MainKeepsInd, RecvKeepsInd, SendKeepsInd DEF Next
<1> QED
  BY <1>1, InitInd, PTL DEF Spec

\* Every variable keeps its type: no round has a number above Rounds, and
\* neither ring buffer is overfull.
THEOREM TypeCorrect == Spec => []TypeOK
<1>1. IndInv => TypeOK
  BY DEF IndInv
<1> QED
  BY <1>1, IndInvHolds, PTL

\* Until a read() fails, the offset is computed from the T1 and the T2 of one
\* pulse, for any number of synchronisations.
THEOREM AdjustsBySamePulse == Spec => []SamePulse
<1>1. IndInv => SamePulse
  BY DEF IndInv, PairInv, SamePulse
<1> QED
  BY <1>1, IndInvHolds, PTL

\* An interrupt that is raised while the previous one is being handled is not
\* lost: a report in the buffer always has a wake-up to come.
THEOREM NoWakeupIsLost == Spec => []NoLostWakeup
<1>1. IndInv => NoLostWakeup
  BY DEF IndInv
<1> QED
  BY <1>1, IndInvHolds, PTL

\* The host never takes the cleared memory for a full buffer of zeros.
THEOREM ReadsInitialised == Spec => []HostReadsInitialised
<1>1. IndInv => HostReadsInitialised
  BY DEF IndInv, BootInv, HostReadsInitialised
<1> QED
  BY <1>1, IndInvHolds, PTL

\* A host that keeps up, and whose reads do not fail, has no thread in a
\* buffer when the shared memory goes.
THEOREM UnmapIsSafe == Spec => []NoUseAfterUnmap
<1>1. IndInv => NoUseAfterUnmap
  BY DEF IndInv, PhaseInv, PairInv, LateInv, BetweenEvents, NoUseAfterUnmap
<1> QED
  BY <1>1, IndInvHolds, PTL

\* The first reports, as many as the buffer has room for, are printed or can
\* still be read however late the host is, those after them keep their order;
\* and a host that keeps up has printed every report when the program ends.
THEOREM EveryReportIsPrinted == Spec => []AllReportsPrinted
<1>1. IndInv => AllReportsPrinted
  <2> SUFFICES ASSUME IndInv PROVE AllReportsPrinted
    OBVIOUS
  <2>1. /\ Rounds \in Nat /\ i \in Nat /\ Slots \in Nat /\ Sent \in Int
        /\ Len(Reports) \in Nat
    <3>1. Len(Reports) \in Nat
      BY JoinFacts DEF IndInv, TypeOK, Reports
    <3> QED
      BY <3>1, RoundFacts, TimeSyncAssumption DEF IndInv, Sent
  <2>2. ASSUME NEW k \in 1..Sent, k <= Slots PROVE k <= Len(Reports) /\ Reports[k] = k
    <3>1. Len(Reports) < Slots => Len(Reports) = Sent
      BY DEF IndInv, FirstInv
    <3>2. k <= Len(Reports)
      BY <2>1, <2>2, <3>1
    <3>3. k \in 1..Len(Reports)
      BY <2>1, <3>2
    <3> QED
      BY <2>2, <3>2, <3>3 DEF IndInv, FirstInv
  <2>3. \A k \in 1..Len(Reports) - 1 : Reports[k] < Reports[k + 1]
    BY DEF IndInv, FirstInv
  <2>4. ASSUME ~late, mpc = "done" PROVE printed = [k \in 1..Rounds |-> k]
    <3>1. ended /\ i = 0 /\ ppc = "off"
      BY <2>4 DEF IndInv, PhaseInv
    <3>2. Sent = Rounds
      BY <2>1, <3>1 DEF Sent
    <3>3. toHost = <<>> /\ Reports = [k \in 1..Rounds |-> k]
      BY <2>4, <3>1, <3>2 DEF IndInv, BacklogInv
    <3>4. Reports = printed
      BY <3>3, JoinFacts DEF IndInv, TypeOK, Reports
    <3> QED
      BY <3>3, <3>4
  <2> QED
    BY <2>2, <2>3, <2>4 DEF AllReportsPrinted
<1> QED
  BY <1>1, IndInvHolds, PTL
=============================================================================
