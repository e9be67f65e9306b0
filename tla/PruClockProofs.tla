---------------------------- MODULE PruClockProofs ----------------------------
(***************************************************************************)
(* Theorems about PruClock for every width of the words, every period and  *)
(* every set of offsets of the host's clock: that the PRU's clock is the   *)
(* host's between two synchronisations, that synchronisations keep coming  *)
(* in time across the jumps of the clock, and when a poll of the two words *)
(* of the timestamp is whole.                                              *)
(***************************************************************************)
EXTENDS PruClock, TLAPS

-----------------------------------------------------------------------------
(* The inductive invariant behind the safety properties.                   *)

\* Where the PRU is, its stores to ts_mem included: between two
\* synchronisations, waiting for T2, or about to adjust the clock.
Storing == ppc \in {"publish", "lower", "upper"}
Between == ppc = "loop" \/ (Storing /\ next = "loop")
Waiting == ppc = "wait" \/ (Storing /\ next = "wait")
Got     == ppc = "adjust" \/ (Storing /\ next = "adjust")

\* What is read from the PTP device, or 0, and what the clock can be set to.
HostTimes == {x \in Nat : \E o \in HostOffsets : x <= MaxNow + o}

\* The PRU stores after the loop's test, in the wait or before the adjustment;
\* it starts, and the sender starts, after main.
PhaseInv ==
    /\ next \in {"loop", "wait", "adjust"}
    /\ mpc \in {"qot", "exec"} => ppc = "off"
    /\ mpc \in {"qot", "exec", "create1", "create2"} => spc = "none"
    /\ ppc \in {"off", "boot"} => first

\* T1 is a reading of the clock before the jump, T2 one of the host's, and no
\* timestamp is anywhere near the end of u64.
RangeInv ==
    /\ Waiting \/ Got => ts_pru - offset \in 0..now
    /\ nano_ts \in HostTimes /\ data \in HostTimes
    /\ captured \in Seq(HostTimes) /\ rec_buf \in Seq(HostTimes)
    /\ \E o \in HostOffsets : offset <= MaxNow + o
    /\ \E o \in HostOffsets : last_ts <= (2 * MaxNow) + o

\* The T2 of the last pulse: by the host's clock, when the PRU read T1.
T2 == (ts_pru - offset) + hostAhead

\* While no read() fails there is one T2 for one pulse, in one place, and no
\* other T2 is left over.
Nowhere == captured = <<>> /\ spc # "write" /\ rec_buf = <<>>
InOnePlace ==
    \/ captured = <<T2>> /\ spc # "write" /\ rec_buf = <<>>
    \/ captured = <<>> /\ spc = "write" /\ nano_ts = T2 /\ rec_buf = <<>>
    \/ captured = <<>> /\ spc # "write" /\ rec_buf = <<T2>>

PairInv ==
    errors = 0 =>
        /\ Waiting => InOnePlace
        /\ ~Waiting => Nowhere
        /\ Got => data = T2
        /\ Between /\ ~first => offset = hostAhead

\* last_ts is the start of the last synchronisation on the scale of before its
\* jump; the scale has moved back by back, or forth.
SyncInv ==
    /\ ppc = "sync" \/ Waiting \/ Got =>
          last_ts = syncedAt + offset /\ testedAt = syncedAt
    /\ Between /\ ~first =>
          \/ back = 0 /\ last_ts <= syncedAt + offset
          \/ last_ts = syncedAt + offset + back

\* What a poll has loaded is half of a timestamp that memory held, as long as
\* no store changes the other half.
PollInv ==
    (hpc = "upper" /\ ~overlap) =>
        /\ Timestamp(Polled) \in held
        /\ ppc = "upper" => Upper(val) = mem.upper

IndInv ==
    /\ TypeOK /\ PhaseInv /\ RangeInv /\ PairInv /\ SyncInv /\ PollInv /\ SyncInTime

-----------------------------------------------------------------------------
(* Quotients and remainders.                                               *)

\* Division with remainder.
LEMMA DivMod ==
    ASSUME NEW n \in Int, NEW d \in Nat \ {0}
    PROVE  /\ n \div d \in Int
           /\ n % d \in 0 .. d - 1
           /\ n = (d * (n \div d)) + (n % d)
  OBVIOUS

\* A natural number divided by a positive one.
LEMMA DivNat ==
    ASSUME NEW n \in Nat, NEW d \in Nat \ {0}
    PROVE  n \div d \in Nat
  OBVIOUS

\* The remainder of a number less than a turn from 0.
LEMMA ModWraps ==
    ASSUME NEW d \in Nat \ {0}, NEW n \in Int, -d <= n, n < d
    PROVE  n % d = IF n < 0 THEN n + d ELSE n
  OBVIOUS

-----------------------------------------------------------------------------
(* Queues.                                                                 *)

\* A value put at the end of a queue.
LEMMA AppendFacts ==
    ASSUME NEW S, NEW q \in Seq(S), NEW x \in S
    PROVE  /\ Append(q, x) \in Seq(S)
           /\ Len(Append(q, x)) = Len(q) + 1 /\ Len(q) \in Nat
           /\ q = <<>> => Append(q, x) = <<x>>
<1>1. \A y : Append(<<>>, y) = <<y>>
  OBVIOUS
<1>2. Append(q, x) \in Seq(S) /\ Len(Append(q, x)) = Len(q) + 1 /\ Len(q) \in Nat
  OBVIOUS
<1> QED
  BY <1>1, <1>2

\* The oldest value taken from it.
LEMMA TailFacts ==
    ASSUME NEW S, NEW q \in Seq(S), q # <<>>
    PROVE  Head(q) \in S /\ Tail(q) \in Seq(S) /\ Len(Tail(q)) <= Len(q)
           /\ Len(q) \in Nat /\ Len(Tail(q)) \in Nat
  OBVIOUS

\* A queue that holds one value.
LEMMA SingleFacts ==
    \A x : <<x>> # <<>> /\ Head(<<x>>) = x /\ Tail(<<x>>) = <<>>
  OBVIOUS

\* The empty queue.
LEMMA EmptyFacts ==
    Len(<<>>) = 0 /\ \A S : <<>> \in Seq(S)
  OBVIOUS

-----------------------------------------------------------------------------
(* Times.                                                                  *)

\* The constants.
LEMMA ConstantFacts ==
    /\ Half \in Nat \ {0} /\ U64 \in Nat \ {0} /\ SYNC_PERIOD_NS \in Nat
    /\ Slots \in Nat \ {0}
    /\ HostOffsets \subseteq Nat /\ HostOffsets # {}
    /\ MaxReadErrors \in Nat /\ MaxNow \in Nat
<1>1. PICK o \in HostOffsets : (2 * (MaxNow + o)) + SYNC_PERIOD_NS < U64
  BY ClockAssumption
<1>2. o \in Nat /\ MaxNow \in Nat /\ SYNC_PERIOD_NS \in Nat /\ U64 \in Nat
  BY ClockAssumption
<1>3. U64 # 0
  BY <1>1, <1>2
<1> QED
  BY <1>3, ClockAssumption

\* Whole numbers have whole words.
LEMMA WordFacts ==
    ASSUME NEW t \in Nat
    PROVE  Lower(t) \in 0 .. Half - 1 /\ Upper(t) \in Nat
<1>1. t % Half \in 0 .. Half - 1
  BY DivMod, ConstantFacts
<1>2. t \div Half \in Nat
  BY DivNat, ConstantFacts
<1> QED
  BY <1>1, <1>2 DEF Lower, Upper

\* Two words make a whole number.
LEMMA TimestampFacts ==
    ASSUME NEW w \in Words
    PROVE  Timestamp(w) \in Nat
<1>1. w.upper \in Nat /\ w.lower \in Nat /\ Half \in Nat
  BY ConstantFacts DEF Words
<1>2. Half * w.upper \in Nat
  BY <1>1
<1> QED
  BY <1>1, <1>2 DEF Timestamp

\* The host's times are natural numbers, 0 (a failed read) is one, and so is
\* what the host captures.
LEMMA HostTimesFacts ==
    /\ HostTimes \subseteq Nat
    /\ 0 \in HostTimes
    /\ \A t \in 0 .. MaxNow, o \in HostOffsets : t + o \in HostTimes
<1>1. HostTimes \subseteq Nat
  BY DEF HostTimes
<1>2. 0 \in HostTimes
  <2>1. PICK o \in HostOffsets : o \in Nat
    BY ConstantFacts
  <2>2. 0 \in Nat /\ 0 <= MaxNow + o
    BY <2>1, ConstantFacts
  <2> QED
    BY <2>2 DEF HostTimes
<1>3. ASSUME NEW t \in 0 .. MaxNow, NEW o \in HostOffsets PROVE t + o \in HostTimes
  <2>1. o \in Nat /\ t \in Nat /\ MaxNow \in Nat /\ t <= MaxNow
    BY ConstantFacts
  <2>2. t + o \in Nat /\ t + o <= MaxNow + o
    BY <2>1
  <2> QED
    BY <2>2 DEF HostTimes
<1> QED
  BY <1>1, <1>2, <1>3

\* A queue of the host's times is one of numbers.
LEMMA HostTimesNat ==
    ASSUME NEW q \in Seq(HostTimes)
    PROVE  q \in Seq(Nat)
<1>1. Len(q) \in Nat /\ q \in [1 .. Len(q) -> HostTimes]
  OBVIOUS
<1>2. q \in [1 .. Len(q) -> Nat]
  BY <1>1, HostTimesFacts
<1>3. \A n \in Nat : [1 .. n -> Nat] \subseteq Seq(Nat)
  OBVIOUS
<1> QED
  BY <1>1, <1>2, <1>3

\* The unsigned difference that the loop tests: it is the difference if the
\* clock is not behind last_ts, and otherwise more than any period.
LEMMA ElapsedFacts ==
    ASSUME TypeOK, RangeInv
    PROVE  /\ Clock \in Nat /\ last_ts \in Nat
           /\ Clock >= last_ts => Elapsed(Clock) = Clock - last_ts
           /\ Clock < last_ts => Elapsed(Clock) > SYNC_PERIOD_NS
<1>1. PICK o \in HostOffsets : offset <= MaxNow + o
  BY DEF RangeInv
<1>2. PICK p \in HostOffsets : last_ts <= (2 * MaxNow) + p
  BY DEF RangeInv
<1>3. /\ o \in Nat /\ p \in Nat /\ MaxNow \in Nat /\ SYNC_PERIOD_NS \in Nat
      /\ U64 \in Nat \ {0}
  BY ConstantFacts
<1>4. /\ (2 * (MaxNow + o)) + SYNC_PERIOD_NS < U64
      /\ (2 * (MaxNow + p)) + SYNC_PERIOD_NS < U64
  BY ClockAssumption
<1>5. now \in Nat /\ now <= MaxNow /\ offset \in Int /\ last_ts \in Nat /\ now + offset >= 0
  BY <1>3 DEF TypeOK, Clock
<1>6. PICK d \in Int : d = (now + offset) - last_ts
  BY <1>5
<1>7. Elapsed(Clock) = d % U64
  BY <1>6 DEF Elapsed, Clock
<1>8. -U64 <= d /\ d < U64 /\ SYNC_PERIOD_NS < d + U64
  BY <1>1, <1>2, <1>3, <1>4, <1>5, <1>6
<1>9. d % U64 = IF d < 0 THEN d + U64 ELSE d
  BY <1>3, <1>8, ModWraps
<1>10. Clock \in Nat /\ Clock = now + offset
  BY <1>5 DEF Clock
<1> QED
  BY <1>5, <1>6, <1>7, <1>8, <1>9, <1>10

-----------------------------------------------------------------------------
(* The invariant holds at the start.                                       *)

\* Nothing has happened yet.
LEMMA InitInd == Init => IndInv
<1> SUFFICES ASSUME Init PROVE IndInv
  OBVIOUS
<1> USE DEF Init
<1>1. TypeOK
  <2>1. /\ rec_buf \in Seq(Nat) /\ Len(rec_buf) <= Slots /\ captured \in Seq(Nat) /\ held \subseteq Nat
        /\ now \in 0 .. MaxNow /\ errors \in 0 .. MaxReadErrors
    BY EmptyFacts, ConstantFacts
  <2>2. mem \in Words /\ polled \in 0 .. Half - 1
    BY ConstantFacts DEF Words
  <2>3. first \in BOOLEAN /\ overlap \in BOOLEAN
    OBVIOUS
  <2>4. /\ Clock >= 0 /\ offset \in Int
        /\ {last_ts, ts_pru, data, val, nano_ts, back, hostAhead} \subseteq Nat
        /\ testedAt \in 0 .. now /\ syncedAt \in 0 .. now
    BY DEF Clock
  <2>5. mpc = "qot" /\ ppc = "off" /\ next = "loop" /\ spc = "none" /\ hpc = "none"
    OBVIOUS
  <2> HIDE DEF Init
  <2> QED
    BY <2>1, <2>2, <2>3, <2>4, <2>5 DEF TypeOK
<1>2. RangeInv
  <2>1. PICK o \in HostOffsets : o \in Nat
    BY ConstantFacts
  <2>2. 0 <= MaxNow + o /\ 0 <= (2 * MaxNow) + o
    BY <2>1, ConstantFacts
  <2> QED
    BY <2>2, HostTimesFacts, EmptyFacts DEF RangeInv, Waiting, Got, Storing
<1>3. PhaseInv /\ PairInv /\ SyncInv /\ PollInv /\ SyncInTime
  BY DEF PhaseInv, PairInv, Nowhere, SyncInv, PollInv, SyncInTime,
         Waiting, Got, Between, Storing
<1> QED
  BY <1>1, <1>2, <1>3 DEF IndInv

-----------------------------------------------------------------------------
(* What a step that keeps to its own part leaves alone.                    *)

\* The part about the values of the times.
LEMMA RangeKept ==
    ASSUME RangeInv, UNCHANGED <<now, offset, ppc, next, last_ts, ts_pru, data, nano_ts,
                                 captured, rec_buf>>
    PROVE  RangeInv'
  BY DEF RangeInv, Waiting, Got, Storing

\* The part about the place of T2.
LEMMA PairKept ==
    ASSUME PairInv, UNCHANGED <<offset, ppc, next, first, ts_pru, data, captured, rec_buf,
                                spc, nano_ts, errors, hostAhead>>
    PROVE  PairInv'
  BY DEF PairInv, InOnePlace, Nowhere, T2, Waiting, Got, Between, Storing

\* The part about the last synchronisation.
LEMMA SyncKept ==
    ASSUME SyncInv, SyncInTime,
           UNCHANGED <<offset, ppc, next, first, last_ts, syncedAt, testedAt, back>>
    PROVE  SyncInv' /\ SyncInTime'
  BY DEF SyncInv, SyncInTime, Waiting, Got, Between, Storing

\* The part about the poll.
LEMMA PollKept ==
    ASSUME PollInv, UNCHANGED <<ppc, val, mem, hpc, polled, held, overlap>>
    PROVE  PollInv'
  BY DEF PollInv, Polled, Timestamp

\* A store that the PRU begins, at any place.
LEMMA PollKeptByPru ==
    ASSUME PollInv, ppc' # "upper", UNCHANGED <<mem, hpc, polled, held, overlap>>
    PROVE  PollInv'
  BY DEF PollInv, Polled, Timestamp

-----------------------------------------------------------------------------
(* Steps of the PRU, and of time.                                          *)

\* Time passes.
LEMMA TickStep == IndInv /\ Tick => IndInv'
<1> SUFFICES ASSUME IndInv, Tick PROVE IndInv'
  OBVIOUS
<1>1. /\ now < MaxNow /\ now' = now + 1
      /\ UNCHANGED <<mpc, offset, ppc, next, last_ts, first, ts_pru, data, val, mem,
                     rec_buf, captured, spc, nano_ts, errors, hpc, polled,
                     testedAt, syncedAt, back, hostAhead, held, overlap>>
  BY DEF Tick, pruVars, sendVars, pollVars, ghosts
<1>2. now \in Nat /\ now' \in 0 .. MaxNow /\ 0 .. now \subseteq 0 .. now'
  BY <1>1, ConstantFacts DEF IndInv, TypeOK
<1>3. TypeOK'
  <2>1. offset \in Int /\ now + offset >= 0 /\ now' + offset >= 0
    BY <1>1, <1>2 DEF IndInv, TypeOK, Clock
  <2> QED
    BY <1>1, <1>2, <2>1 DEF IndInv, TypeOK, Clock
<1>4. RangeInv'
  BY <1>1, <1>2 DEF IndInv, RangeInv, Waiting, Got, Storing
<1>5. PhaseInv' /\ PairInv' /\ SyncInv' /\ SyncInTime' /\ PollInv'
  BY <1>1, PairKept, SyncKept, PollKept DEF IndInv, PhaseInv
<1> QED
  BY <1>3, <1>4, <1>5 DEF IndInv

\* The counter and the clock are started.
LEMMA BootStep == IndInv /\ Boot => IndInv'
<1> SUFFICES ASSUME IndInv, Boot PROVE IndInv'
  OBVIOUS
<1>1. /\ ppc = "boot" /\ ppc' = "loop"
      /\ UNCHANGED <<now, mpc, offset, next, last_ts, first, ts_pru, data, val, mem,
                     rec_buf, captured, spc, nano_ts, errors, hpc, polled,
                     testedAt, syncedAt, back, hostAhead, held, overlap>>
  BY DEF Boot, sendVars, pollVars, ghosts
<1>2. TypeOK' /\ PhaseInv'
  BY <1>1 DEF IndInv, TypeOK, PhaseInv, Clock
<1>3. RangeInv'
  BY <1>1 DEF IndInv, RangeInv, Waiting, Got, Storing
<1>4. first
  BY <1>1 DEF IndInv, PhaseInv
<1>5. PairInv'
  BY <1>1, <1>4 DEF IndInv, PairInv, Waiting, Got, Between, Storing, Nowhere
<1>6. SyncInv' /\ SyncInTime'
  BY <1>1, <1>4 DEF IndInv, SyncInv, SyncInTime, Waiting, Got, Between, Storing
<1>7. PollInv'
  BY <1>1, PollKeptByPru DEF IndInv
<1> QED
  BY <1>2, <1>3, <1>5, <1>6, <1>7 DEF IndInv

\* The loop's test: a synchronisation begins, or the timestamp is stored.
LEMMA LoopStep == IndInv /\ Loop => IndInv'
<1> SUFFICES ASSUME IndInv, Loop PROVE IndInv'
  OBVIOUS
<1>1. /\ ppc = "loop" /\ testedAt' = now
      /\ UNCHANGED <<now, mpc, offset, ts_pru, data, val, mem, rec_buf, captured, spc, nano_ts,
                     errors, hpc, polled, back, hostAhead, held, overlap>>
  BY DEF Loop, sendVars, pollVars
<1>2. /\ Clock \in Nat /\ last_ts \in Nat /\ Clock = now + offset /\ offset \in Int
      /\ Clock >= last_ts => Elapsed(Clock) = Clock - last_ts
      /\ Clock < last_ts => Elapsed(Clock) > SYNC_PERIOD_NS
  BY ElapsedFacts DEF IndInv, TypeOK, Clock
<1>3. now \in Nat /\ now \in 0 .. MaxNow /\ syncedAt \in 0 .. now /\ back \in Nat
  BY ConstantFacts DEF IndInv, TypeOK
<1>4. Clock' = Clock
  BY <1>1 DEF Clock
<1>5. CASE Elapsed(Clock) > SYNC_PERIOD_NS \/ first
  <2>1. /\ ~first' /\ last_ts' = Clock /\ syncedAt' = now /\ ppc' = "sync"
        /\ next' = next
    BY <1>5 DEF Loop
  <2>2. TypeOK'
    <3>1. first' \in BOOLEAN
      BY <1>5 DEF Loop
    <3>2. testedAt' \in 0 .. now' /\ syncedAt' \in 0 .. now'
      BY <1>1, <1>3, <2>1
    <3> QED
      BY <1>1, <1>2, <1>4, <2>1, <3>1, <3>2 DEF IndInv, TypeOK
  <2>3. PhaseInv'
    BY <1>1, <2>1 DEF IndInv, PhaseInv
  <2>4. RangeInv'
    <3>1. PICK o \in HostOffsets : offset <= MaxNow + o
      BY DEF IndInv, RangeInv
    <3>2. last_ts' <= (2 * MaxNow) + o
      BY <1>2, <1>3, <2>1, <3>1, ConstantFacts
    <3> QED
      BY <1>1, <2>1, <3>2 DEF IndInv, RangeInv, Waiting, Got, Storing
  <2>5. PairInv'
    BY <1>1, <2>1 DEF IndInv, PairInv, Nowhere, Waiting, Got, Between, Storing
  <2>6. SyncInv' /\ SyncInTime'
    BY <1>1, <1>2, <2>1 DEF SyncInv, SyncInTime, Waiting, Got, Between, Storing
  <2>7. PollInv'
    BY <1>1, <2>1, PollKeptByPru DEF IndInv
  <2> QED
    BY <2>2, <2>3, <2>4, <2>5, <2>6, <2>7 DEF IndInv
<1>6. CASE ~(Elapsed(Clock) > SYNC_PERIOD_NS \/ first)
  <2>1. /\ ~first /\ next' = "loop" /\ ppc' = "publish"
        /\ UNCHANGED <<first, last_ts, syncedAt>>
    BY <1>6 DEF Loop, PublishThen
  <2>2. TypeOK'
    <3>1. testedAt' \in 0 .. now'
      BY <1>1, <1>3
    <3> QED
      BY <1>1, <1>2, <1>4, <2>1, <3>1 DEF IndInv, TypeOK
  <2>3. PhaseInv'
    BY <1>1, <2>1 DEF IndInv, PhaseInv
  <2>4. RangeInv'
    BY <1>1, <2>1 DEF IndInv, RangeInv, Waiting, Got, Storing
  <2>5. PairInv'
    BY <1>1, <2>1 DEF IndInv, PairInv, Nowhere, Waiting, Got, Between, Storing
  <2>6. SyncInv'
    BY <1>1, <2>1 DEF IndInv, SyncInv, Waiting, Got, Between, Storing
  <2>7. SyncInTime'
    <3>1. \/ back = 0 /\ last_ts <= syncedAt + offset
          \/ last_ts = syncedAt + offset + back
      BY <1>1, <2>1 DEF IndInv, SyncInv, Between
    <3>2. Clock >= last_ts /\ Clock - last_ts <= SYNC_PERIOD_NS
      <4>1. ~(Elapsed(Clock) > SYNC_PERIOD_NS)
        BY <1>6
      <4>2. Clock >= last_ts
        BY <1>2, <4>1
      <4> QED
        BY <1>2, <4>1, <4>2, ConstantFacts
    <3>3. now - syncedAt \in back .. SYNC_PERIOD_NS + back
      BY <1>2, <1>3, <3>1, <3>2, ConstantFacts
    <3> QED
      BY <1>1, <2>1, <3>3 DEF SyncInTime
  <2>8. PollInv'
    BY <1>1, <2>1, PollKeptByPru DEF IndInv
  <2> QED
    BY <2>2, <2>3, <2>4, <2>5, <2>6, <2>7, <2>8 DEF IndInv
<1> QED
  BY <1>5, <1>6

\* T1 is read and T2 is captured.
LEMMA PulseStep == IndInv /\ Pulse => IndInv'
<1> SUFFICES ASSUME IndInv, Pulse PROVE IndInv'
  OBVIOUS
<1>1. /\ ppc = "sync" /\ ts_pru' = Clock /\ ppc' = "wait"
      /\ UNCHANGED <<now, mpc, offset, next, last_ts, first, data, val, mem, rec_buf, spc,
                     nano_ts, errors, hpc, polled, testedAt, syncedAt, back, held, overlap>>
  BY DEF Pulse, sendVars, pollVars
<1>2. PICK o \in HostOffsets : hostAhead' = o /\ captured' = Append(captured, now + o)
  BY DEF Pulse
<1>3. /\ now \in Nat /\ now \in 0 .. MaxNow /\ offset \in Int /\ now + offset \in Nat
      /\ Clock = now + offset /\ o \in Nat
  BY ConstantFacts DEF IndInv, TypeOK, Clock
<1>4. now + o \in HostTimes
  BY <1>3, HostTimesFacts
<1>5. /\ captured' \in Seq(HostTimes)
      /\ captured = <<>> => captured' = <<now + o>>
  BY <1>2, <1>4, AppendFacts DEF IndInv, RangeInv
<1>6. TypeOK'
  <2>1. captured' \in Seq(Nat)
    BY <1>5, HostTimesNat
  <2>2. ts_pru' \in Nat /\ hostAhead' \in Nat /\ Clock' = Clock
    BY <1>1, <1>2, <1>3 DEF Clock
  <2> QED
    BY <1>1, <2>1, <2>2 DEF IndInv, TypeOK
<1>7. PhaseInv'
  BY <1>1 DEF IndInv, PhaseInv
<1>8. RangeInv'
  <2>1. ts_pru' - offset' \in 0 .. now'
    BY <1>1, <1>3
  <2> QED
    BY <1>1, <1>5, <2>1 DEF IndInv, RangeInv
<1>9. PairInv'
  <2>1. Waiting' /\ ~Got' /\ ~Between'
    BY <1>1 DEF Waiting, Got, Between, Storing
  <2>2. ASSUME errors = 0 PROVE InOnePlace'
    <3>1. Nowhere
      BY <1>1, <2>2 DEF IndInv, PairInv, Waiting, Storing
    <3>2. T2' = now + o
      BY <1>1, <1>2, <1>3 DEF T2
    <3> QED
      BY <1>1, <1>5, <3>1, <3>2 DEF Nowhere, InOnePlace
  <2> QED
    BY <1>1, <2>1, <2>2 DEF PairInv
<1>10. SyncInv' /\ SyncInTime'
  BY <1>1 DEF IndInv, SyncInv, SyncInTime, Waiting, Got, Between, Storing
<1>11. PollInv'
  BY <1>1, PollKeptByPru DEF IndInv
<1> QED
  BY <1>6, <1>7, <1>8, <1>9, <1>10, <1>11 DEF IndInv

\* A turn of the wait.
LEMMA WaitReadStep == IndInv /\ WaitRead => IndInv'
<1> SUFFICES ASSUME IndInv, WaitRead PROVE IndInv'
  OBVIOUS
<1>1. /\ ppc = "wait" /\ ppc' = "publish"
      /\ UNCHANGED <<now, mpc, offset, last_ts, first, ts_pru, val, mem, captured, spc, nano_ts,
                     errors, hpc, polled, testedAt, syncedAt, back, hostAhead, held, overlap>>
  BY DEF WaitRead, PublishThen, sendVars, pollVars, ghosts
<1>2. Clock' = Clock
  BY <1>1 DEF Clock
<1>3. Waiting /\ ~Got /\ ~Between /\ ~Between'
  BY <1>1 DEF WaitRead, PublishThen, Waiting, Got, Between, Storing
<1>4. PollInv'
  BY <1>1, PollKeptByPru DEF IndInv
<1>5. /\ next' \in {"wait", "adjust"} /\ data' \in HostTimes /\ rec_buf' \in Seq(HostTimes)
  BY TailFacts DEF IndInv, RangeInv, WaitRead, PublishThen
<1>6. TypeOK'
  <2>1. rec_buf' \in Seq(Nat) /\ data' \in Nat
    BY <1>5, HostTimesNat, HostTimesFacts
  <2>2. Len(rec_buf') <= Slots
    BY TailFacts, ConstantFacts DEF WaitRead, IndInv, TypeOK
  <2> QED
    BY <1>1, <1>2, <1>5, <2>1, <2>2 DEF IndInv, TypeOK
<1>7. PhaseInv'
  BY <1>1, <1>5 DEF IndInv, PhaseInv
<1>8. RangeInv'
  BY <1>1, <1>3, <1>5 DEF IndInv, RangeInv
<1>9. SyncInv' /\ SyncInTime'
  BY <1>1, <1>3, <1>5 DEF IndInv, SyncInv, SyncInTime
<1>10. PairInv'
  <2>1. CASE rec_buf = <<>>
    <3>1. next' = "wait" /\ UNCHANGED <<data, rec_buf>>
      BY <2>1 DEF WaitRead, PublishThen
    <3>2. Waiting' /\ ~Got'
      BY <1>1, <3>1 DEF Waiting, Got, Storing
    <3> QED
      BY <1>1, <1>3, <3>1, <3>2 DEF IndInv, PairInv, InOnePlace, T2
  <2>2. CASE rec_buf # <<>>
    <3>1. next' = "adjust" /\ data' = Head(rec_buf) /\ rec_buf' = Tail(rec_buf)
      BY <2>2 DEF WaitRead, PublishThen
    <3>2. ~Waiting' /\ Got'
      BY <1>1, <3>1 DEF Waiting, Got, Storing
    <3>3. ASSUME errors = 0 PROVE Nowhere' /\ data' = T2'
      <4>1. captured = <<>> /\ spc # "write" /\ rec_buf = <<T2>>
        BY <1>3, <2>2, <3>3 DEF IndInv, PairInv, InOnePlace
      <4>2. T2' = T2
        BY <1>1 DEF T2
      <4> QED
        BY <1>1, <3>1, <4>1, <4>2, SingleFacts DEF Nowhere
    <3> QED
      BY <1>1, <1>3, <3>2, <3>3 DEF PairInv
  <2> QED
    BY <2>1, <2>2
<1> QED
  BY <1>4, <1>6, <1>7, <1>8, <1>9, <1>10 DEF IndInv

\* The clock is read for *ts_mem.
LEMMA PublishStep == IndInv /\ Publish => IndInv'
<1> SUFFICES ASSUME IndInv, Publish PROVE IndInv'
  OBVIOUS
<1>1. /\ ppc = "publish" /\ ppc' = "lower" /\ val' = Clock
      /\ UNCHANGED <<now, mpc, offset, next, last_ts, first, ts_pru, data, mem, rec_buf,
                     captured, spc, nano_ts, errors, hpc, polled, testedAt, syncedAt, back,
                     hostAhead, held, overlap>>
  BY DEF Publish, sendVars, pollVars, ghosts
<1>2. Clock \in Nat /\ Clock' = Clock
  BY <1>1, ElapsedFacts DEF IndInv, Clock
<1>3. TypeOK' /\ PhaseInv'
  BY <1>1, <1>2 DEF IndInv, TypeOK, PhaseInv
<1>4. Waiting' = Waiting /\ Got' = Got /\ Between' = Between
  BY <1>1 DEF Waiting, Got, Between, Storing
<1>5. RangeInv'
  BY <1>1, <1>4 DEF IndInv, RangeInv
<1>6. PairInv'
  BY <1>1, <1>4 DEF IndInv, PairInv, InOnePlace, Nowhere, T2
<1>7. SyncInv' /\ SyncInTime'
  BY <1>1, <1>4 DEF IndInv, SyncInv, SyncInTime
<1>8. PollInv'
  BY <1>1, PollKeptByPru DEF IndInv
<1> QED
  BY <1>3, <1>5, <1>6, <1>7, <1>8 DEF IndInv

\* The lower word is stored.
LEMMA StoreLowerStep == IndInv /\ StoreLower => IndInv'
<1> SUFFICES ASSUME IndInv, StoreLower PROVE IndInv'
  OBVIOUS
<1>1. /\ ppc = "lower" /\ ppc' = "upper" /\ mem' = [mem EXCEPT !.lower = Lower(val)]
      /\ UNCHANGED <<now, mpc, offset, next, last_ts, first, ts_pru, data, val, rec_buf,
                     captured, spc, nano_ts, errors, hpc, polled, testedAt, syncedAt, back,
                     hostAhead>>
  BY DEF StoreLower, sendVars, pollVars
<1>2. /\ val \in Nat /\ Lower(val) \in 0 .. Half - 1 /\ Upper(val) \in Nat
  BY WordFacts DEF IndInv, TypeOK
<1>3. mem' \in Words /\ mem'.upper = mem.upper
  BY <1>1, <1>2 DEF IndInv, TypeOK, Words
<1>4. held \subseteq held' /\ held' \subseteq held \union {val}
  BY DEF StoreLower
<1>5. overlap' \in BOOLEAN
  BY DEF StoreLower, IndInv, TypeOK
<1>6. TypeOK'
  BY <1>1, <1>2, <1>3, <1>4, <1>5 DEF IndInv, TypeOK, Clock
<1>7. PhaseInv'
  BY <1>1 DEF IndInv, PhaseInv
<1>8. Waiting' = Waiting /\ Got' = Got /\ Between' = Between
  BY <1>1 DEF Waiting, Got, Between, Storing
<1>9. RangeInv'
  BY <1>1, <1>8 DEF IndInv, RangeInv
<1>10. PairInv'
  BY <1>1, <1>8 DEF IndInv, PairInv, InOnePlace, Nowhere, T2
<1>11. SyncInv' /\ SyncInTime'
  BY <1>1, <1>8 DEF IndInv, SyncInv, SyncInTime
<1>12. PollInv'
  <2> SUFFICES ASSUME hpc' = "upper", ~overlap'
               PROVE  Timestamp(Polled)' \in held' /\ (Upper(val) = mem.upper)'
    BY DEF PollInv
  <2>1. hpc = "upper" /\ ~overlap /\ Upper(val) = mem.upper
    BY <1>1 DEF StoreLower
  <2>2. Timestamp(Polled) \in held
    BY <2>1 DEF IndInv, PollInv
  <2>3. Timestamp(Polled)' = Timestamp(Polled)
    BY <1>1, <1>3 DEF Timestamp, Polled
  <2>4. Upper(val)' = Upper(val)
    BY <1>1 DEF Upper
  <2> QED
    BY <1>3, <1>4, <2>1, <2>2, <2>3, <2>4
<1> QED
  BY <1>6, <1>7, <1>9, <1>10, <1>11, <1>12 DEF IndInv

\* The upper word is stored.
LEMMA StoreUpperStep == IndInv /\ StoreUpper => IndInv'
<1> SUFFICES ASSUME IndInv, StoreUpper PROVE IndInv'
  OBVIOUS
<1>1. /\ ppc = "upper" /\ ppc' = next /\ val' = 0
      /\ mem' = [mem EXCEPT !.upper = Upper(val)]
      /\ UNCHANGED <<now, mpc, offset, next, last_ts, first, ts_pru, data, rec_buf,
                     captured, spc, nano_ts, errors, hpc, polled, testedAt, syncedAt, back,
                     hostAhead, held, overlap>>
  BY DEF StoreUpper, sendVars, pollVars, ghosts
<1>2. next \in {"loop", "wait", "adjust"} /\ mpc \notin {"qot", "exec"}
  BY <1>1 DEF IndInv, PhaseInv
<1>3. val \in Nat /\ Upper(val) \in Nat
  BY WordFacts DEF IndInv, TypeOK
<1>4. mem' \in Words /\ mem'.upper = Upper(val)
  BY <1>1, <1>3 DEF IndInv, TypeOK, Words
<1>5. TypeOK'
  BY <1>1, <1>2, <1>4 DEF IndInv, TypeOK, Clock
<1>6. PhaseInv'
  BY <1>1, <1>2 DEF IndInv, PhaseInv
<1>7. Waiting' = Waiting /\ Got' = Got /\ Between' = Between
  BY <1>1, <1>2 DEF Waiting, Got, Between, Storing
<1>8. RangeInv'
  BY <1>1, <1>7 DEF IndInv, RangeInv
<1>9. PairInv'
  BY <1>1, <1>7 DEF IndInv, PairInv, InOnePlace, Nowhere, T2
<1>10. SyncInv' /\ SyncInTime'
  <2>1. ppc # "sync" /\ ppc' # "sync" /\ ppc' \notin {"publish", "lower", "upper"}
    BY <1>1, <1>2
  <2> QED
    BY <1>1, <1>7, <2>1 DEF IndInv, SyncInv, SyncInTime
<1>11. PollInv'
  <2> SUFFICES ASSUME hpc' = "upper", ~overlap' PROVE Timestamp(Polled)' \in held'
    BY <1>1, <1>2 DEF PollInv
  <2>1. hpc = "upper" /\ ~overlap
    BY <1>1
  <2>2. Timestamp(Polled) \in held /\ Upper(val) = mem.upper
    BY <1>1, <2>1 DEF IndInv, PollInv
  <2>3. Timestamp(Polled)' = Timestamp(Polled)
    BY <1>1, <1>4, <2>2 DEF Timestamp, Polled
  <2> QED
    BY <1>1, <2>2, <2>3
<1> QED
  BY <1>5, <1>6, <1>8, <1>9, <1>10, <1>11 DEF IndInv

\* The jump: by T2 less T1, so that the clock never falls below 0 and is the
\* host's if T2 is the one of T1.
LEMMA AdjustStep == IndInv /\ Adjust => IndInv'
<1> SUFFICES ASSUME IndInv, Adjust PROVE IndInv'
  OBVIOUS
<1>1. /\ ppc = "adjust" /\ ppc' = "publish" /\ next' = "loop"
      /\ offset' = offset + (data - ts_pru)
      /\ UNCHANGED <<now, mpc, last_ts, first, ts_pru, data, val, mem, rec_buf, captured, spc,
                     nano_ts, errors, hpc, polled, testedAt, syncedAt, hostAhead, held,
                     overlap>>
  BY DEF Adjust, AdjustBy, PublishThen, sendVars, pollVars
<1>2. back' = IF data - ts_pru < 0 THEN -(data - ts_pru) ELSE 0
  BY DEF Adjust, AdjustBy
<1>3. Got /\ ~Waiting /\ ~Got' /\ ~Waiting' /\ Between'
  BY <1>1 DEF Waiting, Got, Between, Storing
<1>4. /\ now \in Nat /\ offset \in Int /\ data \in Nat /\ ts_pru \in Nat /\ last_ts \in Nat
      /\ syncedAt \in Nat /\ testedAt \in Nat /\ hostAhead \in Nat /\ MaxNow \in Nat
  BY ConstantFacts DEF IndInv, TypeOK
<1>5. ts_pru - offset \in 0 .. now
  BY <1>3 DEF IndInv, RangeInv
<1>6. /\ offset' \in Int /\ now + offset' \in Nat /\ offset' <= data /\ back' \in Nat
      /\ data >= ts_pru => back' = 0 /\ offset' >= offset
      /\ data < ts_pru => offset' + back' = offset
  BY <1>1, <1>2, <1>4, <1>5
<1>7. TypeOK'
  BY <1>1, <1>6 DEF IndInv, TypeOK, Clock
<1>8. PhaseInv'
  BY <1>1 DEF IndInv, PhaseInv
<1>9. RangeInv'
  <2>1. PICK o \in HostOffsets : data <= MaxNow + o
    BY DEF IndInv, RangeInv, HostTimes
  <2>2. offset' <= MaxNow + o
    BY <1>4, <1>6, <2>1, ConstantFacts
  <2> QED
    BY <1>1, <1>3, <2>2 DEF IndInv, RangeInv
<1>10. PairInv'
  <2> SUFFICES ASSUME errors = 0 PROVE Nowhere' /\ offset' = hostAhead'
    BY <1>1, <1>3 DEF PairInv
  <2>1. Nowhere /\ data = (ts_pru - offset) + hostAhead
    BY <1>3 DEF IndInv, PairInv, T2
  <2> QED
    BY <1>1, <1>4, <2>1 DEF Nowhere
<1>11. SyncInv' /\ SyncInTime'
  <2>1. last_ts = syncedAt + offset /\ testedAt = syncedAt
    BY <1>3 DEF IndInv, SyncInv
  <2>2. \/ back' = 0 /\ last_ts' <= syncedAt' + offset'
        \/ last_ts' = syncedAt' + offset' + back'
    <3>1. CASE data >= ts_pru
      BY <1>1, <1>4, <1>6, <2>1, <3>1
    <3>2. CASE data < ts_pru
      <4>1. last_ts = syncedAt + (offset' + back')
        BY <1>6, <2>1, <3>2
      <4>2. last_ts = (syncedAt + offset') + back'
        BY <1>4, <1>6, <4>1
      <4> QED
        BY <1>1, <4>2
    <3> QED
      BY <1>4, <3>1, <3>2
  <2> QED
    BY <1>1, <1>3, <2>1, <2>2 DEF SyncInv, SyncInTime
<1>12. PollInv'
  BY <1>1, PollKeptByPru DEF IndInv
<1> QED
  BY <1>7, <1>8, <1>9, <1>10, <1>11, <1>12 DEF IndInv

-----------------------------------------------------------------------------
(* Steps of the host.                                                      *)

\* The steps of main, and its failure: they touch the PRU only to start it and
\* the sender only to create it.
LEMMA MainStep == IndInv /\ (Main \/ MainFail) => IndInv'
<1> SUFFICES ASSUME IndInv, Main \/ MainFail PROVE IndInv'
  OBVIOUS
<1>1. UNCHANGED <<now, offset, next, last_ts, first, ts_pru, data, val, mem, rec_buf,
                  captured, nano_ts, errors, polled, testedAt, syncedAt, back, hostAhead,
                  held, overlap>>
  BY DEF Main, MainFail, InitQot, MainExec, MainCreatePoller, MainCreateSender,
         pruVars, sendVars, pollVars, ghosts
<1>2. /\ \/ ppc' = ppc
         \/ ppc = "off" /\ ppc' = "boot"
      /\ \/ spc' = spc
         \/ spc = "none" /\ spc' = "read"
      /\ \/ hpc' = hpc
         \/ hpc' = "sleep"
      /\ mpc' \in {"qot", "exec", "create1", "create2", "wait", "failed"}
  BY DEF IndInv, TypeOK, PhaseInv, Main, MainFail, Goto, InitQot, MainExec,
         MainCreatePoller, MainCreateSender, pruVars, sendVars, pollVars
<1>3. PhaseInv'
  BY <1>1 DEF IndInv, PhaseInv, Main, MainFail, Goto, InitQot, MainExec,
              MainCreatePoller, MainCreateSender, pruVars, sendVars, pollVars
<1>4. TypeOK'
  BY <1>1, <1>2 DEF IndInv, TypeOK, Clock
<1>5. Waiting' = Waiting /\ Got' = Got /\ Between' = Between
  BY <1>1, <1>2 DEF Waiting, Got, Between, Storing
<1>6. RangeInv'
  BY <1>1, <1>5 DEF IndInv, RangeInv
<1>7. PairInv'
  <2>1. /\ (spc' = "write") = (spc = "write")
    BY <1>2
  <2> QED
    BY <1>1, <1>5, <2>1 DEF IndInv, PairInv, InOnePlace, Nowhere, T2
<1>8. SyncInv' /\ SyncInTime'
  BY <1>1, <1>2, <1>5 DEF IndInv, SyncInv, SyncInTime
<1>9. PollInv'
  BY <1>1, <1>2 DEF IndInv, PollInv, Timestamp, Polled
<1> QED
  BY <1>3, <1>4, <1>6, <1>7, <1>8, <1>9 DEF IndInv

\* The sender reads the oldest T2.
LEMMA SendReadStep == IndInv /\ SendRead => IndInv'
<1> SUFFICES ASSUME IndInv, SendRead PROVE IndInv'
  OBVIOUS
<1>1. /\ spc = "read" /\ spc' = "write" /\ captured # <<>>
      /\ nano_ts' = Head(captured) /\ captured' = Tail(captured)
      /\ UNCHANGED <<now, mpc, offset, ppc, next, last_ts, first, ts_pru, data, val, mem,
                     rec_buf, errors, hpc, polled, testedAt, syncedAt, back, hostAhead,
                     held, overlap>>
  BY DEF SendRead, pruVars, pollVars, ghosts
<1>2. nano_ts' \in HostTimes /\ captured' \in Seq(HostTimes)
  BY <1>1, TailFacts DEF IndInv, RangeInv
<1>3. TypeOK'
  <2>1. nano_ts' \in Nat /\ captured' \in Seq(Nat)
    BY <1>2, HostTimesNat, HostTimesFacts
  <2> QED
    BY <1>1, <2>1 DEF IndInv, TypeOK, Clock
<1>4. PhaseInv'
  BY <1>1 DEF IndInv, PhaseInv
<1>5. Waiting' = Waiting /\ Got' = Got /\ Between' = Between /\ T2' = T2
  BY <1>1 DEF Waiting, Got, Between, Storing, T2
<1>6. RangeInv'
  BY <1>1, <1>2, <1>5 DEF IndInv, RangeInv
<1>7. PairInv'
  <2> SUFFICES ASSUME errors = 0 PROVE Waiting /\ InOnePlace' /\ ~Got /\ ~Between
    BY <1>1, <1>5 DEF PairInv
  <2>1. Waiting
    BY <1>1 DEF IndInv, PairInv, Nowhere
  <2>2. captured = <<T2>> /\ rec_buf = <<>>
    BY <1>1, <2>1 DEF IndInv, PairInv, InOnePlace
  <2>3. InOnePlace'
    BY <1>1, <1>5, <2>2, SingleFacts DEF InOnePlace
  <2>4. ~Got /\ ~Between
    BY <2>1 DEF Waiting, Got, Between, Storing
  <2> QED
    BY <2>1, <2>3, <2>4
<1>8. SyncInv' /\ SyncInTime' /\ PollInv'
  BY <1>1, SyncKept, PollKept DEF IndInv
<1> QED
  BY <1>3, <1>4, <1>6, <1>7, <1>8 DEF IndInv

\* A read fails.
LEMMA SendReadErrorStep == IndInv /\ SendReadError => IndInv'
<1> SUFFICES ASSUME IndInv, SendReadError PROVE IndInv'
  OBVIOUS
<1>1. /\ spc = "read" /\ spc' = "write" /\ nano_ts' = 0
      /\ errors < MaxReadErrors /\ errors' = errors + 1
      /\ UNCHANGED <<now, mpc, offset, ppc, next, last_ts, first, ts_pru, data, val, mem,
                     rec_buf, captured, hpc, polled, testedAt, syncedAt, back, hostAhead,
                     held, overlap>>
  BY DEF SendReadError, pruVars, pollVars, ghosts
<1>2. errors \in Nat /\ errors' \in 0 .. MaxReadErrors /\ errors' # 0
  BY <1>1, ConstantFacts DEF IndInv, TypeOK
<1>3. TypeOK'
  BY <1>1, <1>2 DEF IndInv, TypeOK, Clock
<1>4. PhaseInv'
  BY <1>1 DEF IndInv, PhaseInv
<1>5. RangeInv'
  BY <1>1, HostTimesFacts DEF IndInv, RangeInv, Waiting, Got, Storing
<1>6. PairInv'
  BY <1>2 DEF PairInv
<1>7. SyncInv' /\ SyncInTime' /\ PollInv'
  BY <1>1, SyncKept, PollKept DEF IndInv
<1> QED
  BY <1>3, <1>4, <1>5, <1>6, <1>7 DEF IndInv

\* What was read is sent.
LEMMA SendWriteStep == IndInv /\ SendWrite => IndInv'
<1> SUFFICES ASSUME IndInv, SendWrite PROVE IndInv'
  OBVIOUS
<1>1. /\ spc = "write" /\ spc' = "read"
      /\ rec_buf' = IF Len(rec_buf) < Slots THEN Append(rec_buf, nano_ts) ELSE rec_buf
      /\ UNCHANGED <<now, mpc, offset, ppc, next, last_ts, first, ts_pru, data, val, mem,
                     captured, nano_ts, errors, hpc, polled, testedAt, syncedAt, back,
                     hostAhead, held, overlap>>
  BY DEF SendWrite, pruVars, pollVars, ghosts
<1>2. /\ rec_buf' \in Seq(HostTimes)
      /\ rec_buf = <<>> => rec_buf' = <<nano_ts>>
  BY <1>1, AppendFacts, EmptyFacts, ConstantFacts DEF IndInv, RangeInv
<1>3. TypeOK'
  <2>1. rec_buf' \in Seq(Nat)
    BY <1>2, HostTimesNat
  <2>2. Len(rec_buf') <= Slots
    BY <1>1, AppendFacts, ConstantFacts DEF IndInv, TypeOK, RangeInv
  <2> QED
    BY <1>1, <2>1, <2>2 DEF IndInv, TypeOK, Clock
<1>4. PhaseInv'
  BY <1>1 DEF IndInv, PhaseInv
<1>5. Waiting' = Waiting /\ Got' = Got /\ Between' = Between /\ T2' = T2
  BY <1>1 DEF Waiting, Got, Between, Storing, T2
<1>6. RangeInv'
  BY <1>1, <1>2, <1>5 DEF IndInv, RangeInv
<1>7. PairInv'
  <2> SUFFICES ASSUME errors = 0 PROVE Waiting /\ InOnePlace' /\ ~Got /\ ~Between
    BY <1>1, <1>5 DEF PairInv
  <2>1. Waiting
    BY <1>1 DEF IndInv, PairInv, Nowhere
  <2>2. captured = <<>> /\ nano_ts = T2 /\ rec_buf = <<>>
    BY <1>1, <2>1 DEF IndInv, PairInv, InOnePlace
  <2>3. InOnePlace'
    BY <1>1, <1>2, <1>5, <2>2 DEF InOnePlace
  <2>4. ~Got /\ ~Between
    BY <2>1 DEF Waiting, Got, Between, Storing
  <2> QED
    BY <2>1, <2>3, <2>4
<1>8. SyncInv' /\ SyncInTime' /\ PollInv'
  BY <1>1, SyncKept, PollKept DEF IndInv
<1> QED
  BY <1>3, <1>4, <1>6, <1>7, <1>8 DEF IndInv

\* A poll begins: what it has loaded is the lower word of a timestamp in memory.
LEMMA PollLowerStep == IndInv /\ PollLower => IndInv'
<1> SUFFICES ASSUME IndInv, PollLower PROVE IndInv'
  OBVIOUS
<1>1. /\ hpc' = "upper" /\ polled' = mem.lower /\ held' = {Timestamp(mem)}
      /\ overlap' = (ppc = "upper" /\ Upper(val) # mem.upper)
      /\ UNCHANGED <<now, mpc, offset, ppc, next, last_ts, first, ts_pru, data, val, mem,
                     rec_buf, captured, spc, nano_ts, errors, testedAt, syncedAt, back,
                     hostAhead>>
  BY DEF PollLower, pruVars, sendVars
<1>2. TypeOK'
  <2>1. Timestamp(mem) \in Nat /\ mem.lower \in 0 .. Half - 1
    BY TimestampFacts DEF IndInv, TypeOK, Words
  <2>2. held' \subseteq Nat /\ polled' \in 0 .. Half - 1
    BY <1>1, <2>1
  <2>3. overlap' \in BOOLEAN
    BY <1>1
  <2> QED
    BY <1>1, <2>2, <2>3 DEF IndInv, TypeOK, Clock
<1>3. PhaseInv'
  BY <1>1 DEF IndInv, PhaseInv
<1>4. RangeInv' /\ PairInv' /\ SyncInv' /\ SyncInTime'
  BY <1>1, RangeKept, PairKept, SyncKept DEF IndInv
<1>5. PollInv'
  <2>1. Timestamp(Polled)' = Timestamp(mem)
    BY <1>1 DEF Timestamp, Polled
  <2>2. Upper(val)' = Upper(val)
    BY <1>1 DEF Upper
  <2> QED
    BY <1>1, <2>1, <2>2 DEF PollInv
<1> QED
  BY <1>2, <1>3, <1>4, <1>5 DEF IndInv

\* A poll ends.
LEMMA PollUpperStep == IndInv /\ PollUpper => IndInv'
<1> SUFFICES ASSUME IndInv, PollUpper PROVE IndInv'
  OBVIOUS
<1>1. /\ hpc' = "sleep" /\ polled' = 0 /\ held' = {} /\ overlap' = FALSE
      /\ UNCHANGED <<now, mpc, offset, ppc, next, last_ts, first, ts_pru, data, val, mem,
                     rec_buf, captured, spc, nano_ts, errors, testedAt, syncedAt, back,
                     hostAhead>>
  BY DEF PollUpper, pruVars, sendVars
<1>2. 0 \in 0 .. Half - 1
  BY ConstantFacts
<1>3. TypeOK' /\ PhaseInv'
  BY <1>1, <1>2 DEF IndInv, TypeOK, PhaseInv, Clock
<1>4. RangeInv' /\ PairInv' /\ SyncInv' /\ SyncInTime'
  BY <1>1, RangeKept, PairKept, SyncKept DEF IndInv
<1>5. PollInv'
  BY <1>1 DEF PollInv
<1> QED
  BY <1>3, <1>4, <1>5 DEF IndInv

-----------------------------------------------------------------------------
(* The invariant, and what follows from it.                                *)

\* Every step keeps it, and a step that changes nothing.
LEMMA NextInd == IndInv /\ [Next]_vars => IndInv'
<1> SUFFICES ASSUME IndInv, [Next]_vars PROVE IndInv'
  OBVIOUS
<1>1. CASE Tick
  BY <1>1, TickStep
<1>2. CASE Pru
  BY <1>2, BootStep, LoopStep, PulseStep, WaitReadStep, PublishStep, StoreLowerStep,
     StoreUpperStep, AdjustStep DEF Pru
<1>3. CASE Host
  BY <1>3, MainStep, SendReadStep, SendReadErrorStep, SendWriteStep, PollLowerStep,
     PollUpperStep DEF Host
<1>4. CASE UNCHANGED vars
  <2>1. UNCHANGED <<now, mpc, offset, ppc, next, last_ts, first, ts_pru, data, val, mem,
                    rec_buf, captured, spc, nano_ts, errors, hpc, polled, testedAt,
                    syncedAt, back, hostAhead, held, overlap>>
    BY <1>4 DEF vars, pruVars, sendVars, pollVars, ghosts
  <2>2. TypeOK' /\ PhaseInv'
    BY <2>1 DEF IndInv, TypeOK, PhaseInv, Clock
  <2> QED
    BY <2>1, <2>2, RangeKept, PairKept, SyncKept, PollKept DEF IndInv
<1> QED
  BY <1>1, <1>2, <1>3, <1>4 DEF Next

\* The inductive invariant.
THEOREM IndInvHolds == Spec => []IndInv
  BY InitInd, NextInd, PTL DEF Spec

\* Every variable has its type, and the clock and its timestamps never go below
\* 0, however far back a jump takes it (pru_main.c:123).
THEOREM TypeCorrect == Spec => []TypeOK
<1>1. IndInv => TypeOK
  BY DEF IndInv
<1> QED
  BY <1>1, IndInvHolds, PTL

\* As long as no read() has failed, the clock the PRU publishes between two
\* synchronisations is the host's at the capture of the last pulse, carried on,
\* whatever steps the host's clock makes (pru_main.c:109-123).
THEOREM PublishesHostClock == Spec => []ClockIsHosts
<1>1. IndInv => ClockIsHosts
  BY DEF IndInv, PairInv, ClockIsHosts, Between
<1> QED
  BY <1>1, IndInvHolds, PTL

\* The loop goes on without a synchronisation only as long as the period and
\* what the clock has jumped back (pru_main.c:104-106).
THEOREM KeepsSynchronising == Spec => []SyncInTime
<1>1. IndInv => SyncInTime
  BY DEF IndInv
<1> QED
  BY <1>1, IndInvHolds, PTL

\* A poll that no store of a new upper word overlaps gets a timestamp that was
\* in memory at some moment of the poll (host_main.c:53, pru_main.c:118,127).
THEOREM PollsAreExact == Spec => PollExact
<1>1. IndInv /\ PollUpper /\ ~overlap => Timestamp(Polled) \in held
  BY DEF IndInv, PollInv, PollUpper
<1> QED
  BY <1>1, IndInvHolds, PTL DEF PollExact

=============================================================================
