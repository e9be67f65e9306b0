---------------------------- MODULE IepTimeProofs ----------------------------
(***************************************************************************)
(* Theorems about IepTime for counters of every width, every rate, and     *)
(* behaviours of every length.                                             *)
(***************************************************************************)
EXTENDS IepTime, TLAPS

-----------------------------------------------------------------------------
(* The inductive invariant.                                                *)

\* The counter as it was last read.
CounterInv == last_iep_cnt = readAt % Wrap

\* A sample not yet used is a reading of the clock as it still stands.
SampleInv ==
    sample # NoSample =>
        /\ sample.at \in Nat /\ sample.err \in Int /\ sample.rollovers \in Nat
        /\ sample.ts_ns \in Int
        /\ sample.external = HostTime(sample.at) + sample.err
        /\ ~late => sample.ts_ns = Mult * (sample.at - sample.rollovers) + offset

\* The offset makes up for the difference at the last sample.
SyncInv ==
    \A s \in synced :
        /\ s.err \in Int /\ s.rollovers \in Nat
        /\ ~late => offset = HostOffset + s.err + (Mult * s.rollovers)

IndInv == TypeOK /\ LagsByRollovers /\ CounterInv /\ SampleInv /\ SyncInv

-----------------------------------------------------------------------------
(* Quotients, remainders and products of integers.                         *)

\* Division with remainder.
LEMMA DivMod ==
    ASSUME NEW n \in Int, NEW d \in Nat \ {0}
    PROVE  /\ n \div d \in Int
           /\ n % d \in 0 .. d - 1
           /\ n = (d * (n \div d)) + (n % d)
  OBVIOUS

\* The same, with names for the quotient and the remainder.
LEMMA DivModNames ==
    ASSUME NEW n \in Int, NEW d \in Nat \ {0}
    PROVE  \E q \in Int, r \in 0 .. d - 1 :
              n = (d * q) + r /\ n \div d = q /\ n % d = r
<1>1. n \div d \in Int /\ n % d \in 0 .. d - 1 /\ n = (d * (n \div d)) + (n % d)
  BY DivMod
<1> WITNESS n \div d \in Int, n % d \in 0 .. d - 1
<1> QED
  BY <1>1

\* Multiplication distributes over addition and subtraction.
LEMMA Distribute ==
    ASSUME NEW a \in Int, NEW b \in Int, NEW x \in Int
    PROVE  /\ x * (a + b) = (x * a) + (x * b)
           /\ x * (a - b) = (x * a) - (x * b)
           /\ x * a \in Int
           /\ x * a = a * x
  OBVIOUS

\* A positive multiple of d is at least d.
LEMMA AtLeastOnce ==
    ASSUME NEW d \in Nat \ {0}, NEW k \in Int, k >= 1
    PROVE  d * k >= d
  OBVIOUS

\* Multiplication by a natural number is monotonic.
LEMMA Monotonic ==
    ASSUME NEW d \in Nat, NEW a \in Int, NEW b \in Int, a <= b
    PROVE  d * a <= d * b
  OBVIOUS


\* The remainder of a number that is small enough is the number.
LEMMA ModSmall ==
    ASSUME NEW d \in Nat \ {0}, NEW r \in 0 .. d - 1
    PROVE  r % d = r
  OBVIOUS

-----------------------------------------------------------------------------
(* A read of the clock.                                                    *)

\* What the roll-over branch does not count.
Lost == IF IEP_CNT < last_iep_cnt THEN 1 ELSE 0

\* A read counts at most what has been counted since the last one, less one
\* at a roll-over; and exactly that if no whole turn has passed.
LEMMA CountedGap ==
    ASSUME TypeOK, CounterInv
    PROVE  /\ cycles - readAt \in Nat /\ Lost \in 0 .. 1
           /\ Counted \in Nat /\ Counted <= (cycles - readAt) - Lost
           /\ cycles - readAt < Wrap => Counted = (cycles - readAt) - Lost
<1>1. /\ Wrap \in Nat \ {0} /\ cycles \in Int /\ readAt \in Int
      /\ last_iep_cnt = readAt % Wrap
  BY IepAssumption DEF TypeOK, CounterInv
<1>2. PICK g \in Nat : g = cycles - readAt
  BY DEF TypeOK
<1>3. PICK qc \in Int, c \in 0 .. Wrap - 1 : cycles = (Wrap * qc) + c /\ cycles % Wrap = c
  BY <1>1, DivModNames
<1>4. PICK ql \in Int, l \in 0 .. Wrap - 1 : readAt = (Wrap * ql) + l /\ readAt % Wrap = l
  BY <1>1, DivModNames
<1>5. PICK t \in Int : t = qc - ql
  OBVIOUS
<1>6. PICK turns \in Int : turns = Wrap * t /\ g = (turns + c) - l
  <2>1. Wrap * t = (Wrap * qc) - (Wrap * ql) /\ Wrap * qc \in Int /\ Wrap * ql \in Int
    BY <1>1, <1>5, Distribute
  <2> QED
    BY <1>2, <1>3, <1>4, <2>1
<1>7. /\ t >= 1 => turns >= Wrap
      /\ t >= 2 => turns >= 2 * Wrap
      /\ t <= 0 => turns <= 0
      /\ t <= -1 => turns <= -Wrap
      /\ t = 0 => turns = 0
      /\ t = 1 => turns = Wrap
  <2>1. /\ Wrap * (t - 1) = turns - Wrap
        /\ Wrap * (-t) = -turns
        /\ Wrap * (1 - t) = Wrap - turns
    BY <1>1, <1>6, Distribute
  <2>2. /\ t >= 1 => Wrap * t >= Wrap
        /\ t - 1 >= 1 => Wrap * (t - 1) >= Wrap
        /\ 1 - t >= 1 => Wrap * (1 - t) >= Wrap
        /\ -t >= 1 => Wrap * (-t) >= Wrap
    BY <1>1, AtLeastOnce
  <2> QED
    BY <1>1, <1>6, <2>1, <2>2
<1>8. IEP_CNT = c /\ last_iep_cnt = l
  BY <1>1, <1>3, <1>4 DEF IEP_CNT
<1>9. CASE c < l
  <2>1. t >= 1 /\ (g < Wrap => t = 1)
    BY <1>1, <1>6, <1>7, <1>9
  <2>2. Counted = ((Wrap - 1) - l) + c /\ Lost = 1
    BY <1>8, <1>9 DEF Counted, Lost
  <2> QED
    BY <1>1, <1>2, <1>6, <1>7, <2>1, <2>2
<1>10. CASE ~(c < l)
  <2>1. t >= 0 /\ (g < Wrap => t = 0)
    BY <1>1, <1>6, <1>7, <1>10
  <2>2. Counted = c - l /\ Lost = 0
    BY <1>8, <1>10 DEF Counted, Lost
  <2> QED
    BY <1>1, <1>2, <1>6, <1>7, <1>10, <2>1, <2>2
<1> QED
  BY <1>9, <1>10

\* What a read adds to the clock: at most the time passed, less one count at a
\* roll-over; and exactly that unless the product has overflowed.
LEMMA ReadAdds ==
    ASSUME TypeOK, CounterInv
    PROVE  /\ IEP_CNT_TO_NS(Counted) \in Nat
           /\ IEP_CNT_TO_NS(Counted) <= Mult * ((cycles - readAt) - Lost)
           /\ (cycles - readAt) * Mult < Wrap =>
                  IEP_CNT_TO_NS(Counted) = Mult * ((cycles - readAt) - Lost)
<1>1. Wrap \in Nat \ {0} /\ Mult \in Nat
  BY IepAssumption
<1>2. PICK g \in Nat, lost \in 0 .. 1, n \in Nat :
          /\ g = cycles - readAt /\ lost = Lost /\ n = Counted
          /\ n <= g - lost
          /\ g < Wrap => n = g - lost
  BY CountedGap
<1>3. PICK p \in Nat : p = n * Mult /\ p = Mult * n
  BY <1>1
<1>4. /\ p % Wrap \in Nat /\ p % Wrap <= p
      /\ p < Wrap => p % Wrap = p
  BY <1>1, <1>3
<1>5. p <= Mult * (g - lost)
  BY <1>1, <1>2, <1>3, Monotonic
<1>6. ASSUME g * Mult < Wrap PROVE p % Wrap = Mult * (g - lost)
  <2>1. CASE Mult = 0
    BY <1>1, <1>3, <1>4, <2>1
  <2>2. CASE Mult >= 1
    <3>1. Mult * (g - lost) <= Mult * g /\ Mult * g = g * Mult /\ Mult * g \in Int
      BY <1>1, <1>2, Monotonic, Distribute
    <3>2. g <= g * Mult
      BY <1>1, <2>2
    <3>3. n = g - lost
      BY <1>1, <1>2, <1>6, <3>1, <3>2
    <3>4. p < Wrap
      BY <1>1, <1>3, <1>5, <1>6, <3>1, <3>3
    <3> QED
      BY <1>3, <1>4, <3>3, <3>4
  <2> QED
    BY <1>1, <2>1, <2>2
<1>7. IEP_CNT_TO_NS(Counted) = p % Wrap
  <2>1. Counted * Mult = p
    BY <1>2, <1>3
  <2> QED
    BY <2>1 DEF IEP_CNT_TO_NS
<1>8. Mult * (g - lost) \in Int
  BY <1>1, Distribute
<1>9. p % Wrap <= Mult * (g - lost)
  BY <1>3, <1>4, <1>5, <1>8
<1> QED
  <2>1. cycles - readAt = g /\ Lost = lost
    BY <1>2
  <2> QED
    BY <2>1, <1>4, <1>6, <1>7, <1>9, Zenon

\* The parts of the invariant a read disturbs, and what it returns.
LEMMA ReadStep ==
    ASSUME IndInv, IepGetTime
    PROVE  /\ LagsByRollovers' /\ CounterInv'
           /\ late' \in BOOLEAN /\ (late => late')
           /\ rollovers' \in Nat /\ ts_ns' \in Nat /\ readAt' = cycles
           /\ last_iep_cnt' \in 0 .. Wrap - 1
           /\ result' = ts_ns' + offset
<1>1. /\ TypeOK /\ LagsByRollovers /\ CounterInv
      /\ ts_ns' = ts_ns + IEP_CNT_TO_NS(Counted)
      /\ last_iep_cnt' = IEP_CNT /\ readAt' = cycles
      /\ result' = ts_ns' + offset
      /\ late' = (late \/ (cycles - readAt) * Mult >= Wrap)
      /\ rollovers' = rollovers + Lost
  BY DEF IndInv, TypeOK, IepGetTime, Lost
<1>2. Mult \in Nat /\ Wrap \in Nat \ {0}
  BY IepAssumption
<1>3. PICK g \in Nat, lost \in 0 .. 1, gain \in Nat :
          /\ g = cycles - readAt /\ lost = Lost /\ gain = IEP_CNT_TO_NS(Counted)
          /\ gain <= Mult * (g - lost)
          /\ g * Mult < Wrap => gain = Mult * (g - lost)
  BY <1>1, CountedGap, ReadAdds
<1>4. /\ ts_ns \in Nat /\ rollovers \in Nat /\ cycles \in Nat /\ readAt \in Int
      /\ late \in BOOLEAN
  BY <1>1 DEF TypeOK
<1>5. PICK a \in Int : a = readAt - rollovers
  BY <1>4
<1>6. cycles - (rollovers + lost) = a + (g - lost)
  BY <1>3, <1>4, <1>5
<1>7. /\ Mult * (a + (g - lost)) = (Mult * a) + (Mult * (g - lost))
      /\ Mult * a \in Int /\ Mult * (g - lost) \in Int /\ g * Mult \in Int
  BY <1>2, Distribute
<1>8. ts_ns <= Mult * a /\ (~late => ts_ns = Mult * a)
  BY <1>1, <1>5 DEF LagsByRollovers
<1>9. late' = (late \/ g * Mult >= Wrap)
  BY <1>1, <1>3
<1>10. late' \in BOOLEAN /\ (late => late') /\ (~late' => ~late /\ g * Mult < Wrap)
  <2>1. ~(g * Mult >= Wrap) => g * Mult < Wrap
    BY <1>2, <1>7
  <2> QED
    BY <1>9, <2>1, Zenon
<1>11. LagsByRollovers'
  <2>1. ts_ns' = ts_ns + gain /\ readAt' - rollovers' = a + (g - lost)
    BY <1>1, <1>3, <1>6
  <2>2. ts_ns' <= Mult * (a + (g - lost))
    BY <1>3, <1>4, <1>7, <1>8, <2>1
  <2>3. ~late' => ts_ns' = Mult * (a + (g - lost))
    BY <1>3, <1>4, <1>7, <1>8, <1>10, <2>1
  <2> QED
    BY <2>1, <2>2, <2>3 DEF LagsByRollovers
<1>12. CounterInv' /\ last_iep_cnt' \in 0 .. Wrap - 1
  <2>1. IEP_CNT \in 0 .. Wrap - 1
    BY <1>2, <1>4, DivMod DEF IEP_CNT
  <2> QED
    BY <1>1, <2>1 DEF CounterInv, IEP_CNT
<1> QED
  BY <1>1, <1>3, <1>4, <1>10, <1>11, <1>12

-----------------------------------------------------------------------------
(* The invariant holds at the start, and each step keeps it.               *)

LEMMA InitInd == Init => IndInv
<1> SUFFICES ASSUME Init PROVE IndInv
  OBVIOUS
<1>1. Wrap \in Nat \ {0} /\ Mult \in Nat /\ Mult * (0 - 0) = 0 /\ 0 % Wrap = 0
  BY IepAssumption, ModSmall
<1>2. TypeOK
  <2>1. 0 \in 0 .. Wrap - 1 /\ 0 \in 0 .. 0 /\ 0 \in Int /\ 0 \in Nat
    BY IepAssumption
  <2>2. ts_ns \in Nat /\ offset \in Int /\ result \in Int
    BY <2>1 DEF Init
  <2>3. cycles \in Nat /\ rollovers \in Nat /\ late \in BOOLEAN
    BY <2>1 DEF Init
  <2>4. last_iep_cnt \in 0 .. Wrap - 1 /\ readAt \in 0 .. cycles
    BY <2>1, Zenon DEF Init
  <2> QED
    BY <2>2, <2>3, <2>4 DEF TypeOK
<1>3. LagsByRollovers
  BY <1>1 DEF Init, LagsByRollovers
<1>4. CounterInv
  BY <1>1 DEF Init, CounterInv
<1>5. SampleInv /\ SyncInv
  BY DEF Init, SampleInv, SyncInv
<1> QED
  BY <1>2, <1>3, <1>4, <1>5 DEF IndInv

\* A step that leaves the clock and its history alone.
LEMMA TickStep ==
    ASSUME IndInv, Tick
    PROVE  IndInv'
<1>1. TypeOK'
  BY DEF IndInv, TypeOK, Tick, timeVars
<1>2. LagsByRollovers' /\ CounterInv'
  BY DEF IndInv, LagsByRollovers, CounterInv, Tick, timeVars
<1>3. SampleInv'
  BY DEF IndInv, SampleInv, Tick, timeVars, HostTime
<1>4. SyncInv'
  BY DEF IndInv, SyncInv, Tick, timeVars
<1> QED
  BY <1>1, <1>2, <1>3, <1>4 DEF IndInv

\* The type invariant and the adjustment's part of it after a read.
LEMMA ReadKeeps ==
    ASSUME IndInv, IepGetTime, UNCHANGED <<offset, cycles, synced>>
    PROVE  TypeOK' /\ LagsByRollovers' /\ CounterInv' /\ SyncInv'
<1>1. /\ LagsByRollovers' /\ CounterInv'
      /\ late' \in BOOLEAN /\ (late => late')
      /\ rollovers' \in Nat /\ ts_ns' \in Nat /\ readAt' = cycles
      /\ last_iep_cnt' \in 0 .. Wrap - 1
      /\ result' = ts_ns' + offset
  BY ReadStep
<1>2. TypeOK'
  BY <1>1 DEF IndInv, TypeOK
<1>3. SyncInv'
  BY <1>1 DEF IndInv, SyncInv
<1> QED
  BY <1>1, <1>2, <1>3

LEMMA GetTimeStep ==
    ASSUME IndInv, GetTime
    PROVE  IndInv'
<1>1. IepGetTime /\ UNCHANGED <<offset, sample, cycles, synced>>
  BY DEF GetTime
<1>2. TypeOK' /\ LagsByRollovers' /\ CounterInv' /\ SyncInv'
  BY <1>1, ReadKeeps
<1>3. late => late'
  BY <1>1, ReadStep
<1>4. SampleInv'
  BY <1>1, <1>3 DEF IndInv, SampleInv, HostTime
<1> QED
  BY <1>2, <1>4 DEF IndInv

LEMMA TakeSampleStep ==
    ASSUME IndInv, TakeSample
    PROVE  IndInv'
<1>1. IepGetTime /\ UNCHANGED <<offset, cycles, synced>>
  BY DEF TakeSample
<1>2. TypeOK' /\ LagsByRollovers' /\ CounterInv' /\ SyncInv'
  BY <1>1, ReadKeeps
<1>3. /\ rollovers' \in Nat /\ ts_ns' \in Nat /\ readAt' = cycles
      /\ result' = ts_ns' + offset /\ offset \in Int /\ cycles \in Nat
  BY <1>1, ReadStep DEF IndInv, TypeOK
<1>4. PICK e \in HostErrors :
          sample' = [at |-> cycles, err |-> e, rollovers |-> rollovers',
                     ts_ns |-> result', external |-> HostTime(cycles) + e]
  BY DEF TakeSample
<1>5. e \in Int
  BY IepAssumption
<1>6. ~late' => ts_ns' = Mult * (cycles - rollovers')
  BY <1>2, <1>3 DEF LagsByRollovers
<1>7. /\ sample'.at = cycles /\ sample'.err = e /\ sample'.rollovers = rollovers'
      /\ sample'.ts_ns = result' /\ sample'.external = HostTime(cycles) + e
  BY <1>4
<1>8. ~late' => sample'.ts_ns = Mult * (sample'.at - sample'.rollovers) + offset'
  BY <1>1, <1>3, <1>6, <1>7
<1>9. sample'.external = HostTime(sample'.at) + sample'.err
  BY <1>7
<1>10. sample'.ts_ns \in Int
  BY <1>3, <1>7
<1>11. SampleInv'
  BY <1>3, <1>5, <1>7, <1>8, <1>9, <1>10 DEF SampleInv, HostTime
<1> QED
  BY <1>2, <1>11 DEF IndInv

LEMMA AdjTimeStep ==
    ASSUME IndInv, AdjTime
    PROVE  IndInv'
<1>1. /\ sample # NoSample
      /\ offset' = offset + (sample.external - sample.ts_ns)
      /\ synced' = {[err |-> sample.err, rollovers |-> sample.rollovers]}
      /\ sample' = NoSample
      /\ UNCHANGED <<ts_ns, last_iep_cnt, result, cycles, readAt, late, rollovers>>
  BY DEF AdjTime
<1>2. /\ Mult \in Nat /\ HostOffset \in Int /\ offset \in Int
  BY IepAssumption DEF IndInv, TypeOK
<1>3. /\ sample.at \in Nat /\ sample.err \in Int /\ sample.rollovers \in Nat
      /\ sample.ts_ns \in Int
      /\ sample.external = HostOffset + (Mult * sample.at) + sample.err
      /\ ~late => sample.ts_ns = Mult * (sample.at - sample.rollovers) + offset
  BY <1>1 DEF IndInv, SampleInv, HostTime
<1>4. PICK at \in Int, r \in Int : at = Mult * sample.at /\ r = Mult * sample.rollovers
  BY <1>2, <1>3, Distribute
<1>5. Mult * (sample.at - sample.rollovers) = at - r
  BY <1>2, <1>3, <1>4, Distribute
<1>6. sample.external = HostOffset + at + sample.err
  BY <1>3, <1>4
<1>7. ~late => sample.ts_ns = (at - r) + offset
  BY <1>3, <1>5
<1>8. offset' \in Int
  BY <1>1, <1>2, <1>3, <1>4, <1>6
<1>9. ASSUME ~late PROVE offset' = HostOffset + sample.err + r
  <2>1. PICK x \in Int, y \in Int, e \in Int :
            /\ x = sample.external /\ y = sample.ts_ns /\ e = sample.err
            /\ x = HostOffset + at + e
            /\ y = (at - r) + offset
    BY <1>2, <1>3, <1>6, <1>7, <1>9
  <2>2. offset + (x - y) = HostOffset + e + r
    BY <1>2, <2>1
  <2> QED
    BY <1>1, <2>1, <2>2
<1>10. TypeOK'
  BY <1>1, <1>8 DEF IndInv, TypeOK
<1>11. LagsByRollovers' /\ CounterInv'
  BY <1>1 DEF IndInv, LagsByRollovers, CounterInv
<1>12. SampleInv'
  BY <1>1 DEF SampleInv
<1>13. SyncInv'
  <2> SUFFICES ASSUME NEW s \in synced'
               PROVE  /\ s.err \in Int /\ s.rollovers \in Nat
                      /\ ~late' => offset' = HostOffset + s.err + (Mult * s.rollovers)
    BY DEF SyncInv
  <2>1. s.err = sample.err /\ s.rollovers = sample.rollovers
    BY <1>1
  <2> QED
    BY <1>1, <1>3, <1>4, <1>9, <2>1
<1> QED
  BY <1>10, <1>11, <1>12, <1>13 DEF IndInv

LEMMA StutterStep ==
    ASSUME IndInv, UNCHANGED vars
    PROVE  IndInv'
<1>1. TypeOK' /\ LagsByRollovers' /\ CounterInv'
  BY DEF IndInv, TypeOK, LagsByRollovers, CounterInv, vars, timeVars
<1>2. SampleInv' /\ SyncInv'
  BY DEF IndInv, SampleInv, SyncInv, HostTime, vars, timeVars
<1> QED
  BY <1>1, <1>2 DEF IndInv

\* The inductive invariant holds: what the clock shows follows from the counts
\* passed and the roll-overs met, and the offset from the last sample
\* (iep_get_time and iep_adj_time, nesl_pru_iep.h:38-63).
THEOREM IndInvHolds == Spec => []IndInv
<1>1. Init => IndInv
  BY InitInd
<1>2. IndInv /\ [Next]_vars => IndInv'
  BY TickStep, GetTimeStep, TakeSampleStep, AdjTimeStep, StutterStep DEF Next
<1> QED
  BY <1>1, <1>2, PTL DEF Spec

-----------------------------------------------------------------------------
(* The properties the runs check.                                          *)

\* The saved counter always fits the counter's width, and the clock's
\* 64-bit sum is never negative (struct iep_time).
THEOREM TypeCorrect == Spec => []TypeOK
  BY IndInvHolds, PTL DEF IndInv

\* The clock lags by exactly one count for every roll-over it has handled while
\* its product has not overflowed, and by no less ever (nesl_pru_iep.h:42-52).
THEOREM Lags == Spec => []LagsByRollovers
  BY IndInvHolds, PTL DEF IndInv

\* What a read after an adjustment returns.
LEMMA SyncStep ==
    ASSUME IndInv, IepGetTime, ~late', NEW s \in synced
    PROVE  result' = HostTime(readAt') + s.err - Mult * (rollovers' - s.rollovers)
<1>1. /\ LagsByRollovers' /\ late \in BOOLEAN /\ ~late
      /\ rollovers' \in Nat /\ ts_ns' \in Nat /\ readAt' \in Nat
      /\ result' = ts_ns' + offset
  BY ReadStep DEF IndInv, TypeOK
<1>2. Mult \in Nat /\ HostOffset \in Int
  BY IepAssumption
<1>3. /\ s.err \in Int /\ s.rollovers \in Nat
      /\ offset = HostOffset + s.err + (Mult * s.rollovers)
  BY <1>1 DEF IndInv, SyncInv
<1>4. ts_ns' = Mult * (readAt' - rollovers')
  BY <1>1 DEF LagsByRollovers
<1>5. PICK a \in Int, r \in Int, k \in Int :
          a = Mult * readAt' /\ r = Mult * rollovers' /\ k = Mult * s.rollovers
  <2>1. /\ Mult * readAt' \in Int /\ Mult * rollovers' \in Int
        /\ Mult * s.rollovers \in Int
    BY <1>1, <1>2, <1>3
  <2> QED
    BY <2>1
<1>6. /\ Mult * (readAt' - rollovers') = a - r
      /\ Mult * (rollovers' - s.rollovers) = r - k
  <2>1. PICK n \in Int, p \in Int, q \in Int :
            n = readAt' /\ p = rollovers' /\ q = s.rollovers
    BY <1>1, <1>3
  <2>2. /\ Mult * (n - p) = (Mult * n) - (Mult * p)
        /\ Mult * (p - q) = (Mult * p) - (Mult * q)
    BY <1>2, Distribute
  <2> QED
    BY <1>5, <2>1, <2>2
<1>7. result' = (a - r) + (HostOffset + s.err + k)
  BY <1>1, <1>3, <1>4, <1>5, <1>6
<1> QED
  BY <1>2, <1>3, <1>5, <1>6, <1>7 DEF HostTime

\* After an adjustment every read returns the host's time less one count for
\* each roll-over since its sample, as long as the product has not overflowed,
\* however late the adjustment comes (iep_adj_time, nesl_pru_iep.h:59-63).
THEOREM SyncLagHolds == Spec => SyncLag
<1>1. IndInv => [IepGetTime /\ ~late' =>
          \A s \in synced : result' = HostTime(readAt') + s.err
                                          - Mult * (rollovers' - s.rollovers)]_vars
  BY SyncStep
<1> QED
  BY <1>1, IndInvHolds, PTL DEF SyncLag

=============================================================================
