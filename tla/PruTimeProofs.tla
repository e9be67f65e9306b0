---------------------------- MODULE PruTimeProofs ----------------------------
(***************************************************************************)
(* Theorems about PruTime for counters of every width, every mult and      *)
(* shift, and behaviours of every length; and, in the second half, about   *)
(* Slew for every rate, limit and width of the increment's field.          *)
(* SlewAssumption is used in that half only.                               *)
(***************************************************************************)
EXTENDS Slew, TLAPS

-----------------------------------------------------------------------------
(* The inductive invariant.                                                *)

\* The software's idea of the counter and the counter differ by what has
\* been counted since the last read.
CounterInv ==
    pc = "running" => cnt = (cycle_last + (cycles - readAt)) % Wrap

BeforeRunning ==
    pc # "running" =>
        /\ cycles = 0 /\ readAt = 0 /\ missed = 0 /\ adjusted = 0
        /\ frac = 0 /\ nsec = start /\ sample = NoSample /\ synced = {}

\* The time from the k-th count on that a clock shows which missed m turns.
Shown(k, m) == (Mult * (k - (Wrap * m))) \div Scale

\* A sample not yet used is a reading of the clock as it still stands.
SampleInv ==
    sample # NoSample =>
        /\ sample.at \in 0 .. cycles /\ sample.err \in Int /\ sample.missed \in Nat
        /\ sample.ts_host = HostTime(sample.at) + sample.err
        /\ sample.ts_pru = start + adjusted + Shown(sample.at, sample.missed)

\* The jumps have made up for the difference at the last sample.
SyncInv ==
    ~slewed => \A s \in synced :
        /\ s.err \in Int /\ s.missed \in Nat
        /\ \E at \in 0 .. cycles :
              start + adjusted = HostTime(at) + s.err - Shown(at, s.missed)

\* The clock alone, whatever its rate.
ClockInv == TypeOK /\ ClockExact /\ CounterInv /\ BeforeRunning

IndInv == ClockInv /\ SampleInv /\ SyncInv

-----------------------------------------------------------------------------
(* Quotients, remainders and products of integers.                         *)

\* Division with remainder.
LEMMA DivMod ==
    ASSUME NEW n \in Int, NEW d \in Nat \ {0}
    PROVE  /\ n \div d \in Int
           /\ n % d \in 0 .. d - 1
           /\ n = (d * (n \div d)) + (n % d)
  OBVIOUS

\* The same, with names for the quotient and the remainder.
LEMMA DivModNames ==
    ASSUME NEW n \in Int, NEW d \in Nat \ {0}
    PROVE  \E q \in Int, r \in 0 .. d - 1 :
              n = (d * q) + r /\ n \div d = q /\ n % d = r
<1>1. n \div d \in Int /\ n % d \in 0 .. d - 1 /\ n = (d * (n \div d)) + (n % d)
  BY DivMod
<1> WITNESS n \div d \in Int, n % d \in 0 .. d - 1
<1> QED
  BY <1>1

\* A natural number divided by a positive one.
LEMMA DivNat ==
    ASSUME NEW n \in Nat, NEW d \in Nat \ {0}
    PROVE  n \div d \in Nat
  OBVIOUS

\* Multiplication distributes over addition and subtraction.
LEMMA Distribute ==
    ASSUME NEW a \in Int, NEW b \in Int, NEW x \in Int
    PROVE  /\ x * (a + b) = (x * a) + (x * b)
           /\ x * (a - b) = (x * a) - (x * b)
           /\ x * a \in Int
           /\ x * a = a * x
  OBVIOUS

\* A positive multiple of d is at least d.
LEMMA AtLeastOnce ==
    ASSUME NEW d \in Nat \ {0}, NEW k \in Int, k >= 1
    PROVE  d * k >= d
  OBVIOUS

\* Quotient and remainder are unique.
LEMMA DivModUnique ==
    ASSUME NEW d \in Nat \ {0}, NEW q \in Int, NEW r \in 0 .. d - 1
    PROVE  ((d * q) + r) \div d = q /\ ((d * q) + r) % d = r
<1> DEFINE n == (d * q) + r
           u == n \div d
           v == n % d
<1>1. n \in Int
  BY Distribute
<1>2. u \in Int /\ v \in 0 .. d - 1 /\ n = (d * u) + v
  BY <1>1, DivMod
<1>3. n = (d * q) + r
  OBVIOUS
<1> HIDE DEF n, u, v
<1>4. (d * u) - (d * q) = r - v /\ d * (u - q) = (d * u) - (d * q)
  BY <1>2, <1>3, Distribute
<1>5. d * (u - q) < d /\ d * (q - u) < d
  <2>1. d * (q - u) = (d * q) - (d * u) /\ d * q \in Int /\ d * u \in Int
    BY <1>2, Distribute
  <2> QED
    BY <1>2, <1>4, <2>1
<1>6. u = q
  <2>1. ~(u - q >= 1)
    BY <1>2, <1>5, AtLeastOnce
  <2>2. ~(q - u >= 1)
    BY <1>2, <1>5, AtLeastOnce
  <2> QED
    BY <1>2, <2>1, <2>2
<1>7. v = r
  <2>1. d * q \in Int
    BY Distribute
  <2> QED
    BY <1>2, <1>3, <1>6, <2>1
<1> QED
  BY <1>6, <1>7 DEF n, u, v

\* A quotient of a difference is the difference of the quotients or one less.
LEMMA DivMinus ==
    ASSUME NEW d \in Nat \ {0}, NEW a \in Int, NEW k \in Int
    PROVE  (a \div d) - ((a - k) \div d) - (k \div d) \in 0 .. 1
<1>1. PICK qa \in Int, ra \in 0 .. d - 1 : a = (d * qa) + ra /\ a \div d = qa
  BY DivModNames
<1>2. PICK qk \in Int, rk \in 0 .. d - 1 : k = (d * qk) + rk /\ k \div d = qk
  BY DivModNames
<1>3. PICK b \in Int : b = a - k
  OBVIOUS
<1>4. PICK qb \in Int, rb \in 0 .. d - 1 : b = (d * qb) + rb /\ b \div d = qb
  BY DivModNames
<1>5. PICK e \in Int : e = qa - qb - qk
  OBVIOUS
<1>6. d * e = rb + rk - ra
  <2>1. d * e = (d * (qa - qb)) - (d * qk)
    BY <1>5, Distribute
  <2>2. d * (qa - qb) = (d * qa) - (d * qb)
    BY Distribute
  <2>3. d * qa \in Int /\ d * qb \in Int /\ d * qk \in Int
    BY Distribute
  <2> QED
    BY <1>1, <1>2, <1>3, <1>4, <2>1, <2>2, <2>3
<1>7. ~(e <= -1)
  <2>1. d * (-e) = -(d * e) /\ d * e \in Int
    BY Distribute
  <2>2. -e >= 1 => d * (-e) >= d
    BY AtLeastOnce
  <2> QED
    BY <1>6, <2>1, <2>2
<1>8. ~(e >= 2)
  <2>1. d * (e - 1) = (d * e) - d /\ d * e \in Int
    BY Distribute
  <2>2. e - 1 >= 1 => d * (e - 1) >= d
    BY AtLeastOnce
  <2> QED
    BY <1>6, <2>1, <2>2
<1> QED
  BY <1>1, <1>2, <1>3, <1>4, <1>5, <1>7, <1>8

\* Remainders may be taken early.
LEMMA ModPlus ==
    ASSUME NEW d \in Nat \ {0}, NEW a \in Int, NEW b \in Int
    PROVE  ((a % d) + b) % d = (a + b) % d
<1>1. PICK qa \in Int, ra \in 0 .. d - 1 : a = (d * qa) + ra /\ a % d = ra
  BY DivModNames
<1>2. PICK m \in Int : m = ra + b
  OBVIOUS
<1>3. PICK qm \in Int, rm \in 0 .. d - 1 : m = (d * qm) + rm /\ m % d = rm
  BY DivModNames
<1>4. a + b = (d * (qa + qm)) + rm
  <2>1. d * (qa + qm) = (d * qa) + (d * qm) /\ d * qa \in Int /\ d * qm \in Int
    BY Distribute
  <2> QED
    BY <1>1, <1>2, <1>3, <2>1
<1>5. ((d * (qa + qm)) + rm) % d = rm
  <2>1. qa + qm \in Int
    OBVIOUS
  <2> QED
    BY <2>1, DivModUnique
<1> QED
  BY <1>1, <1>2, <1>3, <1>4, <1>5

\* The remainder of a number that is small enough is the number.
LEMMA ModSmall ==
    ASSUME NEW d \in Nat \ {0}, NEW r \in 0 .. d - 1
    PROVE  r % d = r
<1>1. (d * 0) + r = r
  OBVIOUS
<1> QED
  BY <1>1, DivModUnique

\* Multiplication by a natural number is monotonic.
LEMMA Monotonic ==
    ASSUME NEW d \in Nat, NEW a \in Int, NEW b \in Int, a <= b
    PROVE  d * a <= d * b
  OBVIOUS

-----------------------------------------------------------------------------
(* A read of the clock.                                                    *)

\* Modulo a turn, the counter tells how much was counted since the last read.
LEMMA DeltaIsGap ==
    ASSUME ClockInv, pc = "running"
    PROVE  /\ cycles - readAt \in Nat
           /\ CycleDelta = (cycles - readAt) % Wrap
<1>1. /\ Wrap \in Nat \ {0} /\ cycle_last \in Int /\ cycles - readAt \in Nat
      /\ cnt = (cycle_last + (cycles - readAt)) % Wrap
  BY ClockAssumption DEF ClockInv, TypeOK, CounterInv
<1>2. PICK a \in Int : a = cycle_last + (cycles - readAt)
  BY <1>1
<1>3. PICK b \in Int : b = -cycle_last
  BY <1>1
<1>4. ((a % Wrap) + b) % Wrap = (a + b) % Wrap
  BY <1>1, ModPlus
<1>5. (a % Wrap) + b = cnt - cycle_last
  <2>1. cnt \in Int
    BY ClockAssumption DEF ClockInv, TypeOK
  <2> QED
    BY <1>1, <1>2, <1>3, <2>1
<1>6. a + b = cycles - readAt
  BY <1>1, <1>2, <1>3
<1> QED
  BY <1>1, <1>4, <1>5, <1>6 DEF CycleDelta

\* A read accounts for everything counted since the last one but the whole
\* turns, and leaves a fraction of a nanosecond.
LEMMA ReadIsExact ==
    ASSUME ClockInv, pc = "running", TimecounterRead, cycles' = cycles,
           UNCHANGED <<start, adjusted>>
    PROVE  /\ ClockExact'
           /\ nsec' \in Int /\ frac' \in 0 .. Scale - 1 /\ missed' \in Nat
           /\ missed' = 0 => missed = 0
<1>1. /\ Wrap \in Nat \ {0} /\ Scale \in Nat \ {0} /\ Mult \in Int
      /\ nsec \in Int /\ frac \in 0 .. Scale - 1
      /\ cycles \in Int /\ readAt \in Int /\ cycles - readAt \in Nat
      /\ missed \in Nat /\ start \in Int /\ adjusted \in Int
  BY ClockAssumption DEF ClockInv, TypeOK
<1>2. PICK g \in Nat : g = cycles - readAt
  BY <1>1
<1>3. PICK t \in Int, delta \in 0 .. Wrap - 1 :
          g = (Wrap * t) + delta /\ g \div Wrap = t /\ g % Wrap = delta
  BY <1>1, <1>2, DivModNames
<1>4. t \in Nat
  BY <1>1, <1>3, DivNat
<1>5. CycleDelta = delta
  BY <1>2, <1>3, DeltaIsGap
<1>6. PICK n \in Int : n = (delta * Mult) + frac
  <2>1. delta * Mult \in Int
    BY <1>1, <1>3, Distribute
  <2> QED
    BY <1>1, <2>1
<1>7. PICK q \in Int, r \in 0 .. Scale - 1 :
          n = (Scale * q) + r /\ n \div Scale = q /\ n % Scale = r
  BY <1>1, <1>6, DivModNames
<1>8. /\ nsec' = nsec + q /\ frac' = r /\ readAt' = cycles
      /\ missed' = missed + t
  BY <1>2, <1>3, <1>5, <1>6, <1>7 DEF TimecounterRead, Cyc2ns, Cyc2nsFrac
<1>9. (nsec * Scale) + frac =
          (Scale * (start + adjusted)) + (Mult * (readAt - (Wrap * missed)))
  BY DEF ClockInv, ClockExact
<1>10. PICK base \in Int : base = Scale * (start + adjusted)
  BY <1>1
<1>11. Mult * (cycles - (Wrap * (missed + t))) =
           (Mult * (readAt - (Wrap * missed))) + (Mult * delta)
  <2>1. PICK w \in Int : w = readAt - (Wrap * missed)
    BY <1>1
  <2>2. cycles - (Wrap * (missed + t)) = w + delta
    <3>1. Wrap * (missed + t) = (Wrap * missed) + (Wrap * t)
      BY <1>1, <1>4, Distribute
    <3> QED
      BY <1>1, <1>2, <1>3, <2>1, <3>1
  <2>3. Mult * (w + delta) = (Mult * w) + (Mult * delta)
    BY <1>1, Distribute
  <2> QED
    BY <2>1, <2>2, <2>3
<1>12. ((nsec + q) * Scale) + r =
           base + (Mult * (cycles - (Wrap * (missed + t))))
  <2>1. PICK old \in Int : old = Mult * (readAt - (Wrap * missed))
    BY <1>1
  <2>2. PICK x \in Int : x = nsec * Scale
    BY <1>1
  <2>3. PICK y \in Int : y = Scale * q
    BY <1>1
  <2>4. PICK z \in Int : z = Mult * delta /\ z = delta * Mult
    BY <1>1, Distribute
  <2>5. (nsec + q) * Scale = x + y
    BY <1>1, <2>2, <2>3
  <2>6. x + frac = base + old
    BY <1>9, <1>10, <2>1, <2>2
  <2>7. z + frac = y + r
    BY <1>6, <1>7, <2>3, <2>4
  <2> QED
    BY <1>1, <1>11, <2>1, <2>4, <2>5, <2>6, <2>7
<1>13. ClockExact'
  BY <1>8, <1>10, <1>12 DEF ClockExact
<1> QED
  BY <1>1, <1>4, <1>7, <1>8, <1>13

\* What a clock shows that is exact and has missed nothing: n nanoseconds
\* and f, m units of 1 / Scale after it showed a.
LEMMA ReadingValue ==
    ASSUME NEW n \in Int, NEW f \in 0 .. Scale - 1,
           NEW a \in Int, NEW m \in Int,
           (n * Scale) + f = (Scale * a) + m
    PROVE  n = a + (m \div Scale)
<1>1. Scale \in Nat \ {0}
  BY ClockAssumption
<1>2. PICK q \in Int : q = n - a
  OBVIOUS
<1>3. m = (Scale * q) + f
  <2>1. Scale * q = (Scale * n) - (Scale * a)
    BY <1>1, <1>2, Distribute
  <2>2. n * Scale = Scale * n /\ Scale * n \in Int /\ Scale * a \in Int
    BY <1>1, Distribute
  <2> QED
    BY <1>1, <2>1, <2>2
<1>4. m \div Scale = q
  BY <1>1, <1>3, DivModUnique
<1> QED
  BY <1>2, <1>4

\* What an exact clock shows: n nanoseconds and f, after k counts of which m
\* turns were missed.
LEMMA ReadingShown ==
    ASSUME NEW n \in Int, NEW f \in 0 .. Scale - 1, NEW b \in Int, NEW c \in Int,
           NEW k \in Int, NEW m \in Int,
           (n * Scale) + f = (Scale * (b + c)) + (Mult * (k - (Wrap * m)))
    PROVE  n = b + c + Shown(k, m)
<1>1. PICK a \in Int : a = b + c
  OBVIOUS
<1>2. PICK x \in Int : x = Mult * (k - (Wrap * m))
  BY ClockAssumption
<1>3. n = a + (x \div Scale)
  <2>1. (n * Scale) + f = (Scale * a) + x
    BY <1>1, <1>2
  <2> QED
    BY <2>1, ReadingValue
<1> QED
  BY <1>1, <1>2, <1>3 DEF Shown

\* What the clock shows in a state of the invariant.
LEMMA ReadingNow == TypeOK /\ ClockExact => nsec = start + adjusted + Shown(readAt, missed)
<1> SUFFICES ASSUME TypeOK, ClockExact
             PROVE  nsec = start + adjusted + Shown(readAt, missed)
  OBVIOUS
<1>1. /\ nsec \in Int /\ frac \in 0 .. Scale - 1 /\ start \in Int
      /\ adjusted \in Int /\ readAt \in Int /\ missed \in Int
  BY DEF TypeOK
<1>2. PICK a \in Int : a = start + adjusted
  <2>1. start + adjusted \in Int
    BY <1>1
  <2> QED
    BY <2>1, Zenon
<1>3. PICK m \in Int : m = Mult * (readAt - (Wrap * missed))
  <2>1. Mult * (readAt - (Wrap * missed)) \in Int
    BY <1>1, ClockAssumption
  <2> QED
    BY <2>1, Zenon
<1>4. nsec = a + (m \div Scale)
  <2>1. (nsec * Scale) + frac = (Scale * a) + m
    BY <1>2, <1>3 DEF ClockExact
  <2> QED
    BY <1>1, <2>1, ReadingValue
<1> QED
  BY <1>2, <1>3, <1>4 DEF Shown

\* Times are integers.
LEMMA ShownType ==
    ASSUME NEW k \in Int, NEW m \in Int
    PROVE  /\ Shown(k, m) \in Int /\ HostTime(k) \in Int
           /\ HostTime(k) - Shown(k, m) \in Int
<1>1. PICK x \in Int : x = Mult * (k - (Wrap * m))
  BY ClockAssumption
<1>2. PICK y \in Int : y = Mult * k
  BY ClockAssumption
<1>3. x \div Scale \in Int /\ y \div Scale \in Int
  BY DivMod, ClockAssumption
<1> QED
  BY <1>1, <1>2, <1>3, ClockAssumption DEF Shown, HostTime

\* From one reading to another the clock gains what the host's does, but for
\* the rounding of the time lost with the turns missed.
LEMMA ShownAgrees ==
    ASSUME NEW k \in Int, NEW n \in Int, NEW m \in Nat
    PROVE  (HostTime(k) - Shown(k, m)) - (HostTime(n) - Shown(n, m))
               \in IF m = 0 THEN {0} ELSE -1 .. 1
<1>1. Wrap \in Int /\ Mult \in Int /\ Scale \in Nat \ {0} /\ HostOffset \in Int
  BY ClockAssumption
<1>2. PICK lost \in Int : lost = Mult * (Wrap * m)
  BY <1>1
<1>3. PICK c \in Int : c = lost \div Scale
  BY <1>1, DivMod
<1>4. ASSUME NEW j \in Int
      PROVE  /\ HostTime(j) - Shown(j, m) \in HostOffset + c .. HostOffset + c + 1
             /\ m = 0 => HostTime(j) - Shown(j, m) = HostOffset
  <2>1. PICK a \in Int : a = Mult * j
    BY <1>1
  <2>2. PICK w \in Int : w = Wrap * m
    BY <1>1
  <2>3. Mult * (j - w) = a - lost
    BY <1>1, <1>2, <2>1, <2>2, Distribute
  <2>4. HostTime(j) = HostOffset + (a \div Scale) /\ Shown(j, m) = (a - lost) \div Scale
    BY <2>1, <2>2, <2>3 DEF HostTime, Shown
  <2>5. (a \div Scale) - ((a - lost) \div Scale) - (lost \div Scale) \in 0 .. 1
    BY <1>1, DivMinus
  <2>6. a - lost \in Int
    OBVIOUS
  <2>7. a \div Scale \in Int /\ (a - lost) \div Scale \in Int /\ lost \div Scale \in Int
    BY <1>1, <2>6, DivMod
  <2>8. m = 0 => a - lost = a
    BY <1>1, <1>2
  <2>9. m = 0 => HostTime(j) - Shown(j, m) = HostOffset
    BY <1>1, <2>4, <2>7, <2>8
  <2> QED
    BY <1>1, <1>3, <2>4, <2>5, <2>7, <2>9
<1>5. PICK x \in Int : x = HostTime(k) - Shown(k, m)
  BY ShownType
<1>6. PICK y \in Int : y = HostTime(n) - Shown(n, m)
  BY ShownType
<1>7. /\ x \in HostOffset + c .. HostOffset + c + 1 /\ (m = 0 => x = HostOffset)
      /\ y \in HostOffset + c .. HostOffset + c + 1 /\ (m = 0 => y = HostOffset)
  BY <1>4, <1>5, <1>6
<1>8. x - y \in IF m = 0 THEN {0} ELSE -1 .. 1
  BY <1>1, <1>3, <1>7
<1> QED
  BY <1>5, <1>6, <1>8

-----------------------------------------------------------------------------
(* The invariant holds at the start, and each step keeps it.               *)

\* In the initial states the clock has counted nothing and has no sample.
LEMMA InitInd == Init => IndInv
<1> SUFFICES ASSUME Init PROVE IndInv
  OBVIOUS
<1>1. TypeOK
  <2>1. cnt \in 0 .. Wrap - 1 /\ cycle_last \in 0 .. Wrap - 1 /\ frac \in 0 .. Scale - 1
    BY ClockAssumption DEF Init
  <2>2. readAt \in 0 .. cycles
    BY DEF Init
  <2>3. slewed \in BOOLEAN
    BY DEF Init
  <2> QED
    BY <2>1, <2>2, <2>3 DEF Init, TypeOK
<1>2. ClockExact
  BY ClockAssumption DEF Init, ClockExact
<1>3. CounterInv /\ BeforeRunning /\ SampleInv /\ SyncInv
  BY DEF Init, CounterInv, BeforeRunning, SampleInv, SyncInv
<1> QED
  BY <1>1, <1>2, <1>3 DEF IndInv, ClockInv

\* One count of the counter.
LEMMA TickStep == IndInv /\ Tick => IndInv'
<1> SUFFICES ASSUME IndInv, Tick PROVE IndInv'
  OBVIOUS
<1>1. /\ TypeOK /\ ClockExact /\ CounterInv /\ BeforeRunning /\ SampleInv /\ SyncInv
      /\ UNCHANGED <<pc, nsec, frac, cycle_last, sample,
                     readAt, missed, start, adjusted, synced, slewed>>
      /\ cnt' = (cnt + 1) % Wrap
      /\ cycles' = IF pc = "running" THEN cycles + 1 ELSE cycles
  BY DEF IndInv, ClockInv, Tick, clockVars
<1>2. TypeOK'
  <2>1. PICK k \in Int : k = cnt + 1
    BY <1>1, ClockAssumption DEF TypeOK
  <2>2. cnt' \in 0 .. Wrap - 1
    <3>1. k % Wrap \in 0 .. Wrap - 1
      BY DivMod, ClockAssumption
    <3> QED
      BY <1>1, <2>1, <3>1
  <2>3. cycles' \in Nat /\ readAt' \in 0 .. cycles'
    BY <1>1 DEF TypeOK
  <2> QED
    BY <1>1, <2>2, <2>3 DEF TypeOK
<1>3. CounterInv'
  <2> SUFFICES ASSUME pc = "running"
               PROVE  cnt' = (cycle_last + ((cycles + 1) - readAt)) % Wrap
    BY <1>1 DEF CounterInv
  <2>1. /\ Wrap \in Nat \ {0} /\ cycle_last \in Int /\ cycles \in Int /\ readAt \in Int
        /\ cnt = (cycle_last + (cycles - readAt)) % Wrap
    BY <1>1, ClockAssumption DEF TypeOK, CounterInv
  <2>2. PICK a \in Int : a = cycle_last + (cycles - readAt)
    BY <2>1
  <2>3. ((a % Wrap) + 1) % Wrap = (a + 1) % Wrap
    <3>1. 1 \in Int
      OBVIOUS
    <3> QED
      BY <2>1, <3>1, ModPlus
  <2>4. a + 1 = cycle_last + ((cycles + 1) - readAt)
    BY <2>1, <2>2
  <2> QED
    BY <1>1, <2>1, <2>2, <2>3, <2>4
<1>4. ClockExact' /\ SampleInv' /\ SyncInv'
  <2>1. cycles' >= cycles /\ cycles \in Nat /\ cycles' \in Nat
    BY <1>1 DEF TypeOK
  <2>2. \A k \in 0 .. cycles : k \in 0 .. cycles'
    BY <2>1
  <2>3. SyncInv'
    BY <1>1, <2>2 DEF SyncInv, HostTime, Shown
  <2> QED
    BY <1>1, <2>2, <2>3 DEF ClockExact, SampleInv, HostTime, Shown
<1>5. BeforeRunning'
  BY <1>1 DEF BeforeRunning
<1> QED
  BY <1>2, <1>3, <1>4, <1>5 DEF IndInv, ClockInv

\* The two steps of init_pru_time start an exact clock, ...
LEMMA InitialiseClock == ClockInv /\ (InitArgument \/ InitTimecounter) => ClockInv'
<1>1. ASSUME ClockInv, InitArgument PROVE ClockInv'
  <2>1. TypeOK'
    BY <1>1 DEF ClockInv, TypeOK, InitArgument
  <2>2. CounterInv' /\ BeforeRunning'
    BY <1>1, Zenon DEF ClockInv, CounterInv, BeforeRunning, InitArgument
  <2>3. /\ nsec' = start' /\ start' \in Int /\ frac' = 0 /\ readAt' = 0
        /\ missed' = 0 /\ adjusted' = 0
    BY <1>1 DEF ClockInv, TypeOK, BeforeRunning, InitArgument
  <2>4. ClockExact'
    BY <2>3, ClockAssumption DEF ClockExact
  <2> QED
    BY <2>1, <2>2, <2>4 DEF ClockInv
<1>2. ASSUME ClockInv, InitTimecounter PROVE ClockInv'
  <2>1. /\ TypeOK /\ ClockExact /\ BeforeRunning
        /\ pc = "starting" /\ pc' = "running" /\ cycle_last' = cnt /\ frac' = 0
        /\ UNCHANGED <<cnt, nsec, sample, cycles, readAt, missed, start,
                       adjusted, synced, slewed>>
    BY <1>2 DEF ClockInv, InitTimecounter, ghostVars
  <2>2. frac = 0 /\ cycles = 0 /\ readAt = 0
    BY <2>1 DEF BeforeRunning
  <2>3. TypeOK'
    BY <2>1, ClockAssumption DEF TypeOK
  <2>4. CounterInv'
    <3>1. cnt \in 0 .. Wrap - 1 /\ Wrap \in Nat \ {0}
      BY <2>1, ClockAssumption DEF TypeOK
    <3>2. cnt + (0 - 0) = cnt /\ cnt % Wrap = cnt
      BY <3>1, ModSmall
    <3> QED
      BY <2>1, <2>2, <3>2 DEF CounterInv
  <2>5. ClockExact' /\ BeforeRunning'
    BY <2>1, <2>2 DEF ClockExact, BeforeRunning
  <2> QED
    BY <2>3, <2>4, <2>5 DEF ClockInv
<1> QED
  BY <1>1, <1>2

\* ... of which there is no sample yet.
LEMMA InitialiseStep == IndInv /\ (InitArgument \/ InitTimecounter) => IndInv'
<1> SUFFICES ASSUME IndInv, InitArgument \/ InitTimecounter PROVE IndInv'
  OBVIOUS
<1>1. ClockInv'
  BY InitialiseClock DEF IndInv
<1>2. sample = NoSample /\ synced = {} /\ UNCHANGED <<sample, synced>>
  BY DEF IndInv, ClockInv, BeforeRunning, InitArgument, InitTimecounter, ghostVars
<1>3. SampleInv' /\ SyncInv'
  BY <1>2 DEF SampleInv, SyncInv
<1> QED
  BY <1>1, <1>3 DEF IndInv

\* The parts of the invariant a read disturbs.
LEMMA ReadStep ==
    ASSUME ClockInv, pc = "running", TimecounterRead,
           UNCHANGED <<cnt, pc, cycles, start, adjusted, synced, slewed>>
    PROVE  ClockInv' /\ (missed' = 0 => missed = 0)
<1>1. /\ ClockExact'
      /\ nsec' \in Int /\ frac' \in 0 .. Scale - 1 /\ missed' \in Nat
      /\ missed' = 0 => missed = 0
  BY ReadIsExact
<1>2. cycle_last' = cnt /\ readAt' = cycles
  BY DEF TimecounterRead
<1>3. TypeOK'
  BY <1>1, <1>2 DEF ClockInv, TypeOK
<1>4. CounterInv'
  <2>1. cnt \in 0 .. Wrap - 1 /\ Wrap \in Nat \ {0} /\ cycles \in Int
    BY ClockAssumption DEF ClockInv, TypeOK
  <2>2. cnt + (cycles - cycles) = cnt /\ cnt % Wrap = cnt
    BY <2>1, ModSmall
  <2> QED
    BY <1>2, <2>2 DEF CounterInv
<1>5. BeforeRunning'
  BY DEF BeforeRunning
<1> QED
  BY <1>1, <1>3, <1>4, <1>5 DEF ClockInv

\* A read on its own: the fraction and the reading it leaves are exact.
LEMMA ReadPruTimeStep == IndInv /\ ReadPruTime => IndInv'
<1> SUFFICES ASSUME IndInv, ReadPruTime PROVE IndInv'
  OBVIOUS
<1>1. ClockInv' /\ (missed' = 0 => missed = 0)
  BY ReadStep DEF IndInv, ClockInv, ReadPruTime
<1>2. SampleInv' /\ SyncInv'
  BY DEF IndInv, ClockInv, SampleInv, SyncInv, ReadPruTime
<1> QED
  BY <1>1, <1>2 DEF IndInv, ClockInv

\* The read whose result becomes ts_pru, sent to the host to be paired.
LEMMA TakeSampleStep == IndInv /\ TakeSample => IndInv'
<1> SUFFICES ASSUME IndInv, TakeSample PROVE IndInv'
  OBVIOUS
<1>1. ClockInv' /\ (missed' = 0 => missed = 0)
  BY ReadStep DEF IndInv, ClockInv, TakeSample, SampleAt
<1>2. PICK e \in HostErrors :
          sample' = [at |-> cycles, err |-> e, missed |-> missed',
                     ts_pru |-> nsec', ts_host |-> HostTime(cycles) + e]
  BY DEF TakeSample, SampleAt
<1>3. cycles \in Nat /\ e \in Int /\ nsec' \in Int /\ readAt' = cycles
  BY <1>1, ClockAssumption DEF IndInv, ClockInv, TypeOK, TakeSample, SampleAt, TimecounterRead
<1>4. nsec' = start' + adjusted' + Shown(readAt', missed')
  <2>1. /\ nsec' \in Int /\ frac' \in 0 .. Scale - 1 /\ start' \in Int
        /\ adjusted' \in Int /\ readAt' \in Int /\ missed' \in Int
    BY <1>1 DEF ClockInv, TypeOK
  <2> QED
    BY <1>1, <2>1, ReadingShown DEF ClockInv, ClockExact
<1>5. SampleInv'
  <2>1. missed' \in Nat /\ cycles' = cycles /\ cycles \in 0 .. cycles
    BY <1>1, <1>3 DEF ClockInv, TypeOK, TakeSample, SampleAt
  <2> QED
    BY <1>2, <1>3, <1>4, <2>1 DEF SampleInv, HostTime, Shown
<1>6. SyncInv'
  BY DEF IndInv, ClockInv, SyncInv, TakeSample, SampleAt
<1> QED
  BY <1>1, <1>5, <1>6 DEF IndInv, ClockInv

\* A jump moves an exact clock by what is recorded of it.
LEMMA JumpIsExact ==
    ASSUME ClockInv, Delta \in Int, nsec' = nsec + Delta, adjusted' = adjusted + Delta,
           UNCHANGED <<cnt, pc, frac, cycle_last, cycles, readAt, missed, start, slewed>>
    PROVE  TypeOK' /\ ClockExact'
<1>1. PICK d \in Int : d = Delta
  OBVIOUS
<1>2. /\ Scale \in Int /\ nsec \in Int /\ frac \in Int
      /\ start \in Int /\ adjusted \in Int /\ readAt \in Int /\ missed \in Int
      /\ Mult \in Int /\ Wrap \in Int
  BY ClockAssumption DEF ClockInv, TypeOK
<1>3. PICK old \in Int : old = Mult * (readAt - (Wrap * missed))
  BY <1>2
<1>4. PICK a \in Int : a = start + adjusted
  BY <1>2
<1>5. /\ (nsec + d) * Scale = (nsec * Scale) + (Scale * d)
      /\ Scale * (a + d) = (Scale * a) + (Scale * d)
      /\ nsec * Scale \in Int /\ Scale * a \in Int /\ Scale * d \in Int
  BY <1>2
<1>6. (nsec * Scale) + frac = (Scale * a) + old
  BY <1>3, <1>4 DEF ClockInv, ClockExact
<1>7. start + (adjusted + d) = a + d
  BY <1>2, <1>4
<1>8. ((nsec + d) * Scale) + frac = (Scale * (start + (adjusted + d))) + old
  BY <1>2, <1>5, <1>6, <1>7
<1>9. TypeOK'
  BY <1>1 DEF ClockInv, TypeOK
<1> QED
  BY <1>1, <1>3, <1>8, <1>9 DEF ClockExact

\* An adjustment: by a jump, or left to the slew callback.
LEMMA AdjPruTimeStep == IndInv /\ AdjPruTime => IndInv'
<1> SUFFICES ASSUME IndInv, AdjPruTime PROVE IndInv'
  OBVIOUS
<1>1. /\ TypeOK /\ ClockExact /\ CounterInv /\ SampleInv /\ pc = "running" /\ sample # NoSample
      /\ UNCHANGED <<cnt, pc, frac, cycle_last, cycles, readAt, missed, start>>
      /\ sample' = NoSample
  BY DEF IndInv, ClockInv, AdjPruTime
<1>2. /\ sample.at \in 0 .. cycles /\ sample.at \in Int
      /\ sample.err \in Int /\ sample.missed \in Nat
      /\ sample.ts_host = HostTime(sample.at) + sample.err
      /\ sample.ts_pru = start + adjusted + Shown(sample.at, sample.missed)
  BY <1>1 DEF SampleInv
<1>3. CounterInv' /\ BeforeRunning' /\ SampleInv'
  BY <1>1 DEF CounterInv, BeforeRunning, SampleInv
<1>4. CASE slewed' = TRUE /\ synced' = {} /\ UNCHANGED <<nsec, adjusted>>
  BY <1>1, <1>3, <1>4 DEF IndInv, ClockInv, TypeOK, ClockExact, SyncInv
<1>5. CASE /\ nsec' = nsec + Delta
           /\ adjusted' = adjusted + Delta
           /\ synced' = {[err |-> sample.err, missed |-> sample.missed]}
           /\ UNCHANGED slewed
  <2>1. sample.ts_host \in Int /\ sample.ts_pru \in Int
    <3>1. PICK k \in Int, m \in Int : k = sample.at /\ m = sample.missed
      BY <1>2
    <3>2. Shown(k, m) \in Int /\ HostTime(k) \in Int
      BY ShownType
    <3>3. start \in Int /\ adjusted \in Int
      BY <1>1 DEF TypeOK
    <3> QED
      BY <1>2, <3>1, <3>2, <3>3
  <2>2. PICK d \in Int : d = Delta
    BY <2>1 DEF Delta
  <2>3. TypeOK' /\ ClockExact'
    <3>1. UNCHANGED <<cnt, pc, frac, cycle_last, cycles, readAt, missed, start, slewed>>
      BY <1>1, <1>5
    <3>2. Delta \in Int
      BY <2>2
    <3> QED
      BY <1>5, <3>1, <3>2, JumpIsExact DEF IndInv
  <2>5. SyncInv'
    <3>1. PICK k \in Int, m \in Int : k = sample.at /\ m = sample.missed
      BY <1>2
    <3>2. Shown(k, m) \in Int /\ HostTime(k) \in Int
      BY ShownType
    <3>3. start \in Int /\ adjusted \in Int
      BY <1>1 DEF TypeOK
    <3>4. start + (adjusted + d) = HostTime(k) + sample.err - Shown(k, m)
      BY <1>2, <2>2, <3>1, <3>2, <3>3 DEF Delta
    <3> QED
      BY <1>1, <1>2, <1>5, <2>2, <3>1, <3>4 DEF SyncInv, HostTime, Shown
  <2> QED
    BY <1>3, <2>3, <2>5 DEF IndInv, ClockInv
<1> QED
  BY <1>4, <1>5 DEF AdjPruTime

-----------------------------------------------------------------------------
(* The theorems.                                                           *)

\* What the software keeps agrees with the counter in every reachable state.
THEOREM IndInvHolds == Spec => []IndInv
<1>1. IndInv /\ UNCHANGED vars => IndInv'
  BY DEF IndInv, ClockInv, TypeOK, ClockExact, CounterInv, BeforeRunning, SampleInv, SyncInv,
         vars, clockVars, ghostVars
<1>2. IndInv /\ [Next]_vars => IndInv'
  BY <1>1, TickStep, InitialiseStep, ReadPruTimeStep, TakeSampleStep,
     AdjPruTimeStep DEF Next
<1> QED
  BY <1>2, InitInd, PTL DEF Spec

\* The clock's variables stay in their ranges.
THEOREM TypeCorrect == Spec => []TypeOK
<1>1. IndInv => TypeOK
  BY DEF IndInv, ClockInv
<1> QED
  BY <1>1, IndInvHolds, PTL

\* No reading of any length of behaviour accumulates rounding: only whole
\* turns of the counter between two reads are lost.
THEOREM Exact == Spec => []ClockExact
<1>1. IndInv => ClockExact
  BY DEF IndInv, ClockInv
<1> QED
  BY <1>1, IndInvHolds, PTL

\* After a jump the clock differs from the host's time by the error of the
\* host's timestamp and nothing else.
THEOREM SyncIsExact == Spec => []SyncExact
<1>1. IndInv => SyncExact
  <2> SUFFICES ASSUME IndInv, ~slewed, NEW s \in synced, missed = s.missed
               PROVE  nsec - (HostTime(readAt) + s.err)
                          \in IF missed = 0 THEN {0} ELSE -1 .. 1
    BY DEF SyncExact
  <2>1. nsec = start + adjusted + Shown(readAt, missed)
    BY ReadingNow DEF IndInv, ClockInv
  <2>2. PICK at \in 0 .. cycles :
            start + adjusted = HostTime(at) + s.err - Shown(at, missed)
    BY DEF IndInv, ClockInv, SyncInv
  <2>3. /\ at \in Int /\ readAt \in Int /\ missed \in Nat /\ s.err \in Int
        /\ start \in Int /\ adjusted \in Int
    BY DEF IndInv, ClockInv, TypeOK, SyncInv
  <2>4. /\ HostTime(at) \in Int /\ Shown(at, missed) \in Int
        /\ HostTime(readAt) \in Int /\ Shown(readAt, missed) \in Int
    <3>1. PICK m \in Int : m = missed
      BY <2>3
    <3>2. \A k \in Int : Shown(k, m) \in Int /\ HostTime(k) \in Int
      BY ShownType
    <3> QED
      BY <2>3, <3>1, <3>2
  <2>5. nsec - (HostTime(readAt) + s.err) =
            (HostTime(at) - Shown(at, missed)) - (HostTime(readAt) - Shown(readAt, missed))
    BY <2>1, <2>2, <2>3, <2>4
  <2> QED
    BY <2>3, <2>5, ShownAgrees
<1> QED
  BY <1>1, IndInvHolds, PTL

-----------------------------------------------------------------------------
(* The inductive invariant of the clock with slew_cc.                      *)

\* How far the clock is ahead of the host's as it was sampled for s, counting
\* the turns missed by then.
Ahead(s) ==
    (start + adjusted + (Mult * (cycles - (Wrap * s.missed)))) - (HostTime(periods) + s.err)

\* Nothing is corrected before the clock runs, ...
SlewBeforeRunning == pc # "running" => last = {} /\ periods = 0 /\ Settled

\* ... nor while a sample waits, which says how far ahead the clock still is.
SlewSampleInv ==
    sample # NoSample =>
        /\ Settled
        /\ sample.err \in Int /\ sample.missed \in Nat
        /\ sample.ts_host \in Int /\ sample.ts_pru \in Int
        /\ Delta = -Ahead(sample)

\* A correction under way: the periods of the compensation that are over have
\* counted up by what the field holds, and not by one.
UnderWay(c) ==
    Ahead(c) =
        ((CompCycles(c.delta) - IEP_COMPEN) * ((comp_inc - 1) * Mult)) - c.delta

CourseInv ==
    \A c \in last :
        /\ c.delta \in Int /\ c.err \in Int /\ c.missed \in Nat
        /\ ~Slews(c.delta) => Settled /\ Ahead(c) = 0
        /\ Slews(c.delta) /\ c.exact => comp_inc = CompInc(c.delta)
        /\ Slews(c.delta) =>
              \/ stores = {CompCycles(c.delta)} /\ IEP_COMPEN = 0 /\ Ahead(c) = -c.delta
              \/ stores = {} /\ UnderWay(c)

SlewIndInv ==
    /\ SlewTypeOK /\ ClockInv
    /\ SlewBeforeRunning /\ SlewSampleInv /\ CourseInv

-----------------------------------------------------------------------------
(* The clock with slew_cc: its counter does not always count by one.       *)

\* With Scale = 1 there are no fractions.
LEMMA WholeTimes ==
    /\ \A k \in Int : HostTime(k) = HostOffset + (Mult * k)
    /\ TypeOK => frac = 0
<1>1. Scale = 1
  BY SlewAssumption
<1>2. ASSUME NEW k \in Int PROVE HostTime(k) = HostOffset + (Mult * k)
  <2>1. PICK x \in Int : x = Mult * k
    BY ClockAssumption
  <2>2. x \div 1 = x
    OBVIOUS
  <2> QED
    BY <1>1, <2>1, <2>2 DEF HostTime
<1>3. TypeOK => frac = 0
  BY <1>1 DEF TypeOK
<1> QED
  BY <1>2, <1>3

\* The counter counts up by a natural number.
LEMMA IncrementType == SlewTypeOK => Increment \in Nat
<1> SUFFICES ASSUME SlewTypeOK PROVE Increment \in Nat
  OBVIOUS
<1>1. comp_inc \in Nat
  BY SlewAssumption DEF SlewTypeOK
<1> QED
  BY <1>1 DEF Increment

\* Counting by any number keeps counter and clock together.
LEMMA CountStep ==
    ASSUME ClockInv, NEW inc \in Nat, cnt' = (cnt + inc) % Wrap,
           cycles' = IF pc = "running" THEN cycles + inc ELSE cycles,
           UNCHANGED <<pc, nsec, frac, cycle_last, sample, readAt, missed, start,
                       adjusted, synced, slewed>>
    PROVE  ClockInv'
<1>1. TypeOK'
  <2>1. PICK k \in Int : k = cnt + inc
    BY ClockAssumption DEF ClockInv, TypeOK
  <2>2. k % Wrap \in 0 .. Wrap - 1
    BY DivMod, ClockAssumption
  <2>3. cnt' \in 0 .. Wrap - 1
    BY <2>1, <2>2
  <2>4. cycles' \in Nat /\ readAt' \in 0 .. cycles'
    BY DEF ClockInv, TypeOK
  <2> QED
    BY <2>3, <2>4 DEF ClockInv, TypeOK
<1>2. CounterInv'
  <2> SUFFICES ASSUME pc = "running"
               PROVE  cnt' = (cycle_last + ((cycles + inc) - readAt)) % Wrap
    BY DEF CounterInv
  <2>1. /\ Wrap \in Nat \ {0} /\ cycle_last \in Int /\ cycles \in Int /\ readAt \in Int
        /\ cnt = (cycle_last + (cycles - readAt)) % Wrap
    BY ClockAssumption DEF ClockInv, TypeOK, CounterInv
  <2>2. PICK a \in Int : a = cycle_last + (cycles - readAt)
    BY <2>1
  <2>3. ((a % Wrap) + inc) % Wrap = (a + inc) % Wrap
    <3>1. inc \in Int
      OBVIOUS
    <3> QED
      BY <2>1, <3>1, ModPlus
  <2>4. a + inc = cycle_last + ((cycles + inc) - readAt)
    BY <2>1, <2>2
  <2> QED
    BY <2>1, <2>2, <2>3, <2>4
<1>3. ClockExact'
  BY DEF ClockInv, ClockExact
<1>4. BeforeRunning'
  BY DEF ClockInv, BeforeRunning
<1> QED
  BY <1>1, <1>2, <1>3, <1>4 DEF ClockInv

\* While its increment is not stored, or is over, the counter counts by one.
LEMMA SettledIncrement == IEP_COMPEN = 0 => Increment = 1
  BY DEF Increment

\* A tick changes how far ahead the clock is by what it counts too much.
LEMMA AheadTicks ==
    ASSUME SlewTypeOK, NEW s, s.err \in Int, s.missed \in Nat, NEW inc \in Nat,
           cycles' = cycles + inc, periods' = periods + 1, UNCHANGED <<start, adjusted>>
    PROVE  Ahead(s) \in Int /\ Ahead(s)' = (Ahead(s) + (Mult * inc)) - Mult
<1>1. /\ Mult \in Int /\ Wrap \in Int /\ HostOffset \in Int
      /\ start \in Int /\ adjusted \in Int /\ cycles \in Int /\ periods \in Int
      /\ s.missed \in Int /\ inc \in Int
  BY ClockAssumption DEF SlewTypeOK, TypeOK
<1>2. PICK w \in Int : w = Wrap * s.missed
  BY <1>1
<1>3. PICK x \in Int : x = cycles - w
  BY <1>1
<1>4. (cycles + inc) - w = x + inc
  BY <1>1, <1>3
<1>5. Mult * (x + inc) = (Mult * x) + (Mult * inc)
  BY <1>1, Distribute
<1>6. Mult * (periods + 1) = (Mult * periods) + Mult
  BY <1>1
<1>7. /\ HostTime(periods) = HostOffset + (Mult * periods)
      /\ HostTime(periods + 1) = HostOffset + (Mult * (periods + 1))
  <2>1. periods + 1 \in Int
    BY <1>1
  <2> QED
    BY <1>1, <2>1, WholeTimes
<1>8. PICK mx \in Int, mi \in Int, mp \in Int :
          mx = Mult * x /\ mi = Mult * inc /\ mp = Mult * periods
  BY <1>1
<1>9. Ahead(s) = (start + adjusted + mx) - ((HostOffset + mp) + s.err)
  BY <1>2, <1>3, <1>7, <1>8 DEF Ahead
<1>10. HostTime(periods') = (HostOffset + mp) + Mult
  BY <1>1, <1>6, <1>7, <1>8
<1>11. Ahead(s)' = (start + adjusted + (mx + mi)) - (((HostOffset + mp) + Mult) + s.err)
  <2>1. Mult * (cycles' - (Wrap * s.missed)) = mx + mi
    BY <1>2, <1>4, <1>5, <1>8
  <2>2. Ahead(s)' = (start' + adjusted' + (Mult * (cycles' - (Wrap * s.missed))))
                        - (HostTime(periods') + s.err)
    BY DEF Ahead, HostTime
  <2> QED
    BY <1>10, <2>1, <2>2
<1> QED
  BY <1>1, <1>8, <1>9, <1>11

\* It is a number of nanoseconds.
LEMMA AheadType ==
    ASSUME SlewTypeOK, NEW s, s.err \in Int, s.missed \in Nat
    PROVE  Ahead(s) \in Int
<1>1. /\ Mult \in Int /\ Wrap \in Int /\ start + adjusted \in Int /\ cycles \in Int
      /\ periods \in Int
  BY ClockAssumption DEF SlewTypeOK, TypeOK
<1>2. PICK p \in Int : p = periods
  BY <1>1
<1>3. HostTime(p) \in Int
  BY ShownType
<1>4. Mult * (cycles - (Wrap * s.missed)) \in Int
  BY <1>1
<1> QED
  BY <1>1, <1>2, <1>3, <1>4 DEF Ahead

\* What else does not touch the counts leaves the clock as far ahead.
LEMMA AheadKept ==
    ASSUME NEW s, UNCHANGED <<start, adjusted, cycles, periods>>
    PROVE  Ahead(s)' = Ahead(s)
  BY DEF Ahead, HostTime

\* An offset in counts.
LEMMA AbsFacts ==
    ASSUME NEW delta \in Int
    PROVE  /\ Abs(delta) \in Nat /\ CompInc(delta) \in Nat /\ CompCycles(delta) \in Nat
           /\ Abs(delta) % Mult \in 0 .. Mult - 1
           /\ Abs(delta) = (Mult * (Abs(delta) \div Mult)) + (Abs(delta) % Mult)
           /\ delta < 0 => Abs(delta) = -delta
           /\ delta >= 0 => Abs(delta) = delta
<1>1. Mult \in Nat \ {0}
  BY ClockAssumption, SlewAssumption
<1>2. PICK a \in Nat : a = Abs(delta)
  BY DEF Abs
<1>3. a \div Mult \in Nat
  BY <1>1, DivNat
<1>4. a % Mult \in 0 .. Mult - 1 /\ a = (Mult * (a \div Mult)) + (a % Mult)
  BY <1>1, DivMod
<1>5. (delta < 0 => Abs(delta) = -delta) /\ (delta >= 0 => Abs(delta) = delta)
  BY DEF Abs
<1>6. CompInc(delta) \in Nat /\ CompCycles(delta) \in Nat
  BY <1>2, <1>3 DEF CompInc, CompCycles
<1> QED
  BY <1>2, <1>4, <1>5, <1>6

\* In the initial states nothing has been corrected.
LEMMA SlewInitInd == SlewInit => SlewIndInv
<1> SUFFICES ASSUME SlewInit PROVE SlewIndInv
  OBVIOUS
<1>1. ClockInv
  BY InitInd DEF SlewInit, IndInv
<1>2. comp_inc \in 0 .. 2^Bits - 1
  BY SlewAssumption DEF SlewInit
<1>3. SlewTypeOK
  BY <1>1, <1>2 DEF SlewInit, SlewTypeOK, ClockInv
<1>4. SlewBeforeRunning /\ SlewSampleInv /\ CourseInv
  BY DEF SlewInit, Init, SlewBeforeRunning, SlewSampleInv, CourseInv, Settled
<1> QED
  BY <1>1, <1>3, <1>4 DEF SlewIndInv

\* One count while the clock runs leaves a correction where it should be.
LEMMA CourseTicks ==
    ASSUME SlewTypeOK, CourseInv, UNCHANGED <<comp_inc, stores, last, start, adjusted>>,
           cycles' = cycles + Increment, periods' = periods + 1,
           IEP_COMPEN' = IF IEP_COMPEN > 0 THEN IEP_COMPEN - 1 ELSE 0
    PROVE  CourseInv'
<1> SUFFICES ASSUME NEW c \in last
             PROVE  /\ ~Slews(c.delta) => Settled' /\ Ahead(c)' = 0
                    /\ Slews(c.delta) =>
                          \/ /\ stores = {CompCycles(c.delta)}
                             /\ IEP_COMPEN' = 0 /\ Ahead(c)' = -c.delta
                          \/ stores = {} /\ UnderWay(c)'
  BY DEF CourseInv
<1>1. /\ c.delta \in Int /\ c.err \in Int /\ c.missed \in Nat
      /\ ~Slews(c.delta) => Settled /\ Ahead(c) = 0
  BY DEF CourseInv
<1>2. PICK inc \in Nat : inc = Increment
  BY IncrementType
<1>3. PICK a \in Int : a = Ahead(c)
  BY <1>1, <1>2, AheadTicks
<1>4. Ahead(c)' = (a + (Mult * inc)) - Mult
  BY <1>1, <1>2, <1>3, AheadTicks
<1>5. Mult \in Nat \ {0} /\ IEP_COMPEN \in Nat /\ comp_inc \in Nat
  BY ClockAssumption, SlewAssumption DEF SlewTypeOK
<1>6. IEP_COMPEN = 0 => IEP_COMPEN' = 0 /\ Ahead(c)' = a
  BY <1>2, <1>3, <1>4, <1>5, SettledIncrement
<1>7. ~Slews(c.delta) => Settled' /\ Ahead(c)' = 0
  BY <1>1, <1>3, <1>6 DEF Settled
<1>8. ASSUME Slews(c.delta)
      PROVE  \/ /\ stores = {CompCycles(c.delta)}
                /\ IEP_COMPEN' = 0 /\ Ahead(c)' = -c.delta
             \/ stores = {} /\ UnderWay(c)'
  <2>1. \/ stores = {CompCycles(c.delta)} /\ IEP_COMPEN = 0 /\ Ahead(c) = -c.delta
        \/ stores = {} /\ UnderWay(c)
    BY <1>8 DEF CourseInv
  <2>2. CASE stores = {CompCycles(c.delta)} /\ IEP_COMPEN = 0 /\ Ahead(c) = -c.delta
    BY <1>3, <1>6, <2>2
  <2>3. CASE stores = {} /\ UnderWay(c)
    <3>1. PICK e \in Int : e = (comp_inc - 1) * Mult
      BY <1>5
    <3>2. PICK d \in Int, n \in Nat : d = c.delta /\ n = CompCycles(c.delta)
      BY <1>1, AbsFacts
    <3>3. a = ((n - IEP_COMPEN) * e) - d
      BY <1>3, <2>3, <3>1, <3>2 DEF UnderWay
    <3>4. Ahead(c)' = ((n - IEP_COMPEN') * e) - d
      <4>1. CASE IEP_COMPEN = 0
        BY <1>6, <3>3, <4>1
      <4>2. CASE IEP_COMPEN > 0
        <5>1. inc = comp_inc /\ IEP_COMPEN' = IEP_COMPEN - 1
          BY <1>2, <4>2 DEF Increment
        <5>2. PICK m \in Int : m = Mult * comp_inc
          BY <1>5
        <5>3. e = m - Mult
          BY <1>5, <3>1, <5>2
        <5>4. PICK k \in Int : k = n - IEP_COMPEN
          BY <1>5, <3>2
        <5>5. n - IEP_COMPEN' = k + 1
          BY <1>5, <3>2, <5>1, <5>4
        <5>6. (k + 1) * e = (k * e) + e /\ k * e \in Int
          BY <3>1, <5>4
        <5> QED
          BY <1>4, <1>5, <3>1, <3>2, <3>3, <5>1, <5>2, <5>3, <5>4, <5>5, <5>6
      <4> QED
        BY <1>5, <4>1, <4>2
    <3>5. CompCycles(c.delta)' = n /\ ((comp_inc - 1) * Mult)' = e
      BY <3>1, <3>2 DEF CompCycles, Abs
    <3>6. UnderWay(c)'
      BY <3>2, <3>4, <3>5 DEF UnderWay
    <3> QED
      BY <2>3, <3>6
  <2> QED
    BY <2>1, <2>2, <2>3
<1> QED
  BY <1>7, <1>8

\* One period of the counter's clock.
LEMMA SlewedTickStep == SlewIndInv /\ SlewedTick => SlewIndInv'
<1> SUFFICES ASSUME SlewIndInv, SlewedTick PROVE SlewIndInv'
  OBVIOUS
<1>1. /\ cnt' = (cnt + Increment) % Wrap
      /\ IEP_COMPEN' = IF IEP_COMPEN > 0 THEN IEP_COMPEN - 1 ELSE 0
      /\ UNCHANGED <<pc, nsec, frac, cycle_last, sample, readAt, missed, start, adjusted,
                     synced, slewed, comp_inc, stores, last>>
  BY DEF SlewedTick, clockVars
<1>2. /\ pc = "running" => periods' = periods + 1 /\ cycles' = cycles + Increment
      /\ pc # "running" => UNCHANGED <<periods, cycles>>
  BY DEF SlewedTick
<1>3. PICK inc \in Nat : inc = Increment
  BY IncrementType DEF SlewIndInv
<1>4. ClockInv'
  <2>1. cycles' = IF pc = "running" THEN cycles + inc ELSE cycles
    BY <1>2, <1>3
  <2>2. cnt' = (cnt + inc) % Wrap
    BY <1>1, <1>3
  <2> QED
    BY <1>1, <2>1, <2>2, CountStep DEF SlewIndInv
<1>5. SlewTypeOK'
  <2>1. periods' \in Nat /\ IEP_COMPEN' \in Nat
    BY <1>1, <1>2 DEF SlewIndInv, SlewTypeOK
  <2> QED
    BY <1>1, <1>4, <2>1 DEF SlewIndInv, SlewTypeOK, ClockInv
<1>6. IEP_COMPEN = 0 => IEP_COMPEN' = 0 /\ Increment = 1
  BY <1>1, SettledIncrement
<1>7. SlewBeforeRunning'
  BY <1>1, <1>2, <1>6 DEF SlewIndInv, SlewBeforeRunning, Settled
<1>8. SlewSampleInv'
  <2> SUFFICES ASSUME sample # NoSample
               PROVE  /\ Settled' /\ sample.err \in Int /\ sample.missed \in Nat
                      /\ sample.ts_host \in Int /\ sample.ts_pru \in Int
                      /\ Delta = -(Ahead(sample)')
    BY <1>1 DEF SlewSampleInv, Delta
  <2>1. /\ Settled /\ sample.err \in Int /\ sample.missed \in Nat
        /\ sample.ts_host \in Int /\ sample.ts_pru \in Int
        /\ Delta = -Ahead(sample)
    BY DEF SlewIndInv, SlewSampleInv
  <2>2. pc = "running"
    BY DEF SlewIndInv, ClockInv, BeforeRunning
  <2>3. Settled'
    BY <1>1, <1>6, <2>1 DEF Settled
  <2>4. PICK s : s = sample
    OBVIOUS
  <2>5. cycles' = cycles + 1 /\ periods' = periods + 1
    BY <1>2, <1>6, <2>1, <2>2 DEF Settled
  <2>6. Ahead(s) \in Int /\ Ahead(s)' = (Ahead(s) + (Mult * 1)) - Mult
    BY <1>1, <2>1, <2>4, <2>5, AheadTicks DEF SlewIndInv
  <2>7. Ahead(s)' = Ahead(s)
    BY <2>6, ClockAssumption
  <2>8. Ahead(sample)' = Ahead(s)'
    BY <1>1, <2>4 DEF Ahead
  <2> QED
    BY <2>1, <2>3, <2>4, <2>7, <2>8
<1>9. CourseInv'
  <2>1. CASE pc = "running"
    BY <1>1, <1>2, <2>1, CourseTicks DEF SlewIndInv
  <2>2. CASE pc # "running"
    BY <1>1, <2>2 DEF SlewIndInv, SlewBeforeRunning, CourseInv
  <2> QED
    BY <2>1, <2>2
<1> QED
  BY <1>4, <1>5, <1>7, <1>8, <1>9 DEF SlewIndInv

\* A correction is left alone by what does not count, correct or store.
LEMMA CourseKept ==
    ASSUME CourseInv, UNCHANGED <<start, adjusted, cycles, periods,
                                  comp_inc, IEP_COMPEN, stores, last>>
    PROVE  CourseInv'
<1>1. \A c \in last : Ahead(c)' = Ahead(c)
  BY AheadKept
<1> QED
  BY <1>1 DEF CourseInv, UnderWay, Settled

\* What an exact clock without fractions shows.
LEMMA WholeReading ==
    ASSUME NEW n \in Int, NEW f \in 0 .. Scale - 1, NEW b \in Int, NEW c \in Int,
           NEW k \in Int, NEW m \in Int,
           (n * Scale) + f = (Scale * (b + c)) + (Mult * (k - (Wrap * m)))
    PROVE  n = b + c + (Mult * (k - (Wrap * m)))
<1>1. PICK x \in Int : x = Mult * (k - (Wrap * m))
  BY ClockAssumption
<1>2. Scale = 1 /\ f = 0
  BY SlewAssumption
<1> QED
  BY <1>1, <1>2

\* A sample says how far ahead of the host's the clock is.
LEMMA SampledAhead ==
    ASSUME SlewIndInv, Settled, SampleAt(periods), UNCHANGED slewVars
    PROVE  SlewSampleInv'
<1>1. PICK e \in HostErrors :
          sample' = [at |-> cycles, err |-> e, missed |-> missed',
                     ts_pru |-> nsec', ts_host |-> HostTime(periods) + e]
  BY DEF SampleAt
<1>2. ClockInv'
  BY ReadStep DEF SlewIndInv, SampleAt
<1>3. nsec' = start' + adjusted' + (Mult * (readAt' - (Wrap * missed')))
  BY <1>2, WholeReading DEF ClockInv, TypeOK, ClockExact
<1>4. readAt' = cycles /\ UNCHANGED <<start, adjusted, cycles, periods>>
  BY DEF SampleAt, TimecounterRead, slewVars
<1>5. e \in Int /\ nsec' \in Int /\ missed' \in Nat /\ HostTime(periods) \in Int
  <2>1. nsec' \in Int /\ missed' \in Nat
    BY <1>2 DEF ClockInv, TypeOK
  <2>2. periods \in Int
    BY DEF SlewIndInv, SlewTypeOK
  <2>3. Mult * periods \in Int /\ HostOffset \in Int
    BY <2>2, ClockAssumption
  <2> QED
    BY <2>1, <2>2, <2>3, WholeTimes, ClockAssumption
<1>6. Ahead(sample)' = nsec' - (HostTime(periods) + e)
  <2>1. sample'.missed = missed' /\ sample'.err = e
    BY <1>1
  <2>2. nsec' = start + adjusted + (Mult * (cycles - (Wrap * missed')))
    BY <1>3, <1>4
  <2> QED
    BY <1>4, <2>1, <2>2 DEF Ahead, HostTime
<1>7. Delta' = (HostTime(periods) + e) - nsec'
  BY <1>1 DEF Delta
<1>8. Delta' = -(Ahead(sample)')
  BY <1>5, <1>6, <1>7
<1>9. Settled'
  BY DEF Settled, slewVars
<1> QED
  BY <1>1, <1>5, <1>8, <1>9 DEF SlewSampleInv

\* The clock's own calls.
LEMMA ClockStepStep == SlewIndInv /\ ClockStep => SlewIndInv'
<1> SUFFICES ASSUME SlewIndInv, ClockStep PROVE SlewIndInv'
  OBVIOUS
<1>1. UNCHANGED <<comp_inc, IEP_COMPEN, stores, periods, last>>
  BY DEF ClockStep, slewVars
<1>2. ASSUME ClockInv' PROVE SlewTypeOK'
  BY <1>1, <1>2 DEF SlewIndInv, SlewTypeOK, ClockInv
<1>3. CASE InitArgument
  <2>1. pc = "start" /\ pc' = "starting" /\ UNCHANGED <<sample, adjusted, cycles>>
    BY <1>3 DEF InitArgument
  <2>2. /\ sample = NoSample /\ last = {} /\ periods = 0 /\ Settled
    BY <2>1 DEF SlewIndInv, SlewBeforeRunning, ClockInv, BeforeRunning
  <2>3. ClockInv'
    BY <1>3, InitialiseClock DEF SlewIndInv
  <2>4. SlewBeforeRunning' /\ SlewSampleInv' /\ CourseInv'
    BY <1>1, <2>1, <2>2 DEF SlewBeforeRunning, SlewSampleInv, CourseInv, Settled
  <2> QED
    BY <1>2, <2>3, <2>4 DEF SlewIndInv
<1>4. CASE InitTimecounter
  <2>1. pc = "starting" /\ pc' = "running" /\ UNCHANGED <<sample, adjusted, cycles>>
    BY <1>4 DEF InitTimecounter, ghostVars
  <2>2. /\ sample = NoSample /\ last = {}
    BY <2>1 DEF SlewIndInv, SlewBeforeRunning, ClockInv, BeforeRunning
  <2>3. ClockInv'
    BY <1>4, InitialiseClock DEF SlewIndInv
  <2>4. SlewBeforeRunning' /\ SlewSampleInv' /\ CourseInv'
    BY <1>1, <2>1, <2>2 DEF SlewBeforeRunning, SlewSampleInv, CourseInv
  <2> QED
    BY <1>2, <2>3, <2>4 DEF SlewIndInv
<1>5. CASE ReadPruTime
  <2>1. ClockInv'
    BY <1>5, ReadStep DEF SlewIndInv, ReadPruTime
  <2>2. UNCHANGED <<pc, sample, cycles, start, adjusted>>
    BY <1>5 DEF ReadPruTime
  <2>3. CourseInv'
    BY <1>1, <2>2, CourseKept DEF SlewIndInv
  <2>4. SlewBeforeRunning' /\ SlewSampleInv'
    BY <1>1, <2>2
    DEF SlewIndInv, SlewBeforeRunning, SlewSampleInv, Settled, Delta, Ahead, HostTime
  <2> QED
    BY <1>2, <2>1, <2>3, <2>4 DEF SlewIndInv
<1>6. CASE Settled /\ SampleAt(periods)
  <2>1. ClockInv'
    BY <1>6, ReadStep DEF SlewIndInv, SampleAt
  <2>2. UNCHANGED <<pc, cycles, start, adjusted>>
    BY <1>6 DEF SampleAt
  <2>3. CourseInv' /\ SlewSampleInv'
    BY <1>1, <1>6, <2>2, CourseKept, SampledAhead DEF SlewIndInv, slewVars
  <2>4. SlewBeforeRunning'
    BY <1>1, <2>2 DEF SlewIndInv, SlewBeforeRunning, Settled
  <2> QED
    BY <1>2, <2>1, <2>3, <2>4 DEF SlewIndInv
<1> QED
  BY <1>3, <1>4, <1>5, <1>6 DEF ClockStep

\* slew_cc takes the offset and stores the increment.
LEMMA AdjSlewStep == SlewIndInv /\ AdjSlew => SlewIndInv'
<1> SUFFICES ASSUME SlewIndInv, AdjSlew PROVE SlewIndInv'
  OBVIOUS
<1>1. /\ sample # NoSample /\ Settled /\ Slews(Delta)
      /\ stores' = {CompCycles(Delta)} /\ comp_inc' \in 0 .. 2^Bits - 1
      /\ last' = {[delta |-> Delta, exact |-> (comp_inc' = CompInc(Delta)),
                   err |-> sample.err, missed |-> sample.missed]}
      /\ slewed' = TRUE /\ synced' = {} /\ sample' = NoSample
      /\ UNCHANGED <<cnt, pc, nsec, frac, cycle_last, cycles, readAt, missed, start,
                     adjusted, IEP_COMPEN, periods>>
  BY DEF AdjSlew, SET_IEP_COMP_INC, Correction, clockVars
<1>2. /\ sample.err \in Int /\ sample.missed \in Nat
      /\ sample.ts_host \in Int /\ sample.ts_pru \in Int /\ Delta = -Ahead(sample)
  BY <1>1 DEF SlewIndInv, SlewSampleInv
<1>3. PICK d \in Int : d = Delta
  BY <1>2 DEF Delta
<1>4. ClockInv'
  BY <1>1 DEF SlewIndInv, ClockInv, TypeOK, ClockExact, CounterInv, BeforeRunning
<1>5. CompCycles(d) \in Nat
  BY AbsFacts
<1>6. SlewTypeOK'
  <2>1. stores' \subseteq Nat
    BY <1>1, <1>3, <1>5
  <2> QED
    BY <1>1, <1>4, <2>1 DEF SlewIndInv, SlewTypeOK, ClockInv
<1>7. SlewBeforeRunning' /\ SlewSampleInv'
  <2>1. pc = "running"
    BY <1>1 DEF SlewIndInv, ClockInv, BeforeRunning
  <2> QED
    BY <1>1, <2>1 DEF SlewBeforeRunning, SlewSampleInv
<1>8. CourseInv'
  <2> SUFFICES ASSUME NEW c \in last'
               PROVE  /\ c.delta = d /\ c.err \in Int /\ c.missed \in Nat
                      /\ c.exact => comp_inc' = CompInc(d)
                      /\ stores' = {CompCycles(d)} /\ IEP_COMPEN' = 0 /\ Ahead(c)' = -d
    BY <1>1, <1>3 DEF CourseInv
  <2>1. /\ c.delta = d /\ c.err = sample.err /\ c.missed = sample.missed
        /\ c.exact => comp_inc' = CompInc(d)
    <3>1. c = [delta |-> d, exact |-> (comp_inc' = CompInc(d)),
               err |-> sample.err, missed |-> sample.missed]
      BY <1>1, <1>3
    <3>2. c.exact = (comp_inc' = CompInc(d))
      BY <3>1, Zenon
    <3>3. c.delta = d /\ c.err = sample.err /\ c.missed = sample.missed
      BY <3>1
    <3> QED
      BY <3>2, <3>3, Zenon
  <2>2. IEP_COMPEN' = 0
    BY <1>1 DEF Settled
  <2>3. Ahead(c) = Ahead(sample)
    BY <2>1 DEF Ahead
  <2>4. Ahead(c)' = Ahead(c)
    BY <1>1, AheadKept
  <2>5. Ahead(c) = -d
    <3>1. PICK s : s = sample
      OBVIOUS
    <3>2. Ahead(s) \in Int
      BY <1>2, <3>1, AheadType DEF SlewIndInv
    <3> QED
      BY <1>2, <1>3, <2>3, <3>1, <3>2
  <2> QED
    BY <1>1, <1>2, <1>3, <2>1, <2>2, <2>4, <2>5
<1> QED
  BY <1>4, <1>6, <1>7, <1>8 DEF SlewIndInv

\* The length of the compensation is stored.
LEMMA AdjSlewCompenStep == SlewIndInv /\ AdjSlewCompen => SlewIndInv'
<1> SUFFICES ASSUME SlewIndInv, AdjSlewCompen PROVE SlewIndInv'
  OBVIOUS
<1>1. /\ stores # {} /\ IEP_COMPEN' \in stores /\ stores' = {}
      /\ UNCHANGED <<cnt, pc, nsec, frac, cycle_last, sample, cycles, readAt, missed, start,
                     adjusted, synced, slewed, comp_inc, periods, last>>
  BY DEF AdjSlewCompen, vars, clockVars, ghostVars
<1>2. ClockInv'
  BY <1>1 DEF SlewIndInv, ClockInv, TypeOK, ClockExact, CounterInv, BeforeRunning
<1>3. SlewTypeOK'
  BY <1>1, <1>2 DEF SlewIndInv, SlewTypeOK, ClockInv
<1>4. ~Settled /\ pc = "running" /\ sample = NoSample
  BY <1>1 DEF Settled, SlewIndInv, SlewBeforeRunning, SlewSampleInv
<1>5. SlewBeforeRunning' /\ SlewSampleInv'
  BY <1>1, <1>4 DEF SlewBeforeRunning, SlewSampleInv
<1>6. CourseInv'
  <2> SUFFICES ASSUME NEW c \in last
               PROVE  /\ c.delta \in Int /\ c.err \in Int /\ c.missed \in Nat
                      /\ Slews(c.delta)
                      /\ c.exact => comp_inc = CompInc(c.delta)
                      /\ UnderWay(c)'
    BY <1>1 DEF CourseInv
  <2>1. /\ c.delta \in Int /\ c.err \in Int /\ c.missed \in Nat /\ Slews(c.delta)
        /\ c.exact => comp_inc = CompInc(c.delta)
    BY <1>4 DEF SlewIndInv, CourseInv
  <2>2. stores = {CompCycles(c.delta)} /\ Ahead(c) = -c.delta
    BY <1>1, <2>1 DEF SlewIndInv, CourseInv
  <2>3. IEP_COMPEN' = CompCycles(c.delta) /\ Ahead(c)' = -c.delta
    BY <1>1, <2>2, AheadKept
  <2>4. PICK e \in Int : e = (comp_inc - 1) * Mult
    BY ClockAssumption, SlewAssumption DEF SlewIndInv, SlewTypeOK
  <2>5. PICK d \in Int, n \in Nat : d = c.delta /\ n = CompCycles(c.delta)
    BY <2>1, AbsFacts
  <2>6. ((n - n) * e) - d = -d
    BY <2>4, <2>5
  <2>7. CompCycles(c.delta)' = n /\ ((comp_inc - 1) * Mult)' = e
    BY <1>1, <2>4, <2>5 DEF CompCycles, Abs
  <2>8. UnderWay(c)'
    BY <2>3, <2>5, <2>6, <2>7 DEF UnderWay
  <2> QED
    BY <2>1, <2>8
<1> QED
  BY <1>2, <1>3, <1>5, <1>6 DEF SlewIndInv

\* slew_cc declines the offset and the clock jumps.
LEMMA AdjJumpStep == SlewIndInv /\ AdjJump => SlewIndInv'
<1> SUFFICES ASSUME SlewIndInv, AdjJump PROVE SlewIndInv'
  OBVIOUS
<1>1. /\ pc = "running" /\ sample # NoSample /\ Settled /\ ~Slews(Delta)
      /\ nsec' = nsec + Delta /\ adjusted' = adjusted + Delta /\ sample' = NoSample
      /\ last' = {[delta |-> Delta, exact |-> TRUE,
                   err |-> sample.err, missed |-> sample.missed]}
      /\ UNCHANGED <<cnt, pc, frac, cycle_last, cycles, readAt, missed, start, slewed,
                     comp_inc, IEP_COMPEN, stores, periods>>
  BY SlewAssumption DEF AdjJump, AdjPruTime, Correction
<1>2. /\ sample.err \in Int /\ sample.missed \in Nat
      /\ sample.ts_host \in Int /\ sample.ts_pru \in Int /\ Delta = -Ahead(sample)
  BY <1>1 DEF SlewIndInv, SlewSampleInv
<1>3. PICK d \in Int : d = Delta
  BY <1>2 DEF Delta
<1>4. ClockInv'
  <2>1. TypeOK' /\ ClockExact'
    BY <1>1, <1>3, JumpIsExact DEF SlewIndInv
  <2>2. CounterInv' /\ BeforeRunning'
    BY <1>1 DEF SlewIndInv, ClockInv, CounterInv, BeforeRunning
  <2> QED
    BY <2>1, <2>2 DEF ClockInv
<1>5. SlewTypeOK'
  BY <1>1, <1>4 DEF SlewIndInv, SlewTypeOK, ClockInv
<1>6. SlewBeforeRunning' /\ SlewSampleInv'
  BY <1>1 DEF SlewBeforeRunning, SlewSampleInv
<1>7. CourseInv'
  <2> SUFFICES ASSUME NEW c \in last'
               PROVE  /\ c.delta = d /\ c.err \in Int /\ c.missed \in Nat
                      /\ Settled' /\ Ahead(c)' = 0
    BY <1>1, <1>3 DEF CourseInv
  <2>1. c.delta = d /\ c.err = sample.err /\ c.missed = sample.missed
    BY <1>1, <1>3
  <2>2. Settled'
    BY <1>1 DEF Settled
  <2>3. Ahead(c) = Ahead(sample) /\ Ahead(c) \in Int
    <3>1. Ahead(c) = Ahead(sample)
      BY <2>1 DEF Ahead
    <3>2. Ahead(c) \in Int
      BY <1>2, <2>1, AheadType DEF SlewIndInv
    <3> QED
      BY <3>1, <3>2
  <2>4. Ahead(c)' = Ahead(c) + d
    <3>1. /\ start \in Int /\ adjusted \in Int
      BY DEF SlewIndInv, ClockInv, TypeOK
    <3>2. PICK x \in Int : x = Mult * (cycles - (Wrap * c.missed))
      BY <1>2, <2>1, ClockAssumption DEF SlewIndInv, ClockInv, TypeOK
    <3>3. PICK y \in Int : y = HostTime(periods) + c.err
      <4>1. PICK p \in Int : p = periods
        BY DEF SlewIndInv, SlewTypeOK
      <4>2. HostTime(p) \in Int
        BY ShownType
      <4> QED
        BY <1>2, <2>1, <4>1, <4>2
    <3>4. Ahead(c) = (start + adjusted + x) - y
      BY <3>2, <3>3 DEF Ahead
    <3>5. Ahead(c)' = (start + (adjusted + d) + x) - y
      BY <1>1, <1>3, <3>2, <3>3 DEF Ahead, HostTime
    <3> QED
      BY <3>1, <3>4, <3>5
  <2> QED
    BY <1>2, <1>3, <2>1, <2>2, <2>3, <2>4
<1> QED
  BY <1>4, <1>5, <1>6, <1>7 DEF SlewIndInv

\* The clock, its compensation and a correction under way in every reachable
\* state.
THEOREM SlewIndInvHolds == SlewSpec => []SlewIndInv
<1>1. ASSUME SlewIndInv, UNCHANGED allVars PROVE SlewIndInv'
  <2>1. UNCHANGED <<cnt, pc, nsec, frac, cycle_last, sample, cycles, readAt, missed, start,
                    adjusted, synced, slewed, comp_inc, IEP_COMPEN, stores, periods, last>>
    BY <1>1 DEF allVars, slewVars, vars, clockVars, ghostVars
  <2>2. ClockInv'
    BY <1>1, <2>1 DEF SlewIndInv, ClockInv, TypeOK, ClockExact, CounterInv, BeforeRunning
  <2>3. SlewTypeOK'
    BY <1>1, <2>1, <2>2 DEF SlewIndInv, SlewTypeOK, ClockInv
  <2>4. CourseInv'
    BY <1>1, <2>1, CourseKept DEF SlewIndInv
  <2>5. SlewBeforeRunning' /\ SlewSampleInv'
    BY <1>1, <2>1
    DEF SlewIndInv, SlewBeforeRunning, SlewSampleInv, Settled, Delta, Ahead, HostTime
  <2> QED
    BY <2>2, <2>3, <2>4, <2>5 DEF SlewIndInv
<1>2. SlewIndInv /\ [SlewNext]_allVars => SlewIndInv'
  BY <1>1, SlewedTickStep, ClockStepStep, AdjSlewStep, AdjSlewCompenStep, AdjJumpStep
  DEF SlewNext
<1> QED
  BY <1>2, SlewInitInd, PTL DEF SlewSpec

\* The compensation's field holds its bits, whatever is ORed into it, and the
\* clock's variables stay in their ranges while the counter's rate changes.
THEOREM SlewTypeCorrect == SlewSpec => []SlewTypeOK
<1>1. SlewIndInv => SlewTypeOK
  BY DEF SlewIndInv
<1> QED
  BY <1>1, SlewIndInvHolds, PTL

\* What a read would return when less than a turn has passed since the last.
LEMMA ClockValue ==
    ClockInv /\ pc = "running" /\ cycles - readAt < Wrap =>
        /\ cycles - readAt \in Nat
        /\ Clock = nsec + (Mult * (cycles - readAt))
        /\ Clock \in Int
<1> SUFFICES ASSUME ClockInv, pc = "running", cycles - readAt < Wrap
             PROVE  /\ cycles - readAt \in Nat
                    /\ Clock = nsec + (Mult * (cycles - readAt))
                    /\ Clock \in Int
  OBVIOUS
<1>1. cycles - readAt \in Nat /\ CycleDelta = (cycles - readAt) % Wrap
  BY DeltaIsGap
<1>2. PICK g \in 0 .. Wrap - 1 : g = cycles - readAt
  BY <1>1, ClockAssumption
<1>3. CycleDelta = g
  BY <1>1, <1>2, ModSmall, ClockAssumption
<1>4. Scale = 1 /\ frac = 0 /\ nsec \in Int
  BY SlewAssumption, WholeTimes DEF ClockInv, TypeOK
<1>5. PICK x \in Int : x = Mult * g /\ x = g * Mult
  BY ClockAssumption
<1>6. Cyc2ns(g, 0) = x
  <2>1. (x + 0) \div 1 = x
    OBVIOUS
  <2> QED
    BY <1>4, <1>5, <2>1 DEF Cyc2ns
<1>7. Clock = nsec + x
  BY <1>3, <1>4, <1>6 DEF Clock
<1> QED
  BY <1>1, <1>2, <1>3, <1>4, <1>5, <1>7

\* A correction that has run its course has done what it can: a jump has made
\* the clock the host's, slewing has left it less than a count ahead, or one to
\* two counts behind; and if the increment was not stored as it was meant, the
\* clock is off by that and nothing else.
THEOREM Settles == SlewSpec => []CorrectionSettles
<1>1. SlewIndInv => CorrectionSettles
  <2> SUFFICES ASSUME SlewIndInv, NEW c \in last,
                      Settled, missed = c.missed, cycles - readAt < Wrap
               PROVE  /\ Clock - (HostTime(periods) + c.err) = Left(c.delta)
                      /\ c.exact =>
                            Clock - (HostTime(periods) + c.err) \in Residue(c.delta)
    BY DEF CorrectionSettles
  <2>1. /\ c.delta \in Int /\ c.err \in Int /\ c.missed \in Nat
        /\ ~Slews(c.delta) => Ahead(c) = 0
        /\ Slews(c.delta) => UnderWay(c)
        /\ Slews(c.delta) /\ c.exact => comp_inc = CompInc(c.delta)
        /\ IEP_COMPEN = 0
    BY DEF SlewIndInv, CourseInv, Settled
  <2>2. pc = "running"
    BY DEF SlewIndInv, SlewBeforeRunning
  <2>3. /\ Clock = nsec + (Mult * (cycles - readAt)) /\ cycles - readAt \in Nat
    BY <2>2, ClockValue DEF SlewIndInv
  <2>4. /\ nsec \in Int /\ frac \in 0 .. Scale - 1 /\ start \in Int /\ adjusted \in Int
        /\ readAt \in Int /\ cycles \in Int /\ missed \in Int
        /\ Wrap \in Int /\ Mult \in Nat \ {0}
    BY ClockAssumption, SlewAssumption DEF SlewIndInv, ClockInv, TypeOK
  <2>5. nsec = start + adjusted + (Mult * (readAt - (Wrap * missed)))
    <3>1. (nsec * Scale) + frac =
              (Scale * (start + adjusted)) + (Mult * (readAt - (Wrap * missed)))
      BY DEF SlewIndInv, ClockInv, ClockExact
    <3>2. PICK a \in Int, x \in Int :
              a = start + adjusted /\ x = Mult * (readAt - (Wrap * missed))
      BY <2>4
    <3>3. Scale = 1 /\ frac = 0
      BY SlewAssumption, WholeTimes DEF SlewIndInv, ClockInv
    <3>4. (nsec * 1) + 0 = (1 * a) + x
      BY <3>1, <3>2, <3>3
    <3> QED
      BY <2>4, <3>2, <3>4
  <2>6. PICK w \in Int : w = readAt - (Wrap * missed)
    BY <2>4
  <2>7. PICK g \in Nat : g = cycles - readAt
    BY <2>3
  <2>8. cycles - (Wrap * missed) = w + g
    <3>1. PICK v \in Int : v = Wrap * missed
      BY <2>4
    <3> QED
      BY <2>4, <2>6, <2>7, <3>1
  <2>9. Mult * (w + g) = (Mult * w) + (Mult * g) /\ Mult * w \in Int /\ Mult * g \in Int
    BY <2>4
  <2>10. Clock = start + adjusted + (Mult * (cycles - (Wrap * missed)))
    BY <2>3, <2>4, <2>5, <2>6, <2>7, <2>8, <2>9
  <2>11. Clock - (HostTime(periods) + c.err) = Ahead(c)
    BY <2>10 DEF Ahead
  <2>12. PICK a \in Int : a = Ahead(c)
    BY <2>1, AheadType DEF SlewIndInv
  <2>13. PICK e \in Int, d \in Int, n \in Nat :
             e = (comp_inc - 1) * Mult /\ d = c.delta /\ n = CompCycles(c.delta)
    <3>1. (comp_inc - 1) * Mult \in Int
      BY <2>4, SlewAssumption DEF SlewIndInv, SlewTypeOK
    <3> QED
      BY <2>1, <3>1, AbsFacts
  <2>14. Slews(c.delta) => a = (n * e) - d
    BY <2>1, <2>12, <2>13 DEF UnderWay
  <2>15. a = Left(c.delta)
    BY <2>1, <2>12, <2>13, <2>14 DEF Left
  <2>16. ASSUME c.exact PROVE a \in Residue(c.delta)
    <3>1. CASE ~Slews(c.delta)
      BY <2>1, <2>12, <3>1 DEF Residue
    <3>2. PICK q \in Nat, m \in 0 .. Mult - 1 :
              q = Abs(d) \div Mult /\ m = Abs(d) % Mult /\ Abs(d) = (Mult * q) + m
      <4>1. PICK b \in Nat : b = Abs(d)
        BY AbsFacts
      <4>2. b \div Mult \in Nat
        BY <2>4, DivNat
      <4> QED
        BY <4>1, <4>2, AbsFacts
    <3>3. PICK p \in Int : p = Mult * q
      BY <2>4
    <3>4. CASE Slews(c.delta) /\ d < 0
      <4>1. n = q /\ comp_inc = 0 /\ p + m = -d
        BY <2>1, <2>13, <2>16, <3>2, <3>3, <3>4, AbsFacts DEF CompCycles, CompInc
      <4>2. e = -Mult
        BY <2>4, <2>13, <4>1
      <4>3. n * e = -p
        BY <2>4, <3>3, <4>1, <4>2
      <4>4. a = m
        BY <2>14, <3>3, <3>4, <4>1, <4>3
      <4> QED
        BY <2>13, <3>2, <3>4, <4>4 DEF Residue
    <3>5. CASE Slews(c.delta) /\ ~(d < 0)
      <4>1. n = 1 /\ comp_inc = q /\ p + m = d
        BY <2>1, <2>13, <2>16, <3>2, <3>3, <3>5, AbsFacts DEF CompCycles, CompInc
      <4>2. e = p - Mult
        <5>1. (q - 1) * Mult = (Mult * q) - Mult
          BY <2>4, <3>2
        <5> QED
          BY <2>13, <3>3, <4>1, <5>1
      <4>3. a = -(Mult + m)
        BY <2>4, <2>14, <3>2, <3>3, <3>5, <4>1, <4>2
      <4>4. Mult \in Int /\ m \in Int /\ m >= 0 /\ m <= Mult - 1
        BY <2>4, <3>2
      <4>5. a \in (1 - (2 * Mult)) .. -Mult
        BY <4>3, <4>4
      <4> QED
        BY <2>13, <3>5, <4>5 DEF Residue
    <3> QED
      BY <3>1, <3>4, <3>5
  <2> QED
    BY <2>11, <2>12, <2>15, <2>16
<1> QED
  BY <1>1, SlewIndInvHolds, PTL

\* Slewing never sets the clock back, whatever is read, counted or stored
\* meanwhile; only a jump does, and by Limit at the least.
THEOREM NeverStepsBackALittle == SlewSpec => NoSmallStepBack
<1>1. (ClockInv /\ pc = "running" /\ cycles - readAt < Wrap =>
          /\ cycles - readAt \in Nat
          /\ Clock = nsec + (Mult * (cycles - readAt))
          /\ Clock \in Int)'
  BY ClockValue, PTL
<1>2. ASSUME SlewIndInv, SlewIndInv', [SlewNext]_allVars,
             pc = "running", cycles' - readAt' < Wrap
      PROVE  Clock' >= Clock \/ Clock' <= Clock - Limit
  <2>1. pc' = "running"
    BY <1>2 DEF SlewNext, SlewedTick, ClockStep, InitArgument, InitTimecounter, ReadPruTime,
                SampleAt, AdjSlew, AdjSlewCompen, AdjJump, AdjPruTime, allVars, vars
  <2>2. /\ Clock' = nsec' + (Mult * (cycles' - readAt')) /\ cycles' - readAt' \in Nat
        /\ Clock' \in Int
    BY <1>1, <1>2, <2>1 DEF SlewIndInv
  <2>3. /\ nsec \in Int /\ frac \in 0 .. Scale - 1 /\ start \in Int /\ adjusted \in Int
        /\ readAt \in Int /\ cycles \in Int /\ missed \in Int
        /\ Wrap \in Nat \ {0} /\ Mult \in Nat
    BY <1>2, ClockAssumption DEF SlewIndInv, ClockInv, TypeOK
  <2>4. CASE SlewedTick
    <3>1. PICK inc \in Nat : inc = Increment
      BY <1>2, IncrementType DEF SlewIndInv
    <3>2. cycles' = cycles + inc /\ readAt' = readAt /\ nsec' = nsec
      BY <1>2, <2>4, <3>1 DEF SlewedTick, clockVars
    <3>3. cycles - readAt < Wrap
      BY <1>2, <2>3, <3>1, <3>2
    <3>4. Clock = nsec + (Mult * (cycles - readAt)) /\ cycles - readAt \in Nat /\ Clock \in Int
      BY <1>2, <3>3, ClockValue DEF SlewIndInv
    <3>5. PICK g \in Nat : g = cycles - readAt
      BY <3>4
    <3>6. cycles' - readAt' = g + inc
      BY <2>3, <3>2, <3>5
    <3>7. Mult * g <= Mult * (g + inc) /\ Mult * g \in Int /\ Mult * (g + inc) \in Int
      BY <2>3, Monotonic
    <3> QED
      BY <2>2, <2>3, <3>2, <3>4, <3>5, <3>6, <3>7
  <2>5. CASE ReadPruTime \/ SampleAt(periods)
    <3>1. TimecounterRead /\ cycles' = cycles
      BY <2>5 DEF ReadPruTime, SampleAt
    <3>2. nsec' = nsec + Cyc2ns(CycleDelta, frac) /\ cycles' - readAt' = 0
      BY <2>3, <3>1 DEF TimecounterRead
    <3>3. Clock = nsec'
      BY <3>2 DEF Clock
    <3>4. Clock' = nsec'
      <4>1. nsec' \in Int
        BY <1>2 DEF SlewIndInv, ClockInv, TypeOK
      <4>2. Mult * 0 = 0
        BY <2>3
      <4> QED
        BY <2>2, <3>2, <4>1, <4>2
    <3> QED
      BY <2>2, <3>3, <3>4
  <2>6. CASE UNCHANGED <<cnt, nsec, frac, cycle_last>>
    <3>1. Clock' = Clock
      BY <2>6 DEF Clock, Cyc2ns, CycleDelta
    <3> QED
      BY <2>2, <3>1
  <2>7. CASE AdjJump
    <3>1. sample # NoSample /\ ~Slews(Delta) /\ nsec' = nsec + Delta
          /\ UNCHANGED <<cnt, frac, cycle_last, cycles, readAt>>
      BY <2>7, SlewAssumption DEF AdjJump, AdjPruTime
    <3>2. PICK d \in Int : d = Delta
      BY <1>2, <3>1 DEF SlewIndInv, SlewSampleInv, Delta
    <3>3. d >= Limit \/ d <= -Limit
      BY <3>1, <3>2, SlewAssumption DEF Slews, Abs
    <3>4. Clock = nsec + (Mult * (cycles - readAt)) /\ Clock \in Int
      BY <1>2, <3>1, ClockValue DEF SlewIndInv
    <3>5. PICK x \in Int : x = Mult * (cycles - readAt)
      BY <2>3
    <3>6. Clock' = Clock + d
      BY <2>2, <2>3, <3>1, <3>2, <3>4, <3>5
    <3> QED
      BY <3>3, <3>4, <3>6, SlewAssumption
  <2>8. InitArgument \/ InitTimecounter => FALSE
    BY <1>2 DEF InitArgument, InitTimecounter
  <2> QED
    BY <1>2, <2>4, <2>5, <2>6, <2>7, <2>8
    DEF SlewNext, ClockStep, AdjSlew, AdjSlewCompen, allVars, vars, clockVars
<1>3. SlewIndInv /\ SlewIndInv' /\ [SlewNext]_allVars =>
          [(pc = "running" /\ cycles' - readAt' < Wrap) =>
              Clock' >= Clock \/ Clock' <= Clock - Limit]_allVars
  BY <1>2
<1> QED
  BY <1>3, SlewIndInvHolds, PTL DEF SlewSpec, NoSmallStepBack
=============================================================================
