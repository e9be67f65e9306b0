--------------------------------- MODULE Slew ---------------------------------
(***************************************************************************)
(* The clock of PruTime with slew_cc as its slew callback (pru_main.c of   *)
(* time_sync and pru_clock, where init_pru_time(&time, 5, 0, 32, read_cc,  *)
(* slew_cc) stands beside the call with NULL): small offsets are worked    *)
(* off by the IEP counter, which for IEP_COMPEN periods counts up by the   *)
(* increment in bits 8 and up of IEP_REG, and not by one.                  *)
(*                                                                         *)
(* The counter's clock and the host's keep the same pace: what there is to *)
(* correct comes from the errors of the host's timestamps.                 *)
(***************************************************************************)
EXTENDS PruTime

CONSTANTS
    Limit,   \* 100: offsets that large are left to a jump
    Bits     \* width of the increment's field in IEP_REG: 4

\* Where AdjPruTime is taken slew_cc has declined.
ASSUME SlewAssumption ==
    /\ Scale = 1 /\ Mult > 0 /\ SlewResults = {FALSE}
    /\ Limit \in Nat /\ Bits \in Nat
    /\ 2^Bits >= 1 \* so it is, but the provers know of a power only its type

VARIABLES
    comp_inc,   \* the field of IEP_REG
    IEP_COMPEN, \* counted down to 0 by the hardware
    stores,     \* {}, or {comp_cycles} between the two stores of slew_cc
    periods,    \* for the properties: of the counter's clock, since the start
    last        \* and {}, or the last correction: what it was to achieve

slewVars == <<comp_inc, IEP_COMPEN, stores, periods, last>>
allVars == <<vars, slewVars>>

\* DISABLE_IEP_TMR and ENABLE_IEP_TMR have set IEP_REG to 0x011.
SlewInit == Init /\ comp_inc = 0 /\ IEP_COMPEN = 0 /\ stores = {} /\ periods = 0 /\ last = {}

\* What the counter counts up by.
Increment == IF IEP_COMPEN > 0 THEN comp_inc ELSE 1

SlewedTick ==
    /\ periods < MaxCycles
    /\ cnt' = (cnt + Increment) % Wrap
    /\ IEP_COMPEN' = IF IEP_COMPEN > 0 THEN IEP_COMPEN - 1 ELSE 0
    /\ IF pc = "running"
       THEN periods' = periods + 1 /\ cycles' = cycles + Increment
       ELSE UNCHANGED <<periods, cycles>>
    /\ UNCHANGED <<pc, clockVars, sample, readAt, missed, start, adjusted, synced, slewed,
                   comp_inc, stores, last>>

\* The compensation is over within twenty periods of 5 ns, long before the
\* next synchronisation.
Settled == IEP_COMPEN = 0 /\ stores = {}

\* Initialisation and reads, and the timestamps of a synchronisation.
ClockStep ==
    /\ InitArgument \/ InitTimecounter \/ ReadPruTime \/ (Settled /\ SampleAt(periods))
    /\ UNCHANGED slewVars

-----------------------------------------------------------------------------
Abs(n) == IF n < 0 THEN -n ELSE n

\* Mutated form: += for |=.
Mut_SET_IEP_COMP_INC(val) == comp_inc' = comp_inc + val

\* SET_IEP_COMP_INC: val is ORed into the field; what does not fit is lost.
BitsOf(n) == {b \in 0 .. Bits - 1 : (n \div 2^b) % 2 = 1}
SET_IEP_COMP_INC(val) ==
    /\ comp_inc' \in 0 .. 2^Bits - 1
    /\ BitsOf(comp_inc') = BitsOf(comp_inc) \union BitsOf(val)

\* Mutated forms: the offset is compared as unsigned, without llabs; the
\* quotient is rounded up.
Mut_Slews(delta) == delta \in 0 .. Limit - 1
Mut_CompCycles(delta) == IF delta < 0 THEN (Abs(delta) \div Mult) + 1 ELSE 1

\* slew_cc: does it take the offset, and what it stores then.
Slews(delta) == Abs(delta) < Limit
CompCycles(delta) == IF delta < 0 THEN Abs(delta) \div Mult ELSE 1
CompInc(delta) == IF delta < 0 THEN 0 ELSE Abs(delta) \div Mult

\* The correction of the offset; exact tells if the field now holds the
\* increment that was meant.
Correction(exact) == {[delta |-> Delta, exact |-> exact,
                       err |-> sample.err, missed |-> sample.missed]}

\* adj_pru_time: slew_cc(delta) takes the offset, its first store, ...
AdjSlew ==
    /\ sample # NoSample
    /\ Settled /\ Slews(Delta)
    /\ SET_IEP_COMP_INC(CompInc(Delta))
    /\ stores' = {CompCycles(Delta)}
    /\ last' = Correction(comp_inc' = CompInc(Delta))
    /\ slewed' = TRUE /\ synced' = {} /\ sample' = NoSample
    /\ UNCHANGED <<cnt, pc, clockVars, cycles, readAt, missed, start, adjusted,
                   IEP_COMPEN, periods>>

\* ... its second one, ...
AdjSlewCompen ==
    /\ stores # {}
    /\ IEP_COMPEN' \in stores
    /\ stores' = {}
    /\ UNCHANGED <<vars, comp_inc, periods, last>>

\* ... or it returns 0 and the clock jumps.
AdjJump ==
    /\ Settled
    /\ sample # NoSample /\ ~Slews(Delta)
    /\ AdjPruTime /\ slewed' = slewed
    /\ last' = Correction(TRUE)
    /\ UNCHANGED <<comp_inc, IEP_COMPEN, stores, periods>>

SlewNext == SlewedTick \/ ClockStep \/ AdjSlew \/ AdjSlewCompen \/ AdjJump

SlewSpec == SlewInit /\ [][SlewNext]_allVars

-----------------------------------------------------------------------------
SlewTypeOK ==
    /\ TypeOK
    /\ comp_inc \in 0 .. 2^Bits - 1 /\ IEP_COMPEN \in Nat /\ stores \subseteq Nat
    /\ periods \in Nat

\* What a read would return, no turn of the counter being missed meanwhile.
Clock == nsec + Cyc2ns(CycleDelta, frac)

\* How far a corrected clock may be off.
Residue(delta) ==
    IF ~Slews(delta) THEN {0}
    ELSE IF delta < 0 THEN 0 .. Mult - 1 ELSE (1 - (2 * Mult)) .. -Mult

\* What the stores of a correction leave of the offset: IEP_COMPEN periods that
\* count up by what the field holds, and not by one.
Left(delta) ==
    IF Slews(delta) THEN (CompCycles(delta) * ((comp_inc - 1) * Mult)) - delta ELSE 0

\* A correction that has run its course leaves the clock at the host's time: a
\* jump exactly; slewing a clock that was fast, less than one count ahead of
\* it; and one that was slow, or right, one to two counts behind, because the
\* one period that counts up by comp_inc does not count up by one
\* (pru_main.c:50-60).  The increment may not have been stored as it was meant:
\* it did not fit into its field, or the OR left bits of earlier ones there.
\* Then the clock is off by just what the field holds too much or too little,
\* once per period of the compensation, and by nothing else.
CorrectionSettles ==
    \A c \in last :
        (Settled /\ missed = c.missed /\ cycles - readAt < Wrap) =>
            LET off == Clock - (HostTime(periods) + c.err) IN
            /\ off = Left(c.delta)
            /\ c.exact => off \in Residue(c.delta)

\* "This can be useful in preventing time from going backward"
\* (nesl_pru_time.h:177): with slew_cc the clock never goes back but in a jump
\* by Limit or more, however reads, ticks and stores interleave.
NoSmallStepBack ==
    [][(pc = "running" /\ cycles' - readAt' < Wrap) =>
          Clock' >= Clock \/ Clock' <= Clock - Limit]_allVars
===============================================================================
