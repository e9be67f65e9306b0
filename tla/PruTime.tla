------------------------------- MODULE PruTime -------------------------------
(***************************************************************************)
(* include/nesl_pru_time.h: the 64-bit clock of a PRU, extrapolated in     *)
(* software from a free-running hardware counter of a few bits (the IEP    *)
(* timer, 32 bits at 200 MHz in the examples).  One PRU owns the clock, so *)
(* a call is one step, taken at the instant it reads the counter; only     *)
(* init_pru_time reads the counter twice and is two steps.                 *)
(*                                                                         *)
(* nsec is the integer whose residue modulo 2^64 the code keeps: all that  *)
(* is done to it are additions.  The product in cyclecounter_cyc2ns stays  *)
(* below 2^64 for counters of up to 32 bits.                               *)
(***************************************************************************)
EXTENDS Integers

CONSTANTS
    Wrap,        \* 2^bits: what the counter counts modulo
    Mult,        \* cc.mult
    Scale,       \* 2^cc.shift: nanoseconds are counted in units of 1 / Scale
    SlewResults, \* {FALSE}: slew_cc is NULL or declines; TRUE: it may take over
    HostOffset,  \* the host's time when the counter was first read
    HostErrors,  \* by how much a host timestamp may be wrong
    MaxCycles    \* bound on the length of a behaviour

ASSUME ClockAssumption ==
    /\ Wrap \in Nat \ {0}
    /\ Mult \in Nat
    /\ Scale \in Nat \ {0}
    /\ SlewResults \subseteq BOOLEAN
    /\ HostOffset \in Int
    /\ HostErrors \subseteq Int
    /\ MaxCycles \in Nat

VARIABLES
    cnt,          \* the hardware counter
    pc,           \* "start", "starting" (in init_pru_time), "running"
    nsec,         \* tc.nsec
    frac,         \* tc.frac
    cycle_last,   \* tc.cycle_last
    sample        \* ts_pru and ts_host of the adjustment under way, if any

clockVars == <<nsec, frac, cycle_last>>

(* What no code sees, for stating properties.                              *)
VARIABLES
    cycles,    \* counts since the clock was initialised
    readAt,    \* the value of cycles when the clock was last read
    missed,    \* whole turns of the counter that fell between two reads
    start,     \* IEP_CNT as init_pru_time read it: the first value of nsec
    adjusted,  \* the sum of the jumps made by adj_pru_time
    synced,    \* {}, or {[err, missed]}: the last jump's sample
    slewed     \* has slew_cc changed the rate of the counter?

ghostVars == <<cycles, readAt, missed, start, adjusted, synced, slewed>>
vars == <<cnt, pc, clockVars, sample, ghostVars>>

NoSample == [at |-> -1]

\* The host's clock runs at the nominal rate of the counter.
HostTime(k) == HostOffset + ((Mult * k) \div Scale)

Init ==
    /\ cnt \in 0 .. Wrap - 1
    /\ pc = "start"
    /\ nsec = 0 /\ frac = 0 /\ cycle_last = 0
    /\ sample = NoSample
    /\ cycles = 0 /\ readAt = 0 /\ missed = 0 /\ start = 0 /\ adjusted = 0
    /\ synced = {} /\ slewed = FALSE

-----------------------------------------------------------------------------
\* One period of the counter's clock.
Tick ==
    /\ cycles < MaxCycles
    /\ cnt' = (cnt + 1) % Wrap
    /\ cycles' = IF pc = "running" THEN cycles + 1 ELSE cycles
    /\ UNCHANGED <<pc, clockVars, sample, readAt, missed, start, adjusted, synced, slewed>>

\* init_pru_time: IEP_CNT is read for the argument start_tstamp, ...
InitArgument ==
    /\ pc = "start"
    /\ nsec' = cnt
    /\ start' = cnt
    /\ pc' = "starting"
    /\ UNCHANGED <<cnt, frac, cycle_last, sample,
                   cycles, readAt, missed, adjusted, synced, slewed>>

\* ... and timecounter_init reads the counter again for cycle_last.
InitTimecounter ==
    /\ pc = "starting"
    /\ cycle_last' = cnt
    /\ frac' = 0
    /\ pc' = "running"
    /\ UNCHANGED <<cnt, nsec, sample, ghostVars>>

-----------------------------------------------------------------------------
\* Mutated forms of the operators below, each a plausible slip in the code,
\* which must make TLC refute a property; no part of the specification.
Mut_Cyc2nsFracUnmasked(n, f) == (n * Mult) + f         \* "& mask" dropped
Mut_Cyc2nsFracDropped(n, f) == 0                      \* *frac is not stored
Mut_DeltaNegated == sample.ts_pru - sample.ts_host     \* operands swapped

\* cyclecounter_cyc2ns: the nanoseconds, and what is left over.
Cyc2ns(n, f) == ((n * Mult) + f) \div Scale
Cyc2nsFrac(n, f) == ((n * Mult) + f) % Scale

\* cycle_delta in timecounter_read_delta: the distance modulo 2^bits.
CycleDelta == (cnt - cycle_last) % Wrap

\* timecounter_read: brings nsec, frac and cycle_last up to date.
TimecounterRead ==
    /\ nsec' = nsec + Cyc2ns(CycleDelta, frac)
    /\ frac' = Cyc2nsFrac(CycleDelta, frac)
    /\ cycle_last' = cnt
    /\ readAt' = cycles
    /\ missed' = missed + ((cycles - readAt) \div Wrap)

\* read_pru_time, the result not kept for an adjustment.
ReadPruTime ==
    /\ pc = "running"
    /\ TimecounterRead
    /\ UNCHANGED <<cnt, pc, sample, cycles, start, adjusted, synced, slewed>>

\* A pair of timestamps is taken: the PRU's clock is read (ts_pru), and the
\* host captures its own (ts_host) at the same instant, which is k.
SampleAt(k) ==
    /\ pc = "running"
    /\ TimecounterRead
    /\ \E e \in HostErrors :
          sample' = [at |-> cycles, err |-> e, missed |-> missed',
                     ts_pru |-> nsec', ts_host |-> HostTime(k) + e]
    /\ UNCHANGED <<cnt, pc, cycles, start, adjusted, synced, slewed>>

TakeSample == SampleAt(cycles)

\* The offset adj_pru_time computes, and returns.
Delta == sample.ts_host - sample.ts_pru

\* adj_pru_time(pru_time, ts_pru, ts_host), any time later: it jumps unless
\* the slew callback takes the offset.
AdjPruTime ==
    /\ pc = "running"
    /\ sample # NoSample
    /\ \E slews \in SlewResults :
          IF slews
          THEN /\ slewed' = TRUE
               /\ synced' = {}
               /\ UNCHANGED <<nsec, adjusted>>
          ELSE /\ nsec' = nsec + Delta
               /\ adjusted' = adjusted + Delta
               /\ synced' = {[err |-> sample.err, missed |-> sample.missed]}
               /\ UNCHANGED slewed
    /\ sample' = NoSample
    /\ UNCHANGED <<cnt, pc, frac, cycle_last, cycles, readAt, missed, start>>

Next ==
    \/ Tick
    \/ InitArgument \/ InitTimecounter
    \/ ReadPruTime \/ TakeSample \/ AdjPruTime

Spec == Init /\ [][Next]_vars

-----------------------------------------------------------------------------
TypeOK ==
    /\ cnt \in 0 .. Wrap - 1 /\ cycle_last \in 0 .. Wrap - 1
    /\ pc \in {"start", "starting", "running"}
    /\ nsec \in Int /\ frac \in 0 .. Scale - 1
    /\ cycles \in Nat /\ readAt \in 0 .. cycles /\ missed \in Nat
    /\ start \in Nat /\ adjusted \in Int /\ slewed \in BOOLEAN

\* However many reads the count was divided into, the clock is the exact
\* nominal time of the counts since its start: rounding does not add up, and
\* nothing is lost but whole turns of the counter, those that fell between
\* two reads further apart than one turn ("call this periodically").
ClockExact ==
    (nsec * Scale) + frac =
        (Scale * (start + adjusted)) + (Mult * (readAt - (Wrap * missed)))

\* The clock that has jumped to the host's time reads the host's time, with
\* the error of the host's timestamp and no other: however long ago the pair
\* of timestamps was taken and however often the clock was read since.  If
\* turns were missed before the pair was taken, the jump repairs them, to
\* within one nanosecond of rounding.  (The counter runs at its nominal rate
\* and no turn was missed since.)
SyncExact ==
    ~slewed => \A s \in synced :
        missed = s.missed =>
            nsec - (HostTime(readAt) + s.err) \in IF missed = 0 THEN {0} ELSE -1 .. 1
=============================================================================
