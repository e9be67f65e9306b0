------------------------------- MODULE IepTime -------------------------------
(***************************************************************************)
(* include/nesl_pru_iep.h: the older clock of the library, kept by one PRU *)
(* on top of the IEP counter.  Unlike nesl_pru_time.h it computes with     *)
(* uint32_t, the counter's own width, and tests for a roll-over itself.    *)
(* A call is one step, at the instant it reads the counter.                *)
(***************************************************************************)
EXTENDS Integers

CONSTANTS
    Wrap,        \* 2^32: of the counter, and of the arithmetic in uint32_t
    Mult,        \* nanoseconds per count, 5 in IEP_CNT_TO_NS
    HostOffset,  \* the host's time when the counter was zero
    HostErrors,  \* by how much a host timestamp may be wrong
    MaxCycles    \* bound on the length of a behaviour

ASSUME IepAssumption ==
    /\ Wrap \in Nat \ {0}
    /\ Mult \in Nat
    /\ HostOffset \in Int
    /\ HostErrors \subseteq Int
    /\ MaxCycles \in Nat

VARIABLES
    ts_ns, last_iep_cnt, offset,  \* struct iep_time
    result,    \* what iep_get_time last returned
    sample,    \* the timestamps of the adjustment under way, if any
    cycles,    \* counts since init_iep_time; the counter is its residue
    readAt,    \* the value of cycles at the last read
    late,      \* were two reads so far apart that the product overflowed?
    rollovers, \* how often a read took the roll-over branch
    synced     \* {}, or the last adjustment's [err, rollovers]

timeVars == <<ts_ns, last_iep_cnt, offset>>
vars == <<timeVars, result, sample, cycles, readAt, late, rollovers, synced>>

Mut_IEP_CNT == cycles   \* mutated form: read as if it were 64 bits wide

IEP_CNT == cycles % Wrap

HostTime(k) == HostOffset + (Mult * k)

NoSample == [at |-> -1]

\* init_iep_time has set the counter and the struct to zero.
Init ==
    /\ ts_ns = 0 /\ last_iep_cnt = 0 /\ offset = 0 /\ result = 0
    /\ sample = NoSample
    /\ cycles = 0 /\ readAt = 0 /\ late = FALSE /\ rollovers = 0 /\ synced = {}

Tick ==
    /\ cycles < MaxCycles
    /\ cycles' = cycles + 1
    /\ UNCHANGED <<timeVars, result, sample, readAt, late, rollovers, synced>>

-----------------------------------------------------------------------------
\* IEP_CNT_TO_NS in uint32_t.
IEP_CNT_TO_NS(count) == (count * Mult) % Wrap

Mut_CountedTwice ==   \* mutated form: one count too many at a roll-over
    IF IEP_CNT < last_iep_cnt
    THEN (Wrap + 1 - last_iep_cnt) + IEP_CNT
    ELSE IEP_CNT - last_iep_cnt

\* The number of counts since last_iep_cnt, as the code has it.
Counted ==
    IF IEP_CNT < last_iep_cnt
    THEN (Wrap - 1 - last_iep_cnt) + IEP_CNT   \* UINT32_MAX - last + cnt
    ELSE IEP_CNT - last_iep_cnt

IepGetTime ==
    /\ ts_ns' = ts_ns + IEP_CNT_TO_NS(Counted)
    /\ last_iep_cnt' = IEP_CNT
    /\ result' = ts_ns' + offset
    /\ readAt' = cycles
    /\ late' = (late \/ (cycles - readAt) * Mult >= Wrap)
    /\ rollovers' = IF IEP_CNT < last_iep_cnt THEN rollovers + 1 ELSE rollovers

GetTime ==
    /\ IepGetTime
    /\ UNCHANGED <<offset, sample, cycles, synced>>

\* iep_get_time, and at the same instant the host's own timestamp.
TakeSample ==
    /\ IepGetTime
    /\ \E e \in HostErrors :
          sample' = [at |-> cycles, err |-> e, rollovers |-> rollovers',
                     ts_ns |-> result', external |-> HostTime(cycles) + e]
    /\ UNCHANGED <<offset, cycles, synced>>

Mut_AdjTime ==   \* mutated form: the offset is replaced, not added to
    /\ sample # NoSample
    /\ offset' = sample.external - sample.ts_ns
    /\ synced' = {[err |-> sample.err, rollovers |-> sample.rollovers]}
    /\ sample' = NoSample
    /\ UNCHANGED <<ts_ns, last_iep_cnt, result, cycles, readAt, late, rollovers>>

\* iep_adj_time(time, ts_ns, external_ts_ns), any time later.
AdjTime ==
    /\ sample # NoSample
    /\ offset' = offset + (sample.external - sample.ts_ns)
    /\ synced' = {[err |-> sample.err, rollovers |-> sample.rollovers]}
    /\ sample' = NoSample
    /\ UNCHANGED <<ts_ns, last_iep_cnt, result, cycles, readAt, late, rollovers>>

Next == Tick \/ GetTime \/ TakeSample \/ AdjTime

Spec == Init /\ [][Next]_vars

-----------------------------------------------------------------------------
TypeOK ==
    /\ ts_ns \in Nat /\ last_iep_cnt \in 0 .. Wrap - 1 /\ offset \in Int
    /\ result \in Int /\ cycles \in Nat /\ readAt \in 0 .. cycles
    /\ late \in BOOLEAN /\ rollovers \in Nat

\* The clock lags by one count for every roll-over it has handled, and by no
\* more while no two reads are more than 2^32 / 5 counts apart; whatever their
\* distance it is never faster than that (nesl_pru_iep.h:42-52).
LagsByRollovers ==
    /\ ts_ns <= Mult * (readAt - rollovers)
    /\ ~late => ts_ns = Mult * (readAt - rollovers)

\* After an adjustment the next read returns the host's time less one count
\* for every roll-over since its sample, and off by the host's own error.
SyncLag ==
    [][IepGetTime /\ ~late' =>
          \A s \in synced : result' = HostTime(readAt') + s.err
                                          - Mult * (rollovers' - s.rollovers)]_vars

\* What examples/read_time_latency/README.md:13 says of iep_get_time, that it
\* "handles roll over checking": a read less than one turn of the counter after
\* the last one adds the time between the two.
HandlesRollover ==
    [][GetTime /\ cycles - readAt < Wrap =>
          ts_ns' - ts_ns = Mult * (cycles - readAt)]_vars
=============================================================================
