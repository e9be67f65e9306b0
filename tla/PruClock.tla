------------------------------- MODULE PruClock -------------------------------
(***************************************************************************)
(* examples/pru_clock: the firmware that keeps a 64-bit timestamp in the   *)
(* shared memory and synchronises it with the host about every             *)
(* SYNC_PERIOD_NS (pru_main.c), and the host, one thread of which answers  *)
(* its pulses and one polls the timestamp (host_main.c, host_qot.c).       *)
(* Main waits for an event that the firmware never sends: nothing in this  *)
(* program ends it but a call that fails at the start.                     *)
(*                                                                         *)
(* The clock is the one of PruTime while no turn of the counter is missed: *)
(* the time since its start plus the jumps made so far.  The timestamp is  *)
(* two 32-bit words of memory; the PRU stores, and the host loads, the     *)
(* lower word first.                                                       *)
(***************************************************************************)
EXTENDS Integers, Sequences

CONSTANTS
    Half,            \* 2^32: what a word of a timestamp counts modulo
    U64,             \* 2^64: the unsigned arithmetic of u64
    SYNC_PERIOD_NS,
    Slots,           \* 64-bit values a ring buffer holds, 127 in the code
    HostOffsets,     \* what the host's clock may be ahead by, when it captures
    MaxReadErrors,   \* how often read() on the PTP device may fail
    MaxNow           \* bound on the time

ASSUME ClockAssumption ==
    /\ Half \in Nat \ {0} /\ U64 \in Nat /\ SYNC_PERIOD_NS \in Nat
    /\ Slots \in Nat \ {0}
    /\ HostOffsets \subseteq Nat /\ HostOffsets # {}
    /\ MaxReadErrors \in Nat /\ MaxNow \in Nat
    \* Timestamps, of today's host too, are far below 2^63, and the period is 5 s.
    /\ \A o \in HostOffsets : (2 * (MaxNow + o)) + SYNC_PERIOD_NS < U64

VARIABLES
    now,       \* nanoseconds since the counter was started
    offset,    \* the sum of the jumps of adj_pru_time
    mpc,       \* of main: "qot", "exec", "create1", "create2", "wait", "failed"
    ppc,       \* "off", "boot", "loop", "sync", "wait", "adjust",
               \* "publish", "lower", "upper"
    next,      \* where the PRU goes after *ts_mem = read_pru_time()
    last_ts, first, ts_pru,
    data,      \* what the last successful rbuf_read_uint64 returned
    val,       \* the timestamp being stored to ts_mem
    mem,       \* *ts_mem: [lower |-> , upper |-> ]
    rec_buf,   \* T2s from the host
    captured,  \* T2s in the kernel's queue
    spc,       \* send_pru_thread: "none", "read", "write", "end"
    nano_ts,   \* what it read
    errors,    \* read errors so far
    hpc,       \* poll_time_thread: "none", "sleep", "upper"
    polled     \* the lower word it has loaded

(* What no code sees, for stating properties.                              *)
VARIABLES
    testedAt,   \* when the loop last tested for a synchronisation
    syncedAt,   \* when it last began one
    back,       \* by how much the last jump went back
    hostAhead,  \* the host's offset at the last capture
    held,       \* the timestamps ts_mem has held since the poll began, those
                \* with the lower word that the poll has loaded
    overlap     \* has a store that changes the upper word overlapped the poll?

pruVars  == <<offset, ppc, next, last_ts, first, ts_pru, data, val>>
sendVars == <<spc, nano_ts, errors>>
pollVars == <<hpc, polled>>
ghosts   == <<testedAt, syncedAt, back, hostAhead, held, overlap>>
vars == <<now, mpc, pruVars, mem, rec_buf, captured, sendVars, pollVars, ghosts>>

Lower(t) == t % Half
Upper(t) == t \div Half
Timestamp(words) == (Half * words.upper) + words.lower

\* read_pru_time.
Clock == now + offset

\* ts - last_ts in u64.
Mut_Elapsed(ts) == ts - last_ts   \* mutated form: in s64
Elapsed(ts) == (ts - last_ts) % U64

\* The host has mapped and zeroed the shared memory and initialised the buffer.
Init ==
    /\ now = 0 /\ offset = 0
    /\ mpc = "qot" /\ ppc = "off" /\ next = "loop"
    /\ last_ts = 0 /\ first = TRUE /\ ts_pru = 0 /\ data = 0 /\ val = 0
    /\ mem = [lower |-> 0, upper |-> 0]
    /\ rec_buf = <<>> /\ captured = <<>>
    /\ spc = "none" /\ nano_ts = 0 /\ errors = 0
    /\ hpc = "none" /\ polled = 0
    /\ testedAt = 0 /\ syncedAt = 0 /\ back = 0 /\ hostAhead = 0
    /\ held = {} /\ overlap = FALSE

Tick ==
    /\ now < MaxNow /\ ppc \notin {"off", "boot"}
    /\ now' = now + 1
    /\ UNCHANGED <<mpc, pruVars, mem, rec_buf, captured, sendVars, pollVars, ghosts>>

-----------------------------------------------------------------------------
(* The PRU.                                                                *)

\* What comes next is *ts_mem = read_pru_time(), and where the PRU goes from it.
PublishThen(after) == ppc' = "publish" /\ next' = after

\* After WAIT_MS: the counter is started, and the clock.
Boot ==
    /\ ppc = "boot"
    /\ ppc' = "loop"
    /\ UNCHANGED <<now, mpc, offset, next, last_ts, first, ts_pru, data, val, mem,
                   rec_buf, captured, sendVars, pollVars, ghosts>>

Loop ==
    /\ ppc = "loop"
    /\ testedAt' = now
    /\ IF Elapsed(Clock) > SYNC_PERIOD_NS \/ first
       THEN /\ first' = FALSE
            /\ last_ts' = Clock
            /\ syncedAt' = now
            /\ ppc' = "sync"
            /\ UNCHANGED next
       ELSE /\ PublishThen("loop")
            /\ UNCHANGED <<first, last_ts, syncedAt>>
    /\ UNCHANGED <<now, mpc, offset, ts_pru, data, val, mem, rec_buf, captured,
                   sendVars, pollVars, back, hostAhead, held, overlap>>

\* T1 is read and the pulse sent; the input capture takes T2.
Pulse ==
    /\ ppc = "sync"
    /\ ts_pru' = Clock
    /\ \E o \in HostOffsets :
          /\ hostAhead' = o
          /\ captured' = Append(captured, now + o)
    /\ ppc' = "wait"
    /\ UNCHANGED <<now, mpc, offset, next, last_ts, first, data, val, mem, rec_buf,
                   sendVars, pollVars, testedAt, syncedAt, back, held, overlap>>

\* One turn of do { read; *ts_mem = ... } while(status).
WaitRead ==
    /\ ppc = "wait"
    /\ IF rec_buf = <<>>
       THEN /\ PublishThen("wait")
            /\ UNCHANGED <<data, rec_buf>>
       ELSE /\ data' = Head(rec_buf)
            /\ rec_buf' = Tail(rec_buf)
            /\ PublishThen("adjust")
    /\ UNCHANGED <<now, mpc, offset, last_ts, first, ts_pru, val, mem, captured,
                   sendVars, pollVars, ghosts>>

\* *ts_mem = read_pru_time(): the clock is read, then stored by words.
Publish ==
    /\ ppc = "publish"
    /\ val' = Clock
    /\ ppc' = "lower"
    /\ UNCHANGED <<now, mpc, offset, next, last_ts, first, ts_pru, data, mem, rec_buf,
                   captured, sendVars, pollVars, ghosts>>

StoreLower ==
    /\ ppc = "lower"
    /\ mem' = [mem EXCEPT !.lower = Lower(val)]
    /\ IF hpc = "upper"
       THEN /\ held' = held \union {t \in {val} : Lower(t) = polled}
            /\ overlap' = (overlap \/ Upper(val) # mem.upper)
       ELSE UNCHANGED <<held, overlap>>
    /\ ppc' = "upper"
    /\ UNCHANGED <<now, mpc, offset, next, last_ts, first, ts_pru, data, val, rec_buf,
                   captured, sendVars, pollVars, testedAt, syncedAt, back, hostAhead>>

StoreUpper ==
    /\ ppc = "upper"
    /\ mem' = [mem EXCEPT !.upper = Upper(val)]
    /\ val' = 0
    /\ ppc' = next
    /\ UNCHANGED <<now, mpc, offset, next, last_ts, first, ts_pru, data, rec_buf,
                   captured, sendVars, pollVars, ghosts>>

\* adj_pru_time without a slew callback is a jump.
AdjustBy(delta) ==
    /\ ppc = "adjust"
    /\ offset' = offset + delta
    /\ back' = IF delta < 0 THEN -delta ELSE 0
    /\ PublishThen("loop")
    /\ UNCHANGED <<now, mpc, last_ts, first, ts_pru, data, val, mem, rec_buf, captured,
                   sendVars, pollVars, testedAt, syncedAt, hostAhead, held, overlap>>

Mut_AdjustSign == AdjustBy(ts_pru - data)    \* mutated form: operands swapped
Mut_AdjustFromNow == AdjustBy(data - Clock)  \* mutated form: by the time now, not T1

Adjust == AdjustBy(data - ts_pru)

Pru ==
    \/ Boot \/ Loop \/ Pulse \/ WaitRead \/ Adjust
    \/ Publish \/ StoreLower \/ StoreUpper

-----------------------------------------------------------------------------
(* The host: main.                                                         *)

Goto(from, to) == mpc = from /\ mpc' = to

InitQot ==
    /\ Goto("qot", "exec")
    /\ UNCHANGED <<now, pruVars, mem, rec_buf, captured, sendVars, pollVars, ghosts>>

MainExec ==
    /\ Goto("exec", "create1")
    /\ ppc' = "boot"
    /\ UNCHANGED <<now, offset, next, last_ts, first, ts_pru, data, val, mem, rec_buf,
                   captured, sendVars, pollVars, ghosts>>

MainCreatePoller ==
    /\ Goto("create1", "create2")
    /\ hpc' = "sleep"
    /\ UNCHANGED <<now, pruVars, mem, rec_buf, captured, sendVars, polled, ghosts>>

MainCreateSender ==
    /\ Goto("create2", "wait")
    /\ spc' = "read"
    /\ UNCHANGED <<now, pruVars, mem, rec_buf, captured, nano_ts, errors, pollVars, ghosts>>

\* A library call fails: exit(EXIT_FAILURE) ends all threads, the PRU goes on.
MainFail ==
    /\ mpc \in {"qot", "create1", "create2"}
    /\ mpc' = "failed"
    /\ UNCHANGED <<now, pruVars, mem, rec_buf, captured, sendVars, pollVars, ghosts>>

Main == InitQot \/ MainExec \/ MainCreatePoller \/ MainCreateSender

-----------------------------------------------------------------------------
(* The host: the two threads, which stop is never set to end.              *)

Alive == mpc # "failed"

\* send_pru_thread: qot_read_event_ts returns the oldest T2, ...
SendRead ==
    /\ Alive /\ spc = "read"
    /\ captured # <<>>
    /\ nano_ts' = Head(captured)
    /\ captured' = Tail(captured)
    /\ spc' = "write"
    /\ UNCHANGED <<now, mpc, pruVars, mem, rec_buf, errors, pollVars, ghosts>>

Mut_SendReadError ==   \* mutated form: the thread ends on an error
    /\ Alive /\ spc = "read"
    /\ errors < MaxReadErrors
    /\ errors' = errors + 1
    /\ spc' = "end"
    /\ UNCHANGED <<now, mpc, pruVars, mem, rec_buf, captured, nano_ts, pollVars, ghosts>>

\* ... or read() fails and it returns 0.
SendReadError ==
    /\ Alive /\ spc = "read"
    /\ errors < MaxReadErrors
    /\ errors' = errors + 1
    /\ nano_ts' = 0
    /\ spc' = "write"
    /\ UNCHANGED <<now, mpc, pruVars, mem, rec_buf, captured, pollVars, ghosts>>

\* Whatever it returned is sent to the PRU, unless the buffer is full.
SendWrite ==
    /\ Alive /\ spc = "write"
    /\ rec_buf' = IF Len(rec_buf) < Slots THEN Append(rec_buf, nano_ts) ELSE rec_buf
    /\ spc' = "read"
    /\ UNCHANGED <<now, mpc, pruVars, mem, captured, nano_ts, errors, pollVars, ghosts>>

\* poll_time_thread loads the timestamp, a word at a time.
PollLower ==
    /\ Alive /\ hpc = "sleep"
    /\ polled' = mem.lower
    /\ held' = {Timestamp(mem)}
    /\ overlap' = (ppc = "upper" /\ Upper(val) # mem.upper)
    /\ hpc' = "upper"
    /\ UNCHANGED <<now, mpc, pruVars, mem, rec_buf, captured, sendVars,
                   testedAt, syncedAt, back, hostAhead>>

Mut_Polled == [lower |-> mem.upper, upper |-> polled]   \* mutated form: swapped

\* The value of ts with which a poll ends, printed and not kept.
Polled == [lower |-> polled, upper |-> mem.upper]

PollUpper ==
    /\ Alive /\ hpc = "upper"
    /\ polled' = 0
    /\ hpc' = "sleep"
    /\ held' = {} /\ overlap' = FALSE
    /\ UNCHANGED <<now, mpc, pruVars, mem, rec_buf, captured, sendVars,
                   testedAt, syncedAt, back, hostAhead>>

Host ==
    \/ Main \/ MainFail
    \/ SendRead \/ SendReadError \/ SendWrite \/ PollLower \/ PollUpper

-----------------------------------------------------------------------------
Next == Tick \/ Pru \/ Host

Spec == Init /\ [][Next]_vars

\* The PRU never stops and the host runs its threads.  Nothing makes a call fail.
FairSpec ==
    Spec /\ WF_vars(Pru) /\ WF_vars(Main) /\ WF_vars(SendRead \/ SendWrite)

-----------------------------------------------------------------------------
(* Properties.                                                             *)

Words == [lower : 0 .. Half - 1, upper : Nat]

\* Every variable has its type; the clock and its timestamps never go below 0.
TypeOK ==
    /\ now \in 0..MaxNow /\ offset \in Int /\ Clock >= 0
    /\ {ppc, next} \subseteq {"off", "boot", "loop", "sync", "wait", "adjust",
                            "publish", "lower", "upper"}
    /\ {last_ts, ts_pru, data, val, nano_ts, back, hostAhead} \subseteq Nat
    /\ first \in BOOLEAN /\ overlap \in BOOLEAN
    /\ mem \in Words /\ polled \in 0 .. Half - 1
    /\ rec_buf \in Seq(Nat) /\ Len(rec_buf) <= Slots
    /\ captured \in Seq(Nat) /\ held \subseteq Nat
    /\ mpc \in {"qot", "exec", "create1", "create2", "wait", "failed"}
    /\ spc \in {"none", "read", "write", "end"} /\ errors \in 0..MaxReadErrors
    /\ hpc \in {"none", "sleep", "upper"}
    /\ testedAt \in 0..now /\ syncedAt \in 0..now

\* Synchronisations keep coming in time although last_ts is on the scale of
\* before the jump (pru_main.c:104-106): the loop goes on without one only if
\* the clock has not jumped back beyond last_ts, and at most the period, and
\* what the clock has jumped back, after the last one.
SyncInTime ==
    (~first /\ ppc \in {"publish", "lower", "upper"} /\ next = "loop" /\ testedAt # syncedAt) =>
        testedAt - syncedAt \in back .. SYNC_PERIOD_NS + back

\* As long as no read() has failed, the clock the PRU publishes between two
\* synchronisations is the host's at the capture of the last pulse, carried on:
\* also when T2 was on its way for long (pru_main.c:109-123).
ClockIsHosts ==
    (errors = 0 /\ ~first /\ ppc = "loop") => offset = hostAhead

\* A poll that no store of a new upper word overlaps gets a timestamp that was
\* in memory at some moment of the poll (host_main.c:53, pru_main.c:118,127).
PollExact == [][PollUpper /\ ~overlap => Timestamp(Polled) \in held]_vars


\* The PRU, which waits without a timeout, is answered: every synchronisation
\* ends, also if a read() fails now and then and however late the host creates
\* the thread that answers; only a host that fails leaves the PRU waiting.
SyncEnds == ppc = "sync" ~> ppc = "adjust" \/ mpc = "failed"
=============================================================================
