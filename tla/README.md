# A verification development for ucla-nesl-pru-lib

The repository is a header library for the two PRUs (programmable real-time
units) of a BeagleBone, with example programs in which a PRU and a Linux host
process cooperate. This directory holds TLA+ models of the library and of the
programs that synchronise the PRU's clock with the host's, configurations that
check them with TLC, and proofs checked with TLAPS.

## 1. The system

### 1.1 Inventory

| Component | State | Operations | Correct when |
|---|---|---|---|
| **Ring buffer** `include/nesl_pru_rbuffer.h` | two indices `c`, `p` (uint16_t), 256 words, in shared memory | `init_rbuffer`, write and read of 32 or 64 bits | it is a FIFO queue of words for one producer and one consumer on different processors, with no lock; a value is never torn; a refusal is justified |
| **PRU clock** `include/nesl_pru_time.h` | `nsec`, `frac`, `cycle_last` | `init_pru_time`, `read_pru_time`, `adj_pru_time` (jump, or a slew callback) | it extends a 32-bit counter to 64 bits without accumulating error; a jump makes it the host's time |
| **IEP clock** `include/nesl_pru_iep.h` | `ts_ns`, `last_iep_cnt`, `offset`; the counter's registers | `init_iep_time`, `iep_get_time`, `iep_adj_time` | the same, with its own roll-over test |
| **time_sync** `examples/time_sync` | PRU loop; host's main, receiving and sending threads, `stop`; two ring buffers; capture queue; interrupt | a pulse and T1 on the PRU, T2 captured by the host and sent back, reports every second, shutdown | T1 and T2 are of one pulse; reports arrive; it ends; nothing is used before it is set up or after it is gone |
| **pru_clock** `examples/pru_clock` | as above, with a timestamp in shared memory and no end | the PRU stores its time continuously, the host polls it | a poll returns a time the PRU had; synchronisations keep coming |
| **measure_time_sync** `examples/measure_time_sync` | two capture channels, `ts_ready`, `last_pru_ts`, `last_host_ts` shared by two threads | both sides time-stamp an external signal, the host prints the pairs; shutdown after so many samples | a line holds both timestamps of one assertion; none is missing |
| **Slewing** `slew_cc` in two `pru_main.c`, `SET_IEP_COMP_INC` | increment and length of the compensation, in the IEP's registers | slow the counter down or speed it up | small offsets vanish without the clock going back. As built, both programs pass `NULL` in its place |
| **iep_timer** `examples/iep_timer` | one ring buffer, main and printing thread, `stop`, interrupt | a count per second, one read per interrupt, shutdown | what is printed is not older than interrupts were merged; every read finds a report; with a host that keeps up every count is printed and shutdown is safe |
| **ADC** `include/nesl_pru_adc.h`, `examples/adc` | the converter's registers and queues, rows in shared memory | `init_adc`, `adc_start_sampling`, `wait_for_adc`, copying; the host prints | what is printed is one new sample of each input, whatever an earlier user left; it ends |
| **GPIO/PWM**, **delays**, **cycle counter**, **latency** | hardware registers | bit sets, timed loops | not modelled (section 6) |

### 1.2 How the parts interact

The PRU and the host share memory, in which two ring buffers carry 64-bit values,
one in each direction; each is initialised by its producer. The PRU raises an
interrupt (`TRIG_INTC`) after writing a report; the uio driver masks it until
the host clears the event. A pulse on a pin of the PRU is wired to an input
capture of the host, whose timestamp T2 goes through the kernel's queue, the
sending thread and a ring buffer back to the PRU, which waits for it in a loop
without a timeout. The host's threads share `stop` (and, in the measurement
program, `ts_ready` and two timestamps) without a lock, and are not joined.

### 1.3 What is hard about it

* *Interleaving*: producer and consumer in a ring buffer; two threads at
  `ts_ready`; the PRU storing a timestamp in two words while the host loads it.
* *Ordering*: an event is cleared and then the buffer is emptied, while the next
  report and event are on their way; initialisation by one processor and use by
  the other; the end of the process and its threads.
* *Stale values*: indices loaded twice; flags and queues of a device that an earlier
  user left; an adjustment computed from timestamps
  that are old when it is applied; `last_ts` on a time scale that jumps.
* *Failure*: a `read()` that fails and whose error is not tested.
* *Arithmetic*: wrapping counters and indices, the fraction of a nanosecond,
  products in 32 bits, a value ORed into a 4-bit field.

`PROJECT.json` lists each hazard at its line with the properties that cover it.

## 2. The modules

| Module | Models | Notes |
|---|---|---|
| `WordFifo` | what a ring buffer promises | abstract: writes and reads take effect at one instant |
| `RBuffer` | `nesl_pru_rbuffer.h` | one action per access to a field the other side writes |
| `PruTime` | `nesl_pru_time.h` | one action per call, at the instant it reads the counter |
| `Slew` | `slew_cc` on the IEP's compensation registers | extends `PruTime`; one action per store |
| `IepTime` | `nesl_pru_iep.h` | one action per call |
| `TimeSync` | `examples/time_sync` | PRU, three host threads, interrupt, pulses |
| `PruClock` | `examples/pru_clock` | PRU, three host threads, the clock's values, the two words of the timestamp |
| `IepTimer` | `examples/iep_timer` | PRU, main and printing thread, interrupt |
| `MeasureSync` | `examples/measure_time_sync` | PRU, three host threads, the external signal, two capture channels |
| `Adc` | `nesl_pru_adc.h`, `examples/adc` | the converter (external), PRU, host |
| `RBufferProofs`, `IepTimeProofs`, `IepTimerProofs`, `TimeSyncProofs`, `PruClockProofs`, `MeasureSyncProofs`, `AdcProofs` | theorems about the module each is named after | each begins with its inductive invariant |
| `PruTimeProofs` | theorems about `PruTime`, and about `Slew`, which extends it | `SlewAssumption` is cited in the second half only |
| `MC*` | instances for TLC | the constants' values that a `.cfg` cannot write |

How they compose: `RBuffer` is shown to implement `WordFifo`, a queue of words
whose operations are atomic. The four program modules use that result: in them
a ring buffer is a bounded sequence of values with atomic operations
(`Put` drops the value if it is full, as the programs ignore the result). In
`IepTimer`, whose values are words, that is `WordFifo` itself
(`RBufferImplementsFifo`), with 255 slots in the code. The other three write and read
64 bits at a time; `RBufferHoldsValues` proves that the buffer then is a queue of whole
values, with `(RBUF_SIZE - 1) \div 2` slots, 127 in the code.
`PruTime` shows that the clock is the counted time plus the jumps while no turn
of the counter is missed; `PruClock` uses just that (`Clock == now + offset`).
`Slew` extends `PruTime` with the slew callback, which `PruTime` has answer anything.
In `TimeSync` and `MeasureSync` a timestamp is the number of the pulse or
assertion it was taken at, which is what the properties compare.

Definitions whose names begin with `Mut_` are *mutated forms*: slips a
programmer could have made in the definition they stand beside. They are no part
of any specification. Put in the place of the original, each makes TLC refute
the property `PROJECT.json` pairs it with, which shows that the property can fail.

### RBuffer

`c`, `p`, `buffer` are the fields of `struct rbuffer`; `wpc`, `wdata`, `wp` and
`rpc`, `rsize`, `rc`, `rdata` are the program counters and locals of the two
calls. A 64-bit call loads the other side's index twice (`WriteCheck2`,
`ReadCheck2`), between which the other side may move. A write stores its words,
then `p`; a read loads its words, then stores `c`. Stores are assumed to become
visible in program order: the host maps the memory uncached and is compiled
without optimisation (`build.sh`), the PRU has no cache and no store buffer.
With a compiler that reorders these plain accesses the proofs do not apply.

The refinement: a write takes effect at its store of `p`, a read at its store
of `c`, a refusal at the load that finds the buffer full or empty.

### PruTime and IepTime

The counter is `cnt` (or `cycles % Wrap`). Variables no code sees record what
has really been counted, so that "exact" can be stated. `TakeSample` is a
`read_pru_time` whose result becomes `ts_pru`, with a host timestamp captured at
the same instant; the adjustment may come any time, and any number of reads,
later; `SampleAt(k)` lets `Slew` say what the host's clock was then. `nsec` is an integer: the code keeps it modulo 2^64, and does nothing but
add to it. `IepTime` keeps the 32-bit arithmetic of `IEP_CNT_TO_NS`.

### Slew

`slew_cc` takes offsets below 100 ns (`Limit`) and lets the counter make up for
them: for `IEP_COMPEN` periods of 5 ns it counts up by `comp_inc` and not by one. A
clock that is fast stands still for as many periods as it is counts ahead; one
that is slow is to gain its counts in one period. `SlewedTick` is the counter as the
processor's manual describes it. `periods` is the time that has really passed,
`cycles` what was counted. The two stores of `slew_cc` (`AdjSlew`, `AdjSlewCompen`)
are apart, with ticks and reads between them. A correction has settled long
before the next one is made, five seconds later (`Settled`).

What comes of it, which `CorrectionSettles` states exactly:

* a jump makes the clock exact, and slowing it down leaves it less than a count
  ahead;
* a clock that was slow ends up one to two counts behind, since its one compensated
  period counts up by `comp_inc` in the place of 1, not on top of it; an offset of 0 even
  makes a right clock a count slow;
* both only if the increment was stored as it was meant (`c.exact`). `SET_IEP_COMP_INC`
  ORs it into the register and nothing clears that: after an increment of 5, one of 2
  is stored as 7; and increments from 16 up do not fit into four bits. Then too it is known
  what comes of it: the clock is off by what the field holds too much or too little,
  once per period of the compensation (`Left`), and by nothing else.

### TimeSync

`ppc` is where the PRU is in its loop; `mpc`, `rpc`, `spc` where the host's
threads are. `captured` is the kernel's queue of T2s; `sysevent`, `enabled`,
`pending` model the interrupt: raising, masking by the driver until
`prussdrv_pru_clear_event`, and the count that wakes the thread. `late` records
whether the host was ever still busy when the PRU's one-second pause was over;
two properties about shutdown are stated for a host that is never late, because
the code has nothing but the length of that pause to protect it; the one about
unmapped memory also for reads that do not fail, as a failing one sends the thread
straight to the shared buffer. `printed` is the sequence of all reports printed, so that
one lost or repeated in the middle shows.
The uid check and the library calls before anything is shared are not modelled;
the later calls may fail and end the process (`MainFail`).

### PruClock

The timestamp in shared memory is two words, lower first on both sides. The
host's clock is ahead of the PRU's by an offset that may change from one capture
to the next (the host's clock is itself stepped by NTP or PTP). A turn of the
firmware's waiting loop is `WaitRead`, `Publish` (which reads the clock), `StoreLower`,
`StoreUpper`, with time passing between any two; the main loop and the adjustment end with
the same three. The module
starts when the host has set up the memory; then come `init_qot`, the PRU's start
(`Boot`) and the two threads, each of which may fail, whereupon the process exits and
leaves the PRU running. Nothing ends this program, so its shutdown code, which is
never reached, is not modelled.

### IepTimer

`ppc`, `mpc`, `rpc` and the interrupt are as in `TimeSync`. The thread reads the
buffer once per interrupt (`RecvRead`). `merged` counts the triggers that met an
event still raised, whose reports nobody will be woken for, `dropped` the reports
that met a full buffer, `late` and `printed` are as in `TimeSync`. A report is the number of its
round: its value, the raw counter, wraps after 21.5 s and is only printed.

### MeasureSync

The signal rises and falls at any time but each level lasts until a PRU that
polls has seen it: the external microcontroller's levels last 250 ms, thousands
of polls. Waiting for the event and clearing it are two steps (`RecvWait`, `RecvClear`);
`ts_ready |= bit` is a load (`LoadReady`) and a store (`OrReady`), the test and the
reset are steps of their own. When `read()` fails, `channel` is
not assigned: `SendReadError` takes any value for it. `disturbed` records
whether anything that the code relies on has failed: `"yes"` if the host was
late, a read failed, the signal was high at the start or an assertion fell where
the PRU does not look; `"raced"` if only the two threads met at `ts_ready`.
`mpc` is where the main thread is. The PRU halts right after its last report,
without a pause like those of the other programs: main may stop the threads and
unmap the memory before the last line is printed, and while the receiving thread is
at the buffer. `PairedUnlessDisturbed` therefore grants the last line, and nothing
claims that unmapped memory is not used: in the model, as in the code, it may be.
When the device is closed a `read()` under way fails.

### Adc

Of the converter, which is external, the model has the bits the code sets, the
enabled steps, two queues and the flag End_of_sequence. It works through the enabled
steps in their order, each once ("one shot"), and queues a sample with its step's
number if tagging is on. Switched off, it stops at once: an assumption about the
hardware, and more than its manual says, which lets a conversion under way finish. `init_adc` relies
on it too, as a sample that came after it has emptied the queue would be taken for
one of this sequence. `Init` is any state an
earlier user may have left: steps enabled, a sequence about to begin or under
way, samples queued, the flag and its interrupt set or not. `foreign` records that a
step from 8 up was left enabled: `STEPENABLE &= ~(0xff)`, with which `init_adc` means
to "Disable all steps", does not reach bits 8 to 16, so samples of such steps may get
into the rows. `PrintsThisSequence` says just where: some may come first, then rows of
this sequence from the first input on, in order and rightly tagged, and zeros if the PRU
stopped before it had all seven. Without such steps all seven are there. The tags printed
as "Channel" are numbers of steps: the sixth and seventh row, tagged 5 and 6, hold
channels 6 and 5 (`Channel`), as the comments in `init_adc` point out.

## 3. The runs

| Run | States | Shows |
|---|---|---|
| `rbuffer` | 121 008 | `NoCellConflict`: no store into a cell that is unread or being read. `LoadsStayValid`: what was loaded is still the oldest unread data when it is given back. `ImplementsFifo`: refinement of `WordFifo`. `WordsGetRead`: a consumer that keeps calling gets its words |
| `prutime` | 335 716 | `ClockExact`: rounding does not add up, only whole missed turns are lost. `SyncExact`: a jump makes the clock the host's, however late it comes, and repairs turns missed before to within a nanosecond |
| `slew` | 1 615 976 | `CorrectionSettles`: exactly what a correction has achieved when it is over, also if its increment was not stored as meant. `NoSmallStepBack`: the clock never goes back, except in a jump by `Limit` or more |
| `ieptime` | 72 315 | `LagsByRollovers`: exactly one count lost per roll-over handled, and never fast. `SyncLag`: adjustments carry only the lag since their sample |
| `timesync` | 222 081 | `SamePulse` until a read fails; `NoLostWakeup`; `HostReadsInitialised`; `NoUseAfterUnmap` for a host that is not late and whose reads do not fail; `AllReportsPrinted`: the first reports, as many as fit, are never lost, no report is repeated or out of order, and a host that is not late prints all; `Terminates` for every host |
| `pruclock` | 494 632 | `ClockIsHosts` after each synchronisation; `SyncInTime` across jumps in both directions; `PollExact` when no change of the upper word meets the poll; `SyncEnds` unless the host's start fails |
| `ieptimer` | 4 703 | `Backlog`: what stays in the buffer is what merged interrupts left. `StaleByMerged`: all that is printed is in order, and that much too old ever after. `ReadsFindReports`: an interrupt never outruns its report, also when reports are dropped. `NoUseAfterUnmap`, `AllReportsPrinted` for a host that keeps up; `Terminates` |
| `measure` | 1 897 241 | `SamePulse` until a read fails; `PairedUnlessDisturbed`: every line holds one assertion's timestamps and none but perhaps the last is missing; `NoReportLeftBehind` |
| `adc` | 13 587 | `PrintsThisSequence`: one new sample of each input, whatever was there before, and foreign samples at known places only; `Terminates` |

Three runs state what a document or a comment says and show that the code does
otherwise; `PROJECT.json` quotes each line.

| Run | Claim | What the run shows |
|---|---|---|
| `ieptime_rollover` | `iep_get_time` "handles roll over checking" | reads more than 2^32/5 counts (4.29 s) apart, far less than a turn (21.5 s), overflow the 32-bit product; and each roll-over loses one count (5 ns), as `UINT32_MAX - last + cnt` is one short, which `LagsByRollovers` states exactly |
| `pruclock_torn` | the host polls the PRU's timestamp | a poll that meets a change of the upper word returns a time 4.29 s off |
| `measure_lines` | lines compare the two timestamps of an event | two threads at `ts_ready` lose a bit, and the next line pairs different assertions |

A failing `read()` makes time_sync's host send 0 as T2, and gives later pulses their
predecessors' T2: `SamePulse` holds only as long as none has failed.

### Bounds

* `rbuffer`: `RBUF_SIZE = 4` is the smallest size at which a 64-bit write both
  wraps around and meets a single free cell. The code's 256 is covered by the
  proofs.
* `prutime`: a counter of two bits and ten counts, more than two turns; 3/8 ns
  per count, so that neither a count nor a turn is a whole number of
  nanoseconds (the programs' 5 ns with `shift` 0 is the easier case). The bound
  `MaxCycles` ends a behaviour; the proofs have no such need.
* `slew`: a counter of three bits, 2 ns per count, offsets below 10 ns; a field of two
  bits, of which increments use three, so that it overflows; seven periods, which is
  room for two corrections and, since the host's timestamps may be off by -4, 0 or
  5, for slewing both ways and jumps.
* `ieptime`: three bits, 2 ns per count: overflow of the product at half a turn,
  two turns.
* `timesync`: five rounds, a synchronisation every second one, so that several
  follow each other; two slots, so that buffers do fill up; two read errors, so
  that the second may hit a pulse already mis-paired. The code has 30 rounds, every
  fifth, 127 slots.
* `pruclock`: two-bit words, so that the upper word changes often; a clock that
  moves forward and back by 3, more than the period; one slot, so that after a failed
  read, which puts one T2 too many on its way, the host may meet a full buffer.
* `adc`: an earlier user of two of the steps set up and two that are not; each queue
  empty or holding one old sample.
* `ieptimer`: three slots, the least the theorems need; seven rounds, so that the
  buffer fills up, reports are dropped, and it is emptied again. With two slots
  `ReadsFindReports` does not hold; the code has 255.
* `measure`: two assertions, the least for which a line can be paired wrongly,
  two samples, one synchronisation, one read error, two slots. The signal may be
  low or high when its capture is enabled (then, against the comment at
  `host_main.c:100`, it is rising edges that are skipped; `disturbed` records it).

Deadlock is checked where the code goes on for ever (`rbuffer`, `prutime`, `slew`,
`ieptime`); it is off in `timesync`, `ieptimer`, `measure*` and `adc`, whose programs
end, and in `pruclock*`, whose host may fail to start.

### Fairness

`RBuffer`'s consumer is weakly fair: both programs call read in a loop. Its
producer need not be. In `TimeSync` every thread is weakly fair (the scheduler
runs what can run), the hardware delivers a raised interrupt, and library calls
need not fail; a `read()` error is never forced. Weak fairness of a
thread is fairness of the disjunction of its steps, each of which stays enabled
until the thread moves. In `PruClock` the firmware, which runs alone on its
processor, main's calls but for failing ones, and the sending thread are weakly
fair; the poller and time are not.
`IepTimer` is as `TimeSync`; its PRU waits for nobody. In `Adc` the converter, the PRU
and the host are weakly fair; a call of the host may fail.

## 4. What is proved

Every safety property of the passing runs is a theorem, for every value of the
constants that the module's `ASSUME` admits, and so are the refinement and the
action properties (`NoSmallStepBack`, `PollExact`, `SyncLag`). All proofs have the same
shape: an inductive invariant `IndInv`, a conjunction of named parts with which the
module of proofs begins, a lemma for each action that it is preserved,
`IndInvHolds`, and then each property from `IndInv`.

`RBufferProofs`, for every `RBUF_SIZE` in 2..65536, every set of words and every
mix of 32-bit and 64-bit calls (`SizeAssumption`, `WordAssumption`,
`OpsAssumption`): `TypeCorrect` (`[]TypeOK`: indices stay in the array),
`NoConflict` (`[]NoCellConflict`) and `ReadsAreCurrent` (`[]LoadsStayValid`).
Neither of the last two is inductive: a side that has passed its tests relies on a
value of the other side's index that may be old. `IndInv` adds what remains true
of such values: between the tests and the store of its own index, the producer
still has the room it found (`WriterInv`) and the consumer the words it found
(`ReaderInv`), as the other side can only make more of each; what is stored
beyond `p` (`StoredInv`) and what is loaded from beyond `c` (`LoadedInv`) is what
the cells hold. The proof has one step per action, with arithmetic on indices
modulo the size in lemmas of its own.

`RBufferImplementsFifo` (`Spec => ImplementsFifo`) is the refinement. The queue is
`Pending`, the cells from `c` to `p` in order. The store of `p` appends the words
stored beyond it (`PublishEnqueues`), the store of `c` takes off the front what was loaded
(`ConsumeDequeues`); stores into cells and loads leave the queue alone
(`StoresLeavePending`, `PendingFrame`). A refusal needs most care: it is due to a load of
the other index, at which the queue really is too full or too empty
(`RefusedIsFull`, `RefusedIsEmpty`), so it takes effect there. One lemma per
side then maps each of its steps to a step of `WordFifo` or a stutter (`WordStep`).

`RBufferHoldsValues` (`Spec => ImplementsValues`) goes one level up, under the
assumption `Only64`: all that is written is two words, and all reads are of two. The queue is
`ValuesOf(Pending)`, the words in pairs, and it is the same `WordFifo` with half the room
and a pair in the place of a word. The proof needs that the number of words is even at any
time (`WholeValues`), and that a queue of words refuses two of them exactly when that
of values is full: with an even `RBUF_SIZE`, as in the code, one word stays unused
(`HalfTheRoom`). A pair is never split: `ValueAppended` and `ValueTaken`. `WordStep` and
`ValueStep` in a row give the theorem.

`PruTimeProofs`, for every counter width, rate, scale, host error and slew
policy (`ClockAssumption`): `TypeCorrect`, `Exact` (`[]ClockExact`) and
`SyncIsExact` (`[]SyncExact`). `IndInv` adds that the counter is the last one read
plus what was counted since, modulo a turn (`CounterInv`); that a sample not yet
used is what the clock showed then, of its counts less the turns missed so far (`Shown`,
`SampleInv`); and what the jumps add up to after one (`SyncInv`). Turns missed since
the start drop out of the difference but for the rounding of their time, less than
a nanosecond (`DivMinus`). `ReadIsExact` is the lemma that matters: a read turns
counts and fraction into nanoseconds and fraction without loss, for the counts
modulo a turn. No bound on the length of behaviours enters the proofs:
`MaxCycles` is any natural number.

The second half of `PruTimeProofs` is about `Slew`, for every rate, limit and width of
the increment's field (`SlewAssumption`: a whole number of nanoseconds per count, as
the programs have; and 2^Bits >= 1, since the provers know of a power only that it is a
number): `SlewTypeCorrect`, `Settles` (`[]CorrectionSettles`) and
`NeverStepsBackALittle` (`NoSmallStepBack`). `ClockInv` is the part of `IndInv` that does
not depend on the counter's rate; `SlewIndInv` adds how far the clock is ahead of the
host's as it was sampled, counting missed turns (`Ahead`): the sample that waits says
it exactly (`SlewSampleInv`), and `CourseInv` what is left of it at each moment of a
correction: all of it until the second store; from then on less what the field holds, but for one
count, for each period that has passed (`UnderWay`), whatever the field holds.
`CourseTicks` is the lemma that matters.

`IepTimeProofs`, for every counter width, rate and host error (`IepAssumption`):
`TypeCorrect`, `Lags` (`[]LagsByRollovers`) and `SyncLagHolds` (`SyncLag`). `IndInv` adds
that `last_iep_cnt` is the counter as it was last read (`CounterInv`), what a sample
not yet used says (`SampleInv`), and that the offset makes up for the difference at
the last one (`SyncInv`). `CountedGap` shows that a read counts at most the counts
passed, less one at a roll-over, and exactly that if less than a turn has passed;
`ReadAdds` that the product in 32 bits adds no more than their time, and exactly it
unless it overflowed.

`IepTimerProofs`, for every number of rounds and every buffer of at least three
words (`IepTimerAssumption`): `BacklogExact`, `Stale`, `NoReadInVain`,
`SafeShutdown`, `CompleteReports`, `TypeCorrect`. `IndInv` adds to `Backlog` the
driver's protocol (`IntcInv`: between its count and the clearing the interrupt is
disabled and the event raised), without which clearing would lose a wake-up more
than `Backlog` accounts for; that a buffer which has been full stays nearly so
(`BufferInv`: at most three interrupts are on their way when a report is dropped,
so all others were merged), from which it follows that no read is in vain; the
order of the reports, printed and in the buffer (`OrderInv`); and, for a host that keeps
up, that no event is on its way but during the pause (`LateInv`).

`TimeSyncProofs`, for every number of rounds, every interval, every size of the buffers
and any number of failing reads (`TimeSyncAssumption`): `TypeCorrect`, `AdjustsBySamePulse`
(`[]SamePulse`), `NoWakeupIsLost`, `ReadsInitialised`, `UnmapIsSafe` and
`EveryReportIsPrinted`. `SamePulse` is far from inductive: `PairInv` says that until a
`read()` fails, T2 of the current pulse is in exactly one place (the kernel's queue, the sending
thread, the ring buffer) while the PRU waits for it, and in none when it does not, so that
no older T2 can be taken for it. `NoLostWakeup` needs the driver's protocol (`IntcInv`)
and that nothing happens to the buffer before it is initialised (`BootInv`). What
`AllReportsPrinted` says of every host is `FirstInv`: a report is lost only once as many
as the buffer holds are printed or in it. The rest, and `NoUseAfterUnmap`, are about a host
that keeps up (and, for the latter, whose reads do not fail): `LateInv` (between the
pause and the next event it has nothing under way) and `BacklogInv` (it has printed all
but the report just sent).

`PruClockProofs`, for every size of the words, period and set of host offsets
(`ClockAssumption`): `TypeCorrect`, `PublishesHostClock` (`[]ClockIsHosts`),
`KeepsSynchronising` (`[]SyncInTime`) and `PollsAreExact` (`PollExact`). `PairInv` is as in
`TimeSync`, with the values of the timestamps: the T2 in its one place is the host's clock
when T1 was read, however often it was stepped. `SyncInv` says what `last_ts` is
when the clock has jumped since: the start of the last synchronisation on the
scale of before, which lies ahead of today's scale by `back`, or not at all. The test
`ts - last_ts > period` is on u64: `RangeInv` bounds every timestamp by half the
range, less the period. That the period must fit below the wrap together with twice the
largest time is an assumption the proof asked for: without it a clock
that has jumped back is not noticed to have done so. The code's 5 s against 2^64 ns
satisfy it for centuries. `PollInv` follows a poll: the half it has loaded is of a timestamp that
memory held, as long as no store changes the other half.

`MeasureSyncProofs`, for every number of samples, assertions, synchronisations, slots
and failing reads (`MeasureAssumption`): `TypeCorrect`, `AdjustsBySamePulse`,
`ReportsAreFetched` (`[]NoReportLeftBehind`) and `LinesPairUnlessDisturbed`
(`[]PairedUnlessDisturbed`). Here the pulses' T2 share the kernel's queue with the signal's
edges, so `PairInv` and `EdgeInv` speak of the positions in it that hold the one and the
other (`Pulses`, `Edges`). An assertion's report is to come, in the buffer or taken
(`ReportInv`); its edges are in the queue in their order and `i` tells which comes
next (`EdgeInv`); and `ReadyInv` gives the value of `ts_ready`, and the last line, at every place
of the two threads: bit by bit who has the current assertion's timestamp, up to
the one thread that finds both bits set, resets them and prints. It holds while the two
are not both between load and store, which is what `disturbed` records. `WakeInv`
alone carries `NoReportLeftBehind`.

`AdcProofs`, for every set of steps an earlier user left enabled (any subset of 1..16; from
any state of the flags, with an old sample in either queue or none): `TypeCorrect` and `PrintsNewSamples`
(`[]PrintsThisSequence`). `IndInv` follows the PRU: what the stores of `init_adc` have
done so far (`SetUpInv`); that the converter is off between the first and the last
(`StepsInv`), so that the flag and the queue stay empty once they were emptied
(`EmptyInv`); that in the sequence the queue holds the samples of the first steps, just
those steps are no longer enabled, and the flag is raised only after all seven
(`SequenceInv`); and that what is copied and what is left make up the seven
(`CopyInv`). These parts speak of a converter without a step from 8 up. With such a step the
PRU may see the flag of the foreign sequence: `QueueInv` says of every converter that what is
copied and what is queued (`Taken`) is some foreign samples and then the first rows of
this sequence. `CountInv` says that, whatever is left enabled, at least as many samples are
in the queue as the PRU has still to copy, so that the `Head` of an empty queue is never taken.

The run of each module also evaluates its `ASSUME`. `IndInv` itself, and
`ImplementsValues` (for sizes 2 to 7), were checked with TLC before they were
proved; the runs do not repeat that.

Only model-checked:

* Liveness, `WordsGetRead`, `Terminates` and `SyncEnds`: the prover cannot reason about
  fairness and ENABLED.
* That the code departs from what it documents (the three runs that expect a violation):
  they show behaviours, not theorems.
* That `SET_IEP_COMP_INC` always has a result: which number has given bits is a statement
  by induction over the bits, out of the prover's reach. `SlewTypeCorrect` says that the
  result stays in the field.

## 5. Plan

1. *Done*: ring buffer, both clocks, slewing, the three synchronisation programs with
   their start-up and shutdown, iep_timer, ADC; the refinement, for words and for
   64-bit values; proofs of all safety and action properties.
2. *Left*: that each program, with its buffers replaced by `RBuffer` itself, implements
   the module that has sequences in their place. The refinement is proved for the
   buffer alone; a step between two accesses of a call to it commutes with those of the
   other side, which is not stated as a theorem.

## 6. Not modelled

* The converter's clock divider, delays and range: they decide how a sample is taken
  and how long it takes, and no state. (`sample_delay - 1` wraps for the default of 0
  and shifts to the longest delay, `nesl_pru_adc.h:138`.)
* PWM: one loop with delays.
* GPIO macros, ticks, cycle counter, latency measurement, delays: single
  register accesses and instruction timing that depend on the compiler's output.
* `host_report_main.c`, `stats.py`: printing and statistics.
* Overlays, pin configuration, linker files, build scripts.
