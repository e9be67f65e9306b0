--------------------------------- MODULE Adc ---------------------------------
(***************************************************************************)
(* examples/adc with include/nesl_pru_adc.h: a PRU sets up the analogue-   *)
(* to-digital converter, lets it sample seven inputs once and copies the   *)
(* samples to the shared memory; the host prints them.                     *)
(*                                                                         *)
(* Whoever used the converter before has left its registers and queues as  *)
(* they were, and it may still be converting.  It works through the        *)
(* enabled steps in their order, puts a sample of each into a queue, and   *)
(* raises End_of_sequence after the last.  Switched off, it stops at once: *)
(* an assumption about the hardware that init_adc makes, too, for a sample *)
(* that came late would stay in the queue it has emptied.  Of a sample the *)
(* model has its step, its channel and whether it was taken since          *)
(* adc_start_sampling; clocks, delays and ranges are left out.             *)
(***************************************************************************)
EXTENDS Integers, Sequences

CONSTANT Leftover   \* steps an earlier user may have left enabled

ASSUME AdcAssumption == Leftover \subseteq 1..16

VARIABLES
    (* The converter *)
    on, tag, unlocked,  \* bits 0, 1 and 2 of CTRL
    STEPENABLE,         \* the set of enabled steps
    STEPCONFIG,         \* the channel each step samples
    end, endEnabled,    \* End_of_sequence in IRQSTATUS and IRQENABLE_SET
    fifo0, fifo1,       \* samples
    at,                 \* the last step converted in the current sequence, or 0
    (* The PRU and the host *)
    pc,                 \* of the PRU: its next store or loop
    count,              \* what FIFO0COUNT said
    shared_mem,         \* the rows written so far, one per sample
    hpc,                \* of the host: "setup", "exec", "wait", "done", "failed"
    event,              \* the PRU's interrupt
    printed,            \* the rows the host has printed
    (* For the properties *)
    started,            \* has adc_start_sampling been called?
    foreign             \* was a step that init_adc does not set up left enabled?

ctrl == <<on, tag, unlocked>>
steps == <<STEPENABLE, STEPCONFIG, at>>
fifos == <<fifo0, fifo1>>
ends == <<end, endEnabled>>
copied == <<count, shared_mem>>
rest == <<hpc, event, printed, foreign>>   \* what the PRU leaves alone but at its end
vars == <<ctrl, steps, fifos, ends, pc, copied, started, rest>>

Steps == 1..16
Used == 1..7

\* The channel init_adc gives a step: "CHANNEL 6!", "CHANNEL 5!" at the end.
Channel(step) == CASE step = 6 -> 6 [] step = 7 -> 5 [] OTHER -> step - 1

Blank == [id |-> 0, channel |-> 0, new |-> FALSE]

Init ==
    /\ on \in BOOLEAN /\ tag \in BOOLEAN /\ unlocked = FALSE
    /\ end \in BOOLEAN /\ endEnabled \in BOOLEAN
    /\ STEPENABLE \in SUBSET Leftover /\ foreign = ~(STEPENABLE \subseteq Used)
    /\ STEPCONFIG = [s \in Steps |-> 0] /\ at = 0
    /\ fifo0 \in {<<>>, <<Blank>>} /\ fifo1 \in {<<>>, <<Blank>>}
    /\ pc = "off" /\ count = 0 /\ shared_mem = <<>> /\ started = FALSE
    /\ hpc = "setup" /\ event = FALSE /\ printed = <<>>

-----------------------------------------------------------------------------
(* The converter.                                                          *)

\* The next enabled step is converted, once.
Convert ==
    /\ on
    /\ \E s \in STEPENABLE :
          /\ s > at /\ \A t \in STEPENABLE : t > at => s <= t
          /\ fifo0' = Append(fifo0, [id |-> IF tag THEN s - 1 ELSE 0,
                                     channel |-> STEPCONFIG[s], new |-> started])
          /\ STEPENABLE' = STEPENABLE \ {s}
          /\ at' = s
    /\ UNCHANGED <<ctrl, STEPCONFIG, fifo1, ends, pc, copied, started, rest>>

EndOfSequence ==
    /\ on
    /\ at > 0 /\ \A t \in STEPENABLE : t <= at
    /\ end' = TRUE
    /\ at' = 0
    /\ UNCHANGED <<ctrl, STEPENABLE, STEPCONFIG, endEnabled, fifos, pc, copied, started, rest>>

-----------------------------------------------------------------------------
(* The PRU: init_adc.                                                      *)

Goto(from, to) == pc = from /\ pc' = to

\* The module is clocked, and disabled; with it stops the sequence under way,
\* as assumed above.
Disable ==
    /\ Goto("init", "steps")
    /\ on' = FALSE /\ at' = 0
    /\ UNCHANGED <<tag, unlocked, STEPENABLE, STEPCONFIG, fifos, ends, copied, started, rest>>

\* STEPENABLE &= ~(0xff): the steps whose bits are 1 to 7.
DisableSteps ==
    /\ Goto("steps", "unlock")
    /\ STEPENABLE' = STEPENABLE \ 1..7
    /\ UNCHANGED <<ctrl, STEPCONFIG, at, fifos, ends, copied, started, rest>>

Unlock ==
    /\ Goto("unlock", "config")
    /\ unlocked' = TRUE
    /\ UNCHANGED <<on, tag, steps, fifos, ends, copied, started, rest>>

\* The steps' registers, which only an unlocked converter lets change.
Configure ==
    /\ Goto("config", "tag")
    /\ STEPCONFIG' = [s \in Steps |->
          IF unlocked /\ s \in Used THEN Channel(s) ELSE STEPCONFIG[s]]
    /\ UNCHANGED <<ctrl, STEPENABLE, at, fifos, ends, copied, started, rest>>

EnableTag ==
    /\ Goto("tag", "clear")
    /\ tag' = TRUE
    /\ UNCHANGED <<on, unlocked, steps, fifos, ends, copied, started, rest>>

\* Mutated forms: the flag is not cleared; its interrupt is not enabled.
Mut_ClearEnd == Goto("clear", "irq") /\ UNCHANGED <<ctrl, steps, fifos, ends, copied, started, rest>>
Mut_EnableEnd == Goto("irq", "lock") /\ UNCHANGED <<ctrl, steps, fifos, ends, copied, started, rest>>

ClearEnd ==
    /\ Goto("clear", "irq")
    /\ end' = FALSE
    /\ UNCHANGED <<ctrl, steps, endEnabled, fifos, copied, started, rest>>

EnableEnd ==
    /\ Goto("irq", "lock")
    /\ endEnabled' = TRUE
    /\ UNCHANGED <<ctrl, steps, end, fifos, copied, started, rest>>

Lock ==
    /\ Goto("lock", "drain")
    /\ unlocked' = FALSE
    /\ UNCHANGED <<on, tag, steps, fifos, ends, copied, started, rest>>

\* Both queues are read as often as their counts say; the converter is off.
ClearFifos ==
    /\ Goto("drain", "enable")
    /\ fifo0' = <<>> /\ fifo1' = <<>>
    /\ UNCHANGED <<ctrl, steps, ends, copied, started, rest>>

Enable ==
    /\ Goto("enable", "start")
    /\ on' = TRUE
    /\ UNCHANGED <<tag, unlocked, steps, fifos, ends, copied, started, rest>>

InitAdc ==
    \/ Disable \/ DisableSteps \/ Unlock \/ Configure \/ EnableTag \/ ClearEnd
    \/ EnableEnd \/ Lock \/ ClearFifos \/ Enable

-----------------------------------------------------------------------------
(* The PRU: main.                                                          *)

\* adc_start_sampling: STEPENABLE = 0xfe.
StartSampling ==
    /\ Goto("start", "wait")
    /\ STEPENABLE' = Used
    /\ started' = TRUE
    /\ UNCHANGED <<ctrl, STEPCONFIG, at, fifos, ends, copied, rest>>

\* wait_for_adc.
WaitForAdc ==
    /\ end /\ endEnabled
    /\ Goto("wait", "count")
    /\ end' = FALSE
    /\ UNCHANGED <<ctrl, steps, endEnabled, fifos, copied, started, rest>>

ReadAdcCount ==
    /\ Goto("count", "copy")
    /\ count' = Len(fifo0)
    /\ UNCHANGED <<ctrl, steps, fifos, ends, shared_mem, started, rest>>

\* Mutated form: one too many, which the empty queue answers with anything.
Mut_CopyRow ==
    /\ pc = "copy" /\ Len(shared_mem) <= count
    /\ shared_mem' = Append(shared_mem, IF fifo0 = <<>> THEN Blank ELSE Head(fifo0))
    /\ fifo0' = IF fifo0 = <<>> THEN <<>> ELSE Tail(fifo0)
    /\ UNCHANGED <<ctrl, steps, fifo1, ends, pc, count, started, rest>>

\* A sample, its id and its value, becomes the next row.
CopyRow ==
    /\ pc = "copy" /\ Len(shared_mem) < count
    /\ shared_mem' = Append(shared_mem, Head(fifo0))
    /\ fifo0' = Tail(fifo0)
    /\ UNCHANGED <<ctrl, steps, fifo1, ends, pc, count, started, rest>>

\* TRIG_INTC(3), then __halt.
Halt ==
    /\ Len(shared_mem) = count
    /\ Goto("copy", "halted")
    /\ event' = TRUE
    /\ UNCHANGED <<ctrl, steps, fifos, ends, copied, started, hpc, printed, foreign>>

Pru == InitAdc \/ StartSampling \/ WaitForAdc \/ ReadAdcCount \/ CopyRow \/ Halt

-----------------------------------------------------------------------------
(* The host.                                                               *)

\* The shared memory is mapped and zeroed, or a call fails.
HostSetup ==
    /\ hpc = "setup"
    /\ hpc' \in {"exec", "failed"}
    /\ shared_mem' = <<>>
    /\ UNCHANGED <<ctrl, steps, fifos, ends, pc, count, started, event, printed, foreign>>

HostExec ==
    /\ hpc = "exec" /\ hpc' = "wait"
    /\ Goto("off", "init")
    /\ UNCHANGED <<ctrl, steps, fifos, ends, copied, started, event, printed, foreign>>

\* The event: seven rows are printed, those not written being zero.
HostPrint ==
    /\ hpc = "wait" /\ event
    /\ hpc' = "done"
    /\ printed' = [k \in 1..7 |-> IF k <= Len(shared_mem) THEN shared_mem[k] ELSE Blank]
    /\ UNCHANGED <<ctrl, steps, fifos, ends, pc, copied, started, event, foreign>>

Host == HostSetup \/ HostExec \/ HostPrint

Converter == Convert \/ EndOfSequence

Next == Converter \/ Pru \/ Host

Spec == Init /\ [][Next]_vars

\* Everyone goes on with what can be done; the converter converts.
FairSpec == Spec /\ WF_vars(Converter) /\ WF_vars(Pru) /\ WF_vars(Host)

-----------------------------------------------------------------------------
Sample == [id : 0..15, channel : 0..7, new : BOOLEAN]

TypeOK ==
    /\ {on, tag, unlocked, end, endEnabled, event, started, foreign} \subseteq BOOLEAN
    /\ STEPENABLE \subseteq Steps /\ STEPCONFIG \in [Steps -> 0..7] /\ at \in 0..16
    /\ {fifo0, fifo1, shared_mem, printed} \subseteq Seq(Sample)
    /\ count \in Nat /\ Len(shared_mem) <= count

\* The sample of step k in the sequence that adc_start_sampling begins.
Row(k) == [id |-> k - 1, channel |-> Channel(k), new |-> TRUE]

\* What the host prints is one sample of each of the seven inputs, taken since
\* adc_start_sampling, in the order of the steps and with their tags, whatever
\* an earlier user has left in the queues and flags, and whatever the converter
\* was doing when init_adc began (nesl_pru_adc.h:105-198).  If steps from 8 up
\* were left enabled, which STEPENABLE &= ~(0xff) does not reach, some of their
\* samples may come first, and zeros last; but the rows between them are those
\* of the first steps, in order, and each tag says which step was sampled.
PrintsThisSequence ==
    hpc = "done" => \E m \in 0..7 : \E n \in 0..7 - m :
        /\ DOMAIN printed = 1..7
        /\ \A k \in 1..m : printed[k].id >= 7 /\ ~printed[k].new
        /\ \A k \in 1..n : printed[m + k] = Row(k)
        /\ \A k \in m + n + 1..7 : printed[k] = Blank
        /\ ~foreign => n = 7

\* The PRU polls End_of_sequence without a timeout (nesl_pru_adc.h:76) and the
\* host waits for the event without one (adc/host_main.c:59): both end, in
\* whatever state the converter is found, its interrupt enabled or not.
Terminates == <>(hpc \in {"done", "failed"})
===============================================================================
