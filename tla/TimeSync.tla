------------------------------- MODULE TimeSync -------------------------------
(***************************************************************************)
(* examples/time_sync: the firmware of one PRU (pru_main.c), the host      *)
(* program with its main thread and its two worker threads (host_main.c,   *)
(* host_qot.c), the two ring buffers between them, and the hardware they   *)
(* share: the pin whose pulses the host's input capture time-stamps, and   *)
(* the interrupt from the PRU.                                             *)
(*                                                                         *)
(* A timestamp stands for the pulse it was taken at: T1 of pulse k is k on *)
(* the PRU, T2 of pulse k is k on the host, a timestamp of nothing is 0.   *)
(* A ring buffer is a queue of 64-bit values: RBuffer implements one.      *)
(***************************************************************************)
EXTENDS Integers, Sequences

CONSTANTS
    Rounds,          \* reports the PRU sends, 30 in the code
    SyncEvery,       \* a synchronisation every so many rounds, 5 in the code
    Slots,           \* 64-bit values a ring buffer holds, 127 in the code
    MaxReadErrors    \* how often read() on the PTP device may fail

ASSUME TimeSyncAssumption ==
    /\ Rounds \in Nat \ {0} /\ SyncEvery \in Nat \ {0} /\ Slots \in Nat \ {0}
    /\ MaxReadErrors \in Nat

VARIABLES
    (* The PRU *)
    ppc,       \* "off", "boot", "loop", "sync", "wait", "report", "trigger",
               \* "pause", "halted"
    i,         \* rounds left
    t1,        \* ts_pru
    t2,        \* ts_host of the last adjustment, equal to t1 if it is right
    (* The host *)
    mpc,       \* main: "setup", "qot", "exec", "create1", "create2", "wait",
               \* "deinit", "disable", "unmap", "done", or "failed"
    rpc,       \* receive_pru_thread: "none", "test", "wait", "clear", "drain", "end"
    spc,       \* send_pru_thread: "none", "test", "read", "write", "end"
    nano_ts,   \* what the send thread read
    stop,      \* volatile int stop
    printed,   \* the reports printed so far
    errors,    \* read errors so far
    (* Between them *)
    toPru,     \* send_to_pru_rbuffer, rec_buf on the PRU
    toHost,    \* receive_from_pru_rbuffer, send_buf on the PRU
    ready,     \* has init_rbuffer(send_buf) run? before, all of it is zero
    captured,  \* T2s in the kernel's queue, not yet read
    sysevent,  \* system event 19 is raised
    enabled,   \* its host interrupt is enabled
    pending,   \* the host's interrupt count has moved since it was last read
    ended,     \* PRU_EVTOUT_1 has fired
    late       \* for the properties: was the host busy when a pause was over?

pruVars    == <<ppc, i, t1, t2>>
mainVars   == <<mpc, stop>>
recvVars   == <<rpc, printed>>
sendVars   == <<spc, nano_ts, errors>>
intcVars   == <<sysevent, enabled, pending>>
vars == <<pruVars, mainVars, recvVars, sendVars, intcVars,
          toPru, toHost, ready, captured, ended, late>>

Init ==
    /\ ppc = "off" /\ i = Rounds /\ t1 = 0 /\ t2 = 0
    /\ mpc = "setup" /\ stop = FALSE
    /\ rpc = "none" /\ printed = <<>>
    /\ spc = "none" /\ nano_ts = 0 /\ errors = 0
    /\ toPru = <<>> /\ toHost = <<>> /\ ready = FALSE
    /\ captured = <<>>
    /\ sysevent = FALSE /\ enabled = TRUE /\ pending = FALSE /\ ended = FALSE /\ late = FALSE

\* Mutated form: a full buffer loses its oldest value.
Mut_Put(queue, value) ==
    IF Len(queue) < Slots THEN Append(queue, value) ELSE Append(Tail(queue), value)

\* rbuf_write_uint64, its result ignored: a full buffer drops the value.
Put(queue, value) == IF Len(queue) < Slots THEN Append(queue, value) ELSE queue

-----------------------------------------------------------------------------
(* The PRU.                                                                *)

\* After the first WAIT_MS: init_rbuffer(send_buf), and the clock.
PruBoot ==
    /\ ppc = "boot"
    /\ toHost' = <<>>
    /\ ready' = TRUE
    /\ ppc' = "loop"
    /\ UNCHANGED <<i, t1, t2, mainVars, recvVars, sendVars, intcVars,
                   toPru, captured, ended, late>>

\* Mutated form: one round too many.
Mut_PruLoop ==
    /\ ppc = "loop"
    /\ i' = i - 1
    /\ ppc' = IF (i - 1) % SyncEvery = 0 THEN "sync" ELSE "report"
    /\ UNCHANGED <<t1, t2, mainVars, recvVars, sendVars, intcVars,
                   toPru, toHost, ready, captured, ended, late>>

\* while(i--), and whether this round starts with a synchronisation.
PruLoop ==
    /\ ppc = "loop"
    /\ i > 0
    /\ i' = i - 1
    /\ ppc' = IF (i - 1) % SyncEvery = 0 THEN "sync" ELSE "report"
    /\ UNCHANGED <<t1, t2, mainVars, recvVars, sendVars, intcVars,
                   toPru, toHost, ready, captured, ended, late>>

\* T1 is read and the pulse is sent; the input capture takes T2.
PruPulse ==
    /\ ppc = "sync"
    /\ t1' = t1 + 1
    /\ captured' = Append(captured, t1')
    /\ ppc' = "wait"
    /\ UNCHANGED <<i, t2, mainVars, recvVars, sendVars, intcVars,
                   toPru, toHost, ready, ended, late>>

\* Mutated form: the read is not repeated, and an empty buffer reads as 0.
Mut_PruAdjust ==
    /\ ppc = "wait"
    /\ t2' = IF toPru = <<>> THEN 0 ELSE Head(toPru)
    /\ toPru' = IF toPru = <<>> THEN toPru ELSE Tail(toPru)
    /\ ppc' = "report"
    /\ UNCHANGED <<i, t1, mainVars, recvVars, sendVars, intcVars,
                   toHost, ready, captured, ended, late>>

\* The read that succeeds, after any number that did not, and the
\* adjustment by its value.
PruAdjust ==
    /\ ppc = "wait"
    /\ toPru # <<>>
    /\ t2' = Head(toPru)
    /\ toPru' = Tail(toPru)
    /\ ppc' = "report"
    /\ UNCHANGED <<i, t1, mainVars, recvVars, sendVars, intcVars,
                   toHost, ready, captured, ended, late>>

\* The report of round number Rounds - i is put into the buffer, ...
PruReport ==
    /\ ppc = "report"
    /\ toHost' = Put(toHost, Rounds - i)
    /\ ppc' = "trigger"
    /\ UNCHANGED <<i, t1, t2, mainVars, recvVars, sendVars, intcVars,
                   toPru, ready, captured, ended, late>>

\* Mutated form: no pause after the last round.
Mut_PruTrigger ==
    /\ ppc = "trigger"
    /\ sysevent' = TRUE
    /\ ppc' = IF i = 0 THEN "loop" ELSE "pause"
    /\ UNCHANGED <<i, t1, t2, mainVars, recvVars, sendVars, enabled, pending,
                   toPru, toHost, ready, captured, ended, late>>

\* ... and TRIG_INTC(3) raises the event.
PruTrigger ==
    /\ ppc = "trigger"
    /\ sysevent' = TRUE
    /\ ppc' = "pause"
    /\ UNCHANGED <<i, t1, t2, mainVars, recvVars, sendVars, enabled, pending,
                   toPru, toHost, ready, captured, ended, late>>

\* All the host's work for this round is done.
HostIdle ==
    /\ rpc \in {"wait", "end"} /\ ~pending /\ ~(sysevent /\ enabled)
    /\ spc \in {"read", "end"} /\ captured = <<>>

\* WAIT_MS(1000): a host that keeps up is idle again when it is over.
PruPause ==
    /\ ppc = "pause"
    /\ ppc' = "loop"
    /\ late' = (late \/ ~HostIdle)
    /\ UNCHANGED <<i, t1, t2, mainVars, recvVars, sendVars, intcVars,
                   toPru, toHost, ready, captured, ended>>

\* terminate(): TRIG_INTC(4), then __halt.
PruTerminate ==
    /\ ppc = "loop"
    /\ i = 0
    /\ ended' = TRUE
    /\ ppc' = "halted"
    /\ UNCHANGED <<i, t1, t2, mainVars, recvVars, sendVars, intcVars,
                   toPru, toHost, ready, captured, late>>

Pru ==
    \/ PruBoot \/ PruLoop \/ PruPulse \/ PruAdjust
    \/ PruReport \/ PruTrigger \/ PruPause \/ PruTerminate

-----------------------------------------------------------------------------
(* The interrupt controller and the uio driver.                            *)

\* The driver counts the interrupt, and disables it until it is cleared.
Irq ==
    /\ sysevent /\ enabled
    /\ enabled' = FALSE
    /\ pending' = TRUE
    /\ UNCHANGED <<pruVars, mainVars, recvVars, sendVars, sysevent,
                   toPru, toHost, ready, captured, ended, late>>

-----------------------------------------------------------------------------
(* The main thread.                                                        *)

Goto(from, to) == mpc = from /\ mpc' = to

Alive == mpc \notin {"done", "failed"}

\* memset of the shared memory, init_rbuffer(send_to_pru_rbuffer).
MainSetup ==
    /\ Goto("setup", "qot")
    /\ toPru' = <<>>
    /\ toHost' = <<>>
    /\ ready' = FALSE
    /\ UNCHANGED <<pruVars, stop, recvVars, sendVars, intcVars,
                   captured, ended, late>>

\* init_qot: the input capture of the pin is enabled, with nothing in the
\* kernel's queue.
InitQot ==
    /\ Goto("qot", "exec")
    /\ captured' = <<>>
    /\ UNCHANGED <<pruVars, stop, recvVars, sendVars, intcVars,
                   toPru, toHost, ready, ended, late>>

\* prussdrv_exec_program.
MainExec ==
    /\ Goto("exec", "create1")
    /\ ppc' = "boot"
    /\ UNCHANGED <<i, t1, t2, stop, recvVars, sendVars, intcVars,
                   toPru, toHost, ready, captured, ended, late>>

MainCreateReceiver ==
    /\ Goto("create1", "create2")
    /\ rpc' = "test"
    /\ UNCHANGED <<pruVars, stop, printed, sendVars, intcVars,
                   toPru, toHost, ready, captured, ended, late>>

MainCreateSender ==
    /\ Goto("create2", "wait")
    /\ spc' = "test"
    /\ UNCHANGED <<pruVars, stop, recvVars, nano_ts, errors, intcVars,
                   toPru, toHost, ready, captured, ended, late>>

\* A library call fails: exit(EXIT_FAILURE) ends all threads.
MainFail ==
    /\ mpc \in {"setup", "qot", "create1", "create2"}
    /\ mpc' = "failed"
    /\ UNCHANGED <<pruVars, stop, recvVars, sendVars, intcVars,
                   toPru, toHost, ready, captured, ended, late>>

\* prussdrv_pru_wait_event(PRU_EVTOUT_1), then stop = 1.
MainStop ==
    /\ ended
    /\ Goto("wait", "deinit")
    /\ stop' = TRUE
    /\ UNCHANGED <<pruVars, recvVars, sendVars, intcVars,
                   toPru, toHost, ready, captured, ended, late>>

\* deinit_qot disables the pin: no T2 is queued any more.
MainDeinit ==
    /\ Goto("deinit", "disable")
    /\ captured' = <<>>
    /\ UNCHANGED <<pruVars, stop, recvVars, sendVars, intcVars,
                   toPru, toHost, ready, ended, late>>

\* prussdrv_pru_disable, then prussdrv_exit unmaps the shared memory.
MainUnmap ==
    /\ Goto("disable", "unmap")
    /\ ppc' = "off"
    /\ UNCHANGED <<i, t1, t2, stop, recvVars, sendVars, intcVars,
                   toPru, toHost, ready, captured, ended, late>>

\* The process exits, and with it the worker threads: nothing joins them.
MainReturn ==
    /\ Goto("unmap", "done")
    /\ UNCHANGED <<pruVars, stop, recvVars, sendVars, intcVars,
                   toPru, toHost, ready, captured, ended, late>>

Main ==
    \/ MainSetup \/ InitQot \/ MainExec \/ MainCreateReceiver \/ MainCreateSender \/ MainFail
    \/ MainStop \/ MainDeinit \/ MainUnmap \/ MainReturn

-----------------------------------------------------------------------------
(* receive_pru_thread.                                                     *)

\* Mutated form: the buffer is polled before the first interrupt.
Mut_RecvTest ==
    /\ Alive /\ rpc = "test"
    /\ rpc' = IF stop THEN "end" ELSE "drain"
    /\ UNCHANGED <<pruVars, mainVars, printed, sendVars, intcVars,
                   toPru, toHost, ready, captured, ended, late>>

RecvTest ==
    /\ Alive /\ rpc = "test"
    /\ rpc' = IF stop THEN "end" ELSE "wait"
    /\ UNCHANGED <<pruVars, mainVars, printed, sendVars, intcVars,
                   toPru, toHost, ready, captured, ended, late>>

\* prussdrv_pru_wait_event returns.
RecvWait ==
    /\ Alive /\ rpc = "wait"
    /\ pending
    /\ pending' = FALSE
    /\ rpc' = "clear"
    /\ UNCHANGED <<pruVars, mainVars, printed, sendVars, sysevent, enabled,
                   toPru, toHost, ready, captured, ended, late>>

\* Mutated form: the event is not cleared.
Mut_RecvClear ==
    /\ Alive /\ rpc = "clear"
    /\ rpc' = "drain"
    /\ UNCHANGED <<pruVars, mainVars, printed, sendVars, intcVars,
                   toPru, toHost, ready, captured, ended, late>>

\* prussdrv_pru_clear_event takes the event down and enables the interrupt.
RecvClear ==
    /\ Alive /\ rpc = "clear"
    /\ sysevent' = FALSE
    /\ enabled' = TRUE
    /\ rpc' = "drain"
    /\ UNCHANGED <<pruVars, mainVars, printed, sendVars, pending,
                   toPru, toHost, ready, captured, ended, late>>

\* while(!status): a value is read and printed ...
RecvPrint ==
    /\ Alive /\ rpc = "drain"
    /\ toHost # <<>>
    /\ printed' = Append(printed, Head(toHost))
    /\ toHost' = Tail(toHost)
    /\ UNCHANGED <<pruVars, mainVars, rpc, sendVars, intcVars,
                   toPru, ready, captured, ended, late>>

\* ... until there is none.
RecvEmpty ==
    /\ Alive /\ rpc = "drain"
    /\ toHost = <<>>
    /\ rpc' = "test"
    /\ UNCHANGED <<pruVars, mainVars, printed, sendVars, intcVars,
                   toPru, toHost, ready, captured, ended, late>>

Recv == RecvTest \/ RecvWait \/ RecvClear \/ RecvPrint \/ RecvEmpty

-----------------------------------------------------------------------------
(* send_pru_thread.                                                        *)

SendTest ==
    /\ Alive /\ spc = "test"
    /\ spc' = IF stop THEN "end" ELSE "read"
    /\ UNCHANGED <<pruVars, mainVars, recvVars, nano_ts, errors, intcVars,
                   toPru, toHost, ready, captured, ended, late>>

\* qot_read_event_ts returns the oldest T2.
SendRead ==
    /\ Alive /\ spc = "read"
    /\ captured # <<>>
    /\ nano_ts' = Head(captured)
    /\ captured' = Tail(captured)
    /\ spc' = "write"
    /\ UNCHANGED <<pruVars, mainVars, recvVars, errors, intcVars,
                   toPru, toHost, ready, ended, late>>

\* Mutated form: the thread ends on an error.
Mut_SendReadError ==
    /\ Alive /\ spc = "read"
    /\ errors < MaxReadErrors
    /\ errors' = errors + 1
    /\ spc' = "end"
    /\ UNCHANGED <<pruVars, mainVars, recvVars, nano_ts, intcVars,
                   toPru, toHost, ready, captured, ended, late>>

\* read() fails: qot_read_event_ts sets *err and returns 0.
SendReadError ==
    /\ Alive /\ spc = "read"
    /\ errors < MaxReadErrors
    /\ errors' = errors + 1
    /\ nano_ts' = 0
    /\ spc' = "write"
    /\ UNCHANGED <<pruVars, mainVars, recvVars, intcVars,
                   toPru, toHost, ready, captured, ended, late>>

\* rbuf_write_uint64, whatever err is.
SendWrite ==
    /\ Alive /\ spc = "write"
    /\ toPru' = Put(toPru, nano_ts)
    /\ spc' = "test"
    /\ UNCHANGED <<pruVars, mainVars, recvVars, nano_ts, errors, intcVars,
                   toHost, ready, captured, ended, late>>

Send == SendTest \/ SendRead \/ SendReadError \/ SendWrite

-----------------------------------------------------------------------------
Next == Pru \/ Irq \/ Main \/ Recv \/ Send

Spec == Init /\ [][Next]_vars

\* Each thread runs whenever it can, the hardware delivers, and library calls
\* need not fail.  A read error is never bound to happen.
FairSpec ==
    /\ Spec
    /\ WF_vars(Pru) /\ WF_vars(Irq)
    /\ WF_vars(Main) /\ WF_vars(Recv)
    /\ WF_vars(SendTest \/ SendRead \/ SendWrite)

-----------------------------------------------------------------------------
(* Properties.                                                             *)

\* Every variable has its type, and neither buffer is ever overfull.
TypeOK ==
    /\ ppc \in {"off", "boot", "loop", "sync", "wait", "report", "trigger",
               "pause", "halted"}
    /\ i \in 0..Rounds /\ t1 \in 0..Rounds /\ t2 \in 0..Rounds
    /\ mpc \in {"setup", "qot", "exec", "create1", "create2", "wait", "deinit",
               "disable", "unmap", "done", "failed"}
    /\ stop \in BOOLEAN
    /\ rpc \in {"none", "test", "wait", "clear", "drain", "end"}
    /\ printed \in Seq(1..Rounds)
    /\ spc \in {"none", "test", "read", "write", "end"}
    /\ nano_ts \in 0..Rounds /\ errors \in 0..MaxReadErrors
    /\ toPru \in Seq(0..Rounds) /\ Len(toPru) <= Slots
    /\ toHost \in Seq(1..Rounds) /\ Len(toHost) <= Slots
    /\ captured \in Seq(1..Rounds)
    /\ {ready, sysevent, enabled, pending, ended, late} \subseteq BOOLEAN

\* Until a read() fails, the PRU computes its offset from the T1 and the T2
\* of one and the same pulse (pru_main.c:113-135), although T2 crosses the
\* kernel, a thread and a buffer that name no pulse.
SamePulse == errors = 0 /\ ppc # "wait" => t2 = t1

\* No lost wake-up: once the PRU has triggered its event, a report in the
\* buffer always has an interrupt on the way to the receiving thread or finds
\* the thread about to drain the buffer (host_main.c:54-62, pru_main.c:143-145).
NoLostWakeup ==
    (ready /\ toHost # <<>> /\ ppc # "trigger") =>
        (sysevent /\ enabled) \/ pending \/ rpc \in {"clear", "drain"}

\* The host reads the PRU's buffer only after the PRU has initialised it:
\* before, its memory is all zero, which reads as a full buffer of zeros
\* (host_main.c:125-131, pru_main.c:85).
HostReadsInitialised == rpc = "drain" => ready

\* No thread touches a buffer after prussdrv_exit has unmapped it, although
\* nothing joins the threads (host_main.c:163-172): the pause after the last
\* round is long enough for a host that keeps up and whose reads do not fail.
NoUseAfterUnmap ==
    ~late /\ errors = 0 /\ mpc \in {"unmap", "done"} =>
        rpc # "drain" /\ spc # "write"

\* Reports the PRU has put, or tried to put, into the buffer; and what the host
\* has had of them or can still read.
Sent == IF ppc \in {"sync", "wait", "report"} THEN Rounds - i - 1 ELSE Rounds - i
Reports == printed \o toHost

\* What becomes of the reports although the result of rbuf_write_uint64 is
\* ignored (pru_main.c:143) and one interrupt may stand for several of them
\* (host_main.c:54-62).  However late the host is, the first reports, as many
\* as the buffer has room for, are never lost, and those after them never
\* printed twice or out of their order: 30 reports fit into 127 places.  And a
\* host that keeps up has printed each of them when it ends.
AllReportsPrinted ==
    /\ \A k \in 1..Sent : k <= Slots => k <= Len(Reports) /\ Reports[k] = k
    /\ \A k \in 1..Len(Reports) - 1 : Reports[k] < Reports[k + 1]
    /\ ~late /\ mpc = "done" => printed = [k \in 1..Rounds |-> k]

\* The program ends: neither side waits for ever for the other, also if the
\* host is late or read() fails now and then.
Terminates == <>(mpc \in {"done", "failed"})
=============================================================================
