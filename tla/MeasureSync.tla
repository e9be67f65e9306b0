----------------------------- MODULE MeasureSync -----------------------------
(***************************************************************************)
(* examples/measure_time_sync: an external signal is asserted again and    *)
(* again.  Of each assertion the PRU reports its own timestamp             *)
(* (pru_main.c), the input capture takes the host's, and the two worker    *)
(* threads of the host put the two together in one line (host_main.c,      *)
(* host_qot.c).  Channel 0 of the input capture serves the synchronisation *)
(* of the two clocks, channel 1 the external signal.                       *)
(*                                                                         *)
(* A timestamp stands for what it was taken at: the number of a pulse, of  *)
(* an assertion, or of an assertion and which edge of it.  The two threads *)
(* share ts_ready without a lock: "ts_ready |= bit" is a load and a store. *)
(***************************************************************************)
EXTENDS Integers, Sequences

CONSTANTS
    Samples,       \* num_samples, 8000 in the code
    MaxSyncs,      \* bound on the synchronisations
    MaxAssertions, \* bound on the external signal
    Slots,         \* 64-bit values a ring buffer holds, 127 in the code
    EarlySignal,   \* may it be asserted before the PRU looks at it?
    StartLevels,   \* the external signal when its capture is enabled
    MaxReadErrors  \* how often read() on the PTP device may fail

ASSUME MeasureAssumption ==
    /\ {Samples, MaxSyncs, MaxAssertions, Slots} \subseteq Nat \ {0}
    /\ StartLevels \subseteq BOOLEAN
    /\ MaxReadErrors \in Nat /\ EarlySignal \in BOOLEAN

VARIABLES
    (* The external signal *)
    pin,          \* its level, on P8_45 and P8_10
    assertion,    \* the number of the last assertion
    (* The PRU *)
    ppc,          \* "off", "boot", "loop", "pulse", "wait", "check", "trigger",
                  \* "adjust", "halted"
    ret,          \* where check_input_pin returns to
    num_samples, input_high, first,
    ts,           \* the pulse whose T1 this is
    host_ts,      \* what the last rbuf_read_uint64 returned, until it is used
    synced,       \* [ts, host_ts] of the last iep_adj_time
    (* The host *)
    mpc,          \* of main: "qot", "exec", "create1", "create2", "wait",
                  \* "deinit", "unmap", "unmapped", "done", "failed"
    stop,
    pc,           \* of the two threads
    tmp,          \* the value of ts_ready each one has loaded, until it is used
    i,            \* counts the events of channel 1, from 1
    nano_ts,      \* what qot_read_event_ts returned, until it is used
    ts_ready, last_pru_ts, last_host_ts,
    line,         \* the timestamps of the last line printed
    errors,       \* read errors so far
    (* Between them *)
    toPru, toHost,  \* the two ring buffers
    captured,       \* the kernel's queue: [channel, ts]
    event,          \* the PRU's interrupt is waiting for the receiving thread
    disturbed       \* for the properties: may the pairing be upset? "no", "yes",
                    \* or "raced" if only by the two threads

signalVars == <<pin, assertion>>
pruVars  == <<ppc, ret, num_samples, input_high, first, ts, host_ts, synced>>
readyVars == <<ts_ready, last_pru_ts, last_host_ts, line>>
mainVars == <<mpc, stop>>
hostVars == <<mainVars, pc, tmp, i, nano_ts, readyVars, errors>>
others == <<signalVars, pruVars, mainVars>>   \* what the two threads leave alone
vars == <<signalVars, pruVars, hostVars, toPru, toHost, captured, event, disturbed>>

Threads == {"receive", "send"}
Other(t) == IF t = "receive" THEN "send" ELSE "receive"

\* The bit of ts_ready a thread sets.
Bit(t) == IF t = "receive" THEN 1 ELSE 2

NoStamp == [n |-> 0, edge |-> "rise"]

\* The host has mapped, zeroed and initialised the shared memory.
Init ==
    /\ pin \in StartLevels /\ assertion = IF pin THEN 1 ELSE 0
    /\ ppc = "off" /\ ret = "loop"
    /\ num_samples = Samples /\ input_high = FALSE /\ first = TRUE
    /\ ts = 0 /\ host_ts = 0 /\ synced = [ts |-> 0, host_ts |-> 0]
    /\ mpc = "qot" /\ stop = FALSE
    /\ pc = [t \in Threads |-> "none"]
    /\ tmp = [t \in Threads |-> 0]
    /\ i = 1 /\ nano_ts = 0
    /\ ts_ready = 0 /\ last_pru_ts = 0 /\ last_host_ts = NoStamp
    /\ line = [host |-> NoStamp, pru |-> 0]
    /\ errors = 0
    /\ toPru = <<>> /\ toHost = <<>> /\ captured = <<>> /\ event = FALSE
    /\ disturbed = IF pin THEN "yes" ELSE "no"

\* rbuf_write_uint64, its result ignored.
Put(queue, value) == IF Len(queue) < Slots THEN Append(queue, value) ELSE queue

-----------------------------------------------------------------------------
(* The external signal and its capture.                                    *)

Polling == ppc \notin {"off", "boot", "halted"}

\* From init_qot to deinit_qot both edges of the signal are captured.
Capturing == mpc \notin {"qot", "unmap", "unmapped", "done", "failed"}

\* Each level lasts until the PRU, if it polls, has seen it.
Seen == Polling => (input_high <=> pin)

HostIdle ==
    /\ pc = [receive |-> "wait", send |-> "read"]
    /\ ~event /\ captured = <<>>

\* An assertion disturbs the pairing if the PRU does not see it or the host is
\* still busy with earlier ones; so does a signal that is high at the start.
Rise ==
    /\ Capturing /\ ~pin /\ Seen
    /\ EarlySignal \/ ppc \notin {"off", "boot"}
    /\ assertion < MaxAssertions
    /\ pin' = TRUE
    /\ assertion' = assertion + 1
    /\ captured' = Append(captured, [channel |-> 1, ts |-> [n |-> assertion', edge |-> "rise"]])
    /\ disturbed' = IF Polling /\ HostIdle THEN disturbed ELSE "yes"
    /\ UNCHANGED <<pruVars, hostVars, toPru, toHost, event>>

Fall ==
    /\ Capturing /\ pin /\ Seen
    /\ pin' = FALSE
    /\ captured' = Append(captured, [channel |-> 1, ts |-> [n |-> assertion, edge |-> "fall"]])
    /\ UNCHANGED <<assertion, pruVars, hostVars, toPru, toHost, event, disturbed>>

-----------------------------------------------------------------------------
(* The PRU.                                                                *)

\* init_rbuffer(send_buf), init_iep_time.
PruBoot ==
    /\ ppc = "boot"
    /\ ppc' = "loop"
    /\ toHost' = <<>>
    /\ UNCHANGED <<signalVars, ret, num_samples, input_high, first, ts, host_ts, synced,
                   hostVars, toPru, captured, event, disturbed>>

\* The first time, and when SYNC_PERIOD_NS have passed, a synchronisation.
PruLoop ==
    /\ ppc = "loop"
    /\ num_samples > 0
    /\ \/ /\ first \/ ts < MaxSyncs
          /\ first' = FALSE
          /\ ppc' = "pulse"
          /\ UNCHANGED ret
       \/ /\ ~first
          /\ ppc' = "check" /\ ret' = "loop"
          /\ UNCHANGED first
    /\ UNCHANGED <<signalVars, num_samples, input_high, ts, host_ts, synced,
                   hostVars, toPru, toHost, captured, event, disturbed>>

\* The pulse, then T1.
PruPulse ==
    /\ ppc = "pulse"
    /\ ts' = ts + 1
    /\ captured' = Append(captured, [channel |-> 0, ts |-> ts'])
    /\ ppc' = "wait"
    /\ UNCHANGED <<signalVars, ret, num_samples, input_high, first, host_ts, synced,
                   hostVars, toPru, toHost, event, disturbed>>

Mut_PruWaitRead ==   \* mutated form: the read is not repeated
    /\ ppc = "wait"
    /\ host_ts' = IF toPru = <<>> THEN 0 ELSE Head(toPru)
    /\ toPru' = IF toPru = <<>> THEN toPru ELSE Tail(toPru)
    /\ ret' = "adjust"
    /\ ppc' = "check"
    /\ UNCHANGED <<signalVars, num_samples, input_high, first, ts, synced,
                   hostVars, toHost, captured, event, disturbed>>

\* rbuf_read_uint64 in the waiting loop, which then looks at the pin, too.
PruWaitRead ==
    /\ ppc = "wait"
    /\ IF toPru = <<>>
       THEN /\ host_ts' = 0
            /\ ret' = "wait"
            /\ UNCHANGED toPru
       ELSE /\ host_ts' = Head(toPru)
            /\ toPru' = Tail(toPru)
            /\ ret' = "adjust"
    /\ ppc' = "check"
    /\ UNCHANGED <<signalVars, num_samples, input_high, first, ts, synced,
                   hostVars, toHost, captured, event, disturbed>>

\* iep_adj_time, then check_input_pin.
PruAdjust ==
    /\ ppc = "adjust"
    /\ synced' = [ts |-> ts, host_ts |-> host_ts]
    /\ host_ts' = 0
    /\ ppc' = "check" /\ ret' = "loop"
    /\ UNCHANGED <<signalVars, num_samples, input_high, first, ts,
                   hostVars, toPru, toHost, captured, event, disturbed>>

\* check_input_pin: a rising edge is reported, ...
PruReport ==
    /\ ppc = "check"
    /\ ~input_high /\ pin
    /\ input_high' = TRUE
    /\ toHost' = Put(toHost, assertion)
    /\ ppc' = "trigger"
    /\ UNCHANGED <<signalVars, ret, num_samples, first, ts, host_ts, synced,
                   hostVars, toPru, captured, event, disturbed>>

\* ... the host is interrupted, and the sample counted.
PruTrigger ==
    /\ ppc = "trigger"
    /\ event' = TRUE
    /\ num_samples' = num_samples - 1
    /\ ppc' = ret
    /\ UNCHANGED <<signalVars, ret, input_high, first, ts, host_ts, synced,
                   hostVars, toPru, toHost, captured, disturbed>>

\* No rising edge.
PruNoReport ==
    /\ ppc = "check"
    /\ input_high \/ ~pin
    /\ input_high' = pin
    /\ ppc' = ret
    /\ UNCHANGED <<signalVars, ret, num_samples, first, ts, host_ts, synced,
                   hostVars, toPru, toHost, captured, event, disturbed>>

\* terminate: the event that main waits for.  No pause comes before it.
PruHalt ==
    /\ ppc = "loop"
    /\ num_samples <= 0
    /\ ppc' = "halted"
    /\ UNCHANGED <<signalVars, ret, num_samples, input_high, first, ts, host_ts, synced,
                   hostVars, toPru, toHost, captured, event, disturbed>>

Pru ==
    \/ PruBoot \/ PruLoop \/ PruPulse \/ PruWaitRead \/ PruAdjust
    \/ PruReport \/ PruTrigger \/ PruNoReport \/ PruHalt

-----------------------------------------------------------------------------
(* main.                                                                   *)

MainGoto(from, to) == mpc = from /\ mpc' = to

\* Both channels are set up; the capture begins.
InitQot ==
    /\ MainGoto("qot", "exec")
    /\ UNCHANGED <<signalVars, pruVars, stop, pc, tmp, i, nano_ts, readyVars, errors,
                   toPru, toHost, captured, event, disturbed>>

MainExec ==
    /\ MainGoto("exec", "create1")
    /\ ppc' = "boot"
    /\ UNCHANGED <<signalVars, ret, num_samples, input_high, first, ts, host_ts, synced,
                   stop, pc, tmp, i, nano_ts, readyVars, errors,
                   toPru, toHost, captured, event, disturbed>>

MainCreate(t, from, to) ==
    /\ MainGoto(from, to)
    /\ pc' = [pc EXCEPT ![t] = "while"]
    /\ UNCHANGED <<signalVars, pruVars, stop, tmp, i, nano_ts, readyVars, errors,
                   toPru, toHost, captured, event, disturbed>>

\* A library call fails: exit(EXIT_FAILURE) ends all threads, the PRU goes on.
MainFail ==
    /\ mpc \in {"qot", "create1", "create2"}
    /\ mpc' = "failed"
    /\ UNCHANGED <<signalVars, pruVars, stop, pc, tmp, i, nano_ts, readyVars, errors,
                   toPru, toHost, captured, event, disturbed>>

\* prussdrv_pru_wait_event(PRU_EVTOUT_1), then stop = 1.
MainStop ==
    /\ ppc = "halted"
    /\ MainGoto("wait", "deinit")
    /\ stop' = TRUE
    /\ UNCHANGED <<signalVars, pruVars, pc, tmp, i, nano_ts, readyVars, errors,
                   toPru, toHost, captured, event, disturbed>>

\* deinit_qot disables the pins and closes the device.
MainDeinit ==
    /\ MainGoto("deinit", "unmap")
    /\ captured' = <<>>
    /\ UNCHANGED <<signalVars, pruVars, stop, pc, tmp, i, nano_ts, readyVars, errors,
                   toPru, toHost, event, disturbed>>

\* prussdrv_exit; then the process ends, and with it the threads.
MainEnd ==
    /\ MainGoto("unmap", "unmapped") \/ MainGoto("unmapped", "done")
    /\ UNCHANGED <<signalVars, pruVars, stop, pc, tmp, i, nano_ts, readyVars, errors,
                   toPru, toHost, captured, event, disturbed>>

Main ==
    \/ InitQot \/ MainExec
    \/ MainCreate("receive", "create1", "create2") \/ MainCreate("send", "create2", "wait")
    \/ MainFail \/ MainStop \/ MainDeinit \/ MainEnd

-----------------------------------------------------------------------------
(* What the two threads do alike: each has stored its timestamp and sets   *)
(* its bit; whoever finds both bits prints a line.                         *)

Alive == mpc \notin {"done", "failed"}

Goto(t, from, to) == Alive /\ pc[t] = from /\ pc' = [pc EXCEPT ![t] = to]

\* while(!stop).
While(t) ==
    /\ Goto(t, "while", IF stop THEN "end" ELSE IF t = "receive" THEN "wait" ELSE "read")
    /\ UNCHANGED <<others, tmp, i, nano_ts, readyVars, errors,
                   toPru, toHost, captured, event, disturbed>>

AtReady(t) == pc[t] \in {"or", "test", "reset", "print"}

\* Both threads at ts_ready at a time may disturb the pairing, too.
LoadReady(t) ==
    /\ Goto(t, "load", "or")
    /\ tmp' = [tmp EXCEPT ![t] = ts_ready]
    /\ disturbed' = IF disturbed = "no" /\ AtReady(Other(t)) THEN "raced" ELSE disturbed
    /\ UNCHANGED <<others, i, nano_ts, readyVars, errors,
                   toPru, toHost, captured, event>>

Mut_OrReady(t) ==   \* mutated form: += for |=
    /\ Goto(t, "or", "test")
    /\ ts_ready' = tmp[t] + Bit(t)
    /\ UNCHANGED <<others, tmp, i, nano_ts, last_pru_ts, last_host_ts,
                   line, errors, toPru, toHost, captured, event, disturbed>>

OrReady(t) ==
    /\ Goto(t, "or", "test")
    /\ ts_ready' = IF tmp[t] \in {0, Bit(t)} THEN Bit(t) ELSE 3
    /\ tmp' = [tmp EXCEPT ![t] = 0]
    /\ UNCHANGED <<others, i, nano_ts, last_pru_ts, last_host_ts,
                   line, errors, toPru, toHost, captured, event, disturbed>>

\* Mutated form: one report is read per interrupt.
Mut_Loop(t) == "while"

\* Where a thread goes on with its loop.
Loop(t) == IF t = "receive" THEN "drain" ELSE "while"

TestReady(t) ==
    /\ Goto(t, "test", IF ts_ready = 3 THEN "reset" ELSE Loop(t))
    /\ UNCHANGED <<others, tmp, i, nano_ts, readyVars, errors,
                   toPru, toHost, captured, event, disturbed>>

ResetReady(t) ==
    /\ Goto(t, "reset", "print")
    /\ ts_ready' = 0
    /\ UNCHANGED <<others, tmp, i, nano_ts, last_pru_ts, last_host_ts,
                   line, errors, toPru, toHost, captured, event, disturbed>>

PrintLine(t) ==
    /\ Goto(t, "print", Loop(t))
    /\ line' = [host |-> last_host_ts, pru |-> last_pru_ts]
    /\ UNCHANGED <<others, tmp, i, nano_ts, ts_ready, last_pru_ts, last_host_ts,
                   errors, toPru, toHost, captured, event, disturbed>>

Ready(t) ==
    LoadReady(t) \/ OrReady(t) \/ TestReady(t) \/ ResetReady(t) \/ PrintLine(t)

-----------------------------------------------------------------------------
(* receive_pru_thread.                                                     *)

\* prussdrv_pru_wait_event, ...
RecvWait ==
    /\ event
    /\ Goto("receive", "wait", "clear")
    /\ UNCHANGED <<others, tmp, i, nano_ts, readyVars, errors,
                   toPru, toHost, captured, event, disturbed>>

\* ... then prussdrv_pru_clear_event, which takes away an interrupt that has
\* come in between, too.
RecvClear ==
    /\ Goto("receive", "clear", "drain")
    /\ event' = FALSE
    /\ UNCHANGED <<others, tmp, i, nano_ts, readyVars, errors,
                   toPru, toHost, captured, disturbed>>

RecvReport ==
    /\ toHost # <<>>
    /\ Goto("receive", "drain", "load")
    /\ last_pru_ts' = Head(toHost)
    /\ toHost' = Tail(toHost)
    /\ UNCHANGED <<others, tmp, i, nano_ts, ts_ready, last_host_ts, line,
                   errors, toPru, captured, event, disturbed>>

RecvEmpty ==
    /\ toHost = <<>>
    /\ Goto("receive", "drain", "while")
    /\ UNCHANGED <<others, tmp, i, nano_ts, readyVars, errors,
                   toPru, toHost, captured, event, disturbed>>

Recv ==
    \/ While("receive") \/ RecvWait \/ RecvClear \/ RecvReport \/ RecvEmpty
    \/ Ready("receive")

-----------------------------------------------------------------------------
(* send_pru_thread.                                                        *)

Mut_IsRising == TRUE   \* mutated form: no edge is skipped

\* "Skip the falling edge timestamp": every other event of channel 1.
IsRising == i % 2 = 1

\* What is done with a timestamp depends on its channel.
SendEvent(channel, stamp) ==
    /\ \/ /\ channel = 0
          /\ nano_ts' = stamp
          /\ Goto("send", "read", "write")
          /\ UNCHANGED <<i, last_host_ts>>
       \/ /\ channel = 1 /\ IsRising
          /\ i' = i + 1
          /\ last_host_ts' = stamp
          /\ Goto("send", "read", "load")
          /\ UNCHANGED nano_ts
       \/ /\ channel = 1 /\ ~IsRising
          /\ i' = i + 1
          /\ Goto("send", "read", "while")
          /\ UNCHANGED <<nano_ts, last_host_ts>>
       \/ /\ channel \notin {0, 1}
          /\ Goto("send", "read", "while")
          /\ UNCHANGED <<i, nano_ts, last_host_ts>>
    /\ UNCHANGED <<others, tmp, ts_ready, last_pru_ts, line,
                   toPru, toHost, event>>

\* qot_read_event_ts returns the oldest timestamp, ...
SendRead ==
    /\ captured # <<>>
    /\ captured' = Tail(captured)
    /\ SendEvent(Head(captured).channel, Head(captured).ts)
    /\ UNCHANGED <<errors, disturbed>>

\* ... or read() fails, for one when the device has been closed: 0 is returned
\* and channel, an uninitialised variable, not assigned: its value may be that
\* of an earlier round or any other.
SendReadError ==
    /\ \/ /\ errors < MaxReadErrors
          /\ errors' = errors + 1
          /\ disturbed' = "yes"
       \/ /\ ~Capturing
          /\ UNCHANGED <<errors, disturbed>>
    /\ \E channel \in 0..2 :
          SendEvent(channel, IF channel = 0 THEN 0 ELSE NoStamp)
    /\ UNCHANGED captured

SendWrite ==
    /\ Goto("send", "write", "while")
    /\ toPru' = Put(toPru, nano_ts)
    /\ nano_ts' = 0
    /\ UNCHANGED <<others, tmp, i, readyVars, errors,
                   toHost, captured, event, disturbed>>

Send == While("send") \/ SendRead \/ SendReadError \/ SendWrite \/ Ready("send")

-----------------------------------------------------------------------------
Next == Rise \/ Fall \/ Pru \/ Main \/ Recv \/ Send

Spec == Init /\ [][Next]_vars

-----------------------------------------------------------------------------
(* Properties.                                                             *)

\* Every variable has its type.
TypeOK ==
    /\ pin \in BOOLEAN /\ assertion \in 0..MaxAssertions
    /\ ppc \in {"off", "boot", "loop", "pulse", "wait", "check", "trigger", "adjust", "halted"}
    /\ ret \in {"loop", "wait", "adjust"}
    /\ num_samples \in Int /\ num_samples <= Samples
    /\ mpc \in {"qot", "exec", "create1", "create2", "wait", "deinit", "unmap",
               "unmapped", "done", "failed"}
    /\ {input_high, first, event, stop} \subseteq BOOLEAN
    /\ disturbed \in {"no", "raced", "yes"}
    /\ ts \in Nat /\ host_ts \in Nat /\ nano_ts \in Nat /\ i \in Nat
    /\ pc.receive \in {"none", "while", "end", "wait", "clear", "drain",
                      "load", "or", "test", "reset", "print"}
    /\ pc.send \in {"none", "while", "end", "read", "write", "load", "or", "test", "reset", "print"}
    /\ tmp \in [Threads -> 0..3] /\ ts_ready \in 0..3
    /\ last_pru_ts \in 0..MaxAssertions
    /\ last_host_ts \in [n : 0..MaxAssertions, edge : {"rise", "fall"}]
    /\ line.pru \in 0..MaxAssertions /\ errors \in 0..MaxReadErrors
    /\ toPru \in Seq(Nat) /\ toHost \in Seq(Nat)

\* Until a read() fails, every offset the PRU computes is that of one pulse,
\* although the events of both channels cross in the host (pru_main.c:94-103,
\* host_main.c:94-99).
SamePulse == errors = 0 => synced.ts = synced.host_ts

\* Each line holds the two timestamps of one assertion, the host's that of its
\* rising edge, and at the end no line is missing but perhaps the last one, for
\* which the PRU leaves no time before it ends: if the host keeps up and its
\* reads do not fail, the signal was low when its capture was enabled, the PRU
\* saw every assertion, and the two threads were never at ts_ready at the same
\* time (host_main.c:66-78, 101-115, 203-214, pru_main.c:114-119).
PairedUnlessDisturbed ==
    disturbed = "no" =>
        /\ ~stop => line.host.n = line.pru /\ line.host.edge = "rise"
        /\ line.pru >= assertion - 1

\* No report stays behind in the buffer, however late the host is: if there
\* is one, the receiving thread has an interrupt to wake up to or is still
\* emptying the buffer (host_main.c:60-80, pru_main.c:41-43).
NoReportLeftBehind ==
    toHost # <<>> /\ ppc # "trigger" => event \/ pc["receive"] # "wait"

\* What README.md:23 says of the lines: "We use the difference between the
\* reported timestamps as a measure for the accuracy of synchronization".  Read
\* for a host that keeps up, whatever its two threads do at the same time.
LinesArePaired == disturbed # "yes" /\ ~stop => line.host.n = line.pru
=============================================================================
