------------------------------- MODULE IepTimer -------------------------------
(***************************************************************************)
(* examples/iep_timer: the firmware reports the IEP counter once a second  *)
(* (pru_main.c), a thread of the host prints one report per interrupt, and *)
(* the main thread waits for the end (host_main.c).  The pieces are those  *)
(* of time_sync, but where its thread empties the buffer, this one reads   *)
(* once: an interrupt that meets an earlier one leaves a report behind.    *)
(*                                                                         *)
(* A report stands for the number of its round.  The ring buffer is a      *)
(* queue of 32-bit words: RBuffer implements one.                          *)
(***************************************************************************)
EXTENDS Integers, Sequences

CONSTANTS
    Rounds,    \* reports the PRU sends, 30 in the code
    Slots      \* words a ring buffer holds, 255 in the code

ASSUME IepTimerAssumption == Rounds \in Nat \ {0} /\ Slots \in Nat /\ Slots >= 3

VARIABLES
    (* The PRU *)
    ppc,       \* "off", "boot", "loop", "trigger", "pause", "halted"
    i,         \* rounds left
    (* The host *)
    mpc,       \* main: "setup", "exec", "create", "wait", "disable",
               \* "unmapped", "done", or "failed"
    rpc,       \* threadFunction: "none", "wait", "clear", "read", "test", "end"
    stop,      \* volatile int stop
    printed,   \* the reports printed so far
    (* Between them *)
    rbuf,      \* the ring buffer
    ready,     \* has init_rbuffer run?
    sysevent,  \* system event 19 is raised
    enabled,   \* its host interrupt is enabled
    pending,   \* the host's interrupt count has moved since it was last read
    ended,     \* PRU_EVTOUT_1 has fired
    (* For the properties *)
    late,      \* was the host busy when a pause was over?
    merged,    \* triggers that found the event of an earlier one still raised
    dropped    \* reports that found the buffer full

pruVars  == <<ppc, i>>
hostVars == <<mpc, rpc, stop, printed>>
intcVars == <<sysevent, enabled, pending>>
history  == <<late, merged, dropped>>
vars == <<pruVars, hostVars, rbuf, ready, intcVars, ended, history>>

Init ==
    /\ ppc = "off" /\ i = Rounds
    /\ mpc = "setup" /\ rpc = "none" /\ stop = FALSE /\ printed = <<>>
    /\ rbuf = <<>> /\ ready = FALSE
    /\ sysevent = FALSE /\ enabled = TRUE /\ pending = FALSE /\ ended = FALSE
    /\ late = FALSE /\ merged = 0 /\ dropped = 0

-----------------------------------------------------------------------------
(* The PRU.                                                                *)

\* init_rbuffer; the timer is started from 0.
PruBoot ==
    /\ ppc = "boot"
    /\ ppc' = "loop"
    /\ rbuf' = <<>>
    /\ ready' = TRUE
    /\ UNCHANGED <<i, hostVars, intcVars, ended, history>>

Mut_PruReport ==   \* mutated form: a round too many
    /\ ppc = "loop"
    /\ i' = i - 1
    /\ rbuf' = IF Len(rbuf) < Slots THEN Append(rbuf, Rounds - i') ELSE rbuf
    /\ dropped' = IF Len(rbuf) < Slots THEN dropped ELSE dropped + 1
    /\ ppc' = "trigger"
    /\ UNCHANGED <<hostVars, ready, intcVars, ended, late, merged>>

\* while(i--): the count is reported, unless the buffer is full, ...
PruReport ==
    /\ ppc = "loop" /\ i > 0
    /\ i' = i - 1
    /\ \/ /\ Len(rbuf) < Slots
          /\ rbuf' = Append(rbuf, Rounds - i')
          /\ UNCHANGED dropped
       \/ /\ Len(rbuf) = Slots
          /\ dropped' = dropped + 1
          /\ UNCHANGED rbuf
    /\ ppc' = "trigger"
    /\ UNCHANGED <<hostVars, ready, intcVars, ended, late, merged>>

Mut_PruTrigger ==   \* mutated form: no pause after the last report
    /\ ppc = "trigger"
    /\ ppc' = IF i = 0 THEN "loop" ELSE "pause"
    /\ sysevent' = TRUE
    /\ merged' = IF sysevent THEN merged + 1 ELSE merged
    /\ UNCHANGED <<i, hostVars, rbuf, ready, enabled, pending, ended, late, dropped>>

\* ... and TRIG_INTC(3) raises the event.
PruTrigger ==
    /\ ppc = "trigger"
    /\ ppc' = "pause"
    /\ sysevent' = TRUE
    /\ merged' = IF sysevent THEN merged + 1 ELSE merged
    /\ UNCHANGED <<i, hostVars, rbuf, ready, enabled, pending, ended, late, dropped>>

\* The host has done all its work.
HostIdle == rpc = "wait" /\ ~pending /\ ~(sysevent /\ enabled)

\* WAIT_MS(1000): a host that keeps up is idle again when it is over.
PruPause ==
    /\ ppc = "pause"
    /\ ppc' = "loop"
    /\ late' = (late \/ ~HostIdle)
    /\ UNCHANGED <<i, hostVars, rbuf, ready, intcVars, ended, merged, dropped>>

Mut_PruHalt ==   \* mutated form: __halt without the interrupt
    /\ ppc = "loop" /\ i = 0
    /\ ppc' = "halted"
    /\ UNCHANGED <<i, hostVars, rbuf, ready, intcVars, ended, history>>

\* TRIG_INTC(4), then __halt.
PruHalt ==
    /\ ppc = "loop" /\ i = 0
    /\ ppc' = "halted"
    /\ ended' = TRUE
    /\ UNCHANGED <<i, hostVars, rbuf, ready, intcVars, history>>

Pru == PruBoot \/ PruReport \/ PruTrigger \/ PruPause \/ PruHalt

-----------------------------------------------------------------------------
(* The interrupt controller and the uio driver.                            *)

\* The driver counts the interrupt, and disables it until it is cleared.
Irq ==
    /\ sysevent /\ enabled
    /\ enabled' = FALSE
    /\ pending' = TRUE
    /\ UNCHANGED <<pruVars, hostVars, rbuf, ready, sysevent, ended, history>>

-----------------------------------------------------------------------------
(* The main thread.                                                        *)

Goto(from, to) == mpc = from /\ mpc' = to

\* memset of the shared memory.
MainSetup ==
    /\ Goto("setup", "exec")
    /\ rbuf' = <<>> /\ ready' = FALSE
    /\ UNCHANGED <<pruVars, rpc, stop, printed, intcVars, ended, history>>

\* prussdrv_exec_program.
MainExec ==
    /\ Goto("exec", "create")
    /\ ppc' = "boot"
    /\ UNCHANGED <<i, rpc, stop, printed, rbuf, ready, intcVars, ended, history>>

MainCreate ==
    /\ Goto("create", "wait")
    /\ rpc' = "wait"
    /\ UNCHANGED <<pruVars, stop, printed, rbuf, ready, intcVars, ended, history>>

\* A library call fails: exit(EXIT_FAILURE).
MainFail ==
    /\ mpc \in {"setup", "create"}
    /\ mpc' = "failed"
    /\ UNCHANGED <<pruVars, rpc, stop, printed, rbuf, ready, intcVars, ended, history>>

\* prussdrv_pru_wait_event(PRU_EVTOUT_1), then stop = 1.
MainStop ==
    /\ ended
    /\ Goto("wait", "disable")
    /\ stop' = TRUE
    /\ UNCHANGED <<pruVars, rpc, printed, rbuf, ready, intcVars, ended, history>>

\* prussdrv_pru_disable, then prussdrv_exit unmaps the shared memory, ...
MainUnmap ==
    /\ Goto("disable", "unmapped")
    /\ ppc' = "off"
    /\ UNCHANGED <<i, rpc, stop, printed, rbuf, ready, intcVars, ended, history>>

\* ... and the process exits, with its thread, which nothing joins.
MainReturn ==
    /\ Goto("unmapped", "done")
    /\ UNCHANGED <<pruVars, rpc, stop, printed, rbuf, ready, intcVars, ended, history>>

Main ==
    \/ MainSetup \/ MainExec \/ MainCreate \/ MainFail
    \/ MainStop \/ MainUnmap \/ MainReturn

-----------------------------------------------------------------------------
(* threadFunction.                                                         *)

Step(from, to) == mpc \notin {"done", "failed"} /\ rpc = from /\ rpc' = to

\* prussdrv_pru_wait_event returns.
RecvWait ==
    /\ pending
    /\ Step("wait", "clear")
    /\ pending' = FALSE
    /\ UNCHANGED <<pruVars, mpc, stop, printed, rbuf, ready, sysevent, enabled,
                   ended, history>>

\* prussdrv_pru_clear_event takes the event down and enables the interrupt.
RecvClear ==
    /\ Step("clear", "read")
    /\ sysevent' = FALSE
    /\ enabled' = TRUE
    /\ UNCHANGED <<pruVars, mpc, stop, printed, rbuf, ready, pending, ended, history>>

Mut_RecvRead ==   \* mutated form: reads on as long as there is a report
    /\ Step("read", IF rbuf # <<>> THEN "read" ELSE "test")
    /\ IF rbuf # <<>>
       THEN printed' = Append(printed, Head(rbuf)) /\ rbuf' = Tail(rbuf)
       ELSE UNCHANGED <<printed, rbuf>>
    /\ UNCHANGED <<pruVars, mpc, stop, ready, intcVars, ended, history>>

\* One read.  A report is printed; a status that says there is none is not.
RecvRead ==
    /\ Step("read", "test")
    /\ IF rbuf # <<>>
       THEN printed' = Append(printed, Head(rbuf)) /\ rbuf' = Tail(rbuf)
       ELSE UNCHANGED <<printed, rbuf>>
    /\ UNCHANGED <<pruVars, mpc, stop, ready, intcVars, ended, history>>

\* while (!stop).
RecvTest ==
    /\ Step("test", IF stop THEN "end" ELSE "wait")
    /\ UNCHANGED <<pruVars, mpc, stop, printed, rbuf, ready, intcVars, ended, history>>

Recv == RecvWait \/ RecvClear \/ RecvRead \/ RecvTest

-----------------------------------------------------------------------------
Next == Pru \/ Irq \/ Main \/ Recv

Spec == Init /\ [][Next]_vars

\* Everyone runs when they can; the PRU waits for nobody.
FairSpec == Spec /\ WF_vars(Pru) /\ WF_vars(Irq) /\ WF_vars(Main) /\ WF_vars(Recv)

-----------------------------------------------------------------------------
(* Properties.                                                             *)

Count(condition) == IF condition THEN 1 ELSE 0

TypeOK ==
    /\ ppc \in {"off", "boot", "loop", "trigger", "pause", "halted"}
    /\ i \in 0..Rounds
    /\ mpc \in {"setup", "exec", "create", "wait", "disable", "unmapped",
               "done", "failed"}
    /\ rpc \in {"none", "wait", "clear", "read", "test", "end"}
    /\ printed \in Seq(1..Rounds)
    /\ rbuf \in Seq(1..Rounds) /\ Len(rbuf) <= Slots
    /\ merged \in Nat /\ dropped \in Nat
    /\ {stop, ready, sysevent, enabled, pending, ended, late} \subseteq BOOLEAN

\* What is in the buffer is what interrupts still on their way will read, and
\* one report for each interrupt that was merged with another: these are never
\* made up for.  Full buffers aside, the host can only fall back
\* (host_main.c:27-32, pru_main.c:29-30).
Backlog ==
    Len(rbuf) + dropped =
        merged + Count(sysevent) + Count(rpc = "read") + Count(ppc = "trigger")

\* The reports are printed in turn, none left out, but what an idle host has
\* printed last is as many seconds old as interrupts have been merged, for the
\* rest of the run (host_main.c:32-37).
StaleByMerged ==
    HostIdle /\ ppc = "pause" /\ dropped = 0 =>
        printed = [k \in 1..(Rounds - i) - merged |-> k]

\* The one read finds a report, in a buffer the PRU has initialised: an
\* interrupt never outruns its report, also after reports have been dropped
\* (host_main.c:32-33, pru_main.c:20, 29-30).
ReadsFindReports == rpc = "read" => ready /\ rbuf # <<>>

\* The thread, which nothing joins, does not read the buffer after
\* prussdrv_exit has unmapped it, if the host keeps up (host_main.c:93-99).
NoUseAfterUnmap == ~late /\ mpc \in {"unmapped", "done"} => rpc # "read"

\* A host that keeps up has printed every report when it ends.
AllReportsPrinted == ~late /\ mpc = "done" => printed = [k \in 1..Rounds |-> k]

\* The program ends, however late the host is.
Terminates == <>(mpc \in {"done", "failed"})
=============================================================================
