------------------------------- MODULE AdcProofs -------------------------------
(***************************************************************************)
(* Theorems about Adc for every set of steps that an earlier user may have *)
(* left enabled: what the host prints.                                     *)
(***************************************************************************)
EXTENDS Adc, TLAPS

-----------------------------------------------------------------------------
(* The inductive invariant behind the safety properties.                   *)

\* The PRU's stores and loops in their order: until init_adc switches the
\* converter off, while it is off, when it is set up, and from the start of
\* the sequence on.
Found == {"off", "init"}
Stopped == {"steps", "unlock", "config", "tag", "clear", "irq", "lock", "drain", "enable"}
Sampling == {"wait", "count", "copy", "halted"}

\* Whether the converter runs, and what an earlier user left enabled in it.
StepsInv ==
    /\ pc \in Stopped => ~on /\ at = 0
    /\ pc \in {"start"} \union Sampling => on
    /\ started <=> pc \in Sampling
    /\ ~foreign /\ pc \in Found \union {"steps"} => STEPENABLE \subseteq Used
    /\ ~foreign /\ pc \in (Stopped \ {"steps"}) \union {"start"} => STEPENABLE = {}
    /\ ~foreign /\ pc = "start" => at = 0
    /\ pc \in (Stopped \ {"steps"}) \union {"start"} => STEPENABLE \intersect Used = {}
    /\ pc = "start" => at = 0 \/ at > 7

\* What the stores of init_adc have done.
SetUpInv ==
    /\ pc = "config" => unlocked
    /\ pc \in {"tag", "clear", "irq", "lock", "drain", "enable", "start"} \union Sampling =>
           \A s \in Used : STEPCONFIG[s] = Channel(s)
    /\ pc \in {"clear", "irq", "lock", "drain", "enable", "start"} \union Sampling => tag
    /\ pc \in {"lock", "drain", "enable", "start"} \union Sampling => endEnabled

\* The flag and the queue are empty before the sequence.
EmptyInv ==
    /\ pc \in {"irq", "lock", "drain", "enable"} \/ (~foreign /\ pc = "start") => ~end
    /\ pc = "enable" \/ (~foreign /\ pc = "start") => fifo0 = <<>>

\* In the sequence, the samples of the first n steps are in the queue; the flag
\* is raised after all seven.
SequenceInv ==
    ~foreign /\ pc = "wait" => \E n \in 0..7 :
        /\ STEPENABLE = {s \in Used : s > n}
        /\ fifo0 = [k \in 1..n |-> Row(k)]
        /\ IF end THEN n = 7 /\ at = 0 ELSE at = n

\* After it, the first m samples are in the shared memory, the others still in
\* the queue.
CopyInv ==
    /\ ~foreign /\ pc \in {"count", "copy", "halted"} => STEPENABLE = {} /\ at = 0
    /\ ~foreign /\ pc = "count" => fifo0 = [k \in 1..7 |-> Row(k)]
    /\ ~foreign /\ pc \in {"copy", "halted"} => count = 7 /\ \E m \in 0..7 :
        /\ shared_mem = [k \in 1..m |-> Row(k)]
        /\ fifo0 = [k \in 1..7 - m |-> Row(m + k)]

\* The samples in the order they were taken in since the queue was emptied.
Total == Len(shared_mem) + Len(fifo0)
Taken(k) == IF k <= Len(shared_mem) THEN shared_mem[k] ELSE fifo0[k - Len(shared_mem)]

\* Whatever was left enabled, the first m of them are of steps from 8 up, taken
\* before adc_start_sampling, and the other n of the first n steps.
QueueInv ==
    pc \in {"start"} \union Sampling => \E m \in Nat : \E n \in 0..7 :
        /\ Total = m + n
        /\ \A k \in 1..m : Taken(k).id >= 7 /\ ~Taken(k).new
        /\ \A k \in 1..n : Taken(m + k) = Row(k)
        /\ pc = "start" => n = 0
        /\ pc # "start" =>
              /\ STEPENABLE = {s \in Used : s > n}
              /\ at = n \/ (n = 7 /\ at = 0) \/ (n = 0 /\ at > 7)

\* Whatever was left enabled, a sample that is copied has been counted.
CountInv ==
    /\ pc \notin {"copy", "halted"} => count = 0 /\ shared_mem = <<>>
    /\ pc = "copy" => count <= Len(shared_mem) + Len(fifo0)
    /\ pc = "halted" => Len(shared_mem) = count

\* The host and the event.
HostInv ==
    /\ hpc \in {"setup", "exec", "failed"} <=> pc = "off"
    /\ hpc = "done" => event
    /\ event => pc = "halted"
    /\ hpc # "done" => printed = <<>>

IndInv ==
    /\ TypeOK /\ PrintsThisSequence
    /\ StepsInv /\ SetUpInv /\ EmptyInv /\ SequenceInv /\ CopyInv /\ QueueInv
    /\ CountInv /\ HostInv
-----------------------------------------------------------------------------
(* Rows.                                                                   *)

\* The samples of one more step.
LEMMA RowAppended ==
    ASSUME NEW n \in Nat
    PROVE  Append([k \in 1..n |-> Row(k)], Row(n + 1)) = [k \in 1..n + 1 |-> Row(k)]
  OBVIOUS

\* The first sample of those not yet copied.
LEMMA RowTaken ==
    ASSUME NEW m \in 0..6, NEW q, q = [k \in 1..7 - m |-> Row(m + k)]
    PROVE  /\ Head(q) = Row(m + 1)
           /\ Tail(q) = [k \in 1..7 - (m + 1) |-> Row((m + 1) + k)]
<1>1. PICK n \in Nat : n = 7 - m
  OBVIOUS
<1>2. q = [k \in 1..n |-> Row(m + k)] /\ n > 0
  BY <1>1
<1>3. Len(q) = n /\ q[1] = Row(m + 1) /\ \A k \in 1..n - 1 : q[k + 1] = Row(m + (k + 1))
  BY <1>2
<1>4. Tail(q) = [k \in 1..n - 1 |-> q[k + 1]]
  BY <1>2, <1>3
<1>5. n - 1 = 7 - (m + 1) /\ \A k \in 1..n - 1 : m + (k + 1) = (m + 1) + k
  BY <1>1
<1> QED
  BY <1>3, <1>4, <1>5

\* How many samples there are.
LEMMA RowCount ==
    ASSUME NEW n \in Nat
    PROVE  Len([k \in 1..n |-> Row(k)]) = n
  OBVIOUS

\* A sample put at the end of a queue.
LEMMA AppendFacts ==
    ASSUME NEW S, NEW q \in Seq(S), NEW x \in S
    PROVE  Append(q, x) \in Seq(S) /\ Len(Append(q, x)) = Len(q) + 1 /\ Len(q) \in Nat
  OBVIOUS

\* The oldest sample taken from it.
LEMMA TailFacts ==
    ASSUME NEW S, NEW q \in Seq(S), Len(q) > 0
    PROVE  Head(q) \in S /\ Tail(q) \in Seq(S) /\ Len(Tail(q)) = Len(q) - 1
  OBVIOUS

\* The empty queue, and a queue that holds one sample.
LEMMA EmptyFacts ==
    /\ \A S : <<>> \in Seq(S)
    /\ \A S : \A x \in S : <<x>> \in Seq(S)
    /\ Len(<<>>) = 0
  OBVIOUS

\* A function is a queue.
LEMMA FunctionIsSeq ==
    ASSUME NEW S, NEW n \in Nat, NEW q \in [1..n -> S]
    PROVE  q \in Seq(S)
  OBVIOUS

\* The row of zeros.
LEMMA BlankFacts == Blank \in Sample
<1>1. 0 \in 0..15 /\ 0 \in 0..7 /\ FALSE \in BOOLEAN
  OBVIOUS
<1> QED
  BY <1>1, Zenon DEF Blank, Sample

\* The channels.
LEMMA ChannelFacts ==
    /\ Used \subseteq Steps
    /\ \A s \in Used : Channel(s) \in 0..7
  BY DEF Used, Steps, Channel

\* The type of each variable.
Flags ==
    /\ on \in BOOLEAN /\ tag \in BOOLEAN /\ unlocked \in BOOLEAN
    /\ end \in BOOLEAN /\ endEnabled \in BOOLEAN
    /\ event \in BOOLEAN /\ started \in BOOLEAN /\ foreign \in BOOLEAN

Data ==
    /\ STEPENABLE \subseteq Steps /\ STEPCONFIG \in [Steps -> 0..7] /\ at \in 0..16
    /\ fifo0 \in Seq(Sample) /\ fifo1 \in Seq(Sample)
    /\ shared_mem \in Seq(Sample) /\ printed \in Seq(Sample)
    /\ count \in Nat /\ Len(shared_mem) <= count

LEMMA TypeParts == TypeOK <=> Flags /\ Data
<1>1. \A S, a, b, c, d, e, f, g, h : {a, b, c, d, e, f, g, h} \subseteq S <=>
        /\ a \in S /\ b \in S /\ c \in S /\ d \in S
        /\ e \in S /\ f \in S /\ g \in S /\ h \in S
  OBVIOUS
<1>2. \A S, a, b, c, d : {a, b, c, d} \subseteq S <=> a \in S /\ b \in S /\ c \in S /\ d \in S
  OBVIOUS
<1>3. {on, tag, unlocked, end, endEnabled, event, started, foreign} \subseteq BOOLEAN <=>
        /\ on \in BOOLEAN /\ tag \in BOOLEAN /\ unlocked \in BOOLEAN /\ end \in BOOLEAN
        /\ endEnabled \in BOOLEAN /\ event \in BOOLEAN /\ started \in BOOLEAN
        /\ foreign \in BOOLEAN
  BY <1>1, Zenon
<1>4. {fifo0, fifo1, shared_mem, printed} \subseteq Seq(Sample) <=>
        /\ fifo0 \in Seq(Sample) /\ fifo1 \in Seq(Sample)
        /\ shared_mem \in Seq(Sample) /\ printed \in Seq(Sample)
  BY <1>2, Zenon
<1> QED
  BY <1>3, <1>4, Zenon DEF TypeOK, Flags, Data

-----------------------------------------------------------------------------
(* The invariant holds at the start.                                       *)

LEMMA InitInd == Init => IndInv
<1> SUFFICES ASSUME Init PROVE IndInv
  OBVIOUS
<1>1. Flags /\ Data
  <2>1. /\ on \in BOOLEAN /\ tag \in BOOLEAN /\ unlocked \in BOOLEAN
        /\ end \in BOOLEAN /\ endEnabled \in BOOLEAN
        /\ event \in BOOLEAN /\ started \in BOOLEAN /\ foreign \in BOOLEAN
    BY Zenon DEF Init
  <2>2. STEPENABLE \subseteq Steps /\ STEPCONFIG \in [Steps -> 0..7] /\ at \in 0..16
    BY AdcAssumption DEF Init, Steps
  <2>3. Blank \in Sample
    BY BlankFacts
  <2>4. /\ fifo0 \in Seq(Sample) /\ fifo1 \in Seq(Sample)
        /\ shared_mem \in Seq(Sample) /\ printed \in Seq(Sample)
    BY <2>3, EmptyFacts DEF Init
  <2>5. count \in Nat /\ Len(shared_mem) <= count
    BY EmptyFacts DEF Init
  <2> QED
    BY <2>1, <2>2, <2>4, <2>5, Zenon DEF Flags, Data
<1>2. StepsInv
  BY DEF Init, StepsInv, Found, Stopped, Sampling
<1>3. /\ PrintsThisSequence /\ SetUpInv /\ EmptyInv /\ SequenceInv /\ CopyInv /\ QueueInv
      /\ CountInv /\ HostInv
  BY DEF Init, PrintsThisSequence, SetUpInv, EmptyInv, SequenceInv, CopyInv, QueueInv, CountInv,
         HostInv, Sampling
<1> QED
  BY <1>1, <1>2, <1>3, TypeParts DEF IndInv

-----------------------------------------------------------------------------
(* Steps of the PRU: init_adc.                                             *)

\* Before the sequence, the samples and the host are as they were.
LEMMA SetUpFrame ==
    ASSUME IndInv, pc \in {"init", "start"} \union Stopped,
           pc' \notin {"off"} \union Sampling,
           UNCHANGED <<copied, rest>>
    PROVE  /\ PrintsThisSequence' /\ SequenceInv' /\ CopyInv' /\ CountInv' /\ HostInv'
           /\ pc' # "start" => QueueInv'
<1>1. hpc # "done"
  BY DEF IndInv, HostInv, Stopped
<1>2. PrintsThisSequence' /\ SequenceInv' /\ CopyInv'
  BY <1>1 DEF PrintsThisSequence, SequenceInv, CopyInv, Sampling, rest
<1>3. CountInv'
  BY DEF IndInv, CountInv, Sampling, Stopped, copied
<1>4. HostInv'
  BY <1>1 DEF IndInv, HostInv, Stopped, rest
<1>5. pc' # "start" => QueueInv'
  BY DEF QueueInv
<1> QED
  BY <1>2, <1>3, <1>4, <1>5

LEMMA DisableKeeps == IndInv /\ Disable => IndInv'
<1> SUFFICES ASSUME IndInv, Disable PROVE IndInv'
  OBVIOUS
<1> USE DEF Disable, Goto
<1>1. pc = "init" /\ pc' = "steps" /\ UNCHANGED <<copied, rest>>
  OBVIOUS
<1>2. TypeOK'
  <2>1. Flags /\ Data
    BY TypeParts DEF IndInv
  <2>2. Flags'
    BY <2>1, Zenon DEF Flags, ends, rest
  <2>3. Data'
    BY <2>1 DEF Data, fifos, copied, rest
  <2> QED
    BY <2>2, <2>3, TypeParts, PTL
<1>3. StepsInv'
  BY DEF IndInv, StepsInv, Found, Stopped, Sampling, rest
<1>4. SetUpInv' /\ EmptyInv'
  BY DEF SetUpInv, EmptyInv, Sampling
<1>5. /\ PrintsThisSequence' /\ SequenceInv' /\ CopyInv' /\ CountInv' /\ HostInv'
      /\ QueueInv'
  BY <1>1, SetUpFrame DEF Stopped, Sampling
<1> QED
  BY <1>2, <1>3, <1>4, <1>5 DEF IndInv

LEMMA DisableStepsKeeps == IndInv /\ DisableSteps => IndInv'
<1> SUFFICES ASSUME IndInv, DisableSteps PROVE IndInv'
  OBVIOUS
<1> USE DEF DisableSteps, Goto
<1>1. pc = "steps" /\ pc' = "unlock" /\ UNCHANGED <<copied, rest>>
  OBVIOUS
<1>2. TypeOK'
  <2>1. Flags /\ Data
    BY TypeParts DEF IndInv
  <2>2. Flags'
    BY <2>1, Zenon DEF Flags, ctrl, ends, rest
  <2>3. Data'
    BY <2>1 DEF Data, fifos, copied, rest
  <2> QED
    BY <2>2, <2>3, TypeParts, PTL
<1>3. StepsInv'
  <2>1. (STEPENABLE \subseteq Used => STEPENABLE' = {}) /\ STEPENABLE' \intersect Used = {}
    BY DEF Used
  <2>2. on' = on /\ foreign' = foreign
    BY DEF ctrl, rest
  <2> QED
    BY <2>1, <2>2 DEF IndInv, StepsInv, Found, Stopped, Sampling
<1>4. SetUpInv'
  BY DEF IndInv, SetUpInv, Sampling, ctrl, steps, ends
<1>5. EmptyInv'
  BY DEF IndInv, EmptyInv, ends, fifos, rest
<1>6. /\ PrintsThisSequence' /\ SequenceInv' /\ CopyInv' /\ CountInv' /\ HostInv'
      /\ QueueInv'
  BY <1>1, SetUpFrame DEF Stopped, Sampling
<1> QED
  BY <1>2, <1>3, <1>4, <1>5, <1>6 DEF IndInv

LEMMA UnlockKeeps == IndInv /\ Unlock => IndInv'
<1> SUFFICES ASSUME IndInv, Unlock PROVE IndInv'
  OBVIOUS
<1> USE DEF Unlock, Goto
<1>1. pc = "unlock" /\ pc' = "config" /\ UNCHANGED <<copied, rest>>
  OBVIOUS
<1>2. TypeOK'
  <2>1. Flags /\ Data
    BY TypeParts DEF IndInv
  <2>2. Flags'
    BY <2>1, Zenon DEF Flags, ends, rest
  <2>3. Data'
    BY <2>1 DEF Data, steps, fifos, copied, rest
  <2> QED
    BY <2>2, <2>3, TypeParts, PTL
<1>3. StepsInv'
  BY DEF IndInv, StepsInv, Found, Stopped, Sampling, steps, rest
<1>4. SetUpInv'
  BY DEF IndInv, SetUpInv, Sampling, ctrl, steps, ends
<1>5. EmptyInv'
  BY DEF IndInv, EmptyInv, ends, fifos, rest
<1>6. /\ PrintsThisSequence' /\ SequenceInv' /\ CopyInv' /\ CountInv' /\ HostInv'
      /\ QueueInv'
  BY <1>1, SetUpFrame DEF Stopped, Sampling
<1> QED
  BY <1>2, <1>3, <1>4, <1>5, <1>6 DEF IndInv

LEMMA ConfigureKeeps == IndInv /\ Configure => IndInv'
<1> SUFFICES ASSUME IndInv, Configure PROVE IndInv'
  OBVIOUS
<1> USE DEF Configure, Goto
<1>1. pc = "config" /\ pc' = "tag" /\ UNCHANGED <<copied, rest>>
  OBVIOUS
<1>2. TypeOK'
  <2>1. Flags /\ Data
    BY TypeParts DEF IndInv
  <2>2. Flags'
    BY <2>1, Zenon DEF Flags, ctrl, ends, rest
  <2>3. Data'
    <3>1. \A s \in Used : Channel(s) \in 0..7
      BY ChannelFacts
    <3>2. STEPCONFIG' \in [Steps -> 0..7]
      BY <2>1, <3>1 DEF Data
    <3> QED
      BY <2>1, <3>2 DEF Data, fifos, copied, rest
  <2> QED
    BY <2>2, <2>3, TypeParts, PTL
<1>3. StepsInv'
  BY DEF IndInv, StepsInv, Found, Stopped, Sampling, ctrl, rest
<1>4. SetUpInv'
  <2>1. \A s \in Used : STEPCONFIG'[s] = Channel(s)
    BY ChannelFacts DEF IndInv, SetUpInv
  <2> QED
    BY <2>1 DEF SetUpInv, Sampling
<1>5. EmptyInv'
  BY DEF IndInv, EmptyInv, ends, fifos, rest
<1>6. /\ PrintsThisSequence' /\ SequenceInv' /\ CopyInv' /\ CountInv' /\ HostInv'
      /\ QueueInv'
  BY <1>1, SetUpFrame DEF Stopped, Sampling
<1> QED
  BY <1>2, <1>3, <1>4, <1>5, <1>6 DEF IndInv

LEMMA EnableTagKeeps == IndInv /\ EnableTag => IndInv'
<1> SUFFICES ASSUME IndInv, EnableTag PROVE IndInv'
  OBVIOUS
<1> USE DEF EnableTag, Goto
<1>1. pc = "tag" /\ pc' = "clear" /\ UNCHANGED <<copied, rest>>
  OBVIOUS
<1>2. TypeOK'
  <2>1. Flags /\ Data
    BY TypeParts DEF IndInv
  <2>2. Flags'
    BY <2>1, Zenon DEF Flags, ends, rest
  <2>3. Data'
    BY <2>1 DEF Data, steps, fifos, copied, rest
  <2> QED
    BY <2>2, <2>3, TypeParts, PTL
<1>3. StepsInv'
  BY DEF IndInv, StepsInv, Found, Stopped, Sampling, steps, rest
<1>4. SetUpInv'
  BY DEF IndInv, SetUpInv, Sampling, ctrl, steps, ends
<1>5. EmptyInv'
  BY DEF IndInv, EmptyInv, ends, fifos, rest
<1>6. /\ PrintsThisSequence' /\ SequenceInv' /\ CopyInv' /\ CountInv' /\ HostInv'
      /\ QueueInv'
  BY <1>1, SetUpFrame DEF Stopped, Sampling
<1> QED
  BY <1>2, <1>3, <1>4, <1>5, <1>6 DEF IndInv

LEMMA ClearEndKeeps == IndInv /\ ClearEnd => IndInv'
<1> SUFFICES ASSUME IndInv, ClearEnd PROVE IndInv'
  OBVIOUS
<1> USE DEF ClearEnd, Goto
<1>1. pc = "clear" /\ pc' = "irq" /\ UNCHANGED <<copied, rest>>
  OBVIOUS
<1>2. TypeOK'
  <2>1. Flags /\ Data
    BY TypeParts DEF IndInv
  <2>2. Flags'
    BY <2>1, Zenon DEF Flags, ctrl, rest
  <2>3. Data'
    BY <2>1 DEF Data, steps, fifos, copied, rest
  <2> QED
    BY <2>2, <2>3, TypeParts, PTL
<1>3. StepsInv'
  BY DEF IndInv, StepsInv, Found, Stopped, Sampling, ctrl, steps, rest
<1>4. SetUpInv'
  BY DEF IndInv, SetUpInv, Sampling, ctrl, steps, ends
<1>5. EmptyInv'
  BY DEF IndInv, EmptyInv, ends, fifos, rest
<1>6. /\ PrintsThisSequence' /\ SequenceInv' /\ CopyInv' /\ CountInv' /\ HostInv'
      /\ QueueInv'
  BY <1>1, SetUpFrame DEF Stopped, Sampling
<1> QED
  BY <1>2, <1>3, <1>4, <1>5, <1>6 DEF IndInv

LEMMA EnableEndKeeps == IndInv /\ EnableEnd => IndInv'
<1> SUFFICES ASSUME IndInv, EnableEnd PROVE IndInv'
  OBVIOUS
<1> USE DEF EnableEnd, Goto
<1>1. pc = "irq" /\ pc' = "lock" /\ UNCHANGED <<copied, rest>>
  OBVIOUS
<1>2. TypeOK'
  <2>1. Flags /\ Data
    BY TypeParts DEF IndInv
  <2>2. Flags'
    BY <2>1, Zenon DEF Flags, ctrl, rest
  <2>3. Data'
    BY <2>1 DEF Data, steps, fifos, copied, rest
  <2> QED
    BY <2>2, <2>3, TypeParts, PTL
<1>3. StepsInv'
  BY DEF IndInv, StepsInv, Found, Stopped, Sampling, ctrl, steps, rest
<1>4. SetUpInv'
  BY DEF IndInv, SetUpInv, Sampling, ctrl, steps, ends
<1>5. EmptyInv'
  BY DEF IndInv, EmptyInv, ends, fifos, rest
<1>6. /\ PrintsThisSequence' /\ SequenceInv' /\ CopyInv' /\ CountInv' /\ HostInv'
      /\ QueueInv'
  BY <1>1, SetUpFrame DEF Stopped, Sampling
<1> QED
  BY <1>2, <1>3, <1>4, <1>5, <1>6 DEF IndInv

LEMMA LockKeeps == IndInv /\ Lock => IndInv'
<1> SUFFICES ASSUME IndInv, Lock PROVE IndInv'
  OBVIOUS
<1> USE DEF Lock, Goto
<1>1. pc = "lock" /\ pc' = "drain" /\ UNCHANGED <<copied, rest>>
  OBVIOUS
<1>2. TypeOK'
  <2>1. Flags /\ Data
    BY TypeParts DEF IndInv
  <2>2. Flags'
    BY <2>1, Zenon DEF Flags, ends, rest
  <2>3. Data'
    BY <2>1 DEF Data, steps, fifos, copied, rest
  <2> QED
    BY <2>2, <2>3, TypeParts, PTL
<1>3. StepsInv'
  BY DEF IndInv, StepsInv, Found, Stopped, Sampling, steps, rest
<1>4. SetUpInv'
  BY DEF IndInv, SetUpInv, Sampling, ctrl, steps, ends
<1>5. EmptyInv'
  BY DEF IndInv, EmptyInv, ends, fifos, rest
<1>6. /\ PrintsThisSequence' /\ SequenceInv' /\ CopyInv' /\ CountInv' /\ HostInv'
      /\ QueueInv'
  BY <1>1, SetUpFrame DEF Stopped, Sampling
<1> QED
  BY <1>2, <1>3, <1>4, <1>5, <1>6 DEF IndInv

LEMMA ClearFifosKeeps == IndInv /\ ClearFifos => IndInv'
<1> SUFFICES ASSUME IndInv, ClearFifos PROVE IndInv'
  OBVIOUS
<1> USE DEF ClearFifos, Goto
<1>1. pc = "drain" /\ pc' = "enable" /\ UNCHANGED <<copied, rest>>
  OBVIOUS
<1>2. TypeOK'
  <2>1. Flags /\ Data
    BY TypeParts DEF IndInv
  <2>2. Flags'
    BY <2>1, Zenon DEF Flags, ctrl, ends, rest
  <2>3. Data'
    BY <2>1, EmptyFacts DEF Data, steps, copied, rest
  <2> QED
    BY <2>2, <2>3, TypeParts, PTL
<1>3. StepsInv'
  BY DEF IndInv, StepsInv, Found, Stopped, Sampling, ctrl, steps, rest
<1>4. SetUpInv'
  BY DEF IndInv, SetUpInv, Sampling, ctrl, steps, ends
<1>5. EmptyInv'
  BY DEF IndInv, EmptyInv, ends, fifos, rest
<1>6. /\ PrintsThisSequence' /\ SequenceInv' /\ CopyInv' /\ CountInv' /\ HostInv'
      /\ QueueInv'
  BY <1>1, SetUpFrame DEF Stopped, Sampling
<1> QED
  BY <1>2, <1>3, <1>4, <1>5, <1>6 DEF IndInv

LEMMA EnableKeeps == IndInv /\ Enable => IndInv'
<1> SUFFICES ASSUME IndInv, Enable PROVE IndInv'
  OBVIOUS
<1> USE DEF Enable, Goto
<1>1. pc = "enable" /\ pc' = "start" /\ UNCHANGED <<copied, rest>>
  OBVIOUS
<1>2. TypeOK'
  <2>1. Flags /\ Data
    BY TypeParts DEF IndInv
  <2>2. Flags'
    BY <2>1, Zenon DEF Flags, ends, rest
  <2>3. Data'
    BY <2>1 DEF Data, steps, fifos, copied, rest
  <2> QED
    BY <2>2, <2>3, TypeParts, PTL
<1>3. StepsInv'
  BY DEF IndInv, StepsInv, Found, Stopped, Sampling, steps, rest
<1>4. SetUpInv'
  BY DEF IndInv, SetUpInv, Sampling, ctrl, steps, ends
<1>5. EmptyInv'
  BY DEF IndInv, EmptyInv, ends, fifos, rest
<1>6. PrintsThisSequence' /\ SequenceInv' /\ CopyInv' /\ CountInv' /\ HostInv'
  BY <1>1, SetUpFrame DEF Stopped, Sampling
<1>7. QueueInv'
  <2>1. fifo0' = <<>> /\ shared_mem' = <<>>
    BY DEF IndInv, EmptyInv, CountInv, Sampling, fifos, copied
  <2>2. Total' = 0 + 0
    BY <2>1, EmptyFacts DEF Total
  <2> QED
    BY <2>2 DEF QueueInv
<1> QED
  BY <1>2, <1>3, <1>4, <1>5, <1>6, <1>7 DEF IndInv

LEMMA InitAdcKeeps == IndInv /\ InitAdc => IndInv'
  BY DisableKeeps, DisableStepsKeeps, UnlockKeeps, ConfigureKeeps, EnableTagKeeps,
     ClearEndKeeps, EnableEndKeeps, LockKeeps, ClearFifosKeeps, EnableKeeps
  DEF InitAdc

-----------------------------------------------------------------------------
(* Steps of the PRU: main.                                                 *)

\* While nothing is converted or copied the samples remain what they are.
LEMMA QueueKept ==
    ASSUME QueueInv, UNCHANGED <<STEPENABLE, at, fifo0, shared_mem>>,
           pc' \in Sampling => pc \in Sampling, pc' = "start" => pc = "start"
    PROVE  QueueInv'
<1>1. Total' = Total /\ \A k : Taken(k)' = Taken(k)
  BY DEF Total, Taken
<1>2. CASE pc' \in Sampling
  BY <1>1, <1>2 DEF QueueInv, Sampling
<1>3. CASE pc' = "start"
  BY <1>1, <1>3 DEF QueueInv
<1> QED
  BY <1>2, <1>3 DEF QueueInv

LEMMA StartSamplingKeeps == IndInv /\ StartSampling => IndInv'
<1> SUFFICES ASSUME IndInv, StartSampling PROVE IndInv'
  OBVIOUS
<1> USE DEF StartSampling, Goto
<1>1. /\ pc = "start" /\ pc' = "wait" /\ STEPENABLE' = Used /\ started' = TRUE
      /\ UNCHANGED <<on, tag, unlocked, STEPCONFIG, at, fifo0, fifo1, end, endEnabled,
                     count, shared_mem, hpc, event, printed, foreign>>
  BY DEF ctrl, fifos, ends, copied, rest
<1>2. hpc # "done"
  BY <1>1 DEF IndInv, HostInv
<1>3. TypeOK'
  <2>1. Flags /\ Data
    BY TypeParts DEF IndInv
  <2>2. Flags'
    BY <1>1, <2>1, Zenon DEF Flags
  <2>3. Data'
    BY <1>1, <2>1, ChannelFacts DEF Data
  <2> QED
    BY <2>2, <2>3, TypeParts, PTL
<1>4. StepsInv'
  BY <1>1 DEF IndInv, StepsInv, Found, Stopped, Sampling
<1>5. SetUpInv' /\ EmptyInv'
  BY <1>1 DEF IndInv, SetUpInv, EmptyInv, Sampling
<1>6. SequenceInv'
  <2> SUFFICES ASSUME ~foreign PROVE SequenceInv'
    BY <1>1 DEF SequenceInv
  <2>1. at = 0 /\ ~end /\ fifo0 = <<>>
    BY <1>1 DEF IndInv, StepsInv, EmptyInv
  <2>2. STEPENABLE' = {s \in Used : s > 0}
    BY <1>1 DEF Used
  <2>3. <<>> = [k \in 1..0 |-> Row(k)]
    OBVIOUS
  <2>4. 0 \in 0..7
    OBVIOUS
  <2> QED
    BY <1>1, <2>1, <2>2, <2>3, <2>4 DEF SequenceInv
<1>7. CopyInv' /\ CountInv' /\ PrintsThisSequence' /\ HostInv'
  BY <1>1, <1>2 DEF IndInv, CopyInv, CountInv, PrintsThisSequence, HostInv
<1>8. QueueInv'
  <2>1. PICK m \in Nat :
            /\ Total = m + 0
            /\ \A k \in 1..m : Taken(k).id >= 7 /\ ~Taken(k).new
    BY <1>1 DEF IndInv, QueueInv
  <2>2. Total' = Total /\ \A k : Taken(k)' = Taken(k)
    BY <1>1 DEF Total, Taken
  <2>3. at' = 0 \/ at' > 7
    BY <1>1 DEF IndInv, StepsInv
  <2>4. STEPENABLE' = {s \in Used : s > 0}
    BY <1>1 DEF Used
  <2>5. /\ Total' = m + 0
        /\ \A k \in 1..m : Taken(k)'.id >= 7 /\ ~Taken(k)'.new
        /\ \A k \in 1..0 : Taken(m + k)' = Row(k)
    BY <2>1, <2>2
  <2>6. 0 \in 0..7 /\ pc' # "start"
    BY <1>1
  <2> QED
    BY <2>3, <2>4, <2>5, <2>6 DEF QueueInv
<1> QED
  BY <1>3, <1>4, <1>5, <1>6, <1>7, <1>8 DEF IndInv

LEMMA WaitForAdcKeeps == IndInv /\ WaitForAdc => IndInv'
<1> SUFFICES ASSUME IndInv, WaitForAdc PROVE IndInv'
  OBVIOUS
<1> USE DEF WaitForAdc, Goto
<1>1. /\ pc = "wait" /\ pc' = "count" /\ end /\ end' = FALSE
      /\ UNCHANGED <<on, tag, unlocked, STEPENABLE, STEPCONFIG, at, fifo0, fifo1, endEnabled,
                     count, shared_mem, started, hpc, event, printed, foreign>>
  BY DEF ctrl, steps, fifos, copied, rest
<1>2. hpc # "done"
  BY <1>1 DEF IndInv, HostInv
<1>3. TypeOK'
  <2>1. Flags /\ Data
    BY TypeParts DEF IndInv
  <2>2. Flags'
    BY <1>1, <2>1, Zenon DEF Flags
  <2>3. Data'
    BY <1>1, <2>1 DEF Data
  <2> QED
    BY <2>2, <2>3, TypeParts, PTL
<1>4. StepsInv'
  BY <1>1 DEF IndInv, StepsInv, Found, Stopped, Sampling
<1>5. SetUpInv' /\ EmptyInv' /\ SequenceInv'
  BY <1>1 DEF IndInv, SetUpInv, EmptyInv, SequenceInv, Sampling
<1>6. CopyInv'
  <2> SUFFICES ASSUME ~foreign PROVE CopyInv'
    BY <1>1 DEF CopyInv
  <2>1. at = 0 /\ STEPENABLE = {s \in Used : s > 7} /\ fifo0 = [k \in 1..7 |-> Row(k)]
    BY <1>1 DEF IndInv, SequenceInv
  <2>2. STEPENABLE = {}
    BY <2>1 DEF Used
  <2> QED
    BY <1>1, <2>1, <2>2 DEF CopyInv
<1>7. CountInv' /\ PrintsThisSequence' /\ HostInv'
  BY <1>1, <1>2 DEF IndInv, CountInv, PrintsThisSequence, HostInv
<1>8. QueueInv'
  BY <1>1, QueueKept DEF IndInv, Sampling
<1> QED
  BY <1>3, <1>4, <1>5, <1>6, <1>7, <1>8 DEF IndInv

LEMMA ReadAdcCountKeeps == IndInv /\ ReadAdcCount => IndInv'
<1> SUFFICES ASSUME IndInv, ReadAdcCount PROVE IndInv'
  OBVIOUS
<1> USE DEF ReadAdcCount, Goto
<1>1. /\ pc = "count" /\ pc' = "copy" /\ count' = Len(fifo0)
      /\ UNCHANGED <<on, tag, unlocked, STEPENABLE, STEPCONFIG, at, fifo0, fifo1, end, endEnabled,
                     shared_mem, started, hpc, event, printed, foreign>>
  BY DEF ctrl, steps, fifos, ends, rest
<1>2. hpc # "done" /\ shared_mem = <<>>
  BY <1>1 DEF IndInv, HostInv, CountInv
<1>3. Flags /\ Data
  BY TypeParts DEF IndInv
<1>4. Len(fifo0) \in Nat /\ Len(shared_mem) = 0
  BY <1>2, <1>3, EmptyFacts DEF Data
<1>5. TypeOK'
  <2>1. Flags'
    BY <1>1, <1>3, Zenon DEF Flags
  <2>2. Data'
    BY <1>1, <1>3, <1>4 DEF Data
  <2> QED
    BY <2>1, <2>2, TypeParts, PTL
<1>6. StepsInv'
  BY <1>1 DEF IndInv, StepsInv, Found, Stopped, Sampling
<1>7. SetUpInv' /\ EmptyInv' /\ SequenceInv'
  BY <1>1 DEF IndInv, SetUpInv, EmptyInv, SequenceInv, Sampling
<1>8. CopyInv'
  <2> SUFFICES ASSUME ~foreign PROVE CopyInv'
    BY <1>1 DEF CopyInv
  <2>1. at = 0 /\ STEPENABLE = {} /\ fifo0 = [k \in 1..7 |-> Row(k)]
    BY <1>1 DEF IndInv, CopyInv
  <2>2. Len(fifo0) = 7
    BY <2>1, RowCount
  <2>3. shared_mem = [k \in 1..0 |-> Row(k)]
    BY <1>2
  <2>4. fifo0 = [k \in 1..7 - 0 |-> Row(0 + k)]
    BY <2>1
  <2>5. 0 \in 0..7
    OBVIOUS
  <2> QED
    BY <1>1, <2>1, <2>2, <2>3, <2>4, <2>5 DEF CopyInv
<1>9. CountInv'
  BY <1>1, <1>4 DEF CountInv
<1>10. PrintsThisSequence' /\ HostInv'
  BY <1>1, <1>2 DEF IndInv, PrintsThisSequence, HostInv
<1>11. QueueInv'
  BY <1>1, QueueKept DEF IndInv, Sampling
<1> QED
  BY <1>5, <1>6, <1>7, <1>8, <1>9, <1>10, <1>11 DEF IndInv

LEMMA CopyRowKeeps == IndInv /\ CopyRow => IndInv'
<1> SUFFICES ASSUME IndInv, CopyRow PROVE IndInv'
  OBVIOUS
<1>1. /\ pc = "copy" /\ pc' = "copy" /\ Len(shared_mem) < count
      /\ shared_mem' = Append(shared_mem, Head(fifo0)) /\ fifo0' = Tail(fifo0)
      /\ UNCHANGED <<on, tag, unlocked, STEPENABLE, STEPCONFIG, at, fifo1, end, endEnabled,
                     count, started, hpc, event, printed, foreign>>
  BY DEF CopyRow, ctrl, steps, ends, rest
<1>2. hpc # "done"
  BY <1>1 DEF IndInv, HostInv
<1>3. Flags /\ Data
  BY TypeParts DEF IndInv
<1>4. /\ Len(shared_mem) \in Nat /\ Len(fifo0) \in Nat /\ Len(fifo0) > 0
      /\ count \in Nat /\ count <= Len(shared_mem) + Len(fifo0)
  BY <1>1, <1>3 DEF IndInv, CountInv, Data
<1>5. /\ Head(fifo0) \in Sample /\ Tail(fifo0) \in Seq(Sample)
      /\ Len(Tail(fifo0)) = Len(fifo0) - 1
  BY <1>3, <1>4, TailFacts DEF Data
<1>6. /\ Append(shared_mem, Head(fifo0)) \in Seq(Sample)
      /\ Len(Append(shared_mem, Head(fifo0))) = Len(shared_mem) + 1
  BY <1>3, <1>5, AppendFacts DEF Data
<1>7. TypeOK'
  <2>1. Flags'
    BY <1>1, <1>3, Zenon DEF Flags
  <2>2. Data'
    BY <1>1, <1>3, <1>4, <1>5, <1>6 DEF Data
  <2> QED
    BY <2>1, <2>2, TypeParts, PTL
<1>8. StepsInv'
  BY <1>1 DEF IndInv, StepsInv, Found, Stopped, Sampling
<1>9. SetUpInv' /\ EmptyInv' /\ SequenceInv'
  BY <1>1 DEF IndInv, SetUpInv, EmptyInv, SequenceInv, Sampling
<1>10. CopyInv'
  <2> SUFFICES ASSUME ~foreign PROVE CopyInv'
    BY <1>1 DEF CopyInv
  <2>1. at = 0 /\ STEPENABLE = {} /\ count = 7
    BY <1>1 DEF IndInv, CopyInv
  <2>2. PICK m \in 0..7 : /\ shared_mem = [k \in 1..m |-> Row(k)]
                          /\ fifo0 = [k \in 1..7 - m |-> Row(m + k)]
    BY <1>1 DEF IndInv, CopyInv
  <2>3. m \in 0..6
    <3>1. Len(shared_mem) = m
      BY <2>2, RowCount
    <3> QED
      BY <1>1, <2>1, <3>1
  <2>4. /\ Head(fifo0) = Row(m + 1)
        /\ Tail(fifo0) = [k \in 1..7 - (m + 1) |-> Row((m + 1) + k)]
    BY <2>2, <2>3, RowTaken
  <2>5. shared_mem' = [k \in 1..m + 1 |-> Row(k)]
    <3>1. m \in Nat
      OBVIOUS
    <3>2. Append([k \in 1..m |-> Row(k)], Row(m + 1)) = [k \in 1..m + 1 |-> Row(k)]
      BY <3>1, RowAppended
    <3> QED
      BY <1>1, <2>2, <2>4, <3>2, Zenon
  <2>6. m + 1 \in 0..7
    BY <2>3
  <2> QED
    BY <1>1, <2>1, <2>4, <2>5, <2>6 DEF CopyInv
<1>11. CountInv'
  BY <1>1, <1>4, <1>5, <1>6 DEF CountInv
<1>12. PrintsThisSequence' /\ HostInv'
  BY <1>1, <1>2 DEF IndInv, PrintsThisSequence, HostInv
<1>13. QueueInv'
  <2>1. PICK l \in Nat : l = Len(shared_mem)
    BY <1>4
  <2>2. Len(shared_mem') = l + 1 /\ Len(fifo0') = Len(fifo0) - 1
    BY <1>1, <1>5, <1>6, <2>1
  <2>3. Total' = Total
    BY <1>4, <2>1, <2>2 DEF Total
  <2>4. ASSUME NEW k \in 1..Total PROVE Taken(k)' = Taken(k)
    <3>1. /\ \A x \in 1..l : shared_mem'[x] = shared_mem[x]
          /\ shared_mem'[l + 1] = fifo0[1]
      BY <1>1, <1>3, <1>4, <1>5, <2>1 DEF Data
    <3>2. \A x \in 1..Len(fifo0) - 1 : fifo0'[x] = fifo0[x + 1]
      BY <1>1, <1>3, <1>4 DEF Data
    <3>3. CASE k <= l
      BY <2>1, <2>2, <3>1, <3>3 DEF Taken
    <3>4. CASE k = l + 1
      BY <2>1, <2>2, <3>1, <3>4 DEF Taken
    <3>5. CASE k > l + 1
      <4>1. k - (l + 1) \in 1..Len(fifo0) - 1 /\ (k - (l + 1)) + 1 = k - l
        BY <1>4, <2>1, <3>5 DEF Total
      <4>2. Taken(k) = fifo0[k - l]
        BY <2>1, <3>5 DEF Taken
      <4>3. Taken(k)' = fifo0'[k - (l + 1)]
        BY <2>2, <3>5 DEF Taken
      <4>4. fifo0'[k - (l + 1)] = fifo0[k - l]
        BY <3>2, <4>1
      <4> QED
        BY <4>2, <4>3, <4>4
    <3> QED
      BY <1>4, <2>1, <3>3, <3>4, <3>5 DEF Total
  <2>5. PICK m \in Nat, n \in 0..7 :
            /\ Total = m + n
            /\ \A k \in 1..m : Taken(k).id >= 7 /\ ~Taken(k).new
            /\ \A k \in 1..n : Taken(m + k) = Row(k)
            /\ STEPENABLE = {s \in Used : s > n}
            /\ at = n \/ (n = 7 /\ at = 0) \/ (n = 0 /\ at > 7)
    BY <1>1 DEF IndInv, QueueInv, Sampling
  <2>6. \A k \in 1..m : k \in 1..Total
    BY <2>5
  <2>7. \A k \in 1..n : m + k \in 1..Total
    BY <2>5
  <2> QED
    BY <1>1, <2>3, <2>4, <2>5, <2>6, <2>7 DEF QueueInv
<1> QED
  BY <1>7, <1>8, <1>9, <1>10, <1>11, <1>12, <1>13 DEF IndInv

LEMMA HaltKeeps == IndInv /\ Halt => IndInv'
<1> SUFFICES ASSUME IndInv, Halt PROVE IndInv'
  OBVIOUS
<1>1. /\ pc = "copy" /\ pc' = "halted" /\ Len(shared_mem) = count /\ event' = TRUE
      /\ UNCHANGED <<on, tag, unlocked, STEPENABLE, STEPCONFIG, at, fifo0, fifo1, end, endEnabled,
                     count, shared_mem, started, hpc, printed, foreign>>
  BY DEF Halt, Goto, ctrl, steps, fifos, ends, copied
<1>2. hpc # "done"
  BY <1>1 DEF IndInv, HostInv
<1>3. TypeOK'
  <2>1. Flags /\ Data
    BY TypeParts DEF IndInv
  <2>2. Flags'
    BY <1>1, <2>1, Zenon DEF Flags
  <2>3. Data'
    BY <1>1, <2>1 DEF Data
  <2> QED
    BY <2>2, <2>3, TypeParts, PTL
<1>4. StepsInv'
  BY <1>1 DEF IndInv, StepsInv, Found, Stopped, Sampling
<1>5. SetUpInv' /\ EmptyInv' /\ SequenceInv' /\ CopyInv' /\ CountInv'
  BY <1>1 DEF IndInv, SetUpInv, EmptyInv, SequenceInv, CopyInv, CountInv, Sampling
<1>6. PrintsThisSequence' /\ HostInv'
  BY <1>1, <1>2 DEF IndInv, PrintsThisSequence, HostInv
<1>7. QueueInv'
  BY <1>1, QueueKept DEF IndInv, Sampling
<1> QED
  BY <1>3, <1>4, <1>5, <1>6, <1>7 DEF IndInv

LEMMA PruKeeps == IndInv /\ Pru => IndInv'
  BY InitAdcKeeps, StartSamplingKeeps, WaitForAdcKeeps, ReadAdcCountKeeps, CopyRowKeeps,
     HaltKeeps
  DEF Pru

-----------------------------------------------------------------------------
(* Steps of the converter.                                                 *)

\* While it runs, init_adc has not begun or is done.
LEMMA Running ==
    ASSUME IndInv, on
    PROVE  pc \notin Stopped
  BY DEF IndInv, StepsInv

LEMMA ConvertKeeps == IndInv /\ Convert => IndInv'
<1> SUFFICES ASSUME IndInv, Convert PROVE IndInv'
  OBVIOUS
<1> DEFINE Converted(s) == [id |-> IF tag THEN s - 1 ELSE 0, channel |-> STEPCONFIG[s], new |-> started]
<1>1. PICK s \in STEPENABLE :
        /\ s > at /\ \A t \in STEPENABLE : t > at => s <= t
        /\ fifo0' = Append(fifo0, Converted(s)) /\ STEPENABLE' = STEPENABLE \ {s} /\ at' = s
  BY DEF Convert
<1>2. /\ on
      /\ UNCHANGED <<on, tag, unlocked, STEPCONFIG, fifo1, end, endEnabled, pc,
                     count, shared_mem, started, hpc, event, printed, foreign>>
  BY DEF Convert, ctrl, ends, copied, rest
<1>3. Flags /\ Data
  BY TypeParts DEF IndInv
<1>4. pc \notin Stopped
  BY <1>2, Running
<1>5. Converted(s) \in Sample
  <2>1. s \in 1..16
    BY <1>3 DEF Data, Steps
  <2>2. (IF tag THEN s - 1 ELSE 0) \in 0..15 /\ STEPCONFIG[s] \in 0..7
    <3>1. s - 1 \in 0..15 /\ 0 \in 0..15
      BY <2>1
    <3>2. (IF tag THEN s - 1 ELSE 0) \in 0..15
      BY <3>1, Zenon
    <3>3. STEPCONFIG[s] \in 0..7
      BY <1>3, <2>1, Zenon DEF Data, Steps
    <3> QED
      BY <3>2, <3>3
  <2>3. started \in BOOLEAN
    BY <1>3, Zenon DEF Flags
  <2> QED
    BY <2>2, <2>3, Zenon DEF Sample
<1>6. /\ fifo0' \in Seq(Sample) /\ Len(fifo0') = Len(fifo0) + 1 /\ Len(fifo0) \in Nat
  BY <1>1, <1>3, <1>5, AppendFacts DEF Data
<1>7. TypeOK'
  <2>1. Flags'
    BY <1>2, <1>3, Zenon DEF Flags
  <2>2. STEPENABLE' \subseteq Steps /\ at' \in 0..16
    <3>1. s \in 1..16 /\ STEPENABLE \subseteq Steps
      BY <1>3 DEF Data, Steps
    <3> QED
      BY <1>1, <3>1
  <2>3. Data'
    BY <1>2, <1>3, <1>6, <2>2 DEF Data
  <2> QED
    BY <2>1, <2>3, TypeParts, PTL
<1>8. StepsInv'
  <2>1. pc = "start" => at' > 7
    BY <1>1, <1>3 DEF IndInv, StepsInv, Data, Steps, Used
  <2> QED
    BY <1>1, <1>2, <1>4, <2>1 DEF IndInv, StepsInv
<1>9. SetUpInv' /\ EmptyInv'
  BY <1>1, <1>2, <1>4 DEF IndInv, SetUpInv, EmptyInv, StepsInv, Stopped
<1>10. SequenceInv'
  <2> SUFFICES ASSUME ~foreign, pc = "wait" PROVE SequenceInv'
    BY <1>2 DEF SequenceInv
  <2>1. PICK n \in 0..7 : /\ STEPENABLE = {t \in Used : t > n}
                          /\ fifo0 = [k \in 1..n |-> Row(k)]
                          /\ IF end THEN n = 7 /\ at = 0 ELSE at = n
    BY DEF IndInv, SequenceInv
  <2>2. n \in 0..6 /\ ~end /\ at = n
    BY <1>1, <2>1 DEF Used
  <2>3. s = n + 1
    BY <1>1, <2>1, <2>2 DEF Used
  <2>4. STEPENABLE' = {t \in Used : t > n + 1}
    BY <1>1, <2>1, <2>2, <2>3 DEF Used
  <2>5. Converted(s) = Row(n + 1)
    <3>1. tag /\ started /\ STEPCONFIG[s] = Channel(s)
      BY <1>1, <2>1 DEF IndInv, SetUpInv, StepsInv, Sampling
    <3>2. started = TRUE
      BY <1>3, <3>1 DEF Flags
    <3> QED
      BY <2>2, <2>3, <3>1, <3>2 DEF Row
  <2>6. fifo0' = [k \in 1..n + 1 |-> Row(k)]
    BY <1>1, <2>1, <2>2, <2>5, RowAppended
  <2>7. n + 1 \in 0..7 /\ at' = n + 1 /\ ~end'
    BY <1>1, <1>2, <2>2, <2>3
  <2> QED
    BY <2>4, <2>6, <2>7 DEF SequenceInv
<1>11. CopyInv'
  BY <1>1, <1>2 DEF IndInv, CopyInv
<1>12. CountInv'
  BY <1>2, <1>3, <1>6 DEF IndInv, CountInv, Data
<1>13. PrintsThisSequence' /\ HostInv'
  BY <1>2 DEF IndInv, PrintsThisSequence, HostInv
<1>14. QueueInv'
  <2> SUFFICES ASSUME pc \in {"start"} \union Sampling PROVE QueueInv'
    BY <1>2 DEF QueueInv
  <2>1. PICK m \in Nat, n \in 0..7 :
            /\ Total = m + n
            /\ \A k \in 1..m : Taken(k).id >= 7 /\ ~Taken(k).new
            /\ \A k \in 1..n : Taken(m + k) = Row(k)
            /\ pc = "start" => n = 0
            /\ pc # "start" =>
                  /\ STEPENABLE = {t \in Used : t > n}
                  /\ at = n \/ (n = 7 /\ at = 0) \/ (n = 0 /\ at > 7)
    BY DEF IndInv, QueueInv
  <2>2. tag /\ (pc # "start" => STEPCONFIG[s] = Channel(s) \/ s \notin Used)
    BY DEF IndInv, SetUpInv
  <2>3. Total' = Total + 1 /\ Taken((m + n) + 1)' = Converted(s)
    <3>1. Len(shared_mem) \in Nat
      BY <1>3 DEF Data
    <3>2. fifo0'[Len(fifo0) + 1] = Converted(s)
      BY <1>1, <1>3, <1>5, <1>6 DEF Data
    <3>3. PICK l \in Nat, f \in Nat : l = Len(shared_mem) /\ f = Len(fifo0)
      BY <1>6, <3>1
    <3>4. ~(l + f + 1 <= l) /\ (l + f + 1) - l = f + 1
      OBVIOUS
    <3>5. Total = l + f /\ m + n = l + f
      BY <2>1, <3>3 DEF Total
    <3> QED
      BY <1>2, <1>6, <3>2, <3>3, <3>4, <3>5 DEF Total, Taken
  <2>4. ASSUME NEW k \in 1..Total PROVE Taken(k)' = Taken(k)
    <3>1. PICK l \in Nat : l = Len(shared_mem)
      BY <1>3 DEF Data
    <3>2. \A x \in 1..Len(fifo0) : fifo0'[x] = fifo0[x]
      BY <1>1, <1>3, <1>5, <1>6 DEF Data
    <3>3. k > l => k - l \in 1..Len(fifo0)
      BY <1>6, <3>1 DEF Total
    <3> QED
      BY <1>2, <3>1, <3>2, <3>3 DEF Taken
  <2>5. /\ \A k \in 1..m : Taken(k)'.id >= 7 /\ ~Taken(k)'.new
        /\ \A k \in 1..n : Taken(m + k)' = Row(k)
    <3>1. (\A k \in 1..m : k \in 1..Total) /\ \A k \in 1..n : m + k \in 1..Total
      BY <2>1
    <3> QED
      BY <2>1, <2>4, <3>1
  <2>6. CASE pc = "start"
    <3>1. s \in 8..16 /\ ~started
      BY <1>1, <1>3, <2>6 DEF IndInv, StepsInv, Sampling, Data, Steps, Used
    <3>2. Converted(s).id = s - 1 /\ Converted(s).new = started
      BY <2>2
    <3>3. n = 0 /\ Total = m /\ m + 1 \in Nat /\ Total' = (m + 1) + 0
      BY <2>1, <2>3, <2>6
    <3>4. \A k \in 1..m + 1 : Taken(k)'.id >= 7 /\ ~Taken(k)'.new
      <4>1. Taken(m + 1)'.id >= 7 /\ ~Taken(m + 1)'.new
        <5>1. (m + n) + 1 = m + 1
          BY <3>3
        <5>2. Taken(m + 1)' = Converted(s)
          BY <2>3, <5>1
        <5>3. Converted(s).id >= 7 /\ ~Converted(s).new
          BY <3>1, <3>2
        <5> QED
          BY <5>2, <5>3
      <4>2. \A k \in 1..m + 1 : k \in 1..m \/ k = m + 1
        OBVIOUS
      <4> QED
        BY <2>5, <4>1, <4>2
    <3> QED
      BY <1>2, <2>6, <3>3, <3>4 DEF QueueInv
  <2>7. CASE pc \in Sampling
    <3>1. n \in 0..6 /\ s = n + 1
      <4>1. STEPENABLE = {t \in Used : t > n} /\ (at = n \/ (n = 7 /\ at = 0) \/ at > 7)
        BY <2>1, <2>7 DEF Sampling
      <4>2. s \in 1..7 /\ s > n /\ at = n
        <5>1. s \in 1..7 /\ s > n
          BY <4>1 DEF Used
        <5>2. s > at
          BY <1>1
        <5>3. at \in 0..16
          BY <1>3 DEF Data
        <5> QED
          BY <4>1, <5>1, <5>2, <5>3
      <4>3. n + 1 \in STEPENABLE
        BY <4>1, <4>2 DEF Used
      <4> QED
        BY <1>1, <4>2, <4>3
    <3>2. STEPENABLE' = {t \in Used : t > n + 1}
      BY <1>1, <2>1, <2>7, <3>1 DEF Used, Sampling
    <3>3. Converted(s) = Row(n + 1)
      <4>1. started = TRUE /\ STEPCONFIG[s] = Channel(s)
        BY <1>3, <2>7, <3>1 DEF IndInv, StepsInv, SetUpInv, Flags, Used
      <4> QED
        BY <2>2, <3>1, <4>1 DEF Row
    <3>4. Total' = m + (n + 1) /\ n + 1 \in 0..7 /\ (m + n) + 1 = m + (n + 1)
      BY <2>1, <2>3, <3>1
    <3>5. \A k \in 1..n + 1 : Taken(m + k)' = Row(k)
      <4>1. Taken(m + (n + 1))' = Row(n + 1)
        BY <2>3, <3>3, <3>4
      <4>2. \A k \in 1..n + 1 : k \in 1..n \/ k = n + 1
        OBVIOUS
      <4> QED
        BY <2>5, <4>1, <4>2
    <3>6. at' = n + 1 /\ pc' # "start"
      BY <1>1, <1>2, <2>7, <3>1 DEF Sampling
    <3> QED
      BY <2>5, <3>2, <3>4, <3>5, <3>6 DEF QueueInv
  <2> QED
    BY <2>6, <2>7
<1> QED
  BY <1>7, <1>8, <1>9, <1>10, <1>11, <1>12, <1>13, <1>14 DEF IndInv

LEMMA EndOfSequenceKeeps == IndInv /\ EndOfSequence => IndInv'
<1> SUFFICES ASSUME IndInv, EndOfSequence PROVE IndInv'
  OBVIOUS
<1>1. /\ on /\ at > 0 /\ (\A t \in STEPENABLE : t <= at) /\ end' = TRUE /\ at' = 0
      /\ UNCHANGED <<on, tag, unlocked, STEPENABLE, STEPCONFIG, fifo0, fifo1, endEnabled, pc,
                     count, shared_mem, started, hpc, event, printed, foreign>>
  BY DEF EndOfSequence, ctrl, fifos, copied, rest
<1>2. pc \notin Stopped
  BY <1>1, Running
<1>3. TypeOK'
  <2>1. Flags /\ Data
    BY TypeParts DEF IndInv
  <2>2. Flags'
    BY <1>1, <2>1, Zenon DEF Flags
  <2>3. Data'
    BY <1>1, <2>1 DEF Data
  <2> QED
    BY <2>2, <2>3, TypeParts, PTL
<1>4. StepsInv'
  BY <1>1, <1>2 DEF IndInv, StepsInv
<1>5. SetUpInv' /\ EmptyInv'
  BY <1>1, <1>2 DEF IndInv, SetUpInv, EmptyInv, StepsInv, Stopped
<1>6. SequenceInv'
  <2> SUFFICES ASSUME ~foreign, pc = "wait" PROVE SequenceInv'
    BY <1>1 DEF SequenceInv
  <2>1. PICK n \in 0..7 : /\ STEPENABLE = {t \in Used : t > n}
                          /\ fifo0 = [k \in 1..n |-> Row(k)]
                          /\ IF end THEN n = 7 /\ at = 0 ELSE at = n
    BY DEF IndInv, SequenceInv
  <2>2. at = n
    BY <1>1, <2>1
  <2>3. n = 7
    <3>1. n < 7 => n + 1 \in STEPENABLE
      BY <2>1 DEF Used
    <3> QED
      BY <1>1, <2>2, <3>1
  <2> QED
    BY <1>1, <2>1, <2>3 DEF SequenceInv
<1>7. CopyInv' /\ CountInv' /\ PrintsThisSequence' /\ HostInv'
  BY <1>1 DEF IndInv, CopyInv, CountInv, PrintsThisSequence, HostInv
<1>8. QueueInv'
  <2> SUFFICES ASSUME pc \in {"start"} \union Sampling PROVE QueueInv'
    BY <1>1 DEF QueueInv
  <2>1. Total' = Total /\ \A k : Taken(k)' = Taken(k)
    BY <1>1 DEF Total, Taken
  <2>2. PICK m \in Nat, n \in 0..7 :
            /\ Total = m + n
            /\ \A k \in 1..m : Taken(k).id >= 7 /\ ~Taken(k).new
            /\ \A k \in 1..n : Taken(m + k) = Row(k)
            /\ pc = "start" => n = 0
            /\ pc # "start" =>
                  /\ STEPENABLE = {t \in Used : t > n}
                  /\ at = n \/ (n = 7 /\ at = 0) \/ (n = 0 /\ at > 7)
    BY DEF IndInv, QueueInv
  <2>3. pc # "start" => n = 0 \/ n = 7
    <3>1. n < 7 => n + 1 \in {t \in Used : t > n}
      BY DEF Used
    <3> QED
      BY <1>1, <2>2, <3>1
  <2> QED
    BY <1>1, <2>1, <2>2, <2>3 DEF QueueInv
<1> QED
  BY <1>3, <1>4, <1>5, <1>6, <1>7, <1>8 DEF IndInv

LEMMA ConverterKeeps == IndInv /\ Converter => IndInv'
  BY ConvertKeeps, EndOfSequenceKeeps DEF Converter

-----------------------------------------------------------------------------
(* Steps of the host.                                                      *)

LEMMA HostSetupKeeps == IndInv /\ HostSetup => IndInv'
<1> SUFFICES ASSUME IndInv, HostSetup PROVE IndInv'
  OBVIOUS
<1>1. /\ hpc = "setup" /\ hpc' \in {"exec", "failed"} /\ shared_mem' = <<>>
      /\ UNCHANGED <<on, tag, unlocked, STEPENABLE, STEPCONFIG, at, fifo0, fifo1, end, endEnabled,
                     pc, count, started, event, printed, foreign>>
  BY DEF HostSetup, ctrl, steps, fifos, ends
<1>2. pc = "off"
  BY <1>1 DEF IndInv, HostInv
<1>3. shared_mem' = shared_mem
  BY <1>1, <1>2 DEF IndInv, CountInv
<1>4. TypeOK'
  <2>1. Flags /\ Data
    BY TypeParts DEF IndInv
  <2>2. Flags'
    BY <1>1, <2>1, Zenon DEF Flags
  <2>3. Data'
    BY <1>1, <1>3, <2>1 DEF Data
  <2> QED
    BY <2>2, <2>3, TypeParts, PTL
<1>5. StepsInv' /\ SetUpInv' /\ EmptyInv'
  BY <1>1 DEF IndInv, StepsInv, SetUpInv, EmptyInv
<1>6. SequenceInv' /\ CopyInv' /\ CountInv'
  BY <1>1, <1>2, <1>3 DEF IndInv, SequenceInv, CopyInv, CountInv
<1>7. PrintsThisSequence' /\ HostInv'
  BY <1>1 DEF IndInv, PrintsThisSequence, HostInv
<1>8. QueueInv'
  BY <1>1, <1>2 DEF QueueInv, Sampling
<1> QED
  BY <1>4, <1>5, <1>6, <1>7, <1>8 DEF IndInv

LEMMA HostExecKeeps == IndInv /\ HostExec => IndInv'
<1> SUFFICES ASSUME IndInv, HostExec PROVE IndInv'
  OBVIOUS
<1>1. /\ hpc = "exec" /\ hpc' = "wait" /\ pc = "off" /\ pc' = "init"
      /\ UNCHANGED <<on, tag, unlocked, STEPENABLE, STEPCONFIG, at, fifo0, fifo1, end, endEnabled,
                     count, shared_mem, started, event, printed, foreign>>
  BY DEF HostExec, Goto, ctrl, steps, fifos, ends, copied
<1>2. TypeOK'
  <2>1. Flags /\ Data
    BY TypeParts DEF IndInv
  <2>2. Flags'
    BY <1>1, <2>1, Zenon DEF Flags
  <2>3. Data'
    BY <1>1, <2>1 DEF Data
  <2> QED
    BY <2>2, <2>3, TypeParts, PTL
<1>3. StepsInv'
  BY <1>1 DEF IndInv, StepsInv, Found, Stopped, Sampling
<1>4. SetUpInv' /\ EmptyInv' /\ SequenceInv' /\ CopyInv' /\ CountInv'
  BY <1>1 DEF IndInv, SetUpInv, EmptyInv, SequenceInv, CopyInv, CountInv, Sampling
<1>5. PrintsThisSequence' /\ HostInv'
  BY <1>1 DEF IndInv, PrintsThisSequence, HostInv
<1>6. QueueInv'
  BY <1>1 DEF QueueInv, Sampling
<1> QED
  BY <1>2, <1>3, <1>4, <1>5, <1>6 DEF IndInv

\* The event says that all rows have been written.
LEMMA HostPrintKeeps == IndInv /\ HostPrint => IndInv'
<1> SUFFICES ASSUME IndInv, HostPrint PROVE IndInv'
  OBVIOUS
<1> DEFINE rows == [k \in 1..7 |-> IF k <= Len(shared_mem) THEN shared_mem[k] ELSE Blank]
<1>1. /\ hpc = "wait" /\ hpc' = "done" /\ event /\ printed' = rows
      /\ UNCHANGED <<on, tag, unlocked, STEPENABLE, STEPCONFIG, at, fifo0, fifo1, end, endEnabled,
                     pc, count, shared_mem, started, event, foreign>>
  BY DEF HostPrint, ctrl, steps, fifos, ends, copied
<1>2. pc = "halted"
  BY <1>1 DEF IndInv, HostInv
<1>3. Flags /\ Data
  BY TypeParts DEF IndInv
<1>4. rows \in Seq(Sample)
  <2>1. Blank \in Sample
    BY BlankFacts
  <2>2. \A k \in 1..Len(shared_mem) : shared_mem[k] \in Sample
    BY <1>3 DEF Data
  <2>3. \A k \in 1..7 : (IF k <= Len(shared_mem) THEN shared_mem[k] ELSE Blank) \in Sample
    <3>1. Len(shared_mem) \in Nat
      BY <1>3 DEF Data
    <3> QED
      BY <2>1, <2>2, <3>1
  <2>4. rows \in [1..7 -> Sample]
    BY <2>3
  <2> QED
    BY <2>4, FunctionIsSeq
<1>5. TypeOK'
  <2>1. Flags'
    BY <1>1, <1>3, Zenon DEF Flags
  <2>2. Data'
    BY <1>1, <1>3, <1>4 DEF Data
  <2> QED
    BY <2>1, <2>2, TypeParts, PTL
<1>6. ~foreign => printed' = [k \in 1..7 |-> Row(k)]
  <2> SUFFICES ASSUME ~foreign PROVE printed' = [k \in 1..7 |-> Row(k)]
    OBVIOUS
  <2>1. PICK m \in 0..7 : shared_mem = [k \in 1..m |-> Row(k)] /\ count = 7
    BY <1>2 DEF IndInv, CopyInv
  <2>2. Len(shared_mem) = 7 /\ m = 7
    BY <1>2, <2>1, RowCount DEF IndInv, CountInv
  <2>3. \A k \in 1..7 : rows[k] = Row(k)
    BY <2>1, <2>2
  <2> QED
    BY <1>1, <2>3
<1>9. PrintsThisSequence'
  <2>1. CASE ~foreign
    <3>1. /\ DOMAIN printed' = 1..7
          /\ \A k \in 1..7 : printed'[0 + k] = Row(k)
      BY <1>6, <2>1
    <3>2. 0 \in 0..7 /\ 7 \in 0..7 - 0
      OBVIOUS
    <3> QED
      BY <1>1, <3>1, <3>2 DEF PrintsThisSequence
  <2>2. CASE foreign
    <3>1. PICK M \in Nat, N \in 0..7 :
              /\ Total = M + N
              /\ \A k \in 1..M : Taken(k).id >= 7 /\ ~Taken(k).new
              /\ \A k \in 1..N : Taken(M + k) = Row(k)
      BY <1>2 DEF IndInv, QueueInv, Sampling
    <3>2. PICK l \in Nat : l = Len(shared_mem) /\ l <= M + N
      <4>1. Len(shared_mem) \in Nat /\ Len(fifo0) \in Nat
        BY <1>3 DEF Data
      <4> QED
        BY <3>1, <4>1 DEF Total
    <3>3. PICK w \in 0..7 : (l <= 7 => w = l) /\ (l > 7 => w = 7)
      <4>1. CASE l <= 7
        <5>1. l \in 0..7
          BY <4>1
        <5> QED
          BY <4>1, <5>1
      <4>2. CASE l > 7
        BY <4>2
      <4> QED
        BY <4>1, <4>2
    <3>4. PICK m \in 0..7 : m = IF M <= w THEN M ELSE w
      BY <3>1, <3>3
    <3>5. PICK n \in 0..7 - m : n = w - m
      BY <3>3, <3>4
    <3>6. /\ \A k \in 1..w : rows[k] = Taken(k)
          /\ \A k \in w + 1..7 : rows[k] = Blank
      BY <3>2, <3>3 DEF Taken
    <3>7. \A k \in 1..m : printed'[k].id >= 7 /\ ~printed'[k].new
      <4> SUFFICES ASSUME NEW k \in 1..m
                   PROVE  printed'[k].id >= 7 /\ ~printed'[k].new
        OBVIOUS
      <4>1. k \in 1..M /\ k \in 1..w
        BY <3>1, <3>3, <3>4
      <4>2. printed'[k] = Taken(k)
        BY <1>1, <3>6, <4>1
      <4> QED
        BY <3>1, <4>1, <4>2
    <3>8. \A k \in 1..n : printed'[m + k] = Row(k)
      <4> SUFFICES ASSUME NEW k \in 1..n PROVE printed'[m + k] = Row(k)
        OBVIOUS
      <4>1. m = M /\ m + k \in 1..w
        BY <3>3, <3>4, <3>5
      <4>2. k \in 1..N
        BY <3>2, <3>3, <3>5, <4>1
      <4> QED
        BY <1>1, <3>1, <3>6, <4>1, <4>2
    <3>9. \A k \in m + n + 1..7 : printed'[k] = Blank
      BY <1>1, <3>3, <3>4, <3>5, <3>6
    <3>10. DOMAIN printed' = 1..7
      BY <1>1
    <3> QED
      BY <1>1, <2>2, <3>7, <3>8, <3>9, <3>10 DEF PrintsThisSequence
  <2> QED
    BY <2>1, <2>2
<1>7. StepsInv' /\ SetUpInv' /\ EmptyInv'
  BY <1>1 DEF IndInv, StepsInv, SetUpInv, EmptyInv
<1>8. SequenceInv' /\ CopyInv' /\ CountInv' /\ HostInv'
  BY <1>1, <1>2 DEF IndInv, SequenceInv, CopyInv, CountInv, HostInv
<1>10. QueueInv'
  BY <1>1, QueueKept DEF IndInv
<1> QED
  BY <1>5, <1>7, <1>8, <1>9, <1>10 DEF IndInv

LEMMA HostKeeps == IndInv /\ Host => IndInv'
  BY HostSetupKeeps, HostExecKeeps, HostPrintKeeps DEF Host

-----------------------------------------------------------------------------
(* The theorems.                                                           *)

LEMMA StutterKeeps == IndInv /\ UNCHANGED vars => IndInv'
<1> SUFFICES ASSUME IndInv, UNCHANGED vars PROVE IndInv'
  OBVIOUS
<1> USE DEF vars, ctrl, steps, fifos, ends, copied, rest
<1>1. TypeOK' /\ PrintsThisSequence'
  BY DEF IndInv, TypeOK, PrintsThisSequence
<1>2. StepsInv' /\ SetUpInv' /\ EmptyInv' /\ SequenceInv'
  BY DEF IndInv, StepsInv, SetUpInv, EmptyInv, SequenceInv
<1>3. CopyInv' /\ CountInv' /\ HostInv'
  BY DEF IndInv, CopyInv, CountInv, HostInv
<1>4. QueueInv'
  BY QueueKept DEF IndInv
<1> QED
  BY <1>1, <1>2, <1>3, <1>4 DEF IndInv

\* The inductive invariant.
THEOREM IndInvHolds == Spec => []IndInv
<1>1. IndInv /\ [Next]_vars => IndInv'
  BY ConverterKeeps, PruKeeps, HostKeeps, StutterKeeps DEF Next
<1> QED
  BY InitInd, <1>1, PTL DEF Spec

\* Variables have their types; in particular nothing is taken from the empty
\* queue, also if the converter goes on with steps that were left enabled.
THEOREM TypeCorrect == Spec => []TypeOK
<1>1. IndInv => TypeOK
  BY DEF IndInv
<1> QED
  BY <1>1, IndInvHolds, PTL

\* The host prints one new sample of each input, in order and with its tag; and
\* if a step from 8 up was left enabled, at least no row under a wrong tag.
THEOREM PrintsNewSamples == Spec => []PrintsThisSequence
<1>1. IndInv => PrintsThisSequence
  BY DEF IndInv
<1> QED
  BY <1>1, IndInvHolds, PTL

================================================================================
