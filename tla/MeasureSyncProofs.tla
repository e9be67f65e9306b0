--------------------------- MODULE MeasureSyncProofs ---------------------------
(***************************************************************************)
(* Theorems about MeasureSync for every number of samples, assertions and  *)
(* synchronisations, every buffer of at least one value and any number of  *)
(* failing reads: which pulse an adjustment is about, that no report is    *)
(* forgotten in the buffer, and which lines pair the two timestamps of one *)
(* assertion.                                                              *)
(***************************************************************************)
EXTENDS MeasureSync, TLAPS

-----------------------------------------------------------------------------
(* The inductive invariant behind the safety properties.                   *)

Stamps == [n : 0 .. MaxAssertions, edge : {"rise", "fall"}]
IsEvent(e) ==
    IF e.channel = 0 THEN e \in [channel : {0}, ts : Nat] ELSE e \in [channel : {1}, ts : Stamps]

\* What TypeOK leaves open.
ShapeInv ==
    /\ pc = [t \in Threads |-> pc[t]]
    /\ Len(captured) \in Nat /\ captured = [k \in 1 .. Len(captured) |-> captured[k]]
    /\ \A k \in DOMAIN captured : IsEvent(captured[k])
    /\ toHost \in Seq(0 .. MaxAssertions)

\* Who runs when.
PhaseInv ==
    /\ mpc \in {"qot", "exec"} => ppc = "off"
    /\ mpc \in {"qot", "exec", "create1"} => pc["receive"] = "none"
    /\ mpc \in {"qot", "exec", "create1", "create2"} => pc["send"] = "none"
    /\ mpc \in {"deinit", "unmap", "unmapped", "done"} => ppc = "halted" /\ stop
    /\ ppc = "trigger" => input_high
    /\ ppc \in {"off", "boot"} => toHost = <<>> /\ (disturbed = "no" => assertion = 0 /\ ~pin)

\* A report in the buffer has an interrupt as long as nobody empties it.
WakeInv ==
    toHost # <<>> /\ ppc # "trigger" =>
        event \/ pc["receive"] \notin {"none", "while", "wait"}

\* Until main closes the PTP device.
Open == mpc \notin {"unmap", "unmapped", "done"}

\* Where the PRU is in a synchronisation, its looks at the pin included.
Checking == ppc \in {"check", "trigger"}
Waiting  == ppc = "wait" \/ (Checking /\ ret = "wait")
Got      == ppc = "adjust" \/ (Checking /\ ret = "adjust")

\* The T2s among the captured timestamps.
Pulses == {k \in DOMAIN captured : captured[k].channel = 0}

\* While no read() fails there is one T2 for one pulse, in one place, and no
\* other T2 is left over.
Nowhere == Pulses = {} /\ pc["send"] # "write" /\ toPru = <<>>
InOnePlace ==
    \/ /\ \E k \in DOMAIN captured : Pulses = {k} /\ captured[k].ts = ts
       /\ pc["send"] # "write" /\ toPru = <<>>
    \/ Pulses = {} /\ pc["send"] = "write" /\ nano_ts = ts /\ toPru = <<>>
    \/ Pulses = {} /\ pc["send"] # "write" /\ toPru = <<ts>>

PairInv ==
    errors = 0 /\ Open =>
        /\ Waiting => InOnePlace
        /\ ~Waiting => Nowhere
        /\ Got => host_ts = ts

\* The report of the last assertion: it is to come, or in the buffer, or taken.
Unseen   == last_pru_ts = assertion - 1 /\ toHost = <<>>
Reported == last_pru_ts = assertion - 1 /\ toHost = <<assertion>>
Taken    == last_pru_ts = assertion /\ toHost = <<>>

ReportInv ==
    disturbed = "no" =>
        /\ Unseen \/ Reported \/ Taken
        /\ pin /\ ~input_high => Unseen
        /\ Unseen => (pin /\ ~input_high) \/ ppc = "halted"
        /\ line.pru >= assertion - 1

\* The edges among the captured timestamps.
Edges == {k \in DOMAIN captured : captured[k].channel = 1}
Has(edge) == \E k \in Edges : captured[k].ts.edge = edge

\* They are those of the last assertion, in their order, and i tells which one
\* is next.
EdgeInv ==
    disturbed = "no" /\ Open =>
        /\ \A k \in Edges : captured[k].ts.n = assertion
        /\ \A j, k \in Edges :
              j < k => captured[j].ts.edge = "rise" /\ captured[k].ts.edge = "fall"
        /\ IsRising => (pin <=> Has("rise") /\ ~Has("fall"))
        /\ IsRising /\ Has("fall") => Has("rise")
        /\ ~IsRising => ~Has("rise") /\ (pin <=> ~Has("fall"))

RiseOf(k) == [n |-> k, edge |-> "rise"]
LineOf(k) == [host |-> RiseOf(k), pru |-> k]

\* Has the thread the timestamp of the last assertion, and has it set its bit?
Fresh(t) == IF t = "receive" THEN last_pru_ts = assertion ELSE last_host_ts = RiseOf(assertion)
Stored(t) == Fresh(t) /\ pc[t] \notin {"load", "or"}
Both == Stored("receive") /\ Stored("send")
Joining == \E t \in Threads : pc[t] \in {"test", "reset", "print"}

\* The two bits of ts_ready say who has the timestamp of the last assertion,
\* and the last line is that of the one before until both have.
ReadyInv ==
    disturbed = "no" /\ Open =>
        /\ ~(AtReady("receive") /\ AtReady("send"))
        /\ \A t \in Threads : pc[t] = "or" => tmp[t] = ts_ready
        /\ \A t \in Threads : pc[t] \in {"load", "or"} => Fresh(t)
        /\ last_host_ts = RiseOf(IF Has("rise") THEN assertion - 1 ELSE assertion)
        /\ ~Both =>
              /\ ts_ready = (IF Stored("receive") THEN 1 ELSE IF Stored("send") THEN 2 ELSE 0)
              /\ line = LineOf(assertion - 1)
              /\ \A t \in Threads : pc[t] \notin {"reset", "print"}
        /\ Both /\ ~Joining => ts_ready = 0 /\ line = LineOf(assertion)
        /\ Both /\ Joining =>
              /\ ts_ready = (IF \E t \in Threads : pc[t] = "print" THEN 0 ELSE 3)
              /\ line = LineOf(assertion - 1)

IndInv ==
    /\ TypeOK /\ ShapeInv /\ PhaseInv /\ WakeInv /\ PairInv /\ SamePulse
    /\ ReportInv /\ EdgeInv /\ ReadyInv

-----------------------------------------------------------------------------
(* Queues.                                                                 *)

\* A value put at the end of a queue.
LEMMA AppendFacts ==
    ASSUME NEW S, NEW q \in Seq(S), NEW x \in S
    PROVE  /\ Append(q, x) \in Seq(S)
           /\ q = <<>> => Append(q, x) = <<x>>
<1>1. \A y : Append(<<>>, y) = <<y>>
  OBVIOUS
<1>2. Append(q, x) \in Seq(S)
  OBVIOUS
<1> QED
  BY <1>1, <1>2

\* The oldest value taken from it.
LEMMA TailFacts ==
    ASSUME NEW S, NEW q \in Seq(S), q # <<>>
    PROVE  Head(q) \in S /\ Tail(q) \in Seq(S)
  OBVIOUS

\* A queue that holds one value.
LEMMA SingleFacts ==
    \A x : <<x>> # <<>> /\ Head(<<x>>) = x /\ Tail(<<x>>) = <<>>
  OBVIOUS

\* A queue is a function.
LEMMA SeqIsFunction ==
    ASSUME NEW S, NEW q \in Seq(S)
    PROVE  /\ Len(q) \in Nat /\ DOMAIN q = 1 .. Len(q)
           /\ q = [k \in 1 .. Len(q) |-> q[k]]
<1>1. Len(q) \in Nat /\ q \in [1 .. Len(q) -> S]
  OBVIOUS
<1> QED
  BY <1>1

\* And a function is a queue.
LEMMA FunctionIsSeq ==
    ASSUME NEW S, NEW n \in Nat, NEW q \in [1 .. n -> S]
    PROVE  q \in Seq(S)
  OBVIOUS

\* The empty queue.
LEMMA EmptyFacts ==
    /\ \A S : <<>> \in Seq(S)
    /\ Len(<<>>) = 0 /\ DOMAIN <<>> = {}
  OBVIOUS

\* A write into a ring buffer: one that is empty holds the value then.
LEMMA PutFacts ==
    ASSUME NEW S, NEW q \in Seq(S), NEW x \in S
    PROVE  /\ Put(q, x) \in Seq(S)
           /\ q = <<>> => Put(q, x) = <<x>>
<1>1. Slots \in Nat /\ Slots > 0
  BY MeasureAssumption
<1>2. q = <<>> => Len(q) < Slots
  BY <1>1, EmptyFacts
<1> QED
  BY <1>2, AppendFacts DEF Put

\* The constants.
LEMMA ConstantFacts ==
    /\ Samples \in Nat /\ MaxAssertions \in Nat /\ MaxReadErrors \in Nat
    /\ StartLevels \subseteq BOOLEAN
  BY MeasureAssumption

-----------------------------------------------------------------------------
(* The captured timestamps: edges of the signal and T2s.                   *)

\* What ShapeInv says of them.
LEMMA QueueFacts ==
    ASSUME ShapeInv
    PROVE  /\ Len(captured) \in Nat /\ DOMAIN captured = 1 .. Len(captured)
           /\ captured \in Seq({captured[k] : k \in DOMAIN captured})
           /\ Pulses \intersect Edges = {} /\ Pulses \union Edges = DOMAIN captured
<1>1. Len(captured) \in Nat /\ captured = [k \in 1 .. Len(captured) |-> captured[k]]
  BY DEF ShapeInv
<1>2. DOMAIN captured = 1 .. Len(captured)
  BY <1>1
<1>3. captured \in [1 .. Len(captured) -> {captured[k] : k \in DOMAIN captured}]
  BY <1>1, <1>2
<1>4. captured \in Seq({captured[k] : k \in DOMAIN captured})
  BY <1>1, <1>3, FunctionIsSeq
<1>5. \A k \in DOMAIN captured : captured[k].channel \in {0, 1}
  BY DEF ShapeInv, IsEvent
<1>6. Pulses \intersect Edges = {} /\ Pulses \union Edges = DOMAIN captured
  BY <1>5 DEF Pulses, Edges
<1>7. Len(captured) \in Nat
  BY <1>1
<1> QED
  BY <1>2, <1>4, <1>6, <1>7

\* A timestamp is captured.
LEMMA CaptureFacts ==
    ASSUME ShapeInv, NEW e, IsEvent(e), captured' = Append(captured, e)
    PROVE  LET last == Len(captured) + 1 IN
           /\ Len(captured)' = last /\ DOMAIN captured' = DOMAIN captured \union {last}
           /\ \A k \in DOMAIN captured : k < last /\ captured'[k] = captured[k]
           /\ captured'[last] = e
           /\ captured' = [k \in 1 .. Len(captured') |-> captured'[k]]
           /\ \A k \in DOMAIN captured' : IsEvent(captured'[k])
           /\ Pulses' = Pulses \union (IF e.channel = 0 THEN {last} ELSE {})
           /\ Edges' = Edges \union (IF e.channel = 1 THEN {last} ELSE {})
<1> DEFINE S == {captured[k] : k \in DOMAIN captured} \union {e}
<1>0. Len(captured) \in Nat
  BY DEF ShapeInv
<1>1. DOMAIN captured = 1 .. Len(captured) /\ captured \in Seq(S)
  <2>1. captured = [k \in 1 .. Len(captured) |-> captured[k]]
    BY DEF ShapeInv
  <2>2. DOMAIN captured = 1 .. Len(captured)
    BY <2>1
  <2>3. captured \in [1 .. Len(captured) -> S]
    BY <2>1, <2>2
  <2>4. captured \in Seq(S)
    BY <1>0, <2>3, FunctionIsSeq
  <2> QED
    BY <2>2, <2>4
<1>2. PICK n \in Nat : n = Len(captured)
  BY <1>0
<1>3. e \in S
  OBVIOUS
<1> HIDE DEF S
<1>4. /\ captured' \in Seq(S) /\ Len(captured') = n + 1
      /\ \A k \in 1 .. n : captured'[k] = captured[k]
      /\ captured'[n + 1] = e
  BY <1>1, <1>2, <1>3
<1>5. DOMAIN captured' = 1 .. n + 1 /\ captured' = [k \in 1 .. n + 1 |-> captured'[k]]
  BY <1>4, SeqIsFunction
<1>6. 1 .. n + 1 = (1 .. n) \union {n + 1}
  OBVIOUS
<1>7. \A k \in 1 .. n + 1 : IsEvent(captured'[k])
  BY <1>1, <1>2, <1>4, <1>6 DEF ShapeInv
<1>8. Pulses' = Pulses \union (IF e.channel = 0 THEN {n + 1} ELSE {})
  BY <1>1, <1>2, <1>4, <1>5, <1>6 DEF Pulses
<1>9. Edges' = Edges \union (IF e.channel = 1 THEN {n + 1} ELSE {})
  BY <1>1, <1>2, <1>4, <1>5, <1>6 DEF Edges
<1>10. \A k \in 1 .. n : k < n + 1
  OBVIOUS
<1> QED
  BY <1>1, <1>2, <1>4, <1>5, <1>6, <1>7, <1>8, <1>9, <1>10

\* The oldest timestamp is read; the others move up.
LEMMA ReadFacts ==
    ASSUME ShapeInv, captured # <<>>, captured' = Tail(captured)
    PROVE  /\ 1 \in DOMAIN captured /\ Head(captured) = captured[1]
           /\ IsEvent(Head(captured))
           /\ Len(captured)' \in Nat
           /\ captured' = [k \in 1 .. Len(captured') |-> captured'[k]]
           /\ \A k \in DOMAIN captured' : IsEvent(captured'[k])
           /\ \A k \in DOMAIN captured' : k \in Nat /\ k + 1 \in DOMAIN captured
                                          /\ captured'[k] = captured[k + 1]
           /\ \A k \in DOMAIN captured : k \in Nat /\
                (k = 1 \/ (k - 1 \in DOMAIN captured' /\ captured'[k - 1] = captured[k]))
<1> DEFINE S == {captured[k] : k \in DOMAIN captured}
<1>0. Len(captured) \in Nat
  BY QueueFacts
<1> HIDE DEF S
<1>1. DOMAIN captured = 1 .. Len(captured) /\ captured \in Seq(S)
  BY QueueFacts DEF S
<1>2. PICK n \in Nat : n = Len(captured)
  BY <1>0
<1>3. n > 0 /\ Head(captured) = captured[1]
  BY <1>1, <1>2
<1>4. /\ captured' \in Seq(S) /\ Len(captured') = n - 1
      /\ \A k \in 1 .. n - 1 : captured'[k] = captured[k + 1]
  BY <1>1, <1>2, <1>3
<1>5. DOMAIN captured' = 1 .. n - 1 /\ captured' = [k \in 1 .. n - 1 |-> captured'[k]]
  BY <1>4, SeqIsFunction
<1>6. 1 \in DOMAIN captured /\ IsEvent(Head(captured))
  BY <1>1, <1>2, <1>3 DEF ShapeInv
<1>7. \A k \in 1 .. n - 1 : k \in Nat /\ k + 1 \in 1 .. n
  BY <1>3
<1>8. \A k \in 1 .. n : k \in Nat /\ (k = 1 \/ (k - 1 \in 1 .. n - 1 /\ (k - 1) + 1 = k))
  BY <1>3
<1>9. \A k \in 1 .. n - 1 : IsEvent(captured'[k])
  BY <1>1, <1>2, <1>4, <1>7 DEF ShapeInv
<1>10. \A k \in 1 .. n : k = 1 \/ (k - 1 \in 1 .. n - 1 /\ captured'[k - 1] = captured[k])
  BY <1>4, <1>8
<1> QED
  BY <1>1, <1>2, <1>3, <1>4, <1>5, <1>6, <1>7, <1>8, <1>9, <1>10

-----------------------------------------------------------------------------
(* The invariant holds at the start.                                       *)

\* Nothing has happened yet.
LEMMA InitInd == Init => IndInv
<1> SUFFICES ASSUME Init PROVE IndInv
  OBVIOUS
<1> USE DEF Init
<1>1. TypeOK
  <2>1. assertion \in 0 .. MaxAssertions /\ errors \in 0 .. MaxReadErrors /\ pin \in BOOLEAN
    BY MeasureAssumption
  <2>2. /\ num_samples \in Int /\ num_samples <= Samples
        /\ last_pru_ts \in 0 .. MaxAssertions /\ line.pru \in 0 .. MaxAssertions
        /\ last_host_ts \in [n : 0 .. MaxAssertions, edge : {"rise", "fall"}]
    BY MeasureAssumption DEF NoStamp
  <2>3. {input_high, first, event, stop} \subseteq BOOLEAN /\ disturbed \in {"no", "raced", "yes"}
    OBVIOUS
  <2>4. /\ pc["receive"] = "none" /\ pc["send"] = "none" /\ tmp \in [Threads -> 0 .. 3]
        /\ ts_ready \in 0 .. 3 /\ toPru \in Seq(Nat) /\ toHost \in Seq(Nat)
    BY EmptyFacts DEF Threads
  <2>5. /\ ppc = "off" /\ ret = "loop" /\ mpc = "qot"
        /\ ts \in Nat /\ host_ts \in Nat /\ nano_ts \in Nat /\ i \in Nat
    OBVIOUS
  <2> HIDE DEF Init
  <2> QED
    BY <2>1, <2>2, <2>3, <2>4, <2>5 DEF TypeOK
<1>2. pc["receive"] = "none" /\ pc["send"] = "none"
  BY DEF Threads
<1>3. DOMAIN captured = {} /\ Edges = {} /\ Pulses = {}
  BY EmptyFacts DEF Edges, Pulses
<1>4. ShapeInv
  <2>1. /\ Len(captured) = 0 /\ \A k \in 1 .. 0 : FALSE
        /\ captured = [k \in 1 .. 0 |-> captured[k]]
    BY EmptyFacts
  <2> QED
    BY <1>3, <2>1, EmptyFacts DEF ShapeInv
<1>5. PhaseInv /\ WakeInv /\ PairInv /\ SamePulse
  BY <1>2, <1>3 DEF PhaseInv, WakeInv, PairInv, Nowhere, Waiting, Got, Checking, SamePulse
<1>6. ReportInv
  BY DEF ReportInv, Taken, Unseen
<1>7. IsRising
  BY DEF IsRising
<1>8. EdgeInv
  BY <1>3, <1>7 DEF EdgeInv, Has
<1>9. ReadyInv
  <2> SUFFICES ASSUME disturbed = "no" PROVE ReadyInv
    BY DEF ReadyInv
  <2>1. assertion = 0 /\ last_host_ts = RiseOf(assertion) /\ line = LineOf(assertion)
    BY DEF NoStamp, RiseOf, LineOf
  <2>2. ~Has("rise")
    BY <1>3 DEF Has
  <2>3. Both /\ \A t \in Threads : pc[t] = "none"
    BY <1>2, <2>1 DEF Both, Stored, Fresh
  <2> HIDE DEF Init
  <2>4. ts_ready = 0 /\ ~Joining /\ ~AtReady("receive")
    BY <1>2, <2>3 DEF Joining, AtReady, Threads, Init
  <2> QED
    BY <2>1, <2>2, <2>3, <2>4 DEF ReadyInv
<1> QED
  BY <1>1, <1>4, <1>5, <1>6, <1>8, <1>9 DEF IndInv

-----------------------------------------------------------------------------
(* What a step that keeps to its own part leaves alone.                    *)

\* The part about the place of T2.
LEMMA PairKept ==
    ASSUME PairInv, UNCHANGED <<ppc, ret, ts, host_ts, errors, captured, nano_ts, toPru>>,
           Open' => Open, pc'["send"] = "write" <=> pc["send"] = "write"
    PROVE  PairInv'
<1>1. Waiting' = Waiting /\ Got' = Got /\ Pulses' = Pulses
  BY DEF Waiting, Got, Checking, Pulses
<1>2. Nowhere' = Nowhere /\ InOnePlace' = InOnePlace
  BY <1>1 DEF Nowhere, InOnePlace
<1> QED
  BY <1>1, <1>2 DEF PairInv

\* The part about the reports.
LEMMA ReportKept ==
    ASSUME ReportInv, UNCHANGED <<assertion, pin, input_high, last_pru_ts, toHost, line>>,
           ppc = "halted" => ppc' = "halted", disturbed' = "no" => disturbed = "no"
    PROVE  ReportInv'
  BY DEF ReportInv, Unseen, Reported, Taken

\* The part about the edges.
LEMMA EdgeKept ==
    ASSUME EdgeInv, UNCHANGED <<assertion, pin, captured, i>>,
           Open' => Open, disturbed' = "no" => disturbed = "no"
    PROVE  EdgeInv'
<1>1. Edges' = Edges /\ IsRising' = IsRising
  BY DEF Edges, IsRising
<1>2. Has("rise")' = Has("rise") /\ Has("fall")' = Has("fall")
  BY <1>1 DEF Has
<1> QED
  BY <1>1, <1>2 DEF EdgeInv

\* The places of the two threads at which they share ts_ready.
Sharing == {"load", "or", "test", "reset", "print"}

\* The part about the lines, if no thread moves where it matters.
LEMMA ReadyKept ==
    ASSUME ReadyInv,
           UNCHANGED <<assertion, last_pru_ts, last_host_ts, line, ts_ready, tmp>>,
           Has("rise")' = Has("rise"),
           \A t \in Threads : \/ pc'[t] = pc[t]
                              \/ pc[t] \notin Sharing /\ pc'[t] \notin Sharing,
           Open' => Open, disturbed' = "no" => disturbed = "no"
    PROVE  ReadyInv'
<1>1. \A t \in Threads : \A p \in Sharing : pc'[t] = p <=> pc[t] = p
  BY DEF Sharing
<1>2. "receive" \in Threads /\ "send" \in Threads
  BY DEF Threads
<1>3. \A t \in Threads : Stored(t)' = Stored(t) /\ Fresh(t)' = Fresh(t) /\ AtReady(t)' = AtReady(t)
  <2> SUFFICES ASSUME NEW t \in Threads
               PROVE  Stored(t)' = Stored(t) /\ Fresh(t)' = Fresh(t) /\ AtReady(t)' = AtReady(t)
    OBVIOUS
  <2>1. Fresh(t)' = Fresh(t)
    BY DEF Fresh
  <2>2. (pc[t] \in {"load", "or"})' = (pc[t] \in {"load", "or"})
    BY <1>1 DEF Sharing
  <2>3. AtReady(t)' = AtReady(t)
    BY <1>1 DEF Sharing, AtReady
  <2> QED
    BY <2>1, <2>2, <2>3 DEF Stored
<1>4. Both' = Both
  BY <1>2, <1>3 DEF Both
<1>5. Joining' = Joining
  BY <1>1 DEF Joining, Sharing
<1>6. /\ \A t \in Threads : pc'[t] = "or" <=> pc[t] = "or"
      /\ \A t \in Threads : pc'[t] = "print" <=> pc[t] = "print"
      /\ \A t \in Threads : pc'[t] \in {"load", "or"} <=> pc[t] \in {"load", "or"}
      /\ \A t \in Threads : pc'[t] \in {"reset", "print"} <=> pc[t] \in {"reset", "print"}
  BY <1>1 DEF Sharing
<1> USE <1>2, <1>3, <1>4, <1>5, <1>6
<1> SUFFICES ASSUME disturbed' = "no", Open'
             PROVE  ReadyInv'
  BY DEF ReadyInv
<1>7. disturbed = "no" /\ Open
  OBVIOUS
<1>8. /\ ~(AtReady("receive") /\ AtReady("send"))'
      /\ (\A t \in Threads : pc[t] = "or" => tmp[t] = ts_ready)'
      /\ (\A t \in Threads : pc[t] \in {"load", "or"} => Fresh(t))'
  BY <1>7 DEF ReadyInv
<1>9. (last_host_ts = RiseOf(IF Has("rise") THEN assertion - 1 ELSE assertion))'
  BY <1>7 DEF ReadyInv
<1>10. (~Both =>
          /\ ts_ready = (IF Stored("receive") THEN 1 ELSE IF Stored("send") THEN 2 ELSE 0)
          /\ line = LineOf(assertion - 1)
          /\ \A t \in Threads : pc[t] \notin {"reset", "print"})'
  BY <1>7 DEF ReadyInv
<1>11. (Both /\ ~Joining => ts_ready = 0 /\ line = LineOf(assertion))'
  BY <1>7 DEF ReadyInv
<1>12. (Both /\ Joining =>
          /\ ts_ready = (IF \E t \in Threads : pc[t] = "print" THEN 0 ELSE 3)
          /\ line = LineOf(assertion - 1))'
  BY <1>7 DEF ReadyInv
<1> QED
  BY <1>8, <1>9, <1>10, <1>11, <1>12 DEF ReadyInv

\* A thread goes from one place to another.
LEMMA GotoFacts ==
    ASSUME ShapeInv, NEW t \in Threads, NEW from, NEW to, Goto(t, from, to)
    PROVE  /\ Alive /\ pc[t] = from /\ pc'[t] = to
           /\ \A o \in Threads \ {t} : pc'[o] = pc[o]
           /\ pc' = [o \in Threads |-> pc'[o]]
  BY DEF Goto, ShapeInv

\* The same for both threads by name.
LEMMA GotoNames ==
    ASSUME ShapeInv, NEW from, NEW to
    PROVE  /\ Goto("receive", from, to) =>
                Alive /\ pc["receive"] = from /\ pc'["receive"] = to /\ pc'["send"] = pc["send"]
                /\ pc' = [o \in Threads |-> pc'[o]]
           /\ Goto("send", from, to) =>
                Alive /\ pc["send"] = from /\ pc'["send"] = to /\ pc'["receive"] = pc["receive"]
                /\ pc' = [o \in Threads |-> pc'[o]]
<1>1. "receive" \in Threads /\ "send" \in Threads /\ "receive" # "send"
  BY DEF Threads
<1> QED
  BY <1>1, GotoFacts

-----------------------------------------------------------------------------
(* The external signal.                                                    *)

\* A timestamp of an edge among the captured ones leaves the T2s in place.
LEMMA PairOnEdge ==
    ASSUME ShapeInv, PairInv, NEW e, IsEvent(e), e.channel = 1, captured' = Append(captured, e),
           UNCHANGED <<ppc, ret, ts, host_ts, errors, nano_ts, toPru, mpc, pc>>
    PROVE  PairInv'
<1>1. Pulses' = Pulses /\ \A k \in Pulses : captured'[k] = captured[k]
  BY CaptureFacts DEF Pulses
<1>2. DOMAIN captured \subseteq DOMAIN captured'
  BY CaptureFacts
<1>3. Waiting' = Waiting /\ Got' = Got /\ Open' = Open
  BY DEF Waiting, Got, Checking, Open
<1>4. Nowhere => Nowhere'
  BY <1>1 DEF Nowhere
<1>5. InOnePlace => InOnePlace'
  <2> SUFFICES ASSUME InOnePlace PROVE InOnePlace'
    OBVIOUS
  <2>1. CASE \E k \in DOMAIN captured : Pulses = {k} /\ captured[k].ts = ts
    <3>1. PICK k \in DOMAIN captured : Pulses = {k} /\ captured[k].ts = ts
      BY <2>1
    <3>2. k \in DOMAIN captured' /\ Pulses' = {k} /\ captured'[k].ts = ts'
      BY <1>1, <1>2, <3>1
    <3>3. (pc["send"] # "write" /\ toPru = <<>>)'
      BY <3>1 DEF InOnePlace
    <3> QED
      BY <3>2, <3>3 DEF InOnePlace
  <2>2. CASE ~\E k \in DOMAIN captured : Pulses = {k} /\ captured[k].ts = ts
    BY <1>1, <2>2 DEF InOnePlace
  <2> QED
    BY <2>1, <2>2
<1> QED
  BY <1>3, <1>4, <1>5 DEF PairInv

\* The signal rises: if that disturbs nothing, all of the last assertion is done.
LEMMA RiseStep == IndInv /\ Rise => IndInv'
<1> SUFFICES ASSUME IndInv, Rise PROVE IndInv'
  OBVIOUS
<1> DEFINE e == [channel |-> 1, ts |-> [n |-> assertion', edge |-> "rise"]]
<1>1. /\ Capturing /\ ~pin /\ Seen /\ assertion < MaxAssertions
      /\ pin' = TRUE /\ assertion' = assertion + 1 /\ captured' = Append(captured, e)
      /\ UNCHANGED <<ppc, ret, num_samples, input_high, first, ts, host_ts, synced, mpc, stop,
                     pc, tmp, i, nano_ts, ts_ready, last_pru_ts, last_host_ts, line, errors,
                     toPru, toHost, event>>
  BY DEF Rise, pruVars, hostVars, mainVars, readyVars
<1>2. disturbed' = IF Polling /\ HostIdle THEN disturbed ELSE "yes"
  BY DEF Rise
<1>3. assertion \in Nat /\ assertion' \in 0 .. MaxAssertions
  BY <1>1, ConstantFacts DEF IndInv, TypeOK
<1>4. e.channel = 1 /\ e.ts = RiseOf(assertion') /\ IsEvent(e)
  BY <1>3 DEF IsEvent, Stamps, RiseOf
<1> HIDE DEF e
<1>5. TypeOK'
  <2>1. disturbed' \in {"no", "raced", "yes"}
    BY <1>2 DEF IndInv, TypeOK
  <2> QED
    BY <1>1, <1>3, <2>1 DEF IndInv, TypeOK
<1>6. ShapeInv'
  <2>1. /\ Len(captured)' \in Nat
        /\ captured' = [k \in 1 .. Len(captured') |-> captured'[k]]
        /\ \A k \in DOMAIN captured' : IsEvent(captured'[k])
    <3>1. Len(captured) \in Nat
      BY QueueFacts DEF IndInv
    <3> QED
      BY <1>1, <1>4, <3>1, CaptureFacts DEF IndInv
  <2> QED
    BY <1>1, <2>1 DEF IndInv, ShapeInv
<1>7. PhaseInv' /\ WakeInv' /\ SamePulse'
  BY <1>1, <1>2 DEF IndInv, PhaseInv, WakeInv, SamePulse, Polling
<1>8. PairInv'
  BY <1>1, <1>4, PairOnEdge DEF IndInv
<1>9. ReportInv' /\ EdgeInv' /\ ReadyInv'
  <2> SUFFICES ASSUME disturbed' = "no" PROVE ReportInv' /\ EdgeInv' /\ ReadyInv'
    BY DEF ReportInv, EdgeInv, ReadyInv
  <2>1. disturbed = "no" /\ Polling /\ HostIdle
    BY <1>2
  <2>2. Open
    BY <1>1 DEF Open, Capturing
  <2>3. pc["receive"] = "wait" /\ pc["send"] = "read" /\ ~event /\ captured = <<>>
    BY <2>1 DEF HostIdle
  <2>4. ppc # "halted" /\ ppc # "trigger" /\ ~input_high
    BY <1>1, <2>1 DEF IndInv, PhaseInv, Polling, Seen
  <2>5. toHost = <<>>
    BY <2>3, <2>4 DEF IndInv, WakeInv
  <2>6. last_pru_ts = assertion
    <3>1. <<assertion>> # <<>>
      BY SingleFacts
    <3> QED
      BY <1>1, <2>1, <2>4, <2>5, <3>1 DEF IndInv, ReportInv, Unseen, Reported, Taken
  <2>7. Edges = {} /\ ~Has("rise") /\ ~Has("fall")
    BY <2>3, EmptyFacts DEF Edges, Has
  <2>8. IsRising
    BY <1>1, <2>1, <2>2, <2>7 DEF IndInv, EdgeInv
  <2>9. last_host_ts = RiseOf(assertion)
    BY <2>1, <2>2, <2>7 DEF IndInv, ReadyInv
  <2>10. Both /\ ~Joining
    <3>1. Stored("receive") /\ Stored("send")
      BY <2>3, <2>6, <2>9 DEF Stored, Fresh
    <3>2. ~Joining
      BY <2>3 DEF Joining, Threads
    <3> QED
      BY <3>1, <3>2 DEF Both
  <2>11. ts_ready = 0 /\ line = LineOf(assertion)
    BY <2>1, <2>2, <2>10 DEF IndInv, ReadyInv
  <2>12. assertion' - 1 = assertion /\ assertion' # assertion
    BY <1>1, <1>3
  <2>13. ReportInv'
    <3>1. Unseen'
      BY <1>1, <2>5, <2>6, <2>12 DEF Unseen
    <3>2. line'.pru >= assertion' - 1
      BY <1>1, <1>3, <2>11, <2>12 DEF LineOf
    <3> QED
      BY <1>1, <2>4, <3>1, <3>2 DEF ReportInv
  <2>14. Edges' = {1} /\ captured'[1] = e
    <3>1. Len(captured) + 1 = 1
      BY <2>3, EmptyFacts
    <3> QED
      BY <1>1, <1>4, <2>7, <3>1, CaptureFacts DEF IndInv
  <2>15. Has("rise")' /\ ~Has("fall")'
    BY <1>4, <2>14 DEF Has, RiseOf
  <2>16. EdgeInv'
    <3>1. (\A k \in Edges : captured[k].ts.n = assertion)'
      BY <1>4, <2>14 DEF RiseOf
    <3>2. (\A j, k \in Edges :
              j < k => captured[j].ts.edge = "rise" /\ captured[k].ts.edge = "fall")'
      BY <2>14
    <3>3. IsRising'
      BY <1>1, <2>8 DEF IsRising
    <3> QED
      BY <1>1, <2>15, <3>1, <3>2, <3>3 DEF EdgeInv
  <2>17. ReadyInv'
    <3>1. last_host_ts' = RiseOf(IF Has("rise")' THEN assertion' - 1 ELSE assertion')
      BY <1>1, <2>9, <2>12, <2>15
    <3>2. RiseOf(assertion) # RiseOf(assertion')
      BY <2>12 DEF RiseOf
    <3>3. ~Stored("receive")' /\ ~Stored("send")'
      BY <1>1, <2>6, <2>9, <2>12, <3>2 DEF Stored, Fresh
    <3>4. \A t \in Threads : pc'[t] \notin {"load", "or", "test", "reset", "print"}
      BY <1>1, <2>3 DEF Threads
    <3>5. ~AtReady("receive")'
      BY <1>1, <2>3 DEF AtReady
    <3>6. ~Both'
      BY <3>3 DEF Both
    <3>7. ts_ready' = 0 /\ line' = LineOf(assertion' - 1)
      BY <1>1, <2>11, <2>12
    <3> QED
      BY <3>1, <3>3, <3>4, <3>5, <3>6, <3>7 DEF ReadyInv
  <2> QED
    BY <2>13, <2>16, <2>17
<1> QED
  BY <1>5, <1>6, <1>7, <1>8, <1>9 DEF IndInv

\* The signal falls.
LEMMA FallStep == IndInv /\ Fall => IndInv'
<1> SUFFICES ASSUME IndInv, Fall PROVE IndInv'
  OBVIOUS
<1> DEFINE e == [channel |-> 1, ts |-> [n |-> assertion, edge |-> "fall"]]
<1>1. /\ Capturing /\ pin /\ Seen /\ pin' = FALSE /\ captured' = Append(captured, e)
      /\ UNCHANGED <<assertion, ppc, ret, num_samples, input_high, first, ts, host_ts, synced,
                     mpc, stop, pc, tmp, i, nano_ts, ts_ready, last_pru_ts, last_host_ts, line,
                     errors, toPru, toHost, event, disturbed>>
  BY DEF Fall, pruVars, hostVars, mainVars, readyVars
<1>2. assertion \in 0 .. MaxAssertions
  BY DEF IndInv, TypeOK
<1>3. /\ e.channel = 1 /\ e.ts.n = assertion /\ e.ts.edge = "fall" /\ IsEvent(e)
  BY <1>2 DEF IsEvent, Stamps
<1> HIDE DEF e
<1>4. TypeOK'
  <2>1. pin' \in BOOLEAN
    BY <1>1
  <2> QED
    BY <1>1, <2>1 DEF IndInv, TypeOK
<1>5. Len(captured) \in Nat
  BY QueueFacts DEF IndInv
<1>6. /\ Len(captured)' \in Nat
      /\ captured' = [k \in 1 .. Len(captured') |-> captured'[k]]
      /\ \A k \in DOMAIN captured' : IsEvent(captured'[k])
      /\ \A k \in DOMAIN captured : k < Len(captured) + 1 /\ captured'[k] = captured[k]
      /\ captured'[Len(captured) + 1] = e
      /\ Edges' = Edges \union {Len(captured) + 1}
  BY <1>1, <1>3, <1>5, CaptureFacts DEF IndInv
<1>7. ShapeInv'
  BY <1>1, <1>6 DEF IndInv, ShapeInv
<1>8. PhaseInv' /\ WakeInv' /\ SamePulse'
  BY <1>1 DEF IndInv, PhaseInv, WakeInv, SamePulse
<1>9. PairInv'
  BY <1>1, <1>3, PairOnEdge DEF IndInv
<1>10. ReportInv'
  <2>1. input_high \/ ppc \in {"off", "boot", "halted"}
    BY <1>1 DEF Seen, Polling
  <2>2. disturbed = "no" => ppc \notin {"off", "boot"}
    BY <1>1 DEF IndInv, PhaseInv
  <2> QED
    BY <1>1, <2>1, <2>2 DEF IndInv, ReportInv, Unseen, Reported, Taken
<1>11. \A k \in Edges : k \in DOMAIN captured
  BY DEF Edges
<1>12. Has("rise")' = Has("rise") /\ Has("fall")'
  BY <1>3, <1>6, <1>11 DEF Has
<1>13. EdgeInv'
  <2> SUFFICES ASSUME disturbed = "no", Open PROVE EdgeInv'
    BY <1>1 DEF EdgeInv, Open
  <2>1. ~Has("fall") /\ (IsRising => Has("rise"))
    BY <1>1 DEF IndInv, EdgeInv
  <2>2. IsRising' = IsRising /\ (~IsRising => ~Has("rise"))
    BY <1>1 DEF IndInv, EdgeInv, IsRising
  <2>3. (\A k \in Edges : captured[k].ts.n = assertion)'
    BY <1>1, <1>3, <1>6, <1>11 DEF IndInv, EdgeInv
  <2>4. ASSUME NEW j \in Edges', NEW k \in Edges', j < k
        PROVE  captured'[j].ts.edge = "rise" /\ captured'[k].ts.edge = "fall"
    <3>1. CASE k \in Edges
      <4>1. j \in Edges
        BY <1>5, <1>6, <1>11, <2>4, <3>1, QueueFacts DEF IndInv
      <4>2. captured[k].ts.edge = "fall"
        BY <2>4, <3>1, <4>1 DEF IndInv, EdgeInv
      <4> QED
        BY <2>1, <3>1, <4>2 DEF Has
    <3>2. CASE k = Len(captured) + 1
      <4>1. j \in Edges
        BY <1>5, <1>6, <2>4, <3>2
      <4>2. captured[j].ts.edge # "fall"
        BY <2>1, <4>1 DEF Has
      <4>3. captured[j].ts.edge \in {"rise", "fall"}
        BY <1>11, <4>1 DEF IndInv, ShapeInv, IsEvent, Stamps, Edges
      <4> QED
        BY <1>3, <1>6, <1>11, <3>2, <4>1, <4>2, <4>3
    <3> QED
      BY <1>6, <3>1, <3>2
  <2> QED
    BY <1>1, <1>12, <2>1, <2>2, <2>3, <2>4 DEF EdgeInv
<1>14. ReadyInv'
  BY <1>1, <1>12, ReadyKept DEF IndInv, Open
<1> QED
  BY <1>4, <1>7, <1>8, <1>9, <1>10, <1>13, <1>14 DEF IndInv

-----------------------------------------------------------------------------
(* Steps of the PRU.                                                       *)

\* Edges that stay captured.
LEMMA HasKept ==
    ASSUME UNCHANGED captured
    PROVE  Edges' = Edges /\ \A edge : Has(edge)' = Has(edge)
<1>1. Edges' = Edges
  BY DEF Edges
<1> QED
  BY <1>1 DEF Has

\* What a step leaves alone in which the host takes no part.
LEMMA HostKept ==
    ASSUME EdgeInv, ReadyInv,
           UNCHANGED <<assertion, pin, captured, i, last_pru_ts, last_host_ts, line, ts_ready,
                       tmp, pc, mpc, disturbed>>
    PROVE  EdgeInv' /\ ReadyInv'
  BY EdgeKept, HasKept, ReadyKept DEF Open

\* init_rbuffer: nothing has been reported yet.
LEMMA PruBootStep == IndInv /\ PruBoot => IndInv'
<1> SUFFICES ASSUME IndInv, PruBoot PROVE IndInv'
  OBVIOUS
<1>1. /\ ppc = "boot" /\ ppc' = "loop" /\ toHost' = <<>>
      /\ UNCHANGED <<pin, assertion, ret, num_samples, input_high, first, ts, host_ts, synced,
                     mpc, stop, pc, tmp, i, nano_ts, ts_ready, last_pru_ts, last_host_ts, line,
                     errors, toPru, captured, event, disturbed>>
  BY DEF PruBoot, signalVars, hostVars, mainVars, readyVars
<1>2. toHost = <<>>
  BY <1>1 DEF IndInv, PhaseInv
<1>3. TypeOK' /\ ShapeInv'
  <2>1. TypeOK'
    BY <1>1, <1>2 DEF IndInv, TypeOK
  <2>2. ShapeInv'
    BY <1>1, <1>2 DEF IndInv, ShapeInv
  <2> QED
    BY <2>1, <2>2
<1>4. PhaseInv' /\ WakeInv' /\ SamePulse'
  BY <1>1 DEF IndInv, PhaseInv, WakeInv, SamePulse
<1>5. PairInv'
  BY <1>1 DEF IndInv, PairInv, Waiting, Got, Checking, Nowhere, Pulses, Open
<1>6. ReportInv'
  BY <1>1, <1>2, ReportKept DEF IndInv
<1> QED
  BY <1>1, <1>3, <1>4, <1>5, <1>6, HostKept DEF IndInv

\* The loop: a synchronisation, or a look at the pin.
LEMMA PruLoopStep == IndInv /\ PruLoop => IndInv'
<1> SUFFICES ASSUME IndInv, PruLoop PROVE IndInv'
  OBVIOUS
<1>1. /\ ppc = "loop"
      /\ UNCHANGED <<pin, assertion, num_samples, input_high, ts, host_ts, synced,
                     mpc, stop, pc, tmp, i, nano_ts, ts_ready, last_pru_ts, last_host_ts, line,
                     errors, toPru, toHost, captured, event, disturbed>>
  BY DEF PruLoop, signalVars, hostVars, mainVars, readyVars
<1>2. /\ \/ ppc' = "pulse"
         \/ ppc' = "check" /\ ret' = "loop"
      /\ ret' \in {ret, "loop"}
  BY DEF PruLoop
<1>3. first' \in BOOLEAN
  BY DEF PruLoop, IndInv, TypeOK
<1>4. TypeOK' /\ ShapeInv'
  <2>1. TypeOK'
    BY <1>1, <1>2, <1>3 DEF IndInv, TypeOK
  <2>2. ShapeInv'
    BY <1>1, <1>2, <1>3 DEF IndInv, ShapeInv
  <2> QED
    BY <2>1, <2>2
<1>5. PhaseInv' /\ WakeInv' /\ SamePulse'
  BY <1>1, <1>2 DEF IndInv, PhaseInv, WakeInv, SamePulse
<1>6. PairInv'
  BY <1>1, <1>2 DEF IndInv, PairInv, Waiting, Got, Checking, Nowhere, Pulses, Open
<1>7. ReportInv'
  BY <1>1, ReportKept DEF IndInv
<1> QED
  BY <1>1, <1>4, <1>5, <1>6, <1>7, HostKept DEF IndInv

\* The pulse is captured, whatever edges are: it is the only T2.
LEMMA PruPulseStep == IndInv /\ PruPulse => IndInv'
<1> SUFFICES ASSUME IndInv, PruPulse PROVE IndInv'
  OBVIOUS
<1> DEFINE e == [channel |-> 0, ts |-> ts']
           last == Len(captured) + 1
<1>1. /\ ppc = "pulse" /\ ppc' = "wait" /\ ts' = ts + 1 /\ captured' = Append(captured, e)
      /\ UNCHANGED <<pin, assertion, ret, num_samples, input_high, first, host_ts, synced,
                     mpc, stop, pc, tmp, i, nano_ts, ts_ready, last_pru_ts, last_host_ts, line,
                     errors, toPru, toHost, event, disturbed>>
  BY DEF PruPulse, signalVars, hostVars, mainVars, readyVars
<1>2. ts' \in Nat
  BY <1>1 DEF IndInv, TypeOK
<1>3. e.channel = 0 /\ e.ts = ts' /\ IsEvent(e)
  BY <1>2 DEF IsEvent
<1> HIDE DEF e
<1>4. Len(captured) \in Nat /\ Len(captured)' = last
  BY <1>1, <1>3, QueueFacts, CaptureFacts DEF IndInv
<1>5. /\ captured' = [k \in 1 .. Len(captured') |-> captured'[k]]
      /\ \A k \in DOMAIN captured' : IsEvent(captured'[k])
      /\ \A k \in DOMAIN captured : captured'[k] = captured[k]
      /\ captured'[last] = e /\ last \in DOMAIN captured'
      /\ Pulses' = Pulses \union {last} /\ Edges' = Edges
  <2>1. (IF e.channel = 0 THEN {last} ELSE {}) = {last} /\ (IF e.channel = 1 THEN {last} ELSE {}) = {}
    BY <1>3
  <2>2. /\ DOMAIN captured' = DOMAIN captured \union {last}
        /\ \A k \in DOMAIN captured : captured'[k] = captured[k]
        /\ captured'[last] = e
        /\ captured' = [k \in 1 .. Len(captured') |-> captured'[k]]
        /\ \A k \in DOMAIN captured' : IsEvent(captured'[k])
        /\ Pulses' = Pulses \union (IF e.channel = 0 THEN {last} ELSE {})
        /\ Edges' = Edges \union (IF e.channel = 1 THEN {last} ELSE {})
    BY <1>1, <1>3, CaptureFacts DEF IndInv
  <2> HIDE DEF last
  <2> QED
    BY <2>1, <2>2
<1>6. TypeOK' /\ ShapeInv'
  <2>1. Len(captured)' \in Nat
    BY <1>4
  <2>3. TypeOK'
    BY <1>1, <1>2, <1>5, <2>1 DEF IndInv, TypeOK
  <2>4. ShapeInv'
    BY <1>1, <1>2, <1>5, <2>1 DEF IndInv, ShapeInv
  <2> QED
    BY <2>3, <2>4
<1>7. PhaseInv' /\ WakeInv' /\ SamePulse'
  BY <1>1 DEF IndInv, PhaseInv, WakeInv, SamePulse
<1>8. PairInv'
  <2>1. Waiting' /\ ~Got' /\ ~Waiting /\ Open' = Open
    BY <1>1 DEF Waiting, Got, Checking, Open
  <2> SUFFICES ASSUME errors = 0, Open PROVE InOnePlace'
    BY <1>1, <2>1 DEF PairInv
  <2>2. Nowhere
    BY <2>1 DEF IndInv, PairInv
  <2>3. Pulses' = {last} /\ captured'[last].ts = ts'
    BY <1>3, <1>5, <2>2 DEF Nowhere
  <2> QED
    BY <1>1, <1>5, <2>2, <2>3 DEF Nowhere, InOnePlace
<1>9. ReportInv'
  BY <1>1, ReportKept DEF IndInv
<1>10. \A k \in Edges : captured'[k] = captured[k]
  BY <1>5 DEF Edges
<1>11. \A edge : Has(edge)' = Has(edge)
  BY <1>5, <1>10 DEF Has
<1>12. EdgeInv'
  <2>1. /\ IsRising' = IsRising /\ (Open' => Open) /\ (disturbed' = "no" => disturbed = "no")
        /\ Edges' = Edges
    BY <1>1, <1>5 DEF IsRising, Open
  <2>2. \A k \in Edges' : captured'[k] = captured[k]
    BY <1>10, <2>1
  <2> QED
    BY <1>1, <1>11, <2>1, <2>2 DEF IndInv, EdgeInv
<1>13. ReadyInv'
  BY <1>1, <1>11, ReadyKept DEF IndInv, Open
<1> QED
  BY <1>6, <1>7, <1>8, <1>9, <1>12, <1>13 DEF IndInv

\* A turn of the wait.
LEMMA PruWaitReadStep == IndInv /\ PruWaitRead => IndInv'
<1> SUFFICES ASSUME IndInv, PruWaitRead PROVE IndInv'
  OBVIOUS
<1>1. /\ ppc = "wait" /\ ppc' = "check"
      /\ UNCHANGED <<pin, assertion, num_samples, input_high, first, ts, synced,
                     mpc, stop, pc, tmp, i, nano_ts, ts_ready, last_pru_ts, last_host_ts, line,
                     errors, toHost, captured, event, disturbed>>
  BY DEF PruWaitRead, signalVars, hostVars, mainVars, readyVars
<1>2. ret' \in {"wait", "adjust"} /\ host_ts' \in Nat /\ toPru' \in Seq(Nat)
  <2>1. CASE toPru = <<>>
    BY <2>1 DEF PruWaitRead, IndInv, TypeOK
  <2>2. CASE toPru # <<>>
    <3>1. ret' = "adjust" /\ host_ts' = Head(toPru) /\ toPru' = Tail(toPru)
      BY <2>2 DEF PruWaitRead
    <3> QED
      BY <2>2, <3>1, TailFacts DEF IndInv, TypeOK
  <2> QED
    BY <2>1, <2>2
<1>3. TypeOK' /\ ShapeInv'
  <2>1. TypeOK'
    BY <1>1, <1>2 DEF IndInv, TypeOK
  <2>2. ShapeInv'
    BY <1>1, <1>2 DEF IndInv, ShapeInv
  <2> QED
    BY <2>1, <2>2
<1>4. PhaseInv' /\ WakeInv' /\ SamePulse'
  BY <1>1 DEF IndInv, PhaseInv, WakeInv, SamePulse
<1>5. Waiting /\ ~Got /\ Open' = Open /\ Pulses' = Pulses
  BY <1>1 DEF Waiting, Got, Checking, Open, Pulses
<1>6. PairInv'
  <2>1. CASE toPru = <<>>
    <3>1. ret' = "wait" /\ UNCHANGED toPru
      BY <2>1 DEF PruWaitRead
    <3>2. Waiting' /\ ~Got'
      BY <1>1, <3>1 DEF Waiting, Got, Checking
    <3>3. InOnePlace => InOnePlace'
      BY <1>1, <1>5, <3>1 DEF InOnePlace
    <3> QED
      BY <1>1, <1>5, <3>2, <3>3 DEF IndInv, PairInv
  <2>2. CASE toPru # <<>>
    <3>1. ret' = "adjust" /\ host_ts' = Head(toPru) /\ toPru' = Tail(toPru)
      BY <2>2 DEF PruWaitRead
    <3>2. ~Waiting' /\ Got'
      BY <1>1, <3>1 DEF Waiting, Got, Checking
    <3>3. ASSUME errors = 0, Open PROVE Nowhere' /\ host_ts' = ts'
      <4>1. Pulses = {} /\ pc["send"] # "write" /\ toPru = <<ts>>
        BY <1>5, <2>2, <3>3 DEF IndInv, PairInv, InOnePlace
      <4> QED
        BY <1>1, <1>5, <3>1, <4>1, SingleFacts DEF Nowhere
    <3> QED
      BY <1>1, <1>5, <3>2, <3>3 DEF PairInv
  <2> QED
    BY <2>1, <2>2
<1>7. ReportInv'
  BY <1>1, ReportKept DEF IndInv
<1> QED
  BY <1>1, <1>3, <1>4, <1>6, <1>7, HostKept DEF IndInv

\* The adjustment uses the T2 of its T1.
LEMMA PruAdjustStep == IndInv /\ PruAdjust => IndInv'
<1> SUFFICES ASSUME IndInv, PruAdjust PROVE IndInv'
  OBVIOUS
<1>1. /\ ppc = "adjust" /\ ppc' = "check" /\ ret' = "loop" /\ host_ts' = 0
      /\ synced' = [ts |-> ts, host_ts |-> host_ts]
      /\ UNCHANGED <<pin, assertion, num_samples, input_high, first, ts,
                     mpc, stop, pc, tmp, i, nano_ts, ts_ready, last_pru_ts, last_host_ts, line,
                     errors, toPru, toHost, captured, event, disturbed>>
  BY DEF PruAdjust, signalVars, hostVars, mainVars, readyVars
<1>2. TypeOK' /\ ShapeInv'
  <2>1. TypeOK'
    BY <1>1 DEF IndInv, TypeOK
  <2>2. ShapeInv'
    BY <1>1 DEF IndInv, ShapeInv
  <2> QED
    BY <2>1, <2>2
<1>3. PhaseInv' /\ WakeInv'
  BY <1>1 DEF IndInv, PhaseInv, WakeInv
<1>4. Got /\ ~Waiting /\ ~Got' /\ ~Waiting' /\ Pulses' = Pulses
  BY <1>1 DEF Waiting, Got, Checking, Pulses
<1>5. Open /\ Open'
  BY <1>1 DEF IndInv, PhaseInv, Open
<1>6. SamePulse'
  BY <1>1, <1>4, <1>5 DEF IndInv, PairInv, SamePulse
<1>7. PairInv'
  BY <1>1, <1>4, <1>5 DEF IndInv, PairInv, Nowhere
<1>8. ReportInv'
  BY <1>1, ReportKept DEF IndInv
<1> QED
  BY <1>1, <1>2, <1>3, <1>6, <1>7, <1>8, HostKept DEF IndInv

\* A step of check_input_pin leaves the synchronisation where it is.
LEMMA PairOnCheck ==
    ASSUME PairInv, Checking, Checking' \/ ppc' = ret, ret \in {"loop", "wait", "adjust"},
           UNCHANGED <<ret, ts, host_ts, errors, captured, nano_ts, toPru, mpc, pc>>
    PROVE  PairInv'
<1>1. Waiting' = Waiting /\ Got' = Got /\ Open' = Open /\ Pulses' = Pulses
  BY DEF Waiting, Got, Checking, Open, Pulses
<1>2. Nowhere' = Nowhere /\ InOnePlace' = InOnePlace
  BY <1>1 DEF Nowhere, InOnePlace
<1> QED
  BY <1>1, <1>2 DEF PairInv

\* The rising edge is seen and reported.
LEMMA PruReportStep == IndInv /\ PruReport => IndInv'
<1> SUFFICES ASSUME IndInv, PruReport PROVE IndInv'
  OBVIOUS
<1>1. /\ ppc = "check" /\ ppc' = "trigger" /\ ~input_high /\ pin /\ input_high' = TRUE
      /\ toHost' = Put(toHost, assertion)
      /\ UNCHANGED <<pin, assertion, ret, num_samples, first, ts, host_ts, synced,
                     mpc, stop, pc, tmp, i, nano_ts, ts_ready, last_pru_ts, last_host_ts, line,
                     errors, toPru, captured, event, disturbed>>
  BY DEF PruReport, signalVars, hostVars, mainVars, readyVars
<1>2. assertion \in 0 .. MaxAssertions /\ assertion \in Nat
  BY ConstantFacts DEF IndInv, TypeOK
<1>3. toHost' \in Seq(Nat) /\ toHost' \in Seq(0 .. MaxAssertions)
  BY <1>1, <1>2, PutFacts DEF IndInv, TypeOK, ShapeInv
<1>4. TypeOK' /\ ShapeInv'
  <2>1. input_high' \in BOOLEAN
    BY <1>1
  <2>8. TypeOK'
    BY <1>1, <1>3, <2>1 DEF IndInv, TypeOK
  <2>9. ShapeInv'
    BY <1>1, <1>3, <2>1 DEF IndInv, ShapeInv
  <2> QED
    BY <2>8, <2>9
<1>5. PhaseInv' /\ WakeInv' /\ SamePulse'
  BY <1>1 DEF IndInv, PhaseInv, WakeInv, SamePulse
<1>6. PairInv'
  BY <1>1, PairOnCheck DEF IndInv, TypeOK, Checking
<1>7. ReportInv'
  <2> SUFFICES ASSUME disturbed = "no" PROVE ReportInv'
    BY <1>1 DEF ReportInv
  <2>1. Unseen /\ line.pru >= assertion - 1
    BY <1>1 DEF IndInv, ReportInv
  <2>2. Reported'
    BY <1>1, <1>2, <2>1, PutFacts DEF IndInv, TypeOK, Unseen, Reported
  <2>3. ~Unseen'
    BY <2>2, SingleFacts DEF Unseen, Reported
  <2> QED
    BY <1>1, <2>1, <2>2, <2>3 DEF ReportInv
<1> QED
  BY <1>1, <1>4, <1>5, <1>6, <1>7, HostKept DEF IndInv

\* The host is interrupted.
LEMMA PruTriggerStep == IndInv /\ PruTrigger => IndInv'
<1> SUFFICES ASSUME IndInv, PruTrigger PROVE IndInv'
  OBVIOUS
<1>1. /\ ppc = "trigger" /\ ppc' = ret /\ event' = TRUE /\ num_samples' = num_samples - 1
      /\ UNCHANGED <<pin, assertion, ret, input_high, first, ts, host_ts, synced,
                     mpc, stop, pc, tmp, i, nano_ts, ts_ready, last_pru_ts, last_host_ts, line,
                     errors, toPru, toHost, captured, disturbed>>
  BY DEF PruTrigger, signalVars, hostVars, mainVars, readyVars
<1>2. ret \in {"loop", "wait", "adjust"}
  BY DEF IndInv, TypeOK
<1>3. TypeOK' /\ ShapeInv'
  <2>1. event' \in BOOLEAN
    BY <1>1
  <2>2. num_samples' \in Int /\ num_samples' <= Samples
    BY <1>1, ConstantFacts DEF IndInv, TypeOK
  <2>8. TypeOK'
    BY <1>1, <1>2, <2>1, <2>2 DEF IndInv, TypeOK
  <2>9. ShapeInv'
    BY <1>1, <1>2, <2>1, <2>2 DEF IndInv, ShapeInv
  <2> QED
    BY <2>8, <2>9
<1>4. PhaseInv' /\ WakeInv' /\ SamePulse'
  BY <1>1, <1>2 DEF IndInv, PhaseInv, WakeInv, SamePulse
<1>5. PairInv'
  BY <1>1, <1>2, PairOnCheck DEF IndInv, Checking
<1>6. ReportInv'
  BY <1>1, ReportKept DEF IndInv
<1> QED
  BY <1>1, <1>3, <1>4, <1>5, <1>6, HostKept DEF IndInv

\* No rising edge: input_high follows the pin.
LEMMA PruNoReportStep == IndInv /\ PruNoReport => IndInv'
<1> SUFFICES ASSUME IndInv, PruNoReport PROVE IndInv'
  OBVIOUS
<1>1. /\ ppc = "check" /\ ppc' = ret /\ (input_high \/ ~pin) /\ input_high' = pin
      /\ UNCHANGED <<pin, assertion, ret, num_samples, first, ts, host_ts, synced,
                     mpc, stop, pc, tmp, i, nano_ts, ts_ready, last_pru_ts, last_host_ts, line,
                     errors, toPru, toHost, captured, event, disturbed>>
  BY DEF PruNoReport, signalVars, hostVars, mainVars, readyVars
<1>2. ret \in {"loop", "wait", "adjust"}
  BY DEF IndInv, TypeOK
<1>3. TypeOK' /\ ShapeInv'
  <2>1. input_high' \in BOOLEAN
    BY <1>1 DEF IndInv, TypeOK
  <2>8. TypeOK'
    BY <1>1, <1>2, <2>1 DEF IndInv, TypeOK
  <2>9. ShapeInv'
    BY <1>1, <1>2, <2>1 DEF IndInv, ShapeInv
  <2> QED
    BY <2>8, <2>9
<1>4. PhaseInv' /\ WakeInv' /\ SamePulse'
  BY <1>1, <1>2 DEF IndInv, PhaseInv, WakeInv, SamePulse
<1>5. PairInv'
  BY <1>1, <1>2, PairOnCheck DEF IndInv, Checking
<1>6. ReportInv'
  BY <1>1 DEF IndInv, ReportInv, Unseen, Reported, Taken
<1> QED
  BY <1>1, <1>3, <1>4, <1>5, <1>6, HostKept DEF IndInv

\* The PRU ends.
LEMMA PruHaltStep == IndInv /\ PruHalt => IndInv'
<1> SUFFICES ASSUME IndInv, PruHalt PROVE IndInv'
  OBVIOUS
<1>1. /\ ppc = "loop" /\ ppc' = "halted"
      /\ UNCHANGED <<pin, assertion, ret, num_samples, input_high, first, ts, host_ts, synced,
                     mpc, stop, pc, tmp, i, nano_ts, ts_ready, last_pru_ts, last_host_ts, line,
                     errors, toPru, toHost, captured, event, disturbed>>
  BY DEF PruHalt, signalVars, hostVars, mainVars, readyVars
<1>2. TypeOK' /\ ShapeInv'
  <2>1. TypeOK'
    BY <1>1 DEF IndInv, TypeOK
  <2>2. ShapeInv'
    BY <1>1 DEF IndInv, ShapeInv
  <2> QED
    BY <2>1, <2>2
<1>3. PhaseInv' /\ WakeInv' /\ SamePulse'
  BY <1>1 DEF IndInv, PhaseInv, WakeInv, SamePulse
<1>4. PairInv'
  BY <1>1 DEF IndInv, PairInv, Waiting, Got, Checking, Nowhere, Pulses, Open
<1>5. ReportInv'
  BY <1>1 DEF IndInv, ReportInv, Unseen, Reported, Taken
<1> QED
  BY <1>1, <1>2, <1>3, <1>4, <1>5, HostKept DEF IndInv

-----------------------------------------------------------------------------
(* Steps of main.                                                          *)

\* The captures begin, the PRU is started, the process fails or ends.
LEMMA MainGoesOn == IndInv /\ (InitQot \/ MainExec \/ MainFail \/ MainEnd) => IndInv'
<1> SUFFICES ASSUME IndInv, InitQot \/ MainExec \/ MainFail \/ MainEnd PROVE IndInv'
  OBVIOUS
<1>1. UNCHANGED <<pin, assertion, ret, num_samples, input_high, first, ts, host_ts, synced,
                  stop, pc, tmp, i, nano_ts, ts_ready, last_pru_ts, last_host_ts, line,
                  errors, toPru, toHost, captured, event, disturbed>>
  BY DEF InitQot, MainExec, MainFail, MainEnd, signalVars, pruVars, hostVars, mainVars, readyVars
<1>2. /\ \/ mpc = "qot" /\ mpc' = "exec" /\ ppc' = ppc
         \/ mpc = "exec" /\ mpc' = "create1" /\ ppc' = "boot"
         \/ mpc \in {"qot", "create1", "create2"} /\ mpc' = "failed" /\ ppc' = ppc
         \/ mpc = "unmap" /\ mpc' = "unmapped" /\ ppc' = ppc
         \/ mpc = "unmapped" /\ mpc' = "done" /\ ppc' = ppc
  BY DEF InitQot, MainExec, MainFail, MainEnd, MainGoto, pruVars
<1>3. mpc = "exec" => ppc = "off"
  BY DEF IndInv, PhaseInv
<1>4. TypeOK' /\ ShapeInv'
  <2>1. TypeOK'
    BY <1>1, <1>2 DEF IndInv, TypeOK
  <2>2. ShapeInv'
    BY <1>1, <1>2 DEF IndInv, ShapeInv
  <2> QED
    BY <2>1, <2>2
<1>5. PhaseInv'
  BY <1>1, <1>2, <1>3 DEF IndInv, PhaseInv
<1>6. WakeInv' /\ SamePulse'
  BY <1>1, <1>2, <1>3 DEF IndInv, WakeInv, SamePulse
<1>7. Open' => Open
  BY <1>2 DEF Open
<1>8. PairInv'
  <2>1. Waiting' = Waiting /\ Got' = Got
    BY <1>1, <1>2, <1>3 DEF Waiting, Got, Checking
  <2>2. Nowhere' = Nowhere /\ InOnePlace' = InOnePlace
    BY <1>1 DEF Nowhere, InOnePlace, Pulses
  <2> QED
    BY <1>1, <1>7, <2>1, <2>2 DEF IndInv, PairInv
<1>9. ReportInv'
  BY <1>1, <1>2, <1>3, ReportKept DEF IndInv
<1>10. EdgeInv' /\ ReadyInv'
  BY <1>1, <1>7, EdgeKept, HasKept, ReadyKept DEF IndInv
<1> QED
  BY <1>4, <1>5, <1>6, <1>8, <1>9, <1>10 DEF IndInv

\* A thread is created, which was none before.
LEMMA MainCreateStep ==
    IndInv /\ (MainCreate("receive", "create1", "create2") \/ MainCreate("send", "create2", "wait"))
        => IndInv'
<1> SUFFICES ASSUME IndInv, MainCreate("receive", "create1", "create2")
                            \/ MainCreate("send", "create2", "wait")
             PROVE  IndInv'
  OBVIOUS
<1>1. UNCHANGED <<pin, assertion, ppc, ret, num_samples, input_high, first, ts, host_ts, synced,
                  stop, tmp, i, nano_ts, ts_ready, last_pru_ts, last_host_ts, line,
                  errors, toPru, toHost, captured, event, disturbed>>
  BY DEF MainCreate, signalVars, pruVars, readyVars
<1>2. /\ \/ /\ mpc = "create1" /\ mpc' = "create2"
            /\ pc["receive"] = "none" /\ pc'["receive"] = "while" /\ pc'["send"] = pc["send"]
         \/ /\ mpc = "create2" /\ mpc' = "wait"
            /\ pc["send"] = "none" /\ pc'["send"] = "while" /\ pc'["receive"] = pc["receive"]
      /\ pc' = [t \in Threads |-> pc'[t]]
  <2>1. "receive" \in Threads /\ "send" \in Threads
    BY DEF Threads
  <2>2. CASE MainCreate("receive", "create1", "create2")
    BY <2>1, <2>2 DEF MainCreate, MainGoto, IndInv, ShapeInv, PhaseInv
  <2>3. CASE MainCreate("send", "create2", "wait")
    BY <2>1, <2>3 DEF MainCreate, MainGoto, IndInv, ShapeInv, PhaseInv
  <2> QED
    BY <2>2, <2>3
<1>3. TypeOK' /\ ShapeInv'
  <2>1. TypeOK'
    BY <1>1, <1>2 DEF IndInv, TypeOK
  <2>2. ShapeInv'
    BY <1>1, <1>2 DEF IndInv, ShapeInv
  <2> QED
    BY <2>1, <2>2
<1>4. PhaseInv' /\ WakeInv' /\ SamePulse'
  BY <1>1, <1>2 DEF IndInv, PhaseInv, WakeInv, SamePulse
<1>5. Open' => Open
  BY <1>2 DEF Open
<1>6. PairInv' /\ ReportInv' /\ EdgeInv'
  BY <1>1, <1>2, <1>5, PairKept, ReportKept, EdgeKept DEF IndInv
<1>7. \A t \in Threads : \/ pc'[t] = pc[t]
                         \/ pc[t] \notin Sharing /\ pc'[t] \notin Sharing
  BY <1>2 DEF Threads, Sharing
<1>8. ReadyInv'
  BY <1>1, <1>5, <1>7, HasKept, ReadyKept DEF IndInv
<1> QED
  BY <1>3, <1>4, <1>6, <1>8 DEF IndInv

\* The PRU has halted: the threads are told to stop, then the device is closed.
LEMMA MainEnds == IndInv /\ (MainStop \/ MainDeinit) => IndInv'
<1> SUFFICES ASSUME IndInv, MainStop \/ MainDeinit PROVE IndInv'
  OBVIOUS
<1>1. UNCHANGED <<pin, assertion, ppc, ret, num_samples, input_high, first, ts, host_ts, synced,
                  pc, tmp, i, nano_ts, ts_ready, last_pru_ts, last_host_ts, line,
                  errors, toPru, toHost, event, disturbed>>
  BY DEF MainStop, MainDeinit, signalVars, pruVars, readyVars
<1>2. \/ mpc = "wait" /\ mpc' = "deinit" /\ ppc = "halted" /\ stop' = TRUE /\ captured' = captured
      \/ mpc = "deinit" /\ mpc' = "unmap" /\ stop' = stop /\ captured' = <<>>
  BY DEF MainStop, MainDeinit, MainGoto
<1>3. TypeOK'
  <2>1. stop' \in BOOLEAN
    BY <1>2 DEF IndInv, TypeOK
  <2> QED
    BY <1>1, <1>2, <2>1 DEF IndInv, TypeOK
<1>4. ShapeInv'
  <2>1. CASE captured' = captured
    BY <1>1, <2>1 DEF IndInv, ShapeInv
  <2>2. CASE captured' = <<>>
    <3>1. /\ Len(captured') = 0 /\ \A k \in DOMAIN captured' : FALSE
          /\ captured' = [k \in 1 .. 0 |-> captured'[k]]
      BY <2>2, EmptyFacts
    <3> QED
      BY <1>1, <3>1 DEF IndInv, ShapeInv
  <2> QED
    BY <1>2, <2>1, <2>2
<1>5. PhaseInv' /\ WakeInv' /\ SamePulse'
  BY <1>1, <1>2 DEF IndInv, PhaseInv, WakeInv, SamePulse
<1>6. ReportInv'
  BY <1>1, ReportKept DEF IndInv
<1>7. PairInv' /\ EdgeInv' /\ ReadyInv'
  <2>1. CASE ~Open'
    BY <2>1 DEF PairInv, EdgeInv, ReadyInv
  <2>2. CASE Open'
    <3>1. captured' = captured /\ Open
      BY <1>2, <2>2 DEF Open
    <3> QED
      BY <1>1, <3>1, PairKept, EdgeKept, HasKept, ReadyKept DEF IndInv
  <2> QED
    BY <2>1, <2>2
<1> QED
  BY <1>3, <1>4, <1>5, <1>6, <1>7 DEF IndInv

-----------------------------------------------------------------------------
(* Steps of both threads.                                                  *)

\* The places of a thread.
Places(t) == {"none", "while", "end", "load", "or", "test", "reset", "print"} \union
             (IF t = "receive" THEN {"wait", "clear", "drain"} ELSE {"read", "write"})

\* A step of a thread keeps to its places and to the phases of the program.
LEMMA ThreadFacts ==
    ASSUME TypeOK, ShapeInv, PhaseInv, NEW t \in Threads, NEW from, NEW to,
           Goto(t, from, to), from # "none", to # "none", to \in Places(t),
           UNCHANGED <<pin, assertion, ppc, mpc, stop, input_high, toHost>>,
           disturbed' = "no" => disturbed = "no"
    PROVE  /\ \A o \in Threads : pc'[o] \in Places(o)
           /\ pc' = [o \in Threads |-> pc'[o]]
           /\ PhaseInv'
<1>1. /\ pc[t] = from /\ pc'[t] = to /\ \A o \in Threads \ {t} : pc'[o] = pc[o]
      /\ pc' = [o \in Threads |-> pc'[o]]
  BY GotoFacts
<1>2. "receive" \in Threads /\ "send" \in Threads /\ Threads = {"receive", "send"}
  BY DEF Threads
<1>3. \A o \in Threads : pc[o] \in Places(o)
  BY <1>2 DEF TypeOK, Places
<1>4. \A o \in Threads : pc[o] = "none" => pc'[o] = "none"
  BY <1>1
<1>5. PhaseInv'
  BY <1>2, <1>4 DEF PhaseInv
<1> QED
  BY <1>1, <1>3, <1>5

\* The types, if a thread does no more than that.
LEMMA ThreadTypes ==
    ASSUME TypeOK, ShapeInv, \A o \in Threads : pc'[o] \in Places(o),
           pc' = [o \in Threads |-> pc'[o]],
           UNCHANGED <<pin, assertion, ppc, ret, num_samples, input_high, first, ts, host_ts,
                       mpc, stop>>,
           event' \in BOOLEAN, disturbed' \in {"no", "raced", "yes"},
           nano_ts' \in Nat, i' \in Nat, tmp' \in [Threads -> 0 .. 3], ts_ready' \in 0 .. 3,
           last_pru_ts' \in 0 .. MaxAssertions, last_host_ts' \in Stamps,
           line'.pru \in 0 .. MaxAssertions, errors' \in 0 .. MaxReadErrors,
           toPru' \in Seq(Nat), toHost' \in Seq(Nat)
    PROVE  TypeOK'
<1>1. pc'["receive"] \in {"none", "while", "end", "wait", "clear", "drain",
                          "load", "or", "test", "reset", "print"}
  BY DEF Places, Threads
<1>2. pc'["send"] \in {"none", "while", "end", "read", "write", "load", "or", "test", "reset",
                       "print"}
  BY DEF Places, Threads
<1>3. {input_high', first', event', stop'} \subseteq BOOLEAN
  BY DEF TypeOK
<1> QED
  BY <1>1, <1>2, <1>3 DEF TypeOK, Stamps

\* Reports that have an interrupt keep it.
LEMMA WakeKept ==
    ASSUME WakeInv, UNCHANGED <<ppc, toHost, event>>,
           pc'["receive"] \in {"none", "while", "wait"} =>
              pc["receive"] \in {"none", "while", "wait"}
    PROVE  WakeInv'
  BY DEF WakeInv

\* while(!stop).
LEMMA WhileStep == ASSUME NEW t \in Threads PROVE IndInv /\ While(t) => IndInv'
<1> SUFFICES ASSUME IndInv, While(t) PROVE IndInv'
  OBVIOUS
<1> DEFINE to == IF stop THEN "end" ELSE IF t = "receive" THEN "wait" ELSE "read"
<1>1. /\ Goto(t, "while", to)
      /\ UNCHANGED <<pin, assertion, ppc, ret, num_samples, input_high, first, ts, host_ts,
                     synced, mpc, stop>>
      /\ UNCHANGED <<tmp, i, nano_ts, ts_ready, last_pru_ts, last_host_ts, line, errors,
                     toPru, toHost, captured, event, disturbed>>
  BY DEF While, others, signalVars, pruVars, mainVars, readyVars
<1>2. to \in Places(t) /\ to # "none" /\ to \in {"end", "wait", "read"}
  BY DEF Places
<1> HIDE DEF to
<1>3. /\ \A o \in Threads : pc'[o] \in Places(o)
      /\ pc' = [o \in Threads |-> pc'[o]]
      /\ PhaseInv'
  BY <1>1, <1>2, ThreadFacts DEF IndInv
<1>4. pc[t] = "while" /\ pc'[t] = to /\ \A o \in Threads \ {t} : pc'[o] = pc[o]
  BY <1>1, GotoFacts DEF IndInv
<1>5. TypeOK'
  BY <1>1, <1>3, ThreadTypes DEF IndInv, TypeOK, Stamps
<1>6. ShapeInv' /\ SamePulse'
  BY <1>1, <1>3 DEF IndInv, ShapeInv, SamePulse
<1>7. pc'["receive"] \in {"none", "while", "wait"} => pc["receive"] \in {"none", "while", "wait"}
  BY <1>4 DEF Threads
<1>8. pc'["send"] = "write" <=> pc["send"] = "write"
  BY <1>2, <1>4 DEF Threads
<1>9. \A o \in Threads : \/ pc'[o] = pc[o]
                         \/ pc[o] \notin Sharing /\ pc'[o] \notin Sharing
  BY <1>2, <1>4 DEF Sharing
<1>10. WakeInv' /\ PairInv'
  BY <1>1, <1>7, <1>8, WakeKept, PairKept DEF IndInv, Open
<1>11. ReportInv' /\ EdgeInv' /\ ReadyInv'
  BY <1>1, <1>9, ReportKept, EdgeKept, HasKept, ReadyKept DEF IndInv, Open
<1> QED
  BY <1>3, <1>5, <1>6, <1>10, <1>11 DEF IndInv

\* A step at ts_ready leaves the other parts alone.
LEMMA SharingKept ==
    ASSUME IndInv, NEW t \in Threads, NEW from \in Sharing, NEW to, Goto(t, from, to),
           to \in Sharing \/ to = Loop(t),
           UNCHANGED <<pin, assertion, ppc, ret, num_samples, input_high, first, ts, host_ts,
                       synced, mpc, stop, i, nano_ts, last_pru_ts, last_host_ts, errors,
                       toPru, toHost, captured, event>>,
           tmp' \in [Threads -> 0 .. 3], ts_ready' \in 0 .. 3,
           line'.pru \in 0 .. MaxAssertions,
           disturbed' = "no" => disturbed = "no", disturbed' \in {"no", "raced", "yes"}
    PROVE  /\ TypeOK' /\ ShapeInv' /\ PhaseInv' /\ WakeInv' /\ PairInv' /\ SamePulse' /\ EdgeInv'
           /\ UNCHANGED line => ReportInv'
<1>1. to \in Places(t) /\ to \notin {"none", "wait", "write"} /\ from \notin {"none", "write", "while", "wait"}
  BY DEF Places, Sharing, Loop
<1>2. /\ \A o \in Threads : pc'[o] \in Places(o)
      /\ pc' = [o \in Threads |-> pc'[o]]
      /\ PhaseInv'
  BY <1>1, ThreadFacts DEF IndInv
<1>3. pc[t] = from /\ pc'[t] = to /\ \A o \in Threads \ {t} : pc'[o] = pc[o]
  BY GotoFacts DEF IndInv
<1>4. TypeOK'
  BY <1>2, ThreadTypes DEF IndInv, TypeOK, Stamps
<1>5. ShapeInv' /\ SamePulse'
  BY <1>2 DEF IndInv, ShapeInv, SamePulse
<1>6. pc'["receive"] \in {"none", "while", "wait"} => pc["receive"] \in {"none", "while", "wait"}
  BY <1>1, <1>3 DEF Threads, Sharing, Loop
<1>7. pc'["send"] = "write" <=> pc["send"] = "write"
  BY <1>1, <1>3 DEF Threads
<1>8. WakeInv' /\ PairInv' /\ EdgeInv'
  BY <1>6, <1>7, WakeKept, PairKept, EdgeKept DEF IndInv, Open
<1>9. UNCHANGED line => ReportInv'
  BY ReportKept DEF IndInv
<1> QED
  BY <1>2, <1>4, <1>5, <1>8, <1>9

\* The two threads by name.
LEMMA OtherFacts ==
    ASSUME NEW t \in Threads
    PROVE  /\ Other(t) \in Threads /\ Other(t) # t /\ Threads = {t, Other(t)}
           /\ Other(t) \in Threads \ {t}
           /\ \/ t = "receive" /\ Other(t) = "send"
              \/ t = "send" /\ Other(t) = "receive"
<1>1. \/ t = "receive" /\ Other(t) = "send"
      \/ t = "send" /\ Other(t) = "receive"
  BY DEF Threads, Other
<1> QED
  BY <1>1 DEF Threads

\* What ReadyInv says to a thread that is at ts_ready.
LEMMA AloneAtReady ==
    ASSUME ReadyInv, disturbed = "no", Open, NEW t \in Threads, AtReady(t)
    PROVE  ~AtReady(Other(t)) /\ pc[Other(t)] \notin {"or", "test", "reset", "print"}
  BY OtherFacts DEF ReadyInv, AtReady

\* ts_ready is loaded: if that disturbs nothing, the other thread is elsewhere.
LEMMA LoadReadyStep == ASSUME NEW t \in Threads PROVE IndInv /\ LoadReady(t) => IndInv'
<1> SUFFICES ASSUME IndInv, LoadReady(t) PROVE IndInv'
  OBVIOUS
<1>1. /\ Goto(t, "load", "or") /\ tmp' = [tmp EXCEPT ![t] = ts_ready]
      /\ UNCHANGED <<pin, assertion, ppc, ret, num_samples, input_high, first, ts, host_ts,
                     synced, mpc, stop, i, nano_ts, ts_ready, last_pru_ts, last_host_ts, line,
                     errors, toPru, toHost, captured, event>>
  BY DEF LoadReady, others, signalVars, pruVars, mainVars, readyVars
<1>2. disturbed' = IF disturbed = "no" /\ AtReady(Other(t)) THEN "raced" ELSE disturbed
  BY DEF LoadReady
<1>3. tmp \in [Threads -> 0 .. 3] /\ ts_ready \in 0 .. 3 /\ line.pru \in 0 .. MaxAssertions
      /\ disturbed \in {"no", "raced", "yes"}
  BY DEF IndInv, TypeOK
<1>4. /\ tmp' \in [Threads -> 0 .. 3] /\ tmp'[t] = ts_ready
      /\ \A o \in Threads \ {t} : tmp'[o] = tmp[o]
  BY <1>1, <1>3
<1>5. "load" \in Sharing /\ "or" \in Sharing
  BY DEF Sharing
<1>6. /\ TypeOK' /\ ShapeInv' /\ PhaseInv' /\ WakeInv' /\ PairInv' /\ SamePulse' /\ EdgeInv'
      /\ ReportInv'
  <2>1. disturbed' \in {"no", "raced", "yes"} /\ (disturbed' = "no" => disturbed = "no")
    BY <1>2, <1>3
  <2>2. ts_ready' \in 0 .. 3 /\ line'.pru \in 0 .. MaxAssertions
    BY <1>1, <1>3
  <2> QED
    BY <1>1, <1>4, <1>5, <2>1, <2>2, SharingKept
<1>7. ReadyInv'
  <2> SUFFICES ASSUME disturbed' = "no", Open PROVE ReadyInv'
    BY <1>1 DEF ReadyInv, Open
  <2>1. disturbed = "no" /\ ~AtReady(Other(t))
    BY <1>2
  <2>2. pc[t] = "load" /\ pc'[t] = "or" /\ pc'[Other(t)] = pc[Other(t)]
    BY <1>1, GotoFacts, OtherFacts DEF IndInv
  <2>3. pc[Other(t)] \notin {"or", "test", "reset", "print"}
    BY <2>1 DEF AtReady
  <2>4. \A o \in Threads : Stored(o)' = Stored(o) /\ Fresh(o)' = Fresh(o)
    <3>1. \A o \in Threads : Fresh(o)' = Fresh(o)
      BY <1>1 DEF Fresh
    <3>2. \A o \in Threads : pc'[o] \in {"load", "or"} <=> pc[o] \in {"load", "or"}
      BY <2>2, OtherFacts
    <3> QED
      BY <3>1, <3>2 DEF Stored
  <2>5. Both' = Both /\ Has("rise")' = Has("rise")
    BY <1>1, <2>4, HasKept DEF Both, Threads
  <2>6. ~Joining /\ ~Joining'
    BY <2>2, <2>3, OtherFacts DEF Joining
  <2>7. /\ ~(AtReady("receive") /\ AtReady("send"))'
        /\ (\A o \in Threads : pc[o] = "or" => tmp[o] = ts_ready)'
        /\ (\A o \in Threads : pc[o] \in {"load", "or"} => Fresh(o))'
    <3>1. ~AtReady(Other(t))'
      BY <2>2, <2>3 DEF AtReady
    <3>2. ~(AtReady("receive") /\ AtReady("send"))'
      BY <3>1, OtherFacts
    <3>3. (\A o \in Threads : pc[o] = "or" => tmp[o] = ts_ready)'
      BY <1>1, <1>4, <2>2, <2>3, OtherFacts
    <3>4. \A o \in Threads : pc'[o] \in {"load", "or"} => pc[o] \in {"load", "or"}
      BY <2>2, OtherFacts
    <3> QED
      BY <2>1, <2>4, <3>2, <3>3, <3>4 DEF IndInv, ReadyInv
  <2>8. (\A o \in Threads : pc[o] \notin {"reset", "print"})'
    BY <2>2, <2>3, OtherFacts
  <2>9. (last_host_ts = RiseOf(IF Has("rise") THEN assertion - 1 ELSE assertion))'
    BY <1>1, <2>1, <2>5 DEF IndInv, ReadyInv
  <2>10. ~Both =>
           /\ ts_ready' = (IF Stored("receive") THEN 1 ELSE IF Stored("send") THEN 2 ELSE 0)
           /\ line' = LineOf(assertion' - 1)
    BY <1>1, <2>1 DEF IndInv, ReadyInv
  <2>11. Both => ts_ready' = 0 /\ line' = LineOf(assertion')
    BY <1>1, <2>1, <2>6 DEF IndInv, ReadyInv
  <2>12. Stored("receive")' = Stored("receive") /\ Stored("send")' = Stored("send")
    BY <2>4 DEF Threads
  <2> QED
    BY <2>5, <2>6, <2>7, <2>8, <2>9, <2>10, <2>11, <2>12 DEF ReadyInv
<1> QED
  BY <1>6, <1>7 DEF IndInv

\* The bit is set.
LEMMA OrReadyStep == ASSUME NEW t \in Threads PROVE IndInv /\ OrReady(t) => IndInv'
<1> SUFFICES ASSUME IndInv, OrReady(t) PROVE IndInv'
  OBVIOUS
<1>1. /\ Goto(t, "or", "test") /\ tmp' = [tmp EXCEPT ![t] = 0]
      /\ UNCHANGED <<pin, assertion, ppc, ret, num_samples, input_high, first, ts, host_ts,
                     synced, mpc, stop, i, nano_ts, last_pru_ts, last_host_ts, line,
                     errors, toPru, toHost, captured, event, disturbed>>
  BY DEF OrReady, others, signalVars, pruVars, mainVars, readyVars
<1>2. ts_ready' = IF tmp[t] \in {0, Bit(t)} THEN Bit(t) ELSE 3
  BY DEF OrReady
<1>3. tmp' \in [Threads -> 0 .. 3] /\ \A o \in Threads \ {t} : tmp'[o] = tmp[o]
  BY <1>1 DEF IndInv, TypeOK
<1>4. ts_ready' \in 0 .. 3 /\ line'.pru \in 0 .. MaxAssertions
  BY <1>1, <1>2 DEF IndInv, TypeOK, Bit
<1>5. "or" \in Sharing /\ "test" \in Sharing
  BY DEF Sharing
<1>6. /\ TypeOK' /\ ShapeInv' /\ PhaseInv' /\ WakeInv' /\ PairInv' /\ SamePulse' /\ EdgeInv'
      /\ ReportInv'
  <2>1. disturbed' \in {"no", "raced", "yes"} /\ (disturbed' = "no" => disturbed = "no")
    BY <1>1 DEF IndInv, TypeOK
  <2> QED
    BY <1>1, <1>3, <1>4, <1>5, <2>1, SharingKept
<1>7. ReadyInv'
  <2> SUFFICES ASSUME disturbed = "no", Open PROVE ReadyInv'
    BY <1>1 DEF ReadyInv, Open
  <2>1. pc[t] = "or" /\ pc'[t] = "test" /\ pc'[Other(t)] = pc[Other(t)]
    BY <1>1, GotoFacts, OtherFacts DEF IndInv
  <2>2. pc[Other(t)] \notin {"or", "test", "reset", "print"}
    BY <2>1, AloneAtReady DEF IndInv, AtReady
  <2>3. tmp[t] = ts_ready /\ Fresh(t) /\ ~Stored(t)
    BY <2>1 DEF IndInv, ReadyInv, Stored
  <2>4. ~Both
    BY <2>3, OtherFacts DEF Both
  <2>5. /\ ts_ready = (IF Stored("receive") THEN 1 ELSE IF Stored("send") THEN 2 ELSE 0)
        /\ line = LineOf(assertion - 1)
    BY <2>4 DEF IndInv, ReadyInv
  <2>6. \A o \in Threads : Fresh(o)' = Fresh(o)
    BY <1>1 DEF Fresh
  <2>7. Stored(t)' /\ Stored(Other(t))' = Stored(Other(t))
    BY <2>1, <2>3, <2>6, OtherFacts DEF Stored
  <2>8. Has("rise")' = Has("rise")
    BY <1>1, HasKept
  <2>9. Joining'
    BY <2>1 DEF Joining
  <2>10. \A o \in Threads : pc'[o] \notin {"or", "reset", "print"}
    BY <2>1, <2>2, OtherFacts
  <2>11. /\ ~Both' => ts_ready' = (IF Stored("receive")' THEN 1 ELSE IF Stored("send")' THEN 2 ELSE 0)
         /\ Both' => ts_ready' = 3
    <3>1. CASE t = "receive"
      BY <1>2, <2>3, <2>5, <2>7, <3>1, OtherFacts DEF Both, Bit
    <3>2. CASE t = "send"
      BY <1>2, <2>3, <2>5, <2>7, <3>2, OtherFacts DEF Both, Bit
    <3> QED
      BY <3>1, <3>2 DEF Threads
  <2>12. ~(AtReady("receive") /\ AtReady("send"))'
    BY <2>1, <2>2, OtherFacts DEF AtReady
  <2>13. (\A o \in Threads : pc[o] \in {"load", "or"} => Fresh(o))'
    BY <2>1, <2>6, OtherFacts DEF IndInv, ReadyInv
  <2>14. (last_host_ts = RiseOf(IF Has("rise") THEN assertion - 1 ELSE assertion))'
    BY <1>1, <2>8 DEF IndInv, ReadyInv
  <2>15. line' = LineOf(assertion' - 1)
    BY <1>1, <2>5
  <2> QED
    BY <2>9, <2>10, <2>11, <2>12, <2>13, <2>14, <2>15 DEF ReadyInv
<1> QED
  BY <1>6, <1>7 DEF IndInv

\* ts_ready is tested: both bits are set if and only if both threads have set them.
LEMMA TestReadyStep == ASSUME NEW t \in Threads PROVE IndInv /\ TestReady(t) => IndInv'
<1> SUFFICES ASSUME IndInv, TestReady(t) PROVE IndInv'
  OBVIOUS
<1> DEFINE to == IF ts_ready = 3 THEN "reset" ELSE Loop(t)
<1>1. /\ Goto(t, "test", to)
      /\ UNCHANGED <<pin, assertion, ppc, ret, num_samples, input_high, first, ts, host_ts,
                     synced, mpc, stop, tmp, i, nano_ts, ts_ready, last_pru_ts, last_host_ts,
                     line, errors, toPru, toHost, captured, event, disturbed>>
  BY DEF TestReady, others, signalVars, pruVars, mainVars, readyVars
<1>2. /\ "test" \in Sharing /\ (to \in Sharing \/ to = Loop(t))
      /\ Loop(t) \notin {"load", "or", "test", "reset", "print"}
  BY DEF Sharing, Loop
<1>3. to = IF ts_ready = 3 THEN "reset" ELSE Loop(t)
  OBVIOUS
<1> HIDE DEF to
<1>4. /\ TypeOK' /\ ShapeInv' /\ PhaseInv' /\ WakeInv' /\ PairInv' /\ SamePulse' /\ EdgeInv'
      /\ ReportInv'
  <2>1. /\ disturbed' \in {"no", "raced", "yes"} /\ (disturbed' = "no" => disturbed = "no")
        /\ tmp' \in [Threads -> 0 .. 3] /\ ts_ready' \in 0 .. 3
        /\ line'.pru \in 0 .. MaxAssertions
    BY <1>1 DEF IndInv, TypeOK
  <2>2. "test" \in Sharing
    BY DEF Sharing
  <2> QED
    BY <1>1, <1>2, <2>1, <2>2, SharingKept
<1>5. ReadyInv'
  <2> SUFFICES ASSUME disturbed = "no", Open PROVE ReadyInv'
    BY <1>1 DEF ReadyInv, Open
  <2>1. pc[t] = "test" /\ pc'[t] = to /\ pc'[Other(t)] = pc[Other(t)]
    BY <1>1, GotoFacts, OtherFacts DEF IndInv
  <2>2. pc[Other(t)] \notin {"or", "test", "reset", "print"}
    BY <2>1, AloneAtReady DEF IndInv, AtReady
  <2>3. Joining /\ ~\E o \in Threads : pc[o] = "print"
    BY <2>1, <2>2, OtherFacts DEF Joining
  <2>4. to \notin {"load", "or", "print", "test"}
    BY <1>2, <1>3
  <2>5. \A o \in Threads : Stored(o)' = Stored(o) /\ Fresh(o)' = Fresh(o)
    <3>1. \A o \in Threads : Fresh(o)' = Fresh(o)
      BY <1>1 DEF Fresh
    <3>2. \A o \in Threads : pc'[o] \in {"load", "or"} <=> pc[o] \in {"load", "or"}
      BY <2>1, <2>4, OtherFacts
    <3> QED
      BY <3>1, <3>2 DEF Stored
  <2>6. Both' = Both /\ Stored("receive")' = Stored("receive") /\ Stored("send")' = Stored("send")
    BY <2>5 DEF Both, Threads
  <2>7. line = LineOf(assertion - 1)
    BY <2>3 DEF IndInv, ReadyInv
  <2>8. ~(AtReady("receive") /\ AtReady("send"))'
    BY <2>1, <2>2, OtherFacts DEF AtReady
  <2>9. /\ (\A o \in Threads : pc[o] = "or" => tmp[o] = ts_ready)'
        /\ (\A o \in Threads : pc[o] \in {"load", "or"} => Fresh(o))'
    BY <1>1, <2>1, <2>2, <2>4, <2>5, OtherFacts DEF IndInv, ReadyInv
  <2>10. (last_host_ts = RiseOf(IF Has("rise") THEN assertion - 1 ELSE assertion))'
    BY <1>1, HasKept DEF IndInv, ReadyInv
  <2>11. CASE Both
    <3>1. ts_ready = 3
      BY <2>3, <2>11 DEF IndInv, ReadyInv
    <3>2. to = "reset"
      BY <1>3, <3>1
    <3>3. Joining' /\ ~\E o \in Threads : pc'[o] = "print"
      BY <2>1, <2>2, <3>2, OtherFacts DEF Joining
    <3> QED
      BY <1>1, <2>6, <2>7, <2>8, <2>9, <2>10, <2>11, <3>1, <3>3 DEF ReadyInv
  <2>12. CASE ~Both
    <3>1. ts_ready = (IF Stored("receive") THEN 1 ELSE IF Stored("send") THEN 2 ELSE 0)
      BY <2>12 DEF IndInv, ReadyInv
    <3>2. ts_ready # 3
      BY <3>1
    <3>3. to = Loop(t)
      BY <1>3, <3>2
    <3>4. \A o \in Threads : pc'[o] \notin {"reset", "print"}
      BY <1>2, <2>1, <2>2, <3>3, OtherFacts
    <3> QED
      BY <1>1, <2>6, <2>7, <2>8, <2>9, <2>10, <2>12, <3>1, <3>4 DEF ReadyInv
  <2> QED
    BY <2>11, <2>12
<1> QED
  BY <1>4, <1>5 DEF IndInv

\* Both bits are cleared.
LEMMA ResetReadyStep == ASSUME NEW t \in Threads PROVE IndInv /\ ResetReady(t) => IndInv'
<1> SUFFICES ASSUME IndInv, ResetReady(t) PROVE IndInv'
  OBVIOUS
<1>1. /\ Goto(t, "reset", "print") /\ ts_ready' = 0
      /\ UNCHANGED <<pin, assertion, ppc, ret, num_samples, input_high, first, ts, host_ts,
                     synced, mpc, stop, tmp, i, nano_ts, last_pru_ts, last_host_ts,
                     line, errors, toPru, toHost, captured, event, disturbed>>
  BY DEF ResetReady, others, signalVars, pruVars, mainVars, readyVars
<1>2. /\ TypeOK' /\ ShapeInv' /\ PhaseInv' /\ WakeInv' /\ PairInv' /\ SamePulse' /\ EdgeInv'
      /\ ReportInv'
  <2>1. /\ disturbed' \in {"no", "raced", "yes"} /\ (disturbed' = "no" => disturbed = "no")
        /\ tmp' \in [Threads -> 0 .. 3] /\ ts_ready' \in 0 .. 3
        /\ line'.pru \in 0 .. MaxAssertions
    BY <1>1 DEF IndInv, TypeOK
  <2>2. "reset" \in Sharing /\ "print" \in Sharing
    BY DEF Sharing
  <2> QED
    BY <1>1, <2>1, <2>2, SharingKept
<1>3. ReadyInv'
  <2> SUFFICES ASSUME disturbed = "no", Open PROVE ReadyInv'
    BY <1>1 DEF ReadyInv, Open
  <2>1. pc[t] = "reset" /\ pc'[t] = "print" /\ pc'[Other(t)] = pc[Other(t)]
    BY <1>1, GotoFacts, OtherFacts DEF IndInv
  <2>2. pc[Other(t)] \notin {"or", "test", "reset", "print"}
    BY <2>1, AloneAtReady DEF IndInv, AtReady
  <2>3. Both /\ Joining
    BY <2>1 DEF IndInv, ReadyInv, Joining
  <2>4. \A o \in Threads : Stored(o)' = Stored(o) /\ Fresh(o)' = Fresh(o)
    <3>1. \A o \in Threads : Fresh(o)' = Fresh(o)
      BY <1>1 DEF Fresh
    <3>2. \A o \in Threads : pc'[o] \in {"load", "or"} <=> pc[o] \in {"load", "or"}
      BY <2>1, OtherFacts
    <3> QED
      BY <3>1, <3>2 DEF Stored
  <2>5. Both'
    BY <2>3, <2>4 DEF Both, Threads
  <2>6. line = LineOf(assertion - 1)
    BY <2>3 DEF IndInv, ReadyInv
  <2>7. ~(AtReady("receive") /\ AtReady("send"))'
    BY <2>1, <2>2, OtherFacts DEF AtReady
  <2>8. /\ (\A o \in Threads : pc[o] = "or" => tmp[o] = ts_ready)'
        /\ (\A o \in Threads : pc[o] \in {"load", "or"} => Fresh(o))'
    BY <2>1, <2>2, <2>4, OtherFacts DEF IndInv, ReadyInv
  <2>9. (last_host_ts = RiseOf(IF Has("rise") THEN assertion - 1 ELSE assertion))'
    BY <1>1, HasKept DEF IndInv, ReadyInv
  <2>10. Joining' /\ \E o \in Threads : pc'[o] = "print"
    BY <2>1 DEF Joining
  <2> QED
    BY <1>1, <2>5, <2>6, <2>7, <2>8, <2>9, <2>10 DEF ReadyInv
<1> QED
  BY <1>2, <1>3 DEF IndInv

\* The line is printed: it is that of the last assertion.
LEMMA PrintLineStep == ASSUME NEW t \in Threads PROVE IndInv /\ PrintLine(t) => IndInv'
<1> SUFFICES ASSUME IndInv, PrintLine(t) PROVE IndInv'
  OBVIOUS
<1>1. /\ Goto(t, "print", Loop(t)) /\ line' = [host |-> last_host_ts, pru |-> last_pru_ts]
      /\ UNCHANGED <<pin, assertion, ppc, ret, num_samples, input_high, first, ts, host_ts,
                     synced, mpc, stop, tmp, i, nano_ts, ts_ready, last_pru_ts, last_host_ts,
                     errors, toPru, toHost, captured, event, disturbed>>
  BY DEF PrintLine, others, signalVars, pruVars, mainVars, readyVars
<1>2. last_pru_ts \in 0 .. MaxAssertions /\ assertion \in 0 .. MaxAssertions
  BY DEF IndInv, TypeOK
<1>3. TypeOK' /\ ShapeInv' /\ PhaseInv' /\ WakeInv' /\ PairInv' /\ SamePulse' /\ EdgeInv'
  <2>1. /\ disturbed' \in {"no", "raced", "yes"} /\ (disturbed' = "no" => disturbed = "no")
        /\ tmp' \in [Threads -> 0 .. 3] /\ ts_ready' \in 0 .. 3
    BY <1>1 DEF IndInv, TypeOK
  <2>2. line'.pru \in 0 .. MaxAssertions
    BY <1>1, <1>2
  <2>3. "print" \in Sharing
    BY DEF Sharing
  <2> QED
    BY <1>1, <2>1, <2>2, <2>3, SharingKept
<1>4. ReportInv'
  <2> SUFFICES ASSUME disturbed = "no" PROVE ReportInv'
    BY <1>1 DEF ReportInv
  <2>1. last_pru_ts >= assertion - 1
    BY <1>2, ConstantFacts DEF IndInv, ReportInv, Unseen, Reported, Taken
  <2>2. line'.pru >= assertion' - 1
    BY <1>1, <2>1
  <2> QED
    BY <1>1, <2>2 DEF IndInv, ReportInv, Unseen, Reported, Taken
<1>5. ReadyInv'
  <2> SUFFICES ASSUME disturbed = "no", Open PROVE ReadyInv'
    BY <1>1 DEF ReadyInv, Open
  <2>1. pc[t] = "print" /\ pc'[t] = Loop(t) /\ pc'[Other(t)] = pc[Other(t)]
    BY <1>1, GotoFacts, OtherFacts DEF IndInv
  <2>2. pc[Other(t)] \notin {"or", "test", "reset", "print"}
    BY <2>1, AloneAtReady DEF IndInv, AtReady
  <2>3. Loop(t) \notin {"load", "or", "test", "reset", "print"}
    BY DEF Loop
  <2>4. Both /\ Joining
    BY <2>1 DEF IndInv, ReadyInv, Joining
  <2>5. \A o \in Threads : Stored(o)' = Stored(o) /\ Fresh(o)' = Fresh(o)
    <3>1. \A o \in Threads : Fresh(o)' = Fresh(o)
      BY <1>1 DEF Fresh
    <3>2. \A o \in Threads : pc'[o] \in {"load", "or"} <=> pc[o] \in {"load", "or"}
      BY <2>1, <2>3, OtherFacts
    <3> QED
      BY <3>1, <3>2 DEF Stored
  <2>6. Both' /\ ~Joining'
    <3>1. ~Joining'
      BY <2>1, <2>2, <2>3, OtherFacts DEF Joining
    <3> QED
      BY <2>4, <2>5, <3>1 DEF Both, Threads
  <2>7. ts_ready = 0
    BY <2>1, <2>4 DEF IndInv, ReadyInv
  <2>8. line' = LineOf(assertion')
    BY <1>1, <2>4 DEF Both, Stored, Fresh, LineOf
  <2>9. ~(AtReady("receive") /\ AtReady("send"))'
    BY <2>1, <2>2, <2>3, OtherFacts DEF AtReady
  <2>10. /\ (\A o \in Threads : pc[o] = "or" => tmp[o] = ts_ready)'
         /\ (\A o \in Threads : pc[o] \in {"load", "or"} => Fresh(o))'
    BY <1>1, <2>1, <2>2, <2>3, <2>5, OtherFacts DEF IndInv, ReadyInv
  <2>11. (last_host_ts = RiseOf(IF Has("rise") THEN assertion - 1 ELSE assertion))'
    BY <1>1, HasKept DEF IndInv, ReadyInv
  <2> QED
    BY <1>1, <2>6, <2>7, <2>8, <2>9, <2>10, <2>11 DEF ReadyInv
<1> QED
  BY <1>3, <1>4, <1>5 DEF IndInv

-----------------------------------------------------------------------------
(* Steps of receive_pru_thread.                                            *)

\* It wakes up, or finds the buffer empty.
LEMMA RecvWakeEmptyStep ==
    IndInv /\ (RecvWait \/ RecvClear \/ RecvEmpty) => IndInv'
<1> SUFFICES ASSUME IndInv, RecvWait \/ RecvClear \/ RecvEmpty PROVE IndInv'
  OBVIOUS
<1>1. UNCHANGED <<pin, assertion, ppc, ret, num_samples, input_high, first, ts, host_ts,
                  synced, mpc, stop, tmp, i, nano_ts, ts_ready, last_pru_ts, last_host_ts,
                  line, errors, toPru, toHost, captured, disturbed>>
  BY DEF RecvWait, RecvClear, RecvEmpty, others, signalVars, pruVars, mainVars, readyVars
<1>2. \/ Goto("receive", "wait", "clear") /\ event' = event
      \/ Goto("receive", "clear", "drain") /\ event' = FALSE
      \/ Goto("receive", "drain", "while") /\ event' = event /\ toHost = <<>>
  BY DEF RecvWait, RecvClear, RecvEmpty
<1>3. "receive" \in Threads /\ {"clear", "drain", "while"} \subseteq Places("receive")
  BY DEF Threads, Places
<1>4. /\ \A o \in Threads : pc'[o] \in Places(o)
      /\ pc' = [o \in Threads |-> pc'[o]]
      /\ PhaseInv'
  BY <1>1, <1>2, <1>3, ThreadFacts DEF IndInv
<1>5. /\ pc'["send"] = pc["send"]
      /\ \/ pc["receive"] = "wait" /\ pc'["receive"] = "clear"
         \/ pc["receive"] = "clear" /\ pc'["receive"] = "drain"
         \/ pc["receive"] = "drain" /\ pc'["receive"] = "while" /\ toHost = <<>>
  BY <1>2, GotoNames DEF IndInv
<1>6. TypeOK'
  <2>1. event' \in BOOLEAN
    BY <1>2 DEF IndInv, TypeOK
  <2> QED
    BY <1>1, <1>4, <2>1, ThreadTypes DEF IndInv, TypeOK, Stamps
<1>7. ShapeInv' /\ SamePulse'
  BY <1>1, <1>4 DEF IndInv, ShapeInv, SamePulse
<1>8. WakeInv'
  BY <1>1, <1>5 DEF WakeInv
<1>9. \A o \in Threads : \/ pc'[o] = pc[o]
                         \/ pc[o] \notin Sharing /\ pc'[o] \notin Sharing
  BY <1>5 DEF Sharing, Threads
<1>10. PairInv' /\ ReportInv' /\ EdgeInv' /\ ReadyInv'
  BY <1>1, <1>5, <1>9, PairKept, ReportKept, EdgeKept, HasKept, ReadyKept DEF IndInv, Open
<1> QED
  BY <1>4, <1>6, <1>7, <1>8, <1>10 DEF IndInv

\* It reads a report: if nothing is disturbed, that of the last assertion.
LEMMA RecvReportStep == IndInv /\ RecvReport => IndInv'
<1> SUFFICES ASSUME IndInv, RecvReport PROVE IndInv'
  OBVIOUS
<1>1. /\ toHost # <<>> /\ Goto("receive", "drain", "load")
      /\ last_pru_ts' = Head(toHost) /\ toHost' = Tail(toHost)
      /\ UNCHANGED <<pin, assertion, ppc, ret, num_samples, input_high, first, ts, host_ts,
                     synced, mpc, stop, tmp, i, nano_ts, ts_ready, last_host_ts,
                     line, errors, toPru, captured, event, disturbed>>
  BY DEF RecvReport, others, signalVars, pruVars, mainVars
<1>2. /\ pc["receive"] = "drain" /\ pc'["receive"] = "load" /\ pc'["send"] = pc["send"]
      /\ pc' = [o \in Threads |-> pc'[o]]
  BY <1>1, GotoNames DEF IndInv
<1>3. /\ last_pru_ts' \in 0 .. MaxAssertions /\ toHost' \in Seq(0 .. MaxAssertions)
      /\ toHost' \in Seq(Nat)
  BY <1>1, TailFacts DEF IndInv, ShapeInv, TypeOK
<1>4. \A o \in Threads : pc'[o] \in Places(o)
  BY <1>2 DEF IndInv, TypeOK, Places, Threads
<1>5. TypeOK'
  BY <1>1, <1>2, <1>3, <1>4, ThreadTypes DEF IndInv, TypeOK, Stamps
<1>6. ShapeInv' /\ SamePulse' /\ PhaseInv' /\ WakeInv'
  BY <1>1, <1>2, <1>3 DEF IndInv, ShapeInv, SamePulse, PhaseInv, WakeInv
<1>7. PairInv' /\ EdgeInv'
  BY <1>1, <1>2, PairKept, EdgeKept DEF IndInv, Open
<1>8. assertion \in Nat
  BY ConstantFacts DEF IndInv, TypeOK
<1>9. disturbed = "no" => Reported /\ Taken'
  <2> SUFFICES ASSUME disturbed = "no" PROVE Reported /\ Taken'
    OBVIOUS
  <2>1. Reported
    BY <1>1 DEF IndInv, ReportInv, Unseen, Reported, Taken
  <2> QED
    BY <1>1, <2>1, SingleFacts DEF Reported, Taken
<1>10. ReportInv'
  <2> SUFFICES ASSUME disturbed = "no" PROVE ReportInv'
    BY <1>1 DEF ReportInv
  <2>1. Reported /\ Taken' /\ ~Unseen'
    BY <1>1, <1>8, <1>9 DEF Taken, Unseen
  <2>2. ~Unseen
    BY <1>1 DEF Unseen
  <2> QED
    BY <1>1, <2>1, <2>2 DEF IndInv, ReportInv
<1>11. ReadyInv'
  <2> SUFFICES ASSUME disturbed = "no", Open PROVE ReadyInv'
    BY <1>1 DEF ReadyInv, Open
  <2>1. last_pru_ts = assertion - 1 /\ last_pru_ts' = assertion
    BY <1>1, <1>9 DEF Reported, Taken
  <2>2. ~Stored("receive") /\ ~Stored("receive")' /\ Stored("send")' = Stored("send")
    BY <1>1, <1>2, <1>8, <2>1 DEF Stored, Fresh
  <2>3. ~Both /\ ~Both'
    BY <2>2 DEF Both
  <2>4. /\ ts_ready' = (IF Stored("receive")' THEN 1 ELSE IF Stored("send")' THEN 2 ELSE 0)
        /\ line' = LineOf(assertion' - 1)
    BY <1>1, <2>2, <2>3 DEF IndInv, ReadyInv
  <2>5. /\ \A o \in Threads : pc[o] \notin {"reset", "print"}
        /\ \A o \in Threads : pc[o] = "or" => tmp[o] = ts_ready
        /\ \A o \in Threads : pc[o] \in {"load", "or"} => Fresh(o)
    BY <2>3 DEF IndInv, ReadyInv
  <2>6. \A o \in Threads : pc'[o] \notin {"reset", "print"}
    BY <1>2, <2>5 DEF Threads
  <2>7. (\A o \in Threads : pc[o] = "or" => tmp[o] = ts_ready)'
    BY <1>1, <1>2, <2>5 DEF Threads
  <2>8. (\A o \in Threads : pc[o] \in {"load", "or"} => Fresh(o))'
    <3>1. Fresh("receive")'
      BY <1>1, <2>1 DEF Fresh
    <3>2. Fresh("send")' = Fresh("send")
      BY <1>1 DEF Fresh
    <3> QED
      BY <1>2, <2>5, <3>1, <3>2 DEF Threads
  <2>9. ~AtReady("receive")'
    BY <1>2 DEF AtReady
  <2>10. (last_host_ts = RiseOf(IF Has("rise") THEN assertion - 1 ELSE assertion))'
    BY <1>1, HasKept DEF IndInv, ReadyInv
  <2> QED
    BY <2>3, <2>4, <2>6, <2>7, <2>8, <2>9, <2>10 DEF ReadyInv
<1> QED
  BY <1>5, <1>6, <1>7, <1>10, <1>11 DEF IndInv

-----------------------------------------------------------------------------
(* Steps of send_pru_thread.                                               *)

\* The T2s that are left when the oldest timestamp is read.
LEMMA ReadPulses ==
    ASSUME ShapeInv, captured # <<>>, captured' = Tail(captured)
    PROVE  /\ Head(captured).channel = 0 => 1 \in Pulses
           /\ Head(captured).channel # 0 => 1 \notin Pulses
           /\ Pulses = {} => Pulses' = {}
           /\ Pulses = {1} => Pulses' = {}
           /\ \A k \in DOMAIN captured : Pulses = {k} /\ k # 1 =>
                 k - 1 \in DOMAIN captured' /\ Pulses' = {k - 1} /\ captured'[k - 1] = captured[k]
<1>1. /\ 1 \in DOMAIN captured /\ Head(captured) = captured[1]
      /\ \A k \in DOMAIN captured' : k \in Nat /\ k + 1 \in DOMAIN captured
                                     /\ captured'[k] = captured[k + 1]
      /\ \A k \in DOMAIN captured : k \in Nat /\
            (k = 1 \/ (k - 1 \in DOMAIN captured' /\ captured'[k - 1] = captured[k]))
  BY ReadFacts
<1>2. /\ Head(captured).channel = 0 => 1 \in Pulses
      /\ Head(captured).channel # 0 => 1 \notin Pulses
  BY <1>1 DEF Pulses
<1>3. \A k \in Pulses' : k \in Nat /\ k + 1 \in Pulses
  BY <1>1 DEF Pulses
<1>4. Pulses = {} => Pulses' = {}
  BY <1>3
<1>5. 0 \notin Pulses'
  <2>1. DOMAIN captured = 1 .. Len(captured) /\ Len(captured) \in Nat /\ Len(captured)' \in Nat
    BY QueueFacts, ReadFacts
  <2>2. captured' = [k \in 1 .. Len(captured') |-> captured'[k]]
    BY ReadFacts
  <2>3. 0 \notin DOMAIN captured'
    BY <2>1, <2>2
  <2> QED
    BY <2>3 DEF Pulses
<1>6. Pulses = {1} => Pulses' = {}
  BY <1>3, <1>5
<1>7. ASSUME NEW k \in DOMAIN captured, Pulses = {k}, k # 1
      PROVE  k - 1 \in DOMAIN captured' /\ Pulses' = {k - 1} /\ captured'[k - 1] = captured[k]
  <2>1. k \in Nat /\ k - 1 \in DOMAIN captured' /\ captured'[k - 1] = captured[k]
    BY <1>1, <1>7
  <2>2. captured[k].channel = 0
    BY <1>7 DEF Pulses
  <2>3. k - 1 \in Pulses'
    BY <2>1, <2>2 DEF Pulses
  <2>4. \A j \in Pulses' : j = k - 1
    BY <1>3, <1>7, <2>1
  <2> QED
    BY <2>1, <2>3, <2>4
<1> QED
  BY <1>2, <1>4, <1>6, <1>7

\* The edges that are left.
LEMMA ReadEdges ==
    ASSUME ShapeInv, captured # <<>>, captured' = Tail(captured)
    PROVE  /\ 1 \in DOMAIN captured /\ Head(captured) = captured[1]
           /\ \A k \in Edges' : k \in Nat /\ k + 1 \in Edges /\ k + 1 # 1
                                /\ captured'[k] = captured[k + 1]
           /\ \A edge : Has(edge)' <=> \E k \in Edges \ {1} : captured[k].ts.edge = edge
           /\ \A k \in Edges : k \in Nat /\ k >= 1
<1>1. /\ 1 \in DOMAIN captured /\ Head(captured) = captured[1]
      /\ \A k \in DOMAIN captured' : k \in Nat /\ k + 1 \in DOMAIN captured
                                     /\ captured'[k] = captured[k + 1]
      /\ \A k \in DOMAIN captured : k \in Nat /\
            (k = 1 \/ (k - 1 \in DOMAIN captured' /\ captured'[k - 1] = captured[k]))
  BY ReadFacts
<1>2. DOMAIN captured = 1 .. Len(captured) /\ Len(captured) \in Nat
  BY QueueFacts
<1>3. 0 \notin DOMAIN captured'
  <2>1. captured' = [k \in 1 .. Len(captured') |-> captured'[k]] /\ Len(captured)' \in Nat
    BY ReadFacts
  <2> QED
    BY <2>1
<1>4. \A k \in Edges' : k \in Nat /\ k + 1 \in Edges /\ k + 1 # 1 /\ captured'[k] = captured[k + 1]
  BY <1>1, <1>3 DEF Edges
<1>5. \A k \in Edges \ {1} : k - 1 \in Edges' /\ captured'[k - 1] = captured[k]
  BY <1>1 DEF Edges
<1>6. ASSUME NEW edge
      PROVE  Has(edge)' <=> \E k \in Edges \ {1} : captured[k].ts.edge = edge
  <2>1. Has(edge)' => \E k \in Edges \ {1} : captured[k].ts.edge = edge
    BY <1>4 DEF Has
  <2>2. (\E k \in Edges \ {1} : captured[k].ts.edge = edge) => Has(edge)'
    BY <1>5 DEF Has
  <2> QED
    BY <2>1, <2>2
<1>7. \A k \in Edges : k \in Nat /\ k >= 1
  BY <1>2 DEF Edges
<1> QED
  BY <1>1, <1>4, <1>6, <1>7

\* Every other event of channel 1 is of a rising edge.
LEMMA RisingAlternates ==
    ASSUME i \in Nat, i' = i + 1
    PROVE  IsRising' <=> ~IsRising
<1>1. \A k \in Nat : (k + 1) % 2 = 1 <=> ~(k % 2 = 1)
  OBVIOUS
<1> QED
  BY <1>1 DEF IsRising

\* What the reading of a timestamp changes, and what it leaves alone.
LEMMA SendReadFacts ==
    ASSUME IndInv, SendRead
    PROVE  /\ captured # <<>> /\ captured' = Tail(captured)
           /\ UNCHANGED <<pin, assertion, ppc, ret, num_samples, input_high, first, ts, host_ts,
                          synced, mpc, stop, tmp, ts_ready, last_pru_ts, line, errors, toPru,
                          toHost, event, disturbed>>
           /\ pc["send"] = "read" /\ pc'["receive"] = pc["receive"]
           /\ \/ /\ Head(captured).channel = 0 /\ nano_ts' = Head(captured).ts
                 /\ pc'["send"] = "write" /\ UNCHANGED <<i, last_host_ts>>
              \/ /\ Head(captured).channel = 1 /\ IsRising /\ i' = i + 1
                 /\ last_host_ts' = Head(captured).ts
                 /\ pc'["send"] = "load" /\ UNCHANGED nano_ts
              \/ /\ Head(captured).channel = 1 /\ ~IsRising /\ i' = i + 1
                 /\ pc'["send"] = "while" /\ UNCHANGED <<nano_ts, last_host_ts>>
           /\ TypeOK' /\ ShapeInv' /\ PhaseInv' /\ WakeInv' /\ SamePulse' /\ ReportInv'
<1>1. /\ captured # <<>> /\ captured' = Tail(captured)
      /\ UNCHANGED <<pin, assertion, ppc, ret, num_samples, input_high, first, ts, host_ts,
                     synced, mpc, stop, tmp, ts_ready, last_pru_ts, line, errors, toPru,
                     toHost, event, disturbed>>
  BY DEF SendRead, SendEvent, others, signalVars, pruVars, mainVars
<1>2. IsEvent(Head(captured))
  BY <1>1, ReadFacts DEF IndInv
<1>3. Head(captured).channel \in {0, 1}
  BY <1>2 DEF IsEvent
<1>4. /\ pc["send"] = "read" /\ pc'["receive"] = pc["receive"]
      /\ pc' = [o \in Threads |-> pc'[o]]
      /\ \/ /\ Head(captured).channel = 0 /\ nano_ts' = Head(captured).ts
            /\ pc'["send"] = "write" /\ UNCHANGED <<i, last_host_ts>>
         \/ /\ Head(captured).channel = 1 /\ IsRising /\ i' = i + 1
            /\ last_host_ts' = Head(captured).ts
            /\ pc'["send"] = "load" /\ UNCHANGED nano_ts
         \/ /\ Head(captured).channel = 1 /\ ~IsRising /\ i' = i + 1
            /\ pc'["send"] = "while" /\ UNCHANGED <<nano_ts, last_host_ts>>
  BY <1>3, GotoNames DEF IndInv, SendRead, SendEvent
<1>5. /\ Head(captured).channel = 0 => Head(captured).ts \in Nat
      /\ Head(captured).channel = 1 => Head(captured).ts \in Stamps
  BY <1>2 DEF IsEvent
<1>6. i' \in Nat /\ nano_ts' \in Nat /\ last_host_ts' \in Stamps
  BY <1>4, <1>5 DEF IndInv, TypeOK, Stamps
<1>7. \A o \in Threads : pc'[o] \in Places(o)
  BY <1>4 DEF IndInv, TypeOK, Places, Threads
<1>8. TypeOK'
  BY <1>1, <1>4, <1>6, <1>7, ThreadTypes DEF IndInv, TypeOK
<1>9. ShapeInv'
  <2>1. /\ Len(captured)' \in Nat /\ captured' = [k \in 1 .. Len(captured') |-> captured'[k]]
        /\ \A k \in DOMAIN captured' : IsEvent(captured'[k])
    BY <1>1, ReadFacts DEF IndInv
  <2> QED
    BY <1>1, <1>4, <2>1 DEF IndInv, ShapeInv
<1>10. PhaseInv' /\ WakeInv' /\ SamePulse'
  BY <1>1, <1>4 DEF IndInv, PhaseInv, WakeInv, SamePulse
<1>11. ReportInv'
  BY <1>1, ReportKept DEF IndInv
<1> QED
  BY <1>1, <1>4, <1>8, <1>9, <1>10, <1>11

\* An edge that is read leaves the T2s in their order.
LEMMA PairOnReadEdge ==
    ASSUME ShapeInv, PairInv, captured # <<>>, captured' = Tail(captured),
           Head(captured).channel # 0, pc["send"] # "write", pc'["send"] # "write",
           UNCHANGED <<ppc, ret, ts, host_ts, errors, toPru, mpc>>
    PROVE  PairInv'
<1>1. Waiting' = Waiting /\ Got' = Got /\ Open' = Open
  BY DEF Waiting, Got, Checking, Open
<1>2. Nowhere => Nowhere'
  BY ReadPulses DEF Nowhere
<1>3. InOnePlace => InOnePlace'
  <2> SUFFICES ASSUME InOnePlace PROVE InOnePlace'
    OBVIOUS
  <2>1. CASE \E k \in DOMAIN captured : Pulses = {k} /\ captured[k].ts = ts
    <3>1. PICK k \in DOMAIN captured : Pulses = {k} /\ captured[k].ts = ts
      BY <2>1
    <3>2. k # 1
      BY <3>1, ReadPulses
    <3>3. k - 1 \in DOMAIN captured' /\ Pulses' = {k - 1} /\ captured'[k - 1] = captured[k]
      BY <3>1, <3>2, ReadPulses
    <3>4. toPru = <<>>
      BY <3>1 DEF InOnePlace
    <3> QED
      BY <3>1, <3>3, <3>4 DEF InOnePlace
  <2>2. CASE ~\E k \in DOMAIN captured : Pulses = {k} /\ captured[k].ts = ts
    <3>1. Pulses = {} /\ toPru = <<ts>>
      BY <2>2 DEF InOnePlace
    <3> QED
      BY <3>1, ReadPulses DEF InOnePlace
  <2> QED
    BY <2>1, <2>2
<1> QED
  BY <1>1, <1>2, <1>3 DEF PairInv

\* It reads a T2, the one the PRU waits for if no read has failed.
LEMMA SendReadPulse == IndInv /\ SendRead /\ Head(captured).channel = 0 => IndInv'
<1> SUFFICES ASSUME IndInv, SendRead, Head(captured).channel = 0 PROVE IndInv'
  OBVIOUS
<1>1. /\ captured # <<>> /\ captured' = Tail(captured)
      /\ UNCHANGED <<pin, assertion, ppc, ret, ts, host_ts, mpc, tmp, i, ts_ready, last_pru_ts,
                     last_host_ts, line, errors, toPru, disturbed>>
      /\ pc["send"] = "read" /\ pc'["send"] = "write" /\ pc'["receive"] = pc["receive"]
      /\ nano_ts' = Head(captured).ts
      /\ TypeOK' /\ ShapeInv' /\ PhaseInv' /\ WakeInv' /\ SamePulse' /\ ReportInv'
  BY SendReadFacts
<1>2. Open' = Open
  BY <1>1 DEF Open
<1>3. PairInv'
  <2>1. Waiting' = Waiting /\ Got' = Got
    BY <1>1 DEF Waiting, Got, Checking
  <2>2. 1 \in Pulses
    BY <1>1, ReadPulses DEF IndInv
  <2> SUFFICES ASSUME errors = 0, Open PROVE Waiting /\ ~Got /\ InOnePlace'
    BY <1>1, <1>2, <2>1 DEF PairInv
  <2>3. Waiting
    BY <2>2 DEF IndInv, PairInv, Nowhere
  <2>4. InOnePlace
    BY <2>3 DEF IndInv, PairInv
  <2>5. PICK k \in DOMAIN captured : Pulses = {k} /\ captured[k].ts = ts /\ toPru = <<>>
    BY <2>2, <2>4 DEF InOnePlace
  <2>6. k = 1 /\ Pulses' = {}
    BY <1>1, <2>2, <2>5, ReadPulses DEF IndInv
  <2>7. Head(captured) = captured[1]
    BY <1>1, ReadFacts DEF IndInv
  <2>8. InOnePlace'
    BY <1>1, <2>5, <2>6, <2>7 DEF InOnePlace
  <2>9. ~Got
    BY <2>3 DEF Waiting, Got, Checking
  <2> QED
    BY <2>3, <2>8, <2>9
<1>4. /\ 1 \notin Edges
      /\ \A k \in Edges' : k \in Nat /\ k + 1 \in Edges /\ captured'[k] = captured[k + 1]
      /\ \A edge : Has(edge)' = Has(edge)
  <2>1. captured[1].channel = 0
    BY <1>1, ReadEdges DEF IndInv
  <2>2. 1 \notin Edges
    BY <2>1 DEF Edges
  <2>3. Edges \ {1} = Edges
    BY <2>2
  <2>4. \A edge : Has(edge)' <=> \E k \in Edges \ {1} : captured[k].ts.edge = edge
    BY <1>1, ReadEdges DEF IndInv
  <2>5. ASSUME NEW edge PROVE Has(edge)' = Has(edge)
    BY <2>3, <2>4 DEF Has
  <2>6. \A k \in Edges' : k \in Nat /\ k + 1 \in Edges /\ captured'[k] = captured[k + 1]
    BY <1>1, ReadEdges DEF IndInv
  <2> QED
    BY <2>2, <2>5, <2>6
<1>5. EdgeInv'
  <2> SUFFICES ASSUME disturbed = "no", Open PROVE EdgeInv'
    BY <1>1, <1>2 DEF EdgeInv
  <2>1. IsRising' = IsRising
    BY <1>1 DEF IsRising
  <2>2. (\A k \in Edges : captured[k].ts.n = assertion)'
    BY <1>1, <1>4 DEF IndInv, EdgeInv
  <2>3. ASSUME NEW j \in Edges', NEW k \in Edges', j < k
        PROVE  captured'[j].ts.edge = "rise" /\ captured'[k].ts.edge = "fall"
    <3>1. j + 1 \in Edges /\ k + 1 \in Edges /\ j + 1 < k + 1
      BY <1>4, <2>3
    <3>2. captured[j + 1].ts.edge = "rise" /\ captured[k + 1].ts.edge = "fall"
      BY <3>1 DEF IndInv, EdgeInv
    <3> QED
      BY <1>4, <3>2
  <2> QED
    BY <1>1, <1>4, <2>1, <2>2, <2>3 DEF IndInv, EdgeInv
<1>6. \A o \in Threads : \/ pc'[o] = pc[o]
                         \/ pc[o] \notin Sharing /\ pc'[o] \notin Sharing
  BY <1>1 DEF Sharing, Threads
<1>7. ReadyInv'
  BY <1>1, <1>2, <1>4, <1>6, ReadyKept DEF IndInv
<1> QED
  BY <1>1, <1>3, <1>5, <1>7 DEF IndInv

\* It reads an edge: a rising one is kept, and is that of the last assertion if
\* nothing is disturbed; a falling one is skipped.
LEMMA SendReadEdge == IndInv /\ SendRead /\ Head(captured).channel # 0 => IndInv'
<1> SUFFICES ASSUME IndInv, SendRead, Head(captured).channel # 0 PROVE IndInv'
  OBVIOUS
<1>1. /\ captured # <<>> /\ captured' = Tail(captured)
      /\ UNCHANGED <<pin, assertion, ppc, ret, ts, host_ts, mpc, tmp, ts_ready, last_pru_ts,
                     line, errors, toPru, disturbed>>
      /\ pc["send"] = "read" /\ pc'["receive"] = pc["receive"] /\ i' = i + 1
      /\ \/ IsRising /\ last_host_ts' = Head(captured).ts /\ pc'["send"] = "load"
         \/ ~IsRising /\ pc'["send"] = "while" /\ UNCHANGED last_host_ts
      /\ TypeOK' /\ ShapeInv' /\ PhaseInv' /\ WakeInv' /\ SamePulse' /\ ReportInv'
  BY SendReadFacts
<1>2. Open' = Open
  BY <1>1 DEF Open
<1>3. PairInv'
  BY <1>1, PairOnReadEdge DEF IndInv
<1>4. IsRising' <=> ~IsRising
  BY <1>1, RisingAlternates DEF IndInv, TypeOK
<1>5. /\ 1 \in Edges /\ Head(captured) = captured[1]
      /\ \A k \in Edges' : k \in Nat /\ k + 1 \in Edges /\ k + 1 # 1
                           /\ captured'[k] = captured[k + 1]
      /\ \A edge : Has(edge)' <=> \E k \in Edges \ {1} : captured[k].ts.edge = edge
      /\ \A k \in Edges : k \in Nat /\ k >= 1
  <2>1. /\ 1 \in DOMAIN captured /\ Head(captured) = captured[1]
        /\ \A k \in Edges' : k \in Nat /\ k + 1 \in Edges /\ k + 1 # 1
                             /\ captured'[k] = captured[k + 1]
        /\ \A edge : Has(edge)' <=> \E k \in Edges \ {1} : captured[k].ts.edge = edge
        /\ \A k \in Edges : k \in Nat /\ k >= 1
    BY <1>1, ReadEdges DEF IndInv
  <2>2. captured[1].channel = 1
    BY <2>1 DEF IndInv, ShapeInv, IsEvent
  <2> QED
    BY <2>1, <2>2 DEF Edges
<1>6. captured[1].ts \in Stamps
  BY <1>5 DEF IndInv, ShapeInv, IsEvent, Edges
<1>7. EdgeInv' /\ ReadyInv'
  <2> SUFFICES ASSUME disturbed = "no", Open PROVE EdgeInv' /\ ReadyInv'
    BY <1>1, <1>2 DEF EdgeInv, ReadyInv
  <2>1. \A k \in Edges : captured[k].ts.n = assertion
    BY DEF IndInv, EdgeInv
  <2>2. \A j, k \in Edges :
            j < k => captured[j].ts.edge = "rise" /\ captured[k].ts.edge = "fall"
    BY DEF IndInv, EdgeInv
  <2>3. \A k \in Edges \ {1} : captured[1].ts.edge = "rise" /\ captured[k].ts.edge = "fall"
    <3> SUFFICES ASSUME NEW k \in Edges, k # 1
                 PROVE  captured[1].ts.edge = "rise" /\ captured[k].ts.edge = "fall"
      OBVIOUS
    <3>1. 1 < k
      BY <1>5
    <3> QED
      BY <1>5, <2>2, <3>1
  <2>4. ~Has("rise")'
    BY <1>5, <2>3
  <2>5. (\A k \in Edges : captured[k].ts.n = assertion)'
    <3> SUFFICES ASSUME NEW k \in Edges' PROVE captured'[k].ts.n = assertion
      BY <1>1
    <3>1. k + 1 \in Edges /\ captured'[k] = captured[k + 1]
      BY <1>5
    <3> QED
      BY <2>1, <3>1
  <2>6. ASSUME NEW j \in Edges', NEW k \in Edges', j < k
        PROVE  captured'[j].ts.edge = "rise" /\ captured'[k].ts.edge = "fall"
    <3>1. j + 1 \in Edges /\ k + 1 \in Edges /\ j + 1 < k + 1
      BY <1>5, <2>6
    <3>2. captured[j + 1].ts.edge = "rise" /\ captured[k + 1].ts.edge = "fall"
      BY <2>2, <3>1
    <3> QED
      BY <1>5, <3>2
  <2>7. CASE IsRising
    <3>1. captured[1].ts.edge = "rise" /\ Has("rise")
      <4>1. CASE captured[1].ts.edge = "rise"
        BY <1>5, <4>1 DEF Has
      <4>2. CASE captured[1].ts.edge # "rise"
        <5>1. captured[1].ts.edge = "fall"
          BY <1>6, <4>2 DEF Stamps
        <5>2. Has("fall")
          BY <1>5, <5>1 DEF Has
        <5>3. Has("rise")
          BY <2>7, <5>2 DEF IndInv, EdgeInv
        <5>4. PICK k \in Edges : captured[k].ts.edge = "rise"
          BY <5>3 DEF Has
        <5>5. k # 1
          BY <5>1, <5>4
        <5> QED
          BY <2>3, <4>2, <5>4, <5>5
      <4> QED
        BY <4>1, <4>2
    <3>2. Has("fall")' <=> Has("fall")
      BY <1>5, <3>1 DEF Has
    <3>3. pin <=> ~Has("fall")
      BY <2>7, <3>1 DEF IndInv, EdgeInv
    <3>4. EdgeInv'
      BY <1>1, <1>4, <2>4, <2>5, <2>6, <2>7, <3>2, <3>3 DEF EdgeInv
    <3>5. captured[1].ts = RiseOf(assertion)
      BY <1>5, <1>6, <2>1, <3>1 DEF Stamps, RiseOf
    <3>6. last_host_ts = RiseOf(assertion - 1) /\ last_host_ts' = RiseOf(assertion)
      BY <1>1, <1>5, <2>7, <3>1, <3>5 DEF IndInv, ReadyInv
    <3>7. assertion \in Nat
      BY ConstantFacts DEF IndInv, TypeOK
    <3>8. RiseOf(assertion - 1) # RiseOf(assertion)
      BY <3>7 DEF RiseOf
    <3>9. pc'["send"] = "load"
      BY <1>1, <2>7
    <3>10. ~Stored("send") /\ ~Stored("send")' /\ Stored("receive")' = Stored("receive")
      BY <1>1, <3>6, <3>8, <3>9 DEF Stored, Fresh
    <3>11. ~Both /\ ~Both'
      BY <3>10 DEF Both
    <3>12. /\ ts_ready' = (IF Stored("receive")' THEN 1 ELSE IF Stored("send")' THEN 2 ELSE 0)
           /\ line' = LineOf(assertion' - 1)
      BY <1>1, <3>10, <3>11 DEF IndInv, ReadyInv
    <3>13. /\ \A o \in Threads : pc[o] \notin {"reset", "print"}
           /\ \A o \in Threads : pc[o] = "or" => tmp[o] = ts_ready
           /\ \A o \in Threads : pc[o] \in {"load", "or"} => Fresh(o)
      BY <3>11 DEF IndInv, ReadyInv
    <3>14. \A o \in Threads : pc'[o] \notin {"reset", "print"}
      BY <1>1, <3>9, <3>13 DEF Threads
    <3>15. (\A o \in Threads : pc[o] = "or" => tmp[o] = ts_ready)'
      BY <1>1, <3>9, <3>13 DEF Threads
    <3>16. (\A o \in Threads : pc[o] \in {"load", "or"} => Fresh(o))'
      <4>1. Fresh("send")' /\ Fresh("receive")' = Fresh("receive")
        BY <1>1, <3>6 DEF Fresh
      <4> QED
        BY <1>1, <3>13, <4>1 DEF Threads
    <3>17. ~AtReady("send")'
      BY <3>9 DEF AtReady
    <3>18. (last_host_ts = RiseOf(IF Has("rise") THEN assertion - 1 ELSE assertion))'
      BY <1>1, <2>4, <3>6
    <3>19. ReadyInv'
      BY <3>11, <3>12, <3>14, <3>15, <3>16, <3>17, <3>18 DEF ReadyInv
    <3> QED
      BY <3>4, <3>19
  <2>8. CASE ~IsRising
    <3>1. ~Has("rise") /\ (pin <=> ~Has("fall"))
      BY <2>8 DEF IndInv, EdgeInv
    <3>2. captured[1].ts.edge = "fall"
      BY <1>5, <1>6, <3>1 DEF Has, Stamps
    <3>3. Edges \ {1} = {}
      BY <2>3, <3>2
    <3>4. ~Has("fall")' /\ Has("fall")
      BY <1>5, <3>2, <3>3 DEF Has
    <3>5. EdgeInv'
      BY <1>1, <1>4, <2>4, <2>5, <2>6, <2>8, <3>1, <3>4 DEF EdgeInv
    <3>6. \A o \in Threads : \/ pc'[o] = pc[o]
                             \/ pc[o] \notin Sharing /\ pc'[o] \notin Sharing
      BY <1>1, <2>8 DEF Sharing, Threads
    <3>7. UNCHANGED last_host_ts
      BY <1>1, <2>8
    <3>8. ~Has("rise")'
      BY <2>4, <3>1
    <3>9. Has("rise")' = Has("rise")
      BY <3>1, <3>8 DEF Has
    <3>10. ReadyInv'
      BY <1>1, <1>2, <3>6, <3>7, <3>9, ReadyKept DEF IndInv
    <3> QED
      BY <3>5, <3>10
  <2> QED
    BY <2>7, <2>8
<1> QED
  BY <1>1, <1>3, <1>7 DEF IndInv

\* A read fails, for one when the device has been closed.
LEMMA SendReadErrorStep == IndInv /\ SendReadError => IndInv'
<1> SUFFICES ASSUME IndInv, SendReadError PROVE IndInv'
  OBVIOUS
<1>1. PICK channel \in 0 .. 2 : SendEvent(channel, IF channel = 0 THEN 0 ELSE NoStamp)
  BY DEF SendReadError
<1>2. UNCHANGED <<pin, assertion, ppc, ret, num_samples, input_high, first, ts, host_ts,
                  synced, mpc, stop, tmp, ts_ready, last_pru_ts, line, toPru, toHost, event,
                  captured>>
  BY <1>1 DEF SendReadError, SendEvent, others, signalVars, pruVars, mainVars
<1>3. \/ errors < MaxReadErrors /\ errors' = errors + 1 /\ disturbed' = "yes"
      \/ ~Capturing /\ UNCHANGED <<errors, disturbed>>
  BY DEF SendReadError
<1>4. /\ Alive /\ pc["send"] = "read" /\ pc'["send"] \in {"write", "load", "while"}
      /\ pc'["receive"] = pc["receive"] /\ pc' = [o \in Threads |-> pc'[o]]
      /\ nano_ts' \in {nano_ts, 0} /\ i' \in {i, i + 1} /\ last_host_ts' \in {last_host_ts, NoStamp}
  <2>1. CASE channel = 0
    BY <1>1, <2>1, GotoNames DEF IndInv, SendEvent
  <2>2. CASE channel = 1
    BY <1>1, <2>2, GotoNames DEF IndInv, SendEvent
  <2>3. CASE channel = 2
    BY <1>1, <2>3, GotoNames DEF IndInv, SendEvent
  <2> QED
    BY <2>1, <2>2, <2>3
<1>5. i' \in Nat /\ nano_ts' \in Nat /\ last_host_ts' \in Stamps /\ errors' \in 0 .. MaxReadErrors
  <2>1. NoStamp \in Stamps
    BY ConstantFacts DEF NoStamp, Stamps
  <2>2. errors' \in 0 .. MaxReadErrors
    BY <1>3, ConstantFacts DEF IndInv, TypeOK
  <2>3. i' \in Nat /\ nano_ts' \in Nat
    BY <1>4 DEF IndInv, TypeOK
  <2>4. last_host_ts \in Stamps
    BY DEF IndInv, TypeOK, Stamps
  <2> QED
    BY <1>4, <2>1, <2>2, <2>3, <2>4
<1>6. \A o \in Threads : pc'[o] \in Places(o)
  BY <1>4 DEF IndInv, TypeOK, Places, Threads
<1>7. TypeOK'
  <2>1. disturbed' \in {"no", "raced", "yes"}
    BY <1>3 DEF IndInv, TypeOK
  <2> QED
    BY <1>2, <1>4, <1>5, <1>6, <2>1, ThreadTypes DEF IndInv, TypeOK
<1>8. ShapeInv' /\ PhaseInv' /\ WakeInv'
  BY <1>2, <1>3, <1>4 DEF IndInv, ShapeInv, PhaseInv, WakeInv
<1>9. errors' = 0 => errors = 0
  <2>1. errors \in Nat
    BY ConstantFacts DEF IndInv, TypeOK
  <2> QED
    BY <1>3, <2>1
<1>10. SamePulse'
  BY <1>2, <1>9 DEF IndInv, SamePulse
<1>11. ReportInv'
  BY <1>2, <1>3, ReportKept DEF IndInv
<1>12. (errors' = 0 \/ disturbed' = "no") => ~Open'
  <2>1. errors \in Nat
    BY ConstantFacts DEF IndInv, TypeOK
  <2>2. errors' = 0 \/ disturbed' = "no" => ~Capturing
    BY <1>3, <2>1
  <2>3. mpc \notin {"qot", "failed"}
    BY <1>4 DEF IndInv, PhaseInv, Alive
  <2> QED
    BY <1>2, <2>2, <2>3 DEF Capturing, Open
<1>13. PairInv' /\ EdgeInv' /\ ReadyInv'
  BY <1>12 DEF PairInv, EdgeInv, ReadyInv
<1> QED
  BY <1>7, <1>8, <1>10, <1>11, <1>13 DEF IndInv

\* What was read is sent.
LEMMA SendWriteStep == IndInv /\ SendWrite => IndInv'
<1> SUFFICES ASSUME IndInv, SendWrite PROVE IndInv'
  OBVIOUS
<1>1. /\ Goto("send", "write", "while") /\ toPru' = Put(toPru, nano_ts) /\ nano_ts' = 0
      /\ UNCHANGED <<pin, assertion, ppc, ret, num_samples, input_high, first, ts, host_ts,
                     synced, mpc, stop, tmp, i, ts_ready, last_pru_ts, last_host_ts, line,
                     errors, toHost, captured, event, disturbed>>
  BY DEF SendWrite, others, signalVars, pruVars, mainVars, readyVars
<1>2. /\ pc["send"] = "write" /\ pc'["send"] = "while" /\ pc'["receive"] = pc["receive"]
      /\ pc' = [o \in Threads |-> pc'[o]]
  BY <1>1, GotoNames DEF IndInv
<1>3. /\ toPru' \in Seq(Nat)
      /\ toPru = <<>> => toPru' = <<nano_ts>>
  BY <1>1, PutFacts DEF IndInv, TypeOK
<1>4. \A o \in Threads : pc'[o] \in Places(o)
  BY <1>2 DEF IndInv, TypeOK, Places, Threads
<1>5. TypeOK'
  BY <1>1, <1>2, <1>3, <1>4, ThreadTypes DEF IndInv, TypeOK, Stamps
<1>6. ShapeInv' /\ SamePulse' /\ PhaseInv' /\ WakeInv'
  BY <1>1, <1>2 DEF IndInv, ShapeInv, SamePulse, PhaseInv, WakeInv
<1>7. PairInv'
  <2>1. Waiting' = Waiting /\ Got' = Got /\ Open' = Open /\ Pulses' = Pulses
    BY <1>1 DEF Waiting, Got, Checking, Open, Pulses
  <2> SUFFICES ASSUME errors = 0, Open PROVE Waiting /\ ~Got /\ InOnePlace'
    BY <1>1, <2>1 DEF PairInv
  <2>2. Waiting
    BY <1>2 DEF IndInv, PairInv, Nowhere
  <2>3. Pulses = {} /\ nano_ts = ts /\ toPru = <<>>
    BY <1>2, <2>2 DEF IndInv, PairInv, InOnePlace
  <2>4. InOnePlace'
    BY <1>1, <1>2, <1>3, <2>1, <2>3 DEF InOnePlace
  <2>5. ~Got
    BY <2>2 DEF Waiting, Got, Checking
  <2> QED
    BY <2>2, <2>4, <2>5
<1>8. \A o \in Threads : \/ pc'[o] = pc[o]
                         \/ pc[o] \notin Sharing /\ pc'[o] \notin Sharing
  BY <1>2 DEF Sharing, Threads
<1>9. ReportInv' /\ EdgeInv' /\ ReadyInv'
  BY <1>1, <1>8, ReportKept, EdgeKept, HasKept, ReadyKept DEF IndInv, Open
<1> QED
  BY <1>5, <1>6, <1>7, <1>9 DEF IndInv

-----------------------------------------------------------------------------
(* The invariant, and what follows from it.                                *)

\* Every step keeps it, and a step that changes nothing.
LEMMA NextInd == IndInv /\ [Next]_vars => IndInv'
<1> SUFFICES ASSUME IndInv, [Next]_vars PROVE IndInv'
  OBVIOUS
<1>1. "receive" \in Threads /\ "send" \in Threads
  BY DEF Threads
<1>2. ASSUME NEW t \in Threads, Ready(t) PROVE IndInv'
  BY <1>2, LoadReadyStep, OrReadyStep, TestReadyStep, ResetReadyStep, PrintLineStep DEF Ready
<1>3. CASE Rise \/ Fall
  BY <1>3, RiseStep, FallStep
<1>4. CASE Pru
  BY <1>4, PruBootStep, PruLoopStep, PruPulseStep, PruWaitReadStep, PruAdjustStep,
     PruReportStep, PruTriggerStep, PruNoReportStep, PruHaltStep DEF Pru
<1>5. CASE Main
  BY <1>5, MainGoesOn, MainCreateStep, MainEnds DEF Main
<1>6. CASE Recv
  BY <1>1, <1>2, <1>6, WhileStep, RecvWakeEmptyStep, RecvReportStep DEF Recv
<1>7. CASE Send
  BY <1>1, <1>2, <1>7, WhileStep, SendReadPulse, SendReadEdge, SendReadErrorStep,
     SendWriteStep DEF Send
<1>8. CASE UNCHANGED vars
  <2>1. UNCHANGED <<pin, assertion, ppc, ret, num_samples, input_high, first, ts, host_ts,
                    synced, mpc, stop, pc, tmp, i, nano_ts, ts_ready, last_pru_ts,
                    last_host_ts, line, errors, toPru, toHost, captured, event, disturbed>>
    BY <1>8 DEF vars, signalVars, pruVars, hostVars, mainVars, readyVars
  <2>2. TypeOK' /\ ShapeInv' /\ PhaseInv' /\ WakeInv' /\ SamePulse'
    BY <2>1 DEF IndInv, TypeOK, ShapeInv, PhaseInv, WakeInv, SamePulse
  <2>3. PairInv' /\ ReportInv'
    BY <2>1, PairKept, ReportKept DEF IndInv, Open
  <2> QED
    BY <2>1, <2>2, <2>3, HostKept DEF IndInv
<1> QED
  BY <1>3, <1>4, <1>5, <1>6, <1>7, <1>8 DEF Next

\* The inductive invariant.
THEOREM IndInvHolds == Spec => []IndInv
  BY InitInd, NextInd, PTL DEF Spec

\* Every variable has its type.
THEOREM TypeCorrect == Spec => []TypeOK
<1>1. IndInv => TypeOK
  BY DEF IndInv
<1> QED
  BY <1>1, IndInvHolds, PTL

\* Until a read() fails, every offset the PRU computes is that of one pulse,
\* however the events of the two channels cross (pru_main.c:94-103,
\* host_main.c:94-99).
THEOREM AdjustsBySamePulse == Spec => []SamePulse
<1>1. IndInv => SamePulse
  BY DEF IndInv
<1> QED
  BY <1>1, IndInvHolds, PTL

\* No report is forgotten in the buffer, however late the host is
\* (host_main.c:60-80, pru_main.c:41-43).
THEOREM ReportsAreFetched == Spec => []NoReportLeftBehind
<1>1. IndInv => NoReportLeftBehind
  BY DEF IndInv, WakeInv, NoReportLeftBehind
<1> QED
  BY <1>1, IndInvHolds, PTL

\* The lines of an undisturbed measurement pair the two timestamps of one
\* assertion, and none but the last is missing (host_main.c:66-78, 101-115).
THEOREM LinesPairUnlessDisturbed == Spec => []PairedUnlessDisturbed
<1>1. IndInv => PairedUnlessDisturbed
  <2> SUFFICES ASSUME IndInv, disturbed = "no"
               PROVE  /\ ~stop => line.host.n = line.pru /\ line.host.edge = "rise"
                      /\ line.pru >= assertion - 1
    BY DEF PairedUnlessDisturbed
  <2>1. line.pru >= assertion - 1
    BY DEF IndInv, ReportInv
  <2>2. ASSUME ~stop PROVE line.host.n = line.pru /\ line.host.edge = "rise"
    <3>1. Open
      BY <2>2 DEF IndInv, PhaseInv, Open
    <3>2. line = LineOf(assertion) \/ line = LineOf(assertion - 1)
      BY <3>1 DEF IndInv, ReadyInv
    <3> QED
      BY <3>2 DEF LineOf, RiseOf
  <2> QED
    BY <2>1, <2>2
<1> QED
  BY <1>1, IndInvHolds, PTL

=============================================================================
