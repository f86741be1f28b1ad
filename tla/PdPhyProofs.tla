---------------------------- MODULE PdPhyProofs ----------------------------
(***************************************************************************)
(* Theorems about PdPhy, for every size of the RX FIFO that holds two      *)
(* messages, any number of calls and changes of the cable, and any number  *)
(* of times a source sends its capabilities and a sink is looked for.      *)
(***************************************************************************)
EXTENDS PdPhy, DataLemmas

(* The inductive invariant says where in which plan the call at hand is,   *)
(* and what the registers and the levels read so far tell there.           *)

Registers == [powered : BOOLEAN, rd : SUBSET Line, rp : SUBSET Line,
              meas : {0} \cup Line, txcc : {0} \cup Line, autoCrc : BOOLEAN,
              source : BOOLEAN, hostCur : BOOLEAN]

Typed ==
    /\ reg \in Registers
    /\ rx \in Seq({"fresh", "old"})
    /\ partner \in Partner
    /\ attached \in BOOLEAN /\ arrived \in BOOLEAN /\ seen \in BOOLEAN
    /\ burst \in 0..Burst
    /\ levels \in [Line -> {0, 1}]
    /\ c0 \in BOOLEAN /\ disturbed \in BOOLEAN

\* The cable is as it was when the set-up began; a source is not to be misled
\* by a marked one.
Undisturbed(role) == ~disturbed /\ ~(role = "source" /\ partner.marked)

\* The partner of a set-up in that role is on line l.
Other(role)    == IF role = "sink" THEN "source" ELSE "sink"
Found(role, l) == Undisturbed(role) => partner.line = l /\ partner.kind = Other(role)
Tells(role, l) == levels[l] # 0 => Found(role, l)

\* The first capabilities of an attach find room, and are not lost then.
Fresh ==
    ~disturbed =>
       IF attached /\ burst < Burst
         THEN seen \/ \E i \in 1..Len(rx) : rx[i] = "fresh"
         ELSE Len(rx) <= 1

\* On the way there: flushed, deaf while the terminations are off, and detached.
Quiet(k) ==
    /\ k = 4 => Len(rx) <= 1 /\ (rx # <<>> => arrived)
    /\ k \in {5, 6} => Len(rx) <= 1
    /\ k = 6 => ~attached
    /\ k = 7 => Fresh

Locked(role, l) ==
    /\ reg.powered /\ Found(role, l)
    /\ reg.txcc = l /\ reg.autoCrc /\ reg.meas = l
    /\ reg.source = (role = "source") /\ reg.hostCur = (role = "source")
    /\ IF role = "sink" THEN reg.rd = Line /\ reg.rp = {}
                        ELSE reg.rp = {l} /\ reg.rd = {}

ProbingSink(k) ==
    /\ todo = Onward(SinkSetup, k) /\ ready = "none"
    /\ k > 2 => reg.powered
    /\ k > 3 => reg.rd = Line /\ reg.rp = {}
    /\ k = 4 => reg.meas = 1
    /\ k > 4 => Tells("sink", 1)
    /\ k = 6 => reg.meas = 2
    /\ k > 6 => Tells("sink", 2)

LockingSink(l, k) ==
    /\ todo = Onward(LockSink(l), k) /\ ready = "none"
    /\ reg.powered /\ Found("sink", l)
    /\ k > 1 => reg.txcc = l /\ reg.autoCrc /\ reg.source = FALSE
    /\ k > 2 => reg.hostCur = FALSE
    /\ k \in {5, 6} => reg.rd = {} /\ reg.rp = {} /\ reg.meas = 0
    /\ k = 7 => reg.rd = Line /\ reg.rp = {} /\ reg.meas = l
    /\ Quiet(k)

ProbingSource(k) ==
    /\ todo = Onward(SourceSetup, k) /\ ready = "none"
    /\ k > 2 => reg.powered
    /\ k > 3 => reg.hostCur = TRUE
    /\ k > 4 => reg.rp = Line /\ reg.rd = {}
    /\ k = 5 => reg.meas = 1
    /\ k > 5 => Tells("source", 1)
    /\ k = 7 => reg.meas = 2
    /\ k > 7 => Tells("source", 2)

LockingSource(l, k) ==
    /\ todo = Onward(LockSource(l), k) /\ ready = "none"
    /\ reg.powered /\ reg.hostCur = TRUE /\ Found("source", l)
    /\ k > 1 => reg.rp = {l} /\ reg.rd = {} /\ reg.meas = l
    /\ k > 2 => reg.txcc = l /\ reg.autoCrc /\ reg.source = TRUE

Talking ==
    /\ \/ todo \in {<<>>, <<<<"interrupta", 0>>>>, <<<<"poll", 0>>>>}
       \/ \E k \in 1..3 : todo = Onward(Tx, k) /\ (k = 2 => c0 = reg.hostCur)
    /\ \/ ready = "none"
       \/ ready = "sink" /\ cc \in Line /\ Locked("sink", cc) /\ Fresh
       \/ ready = "source" /\ cc \in Line /\ Locked("source", cc)

Placed ==
    \/ Talking
    \/ \E k \in 1..7 : ProbingSink(k) \/ \E l \in Line : LockingSink(l, k)
    \/ \E k \in 1..8 : ProbingSource(k)
    \/ \E l \in Line, k \in 1..4 : LockingSource(l, k)

IInv == Typed /\ Placed

-----------------------------------------------------------------------------
(* The plans.                                                              *)

Labels == {"reset", "power", "host_cur", "control0", "tx_flush", "rd", "rp",
           "rp_only", "open", "switches1", "switches1_source", "status0",
           "read_control0", "fifo", "wait", "rx_flush", "poll", "interrupta",
           "sink", "source", "ready", "ready_source"}
AccessOf == {a \in Labels \X {0, 1, 2} : a[1] = "rp_only" => a[2] \in Line}

LEMMA ProbeIs ==
    ASSUME NEW term \in {"rd", "rp"}
    PROVE  /\ Probe(term) \in Seq(AccessOf) /\ Len(Probe(term)) = 4
           /\ Probe(term)[1] = <<term, 1>> /\ Probe(term)[2] = <<"status0", 1>>
           /\ Probe(term)[3] = <<term, 2>> /\ Probe(term)[4] = <<"status0", 2>>
  BY DEF Probe, AccessOf, Labels, Line

LEMMA SinkSetupIs ==
    /\ SinkSetup \in Seq(AccessOf) /\ Len(SinkSetup) = 7
    /\ SinkSetup[1] = <<"reset", 0>> /\ SinkSetup[2] = <<"power", 0>>
    /\ SinkSetup[3] = <<"rd", 1>> /\ SinkSetup[4] = <<"status0", 1>>
    /\ SinkSetup[5] = <<"rd", 2>> /\ SinkSetup[6] = <<"status0", 2>>
    /\ SinkSetup[7] = <<"sink", 0>>
<1> DEFINE start == <<<<"reset", 0>>, <<"power", 0>>>>
           probe == Probe("rd")
           end   == <<<<"sink", 0>>>>
           head  == start \o probe
<1>1. /\ start \in Seq(AccessOf) /\ Len(start) = 2
      /\ start[1] = <<"reset", 0>> /\ start[2] = <<"power", 0>>
  BY DEF AccessOf, Labels, Line
<1>2. end \in Seq(AccessOf) /\ Len(end) = 1 /\ end[1] = <<"sink", 0>>
  BY DEF AccessOf, Labels, Line
<1>3. probe \in Seq(AccessOf) /\ Len(probe) = 4
  BY ProbeIs
<1> HIDE DEF start, end, probe
<1>4. /\ head \in Seq(AccessOf) /\ Len(head) = 6
      /\ \A i \in 1..6 : head[i] = IF i <= 2 THEN start[i] ELSE probe[i - 2]
  <2>1. /\ head \in Seq(AccessOf) /\ Len(head) = Len(start) + Len(probe)
        /\ \A i \in 1..Len(start) + Len(probe) :
             head[i] = IF i <= Len(start) THEN start[i] ELSE probe[i - Len(start)]
    <3>1. start \in Seq(AccessOf) /\ probe \in Seq(AccessOf)
      BY <1>1, <1>3
    <3>2. QED
      BY <3>1, Joined
  <2>2. Len(start) + Len(probe) = 6
    BY <1>1, <1>3
  <2> HIDE DEF head
  <2>3. QED
    BY <1>1, <1>3, <2>1, <2>2
<1>5. SinkSetup = head \o end
  BY Zenon DEF SinkSetup, start, end, probe
<1> HIDE DEF head
<1>6. /\ SinkSetup \in Seq(AccessOf) /\ Len(SinkSetup) = 7
      /\ \A i \in 1..7 : SinkSetup[i] = IF i <= 6 THEN head[i] ELSE end[i - 6]
  <2>1. /\ SinkSetup \in Seq(AccessOf) /\ Len(SinkSetup) = Len(head) + Len(end)
        /\ \A i \in 1..Len(head) + Len(end) :
             SinkSetup[i] = IF i <= Len(head) THEN head[i] ELSE end[i - Len(head)]
    BY <1>2, <1>4, <1>5, Joined
  <2>2. Len(head) + Len(end) = 7
    BY <1>2, <1>4, <1>5
  <2>3. QED
    BY <1>2, <1>4, <1>5, <2>1, <2>2
<1>7. QED
  BY <1>1, <1>2, <1>4, <1>6, ProbeIs DEF probe

LEMMA LockSinkIs ==
    ASSUME NEW l \in Line
    PROVE  /\ LockSink(l) \in Seq(AccessOf) /\ Len(LockSink(l)) = 7
           /\ LockSink(l)[1] = <<"switches1", l>> /\ LockSink(l)[2] = <<"control0", 0>>
           /\ LockSink(l)[3] = <<"rx_flush", 0>> /\ LockSink(l)[4] = <<"open", 0>>
           /\ LockSink(l)[5] = <<"wait", 0>> /\ LockSink(l)[6] = <<"rd", l>>
           /\ LockSink(l)[7] = <<"ready", l>>
  BY DEF LockSink, AccessOf, Labels, Line

LEMMA LockSourceIs ==
    ASSUME NEW l \in Line
    PROVE  /\ LockSource(l) \in Seq(AccessOf) /\ Len(LockSource(l)) = 4
           /\ LockSource(l)[1] = <<"rp_only", l>>
           /\ LockSource(l)[2] = <<"switches1_source", l>>
           /\ LockSource(l)[3] = <<"rx_flush", 0>>
           /\ LockSource(l)[4] = <<"ready_source", l>>
  BY DEF LockSource, AccessOf, Labels, Line

LEMMA TxIs ==
    /\ Tx \in Seq(AccessOf) /\ Len(Tx) = 3
    /\ Tx[1] = <<"read_control0", 0>> /\ Tx[2] = <<"tx_flush", 0>>
    /\ Tx[3] = <<"fifo", 0>>
  BY DEF Tx, AccessOf, Labels, Line

LEMMA SourceSetupIs ==
    /\ SourceSetup \in Seq(AccessOf) /\ Len(SourceSetup) = 8
    /\ SourceSetup[1] = <<"reset", 0>> /\ SourceSetup[2] = <<"power", 0>>
    /\ SourceSetup[3] = <<"host_cur", 0>>
    /\ SourceSetup[4] = <<"rp", 1>> /\ SourceSetup[5] = <<"status0", 1>>
    /\ SourceSetup[6] = <<"rp", 2>> /\ SourceSetup[7] = <<"status0", 2>>
    /\ SourceSetup[8] = <<"source", 0>>
<1> DEFINE start == <<<<"reset", 0>>, <<"power", 0>>, <<"host_cur", 0>>>>
           probe == Probe("rp")
           end   == <<<<"source", 0>>>>
           head  == start \o probe
<1>1. /\ start \in Seq(AccessOf) /\ Len(start) = 3
      /\ start[1] = <<"reset", 0>> /\ start[2] = <<"power", 0>>
      /\ start[3] = <<"host_cur", 0>>
  BY DEF AccessOf, Labels, Line
<1>2. end \in Seq(AccessOf) /\ Len(end) = 1 /\ end[1] = <<"source", 0>>
  BY DEF AccessOf, Labels, Line
<1>3. probe \in Seq(AccessOf) /\ Len(probe) = 4
  BY ProbeIs
<1> HIDE DEF start, end, probe
<1>4. /\ head \in Seq(AccessOf) /\ Len(head) = 7
      /\ \A i \in 1..7 : head[i] = IF i <= 3 THEN start[i] ELSE probe[i - 3]
  <2>1. /\ head \in Seq(AccessOf) /\ Len(head) = Len(start) + Len(probe)
        /\ \A i \in 1..Len(start) + Len(probe) :
             head[i] = IF i <= Len(start) THEN start[i] ELSE probe[i - Len(start)]
    <3>1. start \in Seq(AccessOf) /\ probe \in Seq(AccessOf)
      BY <1>1, <1>3
    <3>2. QED
      BY <3>1, Joined
  <2>2. Len(start) + Len(probe) = 7
    BY <1>1, <1>3
  <2> HIDE DEF head
  <2>3. QED
    BY <1>1, <1>3, <2>1, <2>2
<1>5. SourceSetup = head \o end
  BY Zenon DEF SourceSetup, start, end, probe
<1> HIDE DEF head
<1>6. /\ SourceSetup \in Seq(AccessOf) /\ Len(SourceSetup) = 8
      /\ \A i \in 1..8 : SourceSetup[i] = IF i <= 7 THEN head[i] ELSE end[i - 7]
  <2>1. /\ SourceSetup \in Seq(AccessOf) /\ Len(SourceSetup) = Len(head) + Len(end)
        /\ \A i \in 1..Len(head) + Len(end) :
             SourceSetup[i] = IF i <= Len(head) THEN head[i] ELSE end[i - Len(head)]
    BY <1>2, <1>4, <1>5, Joined
  <2>2. Len(head) + Len(end) = 8
    BY <1>2, <1>4, <1>5
  <2>3. QED
    BY <1>2, <1>4, <1>5, <2>1, <2>2
<1>7. QED
  BY <1>1, <1>2, <1>4, <1>6, ProbeIs DEF probe

\* To probe again at the end of a probe is to go back to its first access.
LEMMA ProbedAgain == Probe("rp") \o Onward(SourceSetup, 8) = Onward(SourceSetup, 4)
<1> DEFINE end  == Onward(SourceSetup, 8)
           probe == Probe("rp")
           back == Onward(SourceSetup, 4)
           n == Len(SourceSetup)
<1>1. SourceSetup \in Seq(AccessOf) /\ n = 8
  BY SourceSetupIs
<1>2. end \in Seq(AccessOf) /\ Len(end) = 1 /\ end[1] = SourceSetup[8]
  <2>1. /\ end \in Seq(AccessOf) /\ Len(end) = n - 8 + 1
        /\ \A i \in 1..n - 8 + 1 : end[i] = SourceSetup[8 + i - 1]
    <3>1. SourceSetup \in Seq(AccessOf) /\ 8 \in 1..n + 1
      BY <1>1
    <3>2. QED
      BY <3>1, OnwardIs
  <2> HIDE DEF end, n
  <2>2. QED
    BY <1>1, <2>1
<1>3. /\ back \in Seq(AccessOf) /\ Len(back) = 5
      /\ \A i \in 1..5 : back[i] = SourceSetup[3 + i]
  <2>1. /\ back \in Seq(AccessOf) /\ Len(back) = n - 4 + 1
        /\ \A i \in 1..n - 4 + 1 : back[i] = SourceSetup[4 + i - 1]
    <3>1. SourceSetup \in Seq(AccessOf) /\ 4 \in 1..n + 1
      BY <1>1
    <3>2. QED
      BY <3>1, OnwardIs
  <2> HIDE DEF back, n
  <2>2. QED
    BY <1>1, <2>1
<1>4. probe \in Seq(AccessOf) /\ Len(probe) = 4
  BY ProbeIs
<1> HIDE DEF end, back, n, probe
<1> DEFINE again == probe \o end
<1>5. /\ again \in Seq(AccessOf) /\ Len(again) = 5
      /\ \A i \in 1..5 : again[i] = IF i <= 4 THEN probe[i] ELSE end[i - 4]
  <2>1. /\ again \in Seq(AccessOf) /\ Len(again) = Len(probe) + Len(end)
        /\ \A i \in 1..Len(probe) + Len(end) :
             again[i] = IF i <= Len(probe) THEN probe[i] ELSE end[i - Len(probe)]
    <3>1. probe \in Seq(AccessOf) /\ end \in Seq(AccessOf)
      BY <1>2, <1>4
    <3>2. QED
      BY <3>1, Joined
  <2>2. Len(probe) + Len(end) = 5
    BY <1>2, <1>4
  <2> HIDE DEF again
  <2>3. QED
    BY <1>2, <1>4, <2>1, <2>2
<1>6. \A i \in 1..5 : again[i] = back[i]
  <2> HIDE DEF again
  <2>1. /\ again[1] = probe[1] /\ again[2] = probe[2]
        /\ again[3] = probe[3] /\ again[4] = probe[4]
        /\ again[5] = end[1]
    BY <1>5
  <2>2. /\ back[1] = SourceSetup[4] /\ back[2] = SourceSetup[5]
        /\ back[3] = SourceSetup[6] /\ back[4] = SourceSetup[7]
        /\ back[5] = SourceSetup[8]
    BY <1>3
  <2>3. /\ probe[1] = SourceSetup[4] /\ probe[2] = SourceSetup[5]
        /\ probe[3] = SourceSetup[6] /\ probe[4] = SourceSetup[7]
    BY ProbeIs, SourceSetupIs DEF probe
  <2>4. again[1] = back[1] /\ again[2] = back[2] /\ again[3] = back[3]
        /\ again[4] = back[4] /\ again[5] = back[5]
    BY <1>2, <2>1, <2>2, <2>3
  <2>5. \A i \in 1..5 : i = 1 \/ i = 2 \/ i = 3 \/ i = 4 \/ i = 5
    OBVIOUS
  <2>6. QED
    BY <2>4, <2>5
<1>7. again = back
  <2> HIDE DEF again
  <2>1. QED
    BY <1>3, <1>5, <1>6, SeqEqual
<1>8. QED
  BY <1>7 DEF end, back, probe

LEMMA TalkIs ==
    ASSUME NEW a, a \in {<<"interrupta", 0>>, <<"poll", 0>>}
    PROVE  /\ <<a>> # <<>> /\ Head(<<a>>) = a /\ Tail(<<a>>) = <<>>
           /\ a \in AccessOf
  BY DEF AccessOf, Labels, Line

-----------------------------------------------------------------------------
(* Where a call stands.                                                    *)

LEMMA PlanStep ==
    ASSUME NEW plan \in Seq(AccessOf), NEW k \in 1..Len(plan), todo = Onward(plan, k)
    PROVE  /\ todo # <<>> /\ Head(todo) = plan[k] /\ Head(todo) \in AccessOf
           /\ Tail(todo) = Onward(plan, k + 1)
<1>1. plan[k] \in AccessOf
  OBVIOUS
<1>2. QED
  BY <1>1, OnwardStep, Zenon

\* What is next in each phase, and what is left then.
LEMMA SinkProbe ==
    ASSUME NEW k \in 1..7, todo = Onward(SinkSetup, k)
    PROVE  /\ todo # <<>> /\ Head(todo) = SinkSetup[k] /\ Head(todo) \in AccessOf
           /\ Tail(todo) = Onward(SinkSetup, k + 1)
<1>1. SinkSetup \in Seq(AccessOf) /\ k \in 1..Len(SinkSetup)
  BY SinkSetupIs
<1>2. QED
  BY <1>1, PlanStep, Zenon

LEMMA SinkLock ==
    ASSUME NEW l \in Line, NEW k \in 1..7, todo = Onward(LockSink(l), k)
    PROVE  /\ todo # <<>> /\ Head(todo) = LockSink(l)[k] /\ Head(todo) \in AccessOf
           /\ Tail(todo) = Onward(LockSink(l), k + 1)
<1>1. LockSink(l) \in Seq(AccessOf) /\ k \in 1..Len(LockSink(l))
  BY LockSinkIs
<1>2. QED
  BY <1>1, PlanStep, Zenon

LEMMA SourceProbe ==
    ASSUME NEW k \in 1..8, todo = Onward(SourceSetup, k)
    PROVE  /\ todo # <<>> /\ Head(todo) = SourceSetup[k] /\ Head(todo) \in AccessOf
           /\ Tail(todo) = Onward(SourceSetup, k + 1)
<1>1. SourceSetup \in Seq(AccessOf) /\ k \in 1..Len(SourceSetup)
  BY SourceSetupIs
<1>2. QED
  BY <1>1, PlanStep, Zenon

LEMMA SourceLock ==
    ASSUME NEW l \in Line, NEW k \in 1..4, todo = Onward(LockSource(l), k)
    PROVE  /\ todo # <<>> /\ Head(todo) = LockSource(l)[k] /\ Head(todo) \in AccessOf
           /\ Tail(todo) = Onward(LockSource(l), k + 1)
<1>1. LockSource(l) \in Seq(AccessOf) /\ k \in 1..Len(LockSource(l))
  BY LockSourceIs
<1>2. QED
  BY <1>1, PlanStep, Zenon

LEMMA Transmit ==
    ASSUME NEW k \in 1..3, todo = Onward(Tx, k)
    PROVE  /\ todo # <<>> /\ Head(todo) = Tx[k] /\ Head(todo) \in AccessOf
           /\ Tail(todo) = Onward(Tx, k + 1)
           /\ k = 3 => Tail(todo) = <<>>
<1>1. Tx \in Seq(AccessOf) /\ k \in 1..Len(Tx)
  BY TxIs
<1>2. /\ todo # <<>> /\ Head(todo) = Tx[k] /\ Head(todo) \in AccessOf
      /\ Tail(todo) = Onward(Tx, k + 1)
  BY <1>1, PlanStep, Zenon
<1>3. Onward(Tx, Len(Tx) + 1) = <<>>
  BY <1>1, OnwardEnds, Zenon
<1> DEFINE n == Len(Tx) + 1
<1>4. Onward(Tx, n) = <<>> /\ n = 4
  BY <1>3, TxIs
<1> HIDE DEF n
<1>5. QED
  BY <1>2, <1>4

LEMMA IdleTalks ==
    ASSUME Placed, todo = <<>>
    PROVE  Talking
  BY SinkProbe, SinkLock, SourceProbe, SourceLock
     DEF Placed, ProbingSink, LockingSink, ProbingSource, LockingSource

LEMMA NextIsAccess ==
    ASSUME Placed, todo # <<>>
    PROVE  Head(todo) \in AccessOf
<1>1. CASE Talking
  BY <1>1, Transmit, TalkIs DEF Talking
<1>2. CASE ~Talking
  BY <1>2, SinkProbe, SinkLock, SourceProbe, SourceLock
     DEF Placed, ProbingSink, LockingSink, ProbingSource, LockingSource
<1>3. QED
  BY <1>1, <1>2

-----------------------------------------------------------------------------
(* Types.                                                                   *)

LEMMA Afters ==
    ASSUME NEW l
    PROVE  /\ After(<<"reset", l>>) = Reset
           /\ After(<<"power", l>>) = [reg EXCEPT !.powered = TRUE]
           /\ After(<<"host_cur", l>>) = [reg EXCEPT !.hostCur = TRUE]
           /\ After(<<"control0", l>>) = [reg EXCEPT !.hostCur = FALSE]
           /\ After(<<"tx_flush", l>>) = [reg EXCEPT !.hostCur = c0]
           /\ After(<<"rd", l>>) = [reg EXCEPT !.rd = Line, !.rp = {}, !.meas = l]
           /\ After(<<"rp", l>>) = [reg EXCEPT !.rp = Line, !.rd = {}, !.meas = l]
           /\ After(<<"rp_only", l>>) = [reg EXCEPT !.rp = {l}, !.rd = {}, !.meas = l]
           /\ After(<<"open", l>>) = [reg EXCEPT !.rd = {}, !.rp = {}, !.meas = 0]
           /\ After(<<"switches1", l>>) =
                [reg EXCEPT !.txcc = l, !.autoCrc = TRUE, !.source = FALSE]
           /\ After(<<"switches1_source", l>>) =
                [reg EXCEPT !.txcc = l, !.autoCrc = TRUE, !.source = TRUE]
           /\ \A a \in {"status0", "read_control0", "fifo", "wait", "rx_flush",
                        "poll", "interrupta"} : After(<<a, l>>) = reg
  BY DEF After, HostCur

\* The registers stay what they are, whatever is written.
LEMMA RegisterFlags ==
    ASSUME NEW r \in Registers, NEW b \in BOOLEAN
    PROVE  /\ [r EXCEPT !.powered = b] \in Registers
           /\ [r EXCEPT !.hostCur = b] \in Registers
  BY DEF Registers

LEMMA RegisterSets ==
    ASSUME NEW r \in Registers, NEW b \in BOOLEAN, NEW c \in BOOLEAN,
           NEW x \in SUBSET Line, NEW y \in SUBSET Line, NEW m \in {0} \cup Line
    PROVE  /\ [r EXCEPT !.rd = x, !.rp = y, !.meas = m] \in Registers
           /\ [r EXCEPT !.rp = x, !.rd = y, !.meas = m] \in Registers
           /\ [r EXCEPT !.txcc = m, !.autoCrc = b, !.source = c] \in Registers
  BY DEF Registers

\* The registers stay what they are, whatever is written.
LEMMA RegistersStay ==
    ASSUME reg \in Registers, c0 \in BOOLEAN, NEW a \in AccessOf
    PROVE  After(a) \in Registers
<1> DEFINE w == a[1]
           l == a[2]
<1>1. /\ a = <<w, l>> /\ w \in Labels /\ l \in {0} \cup Line
      /\ w = "rp_only" => l \in Line
  BY DEF AccessOf, Line
<1> HIDE DEF w, l
<1>2. CASE w = "reset"
  <2>1. Reset \in Registers
    BY DEF Reset, Registers
  <2>2. QED
    BY <1>1, <1>2, <2>1, Afters
<1>3. CASE w \in {"power", "host_cur", "control0", "tx_flush"}
  <2>1. \A b \in BOOLEAN : /\ [reg EXCEPT !.powered = b] \in Registers
                           /\ [reg EXCEPT !.hostCur = b] \in Registers
    BY RegisterFlags, Zenon
  <2>2. \/ After(a) = [reg EXCEPT !.powered = TRUE]
        \/ \E b \in BOOLEAN : After(a) = [reg EXCEPT !.hostCur = b]
    <3>1. CASE w = "power"
      BY <1>1, <3>1, Afters
    <3>2. CASE w = "host_cur"
      BY <1>1, <3>2, Afters
    <3>3. CASE w = "control0"
      BY <1>1, <3>3, Afters
    <3>4. CASE w = "tx_flush"
      BY <1>1, <3>4, Afters
    <3>5. QED
      BY <1>3, <3>1, <3>2, <3>3, <3>4
  <2>3. [reg EXCEPT !.powered = TRUE] \in Registers
    BY <2>1
  <2>4. QED
    BY <2>1, <2>2, <2>3, Zenon
<1>4. CASE w \in {"rd", "rp", "open"}
  <2>1. {} \in SUBSET Line /\ Line \in SUBSET Line /\ 0 \in {0} \cup Line
    OBVIOUS
  <2>2. /\ [reg EXCEPT !.rd = Line, !.rp = {}, !.meas = l] \in Registers
        /\ [reg EXCEPT !.rp = Line, !.rd = {}, !.meas = l] \in Registers
        /\ [reg EXCEPT !.rd = {}, !.rp = {}, !.meas = 0] \in Registers
    BY <1>1, <2>1, RegisterSets, Zenon
  <2>3. QED
    BY <1>1, <1>4, <2>2, Afters, Zenon
<1>5. CASE w = "rp_only"
  <2>1. {} \in SUBSET Line /\ {l} \in SUBSET Line
    BY <1>1, <1>5
  <2>2. [reg EXCEPT !.rp = {l}, !.rd = {}, !.meas = l] \in Registers
    BY <1>1, <2>1, RegisterSets, Zenon
  <2>3. QED
    BY <1>1, <1>5, <2>2, Afters, Zenon
<1>6. CASE w \in {"switches1", "switches1_source"}
  <2>1. /\ [reg EXCEPT !.txcc = l, !.autoCrc = TRUE, !.source = FALSE] \in Registers
        /\ [reg EXCEPT !.txcc = l, !.autoCrc = TRUE, !.source = TRUE] \in Registers
    BY <1>1, RegisterSets
  <2>2. QED
    BY <1>1, <1>6, <2>1, Afters, Zenon
<1>7. CASE w \in {"status0", "read_control0", "fifo", "wait", "rx_flush", "poll",
                  "interrupta"}
  BY <1>1, <1>7, Afters, Zenon
<1>8. CASE w \in {"sink", "source", "ready", "ready_source"}
  BY <1>1, <1>8 DEF After
<1>9. QED
  BY <1>1, <1>2, <1>3, <1>4, <1>5, <1>6, <1>7, <1>8 DEF Labels

LEMMA TypedInitially == Init => Typed
<1> SUFFICES ASSUME Init PROVE Typed
  OBVIOUS
<1>1. reg \in Registers
  BY DEF Init, Reset, Registers
<1>2. /\ rx \in Seq({"fresh", "old"}) /\ burst \in 0..Burst
      /\ levels \in [Line -> {0, 1}]
  BY PhyAssumption DEF Init
<1>3. partner \in Partner
  BY DEF Init
<1>4. /\ attached \in BOOLEAN /\ arrived \in BOOLEAN /\ seen \in BOOLEAN
      /\ c0 \in BOOLEAN /\ disturbed \in BOOLEAN
  BY Zenon DEF Init
<1>5. QED
  BY <1>1, <1>2, <1>3, <1>4 DEF Typed

\* What an access may do to what is typed.
LEMMA EffectTyped ==
    ASSUME Typed, NEW a \in AccessOf, Effect(a)
    PROVE  /\ reg' \in Registers
           /\ rx' \in Seq({"fresh", "old"})
           /\ arrived' \in BOOLEAN /\ seen' \in BOOLEAN
<1>1. reg' \in Registers
  BY RegistersStay DEF Typed, Effect
<1>2. rx' \in Seq({"fresh", "old"})
  BY DEF Typed, Effect
<1>3. arrived' \in BOOLEAN /\ seen' \in BOOLEAN
  BY Zenon DEF Typed, Effect
<1>4. QED
  BY <1>1, <1>2, <1>3

LEMMA TypedInductive == Typed /\ Placed /\ [Next]_vars => Typed'
<1> SUFFICES ASSUME Typed, Placed, [Next]_vars
             PROVE  Typed'
  OBVIOUS
<1> USE PhyAssumption DEF PhyAssumption
<1>1. CASE Change
  <2>1. attached' = FALSE /\ disturbed' = TRUE /\ burst' = 0 /\ partner' \in Partner
    BY <1>1 DEF Change
  <2>2. UNCHANGED <<reg, rx, arrived, seen, levels, c0>>
    BY <1>1 DEF Change, chip, world, program
  <2>3. burst' \in 0..Burst
    BY <2>1
  <2>4. attached' \in BOOLEAN /\ disturbed' \in BOOLEAN
    BY <2>1, Zenon
  <2>5. QED
    BY <2>1, <2>2, <2>3, <2>4, Zenon DEF Typed
<1>2. CASE Shows
  <2>1. partner' \in Partner
    <3>1. partner \in [kind : {"source", "sink"}, line : Line, shown : BOOLEAN,
                       marked : BOOLEAN]
      BY <1>2 DEF Shows, Typed, Partner, Nothing
    <3>2. [partner EXCEPT !.shown = TRUE] \in
             [kind : {"source", "sink"}, line : Line, shown : BOOLEAN, marked : BOOLEAN]
      BY <3>1
    <3>3. QED
      BY <1>2, <3>2 DEF Shows, Partner
  <2>2. QED
    BY <1>2, <2>1 DEF Shows, Typed, chip, world, program, hist
<1>3. CASE Attaches
  <2>1. rx' \in Seq({"fresh", "old"})
    BY <1>3 DEF Attaches, Typed
  <2>2. burst' \in 0..Burst
    BY <1>3 DEF Attaches
  <2>3. QED
    <3>1. attached' \in BOOLEAN /\ seen' \in BOOLEAN
      BY <1>3, Zenon DEF Attaches
    <3>2. UNCHANGED <<reg, partner, arrived, levels, c0, disturbed>>
      BY <1>3 DEF Attaches, world, program
    <3>3. QED
      BY <2>1, <2>2, <3>1, <3>2, Zenon DEF Typed
<1>4. CASE Detaches
  <2>1. attached' \in BOOLEAN /\ burst' \in 0..Burst
    <3>1. attached' = FALSE /\ burst' = 0
      BY <1>4, Zenon DEF Detaches
    <3>2. burst' \in 0..Burst
      BY <3>1
    <3>3. QED
      BY <3>1, <3>2, Zenon
  <2>2. UNCHANGED <<reg, rx, partner, arrived, seen, levels, c0,
                    disturbed>>
    BY <1>4 DEF Detaches, chip, world, program, hist
  <2>3. QED
    BY <2>1, <2>2, Zenon DEF Typed
<1>5. CASE SendsCaps
  BY <1>5 DEF SendsCaps, Typed, program, hist
<1>6. CASE Transmitted
  BY <1>6 DEF Transmitted, Typed, far, program
<1>7. CASE Setup
  BY <1>7 DEF Setup, Call, Typed, chip, far, world
<1>8. CASE Client
  BY <1>8 DEF Client, Call, Typed, chip, far, world
<1>9. CASE Access
  <2> DEFINE a == Head(todo)
  <2>1. /\ Effect(a) /\ a \in AccessOf
        /\ levels' = IF a[1] = "status0" THEN [levels EXCEPT ![a[2]] = Level] ELSE levels
        /\ c0' = IF a[1] = "read_control0" THEN reg.hostCur ELSE c0
        /\ UNCHANGED <<far, disturbed>>
    BY <1>9, NextIsAccess DEF Access
  <2> HIDE DEF a
  <2>2. levels' \in [Line -> {0, 1}]
    BY <2>1 DEF Typed, Level
  <2>3. c0' \in BOOLEAN
    BY <2>1, Zenon DEF Typed, Registers
  <2>4. QED
    BY <2>1, <2>2, <2>3, EffectTyped DEF Typed, far
<1>10. CASE AccessFails
  <2> DEFINE a == Head(todo)
  <2>1. /\ a \in AccessOf
        /\ \/ Effect(a)
           \/ arrived' = FALSE /\ UNCHANGED <<chip, pending, seen>>
        /\ UNCHANGED <<far, levels, c0, disturbed>>
    BY <1>10, NextIsAccess DEF AccessFails
  <2> HIDE DEF a
  <2>2. CASE Effect(a)
    BY <2>1, <2>2, EffectTyped DEF Typed, far
  <2>3. CASE arrived' = FALSE /\ UNCHANGED <<chip, pending, seen>>
    BY <2>1, <2>3 DEF Typed, far, chip
  <2>4. QED
    BY <2>1, <2>2, <2>3
<1>11. CASE Decide
  BY <1>11 DEF Decide, Typed, chip, far, world, hist
<1>12. CASE UNCHANGED vars
  BY <1>12 DEF vars, Typed, chip, far, world, program, hist
<1>13. QED
  BY <1>1, <1>2, <1>3, <1>4, <1>5, <1>6, <1>7, <1>8, <1>9, <1>10, <1>11, <1>12
     DEF Next

-----------------------------------------------------------------------------
(* Steps of the partner and the cable.                                     *)

SameCable ==
    \/ disturbed' = TRUE
    \/ /\ UNCHANGED disturbed
       /\ partner'.line = partner.line /\ partner'.kind = partner.kind
       /\ partner'.marked = partner.marked

LEMMA FoundStays ==
    ASSUME NEW role, NEW l, Found(role, l), SameCable
    PROVE  Found(role, l)'
  BY DEF Found, Undisturbed, SameCable, Other

LEMMA ToldStays ==
    ASSUME NEW role, NEW l, Tells(role, l), SameCable, UNCHANGED levels
    PROVE  Tells(role, l)'
  BY FoundStays DEF Tells

LEMMA LockedStays ==
    ASSUME NEW role, NEW l, Locked(role, l), SameCable, UNCHANGED reg
    PROVE  Locked(role, l)'
  BY FoundStays DEF Locked

LEMMA WorldKeeps ==
    ASSUME Placed, SameCable, UNCHANGED <<reg, todo, levels, c0, cc, ready>>,
           \A l \in Line, k \in 1..7 : LockingSink(l, k) => Quiet(k)',
           ready = "sink" /\ cc \in Line /\ Locked("sink", cc) /\ Fresh => Fresh'
    PROVE  Placed'
<1>1. CASE Talking
  <2>1. \/ ready' = "none"
        \/ ready' = "sink" /\ cc' \in Line /\ Locked("sink", cc)' /\ Fresh'
        \/ ready' = "source" /\ cc' \in Line /\ Locked("source", cc)'
    BY <1>1, LockedStays DEF Talking
  <2>2. \/ todo' \in {<<>>, <<<<"interrupta", 0>>>>, <<<<"poll", 0>>>>}
        \/ \E k \in 1..3 : todo' = Onward(Tx, k) /\ (k = 2 => c0' = reg'.hostCur)
    BY <1>1, Zenon DEF Talking
  <2>3. Talking'
    BY <2>1, <2>2, Zenon DEF Talking
  <2>4. QED
    BY <2>3, Zenon DEF Placed
<1>2. ASSUME NEW k \in 1..7, ProbingSink(k)
      PROVE  Placed'
  <2>1. ProbingSink(k)'
    BY <1>2, ToldStays DEF ProbingSink
  <2>2. QED
    BY <2>1, Zenon DEF Placed
<1>3. ASSUME NEW l \in Line, NEW k \in 1..7, LockingSink(l, k)
      PROVE  Placed'
  <2>1. Found("sink", l)' /\ Quiet(k)'
    BY <1>3, FoundStays, Zenon DEF LockingSink
  <2>2. LockingSink(l, k)'
    BY <1>3, <2>1 DEF LockingSink
  <2>3. QED
    BY <2>2, Zenon DEF Placed
<1>4. ASSUME NEW k \in 1..8, ProbingSource(k)
      PROVE  Placed'
  <2>1. ProbingSource(k)'
    BY <1>4, ToldStays DEF ProbingSource
  <2>2. QED
    BY <2>1, Zenon DEF Placed
<1>5. ASSUME NEW l \in Line, NEW k \in 1..4, LockingSource(l, k)
      PROVE  Placed'
  <2>1. LockingSource(l, k)'
    BY <1>5, FoundStays DEF LockingSource
  <2>2. QED
    BY <2>1, Zenon DEF Placed
<1>6. QED
  BY <1>1, <1>2, <1>3, <1>4, <1>5, Zenon DEF Placed

LEMMA FoundLine ==
    ASSUME Typed, Placed
    PROVE  partner.line \in Line
  BY DEF Typed, Partner, Nothing, Line

LEMMA WorldPlaced ==
    ASSUME Typed, Placed,
           Change \/ Shows \/ Attaches \/ Detaches \/ SendsCaps \/ Transmitted
    PROVE  Placed'
<1>1. UNCHANGED <<reg, todo, levels, c0, cc, ready>>
  BY DEF Change, Shows, Attaches, Detaches, SendsCaps, Transmitted, chip, far,
         world, program, hist
<1>2. SameCable
  BY DEF SameCable, Change, Shows, Attaches, Detaches, SendsCaps, Transmitted,
         far, hist, Typed, Partner, Nothing
(* What is in the FIFO, in the two places that speak of it.                *)
<1>3. ASSUME reg.rd = Line, ~disturbed => partner.kind = "source",
             ~disturbed => Hears, Fresh
      PROVE  Fresh'
  <2>1. CASE Change
    BY <2>1 DEF Change, Fresh
  <2>2. CASE Shows \/ Transmitted
    BY <1>3, <2>2 DEF Shows, Transmitted, Fresh, chip, far, world, hist
  <2>3. CASE Attaches
    <3>1. Len(rx') = Len(rx) /\ ~attached /\ UNCHANGED disturbed
      BY <2>3 DEF Attaches, Typed
    <3>2. CASE ~disturbed
      <4>1. burst' = Burst /\ Len(rx) <= 1
        BY <1>3, <2>3, <3>1, <3>2 DEF Attaches, Fresh
      <4>2. ~(burst' < Burst)
        BY <4>1, PhyAssumption
      <4>3. QED
        BY <3>1, <4>1, <4>2 DEF Fresh
    <3>3. QED
      BY <3>1, <3>2 DEF Fresh
  <2>4. CASE Detaches
    <3>1. disturbed /\ disturbed'
      BY <1>3, <2>4, FoundLine DEF Detaches, Terminated, hist
    <3>2. QED
      BY <3>1 DEF Fresh
  <2>5. CASE SendsCaps
    <3>1. CASE ~disturbed
      <4>1. /\ rx' = IF Len(rx) < Capacity THEN Append(rx, "fresh") ELSE rx
            /\ attached /\ UNCHANGED <<attached, seen, disturbed>>
            /\ burst' = burst - 1 /\ burst \in 0..Burst
            /\ rx \in Seq({"fresh", "old"})
        BY <1>3, <2>5, <3>1 DEF SendsCaps, hist, Typed
      <4>2. CASE Len(rx) < Capacity
        <5>1. \E i \in 1..Len(rx') : rx'[i] = "fresh"
          <6>1. rx' = Append(rx, "fresh") /\ rx \in Seq({"fresh", "old"})
            BY <4>1, <4>2
          <6>2. /\ Len(rx') = Len(rx) + 1 /\ rx'[Len(rx) + 1] = "fresh"
                /\ Len(rx) + 1 \in 1..Len(rx')
            BY <6>1
          <6>3. QED
            BY <6>2
        <5>2. burst' < Burst
          BY <4>1, PhyAssumption
        <5>3. QED
          BY <4>1, <5>1, <5>2 DEF Fresh
      <4>3. CASE ~(Len(rx) < Capacity)
        <5>1. ~(Len(rx) <= 1)
          BY <4>1, <4>3, PhyAssumption
        <5>2. burst < Burst /\ (seen \/ \E i \in 1..Len(rx) : rx[i] = "fresh")
          BY <1>3, <3>1, <4>1, <5>1 DEF Fresh
        <5>3. QED
          BY <4>1, <4>3, <5>2, PhyAssumption DEF Fresh
      <4>4. QED
        BY <4>2, <4>3
    <3>2. QED
      BY <2>5, <3>1 DEF SendsCaps, Fresh, hist
  <2>6. QED
    BY <2>1, <2>2, <2>3, <2>4, <2>5
<1>4. ASSUME NEW l \in Line, NEW k \in 1..7, LockingSink(l, k)
      PROVE  Quiet(k)'
  <2>1. CASE k = 4
    <3>1. Len(rx) <= 1 /\ (rx # <<>> => arrived) /\ rx \in Seq({"fresh", "old"})
      BY <1>4, <2>1 DEF LockingSink, Quiet, Typed
    <3>2. Len(rx') <= 1 /\ (rx' # <<>> => arrived')
      <4>1. CASE Attaches
        BY <3>1, <4>1 DEF Attaches, world
      <4>2. CASE SendsCaps
        BY <3>1, <4>2 DEF SendsCaps
      <4>3. CASE ~Attaches /\ ~SendsCaps
        BY <3>1, <4>3 DEF Change, Shows, Detaches, Transmitted, chip, world
      <4>4. QED
        BY <4>1, <4>2, <4>3
    <3>3. QED
      BY <2>1, <3>2 DEF Quiet
  <2>2. CASE k \in {5, 6}
    <3>1. /\ reg.rd = {} /\ reg.rp = {} /\ reg.meas = 0 /\ Len(rx) <= 1
          /\ k = 6 => ~attached
          /\ rx \in Seq({"fresh", "old"})
      BY <1>4, <2>2 DEF LockingSink, Quiet, Typed
    <3>2. ~Terminated /\ ~Hears
      BY <3>1, FoundLine DEF Terminated, Hears, Line
    <3>3. Len(rx') <= 1 /\ (k = 6 => ~attached')
      BY <3>1, <3>2 DEF Change, Shows, Attaches, Detaches, SendsCaps, Transmitted,
                        chip, far
    <3>4. QED
      BY <2>2, <3>3 DEF Quiet
  <2>3. CASE k = 7
    <3>1. /\ reg.rd = Line /\ reg.powered /\ reg.autoCrc
          /\ reg.txcc = l /\ reg.meas = l /\ Found("sink", l) /\ Fresh
      BY <1>4, <2>3 DEF LockingSink, Quiet
    <3>2. /\ ~disturbed => partner.kind = "source"
          /\ ~disturbed => Hears
      BY <3>1 DEF Found, Undisturbed, Other, Hears
    <3>3. Fresh'
      BY <1>3, <3>1, <3>2
    <3>4. QED
      BY <2>3, <3>3 DEF Quiet
  <2>4. CASE k \in 1..3
    BY <2>4 DEF Quiet
  <2>5. QED
    BY <2>1, <2>2, <2>3, <2>4
<1>5. ASSUME ready = "sink", cc \in Line, Locked("sink", cc), Fresh
      PROVE  Fresh'
  <2>1. /\ reg.rd = Line
        /\ ~disturbed => partner.kind = "source"
        /\ ~disturbed => Hears
    BY <1>5 DEF Locked, Found, Undisturbed, Other, Hears
  <2>2. QED
    BY <1>3, <1>5, <2>1
<1>6. QED
  BY <1>1, <1>2, <1>4, <1>5, WorldKeeps

-----------------------------------------------------------------------------
(* Steps of the program.                                                   *)

LEMMA SetupPlaced ==
    ASSUME Placed, Setup
    PROVE  Placed'
<1>1. ready' = "none"
  BY DEF Setup
<1>2. CASE todo' = SinkSetup
  <2>1. todo' = Onward(SinkSetup, 1)
    BY <1>2, OnwardEnds, SinkSetupIs
  <2>2. ProbingSink(1)'
    BY <1>1, <2>1 DEF ProbingSink
  <2>3. QED
    BY <2>2 DEF Placed
<1>3. CASE todo' = SourceSetup
  <2>1. todo' = Onward(SourceSetup, 1)
    BY <1>3, OnwardEnds, SourceSetupIs
  <2>2. ProbingSource(1)'
    BY <1>1, <2>1 DEF ProbingSource
  <2>3. QED
    BY <2>2 DEF Placed
<1>4. QED
  BY <1>2, <1>3 DEF Setup, Call

LEMMA ClientPlaced ==
    ASSUME Placed, Client
    PROVE  Placed'
<1>1. todo = <<>> /\ Talking
  BY IdleTalks DEF Client, Call
<1>2. UNCHANGED <<reg, rx, attached, burst, seen, partner, disturbed, cc, ready>>
  BY DEF Client, Call, chip, far
<1>3. \/ ready' = "none"
      \/ ready' = "sink" /\ cc' \in Line /\ Locked("sink", cc)' /\ Fresh'
      \/ ready' = "source" /\ cc' \in Line /\ Locked("source", cc)'
  BY <1>1, <1>2 DEF Talking, Locked, Fresh, Found, Undisturbed
<1>4. \/ todo' \in {<<>>, <<<<"interrupta", 0>>>>, <<<<"poll", 0>>>>}
      \/ \E k \in 1..3 : todo' = Onward(Tx, k) /\ (k = 2 => c0' = reg'.hostCur)
  <2>1. CASE todo' = Tx
    <3>1. todo' = Onward(Tx, 1)
      BY <2>1, OnwardEnds, TxIs
    <3>2. QED
      BY <3>1
  <2>2. CASE todo' \in {<<<<"interrupta", 0>>>>, <<<<"poll", 0>>>>}
    BY <2>2
  <2>3. QED
    BY <2>1, <2>2 DEF Client, Call
<1>5. QED
  BY <1>3, <1>4, Zenon DEF Placed, Talking

\* While the program talks to the partner, an access changes no register but
\* HOST_CUR, and that to what it was.
LEMMA TalkKeeps ==
    ASSUME Typed, Typed', NEW a,
           a \in {<<"read_control0", 0>>, <<"tx_flush", 0>>, <<"fifo", 0>>,
                  <<"interrupta", 0>>, <<"poll", 0>>},
           a = <<"tx_flush", 0>> => c0 = reg.hostCur,
           \/ Effect(a)
           \/ UNCHANGED <<chip, seen>>,
           UNCHANGED <<far, disturbed, cc, ready>>
    PROVE  /\ UNCHANGED reg
           /\ \A l, role : Locked(role, l) => Locked(role, l)'
           /\ Fresh => Fresh'
<1>1. UNCHANGED reg
  <2>1. CASE Effect(a) /\ a = <<"tx_flush", 0>>
    <3>1. reg' = [reg EXCEPT !.hostCur = c0] /\ c0 = reg.hostCur
      BY <2>1, Afters DEF Effect
    <3>2. \A r \in Registers : [r EXCEPT !.hostCur = r.hostCur] = r
      BY DEF Registers
    <3>3. QED
      BY <3>1, <3>2, Zenon DEF Typed
  <2>2. CASE Effect(a) /\ a # <<"tx_flush", 0>>
    <3>1. PICK w \in {"read_control0", "fifo", "interrupta", "poll"} : a = <<w, 0>>
      BY <2>2
    <3>2. After(a) = reg
      BY <3>1, Afters
    <3>3. QED
      BY <2>2, <3>2 DEF Effect
  <2>3. QED
    BY <2>1, <2>2 DEF chip
<1>2. \A l, role : Locked(role, l) => Locked(role, l)'
  <2>1. UNCHANGED <<reg, partner, disturbed>>
    BY <1>1 DEF far
  <2>2. QED
    BY <2>1 DEF Locked, Found, Undisturbed
<1>3. Fresh => Fresh'
  <2>1. UNCHANGED <<attached, burst, disturbed>>
    BY DEF far
  <2>2. CASE UNCHANGED rx
    <3>1. seen => seen'
      BY DEF Effect
    <3>2. QED
      BY <2>1, <2>2, <3>1 DEF Fresh
  <2>3. CASE ~UNCHANGED rx
    <3>1. /\ rx # <<>> /\ rx' = Tail(rx) /\ rx \in Seq({"fresh", "old"})
          /\ seen' = (seen \/ Head(rx) = "fresh")
      BY <2>3 DEF Effect, chip, Typed
    <3>2. /\ Len(rx') = Len(rx) - 1 /\ Len(rx) \in Nat \ {0} /\ Head(rx) = rx[1]
          /\ \A i \in 1..Len(rx) - 1 : rx'[i] = rx[i + 1]
      BY <3>1
    <3>3. ASSUME NEW i \in 1..Len(rx), rx[i] = "fresh"
          PROVE  seen' \/ \E j \in 1..Len(rx') : rx'[j] = "fresh"
      <4>1. CASE i = 1
        BY <3>1, <3>2, <3>3, <4>1
      <4>2. CASE i # 1
        <5>1. i - 1 \in 1..Len(rx') /\ rx'[i - 1] = rx[i]
          BY <3>2, <4>2
        <5>2. QED
          BY <3>3, <5>1
      <4>3. QED
        BY <4>1, <4>2
    <3>4. Len(rx) <= 1 => Len(rx') <= 1
      BY <3>2
    <3>5. seen \/ (\E i \in 1..Len(rx) : rx[i] = "fresh")
             => seen' \/ (\E j \in 1..Len(rx') : rx'[j] = "fresh")
      <4>1. seen => seen'
        BY <3>1, Zenon
      <4>2. QED
        BY <3>3, <4>1, Zenon
    <3> DEFINE had == seen \/ \E i \in 1..Len(rx) : rx[i] = "fresh"
               few == Len(rx) <= 1
    <3>6. Fresh => disturbed \/ (IF attached /\ burst < Burst THEN had ELSE few)
      BY Zenon DEF Fresh
    <3>7. disturbed' \/ (IF attached' /\ burst' < Burst THEN had' ELSE few') => Fresh'
      BY Zenon DEF Fresh
    <3>8. (had => had') /\ (few => few')
      BY <3>4, <3>5, Zenon
    <3> HIDE DEF had, few
    <3>9. QED
      BY <2>1, <3>6, <3>7, <3>8
  <2>4. QED
    BY <2>2, <2>3
<1>4. QED
  BY <1>1, <1>2, <1>3

\* What a talking program does next.
LEMMA TalkNext ==
    ASSUME Talking, todo # <<>>
    PROVE  /\ Head(todo) \in {<<"read_control0", 0>>, <<"tx_flush", 0>>, <<"fifo", 0>>,
                              <<"interrupta", 0>>, <<"poll", 0>>}
           /\ Head(todo) = <<"tx_flush", 0>> => c0 = reg.hostCur
           /\ \/ Tail(todo) = <<>>
              \/ \E k \in 2..3 : /\ Tail(todo) = Onward(Tx, k)
                                 /\ k = 2 => Head(todo)[1] = "read_control0"
<1>1. CASE todo \in {<<<<"interrupta", 0>>>>, <<<<"poll", 0>>>>}
  <2>1. PICK a \in {<<"interrupta", 0>>, <<"poll", 0>>} : todo = <<a>>
    BY <1>1
  <2>2. Head(todo) = a /\ Tail(todo) = <<>>
    BY <2>1, TalkIs, Zenon
  <2>3. a # <<"tx_flush", 0>>
    OBVIOUS
  <2>4. QED
    BY <2>2, <2>3
<1>2. ASSUME NEW k \in 1..3, todo = Onward(Tx, k), k = 2 => c0 = reg.hostCur
      PROVE  /\ Head(todo) \in {<<"read_control0", 0>>, <<"tx_flush", 0>>,
                                <<"fifo", 0>>}
             /\ Head(todo) = <<"tx_flush", 0>> => c0 = reg.hostCur
             /\ \/ Tail(todo) = <<>>
                \/ \E j \in 2..3 : /\ Tail(todo) = Onward(Tx, j)
                                   /\ j = 2 => Head(todo)[1] = "read_control0"
  <2>1. /\ Head(todo) = Tx[k] /\ Tail(todo) = Onward(Tx, k + 1)
        /\ k = 3 => Tail(todo) = <<>>
    BY <1>2, Transmit
  <2>2. CASE k = 1
    <3>1. Head(todo) = <<"read_control0", 0>> /\ Tail(todo) = Onward(Tx, 2)
      BY <2>1, <2>2, TxIs
    <3>2. QED
      BY <3>1
  <2>3. CASE k = 2
    <3>1. Head(todo) = <<"tx_flush", 0>> /\ Tail(todo) = Onward(Tx, 3)
      BY <2>1, <2>3, TxIs
    <3>2. QED
      BY <1>2, <2>3, <3>1
  <2>4. CASE k = 3
    BY <2>1, <2>4, TxIs
  <2>5. QED
    BY <2>2, <2>3, <2>4
<1>3. QED
  BY <1>1, <1>2 DEF Talking

LEMMA TalkAccess ==
    ASSUME Typed, Typed', Talking, Access
    PROVE  Placed'
<1> DEFINE a == Head(todo)
<1>1. /\ todo # <<>> /\ Effect(a) /\ todo' = Tail(todo)
      /\ UNCHANGED <<far, disturbed, cc, ready>>
      /\ c0' = IF a[1] = "read_control0" THEN reg.hostCur ELSE c0
  BY DEF Access
<1>2. /\ UNCHANGED reg
      /\ \A l, role : Locked(role, l) => Locked(role, l)'
      /\ Fresh => Fresh'
  BY <1>1, TalkNext, TalkKeeps
<1>3. \/ ready' = "none"
      \/ ready' = "sink" /\ cc' \in Line /\ Locked("sink", cc)' /\ Fresh'
      \/ ready' = "source" /\ cc' \in Line /\ Locked("source", cc)'
  <2>1. \A role : Locked(role, cc) => Locked(role, cc)'
    BY <1>1, <1>2 DEF Locked
  <2>2. QED
    BY <1>1, <1>2, <2>1 DEF Talking
<1>4. \/ todo' \in {<<>>, <<<<"interrupta", 0>>>>, <<<<"poll", 0>>>>}
      \/ \E k \in 1..3 : todo' = Onward(Tx, k) /\ (k = 2 => c0' = reg'.hostCur)
  BY <1>1, <1>2, TalkNext
<1>5. QED
  BY <1>3, <1>4, Zenon DEF Placed, Talking

\* Looking for a source.
LEMMA ProbingSinkAccess ==
    ASSUME Typed, Typed', Access, NEW k \in 1..7, ProbingSink(k)
    PROVE  Placed'
<1> DEFINE a == Head(todo)
<1>1. /\ a[1] \notin Decisions
      /\ reg' = After(a) /\ todo' = Tail(todo)
      /\ levels' = IF a[1] = "status0" THEN [levels EXCEPT ![a[2]] = Level] ELSE levels
      /\ UNCHANGED <<partner, disturbed, ready>>
  BY DEF Access, Effect, far
<1>2. a = SinkSetup[k] /\ todo' = Onward(SinkSetup, k + 1) /\ ready' = "none"
  BY <1>1, SinkProbe DEF ProbingSink
<1>3. k # 7
  BY <1>1, <1>2, SinkSetupIs DEF Decisions
(* A line that is pulled is pulled by the source.                          *)
<1>4. ASSUME reg.rp = {}, Level # 0, ~disturbed
      PROVE  partner.line = reg.meas /\ partner.kind = "source"
  BY <1>4 DEF Level, Pulled, Terminated, Typed, Partner, Nothing
<1> HIDE DEF a
<1> SUFFICES ProbingSink(k + 1)'
  BY <1>3 DEF Placed
<1> USE DEF ProbingSink, Tells, Found, Undisturbed, Other
<1>5. CASE k = 1
  BY <1>2, <1>5
<1>6. CASE k = 2
  <2>1. a = <<"power", 0>>
    BY <1>2, <1>6, SinkSetupIs
  <2>2. reg' = [reg EXCEPT !.powered = TRUE]
    BY <1>1, <2>1, Afters, Zenon
  <2>3. QED
    BY <1>2, <1>6, <2>2 DEF Typed, Registers
<1>7. CASE k = 3
  <2>1. a = <<"rd", 1>>
    BY <1>2, <1>7, SinkSetupIs
  <2>2. reg' = [reg EXCEPT !.rd = Line, !.rp = {}, !.meas = 1]
    BY <1>1, <2>1, Afters, Zenon
  <2>3. QED
    BY <1>2, <1>7, <2>2 DEF Typed, Registers
<1>8. CASE k = 4
  <2>1. a = <<"status0", 1>>
    BY <1>2, <1>8, SinkSetupIs
  <2>2. reg' = reg
    BY <1>1, <2>1, Afters, Zenon
  <2>3. levels' = [levels EXCEPT ![1] = Level]
    BY <1>1, <2>1
  <2>4. levels'[1] # 0 /\ ~disturbed' => partner'.line = 1 /\ partner'.kind = "source"
    BY <1>1, <1>4, <1>8, <2>3 DEF Typed, Line
  <2>5. QED
    BY <1>2, <1>8, <2>2, <2>4
<1>9. CASE k = 5
  <2>1. a = <<"rd", 2>>
    BY <1>2, <1>9, SinkSetupIs
  <2>2. reg' = [reg EXCEPT !.rd = Line, !.rp = {}, !.meas = 2]
    BY <1>1, <2>1, Afters, Zenon
  <2>3. UNCHANGED <<levels, partner, disturbed>>
    BY <1>1, <2>1
  <2>4. reg'.rd = Line /\ reg'.rp = {} /\ reg'.meas = 2 /\ reg'.powered = reg.powered
    BY <2>2 DEF Typed, Registers
  <2>5. QED
    BY <1>2, <1>9, <2>3, <2>4
<1>10. CASE k = 6
  <2>1. a = <<"status0", 2>>
    BY <1>2, <1>10, SinkSetupIs
  <2>2. reg' = reg
    BY <1>1, <2>1, Afters, Zenon
  <2>3. levels' = [levels EXCEPT ![2] = Level]
    BY <1>1, <2>1
  <2>4. levels'[2] # 0 /\ ~disturbed' => partner'.line = 2 /\ partner'.kind = "source"
    BY <1>1, <1>4, <1>10, <2>3 DEF Typed, Line
  <2>5. levels'[1] = levels[1]
    BY <2>3 DEF Typed, Line
  <2>6. QED
    BY <1>1, <1>2, <1>10, <2>2, <2>4, <2>5
<1>11. QED
  BY <1>3, <1>5, <1>6, <1>7, <1>8, <1>9, <1>10

\* Locking on to its line.
LEMMA LockingSinkAccess ==
    ASSUME Typed, Typed', Access, NEW l \in Line, NEW k \in 1..7, LockingSink(l, k)
    PROVE  Placed'
<1> DEFINE a == Head(todo)
<1>1. /\ a[1] \notin Decisions /\ InTime(a)
      /\ reg' = After(a) /\ todo' = Tail(todo)
      /\ rx' = IF a[1] \in {"reset", "rx_flush"} THEN <<>>
               ELSE IF a[1] = "poll" /\ rx # <<>> THEN Tail(rx) ELSE rx
      /\ UNCHANGED <<partner, attached, disturbed, ready>>
  BY DEF Access, Effect, far
<1>2. a = LockSink(l)[k] /\ todo' = Onward(LockSink(l), k + 1) /\ ready' = "none"
  BY <1>1, SinkLock DEF LockingSink
<1>3. k # 7
  BY <1>1, <1>2, LockSinkIs DEF Decisions
<1>4. reg.powered /\ Found("sink", l)'
  BY <1>1 DEF LockingSink, Found, Undisturbed
<1> HIDE DEF a
<1> SUFFICES LockingSink(l, k + 1)'
  BY <1>3 DEF Placed
<1> USE DEF LockingSink, Quiet
<1>5. CASE k = 1
  <2>1. a = <<"switches1", l>>
    BY <1>2, <1>5, LockSinkIs
  <2>2. reg' = [reg EXCEPT !.txcc = l, !.autoCrc = TRUE, !.source = FALSE]
    BY <1>1, <2>1, Afters, Zenon
  <2>3. QED
    BY <1>2, <1>4, <1>5, <2>2 DEF Typed, Registers
<1>6. CASE k = 2
  <2>1. a = <<"control0", 0>>
    BY <1>2, <1>6, LockSinkIs
  <2>2. reg' = [reg EXCEPT !.hostCur = FALSE]
    BY <1>1, <2>1, Afters, Zenon
  <2>3. QED
    BY <1>2, <1>4, <1>6, <2>2 DEF Typed, Registers
<1>7. CASE k = 3
  <2>1. a = <<"rx_flush", 0>>
    BY <1>2, <1>7, LockSinkIs
  <2>2. reg' = reg
    BY <1>1, <2>1, Afters, Zenon
  <2>3. rx' = <<>> /\ Len(rx') <= 1
    BY <1>1, <2>1
  <2>4. QED
    BY <1>2, <1>4, <1>7, <2>2, <2>3
<1>8. CASE k = 4
  <2>1. a = <<"open", 0>>
    BY <1>2, <1>8, LockSinkIs
  <2>2. reg' = [reg EXCEPT !.rd = {}, !.rp = {}, !.meas = 0]
    BY <1>1, <2>1, Afters, Zenon
  <2>3. UNCHANGED rx
    BY <1>1, <2>1
  <2>4. QED
    BY <1>2, <1>4, <1>8, <2>2, <2>3 DEF Typed, Registers
<1>9. CASE k = 5
  <2>1. a = <<"wait", 0>>
    BY <1>2, <1>9, LockSinkIs
  <2>2. reg' = reg
    BY <1>1, <2>1, Afters, Zenon
  <2>3. UNCHANGED rx
    BY <1>1, <2>1
  <2>4. ~attached'
    BY <1>1, <1>9, <2>1 DEF InTime, Terminated
  <2>5. QED
    BY <1>2, <1>4, <1>9, <2>2, <2>3, <2>4
<1>10. CASE k = 6
  <2>1. a = <<"rd", l>>
    BY <1>2, <1>10, LockSinkIs
  <2>2. reg' = [reg EXCEPT !.rd = Line, !.rp = {}, !.meas = l]
    BY <1>1, <2>1, Afters, Zenon
  <2>3. Fresh'
    BY <1>1, <1>10, <2>1 DEF Fresh
  <2>4. /\ reg'.rd = Line /\ reg'.rp = {} /\ reg'.meas = l
        /\ reg'.powered = reg.powered /\ reg'.txcc = reg.txcc
        /\ reg'.autoCrc = reg.autoCrc /\ reg'.source = reg.source
        /\ reg'.hostCur = reg.hostCur
    BY <2>2 DEF Typed, Registers
  <2>5. QED
    BY <1>2, <1>4, <1>10, <2>3, <2>4
<1> HIDE DEF LockingSink, Quiet
<1>11. k = 1 \/ k = 2 \/ k = 3 \/ k = 4 \/ k = 5 \/ k = 6
  BY <1>3
<1>12. QED
  BY <1>5, <1>6, <1>7, <1>8, <1>9, <1>10, <1>11, Zenon

\* Looking for a sink.
LEMMA ProbingSourceAccess ==
    ASSUME Typed, Typed', Access, NEW k \in 1..8, ProbingSource(k)
    PROVE  Placed'
<1> DEFINE a == Head(todo)
<1>1. /\ a[1] \notin Decisions
      /\ reg' = After(a) /\ todo' = Tail(todo)
      /\ levels' = IF a[1] = "status0" THEN [levels EXCEPT ![a[2]] = Level] ELSE levels
      /\ UNCHANGED <<partner, disturbed, ready>>
  BY DEF Access, Effect, far
<1>2. a = SourceSetup[k] /\ todo' = Onward(SourceSetup, k + 1) /\ ready' = "none"
  BY <1>1, SourceProbe DEF ProbingSource
<1>3. k # 8
  BY <1>1, <1>2, SourceSetupIs DEF Decisions
(* In a cable that is not marked, a line is pulled only by the sink.       *)
<1>4. ASSUME reg.rd = {}, Level # 0, ~disturbed, ~partner.marked
      PROVE  partner.line = reg.meas /\ partner.kind = "sink"
  BY <1>4 DEF Level, Pulled, Terminated, Typed, Partner, Nothing
<1> HIDE DEF a
<1> SUFFICES ProbingSource(k + 1)'
  BY <1>3 DEF Placed
<1> USE DEF ProbingSource, Tells, Found, Undisturbed, Other
<1>5. CASE k = 1
  BY <1>2, <1>5
<1>6. CASE k = 2
  <2>1. a = <<"power", 0>>
    BY <1>2, <1>6, SourceSetupIs
  <2>2. reg' = [reg EXCEPT !.powered = TRUE]
    BY <1>1, <2>1, Afters, Zenon
  <2>3. QED
    BY <1>2, <1>6, <2>2 DEF Typed, Registers
<1>7. CASE k = 3
  <2>1. a = <<"host_cur", 0>>
    BY <1>2, <1>7, SourceSetupIs
  <2>2. reg' = [reg EXCEPT !.hostCur = TRUE]
    BY <1>1, <2>1, Afters, Zenon
  <2>3. reg'.hostCur = TRUE /\ reg'.powered = reg.powered
    BY <2>2 DEF Typed, Registers
  <2>4. QED
    BY <1>2, <1>7, <2>3
<1>8. CASE k = 4
  <2>1. a = <<"rp", 1>>
    BY <1>2, <1>8, SourceSetupIs
  <2>2. reg' = [reg EXCEPT !.rp = Line, !.rd = {}, !.meas = 1]
    BY <1>1, <2>1, Afters, Zenon
  <2>3. /\ reg'.rp = Line /\ reg'.rd = {} /\ reg'.meas = 1
        /\ reg'.powered = reg.powered /\ reg'.hostCur = reg.hostCur
    BY <2>2 DEF Typed, Registers
  <2>4. QED
    BY <1>2, <1>8, <2>3
<1>9. CASE k = 5
  <2>1. a = <<"status0", 1>>
    BY <1>2, <1>9, SourceSetupIs
  <2>2. reg' = reg
    BY <1>1, <2>1, Afters, Zenon
  <2>3. levels' = [levels EXCEPT ![1] = Level]
    BY <1>1, <2>1
  <2>4. levels'[1] # 0 /\ ~disturbed' /\ ~partner'.marked
           => partner'.line = 1 /\ partner'.kind = "sink"
    BY <1>1, <1>4, <1>9, <2>3 DEF Typed, Line
  <2>5. QED
    BY <1>2, <1>9, <2>2, <2>4
<1>10. CASE k = 6
  <2>1. a = <<"rp", 2>>
    BY <1>2, <1>10, SourceSetupIs
  <2>2. reg' = [reg EXCEPT !.rp = Line, !.rd = {}, !.meas = 2]
    BY <1>1, <2>1, Afters, Zenon
  <2>3. UNCHANGED <<levels, partner, disturbed>>
    BY <1>1, <2>1
  <2>4. /\ reg'.rp = Line /\ reg'.rd = {} /\ reg'.meas = 2
        /\ reg'.powered = reg.powered /\ reg'.hostCur = reg.hostCur
    BY <2>2 DEF Typed, Registers
  <2>5. QED
    BY <1>2, <1>10, <2>3, <2>4
<1>11. CASE k = 7
  <2>1. a = <<"status0", 2>>
    BY <1>2, <1>11, SourceSetupIs
  <2>2. reg' = reg
    BY <1>1, <2>1, Afters, Zenon
  <2>3. levels' = [levels EXCEPT ![2] = Level]
    BY <1>1, <2>1
  <2>4. levels'[2] # 0 /\ ~disturbed' /\ ~partner'.marked
           => partner'.line = 2 /\ partner'.kind = "sink"
    BY <1>1, <1>4, <1>11, <2>3 DEF Typed, Line
  <2>5. levels'[1] = levels[1]
    BY <2>3 DEF Typed, Line
  <2>6. QED
    BY <1>1, <1>2, <1>11, <2>2, <2>4, <2>5
<1> HIDE DEF ProbingSource, Tells, Found, Undisturbed, Other
<1>12. k = 1 \/ k = 2 \/ k = 3 \/ k = 4 \/ k = 5 \/ k = 6 \/ k = 7
  BY <1>3
<1>13. QED
  BY <1>5, <1>6, <1>7, <1>8, <1>9, <1>10, <1>11, <1>12, Zenon

\* Locking on to its line.
LEMMA LockingSourceAccess ==
    ASSUME Typed, Typed', Access, NEW l \in Line, NEW k \in 1..4, LockingSource(l, k)
    PROVE  Placed'
<1> DEFINE a == Head(todo)
<1>1. /\ a[1] \notin Decisions
      /\ reg' = After(a) /\ todo' = Tail(todo)
      /\ UNCHANGED <<partner, disturbed, ready>>
  BY DEF Access, Effect, far
<1>2. a = LockSource(l)[k] /\ todo' = Onward(LockSource(l), k + 1) /\ ready' = "none"
  BY <1>1, SourceLock DEF LockingSource
<1>3. k # 4
  BY <1>1, <1>2, LockSourceIs DEF Decisions
<1>4. reg.powered /\ reg.hostCur = TRUE /\ Found("source", l)'
  BY <1>1 DEF LockingSource, Found, Undisturbed
<1> HIDE DEF a
<1> SUFFICES LockingSource(l, k + 1)'
  BY <1>3 DEF Placed
<1> USE DEF LockingSource
<1>5. CASE k = 1
  <2>1. a = <<"rp_only", l>>
    BY <1>2, <1>5, LockSourceIs
  <2>2. reg' = [reg EXCEPT !.rp = {l}, !.rd = {}, !.meas = l]
    BY <1>1, <2>1, Afters, Zenon
  <2>3. QED
    BY <1>2, <1>4, <1>5, <2>2 DEF Typed, Registers
<1>6. CASE k = 2
  <2>1. a = <<"switches1_source", l>>
    BY <1>2, <1>6, LockSourceIs
  <2>2. reg' = [reg EXCEPT !.txcc = l, !.autoCrc = TRUE, !.source = TRUE]
    BY <1>1, <2>1, Afters, Zenon
  <2>3. QED
    BY <1>2, <1>4, <1>6, <2>2 DEF Typed, Registers
<1>7. CASE k = 3
  <2>1. a = <<"rx_flush", 0>>
    BY <1>2, <1>7, LockSourceIs
  <2>2. reg' = reg
    BY <1>1, <2>1, Afters, Zenon
  <2>3. QED
    BY <1>2, <1>4, <1>7, <2>2
<1> HIDE DEF LockingSource
<1>8. k = 1 \/ k = 2 \/ k = 3
  BY <1>3
<1>9. QED
  BY <1>5, <1>6, <1>7, <1>8, Zenon

\* An access, whatever the phase.
LEMMA AccessPlaced ==
    ASSUME Typed, Typed', Placed, Access
    PROVE  Placed'
  BY TalkAccess, ProbingSinkAccess, LockingSinkAccess, ProbingSourceAccess,
     LockingSourceAccess, Zenon DEF Placed

\* A failed access ends the call; only a set-up that is done has something to keep.
LEMMA AccessFailsPlaced ==
    ASSUME Typed, Typed', Placed, AccessFails
    PROVE  Placed'
<1> DEFINE a == Head(todo)
<1>1. /\ todo # <<>> /\ todo' = <<>>
      /\ \/ Effect(a)
         \/ UNCHANGED <<chip, seen>>
      /\ UNCHANGED <<far, disturbed, cc, ready>>
  BY DEF AccessFails
<1>2. CASE Talking
  <2>1. /\ \A l, role : Locked(role, l) => Locked(role, l)'
        /\ Fresh => Fresh'
    BY <1>1, <1>2, TalkNext, TalkKeeps
  <2>2. \A role : Locked(role, cc) => Locked(role, cc)'
    BY <1>1, <2>1 DEF Locked
  <2>3. \/ ready' = "none"
        \/ ready' = "sink" /\ cc' \in Line /\ Locked("sink", cc)' /\ Fresh'
        \/ ready' = "source" /\ cc' \in Line /\ Locked("source", cc)'
    BY <1>1, <1>2, <2>1, <2>2 DEF Talking
  <2>4. QED
    BY <1>1, <2>3 DEF Placed, Talking
<1>3. CASE ~Talking
  <2>1. ready = "none"
    BY <1>3 DEF Placed, ProbingSink, LockingSink, ProbingSource, LockingSource
  <2>2. QED
    BY <1>1, <2>1 DEF Placed, Talking
<1>4. QED
  BY <1>2, <1>3

\* What is decided, and where: at the end of a plan.
LEMMA DecisionsAre ==
    ASSUME Placed, Decide
    PROVE  \/ Over("sink") /\ ProbingSink(7)
           \/ Over("source") /\ ProbingSource(8)
           \/ \E l \in Line : /\ Over("ready") /\ Head(todo)[2] = l
                              /\ LockingSink(l, 7)
           \/ \E l \in Line : /\ Over("ready_source") /\ Head(todo)[2] = l
                              /\ LockingSource(l, 4)
<1> DEFINE a == Head(todo)
<1>1. todo # <<>> /\ a[1] \in Decisions
  BY DEF Decide, DecideSink, DecideSource, Over, Decisions
<1>2. ~Talking
  <2>1. CASE Talking
    BY <1>1, <2>1, TalkNext DEF Decisions
  <2>2. QED
    BY <2>1
<1>3. ASSUME NEW k \in 1..7, ProbingSink(k)
      PROVE  Over("sink") /\ k = 7
  <2>1. a = SinkSetup[k]
    BY <1>3, SinkProbe DEF ProbingSink
  <2>2. QED
    BY <1>1, <2>1, SinkSetupIs DEF Decisions, Over
<1>4. ASSUME NEW l \in Line, NEW k \in 1..7, LockingSink(l, k)
      PROVE  Over("ready") /\ a[2] = l /\ k = 7
  <2>1. a = LockSink(l)[k]
    BY <1>4, SinkLock DEF LockingSink
  <2>2. QED
    BY <1>1, <2>1, LockSinkIs DEF Decisions, Over
<1>5. ASSUME NEW k \in 1..8, ProbingSource(k)
      PROVE  Over("source") /\ k = 8
  <2>1. a = SourceSetup[k]
    BY <1>5, SourceProbe DEF ProbingSource
  <2>2. QED
    BY <1>1, <2>1, SourceSetupIs DEF Decisions, Over
<1>6. ASSUME NEW l \in Line, NEW k \in 1..4, LockingSource(l, k)
      PROVE  Over("ready_source") /\ a[2] = l /\ k = 4
  <2>1. a = LockSource(l)[k]
    BY <1>6, SourceLock DEF LockingSource
  <2>2. QED
    BY <1>1, <2>1, LockSourceIs DEF Decisions, Over
<1>7. QED
  BY <1>2, <1>3, <1>4, <1>5, <1>6, Zenon DEF Placed

\* The line that a level was seen on is locked on to; both levels 0 lead back
\* to the probe, or to the end of the call.
LEMMA DecidePlaced ==
    ASSUME Typed, Placed, Decide
    PROVE  Placed'
<1>1. /\ UNCHANGED <<reg, rx, partner, attached, burst, levels, c0, disturbed, seen>>
      /\ todo # <<>>
  BY DEF Decide, chip, far, hist, DecideSink, DecideSource, Over
<1>2. levels \in [Line -> {0, 1}]
  BY DEF Typed
<1>3. \A role, l : Found(role, l) => Found(role, l)'
  BY <1>1 DEF Found, Undisturbed
<1>4. ASSUME NEW l, Returns(l, "none")
      PROVE  Placed'
  BY <1>4 DEF Returns, Placed, Talking
<1>5. CASE Over("sink") /\ ProbingSink(7)
  <2>1. \/ Returns(0, "none")
        \/ /\ \E l \in Line : levels[l] # 0
           /\ todo' = LockSink(SinkLine) /\ UNCHANGED ready
    BY <1>2, <1>5 DEF Decide, DecideSink, DecideSource, Over
  <2>2. ASSUME NEW m \in Line, levels[m] # 0, todo' = LockSink(SinkLine), UNCHANGED ready
        PROVE  Placed'
    <3>1. PICK l \in Line : l = SinkLine /\ levels[l] # 0
      BY <1>2, <2>2 DEF SinkLine, Line
    <3>2. Found("sink", l)
      BY <1>5, <3>1 DEF ProbingSink, Tells, Line
    <3>3. todo' = Onward(LockSink(l), 1)
      BY <2>2, <3>1, LockSinkIs, OnwardEnds
    <3>4. reg.powered /\ ready' = "none"
      BY <1>5, <2>2 DEF ProbingSink
    <3>5. LockingSink(l, 1)'
      BY <1>1, <1>3, <3>2, <3>3, <3>4 DEF LockingSink, Quiet
    <3>6. QED
      BY <3>5 DEF Placed
  <2>3. QED
    BY <1>4, <2>1, <2>2
<1>6. CASE Over("source") /\ ProbingSource(8)
  <2>1. \/ Returns(0, "none")
        \/ /\ \E l \in Line : levels[l] = 1
           /\ todo' = LockSource(IF levels[1] = 1 THEN 1 ELSE 2) /\ UNCHANGED ready
        \/ todo' = Probe("rp") \o todo /\ UNCHANGED ready
    BY <1>2, <1>6 DEF Decide, DecideSink, DecideSource, Over
  <2>2. ASSUME NEW m \in Line, levels[m] = 1,
               todo' = LockSource(IF levels[1] = 1 THEN 1 ELSE 2), UNCHANGED ready
        PROVE  Placed'
    <3>1. PICK l \in Line : l = (IF levels[1] = 1 THEN 1 ELSE 2) /\ levels[l] # 0
      BY <1>2, <2>2 DEF Line
    <3>2. Found("source", l)
      BY <1>6, <3>1 DEF ProbingSource, Tells, Line
    <3>3. todo' = Onward(LockSource(l), 1)
      BY <2>2, <3>1, LockSourceIs, OnwardEnds
    <3>4. reg.powered /\ reg.hostCur = TRUE /\ ready' = "none"
      BY <1>6, <2>2 DEF ProbingSource
    <3>5. LockingSource(l, 1)'
      BY <1>1, <1>3, <3>2, <3>3, <3>4 DEF LockingSource
    <3>6. QED
      BY <3>5 DEF Placed
  <2>3. ASSUME todo' = Probe("rp") \o todo, UNCHANGED ready
        PROVE  Placed'
    <3>1. todo' = Onward(SourceSetup, 4)
      BY <1>6, <2>3, ProbedAgain DEF ProbingSource
    <3>2. reg.powered /\ reg.hostCur = TRUE /\ ready' = "none"
      BY <1>6, <2>3 DEF ProbingSource
    <3>3. ProbingSource(4)'
      BY <1>1, <3>1, <3>2 DEF ProbingSource
    <3>4. QED
      BY <3>3 DEF Placed
  <2>4. QED
    BY <1>4, <2>1, <2>2, <2>3
<1>7. ASSUME NEW l \in Line, Over("ready"), Head(todo)[2] = l, LockingSink(l, 7)
      PROVE  Placed'
  <2>1. todo' = <<>> /\ cc' = l /\ ready' = "sink"
    BY <1>7 DEF Decide, DecideSink, DecideSource, Over, Returns
  <2>2. Locked("sink", l) /\ Fresh
    <3>1. /\ reg.powered /\ Found("sink", l)
          /\ reg.txcc = l /\ reg.autoCrc /\ reg.source = FALSE /\ reg.hostCur = FALSE
          /\ reg.rd = Line /\ reg.rp = {} /\ reg.meas = l
      BY <1>7 DEF LockingSink
    <3>2. Fresh
      BY <1>7 DEF LockingSink, Quiet
    <3>3. ("sink" = "source") = FALSE
      OBVIOUS
    <3>4. QED
      BY <3>1, <3>2, <3>3, Zenon DEF Locked
  <2>3. Locked("sink", cc)' /\ Fresh'
    BY <1>1, <1>3, <2>1, <2>2 DEF Locked, Fresh
  <2>4. QED
    BY <2>1, <2>3 DEF Placed, Talking
<1>8. ASSUME NEW l \in Line, Over("ready_source"), Head(todo)[2] = l,
             LockingSource(l, 4)
      PROVE  Placed'
  <2>1. todo' = <<>> /\ cc' = l /\ ready' = "source"
    BY <1>8 DEF Decide, DecideSink, DecideSource, Over, Returns
  <2>2. Locked("source", l)
    <3>1. /\ reg.powered /\ Found("source", l)
          /\ reg.txcc = l /\ reg.autoCrc /\ reg.source = TRUE /\ reg.hostCur = TRUE
          /\ reg.rp = {l} /\ reg.rd = {} /\ reg.meas = l
      BY <1>8 DEF LockingSource
    <3>2. "sink" # "source"
      OBVIOUS
    <3>3. QED
      BY <3>1, <3>2, Zenon DEF Locked
  <2>3. Locked("source", cc)'
    BY <1>1, <1>3, <2>1, <2>2 DEF Locked
  <2>4. QED
    BY <2>1, <2>3 DEF Placed, Talking
<1>9. QED
  BY <1>5, <1>6, <1>7, <1>8, DecisionsAre

LEMMA PlacedInitially == Init => Placed
  BY DEF Init, Placed, Talking

LEMMA StutterPlaced ==
    ASSUME Placed, UNCHANGED vars
    PROVE  Placed'
<1>1. SameCable /\ UNCHANGED <<reg, rx, todo, levels, c0, cc, ready, attached, arrived,
                               burst, seen, disturbed>>
  BY DEF vars, chip, far, world, program, hist, SameCable
<1>2. /\ \A k \in 1..7 : Quiet(k) => Quiet(k)'
      /\ Fresh => Fresh'
  BY <1>1 DEF Quiet, Fresh
<1>3. QED
  BY <1>1, <1>2, WorldKeeps DEF LockingSink

LEMMA Inductive == IInv /\ [Next]_vars => IInv'
<1> SUFFICES ASSUME Typed, Placed, [Next]_vars
             PROVE  Typed' /\ Placed'
  BY DEF IInv
<1>1. Typed'
  BY TypedInductive
<1>2. CASE Change \/ Shows \/ Attaches \/ Detaches \/ SendsCaps \/ Transmitted
  BY <1>1, <1>2, WorldPlaced
<1>3. CASE Setup
  BY <1>1, <1>3, SetupPlaced
<1>4. CASE Client
  BY <1>1, <1>4, ClientPlaced
<1>5. CASE Access
  BY <1>1, <1>5, AccessPlaced
<1>6. CASE AccessFails
  BY <1>1, <1>6, AccessFailsPlaced
<1>7. CASE Decide
  BY <1>1, <1>7, DecidePlaced
<1>8. CASE UNCHANGED vars
  BY <1>1, <1>8, StutterPlaced
<1>9. QED
  BY <1>2, <1>3, <1>4, <1>5, <1>6, <1>7, <1>8 DEF Next

\* The registers, the FIFO and the levels are where the plan at hand has
\* brought them.
THEOREM PlanInvariant == Spec => []IInv
<1>1. Init => IInv
  BY TypedInitially, PlacedInitially DEF IInv
<1>2. QED
  BY <1>1, Inductive, PTL DEF Spec

-----------------------------------------------------------------------------
(* What the set-ups promise.                                               *)

LEMMA ReadyTalks ==
    ASSUME Placed, ready # "none"
    PROVE  Talking
  BY DEF Placed, ProbingSink, LockingSink, ProbingSource, LockingSource

\* fusb302_setup_sink and fusb302_setup_source leave the chip on the partner's
\* line and in their role, whatever access failed before, and what is sent
\* later does not change that.
THEOREM SetupsFindTheirPartner == Spec => []ConfiguredForPartner
<1>1. ASSUME IInv
      PROVE  ConfiguredForPartner
  <2> SUFFICES ASSUME ready # "none", ~disturbed, ~(ready = "source" /\ partner.marked)
               PROVE  /\ partner.line = cc /\ partner.kind # ready
                      /\ Hears
                      /\ reg.source = (ready = "source")
                      /\ reg.hostCur = (ready = "source")
                      /\ IF ready = "sink" THEN reg.rd = Line /\ reg.rp = {}
                                           ELSE reg.rp = {cc} /\ reg.rd = {}
    BY Zenon DEF ConfiguredForPartner
  <2>1. ready \in {"sink", "source"} /\ Locked(ready, cc)
    BY <1>1, ReadyTalks DEF IInv, Talking
  <2>2. partner.line = cc /\ partner.kind = Other(ready)
    BY <2>1 DEF Locked, Found, Undisturbed
  <2>3. partner.kind # ready
    BY <2>1, <2>2 DEF Other
  <2>4. Hears
    BY <2>1, <2>2, Zenon DEF Locked, Hears
  <2>5. QED
    BY <2>1, <2>2, <2>3, <2>4, Zenon DEF Locked
<1>2. QED
  BY <1>1, PlanInvariant, PTL

\* fusb302_setup_sink ends on a fresh attach, and the capabilities the source
\* sends then wait in the FIFO: nothing that came before crowds them out.
THEOREM FirstCapabilitiesWait == Spec => []CapsWaiting
<1>1. ASSUME IInv
      PROVE  CapsWaiting
  <2> SUFFICES ASSUME ready = "sink", ~disturbed, attached, burst < Burst
               PROVE  seen \/ \E i \in 1..Len(rx) : rx[i] = "fresh"
    BY Zenon DEF CapsWaiting
  <2>1. Fresh
    BY <1>1, ReadyTalks DEF IInv, Talking
  <2>2. QED
    BY <2>1 DEF Fresh
<1>2. QED
  BY <1>1, PlanInvariant, PTL

=============================================================================
