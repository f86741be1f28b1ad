--------------------------- MODULE PdBridgeProofs ---------------------------
(***************************************************************************)
(* Theorems about PdBridge, for every length of the messages, every number *)
(* of them and every size of the RX FIFO.                                  *)
(*                                                                         *)
(* Three invariants, each with the one before it: BusInv follows every     *)
(* transaction with the chip, command by command; TxInv says what is in    *)
(* the TX FIFO and went on the wire at each of them; RxInv what is in the  *)
(* RX FIFO and was read from it.                                           *)
(***************************************************************************)
EXTENDS PdBridge, DataLemmas

\* A register read, and a write, with command k the next, and what the chip
\* takes it for.
ReadPhase(reg, n, k) ==
    /\ k = 2 => slave.phase = "address"
    /\ k = 3 => slave.phase = "register"
    /\ k > 3 => slave.reg = reg
    /\ k = 4 => slave.phase = "write"
    /\ k = 5 => slave.phase = "address"
    /\ k \in 6..n + 5 => slave.phase = "read"
    /\ k = n + 6 => slave.phase = "ignoring"
    /\ k = n + 7 => slave.phase = "idle"

Reading(reg, n, k) ==
    /\ todo = Onward(ReadReg(reg, n), k) /\ acked
    /\ ReadPhase(reg, n, k)
    /\ k <= 6 => got = <<>>
    /\ k \in 7..n + 6 => Len(got) = k - 6
    /\ k = n + 7 => Len(got) = n

WritePhase(reg, bytes, k) ==
    /\ k = 2 => slave.phase = "address"
    /\ k = 3 => slave.phase = "register"
    /\ k \in 4..Len(bytes) + 4 => slave.phase = "write" /\ slave.reg = reg
    /\ k = Len(bytes) + 5 => slave.phase = "idle"

Writing(reg, bytes, k) ==
    /\ todo = Onward(WriteReg(reg, bytes), k) /\ acked /\ got = <<>>
    /\ WritePhase(reg, bytes, k)

\* What a burst writes.
Tokens == CASE call = "tx"    -> Append(Frame(frame), TxOn)
            [] call = "stage" -> Frame(frame)
            [] OTHER          -> <<TxOn>>

Flush   == <<<<"TX_FLUSH", 0>>>>
RxFlush == <<<<"RX_FLUSH", 0>>>>
SwReset == <<<<"SW_RES", 0>>>>

\* What each transaction reads and writes.
Asks(reg, n) ==
    \/ call = "poll" /\ at = "status" /\ reg = "STATUS1" /\ n = 1
    \/ call = "poll" /\ at = "head" /\ reg = "FIFOS" /\ n = 3
    \/ call = "poll" /\ at = "rest" /\ reg = "FIFOS" /\ \E o \in Objects : n = Rest(o)
    \/ call \in {"tx", "stage"} /\ at = "control0" /\ reg = "CONTROL0" /\ n = 1
    \/ call = "read" /\ at = "register" /\ reg = "STATUS0" /\ n = 1

Tells(reg, bytes) ==
    \/ call \in {"tx", "stage"} /\ at = "flush" /\ reg = "CONTROL0" /\ bytes = Flush
    \/ call \in {"tx", "stage", "fire"} /\ at = "burst" /\ reg = "FIFOS" /\ bytes = Tokens
    \/ call = "write" /\ at = "register" /\ reg = "CONTROL1" /\ bytes = RxFlush
    \/ call = "write" /\ at = "register" /\ reg = "RESET" /\ bytes = SwReset /\ ~staged

Bus     == {"STATUS0", "STATUS1", "FIFOS", "CONTROL0", "CONTROL1", "RESET"}
Amounts == {1, 3} \cup {Rest(o) : o \in Objects}
Writes  == {Flush, RxFlush, SwReset, Tokens}

\* What is left of a transaction after a byte that was not acknowledged.
Refused ==
    /\ ~acked /\ call # "idle"
    /\ \/ todo = <<>> /\ slave.phase = "idle"
       \/ slave.phase = "ignoring" /\ at # "burst" /\ todo = <<Stop>>
       \/ slave.phase = "ignoring" /\ at = "burst"
          /\ \E k \in 4..Len(Tokens) + 4 : todo = Onward(WriteReg("FIFOS", Tokens), k)

Idle == /\ call = "idle" /\ todo = <<>> /\ acked /\ got = <<>>
        /\ result # "error" => slave.phase = "idle"

Placed ==
    \/ Idle
    \/ Refused
    \/ \E reg \in Bus, n \in Amounts :
         Asks(reg, n) /\ \E k \in 1..n + 7 : Reading(reg, n, k)
    \/ \E reg \in Bus, bytes \in Writes :
         Tells(reg, bytes) /\ \E k \in 1..Len(bytes) + 5 : Writing(reg, bytes, k)

RxByte == {b \in [of : Message \cup {NoMessage}, at : Nat] :
             b.at = 3 => b.of \in Message}

Types == /\ slave = [phase |-> slave.phase, reg |-> slave.reg]
         /\ rx \in Seq(RxByte) /\ got \in Seq(RxByte)
         /\ pending \in Seq(Message) /\ number \in 0..Numbers - 1
         /\ frame \in Frames

BusInv == Types /\ Placed

\* The TX FIFO x, and the wire a, in the burst of call c that sends frame f,
\* with n commands left of it.
LoadedAs(c, f, x, a, n) ==
    /\ c = "fire"  => IF n < 2 THEN a = Frame(f) ELSE a = <<>> /\ x = Frame(f)
    /\ c = "stage" => /\ a = <<>>
                      /\ x = SubSeq(Frame(f), 1, IF n < 2 THEN FrameLen ELSE FrameLen + 1 - n)
    /\ c = "tx"    => IF n < 2 THEN a = Frame(f)
                      ELSE a = <<>> /\ x = SubSeq(Frame(f), 1, FrameLen + 2 - n)

Loaded(n) == LoadedAs(call, frame, tx, air, n)

TxInv ==
    /\ staged => tx = Frame(frame) /\ call \notin {"tx", "stage", "fire"}
    /\ air \in {<<>>, Frame(frame)}
    /\ call = "idle" /\ result = "sent" => air = Frame(frame)
    /\ call \in {"tx", "stage"} /\ at \in {"control0", "flush"} => air = <<>>
    /\ at = "flush" /\ acked /\ call # "idle" /\ Len(todo) < 2 => tx = <<>>
    /\ at = "burst" /\ acked /\ call # "idle" => Loaded(Len(todo))

\* The packets of messages s, one after the other, and a packet half read.
Packets(s) == [i \in 1..Len(s) |-> Bytes(s[i])]
Waiting(s) == FlattenSeq(Packets(s))
Half(p)    == /\ pending # <<>>
              /\ rx = Onward(Bytes(Head(pending)), p + 1) \o Waiting(Tail(pending))

HeadRead ==
    /\ got = <<>> => step # "half" /\ rx # <<>>
    /\ got # <<>> => step # "in"
    /\ got # <<>> /\ step = "half" =>
         Half(Len(got)) /\ got = SubSeq(Bytes(Head(pending)), 1, Len(got))

RestRead ==
    /\ step # "in"
    /\ step = "half" =>
         /\ Half(3 + Len(got))
         /\ \E k \in 1..Rest(Head(pending).objects) + 7 :
              Reading("FIFOS", Rest(Head(pending).objects), k)
         /\ raw = SubSeq(Bytes(Head(pending)), 2, 3)
         /\ got = SubSeq(Bytes(Head(pending)), 4, 3 + Len(got))

RxInv ==
    /\ step \in {"in", "half", "out"}
    /\ step = "in" => rx = Waiting(pending)
    /\ call = "poll" /\ acked /\ at = "status" =>
         step # "half" /\ (got # <<>> => got[1] = RxEmpty \/ rx # <<>>)
    /\ call = "poll" /\ acked /\ at = "head" => HeadRead
    /\ call = "poll" /\ acked /\ at = "rest" => RestRead
-----------------------------------------------------------------------------
(* The transactions.                                                       *)

\* What is written to a register, and the commands.
Value == {TxOn, <<"TX_FLUSH", 0>>, <<"RX_FLUSH", 0>>, <<"SW_RES", 0>>}
         \cup (Frames \X (Nat \ {0}))
Cmd   == {Start, Stop, AddrWrite, AddrRead, Read(TRUE), Read(FALSE)}
         \cup {Select(r) : r \in Bus} \cup {Write(b) : b \in Value}

\* The commands read_reg issues, one by one.
LEMMA ReadRegIs ==
    ASSUME NEW reg \in Bus, NEW n \in Nat
    PROVE  /\ ReadReg(reg, n) \in Seq(Cmd) /\ Len(ReadReg(reg, n)) = n + 6
           /\ ReadReg(reg, n)[1] = Start /\ ReadReg(reg, n)[2] = AddrWrite
           /\ ReadReg(reg, n)[3] = Select(reg) /\ ReadReg(reg, n)[4] = Start
           /\ ReadReg(reg, n)[5] = AddrRead
           /\ \A k \in 6..n + 5 : ReadReg(reg, n)[k] = Read(k < n + 5)
           /\ ReadReg(reg, n)[n + 6] = Stop
<1> DEFINE start == <<Start, AddrWrite, Select(reg), Start, AddrRead>>
           reads == Reads(n)
           end   == <<Stop>>
           head  == start \o reads
           plan  == ReadReg(reg, n)
<1>0. /\ Start \in Cmd /\ Stop \in Cmd /\ AddrWrite \in Cmd /\ AddrRead \in Cmd
      /\ Select(reg) \in Cmd /\ Read(TRUE) \in Cmd /\ Read(FALSE) \in Cmd
  BY Zenon DEF Cmd
<1>1. /\ start \in Seq(Cmd) /\ Len(start) = 5
      /\ start[1] = Start /\ start[2] = AddrWrite /\ start[3] = Select(reg)
      /\ start[4] = Start /\ start[5] = AddrRead
  BY <1>0
<1>2. end \in Seq(Cmd) /\ Len(end) = 1 /\ end[1] = Stop
  BY <1>0
<1>3. reads \in Seq(Cmd) /\ Len(reads) = n /\ \A i \in 1..n : reads[i] = Read(i < n)
  <2>1. \A i \in 1..n : Read(i < n) \in Cmd
    <3>1. \A i \in 1..n : (i < n) = TRUE \/ (i < n) = FALSE
      OBVIOUS
    <3>2. QED
      BY <1>0, <3>1, Zenon
  <2>2. reads = [i \in 1..n |-> Read(i < n)]
    BY Zenon DEF Reads
  <2>3. reads \in [1..n -> Cmd] /\ \A i \in 1..n : reads[i] = Read(i < n)
    <3> HIDE DEF reads
    <3>1. QED
      BY <2>1, <2>2, Zenon
  <2> HIDE DEF reads
  <2>4. reads \in Seq(Cmd) /\ Len(reads) = n
    BY <2>3
  <2>5. QED
    BY <2>3, <2>4, Zenon
<1>4. plan = head \o end
  BY Zenon DEF ReadReg
<1> HIDE DEF start, end, reads
<1>5. /\ head \in Seq(Cmd) /\ Len(head) = n + 5
      /\ \A i \in 1..n + 5 : head[i] = IF i <= 5 THEN start[i] ELSE reads[i - 5]
  <2>1. /\ head \in Seq(Cmd) /\ Len(head) = Len(start) + Len(reads)
        /\ \A i \in 1..Len(start) + Len(reads) :
             head[i] = IF i <= Len(start) THEN start[i] ELSE reads[i - Len(start)]
    BY <1>1, <1>3, Joined
  <2>2. Len(start) + Len(reads) = n + 5
    BY <1>1, <1>3
  <2> HIDE DEF head
  <2>3. QED
    BY <1>1, <1>3, <2>1, <2>2
<1> HIDE DEF head, plan
<1>6. /\ plan \in Seq(Cmd) /\ Len(plan) = n + 6
      /\ \A i \in 1..n + 6 : plan[i] = IF i <= n + 5 THEN head[i] ELSE end[i - (n + 5)]
  <2>1. /\ plan \in Seq(Cmd) /\ Len(plan) = Len(head) + Len(end)
        /\ \A i \in 1..Len(head) + Len(end) :
             plan[i] = IF i <= Len(head) THEN head[i] ELSE end[i - Len(head)]
    BY <1>2, <1>4, <1>5, Joined
  <2>2. Len(head) + Len(end) = n + 6
    BY <1>2, <1>5
  <2>3. QED
    BY <1>2, <1>5, <2>1, <2>2
<1>7. /\ plan[1] = Start /\ plan[2] = AddrWrite /\ plan[3] = Select(reg)
      /\ plan[4] = Start /\ plan[5] = AddrRead
  BY <1>1, <1>5, <1>6
<1>8. plan[n + 6] = Stop
  BY <1>2, <1>6
<1>9. \A k \in 6..n + 5 : plan[k] = Read(k < n + 5)
  <2> TAKE k \in 6..n + 5
  <2>1. plan[k] = reads[k - 5] /\ k - 5 \in 1..n
    BY <1>5, <1>6
  <2>2. (k - 5 < n) = (k < n + 5)
    OBVIOUS
  <2>3. QED
    BY <1>3, <2>1, <2>2
<1>10. QED
  BY <1>6, <1>7, <1>8, <1>9 DEF plan

\* Those of write_reg and write_reg_multi.
LEMMA WriteRegIs ==
    ASSUME NEW reg \in Bus, NEW bytes \in Seq(Value)
    PROVE  /\ WriteReg(reg, bytes) \in Seq(Cmd)
           /\ Len(WriteReg(reg, bytes)) = Len(bytes) + 4
           /\ WriteReg(reg, bytes)[1] = Start /\ WriteReg(reg, bytes)[2] = AddrWrite
           /\ WriteReg(reg, bytes)[3] = Select(reg)
           /\ \A k \in 4..Len(bytes) + 3 : WriteReg(reg, bytes)[k] = Write(bytes[k - 3])
           /\ WriteReg(reg, bytes)[Len(bytes) + 4] = Stop
<1> DEFINE start  == <<Start, AddrWrite, Select(reg)>>
           writes == [i \in 1..Len(bytes) |-> Write(bytes[i])]
           end    == <<Stop>>
           head   == start \o writes
           plan   == WriteReg(reg, bytes)
           n      == Len(bytes)
<1>0. /\ Start \in Cmd /\ Stop \in Cmd /\ AddrWrite \in Cmd /\ Select(reg) \in Cmd
      /\ \A b \in Value : Write(b) \in Cmd
  BY Zenon DEF Cmd
<1>1. /\ start \in Seq(Cmd) /\ Len(start) = 3
      /\ start[1] = Start /\ start[2] = AddrWrite /\ start[3] = Select(reg)
  BY <1>0
<1>2. end \in Seq(Cmd) /\ Len(end) = 1 /\ end[1] = Stop
  BY <1>0
<1>3. /\ writes \in Seq(Cmd) /\ Len(writes) = n
      /\ \A i \in 1..n : writes[i] = Write(bytes[i])
      /\ n \in Nat
  <2>1. \A i \in 1..n : Write(bytes[i]) \in Cmd
    <3>1. \A i \in 1..n : bytes[i] \in Value
      BY Elements
    <3>2. QED
      BY <1>0, <3>1, Zenon
  <2>2. writes \in [1..n -> Cmd] /\ \A i \in 1..n : writes[i] = Write(bytes[i])
    BY <2>1, Zenon
  <2>3. n \in Nat
    OBVIOUS
  <2> HIDE DEF writes, n
  <2>4. writes \in Seq(Cmd) /\ Len(writes) = n
    BY <2>2, <2>3
  <2>5. QED
    BY <2>2, <2>3, <2>4, Zenon
<1>4. plan = head \o end
  BY Zenon DEF WriteReg
<1> HIDE DEF start, end, writes, n
<1>5. /\ head \in Seq(Cmd) /\ Len(head) = n + 3
      /\ \A i \in 1..n + 3 : head[i] = IF i <= 3 THEN start[i] ELSE writes[i - 3]
  <2>1. /\ head \in Seq(Cmd) /\ Len(head) = Len(start) + Len(writes)
        /\ \A i \in 1..Len(start) + Len(writes) :
             head[i] = IF i <= Len(start) THEN start[i] ELSE writes[i - Len(start)]
    BY <1>1, <1>3, Joined
  <2>2. Len(start) + Len(writes) = n + 3
    BY <1>1, <1>3
  <2> HIDE DEF head
  <2>3. QED
    BY <1>1, <1>3, <2>1, <2>2
<1> HIDE DEF head, plan
<1>6. /\ plan \in Seq(Cmd) /\ Len(plan) = n + 4
      /\ \A i \in 1..n + 4 : plan[i] = IF i <= n + 3 THEN head[i] ELSE end[i - (n + 3)]
  <2>1. /\ plan \in Seq(Cmd) /\ Len(plan) = Len(head) + Len(end)
        /\ \A i \in 1..Len(head) + Len(end) :
             plan[i] = IF i <= Len(head) THEN head[i] ELSE end[i - Len(head)]
    BY <1>2, <1>4, <1>5, Joined
  <2>2. Len(head) + Len(end) = n + 4
    BY <1>2, <1>3, <1>5
  <2>3. QED
    BY <1>2, <1>3, <1>5, <2>1, <2>2
<1>7. plan[1] = Start /\ plan[2] = AddrWrite /\ plan[3] = Select(reg)
  BY <1>1, <1>3, <1>5, <1>6
<1>8. plan[n + 4] = Stop
  BY <1>2, <1>3, <1>6
<1>9. \A k \in 4..n + 3 : plan[k] = Write(bytes[k - 3])
  <2> TAKE k \in 4..n + 3
  <2>1. plan[k] = writes[k - 3] /\ k - 3 \in 1..n
    BY <1>3, <1>5, <1>6
  <2>2. QED
    BY <1>3, <2>1
<1>10. QED
  BY <1>6, <1>7, <1>8, <1>9 DEF plan, n
-----------------------------------------------------------------------------
(* The commands.                                                           *)

Still   == UNCHANGED <<tx, air, rx, inbox>>
SlaveOk == slave = [phase |-> slave.phase, reg |-> slave.reg]
Now(p)  == slave' = [phase |-> p, reg |-> slave.reg]

\* What the chip makes of a START ...
LEMMA OnStart ==
    ASSUME SlaveOk, NEW ack \in BOOLEAN, CarriedOut(Start, ack)
    PROVE  ack /\ Still /\ Now("address")
  BY DEF CarriedOut, Start, SlaveOk, Still, Now, Phase, KeepRx

\* ... of a STOP ...
LEMMA OnStop ==
    ASSUME SlaveOk, NEW ack \in BOOLEAN, CarriedOut(Stop, ack)
    PROVE  ack /\ Still /\ Now("idle")
  BY DEF CarriedOut, Stop, SlaveOk, Still, Now, Phase, KeepRx

\* ... of a read, which is never refused ...
LEMMA OnRead ==
    ASSUME NEW ack \in BOOLEAN, NEW more \in BOOLEAN, CarriedOut(Read(more), ack)
    PROVE  ack /\ Gives(more)
<1>1. Read(more).op = "read" /\ Read(more).ack = more
  BY DEF Read
<1>2. QED
  BY <1>1, Zenon DEF CarriedOut

\* ... and of a byte written, which may be.
LEMMA OnWrite ==
    ASSUME SlaveOk, NEW ack \in BOOLEAN, NEW b, CarriedOut(Write(b), ack)
    PROVE  \/ ack /\ Acknowledges(b)
           \/ ~ack /\ Still /\ Now("ignoring")
<1>1. Write(b).op = "write" /\ Write(b).byte = b
  BY DEF Write
<1>2. \/ ack /\ Acknowledges(b)
      \/ ~ack /\ Phase("ignoring") /\ UNCHANGED <<tx, air>> /\ KeepRx
  BY <1>1, Zenon DEF CarriedOut
<1>3. ASSUME Phase("ignoring"), UNCHANGED <<tx, air>>, KeepRx
      PROVE  Still /\ Now("ignoring")
  BY <1>3 DEF SlaveOk, Still, Now, Phase, KeepRx
<1>4. QED
  BY <1>2, <1>3, Zenon

\* A byte written is the chip's address ...
LEMMA AckAddress ==
    ASSUME SlaveOk, NEW b, slave.phase = "address", Acknowledges(b)
    PROVE  Still /\ Now(IF b = <<"ADDR", 1>> THEN "read" ELSE "register")
  BY DEF Acknowledges, SlaveOk, Still, Now, Phase, KeepRx

\* ... a register ...
LEMMA AckRegister ==
    ASSUME NEW b, slave.phase = "register", Acknowledges(b)
    PROVE  Still /\ slave' = [phase |-> "write", reg |-> b[1]]
  BY DEF Acknowledges, Still, KeepRx

\* ... a value for that register ...
LEMMA AckValue ==
    ASSUME NEW b, slave.phase = "write", Acknowledges(b)
    PROVE  slave' = slave /\ Takes(slave.reg, b)
  BY DEF Acknowledges

\* ... or goes to nobody.
LEMMA AckNever ==
    ASSUME NEW b, slave.phase = "ignoring"
    PROVE  ~Acknowledges(b)
  BY DEF Acknowledges

\* A byte read leaves the TX FIFO alone, and the RX FIFO unless it is read.
LEMMA GivesIs ==
    ASSUME SlaveOk, NEW more \in BOOLEAN, Gives(more)
    PROVE  /\ Now(IF more THEN "read" ELSE "ignoring")
           /\ UNCHANGED <<tx, air, number, pending>>
           /\ slave.reg # "FIFOS" => Still
           /\ slave.reg = "FIFOS" => /\ rx' = IF rx = <<>> THEN rx ELSE Tail(rx)
                                     /\ step' = IF step = "out" THEN "out" ELSE "half"
<1>1. Now(IF more THEN "read" ELSE "ignoring")
  BY DEF Gives, SlaveOk, Now, Phase
<1>2. QED
  BY <1>1 DEF Gives, Still, KeepRx, inbox
-----------------------------------------------------------------------------
(* What the transactions read and write.                                   *)

\* What k commands carried out leave.
LEMMA ReadLeft ==
    ASSUME NEW reg \in Bus, NEW n \in Nat, NEW k \in 1..n + 6
    PROVE  /\ Onward(ReadReg(reg, n), k) # <<>>
           /\ Head(Onward(ReadReg(reg, n), k)) = ReadReg(reg, n)[k]
           /\ Tail(Onward(ReadReg(reg, n), k)) = Onward(ReadReg(reg, n), k + 1)
<1> DEFINE plan == ReadReg(reg, n)
<1>1. plan \in Seq(Cmd) /\ Len(plan) = n + 6
  BY ReadRegIs
<1>2. k \in 1..Len(plan)
  BY <1>1
<1> HIDE DEF plan
<1>3. QED
  BY <1>1, <1>2, OnwardStep DEF plan

\* The same of a write.
LEMMA WriteLeft ==
    ASSUME NEW reg \in Bus, NEW bytes \in Seq(Value), NEW k \in 1..Len(bytes) + 4
    PROVE  /\ Onward(WriteReg(reg, bytes), k) # <<>>
           /\ Head(Onward(WriteReg(reg, bytes), k)) = WriteReg(reg, bytes)[k]
           /\ Tail(Onward(WriteReg(reg, bytes), k)) = Onward(WriteReg(reg, bytes), k + 1)
<1> DEFINE plan == WriteReg(reg, bytes)
<1>1. plan \in Seq(Cmd) /\ Len(plan) = Len(bytes) + 4
  BY WriteRegIs
<1>2. k \in 1..Len(plan)
  BY <1>1
<1> HIDE DEF plan
<1>3. QED
  BY <1>1, <1>2, OnwardStep DEF plan

\* How many commands of a read are left ...
LEMMA ReadLength ==
    ASSUME NEW reg \in Bus, NEW n \in Nat, NEW k \in 1..n + 7
    PROVE  /\ Len(Onward(ReadReg(reg, n), k)) = n + 7 - k
           /\ Onward(ReadReg(reg, n), k) \in Seq(Cmd)
<1> DEFINE plan == ReadReg(reg, n)
<1>1. plan \in Seq(Cmd) /\ Len(plan) = n + 6
  BY ReadRegIs
<1>2. k \in 1..Len(plan) + 1 /\ Len(plan) - k + 1 = n + 7 - k
  BY <1>1
<1> HIDE DEF plan
<1>3. Onward(plan, k) \in Seq(Cmd) /\ Len(Onward(plan, k)) = Len(plan) - k + 1
  BY <1>1, <1>2, OnwardIs
<1>4. QED
  BY <1>2, <1>3 DEF plan

\* ... and of a write.
LEMMA WriteLength ==
    ASSUME NEW reg \in Bus, NEW bytes \in Seq(Value), NEW k \in 1..Len(bytes) + 5
    PROVE  /\ Len(Onward(WriteReg(reg, bytes), k)) = Len(bytes) + 5 - k
           /\ Onward(WriteReg(reg, bytes), k) \in Seq(Cmd)
<1> DEFINE plan == WriteReg(reg, bytes)
<1>1. plan \in Seq(Cmd) /\ Len(plan) = Len(bytes) + 4
  BY WriteRegIs
<1>2. k \in 1..Len(plan) + 1 /\ Len(plan) - k + 1 = Len(bytes) + 5 - k
  BY <1>1
<1> HIDE DEF plan
<1>3. Onward(plan, k) \in Seq(Cmd) /\ Len(Onward(plan, k)) = Len(plan) - k + 1
  BY <1>1, <1>2, OnwardIs
<1>4. QED
  BY <1>2, <1>3 DEF plan

\* All of a read is left when it begins ...
LEMMA ReadStarts ==
    ASSUME NEW reg \in Bus, NEW n \in Nat
    PROVE  Onward(ReadReg(reg, n), 1) = ReadReg(reg, n)
<1>1. ReadReg(reg, n) \in Seq(Cmd)
  BY ReadRegIs
<1>2. QED
  BY <1>1, OnwardEnds

\* ... and all of a write.
LEMMA WriteStarts ==
    ASSUME NEW reg \in Bus, NEW bytes \in Seq(Value)
    PROVE  Onward(WriteReg(reg, bytes), 1) = WriteReg(reg, bytes)
<1>1. WriteReg(reg, bytes) \in Seq(Cmd)
  BY WriteRegIs
<1>2. QED
  BY <1>1, OnwardEnds

\* The tokens of a message to send.
LEMMA FrameIs ==
    ASSUME NEW f \in Frames
    PROVE  /\ Frame(f) \in Seq(Value) /\ Len(Frame(f)) = FrameLen
           /\ \A i \in 1..FrameLen : Frame(f)[i] = <<f, i>>
<1>1. FrameLen \in Nat
  BY BridgeAssumption
<1>2. \A i \in 1..FrameLen : <<f, i>> \in Value
  <2>1. \A i \in 1..FrameLen : i \in Nat \ {0}
    BY <1>1
  <2>2. QED
    BY <2>1, Zenon DEF Value
<1>3. Frame(f) = [i \in 1..FrameLen |-> <<f, i>>]
  BY Zenon DEF Frame
<1>4. Frame(f) \in [1..FrameLen -> Value] /\ \A i \in 1..FrameLen : Frame(f)[i] = <<f, i>>
  BY <1>2, <1>3, Zenon
<1>5. QED
  BY <1>1, <1>4

\* What a burst writes: TXON behind the message, the message, or TXON.
LEMMA TokensAre ==
    ASSUME frame \in Frames
    PROVE  /\ Tokens \in Seq(Value)
           /\ call = "tx" => Len(Tokens) = FrameLen + 1
           /\ call = "stage" => Len(Tokens) = FrameLen
           /\ call \notin {"tx", "stage"} => Len(Tokens) = 1
<1> DEFINE f == Frame(frame)
<1>0. TxOn \in Value
  BY Zenon DEF Value
<1>1. f \in Seq(Value) /\ Len(f) = FrameLen
  BY FrameIs
<1>2. /\ call = "tx" => Tokens = Append(f, TxOn)
      /\ call = "stage" => Tokens = f
      /\ call \notin {"tx", "stage"} => Tokens = <<TxOn>>
  BY DEF Tokens
<1> HIDE DEF f
<1>3. CASE call = "tx"
  <2>1. Append(f, TxOn) \in Seq(Value) /\ Len(Append(f, TxOn)) = FrameLen + 1
    BY <1>0, <1>1
  <2>2. QED
    BY <1>2, <1>3, <2>1
<1>4. CASE call = "stage"
  BY <1>1, <1>2, <1>4
<1>5. CASE call \notin {"tx", "stage"}
  <2>1. <<TxOn>> \in Seq(Value) /\ Len(<<TxOn>>) = 1
    BY <1>0
  <2> DEFINE one == <<TxOn>>
  <2>2. Tokens = one
    BY <1>2, <1>5
  <2> HIDE DEF one
  <2>3. QED
    BY <1>5, <2>1, <2>2 DEF one
<1>6. QED
  BY <1>3, <1>4, <1>5

\* The bytes of a burst.
LEMMA TokenIs ==
    ASSUME frame \in Frames, NEW i \in 1..Len(Tokens)
    PROVE  /\ call = "tx" /\ i <= FrameLen => Tokens[i] = <<frame, i>>
           /\ call = "tx" /\ i > FrameLen => Tokens[i] = TxOn
           /\ call = "stage" => Tokens[i] = <<frame, i>>
           /\ call \notin {"tx", "stage"} => Tokens[i] = TxOn
<1> DEFINE f == Frame(frame)
<1>0. TxOn \in Value /\ FrameLen \in Nat
  BY BridgeAssumption DEF Value
<1>1. /\ f \in Seq(Value) /\ Len(f) = FrameLen
      /\ \A j \in 1..FrameLen : f[j] = <<frame, j>>
  BY FrameIs
<1>2. /\ call = "tx" => Tokens = Append(f, TxOn)
      /\ call = "stage" => Tokens = f
      /\ call \notin {"tx", "stage"} => Tokens = <<TxOn>>
  BY DEF Tokens
<1> HIDE DEF f
<1>3. CASE call = "tx"
  <2>1. i \in 1..FrameLen + 1
    BY <1>3, TokensAre
  <2>2. Tokens[i] = IF i <= FrameLen THEN f[i] ELSE TxOn
    BY <1>0, <1>1, <1>2, <1>3, <2>1
  <2>3. QED
    BY <1>0, <1>1, <1>3, <2>1, <2>2
<1>4. CASE call = "stage"
  <2>1. i \in 1..FrameLen
    BY <1>4, TokensAre
  <2>2. QED
    BY <1>1, <1>2, <1>4, <2>1
<1>5. CASE call \notin {"tx", "stage"}
  <2>1. i = 1
    <3>1. Len(Tokens) = 1
      BY <1>5, TokensAre, Zenon
    <3> DEFINE l == Len(Tokens)
    <3>2. i \in 1..l /\ l = 1
      BY <3>1
    <3> HIDE DEF l
    <3>3. QED
      BY <3>2
  <2>2. QED
    BY <1>2, <1>5, <2>1
<1>6. QED
  BY <1>3, <1>4, <1>5

\* None of them is taken for the register the burst goes to.
LEMMA TokenIsData ==
    ASSUME frame \in Frames, NEW i \in 1..Len(Tokens)
    PROVE  Write(Tokens[i]) # Select("FIFOS")
<1>1. Tokens[i] # <<"FIFOS", 0>>
  <2>1. TxOn # <<"FIFOS", 0>>
    BY DEF TxOn
  <2>2. Len(Tokens) \in Nat /\ i # 0
    BY TokensAre
  <2>3. <<frame, i>> # <<"FIFOS", 0>>
    BY <2>2
  <2>4. Tokens[i] = TxOn \/ Tokens[i] = <<frame, i>>
    <3>1. i <= FrameLen \/ i > FrameLen
      BY <2>2, BridgeAssumption
    <3>2. QED
      BY <3>1, TokenIs
  <2>5. QED
    BY <2>1, <2>3, <2>4
<1>2. Write(Tokens[i]).byte = Tokens[i] /\ Select("FIFOS").byte = <<"FIFOS", 0>>
  BY DEF Write, Select
<1>3. QED
  BY <1>1, <1>2

\* No write is empty.
LEMMA WritesAre ==
    ASSUME frame \in Frames
    PROVE  \A bytes \in Writes : bytes \in Seq(Value) /\ Len(bytes) > 0
<1>1. Flush \in Seq(Value) /\ RxFlush \in Seq(Value) /\ SwReset \in Seq(Value)
  <2>1. <<"TX_FLUSH", 0>> \in Value /\ <<"RX_FLUSH", 0>> \in Value /\ <<"SW_RES", 0>> \in Value
    BY Zenon DEF Value
  <2>2. QED
    BY <2>1 DEF Flush, RxFlush, SwReset
<1>2. Len(Flush) = 1 /\ Len(RxFlush) = 1 /\ Len(SwReset) = 1
  BY DEF Flush, RxFlush, SwReset
<1>3. Len(Tokens) > 0 /\ Tokens \in Seq(Value)
  <2> DEFINE l == Len(Tokens)
  <2>1. /\ Tokens \in Seq(Value)
        /\ l = FrameLen + 1 \/ l = FrameLen \/ l = 1
    BY TokensAre, Zenon
  <2>2. FrameLen \in Nat \ {0}
    BY BridgeAssumption
  <2> HIDE DEF l
  <2>3. l > 0
    BY <2>1, <2>2
  <2>4. QED
    BY <2>1, <2>3 DEF l
<1>4. \A bytes \in Writes : bytes = Flush \/ bytes = RxFlush \/ bytes = SwReset \/ bytes = Tokens
  BY Zenon DEF Writes
<1>5. QED
  BY <1>1, <1>2, <1>3, <1>4

\* No read is of nothing.
LEMMA AmountsAre == Amounts \subseteq Nat \ {0}
<1>1. \A o \in Objects : Rest(o) \in Nat \ {0}
  <2> TAKE o \in Objects
  <2>1. o \in Nat /\ ObjectLen \in Nat /\ CrcLen \in Nat \ {0}
    BY BridgeAssumption
  <2>2. o * ObjectLen \in Nat
    BY <2>1
  <2>3. QED
    BY <2>1, <2>2 DEF Rest
<1>2. QED
  BY <1>1 DEF Amounts
-----------------------------------------------------------------------------
(* What a command of a transaction does.                                   *)

ReadDoes(reg, n, k, ack) ==
    /\ UNCHANGED <<tx, air, number, pending>>
    /\ k \in 6..n + 5 /\ reg = "FIFOS" =>
         /\ rx' = IF rx = <<>> THEN rx ELSE Tail(rx)
         /\ step' = IF step = "out" THEN "out" ELSE "half"
    /\ k \notin 6..n + 5 \/ reg # "FIFOS" => UNCHANGED <<rx, step>>
    /\ slave' = [phase |-> slave'.phase, reg |-> slave'.reg]
    /\ ack => ReadPhase(reg, n, k + 1)'
    /\ ~ack => k \in {2, 3, 5} /\ slave'.phase = "ignoring"

\* A command of a read, carried out.
LEMMA ReadCarried ==
    ASSUME SlaveOk, NEW reg \in Bus, NEW n \in Nat \ {0}, NEW k \in 1..n + 6,
           ReadPhase(reg, n, k),
           NEW ack \in BOOLEAN, CarriedOut(ReadReg(reg, n)[k], ack)
    PROVE  ReadDoes(reg, n, k, ack)
<1> DEFINE cmd == ReadReg(reg, n)[k]
<1>0. /\ k = 1 => cmd = Start
      /\ k = 2 => cmd = AddrWrite
      /\ k = 3 => cmd = Select(reg)
      /\ k = 4 => cmd = Start
      /\ k = 5 => cmd = AddrRead
      /\ k \in 6..n + 5 => cmd = Read(k < n + 5)
      /\ k = n + 6 => cmd = Stop
  BY ReadRegIs
<1> HIDE DEF cmd
<1>00. CarriedOut(cmd, ack)
  BY DEF cmd
<1>1. CASE k = 1 \/ k = 4
  <2>1. ack /\ Still /\ Now("address")
    <3>1. cmd = Start
      BY <1>0, <1>1
    <3>2. QED
      BY <1>00, <3>1, OnStart
  <2>2. k + 1 = 2 \/ k + 1 = 5
    BY <1>1
  <2>3. k = 4 => slave.reg = reg
    BY DEF ReadPhase
  <2>4. ReadPhase(reg, n, k + 1)'
    BY <2>1, <2>2, <2>3, <1>1 DEF ReadPhase, Now
  <2>5. QED
    BY <1>1, <2>1, <2>4 DEF ReadDoes, Still, Now, inbox
<1>2. CASE k = 2
  <2>1. cmd = Write(<<"ADDR", 0>>) /\ slave.phase = "address"
    BY <1>0, <1>2 DEF AddrWrite, ReadPhase
  <2>2. \/ ack /\ Still /\ Now("register")
        \/ ~ack /\ Still /\ Now("ignoring")
    <3>1. \/ ack /\ Acknowledges(<<"ADDR", 0>>)
          \/ ~ack /\ Still /\ Now("ignoring")
      BY <1>00, <2>1, OnWrite
    <3>2. ASSUME Acknowledges(<<"ADDR", 0>>)
          PROVE  Still /\ Now("register")
      <4>1. <<"ADDR", 0>> # <<"ADDR", 1>>
        OBVIOUS
      <4>2. Still /\ Now(IF <<"ADDR", 0>> = <<"ADDR", 1>> THEN "read" ELSE "register")
        BY <2>1, <3>2, AckAddress
      <4>3. QED
        BY <4>1, <4>2, Zenon
    <3>3. QED
      BY <3>1, <3>2, Zenon
  <2>3. k + 1 = 3
    BY <1>2
  <2>4. ack => ReadPhase(reg, n, k + 1)'
    BY <2>2, <2>3 DEF ReadPhase, Now
  <2>5. QED
    BY <1>2, <2>2, <2>4 DEF ReadDoes, Still, Now, inbox
<1>3. CASE k = 3
  <2>1. cmd = Write(<<reg, 0>>) /\ slave.phase = "register"
    BY <1>0, <1>3 DEF Select, ReadPhase
  <2>2. \/ ack /\ Still /\ slave' = [phase |-> "write", reg |-> reg]
        \/ ~ack /\ Still /\ Now("ignoring")
    <3>1. \/ ack /\ Acknowledges(<<reg, 0>>)
          \/ ~ack /\ Still /\ Now("ignoring")
      BY <1>00, <2>1, OnWrite
    <3>2. ASSUME Acknowledges(<<reg, 0>>)
          PROVE  Still /\ slave' = [phase |-> "write", reg |-> reg]
      <4>1. <<reg, 0>>[1] = reg
        OBVIOUS
      <4>2. Still /\ slave' = [phase |-> "write", reg |-> <<reg, 0>>[1]]
        BY <2>1, <3>2, AckRegister
      <4>3. QED
        BY <4>1, <4>2, Zenon
    <3>3. QED
      BY <3>1, <3>2, Zenon
  <2>3. k + 1 = 4
    BY <1>3
  <2>4. ack => ReadPhase(reg, n, k + 1)'
    BY <2>2, <2>3 DEF ReadPhase
  <2>5. QED
    BY <1>3, <2>2, <2>4 DEF ReadDoes, Still, Now, inbox
<1>4. CASE k = 5
  <2>1. cmd = Write(<<"ADDR", 1>>) /\ slave.phase = "address" /\ slave.reg = reg
    BY <1>0, <1>4 DEF AddrRead, ReadPhase
  <2>2. \/ ack /\ Still /\ Now("read")
        \/ ~ack /\ Still /\ Now("ignoring")
    <3>1. \/ ack /\ Acknowledges(<<"ADDR", 1>>)
          \/ ~ack /\ Still /\ Now("ignoring")
      BY <1>00, <2>1, OnWrite
    <3>2. ASSUME Acknowledges(<<"ADDR", 1>>)
          PROVE  Still /\ Now("read")
      <4>1. Still /\ Now(IF <<"ADDR", 1>> = <<"ADDR", 1>> THEN "read" ELSE "register")
        BY <2>1, <3>2, AckAddress
      <4>2. QED
        BY <4>1, Zenon
    <3>3. QED
      BY <3>1, <3>2, Zenon
  <2>3. k + 1 = 6
    BY <1>4
  <2>4. ack => ReadPhase(reg, n, k + 1)'
    BY <2>1, <2>2, <2>3 DEF ReadPhase, Now
  <2>5. QED
    BY <1>4, <2>2, <2>4 DEF ReadDoes, Still, Now, inbox
<1>5. CASE k \in 6..n + 5
  <2> DEFINE more == k < n + 5
  <2>1. more \in BOOLEAN /\ cmd = Read(more)
    BY <1>0, <1>5
  <2>2. slave.reg = reg
    BY <1>5 DEF ReadPhase
  <2> HIDE DEF more
  <2>3. ack /\ Gives(more)
    BY <1>00, <2>1, OnRead
  <2>4. /\ Now(IF more THEN "read" ELSE "ignoring")
        /\ UNCHANGED <<tx, air, number, pending>>
        /\ slave.reg # "FIFOS" => Still
        /\ slave.reg = "FIFOS" => /\ rx' = IF rx = <<>> THEN rx ELSE Tail(rx)
                                  /\ step' = IF step = "out" THEN "out" ELSE "half"
    BY <2>1, <2>3, GivesIs
  <2>5. slave' = [phase |-> IF more THEN "read" ELSE "ignoring", reg |-> reg]
    BY <2>2, <2>4 DEF Now
  <2>6. ReadPhase(reg, n, k + 1)'
    <3>1. k + 1 \in 7..n + 6 /\ (more => k + 1 \in 6..n + 5) /\ (~more => k + 1 = n + 6)
      BY <1>5 DEF more
    <3>2. slave'.reg = reg /\ slave'.phase = IF more THEN "read" ELSE "ignoring"
      BY <2>5
    <3>3. QED
      BY <3>1, <3>2 DEF ReadPhase
  <2>7. QED
    BY <1>5, <2>2, <2>3, <2>4, <2>5, <2>6 DEF ReadDoes, Still, inbox
<1>6. CASE k = n + 6
  <2>1. cmd = Stop /\ slave.reg = reg
    BY <1>0, <1>6 DEF ReadPhase
  <2>2. ack /\ Still /\ Now("idle")
    BY <1>00, <2>1, OnStop
  <2>3. k + 1 = n + 7
    BY <1>6
  <2>4. ReadPhase(reg, n, k + 1)'
    BY <2>1, <2>2, <2>3 DEF ReadPhase, Now
  <2>5. QED
    BY <1>6, <2>2, <2>4 DEF ReadDoes, Still, Now, inbox
<1>7. \/ k = 1 \/ k = 4 \/ k = 2 \/ k = 3 \/ k = 5
      \/ k \in 6..n + 5 \/ k = n + 6
  OBVIOUS
<1>8. QED
  BY <1>1, <1>2, <1>3, <1>4, <1>5, <1>6, <1>7, Zenon

WriteDoes(reg, bytes, k, ack) ==
    /\ slave' = [phase |-> slave'.phase, reg |-> slave'.reg]
    /\ k \notin 4..Len(bytes) + 3 => Still
    /\ ack /\ k \in 4..Len(bytes) + 3 => Takes(reg, bytes[k - 3])
    /\ ack => WritePhase(reg, bytes, k + 1)'
    /\ ~ack => Still /\ k \in 2..Len(bytes) + 3 /\ slave'.phase = "ignoring"

\* A command of a write, carried out.
LEMMA WriteCarried ==
    ASSUME SlaveOk, NEW reg \in Bus, NEW bytes \in Seq(Value), Len(bytes) > 0,
           NEW k \in 1..Len(bytes) + 4, WritePhase(reg, bytes, k),
           NEW ack \in BOOLEAN, CarriedOut(WriteReg(reg, bytes)[k], ack)
    PROVE  WriteDoes(reg, bytes, k, ack)
<1> DEFINE cmd == WriteReg(reg, bytes)[k]
           n   == Len(bytes)
           b   == bytes[k - 3]
<1>0. /\ k = 1 => cmd = Start
      /\ k = 2 => cmd = AddrWrite
      /\ k = 3 => cmd = Select(reg)
      /\ k \in 4..n + 3 => cmd = Write(b)
      /\ k = n + 4 => cmd = Stop
  BY WriteRegIs
<1>00. CarriedOut(cmd, ack) /\ n \in Nat /\ n > 0 /\ k \in 1..n + 4
  OBVIOUS
<1>01. /\ k = 2 => slave.phase = "address"
       /\ k = 3 => slave.phase = "register"
       /\ k \in 4..n + 4 => slave.phase = "write" /\ slave.reg = reg
  BY DEF WritePhase
<1>02. ASSUME /\ k + 1 = 2 => slave'.phase = "address"
              /\ k + 1 = 3 => slave'.phase = "register"
              /\ k + 1 \in 4..n + 4 => slave'.phase = "write" /\ slave'.reg = reg
              /\ k + 1 = n + 5 => slave'.phase = "idle"
       PROVE  WritePhase(reg, bytes, k + 1)'
  BY <1>02 DEF WritePhase
<1>03. ASSUME slave' = [phase |-> slave'.phase, reg |-> slave'.reg],
              k \notin 4..n + 3 => Still,
              ack /\ k \in 4..n + 3 => Takes(reg, b),
              ack => WritePhase(reg, bytes, k + 1)',
              ~ack => Still /\ k \in 2..n + 3 /\ slave'.phase = "ignoring"
       PROVE  WriteDoes(reg, bytes, k, ack)
  BY <1>03, Zenon DEF WriteDoes
<1> HIDE DEF cmd, n, b
<1>1. CASE k = 1
  <2>1. ack /\ Still /\ Now("address")
    <3>1. cmd = Start
      BY <1>0, <1>1
    <3>2. QED
      BY <1>00, <3>1, OnStart
  <2>2. /\ k + 1 = 2 /\ k + 1 # 3 /\ k + 1 \notin 4..n + 4 /\ k + 1 # n + 5
        /\ k \notin 4..n + 3
    BY <1>00, <1>1
  <2>3. WritePhase(reg, bytes, k + 1)'
    BY <1>02, <2>1, <2>2 DEF Now
  <2>4. QED
    BY <1>03, <2>1, <2>2, <2>3 DEF Now
<1>2. CASE k = 2
  <2>1. cmd = Write(<<"ADDR", 0>>) /\ slave.phase = "address"
    BY <1>0, <1>01, <1>2 DEF AddrWrite
  <2>2. \/ ack /\ Still /\ Now("register")
        \/ ~ack /\ Still /\ Now("ignoring")
    <3>1. \/ ack /\ Acknowledges(<<"ADDR", 0>>)
          \/ ~ack /\ Still /\ Now("ignoring")
      BY <1>00, <2>1, OnWrite
    <3>2. ASSUME Acknowledges(<<"ADDR", 0>>)
          PROVE  Still /\ Now("register")
      <4>1. <<"ADDR", 0>> # <<"ADDR", 1>>
        OBVIOUS
      <4>2. Still /\ Now(IF <<"ADDR", 0>> = <<"ADDR", 1>> THEN "read" ELSE "register")
        BY <2>1, <3>2, AckAddress
      <4>3. QED
        BY <4>1, <4>2, Zenon
    <3>3. QED
      BY <3>1, <3>2, Zenon
  <2>3. /\ k + 1 = 3 /\ k + 1 # 2 /\ k + 1 \notin 4..n + 4 /\ k + 1 # n + 5
        /\ k \notin 4..n + 3 /\ k \in 2..n + 3
    BY <1>00, <1>2
  <2>4. ack => WritePhase(reg, bytes, k + 1)'
    <3>1. ack => slave'.phase = "register"
      BY <2>2 DEF Now
    <3>2. QED
      BY <1>02, <2>3, <3>1
  <2>5. QED
    BY <1>03, <2>2, <2>3, <2>4 DEF Now
<1>3. CASE k = 3
  <2>1. cmd = Write(<<reg, 0>>) /\ slave.phase = "register"
    BY <1>0, <1>01, <1>3 DEF Select
  <2>2. \/ ack /\ Still /\ slave' = [phase |-> "write", reg |-> reg]
        \/ ~ack /\ Still /\ Now("ignoring")
    <3>1. \/ ack /\ Acknowledges(<<reg, 0>>)
          \/ ~ack /\ Still /\ Now("ignoring")
      BY <1>00, <2>1, OnWrite
    <3>2. ASSUME Acknowledges(<<reg, 0>>)
          PROVE  Still /\ slave' = [phase |-> "write", reg |-> reg]
      <4>1. <<reg, 0>>[1] = reg
        OBVIOUS
      <4>2. Still /\ slave' = [phase |-> "write", reg |-> <<reg, 0>>[1]]
        BY <2>1, <3>2, AckRegister
      <4>3. QED
        BY <4>1, <4>2, Zenon
    <3>3. QED
      BY <3>1, <3>2, Zenon
  <2>3. /\ k + 1 = 4 /\ k + 1 # 2 /\ k + 1 # 3 /\ k + 1 # n + 5
        /\ k \notin 4..n + 3 /\ k \in 2..n + 3
    BY <1>00, <1>3
  <2>4. ack => WritePhase(reg, bytes, k + 1)'
    <3>1. ack => slave'.phase = "write" /\ slave'.reg = reg
      BY <2>2 DEF Now
    <3>2. QED
      BY <1>02, <2>3, <3>1
  <2>5. QED
    BY <1>03, <2>2, <2>3, <2>4 DEF Now
<1>4. CASE k \in 4..n + 3
  <2>0. k \in 4..n + 4
    BY <1>00, <1>4
  <2>1. cmd = Write(b) /\ slave.phase = "write" /\ slave.reg = reg
    BY <1>0, <1>01, <1>4, <2>0, Zenon
  <2>2. \/ ack /\ slave' = slave /\ Takes(reg, b)
        \/ ~ack /\ Still /\ Now("ignoring")
    <3>1. \/ ack /\ Acknowledges(b)
          \/ ~ack /\ Still /\ Now("ignoring")
      BY <1>00, <2>1, OnWrite
    <3>2. ASSUME Acknowledges(b)
          PROVE  slave' = slave /\ Takes(reg, b)
      <4>1. slave' = slave /\ Takes(slave.reg, b)
        BY <2>1, <3>2, AckValue
      <4>2. QED
        BY <2>1, <4>1, Zenon
    <3>3. QED
      BY <3>1, <3>2, Zenon
  <2>3. k + 1 \in 4..n + 4 /\ k + 1 # 2 /\ k + 1 # 3 /\ k + 1 # n + 5 /\ k \in 2..n + 3
    BY <1>00, <1>4
  <2>4. ack => WritePhase(reg, bytes, k + 1)'
    <3>1. ack => slave'.phase = "write" /\ slave'.reg = reg
      BY <2>1, <2>2
    <3>2. QED
      BY <1>02, <2>3, <3>1
  <2>5. slave' = [phase |-> slave'.phase, reg |-> slave'.reg]
    BY <2>2 DEF Now, SlaveOk
  <2>6. ~ack => Still /\ slave'.phase = "ignoring"
    BY <2>2 DEF Now
  <2>7. QED
    BY <1>03, <1>4, <2>2, <2>3, <2>4, <2>5, <2>6, Zenon
<1>5. CASE k = n + 4
  <2>1. cmd = Stop
    BY <1>0, <1>5
  <2>2. ack /\ Still /\ Now("idle")
    BY <1>00, <2>1, OnStop
  <2>3. k + 1 = n + 5 /\ k + 1 # 2 /\ k + 1 # 3 /\ k + 1 \notin 4..n + 4 /\ k \notin 4..n + 3
    BY <1>00, <1>5
  <2>4. WritePhase(reg, bytes, k + 1)'
    BY <1>02, <2>2, <2>3 DEF Now
  <2>5. QED
    BY <1>03, <2>2, <2>3, <2>4 DEF Now
<1>6. k = 1 \/ k = 2 \/ k = 3 \/ k \in 4..n + 3 \/ k = n + 4
  BY <1>00
<1>7. QED
  BY <1>1, <1>2, <1>3, <1>4, <1>5, <1>6, Zenon

\* After a byte that was not acknowledged the chip takes none.
LEMMA RefusedCarried ==
    ASSUME SlaveOk, slave.phase = "ignoring", NEW c, c = Stop \/ \E b : c = Write(b),
           NEW ack \in BOOLEAN, CarriedOut(c, ack)
    PROVE  /\ Still /\ slave' = [phase |-> slave'.phase, reg |-> slave'.reg]
           /\ ack => c = Stop /\ slave'.phase = "idle"
           /\ ~ack => c # Stop /\ slave'.phase = "ignoring"
<1>1. CASE c = Stop
  <2>1. ack /\ Still /\ Now("idle")
    BY <1>1, OnStop
  <2>2. QED
    BY <1>1, <2>1 DEF Now
<1>2. ASSUME NEW b, c = Write(b)
      PROVE  ~ack /\ Still /\ Now("ignoring") /\ c # Stop
  <2>1. \/ ack /\ Acknowledges(b)
        \/ ~ack /\ Still /\ Now("ignoring")
    BY <1>2, OnWrite
  <2>2. ~Acknowledges(b)
    BY AckNever
  <2>3. c # Stop
    <3>1. Stop.op = "stop" /\ Write(b).op = "write"
      BY DEF Stop, Write
    <3>2. QED
      BY <1>2, <3>1
  <2>4. QED
    BY <2>1, <2>2, <2>3, Zenon
<1>3. CASE \E b : c = Write(b)
  <2>1. ~ack /\ Still /\ Now("ignoring") /\ c # Stop
    BY <1>2, <1>3, Zenon
  <2>2. QED
    BY <2>1 DEF Now
<1>4. QED
  BY <1>1, <1>3
-----------------------------------------------------------------------------
(* The program's step with it.                                             *)

\* The kinds of commands.
LEMMA OpIs ==
    /\ Start.op = "start" /\ Stop.op = "stop"
    /\ \A b : Write(b).op = "write" /\ \A m : Read(m).op = "read"
  BY DEF Start, Stop, Write, Read

\* The commands of a read that get a byte.
LEMMA ReadOp ==
    ASSUME NEW reg \in Bus, NEW n \in Nat, NEW k \in 1..n + 6
    PROVE  ReadReg(reg, n)[k].op = "read" <=> k \in 6..n + 5
<1> DEFINE cmd == ReadReg(reg, n)[k]
<1>0. /\ k = 1 => cmd = Start
      /\ k = 2 => cmd = AddrWrite
      /\ k = 3 => cmd = Select(reg)
      /\ k = 4 => cmd = Start
      /\ k = 5 => cmd = AddrRead
      /\ k \in 6..n + 5 => cmd = Read(k < n + 5)
      /\ k = n + 6 => cmd = Stop
  BY ReadRegIs
<1> HIDE DEF cmd
<1>1. k \in 6..n + 5 => cmd.op = "read"
  BY <1>0, OpIs, Zenon
<1>2. k \notin 6..n + 5 => cmd.op \in {"start", "stop", "write"}
  <2>1. AddrWrite.op = "write" /\ Select(reg).op = "write" /\ AddrRead.op = "write"
    BY OpIs, Zenon DEF AddrWrite, AddrRead, Select
  <2>2. k \notin 6..n + 5 => k = 1 \/ k = 2 \/ k = 3 \/ k = 4 \/ k = 5 \/ k = n + 6
    OBVIOUS
  <2>3. Start.op = "start" /\ Stop.op = "stop"
    BY OpIs
  <2>4. QED
    BY <1>0, <2>1, <2>2, <2>3
<1>3. QED
  BY <1>1, <1>2 DEF cmd

\* No command of a write gets one.
LEMMA WriteOp ==
    ASSUME NEW reg \in Bus, NEW bytes \in Seq(Value), NEW k \in 1..Len(bytes) + 4
    PROVE  WriteReg(reg, bytes)[k].op \in {"start", "stop", "write"}
<1> DEFINE cmd == WriteReg(reg, bytes)[k]
           n   == Len(bytes)
           b   == bytes[k - 3]
<1>0. /\ k = 1 => cmd = Start
      /\ k = 2 => cmd = AddrWrite
      /\ k = 3 => cmd = Select(reg)
      /\ k \in 4..n + 3 => cmd = Write(b)
      /\ k = n + 4 => cmd = Stop
      /\ n \in Nat
  BY WriteRegIs
<1> HIDE DEF cmd, b
<1>1. /\ AddrWrite.op = "write" /\ Select(reg).op = "write" /\ Write(b).op = "write"
      /\ Start.op = "start" /\ Stop.op = "stop"
  BY OpIs, Zenon DEF AddrWrite, Select
<1>2. k = 1 \/ k = 2 \/ k = 3 \/ k \in 4..n + 3 \/ k = n + 4
  BY <1>0
<1> HIDE DEF n
<1>3. cmd.op \in {"start", "stop", "write"}
  BY <1>0, <1>1, <1>2
<1>4. QED
  BY <1>3 DEF cmd

\* Which transaction is left of, and where, is told by its length.
LEMMA ReadNotOver ==
    ASSUME NEW reg \in Bus, NEW n \in Nat, NEW k \in 1..n + 7
    PROVE  Onward(ReadReg(reg, n), k) = <<>> <=> k = n + 7
<1>1. Len(Onward(ReadReg(reg, n), k)) = n + 7 - k /\ Onward(ReadReg(reg, n), k) \in Seq(Cmd)
  BY ReadLength
<1> DEFINE l == Onward(ReadReg(reg, n), k)
<1>2. l = <<>> <=> Len(l) = 0
  BY <1>1
<1> HIDE DEF l
<1>3. l = <<>> <=> k = n + 7
  BY <1>1, <1>2 DEF l
<1>4. QED
  BY <1>3 DEF l

\* ... and so is a write.
LEMMA WriteNotOver ==
    ASSUME NEW reg \in Bus, NEW bytes \in Seq(Value), NEW k \in 1..Len(bytes) + 5
    PROVE  Onward(WriteReg(reg, bytes), k) = <<>> <=> k = Len(bytes) + 5
<1>1. /\ Len(Onward(WriteReg(reg, bytes), k)) = Len(bytes) + 5 - k
      /\ Onward(WriteReg(reg, bytes), k) \in Seq(Cmd)
  BY WriteLength
<1> DEFINE l == Onward(WriteReg(reg, bytes), k)
           n == Len(bytes)
<1>2. l = <<>> <=> Len(l) = 0
  BY <1>1
<1>3. Len(l) = n + 5 - k /\ n \in Nat
  BY <1>1
<1> HIDE DEF l, n
<1>4. l = <<>> <=> k = n + 5
  BY <1>2, <1>3
<1>5. QED
  BY <1>4 DEF l, n

\* What a read gets is a byte.
LEMMA ShownIs ==
    ASSUME rx \in Seq(RxByte)
    PROVE  Shown \in RxByte
<1>1. Other \in RxByte /\ RxEmpty \in RxByte
  BY DEF Other, RxEmpty, Byte, RxByte
<1>2. rx # <<>> => Head(rx) \in RxByte
  OBVIOUS
<1>3. QED
  BY <1>1, <1>2 DEF Shown

Kept == UNCHANGED <<call, at, raw, frame, result, staged>>

\* Issue, in a read: the chip and the transaction take the same step.
LEMMA ReadIssue ==
    ASSUME Types, Issue, NEW reg \in Bus, NEW n \in Nat \ {0}, NEW k \in 1..n + 7,
           Reading(reg, n, k)
    PROVE  /\ k \in 1..n + 6 /\ Kept
           /\ ReadDoes(reg, n, k, acked')
           /\ k \in 6..n + 5 => got' = Append(got, Shown)
           /\ k \notin 6..n + 5 => got' = got
           /\ acked' => Reading(reg, n, k + 1)'
           /\ ~acked' => todo' = AfterNack(Onward(ReadReg(reg, n), k + 1))
<1> DEFINE plan == ReadReg(reg, n)
           l    == Onward(plan, k)
           m    == Onward(plan, k + 1)
<1>1. todo = l /\ acked /\ ReadPhase(reg, n, k) /\ SlaveOk
  BY DEF Reading, Types, SlaveOk
<1>2. todo # <<>>
  BY DEF Issue
<1>3. k \in 1..n + 6
  <2>1. k # n + 7
    BY <1>1, <1>2, ReadNotOver, Zenon
  <2>2. QED
    BY <2>1
<1>4. Head(l) = plan[k] /\ Tail(l) = m
  BY <1>3, ReadLeft
<1>5. plan[k].op = "read" <=> k \in 6..n + 5
  BY <1>3, ReadOp
<1> HIDE DEF plan, l, m
<1>6. PICK ack \in BOOLEAN : /\ CarriedOut(plan[k], ack)
                             /\ acked' = (acked /\ ack)
                             /\ todo' = IF ack THEN m ELSE AfterNack(m)
  BY <1>1, <1>4, Zenon DEF Issue
<1>7. acked' = ack /\ (acked' <=> ack)
  BY <1>1, <1>6
<1>8. ReadDoes(reg, n, k, ack)
  BY <1>1, <1>3, <1>6, ReadCarried DEF plan
<1>9. /\ k \in 6..n + 5 => got' = Append(got, Shown)
      /\ k \notin 6..n + 5 => got' = got
  BY <1>1, <1>4, <1>5, Zenon DEF Issue
<1>10. ASSUME ack
       PROVE  Reading(reg, n, k + 1)'
  <2>1. todo' = m /\ acked'
    BY <1>6, <1>7, <1>10, Zenon
  <2>2. ReadPhase(reg, n, k + 1)'
    BY <1>8, <1>10, Zenon DEF ReadDoes
  <2>3. /\ k + 1 <= 6 => got' = <<>>
        /\ k + 1 \in 7..n + 6 => Len(got') = k + 1 - 6
        /\ k + 1 = n + 7 => Len(got') = n
    <3>1. /\ k <= 6 => got = <<>>
          /\ k \in 7..n + 6 => Len(got) = k - 6
      BY DEF Reading
    <3>2. got \in Seq(RxByte) /\ Shown \in RxByte
      BY ShownIs DEF Types
    <3>3. CASE k <= 5
      BY <1>3, <1>9, <3>1, <3>3
    <3>4. CASE k = 6
      <4>1. got' = Append(got, Shown) /\ got = <<>>
        BY <1>9, <3>1, <3>4
      <4>2. Len(got') = 1
        BY <3>2, <4>1
      <4> DEFINE len == Len(got')
      <4>3. len = 1
        BY <4>2
      <4> HIDE DEF len
      <4>4. /\ k + 1 \in 7..n + 6 => len = k + 1 - 6
            /\ k + 1 = n + 7 => len = n
            /\ ~(k + 1 <= 6)
        BY <1>3, <3>4, <4>3
      <4>5. QED
        BY <4>4 DEF len
    <3>5. CASE k \in 7..n + 5
      <4>1. Len(got') = Len(got) + 1
        BY <1>9, <3>2, <3>5
      <4>2. Len(got) = k - 6
        BY <3>1, <3>5
      <4>3. QED
        BY <3>5, <4>1, <4>2
    <3>6. CASE k = n + 6
      <4>1. k \notin 6..n + 5 /\ k \in 7..n + 6
        BY <3>6
      <4>2. got' = got /\ Len(got) = k - 6
        BY <1>9, <3>1, <4>1
      <4>3. QED
        BY <3>6, <4>2
    <3>7. k <= 5 \/ k = 6 \/ k \in 7..n + 5 \/ k = n + 6
      BY <1>3
    <3>8. QED
      BY <3>3, <3>4, <3>5, <3>6, <3>7, Zenon
  <2>4. todo' = Onward(ReadReg(reg, n), k + 1)
    BY <2>1 DEF m, plan
  <2>5. QED
    BY <2>1, <2>2, <2>3, <2>4 DEF Reading
<1>11. Kept
  BY DEF Issue, Kept
<1>12. ReadDoes(reg, n, k, acked')
  BY <1>7, <1>8
<1>13. ~acked' => todo' = AfterNack(m)
  BY <1>6, <1>7, Zenon
<1>14. acked' => Reading(reg, n, k + 1)'
  BY <1>7, <1>10, Zenon
<1>15. QED
  BY <1>3, <1>9, <1>11, <1>12, <1>13, <1>14, Zenon DEF m, plan

\* Issue, in a write.
LEMMA WriteIssue ==
    ASSUME Types, Issue, NEW reg \in Bus, NEW bytes \in Seq(Value), Len(bytes) > 0,
           NEW k \in 1..Len(bytes) + 5, Writing(reg, bytes, k)
    PROVE  /\ k \in 1..Len(bytes) + 4 /\ Kept /\ got' = got
           /\ WriteDoes(reg, bytes, k, acked')
           /\ acked' => Writing(reg, bytes, k + 1)'
           /\ ~acked' => todo' = AfterNack(Onward(WriteReg(reg, bytes), k + 1))
<1> DEFINE plan == WriteReg(reg, bytes)
           l    == Onward(plan, k)
           m    == Onward(plan, k + 1)
<1>1. todo = l /\ acked /\ WritePhase(reg, bytes, k) /\ SlaveOk /\ got = <<>>
  BY DEF Writing, Types, SlaveOk
<1>2. todo # <<>>
  BY DEF Issue
<1>3. k \in 1..Len(bytes) + 4
  <2>1. k # Len(bytes) + 5
    BY <1>1, <1>2, WriteNotOver, Zenon
  <2>2. QED
    BY <2>1
<1>4. Head(l) = plan[k] /\ Tail(l) = m
  BY <1>3, WriteLeft
<1>5. plan[k].op # "read"
  <2>1. plan[k].op \in {"start", "stop", "write"}
    BY <1>3, WriteOp
  <2>2. QED
    BY <2>1
<1> HIDE DEF plan, l, m
<1>6. PICK ack \in BOOLEAN : /\ CarriedOut(plan[k], ack)
                             /\ acked' = (acked /\ ack)
                             /\ todo' = IF ack THEN m ELSE AfterNack(m)
  BY <1>1, <1>4, Zenon DEF Issue
<1>7. acked' = ack /\ (acked' <=> ack)
  BY <1>1, <1>6
<1>8. WriteDoes(reg, bytes, k, ack)
  BY <1>1, <1>3, <1>6, WriteCarried DEF plan
<1>9. got' = got
  BY <1>1, <1>4, <1>5, Zenon DEF Issue
<1>10. ASSUME ack
       PROVE  Writing(reg, bytes, k + 1)'
  <2>1. todo' = m /\ acked' /\ got' = <<>>
    BY <1>1, <1>6, <1>7, <1>9, <1>10, Zenon
  <2>2. WritePhase(reg, bytes, k + 1)'
    BY <1>8, <1>10, Zenon DEF WriteDoes
  <2>3. QED
    BY <2>1, <2>2, Zenon DEF Writing, m, plan
<1>11. Kept
  BY DEF Issue, Kept
<1>12. WriteDoes(reg, bytes, k, acked')
  BY <1>7, <1>8
<1>13. ~acked' => todo' = AfterNack(m)
  BY <1>6, <1>7, Zenon
<1>14. acked' => Writing(reg, bytes, k + 1)'
  BY <1>7, <1>10, Zenon
<1>15. QED
  BY <1>3, <1>9, <1>11, <1>12, <1>13, <1>14, Zenon DEF m, plan

\* What write_reg_multi goes on with.
LEMMA AfterBurst ==
    ASSUME frame \in Frames, at = "burst", NEW j \in 3..Len(Tokens) + 4
    PROVE  \E i \in 4..Len(Tokens) + 4 :
             AfterNack(Onward(WriteReg("FIFOS", Tokens), j)) = Onward(WriteReg("FIFOS", Tokens), i)
<1> DEFINE plan == WriteReg("FIFOS", Tokens)
           n    == Len(Tokens)
<1>0. "FIFOS" \in Bus /\ Tokens \in Seq(Value) /\ n \in Nat /\ n > 0
  <2>1. Tokens \in Writes
    BY Zenon DEF Writes
  <2>2. QED
    BY <2>1, WritesAre DEF Bus
<1>1. /\ Head(Onward(plan, j)) = plan[j] /\ Tail(Onward(plan, j)) = Onward(plan, j + 1)
  <2>1. j \in 1..Len(Tokens) + 4
    BY <1>0
  <2>2. QED
    BY <1>0, <2>1, WriteLeft
<1>2. /\ j = 3 => plan[j] = Select("FIFOS")
      /\ j \in 4..n + 3 => plan[j] = Write(Tokens[j - 3])
      /\ j = n + 4 => plan[j] = Stop
  BY <1>0, WriteRegIs
<1>3. AfterNack(Onward(plan, j)) = IF plan[j] = Select("FIFOS") THEN Onward(plan, j + 1) ELSE Onward(plan, j)
  BY <1>1 DEF AfterNack
<1>4. CASE j = 3
  <2>1. AfterNack(Onward(plan, j)) = Onward(plan, 4)
    <3>1. j + 1 = 4 /\ plan[j] = Select("FIFOS")
      BY <1>2, <1>4
    <3> HIDE DEF plan
    <3>2. QED
      BY <1>3, <3>1
  <2>2. 4 \in 4..n + 4
    BY <1>0
  <2>3. QED
    BY <2>1, <2>2
<1>5. CASE j # 3
  <2>1. j \in 4..n + 4
    BY <1>5
  <2>2. plan[j] # Select("FIFOS")
    <3>1. CASE j \in 4..n + 3
      <4>1. j - 3 \in 1..Len(Tokens)
        BY <3>1
      <4>2. QED
        BY <1>2, <3>1, <4>1, TokenIsData
    <3>2. CASE j = n + 4
      <4>1. Stop.op = "stop" /\ Select("FIFOS").op = "write"
        BY OpIs, Zenon DEF Select
      <4>2. Stop # Select("FIFOS")
        BY <4>1
      <4>3. QED
        BY <1>2, <3>2, <4>2
    <3>3. QED
      BY <2>1, <3>1, <3>2
  <2>3. AfterNack(Onward(plan, j)) = Onward(plan, j)
    BY <1>3, <2>2, Zenon
  <2>4. QED
    BY <2>1, <2>3
<1>6. QED
  BY <1>4, <1>5
-----------------------------------------------------------------------------
(* The types.                                                              *)

\* The bytes of a message the partner sends.
LEMMA BytesAre ==
    ASSUME NEW m \in Message
    PROVE  /\ m.objects \in 0..7 /\ m.objects * ObjectLen \in Nat
           /\ Bytes(m) \in Seq(RxByte)
           /\ Len(Bytes(m)) = 3 + m.objects * ObjectLen + CrcLen
           /\ \A i \in 1..3 + m.objects * ObjectLen + CrcLen : Bytes(m)[i] = Byte(m, i)
<1> DEFINE n == 3 + m.objects * ObjectLen + CrcLen
<1>1. m.objects \in Objects /\ m.objects \in 0..7
  BY BridgeAssumption DEF Message
<1>2. m.objects * ObjectLen \in Nat /\ CrcLen \in Nat
  <2>1. m.objects \in Nat /\ ObjectLen \in Nat /\ CrcLen \in Nat
    BY <1>1, BridgeAssumption
  <2>2. QED
    BY <2>1
<1>3. n \in Nat
  <2> DEFINE d == m.objects * ObjectLen
  <2>1. d \in Nat
    BY <1>2
  <2> HIDE DEF d
  <2>2. 3 + d + CrcLen \in Nat
    BY <1>2, <2>1
  <2>3. QED
    BY <2>2 DEF d
<1> HIDE DEF n
<1>4. \A i \in 1..n : Byte(m, i) \in RxByte
  <2>1. \A i \in 1..n : i \in Nat
    BY <1>3
  <2>2. QED
    BY <2>1 DEF Byte, RxByte
<1>5. Bytes(m) = [i \in 1..n |-> Byte(m, i)]
  BY Zenon DEF Bytes, n
<1>6. Bytes(m) \in [1..n -> RxByte] /\ \A i \in 1..n : Bytes(m)[i] = Byte(m, i)
  BY <1>4, <1>5, Zenon
<1>7. Bytes(m) \in Seq(RxByte) /\ Len(Bytes(m)) = n
  BY <1>3, <1>6
<1>8. QED
  BY <1>1, <1>2, <1>6, <1>7 DEF n

\* A command keeps the types of the chip's state.
LEMMA CarriedTypes ==
    ASSUME Types, NEW c, NEW ack \in BOOLEAN, CarriedOut(c, ack)
    PROVE  /\ slave' = [phase |-> slave'.phase, reg |-> slave'.reg]
           /\ rx' \in Seq(RxByte) /\ pending' \in Seq(Message) /\ number' = number
<1> USE DEF Types
<1>1. ASSUME NEW p, Phase(p)
      PROVE  slave' = [phase |-> slave'.phase, reg |-> slave'.reg]
  BY <1>1 DEF Phase
<1>2. ASSUME KeepRx
      PROVE  rx' \in Seq(RxByte) /\ pending' \in Seq(Message) /\ number' = number
  BY <1>2 DEF KeepRx, inbox
<1>3. ASSUME EmptyRx
      PROVE  rx' \in Seq(RxByte) /\ pending' \in Seq(Message) /\ number' = number
  BY <1>3 DEF EmptyRx
<1>4. ASSUME NEW more, Gives(more)
      PROVE  /\ slave' = [phase |-> slave'.phase, reg |-> slave'.reg]
             /\ rx' \in Seq(RxByte) /\ pending' \in Seq(Message) /\ number' = number
  <2>1. slave' = [phase |-> slave'.phase, reg |-> slave'.reg]
    BY <1>1, <1>4 DEF Gives
  <2>2. /\ rx' = rx \/ (rx # <<>> /\ rx' = Tail(rx)) \/ (rx = <<>> /\ rx' = rx)
        /\ UNCHANGED <<number, pending>>
    BY <1>4 DEF Gives, KeepRx, inbox
  <2>3. rx' \in Seq(RxByte)
    <3>1. rx \in Seq(RxByte)
      OBVIOUS
    <3>2. rx # <<>> => Tail(rx) \in Seq(RxByte)
      BY <3>1
    <3>3. QED
      BY <2>2, <3>1, <3>2, Zenon
  <2>4. QED
    BY <2>1, <2>2, <2>3
<1>5. ASSUME NEW reg, NEW b, Takes(reg, b)
      PROVE  rx' \in Seq(RxByte) /\ pending' \in Seq(Message) /\ number' = number
  BY <1>2, <1>3, <1>5, Zenon DEF Takes
<1>6. ASSUME NEW b, Acknowledges(b)
      PROVE  /\ slave' = [phase |-> slave'.phase, reg |-> slave'.reg]
             /\ rx' \in Seq(RxByte) /\ pending' \in Seq(Message) /\ number' = number
  <2>1. \/ (\E p : Phase(p)) /\ KeepRx
        \/ slave' = [phase |-> "write", reg |-> b[1]] /\ KeepRx
        \/ Takes(slave.reg, b) /\ UNCHANGED slave
    BY <1>6, Zenon DEF Acknowledges
  <2>2. CASE (\E p : Phase(p)) /\ KeepRx
    BY <1>1, <1>2, <2>2
  <2>3. CASE slave' = [phase |-> "write", reg |-> b[1]] /\ KeepRx
    BY <1>2, <2>3
  <2>4. CASE Takes(slave.reg, b) /\ UNCHANGED slave
    BY <1>5, <2>4
  <2>5. QED
    BY <2>1, <2>2, <2>3, <2>4
<1>7. \/ (\E p : Phase(p)) /\ KeepRx
      \/ Acknowledges(c.byte)
      \/ Gives(c.ack)
  BY Zenon DEF CarriedOut
<1>8. QED
  BY <1>1, <1>2, <1>4, <1>6, <1>7

\* The types hold at first ...
LEMMA TypesInit == Init => Types
<1>1. Init => slave = [phase |-> slave.phase, reg |-> slave.reg]
  BY DEF Init
<1>2. Init => /\ rx \in Seq(RxByte) /\ got \in Seq(RxByte)
              /\ pending \in Seq(Message) /\ number \in 0..Numbers - 1
              /\ frame \in Frames
  BY BridgeAssumption DEF Init
<1>3. QED
  BY <1>1, <1>2 DEF Types

\* ... and every step keeps them.
LEMMA TypesNext ==
    ASSUME Types, [Next]_vars
    PROVE  Types'
<1> USE DEF Types
<1>0. <<>> \in Seq(RxByte) /\ <<>> \in Seq(Message)
  OBVIOUS
<1>1. CASE Issue
  <2>1. PICK ack \in BOOLEAN : CarriedOut(Head(todo), ack)
    BY <1>1, Zenon DEF Issue
  <2>2. got' \in Seq(RxByte)
    <3>1. Shown \in RxByte
      BY ShownIs
    <3>2. got' = got \/ got' = Append(got, Shown)
      BY <1>1, Zenon DEF Issue
    <3>3. QED
      BY <3>1, <3>2
  <2>3. frame' = frame
    BY <1>1 DEF Issue
  <2>4. QED
    BY <2>1, <2>2, <2>3, CarriedTypes
<1>2. CASE IssueFails
  <2>1. got' = <<>> /\ frame' = frame
    BY <1>2 DEF IssueFails, Return
  <2>2. CASE UNCHANGED <<chip, inbox>>
    BY <2>1, <2>2 DEF chip, inbox
  <2>3. CASE \E ack \in BOOLEAN : CarriedOut(Head(todo), ack)
    <3>1. PICK ack \in BOOLEAN : CarriedOut(Head(todo), ack)
      BY <2>3
    <3>2. QED
      BY <2>1, <3>1, CarriedTypes
  <2>4. QED
    BY <1>2, <2>2, <2>3 DEF IssueFails
<1>3. CASE OpenFails \/ NotAcknowledged \/ PollStatus \/ PollHead
           \/ SendFlush \/ SendFrame \/ SendDone \/ RegisterDone
  <2>1. UNCHANGED <<chip, inbox, frame>> /\ (got' = got \/ got' = <<>>)
    BY <1>3 DEF OpenFails, NotAcknowledged, PollStatus, PollHead, SendFlush, SendFrame,
                SendDone, RegisterDone, Return, Continue
  <2>2. QED
    BY <1>0, <2>1 DEF chip, inbox
<1>4. CASE PollRest
  <2>1. /\ UNCHANGED <<slave, rx, number, frame>> /\ got' = <<>>
        /\ pending' = pending \/ (step = "half" /\ pending' = Tail(pending))
    BY <1>4 DEF PollRest, Return, chip
  <2>2. pending' \in Seq(Message)
    <3>1. pending = <<>> => Tail(pending) \in Seq(Message)
      <4>1. Tail(<<>>) = <<>>
        OBVIOUS
      <4>2. QED
        BY <4>1
    <3>2. pending # <<>> => Tail(pending) \in Seq(Message)
      OBVIOUS
    <3>3. QED
      BY <2>1, <3>1, <3>2
  <2>3. QED
    BY <2>1, <2>2
<1>5. CASE Client /\ ~OpenFails
  <2>1. /\ UNCHANGED <<slave, rx, number, got>>
        /\ pending' = pending \/ pending' = <<>>
        /\ frame' = frame \/ frame' \in Frames
    BY <1>5 DEF Client, Poll, Fire, ReadRegister, WriteRegister, Send, Begin
  <2>2. QED
    BY <1>0, <2>1
<1>6. ASSUME NEW n \in Objects, Arrives(n)
      PROVE  Types'
  <2> DEFINE m == [number |-> number, objects |-> n]
  <2>1. m \in Message
    BY DEF Message
  <2>2. Bytes(m) \in Seq(RxByte)
    BY <2>1, BytesAre
  <2>3. /\ rx' = rx \o Bytes(m)
        /\ number' = (number + 1) % Numbers
        /\ pending' = pending \/ pending' = Append(pending, m)
        /\ UNCHANGED <<slave, got, frame>>
    BY <1>6 DEF Arrives, program
  <2> HIDE DEF m
  <2>4. rx' \in Seq(RxByte) /\ pending' \in Seq(Message)
    <3> DEFINE b == Bytes(m)
    <3>1. b \in Seq(RxByte) /\ rx' = rx \o b
      BY <2>2, <2>3
    <3> HIDE DEF b
    <3>2. rx' \in Seq(RxByte)
      BY <3>1
    <3>3. Append(pending, m) \in Seq(Message) /\ pending \in Seq(Message)
      BY <2>1
    <3>4. QED
      BY <2>3, <3>2, <3>3, Zenon
  <2>5. number' \in 0..Numbers - 1
    BY <2>3, BridgeAssumption
  <2>6. QED
    BY <2>3, <2>4, <2>5
<1>7. CASE UNCHANGED vars
  BY <1>7 DEF vars, program, chip, inbox
<1>8. QED
  BY <1>1, <1>2, <1>3, <1>4, <1>5, <1>6, <1>7, Zenon DEF Next, Program, Client
-----------------------------------------------------------------------------
(* The bus.                                                                *)

PlacedRead == \E reg \in Bus, n \in Amounts :
                Asks(reg, n) /\ \E k \in 1..n + 7 : Reading(reg, n, k)
PlacedWrite == \E reg \in Bus, bytes \in Writes :
                 Tells(reg, bytes) /\ \E k \in 1..Len(bytes) + 5 : Writing(reg, bytes, k)

\* The four cases of Placed.
LEMMA PlacedIs == Placed <=> Idle \/ Refused \/ PlacedRead \/ PlacedWrite
  BY Zenon DEF Placed, PlacedRead, PlacedWrite

\* A read that begins is in its place.
LEMMA ReadBegins ==
    ASSUME NEW reg \in Bus, NEW n \in Amounts,
           todo' = ReadReg(reg, n), acked', got' = <<>>, Asks(reg, n)'
    PROVE  Placed'
<1>1. n \in Nat \ {0}
  BY AmountsAre
<1>2. todo' = Onward(ReadReg(reg, n), 1)
  BY <1>1, ReadStarts
<1>3. 1 \in 1..n + 7 /\ 1 \notin 6..n + 5 /\ 1 # n + 6 /\ 1 # n + 7
  BY <1>1
<1>4. ReadPhase(reg, n, 1)'
  BY <1>3 DEF ReadPhase
<1>5. Reading(reg, n, 1)'
  BY <1>2, <1>3, <1>4 DEF Reading
<1>6. PlacedRead'
  BY <1>3, <1>5, Zenon DEF PlacedRead, Amounts
<1>7. QED
  BY <1>6, PlacedIs, PTL

\* read_reg and write_reg go on with a STOP.
LEMMA AfterOther ==
    ASSUME at # "burst", NEW rest
    PROVE  AfterNack(rest) = <<Stop>>
  BY DEF AfterNack

WritesTyped == \A bytes \in Writes : bytes \in Seq(Value) /\ Len(bytes) > 0

\* The writes there are in a state with the types.
LEMMA TypesWrite == Types => WritesTyped
  BY WritesAre DEF Types, WritesTyped

\* A write that begins is in its place.
LEMMA WriteBegins ==
    ASSUME Types', NEW reg \in Bus, NEW bytes, bytes \in Writes',
           todo' = WriteReg(reg, bytes), acked', got' = <<>>, Tells(reg, bytes)'
    PROVE  Placed'
<1>1. bytes \in Seq(Value) /\ Len(bytes) \in Nat /\ Len(bytes) > 0
  <2>1. WritesTyped'
    BY TypesWrite, PTL
  <2>2. bytes \in Seq(Value) /\ Len(bytes) > 0
    BY <2>1 DEF WritesTyped
  <2>3. QED
    BY <2>2
<1>2. todo' = Onward(WriteReg(reg, bytes), 1)
  BY <1>1, WriteStarts
<1> DEFINE l == Len(bytes)
<1>3. 1 \in 1..l + 5 /\ 1 \notin 4..l + 4 /\ 1 # l + 5
  <2>1. l \in Nat
    BY <1>1
  <2> HIDE DEF l
  <2>2. QED
    BY <2>1
<1>4. WritePhase(reg, bytes, 1)'
  BY <1>3 DEF WritePhase
<1>5. Writing(reg, bytes, 1)'
  BY <1>2, <1>4 DEF Writing
<1>6. PlacedWrite'
  BY <1>3, <1>5, Zenon DEF PlacedWrite, l
<1>7. QED
  BY <1>6, PlacedIs, PTL

\* A transaction without commands left has the chip off the bus.
LEMMA IsOver ==
    ASSUME Types, Placed, call # "idle", todo = <<>>
    PROVE  /\ slave.phase = "idle"
           /\ acked => \E reg \in Bus : \/ \E n \in Amounts : Asks(reg, n) /\ Reading(reg, n, n + 7)
                                        \/ \E bytes \in Writes : Tells(reg, bytes)
           /\ acked /\ at = "burst" => Writing("FIFOS", Tokens, Len(Tokens) + 5)
<1>1. CASE Refused
  <2>1. ASSUME NEW k \in 4..Len(Tokens) + 4
        PROVE  Onward(WriteReg("FIFOS", Tokens), k) # <<>>
    <3>1. "FIFOS" \in Bus /\ Tokens \in Writes /\ frame \in Frames
      BY DEF Types, Writes, Bus
    <3>2. Tokens \in Seq(Value) /\ Len(Tokens) \in Nat
      BY <3>1, WritesAre
    <3> DEFINE l == Len(Tokens)
    <3>3. k \in 1..l + 5 /\ k # l + 5
      <4>1. l \in Nat /\ k \in 4..l + 4
        BY <3>2
      <4> HIDE DEF l
      <4>2. QED
        BY <4>1
    <3>4. QED
      BY <3>1, <3>2, <3>3, WriteNotOver DEF l
  <2>2. <<Stop>> # <<>>
    OBVIOUS
  <2>3. slave.phase = "idle" /\ ~acked
    BY <1>1, <2>1, <2>2, Zenon DEF Refused
  <2>4. QED
    BY <2>3
<1>2. CASE PlacedRead
  <2>1. PICK reg \in Bus, n \in Amounts : Asks(reg, n) /\ \E k \in 1..n + 7 : Reading(reg, n, k)
    BY <1>2 DEF PlacedRead
  <2>2. PICK k \in 1..n + 7 : Reading(reg, n, k)
    BY <2>1
  <2>3. n \in Nat \ {0}
    BY AmountsAre
  <2>4. k = n + 7
    <3>1. Onward(ReadReg(reg, n), k) = <<>>
      BY <2>2 DEF Reading
    <3>2. QED
      BY <2>3, <3>1, ReadNotOver
  <2>5. Reading(reg, n, n + 7)
    BY <2>2, <2>4
  <2>6. slave.phase = "idle"
    BY <2>3, <2>5 DEF Reading, ReadPhase
  <2>7. at # "burst"
    BY <2>1 DEF Asks
  <2>8. QED
    BY <2>1, <2>5, <2>6, <2>7
<1>3. CASE PlacedWrite
  <2>1. PICK reg \in Bus, bytes \in Writes :
          Tells(reg, bytes) /\ \E k \in 1..Len(bytes) + 5 : Writing(reg, bytes, k)
    BY <1>3 DEF PlacedWrite
  <2>2. PICK k \in 1..Len(bytes) + 5 : Writing(reg, bytes, k)
    BY <2>1
  <2>3. bytes \in Seq(Value)
    BY WritesAre DEF Types
  <2>4. k = Len(bytes) + 5
    <3>1. Onward(WriteReg(reg, bytes), k) = <<>>
      BY <2>2 DEF Writing
    <3>2. QED
      BY <2>3, <3>1, WriteNotOver
  <2>5. Writing(reg, bytes, Len(bytes) + 5)
    BY <2>2, <2>4
  <2>6. slave.phase = "idle"
    BY <2>5, Zenon DEF Writing, WritePhase
  <2>7. at = "burst" => reg = "FIFOS" /\ bytes = Tokens
    BY <2>1 DEF Tells
  <2>8. at = "burst" => Writing("FIFOS", Tokens, Len(Tokens) + 5)
    BY <2>5, <2>7, Zenon
  <2>9. QED
    BY <2>1, <2>6, <2>8
<1>4. QED
  BY <1>1, <1>2, <1>3, PlacedIs DEF Idle

\* A command of a transaction that goes on after a refused byte.
LEMMA RefusedIssue ==
    ASSUME Types, Refused, Issue
    PROVE  Refused' /\ Still /\ Kept /\ got' = got
<1>1. frame \in Frames /\ SlaveOk /\ ~acked /\ call # "idle" /\ todo # <<>>
  BY DEF Types, SlaveOk, Refused, Issue
<1>2. Kept
  BY DEF Issue, Kept
<1>3. PICK ack \in BOOLEAN : /\ CarriedOut(Head(todo), ack)
                             /\ acked' = (acked /\ ack)
                             /\ todo' = IF ack THEN Tail(todo) ELSE AfterNack(Tail(todo))
  BY Zenon DEF Issue
<1>4. ~acked'
  BY <1>1, <1>3
<1>5. slave.phase = "ignoring"
  BY <1>1 DEF Refused
<1>6. CASE at # "burst" /\ todo = <<Stop>>
  <2>1. Head(todo) = Stop /\ Tail(todo) = <<>>
    BY <1>6
  <2>2. ack /\ Still /\ Now("idle")
    BY <1>1, <1>3, <2>1, OnStop
  <2>3. todo' = <<>> /\ slave'.phase = "idle" /\ call' = call
    BY <1>2, <1>3, <2>1, <2>2 DEF Now, Kept
  <2>4. Refused'
    BY <1>1, <1>4, <2>3 DEF Refused
  <2>5. got' = got
    <3>1. Stop.op # "read"
      BY OpIs
    <3>2. QED
      BY <2>1, <3>1, Zenon DEF Issue
  <2>6. QED
    BY <1>2, <2>2, <2>4, <2>5
<1>7. CASE at = "burst" /\ \E k \in 4..Len(Tokens) + 4 : todo = Onward(WriteReg("FIFOS", Tokens), k)
  <2> DEFINE plan == WriteReg("FIFOS", Tokens)
             l == Len(Tokens)
  <2>1. PICK k \in 4..l + 4 : todo = Onward(plan, k)
    BY <1>7
  <2>2. "FIFOS" \in Bus /\ Tokens \in Seq(Value) /\ l \in Nat
    <3>1. Tokens \in Writes
      BY Zenon DEF Writes
    <3>2. QED
      BY <1>1, <3>1, WritesAre DEF Bus
  <2>3. k \in 1..l + 4 /\ k + 1 \in 4..l + 5 /\ (k # l + 4 => k + 1 \in 3..l + 4)
    <3> HIDE DEF l
    <3>1. QED
      BY <2>2
  <2>4. /\ Head(todo) = plan[k] /\ Tail(todo) = Onward(plan, k + 1)
    BY <2>1, <2>2, <2>3, WriteLeft
  <2>5. /\ k \in 4..l + 3 => plan[k] = Write(Tokens[k - 3])
        /\ k = l + 4 => plan[k] = Stop
    BY <2>2, WriteRegIs
  <2> HIDE DEF plan, l
  <2>6. k \in 4..l + 3 \/ k = l + 4
    BY <2>2
  <2>7. plan[k] = Stop \/ \E b : plan[k] = Write(b)
    BY <2>5, <2>6
  <2>8. /\ Still
        /\ ack => plan[k] = Stop /\ slave'.phase = "idle"
        /\ ~ack => plan[k] # Stop /\ slave'.phase = "ignoring"
    BY <1>1, <1>3, <1>5, <2>4, <2>7, RefusedCarried
  <2>9. got' = got
    <3>1. plan[k].op # "read"
      BY <2>5, <2>6, OpIs
    <3>2. QED
      BY <2>4, <3>1, Zenon DEF Issue
  <2>10. Tokens' = Tokens /\ at' = at /\ call' = call
    BY <1>2 DEF Kept, Tokens
  <2>11. CASE ack
    <3>1. k = l + 4
      <4>1. k \in 4..l + 3 => plan[k].op = "write"
        BY <2>5, OpIs
      <4>2. plan[k].op = "stop"
        BY <2>8, <2>11, OpIs
      <4>3. QED
        BY <2>6, <4>1, <4>2
    <3>2. todo' = <<>>
      <4>1. k + 1 = l + 5 /\ k + 1 \in 1..l + 5
        BY <2>2, <3>1
      <4>2. Onward(plan, k + 1) = <<>>
        BY <2>2, <4>1, WriteNotOver DEF plan, l
      <4>3. QED
        BY <1>3, <2>4, <2>11, <4>2, Zenon
    <3>3. Refused'
      BY <1>1, <1>4, <2>8, <2>10, <2>11, <3>2 DEF Refused
    <3>4. QED
      BY <1>2, <2>8, <2>9, <3>3
  <2>12. CASE ~ack
    <3>1. k # l + 4
      BY <2>5, <2>8, <2>12
    <3>2. k + 1 \in 3..l + 4
      BY <2>3, <3>1
    <3>3. \E i \in 4..l + 4 : AfterNack(Onward(plan, k + 1)) = Onward(plan, i)
      BY <1>1, <1>7, <3>2, AfterBurst DEF plan, l
    <3>4. \E i \in 4..l + 4 : todo' = Onward(plan, i)
      BY <1>3, <2>4, <2>12, <3>3, Zenon
    <3>5. (\E i \in 4..Len(Tokens) + 4 : todo = Onward(WriteReg("FIFOS", Tokens), i))'
      BY <2>10, <3>4 DEF plan, l
    <3>6. slave'.phase = "ignoring" /\ at' = "burst" /\ call' # "idle"
      BY <1>1, <1>7, <2>8, <2>10, <2>12
    <3>7. Refused'
      BY <1>4, <3>5, <3>6, Zenon DEF Refused
    <3>8. QED
      BY <1>2, <2>8, <2>9, <3>7
  <2>13. QED
    BY <2>11, <2>12
<1>8. QED
  BY <1>1, <1>6, <1>7, Zenon DEF Refused
-----------------------------------------------------------------------------
\* Issue keeps every transaction in its place.
LEMMA PlacedIssue ==
    ASSUME Types, Placed, Issue
    PROVE  Placed'
<1>1. todo # <<>>
  BY DEF Issue
<1>2. CASE Refused
  <2>1. Refused'
    BY <1>2, RefusedIssue
  <2>2. QED
    BY <2>1, PlacedIs, PTL
<1>3. CASE PlacedRead
  <2>1. PICK reg \in Bus, n \in Amounts : Asks(reg, n) /\ \E k \in 1..n + 7 : Reading(reg, n, k)
    BY <1>3 DEF PlacedRead
  <2>2. PICK k \in 1..n + 7 : Reading(reg, n, k)
    BY <2>1
  <2>3. n \in Nat \ {0}
    BY AmountsAre
  <2>4. k \in 1..n + 6
    BY <2>2, <2>3, ReadIssue
  <2>5. Kept
    BY <2>2, <2>3, ReadIssue
  <2>6. CASE acked'
    <3>1. Reading(reg, n, k + 1)'
      BY <2>2, <2>3, <2>6, ReadIssue
    <3>2. Asks(reg, n)'
      BY <2>1, <2>5 DEF Kept, Asks
    <3>3. k + 1 \in 1..n + 7
      BY <2>3, <2>4
    <3>4. PlacedRead'
      BY <3>1, <3>2, <3>3, Zenon DEF PlacedRead, Amounts
    <3>5. QED
      BY <3>4, PlacedIs, PTL
  <2>7. CASE ~acked'
    <3>1. at # "burst" /\ call # "idle"
      BY <2>1 DEF Asks
    <3>2. todo' = AfterNack(Onward(ReadReg(reg, n), k + 1))
      BY <2>2, <2>3, <2>7, ReadIssue
    <3>3. todo' = <<Stop>>
      BY <3>1, <3>2, AfterOther
    <3>4. ReadDoes(reg, n, k, acked')
      BY <2>2, <2>3, ReadIssue
    <3>5. slave'.phase = "ignoring"
      BY <2>7, <3>4, Zenon DEF ReadDoes
    <3>6. Refused'
      BY <2>5, <2>7, <3>1, <3>3, <3>5 DEF Refused, Kept
    <3>7. QED
      BY <3>6, PlacedIs, PTL
  <2>8. QED
    BY <2>6, <2>7
<1>4. CASE PlacedWrite
  <2>1. PICK reg \in Bus, bytes \in Writes :
          Tells(reg, bytes) /\ \E k \in 1..Len(bytes) + 5 : Writing(reg, bytes, k)
    BY <1>4 DEF PlacedWrite
  <2>2. PICK k \in 1..Len(bytes) + 5 : Writing(reg, bytes, k)
    BY <2>1
  <2>3. bytes \in Seq(Value) /\ Len(bytes) > 0 /\ Len(bytes) \in Nat
    <3>1. bytes \in Seq(Value) /\ Len(bytes) > 0
      BY TypesWrite DEF WritesTyped
    <3>2. QED
      BY <3>1
  <2>4. k \in 1..Len(bytes) + 4
    BY <2>2, <2>3, WriteIssue
  <2>5. Kept
    BY <2>2, <2>3, WriteIssue
  <2>6. CASE acked'
    <3>1. Writing(reg, bytes, k + 1)'
      BY <2>2, <2>3, <2>6, WriteIssue
    <3>2. Tells(reg, bytes)'
      BY <2>1, <2>5 DEF Kept, Tells, Tokens
    <3>3. k + 1 \in 1..Len(bytes) + 5
      <4> DEFINE l == Len(bytes)
      <4>1. l \in Nat /\ k \in 1..l + 4
        BY <2>3, <2>4
      <4> HIDE DEF l
      <4>2. k + 1 \in 1..l + 5
        BY <4>1
      <4>3. QED
        BY <4>2 DEF l
    <3>4. bytes \in Writes'
      BY <2>5 DEF Writes, Tokens, Kept
    <3>5. PlacedWrite'
      BY <3>1, <3>2, <3>3, <3>4, Zenon DEF PlacedWrite
    <3>6. QED
      BY <3>5, PlacedIs, PTL
  <2>7. CASE ~acked'
    <3>1. call # "idle"
      BY <2>1 DEF Tells
    <3>2. todo' = AfterNack(Onward(WriteReg(reg, bytes), k + 1))
      BY <2>2, <2>3, <2>7, WriteIssue
    <3>3. WriteDoes(reg, bytes, k, acked')
      BY <2>2, <2>3, WriteIssue
    <3>4. slave'.phase = "ignoring" /\ k \in 2..Len(bytes) + 3
      BY <2>7, <3>3, Zenon DEF WriteDoes
    <3>5. CASE at # "burst"
      <4>1. todo' = <<Stop>>
        BY <3>2, <3>5, AfterOther
      <4>2. Refused'
        BY <2>5, <2>7, <3>1, <3>4, <3>5, <4>1 DEF Refused, Kept
      <4>3. QED
        BY <4>2, PlacedIs, PTL
    <3>6. CASE at = "burst"
      <4>1. reg = "FIFOS" /\ bytes = Tokens /\ frame \in Frames
        BY <2>1, <3>6 DEF Tells, Types
      <4> DEFINE l == Len(Tokens)
      <4>2. k + 1 \in 3..l + 4
        <5>1. k \in 2..l + 3 /\ l \in Nat
          BY <2>3, <3>4, <4>1
        <5> HIDE DEF l
        <5>2. QED
          BY <5>1
      <4>3. \E i \in 4..l + 4 : AfterNack(Onward(WriteReg("FIFOS", Tokens), k + 1))
                                  = Onward(WriteReg("FIFOS", Tokens), i)
        BY <3>6, <4>1, <4>2, AfterBurst
      <4>4. Tokens' = Tokens /\ at' = at /\ call' = call
        BY <2>5 DEF Kept, Tokens
      <4>5. todo' = AfterNack(Onward(WriteReg("FIFOS", Tokens), k + 1))
        BY <3>2, <4>1
      <4>6. \E i \in 4..l + 4 : todo' = Onward(WriteReg("FIFOS", Tokens), i)
        BY <4>3, <4>5, Zenon
      <4>7. (\E i \in 4..Len(Tokens) + 4 : todo = Onward(WriteReg("FIFOS", Tokens), i))'
        BY <4>4, <4>6
      <4>8. Refused'
        BY <2>7, <3>1, <3>4, <3>6, <4>4, <4>7, Zenon DEF Refused
      <4>9. QED
        BY <4>8, PlacedIs, PTL
    <3>7. QED
      BY <3>5, <3>6
  <2>8. QED
    BY <2>6, <2>7
<1>5. QED
  BY <1>1, <1>2, <1>3, <1>4, PlacedIs DEF Idle

\* The call returns; all that it leaves is the chip off the bus.
LEMMA PlacedReturn ==
    ASSUME NEW r, Return(r), r # "error" => slave'.phase = "idle"
    PROVE  Placed'
<1>1. Idle'
  BY DEF Return, Idle
<1>2. QED
  BY <1>1, PlacedIs, PTL

\* So does a step that changes neither program nor chip.
LEMMA PlacedSame ==
    ASSUME UNCHANGED <<call, at, todo, acked, got, frame, result, staged, slave>>, Placed
    PROVE  Placed'
<1>1. Idle => Idle'
  BY DEF Idle
<1>2. Refused => Refused'
  BY DEF Refused, Tokens
<1>3. PlacedRead => PlacedRead'
  <2>1. \A reg \in Bus, n \in Amounts : Asks(reg, n) => Asks(reg, n)'
    BY DEF Asks
  <2>2. \A reg, n, k : Reading(reg, n, k) => Reading(reg, n, k)'
    BY DEF Reading, ReadPhase
  <2>3. QED
    BY <2>1, <2>2, Zenon DEF PlacedRead, Amounts
<1>4. PlacedWrite => PlacedWrite'
  <2>1. \A reg, bytes : Tells(reg, bytes) => Tells(reg, bytes)'
    BY DEF Tells, Tokens
  <2>2. \A reg, bytes, k : Writing(reg, bytes, k) => Writing(reg, bytes, k)'
    BY DEF Writing, WritePhase
  <2>3. Writes' = Writes
    BY DEF Writes, Tokens
  <2>4. QED
    BY <2>1, <2>2, <2>3, Zenon DEF PlacedWrite
<1>5. Idle' \/ Refused' \/ PlacedRead' \/ PlacedWrite'
  BY <1>1, <1>2, <1>3, <1>4, PlacedIs
<1>6. QED
  BY <1>5, PlacedIs, PTL
-----------------------------------------------------------------------------
\* BusInv holds at first ...
LEMMA BusInit == Init => BusInv
<1>1. Init => Idle
  BY DEF Init, Idle
<1>2. QED
  BY <1>1, TypesInit, PlacedIs DEF BusInv

\* What a transaction that is over leaves to the step that follows it.
LEMMA FinishedIs ==
    ASSUME BusInv, NEW t, Finished(t)
    PROVE  /\ slave.phase = "idle"
           /\ at = t /\ acked /\ todo = <<>> /\ call # "idle"
           /\ t = "status" \/ t = "head" \/ t = "rest" => call = "poll"
           /\ t = "control0" \/ t = "flush" => call \in {"tx", "stage"}
           /\ t = "burst" => call \in {"tx", "stage", "fire"}
           /\ t = "head" => Len(got) = 3
           /\ t = "status" => Len(got) = 1
<1>1. at = t /\ acked /\ todo = <<>> /\ call # "idle"
  BY DEF Finished
<1>2. slave.phase = "idle"
  BY <1>1, IsOver DEF BusInv
<1>3. PICK reg \in Bus : \/ \E n \in Amounts : Asks(reg, n) /\ Reading(reg, n, n + 7)
                         \/ \E bytes \in Writes : Tells(reg, bytes)
  BY <1>1, IsOver DEF BusInv
<1>4. CASE \E bytes \in Writes : Tells(reg, bytes)
  BY <1>1, <1>2, <1>4 DEF Tells
<1>5. ASSUME NEW n \in Amounts, Asks(reg, n), Reading(reg, n, n + 7)
      PROVE  /\ t = "status" \/ t = "head" \/ t = "rest" => call = "poll"
             /\ t = "control0" \/ t = "flush" => call \in {"tx", "stage"}
             /\ t = "burst" => call \in {"tx", "stage", "fire"}
             /\ t = "head" => Len(got) = 3
             /\ t = "status" => Len(got) = 1
  <2>1. /\ t = "head" => n = 3
        /\ t = "status" => n = 1
        /\ t = "status" \/ t = "head" \/ t = "rest" => call = "poll"
        /\ t = "control0" \/ t = "flush" => call \in {"tx", "stage"}
        /\ t # "burst"
    BY <1>1, <1>5 DEF Asks
  <2>2. Len(got) = n
    <3>1. n \in Nat
      BY AmountsAre
    <3>2. QED
      BY <1>5, <3>1 DEF Reading
  <2>3. QED
    BY <2>1, <2>2, Zenon
<1>6. QED
  BY <1>1, <1>2, <1>3, <1>4, <1>5

\* ... every step keeps it ...
LEMMA BusNext ==
    ASSUME BusInv, [Next]_vars
    PROVE  BusInv'
<1>0. Types /\ Placed /\ Types'
  BY TypesNext DEF BusInv
<1> SUFFICES Placed'
  BY <1>0 DEF BusInv
<1>01. Idle \/ call # "idle"
  BY <1>0, PlacedIs DEF Refused, PlacedRead, PlacedWrite, Asks, Tells
<1>1. CASE Issue
  BY <1>0, <1>1, PlacedIssue
<1>2. CASE IssueFails
  <2>1. Return("error")
    BY <1>2 DEF IssueFails
  <2>2. QED
    BY <2>1, PlacedReturn
<1>3. CASE NotAcknowledged
  <2>1. slave.phase = "idle"
    BY <1>0, <1>3, IsOver DEF NotAcknowledged
  <2>2. Return("nack") /\ slave' = slave
    BY <1>3 DEF NotAcknowledged, chip
  <2>3. QED
    BY <2>1, <2>2, PlacedReturn
<1>4. CASE PollStatus
  <2>1. slave.phase = "idle" /\ call = "poll" /\ acked
    BY <1>4, FinishedIs DEF PollStatus, BusInv
  <2>2. CASE Return("none") /\ UNCHANGED <<staged, chip, inbox>>
    BY <2>1, <2>2, PlacedReturn DEF chip
  <2>3. CASE Continue("head", ReadReg("FIFOS", 3))
    <3>1. 3 \in Amounts /\ "FIFOS" \in Bus
      BY DEF Amounts, Bus
    <3>2. /\ at' = "head" /\ call' = call /\ acked' = acked /\ got' = <<>>
          /\ todo' = ReadReg("FIFOS", 3)
      BY <2>3 DEF Continue
    <3>3. Asks("FIFOS", 3)'
      BY <2>1, <3>2 DEF Asks
    <3>4. QED
      BY <2>1, <3>1, <3>2, <3>3, ReadBegins
  <2>4. QED
    BY <1>4, <2>2, <2>3 DEF PollStatus
<1>5. CASE PollHead
  <2>1. slave.phase = "idle" /\ call = "poll" /\ acked /\ Len(got) = 3
    BY <1>5, FinishedIs DEF PollHead, BusInv
  <2>2. CASE Return("none") /\ UNCHANGED <<staged, chip, inbox>>
    BY <2>1, <2>2, PlacedReturn DEF chip
  <2>3. ASSUME NEW n \in CountIn(got[3]), Continue("rest", ReadReg("FIFOS", Rest(n)))
        PROVE  Placed'
    <3>1. n \in Objects
      <4>1. got[3] \in RxByte
        <5>1. got \in Seq(RxByte)
          BY <1>0 DEF Types
        <5> DEFINE l == Len(got)
        <5>2. 3 \in 1..l
          <6>1. l = 3
            BY <2>1
          <6> HIDE DEF l
          <6>2. QED
            BY <6>1
        <5>3. QED
          BY <5>1, <5>2, Elements DEF l
      <4>2. got[3].at = 3 => got[3].of \in Message
        BY <4>1 DEF RxByte
      <4>3. got[3].at = 3 => got[3].of.objects \in Objects
        BY <4>2 DEF Message
      <4>4. QED
        BY <2>3, <4>3 DEF CountIn
    <3>2. Rest(n) \in Amounts /\ "FIFOS" \in Bus
      BY <3>1, Zenon DEF Amounts, Bus
    <3>3. /\ at' = "rest" /\ call' = call /\ acked' = acked /\ got' = <<>>
          /\ todo' = ReadReg("FIFOS", Rest(n))
      BY <2>3 DEF Continue
    <3>4. Asks("FIFOS", Rest(n))'
      BY <2>1, <3>1, <3>3 DEF Asks
    <3>5. QED
      BY <2>1, <3>2, <3>3, <3>4, ReadBegins
  <2>4. QED
    BY <1>5, <2>2, <2>3 DEF PollHead
<1>6. CASE PollRest
  <2>1. slave.phase = "idle" /\ Return("message") /\ slave' = slave
    BY <1>6, FinishedIs DEF PollRest, BusInv, chip
  <2>2. QED
    BY <2>1, PlacedReturn
<1>7. CASE SendFlush
  <2>1. call \in {"tx", "stage"} /\ acked
    BY <1>7, FinishedIs DEF SendFlush, BusInv
  <2>2. /\ at' = "flush" /\ call' = call /\ acked' = acked /\ got' = <<>>
        /\ todo' = WriteReg("CONTROL0", Flush)
    BY <1>7 DEF SendFlush, Continue, TxFlush, Flush
  <2>3. Tells("CONTROL0", Flush)'
    BY <2>1, <2>2 DEF Tells
  <2>4. "CONTROL0" \in Bus /\ Flush \in Writes'
    BY DEF Bus, Writes
  <2>5. QED
    BY <1>0, <2>1, <2>2, <2>3, <2>4, WriteBegins
<1>8. CASE SendFrame
  <2>1. call \in {"tx", "stage"} /\ acked
    BY <1>8, FinishedIs DEF SendFrame, BusInv
  <2>2. /\ at' = "burst" /\ call' = call /\ acked' = acked /\ got' = <<>> /\ frame' = frame
        /\ todo' = WriteReg("FIFOS", IF call = "tx" THEN Append(Frame(frame), TxOn)
                                                    ELSE Frame(frame))
    BY <1>8 DEF SendFrame, Continue
  <2>3. Tokens' = Tokens
    BY <2>2 DEF Tokens
  <2>4. Tokens = IF call = "tx" THEN Append(Frame(frame), TxOn) ELSE Frame(frame)
    BY <2>1 DEF Tokens
  <2>5. todo' = WriteReg("FIFOS", Tokens)
    BY <2>2, <2>4
  <2>6. PICK bytes : bytes = Tokens
    OBVIOUS
  <2>7. bytes = Tokens'
    BY <2>3, <2>6
  <2>8. Tells("FIFOS", bytes)'
    BY <2>1, <2>2, <2>7 DEF Tells
  <2>9. "FIFOS" \in Bus /\ bytes \in Writes'
    BY <2>7 DEF Bus, Writes
  <2>10. todo' = WriteReg("FIFOS", bytes)
    BY <2>5, <2>6
  <2>11. QED
    BY <1>0, <2>1, <2>2, <2>8, <2>9, <2>10, WriteBegins
<1>9. CASE SendDone \/ RegisterDone
  <2>1. slave.phase = "idle" /\ slave' = slave /\ \E r : Return(r)
    BY <1>9, FinishedIs DEF SendDone, RegisterDone, BusInv, chip
  <2>2. QED
    BY <2>1, PlacedReturn
<1>10. CASE OpenFails
  <2>1. Idle'
    BY <1>01, <1>10 DEF OpenFails, Idle
  <2>2. QED
    BY <2>1, PlacedIs, PTL
<1>11. CASE Poll
  <2>1. /\ call' = "poll" /\ at' = "status" /\ acked' /\ got' = <<>>
        /\ todo' = ReadReg("STATUS1", 1)
    BY <1>01, <1>11 DEF Poll, Begin, Idle
  <2>2. 1 \in Amounts /\ "STATUS1" \in Bus
    BY DEF Amounts, Bus
  <2>3. Asks("STATUS1", 1)'
    BY <2>1 DEF Asks
  <2>4. QED
    BY <2>1, <2>2, <2>3, ReadBegins
<1>12. ASSUME NEW c \in {"tx", "stage"}, NEW f \in Frames, Send(c, f)
       PROVE  Placed'
  <2>1. /\ call' = c /\ at' = "control0" /\ acked' /\ got' = <<>>
        /\ todo' = ReadReg("CONTROL0", 1)
    BY <1>01, <1>12 DEF Send, Begin, Idle
  <2>2. 1 \in Amounts /\ "CONTROL0" \in Bus
    BY DEF Amounts, Bus
  <2>3. Asks("CONTROL0", 1)'
    BY <2>1 DEF Asks
  <2>4. QED
    BY <2>1, <2>2, <2>3, ReadBegins
<1>13. CASE Fire
  <2>1. /\ call' = "fire" /\ at' = "burst" /\ acked' /\ got' = <<>>
        /\ todo' = WriteReg("FIFOS", <<TxOn>>)
    BY <1>01, <1>13 DEF Fire, Begin, Idle
  <2>2. Tokens' = <<TxOn>>
    BY <2>1 DEF Tokens
  <2>3. "FIFOS" \in Bus /\ <<TxOn>> \in Writes'
    BY <2>2 DEF Bus, Writes
  <2>4. Tells("FIFOS", <<TxOn>>)'
    BY <2>1, <2>2 DEF Tells
  <2>5. QED
    BY <1>0, <2>1, <2>3, <2>4, WriteBegins
<1>14. CASE ReadRegister
  <2>1. /\ call' = "read" /\ at' = "register" /\ acked' /\ got' = <<>>
        /\ todo' = ReadReg("STATUS0", 1)
    BY <1>01, <1>14 DEF ReadRegister, Begin, Idle
  <2>2. 1 \in Amounts /\ "STATUS0" \in Bus
    BY DEF Amounts, Bus
  <2>3. Asks("STATUS0", 1)'
    BY <2>1 DEF Asks
  <2>4. QED
    BY <2>1, <2>2, <2>3, ReadBegins
<1>15. CASE WriteRegister("RESET", "SW_RES")
  <2>1. /\ call' = "write" /\ at' = "register" /\ acked' /\ got' = <<>> /\ ~staged'
        /\ todo' = WriteReg("RESET", SwReset)
    BY <1>01, <1>15 DEF WriteRegister, Begin, Idle, SwReset
  <2>2. "RESET" \in Bus /\ SwReset \in Writes'
    BY DEF Bus, Writes
  <2>3. Tells("RESET", SwReset)'
    BY <2>1 DEF Tells
  <2>4. QED
    BY <1>0, <2>1, <2>2, <2>3, WriteBegins
<1>16. CASE WriteRegister("CONTROL1", "RX_FLUSH")
  <2>1. /\ call' = "write" /\ at' = "register" /\ acked' /\ got' = <<>>
        /\ todo' = WriteReg("CONTROL1", RxFlush)
    BY <1>01, <1>16 DEF WriteRegister, Begin, Idle, RxFlush
  <2>2. "CONTROL1" \in Bus /\ RxFlush \in Writes'
    BY DEF Bus, Writes
  <2>3. Tells("CONTROL1", RxFlush)'
    BY <2>1 DEF Tells
  <2>4. QED
    BY <1>0, <2>1, <2>2, <2>3, WriteBegins
<1>17. CASE (\E n \in Objects : Arrives(n)) \/ UNCHANGED vars
  <2>1. UNCHANGED <<call, at, todo, acked, got, frame, result, staged, slave>>
    BY <1>17 DEF Arrives, vars, program, chip
  <2>2. QED
    BY <1>0, <2>1, PlacedSame
<1>18. QED
  BY <1>1, <1>2, <1>3, <1>4, <1>5, <1>6, <1>7, <1>8, <1>9, <1>10, <1>11, <1>12,
     <1>13, <1>14, <1>15, <1>16, <1>17, Zenon DEF Next, Program, Client

\* ... so it always holds.
LEMMA BusAlways == Spec => []BusInv
<1>1. BusInv /\ [Next]_vars => BusInv'
  BY BusNext
<1>2. QED
  BY <1>1, BusInit, PTL DEF Spec

\* The program never stops the bus while the chip drives it, and leaves it
\* stopped unless a command failed: after answers, refusals and bursts.
THEOREM StopsTheBus == Spec => []BusReleased
<1>1. BusInv => BusReleased
  <2> SUFFICES ASSUME BusInv
               PROVE  BusReleased
    OBVIOUS
  <2>1. Types /\ Placed
    BY DEF BusInv
  <2>2. ASSUME todo # <<>>, Head(todo) = Stop
        PROVE  slave.phase # "read"
    <3>1. CASE Refused
      BY <2>2, <3>1 DEF Refused
    <3>2. CASE PlacedRead
      <4>1. PICK reg \in Bus, n \in Amounts :
              Asks(reg, n) /\ \E k \in 1..n + 7 : Reading(reg, n, k)
        BY <3>2 DEF PlacedRead
      <4>2. PICK k \in 1..n + 7 : Reading(reg, n, k)
        BY <4>1
      <4>3. n \in Nat \ {0}
        BY AmountsAre
      <4>4. k \in 1..n + 6
        <5>1. k # n + 7
          BY <2>2, <4>2, <4>3, ReadNotOver DEF Reading
        <5>2. QED
          BY <4>3, <5>1
      <4>5. ReadReg(reg, n)[k] = Stop
        <5>1. Head(Onward(ReadReg(reg, n), k)) = ReadReg(reg, n)[k]
          BY <4>3, <4>4, ReadLeft
        <5>2. todo = Onward(ReadReg(reg, n), k)
          BY <4>2 DEF Reading
        <5>3. QED
          BY <2>2, <5>1, <5>2, Zenon
      <4>6. k \notin 6..n + 5
        BY <4>3, <4>4, <4>5, ReadOp, OpIs
      <4>7. k = 1 => FALSE
        <5>1. ReadReg(reg, n)[1] = Start
          BY <4>3, ReadRegIs
        <5>2. Start # Stop
          <6>1. Start.op # Stop.op
            BY OpIs
          <6>2. QED
            BY <6>1
        <5>3. QED
          BY <4>5, <5>1, <5>2
      <4>8. QED
        BY <4>2, <4>3, <4>4, <4>6, <4>7 DEF Reading, ReadPhase
    <3>3. CASE PlacedWrite
      <4>1. PICK reg \in Bus, bytes \in Writes :
              Tells(reg, bytes) /\ \E k \in 1..Len(bytes) + 5 : Writing(reg, bytes, k)
        BY <3>3 DEF PlacedWrite
      <4>2. PICK k \in 1..Len(bytes) + 5 : Writing(reg, bytes, k)
        BY <4>1
      <4> DEFINE l == Len(bytes)
      <4>3. bytes \in Seq(Value) /\ l \in Nat
        <5>1. bytes \in Seq(Value)
          BY <2>1, TypesWrite DEF WritesTyped
        <5>2. QED
          BY <5>1
      <4>4. k \in 1..l + 4
        <5>1. k # l + 5
          BY <2>2, <4>2, <4>3, WriteNotOver DEF Writing
        <5> HIDE DEF l
        <5>2. k \in 1..l + 5
          BY DEF l
        <5>3. QED
          BY <4>3, <5>1, <5>2
      <4>5. WriteReg(reg, bytes)[k] = Stop
        <5>1. Head(Onward(WriteReg(reg, bytes), k)) = WriteReg(reg, bytes)[k]
          BY <4>3, <4>4, WriteLeft
        <5>2. todo = Onward(WriteReg(reg, bytes), k)
          BY <4>2 DEF Writing
        <5>3. QED
          BY <2>2, <5>1, <5>2, Zenon
      <4>6. k = 1 => FALSE
        <5>1. WriteReg(reg, bytes)[1] = Start
          BY <4>3, WriteRegIs
        <5>2. Start # Stop
          <6>1. Start.op # Stop.op
            BY OpIs
          <6>2. QED
            BY <6>1
        <5>3. QED
          BY <4>5, <5>1, <5>2
      <4>7. /\ k = 2 => slave.phase = "address"
            /\ k = 3 => slave.phase = "register"
            /\ k \in 4..l + 4 => slave.phase = "write"
        BY <4>2, Zenon DEF Writing, WritePhase
      <4>8. k = 2 \/ k = 3 \/ k \in 4..l + 4
        <5> HIDE DEF l
        <5>1. QED
          BY <4>3, <4>4, <4>6
      <4> HIDE DEF l
      <4>9. QED
        BY <4>7, <4>8
    <3>4. QED
      BY <2>1, <2>2, <3>1, <3>2, <3>3, PlacedIs DEF Idle
  <2>3. call = "idle" => Idle
    BY <2>1, PlacedIs DEF Refused, PlacedRead, PlacedWrite, Asks, Tells
  <2>4. QED
    BY <2>2, <2>3 DEF BusReleased, Idle
<1>2. QED
  BY <1>1, BusAlways, PTL
-----------------------------------------------------------------------------
(* The TX FIFO.                                                            *)

\* A burst's command that writes nothing, and one that does.
LEMMA BurstRests ==
    ASSUME frame \in Frames, call \in {"tx", "stage", "fire"},
           NEW k \in 1..Len(Tokens) + 4, k \notin 4..Len(Tokens) + 3,
           Loaded(Len(Tokens) + 5 - k), Still
    PROVE  LoadedAs(call, frame, tx', air', Len(Tokens) + 4 - k)
<1> DEFINE f == Frame(frame)
           l == Len(Tokens)
<1>1. f \in Seq(Value) /\ Len(f) = FrameLen /\ FrameLen \in Nat \ {0}
  BY FrameIs, BridgeAssumption
<1>2. /\ call = "tx" => l = FrameLen + 1
      /\ call = "stage" => l = FrameLen
      /\ call = "fire" => l = 1
  BY TokensAre, Zenon
<1>3. tx' = tx /\ air' = air
  BY DEF Still
<1>4. \A i \in Int : i < 1 => SubSeq(f, 1, i) = <<>>
  BY <1>1, PartEmpty
<1>5. k = 1 \/ k = 2 \/ k = 3 \/ k = l + 4
  <2>1. l \in Nat
    BY TokensAre
  <2> HIDE DEF l
  <2>2. k \in 1..l + 4 /\ k \notin 4..l + 3
    BY DEF l
  <2>3. QED
    BY <2>1, <2>2
<1>6. LoadedAs(call, frame, tx, air, l + 5 - k)
  BY DEF Loaded
<1> DEFINE part(i) == SubSeq(f, 1, i)
<1>7. \A i \in Int : i < 1 => part(i) = <<>>
  BY <1>4
<1>8. ASSUME call = "fire"
      PROVE  IF l + 4 - k < 2 THEN air = f ELSE air = <<>> /\ tx = f
  <2>1. IF l + 5 - k < 2 THEN air = f ELSE air = <<>> /\ tx = f
    BY <1>6, <1>8, Zenon DEF LoadedAs
  <2> HIDE DEF l, f
  <2>2. l = 1
    BY <1>2, <1>8
  <2>3. QED
    BY <1>5, <2>1, <2>2
<1>9. ASSUME call = "stage"
      PROVE  air = <<>> /\ tx = part(IF l + 4 - k < 2 THEN FrameLen ELSE FrameLen + 1 - (l + 4 - k))
  <2>1. air = <<>> /\ tx = part(IF l + 5 - k < 2 THEN FrameLen ELSE FrameLen + 1 - (l + 5 - k))
    BY <1>6, <1>9, Zenon DEF LoadedAs
  <2> HIDE DEF l, f, part
  <2>2. l = FrameLen
    BY <1>2, <1>9
  <2>3. CASE k = l + 4
    BY <1>1, <2>1, <2>2, <2>3
  <2>4. CASE k \in {1, 2, 3}
    <3>1. ~(l + 4 - k < 2) /\ ~(l + 5 - k < 2)
      BY <1>1, <2>2, <2>4
    <3>2. FrameLen + 1 - (l + 5 - k) = k - 4 /\ FrameLen + 1 - (l + 4 - k) = k - 3
      BY <1>1, <2>2, <2>4
    <3>3. part(k - 4) = <<>> /\ part(k - 3) = <<>>
      BY <1>7, <2>4
    <3>4. QED
      BY <2>1, <3>1, <3>2, <3>3
  <2>5. QED
    BY <1>5, <2>3, <2>4
<1>10. ASSUME call = "tx"
       PROVE  IF l + 4 - k < 2 THEN air = f
              ELSE air = <<>> /\ tx = part(FrameLen + 2 - (l + 4 - k))
  <2>1. IF l + 5 - k < 2 THEN air = f
        ELSE air = <<>> /\ tx = part(FrameLen + 2 - (l + 5 - k))
    BY <1>6, <1>10, Zenon DEF LoadedAs
  <2> HIDE DEF l, f, part
  <2>2. l = FrameLen + 1
    BY <1>2, <1>10
  <2>3. CASE k = l + 4
    BY <1>1, <2>1, <2>2, <2>3
  <2>4. CASE k \in {1, 2, 3}
    <3>1. ~(l + 4 - k < 2) /\ ~(l + 5 - k < 2)
      BY <1>1, <2>2, <2>4
    <3>2. FrameLen + 2 - (l + 5 - k) = k - 4 /\ FrameLen + 2 - (l + 4 - k) = k - 3
      BY <1>1, <2>2, <2>4
    <3>3. part(k - 4) = <<>> /\ part(k - 3) = <<>>
      BY <1>7, <2>4
    <3>4. QED
      BY <2>1, <3>1, <3>2, <3>3
  <2>5. QED
    BY <1>5, <2>3, <2>4
<1>11. QED
  BY <1>3, <1>8, <1>9, <1>10, Zenon DEF LoadedAs

\* See BurstRests: a token, or TXON, is written.
LEMMA BurstTakes ==
    ASSUME frame \in Frames, call \in {"tx", "stage", "fire"},
           NEW k \in 4..Len(Tokens) + 3,
           Loaded(Len(Tokens) + 5 - k), Takes("FIFOS", Tokens[k - 3])
    PROVE  /\ LoadedAs(call, frame, tx', air', Len(Tokens) + 4 - k)
           /\ air' \in {<<>>, Frame(frame)}
<1> DEFINE f == Frame(frame)
           l == Len(Tokens)
           b == Tokens[k - 3]
           part(i) == SubSeq(f, 1, i)
<1>1. /\ f \in Seq(Value) /\ Len(f) = FrameLen /\ FrameLen \in Nat \ {0}
      /\ \A i \in 1..FrameLen : f[i] = <<frame, i>>
  BY FrameIs, BridgeAssumption
<1>2. /\ call = "tx" => l = FrameLen + 1
      /\ call = "stage" => l = FrameLen
      /\ call = "fire" => l = 1
  BY TokensAre, Zenon
<1>3. /\ b # TxOn => tx' = Append(tx, b) /\ air' = air
      /\ b = TxOn => air' = tx /\ tx' = <<>>
  BY DEF Takes
<1>4. LoadedAs(call, frame, tx, air, l + 5 - k)
  BY DEF Loaded
<1>5. k \in 4..l + 3 /\ k - 3 \in 1..l
  OBVIOUS
<1>6. /\ call = "tx" /\ k - 3 <= FrameLen => b = <<frame, k - 3>>
      /\ call = "tx" /\ k - 3 > FrameLen => b = TxOn
      /\ call = "stage" => b = <<frame, k - 3>>
      /\ call = "fire" => b = TxOn
  BY <1>5, TokenIs
<1>7. <<frame, k - 3>> # TxOn
  BY DEF TxOn
<1>8. \A i \in 0..FrameLen - 1 : Append(part(i), <<frame, i + 1>>) = part(i + 1)
  <2> TAKE i \in 0..FrameLen - 1
  <2>1. 1 \in 1..Len(f) /\ i \in 1 - 1..Len(f) - 1 /\ f[i + 1] = <<frame, i + 1>>
    BY <1>1
  <2> HIDE DEF f
  <2>2. Append(SubSeq(f, 1, i), f[i + 1]) = SubSeq(f, 1, i + 1)
    BY <1>1, <2>1, PartStep
  <2>3. QED
    BY <2>1, <2>2
<1>9. part(FrameLen) = f
  BY <1>1, PartWhole
<1>10. ASSUME call = "fire"
       PROVE  air' = f /\ l + 4 - k < 2
  <2>1. IF l + 5 - k < 2 THEN air = f ELSE air = <<>> /\ tx = f
    BY <1>4, <1>10, Zenon DEF LoadedAs
  <2> HIDE DEF l, f, b
  <2>2. l = 1 /\ k = 4
    BY <1>2, <1>5, <1>10
  <2>3. tx = f
    BY <2>1, <2>2
  <2>4. air' = tx
    BY <1>3, <1>6, <1>10
  <2>5. QED
    BY <2>2, <2>3, <2>4
<1>11. ASSUME call = "stage"
       PROVE  /\ air' = <<>>
              /\ tx' = part(IF l + 4 - k < 2 THEN FrameLen ELSE FrameLen + 1 - (l + 4 - k))
  <2>1. air = <<>> /\ tx = part(IF l + 5 - k < 2 THEN FrameLen ELSE FrameLen + 1 - (l + 5 - k))
    BY <1>4, <1>11, Zenon DEF LoadedAs
  <2>2. tx' = Append(tx, <<frame, k - 3>>) /\ air' = air
    BY <1>3, <1>6, <1>7, <1>11, Zenon
  <2> HIDE DEF l, f, b, part
  <2>3. l = FrameLen /\ ~(l + 5 - k < 2) /\ FrameLen + 1 - (l + 5 - k) = k - 4
    BY <1>1, <1>2, <1>5, <1>11
  <2>4. tx = part(k - 4)
    BY <2>1, <2>3
  <2>5. tx' = part(k - 3)
    <3>1. k - 4 \in 0..FrameLen - 1 /\ (k - 4) + 1 = k - 3
      BY <1>1, <1>5, <2>3
    <3>2. Append(part(k - 4), <<frame, (k - 4) + 1>>) = part((k - 4) + 1)
      BY <1>8, <3>1
    <3>3. QED
      BY <2>2, <2>4, <3>1, <3>2
  <2>6. (IF l + 4 - k < 2 THEN FrameLen ELSE FrameLen + 1 - (l + 4 - k)) = k - 3
    BY <1>1, <1>5, <2>3
  <2>7. QED
    BY <2>1, <2>2, <2>5, <2>6
<1>12. ASSUME call = "tx"
       PROVE  /\ IF l + 4 - k < 2 THEN air' = f
                 ELSE air' = <<>> /\ tx' = part(FrameLen + 2 - (l + 4 - k))
              /\ air' \in {<<>>, f}
  <2>1. IF l + 5 - k < 2 THEN air = f
        ELSE air = <<>> /\ tx = part(FrameLen + 2 - (l + 5 - k))
    BY <1>4, <1>12, Zenon DEF LoadedAs
  <2> HIDE DEF l, f, b, part
  <2>2. l = FrameLen + 1 /\ ~(l + 5 - k < 2) /\ FrameLen + 2 - (l + 5 - k) = k - 4
    BY <1>1, <1>2, <1>5, <1>12
  <2>3. tx = part(k - 4) /\ air = <<>>
    BY <2>1, <2>2
  <2>4. CASE k = FrameLen + 4
    <3>1. k - 4 = FrameLen /\ l + 4 - k < 2 /\ k - 3 > FrameLen
      BY <1>1, <2>2, <2>4
    <3>2. air' = tx
      BY <1>3, <1>6, <1>12, <3>1, Zenon
    <3>3. QED
      BY <1>9, <2>3, <3>1, <3>2
  <2>5. CASE k < FrameLen + 4
    <3>1. /\ k - 4 \in 0..FrameLen - 1 /\ (k - 4) + 1 = k - 3 /\ k - 3 <= FrameLen
          /\ ~(l + 4 - k < 2) /\ FrameLen + 2 - (l + 4 - k) = k - 3
      BY <1>1, <1>5, <2>2, <2>5
    <3>2. tx' = Append(tx, <<frame, k - 3>>) /\ air' = air
      BY <1>3, <1>6, <1>7, <1>12, <3>1, Zenon
    <3>3. Append(part(k - 4), <<frame, (k - 4) + 1>>) = part((k - 4) + 1)
      BY <1>8, <3>1
    <3>4. QED
      BY <2>3, <3>1, <3>2, <3>3
  <2>6. k = FrameLen + 4 \/ k < FrameLen + 4
    BY <1>1, <1>5, <2>2
  <2>7. QED
    BY <2>4, <2>5, <2>6
<1>13. LoadedAs(call, frame, tx', air', l + 4 - k)
  BY <1>10, <1>11, <1>12, Zenon DEF LoadedAs
<1>14. air' \in {<<>>, f}
  BY <1>10, <1>11, <1>12
<1>15. QED
  BY <1>13, <1>14
-----------------------------------------------------------------------------
\* What carrying out the command at hand can do.
LEMMA Moves ==
    ASSUME BusInv, todo # <<>>, NEW ack \in BOOLEAN, CarriedOut(Head(todo), ack)
    PROVE  \/ Still
           \/ UNCHANGED <<tx, air, number, pending>> /\ step' # "in"
           \/ \E reg \in Bus, bytes \in Writes : \E k \in 4..Len(bytes) + 3 :
                Tells(reg, bytes) /\ Writing(reg, bytes, k) /\ Takes(reg, bytes[k - 3])
<1>1. SlaveOk /\ Types /\ Placed
  BY DEF BusInv, Types, SlaveOk
<1>2. CASE Refused
  <2>1. slave.phase = "ignoring" /\ (Head(todo) = Stop \/ \E b : Head(todo) = Write(b))
    <3>1. CASE at # "burst" /\ todo = <<Stop>>
      BY <1>2, <3>1 DEF Refused
    <3>2. CASE at = "burst" /\ \E k \in 4..Len(Tokens) + 4 : todo = Onward(WriteReg("FIFOS", Tokens), k)
      <4> DEFINE plan == WriteReg("FIFOS", Tokens)
                 l == Len(Tokens)
      <4>1. PICK k \in 4..l + 4 : todo = Onward(plan, k)
        BY <3>2
      <4>2. "FIFOS" \in Bus /\ Tokens \in Seq(Value) /\ l \in Nat
        <5>1. Tokens \in Writes /\ WritesTyped
          BY <1>1, TypesWrite DEF Writes
        <5>2. QED
          BY <5>1 DEF Bus, WritesTyped
      <4>3. k \in 1..l + 4 /\ (k \in 4..l + 3 \/ k = l + 4)
        <5> HIDE DEF l
        <5>1. QED
          BY <4>2
      <4>4. Head(todo) = plan[k]
        BY <4>1, <4>2, <4>3, WriteLeft
      <4>5. /\ k \in 4..l + 3 => plan[k] = Write(Tokens[k - 3])
            /\ k = l + 4 => plan[k] = Stop
        BY <4>2, WriteRegIs
      <4> HIDE DEF plan, l
      <4>6. Head(todo) = Stop \/ \E b : Head(todo) = Write(b)
        BY <4>3, <4>4, <4>5
      <4>7. slave.phase = "ignoring"
        BY <1>2, <3>2 DEF Refused
      <4>8. QED
        BY <4>6, <4>7
    <3>3. QED
      BY <1>2, <3>1, <3>2, Zenon DEF Refused
  <2>2. Still
    BY <1>1, <2>1, RefusedCarried
  <2>3. QED
    BY <2>2
<1>3. CASE PlacedRead
  <2>1. PICK reg \in Bus, n \in Amounts : Asks(reg, n) /\ \E k \in 1..n + 7 : Reading(reg, n, k)
    BY <1>3 DEF PlacedRead
  <2>2. PICK k \in 1..n + 7 : Reading(reg, n, k)
    BY <2>1
  <2>3. n \in Nat \ {0}
    BY AmountsAre
  <2>4. todo = Onward(ReadReg(reg, n), k) /\ ReadPhase(reg, n, k)
    BY <2>2 DEF Reading
  <2>5. k \in 1..n + 6
    <3>1. k # n + 7
      BY <2>3, <2>4, ReadNotOver
    <3>2. QED
      BY <2>3, <3>1
  <2>6. Head(todo) = ReadReg(reg, n)[k]
    <3>1. Head(Onward(ReadReg(reg, n), k)) = ReadReg(reg, n)[k]
      BY <2>3, <2>5, ReadLeft
    <3>2. QED
      BY <2>4, <3>1
  <2>7. ReadDoes(reg, n, k, ack)
    BY <1>1, <2>3, <2>4, <2>5, <2>6, ReadCarried
  <2>8. CASE k \in 6..n + 5 /\ reg = "FIFOS"
    BY <2>7, <2>8 DEF ReadDoes
  <2>9. CASE k \notin 6..n + 5 \/ reg # "FIFOS"
    <3>1. Still
      BY <2>7, <2>9, Zenon DEF ReadDoes, Still, inbox
    <3>2. QED
      BY <3>1
  <2>10. QED
    BY <2>8, <2>9
<1>4. CASE PlacedWrite
  <2>1. PICK reg \in Bus, bytes \in Writes :
          Tells(reg, bytes) /\ \E k \in 1..Len(bytes) + 5 : Writing(reg, bytes, k)
    BY <1>4 DEF PlacedWrite
  <2>2. PICK k \in 1..Len(bytes) + 5 : Writing(reg, bytes, k)
    BY <2>1
  <2>3. bytes \in Seq(Value) /\ Len(bytes) > 0 /\ Len(bytes) \in Nat
    <3>1. bytes \in Seq(Value) /\ Len(bytes) > 0
      BY <1>1, TypesWrite DEF WritesTyped
    <3>2. QED
      BY <3>1
  <2>4. todo = Onward(WriteReg(reg, bytes), k) /\ WritePhase(reg, bytes, k)
    BY <2>2 DEF Writing
  <2>5. k \in 1..Len(bytes) + 4
    <3> DEFINE l == Len(bytes)
    <3>1. k # l + 5
      BY <2>3, <2>4, WriteNotOver
    <3>2. k \in 1..l + 5 /\ l \in Nat
      BY <2>3
    <3> HIDE DEF l
    <3>3. k \in 1..l + 4
      BY <3>1, <3>2
    <3>4. QED
      BY <3>3 DEF l
  <2>6. Head(todo) = WriteReg(reg, bytes)[k]
    <3>1. Head(Onward(WriteReg(reg, bytes), k)) = WriteReg(reg, bytes)[k]
      BY <2>3, <2>5, WriteLeft
    <3>2. QED
      BY <2>4, <3>1
  <2>7. WriteDoes(reg, bytes, k, ack)
    BY <1>1, <2>3, <2>4, <2>5, <2>6, WriteCarried
  <2>8. CASE ack /\ k \in 4..Len(bytes) + 3
    <3>1. Takes(reg, bytes[k - 3])
      BY <2>7, <2>8, Zenon DEF WriteDoes
    <3>2. QED
      BY <2>1, <2>2, <2>8, <3>1, Zenon
  <2>9. CASE ~ack \/ k \notin 4..Len(bytes) + 3
    <3>1. Still
      BY <2>7, <2>9, Zenon DEF WriteDoes
    <3>2. QED
      BY <3>1
  <2>10. QED
    BY <2>8, <2>9, Zenon
<1>5. QED
  BY <1>1, <1>2, <1>3, <1>4, PlacedIs DEF Idle

\* A value written, to each register there is to write.
LEMMA TakesIs ==
    ASSUME Types, NEW reg \in Bus, NEW bytes \in Writes, Tells(reg, bytes),
           NEW k \in 4..Len(bytes) + 3, Takes(reg, bytes[k - 3])
    PROVE  /\ at = "flush" => tx' = <<>> /\ air' = air /\ UNCHANGED <<rx, inbox>>
           /\ at = "burst" => UNCHANGED <<rx, inbox>>
           /\ at = "register" => air' = air /\ EmptyRx
           /\ at = "register" /\ staged => tx' = tx
<1>1. CASE at = "flush"
  <2>1. reg = "CONTROL0" /\ bytes = Flush
    BY <1>1 DEF Tells
  <2>2. bytes[k - 3] = <<"TX_FLUSH", 0>>
    <3>1. Len(Flush) = 1
      BY DEF Flush
    <3> DEFINE l == Len(Flush)
    <3>2. l = 1 /\ k \in 4..l + 3
      BY <2>1, <3>1
    <3> HIDE DEF l
    <3>3. k - 3 = 1
      BY <3>2
    <3>4. Flush[1] = <<"TX_FLUSH", 0>>
      BY DEF Flush
    <3>5. QED
      BY <2>1, <3>3, <3>4
  <2>3. tx' = <<>> /\ air' = air /\ KeepRx
    <3>1. <<"TX_FLUSH", 0>>[1] = "TX_FLUSH"
      OBVIOUS
    <3>2. QED
      BY <2>1, <2>2, <3>1 DEF Takes
  <2>4. QED
    BY <1>1, <2>3 DEF KeepRx
<1>2. CASE at = "burst"
  <2>1. reg = "FIFOS"
    BY <1>2 DEF Tells
  <2>2. KeepRx
    BY <2>1 DEF Takes
  <2>3. QED
    BY <1>2, <2>2 DEF KeepRx
<1>3. CASE at = "register"
  <2>1. reg = "CONTROL1" \/ (reg = "RESET" /\ ~staged)
    BY <1>3 DEF Tells
  <2>2. EmptyRx /\ air' = air /\ (staged => tx' = tx)
    BY <2>1 DEF Takes
  <2>3. QED
    BY <1>3, <2>2
<1>4. at = "flush" \/ at = "burst" \/ at = "register"
  BY DEF Tells
<1>5. QED
  BY <1>1, <1>2, <1>3, <1>4

\* Issue keeps TxInv ...
LEMMA TxIssue ==
    ASSUME BusInv, TxInv, Issue
    PROVE  TxInv'
<1>1. Types /\ Placed /\ todo # <<>>
  BY DEF BusInv, Issue
<1>2. Kept
  BY DEF Issue, Kept
<1>3. CASE Refused
  <2>1. Refused' /\ Still
    BY <1>1, <1>3, RefusedIssue
  <2>2. ~acked' /\ call' # "idle"
    BY <2>1 DEF Refused
  <2>3. QED
    BY <1>2, <2>1, <2>2, Zenon DEF TxInv, Still, Kept
<1>4. CASE PlacedRead
  <2>1. PICK reg \in Bus, n \in Amounts : Asks(reg, n) /\ \E k \in 1..n + 7 : Reading(reg, n, k)
    BY <1>4 DEF PlacedRead
  <2>2. PICK k \in 1..n + 7 : Reading(reg, n, k)
    BY <2>1
  <2>3. n \in Nat \ {0}
    BY AmountsAre
  <2>4. ReadDoes(reg, n, k, acked')
    BY <1>1, <2>2, <2>3, ReadIssue
  <2>5. tx' = tx /\ air' = air
    BY <2>4, Zenon DEF ReadDoes
  <2>6. at # "flush" /\ at # "burst" /\ call # "idle"
    BY <2>1 DEF Asks
  <2>7. QED
    BY <1>2, <2>5, <2>6, Zenon DEF TxInv, Kept
<1>5. CASE PlacedWrite
  <2>1. PICK reg \in Bus, bytes \in Writes :
          Tells(reg, bytes) /\ \E k \in 1..Len(bytes) + 5 : Writing(reg, bytes, k)
    BY <1>5 DEF PlacedWrite
  <2>2. PICK k \in 1..Len(bytes) + 5 : Writing(reg, bytes, k)
    BY <2>1
  <2> DEFINE l == Len(bytes)
  <2>3. bytes \in Seq(Value) /\ Len(bytes) > 0 /\ l \in Nat
    <3>1. bytes \in Seq(Value) /\ Len(bytes) > 0
      BY <1>1, TypesWrite DEF WritesTyped
    <3>2. QED
      BY <3>1
  <2>4. k \in 1..l + 4 /\ WriteDoes(reg, bytes, k, acked')
    BY <1>1, <2>2, <2>3, WriteIssue
  <2>5. /\ k \notin 4..l + 3 \/ ~acked' => Still
        /\ k \in 4..l + 3 /\ acked' => Takes(reg, bytes[k - 3])
    BY <2>4, Zenon DEF WriteDoes
  <2>6. Len(todo) = l + 5 - k /\ acked
    <3>1. Len(Onward(WriteReg(reg, bytes), k)) = l + 5 - k
      BY <2>3, WriteLength
    <3>2. todo = Onward(WriteReg(reg, bytes), k) /\ acked
      BY <2>2 DEF Writing
    <3>3. QED
      BY <3>1, <3>2, Zenon
  <2>7. acked' => Len(todo') = l + 4 - k
    <3>1. acked' => Writing(reg, bytes, k + 1)'
      BY <1>1, <2>2, <2>3, WriteIssue
    <3>2. acked' => todo' = Onward(WriteReg(reg, bytes), k + 1)
      BY <3>1 DEF Writing
    <3>3. k + 1 \in 1..l + 5 /\ l + 5 - (k + 1) = l + 4 - k
      <4>1. k \in 1..l + 4
        BY <2>4
      <4> HIDE DEF l
      <4>2. QED
        BY <2>3, <4>1
    <3>4. Len(Onward(WriteReg(reg, bytes), k + 1)) = l + 5 - (k + 1)
      BY <2>3, <3>3, WriteLength
    <3>5. QED
      BY <3>2, <3>3, <3>4, Zenon
  <2>8. k \in 1..l + 4
    BY <2>4
  <2>9. k \in 4..l + 3 /\ acked' =>
          /\ at = "flush" => tx' = <<>> /\ air' = air
          /\ at = "register" => air' = air /\ (staged => tx' = tx)
    BY <1>1, <2>1, <2>5, TakesIs
  <2>10. call # "idle"
    BY <2>1 DEF Tells
  <2>11. Still => tx' = tx /\ air' = air
    BY DEF Still
  <2>12. CASE at = "register"
    <3>1. air' = air /\ (staged => tx' = tx)
      BY <2>5, <2>9, <2>11, <2>12, Zenon
    <3>2. QED
      BY <1>2, <2>10, <2>12, <3>1, Zenon DEF TxInv, Kept
  <2>13. CASE at = "flush"
    <3>1. reg = "CONTROL0" /\ bytes = Flush /\ call \in {"tx", "stage"}
      BY <2>1, <2>13 DEF Tells
    <3>2. ~staged /\ air = <<>>
      BY <2>13, <3>1 DEF TxInv
    <3>3. air' = air
      BY <2>5, <2>9, <2>11, <2>13, Zenon
    <3>4. acked' /\ Len(todo') < 2 => tx' = <<>>
      <4>1. l = 1
        BY <3>1 DEF Flush
      <4>2. Len(todo) < 2 => tx = <<>>
        BY <2>6, <2>10, <2>13, Zenon DEF TxInv
      <4> HIDE DEF l
      <4>3. SUFFICES ASSUME acked', Len(todo') < 2
                     PROVE  tx' = <<>>
        OBVIOUS
      <4>4. l + 4 - k < 2
        BY <2>7, <4>3, Zenon
      <4>5. CASE k \in 4..l + 3
        BY <2>9, <2>13, <4>3, <4>5, Zenon
      <4>6. CASE k \notin 4..l + 3
        <5>1. k = l + 4
          BY <2>3, <2>8, <4>1, <4>4, <4>6
        <5>2. l + 5 - k < 2
          BY <4>1, <5>1
        <5>3. tx = <<>>
          BY <2>6, <4>2, <5>2, Zenon
        <5>4. QED
          BY <2>5, <2>11, <4>6, <5>3, Zenon
      <4>7. QED
        BY <4>5, <4>6
    <3>5. QED
      BY <1>2, <2>10, <2>13, <3>1, <3>2, <3>3, <3>4 DEF TxInv, Kept
  <2>14. CASE at = "burst"
    <3>1. reg = "FIFOS" /\ bytes = Tokens /\ call \in {"tx", "stage", "fire"} /\ frame \in Frames
      BY <1>1, <2>1, <2>14 DEF Tells, Types
    <3>2. ~staged /\ air \in {<<>>, Frame(frame)}
      BY <3>1 DEF TxInv
    <3>3. Loaded(Len(Tokens) + 5 - k)
      <4>1. Loaded(Len(todo))
        BY <2>6, <2>10, <2>14, Zenon DEF TxInv
      <4>2. QED
        BY <2>6, <3>1, <4>1
    <3>4. CASE k \in 4..l + 3 /\ acked'
      <4>1. k \in 4..Len(Tokens) + 3 /\ Takes("FIFOS", Tokens[k - 3])
        BY <2>5, <3>1, <3>4
      <4>2. /\ LoadedAs(call, frame, tx', air', Len(Tokens) + 4 - k)
            /\ air' \in {<<>>, Frame(frame)}
        BY <3>1, <3>3, <4>1, BurstTakes
      <4>3. Loaded(Len(todo))'
        BY <1>2, <2>7, <3>1, <3>4, <4>2 DEF Loaded, Kept
      <4>4. QED
        BY <1>2, <2>10, <2>14, <3>2, <4>2, <4>3 DEF TxInv, Kept
    <3>5. CASE k \notin 4..l + 3 \/ ~acked'
      <4>1. Still /\ air' = air /\ tx' = tx
        BY <2>5, <2>11, <3>5, Zenon
      <4>2. acked' => Loaded(Len(todo))'
        <5>1. SUFFICES ASSUME acked'
                       PROVE  Loaded(Len(todo))'
          OBVIOUS
        <5>2. k \in 1..Len(Tokens) + 4 /\ k \notin 4..Len(Tokens) + 3
          BY <2>8, <3>1, <3>5, <5>1
        <5>3. LoadedAs(call, frame, tx', air', Len(Tokens) + 4 - k)
          BY <3>1, <3>3, <4>1, <5>2, BurstRests
        <5>4. QED
          BY <1>2, <2>7, <3>1, <5>1, <5>3 DEF Loaded, Kept
      <4>3. QED
        BY <1>2, <2>10, <2>14, <3>2, <4>1, <4>2 DEF TxInv, Kept
    <3>6. QED
      BY <3>4, <3>5, Zenon
  <2>15. at = "register" \/ at = "flush" \/ at = "burst"
    BY <2>1 DEF Tells
  <2>16. QED
    BY <2>12, <2>13, <2>14, <2>15
<1>6. QED
  BY <1>1, <1>3, <1>4, <1>5, PlacedIs DEF Idle
-----------------------------------------------------------------------------
\* ... IssueFails does, whatever part of the command was done ...
LEMMA TxFails ==
    ASSUME BusInv, TxInv, IssueFails
    PROVE  TxInv'
<1>1. /\ call' = "idle" /\ result' = "error" /\ at' = at /\ frame' = frame /\ staged' = staged
      /\ todo # <<>>
  BY DEF IssueFails, Return
<1>2. /\ air' \in {<<>>, Frame(frame)}
      /\ staged => tx' = Frame(frame)
  <2>1. CASE tx' = tx /\ air' = air
    BY <2>1 DEF TxInv
  <2>2. CASE \E ack \in BOOLEAN : CarriedOut(Head(todo), ack)
    <3>1. PICK ack \in BOOLEAN : CarriedOut(Head(todo), ack)
      BY <2>2
    <3>2. \/ Still
          \/ UNCHANGED <<tx, air, number, pending>> /\ step' # "in"
          \/ \E reg \in Bus, bytes \in Writes : \E k \in 4..Len(bytes) + 3 :
               Tells(reg, bytes) /\ Writing(reg, bytes, k) /\ Takes(reg, bytes[k - 3])
      BY <1>1, <3>1, Moves
    <3>3. ASSUME NEW reg \in Bus, NEW bytes \in Writes, NEW k \in 4..Len(bytes) + 3,
                 Tells(reg, bytes), Writing(reg, bytes, k), Takes(reg, bytes[k - 3])
          PROVE  /\ air' \in {<<>>, Frame(frame)}
                 /\ staged => tx' = Frame(frame)
      <4>1. Types
        BY DEF BusInv
      <4>2. /\ at = "flush" => tx' = <<>> /\ air' = air
            /\ at = "register" => air' = air /\ (staged => tx' = tx)
        BY <3>3, <4>1, TakesIs
      <4>3. CASE at = "register"
        BY <4>2, <4>3 DEF TxInv
      <4>4. CASE at = "flush"
        <5>1. ~staged
          BY <3>3, <4>4 DEF Tells, TxInv
        <5>2. QED
          BY <4>2, <4>4, <5>1 DEF TxInv
      <4>5. CASE at = "burst"
        <5>1. reg = "FIFOS" /\ bytes = Tokens /\ call \in {"tx", "stage", "fire"} /\ frame \in Frames
          BY <3>3, <4>1, <4>5 DEF Tells, Types
        <5>2. ~staged
          BY <5>1 DEF TxInv
        <5>3. Len(Tokens) + 5 - k = Len(todo) /\ acked
          <6> DEFINE l == Len(Tokens)
          <6>1. Tokens \in Seq(Value) /\ l \in Nat /\ "FIFOS" \in Bus
            <7>1. Tokens \in Seq(Value)
              BY <5>1, TokensAre
            <7>2. QED
              BY <7>1 DEF Bus
          <6>2. k \in 1..l + 5
            <7>1. k \in 4..l + 3
              BY <5>1
            <7> HIDE DEF l
            <7>2. QED
              BY <6>1, <7>1
          <6>3. Len(Onward(WriteReg("FIFOS", Tokens), k)) = l + 5 - k
            BY <6>1, <6>2, WriteLength
          <6>4. todo = Onward(WriteReg("FIFOS", Tokens), k) /\ acked
            BY <3>3, <5>1 DEF Writing
          <6>5. QED
            BY <6>3, <6>4, Zenon
        <5>4. Loaded(Len(Tokens) + 5 - k)
          <6>1. Loaded(Len(todo))
            BY <4>5, <5>1, <5>3 DEF TxInv
          <6>2. QED
            BY <5>3, <6>1, Zenon
        <5>5. k \in 4..Len(Tokens) + 3 /\ Takes("FIFOS", Tokens[k - 3])
          BY <3>3, <5>1
        <5>6. air' \in {<<>>, Frame(frame)}
          BY <5>1, <5>4, <5>5, BurstTakes
        <5>7. QED
          BY <5>2, <5>6
      <4>6. QED
        BY <3>3, <4>3, <4>4, <4>5 DEF Tells
    <3>4. Still => tx' = tx /\ air' = air
      BY DEF Still
    <3>5. CASE \E reg \in Bus, bytes \in Writes : \E k \in 4..Len(bytes) + 3 :
                 Tells(reg, bytes) /\ Writing(reg, bytes, k) /\ Takes(reg, bytes[k - 3])
      BY <3>3, <3>5, Zenon
    <3>6. QED
      BY <2>1, <3>2, <3>4, <3>5
  <2>3. QED
    BY <2>1, <2>2 DEF IssueFails, chip
<1>3. QED
  BY <1>1, <1>2 DEF TxInv

\* ... and so does every step.
LEMMA TxNext ==
    ASSUME BusInv, TxInv, [Next]_vars
    PROVE  TxInv'
<1>0. frame \in Frames
  BY DEF BusInv, Types
<1>1. CASE Issue
  BY <1>1, TxIssue
<1>2. CASE IssueFails
  BY <1>2, TxFails
<1>3. CASE NotAcknowledged \/ RegisterDone \/ PollRest
  <2>1. /\ call' = "idle" /\ result' # "sent" /\ UNCHANGED <<at, frame, staged, tx, air>>
    BY <1>3 DEF NotAcknowledged, RegisterDone, PollRest, Return, chip
  <2>2. QED
    BY <2>1 DEF TxInv
<1>4. CASE PollStatus \/ PollHead
  <2>1. call = "poll" /\ at' \in {"status", "head", "rest"}
    BY <1>4, FinishedIs DEF PollStatus, PollHead, Return, Continue
  <2>2. /\ call' = call \/ (call' = "idle" /\ result' # "sent")
        /\ UNCHANGED <<frame, staged, tx, air>>
    BY <1>4 DEF PollStatus, PollHead, Return, Continue, chip
  <2>3. QED
    BY <2>1, <2>2 DEF TxInv
<1>5. CASE SendFlush
  <2>1. call \in {"tx", "stage"} /\ at = "control0"
    BY <1>5, FinishedIs DEF SendFlush
  <2>2. /\ UNCHANGED <<call, frame, staged, tx, air, result>> /\ at' = "flush"
        /\ todo' = WriteReg("CONTROL0", Flush)
    BY <1>5 DEF SendFlush, Continue, chip, TxFlush, Flush
  <2>3. ~(Len(todo') < 2)
    <3>1. Flush \in Seq(Value) /\ "CONTROL0" \in Bus
      <4>1. Flush \in Writes /\ WritesTyped
        BY TypesWrite DEF BusInv, Writes
      <4>2. QED
        BY <4>1 DEF WritesTyped, Bus
    <3>2. Len(WriteReg("CONTROL0", Flush)) = Len(Flush) + 4 /\ Len(Flush) \in Nat
      BY <3>1, WriteRegIs
    <3> DEFINE l == Len(Flush)
    <3>3. Len(todo') = l + 4 /\ l \in Nat
      BY <2>2, <3>2
    <3> HIDE DEF l
    <3>4. QED
      BY <3>3
  <2>4. QED
    BY <2>1, <2>2, <2>3 DEF TxInv
<1>6. CASE SendFrame
  <2>1. call \in {"tx", "stage"} /\ at = "flush" /\ acked /\ todo = <<>>
    BY <1>6, FinishedIs DEF SendFrame
  <2>2. tx = <<>> /\ air = <<>> /\ ~staged
    BY <2>1 DEF TxInv
  <2>3. Tokens = IF call = "tx" THEN Append(Frame(frame), TxOn) ELSE Frame(frame)
    BY <2>1 DEF Tokens
  <2>4. /\ UNCHANGED <<call, frame, staged, tx, air, result>> /\ at' = "burst"
        /\ todo' = WriteReg("FIFOS", Tokens)
    BY <1>6, <2>3 DEF SendFrame, Continue, chip
  <2>5. Len(todo') = Len(Tokens) + 4
    <3>1. Tokens \in Seq(Value) /\ "FIFOS" \in Bus
      BY <1>0, TokensAre DEF Bus
    <3>2. Len(WriteReg("FIFOS", Tokens)) = Len(Tokens) + 4
      BY <3>1, WriteRegIs
    <3>3. QED
      BY <2>4, <3>2
  <2>6. LoadedAs(call, frame, tx, air, Len(Tokens) + 4)
    <3>1. Frame(frame) \in Seq(Value) /\ FrameLen \in Nat \ {0}
      BY <1>0, FrameIs, BridgeAssumption
    <3>2. \A i \in Int : i < 1 => SubSeq(Frame(frame), 1, i) = <<>>
      BY <3>1, PartEmpty
    <3> DEFINE l == Len(Tokens)
    <3>3. call = "tx" => l = FrameLen + 1
      BY <1>0, TokensAre, Zenon
    <3>4. call = "stage" => l = FrameLen
      BY <1>0, TokensAre, Zenon
    <3> HIDE DEF l
    <3>5. call = "tx" => ~(l + 4 < 2) /\ SubSeq(Frame(frame), 1, FrameLen + 2 - (l + 4)) = <<>>
      <4>1. call = "tx" => /\ ~(l + 4 < 2) /\ FrameLen + 2 - (l + 4) < 1
                           /\ FrameLen + 2 - (l + 4) \in Int
        BY <3>1, <3>3
      <4>2. QED
        BY <3>2, <4>1, Zenon
    <3>6. call = "stage" => /\ (IF l + 4 < 2 THEN FrameLen ELSE FrameLen + 1 - (l + 4)) < 1
                            /\ (IF l + 4 < 2 THEN FrameLen ELSE FrameLen + 1 - (l + 4)) \in Int
      BY <3>1, <3>4
    <3>7. call = "stage" =>
            SubSeq(Frame(frame), 1, IF l + 4 < 2 THEN FrameLen ELSE FrameLen + 1 - (l + 4)) = <<>>
      BY <3>2, <3>6, Zenon
    <3>8. call # "fire"
      BY <2>1
    <3>9. LoadedAs(call, frame, tx, air, l + 4)
      BY <2>2, <3>5, <3>7, <3>8, Zenon DEF LoadedAs
    <3>10. QED
      BY <3>9 DEF l
  <2>7. Loaded(Len(todo))'
    BY <2>4, <2>5, <2>6 DEF Loaded
  <2>8. QED
    BY <2>1, <2>2, <2>4, <2>7 DEF TxInv
<1>7. CASE SendDone
  <2>1. call \in {"tx", "stage", "fire"} /\ at = "burst" /\ acked /\ todo = <<>>
    BY <1>7, FinishedIs DEF SendDone
  <2>2. LoadedAs(call, frame, tx, air, 0)
    <3>1. Loaded(Len(todo))
      BY <2>1 DEF TxInv
    <3>2. Len(todo) = 0
      BY <2>1
    <3>3. QED
      BY <3>1, <3>2 DEF Loaded
  <2>3. /\ call' = "idle" /\ result' = (IF call = "stage" THEN "ok" ELSE "sent")
        /\ staged' = (call = "stage") /\ UNCHANGED <<at, frame, tx, air>>
    BY <1>7 DEF SendDone, Return, chip
  <2>4. call \in {"tx", "fire"} => air = Frame(frame)
    <3>1. 0 < 2
      OBVIOUS
    <3>2. QED
      BY <2>2, <3>1, Zenon DEF LoadedAs
  <2>5. call = "stage" => tx = Frame(frame)
    <3>1. SubSeq(Frame(frame), 1, FrameLen) = Frame(frame)
      <4>1. Frame(frame) \in Seq(Value) /\ Len(Frame(frame)) = FrameLen
        BY <1>0, FrameIs
      <4>2. QED
        BY <4>1, PartWhole
    <3>2. 0 < 2
      OBVIOUS
    <3>3. call = "stage" => tx = SubSeq(Frame(frame), 1, IF 0 < 2 THEN FrameLen ELSE FrameLen + 1 - 0)
      BY <2>2, Zenon DEF LoadedAs
    <3>4. (IF 0 < 2 THEN FrameLen ELSE FrameLen + 1 - 0) = FrameLen
      BY <3>2, Zenon
    <3>5. QED
      BY <3>1, <3>3, <3>4, Zenon
  <2>6. air \in {<<>>, Frame(frame)}
    BY DEF TxInv
  <2>7. staged' => tx' = Frame(frame') /\ call' \notin {"tx", "stage", "fire"}
    BY <2>3, <2>5
  <2>8. call' = "idle" /\ result' = "sent" => air' = Frame(frame')
    BY <2>1, <2>3, <2>4
  <2>9. QED
    BY <2>3, <2>6, <2>7, <2>8 DEF TxInv
<1>8. CASE OpenFails
  <2>1. /\ result' = "error" /\ UNCHANGED <<call, at, todo, acked, frame, staged, tx, air>>
    BY <1>8 DEF OpenFails, chip
  <2>2. QED
    BY <2>1, Zenon DEF TxInv, Loaded
<1>9. CASE Poll \/ ReadRegister \/ WriteRegister("RESET", "SW_RES")
           \/ WriteRegister("CONTROL1", "RX_FLUSH")
  <2>1. /\ call' \in {"poll", "read", "write"} /\ at' \in {"status", "register"}
        /\ UNCHANGED <<frame, tx, air>>
    BY <1>9 DEF Poll, ReadRegister, WriteRegister, Begin
  <2>2. staged' => staged
    BY <1>9, Zenon DEF Poll, ReadRegister, WriteRegister
  <2>3. QED
    BY <2>1, <2>2 DEF TxInv
<1>10. ASSUME NEW c \in {"tx", "stage"}, NEW f \in Frames, Send(c, f)
       PROVE  TxInv'
  <2>1. call' = c /\ at' = "control0" /\ ~staged' /\ air' = <<>> /\ frame' = f
    BY <1>10 DEF Send, Begin
  <2>2. QED
    BY <2>1 DEF TxInv
<1>11. CASE Fire
  <2>1. /\ call' = "fire" /\ at' = "burst" /\ ~staged' /\ air' = <<>> /\ frame' = frame
        /\ tx' = tx /\ staged /\ todo' = WriteReg("FIFOS", <<TxOn>>)
    BY <1>11 DEF Fire, Begin
  <2>2. tx = Frame(frame)
    BY <2>1 DEF TxInv
  <2>3. Len(todo') = Len(<<TxOn>>) + 4
    <3>1. <<TxOn>> \in Seq(Value) /\ "FIFOS" \in Bus
      <4>1. TxOn \in Value
        BY Zenon DEF Value
      <4>2. QED
        BY <4>1 DEF Bus
    <3>2. Len(WriteReg("FIFOS", <<TxOn>>)) = Len(<<TxOn>>) + 4
      BY <3>1, WriteRegIs
    <3>3. QED
      BY <2>1, <3>2
  <2>4. ~(Len(todo') < 2)
    <3> DEFINE l == Len(<<TxOn>>)
    <3>1. l = 1
      OBVIOUS
    <3> HIDE DEF l
    <3>2. Len(todo') = l + 4
      BY <2>3 DEF l
    <3>3. QED
      BY <3>1, <3>2
  <2>5. LoadedAs("fire", frame, tx, <<>>, Len(todo'))
    BY <2>2, <2>4 DEF LoadedAs
  <2>6. Loaded(Len(todo))'
    BY <2>1, <2>5 DEF Loaded
  <2>7. QED
    BY <2>1, <2>6 DEF TxInv
<1>12. CASE (\E n \in Objects : Arrives(n)) \/ UNCHANGED vars
  <2>1. UNCHANGED <<call, at, todo, acked, frame, result, staged, tx, air>>
    BY <1>12 DEF Arrives, vars, program, chip
  <2>2. QED
    BY <2>1, Zenon DEF TxInv, Loaded
<1>13. QED
  BY <1>1, <1>2, <1>3, <1>4, <1>5, <1>6, <1>7, <1>8, <1>9, <1>10, <1>11, <1>12,
     Zenon DEF Next, Program, Client

\* TxInv always holds.
LEMMA TxAlways == Spec => []TxInv
<1>1. Init => TxInv
  BY DEF Init, TxInv
<1>2. BusInv /\ TxInv /\ [Next]_vars => TxInv'
  BY TxNext
<1>3. QED
  BY <1>1, <1>2, BusAlways, PTL DEF Spec

\* What goes on the wire is the message handed to the call, or to the stage
\* before a fire: nothing left in the TX FIFO by a call that failed gets into
\* it.  A tx or fire that returned Ok has sent it.
THEOREM SendsWholeFrames == Spec => []WholeFrames
<1>1. TxInv => WholeFrames
  BY DEF TxInv, WholeFrames
<1>2. QED
  BY <1>1, TxAlways, PTL
-----------------------------------------------------------------------------
(* The RX FIFO.                                                            *)

\* The packets of a sequence of messages.
LEMMA PacketsAre ==
    ASSUME NEW s \in Seq(Message)
    PROVE  /\ Packets(s) \in Seq(Seq(RxByte)) /\ Len(Packets(s)) = Len(s)
           /\ \A i \in 1..Len(s) : Packets(s)[i] = Bytes(s[i])
<1> DEFINE n == Len(s)
<1>1. \A i \in 1..n : Bytes(s[i]) \in Seq(RxByte)
  <2>1. \A i \in 1..n : s[i] \in Message
    BY Elements
  <2>2. QED
    BY <2>1, BytesAre
<1>2. n \in Nat
  OBVIOUS
<1>3. Packets(s) = [i \in 1..n |-> Bytes(s[i])]
  BY Zenon DEF Packets
<1> HIDE DEF n
<1>4. Packets(s) \in [1..n -> Seq(RxByte)] /\ \A i \in 1..n : Packets(s)[i] = Bytes(s[i])
  BY <1>1, <1>3, Zenon
<1>5. Packets(s) \in Seq(Seq(RxByte)) /\ Len(Packets(s)) = n
  BY <1>2, <1>4
<1>6. QED
  BY <1>4, <1>5 DEF n

\* They are bytes when put one after the other,
LEMMA WaitingType ==
    ASSUME NEW s \in Seq(Message)
    PROVE  Waiting(s) \in Seq(RxByte)
<1>1. Packets(s) \in Seq(Seq(RxByte))
  BY PacketsAre
<1>2. QED
  BY <1>1, FlattenType DEF Waiting

\* none without messages,
LEMMA WaitingEmpty == Waiting(<<>>) = <<>>
<1>1. <<>> \in Seq(Message)
  OBVIOUS
<1>2. Packets(<<>>) \in Seq(Seq(RxByte)) /\ Len(Packets(<<>>)) = Len(<<>>)
  BY <1>1, PacketsAre
<1> DEFINE q == Packets(<<>>)
<1>3. Len(<<>>) = 0
  OBVIOUS
<1>4. q \in Seq(Seq(RxByte)) /\ Len(q) = 0
  BY <1>2, <1>3
<1> HIDE DEF q
<1>5. q = <<>>
  BY <1>4
<1>6. FlattenSeq(q) = <<>>
  BY <1>4, <1>5, FlattenIs
<1>7. QED
  BY <1>6 DEF Waiting, q

\* those of the last message at the end,
LEMMA WaitingAppend ==
    ASSUME NEW s \in Seq(Message), NEW m \in Message
    PROVE  Waiting(Append(s, m)) = Waiting(s) \o Bytes(m)
<1> DEFINE t == Append(s, m)
           n == Len(s)
<1>1. /\ t \in Seq(Message) /\ Len(t) = n + 1 /\ t[n + 1] = m
      /\ \A i \in 1..n : t[i] = s[i]
      /\ n \in Nat
  BY AppendProperties
<1>2. /\ Packets(s) \in Seq(Seq(RxByte)) /\ Len(Packets(s)) = n
      /\ \A i \in 1..n : Packets(s)[i] = Bytes(s[i])
  BY PacketsAre
<1>3. Bytes(m) \in Seq(RxByte)
  BY BytesAre
<1> HIDE DEF t
<1>4. /\ Packets(t) \in Seq(Seq(RxByte)) /\ Len(Packets(t)) = Len(t)
      /\ \A i \in 1..Len(t) : Packets(t)[i] = Bytes(t[i])
  BY <1>1, PacketsAre
<1> DEFINE p == Packets(s)
           q == Packets(t)
           b == Bytes(m)
           r == Append(p, b)
<1>5. /\ q \in Seq(Seq(RxByte)) /\ Len(q) = n + 1 /\ q[n + 1] = b
      /\ \A i \in 1..n : q[i] = p[i]
  BY <1>1, <1>2, <1>4
<1>6. p \in Seq(Seq(RxByte)) /\ Len(p) = n /\ b \in Seq(RxByte)
  BY <1>2, <1>3
<1> HIDE DEF n, p, q, b
<1>7. /\ r \in Seq(Seq(RxByte)) /\ Len(r) = n + 1 /\ r[n + 1] = b
      /\ \A i \in 1..n : r[i] = p[i]
  BY <1>1, <1>6
<1> HIDE DEF r
<1>8. \A i \in 1..n + 1 : q[i] = r[i]
  <2> TAKE i \in 1..n + 1
  <2>1. i \in 1..n \/ i = n + 1
    BY <1>1
  <2>2. QED
    BY <1>5, <1>7, <2>1
<1>9. q = r
  BY <1>1, <1>5, <1>7, <1>8, SeqEqual
<1>10. FlattenSeq(q) = FlattenSeq(p) \o b
  BY <1>6, <1>9, FlattenAppend DEF r
<1>11. QED
  BY <1>10 DEF Waiting, p, q, b, t

\* and those of the oldest in front.
LEMMA WaitingCons ==
    ASSUME NEW s \in Seq(Message), s # <<>>
    PROVE  Waiting(s) = Bytes(Head(s)) \o Waiting(Tail(s))
<1> DEFINE t == Tail(s)
           n == Len(t)
<1>1. /\ t \in Seq(Message) /\ Len(s) = n + 1 /\ n \in Nat /\ Head(s) = s[1]
      /\ \A i \in 1..n : t[i] = s[i + 1]
  OBVIOUS
<1>2. /\ Packets(s) \in Seq(Seq(RxByte)) /\ Len(Packets(s)) = Len(s)
      /\ \A i \in 1..Len(s) : Packets(s)[i] = Bytes(s[i])
  BY PacketsAre
<1> HIDE DEF t
<1>3. /\ Packets(t) \in Seq(Seq(RxByte)) /\ Len(Packets(t)) = n
      /\ \A i \in 1..n : Packets(t)[i] = Bytes(t[i])
  BY <1>1, PacketsAre
<1> DEFINE p == Packets(s)
           q == Packets(t)
           b == Bytes(Head(s))
<1>4. /\ p \in Seq(Seq(RxByte)) /\ Len(p) = n + 1 /\ p[1] = b
      /\ \A i \in 1..n : p[i + 1] = Bytes(s[i + 1])
  BY <1>1, <1>2
<1>5. /\ q \in Seq(Seq(RxByte)) /\ Len(q) = n
      /\ \A i \in 1..n : q[i] = Bytes(s[i + 1])
  BY <1>1, <1>3
<1> HIDE DEF n, p, q, b
<1>6. p # <<>> /\ Head(p) = b
  BY <1>1, <1>4
<1>7. /\ Tail(p) \in Seq(Seq(RxByte)) /\ Len(Tail(p)) = n
      /\ \A i \in 1..n : Tail(p)[i] = p[i + 1]
  BY <1>1, <1>4, <1>6
<1>8. Tail(p) = q
  <2>1. \A i \in 1..n : Tail(p)[i] = q[i]
    BY <1>4, <1>5, <1>7
  <2>2. QED
    BY <1>5, <1>7, <2>1, SeqEqual
<1>9. FlattenSeq(p) = b \o FlattenSeq(q)
  <2>1. FlattenSeq(p) = Head(p) \o FlattenSeq(Tail(p))
    BY <1>4, <1>6, FlattenCons
  <2>2. QED
    BY <1>6, <1>8, <2>1
<1>10. QED
  BY <1>9 DEF Waiting, p, q, b, t

\* Reading the next byte of a packet with w behind it.
LEMMA HalfStep ==
    ASSUME NEW S, NEW b \in Seq(S), NEW w \in Seq(S), NEW p \in 0..Len(b) - 1
    PROVE  /\ Onward(b, p + 1) \o w # <<>>
           /\ Head(Onward(b, p + 1) \o w) = b[p + 1]
           /\ Tail(Onward(b, p + 1) \o w) = Onward(b, p + 2) \o w
<1> DEFINE l == Onward(b, p + 1)
           m == Onward(b, p + 2)
<1>1. p + 1 \in 1..Len(b) /\ (p + 1) + 1 = p + 2 /\ p + 2 \in 1..Len(b) + 1
  OBVIOUS
<1>2. l # <<>> /\ Head(l) = b[p + 1] /\ Tail(l) = m
  <2>1. l # <<>> /\ Head(l) = b[p + 1] /\ Tail(l) = Onward(b, (p + 1) + 1)
    BY <1>1, OnwardStep
  <2>2. QED
    BY <1>1, <2>1
<1>3. l \in Seq(S) /\ m \in Seq(S)
  BY <1>1, OnwardIs
<1> HIDE DEF l, m
<1>4. l \o w # <<>> /\ Head(l \o w) = Head(l)
  BY <1>2, <1>3
<1>5. Tail(l \o w) = Tail(l) \o w
  <2> DEFINE x == Tail(l \o w)
             y == Tail(l) \o w
             i == Len(l)
             j == Len(w)
  <2>1. i \in Nat /\ i > 0 /\ j \in Nat
    BY <1>2, <1>3
  <2>2. /\ l \o w \in Seq(S) /\ Len(l \o w) = i + j
        /\ \A n \in 1..i + j : (l \o w)[n] = IF n <= i THEN l[n] ELSE w[n - i]
    BY <1>3, Joined
  <2>3. /\ Tail(l) \in Seq(S) /\ Len(Tail(l)) = i - 1
        /\ \A n \in 1..i - 1 : Tail(l)[n] = l[n + 1]
    BY <1>2, <1>3
  <2>4. /\ y \in Seq(S) /\ Len(y) = (i - 1) + j
        /\ \A n \in 1..(i - 1) + j : y[n] = IF n <= i - 1 THEN Tail(l)[n] ELSE w[n - (i - 1)]
    <3>1. /\ Tail(l) \o w \in Seq(S) /\ Len(Tail(l) \o w) = Len(Tail(l)) + Len(w)
          /\ \A n \in 1..Len(Tail(l)) + Len(w) :
               (Tail(l) \o w)[n] = IF n <= Len(Tail(l)) THEN Tail(l)[n] ELSE w[n - Len(Tail(l))]
      BY <1>3, <2>3, Joined
    <3>2. QED
      BY <2>3, <3>1
  <2> DEFINE z == l \o w
  <2>20. \A n \in 1..i + j : z[n] = IF n <= i THEN l[n] ELSE w[n - i]
    BY <2>2
  <2> HIDE DEF z, i, j
  <2>5. x = Tail(z)
    BY DEF z
  <2> HIDE DEF x, y
  <2>6. z \in Seq(S) /\ Len(z) = i + j
    BY <2>2 DEF z
  <2>7. /\ x \in Seq(S) /\ Len(x) = (i - 1) + j
        /\ \A n \in 1..(i - 1) + j : x[n] = z[n + 1]
    BY <2>1, <2>5, <2>6
  <2>8. \A n \in 1..(i - 1) + j : x[n] = y[n]
    <3> TAKE n \in 1..(i - 1) + j
    <3>1. n + 1 \in 1..i + j
      BY <2>1
    <3>2. (n + 1 <= i => z[n + 1] = l[n + 1]) /\ (~(n + 1 <= i) => z[n + 1] = w[(n + 1) - i])
      BY <2>20, <3>1
    <3>3. CASE n <= i - 1
      <4>1. n + 1 <= i /\ n \in 1..i - 1
        BY <2>1, <3>3
      <4>2. QED
        BY <2>3, <2>4, <2>7, <3>2, <3>3, <4>1
    <3>4. CASE ~(n <= i - 1)
      <4>1. ~(n + 1 <= i) /\ (n + 1) - i = n - (i - 1)
        BY <2>1, <3>4
      <4>2. QED
        BY <2>4, <2>7, <3>2, <3>4, <4>1
    <3>5. QED
      BY <3>3, <3>4
  <2>9. x = y
    BY <2>4, <2>7, <2>8, SeqEqual
  <2>10. QED
    BY <2>9 DEF x, y
<1>6. QED
  BY <1>2, <1>4, <1>5 DEF l, m
-----------------------------------------------------------------------------
\* A packet: three bytes, and what PollHead finds there are behind them.
LEMMA PacketIs ==
    ASSUME NEW m \in Message
    PROVE  /\ Bytes(m) \in Seq(RxByte) /\ Len(Bytes(m)) = 3 + Rest(m.objects)
           /\ Rest(m.objects) \in Amounts /\ Rest(m.objects) \in Nat \ {0}
           /\ \A i \in 1..3 + Rest(m.objects) : Bytes(m)[i] = Byte(m, i)
<1> DEFINE d == m.objects * ObjectLen
           n == Rest(m.objects)
<1>1. /\ d \in Nat /\ Bytes(m) \in Seq(RxByte) /\ Len(Bytes(m)) = 3 + d + CrcLen
      /\ \A i \in 1..3 + d + CrcLen : Bytes(m)[i] = Byte(m, i)
  BY BytesAre
<1>2. CrcLen \in Nat \ {0}
  BY BridgeAssumption
<1>3. n = d + CrcLen
  BY DEF Rest
<1>4. m.objects \in Objects
  BY DEF Message
<1>5. n \in Amounts
  BY <1>4, Zenon DEF Amounts
<1> HIDE DEF d, n
<1>6. n \in Nat \ {0} /\ 3 + d + CrcLen = 3 + n
  BY <1>1, <1>2, <1>3
<1>7. Len(Bytes(m)) = 3 + n /\ \A i \in 1..3 + n : Bytes(m)[i] = Byte(m, i)
  BY <1>1, <1>6
<1>8. QED
  BY <1>1, <1>5, <1>6, <1>7 DEF n

\* A message that arrives goes behind a packet half read.
LEMMA HalfArrives ==
    ASSUME NEW b \in Seq(RxByte), NEW p \in 0..Len(b), NEW s \in Seq(Message), NEW m \in Message
    PROVE  (Onward(b, p + 1) \o Waiting(s)) \o Bytes(m) = Onward(b, p + 1) \o Waiting(Append(s, m))
<1>1. p + 1 \in 1..Len(b) + 1
  OBVIOUS
<1>2. Onward(b, p + 1) \in Seq(RxByte) /\ Waiting(s) \in Seq(RxByte) /\ Bytes(m) \in Seq(RxByte)
  BY <1>1, OnwardIs, WaitingType, BytesAre
<1>3. Waiting(Append(s, m)) = Waiting(s) \o Bytes(m)
  BY WaitingAppend
<1> DEFINE x == Onward(b, p + 1)
           y == Waiting(s)
           z == Bytes(m)
<1>4. x \in Seq(RxByte) /\ y \in Seq(RxByte) /\ z \in Seq(RxByte)
  BY <1>2
<1> HIDE DEF x, y, z
<1>5. (x \o y) \o z = x \o (y \o z)
  BY <1>4, SMTT(40)
<1>6. QED
  BY <1>3, <1>5 DEF x, y, z

\* At most three bytes are read of the head of a packet.
LEMMA HeadLength ==
    ASSUME BusInv, call = "poll", at = "head", acked
    PROVE  Len(got) \in Nat /\ Len(got) <= 3
<1>1. Types /\ Placed
  BY DEF BusInv
<1>2. PlacedRead
  BY <1>1, PlacedIs DEF Idle, Refused, PlacedWrite, Tells
<1>3. PICK reg \in Bus, n \in Amounts : Asks(reg, n) /\ \E k \in 1..n + 7 : Reading(reg, n, k)
  BY <1>2 DEF PlacedRead
<1>4. n = 3
  BY <1>3 DEF Asks
<1>5. PICK k \in 1..10 : Reading(reg, 3, k)
  BY <1>3, <1>4
<1>6. /\ k <= 6 => Len(got) = 0
      /\ k \in 7..9 => Len(got) = k - 6
      /\ k = 10 => Len(got) = 3
  BY <1>5 DEF Reading
<1> DEFINE l == Len(got)
<1>7. /\ k <= 6 => l = 0
      /\ k \in 7..9 => l = k - 6
      /\ k = 10 => l = 3
  BY <1>6
<1> HIDE DEF l
<1>8. l \in Nat /\ l <= 3
  BY <1>7
<1>9. QED
  BY <1>8 DEF l

\* A message that arrives keeps RxInv.
LEMMA RxArrives ==
    ASSUME BusInv, RxInv, NEW n \in Objects, Arrives(n)
    PROVE  RxInv'
<1> DEFINE m == [number |-> number, objects |-> n]
<1>1. Types /\ m \in Message
  BY DEF BusInv, Types, Message
<1>2. /\ rx' = rx \o Bytes(m) /\ step' = step
      /\ pending' = IF step = "out" THEN pending ELSE Append(pending, m)
      /\ UNCHANGED <<call, at, todo, acked, got, raw, slave>>
  BY DEF Arrives, program
<1>3. Bytes(m) \in Seq(RxByte) /\ pending \in Seq(Message) /\ rx \in Seq(RxByte)
  BY <1>1, BytesAre DEF Types
<1>4. step \in {"in", "half", "out"}
  BY DEF RxInv
<1> HIDE DEF m
<1>5. step' = "in" => rx' = Waiting(pending')
  <2> SUFFICES ASSUME step = "in"
               PROVE  rx' = Waiting(pending')
    BY <1>2
  <2>1. rx = Waiting(pending) /\ pending' = Append(pending, m)
    BY <1>2 DEF RxInv
  <2>2. Waiting(Append(pending, m)) = Waiting(pending) \o Bytes(m)
    BY <1>1, <1>3, WaitingAppend
  <2>3. QED
    BY <1>2, <2>1, <2>2
<1>6. rx # <<>> => rx' # <<>>
  <2> DEFINE z == Bytes(m)
  <2>1. z \in Seq(RxByte) /\ rx' = rx \o z
    BY <1>2, <1>3
  <2> HIDE DEF z
  <2>2. QED
    BY <1>3, <2>1
<1>7. ASSUME step = "half", NEW p \in 0..3 + Rest(Head(pending).objects), Half(p)
      PROVE  Half(p)' /\ Head(pending') = Head(pending)
  <2>1. pending # <<>> /\ rx = Onward(Bytes(Head(pending)), p + 1) \o Waiting(Tail(pending))
    BY <1>7 DEF Half
  <2>2. pending' = Append(pending, m)
    BY <1>2, <1>7
  <2>3. /\ pending' # <<>> /\ Head(pending') = Head(pending)
        /\ Tail(pending') = Append(Tail(pending), m)
        /\ Head(pending) \in Message /\ Tail(pending) \in Seq(Message)
    <3>1. pending \in Seq(Message) /\ pending # <<>> /\ m \in Message
      BY <1>1, <1>3, <2>1
    <3>2. /\ Append(pending, m) # <<>> /\ Head(Append(pending, m)) = Head(pending)
          /\ Tail(Append(pending, m)) = Append(Tail(pending), m)
          /\ Tail(pending) \in Seq(Message) /\ Head(pending) \in Message
      BY <3>1, AppendTail
    <3>3. QED
      BY <2>2, <3>2, Zenon
  <2>4. Bytes(Head(pending)) \in Seq(RxByte) /\ p \in 0..Len(Bytes(Head(pending)))
    BY <1>7, <2>3, PacketIs
  <2>5. (Onward(Bytes(Head(pending)), p + 1) \o Waiting(Tail(pending))) \o Bytes(m)
          = Onward(Bytes(Head(pending)), p + 1) \o Waiting(Append(Tail(pending), m))
    BY <1>1, <2>3, <2>4, HalfArrives
  <2>6. rx' = Onward(Bytes(Head(pending)), p + 1) \o Waiting(Append(Tail(pending), m))
    BY <1>2, <2>1, <2>5
  <2>7. QED
    BY <2>3, <2>6 DEF Half
<1>8. call' = "poll" /\ acked' /\ at' = "status" =>
        step' # "half" /\ (got' # <<>> => got'[1] = RxEmpty \/ rx' # <<>>)
  BY <1>2, <1>6 DEF RxInv
<1>9. ASSUME call' = "poll", acked', at' = "head"
      PROVE  HeadRead'
  <2>1. HeadRead /\ got' = got
    BY <1>2, <1>9 DEF RxInv
  <2>2. got = <<>> => step' # "half" /\ rx' # <<>>
    BY <1>2, <1>6, <2>1 DEF HeadRead
  <2>3. got # <<>> => step' # "in"
    BY <1>2, <2>1 DEF HeadRead
  <2>4. ASSUME got # <<>>, step = "half"
        PROVE  Half(Len(got))' /\ got = SubSeq(Bytes(Head(pending')), 1, Len(got))
    <3>1. Half(Len(got)) /\ got = SubSeq(Bytes(Head(pending)), 1, Len(got))
      BY <2>1, <2>4 DEF HeadRead
    <3>2. Head(pending) \in Message
      BY <1>3, <3>1 DEF Half
    <3>3. Len(got) \in 0..3 + Rest(Head(pending).objects)
      <4>1. Len(got) \in Nat /\ Len(got) <= 3
        BY <1>1, <1>2, <1>9, HeadLength DEF BusInv, Types
      <4>2. Rest(Head(pending).objects) \in Nat
        BY <3>2, PacketIs
      <4>3. QED
        BY <4>1, <4>2
    <3>4. QED
      BY <1>2, <1>7, <2>1, <2>4, <3>1, <3>3
  <2>5. QED
    BY <1>2, <2>1, <2>2, <2>3, <2>4 DEF HeadRead
<1>10. ASSUME call' = "poll", acked', at' = "rest"
       PROVE  RestRead'
  <2>1. RestRead /\ got' = got /\ raw' = raw
    BY <1>2, <1>10 DEF RxInv
  <2>2. step' # "in"
    BY <1>2, <2>1 DEF RestRead
  <2>3. ASSUME step = "half"
        PROVE  /\ Half(3 + Len(got))'
               /\ (\E k \in 1..Rest(Head(pending).objects) + 7 :
                     Reading("FIFOS", Rest(Head(pending).objects), k))'
               /\ raw' = SubSeq(Bytes(Head(pending')), 2, 3)
               /\ got' = SubSeq(Bytes(Head(pending')), 4, 3 + Len(got'))
    <3> DEFINE r == Rest(Head(pending).objects)
    <3>1. /\ Half(3 + Len(got))
          /\ raw = SubSeq(Bytes(Head(pending)), 2, 3)
          /\ got = SubSeq(Bytes(Head(pending)), 4, 3 + Len(got))
      BY <2>1, <2>3 DEF RestRead
    <3>2. PICK k \in 1..r + 7 : Reading("FIFOS", r, k)
      BY <2>1, <2>3 DEF RestRead
    <3>3. Head(pending) \in Message
      BY <1>3, <3>1 DEF Half
    <3>4. r \in Nat
      BY <3>3, PacketIs
    <3> HIDE DEF r
    <3>5. 3 + Len(got) \in 0..3 + r
      <4>1. /\ k <= 6 => Len(got) = 0
            /\ k \in 7..r + 6 => Len(got) = k - 6
            /\ k = r + 7 => Len(got) = r
        BY <3>2 DEF Reading
      <4>2. QED
        BY <3>2, <3>4, <4>1
    <3>6. Half(3 + Len(got))' /\ Head(pending') = Head(pending)
      BY <1>2, <1>7, <2>1, <2>3, <3>1, <3>5 DEF r
    <3>7. Reading("FIFOS", r, k)'
      <4>1. UNCHANGED <<todo, acked, got, slave>>
        BY <1>2
      <4>2. PICK q : q = r
        OBVIOUS
      <4>3. Reading("FIFOS", q, k) => Reading("FIFOS", q, k)'
        BY <4>1 DEF Reading, ReadPhase
      <4>4. r' = r
        BY <3>6 DEF r
      <4>5. QED
        BY <3>2, <4>2, <4>3, <4>4
    <3>8. QED
      BY <2>1, <3>1, <3>2, <3>6, <3>7 DEF r
  <2>4. QED
    BY <1>2, <2>2, <2>3 DEF RestRead
<1>11. QED
  BY <1>2, <1>4, <1>5, <1>8, <1>9, <1>10 DEF RxInv
-----------------------------------------------------------------------------
\* The byte read of a packet, and what it leaves.
LEMMA HalfReads ==
    ASSUME Types, slave.reg = "FIFOS", NEW p \in 0..2 + Rest(Head(pending).objects), Half(p),
           rx' = IF rx = <<>> THEN rx ELSE Tail(rx), pending' = pending
    PROVE  /\ Shown = Bytes(Head(pending))[p + 1]
           /\ Half(p + 1)'
<1> DEFINE b == Bytes(Head(pending))
           w == Waiting(Tail(pending))
           n == Rest(Head(pending).objects)
<1>1. pending # <<>> /\ rx = Onward(b, p + 1) \o w /\ pending \in Seq(Message)
  BY DEF Half, Types
<1>2. Head(pending) \in Message /\ Tail(pending) \in Seq(Message)
  BY <1>1
<1>3. b \in Seq(RxByte) /\ Len(b) = 3 + n /\ n \in Nat
  BY <1>2, PacketIs
<1>4. w \in Seq(RxByte)
  BY <1>2, WaitingType
<1>5. p \in 0..Len(b) - 1 /\ (p + 1) + 1 = p + 2
  <2> HIDE DEF b, n
  <2>1. p \in 0..2 + n
    BY DEF n
  <2>2. QED
    BY <1>3, <2>1
<1> HIDE DEF b, w, n
<1>6. rx # <<>> /\ Head(rx) = b[p + 1] /\ Tail(rx) = Onward(b, p + 2) \o w
  BY <1>1, <1>3, <1>4, <1>5, HalfStep
<1>7. Shown = b[p + 1]
  BY <1>6 DEF Shown
<1>8. rx' = Onward(b, (p + 1) + 1) \o w
  BY <1>5, <1>6
<1>9. Half(p + 1)'
  BY <1>1, <1>8 DEF Half, b, w
<1>10. QED
  BY <1>7, <1>9 DEF b

\* The first byte of a packet.
LEMMA HalfBegins ==
    ASSUME Types, rx = Waiting(pending), rx # <<>>
    PROVE  Half(0) /\ Head(pending) \in Message
<1>1. pending \in Seq(Message) /\ pending # <<>>
  BY WaitingEmpty DEF Types
<1>2. Waiting(pending) = Bytes(Head(pending)) \o Waiting(Tail(pending))
  BY <1>1, WaitingCons
<1>3. Head(pending) \in Message
  BY <1>1
<1>4. Onward(Bytes(Head(pending)), 1) = Bytes(Head(pending))
  <2>1. Bytes(Head(pending)) \in Seq(RxByte)
    BY <1>3, BytesAre
  <2>2. QED
    BY <2>1, OnwardEnds
<1>5. 0 + 1 = 1
  OBVIOUS
<1>6. QED
  BY <1>1, <1>2, <1>3, <1>4, <1>5 DEF Half

\* What a poll does with a command: k, of a read of n bytes.
ReadIssued(reg, n, k) ==
    /\ Asks(reg, n) /\ k \in 1..n + 6 /\ Reading(reg, n, k) /\ Kept
    /\ ReadDoes(reg, n, k, acked')
    /\ k \in 6..n + 5 => got' = Append(got, Shown)
    /\ k \notin 6..n + 5 => got' = got
    /\ acked' => Reading(reg, n, k + 1)'

\* In a call of poll_message every command is one of a read.
LEMMA PollReads ==
    ASSUME BusInv, Issue, call = "poll", acked
    PROVE  \E reg \in Bus, n \in Amounts, k \in Nat : ReadIssued(reg, n, k)
<1>1. Types /\ Placed
  BY DEF BusInv
<1>2. PlacedRead
  BY <1>1, PlacedIs DEF Idle, Refused, PlacedWrite, Tells
<1>3. PICK reg \in Bus, n \in Amounts : Asks(reg, n) /\ \E k \in 1..n + 7 : Reading(reg, n, k)
  BY <1>2 DEF PlacedRead
<1>4. PICK k \in 1..n + 7 : Reading(reg, n, k)
  BY <1>3
<1>5. n \in Nat \ {0}
  BY AmountsAre
<1>6. /\ k \in 1..n + 6 /\ Kept
      /\ ReadDoes(reg, n, k, acked')
      /\ k \in 6..n + 5 => got' = Append(got, Shown)
      /\ k \notin 6..n + 5 => got' = got
      /\ acked' => Reading(reg, n, k + 1)'
  BY <1>1, <1>4, <1>5, ReadIssue
<1>7. k \in Nat
  BY <1>4, <1>5
<1>8. ReadIssued(reg, n, k)
  BY <1>3, <1>4, <1>6, Zenon DEF ReadIssued
<1>9. QED
  BY <1>7, <1>8

\* STATUS1 says that the RX FIFO is empty only when it was so.
LEMMA StatusReads ==
    ASSUME BusInv, RxInv, Issue, call = "poll", at = "status", acked, acked'
    PROVE  step' # "half" /\ (got' # <<>> => got'[1] = RxEmpty \/ rx' # <<>>)
<1>1. PICK reg \in Bus, n \in Amounts, k \in Nat : ReadIssued(reg, n, k)
  BY PollReads
<1>4. n = 1 /\ reg = "STATUS1"
  BY <1>1 DEF ReadIssued, Asks
<1>6. /\ ReadDoes(reg, n, k, acked') /\ Reading(reg, n, k)
      /\ k \in 6..n + 5 => got' = Append(got, Shown)
      /\ k \notin 6..n + 5 => got' = got
  BY <1>1, Zenon DEF ReadIssued
<1>7. rx' = rx /\ step' = step
  BY <1>4, <1>6, Zenon DEF ReadDoes
<1>8. step # "half" /\ (got # <<>> => got[1] = RxEmpty \/ rx # <<>>)
  BY DEF RxInv
<1>9. CASE k \in 6..n + 5
  <2>1. k = 6
    BY <1>4, <1>9
  <2>2. got = <<>> /\ slave.reg = "STATUS1"
    BY <1>4, <1>6, <2>1 DEF Reading, ReadPhase
  <2>3. got' = <<Shown>>
    BY <1>6, <1>9, <2>2
  <2>4. got'[1] = Shown
    BY <2>3
  <2>5. Shown = RxEmpty \/ rx # <<>>
    BY <2>2 DEF Shown
  <2>6. QED
    BY <1>7, <1>8, <2>4, <2>5
<1>10. CASE k \notin 6..n + 5
  BY <1>6, <1>7, <1>8, <1>10
<1>11. QED
  BY <1>9, <1>10

\* The read of the head has the first bytes of the oldest packet.
LEMMA HeadReads ==
    ASSUME BusInv, RxInv, Issue, call = "poll", at = "head", acked, acked'
    PROVE  HeadRead'
<1>1. Types /\ HeadRead
  BY DEF BusInv, RxInv
<1>2. PICK reg \in Bus, n \in Amounts, k \in Nat : ReadIssued(reg, n, k)
  BY PollReads
<1>4. n = 3 /\ reg = "FIFOS"
  BY <1>2 DEF ReadIssued, Asks
<1>6. /\ ReadDoes(reg, n, k, acked') /\ Reading(reg, n, k)
      /\ k \in 6..n + 5 => got' = Append(got, Shown)
      /\ k \notin 6..n + 5 => got' = got
  BY <1>2, Zenon DEF ReadIssued
<1>7. pending' = pending
  BY <1>6, Zenon DEF ReadDoes
<1>8. CASE k \notin 6..n + 5
  <2>1. rx' = rx /\ step' = step
    BY <1>6, <1>8, Zenon DEF ReadDoes
  <2>2. QED
    BY <1>1, <1>6, <1>7, <1>8, <2>1 DEF HeadRead, Half
<1>9. CASE k \in 6..n + 5
  <2>1. k \in 6..8
    BY <1>4, <1>9
  <2>2. /\ rx' = IF rx = <<>> THEN rx ELSE Tail(rx)
        /\ step' = IF step = "out" THEN "out" ELSE "half"
    BY <1>4, <1>6, <1>9, Zenon DEF ReadDoes
  <2>3. slave.reg = "FIFOS" /\ (k = 6 => got = <<>>) /\ (k # 6 => Len(got) = k - 6)
    BY <1>4, <1>6, <2>1 DEF Reading, ReadPhase
  <2>4. got' = Append(got, Shown) /\ got \in Seq(RxByte) /\ Shown \in RxByte
    BY <1>1, <1>6, <1>9, ShownIs DEF Types
  <2> DEFINE l == Len(got)
  <2>5. l = k - 6 /\ l \in 0..2
    <3>1. CASE k = 6
      <4>1. l = 0
        BY <2>3, <3>1
      <4> HIDE DEF l
      <4>2. QED
        BY <3>1, <4>1
    <3>2. CASE k # 6
      <4>1. l = k - 6
        BY <2>3, <3>2
      <4> HIDE DEF l
      <4>2. QED
        BY <2>1, <4>1
    <3>3. QED
      BY <3>1, <3>2
  <2>6. got' # <<>> /\ Len(got') = l + 1
    BY <2>4
  <2>7. step' # "in"
    BY <2>2
  <2>8. ASSUME step' = "half"
        PROVE  Half(Len(got))' /\ got' = SubSeq(Bytes(Head(pending')), 1, Len(got'))
    <3>1. step \in {"in", "half"}
      BY <2>2, <2>8 DEF RxInv
    <3> DEFINE b == Bytes(Head(pending))
               r == Rest(Head(pending).objects)
    <3>2. Half(l) /\ got = SubSeq(b, 1, l) /\ Head(pending) \in Message
      <4>1. CASE k = 6
        <5>1. got = <<>> /\ l = 0
          BY <2>3, <2>5, <4>1
        <5>2. step = "in" /\ rx # <<>>
          BY <1>1, <3>1, <5>1 DEF HeadRead
        <5>3. Half(0) /\ Head(pending) \in Message
          BY <1>1, <5>2, HalfBegins DEF RxInv
        <5>4. SubSeq(b, 1, 0) = <<>>
          <6>1. b \in Seq(RxByte)
            BY <5>3, PacketIs
          <6>2. QED
            BY <6>1, PartEmpty
        <5> HIDE DEF l, b
        <5>5. QED
          BY <5>1, <5>3, <5>4
      <4>2. CASE k # 6
        <5>1. l # 0
          <6> HIDE DEF l
          <6>1. QED
            BY <2>1, <2>5, <4>2
        <5>2. got # <<>>
          BY <5>1
        <5>3. step = "half"
          BY <1>1, <3>1, <5>2 DEF HeadRead
        <5>4. Half(l) /\ got = SubSeq(b, 1, l)
          BY <1>1, <5>2, <5>3 DEF HeadRead
        <5>5. Head(pending) \in Message
          BY <1>1, <5>4 DEF Half, Types
        <5>6. QED
          BY <5>4, <5>5
      <4>3. QED
        BY <4>1, <4>2
    <3>3. b \in Seq(RxByte) /\ Len(b) = 3 + r /\ r \in Nat
      BY <3>2, PacketIs
    <3> HIDE DEF l, b, r
    <3>4. l \in 0..2 + r /\ l \in 1 - 1..Len(b) - 1 /\ 1 \in 1..Len(b)
      BY <2>5, <3>3
    <3>5. PICK i : i = l
      OBVIOUS
    <3>6. Shown = Bytes(Head(pending))[i + 1] /\ Half(i + 1)'
      <4>1. i \in 0..2 + Rest(Head(pending).objects) /\ Half(i)
        BY <3>2, <3>4, <3>5 DEF r
      <4>2. QED
        BY <1>1, <1>7, <2>2, <2>3, <4>1, HalfReads
    <3>7. Shown = b[l + 1]
      BY <3>5, <3>6 DEF b
    <3>8. Append(SubSeq(b, 1, l), b[l + 1]) = SubSeq(b, 1, l + 1)
      BY <3>3, <3>4, PartStep
    <3>9. got' = SubSeq(b, 1, l + 1)
      BY <2>4, <3>2, <3>7, <3>8
    <3>10. b = Bytes(Head(pending'))
      BY <1>7 DEF b
    <3>11. Half(Len(got))'
      <4>1. i + 1 = Len(got')
        BY <2>6, <3>5
      <4>2. QED
        BY <3>6, <4>1 DEF Half
    <3>12. QED
      BY <2>6, <3>9, <3>10, <3>11
  <2>9. QED
    BY <2>6, <2>7, <2>8 DEF HeadRead
<1>10. QED
  BY <1>8, <1>9
-----------------------------------------------------------------------------
\* The read of the rest has the bytes that follow them.
LEMMA RestReads ==
    ASSUME BusInv, RxInv, Issue, call = "poll", at = "rest", acked, acked'
    PROVE  RestRead'
<1>1. Types /\ RestRead
  BY DEF BusInv, RxInv
<1>2. step' # "in" /\ (step' = "half" => step = "half") /\ pending' = pending /\ raw' = raw
  <2>1. PICK reg \in Bus, n \in Amounts, k \in Nat : ReadIssued(reg, n, k)
    BY PollReads
  <2>2. ReadDoes(reg, n, k, acked') /\ Kept
    BY <2>1, Zenon DEF ReadIssued
  <2>3. /\ UNCHANGED <<number, pending>>
        /\ k \in 6..n + 5 /\ reg = "FIFOS" => step' = IF step = "out" THEN "out" ELSE "half"
        /\ k \notin 6..n + 5 \/ reg # "FIFOS" => step' = step
    BY <2>2, Zenon DEF ReadDoes
  <2>4. step # "in" /\ raw' = raw
    BY <1>1, <2>2 DEF RestRead, Kept
  <2>5. step \in {"half", "out"}
    BY <2>4 DEF RxInv
  <2>6. QED
    BY <2>3, <2>4, <2>5
<1>3. ASSUME step = "half"
      PROVE  /\ Half(3 + Len(got))'
             /\ (\E k \in 1..Rest(Head(pending).objects) + 7 :
                   Reading("FIFOS", Rest(Head(pending).objects), k))'
             /\ got' = SubSeq(Bytes(Head(pending')), 4, 3 + Len(got'))
  <2> DEFINE b == Bytes(Head(pending))
             r == Rest(Head(pending).objects)
             l == Len(got)
  <2>1. Half(3 + l) /\ got = SubSeq(b, 4, 3 + l)
    BY <1>1, <1>3 DEF RestRead
  <2>2. Head(pending) \in Message
    BY <1>1, <2>1 DEF Half, Types
  <2>3. b \in Seq(RxByte) /\ Len(b) = 3 + r /\ r \in Nat \ {0}
    BY <2>2, PacketIs
  <2>4. PICK n : n = r
    OBVIOUS
  <2>5. n \in Nat \ {0}
    BY <2>3, <2>4
  <2>6. PICK k \in 1..n + 7 : Reading("FIFOS", n, k)
    <3>1. \E k \in 1..r + 7 : Reading("FIFOS", r, k)
      BY <1>1, <1>3 DEF RestRead
    <3>2. QED
      BY <2>4, <3>1
  <2>7. /\ k \in 1..n + 6
        /\ ReadDoes("FIFOS", n, k, acked')
        /\ k \in 6..n + 5 => got' = Append(got, Shown)
        /\ k \notin 6..n + 5 => got' = got
        /\ Reading("FIFOS", n, k + 1)'
    <3>1. "FIFOS" \in Bus
      BY DEF Bus
    <3>2. QED
      BY <1>1, <2>5, <2>6, <3>1, ReadIssue
  <2>8. Rest(Head(pending').objects) = n /\ b = Bytes(Head(pending'))
    BY <1>2, <2>4
  <2>9. (\E i \in 1..Rest(Head(pending).objects) + 7 :
           Reading("FIFOS", Rest(Head(pending).objects), i))'
    <3>1. k + 1 \in 1..n + 7
      BY <2>5, <2>7
    <3>2. QED
      BY <2>7, <2>8, <3>1
  <2>10. /\ k <= 6 => l = 0
         /\ k \in 7..n + 6 => l = k - 6
         /\ k > 3 => slave.reg = "FIFOS"
         /\ got \in Seq(RxByte) /\ l \in Nat
    BY <1>1, <2>6 DEF Reading, ReadPhase, Types
  <2>11. CASE k \notin 6..n + 5
    <3>1. UNCHANGED <<got, rx, pending>>
      <4>1. rx' = rx
        BY <2>7, <2>11, Zenon DEF ReadDoes
      <4>2. QED
        BY <1>2, <2>7, <2>11, <4>1
    <3>2. Half(3 + Len(got))' /\ got' = SubSeq(Bytes(Head(pending')), 4, 3 + Len(got'))
      BY <2>1, <3>1 DEF Half
    <3>3. QED
      BY <2>9, <3>2
  <2>12. CASE k \in 6..n + 5
    <3>1. rx' = (IF rx = <<>> THEN rx ELSE Tail(rx)) /\ got' = Append(got, Shown)
      <4>1. rx' = IF rx = <<>> THEN rx ELSE Tail(rx)
        BY <2>7, <2>12, Zenon DEF ReadDoes
      <4>2. QED
        BY <2>7, <2>12, <4>1
    <3>2. slave.reg = "FIFOS" /\ l = k - 6
      <4> HIDE DEF l
      <4>1. k > 3 /\ (k <= 6 \/ k \in 7..n + 6)
        BY <2>5, <2>12
      <4>2. QED
        BY <2>5, <2>10, <2>12, <4>1
    <3>3. Len(got') = l + 1
      <4>1. got \in Seq(RxByte) /\ Shown \in RxByte
        BY <1>1, ShownIs DEF Types
      <4>2. QED
        BY <3>1, <4>1
    <3> HIDE DEF b, l, r
    <3>4. 3 + l \in 0..2 + n /\ 3 + l \in 4 - 1..Len(b) - 1 /\ 4 \in 1..Len(b)
      BY <2>3, <2>4, <2>12, <3>2
    <3>5. PICK i : i = 3 + l
      OBVIOUS
    <3>6. Shown = Bytes(Head(pending))[i + 1] /\ Half(i + 1)'
      <4>1. i \in 0..2 + Rest(Head(pending).objects) /\ Half(i)
        BY <2>1, <2>4, <3>4, <3>5 DEF r
      <4>2. QED
        BY <1>1, <1>2, <3>1, <3>2, <4>1, HalfReads
    <3>7. Append(SubSeq(b, 4, 3 + l), b[(3 + l) + 1]) = SubSeq(b, 4, (3 + l) + 1)
      BY <2>3, <3>4, PartStep
    <3>8. got' = SubSeq(b, 4, (3 + l) + 1)
      BY <2>1, <3>1, <3>5, <3>6, <3>7 DEF b
    <3>9. (3 + l) + 1 = 3 + Len(got')
      BY <2>10, <3>3
    <3>10. Half(3 + Len(got))'
      BY <3>5, <3>6, <3>9 DEF Half
    <3>11. QED
      BY <2>8, <2>9, <3>8, <3>9, <3>10
  <2>13. QED
    BY <2>11, <2>12
<1>4. step = "half" => raw' = SubSeq(Bytes(Head(pending')), 2, 3)
  BY <1>1, <1>2 DEF RestRead
<1>5. QED
  BY <1>2, <1>3, <1>4, Zenon DEF RestRead

\* A command keeps the RX FIFO and the messages that wait in it together.
LEMMA RxCarried ==
    ASSUME BusInv, RxInv, todo # <<>>, NEW ack \in BOOLEAN, CarriedOut(Head(todo), ack)
    PROVE  /\ step' \in {"in", "half", "out"}
           /\ step' = "in" => rx' = Waiting(pending')
<1>1. step' \in {"in", "half", "out"}
  <2>1. step \in {"in", "half", "out"}
    BY DEF RxInv
  <2>2. QED
    BY <2>1 DEF CarriedOut, Acknowledges, Takes, Gives, KeepRx, EmptyRx, inbox
<1>2. step = "in" => rx = Waiting(pending)
  BY DEF RxInv
<1>3. CASE Still
  BY <1>1, <1>2, <1>3 DEF Still, inbox
<1>4. CASE step' # "in"
  BY <1>1, <1>4
<1>5. ASSUME NEW reg \in Bus, NEW bytes \in Writes, NEW k \in 4..Len(bytes) + 3,
             Tells(reg, bytes), Takes(reg, bytes[k - 3])
      PROVE  step' = "in" => rx' = Waiting(pending')
  <2>1. UNCHANGED <<rx, inbox>> \/ EmptyRx
    <3>1. at \in {"flush", "burst", "register"}
      BY <1>5 DEF Tells
    <3>2. Types
      BY DEF BusInv
    <3>3. /\ at = "flush" => tx' = <<>> /\ air' = air /\ UNCHANGED <<rx, inbox>>
          /\ at = "burst" => UNCHANGED <<rx, inbox>>
          /\ at = "register" => air' = air /\ EmptyRx
      BY <1>5, <3>2, TakesIs
    <3>4. QED
      BY <3>1, <3>3
  <2>2. QED
    BY <1>2, <2>1, WaitingEmpty DEF EmptyRx, inbox
<1>6. \/ Still
      \/ UNCHANGED <<tx, air, number, pending>> /\ step' # "in"
      \/ \E reg \in Bus, bytes \in Writes : \E k \in 4..Len(bytes) + 3 :
           Tells(reg, bytes) /\ Writing(reg, bytes, k) /\ Takes(reg, bytes[k - 3])
  BY Moves
<1>7. QED
  BY <1>1, <1>3, <1>4, <1>5, <1>6

\* Issue keeps RxInv ...
LEMMA RxIssue ==
    ASSUME BusInv, RxInv, Issue
    PROVE  RxInv'
<1>1. PICK ack \in BOOLEAN : CarriedOut(Head(todo), ack) /\ acked' = (acked /\ ack)
  BY DEF Issue
<1>2. todo # <<>> /\ UNCHANGED <<call, at>>
  BY DEF Issue
<1>3. step' \in {"in", "half", "out"} /\ (step' = "in" => rx' = Waiting(pending'))
  BY <1>1, <1>2, RxCarried
<1>4. acked' => acked
  BY <1>1
<1>5. call' = "poll" /\ acked' /\ at' = "status" =>
        step' # "half" /\ (got' # <<>> => got'[1] = RxEmpty \/ rx' # <<>>)
  BY <1>2, <1>4, StatusReads
<1>6. call' = "poll" /\ acked' /\ at' = "head" => HeadRead'
  BY <1>2, <1>4, HeadReads
<1>7. call' = "poll" /\ acked' /\ at' = "rest" => RestRead'
  BY <1>2, <1>4, RestReads
<1>8. QED
  BY <1>3, <1>5, <1>6, <1>7 DEF RxInv

\* A poll that read all of the rest of a packet has it whole.
LEMMA RestIs ==
    ASSUME BusInv, RxInv, Finished("rest"), step = "half"
    PROVE  /\ pending # <<>> /\ Head(pending) \in Message
           /\ rx = Waiting(Tail(pending))
           /\ raw = SubSeq(Bytes(Head(pending)), 2, 3)
           /\ got = SubSeq(Bytes(Head(pending)), 4, 3 + Rest(Head(pending).objects))
<1> DEFINE b == Bytes(Head(pending))
           r == Rest(Head(pending).objects)
<1>1. call = "poll" /\ at = "rest" /\ acked /\ todo = <<>>
  BY FinishedIs
<1>2. RestRead /\ Types
  BY <1>1 DEF RxInv, BusInv
<1>3. /\ Half(3 + Len(got)) /\ raw = SubSeq(b, 2, 3)
      /\ got = SubSeq(b, 4, 3 + Len(got))
  BY <1>2 DEF RestRead
<1>4. pending # <<>> /\ Head(pending) \in Message /\ Tail(pending) \in Seq(Message)
  BY <1>2, <1>3 DEF Half, Types
<1>5. b \in Seq(RxByte) /\ Len(b) = 3 + r /\ r \in Nat \ {0}
  BY <1>4, PacketIs
<1>6. PICK n : n = r
  OBVIOUS
<1>7. n \in Nat \ {0}
  BY <1>5, <1>6
<1>8. PICK k \in 1..n + 7 : Reading("FIFOS", n, k)
  <2>1. \E k \in 1..r + 7 : Reading("FIFOS", r, k)
    BY <1>2 DEF RestRead
  <2>2. QED
    BY <1>6, <2>1
<1>9. k = n + 7
  <2>1. Onward(ReadReg("FIFOS", n), k) = <<>> /\ "FIFOS" \in Bus
    BY <1>1, <1>8 DEF Reading, Bus
  <2>2. QED
    BY <1>7, <1>8, <2>1, ReadNotOver
<1>10. Len(got) = n
  BY <1>8, <1>9 DEF Reading
<1>11. rx = Waiting(Tail(pending))
  <2>1. rx = Onward(b, (3 + Len(got)) + 1) \o Waiting(Tail(pending))
    BY <1>3 DEF Half
  <2> HIDE DEF b, r
  <2>2. (3 + Len(got)) + 1 = Len(b) + 1
    BY <1>5, <1>6, <1>7, <1>10
  <2>3. Onward(b, Len(b) + 1) = <<>>
    BY <1>5, OnwardEnds
  <2>4. Waiting(Tail(pending)) \in Seq(RxByte)
    BY <1>4, WaitingType
  <2>5. rx = <<>> \o Waiting(Tail(pending))
    BY <2>1, <2>2, <2>3
  <2>6. QED
    BY <2>4, <2>5
<1>12. QED
  BY <1>3, <1>4, <1>6, <1>10, <1>11

\* ... a command that fails does, as the call ends ...
LEMMA RxFails ==
    ASSUME BusInv, RxInv, IssueFails
    PROVE  RxInv'
<1>1. call' = "idle" /\ todo # <<>>
  BY DEF IssueFails, Return
<1>2. step' \in {"in", "half", "out"} /\ (step' = "in" => rx' = Waiting(pending'))
  <2>1. CASE UNCHANGED <<chip, inbox>>
    BY <2>1 DEF RxInv, chip, inbox
  <2>2. ASSUME NEW ack \in BOOLEAN, CarriedOut(Head(todo), ack)
        PROVE  step' \in {"in", "half", "out"} /\ (step' = "in" => rx' = Waiting(pending'))
    BY <1>1, <2>2, RxCarried
  <2>3. QED
    BY <2>1, <2>2 DEF IssueFails
<1>3. QED
  BY <1>1, <1>2 DEF RxInv

\* The head of a packet: its number of objects, and the header bytes.
LEMMA HeadIs ==
    ASSUME NEW m \in Message, NEW g, g = SubSeq(Bytes(m), 1, 3)
    PROVE  CountIn(g[3]) = {m.objects} /\ SubSeq(g, 2, 3) = SubSeq(Bytes(m), 2, 3)
<1> DEFINE b == Bytes(m)
           r == Rest(m.objects)
<1>1. b \in Seq(RxByte) /\ Len(b) = 3 + r /\ r \in Nat \ {0}
  BY PacketIs
<1>2. 3 \in 1..3 + Rest(m.objects)
  BY <1>1
<1>3. b[3] = Byte(m, 3)
  BY <1>2, PacketIs
<1> HIDE DEF b, r
<1>4. /\ 1 \in 1..Len(b) + 1 /\ 3 \in 1 - 1..Len(b) /\ 3 - 1 + 1 = 3
      /\ 2 \in 1..Len(b) + 1 /\ 3 \in 2 - 1..Len(b) /\ 3 - 2 + 1 = 2
  BY <1>1
<1>5. g \in Seq(RxByte) /\ Len(g) = 3 /\ \A j \in 1..3 : g[j] = b[j]
  <2>1. /\ SubSeq(b, 1, 3) \in Seq(RxByte) /\ Len(SubSeq(b, 1, 3)) = 3 - 1 + 1
        /\ \A j \in 1..3 - 1 + 1 : SubSeq(b, 1, 3)[j] = b[1 + j - 1]
    BY <1>1, <1>4, PartIs
  <2>2. g = SubSeq(b, 1, 3)
    BY DEF b
  <2>3. \A j \in 1..3 : 1 + j - 1 = j
    OBVIOUS
  <2>4. QED
    BY <1>4, <2>1, <2>2, <2>3
<1>6. CountIn(g[3]) = {m.objects}
  <2>1. g[3] = Byte(m, 3)
    BY <1>3, <1>5
  <2>2. QED
    BY <2>1 DEF CountIn, Byte
<1>7. SubSeq(g, 2, 3) = SubSeq(b, 2, 3)
  <2> DEFINE u == SubSeq(g, 2, 3)
             v == SubSeq(b, 2, 3)
  <2>1. u \in Seq(RxByte) /\ Len(u) = 3 - 2 + 1 /\ \A j \in 1..3 - 2 + 1 : u[j] = g[2 + j - 1]
    <3>1. 2 \in 1..Len(g) + 1 /\ 3 \in 2 - 1..Len(g)
      <4> DEFINE n == Len(g)
      <4>1. n = 3
        BY <1>5
      <4> HIDE DEF n
      <4>2. 2 \in 1..n + 1 /\ 3 \in 2 - 1..n
        BY <4>1
      <4>3. QED
        BY <4>2 DEF n
    <3>2. QED
      BY <1>5, <3>1, PartIs
  <2>2. v \in Seq(RxByte) /\ Len(v) = 3 - 2 + 1 /\ \A j \in 1..3 - 2 + 1 : v[j] = b[2 + j - 1]
    BY <1>1, <1>4, PartIs
  <2>3. \A j \in 1..2 : 2 + j - 1 \in 1..3
    OBVIOUS
  <2> HIDE DEF u, v
  <2>4. u \in Seq(RxByte) /\ Len(u) = 2 /\ \A j \in 1..2 : u[j] = g[2 + j - 1]
    BY <1>4, <2>1
  <2>5. v \in Seq(RxByte) /\ Len(v) = 2 /\ \A j \in 1..2 : v[j] = b[2 + j - 1]
    BY <1>4, <2>2
  <2>6. \A j \in 1..2 : u[j] = v[j]
    BY <1>5, <2>3, <2>4, <2>5
  <2>7. u = v
    BY <2>4, <2>5, <2>6
  <2>8. QED
    BY <2>7 DEF u, v
<1>8. QED
  BY <1>6, <1>7 DEF b

\* ... PollHead does, which reads the rest of the packet it has the head of ...
LEMMA RxHead ==
    ASSUME BusInv, RxInv, PollHead
    PROVE  RxInv'
<1>1. call = "poll" /\ at = "head" /\ acked /\ Len(got) = 3 /\ HeadRead /\ Types
  <2>1. Finished("head")
    BY DEF PollHead
  <2>2. at = "head" /\ acked /\ call = "poll" /\ Len(got) = 3
    BY <2>1, FinishedIs
  <2>3. QED
    BY <2>2 DEF RxInv, BusInv
<1>2. UNCHANGED <<rx, pending, step>>
  BY DEF PollHead, Continue, chip, inbox
<1>3. step' \in {"in", "half", "out"} /\ (step' = "in" => rx' = Waiting(pending'))
  BY <1>2 DEF RxInv
<1>4. CASE call' = "idle"
  BY <1>3, <1>4 DEF RxInv
<1>5. ASSUME NEW n \in CountIn(got[3]), Continue("rest", ReadReg("FIFOS", Rest(n))),
             raw' = SubSeq(got, 2, 3)
      PROVE  RxInv'
  <2>1. /\ at' = "rest" /\ todo' = ReadReg("FIFOS", Rest(n)) /\ got' = <<>>
        /\ acked'
    BY <1>1, <1>5 DEF Continue
  <2>2. got # <<>>
    <3>1. Len(<<>>) = 0
      OBVIOUS
    <3>2. QED
      BY <1>1, <3>1
  <2>3. step' # "in"
    BY <1>1, <1>2, <2>2 DEF HeadRead
  <2>4. ASSUME step = "half"
        PROVE  /\ Half(3 + Len(got))'
               /\ (\E k \in 1..Rest(Head(pending).objects) + 7 :
                     Reading("FIFOS", Rest(Head(pending).objects), k))'
               /\ raw' = SubSeq(Bytes(Head(pending')), 2, 3)
               /\ got' = SubSeq(Bytes(Head(pending')), 4, 3 + Len(got'))
    <3> DEFINE b == Bytes(Head(pending))
               r == Rest(Head(pending).objects)
    <3>1. Half(3) /\ got = SubSeq(b, 1, 3)
      BY <1>1, <2>2, <2>4 DEF HeadRead
    <3>2. Head(pending) \in Message
      BY <1>1, <3>1 DEF Half, Types
    <3>3. b \in Seq(RxByte) /\ Len(b) = 3 + r /\ r \in Nat \ {0}
      BY <3>2, PacketIs
    <3>4. PICK m : m = Head(pending)
      OBVIOUS
    <3>5. PICK g : g = got
      OBVIOUS
    <3>6. CountIn(g[3]) = {m.objects} /\ SubSeq(g, 2, 3) = SubSeq(Bytes(m), 2, 3)
      BY <3>1, <3>2, <3>4, <3>5, HeadIs
    <3>7. n = Head(pending).objects /\ raw' = SubSeq(b, 2, 3)
      BY <1>5, <3>4, <3>5, <3>6
    <3> HIDE DEF b, r
    <3>8. PICK q : q = r
      OBVIOUS
    <3>9. Reading("FIFOS", q, 1)'
      <4>1. q \in Nat \ {0} /\ "FIFOS" \in Bus
        BY <3>3, <3>8 DEF Bus
      <4>2. todo' = Onward(ReadReg("FIFOS", q), 1)
        <5>1. Onward(ReadReg("FIFOS", q), 1) = ReadReg("FIFOS", q)
          BY <4>1, ReadStarts
        <5>2. q = Rest(n)
          BY <3>7, <3>8 DEF r
        <5>3. QED
          BY <2>1, <5>1, <5>2
      <4>3. ReadPhase("FIFOS", q, 1)'
        BY <4>1 DEF ReadPhase
      <4>4. ~(1 \in 7..q + 6) /\ 1 # q + 7
        BY <4>1
      <4>5. QED
        BY <2>1, <4>2, <4>3, <4>4 DEF Reading
    <3>10. Rest(Head(pending').objects) = q /\ b = Bytes(Head(pending'))
      BY <1>2, <3>8 DEF r, b
    <3>11. 3 + Len(got') = 3
      BY <2>1
    <3>12. SubSeq(b, 4, 3) = <<>>
      BY <3>3, PartEmpty
    <3>13. (\E k \in 1..Rest(Head(pending).objects) + 7 :
              Reading("FIFOS", Rest(Head(pending).objects), k))'
      <4>1. 1 \in 1..q + 7
        BY <3>3, <3>8
      <4>2. QED
        BY <3>9, <3>10, <4>1
    <3>14. Half(3 + Len(got))'
      <4>1. Half(3)'
        BY <1>2, <3>1 DEF Half
      <4>2. QED
        BY <3>11, <4>1 DEF Half
    <3>15. got' = SubSeq(Bytes(Head(pending')), 4, 3 + Len(got'))
      BY <2>1, <3>10, <3>11, <3>12
    <3>16. raw' = SubSeq(Bytes(Head(pending')), 2, 3)
      BY <3>7, <3>10
    <3>17. QED
      BY <3>13, <3>14, <3>15, <3>16, Zenon
  <2>5. RestRead'
    BY <1>2, <2>3, <2>4, Zenon DEF RestRead
  <2>6. QED
    BY <1>3, <2>1, <2>5 DEF RxInv
<1>6. QED
  BY <1>4, <1>5 DEF PollHead, Return

\* ... and so does every step.
LEMMA RxNext ==
    ASSUME BusInv, RxInv, [Next]_vars
    PROVE  RxInv'
<1>1. CASE Issue
  BY <1>1, RxIssue
<1>2. CASE IssueFails
  BY <1>2, RxFails
<1>3. CASE PollHead
  BY <1>3, RxHead
<1>4. ASSUME NEW n \in Objects, Arrives(n)
      PROVE  RxInv'
  BY <1>4, RxArrives
<1>5. CASE NotAcknowledged \/ SendDone \/ RegisterDone
  <2>1. call' = "idle" /\ UNCHANGED <<rx, pending, step>>
    BY <1>5 DEF NotAcknowledged, SendDone, RegisterDone, Return, chip, inbox
  <2>2. QED
    BY <2>1 DEF RxInv
<1>6. CASE SendFlush \/ SendFrame
  <2>1. at' \in {"flush", "burst"} /\ UNCHANGED <<rx, pending, step>>
    BY <1>6 DEF SendFlush, SendFrame, Continue, chip, inbox
  <2>2. QED
    BY <2>1 DEF RxInv
<1>7. CASE PollStatus
  <2>1. Finished("status")
    BY <1>7 DEF PollStatus
  <2>2. call = "poll" /\ at = "status" /\ acked /\ Len(got) = 1
    BY <2>1, FinishedIs
  <2>3. got # <<>>
    <3>1. Len(<<>>) = 0
      OBVIOUS
    <3>2. QED
      BY <2>2, <3>1
  <2>4. step # "half" /\ (got[1] = RxEmpty \/ rx # <<>>)
    BY <2>2, <2>3 DEF RxInv
  <2>5. UNCHANGED <<rx, pending, step>>
    BY <1>7 DEF PollStatus, Continue, chip, inbox
  <2>6. \/ call' = "idle"
        \/ at' = "head" /\ got' = <<>> /\ got[1] # RxEmpty
    BY <1>7 DEF PollStatus, Return, Continue
  <2>7. at' = "head" /\ got' = <<>> /\ got[1] # RxEmpty => HeadRead'
    BY <2>4, <2>5 DEF HeadRead
  <2>8. QED
    BY <2>5, <2>6, <2>7 DEF RxInv
<1>8. CASE PollRest
  <2>1. Finished("rest") /\ call' = "idle" /\ rx' = rx
    BY <1>8 DEF PollRest, Return, chip
  <2>2. CASE step = "half"
    <3>1. step' = "in" /\ pending' = Tail(pending)
      BY <1>8, <2>2 DEF PollRest
    <3>2. rx = Waiting(Tail(pending))
      BY <2>1, <2>2, RestIs
    <3>3. QED
      BY <2>1, <3>1, <3>2 DEF RxInv
  <2>3. CASE step # "half"
    <3>1. UNCHANGED <<step, pending>>
      BY <1>8, <2>3 DEF PollRest
    <3>2. QED
      BY <2>1, <3>1 DEF RxInv
  <2>4. QED
    BY <2>2, <2>3
<1>9. CASE OpenFails \/ UNCHANGED vars
  <2>1. UNCHANGED <<call, at, todo, acked, got, raw, slave, rx, pending, step>>
    BY <1>9 DEF OpenFails, vars, program, chip, inbox
  <2>2. HeadRead => HeadRead'
    BY <2>1 DEF HeadRead, Half
  <2>3. RestRead => RestRead'
    <3>1. ASSUME RestRead, step = "half"
          PROVE  /\ Half(3 + Len(got))'
                 /\ (\E k \in 1..Rest(Head(pending).objects) + 7 :
                       Reading("FIFOS", Rest(Head(pending).objects), k))'
      <4>1. PICK q : q = Rest(Head(pending).objects)
        OBVIOUS
      <4>2. q = Rest(Head(pending').objects)
        BY <2>1, <4>1
      <4>3. PICK k \in 1..q + 7 : Reading("FIFOS", q, k)
        <5>1. \E k \in 1..Rest(Head(pending).objects) + 7 :
                Reading("FIFOS", Rest(Head(pending).objects), k)
          BY <3>1 DEF RestRead
        <5>2. QED
          BY <4>1, <5>1
      <4>4. Reading("FIFOS", q, k)'
        BY <2>1, <4>3 DEF Reading, ReadPhase
      <4>5. Half(3 + Len(got))'
        BY <2>1, <3>1 DEF RestRead, Half
      <4>6. QED
        BY <4>2, <4>3, <4>4, <4>5
    <3>2. ASSUME RestRead
          PROVE  /\ step' # "in"
                 /\ step' = "half" =>
                      /\ raw' = SubSeq(Bytes(Head(pending')), 2, 3)
                      /\ got' = SubSeq(Bytes(Head(pending')), 4, 3 + Len(got'))
      BY <2>1, <3>2 DEF RestRead
    <3>3. step' = step
      BY <2>1
    <3>4. QED
      BY <3>1, <3>2, <3>3, Zenon DEF RestRead
  <2>4. QED
    BY <2>1, <2>2, <2>3 DEF RxInv
<1>10. ASSUME NEW c, NEW first, NEW cmds, Begin(c, first, cmds), first \notin {"head", "rest"}
       PROVE  RxInv'
  <2>1. Types /\ Placed
    BY DEF BusInv
  <2>2. call = "idle"
    BY <1>10 DEF Begin
  <2>3. got = <<>>
    <3>1. Idle
      BY <2>1, <2>2, PlacedIs DEF Refused, PlacedRead, PlacedWrite, Asks, Tells
    <3>2. QED
      BY <3>1 DEF Idle
  <2>4. /\ at' = first /\ got' = got /\ rx' = rx
        /\ step = "half" => step' = "out"
        /\ step # "half" => UNCHANGED <<step, pending>>
    BY <1>10 DEF Begin
  <2>5. /\ step' \in {"in", "out"}
        /\ step' = "in" => rx' = Waiting(pending')
    BY <2>4 DEF RxInv
  <2>6. QED
    BY <1>10, <2>3, <2>4, <2>5 DEF RxInv
<1>11. CASE Poll
  BY <1>10, <1>11 DEF Poll
<1>12. CASE Fire
  BY <1>10, <1>12 DEF Fire
<1>13. CASE ReadRegister
  BY <1>10, <1>13 DEF ReadRegister
<1>14. ASSUME NEW c \in {"tx", "stage"}, NEW f \in Frames, Send(c, f)
       PROVE  RxInv'
  BY <1>10, <1>14 DEF Send
<1>15. CASE WriteRegister("RESET", "SW_RES") \/ WriteRegister("CONTROL1", "RX_FLUSH")
  BY <1>10, <1>15 DEF WriteRegister
<1>16. QED
  BY <1>1, <1>2, <1>3, <1>4, <1>5, <1>6, <1>7, <1>8, <1>9, <1>11, <1>12, <1>13, <1>14,
     <1>15, Zenon DEF Next, Program, Client

\* RxInv always holds.
LEMMA RxAlways == Spec => []RxInv
<1>1. Init => RxInv
  BY WaitingEmpty DEF Init, RxInv
<1>2. BusInv /\ RxInv /\ [Next]_vars => RxInv'
  BY RxNext
<1>3. QED
  BY <1>1, <1>2, BusAlways, PTL DEF Spec

\* While no poll_message has broken off since the RX FIFO was emptied, the RX
\* FIFO holds exactly the packets of the messages that were received and not
\* returned: no byte is left over or read twice, whatever arrives meanwhile.
THEOREM ReadsWholePackets == Spec => []PollsWholePackets
<1>1. RxInv => PollsWholePackets
  BY Zenon DEF RxInv, PollsWholePackets, Waiting, Packets
<1>2. QED
  BY <1>1, RxAlways, PTL

\* A header, and what follows it without the CRC, are a message.
LEMMA AnswerIs ==
    ASSUME NEW m \in Message, NEW h, NEW d, h = SubSeq(Bytes(m), 2, 3),
           d = SubSeq(Bytes(m), 4, 3 + Rest(m.objects))
    PROVE  h \o SubSeq(d, 1, Len(d) - CrcLen) = Payload(m)
<1> DEFINE b == Bytes(m)
           n == m.objects * ObjectLen
           r == n + CrcLen
<1>1. n \in Nat /\ CrcLen \in Nat \ {0} /\ Rest(m.objects) = r
  BY BytesAre, BridgeAssumption DEF Rest
<1>2. b \in Seq(RxByte) /\ Len(b) = 3 + r /\ \A i \in 1..3 + r : b[i] = Byte(m, i)
  BY <1>1, PacketIs
<1>3. d = SubSeq(b, 4, 3 + r) /\ h = SubSeq(b, 2, 3)
  BY <1>1
<1>4. Payload(m) = [i \in 1..2 + n |-> Byte(m, i + 1)]
  BY DEF Payload
<1> HIDE DEF b, n
<1>5. h \in Seq(RxByte) /\ Len(h) = 2 /\ \A j \in 1..2 : h[j] = Byte(m, j + 1)
  <2>1. 2 \in 1..Len(b) + 1 /\ 3 \in 2 - 1..Len(b)
    BY <1>1, <1>2
  <2>2. /\ SubSeq(b, 2, 3) \in Seq(RxByte) /\ Len(SubSeq(b, 2, 3)) = 3 - 2 + 1
        /\ \A j \in 1..3 - 2 + 1 : SubSeq(b, 2, 3)[j] = b[2 + j - 1]
    BY <1>2, <2>1, PartIs
  <2>3. 3 - 2 + 1 = 2 /\ \A j \in 1..2 : 2 + j - 1 = j + 1 /\ j + 1 \in 1..3 + r
    BY <1>1
  <2>4. QED
    BY <1>2, <1>3, <2>2, <2>3
<1>6. d \in Seq(RxByte) /\ Len(d) = r /\ \A j \in 1..r : d[j] = b[3 + j]
  <2>1. PICK l : l = 3 + r
    OBVIOUS
  <2>2. 4 \in 1..Len(b) + 1 /\ l \in 4 - 1..Len(b)
    BY <1>1, <1>2, <2>1
  <2>3. /\ SubSeq(b, 4, l) \in Seq(RxByte) /\ Len(SubSeq(b, 4, l)) = l - 4 + 1
        /\ \A j \in 1..l - 4 + 1 : SubSeq(b, 4, l)[j] = b[4 + j - 1]
    BY <1>2, <2>2, PartIs
  <2>4. l - 4 + 1 = r /\ \A j \in 1..r : 4 + j - 1 = 3 + j
    BY <1>1, <2>1
  <2>5. d = SubSeq(b, 4, l)
    BY <1>3, <2>1
  <2>6. QED
    BY <2>3, <2>4, <2>5
<1> DEFINE e == SubSeq(d, 1, n)
<1>7. Len(d) - CrcLen = n
  BY <1>1, <1>6
<1>8. e \in Seq(RxByte) /\ Len(e) = n /\ \A j \in 1..n : e[j] = Byte(m, 3 + j)
  <2>1. 1 \in 1..Len(d) + 1 /\ n \in 1 - 1..Len(d)
    BY <1>1, <1>6
  <2>2. e \in Seq(RxByte) /\ Len(e) = n - 1 + 1 /\ \A j \in 1..n - 1 + 1 : e[j] = d[1 + j - 1]
    BY <1>6, <2>1, PartIs
  <2>3. /\ n - 1 + 1 = n
        /\ \A j \in 1..n : 1 + j - 1 = j /\ j \in 1..r /\ 3 + j \in 1..3 + r
    BY <1>1
  <2> HIDE DEF e
  <2>4. QED
    BY <1>2, <1>6, <2>2, <2>3
<1> HIDE DEF e
<1> DEFINE a == h \o e
<1>9. /\ a \in Seq(RxByte) /\ Len(a) = 2 + n
      /\ \A i \in 1..2 + n : a[i] = IF i <= 2 THEN h[i] ELSE e[i - 2]
  <2>1. /\ a \in Seq(RxByte) /\ Len(a) = Len(h) + Len(e)
        /\ \A i \in 1..Len(h) + Len(e) : a[i] = IF i <= Len(h) THEN h[i] ELSE e[i - Len(h)]
    BY <1>5, <1>8, Joined
  <2> HIDE DEF a
  <2>2. Len(h) + Len(e) = 2 + n
    BY <1>1, <1>5, <1>8
  <2>3. QED
    BY <1>5, <2>1, <2>2
<1> HIDE DEF a
<1>10. \A i \in 1..2 + n : a[i] = Byte(m, i + 1)
  <2> TAKE i \in 1..2 + n
  <2>1. CASE i <= 2
    <3>1. i \in 1..2
      BY <1>1, <2>1
    <3>2. QED
      BY <1>5, <1>9, <2>1, <3>1
  <2>2. CASE ~(i <= 2)
    <3>1. i - 2 \in 1..n /\ 3 + (i - 2) = i + 1
      BY <1>1, <2>2
    <3>2. a[i] = e[i - 2]
      BY <1>9, <2>2
    <3>3. e[i - 2] = Byte(m, 3 + (i - 2))
      BY <1>8, <3>1
    <3>4. QED
      BY <3>1, <3>2, <3>3
  <2>3. QED
    BY <2>1, <2>2
<1>11. a = [i \in 1..2 + n |-> a[i]]
  <2>1. 2 + n \in Nat
    BY <1>1
  <2>2. QED
    BY <1>9, <2>1
<1>12. a = Payload(m)
  BY <1>4, <1>10, <1>11, Zenon
<1>13. QED
  BY <1>7, <1>12 DEF a, e

\* What poll_message returns is the oldest message received and not returned,
\* whole, when no poll has broken off since the RX FIFO was emptied.
THEOREM ReturnsTheOldest == Spec => ReturnsOldest
<1>1. ASSUME BusInv, RxInv, [Next]_vars, Returns, step = "half"
      PROVE  Answer = Payload(Head(pending))
  <2>1. call = "poll" /\ call' = "idle" /\ result' = "message"
    BY <1>1 DEF Returns
  <2>2. PollRest
    <3>1. ~(Issue \/ SendFlush \/ SendFrame \/ UNCHANGED vars \/ \E n \in Objects : Arrives(n))
      BY <2>1 DEF Issue, SendFlush, SendFrame, Continue, Arrives, vars, program
    <3>2. ~Client
      BY <2>1 DEF Client, OpenFails, Poll, Fire, ReadRegister, Send, WriteRegister, Begin
    <3>3. ~(IssueFails \/ NotAcknowledged \/ SendDone \/ RegisterDone)
      BY <2>1 DEF IssueFails, NotAcknowledged, SendDone, RegisterDone, Return
    <3>4. ~(PollStatus \/ PollHead)
      BY <2>1 DEF PollStatus, PollHead, Return, Continue
    <3>5. QED
      BY <1>1, <3>1, <3>2, <3>3, <3>4, Zenon DEF Next, Program
  <2>3. Finished("rest")
    BY <2>2 DEF PollRest
  <2>4. /\ Head(pending) \in Message
        /\ raw = SubSeq(Bytes(Head(pending)), 2, 3)
        /\ got = SubSeq(Bytes(Head(pending)), 4, 3 + Rest(Head(pending).objects))
    BY <1>1, <2>3, RestIs
  <2>5. raw \o SubSeq(got, 1, Len(got) - CrcLen) = Payload(Head(pending))
    BY <2>4, AnswerIs
  <2>6. QED
    BY <2>5 DEF Answer
<1>2. BusInv /\ RxInv /\ [Next]_vars =>
        [Returns /\ step = "half" => Answer = Payload(Head(pending))]_vars
  BY <1>1
<1>3. QED
  BY <1>2, BusAlways, RxAlways, PTL DEF Spec, ReturnsOldest
=============================================================================
