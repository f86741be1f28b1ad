----------------------------- MODULE FlashProofs -----------------------------
(***************************************************************************)
(* Theorems about opening Apollo, for every set of boards, any number of   *)
(* tries, and boards that come and go as often as they like; and about the *)
(* calls on an opened Apollo, for every bitstream, every size of buffer,   *)
(* and whichever requests fail.                                            *)
(***************************************************************************)
EXTENDS Flash, DataLemmas

(* No board is asked before the place where one is, and none again after.  *)
Asked ==
    /\ at \in {"find", "look", "ask", "handoff"} => asked = {}
    /\ \A b, c \in asked : b = c

(* What a scan saw, a board has left, or could be opened, holds only until *)
(* the bus changes.  Once no Apollo was found, each that is there later    *)
(* was asked for its port, or plugged in since.                            *)
BusInv ==
    /\ modes \in [Boards -> Mode]
    /\ dev \in Boards \cup {Nobody}
    /\ leaving \subseteq asked
    /\ at = "claim" /\ dev # Nobody => modes[dev] = "apollo"
    /\ at \in {"ask", "handoff"} \/ asked # {} =>
          \A b \in Boards : modes[b] = "apollo" => b \in asked \cup strangers

IInv == Asked /\ BusInv

\* The invariant of the bus holds at the start, in every step, and so always.
LEMMA Initially == FlashInit => IInv
  BY FlashAssumption DEF FlashInit, IInv, Asked, BusInv

LEMMA Inductive == IInv /\ [FlashNext]_flashVars => IInv'
<1> SUFFICES ASSUME IInv, [FlashNext]_flashVars
             PROVE  IInv'
  OBVIOUS
<1> USE FlashAssumption DEF IInv, Asked, BusInv, Opening
<1>1. ASSUME NEW b \in Boards, Unplug(b)
      PROVE  IInv'
  BY <1>1 DEF Unplug, Changed, Mode
<1>2. ASSUME NEW b \in Boards, PlugIn(b)
      PROVE  IInv'
  BY <1>2 DEF PlugIn, Changed, Mode
<1>3. ASSUME NEW b \in Boards, ReEnumerate(b)
      PROVE  IInv'
  BY <1>3 DEF ReEnumerate, Changed, Mode
<1>4. ASSUME NEW b \in Boards, Permit(b)
      PROVE  IInv'
  BY <1>4 DEF Permit, opening
<1>5. CASE Find
  BY <1>5 DEF Find, Proceed, bus
<1>6. CASE Look
  BY <1>6 DEF Look, Proceed, IsApollo, bus
<1>7. CASE FindStub
  BY <1>7 DEF FindStub, Proceed, bus
<1>8. CASE HandOff
  BY <1>8 DEF HandOff, Mode
<1>9. CASE Try
  BY <1>9 DEF Try, Missed, AfterMiss, Proceed, IsApollo, bus
<1>10. CASE Claim
  BY <1>10 DEF Claim, Mode
<1>11. CASE ClaimFails
  BY <1>11 DEF ClaimFails, Missed, AfterMiss, Proceed, bus
<1>12. CASE Errors
  BY <1>12 DEF Errors, Fails, Proceed, bus
<1>13. CASE UNCHANGED <<bus, opening>>
  BY <1>13 DEF bus, opening
<1>14. QED
  BY <1>1, <1>2, <1>3, <1>4, <1>5, <1>6, <1>7, <1>8, <1>9, <1>10, <1>11,
     <1>12, <1>13 DEF FlashNext, flashVars

LEMMA Invariance == FlashSpec => []IInv
<1>1. QED
  BY Initially, Inductive, PTL DEF FlashSpec

(* However often open retries and however the bus changes meanwhile, it    *)
(* sends the hand-off request to one board at most.                        *)
THEOREM OneHandOff == FlashSpec => []AsksOneBoard
<1>1. IInv => AsksOneBoard
  BY DEF IInv, Asked, AsksOneBoard
<1>2. QED
  BY <1>1, Invariance, PTL

(* The device open returns is an Apollo, and the one that was asked for    *)
(* its port unless another was plugged in.                                 *)
THEOREM OpensAsked == FlashSpec => OpensTheBoardAsked
<1>1. IInv /\ [FlashNext]_flashVars =>
        [at' = "opened" /\ at # "opened" =>
            /\ modes[dev] = "apollo"
            /\ asked # {} => dev \in asked \cup strangers]_flashVars
  <2> SUFFICES ASSUME IInv, FlashNext, at' = "opened", at # "opened"
               PROVE  /\ modes[dev] = "apollo"
                      /\ asked # {} => dev \in asked \cup strangers
    OBVIOUS
  <2>1. CASE Claim
    BY <2>1 DEF Claim, IInv, BusInv
  <2>2. QED
    BY <2>1 DEF FlashNext, Unplug, PlugIn, ReEnumerate, Permit, Find, Look,
                FindStub, HandOff, Try, ClaimFails, Errors, Missed, AfterMiss,
                Fails, Proceed, opening
<1>2. QED
  BY <1>1, Invariance, PTL DEF FlashSpec, OpensTheBoardAsked

-----------------------------------------------------------------------------
(* The requests of a step.                                                 *)

\* The instruction of each step.
OpOf(s) == CASE s = "refresh" -> "REFRESH"
             [] s \in {"wait", "status", "final"} -> "READ_STATUS"
             [] s = "id" -> "READ_ID"
             [] s = "magic" -> "MAGIC"
             [] s = "enable" -> "ENABLE"
             [] s = "erase" -> "ERASE"
             [] s = "address" -> "INIT_ADDRESS"
             [] s = "burst" -> "BURST"
             [] s = "no_op" -> "NO_OP"
             [] s = "disable" -> "DISABLE"
             [] s \in {"data_width", "transfer"} -> "DATA"
             [] s \in {"instr_width", "select"} -> "INSTRUCTION"

\* The steps that shift in an instruction, and all of them.
Instructs == {"refresh", "wait", "id", "magic", "enable", "erase", "address",
              "burst", "no_op", "status", "disable", "final", "data_width",
              "instr_width", "select", "transfer"}
Steps     == Instructs \cup {"begin", "idle", "idcode", "end"}

\* What follows the instruction: requests that begin and end no session, and
\* scans, if any, for the register the instruction selects, with the TAP in
\* the state the first request has put it into.
Stays(r) == r.op \in {"set", "get"} \/ (r.op = "scan" /\ ~r.advance)
Follows(op, t) == \A i \in 1..Len(t) :
    /\ t[i].op \notin {"start", "stop"}
    /\ t[i].op = "scan" => /\ i > 1 /\ t[1] = Go("DRSHIFT") /\ t[i].reg = op
                           /\ \A j \in 2..i - 1 : Stays(t[j])
Command(op, r) == \E S : \E t \in Seq(S) :
    ShiftIr(op) \in Seq(S) /\ r = ShiftIr(op) \o t /\ Follows(op, t)

\* Lists of requests written out.
LEMMA InstructionIs ==
    ASSUME NEW op
    PROVE  /\ ShiftIr(op) = <<Go("IRSHIFT"), SetOut(<<op>>), Scan(8, TRUE, "IR"),
                              Go("IRPAUSE")>>
           /\ Len(ShiftIr(op)) = 4
  BY DEF ShiftIr

\* A list of requests is a sequence, over some set.
IsList(t) == \E S : t \in Seq(S)

\* A command, put together.
LEMMA CommandOf ==
    ASSUME NEW op, NEW t, IsList(t), Follows(op, t)
    PROVE  Command(op, ShiftIr(op) \o t)
<1>1. PICK S : t \in Seq(S)
  BY DEF IsList
<1> DEFINE T == S \cup {Go("IRSHIFT"), SetOut(<<op>>), Scan(8, TRUE, "IR"), Go("IRPAUSE")}
<1>2. t \in Seq(T)
  BY <1>1, SeqGrows
<1>3. ShiftIr(op) \in Seq(T)
  BY DEF ShiftIr
<1>4. QED
  BY <1>2, <1>3 DEF Command

\* What follows an instruction may have the TAP leave by way of IDLE.
LEMMA ThenRunTest ==
    ASSUME NEW op, NEW t, IsList(t), Follows(op, t)
    PROVE  /\ IsList(t \o RunTest) /\ Follows(op, t \o RunTest)
           /\ (ShiftIr(op) \o t) \o RunTest = ShiftIr(op) \o (t \o RunTest)
<1>1. PICK S : t \in Seq(S)
  BY DEF IsList
<1> DEFINE T == S \cup {Go("IRSHIFT"), SetOut(<<op>>), Scan(8, TRUE, "IR"), Go("IRPAUSE"),
                        Go("IDLE"), Clock}
           n == Len(t)
           u == t \o RunTest
<1>2. t \in Seq(T)
  BY <1>1, SeqGrows
<1>3. ShiftIr(op) \in Seq(T) /\ RunTest \in Seq(T)
  BY DEF ShiftIr, RunTest
<1>4. (ShiftIr(op) \o t) \o RunTest = ShiftIr(op) \o u
  <2>1. Associative(T)
    BY Associates
  <2> HIDE DEF T
  <2>2. QED
    BY <1>2, <1>3, <2>1 DEF Associative
<1>5. Len(RunTest) = 2 /\ RunTest[1] = Go("IDLE") /\ RunTest[2] = Clock
  BY DEF RunTest
<1> DEFINE r == RunTest
<1>6. r \in Seq(T) /\ Len(r) = 2 /\ r[1] = Go("IDLE") /\ r[2] = Clock
  BY <1>3, <1>5
<1>7. n \in Nat
  BY <1>2
<1> HIDE DEF T, r
<1>8. /\ u \in Seq(T) /\ Len(u) = n + 2
      /\ \A i \in 1..n + 2 : u[i] = IF i <= n THEN t[i] ELSE r[i - n]
  <2>1. /\ t \o r \in Seq(T) /\ Len(t \o r) = Len(t) + Len(r)
        /\ \A i \in 1..Len(t) + Len(r) : (t \o r)[i] = IF i <= Len(t) THEN t[i] ELSE r[i - Len(t)]
    BY <1>2, <1>6, Joined
  <2>2. QED
    BY <1>6, <2>1 DEF r
<1>9. Follows(op, u)
  <2> SUFFICES ASSUME NEW i \in 1..n + 2
               PROVE  /\ u[i].op \notin {"start", "stop"}
                      /\ u[i].op = "scan" =>
                           /\ i > 1 /\ u[1] = Go("DRSHIFT") /\ u[i].reg = op
                           /\ \A j \in 2..i - 1 : Stays(u[j])
    BY <1>8 DEF Follows
  <2> HIDE DEF n, u
  <2>1. CASE i <= n
    <3>1. i \in 1..n /\ 1 \in 1..n /\ \A j \in 2..i - 1 : j \in 1..n
      BY <1>7, <2>1
    <3>2. u[i] = t[i] /\ u[1] = t[1] /\ \A j \in 2..i - 1 : u[j] = t[j]
      BY <1>7, <1>8, <3>1
    <3>3. QED
      BY <3>1, <3>2 DEF Follows, n
  <2>2. CASE ~(i <= n)
    <3>1. i - n \in {1, 2}
      BY <1>7, <2>2
    <3>2. u[i] \in {Go("IDLE"), Clock}
      BY <1>6, <1>8, <2>2, <3>1
    <3>3. QED
      BY <3>2 DEF Go, Clock
  <2>3. QED
    BY <2>1, <2>2
<1>10. QED
  BY <1>4, <1>8, <1>9 DEF IsList

\* A read of the data register, a register exchange, a measurement.
LEMMA ReadFollows ==
    ASSUME NEW op, NEW n, NEW a
    PROVE  LET t == <<Go("DRSHIFT"), ClearOut, Scan(n, a, op), GetIn, Go("DRPAUSE")>>
           IN  IsList(t) /\ Follows(op, t)
<1> DEFINE t == <<Go("DRSHIFT"), ClearOut, Scan(n, a, op), GetIn, Go("DRPAUSE")>>
           S == {Go("DRSHIFT"), ClearOut, Scan(n, a, op), GetIn, Go("DRPAUSE")}
<1>1. t \in Seq(S) /\ Len(t) = 5
  OBVIOUS
<1>2. /\ t[1] = Go("DRSHIFT") /\ t[2] = ClearOut /\ t[3] = Scan(n, a, op)
      /\ t[4] = GetIn /\ t[5] = Go("DRPAUSE")
  OBVIOUS
<1> HIDE DEF t, S
<1>3. IsList(t)
  BY <1>1 DEF IsList
<1>4. Follows(op, t)
  <2>1. /\ t[1].op = "go" /\ t[2].op = "set" /\ t[3].op = "scan" /\ t[3].reg = op
        /\ t[4].op = "get" /\ t[5].op = "go" /\ t[1] = Go("DRSHIFT")
    BY <1>2 DEF Go, ClearOut, Scan, GetIn
  <2>2. \A i \in 1..5 : i \in {1, 2, 3, 4, 5}
    OBVIOUS
  <2>3. \A j \in 2..3 - 1 : j = 2
    OBVIOUS
  <2>4. QED
    BY <1>1, <2>1, <2>2, <2>3 DEF Follows, Stays
<1>5. QED
  BY <1>3, <1>4 DEF t

\* An instruction may be followed by nothing, or only have the TAP leave.
LEMMA NothingFollows ==
    ASSUME NEW op
    PROVE  IsList(<<>>) /\ Follows(op, <<>>) /\ ShiftIr(op) \o <<>> = ShiftIr(op)
<1>1. <<>> \in Seq({}) /\ Len(<<>>) = 0
  OBVIOUS
<1>2. ShiftIr(op) \o <<>> = ShiftIr(op)
  BY DEF ShiftIr
<1>3. QED
  BY <1>1, <1>2 DEF IsList, Follows

LEMMA RunTestFollows ==
    ASSUME NEW op
    PROVE  IsList(RunTest) /\ Follows(op, RunTest)
<1>1. RunTest \in Seq({Go("IDLE"), Clock}) /\ Len(RunTest) = 2
      /\ RunTest[1] = Go("IDLE") /\ RunTest[2] = Clock
  BY DEF RunTest
<1> DEFINE t == RunTest
<1>2. t \in Seq({Go("IDLE"), Clock}) /\ Len(t) = 2 /\ t[1] = Go("IDLE") /\ t[2] = Clock
  BY <1>1
<1> HIDE DEF t
<1>3. \A i \in 1..2 : i \in {1, 2}
  OBVIOUS
<1>4. t[1].op = "go" /\ t[2].op = "clock"
  BY <1>2 DEF Go, Clock
<1>5. IsList(t) /\ Follows(op, t)
  BY <1>2, <1>3, <1>4 DEF IsList, Follows
<1>6. QED
  BY <1>5 DEF t

\* A write to the data register: for each chunk its bits and their scan, and
\* none but the last scan leaves DRSHIFT.
ChunkOut(data)     == [k \in 1..Ceil(Len(Reverse(data)), max) |->
                         SetOut(Bits(Bytes(Reverse(data), k)))]
ChunkScan(data, nbits, reg) == [k \in 1..Ceil(Len(Reverse(data)), max) |->
    Scan(ChunkBits(Reverse(data), nbits, k) % ScanLimit, IsLast(Reverse(data), k), reg)]

Written(data, nbits, reg, t) ==
    LET n == Ceil(Len(Reverse(data)), max) IN
    /\ Len(t) = 2 * n + 2
    /\ t[1] = Go("DRSHIFT") /\ t[2 * n + 2] = Go("DRPAUSE")
    /\ \A k \in 1..n : /\ t[2 * k] = ChunkOut(data)[k]
                       /\ t[2 * k + 1] = ChunkScan(data, nbits, reg)[k]

\* What a write consists of, and that it may follow its instruction.
LEMMA WriteIs ==
    ASSUME max \in Nat \ {0}, NEW S, NEW data \in Seq(S), NEW nbits, NEW reg
    PROVE  /\ IsList(ShiftDrWrite(data, nbits, reg))
           /\ Written(data, nbits, reg, ShiftDrWrite(data, nbits, reg))
           /\ Ceil(Len(Reverse(data)), max) \in Nat
<1> DEFINE w == Reverse(data)
           n == Ceil(Len(w), max)
           a == ChunkOut(data)
           b == ChunkScan(data, nbits, reg)
           g == <<Go("DRSHIFT")>>
           p == <<Go("DRPAUSE")>>
           T == {a[k] : k \in 1..n} \cup {b[k] : k \in 1..n} \cup {Go("DRSHIFT"), Go("DRPAUSE")}
           F == FlattenSeq(Pairs(a, b, n))
           t == ShiftDrWrite(data, nbits, reg)
<1>1. n \in Nat
  <2>1. Len(w) \in Nat
    BY ReverseIs
  <2> HIDE DEF w
  <2>2. QED
    BY <2>1 DEF Ceil
<1>2. t = (g \o F) \o p
  <2>1. Pairs(a, b, n) = [k \in 1..n |->
           <<SetOut(Bits(Bytes(w, k))), Scan(ChunkBits(w, nbits, k) % ScanLimit, IsLast(w, k), reg)>>]
    BY DEF Pairs, ChunkOut, ChunkScan
  <2>2. QED
    BY <2>1 DEF ShiftDrWrite
<1>3. \A k \in 1..n : a[k] \in T /\ b[k] \in T
  OBVIOUS
<1>4. g \in Seq(T) /\ p \in Seq(T) /\ Len(g) = 1 /\ Len(p) = 1
      /\ g[1] = Go("DRSHIFT") /\ p[1] = Go("DRPAUSE")
  OBVIOUS
<1> HIDE DEF w, n, a, b, g, p, T, t
<1>5. F \in Seq(T) /\ InTurn(F, a, b, n)
  BY <1>1, <1>3, FlattenPairs
<1> HIDE DEF F
<1>6. Len(F) = 2 * n /\ \A k \in 1..n : F[2 * k - 1] = a[k] /\ F[2 * k] = b[k]
  BY <1>5 DEF InTurn
<1> DEFINE l == 2 * n
           u == g \o F
<1>7. l \in Nat /\ Len(F) = l
  BY <1>1, <1>6
<1> HIDE DEF l
<1>8. /\ u \in Seq(T) /\ Len(u) = 1 + l
      /\ \A i \in 1..1 + l : u[i] = IF i <= 1 THEN g[i] ELSE F[i - 1]
  <2>1. /\ u \in Seq(T) /\ Len(u) = Len(g) + Len(F)
        /\ \A i \in 1..Len(g) + Len(F) : u[i] = IF i <= Len(g) THEN g[i] ELSE F[i - Len(g)]
    BY <1>4, <1>5, Joined
  <2>2. QED
    BY <1>4, <1>7, <2>1
<1> HIDE DEF u
<1>9. /\ t \in Seq(T) /\ Len(t) = l + 2
      /\ \A i \in 1..l + 2 : t[i] = IF i <= l + 1 THEN u[i] ELSE p[i - (l + 1)]
  <2>1. t = u \o p
    BY <1>2 DEF u
  <2>2. /\ u \o p \in Seq(T) /\ Len(u \o p) = Len(u) + Len(p)
        /\ \A i \in 1..Len(u) + Len(p) : (u \o p)[i] = IF i <= Len(u) THEN u[i] ELSE p[i - Len(u)]
    BY <1>4, <1>8, Joined
  <2>3. Len(u) + Len(p) = l + 2 /\ Len(u) = l + 1
    BY <1>4, <1>7, <1>8
  <2>4. QED
    BY <2>1, <2>2, <2>3
<1>10. t[1] = Go("DRSHIFT")
  <2>1. 1 \in 1..l + 2 /\ 1 <= l + 1 /\ 1 \in 1..1 + l
    BY <1>7
  <2>2. QED
    BY <1>4, <1>8, <1>9, <2>1
<1>11. t[l + 2] = Go("DRPAUSE")
  <2>1. l + 2 \in 1..l + 2 /\ ~(l + 2 <= l + 1) /\ (l + 2) - (l + 1) = 1
    BY <1>7
  <2>2. QED
    BY <1>4, <1>9, <2>1
<1>12. \A k \in 1..n : t[2 * k] = a[k] /\ t[2 * k + 1] = b[k]
  <2> TAKE k \in 1..n
  <2>1. /\ 2 * k \in 1..l + 2 /\ 2 * k <= l + 1 /\ 2 * k \in 1..1 + l /\ ~(2 * k <= 1)
        /\ 2 * k + 1 \in 1..l + 2 /\ 2 * k + 1 <= l + 1 /\ 2 * k + 1 \in 1..1 + l
        /\ ~(2 * k + 1 <= 1) /\ (2 * k + 1) - 1 = 2 * k
    BY <1>1 DEF l
  <2>2. t[2 * k] = F[2 * k - 1] /\ t[2 * k + 1] = F[2 * k]
    BY <1>8, <1>9, <2>1
  <2>3. QED
    BY <1>6, <2>2
<1>13. Written(data, nbits, reg, t)
  BY <1>9, <1>10, <1>11, <1>12 DEF Written, l, n, w, a, b
<1>14. QED
  BY <1>1, <1>9, <1>13 DEF IsList, n, w, t

LEMMA WriteFollows ==
    ASSUME max \in Nat \ {0}, NEW S, NEW data \in Seq(S), NEW nbits, NEW reg
    PROVE  /\ IsList(ShiftDrWrite(data, nbits, reg))
           /\ Follows(reg, ShiftDrWrite(data, nbits, reg))
<1> DEFINE w == Reverse(data)
           n == Ceil(Len(w), max)
           a == ChunkOut(data)
           b == ChunkScan(data, nbits, reg)
           t == ShiftDrWrite(data, nbits, reg)
<1>1. IsList(t) /\ n \in Nat /\ Written(data, nbits, reg, t)
  BY WriteIs
<1>2. /\ Len(t) = 2 * n + 2
      /\ t[1] = Go("DRSHIFT") /\ t[2 * n + 2] = Go("DRPAUSE")
      /\ \A k \in 1..n : t[2 * k] = a[k] /\ t[2 * k + 1] = b[k]
  BY <1>1 DEF Written
<1>3. \A k \in 1..n : a[k].op = "set"
  BY DEF ChunkOut, SetOut
<1>4. \A k \in 1..n : b[k].op = "scan" /\ b[k].reg = reg /\ (k # n => ~b[k].advance)
  BY DEF ChunkScan, Scan, IsLast
<1> HIDE DEF w, n, a, b, t
<1>5. \A k \in 1..n : /\ t[2 * k].op = "set" /\ t[2 * k + 1].op = "scan"
                      /\ t[2 * k + 1].reg = reg /\ (k # n => ~t[2 * k + 1].advance)
  BY <1>2, <1>3, <1>4
<1>6. t[1].op = "go" /\ t[2 * n + 2].op = "go"
  BY <1>2 DEF Go
<1>7. \A i \in 1..2 * n + 2 : \/ i = 1 \/ i = 2 * n + 2
                              \/ \E k \in 1..n : i = 2 * k \/ i = 2 * k + 1
  <2> TAKE i \in 1..2 * n + 2
  <2>1. \E k \in Int : i = 2 * k \/ i = 2 * k + 1
    <3>1. i \div 2 \in Int /\ (i = 2 * (i \div 2) \/ i = 2 * (i \div 2) + 1)
      OBVIOUS
    <3>2. QED
      BY <3>1
  <2>2. PICK k \in Int : i = 2 * k \/ i = 2 * k + 1
    BY <2>1
  <2>3. i # 1 /\ i # 2 * n + 2 => k \in 1..n
    BY <1>1, <2>2
  <2>4. QED
    BY <2>2, <2>3
<1>8. ASSUME NEW i \in 1..2 * n + 2
      PROVE  /\ t[i].op \notin {"start", "stop"}
             /\ t[i].op = "scan" => /\ i > 1 /\ t[1] = Go("DRSHIFT") /\ t[i].reg = reg
                                    /\ \A j \in 2..i - 1 : Stays(t[j])
  <2>1. t[i].op \notin {"start", "stop"}
    BY <1>5, <1>6, <1>7
  <2>2. ASSUME t[i].op = "scan"
        PROVE  \E k \in 1..n : i = 2 * k + 1
    BY <1>5, <1>6, <1>7, <2>2
  <2>3. ASSUME t[i].op = "scan"
        PROVE  /\ i > 1 /\ t[i].reg = reg
               /\ \A j \in 2..i - 1 : Stays(t[j])
    <3>1. PICK k \in 1..n : i = 2 * k + 1
      BY <2>2, <2>3
    <3>2. i > 1 /\ t[i].reg = reg
      BY <1>5, <3>1
    <3>3. ASSUME NEW j \in 2..i - 1
          PROVE  Stays(t[j])
      <4>1. j \in 1..2 * n + 2 /\ j # 1 /\ j # 2 * n + 2
        BY <1>1, <3>1
      <4>2. PICK m \in 1..n : j = 2 * m \/ j = 2 * m + 1
        BY <1>7, <4>1
      <4>3. j = 2 * m + 1 => m # n
        BY <1>1, <3>1, <4>1, <4>2
      <4>4. QED
        BY <1>5, <4>2, <4>3 DEF Stays
    <3>4. QED
      BY <3>2, <3>3
  <2>4. QED
    BY <1>2, <2>1, <2>3
<1>9. Follows(reg, t)
  BY <1>2, <1>8 DEF Follows
<1>10. QED
  BY <1>1, <1>9 DEF t

\* The bytes of a bitstream, each turned round: in this order they go to the
\* wire, and jtag_shift_dr_write turns the payload back into them.
Wire == [i \in 1..Len(bits) |-> Reverse(bits[i])]

\* Bytes are sequences of bits, and so is their wire order.
LEMMA ByteIs ==
    ASSUME NEW b \in Byte
    PROVE  b \in Seq({0, 1}) /\ Len(b) = ByteBits /\ Reverse(b) \in Byte
<1>1. ByteBits \in Nat
  BY JtagAssumption
<1>2. b \in Seq({0, 1}) /\ Len(b) = ByteBits
  <2>1. b = [i \in 1..ByteBits |-> b[i]] /\ \A i \in 1..ByteBits : b[i] \in {0, 1}
    BY DEF Byte
  <2>2. b \in Seq({0, 1})
    BY <1>1, <2>1, IsASeq
  <2>3. Len(b) = ByteBits
    BY <1>1, <2>1
  <2>4. QED
    BY <2>2, <2>3
<1> DEFINE r == Reverse(b)
<1>3. r \in Seq({0, 1}) /\ Len(r) = ByteBits
  BY <1>2, ReverseIs
<1>4. r = [i \in 1..ByteBits |-> b[(ByteBits - i) + 1]]
  BY <1>2 DEF Reverse
<1>5. \A i \in 1..ByteBits : b[(ByteBits - i) + 1] \in {0, 1}
  BY <1>1 DEF Byte
<1>6. QED
  BY <1>2, <1>4, <1>5 DEF Byte

\* The two reversals of configure_sram and the one of jtag_shift_dr_write.
LEMMA WireIs ==
    ASSUME bits \in Bitstreams
    PROVE  /\ bits \in Seq(Byte) /\ bits # <<>>
           /\ Wire \in Seq(Byte) /\ Len(Wire) = Len(bits)
           /\ Payload \in Seq(Byte) /\ Len(Payload) = Len(bits) /\ Reverse(Payload) = Wire
<1>1. bits \in Seq(Byte) /\ bits # <<>>
  BY JtagAssumption
<1>2. Len(bits) \in Nat /\ \A i \in 1..Len(bits) : bits[i] \in Byte
  BY <1>1
<1>3. \A i \in 1..Len(bits) : Reverse(bits[i]) \in Byte
  BY <1>2, ByteIs
<1>4. Wire \in Seq(Byte)
  BY <1>2, <1>3, IsASeq DEF Wire
<1>5. Len(Wire) = Len(bits)
  BY <1>2 DEF Wire
<1>6. Payload = Reverse(Wire)
  BY DEF Payload, Wire
<1>7. Payload \in Seq(Byte) /\ Len(Payload) = Len(bits) /\ Reverse(Payload) = Wire
  BY <1>4, <1>5, <1>6, ReverseIs, ReverseTwice
<1>8. QED
  BY <1>1, <1>4, <1>5, <1>7

\* Each step that shifts in an instruction does so first.
LEMMA Commands ==
    ASSUME max \in Nat \ {0}, bits \in Bitstreams, NEW s \in Instructs
    PROVE  Command(OpOf(s), Requests(s))
<1>1. /\ OneByte \in Seq({OneByte[1]})
      /\ MagicBytes \in Seq(Byte) /\ Payload \in Seq(Byte)
  BY JtagAssumption, WireIs DEF OneByte
<1>2. \A d \in {OneByte, MagicBytes, Payload} : \A n, op :
        IsList(ShiftDrWrite(d, n, op)) /\ Follows(op, ShiftDrWrite(d, n, op))
  BY <1>1, WriteFollows
<1>3. \A d \in {OneByte, MagicBytes, Payload} : \A n, op :
        Command(op, CmdWrite(op, d, n))
  <2> TAKE d \in {OneByte, MagicBytes, Payload}
  <2> TAKE n, op
  <2>1. CASE n > 0
    <3>1. CmdWrite(op, d, n) = ShiftIr(op) \o ShiftDrWrite(d, n, op)
      BY <2>1 DEF CmdWrite
    <3>2. QED
      BY <1>2, <3>1, CommandOf
  <2>2. CASE ~(n > 0)
    <3>1. CmdWrite(op, d, n) = ShiftIr(op) \o <<>>
      BY <2>2 DEF CmdWrite
    <3>2. QED
      BY <3>1, NothingFollows, CommandOf
  <2>3. QED
    BY <2>1, <2>2
<1>4. \A op : Command(op, CmdRead(op))
  BY ReadFollows, CommandOf DEF CmdRead, ShiftDrRead
<1>5. \A op : Command(op, MetaWidth(op))
  BY ReadFollows, CommandOf DEF MetaWidth
<1>6. \A op : Command(op, (ShiftIr(op) \o DrXfer(op)) \o RunTest)
  <2> TAKE op
  <2> DEFINE t == DrXfer(op)
  <2>1. IsList(t) /\ Follows(op, t)
    BY ReadFollows DEF DrXfer
  <2> HIDE DEF t
  <2>2. IsList(t \o RunTest) /\ Follows(op, t \o RunTest)
        /\ (ShiftIr(op) \o t) \o RunTest = ShiftIr(op) \o (t \o RunTest)
    BY <2>1, ThenRunTest
  <2>3. Command(op, ShiftIr(op) \o (t \o RunTest))
    BY <2>2, CommandOf
  <2>4. QED
    BY <2>2, <2>3, Zenon DEF t
<1>7. \A op : Command(op, CmdWrite(op, <<>>, 0)) /\ Command(op, CmdWrite(op, <<>>, 0) \o RunTest)
              /\ Command(op, ShiftIr(op) \o RunTest)
  <2> TAKE op
  <2>1. CmdWrite(op, <<>>, 0) = ShiftIr(op)
    BY NothingFollows DEF CmdWrite
  <2>2. Command(op, ShiftIr(op))
    BY NothingFollows, CommandOf, Zenon
  <2>3. Command(op, ShiftIr(op) \o RunTest)
    BY RunTestFollows, CommandOf, Zenon
  <2>4. QED
    BY <2>1, <2>2, <2>3
<1>8. Command("ENABLE", CmdWrite("ENABLE", OneByte, ByteBits) \o RunTest)
  <2>1. ByteBits > 0
    BY JtagAssumption
  <2>2. CmdWrite("ENABLE", OneByte, ByteBits) = ShiftIr("ENABLE") \o ShiftDrWrite(OneByte, ByteBits, "ENABLE")
    BY <2>1 DEF CmdWrite
  <2> DEFINE t == ShiftDrWrite(OneByte, ByteBits, "ENABLE")
             op == "ENABLE"
  <2>3. IsList(t) /\ Follows(op, t)
    BY <1>2
  <2> HIDE DEF t, op
  <2>4. IsList(t \o RunTest) /\ Follows(op, t \o RunTest)
        /\ (ShiftIr(op) \o t) \o RunTest = ShiftIr(op) \o (t \o RunTest)
    BY <2>3, ThenRunTest
  <2>5. Command(op, ShiftIr(op) \o (t \o RunTest))
    BY <2>4, CommandOf
  <2>6. QED
    BY <2>2, <2>4, <2>5, Zenon DEF t, op
<1> HIDE DEF Command
<1>9. CASE s \in {"refresh", "disable"}
  BY <1>7, <1>9 DEF Requests, OpOf
<1>10. CASE s \in {"wait", "id", "status", "final"}
  BY <1>4, <1>10 DEF Requests, OpOf
<1>11. CASE s = "magic"
  BY <1>3, <1>11 DEF Requests, OpOf
<1>12. CASE s = "enable"
  BY <1>8, <1>12 DEF Requests, OpOf
<1>13. CASE s \in {"erase", "address"}
  BY <1>3, <1>13 DEF Requests, OpOf
<1>14. CASE s = "burst"
  BY <1>3, <1>14 DEF Requests, OpOf
<1>15. CASE s = "no_op"
  BY <1>7, <1>15 DEF Requests, OpOf
<1>16. CASE s \in {"data_width", "instr_width"}
  BY <1>5, <1>16 DEF Requests, OpOf
<1>17. CASE s \in {"select", "transfer"}
  BY <1>6, <1>17 DEF Requests, OpOf
<1>18. QED
  BY <1>9, <1>10, <1>11, <1>12, <1>13, <1>14, <1>15, <1>16, <1>17 DEF Instructs

\* The others.
LEMMA OtherRequests ==
    /\ Requests("begin") = <<Begin, Go("RESET")>>
    /\ Requests("idle") = RunTest
    /\ Requests("idcode") = <<Go("DRSHIFT"), ClearOut, Scan(32, FALSE, "IDCODE"), GetIn>>
    /\ Requests("end") = <<End>>
  BY DEF Requests

\* A command's requests by place.
LEMMA CommandIs ==
    ASSUME NEW op, NEW r, Command(op, r)
    PROVE  /\ IsList(r) /\ Len(r) \in Nat /\ Len(r) >= 4
           /\ r[1] = Go("IRSHIFT") /\ r[2] = SetOut(<<op>>) /\ r[3] = Scan(8, TRUE, "IR")
           /\ r[4] = Go("IRPAUSE")
           /\ \A i \in 5..Len(r) :
                /\ r[i].op \notin {"start", "stop"}
                /\ r[i].op = "scan" => /\ i > 5 /\ r[5] = Go("DRSHIFT") /\ r[i].reg = op
                                       /\ \A j \in 6..i - 1 : Stays(r[j])
<1>1. PICK S : \E t \in Seq(S) :
        ShiftIr(op) \in Seq(S) /\ r = ShiftIr(op) \o t /\ Follows(op, t)
  BY DEF Command
<1>2. PICK t \in Seq(S) :
        ShiftIr(op) \in Seq(S) /\ r = ShiftIr(op) \o t /\ Follows(op, t)
  BY <1>1
<1> DEFINE h == ShiftIr(op)
           n == Len(t)
<1>3. /\ h \in Seq(S) /\ Len(h) = 4 /\ h[1] = Go("IRSHIFT") /\ h[2] = SetOut(<<op>>)
      /\ h[3] = Scan(8, TRUE, "IR") /\ h[4] = Go("IRPAUSE")
  <2>1. h = <<Go("IRSHIFT"), SetOut(<<op>>), Scan(8, TRUE, "IR"), Go("IRPAUSE")>>
    BY InstructionIs
  <2>2. h \in Seq(S)
    BY <1>2
  <2> HIDE DEF h
  <2>3. QED
    BY <2>1, <2>2
<1>4. n \in Nat /\ r = h \o t
  BY <1>2
<1> HIDE DEF h, n
<1>5. /\ r \in Seq(S) /\ Len(r) = 4 + n
      /\ \A i \in 1..4 + n : r[i] = IF i <= 4 THEN h[i] ELSE t[i - 4]
  <2>1. /\ h \o t \in Seq(S) /\ Len(h \o t) = Len(h) + Len(t)
        /\ \A i \in 1..Len(h) + Len(t) : (h \o t)[i] = IF i <= Len(h) THEN h[i] ELSE t[i - Len(h)]
    BY <1>3, Joined
  <2>2. QED
    BY <1>3, <1>4, <2>1 DEF n
<1>6. \A i \in {1, 2, 3, 4} : r[i] = h[i]
  BY <1>4, <1>5
<1>7. \A i \in 1..n :
        /\ t[i].op \notin {"start", "stop"}
        /\ t[i].op = "scan" => /\ i > 1 /\ t[1] = Go("DRSHIFT") /\ t[i].reg = op
                               /\ \A j \in 2..i - 1 : Stays(t[j])
  BY <1>2 DEF Follows, n
<1>8. ASSUME NEW i \in 5..4 + n
      PROVE  /\ r[i].op \notin {"start", "stop"}
             /\ r[i].op = "scan" => /\ i > 5 /\ r[5] = Go("DRSHIFT") /\ r[i].reg = op
                                    /\ \A j \in 6..i - 1 : Stays(r[j])
  <2>1. /\ i - 4 \in 1..n /\ r[i] = t[i - 4] /\ r[5] = t[1]
        /\ \A j \in 6..i - 1 : j - 4 \in 2..(i - 4) - 1 /\ r[j] = t[j - 4]
    <3>1. i - 4 \in 1..n /\ i \in 1..4 + n /\ ~(i <= 4) /\ 5 \in 1..4 + n /\ ~(5 <= 4)
          /\ 5 - 4 = 1
      BY <1>4
    <3>2. r[i] = t[i - 4] /\ r[5] = t[1]
      <4>1. r[5] = t[5 - 4]
        BY <1>5, <3>1
      <4>2. QED
        BY <1>5, <3>1, <4>1
    <3>3. ASSUME NEW j \in 6..i - 1
          PROVE  j - 4 \in 2..(i - 4) - 1 /\ r[j] = t[j - 4]
      <4>1. j - 4 \in 2..(i - 4) - 1 /\ j \in 1..4 + n /\ ~(j <= 4)
        BY <1>4
      <4>2. QED
        BY <1>5, <4>1
    <3>4. QED
      BY <3>1, <3>2, <3>3
  <2>2. /\ t[i - 4].op \notin {"start", "stop"}
        /\ t[i - 4].op = "scan" => /\ i - 4 > 1 /\ t[1] = Go("DRSHIFT") /\ t[i - 4].reg = op
                                   /\ \A j \in 2..(i - 4) - 1 : Stays(t[j])
    BY <1>7, <2>1
  <2>3. i - 4 > 1 => i > 5
    OBVIOUS
  <2>4. QED
    BY <2>1, <2>2, <2>3
<1>9. IsList(r)
  BY <1>5 DEF IsList
<1>10. Len(r) = 4 + n /\ Len(r) \in Nat /\ Len(r) >= 4
  BY <1>4, <1>5
<1>11. /\ r[1] = Go("IRSHIFT") /\ r[2] = SetOut(<<op>>) /\ r[3] = Scan(8, TRUE, "IR")
       /\ r[4] = Go("IRPAUSE")
  BY <1>3, <1>6
<1>12. QED
  BY <1>8, <1>9, <1>10, <1>11, Zenon

\* The requests of every step are a list.
LEMMA RequestsAreList ==
    ASSUME max \in Nat \ {0}, bits \in Bitstreams, NEW s \in Steps
    PROVE  IsList(Requests(s))
<1>1. CASE s \in Instructs
  BY <1>1, Commands, CommandIs
<1>2. CASE s \in {"begin", "idle", "idcode", "end"}
  <2>1. /\ Requests("begin") \in Seq({Begin, Go("RESET")})
        /\ Requests("idle") \in Seq({Go("IDLE"), Clock})
        /\ Requests("idcode") \in Seq({Go("DRSHIFT"), ClearOut, Scan(32, FALSE, "IDCODE"), GetIn})
        /\ Requests("end") \in Seq({End})
    <3>1. /\ <<Begin, Go("RESET")>> \in Seq({Begin, Go("RESET")})
          /\ <<Go("IDLE"), Clock>> \in Seq({Go("IDLE"), Clock})
      OBVIOUS
    <3>2. <<Go("DRSHIFT"), ClearOut, Scan(32, FALSE, "IDCODE"), GetIn>>
            \in Seq({Go("DRSHIFT"), ClearOut, Scan(32, FALSE, "IDCODE"), GetIn})
      OBVIOUS
    <3>3. <<End>> \in Seq({End})
      OBVIOUS
    <3>4. QED
      BY <3>1, <3>2, <3>3, OtherRequests, Zenon DEF RunTest
  <2>2. QED
    BY <1>2, <2>1 DEF IsList
<1>3. QED
  BY <1>1, <1>2 DEF Steps

-----------------------------------------------------------------------------
(* Where a step is.                                                        *)

\* Only the first step begins a session, only the last ends it, and the
\* IDCODE is read right after the beginning.
Planned(p) == p \in Seq(Steps) /\ \A i \in 1..Len(p) :
    /\ p[i] = "begin" => i = 1
    /\ p[i] = "end" => i = Len(p)
    /\ p[i] = "idcode" => (i = 1 \/ (i = 2 /\ p[1] = "begin"))

NoBurst(p)      == \A i \in 1..Len(p) : p[i] # "burst"
ScansFrom(s, k) == \E i \in k..Len(Requests(s)) : Requests(s)[i].op = "scan"

\* Before request k of step s: the way of the TAP through the IR states, and
\* what an instruction's data still find.
At(s, k) ==
    /\ s = "begin" => /\ k > 1 => session
                      /\ k = 3 => tap = "RESET" /\ ir = "IDCODE"
    /\ s \notin {"begin", "end"} => session
    /\ s = "idcode" => /\ k = 1 => tap = "RESET"
                       /\ k \in {2, 3} => tap = "DRSHIFT"
                       /\ k <= 3 => ir = "IDCODE"
    /\ s \in Instructs =>
         /\ k \in {2, 3} => tap = "IRSHIFT"
         /\ k = 3 => out = <<OpOf(s)>>
         /\ k = 4 => tap = "IREXIT"
         /\ k = 5 => tap = "IRPAUSE"
         /\ k \in {4, 5} => shifted = OpOf(s)
         /\ k >= 6 /\ ScansFrom(s, k) => tap = "DRSHIFT" /\ ir = OpOf(s)

AtStep(s) == \E k \in 1..Len(Requests(s)) + 1 : todo = Onward(Requests(s), k) /\ At(s, k)

\* The program is at some request of the first step of its plan, and there the
\* TAP is where that request needs it.
TapInv ==
    /\ max \in Nat \ {0} /\ bits \in Bitstreams
    /\ Planned(plan)
    /\ plan = <<>> => todo = <<>>
    /\ \A s \in Steps : plan # <<>> /\ Head(plan) = s => AtStep(s)

\* The plans of the calls.
LEMMA PlanOf ==
    /\ Planned(ConfigureSram) /\ ConfigureSram # <<>> /\ Head(ConfigureSram) = "begin"
    /\ Planned(ReadIdcode) /\ ReadIdcode # <<>> /\ Head(ReadIdcode) = "begin"
    /\ Planned(GiveUp) /\ GiveUp # <<>> /\ Head(GiveUp) = "end"
<1>1. ConfigureSram \in Seq(Steps) /\ ReadIdcode \in Seq(Steps) /\ GiveUp \in Seq(Steps)
  BY DEF ConfigureSram, ReadIdcode, GiveUp, Steps, Instructs
<1>2. Planned(ReadIdcode) /\ Planned(GiveUp)
  BY <1>1 DEF ReadIdcode, GiveUp, Planned
<1>3. Len(ConfigureSram) = 16 /\ ConfigureSram[1] = "begin" /\ ConfigureSram[16] = "end"
  BY DEF ConfigureSram
<1>4. \A i \in 2..15 : ConfigureSram[i] \notin {"begin", "end", "idcode"}
  BY DEF ConfigureSram
<1>a. ConfigureSram # <<>>
  BY DEF ConfigureSram
<1> DEFINE p == ConfigureSram
<1>5. p \in Seq(Steps) /\ Len(p) = 16 /\ p[1] = "begin" /\ p[16] = "end"
      /\ \A i \in 2..15 : p[i] \notin {"begin", "end", "idcode"}
  BY <1>1, <1>3, <1>4
<1> HIDE DEF p
<1>6. Planned(p)
  <2>1. \A i \in 1..16 : i = 1 \/ i = 16 \/ i \in 2..15
    OBVIOUS
  <2>2. ASSUME NEW i \in 1..Len(p)
        PROVE  /\ p[i] = "begin" => i = 1
               /\ p[i] = "end" => i = Len(p)
               /\ p[i] = "idcode" => (i = 1 \/ (i = 2 /\ p[1] = "begin"))
    <3>1. i \in 1..16
      BY <1>5
    <3>2. CASE i = 1
      BY <1>5, <3>2
    <3>3. CASE i = 16
      BY <1>5, <3>3
    <3>4. CASE i \in 2..15
      BY <1>5, <3>4
    <3>5. QED
      BY <2>1, <3>1, <3>2, <3>3, <3>4
  <2>3. QED
    BY <1>5, <2>2 DEF Planned
<1>8. p # <<>> /\ Head(p) = "begin"
  <2>1. p # <<>>
    BY <1>a DEF p
  <2>2. QED
    BY <1>5, <2>1
<1>9. QED
  BY <1>2, <1>6, <1>8 DEF p, ReadIdcode, GiveUp

\* The plan of a register call, whatever its number of transactions.
LEMMA PlanOfRegisters ==
    ASSUME NEW n \in 0..2
    PROVE  /\ Planned(WithRegisters(n)) /\ WithRegisters(n) # <<>>
           /\ Head(WithRegisters(n)) = "begin" /\ NoBurst(WithRegisters(n))
<1> DEFINE a == [i \in 1..n |-> "select"]
           b == [i \in 1..n |-> "transfer"]
           h == <<"begin", "data_width", "instr_width">>
           e == <<"end">>
           F == FlattenSeq(Pairs(a, b, n))
           S == {"select", "transfer"}
           l == 2 * n
<1>1. n \in Nat /\ \A i \in 1..n : a[i] \in S /\ b[i] \in S
  OBVIOUS
<1>2. Pairs(a, b, n) = [i \in 1..n |-> <<"select", "transfer">>]
  BY DEF Pairs
<1>3. WithRegisters(n) = (h \o F) \o e
  BY <1>2 DEF WithRegisters
<1>4. h \in Seq(Steps) /\ Len(h) = 3 /\ h[1] = "begin" /\ h[2] = "data_width" /\ h[3] = "instr_width"
      /\ e \in Seq(Steps) /\ Len(e) = 1 /\ e[1] = "end"
  BY DEF Steps, Instructs
<1>5. S \subseteq Steps
  BY DEF Steps, Instructs
<1> HIDE DEF h, e, a, b, S
<1>6. F \in Seq(S) /\ InTurn(F, a, b, n)
  BY <1>1, FlattenPairs
<1> HIDE DEF F
<1>7. F \in Seq(Steps) /\ Len(F) = l /\ l \in Nat /\ \A i \in 1..l : F[i] \in S
  <2>1. Len(F) = l
    BY <1>6 DEF InTurn
  <2>2. \A i \in 1..Len(F) : F[i] \in S
    BY <1>6, Elements
  <2>3. QED
    BY <1>5, <1>6, <2>1, <2>2, SeqGrows
<1> HIDE DEF l
<1> DEFINE u == h \o F
           p == WithRegisters(n)
<1>8. /\ u \in Seq(Steps) /\ Len(u) = 3 + l
      /\ \A i \in 1..3 + l : u[i] = IF i <= 3 THEN h[i] ELSE F[i - 3]
  <2>1. /\ u \in Seq(Steps) /\ Len(u) = Len(h) + Len(F)
        /\ \A i \in 1..Len(h) + Len(F) : u[i] = IF i <= Len(h) THEN h[i] ELSE F[i - Len(h)]
    BY <1>4, <1>7, Joined
  <2>2. QED
    BY <1>4, <1>7, <2>1
<1>9. p = u \o e
  BY <1>3
<1> HIDE DEF u, p
<1>10. /\ p \in Seq(Steps) /\ Len(p) = 4 + l
       /\ \A i \in 1..4 + l : p[i] = IF i <= 3 + l THEN u[i] ELSE e[i - (3 + l)]
  <2>1. /\ u \o e \in Seq(Steps) /\ Len(u \o e) = Len(u) + Len(e)
        /\ \A i \in 1..Len(u) + Len(e) : (u \o e)[i] = IF i <= Len(u) THEN u[i] ELSE e[i - Len(u)]
    BY <1>4, <1>8, Joined
  <2>2. Len(u) + Len(e) = 4 + l
    BY <1>4, <1>7, <1>8
  <2>3. QED
    BY <1>8, <1>9, <2>1, <2>2
<1>11. p[1] = "begin"
  <2>1. 1 \in 1..4 + l /\ 1 <= 3 + l /\ 1 \in 1..3 + l
    BY <1>7
  <2>2. QED
    BY <1>4, <1>8, <1>10, <2>1
<1>12. ASSUME NEW i \in 2..3 + l
       PROVE  p[i] \notin {"begin", "end", "idcode", "burst"}
  <2>1. i \in 1..4 + l /\ i <= 3 + l /\ i \in 1..3 + l
    BY <1>7
  <2>2. p[i] = IF i <= 3 THEN h[i] ELSE F[i - 3]
    BY <1>8, <1>10, <2>1
  <2>3. CASE i <= 3
    <3>1. i \in {2, 3}
      BY <2>3
    <3>2. QED
      BY <1>4, <2>2, <2>3, <3>1
  <2>4. CASE ~(i <= 3)
    <3>1. i - 3 \in 1..l
      BY <1>7, <2>4
    <3>2. QED
      BY <1>7, <2>2, <2>4, <3>1 DEF S
  <2>5. QED
    BY <2>3, <2>4
<1>13. Planned(p) /\ NoBurst(p)
  <2>1. \A i \in 1..4 + l : i = 1 \/ i = 4 + l \/ i \in 2..3 + l
    BY <1>7
  <2>2. p[4 + l] = "end"
    <3>1. 4 + l \in 1..4 + l /\ ~(4 + l <= 3 + l) /\ (4 + l) - (3 + l) = 1
      BY <1>7
    <3>2. QED
      BY <1>4, <1>10, <3>1
  <2>3. QED
    BY <1>10, <1>11, <1>12, <2>1, <2>2 DEF Planned, NoBurst
<1>14. p # <<>> /\ Head(p) = "begin"
  BY <1>7, <1>10, <1>11
<1>15. QED
  BY <1>13, <1>14 DEF p

\* What is left of a plan is one.
LEMMA PlanGoesOn ==
    ASSUME NEW p, Planned(p), p # <<>>
    PROVE  /\ Head(p) \in Steps /\ Planned(Tail(p))
           /\ Tail(p) # <<>> => /\ Head(Tail(p)) \in Steps /\ Head(p) # "end"
                                /\ Head(Tail(p)) # "begin"
                                /\ Head(Tail(p)) = "idcode" => Head(p) = "begin"
<1> DEFINE n == Len(p)
           t == Tail(p)
<1>1. /\ p \in Seq(Steps) /\ n \in Nat /\ n > 0 /\ Head(p) = p[1]
      /\ \A i \in 1..n : /\ p[i] \in Steps
                         /\ p[i] = "begin" => i = 1
                         /\ p[i] = "end" => i = n
                         /\ p[i] = "idcode" => (i = 1 \/ (i = 2 /\ p[1] = "begin"))
  BY DEF Planned
<1>2. t \in Seq(Steps) /\ Len(t) = n - 1 /\ \A i \in 1..n - 1 : t[i] = p[i + 1]
  BY <1>1
<1> HIDE DEF n, t
<1>3. \A i \in 1..n - 1 : i + 1 \in 1..n /\ i + 1 # 1
  BY <1>1
<1>4. Planned(t)
  <2>1. ASSUME NEW i \in 1..n - 1
        PROVE  /\ t[i] = "begin" => i = 1
               /\ t[i] = "end" => i = n - 1
               /\ t[i] = "idcode" => (i = 1 \/ (i = 2 /\ t[1] = "begin"))
    <3>1. t[i] = p[i + 1] /\ i + 1 \in 1..n /\ i + 1 # 1
      BY <1>2, <1>3
    <3>2. t[i] # "begin"
      BY <1>1, <3>1
    <3>3. t[i] = "end" => i + 1 = n
      BY <1>1, <3>1
    <3>4. t[i] = "idcode" => i + 1 = 2
      BY <1>1, <3>1
    <3>5. QED
      BY <1>1, <3>2, <3>3, <3>4
  <2>2. QED
    BY <1>2, <2>1 DEF Planned
<1>5. ASSUME t # <<>>
      PROVE  /\ Head(t) \in Steps /\ Head(p) # "end" /\ Head(t) # "begin"
             /\ Head(t) = "idcode" => Head(p) = "begin"
  <2>1. n - 1 > 0 /\ Head(t) = t[1]
    BY <1>1, <1>2, <1>5
  <2>2. 2 \in 1..n /\ 1 \in 1..n /\ n # 1 /\ t[1] = p[2]
    <3>1. 1 \in 1..n - 1 /\ 1 + 1 = 2 /\ 2 \in 1..n /\ 1 \in 1..n /\ n # 1
      BY <1>1, <2>1
    <3>2. QED
      BY <1>2, <3>1
  <2>3. QED
    BY <1>1, <2>1, <2>2
<1>6. Head(p) \in Steps
  BY <1>1
<1>7. QED
  BY <1>4, <1>5, <1>6 DEF t

\* The place of a step's next request, and the end of them.
LEMMA Place ==
    ASSUME NEW r, IsList(r), NEW k \in 1..Len(r) + 1, todo = Onward(r, k)
    PROVE  /\ todo = <<>> <=> k = Len(r) + 1
           /\ todo # <<>> => /\ k \in 1..Len(r) /\ k + 1 \in 1..Len(r) + 1
                             /\ Head(todo) = r[k] /\ Tail(todo) = Onward(r, k + 1)
<1>1. PICK S : r \in Seq(S)
  BY DEF IsList
<1>2. Len(r) \in Nat
  BY <1>1
<1>3. CASE k = Len(r) + 1
  <2>1. todo = <<>>
    BY <1>1, <1>3, OnwardEnds
  <2>2. QED
    BY <1>3, <2>1
<1>4. CASE k # Len(r) + 1
  <2>1. k \in 1..Len(r) /\ k + 1 \in 1..Len(r) + 1
    BY <1>2, <1>4
  <2>2. todo # <<>> /\ Head(todo) = r[k] /\ Tail(todo) = Onward(r, k + 1)
    BY <1>1, <2>1, OnwardStep
  <2>3. QED
    BY <1>4, <2>1, <2>2
<1>5. QED
  BY <1>3, <1>4

-----------------------------------------------------------------------------
(* What carrying out a request does.                                       *)

\* Each kind of request, and what it leaves alone.
LEMMA Carries ==
    ASSUME NEW r, CarriedOut(r)
    PROVE  /\ r.op \notin {"start", "stop"} => session' = session
           /\ r.op = "start" => session' = TRUE
           /\ r.op = "go" => Goes(r.to)
           /\ r.op = "set" => out' = r.data /\ UNCHANGED <<session, tap, shifted, captured, fpga>>
           /\ r.op = "scan" => Scanned(r.n, r.advance)
           /\ r.op \in {"clock", "get"} => UNCHANGED <<debugger, fpga>>
           /\ r.op \in {"start", "stop"} => UNCHANGED <<tap, shifted, out, captured, fpga>>
<1>1. CASE r.op \in {"start", "stop"} /\ session' = (r.op = "start")
           /\ UNCHANGED <<tap, shifted, out, captured, fpga>>
  BY <1>1
<1>2. CASE r.op = "go" /\ Goes(r.to)
  BY <1>2 DEF Goes
<1>3. CASE r.op = "set" /\ out' = r.data /\ UNCHANGED <<session, tap, shifted, captured, fpga>>
  BY <1>3
<1>4. CASE r.op = "scan" /\ Scanned(r.n, r.advance)
  BY <1>4 DEF Scanned
<1>5. CASE r.op \in {"clock", "get"} /\ UNCHANGED <<debugger, fpga>>
  BY <1>5 DEF debugger
<1>6. QED
  BY <1>1, <1>2, <1>3, <1>4, <1>5 DEF CarriedOut

\* A request that stays keeps the TAP in its state, and its instruction.
LEMMA StaysPut ==
    ASSUME NEW r, CarriedOut(r), Stays(r)
    PROVE  tap' = tap /\ ir' = ir
<1>1. CASE r.op = "set"
  BY <1>1, Carries DEF fpga
<1>2. CASE r.op = "get"
  BY <1>2, Carries DEF fpga, debugger
<1>3. CASE r.op = "scan" /\ ~r.advance
  BY <1>3, Carries DEF Scanned, ScannedIr, ScannedDr, fpga
<1>4. QED
  BY <1>1, <1>2, <1>3 DEF Stays

\* A step that shifts in an instruction goes on.
LEMMA InstructionGoesOn ==
    ASSUME TapInv, NEW s \in Instructs, NEW k \in 1..Len(Requests(s)),
           At(s, k), CarriedOut(Requests(s)[k]), Requests(s)' = Requests(s)
    PROVE  At(s, k + 1)'
<1> DEFINE r == Requests(s)
           op == OpOf(s)
           n == Len(r)
<1>1. /\ n \in Nat /\ n >= 4
      /\ r[1] = Go("IRSHIFT") /\ r[2] = SetOut(<<op>>) /\ r[3] = Scan(8, TRUE, "IR")
      /\ r[4] = Go("IRPAUSE")
      /\ \A i \in 5..n :
           /\ r[i].op \notin {"start", "stop"}
           /\ r[i].op = "scan" => /\ i > 5 /\ r[5] = Go("DRSHIFT") /\ r[i].reg = op
                                  /\ \A j \in 6..i - 1 : Stays(r[j])
  <2>1. Command(op, r)
    BY Commands DEF TapInv
  <2> HIDE DEF r, op
  <2>2. QED
    BY <2>1, CommandIs
<1>2. /\ s \notin {"begin", "end", "idcode"} /\ session
      /\ k \in {2, 3} => tap = "IRSHIFT"
      /\ k = 3 => out = <<op>>
      /\ k = 4 => tap = "IREXIT"
      /\ k = 5 => tap = "IRPAUSE"
      /\ k \in {4, 5} => shifted = op
      /\ k >= 6 /\ ScansFrom(s, k) => tap = "DRSHIFT" /\ ir = op
  BY DEF At, Instructs
<1>3. CarriedOut(r[k]) /\ r' = r /\ k \in 1..n /\ op' = op
  OBVIOUS
<1>4. SUFFICES /\ session'
               /\ k + 1 \in {2, 3} => tap' = "IRSHIFT"
               /\ k + 1 = 3 => out' = <<op>>
               /\ k + 1 = 4 => tap' = "IREXIT"
               /\ k + 1 = 5 => tap' = "IRPAUSE"
               /\ k + 1 \in {4, 5} => shifted' = op
               /\ k + 1 >= 6 /\ (\E i \in k + 1..n : r[i].op = "scan") => tap' = "DRSHIFT" /\ ir' = op
  <2>1. s \notin {"begin", "end", "idcode"} /\ Len(r') = n
    BY <1>2, <1>3
  <2>2. QED
    BY <2>1, <1>3 DEF At, ScansFrom
<1>5. CASE k = 1
  <2>0. r[k].op = "go" /\ r[k].to = "IRSHIFT"
    BY <1>1, <1>5 DEF Go
  <2>1. Goes("IRSHIFT") /\ session' = session
    BY <1>3, <2>0, Carries
  <2>2. tap' = "IRSHIFT" /\ session'
    BY <1>2, <2>1 DEF Goes
  <2>3. QED
    BY <1>5, <2>2
<1>6. CASE k = 2
  <2>1. out' = <<op>> /\ tap' = tap /\ session' = session
    <3>1. r[k].op = "set" /\ r[k].data = <<op>>
      BY <1>1, <1>6 DEF SetOut
    <3>2. QED
      BY <1>3, <3>1, Carries
  <2>2. QED
    BY <1>2, <1>6, <2>1
<1>7. CASE k = 3
  <2>1. r[k].op = "scan" /\ r[k].n = 8 /\ r[k].advance = TRUE
    BY <1>1, <1>7 DEF Scan
  <2>2. Scanned(8, TRUE)
    BY <1>3, <2>1, Carries
  <2>3. tap = "IRSHIFT" /\ out = <<op>>
    BY <1>2, <1>7
  <2>4. tap' = "IREXIT" /\ session' = session
    BY <2>2, <2>3 DEF Scanned
  <2>5. shifted' = out[1]
    BY <2>2, <2>3 DEF Scanned, ScannedIr, ScannedDr
  <2>6. QED
    BY <1>2, <1>7, <2>3, <2>4, <2>5
<1>8. CASE k = 4
  <2>0. r[k].op = "go" /\ r[k].to = "IRPAUSE"
    BY <1>1, <1>8 DEF Go
  <2>1. Goes("IRPAUSE") /\ session' = session
    BY <1>3, <2>0, Carries
  <2>2. tap' = "IRPAUSE" /\ shifted' = shifted
    BY <2>1 DEF Goes
  <2>3. QED
    BY <1>2, <1>8, <2>1, <2>2
<1>9. CASE k = 5
  <2>1. session' = session
    <3>1. r[k].op \notin {"start", "stop"}
      BY <1>1, <1>3, <1>9
    <3>2. QED
      BY <1>3, <3>1, Carries
  <2>2. ASSUME NEW i \in k + 1..n, r[i].op = "scan"
        PROVE  tap' = "DRSHIFT" /\ ir' = op
    <3>1. i \in 5..n
      BY <1>1, <1>9
    <3>2. r[5] = Go("DRSHIFT")
      BY <1>1, <2>2, <3>1
    <3>a. r[k].op = "go" /\ r[k].to = "DRSHIFT"
      BY <1>9, <3>2 DEF Go
    <3>3. Goes("DRSHIFT")
      BY <1>3, <3>a, Carries
    <3>4. QED
      BY <1>2, <1>9, <3>3 DEF Goes, InIr
  <2>3. QED
    BY <1>2, <1>9, <2>1, <2>2
<1>10. CASE k >= 6
  <2>1. session' = session
    <3>1. r[k].op \notin {"start", "stop"}
      BY <1>1, <1>3, <1>10
    <3>2. QED
      BY <1>3, <3>1, Carries
  <2>2. ASSUME NEW i \in k + 1..n, r[i].op = "scan"
        PROVE  tap' = "DRSHIFT" /\ ir' = op
    <3>1. i \in 5..n /\ i \in k..n /\ k \in 6..i - 1
      BY <1>1, <1>10
    <3>2. Stays(r[k])
      BY <1>1, <2>2, <3>1
    <3>3. tap = "DRSHIFT" /\ ir = op
      BY <1>2, <1>10, <2>2, <3>1 DEF ScansFrom
    <3>4. QED
      BY <1>3, <3>2, <3>3, StaysPut
  <2>3. QED
    BY <1>2, <1>10, <2>1, <2>2
<1>11. k \in {1, 2, 3, 4, 5} \/ k >= 6
  BY <1>1
<1>12. QED
  BY <1>5, <1>6, <1>7, <1>8, <1>9, <1>10, <1>11

\* The requests of a step do not change during a call.
LEMMA SameRequests ==
    ASSUME max' = max, bits' = bits, NEW s
    PROVE  Requests(s)' = Requests(s)
<1>1. \A d, n, r : ShiftDrWrite(d, n, r)' = ShiftDrWrite(d, n, r)
  BY DEF ShiftDrWrite, Bytes, ChunkBits, IsLast, Start
<1>2. Payload' = Payload
  BY DEF Payload
<1>3. QED
  BY <1>1, <1>2 DEF Requests, CmdWrite, CmdRead, MetaWidth

\* The others go on.
LEMMA OtherGoesOn ==
    ASSUME NEW s \in {"begin", "idle", "idcode", "end"}, NEW k \in 1..Len(Requests(s)),
           At(s, k), CarriedOut(Requests(s)[k])
    PROVE  At(s, k + 1)'
<1>1. CASE s = "begin"
  <2>1. k \in {1, 2} /\ Requests(s)[k] = IF k = 1 THEN Begin ELSE Go("RESET")
    BY <1>1, OtherRequests
  <2>2. CASE k = 1
    <3>1. Requests(s)[k].op = "start"
      BY <2>1, <2>2 DEF Begin
    <3>2. session' = TRUE
      BY <3>1, Carries
    <3>3. QED
      BY <1>1, <2>2, <3>2 DEF At, Instructs
  <2>3. CASE k = 2
    <3>1. Requests(s)[k].op = "go" /\ Requests(s)[k].to = "RESET"
      BY <2>1, <2>3 DEF Go
    <3>2. session' = session /\ Goes("RESET")
      BY <3>1, Carries
    <3>3. tap' = "RESET" /\ ir' = "IDCODE"
      BY <3>2 DEF Goes
    <3>4. session
      BY <1>1, <2>3 DEF At
    <3>5. QED
      BY <1>1, <2>3, <3>2, <3>3, <3>4 DEF At, Instructs
  <2>4. QED
    BY <2>1, <2>2, <2>3
<1>2. CASE s = "idle"
  <2>1. k \in {1, 2} /\ Requests(s)[k] = IF k = 1 THEN Go("IDLE") ELSE Clock
    BY <1>2, OtherRequests DEF RunTest
  <2>2. Requests(s)[k].op \in {"go", "clock"}
    BY <2>1 DEF Go, Clock
  <2>3. session' = session /\ session
    BY <1>2, <2>2, Carries DEF At
  <2>4. QED
    BY <1>2, <2>3 DEF At, Instructs
<1>3. CASE s = "idcode"
  <2> DEFINE r == Requests(s)[k]
  <2>0. Requests(s) = <<Go("DRSHIFT"), ClearOut, Scan(32, FALSE, "IDCODE"), GetIn>>
    BY <1>3, OtherRequests
  <2>a. /\ Len(Requests(s)) = 4 /\ Requests(s)[1] = Go("DRSHIFT") /\ Requests(s)[2] = ClearOut
        /\ Requests(s)[3] = Scan(32, FALSE, "IDCODE") /\ Requests(s)[4] = GetIn
    BY <2>0
  <2>b. k \in {1, 2, 3, 4}
    BY <2>a
  <2>1. k \in {1, 2, 3, 4} /\ r = IF k = 1 THEN Go("DRSHIFT") ELSE IF k = 2 THEN ClearOut
                                  ELSE IF k = 3 THEN Scan(32, FALSE, "IDCODE") ELSE GetIn
    BY <2>a, <2>b
  <2> HIDE DEF r
  <2>2. /\ k = 1 => r.op = "go" /\ r.to = "DRSHIFT"
        /\ k = 2 => r.op = "set"
        /\ k = 3 => r.op = "scan" /\ r.advance = FALSE
        /\ k = 4 => r.op = "get"
    BY <2>1 DEF Go, ClearOut, Scan, GetIn
  <2>3. CarriedOut(r)
    BY DEF r
  <2>4. session' = session
    BY <2>1, <2>2, <2>3, Carries
  <2>5. /\ session
        /\ k = 1 => tap = "RESET"
        /\ k \in {2, 3} => tap = "DRSHIFT"
        /\ k <= 3 => ir = "IDCODE"
    BY <1>3 DEF At
  <2>6. CASE k = 1
    <3>1. Goes("DRSHIFT")
      BY <2>2, <2>3, <2>6, Carries
    <3>2. tap' = "DRSHIFT" /\ ir' = ir
      BY <2>5, <2>6, <3>1 DEF Goes, InIr
    <3>3. QED
      BY <1>3, <2>4, <2>5, <2>6, <3>2 DEF At, Instructs
  <2>7. CASE k = 2
    <3>1. tap' = tap /\ ir' = ir
      BY <2>2, <2>3, <2>7, StaysPut DEF Stays
    <3>2. QED
      BY <1>3, <2>4, <2>5, <2>7, <3>1 DEF At, Instructs
  <2>8. CASE k \in {3, 4}
    BY <1>3, <2>4, <2>5, <2>8 DEF At, Instructs
  <2>9. QED
    BY <2>1, <2>6, <2>7, <2>8
<1>4. CASE s = "end"
  BY <1>4 DEF At, Instructs
<1>5. QED
  BY <1>1, <1>2, <1>3, <1>4

\* The next request of a step, carried out, leaves the step where it should be.
LEMMA Advances ==
    ASSUME TapInv, NEW s, plan # <<>>, Head(plan) = s, todo # <<>>,
           CarriedOut(Head(todo)), max' = max, bits' = bits
    PROVE  /\ todo' = Tail(todo) => AtStep(s)'
           /\ s \notin {"begin", "end"} => session'
<1> DEFINE r == Requests(s)
<1>1. s \in Steps /\ IsList(r)
  BY PlanGoesOn, RequestsAreList DEF TapInv
<1>2. PICK k \in 1..Len(r) + 1 : todo = Onward(r, k) /\ At(s, k)
  BY <1>1 DEF TapInv, AtStep
<1>3. r' = r
  BY SameRequests
<1>4. /\ k \in 1..Len(r) /\ k + 1 \in 1..Len(r) + 1
      /\ Head(todo) = r[k] /\ Tail(todo) = Onward(r, k + 1)
  <2> HIDE DEF r
  <2>1. QED
    BY <1>1, <1>2, Place
<1>5. At(s, k + 1)'
  <2>1. CarriedOut(r[k])
    BY <1>4
  <2>2. CASE s \in Instructs
    BY <1>2, <1>3, <1>4, <2>1, <2>2, InstructionGoesOn
  <2>3. CASE s \in {"begin", "idle", "idcode", "end"}
    BY <1>2, <1>4, <2>1, <2>3, OtherGoesOn
  <2>4. QED
    BY <1>1, <2>2, <2>3 DEF Steps
<1>6. ASSUME todo' = Tail(todo)
      PROVE  AtStep(s)'
  <2>1. todo' = Onward(r', k + 1) /\ k + 1 \in 1..Len(r') + 1
    BY <1>3, <1>4, <1>6
  <2>2. QED
    BY <1>5, <2>1 DEF AtStep
<1>7. s \notin {"begin", "end"} => session'
  BY <1>5 DEF At
<1>8. QED
  BY <1>6, <1>7

\* A step begins where it should.
LEMMA Starts ==
    ASSUME max \in Nat \ {0}, bits \in Bitstreams, NEW s \in Steps,
           todo' = Requests(s), Requests(s)' = Requests(s),
           s \notin {"begin", "end"} => session',
           s = "idcode" => tap' = "RESET" /\ ir' = "IDCODE"
    PROVE  AtStep(s)'
<1> DEFINE r == Requests(s)
<1>1. PICK S : r \in Seq(S)
  BY RequestsAreList DEF IsList
<1>2. todo' = Onward(r', 1)
  <2>1. Onward(r, 1) = r
    BY <1>1, OnwardEnds
  <2>2. QED
    BY <2>1
<1>3. 1 \in 1..Len(r') + 1
  BY <1>1
<1>4. At(s, 1)'
  BY DEF At, Instructs
<1>5. QED
  BY <1>2, <1>3, <1>4 DEF AtStep

\* The session lasts from the first step to the last, and the first leaves the
\* TAP in reset.
LEMMA InSession ==
    ASSUME TapInv, plan # <<>>
    PROVE  /\ Head(plan) \notin {"begin", "end"} => session
           /\ todo = <<>> /\ Head(plan) = "begin" => session /\ tap = "RESET" /\ ir = "IDCODE"
<1> DEFINE s == Head(plan)
           r == Requests(s)
<1>1. s \in Steps /\ IsList(r)
  BY PlanGoesOn, RequestsAreList DEF TapInv
<1>2. PICK k \in 1..Len(r) + 1 : todo = Onward(r, k) /\ At(s, k)
  BY <1>1 DEF TapInv, AtStep
<1>3. s \notin {"begin", "end"} => session
  BY <1>2 DEF At
<1>4. todo = <<>> => k = Len(r) + 1
  <2> HIDE DEF r
  <2>1. QED
    BY <1>1, <1>2, Place
<1>5. ASSUME todo = <<>>, s = "begin"
      PROVE  session /\ tap = "RESET" /\ ir = "IDCODE"
  <2>1. r = <<Begin, Go("RESET")>>
    BY <1>5, OtherRequests
  <2>2. Len(r) = 2
    BY <2>1
  <2>3. k = 3
    <3>1. k = Len(r) + 1
      BY <1>4, <1>5
    <3>2. k = 2 + 1
      BY <2>2, <3>1, Zenon
    <3>3. QED
      BY <3>2
  <2>4. QED
    BY <1>2, <1>5, <2>3 DEF At
<1>6. QED
  BY <1>3, <1>5

\* The plan goes on with its next step, or with what is left of it.
LEMMA GoesOn ==
    ASSUME max \in Nat \ {0}, bits \in Bitstreams, NEW p, Planned(p), Continue(p),
           p # <<>> => /\ Head(p) \notin {"begin", "end"} => session'
                       /\ Head(p) = "idcode" => tap' = "RESET" /\ ir' = "IDCODE"
    PROVE  TapInv'
<1>1. /\ plan' = p /\ max' = max /\ bits' = bits
      /\ p = <<>> => todo' = <<>>
      /\ p # <<>> => todo' = Requests(Head(p))
  BY DEF Continue
<1>2. ASSUME NEW s \in Steps, plan' # <<>>, Head(plan') = s
      PROVE  AtStep(s)'
  <2>1. todo' = Requests(s) /\ Requests(s)' = Requests(s)
    BY <1>1, <1>2, SameRequests
  <2>2. /\ s \notin {"begin", "end"} => session'
        /\ s = "idcode" => tap' = "RESET" /\ ir' = "IDCODE"
    BY <1>1, <1>2
  <2>3. QED
    BY <2>1, <2>2, Starts
<1>3. Planned(plan')
  BY <1>1
<1>4. Planned(plan)'
  BY <1>3 DEF Planned
<1>5. QED
  BY <1>1, <1>2, <1>4 DEF TapInv

\* A call begins with its first step.
LEMMA CallBegins ==
    ASSUME TapInv, NEW c, NEW p, Planned(p), p # <<>>, Head(p) = "begin", Call(c, p),
           max' \in Nat \ {0}, bits' \in Bitstreams
    PROVE  TapInv'
<1>1. plan' = p /\ todo' = Requests("begin")
  BY DEF Call
<1>2. Requests("begin") = <<Begin, Go("RESET")>> /\ Requests("begin")' = <<Begin, Go("RESET")>>
  BY DEF Requests
<1>3. AtStep("begin")'
  <2>1. "begin" \in Steps
    BY DEF Steps
  <2>2. max \in Nat \ {0} /\ bits \in Bitstreams
    BY DEF TapInv
  <2>3. QED
    BY <1>1, <1>2, <2>1, <2>2, Starts
<1>4. Planned(plan)'
  BY <1>1 DEF Planned
<1>5. QED
  BY <1>1, <1>3, <1>4 DEF TapInv

\* The buffer that is assumed is never empty.
LEMMA MaxBytesIs ==
    ASSUME NEW r \in Reported
    PROVE  MaxBytes(r) \in Nat \ {0}
<1> DEFINE n == IF r = 0 THEN DefaultMax ELSE r
<1>1. LeastMax \in Nat \ {0} /\ n \in Nat
  BY JtagAssumption
<1> HIDE DEF n
<1>2. Max({LeastMax, n}) = IF LeastMax >= n THEN LeastMax ELSE n
  BY <1>1, GreaterOfTwo
<1>3. Max({LeastMax, n}) \in Nat \ {0}
  BY <1>1, <1>2
<1>4. QED
  BY <1>3 DEF MaxBytes, n

\* No call is at hand at the start.
LEMMA TapInitially == Init => TapInv
<1> SUFFICES ASSUME Init
             PROVE  TapInv
  OBVIOUS
<1>1. max \in Nat \ {0} /\ bits \in Bitstreams
  BY MaxBytesIs DEF Init
<1>2. plan = <<>> /\ todo = <<>>
  BY DEF Init
<1>3. Planned(plan)
  <2>1. <<>> \in Seq(Steps) /\ Len(<<>>) = 0
    OBVIOUS
  <2>2. QED
    BY <1>2, <2>1 DEF Planned
<1>4. QED
  BY <1>1, <1>2, <1>3 DEF TapInv

\* What TapInv looks at.
LEMMA TapUnchanged ==
    TapInv /\ UNCHANGED <<plan, todo, bits, max, session, tap, ir, out, shifted>> => TapInv'
<1> SUFFICES ASSUME TapInv, UNCHANGED <<plan, todo, bits, max, session, tap, ir, out, shifted>>
             PROVE  TapInv'
  OBVIOUS
<1>1. \A s : Requests(s)' = Requests(s)
  BY SameRequests
<1>2. ASSUME NEW s \in Steps, plan' # <<>>, Head(plan') = s
      PROVE  AtStep(s)'
  <2>1. PICK k \in 1..Len(Requests(s)) + 1 : todo = Onward(Requests(s), k) /\ At(s, k)
    BY <1>2 DEF TapInv, AtStep
  <2>2. At(s, k)'
    BY <1>1, <2>1 DEF At, ScansFrom
  <2>3. QED
    BY <1>1, <2>1, <2>2 DEF AtStep
<1>3. Planned(plan)'
  BY DEF TapInv, Planned
<1>4. QED
  BY <1>2, <1>3 DEF TapInv

\* Every step of the program, the debugger and the FPGA keeps to it.
LEMMA TapInductive == TapInv /\ [Next]_vars => TapInv'
<1> SUFFICES ASSUME TapInv, [Next]_vars
             PROVE  TapInv'
  OBVIOUS
<1>1. /\ max \in Nat \ {0} /\ bits \in Bitstreams
      /\ Planned(plan)
      /\ plan = <<>> => todo = <<>>
  BY DEF TapInv
<1>2. ASSUME NEW b \in Bitstreams, NEW r \in Reported, Configure(b, r)
      PROVE  TapInv'
  <2>1. max' \in Nat \ {0} /\ bits' \in Bitstreams
    BY <1>2, MaxBytesIs DEF Configure
  <2>2. Call("configure", ConfigureSram)
    BY <1>2 DEF Configure
  <2>3. QED
    BY <2>1, <2>2, CallBegins, PlanOf
<1>3. CASE Idcode
  <2>1. max' \in Nat \ {0} /\ bits' \in Bitstreams
    BY <1>1, <1>3 DEF Idcode
  <2>2. Call("idcode", ReadIdcode)
    BY <1>3 DEF Idcode
  <2>3. QED
    BY <2>1, <2>2, CallBegins, PlanOf
<1>4. CASE Registers
  <2>1. max' \in Nat \ {0} /\ bits' \in Bitstreams
    BY <1>1, <1>4 DEF Registers
  <2>2. PICK n \in 0..2 : Call("registers", WithRegisters(n))
    BY <1>4 DEF Registers
  <2>3. QED
    BY <2>1, <2>2, CallBegins, PlanOfRegisters
<1>5. CASE Reconfigure
  <2>1. call = "idle" /\ UNCHANGED <<plan, todo, bits, max, session, tap, ir, out, shifted>>
    BY <1>5 DEF Reconfigure, debugger
  <2>2. QED
    BY <2>1, TapUnchanged
<1>6. CASE Request
  <2>1. /\ todo # <<>> /\ plan # <<>> /\ CarriedOut(Head(todo)) /\ todo' = Tail(todo)
        /\ UNCHANGED <<plan, max, bits>>
    BY <1>1, <1>6 DEF Request, program
  <2>2. ASSUME NEW s \in Steps, plan' # <<>>, Head(plan') = s
        PROVE  AtStep(s)'
    BY <2>1, <2>2, Advances
  <2>3. Planned(plan)'
    BY <1>1, <2>1 DEF Planned
  <2>4. QED
    BY <1>1, <2>1, <2>2, <2>3 DEF TapInv
<1>7. CASE RequestFails
  <2>1. todo # <<>> /\ plan # <<>>
    BY <1>1, <1>7 DEF RequestFails
  <2>2. CASE Head(plan) \in Ignored
    <3>1. Continue(Tail(plan))
      BY <1>7, <2>2 DEF RequestFails, Ignored, Guarded
    <3>2. Head(plan) \in {"wait", "final", "end"}
      BY <2>2 DEF Ignored
    <3>3. /\ Planned(Tail(plan))
          /\ Tail(plan) # <<>> => Head(plan) # "end" /\ Head(Tail(plan)) # "idcode"
      BY <1>1, <2>1, <3>2, PlanGoesOn
    <3>4. ASSUME Head(plan) # "end"
          PROVE  session'
      <4>1. max' = max /\ bits' = bits
        BY <3>1 DEF Continue
      <4>2. session /\ Head(plan) \notin {"begin", "end"}
        BY <2>1, <3>2, <3>4, InSession
      <4>3. CASE CarriedOut(Head(todo))
        <5>1. PICK s : s = Head(plan)
          OBVIOUS
        <5>2. QED
          BY <2>1, <4>1, <4>2, <4>3, <5>1, Advances
      <4>4. CASE UNCHANGED <<debugger, fpga>>
        BY <4>2, <4>4 DEF debugger
      <4>5. QED
        BY <1>7, <4>3, <4>4 DEF RequestFails
    <3>5. QED
      BY <1>1, <3>1, <3>3, <3>4, GoesOn
  <2>3. CASE Head(plan) \notin Ignored /\ Guarded
    <3>1. Continue(GiveUp)
      BY <1>7, <2>3 DEF RequestFails
    <3>2. QED
      BY <1>1, <3>1, GoesOn, PlanOf
  <2>4. CASE Head(plan) \notin Ignored /\ ~Guarded
    <3>1. Return("error")
      BY <1>7, <2>4 DEF RequestFails
    <3>2. plan' = <<>> /\ todo' = <<>> /\ max' = max /\ bits' = bits
      BY <3>1 DEF Return
    <3>3. Planned(plan)'
      <4>1. <<>> \in Seq(Steps) /\ Len(<<>>) = 0
        OBVIOUS
      <4>2. QED
        BY <3>2, <4>1 DEF Planned
    <3>4. QED
      BY <1>1, <3>2, <3>3 DEF TapInv
  <2>5. QED
    BY <2>2, <2>3, <2>4
<1>8. CASE Waited
  <2>1. todo = <<>> /\ plan # <<>> /\ Head(plan) = "wait" /\ UNCHANGED <<debugger, fpga>>
    BY <1>8 DEF Waited, Over
  <2>2. session' /\ UNCHANGED <<tap, ir>>
    BY <2>1, InSession DEF debugger, fpga
  <2>3. CASE MoreLooks
    <3>1. todo' = Requests("wait") /\ UNCHANGED <<plan, max, bits>>
      BY <1>8, <2>3 DEF Waited
    <3>2. ASSUME NEW s \in Steps, plan' # <<>>, Head(plan') = s
          PROVE  AtStep(s)'
      <4>1. s = "wait" /\ Requests(s)' = Requests(s)
        BY <2>1, <3>1, <3>2, SameRequests
      <4>2. QED
        BY <1>1, <2>2, <3>1, <4>1, Starts
    <3>3. Planned(plan)'
      BY <1>1, <3>1 DEF Planned
    <3>4. plan' # <<>>
      BY <2>1, <3>1
    <3>5. QED
      BY <1>1, <3>1, <3>2, <3>3, <3>4 DEF TapInv
  <2>4. CASE ~MoreLooks
    <3>1. Continue(Tail(plan))
      BY <1>8, <2>4 DEF Waited
    <3>2. QED
      BY <1>1, <2>1, <2>2, <3>1, GoesOn, PlanGoesOn
  <2>5. QED
    BY <2>3, <2>4
<1>9. ASSUME todo = <<>>, plan # <<>>, UNCHANGED <<debugger, fpga>>, Continue(Tail(plan))
      PROVE  TapInv'
  <2>1. /\ Planned(Tail(plan))
        /\ Tail(plan) # <<>> => /\ Head(plan) # "end"
                                /\ Head(Tail(plan)) = "idcode" => Head(plan) = "begin"
    BY <1>1, <1>9, PlanGoesOn
  <2>2. Head(plan) # "end" => session
    BY <1>9, InSession
  <2>3. Head(plan) = "begin" => tap = "RESET" /\ ir = "IDCODE"
    BY <1>9, InSession
  <2>4. UNCHANGED <<session, tap, ir>>
    BY <1>9 DEF debugger, fpga
  <2>5. QED
    BY <1>1, <1>9, <2>1, <2>2, <2>3, <2>4, GoesOn
<1>10. CASE Identified
  <2>1. todo = <<>> /\ plan # <<>> /\ UNCHANGED <<debugger, fpga>>
    BY <1>10 DEF Identified, Over
  <2>2. Continue(Tail(plan)) \/ Continue(GiveUp)
    BY <1>10 DEF Identified
  <2>3. CASE Continue(GiveUp)
    BY <1>1, <2>3, GoesOn, PlanOf
  <2>4. QED
    BY <1>9, <2>1, <2>2, <2>3
<1>11. CASE StatusRead
  <2>1. /\ todo = <<>> /\ plan # <<>> /\ UNCHANGED <<debugger, fpga>>
        /\ Continue(Tail(plan))
    BY <1>11 DEF StatusRead, Over
  <2>2. QED
    BY <1>9, <2>1
<1>12. CASE StepOver
  <2>1. /\ todo = <<>> /\ plan # <<>> /\ UNCHANGED <<debugger, fpga>>
        /\ Continue(Tail(plan))
    BY <1>12 DEF StepOver, Over
  <2>2. QED
    BY <1>9, <2>1
<1>13. CASE Finish
  <2>1. UNCHANGED <<debugger, fpga, bits, max>> /\ plan = <<>> /\ plan' = <<>> /\ todo' = <<>>
    BY <1>13 DEF Finish, Return
  <2>2. todo = <<>>
    BY <1>1, <2>1
  <2>3. UNCHANGED <<plan, todo, bits, max, session, tap, ir, out, shifted>>
    BY <2>1, <2>2 DEF debugger, fpga
  <2>4. QED
    BY <2>3, TapUnchanged
<1>14. CASE Ready
  <2>1. UNCHANGED <<plan, todo, bits, max, session, tap, ir, out, shifted>>
    BY <1>14 DEF Ready, program, debugger
  <2>2. QED
    BY <2>1, TapUnchanged
<1>15. CASE UNCHANGED vars
  <2>1. UNCHANGED <<plan, todo, bits, max, session, tap, ir, out, shifted>>
    BY <1>15 DEF vars, program, debugger, fpga
  <2>2. QED
    BY <2>1, TapUnchanged
<1>16. QED
  BY <1>2, <1>3, <1>4, <1>5, <1>6, <1>7, <1>8, <1>10, <1>11, <1>12, <1>13, <1>14, <1>15 DEF Next

\* A step of the program once Apollo is opened is one of Jtag's, and no other
\* changes what Jtag knows.
LEMMA StepOfJtag == FlashSpec => Init /\ [][Next]_vars
<1>1. FlashInit => Init
  BY DEF FlashInit
<1>2. [FlashNext]_flashVars => [Next]_vars
  <2> SUFFICES ASSUME FlashNext \/ UNCHANGED flashVars
               PROVE  Next \/ UNCHANGED vars
    OBVIOUS
  <2>1. CASE UNCHANGED flashVars
    BY <2>1 DEF flashVars
  <2>2. ASSUME NEW b \in Boards, Unplug(b) \/ PlugIn(b) \/ ReEnumerate(b) \/ Permit(b)
        PROVE  UNCHANGED vars
    BY <2>2 DEF Unplug, PlugIn, ReEnumerate, Permit
  <2>3. CASE Find \/ Look \/ FindStub \/ HandOff \/ Try \/ Claim \/ ClaimFails \/ Errors
    BY <2>3 DEF Find, Look, FindStub, HandOff, Try, Claim, ClaimFails, Errors, Missed, Fails, Proceed
  <2>4. CASE at = "opened" /\ Next /\ UNCHANGED <<bus, opening>>
    BY <2>4
  <2>5. QED
    BY <2>1, <2>2, <2>3, <2>4 DEF FlashNext
<1>3. QED
  BY <1>1, <1>2, PTL DEF FlashSpec

\* TapInv is an invariant of the program, and gives the registers.
LEMMA TapInvariance == FlashSpec => []TapInv
<1>1. QED
  BY StepOfJtag, TapInitially, TapInductive, PTL

LEMMA TapGivesRegisters == TapInv => ScansReachTheirRegister
<1> SUFFICES ASSUME TapInv, todo # <<>>, Head(todo).op = "scan"
             PROVE  /\ session
                    /\ IF Head(todo).reg = "IR" THEN tap = "IRSHIFT"
                       ELSE tap = "DRSHIFT" /\ ir = Head(todo).reg
  BY DEF ScansReachTheirRegister
<1> DEFINE s == Head(plan)
           r == Requests(s)
<1>1. plan # <<>>
  BY DEF TapInv
<1>2. s \in Steps /\ IsList(r)
  BY <1>1, PlanGoesOn, RequestsAreList DEF TapInv
<1>3. PICK k \in 1..Len(r) + 1 : todo = Onward(r, k) /\ At(s, k)
  BY <1>1, <1>2 DEF TapInv, AtStep
<1>4. k \in 1..Len(r) /\ Head(todo) = r[k] /\ r[k].op = "scan"
  <2>1. k \in 1..Len(r) /\ Head(todo) = r[k]
    <3> HIDE DEF r
    <3>1. QED
      BY <1>2, <1>3, Place
  <2>2. QED
    BY <2>1
<1>5. CASE s \in {"begin", "idle", "end"}
  <2>1. /\ r = <<Begin, Go("RESET")>> \/ r = <<Go("IDLE"), Clock>> \/ r = <<End>>
    BY <1>5, OtherRequests DEF RunTest
  <2>2. r[k] \in {Begin, Go("RESET"), Go("IDLE"), Clock, End}
    BY <1>4, <2>1
  <2>3. QED
    BY <1>4, <2>2 DEF Begin, Go, Clock, End
<1>6. CASE s = "idcode"
  <2>1. r = <<Go("DRSHIFT"), ClearOut, Scan(32, FALSE, "IDCODE"), GetIn>>
    BY <1>6, OtherRequests
  <2> HIDE DEF r
  <2>2. /\ Len(r) = 4 /\ r[1] = Go("DRSHIFT") /\ r[2] = ClearOut
        /\ r[3] = Scan(32, FALSE, "IDCODE") /\ r[4] = GetIn
    BY <2>1
  <2>3. k \in {1, 2, 3, 4}
    BY <1>4, <2>2
  <2>4. k = 3 /\ r[k].reg = "IDCODE"
    BY <1>4, <2>2, <2>3 DEF Go, ClearOut, Scan, GetIn
  <2>5. QED
    BY <1>3, <1>4, <1>6, <2>4 DEF At
<1>7. CASE s \in Instructs
  <2> DEFINE op == OpOf(s)
  <2>1. /\ Len(r) \in Nat
        /\ r[1] = Go("IRSHIFT") /\ r[2] = SetOut(<<op>>) /\ r[3] = Scan(8, TRUE, "IR")
        /\ r[4] = Go("IRPAUSE")
        /\ \A i \in 5..Len(r) : r[i].op = "scan" => i > 5 /\ r[i].reg = op
    <3>1. Command(op, r)
      BY <1>7, Commands DEF TapInv
    <3> HIDE DEF r, op
    <3>2. /\ Len(r) \in Nat
          /\ r[1] = Go("IRSHIFT") /\ r[2] = SetOut(<<op>>) /\ r[3] = Scan(8, TRUE, "IR")
          /\ r[4] = Go("IRPAUSE")
          /\ \A i \in 5..Len(r) :
               /\ r[i].op \notin {"start", "stop"}
               /\ r[i].op = "scan" => /\ i > 5 /\ r[5] = Go("DRSHIFT") /\ r[i].reg = op
                                      /\ \A j \in 6..i - 1 : Stays(r[j])
      BY <3>1, CommandIs
    <3>3. QED
      BY <3>2
  <2>2. op # "IR"
    BY <1>7 DEF OpOf, Instructs
  <2>3. session
    BY <1>3, <1>7 DEF At, Instructs
  <2>4. k = 3 \/ k >= 6
    <3>1. k \in {1, 2, 3, 4} \/ k = 5 \/ k >= 6
      BY <2>1, <1>4
    <3>2. k \notin {1, 2, 4}
      BY <1>4, <2>1 DEF Go, SetOut
    <3>3. k # 5
      BY <1>4, <2>1
    <3>4. QED
      BY <3>1, <3>2, <3>3
  <2>5. CASE k = 3
    <3>1. tap = "IRSHIFT" /\ r[k].reg = "IR"
      BY <1>3, <1>7, <2>1, <2>5 DEF At, Scan
    <3>2. QED
      BY <1>4, <2>3, <3>1
  <2>6. CASE k >= 6
    <3>1. ScansFrom(s, k)
      BY <1>4, <2>1 DEF ScansFrom
    <3>2. tap = "DRSHIFT" /\ ir = op
      BY <1>3, <1>7, <2>6, <3>1 DEF At
    <3>3. r[k].reg = op
      BY <1>4, <2>1, <2>6
    <3>4. QED
      BY <1>4, <2>2, <2>3, <3>2, <3>3
  <2>7. QED
    BY <2>4, <2>5, <2>6
<1>8. QED
  BY <1>2, <1>5, <1>6, <1>7 DEF Steps

\* Every scan of every call goes into the register it is meant for, for every
\* bitstream and size of the debugger's buffer, whichever requests fail.
THEOREM ScansWhereMeant == FlashSpec => []ScansReachTheirRegister
<1>1. QED
  BY TapInvariance, TapGivesRegisters, PTL

-----------------------------------------------------------------------------
(* What the FPGA is sent.                                                  *)

\* The chunks of a bitstream, and what of it the first m of them hold.
Chunks  == Ceil(Len(bits), max)
Upto(m) == Min({m * max, Len(bits)})
Sent(m) == Bits(SubSeq(Wire, 1, Upto(m)))

\* As many chunks as it takes, and no more.
LEMMA Division ==
    ASSUME NEW n \in Nat, n > 0, NEW d \in Nat \ {0}
    PROVE  /\ Ceil(n, d) \in Nat /\ Ceil(n, d) > 0
           /\ (Ceil(n, d) - 1) * d < n /\ n <= Ceil(n, d) * d
<1> DEFINE c == Ceil(n, d)
<1>1. c = (n + d - 1) \div d
  BY DEF Ceil
<1>2. c \in Int /\ d * c <= n + d - 1 /\ n + d - 1 < d * c + d
  <2>1. n + d - 1 \in Int
    OBVIOUS
  <2> DEFINE x == n + d - 1
             r == x % d
  <2>2. c \in Int /\ x = d * c + r /\ r \in 0..d - 1
    <3>1. c = x \div d
      BY <1>1
    <3>2. x \in Int
      OBVIOUS
    <3> HIDE DEF x, c
    <3>3. QED
      BY <3>1, <3>2
  <2> HIDE DEF c, r
  <2>3. QED
    BY <2>2
<1> HIDE DEF c
<1>3. c > 0
  <2>1. c <= 0 => d * c <= 0
    BY <1>2
  <2>2. QED
    BY <1>2, <2>1
<1>4. (c - 1) * d = d * c - d /\ c * d = d * c
  BY <1>2
<1>5. QED
  BY <1>2, <1>3, <1>4 DEF c

\* A chunk begins where those before it end, within the bitstream.
LEMMA ChunkStarts ==
    ASSUME bits \in Bitstreams, max \in Nat \ {0}, NEW m \in 0..Chunks - 1
    PROVE  /\ m * max \in 0..Len(bits) - 1 /\ Upto(m) = m * max
           /\ Upto(m + 1) \in m * max + 1..Len(bits) /\ Upto(m + 1) - m * max <= max
           /\ Upto(m + 1) = Min({m * max + max, Len(bits)})
<1> DEFINE n == Len(bits)
           c == Chunks
           a == m * max
<1>1. n \in Nat /\ n > 0
  BY WireIs
<1>2. c \in Nat /\ c > 0 /\ (c - 1) * max < n /\ n <= c * max
  BY <1>1, Division DEF Chunks
<1>3. m \in Nat /\ m <= c - 1
  BY <1>2
<1> HIDE DEF c
<1>4. m * max <= (c - 1) * max
  <2>1. (c - 1) * max - m * max = ((c - 1) - m) * max
    BY <1>2, <1>3
  <2>2. ((c - 1) - m) * max >= 0
    BY <1>2, <1>3
  <2> DEFINE x == (c - 1) * max
             y == m * max
             z == ((c - 1) - m) * max
  <2>3. x \in Int /\ y \in Int /\ z \in Int
    BY <1>2, <1>3
  <2> HIDE DEF x, y, z
  <2>4. x - y = z /\ z >= 0
    BY <2>1, <2>2 DEF x, y, z
  <2>5. y <= x
    BY <2>3, <2>4
  <2>6. QED
    BY <2>5 DEF x, y
<1>5. a \in Nat /\ a < n /\ (m + 1) * max = a + max
  <2>1. a \in Nat /\ (m + 1) * max = a + max
    BY <1>3
  <2>2. (c - 1) * max \in Int
    BY <1>2
  <2> DEFINE x == (c - 1) * max
  <2> HIDE DEF x
  <2>3. x \in Int /\ x < n /\ a <= x
    BY <1>2, <1>4, <2>2 DEF x
  <2> HIDE DEF n, a
  <2>4. a < n
    BY <1>1, <2>1, <2>3
  <2>5. QED
    BY <2>1, <2>4 DEF a
<1> HIDE DEF a, n
<1>6. Min({a, n}) = a
  BY <1>1, <1>5, LesserOfTwo
<1>7. Min({a + max, n}) = IF a + max <= n THEN a + max ELSE n
  BY <1>1, <1>5, LesserOfTwo
<1>8. Upto(m) = a /\ Upto(m + 1) = Min({a + max, n})
  BY <1>5, <1>6 DEF Upto, n, a
<1>9. a \in 0..n - 1 /\ Upto(m + 1) \in a + 1..n /\ Upto(m + 1) - a <= max
  BY <1>1, <1>5, <1>7, <1>8
<1>10. QED
  BY <1>8, <1>9 DEF a, n

\* At first nothing is sent, at the end all of it.
LEMMA SentEnds ==
    ASSUME bits \in Bitstreams, max \in Nat \ {0}
    PROVE  /\ Chunks \in Nat /\ Chunks > 0
           /\ Sent(0) = <<>> /\ Sent(Chunks) = InOrder(bits)
<1> DEFINE n == Len(bits)
           c == Chunks
<1>1. n \in Nat /\ n > 0 /\ Wire \in Seq(Byte) /\ Len(Wire) = n
  BY WireIs
<1>2. c \in Nat /\ c > 0 /\ n <= c * max
  BY <1>1, Division DEF Chunks
<1> HIDE DEF c
<1>3. Upto(0) = 0
  <2>1. 0 * max = 0
    OBVIOUS
  <2>2. Min({0, n}) = 0
    BY <1>1, LesserOfTwo
  <2>3. QED
    BY <2>1, <2>2 DEF Upto
<1>4. Upto(c) = n
  <2> DEFINE x == c * max
  <2>1. x \in Int /\ n <= x
    BY <1>2
  <2> HIDE DEF x, n
  <2>2. Min({x, n}) = n
    BY <1>1, <2>1, LesserOfTwo
  <2>3. QED
    BY <2>2 DEF Upto, x, n
<1>5. Sent(0) = <<>>
  <2>1. SubSeq(Wire, 1, 0) = <<>>
    BY <1>1, PartEmpty
  <2>2. QED
    BY <1>3, <2>1, FlattenEmpty DEF Sent, Bits
<1>6. Sent(c) = InOrder(bits)
  <2>1. SubSeq(Wire, 1, n) = Wire
    BY <1>1, PartWhole
  <2>2. InOrder(bits) = Bits(Wire)
    BY DEF InOrder, Wire
  <2>3. QED
    BY <1>4, <2>1, <2>2 DEF Sent
<1>7. QED
  BY <1>2, <1>5, <1>6 DEF c

\* A bitstream's bytes are sequences of bits.
LEMMA WireBits ==
    ASSUME bits \in Bitstreams
    PROVE  /\ Wire \in Seq(Seq({0, 1})) /\ Len(Wire) = Len(bits)
           /\ \A i \in 1..Len(bits) : Len(Wire[i]) = ByteBits
<1>1. Wire \in Seq(Byte) /\ Len(Wire) = Len(bits)
  BY WireIs
<1>2. \A i \in 1..Len(Wire) : Wire[i] \in Byte
  BY <1>1, Elements
<1>3. \A i \in 1..Len(Wire) : Wire[i] \in Seq({0, 1}) /\ Len(Wire[i]) = ByteBits
  BY <1>2, ByteIs
<1>4. Wire \in Seq(Seq({0, 1}))
  BY <1>1, <1>3, SeqOfElements
<1>5. QED
  BY <1>1, <1>3, <1>4

\* Only bits are sent.
LEMMA SentIs ==
    ASSUME bits \in Bitstreams, max \in Nat \ {0}, NEW m \in 0..Chunks
    PROVE  Upto(m) \in 0..Len(bits) /\ Sent(m) \in Seq({0, 1})
<1> DEFINE n == Len(bits)
<1>1. n \in Nat /\ m * max \in Nat
  <2>1. Chunks \in Nat
    BY SentEnds
  <2>2. QED
    BY <2>1, WireIs
<1> HIDE DEF n
<1>2. Upto(m) \in 0..n
  <2> DEFINE x == m * max
  <2>1. x \in Nat
    BY <1>1
  <2> HIDE DEF x
  <2>2. Min({x, n}) = IF x <= n THEN x ELSE n
    BY <1>1, <2>1, LesserOfTwo
  <2>3. QED
    BY <1>1, <2>1, <2>2 DEF Upto, x, n
<1>3. SubSeq(Wire, 1, Upto(m)) \in Seq(Seq({0, 1}))
  <2>1. Wire \in Seq(Seq({0, 1})) /\ Len(Wire) = n
    BY WireBits DEF n
  <2>2. 1 \in 1..Len(Wire) + 1 /\ Upto(m) \in 1 - 1..Len(Wire)
    BY <1>1, <1>2, <2>1
  <2>3. QED
    BY <2>1, <2>2, PartIs
<1>4. QED
  BY <1>2, <1>3, FlattenType DEF Sent, Bits, n

\* The bits of the next chunk follow those that were sent, and the scan is of
\* all of them if its length is no more than the protocol can say.
LEMMA NextChunk ==
    ASSUME bits \in Bitstreams, max \in Nat \ {0}, max * ByteBits < ScanLimit,
           NEW m \in 0..Chunks - 1
    PROVE  LET next == Bits(Bytes(Wire, m + 1))
               scan == ChunkBits(Wire, Len(bits) * ByteBits, m + 1) % ScanLimit
           IN  /\ next \in Seq({0, 1})
               /\ Sent(m) \o next = Sent(m + 1)
               /\ SubSeq(next, 1, Min({scan, Len(next)})) = next
<1> DEFINE n == Len(bits)
           a == m * max
           c == Upto(m + 1)
           part == Bytes(Wire, m + 1)
           next == Bits(part)
           w == c - a
<1>1. /\ a \in 0..n - 1 /\ Upto(m) = a /\ c \in a + 1..n /\ c - a <= max
      /\ c = Min({a + max, n})
  BY ChunkStarts
<1>2. n \in Nat /\ n > 0 /\ ByteBits \in Nat /\ ScanLimit \in Nat \ {0}
  BY WireIs, JtagAssumption
<1>3. /\ Wire \in Seq(Seq({0, 1})) /\ Len(Wire) = n
      /\ \A i \in 1..n : Len(Wire[i]) = ByteBits
  BY WireBits
<1>4. part = SubSeq(Wire, a + 1, c) /\ Start(m + 1) = a
  <2>1. (m + 1) - 1 = m
    OBVIOUS
  <2>2. Start(m + 1) = a
    BY <2>1 DEF Start
  <2>3. QED
    BY <1>1, <1>3, <2>2 DEF Bytes
<1> HIDE DEF n, a, c, part
<1>5. w \in Nat /\ w > 0 /\ w <= max /\ w <= n - a /\ a \in Nat /\ c \in Nat
  BY <1>1, <1>2
<1>6. /\ part \in Seq(Seq({0, 1})) /\ Len(part) = w
      /\ \A j \in 1..w : part[j] = Wire[(a + 1) + j - 1]
  <2>1. a + 1 \in 1..Len(Wire) + 1 /\ c \in (a + 1) - 1..Len(Wire) /\ c - (a + 1) + 1 = w
    BY <1>1, <1>2, <1>3, <1>5
  <2> DEFINE b == a + 1
  <2>2. b \in 1..Len(Wire) + 1 /\ c \in b - 1..Len(Wire) /\ c - b + 1 = w
    BY <2>1
  <2> HIDE DEF b, w
  <2>3. /\ SubSeq(Wire, b, c) \in Seq(Seq({0, 1})) /\ Len(SubSeq(Wire, b, c)) = c - b + 1
        /\ \A j \in 1..c - b + 1 : SubSeq(Wire, b, c)[j] = Wire[b + j - 1]
    BY <1>3, <2>2, PartIs
  <2>4. QED
    BY <1>4, <2>2, <2>3 DEF b
<1>7. next \in Seq({0, 1}) /\ Len(next) = w * ByteBits
  <2>1. \A j \in 1..Len(part) : Len(part[j]) = ByteBits
    <3>1. \A j \in 1..w : (a + 1) + j - 1 \in 1..n
      BY <1>1, <1>2, <1>5
    <3>2. QED
      BY <1>3, <1>6, <3>1
  <2> HIDE DEF w
  <2>2. FlattenSeq(part) \in Seq({0, 1})
    BY <1>6, FlattenType
  <2>3. Len(FlattenSeq(part)) = Len(part) * ByteBits
    BY <1>2, <1>6, <2>1, FlattenLength
  <2>4. QED
    BY <1>6, <2>2, <2>3 DEF Bits
<1>8. Sent(m) \o next = Sent(m + 1)
  <2>1. a \in 0..Len(Wire) /\ c \in a..Len(Wire)
    BY <1>1, <1>2, <1>3
  <2>2. FlattenSeq(SubSeq(Wire, 1, a)) \o FlattenSeq(SubSeq(Wire, a + 1, c))
          = FlattenSeq(SubSeq(Wire, 1, c))
    BY <1>3, <2>1, FlattenParts
  <2>3. Sent(m) = FlattenSeq(SubSeq(Wire, 1, a)) /\ Sent(m + 1) = FlattenSeq(SubSeq(Wire, 1, c))
    BY <1>1 DEF Sent, Bits, c
  <2>4. QED
    BY <1>4, <2>2, <2>3 DEF Bits
<1> DEFINE len == w * ByteBits
           scan == ChunkBits(Wire, n * ByteBits, m + 1) % ScanLimit
<1>9. scan = len
  <2> DEFINE rest == n * ByteBits - a * ByteBits
  <2>1. len \in Nat /\ rest \in Int /\ len <= rest
    <3>1. rest = (n - a) * ByteBits
      BY <1>2, <1>5
    <3>2. (n - a) * ByteBits - w * ByteBits = ((n - a) - w) * ByteBits
      BY <1>2, <1>5
    <3>3. ((n - a) - w) * ByteBits >= 0
      BY <1>2, <1>5
    <3> DEFINE x == (n - a) * ByteBits
               y == ((n - a) - w) * ByteBits
    <3>4. x \in Int /\ y \in Int /\ len \in Nat
      BY <1>2, <1>5
    <3>5. x - len = y /\ y >= 0 /\ rest = x
      BY <3>1, <3>2, <3>3
    <3> HIDE DEF x, y, len, rest
    <3>6. QED
      BY <3>4, <3>5
  <2>2. len < ScanLimit
    <3>1. max * ByteBits - w * ByteBits = (max - w) * ByteBits
      BY <1>2, <1>5
    <3>2. (max - w) * ByteBits >= 0
      BY <1>2, <1>5
    <3> DEFINE x == max * ByteBits
               y == (max - w) * ByteBits
    <3>3. x \in Int /\ y \in Int /\ x < ScanLimit /\ len \in Nat
      BY <1>2, <1>5
    <3>4. x - len = y /\ y >= 0
      BY <3>1, <3>2
    <3> HIDE DEF x, y, len
    <3>5. QED
      BY <1>2, <3>3, <3>4
  <2>3. ChunkBits(Wire, n * ByteBits, m + 1) = Min({len, rest})
    BY <1>4, <1>6 DEF ChunkBits, part
  <2> HIDE DEF len, rest
  <2>4. Min({len, rest}) = len
    BY <2>1, LesserOfTwo
  <2>5. len % ScanLimit = len
    BY <1>2, <2>1, <2>2
  <2>6. QED
    BY <2>3, <2>4, <2>5
<1>10. SubSeq(next, 1, Min({scan, Len(next)})) = next
  <2>1. Len(next) \in Int /\ scan = Len(next)
    BY <1>7, <1>9
  <2> HIDE DEF scan, next
  <2>2. Min({scan, Len(next)}) = Len(next)
    BY <2>1, LesserOfTwo
  <2>3. QED
    BY <1>7, <2>2, PartWhole
<1>11. QED
  BY <1>7, <1>8, <1>10 DEF n, part

\* What was sent begins the whole of it.
LEMMA SentBegins ==
    ASSUME bits \in Bitstreams, max \in Nat \ {0}, NEW m \in 0..Chunks
    PROVE  IsPrefix(Sent(m), InOrder(bits))
<1> DEFINE n == Len(bits)
           a == Upto(m)
           x == Sent(m)
           y == FlattenSeq(SubSeq(Wire, a + 1, n))
           z == InOrder(bits)
<1>1. a \in 0..n /\ n \in Nat /\ x \in Seq({0, 1})
  BY SentIs, WireIs
<1>2. Wire \in Seq(Seq({0, 1})) /\ Len(Wire) = n
  BY WireBits
<1>3. y \in Seq({0, 1})
  <2>1. a + 1 \in 1..Len(Wire) + 1 /\ n \in (a + 1) - 1..Len(Wire)
    BY <1>1, <1>2
  <2> HIDE DEF n, a
  <2>2. SubSeq(Wire, a + 1, n) \in Seq(Seq({0, 1}))
    BY <1>2, <2>1, PartIs
  <2>3. QED
    BY <2>2, FlattenType
<1>4. x \o y = z
  <2>1. a \in 0..Len(Wire) /\ n \in a..Len(Wire)
    BY <1>1, <1>2
  <2> HIDE DEF n, a
  <2>2. FlattenSeq(SubSeq(Wire, 1, a)) \o FlattenSeq(SubSeq(Wire, a + 1, n))
          = FlattenSeq(SubSeq(Wire, 1, n))
    BY <1>2, <2>1, FlattenParts
  <2>3. SubSeq(Wire, 1, n) = Wire
    BY <1>2, PartWhole
  <2>4. QED
    BY <2>2, <2>3 DEF Sent, Bits, InOrder, Wire, a
<1> HIDE DEF x, y, z
<1>5. /\ z \in Seq({0, 1}) /\ Len(z) = Len(x) + Len(y)
      /\ \A i \in 1..Len(x) + Len(y) : z[i] = IF i <= Len(x) THEN x[i] ELSE y[i - Len(x)]
  BY <1>1, <1>3, <1>4, Joined
<1> DEFINE l == Len(x)
<1>6. l \in Nat /\ Len(z) \in Nat /\ l <= Len(z) /\ \A i \in 1..l : z[i] = x[i]
  BY <1>1, <1>3, <1>5
<1>7. SubSeq(x, 1, l) = x
  BY <1>1, PartWhole
<1> DEFINE u == SubSeq(z, 1, l)
<1>8. u \in Seq({0, 1}) /\ Len(u) = l /\ \A i \in 1..l : u[i] = z[i]
  <2> HIDE DEF l
  <2>1. 1 \in 1..Len(z) + 1 /\ l \in 1 - 1..Len(z) /\ l - 1 + 1 = l
    BY <1>6
  <2>2. u \in Seq({0, 1}) /\ Len(u) = l - 1 + 1 /\ \A i \in 1..l - 1 + 1 : u[i] = z[1 + i - 1]
    BY <1>5, <2>1, PartIs
  <2>3. \A i \in 1..l : 1 + i - 1 = i
    OBVIOUS
  <2>4. QED
    BY <2>1, <2>2, <2>3
<1> HIDE DEF u
<1>9. u = x
  BY <1>1, <1>6, <1>8, SeqEqual
<1>10. QED
  BY <1>6, <1>7, <1>9 DEF IsPrefix, x, z, u

-----------------------------------------------------------------------------
(* The requests of the steps that load the FPGA, by place.                 *)

\* Requests behind the instruction.
LEMMA Behind ==
    ASSUME NEW op, NEW t, IsList(t)
    PROVE  /\ Len(ShiftIr(op) \o t) = Len(t) + 4
           /\ \A i \in 1..Len(t) : (ShiftIr(op) \o t)[i + 4] = t[i]
<1>1. PICK S : t \in Seq(S)
  BY DEF IsList
<1> DEFINE T == S \cup {Go("IRSHIFT"), SetOut(<<op>>), Scan(8, TRUE, "IR"), Go("IRPAUSE")}
           h == ShiftIr(op)
           n == Len(t)
<1>2. t \in Seq(T) /\ n \in Nat
  <2>1. t \in Seq(T)
    BY <1>1, SeqGrows
  <2>2. QED
    BY <1>1, <2>1
<1>3. h \in Seq(T) /\ Len(h) = 4
  BY DEF ShiftIr
<1> HIDE DEF h, T, n
<1>4. /\ Len(h \o t) = 4 + n
      /\ \A i \in 1..4 + n : (h \o t)[i] = IF i <= 4 THEN h[i] ELSE t[i - 4]
  <2>1. /\ Len(h \o t) = Len(h) + Len(t)
        /\ \A i \in 1..Len(h) + Len(t) : (h \o t)[i] = IF i <= Len(h) THEN h[i] ELSE t[i - Len(h)]
    BY <1>2, <1>3, Joined
  <2>2. QED
    BY <1>3, <2>1 DEF n
<1>5. \A i \in 1..n : i + 4 \in 1..4 + n /\ ~(i + 4 <= 4) /\ (i + 4) - 4 = i
  BY <1>2
<1>6. \A i \in 1..n : (h \o t)[i + 4] = t[i]
  BY <1>4, <1>5
<1>7. QED
  BY <1>2, <1>4, <1>6 DEF n, h

\* The burst: for each chunk its bits and their scan.
BurstOut(m)  == SetOut(Bits(Bytes(Wire, m)))
BurstScan(m) == Scan(ChunkBits(Wire, Len(bits) * ByteBits, m) % ScanLimit,
                     IsLast(Wire, m), "BURST")

\* The place of each request of the burst.
LEMMA BurstIs ==
    ASSUME bits \in Bitstreams, max \in Nat \ {0}
    PROVE  LET r == Requests("burst") IN
           /\ Len(r) = 2 * Chunks + 6
           /\ r[5] = Go("DRSHIFT") /\ r[2 * Chunks + 6] = Go("DRPAUSE")
           /\ \A m \in 0..Chunks - 1 : /\ r[2 * m + 6] = BurstOut(m + 1)
                                       /\ r[2 * m + 7] = BurstScan(m + 1)
<1> DEFINE nbits == Len(bits) * ByteBits
           t == ShiftDrWrite(Payload, nbits, "BURST")
           r == Requests("burst")
           c == Chunks
<1>1. /\ Payload \in Seq(Byte) /\ Len(Payload) = Len(bits) /\ Reverse(Payload) = Wire
      /\ Len(Wire) = Len(bits) /\ Len(bits) \in Nat /\ Len(bits) > 0
  BY WireIs
<1>2. r = ShiftIr("BURST") \o t
  <2>1. nbits > 0
    BY <1>1, JtagAssumption
  <2>2. r = CmdWrite("BURST", Payload, nbits)
    BY <1>1 DEF Requests
  <2>3. QED
    BY <2>1, <2>2 DEF CmdWrite
<1>3. IsList(t) /\ Written(Payload, nbits, "BURST", t)
  BY <1>1, WriteIs
<1>4. c \in Nat
  BY SentEnds
<1>5. /\ Len(t) = 2 * c + 2
      /\ t[1] = Go("DRSHIFT") /\ t[2 * c + 2] = Go("DRPAUSE")
      /\ \A k \in 1..c : t[2 * k] = BurstOut(k) /\ t[2 * k + 1] = BurstScan(k)
  <2>1. Ceil(Len(Reverse(Payload)), max) = c
    BY <1>1 DEF Chunks
  <2>2. \A k \in 1..c : /\ ChunkOut(Payload)[k] = BurstOut(k)
                        /\ ChunkScan(Payload, nbits, "BURST")[k] = BurstScan(k)
    BY <1>1, <2>1 DEF ChunkOut, ChunkScan, BurstOut, BurstScan
  <2>3. QED
    BY <1>3, <2>1, <2>2 DEF Written
<1> HIDE DEF t, c, r
<1> DEFINE op == "BURST"
<1> HIDE DEF op
<1>6. Len(ShiftIr(op) \o t) = Len(t) + 4 /\ \A i \in 1..Len(t) : (ShiftIr(op) \o t)[i + 4] = t[i]
  BY <1>3, Behind
<1>7. Len(r) = Len(t) + 4 /\ \A i \in 1..Len(t) : r[i + 4] = t[i]
  BY <1>2, <1>6 DEF op
<1>8. Len(r) = 2 * c + 6
  BY <1>4, <1>5, <1>7
<1>9. r[5] = Go("DRSHIFT") /\ r[2 * c + 6] = Go("DRPAUSE")
  <2>1. 1 \in 1..Len(t) /\ 1 + 4 = 5 /\ 2 * c + 2 \in 1..Len(t) /\ (2 * c + 2) + 4 = 2 * c + 6
    BY <1>4, <1>5
  <2>2. r[1 + 4] = t[1] /\ r[(2 * c + 2) + 4] = t[2 * c + 2]
    BY <1>7, <2>1
  <2>3. QED
    BY <1>5, <2>1, <2>2
<1>10. ASSUME NEW m \in 0..c - 1
       PROVE  r[2 * m + 6] = BurstOut(m + 1) /\ r[2 * m + 7] = BurstScan(m + 1)
  <2>1. /\ m + 1 \in 1..c /\ 2 * (m + 1) \in 1..Len(t) /\ 2 * (m + 1) + 4 = 2 * m + 6
        /\ 2 * (m + 1) + 1 \in 1..Len(t) /\ (2 * (m + 1) + 1) + 4 = 2 * m + 7
    BY <1>4, <1>5
  <2>2. r[2 * (m + 1) + 4] = t[2 * (m + 1)] /\ r[(2 * (m + 1) + 1) + 4] = t[2 * (m + 1) + 1]
    BY <1>7, <2>1
  <2>3. t[2 * (m + 1)] = BurstOut(m + 1) /\ t[2 * (m + 1) + 1] = BurstScan(m + 1)
    BY <1>5, <2>1
  <2>4. QED
    BY <2>1, <2>2, <2>3
<1>11. QED
  BY <1>8, <1>9, <1>10 DEF r, c

\* The reads of the status, and the writes of a byte.
LEMMA StatusIs ==
    ASSUME NEW s \in {"status", "final"}
    PROVE  LET r == Requests(s) IN
           /\ Len(r) = 9 /\ r[5].op = "go" /\ r[6].op = "set" /\ r[7].op = "scan"
           /\ r[8].op = "get" /\ r[9].op = "go"
<1> DEFINE t == <<Go("DRSHIFT"), ClearOut, Scan(32, FALSE, "READ_STATUS"), GetIn, Go("DRPAUSE")>>
           op == "READ_STATUS"
           r == Requests(s)
<1>1. r = ShiftIr(op) \o t
  BY DEF Requests, CmdRead, ShiftDrRead
<1>2. IsList(t)
  BY ReadFollows
<1>3. /\ Len(t) = 5 /\ t[1].op = "go" /\ t[2].op = "set" /\ t[3].op = "scan"
      /\ t[4].op = "get" /\ t[5].op = "go"
  BY DEF Go, ClearOut, Scan, GetIn
<1> HIDE DEF t, op
<1>4. Len(ShiftIr(op) \o t) = Len(t) + 4 /\ \A i \in 1..Len(t) : (ShiftIr(op) \o t)[i + 4] = t[i]
  BY <1>2, Behind
<1> HIDE DEF r
<1>5. Len(r) = 9 /\ \A i \in 1..5 : r[i + 4] = t[i]
  BY <1>1, <1>3, <1>4
<1>6. r[1 + 4] = t[1] /\ r[2 + 4] = t[2] /\ r[3 + 4] = t[3] /\ r[4 + 4] = t[4] /\ r[5 + 4] = t[5]
  BY <1>5
<1>7. 1 + 4 = 5 /\ 2 + 4 = 6 /\ 3 + 4 = 7 /\ 4 + 4 = 8 /\ 5 + 4 = 9
  OBVIOUS
<1>8. QED
  BY <1>3, <1>5, <1>6, <1>7 DEF r

\* ENABLE and ERASE take effect by way of DRSHIFT, for their byte.
LEMMA ByteWriteIs ==
    ASSUME max \in Nat \ {0}, NEW s \in {"enable", "erase"}
    PROVE  Len(Requests(s)) >= 5 /\ Requests(s)[5].op = "go" /\ Requests(s)[5].to = "DRSHIFT"
<1> DEFINE op == OpOf(s)
           t == ShiftDrWrite(OneByte, ByteBits, op)
           r == Requests(s)
<1>1. OneByte \in Seq({OneByte[1]}) /\ ByteBits > 0
  BY JtagAssumption DEF OneByte
<1>2. IsList(t) /\ Follows(op, t) /\ Len(t) >= 1 /\ t[1] = Go("DRSHIFT")
  <2>1. IsList(t) /\ Written(OneByte, ByteBits, op, t) /\ Ceil(Len(Reverse(OneByte)), max) \in Nat
    BY <1>1, WriteIs
  <2>2. Follows(op, t)
    BY <1>1, WriteFollows
  <2>3. QED
    BY <2>1, <2>2 DEF Written
<1>3. r = ShiftIr(op) \o t \/ r = (ShiftIr(op) \o t) \o RunTest
  BY <1>1 DEF Requests, CmdWrite, OpOf
<1> HIDE DEF t, op, r
<1>4. \E u : IsList(u) /\ Len(u) >= 1 /\ Len(u) \in Nat /\ u[1] = Go("DRSHIFT") /\ r = ShiftIr(op) \o u
  <2>1. CASE r = ShiftIr(op) \o t
    <3>1. Len(t) \in Nat
      BY <1>2 DEF IsList
    <3>2. QED
      BY <1>2, <2>1, <3>1
  <2>2. CASE r = (ShiftIr(op) \o t) \o RunTest
    <3> DEFINE u == t \o RunTest
    <3>1. IsList(u) /\ r = ShiftIr(op) \o u
      BY <1>2, <2>2, ThenRunTest
    <3>2. Len(u) >= 1 /\ Len(u) \in Nat /\ u[1] = t[1]
      <4>1. PICK S : t \in Seq(S)
        BY <1>2 DEF IsList
      <4>2. t \in Seq(S \cup {Go("IDLE"), Clock})
        BY <4>1, SeqGrows
      <4>3. RunTest \in Seq(S \cup {Go("IDLE"), Clock}) /\ Len(RunTest) = 2
        BY DEF RunTest
      <4> DEFINE q == RunTest
                 T == S \cup {Go("IDLE"), Clock}
      <4>4. q \in Seq(T) /\ Len(q) \in Nat /\ t \in Seq(T) /\ Len(t) \in Nat
        BY <4>2, <4>3
      <4> HIDE DEF q, T
      <4>5. /\ Len(t \o q) = Len(t) + Len(q)
            /\ \A i \in 1..Len(t) + Len(q) : (t \o q)[i] = IF i <= Len(t) THEN t[i] ELSE q[i - Len(t)]
        BY <4>4, Joined
      <4>6. 1 \in 1..Len(t) + Len(q) /\ 1 <= Len(t)
        BY <1>2, <4>4
      <4>7. QED
        BY <4>4, <4>5, <4>6 DEF q
    <3>3. QED
      BY <1>2, <3>1, <3>2
  <2>3. QED
    BY <1>3, <2>1, <2>2
<1>5. PICK u : IsList(u) /\ Len(u) >= 1 /\ Len(u) \in Nat /\ u[1] = Go("DRSHIFT") /\ r = ShiftIr(op) \o u
  BY <1>4
<1>6. Len(r) = Len(u) + 4 /\ \A i \in 1..Len(u) : r[i + 4] = u[i]
  BY <1>5, Behind
<1>7. Len(r) >= 5 /\ r[5] = Go("DRSHIFT")
  <2>1. 1 \in 1..Len(u) /\ 1 + 4 = 5
    BY <1>5
  <2>2. r[1 + 4] = u[1]
    BY <1>6, <2>1
  <2>3. QED
    BY <1>5, <1>6, <2>1, <2>2
<1>8. QED
  BY <1>7 DEF r, Go

-----------------------------------------------------------------------------
(* What the FPGA makes of the instructions.                                *)

\* The FPGA is busy only without a design; no instruction brings one, and from
\* the burst on none takes it away.
Unloaded == ~Done
FpgaInv  == sram \in Seq(0..3) /\ (busy => Unloaded)
Late     == {"BURST", "NO_OP", "READ_STATUS", "DISABLE", "none"}

\* Nothing loaded, and nothing changed.
LEMMA NoDesign == sram = <<>> => Unloaded
  BY DEF Unloaded, Done

LEMMA SameDesign ==
    ASSUME sram' = sram
    PROVE  Unloaded' <=> Unloaded
  BY DEF Unloaded, Done

\* Each instruction, from what the FPGA holds to what it holds then.
LEMMA ActsOn ==
    ASSUME FpgaInv, NEW op, Acts(op)
    PROVE  /\ FpgaInv'
           /\ Unloaded => Unloaded'
           /\ op = "ENABLE" => enabled' \/ Unloaded'
           /\ op \in {"ENABLE", "ERASE", "none"} /\ (enabled \/ Unloaded) => enabled' \/ Unloaded'
           /\ op = "ERASE" /\ (enabled \/ Unloaded) => Unloaded'
           /\ op \in Late => sram' = sram
           /\ op \in Late \ {"DISABLE"} => enabled' = enabled
<1>0. <<>> \in Seq(0..3)
  OBVIOUS
<1>1. CASE ~busy /\ op = "REFRESH"
  <2>1. sram' = <<>> /\ enabled' = FALSE /\ busy' \in BOOLEAN
    BY <1>1 DEF Acts
  <2>2. Unloaded'
    BY <2>1 DEF Unloaded, Done
  <2>3. QED
    BY <1>0, <1>1, <2>1, <2>2 DEF FpgaInv, Late
<1>2. CASE ~busy /\ op = "ENABLE"
  <2>1. enabled' = TRUE /\ UNCHANGED <<sram, busy>>
    BY <1>2 DEF Acts
  <2>2. Unloaded' <=> Unloaded
    BY <2>1, SameDesign
  <2>3. QED
    BY <1>2, <2>1, <2>2 DEF FpgaInv, Late
<1>3. CASE ~busy /\ op = "ERASE" /\ enabled
  <2>1. sram' = <<>> /\ busy' \in BOOLEAN /\ UNCHANGED enabled
    BY <1>3 DEF Acts
  <2>2. Unloaded'
    BY <2>1 DEF Unloaded, Done
  <2>3. QED
    BY <1>0, <1>3, <2>1, <2>2 DEF FpgaInv, Late
<1>4. CASE ~busy /\ op = "DISABLE"
  <2>1. enabled' = FALSE /\ UNCHANGED <<sram, busy>>
    BY <1>4 DEF Acts
  <2>2. Unloaded' <=> Unloaded
    BY <2>1, SameDesign
  <2>3. QED
    BY <1>4, <2>1, <2>2 DEF FpgaInv, Late
<1>5. CASE /\ ~(~busy /\ op = "REFRESH") /\ ~(~busy /\ op = "ENABLE")
           /\ ~(~busy /\ op = "ERASE" /\ enabled) /\ ~(~busy /\ op = "DISABLE")
  <2>1. UNCHANGED <<sram, enabled, busy>>
    BY <1>5 DEF Acts
  <2>2. Unloaded' <=> Unloaded
    BY <2>1, SameDesign
  <2>3. QED
    BY <1>5, <2>1, <2>2 DEF FpgaInv, Late
<1>6. QED
  BY <1>1, <1>2, <1>3, <1>4, <1>5

-----------------------------------------------------------------------------
(* What a load has come to.                                                *)

\* In the burst the FPGA has what the first m chunks hold, or a spoilt load, or
\* takes none of it.
Loaded(m) == \/ sram # <<>> /\ Unloaded
             \/ ~enabled /\ sram = <<>>
             \/ enabled /\ sram = Sent(m)
Bursting(k) == \E m \in 0..Chunks :
    /\ Loaded(m) /\ shifted = "BURST"
    /\ \/ k = 2 * m + 6
       \/ k = 2 * m + 7 /\ (m < Chunks => out = Bits(Bytes(Wire, m + 1)))

Enabling == (enabled \/ Unloaded) /\ shifted \in {"ENABLE", "ERASE", "none"}
Whole    == Unloaded \/ sram = InOrder(bits)

\* Before request k of step p of configure_sram: from ERASE on there is no
\* design until the burst brings one, and then it is the file's or none; and a
\* status that says done was read from it.  ERASE works because ENABLE has, or
\* was ignored for want of a design.
AtLoad(p, k) ==
    /\ found \/ p >= 16
    /\ p = 6 => k <= 5 \/ Enabling
    /\ p = 7 => (k <= 5 /\ Enabling) \/ Unloaded
    /\ p \in {8, 9, 10} => Unloaded
    /\ p = 11 => (k <= 5 /\ Unloaded /\ (k \in {4, 5} => shifted = "BURST")) \/ Bursting(k)
    /\ p \in 12..17 /\ found => Whole /\ shifted \in Late
    /\ p \in {13, 15} /\ k >= 8 => (captured.done => sram = InOrder(bits))
    /\ p \in 14..17 /\ found => (status.done => sram = InOrder(bits))

Placed(p, k) ==
    /\ plan = Onward(ConfigureSram, p)
    /\ p # 17 => /\ k \in 1..Len(Requests(ConfigureSram[p])) + 1
                 /\ todo = Onward(Requests(ConfigureSram[p]), k)

\* A load is somewhere in that plan, and no other call has the burst in its own.
LoadInv ==
    /\ FpgaInv
    /\ max * ByteBits < ScanLimit
    /\ call = "idle" => plan = <<>>
    /\ call # "configure" => NoBurst(plan)
    /\ call = "configure" => \E p \in 1..17 : \E k \in Nat : Placed(p, k) /\ AtLoad(p, k)
    /\ result = "configured" => call = "idle" /\ sram = InOrder(bits)

\* The steps of configure_sram by place.
LEMMA ConfigureIs ==
    /\ ConfigureSram \in Seq(Steps) /\ Len(ConfigureSram) = 16
    /\ ConfigureSram[1] = "begin" /\ ConfigureSram[2] = "refresh"
    /\ ConfigureSram[3] = "wait" /\ ConfigureSram[4] = "id"
    /\ ConfigureSram[5] = "magic" /\ ConfigureSram[6] = "enable"
    /\ ConfigureSram[7] = "erase" /\ ConfigureSram[8] = "wait"
    /\ ConfigureSram[9] = "idle" /\ ConfigureSram[10] = "address"
    /\ ConfigureSram[11] = "burst" /\ ConfigureSram[12] = "no_op"
    /\ ConfigureSram[13] = "status" /\ ConfigureSram[14] = "disable"
    /\ ConfigureSram[15] = "final" /\ ConfigureSram[16] = "end"
<1>1. ConfigureSram \in Seq(Steps)
  BY DEF ConfigureSram, Steps, Instructs
<1>2. QED
  BY <1>1 DEF ConfigureSram

\* The step at place p, and what is left after it.
LEMMA PlaceInPlan ==
    ASSUME NEW p \in 1..17, plan = Onward(ConfigureSram, p)
    PROVE  /\ plan = <<>> <=> p = 17
           /\ p # 17 => /\ Head(plan) = ConfigureSram[p] /\ p + 1 \in 1..17
                        /\ Tail(plan) = Onward(ConfigureSram, p + 1)
<1> DEFINE c == ConfigureSram
           n == Len(c)
<1>1. c \in Seq(Steps) /\ n = 16
  BY ConfigureIs
<1> HIDE DEF c
<1>2. CASE p = 17
  <2>1. Onward(c, n + 1) = <<>>
    BY <1>1, OnwardEnds
  <2>2. n + 1 = 17
    BY <1>1
  <2>3. QED
    BY <1>2, <2>1, <2>2 DEF c
<1>3. CASE p # 17
  <2>1. p \in 1..n /\ p + 1 \in 1..17
    BY <1>1, <1>3
  <2>2. Onward(c, p) # <<>> /\ Head(Onward(c, p)) = c[p] /\ Tail(Onward(c, p)) = Onward(c, p + 1)
    BY <1>1, <2>1, OnwardStep
  <2>3. QED
    BY <1>3, <2>1, <2>2 DEF c
<1>4. QED
  BY <1>2, <1>3

\* Its last step is the one that is left when it gives up.
LEMMA LastOfConfigure == Onward(ConfigureSram, 16) = GiveUp /\ Onward(ConfigureSram, 17) = <<>>
<1> DEFINE c == ConfigureSram
           l == Onward(c, 16)
<1>1. c \in Seq(Steps) /\ Len(c) = 16 /\ c[16] = "end"
  BY ConfigureIs
<1> HIDE DEF c
<1>2. 16 \in 1..Len(c) + 1
  BY <1>1
<1>3. /\ l \in Seq(Steps) /\ Len(l) = Len(c) - 16 + 1
      /\ \A i \in 1..Len(c) - 16 + 1 : l[i] = c[16 + i - 1]
  BY <1>1, <1>2, OnwardIs
<1> HIDE DEF l
<1>4. Len(l) = 1 /\ l[1] = "end"
  <2>1. 1 \in 1..Len(c) - 16 + 1 /\ 16 + 1 - 1 = 16 /\ Len(c) - 16 + 1 = 1
    BY <1>1
  <2>2. l[1] = c[16 + 1 - 1]
    BY <1>3, <2>1
  <2>3. QED
    BY <1>1, <1>3, <2>1, <2>2
<1>5. l = GiveUp
  <2> DEFINE g == <<"end">>
  <2>1. g \in Seq(Steps) /\ Len(g) = 1 /\ g[1] = "end"
    BY DEF Steps
  <2> HIDE DEF g
  <2>2. \A i \in 1..Len(l) : l[i] = g[i]
    BY <1>4, <2>1
  <2>3. l = g
    BY <1>3, <1>4, <2>1, <2>2, SeqEqual
  <2>4. QED
    BY <2>3 DEF GiveUp, g
<1>6. Onward(c, Len(c) + 1) = <<>>
  BY <1>1, OnwardEnds
<1>7. Len(c) + 1 = 17
  BY <1>1
<1>8. QED
  BY <1>5, <1>6, <1>7 DEF c, l

\* A step is in one place at a time.
LEMMA OnePlace ==
    ASSUME NEW r, IsList(r), NEW j \in 1..Len(r) + 1, NEW k \in 1..Len(r) + 1,
           Onward(r, j) = Onward(r, k)
    PROVE  j = k
<1>1. PICK S : r \in Seq(S)
  BY DEF IsList
<1> DEFINE n == Len(r)
<1>2. n \in Nat
  BY <1>1
<1>3. Len(Onward(r, j)) = n - j + 1 /\ Len(Onward(r, k)) = n - k + 1
  BY <1>1, OnwardIs
<1> HIDE DEF n
<1>4. n - j + 1 = n - k + 1
  BY <1>3
<1>5. j \in Nat /\ k \in Nat
  BY <1>2 DEF n
<1>6. QED
  BY <1>2, <1>4, <1>5

\* The place LoadInv gives is the one TapInv knows of.
LEMMA AtPlace ==
    ASSUME TapInv, plan # <<>>, NEW s, Head(plan) = s, NEW k \in 1..Len(Requests(s)) + 1,
           todo = Onward(Requests(s), k)
    PROVE  s \in Steps /\ IsList(Requests(s)) /\ At(s, k)
<1> DEFINE r == Requests(s)
<1>1. s \in Steps /\ IsList(r)
  BY PlanGoesOn, RequestsAreList DEF TapInv
<1>2. PICK j \in 1..Len(r) + 1 : todo = Onward(r, j) /\ At(s, j)
  BY <1>1 DEF TapInv, AtStep
<1>3. j = k
  <2> HIDE DEF r
  <2>1. k \in 1..Len(r) + 1 /\ Onward(r, j) = Onward(r, k)
    BY <1>2 DEF r
  <2>2. QED
    BY <1>1, <1>2, <2>1, OnePlace
<1>4. QED
  BY <1>1, <1>2, <1>3

\* What a request does to the FPGA, unless it sends bits of the bitstream.
Quiet(s, k) ==
    /\ Acts(shifted) \/ UNCHANGED <<sram, enabled, busy>>
    /\ shifted' \in {shifted, "none"} \/ (s \in Instructs /\ shifted' = OpOf(s))
    /\ s \in Instructs /\ k = 5 =>
         /\ shifted = OpOf(s) /\ shifted' \in {shifted, "none"}
         /\ Requests(s)[5].op = "go" /\ Requests(s)[5].to = "DRSHIFT" =>
              Acts(shifted) /\ shifted' = shifted
    /\ s \in Instructs /\ k = 3 => shifted' = OpOf(s)
    /\ s \in Instructs /\ k = 4 => shifted' = shifted
    /\ Requests(s)[k].op # "scan" => captured' = captured
    /\ captured' # captured => (captured'.done <=> ~Unloaded)
    /\ s \in {"status", "final"} /\ k > 3 /\ Requests(s)[k].op = "scan" =>
         (captured'.done <=> ~Unloaded)

\* A move of the TAP lets the instruction act, or does nothing.
LEMMA GoQuietly ==
    ASSUME NEW x, Goes(x)
    PROVE  /\ Acts(shifted) \/ UNCHANGED <<sram, enabled, busy>>
           /\ shifted' \in {shifted, "none"} /\ captured' = captured
           /\ tap = "IRPAUSE" /\ x = "DRSHIFT" => Acts(shifted)
           /\ x # "IRSHIFT" => shifted' = shifted
  BY DEF Goes, InIr

\* Every request is quiet until the burst has reached DRSHIFT.
LEMMA Quietly ==
    ASSUME TapInv, plan # <<>>, NEW s, Head(plan) = s, NEW k \in 1..Len(Requests(s)),
           todo = Onward(Requests(s), k), CarriedOut(Requests(s)[k]), s # "burst" \/ k <= 5
    PROVE  Quiet(s, k)
<1> DEFINE r == Requests(s)
           op == OpOf(s)
           q == r[k]
<1>1. s \in Steps /\ IsList(r) /\ At(s, k) /\ k \in 1..Len(r) + 1
  <2>1. k \in 1..Len(r) + 1
    OBVIOUS
  <2>2. QED
    BY <2>1, AtPlace
<1>2. todo # <<>> /\ Head(todo) = q
  <2>1. todo = <<>> <=> k = Len(r) + 1
    <3> HIDE DEF r
    <3>1. QED
      BY <1>1, Place DEF r
  <2>2. todo # <<>>
    BY <2>1
  <2>3. todo # <<>> => Head(todo) = r[k]
    <3> HIDE DEF r
    <3>1. QED
      BY <1>1, Place DEF r
  <2>4. QED
    BY <2>2, <2>3
<1>3. s \in Instructs =>
        /\ Len(r) \in Nat
        /\ r[1] = Go("IRSHIFT") /\ r[2] = SetOut(<<op>>) /\ r[3] = Scan(8, TRUE, "IR")
        /\ r[4] = Go("IRPAUSE")
        /\ \A i \in 5..Len(r) :
             /\ r[i].op \notin {"start", "stop"}
             /\ r[i].op = "scan" => /\ i > 5 /\ r[5] = Go("DRSHIFT") /\ r[i].reg = op
                                    /\ \A j \in 6..i - 1 : Stays(r[j])
  <2> SUFFICES ASSUME s \in Instructs
               PROVE  /\ Len(r) \in Nat
                      /\ r[1] = Go("IRSHIFT") /\ r[2] = SetOut(<<op>>)
                      /\ r[3] = Scan(8, TRUE, "IR") /\ r[4] = Go("IRPAUSE")
                      /\ \A i \in 5..Len(r) :
                           /\ r[i].op \notin {"start", "stop"}
                           /\ r[i].op = "scan" => /\ i > 5 /\ r[5] = Go("DRSHIFT") /\ r[i].reg = op
                                                  /\ \A j \in 6..i - 1 : Stays(r[j])
    OBVIOUS
  <2>1. Command(op, r)
    BY Commands DEF TapInv
  <2> HIDE DEF r, op
  <2>2. QED
    BY <2>1, CommandIs
<1>4. s \in Instructs =>
        /\ k = 3 => tap = "IRSHIFT" /\ out = <<op>>
        /\ k = 5 => tap = "IRPAUSE" /\ shifted = op
  BY <1>1 DEF At
<1>5. q.op = "scan" => IF q.reg = "IR" THEN tap = "IRSHIFT" ELSE tap = "DRSHIFT" /\ ir = q.reg
  BY <1>2, TapGivesRegisters DEF ScansReachTheirRegister
<1>6. CarriedOut(q)
  OBVIOUS
<1> HIDE DEF q
<1>7. CASE q.op = "go"
  <2>1. Goes(q.to)
    BY <1>6, <1>7, Carries
  <2>2. /\ Acts(shifted) \/ UNCHANGED <<sram, enabled, busy>>
        /\ shifted' \in {shifted, "none"} /\ captured' = captured
        /\ tap = "IRPAUSE" /\ q.to = "DRSHIFT" => Acts(shifted)
        /\ q.to # "IRSHIFT" => shifted' = shifted
    BY <2>1, GoQuietly
  <2>3. s \in Instructs => k # 3 /\ (k = 4 => q.to = "IRPAUSE")
    BY <1>3, <1>7 DEF q, Scan, Go
  <2>4. s \in Instructs /\ k = 5 => shifted = op /\ (r[5].to = "DRSHIFT" => Acts(shifted) /\ shifted' = shifted)
    BY <1>4, <2>2 DEF q
  <2>5. ~(r[k].op = "scan")
    BY <1>7 DEF q
  <2>6. QED
    BY <2>2, <2>3, <2>4, <2>5 DEF Quiet
<1>8. CASE q.op = "scan"
  <2>1. Scanned(q.n, q.advance)
    BY <1>6, <1>8, Carries
  <2>2. CASE s \in Instructs /\ k = 3
    <3>1. tap = "IRSHIFT" /\ out = <<op>>
      BY <1>4, <2>2
    <3>2. shifted' = out[1] /\ UNCHANGED <<captured, fpga>>
      BY <2>1, <3>1 DEF Scanned, ScannedIr, ScannedDr
    <3>3. shifted' = op /\ captured' = captured /\ UNCHANGED <<sram, enabled, busy>>
      BY <3>1, <3>2 DEF fpga
    <3>4. QED
      BY <2>2, <3>3 DEF Quiet
  <2>3. CASE ~(s \in Instructs /\ k = 3)
    <3>1. q.reg # "IR" /\ q.reg # "BURST" /\ (s \in {"status", "final"} => q.reg = "READ_STATUS")
      <4>1. CASE s \in Instructs
        <5>1. k \in 5..Len(r)
          <6>1. k \notin {1, 2, 4}
            BY <1>3, <1>8, <4>1 DEF q, Go, SetOut
          <6>2. QED
            BY <1>3, <2>3, <4>1, <6>1
        <5>2. q.reg = op /\ k > 5
          BY <1>3, <1>8, <4>1, <5>1 DEF q
        <5>3. s # "burst"
          BY <5>2
        <5>4. QED
          BY <4>1, <5>2, <5>3 DEF OpOf, Instructs
      <4>2. CASE s = "idcode"
        <5>1. r = <<Go("DRSHIFT"), ClearOut, Scan(32, FALSE, "IDCODE"), GetIn>>
          BY <4>2, OtherRequests
        <5>2. q = r[k] /\ k \in 1..Len(r)
          BY DEF q
        <5> HIDE DEF r
        <5>3. /\ Len(r) = 4 /\ r[1] = Go("DRSHIFT") /\ r[2] = ClearOut
              /\ r[3] = Scan(32, FALSE, "IDCODE") /\ r[4] = GetIn
          BY <5>1
        <5>4. k \in {1, 2, 3, 4}
          BY <5>2, <5>3
        <5>5. QED
          BY <1>8, <4>2, <5>2, <5>3, <5>4 DEF Go, ClearOut, Scan, GetIn
      <4>3. CASE s \in {"begin", "idle", "end"}
        <5>1. r = <<Begin, Go("RESET")>> \/ r = <<Go("IDLE"), Clock>> \/ r = <<End>>
          BY <4>3, OtherRequests DEF RunTest
        <5>2. q \in {Begin, Go("RESET"), Go("IDLE"), Clock, End}
          BY <5>1 DEF q
        <5>3. QED
          BY <1>8, <5>2 DEF Begin, Go, Clock, End
      <4>4. QED
        BY <1>1, <4>1, <4>2, <4>3 DEF Steps
    <3>2. tap = "DRSHIFT" /\ ir # "BURST"
      BY <1>5, <1>8, <3>1
    <3>3. PICK some : ScannedDr(some)
      BY <2>1, <3>2 DEF Scanned, ScannedIr
    <3>4. UNCHANGED <<sram, enabled, busy, shifted>>
      BY <3>2, <3>3 DEF ScannedDr
    <3>5. captured' # captured => (captured'.done <=> Done)
      BY <3>3 DEF ScannedDr
    <3>6. s \in Instructs => k \notin {4, 5}
      BY <1>3, <1>8 DEF q, Go
    <3>7. s \in {"status", "final"} => (captured'.done <=> Done)
      <4>1. s \in {"status", "final"} => ir = "READ_STATUS"
        BY <1>5, <1>8, <3>1
      <4>2. QED
        BY <3>3, <4>1 DEF ScannedDr
    <3>8. QED
      BY <1>8, <2>3, <3>4, <3>5, <3>6, <3>7 DEF Quiet, q, Unloaded
  <2>4. QED
    BY <2>2, <2>3
<1>9. CASE q.op \notin {"go", "scan"}
  <2>1. q.op \in {"start", "stop", "set", "clock", "get"}
    BY <1>6, <1>9 DEF CarriedOut
  <2>2. UNCHANGED <<sram, enabled, busy, shifted, captured>>
    BY <1>6, <2>1, Carries DEF debugger, fpga
  <2>3. s \in Instructs => k # 3
    BY <1>3, <1>9 DEF q, Scan
  <2>4. s \in Instructs /\ k = 5 => shifted = op
    BY <1>4
  <2>5. ~(r[k].op = "go") /\ ~(r[k].op = "scan")
    BY <1>9 DEF q
  <2>6. QED
    BY <2>2, <2>3, <2>4, <2>5 DEF Quiet
<1>10. QED
  BY <1>7, <1>8, <1>9

-----------------------------------------------------------------------------
(* A load, request by request.                                             *)

\* What is sent, and in what chunks, stays the same during a call.
LEMMA SameSent ==
    ASSUME max' = max, bits' = bits
    PROVE  /\ Chunks' = Chunks /\ InOrder(bits)' = InOrder(bits)
           /\ \A m : Sent(m)' = Sent(m) /\ Bits(Bytes(Wire, m))' = Bits(Bytes(Wire, m))
<1>1. Wire' = Wire
  BY DEF Wire
<1>2. \A m : Upto(m)' = Upto(m) /\ Bytes(Wire, m)' = Bytes(Wire, m)
  BY <1>1 DEF Upto, Bytes, Start
<1>3. \A m : Sent(m)' = Sent(m)
  BY <1>1, <1>2 DEF Sent
<1>4. QED
  BY <1>2, <1>3 DEF Chunks

\* A bad bit spoils a load for good.
LEMMA StillSpoilt ==
    ASSUME sram \in Seq(0..3), sram # <<>>, Unloaded, NEW x \in Seq(0..3), sram' = sram \o x
    PROVE  sram' \in Seq(0..3) /\ sram' # <<>> /\ Unloaded'
<1> DEFINE n == Len(sram)
<1>1. PICK i \in 1..n : sram[i] = Bad
  BY DEF Unloaded, Done
<1>2. /\ sram \o x \in Seq(0..3) /\ Len(sram \o x) = n + Len(x)
      /\ \A j \in 1..n + Len(x) : (sram \o x)[j] = IF j <= n THEN sram[j] ELSE x[j - n]
  BY Joined
<1>3. n \in Nat /\ Len(x) \in Nat
  OBVIOUS
<1> HIDE DEF n
<1>4. i \in 1..n + Len(x) /\ i <= n
  BY <1>1, <1>3
<1>5. sram'[i] = Bad /\ i \in 1..Len(sram')
  BY <1>1, <1>2, <1>4
<1>6. sram' \in Seq(0..3)
  BY <1>2
<1>7. sram' # <<>>
  BY <1>5
<1>8. QED
  BY <1>5, <1>6, <1>7 DEF Unloaded, Done

\* A bad bit spoils a load.
LEMMA Spoils ==
    ASSUME sram \in Seq(0..3), sram' = sram \o <<Bad>>
    PROVE  sram' \in Seq(0..3) /\ sram' # <<>> /\ Unloaded'
<1> DEFINE x == <<Bad>>
           n == Len(sram)
<1>1. x \in Seq(0..3) /\ Len(x) = 1 /\ x[1] = Bad
  BY DEF Bad
<1>2. n \in Nat /\ sram' = sram \o x
  OBVIOUS
<1> HIDE DEF x
<1>3. /\ sram \o x \in Seq(0..3) /\ Len(sram \o x) = n + Len(x)
      /\ \A j \in 1..n + Len(x) : (sram \o x)[j] = IF j <= n THEN sram[j] ELSE x[j - n]
  BY <1>1, Joined
<1> HIDE DEF n
<1>4. n + 1 \in 1..n + Len(x) /\ ~(n + 1 <= n) /\ (n + 1) - n = 1
  BY <1>1, <1>2
<1>5. sram'[n + 1] = Bad /\ n + 1 \in 1..Len(sram')
  BY <1>1, <1>2, <1>3, <1>4
<1>6. sram' \in Seq(0..3)
  BY <1>2, <1>3
<1>7. sram' # <<>>
  BY <1>5
<1>8. QED
  BY <1>5, <1>6, <1>7 DEF Unloaded, Done

\* The scan of the next chunk, wherever the load was.
LEMMA ChunkLoads ==
    ASSUME FpgaInv, bits \in Bitstreams, max \in Nat \ {0}, max * ByteBits < ScanLimit,
           max' = max, bits' = bits,
           NEW m \in 0..Chunks - 1, Loaded(m), ir = "BURST",
           NEW some, some = Bits(Bytes(Wire, m + 1)), ScannedDr(some)
    PROVE  FpgaInv' /\ Loaded(m + 1)'
<1>1. some \in Seq({0, 1}) /\ Sent(m) \o some = Sent(m + 1)
  BY NextChunk
<1>2. some \in Seq(0..3)
  <2>1. {0, 1} \subseteq 0..3
    OBVIOUS
  <2>2. QED
    BY <1>1, <2>1, SeqGrows
<1>3. Sent(m + 1)' = Sent(m + 1)
  BY SameSent
<1>4. /\ sram' = IF ~enabled THEN sram ELSE sram \o (IF busy THEN <<Bad>> ELSE some)
      /\ enabled' = enabled /\ busy' = busy
  BY DEF ScannedDr
<1>5. sram \in Seq(0..3) /\ (busy => Unloaded)
  BY DEF FpgaInv
<1>6. CASE ~enabled
  <2>1. sram' = sram
    BY <1>4, <1>6
  <2>2. Unloaded' <=> Unloaded
    BY <2>1, SameDesign
  <2>3. (sram # <<>> /\ Unloaded) \/ sram = <<>>
    BY <1>6 DEF Loaded
  <2>4. QED
    BY <1>4, <1>5, <1>6, <2>1, <2>2, <2>3 DEF FpgaInv, Loaded
<1>7. CASE enabled /\ busy
  <2>1. sram' = sram \o <<Bad>>
    BY <1>4, <1>7
  <2>2. sram' \in Seq(0..3) /\ sram' # <<>> /\ Unloaded'
    BY <1>5, <2>1, Spoils
  <2>3. QED
    BY <2>2 DEF FpgaInv, Loaded
<1>8. CASE enabled /\ ~busy
  <2>1. sram' = sram \o some
    BY <1>4, <1>8
  <2>2. CASE sram # <<>> /\ Unloaded
    <3>1. sram' \in Seq(0..3) /\ sram' # <<>> /\ Unloaded'
      BY <1>2, <1>5, <2>1, <2>2, StillSpoilt
    <3>2. QED
      BY <3>1 DEF FpgaInv, Loaded
  <2>3. CASE sram = Sent(m)
    <3>1. sram' = Sent(m + 1)'
      BY <1>1, <1>3, <2>1, <2>3
    <3>2. sram' \in Seq(0..3)
      BY <1>2, <1>5, <2>1
    <3>3. busy' = FALSE /\ enabled' = TRUE
      BY <1>4, <1>8
    <3>4. QED
      BY <3>1, <3>2, <3>3 DEF FpgaInv, Loaded
  <2>4. QED
    BY <1>8, <2>2, <2>3 DEF Loaded
<1>9. QED
  BY <1>6, <1>7, <1>8

\* A request of the burst.
LEMMA BurstGoesOn ==
    ASSUME TapInv, FpgaInv, max * ByteBits < ScanLimit, max' = max, bits' = bits,
           plan # <<>>, Head(plan) = "burst", NEW k \in 1..Len(Requests("burst")),
           todo = Onward(Requests("burst"), k), CarriedOut(Requests("burst")[k]), Bursting(k)
    PROVE  FpgaInv' /\ Bursting(k + 1)'
<1> DEFINE r == Requests("burst")
           q == r[k]
<1>1. bits \in Bitstreams /\ max \in Nat \ {0}
  BY DEF TapInv
<1>2. /\ Len(r) = 2 * Chunks + 6 /\ Chunks \in Nat /\ r[2 * Chunks + 6] = Go("DRPAUSE")
      /\ \A m \in 0..Chunks - 1 : r[2 * m + 6] = BurstOut(m + 1) /\ r[2 * m + 7] = BurstScan(m + 1)
  BY <1>1, BurstIs, SentEnds
<1>3. ScansReachTheirRegister /\ IsList(r) /\ k \in 1..Len(r) + 1
  <2>1. k \in 1..Len(r) + 1
    BY <1>2
  <2>2. QED
    BY <2>1, TapGivesRegisters, AtPlace
<1> HIDE DEF r
<1>4. todo # <<>> /\ Head(todo) = q
  <2>1. todo = Onward(r, k)
    BY DEF r
  <2>2. k # Len(r) + 1
    <3>1. k \in 1..Len(r) /\ Len(r) \in Nat
      BY <1>2 DEF r
    <3>2. QED
      BY <3>1
  <2>3. QED
    BY <1>3, <2>1, <2>2, Place
<1>5. CarriedOut(q) /\ k \in 1..2 * Chunks + 6
  BY <1>2 DEF r
<1>6. PICK m \in 0..Chunks : /\ Loaded(m) /\ shifted = "BURST"
                             /\ \/ k = 2 * m + 6
                                \/ k = 2 * m + 7 /\ (m < Chunks => out = Bits(Bytes(Wire, m + 1)))
  BY DEF Bursting
<1>7. /\ Chunks' = Chunks
      /\ \A i : Sent(i)' = Sent(i) /\ Bits(Bytes(Wire, i))' = Bits(Bytes(Wire, i))
  BY SameSent
<1>8. ASSUME UNCHANGED <<sram, enabled, busy>>
      PROVE  FpgaInv' /\ Loaded(m)'
  <2>1. Unloaded' <=> Unloaded
    BY <1>8, SameDesign
  <2>2. QED
    BY <1>6, <1>7, <1>8, <2>1 DEF FpgaInv, Loaded
<1> HIDE DEF q
<1>9. CASE k = 2 * m + 6 /\ m < Chunks
  <2>1. q = BurstOut(m + 1) /\ m \in 0..Chunks - 1
    BY <1>2, <1>9 DEF q
  <2>2. q.op = "set" /\ q.data = Bits(Bytes(Wire, m + 1))
    BY <2>1 DEF BurstOut, SetOut
  <2>3. out' = q.data /\ UNCHANGED <<shifted, fpga>>
    BY <1>5, <2>2, Carries
  <2>4. k + 1 = 2 * m + 7
    BY <1>2, <1>9
  <2>5. FpgaInv' /\ Loaded(m)' /\ shifted' = "BURST" /\ out' = Bits(Bytes(Wire, m + 1))'
    <3>1. UNCHANGED <<sram, enabled, busy>>
      BY <2>3 DEF fpga
    <3>2. Bits(Bytes(Wire, m + 1))' = Bits(Bytes(Wire, m + 1))
      BY <1>7
    <3>3. QED
      BY <1>6, <1>8, <2>2, <2>3, <3>1, <3>2
  <2>6. QED
    BY <1>7, <2>4, <2>5 DEF Bursting
<1>10. CASE k = 2 * m + 6 /\ m = Chunks
  <2>1. q.op = "go" /\ q.to = "DRPAUSE"
    BY <1>2, <1>10 DEF q, Go
  <2>2. Goes("DRPAUSE")
    BY <1>5, <2>1, Carries
  <2>3. UNCHANGED <<sram, enabled, busy>> /\ shifted' = "BURST"
    <3>1. Acts("BURST") => UNCHANGED <<sram, enabled, busy>>
      BY DEF Acts
    <3>2. QED
      BY <1>6, <2>2, <3>1 DEF Goes
  <2>4. k + 1 = 2 * m + 7 /\ ~(m < Chunks)
    BY <1>2, <1>10
  <2>5. QED
    BY <1>7, <1>8, <2>3, <2>4 DEF Bursting
<1>11. CASE k = 2 * m + 7
  <2>1. m \in 0..Chunks - 1 /\ m < Chunks
    BY <1>2, <1>5, <1>11
  <2>2. q = BurstScan(m + 1)
    BY <1>2, <1>11, <2>1 DEF q
  <2> DEFINE n == ChunkBits(Wire, Len(bits) * ByteBits, m + 1) % ScanLimit
             next == Bits(Bytes(Wire, m + 1))
             some == SubSeq(out, 1, Min({n, Len(out)}))
  <2>3. q.op = "scan" /\ q.n = n /\ q.reg = "BURST"
    BY <2>2 DEF BurstScan, Scan
  <2>4. tap = "DRSHIFT" /\ ir = "BURST"
    BY <1>3, <1>4, <2>3 DEF ScansReachTheirRegister
  <2>5. Scanned(n, q.advance)
    <3>1. Scanned(q.n, q.advance)
      BY <1>5, <2>3, Carries
    <3>2. QED
      BY <2>3, <3>1
  <2>6. ScannedDr(some)
    BY <2>4, <2>5 DEF Scanned, ScannedIr
  <2>7. some = next
    <3>1. out = next
      BY <1>6, <1>11, <2>1
    <3>2. SubSeq(next, 1, Min({n, Len(next)})) = next
      BY <1>1, <2>1, NextChunk
    <3>3. QED
      BY <3>1, <3>2
  <2> HIDE DEF some
  <2>8. FpgaInv' /\ Loaded(m + 1)'
    BY <1>1, <1>6, <2>1, <2>4, <2>6, <2>7, ChunkLoads
  <2>9. shifted' = "BURST"
    BY <1>6, <2>6 DEF ScannedDr
  <2>10. m + 1 \in 0..Chunks /\ k + 1 = 2 * (m + 1) + 6
    BY <1>2, <1>11, <2>1
  <2>11. QED
    BY <1>7, <2>8, <2>9, <2>10 DEF Bursting
<1>12. QED
  <2>1. m < Chunks \/ m = Chunks
    BY <1>2
  <2>2. QED
    BY <1>6, <1>9, <1>10, <1>11, <2>1

\* What is true of the FPGA after a request that is not of the burst.
LEMMA QuietActs ==
    ASSUME FpgaInv, NEW s, NEW k, Quiet(s, k)
    PROVE  /\ FpgaInv'
           /\ Unloaded => Unloaded'
           /\ Enabling => enabled' \/ Unloaded'
           /\ shifted \in Late => sram' = sram
<1>1. Acts(shifted) \/ UNCHANGED <<sram, enabled, busy>>
  BY DEF Quiet
<1>2. CASE Acts(shifted)
  BY <1>2, ActsOn DEF Enabling
<1>3. CASE UNCHANGED <<sram, enabled, busy>>
  <2>1. Unloaded' <=> Unloaded
    BY <1>3, SameDesign
  <2>2. QED
    BY <1>3, <2>1 DEF FpgaInv, Enabling
<1>4. QED
  BY <1>1, <1>2, <1>3

\* A step of a load, short of the burst, goes on.
LEMMA QuietGoesOn ==
    ASSUME FpgaInv, bits' = bits, found' = found, status' = status,
           max \in Nat \ {0}, bits \in Bitstreams, max' = max,
           NEW p \in 1..16, NEW k \in 1..Len(Requests(ConfigureSram[p])), k \in Nat,
           AtLoad(p, k), p = 11 => k <= 5, Quiet(ConfigureSram[p], k)
    PROVE  FpgaInv' /\ AtLoad(p, k + 1)'
<1> DEFINE s == ConfigureSram[p]
<1>1. /\ FpgaInv'
      /\ Unloaded => Unloaded'
      /\ Enabling => enabled' \/ Unloaded'
      /\ shifted \in Late => sram' = sram
  BY QuietActs
<1>2. shifted' \in {shifted, "none"} \/ (s \in Instructs /\ shifted' = OpOf(s))
  BY DEF Quiet
<1>3. k + 1 \in Nat /\ (k + 1 <= 5 => k <= 4) /\ (k <= 4 => k + 1 <= 5)
      /\ (k + 1 >= 8 => k >= 7) /\ (k + 1 \in {4, 5} => k \in {3, 4}) /\ (k >= 7 => k = 7 \/ k >= 8)
      /\ (k <= 4 \/ k = 5 \/ ~(k <= 5)) /\ (k = 5 => k + 1 = 6)
  OBVIOUS
<1>4. found' \/ p >= 16
  BY DEF AtLoad
<1>5. CASE p \in 1..5
  <2>1. p \notin {6, 7, 8, 9, 10, 11, 13, 15} /\ p \notin 12..17 /\ p \notin 14..17
    BY <1>5
  <2>2. QED
    BY <1>1, <1>4, <2>1 DEF AtLoad
<1>6. CASE p = 6
  <2>1. s = "enable" /\ s \in Instructs /\ OpOf(s) = "ENABLE"
    BY <1>6, ConfigureIs DEF Instructs, OpOf
  <2>2. CASE k = 5
    <3>1. Requests(s)[5].op = "go" /\ Requests(s)[5].to = "DRSHIFT"
      BY <2>1, ByteWriteIs
    <3>2. shifted = "ENABLE" /\ shifted' = shifted /\ Acts(shifted)
      BY <2>1, <2>2, <3>1 DEF Quiet
    <3>3. enabled' \/ Unloaded'
      BY <3>2, ActsOn
    <3>4. Enabling'
      BY <3>2, <3>3 DEF Enabling
    <3>5. QED
      BY <1>1, <1>4, <1>6, <3>4 DEF AtLoad
  <2>3. CASE ~(k <= 5)
    <3>1. Enabling
      BY <1>6, <2>3 DEF AtLoad
    <3>2. shifted' \in {"ENABLE", "ERASE", "none"}
      BY <1>2, <2>1, <3>1 DEF Enabling
    <3>3. Enabling'
      BY <1>1, <3>1, <3>2 DEF Enabling
    <3>4. QED
      BY <1>1, <1>4, <1>6, <3>3 DEF AtLoad
  <2>4. CASE k <= 4
    BY <1>1, <1>3, <1>4, <1>6, <2>4 DEF AtLoad
  <2>5. QED
    BY <1>3, <2>2, <2>3, <2>4
<1>7. CASE p = 7
  <2>1. s = "erase" /\ s \in Instructs /\ OpOf(s) = "ERASE"
    BY <1>7, ConfigureIs DEF Instructs, OpOf
  <2>2. CASE Unloaded
    BY <1>1, <1>4, <1>7, <2>2 DEF AtLoad
  <2>3. CASE ~Unloaded
    <3>1. k <= 5 /\ Enabling
      BY <1>7, <2>3 DEF AtLoad
    <3>2. CASE k = 5
      <4>1. Requests(s)[5].op = "go" /\ Requests(s)[5].to = "DRSHIFT"
        BY <2>1, ByteWriteIs
      <4>2. shifted = "ERASE" /\ Acts(shifted)
        BY <2>1, <3>2, <4>1 DEF Quiet
      <4>3. Unloaded'
        BY <3>1, <4>2, ActsOn DEF Enabling
      <4>4. QED
        BY <1>1, <1>4, <1>7, <4>3 DEF AtLoad
    <3>3. CASE k <= 4
      <4>1. shifted' \in {"ENABLE", "ERASE", "none"}
        BY <1>2, <2>1, <3>1 DEF Enabling
      <4>2. Enabling'
        BY <1>1, <3>1, <4>1 DEF Enabling
      <4>3. QED
        BY <1>1, <1>3, <1>4, <1>7, <3>3, <4>2 DEF AtLoad
    <3>4. QED
      BY <1>3, <3>1, <3>2, <3>3
  <2>4. QED
    BY <2>2, <2>3
<1>8. CASE p \in {8, 9, 10}
  <2>1. Unloaded'
    BY <1>1, <1>8 DEF AtLoad
  <2>2. p \notin {6, 7, 11, 13, 15} /\ p \notin 12..17 /\ p \notin 14..17
    BY <1>8
  <2>3. QED
    BY <1>1, <1>4, <2>1, <2>2 DEF AtLoad
<1>9. CASE p = 11
  <2>1. s = "burst" /\ s \in Instructs /\ OpOf(s) = "BURST"
    BY <1>9, ConfigureIs DEF Instructs, OpOf
  <2>2. k <= 5
    BY <1>9
  <2>3. Unloaded /\ (k \in {4, 5} => shifted = "BURST")
    <3>1. ~Bursting(k)
      <4> SUFFICES ASSUME Bursting(k)
                   PROVE  FALSE
        OBVIOUS
      <4>1. Chunks \in Nat
        BY SentEnds
      <4>2. PICK m \in 0..Chunks : k = 2 * m + 6 \/ k = 2 * m + 7
        BY DEF Bursting
      <4>3. QED
        BY <2>2, <4>1, <4>2
    <3>2. QED
      BY <1>9, <3>1 DEF AtLoad
  <2>4. Unloaded'
    BY <1>1, <2>3
  <2>5. CASE k = 5
    <3>1. Requests(s)[5].op = "go" /\ Requests(s)[5].to = "DRSHIFT"
      BY <2>1, BurstIs DEF Go
    <3>2. shifted' = "BURST"
      BY <2>1, <2>5, <3>1 DEF Quiet, OpOf
    <3>3. Loaded(0)'
      <4>1. Sent(0)' = <<>>
        BY SameSent, SentEnds
      <4>2. CASE sram' = <<>>
        BY <4>1, <4>2 DEF Loaded
      <4>3. CASE sram' # <<>>
        BY <2>4, <4>3 DEF Loaded
      <4>4. QED
        BY <4>2, <4>3
    <3>4. Chunks' \in Nat
      BY SameSent, SentEnds
    <3>5. 0 \in 0..Chunks' /\ k + 1 = 2 * 0 + 6
      BY <2>5, <3>4
    <3>6. Bursting(k + 1)'
      BY <3>2, <3>3, <3>5 DEF Bursting
    <3>7. QED
      BY <1>1, <1>4, <1>9, <3>6 DEF AtLoad
  <2>6. CASE k <= 4
    <3>1. k = 3 => shifted' = "BURST"
      BY <2>1 DEF Quiet
    <3>2. k = 4 => shifted' = "BURST"
      BY <2>1, <2>3 DEF Quiet
    <3>3. QED
      BY <1>1, <1>3, <1>4, <1>9, <2>4, <2>6, <3>1, <3>2 DEF AtLoad
  <2>7. QED
    BY <1>3, <2>2, <2>5, <2>6
<1>10. CASE p \in 12..16
  <2>1. p \in 12..17 /\ p \notin {6, 7, 8, 9, 10, 11}
    BY <1>10
  <2>2. CASE ~found
    BY <1>1, <1>4, <2>1, <2>2 DEF AtLoad
  <2>3. CASE found
    <3>1. Whole /\ shifted \in Late
      BY <2>1, <2>3 DEF AtLoad
    <3>2. sram' = sram
      BY <1>1, <3>1
    <3>3. Unloaded' <=> Unloaded
      BY <3>2, SameDesign
    <3>4. InOrder(bits)' = InOrder(bits)
      BY SameSent
    <3>5. Whole'
      BY <3>1, <3>2, <3>3, <3>4 DEF Whole
    <3>6. shifted' \in Late
      <4>1. s \in {"no_op", "status", "disable", "final", "end"}
        BY <1>10, ConfigureIs
      <4>2. s \in Instructs => OpOf(s) \in Late
        BY <4>1 DEF OpOf, Late, Instructs
      <4>3. QED
        BY <1>2, <3>1, <4>2 DEF Late
    <3>7. ASSUME p \in {13, 15}, k + 1 >= 8, captured'.done
          PROVE  sram' = InOrder(bits)'
      <4>1. s \in {"status", "final"}
        BY <3>7, ConfigureIs
      <4>2. (captured'.done <=> ~Unloaded) => sram = InOrder(bits)
        BY <3>1, <3>7 DEF Whole
      <4>3. CASE captured' # captured
        BY <3>2, <3>4, <4>2, <4>3 DEF Quiet
      <4>4. CASE captured' = captured /\ k >= 8
        <5>1. captured.done => sram = InOrder(bits)
          BY <3>7, <4>4 DEF AtLoad
        <5>2. QED
          BY <3>2, <3>4, <3>7, <4>4, <5>1
      <4>5. CASE k = 7
        <5>1. Requests(s)[7].op = "scan"
          BY <4>1, StatusIs
        <5>2. k > 3
          BY <4>5
        <5>3. captured'.done <=> ~Unloaded
          BY <4>1, <4>5, <5>1, <5>2 DEF Quiet
        <5>4. QED
          BY <3>2, <3>4, <4>2, <5>3
      <4>6. QED
        BY <1>3, <3>7, <4>3, <4>4, <4>5
    <3>8. ASSUME p \in 14..17, status'.done
          PROVE  sram' = InOrder(bits)'
      <4>1. status.done => sram = InOrder(bits)
        BY <2>3, <3>8 DEF AtLoad
      <4>2. QED
        BY <3>2, <3>4, <3>8, <4>1
    <3>9. QED
      BY <1>1, <1>4, <2>1, <3>5, <3>6, <3>7, <3>8 DEF AtLoad
  <2>4. QED
    BY <2>2, <2>3
<1>11. QED
  <2>1. p \in 1..5 \/ p = 6 \/ p = 7 \/ p \in {8, 9, 10} \/ p = 11 \/ p \in 12..16
    OBVIOUS
  <2>2. QED
    BY <1>5, <1>6, <1>7, <1>8, <1>9, <1>10, <2>1

\* A step of a load goes on.
LEMMA StageGoesOn ==
    ASSUME TapInv, FpgaInv, max * ByteBits < ScanLimit,
           max' = max, bits' = bits, found' = found, status' = status,
           plan # <<>>, NEW p \in 1..16, Head(plan) = ConfigureSram[p],
           NEW k \in 1..Len(Requests(ConfigureSram[p])),
           todo = Onward(Requests(ConfigureSram[p]), k),
           CarriedOut(Requests(ConfigureSram[p])[k]), AtLoad(p, k)
    PROVE  FpgaInv' /\ AtLoad(p, k + 1)'
<1> DEFINE s == ConfigureSram[p]
<1>0. k \in Nat
  <2>1. s \in Steps
    BY PlanGoesOn DEF TapInv
  <2>2. PICK S : Requests(s) \in Seq(S)
    BY <2>1, RequestsAreList DEF TapInv, IsList
  <2>3. QED
    BY <2>2
<1>1. CASE p = 11 /\ Bursting(k)
  <2>1. s = "burst"
    BY <1>1, ConfigureIs
  <2>2. FpgaInv' /\ Bursting(k + 1)'
    BY <1>1, <2>1, BurstGoesOn
  <2>3. found' \/ p >= 16
    BY DEF AtLoad
  <2>4. QED
    BY <1>1, <2>2, <2>3 DEF AtLoad
<1>2. CASE ~(p = 11 /\ Bursting(k))
  <2>1. p = 11 => k <= 5
    BY <1>2 DEF AtLoad
  <2>2. s # "burst" \/ k <= 5
    <3>1. p # 11 => s # "burst"
      <4>1. p \in 1..10 \/ p = 11 \/ p \in {12, 13, 14, 15, 16}
        OBVIOUS
      <4>2. p \in {1, 2, 3, 4, 5, 6, 7, 8, 9, 10} \/ p = 11 \/ p \in {12, 13, 14, 15, 16}
        BY <4>1
      <4>3. QED
        BY <4>2, ConfigureIs
    <3>2. QED
      BY <2>1, <3>1
  <2>3. PICK t : t = s
    OBVIOUS
  <2>4. Quiet(t, k)
    BY <2>2, <2>3, Quietly
  <2>5. Quiet(s, k)
    BY <2>3, <2>4
  <2>6. max \in Nat \ {0} /\ bits \in Bitstreams
    BY DEF TapInv
  <2>7. QED
    BY <1>0, <2>1, <2>5, <2>6, QuietGoesOn
<1>3. QED
  BY <1>1, <1>2

-----------------------------------------------------------------------------
(* A load, step by step.                                                   *)

\* What AtLoad looks at.
LEMMA SameLoad ==
    ASSUME UNCHANGED <<max, bits, found, status, sram, enabled, shifted, out, captured>>,
           NEW p, NEW k
    PROVE  AtLoad(p, k)' <=> AtLoad(p, k)
<1>1. /\ Chunks' = Chunks /\ InOrder(bits)' = InOrder(bits)
      /\ \A m : Sent(m)' = Sent(m) /\ Bits(Bytes(Wire, m))' = Bits(Bytes(Wire, m))
  BY SameSent
<1>2. Unloaded' <=> Unloaded
  BY SameDesign
<1>3. \A m : Loaded(m)' <=> Loaded(m)
  BY <1>1, <1>2 DEF Loaded
<1>4. Bursting(k)' <=> Bursting(k)
  BY <1>1, <1>3 DEF Bursting
<1>5. (Whole' <=> Whole) /\ (Enabling' <=> Enabling)
  BY <1>1, <1>2 DEF Whole, Enabling
<1>6. QED
  BY <1>1, <1>2, <1>4, <1>5 DEF AtLoad

\* A wait, or the last look at the status, may be given up at any request, and
\* a wait begins again.
LeavesOff == \A p \in {3, 8, 15} : \A k \in Nat :
               AtLoad(p, k) => AtLoad(p + 1, 1) /\ (p # 15 => AtLoad(p, 1))

\* It may, in each of the three.
LEMMA MayLeaveOff == LeavesOff
<1> SUFFICES ASSUME NEW p \in {3, 8, 15}, NEW k \in Nat, AtLoad(p, k)
             PROVE  AtLoad(p + 1, 1) /\ (p # 15 => AtLoad(p, 1))
  BY DEF LeavesOff
<1>1. CASE p = 3
  BY <1>1 DEF AtLoad
<1>2. CASE p = 8
  BY <1>2 DEF AtLoad
<1>3. CASE p = 15
  BY <1>3 DEF AtLoad
<1>4. QED
  BY <1>1, <1>2, <1>3

\* A step's last request is followed by the next step.
LEMMA StageOver ==
    ASSUME max \in Nat \ {0}, bits \in Bitstreams,
           UNCHANGED <<max, bits, found, debugger, fpga>>,
           NEW p \in 1..16, NEW k \in Nat, k = Len(Requests(ConfigureSram[p])) + 1, AtLoad(p, k),
           status' = IF p \in {13, 15} THEN captured ELSE status
    PROVE  AtLoad(p + 1, 1)'
<1> DEFINE s == ConfigureSram[p]
<1>1. UNCHANGED <<sram, enabled, shifted, out, captured>>
  BY DEF debugger, fpga
<1>2. found \/ p >= 16
  BY DEF AtLoad
<1>3. CASE p \notin {13, 15}
  <2>1. AtLoad(p + 1, 1)
    <3>1. CASE p \in {1, 2, 4, 16}
      BY <1>2, <3>1 DEF AtLoad
    <3>2. CASE p \in {3, 8}
      BY <3>2, MayLeaveOff DEF LeavesOff
    <3>3. CASE p = 5
      BY <1>2, <3>3 DEF AtLoad
    <3>4. CASE p \in {6, 7}
      <4>1. s \in {"enable", "erase"}
        BY <3>4, ConfigureIs
      <4>2. Len(Requests(s)) >= 5 /\ k = Len(Requests(s)) + 1
        BY <4>1, ByteWriteIs
      <4>3. ~(k <= 5)
        <5> DEFINE n == Len(Requests(s))
        <5>1. n \in Nat
          <6>1. s \in Steps
            BY <4>1 DEF Steps, Instructs
          <6>2. PICK S : Requests(s) \in Seq(S)
            BY <6>1, RequestsAreList DEF IsList
          <6>3. QED
            BY <6>2
        <5>2. n >= 5 /\ k = n + 1
          BY <4>2
        <5> HIDE DEF n
        <5>3. QED
          BY <5>1, <5>2
      <4>4. IF p = 6 THEN Enabling ELSE Unloaded
        BY <3>4, <4>3 DEF AtLoad
      <4>5. QED
        BY <1>2, <3>4, <4>4 DEF AtLoad
    <3>5. CASE p \in {9, 10}
      BY <1>2, <3>5 DEF AtLoad
    <3>6. CASE p = 11
      <4>1. s = "burst"
        BY <3>6, ConfigureIs
      <4>2. k = 2 * Chunks + 7 /\ Chunks \in Nat /\ Sent(Chunks) = InOrder(bits)
        <5>1. Len(Requests(s)) = 2 * Chunks + 6 /\ Chunks \in Nat /\ Sent(Chunks) = InOrder(bits)
          BY <4>1, BurstIs, SentEnds
        <5>2. k = (2 * Chunks + 6) + 1
          BY <5>1
        <5>3. QED
          BY <5>1, <5>2
      <4>3. Bursting(k)
        <5>1. ~(k <= 5)
          BY <4>2
        <5>2. QED
          BY <3>6, <5>1 DEF AtLoad
      <4>4. PICK m \in 0..Chunks : /\ Loaded(m) /\ shifted = "BURST"
                                   /\ k = 2 * m + 6 \/ k = 2 * m + 7
        BY <4>3 DEF Bursting
      <4>5. m = Chunks
        BY <4>2, <4>4
      <4>6. Whole
        BY <4>2, <4>4, <4>5, NoDesign DEF Loaded, Whole
      <4>7. shifted \in Late
        BY <4>4 DEF Late
      <4>8. QED
        BY <1>2, <3>6, <4>6, <4>7 DEF AtLoad
    <3>7. CASE p \in {12, 14}
      BY <1>2, <3>7 DEF AtLoad
    <3>8. QED
      <4>1. \/ p \in {1, 2, 4, 16} \/ p \in {3, 8} \/ p = 5 \/ p \in {6, 7} \/ p \in {9, 10}
            \/ p = 11 \/ p \in {12, 14}
        BY <1>3
      <4>2. QED
        BY <3>1, <3>2, <3>3, <3>4, <3>5, <3>6, <3>7, <4>1
  <2>2. UNCHANGED <<max, bits, found, status, sram, enabled, shifted, out, captured>>
    BY <1>1, <1>3
  <2>3. PICK j : j = p + 1
    OBVIOUS
  <2>4. AtLoad(j, 1)' <=> AtLoad(j, 1)
    BY <2>2, SameLoad
  <2>5. QED
    BY <2>1, <2>3, <2>4
<1>4. CASE p \in {13, 15}
  <2>1. s \in {"status", "final"}
    BY <1>4, ConfigureIs
  <2>2. k >= 8
    <3>1. Len(Requests(s)) = 9
      BY <2>1, StatusIs
    <3>2. k = 9 + 1
      BY <3>1, Zenon
    <3>3. QED
      BY <3>2
  <2>3. found /\ Whole /\ shifted \in Late /\ (captured.done => sram = InOrder(bits))
    BY <1>2, <1>4, <2>2 DEF AtLoad
  <2>4. Whole'
    <3>1. Unloaded' <=> Unloaded
      BY <1>1, SameDesign
    <3>2. InOrder(bits)' = InOrder(bits)
      BY SameSent
    <3>3. QED
      BY <1>1, <2>3, <3>1, <3>2 DEF Whole
  <2>5. status'.done => sram' = InOrder(bits)'
    <3>1. InOrder(bits)' = InOrder(bits)
      BY SameSent
    <3>2. status' = captured
      BY <1>4
    <3>3. QED
      BY <1>1, <2>3, <3>1, <3>2
  <2>6. p + 1 \in {14, 16}
    BY <1>4
  <2>7. shifted' \in Late /\ found'
    BY <1>1, <2>3
  <2>8. QED
    BY <2>4, <2>5, <2>6, <2>7 DEF AtLoad
<1>5. QED
  BY <1>3, <1>4

\* The next step begins.
LEMMA Enters ==
    ASSUME max \in Nat \ {0}, bits \in Bitstreams, max' = max, bits' = bits,
           NEW p \in 1..17, plan' = Onward(ConfigureSram, p),
           p # 17 => todo' = Requests(ConfigureSram[p])
    PROVE  Placed(p, 1)'
<1> SUFFICES ASSUME p # 17
             PROVE  /\ 1 \in 1..Len(Requests(ConfigureSram[p])') + 1
                    /\ todo' = Onward(Requests(ConfigureSram[p])', 1)
  BY DEF Placed
<1> DEFINE s == ConfigureSram[p]
           r == Requests(s)
<1>1. s \in Steps
  <2> DEFINE c == ConfigureSram
  <2>1. c \in Seq(Steps) /\ Len(c) = 16
    BY ConfigureIs
  <2>2. p \in 1..16
    OBVIOUS
  <2> HIDE DEF c
  <2>3. p \in 1..Len(c)
    BY <2>1, <2>2
  <2>4. c[p] \in Steps
    BY <2>1, <2>3, Elements
  <2>5. QED
    BY <2>4 DEF c
<1>2. PICK S : r \in Seq(S)
  BY <1>1, RequestsAreList DEF IsList
<1>3. r' = r
  BY SameRequests
<1>4. Onward(r, 1) = r
  BY <1>2, OnwardEnds
<1>5. todo' = r
  OBVIOUS
<1> HIDE DEF r
<1>6. 1 \in 1..Len(r) + 1
  BY <1>2
<1>7. QED
  BY <1>3, <1>4, <1>5, <1>6 DEF r

-----------------------------------------------------------------------------
(* Every step of the program, the debugger and the FPGA keeps to LoadInv.  *)

\* What of a plan is left has no burst if it had none.
LEMMA NoBurstLeft ==
    /\ NoBurst(<<>>) /\ NoBurst(ReadIdcode) /\ NoBurst(GiveUp)
    /\ plan \in Seq(Steps) /\ plan # <<>> /\ NoBurst(plan) =>
         Head(plan) # "burst" /\ NoBurst(Tail(plan))
<1>1. NoBurst(<<>>)
  BY DEF NoBurst
<1>2. NoBurst(ReadIdcode)
  <2> DEFINE p == ReadIdcode
  <2>1. Len(p) = 3 /\ p[1] = "begin" /\ p[2] = "idcode" /\ p[3] = "end"
    BY DEF ReadIdcode
  <2> HIDE DEF p
  <2>2. \A i \in 1..Len(p) : i \in {1, 2, 3}
    BY <2>1
  <2>3. QED
    BY <2>1, <2>2 DEF NoBurst, p
<1>3. NoBurst(GiveUp)
  <2> DEFINE p == GiveUp
  <2>1. Len(p) = 1 /\ p[1] = "end"
    BY DEF GiveUp
  <2> HIDE DEF p
  <2>2. \A i \in 1..Len(p) : i = 1
    BY <2>1
  <2>3. QED
    BY <2>1, <2>2 DEF NoBurst, p
<1>4. ASSUME plan \in Seq(Steps), plan # <<>>, NoBurst(plan)
      PROVE  Head(plan) # "burst" /\ NoBurst(Tail(plan))
  <2>1. 1 \in 1..Len(plan) /\ Head(plan) = plan[1]
    BY <1>4
  <2>2. /\ Len(Tail(plan)) = Len(plan) - 1
        /\ \A i \in 1..Len(Tail(plan)) : Tail(plan)[i] = plan[i + 1] /\ i + 1 \in 1..Len(plan)
    BY <1>4
  <2>3. QED
    BY <1>4, <2>1, <2>2 DEF NoBurst
<1>5. QED
  BY <1>1, <1>2, <1>3, <1>4

\* The buffers the debugger may report fit the length of a scan.
BuffersFit == \A r \in Reported : MaxBytes(r) * ByteBits < ScanLimit

\* LoadInv holds at the start.
LEMMA LoadInitially == Init /\ BuffersFit => LoadInv
<1> SUFFICES ASSUME Init, BuffersFit
             PROVE  LoadInv
  OBVIOUS
<1>1. FpgaInv
  <2>1. sram = <<3>> /\ busy = FALSE
    BY DEF Init, Old
  <2>2. <<3>> \in Seq(0..3)
    OBVIOUS
  <2>3. QED
    BY <2>1, <2>2 DEF FpgaInv
<1>2. max * ByteBits < ScanLimit
  <2>1. PICK r \in Reported : max = MaxBytes(r)
    BY DEF Init
  <2>2. QED
    BY <2>1 DEF BuffersFit
<1>3. call = "idle" /\ plan = <<>> /\ result = "none"
  BY DEF Init
<1>4. NoBurst(plan)
  BY <1>3, NoBurstLeft
<1>5. QED
  BY <1>1, <1>2, <1>3, <1>4 DEF LoadInv

\* A call that does not load leaves the FPGA in order.
LEMMA OtherRequest ==
    ASSUME TapInv, LoadInv, call # "configure", plan # <<>>, todo # <<>>, CarriedOut(Head(todo))
    PROVE  FpgaInv'
<1> DEFINE s == Head(plan)
           r == Requests(s)
<1>1. s \in Steps /\ IsList(r) /\ s # "burst"
  <2>1. plan \in Seq(Steps) /\ NoBurst(plan)
    BY DEF TapInv, Planned, LoadInv
  <2>2. QED
    BY <2>1, PlanGoesOn, NoBurstLeft, RequestsAreList DEF TapInv
<1>2. PICK k \in 1..Len(r) + 1 : todo = Onward(r, k)
  BY <1>1 DEF TapInv, AtStep
<1>3. k \in 1..Len(r) /\ Head(todo) = r[k]
  <2> HIDE DEF r
  <2>1. QED
    BY <1>1, <1>2, Place
<1>4. Quiet(s, k)
  <2>1. PICK t : t = s
    OBVIOUS
  <2>2. Quiet(t, k)
    BY <1>1, <1>2, <1>3, <2>1, Quietly
  <2>3. QED
    BY <2>1, <2>2
<1>5. QED
  BY <1>4, QuietActs DEF LoadInv

\* Where a load is.
LEMMA LoadIsAt ==
    ASSUME TapInv, LoadInv, call = "configure"
    PROVE  \E p \in 1..17, k \in Nat :
             /\ plan = Onward(ConfigureSram, p) /\ AtLoad(p, k)
             /\ plan = <<>> <=> p = 17
             /\ p # 17 =>
                  /\ p \in 1..16 /\ p + 1 \in 1..17
                  /\ Head(plan) = ConfigureSram[p] /\ Tail(plan) = Onward(ConfigureSram, p + 1)
                  /\ k \in 1..Len(Requests(ConfigureSram[p])) + 1
                  /\ todo = Onward(Requests(ConfigureSram[p]), k)
                  /\ todo = <<>> => k = Len(Requests(ConfigureSram[p])) + 1
                  /\ todo # <<>> => /\ k \in 1..Len(Requests(ConfigureSram[p]))
                                    /\ k + 1 \in 1..Len(Requests(ConfigureSram[p])) + 1
                                    /\ Head(todo) = Requests(ConfigureSram[p])[k]
                                    /\ Tail(todo) = Onward(Requests(ConfigureSram[p]), k + 1)
<1>1. PICK p \in 1..17 : \E k \in Nat : Placed(p, k) /\ AtLoad(p, k)
  BY DEF LoadInv
<1>2. PICK k \in Nat : Placed(p, k) /\ AtLoad(p, k)
  BY <1>1
<1>3. /\ plan = Onward(ConfigureSram, p)
      /\ p # 17 => /\ k \in 1..Len(Requests(ConfigureSram[p])) + 1
                   /\ todo = Onward(Requests(ConfigureSram[p]), k)
  BY <1>2 DEF Placed
<1>4. /\ plan = <<>> <=> p = 17
      /\ p # 17 => /\ Head(plan) = ConfigureSram[p] /\ p + 1 \in 1..17
                   /\ Tail(plan) = Onward(ConfigureSram, p + 1)
  BY <1>3, PlaceInPlan
<1> DEFINE r == Requests(ConfigureSram[p])
<1>5. ASSUME p # 17
      PROVE  /\ p \in 1..16
             /\ todo = <<>> => k = Len(r) + 1
             /\ todo # <<>> => /\ k \in 1..Len(r) /\ k + 1 \in 1..Len(r) + 1
                               /\ Head(todo) = r[k] /\ Tail(todo) = Onward(r, k + 1)
  <2>1. ConfigureSram[p] \in Steps
    BY <1>4, <1>5, PlanGoesOn DEF TapInv
  <2>2. IsList(r) /\ k \in 1..Len(r) + 1 /\ todo = Onward(r, k)
    BY <1>3, <1>5, <2>1, RequestsAreList DEF TapInv
  <2> HIDE DEF r
  <2>3. p \in 1..16
    BY <1>5
  <2>4. QED
    BY <2>2, <2>3, Place
<1>6. QED
  BY <1>2, <1>3, <1>4, <1>5

\* A load that is somewhere, as LoadInv says.
LEMMA IsAt ==
    ASSUME LoadInv, max' = max, FpgaInv', call' = "configure", result' # "configured",
           NEW p \in 1..17, NEW k \in Nat, Placed(p, k)', AtLoad(p, k)'
    PROVE  LoadInv'
<1>1. \E j \in 1..17 : \E i \in Nat : Placed(j, i)' /\ AtLoad(j, i)'
  OBVIOUS
<1>2. max' * ByteBits < ScanLimit
  BY DEF LoadInv
<1>3. QED
  BY <1>1, <1>2 DEF LoadInv

\* Another call goes on, or a call is over.
LEMMA NotLoading ==
    ASSUME LoadInv, max' = max, FpgaInv', call' # "configure", NoBurst(plan)',
           call' = "idle" => plan' = <<>>,
           result' = "configured" => call' = "idle" /\ sram' = InOrder(bits)'
    PROVE  LoadInv'
<1>1. max' * ByteBits < ScanLimit
  BY DEF LoadInv
<1>2. QED
  BY <1>1 DEF LoadInv

\* What FpgaInv looks at.
LEMMA SameFpga == FpgaInv /\ UNCHANGED <<sram, busy>> => FpgaInv'
<1> SUFFICES ASSUME FpgaInv, UNCHANGED <<sram, busy>>
             PROVE  FpgaInv'
  OBVIOUS
<1>1. Unloaded' <=> Unloaded
  BY SameDesign
<1>2. QED
  BY <1>1 DEF FpgaInv

\* A plan is given up for what is left of it, or ends.
LEMMA SameNoBurst ==
    ASSUME NEW p, NoBurst(p), plan' = p
    PROVE  NoBurst(plan)'
<1>1. plan' = p
  OBVIOUS
<1>2. QED
  BY <1>1 DEF NoBurst

\* A call begins.
LEMMA LoadBegins ==
    ASSUME TapInv, LoadInv, BuffersFit, NEW b \in Bitstreams, NEW r \in Reported, Configure(b, r)
    PROVE  LoadInv'
<1>1. /\ call' = "configure" /\ plan' = ConfigureSram /\ todo' = Requests(Head(ConfigureSram))
      /\ result' = "none" /\ found' = TRUE /\ max' = MaxBytes(r) /\ bits' = b
      /\ UNCHANGED <<sram, busy>>
  BY DEF Configure, Call, fpga
<1>2. FpgaInv'
  BY <1>1, SameFpga DEF LoadInv
<1>3. max' * ByteBits < ScanLimit
  BY <1>1 DEF BuffersFit
<1>4. AtLoad(1, 1)'
  BY <1>1 DEF AtLoad
<1>5. Placed(1, 1)'
  <2>1. plan' = Onward(ConfigureSram, 1)
    <3>1. Onward(ConfigureSram, 1) = ConfigureSram
      BY ConfigureIs, OnwardEnds
    <3>2. QED
      BY <1>1, <3>1
  <2>2. /\ Requests("begin") = <<Begin, Go("RESET")>> /\ Requests("begin")' = <<Begin, Go("RESET")>>
        /\ ConfigureSram[1] = "begin" /\ Head(ConfigureSram) = "begin"
    BY ConfigureIs, PlanOf DEF Requests
  <2> DEFINE q == <<Begin, Go("RESET")>>
  <2>3. Onward(q, 1) = q /\ 1 \in 1..Len(q) + 1
    <3> DEFINE S == {Begin, Go("RESET")}
    <3>1. q \in Seq(S) /\ Len(q) = 2
      OBVIOUS
    <3> HIDE DEF q, S
    <3>2. Onward(q, 1) = q
      BY <3>1, OnwardEnds
    <3>3. QED
      BY <3>1, <3>2
  <2> HIDE DEF q
  <2>4. todo' = q /\ Requests(ConfigureSram[1])' = q
    BY <1>1, <2>2 DEF q
  <2>5. QED
    BY <2>1, <2>3, <2>4 DEF Placed
<1>6. 1 \in 1..17 /\ 1 \in Nat
  OBVIOUS
<1>7. QED
  BY <1>1, <1>2, <1>3, <1>4, <1>5, <1>6 DEF LoadInv

\* A request that is carried out, or is not, in a load.
LEMMA LoadRequest ==
    ASSUME TapInv, LoadInv, call = "configure", todo # <<>>,
           UNCHANGED <<max, bits, found, status>>,
           CarriedOut(Head(todo)) \/ UNCHANGED <<debugger, fpga>>
    PROVE  /\ FpgaInv'
           /\ \E p \in 1..16, k \in Nat :
                /\ plan = Onward(ConfigureSram, p) /\ Head(plan) = ConfigureSram[p]
                /\ p + 1 \in 1..17 /\ Tail(plan) = Onward(ConfigureSram, p + 1)
                /\ AtLoad(p, k)'
                /\ CarriedOut(Head(todo)) /\ todo' = Tail(todo) /\ plan' = plan => Placed(p, k)'
<1>1. plan # <<>>
  BY DEF TapInv
<1>2. PICK p \in 1..17, k \in Nat :
        /\ plan = Onward(ConfigureSram, p) /\ AtLoad(p, k)
        /\ p \in 1..16 /\ p + 1 \in 1..17
        /\ Head(plan) = ConfigureSram[p] /\ Tail(plan) = Onward(ConfigureSram, p + 1)
        /\ k \in 1..Len(Requests(ConfigureSram[p]))
        /\ k + 1 \in 1..Len(Requests(ConfigureSram[p])) + 1
        /\ todo = Onward(Requests(ConfigureSram[p]), k)
        /\ Head(todo) = Requests(ConfigureSram[p])[k]
        /\ Tail(todo) = Onward(Requests(ConfigureSram[p]), k + 1)
  BY <1>1, LoadIsAt
<1>3. CASE CarriedOut(Head(todo))
  <2>1. FpgaInv' /\ AtLoad(p, k + 1)'
    <3>1. FpgaInv /\ max * ByteBits < ScanLimit /\ CarriedOut(Requests(ConfigureSram[p])[k])
      BY <1>2, <1>3 DEF LoadInv
    <3>2. QED
      BY <1>1, <1>2, <3>1, StageGoesOn
  <2>2. ASSUME todo' = Tail(todo), plan' = plan
        PROVE  Placed(p, k + 1)'
    <3>1. PICK s : s = ConfigureSram[p]
      OBVIOUS
    <3>2. Requests(s)' = Requests(s)
      BY SameRequests
    <3>3. Requests(ConfigureSram[p])' = Requests(ConfigureSram[p])
      BY <3>1, <3>2
    <3>4. QED
      BY <1>2, <2>2, <3>3 DEF Placed
  <2>3. k + 1 \in Nat
    BY <1>2
  <2>4. QED
    BY <1>2, <2>1, <2>2, <2>3
<1>4. CASE ~CarriedOut(Head(todo)) /\ UNCHANGED <<debugger, fpga>>
  <2>1. UNCHANGED <<sram, enabled, shifted, out, captured, busy>>
    BY <1>4 DEF debugger, fpga
  <2>2. FpgaInv'
    BY <2>1, SameFpga DEF LoadInv
  <2>3. AtLoad(p, k)'
    BY <1>2, <2>1, SameLoad
  <2>4. QED
    BY <1>2, <1>4, <2>2, <2>3
<1>5. QED
  BY <1>3, <1>4

\* The next step of a load begins.
LEMMA NextStep ==
    ASSUME TapInv, LoadInv, call = "configure", NEW p \in 1..17,
           Continue(Onward(ConfigureSram, p)), FpgaInv', AtLoad(p, 1)'
    PROVE  LoadInv'
<1>1. /\ plan' = Onward(ConfigureSram, p) /\ call' = call /\ max' = max /\ bits' = bits
      /\ result' = result
      /\ todo' = IF Onward(ConfigureSram, p) = <<>> THEN <<>>
                 ELSE Requests(Head(Onward(ConfigureSram, p)))
  BY DEF Continue
<1>2. ASSUME p # 17
      PROVE  Onward(ConfigureSram, p) # <<>> /\ Head(Onward(ConfigureSram, p)) = ConfigureSram[p]
  <2> DEFINE c == ConfigureSram
  <2>1. c \in Seq(Steps) /\ Len(c) = 16
    BY ConfigureIs
  <2>2. p \in 1..16
    BY <1>2
  <2> HIDE DEF c
  <2>3. p \in 1..Len(c)
    BY <2>1, <2>2
  <2>4. Onward(c, p) # <<>> /\ Head(Onward(c, p)) = c[p]
    BY <2>1, <2>3, OnwardStep
  <2>5. QED
    BY <2>4 DEF c
<1>3. max \in Nat \ {0} /\ bits \in Bitstreams
  BY DEF TapInv
<1>4. Placed(p, 1)'
  BY <1>1, <1>2, <1>3, Enters
<1>5. result # "configured"
  BY DEF LoadInv
<1>6. 1 \in Nat
  OBVIOUS
<1>7. QED
  BY <1>1, <1>4, <1>5, <1>6, IsAt

\* A step of a load is over.
LEMMA LoadStepOver ==
    ASSUME TapInv, LoadInv, call = "configure", todo = <<>>, plan # <<>>,
           UNCHANGED <<found, debugger, fpga>>, Continue(Tail(plan)),
           status' = IF Head(plan) \in {"status", "final"} THEN captured ELSE status
    PROVE  LoadInv'
<1>1. PICK p \in 1..17, k \in Nat :
        /\ AtLoad(p, k) /\ p \in 1..16 /\ p + 1 \in 1..17
        /\ Head(plan) = ConfigureSram[p] /\ Tail(plan) = Onward(ConfigureSram, p + 1)
        /\ k = Len(Requests(ConfigureSram[p])) + 1
  BY LoadIsAt
<1>2. UNCHANGED <<max, bits, found, debugger, fpga>>
  BY DEF Continue
<1>3. max \in Nat \ {0} /\ bits \in Bitstreams
  BY DEF TapInv
<1>4. Head(plan) \in {"status", "final"} <=> p \in {13, 15}
  <2>1. p \in {13, 15} \/ p \in {1, 2, 3, 4, 5, 6, 7, 8, 9, 10, 11, 12, 14, 16}
    BY <1>1
  <2>2. CASE p \in {13, 15}
    <3>1. ConfigureSram[p] \in {"status", "final"}
      BY <2>2, ConfigureIs
    <3>2. QED
      BY <1>1, <2>2, <3>1
  <2>3. CASE p \in {1, 2, 3, 4, 5, 6, 7, 8, 9, 10, 11, 12, 14, 16}
    <3>1. ConfigureSram[p] \notin {"status", "final"}
      BY <2>3, ConfigureIs
    <3>2. QED
      BY <1>1, <2>3, <3>1
  <2>4. QED
    BY <2>1, <2>2, <2>3
<1>5. status' = IF p \in {13, 15} THEN captured ELSE status
  BY <1>4
<1>6. AtLoad(p + 1, 1)'
  BY <1>1, <1>2, <1>3, <1>5, StageOver
<1>7. FpgaInv'
  BY <1>2, SameFpga DEF LoadInv, fpga
<1>8. PICK j : j = p + 1
  OBVIOUS
<1>9. j \in 1..17 /\ Continue(Onward(ConfigureSram, j)) /\ AtLoad(j, 1)'
  BY <1>1, <1>6, <1>8
<1>10. QED
  BY <1>7, <1>9, NextStep

\* Each action by its step in the plan.
LEMMA LoadInductive == TapInv /\ LoadInv /\ BuffersFit /\ [Next]_vars => LoadInv'
<1> SUFFICES ASSUME TapInv, LoadInv, BuffersFit, [Next]_vars
             PROVE  LoadInv'
  OBVIOUS
<1>1. /\ FpgaInv /\ plan \in Seq(Steps)
      /\ plan = <<>> => todo = <<>>
      /\ call = "idle" => plan = <<>>
      /\ call # "configure" => NoBurst(plan)
      /\ result = "configured" => call = "idle" /\ sram = InOrder(bits)
  BY DEF TapInv, LoadInv, Planned
<1>2. ASSUME NEW b \in Bitstreams, NEW r \in Reported, Configure(b, r)
      PROVE  LoadInv'
  BY <1>2, LoadBegins
<1>3. ASSUME NEW c, NEW p, Call(c, p), c \in {"idcode", "registers"}, NoBurst(p), max' = max
      PROVE  LoadInv'
  <2>1. call' = c /\ plan' = p /\ result' = "none" /\ UNCHANGED fpga
    BY <1>3 DEF Call
  <2>2. FpgaInv'
    BY <1>1, <2>1, SameFpga DEF fpga
  <2>3. NoBurst(plan)'
    BY <1>3, <2>1, SameNoBurst
  <2>4. QED
    BY <1>3, <2>1, <2>2, <2>3, NotLoading
<1>4. CASE Idcode
  <2>1. Call("idcode", ReadIdcode) /\ max' = max
    BY <1>4 DEF Idcode
  <2>2. QED
    BY <1>3, <2>1, NoBurstLeft
<1>5. CASE Registers
  <2>1. max' = max
    BY <1>5 DEF Registers
  <2>2. PICK n \in 0..2 : Call("registers", WithRegisters(n))
    BY <1>5 DEF Registers
  <2>3. QED
    BY <1>3, <2>1, <2>2, PlanOfRegisters
<1>6. CASE Reconfigure
  <2>1. /\ call' = "idle" /\ plan' = <<>> /\ max' = max /\ result' # "configured"
        /\ UNCHANGED <<sram, busy>> \/ (sram' = Old /\ busy' = FALSE)
    BY <1>1, <1>6 DEF Reconfigure
  <2>2. FpgaInv'
    <3>1. CASE UNCHANGED <<sram, busy>>
      BY <1>1, <3>1, SameFpga
    <3>2. CASE sram' = Old /\ busy' = FALSE
      <4>1. Old \in Seq(0..3)
        BY DEF Old
      <4>2. QED
        BY <3>2, <4>1 DEF FpgaInv
    <3>3. QED
      BY <2>1, <3>1, <3>2
  <2>3. NoBurst(plan)'
    BY <2>1, NoBurstLeft, SameNoBurst
  <2>4. QED
    BY <2>1, <2>2, <2>3, NotLoading
<1>7. CASE Request
  <2>1. /\ todo # <<>> /\ plan # <<>> /\ CarriedOut(Head(todo)) /\ todo' = Tail(todo)
        /\ UNCHANGED <<call, plan, bits, max, status, found, result>>
    BY <1>1, <1>7 DEF Request, program
  <2>2. call # "idle" /\ result # "configured"
    BY <1>1, <2>1
  <2>3. CASE call = "configure"
    <3>1. FpgaInv'
      BY <2>1, <2>3, LoadRequest
    <3>2. PICK p \in 1..16, k \in Nat : AtLoad(p, k)' /\ Placed(p, k)'
      BY <2>1, <2>3, LoadRequest
    <3>3. p \in 1..17
      OBVIOUS
    <3>4. QED
      BY <2>1, <2>2, <2>3, <3>1, <3>2, <3>3, IsAt
  <2>4. CASE call # "configure"
    <3>1. FpgaInv'
      BY <2>1, <2>4, OtherRequest
    <3>2. NoBurst(plan)'
      BY <1>1, <2>1, <2>4, SameNoBurst
    <3>3. QED
      BY <2>1, <2>2, <2>4, <3>1, <3>2, NotLoading
  <2>5. QED
    BY <2>3, <2>4
<1>8. CASE RequestFails
  <2>1. todo # <<>> /\ plan # <<>> /\ (CarriedOut(Head(todo)) \/ UNCHANGED <<debugger, fpga>>)
    BY <1>1, <1>8 DEF RequestFails
  <2>2. call # "idle" /\ result # "configured"
    BY <1>1, <2>1
  <2>3. max' = max /\ bits' = bits
    BY <1>8 DEF RequestFails, Continue, Return
  <2>4. ASSUME call # "configure"
        PROVE  FpgaInv'
    <3>1. CASE CarriedOut(Head(todo))
      BY <2>1, <2>4, <3>1, OtherRequest
    <3>2. CASE UNCHANGED <<debugger, fpga>>
      BY <1>1, <3>2, SameFpga DEF fpga
    <3>3. QED
      BY <2>1, <3>1, <3>2
  <2>5. CASE Head(plan) \in Ignored
    <3>1. Continue(Tail(plan)) /\ UNCHANGED <<status, found>>
      BY <1>8, <2>5 DEF RequestFails, Ignored, Guarded
    <3>2. CASE call = "configure"
      <4>1. FpgaInv'
        BY <2>1, <2>3, <3>1, <3>2, LoadRequest
      <4>2. PICK p \in 1..16, k \in Nat :
              /\ Head(plan) = ConfigureSram[p] /\ p + 1 \in 1..17
              /\ Tail(plan) = Onward(ConfigureSram, p + 1) /\ AtLoad(p, k)'
        BY <2>1, <2>3, <3>1, <3>2, LoadRequest
      <4>3. Head(plan) \in {"wait", "final"}
        BY <2>5, <3>2 DEF Ignored
      <4>4. p \in {3, 8, 15}
        <5>1. p \in {3, 8, 15} \/ p \in {1, 2, 4, 5, 6, 7, 9, 10, 11, 12, 13, 14, 16}
          OBVIOUS
        <5>2. p \in {1, 2, 4, 5, 6, 7, 9, 10, 11, 12, 13, 14, 16} =>
                ConfigureSram[p] \notin {"wait", "final"}
          BY ConfigureIs
        <5>3. QED
          BY <4>2, <4>3, <5>1, <5>2
      <4>5. LeavesOff'
        BY MayLeaveOff, PTL
      <4>6. AtLoad(p + 1, 1)'
        BY <4>2, <4>4, <4>5 DEF LeavesOff
      <4>7. PICK j : j = p + 1
        OBVIOUS
      <4>8. j \in 1..17 /\ Continue(Onward(ConfigureSram, j)) /\ AtLoad(j, 1)'
        BY <3>1, <4>2, <4>6, <4>7
      <4>9. QED
        BY <3>2, <4>1, <4>8, NextStep
    <3>3. CASE call # "configure"
      <4>1. call' = call /\ result' = result /\ plan' = Tail(plan)
        BY <3>1 DEF Continue
      <4>2. NoBurst(plan)'
        BY <1>1, <2>1, <3>3, <4>1, NoBurstLeft, SameNoBurst
      <4>3. QED
        BY <2>2, <2>3, <2>4, <3>3, <4>1, <4>2, NotLoading
    <3>4. QED
      BY <3>2, <3>3
  <2>6. CASE Head(plan) \notin Ignored /\ Guarded
    <3>1. Continue(GiveUp) /\ call = "registers"
      BY <1>8, <2>6 DEF RequestFails, Guarded
    <3>2. call' = call /\ result' = result /\ plan' = GiveUp
      BY <3>1 DEF Continue
    <3>3. NoBurst(plan)'
      BY <3>2, NoBurstLeft, SameNoBurst
    <3>4. QED
      BY <2>2, <2>3, <2>4, <3>1, <3>2, <3>3, NotLoading
  <2>7. CASE Head(plan) \notin Ignored /\ ~Guarded
    <3>1. Return("error")
      BY <1>8, <2>7 DEF RequestFails
    <3>2. call' = "idle" /\ plan' = <<>> /\ result' = "error" /\ UNCHANGED <<status, found>>
      BY <3>1 DEF Return
    <3>3. FpgaInv'
      BY <2>1, <2>3, <2>4, <3>2, LoadRequest
    <3>4. NoBurst(plan)'
      BY <3>2, NoBurstLeft, SameNoBurst
    <3>5. QED
      BY <2>3, <3>2, <3>3, <3>4, NotLoading
  <2>8. QED
    BY <2>5, <2>6, <2>7
<1>9. ASSUME todo = <<>>, plan # <<>>, UNCHANGED <<debugger, fpga>>, call # "configure",
             NEW p, NoBurst(p), Continue(p)
      PROVE  LoadInv'
  <2>1. call' = call /\ result' = result /\ plan' = p /\ max' = max
    BY <1>9 DEF Continue
  <2>2. FpgaInv'
    BY <1>1, <1>9, SameFpga DEF fpga
  <2>3. NoBurst(plan)'
    BY <1>9, <2>1, SameNoBurst
  <2>4. QED
    BY <1>1, <1>9, <2>1, <2>2, <2>3, NotLoading
<1>10. ASSUME todo = <<>>, plan # <<>>, UNCHANGED <<debugger, fpga>>, Continue(Tail(plan)),
              UNCHANGED found,
              status' = IF Head(plan) \in {"status", "final"} THEN captured ELSE status
       PROVE  LoadInv'
  <2>1. CASE call = "configure"
    BY <1>10, <2>1, LoadStepOver
  <2>2. CASE call # "configure"
    <3>1. NoBurst(Tail(plan))
      BY <1>1, <1>10, <2>2, NoBurstLeft
    <3>2. PICK p : p = Tail(plan)
      OBVIOUS
    <3>3. NoBurst(p) /\ Continue(p)
      BY <1>10, <3>1, <3>2
    <3>4. QED
      BY <1>9, <1>10, <2>2, <3>3
  <2>3. QED
    BY <2>1, <2>2
<1>11. CASE Waited
  <2>1. todo = <<>> /\ plan # <<>> /\ Head(plan) = "wait" /\ UNCHANGED <<debugger, fpga>>
    BY <1>11 DEF Waited, Over
  <2>2. FpgaInv'
    BY <1>1, <2>1, SameFpga DEF fpga
  <2>3. CASE ~MoreLooks
    <3>1. Continue(Tail(plan)) /\ UNCHANGED <<status, found>>
      BY <1>11, <2>3 DEF Waited
    <3>2. QED
      BY <1>10, <2>1, <3>1
  <2>4. CASE MoreLooks
    <3>1. todo' = Requests("wait") /\ UNCHANGED <<call, plan, bits, max, status, found, result>>
      BY <1>11, <2>4 DEF Waited
    <3>2. call # "idle" /\ result # "configured"
      BY <1>1, <2>1
    <3>3. CASE call = "configure"
      <4>1. PICK p \in 1..17, k \in Nat :
              /\ AtLoad(p, k) /\ p \in 1..16 /\ plan = Onward(ConfigureSram, p)
              /\ Head(plan) = ConfigureSram[p]
        BY <2>1, <3>3, LoadIsAt
      <4>2. p \in {3, 8}
        <5>1. p \in {3, 8} \/ p \in {1, 2, 4, 5, 6, 7, 9, 10, 11, 12, 13, 14, 15, 16}
          BY <4>1
        <5>2. p \in {1, 2, 4, 5, 6, 7, 9, 10, 11, 12, 13, 14, 15, 16} => ConfigureSram[p] # "wait"
          BY ConfigureIs
        <5>3. QED
          BY <2>1, <4>1, <5>1, <5>2
      <4>3. AtLoad(p, 1)
        BY <4>1, <4>2, MayLeaveOff DEF LeavesOff
      <4>4. AtLoad(p, 1)'
        <5>1. UNCHANGED <<max, bits, found, status, sram, enabled, shifted, out, captured>>
          BY <2>1, <3>1 DEF debugger, fpga
        <5>2. AtLoad(p, 1)' <=> AtLoad(p, 1)
          BY <5>1, SameLoad
        <5>3. QED
          BY <4>3, <5>2
      <4>5. Placed(p, 1)'
        <5>1. max \in Nat \ {0} /\ bits \in Bitstreams
          BY DEF TapInv
        <5>2. plan' = Onward(ConfigureSram, p) /\ todo' = Requests(ConfigureSram[p])
          BY <2>1, <3>1, <4>1
        <5>3. QED
          BY <3>1, <5>1, <5>2, Enters
      <4>6. 1 \in Nat
        OBVIOUS
      <4>7. QED
        BY <2>2, <3>1, <3>2, <3>3, <4>4, <4>5, <4>6, IsAt
    <3>4. CASE call # "configure"
      <4>1. NoBurst(plan)'
        BY <1>1, <3>1, <3>4, SameNoBurst
      <4>2. QED
        BY <2>2, <3>1, <3>2, <3>4, <4>1, NotLoading
    <3>5. QED
      BY <3>3, <3>4
  <2>5. QED
    BY <2>3, <2>4
<1>12. CASE Identified
  <2>1. /\ todo = <<>> /\ plan # <<>> /\ Head(plan) \in {"id", "instr_width"}
        /\ UNCHANGED <<status, debugger, fpga>>
    BY <1>12 DEF Identified, Over
  <2>2. CASE Continue(Tail(plan)) /\ UNCHANGED found
    BY <1>10, <2>1, <2>2
  <2>3. CASE Continue(GiveUp) /\ found' = FALSE
    <3>1. CASE call = "configure"
      <4>1. AtLoad(16, 1)'
        BY <2>3 DEF AtLoad
      <4>2. FpgaInv'
        BY <1>1, <2>1, SameFpga DEF fpga
      <4>3. Continue(Onward(ConfigureSram, 16)) /\ 16 \in 1..17
        BY <2>3, LastOfConfigure
      <4>4. QED
        BY <3>1, <4>1, <4>2, <4>3, NextStep
    <3>2. CASE call # "configure"
      BY <1>9, <2>1, <2>3, <3>2, NoBurstLeft
    <3>3. QED
      BY <3>1, <3>2
  <2>4. QED
    BY <1>12, <2>2, <2>3 DEF Identified
<1>13. CASE StatusRead
  <2>1. /\ todo = <<>> /\ plan # <<>> /\ Head(plan) \in {"status", "final"}
        /\ UNCHANGED <<found, debugger, fpga>> /\ Continue(Tail(plan)) /\ status' = captured
    BY <1>13 DEF StatusRead, Over
  <2>2. QED
    BY <1>10, <2>1
<1>14. CASE StepOver
  <2>1. /\ todo = <<>> /\ plan # <<>> /\ Head(plan) \notin {"status", "final"}
        /\ UNCHANGED <<status, found, debugger, fpga>> /\ Continue(Tail(plan))
    BY <1>14 DEF StepOver, Over
  <2>2. QED
    BY <1>10, <2>1
<1>15. CASE Finish
  <2>1. /\ plan = <<>> /\ call # "idle" /\ call' = "idle" /\ plan' = <<>>
        /\ UNCHANGED <<max, bits, debugger, fpga>>
        /\ result' = "configured" => found /\ call = "configure" /\ Accepted
    BY <1>15 DEF Finish, Return
  <2>2. FpgaInv'
    BY <1>1, <2>1, SameFpga DEF fpga
  <2>3. NoBurst(plan)'
    BY <2>1, NoBurstLeft, SameNoBurst
  <2>4. ASSUME result' = "configured"
        PROVE  sram' = InOrder(bits)'
    <3>1. PICK p \in 1..17, k \in Nat : p = 17 /\ AtLoad(p, k)
      BY <2>1, <2>4, LoadIsAt
    <3>2. status.done => sram = InOrder(bits)
      BY <2>1, <2>4, <3>1 DEF AtLoad
    <3>3. sram = InOrder(bits)
      BY <2>1, <2>4, <3>2 DEF Accepted
    <3>4. InOrder(bits)' = InOrder(bits)
      BY <2>1, SameSent
    <3>5. QED
      BY <2>1, <3>3, <3>4 DEF fpga
  <2>5. QED
    BY <2>1, <2>2, <2>3, <2>4, NotLoading
<1>16. ASSUME UNCHANGED <<program, todo, debugger, sram, enabled>>, FpgaInv'
       PROVE  LoadInv'
  <2>1. /\ UNCHANGED <<call, plan, bits, max, status, found, result, todo, sram, enabled, shifted,
                       out, captured>>
    BY <1>16 DEF program, debugger
  <2>2. CASE call = "configure"
    <3>1. PICK p \in 1..17 : \E k \in Nat : Placed(p, k) /\ AtLoad(p, k)
      BY <2>2 DEF LoadInv
    <3>2. PICK k \in Nat : Placed(p, k) /\ AtLoad(p, k)
      BY <3>1
    <3>3. AtLoad(p, k)'
      BY <2>1, <3>2, SameLoad
    <3>4. Placed(p, k)'
      <4>1. PICK s : s = ConfigureSram[p]
        OBVIOUS
      <4>2. Requests(s)' = Requests(s)
        BY <2>1, SameRequests
      <4>3. Requests(ConfigureSram[p])' = Requests(ConfigureSram[p])
        BY <4>1, <4>2
      <4>4. QED
        BY <2>1, <3>2, <4>3 DEF Placed
    <3>5. result' # "configured"
      BY <1>1, <2>1, <2>2
    <3>6. QED
      BY <1>16, <2>1, <2>2, <3>3, <3>4, <3>5, IsAt
  <2>3. CASE call # "configure"
    <3>1. NoBurst(plan)'
      BY <1>1, <2>1, <2>3, SameNoBurst
    <3>2. InOrder(bits)' = InOrder(bits)
      BY <2>1, SameSent
    <3>3. QED
      BY <1>1, <1>16, <2>1, <2>3, <3>1, <3>2, NotLoading
  <2>4. QED
    BY <2>2, <2>3
<1>17. CASE Ready
  <2>1. UNCHANGED <<program, todo, debugger, sram, enabled>> /\ busy' = FALSE
    BY <1>17 DEF Ready
  <2>2. FpgaInv'
    BY <1>1, <2>1 DEF FpgaInv
  <2>3. QED
    BY <1>16, <2>1, <2>2
<1>18. CASE UNCHANGED vars
  <2>1. UNCHANGED <<program, todo, debugger, sram, enabled, busy>>
    BY <1>18 DEF vars, fpga
  <2>2. FpgaInv'
    BY <1>1, <2>1, SameFpga
  <2>3. QED
    BY <1>16, <2>1, <2>2
<1>19. QED
  BY <1>2, <1>4, <1>5, <1>6, <1>7, <1>8, <1>11, <1>12, <1>13, <1>14, <1>15, <1>17, <1>18 DEF Next

\* LoadInv is an invariant, and gives the properties.
LEMMA LoadInvariance == FlashSpec => [](BuffersFit => LoadInv)
<1>1. Init => (BuffersFit => LoadInv)
  BY LoadInitially
<1>2. BuffersFit' = BuffersFit
  BY DEF BuffersFit, MaxBytes
<1>3. TapInv /\ (BuffersFit => LoadInv) /\ [Next]_vars => (BuffersFit => LoadInv)'
  BY <1>2, LoadInductive
<1>4. QED
  BY <1>1, <1>3, StepOfJtag, TapInvariance, PTL

LEMMA LoadGives ==
    ASSUME TapInv, LoadInv
    PROVE  LoadsInOrder /\ OkMeansConfigured
<1>1. bits \in Bitstreams /\ max \in Nat \ {0}
  BY DEF TapInv
<1>2. OkMeansConfigured
  BY DEF OkMeansConfigured, LoadInv
<1>3. ASSUME Loading
      PROVE  /\ Head(plan) = "burst" => IsPrefix(sram, InOrder(bits))
             /\ Head(plan) \in {"no_op", "status", "disable", "final"} => sram = InOrder(bits)
  <2>1. call = "configure" /\ plan # <<>> /\ ~Unloaded
    BY <1>3 DEF Loading, Unloaded
  <2>2. PICK p \in 1..17, k \in Nat :
          AtLoad(p, k) /\ p \in 1..16 /\ Head(plan) = ConfigureSram[p]
    BY <2>1, LoadIsAt
  <2>3. CASE p = 11
    <3>1. Head(plan) = "burst"
      BY <2>2, <2>3, ConfigureIs
    <3>2. Bursting(k)
      BY <2>1, <2>2, <2>3 DEF AtLoad
    <3>3. PICK m \in 0..Chunks : sram = Sent(m)
      BY <2>1, <3>2, NoDesign DEF Bursting, Loaded
    <3>4. QED
      BY <1>1, <3>1, <3>3, SentBegins
  <2>4. CASE p \in {12, 13, 14, 15}
    <3>1. Head(plan) # "burst"
      BY <2>2, <2>4, ConfigureIs
    <3>2. p \in 12..17 /\ ~(p >= 16)
      BY <2>4
    <3>3. sram = InOrder(bits)
      BY <2>1, <2>2, <3>2 DEF AtLoad, Whole
    <3>4. QED
      BY <3>1, <3>3
  <2>5. CASE p \in {1, 2, 3, 4, 5, 6, 7, 8, 9, 10, 16}
    <3>1. ConfigureSram[p] \notin {"burst", "no_op", "status", "disable", "final"}
      BY <2>5, ConfigureIs
    <3>2. QED
      BY <2>2, <3>1
  <2>6. QED
    <3>1. p = 11 \/ p \in {12, 13, 14, 15} \/ p \in {1, 2, 3, 4, 5, 6, 7, 8, 9, 10, 16}
      BY <2>2
    <3>2. QED
      BY <2>3, <2>4, <2>5, <3>1
<1>4. LoadsInOrder
  BY <1>3 DEF LoadsInOrder
<1>5. QED
  BY <1>2, <1>4

\* If the debugger's buffers are no longer than a scan can be, the FPGA gets
\* the bits of every file in its order, in chunks of whatever size, and
\* whichever requests fail.
THEOREM LoadsTheFile == FlashSpec => [](BuffersFit => LoadsInOrder)
<1>1. TapInv /\ (BuffersFit => LoadInv) => (BuffersFit => LoadsInOrder)
  BY LoadGives
<1>2. QED
  BY <1>1, TapInvariance, LoadInvariance, PTL

\* And flash then reports success only of an FPGA that runs that file, even
\* when its waits have given up.
THEOREM OkOnlyIfConfigured == FlashSpec => [](BuffersFit => OkMeansConfigured)
<1>1. TapInv /\ (BuffersFit => LoadInv) => (BuffersFit => OkMeansConfigured)
  BY LoadGives
<1>2. QED
  BY <1>1, TapInvariance, LoadInvariance, PTL
==============================================================================
