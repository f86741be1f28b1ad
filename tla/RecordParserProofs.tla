------------------------- MODULE RecordParserProofs -------------------------
(***************************************************************************)
(* Theorems about RecordParser, for every number of byte values, every     *)
(* stream of bytes and every size of the reads; and about what it makes of *)
(* the encodings of records.                                               *)
(***************************************************************************)
EXTENDS AnalyzerStream, DataLemmas

(* clk_to_ns is the exact time of a cycle count, rounded down: the table   *)
(* replaces a division of 50 times the count, which could overflow.        *)
THEOREM ClkToNsExact ==
    ASSUME NEW c \in Nat
    PROVE  ClkToNs(c) = (50 * c) \div 3
<1> DEFINE q == c \div 3
           r == c % 3
<1>1. q \in Nat /\ r \in 0..2 /\ c = 3 * q + r
  OBVIOUS
<1> HIDE DEF q, r
<1>2. ClkToNs(c) = q * 50 + <<0, 16, 33>>[r + 1]
  BY DEF ClkToNs, q, r
<1>3. CASE r = 0
  BY <1>1, <1>2, <1>3
<1>4. CASE r = 1
  BY <1>1, <1>2, <1>4
<1>5. CASE r = 2
  BY <1>1, <1>2, <1>5
<1>6. QED
  BY <1>1, <1>3, <1>4, <1>5

LEMMA ClkToNsMonotone ==
    ASSUME NEW c \in Nat, NEW d \in Nat, c <= d
    PROVE  ClkToNs(c) \in Nat /\ ClkToNs(d) \in Nat /\ ClkToNs(c) <= ClkToNs(d)
<1>1. (50 * c) \div 3 \in Nat /\ (50 * d) \div 3 \in Nat
      /\ (50 * c) \div 3 <= (50 * d) \div 3
  OBVIOUS
<1>2. QED
  BY <1>1, ClkToNsExact

LEMMA BigEndianType ==
    ASSUME NEW hi \in Byte, NEW lo \in Byte
    PROVE  BigEndian(hi, lo) \in Nat
<1>1. hi \in Nat /\ lo \in Nat /\ Base \in Nat
  BY ParserAssumption DEF Byte
<1>2. hi * Base \in Nat
  BY <1>1
<1>3. QED
  BY <1>1, <1>2 DEF BigEndian

(* The header of a record that is complete enough to be looked at.         *)
LEMMA HeaderType ==
    ASSUME TypeOK, Left >= 4
    PROVE  /\ \A i \in 1..Left : Peek(i) \in Byte
           /\ Length \in Nat
           /\ Clock \in Nat /\ cycles <= Clock
<1>1. pos \in Nat /\ Len(buf) \in Nat /\ Left \in Nat
  BY DEF TypeOK, Left
<1>2. \A i \in 1..Left : Peek(i) \in Byte
  <2>1. TAKE i \in 1..Left
  <2>2. pos + i \in 1..Len(buf)
    BY <1>1 DEF Left
  <2>3. QED
    BY <2>2, ElementOfSeq DEF Peek, TypeOK
<1>3. Peek(1) \in Byte /\ Peek(2) \in Byte /\ Peek(3) \in Byte /\ Peek(4) \in Byte
  BY <1>1, <1>2
<1>4. Length \in Nat /\ Delta \in Nat
  BY <1>3, BigEndianType DEF Length, Delta
<1>5. QED
  BY <1>2, <1>4 DEF Clock, TypeOK

LEMMA TypeInitially == Init => TypeOK
  BY ParserAssumption, EmptySeq DEF Init, TypeOK

(* Emit, for any record that the buffer holds in full.                     *)
LEMMA EmitType ==
    ASSUME TypeOK, Left >= 4, NEW n \in Nat, n <= Left,
           NEW event \in BOOLEAN, NEW body \in Seq(Byte), Emit(n, event, body)
    PROVE  TypeOK'
<1> DEFINE item == [ns |-> ClkToNs(Clock), event |-> event, body |-> body]
<1>1. Clock \in Nat
  BY HeaderType
<1>2. item \in Item
  <2>1. ClkToNs(Clock) \in Nat
    <3>1. Clock <= Clock
      BY <1>1
    <3>2. QED
      BY <1>1, <3>1, ClkToNsMonotone
  <2>2. QED
    BY <2>1 DEF Item
<1>3. out' = Append(out, item) /\ out \in Seq(Item)
  BY DEF Emit, TypeOK
<1> HIDE DEF item
<1>4. out' \in Seq(Item)
  BY <1>2, <1>3
<1>5. pos' \in 0..Len(buf')
  BY DEF Emit, TypeOK, Left
<1>6. QED
  BY <1>1, <1>4, <1>5 DEF Emit, TypeOK

LEMMA KeptProperties ==
    ASSUME TypeOK
    PROVE  /\ Kept \in Seq(Byte)
           /\ Len(Kept) = Left /\ Left \in Nat
           /\ \A i \in 1..Left : Kept[i] = Peek(i)
<1>1. /\ pos + 1 \in Int /\ Len(buf) \in Int
      /\ \A i \in pos + 1..Len(buf) : buf[i] \in Byte
  BY ElementOfSeq DEF TypeOK
<1>2. /\ Kept \in Seq(Byte)
      /\ Len(Kept) = IF pos + 1 <= Len(buf) THEN Len(buf) - (pos + 1) + 1 ELSE 0
      /\ \A i \in 1..Len(buf) - (pos + 1) + 1 : Kept[i] = buf[pos + 1 + i - 1]
  BY <1>1, SubSeqProperties DEF Kept
<1>3. pos \in Nat /\ Len(buf) \in Nat /\ pos <= Len(buf)
  BY DEF TypeOK
<1>4. \A i \in 1..Left : pos + 1 + i - 1 = pos + i
  BY <1>3 DEF Left
<1>5. QED
  BY <1>2, <1>3, <1>4 DEF Left, Peek

LEMMA FreshProperties ==
    ASSUME TypeOK, NEW k \in 1..ReadLen, fed + k <= Len(wire)
    PROVE  LET fresh == SubSeq(wire, fed + 1, fed + k) IN
           /\ fresh \in Seq(Byte)
           /\ Len(fresh) = k
           /\ \A i \in 1..k : fresh[i] = wire[fed + i]
<1>1. /\ fed \in Nat /\ k \in Nat /\ k >= 1 /\ Len(wire) \in Nat
  BY ParserAssumption DEF TypeOK
<1>2. \A i \in fed + 1..fed + k : wire[i] \in Byte
  BY <1>1, ElementOfSeq DEF TypeOK
<1> DEFINE fresh == SubSeq(wire, fed + 1, fed + k)
<1>3. /\ fresh \in Seq(Byte)
      /\ Len(fresh) = IF fed + 1 <= fed + k THEN fed + k - (fed + 1) + 1 ELSE 0
      /\ \A i \in 1..fed + k - (fed + 1) + 1 : fresh[i] = wire[fed + 1 + i - 1]
  BY <1>1, <1>2, SubSeqProperties
<1>4. \A i \in 1..k : fed + 1 + i - 1 = fed + i
  BY <1>1
<1>5. QED
  BY <1>1, <1>3, <1>4

(* What extend leaves in the buffer: the bytes not consumed yet, and after *)
(* them the fresh ones.                                                    *)
LEMMA ExtendEffect ==
    ASSUME TypeOK, NEW k \in 1..ReadLen, Extend(k)
    PROVE  /\ buf' \in Seq(Byte)
           /\ Len(buf') = Left + k /\ Left \in Nat /\ k \in Nat
           /\ \A i \in 1..Left : buf'[i] = Peek(i)
           /\ \A i \in 1..k : buf'[Left + i] = wire[fed + i]
<1> DEFINE fresh == SubSeq(wire, fed + 1, fed + k)
<1>1. /\ Kept \in Seq(Byte) /\ Len(Kept) = Left /\ Left \in Nat
      /\ \A i \in 1..Left : Kept[i] = Peek(i)
  BY KeptProperties
<1>2. /\ fresh \in Seq(Byte) /\ Len(fresh) = k
      /\ \A i \in 1..k : fresh[i] = wire[fed + i]
  BY FreshProperties DEF Extend
<1>3. buf' = Kept \o fresh /\ k \in Nat
  BY ParserAssumption DEF Extend
<1> HIDE DEF fresh
<1>4. /\ buf' \in Seq(Byte) /\ Len(buf') = Left + k
      /\ \A i \in 1..Left + k :
            buf'[i] = IF i <= Left THEN Kept[i] ELSE fresh[i - Left]
  <2>1. /\ Kept \o fresh \in Seq(Byte)
        /\ Len(Kept \o fresh) = Len(Kept) + Len(fresh)
        /\ \A i \in 1..Len(Kept) + Len(fresh) : (Kept \o fresh)[i] =
              IF i <= Len(Kept) THEN Kept[i] ELSE fresh[i - Len(Kept)]
    BY <1>1, <1>2, ConcatProperties
  <2>2. QED
    BY <1>1, <1>2, <1>3, <2>1
<1>5. \A i \in 1..Left : buf'[i] = Peek(i)
  BY <1>1, <1>3, <1>4
<1>6. \A i \in 1..k : buf'[Left + i] = wire[fed + i]
  <2>1. TAKE i \in 1..k
  <2> DEFINE j == Left + i
  <2>2. j \in 1..Left + k /\ ~(j <= Left) /\ j - Left = i
    BY <1>1, <1>3
  <2> HIDE DEF j
  <2>3. buf'[j] = fresh[i]
    BY <1>4, <2>2
  <2>4. QED
    BY <1>2, <2>3 DEF j
<1>7. QED
  BY <1>1, <1>3, <1>4, <1>5, <1>6

(* Both kinds of records, as an Emit of a record the buffer holds in full. *)
LEMMA EmitCases ==
    ASSUME TypeOK, NextEvent \/ NextPacket
    PROVE  /\ Left >= 4
           /\ \E n \in Nat, event \in BOOLEAN, body \in Seq(Byte) :
                 n <= Left /\ Emit(n, event, body)
<1>1. Left >= 4 /\ Left \in Int
  <2>1. Left >= 4
    BY DEF NextEvent, NextPacket
  <2>2. Len(buf) \in Int /\ pos \in Int
    BY DEF TypeOK
  <2>3. QED
    BY <2>1, <2>2 DEF Left
<1>2. CASE NextEvent
  <2>1. Peek(2) \in Byte
    BY <1>1, HeaderType
  <2>2. <<Peek(2)>> \in Seq(Byte)
    BY <2>1
  <2>3. QED
    BY <1>1, <1>2, <2>2 DEF NextEvent
<1>3. CASE NextPacket
  <2>1. Length \in Nat
    BY <1>1, HeaderType
  <2>2. Total(Length) \in Nat /\ 4 + Length <= Total(Length)
    BY <2>1 DEF Total
  <2>3. Total(Length) <= Left
    BY <1>1, <1>3, <2>2 DEF NextPacket
  <2>4. pos \in Nat /\ Len(buf) \in Nat
    BY DEF TypeOK
  <2>5. \A i \in pos + 5..pos + 4 + Length : i \in 1..Len(buf)
    BY <1>1, <2>1, <2>2, <2>3, <2>4 DEF Left
  <2>6. \A i \in pos + 5..pos + 4 + Length : buf[i] \in Byte
    BY <2>5, ElementOfSeq DEF TypeOK
  <2>7. pos + 5 \in Int /\ pos + 4 + Length \in Int
    BY <2>1, <2>4
  <2>8. SubSeq(buf, pos + 5, pos + 4 + Length) \in Seq(Byte)
    BY <2>6, <2>7, SubSeqProperties
  <2>9. QED
    BY <1>1, <1>3, <2>2, <2>3, <2>8 DEF NextPacket
<1>4. QED
  BY <1>1, <1>2, <1>3

LEMMA TypeInductive == TypeOK /\ [Next]_vars => TypeOK'
<1> SUFFICES ASSUME TypeOK, [Next]_vars PROVE TypeOK'
  OBVIOUS
<1>1. ASSUME NEW k \in 1..ReadLen, Extend(k) PROVE TypeOK'
  <2>1. /\ buf' \in Seq(Byte) /\ Len(buf') \in Nat
    BY <1>1, ExtendEffect
  <2>2. fed' \in 0..Len(wire')
    BY <1>1, ParserAssumption DEF Extend, TypeOK
  <2>3. QED
    BY <1>1, <2>1, <2>2 DEF Extend, Consumed, TypeOK
<1>2. ASSUME NextEvent \/ NextPacket PROVE TypeOK'
  BY <1>2, EmitCases, EmitType
<1>3. CASE UNCHANGED vars
  BY <1>3 DEF vars, TypeOK
<1>4. QED
  BY <1>1, <1>2, <1>3 DEF Next

(* Every variable keeps its type; in particular pos never passes the end of *)
(* buf, so the slices of next_item and the drain of extend are in bounds.   *)
THEOREM TypeCorrect == Spec => []TypeOK
  BY TypeInitially, TypeInductive, PTL DEF Spec

(* Besides the order of the timestamps returned: none is later than the    *)
(* clock, to which the next delta is added.                                *)
TimeInv ==
    /\ \A i \in 1..Len(out) : out[i].ns \in Nat /\ out[i].ns <= ClkToNs(cycles)
    /\ TimeIsMonotone

LEMMA TimeInductive == TypeOK /\ TimeInv /\ [Next]_vars => TimeInv'
<1> SUFFICES ASSUME TypeOK, TimeInv, [Next]_vars PROVE TimeInv'
  OBVIOUS
<1>1. ASSUME NextEvent \/ NextPacket PROVE TimeInv'
  <2>1. PICK n \in Nat, event \in BOOLEAN, body \in Seq(Byte) :
           Emit(n, event, body)
    BY <1>1, EmitCases
  <2>2. cycles \in Nat /\ Clock \in Nat /\ cycles <= Clock
    BY <1>1, EmitCases, HeaderType DEF TypeOK
  <2>3. /\ ClkToNs(cycles) \in Nat /\ ClkToNs(Clock) \in Nat
        /\ ClkToNs(cycles) <= ClkToNs(Clock)
    BY <2>2, ClkToNsMonotone
  <2> DEFINE item == [ns |-> ClkToNs(Clock), event |-> event, body |-> body]
  <2>4. out' = Append(out, item) /\ out \in Seq(Item) /\ item.ns = ClkToNs(Clock)
    BY <2>1 DEF Emit, TypeOK
  <2>5. ClkToNs(cycles') = ClkToNs(Clock)
    BY <2>1 DEF Emit
  <2> HIDE DEF item
  <2>6. item \in Item
    BY <2>2, ClkToNsMonotone DEF item, Item
  <2>7. /\ Len(out') = Len(out) + 1 /\ Len(out) \in Nat
        /\ \A i \in 1..Len(out) : out'[i] = out[i]
        /\ out'[Len(out) + 1] = item
    BY <2>4, <2>6
  <2>8. \A i \in 1..Len(out) : out'[i].ns \in Nat /\ out'[i].ns <= ClkToNs(Clock)
    BY <2>3, <2>7 DEF TimeInv
  <2>9. \A i \in 1..Len(out') : out'[i].ns \in Nat /\ out'[i].ns <= ClkToNs(Clock)
    BY <2>3, <2>4, <2>7, <2>8
  <2>10. \A i, j \in 1..Len(out') : i < j => out'[i].ns <= out'[j].ns
    <3>1. TAKE i, j \in 1..Len(out')
    <3>2. HAVE i < j
    <3>3. CASE j \in 1..Len(out)
      BY <2>7, <3>2, <3>3 DEF TimeInv, TimeIsMonotone
    <3>4. CASE j = Len(out) + 1
      BY <2>4, <2>7, <2>9, <3>4
    <3>5. QED
      BY <2>7, <3>3, <3>4
  <2>11. QED
    BY <2>5, <2>9, <2>10 DEF TimeInv, TimeIsMonotone
<1>2. CASE (\E k \in 1..ReadLen : Extend(k)) \/ UNCHANGED vars
  BY <1>2 DEF Extend, vars, TimeInv, TimeIsMonotone
<1>3. QED
  BY <1>1, <1>2 DEF Next

(* Timestamps never run backwards, however the stream is cut into reads.   *)
THEOREM TimeNeverRunsBack == Spec => []TimeIsMonotone
<1>1. Init => TimeInv
  BY DEF Init, TimeInv, TimeIsMonotone
<1>2. TimeInv => TimeIsMonotone
  BY DEF TimeInv
<1>3. QED
  BY <1>1, <1>2, TypeCorrect, TimeInductive, PTL DEF Spec

LEMMA TailInductive == TypeOK /\ BufferIsTail /\ [Next]_vars => BufferIsTail'
<1> SUFFICES ASSUME TypeOK, BufferIsTail, [Next]_vars PROVE BufferIsTail'
  OBVIOUS
<1>1. ASSUME NEW k \in 1..ReadLen, Extend(k) PROVE BufferIsTail'
  <2>1. /\ Len(buf') = Left + k /\ Left \in Nat /\ k \in Nat
        /\ \A i \in 1..Left : buf'[i] = Peek(i)
        /\ \A i \in 1..k : buf'[Left + i] = wire[fed + i]
    BY <1>1, ExtendEffect
  <2>2. pos' = 0 /\ fed' = fed + k /\ wire' = wire /\ fed \in Nat
    BY <1>1 DEF Extend, Consumed, TypeOK
  <2>3. ASSUME NEW i \in 1..Left + k PROVE buf'[i] = wire[fed - Left + i]
    <3>1. CASE i \in 1..Left
      BY <2>1, <3>1 DEF BufferIsTail
    <3>2. CASE i \notin 1..Left
      <4>1. i - Left \in 1..k /\ Left + (i - Left) = i
            /\ fed + (i - Left) = fed - Left + i
        BY <2>1, <2>2, <3>2
      <4>2. buf'[Left + (i - Left)] = wire[fed + (i - Left)]
        BY <2>1, <4>1
      <4>3. QED
        BY <4>1, <4>2
    <3>3. QED
      BY <3>1, <3>2
  <2>4. Len(buf') - pos' = Left + k
    BY <2>1, <2>2
  <2>5. ASSUME NEW i \in 1..Left + k
        PROVE  /\ pos' + i = i
               /\ fed' - (Len(buf') - pos') + i = fed - Left + i
    BY <2>1, <2>2
  <2>6. QED
    BY <2>2, <2>3, <2>4, <2>5 DEF BufferIsTail, Peek, Left
<1>2. ASSUME NextEvent \/ NextPacket PROVE BufferIsTail'
  <2>1. PICK n \in Nat, event \in BOOLEAN, body \in Seq(Byte) :
           n <= Left /\ Emit(n, event, body)
    BY <1>2, EmitCases
  <2>2. /\ buf' = buf /\ pos' = pos + n /\ fed' = fed /\ wire' = wire
        /\ pos \in Nat /\ Len(buf) \in Nat /\ fed \in Nat
    BY <2>1 DEF Emit, TypeOK
  <2>3. ASSUME NEW i \in 1..Len(buf) - (pos + n)
        PROVE  buf[pos + n + i] = wire[fed - (Len(buf) - (pos + n)) + i]
    <3>1. /\ n + i \in 1..Len(buf) - pos
          /\ pos + (n + i) = pos + n + i
          /\ fed - (Len(buf) - pos) + (n + i) = fed - (Len(buf) - (pos + n)) + i
      BY <2>2
    <3>2. buf[pos + (n + i)] = wire[fed - (Len(buf) - pos) + (n + i)]
      BY <3>1 DEF BufferIsTail, Peek, Left
    <3>3. QED
      BY <3>1, <3>2
  <2>4. QED
    BY <2>2, <2>3 DEF BufferIsTail, Peek, Left
<1>3. CASE UNCHANGED vars
  BY <1>3 DEF vars, BufferIsTail, Peek, Left
<1>4. QED
  BY <1>1, <1>2, <1>3 DEF Next

(* The bytes not consumed yet are the last ones fed, whatever the size of  *)
(* the reads and wherever extend cut the buffer.                           *)
THEOREM NothingMovesInBuffer == Spec => []BufferIsTail
<1>1. Init => BufferIsTail
  BY DEF Init, BufferIsTail, Left
<1>2. QED
  BY <1>1, TypeCorrect, TailInductive, PTL DEF Spec
-----------------------------------------------------------------------------
(* The encoding of records.                                                *)

\* A number in two bytes, and read back.
LEMMA TwoBytes ==
    ASSUME NEW x \in 0..Base * Base - 1
    PROVE  x \div Base \in Byte /\ x % Base \in Byte
           /\ BigEndian(x \div Base, x % Base) = x
<1> DEFINE q == x \div Base
           m == x % Base
<1>1. Base \in Nat /\ Base > 1
  BY ParserAssumption
<1>2. Base * Base \in Nat
  BY <1>1
<1>3. x \in Nat /\ x < Base * Base
  BY <1>2
<1>4. q \in Int /\ m \in 0..Base - 1 /\ x = Base * q + m
  BY <1>1, <1>3
<1> HIDE DEF q, m
<1>5. q >= 0
  <2> SUFFICES ASSUME q <= -1 PROVE FALSE
    BY <1>4
  <2>1. Base * q <= Base * (-1)
    BY <1>1, <1>4
  <2>2. QED
    BY <1>1, <1>3, <1>4, <2>1
<1>6. q <= Base - 1
  <2> SUFFICES ASSUME q >= Base PROVE FALSE
    BY <1>1, <1>4
  <2>1. Base * q >= Base * Base
    BY <1>1, <1>4
  <2>2. QED
    BY <1>1, <1>2, <1>3, <1>4, <2>1
<1>7. q * Base = Base * q
  BY <1>1, <1>4
<1>8. q \in Byte /\ m \in Byte
  BY <1>1, <1>4, <1>5, <1>6 DEF Byte
<1>9. BigEndian(q, m) = x
  BY <1>4, <1>7 DEF BigEndian
<1>10. QED
  BY <1>8, <1>9 DEF q, m

\* A length whose high byte does not mark an event.
LEMMA PlainLength ==
    ASSUME NEW x \in Nat, x < (Base - 1) * Base
    PROVE  x \in 0..Base * Base - 1 /\ x \div Base # Base - 1
<1> DEFINE q == x \div Base
           m == x % Base
<1>1. Base \in Nat /\ Base > 1
  BY ParserAssumption
<1>2. Base * Base \in Nat /\ (Base - 1) * Base = Base * Base - Base
  BY <1>1
<1>3. q \in Int /\ m \in 0..Base - 1 /\ x = Base * q + m
  BY <1>1
<1>4. x \in 0..Base * Base - 1
  BY <1>1, <1>2
<1> HIDE DEF q, m
<1>5. ASSUME q = Base - 1 PROVE FALSE
  <2>1. Base * q = Base * Base - Base
    BY <1>1, <1>5
  <2>2. QED
    BY <1>1, <1>2, <1>3, <2>1
<1>6. QED
  BY <1>4, <1>5 DEF q

\* f is four sequences, one after the other.
Follow(f, a, b, c, d, S) ==
    /\ f \in Seq(S) /\ Len(f) = Len(a) + Len(b) + Len(c) + Len(d)
    /\ \A i \in 1..Len(a) : f[i] = a[i]
    /\ \A i \in 1..Len(b) : f[Len(a) + i] = b[i]
    /\ \A i \in 1..Len(c) : f[Len(a) + Len(b) + i] = c[i]

\* Four sequences, joined.
LEMMA FourParts ==
    ASSUME NEW S, NEW a \in Seq(S), NEW b \in Seq(S), NEW c \in Seq(S), NEW d \in Seq(S)
    PROVE  Follow(a \o b \o c \o d, a, b, c, d, S)
<1> DEFINE x == a \o b
           y == x \o c
           z == y \o d
           la == Len(a)
           lb == Len(b)
           lc == Len(c)
           ld == Len(d)
<1>1. /\ la \in Nat /\ lb \in Nat /\ lc \in Nat /\ ld \in Nat
  OBVIOUS
<1>2. /\ x \in Seq(S) /\ Len(x) = la + lb
      /\ \A i \in 1..la + lb : x[i] = IF i <= la THEN a[i] ELSE b[i - la]
  BY Joined
<1>a. x \in Seq(S)
  BY <1>2
<1> HIDE DEF x
<1>3. /\ y \in Seq(S) /\ Len(y) = Len(x) + lc
      /\ \A i \in 1..Len(x) + lc : y[i] = IF i <= Len(x) THEN x[i] ELSE c[i - Len(x)]
  BY <1>a, Joined
<1>b. y \in Seq(S)
  BY <1>3
<1> HIDE DEF y
<1>4. /\ z \in Seq(S) /\ Len(z) = Len(y) + ld
      /\ \A i \in 1..Len(y) + ld : z[i] = IF i <= Len(y) THEN y[i] ELSE d[i - Len(y)]
  BY <1>b, Joined
<1> HIDE DEF z, la, lb, lc, ld
<1>5. Len(x) = la + lb /\ Len(y) = la + lb + lc
  BY <1>2, <1>3
<1>6. \A i \in 1..la + lb + lc : z[i] = y[i]
  BY <1>1, <1>4, <1>5
<1>7. \A i \in 1..la + lb : y[i] = x[i]
  BY <1>1, <1>3, <1>5
<1>8. \A i \in 1..la + lb : z[i] = x[i]
  BY <1>1, <1>5, <1>6, <1>7
<1>9. \A i \in 1..la : z[i] = a[i]
  BY <1>1, <1>2, <1>8
<1>10. ASSUME NEW i \in 1..lb PROVE z[la + i] = b[i]
  <2>1. la + i \in 1..la + lb /\ ~(la + i <= la) /\ (la + i) - la = i
    BY <1>1
  <2>2. x[la + i] = b[i]
    BY <1>2, <2>1
  <2>3. QED
    BY <1>8, <2>1, <2>2
<1>11. ASSUME NEW i \in 1..lc PROVE z[la + lb + i] = c[i]
  <2>1. la + lb + i \in 1..la + lb + lc /\ ~(la + lb + i <= la + lb) /\ (la + lb + i) - (la + lb) = i
    BY <1>1
  <2>2. y[la + lb + i] = c[i]
    BY <1>3, <1>5, <2>1
  <2>3. QED
    BY <1>6, <2>1, <2>2
<1>12. z \in Seq(S) /\ Len(z) = la + lb + lc + ld
  BY <1>1, <1>4, <1>5
<1>13. z = a \o b \o c \o d
  BY DEF x, y, z
<1>14. QED
  BY <1>9, <1>10, <1>11, <1>12, <1>13 DEF Follow, la, lb, lc, ld

\* Bytes e are those of record r: their header and, behind it, what it says.
Spells(e, r) ==
    /\ e \in Seq(Byte)
    /\ e[3] = r.delta \div Base /\ e[4] = r.delta % Base
    /\ IF r.event
       THEN Len(e) = 4 /\ e[1] = Base - 1 /\ e[2] = r.body[1]
       ELSE /\ Len(e) = Total(Len(r.body))
            /\ e[1] = Len(r.body) \div Base /\ e[2] = Len(r.body) % Base
            /\ \A i \in 1..Len(r.body) : e[4 + i] = r.body[i]

\* A record is what its set says.
LEMMA RecordIs ==
    ASSUME NEW r \in Record
    PROVE  /\ r.event \in BOOLEAN /\ r.body \in Seq(Byte) /\ r.delta \in 0..Base * Base - 1
           /\ r.event => Len(r.body) = 1
           /\ ~r.event => Len(r.body) < (Base - 1) * Base
  BY DEF Record

\* The encoding spells the record.
LEMMA EncodeSpells ==
    ASSUME NEW r \in Record
    PROVE  Spells(Encode(r), r)
<1> DEFINE l == Len(r.body)
           b == r.body
           d == <<r.delta \div Base, r.delta % Base>>
           e == Encode(r)
<1>1. b \in Seq(Byte) /\ l \in Nat /\ r.event \in BOOLEAN
  BY RecordIs
<1>2. d \in Seq(Byte) /\ Len(d) = 2 /\ d[1] = r.delta \div Base /\ d[2] = r.delta % Base
  <2> DEFINE p == r.delta \div Base
             q == r.delta % Base
  <2>1. p \in Byte /\ q \in Byte
    BY RecordIs, TwoBytes
  <2> HIDE DEF p, q
  <2>2. <<p, q>> \in Seq(Byte) /\ Len(<<p, q>>) = 2 /\ <<p, q>>[1] = p /\ <<p, q>>[2] = q
    BY <2>1
  <2>3. QED
    BY <2>2 DEF p, q
<1>3. Base - 1 \in Byte
  BY ParserAssumption DEF Byte
<1>4. CASE r.event
  <2> DEFINE m == <<Base - 1>>
             z == <<>>
  <2>1. m \in Seq(Byte) /\ Len(m) = 1 /\ m[1] = Base - 1
    BY <1>3
  <2>2. z \in Seq(Byte) /\ Len(z) = 0
    OBVIOUS
  <2>3. l = 1
    BY <1>4, RecordIs
  <2>4. e = m \o b \o d
    BY <1>4 DEF Encode
  <2> HIDE DEF m, z, d, e, b, l
  <2>5. m \o b \o d \in Seq(Byte)
    BY <1>1, <1>2, <2>1
  <2>6. (m \o b \o d) \o z = m \o b \o d
    <3> DEFINE f == m \o b \o d
    <3>1. f \in Seq(Byte)
      BY <2>5
    <3> HIDE DEF f
    <3>2. f \o z = f
      BY <3>1 DEF z
    <3>3. QED
      BY <3>2 DEF f
  <2>7. /\ e \in Seq(Byte) /\ Len(e) = Len(m) + Len(b) + Len(d) + Len(z)
        /\ \A i \in 1..Len(m) : e[i] = m[i]
        /\ \A i \in 1..Len(b) : e[Len(m) + i] = b[i]
        /\ \A i \in 1..Len(d) : e[Len(m) + Len(b) + i] = d[i]
    <3> DEFINE f == m \o b \o d \o z
    <3>1. b \in Seq(Byte) /\ d \in Seq(Byte) /\ m \in Seq(Byte) /\ z \in Seq(Byte)
      BY <1>1, <1>2, <2>1, <2>2
    <3>2. Follow(f, m, b, d, z, Byte)
      BY <3>1, FourParts
    <3>3. e = f
      BY <2>4, <2>6
    <3> HIDE DEF f
    <3>4. QED
      BY <3>2, <3>3 DEF Follow
  <2>8. Len(b) = 1
    BY <2>3 DEF b, l
  <2>9. Len(e) = 4 /\ e[1] = m[1] /\ e[2] = b[1] /\ e[3] = d[1] /\ e[4] = d[2]
    BY <1>2, <2>1, <2>2, <2>7, <2>8
  <2>10. QED
    BY <1>2, <1>4, <2>1, <2>7, <2>9 DEF Spells, b, e
<1>5. CASE ~r.event
  <2> DEFINE m == <<l \div Base, l % Base>>
             z == Pad(l)
  <2>1. m \in Seq(Byte) /\ Len(m) = 2 /\ m[1] = l \div Base /\ m[2] = l % Base
    <3> DEFINE p == l \div Base
               q == l % Base
    <3>1. l \in 0..Base * Base - 1
      BY <1>1, <1>5, RecordIs, PlainLength
    <3>2. p \in Byte /\ q \in Byte
      BY <3>1, TwoBytes
    <3> HIDE DEF p, q
    <3>3. <<p, q>> \in Seq(Byte) /\ Len(<<p, q>>) = 2 /\ <<p, q>>[1] = p /\ <<p, q>>[2] = q
      BY <3>2
    <3>4. QED
      BY <3>3 DEF p, q
  <2>2. z \in Seq(Byte) /\ Len(z) = l % 2
    <3>a. l \in Nat
      BY <1>1
    <3> HIDE DEF l
    <3>1. l % 2 = 1 \/ l % 2 = 0
      BY <3>a
    <3>2. CASE l % 2 = 1
      <4>1. z = <<Base - 1>>
        BY <3>2 DEF Pad
      <4> HIDE DEF z
      <4>2. QED
        BY <1>3, <3>2, <4>1
    <3>3. CASE l % 2 = 0
      <4>1. z = <<>>
        BY <3>3 DEF Pad
      <4> HIDE DEF z
      <4>2. QED
        BY <3>3, <4>1
    <3>4. QED
      BY <3>1, <3>2, <3>3
  <2>3. e = m \o d \o b \o z
    BY <1>5 DEF Encode
  <2>4. Len(b) = l
    OBVIOUS
  <2> HIDE DEF m, z, d, e, b, l
  <2>5. /\ e \in Seq(Byte) /\ Len(e) = Len(m) + Len(d) + Len(b) + Len(z)
        /\ \A i \in 1..Len(m) : e[i] = m[i]
        /\ \A i \in 1..Len(d) : e[Len(m) + i] = d[i]
        /\ \A i \in 1..Len(b) : e[Len(m) + Len(d) + i] = b[i]
    <3> DEFINE f == m \o d \o b \o z
    <3>1. b \in Seq(Byte) /\ d \in Seq(Byte) /\ m \in Seq(Byte) /\ z \in Seq(Byte)
      BY <1>1, <1>2, <2>1, <2>2
    <3>2. Follow(f, m, d, b, z, Byte)
      BY <3>1, FourParts
    <3>3. QED
      BY <2>3, <3>2 DEF Follow
  <2>6. Len(e) = Total(l)
    BY <1>1, <1>2, <2>1, <2>2, <2>4, <2>5 DEF Total
  <2>7. e[1] = m[1] /\ e[2] = m[2] /\ e[3] = d[1] /\ e[4] = d[2]
    BY <1>2, <2>1, <2>5
  <2>8. \A i \in 1..l : e[4 + i] = b[i]
    BY <1>1, <1>2, <2>1, <2>4, <2>5
  <2>9. QED
    BY <1>2, <1>5, <2>1, <2>5, <2>6, <2>7, <2>8 DEF Spells, b, e, l
<1>6. QED
  BY <1>1, <1>4, <1>5

\* so it is a sequence of bytes.
LEMMA EncodeType ==
    ASSUME NEW r \in Record
    PROVE  Encode(r) \in Seq(Byte)
<1>1. Spells(Encode(r), r)
  BY EncodeSpells
<1>2. QED
  BY <1>1 DEF Spells

\* The records of a stream, each encoded.
Codes(rs) == [i \in 1..Len(rs) |-> Encode(rs[i])]

LEMMA CodesAre ==
    ASSUME NEW rs \in Seq(Record)
    PROVE  /\ Codes(rs) \in Seq(Seq(Byte)) /\ Len(Codes(rs)) = Len(rs)
           /\ \A i \in 1..Len(rs) : Codes(rs)[i] = Encode(rs[i]) /\ Encode(rs[i]) \in Seq(Byte)
<1> DEFINE n == Len(rs)
           c == Codes(rs)
<1>1. n \in Nat
  OBVIOUS
<1>2. \A i \in 1..n : rs[i] \in Record
  OBVIOUS
<1>3. \A i \in 1..n : Encode(rs[i]) \in Seq(Byte)
  BY <1>2, EncodeType
<1>4. c = [i \in 1..n |-> Encode(rs[i])]
  BY DEF Codes
<1> HIDE DEF n, c
<1>5. Len(c) = n /\ \A i \in 1..n : c[i] = Encode(rs[i])
  BY <1>1, <1>4
<1>6. c = [i \in 1..n |-> c[i]]
  BY <1>4
<1>7. c \in Seq(Seq(Byte))
  BY <1>1, <1>3, <1>5, <1>6, IsASeq
<1>8. QED
  BY <1>3, <1>5, <1>7 DEF n, c

\* The first n of them are the encodings of the first n records.
LEMMA EncodePart ==
    ASSUME NEW rs \in Seq(Record), NEW n \in 0..Len(rs)
    PROVE  EncodeAll(SubSeq(rs, 1, n)) = FlattenSeq(SubSeq(Codes(rs), 1, n))
<1> DEFINE p == SubSeq(rs, 1, n)
           c == Codes(rs)
           x == Codes(p)
           y == SubSeq(c, 1, n)
           l == Len(rs)
<1>1. l \in Nat /\ n \in 0..l /\ n \in Nat /\ 1 \in 1..l + 1 /\ n \in 1 - 1..l /\ n - 1 + 1 = n
  OBVIOUS
<1>2. c \in Seq(Seq(Byte)) /\ Len(c) = l /\ \A i \in 1..l : c[i] = Encode(rs[i])
  BY CodesAre
<1>3. p \in Seq(Record) /\ Len(p) = n /\ \A j \in 1..n : p[j] = rs[1 + j - 1]
  BY <1>1, PartIs
<1> HIDE DEF p, c, l
<1>4. y \in Seq(Seq(Byte)) /\ Len(y) = n /\ \A j \in 1..n : y[j] = c[1 + j - 1]
  BY <1>1, <1>2, PartIs
<1>5. x \in Seq(Seq(Byte)) /\ Len(x) = n /\ \A i \in 1..n : x[i] = Encode(p[i])
  BY <1>3, CodesAre
<1> HIDE DEF x, y
<1>6. ASSUME NEW i \in 1..n PROVE x[i] = y[i]
  <2>1. 1 + i - 1 = i /\ i \in 1..l
    BY <1>1
  <2>2. p[i] = rs[i] /\ y[i] = c[i] /\ c[i] = Encode(rs[i]) /\ x[i] = Encode(p[i])
    BY <1>2, <1>3, <1>4, <1>5, <2>1
  <2>3. QED
    BY <2>2
<1>7. x = y
  BY <1>4, <1>5, <1>6, SeqEqual
<1>8. EncodeAll(p) = FlattenSeq(x)
  BY DEF EncodeAll, x, Codes
<1>9. QED
  BY <1>7, <1>8 DEF p, c, y

\* Where the encodings of the first n records end.
Upto(rs, n) == Len(EncodeAll(SubSeq(rs, 1, n)))

\* The places are numbers; the first is the beginning, the last is the end.
LEMMA UptoEnds ==
    ASSUME NEW rs \in Seq(Record)
    PROVE  /\ Upto(rs, 0) = 0 /\ Upto(rs, Len(rs)) = Len(EncodeAll(rs))
           /\ \A n \in 0..Len(rs) : Upto(rs, n) \in Nat
<1>1. Upto(rs, 0) = 0
  <2>1. SubSeq(Codes(rs), 1, 0) = <<>>
    BY PartEmpty, CodesAre
  <2>2. FlattenSeq(SubSeq(Codes(rs), 1, 0)) = <<>>
    BY <2>1, FlattenEmpty
  <2>3. EncodeAll(SubSeq(rs, 1, 0)) = FlattenSeq(SubSeq(Codes(rs), 1, 0))
    BY EncodePart
  <2> DEFINE w == EncodeAll(SubSeq(rs, 1, 0))
  <2>4. w = <<>>
    BY <2>2, <2>3
  <2> HIDE DEF w
  <2>5. Len(w) = 0
    BY <2>4
  <2>6. QED
    BY <2>5 DEF w, Upto
<1>2. Upto(rs, Len(rs)) = Len(EncodeAll(rs))
  BY PartWhole DEF Upto
<1>3. ASSUME NEW n \in 0..Len(rs) PROVE Upto(rs, n) \in Nat
  <2> DEFINE y == SubSeq(Codes(rs), 1, n)
  <2>1. Codes(rs) \in Seq(Seq(Byte)) /\ Len(Codes(rs)) = Len(rs)
    BY CodesAre
  <2>2. 1 \in 1..Len(rs) + 1 /\ n \in 1 - 1..Len(rs)
    OBVIOUS
  <2>3. y \in Seq(Seq(Byte))
    BY <2>1, <2>2, PartIs
  <2>4. FlattenSeq(y) \in Seq(Byte)
    BY <2>3, FlattenType
  <2>5. EncodeAll(SubSeq(rs, 1, n)) = FlattenSeq(y)
    BY EncodePart
  <2> HIDE DEF y
  <2>6. EncodeAll(SubSeq(rs, 1, n)) \in Seq(Byte)
    BY <2>4, <2>5
  <2>7. QED
    BY <2>6 DEF Upto
<1>4. QED
  BY <1>1, <1>2, <1>3

\* They do not go back,
LEMMA UptoGrows ==
    ASSUME NEW rs \in Seq(Record), NEW n \in 0..Len(rs), NEW m \in 0..n
    PROVE  Upto(rs, m) <= Upto(rs, n)
<1> DEFINE c == Codes(rs)
           l == Len(rs)
           x == FlattenSeq(SubSeq(c, 1, m))
           y == FlattenSeq(SubSeq(c, m + 1, n))
           z == FlattenSeq(SubSeq(c, 1, n))
<1>1. l \in Nat /\ n \in 0..l /\ m \in 0..n
  OBVIOUS
<1>2. c \in Seq(Seq(Byte)) /\ Len(c) = l
  BY CodesAre
<1>a. Upto(rs, m) = Len(x) /\ Upto(rs, n) = Len(z)
  BY EncodePart DEF Upto
<1> HIDE DEF l, c
<1>3. m \in 0..l /\ n \in m..l /\ 1 \in 1..l + 1 /\ m \in 1 - 1..l /\ m + 1 \in 1..l + 1
      /\ n \in (m + 1) - 1..l
  BY <1>1
<1>4. x \o y = z
  BY <1>2, <1>3, FlattenParts
<1>5. SubSeq(c, 1, m) \in Seq(Seq(Byte)) /\ SubSeq(c, m + 1, n) \in Seq(Seq(Byte))
  BY <1>2, <1>3, PartIs
<1>6. x \in Seq(Byte) /\ y \in Seq(Byte)
  BY <1>5, FlattenType
<1> HIDE DEF x, y, z
<1>7. Len(z) = Len(x) + Len(y) /\ Len(x) \in Nat /\ Len(y) \in Nat
  BY <1>4, <1>6
<1>8. QED
  BY <1>7, <1>a

\* and between two of them is the encoding of one record.
LEMMA UptoNext ==
    ASSUME NEW rs \in Seq(Record), NEW n \in 0..Len(rs) - 1
    PROVE  /\ Upto(rs, n + 1) = Upto(rs, n) + Len(Encode(rs[n + 1]))
           /\ Upto(rs, n + 1) <= Len(EncodeAll(rs))
           /\ \A i \in 1..Len(Encode(rs[n + 1])) :
                 EncodeAll(rs)[Upto(rs, n) + i] = Encode(rs[n + 1])[i]
<1> DEFINE c == Codes(rs)
           l == Len(rs)
           e == Encode(rs[n + 1])
           w == EncodeAll(rs)
           x == FlattenSeq(SubSeq(c, 1, n))
           y == FlattenSeq(SubSeq(c, 1, n + 1))
           z == FlattenSeq(SubSeq(c, n + 2, l))
<1>1. l \in Nat /\ n \in Nat /\ n < l
  OBVIOUS
<1>2. c \in Seq(Seq(Byte)) /\ Len(c) = l
      /\ \A i \in 1..l : c[i] = Encode(rs[i]) /\ Encode(rs[i]) \in Seq(Byte)
  BY CodesAre
<1>3. /\ n + 1 \in 1..l /\ 1 \in 1..l /\ 1 \in 1..l + 1 /\ n \in 1 - 1..l - 1 /\ n \in 1 - 1..l
      /\ n \in 0..l /\ n + 1 \in 0..l /\ l \in 0..l /\ l \in n + 1..l /\ (n + 1) + 1 = n + 2
      /\ n + 2 \in 1..l + 1 /\ l \in (n + 2) - 1..l
  BY <1>1
<1>4. c[n + 1] = e /\ e \in Seq(Byte)
  BY <1>2, <1>3
<1>5. Upto(rs, n) = Len(x) /\ Upto(rs, n + 1) = Len(y)
  BY <1>3, EncodePart DEF Upto
<1>6. w = FlattenSeq(SubSeq(c, 1, l))
  <2>1. EncodeAll(SubSeq(rs, 1, l)) = FlattenSeq(SubSeq(c, 1, l))
    BY <1>3, EncodePart
  <2>2. SubSeq(rs, 1, l) = rs
    BY PartWhole
  <2>3. QED
    BY <2>1, <2>2
<1> HIDE DEF l, c, e, w
<1>7. y = x \o e
  <2>1. Append(SubSeq(c, 1, n), c[n + 1]) = SubSeq(c, 1, n + 1)
    BY <1>2, <1>3, PartStep
  <2>2. SubSeq(c, 1, n) \in Seq(Seq(Byte))
    BY <1>2, <1>3, PartIs
  <2>3. QED
    BY <1>4, <2>1, <2>2, FlattenAppend
<1>8. y \o z = w
  <2>1. y \o FlattenSeq(SubSeq(c, (n + 1) + 1, l)) = FlattenSeq(SubSeq(c, 1, l))
    BY <1>2, <1>3, FlattenParts
  <2>2. QED
    BY <1>3, <1>6, <2>1
<1>9. SubSeq(c, 1, n) \in Seq(Seq(Byte)) /\ SubSeq(c, n + 2, l) \in Seq(Seq(Byte))
  BY <1>2, <1>3, PartIs
<1>10. x \in Seq(Byte) /\ z \in Seq(Byte)
  BY <1>9, FlattenType
<1> HIDE DEF x, y, z
<1>11. /\ y \in Seq(Byte) /\ Len(y) = Len(x) + Len(e)
       /\ \A i \in 1..Len(x) + Len(e) : y[i] = IF i <= Len(x) THEN x[i] ELSE e[i - Len(x)]
  BY <1>4, <1>7, <1>10, Joined
<1>b. y \in Seq(Byte)
  BY <1>11
<1>12. /\ Len(w) = Len(y) + Len(z)
       /\ \A i \in 1..Len(y) + Len(z) : w[i] = IF i <= Len(y) THEN y[i] ELSE z[i - Len(y)]
  BY <1>8, <1>b, <1>10, Joined
<1>13. Len(x) \in Nat /\ Len(e) \in Nat /\ Len(z) \in Nat /\ Len(y) \in Nat
  BY <1>4, <1>10, <1>b
<1>14. ASSUME NEW i \in 1..Len(e) PROVE w[Len(x) + i] = e[i]
  <2> DEFINE j == Len(x) + i
  <2>1. j \in 1..Len(x) + Len(e) /\ ~(j <= Len(x)) /\ j - Len(x) = i
    BY <1>13
  <2>2. j \in 1..Len(y) + Len(z) /\ j <= Len(y)
    BY <1>11, <1>13, <2>1
  <2> HIDE DEF j
  <2>3. w[j] = y[j]
    BY <1>12, <2>2
  <2>4. y[j] = e[i]
    BY <1>11, <2>1
  <2>5. QED
    BY <2>3, <2>4 DEF j
<1>15. Len(y) <= Len(w)
  BY <1>12, <1>13
<1>16. QED
  BY <1>5, <1>11, <1>14, <1>15 DEF e, w

\* f adds up the first n distances in time.
Sums(rs, n, f) == f = [i \in 0..n |-> IF i = 0 THEN 0 ELSE f[i - 1] + rs[i].delta]

\* There is such an f,
LEMMA SumsExist ==
    ASSUME NEW rs \in Seq(Record)
    PROVE  \E f : Sums(rs, Len(rs), f)
<1> DEFINE N == {n \in Nat : \E f : Sums(rs, n, f)}
<1>1. 0 \in N
  <2> DEFINE f == [i \in 0..0 |-> 0]
  <2>1. f = [i \in 0..0 |-> IF i = 0 THEN 0 ELSE f[i - 1] + rs[i].delta]
    OBVIOUS
  <2> HIDE DEF f
  <2>2. Sums(rs, 0, f)
    BY <2>1 DEF Sums
  <2>3. QED
    BY <2>2
<1>2. ASSUME NEW n \in Nat, n \in N
      PROVE  n + 1 \in N
  <2>1. PICK f : Sums(rs, n, f)
    BY <1>2
  <2> DEFINE d(i) == rs[i].delta
             D == 0..n + 1
             g == [i \in D |-> IF i <= n THEN f[i] ELSE f[n] + d(n + 1)]
  <2> HIDE DEF d, N
  <2>2. \A i \in 0..n : f[i] = IF i = 0 THEN 0 ELSE f[i - 1] + d(i)
    BY <2>1 DEF Sums, d
  <2>3. /\ \A i \in 0..n : g[i] = f[i]
        /\ g[n + 1] = f[n] + d(n + 1)
    <3>1. n + 1 \in D /\ ~(n + 1 <= n) /\ \A i \in 0..n : i \in D /\ i <= n
      OBVIOUS
    <3>2. g[n + 1] = f[n] + d(n + 1)
      BY <3>1, Zenon
    <3>3. \A i \in 0..n : g[i] = f[i]
      BY <3>1, Zenon
    <3>4. QED
      BY <3>2, <3>3
  <2>4. g = [i \in D |-> g[i]]
    OBVIOUS
  <2> HIDE DEF g
  <2>5. ASSUME NEW i \in D
        PROVE  g[i] = IF i = 0 THEN 0 ELSE g[i - 1] + d(i)
    <3>1. CASE i \in 0..n
      <4>1. CASE i = 0
        BY <2>2, <2>3, <3>1, <4>1
      <4>2. CASE i # 0
        <5>1. i - 1 \in 0..n
          BY <3>1, <4>2
        <5>2. QED
          BY <2>2, <2>3, <3>1, <4>2, <5>1
      <4>3. QED
        BY <4>1, <4>2
    <3>2. CASE i = n + 1
      <4>1. i # 0 /\ i - 1 = n /\ n \in 0..n
        BY <3>2
      <4>2. QED
        BY <2>3, <3>2, <4>1
    <3>3. QED
      BY <3>1, <3>2
  <2> HIDE DEF D
  <2>6. g = [i \in D |-> IF i = 0 THEN 0 ELSE g[i - 1] + d(i)]
    BY <2>4, <2>5
  <2>7. Sums(rs, n + 1, g)
    BY <2>6, Zenon DEF Sums, D, d
  <2>8. QED
    BY <2>7 DEF N
<1> HIDE DEF N
<1>3. Nat \subseteq N
  BY <1>1, <1>2, NatInductionOnSets
<1>4. Len(rs) \in N
  BY <1>3
<1>5. QED
  BY <1>4 DEF N

\* so Cycles starts at nothing and adds each distance,
LEMMA CyclesAre ==
    ASSUME NEW rs \in Seq(Record)
    PROVE  /\ Cycles(rs)[0] = 0
           /\ \A n \in 0..Len(rs) - 1 : Cycles(rs)[n + 1] = Cycles(rs)[n] + rs[n + 1].delta
<1> DEFINE c == Cycles(rs)
           l == Len(rs)
<1>1. l \in Nat
  OBVIOUS
<1>2. c = CHOOSE f : Sums(rs, l, f)
  BY Zenon DEF Cycles, Sums
<1>3. Sums(rs, l, c)
  BY <1>2, SumsExist
<1> HIDE DEF c, l
<1>4. \A i \in 0..l : c[i] = IF i = 0 THEN 0 ELSE c[i - 1] + rs[i].delta
  BY <1>3 DEF Sums
<1>5. c[0] = 0
  BY <1>1, <1>4
<1>6. ASSUME NEW n \in 0..l - 1 PROVE c[n + 1] = c[n] + rs[n + 1].delta
  <2>1. n + 1 \in 0..l /\ n + 1 # 0 /\ (n + 1) - 1 = n
    BY <1>1
  <2>2. QED
    BY <1>4, <2>1
<1>7. QED
  BY <1>5, <1>6 DEF c, l

\* If k bytes reach the end of record n and not that of the next, n are whole.
LEMMA WholeIs ==
    ASSUME NEW rs \in Seq(Record), NEW n \in 0..Len(rs), NEW k \in Nat,
           Upto(rs, n) <= k, n < Len(rs) => k < Upto(rs, n + 1)
    PROVE  Whole(rs, k) = n
<1> DEFINE l == Len(rs)
           W == {m \in 1..l : Upto(rs, m) <= k}
<1>1. l \in Nat /\ n \in 0..l
  OBVIOUS
<1>2. ASSUME NEW m \in 1..l PROVE Upto(rs, m) <= k <=> m <= n
  <2>1. Upto(rs, m) \in Nat /\ Upto(rs, n) \in Nat
    BY <1>1, UptoEnds
  <2>2. CASE m <= n
    <3>1. m \in 0..n
      BY <1>1, <2>2
    <3>2. Upto(rs, m) <= Upto(rs, n)
      BY <3>1, UptoGrows
    <3>3. QED
      BY <2>1, <2>2, <3>2
  <2>3. CASE ~(m <= n)
    <3>1. n < l /\ n + 1 \in 0..m /\ m \in 0..l /\ n + 1 \in 0..l
      BY <1>1, <2>3
    <3>2. Upto(rs, n + 1) <= Upto(rs, m) /\ Upto(rs, n + 1) \in Nat
      BY <3>1, UptoGrows, UptoEnds
    <3>3. k < Upto(rs, n + 1)
      BY <3>1
    <3>4. QED
      BY <2>1, <2>3, <3>2, <3>3
  <2>4. QED
    BY <2>2, <2>3
<1> HIDE DEF l
<1>3. W = 1..n
  <2>1. \A m \in 1..n : m \in 1..l
    BY <1>1
  <2>2. QED
    BY <1>1, <1>2, <2>1
<1>4. Whole(rs, k) = Cardinality(W)
  BY DEF Whole, Upto, l
<1> HIDE DEF W
<1>5. n \in Nat
  BY <1>1
<1>6. Cardinality(1..n) = n
  <2>1. Cardinality(1..n) = IF 1 > n THEN 0 ELSE n - 1 + 1
    BY <1>5, FS_Interval
  <2>2. QED
    BY <1>5, <2>1
<1>7. QED
  BY <1>3, <1>4, <1>6

-----------------------------------------------------------------------------
(* The parser on the encoding of records.                                  *)

\* The records behind a wire are those of a stream, and encode to the wire.
LEMMA SentIs ==
    ASSUME SendsRecords, NEW w \in Wires
    PROVE  SentOn(w) \in Seq(Record) /\ EncodeAll(SentOn(w)) = w
<1>1. PICK rs \in Streams : EncodeAll(rs) = w
  BY DEF SendsRecords
<1> DEFINE q == CHOOSE p \in Encodings : p[1] = w
<1>2. \E p \in Encodings : p[1] = w
  <2> DEFINE p == <<EncodeAll(rs), rs>>
  <2>1. p \in Encodings
    BY DEF Encodings
  <2>2. p[1] = w
    BY <1>1
  <2>3. QED
    BY <2>1, <2>2
<1>3. q \in Encodings /\ q[1] = w
  BY <1>2
<1>4. SentOn(w) = q[2]
  BY DEF SentOn
<1> HIDE DEF q
<1>5. PICK ss \in Streams : q = <<EncodeAll(ss), ss>>
  BY <1>3 DEF Encodings
<1>6. EncodeAll(ss) = w /\ SentOn(w) = ss
  BY <1>3, <1>4, <1>5
<1>7. ss \in Seq(Record)
  BY DEF SendsRecords
<1>8. QED
  BY <1>6, <1>7

\* What has been returned are the first records sent, with their time, and
\* what has been consumed are their bytes.
Sent == SentOn(wire)
Decoded ==
    /\ wire \in Wires
    /\ Len(out) <= Len(Sent)
    /\ fed - Left = Upto(Sent, Len(out))
    /\ cycles = Cycles(Sent)[Len(out)]
    /\ \A i \in 1..Len(out) : out[i] = Expected(Sent)[i]

\* The record that next_item looks at.
Upcoming == Sent[Len(out) + 1]

\* The first bytes that are left are those of the next record.
Ahead ==
    /\ Len(out) \in 0..Len(Sent) - 1
    /\ Upcoming \in Record
    /\ Upto(Sent, Len(out) + 1) = fed - Left + Len(Encode(Upcoming))
    /\ Len(Encode(Upcoming)) \in Nat /\ Len(Encode(Upcoming)) >= 4
    /\ \A i \in 1..Left : i <= Len(Encode(Upcoming)) => Peek(i) = Encode(Upcoming)[i]

\* Facts about the counters.
LEMMA CountersAre ==
    ASSUME TypeOK
    PROVE  /\ pos \in Nat /\ Len(buf) \in Nat /\ Left \in Nat /\ Left = Len(buf) - pos
           /\ fed \in Nat /\ Len(wire) \in Nat /\ fed <= Len(wire) /\ Len(out) \in Nat
<1>1. pos \in 0..Len(buf) /\ Len(buf) \in Nat /\ fed \in 0..Len(wire) /\ Len(wire) \in Nat
  BY DEF TypeOK
<1>2. Len(out) \in Nat
  BY DEF TypeOK
<1>3. QED
  BY <1>1, <1>2 DEF Left

\* A record takes at least four bytes.
LEMMA EncodeLength ==
    ASSUME NEW r \in Record
    PROVE  Len(Encode(r)) \in Nat /\ Len(Encode(r)) >= 4
<1>1. Spells(Encode(r), r)
  BY EncodeSpells
<1>2. r.event \in BOOLEAN /\ r.body \in Seq(Byte)
  BY RecordIs
<1>3. CASE r.event
  <2>1. Len(Encode(r)) = 4
    BY <1>1, <1>3 DEF Spells
  <2>2. QED
    BY <2>1
<1>4. CASE ~r.event
  <2> DEFINE l == Len(r.body)
             e == Encode(r)
  <2>1. Len(e) = Total(l)
    BY <1>1, <1>4 DEF Spells
  <2>2. l \in Nat
    <3> DEFINE b == r.body
    <3>1. b \in Seq(Byte)
      BY <1>2
    <3> HIDE DEF b
    <3>2. Len(b) \in Nat
      BY <3>1
    <3>3. QED
      BY <3>2 DEF b
  <2> HIDE DEF l, e
  <2>3. l % 2 \in 0..1
    BY <2>2
  <2>4. Total(l) \in Nat /\ Total(l) >= 4
    BY <2>2, <2>3 DEF Total
  <2>5. QED
    BY <2>1, <2>4 DEF e
<1>5. QED
  BY <1>2, <1>3, <1>4

\* While records are outstanding, the next one is ahead.
LEMMA RecordAhead ==
    ASSUME SendsRecords, TypeOK, BufferIsTail, Decoded, Len(out) # Len(Sent)
    PROVE  Ahead
<1> DEFINE rs == Sent
           n == Len(out)
           r == rs[n + 1]
           e == Encode(r)
           a == Upto(rs, n)
<1>1. rs \in Seq(Record) /\ EncodeAll(rs) = wire
  BY SentIs DEF Decoded, Sent
<1>2. n \in Nat /\ Len(rs) \in Nat
  BY <1>1, CountersAre
<1>3. n \in 0..Len(rs) - 1 /\ n + 1 \in 1..Len(rs)
  BY <1>2 DEF Decoded
<1>4. r \in Record
  BY <1>1, <1>3
<1>5. Len(e) \in Nat /\ Len(e) >= 4
  BY <1>4, EncodeLength
<1>6. a = fed - Left
  BY DEF Decoded
<1> HIDE DEF rs, r, n
<1>7. Upto(rs, n + 1) = a + Len(e)
  BY <1>1, <1>3, UptoNext DEF r
<1>8. \A i \in 1..Len(e) : EncodeAll(rs)[a + i] = e[i]
  BY <1>1, <1>3, UptoNext DEF r
<1>9. ASSUME NEW i \in 1..Left, i <= Len(e) PROVE Peek(i) = e[i]
  <2>1. i \in 1..Len(e)
    BY <1>5, <1>9, CountersAre
  <2>2. wire[a + i] = e[i]
    BY <1>1, <1>8, <2>1
  <2>3. Peek(i) = wire[fed - Left + i]
    BY DEF BufferIsTail
  <2> HIDE DEF a, e
  <2>4. QED
    BY <1>6, <2>2, <2>3
<1>10. QED
  BY <1>3, <1>4, <1>5, <1>6, <1>7, <1>9 DEF Ahead, Upcoming, rs, r, n

\* With four bytes or more left, a record is outstanding.
LEMMA Outstanding ==
    ASSUME SendsRecords, TypeOK, BufferIsTail, Decoded, Left >= 4
    PROVE  Ahead
<1>1. Sent \in Seq(Record) /\ EncodeAll(Sent) = wire
  BY SentIs DEF Decoded, Sent
<1>2. ASSUME Len(out) = Len(Sent) PROVE FALSE
  <2>1. Upto(Sent, Len(Sent)) = Len(wire)
    BY <1>1, UptoEnds
  <2>2. fed - Left = Len(wire)
    BY <1>2, <2>1 DEF Decoded
  <2>3. QED
    BY <2>2, CountersAre
<1>3. QED
  BY <1>2, RecordAhead

\* What next_item reads in the first four bytes.
Header(r) ==
    /\ Delta = r.delta
    /\ r.event => IsEvent /\ Peek(2) = r.body[1]
    /\ ~r.event => ~IsEvent /\ Length = Len(r.body)

\* It is what the header of the record says.
LEMMA HeaderIs ==
    ASSUME Ahead, Left \in Nat, Left >= 4
    PROVE  Header(Upcoming)
<1> DEFINE r == Upcoming
           e == Encode(r)
           l == Len(r.body)
<1>1. r \in Record /\ Len(e) \in Nat /\ Len(e) >= 4
      /\ \A i \in 1..Left : i <= Len(e) => Peek(i) = e[i]
  BY DEF Ahead
<1>2. Spells(e, r)
  BY <1>1, EncodeSpells
<1>3. r.event \in BOOLEAN /\ r.delta \in 0..Base * Base - 1 /\ l \in Nat
      /\ (~r.event => l < (Base - 1) * Base)
  BY <1>1, RecordIs
<1>a. e[3] = r.delta \div Base /\ e[4] = r.delta % Base
  BY <1>2 DEF Spells
<1>b. r.event => e[1] = Base - 1 /\ e[2] = r.body[1]
  BY <1>2 DEF Spells
<1>c. ~r.event => e[1] = l \div Base /\ e[2] = l % Base
  BY <1>2 DEF Spells
<1> HIDE DEF r, e, l
<1>4. Peek(1) = e[1] /\ Peek(2) = e[2] /\ Peek(3) = e[3] /\ Peek(4) = e[4]
  BY <1>1
<1>5. Delta = r.delta
  <2>1. BigEndian(r.delta \div Base, r.delta % Base) = r.delta
    BY <1>3, TwoBytes
  <2>2. Delta = BigEndian(e[3], e[4])
    BY <1>4 DEF Delta
  <2>3. QED
    BY <1>a, <2>1, <2>2
<1>6. ASSUME r.event PROVE IsEvent /\ Peek(2) = r.body[1]
  BY <1>4, <1>6, <1>b DEF IsEvent
<1>7. ASSUME ~r.event PROVE ~IsEvent /\ Length = l
  <2>1. l \in 0..Base * Base - 1 /\ l \div Base # Base - 1
    BY <1>3, <1>7, PlainLength
  <2>2. BigEndian(l \div Base, l % Base) = l
    BY <2>1, TwoBytes
  <2>3. Length = BigEndian(e[1], e[2])
    BY <1>4 DEF Length
  <2>4. e[1] = l \div Base /\ e[2] = l % Base
    BY <1>7, <1>c
  <2>5. Length = l
    BY <2>2, <2>3, <2>4
  <2>6. ~IsEvent
    BY <1>4, <2>1, <2>4 DEF IsEvent
  <2>7. QED
    BY <2>5, <2>6
<1>8. QED
  BY <1>5, <1>6, <1>7 DEF Header, r, l

\* next_item takes just the next record, and returns its item.
Takes ==
    /\ pos' = pos + Len(Encode(Upcoming))
    /\ cycles' = cycles + Upcoming.delta
    /\ out' = Append(out, [ns |-> ClkToNs(cycles + Upcoming.delta),
                           event |-> Upcoming.event, body |-> Upcoming.body])
    /\ UNCHANGED <<buf, wire, fed>>

\* An event.
LEMMA EventTakes ==
    ASSUME Ahead, Left \in Nat, Left >= 4, NextEvent
    PROVE  Takes
<1> DEFINE r == Upcoming
           e == Encode(r)
           b == r.body
<1>1. r \in Record
  BY DEF Ahead
<1>2. b \in Seq(Byte) /\ r.event \in BOOLEAN
  BY <1>1, RecordIs
<1>3. Header(r)
  BY HeaderIs
<1>4. r.event
  BY <1>2, <1>3 DEF NextEvent, Header
<1>5. Len(e) = 4 /\ Len(b) = 1
  <2>1. Spells(e, r)
    BY <1>1, EncodeSpells
  <2>2. QED
    BY <1>1, <1>4, <2>1, RecordIs DEF Spells
<1>6. Peek(2) = b[1] /\ Delta = r.delta
  BY <1>3, <1>4 DEF Header
<1>7. <<Peek(2)>> = b
  <2> HIDE DEF b
  <2> DEFINE p == Peek(2)
             s == <<p>>
  <2>1. p \in Byte
    <3>1. b \in Seq(Byte) /\ 1 \in 1..Len(b)
      BY <1>2, <1>5
    <3>2. b[1] \in Byte
      BY ONLY <3>1, Elements
    <3>3. QED
      BY <1>6, <3>2
  <2> HIDE DEF p
  <2>2. s \in Seq(Byte) /\ Len(s) = 1 /\ s[1] = p
    BY <2>1
  <2>3. p = b[1]
    BY <1>6 DEF p
  <2> HIDE DEF s
  <2>4. s = b
    BY <1>2, <1>5, <2>2, <2>3, SeqEqual
  <2>5. QED
    BY <2>4 DEF s, p
<1>8. Emit(4, TRUE, b)
  BY <1>7 DEF NextEvent
<1>9. Clock = cycles + r.delta
  BY <1>6 DEF Clock
<1>10. r.event = TRUE
  BY <1>2, <1>4
<1> HIDE DEF r, e, b
<1>11. pos' = pos + Len(e) /\ cycles' = cycles + r.delta /\ UNCHANGED <<buf, wire, fed>>
  BY <1>5, <1>8, <1>9 DEF Emit
<1>12. out' = Append(out, [ns |-> ClkToNs(cycles + r.delta), event |-> r.event, body |-> b])
  BY <1>8, <1>9, <1>10, Zenon DEF Emit
<1>13. QED
  BY <1>11, <1>12 DEF Takes, r, e, b

\* A packet.
LEMMA PacketTakes ==
    ASSUME TypeOK, Ahead, Left >= 4, NextPacket
    PROVE  Takes
<1> DEFINE r == Upcoming
           e == Encode(r)
           b == r.body
           l == Len(b)
           s == SubSeq(buf, pos + 5, pos + 4 + l)
<1>0. Left \in Nat /\ pos \in Nat /\ Len(buf) \in Nat /\ Left = Len(buf) - pos
  BY CountersAre
<1>1. r \in Record /\ Len(e) \in Nat /\ \A i \in 1..Left : i <= Len(e) => Peek(i) = e[i]
  BY DEF Ahead
<1>2. b \in Seq(Byte) /\ r.event \in BOOLEAN
  BY <1>1, RecordIs
<1>a. l \in Nat
  BY <1>2
<1>3. Header(r)
  BY <1>0, HeaderIs
<1>4. ~r.event
  BY <1>3 DEF NextPacket, Header
<1>5. Delta = r.delta /\ Length = l
  BY <1>3, <1>4 DEF Header
<1>6. Len(e) = Total(l) /\ \A i \in 1..l : e[4 + i] = b[i]
  <2>1. Spells(e, r)
    BY <1>1, EncodeSpells
  <2>2. QED
    BY <1>4, <2>1 DEF Spells
<1>7. Left >= Total(l) /\ Emit(Total(l), FALSE, s)
  BY <1>5 DEF NextPacket
<1>8. Clock = cycles + r.delta
  BY <1>5 DEF Clock
<1>9. r.event = FALSE
  BY <1>2, <1>4
<1> HIDE DEF r, e, b, l
<1>10. Total(l) \in Nat /\ 4 + l <= Total(l)
  <2>1. l % 2 \in 0..1
    BY <1>a
  <2>2. QED
    BY <1>a, <2>1 DEF Total
<1>11. s = b
  <2> DEFINE lo == pos + 5
             hi == pos + 4 + l
  <2>1. lo \in 1..Len(buf) + 1 /\ hi \in lo - 1..Len(buf) /\ hi - lo + 1 = l
    BY <1>0, <1>7, <1>10, <1>a
  <2>2. buf \in Seq(Byte)
    BY DEF TypeOK
  <2>3. s \in Seq(Byte) /\ Len(s) = l /\ \A j \in 1..l : s[j] = buf[lo + j - 1]
    <3>1. s = SubSeq(buf, lo, hi)
      OBVIOUS
    <3> HIDE DEF s, lo, hi
    <3>2. /\ SubSeq(buf, lo, hi) \in Seq(Byte) /\ Len(SubSeq(buf, lo, hi)) = hi - lo + 1
          /\ \A j \in 1..hi - lo + 1 : SubSeq(buf, lo, hi)[j] = buf[lo + j - 1]
      BY <2>1, <2>2, PartIs
    <3>3. QED
      BY <2>1, <3>1, <3>2
  <2> HIDE DEF s
  <2>4. ASSUME NEW j \in 1..l PROVE s[j] = b[j]
    <3>1. lo + j - 1 = pos + (4 + j) /\ 4 + j \in 1..Left /\ 4 + j <= Len(e)
      BY <1>0, <1>6, <1>7, <1>10, <1>a
    <3>2. buf[pos + (4 + j)] = e[4 + j]
      BY <1>1, <3>1 DEF Peek
    <3> HIDE DEF lo
    <3>3. QED
      BY <1>6, <2>3, <3>1, <3>2
  <2>5. Len(b) = l
    BY DEF l
  <2>6. QED
    BY <1>2, <2>3, <2>4, <2>5, SeqEqual
<1> HIDE DEF s
<1>12. pos' = pos + Len(e) /\ cycles' = cycles + r.delta /\ UNCHANGED <<buf, wire, fed>>
  BY <1>6, <1>7, <1>8 DEF Emit
<1>13. out' = Append(out, [ns |-> ClkToNs(cycles + r.delta), event |-> r.event, body |-> b])
  BY <1>7, <1>8, <1>9, <1>11, Zenon DEF Emit
<1>14. QED
  BY <1>12, <1>13 DEF Takes, r, e, b

\* Having taken it, one more has been decoded.
LEMMA TakesDecodes ==
    ASSUME SendsRecords, TypeOK, TypeOK', Decoded, Ahead, Takes
    PROVE  Decoded'
<1> DEFINE rs == Sent
           n == Len(out)
           r == rs[n + 1]
           c == Cycles(rs)
           t == cycles + r.delta
           it == [ns |-> ClkToNs(t), event |-> r.event, body |-> r.body]
<1>1. rs \in Seq(Record) /\ wire \in Wires
  BY SentIs DEF Decoded, Sent
<1>2. /\ n \in 0..Len(rs) - 1 /\ r \in Record
      /\ Upto(rs, n + 1) = fed - Left + Len(Encode(r)) /\ Len(Encode(r)) \in Nat
  BY DEF Ahead, Upcoming
<1>3. /\ pos' = pos + Len(Encode(r)) /\ cycles' = t /\ out' = Append(out, it)
      /\ buf' = buf /\ wire' = wire /\ fed' = fed
  BY DEF Takes, Upcoming
<1>4. Sent' = rs
  BY <1>3 DEF Sent
<1>5. n \in Nat /\ Len(rs) \in Nat /\ n + 1 <= Len(rs) /\ n + 1 \in 1..Len(rs)
  BY <1>1, <1>2, CountersAre
<1>6. cycles = c[n] /\ \A i \in 1..n : out[i] = Expected(rs)[i]
  BY DEF Decoded
<1>7. c[n + 1] = c[n] + r.delta
  BY <1>1, <1>2, CyclesAre
<1>8. t \in Nat
  BY <1>3 DEF TypeOK
<1> DEFINE m == Len(out')
           q == Expected(rs)
<1>9. /\ m = n + 1 /\ out'[n + 1] = it
      /\ \A i \in 1..n : out'[i] = out[i]
  <2>1. out \in Seq(Item) /\ out' \in Seq(Item)
    BY DEF TypeOK
  <2> HIDE DEF it
  <2>2. QED
    BY <1>3, <2>1
<1>10. q[n + 1] = it
  <2>1. ClkToNs(t) = (50 * t) \div 3
    BY <1>8, ClkToNsExact
  <2>2. c[n + 1] = t
    BY <1>6, <1>7
  <2>3. q[n + 1] = [ns |-> (50 * c[n + 1]) \div 3, event |-> r.event, body |-> r.body]
    BY <1>5 DEF Expected
  <2> HIDE DEF t, c, r, q
  <2>4. QED
    BY <2>1, <2>2, <2>3
<1>a. t = c[n + 1]
  BY <1>6, <1>7
<1>11. fed' - Left' = Upto(rs, n + 1)
  <2>1. Left' = Len(buf) - (pos + Len(Encode(r)))
    BY <1>3 DEF Left
  <2>2. Left = Len(buf) - pos /\ pos \in Nat /\ Len(buf) \in Nat /\ fed \in Nat
    BY CountersAre
  <2> HIDE DEF r, rs, n
  <2>3. QED
    BY <1>2, <1>3, <2>1, <2>2
<1> HIDE DEF it, t, r, c, q, rs
<1>12. ASSUME NEW i \in 1..n + 1 PROVE out'[i] = q[i]
  <2>1. CASE i = n + 1
    BY <1>9, <1>10, <2>1
  <2>2. CASE i # n + 1
    <3>1. i \in 1..n
      BY <1>5, <2>2
    <3>2. out[i] = q[i]
      BY <1>6, <3>1 DEF q
    <3>3. QED
      BY <1>9, <3>1, <3>2
  <2>3. QED
    BY <2>1, <2>2
<1>13. Sent' = rs /\ m = n + 1 /\ wire' \in Wires /\ n + 1 <= Len(rs) /\ cycles' = c[n + 1]
  BY <1>1, <1>3, <1>4, <1>5, <1>9, <1>a
<1> HIDE DEF n
<1>14. QED
  BY <1>11, <1>12, <1>13 DEF Decoded, q, c

\* What it returns None for is a record that is not there in full.
LEMMA NoneIsIncomplete ==
    ASSUME TypeOK, Ahead, NeedsMore
    PROVE  Left < Len(Encode(Upcoming))
<1> DEFINE r == Upcoming
           e == Encode(r)
           l == Len(r.body)
<1>1. r \in Record /\ Len(e) \in Nat /\ Len(e) >= 4 /\ Left \in Nat
  BY CountersAre DEF Ahead
<1>2. CASE Left < 4
  <2> HIDE DEF e
  <2>1. Left < Len(e)
    BY <1>1, <1>2
  <2>2. QED
    BY <2>1 DEF e
<1>3. CASE ~(Left < 4)
  <2>1. Left >= 4
    BY <1>1, <1>3
  <2>2. Header(r)
    BY <1>1, <2>1, HeaderIs
  <2>3. ~IsEvent /\ Left < Total(Length)
    BY <1>3 DEF NeedsMore
  <2>4. ~r.event /\ Length = l
    BY <2>2, <2>3 DEF Header
  <2>5. Len(e) = Total(l)
    <3>1. Spells(e, r)
      BY <1>1, EncodeSpells
    <3>2. QED
      BY <2>4, <3>1 DEF Spells
  <2>6. QED
    BY <2>3, <2>4, <2>5
<1>4. QED
  BY <1>2, <1>3

\* So Decoded is kept by every step.
LEMMA DecodedInductive ==
    SendsRecords /\ TypeOK /\ BufferIsTail /\ Decoded /\ [Next]_vars => Decoded'
<1> SUFFICES ASSUME SendsRecords, TypeOK, BufferIsTail, Decoded, [Next]_vars
             PROVE  Decoded'
  OBVIOUS
<1>0. TypeOK'
  BY TypeInductive
<1>1. ASSUME NEW k \in 1..ReadLen, Extend(k) PROVE Decoded'
  <2>1. Len(buf') = Left + k /\ Left \in Nat /\ k \in Nat
    BY <1>1, ExtendEffect
  <2>2. pos' = 0 /\ fed' = fed + k /\ UNCHANGED <<cycles, wire, out>> /\ fed \in Nat
    BY <1>1, CountersAre DEF Extend, Consumed
  <2>3. fed' - Left' = fed - Left
    BY <2>1, <2>2 DEF Left
  <2>4. QED
    BY <2>2, <2>3 DEF Decoded, Sent
<1>2. ASSUME NextEvent \/ NextPacket PROVE Decoded'
  <2>1. Left >= 4
    BY <1>2, EmitCases
  <2>2. Ahead /\ Left \in Nat
    BY <2>1, Outstanding, CountersAre
  <2>3. Takes
    BY <1>2, <2>1, <2>2, EventTakes, PacketTakes
  <2>4. QED
    BY <1>0, <2>2, <2>3, TakesDecodes
<1>3. CASE UNCHANGED vars
  BY <1>3 DEF vars, Decoded, Sent, Left
<1>4. QED
  BY <1>1, <1>2, <1>3 DEF Next

LEMMA DecodedInitially == SendsRecords /\ Init => Decoded
<1> SUFFICES ASSUME SendsRecords, Init
             PROVE  Decoded
  OBVIOUS
<1>1. wire \in Wires /\ buf = <<>> /\ pos = 0 /\ fed = 0 /\ cycles = 0 /\ out = <<>>
  BY DEF Init
<1>2. Sent \in Seq(Record)
  BY <1>1, SentIs DEF Sent
<1>3. Left = 0 /\ Len(out) = 0
  BY <1>1 DEF Left
<1>4. Upto(Sent, 0) = 0 /\ Cycles(Sent)[0] = 0
  BY <1>2, UptoEnds, CyclesAre
<1>5. Len(Sent) \in Nat
  BY <1>2
<1>6. QED
  BY <1>1, <1>3, <1>4, <1>5 DEF Decoded

\* Decoded is what the property says.
LEMMA DecodedGives ==
    ASSUME SendsRecords, TypeOK, BufferIsTail, Decoded
    PROVE  DecodesWhatWasSent
<1> DEFINE rs == Sent
           n == Len(out)
           q == Expected(rs)
<1>1. rs \in Seq(Record) /\ n \in Nat /\ n <= Len(rs) /\ Len(rs) \in Nat
  <2>1. rs \in Seq(Record)
    BY SentIs DEF Decoded, Sent
  <2>2. QED
    BY <2>1, CountersAre DEF Decoded
<1>2. \A i \in 1..n : out[i] = q[i]
  BY DEF Decoded
<1>3. IsPrefix(out, q)
  <2> DEFINE l == Len(rs)
  <2>1. Len(q) = l /\ q = [i \in 1..l |-> q[i]]
    BY <1>1 DEF Expected
  <2>2. out \in Seq(Item)
    BY DEF TypeOK
  <2> HIDE DEF q, l
  <2>3. q \in Seq({q[i] : i \in 1..l})
    <3> DEFINE T == {q[i] : i \in 1..l}
    <3>1. \A i \in 1..l : q[i] \in T
      OBVIOUS
    <3> HIDE DEF T
    <3>2. l \in Nat
      BY <1>1 DEF l
    <3>3. q \in Seq(T)
      BY <2>1, <3>1, <3>2, IsASeq
    <3>4. QED
      BY <3>3 DEF T
  <2> DEFINE T == {q[i] : i \in 1..l}
             U == T \cup Item
             s == SubSeq(q, 1, n)
  <2>4. q \in Seq(T)
    BY <2>3
  <2> HIDE DEF T
  <2>5. q \in Seq(U) /\ out \in Seq(U)
    BY <2>2, <2>4, SeqGrows
  <2>6. 1 \in 1..Len(q) + 1 /\ n \in 1 - 1..Len(q) /\ n - 1 + 1 = n
    BY <1>1, <2>1 DEF l
  <2> HIDE DEF U
  <2>7. s \in Seq(U) /\ Len(s) = n /\ \A j \in 1..n : s[j] = q[1 + j - 1]
    BY <2>5, <2>6, PartIs
  <2> HIDE DEF s
  <2>8. \A j \in 1..n : s[j] = out[j]
    <3>1. \A j \in 1..n : 1 + j - 1 = j
      BY <1>1
    <3>2. QED
      BY <1>2, <2>7, <3>1
  <2>9. s = out
    BY <2>5, <2>7, <2>8, SeqEqual
  <2>10. SubSeq(out, 1, n) = out
    BY <2>2, PartWhole
  <2>11. n <= Len(q)
    BY <1>1, <2>1 DEF l
  <2>12. QED
    BY <2>9, <2>10, <2>11 DEF IsPrefix, s
<1>4. ASSUME NeedsMore PROVE n = Whole(rs, fed)
  <2>1. n \in 0..Len(rs) /\ fed \in Nat /\ Left \in Nat
    BY <1>1, CountersAre
  <2>2. Upto(rs, n) = fed - Left
    BY DEF Decoded
  <2>3. ASSUME n < Len(rs) PROVE fed < Upto(rs, n + 1)
    <3>1. Ahead
      <4>1. n # Len(rs)
        BY <1>1, <2>3
      <4>2. QED
        BY <4>1, RecordAhead
    <3> DEFINE e == Len(Encode(Upcoming))
    <3>2. Left < e /\ e \in Nat /\ Upto(rs, n + 1) = fed - Left + e
      BY <1>4, <3>1, NoneIsIncomplete DEF Ahead
    <3> HIDE DEF e, rs, n
    <3>3. QED
      BY <2>1, <3>2
  <2>4. Upto(rs, n) <= fed
    <3> HIDE DEF rs, n
    <3>1. QED
      BY <2>1, <2>2
  <2> HIDE DEF rs, n
  <2>5. QED
    BY <1>1, <2>1, <2>3, <2>4, WholeIs
<1>5. rs = SentOn(wire)
  BY DEF Sent
<1>6. QED
  BY <1>3, <1>4, <1>5 DEF DecodesWhatWasSent

(* The items are the records that were sent, with their exact times, and   *)
(* none is held back, for any streams of records that the format has room  *)
(* for, cut into reads of any sizes.                                       *)
THEOREM ItemsAreRecords == Spec => [](SendsRecords => DecodesWhatWasSent)
<1>1. Init => (SendsRecords => Decoded)
  BY DecodedInitially
<1>2. SendsRecords' = SendsRecords
  BY DEF SendsRecords
<1>3. TypeOK /\ BufferIsTail /\ (SendsRecords => Decoded) /\ [Next]_vars
         => (SendsRecords => Decoded)'
  BY <1>2, DecodedInductive
<1>4. TypeOK /\ BufferIsTail /\ (SendsRecords => Decoded)
         => (SendsRecords => DecodesWhatWasSent)
  BY DecodedGives
<1>5. QED
  BY <1>1, <1>3, <1>4, TypeCorrect, NothingMovesInBuffer, PTL DEF Spec
=============================================================================
