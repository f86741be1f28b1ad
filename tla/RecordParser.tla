---------------------------- MODULE RecordParser ----------------------------
(***************************************************************************)
(* RecordParser of the Cynthion backend: the decoder that turns the bytes  *)
(* of completed bulk reads, cut anywhere, into packets and events with a   *)
(* running timestamp.  Bytes are numbers below Base, 256 in the code.      *)
(***************************************************************************)
EXTENDS Integers, Sequences

CONSTANTS
    Base,     \* number of values of a byte
    Wires,    \* byte sequences the analyzer may stream
    ReadLen   \* most bytes in one completed read: READ_LEN

Byte == 0..Base - 1

ASSUME ParserAssumption ==
    /\ Base \in Nat /\ Base > 1
    /\ Wires \subseteq Seq(Byte)
    /\ ReadLen \in Nat \ {0}

VARIABLES
    buf,     \* RecordParser.buf
    pos,     \* RecordParser.pos: bytes of buf already consumed
    cycles,  \* RecordParser.cycles: the 60 MHz clock's running total
    wire,    \* what the analyzer streams in this behaviour
    fed,     \* bytes of wire handed to extend so far
    out      \* items returned by next_item so far

vars == <<buf, pos, cycles, wire, fed, out>>

Item == [ns : Nat, event : BOOLEAN, body : Seq(Byte)]

Init ==
    /\ buf = <<>>
    /\ pos = 0
    /\ cycles = 0
    /\ wire \in Wires
    /\ fed = 0
    /\ out = <<>>

\* 60 MHz cycles to nanoseconds: three cycles are 50 ns, the rest by table.
\* Here and below a Bad variant is a slip that a property must catch; no action
\* uses it.
BadClkToNs(c) == (c \div 3) * 50 + (c % 3) * 17
ClkToNs(c)    == (c \div 3) * 50 + <<0, 16, 33>>[(c % 3) + 1]

\* u16::from_be_bytes.
BigEndian(hi, lo) == hi * Base + lo

Left    == Len(buf) - pos
Peek(i) == buf[pos + i]

\* The header fields of the record at pos, and the bytes it takes: packets
\* are padded to an even length.
IsEvent  == Peek(1) = Base - 1
Delta    == BigEndian(Peek(3), Peek(4))
Length   == BigEndian(Peek(1), Peek(2))
Total(n) == 4 + n + (n % 2)

\* The clock after the record at pos: deltas add up.
BadClock == Delta
Clock    == cycles + Delta

\* buf.drain(..pos), after which nothing of buf is consumed.
BadKept     == SubSeq(buf, 1, Left)
Kept        == SubSeq(buf, pos + 1, Len(buf))
BadConsumed == pos
Consumed    == 0

\* extend: k fresh bytes, after the consumed ones are dropped.
Extend(k) ==
    /\ fed + k <= Len(wire)
    /\ buf' = Kept \o SubSeq(wire, fed + 1, fed + k)
    /\ pos' = Consumed
    /\ fed' = fed + k
    /\ UNCHANGED <<cycles, wire, out>>

\* What next_item does with a complete record of n bytes.
Emit(n, event, body) ==
    /\ pos' = pos + n
    /\ cycles' = Clock
    /\ out' = Append(out, [ns |-> ClkToNs(Clock),
                           event |-> event, body |-> body])
    /\ UNCHANGED <<buf, wire, fed>>

NextEvent ==
    /\ Left >= 4
    /\ IsEvent
    /\ Emit(4, TRUE, <<Peek(2)>>)

NextPacket ==
    /\ Left >= 4
    /\ ~IsEvent
    /\ Left >= Total(Length)
    /\ Emit(Total(Length), FALSE, SubSeq(buf, pos + 5, pos + 4 + Length))

Next == (\E k \in 1..ReadLen : Extend(k)) \/ NextEvent \/ NextPacket

Spec == Init /\ [][Next]_vars

\* next_item would return None.
NeedsMore == Left < 4 \/ (~IsEvent /\ Left < Total(Length))

TypeOK ==
    /\ buf \in Seq(Byte)
    /\ pos \in 0..Len(buf)
    /\ cycles \in Nat
    /\ wire \in Seq(Byte)
    /\ fed \in 0..Len(wire)
    /\ out \in Seq(Item)

\* Timestamps never run backwards, across records and across reads: the
\* conversion of clk_to_ns is monotone and the cycle total only grows.
TimeIsMonotone ==
    \A i, j \in 1..Len(out) : i < j => out[i].ns <= out[j].ns

\* No byte is lost, repeated or moved by the compaction in extend: what is
\* left in the buffer is the end of what has been fed.
BufferIsTail ==
    \A i \in 1..Left : Peek(i) = wire[fed - Left + i]
=============================================================================
