------------------------------- MODULE PcapNg -------------------------------
(***************************************************************************)
(* A PD trace on its way through a pcapng file: PdTrace and PcapNgWriter   *)
(* record the messages of one command, the program ends well, with an      *)
(* error or killed, and pd-dump reads whatever is on the disk.             *)
(*                                                                         *)
(* A byte is a digit to base B, which is 256 in the code: a u16 is two     *)
(* digits, a u32 four and a timestamp eight, so that a small B has the     *)
(* carries of the real one.  The reader takes one block per step.          *)
(***************************************************************************)
EXTENDS SequencesExt, Integers

CONSTANTS
    B,          \* values of a byte
    SHB,        \* block type of a section header: a palindrome
    Magic,      \* byte-order magic, digits from low to high
    LinkType,   \* LINKTYPE_USB_TYPE_C_PD
    Names,      \* if_name of interface 0 and of interface 1
    Message,    \* PD messages: sequences of bytes
    Clock,      \* microseconds since 1970 that a message may come at
    MaxRecords  \* bound on the messages of a command

Half == B * B           \* values of a u16
Word == Half * Half     \* and of a u32

\* Names and messages are short enough for the u16 and u32 that count their
\* bytes, a time is a u64.
ASSUME PcapNgAssumption ==
    /\ B \in Nat \ 0..7 /\ LinkType \in 0..Half - 1
    /\ SHB \in [1..4 -> 0..B - 1] /\ Reverse(SHB) = SHB
    /\ Magic \in [1..4 -> 0..B - 1] /\ Reverse(Magic) # Magic
    /\ Names \in [1..2 -> Seq(0..B - 1)] /\ \A i \in 1..2 : Len(Names[i]) < Half
    /\ Message \subseteq Seq(0..B - 1)
    /\ \A m \in Message : Len(m) >= 2 /\ Len(m) < Half
    /\ Clock \subseteq 0..Word * Word - 1 /\ MaxRecords \in Nat

VARIABLES
    foreign,          \* the file is another program's: big-endian, with more in it
    iface, cc,        \* of the PdLink
    stage,            \* what the commands are doing
    file, size,       \* the bytes written, and how many of them the disk has
    recorded,         \* the messages recorded, with their direction and time
    off, le,          \* the reader's position and byte order
    interfaces, packets  \* the reader's result

writing == <<foreign, iface, cc, file, size, recorded>>
reading == <<off, le, interfaces, packets>>
traceVars == <<writing, stage, reading>>

(***************************************************************************)
(* The writer.                                                             *)
(***************************************************************************)

\* v.to_le_bytes() of a u16 and of a u32, or the foreign program's order.
Ordered(low) == IF foreign THEN Reverse(low) ELSE low
Digits(v)    == <<v % B, (v \div B) % B>>
U16(v)       == Ordered(Digits(v))
U32(v)       == Ordered(Digits(v) \o Digits(v \div Half))

\* Zero bytes up to a multiple of four.
Padding(n) == [i \in 1..((-n) % 4) |-> 0]
Padded(s)  == s \o Padding(Len(s))

Block(type, body) ==
    LET total == U32(12 + Len(body) + Len(Padding(Len(body))))
    IN  type \o total \o Padded(body) \o total

PushOption(body, code, value) ==
    Padded(body \o U16(code) \o U16(Len(value)) \o value)

IDB == 1
EPB == 6

Section ==
    Block(SHB, (IF foreign THEN Reverse(Magic) ELSE Magic)
               \o U16(1) \o U16(0) \o [i \in 1..8 |-> B - 1])

\* The foreign program also puts in an option the reader has no use for.
Interface(i) ==
    LET fixed   == U16(LinkType) \o U16(0) \o U32(B)
        comment == IF foreign THEN PushOption(fixed, 1, <<1, 0, 5>>) ELSE fixed
        named   == PushOption(comment, 2, Names[i])
    IN  Block(U32(IDB), PushOption(PushOption(named, 9, <<6>>), 0, <<>>))

\* pd_pseudo_header; record never has a CRC to pass to it.
PseudoHeader(dir, line) ==
    <<1, 0, IF dir = "ToDut" THEN 1 ELSE 0, IF line = 2 THEN 4 ELSE 0, 0, 0, 0, 0>>

\* The two halves of a timestamp.  A Bad variant is a slip that a property must
\* catch; nothing uses it.
BadHalves(ts) == U32(ts % Word) \o U32(ts \div Word)
Halves(ts)    == U32(ts \div Word) \o U32(ts % Word)

\* write_packet.  The foreign program has options behind the data, and a block
\* of a type of its own before it.
Packet(r) ==
    LET data == PseudoHeader(r.dir, cc) \o r.msg
        body == U32(iface) \o Halves(r.ts)
                \o U32(Len(data)) \o U32(Len(data)) \o Padded(data)
    IN  IF foreign
          THEN Block(U32(5), <<1>>)
               \o Block(U32(EPB), PushOption(PushOption(body, 1, <<7, 7>>), 0, <<>>))
          ELSE Block(U32(EPB), body)

Blank ==
    /\ foreign \in BOOLEAN /\ iface \in {0, 1} /\ cc \in {1, 2}
    /\ stage = "start" /\ file = <<>> /\ size = 0 /\ recorded = <<>>
    /\ off = 0 /\ le = TRUE /\ interfaces = <<>> /\ packets = <<>>

\* make_trace: the section header and both interfaces go into the BufWriter.
MakeTrace ==
    /\ stage = "start"
    /\ file' = Section \o Interface(1) \o Interface(2)
    /\ stage' = "trace"
    /\ UNCHANGED <<foreign, iface, cc, size, recorded, reading>>

\* PdTrace::record: the clock is an Instant and does not go back.
Record ==
    /\ stage = "trace" /\ Len(recorded) < MaxRecords
    /\ \E d \in {"FromDut", "ToDut"}, m \in Message, t \in Clock :
         LET r == [dir |-> d, msg |-> m, ts |-> t] IN
         /\ recorded # <<>> => Last(recorded).ts <= t
         /\ recorded' = Append(recorded, r)
         /\ file' = file \o Packet(r)
    /\ UNCHANGED <<foreign, iface, cc, stage, size, reading>>

\* PdTrace::flush at the end of the command.
Flush ==
    /\ stage = "trace"
    /\ size' = Len(file)
    /\ stage' = "flushed"
    /\ UNCHANGED <<foreign, iface, cc, file, recorded, reading>>

\* The command is killed, or a write of make_trace, record or flush fails and
\* ends it: any part of the bytes may have got to the disk.
BreakOff ==
    /\ stage = "trace"
    /\ size' \in 0..Len(file)
    /\ stage' = "broken"
    /\ UNCHANGED <<foreign, iface, cc, file, recorded, reading>>

(***************************************************************************)
(* The reader, parse_pcapng.                                               *)
(***************************************************************************)

Dump ==
    /\ stage \in {"flushed", "broken"}
    /\ stage' = "read"
    /\ UNCHANGED <<writing, reading>>

\* k bytes of s behind the first i, and the integers that two and four are.
Slice(s, i, k)     == SubSeq(s, i + 1, i + k)
Low(bytes, little) == IF little THEN bytes ELSE Reverse(bytes)
Rd16(bytes, little) ==
    LET b == Low(bytes, little) IN b[1] + B * b[2]
Rd32(bytes, little) ==
    LET b == Low(bytes, little) IN b[1] + B * b[2] + Half * (b[3] + B * b[4])

More == off + 12 <= size

Header == Slice(file, off, 12)

\* The order of the section that begins at off, or of the one at hand.
Order == IF SubSeq(Header, 1, 4) = SHB THEN SubSeq(Header, 9, 12) = Magic ELSE le

Type  == Rd32(SubSeq(Header, 1, 4), Order)
Total == Rd32(SubSeq(Header, 5, 8), Order)

Whole == Total >= 12 /\ off + Total <= size

Body == Slice(file, off + 8, Total - 12)

\* The options from byte o of the body on, up to the end or one that says so.
OptionLen(body, o) == Rd16(Slice(body, o + 2, 2), Order)
OptionAt(body, o)  == [code |-> Rd16(Slice(body, o, 2), Order),
                       value |-> Slice(body, o + 4, OptionLen(body, o))]
Options(body) ==
    LET from[o \in Nat] ==
          LET end == o + 4 + OptionLen(body, o) IN
          IF o + 4 > Len(body) \/ OptionAt(body, o).code = 0 \/ end > Len(body)
            THEN <<>>
            ELSE <<OptionAt(body, o)>>
                 \o from[end + Len(Padding(OptionLen(body, o)))]
    IN  from[8]

\* What the last of them with that code and so many bytes says.
LastOf(options, code, least, default) ==
    LET at == {k \in 1..Len(options) :
                 options[k].code = code /\ Len(options[k].value) >= least}
    IN  IF at = {} THEN default ELSE options[Max(at)].value

IsInterface == Type = IDB /\ Len(Body) >= 8
IsPacket    == Type = EPB /\ Len(Body) >= 20

\* The data of an Enhanced Packet Block.
Data(body) ==
    Slice(body, 20, Min({Rd32(Slice(body, 12, 4), Order), Len(body) - 20}))

ReadBlock ==
    /\ stage = "read" /\ More
    /\ le' = Order
    /\ Whole
    /\ interfaces' = IF IsInterface
         THEN Append(interfaces, [linktype |-> Rd16(Slice(Body, 0, 2), Order),
                                  name     |-> LastOf(Options(Body), 2, 0, <<>>),
                                  tsresol  |-> LastOf(Options(Body), 9, 1, <<6>>)[1]])
         ELSE interfaces
    /\ packets' = IF IsPacket
         THEN Append(packets,
                [iface |-> Rd32(Slice(Body, 0, 4), Order),
                 ts    |-> Rd32(Slice(Body, 4, 4), Order) * Word
                           + Rd32(Slice(Body, 8, 4), Order),
                 data  |-> Data(Body)])
         ELSE packets
    /\ off' = off + Total
    /\ UNCHANGED <<writing, stage>>

NothingRead == interfaces = <<>> /\ packets = <<>>

ReadEnds ==
    /\ stage = "read"
    /\ ~(More /\ Whole)
    /\ stage' = IF NothingRead THEN "rejected" ELSE "dumped"
    /\ UNCHANGED <<writing, reading>>

TraceNext ==
    \/ MakeTrace \/ Record \/ Flush \/ BreakOff
    \/ Dump \/ ReadBlock \/ ReadEnds

TraceSpec == Blank /\ [][TraceNext]_traceVars

-----------------------------------------------------------------------------
(* What cmd_pd_dump prints of a packet.                                    *)

\* parse_pd_pseudo_header.
ParsedHeader(d) ==
    [dir |-> IF d[3] = 1 THEN "ToDut" ELSE "FromDut",
     cc  |-> IF (d[4] \div 4) % 2 = 1 THEN 2 ELSE 1]

Printed(p) ==
    LET i == interfaces[p.iface + 1]
        h == ParsedHeader(p.data)
    IN  [port |-> i.name, unit |-> i.tsresol, time |-> p.ts - packets[1].ts,
         dir |-> h.dir, cc |-> h.cc, msg |-> SubSeq(p.data, 9, Len(p.data))]

Output == [i \in 1..Len(packets) |-> Printed(packets[i])]

(* Correctness.                                                            *)

AsRecorded ==
    [i \in 1..Len(recorded) |->
       [port |-> Names[iface + 1], unit |-> 6,
        time |-> recorded[i].ts - recorded[1].ts,
        dir  |-> recorded[i].dir, cc |-> cc, msg |-> recorded[i].msg]]

\* The file of the first k messages, and how many are whole on the disk.
Upto(k) == Section \o Interface(1) \o Interface(2)
           \o FlattenSeq([i \in 1..k |-> Packet(recorded[i])])
Stored  == Max({0} \cup {k \in 1..Len(recorded) : Len(Upto(k)) <= size})

\* pd-dump prints the messages that were recorded, in order, as they were sent
\* and from their port, for any end of the recording: those whose last byte got
\* to the disk, all of them after a flush, and nothing of a block cut short.  It
\* refuses a file only when not even the first interface is whole.
DumpShowsTrace ==
    /\ stage = "dumped" => Output = SubSeq(AsRecorded, 1, Stored)
    /\ stage \in {"dumped", "rejected"} =>
         (stage = "rejected" <=> size < Len(Section) + Len(Interface(1)))
=============================================================================
