------------------------------ MODULE PdBridge ------------------------------
(***************************************************************************)
(* I2cBus and the calls of Apollo that read and write the FUSB302B through *)
(* the pd_bridge gateware: every call opens a JTAG register session and    *)
(* plays I2C commands, one register write and its status reads each.       *)
(*                                                                         *)
(* A command can fail before it has its effect or after; the chip can      *)
(* leave any byte unacknowledged, and the partner's messages arrive        *)
(* between any two commands.  The program is one thread.                   *)
(*                                                                         *)
(* Assumed of the chip: a START addresses it whatever came before, it      *)
(* ignores the bus from a byte it does not acknowledge to the next START,  *)
(* and a message that does not fit its RX FIFO is dropped whole.           *)
(***************************************************************************)
EXTENDS Naturals, SequencesExt

CONSTANTS
    ObjectLen,   \* bytes of a data object, 4 on the wire
    CrcLen,      \* bytes of the CRC behind a message, 4 in the chip
    Capacity,    \* bytes the RX FIFO holds, 80 in the chip
    Objects,     \* numbers of data objects the partner's messages have
    FrameLen,    \* tokens of a message to send, up to TXOFF
    Frames,      \* messages the client sends
    Numbers      \* messages are told apart by their number modulo this

ASSUME BridgeAssumption ==
    /\ {ObjectLen, CrcLen, FrameLen} \subseteq Nat \ {0}
    /\ Capacity \in Nat /\ Numbers \in Nat /\ Numbers > 1
    /\ Objects # {} /\ Objects \subseteq 0..7

VARIABLES
    call,      \* the call at hand, "idle" between calls
    at,        \* the transaction the call is in
    todo,      \* the I2C commands left of it
    acked,     \* no byte of it was left unacknowledged
    got,       \* the bytes it has read
    raw,       \* poll_message: the header bytes of the message at hand
    frame,     \* the message last sent or staged
    result,    \* what the last call returned
    slave,     \* what the chip takes the next byte for, and its register
    rx,        \* its RX FIFO, byte by byte
    tx,        \* its TX FIFO, token by token
    air,       \* what went on the wire in the last call that sends
    staged,    \* history: frame was reported staged, and not fired since
    number,    \* history: number of the message that arrives next
    pending,   \* history: the messages received and not returned, while in step
    step       \* history: poll_message is in step with the packets, has one
               \* half read, or broke off in one since the RX FIFO was emptied

program == <<call, at, todo, acked, got, raw, frame, result, staged>>
chip    == <<slave, rx, tx, air>>
inbox   == <<number, pending, step>>
vars    == <<program, chip, inbox>>

-----------------------------------------------------------------------------
(* Bytes.  One that the partner sent is known by its message and its place *)
(* in it: token, two header bytes, data, CRC.                              *)

Message   == [number : 0..Numbers - 1, objects : Objects]
NoMessage == [number |-> Numbers, objects |-> 0]

Byte(m, i) == [of |-> m, at |-> i]
Bytes(m)   == [i \in 1..3 + m.objects * ObjectLen + CrcLen |-> Byte(m, i)]
Payload(m) == [i \in 1..2 + m.objects * ObjectLen |-> Byte(m, i + 1)]
Other      == Byte(NoMessage, 0)      \* any other register; an empty FIFO
RxEmpty    == Byte(NoMessage, 1)      \* STATUS1 with bit 5 set

\* head[0] & 0xE0 == 0xE0, and the count in head[2].  No first header byte looks
\* so (its top bits are a revision that does not exist), and a second one only
\* if the message is extended and counts six objects or seven.
LooksLikeSop(b) == CASE b.at = 1 -> {TRUE} [] b.at = 2 -> {FALSE}
                     [] b.at = 3 /\ b.of.objects < 6 -> {FALSE}
                     [] OTHER -> BOOLEAN
CountIn(b)      == IF b.at = 3 THEN {b.of.objects} ELSE Objects

Frame(f) == [i \in 1..FrameLen |-> <<f, i>>]
TxOn     == <<"TX_ON", 0>>

(* I2C commands.  A Bad variant is a slip that a property must catch.      *)

Start      == [op |-> "start"]
Stop       == [op |-> "stop"]
Write(b)   == [op |-> "write", byte |-> b]
Read(ack)  == [op |-> "read", ack |-> ack]
AddrWrite  == Write(<<"ADDR", 0>>)
AddrRead   == Write(<<"ADDR", 1>>)
Select(reg) == Write(<<reg, 0>>)

\* n bytes, all but the last acknowledged.
BadReads(n) == [i \in 1..n |-> Read(TRUE)]
Reads(n)    == [i \in 1..n |-> Read(i < n)]

ReadReg(reg, n) == <<Start, AddrWrite, Select(reg), Start, AddrRead>>
                       \o Reads(n) \o <<Stop>>
WriteReg(reg, bytes) == <<Start, AddrWrite, Select(reg)>>
                       \o [i \in 1..Len(bytes) |-> Write(bytes[i])] \o <<Stop>>

\* What is left after a byte that was not acknowledged: read_reg, its burst
\* and write_reg stop, write_reg_multi goes on with its tokens.
AfterNack(rest) ==
    IF at # "burst" THEN <<Stop>>
    ELSE IF Head(rest) = Select("FIFOS") THEN Tail(rest) ELSE rest

\* CONTROL0 with TX_FLUSH, and what follows the header: data and CRC.
BadTxFlush == WriteReg("CONTROL0", <<<<"unchanged", 0>>>>)
TxFlush    == WriteReg("CONTROL0", <<<<"TX_FLUSH", 0>>>>)
BadRest(n) == n * ObjectLen
Rest(n)    == n * ObjectLen + CrcLen

-----------------------------------------------------------------------------
Init ==
    /\ call = "idle" /\ at = "status"
    /\ todo = <<>> /\ acked = TRUE /\ got = <<>> /\ raw = <<>>
    /\ frame \in Frames
    /\ result = "ok"
    /\ slave = [phase |-> "idle", reg |-> "STATUS1"]
    /\ rx = <<>> /\ tx = <<>> /\ air = <<>>
    /\ staged = FALSE
    /\ number = 0 /\ pending = <<>> /\ step = "in"

(* The chip.                                                               *)

\* The partner's message arrives; one that does not fit is lost.
Arrives(n) ==
    LET m == [number |-> number, objects |-> n] IN
    /\ Len(rx) + Len(Bytes(m)) <= Capacity
    /\ rx' = rx \o Bytes(m)
    /\ number' = (number + 1) % Numbers
    /\ pending' = IF step = "out" THEN pending ELSE Append(pending, m)
    /\ UNCHANGED <<program, slave, tx, air, step>>

Phase(p) == slave' = [slave EXCEPT !.phase = p]

EmptyRx == rx' = <<>> /\ pending' = <<>> /\ step' = "in" /\ UNCHANGED number
KeepRx  == UNCHANGED <<rx, inbox>>

\* A byte written to the register the chip was pointed at.
Takes(reg, b) ==
    \/ /\ reg = "FIFOS" /\ b # TxOn
       /\ tx' = Append(tx, b) /\ UNCHANGED air /\ KeepRx
    \/ /\ reg = "FIFOS" /\ b = TxOn
       /\ air' = tx /\ tx' = <<>> /\ KeepRx
    \/ /\ reg = "CONTROL0"
       /\ tx' = IF b[1] = "TX_FLUSH" THEN <<>> ELSE tx
       /\ UNCHANGED air /\ KeepRx
    \/ /\ reg = "CONTROL1" /\ EmptyRx /\ UNCHANGED <<tx, air>>
    \/ /\ reg = "RESET" /\ EmptyRx /\ tx' = <<>> /\ UNCHANGED air

\* A byte the chip acknowledges.
Acknowledges(b) ==
    \/ /\ slave.phase = "address"
       /\ Phase(IF b = <<"ADDR", 1>> THEN "read" ELSE "register")
       /\ UNCHANGED <<tx, air>> /\ KeepRx
    \/ /\ slave.phase = "register"
       /\ slave' = [phase |-> "write", reg |-> b[1]]
       /\ UNCHANGED <<tx, air>> /\ KeepRx
    \/ /\ slave.phase = "write" /\ Takes(slave.reg, b) /\ UNCHANGED slave

\* The byte a read gets.
Shown == CASE slave.reg = "STATUS1" -> IF rx = <<>> THEN RxEmpty ELSE Other
           [] slave.reg = "FIFOS" /\ rx # <<>> -> Head(rx)
           [] OTHER -> Other

\* The chip gives a byte, and another if this one is acknowledged.
Gives(ack) ==
    /\ Phase(IF ack THEN "read" ELSE "ignoring")
    /\ IF slave.reg = "FIFOS"
         THEN /\ rx' = IF rx = <<>> THEN rx ELSE Tail(rx)
              /\ step' = IF step = "out" THEN "out" ELSE "half"
              /\ UNCHANGED <<number, pending>>
         ELSE KeepRx
    /\ UNCHANGED <<tx, air>>

\* Command c is carried out; ack is the acknowledgement of a byte written.
CarriedOut(c, ack) ==
    \/ /\ c.op = "start" /\ ack /\ Phase("address")
       /\ UNCHANGED <<tx, air>> /\ KeepRx
    \/ /\ c.op = "stop" /\ ack /\ Phase("idle")
       /\ UNCHANGED <<tx, air>> /\ KeepRx
    \/ c.op = "write" /\ ack /\ Acknowledges(c.byte)
    \/ c.op = "write" /\ ~ack /\ Phase("ignoring") /\ UNCHANGED <<tx, air>> /\ KeepRx
    \/ c.op = "read" /\ ack /\ Gives(c.ack)

-----------------------------------------------------------------------------
(* The program.                                                            *)

\* with_registers: the session is open, the first transaction is next.
Begin(c, first, cmds) ==
    /\ call = "idle"
    /\ call' = c /\ at' = first /\ todo' = cmds
    /\ IF step = "half" THEN step' = "out" /\ pending' = <<>>
                        ELSE UNCHANGED <<step, pending>>
    /\ UNCHANGED <<acked, got, raw, result, slave, rx, tx, number>>

\* It could not be opened.
OpenFails ==
    /\ call = "idle"
    /\ result' = "error"
    /\ UNCHANGED <<call, at, todo, acked, got, raw, frame, staged, chip, inbox>>

\* The session is closed, whether that succeeds or not.
Return(r) ==
    /\ call' = "idle" /\ result' = r
    /\ todo' = <<>> /\ got' = <<>> /\ raw' = <<>> /\ acked' = TRUE
    /\ UNCHANGED <<at, frame>>

Continue(next, cmds) ==
    /\ at' = next /\ todo' = cmds /\ got' = <<>>
    /\ UNCHANGED <<call, acked, frame, result, staged, chip, inbox>>

\* issue: the command is carried out and its status read.
Issue ==
    /\ todo # <<>>
    /\ \E ack \in BOOLEAN :
         /\ CarriedOut(Head(todo), ack)
         /\ acked' = (acked /\ ack)
         /\ todo' = IF ack THEN Tail(todo) ELSE AfterNack(Tail(todo))
    /\ got' = IF Head(todo).op = "read" THEN Append(got, Shown) ELSE got
    /\ UNCHANGED <<call, at, raw, frame, result, staged>>

\* issue returns an error: the command was lost, or only its status was, or
\* the I2C master stayed busy.  The call ends here, without a STOP.
IssueFails ==
    /\ todo # <<>>
    /\ \/ UNCHANGED <<chip, inbox>>
       \/ \E ack \in BOOLEAN : CarriedOut(Head(todo), ack)
    /\ Return("error")
    /\ UNCHANGED staged

\* The transaction is over and a byte of it was not acknowledged.
NotAcknowledged ==
    /\ call # "idle" /\ todo = <<>> /\ ~acked
    /\ Return("nack")
    /\ UNCHANGED <<staged, chip, inbox>>

Finished(t) == call # "idle" /\ at = t /\ todo = <<>> /\ acked

(* fusb302_poll_message.                                                   *)

Poll ==
    /\ Begin("poll", "status", ReadReg("STATUS1", 1))
    /\ UNCHANGED <<frame, staged, air>>

PollStatus ==
    /\ Finished("status")
    /\ \/ /\ got[1] = RxEmpty
          /\ Return("none") /\ UNCHANGED <<staged, chip, inbox>>
       \/ /\ got[1] # RxEmpty
          /\ Continue("head", ReadReg("FIFOS", 3)) /\ UNCHANGED raw

\* The three bytes are gone, a packet or not.
PollHead ==
    /\ Finished("head")
    /\ \/ /\ FALSE \in LooksLikeSop(got[1])
          /\ Return("none") /\ UNCHANGED <<staged, chip, inbox>>
       \/ /\ TRUE \in LooksLikeSop(got[1])
          /\ \E n \in CountIn(got[3]) :
               Continue("rest", ReadReg("FIFOS", Rest(n)))
          /\ raw' = SubSeq(got, 2, 3)

\* What the call returns: header and data, without the CRC.
BadAnswer == raw \o got
Answer    == raw \o SubSeq(got, 1, Len(got) - CrcLen)

PollRest ==
    /\ Finished("rest")
    /\ Return("message")
    /\ IF step = "half" THEN step' = "in" /\ pending' = Tail(pending)
                        ELSE UNCHANGED <<step, pending>>
    /\ UNCHANGED <<staged, chip, number>>

(* fusb302_tx, fusb302_tx_stage and fusb302_tx_fire.                       *)

Send(c, f) ==
    /\ Begin(c, "control0", ReadReg("CONTROL0", 1))
    /\ frame' = f /\ staged' = FALSE /\ air' = <<>>

\* Fired only after a stage that returned Ok, as negotiate_source does.
Fire ==
    /\ staged
    /\ Begin("fire", "burst", WriteReg("FIFOS", <<TxOn>>))
    /\ staged' = FALSE /\ air' = <<>>
    /\ UNCHANGED frame

SendFlush ==
    /\ Finished("control0")
    /\ Continue("flush", TxFlush) /\ UNCHANGED raw

SendFrame ==
    /\ Finished("flush")
    /\ Continue("burst", WriteReg("FIFOS",
           IF call = "tx" THEN Append(Frame(frame), TxOn) ELSE Frame(frame)))
    /\ UNCHANGED raw

SendDone ==
    /\ Finished("burst")
    /\ Return(IF call = "stage" THEN "ok" ELSE "sent")
    /\ staged' = (call = "stage")
    /\ UNCHANGED <<chip, inbox>>

(* fusb302_write_register, of which the set-ups use these two to empty the *)
(* FIFOs, and fusb302_read_register.                                       *)

WriteRegister(reg, value) ==
    /\ Begin("write", "register", WriteReg(reg, <<<<value, 0>>>>))
    /\ staged' = (staged /\ reg # "RESET")
    /\ UNCHANGED <<frame, air>>

ReadRegister ==
    /\ Begin("read", "register", ReadReg("STATUS0", 1))
    /\ UNCHANGED <<frame, staged, air>>

RegisterDone ==
    /\ Finished("register")
    /\ Return("ok")
    /\ UNCHANGED <<staged, chip, inbox>>

-----------------------------------------------------------------------------
Client ==
    \/ OpenFails \/ Poll \/ Fire \/ ReadRegister
    \/ \E c \in {"tx", "stage"}, f \in Frames : Send(c, f)
    \/ WriteRegister("RESET", "SW_RES") \/ WriteRegister("CONTROL1", "RX_FLUSH")

Program ==
    \/ Issue \/ IssueFails \/ NotAcknowledged
    \/ PollStatus \/ PollHead \/ PollRest
    \/ SendFlush \/ SendFrame \/ SendDone \/ RegisterDone

Next == Client \/ Program \/ \E n \in Objects : Arrives(n)

Spec == Init /\ [][Next]_vars

-----------------------------------------------------------------------------
(* Correctness.                                                            *)

\* While no poll_message has broken off since the RX FIFO was emptied, the RX
\* FIFO holds exactly the packets of the messages that were received and not
\* returned: no byte is left over or read twice, whatever arrives meanwhile.
PollsWholePackets ==
    step = "in" => rx = FlattenSeq([i \in 1..Len(pending) |-> Bytes(pending[i])])

Returns == call = "poll" /\ call' = "idle" /\ result' = "message"

\* What poll_message then returns is the oldest of these, whole.
ReturnsOldest ==
    [][Returns /\ step = "half" => Answer = Payload(Head(pending))]_vars

\* What goes on the wire is the message handed to the call, or to the stage
\* before a fire: nothing left in the TX FIFO by a call that failed gets into
\* it.  A tx or fire that returned Ok has sent it.
WholeFrames ==
    /\ air \in {<<>>, Frame(frame)}
    /\ call = "idle" /\ result = "sent" => air = Frame(frame)

\* The program never stops the bus while the chip drives it, and leaves it
\* stopped unless a command failed: after answers, refusals and bursts.
BusReleased ==
    /\ todo # <<>> /\ Head(todo) = Stop => slave.phase # "read"
    /\ call = "idle" /\ result # "error" => slave.phase = "idle"

\* fusb302_poll_message: "Returns the raw message bytes (2-byte header + data
\* objects, little-endian; CRC stripped)", those of a message the partner sent.
ReturnsReceivedMessage ==
    [][Returns => \E m \in Message : Answer = Payload(m)]_vars
=============================================================================
