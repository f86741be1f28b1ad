-------------------------------- MODULE Jtag --------------------------------
(***************************************************************************)
(* An opened Apollo: configure_sram and read_idcode, the register calls to *)
(* the gateware's bridge, and reconfigure.  A call is a list of steps, a   *)
(* step a list of vendor requests, and each request can fail, with its     *)
(* effect or without.  The program is one thread; the debugger's TAP and   *)
(* the FPGA keep their state from one call to the next, failed or not.     *)
(*                                                                         *)
(* Assumed of the FPGA: an instruction acts when the TAP updates IR; a     *)
(* busy FPGA ignores it, and bits burst into it then spoil the load; one   *)
(* that is not enabled ignores them.  Whether the TAP updates IR on its    *)
(* way from IRPAUSE to IRSHIFT is the debugger's choice.                   *)
(***************************************************************************)
EXTENDS Integers, SequencesExt

CONSTANTS
    ByteBits,    \* bits of a byte, 8
    Bitstreams,  \* the bitstreams flashed: nonempty sequences of bytes
    Reported,    \* buffer sizes the debugger may report, 0 if it reports none
    DefaultMax,  \* the size then assumed, 256
    LeastMax,    \* the least size used, 8
    ScanLimit,   \* lengths of scans are sent modulo this, 65536
    MagicBytes,  \* the payload of MAGIC_1C, 64 bytes
    MagicBits,   \* and the bits sent of it, 510
    Polls,       \* looks at the status while waiting, 200
    MaxCalls     \* bound on the calls a client makes

Byte == [1..ByteBits -> {0, 1}]       \* least significant bit first

ASSUME JtagAssumption ==
    /\ {ByteBits, DefaultMax, LeastMax, ScanLimit, Polls} \subseteq Nat \ {0}
    /\ Reported \subseteq Nat /\ MaxCalls \in Nat
    /\ Bitstreams \subseteq Seq(Byte) \ {<<>>}
    /\ MagicBytes \in Seq(Byte) /\ MagicBits <= ByteBits * Len(MagicBytes)

VARIABLES
    call,     \* the call at hand: "idle", "configure", "idcode", "registers"
    plan,     \* its steps, the current one first
    todo,     \* the requests left of that step
    bits,     \* the bitstream of the last configure_sram
    max,      \* max_bytes
    polls,    \* looks taken in the wait at hand
    status,   \* the status that decides about the result
    found,    \* READ_ID named a part, and the register call had no error
    result,   \* what the last call returned
    calls,    \* calls made
    session,  \* the debugger is between JTAG_START and JTAG_STOP
    tap,      \* state of the TAP
    ir,       \* the instruction in force
    shifted,  \* what was last shifted into IR
    out,      \* the debugger's out buffer, bits or an opcode
    captured, \* the status last scanned
    sram,     \* the bits that configure the FPGA
    enabled,  \* the FPGA is in configuration mode
    busy      \* it is working on an instruction

program  == <<call, plan, bits, max, polls, status, found, result, calls>>
debugger == <<session, tap, shifted, out, captured>>
fpga     == <<ir, sram, enabled, busy>>
vars     == <<program, todo, debugger, fpga>>

Bad == 2       \* a bit that spoils the load
Old == <<3>>   \* the design the FPGA had

Bits(bytes) == FlattenSeq(bytes)
\* The order in which the FPGA wants a bitstream: its bytes as they come in
\* the file, each from its most significant bit.
InOrder(bytes) == Bits([i \in 1..Len(bytes) |-> Reverse(bytes[i])])

-----------------------------------------------------------------------------
(* The requests of each step.  A Bad variant is a slip that a property must *)
(* catch; no action uses it.                                                *)

Begin        == [op |-> "start"]
End          == [op |-> "stop"]
Clock        == [op |-> "clock"]
ClearOut     == [op |-> "set", data |-> <<>>]
GetIn        == [op |-> "get"]
Go(s)        == [op |-> "go", to |-> s]
SetOut(data) == [op |-> "set", data |-> data]
\* A scan of n bits, meant for register reg, that leaves the shift state with
\* the last one if it advances.
Scan(n, advance, reg) ==
    [op |-> "scan", n |-> n, advance |-> advance, reg |-> reg]

ShiftIr(opcode) == <<Go("IRSHIFT"), SetOut(<<opcode>>), Scan(8, TRUE, "IR"),
                     Go("IRPAUSE")>>
RunTest         == <<Go("IDLE"), Clock>>
ShiftDrRead(reg) == <<Go("DRSHIFT"), ClearOut, Scan(32, FALSE, reg), GetIn,
                      Go("DRPAUSE")>>

\* jtag_meta_width counts the ones with which the gateware fills a register;
\* jtag_dr_xfer writes it and takes what was there.  Their data are left out.
MetaWidth(reg) == ShiftIr(reg) \o <<Go("DRSHIFT"), ClearOut,
                    Scan(128, FALSE, reg), GetIn, Go("DRPAUSE")>>
DrXfer(reg)    == <<Go("DRSHIFT"), ClearOut, Scan(32, TRUE, reg), GetIn,
                    Go("DRPAUSE")>>

\* The wire bytes are cut into chunks of at most max bytes; nbits may end
\* within the last.
Ceil(n, d)       == (n + d - 1) \div d
Start(k)         == (k - 1) * max
Bytes(wire, k)   == SubSeq(wire, Start(k) + 1, Min({Start(k) + max, Len(wire)}))
ChunkBits(wire, nbits, k) ==
    Min({Len(Bytes(wire, k)) * ByteBits, nbits - Start(k) * ByteBits})
BadLast(wire, k) == TRUE
IsLast(wire, k)  == k = Ceil(Len(wire), max)

ShiftDrWrite(data, nbits, reg) ==
    LET wire     == Reverse(data)
        Chunk(k) == <<SetOut(Bits(Bytes(wire, k))),
                      Scan(ChunkBits(wire, nbits, k) % ScanLimit,
                           IsLast(wire, k), reg)>>
    IN  <<Go("DRSHIFT")>>
        \o FlattenSeq([k \in 1..Ceil(Len(wire), max) |-> Chunk(k)])
        \o <<Go("DRPAUSE")>>

CmdWrite(opcode, data, nbits) ==
    ShiftIr(opcode) \o IF nbits > 0 THEN ShiftDrWrite(data, nbits, opcode) ELSE <<>>
CmdRead(opcode) == ShiftIr(opcode) \o ShiftDrRead(opcode)

\* configure_sram turns the bits of each byte and the order of the bytes round.
BadPayload == bits
Payload    == Reverse([i \in 1..Len(bits) |-> Reverse(bits[i])])
OneByte    == <<[i \in 1..ByteBits |-> IF i = 1 THEN 1 ELSE 0]>>

Requests(step) ==
    CASE step = "begin"   -> <<Begin, Go("RESET")>>
      [] step = "refresh" -> CmdWrite("REFRESH", <<>>, 0)
      [] step = "wait"    -> CmdRead("READ_STATUS")
      [] step = "id"      -> CmdRead("READ_ID")
      [] step = "magic"   -> CmdWrite("MAGIC", MagicBytes, MagicBits)
      [] step = "enable"  -> CmdWrite("ENABLE", OneByte, ByteBits) \o RunTest
      [] step = "erase"   -> CmdWrite("ERASE", OneByte, ByteBits)
      [] step = "idle"    -> RunTest
      [] step = "address" -> CmdWrite("INIT_ADDRESS", OneByte, ByteBits)
      [] step = "burst"   -> CmdWrite("BURST", Payload, Len(Payload) * ByteBits)
      [] step = "no_op"   -> ShiftIr("NO_OP") \o RunTest
      [] step = "status"  -> CmdRead("READ_STATUS")
      [] step = "disable" -> CmdWrite("DISABLE", <<>>, 0) \o RunTest
      [] step = "final"   -> CmdRead("READ_STATUS")
      [] step = "idcode"  -> <<Go("DRSHIFT"), ClearOut, Scan(32, FALSE, "IDCODE"),
                               GetIn>>
      [] step = "data_width"  -> MetaWidth("DATA")
      [] step = "instr_width" -> MetaWidth("INSTRUCTION")
      [] step = "select"      -> ShiftIr("INSTRUCTION") \o DrXfer("INSTRUCTION")
                                 \o RunTest
      [] step = "transfer"    -> ShiftIr("DATA") \o DrXfer("DATA") \o RunTest
      [] step = "end"     -> <<End>>

ConfigureSram == <<"begin", "refresh", "wait", "id", "magic", "enable", "erase",
                   "wait", "idle", "address", "burst", "no_op", "status",
                   "disable", "final", "end">>
ReadIdcode == <<"begin", "idcode", "end">>

\* with_registers: the widths, then n transactions (meta_txn).
WithRegisters(n) ==
    <<"begin", "data_width", "instr_width">>
    \o FlattenSeq([i \in 1..n |-> <<"select", "transfer">>]) \o <<"end">>

\* What is left when READ_ID names no part, or a transaction failed.
GiveUp    == <<"end">>

\* Steps whose errors are ignored: by configure_sram, and by with_registers,
\* which ends its session whatever its transactions returned.
Ignored ==
    IF call = "configure" THEN {"wait", "final"}
    ELSE IF call = "registers" THEN {"end"} ELSE {}
Guarded == call = "registers" /\ Head(plan) \in {"select", "transfer"}

\* ecp5_wait_not_busy looks again.
MoreLooks == captured.busy /\ polls + 1 < Polls

\* jtag_max_bytes, and the floor configure_sram puts under it.
MaxBytes(reported) == Max({LeastMax, IF reported = 0 THEN DefaultMax ELSE reported})

\* flash: what of a status configure_sram returns means success.
BadAccepted == ~status.fail
Accepted    == ~status.fail /\ status.done

-----------------------------------------------------------------------------
Blank  == [busy |-> FALSE, done |-> FALSE, fail |-> FALSE]

Init ==
    /\ call = "idle" /\ plan = <<>> /\ todo = <<>>
    /\ bits \in Bitstreams
    /\ max \in {MaxBytes(r) : r \in Reported}
    /\ polls = 0 /\ status = Blank /\ captured = Blank
    /\ found = TRUE
    /\ result = "none" /\ calls = 0
    /\ session = FALSE /\ tap \in {"RESET", "IDLE"}
    /\ ir = "IDCODE" /\ shifted = "IDCODE" /\ out = <<>>
    /\ sram = Old /\ enabled = FALSE /\ busy = FALSE

-----------------------------------------------------------------------------
(* The debugger and the FPGA.                                              *)

InIr == tap \in {"IRSHIFT", "IREXIT", "IRPAUSE"}

\* The FPGA is configured: it has seen a bitstream to its end.
Done == sram # <<>> /\ \A i \in 1..Len(sram) : sram[i] # Bad

\* The FPGA acts on an instruction.
Acts(opcode) ==
    CASE ~busy /\ opcode = "REFRESH" ->
           sram' = <<>> /\ enabled' = FALSE /\ busy' \in BOOLEAN
      [] ~busy /\ opcode = "ENABLE" ->
           enabled' = TRUE /\ UNCHANGED <<sram, busy>>
      [] ~busy /\ opcode = "ERASE" /\ enabled ->
           sram' = <<>> /\ busy' \in BOOLEAN /\ UNCHANGED enabled
      [] ~busy /\ opcode = "DISABLE" ->
           enabled' = FALSE /\ UNCHANGED <<sram, busy>>
      [] OTHER -> UNCHANGED <<sram, enabled, busy>>

\* The TAP goes to state s; on the way it may update IR, and does when it
\* leaves the IR states for others.
Goes(s) ==
    /\ tap' = s
    /\ shifted' = IF s = "IRSHIFT" THEN "none" ELSE shifted
    /\ \/ /\ InIr /\ s # "IRPAUSE"
          /\ Acts(shifted) /\ ir' = IF s = "RESET" THEN "IDCODE" ELSE shifted
       \/ /\ ~InIr \/ s \in {"IRPAUSE", "IRSHIFT", "RESET"}
          /\ ir' = IF s = "RESET" THEN "IDCODE" ELSE ir
          /\ UNCHANGED <<sram, enabled, busy>>
    /\ UNCHANGED <<session, out, captured>>

ScannedIr ==
    /\ tap = "IRSHIFT"
    /\ shifted' = out[1]
    /\ UNCHANGED <<captured, fpga>>

ScannedDr(some) ==
    /\ tap = "DRSHIFT"
    /\ sram' = IF ir # "BURST" \/ ~enabled THEN sram
               ELSE sram \o (IF busy THEN <<Bad>> ELSE some)
    /\ IF ir = "READ_STATUS"
         THEN \E fail \in BOOLEAN :
                captured' = [busy |-> busy, done |-> Done, fail |-> fail]
         ELSE UNCHANGED captured
    /\ UNCHANGED <<shifted, ir, enabled, busy>>

\* The first n bits of the out buffer are shifted.
Scanned(n, advance) ==
    /\ \/ ScannedIr
       \/ ScannedDr(SubSeq(out, 1, Min({n, Len(out)})))
       \/ tap \notin {"IRSHIFT", "DRSHIFT"} /\ UNCHANGED <<shifted, captured, fpga>>
    /\ tap' = CASE advance /\ tap = "IRSHIFT" -> "IREXIT"
                [] advance /\ tap = "DRSHIFT" -> "DREXIT"
                [] OTHER                      -> tap
    /\ UNCHANGED <<session, out>>

\* Request r is carried out.
CarriedOut(r) ==
    \/ /\ r.op \in {"start", "stop"} /\ session' = (r.op = "start")
       /\ UNCHANGED <<tap, shifted, out, captured, fpga>>
    \/ r.op = "go" /\ Goes(r.to)
    \/ /\ r.op = "set" /\ out' = r.data
       /\ UNCHANGED <<session, tap, shifted, captured, fpga>>
    \/ r.op = "scan" /\ Scanned(r.n, r.advance)
    \/ r.op \in {"clock", "get"} /\ UNCHANGED <<debugger, fpga>>

Ready ==
    /\ busy
    /\ busy' = FALSE
    /\ UNCHANGED <<program, todo, debugger, ir, sram, enabled>>

-----------------------------------------------------------------------------
(* The program.                                                            *)

Call(c, steps) ==
    /\ call = "idle" /\ calls < MaxCalls
    /\ call' = c /\ plan' = steps /\ calls' = calls + 1
    /\ todo' = Requests(Head(steps))
    /\ result' = "none" /\ found' = TRUE /\ polls' = 0
    /\ UNCHANGED <<status, debugger, fpga>>

Configure(b, reported) ==
    /\ Call("configure", ConfigureSram)
    /\ bits' = b /\ max' = MaxBytes(reported)

Idcode == Call("idcode", ReadIdcode) /\ UNCHANGED <<bits, max>>

\* register_widths, register_read and register_write, set_vbus_switches.
Registers ==
    /\ \E n \in 0..2 : Call("registers", WithRegisters(n))
    /\ UNCHANGED <<bits, max>>

\* reconfigure: the FPGA drops what it is at and loads the design it has in
\* its flash, if the request arrives.
Reconfigure ==
    /\ call = "idle" /\ calls < MaxCalls
    /\ calls' = calls + 1
    /\ \/ result' = "error" /\ UNCHANGED <<sram, enabled, busy>>
       \/ /\ result' \in {"reconfigured", "error"}
          /\ sram' = Old /\ enabled' = FALSE /\ busy' = FALSE
    /\ UNCHANGED <<call, plan, todo, bits, max, polls, status, found, debugger, ir>>

Return(r) ==
    /\ call' = "idle" /\ plan' = <<>> /\ todo' = <<>> /\ result' = r
    /\ UNCHANGED <<bits, max, polls, status, found, calls>>

\* The steps that are left; the next one begins.
Continue(steps) ==
    /\ plan' = steps
    /\ todo' = IF steps = <<>> THEN <<>> ELSE Requests(Head(steps))
    /\ polls' = 0
    /\ UNCHANGED <<call, bits, max, result, calls>>

Request ==
    /\ todo # <<>>
    /\ CarriedOut(Head(todo))
    /\ todo' = Tail(todo)
    /\ UNCHANGED program

\* ?, or .ok() and unwrap_or in the steps that go on.
RequestFails ==
    /\ todo # <<>>
    /\ CarriedOut(Head(todo)) \/ UNCHANGED <<debugger, fpga>>
    /\ CASE Head(plan) \in Ignored -> Continue(Tail(plan)) /\ UNCHANGED <<status, found>>
         [] Guarded -> Continue(GiveUp) /\ found' = FALSE /\ UNCHANGED status
         [] OTHER   -> Return("error")

Over(step) == todo = <<>> /\ plan # <<>> /\ Head(plan) = step

\* One look of ecp5_wait_not_busy: again while the FPGA is busy and there are
\* looks left.
Waited ==
    /\ Over("wait")
    /\ IF MoreLooks
         THEN /\ todo' = Requests("wait") /\ polls' = polls + 1
              /\ UNCHANGED <<call, plan, bits, max, status, found, result, calls>>
         ELSE Continue(Tail(plan)) /\ UNCHANGED <<status, found>>
    /\ UNCHANGED <<debugger, fpga>>

\* READ_ID names a part or none; the widths are plausible or not, which only
\* a transaction looks at.
Identified ==
    /\ Over("id") \/ Over("instr_width")
    /\ \/ Continue(Tail(plan)) /\ UNCHANGED found
       \/ Len(plan) > 2 /\ Continue(GiveUp) /\ found' = FALSE
    /\ UNCHANGED <<status, debugger, fpga>>

StatusRead ==
    /\ Over("status") \/ Over("final")
    /\ status' = captured
    /\ Continue(Tail(plan))
    /\ UNCHANGED <<found, debugger, fpga>>

StepOver ==
    /\ \E step \in {"begin", "refresh", "magic", "enable", "erase", "idle",
                    "address", "burst", "no_op", "disable", "idcode",
                    "data_width", "select", "transfer", "end"} :
         Over(step)
    /\ Continue(Tail(plan))
    /\ UNCHANGED <<status, found, debugger, fpga>>

\* The call ends, with what flash makes of the status.
Finish ==
    /\ call # "idle" /\ plan = <<>>
    /\ Return(CASE ~found              -> IF call = "configure" THEN "no_fpga"
                                          ELSE "error"
                [] found /\ call # "configure" -> "ok"
                [] OTHER -> IF Accepted THEN "configured" ELSE "not_configured")
    /\ UNCHANGED <<debugger, fpga>>

Next ==
    \/ \E b \in Bitstreams, r \in Reported : Configure(b, r)
    \/ Idcode \/ Registers \/ Reconfigure
    \/ Request \/ RequestFails
    \/ Waited \/ Identified \/ StatusRead \/ StepOver \/ Finish
    \/ Ready

Spec == Init /\ [][Next]_vars

-----------------------------------------------------------------------------
(* Correctness.                                                            *)

\* Every scan reaches the register it is meant for: the TAP is in that shift
\* state, and the instruction in force is the one this command shifted in,
\* whatever an earlier call or a poll that was given up left behind, and from
\* the first chunk of a write to the last.
ScansReachTheirRegister ==
    todo # <<>> /\ Head(todo).op = "scan" =>
       /\ session
       /\ IF Head(todo).reg = "IR" THEN tap = "IRSHIFT"
          ELSE tap = "DRSHIFT" /\ ir = Head(todo).reg

Loading == call = "configure" /\ plan # <<>> /\ sram # Old /\ Done

\* The FPGA gets the bits of the file in its order, whole when the burst is
\* over: the two reversals of configure_sram and the one of jtag_shift_dr_write
\* cancel out, and the chunks fit together for every size of buffer.  Loads that
\* the FPGA ignored, or that were spoilt before it was ready, are not in this
\* (Done): of these OkMeansConfigured says that they are not taken for good.
LoadsInOrder ==
    /\ Loading /\ Head(plan) = "burst" => IsPrefix(sram, InOrder(bits))
    /\ Loading /\ Head(plan) \in {"no_op", "status", "disable", "final"} =>
          sram = InOrder(bits)

\* flash returns Ok only if the FPGA runs the bitstream it was given: not the
\* design it had, not a load that was spoilt because the waits were given up.
OkMeansConfigured == result = "configured" => sram = InOrder(bits)
=============================================================================
