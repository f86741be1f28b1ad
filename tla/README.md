# Verification of usbmagic

TLA+ models of usbmagic, the TLC runs that check them on small instances, and
theorems about them that TLAPS proves for every value of the constants. Paths
are relative to the repository; `link.rs:294` stands for
`src/pd/link.rs`, line 294, and so on. `PROJECT.json` lists, in a form a script
can read, the components, the runs, the lines each definition models, the
hazards and the theorems.

    tlc -config CaptureSafety.cfg MCCapture.tla     # one run
    tlapm CaptureProofs.tla                         # one module of proofs

Contents: [Inventory](#inventory), [Modules](#modules),
[Runs](#runs-bounds-and-what-they-show), [Fairness](#fairness),
[Proofs](#proofs), [Findings](#findings), [Limits](#what-is-not-modelled),
[Plan](#plan).


## Inventory

usbmagic is a library and a command-line program for a Great Scott Gadgets
Cynthion: it captures USB traffic through the analyzer gateware, flashes
gateware through the Apollo debugger, talks USB Power Delivery through a
FUSB302B behind a JTAG-to-I2C bridge, and has a host stack, so far over a
simulated bus, that reads the descriptors of devices that misbehave. Almost all
of it is sequential code whose difficulty is what the other side does: every
request can fail, with its effect or without, and state stays behind in the
hardware when a function returns early with `?`. Only captures have threads.

| component | state it keeps | operations | works with | what is hard | what makes it correct |
|---|---|---|---|---|---|
| **Capture stream** `backend/cynthion.rs`, `capture.rs` | State register of the analyzer, ring of bulk reads, `stop` flag, `done` | `start_capture`, `next`, `stop`, drop, `StopFn` | record parser, rawusb, any thread that holds a `StopFn` | a `StopFn` runs on another thread at any moment; errors of a register write leave the register unknown; the flag is only seen on entry and on a timeout | reads in order; a disable is final; the analyzer is not left enabled without a reason; a stop ends the stream |
| **cmd_capture** `main.rs`, `device.rs`, `pcap.rs` | mutex around one `StopFn`, the pcap file's buffer | choice of device and speed, capture loop, timer thread, Ctrl-C handler, pcap file | capture stream | three threads and one mutex, Ctrl-C with and without a handler, several exits | a stop ends the program; analyzer off at the exit; Ok means a whole file |
| **Record parser** `backend/cynthion.rs` | `buf`, `pos`, `cycles` | `extend`, `next_item` | capture stream | reads cut records anywhere; padding; rounding of the clock | every record once, with its exact time, as soon as it is whole |
| **PdLink** `pd/link.rs` | `msg_id`, `vbus_route`; FUSB302B and load switches behind it | bring-up, cycle, set-up, `negotiate_source`, `send`, `send_vdm`, `poll` | PD bridge, a sink | the sink's timing, messages lost or left over, a rail half switched | fresh MessageIDs; the rail as reported; a returned Request is a contract |
| **PD commands** `main.rs` | the trace's buffer | `pd-send`, `pd-source`, `pd-listen`, `charge` | PdLink, PD trace | loops against a partner that may talk for ever; early exits | they end; a success has written its whole trace; the rail is never fed from two sides |
| **PD bridge** `flash/mod.rs` | none; RX and TX FIFO and I2C state in the chip | `I2cBus`, `fusb302_poll_message`, `tx`, `tx_stage`, `tx_fire`, register accesses | Apollo over USB, the chip | a call is dozens of commands, each of which may fail; messages arrive in between | whole packets in order, whole frames, bus released |
| **FUSB302B set-ups** `flash/mod.rs` | `PdLink.cc`; registers and FIFOs of the chip | `fusb302_setup_sink`, `_source`, `tx_result` | a cable and what is behind it | twenty slow accesses, each of which may fail; a cable that changes between two | the chip listens on the partner's line, in its role; capabilities are not lost |
| **Flashing** `flash/mod.rs` | none; JTAG session, TAP, IR and FPGA behind it | `configure_sram`, `flash`, `read_idcode`, register calls, `reconfigure` | Apollo over USB | ignored errors, a TAP left anywhere, chunked scans, two reversals of bit order | every scan reaches its register; the FPGA runs the file when `flash` says so |
| **Opening Apollo** `flash/mod.rs`, `usb.rs` | none | `find`, `Apollo::open`, hand-off from a running gateware | USB discovery | a device that goes away and comes back, 60 retries, permissions set late | one board is asked, and that board is opened |
| **Host stack** `host/mod.rs` | the `UsbDeviceModel` under construction | `enumerate`, `examine`, `control` | descriptors, a bus (`mock.rs`) | the device lies, stalls or is exchanged between two transfers | one device per model; everything its descriptors refer to is asked for |
| **Descriptors** `host/descriptors.rs` | none | `walk`, `Configuration::parse` | host stack | lengths that lie | no byte lost or invented; each descriptor to its interface |
| **PD trace** `pd/trace.rs`, `pcapng.rs` | a buffered file | `make_trace`, `record`, `flush`, `parse_pcapng`, `pd-dump` | PD commands | files cut anywhere, two byte orders, three kinds of padding | what was recorded and reached the disk is printed, nothing else |
| Not modelled | | | | | |
| forensic recipes, message bit fields, codecs, errors, power, firmware; in part discovery and the pcap writer | | | | | see [Limits](#what-is-not-modelled) |

How they interact: the capture commands drive `CynthionDevice`, whose stream
owns a record parser; `StopFn`s share the flag of the stream and write the same
register through a clone of the interface. The PD commands drive `PdLink`,
which calls `Apollo`'s `fusb302_*` functions, which open an `I2cBus` over a JTAG
register session of the gateware that `configure_sram` has loaded just before.
`PdLink::record` passes each message to a `PdTrace`, which `pd-dump` reads back.

The behaviour that a test would hardly reach is listed line by line under
"hazards" in `PROJECT.json`, each with the properties that would catch it going
wrong.


## Modules

Abstractions that all of them share: bytes and messages are what the properties
tell apart; sleeps are steps without effect; a request over USB, JTAG or I2C
that returns an error may have had its effect or not; printed text is left out.
A definition whose name begins with `Bad` is a slip a programmer could make in
the definition below it (a reset forgotten, an order swapped, an off-by-one).
No action uses one: put in place of the real definition, it makes the property
fail for which it was written, which shows that the property depends on the
code. `PROJECT.json` lists these pairs under "mutants".

| module | models | extends / used by |
|---|---|---|
| `ChunkQueue` | what the ring of bulk reads promises: a bounded FIFO | instance in `Capture` |
| `Capture` | `CynthionDevice::start_capture`, `CynthionCapture`, `StopFn` | `MCCapture`, `CaptureCli` |
| `CaptureCli` | `cmd_capture`, with `select`, `open` and the pcap file | extends `Capture`; `CaptureProofs` |
| `RecordParser` | `RecordParser` of the backend | `AnalyzerStream` |
| `AnalyzerStream` | what the analyzer streams, and what a reader expects of it | extends `RecordParser`; `MCRecordParser`, `RecordParserProofs` |
| `PdLink` | `PdLink`, the load switches, the FUSB302B's FIFOs, the sink | `PdCommands` |
| `PdCommands` | `pd-send`, `pd-source`, `pd-listen`, `charge` | extends `PdLink`; `PdProofs` |
| `PdPhy` | the set-ups of the FUSB302B, transmit result, `PdLink.cc` | `PdPhyProofs` |
| `PdBridge` | `I2cBus` and the `fusb302_*` calls of `Apollo` | `PdBridgeProofs` |
| `Jtag` | `configure_sram`, `read_idcode`, `with_registers`, `reconfigure` | `Flash` |
| `Flash` | `find`, `Apollo::open`, `flash` | extends `Jtag`; `MCFlash`, `FlashProofs` |
| `Host` | `enumerate`, `examine` | `MCHost`, `HostProofs` |
| `Descriptors` | `walk`, `Configuration::parse` | `MCHost`, `HostProofs` |
| `PcapNg` | `PdTrace`, `PcapNgWriter`, `parse_pcapng`, `pd-dump` | `MCPcapNg`, `PdProofs` |
| `DataLemmas` | facts about numbers and sequences, without a model | the modules of proofs |

`MC...` modules hold only the values and the reference definitions TLC needs.
`MCHost` also puts `Host` and `Descriptors`, which share no variable, side by side.

### Capture

State: `state` is the State register of the device, `endpoint` the reads the
host controller holds, `reads`, `done` and `flag` the fields of
`CynthionCapture`, `pc` and `cur` the thread that owns the streams (a stream is
not `Send`, so one thread suffices), `call` the threads inside a `StopFn`.
Sessions are calls of `start_capture`; their streams may be open together,
because `start_capture` clones the interface and nothing stops a second one.
`disabled`, `unsure` and `late` are history.

Actions: one for each register write, submit, wait, cancel and return.
`StartStop`, `StartRun`, `StartSubmit`, `StartReturn`, `StartFailed` are
`cynthion.rs:128-148`; `NextCall`, `NextItem`, `NextCompleted`,
`NextSubmitFails`, `NextEnd`, `NextFails`, `NextTimeout` the branches of `next`
(`:239-291`); `Stop`, `StopWrite`, `CancelRead`, `StopReturn` are `stop` and the
drop (`:293-330`); `StopFnCall` and `StopFnWrite` the closure of `stop_handle`
(`:314-323`). `Complete` and `Break` are the analyzer and the host controller.
The k-th completed read carries chunk k; what its bytes decode to is
`RecordParser`, and a chunk completes any number of records up to `MaxRecords`.

`DeliversInOrder` is a refinement: under a mapping that takes the completed
reads of the deque for the queue, `Capture` implements `ChunkQueue`.

### CaptureCli

`prog` is where `cmd_capture` is, or how it ended; `lock` is the stopper mutex,
`pcap` the file behind its `BufWriter`. `CliSelect` is `select` over `discover`
(`main.rs:316`), `CliOpen` the open, `CliSpeed` the choice of the speed
(`:429-447`), `CliCreate` the file. From `CliStart` on every step is a step of
`Capture` or leaves it alone, taken at the place of the program where it can
happen. The loop ends with the stream, with `--count`, with an error of `next`,
or with an error of the pcap writer, which returns from the function past the
final stopper call (`main.rs:519`). `CliHandler` installs the Ctrl-C handler, or
fails to, which nobody notices (`:480`): until then and in that case `PressKills`
ends the process as it is.

### RecordParser

`buf`, `pos` and `cycles` are the fields; `Extend` is `extend` with its
compaction, `NextEvent` and `NextPacket` are the two branches of `next_item`.
Bytes are digits to base `Base`; an event's first byte is the largest of them.
`AnalyzerStream` has the other side: a stream is a list of records, `EncodeAll`
its bytes on the wire with their pads, `Expected` the items with the exact time
of each (`Cycles` sums the distances). `SendsRecords` says of the constants that
every wire TLC or the proof is given is that of records the format has room for.

### PdLink and PdCommands

`PdLink`'s `msgId` is `msg_id` as far as a header shows it (a u16 that wraps,
masked to three bits: the assumption that `Ids` divides 65536 makes the two
wraps agree), `route` is `vbus_route`, `pc`, `call` and `attempt` are where a
call is. `switches` are the closed load switches, `tx` and `rx` the FIFOs of the
chip, `sink` what the sink is doing.

`BringUpOff`, `BringUpProbe`, `BringUpRoute` are `bring_up_vbus_target_c`
(`link.rs:323-354`); `Drop` and `Apply` are `cycle` (`:358-363`); `Stage`,
`Fire`, `Listen`, `ListenFails`, `WindowOver`, `SendAccept`, `SendPsRdy` are
`negotiate_source` in its order (`:275-308`), each `?` a disjunct `Fail`;
`Send`, `StageOwn`, `FireStaged`, `Poll`, `SetVbus`, `Setup` are the calls of one
step. `Setup` is the whole sequence of register writes of `fusb302_setup_sink` or
`_source` taken as one step: it resets the chip first, and may break off at any
point; `PdPhy` takes it apart. A client that stages and fires on its own answers
for the MessageIDs itself: `excused` covers its sends as it covers errors.

A failed poll may leave bytes of a packet in the RX FIFO (that is what
`PdBridge` shows). From then on the FIFO is taken to hold `Garbage`, which a poll
may read as any message, or as none, and which may swallow what is behind it
(`Misread`, `Unread`). An FIFO in step is read message by message.

The world: a sink attaches when 5 V reaches it and the chip is a source; it
evaluates each offer it hears and asks for it, late or not; any partner may
chatter, reset, or be unplugged. Messages get lost in the air. A full RX FIFO
drops what does not fit.

`PdCommands` gives a program as a list of steps (`plan`): `pd-send` in each of
its combinations of options, `pd-source`, `pd-listen`, `charge`, and a client of
the library that makes `AnyCalls` calls of any kind and goes on after errors.
`Quits` is the `?` of the commands, `Ends` the return of `main`; `trace` follows
the pcapng file from the `BufWriter` to the disk. The state left over from an
earlier program (closed switches, the chip's role) is in `Init`. Connecting
(`Apollo::open` and `configure_sram`) is one step that may fail. Only the
TARGET-C port is modelled; on it `charge` watches a second chip, at AUX, whose
answers only decide what it prints.

### PdBridge

Each call opens a register session (`Begin`, `flash/mod.rs:540-547`) and plays
I2C transactions, lists of commands in `todo`; `Issue` is one command with its
status (`I2cBus::issue`), `IssueFails` its error, `NotAcknowledged` what the
callers make of a byte the chip refused. `PollStatus`, `PollHead`, `PollRest`
are the three reads of `fusb302_poll_message` (`:763-786`), `SendFlush`,
`SendFrame`, `SendDone` those of the sends (`:694-741`). A byte in the RX FIFO is
known by its message and its place, so that reading the wrong one shows.

Assumed of the chip: a START addresses it in whatever state it is; from a byte
it does not acknowledge it ignores the bus up to the next START; a message that
does not fit its RX FIFO is dropped whole. Fire follows a stage that returned
`Ok`, as in `negotiate_source`. When the first byte of a poll is a byte of data or
of a CRC, whether it looks like an SOP token is any choice; the first byte of a
header never does, the second only in an extended message of six objects or seven.

### PdPhy

A set-up is a list of register accesses (`todo`) as `fusb302_setup_sink` and
`_source` make them (`flash/mod.rs:590-685`); `Access` is one of them,
`AccessFails` its error, with the effect or without, and `Decide` what the code
concludes from the levels it read. `reg` keeps the fields the properties tell
apart: terminations, the lines measured and used to send, AUTO_CRC, role and
HOST_CUR. `Client` is a transmit, a read of the result (INTERRUPTA is cleared by
it) or a poll. The other end of the cable is a source, a sink, or a port that
alternates and shows its termination late (`shown`); a marked cable pulls its
other line down as well. What is assumed of chip, partner and time stands at the
head of the module.

### Jtag and Flash

A call is a list of steps, a step a list of vendor requests (`Requests`), as
`configure_sram` makes them (`flash/mod.rs:399-461`) and the register calls do
(`with_registers`, `:540-550`: widths, then any number of transactions).
`Request` and `RequestFails` are one control transfer; in the two waits and the
last status read errors are ignored, after a failed transaction the session is
ended, elsewhere errors return at once, with the session open and the TAP where
it is. `Acts`, `Goes`, `ScannedIr`, `ScannedDr` are the FPGA and its TAP; `sram`
collects the bits burst into it, and `InOrder` says in which order a bitstream
file means them.

Assumed: `reconfigure` makes the FPGA drop what it is at, the load it is busy
with included, and take the design of its flash, if the request arrives; an
instruction acts when the TAP updates IR; a busy FPGA ignores it,
and bits burst into it then spoil the load; one that is not enabled ignores
them; whether the TAP passes Update-IR between IRPAUSE and IRSHIFT is the
debugger's choice (either is allowed). `captured.fail` may be set at any time.
The length of a scan is sent as a u16: `ScanLimit` keeps that truncation in the
model, but no buffer the instance reports is so large that it bites.

`Flash` puts the way to an open Apollo in front: `Look`, `FindStub`, `HandOff`,
`Try`, `Claim` are `Apollo::open` (`:172-196`), `request_handoff` and
`from_device`, `Find` the beginning of `cmd_flash`. Boards are plugged in and out
between any two steps, leave after a hand-off and come back as Apollo with their
permissions unset, or do not; a board that a scan returned may be gone when it is
opened. Which of several comes first is any choice, and every scan can fail.

### Host and Descriptors

`Host` has one action per control transfer. A device answers with any part of a
descriptor, nothing, or an error, and `Replug` exchanges it between any two
transfers. A descriptor is the parts the code tells apart (the first 8 bytes of
a device descriptor and the rest; the 9 bytes of a configuration and the
interfaces behind them). Silence and STALL differ only in `SetAddress`, where
only a STALL is an error (`host/mod.rs:515`).

`Descriptors` has no state of the program: `Walk` and `Parse` are recursive
functions of a blob. Its one variable, `sent`, is what a device has sent: any
bytes, one after the other, and at each point the functions are compared with
what they are to compute.

### PcapNg

`MakeTrace`, `Record`, `Flush` append the bytes the writer writes; `BreakOff` is
a process that is killed or fails, of whose bytes any prefix may be on the disk;
`ReadBlock` is one turn of `parse_pcapng`. Bytes are digits to base `B`, so the
carries of u16, u32 and the two halves of a timestamp are real. `foreign` makes
the same trace as another program might write it: big-endian, with blocks and
options the reader does not know, in microseconds (if_tsresol 6), the only unit
`pd-dump` prints. The assumptions on the constants are what the format and the
types guarantee: a byte has at least eight values, the block type of a section is
a palindrome and the magic is not, a name and a message fit the u16 and u32 that
count their bytes, a time is a u64.


## Runs, bounds and what they show

| run | configuration | properties |
|---|---|---|
| `capture_safety` | `MCCapture`, `CaptureSafety.cfg` | `TypeOK`, `ReadsInCompletionOrder`, `DisableSticks`, `EnabledHasReason`, `AtMostOneItemAfterStop` |
| `capture_cli` | `CaptureCli.cfg` | `ExitLeavesAnalyzerOff`, `OkMeansWholeFile`, `StopEndsProgram`, `DeliversInOrder`, no deadlock |
| `record_parser` | `MCRecordParser`, `RecordParser.cfg` | `TypeOK`, `TimeIsMonotone`, `DecodesWhatWasSent`, `BufferIsTail` |
| `pd_commands` | `PdCommands.cfg` | `TypeOK`, `FreshMessageId`, `RailAsReported`, `SuccessMeansContract`, `SuccessKeepsTrace`, `NoBackFeed`, `CommandEnds` |
| `pd_stale_request` | `PdLink`, `PdStaleRequest.cfg` | `AnswersThisOffer`, violated: a finding |
| `pd_setup` | `PdPhy`, `PdPhy.cfg` | `ConfiguredForPartner`, `CapsWaiting` |
| `pd_tx_result` | `PdPhy`, `PdTxResult.cfg` | `AckIsOfLastTransmit`, violated: a finding |
| `pd_bridge` | `PdBridge.cfg` | `PollsWholePackets`, `ReturnsOldest`, `WholeFrames`, `BusReleased`, no deadlock |
| `pd_desync` | `PdBridge`, `PdBridgeBroken.cfg` | `ReturnsReceivedMessage`, violated: a finding |
| `flash` | `MCFlash`, `Flash.cfg` | `AsksOneBoard`, `OpensTheBoardAsked`, `ScansReachTheirRegister`, `LoadsInOrder`, `OkMeansConfigured` |
| `host` | `MCHost`, `Host.cfg` | `OneDeviceInModel`, `ExamineAsksForAll`, `EnumeratedHasAddress`, `WalkCoversBlob`, `ParseGroupsByInterface` |
| `pcapng` | `MCPcapNg`, `PcapNg.cfg` | `DumpShowsTrace` |

What each shows, and why its bounds are enough:

- **capture_safety.** Two sessions, one `StopFn` thread, two reads in flight,
  three chunks of at most one record. Two sessions are the least with which one
  can disturb the other's register and reads; a `StopFn` of either can run at any
  time, also after its stream is gone. Two reads make the order of the deque
  visible, three chunks let it turn round. Sessions are symmetric.
- **capture_cli.** The main thread, the timer, Ctrl-C pressed twice; two devices on
  the bus; a ring of three reads, four chunks of at most one record. Two presses
  make the handler contend with the timer, the main thread and itself. Three
  reads distinguish a rotation from a swap, and four chunks turn the deque once
  and on: `DeliversInOrder` is the refinement of `ChunkQueue`. Deadlock is
  checked: the mutex never blocks everyone.
- **record_parser.** All streams of up to three records of seven shapes (events,
  the empty packet, odd and even payloads, a length of two digits, payloads that
  look like headers, a non-zero pad), cut into reads of up to six bytes in every
  way. Three records put a compaction in front of, within and behind one.
- **pd_commands.** Four MessageIDs, two attempts, two messages in the RX FIFO, two
  passes, three calls of the library's client. Three calls reach "bring-up,
  set-up, negotiate" and every failure with one call behind it; `pd-send` makes
  up to eight. Four MessageIDs wrap within one command (an offer per attempt,
  Accept, PS_RDY, a VDM); two attempts are the least that leave one. The client
  sets the switches to nothing or to the CONTROL route: `set_vbus` closes whatever
  it is told, so `NoBackFeed` is about clients that do not ask for both feeds.
- **pd_setup.** Room for two messages, capabilities sent twice, two looks for a
  sink, four calls, one change of the cable. Four calls are two set-ups, the
  second of them over what the first left, with a transmit and its result
  behind one; a change of the cable may fall between any two accesses. Two
  bursts fill the FIFO: what is not flushed crowds out what comes. `pd_tx_result`
  has the same bounds; a set-up, two transmits and a read are the four calls.
- **pd_bridge.** Messages of zero and one object, a CRC of two bytes, room for two
  packets of either kind, frames of two tokens. The chip's sizes (4, 4, 80) enter
  the code only as `n * 4 + 4` and a limit, so small ones keep the structure; a
  CRC of two still makes a burst of several reads. Message numbers repeat modulo
  3, more than fit in the FIFO.
- **flash.** Two boards, three tries, two plugs in or out, then two calls: bytes of
  two bits, bitstreams of one to three bytes, buffers of one, two and an
  unreported size (then four), two polls. Two boards are the least of which the
  wrong one can be asked or opened; three tries leave room for a board that comes
  back late. Three bytes over buffers of two give a short last chunk; three of
  four MAGIC bits end within a byte; the second call starts from whatever the
  first left. Boards are symmetric.
- **host.** Two devices that differ in everything, four calls (enumerate, examine,
  enumerate, examine), replugged at any transfer. Beside them,
  all blobs of up to nine bytes over `{0, 1, 3, 4}`, which are lengths (none, too
  short, endpoint, interface) and types at once. Nine bytes hold a configuration
  descriptor, an interface and a part of an endpoint.
- **pcapng.** Two messages of three and six bytes (padded and not), two interfaces,
  times on both sides of the carry between a timestamp's halves, the file of
  this program and of another, cut at every byte. Two messages are the least
  whose order and difference in time can be wrong.

`CHECK_DEADLOCK FALSE` stands in the runs whose system ends: sessions or calls
used up, a program that exited, a stream or a file that is at its end.


## Fairness

Safety runs assume none. Liveness is checked under weak fairness of steps that
the code or the operating system is bound to take:

- `CaptureCli!CliSpec`: `WF(flag[Cap] /\ MainStep)`: the main thread is scheduled;
  each wait of `next` ends after `READ_TIMEOUT` at the latest. Fairness starts with
  the flag: before, a silent bus may keep `next` waiting for ever, and should.
  `WF(ThreadReturns(c))`: a register write ends after `TIMEOUT`. The timer is not
  made to fire nor Ctrl-C to be pressed, the analyzer not made to send, and
  `CliNextFails` (an error of the wait) is no step of `MainStep`.
  `StopEndsProgram` has a limit that the bound on chunks hides: an analyzer that
  for ever sends chunks without completing a record would keep `next` reading,
  for it looks at the flag only on entry and on a timeout.
- `PdCommands!CmdSpec`: `WF(Forced)`, steps of the program that are neither waits
  nor polls; `WF(WindowOver)`, `WF(DrainOver)`, `WF(DurationOver)`: these windows
  are deadlines (`Instant::now() < deadline`), they pass while messages keep
  coming. `WF(PassOver)`, an action enabled only when the RX FIFO is empty: a pass of
  `pd-listen` ends when a poll finds it so, and nothing else ends it: the first
  poll that fails ends the program, so no bytes are out of step in a pass.
  That is why `CommandEnds` allows one way not to end: a partner that never lets
  the RX FIFO run empty. No poll is bound to fail, and the partner is not bound to
  do anything.


## Proofs

Eight modules hold proofs, for every value of the constants under the `ASSUME`s
of the models they are about. TLC evaluates the assumptions in each run, and
found the invariants below to hold before they were proved. Every safety
property and both refinement properties of the runs have a theorem; the end of this
section says what has none.

**CaptureProofs**, on `Capture` (`CaptureAssumption`: at least one read in flight,
`None` is no session). The invariants of interest are not inductive: that a
`StopFn` can only follow an open stream, or that a register write in `stop`
belongs to the session that is closing, lies in where the owner's thread is.
`IInv` is `TypeOK` and
- `Control`: for each place of the owner's thread the phase of the session it
  serves, and that a session has been disabled, or asked to be, only after its
  stream was open;
- `Register`: `DisableSticks`, `EnabledHasReason`, and that between the write of
  `stop` and the cancelling of its reads the register holds the session only if
  the write failed;
- `LastItem`: no item has been counted late while the flag is clear or the owner
  still inside `next`; the entry test of `next` makes this one step.

From it follow `TypeCorrect`, `DisableIsFinal`, `EnabledOnlyForReason` and
`OneItemAfterStop`, for any number of sessions, threads and reads.

`RingInOrder` (`ReadsInCompletionOrder`) is about rings of any length and any
number of streams whose reads lie mixed in the host controller's queue. The
property asks for witnesses in the queue and says nothing of the transfers that
do not wait, so `RingInv` adds that
- a deque lists no transfer twice, and the transfers that wait stand behind those
  that do not (`InOrder`): this is what makes the front of the deque the next to
  complete, and what a missing `rotate_left` breaks;
- while `start_capture` fills it, the deque of a session is 1, 2, 3, ... (`Filling`),
  so that the transfer it submits next is not listed yet.

Each action is made of four moves, each with a lemma about any queue and any
deques: a transfer that nobody holds changes its status (`StatusKeeps`), the front
leaves its deque (`FrontLeaves`), a transfer goes to the back of both
(`SubmitKeeps`), and the host controller lets the oldest read go, or one at the
front of its deque (`ReleaseKeeps`). `next` is the second and the third,
`cancel_reads` the fourth or the first, then the second. `Control` says which
session may be filled.

`ImplementsQueue` is the refinement of `ChunkQueue` (`DeliversInOrder`), step by
step. The queue of a session is the chunks of the completed transfers of its
deque, front to back. `Complete` is `Put`, because everything before the first
transfer that waits has completed (`InOrder` again); `NextCompleted` and
`NextSubmitFails` are `Get`; a stop or a start that fails is `End`, and the
cancelling of reads `Discard` or nothing. That the queue never holds more than
the ring is the pigeonhole principle on a deque without repetition.

The program: `CliStepsCapture` shows that each step of `cmd_capture` is a step of
`Capture` or leaves it alone, so `IInv`, `RingInv` and the refinement
(`ProgramImplementsQueue`) hold of it too. What remains is `Whereabouts`: that the
stream is unused before `start_capture` and closed in the places behind the loop.
`ProgramDisables` follows because a stream that is closed has its session among
those disabled, or among those whose write failed. `OkIsWhole` is about the flush
before `Ok`.

**RecordParserProofs** (`ParserAssumption`: a byte has at least two values).
`ClkToNsExact`: the table of `clk_to_ns` is `(50 c) \div 3` for every c.
`TypeCorrect` includes `pos <= Len(buf)`: for every stream of bytes, well-formed
or not, no slice of `next_item` is out of bounds. `TimeNeverRunsBack` needs that
no item is later than the clock (`TimeInv`); `NothingMovesInBuffer` is inductive
together with the type. `ItemsAreRecords` (`DecodesWhatWasSent`) has the hypothesis
`SendsRecords`, which TLC evaluates in the run: the streams are records, and the
wires their encodings. Its invariant `Decoded` says that the items returned are
those of the first n records, the bytes consumed their encodings, and the clock
the sum of their distances; with `NothingMovesInBuffer` the parser then stands at
the beginning of record n + 1, and either returns it or has too few of its bytes.
It is not needed that the code could be read in one way only.

**PdProofs**, on `PdLink` (`LinkAssumption`: more than one MessageID, their number
divides 65536; at least one attempt and one place in the RX FIFO), about a client
that makes any number of any calls.
- `TypeCorrect` needs `Turns`: inside `negotiate_source` the turn is below
  `Attempts`.
- `RailIsAsReported` needs `RailInv`: whenever the switches differ from the
  remembered route, or are about to be moved, `upset` says so.
- `MessageIdIsFresh` needs `IdInv`: the offer in the TX FIFO still has the
  MessageID that `msg_id` holds when it is fired, and unless an error was
  returned the last message sent has another one; anywhere else the TX FIFO holds
  a numbered message only after an error or when the client staged it. It is the
  step from staging to firing, across a cycle of the rail, that makes this more
  than a restatement of the counter.
- `SuccessIsContract` needs `ContractInv`: where the sink is after each answer,
  and that a sink attaches only to a chip set up as a source.

And on `PdCommands`, for any number of passes, calls and attempts.
- `NeverFedTwice` needs `Routed`: the switches are those of a route, of the
  discharge or open, and the remembered route is a route, whatever a program
  before left and whatever calls fail.
- `TraceIsKept` needs to know that no traced program can end with its trace in the
  buffer: `Closed` says that the rest of a plan ends with its flush, and is kept
  by taking its head off (`TailCloses`) and by putting more in front of it
  (`ConcatCloses`), for programs of any length; that a message missing from the
  trace has made its call fail is the other half (`DoKeepsTrace`).

And on `PcapNg`, the file of that trace (`PcapNgAssumption`), for bytes of any size,
any names, messages and times, and any number of messages.
- `TraceIsShown` (`DumpShowsTrace`) needs `FileInv`: the file is what the writer
  makes of the messages recorded, and the reader stands in front of one of its
  blocks, knows the byte order, and has seen exactly the interfaces and messages
  before that block (`Place`). It rests on three layers of lemmas. An integer is
  read from its digits as it was written, in both orders (`U16Is`, `U32Is`,
  `HalvesAre`). `Holds` says where in a sequence another one is: through it the
  fields of a block, padding and options are found where the reader cuts them out
  (`HeaderIs`, `BodyIs`, `OptionRead`), so that an interface tells its name and unit
  (`InterfaceSays`) and a packet its port, time and data (`PacketSays`), whatever
  the other program puts next to them. And the files of ever more messages begin
  with one another (`UptoBegins`), which makes the messages whole on the disk the
  ones whose last byte is there (`StoredIs`). Where the reader stops, the block
  ahead is the one that is cut short (`StopsAt`).

**PdPhyProofs** (`PhyAssumption`), for any number of calls, changes of the cable,
bursts and looks for a sink. Neither property speaks of a set-up that
is half done, so the invariant does: `Placed` says in which plan and where in it
the call is, and what the registers and the levels read so far tell there.
`SetupsFindTheirPartner`: a level that was read, in a cable nobody touched since
the call began, comes from the partner, on its line. `FirstCapabilitiesWait`: from
the flush to the attach the FIFO holds one message at most, which came in between.
That is why `Capacity` has to be more than one: a FIFO of one message could be
full of an old one; the 80 bytes of the chip hold two of the longest.

**PdBridgeProofs** (`BridgeAssumption`), for any sizes of messages, frames and FIFO.
Three invariants, each on top of the one before: `BusInv` follows every
transaction with the chip, command by command (`StopsTheBus`); `TxInv` says what
is in the TX FIFO and has gone on the wire at each of them (`SendsWholeFrames`);
`RxInv` what is in the RX FIFO, that it is the rest of a packet and whole packets
behind it, and what was read of it (`ReadsWholePackets`, `ReturnsTheOldest`). The
lemmas about transactions say once what a read of n bytes or a write of a frame
is as a list of commands; the calls are put together from them.

**FlashProofs**, on the opening (`FlashAssumption`: at least one try), for any
number of boards, tries and plugs. `OneHandOff` needs `Asked`: nobody has been
asked before the one place where a board is, and the loop never goes back there.
`OpensAsked` needs `BusInv`: once a scan found no Apollo, any that is there later
was asked for its port or plugged in since; and what a scan returned is an Apollo
until the bus changes.

On the calls (`JtagAssumption`), for any bitstreams and buffers, and whichever
requests fail. `ScansWhereMeant` needs `TapInv`: for each step of a plan, and each
request of it, where the TAP is and what IR holds when the requests before have
been carried out or have ended the call. `LoadsTheFile` and `OkOnlyIfConfigured`
need `LoadInv`: how far a load has come at each step of `configure_sram`
(`AtLoad`), that the FPGA runs no design from the erase on until a burst brings
one, and that a status of "done" was read of one that holds the whole file. Both
have the hypothesis `BuffersFit`: the buffer the debugger reports, in bits, is less
than `ScanLimit`. The program does not check it, and the length of a scan is a
u16: a debugger with a buffer of 8192 bytes would break it. Apollo's is 256.

The proof of the last two failed at first, for a good reason. A load that fails
leaves the FPGA busy, and `Jtag` had it stay so through a `reconfigure` that makes it
load from its flash instead; then a later load would have been ignored and its
success be that of another design. Three calls are needed for that, the run makes
two. The assumption about `reconfigure` now stands in `Jtag` and above.

**HostProofs**, for any devices and descriptors. `ModelIsOfOneDevice` is not
inductive: that the device which answers is the one whose descriptor was read
lies in the address (`SameDevice`): a device plugged in is at address 0, `examine`
asks at address 1, and only `enumerate` assigns one. `EnumeratedAnswers` needs no
invariant, the last transfer shows it. `EverythingIsAskedFor`
(`ExamineAsksForAll`) needs `Accounted`: at each transfer the configurations
read and those noted as anomalies are the ones asked for so far, and the strings
still wanted, read and noted divide what the parts read so far refer to. It is
about what is asked for, of the parts that were got: a stalled string counts as
read, though it is empty, and the strings of interfaces that were not read are
not counted.

Of `Descriptors`, for whatever bytes a device sends and any sizes of the standard
descriptors (`DescriptorAssumption`: they are longer than the two bytes of a
header). `WalkLosesNothing`: that `Walk` is defined at all has to be shown from the
end of the blob to its beginning (`WalkExists`), because it goes forward by as much
as the device says; along the same way `Covers` says of every byte that the
descriptors from it on are the bytes from it on. `ParseGroups` goes over the
prefixes of what `walk` returned: a descriptor more opens a heading with nothing
under it (`UnderOpened`), or comes under the last one (`UnderGrows`), and `Place`
does the same to the configuration (`PlaceGroups`).

**DataLemmas** has what these need of data: parts, joins and reversals of
sequences, `FlattenSeq`, minima and maxima. The induction theorems of the library
take an operator as a parameter, which no prover here can instantiate.
`NatInductionOnSets` says the same of a set: if 0 is in it and n + 1 with every n,
it has all numbers. The set of the n up to which a recursive function is defined,
or a fact holds, needs no operator, and so induction over data is possible after
all, one set at a time.

Only model-checked: the liveness properties `StopEndsProgram` and `CommandEnds`,
because the provers have no rules for fairness and `ENABLED`.


## Findings

Three runs end in a counterexample to what a comment of the code says.

1. **A stale Request is answered** (`pd_stale_request`, `link.rs:294`). No attempt
   of `negotiate_source` empties the RX FIFO before it fires. A Request that comes in
   after the last poll of one attempt's window is still there when the next attempt
   has cycled VBUS and fired its offer; it is read and accepted, although it was
   made before that offer. The doc (`link.rs:267-269`) says: "cycle VBUS for a
   fresh attach, fire the caps inside the sink's `tSinkWaitCap` window, then listen
   for the `Request`". `AnswersThisOffer` is about a chip that is a source, a FIFO
   in step and the attempts after the first; the trace has no failed call in it.
   `SuccessMeansContract` leaves this case out (`astray`), and holds otherwise.
2. **A poll that breaks off leaves the FIFO out of step** (`pd_desync`,
   `flash/mod.rs:781`). After an error in the middle of a packet, nothing flushes
   the rest; a later poll takes three of its bytes for token and header and, if the
   first is a byte of data or of the CRC whose top bits are set, returns bytes that
   are no message. The doc (`:760-761`) promises "one received PD message".
   `PollsWholePackets` and `ReturnsOldest` hold as long as no poll has broken off
   since the last flush.
3. **A transmit result may be an earlier one's** (`pd_tx_result`,
   `flash/mod.rs:750`). INTERRUPTA gathers the results of all transmits until it is
   read, and `fusb302_tx_result` looks at TX_SUCCESS first: a transmit that was
   acknowledged hides a later one that was not. `send` does not read the register,
   and `negotiate_source` reads it after its offer only, so a `tx_acked` behind
   Accept and PS_RDY is about either. The docs say "Whether the partner GoodCRC'd
   our last transmit" (`link.rs:222`) and "did my message get through?"
   (`flash/mod.rs:746`).

Observations that follow from a few lines and have no run of their own:

- A `StopFn` kept beyond its stream writes its stop state whenever it is called
  (`cynthion.rs:320`): it disables a capture that was started later. The
  documentation of `StopFn` (`capture.rs:122,147`) is about its own stream only.
- `VbusSource::None` opens all switches before it reports an error
  (`link.rs:324`); its doc (`:65`) says "Don't touch VBUS".
- The answers of `negotiate_source` are called best-effort (`:269-270`), but an
  error of one is returned (`:297`), with the Request lost.
- A pass of `pd-listen` has no bound in time (`main.rs:749`) whatever `--duration`
  says. When `pd-send` bails out after a bring-up it leaves VBUS on the rail.
- The PD commands discard the status `configure_sram` returns, which `flash`
  judges by `DONE` and `FAIL`.
- `examine` puts a short device descriptor down as an anomaly and then returns an
  error, so that nobody sees it. A string that stalls becomes an empty string
  (`host/mod.rs:644-648`), and a configuration whose second transfer comes cut to its
  9 bytes is taken for one without interfaces, both without an anomaly, although the
  docs call STALLs and truncated descriptors anomalies (`host/descriptors.rs:286-288`,
  `docs/FORENSICS.md:35-36`). `ExamineAsksForAll` is what holds.
- `descriptors.rs` says it keeps what is malformed (`:3-7`); what follows the
  standard fields of an over-long interface or endpoint descriptor is dropped.
- `flash/mod.rs:16-18` and `:1110-1114` say that playing a bitstream back is not
  implemented; it is.
- The set-up as a source takes the pulled-down other line of a marked cable for a
  sink when that line is the first it probes (`flash/mod.rs:668-675`);
  `ConfiguredForPartner` leaves such cables out.
- `PdLink.cc` keeps the line of an earlier attach when a set-up fails.
- The register calls ignore an error of JTAG_STOP (`flash/mod.rs:548`) and return
  Ok, with the debugger's session open.
- `flash` to a persistent target hands the port of the gateware off before it
  returns `Unsupported`. `find` may name another board than the one that `open`
  takes, and an Apollo that cannot be opened keeps `open` from any other.
- A PD command that is killed loses what the `BufWriter` of its trace still holds.


## What is not modelled

- **Pure conversions**: bit fields of PD headers, PDOs and VDMs (`pd/mod.rs`),
  the Speed and State codecs, string and language-id decoding, error types, data
  types of `power`. They have no state, and no model would say more than their
  unit tests.
- **Forensic recipes** (`host/forensics.rs`): each fills a structure and makes one
  call. The forensic options of `control_raw` and `raw_transaction`, and the wire
  log, exist only in the mock, which is a test double.
- **Discovery**: identity strings and the wrappers of transfers in `device.rs` and
  `usb.rs`. What `select` and `open` make of a scan is in `CaptureCli` and `Flash`.
- **Bits of a register transaction**: `Jtag` has the requests of one, its errors and
  its session; the data (`flash/mod.rs:472-565`) have their other end in gateware
  outside the repository.
- **AUX port**: VBUS is not switched for it, so a link on it does less than one
  on TARGET-C. **`PdLink::recv`** is a loop round `poll`, which `pd-send` and the
  others write out themselves.
- **The layout of pcap files** of captures: written once, never read back. Their
  creation, errors and flush are in `CaptureCli`.
- **Real time**: windows, timeouts and sleeps end some time; how long they take,
  and with it whether an offer is inside `tSinkWaitCap`, is not modelled.


## Plan

The order was: the capture path first, because it alone has threads and shared
hardware state; then the parser under it; then PD, bottom of the stack and top;
then flashing, the host stack and the files.

Done: all modules above, their runs, and the proofs of all their safety properties.

Next, in this order:

1. `PdLink`'s `Setup` and `Poll` as abstractions of `PdPhy` and `PdBridge`: a
   refinement from the chip's registers and FIFOs to the chip of `PdLink`.
2. `Host` composed with `Descriptors!Parse`, so that `wTotalLength` and the string
   indices come from bytes; the options of `control_raw` as the mock has them.
3. Proofs: the steps of the refinement of 1, and of what 2 adds.
