------------------------------- MODULE PdPhy -------------------------------
(***************************************************************************)
(* The set-ups of a FUSB302B as a sink and as a source, one register       *)
(* access per step, and the transmit, its result and the poll that follow. *)
(* Every access can fail, with its effect or without; the cable can be     *)
(* pulled, turned or exchanged between any two.                            *)
(*                                                                         *)
(* Assumed of the chip: it hears and acknowledges messages on the line it  *)
(* measures and transmits on, with AUTO_CRC set; an RX FIFO that is full   *)
(* drops what comes.  Assumed of a source: once attached it sends its      *)
(* capabilities a few times and then falls silent.  Assumed of time: a     *)
(* detach is noticed within the 700 ms of the wait; between two register   *)
(* accesses at most one message arrives; a transmission is over, retries   *)
(* and all, before the next one is fired.                                  *)
(***************************************************************************)
EXTENDS Naturals, Sequences

CONSTANTS
    Capacity,   \* messages the RX FIFO holds, two of the longest at the least
    Burst,      \* times a source sends its capabilities
    Probes,     \* looks for a sink, 15
    MaxCalls,   \* bound on the calls a client makes
    MaxChanges  \* bound on the changes of the cable

ASSUME PhyAssumption ==
    /\ Capacity \in Nat \ {0, 1}
    /\ {Burst, Probes} \subseteq Nat \ {0}
    /\ {MaxCalls, MaxChanges} \subseteq Nat

Line == {1, 2}

VARIABLES
    reg,      \* the registers: terminations, lines, roles
    rx,       \* the RX FIFO: messages of the present attach, or older ones
    ints,     \* INTERRUPTA: results of transmissions, cleared when read
    partner,  \* what the cable connects, and on which line
    attached, \* the partner sees a termination of the chip
    burst,    \* times the partner will yet send its capabilities
    arrived,  \* a message arrived since the last access
    pending,  \* a transmission is under way
    todo,     \* the register accesses left of the call at hand
    levels,   \* what STATUS0 said of each line
    c0,       \* HOST_CUR as read from CONTROL0
    probes,   \* looks taken
    cc,       \* PdLink.cc
    ready,    \* the set-up in force: "sink", "source", or "none"
    answer,   \* what fusb302_tx_result returned last: "acked", "failed", "none"
    calls, changes,
    disturbed,\* history: the cable was changed since the set-up began
    seen,     \* history: capabilities of the present attach were polled
    last,     \* history: how the last transmission ended
    told      \* history: and how the last before the answer had

chip    == <<reg, rx, ints>>
far     == <<partner, attached, burst>>
world   == <<arrived, pending>>
program == <<todo, levels, c0, probes, cc, ready, answer, calls>>
hist    == <<disturbed, seen, last, told>>
vars    == <<chip, far, world, program, changes, hist>>

Reset == [powered |-> FALSE, rd |-> Line, rp |-> {}, meas |-> 0, txcc |-> 0,
          autoCrc |-> FALSE, source |-> FALSE, hostCur |-> FALSE]

Nothing == [kind |-> "none", line |-> 1, shown |-> FALSE, marked |-> FALSE]
\* A partner that has not shown its termination yet is a port that changes
\* between the roles; in a marked cable the other line is pulled down too.
Partner == {Nothing} \cup [kind : {"source", "sink"}, line : Line,
                           shown : BOOLEAN, marked : BOOLEAN]

Init ==
    /\ reg = Reset
    /\ rx = <<>> /\ ints = {}
    /\ partner \in Partner
    /\ attached = FALSE /\ burst = 0
    /\ arrived = FALSE /\ pending = FALSE
    /\ todo = <<>> /\ levels = [l \in Line |-> 0] /\ c0 = FALSE /\ probes = 0
    /\ cc = 0 /\ ready = "none" /\ answer = "none"
    /\ calls = 0 /\ changes = 0
    /\ disturbed = FALSE /\ seen = FALSE /\ last = "none" /\ told = "none"

-----------------------------------------------------------------------------
(* The partner and the cable.                                              *)

Terminated == partner.line \in IF partner.kind = "source" THEN reg.rd ELSE reg.rp
Hears      == /\ reg.powered /\ reg.autoCrc
              /\ reg.meas = partner.line /\ reg.txcc = partner.line

Change ==
    /\ changes < MaxChanges
    /\ partner' \in Partner \ {partner}
    /\ attached' = FALSE /\ burst' = 0
    /\ changes' = changes + 1
    /\ disturbed' = TRUE
    /\ UNCHANGED <<chip, world, program, seen, last, told>>

Shows ==
    /\ partner.kind # "none" /\ ~partner.shown
    /\ partner' = [partner EXCEPT !.shown = TRUE]
    /\ UNCHANGED <<chip, attached, burst, world, program, changes, hist>>

Attaches ==
    /\ ~attached /\ partner.shown /\ Terminated
    /\ attached' = TRUE
    /\ burst' = IF partner.kind = "source" THEN Burst ELSE 0
    /\ rx' = [i \in 1..Len(rx) |-> "old"]
    /\ seen' = FALSE
    /\ UNCHANGED <<reg, ints, partner, world, program, changes, disturbed,
                   last, told>>

Detaches ==
    /\ attached /\ ~Terminated
    /\ attached' = FALSE /\ burst' = 0
    /\ UNCHANGED <<chip, partner, world, program, changes, hist>>

SendsCaps ==
    /\ attached /\ burst > 0 /\ ~arrived
    /\ rx' = IF Hears /\ Len(rx) < Capacity THEN Append(rx, "fresh") ELSE rx
    /\ burst' = burst - 1
    /\ arrived' = TRUE
    /\ UNCHANGED <<reg, ints, partner, attached, pending, program, changes, hist>>

\* A transmission ends: acknowledged by a partner that hears it, or failed.
Transmitted ==
    /\ pending
    /\ \E outcome \in {"failed"} \cup IF attached /\ Hears THEN {"acked"} ELSE {} :
         ints' = ints \cup {outcome} /\ last' = outcome
    /\ pending' = FALSE
    /\ UNCHANGED <<reg, rx, far, arrived, program, changes, disturbed, seen, told>>

-----------------------------------------------------------------------------
(* Register accesses, named for what they write or read.  A Bad variant is *)
(* a slip that a property must catch.                                      *)

\* fusb302_setup_sink, up to the reads of STATUS0 that tell the line.
Probe(term) == <<<<term, 1>>, <<"status0", 1>>, <<term, 2>>, <<"status0", 2>>>>
SinkSetup   == <<<<"reset", 0>>, <<"power", 0>>>> \o Probe("rd") \o <<<<"sink", 0>>>>

\* Its rest: TX and AUTO_CRC, CONTROL0, RX_FLUSH, terminations off and, the
\* detach noticed, on again.
BadLockSink(l) == <<<<"switches1", l>>, <<"control0", 0>>, <<"open", 0>>,
                    <<"wait", 0>>, <<"rd", l>>, <<"rx_flush", 0>>, <<"ready", l>>>>
LockSink(l)    == <<<<"switches1", l>>, <<"control0", 0>>, <<"rx_flush", 0>>,
                    <<"open", 0>>, <<"wait", 0>>, <<"rd", l>>, <<"ready", l>>>>

\* fusb302_setup_source likewise.
SourceSetup   == <<<<"reset", 0>>, <<"power", 0>>, <<"host_cur", 0>>>>
                 \o Probe("rp") \o <<<<"source", 0>>>>
LockSource(l) == <<<<"rp_only", l>>, <<"switches1_source", l>>, <<"rx_flush", 0>>,
                   <<"ready_source", l>>>>

\* fusb302_tx: CONTROL0 is read, and written with TX_FLUSH set; then the FIFO.
Tx == <<<<"read_control0", 0>>, <<"tx_flush", 0>>, <<"fifo", 0>>>>

\* c0 | TX_FLUSH.
BadHostCur == FALSE
HostCur    == c0

\* The registers after access a.
After(a) ==
    LET l == a[2] IN
    CASE a[1] = "reset"     -> Reset
      [] a[1] = "power"     -> [reg EXCEPT !.powered = TRUE]
      [] a[1] = "host_cur"  -> [reg EXCEPT !.hostCur = TRUE]
      [] a[1] = "control0"  -> [reg EXCEPT !.hostCur = FALSE]
      [] a[1] = "tx_flush"  -> [reg EXCEPT !.hostCur = HostCur]
      [] a[1] = "rd"        -> [reg EXCEPT !.rd = Line, !.rp = {}, !.meas = l]
      [] a[1] = "rp"        -> [reg EXCEPT !.rp = Line, !.rd = {}, !.meas = l]
      [] a[1] = "rp_only"   -> [reg EXCEPT !.rp = {l}, !.rd = {}, !.meas = l]
      [] a[1] = "open"      -> [reg EXCEPT !.rd = {}, !.rp = {}, !.meas = 0]
      [] a[1] = "switches1" -> [reg EXCEPT !.txcc = l, !.autoCrc = TRUE,
                                           !.source = FALSE]
      [] a[1] = "switches1_source" ->
                               [reg EXCEPT !.txcc = l, !.autoCrc = TRUE,
                                           !.source = TRUE]
      [] OTHER              -> reg

\* BC_LVL of the line measured as a sink, COMP as a source, 1 if the line is
\* pulled by the partner, or by the cable.
Pulled(l) ==
    \/ partner.shown /\ partner.line = l /\ Terminated
    \/ partner.marked /\ partner.line # l /\ l \in reg.rp
Level == IF reg.meas \in Line /\ Pulled(reg.meas) THEN 1 ELSE 0

\* The effect of access a on everything but the program.
Effect(a) ==
    /\ reg' = After(a)
    /\ rx' = IF a[1] \in {"reset", "rx_flush"} THEN <<>>
             ELSE IF a[1] = "poll" /\ rx # <<>> THEN Tail(rx) ELSE rx
    /\ ints' = IF a[1] \in {"reset", "interrupta"} THEN {} ELSE ints
    /\ pending' = (a[1] = "fifo" \/ pending)
    /\ seen' = (seen \/ (a[1] = "poll" /\ rx # <<>> /\ Head(rx) = "fresh"))
    /\ arrived' = FALSE

-----------------------------------------------------------------------------
(* The program.                                                            *)

Over(label) == todo # <<>> /\ Head(todo)[1] = label
Decisions   == {"sink", "source", "ready", "ready_source"}

Call(steps) ==
    /\ todo = <<>> /\ calls < MaxCalls
    /\ todo' = steps
    /\ calls' = calls + 1
    /\ UNCHANGED <<chip, far, world, changes, levels, c0, cc, answer, seen,
                   last, told>>

Setup ==
    /\ Call(SinkSetup) \/ Call(SourceSetup)
    /\ ready' = "none" /\ probes' = 0
    /\ disturbed' = FALSE

Client ==
    /\ \/ Call(Tx) \/ Call(<<<<"interrupta", 0>>>>) \/ Call(<<<<"poll", 0>>>>)
    /\ UNCHANGED <<ready, probes, disturbed>>

\* fusb302_tx_result: success is looked at first.
Answer == IF "acked" \in ints THEN "acked"
          ELSE IF "failed" \in ints THEN "failed" ELSE "none"

\* The wait is long enough for the partner to notice the detach, and a
\* transmission is over before the next begins.
InTime(a) == /\ a[1] = "wait" => ~(attached /\ ~Terminated)
             /\ a[1] = "fifo" => ~pending

Access ==
    /\ todo # <<>>
    /\ LET a == Head(todo) IN
         /\ a[1] \notin Decisions
         /\ InTime(a)
         /\ Effect(a)
         /\ levels' = IF a[1] = "status0" THEN [levels EXCEPT ![a[2]] = Level] ELSE levels
         /\ c0' = IF a[1] = "read_control0" THEN reg.hostCur ELSE c0
         /\ answer' = IF a[1] = "interrupta" THEN Answer ELSE answer
         /\ told' = IF a[1] = "interrupta" THEN last ELSE told
    /\ todo' = Tail(todo)
    /\ UNCHANGED <<far, changes, probes, cc, ready, calls, disturbed, last>>

\* Each access is followed by ?: PdLink.cc stays as it was.
AccessFails ==
    /\ todo # <<>>
    /\ LET a == Head(todo) IN
         /\ a[1] \notin Decisions \cup {"wait"}
         /\ InTime(a)
         /\ \/ Effect(a)
            \/ arrived' = FALSE /\ UNCHANGED <<chip, pending, seen>>
    /\ todo' = <<>>
    /\ UNCHANGED <<far, changes, levels, c0, probes, cc, ready, answer, calls,
                   disturbed, last, told>>

\* A set-up returns the line, or 0 with the terminations still there.
Returns(l, role) ==
    /\ todo' = <<>> /\ cc' = l /\ ready' = role
    /\ UNCHANGED probes

\* bc1 == 0 && bc2 == 0, bc1 >= bc2.
SinkLine    == IF levels[1] >= levels[2] THEN 1 ELSE 2

DecideSink ==
    /\ Over("sink")
    /\ IF \A l \in Line : levels[l] = 0 THEN Returns(0, "none")
       ELSE todo' = LockSink(SinkLine) /\ UNCHANGED <<cc, ready, probes>>

\* comp1 == 0, else comp2 == 0; otherwise the lines are probed again.
DecideSource ==
    /\ Over("source")
    /\ CASE \E l \in Line : levels[l] = 1 ->
              /\ todo' = LockSource(IF levels[1] = 1 THEN 1 ELSE 2)
              /\ UNCHANGED <<cc, ready, probes>>
         [] (\A l \in Line : levels[l] = 0) /\ probes + 1 < Probes ->
              /\ todo' = Probe("rp") \o todo
              /\ probes' = probes + 1
              /\ UNCHANGED <<cc, ready>>
         [] OTHER -> Returns(0, "none")

Decide ==
    /\ \/ DecideSink \/ DecideSource
       \/ Over("ready") /\ Returns(Head(todo)[2], "sink")
       \/ Over("ready_source") /\ Returns(Head(todo)[2], "source")
    /\ UNCHANGED <<chip, far, world, changes, levels, c0, answer, calls, hist>>

Next ==
    \/ Change \/ Shows \/ Attaches \/ Detaches \/ SendsCaps \/ Transmitted
    \/ Setup \/ Client \/ Access \/ AccessFails \/ Decide

Spec == Init /\ [][Next]_vars

-----------------------------------------------------------------------------
(* Correctness.                                                            *)

\* A set-up that returned a line has the chip on the partner's line, measuring
\* and sending there, with the terminations of its role only, as long as the
\* cable is left alone; and what is sent later leaves the advertised current
\* in CONTROL0.  A source takes the pulled-down line of a marked cable for a
\* sink: such cables are left out.
ConfiguredForPartner ==
    ready # "none" /\ ~disturbed /\ ~(ready = "source" /\ partner.marked) =>
       /\ partner.line = cc /\ partner.kind # ready
       /\ Hears
       /\ reg.source = (ready = "source") /\ reg.hostCur = (ready = "source")
       /\ IF ready = "sink" THEN reg.rd = Line /\ reg.rp = {}
                            ELSE reg.rp = {cc} /\ reg.rd = {}

\* The set-up as a sink ends with a fresh attach whose first capabilities wait
\* in the RX FIFO until they are polled: a source that was attached before and
\* fell silent sends them again, and they are neither missed while the chip is
\* not listening, nor crowded out, nor flushed.
CapsWaiting ==
    ready = "sink" /\ ~disturbed /\ attached /\ burst < Burst =>
       seen \/ \E i \in 1..Len(rx) : rx[i] = "fresh"

\* tx_acked: "Whether the partner GoodCRC'd our last transmit"; fusb302_tx_result:
\* "After a transmit, read the GoodCRC result".  The set-up has found a partner,
\* the cable was left alone, and a transmission still under way does not count.
AckIsOfLastTransmit ==
    ready # "none" /\ ~disturbed /\ answer = "acked" => told = "acked"
=============================================================================
