------------------------------- MODULE PdLink -------------------------------
(***************************************************************************)
(* PdLink: a USB Power Delivery source on the TARGET-C port.  It switches  *)
(* VBUS, stages Source_Capabilities in the FUSB302B, cycles VBUS so that   *)
(* the sink attaches afresh, fires, and answers the Request.               *)
(*                                                                         *)
(* The program is one thread; pc is where it is inside a call.  The sink,  *)
(* the FUSB302B and the load switches are external: messages get lost, the *)
(* sink comes and goes, answers late or says something else, and every     *)
(* access over JTAG and I2C can fail, with its effect or without.  Sleeps  *)
(* and the contents of messages are left out.                              *)
(***************************************************************************)
EXTENDS Naturals, Sequences

CONSTANTS
    Ids,       \* number of MessageIDs, 8 on the wire
    Attempts,  \* tries of negotiate_source, 4 in the code
    MaxQueue   \* received messages the FUSB302B holds

\* msg_id is a u16 that wraps, and a header holds it modulo Ids.
ASSUME LinkAssumption ==
    /\ Ids \in Nat /\ Ids > 1 /\ 65536 % Ids = 0
    /\ Attempts \in Nat \ {0}
    /\ MaxQueue \in Nat \ {0}

VARIABLES
    msgId,     \* PdLink.msg_id, as far as a header shows it
    route,     \* PdLink.vbus_route, a set of switches
    pc,        \* the program's next step; "idle" between calls
    call,      \* the call it is in
    attempt,   \* turn of the loop in negotiate_source
    result,    \* what the last call returned
    phy,       \* role of the FUSB302B once setup has found a partner
    tx,        \* its TX FIFO
    rx,        \* its RX FIFO, message by message
    switches,  \* the VBUS load switches that are closed
    sink,      \* what the sink is doing
    lastId,    \* history: MessageID last put on the wire, Ids if none
    excused,   \* history: a call returned an error since, or the client has
               \* staged or fired a message itself
    repeated,  \* history: a message took the MessageID of the one before it
    upset,     \* history: switches not as bring_up or cycle left them
    astray     \* history: the exchange at hand was disturbed from outside

link == <<msgId, route, pc, call, attempt, result>>
chip == <<phy, tx, rx>>
rail == <<switches, upset>>
hist == <<lastId, excused, repeated>>
vars == <<link, chip, rail, hist, sink, astray>>

Mode  == {"Auto", "Aux", "Control", "None"}  \* VbusSource
Label == {"idle", "off", "probe", "route_aux", "route_control", "stage",
          "drop", "apply", "fire", "listen", "accept", "ps_rdy"}
Switch == {"TARGET_C", "CONTROL", "AUX", "TARGET_A_DISCHARGE", "AUX_IN",
           "CONTROL_IN"}
Role   == {"unset", "source", "sink"}
SinkState == {"detached", "waiting", "evaluating", "requested", "accepted",
              "ready"}

AuxRoute     == {"AUX_IN", "AUX", "TARGET_C"}
ControlRoute == {"CONTROL_IN", "CONTROL", "TARGET_C"}
Discharging  == {"TARGET_C", "TARGET_A_DISCHARGE"}

\* 5 V reaches the sink.
Powered(bits) ==
    /\ "TARGET_C" \in bits /\ "TARGET_A_DISCHARGE" \notin bits
    /\ {"AUX_IN", "AUX"} \subseteq bits \/ {"CONTROL_IN", "CONTROL"} \subseteq bits

\* What we send: id Ids stands for a header the client made itself.  The TX
\* FIFO may also hold nothing, or a token stream that broke off.
Sent(type, id) == [type |-> type, id |-> id]
Nothing        == Sent("nothing", Ids)
Junk           == Sent("junk", Ids)
OutMessage     == [type : {"caps", "accept", "ps_rdy", "vdm", "nothing", "junk"},
                   id : 0..Ids]

\* What we receive; old marks what was said before the offer last fired.  Garbage
\* nobody said: it is bytes out of step, which may look like any message.
InMessage == [type : {"request", "other", "garbage"}, old : BOOLEAN]
Aged(m)   == [type |-> m.type, old |-> TRUE]
Garbage   == [type |-> "garbage", old |-> TRUE]

ProgramOK ==
    /\ msgId \in 0..Ids - 1
    /\ route \in {{}, AuxRoute, ControlRoute}
    /\ pc \in Label
    /\ call \in Mode \cup {"idle", "cycle", "negotiate"}
    /\ attempt \in 0..Attempts
    /\ result \in {"none", "ok", "no_partner", "request", "no_request", "error"}

BoardOK ==
    /\ phy \in Role
    /\ tx \in OutMessage
    /\ rx \in Seq(InMessage) /\ Len(rx) <= MaxQueue
    /\ switches \subseteq Switch
    /\ sink \in SinkState

HistoryOK ==
    /\ lastId \in 0..Ids
    /\ excused \in BOOLEAN /\ repeated \in BOOLEAN
    /\ upset \in BOOLEAN /\ astray \in BOOLEAN

\* Every variable keeps its type: the RX FIFO its size, the MessageID its
\* place in the header and the counters their bounds.
TypeOK == ProgramOK /\ BoardOK /\ HistoryOK

\* The role and the switches may be left over from an earlier program.
Init ==
    /\ msgId = 0
    /\ route = {}
    /\ pc = "idle" /\ call = "idle"
    /\ attempt = 0
    /\ result = "none"
    /\ phy \in Role
    /\ tx = Nothing
    /\ rx = <<>>
    /\ switches \in {{}, AuxRoute, ControlRoute, Discharging}
    /\ sink = "detached"
    /\ lastId = Ids
    /\ excused = FALSE
    /\ repeated = FALSE
    /\ upset = TRUE
    /\ astray = FALSE

-----------------------------------------------------------------------------
(* The world behind the registers.                                         *)

\* What the sink makes of a message: every offer is evaluated anew, and the
\* contract is there after Accept and PS_RDY, in this order.
Reaction ==
    [e \in {<<state, "caps">> : state \in SinkState \ {"detached"}}
          \cup {<<"requested", "accept">>, <<"accepted", "ps_rdy">>} |->
        IF e[2] = "caps" THEN "evaluating"
        ELSE IF e[2] = "accept" THEN "accepted" ELSE "ready"]

\* A message reaches the sink, unless the FUSB302B is not set up as a source
\* or nobody is there.
Heard(m) ==
    IF phy = "source" /\ <<sink, m.type>> \in DOMAIN Reaction
      THEN sink' = Reaction[<<sink, m.type>>]
      ELSE UNCHANGED sink

\* A complete message goes out, and is heard or lost.
Transmitted(m) ==
    /\ tx' = Nothing
    /\ IF m.type \in {"nothing", "junk"}
         THEN UNCHANGED <<rx, sink, astray, lastId, repeated>>
         ELSE /\ \/ Heard(m) /\ UNCHANGED astray
                 \/ UNCHANGED sink /\ astray' = TRUE
              /\ rx' = IF m.type = "caps"
                         THEN [i \in 1..Len(rx) |-> Aged(rx[i])]
                         ELSE rx
              /\ lastId' = m.id
              /\ repeated' = (repeated \/ (m.id = lastId /\ m.id # Ids /\ ~excused))

\* The token stream did not go out; what the TX FIFO holds is unknown.
NotTransmitted ==
    /\ tx' \in {tx, Junk}
    /\ UNCHANGED <<rx, sink, astray, lastId, repeated>>

\* set_vbus_switches: the sink detaches when its supply goes.  (The Bad variant
\* adds to the switches that are closed.)
BadSwitched(bits) ==
    /\ switches' = switches \cup bits
    /\ sink' = IF Powered(bits) THEN sink ELSE "detached"
Switched(bits) ==
    /\ switches' = bits
    /\ sink' = IF Powered(bits) THEN sink ELSE "detached"
NotSwitched == UNCHANGED <<switches, sink>>

SinkAttaches ==
    /\ sink = "detached" /\ phy = "source" /\ Powered(switches)
    /\ sink' = "waiting"
    /\ UNCHANGED <<link, chip, rail, hist, astray>>

\* The FUSB302B keeps the oldest messages when its RX FIFO is full.
Says(m) == rx' = IF Len(rx) < MaxQueue THEN Append(rx, m) ELSE rx

SinkRequests ==
    /\ sink = "evaluating"
    /\ sink' = "requested"
    /\ Says([type |-> "request", old |-> FALSE])
    /\ UNCHANGED <<link, phy, tx, rail, hist, astray>>

\* Anything else, also from the source that a sink has found.
PartnerSaysOther ==
    /\ sink # "detached" \/ phy = "sink"
    /\ Len(rx) < MaxQueue
    /\ Says([type |-> "other", old |-> TRUE])
    /\ UNCHANGED <<link, phy, tx, rail, hist, sink, astray>>

\* A hard reset, a timeout or an unplugged cable.
SinkGivesUp ==
    /\ sink # "detached"
    /\ sink' \in {"waiting", "detached"}
    /\ astray' = TRUE
    /\ UNCHANGED <<link, chip, rail, hist>>

World == SinkAttaches \/ SinkRequests \/ PartnerSaysOther \/ SinkGivesUp

-----------------------------------------------------------------------------
(* What the calls below compute.  A Bad variant is a slip that a property   *)
(* must catch; no action uses it.                                          *)

\* msg_id.wrapping_add(1), masked in the header.
BadNumbered(id) == id
BadWrapped(id)  == id + 1
Numbered(id)    == (id + 1) % Ids

\* The turn of the loop after this one.
BadTurn(n) == n
Turn(n)    == n + 1

\* vbus_route after a bring-up over bits.
BadRemembered(bits) == route
Remembered(bits)    == bits

\* The answers to a Request, in their order.
BadAnswer(label) == IF label = "accept" THEN "ps_rdy" ELSE "accept"
Answer(label)    == label

-----------------------------------------------------------------------------
Enter(c, label) ==
    /\ pc = "idle"
    /\ call' = c /\ pc' = label
    /\ result' = "none"

\* A call of one step, and what it returns.
Once(r) == pc = "idle" /\ result' = r /\ UNCHANGED <<pc, call>>

Goto(label) == pc' = label /\ UNCHANGED <<call, result, excused>>

Return(r) ==
    /\ pc' = "idle" /\ call' = "idle" /\ result' = r
    /\ UNCHANGED excused

Fail ==
    /\ pc' = "idle" /\ call' = "idle" /\ result' = "error"
    /\ excused' = TRUE

(* bring_up_vbus.                                                          *)

BringUp(mode) ==
    /\ Enter(mode, "off")
    /\ UNCHANGED <<msgId, route, attempt, chip, rail, hist, sink, astray>>

\* set_vbus_switches(0)?, and what the mode calls for next.
BringUpOff ==
    /\ pc = "off"
    /\ \/ /\ Switched({})
          /\ \/ call \in {"Auto", "Aux"} /\ Goto("probe")
             \/ call = "Control" /\ Goto("route_control")
             \/ call = "None" /\ Fail
       \/ (Switched({}) \/ NotSwitched) /\ Fail
    /\ upset' = TRUE
    /\ UNCHANGED <<msgId, route, attempt, chip, lastId, repeated, astray>>

\* fusb302_setup_sink on AUX, and up to 20 looks at its STATUS0.
BringUpProbe ==
    /\ pc = "probe"
    /\ \/ Goto("route_aux")                           \* AUX has VBUS
       \/ call = "Auto" /\ Goto("route_control")      \* it has none
       \/ Fail                                        \* it has none, or an error
    /\ UNCHANGED <<msgId, route, attempt, chip, rail, lastId, repeated,
                   sink, astray>>

\* set_vbus_switches(bits)?, then the caller remembers the route.
BringUpRoute(label, bits) ==
    /\ pc = label
    /\ \/ /\ Switched(bits)
          /\ Return("ok")
          /\ route' = Remembered(bits)
          /\ upset' = FALSE
       \/ /\ Switched(bits) \/ NotSwitched
          /\ Fail
          /\ UNCHANGED <<route, upset>>
    /\ UNCHANGED <<msgId, attempt, chip, lastId, repeated, astray>>

(* set_vbus, cycle_vbus and the cycle inside negotiate_source.             *)

SetVbus(bits) ==
    /\ \/ Switched(bits) /\ Once("ok")
       \/ (Switched(bits) \/ NotSwitched) /\ Once("error")
    /\ upset' = TRUE
    /\ UNCHANGED <<msgId, route, attempt, chip, hist, astray>>

CycleVbus ==
    /\ Enter("cycle", "drop")
    /\ UNCHANGED <<msgId, route, attempt, chip, rail, hist, sink, astray>>

Drop ==
    /\ pc = "drop"
    /\ \/ Switched(Discharging) /\ Goto("apply")
       \/ (Switched(Discharging) \/ NotSwitched) /\ Fail
    /\ upset' = TRUE
    /\ UNCHANGED <<msgId, route, attempt, chip, lastId, repeated, astray>>

Apply ==
    /\ pc = "apply"
    /\ \/ /\ Switched(route)
          /\ upset' = FALSE
          /\ \/ call = "negotiate" /\ Goto("fire")
             \/ call = "cycle" /\ Return("ok")
       \/ (Switched(route) \/ NotSwitched) /\ Fail /\ UNCHANGED upset
    /\ UNCHANGED <<msgId, route, attempt, chip, lastId, repeated, astray>>

\* The set-up of a role resets the chip, which takes the old role away; it ends
\* with a configured transceiver and an empty RX FIFO when it finds a partner,
\* with the chip reset when it finds none, and anywhere in between when it
\* fails.
Setup(role) ==
    /\ \/ /\ rx' = <<>> /\ tx' = Nothing /\ sink' = "detached"
          /\ \/ phy' = role /\ Once("ok")
             \/ phy' = "unset" /\ Once("no_partner")
             \/ phy' \in {"unset", role} /\ Once("error")
       \/ Once("error") /\ UNCHANGED <<chip, sink>>
    /\ UNCHANGED <<msgId, route, attempt, rail, hist, astray>>

-----------------------------------------------------------------------------
(* negotiate_source.                                                       *)

Negotiate ==
    /\ Enter("negotiate", "stage")
    /\ attempt' = 0
    /\ UNCHANGED <<msgId, route, chip, rail, hist, sink, astray>>

\* The slow part: the TX FIFO is flushed and loaded.
Stage ==
    /\ pc = "stage"
    /\ \/ /\ tx' = Sent("caps", msgId)
          /\ Goto(IF route # {} THEN "drop" ELSE "fire")
       \/ /\ tx' \in {tx, Nothing, Junk, Sent("caps", msgId)}
          /\ Fail
    /\ UNCHANGED <<msgId, route, attempt, phy, rx, rail, lastId,
                   repeated, sink, astray>>

\* fusb302_tx_fire(..)?, record(..)?, and only then the next MessageID.
Fire ==
    /\ pc = "fire"
    /\ \/ Transmitted(tx) /\ msgId' = Numbered(msgId) /\ pc' = "listen"
          /\ excused' = FALSE /\ UNCHANGED <<call, result>>
       \/ (Transmitted(tx) \/ NotTransmitted) /\ Fail /\ UNCHANGED msgId
    /\ UNCHANGED <<route, attempt, phy, rail>>

\* A poll that breaks off in a packet leaves bytes of it in the RX FIFO, and
\* what is read from then on can be anything (PdBridge), or nothing.
Misread == {[i \in 1..n |-> Garbage] : n \in 0..Len(rx)}
Unread  == {IF rx = <<>> THEN rx ELSE Tail(rx)}
           \cup IF rx # <<>> /\ Head(rx) = Garbage THEN Misread ELSE {}

\* poll: one message is read and recorded.
Listen ==
    /\ pc = "listen" /\ rx # <<>>
    /\ rx' \in Unread
    /\ \/ /\ Head(rx).type \in {"request", "garbage"}
          /\ Goto("accept")
          /\ astray' = (Head(rx).old \/ sink # "requested")
       \/ Head(rx).type # "request" /\ Goto("listen") /\ UNCHANGED astray
       \/ Fail /\ UNCHANGED astray                     \* record failed
    /\ UNCHANGED <<msgId, route, attempt, phy, tx, rail, lastId,
                   repeated, sink>>

ListenFails ==
    /\ pc = "listen"
    /\ rx' \in {rx} \cup Misread
    /\ Fail
    /\ UNCHANGED <<msgId, route, attempt, phy, tx, rail, lastId, repeated,
                   sink, astray>>

\* The window of 1200 ms is over, whatever the RX FIFO still holds.
WindowOver ==
    /\ pc = "listen"
    /\ attempt' = Turn(attempt)
    /\ IF attempt' < Attempts THEN Goto("stage") ELSE Return("no_request")
    /\ UNCHANGED <<msgId, route, chip, rail, lastId, repeated, sink,
                   astray>>

\* next_source_header, then send: fusb302_tx(..)? and record(..)?.  The
\* MessageID is used up even if the send fails.
SendNext(type, Then) ==
    LET m == Sent(type, msgId) IN
    /\ msgId' = Numbered(msgId)
    /\ \/ Transmitted(m) /\ Then
       \/ (Transmitted(m) \/ NotTransmitted) /\ Fail
    /\ UNCHANGED <<route, attempt, phy, rail>>

Proceed(label) ==
    /\ pc' = label /\ excused' = FALSE /\ UNCHANGED <<call, result>>

SendAccept == pc = "accept" /\ SendNext(Answer("accept"), Proceed("ps_rdy"))

SendPsRdy ==
    /\ pc = "ps_rdy"
    /\ SendNext(Answer("ps_rdy"),
                /\ pc' = "idle" /\ call' = "idle" /\ result' = "request"
                /\ excused' = FALSE)

-----------------------------------------------------------------------------
(* send, send_vdm and stage, with a header from next_source_header or one   *)
(* of the client's making; fire and poll.                                  *)

Send(type, own) ==
    LET m == Sent(type, IF own THEN msgId ELSE Ids) IN
    /\ msgId' = IF own THEN Numbered(msgId) ELSE msgId
    /\ \/ Transmitted(m) /\ Once("ok") /\ excused' = FALSE
       \/ (Transmitted(m) \/ NotTransmitted) /\ Once("error") /\ excused' = TRUE
    /\ UNCHANGED <<route, attempt, phy, rail>>

\* stage and fire, for a client with a timing of its own.  A MessageID may be
\* used up and never fired, or fired late: that is the client's doing.
StageOwn(type, own) ==
    LET m == Sent(type, IF own THEN msgId ELSE Ids) IN
    /\ msgId' = IF own THEN Numbered(msgId) ELSE msgId
    /\ \/ tx' = m /\ Once("ok")
       \/ tx' \in {tx, Nothing, Junk, m} /\ Once("error")
    /\ excused' = TRUE
    /\ UNCHANGED <<route, attempt, phy, rx, rail, lastId, repeated, sink, astray>>

FireStaged ==
    /\ \/ Transmitted(tx) /\ Once("ok")
       \/ (Transmitted(tx) \/ NotTransmitted) /\ Once("error")
    /\ excused' = TRUE
    /\ UNCHANGED <<msgId, route, attempt, phy, rail>>

\* One poll: an empty RX FIFO, a message, or an error; a message that could
\* not be recorded is gone.
Poll ==
    /\ \/ rx' \in Unread /\ Once("ok")
       \/ rx' \in {rx} \cup Unread \cup Misread /\ Once("error")
    /\ UNCHANGED <<msgId, route, attempt, phy, tx, rail, hist, sink, astray>>

-----------------------------------------------------------------------------
Client ==
    \/ \E mode \in Mode : BringUp(mode)
    \/ \E bits \in {{}, ControlRoute} : SetVbus(bits)
    \/ \E role \in {"source", "sink"} : Setup(role)
    \/ CycleVbus \/ Negotiate \/ Poll \/ FireStaged
    \/ \E type \in {"caps", "vdm"}, own \in BOOLEAN :
         Send(type, own) \/ StageOwn(type, own)

Step ==
    \/ BringUpOff \/ BringUpProbe
    \/ BringUpRoute("route_aux", AuxRoute)
    \/ BringUpRoute("route_control", ControlRoute)
    \/ Drop \/ Apply \/ Stage \/ Fire
    \/ Listen \/ ListenFails \/ WindowOver
    \/ SendAccept \/ SendPsRdy

Next == Client \/ Step \/ World

Spec == Init /\ [][Next]_vars

-----------------------------------------------------------------------------
(* Correctness.                                                            *)

\* A message takes the MessageID of the one before it only after an error was
\* returned, or a client staged and fired by itself: negotiate_source, send_vdm
\* and the answers share one counter, and negotiate_source advances it on its
\* own.
FreshMessageId == ~repeated

\* Between calls the rail is routed as the last bring-up said, not left
\* discharging or open, unless a call that switches it has failed since or the
\* client has set the switches itself: bring_up_vbus, cycle_vbus and the cycles
\* of negotiate_source.
RailAsReported == pc = "idle" /\ ~upset => switches = route

\* When negotiate_source returns a Request the sink has its contract, if the
\* Request was made in answer to the last offer and nothing disturbed the
\* exchange: Accept and PS_RDY went out, in this order.
SuccessMeansContract == result = "request" => sink = "ready" \/ astray

\* negotiate_source: "fire the caps inside the sink's tSinkWaitCap window, then
\* listen for the Request": the one that an attempt after the first answers was
\* not made before that attempt fired.  The chip is a source here, and bytes
\* read out of step do not count.
AnswersThisOffer ==
    [][pc = "listen" /\ pc' = "accept" /\ attempt > 0 /\ phy = "source" =>
         ~(Head(rx).type = "request" /\ Head(rx).old)]_vars
=============================================================================
