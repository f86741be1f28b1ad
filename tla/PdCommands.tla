------------------------------ MODULE PdCommands ------------------------------
(***************************************************************************)
(* The programs pd-send, pd-source, pd-listen and charge on TARGET-C, and  *)
(* a client of the library that makes any calls.  Each runs the calls of   *)
(* PdLink in its own order, leaves at the first error it does not ignore,  *)
(* and writes a trace through a buffer.                                    *)
(*                                                                         *)
(* plan is the list of what the program has still to do.  Left out are the *)
(* reads whose errors are ignored and the lines that are printed.          *)
(***************************************************************************)
EXTENDS PdLink

CONSTANTS
    MaxPasses,  \* passes of pd-listen, three for every second it listens
    AnyCalls    \* calls of the library's client

ASSUME CommandAssumption == {MaxPasses, AnyCalls} \subseteq Nat

VARIABLES
    plan,  \* what is left to do
    exit,  \* "running", or how the program has ended
    trace  \* the trace: in part in the buffer, whole in the file, with a
           \* message missing, or none

cmd     == <<plan, exit, trace>>
allVars == <<vars, cmd>>

-----------------------------------------------------------------------------
(* The programs.  A Bad variant is a slip that a property must catch; no   *)
(* action uses it.                                                         *)

Repeat(step, n) == [i \in 1..n |-> step]

\* What pd-send does before it talks: VBUS, the role, a contract.
PdSendRole == {<<>>, <<"setup_sink">>, <<"setup_source">>,
               <<"setup_source", "negotiate">>,
               <<"bring_up", "setup_source">>,
               <<"bring_up", "setup_source", "negotiate">>}
PdSendTalk == {<<"raw", "drain">>, <<"vdm", "drain">>,
               <<"raw", "drain", "vdm", "drain">>}

\* What ends a program that keeps a trace.
BadClosing == <<>>
Closing    == <<"flush">>

PdSend   == {<<"connect">> \o role \o talk \o <<"drain">> \o Closing :
               role \in PdSendRole, talk \in PdSendTalk}
PdSource == <<"connect", "setup_source", "offer">> \o Closing
PdListen == <<"connect", "setup_sink">> \o Repeat("pass", MaxPasses) \o Closing
Charge   == <<"connect", "open_rail", "supply", "present", "route", "check">>
Library  == Repeat("any", AnyCalls)

Traced   == PdSend \cup {PdSource, PdListen}
Programs == Traced \cup {Charge, Library}

\* The header of a trace is in the buffer from the start (make_trace).
CmdInit ==
    /\ Init
    /\ plan \in Programs
    /\ exit = "running"
    /\ trace = IF plan \in Traced THEN "buffered" ELSE "none"

-----------------------------------------------------------------------------
\* The program is at this step, and nothing has failed.
At(step) ==
    /\ exit = "running" /\ pc = "idle" /\ result # "error"
    /\ plan # <<>> /\ Head(plan) = step

\* A message that crosses is in the trace, unless the call fails.
Recorded == trace' \in IF result' = "error" /\ trace # "none"
                         THEN {trace, "torn"} ELSE {trace}

\* A step that makes one call, and what is left after it.
Do(step, Call, rest) ==
    At(step) /\ Call /\ plan' = rest /\ Recorded /\ UNCHANGED exit
Done(step, Call) == Do(step, Call, Tail(plan))

\* An access that changes nothing here but may fail.
Touch(r) == Once(r) /\ UNCHANGED <<msgId, route, attempt, chip, rail, hist,
                                   sink, astray>>
Access   == \E r \in {"ok", "error"} : Touch(r)

\* Apollo::open and configure_sram.
Connect == Done("connect", Access)

(* pd-send.                                                                *)

SendBringsUp   == Done("bring_up", \E mode \in {"Auto", "Aux", "Control"} :
                                     BringUp(mode))
SendNegotiates == Done("negotiate", Negotiate)
SendsRaw       == Done("raw", Send("vdm", FALSE))
SendsVdm       == Done("vdm", \E own \in BOOLEAN : Send("vdm", own))

\* A program that finds no partner bails out.
SetsUp(role, step) ==
    Do(step, Setup(role),
       IF result' = "no_partner" THEN <<"bail">> ELSE Tail(plan))

\* drain_window and the listen window: poll until the time is over.
Drains    == Do("drain", Poll, plan)
DrainOver == Done("drain", UNCHANGED vars)

Flushes ==
    /\ At("flush")
    /\ \/ Touch("ok") /\ trace' = IF trace = "buffered" THEN "kept" ELSE trace
       \/ Touch("error") /\ trace' = "torn"
    /\ plan' = Tail(plan) /\ UNCHANGED exit

(* pd-source: an offer, a window for the answers, and again until the      *)
(* duration is over.                                                       *)

Offers       == Do("offer", Send("caps", TRUE), <<"window">> \o Tail(plan))
Hears        == Do("window", Poll, plan)
OffersAnew   == Do("window", UNCHANGED vars, <<"offer">> \o Tail(plan))
DurationOver == Done("offer", UNCHANGED vars) \/ Done("window", UNCHANGED vars)

(* pd-listen: a pass reads until the RX FIFO is empty; the passes end with *)
(* the one that has seen Source_Capabilities.                              *)

Passing == At("pass") \/ At("last")

BadAfterPass == plan
AfterPass    == IF Head(plan) = "last" THEN Closing ELSE Tail(plan)

PassReads ==
    /\ rx # <<>>
    /\ \/ Do("pass", Poll, plan) \/ Do("last", Poll, plan)
       \/ Do("pass", Poll, <<"last">> \o Closing)

\* No bytes are out of step here: the first poll that fails ends pd-listen.
PassOver ==
    /\ rx = <<>>
    /\ Do("pass", Poll, AfterPass) \/ Do("last", Poll, AfterPass)

(* charge, without a PdLink: it goes on when no sink is found.             *)

OpensRail == Done("open_rail", SetVbus({}))
Supplied  == Done("supply", Access)
Presents  == Done("present", Setup("source"))
Routes    == Done("route", SetVbus(AuxRoute))
Checks    == Done("check", Access)

(* The library's client makes its next call whatever the last returned.    *)

Calls ==
    /\ exit = "running" /\ plan # <<>> /\ Head(plan) = "any"
    /\ Client
    /\ plan' = Tail(plan) /\ UNCHANGED <<exit, trace>>

-----------------------------------------------------------------------------
(* Inside a call, and the end.                                             *)

InCall(A) == A /\ Recorded /\ UNCHANGED <<plan, exit>>

\* The buffer is dropped: what it holds is written, and an error is ignored.
Dropped == trace' \in IF trace = "buffered" THEN {"kept", "torn"} ELSE {trace}

Quits ==
    /\ At("bail") \/ /\ exit = "running" /\ pc = "idle" /\ result = "error"
                     /\ plan # <<>> => Head(plan) # "any"
    /\ exit' = "error" /\ plan' = <<>> /\ Dropped
    /\ UNCHANGED vars

Ends ==
    /\ exit = "running" /\ pc = "idle" /\ result # "error" /\ plan = <<>>
    /\ exit' = "ok" /\ UNCHANGED plan /\ Dropped
    /\ UNCHANGED vars

\* What the program is bound to do, and the polls that may find nothing.
Forced ==
    \/ Connect \/ SendBringsUp
    \/ SetsUp("source", "setup_source") \/ SetsUp("sink", "setup_sink")
    \/ SendNegotiates \/ SendsRaw \/ SendsVdm \/ Flushes \/ Offers \/ PassReads
    \/ OpensRail \/ Supplied \/ Presents \/ Routes \/ Checks
    \/ Calls \/ InCall(Step) \/ Quits \/ Ends
Polls == Drains \/ DrainOver \/ Hears \/ OffersAnew \/ DurationOver \/ PassOver

CmdNext == Forced \/ Polls \/ (exit = "running" /\ World /\ UNCHANGED cmd)

\* The program is scheduled and its accesses to the bus end, in one way or the
\* other; the windows of negotiate_source, of the drains and of pd-source are
\* times, which pass even while messages keep coming.  A pass has no time: only
\* a poll that finds the RX FIFO empty ends it, and no poll is bound to fail.
CmdSpec ==
    /\ CmdInit /\ [][CmdNext]_allVars
    /\ WF_allVars(Forced)
    /\ WF_allVars(InCall(WindowOver))
    /\ WF_allVars(DrainOver) /\ WF_allVars(DurationOver)
    /\ WF_allVars(PassOver /\ result' # "error")

-----------------------------------------------------------------------------
(* Correctness.                                                            *)

\* Every program ends, whatever its partner says or does not say: the attempts
\* of negotiate_source, the windows and the passes are bounded.  Only pd-listen
\* goes on while its partner never lets the RX FIFO run empty.
CommandEnds == <>(exit # "running") \/ []<>(Passing /\ rx # <<>>)

\* A program that succeeds leaves a file with every message that it sent or
\* took out of the RX FIFO, as PdLink::set_trace promises: what was recorded is
\* not lost with the buffer, and a call that could not record has failed.
SuccessKeepsTrace == exit = "ok" => trace \in {"kept", "none"}

\* AUX and CONTROL never feed the rail together, whatever was routed by a
\* program before this one and wherever it breaks off (bring_up_vbus_target_c,
\* cmd_charge).  set_vbus closes what it is told: no client here tells it both.
NoBackFeed == ~({"AUX", "CONTROL"} \subseteq switches)
=============================================================================
