----------------------------- MODULE CaptureCli -----------------------------
(***************************************************************************)
(* cmd_capture of the usbmagic program: it selects and opens a device,     *)
(* chooses a speed, creates the pcap file, and reads one capture on the    *)
(* main thread.  The duration timer, Ctrl-C, a packet count or an error    *)
(* stop it.  The three threads share one StopFn behind a mutex, and Ctrl-C *)
(* kills the process while no handler is installed.  Every step on the     *)
(* capture is a step of Capture, of which this program is one client.      *)
(***************************************************************************)
EXTENDS Capture

CONSTANTS
    Cap,          \* the one capture the program starts
    Main,         \* the main thread
    Timer, CtrlC, \* the duration timer's thread and the signal handler's
    MaxPresses,   \* bound on the times Ctrl-C is pressed
    Devices       \* the devices that may be on the bus

ASSUME CliAssumption ==
    /\ Session = {Cap}
    /\ Caller = {Main, Timer, CtrlC}
    /\ Main # Timer /\ Main # CtrlC /\ Timer # CtrlC
    /\ None \notin Caller
    /\ MaxPresses \in Nat

VARIABLES
    prog,     \* where the main thread is in cmd_capture, or how it ended
    lock,     \* the thread that holds the stopper mutex, or None
    handled,  \* the Ctrl-C handler is installed
    armed,    \* the timer thread was spawned and has not fired
    pcap,     \* the file: "none", "partial" while packets are in the writer's
              \* buffer, "whole", or "broken" once a write of it failed
    presses   \* times Ctrl-C was pressed

threads == <<lock, handled, armed, presses>>
cli     == <<prog, pcap, threads>>
cliVars == <<vars, cli>>

Over == prog \in {"ok", "error", "killed"}

CliInit ==
    /\ Init
    /\ prog = "select"
    /\ lock = None
    /\ handled = FALSE /\ armed = FALSE
    /\ pcap = "none"
    /\ presses = 0

-----------------------------------------------------------------------------
(* Before the capture.                                                     *)

\* select: of the devices a backend matches, those whose serial number, if it
\* could be read, contains the text given; or all.  One has to be left.
Selected(found, wanted, serials) ==
    {d \in found : wanted = "any" \/ serials[d] = wanted}

CliSelect ==
    /\ prog = "select"
    /\ \E found \in SUBSET Devices, wanted \in {"any", "this"},
          serials \in [Devices -> {"this", "other", "unread"}] :
         prog' = IF \E d \in Devices : Selected(found, wanted, serials) = {d}
                 THEN "open" ELSE "error"
    /\ UNCHANGED <<vars, pcap, threads>>

\* Cynthion::open: the interface, the claim and the supported speeds, each of
\* which may fail; the protocol version may be missing.
CliOpen ==
    /\ prog = "open"
    /\ prog' \in {"speed", "error"}
    /\ UNCHANGED <<vars, pcap, threads>>

\* The speed asked for, or the fastest the device has if "auto" was asked for
\* and the device has no such mode; None if there is no such speed.
Fastest(supported) ==
    IF "high" \in supported THEN "high"
    ELSE IF "full" \in supported THEN "full"
    ELSE IF "low" \in supported THEN "low" ELSE None
Chosen(requested, supported) ==
    IF requested \in supported THEN requested
    ELSE IF requested = "auto" THEN Fastest(supported) ELSE None

CliSpeed ==
    /\ prog = "speed"
    /\ \E requested \in {"auto", "high", "full", "low"},
          supported \in SUBSET {"auto", "high", "full", "low"} :
         prog' = IF Chosen(requested, supported) = None THEN "error" ELSE "create"
    /\ UNCHANGED <<vars, pcap, threads>>

\* The pcap file, if --output was given: its header goes to the buffer.
CliCreate ==
    /\ prog = "create"
    /\ \/ prog' = "begin" /\ pcap' \in {"none", "partial"}
       \/ prog' = "error" /\ UNCHANGED pcap
    /\ UNCHANGED <<vars, threads>>

\* dev.start_capture(opts)?: an error ends the program.
CliStart ==
    /\ \/ prog = "begin" /\ StartCapture(Cap)
       \/ prog = "starting" /\ Start(Cap)
       \/ prog = "starting" /\ At("start_drop", Cap) /\ CancelRead(Cap)
    /\ prog' = CASE phase'[Cap] = "failed" /\ pc' = "idle" -> "error"
                 [] phase'[Cap] = "open"   -> "handler"
                 [] OTHER                  -> "starting"
    /\ UNCHANGED <<pcap, threads>>

\* set_handler, whose error is dropped, and the timer if there is a duration.
CliHandler ==
    /\ prog = "handler"
    /\ prog' = "loop"
    /\ handled' \in BOOLEAN /\ armed' \in BOOLEAN
    /\ UNCHANGED <<vars, lock, pcap, presses>>

-----------------------------------------------------------------------------
(* The loop and what follows it.                                           *)

\* write_packet into the BufWriter, which may spill its buffer to the file.
Written ==
    \/ pcap = "none" /\ UNCHANGED pcap
    \/ pcap # "none" /\ pcap' = "partial"

\* for item in stream: an item either goes on, or reaches --count, or cannot
\* be written to the pcap, which returns from the function.
CliItem ==
    /\ prog = "loop"
    /\ NextItem(Cap)
    /\ \/ Written /\ prog' \in {"loop", "drop"}
       \/ pcap # "none" /\ pcap' = "broken" /\ prog' = "drop_return"
    /\ UNCHANGED threads

\* The loop ends with the stream, whether next returned None or an error.
CliNext ==
    /\ prog = "loop"
    /\ \/ NextCall(Cap) \/ NextCompleted(Cap) \/ NextSubmitFails(Cap)
       \/ NextEnd(Cap) \/ NextTimeout(Cap)
    /\ prog' = IF done'[Cap] THEN "drop" ELSE "loop"
    /\ UNCHANGED <<pcap, threads>>

CliNextFails ==
    /\ prog = "loop"
    /\ NextFails(Cap)
    /\ prog' = "drop"
    /\ UNCHANGED <<pcap, threads>>

\* The stream, moved into the loop, is dropped at its end.
CliDrop ==
    /\ prog \in {"drop", "drop_return"}
    /\ Stop(Cap) \/ Close(Cap)
    /\ IF phase'[Cap] # "closed"
         THEN UNCHANGED prog
         ELSE prog' = IF prog = "drop" THEN "stopper" ELSE "error"
    /\ UNCHANGED <<pcap, threads>>

\* stopper.lock() and the call of the StopFn under it.
LockAndCall(c) ==
    /\ lock = None
    /\ lock' = c
    /\ StopFnCall(c, Cap)

CallReturns(c) ==
    /\ lock = c
    /\ lock' = None
    /\ StopFnWrite(c)

\* After the loop the main thread calls the stopper itself.
CliStopper ==
    /\ \/ prog = "stopper" /\ LockAndCall(Main) /\ prog' = "stopping"
       \/ prog = "stopping" /\ CallReturns(Main) /\ prog' = "flush"
    /\ UNCHANGED <<handled, armed, pcap, presses>>

\* w.flush()?.  The drop of a BufWriter would write the rest too, but it keeps
\* an error to itself.
BadFlushed == IF pcap = "none" THEN pcap' = "none" /\ prog' = "ok"
              ELSE pcap' \in {"whole", "broken"} /\ prog' = "ok"
Flushed ==
    \/ pcap = "none" /\ prog' = "ok" /\ UNCHANGED pcap
    \/ pcap # "none" /\ pcap' = "whole" /\ prog' = "ok"
    \/ pcap # "none" /\ pcap' = "broken" /\ prog' = "error"

CliFlush ==
    /\ prog = "flush"
    /\ Flushed
    /\ UNCHANGED <<vars, threads>>

-----------------------------------------------------------------------------
(* The other threads.                                                      *)

TimerFires ==
    /\ ~Over
    /\ armed
    /\ LockAndCall(Timer)
    /\ armed' = FALSE
    /\ UNCHANGED <<prog, handled, pcap, presses>>

\* Ctrl-C runs the handler on a thread of its own.
Press ==
    /\ ~Over
    /\ handled
    /\ presses < MaxPresses
    /\ LockAndCall(CtrlC)
    /\ presses' = presses + 1
    /\ UNCHANGED <<prog, handled, armed, pcap>>

\* Without a handler it kills the process: the register stays as it is.
PressKills ==
    /\ ~Over
    /\ ~handled
    /\ presses < MaxPresses
    /\ prog' = "killed"
    /\ presses' = presses + 1
    /\ UNCHANGED <<vars, lock, handled, armed, pcap>>

ThreadReturns(c) ==
    /\ ~Over
    /\ c # Main
    /\ CallReturns(c)
    /\ UNCHANGED <<prog, handled, armed, pcap, presses>>

CliWire == ~Over /\ Wire /\ UNCHANGED cli

\* The program is over: its threads and its claim on the interface are gone.
Exited == Over /\ UNCHANGED cliVars

Setup    == CliSelect \/ CliOpen \/ CliSpeed \/ CliCreate
MainStep == Setup \/ CliStart \/ CliHandler \/ CliItem \/ CliNext \/ CliDrop
            \/ CliStopper \/ CliFlush

CliNextState ==
    \/ MainStep \/ CliNextFails
    \/ TimerFires \/ Press \/ PressKills
    \/ \E c \in Caller : ThreadReturns(c)
    \/ CliWire
    \/ Exited

\* The main thread runs, and a register write ends at the latest after
\* TIMEOUT.  The timer may be long, nobody has to press Ctrl-C, and until the
\* flag is set the main thread may wait for traffic for ever.
CliSpec ==
    /\ CliInit /\ [][CliNextState]_cliVars
    /\ WF_cliVars(flag[Cap] /\ MainStep)
    /\ \A c \in Caller : WF_cliVars(ThreadReturns(c))

-----------------------------------------------------------------------------
\* Once anyone asked for a stop, the program ends: the main thread gets out of
\* next, and the mutex comes back to it (cmd_capture, next and the StopFn).
StopEndsProgram == flag[Cap] ~> Over

\* The program leaves the analyzer capturing only if its start failed, if
\* Ctrl-C killed it before or without a handler, or if the write in the
\* stream's drop failed and so did every call of the stopper, including the
\* one the main thread makes after the loop unless a pcap error returned from
\* it.
ExitLeavesAnalyzerOff ==
    Over /\ state = Cap =>
       \/ phase[Cap] = "failed"
       \/ prog = "killed" /\ ~handled
       \/ Cap \in unsure /\ Cap \notin disabled

\* When the program returns Ok, the pcap file holds every packet it took from
\* the stream, also those of a capture that ended in an error (cmd_capture and
\* PcapWriter).
OkMeansWholeFile == prog = "ok" => pcap \in {"none", "whole"}
=============================================================================
