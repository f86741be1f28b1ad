------------------------------- MODULE Flash -------------------------------
(***************************************************************************)
(* From the bus to a configured FPGA: find, Apollo::open with the hand-off *)
(* of the USB port by running gateware, flash, and then, on the Apollo     *)
(* that was opened, the calls of Jtag.                                     *)
(*                                                                         *)
(* Several boards may be on the bus.  They are plugged in and out, leave   *)
(* and come back after a hand-off or do not, and cannot be opened until    *)
(* udev has set the permissions; every scan of the bus and every open can  *)
(* fail.  What a scan sees may be gone when it is used, and which of       *)
(* several boards comes first is any choice.                               *)
(***************************************************************************)
EXTENDS Jtag

CONSTANTS
    Boards,   \* the boards that are plugged in at some time
    Nobody,   \* no board
    Tries,    \* attempts to open Apollo, 60
    MaxPlugs  \* bound on the times a board is plugged in or out meanwhile

ASSUME FlashAssumption ==
    Nobody \notin Boards /\ Tries \in Nat \ {0} /\ MaxPlugs \in Nat

\* What a board presents: the debugger, gateware with a stub interface for it,
\* gateware without one, or nothing.
Mode == {"apollo", "stub", "plain", "away"}

VARIABLES
    at,        \* where the program is: "find", "look", "ask", "handoff",
               \* "try", "claim", "opened", or "over" without an Apollo
    modes,     \* the mode of each board
    usable,    \* boards whose device node may be opened
    leaving,   \* boards that were handed off and have not come back
    dev,       \* the board that the last scan returned
    tries,     \* attempts made
    asked,     \* history: boards that were sent the hand-off request
    strangers, \* history: boards plugged in since
    plugs      \* times a board was plugged in or out

bus       == <<modes, usable, leaving, strangers, plugs>>
opening   == <<at, dev, tries, asked>>
flashVars == <<vars, bus, opening>>

\* The bus when the program starts is any that plugging has led to.
FlashInit ==
    /\ Init
    /\ at \in {"find", "look"}
    /\ modes \in [Boards -> Mode]
    /\ usable \in SUBSET Boards
    /\ leaving = {} /\ asked = {} /\ strangers = {}
    /\ dev = Nobody
    /\ tries = 0 /\ plugs = 0

-----------------------------------------------------------------------------
(* The bus.                                                                *)

Opening == at \notin {"opened", "over"}

\* A board that goes away, or is exchanged, makes what a scan said of it stale.
Changed(b, mode) ==
    /\ modes' = [modes EXCEPT ![b] = mode]
    /\ dev' = IF dev = b THEN Nobody ELSE dev

Unplug(b) ==
    /\ Opening /\ plugs < MaxPlugs
    /\ Changed(b, "away")
    /\ leaving' = leaving \ {b} /\ plugs' = plugs + 1
    /\ UNCHANGED <<vars, at, usable, tries, asked, strangers>>

PlugIn(b) ==
    /\ Opening /\ plugs < MaxPlugs
    /\ modes[b] = "away" /\ b \notin leaving
    /\ \E mode \in Mode \ {"away"} : Changed(b, mode)
    /\ usable' \in {usable \cup {b}, usable \ {b}}
    /\ strangers' = strangers \cup {b} /\ plugs' = plugs + 1
    /\ UNCHANGED <<vars, at, leaving, tries, asked>>

\* A board that was handed off enumerates as Apollo, its permissions not set.
ReEnumerate(b) ==
    /\ Opening
    /\ b \in leaving
    /\ Changed(b, "apollo")
    /\ usable' = usable \ {b} /\ leaving' = leaving \ {b}
    /\ UNCHANGED <<vars, at, tries, asked, strangers, plugs>>

Permit(b) ==
    /\ Opening
    /\ modes[b] # "away" /\ b \notin usable
    /\ usable' = usable \cup {b}
    /\ UNCHANGED <<vars, modes, leaving, strangers, plugs, opening>>

-----------------------------------------------------------------------------
(* The program.  A Bad variant is a slip that a property must catch.       *)

\* What find, find_apollo_info and find_stub_info look for.
BadIsApollo(b) == modes[b] # "away"
IsApollo(b)    == modes[b] = "apollo"
HasStub(b)     == modes[b] = "stub"

Proceed(place) == at' = place /\ UNCHANGED <<vars, bus>>

\* An error, the end of the program.
Fails == Proceed("over") /\ UNCHANGED <<dev, tries, asked>>

\* cmd_flash: some Cynthion is there, whatever it presents; the bitstream is
\* read, and flash refuses an empty one.  All of it can fail.  A client that
\* calls Apollo::open itself begins at "look".
Find ==
    /\ at = "find"
    /\ \E b \in Boards : modes[b] # "away"
    /\ Proceed("look") /\ UNCHANGED <<dev, tries, asked>>

\* If an Apollo is there, no board is asked for its port.
Look ==
    /\ at = "look"
    /\ Proceed(IF \E b \in Boards : IsApollo(b) THEN "try" ELSE "ask")
    /\ UNCHANGED <<dev, tries, asked>>

\* The first board with a stub interface; NoDevice if there is none.
FindStub ==
    /\ at = "ask"
    /\ \E b \in Boards : HasStub(b) /\ dev' = b
    /\ Proceed("handoff") /\ UNCHANGED <<tries, asked>>

\* request_handoff: the interface is opened, and whatever the transfer then
\* returns is ignored.  The board leaves the bus, or has not got the request.
HandOff ==
    /\ at = "handoff"
    /\ dev # Nobody /\ dev \in usable
    /\ \/ /\ modes' = [modes EXCEPT ![dev] = "away"]
          /\ leaving' = leaving \cup {dev}
       \/ UNCHANGED <<modes, leaving>>
    /\ asked' = asked \cup {dev}
    /\ dev' = Nobody
    /\ at' = "try"
    /\ UNCHANGED <<vars, usable, strangers, plugs, tries>>

\* An attempt without an Apollo, or with one that could not be opened: after
\* the last the error is returned.
BadAfterMiss == IF tries + 1 < Tries THEN "look" ELSE "over"
AfterMiss    == IF tries + 1 < Tries THEN "try" ELSE "over"

Missed ==
    /\ Proceed(AfterMiss)
    /\ dev' = Nobody /\ tries' = tries + 1
    /\ UNCHANGED asked

\* find_apollo_info in the loop.
Try ==
    /\ at = "try"
    /\ \/ /\ \E b \in Boards : IsApollo(b) /\ dev' = b
          /\ Proceed("claim") /\ UNCHANGED <<tries, asked>>
       \/ (\A b \in Boards : ~IsApollo(b)) /\ Missed

\* from_device: opened and claimed.  From here on the program does not look at
\* the bus, and what is on it is left out.
Claim ==
    /\ at = "claim"
    /\ dev # Nobody /\ dev \in usable
    /\ at' = "opened"
    /\ modes' = [b \in Boards |-> "away"]
    /\ usable' = {} /\ leaving' = {} /\ asked' = {} /\ strangers' = {}
    /\ dev' = Nobody
    /\ tries' = 0 /\ plugs' = 0
    /\ UNCHANGED vars

\* No permission yet, the board gone, the interface claimed by another: the
\* error is kept, and the next attempt made.
ClaimFails == at = "claim" /\ Missed

\* Every ? of find and open; the persistent target, which is refused once the
\* hand-off is over.
Errors == at \in {"find", "look", "ask", "handoff", "try", "opened"} /\ calls = 0 /\ Fails

FlashNext ==
    \/ \E b \in Boards : Unplug(b) \/ PlugIn(b) \/ ReEnumerate(b) \/ Permit(b)
    \/ Find \/ Look \/ FindStub \/ HandOff \/ Try \/ Claim \/ ClaimFails
    \/ Errors
    \/ at = "opened" /\ Next /\ UNCHANGED <<bus, opening>>

FlashSpec == FlashInit /\ [][FlashNext]_flashVars

-----------------------------------------------------------------------------
\* One call of open takes the port from one board at most, however long the
\* board takes to come back and whoever else is on the bus.
AsksOneBoard == \A b, c \in asked : b = c

\* What open returns is an Apollo, not gateware; and if it asked a board for
\* its port, it is that board, unless another was plugged in meanwhile.
OpensTheBoardAsked ==
    [][at' = "opened" /\ at # "opened" =>
          /\ modes[dev] = "apollo"
          /\ asked # {} => dev \in asked \cup strangers]_flashVars
=============================================================================
