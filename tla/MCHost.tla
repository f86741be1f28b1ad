------------------------------- MODULE MCHost -------------------------------
(***************************************************************************)
(* Two devices: one with two configurations and strings in every place,    *)
(* one of them named twice, the other with one configuration and no string *)
(* in its device descriptor.  Beside them, the bytes a device may send for *)
(* a configuration.                                                        *)
(***************************************************************************)
EXTENDS Host, Descriptors, TLC

CONSTANTS a, b

MCConfigs      == a :> 2 @@ b :> 1
MCNamed        == a :> {1, 2} @@ b :> {}
MCInHeader     == a :> {2, 5} @@ b :> {3}
MCInInterfaces == a :> {4} @@ b :> {}

\* Host does not look at bytes, and Descriptors at nothing else: what a device
\* sends grows in the states without a device and a call, and the calls are made
\* when nothing was sent.
MCInit == Init /\ NothingSent
MCNext ==
    \/ sent = <<>> /\ Next /\ UNCHANGED sent
    \/ device = None /\ calls = 0 /\ SendByte /\ UNCHANGED vars

MCSpec == MCInit /\ [][MCNext]_<<vars, sent>>
=============================================================================
