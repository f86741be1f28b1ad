-------------------------------- MODULE Host --------------------------------
(***************************************************************************)
(* UsbHost::enumerate and UsbHost::examine, one control transfer per step, *)
(* against a device that may stall, answer short or not at all, and be     *)
(* unplugged or exchanged between any two transfers.                       *)
(*                                                                         *)
(* A descriptor is as long as the parts the code tells apart: a device     *)
(* descriptor has its first 8 bytes and the rest, a configuration its own  *)
(* 9 bytes and the interfaces behind them, a string is there or not.       *)
(* What Configuration::parse makes of the bytes is Descriptors.            *)
(***************************************************************************)
EXTENDS FiniteSetsExt, Sequences

CONSTANTS
    Device,     \* the devices that may be plugged in
    None,       \* no device
    Configs,    \* bNumConfigurations of each
    Named,      \* string indices in the device descriptor of each
    InHeader,   \* in its configuration descriptors
    InInterfaces, \* and in its interface descriptors
    MaxCalls    \* bound on the calls a client makes

ASSUME HostAssumption ==
    /\ None \notin Device
    /\ Configs \in [Device -> Nat]
    /\ \A f \in {Named, InHeader, InInterfaces} : f \in [Device -> SUBSET (Nat \ {0})]
    /\ MaxCalls \in Nat

VARIABLES
    device, address,  \* the device attached, and the address it answers at
    pc, calls,        \* the next transfer; "idle" between calls
    result,           \* what the last call returned
    enumerated,       \* the client holds an EnumeratedDevice
    dd,               \* examine: the device whose descriptor was read
    cfg, total,       \* the configuration at hand, and what to ask of it
    configurations,   \* of the UsbDeviceModel, by device and parts read
    want,             \* string indices still to be read
    strings,          \* of the UsbDeviceModel, by index and device, None for ""
    anomalies         \* of the UsbDeviceModel

plug  == <<device, address>>
model == <<dd, cfg, total, configurations, want, strings, anomalies>>
vars  == <<plug, pc, calls, result, enumerated, model>>

Init ==
    /\ device \in Device \cup {None} /\ address = 0
    /\ pc = "idle" /\ calls = 0 /\ result = "none" /\ enumerated = FALSE
    /\ dd = None /\ cfg = 0 /\ total = 0
    /\ configurations = <<>> /\ want = {} /\ strings = {} /\ anomalies = {}

-----------------------------------------------------------------------------
(* The bus.                                                                *)

\* Another device, or none, in the place of this one.
Replug ==
    /\ device' \in Device \cup {None}
    /\ address' = 0
    /\ UNCHANGED <<pc, calls, result, enumerated, model>>

\* Only the device at that address answers.  A Bad variant is a slip that a
\* property must catch; no action uses it.
BadAnswers(a) == device # None
Answers(a)    == device # None /\ address = a

\* The parts of a descriptor of so many that a transfer asking for n of them
\* returns with Ok.  None come from a device that stalls or is silent.
Returned(a, parts, n) == {0} \cup IF Answers(a) THEN 1..Min({parts, n}) ELSE {}

-----------------------------------------------------------------------------
(* The program.                                                            *)

Return(r) == pc' = "idle" /\ result' = r /\ UNCHANGED calls
Goto(p)   == pc' = p /\ UNCHANGED <<calls, result>>

\* ?
Fails(p) ==
    /\ pc = p
    /\ Return("error")
    /\ UNCHANGED <<enumerated, model>>

Call(p) ==
    /\ pc = "idle" /\ calls < MaxCalls
    /\ pc' = p /\ calls' = calls + 1 /\ result' = "none"
    /\ UNCHANGED plug

(* enumerate.                                                              *)

Enumerate ==
    /\ Call("reset") /\ enumerated' = FALSE
    /\ UNCHANGED model

\* The bus reset, whether it is reported or not, sends the device to 0.
Reset ==
    /\ pc = "reset"
    /\ address' = 0
    /\ Goto("head") \/ Return("error")
    /\ UNCHANGED <<device, enumerated, model>>

Head8 ==
    /\ pc = "head"
    /\ \E n \in Returned(0, 2, 1) :
         IF n = 0 THEN Return("error") ELSE Goto("set_address")
    /\ UNCHANGED <<plug, enumerated, model>>

\* The device may have taken the address although the transfer failed, and a
\* transfer nobody answered is not a STALL.
SetAddress ==
    /\ pc = "set_address"
    /\ address' \in IF Answers(0) THEN {0, 1} ELSE {address}
    /\ Goto("full") \/ Return("error")
    /\ UNCHANGED <<device, enumerated, model>>

\* The address the full descriptor is read at.
BadAddressed == 0
Addressed    == 1

Full ==
    /\ pc = "full"
    /\ \E n \in Returned(Addressed, 2, 2) :
         IF n < 2 THEN Return("error") /\ UNCHANGED enumerated
                  ELSE Return("enumerated") /\ enumerated' = TRUE
    /\ UNCHANGED <<plug, model>>

(* examine, of the address an EnumeratedDevice holds.                      *)

Examine ==
    /\ enumerated
    /\ Call("dd")
    /\ dd' = None /\ cfg' = 0 /\ total' = 0
    /\ configurations' = <<>> /\ want' = {} /\ strings' = {} /\ anomalies' = {}
    /\ UNCHANGED enumerated

\* A short device descriptor is put down as an anomaly, and returned as an
\* error at once.
DeviceDescriptor ==
    /\ pc = "dd"
    /\ \E n \in Returned(1, 2, 2) :
         IF n < 2 THEN Return("error") /\ UNCHANGED dd
                  ELSE Goto("langids") /\ dd' = device
    /\ UNCHANGED <<plug, enumerated, cfg, total, configurations, want, strings,
                   anomalies>>

\* The strings the descriptors read so far refer to.
BadReferred(read) == Named[dd]
Referred(read) ==
    Named[dd] \cup (UNION {InHeader[c.from] : c \in read})
              \cup (UNION {InInterfaces[c.from] : c \in {r \in read : r.parts = 2}})

\* The configuration after number c, or the strings.
BadMoreConfigs(c) == c <= Configs[dd]
MoreConfigs(c)    == c < Configs[dd]

NextConfig(c, read) ==
    LET wanted == Referred({read[i] : i \in 1..Len(read)}) IN
    /\ cfg' = c
    /\ configurations' = read
    /\ IF MoreConfigs(c)
         THEN Goto("config_head") /\ UNCHANGED want
         ELSE /\ IF wanted = {} THEN Return("examined") ELSE Goto("string")
              /\ want' = wanted

\* An error, too, only means that the strings are asked for in English.
LangIds ==
    /\ pc = "langids"
    /\ NextConfig(0, <<>>)
    /\ UNCHANGED <<plug, enumerated, dd, total, strings, anomalies>>

\* The 9 bytes tell wTotalLength, true or not; fewer stand for themselves.
ConfigHead ==
    /\ pc = "config_head"
    /\ \E n \in Returned(1, 2, 1) :
         total' \in IF n = 0 THEN {0} ELSE 0..2
    /\ Goto("config")
    /\ UNCHANGED <<plug, enumerated, dd, cfg, configurations, want, strings,
                   anomalies>>

\* Whether so many parts make a Configuration.
Parses(n) == n > 0

Config ==
    /\ pc = "config"
    /\ \E n \in Returned(1, 2, total) :
         /\ Parses(n)
         /\ NextConfig(cfg + 1,
                       Append(configurations, [from |-> device, parts |-> n]))
    /\ UNCHANGED <<plug, enumerated, dd, total, strings, anomalies>>

\* read_configuration returns an error: of either transfer, or because there
\* were too few bytes to parse.
ConfigFails ==
    /\ pc \in {"config_head", "config"}
    /\ anomalies' = anomalies \cup {<<"config", cfg>>}
    /\ NextConfig(cfg + 1, configurations)
    /\ UNCHANGED <<plug, enumerated, dd, total, strings>>

\* Nothing, a STALL and something that is no string decode to the empty string;
\* only an error of the transfer is an anomaly.
String ==
    LET i == Min(want) IN
    /\ pc = "string"
    /\ \/ /\ \E n \in Returned(1, 1, 1) :
               strings' = strings \cup {<<i, IF n = 0 THEN None ELSE device>>}
          /\ UNCHANGED anomalies
       \/ /\ anomalies' = anomalies \cup {<<"string", i>>}
          /\ UNCHANGED strings
    /\ want' = want \ {i}
    /\ IF want' = {} THEN Return("examined") ELSE Goto("string")
    /\ UNCHANGED <<plug, enumerated, dd, cfg, total, configurations>>

TransferFails ==
    \/ Fails("head") \/ Fails("set_address") \/ Fails("full") \/ Fails("dd")

Next ==
    \/ Replug
    \/ Enumerate \/ Reset \/ Head8 \/ SetAddress \/ Full
    \/ Examine \/ DeviceDescriptor \/ LangIds \/ ConfigHead \/ Config
    \/ ConfigFails \/ String
    \/ TransferFails /\ UNCHANGED plug

Spec == Init /\ [][Next]_vars

-----------------------------------------------------------------------------
(* Correctness.                                                            *)

\* enumerate returns Ok only with a device that took the address it names,
\* though only a STALL of SET_ADDRESS is noticed, and whatever was plugged in
\* or out on the way.
EnumeratedHasAddress ==
    [][result # "enumerated" /\ result' = "enumerated" => Answers(1)]_vars

\* A UsbDeviceModel is about one device: its configurations and strings come
\* from the one whose device descriptor it holds, although each is a transfer
\* of its own and devices come and go between them.
OneDeviceInModel ==
    /\ \A i \in 1..Len(configurations) : configurations[i].from = dd
    /\ \A s \in strings : s[2] \in {dd, None}

\* examine asks for everything there is to ask for, and for nothing twice: of
\* each configuration the device has, a part or all is in the model, or it is an
\* anomaly, and so is every string that the parts in the model name, though it
\* may be an empty one.  This does not say that what is missing was put down: a
\* configuration cut to its 9 bytes and a string that was stalled are no
\* anomalies to the code.
ExamineAsksForAll ==
    result = "examined" =>
      LET failed == {a \in anomalies : a[1] = "config"}
          read   == {s[1] : s \in strings}
          lost   == {a[2] : a \in {b \in anomalies : b[1] = "string"}}
          whole  == \E i \in 1..Len(configurations) : configurations[i].parts = 2
      IN /\ Len(configurations) + Cardinality(failed) = Configs[dd]
         /\ Cardinality(strings) = Cardinality(read) /\ read \cap lost = {}
         /\ read \cup lost = Named[dd]
                \cup (IF configurations = <<>> THEN {} ELSE InHeader[dd])
                \cup (IF whole THEN InInterfaces[dd] ELSE {})
=============================================================================
