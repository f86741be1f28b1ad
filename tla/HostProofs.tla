----------------------------- MODULE HostProofs -----------------------------
(***************************************************************************)
(* Theorems about Host, for every set of devices, whatever their           *)
(* descriptors, and any number of calls, and about Descriptors, for        *)
(* whatever bytes a device sends.                                          *)
(***************************************************************************)
EXTENDS Host, Descriptors, DataLemmas, TLAPS

Examining == {"langids", "config_head", "config", "string"}

(* OneDeviceInModel is not inductive: that the device which answers is the *)
(* one whose descriptor was read lies in the address.  A device plugged in *)
(* is at address 0, examine asks at address 1, and only enumerate assigns  *)
(* one.                                                                    *)
SameDevice ==
    /\ configurations \in Seq([from : Device \cup {None}, parts : Nat])
    /\ total \in 0..2 /\ device \in Device \cup {None}
    /\ pc = "dd" => configurations = <<>> /\ strings = {}
    /\ pc \in Examining /\ Answers(1) => device = dd

IInv == SameDevice /\ OneDeviceInModel

LEMMA NextConfigKeeps ==
    ASSUME NEW c, NEW read, NextConfig(c, read)
    PROVE  /\ configurations' = read
           /\ pc' \in Examining \cup {"idle"}
  BY DEF NextConfig, Goto, Return, Examining

LEMMA Initially == Init => IInv
  BY DEF Init, IInv, SameDevice, OneDeviceInModel, Examining

LEMMA Inductive == IInv /\ [Next]_vars => IInv'
<1> SUFFICES ASSUME IInv, [Next]_vars
             PROVE  IInv'
  OBVIOUS
<1> USE DEF IInv, SameDevice, OneDeviceInModel, Answers, Examining
(* Steps that leave the model alone, and do not enter examine.             *)
<1>1. ASSUME pc' = pc \/ pc' \notin Examining \cup {"dd"},
             UNCHANGED <<dd, total, configurations, strings>>,
             device' \in Device \cup {None},
             UNCHANGED plug \/ address' = 0 \/ pc' \notin Examining
      PROVE  IInv'
  BY <1>1 DEF plug
<1>2. CASE Replug
  BY <1>1, <1>2 DEF Replug, model
<1>3. CASE Enumerate \/ Reset \/ Head8 \/ SetAddress \/ Full
  <2>1. /\ pc' \notin Examining \cup {"dd"}
        /\ UNCHANGED <<device, dd, total, configurations, strings>>
    <3>1. CASE Enumerate
      BY <3>1 DEF Enumerate, Call, plug, model
    <3>2. CASE Reset
      BY <3>2 DEF Reset, Goto, Return, model
    <3>3. CASE Head8
      BY <3>3 DEF Head8, Goto, Return, plug, model
    <3>4. CASE SetAddress
      BY <3>4 DEF SetAddress, Goto, Return, model
    <3>5. CASE Full
      <4>1. pc' = "idle" /\ UNCHANGED <<plug, model>>
        BY <3>5, Zenon DEF Full, Return
      <4>2. QED
        BY <4>1 DEF plug, model
    <3>6. QED
      BY <1>3, <3>1, <3>2, <3>3, <3>4, <3>5
  <2>2. QED
    BY <1>1, <2>1
<1>4. CASE Examine
  BY <1>4 DEF Examine, Call, plug
<1>5. CASE DeviceDescriptor
  <2>1. PICK n \in Returned(1, 2, 2) :
           IF n < 2 THEN Return("error") /\ UNCHANGED dd
                    ELSE Goto("langids") /\ dd' = device
    BY <1>5 DEF DeviceDescriptor
  <2>2. UNCHANGED <<plug, total, configurations, strings>> /\ pc = "dd"
    BY <1>5 DEF DeviceDescriptor
  <2>3. QED
    BY <2>1, <2>2 DEF Return, Goto, plug
<1>6. CASE LangIds
  <2>1. configurations' = <<>> /\ pc' \in Examining \cup {"idle"}
    BY <1>6, NextConfigKeeps DEF LangIds
  <2>2. QED
    BY <1>6, <2>1 DEF LangIds, plug
<1>7. CASE ConfigHead
  BY <1>7 DEF ConfigHead, Goto, plug
<1>8. CASE Config
  <2>1. PICK n \in Returned(1, 2, total) :
           /\ Parses(n)
           /\ NextConfig(cfg + 1,
                         Append(configurations, [from |-> device, parts |-> n]))
    BY <1>8 DEF Config
  <2>2. n \in Nat /\ Answers(1)
    <3>1. Min({2, total}) \in Nat
      <4>1. total \in {2, total} /\ \A y \in {2, total} : total <= y
        OBVIOUS
      <4>2. Min({2, total}) \in {2, total}
        BY <4>1 DEF Min
      <4>3. QED
        BY <4>2
    <3>2. QED
      BY <2>1, <3>1 DEF Parses, Returned
  <2>3. device = dd /\ dd \in Device
    BY <1>8, <2>2 DEF Config
  <2> DEFINE read == Append(configurations, [from |-> dd, parts |-> n])
  <2>4. configurations' = read /\ pc' \in Examining \cup {"idle"}
    BY <2>1, <2>3, NextConfigKeeps
  <2>5. QED
    BY <1>8, <2>2, <2>3, <2>4 DEF Config, plug
<1>9. CASE ConfigFails
  <2>1. UNCHANGED configurations /\ pc' \in Examining \cup {"idle"}
    BY <1>9, NextConfigKeeps DEF ConfigFails
  <2>2. QED
    BY <1>9, <2>1 DEF ConfigFails, plug
<1>10. CASE String
  BY <1>10 DEF String, Returned, Return, Goto, plug
<1>11. CASE TransferFails /\ UNCHANGED plug
  BY <1>1, <1>11 DEF TransferFails, Fails, Return, plug, model
<1>12. CASE UNCHANGED vars
  BY <1>1, <1>12 DEF vars, plug, model
<1>13. QED
  BY <1>2, <1>3, <1>4, <1>5, <1>6, <1>7, <1>8, <1>9, <1>10, <1>11, <1>12 DEF Next

LEMMA Invariance == Spec => []IInv
<1>1. QED
  BY Initially, Inductive, PTL DEF Spec

(* examine returns a model of one device, though each of its descriptors   *)
(* is a transfer of its own and devices come and go between them.          *)
THEOREM ModelIsOfOneDevice == Spec => []OneDeviceInModel
<1>1. IInv => OneDeviceInModel
  BY DEF IInv
<1>2. QED
  BY <1>1, Invariance, PTL

(* enumerate succeeds only with a device that took the address assigned.   *)
(* That needs no invariant: the last transfer is what shows it.            *)
THEOREM EnumeratedAnswers == Spec => EnumeratedHasAddress
<1>1. [Next]_vars => (result # "enumerated" /\ result' = "enumerated" => Answers(1))
  <2> SUFFICES ASSUME Next, result # "enumerated", result' = "enumerated"
               PROVE  Answers(1)
    BY DEF vars
  <2>1. CASE Full
    BY <2>1 DEF Full, Returned, Return, Addressed
  <2>2. QED
    BY <2>1 DEF Next, Replug, Enumerate, Reset, Head8, SetAddress, Examine,
                DeviceDescriptor, LangIds, ConfigHead, Config, ConfigFails,
                String, TransferFails, Fails, NextConfig, Call, Goto, Return
<1>2. QED
  BY <1>1, PTL DEF Spec, EnumeratedHasAddress

-----------------------------------------------------------------------------
(* examine asks for all that the descriptors it got refer to.              *)

(* The configurations read and those noted as anomalies are the ones asked *)
(* for so far; the string indices still wanted, those read and those noted *)
(* divide what the parts read so far refer to.                             *)
Of(kind) == {a \in anomalies : a[1] = kind}
Read     == {s[1] : s \in strings}
Lost     == {a[2] : a \in Of("string")}
Parsed   == {configurations[i] : i \in 1..Len(configurations)}

Counted ==
    /\ cfg \in Nat
    /\ IsFiniteSet(Of("config"))
    /\ \A x \in Of("config") : x[2] \in 0..(cfg - 1)
    /\ Len(configurations) + Cardinality(Of("config")) = cfg

Divided ==
    /\ want \subseteq Nat
    /\ want \cup Read \cup Lost = Referred(Parsed)
    /\ want \cap (Read \cup Lost) = {} /\ Read \cap Lost = {}
    /\ IsFiniteSet(strings) /\ IsFiniteSet(Read)
    /\ Cardinality(strings) = Cardinality(Read)

NoStringsYet == strings = {} /\ Of("string") = {}

Accounted ==
    /\ pc # "idle" => result = "none"
    /\ pc \in {"dd", "langids"} => anomalies = {} /\ strings = {} /\ configurations = <<>>
    /\ pc \in Examining \/ result = "examined" => dd \in Device
    /\ pc \in {"config_head", "config"} => Counted /\ cfg < Configs[dd] /\ NoStringsYet
    /\ pc = "string" \/ result = "examined" =>
         Counted /\ cfg = Configs[dd] /\ Divided /\ (want = {} <=> pc # "string")

\* The string read next is one of those wanted.
LEMMA MinIsMember ==
    ASSUME NEW S \in SUBSET Nat, S # {}
    PROVE  Min(S) \in S
  BY NatMinimum DEF Min

\* The indices Referred takes from what was read, by place.
Heads(read)  == UNION {InHeader[c.from] : c \in read}
Wholes(read) == UNION {InInterfaces[c.from] : c \in {r \in read : r.parts = 2}}

LEMMA ReferredByPlace ==
    ASSUME NEW read
    PROVE  Referred(read) = Named[dd] \cup Heads(read) \cup Wholes(read)
  BY DEF Referred, Heads, Wholes

LEMMA ReferredAreIndices ==
    ASSUME NEW read, dd \in Device, \A r \in read : r.from \in Device
    PROVE  Referred(read) \subseteq Nat
<1>1. \A f \in {Named, InHeader, InInterfaces}, d \in Device : f[d] \subseteq Nat
  BY HostAssumption
<1>2. \A r \in read : InHeader[r.from] \subseteq Nat /\ InInterfaces[r.from] \subseteq Nat
  BY <1>1
<1>3. Heads(read) \subseteq Nat
  BY <1>2 DEF Heads
<1>4. Wholes(read) \subseteq Nat
  BY <1>2 DEF Wholes
<1>5. Named[dd] \subseteq Nat
  BY <1>1
<1>6. QED
  BY <1>3, <1>4, <1>5, ReferredByPlace

(* After a configuration, read or not, comes the next or the strings, and  *)
(* nothing was asked of those yet.                                         *)
LEMMA AfterConfiguration ==
    ASSUME NEW c \in Nat, NEW read \in Seq([from : {dd}, parts : Nat]),
           NextConfig(c, read), dd \in Device, dd' = dd, c <= Configs[dd],
           result = "none", Counted', NoStringsYet'
    PROVE  Accounted'
<1> DEFINE wanted == Referred({read[i] : i \in 1..Len(read)})
<1>1. cfg' = c /\ configurations' = read /\ Configs[dd] \in Nat
  BY HostAssumption DEF NextConfig
<1>2. CASE MoreConfigs(c)
  <2>1. pc' = "config_head" /\ result' = "none" /\ c < Configs[dd]
    BY <1>2 DEF NextConfig, MoreConfigs, Goto
  <2>2. QED
    BY <1>1, <2>1 DEF Accounted, Examining
<1>3. CASE ~MoreConfigs(c)
  <2>1. /\ want' = wanted /\ c = Configs[dd]
        /\ \/ wanted = {} /\ pc' = "idle" /\ result' = "examined"
           \/ wanted # {} /\ pc' = "string" /\ result' = "none"
    <3>1. c = Configs[dd]
      BY <1>1, <1>3 DEF MoreConfigs
    <3>2. /\ IF wanted = {} THEN Return("examined") ELSE Goto("string")
          /\ want' = wanted
      BY <1>3, Zenon DEF NextConfig
    <3> HIDE DEF wanted
    <3>3. QED
      BY <3>1, <3>2 DEF Goto, Return
  <2>2. wanted \subseteq Nat
    <3>1. \A r \in {read[i] : i \in 1..Len(read)} : r.from \in Device
      <4>1. \A i \in 1..Len(read) : read[i] \in [from : {dd}, parts : Nat]
        BY Elements, Zenon
      <4>2. QED
        BY <4>1
    <3>2. QED
      BY <3>1, ReferredAreIndices
  <2>3. wanted = Referred(Parsed)'
    BY <1>1 DEF Referred, Parsed
  <2>4. Divided'
    <3> HIDE DEF wanted
    <3>1. strings' = {} /\ Read' = {} /\ Lost' = {}
      BY DEF NoStringsYet, Read, Lost
    <3>2. QED
      BY <2>1, <2>2, <2>3, <3>1, FS_EmptySet DEF Divided
  <2> HIDE DEF wanted
  <2>5. QED
    BY <1>1, <2>1, <2>4 DEF Accounted
<1>4. QED
  BY <1>2, <1>3

LEMMA AccountedInitially == Init => Accounted
  BY DEF Init, Accounted, Examining

LEMMA AccountedInductive == IInv /\ Accounted /\ [Next]_vars => Accounted'
<1> SUFFICES ASSUME IInv, Accounted, [Next]_vars
             PROVE  Accounted'
  OBVIOUS
<1> USE DEF Examining
(* Steps that leave the model alone, and do not enter examine.             *)
<1>1. ASSUME UNCHANGED model,
             \/ UNCHANGED <<pc, result>>
             \/ pc' \notin Examining \cup {"idle", "dd"} /\ result' = "none"
             \/ pc' = "idle" /\ result' \notin {"examined"}
      PROVE  Accounted'
  <2>1. UNCHANGED <<Counted, Divided, NoStringsYet>>
    BY <1>1 DEF model, Counted, Divided, NoStringsYet, Of, Read, Lost, Parsed,
                Referred
  <2>2. QED
    BY <1>1, <2>1 DEF Accounted, model
<1>2. CASE Replug
  BY <1>1, <1>2 DEF Replug
<1>3. CASE Enumerate \/ Reset \/ Head8 \/ SetAddress \/ Full
  <2>1. CASE Enumerate
    BY <1>1, <2>1 DEF Enumerate, Call
  <2>2. CASE Reset
    BY <1>1, <2>2 DEF Reset, Goto, Return, Accounted
  <2>3. CASE Head8
    BY <1>1, <2>3 DEF Head8, Goto, Return, Accounted
  <2>4. CASE SetAddress
    BY <1>1, <2>4 DEF SetAddress, Goto, Return, Accounted
  <2>5. CASE Full
    <3>1. pc' = "idle" /\ result' \notin {"examined"} /\ UNCHANGED model
      BY <2>5, Zenon DEF Full, Return
    <3>2. QED
      BY <1>1, <3>1
  <2>6. QED
    BY <1>3, <2>1, <2>2, <2>3, <2>4, <2>5
<1>4. CASE Examine
  BY <1>4 DEF Examine, Call, Accounted
<1>5. CASE DeviceDescriptor
  <2>1. PICK n \in Returned(1, 2, 2) :
           IF n < 2 THEN Return("error") /\ UNCHANGED dd
                    ELSE Goto("langids") /\ dd' = device
    BY <1>5 DEF DeviceDescriptor
  <2>2. /\ UNCHANGED <<configurations, strings, anomalies>>
        /\ pc = "dd" /\ result = "none"
    BY <1>5 DEF DeviceDescriptor, Accounted
  <2>3. CASE pc' = "idle" /\ result' = "error"
    BY <2>3 DEF Accounted
  <2>4. CASE n >= 2 /\ pc' = "langids" /\ result' = "none" /\ dd' = device
    <3>1. device \in Device
      BY <2>4 DEF Returned, Answers, IInv, SameDevice
    <3>2. QED
      BY <2>2, <2>4, <3>1 DEF Accounted
  <2>5. QED
    <3>1. n \in Int
      BY DEF Returned
    <3>2. QED
      BY <2>1, <2>2, <2>3, <2>4, <3>1 DEF Goto, Return
<1>6. CASE LangIds
  <2>1. NextConfig(0, <<>>) /\ UNCHANGED <<dd, strings, anomalies>>
    BY <1>6 DEF LangIds
  <2>2. dd \in Device /\ result = "none" /\ strings = {} /\ anomalies = {}
    BY <1>6 DEF LangIds, Accounted
  <2>3. Counted' /\ NoStringsYet'
    <3>1. cfg' = 0 /\ configurations' = <<>>
      BY <2>1 DEF NextConfig
    <3>2. anomalies' = {} /\ strings' = {}
      BY <2>1, <2>2
    <3>3. Of("config")' = {} /\ Of("string")' = {}
      BY <3>2 DEF Of
    <3>4. QED
      BY <3>1, <3>2, <3>3, FS_EmptySet DEF Counted, NoStringsYet
  <2>4. 0 <= Configs[dd]
    BY <2>2, HostAssumption
  <2>5. <<>> \in Seq([from : {dd}, parts : Nat])
    OBVIOUS
  <2>6. QED
    BY <2>1, <2>2, <2>3, <2>4, <2>5, AfterConfiguration
<1>7. CASE ConfigHead
  <2>1. /\ pc' = "config" /\ UNCHANGED result /\ pc = "config_head"
        /\ UNCHANGED <<dd, cfg, configurations, strings, anomalies>>
    BY <1>7 DEF ConfigHead, Goto
  <2>2. UNCHANGED <<Counted, NoStringsYet>>
    BY <2>1 DEF Counted, NoStringsYet, Of
  <2>3. QED
    BY <2>1, <2>2 DEF Accounted
<1>8. CASE Config \/ ConfigFails
  <2>1. /\ pc \in {"config_head", "config"} /\ UNCHANGED <<dd, strings>>
        /\ dd \in Device /\ result = "none" /\ Counted /\ NoStringsYet
        /\ cfg < Configs[dd] /\ Configs[dd] \in Nat
    BY <1>8, HostAssumption DEF Config, ConfigFails, Accounted
  <2> DEFINE Parts == [from : {dd}, parts : Nat]
  <2>2. configurations \in Seq(Parts)
    <3>1. \A k \in 1..Len(configurations) : configurations[k] \in Parts
      <4>1. \A k \in 1..Len(configurations) :
               /\ configurations[k] \in [from : Device \cup {None}, parts : Nat]
               /\ configurations[k].from = dd
        BY Elements, Zenon DEF IInv, SameDevice, OneDeviceInModel
      <4>2. QED
        BY <4>1
    <3>2. configurations \in Seq([from : Device \cup {None}, parts : Nat])
      BY DEF IInv, SameDevice
    <3> HIDE DEF Parts
    <3>3. QED
      BY <3>1, <3>2, SeqOfElements
  <2>3. cfg + 1 \in Nat /\ cfg + 1 <= Configs[dd]
    BY <2>1 DEF Counted
  <2>4. CASE Config
    <3>1. PICK n \in Returned(1, 2, total) :
             /\ Parses(n)
             /\ NextConfig(cfg + 1,
                           Append(configurations, [from |-> device, parts |-> n]))
      BY <2>4 DEF Config
    <3>2. n \in Nat /\ device = dd
      <4>1. {2, total} \in SUBSET Nat
        BY DEF IInv, SameDevice
      <4>2. Min({2, total}) \in Nat
        BY <4>1, MinIsMember
      <4>3. n \in Nat /\ Answers(1)
        BY <3>1, <4>2 DEF Parses, Returned
      <4>4. QED
        BY <2>1, <4>3 DEF IInv, SameDevice
    <3> DEFINE read == Append(configurations, [from |-> dd, parts |-> n])
    <3>3. read \in Seq(Parts) /\ Len(read) = Len(configurations) + 1
      BY <2>2, <3>2
    <3>4. NextConfig(cfg + 1, read) /\ cfg' = cfg + 1 /\ configurations' = read
      BY <3>1, <3>2 DEF NextConfig
    <3>5. UNCHANGED anomalies
      BY <2>4 DEF Config
    <3> HIDE DEF read
    <3>6. UNCHANGED Of("config") /\ NoStringsYet'
      BY <2>1, <3>5 DEF Of, NoStringsYet
    <3>7. Counted'
      <4>1. Cardinality(Of("config")) \in Nat /\ Len(configurations) \in Nat
        BY <2>1, <2>2, FS_CardinalityType DEF Counted
      <4>2. QED
        BY <2>1, <3>3, <3>4, <3>6, <4>1 DEF Counted
    <3>8. QED
      BY <2>1, <2>3, <3>3, <3>4, <3>6, <3>7, AfterConfiguration
  <2>5. CASE ConfigFails
    <3>1. NextConfig(cfg + 1, configurations)
      BY <2>5 DEF ConfigFails
    <3>2. cfg' = cfg + 1 /\ UNCHANGED configurations
      BY <3>1 DEF NextConfig
    <3>3. anomalies' = anomalies \cup {<<"config", cfg>>}
      BY <2>5 DEF ConfigFails
    <3>4. NoStringsYet' /\ Of("config")' = Of("config") \cup {<<"config", cfg>>}
      BY <2>1, <3>3 DEF Of, NoStringsYet
    <3>5. Counted'
      <4>1. Cardinality(Of("config")) \in Nat /\ Len(configurations) \in Nat
        BY <2>1, <2>2, FS_CardinalityType DEF Counted
      <4>2. <<"config", cfg>> \notin Of("config")
        BY <2>1 DEF Counted
      <4>3. /\ IsFiniteSet(Of("config")')
            /\ Cardinality(Of("config")') = Cardinality(Of("config")) + 1
        BY <2>1, <3>4, <4>2, FS_AddElement DEF Counted
      <4>4. \A x \in Of("config")' : x[2] \in 0..cfg
        BY <2>1, <3>4 DEF Counted
      <4>5. QED
        BY <2>1, <3>2, <4>1, <4>3, <4>4 DEF Counted
    <3>6. QED
      BY <2>1, <2>2, <2>3, <3>1, <3>4, <3>5, AfterConfiguration
  <2>6. QED
    BY <1>8, <2>4, <2>5
<1>9. CASE String
  <2> DEFINE i == Min(want)
  <2>1. /\ pc = "string" /\ dd \in Device /\ result = "none"
        /\ Counted /\ cfg = Configs[dd] /\ Divided /\ want # {}
    BY <1>9 DEF String, Accounted
  <2>2. i \in want
    BY <2>1, MinIsMember DEF Divided
  <2> HIDE DEF i
  <2>3. /\ want' = want \ {i}
        /\ UNCHANGED <<dd, cfg, configurations>>
        /\ \/ want' = {} /\ pc' = "idle" /\ result' = "examined"
           \/ want' # {} /\ pc' = "string" /\ result' = "none"
    BY <1>9, <2>1 DEF String, Goto, Return, i
  <2>4. UNCHANGED <<Of("config"), Referred(Parsed)>>
    BY <1>9, <2>3 DEF String, Of, Referred, Parsed
  <2>5. Counted'
    BY <2>1, <2>3, <2>4 DEF Counted
  <2>6. Divided'
    <3>1. CASE \E d : strings' = strings \cup {<<i, d>>} /\ UNCHANGED anomalies
      <4>1. PICK d : strings' = strings \cup {<<i, d>>} /\ UNCHANGED anomalies
        BY <3>1
      <4>2. Read' = Read \cup {i} /\ Lost' = Lost
        <5> DEFINE new == <<i, d>>
        <5>1. new[1] = i /\ strings' = strings \cup {new} /\ UNCHANGED anomalies
          BY <4>1
        <5> HIDE DEF new
        <5>2. QED
          BY <5>1 DEF Read, Lost, Of
      <4>3. i \notin Read /\ <<i, d>> \notin strings
        BY <2>1, <2>2 DEF Divided, Read
      <4>4. /\ IsFiniteSet(strings') /\ IsFiniteSet(Read')
            /\ Cardinality(strings') = Cardinality(Read')
        <5>1. /\ IsFiniteSet(strings')
              /\ Cardinality(strings') = Cardinality(strings) + 1
          BY <2>1, <4>1, <4>3, FS_AddElement DEF Divided
        <5>2. /\ IsFiniteSet(Read')
              /\ Cardinality(Read') = Cardinality(Read) + 1
          BY <2>1, <4>2, <4>3, FS_AddElement DEF Divided
        <5>3. QED
          BY <2>1, <5>1, <5>2 DEF Divided
      <4>5. QED
        BY <2>1, <2>2, <2>3, <2>4, <4>2, <4>4 DEF Divided
    <3>2. CASE anomalies' = anomalies \cup {<<"string", i>>} /\ UNCHANGED strings
      <4>1. Read' = Read /\ Lost' = Lost \cup {i}
        <5> DEFINE new == <<"string", i>>
        <5>1. /\ new[1] = "string" /\ new[2] = i
              /\ anomalies' = anomalies \cup {new} /\ UNCHANGED strings
          BY <3>2
        <5> HIDE DEF new
        <5>2. Of("string")' = Of("string") \cup {new}
          BY <5>1 DEF Of
        <5>3. QED
          BY <5>1, <5>2 DEF Read, Lost
      <4>2. QED
        BY <2>1, <2>2, <2>3, <2>4, <3>2, <4>1 DEF Divided
    <3>3. QED
      BY <1>9, <3>1, <3>2 DEF String, i
  <2>7. QED
    BY <2>1, <2>3, <2>5, <2>6 DEF Accounted
<1>10. CASE TransferFails /\ UNCHANGED plug
  BY <1>1, <1>10 DEF TransferFails, Fails, Return, model
<1>11. CASE UNCHANGED vars
  BY <1>1, <1>11 DEF vars
<1>12. QED
  BY <1>2, <1>3, <1>4, <1>5, <1>6, <1>7, <1>8, <1>9, <1>10, <1>11 DEF Next

\* A finished examine has read, or noted as an anomaly, each configuration the
\* device announces and each string that the parts it got of them refer to,
\* none of them twice, for every set of devices and descriptors.
THEOREM EverythingIsAskedFor == Spec => []ExamineAsksForAll
<1>1. IInv /\ Accounted => ExamineAsksForAll
  <2> SUFFICES ASSUME IInv, Accounted, result = "examined"
               PROVE  ExamineAsksForAll
    BY DEF ExamineAsksForAll
  <2>1. Counted /\ cfg = Configs[dd] /\ Divided /\ want = {}
    BY DEF Accounted, Examining
  <2> DEFINE whole == \E i \in 1..Len(configurations) : configurations[i].parts = 2
             heads    == IF configurations = <<>> THEN {} ELSE InHeader[dd]
             wholes   == IF whole THEN InInterfaces[dd] ELSE {}
             expected == Named[dd] \cup heads \cup wholes
  <2>2. Referred(Parsed) = expected
    <3>1. \A r \in Parsed : r.from = dd
      BY DEF Parsed, IInv, OneDeviceInModel
    <3>2. Heads(Parsed) = heads
      <4>1. configurations = <<>> <=> Parsed = {}
        <5>1. configurations = <<>> <=> Len(configurations) = 0
          BY EmptySeq DEF IInv, SameDevice
        <5>2. Len(configurations) \in Nat
          BY DEF IInv, SameDevice
        <5>3. Parsed = {} <=> 1..Len(configurations) = {}
          BY DEF Parsed
        <5>4. QED
          BY <5>1, <5>2, <5>3
      <4>2. QED
        BY <3>1, <4>1 DEF Heads
    <3>3. Wholes(Parsed) = wholes
      <4>1. whole <=> {r \in Parsed : r.parts = 2} # {}
        BY DEF Parsed
      <4> HIDE DEF whole
      <4>2. QED
        BY <3>1, <4>1 DEF Wholes
    <3> HIDE DEF whole, heads, wholes
    <3>4. QED
      BY <3>2, <3>3, ReferredByPlace
  <2> HIDE DEF expected
  <2>3. /\ Len(configurations) + Cardinality(Of("config")) = Configs[dd]
        /\ Cardinality(strings) = Cardinality(Read) /\ Read \cap Lost = {}
        /\ Read \cup Lost = expected
    BY <2>1, <2>2 DEF Counted, Divided
  <2>4. QED
    BY <2>3, Zenon DEF ExamineAsksForAll, expected, Of, Read, Lost
<1>2. Init => IInv /\ Accounted
  BY Initially, AccountedInitially
<1>3. IInv /\ Accounted /\ [Next]_vars => (IInv /\ Accounted)'
  BY Inductive, AccountedInductive
<1>4. QED
  BY <1>1, <1>2, <1>3, PTL DEF Spec

-----------------------------------------------------------------------------
(* walk.                                                                   *)

\* f is what walk makes of the bytes from each place on.
Walks(blob, f) ==
    \A i \in Nat \ {0} :
        f[i] = IF i > Len(blob) THEN <<>> ELSE <<DescriptorAt(blob, i)>> \o f[After(blob, i)]

\* It goes forward.
LEMMA AfterIs ==
    ASSUME NEW blob \in Seq(Nat), NEW i \in 1..Len(blob)
    PROVE  After(blob, i) \in Nat \ {0} /\ After(blob, i) > i
<1>1. blob[i] \in Nat /\ Len(blob) \in Nat
  OBVIOUS
<1>2. QED
  BY <1>1 DEF After

\* There is such a function, from the end back to the beginning.
LEMMA WalkExists ==
    ASSUME NEW blob \in Seq(Nat)
    PROVE  \E f : f = [i \in Nat \ {0} |->
                          IF i > Len(blob) THEN <<>>
                          ELSE <<DescriptorAt(blob, i)>> \o f[After(blob, i)]]
<1> DEFINE P == Nat \ {0}
           l == Len(blob)
           S(f, i) == IF i > l THEN <<>> ELSE <<DescriptorAt(blob, i)>> \o f[After(blob, i)]
           Solves(n, f) == /\ f = [i \in P |-> f[i]]
                           /\ \A i \in P : i > l - n => f[i] = S(f, i)
           N == {n \in Nat : \E f : Solves(n, f)}
<1>0. l \in Nat
  OBVIOUS
<1>1. 0 \in N
  <2> DEFINE f == [i \in P |-> <<>>]
  <2>1. f = [i \in P |-> f[i]]
    OBVIOUS
  <2>2. \A i \in P : f[i] = <<>>
    OBVIOUS
  <2> HIDE DEF f
  <2>3. \A i \in P : i > l - 0 => f[i] = S(f, i)
    BY <1>0, <2>2
  <2> HIDE DEF S
  <2>4. Solves(0, f)
    BY <2>1, <2>3
  <2> HIDE DEF Solves
  <2>5. QED
    BY <2>4
<1>2. ASSUME NEW n \in Nat, n \in N
      PROVE  n + 1 \in N
  <2>1. PICK f : Solves(n, f)
    BY <1>2
  <2> DEFINE k == l - n
             g == [i \in P |-> IF i = k THEN S(f, k) ELSE f[i]]
  <2> HIDE DEF N, S
  <2>2. /\ g = [i \in P |-> g[i]]
        /\ \A i \in P : i # k => g[i] = f[i]
        /\ k \in P => g[k] = S(f, k)
    OBVIOUS
  <2> HIDE DEF g
  <2>3. k \in Int
    BY <1>0
  <2>a. \A i \in P : i > k => f[i] = S(f, i)
    BY <2>1
  <2> HIDE DEF k
  <2>4. ASSUME NEW i \in P, i >= k
        PROVE  S(g, i) = S(f, i)
    <3>1. CASE i > l
      BY <3>1 DEF S
    <3>2. CASE ~(i > l)
      <4>1. i \in 1..Len(blob)
        BY <1>0, <3>2
      <4>2. After(blob, i) \in P /\ After(blob, i) > i
        BY <4>1, AfterIs
      <4>3. After(blob, i) # k
        BY <2>3, <2>4, <4>2
      <4>4. g[After(blob, i)] = f[After(blob, i)]
        BY <2>2, <4>2, <4>3
      <4>5. QED
        BY <4>4 DEF S
    <3>3. QED
      BY <3>1, <3>2
  <2>5. ASSUME NEW i \in P, i > l - (n + 1)
        PROVE  g[i] = S(g, i)
    <3>1. i >= k
      BY <1>0, <2>5 DEF k
    <3>2. S(g, i) = S(f, i)
      BY <2>4, <3>1
    <3>3. CASE i = k
      BY <2>2, <3>2, <3>3
    <3>4. CASE i # k
      <4>1. i > k
        BY <2>3, <3>1, <3>4
      <4>2. QED
        BY <2>2, <2>a, <3>2, <3>4, <4>1
    <3>5. QED
      BY <3>3, <3>4
  <2>6. Solves(n + 1, g)
    BY <2>2, <2>5
  <2> HIDE DEF Solves
  <2>7. QED
    BY <2>6 DEF N
<1> HIDE DEF N
<1>3. Nat \subseteq N
  BY <1>1, <1>2, NatInductionOnSets
<1>4. PICK f : Solves(l, f)
  BY <1>0, <1>3 DEF N
<1> HIDE DEF S
<1>5. f = [i \in P |-> f[i]] /\ \A i \in P : f[i] = S(f, i)
  <2>1. \A i \in P : i > l - l
    BY <1>0
  <2>2. QED
    BY <1>4, <2>1
<1> HIDE DEF P
<1>6. f = [i \in P |-> S(f, i)]
  BY <1>5
<1>7. QED
  BY <1>6 DEF S, P

\* so Walk is what it makes of the first byte.
LEMMA WalkIs ==
    ASSUME NEW blob \in Seq(Nat)
    PROVE  \E f : Walks(blob, f) /\ Walk(blob) = f[1]
<1> DEFINE f == CHOOSE g : g = [i \in Nat \ {0} |->
                     IF i > Len(blob) THEN <<>>
                     ELSE <<DescriptorAt(blob, i)>> \o g[After(blob, i)]]
<1>1. f = [i \in Nat \ {0} |->
                     IF i > Len(blob) THEN <<>>
                     ELSE <<DescriptorAt(blob, i)>> \o f[After(blob, i)]]
  BY WalkExists
<1>2. Walk(blob) = f[1]
  BY Zenon DEF Walk
<1> HIDE DEF f
<1>3. Walks(blob, f)
  BY <1>1 DEF Walks
<1>4. QED
  BY <1>2, <1>3

\* What walk cuts a blob into.
Descriptor == [length : Nat, type : Nat, bytes : Seq(Nat), truncated : BOOLEAN]

LEMMA BytesSeq ==
    ASSUME NEW ds \in Seq(Descriptor)
    PROVE  LET bs == [k \in 1..Len(ds) |-> ds[k].bytes]
           IN  bs \in Seq(Seq(Nat)) /\ Len(bs) = Len(ds) /\ \A k \in 1..Len(ds) : bs[k] = ds[k].bytes
<1> DEFINE n == Len(ds)
           bs == [k \in 1..n |-> ds[k].bytes]
<1>1. n \in Nat /\ \A k \in 1..n : ds[k] \in Descriptor
  OBVIOUS
<1>2. \A k \in 1..n : ds[k].bytes \in Seq(Nat)
  BY <1>1 DEF Descriptor
<1>3. bs = [k \in 1..n |-> bs[k]] /\ \A k \in 1..n : bs[k] = ds[k].bytes
  OBVIOUS
<1> HIDE DEF n
<1>a. DOMAIN bs = 1..n
  OBVIOUS
<1> HIDE DEF bs
<1>b. \A k \in 1..n : bs[k] \in Seq(Nat)
  BY <1>2, <1>3
<1>c. n \in Nat /\ bs = [k \in 1..n |-> bs[k]]
  BY <1>1, <1>3
<1>5. bs \in Seq(Seq(Nat))
  BY <1>b, <1>c, IsASeq
<1>4. Len(bs) = n
  <2> DEFINE m == Len(bs)
  <2>1. DOMAIN bs = 1..m /\ m \in Nat
    BY <1>5, LenProperties
  <2>2. n \in Nat
    BY <1>1
  <2> HIDE DEF m
  <2>3. 1..m = 1..n
    BY <1>a, <2>1
  <2>4. m = n
    BY <2>1, <2>2, <2>3
  <2>5. QED
    BY <2>4 DEF m
<1>6. QED
  BY <1>3, <1>4, <1>5 DEF bs, n

\* One descriptor in front of others.
LEMMA Fronted ==
    ASSUME NEW S, NEW d \in S, NEW tt \in Seq(S)
    PROVE  /\ <<d>> \o tt \in Seq(S) /\ <<d>> \o tt # <<>> /\ Len(<<d>> \o tt) = Len(tt) + 1
           /\ (<<d>> \o tt)[1] = d /\ \A k \in 1..Len(tt) : (<<d>> \o tt)[k + 1] = tt[k]
<1> DEFINE s == <<d>>
           r == s \o tt
           n == Len(tt)
<1>1. s \in Seq(S) /\ Len(s) = 1 /\ s[1] = d /\ n \in Nat
  OBVIOUS
<1> HIDE DEF s
<1>2. /\ r \in Seq(S) /\ Len(r) = Len(s) + Len(tt)
      /\ \A i \in 1..Len(s) + Len(tt) : r[i] = IF i <= Len(s) THEN s[i] ELSE tt[i - Len(s)]
  BY <1>1, Joined
<1> HIDE DEF r, n
<1>3. Len(r) = n + 1
  BY <1>1, <1>2 DEF n
<1>4. r[1] = d
  <2>1. 1 \in 1..Len(s) + n /\ 1 <= Len(s)
    BY <1>1
  <2>2. QED
    BY <1>1, <1>2, <2>1 DEF n
<1>5. ASSUME NEW k \in 1..n PROVE r[k + 1] = tt[k]
  <2>1. k + 1 \in 1..Len(s) + n /\ ~(k + 1 <= Len(s)) /\ (k + 1) - Len(s) = k
    BY <1>1
  <2>2. QED
    BY <1>2, <2>1 DEF n
<1>6. r # <<>>
  <2>1. Len(r) # 0
    BY <1>1, <1>3
  <2>2. QED
    BY <2>1
<1>7. QED
  BY <1>2, <1>3, <1>4, <1>5, <1>6 DEF r, s, n

\* Its bytes are in front of theirs.
LEMMA BytesFronted ==
    ASSUME NEW d \in Descriptor, NEW tt \in Seq(Descriptor)
    PROVE  /\ BytesOf(<<d>> \o tt) = d.bytes \o BytesOf(tt)
           /\ BytesOf(tt) \in Seq(Nat) /\ (tt = <<>> => BytesOf(tt) = <<>>)
<1> DEFINE ds == <<d>> \o tt
           n == Len(tt)
           B(s) == [k \in 1..Len(s) |-> s[k].bytes]
           x == B(ds)
           y == B(tt)
<1>1. /\ ds \in Seq(Descriptor) /\ Len(ds) = n + 1 /\ ds[1] = d
      /\ \A k \in 1..n : ds[k + 1] = tt[k]
  BY Fronted
<1>2. n \in Nat
  OBVIOUS
<1>3. BytesOf(ds) = FlattenSeq(x) /\ BytesOf(tt) = FlattenSeq(y)
  BY DEF BytesOf
<1> HIDE DEF ds
<1>4. x \in Seq(Seq(Nat)) /\ Len(x) = n + 1 /\ \A k \in 1..n + 1 : x[k] = ds[k].bytes
  BY <1>1, BytesSeq
<1>5. y \in Seq(Seq(Nat)) /\ Len(y) = n /\ \A k \in 1..n : y[k] = tt[k].bytes
  BY BytesSeq
<1> HIDE DEF x, y, n
<1>6. x # <<>>
  <2>1. Len(x) # 0
    BY <1>2, <1>4
  <2>2. QED
    BY <2>1
<1>7. Head(x) = d.bytes
  <2>1. Head(x) = x[1] /\ 1 \in 1..n + 1
    BY <1>2, <1>4, <1>6
  <2>2. QED
    BY <1>1, <1>4, <2>1
<1>8. Tail(x) = y
  <2> DEFINE z == Tail(x)
  <2>1. z \in Seq(Seq(Nat)) /\ Len(z) = Len(x) - 1 /\ \A k \in 1..Len(x) - 1 : z[k] = x[k + 1]
    BY <1>4, <1>6
  <2> HIDE DEF z
  <2>2. Len(z) = n
    BY <1>2, <1>4, <2>1
  <2>3. ASSUME NEW k \in 1..n PROVE z[k] = y[k]
    <3>1. k + 1 \in 1..n + 1 /\ k \in 1..Len(x) - 1
      BY <1>2, <1>4
    <3>2. z[k] = ds[k + 1].bytes
      BY <1>4, <2>1, <3>1
    <3>3. QED
      BY <1>1, <1>5, <3>2
  <2>4. z = y
    BY <1>5, <2>1, <2>2, <2>3, SeqEqual
  <2>5. QED
    BY <2>4 DEF z
<1>9. FlattenSeq(x) = Head(x) \o FlattenSeq(Tail(x))
  BY <1>4, <1>6, FlattenCons
<1>10. FlattenSeq(y) \in Seq(Nat)
  BY <1>5, FlattenType
<1>11. ASSUME tt = <<>> PROVE FlattenSeq(y) = <<>>
  <2>1. n = 0
    BY <1>11 DEF n
  <2>2. y = <<>>
    BY <1>5, <2>1
  <2>3. QED
    BY <2>2, FlattenEmpty
<1>12. QED
  BY <1>3, <1>7, <1>8, <1>9, <1>10, <1>11 DEF ds

\* Two parts of a sequence that meet.
LEMMA PartsMeet ==
    ASSUME NEW S, NEW s \in Seq(S), NEW a \in 1..Len(s), NEW b \in a..Len(s), NEW c \in b..Len(s)
    PROVE  SubSeq(s, a, b) \o SubSeq(s, b + 1, c) = SubSeq(s, a, c)
<1> DEFINE n == Len(s)
           x == SubSeq(s, a, b)
           y == SubSeq(s, b + 1, c)
           z == SubSeq(s, a, c)
           w == x \o y
<1>1. /\ n \in Nat /\ a \in 1..n /\ b \in a..n /\ c \in b..n
      /\ a \in 1..n + 1 /\ b \in a - 1..n /\ b + 1 \in 1..n + 1 /\ c \in (b + 1) - 1..n
      /\ c \in a - 1..n
  OBVIOUS
<1>2. x \in Seq(S) /\ Len(x) = b - a + 1 /\ \A j \in 1..b - a + 1 : x[j] = s[a + j - 1]
  BY <1>1, PartIs
<1>3. y \in Seq(S) /\ Len(y) = c - (b + 1) + 1
      /\ \A j \in 1..c - (b + 1) + 1 : y[j] = s[(b + 1) + j - 1]
  BY <1>1, PartIs
<1>4. z \in Seq(S) /\ Len(z) = c - a + 1 /\ \A j \in 1..c - a + 1 : z[j] = s[a + j - 1]
  BY <1>1, PartIs
<1> HIDE DEF x, y, z, n
<1>a. x \in Seq(S) /\ y \in Seq(S)
  BY <1>2, <1>3
<1>5. /\ w \in Seq(S) /\ Len(w) = Len(x) + Len(y)
      /\ \A i \in 1..Len(x) + Len(y) : w[i] = IF i <= Len(x) THEN x[i] ELSE y[i - Len(x)]
  BY <1>a, Joined
<1> HIDE DEF w
<1>6. Len(w) = c - a + 1
  BY <1>1, <1>2, <1>3, <1>5
<1>7. ASSUME NEW i \in 1..c - a + 1 PROVE w[i] = z[i]
  <2> DEFINE k == i - Len(x)
  <2>1. CASE i <= b - a + 1
    <3>0. Len(x) = b - a + 1 /\ Len(y) = c - (b + 1) + 1
      BY <1>2, <1>3
    <3>1. i \in 1..Len(x) + Len(y) /\ i <= Len(x) /\ i \in 1..b - a + 1
      BY <1>1, <2>1, <3>0
    <3>2. w[i] = x[i] /\ x[i] = s[a + i - 1]
      BY <1>2, <1>5, <3>1
    <3>3. QED
      BY <1>4, <3>2
  <2>2. CASE ~(i <= b - a + 1)
    <3>0. Len(x) = b - a + 1 /\ Len(y) = c - (b + 1) + 1
      BY <1>2, <1>3
    <3>1. i \in 1..Len(x) + Len(y) /\ ~(i <= Len(x)) /\ k \in 1..c - (b + 1) + 1
          /\ (b + 1) + k - 1 = a + i - 1
      BY <1>1, <2>2, <3>0
    <3>2. w[i] = y[k]
      BY <1>5, <3>1
    <3> HIDE DEF k
    <3>3. y[k] = s[a + i - 1]
      BY <1>3, <3>1
    <3>4. QED
      BY <1>4, <3>2, <3>3
  <2>3. QED
    BY <2>1, <2>2
<1>8. w = z
  BY <1>4, <1>5, <1>6, <1>7, SeqEqual
<1>9. QED
  BY <1>8 DEF w, x, y, z

\* What is known of a descriptor: it is marked when bytes of it are missing.
Marked(d) == d.truncated <=> Len(d.bytes) < d.length \/ d.length = 0

\* ds are the descriptors of the blob from byte i on.
Covers(ds, blob, i) ==
    /\ ds \in Seq(Descriptor)
    /\ i > Len(blob) => ds = <<>>
    /\ i <= Len(blob) =>
         /\ ds # <<>>
         /\ \E e \in i..Len(blob) :
              BytesOf(ds) = SubSeq(blob, i, e) /\ (e # Len(blob) => Last(ds).length = 0)
    /\ \A j \in 1..Len(ds) :
         Marked(ds[j]) /\ (ds[j].truncated => j = Len(ds))

\* d is cut from byte i of the blob, and a is where the walk goes on.
Closes(d, blob, i, a) ==
    \/ /\ a > Len(blob)
       /\ \/ d.bytes = SubSeq(blob, i, Len(blob))
          \/ d.bytes = SubSeq(blob, i, i) /\ d.length = 0
    \/ /\ ~d.truncated /\ a <= Len(blob) /\ a - 1 \in i..Len(blob)
       /\ d.bytes = SubSeq(blob, i, a - 1)

\* A descriptor of walk ends where the blob does, or where the next one begins.
LEMMA DescriptorIs ==
    ASSUME NEW blob \in Seq(Nat), NEW i \in 1..Len(blob)
    PROVE  /\ DescriptorAt(blob, i) \in Descriptor /\ Marked(DescriptorAt(blob, i))
           /\ After(blob, i) \in Nat \ {0}
           /\ Closes(DescriptorAt(blob, i), blob, i, After(blob, i))
<1> DEFINE d == DescriptorAt(blob, i)
           l == Len(blob)
           a == After(blob, i)
           n == blob[i]
           end == i + n - 1
           t == IF i < l THEN blob[i + 1] ELSE 0
<1>1. l \in Nat /\ i \in 1..l /\ n \in Nat
  OBVIOUS
<1>2. t \in Nat
  <2>1. CASE i < l
    <3>1. i + 1 \in 1..l
      BY <1>1, <2>1
    <3>2. QED
      BY <2>1, <3>1
  <2>2. CASE ~(i < l)
    BY <2>2
  <2>3. QED
    BY <2>1, <2>2
<1>3. /\ d.length = n /\ d.type = t
      /\ d.bytes = IF n = 0 THEN <<0>> ELSE SubSeq(blob, i, IF end > l THEN l ELSE end)
      /\ d.truncated = (n = 0 \/ end > l)
      /\ d = [length |-> d.length, type |-> d.type, bytes |-> d.bytes, truncated |-> d.truncated]
  BY DEF DescriptorAt, Cut
<1>4. a = IF n = 0 THEN l + 1 ELSE i + n
  BY DEF After
<1> HIDE DEF d, a, t, n, end, l
<1>5. ASSUME d.bytes \in Seq(Nat) PROVE d \in Descriptor
  <2>1. d.truncated \in BOOLEAN
    BY <1>3
  <2>2. QED
    BY <1>1, <1>2, <1>3, <1>5, <2>1 DEF Descriptor
<1>6. CASE n = 0
  <2>1. d.bytes = <<0>> /\ d.length = 0 /\ d.truncated /\ a = l + 1
    BY <1>3, <1>4, <1>6
  <2>2. <<0>> = SubSeq(blob, i, i)
    <3> DEFINE s == <<0>>
               u == SubSeq(blob, i, i)
    <3>1. s \in Seq(Nat) /\ Len(s) = 1 /\ s[1] = 0
      OBVIOUS
    <3>2. i \in 1..Len(blob) + 1 /\ i \in i - 1..Len(blob) /\ i - i + 1 = 1 /\ i + 1 - 1 = i
      BY <1>1 DEF l
    <3>3. u \in Seq(Nat) /\ Len(u) = 1 /\ u[1] = blob[i]
      <4>1. u \in Seq(Nat) /\ Len(u) = i - i + 1 /\ \A j \in 1..i - i + 1 : u[j] = blob[i + j - 1]
        BY <3>2, PartIs
      <4> HIDE DEF u
      <4>2. 1 \in 1..i - i + 1
        BY <3>2
      <4>3. QED
        BY <3>2, <4>1, <4>2
    <3>4. blob[i] = 0
      BY <1>6 DEF n
    <3> HIDE DEF s, u
    <3>5. s = u
      <4>1. \A j \in 1..Len(s) : s[j] = u[j]
        BY <3>1, <3>3, <3>4
      <4>2. QED
        BY <3>1, <3>3, <4>1, SeqEqual
    <3>6. QED
      BY <3>5 DEF s, u
  <2>3. d.bytes \in Seq(Nat)
    BY <2>1
  <2>4. Marked(d)
    BY <2>1 DEF Marked
  <2>5. a > l /\ a \in Nat \ {0}
    BY <1>1, <2>1
  <2>6. d \in Descriptor
    BY <1>5, <2>3
  <2>7. d.bytes = SubSeq(blob, i, i) /\ d.length = 0
    BY <2>1, <2>2
  <2>8. Closes(d, blob, i, a)
    BY <2>5, <2>7 DEF Closes, l
  <2>9. QED
    BY <2>4, <2>5, <2>6, <2>8 DEF d, a
<1>7. CASE n # 0 /\ end > l
  <2>1. d.bytes = SubSeq(blob, i, l) /\ d.truncated /\ a = i + n /\ d.length = n
    BY <1>3, <1>4, <1>7
  <2>2. i \in 1..Len(blob) + 1 /\ l \in i - 1..Len(blob)
    BY <1>1 DEF l
  <2>3. SubSeq(blob, i, l) \in Seq(Nat) /\ Len(SubSeq(blob, i, l)) = l - i + 1
    BY <2>2, PartIs
  <2>4. l - i + 1 < n /\ a > l /\ a \in Nat \ {0}
    BY <1>1, <1>7, <2>1 DEF end
  <2>5. d.bytes \in Seq(Nat) /\ Len(d.bytes) < d.length
    BY <2>1, <2>3, <2>4
  <2>6. Marked(d)
    BY <2>1, <2>5 DEF Marked
  <2>7. d \in Descriptor
    BY <1>5, <2>5
  <2>8. a > l /\ d.bytes = SubSeq(blob, i, l)
    BY <2>1, <2>4
  <2>9. a \in Nat \ {0}
    BY <2>4
  <2>10. Closes(d, blob, i, a)
    BY <2>8 DEF Closes, l
  <2>11. QED
    BY <2>6, <2>7, <2>9, <2>10 DEF d, a
<1>8. CASE n # 0 /\ ~(end > l)
  <2>1. d.bytes = SubSeq(blob, i, end) /\ ~d.truncated /\ a = i + n /\ d.length = n
    BY <1>3, <1>4, <1>8
  <2>2. i \in 1..Len(blob) + 1 /\ end \in i - 1..Len(blob) /\ end \in i..l /\ end - i + 1 = n
        /\ a - 1 = end /\ a \in Nat \ {0}
    BY <1>1, <1>8, <2>1 DEF l, end
  <2>3. SubSeq(blob, i, end) \in Seq(Nat) /\ Len(SubSeq(blob, i, end)) = end - i + 1
    BY <2>2, PartIs
  <2>5. d.bytes \in Seq(Nat) /\ ~(Len(d.bytes) < d.length) /\ d.length # 0
    <3>1. d.bytes \in Seq(Nat) /\ Len(d.bytes) = n
      BY <2>1, <2>2, <2>3
    <3>2. ~(n < n)
      BY <1>1
    <3>3. QED
      BY <1>8, <2>1, <3>1, <3>2
  <2>6. Marked(d)
    BY <2>1, <2>5 DEF Marked
  <2>7. d \in Descriptor
    BY <1>5, <2>5
  <2>8. CASE a <= l
    <3>1. ~d.truncated /\ a <= l /\ a - 1 \in i..l /\ d.bytes = SubSeq(blob, i, a - 1)
      BY <2>1, <2>2, <2>8
    <3>2. Closes(d, blob, i, a)
      BY <3>1 DEF Closes, l
    <3>3. QED
      BY <2>2, <2>6, <2>7, <3>2 DEF d, a
  <2>9. CASE ~(a <= l)
    <3>1. a > l /\ end = l
      BY <1>1, <2>2, <2>9
    <3>2. d.bytes = SubSeq(blob, i, l)
      BY <2>1, <3>1
    <3>3. a > l /\ a \in Nat \ {0}
      BY <2>2, <3>1
    <3>4. Closes(d, blob, i, a)
      BY <3>2, <3>3 DEF Closes, l
    <3>5. QED
      BY <2>6, <2>7, <3>3, <3>4 DEF d, a
  <2>10. QED
    BY <2>8, <2>9
<1>9. QED
  BY <1>6, <1>7, <1>8

\* One descriptor in front of those that cover the rest covers the whole.
LEMMA CoversOneMore ==
    ASSUME NEW blob \in Seq(Nat), NEW i \in 1..Len(blob), NEW tt,
           Covers(tt, blob, After(blob, i))
    PROVE  Covers(<<DescriptorAt(blob, i)>> \o tt, blob, i)
<1> DEFINE d == DescriptorAt(blob, i)
           a == After(blob, i)
           l == Len(blob)
           n == Len(tt)
           ds == <<d>> \o tt
<1>1. d \in Descriptor /\ Marked(d) /\ a \in Nat \ {0} /\ Closes(d, blob, i, a)
  BY DescriptorIs
<1>2. /\ tt \in Seq(Descriptor)
      /\ a > l => tt = <<>>
      /\ a <= l => tt # <<>>
      /\ \A j \in 1..n : Marked(tt[j]) /\ (tt[j].truncated => j = n)
  BY DEF Covers
<1>3. ASSUME a <= l
      PROVE  \E e \in a..l : BytesOf(tt) = SubSeq(blob, a, e) /\ (e # l => Last(tt).length = 0)
  BY <1>3 DEF Covers
<1>4. l \in Nat /\ i \in 1..l /\ n \in Nat
  BY <1>2
<1> HIDE DEF d, a
<1>5. /\ ds \in Seq(Descriptor) /\ ds # <<>> /\ Len(ds) = n + 1 /\ ds[1] = d
      /\ \A k \in 1..n : ds[k + 1] = tt[k]
  BY <1>1, <1>2, Fronted
<1>6. BytesOf(ds) = d.bytes \o BytesOf(tt) /\ (tt = <<>> => BytesOf(tt) = <<>>)
  BY <1>1, <1>2, BytesFronted
<1>b. d.bytes \in Seq(Nat)
  BY <1>1 DEF Descriptor
<1> HIDE DEF ds, n, l
<1>7. CASE a > l
  <2>1. tt = <<>> /\ n = 0
    BY <1>2, <1>7 DEF n
  <2>2. BytesOf(ds) = d.bytes
    <3> DEFINE b == d.bytes
    <3>1. b \in Seq(Nat)
      BY <1>b
    <3> HIDE DEF b
    <3>2. b \o <<>> = b
      BY <3>1
    <3>3. QED
      BY <1>6, <2>1, <3>2 DEF b
  <2>3. \/ d.bytes = SubSeq(blob, i, l)
        \/ d.bytes = SubSeq(blob, i, i) /\ d.length = 0
    BY <1>1, <1>4, <1>7 DEF Closes, l
  <2>4. Last(ds) = d
    <3>1. Len(ds) = 1
      BY <1>5, <2>1
    <3>2. QED
      BY <1>5, <3>1 DEF Last
  <2>5. \E e \in i..l : BytesOf(ds) = SubSeq(blob, i, e) /\ (e # l => Last(ds).length = 0)
    <3>1. i \in i..l /\ l \in i..l
      BY <1>4
    <3>2. CASE d.bytes = SubSeq(blob, i, l)
      <4>1. BytesOf(ds) = SubSeq(blob, i, l) /\ (l # l => Last(ds).length = 0)
        BY <2>2, <3>2
      <4>2. QED
        BY <3>1, <4>1
    <3>3. CASE d.bytes = SubSeq(blob, i, i) /\ d.length = 0
      <4>1. BytesOf(ds) = SubSeq(blob, i, i) /\ (i # l => Last(ds).length = 0)
        BY <2>2, <2>4, <3>3
      <4>2. QED
        BY <3>1, <4>1
    <3>4. QED
      BY <2>3, <3>2, <3>3
  <2>6. \A j \in 1..Len(ds) : Marked(ds[j]) /\ (ds[j].truncated => j = Len(ds))
    <3>1. Len(ds) = 1 /\ \A j \in 1..1 : j = 1
      BY <1>5, <2>1
    <3>2. QED
      BY <1>1, <1>5, <3>1
  <2>7. i <= l /\ ~(i > l)
    BY <1>4
  <2>8. QED
    BY <1>5, <2>5, <2>6, <2>7 DEF Covers, ds, d, l
<1>8. CASE ~(a > l)
  <2>1. a <= l /\ tt # <<>>
    BY <1>1, <1>2, <1>4, <1>8
  <2>2. ~d.truncated /\ a - 1 \in i..l /\ d.bytes = SubSeq(blob, i, a - 1)
    BY <1>1, <1>8 DEF Closes, l
  <2>3. PICK e \in a..l : BytesOf(tt) = SubSeq(blob, a, e) /\ (e # l => Last(tt).length = 0)
    BY <1>3, <2>1
  <2>4. e \in i..l /\ e \in a - 1..l /\ (a - 1) + 1 = a
    BY <1>1, <1>4, <2>1, <2>2
  <2>5. BytesOf(ds) = SubSeq(blob, i, e)
    <3>1. SubSeq(blob, i, a - 1) \o SubSeq(blob, (a - 1) + 1, e) = SubSeq(blob, i, e)
      <4>1. i \in 1..Len(blob) /\ a - 1 \in i..Len(blob) /\ e \in a - 1..Len(blob)
        BY <1>4, <2>2, <2>4 DEF l
      <4>2. QED
        BY <4>1, PartsMeet
    <3>2. QED
      BY <1>6, <2>2, <2>3, <2>4, <3>1
  <2>6. n >= 1 /\ n \in 1..n
    <3>1. Len(tt) # 0
      BY <1>2, <2>1
    <3>2. n # 0
      BY <3>1 DEF n
    <3>3. QED
      BY <1>4, <3>2
  <2>7. Last(ds) = Last(tt)
    <3>1. ds[n + 1] = tt[n]
      BY <1>5, <2>6
    <3>2. QED
      BY <1>5, <3>1 DEF Last, n
  <2>8. ASSUME NEW j \in 1..n + 1
        PROVE  Marked(ds[j]) /\ (ds[j].truncated => j = n + 1)
    <3>1. CASE j = 1
      BY <1>1, <1>5, <2>2, <3>1
    <3>2. CASE j # 1
      <4>1. j - 1 \in 1..n /\ (j - 1) + 1 = j
        BY <1>4, <3>2
      <4>2. ds[j] = tt[j - 1]
        BY <1>5, <4>1
      <4>3. Marked(tt[j - 1]) /\ (tt[j - 1].truncated => j - 1 = n)
        BY <1>2, <4>1
      <4>4. j - 1 = n => j = n + 1
        BY <1>4, <4>1
      <4>5. QED
        BY <4>2, <4>3, <4>4
    <3>3. QED
      BY <3>1, <3>2
  <2>9. i <= l /\ ~(i > l)
    BY <1>4
  <2>10. \E f \in i..l : BytesOf(ds) = SubSeq(blob, i, f) /\ (f # l => Last(ds).length = 0)
    BY <2>3, <2>4, <2>5, <2>7
  <2>11. QED
    BY <1>5, <2>8, <2>9, <2>10 DEF Covers, ds, d, l
<1>9. QED
  BY <1>7, <1>8

\* So walk covers the blob from every byte on.
LEMMA WalksCover ==
    ASSUME NEW blob \in Seq(Nat), NEW f, Walks(blob, f)
    PROVE  \A i \in Nat \ {0} : Covers(f[i], blob, i)
<1> DEFINE l == Len(blob)
           P == Nat \ {0}
           C(i) == Covers(f[i], blob, i)
           N == {n \in Nat : \A i \in P : i > l - n => C(i)}
<1>1. l \in Nat
  OBVIOUS
<1>2. \A i \in P : i > l => C(i)
  <2> TAKE i \in P
  <2> SUFFICES ASSUME i > l PROVE C(i)
    OBVIOUS
  <2>1. f[i] = <<>>
    BY DEF Walks
  <2> DEFINE ds == f[i]
  <2> HIDE DEF ds
  <2>2. ds = <<>>
    BY <2>1 DEF ds
  <2>3. ds \in Seq(Descriptor) /\ Len(ds) = 0
    BY <2>2
  <2>4. ~(i <= l)
    BY <1>1
  <2>5. \A j \in 1..Len(ds) : FALSE
    BY <2>3
  <2> HIDE DEF l
  <2>6. QED
    BY <2>2, <2>3, <2>4, <2>5 DEF Covers, ds, l
<1>3. \A i \in P : i <= l /\ C(After(blob, i)) => C(i)
  <2> TAKE i \in P
  <2> SUFFICES ASSUME i <= l, C(After(blob, i)) PROVE C(i)
    OBVIOUS
  <2>1. i \in 1..Len(blob) /\ ~(i > Len(blob))
    BY <1>1
  <2>2. f[i] = <<DescriptorAt(blob, i)>> \o f[After(blob, i)]
    BY <2>1 DEF Walks
  <2>3. Covers(<<DescriptorAt(blob, i)>> \o f[After(blob, i)], blob, i)
    BY <2>1, CoversOneMore
  <2>4. QED
    BY <2>2, <2>3
<1> HIDE DEF C
<1>4. 0 \in N
  BY <1>1, <1>2
<1>5. ASSUME NEW n \in Nat, n \in N
      PROVE  n + 1 \in N
  <2> SUFFICES ASSUME NEW i \in P, i > l - (n + 1)
               PROVE  C(i)
    OBVIOUS
  <2>1. \A j \in P : j > l - n => C(j)
    BY <1>5
  <2>2. CASE i > l
    BY <1>2, <2>2
  <2>3. CASE ~(i > l)
    <3>1. i \in 1..Len(blob) /\ i <= l
      BY <1>1, <2>3
    <3>2. After(blob, i) \in P /\ After(blob, i) > i
      BY <3>1, AfterIs
    <3> DEFINE a == After(blob, i)
    <3> HIDE DEF l, a
    <3>3. a \in P /\ a > i
      BY <3>2 DEF a
    <3>4. a > l - n
      BY <1>1, <3>3
    <3>5. C(a)
      BY <2>1, <3>3, <3>4
    <3>6. QED
      BY <1>3, <3>1, <3>5 DEF a
  <2>4. QED
    BY <2>2, <2>3
<1> HIDE DEF N
<1>6. Nat \subseteq N
  BY <1>4, <1>5, NatInductionOnSets
<1>7. \A i \in P : i > l - l
  BY <1>1
<1>8. l \in N
  BY <1>1, <1>6
<1> HIDE DEF l
<1>9. \A i \in P : C(i)
  BY <1>7, <1>8 DEF N
<1>10. QED
  BY <1>9 DEF C

\* Walk covers a blob.
LEMMA WalkCovers ==
    ASSUME NEW blob \in Seq(Nat)
    PROVE  Covers(Walk(blob), blob, 1)
<1>1. PICK f : Walks(blob, f) /\ Walk(blob) = f[1]
  BY WalkIs
<1>2. 1 \in Nat \ {0}
  OBVIOUS
<1>3. Covers(f[1], blob, 1)
  BY <1>1, <1>2, WalksCover
<1>4. QED
  BY <1>1, <1>3

\* What a device sends is a blob.
LEMMA SentIsBlob == Sending => [](sent \in Seq(Nat))
<1>1. NothingSent => sent \in Seq(Nat)
  BY DEF NothingSent
<1>2. sent \in Seq(Nat) /\ [SendByte]_sent => (sent \in Seq(Nat))'
  <2> SUFFICES ASSUME sent \in Seq(Nat), [SendByte]_sent
               PROVE  sent' \in Seq(Nat)
    OBVIOUS
  <2>1. CASE SendByte
    <3>1. PICK b \in Bytes : sent' = Append(sent, b)
      BY <2>1 DEF SendByte
    <3>2. b \in Nat
      BY DescriptorAssumption
    <3>3. QED
      BY <3>1, <3>2
  <2>2. CASE UNCHANGED sent
    BY <2>2
  <2>3. QED
    BY <2>1, <2>2
<1>3. QED
  BY <1>1, <1>2, PTL DEF Sending

LEMMA CoversGives ==
    ASSUME sent \in Seq(Nat)
    PROVE  WalkCoversBlob
<1> DEFINE ds == Walk(sent)
           l == Len(sent)
           b == BytesOf(ds)
<1>1. Covers(ds, sent, 1)
  BY WalkCovers
<1>2. l \in Nat
  OBVIOUS
<1>3. \A j \in 1..Len(ds) : Marked(ds[j]) /\ (ds[j].truncated => j = Len(ds))
  BY <1>1 DEF Covers
<1> HIDE DEF ds
<1>4. IsPrefix(b, sent) /\ (b # sent => Last(ds).length = 0)
  <2>1. CASE l = 0
    <3>1. sent = <<>> /\ 1 > l
      BY <2>1
    <3>2. ds = <<>>
      BY <1>1, <3>1 DEF Covers
    <3>3. b = <<>>
      <4> DEFINE x == [i \in 1..Len(ds) |-> ds[i].bytes]
      <4>1. ds \in Seq(Descriptor)
        BY <1>1 DEF Covers
      <4>2. x \in Seq(Seq(Nat)) /\ Len(x) = Len(ds)
        BY <4>1, BytesSeq
      <4>3. Len(ds) = 0
        BY <3>2
      <4>4. b = FlattenSeq(x)
        BY DEF BytesOf
      <4> HIDE DEF x
      <4>5. x = <<>>
        BY <4>2, <4>3
      <4>6. QED
        BY <4>4, <4>5, FlattenEmpty
    <3> HIDE DEF b
    <3>4. IsPrefix(b, sent)
      <4>1. Len(b) = 0 /\ Len(sent) = 0
        BY <3>1, <3>3
      <4>2. SubSeq(b, 1, 0) = <<>> /\ SubSeq(sent, 1, 0) = <<>>
        <5>1. b \in Seq(Nat)
          BY <3>3
        <5>2. QED
          BY <5>1, PartEmpty
      <4>3. QED
        BY <4>1, <4>2 DEF IsPrefix
    <3>5. QED
      BY <3>1, <3>3, <3>4
  <2>2. CASE l # 0
    <3>1. 1 <= l /\ 1 \in 1..l /\ 1 \in 1..l + 1
      BY <1>2, <2>2
    <3>2. PICK e \in 1..l : b = SubSeq(sent, 1, e) /\ (e # l => Last(ds).length = 0)
      BY <1>1, <3>1 DEF Covers
    <3>3. e \in 1 - 1..l /\ e - 1 + 1 = e /\ e <= l
      BY <1>2
    <3>4. b \in Seq(Nat) /\ Len(b) = e
      <4> DEFINE c == SubSeq(sent, 1, e)
      <4>1. c \in Seq(Nat) /\ Len(c) = e - 1 + 1
        BY <3>1, <3>3, PartIs
      <4> HIDE DEF c
      <4>2. b = c
        BY <3>2 DEF c
      <4> HIDE DEF b
      <4>3. QED
        BY <3>3, <4>1, <4>2
    <3> HIDE DEF b
    <3>5. SubSeq(b, 1, Len(b)) = b
      BY <3>4, PartWhole
    <3>6. IsPrefix(b, sent)
      BY <3>2, <3>3, <3>4, <3>5 DEF IsPrefix
    <3>7. e = l => b = sent
      BY <3>2, PartWhole
    <3>8. QED
      BY <3>2, <3>6, <3>7
  <2>3. QED
    BY <2>1, <2>2
<1>5. QED
  BY <1>3, <1>4 DEF WalkCoversBlob, Marked, ds

(* walk loses no byte of what a device sends, invents none, and marks what *)
(* is cut short, whatever lengths the device declares.                     *)
THEOREM WalkLosesNothing == Sending => []WalkCoversBlob
<1>1. sent \in Seq(Nat) => WalkCoversBlob
  BY CoversGives
<1>2. QED
  BY <1>1, SentIsBlob, PTL

-----------------------------------------------------------------------------
(* Configuration::parse.                                                   *)

\* A sequence with one element more.
LEMMA OneMore ==
    ASSUME NEW S, NEW ds \in Seq(S), NEW d \in S
    PROVE  /\ Append(ds, d) \in Seq(S) /\ Len(Append(ds, d)) = Len(ds) + 1 /\ Len(ds) \in Nat
           /\ Append(ds, d)[Len(ds) + 1] = d
           /\ \A i \in 1..Len(ds) : Append(ds, d)[i] = ds[i] /\ ds[i] \in S
  BY AppendProperties

\* The fields of a descriptor that is long enough are bytes.
LEMMA FieldsType ==
    ASSUME NEW d \in Descriptor
    PROVE  /\ IsEndpoint(d) => Fields(d, EndpointLen) \in Seq(Nat)
           /\ IsInterface(d) => Fields(d, InterfaceLen) \in Seq(Nat)
<1> DEFINE b == d.bytes
<1>1. b \in Seq(Nat)
  BY DEF Descriptor
<1>2. ASSUME NEW n \in Nat, n > 2, Len(b) >= n
      PROVE  SubSeq(b, 3, n) \in Seq(Nat)
  <2> DEFINE l == Len(b)
  <2>1. l \in Nat /\ l >= n
    BY <1>1, <1>2
  <2> HIDE DEF l
  <2>2. 3 \in 1..l + 1 /\ n \in 3 - 1..l
    BY <1>2, <2>1
  <2> HIDE DEF b
  <2>3. QED
    BY <1>1, <2>2, PartIs DEF l
<1>3. /\ EndpointLen \in Nat /\ EndpointLen > 2 /\ InterfaceLen \in Nat /\ InterfaceLen > 2
  BY DescriptorAssumption
<1> HIDE DEF b
<1>4. /\ IsEndpoint(d) => Len(b) >= EndpointLen
      /\ IsInterface(d) => Len(b) >= InterfaceLen
  BY DEF IsEndpoint, IsInterface, b
<1>5. /\ IsEndpoint(d) => SubSeq(b, 3, EndpointLen) \in Seq(Nat)
      /\ IsInterface(d) => SubSeq(b, 3, InterfaceLen) \in Seq(Nat)
  BY <1>2, <1>3, <1>4
<1>6. QED
  BY <1>5 DEF Fields, b

LEMMA OneElement ==
    ASSUME NEW S, NEW d \in S
    PROVE  <<d>> \in Seq(S) /\ <<>> \in Seq(S)
  OBVIOUS

\* The headings, with a descriptor more.
LEMMA HeadingsMore ==
    ASSUME NEW ds \in Seq(Descriptor), NEW d \in Descriptor
    PROVE  /\ Headings(Append(ds, d)) = Headings(ds) \o (IF IsInterface(d) THEN <<Len(ds) + 1>> ELSE <<>>)
           /\ Headings(ds) \in Seq(Nat)
<1> DEFINE n == Len(ds)
           es == Append(ds, d)
           h(s, i) == IF IsInterface(s[i]) THEN <<i>> ELSE <<>>
           x == [i \in 1..n |-> h(ds, i)]
           y == [i \in 1..n + 1 |-> h(es, i)]
<1>1. /\ es \in Seq(Descriptor) /\ Len(es) = n + 1 /\ n \in Nat /\ es[n + 1] = d
      /\ \A i \in 1..n : es[i] = ds[i] /\ ds[i] \in Descriptor
  BY OneMore
<1>2. Headings(ds) = FlattenSeq(x)
  BY DEF Headings
<1> HIDE DEF es
<1>3. Headings(es) = FlattenSeq(y)
  BY <1>1 DEF Headings
<1>4. \A i \in 1..n : h(es, i) = h(ds, i)
  BY <1>1
<1>5. h(es, n + 1) = IF IsInterface(d) THEN <<n + 1>> ELSE <<>>
  BY <1>1
<1> HIDE DEF n
<1>6. \A i \in 1..n + 1 : h(es, i) \in Seq(Nat)
  <2>1. ASSUME NEW i \in 1..n + 1 PROVE h(es, i) \in Seq(Nat)
    <3>1. es[i] \in Descriptor /\ i \in Nat
      BY <1>1
    <3>2. QED
      BY <3>1, Zenon, OneElement
  <2>2. QED
    BY <2>1
<1> HIDE DEF h
<1>7. Longer(y, x, n, Nat)
  BY <1>1, <1>4, <1>6 DEF Longer
<1>8. y[n + 1] = h(es, n + 1)
  BY <1>1
<1> HIDE DEF x, y
<1>9. FlattenSeq(y) = FlattenSeq(x) \o y[n + 1] /\ FlattenSeq(x) \in Seq(Nat)
  BY <1>1, <1>7, OnePieceMore
<1>10. QED
  BY <1>2, <1>3, <1>5, <1>8, <1>9 DEF es, n

\* The endpoints, with a descriptor more.
LEMMA EndpointsMore ==
    ASSUME NEW ds \in Seq(Descriptor), NEW d \in Descriptor
    PROVE  /\ EndpointsIn(Append(ds, d)) = EndpointsIn(ds) \o (IF IsEndpoint(d) THEN <<Fields(d, EndpointLen)>> ELSE <<>>)
           /\ EndpointsIn(ds) \in Seq(Seq(Nat))
<1> DEFINE n == Len(ds)
           es == Append(ds, d)
           h(s, i) == IF IsEndpoint(s[i]) THEN <<Fields(s[i], EndpointLen)>> ELSE <<>>
           x == [i \in 1..n |-> h(ds, i)]
           y == [i \in 1..n + 1 |-> h(es, i)]
<1>1. /\ es \in Seq(Descriptor) /\ Len(es) = n + 1 /\ n \in Nat /\ es[n + 1] = d
      /\ \A i \in 1..n : es[i] = ds[i] /\ ds[i] \in Descriptor
  BY OneMore
<1>2. EndpointsIn(ds) = FlattenSeq(x)
  BY DEF EndpointsIn
<1> HIDE DEF es
<1>3. EndpointsIn(es) = FlattenSeq(y)
  BY <1>1 DEF EndpointsIn
<1>4. \A i \in 1..n : h(es, i) = h(ds, i)
  BY <1>1
<1>5. h(es, n + 1) = IF IsEndpoint(d) THEN <<Fields(d, EndpointLen)>> ELSE <<>>
  BY <1>1
<1> HIDE DEF n
<1>6. \A i \in 1..n + 1 : h(es, i) \in Seq(Seq(Nat))
  <2>1. ASSUME NEW i \in 1..n + 1 PROVE h(es, i) \in Seq(Seq(Nat))
    <3>1. es[i] \in Descriptor
      BY <1>1
    <3>2. QED
      BY <3>1, FieldsType, OneElement
  <2>2. QED
    BY <2>1
<1> HIDE DEF h
<1>7. Longer(y, x, n, Seq(Nat))
  BY <1>1, <1>4, <1>6 DEF Longer
<1>8. y[n + 1] = h(es, n + 1)
  BY <1>1
<1> HIDE DEF x, y
<1>9. FlattenSeq(y) = FlattenSeq(x) \o y[n + 1] /\ FlattenSeq(x) \in Seq(Seq(Nat))
  BY <1>1, <1>7, OnePieceMore
<1>10. QED
  BY <1>2, <1>3, <1>5, <1>8, <1>9 DEF es, n

\* The others, with a descriptor more.
LEMMA OthersMore ==
    ASSUME NEW ds \in Seq(Descriptor), NEW d \in Descriptor
    PROVE  /\ OthersIn(Append(ds, d)) = OthersIn(ds) \o (IF IsEndpoint(d) THEN <<>> ELSE <<d>>)
           /\ OthersIn(ds) \in Seq(Descriptor)
<1> DEFINE n == Len(ds)
           es == Append(ds, d)
           h(s, i) == IF IsEndpoint(s[i]) THEN <<>> ELSE <<s[i]>>
           x == [i \in 1..n |-> h(ds, i)]
           y == [i \in 1..n + 1 |-> h(es, i)]
<1>1. /\ es \in Seq(Descriptor) /\ Len(es) = n + 1 /\ n \in Nat /\ es[n + 1] = d
      /\ \A i \in 1..n : es[i] = ds[i] /\ ds[i] \in Descriptor
  BY OneMore
<1>2. OthersIn(ds) = FlattenSeq(x)
  BY DEF OthersIn
<1> HIDE DEF es
<1>3. OthersIn(es) = FlattenSeq(y)
  BY <1>1 DEF OthersIn
<1>4. \A i \in 1..n : h(es, i) = h(ds, i)
  BY <1>1
<1>5. h(es, n + 1) = IF IsEndpoint(d) THEN <<>> ELSE <<d>>
  BY <1>1
<1> HIDE DEF n
<1>6. \A i \in 1..n + 1 : h(es, i) \in Seq(Descriptor)
  <2>1. ASSUME NEW i \in 1..n + 1 PROVE h(es, i) \in Seq(Descriptor)
    <3>1. es[i] \in Descriptor
      BY <1>1
    <3>2. QED
      BY <3>1, Zenon, OneElement
  <2>2. QED
    BY <2>1
<1> HIDE DEF h
<1>7. Longer(y, x, n, Descriptor)
  BY <1>1, <1>4, <1>6 DEF Longer
<1>8. y[n + 1] = h(es, n + 1)
  BY <1>1
<1> HIDE DEF x, y
<1>9. FlattenSeq(y) = FlattenSeq(x) \o y[n + 1] /\ FlattenSeq(x) \in Seq(Descriptor)
  BY <1>1, <1>7, OnePieceMore
<1>10. QED
  BY <1>2, <1>3, <1>5, <1>8, <1>9 DEF es, n

\* Each heading is the number of a descriptor.
LEMMA HeadingsType ==
    ASSUME NEW ds \in Seq(Descriptor)
    PROVE  Headings(ds) \in Seq(1..Len(ds))
<1> DEFINE n == Len(ds)
           h(i) == IF IsInterface(ds[i]) THEN <<i>> ELSE <<>>
           x == [i \in 1..n |-> h(i)]
<1>1. n \in Nat
  OBVIOUS
<1>2. Headings(ds) = FlattenSeq(x)
  BY DEF Headings
<1>3. \A i \in 1..n : h(i) \in Seq(1..n)
  <2> HIDE DEF n
  <2>1. QED
    BY OneElement
<1> HIDE DEF h, n
<1>4. x = [i \in 1..n |-> x[i]] /\ \A i \in 1..n : x[i] \in Seq(1..n)
  BY <1>3
<1> HIDE DEF x
<1>5. x \in Seq(Seq(1..n))
  BY <1>1, <1>4, Listed
<1>6. FlattenSeq(x) \in Seq(1..n)
  BY <1>5, FlattenType
<1>7. QED
  BY <1>2, <1>6 DEF n

\* gs are the headings hs and one at n + 1.
Opened(gs, hs, n) ==
    /\ Len(gs) = Len(hs) + 1 /\ gs[Len(hs) + 1] = n + 1
    /\ \A k \in 1..Len(hs) : gs[k] = hs[k]

LEMMA HeadingsOpened ==
    ASSUME NEW ds \in Seq(Descriptor), NEW d \in Descriptor
    PROVE  /\ IsInterface(d) => Opened(Headings(Append(ds, d)), Headings(ds), Len(ds))
           /\ ~ IsInterface(d) => Headings(Append(ds, d)) = Headings(ds)
<1> DEFINE n == Len(ds)
           hs == Headings(ds)
           gs == Headings(Append(ds, d))
           e == <<n + 1>>
<1>1. n \in Nat
  OBVIOUS
<1>2. hs \in Seq(Nat) /\ gs = hs \o (IF IsInterface(d) THEN e ELSE <<>>)
  BY HeadingsMore
<1> HIDE DEF n, hs, gs
<1>3. e \in Seq(Nat) /\ Len(e) = 1 /\ e[1] = n + 1
  BY <1>1
<1> HIDE DEF e
<1>4. CASE IsInterface(d)
  <2> DEFINE K == Len(hs)
  <2>1. gs = hs \o e
    BY <1>2, <1>4
  <2>2. /\ Len(hs \o e) = Len(hs) + Len(e)
        /\ \A i \in 1..Len(hs) + Len(e) :
             (hs \o e)[i] = IF i <= Len(hs) THEN hs[i] ELSE e[i - Len(hs)]
    BY <1>2, <1>3, Joined
  <2>3. K \in Nat
    BY <1>2
  <2>4. /\ Len(gs) = K + 1
        /\ \A i \in 1..K + 1 : gs[i] = IF i <= K THEN hs[i] ELSE e[i - K]
    BY <1>3, <2>1, <2>2
  <2> HIDE DEF K
  <2>5. (K + 1) - K = 1 /\ ~ (K + 1 <= K) /\ K + 1 \in 1..K + 1
    BY <2>3
  <2>6. gs[K + 1] = n + 1
    BY <1>3, <2>4, <2>5
  <2>7. \A k \in 1..K : k \in 1..K + 1 /\ k <= K
    BY <2>3
  <2>8. \A k \in 1..K : gs[k] = hs[k]
    BY <2>4, <2>7
  <2>9. QED
    BY <1>4, <2>4, <2>6, <2>8 DEF Opened, K, n, hs, gs
<1>5. CASE ~ IsInterface(d)
  <2>1. gs = hs \o <<>> /\ hs \o <<>> = hs
    BY <1>2, <1>5
  <2>2. QED
    BY <1>5, <2>1 DEF hs, gs
<1>6. QED
  BY <1>4, <1>5

\* A part of ds is that part of ds with a descriptor more.
LEMMA PartSame ==
    ASSUME NEW ds \in Seq(Descriptor), NEW d \in Descriptor,
           NEW a \in 1..Len(ds) + 1, NEW b \in 0..Len(ds)
    PROVE  /\ SubSeq(Append(ds, d), a, b) = SubSeq(ds, a, b)
           /\ SubSeq(ds, a, b) \in Seq(Descriptor)
<1> DEFINE n == Len(ds)
           es == Append(ds, d)
           x == SubSeq(ds, a, b)
           y == SubSeq(es, a, b)
<1>1. /\ es \in Seq(Descriptor) /\ Len(es) = n + 1 /\ n \in Nat
      /\ \A i \in 1..n : es[i] = ds[i]
  BY OneMore
<1>2. a \in 1..n + 1 /\ b \in 0..n
  OBVIOUS
<1> HIDE DEF n, es
<1>3. CASE b < a
  <2>1. x = <<>> /\ y = <<>>
    BY <1>1, <1>2, <1>3, PartEmpty
  <2>2. QED
    BY <2>1 DEF es
<1>4. CASE b >= a
  <2>1. /\ a \in 1..Len(ds) + 1 /\ b \in a - 1..Len(ds)
        /\ a \in 1..Len(es) + 1 /\ b \in a - 1..Len(es)
    BY <1>1, <1>2, <1>4 DEF n
  <2>2. /\ x \in Seq(Descriptor) /\ Len(x) = b - a + 1
        /\ \A j \in 1..b - a + 1 : x[j] = ds[a + j - 1]
    BY ONLY ds \in Seq(Descriptor), <2>1, PartIs
  <2>3. /\ y \in Seq(Descriptor) /\ Len(y) = b - a + 1
        /\ \A j \in 1..b - a + 1 : y[j] = es[a + j - 1]
    BY ONLY <1>1, <2>1, PartIs
  <2>4. \A j \in 1..b - a + 1 : a + j - 1 \in 1..n
    BY <1>1, <1>2, <1>4
  <2> HIDE DEF x, y
  <2>5. \A j \in 1..b - a + 1 : x[j] = y[j]
    BY <1>1, <2>2, <2>3, <2>4
  <2>6. x = y
    BY <2>2, <2>3, <2>5, SeqEqual
  <2>7. QED
    BY <2>2, <2>6 DEF x, y, es
<1>5. QED
  BY <1>2, <1>3, <1>4

\* Where the descriptors under heading k begin and end.
First(hs, k)   == IF k = 0 THEN 1 ELSE hs[k] + 1
Final(hs, n, k) == IF k = Len(hs) THEN n ELSE hs[k + 1] - 1

LEMMA UnderIs ==
    ASSUME NEW ds \in Seq(Descriptor), NEW k \in 0..Len(Headings(ds))
    PROVE  LET hs == Headings(ds) IN
           /\ Under(ds, k) = SubSeq(ds, First(hs, k), Final(hs, Len(ds), k))
           /\ First(hs, k) \in 1..Len(ds) + 1 /\ Final(hs, Len(ds), k) \in 0..Len(ds)
<1> DEFINE hs == Headings(ds)
           n == Len(ds)
           K == Len(hs)
<1>1. Under(ds, k) = SubSeq(ds, First(hs, k), Final(hs, n, k))
  BY DEF Under, First, Final
<1>2. hs \in Seq(1..n) /\ n \in Nat
  BY HeadingsType
<1>3. k \in 0..K
  OBVIOUS
<1> HIDE DEF hs, n
<1>4. K \in Nat /\ \A i \in 1..K : hs[i] \in 1..n
  BY <1>2
<1> HIDE DEF K
<1>5. First(hs, k) \in 1..n + 1
  <2>1. k # 0 => k \in 1..K
    BY <1>3, <1>4
  <2>2. QED
    BY <1>2, <1>4, <2>1 DEF First
<1>6. Final(hs, n, k) \in 0..n
  <2>1. k # K => k + 1 \in 1..K
    BY <1>3, <1>4
  <2>2. QED
    BY <1>2, <1>4, <2>1 DEF Final, K
<1>7. QED
  BY <1>1, <1>5, <1>6 DEF hs, n

LEMMA UnderType ==
    ASSUME NEW ds \in Seq(Descriptor), NEW k \in 0..Len(Headings(ds))
    PROVE  Under(ds, k) \in Seq(Descriptor)
<1> DEFINE a == First(Headings(ds), k)
           b == Final(Headings(ds), Len(ds), k)
<1>1. Under(ds, k) = SubSeq(ds, a, b) /\ a \in 1..Len(ds) + 1 /\ b \in 0..Len(ds)
  BY UnderIs
<1> HIDE DEF a, b
<1>2. CASE b < a
  BY <1>1, <1>2, PartEmpty
<1>3. CASE b >= a
  <2>1. b \in a - 1..Len(ds)
    BY <1>1, <1>3
  <2>2. SubSeq(ds, a, b) \in Seq(Descriptor)
    BY ONLY ds \in Seq(Descriptor), <1>1, <2>1, PartIs
  <2>3. QED
    BY <1>1, <2>2
<1>4. QED
  BY <1>1, <1>2, <1>3

\* An interface descriptor opens a heading with nothing under it.
LEMMA UnderOpened ==
    ASSUME NEW ds \in Seq(Descriptor), NEW d \in Descriptor, IsInterface(d)
    PROVE  LET es == Append(ds, d)
               K  == Len(Headings(ds))
           IN  /\ \A k \in 0..K : Under(es, k) = Under(ds, k)
               /\ Under(es, K + 1) = <<>>
<1> DEFINE es == Append(ds, d)
           hs == Headings(ds)
           gs == Headings(es)
           n == Len(ds)
           K == Len(hs)
<1>1. n \in Nat /\ es \in Seq(Descriptor) /\ Len(es) = n + 1
  BY OneMore
<1>2. Opened(gs, hs, n)
  BY HeadingsOpened
<1>3. K \in Nat
  BY HeadingsType
<1>4. \A a \in 1..n + 1, b \in 0..n : SubSeq(es, a, b) = SubSeq(ds, a, b)
  BY PartSame
<1>5. \A k \in 0..K : /\ Under(ds, k) = SubSeq(ds, First(hs, k), Final(hs, n, k))
                      /\ First(hs, k) \in 1..n + 1 /\ Final(hs, n, k) \in 0..n
  BY UnderIs
<1>6. \A k : Under(es, k) = SubSeq(es, First(gs, k), Final(gs, n + 1, k))
  BY <1>1 DEF Under, First, Final
<1> HIDE DEF es, n, hs, gs
<1>7. Len(gs) = K + 1 /\ gs[K + 1] = n + 1 /\ \A k \in 1..K : gs[k] = hs[k]
  BY <1>2 DEF Opened
<1> DEFINE L == Len(gs)
<1>8. L = K + 1
  BY <1>7
<1>9. /\ \A k \in 0..K : First(gs, k) = First(hs, k) /\ Final(gs, n + 1, k) = Final(hs, n, k)
      /\ First(gs, K + 1) = n + 2 /\ Final(gs, n + 1, K + 1) = n + 1
  <2> HIDE DEF K, L
  <2>1. \A k \in 0..K : First(gs, k) = First(hs, k)
    <3>1. \A k \in 0..K : k # 0 => k \in 1..K
      BY <1>3
    <3>2. QED
      BY <1>7, <3>1 DEF First
  <2>2. \A k \in 0..K : Final(gs, n + 1, k) = Final(hs, n, k)
    <3>1. \A k \in 0..K : k # L /\ (k # K => k + 1 \in 1..K) /\ (n + 1) - 1 = n
      BY <1>1, <1>3, <1>8
    <3>2. \A k \in 0..K : Final(gs, n + 1, k) = gs[k + 1] - 1
      BY <3>1 DEF Final, L
    <3>3. \A k \in 0..K : Final(hs, n, k) = IF k = K THEN n ELSE hs[k + 1] - 1
      BY DEF Final, K
    <3>4. QED
      BY <1>7, <3>1, <3>2, <3>3
  <2>3. First(gs, K + 1) = n + 2
    BY <1>1, <1>3, <1>7 DEF First
  <2>4. Final(gs, n + 1, K + 1) = n + 1
    BY <1>8 DEF Final, L
  <2>5. QED
    BY <2>1, <2>2, <2>3, <2>4
<1>10. \A k \in 0..K : Under(es, k) = Under(ds, k)
  BY <1>4, <1>5, <1>6, <1>9
<1>11. Under(es, K + 1) = <<>>
  <2>1. n + 2 \in Nat /\ n + 1 \in Int /\ n + 1 < n + 2
    BY <1>1
  <2>2. SubSeq(es, n + 2, n + 1) = <<>>
    BY <1>1, <2>1, PartEmpty
  <2>3. QED
    BY <1>6, <1>9, <2>2
<1>12. QED
  BY <1>10, <1>11 DEF es, hs, K

\* Any other comes under the last one.
LEMMA UnderGrows ==
    ASSUME NEW ds \in Seq(Descriptor), NEW d \in Descriptor, ~ IsInterface(d)
    PROVE  LET es == Append(ds, d)
               K  == Len(Headings(ds))
           IN  /\ \A k \in 0..K - 1 : Under(es, k) = Under(ds, k)
               /\ Under(es, K) = Append(Under(ds, K), d)
<1> DEFINE es == Append(ds, d)
           hs == Headings(ds)
           n == Len(ds)
           K == Len(hs)
<1>1. n \in Nat /\ es \in Seq(Descriptor) /\ Len(es) = n + 1 /\ es[n + 1] = d
  BY OneMore
<1>2. Headings(es) = hs
  BY HeadingsOpened
<1>3. K \in Nat
  BY HeadingsType
<1>4. \A a \in 1..n + 1, b \in 0..n : SubSeq(es, a, b) = SubSeq(ds, a, b)
  BY PartSame
<1>5. \A k \in 0..K : /\ Under(ds, k) = SubSeq(ds, First(hs, k), Final(hs, n, k))
                      /\ First(hs, k) \in 1..n + 1 /\ Final(hs, n, k) \in 0..n
  BY UnderIs
<1>6. \A k : Under(es, k) = SubSeq(es, First(hs, k), Final(hs, n + 1, k))
  BY <1>1, <1>2 DEF Under, First, Final
<1> HIDE DEF es, n, hs
<1>7. \A k \in 0..K - 1 : Under(es, k) = Under(ds, k)
  <2> HIDE DEF K
  <2>1. \A k \in 0..K - 1 : k # K /\ k \in 0..K
    BY <1>3
  <2>2. \A k \in 0..K - 1 : Final(hs, n + 1, k) = Final(hs, n, k)
    BY <2>1 DEF Final, K
  <2>3. QED
    BY <1>4, <1>5, <1>6, <2>1, <2>2
<1>8. Under(es, K) = Append(Under(ds, K), d)
  <2> DEFINE a == First(hs, K)
  <2>1. Final(hs, n, K) = n /\ Final(hs, n + 1, K) = n + 1
    BY DEF Final
  <2> HIDE DEF K
  <2>2. K \in 0..K
    BY <1>3
  <2>3. Under(ds, K) = SubSeq(ds, a, n) /\ a \in 1..n + 1 /\ Under(es, K) = SubSeq(es, a, n + 1)
    BY <1>5, <1>6, <2>1, <2>2
  <2> HIDE DEF a
  <2>4. SubSeq(es, a, n) = SubSeq(ds, a, n)
    <3>1. n \in 0..n
      BY <1>1
    <3>2. QED
      BY <1>4, <2>3, <3>1
  <2>5. a \in 1..Len(es) /\ n \in a - 1..Len(es) - 1
    BY <1>1, <2>3
  <2>6. Append(SubSeq(es, a, n), es[n + 1]) = SubSeq(es, a, n + 1)
    BY ONLY <1>1, <2>5, PartStep
  <2>7. QED
    BY <1>1, <2>3, <2>4, <2>6
<1>9. QED
  BY <1>7, <1>8 DEF es, hs, K

Interface == [descriptor: Seq(Nat), endpoints: Seq(Seq(Nat)), class_specific: Seq(Descriptor)]
Configuration == [descriptor: Seq(Nat), interfaces: Seq(Interface), other: Seq(Descriptor)]

\* What Groups says of one interface: h is the heading, ps what is under it.
Follows(i, h, ps) ==
    /\ i.descriptor = Fields(h, InterfaceLen)
    /\ i.endpoints = EndpointsIn(ps)
    /\ i.class_specific = OthersIn(ps)

LEMMA GroupsIs ==
    ASSUME NEW c, NEW ds
    PROVE  Groups(c, ds) <=>
             /\ Len(c.interfaces) = Len(Headings(ds))
             /\ c.other = Under(ds, 0)
             /\ \A k \in 1..Len(Headings(ds)) :
                  Follows(c.interfaces[k], ds[Headings(ds)[k]], Under(ds, k))
  BY Zenon DEF Groups, Follows

LEMMA NothingUnder == EndpointsIn(<<>>) = <<>> /\ OthersIn(<<>>) = <<>>
<1> DEFINE e == [i \in 1..Len(<<>>) |->
                   IF IsEndpoint(<<>>[i]) THEN <<Fields(<<>>[i], EndpointLen)>> ELSE <<>>]
           o == [i \in 1..Len(<<>>) |-> IF IsEndpoint(<<>>[i]) THEN <<>> ELSE <<<<>>[i]>>]
<1>1. e = <<>> /\ o = <<>>
  OBVIOUS
<1>2. EndpointsIn(<<>>) = FlattenSeq(e) /\ OthersIn(<<>>) = FlattenSeq(o)
  BY DEF EndpointsIn, OthersIn
<1> HIDE DEF e, o
<1>3. QED
  BY <1>1, <1>2, FlattenEmpty

\* A new interface follows its heading, with nothing under it.
LEMMA NewFollows ==
    ASSUME NEW d \in Descriptor, IsInterface(d)
    PROVE  NewInterface(d) \in Interface /\ Follows(NewInterface(d), d, <<>>)
<1>1. Fields(d, InterfaceLen) \in Seq(Nat)
  BY FieldsType
<1>2. NewInterface(d) \in Interface
  BY <1>1 DEF NewInterface, Interface
<1>3. Follows(NewInterface(d), d, <<>>)
  BY NothingUnder DEF NewInterface, Follows
<1>4. QED
  BY <1>2, <1>3

LEMMA JoinedOne ==
    ASSUME NEW S, NEW s \in Seq(S), NEW e \in S
    PROVE  s \o <<e>> = Append(s, e) /\ s \o <<>> = s
  OBVIOUS

\* An interface and what is under it, with a descriptor more.
LEMMA EndpointFollows ==
    ASSUME NEW i \in Interface, NEW h, NEW ps \in Seq(Descriptor), NEW d \in Descriptor,
           Follows(i, h, ps), IsEndpoint(d)
    PROVE  LET j == [i EXCEPT !.endpoints = Append(@, Fields(d, EndpointLen))]
           IN  j \in Interface /\ Follows(j, h, Append(ps, d))
<1> DEFINE f == Fields(d, EndpointLen)
           j == [i EXCEPT !.endpoints = Append(@, f)]
<1>1. f \in Seq(Nat)
  BY FieldsType
<1>2. /\ EndpointsIn(Append(ps, d)) = EndpointsIn(ps) \o <<f>>
      /\ EndpointsIn(ps) \in Seq(Seq(Nat))
  BY EndpointsMore
<1>3. /\ OthersIn(Append(ps, d)) = OthersIn(ps) \o <<>>
      /\ OthersIn(ps) \in Seq(Descriptor)
  BY OthersMore
<1> HIDE DEF f
<1>4. EndpointsIn(Append(ps, d)) = Append(EndpointsIn(ps), f)
  BY <1>1, <1>2, JoinedOne
<1>5. OthersIn(Append(ps, d)) = OthersIn(ps)
  BY <1>3
<1>6. /\ j.descriptor = i.descriptor /\ j.class_specific = i.class_specific
      /\ j.endpoints = Append(i.endpoints, f)
  BY DEF Interface
<1>7. j \in Interface
  <2> DEFINE T == Seq(Nat)
  <2>1. i.endpoints \in Seq(T) /\ f \in T
    BY <1>1 DEF Interface
  <2> HIDE DEF T
  <2>2. Append(i.endpoints, f) \in Seq(T)
    BY <2>1, AppendProperties
  <2> HIDE DEF f
  <2> DEFINE a == Append(i.endpoints, f)
  <2>3. a \in Seq(Seq(Nat)) /\ j = [i EXCEPT !.endpoints = a]
    BY <2>2 DEF T
  <2> HIDE DEF a, j
  <2>4. QED
    BY <2>3 DEF Interface
<1>8. Follows(j, h, Append(ps, d))
  BY <1>4, <1>5, <1>6 DEF Follows
<1>9. QED
  BY <1>7, <1>8 DEF f

LEMMA OtherFollows ==
    ASSUME NEW i \in Interface, NEW h, NEW ps \in Seq(Descriptor), NEW d \in Descriptor,
           Follows(i, h, ps), ~ IsEndpoint(d)
    PROVE  LET j == [i EXCEPT !.class_specific = Append(@, d)]
           IN  j \in Interface /\ Follows(j, h, Append(ps, d))
<1> DEFINE j == [i EXCEPT !.class_specific = Append(@, d)]
<1>2. /\ EndpointsIn(Append(ps, d)) = EndpointsIn(ps) \o <<>>
      /\ EndpointsIn(ps) \in Seq(Seq(Nat))
  BY EndpointsMore
<1>3. /\ OthersIn(Append(ps, d)) = OthersIn(ps) \o <<d>>
      /\ OthersIn(ps) \in Seq(Descriptor)
  BY OthersMore
<1>4. OthersIn(Append(ps, d)) = Append(OthersIn(ps), d)
  BY <1>3, JoinedOne
<1>5. EndpointsIn(Append(ps, d)) = EndpointsIn(ps)
  BY <1>2
<1>6. /\ j.descriptor = i.descriptor /\ j.endpoints = i.endpoints
      /\ j.class_specific = Append(i.class_specific, d)
  BY DEF Interface
<1>7. j \in Interface
  <2> DEFINE a == Append(i.class_specific, d)
  <2>1. i.class_specific \in Seq(Descriptor)
    BY DEF Interface
  <2>2. a \in Seq(Descriptor) /\ j = [i EXCEPT !.class_specific = a]
    BY <2>1, AppendProperties
  <2> HIDE DEF a, j
  <2>3. QED
    BY <2>2 DEF Interface
<1>8. Follows(j, h, Append(ps, d))
  BY <1>4, <1>5, <1>6 DEF Follows
<1>9. QED
  BY <1>7, <1>8

\* The headings stay where they are when a descriptor comes.
LEMMA SameHeading ==
    ASSUME NEW ds \in Seq(Descriptor), NEW d \in Descriptor
    PROVE  /\ \A k \in 1..Len(Headings(ds)) :
                Append(ds, d)[Headings(ds)[k]] = ds[Headings(ds)[k]]
           /\ Len(Headings(ds)) \in Nat
<1> DEFINE n == Len(ds)
           hs == Headings(ds)
           es == Append(ds, d)
<1>1. \A i \in 1..n : es[i] = ds[i]
  BY OneMore
<1>2. hs \in Seq(1..n)
  BY HeadingsType
<1> HIDE DEF n, hs, es
<1>3. \A k \in 1..Len(hs) : hs[k] \in 1..n
  BY <1>2, Elements
<1>4. \A k \in 1..Len(hs) : es[hs[k]] = ds[hs[k]]
  BY <1>1, <1>3
<1>5. Len(hs) \in Nat
  BY <1>2
<1>6. QED
  BY <1>4, <1>5, Zenon DEF hs, es

LEMMA PlaceInterface ==
    ASSUME NEW c \in Configuration, NEW ds \in Seq(Descriptor), NEW d \in Descriptor,
           Groups(c, ds), IsInterface(d)
    PROVE  Place(c, d) \in Configuration /\ Groups(Place(c, d), Append(ds, d))
<1> DEFINE es == Append(ds, d)
           hs == Headings(ds)
           gs == Headings(es)
           n == Len(ds)
           K == Len(hs)
           i == NewInterface(d)
           is == c.interfaces
           js == Append(is, i)
           p == Place(c, d)
<1>1. i \in Interface /\ Follows(i, d, <<>>)
  BY NewFollows
<1>2. /\ Len(is) = K /\ c.other = Under(ds, 0)
      /\ \A k \in 1..K : Follows(is[k], ds[hs[k]], Under(ds, k))
  BY GroupsIs
<1>3. Opened(gs, hs, n)
  BY HeadingsOpened
<1>4. (\A k \in 0..K : Under(es, k) = Under(ds, k)) /\ Under(es, K + 1) = <<>>
  BY UnderOpened
<1>5. (\A k \in 1..K : es[hs[k]] = ds[hs[k]]) /\ K \in Nat
  BY SameHeading
<1>6. es[n + 1] = d
  BY OneMore
<1>7. p = [c EXCEPT !.interfaces = js]
  BY DEF Place
<1>8. is \in Seq(Interface)
  BY DEF Configuration
<1> HIDE DEF i, is, es, hs, gs, n, p
<1>9. Len(gs) = K + 1 /\ gs[K + 1] = n + 1 /\ \A k \in 1..K : gs[k] = hs[k]
  BY <1>3 DEF Opened
<1> HIDE DEF K
<1>10. /\ js \in Seq(Interface) /\ Len(js) = K + 1 /\ js[K + 1] = i
       /\ \A k \in 1..K : js[k] = is[k]
  BY <1>1, <1>2, <1>8, AppendProperties
<1> HIDE DEF js
<1>11. p.interfaces = js /\ p.other = c.other
  BY <1>7 DEF Configuration
<1>12. p \in Configuration
  BY <1>7, <1>10 DEF Configuration
<1>13. p.other = Under(es, 0)
  BY <1>2, <1>4, <1>5, <1>11
<1>14. \A k \in 1..K + 1 : Follows(p.interfaces[k], es[gs[k]], Under(es, k))
  <2>1. ASSUME NEW k \in 1..K PROVE Follows(js[k], es[gs[k]], Under(es, k))
    <3>1. js[k] = is[k] /\ es[gs[k]] = ds[hs[k]]
      BY <1>5, <1>9, <1>10
    <3>2. k \in 0..K
      BY <1>5
    <3>3. QED
      BY <1>2, <1>4, <3>1, <3>2
  <2>2. Follows(js[K + 1], es[gs[K + 1]], Under(es, K + 1))
    BY <1>1, <1>4, <1>6, <1>9, <1>10
  <2>3. \A k \in 1..K + 1 : k \in 1..K \/ k = K + 1
    BY <1>5
  <2>4. QED
    BY <1>11, <2>1, <2>2, <2>3
<1>15. Groups(p, es)
  <2> HIDE DEF es
  <2>1. Len(p.interfaces) = Len(gs) /\ Len(gs) = K + 1
    BY <1>9, <1>10, <1>11
  <2>2. QED
    BY <1>13, <1>14, <2>1, GroupsIs DEF gs
<1>16. QED
  BY <1>12, <1>15 DEF p, es

LEMMA PlaceBefore ==
    ASSUME NEW c \in Configuration, NEW ds \in Seq(Descriptor), NEW d \in Descriptor,
           Groups(c, ds), ~ IsInterface(d), Len(c.interfaces) = 0
    PROVE  Place(c, d) \in Configuration /\ Groups(Place(c, d), Append(ds, d))
<1> DEFINE es == Append(ds, d)
           hs == Headings(ds)
           K == Len(hs)
           p == Place(c, d)
           o == Append(c.other, d)
<1>1. K = 0 /\ c.other = Under(ds, 0)
  BY GroupsIs
<1>2. Headings(es) = hs
  BY HeadingsOpened
<1>3. Under(es, K) = Append(Under(ds, K), d)
  BY UnderGrows
<1>4. p = [c EXCEPT !.other = o]
  BY DEF Place
<1>5. o \in Seq(Descriptor)
  <2>1. c.other \in Seq(Descriptor)
    BY DEF Configuration
  <2>2. QED
    BY <2>1, AppendProperties
<1>6. Under(es, 0) = o
  BY <1>1, <1>3
<1>7. Len(c.interfaces) = K
  BY <1>1
<1> HIDE DEF p, o, es, hs
<1>8. p \in Configuration /\ p.other = o /\ p.interfaces = c.interfaces
  BY <1>4, <1>5 DEF Configuration
<1> HIDE DEF K
<1>9. \A k \in 1..K : Follows(p.interfaces[k], es[hs[k]], Under(es, k))
  BY <1>1
<1>10. Groups(p, es)
  BY <1>2, <1>6, <1>7, <1>8, <1>9, GroupsIs DEF K
<1>11. QED
  BY <1>8, <1>10 DEF p, es

LEMMA PlaceUnder ==
    ASSUME NEW c \in Configuration, NEW ds \in Seq(Descriptor), NEW d \in Descriptor,
           Groups(c, ds), ~ IsInterface(d), Len(c.interfaces) # 0
    PROVE  Place(c, d) \in Configuration /\ Groups(Place(c, d), Append(ds, d))
<1> DEFINE es == Append(ds, d)
           hs == Headings(ds)
           K == Len(hs)
           is == c.interfaces
           m == Len(is)
           u == Under(ds, K)
           j == IF IsEndpoint(d)
                  THEN [is[m] EXCEPT !.endpoints = Append(@, Fields(d, EndpointLen))]
                  ELSE [is[m] EXCEPT !.class_specific = Append(@, d)]
           js == [is EXCEPT ![m] = j]
           p == Place(c, d)
<1>1. /\ m = K /\ c.other = Under(ds, 0)
      /\ \A k \in 1..K : Follows(is[k], ds[hs[k]], Under(ds, k))
  BY GroupsIs
<1>2. Headings(es) = hs
  BY HeadingsOpened
<1>3. (\A k \in 0..K - 1 : Under(es, k) = Under(ds, k)) /\ Under(es, K) = Append(u, d)
  BY UnderGrows
<1>4. (\A k \in 1..K : es[hs[k]] = ds[hs[k]]) /\ K \in Nat
  BY SameHeading
<1>5. p = [c EXCEPT !.interfaces = js]
  <2>1. CASE IsEndpoint(d)
    BY <2>1 DEF Place
  <2>2. CASE ~ IsEndpoint(d)
    BY <2>2 DEF Place
  <2>3. QED
    BY <2>1, <2>2
<1>6. is \in Seq(Interface)
  BY DEF Configuration
<1>7. K # 0
  BY <1>1
<1>8. u \in Seq(Descriptor)
  <2>1. K \in 0..K
    BY <1>4
  <2>2. QED
    BY <2>1, UnderType
<1> HIDE DEF es, hs, is, p, u
<1>9. is[m] \in Interface /\ Follows(is[m], ds[hs[m]], u)
  <2> HIDE DEF K
  <2>1. m \in 1..K
    BY <1>1, <1>4, <1>7
  <2>2. is[m] \in Interface
    BY <1>6, <2>1, <1>1
  <2>3. QED
    BY <1>1, <2>1, <2>2 DEF u, K, hs
<1>10. j \in Interface /\ Follows(j, ds[hs[m]], Append(u, d))
  <2> DEFINE i == is[m]
             h == ds[hs[m]]
  <2> HIDE DEF i, h
  <2>1. i \in Interface /\ Follows(i, h, u)
    BY <1>9 DEF i, h
  <2>2. CASE IsEndpoint(d)
    <3>1. j = [i EXCEPT !.endpoints = Append(@, Fields(d, EndpointLen))]
      BY <2>2 DEF i
    <3>2. QED
      BY <1>8, <2>1, <2>2, <3>1, EndpointFollows DEF h
  <2>3. CASE ~ IsEndpoint(d)
    <3>1. j = [i EXCEPT !.class_specific = Append(@, d)]
      BY <2>3 DEF i
    <3>2. QED
      BY <1>8, <2>1, <2>3, <3>1, OtherFollows DEF h
  <2>4. QED
    BY <2>2, <2>3
<1> HIDE DEF j, K
<1>11. /\ js \in Seq(Interface) /\ Len(js) = K /\ js[K] = j
       /\ \A k \in 1..K - 1 : js[k] = is[k]
  BY <1>1, <1>4, <1>6, <1>7, <1>10
<1> HIDE DEF js
<1>12. p \in Configuration /\ p.interfaces = js /\ p.other = c.other
  BY <1>5, <1>11 DEF Configuration
<1>13. p.other = Under(es, 0)
  <2>1. 0 \in 0..K - 1
    BY <1>4, <1>7
  <2>2. QED
    BY <1>1, <1>3, <1>12, <2>1
<1>14. \A k \in 1..K : Follows(p.interfaces[k], es[hs[k]], Under(es, k))
  <2>1. ASSUME NEW k \in 1..K - 1 PROVE Follows(js[k], es[hs[k]], Under(es, k))
    <3>1. k \in 1..K /\ k \in 0..K - 1
      BY <1>4
    <3>2. QED
      BY <1>1, <1>3, <1>4, <1>11, <3>1
  <2>2. Follows(js[K], es[hs[K]], Under(es, K))
    <3>1. K \in 1..K
      BY <1>4, <1>7
    <3>2. m = K
      BY <1>1
    <3> HIDE DEF m
    <3>3. QED
      BY <1>3, <1>4, <1>10, <1>11, <3>1, <3>2
  <2>3. \A k \in 1..K : k \in 1..K - 1 \/ k = K
    BY <1>4
  <2>4. QED
    BY <1>12, <2>1, <2>2, <2>3
<1>15. Groups(p, es)
  <2>1. Len(p.interfaces) = K
    BY <1>11, <1>12
  <2>2. QED
    BY <1>2, <1>13, <1>14, <2>1, GroupsIs DEF K
<1>16. QED
  BY <1>12, <1>15 DEF p, es

\* A turn of the loop keeps the grouping.
LEMMA PlaceGroups ==
    ASSUME NEW c \in Configuration, NEW ds \in Seq(Descriptor), NEW d \in Descriptor,
           Groups(c, ds)
    PROVE  Place(c, d) \in Configuration /\ Groups(Place(c, d), Append(ds, d))
<1>1. IsInterface(d) \/ Len(c.interfaces) = 0 \/ Len(c.interfaces) # 0
  OBVIOUS
<1>2. QED
  BY <1>1, PlaceInterface, PlaceBefore, PlaceUnder

\* The loop begins with nothing.
LEMMA NothingGroups ==
    ASSUME NEW b \in Seq(Nat)
    PROVE  LET c == [descriptor |-> b, interfaces |-> <<>>, other |-> <<>>]
           IN  c \in Configuration /\ Groups(c, <<>>)
<1> DEFINE c == [descriptor |-> b, interfaces |-> <<>>, other |-> <<>>]
           x == [i \in 1..Len(<<>>) |-> IF IsInterface(<<>>[i]) THEN <<i>> ELSE <<>>]
<1>1. x = <<>>
  OBVIOUS
<1>2. Headings(<<>>) = FlattenSeq(x)
  BY DEF Headings
<1> HIDE DEF x
<1>3. Headings(<<>>) = <<>>
  BY <1>1, <1>2, FlattenEmpty
<1>4. Under(<<>>, 0) = <<>>
  BY <1>3 DEF Under
<1>5. c \in Configuration
  BY DEF Configuration
<1>6. c.interfaces = <<>> /\ c.other = <<>>
  OBVIOUS
<1> HIDE DEF c
<1>7. Groups(c, <<>>)
  <2>1. Len(c.interfaces) = Len(Headings(<<>>)) /\ \A k : k \notin 1..Len(Headings(<<>>))
    BY <1>3, <1>6
  <2>2. QED
    BY <1>4, <1>6, <2>1, GroupsIs
<1>8. QED
  BY <1>5, <1>7 DEF c

\* What the loop of Parse makes of f, over ds from c0.
Turns(ds, c0, f) == [n \in 0..Len(ds) |-> IF n = 0 THEN c0 ELSE Place(f[n - 1], ds[n])]

\* f is that loop.
Loops(ds, c0, f) ==
    /\ f[0] = c0
    /\ \A n \in 1..Len(ds) : f[n] = Place(f[n - 1], ds[n])

\* The loop over ds is a function.
LEMMA LoopExists ==
    ASSUME NEW ds \in Seq(Descriptor), NEW c0
    PROVE  \E f : f = Turns(ds, c0, f)
<1> DEFINE l == Len(ds)
           T(f, m) == f = [n \in 0..m |-> IF n = 0 THEN c0 ELSE Place(f[n - 1], ds[n])]
           N == {m \in Nat : \E f : T(f, m)}
<1>1. 0 \in N
  <2> DEFINE f == [n \in 0..0 |-> c0]
  <2>1. f = [n \in 0..0 |-> IF n = 0 THEN c0 ELSE Place(f[n - 1], ds[n])]
    OBVIOUS
  <2>2. T(f, 0)
    BY <2>1
  <2> HIDE DEF T, f
  <2>3. QED
    BY <2>2
<1>2. ASSUME NEW m \in Nat, m \in N PROVE m + 1 \in N
  <2>1. PICK f : T(f, m)
    BY <1>2
  <2> DEFINE e == Place(f[m], ds[m + 1])
             g == [n \in 0..m + 1 |-> IF n = m + 1 THEN e ELSE f[n]]
             h == [n \in 0..m + 1 |-> IF n = 0 THEN c0 ELSE Place(g[n - 1], ds[n])]
  <2>2. \A n \in 0..m : f[n] = IF n = 0 THEN c0 ELSE Place(f[n - 1], ds[n])
    BY <2>1
  <2>3. /\ (m + 1) - 1 = m /\ m \in 0..m + 1 /\ m + 1 # 0 /\ m # m + 1 /\ m + 1 \in 0..m + 1
        /\ \A n \in 0..m + 1 : n = m + 1 \/ (n \in 0..m /\ n # m + 1)
        /\ \A n \in 0..m : n # 0 => n - 1 \in 0..m + 1 /\ n - 1 # m + 1
    OBVIOUS
  <2>4. g[m] = f[m] /\ g[m + 1] = e
    BY <2>3
  <2>5. \A n \in 0..m + 1 : n # m + 1 => g[n] = f[n]
    OBVIOUS
  <2>6. \A n \in 0..m + 1 : h[n] = IF n = 0 THEN c0 ELSE Place(g[n - 1], ds[n])
    OBVIOUS
  <2>7. g = [n \in 0..m + 1 |-> g[n]] /\ h = [n \in 0..m + 1 |-> h[n]]
    OBVIOUS
  <2> HIDE DEF g, h
  <2>8. h[m + 1] = g[m + 1]
    BY <2>3, <2>4, <2>6
  <2>9. \A n \in 0..m : h[n] = g[n]
    <3>1. ASSUME NEW n \in 0..m PROVE h[n] = g[n]
      <4>1. n \in 0..m + 1 /\ n # m + 1
        BY <2>3
      <4>2. g[n] = f[n] /\ h[n] = IF n = 0 THEN c0 ELSE Place(g[n - 1], ds[n])
        BY <2>5, <2>6, <4>1
      <4>3. n # 0 => g[n - 1] = f[n - 1]
        BY <2>3, <2>5
      <4>4. QED
        BY <2>2, <4>2, <4>3, Zenon
    <3>2. QED
      BY <3>1
  <2>10. \A n \in 0..m + 1 : h[n] = g[n]
    BY <2>3, <2>8, <2>9, Zenon
  <2>11. g = h
    BY <2>7, <2>10, Zenon
  <2>12. T(g, m + 1)
    BY <2>11 DEF h
  <2> HIDE DEF T
  <2>13. QED
    BY <2>12
<1> HIDE DEF N
<1>3. Nat \subseteq N
  BY <1>1, <1>2, NatInductionOnSets
<1>4. l \in Nat
  OBVIOUS
<1>5. l \in N
  BY <1>3, <1>4
<1>6. QED
  BY <1>5 DEF N, Turns

\* Every prefix of ds is grouped.
LEMMA LoopGroups ==
    ASSUME NEW ds \in Seq(Descriptor), NEW c0 \in Configuration, Groups(c0, <<>>),
           NEW f, Loops(ds, c0, f)
    PROVE  Groups(f[Len(ds)], ds)
<1> DEFINE l == Len(ds)
           p(m) == SubSeq(ds, 1, m)
           N == {m \in Nat : m <= l => f[m] \in Configuration /\ Groups(f[m], p(m))}
<1>1. l \in Nat
  OBVIOUS
<1>2. 0 \in N
  <2>1. p(0) = <<>>
    BY PartEmpty
  <2>2. f[0] = c0
    BY DEF Loops
  <2> HIDE DEF p
  <2>3. f[0] \in Configuration /\ Groups(f[0], p(0))
    BY <2>1, <2>2
  <2>4. QED
    BY <2>3, Zenon
<1>3. ASSUME NEW m \in Nat, m \in N PROVE m + 1 \in N
  <2>1. CASE m + 1 <= l
    <3> HIDE DEF p
    <3>1. m <= l /\ m \in 0..l - 1 /\ m + 1 \in 1..l /\ (m + 1) - 1 = m
      BY <1>1, <2>1
    <3>2. f[m] \in Configuration /\ Groups(f[m], p(m))
      BY <1>3, <3>1, Zenon
    <3>3. f[m + 1] = Place(f[m], ds[m + 1])
      BY <3>1 DEF Loops
    <3>4. ds[m + 1] \in Descriptor
      BY <3>1
    <3>5. 1 \in 1..Len(ds) /\ m \in 1 - 1..Len(ds) - 1
      BY <1>1, <3>1
    <3>6. Append(SubSeq(ds, 1, m), ds[m + 1]) = SubSeq(ds, 1, m + 1)
      BY ONLY ds \in Seq(Descriptor), <3>5, PartStep
    <3>7. 1 \in 1..Len(ds) + 1
      BY <1>1
    <3>8. p(m) \in Seq(Descriptor)
      BY ONLY ds \in Seq(Descriptor), <3>5, <3>7, m \in 1 - 1..Len(ds), PartIs DEF p
    <3>9. /\ Place(f[m], ds[m + 1]) \in Configuration
          /\ Groups(Place(f[m], ds[m + 1]), Append(p(m), ds[m + 1]))
      BY <3>2, <3>4, <3>8, PlaceGroups
    <3>10. f[m + 1] \in Configuration /\ Groups(f[m + 1], p(m + 1))
      BY <3>3, <3>6, <3>9 DEF p
    <3>11. m + 1 \in Nat
      BY <1>3
    <3>12. QED
      BY <3>10, <3>11, Zenon
  <2>2. CASE ~ (m + 1 <= l)
    BY <2>2
  <2>3. QED
    BY <2>1, <2>2
<1> HIDE DEF N
<1>4. Nat \subseteq N
  BY <1>2, <1>3, NatInductionOnSets
<1>5. l \in N
  BY <1>1, <1>4
<1>6. Groups(f[l], p(l))
  <2> HIDE DEF p
  <2>1. l <= l
    BY <1>1
  <2>2. QED
    BY <1>5, <2>1, Zenon DEF N
<1>7. p(l) = ds
  BY PartWhole
<1>8. QED
  BY <1>6, <1>7

\* What a device sent is in groups, when it is a configuration.
LEMMA ParseIsGrouped ==
    ASSUME sent \in Seq(Nat)
    PROVE  ParseGroupsByInterface
<1> SUFFICES ASSUME Parsable(sent)
             PROVE  Groups(Parse(sent), Tail(Walk(sent)))
  BY DEF ParseGroupsByInterface
<1> DEFINE ds == Tail(Walk(sent))
           b  == SubSeq(sent, 3, ConfigLen)
           c0 == [descriptor |-> b, interfaces |-> <<>>, other |-> <<>>]
           f  == CHOOSE g : g = Turns(ds, c0, g)
<1>1. ConfigLen \in Nat /\ ConfigLen > 2 /\ Len(sent) >= ConfigLen /\ Len(sent) \in Nat
  BY DescriptorAssumption DEF Parsable
<1>2. Covers(Walk(sent), sent, 1)
  BY WalkCovers
<1>3. Walk(sent) \in Seq(Descriptor) /\ Walk(sent) # <<>>
  BY <1>1, <1>2 DEF Covers
<1>4. ds \in Seq(Descriptor)
  BY <1>3
<1>5. b \in Seq(Nat)
  <2>1. 3 \in 1..Len(sent) + 1 /\ ConfigLen \in 3 - 1..Len(sent)
    BY <1>1
  <2>2. QED
    BY ONLY sent \in Seq(Nat), <2>1, PartIs
<1> HIDE DEF b
<1>6. c0 \in Configuration /\ Groups(c0, <<>>)
  BY <1>5, NothingGroups
<1>7. Parse(sent) = f[Len(ds)]
  BY DEF Parse, Turns, b
<1> HIDE DEF ds, c0
<1>8. f = Turns(ds, c0, f)
  BY <1>4, LoopExists
<1> HIDE DEF f
<1>9. Loops(ds, c0, f)
  <2>1. Len(ds) \in Nat
    BY <1>4
  <2>2. 0 \in 0..Len(ds) /\ \A n \in 1..Len(ds) : n \in 0..Len(ds) /\ n # 0
    BY <2>1
  <2>3. QED
    BY <1>8, <2>2 DEF Loops, Turns
<1>10. Groups(f[Len(ds)], ds)
  BY <1>4, <1>6, <1>9, LoopGroups
<1>11. QED
  BY <1>7, <1>10 DEF ds

\* Configuration::parse groups whatever a device sends by its interfaces.
THEOREM ParseGroups == Sending => []ParseGroupsByInterface
<1>1. sent \in Seq(Nat) => ParseGroupsByInterface
  BY ParseIsGrouped
<1>2. QED
  BY <1>1, SentIsBlob, PTL
=============================================================================
