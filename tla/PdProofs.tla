------------------------------ MODULE PdProofs ------------------------------
(***************************************************************************)
(* Theorems about PdLink, for every number of MessageIDs, of attempts, and *)
(* every size of the receive FIFO, and about PdCommands, for every number  *)
(* of passes and calls too: the rail is never fed twice, and a program     *)
(* that succeeds has kept its whole trace.  Then about PcapNg, the file of *)
(* that trace: for every base of the digits, every name, message and time, *)
(* it is read back as it was written, as far as it got to the disk.        *)
(***************************************************************************)
EXTENDS PdCommands, PcapNg, DataLemmas

(* Every successor of a MessageID is another one, also across the wrap.    *)
LEMMA NextIdDiffers ==
    ASSUME NEW id \in 0..Ids - 1
    PROVE  Numbered(id) \in 0..Ids - 1 /\ Numbered(id) # id
<1>1. CASE id + 1 < Ids
  <2>1. (id + 1) % Ids = id + 1
    BY <1>1, LinkAssumption
  <2>2. QED
    BY <1>1, <2>1, LinkAssumption DEF Numbered
<1>2. CASE id + 1 = Ids
  <2>1. Ids % Ids = 0
    BY LinkAssumption
  <2>2. QED
    BY <1>2, <2>1, LinkAssumption DEF Numbered
<1>3. QED
  BY <1>1, <1>2, LinkAssumption

(* The constants without the arithmetic of the wrap, which the lemma above *)
(* has used up.                                                            *)
LEMMA Constants ==
    /\ Ids \in Nat /\ Ids > 1
    /\ Attempts \in Nat /\ Attempts > 0
    /\ MaxQueue \in Nat /\ MaxQueue > 0
  BY LinkAssumption

-----------------------------------------------------------------------------
(* Type correctness.                                                       *)

LEMMA OldMessages ==
    ASSUME TypeOK
    PROVE  LET aged == [i \in 1..Len(rx) |-> Aged(rx[i])]
           IN  aged \in Seq(InMessage) /\ Len(aged) = Len(rx)
<1> DEFINE aged == [i \in 1..Len(rx) |-> Aged(rx[i])]
<1>1. Len(rx) \in Nat /\ \A i \in 1..Len(rx) : rx[i] \in InMessage
  BY LenProperties, ElementOfSeq DEF TypeOK, BoardOK
<1>2. \A i \in 1..Len(rx) : Aged(rx[i]) \in InMessage
  BY <1>1 DEF InMessage, Aged
<1>3. aged \in [1..Len(rx) -> InMessage]
  BY <1>2
<1>4. aged \in Seq(InMessage)
  BY <1>1, <1>3, SeqDef
<1>5. Len(aged) = Len(rx)
  BY <1>1, <1>3, <1>4, LenProperties
<1>6. QED
  BY <1>4, <1>5

LEMMA ChipType ==
    ASSUME TypeOK, NEW m \in OutMessage, Transmitted(m) \/ NotTransmitted
    PROVE  /\ tx' \in OutMessage
           /\ rx' \in Seq(InMessage) /\ Len(rx') <= MaxQueue
           /\ sink' \in SinkState
           /\ lastId' \in 0..Ids
           /\ repeated' \in BOOLEAN /\ astray' \in BOOLEAN
<1>1. Nothing \in OutMessage /\ Junk \in OutMessage
  BY Constants DEF Nothing, Junk, Sent, OutMessage
<1>2. CASE NotTransmitted
  BY <1>1, <1>2 DEF NotTransmitted, TypeOK, BoardOK, HistoryOK
<1>3. CASE Transmitted(m)
  <2>1. rx' \in Seq(InMessage) /\ Len(rx') <= MaxQueue
    BY <1>3, OldMessages DEF Transmitted, TypeOK, BoardOK
  <2>2. sink' \in SinkState
    <3>1. \A e \in DOMAIN Reaction : Reaction[e] \in SinkState
      BY DEF Reaction, SinkState
    <3>2. sink \in SinkState
      BY DEF TypeOK, BoardOK
    <3>3. QED
      BY <1>3, <3>1, <3>2 DEF Transmitted, Heard
  <2>3. lastId' \in 0..Ids
    BY <1>3 DEF Transmitted, OutMessage, TypeOK, HistoryOK
  <2>4. repeated' \in BOOLEAN /\ astray' \in BOOLEAN
    BY <1>3 DEF Transmitted, TypeOK, HistoryOK
  <2>5. QED
    BY <1>1, <1>3, <2>1, <2>2, <2>3, <2>4 DEF Transmitted
<1>4. QED
  BY <1>2, <1>3

LEMMA SaysType ==
    ASSUME TypeOK, NEW m \in InMessage, Says(m)
    PROVE  rx' \in Seq(InMessage) /\ Len(rx') <= MaxQueue
<1>1. Len(rx) \in Nat /\ MaxQueue \in Nat
  BY Constants, LenProperties DEF TypeOK, BoardOK
<1>2. CASE Len(rx) < MaxQueue
  BY <1>1, <1>2, AppendProperties DEF Says, TypeOK, BoardOK
<1>3. CASE ~(Len(rx) < MaxQueue)
  BY <1>3 DEF Says, TypeOK, BoardOK
<1>4. QED
  BY <1>2, <1>3

LEMMA ReadType ==
    ASSUME TypeOK, rx # <<>>
    PROVE  /\ Tail(rx) \in Seq(InMessage) /\ Len(Tail(rx)) <= MaxQueue
           /\ Head(rx) \in InMessage
<1>1. rx \in Seq(InMessage) /\ Len(rx) <= MaxQueue /\ MaxQueue \in Nat
  BY Constants DEF TypeOK, BoardOK
<1>2. /\ Head(rx) \in InMessage /\ Tail(rx) \in Seq(InMessage)
      /\ Len(Tail(rx)) = Len(rx) - 1 /\ Len(rx) \in Nat
  BY <1>1, HeadTailProperties, LenProperties
<1>3. QED
  BY <1>1, <1>2

\* What is read out of step fits where the messages were.
LEMMA MisreadType ==
    ASSUME TypeOK, NEW q \in Misread
    PROVE  q \in Seq(InMessage) /\ Len(q) <= MaxQueue
<1>1. Len(rx) \in Nat /\ Len(rx) <= MaxQueue /\ MaxQueue \in Nat
  BY Constants, LenProperties DEF TypeOK, BoardOK
<1>2. PICK n \in 0..Len(rx) : q = [i \in 1..n |-> Garbage]
  BY DEF Misread
<1>3. Garbage \in InMessage
  BY DEF Garbage, InMessage
<1>4. n \in Nat /\ q \in [1..n -> InMessage]
  BY <1>1, <1>2, <1>3
<1>5. q \in Seq(InMessage)
  BY <1>4, SeqDef
<1>6. Len(q) = n
  BY <1>4, <1>5, LenProperties
<1>7. QED
  BY <1>1, <1>2, <1>5, <1>6

\* So does what a poll leaves.
LEMMA UnreadType ==
    ASSUME TypeOK, NEW q \in Unread
    PROVE  q \in Seq(InMessage) /\ Len(q) <= MaxQueue
<1>1. CASE q \in Misread
  BY <1>1, MisreadType
<1>2. CASE rx = <<>> /\ q = rx
  BY <1>2 DEF TypeOK, BoardOK
<1>3. CASE rx # <<>> /\ q = Tail(rx)
  BY <1>3, ReadType
<1>4. QED
  BY <1>1, <1>2, <1>3 DEF Unread

LEMMA SetupFlushes ==
    ASSUME NEW role, Setup(role)
    PROVE  rx' = <<>> \/ rx' = rx
  BY DEF Setup, chip

LEMMA TypeInitially == Init => TypeOK
<1> USE Constants DEF Init
<1>1. Init => ProgramOK
  BY DEF ProgramOK, Label
<1>2. Init => BoardOK
  <2>1. Nothing \in OutMessage
    BY DEF Nothing, Sent, OutMessage
  <2>2. QED
    BY <2>1 DEF BoardOK, SinkState, Switch, AuxRoute, ControlRoute, Discharging
<1>3. Init => HistoryOK
  <2>1. Ids \in 0..Ids
    BY Constants
  <2>2. QED
    BY <2>1, Zenon DEF HistoryOK
<1>4. QED
  BY <1>1, <1>2, <1>3 DEF TypeOK

(* Inside negotiate_source there is a turn left to count.                  *)
Negotiating ==
    \/ pc \in {"stage", "fire", "listen", "accept", "ps_rdy"}
    \/ pc \in {"drop", "apply"} /\ call = "negotiate"

Turns == Negotiating => attempt < Attempts

LEMMA TypeInductive == TypeOK /\ Turns /\ [Next]_vars => TypeOK'
<1> SUFFICES ASSUME TypeOK, Turns, [Next]_vars
             PROVE  TypeOK'
  OBVIOUS
<1> USE Constants
    DEF TypeOK, ProgramOK, BoardOK, HistoryOK, link, chip, rail, hist
<1>1. ASSUME NEW mode \in Mode, BringUp(mode)
      PROVE  TypeOK'
  <2>1. ProgramOK'
    BY <1>1 DEF BringUp, Enter, Label
  <2>2. BoardOK'
    BY <1>1 DEF BringUp, Enter
  <2>3. HistoryOK'
    BY <1>1 DEF BringUp, Enter
  <2>4. QED
    BY <2>1, <2>2, <2>3
<1>2. CASE BringUpOff
  <2>1. ProgramOK'
    BY <1>2 DEF BringUpOff, Goto, Fail, Label
  <2>2. BoardOK'
    BY <1>2 DEF BringUpOff, Goto, Fail, Switched, NotSwitched, SinkState,
       Switch
  <2>3. HistoryOK'
    BY <1>2 DEF BringUpOff, Goto, Fail
  <2>4. QED
    BY <2>1, <2>2, <2>3
<1>3. CASE BringUpProbe
  <2>1. ProgramOK'
    BY <1>3 DEF BringUpProbe, Goto, Fail, Label
  <2>2. BoardOK'
    BY <1>3 DEF BringUpProbe, Goto, Fail
  <2>3. HistoryOK'
    BY <1>3 DEF BringUpProbe, Goto, Fail
  <2>4. QED
    BY <2>1, <2>2, <2>3
<1>4. ASSUME NEW label \in Label, NEW bits \in {AuxRoute, ControlRoute},
             BringUpRoute(label, bits)
      PROVE  TypeOK'
  <2>1. ProgramOK'
    BY <1>4 DEF BringUpRoute, Return, Fail, Label, Remembered
  <2>2. BoardOK'
    BY <1>4 DEF BringUpRoute, Return, Fail, Switched, NotSwitched,
       SinkState, Switch, AuxRoute, ControlRoute
  <2>3. HistoryOK'
    BY <1>4 DEF BringUpRoute, Return, Fail
  <2>4. QED
    BY <2>1, <2>2, <2>3
<1>5. ASSUME NEW bits \in {{}, ControlRoute}, SetVbus(bits)
      PROVE  TypeOK'
  <2>1. ProgramOK'
    BY <1>5 DEF SetVbus, Once, Label
  <2>2. BoardOK'
    BY <1>5 DEF SetVbus, Once, Switched, NotSwitched, SinkState, Switch,
       ControlRoute
  <2>3. HistoryOK'
    BY <1>5 DEF SetVbus, Once
  <2>4. QED
    BY <2>1, <2>2, <2>3
<1>6. CASE CycleVbus
  <2>1. ProgramOK'
    BY <1>6 DEF CycleVbus, Enter, Label
  <2>2. BoardOK'
    BY <1>6 DEF CycleVbus, Enter
  <2>3. HistoryOK'
    BY <1>6 DEF CycleVbus, Enter
  <2>4. QED
    BY <2>1, <2>2, <2>3
<1>7. CASE Drop
  <2>1. ProgramOK'
    BY <1>7 DEF Drop, Goto, Fail, Label
  <2>2. BoardOK'
    BY <1>7 DEF Drop, Goto, Fail, Switched, NotSwitched, SinkState, Switch,
       Discharging
  <2>3. HistoryOK'
    BY <1>7 DEF Drop, Goto, Fail
  <2>4. QED
    BY <2>1, <2>2, <2>3
<1>8. CASE Apply
  <2>1. ProgramOK'
    BY <1>8 DEF Apply, Goto, Return, Fail, Label
  <2>2. BoardOK'
    BY <1>8 DEF Apply, Goto, Return, Fail, Switched, NotSwitched, SinkState,
       Switch, AuxRoute, ControlRoute
  <2>3. HistoryOK'
    BY <1>8 DEF Apply, Goto, Return, Fail
  <2>4. QED
    BY <2>1, <2>2, <2>3
<1>9. ASSUME NEW role \in {"source", "sink"}, Setup(role)
      PROVE  TypeOK'
  <2>1. Nothing \in OutMessage
    BY DEF Nothing, Sent, OutMessage
  <2>2. rx' \in Seq(InMessage) /\ Len(rx') <= MaxQueue
    <3>1. <<>> \in Seq(InMessage) /\ Len(<<>>) <= MaxQueue
      BY EmptySeq
    <3>2. rx' = <<>> \/ rx' = rx
      BY <1>9, SetupFlushes
    <3>3. CASE rx' = <<>>
      BY <3>1, <3>3, Zenon
    <3>4. CASE rx' = rx
      BY <3>4
    <3>5. QED
      BY <3>2, <3>3, <3>4
  <2>3. ProgramOK'
    BY <1>9 DEF Setup, Once
  <2>4. BoardOK'
    BY <1>9, <2>1, <2>2 DEF Setup, Once, SinkState, Role
  <2>5. HistoryOK'
    BY <1>9 DEF Setup, Once
  <2>6. QED
    BY <2>3, <2>4, <2>5
<1>10. CASE Negotiate
  <2>1. ProgramOK'
    BY <1>10 DEF Negotiate, Enter, Label
  <2>2. BoardOK'
    BY <1>10 DEF Negotiate, Enter
  <2>3. HistoryOK'
    BY <1>10 DEF Negotiate, Enter
  <2>4. QED
    BY <2>1, <2>2, <2>3
<1>11. CASE Stage
  <2>1. {Nothing, Junk, Sent("caps", msgId)} \subseteq OutMessage
    BY DEF Nothing, Junk, Sent, OutMessage
  <2>2. ProgramOK'
    BY <1>11 DEF Stage, Goto, Fail, Label
  <2>3. BoardOK'
    BY <1>11, <2>1 DEF Stage, Goto, Fail
  <2>4. HistoryOK'
    BY <1>11 DEF Stage, Goto, Fail
  <2>5. QED
    BY <2>2, <2>3, <2>4
<1>12. CASE Fire
  <2>1. Transmitted(tx) \/ NotTransmitted
    BY <1>12 DEF Fire
  <2>2. ProgramOK'
    BY <1>12, NextIdDiffers DEF Fire, Fail, Label
  <2>3. BoardOK'
    BY <1>12, <2>1, ChipType DEF Fire, Fail
  <2>4. HistoryOK'
    BY <1>12, <2>1, ChipType DEF Fire, Fail
  <2>5. QED
    BY <2>2, <2>3, <2>4
<1>13. CASE Listen
  <2>1. ProgramOK'
    BY <1>13 DEF Listen, Goto, Fail, Label
  <2>2. BoardOK'
    BY <1>13, UnreadType DEF Listen, Goto, Fail
  <2>3. HistoryOK'
    BY <1>13, ReadType DEF Listen, Goto, Fail, InMessage
  <2>4. QED
    BY <2>1, <2>2, <2>3
<1>14. CASE ListenFails
  <2>1. ProgramOK'
    BY <1>14 DEF ListenFails, Fail, Label
  <2>2. BoardOK'
    BY <1>14, MisreadType DEF ListenFails, Fail, TypeOK, BoardOK
  <2>3. HistoryOK'
    BY <1>14 DEF ListenFails, Fail
  <2>4. QED
    BY <2>1, <2>2, <2>3
<1>15. CASE WindowOver
  <2>1. ProgramOK'
    <3>1. attempt' \in 0..Attempts
      BY <1>15 DEF WindowOver, Turn, Turns, Negotiating
    <3>2. QED
      BY <1>15, <3>1 DEF WindowOver, Goto, Return, Label
  <2>2. BoardOK'
    BY <1>15 DEF WindowOver, Goto, Return
  <2>3. HistoryOK'
    BY <1>15 DEF WindowOver, Goto, Return
  <2>4. QED
    BY <2>1, <2>2, <2>3
<1>16. ASSUME NEW type \in {"accept", "ps_rdy"},
              Transmitted(Sent(type, msgId)) \/ NotTransmitted,
              msgId' = Numbered(msgId), UNCHANGED <<route, attempt, phy, rail>>,
              pc' \in Label, call' \in {call, "idle"},
              result' \in {result, "request", "error"}, excused' \in BOOLEAN
       PROVE  TypeOK'
  <2>1. Sent(type, msgId) \in OutMessage
    BY DEF Sent, OutMessage
  <2>2. ProgramOK'
    BY <1>16, NextIdDiffers
  <2>3. BoardOK'
    BY <1>16, <2>1, ChipType
  <2>4. HistoryOK'
    BY <1>16, <2>1, ChipType
  <2>5. QED
    BY <2>2, <2>3, <2>4
<1>17. CASE SendAccept
  <2>1. pc' \in Label /\ call' \in {call, "idle"}
        /\ result' \in {result, "request", "error"}
        /\ excused' \in BOOLEAN
    BY <1>17 DEF SendAccept, SendNext, Proceed, Fail, Label
  <2>2. /\ Transmitted(Sent("accept", msgId)) \/ NotTransmitted
        /\ msgId' = Numbered(msgId) /\ UNCHANGED <<route, attempt, phy, rail>>
    BY <1>17 DEF SendAccept, SendNext, Answer
  <2>3. QED
    BY <1>16, <2>1, <2>2
<1>18. CASE SendPsRdy
  <2>1. pc' \in Label /\ call' \in {call, "idle"}
        /\ result' \in {result, "request", "error"}
        /\ excused' \in BOOLEAN
    BY <1>18 DEF SendPsRdy, SendNext, Fail, Label
  <2>2. /\ Transmitted(Sent("ps_rdy", msgId)) \/ NotTransmitted
        /\ msgId' = Numbered(msgId) /\ UNCHANGED <<route, attempt, phy, rail>>
    BY <1>18 DEF SendPsRdy, SendNext, Answer
  <2>3. QED
    BY <1>16, <2>1, <2>2
<1>19. ASSUME NEW type \in {"caps", "vdm"}, NEW own \in BOOLEAN, Send(type, own)
      PROVE  TypeOK'
  <2> DEFINE m == Sent(type, IF own THEN msgId ELSE Ids)
  <2>1. m \in OutMessage
    BY DEF Sent, OutMessage
  <2>2. Transmitted(m) \/ NotTransmitted
    BY <1>19 DEF Send
  <2> HIDE DEF m
  <2>3. ProgramOK'
    BY <1>19, NextIdDiffers DEF Send, Once, Label
  <2>4. BoardOK'
    BY <1>19, <2>1, <2>2, ChipType DEF Send, Once
  <2>5. HistoryOK'
    BY <1>19, <2>1, <2>2, ChipType DEF Send, Once
  <2>6. QED
    BY <2>3, <2>4, <2>5
<1>20. CASE Poll
  <2>1. ProgramOK'
    BY <1>20 DEF Poll, Once, Label
  <2>2. BoardOK'
    BY <1>20, UnreadType, MisreadType DEF Poll, Once, TypeOK, BoardOK
  <2>3. HistoryOK'
    BY <1>20 DEF Poll, Once
  <2>4. QED
    BY <2>1, <2>2, <2>3
<1>21. CASE SinkAttaches \/ SinkGivesUp
  <2>1. ProgramOK'
    BY <1>21 DEF SinkAttaches, SinkGivesUp
  <2>2. BoardOK'
    BY <1>21 DEF SinkAttaches, SinkGivesUp, SinkState
  <2>3. HistoryOK'
    BY <1>21 DEF SinkAttaches, SinkGivesUp
  <2>4. QED
    BY <2>1, <2>2, <2>3
<1>22. CASE SinkRequests \/ PartnerSaysOther
  <2>1. \A old \in BOOLEAN : [type |-> "request", old |-> old] \in InMessage
                           /\ [type |-> "other", old |-> old] \in InMessage
    BY DEF InMessage
  <2>2. rx' \in Seq(InMessage) /\ Len(rx') <= MaxQueue
    BY <1>22, <2>1, SaysType DEF SinkRequests, PartnerSaysOther
  <2>3. ProgramOK'
    BY <1>22 DEF SinkRequests, PartnerSaysOther
  <2>4. BoardOK'
    BY <1>22, <2>2 DEF SinkRequests, PartnerSaysOther, SinkState
  <2>5. HistoryOK'
    BY <1>22 DEF SinkRequests, PartnerSaysOther
  <2>6. QED
    BY <2>3, <2>4, <2>5
<1>23. CASE UNCHANGED vars
  <2>1. ProgramOK'
    BY <1>23 DEF vars
  <2>2. BoardOK'
    BY <1>23 DEF vars
  <2>3. HistoryOK'
    BY <1>23 DEF vars
  <2>4. QED
    BY <2>1, <2>2, <2>3
<1>24. ASSUME NEW type \in {"caps", "vdm"}, NEW own \in BOOLEAN,
              StageOwn(type, own)
      PROVE  TypeOK'
  <2> DEFINE m == Sent(type, IF own THEN msgId ELSE Ids)
  <2>1. m \in OutMessage /\ Nothing \in OutMessage /\ Junk \in OutMessage
    BY DEF Sent, OutMessage, Nothing, Junk
  <2>2. tx' \in {tx, Nothing, Junk, m}
    BY <1>24 DEF StageOwn
  <2> HIDE DEF m
  <2>3. ProgramOK'
    BY <1>24, NextIdDiffers DEF StageOwn, Once, Label
  <2>4. BoardOK'
    BY <1>24, <2>1, <2>2 DEF StageOwn
  <2>5. HistoryOK'
    BY <1>24 DEF StageOwn
  <2>6. QED
    BY <2>3, <2>4, <2>5
<1>25. CASE FireStaged
  <2>1. tx \in OutMessage
    OBVIOUS
  <2>2. Transmitted(tx) \/ NotTransmitted
    BY <1>25 DEF FireStaged
  <2>3. ProgramOK'
    BY <1>25 DEF FireStaged, Once, Label
  <2>4. BoardOK'
    BY <1>25, <2>1, <2>2, ChipType DEF FireStaged
  <2>5. HistoryOK'
    BY <1>25, <2>1, <2>2, ChipType DEF FireStaged
  <2>6. QED
    BY <2>3, <2>4, <2>5
<1>26. "route_aux" \in Label /\ "route_control" \in Label
  BY DEF Label
<1> HIDE DEF TypeOK, ProgramOK, BoardOK, HistoryOK, link, chip, rail, hist
<1>27. QED
  BY <1>1, <1>2, <1>3, <1>4, <1>5, <1>6, <1>7, <1>8, <1>9, <1>10, <1>11,
     <1>12, <1>13, <1>14, <1>15, <1>17, <1>18, <1>19, <1>20, <1>21, <1>22,
     <1>23, <1>24, <1>25, <1>26 DEF Next, Client, Step, World

LEMMA TurnsInductive == TypeOK /\ Turns /\ [Next]_vars => Turns'
<1> SUFFICES ASSUME TypeOK, Turns, [Next]_vars
             PROVE  Turns'
  OBVIOUS
<1>1. attempt \in 0..Attempts /\ Attempts \in Nat /\ Attempts > 0
  BY Constants DEF TypeOK, ProgramOK
<1> USE <1>1 DEF Turns, Negotiating, Enter, Once, Goto, Fail, Return
<1>2. CASE \/ \E mode \in Mode : BringUp(mode)
           \/ BringUpOff \/ BringUpProbe
           \/ BringUpRoute("route_aux", AuxRoute)
           \/ BringUpRoute("route_control", ControlRoute)
  BY <1>2 DEF BringUp, BringUpOff, BringUpProbe, BringUpRoute
<1>3. CASE \/ \E bits \in {{}, ControlRoute} : SetVbus(bits)
           \/ CycleVbus \/ Drop \/ Apply
  BY <1>3 DEF SetVbus, CycleVbus, Drop, Apply
<1>4. CASE (\E role \in {"source", "sink"} : Setup(role)) \/ Negotiate \/ Stage \/ Fire
  BY <1>4 DEF Setup, Negotiate, Stage, Fire, chip, rail
<1>5. CASE Listen \/ ListenFails
  BY <1>5 DEF Listen, ListenFails
<1>6. CASE WindowOver
  BY <1>6 DEF WindowOver, Turn
<1>7. CASE SendAccept \/ SendPsRdy
  BY <1>7 DEF SendAccept, SendPsRdy, SendNext, Proceed
<1>8. CASE \/ Poll \/ FireStaged
           \/ \E type \in {"caps", "vdm"}, own \in BOOLEAN :
                Send(type, own) \/ StageOwn(type, own)
  BY <1>8 DEF Poll, FireStaged, Send, StageOwn
<1>9. CASE World \/ UNCHANGED vars
  BY <1>9 DEF World, SinkAttaches, SinkRequests, PartnerSaysOther, SinkGivesUp,
     vars, link
<1>10. QED
  BY <1>2, <1>3, <1>4, <1>5, <1>6, <1>7, <1>8, <1>9 DEF Next, Client, Step

(* Every variable keeps its type, whatever the sink does and whatever      *)
(* fails: the FIFO stays within its size and msg_id within the header.     *)
THEOREM TypeCorrect == Spec => []TypeOK
<1>1. Init => Turns
  BY DEF Init, Turns, Negotiating
<1>2. Spec => [](TypeOK /\ Turns)
  BY <1>1, TypeInitially, TypeInductive, TurnsInductive, PTL DEF Spec
<1>3. QED
  BY <1>2, PTL

-----------------------------------------------------------------------------
(* The rail.                                                               *)

\* While the switches are being moved they are not as reported.
RailInv ==
    /\ ~upset => switches = route
    /\ pc \in {"probe", "route_aux", "route_control", "apply"} => upset

LEMMA RailInductive == TypeOK /\ RailInv /\ [Next]_vars => RailInv'
<1> SUFFICES ASSUME TypeOK, RailInv, [Next]_vars
             PROVE  RailInv'
  OBVIOUS
<1>1. upset \in BOOLEAN
  BY DEF TypeOK, HistoryOK
<1> USE <1>1 DEF RailInv, Enter, Once, Goto, Fail, Return
<1>2. CASE (\E mode \in Mode : BringUp(mode)) \/ BringUpOff \/ BringUpProbe
  BY <1>2 DEF BringUp, BringUpOff, BringUpProbe, rail
<1>3. ASSUME NEW bits, NEW label \in {"route_aux", "route_control"},
             BringUpRoute(label, bits)
      PROVE  RailInv'
  <2>1. CASE pc' = "idle" /\ upset' = FALSE
    BY <1>3, <2>1 DEF BringUpRoute, Switched, Remembered
  <2>2. CASE pc' = "idle" /\ UNCHANGED upset
    BY <1>3, <2>2 DEF BringUpRoute
  <2>3. QED
    BY <1>3, <2>1, <2>2 DEF BringUpRoute
<1>4. CASE (\E bits \in {{}, ControlRoute} : SetVbus(bits)) \/ CycleVbus \/ Drop
  BY <1>4 DEF SetVbus, CycleVbus, Drop, rail
<1>5. CASE Apply
  <2>1. CASE pc' \in {"fire", "idle"} /\ upset' = FALSE /\ Switched(route)
    BY <1>5, <2>1 DEF Apply, Switched
  <2>2. CASE pc' = "idle" /\ UNCHANGED upset
    BY <1>5, <2>2 DEF Apply
  <2>3. QED
    BY <1>5, <2>1, <2>2 DEF Apply
<1>6. CASE (\E role \in {"source", "sink"} : Setup(role)) \/ Negotiate \/ Stage \/ Fire
  BY <1>6 DEF Setup, Negotiate, Stage, Fire, rail
<1>7. CASE Listen \/ ListenFails \/ WindowOver
  BY <1>7 DEF Listen, ListenFails, WindowOver, rail
<1>8. CASE SendAccept \/ SendPsRdy
  BY <1>8 DEF SendAccept, SendPsRdy, SendNext, Proceed, rail
<1>9. CASE \/ Poll \/ FireStaged
           \/ \E type \in {"caps", "vdm"}, own \in BOOLEAN :
                Send(type, own) \/ StageOwn(type, own)
  BY <1>9 DEF Poll, FireStaged, Send, StageOwn, rail
<1>10. CASE World \/ UNCHANGED vars
  BY <1>10 DEF World, SinkAttaches, SinkRequests, PartnerSaysOther, SinkGivesUp,
     vars, link, rail
<1>11. QED
  BY <1>2, <1>3, <1>4, <1>5, <1>6, <1>7, <1>8, <1>9, <1>10
     DEF Next, Client, Step

(* Between calls the switches are closed as the last bring-up said, unless *)
(* the client set them or a call that switches the rail has failed since:  *)
(* bring_up_vbus, cycle_vbus and the cycles of negotiate_source.           *)
THEOREM RailIsAsReported == Spec => []RailAsReported
<1>1. Init => RailInv
  BY DEF Init, RailInv
<1>2. RailInv => RailAsReported
  BY DEF RailInv, RailAsReported
<1>3. Spec => []TypeOK
  BY TypeCorrect
<1>4. QED
  BY <1>1, <1>2, <1>3, RailInductive, PTL DEF Spec

-----------------------------------------------------------------------------
(* MessageIDs.                                                             *)

\* The message in the TX FIFO when negotiate_source fires is the offer with
\* the MessageID that msg_id still holds, and unless an error was returned the
\* last message sent has another one.  Otherwise the TX FIFO holds a message
\* with a MessageID only after an error, or when the client has staged it.
IdInv ==
    /\ ~repeated
    /\ ~excused => lastId # msgId
    /\ pc \in {"stage", "fire", "listen"} => call = "negotiate"
    /\ pc = "fire" \/ (pc \in {"drop", "apply"} /\ call = "negotiate")
          => tx = Sent("caps", msgId)
    /\ tx.id # Ids => \/ excused \/ pc = "fire"
                      \/ pc \in {"drop", "apply"} /\ call = "negotiate"

LEMMA SendKeepsIds ==
    ASSUME TypeOK, IdInv, NEW m \in OutMessage, m.id \in {msgId, Ids},
           Transmitted(m) \/ NotTransmitted
    PROVE  /\ ~repeated'
           /\ lastId' \in {lastId, m.id}
<1>1. msgId \in 0..Ids - 1
  BY DEF TypeOK, ProgramOK
<1>2. CASE NotTransmitted
  BY <1>2 DEF NotTransmitted, IdInv
<1>3. CASE Transmitted(m) /\ m.type \in {"nothing", "junk"}
  BY <1>3 DEF Transmitted, IdInv
<1>4. CASE Transmitted(m) /\ m.type \notin {"nothing", "junk"}
  <2>1. lastId' = m.id
        /\ repeated' = (repeated \/ (m.id = lastId /\ m.id # Ids /\ ~excused))
    BY <1>4 DEF Transmitted
  <2>2. ~(m.id = lastId /\ m.id # Ids /\ ~excused)
    BY DEF IdInv
  <2>3. QED
    BY <2>1, <2>2 DEF IdInv
<1>5. QED
  BY <1>2, <1>3, <1>4

LEMMA SentIsKept ==
    /\ \A type, id : Sent(type, id).id = id /\ Sent(type, id).type = type
    /\ Nothing.id = Ids /\ Junk.id = Ids
    /\ \A m : Transmitted(m) => tx' = Nothing
BY DEF Sent, Nothing, Junk, Transmitted

LEMMA IdInductive == TypeOK /\ IdInv /\ [Next]_vars => IdInv'
<1> SUFFICES ASSUME TypeOK, IdInv, [Next]_vars
             PROVE  IdInv'
  OBVIOUS
<1>1. /\ msgId \in 0..Ids - 1 /\ Ids \in Nat
      /\ Numbered(msgId) \in 0..Ids - 1 /\ Numbered(msgId) # msgId
  BY Constants, NextIdDiffers DEF TypeOK, ProgramOK
<1> USE DEF IdInv, Enter, Once, Goto, Fail, Return
<1>2. CASE \/ \E mode \in Mode : BringUp(mode)
           \/ BringUpOff \/ BringUpProbe
           \/ BringUpRoute("route_aux", AuxRoute)
           \/ BringUpRoute("route_control", ControlRoute)
  BY <1>2 DEF BringUp, BringUpOff, BringUpProbe, BringUpRoute, hist, chip
<1>3. CASE \/ \E bits \in {{}, ControlRoute} : SetVbus(bits)
           \/ CycleVbus \/ Drop \/ Apply
  BY <1>3 DEF SetVbus, CycleVbus, Drop, Apply, hist, chip
<1>4. CASE (\E role \in {"source", "sink"} : Setup(role)) \/ Negotiate \/ Stage
  <2>1. CASE (\E role \in {"source", "sink"} : Setup(role)) \/ Negotiate
    BY <2>1, SentIsKept DEF Setup, Negotiate, hist, chip
  <2>2. CASE Stage
    <3>1. pc = "stage" /\ call = "negotiate" /\ UNCHANGED <<msgId, lastId, repeated>>
      BY <2>2 DEF Stage
    <3>2. CASE Fail
      BY <3>1, <3>2
    <3>3. CASE tx' = Sent("caps", msgId) /\ Goto(IF route # {} THEN "drop" ELSE "fire")
      BY <3>1, <3>3
    <3>4. QED
      BY <2>2, <3>2, <3>3 DEF Stage
  <2>3. QED
    BY <1>4, <2>1, <2>2
<1>5. CASE Fire
  <2>1. tx = Sent("caps", msgId) /\ tx \in OutMessage /\ tx.id = msgId
        /\ tx.type \notin {"nothing", "junk"}
    BY <1>5, <1>1 DEF Fire, Sent, OutMessage
  <2>2. ~repeated' /\ lastId' \in {lastId, msgId}
    BY <1>5, <2>1, SendKeepsIds DEF Fire
  <2>3. CASE /\ Transmitted(tx) /\ msgId' = Numbered(msgId) /\ pc' = "listen"
             /\ UNCHANGED call
    <3>1. lastId' = msgId
      BY <2>1, <2>3 DEF Transmitted
    <3>2. QED
      BY <1>1, <1>5, <2>2, <2>3, <3>1, SentIsKept DEF Fire
  <2>4. CASE Fail
    BY <2>2, <2>4
  <2>5. QED
    BY <1>5, <2>3, <2>4 DEF Fire
<1>6. CASE Listen \/ ListenFails \/ WindowOver
  BY <1>6 DEF Listen, ListenFails, WindowOver, chip
<1>7. CASE SendAccept \/ SendPsRdy
  <2>1. PICK type \in {"accept", "ps_rdy"} :
            /\ Transmitted(Sent(type, msgId)) \/ NotTransmitted
            /\ msgId' = Numbered(msgId)
            /\ Transmitted(Sent(type, msgId)) \/ Fail
            /\ pc' \in {"ps_rdy", "idle"}
    BY <1>7 DEF SendAccept, SendPsRdy, SendNext, Answer, Proceed
  <2>2. /\ Sent(type, msgId) \in OutMessage /\ Sent(type, msgId).id = msgId
        /\ Sent(type, msgId).type \notin {"nothing", "junk"}
    BY <1>1 DEF Sent, OutMessage
  <2>3. ~repeated' /\ lastId' \in {lastId, msgId}
    BY <2>1, <2>2, SendKeepsIds
  <2>4. Transmitted(Sent(type, msgId)) => lastId' = msgId
    BY <2>2 DEF Transmitted
  <2>5. QED
    BY <1>1, <2>1, <2>3, <2>4, SentIsKept
<1>8. ASSUME NEW type \in {"caps", "vdm"}, NEW own \in BOOLEAN,
             Send(type, own)
      PROVE  IdInv'
  <2> DEFINE m == Sent(type, IF own THEN msgId ELSE Ids)
  <2>1. /\ m \in OutMessage /\ m.id = (IF own THEN msgId ELSE Ids)
        /\ m.type \notin {"nothing", "junk"}
    BY <1>1 DEF Sent, OutMessage
  <2>2. /\ Transmitted(m) \/ NotTransmitted
        /\ Transmitted(m) \/ excused' = TRUE
        /\ msgId' = (IF own THEN Numbered(msgId) ELSE msgId)
        /\ pc' = "idle"
    BY <1>8 DEF Send
  <2> HIDE DEF m
  <2>3. ~repeated'
    BY <2>1, <2>2, SendKeepsIds
  <2>4. Transmitted(m) => lastId' = m.id
    BY <2>1 DEF Transmitted
  <2>5. QED
    BY <1>1, <2>1, <2>2, <2>3, <2>4, SentIsKept
<1>9. CASE Poll
  BY <1>9 DEF Poll, hist
<1>10. CASE \E type \in {"caps", "vdm"}, own \in BOOLEAN : StageOwn(type, own)
  BY <1>10 DEF StageOwn
<1>11. CASE FireStaged
  <2>1. pc = "idle" /\ pc' = "idle" /\ excused' = TRUE /\ msgId' = msgId
    BY <1>11 DEF FireStaged
  <2>2. Transmitted(tx) \/ NotTransmitted
    BY <1>11 DEF FireStaged
  <2>3. ~repeated'
    BY <2>1, <2>2 DEF Transmitted, NotTransmitted
  <2>4. QED
    BY <2>1, <2>3
<1>12. CASE World \/ UNCHANGED vars
  BY <1>12 DEF World, SinkAttaches, SinkRequests, PartnerSaysOther, SinkGivesUp,
     vars, link, hist, chip
<1>13. QED
  BY <1>2, <1>3, <1>4, <1>5, <1>6, <1>7, <1>8, <1>9, <1>10, <1>11,
     <1>12
     DEF Next, Client, Step

(* No two messages in a row have the same MessageID, across the wrap of    *)
(* the field too, unless an error was returned in between: the offers of   *)
(* negotiate_source, its answers and send_vdm.                             *)
THEOREM MessageIdIsFresh == Spec => []FreshMessageId
<1>1. Init => IdInv
  BY Constants, SentIsKept DEF Init, IdInv
<1>2. IdInv => FreshMessageId
  BY DEF IdInv, FreshMessageId
<1>3. Spec => []TypeOK
  BY TypeCorrect
<1>4. QED
  BY <1>1, <1>2, <1>3, IdInductive, PTL DEF Spec

-----------------------------------------------------------------------------
(* The contract.                                                           *)

\* Where the sink is while its Request is answered.
ContractInv ==
    /\ pc = "accept" => sink = "requested" \/ astray
    /\ pc = "ps_rdy" => sink = "accepted" \/ astray
    /\ result = "request" => pc = "idle" /\ (sink = "ready" \/ astray)
    /\ sink # "detached" => phy = "source"

LEMMA ContractInductive == TypeOK /\ ContractInv /\ [Next]_vars => ContractInv'
<1> SUFFICES ASSUME TypeOK, ContractInv, [Next]_vars
             PROVE  ContractInv'
  OBVIOUS
<1>1. astray \in BOOLEAN /\ sink \in SinkState
  BY DEF TypeOK, HistoryOK, BoardOK
<1> USE <1>1 DEF ContractInv, Enter, Once, Goto, Fail, Return
<1>2. CASE \E mode \in Mode : BringUp(mode)
  BY <1>2 DEF BringUp, chip
<1>3. CASE BringUpOff \/ BringUpProbe
  BY <1>3 DEF BringUpOff, BringUpProbe, Switched, NotSwitched, chip
<1>4. CASE \/ BringUpRoute("route_aux", AuxRoute)
           \/ BringUpRoute("route_control", ControlRoute)
  BY <1>4 DEF BringUpRoute, Switched, NotSwitched, chip
<1>5. CASE (\E bits \in {{}, ControlRoute} : SetVbus(bits)) \/ CycleVbus
  BY <1>5 DEF SetVbus, CycleVbus, Switched, NotSwitched, chip
<1>6. CASE Drop \/ Apply
  BY <1>6 DEF Drop, Apply, Switched, NotSwitched, chip
<1>7. CASE (\E role \in {"source", "sink"} : Setup(role)) \/ Negotiate \/ Stage
  BY <1>7 DEF Setup, Negotiate, Stage, chip
<1>8. CASE Fire
  BY <1>8 DEF Fire, Transmitted, NotTransmitted, Heard, Reaction
<1>9. CASE Listen \/ ListenFails \/ WindowOver
  BY <1>9 DEF Listen, ListenFails, WindowOver, chip
<1>10. CASE SendAccept
  BY <1>10 DEF SendAccept, SendNext, Answer, Proceed, Transmitted,
     NotTransmitted, Heard, Reaction, Sent
<1>11. CASE SendPsRdy
  BY <1>11 DEF SendPsRdy, SendNext, Answer, Transmitted, NotTransmitted,
     Heard, Reaction, Sent
<1>12. CASE \/ Poll \/ FireStaged
            \/ \E type \in {"caps", "vdm"}, own \in BOOLEAN :
                 Send(type, own) \/ StageOwn(type, own)
  BY <1>12 DEF Poll, FireStaged, Send, StageOwn, Transmitted, NotTransmitted,
     Heard, Reaction, Sent
<1>13. CASE World \/ UNCHANGED vars
  BY <1>13 DEF World, SinkAttaches, SinkRequests, PartnerSaysOther, SinkGivesUp,
     vars, link, chip
<1>14. QED
  BY <1>2, <1>3, <1>4, <1>5, <1>6, <1>7, <1>8, <1>9, <1>10, <1>11, <1>12,
     <1>13 DEF Next, Client, Step

(* A Request that negotiate_source returns has led to a contract, if it    *)
(* answers the last offer and nothing went wrong outside the program.      *)
THEOREM SuccessIsContract == Spec => []SuccessMeansContract
<1>1. Init => ContractInv
  BY DEF Init, ContractInv
<1>2. ContractInv => SuccessMeansContract
  BY DEF ContractInv, SuccessMeansContract
<1>3. Spec => []TypeOK
  BY TypeCorrect
<1>4. QED
  BY <1>1, <1>2, <1>3, ContractInductive, PTL DEF Spec

-----------------------------------------------------------------------------
(* The programs over the link, PdCommands.                                 *)

(* The steps of a call are taken inside it. *)
LEMMA StepIsInCall == Step => pc # "idle"
  BY DEF Step, BringUpOff, BringUpProbe, BringUpRoute, Drop, Apply, Stage, Fire,
         Listen, ListenFails, WindowOver, SendAccept, SendPsRdy

(* The inside of a call: it fails only by leaving the call.                *)
LEMMA StepLeavesOnError ==
    ASSUME Step, result # "error"
    PROVE  /\ result' = "error" => pc' = "idle"
           /\ pc' # "idle" => result' # "error"
<1> USE DEF Goto, Fail, Return
<1>1. CASE BringUpOff
  BY <1>1 DEF BringUpOff
<1>2. CASE BringUpProbe
  BY <1>2 DEF BringUpProbe
<1>3. CASE BringUpRoute("route_aux", AuxRoute)
           \/ BringUpRoute("route_control", ControlRoute)
  BY <1>3 DEF BringUpRoute
<1>4. CASE Drop
  BY <1>4 DEF Drop
<1>5. CASE Apply
  BY <1>5 DEF Apply
<1>6. CASE Stage
  BY <1>6 DEF Stage
<1>7. CASE Fire
  BY <1>7 DEF Fire
<1>8. CASE Listen
  BY <1>8 DEF Listen
<1>9. CASE ListenFails \/ WindowOver
  BY <1>9 DEF ListenFails, WindowOver
<1>10. CASE SendAccept
  BY <1>10 DEF SendAccept, SendNext, Proceed
<1>11. CASE SendPsRdy
  BY <1>11 DEF SendPsRdy, SendNext
<1>12. QED
  BY <1>1, <1>2, <1>3, <1>4, <1>5, <1>6, <1>7, <1>8, <1>9, <1>10, <1>11 DEF Step

-----------------------------------------------------------------------------
(* The switches are closed in one of the sets that the code writes, and so *)
(* is the route it remembers.                                              *)
Routed ==
    /\ switches \in {{}, AuxRoute, ControlRoute, Discharging}
    /\ route \in {{}, AuxRoute, ControlRoute}

(* One step per call; those that only talk leave the rail alone.           *)
LEMMA RoutedInductive == Routed /\ [CmdNext]_allVars => Routed'
<1> SUFFICES ASSUME Routed, [CmdNext]_allVars
             PROVE  Routed'
  OBVIOUS
<1> USE DEF Routed, Switched, NotSwitched, rail
<1>1. ASSUME NEW bits \in {{}, AuxRoute, ControlRoute}, SetVbus(bits)
      PROVE  Routed'
  BY <1>1 DEF SetVbus
<1>2. ASSUME NEW mode, BringUp(mode)
      PROVE  Routed'
  BY <1>2 DEF BringUp
<1>3. ASSUME NEW role, Setup(role)
      PROVE  Routed'
  BY <1>3 DEF Setup
<1>4. ASSUME NEW type, NEW own, Send(type, own)
      PROVE  Routed'
  BY <1>4 DEF Send
<1>5. CASE CycleVbus \/ Negotiate \/ Poll \/ FireStaged
           \/ \E type \in {"caps", "vdm"}, own \in BOOLEAN : StageOwn(type, own)
  BY <1>5 DEF CycleVbus, Negotiate, Poll, FireStaged, StageOwn
<1>6. ASSUME NEW r, Touch(r)
      PROVE  Routed'
  BY <1>6 DEF Touch
<1>7. CASE UNCHANGED vars
  BY <1>7 DEF vars, link
<1>8. CASE Step
  <2>1. CASE BringUpOff
    BY <2>1 DEF BringUpOff
  <2>2. CASE BringUpRoute("route_aux", AuxRoute)
    BY <2>2 DEF BringUpRoute, Remembered
  <2>3. CASE BringUpRoute("route_control", ControlRoute)
    BY <2>3 DEF BringUpRoute, Remembered
  <2>4. CASE Drop
    BY <2>4 DEF Drop
  <2>5. CASE Apply
    BY <2>5 DEF Apply
  <2>6. CASE BringUpProbe \/ Stage \/ Fire \/ Listen \/ ListenFails \/ WindowOver
             \/ SendAccept \/ SendPsRdy
    BY <2>6 DEF BringUpProbe, Stage, Fire, Listen, ListenFails, WindowOver,
                SendAccept, SendPsRdy, SendNext
  <2>7. QED
    BY <1>8, <2>1, <2>2, <2>3, <2>4, <2>5, <2>6 DEF Step
<1>9. CASE World
  BY <1>9 DEF World, SinkAttaches, SinkRequests, PartnerSaysOther, SinkGivesUp,
              link
<1>10. CASE Calls
  BY <1>1, <1>2, <1>3, <1>4, <1>5, <1>10 DEF Calls, Client
<1>11. CASE OpensRail \/ Routes
  BY <1>1, <1>11 DEF OpensRail, Routes, Done, Do
<1>12. CASE Connect \/ Supplied \/ Checks \/ Flushes
  BY <1>6, <1>12 DEF Connect, Supplied, Checks, Flushes, Access, Done, Do
<1>13. CASE SendBringsUp
  BY <1>2, <1>13 DEF SendBringsUp, Done, Do
<1>14. CASE SetsUp("source", "setup_source") \/ SetsUp("sink", "setup_sink")
            \/ Presents
  BY <1>3, <1>14 DEF SetsUp, Presents, Done, Do
<1>15. CASE SendsRaw \/ SendsVdm \/ Offers
  BY <1>4, <1>15 DEF SendsRaw, SendsVdm, Offers, Done, Do
<1>16. CASE SendNegotiates \/ PassReads \/ Drains \/ Hears \/ PassOver
  BY <1>5, <1>16 DEF SendNegotiates, PassReads, Drains, Hears, PassOver, Done, Do
<1>17. CASE DrainOver \/ OffersAnew \/ DurationOver \/ Quits \/ Ends
            \/ UNCHANGED allVars
  BY <1>7, <1>17 DEF DrainOver, OffersAnew, DurationOver, Quits, Ends, Done, Do,
                     allVars
<1>18. QED
  BY <1>8, <1>9, <1>10, <1>11, <1>12, <1>13, <1>14, <1>15, <1>16, <1>17
     DEF CmdNext, Forced, Polls, InCall

(* AUX and CONTROL never feed the rail together, whatever programs run     *)
(* after one another, in whatever order their calls succeed or fail.       *)
THEOREM NeverFedTwice == CmdSpec => []NoBackFeed
<1>1. CmdInit => Routed
  BY DEF CmdInit, Init, Routed
<1>2. Routed => NoBackFeed
  BY DEF Routed, NoBackFeed, AuxRoute, ControlRoute, Discharging
<1>3. QED
  BY <1>1, <1>2, RoutedInductive, PTL DEF CmdSpec

-----------------------------------------------------------------------------
(* The plan of a program that keeps a trace ends with the flush, unless it *)
(* is about to bail out.                                                   *)
TracedStep == {"connect", "setup_sink", "setup_source", "negotiate", "bring_up",
               "raw", "vdm", "drain", "flush", "bail", "offer", "window",
               "pass", "last"}
Closed(q)  == /\ q \in Seq(TracedStep) /\ q # <<>>
              /\ q[Len(q)] \in {"flush", "bail"}

LEMMA TailCloses ==
    ASSUME NEW q, Closed(q), Head(q) \notin {"flush", "bail"}
    PROVE  Closed(Tail(q))
<1>1. /\ q \in Seq(TracedStep) /\ Len(q) \in Nat /\ Len(q) # 0
      /\ Head(q) = q[1]
  BY LenProperties, HeadTailProperties DEF Closed
<1>2. Len(q) # 1
  BY <1>1 DEF Closed
<1>3. /\ Tail(q) \in Seq(TracedStep) /\ Len(Tail(q)) = Len(q) - 1
      /\ \A i \in 1..Len(Tail(q)) : Tail(q)[i] = q[i + 1]
  BY <1>1, HeadTailProperties DEF Closed
<1>4. Tail(q)[Len(Tail(q))] = q[Len(q)] /\ Tail(q) # <<>>
  <2>1. Len(q) - 1 \in 1..Len(Tail(q)) /\ Len(q) - 1 + 1 = Len(q)
    BY <1>1, <1>2, <1>3
  <2>2. Tail(q)[Len(q) - 1] = q[Len(q)]
    BY <1>3, <2>1
  <2>3. Tail(q) # <<>>
    BY <2>1
  <2>4. QED
    BY <1>3, <2>2, <2>3
<1>5. QED
  BY <1>3, <1>4 DEF Closed

LEMMA ConcatCloses ==
    ASSUME NEW p \in Seq(TracedStep), NEW q, Closed(q)
    PROVE  Closed(p \o q)
<1>1. /\ q \in Seq(TracedStep)
      /\ Len(q) \in Nat /\ Len(q) > 0 /\ Len(p) \in Nat
  BY LenProperties DEF Closed
<1>2. /\ p \o q \in Seq(TracedStep)
      /\ Len(p \o q) = Len(p) + Len(q)
      /\ \A i \in 1..Len(p) + Len(q) :
            (p \o q)[i] = IF i <= Len(p) THEN p[i] ELSE q[i - Len(p)]
  BY <1>1, ConcatProperties
<1>3. (p \o q)[Len(p \o q)] = q[Len(q)] /\ p \o q # <<>>
  BY <1>1, <1>2
<1>4. QED
  BY <1>2, <1>3 DEF Closed

LEMMA ClosingCloses == Closed(Closing) /\ Closed(<<"bail">>)
<1>1. <<"flush">> \in Seq(TracedStep) /\ <<"bail">> \in Seq(TracedStep)
  BY DEF TracedStep
<1>2. /\ Len(<<"flush">>) = 1 /\ <<"flush">>[1] = "flush"
      /\ Len(<<"bail">>) = 1 /\ <<"bail">>[1] = "bail"
  OBVIOUS
<1>3. QED
  BY <1>1, <1>2 DEF Closed, Closing

(* Each of the traced programs ends with its flush, however long it is.    *)
LEMMA ProgramsClose == \A p \in Traced : Closed(p)
<1>1. ASSUME NEW role \in PdSendRole, NEW talk \in PdSendTalk
      PROVE  Closed(<<"connect">> \o role \o talk \o <<"drain">> \o Closing)
  <2>1. role \in Seq(TracedStep) /\ talk \in Seq(TracedStep)
    <3>1. \A r \in PdSendRole : r \in Seq(TracedStep)
      <4>1. /\ <<>> \in Seq(TracedStep)
            /\ <<"setup_sink">> \in Seq(TracedStep)
            /\ <<"setup_source">> \in Seq(TracedStep)
        BY EmptySeq DEF TracedStep
      <4>2. /\ <<"setup_source", "negotiate">> \in Seq(TracedStep)
            /\ <<"bring_up", "setup_source">> \in Seq(TracedStep)
            /\ <<"bring_up", "setup_source", "negotiate">> \in Seq(TracedStep)
        BY DEF TracedStep
      <4>3. QED
        BY <4>1, <4>2, Zenon DEF PdSendRole
    <3>2. \A t \in PdSendTalk : t \in Seq(TracedStep)
      <4>1. /\ <<"raw", "drain">> \in Seq(TracedStep)
            /\ <<"vdm", "drain">> \in Seq(TracedStep)
            /\ <<"raw", "drain", "vdm", "drain">> \in Seq(TracedStep)
        BY DEF TracedStep
      <4>2. QED
        BY <4>1, Zenon DEF PdSendTalk
    <3>3. QED
      BY <3>1, <3>2, Zenon
  <2>2. <<"connect">> \in Seq(TracedStep) /\ <<"drain">> \in Seq(TracedStep)
    BY DEF TracedStep
  <2>3. <<"connect">> \o role \o talk \o <<"drain">> \in Seq(TracedStep)
    BY <2>1, <2>2, ConcatProperties
  <2>4. QED
    BY <2>3, ConcatCloses, ClosingCloses
<1>2. Closed(PdSource)
  <2>1. <<"connect", "setup_source", "offer">> \in Seq(TracedStep)
    BY DEF TracedStep
  <2>2. QED
    BY <2>1, ConcatCloses, ClosingCloses DEF PdSource
<1>3. Closed(PdListen)
  <2>1. MaxPasses \in Nat
    BY CommandAssumption
  <2>2. Repeat("pass", MaxPasses) \in Seq(TracedStep)
    <3>1. Repeat("pass", MaxPasses) \in [1..MaxPasses -> TracedStep]
      BY DEF Repeat, TracedStep
    <3>2. QED
      BY <2>1, <3>1, SeqDef
  <2>3. <<"connect", "setup_sink">> \in Seq(TracedStep)
    BY DEF TracedStep
  <2>4. <<"connect", "setup_sink">> \o Repeat("pass", MaxPasses)
           \in Seq(TracedStep)
    BY <2>2, <2>3, ConcatProperties
  <2>5. QED
    BY <2>4, ConcatCloses, ClosingCloses DEF PdListen
<1>4. \A p \in PdSend : Closed(p)
  <2>1. SUFFICES ASSUME NEW p \in PdSend
                 PROVE  Closed(p)
    OBVIOUS
  <2>2. PICK role \in PdSendRole, talk \in PdSendTalk :
           p = <<"connect">> \o role \o talk \o <<"drain">> \o Closing
    BY <2>1, SMTT(60) DEF PdSend
  <2>3. QED
    BY <1>1, <2>2, Zenon
<1>5. QED
  BY <1>2, <1>3, <1>4 DEF Traced

-----------------------------------------------------------------------------
(* A trace is torn only by the error that the program then leaves with,    *)
(* and while it is in the buffer the flush is still to come.               *)
OtherStep == {"connect", "open_rail", "supply", "present", "route", "check", "any"}

TraceInv ==
    /\ trace \in {"none", "buffered", "kept", "torn"}
    /\ pc # "idle" => result # "error"
    /\ exit # "running" => pc = "idle"
    /\ exit = "ok" => trace \in {"kept", "none"}
    /\ exit = "running" =>
         /\ trace # "none" => plan \in Seq(TracedStep)
         /\ trace = "none" => plan \in Seq(OtherStep)
         /\ trace = "torn" => pc = "idle" /\ result = "error"
         /\ trace = "buffered" => Closed(plan)

(* What a step does to the trace, whichever call it makes: it leaves an    *)
(* error only between calls, and the rest of the plan still closes.        *)
LEMMA DoKeepsTrace ==
    ASSUME TraceInv, exit = "running", UNCHANGED exit, Recorded,
           trace # "torn",
           result' = "error" => pc' = "idle",
           trace # "none" => plan' \in Seq(TracedStep),
           trace = "none" => plan' \in Seq(OtherStep),
           trace = "buffered" => Closed(plan')
    PROVE  TraceInv'
  BY DEF TraceInv, Recorded, Closed

(* A step of the plan that fails returns, and one that does not may go on. *)
LEMMA CallsLeaveOnError ==
    /\ \A mode : BringUp(mode) => (result' = "error" => pc' = "idle")
    /\ \A bits : SetVbus(bits) => (result' = "error" => pc' = "idle")
    /\ \A role : Setup(role) => (result' = "error" => pc' = "idle")
    /\ \A type, own : Send(type, own) => (result' = "error" => pc' = "idle")
    /\ \A r : Touch(r) => (result' = "error" => pc' = "idle")
    /\ \A type, own : StageOwn(type, own) => (result' = "error" => pc' = "idle")
    /\ CycleVbus \/ Negotiate \/ Poll \/ FireStaged
          => (result' = "error" => pc' = "idle")
  BY DEF BringUp, SetVbus, Setup, Send, StageOwn, Touch, CycleVbus, Negotiate,
         Poll, FireStaged, Enter, Once

LEMMA TraceInductive == TraceInv /\ [CmdNext]_allVars => TraceInv'
<1> SUFFICES ASSUME TraceInv, [CmdNext]_allVars
             PROVE  TraceInv'
  OBVIOUS
<1> DEFINE Returns == result' = "error" => pc' = "idle"
<1>1. ASSUME NEW step \in TracedStep \ {"connect", "flush", "bail"}, NEW rest,
             At(step), Returns, plan' = rest, Recorded, UNCHANGED exit,
             rest \in {plan, Tail(plan), <<"offer">> \o Tail(plan),
                       <<"window">> \o Tail(plan), <<"bail">>,
                       <<"last">> \o Closing, Closing}
      PROVE  TraceInv'
  <2>1. exit = "running" /\ trace # "torn" /\ plan # <<>> /\ Head(plan) = step
    BY <1>1 DEF At, TraceInv
  <2>2. trace # "none" => plan \in Seq(TracedStep)
    BY <2>1 DEF TraceInv
  <2>3. trace # "none" => Tail(plan) \in Seq(TracedStep)
    BY <2>1, <2>2, HeadTailProperties
  <2>4. /\ <<"offer">> \in Seq(TracedStep) /\ <<"window">> \in Seq(TracedStep)
        /\ <<"last">> \in Seq(TracedStep)
    BY DEF TracedStep
  <2>5. /\ Closed(Closing) /\ Closed(<<"bail">>)
        /\ Closed(<<"last">> \o Closing)
    BY <2>4, ClosingCloses, ConcatCloses
  <2>6. trace # "none" => rest \in Seq(TracedStep)
    <3>1. \A q : Closed(q) => q \in Seq(TracedStep)
      BY DEF Closed
    <3>2. trace # "none" => /\ <<"offer">> \o Tail(plan) \in Seq(TracedStep)
                            /\ <<"window">> \o Tail(plan) \in Seq(TracedStep)
      BY <2>3, <2>4, ConcatProperties
    <3>3. QED
      BY <1>1, <2>2, <2>3, <2>5, <3>1, <3>2, Zenon
  <2>7. trace = "buffered" => Closed(rest)
    <3>1. SUFFICES ASSUME trace = "buffered"
                   PROVE  Closed(rest)
      OBVIOUS
    <3>2. Closed(plan)
      BY <2>1, <3>1 DEF TraceInv
    <3>3. Closed(Tail(plan))
      BY <1>1, <2>1, <3>2, TailCloses
    <3>4. Closed(<<"offer">> \o Tail(plan)) /\ Closed(<<"window">> \o Tail(plan))
      BY <2>4, <3>3, ConcatCloses
    <3>5. QED
      BY <1>1, <2>5, <3>2, <3>3, <3>4, Zenon
  <2>8. trace # "none"
    BY <1>1, <2>1, HeadTailProperties DEF TraceInv, OtherStep, TracedStep
  <2>9. QED
    BY <1>1, <2>1, <2>6, <2>7, <2>8, DoKeepsTrace
<1>2. CASE Connect \/ OpensRail \/ Routes \/ Supplied \/ Checks \/ Presents
  <2>1. /\ Recorded /\ UNCHANGED exit /\ exit = "running" /\ Returns
        /\ plan # <<>> /\ plan' = Tail(plan) /\ trace # "torn"
        /\ Head(plan) \notin {"flush", "bail"}
    BY <1>2, CallsLeaveOnError
       DEF Connect, OpensRail, Routes, Supplied, Checks, Presents, Access, Done,
           Do, At, TraceInv
  <2>2. /\ trace # "none" => plan' \in Seq(TracedStep)
        /\ trace = "none" => plan' \in Seq(OtherStep)
    BY <2>1, HeadTailProperties DEF TraceInv
  <2>3. trace = "buffered" => Closed(plan')
    BY <2>1, TailCloses DEF TraceInv
  <2>4. QED
    BY <2>1, <2>2, <2>3, DoKeepsTrace
<1>3. CASE SendBringsUp
  BY <1>1, <1>3, CallsLeaveOnError DEF SendBringsUp, Done, Do, TracedStep
<1>4. CASE SetsUp("source", "setup_source")
  BY <1>1, <1>4, CallsLeaveOnError DEF SetsUp, Do, TracedStep
<1>5. CASE SetsUp("sink", "setup_sink")
  BY <1>1, <1>5, CallsLeaveOnError DEF SetsUp, Do, TracedStep
<1>6. CASE SendNegotiates
  BY <1>1, <1>6, CallsLeaveOnError DEF SendNegotiates, Done, Do, TracedStep
<1>7. CASE SendsRaw \/ SendsVdm
  BY <1>1, <1>7, CallsLeaveOnError DEF SendsRaw, SendsVdm, Done, Do, TracedStep
<1>8. CASE Offers
  BY <1>1, <1>8, CallsLeaveOnError DEF Offers, Do, TracedStep
<1>9. CASE Drains \/ Hears
  BY <1>1, <1>9, CallsLeaveOnError DEF Drains, Hears, Do, TracedStep
<1>10. CASE PassReads
  BY <1>1, <1>10, CallsLeaveOnError DEF PassReads, Do, TracedStep
<1>11. CASE PassOver
  BY <1>1, <1>11, CallsLeaveOnError DEF PassOver, AfterPass, Do, TracedStep
<1>12. CASE DrainOver \/ OffersAnew \/ DurationOver
  BY <1>1, <1>12 DEF DrainOver, OffersAnew, DurationOver, Done, Do, TracedStep,
                     vars, link, At
<1>13. CASE Calls
  <2>1. /\ exit = "running" /\ UNCHANGED <<exit, trace>>
        /\ plan # <<>> /\ Head(plan) \notin TracedStep /\ plan' = Tail(plan)
    BY <1>13 DEF Calls, TracedStep
  <2>2. trace = "none" /\ plan' \in Seq(OtherStep)
    BY <2>1, HeadTailProperties DEF TraceInv
  <2>3. Returns
    BY <1>13, CallsLeaveOnError DEF Calls, Client
  <2>4. QED
    BY <2>1, <2>2, <2>3 DEF TraceInv
<1>14. CASE Flushes
  <2>1. Returns
    BY <1>14, CallsLeaveOnError DEF Flushes
  <2>2. /\ exit = "running" /\ UNCHANGED exit /\ plan # <<>> /\ plan' = Tail(plan)
        /\ trace # "torn" /\ pc' = "idle"
    BY <1>14 DEF Flushes, At, Touch, Once, TraceInv
  <2>3. trace # "none"
    <3>1. Head(plan) \notin OtherStep
      BY <1>14 DEF Flushes, At, OtherStep
    <3>2. QED
      BY <2>2, <3>1, HeadTailProperties DEF TraceInv
  <2>4. trace' = "kept" \/ (trace' = "torn" /\ result' = "error")
    <3>1. trace \in {"buffered", "kept"}
      BY <2>2, <2>3 DEF TraceInv
    <3>2. CASE trace' = IF trace = "buffered" THEN "kept" ELSE trace
      BY <3>1, <3>2
    <3>3. CASE Touch("error") /\ trace' = "torn"
      BY <3>3 DEF Touch, Once
    <3>4. QED
      BY <1>14, <3>2, <3>3 DEF Flushes
  <2>5. QED
    BY <2>1, <2>2, <2>3, <2>4, HeadTailProperties DEF TraceInv
<1>15. CASE InCall(Step)
  <2>1. UNCHANGED <<plan, exit>> /\ Recorded
    BY <1>15 DEF InCall
  <2>2. result # "error" /\ pc # "idle" /\ exit = "running"
    BY <1>15, StepIsInCall DEF TraceInv, InCall
  <2>3. Returns
    BY <1>15, <2>2, StepLeavesOnError DEF InCall
  <2>4. QED
    BY <2>1, <2>2, <2>3, DoKeepsTrace DEF TraceInv
<1>16. CASE World /\ UNCHANGED cmd
  BY <1>16 DEF World, SinkAttaches, SinkRequests, PartnerSaysOther, SinkGivesUp,
               link, cmd, TraceInv
<1>17. CASE Quits \/ Ends
  BY <1>17 DEF Quits, Ends, At, Dropped, vars, link, TraceInv, Closed
<1>18. CASE UNCHANGED allVars
  BY <1>18 DEF allVars, vars, link, cmd, TraceInv
<1>19. QED
  BY <1>2, <1>3, <1>4, <1>5, <1>6, <1>7, <1>8, <1>9, <1>10, <1>11, <1>12,
     <1>13, <1>14, <1>15, <1>16, <1>17, <1>18
     DEF CmdNext, Forced, Polls

(* A program that succeeds has kept its whole trace: what it sent and what *)
(* it took out of the RX FIFO is in the file.                              *)
THEOREM TraceIsKept == CmdSpec => []SuccessKeepsTrace
<1>1. CmdInit => TraceInv
  <2>1. SUFFICES ASSUME CmdInit
                 PROVE  TraceInv
    OBVIOUS
  <2>2. plan \in Traced => Closed(plan) /\ trace = "buffered"
    BY <2>1, ProgramsClose DEF CmdInit
  <2>3. plan \notin Traced => trace = "none" /\ plan \in {Charge, Library}
    BY <2>1 DEF CmdInit, Programs
  <2>4. Charge \in Seq(OtherStep) /\ Library \in Seq(OtherStep)
    <3>1. AnyCalls \in Nat
      BY CommandAssumption
    <3>2. Library \in [1..AnyCalls -> OtherStep]
      BY DEF Library, Repeat, OtherStep
    <3>3. Library \in Seq(OtherStep)
      BY <3>1, <3>2, SeqDef
    <3>4. Charge \in Seq(OtherStep)
      BY DEF Charge, OtherStep
    <3>5. QED
      BY <3>3, <3>4
  <2>5. pc = "idle" /\ exit = "running"
    BY <2>1 DEF CmdInit, Init
  <2>6. QED
    BY <2>2, <2>3, <2>4, <2>5 DEF TraceInv, Closed
<1>2. TraceInv => SuccessKeepsTrace
  BY DEF TraceInv, SuccessKeepsTrace
<1>3. QED
  BY <1>1, <1>2, TraceInductive, PTL DEF CmdSpec

-----------------------------------------------------------------------------
(***************************************************************************)
(* PcapNg.  Integers are read back from their digits, options and blocks   *)
(* from their bytes; the file of k messages holds, one behind the other,   *)
(* the blocks that the reader comes to.  FileInv says at which of them it  *)
(* is and that it has seen just the messages in front of it.               *)
(***************************************************************************)

(* Integers as digits.                                                     *)

TraceByte == 0..B - 1

\* What the sizes of a byte, a u16 and a u32 have to do with each other.
LEMMA Sizes ==
    /\ B \in Nat /\ B >= 8 /\ Half \in Nat /\ Half = B * B /\ Half >= 64
    /\ Word \in Nat /\ Word = Half * Half /\ Word >= 64 * Half
<1>1. B \in Nat /\ B >= 8
  BY PcapNgAssumption
<1>2. B * B \in Nat /\ B * B >= 64
  BY <1>1
<1> DEFINE h == B * B
<1>3. h \in Nat /\ h >= 64 /\ h * h \in Nat /\ h * h >= 64 * h
  <2> HIDE DEF h
  <2>1. h \in Nat /\ h >= 64
    BY <1>2 DEF h
  <2>2. QED
    BY <2>1
<1>4. QED
  BY <1>1, <1>3 DEF Half, Word

\* Quotient and remainder, with a divisor that is not a numeral.
LEMMA DivIs ==
    ASSUME NEW b \in Nat, b > 0, NEW v \in Nat
    PROVE  /\ v \div b \in Nat /\ v % b \in 0..b - 1
           /\ v = b * (v \div b) + (v % b)
  OBVIOUS

LEMMA DivLess ==
    ASSUME NEW b \in Nat, b > 0, NEW v \in Nat, NEW c \in Nat, v < b * c
    PROVE  v \div b < c
  BY DivIs

LEMMA DivUnique ==
    ASSUME NEW b \in Nat, b > 0, NEW c \in Nat, NEW k \in 0..b - 1
    PROVE  (b * c + k) \div b = c /\ (b * c + k) % b = k
<1> DEFINE v == b * c + k
           q == v \div b
           r == v % b
<1>1. v \in Nat /\ b * c \in Nat
  OBVIOUS
<1>2. q \in Nat /\ r \in 0..b - 1 /\ v = b * q + r
  <2> HIDE DEF v
  <2>1. QED
    BY <1>1, DivIs
<1>3. b * q \in Nat /\ b * q + r = b * c + k
  BY <1>2
<1> HIDE DEF q, r, v
<1>4. ~ (q < c)
  <2> SUFFICES ASSUME q < c PROVE FALSE
    OBVIOUS
  <2>1. q + 1 <= c
    BY <1>2
  <2>2. b * (q + 1) <= b * c
    BY <1>2, <2>1
  <2>3. b * (q + 1) = b * q + b
    BY <1>2
  <2>4. QED
    BY <1>1, <1>2, <1>3, <2>2, <2>3
<1>5. ~ (c < q)
  <2> SUFFICES ASSUME c < q PROVE FALSE
    OBVIOUS
  <2>1. c + 1 <= q
    BY <1>2
  <2>2. b * (c + 1) <= b * q
    BY <1>2, <2>1
  <2>3. b * (c + 1) = b * c + b
    OBVIOUS
  <2>4. QED
    BY <1>1, <1>2, <1>3, <2>2, <2>3
<1>6. q = c
  BY <1>2, <1>4, <1>5
<1>7. r = k
  BY <1>1, <1>2, <1>3, <1>6
<1>8. QED
  BY <1>6, <1>7 DEF q, r, v

\* Two digits of a number below Half are that number.
LEMMA DigitsAre ==
    ASSUME NEW v \in 0..Half - 1
    PROVE  /\ Digits(v) \in Seq(TraceByte) /\ Len(Digits(v)) = 2
           /\ Digits(v)[1] + B * Digits(v)[2] = v
<1> DEFINE q == v \div B
           r == v % B
<1>1. B \in Nat /\ B > 0 /\ v \in Nat /\ v < B * B
  BY Sizes
<1>2. q \in Nat /\ r \in TraceByte /\ v = B * q + r
  BY <1>1, DivIs DEF TraceByte
<1>3. q < B
  BY <1>1, DivLess
<1>4. q % B = q
  <2> HIDE DEF q
  <2>1. QED
    BY <1>1, <1>2, <1>3
<1> DEFINE s == <<r, q % B>>
<1>5. Digits(v) = s
  BY DEF Digits
<1> HIDE DEF q, r
<1>6. q \in TraceByte
  BY <1>1, <1>2, <1>3 DEF TraceByte
<1>7. s \in Seq(TraceByte) /\ Len(s) = 2 /\ s[1] = r /\ s[2] = q
  BY <1>2, <1>4, <1>6
<1> HIDE DEF s
<1>8. s[1] + B * s[2] = v
  <2>1. B * q \in Nat /\ r \in Nat
    BY <1>1, <1>2 DEF TraceByte
  <2>2. QED
    BY <1>2, <1>7, <2>1
<1>9. QED
  BY <1>5, <1>7, <1>8

\* The reader turns round what the writer has turned round.
LEMMA LowOrdered ==
    ASSUME foreign \in BOOLEAN, NEW s \in Seq(TraceByte)
    PROVE  /\ Ordered(s) \in Seq(TraceByte) /\ Len(Ordered(s)) = Len(s)
           /\ Low(Ordered(s), ~ foreign) = s
<1>1. Reverse(s) \in Seq(TraceByte) /\ Len(Reverse(s)) = Len(s) /\ Reverse(Reverse(s)) = s
  BY ReverseIs, ReverseTwice
<1>2. CASE foreign
  <2>1. Ordered(s) = Reverse(s) /\ Low(Ordered(s), ~ foreign) = Reverse(Ordered(s))
    BY <1>2, Zenon DEF Ordered, Low
  <2>2. QED
    BY <1>1, <2>1
<1>3. CASE ~ foreign
  <2>1. Ordered(s) = s /\ Low(Ordered(s), ~ foreign) = Ordered(s)
    BY <1>3, Zenon DEF Ordered, Low
  <2>2. QED
    BY <2>1
<1>4. QED
  BY <1>2, <1>3

\* What is written of a u16 or a u32 is read as it.
LEMMA U16Is ==
    ASSUME foreign \in BOOLEAN, NEW v \in 0..Half - 1
    PROVE  /\ U16(v) \in Seq(TraceByte) /\ Len(U16(v)) = 2
           /\ Rd16(U16(v), ~ foreign) = v
<1> DEFINE s == Digits(v)
<1>1. s \in Seq(TraceByte) /\ Len(s) = 2 /\ s[1] + B * s[2] = v
  BY DigitsAre
<1> HIDE DEF s
<1>2. /\ Ordered(s) \in Seq(TraceByte) /\ Len(Ordered(s)) = Len(s)
      /\ Low(Ordered(s), ~ foreign) = s
  BY <1>1, LowOrdered
<1>3. U16(v) = Ordered(s)
  BY DEF U16, s
<1>4. Rd16(U16(v), ~ foreign) = s[1] + B * s[2]
  BY <1>2, <1>3, Zenon DEF Rd16
<1>5. QED
  BY <1>1, <1>2, <1>3, <1>4

\* A u32 is read as it was written, in both orders.
LEMMA U32Is ==
    ASSUME foreign \in BOOLEAN, NEW v \in 0..Word - 1
    PROVE  /\ U32(v) \in Seq(TraceByte) /\ Len(U32(v)) = 4
           /\ Rd32(U32(v), ~ foreign) = v
<1> DEFINE q == v \div Half
           r == v % Half
           s == Digits(v)
           t == Digits(q)
           u == s \o t
<1>1. B \in Nat /\ B > 0 /\ Half \in Nat /\ Half > 0 /\ v \in Nat /\ v < Half * Half /\ Half = B * B
  BY Sizes
<1>2. q \in Nat /\ r \in 0..Half - 1 /\ v = Half * q + r
  BY <1>1, DivIs
<1>3. q \in 0..Half - 1
  <2>1. q < Half
    BY <1>1, DivLess
  <2> HIDE DEF q
  <2>2. QED
    BY <1>1, <1>2, <2>1
<1>4. t \in Seq(TraceByte) /\ Len(t) = 2 /\ t[1] + B * t[2] = q
  BY <1>3, DigitsAre
<1>5. s \in Seq(TraceByte) /\ Len(s) = 2 /\ s[1] + B * s[2] = r
  <2> DEFINE d == Digits(r)
  <2>1. d \in Seq(TraceByte) /\ Len(d) = 2 /\ d[1] + B * d[2] = r
    BY <1>2, DigitsAre
  <2> DEFINE a == B * q
  <2>2. a \in Nat /\ v = B * a + r
    <3> HIDE DEF q, r
    <3>1. Half * q = B * (B * q) /\ B * q \in Nat
      BY <1>1, <1>2
    <3>2. QED
      BY <1>2, <3>1
  <2> HIDE DEF a
  <2>3. r % B = v % B /\ (r \div B) % B = (v \div B) % B
    <3> DEFINE m == r \div B
               k == r % B
    <3>1. m \in Nat /\ k \in 0..B - 1 /\ r = B * m + k
      <4>1. r \in Nat
        BY <1>2
      <4> HIDE DEF r
      <4>2. QED
        BY <1>1, <4>1, DivIs
    <3> HIDE DEF m, k
    <3>2. v = B * (a + m) + k
      <4>1. B * (a + m) = B * a + B * m /\ B * a \in Nat /\ B * m \in Nat
        BY <1>1, <2>2, <3>1
      <4> HIDE DEF r
      <4>2. QED
        BY <1>1, <2>2, <3>1, <4>1
    <3>3. v \div B = a + m /\ v % B = k
      <4>1. a + m \in Nat
        BY <2>2, <3>1
      <4>2. (B * (a + m) + k) \div B = a + m /\ (B * (a + m) + k) % B = k
        BY <1>1, <3>1, <4>1, DivUnique
      <4>3. QED
        BY <3>2, <4>2
    <3>4. (a + m) % B = m % B
      <4>1. a = B * q /\ q \in Nat
        BY <1>2 DEF a
      <4> HIDE DEF q
      <4>2. QED
        BY <1>1, <3>1, <4>1
    <3>5. QED
      BY <3>3, <3>4 DEF m, k
  <2>4. d = s
    BY <2>3 DEF Digits
  <2>5. QED
    BY <2>1, <2>4
<1> HIDE DEF q, r, s, t
<1>6. /\ u \in Seq(TraceByte) /\ Len(u) = 4
      /\ u[1] = s[1] /\ u[2] = s[2] /\ u[3] = t[1] /\ u[4] = t[2]
  <2>1. /\ u \in Seq(TraceByte) /\ Len(u) = Len(s) + Len(t)
        /\ \A i \in 1..Len(s) + Len(t) : u[i] = IF i <= Len(s) THEN s[i] ELSE t[i - Len(s)]
    BY <1>4, <1>5, Joined
  <2>2. QED
    BY <1>4, <1>5, <2>1
<1> HIDE DEF u
<1>7. /\ Ordered(u) \in Seq(TraceByte) /\ Len(Ordered(u)) = Len(u)
      /\ Low(Ordered(u), ~ foreign) = u
  BY <1>6, LowOrdered
<1>8. U32(v) = Ordered(u)
  BY DEF U32, q, s, t, u
<1>9. Rd32(U32(v), ~ foreign) = u[1] + B * u[2] + Half * (u[3] + B * u[4])
  BY <1>7, <1>8, Zenon DEF Rd32
<1>10. u[1] + B * u[2] + Half * (u[3] + B * u[4]) = v
  <2>1. u[1] + B * u[2] = r /\ u[3] + B * u[4] = q
    BY <1>4, <1>5, <1>6
  <2>2. Half * q \in Nat /\ r \in Nat
    BY <1>1, <1>2
  <2>3. QED
    BY <1>2, <2>1, <2>2
<1>11. QED
  BY <1>6, <1>7, <1>8, <1>9, <1>10

-----------------------------------------------------------------------------
(* Where a sequence is in another.                                         *)

\* s has y behind its first i elements.
Holds(s, i, y) ==
    /\ i \in Nat /\ i + Len(y) <= Len(s)
    /\ \A j \in 1..Len(y) : s[i + j] = y[j]

\* What a sequence holds at a place is the slice of it there.
LEMMA HoldsSlice ==
    ASSUME NEW S, NEW s \in Seq(S), NEW y \in Seq(S), NEW i, Holds(s, i, y)
    PROVE  Slice(s, i, Len(y)) = y
<1> DEFINE n == Len(y)
           l == Len(s)
           x == SubSeq(s, i + 1, i + n)
<1>1. n \in Nat /\ l \in Nat /\ i \in Nat /\ i + n <= l
      /\ \A j \in 1..n : s[i + j] = y[j]
  BY DEF Holds
<1> HIDE DEF n, l
<1>2. i + 1 \in 1..l + 1 /\ i + n \in (i + 1) - 1..l
      /\ (i + n) - (i + 1) + 1 = n /\ \A j \in 1..n : (i + 1) + j - 1 = i + j
  BY <1>1
<1>3. i + 1 \in 1..Len(s) + 1 /\ i + n \in (i + 1) - 1..Len(s)
  BY <1>2 DEF l
<1>4. /\ x \in Seq(S) /\ Len(x) = (i + n) - (i + 1) + 1
      /\ \A j \in 1..(i + n) - (i + 1) + 1 : x[j] = s[(i + 1) + j - 1]
  BY ONLY s \in Seq(S), <1>3, PartIs
<1> HIDE DEF x
<1>5. Len(x) = n /\ \A j \in 1..n : x[j] = y[j]
  BY <1>1, <1>2, <1>4
<1>6. x = y
  BY <1>4, <1>5, SeqEqual DEF n
<1>7. QED
  BY <1>6 DEF Slice, x, n

\* What a sequence has, it has where that one is.
LEMMA HoldsIn ==
    ASSUME NEW S, NEW s \in Seq(S), NEW y \in Seq(S), NEW z \in Seq(S), NEW i, NEW k,
           Holds(s, i, y), Holds(y, k, z)
    PROVE  Holds(s, i + k, z)
<1> DEFINE l == Len(s)
           m == Len(y)
           n == Len(z)
<1>1. l \in Nat /\ m \in Nat /\ n \in Nat
  OBVIOUS
<1>2. i \in Nat /\ i + m <= l /\ \A j \in 1..m : s[i + j] = y[j]
  BY DEF Holds
<1>3. k \in Nat /\ k + n <= m /\ \A j \in 1..n : y[k + j] = z[j]
  BY DEF Holds
<1> HIDE DEF l, m, n
<1>4. i + k \in Nat /\ (i + k) + n <= l
  BY <1>1, <1>2, <1>3
<1>5. ASSUME NEW j \in 1..n PROVE s[(i + k) + j] = z[j]
  <2>1. k + j \in 1..m /\ (i + k) + j = i + (k + j)
    BY <1>1, <1>2, <1>3
  <2>2. QED
    BY <1>2, <1>3, <2>1
<1>6. QED
  BY <1>4, <1>5 DEF Holds, l, n

\* Two sequences in the one they are joined to.
LEMMA HoldsJoined ==
    ASSUME NEW S, NEW x \in Seq(S), NEW y \in Seq(S)
    PROVE  /\ x \o y \in Seq(S) /\ Len(x \o y) = Len(x) + Len(y)
           /\ Holds(x \o y, 0, x) /\ Holds(x \o y, Len(x), y)
<1> DEFINE w == x \o y
           m == Len(x)
           n == Len(y)
<1>1. m \in Nat /\ n \in Nat
  OBVIOUS
<1>2. /\ w \in Seq(S) /\ Len(w) = Len(x) + Len(y)
      /\ \A i \in 1..Len(x) + Len(y) : w[i] = IF i <= Len(x) THEN x[i] ELSE y[i - Len(x)]
  BY Joined
<1>3. Len(w) = m + n /\ \A i \in 1..m + n : w[i] = IF i <= m THEN x[i] ELSE y[i - m]
  BY <1>2
<1> HIDE DEF w, m, n
<1>4. ASSUME NEW j \in 1..m PROVE w[0 + j] = x[j]
  <2>1. j \in 1..m + n /\ j <= m /\ 0 + j = j
    BY <1>1
  <2>2. QED
    BY <1>3, <2>1
<1>5. ASSUME NEW j \in 1..n PROVE w[m + j] = y[j]
  <2>1. m + j \in 1..m + n /\ ~ (m + j <= m) /\ (m + j) - m = j
    BY <1>1
  <2>2. QED
    BY <1>3, <2>1
<1>6. 0 + m <= m + n /\ m + n <= m + n
  BY <1>1
<1>7. Holds(w, 0, x)
  BY <1>3, <1>4, <1>6 DEF Holds, m
<1>8. Holds(w, m, y)
  BY <1>1, <1>3, <1>5, <1>6 DEF Holds, n
<1>9. QED
  BY <1>2, <1>7, <1>8 DEF w, m

\* A part of a sequence has what is in its place.
LEMMA SliceHolds ==
    ASSUME NEW S, NEW s \in Seq(S), NEW i \in Nat, NEW k \in Nat, i + k <= Len(s),
           NEW y \in Seq(S), NEW m \in Nat, Holds(s, i + m, y), m + Len(y) <= k
    PROVE  /\ Slice(s, i, k) \in Seq(S) /\ Len(Slice(s, i, k)) = k
           /\ Holds(Slice(s, i, k), m, y)
<1> DEFINE n == Len(y)
           l == Len(s)
           x == SubSeq(s, i + 1, i + k)
<1>1. n \in Nat /\ l \in Nat /\ m + n <= k /\ i + k <= l
      /\ \A j \in 1..n : s[(i + m) + j] = y[j]
  BY DEF Holds
<1> HIDE DEF n, l
<1>2. i + 1 \in 1..l + 1 /\ i + k \in (i + 1) - 1..l
      /\ (i + k) - (i + 1) + 1 = k /\ \A j \in 1..k : (i + 1) + j - 1 = i + j
  BY <1>1
<1>3. i + 1 \in 1..Len(s) + 1 /\ i + k \in (i + 1) - 1..Len(s)
  BY <1>2 DEF l
<1>4. /\ x \in Seq(S) /\ Len(x) = (i + k) - (i + 1) + 1
      /\ \A j \in 1..(i + k) - (i + 1) + 1 : x[j] = s[(i + 1) + j - 1]
  BY ONLY s \in Seq(S), <1>3, PartIs
<1> HIDE DEF x
<1>5. Len(x) = k /\ \A j \in 1..k : x[j] = s[i + j]
  BY <1>2, <1>4
<1>6. ASSUME NEW j \in 1..n PROVE x[m + j] = y[j]
  <2>1. m + j \in 1..k /\ i + (m + j) = (i + m) + j
    BY <1>1
  <2>2. QED
    BY <1>1, <1>5, <2>1
<1>7. Holds(x, m, y)
  BY <1>1, <1>5, <1>6 DEF Holds, n
<1>8. QED
  BY <1>4, <1>5, <1>7 DEF Slice, x

-----------------------------------------------------------------------------
(* Padding.                                                                *)

\* Padding fills up to a multiple of four with less than four bytes.
LEMMA PaddingIs ==
    ASSUME NEW n \in Nat
    PROVE  /\ Padding(n) \in Seq(TraceByte) /\ Len(Padding(n)) \in 0..3
           /\ (n + Len(Padding(n))) % 4 = 0
           /\ \A m \in Nat : m % 4 = 0 => Len(Padding(m + n)) = Len(Padding(n))
<1> DEFINE p(k) == (-k) % 4
           z(k) == [i \in 1..p(k) |-> 0]
<1>1. \A k \in Nat : p(k) \in 0..3
  OBVIOUS
<1>2. (n + p(n)) % 4 = 0 /\ \A m \in Nat : m % 4 = 0 => p(m + n) = p(n)
  OBVIOUS
<1> HIDE DEF p
<1>3. \A k \in Nat : z(k) \in Seq(TraceByte) /\ Len(z(k)) = p(k)
  <2> SUFFICES ASSUME NEW k \in Nat PROVE z(k) \in Seq(TraceByte) /\ Len(z(k)) = p(k)
    OBVIOUS
  <2>1. 0 \in TraceByte
    BY Sizes DEF TraceByte
  <2>2. p(k) \in Nat
    BY <1>1
  <2>3. QED
    BY <2>1, <2>2
<1>4. \A k : Padding(k) = z(k)
  BY DEF Padding, p
<1> HIDE DEF z
<1>5. /\ Padding(n) \in Seq(TraceByte) /\ Len(Padding(n)) = p(n) /\ p(n) \in 0..3
      /\ \A m \in Nat : Len(Padding(m + n)) = p(m + n)
  <2>1. \A m \in Nat : m + n \in Nat
    OBVIOUS
  <2>2. QED
    BY <1>1, <1>3, <1>4, <2>1
<1>6. QED
  BY <1>2, <1>5

LEMMA PaddedIs ==
    ASSUME NEW s \in Seq(TraceByte)
    PROVE  /\ Padded(s) \in Seq(TraceByte) /\ Holds(Padded(s), 0, s)
           /\ Len(Padded(s)) = Len(s) + Len(Padding(Len(s)))
           /\ Len(Padded(s)) % 4 = 0 /\ Len(Padded(s)) \in Len(s)..Len(s) + 3
<1> DEFINE n == Len(s)
           z == Padding(n)
<1>1. n \in Nat
  OBVIOUS
<1>2. z \in Seq(TraceByte) /\ Len(z) \in 0..3 /\ (n + Len(z)) % 4 = 0
  BY <1>1, PaddingIs
<1>3. Padded(s) = s \o z
  BY DEF Padded
<1> HIDE DEF z
<1>4. s \o z \in Seq(TraceByte) /\ Len(s \o z) = Len(s) + Len(z) /\ Holds(s \o z, 0, s)
  BY <1>2, HoldsJoined
<1>5. Len(s \o z) % 4 = 0 /\ Len(s \o z) \in n..n + 3
  <2> DEFINE c == Len(z)
             l == Len(s \o z)
  <2>1. c \in 0..3 /\ (n + c) % 4 = 0 /\ l = n + c
    BY <1>2, <1>4
  <2> HIDE DEF c, l, n
  <2>2. n + c \in n..n + 3
    BY <1>1, <2>1
  <2>3. l % 4 = 0 /\ l \in n..n + 3
    BY <2>1, <2>2
  <2>4. QED
    BY <2>3 DEF l
<1>6. Len(s \o z) = Len(s) + Len(Padding(Len(s)))
  BY <1>4 DEF z
<1>7. QED
  BY <1>3, <1>4, <1>5, <1>6

-----------------------------------------------------------------------------
(* Blocks.                                                                 *)

\* s has a block of that type behind its first i bytes, with p for a body.
BlockAt(s, i, type, p) ==
    /\ Holds(s, i, type) /\ Holds(s, i + 4, U32(12 + Len(p))) /\ Holds(s, i + 8, p)
    /\ i + (12 + Len(p)) <= Len(s)

\* What the types, the length and the body of a block are.
BlockParts(type, p) ==
    type \in Seq(TraceByte) /\ Len(type) = 4 /\ p \in Seq(TraceByte) /\ 12 + Len(p) < Word

\* The total length of a block fits its u32.
LEMMA TotalIs ==
    ASSUME foreign \in BOOLEAN, NEW type, NEW p, BlockParts(type, p)
    PROVE  /\ 12 + Len(p) \in 0..Word - 1
           /\ U32(12 + Len(p)) \in Seq(TraceByte) /\ Len(U32(12 + Len(p))) = 4
           /\ Rd32(U32(12 + Len(p)), ~ foreign) = 12 + Len(p)
<1> DEFINE v == 12 + Len(p)
<1>1. v \in Nat /\ v < Word /\ Word \in Nat
  BY Sizes DEF BlockParts
<1> HIDE DEF v
<1>2. v \in 0..Word - 1
  BY <1>1
<1>3. U32(v) \in Seq(TraceByte) /\ Len(U32(v)) = 4 /\ Rd32(U32(v), ~ foreign) = v
  BY <1>2, U32Is
<1>4. QED
  BY <1>2, <1>3 DEF v

\* Three sequences behind a first one.
LEMMA HoldsFour ==
    ASSUME NEW S, NEW x \in Seq(S), NEW y \in Seq(S), NEW z \in Seq(S), NEW w \in Seq(S)
    PROVE  LET s == ((x \o y) \o z) \o w
           IN  /\ s \in Seq(S) /\ Len(s) = ((Len(x) + Len(y)) + Len(z)) + Len(w)
               /\ Holds(s, 0, x) /\ Holds(s, Len(x), y)
               /\ Holds(s, Len(x) + Len(y), z) /\ Holds(s, (Len(x) + Len(y)) + Len(z), w)
<1> DEFINE a == x \o y
           b == a \o z
           s == b \o w
<1>1. a \in Seq(S) /\ Len(a) = Len(x) + Len(y) /\ Holds(a, 0, x) /\ Holds(a, Len(x), y)
  BY HoldsJoined
<1> HIDE DEF a
<1>2. b \in Seq(S) /\ Len(b) = Len(a) + Len(z) /\ Holds(b, 0, a) /\ Holds(b, Len(a), z)
  BY <1>1, HoldsJoined
<1> HIDE DEF b
<1>3. s \in Seq(S) /\ Len(s) = Len(b) + Len(w) /\ Holds(s, 0, b) /\ Holds(s, Len(b), w)
  BY <1>2, HoldsJoined
<1> HIDE DEF s
<1>4. Holds(s, 0 + 0, a) /\ Holds(s, 0 + Len(a), z)
  BY <1>1, <1>2, <1>3, HoldsIn
<1> DEFINE la == Len(a)
           lx == Len(x)
<1>5. la \in Nat /\ lx \in Nat
  BY <1>1
<1> HIDE DEF la, lx
<1>6. 0 + 0 = 0 /\ 0 + la = la /\ 0 + lx = lx
  BY <1>5
<1>7. Holds(s, 0, a) /\ Holds(s, Len(a), z)
  BY <1>4, <1>6 DEF la
<1>8. Holds(s, 0 + 0, x) /\ Holds(s, 0 + Len(x), y)
  BY <1>1, <1>3, <1>7, HoldsIn
<1>9. Holds(s, 0, x) /\ Holds(s, Len(x), y)
  BY <1>6, <1>8 DEF lx
<1>10. QED
  BY <1>1, <1>2, <1>3, <1>7, <1>9 DEF a, b, s

\* A block begins with its type and length, and then has its body.
LEMMA BlockIs ==
    ASSUME foreign \in BOOLEAN, NEW type, NEW body \in Seq(TraceByte),
           BlockParts(type, Padded(body))
    PROVE  /\ Block(type, body) \in Seq(TraceByte)
           /\ Len(Block(type, body)) = 12 + Len(Padded(body))
           /\ BlockAt(Block(type, body), 0, type, Padded(body))
<1> DEFINE p == Padded(body)
           n == Len(body)
           c == Len(Padding(n))
           total == U32((12 + n) + c)
           s == ((type \o total) \o p) \o total
<1>1. p \in Seq(TraceByte) /\ Len(p) = n + c
  BY PaddedIs
<1>2. Block(type, body) = s
  BY DEF Block
<1>3. n \in Nat /\ c \in Nat
  <2>1. n \in Nat
    OBVIOUS
  <2> HIDE DEF n
  <2>2. QED
    BY <2>1, PaddingIs
<1>4. (12 + n) + c = 12 + Len(p)
  <2> HIDE DEF n, c, p
  <2>1. QED
    BY <1>1, <1>3
<1>5. total = U32(12 + Len(p))
  BY <1>4
<1>6. type \in Seq(TraceByte) /\ Len(type) = 4
  BY DEF BlockParts
<1>7. total \in Seq(TraceByte) /\ Len(total) = 4
  BY <1>5, TotalIs
<1> HIDE DEF p, total
<1>8. /\ s \in Seq(TraceByte) /\ Len(s) = ((Len(type) + Len(total)) + Len(p)) + Len(total)
      /\ Holds(s, 0, type) /\ Holds(s, Len(type), total) /\ Holds(s, Len(type) + Len(total), p)
  <2>1. p \in Seq(TraceByte) /\ type \in Seq(TraceByte) /\ total \in Seq(TraceByte)
    BY <1>1, <1>6, <1>7
  <2>2. QED
    BY ONLY <2>1, HoldsFour
<1> HIDE DEF s
<1> DEFINE m == Len(p)
<1>9. m \in Nat
  BY <1>1
<1>10. Len(s) = ((4 + 4) + m) + 4 /\ Holds(s, 4, total) /\ Holds(s, 4 + 4, p)
  BY <1>6, <1>7, <1>8
<1> HIDE DEF m
<1>11. ((4 + 4) + m) + 4 = 12 + m /\ 0 + 4 = 4 /\ 4 + 4 = 0 + 8 /\ 0 + (12 + m) <= 12 + m
  BY <1>9
<1>12. Len(s) = 12 + m /\ Holds(s, 0 + 4, total) /\ Holds(s, 0 + 8, p)
  BY <1>10, <1>11
<1>13. BlockAt(s, 0, type, p)
  BY <1>5, <1>8, <1>11, <1>12 DEF BlockAt, m
<1>14. QED
  BY <1>2, <1>8, <1>12, <1>13 DEF m, p

\* A block of a part of a sequence is one of the sequence.
LEMMA BlockIn ==
    ASSUME foreign \in BOOLEAN, NEW type, NEW p, BlockParts(type, p),
           NEW s \in Seq(TraceByte), NEW y \in Seq(TraceByte), NEW i, NEW k,
           Holds(s, i, y), BlockAt(y, k, type, p)
    PROVE  BlockAt(s, i + k, type, p)
<1> DEFINE total == U32(12 + Len(p))
           m == 12 + Len(p)
<1>1. type \in Seq(TraceByte) /\ p \in Seq(TraceByte) /\ total \in Seq(TraceByte)
  BY TotalIs DEF BlockParts
<1>2. /\ Holds(y, k, type) /\ Holds(y, k + 4, total) /\ Holds(y, k + 8, p)
      /\ k + m <= Len(y)
  BY DEF BlockAt
<1>3. m \in Nat
  BY <1>1
<1> HIDE DEF total, m
<1>4. Holds(s, i + k, type) /\ Holds(s, i + (k + 4), total) /\ Holds(s, i + (k + 8), p)
  BY <1>1, <1>2, HoldsIn
<1>5. i \in Nat /\ k \in Nat /\ i + Len(y) <= Len(s)
  BY <1>2 DEF Holds
<1>6. i + (k + 4) = (i + k) + 4 /\ i + (k + 8) = (i + k) + 8
  BY <1>5
<1>7. (i + k) + m <= Len(s)
  <2> DEFINE ly == Len(y)
             ls == Len(s)
  <2>1. ly \in Nat /\ ls \in Nat /\ k + m <= ly /\ i + ly <= ls
    BY <1>2, <1>5
  <2> HIDE DEF ly, ls
  <2>2. (i + k) + m <= ls
    BY <1>3, <1>5, <2>1
  <2>3. QED
    BY <2>2 DEF ls
<1>8. Holds(s, (i + k) + 4, total) /\ Holds(s, (i + k) + 8, p)
  BY <1>4, <1>6
<1>9. QED
  BY <1>4, <1>7, <1>8 DEF BlockAt, total, m

-----------------------------------------------------------------------------
(* The reader's view of a block.                                           *)

\* The first twelve bytes of a block, as the reader cuts them out.
LEMMA HeaderIs ==
    ASSUME foreign \in BOOLEAN, file \in Seq(TraceByte), off \in Nat,
           NEW type, NEW p, BlockParts(type, p), BlockAt(file, off, type, p)
    PROVE  /\ SubSeq(Header, 1, 4) = type
           /\ SubSeq(Header, 5, 8) = U32(12 + Len(p))
           /\ \A m \in Seq(TraceByte) :
                (Len(m) = 4 /\ Holds(p, 0, m)) => SubSeq(Header, 9, 12) = m
<1> DEFINE total == U32(12 + Len(p))
           h == Slice(file, off, 12)
           n == Len(p)
           l == Len(file)
<1>1. /\ type \in Seq(TraceByte) /\ Len(type) = 4 /\ p \in Seq(TraceByte)
      /\ total \in Seq(TraceByte) /\ Len(total) = 4
  BY TotalIs DEF BlockParts
<1>2. n \in Nat /\ l \in Nat
  BY <1>1
<1>3. Holds(file, off, type) /\ Holds(file, off + 4, total) /\ Holds(file, off + 8, p)
      /\ off + (12 + n) <= l
  BY DEF BlockAt
<1>4. Header = h
  BY DEF Header
<1> HIDE DEF total, n, l, h
<1>5. off + 12 <= l /\ off + 0 = off
  BY <1>2, <1>3
<1>6. off + 12 <= Len(file) /\ 12 \in Nat
  BY <1>5 DEF l
<1>7. ASSUME NEW y \in Seq(TraceByte), NEW m \in Nat, Len(y) = 4, m + 4 <= 12,
             Holds(file, off + m, y)
      PROVE  SubSeq(h, m + 1, m + 4) = y
  <2>1. m + Len(y) <= 12
    BY <1>7
  <2>2. h \in Seq(TraceByte) /\ Holds(h, m, y)
    BY <1>6, <1>7, <2>1, SliceHolds DEF h
  <2>3. Slice(h, m, Len(y)) = y
    BY <2>2, HoldsSlice
  <2>4. QED
    BY <1>7, <2>3 DEF Slice
<1>8. SubSeq(h, 0 + 1, 0 + 4) = type
  <2>1. Holds(file, off + 0, type) /\ 0 + 4 <= 12 /\ 0 \in Nat
    BY <1>3, <1>5
  <2>2. QED
    BY ONLY <1>1, <1>7, <2>1
<1>9. SubSeq(h, 4 + 1, 4 + 4) = total
  BY <1>1, <1>3, <1>7
<1>10. ASSUME NEW m \in Seq(TraceByte), Len(m) = 4, Holds(p, 0, m)
       PROVE  SubSeq(h, 9, 12) = m
  <2>1. Holds(file, (off + 8) + 0, m)
    BY <1>1, <1>3, <1>10, HoldsIn
  <2>2. (off + 8) + 0 = off + 8
    OBVIOUS
  <2>3. SubSeq(h, 8 + 1, 8 + 4) = m
    BY <1>7, <1>10, <2>1, <2>2
  <2>4. QED
    BY <2>3
<1>11. SubSeq(h, 1, 4) = type /\ SubSeq(h, 5, 8) = total
  BY <1>8, <1>9
<1>12. QED
  BY <1>4, <1>10, <1>11 DEF total

\* A block is read as what it is once the order is known,
LEMMA BodyIs ==
    ASSUME foreign \in BOOLEAN, file \in Seq(TraceByte), off \in Nat, Order = ~ foreign,
           NEW type, NEW p, BlockParts(type, p), BlockAt(file, off, type, p)
    PROVE  Type = Rd32(type, ~ foreign) /\ Total = 12 + Len(p) /\ Body = p
<1> DEFINE total == U32(12 + Len(p))
           n == Len(p)
<1>1. SubSeq(Header, 1, 4) = type /\ SubSeq(Header, 5, 8) = total
  BY HeaderIs
<1>2. Rd32(total, ~ foreign) = 12 + n
  BY TotalIs
<1>3. Type = Rd32(type, ~ foreign)
  BY <1>1, Zenon DEF Type
<1>4. Total = Rd32(total, ~ foreign)
  BY <1>1, Zenon DEF Total
<1>5. p \in Seq(TraceByte)
  BY DEF BlockParts
<1>6. n \in Nat
  BY <1>5
<1>7. Holds(file, off + 8, p)
  BY DEF BlockAt
<1>8. Slice(file, off + 8, n) = p
  BY <1>5, <1>7, HoldsSlice
<1> HIDE DEF n, total
<1>9. Total = 12 + n /\ (12 + n) - 12 = n
  BY <1>2, <1>4, <1>6
<1>10. Total - 12 = n
  BY <1>9
<1>11. Body = p
  BY <1>8, <1>10 DEF Body
<1>12. QED
  BY <1>3, <1>9, <1>11 DEF n

\* which it is in a block that begins no section,
LEMMA OrderKept ==
    ASSUME foreign \in BOOLEAN, file \in Seq(TraceByte), off \in Nat, le = ~ foreign,
           NEW type, NEW p, BlockParts(type, p), BlockAt(file, off, type, p), type # SHB
    PROVE  Order = ~ foreign
<1>1. SubSeq(Header, 1, 4) = type
  BY HeaderIs
<1>2. QED
  BY <1>1, Zenon DEF Order

\* Four bytes, as a sequence.
LEMMA FourBytes ==
    ASSUME NEW s \in [1..4 -> TraceByte]
    PROVE  s \in Seq(TraceByte) /\ Len(s) = 4
<1>1. s = [i \in 1..4 |-> s[i]] /\ \A i \in 1..4 : s[i] \in TraceByte
  OBVIOUS
<1>2. 4 \in Nat
  OBVIOUS
<1>3. QED
  BY ONLY <1>1, <1>2, Listed

OurMagic == IF foreign THEN Reverse(Magic) ELSE Magic

\* A writer of either order has a magic of its own.
LEMMA MagicIs ==
    ASSUME foreign \in BOOLEAN
    PROVE  /\ OurMagic \in Seq(TraceByte) /\ Len(OurMagic) = 4
           /\ (OurMagic = Magic) = ~ foreign
<1>1. Magic \in [1..4 -> TraceByte] /\ Reverse(Magic) # Magic
  BY PcapNgAssumption DEF TraceByte
<1>2. Magic \in Seq(TraceByte) /\ Len(Magic) = 4
  BY <1>1, FourBytes
<1>3. Reverse(Magic) \in Seq(TraceByte) /\ Len(Reverse(Magic)) = Len(Magic)
  BY <1>2, ReverseIs
<1>4. CASE foreign
  <2>1. OurMagic = Reverse(Magic)
    BY <1>4, Zenon DEF OurMagic
  <2>2. (OurMagic = Magic) = FALSE
    BY <1>1, <2>1
  <2>3. QED
    BY <1>2, <1>3, <1>4, <2>1, <2>2
<1>5. CASE ~ foreign
  <2>1. OurMagic = Magic
    BY <1>5, Zenon DEF OurMagic
  <2>2. (OurMagic = Magic) = TRUE
    BY <2>1
  <2>3. QED
    BY <1>2, <1>5, <2>1, <2>2
<1>6. QED
  BY <1>4, <1>5

\* The reader finds the order of a section by its magic.
LEMMA OrderFound ==
    ASSUME foreign \in BOOLEAN, file \in Seq(TraceByte), off \in Nat,
           NEW p, BlockParts(SHB, p), BlockAt(file, off, SHB, p), Holds(p, 0, OurMagic)
    PROVE  Order = ~ foreign
<1>1. SubSeq(Header, 1, 4) = SHB /\ SubSeq(Header, 9, 12) = OurMagic
  BY HeaderIs, MagicIs
<1>2. Order = (OurMagic = Magic)
  BY <1>1, Zenon DEF Order
<1>3. QED
  BY <1>2, MagicIs

\* The types of the blocks.
LEMMA TypesAre ==
    ASSUME foreign \in BOOLEAN
    PROVE  /\ SHB \in Seq(TraceByte) /\ Len(SHB) = 4
           /\ Rd32(SHB, ~ foreign) \notin {1, 6}
           /\ \A v \in {1, 5, 6} :
                /\ U32(v) \in Seq(TraceByte) /\ Len(U32(v)) = 4
                /\ Rd32(U32(v), ~ foreign) = v /\ U32(v) # SHB
<1>1. SHB \in [1..4 -> TraceByte] /\ Reverse(SHB) = SHB
  BY PcapNgAssumption DEF TraceByte
<1>2. SHB \in Seq(TraceByte) /\ Len(SHB) = 4
  BY <1>1, FourBytes
<1>3. SHB[1] = SHB[4]
  <2>1. \A i \in 1..Len(SHB) : Reverse(SHB)[i] = SHB[(Len(SHB) - i) + 1]
    BY ONLY <1>2, ReverseIs
  <2>2. 1 \in 1..Len(SHB) /\ (Len(SHB) - 1) + 1 = 4
    BY <1>2
  <2>3. QED
    BY <1>1, <2>1, <2>2
<1>4. /\ B \in Nat /\ B >= 8 /\ Half \in Nat /\ Half = B * B /\ Half >= 64
      /\ Word \in Nat /\ Word >= 64 * Half
  BY Sizes
<1>5. Rd32(SHB, ~ foreign) \notin {1, 6}
  <2>1. Low(SHB, ~ foreign) = SHB
    BY <1>1, Zenon DEF Low
  <2> DEFINE a == SHB[1]
             b == SHB[2]
             c == SHB[3]
  <2>2. a \in 0..B - 1 /\ b \in 0..B - 1 /\ c \in 0..B - 1
    BY <1>1 DEF TraceByte
  <2>3. Rd32(SHB, ~ foreign) = a + B * b + Half * (c + B * a)
    BY <1>3, <2>1, Zenon DEF Rd32
  <2> HIDE DEF a, b, c
  <2>4. CASE a = 0
    <3>1. b = 0 \/ b >= 1
      BY <1>4, <2>2
    <3>2. b >= 1 => B * b >= B
      BY <1>4, <2>2
    <3>3. c = 0 \/ c >= 1
      BY <1>4, <2>2
    <3>4. c >= 1 => Half * c >= Half
      BY <1>4, <2>2
    <3>5. B * b \in Nat /\ Half * c \in Nat /\ c + B * a = c
      BY <1>4, <2>2, <2>4
    <3>6. b = 0 => B * b = 0
      BY <1>4
    <3>7. c = 0 => Half * c = 0
      BY <1>4
    <3> DEFINE x == B * b
               y == Half * c
    <3>8. Rd32(SHB, ~ foreign) = a + x + y
      BY <2>3, <3>5
    <3>9. (x = 0 \/ x >= 8) /\ (y = 0 \/ y >= 64) /\ x \in Nat /\ y \in Nat
      <4>1. x = 0 \/ x >= B
        BY <3>1, <3>2, <3>6
      <4>2. y = 0 \/ y >= Half
        BY <3>3, <3>4, <3>7
      <4> HIDE DEF x, y
      <4>3. x \in Nat /\ y \in Nat
        BY <3>5 DEF x, y
      <4>4. QED
        BY <1>4, <4>1, <4>2, <4>3
    <3> HIDE DEF x, y
    <3>10. a + x + y # 1 /\ a + x + y # 6
      BY <2>4, <3>9
    <3>11. QED
      BY <3>8, <3>10
  <2>5. CASE a # 0
    <3> DEFINE x == B * b
               y == B * a
               d == c + y
               z == Half * d
    <3>1. x \in Nat /\ y \in Nat
      BY <1>4, <2>2
    <3>2. a >= 1
      BY <1>4, <2>2, <2>5
    <3>3. y >= B
      BY <1>4, <2>2, <3>2
    <3> HIDE DEF x, y
    <3>4. d \in Nat /\ d >= 8
      BY <1>4, <2>2, <3>1, <3>3
    <3> HIDE DEF d
    <3>5. z \in Nat /\ z >= Half
      BY <1>4, <3>4
    <3>6. Rd32(SHB, ~ foreign) = a + x + z
      BY <2>3 DEF x, y, d
    <3> HIDE DEF z
    <3>7. a + x + z # 1 /\ a + x + z # 6
      BY <1>4, <2>2, <3>1, <3>5
    <3>8. QED
      BY <3>6, <3>7
  <2>6. QED
    BY <2>4, <2>5
<1>6. ASSUME NEW v \in {1, 5, 6}
      PROVE  /\ U32(v) \in Seq(TraceByte) /\ Len(U32(v)) = 4
             /\ Rd32(U32(v), ~ foreign) = v /\ U32(v) # SHB
  <2>1. v \in 0..Word - 1 /\ v \in 0..B - 1 /\ v # 0
    BY <1>4
  <2>2. U32(v) \in Seq(TraceByte) /\ Len(U32(v)) = 4 /\ Rd32(U32(v), ~ foreign) = v
    BY <2>1, U32Is
  <2>3. v % B = v /\ v \div B = 0 /\ v \div Half = 0
    <3>1. v \in 0..Half - 1
      BY <1>4, <2>1
    <3>2. B * 0 + v = v /\ Half * 0 + v = v
      BY <1>4, <2>1
    <3>3. (B * 0 + v) \div B = 0 /\ (B * 0 + v) % B = v
      BY <1>4, <2>1, DivUnique
    <3>4. (Half * 0 + v) \div Half = 0
      BY <1>4, <3>1, DivUnique
    <3>5. QED
      BY <3>2, <3>3, <3>4
  <2>4. 0 % B = 0 /\ 0 \div B = 0
    <3>1. B * 0 + 0 = 0 /\ 0 \in 0..B - 1
      BY <1>4
    <3>2. (B * 0 + 0) \div B = 0 /\ (B * 0 + 0) % B = 0
      BY <1>4, <3>1, DivUnique
    <3>3. QED
      BY <3>1, <3>2
  <2>5. Digits(v) = <<v, 0>> /\ Digits(v \div Half) = <<0, 0>>
    BY <2>3, <2>4 DEF Digits
  <2> DEFINE u == <<v, 0>> \o <<0, 0>>
  <2>6. U32(v) = Ordered(u)
    BY <2>5 DEF U32
  <2>7. u[1] = v /\ u[4] = 0 /\ Len(u) = 4 /\ u \in Seq(TraceByte)
    <3>1. v \in TraceByte /\ 0 \in TraceByte
      BY <1>4, <2>1 DEF TraceByte
    <3>2. QED
      BY <3>1
  <2> HIDE DEF u
  <2>8. \A i \in 1..Len(u) : Reverse(u)[i] = u[(Len(u) - i) + 1]
    BY <2>7, ReverseIs
  <2>9. 1 \in 1..Len(u) /\ 4 \in 1..Len(u) /\ (Len(u) - 1) + 1 = 4 /\ (Len(u) - 4) + 1 = 1
    BY <2>7
  <2>10. Reverse(u)[1] = 0 /\ Reverse(u)[4] = v
    BY <2>7, <2>8, <2>9
  <2>11. Ordered(u) = u \/ Ordered(u) = Reverse(u)
    BY Zenon DEF Ordered
  <2>12. U32(v)[1] # U32(v)[4]
    BY <2>1, <2>6, <2>7, <2>10, <2>11
  <2>13. QED
    BY <1>3, <2>2, <2>12
<1>7. QED
  BY <1>2, <1>5, <1>6

-----------------------------------------------------------------------------
(* Options.                                                                *)

\* s has an option behind its first o bytes.
HasOption(s, o, code, value) ==
    /\ Holds(s, o, U16(code)) /\ Holds(s, o + 2, U16(Len(value))) /\ Holds(s, o + 4, value)

OptionParts(code, value) ==
    code \in 0..Half - 1 /\ value \in Seq(TraceByte) /\ Len(value) < Half

\* The code and the length of an option are read as they were written.
LEMMA CodeAndLength ==
    ASSUME foreign \in BOOLEAN, NEW code, NEW value, OptionParts(code, value)
    PROVE  /\ U16(code) \in Seq(TraceByte) /\ Len(U16(code)) = 2
           /\ Rd16(U16(code), ~ foreign) = code
           /\ U16(Len(value)) \in Seq(TraceByte) /\ Len(U16(Len(value))) = 2
           /\ Rd16(U16(Len(value)), ~ foreign) = Len(value)
<1> DEFINE n == Len(value)
<1>1. n \in Nat /\ n < Half /\ Half \in Nat /\ code \in 0..Half - 1
  BY Sizes DEF OptionParts
<1> HIDE DEF n
<1>2. n \in 0..Half - 1
  BY <1>1
<1>3. U16(n) \in Seq(TraceByte) /\ Len(U16(n)) = 2 /\ Rd16(U16(n), ~ foreign) = n
  BY <1>2, U16Is
<1>4. /\ U16(code) \in Seq(TraceByte) /\ Len(U16(code)) = 2
      /\ Rd16(U16(code), ~ foreign) = code
  BY <1>1, U16Is
<1>5. QED
  BY <1>3, <1>4 DEF n

\* push_option puts one behind what there is, and pads it.
LEMMA PushIs ==
    ASSUME foreign \in BOOLEAN, NEW body \in Seq(TraceByte), Len(body) % 4 = 0,
           NEW code, NEW value, OptionParts(code, value)
    PROVE  /\ PushOption(body, code, value) \in Seq(TraceByte)
           /\ Len(PushOption(body, code, value))
                = Len(body) + 4 + Len(value) + Len(Padding(Len(value)))
           /\ Len(PushOption(body, code, value)) % 4 = 0
           /\ Holds(PushOption(body, code, value), 0, body)
           /\ HasOption(PushOption(body, code, value), Len(body), code, value)
<1> DEFINE c == U16(code)
           d == U16(Len(value))
           s == ((body \o c) \o d) \o value
           p == Padded(s)
           n == Len(body)
           m == Len(value)
           l == Len(s)
<1>1. c \in Seq(TraceByte) /\ d \in Seq(TraceByte) /\ value \in Seq(TraceByte)
  BY CodeAndLength DEF OptionParts
<1>2. Len(c) = 2 /\ Len(d) = 2
  BY CodeAndLength
<1>3. PushOption(body, code, value) = p
  BY DEF PushOption
<1> HIDE DEF c, d
<1>4. /\ s \in Seq(TraceByte) /\ Len(s) = ((Len(body) + Len(c)) + Len(d)) + Len(value)
      /\ Holds(s, 0, body) /\ Holds(s, Len(body), c)
      /\ Holds(s, Len(body) + Len(c), d) /\ Holds(s, (Len(body) + Len(c)) + Len(d), value)
  BY ONLY <1>1, body \in Seq(TraceByte), HoldsFour
<1> HIDE DEF s
<1>5. p \in Seq(TraceByte) /\ Holds(p, 0, s) /\ Len(p) = Len(s) + Len(Padding(Len(s))) /\ Len(p) % 4 = 0
  BY <1>4, PaddedIs
<1> HIDE DEF p
<1>6. n \in Nat /\ m \in Nat /\ n % 4 = 0
  <2>1. n % 4 = 0
    OBVIOUS
  <2>2. n \in Nat
    BY ONLY body \in Seq(TraceByte)
  <2>3. m \in Nat
    BY ONLY <1>1
  <2>4. QED
    BY ONLY <2>1, <2>2, <2>3
<1>7. l = ((n + 2) + 2) + m /\ Holds(s, n + 2, d) /\ Holds(s, (n + 2) + 2, value)
  BY <1>2, <1>4
<1>8. Holds(s, n, c)
  BY <1>4
<1> HIDE DEF n, m
<1>9. ((n + 2) + 2) + m = (n + 4) + m /\ (n + 4) \in Nat /\ ((n + 4) % 4) = 0
      /\ (n + 2) + 2 = n + 4 /\ n + 2 \in Nat
      /\ 0 + n = n /\ 0 + (n + 2) = n + 2 /\ 0 + (n + 4) = n + 4
  BY <1>6
<1>10. Len(Padding((n + 4) + m)) = Len(Padding(m))
  BY <1>6, <1>9, PaddingIs
<1>11. l = (n + 4) + m /\ Holds(s, n + 4, value)
  BY <1>7, <1>9
<1>12. Len(p) = (n + 4) + m + Len(Padding(m))
  BY <1>5, <1>10, <1>11
<1>13. Holds(p, 0 + 0, body) /\ Holds(p, 0 + n, c) /\ Holds(p, 0 + (n + 2), d)
       /\ Holds(p, 0 + (n + 4), value)
  BY <1>1, <1>4, <1>5, <1>7, <1>8, <1>11, HoldsIn
<1>14. Holds(p, 0, body) /\ Holds(p, n, c) /\ Holds(p, n + 2, d) /\ Holds(p, n + 4, value)
  BY <1>9, <1>13
<1>15. HasOption(p, n, code, value)
  BY <1>14 DEF HasOption, c, d
<1>16. QED
  BY <1>3, <1>5, <1>12, <1>14, <1>15 DEF n, m

\* An option stays where it is when more bytes follow.
LEMMA OptionIn ==
    ASSUME foreign \in BOOLEAN, NEW s \in Seq(TraceByte), NEW y \in Seq(TraceByte),
           Holds(s, 0, y), NEW o, NEW code, NEW value, OptionParts(code, value),
           HasOption(y, o, code, value)
    PROVE  HasOption(s, o, code, value)
<1> DEFINE c == U16(code)
           d == U16(Len(value))
<1>1. c \in Seq(TraceByte) /\ d \in Seq(TraceByte) /\ value \in Seq(TraceByte)
  BY CodeAndLength DEF OptionParts
<1>2. Holds(y, o, c) /\ Holds(y, o + 2, d) /\ Holds(y, o + 4, value)
  BY DEF HasOption
<1> HIDE DEF c, d
<1>3. Holds(s, 0 + o, c) /\ Holds(s, 0 + (o + 2), d) /\ Holds(s, 0 + (o + 4), value)
  BY <1>1, <1>2, HoldsIn
<1>4. o \in Nat
  BY <1>2 DEF Holds
<1>5. 0 + o = o /\ 0 + (o + 2) = o + 2 /\ 0 + (o + 4) = o + 4
  BY <1>4
<1>6. QED
  BY <1>3, <1>5 DEF HasOption, c, d

\* It is read as what it is.
LEMMA OptionRead ==
    ASSUME foreign \in BOOLEAN, Order = ~ foreign, NEW s \in Seq(TraceByte),
           NEW o, NEW code, NEW value, OptionParts(code, value), HasOption(s, o, code, value)
    PROVE  /\ o \in Nat /\ (o + 4) + Len(value) <= Len(s)
           /\ OptionLen(s, o) = Len(value)
           /\ OptionAt(s, o) = [code |-> code, value |-> value]
<1> DEFINE c == U16(code)
           d == U16(Len(value))
<1>1. c \in Seq(TraceByte) /\ d \in Seq(TraceByte) /\ value \in Seq(TraceByte)
  BY CodeAndLength DEF OptionParts
<1>2. Len(c) = 2 /\ Len(d) = 2 /\ Rd16(c, ~ foreign) = code /\ Rd16(d, ~ foreign) = Len(value)
  BY CodeAndLength
<1>3. Holds(s, o, c) /\ Holds(s, o + 2, d) /\ Holds(s, o + 4, value)
  BY DEF HasOption
<1> HIDE DEF c, d
<1>4. Slice(s, o, Len(c)) = c /\ Slice(s, o + 2, Len(d)) = d
      /\ Slice(s, o + 4, Len(value)) = value
  BY ONLY s \in Seq(TraceByte), <1>1, <1>3, HoldsSlice
<1>5. Slice(s, o, 2) = c /\ Slice(s, o + 2, 2) = d
  BY <1>2, <1>4
<1>6. OptionLen(s, o) = Rd16(d, ~ foreign)
  BY <1>5, Zenon DEF OptionLen
<1>7. OptionLen(s, o) = Len(value)
  BY <1>2, <1>6
<1>8. OptionAt(s, o) = [code |-> Rd16(c, ~ foreign), value |-> value]
  BY <1>4, <1>5, <1>7, Zenon DEF OptionAt
<1>9. o \in Nat /\ (o + 4) + Len(value) <= Len(s)
  BY <1>3 DEF Holds
<1>10. QED
  BY <1>2, <1>7, <1>8, <1>9

LEMMA Rd16Type ==
    ASSUME NEW s \in Seq(TraceByte), Len(s) = 2, NEW little \in BOOLEAN
    PROVE  Rd16(s, little) \in Nat
<1> DEFINE b == Low(s, little)
<1>1. Reverse(s) \in Seq(TraceByte) /\ Len(Reverse(s)) = Len(s)
  BY ReverseIs
<1>2. b = s \/ b = Reverse(s)
  BY Zenon DEF Low
<1>3. b \in Seq(TraceByte) /\ Len(b) = 2
  BY <1>1, <1>2
<1>4. Rd16(s, little) = b[1] + B * b[2]
  BY Zenon DEF Rd16
<1> HIDE DEF b
<1>5. b[1] \in TraceByte /\ b[2] \in TraceByte
  <2>1. 1 \in 1..Len(b) /\ 2 \in 1..Len(b)
    BY <1>3
  <2>2. QED
    BY ONLY <1>3, <2>1, Elements
<1>6. B \in Nat /\ TraceByte \subseteq Nat
  BY Sizes DEF TraceByte
<1> DEFINE x == b[1]
           y == b[2]
<1>7. x \in Nat /\ y \in Nat
  BY <1>5, <1>6
<1> HIDE DEF x, y
<1>8. x + B * y \in Nat
  BY <1>6, <1>7
<1>9. QED
  BY <1>4, <1>8 DEF x, y

\* A turn of the loop over the options: it ends, or goes on behind this one.
OptionsEnd(body, o) ==
    \/ o + 4 > Len(body) \/ OptionAt(body, o).code = 0
    \/ o + 4 + OptionLen(body, o) > Len(body)
NextOption(body, o) == o + 4 + OptionLen(body, o) + Len(Padding(OptionLen(body, o)))
OptionTurn(body, f, o) ==
    IF OptionsEnd(body, o) THEN <<>> ELSE <<OptionAt(body, o)>> \o f[NextOption(body, o)]

\* The reader of the options gets on with every one of them.
LEMMA NextOptionIs ==
    ASSUME foreign \in BOOLEAN, Order = ~ foreign, NEW body \in Seq(TraceByte), NEW o \in Nat,
           o + 4 <= Len(body)
    PROVE  NextOption(body, o) \in Nat /\ NextOption(body, o) > o
<1> DEFINE x == Slice(body, o + 2, 2)
           l == Len(body)
           n == OptionLen(body, o)
<1>1. l \in Nat /\ o + 4 <= l
  OBVIOUS
<1> HIDE DEF l
<1>2. o + 3 \in 1..l + 1 /\ o + 4 \in (o + 3) - 1..l /\ (o + 4) - (o + 3) + 1 = 2
      /\ (o + 2) + 1 = o + 3 /\ (o + 2) + 2 = o + 4
  BY <1>1
<1>3. x = SubSeq(body, o + 3, o + 4)
  BY <1>2 DEF Slice
<1>4. o + 3 \in 1..Len(body) + 1 /\ o + 4 \in (o + 3) - 1..Len(body)
  BY <1>2 DEF l
<1>5. x \in Seq(TraceByte) /\ Len(x) = (o + 4) - (o + 3) + 1
  <2> DEFINE a == o + 3
             b == o + 4
             y == SubSeq(body, a, b)
  <2>1. a \in 1..Len(body) + 1 /\ b \in a - 1..Len(body)
    BY <1>4
  <2> HIDE DEF a, b
  <2>2. y \in Seq(TraceByte) /\ Len(y) = b - a + 1
    BY ONLY body \in Seq(TraceByte), <2>1, PartIs
  <2> HIDE DEF y
  <2>3. x = y
    BY <1>3 DEF y, a, b
  <2>4. QED
    BY <2>2, <2>3 DEF a, b
<1>6. Len(x) = 2
  BY <1>2, <1>5
<1>7. n = Rd16(x, Order)
  BY Zenon DEF OptionLen
<1>8. Order \in BOOLEAN
  BY Zenon
<1> HIDE DEF x
<1>9. Rd16(x, Order) \in Nat
  BY <1>5, <1>6, <1>8, Rd16Type
<1>10. n \in Nat
  BY <1>7, <1>9
<1>11. NextOption(body, o) = o + 4 + n + Len(Padding(n))
  BY DEF NextOption
<1> HIDE DEF n
<1>12. Len(Padding(n)) \in Nat
  BY <1>10, PaddingIs
<1>13. QED
  BY <1>10, <1>11, <1>12

\* Its recursion therefore has a solution, which is what Options takes.
LEMMA OptionsExist ==
    ASSUME foreign \in BOOLEAN, Order = ~ foreign, NEW body \in Seq(TraceByte)
    PROVE  \E f : f = [o \in Nat |-> OptionTurn(body, f, o)]
<1> DEFINE l == Len(body)
           S(f, i) == OptionTurn(body, f, i)
           Solves(n, f) == /\ f = [i \in Nat |-> f[i]]
                           /\ \A i \in Nat : i > l - n => f[i] = S(f, i)
           N == {n \in Nat : \E f : Solves(n, f)}
<1>0. l \in Nat
  OBVIOUS
<1>1. 0 \in N
  <2> DEFINE f == [i \in Nat |-> <<>>]
  <2>1. f = [i \in Nat |-> f[i]]
    OBVIOUS
  <2>2. \A i \in Nat : f[i] = <<>>
    OBVIOUS
  <2> HIDE DEF f
  <2>3. \A i \in Nat : i > l - 0 => f[i] = S(f, i)
    <3> SUFFICES ASSUME NEW i \in Nat, i > l - 0 PROVE f[i] = S(f, i)
      OBVIOUS
    <3>1. i + 4 > l
      BY <1>0
    <3>2. OptionsEnd(body, i)
      BY <3>1 DEF OptionsEnd
    <3>3. S(f, i) = <<>>
      BY <3>2, Zenon DEF OptionTurn
    <3>4. QED
      BY <2>2, <3>3
  <2> HIDE DEF S
  <2>4. Solves(0, f)
    BY <2>1, <2>3
  <2> HIDE DEF Solves
  <2>5. QED
    BY <2>4
<1>2. ASSUME NEW n \in Nat, n \in N
      PROVE  n + 1 \in N
  <2>1. PICK f : Solves(n, f)
    BY <1>2
  <2> DEFINE k == l - n
             g == [i \in Nat |-> IF i = k THEN S(f, k) ELSE f[i]]
  <2> HIDE DEF N, S
  <2>2. /\ g = [i \in Nat |-> g[i]]
        /\ \A i \in Nat : i # k => g[i] = f[i]
        /\ k \in Nat => g[k] = S(f, k)
    OBVIOUS
  <2> HIDE DEF g
  <2>3. k \in Int
    BY <1>0
  <2>a. \A i \in Nat : i > k => f[i] = S(f, i)
    BY <2>1
  <2> HIDE DEF k
  <2>4. ASSUME NEW i \in Nat, i >= k
        PROVE  S(g, i) = S(f, i)
    <3>1. CASE OptionsEnd(body, i)
      BY <3>1, Zenon DEF S, OptionTurn
    <3>2. CASE ~ OptionsEnd(body, i)
      <4>1. i + 4 <= Len(body)
        <5>1. ~ (i + 4 > Len(body))
          BY <3>2 DEF OptionsEnd
        <5>2. QED
          BY <1>0, <5>1
      <4>2. NextOption(body, i) \in Nat /\ NextOption(body, i) > i
        BY <4>1, NextOptionIs
      <4>3. NextOption(body, i) # k
        BY <2>3, <2>4, <4>2
      <4>4. g[NextOption(body, i)] = f[NextOption(body, i)]
        BY <2>2, <4>2, <4>3
      <4>5. QED
        BY <4>4, Zenon DEF S, OptionTurn
    <3>3. QED
      BY <3>1, <3>2
  <2>5. ASSUME NEW i \in Nat, i > l - (n + 1)
        PROVE  g[i] = S(g, i)
    <3>1. i >= k
      BY <1>0, <2>5 DEF k
    <3>2. S(g, i) = S(f, i)
      BY <2>4, <3>1
    <3>3. CASE i = k
      BY <2>2, <3>2, <3>3
    <3>4. CASE i # k
      <4>1. i > k
        BY <2>3, <3>1, <3>4
      <4>2. QED
        BY <2>2, <2>a, <3>2, <3>4, <4>1
    <3>5. QED
      BY <3>3, <3>4
  <2>6. Solves(n + 1, g)
    BY <2>2, <2>5
  <2> HIDE DEF Solves
  <2>7. QED
    BY <2>6 DEF N
<1> HIDE DEF N
<1>3. Nat \subseteq N
  BY <1>1, <1>2, NatInductionOnSets
<1>4. PICK f : Solves(l + 1, f)
  <2>1. l + 1 \in N
    BY <1>0, <1>3
  <2>2. QED
    BY <2>1 DEF N
<1> HIDE DEF S
<1>5. f = [i \in Nat |-> f[i]] /\ \A i \in Nat : f[i] = S(f, i)
  <2>1. \A i \in Nat : i > l - (l + 1)
    BY <1>0
  <2>2. QED
    BY <1>4, <2>1
<1>6. f = [i \in Nat |-> S(f, i)]
  BY <1>5
<1>7. QED
  BY <1>6 DEF S

OptionsBy(body, f) == \A o \in Nat : f[o] = OptionTurn(body, f, o)

LEMMA OptionsAre ==
    ASSUME foreign \in BOOLEAN, Order = ~ foreign, NEW body \in Seq(TraceByte)
    PROVE  \E f : OptionsBy(body, f) /\ Options(body) = f[8]
<1> DEFINE f == CHOOSE f : f = [o \in Nat |-> OptionTurn(body, f, o)]
<1>1. f = [o \in Nat |-> OptionTurn(body, f, o)]
  BY OptionsExist
<1>2. Options(body) = f[8]
  BY Zenon DEF Options, OptionTurn, OptionsEnd, NextOption
<1> HIDE DEF f
<1>3. OptionsBy(body, f)
  BY <1>1, Zenon DEF OptionsBy
<1>4. QED
  BY <1>2, <1>3

OptionOf(code, value) == [code |-> code, value |-> value]

\* One turn of the loop, at the option that ends it and at another.
LEMMA OptionStops ==
    ASSUME foreign \in BOOLEAN, Order = ~ foreign, NEW s \in Seq(TraceByte),
           NEW f, OptionsBy(s, f), NEW o, NEW value, OptionParts(0, value), HasOption(s, o, 0, value)
    PROVE  f[o] = <<>>
<1>1. o \in Nat /\ OptionAt(s, o) = [code |-> 0, value |-> value]
  BY OptionRead
<1>2. f[o] = OptionTurn(s, f, o)
  BY <1>1 DEF OptionsBy
<1>3. OptionAt(s, o).code = 0
  BY <1>1
<1>4. OptionsEnd(s, o)
  BY <1>3 DEF OptionsEnd
<1>5. OptionTurn(s, f, o) = <<>>
  BY <1>4, Zenon DEF OptionTurn
<1>6. QED
  BY <1>2, <1>5

LEMMA OptionStep ==
    ASSUME foreign \in BOOLEAN, Order = ~ foreign, NEW s \in Seq(TraceByte),
           NEW f, OptionsBy(s, f),
           NEW o, NEW code, NEW value, OptionParts(code, value), HasOption(s, o, code, value),
           code # 0
    PROVE  f[o] = <<OptionOf(code, value)>> \o f[o + 4 + Len(value) + Len(Padding(Len(value)))]
<1>1. /\ o \in Nat /\ (o + 4) + Len(value) <= Len(s)
      /\ OptionLen(s, o) = Len(value)
      /\ OptionAt(s, o) = [code |-> code, value |-> value]
  BY OptionRead
<1>2. f[o] = OptionTurn(s, f, o)
  BY <1>1 DEF OptionsBy
<1>3. OptionAt(s, o).code = code
  BY <1>1
<1> DEFINE n == Len(value)
           l == Len(s)
<1>4. n \in Nat /\ l \in Nat
  BY DEF OptionParts
<1>5. ~ (o + 4 > l) /\ ~ (o + 4 + n > l)
  <2>1. (o + 4) + n <= l
    BY <1>1
  <2> HIDE DEF n, l
  <2>2. QED
    BY <1>1, <1>4, <2>1
<1>6. ~ OptionsEnd(s, o)
  BY <1>1, <1>3, <1>5, Zenon DEF OptionsEnd
<1>7. OptionTurn(s, f, o) = <<OptionAt(s, o)>> \o f[NextOption(s, o)]
  BY <1>6, Zenon DEF OptionTurn
<1>8. NextOption(s, o) = o + 4 + Len(value) + Len(Padding(Len(value)))
  BY <1>1, Zenon DEF NextOption
<1>9. QED
  BY <1>1, <1>2, <1>7, <1>8, Zenon DEF OptionOf

-----------------------------------------------------------------------------
(* The block of an interface.                                              *)

Fixed          == (U16(LinkType) \o U16(0)) \o U32(B)
Commented      == IF foreign THEN PushOption(Fixed, 1, <<1, 0, 5>>) ELSE Fixed
Named(i)       == PushOption(Commented, 2, Names[i])
Resolved(i)    == PushOption(Named(i), 9, <<6>>)
InterfaceBody(i) == PushOption(Resolved(i), 0, <<>>)

\* The fixed fields of an interface, and the options behind them.
LEMMA FixedIs ==
    ASSUME foreign \in BOOLEAN
    PROVE  Fixed \in Seq(TraceByte) /\ Len(Fixed) = 8
<1> DEFINE a == U16(LinkType)
           b == U16(0)
           c == U32(B)
<1>1. LinkType \in 0..Half - 1 /\ 0 \in 0..Half - 1 /\ B \in 0..Word - 1
  <2>1. LinkType \in 0..Half - 1
    BY PcapNgAssumption
  <2>2. /\ B \in Nat /\ B >= 8 /\ Half \in Nat /\ Half >= 64 /\ Word \in Nat /\ Word >= 64 * Half
    BY Sizes
  <2>3. Half >= B
    <3>1. B * B >= B
      BY <2>2
    <3>2. QED
      BY <3>1, Sizes
  <2>4. QED
    BY <2>1, <2>2, <2>3
<1>2. a \in Seq(TraceByte) /\ Len(a) = 2 /\ b \in Seq(TraceByte) /\ Len(b) = 2
  BY <1>1, U16Is
<1>3. c \in Seq(TraceByte) /\ Len(c) = 4
  BY <1>1, U32Is
<1>4. Fixed = (a \o b) \o c
  BY DEF Fixed
<1> HIDE DEF a, b, c
<1> DEFINE d == a \o b
           e == d \o c
<1>5. d \in Seq(TraceByte) /\ Len(d) = Len(a) + Len(b)
  <2>1. a \in Seq(TraceByte) /\ b \in Seq(TraceByte)
    BY <1>2
  <2>2. QED
    BY ONLY <2>1, HoldsJoined
<1> HIDE DEF d
<1>6. e \in Seq(TraceByte) /\ Len(e) = Len(d) + Len(c)
  <2>1. d \in Seq(TraceByte) /\ c \in Seq(TraceByte)
    BY <1>3, <1>5
  <2>2. QED
    BY ONLY <2>1, HoldsJoined
<1> HIDE DEF e
<1>7. QED
  BY <1>2, <1>3, <1>4, <1>5, <1>6 DEF d, e

\* Their options are short enough to be counted.
LEMMA OurOptions ==
    /\ OptionParts(1, <<1, 0, 5>>) /\ OptionParts(9, <<6>>) /\ OptionParts(0, <<>>)
    /\ OptionParts(1, <<7, 7>>)
    /\ \A i \in 1..2 : OptionParts(2, Names[i])
<1>1. B \in Nat /\ B >= 8 /\ Half \in Nat /\ Half >= 64
  BY Sizes
<1>2. 1 \in 0..Half - 1 /\ 9 \in 0..Half - 1 /\ 0 \in 0..Half - 1 /\ 2 \in 0..Half - 1
      /\ 3 < Half /\ 1 < Half /\ 0 < Half /\ 2 < Half
  BY <1>1
<1>3. 0 \in TraceByte /\ 1 \in TraceByte /\ 5 \in TraceByte /\ 6 \in TraceByte /\ 7 \in TraceByte
  BY <1>1 DEF TraceByte
<1> HIDE DEF TraceByte
<1>4. <<1, 0, 5>> \in Seq(TraceByte) /\ <<6>> \in Seq(TraceByte) /\ <<>> \in Seq(TraceByte)
      /\ <<7, 7>> \in Seq(TraceByte)
  BY <1>3
<1>5. Len(<<1, 0, 5>>) = 3 /\ Len(<<6>>) = 1 /\ Len(<<>>) = 0 /\ Len(<<7, 7>>) = 2
  OBVIOUS
<1>6. \A i \in 1..2 : Names[i] \in Seq(TraceByte) /\ Len(Names[i]) < Half
  BY PcapNgAssumption DEF TraceByte
<1>7. QED
  BY <1>2, <1>4, <1>5, <1>6, Zenon DEF OptionParts

LEMMA PadOf ==
    Len(Padding(1)) = 3 /\ Len(Padding(3)) = 1 /\ Len(Padding(0)) = 0 /\ Len(Padding(2)) = 2
<1> DEFINE P(n) == Len(Padding(n))
<1>1. ASSUME NEW n \in Nat
      PROVE  P(n) \in 0..3 /\ (n + P(n)) % 4 = 0
  BY PaddingIs
<1> HIDE DEF P
<1>2. /\ P(1) \in 0..3 /\ (1 + P(1)) % 4 = 0 /\ P(3) \in 0..3 /\ (3 + P(3)) % 4 = 0
      /\ P(0) \in 0..3 /\ (0 + P(0)) % 4 = 0 /\ P(2) \in 0..3 /\ (2 + P(2)) % 4 = 0
  BY ONLY <1>1
<1>3. P(1) = 3 /\ P(3) = 1 /\ P(0) = 0 /\ P(2) = 2
  BY <1>2
<1>4. QED
  BY <1>3 DEF P

LEMMA CommentedIs ==
    ASSUME foreign \in BOOLEAN
    PROVE  /\ Commented \in Seq(TraceByte) /\ Len(Commented) % 4 = 0
           /\ foreign => Len(Commented) = 16 /\ HasOption(Commented, 8, 1, <<1, 0, 5>>)
           /\ ~ foreign => Len(Commented) = 8
<1>1. Fixed \in Seq(TraceByte) /\ Len(Fixed) = 8
  BY FixedIs
<1>2. CASE foreign
  <2> DEFINE v == <<1, 0, 5>>
             s == PushOption(Fixed, 1, v)
  <2>1. Commented = s
    BY <1>2, Zenon DEF Commented
  <2>2. OptionParts(1, v) /\ Len(v) = 3 /\ Len(Padding(3)) = 1
    BY OurOptions, PadOf
  <2> HIDE DEF v
  <2>3. Len(Fixed) % 4 = 0
    BY <1>1
  <2>4. /\ s \in Seq(TraceByte) /\ Len(s) = Len(Fixed) + 4 + Len(v) + Len(Padding(Len(v)))
        /\ Len(s) % 4 = 0 /\ HasOption(s, Len(Fixed), 1, v)
    BY ONLY foreign \in BOOLEAN, <1>1, <2>2, <2>3, PushIs
  <2> HIDE DEF s
  <2>5. Len(s) = 8 + 4 + 3 + 1 /\ HasOption(s, 8, 1, v)
    BY ONLY <1>1, <2>2, <2>4
  <2>a. Len(s) = 16
    BY ONLY <2>5
  <2>6. QED
    BY ONLY <1>2, <2>1, <2>4, <2>5, <2>a, Zenon DEF v
<1>3. CASE ~ foreign
  <2>1. Commented = Fixed
    BY <1>3, Zenon DEF Commented
  <2>2. Len(Fixed) % 4 = 0
    BY <1>1
  <2>3. QED
    BY <1>1, <1>3, <2>1, <2>2, Zenon
<1>4. QED
  BY <1>2, <1>3

\* Where the options behind the first one are.
NameAt       == Len(Commented)
TsresolAt(i) == NameAt + 4 + Len(Names[i]) + Len(Padding(Len(Names[i])))

LEMMA NamedIs ==
    ASSUME foreign \in BOOLEAN, NEW i \in 1..2
    PROVE  /\ Named(i) \in Seq(TraceByte) /\ Len(Named(i)) % 4 = 0
           /\ Len(Named(i)) = TsresolAt(i) /\ TsresolAt(i) \in Nat /\ TsresolAt(i) < 24 + Half
           /\ Holds(Named(i), 0, Commented) /\ HasOption(Named(i), NameAt, 2, Names[i])
<1> DEFINE v == Names[i]
           s == Named(i)
           n == Len(v)
           c == Len(Commented)
           z == Len(Padding(n))
<1>1. OptionParts(2, v)
  BY OurOptions
<1>2. v \in Seq(TraceByte) /\ n < Half
  BY <1>1 DEF OptionParts
<1>3. Commented \in Seq(TraceByte) /\ c % 4 = 0 /\ c \in {8, 16}
  BY CommentedIs
<1> HIDE DEF v
<1>4. s = PushOption(Commented, 2, v)
  BY DEF Named, v
<1>5. /\ s \in Seq(TraceByte) /\ Len(s) = c + 4 + Len(v) + Len(Padding(Len(v)))
      /\ Len(s) % 4 = 0 /\ Holds(s, 0, Commented) /\ HasOption(s, c, 2, v)
  BY ONLY foreign \in BOOLEAN, <1>1, <1>3, <1>4, PushIs
<1>6. TsresolAt(i) = c + 4 + n + z /\ NameAt = c
  BY DEF TsresolAt, NameAt, v
<1>7. n \in Nat
  BY <1>2
<1>8. z \in 0..3
  <2> HIDE DEF n
  <2>1. QED
    BY <1>7, PaddingIs
<1>9. c + 4 + n + z \in Nat /\ c + 4 + n + z < 24 + Half
  <2> HIDE DEF c, n, z
  <2>1. Half \in Nat
    BY Sizes
  <2>2. QED
    BY <1>2, <1>3, <1>7, <1>8, <2>1
<1> HIDE DEF s, c, n, z
<1>10. Len(s) = c + 4 + n + z
  BY <1>5 DEF n, z
<1>11. QED
  BY <1>5, <1>6, <1>9, <1>10 DEF s, v

LEMMA ResolvedIs ==
    ASSUME foreign \in BOOLEAN, NEW i \in 1..2
    PROVE  /\ Resolved(i) \in Seq(TraceByte) /\ Len(Resolved(i)) % 4 = 0
           /\ Len(Resolved(i)) = TsresolAt(i) + 8
           /\ Holds(Resolved(i), 0, Named(i)) /\ HasOption(Resolved(i), TsresolAt(i), 9, <<6>>)
<1> DEFINE v == <<6>>
           s == Resolved(i)
           b == Named(i)
           c == Len(b)
<1>a. OptionParts(9, v)
  BY OurOptions
<1>1. Len(v) = 1 /\ Len(Padding(1)) = 3
  BY OurOptions, PadOf
<1>2. b \in Seq(TraceByte) /\ c % 4 = 0 /\ c = TsresolAt(i)
  BY NamedIs
<1>3. s = PushOption(b, 9, v)
  BY DEF Resolved
<1> HIDE DEF v, b
<1>4. /\ s \in Seq(TraceByte) /\ Len(s) = c + 4 + Len(v) + Len(Padding(Len(v)))
      /\ Len(s) % 4 = 0 /\ Holds(s, 0, b) /\ HasOption(s, c, 9, v)
  <2>1. b \in Seq(TraceByte) /\ Len(b) % 4 = 0
    BY <1>2
  <2>2. QED
    BY ONLY foreign \in BOOLEAN, <1>a, <2>1, <1>3, PushIs
<1>5. c \in Nat
  BY <1>2
<1>6. Len(s) = c + 4 + 1 + 3
  BY <1>1, <1>4
<1> HIDE DEF c
<1>7. c + 4 + 1 + 3 = c + 8
  BY <1>5
<1>8. QED
  BY <1>2, <1>4, <1>6, <1>7 DEF s, v, b

LEMMA InterfaceBodyIs ==
    ASSUME foreign \in BOOLEAN, NEW i \in 1..2
    PROVE  /\ InterfaceBody(i) \in Seq(TraceByte)
           /\ Len(InterfaceBody(i)) = TsresolAt(i) + 12
           /\ Holds(InterfaceBody(i), 0, Resolved(i))
           /\ HasOption(InterfaceBody(i), TsresolAt(i) + 8, 0, <<>>)
<1> DEFINE v == <<>>
           s == InterfaceBody(i)
           b == Resolved(i)
           c == Len(b)
           t == TsresolAt(i)
<1>a. OptionParts(0, v)
  BY OurOptions
<1>1. Len(v) = 0 /\ Len(Padding(0)) = 0
  BY OurOptions, PadOf
<1>2. b \in Seq(TraceByte) /\ c % 4 = 0 /\ c = t + 8
  BY ResolvedIs
<1>0. t \in Nat
  BY NamedIs
<1>3. s = PushOption(b, 0, v)
  BY DEF InterfaceBody
<1> HIDE DEF v, b, t
<1>4. /\ s \in Seq(TraceByte) /\ Len(s) = c + 4 + Len(v) + Len(Padding(Len(v)))
      /\ Holds(s, 0, b) /\ HasOption(s, c, 0, v)
  <2>1. b \in Seq(TraceByte) /\ Len(b) % 4 = 0
    BY <1>2
  <2>2. QED
    BY ONLY foreign \in BOOLEAN, <1>a, <2>1, <1>3, PushIs
<1>6. Len(s) = c + 4 + 0 + 0
  BY <1>1, <1>4
<1> HIDE DEF c
<1>7. c + 4 + 0 + 0 = t + 12
  BY <1>0, <1>2
<1>8. QED
  BY <1>2, <1>4, <1>6, <1>7 DEF s, v, b, t

\* The body that is read of an interface, and its options.
InterfaceRead(i) == Padded(InterfaceBody(i))

\* All that the reader looks for is in the body of an interface.
LEMMA InterfaceReadIs ==
    ASSUME foreign \in BOOLEAN, NEW i \in 1..2
    PROVE  /\ InterfaceRead(i) \in Seq(TraceByte) /\ Len(InterfaceRead(i)) >= 8
           /\ 12 + Len(InterfaceRead(i)) < Word
           /\ foreign => HasOption(InterfaceRead(i), 8, 1, <<1, 0, 5>>)
           /\ HasOption(InterfaceRead(i), NameAt, 2, Names[i])
           /\ HasOption(InterfaceRead(i), TsresolAt(i), 9, <<6>>)
           /\ HasOption(InterfaceRead(i), TsresolAt(i) + 8, 0, <<>>)
<1> DEFINE p == InterfaceRead(i)
           d == InterfaceBody(i)
           c == Resolved(i)
           b == Named(i)
           t == TsresolAt(i)
<1>1. /\ d \in Seq(TraceByte) /\ c \in Seq(TraceByte) /\ b \in Seq(TraceByte)
      /\ Commented \in Seq(TraceByte)
  BY CommentedIs, NamedIs, ResolvedIs, InterfaceBodyIs
<1>2. Len(d) = t + 12 /\ t \in Nat /\ t < 24 + Half
  BY NamedIs, InterfaceBodyIs
<1>3. p = Padded(d)
  BY DEF InterfaceRead
<1>4. /\ Holds(d, 0, c) /\ HasOption(d, t + 8, 0, <<>>) /\ Holds(c, 0, b)
      /\ HasOption(c, t, 9, <<6>>) /\ Holds(b, 0, Commented) /\ HasOption(b, NameAt, 2, Names[i])
  BY NamedIs, ResolvedIs, InterfaceBodyIs
<1>5. foreign => HasOption(Commented, 8, 1, <<1, 0, 5>>)
  BY CommentedIs
<1> HIDE DEF p, d, c, b, t
<1>6. p \in Seq(TraceByte) /\ Holds(p, 0, d) /\ Len(p) \in Len(d)..Len(d) + 3
  BY <1>1, <1>3, PaddedIs
<1>7. HasOption(p, t + 8, 0, <<>>)
  BY ONLY foreign \in BOOLEAN, <1>1, <1>4, <1>6, OurOptions, OptionIn
<1>8. HasOption(d, t, 9, <<6>>) /\ HasOption(c, NameAt, 2, Names[i])
  BY ONLY foreign \in BOOLEAN, i \in 1..2, <1>1, <1>4, OurOptions, OptionIn
<1>9. HasOption(p, t, 9, <<6>>) /\ HasOption(d, NameAt, 2, Names[i])
  BY ONLY foreign \in BOOLEAN, i \in 1..2, <1>1, <1>4, <1>6, <1>8, OurOptions, OptionIn
<1>10. HasOption(p, NameAt, 2, Names[i])
  BY ONLY foreign \in BOOLEAN, i \in 1..2, <1>1, <1>6, <1>9, OurOptions, OptionIn
<1>11. ASSUME foreign PROVE HasOption(p, 8, 1, <<1, 0, 5>>)
  <2> DEFINE v == <<1, 0, 5>>
  <2>1. OptionParts(1, v) /\ HasOption(Commented, 8, 1, v)
    BY <1>5, <1>11, OurOptions
  <2> HIDE DEF v
  <2>2. HasOption(b, 8, 1, v)
    BY ONLY foreign \in BOOLEAN, <1>1, <1>4, <2>1, OptionIn
  <2>3. HasOption(c, 8, 1, v)
    BY ONLY foreign \in BOOLEAN, <1>1, <1>4, <2>1, <2>2, OptionIn
  <2>4. HasOption(d, 8, 1, v)
    BY ONLY foreign \in BOOLEAN, <1>1, <1>4, <2>1, <2>3, OptionIn
  <2>5. HasOption(p, 8, 1, v)
    BY ONLY foreign \in BOOLEAN, <1>1, <1>6, <2>1, <2>4, OptionIn
  <2>6. QED
    BY <2>5 DEF v
<1>12. Len(p) >= 8 /\ 12 + Len(p) < Word
  <2> DEFINE l == Len(p)
             m == Len(d)
  <2>1. m = t + 12 /\ t \in Nat /\ t < 24 + Half /\ l \in m..m + 3
    BY <1>2, <1>6
  <2> HIDE DEF l, m
  <2>2. Half \in Nat /\ Half >= 64 /\ Word \in Nat /\ Word >= 64 * Half
    BY Sizes
  <2>3. l >= 8 /\ 12 + l < Word
    BY <2>1, <2>2
  <2>4. QED
    BY <2>3 DEF l
<1>13. QED
  BY <1>6, <1>7, <1>9, <1>10, <1>11, <1>12 DEF p, t

\* An interface is a block.
LEMMA InterfaceIs ==
    ASSUME foreign \in BOOLEAN, NEW i \in 1..2
    PROVE  /\ Interface(i) \in Seq(TraceByte) /\ Len(Interface(i)) = 12 + Len(InterfaceRead(i))
           /\ BlockParts(U32(1), InterfaceRead(i))
           /\ BlockAt(Interface(i), 0, U32(1), InterfaceRead(i))
<1> DEFINE d == InterfaceBody(i)
           t == U32(1)
<1>1. d \in Seq(TraceByte)
  BY InterfaceBodyIs
<1>2. t \in Seq(TraceByte) /\ Len(t) = 4
  BY TypesAre
<1>3. InterfaceRead(i) = Padded(d)
  BY DEF InterfaceRead
<1>4. Interface(i) = Block(t, d)
  BY Zenon DEF Interface, IDB, InterfaceBody, Resolved, Named, Commented, Fixed
<1>5. InterfaceRead(i) \in Seq(TraceByte) /\ 12 + Len(InterfaceRead(i)) < Word
  BY InterfaceReadIs
<1> HIDE DEF d, t
<1>6. BlockParts(t, InterfaceRead(i))
  BY <1>2, <1>5, Zenon DEF BlockParts
<1>7. /\ Block(t, d) \in Seq(TraceByte) /\ Len(Block(t, d)) = 12 + Len(Padded(d))
      /\ BlockAt(Block(t, d), 0, t, Padded(d))
  BY ONLY foreign \in BOOLEAN, <1>1, <1>3, <1>6, BlockIs
<1>8. QED
  BY <1>3, <1>4, <1>6, <1>7 DEF t

\* The last option with a code.
LEMMA MaxIs ==
    ASSUME NEW S \in SUBSET Int, NEW m \in S, \A x \in S : m >= x
    PROVE  Max(S) = m
<1> DEFINE P(x) == x \in S /\ \A y \in S : x >= y
<1>1. P(m)
  OBVIOUS
<1>2. \A x : P(x) => x = m
  <2> SUFFICES ASSUME NEW x, P(x) PROVE x = m
    OBVIOUS
  <2>1. x \in Int /\ m \in Int /\ x >= m /\ m >= x
    OBVIOUS
  <2>2. QED
    BY <2>1
<1>3. Max(S) = CHOOSE x \in S : \A y \in S : x >= y
  BY DEF Max
<1>4. QED
  BY <1>1, <1>2, <1>3

\* The last option of a code is the one behind which there is no other.
LastWith(opts, k, code, least) ==
    /\ k \in 1..Len(opts) /\ opts[k].code = code /\ Len(opts[k].value) >= least
    /\ \A j \in 1..Len(opts) : j > k => opts[j].code # code

LEMMA LastIs ==
    ASSUME NEW T, NEW opts \in Seq(T), NEW k, NEW code, NEW least, NEW default,
           LastWith(opts, k, code, least)
    PROVE  LastOf(opts, code, least, default) = opts[k].value
<1> DEFINE at == {j \in 1..Len(opts) : opts[j].code = code /\ Len(opts[j].value) >= least}
<1>1. k \in at /\ k \in 1..Len(opts)
  BY DEF LastWith
<1>2. ASSUME NEW j \in at PROVE k >= j
  <2>1. j \in 1..Len(opts) /\ opts[j].code = code
    OBVIOUS
  <2>2. ~ (j > k)
    BY <2>1 DEF LastWith
  <2>3. QED
    BY <1>1, <2>1, <2>2
<1>3. at \in SUBSET Int
  OBVIOUS
<1>4. LastOf(opts, code, least, default) = IF at = {} THEN default ELSE opts[Max(at)].value
  BY DEF LastOf
<1> HIDE DEF at
<1>5. Max(at) = k
  BY ONLY <1>1, <1>2, <1>3, MaxIs
<1>6. at # {}
  BY <1>1
<1>7. QED
  BY <1>4, <1>5, <1>6, Zenon

LEMMA Tuples ==
    ASSUME NEW x, NEW y, NEW z
    PROVE  /\ <<x>> \o <<>> = <<x>> /\ <<x>> \o <<y>> = <<x, y>>
           /\ <<x>> \o <<y, z>> = <<x, y, z>>
<1>0. <<x>> \in Seq({x, y}) /\ <<y>> \in Seq({x, y})
  OBVIOUS
<1>1. <<x>> \o <<>> = <<x>>
  BY <1>0, ConcatEmptySeq
<1>2. <<x>> \o <<y>> = <<x, y>>
  <2> DEFINE s == <<x>> \o <<y>>
             t == <<x, y>>
  <2>1. s \in Seq({x, y}) /\ Len(s) = 2 /\ s[1] = x /\ s[2] = y
    OBVIOUS
  <2>2. t \in Seq({x, y}) /\ Len(t) = 2 /\ t[1] = x /\ t[2] = y
    OBVIOUS
  <2> HIDE DEF s, t
  <2>3. \A i \in 1..Len(s) : s[i] = t[i]
    BY <2>1, <2>2
  <2>4. Len(s) = Len(t)
    BY <2>1, <2>2
  <2>5. s = t
    BY <2>1, <2>2, <2>3, <2>4, SeqEqual
  <2>6. QED
    BY <2>5 DEF s, t
<1>3. <<x>> \o <<y, z>> = <<x, y, z>>
  <2> DEFINE s == <<x>> \o <<y, z>>
             t == <<x, y, z>>
  <2>1. s \in Seq({x, y, z}) /\ Len(s) = 3 /\ s[1] = x /\ s[2] = y /\ s[3] = z
    OBVIOUS
  <2>2. t \in Seq({x, y, z}) /\ Len(t) = 3 /\ t[1] = x /\ t[2] = y /\ t[3] = z
    OBVIOUS
  <2> HIDE DEF s, t
  <2>3. \A i \in 1..Len(s) : s[i] = t[i]
    BY <2>1, <2>2
  <2>4. Len(s) = Len(t)
    BY <2>1, <2>2
  <2>5. s = t
    BY <2>1, <2>2, <2>3, <2>4, SeqEqual
  <2>6. QED
    BY <2>5 DEF s, t
<1>4. QED
  BY <1>1, <1>2, <1>3

\* What an interface's options say of it.
LEMMA OptionsOfInterface ==
    ASSUME foreign \in BOOLEAN, Order = ~ foreign, NEW i \in 1..2
    PROVE  LET a == OptionOf(1, <<1, 0, 5>>)
               b == OptionOf(2, Names[i])
               c == OptionOf(9, <<6>>)
           IN  Options(InterfaceRead(i)) = IF foreign THEN <<a, b, c>> ELSE <<b, c>>
<1> DEFINE v == <<1, 0, 5>>
           n == Names[i]
           w == <<6>>
           e == <<>>
           a == OptionOf(1, v)
           b == OptionOf(2, n)
           c == OptionOf(9, w)
           p == InterfaceRead(i)
           t == TsresolAt(i)
<1>1. p \in Seq(TraceByte)
  BY InterfaceReadIs
<1>2. HasOption(p, NameAt, 2, n) /\ HasOption(p, t, 9, w) /\ HasOption(p, t + 8, 0, e)
  BY InterfaceReadIs
<1>3. foreign => HasOption(p, 8, 1, v)
  BY InterfaceReadIs
<1>4. OptionParts(1, v) /\ OptionParts(2, n) /\ OptionParts(9, w) /\ OptionParts(0, e)
  BY OurOptions
<1>5. Len(v) = 3 /\ Len(w) = 1 /\ Len(Padding(3)) = 1 /\ Len(Padding(1)) = 3
  BY PadOf
<1>6. t = NameAt + 4 + Len(n) + Len(Padding(Len(n))) /\ t \in Nat
  BY NamedIs DEF TsresolAt
<1>7. (foreign => NameAt = 16) /\ (~ foreign => NameAt = 8)
  BY CommentedIs, Zenon DEF NameAt
<1> HIDE DEF v, n, w, e, p, t
<1>8. PICK f : OptionsBy(p, f) /\ Options(p) = f[8]
  BY <1>1, OptionsAre
<1>9. f[t + 8] = <<>>
  <2>1. OptionsBy(p, f) /\ HasOption(p, t + 8, 0, e) /\ OptionParts(0, e)
    BY <1>2, <1>4, <1>8
  <2>2. QED
    BY ONLY foreign \in BOOLEAN, Order = ~ foreign, <1>1, <2>1, OptionStops
<1>10. f[t] = <<c>> \o f[t + 4 + Len(w) + Len(Padding(Len(w)))]
  <2>1. OptionsBy(p, f) /\ HasOption(p, t, 9, w) /\ OptionParts(9, w) /\ 9 # 0
    BY <1>2, <1>4, <1>8
  <2>2. QED
    BY ONLY foreign \in BOOLEAN, Order = ~ foreign, <1>1, <2>1, OptionStep
<1>11. f[NameAt] = <<b>> \o f[NameAt + 4 + Len(n) + Len(Padding(Len(n)))]
  <2>1. OptionsBy(p, f) /\ HasOption(p, NameAt, 2, n) /\ OptionParts(2, n) /\ 2 # 0
    BY <1>2, <1>4, <1>8
  <2>2. QED
    BY ONLY foreign \in BOOLEAN, Order = ~ foreign, <1>1, <2>1, OptionStep
<1>12. t + 4 + Len(w) + Len(Padding(Len(w))) = t + 8
  <2>1. t + 4 + 1 + 3 = t + 8
    BY <1>6
  <2>2. Len(w) = 1 /\ Len(Padding(Len(w))) = 3
    BY <1>5
  <2>3. QED
    BY <2>1, <2>2
<1>13. f[t] = <<c>>
  BY <1>9, <1>10, <1>12, Tuples
<1>14. f[NameAt] = <<b, c>>
  BY <1>6, <1>11, <1>13, Tuples
<1>15. CASE foreign
  <2>1. f[8] = <<a>> \o f[8 + 4 + Len(v) + Len(Padding(Len(v)))]
    <3>1. OptionsBy(p, f) /\ HasOption(p, 8, 1, v) /\ OptionParts(1, v) /\ 1 # 0
      BY <1>3, <1>4, <1>8, <1>15
    <3> DEFINE o == 8
    <3>2. HasOption(p, o, 1, v)
      BY <3>1
    <3> HIDE DEF o
    <3>3. f[o] = <<a>> \o f[o + 4 + Len(v) + Len(Padding(Len(v)))]
      BY ONLY foreign \in BOOLEAN, Order = ~ foreign, <1>1, <3>1, <3>2, OptionStep
    <3>4. QED
      BY <3>3 DEF o
  <2>2. 8 + 4 + Len(v) + Len(Padding(Len(v))) = 16
    <3> DEFINE m == Len(v)
               z == Len(Padding(m))
    <3>1. m = 3 /\ z = 1
      BY <1>5
    <3> HIDE DEF m, z
    <3>2. 8 + 4 + m + z = 16
      BY <3>1
    <3>3. QED
      BY <3>2 DEF m, z
  <2>3. f[8] = <<a, b, c>>
    <3>1. f[16] = <<b, c>>
      BY <1>7, <1>14, <1>15
    <3>2. f[8] = <<a>> \o <<b, c>>
      BY ONLY <2>1, <2>2, <3>1
    <3>3. QED
      BY ONLY <3>2, Tuples
  <2>4. QED
    BY <1>8, <1>15, <2>3, Zenon DEF p, v, n, w
<1>16. CASE ~ foreign
  <2>1. f[8] = <<b, c>>
    BY <1>7, <1>14, <1>16
  <2>2. QED
    BY <1>8, <1>16, <2>1, Zenon DEF p, n, w
<1>17. QED
  BY <1>15, <1>16

\* The name and the resolution of an interface are read as they were written.
LEMMA InterfaceSays ==
    ASSUME foreign \in BOOLEAN, Order = ~ foreign, NEW i \in 1..2
    PROVE  /\ LastOf(Options(InterfaceRead(i)), 2, 0, <<>>) = Names[i]
           /\ LastOf(Options(InterfaceRead(i)), 9, 1, <<6>>)[1] = 6
<1> DEFINE v == <<1, 0, 5>>
           n == Names[i]
           w == <<6>>
           a == OptionOf(1, v)
           b == OptionOf(2, n)
           c == OptionOf(9, w)
           os == Options(InterfaceRead(i))
<1>1. os = IF foreign THEN <<a, b, c>> ELSE <<b, c>>
  BY OptionsOfInterface
<1>2. Len(n) >= 0 /\ Len(w) >= 1 /\ w[1] = 6
  BY OurOptions DEF OptionParts
<1> HIDE DEF v, n, w, os
<1>3. /\ a.code = 1 /\ b.code = 2 /\ c.code = 9 /\ b.value = n /\ c.value = w
  BY DEF OptionOf
<1> HIDE DEF a, b, c
<1> DEFINE T == {a, b, c}
<1>4. ASSUME NEW k \in 1..2, os \in Seq(T), Len(os) = k + 1, os[k] = b, os[k + 1] = c
      PROVE  LastOf(os, 2, 0, <<>>) = n /\ LastOf(os, 9, 1, <<6>>) = w
  <2>1. k \in 1..Len(os) /\ k + 1 \in 1..Len(os)
    BY <1>4
  <2>2. \A j \in 1..Len(os) : j > k => j = k + 1
    BY <1>4
  <2>3. \A j \in 1..Len(os) : ~ (j > k + 1)
    BY <1>4
  <2>4. LastWith(os, k, 2, 0) /\ os \in Seq(T)
    BY <1>2, <1>3, <1>4, <2>1, <2>2 DEF LastWith
  <2>5. LastOf(os, 2, 0, <<>>) = os[k].value
    BY ONLY <2>4, LastIs
  <2>6. LastWith(os, k + 1, 9, 1)
    BY <1>2, <1>3, <1>4, <2>1, <2>3 DEF LastWith
  <2>7. LastOf(os, 9, 1, <<6>>) = os[k + 1].value
    BY ONLY <2>4, <2>6, LastIs
  <2>8. QED
    BY <1>3, <1>4, <2>5, <2>7
<1>5. LastOf(os, 2, 0, <<>>) = n /\ LastOf(os, 9, 1, <<6>>) = w
  <2>1. CASE foreign
    <3>1. os = <<a, b, c>>
      BY <1>1, <2>1, Zenon
    <3>2. os \in Seq(T) /\ Len(os) = 2 + 1 /\ os[2] = b /\ os[2 + 1] = c /\ 2 \in 1..2
      BY <3>1
    <3>3. QED
      BY <1>4, <3>2
  <2>2. CASE ~ foreign
    <3>1. os = <<b, c>>
      BY <1>1, <2>2, Zenon
    <3>2. os \in Seq(T) /\ Len(os) = 1 + 1 /\ os[1] = b /\ os[1 + 1] = c /\ 1 \in 1..2
      BY <3>1
    <3>3. QED
      BY <1>4, <3>2
  <2>3. QED
    BY <2>1, <2>2
<1>6. QED
  BY <1>2, <1>5 DEF os, n

-----------------------------------------------------------------------------
(* The section header.                                                     *)

Ones        == [i \in 1..8 |-> B - 1]
SectionBody == ((OurMagic \o U16(1)) \o U16(0)) \o Ones
SectionRead == Padded(SectionBody)

LEMMA OnesAre == Ones \in Seq(TraceByte) /\ Len(Ones) = 8
<1>1. B \in Nat /\ B >= 8
  BY Sizes
<1>2. B - 1 \in TraceByte
  BY <1>1 DEF TraceByte
<1>3. Ones = [i \in 1..8 |-> Ones[i]] /\ \A i \in 1..8 : Ones[i] \in TraceByte
  BY <1>2 DEF Ones
<1>4. 8 \in Nat
  OBVIOUS
<1>5. QED
  BY ONLY <1>3, <1>4, Listed

\* The section header is a block that begins with the magic.
LEMMA SectionIs ==
    ASSUME foreign \in BOOLEAN
    PROVE  /\ Section \in Seq(TraceByte) /\ Len(Section) = 12 + Len(SectionRead)
           /\ BlockParts(SHB, SectionRead) /\ BlockAt(Section, 0, SHB, SectionRead)
           /\ Holds(SectionRead, 0, OurMagic)
<1> DEFINE m == OurMagic
           a == U16(1)
           b == U16(0)
           c == Ones
           d == ((m \o a) \o b) \o c
           p == Padded(d)
<1>1. m \in Seq(TraceByte) /\ Len(m) = 4
  BY MagicIs
<1>2. a \in Seq(TraceByte) /\ Len(a) = 2 /\ b \in Seq(TraceByte) /\ Len(b) = 2
  <2>1. 1 \in 0..Half - 1 /\ 0 \in 0..Half - 1
    BY Sizes
  <2>2. QED
    BY <2>1, U16Is
<1>3. c \in Seq(TraceByte) /\ Len(c) = 8
  BY OnesAre
<1>4. SectionBody = d /\ SectionRead = p
  BY DEF SectionBody, SectionRead
<1>5. Section = Block(SHB, SectionBody)
  BY Zenon DEF Section, SectionBody, OurMagic, Ones
<1> HIDE DEF m, a, b, c
<1>6. m \in Seq(TraceByte) /\ a \in Seq(TraceByte) /\ b \in Seq(TraceByte) /\ c \in Seq(TraceByte)
  BY <1>1, <1>2, <1>3
<1>7. d \in Seq(TraceByte) /\ Len(d) = ((Len(m) + Len(a)) + Len(b)) + Len(c) /\ Holds(d, 0, m)
  BY ONLY <1>6, HoldsFour
<1> HIDE DEF d
<1>8. Len(d) = ((4 + 2) + 2) + 8
  BY ONLY <1>1, <1>2, <1>3, <1>7
<1>9. Len(d) = 16
  BY ONLY <1>8
<1>10. d \in Seq(TraceByte)
  BY <1>7
<1>11. p \in Seq(TraceByte) /\ Holds(p, 0, d) /\ Len(p) \in Len(d)..Len(d) + 3
  BY ONLY <1>10, PaddedIs
<1> HIDE DEF p
<1>12. Holds(p, 0 + 0, m)
  BY ONLY <1>6, <1>7, <1>11, HoldsIn
<1>13. 12 + Len(p) < Word
  <2> DEFINE l == Len(p)
  <2>1. l \in 16..19
    BY <1>9, <1>11
  <2> HIDE DEF l
  <2>2. Half \in Nat /\ Half >= 64 /\ Word \in Nat /\ Word >= 64 * Half
    BY Sizes
  <2>3. 12 + l < Word
    BY <2>1, <2>2
  <2>4. QED
    BY <2>3 DEF l
<1>14. SHB \in Seq(TraceByte) /\ Len(SHB) = 4
  BY TypesAre
<1>15. BlockParts(SHB, p)
  BY <1>11, <1>13, <1>14, Zenon DEF BlockParts
<1>16. p = Padded(d)
  BY DEF p
<1>17. /\ Block(SHB, d) \in Seq(TraceByte) /\ Len(Block(SHB, d)) = 12 + Len(Padded(d))
       /\ BlockAt(Block(SHB, d), 0, SHB, Padded(d))
  BY ONLY foreign \in BOOLEAN, <1>10, <1>15, <1>16, BlockIs
<1>18. 0 + 0 = 0
  OBVIOUS
<1>19. QED
  BY <1>4, <1>5, <1>12, <1>15, <1>16, <1>17, <1>18 DEF m

-----------------------------------------------------------------------------
(* Packets.                                                                *)

Records == [dir : {"FromDut", "ToDut"}, msg : Message, ts : Clock]

PacketData(r)   == PseudoHeader(r.dir, cc) \o r.msg
PacketFields(r) == (((U32(iface) \o Halves(r.ts)) \o U32(Len(PacketData(r))))
                    \o U32(Len(PacketData(r)))) \o Padded(PacketData(r))
PacketBody(r)   == IF foreign
                     THEN PushOption(PushOption(PacketFields(r), 1, <<7, 7>>), 0, <<>>)
                     ELSE PacketFields(r)
PacketRead(r)   == Padded(PacketBody(r))
PacketBlock(r)  == Block(U32(6), PacketBody(r))
Extra           == Block(U32(5), <<1>>)
ExtraRead       == Padded(<<1>>)

\* What the variables of the writer are.
Writers == foreign \in BOOLEAN /\ iface \in {0, 1} /\ cc \in {1, 2}

LEMMA PacketDataIs ==
    ASSUME Writers, NEW r \in Records
    PROVE  /\ PacketData(r) \in Seq(TraceByte) /\ Len(PacketData(r)) \in 10..Half + 7
           /\ PseudoHeader(r.dir, cc) \in Seq(TraceByte) /\ Len(PseudoHeader(r.dir, cc)) = 8
           /\ r.msg \in Seq(TraceByte)
<1> DEFINE h == PseudoHeader(r.dir, cc)
           m == r.msg
           d == h \o m
<1>1. B \in Nat /\ B >= 8 /\ Half \in Nat /\ Half >= 64
  BY Sizes
<1>2. 0 \in TraceByte /\ 1 \in TraceByte /\ 4 \in TraceByte
  BY <1>1 DEF TraceByte
<1> HIDE DEF TraceByte
<1>3. h \in Seq(TraceByte) /\ Len(h) = 8
  <2> DEFINE a == IF r.dir = "ToDut" THEN 1 ELSE 0
             b == IF cc = 2 THEN 4 ELSE 0
  <2>1. a \in TraceByte /\ b \in TraceByte
    BY <1>2
  <2>2. h = <<1, 0, a, b, 0, 0, 0, 0>>
    BY Zenon DEF PseudoHeader
  <2> HIDE DEF a, b
  <2>3. <<1, 0, a, b, 0, 0, 0, 0>> \in Seq(TraceByte)
    BY <1>2, <2>1
  <2>4. Len(<<1, 0, a, b, 0, 0, 0, 0>>) = 8
    OBVIOUS
  <2>5. QED
    BY <2>2, <2>3, <2>4, Zenon
<1>4. m \in Seq(TraceByte) /\ Len(m) \in 2..Half - 1
  <2>1. m \in Message
    BY DEF Records
  <2>2. m \in Seq(TraceByte) /\ Len(m) >= 2 /\ Len(m) < Half
    BY <2>1, PcapNgAssumption DEF TraceByte
  <2> DEFINE l == Len(m)
  <2>3. l \in Nat
    BY <2>2
  <2> HIDE DEF l
  <2>4. l \in 2..Half - 1
    BY <1>1, <2>2, <2>3 DEF l
  <2>5. QED
    BY <2>2, <2>4 DEF l
<1>5. PacketData(r) = d
  BY DEF PacketData
<1> HIDE DEF h, m
<1>6. h \in Seq(TraceByte) /\ m \in Seq(TraceByte)
  BY <1>3, <1>4
<1>7. d \in Seq(TraceByte) /\ Len(d) = Len(h) + Len(m)
  BY ONLY <1>6, HoldsJoined
<1> HIDE DEF d
<1>8. Len(d) \in 10..Half + 7
  <2> DEFINE l == Len(m)
             k == Len(d)
  <2>1. l \in 2..Half - 1 /\ k = 8 + l
    BY <1>3, <1>4, <1>7
  <2> HIDE DEF l, k
  <2>2. k \in 10..Half + 7
    BY <1>1, <2>1
  <2>3. QED
    BY <2>2 DEF k
<1>9. QED
  BY <1>3, <1>4, <1>5, <1>7, <1>8 DEF h, m

\* The two halves of a time.
High(r) == r.ts \div Word
Lower(r) == r.ts % Word

\* A timestamp is its two halves.
LEMMA HalvesAre ==
    ASSUME foreign \in BOOLEAN, NEW r \in Records
    PROVE  /\ High(r) \in 0..Word - 1 /\ Lower(r) \in 0..Word - 1
           /\ High(r) * Word + Lower(r) = r.ts
           /\ Halves(r.ts) \in Seq(TraceByte) /\ Len(Halves(r.ts)) = 8
           /\ Holds(Halves(r.ts), 0, U32(High(r))) /\ Holds(Halves(r.ts), 4, U32(Lower(r)))
<1> DEFINE q == High(r)
           k == Lower(r)
           t == r.ts
           x == U32(q)
           y == U32(k)
           s == x \o y
<1>1. t \in Nat /\ t < Word * Word
  <2>1. t \in Clock
    BY DEF Records
  <2>2. t \in 0..Word * Word - 1
    BY <2>1, PcapNgAssumption
  <2> HIDE DEF t
  <2>3. Word * Word \in Nat
    BY Sizes
  <2>4. QED
    BY <2>2, <2>3
<1>2. Word \in Nat /\ Word > 0
  BY Sizes
<1>3. q = t \div Word /\ k = t % Word
  BY DEF High, Lower
<1> HIDE DEF t, q, k
<1>4. t \div Word \in Nat /\ t % Word \in 0..Word - 1 /\ t = Word * (t \div Word) + (t % Word)
  BY <1>1, <1>2, DivIs
<1>5. t \div Word < Word
  BY <1>1, <1>2, DivLess
<1>6. q \in Nat /\ k \in 0..Word - 1 /\ t = Word * q + k /\ q < Word
  BY <1>3, <1>4, <1>5
<1>7. q \in 0..Word - 1
  BY <1>2, <1>6
<1>8. q * Word + k = t
  <2>1. Word * q = q * Word
    BY <1>2, <1>6
  <2>2. QED
    BY <1>6, <2>1
<1>9. x \in Seq(TraceByte) /\ Len(x) = 4 /\ y \in Seq(TraceByte) /\ Len(y) = 4
  BY <1>6, <1>7, U32Is
<1>10. Halves(t) = s
  BY <1>3, Zenon DEF Halves
<1> HIDE DEF x, y
<1>11. x \in Seq(TraceByte) /\ y \in Seq(TraceByte)
  BY <1>9
<1>12. s \in Seq(TraceByte) /\ Len(s) = Len(x) + Len(y) /\ Holds(s, 0, x) /\ Holds(s, Len(x), y)
  BY ONLY <1>11, HoldsJoined
<1> HIDE DEF s
<1>13. Len(s) = 8 /\ Holds(s, 4, y)
  BY ONLY <1>9, <1>12
<1>14. QED
  BY <1>6, <1>7, <1>8, <1>10, <1>12, <1>13 DEF x, y, q, k, t

\* Where the fields of a packet are in a sequence.
HasFields(s, r) ==
    /\ Holds(s, 0, U32(iface)) /\ Holds(s, 4, U32(High(r))) /\ Holds(s, 8, U32(Lower(r)))
    /\ Holds(s, 12, U32(Len(PacketData(r)))) /\ Holds(s, 20, PacketData(r))

LEMMA FieldSizes ==
    ASSUME Writers, NEW r \in Records
    PROVE  /\ foreign \in BOOLEAN
           /\ iface \in 0..Word - 1 /\ Len(PacketData(r)) \in 0..Word - 1
           /\ High(r) \in 0..Word - 1 /\ Lower(r) \in 0..Word - 1
<1>1. foreign \in BOOLEAN /\ iface \in {0, 1}
  BY DEF Writers
<1>2. Half \in Nat /\ Half >= 64 /\ Word \in Nat /\ Word >= 64 * Half
  BY Sizes
<1>3. High(r) \in 0..Word - 1 /\ Lower(r) \in 0..Word - 1
  BY <1>1, HalvesAre
<1> DEFINE n == Len(PacketData(r))
<1>4. n \in 10..Half + 7
  BY PacketDataIs
<1> HIDE DEF n
<1>5. n \in 0..Word - 1
  BY <1>2, <1>4
<1>6. iface \in 0..Word - 1
  BY <1>1, <1>2
<1>7. QED
  BY <1>1, <1>3, <1>5, <1>6 DEF n

\* They are also there in what begins with that.
LEMMA FieldsIn ==
    ASSUME Writers, NEW r \in Records, NEW s \in Seq(TraceByte), NEW y \in Seq(TraceByte),
           Holds(s, 0, y), HasFields(y, r)
    PROVE  HasFields(s, r)
<1> DEFINE a == U32(iface)
           b == U32(High(r))
           c == U32(Lower(r))
           e == U32(Len(PacketData(r)))
           d == PacketData(r)
<1>1. a \in Seq(TraceByte) /\ b \in Seq(TraceByte) /\ c \in Seq(TraceByte) /\ e \in Seq(TraceByte)
  BY FieldSizes, U32Is
<1>2. d \in Seq(TraceByte)
  BY PacketDataIs
<1>3. Holds(y, 0, a) /\ Holds(y, 4, b) /\ Holds(y, 8, c) /\ Holds(y, 12, e) /\ Holds(y, 20, d)
  BY DEF HasFields
<1> HIDE DEF a, b, c, d, e
<1>4. Holds(s, 0 + 0, a) /\ Holds(s, 0 + 4, b) /\ Holds(s, 0 + 8, c) /\ Holds(s, 0 + 12, e)
      /\ Holds(s, 0 + 20, d)
  BY ONLY s \in Seq(TraceByte), y \in Seq(TraceByte), Holds(s, 0, y), <1>1, <1>2, <1>3, HoldsIn
<1>5. 0 + 0 = 0 /\ 0 + 4 = 4 /\ 0 + 8 = 8 /\ 0 + 12 = 12 /\ 0 + 20 = 20
  OBVIOUS
<1>6. QED
  BY <1>4, <1>5 DEF HasFields, a, b, c, d, e

\* Where the fields of a packet are, also in the padded body of a block.
LEMMA PacketFieldsIs ==
    ASSUME Writers, NEW r \in Records
    PROVE  /\ PacketFields(r) \in Seq(TraceByte) /\ HasFields(PacketFields(r), r)
           /\ Len(PacketFields(r)) % 4 = 0 /\ Len(PacketFields(r)) \in 20..Half + 30
<1> DEFINE a == U32(iface)
           b == Halves(r.ts)
           e == U32(Len(PacketData(r)))
           d == PacketData(r)
           p == Padded(d)
           s == ((a \o b) \o e) \o e
           f == s \o p
<1>1. a \in Seq(TraceByte) /\ Len(a) = 4 /\ e \in Seq(TraceByte) /\ Len(e) = 4
  BY FieldSizes, U32Is
<1>2. b \in Seq(TraceByte) /\ Len(b) = 8 /\ Holds(b, 0, U32(High(r))) /\ Holds(b, 4, U32(Lower(r)))
  BY FieldSizes, HalvesAre
<1>3. d \in Seq(TraceByte) /\ Len(d) \in 10..Half + 7
  BY PacketDataIs
<1>4. PacketFields(r) = f
  BY DEF PacketFields
<1>h. U32(High(r)) \in Seq(TraceByte) /\ U32(Lower(r)) \in Seq(TraceByte)
  BY FieldSizes, U32Is
<1> HIDE DEF a, b, d, e
<1>5. /\ p \in Seq(TraceByte) /\ Holds(p, 0, d) /\ Len(p) % 4 = 0
      /\ Len(p) \in Len(d)..Len(d) + 3
  BY <1>3, PaddedIs
<1> HIDE DEF p
<1>6. a \in Seq(TraceByte) /\ b \in Seq(TraceByte) /\ e \in Seq(TraceByte)
  BY <1>1, <1>2
<1>7. /\ s \in Seq(TraceByte) /\ Len(s) = ((Len(a) + Len(b)) + Len(e)) + Len(e)
      /\ Holds(s, 0, a) /\ Holds(s, Len(a), b) /\ Holds(s, Len(a) + Len(b), e)
  BY ONLY <1>6, HoldsFour
<1> HIDE DEF s
<1>8. Len(s) = ((4 + 8) + 4) + 4 /\ Holds(s, 4, b) /\ Holds(s, 4 + 8, e)
  BY ONLY <1>1, <1>2, <1>7
<1>9. Len(s) = 20 /\ Holds(s, 12, e)
  BY ONLY <1>8
<1>10. s \in Seq(TraceByte) /\ p \in Seq(TraceByte)
  BY <1>5, <1>7
<1>11. /\ f \in Seq(TraceByte) /\ Len(f) = Len(s) + Len(p)
       /\ Holds(f, 0, s) /\ Holds(f, Len(s), p)
  BY ONLY <1>10, HoldsJoined
<1> HIDE DEF f
<1>12. Holds(s, 4 + 0, U32(High(r))) /\ Holds(s, 4 + 4, U32(Lower(r)))
  BY ONLY <1>2, <1>6, <1>8, <1>10, <1>h, HoldsIn
<1>13. Holds(s, 4, U32(High(r))) /\ Holds(s, 8, U32(Lower(r)))
  BY ONLY <1>12
<1>14. /\ Holds(f, 0 + 0, a) /\ Holds(f, 0 + 4, U32(High(r))) /\ Holds(f, 0 + 8, U32(Lower(r)))
       /\ Holds(f, 0 + 12, e)
  BY ONLY <1>6, <1>7, <1>9, <1>10, <1>11, <1>13, <1>h, HoldsIn
<1>15. Holds(f, 20, p)
  BY ONLY <1>9, <1>11
<1>16. Holds(f, 20 + 0, d)
  BY ONLY <1>3, <1>5, <1>11, <1>15, HoldsIn
<1>17. 0 + 0 = 0 /\ 0 + 4 = 4 /\ 0 + 8 = 8 /\ 0 + 12 = 12 /\ 20 + 0 = 20
  OBVIOUS
<1>18. HasFields(f, r)
  BY <1>14, <1>16, <1>17 DEF HasFields, a, d, e
<1>19. Len(f) % 4 = 0 /\ Len(f) \in 20..Half + 30
  <2> DEFINE l == Len(f)
             m == Len(p)
             n == Len(d)
  <2>1. l = 20 + m /\ m % 4 = 0 /\ m \in n..n + 3 /\ n \in 10..Half + 7
    BY <1>3, <1>5, <1>9, <1>11
  <2> HIDE DEF l, m, n
  <2>2. Half \in Nat
    BY Sizes
  <2>3. l % 4 = 0 /\ l \in 20..Half + 30
    BY <2>1, <2>2
  <2>4. QED
    BY <2>3 DEF l
<1>20. QED
  BY <1>4, <1>11, <1>18, <1>19

LEMMA PacketBodyIs ==
    ASSUME Writers, NEW r \in Records
    PROVE  /\ PacketBody(r) \in Seq(TraceByte) /\ HasFields(PacketBody(r), r)
           /\ Len(PacketBody(r)) \in 20..Half + 50
<1> DEFINE f == PacketFields(r)
           l == Len(f)
<1>1. /\ f \in Seq(TraceByte) /\ HasFields(f, r) /\ Len(f) % 4 = 0 /\ l \in 20..Half + 30
  BY PacketFieldsIs
<1>2. Half \in Nat /\ foreign \in BOOLEAN
  BY Sizes DEF Writers
<1>3. CASE foreign
  <2> DEFINE v == <<7, 7>>
             w == <<>>
             s == PushOption(f, 1, v)
             t == PushOption(s, 0, w)
  <2>1. PacketBody(r) = t
    BY <1>3, Zenon DEF PacketBody
  <2>2. OptionParts(1, v) /\ OptionParts(0, w)
    BY OurOptions
  <2>3. Len(v) = 2 /\ Len(Padding(2)) = 2 /\ Len(w) = 0 /\ Len(Padding(0)) = 0
    BY PadOf
  <2> HIDE DEF v, w, f
  <2>4. /\ s \in Seq(TraceByte) /\ Len(s) = Len(f) + 4 + Len(v) + Len(Padding(Len(v)))
        /\ Len(s) % 4 = 0 /\ Holds(s, 0, f)
    <3>1. f \in Seq(TraceByte) /\ Len(f) % 4 = 0
      BY <1>1
    <3>2. OptionParts(1, v)
      BY <2>2
    <3>3. QED
      BY ONLY <1>2, <3>1, <3>2, PushIs
  <2> HIDE DEF s
  <2>5. s \in Seq(TraceByte) /\ Len(s) % 4 = 0
    BY <2>4
  <2>6. /\ t \in Seq(TraceByte) /\ Len(t) = Len(s) + 4 + Len(w) + Len(Padding(Len(w)))
        /\ Holds(t, 0, s)
    <3>1. OptionParts(0, w)
      BY <2>2
    <3>2. QED
      BY ONLY <1>2, <2>5, <3>1, PushIs
  <2> HIDE DEF t
  <2>7. HasFields(s, r)
    BY <1>1, <2>4, FieldsIn
  <2>8. HasFields(t, r)
    BY <2>5, <2>6, <2>7, FieldsIn
  <2>9. Len(s) = l + 4 + 2 + 2 /\ Len(t) = Len(s) + 4 + 0 + 0
    BY <2>3, <2>4, <2>6
  <2>10. Len(t) \in 20..Half + 50
    <3> DEFINE ls == Len(s)
               lt == Len(t)
    <3>1. ls = l + 4 + 2 + 2 /\ lt = ls + 4 + 0 + 0 /\ l \in 20..Half + 30
      BY <1>1, <2>9
    <3> HIDE DEF l, ls, lt
    <3>2. lt \in 20..Half + 50
      BY <1>2, <3>1
    <3>3. QED
      BY <3>2 DEF lt
  <2>11. QED
    BY <2>1, <2>6, <2>8, <2>10
<1>4. CASE ~ foreign
  <2>1. PacketBody(r) = f
    BY <1>4, Zenon DEF PacketBody
  <2>2. l \in 20..Half + 50
    <3> HIDE DEF l
    <3>1. QED
      BY <1>1, <1>2
  <2>3. QED
    BY <1>1, <2>1, <2>2
<1>5. QED
  BY <1>2, <1>3, <1>4

\* A packet is a block.
LEMMA PacketBlockIs ==
    ASSUME Writers, NEW r \in Records
    PROVE  /\ PacketRead(r) \in Seq(TraceByte) /\ HasFields(PacketRead(r), r)
           /\ Len(PacketRead(r)) >= 20
           /\ PacketBlock(r) \in Seq(TraceByte) /\ Len(PacketBlock(r)) = 12 + Len(PacketRead(r))
           /\ BlockParts(U32(6), PacketRead(r))
           /\ BlockAt(PacketBlock(r), 0, U32(6), PacketRead(r))
<1> DEFINE d == PacketBody(r)
           p == PacketRead(r)
           t == U32(6)
<1>1. d \in Seq(TraceByte) /\ HasFields(d, r) /\ Len(d) \in 20..Half + 50
  BY PacketBodyIs
<1>2. t \in Seq(TraceByte) /\ Len(t) = 4
  BY TypesAre DEF Writers
<1>3. p = Padded(d)
  BY DEF PacketRead
<1>4. PacketBlock(r) = Block(t, d)
  BY DEF PacketBlock
<1>f. foreign \in BOOLEAN
  BY DEF Writers
<1> HIDE DEF d, p, t
<1>5. p \in Seq(TraceByte) /\ Holds(p, 0, d) /\ Len(p) \in Len(d)..Len(d) + 3
  BY <1>1, <1>3, PaddedIs
<1>6. HasFields(p, r)
  BY <1>1, <1>5, FieldsIn
<1>7. Len(p) >= 20 /\ 12 + Len(p) < Word
  <2> DEFINE l == Len(p)
             m == Len(d)
  <2>1. m \in 20..Half + 50 /\ l \in m..m + 3
    BY <1>1, <1>5
  <2> HIDE DEF l, m
  <2>2. Half \in Nat /\ Half >= 64 /\ Word \in Nat /\ Word >= 64 * Half
    BY Sizes
  <2>3. l >= 20 /\ 12 + l < Word
    BY <2>1, <2>2
  <2>4. QED
    BY <2>3 DEF l
<1>8. BlockParts(t, p)
  BY <1>2, <1>5, <1>7, Zenon DEF BlockParts
<1>9. d \in Seq(TraceByte)
  BY <1>1
<1>10. /\ Block(t, d) \in Seq(TraceByte) /\ Len(Block(t, d)) = 12 + Len(Padded(d))
       /\ BlockAt(Block(t, d), 0, t, Padded(d))
  BY ONLY <1>f, <1>9, <1>8, <1>3, BlockIs
<1>11. QED
  BY <1>3, <1>4, <1>5, <1>6, <1>7, <1>8, <1>10 DEF p, t

\* So is what the other program puts in front of it.
LEMMA ExtraIs ==
    ASSUME foreign \in BOOLEAN
    PROVE  /\ Extra \in Seq(TraceByte) /\ Len(Extra) = 12 + Len(ExtraRead)
           /\ BlockParts(U32(5), ExtraRead) /\ BlockAt(Extra, 0, U32(5), ExtraRead)
<1> DEFINE d == <<1>>
           p == ExtraRead
           t == U32(5)
<1>1. d \in Seq(TraceByte) /\ Len(d) = 1
  <2>1. 1 \in TraceByte
    BY Sizes DEF TraceByte
  <2> HIDE DEF TraceByte
  <2>2. QED
    BY <2>1
<1>2. t \in Seq(TraceByte) /\ Len(t) = 4
  BY TypesAre
<1>3. p = Padded(d) /\ Extra = Block(t, d)
  BY DEF Extra, ExtraRead
<1> HIDE DEF d, p, t
<1>4. d \in Seq(TraceByte)
  BY <1>1
<1>5. p \in Seq(TraceByte) /\ Len(p) \in Len(d)..Len(d) + 3
  BY ONLY <1>3, <1>4, PaddedIs
<1>6. 12 + Len(p) < Word
  <2> DEFINE l == Len(p)
  <2>1. l \in 1..4
    BY <1>1, <1>5
  <2> HIDE DEF l
  <2>2. Half \in Nat /\ Half >= 64 /\ Word \in Nat /\ Word >= 64 * Half
    BY Sizes
  <2>3. 12 + l < Word
    BY <2>1, <2>2
  <2>4. QED
    BY <2>3 DEF l
<1>7. BlockParts(t, p)
  BY <1>2, <1>5, <1>6, Zenon DEF BlockParts
<1>8. /\ Block(t, d) \in Seq(TraceByte) /\ Len(Block(t, d)) = 12 + Len(Padded(d))
      /\ BlockAt(Block(t, d), 0, t, Padded(d))
  BY ONLY foreign \in BOOLEAN, <1>4, <1>7, <1>3, BlockIs
<1>9. QED
  BY <1>3, <1>7, <1>8 DEF p, t

\* A packet is read as it was written.
LEMMA PacketSays ==
    ASSUME Writers, Order = ~ foreign, NEW r \in Records
    PROVE  /\ Rd32(Slice(PacketRead(r), 0, 4), Order) = iface
           /\ Rd32(Slice(PacketRead(r), 4, 4), Order) * Word
                + Rd32(Slice(PacketRead(r), 8, 4), Order) = r.ts
           /\ Data(PacketRead(r)) = PacketData(r)
<1> DEFINE p == PacketRead(r)
           d == PacketData(r)
           n == Len(d)
           l == Len(p)
<1>1. p \in Seq(TraceByte) /\ HasFields(p, r)
  BY PacketBlockIs
<1>2. d \in Seq(TraceByte)
  BY PacketDataIs
<1>3. /\ Holds(p, 0, U32(iface)) /\ Holds(p, 4, U32(High(r))) /\ Holds(p, 8, U32(Lower(r)))
      /\ Holds(p, 12, U32(n)) /\ Holds(p, 20, d)
  BY <1>1 DEF HasFields
<1>f. foreign \in BOOLEAN
  BY DEF Writers
<1>o. Order = ~ foreign
  OBVIOUS
<1> HIDE DEF p, d
<1>4. ASSUME NEW v \in 0..Word - 1, NEW i, Holds(p, i, U32(v))
      PROVE  Rd32(Slice(p, i, 4), Order) = v
  <2>1. U32(v) \in Seq(TraceByte) /\ Len(U32(v)) = 4 /\ Rd32(U32(v), ~ foreign) = v
    BY <1>f, U32Is
  <2>a. U32(v) \in Seq(TraceByte)
    BY <2>1
  <2>2. Slice(p, i, Len(U32(v))) = U32(v)
    BY ONLY <1>1, <1>4, <2>a, HoldsSlice
  <2>3. Slice(p, i, 4) = U32(v)
    BY <2>1, <2>2
  <2>4. QED
    BY <1>o, <2>1, <2>3, Zenon
<1>5. /\ iface \in 0..Word - 1 /\ n \in 0..Word - 1
      /\ High(r) \in 0..Word - 1 /\ Lower(r) \in 0..Word - 1
  BY FieldSizes DEF d
<1>6. /\ Rd32(Slice(p, 0, 4), Order) = iface /\ Rd32(Slice(p, 4, 4), Order) = High(r)
      /\ Rd32(Slice(p, 8, 4), Order) = Lower(r) /\ Rd32(Slice(p, 12, 4), Order) = n
  BY ONLY <1>3, <1>4, <1>5
<1>7. High(r) * Word + Lower(r) = r.ts
  BY <1>f, HalvesAre
<1>8. Min({n, l - 20}) = n
  <2>1. n \in Nat /\ l \in Nat /\ 20 + n <= l
    BY <1>1, <1>2, <1>3 DEF Holds
  <2> HIDE DEF n, l
  <2>2. n \in Int /\ l - 20 \in Int /\ n <= l - 20
    BY <2>1
  <2> DEFINE m == l - 20
  <2> HIDE DEF m
  <2>3. n \in Int /\ m \in Int /\ n <= m
    BY <2>2 DEF m
  <2>4. Min({n, m}) = n
    BY <2>3, LesserOfTwo
  <2>5. QED
    BY <2>4 DEF m
<1>9. Data(p) = Slice(p, 20, n)
  BY <1>6, <1>8, Zenon DEF Data
<1>10. Slice(p, 20, n) = d
  BY ONLY <1>1, <1>2, <1>3, HoldsSlice
<1>11. Rd32(Slice(p, 4, 4), Order) * Word + Rd32(Slice(p, 8, 4), Order) = r.ts
  BY ONLY <1>6, <1>7
<1>12. QED
  BY <1>6, <1>9, <1>10, <1>11 DEF p, d

\* What pd-dump makes of the data.
LEMMA DataSays ==
    ASSUME Writers, NEW r \in Records
    PROVE  /\ ParsedHeader(PacketData(r)) = [dir |-> r.dir, cc |-> cc]
           /\ SubSeq(PacketData(r), 9, Len(PacketData(r))) = r.msg
<1> DEFINE h == PseudoHeader(r.dir, cc)
           m == r.msg
           d == PacketData(r)
           s == h \o m
<1>1. h \in Seq(TraceByte) /\ Len(h) = 8 /\ m \in Seq(TraceByte)
  BY PacketDataIs
<1>2. d = s
  BY DEF PacketData
<1>3. r.dir \in {"FromDut", "ToDut"} /\ cc \in {1, 2}
  BY DEF Writers, Records
<1>4. h[3] = (IF r.dir = "ToDut" THEN 1 ELSE 0) /\ h[4] = (IF cc = 2 THEN 4 ELSE 0)
  BY DEF PseudoHeader
<1> HIDE DEF h, m, d
<1>5. h \in Seq(TraceByte) /\ m \in Seq(TraceByte)
  BY <1>1
<1>6. /\ s \in Seq(TraceByte) /\ Len(s) = Len(h) + Len(m)
      /\ \A i \in 1..Len(h) + Len(m) : s[i] = IF i <= Len(h) THEN h[i] ELSE m[i - Len(h)]
  BY ONLY <1>5, Joined
<1>7. /\ s \in Seq(TraceByte) /\ Len(s) = Len(h) + Len(m) /\ Holds(s, Len(h), m)
  BY ONLY <1>5, HoldsJoined
<1> HIDE DEF s
<1>8. s[3] = h[3] /\ s[4] = h[4]
  <2> DEFINE a == Len(h)
             b == Len(m)
  <2>1. a = 8 /\ b \in Nat /\ \A i \in 1..a + b : s[i] = IF i <= a THEN h[i] ELSE m[i - a]
    BY <1>1, <1>6
  <2> HIDE DEF a, b
  <2>2. 3 \in 1..a + b /\ 4 \in 1..a + b /\ 3 <= a /\ 4 <= a
    BY <2>1
  <2>3. QED
    BY <2>1, <2>2
<1>9. ParsedHeader(s) = [dir |-> r.dir, cc |-> cc]
  <2>1. s[3] = 1 <=> r.dir = "ToDut"
    BY <1>3, <1>4, <1>8
  <2>2. (IF s[3] = 1 THEN "ToDut" ELSE "FromDut") = r.dir
    BY <1>3, <2>1
  <2>3. (4 \div 4) % 2 = 1 /\ (0 \div 4) % 2 = 0
    OBVIOUS
  <2>4. (s[4] \div 4) % 2 = 1 <=> cc = 2
    BY <1>3, <1>4, <1>8, <2>3
  <2>5. (IF (s[4] \div 4) % 2 = 1 THEN 2 ELSE 1) = cc
    BY <1>3, <2>4
  <2>6. QED
    BY <2>2, <2>5, Zenon DEF ParsedHeader
<1>10. SubSeq(s, 9, Len(s)) = m
  <2>1. Slice(s, Len(h), Len(m)) = m
    BY ONLY <1>5, <1>7, HoldsSlice
  <2>2. Slice(s, Len(h), Len(m)) = SubSeq(s, 9, Len(s))
    <3> DEFINE a == Len(h)
               b == Len(m)
               c == Len(s)
    <3>1. a = 8 /\ b \in Nat /\ c = a + b
      BY <1>1, <1>7
    <3> HIDE DEF a, b, c
    <3>2. a + 1 = 9 /\ a + b = c
      BY <3>1
    <3>3. Slice(s, a, b) = SubSeq(s, a + 1, a + b)
      BY DEF Slice
    <3>4. Slice(s, a, b) = SubSeq(s, 9, c)
      BY ONLY <3>2, <3>3
    <3>5. QED
      BY <3>4 DEF a, b, c
  <2>3. QED
    BY <2>1, <2>2
<1>11. QED
  BY <1>2, <1>9, <1>10 DEF d, m

-----------------------------------------------------------------------------
(* The file.                                                               *)

LEMMA PacketIs ==
    ASSUME NEW r
    PROVE  Packet(r) = IF foreign THEN Extra \o PacketBlock(r) ELSE PacketBlock(r)
BY Zenon DEF Packet, PacketBlock, PacketBody, PacketFields, PacketData, Extra, EPB

\* A record is one block, or the other program's two.
LEMMA PacketType ==
    ASSUME Writers, NEW r \in Records
    PROVE  /\ Packet(r) \in Seq(TraceByte)
           /\ foreign => /\ Len(Packet(r)) = Len(Extra) + Len(PacketBlock(r))
                         /\ Holds(Packet(r), 0, Extra)
                         /\ Holds(Packet(r), Len(Extra), PacketBlock(r))
           /\ ~ foreign => Packet(r) = PacketBlock(r)
<1> DEFINE e == Extra
           b == PacketBlock(r)
           s == e \o b
<1>1. e \in Seq(TraceByte) /\ b \in Seq(TraceByte) /\ foreign \in BOOLEAN
  BY ExtraIs, PacketBlockIs DEF Writers
<1>2. Packet(r) = IF foreign THEN s ELSE b
  BY PacketIs
<1> HIDE DEF e, b
<1>3. s \in Seq(TraceByte) /\ Len(s) = Len(e) + Len(b) /\ Holds(s, 0, e) /\ Holds(s, Len(e), b)
  BY ONLY <1>1, HoldsJoined
<1> HIDE DEF s
<1>4. QED
  BY <1>1, <1>2, <1>3, Zenon DEF e, b

\* The file of k messages is that of one less and the last.
Packets(k) == [i \in 1..k |-> Packet(recorded[i])]
Start == (Section \o Interface(1)) \o Interface(2)

\* The file begins with the section and the two interfaces,
LEMMA StartIs ==
    ASSUME foreign \in BOOLEAN
    PROVE  /\ Start \in Seq(TraceByte)
           /\ Len(Start) = (Len(Section) + Len(Interface(1))) + Len(Interface(2))
           /\ Holds(Start, 0, Section) /\ Holds(Start, Len(Section), Interface(1))
           /\ Holds(Start, Len(Section) + Len(Interface(1)), Interface(2))
<1> DEFINE x == Section
           y == Interface(1)
           z == Interface(2)
           w == <<>>
           s == (x \o y) \o z
           t == s \o w
<1>1. x \in Seq(TraceByte) /\ y \in Seq(TraceByte) /\ z \in Seq(TraceByte)
  BY SectionIs, InterfaceIs
<1>2. w \in Seq(TraceByte)
  OBVIOUS
<1>3. Start = s
  BY DEF Start
<1> HIDE DEF x, y, z
<1>4. s \in Seq(TraceByte)
  <2>1. x \o y \in Seq(TraceByte)
    BY ONLY <1>1, HoldsJoined
  <2>2. QED
    BY ONLY <1>1, <2>1, HoldsJoined
<1>5. t = s
  BY ONLY <1>4, ConcatEmptySeq
<1>6. Len(w) = 0
  OBVIOUS
<1> HIDE DEF w
<1>7. /\ Len(t) = ((Len(x) + Len(y)) + Len(z)) + Len(w)
      /\ Holds(t, 0, x) /\ Holds(t, Len(x), y) /\ Holds(t, Len(x) + Len(y), z)
  BY ONLY <1>1, <1>2, HoldsFour
<1> HIDE DEF s, t
<1>8. Len(t) = (Len(x) + Len(y)) + Len(z)
  <2> DEFINE a == Len(x)
             b == Len(y)
             c == Len(z)
  <2>1. a \in Nat /\ b \in Nat /\ c \in Nat /\ Len(t) = ((a + b) + c) + 0
    BY <1>1, <1>6, <1>7
  <2> HIDE DEF a, b, c
  <2>2. ((a + b) + c) + 0 = (a + b) + c
    BY <2>1
  <2>3. QED
    BY <2>1, <2>2 DEF a, b, c
<1>9. QED
  BY <1>3, <1>4, <1>5, <1>7, <1>8 DEF x, y, z

\* and goes on with the messages.
LEMMA UptoIs ==
    ASSUME Writers, recorded \in Seq(Records), NEW k \in 0..Len(recorded)
    PROVE  /\ Upto(k) = Start \o FlattenSeq(Packets(k)) /\ Packets(k) \in Seq(Seq(TraceByte))
           /\ Len(Packets(k)) = k /\ \A i \in 1..k : Packets(k)[i] = Packet(recorded[i])
           /\ Upto(k) \in Seq(TraceByte) /\ Holds(Upto(k), 0, Start)
<1> DEFINE q == Packets(k)
           n == Len(recorded)
           f == FlattenSeq(q)
           s == Start \o f
<1>1. n \in Nat /\ k \in 0..n
  OBVIOUS
<1> HIDE DEF n
<1>2. ASSUME NEW i \in 1..k PROVE recorded[i] \in Records
  <2>1. i \in 1..n
    BY <1>1
  <2>2. QED
    BY <2>1, Elements DEF n
<1>3. q = [i \in 1..k |-> q[i]] /\ \A i \in 1..k : q[i] = Packet(recorded[i])
  BY DEF Packets
<1> HIDE DEF q
<1>4. \A i \in 1..k : q[i] \in Seq(TraceByte)
  BY <1>2, <1>3, PacketType
<1>5. k \in Nat
  BY <1>1
<1>6. q \in Seq(Seq(TraceByte)) /\ Len(q) = k
  <2> DEFINE T == Seq(TraceByte)
  <2>1. \A i \in 1..k : q[i] \in T
    BY <1>4
  <2> HIDE DEF T
  <2>2. q \in Seq(T) /\ Len(q) = k
    BY ONLY <1>3, <1>5, <2>1, Listed
  <2>3. QED
    BY <2>2 DEF T
<1>7. Upto(k) = s
  BY Zenon DEF Upto, Start, Packets, q
<1>8. f \in Seq(TraceByte)
  BY ONLY <1>6, FlattenType
<1>9. Start \in Seq(TraceByte)
  BY StartIs DEF Writers
<1> HIDE DEF f
<1>10. s \in Seq(TraceByte) /\ Holds(s, 0, Start)
  BY ONLY <1>8, <1>9, HoldsJoined
<1> HIDE DEF s
<1>11. QED
  BY <1>3, <1>6, <1>7, <1>10 DEF q, s, f

\* One more message is at the end of the file.
LEMMA UptoNext ==
    ASSUME Writers, recorded \in Seq(Records), NEW k \in Nat, k < Len(recorded)
    PROVE  /\ recorded[k + 1] \in Records
           /\ Upto(k + 1) = Upto(k) \o Packet(recorded[k + 1])
           /\ Len(Upto(k + 1)) = Len(Upto(k)) + Len(Packet(recorded[k + 1]))
           /\ Holds(Upto(k + 1), 0, Upto(k))
           /\ Holds(Upto(k + 1), Len(Upto(k)), Packet(recorded[k + 1]))
<1> DEFINE p == Packets(k)
           q == Packets(k + 1)
           n == Len(recorded)
           r == recorded[k + 1]
           x == Start
           y == FlattenSeq(p)
           z == Packet(r)
<1>1. n \in Nat /\ k < n
  OBVIOUS
<1> HIDE DEF n
<1>2. k \in 0..n /\ k + 1 \in 0..n /\ k + 1 \in 1..n /\ k + 1 \in 1..k + 1
      /\ \A i \in 1..k : i \in 1..k + 1
  BY <1>1
<1>3. r \in Records
  BY <1>2, Elements DEF n
<1>4. z \in Seq(TraceByte)
  BY <1>3, PacketType
<1>5. /\ Upto(k) = x \o y /\ p \in Seq(Seq(TraceByte)) /\ Len(p) = k
      /\ \A i \in 1..k : p[i] = Packet(recorded[i])
  BY <1>2, UptoIs DEF n
<1>6. /\ Upto(k + 1) = x \o FlattenSeq(q) /\ q \in Seq(Seq(TraceByte)) /\ Len(q) = k + 1
      /\ \A i \in 1..k + 1 : q[i] = Packet(recorded[i])
  BY <1>2, UptoIs DEF n
<1>t. x \in Seq(TraceByte)
  BY StartIs DEF Writers
<1> HIDE DEF p, q, x
<1>7. Extends(q, p, TraceByte)
  BY <1>2, <1>5, <1>6 DEF Extends
<1>8. FlattenSeq(q) = FlattenSeq(p) \o q[Len(p) + 1]
  BY ONLY <1>7, ExtendsFlat
<1>9. q[Len(p) + 1] = z
  BY <1>2, <1>5, <1>6
<1>10. y \in Seq(TraceByte)
  BY ONLY <1>5, FlattenType
<1>11. FlattenSeq(q) = y \o z
  BY <1>8, <1>9
<1> HIDE DEF y, z
<1>12. (x \o y) \o z = x \o (y \o z)
  BY ONLY <1>4, <1>10, <1>t, Associates DEF Associative
<1> DEFINE s == x \o y
<1>13. Upto(k) = s /\ Upto(k + 1) = s \o z
  BY ONLY <1>5, <1>6, <1>11, <1>12 DEF y
<1>14. s \in Seq(TraceByte)
  BY ONLY <1>10, <1>t, HoldsJoined
<1> HIDE DEF s
<1>15. Len(s \o z) = Len(s) + Len(z) /\ Holds(s \o z, 0, s) /\ Holds(s \o z, Len(s), z)
  BY ONLY <1>4, <1>14, HoldsJoined
<1>16. QED
  BY <1>3, <1>13, <1>15 DEF z

\* The file begins with that of any number of messages.
LEMMA UptoBegins ==
    ASSUME Writers, recorded \in Seq(Records), NEW k \in 0..Len(recorded), NEW m \in k..Len(recorded)
    PROVE  Holds(Upto(m), 0, Upto(k)) /\ Len(Upto(k)) <= Len(Upto(m))
<1> DEFINE n == Len(recorded)
           N == {d \in Nat : k + d <= n => Holds(Upto(k + d), 0, Upto(k))}
<1>1. n \in Nat /\ k \in 0..n /\ m \in k..n
  OBVIOUS
<1>2. \A i \in 0..n : Upto(i) \in Seq(TraceByte)
  BY UptoIs
<1>w. Writers /\ recorded \in Seq(Records)
  OBVIOUS
<1>3. ASSUME NEW i \in Nat, i < n PROVE Holds(Upto(i + 1), 0, Upto(i))
  BY <1>3, UptoNext
<1> HIDE DEF n
<1>4. 0 \in N
  <2> DEFINE s == Upto(k)
             l == Len(s)
  <2>1. l \in Nat
    BY <1>1, <1>2
  <2>2. k + 0 = k /\ 0 \in Nat
    BY <1>1
  <2> HIDE DEF s
  <2>3. 0 + l <= l /\ \A j \in 1..l : 0 + j = j
    <3> HIDE DEF l
    <3>1. QED
      BY <2>1
  <2>4. Holds(s, 0, s)
    BY <2>3 DEF Holds
  <2>5. QED
    BY <2>2, <2>4 DEF s
<1>5. ASSUME NEW d \in Nat, d \in N PROVE d + 1 \in N
  <2> SUFFICES ASSUME k + (d + 1) <= n PROVE Holds(Upto(k + (d + 1)), 0, Upto(k))
    OBVIOUS
  <2> DEFINE i == k + d
             x == Upto(i + 1)
             y == Upto(i)
             z == Upto(k)
  <2>1. i \in Nat /\ i < n /\ i <= n /\ i + 1 = k + (d + 1) /\ i \in 0..n /\ i + 1 \in 0..n /\ k \in 0..n
    BY <1>1
  <2>2. Holds(y, 0, z)
    BY <1>5, <2>1
  <2> HIDE DEF i
  <2>3. Holds(x, 0, y)
    BY <1>3, <2>1
  <2>4. x \in Seq(TraceByte) /\ y \in Seq(TraceByte) /\ z \in Seq(TraceByte)
    BY <1>2, <2>1
  <2> HIDE DEF x, y, z
  <2>5. Holds(x, 0 + 0, z)
    BY ONLY <2>2, <2>3, <2>4, HoldsIn
  <2>6. Holds(x, 0, z)
    BY ONLY <2>5
  <2>7. QED
    BY <2>1, <2>6 DEF x, z
<1> HIDE DEF N
<1>6. Nat \subseteq N
  BY ONLY <1>4, <1>5, NatInductionOnSets
<1>7. m - k \in Nat /\ k + (m - k) = m /\ m <= n
  BY <1>1
<1>8. Holds(Upto(m), 0, Upto(k))
  BY <1>6, <1>7 DEF N
<1>9. Len(Upto(k)) <= Len(Upto(m))
  <2> DEFINE a == Len(Upto(k))
             b == Len(Upto(m))
  <2>1. k \in 0..n /\ m \in 0..n
    BY <1>1
  <2>2. a \in Nat /\ b \in Nat
    BY <1>2, <2>1
  <2>3. 0 + a <= b
    BY <1>8 DEF Holds
  <2> HIDE DEF a, b
  <2>4. a <= b
    BY <2>2, <2>3
  <2>5. QED
    BY <2>4 DEF a, b
<1>10. QED
  BY <1>8, <1>9

LEMMA UptoNone ==
    ASSUME Writers, recorded \in Seq(Records)
    PROVE  Upto(0) = Start
<1>1. 0 \in 0..Len(recorded)
  OBVIOUS
<1>2. Upto(0) = Start \o FlattenSeq(Packets(0)) /\ Packets(0) \in Seq(Seq(TraceByte)) /\ Len(Packets(0)) = 0
  BY <1>1, UptoIs
<1>3. Packets(0) = <<>>
  BY ONLY <1>2, EmptySeq
<1>4. FlattenSeq(Packets(0)) = <<>>
  BY <1>3, FlattenEmpty
<1>5. Start \in Seq(TraceByte)
  BY StartIs DEF Writers
<1>6. Start \o <<>> = Start
  BY ONLY <1>5, ConcatEmptySeq
<1>7. QED
  BY <1>2, <1>4, <1>6

\* How many messages are on the disk.
LEMMA StoredIs ==
    ASSUME Writers, recorded \in Seq(Records), size \in Nat, NEW j \in 0..Len(recorded),
           j # 0 => Len(Upto(j)) <= size, j < Len(recorded) => size < Len(Upto(j + 1))
    PROVE  Stored = j
<1> DEFINE n == Len(recorded)
           at == {k \in 1..n : Len(Upto(k)) <= size}
           S == {0} \cup at
<1>1. n \in Nat /\ j \in 0..n
  OBVIOUS
<1>2. \A k \in 0..n : Len(Upto(k)) \in Nat
  BY UptoIs
<1>3. ASSUME NEW k \in 1..n, k > j PROVE ~ (Len(Upto(k)) <= size)
  <2>1. j + 1 \in 0..n /\ k \in (j + 1)..n /\ j < n /\ k \in 0..n
    BY <1>1, <1>3
  <2>2. Len(Upto(j + 1)) <= Len(Upto(k))
    BY <2>1, UptoBegins
  <2>3. size < Len(Upto(j + 1))
    BY <2>1
  <2> DEFINE a == Len(Upto(j + 1))
             b == Len(Upto(k))
  <2>4. a \in Nat /\ b \in Nat /\ a <= b /\ size < a
    BY <1>2, <2>1, <2>2, <2>3
  <2> HIDE DEF a, b
  <2>5. ~ (b <= size)
    BY <2>4
  <2>6. QED
    BY <2>5 DEF b
<1>4. j \in S
  <2>1. j = 0 \/ j \in 1..n
    BY <1>1
  <2>2. QED
    BY <2>1
<1>5. S \in SUBSET Int
  BY <1>1
<1>6. \A k \in S : j >= k
  <2> SUFFICES ASSUME NEW k \in S PROVE j >= k
    OBVIOUS
  <2>1. k = 0 \/ (k \in 1..n /\ ~ (k > j))
    BY <1>3
  <2>2. QED
    BY <1>1, <2>1
<1>7. Stored = Max(S)
  BY DEF Stored
<1> HIDE DEF S
<1>8. Max(S) = j
  BY ONLY <1>4, <1>5, <1>6, MaxIs
<1>9. QED
  BY <1>7, <1>8

-----------------------------------------------------------------------------
(* What the reader makes of the block that is ahead.                       *)

\* s is a block.
IsBlock(s, type, p) ==
    /\ s \in Seq(TraceByte) /\ Len(s) = 12 + Len(p)
    /\ BlockParts(type, p) /\ BlockAt(s, 0, type, p)

\* The reader has come to it.
Ahead(s) == Writers /\ file \in Seq(TraceByte) /\ off \in Nat /\ size \in Nat /\ Holds(file, off, s)

\* All the blocks of the file are such as the reader expects.
LEMMA OurBlocks ==
    ASSUME Writers
    PROVE  /\ IsBlock(Section, SHB, SectionRead) /\ IsBlock(Extra, U32(5), ExtraRead)
           /\ \A i \in 1..2 : IsBlock(Interface(i), U32(1), InterfaceRead(i))
           /\ \A r \in Records : IsBlock(PacketBlock(r), U32(6), PacketRead(r))
<1>1. foreign \in BOOLEAN
  BY DEF Writers
<1>2. IsBlock(Section, SHB, SectionRead)
  BY <1>1, SectionIs, Zenon DEF IsBlock
<1>3. IsBlock(Extra, U32(5), ExtraRead)
  BY <1>1, ExtraIs, Zenon DEF IsBlock
<1>4. ASSUME NEW i \in 1..2 PROVE IsBlock(Interface(i), U32(1), InterfaceRead(i))
  BY <1>1, InterfaceIs, Zenon DEF IsBlock
<1>5. ASSUME NEW r \in Records PROVE IsBlock(PacketBlock(r), U32(6), PacketRead(r))
  BY PacketBlockIs, Zenon DEF IsBlock
<1>6. QED
  BY <1>2, <1>3, <1>4, <1>5

LEMMA AheadIs ==
    ASSUME NEW s, NEW type, NEW p, IsBlock(s, type, p), Ahead(s)
    PROVE  BlockParts(type, p) /\ BlockAt(file, off, type, p)
<1>1. /\ foreign \in BOOLEAN /\ file \in Seq(TraceByte) /\ off \in Nat /\ Holds(file, off, s)
  BY DEF Ahead, Writers
<1>2. s \in Seq(TraceByte) /\ BlockParts(type, p) /\ BlockAt(s, 0, type, p)
  BY DEF IsBlock
<1>3. BlockAt(file, off + 0, type, p)
  BY ONLY <1>1, <1>2, BlockIn
<1>4. off + 0 = off
  BY <1>1
<1>5. QED
  BY <1>2, <1>3, <1>4

\* A block that is ahead is read if its last byte is on the disk.
LEMMA AheadRead ==
    ASSUME NEW s, NEW type, NEW p, IsBlock(s, type, p), Ahead(s), Order = ~ foreign
    PROVE  /\ Type = Rd32(type, ~ foreign) /\ Body = p /\ Total = Len(s) /\ Len(s) \in Nat
           /\ (More /\ Whole) <=> off + Len(s) <= size
<1>1. BlockParts(type, p) /\ BlockAt(file, off, type, p)
  BY AheadIs
<1>2. foreign \in BOOLEAN /\ file \in Seq(TraceByte) /\ off \in Nat /\ size \in Nat
  BY DEF Ahead, Writers
<1>o. Order = ~ foreign
  OBVIOUS
<1>3. Type = Rd32(type, ~ foreign) /\ Total = 12 + Len(p) /\ Body = p
  BY ONLY <1>1, <1>2, <1>o, BodyIs
<1>4. Len(s) = 12 + Len(p) /\ p \in Seq(TraceByte)
  BY DEF IsBlock, BlockParts
<1> DEFINE n == Len(s)
           m == Len(p)
<1>5. m \in Nat /\ n = 12 + m /\ Total = n
  BY <1>3, <1>4
<1> HIDE DEF n, m
<1>6. n \in Nat /\ n >= 12
  BY <1>5
<1>7. More <=> off + 12 <= size
  BY DEF More
<1>8. Whole <=> (n >= 12 /\ off + n <= size)
  BY <1>5 DEF Whole
<1>9. off + n <= size => off + 12 <= size
  BY <1>2, <1>6
<1>10. (More /\ Whole) <=> off + n <= size
  BY <1>6, <1>7, <1>8, <1>9
<1>11. QED
  BY <1>3, <1>5, <1>6, <1>10 DEF n

\* The order is known from the first block on.
LEMMA OrderAhead ==
    ASSUME Writers
    PROVE  /\ Ahead(Section) => Order = ~ foreign
           /\ \A s, p : \A v \in {1, 5, 6} :
                (IsBlock(s, U32(v), p) /\ Ahead(s) /\ le = ~ foreign) => Order = ~ foreign
<1>1. foreign \in BOOLEAN
  BY DEF Writers
<1>2. ASSUME Ahead(Section) PROVE Order = ~ foreign
  <2>1. BlockParts(SHB, SectionRead) /\ BlockAt(file, off, SHB, SectionRead)
    BY <1>2, OurBlocks, AheadIs
  <2>2. file \in Seq(TraceByte) /\ off \in Nat
    BY <1>2 DEF Ahead
  <2>3. Holds(SectionRead, 0, OurMagic)
    BY <1>1, SectionIs
  <2>4. QED
    BY ONLY <1>1, <2>1, <2>2, <2>3, OrderFound
<1>3. ASSUME NEW s, NEW p, NEW v \in {1, 5, 6}, IsBlock(s, U32(v), p), Ahead(s), le = ~ foreign
      PROVE  Order = ~ foreign
  <2>1. BlockParts(U32(v), p) /\ BlockAt(file, off, U32(v), p)
    BY <1>3, AheadIs
  <2>2. file \in Seq(TraceByte) /\ off \in Nat
    BY <1>3 DEF Ahead
  <2>3. U32(v) # SHB
    BY <1>1, TypesAre
  <2>4. le = ~ foreign
    BY <1>3
  <2>5. QED
    BY ONLY <1>1, <2>1, <2>2, <2>3, <2>4, OrderKept
<1>4. QED
  BY <1>2, <1>3, Zenon

\* A step behind a block that is neither an interface nor a packet,
LEMMA PassesBlock ==
    ASSUME NEW s, NEW type, NEW p, IsBlock(s, type, p), Ahead(s), Order = ~ foreign,
           Rd32(type, ~ foreign) \notin {1, 6}, ReadBlock
    PROVE  /\ off' = off + Len(s) /\ off + Len(s) <= size /\ le' = ~ foreign
           /\ interfaces' = interfaces /\ packets' = packets
<1>1. Type = Rd32(type, ~ foreign) /\ Total = Len(s) /\ ((More /\ Whole) => off + Len(s) <= size)
  BY AheadRead
<1>2. ~ IsInterface /\ ~ IsPacket
  BY <1>1 DEF IsInterface, IsPacket, IDB, EPB
<1>3. off' = off + Total /\ le' = Order /\ More /\ Whole
  BY DEF ReadBlock
<1>4. interfaces' = interfaces /\ packets' = packets
  BY <1>2, Zenon DEF ReadBlock
<1>5. le' = ~ foreign
  BY <1>3, Zenon
<1>6. QED
  BY <1>1, <1>3, <1>4, <1>5

\* behind that of an interface,
Interfaces == [linktype : Nat, name : Seq(TraceByte), tsresol : Nat]

\* An interface adds to the interfaces,
LEMMA PassesInterface ==
    ASSUME NEW i \in 1..2, Ahead(Interface(i)), Order = ~ foreign, ReadBlock
    PROVE  /\ off' = off + Len(Interface(i)) /\ off + Len(Interface(i)) <= size
           /\ le' = ~ foreign /\ packets' = packets
           /\ \E x \in Interfaces : /\ interfaces' = Append(interfaces, x)
                                    /\ x.name = Names[i] /\ x.tsresol = 6
<1> DEFINE p == InterfaceRead(i)
           s == Interface(i)
<1>w. Writers /\ foreign \in BOOLEAN
  BY DEF Ahead, Writers
<1>0. IsBlock(s, U32(1), p)
  BY <1>w, OurBlocks
<1>o. Order = ~ foreign
  OBVIOUS
<1>1. Type = Rd32(U32(1), ~ foreign) /\ Body = p /\ Total = Len(s)
      /\ ((More /\ Whole) => off + Len(s) <= size)
  BY <1>0, AheadRead
<1>2. Type = 1
  BY <1>w, <1>1, TypesAre
<1>3. p \in Seq(TraceByte) /\ Len(p) >= 8
  BY <1>w, InterfaceReadIs
<1>4. /\ LastOf(Options(p), 2, 0, <<>>) = Names[i]
      /\ LastOf(Options(p), 9, 1, <<6>>)[1] = 6
  BY <1>w, InterfaceSays
<1>5. Rd16(Slice(p, 0, 2), Order) \in Nat
  <2> DEFINE y == Slice(p, 0, 2)
  <2>1. y \in Seq(TraceByte) /\ Len(y) = 2
    <3> DEFINE a == 0 + 1
               b == 0 + 2
               z == SubSeq(p, a, b)
    <3>1. a \in 1..Len(p) + 1 /\ b \in a - 1..Len(p) /\ b - a + 1 = 2
      <4> DEFINE l == Len(p)
      <4>1. l \in Nat /\ l >= 8
        BY <1>3
      <4> HIDE DEF l
      <4>2. a \in 1..l + 1 /\ b \in a - 1..l /\ b - a + 1 = 2
        BY <4>1
      <4>3. QED
        BY <4>2 DEF l
    <3> HIDE DEF a, b, p
    <3>2. z \in Seq(TraceByte) /\ Len(z) = b - a + 1
      BY ONLY <1>3, <3>1, PartIs
    <3>3. y = z
      BY DEF Slice, a, b
    <3>4. QED
      BY <3>1, <3>2, <3>3
  <2>2. Order \in BOOLEAN
    BY <1>w, <1>o, Zenon
  <2> HIDE DEF y
  <2>3. QED
    BY ONLY <2>1, <2>2, Rd16Type DEF y
<1> DEFINE x == [linktype |-> Rd16(Slice(p, 0, 2), Order),
                 name     |-> LastOf(Options(p), 2, 0, <<>>),
                 tsresol  |-> LastOf(Options(p), 9, 1, <<6>>)[1]]
<1> HIDE DEF p
<1>6. IsInterface /\ ~ IsPacket
  BY <1>1, <1>2, <1>3 DEF IsInterface, IsPacket, IDB, EPB
<1>7. interfaces' = Append(interfaces, x) /\ packets' = packets
  BY <1>1, <1>6, Zenon DEF ReadBlock
<1>8. Names[i] \in Seq(TraceByte)
  BY OurOptions DEF OptionParts
<1>9. x \in Interfaces /\ x.name = Names[i] /\ x.tsresol = 6
  <2> DEFINE l == Rd16(Slice(p, 0, 2), Order)
  <2>1. x = [linktype |-> l, name |-> Names[i], tsresol |-> 6]
    BY <1>4
  <2> HIDE DEF l, x
  <2>2. l \in Nat
    BY <1>5 DEF l
  <2>3. QED
    BY <1>8, <2>1, <2>2 DEF Interfaces
<1>10. off' = off + Total /\ le' = Order /\ More /\ Whole
  BY DEF ReadBlock
<1>11. le' = ~ foreign
  BY <1>10, <1>o, Zenon
<1> HIDE DEF x
<1>12. QED
  BY <1>1, <1>7, <1>9, <1>10, <1>11

\* and behind that of a packet.
Told(r) == [iface |-> iface, ts |-> r.ts, data |-> PacketData(r)]

\* and a packet to the packets.
LEMMA PassesPacket ==
    ASSUME NEW r \in Records, Ahead(PacketBlock(r)), Order = ~ foreign, ReadBlock
    PROVE  /\ off' = off + Len(PacketBlock(r)) /\ off + Len(PacketBlock(r)) <= size
           /\ le' = ~ foreign /\ interfaces' = interfaces
           /\ packets' = Append(packets, Told(r))
<1> DEFINE p == PacketRead(r)
           s == PacketBlock(r)
<1>w. Writers /\ foreign \in BOOLEAN
  BY DEF Ahead, Writers
<1>0. IsBlock(s, U32(6), p)
  BY <1>w, OurBlocks
<1>o. Order = ~ foreign
  OBVIOUS
<1>1. Type = Rd32(U32(6), ~ foreign) /\ Body = p /\ Total = Len(s)
      /\ ((More /\ Whole) => off + Len(s) <= size)
  BY <1>0, AheadRead
<1>2. Type = 6
  BY <1>w, <1>1, TypesAre
<1>3. Len(p) >= 20
  BY <1>w, PacketBlockIs
<1>4. /\ Rd32(Slice(p, 0, 4), Order) = iface
      /\ Rd32(Slice(p, 4, 4), Order) * Word + Rd32(Slice(p, 8, 4), Order) = r.ts
      /\ Data(p) = PacketData(r)
  BY <1>w, <1>o, PacketSays
<1> HIDE DEF p
<1>6. ~ IsInterface /\ IsPacket
  BY <1>1, <1>2, <1>3 DEF IsInterface, IsPacket, IDB, EPB
<1>7. /\ interfaces' = interfaces
      /\ packets' = Append(packets,
           [iface |-> Rd32(Slice(p, 0, 4), Order),
            ts    |-> Rd32(Slice(p, 4, 4), Order) * Word + Rd32(Slice(p, 8, 4), Order),
            data  |-> Data(p)])
  BY <1>1, <1>6, Zenon DEF ReadBlock
<1>8. packets' = Append(packets, Told(r))
  BY <1>4, <1>7, Zenon DEF Told
<1>10. off' = off + Total /\ le' = Order /\ More /\ Whole
  BY DEF ReadBlock
<1>11. le' = ~ foreign
  BY <1>10, <1>o, Zenon
<1>12. QED
  BY <1>1, <1>7, <1>8, <1>10, <1>11

-----------------------------------------------------------------------------
(* The inductive invariant.                                                *)

\* n interfaces have been read, and the first k messages.
Met(n) ==
    /\ interfaces \in Seq(Interfaces) /\ Len(interfaces) = n
    /\ \A i \in 1..n : interfaces[i].name = Names[i] /\ interfaces[i].tsresol = 6
SeenOf(k) == [i \in 1..k |-> Told(recorded[i])]

\* Where the reader can be.
AtStart       == off = 0 /\ Met(0) /\ packets = <<>>
BehindSection == off = Len(Section) /\ le = ~ foreign /\ Met(0) /\ packets = <<>>
BehindFirst   == /\ off = Len(Section) + Len(Interface(1)) /\ le = ~ foreign
                 /\ Met(1) /\ packets = <<>>
BehindPackets(k) == off = Len(Upto(k)) /\ le = ~ foreign /\ Met(2) /\ packets = SeenOf(k)
BehindExtra(k)   == /\ foreign /\ off = Len(Upto(k)) + Len(Extra) /\ le = ~ foreign
                    /\ Met(2) /\ packets = SeenOf(k)

Place ==
    \/ AtStart \/ BehindSection \/ BehindFirst
    \/ \E k \in 0..Len(recorded) : BehindPackets(k)
    \/ \E k \in 0..Len(recorded) : k < Len(recorded) /\ BehindExtra(k)

FileInv ==
    /\ Writers /\ recorded \in Seq(Records) /\ size \in Nat
    /\ stage \in {"start", "trace", "flushed", "broken", "read", "dumped", "rejected"}
    /\ stage = "start" => recorded = <<>> /\ size = 0
    /\ stage # "start" => file = Upto(Len(recorded)) /\ size <= Len(file)
    /\ stage \in {"start", "trace", "flushed", "broken"} => AtStart
    /\ stage = "read" => Place /\ off <= size
    /\ DumpShowsTrace

\* The writer's bytes depend on nothing but its variables.
LEMMA NumbersSame ==
    ASSUME foreign' = foreign
    PROVE  \A v : U16(v)' = U16(v) /\ U32(v)' = U32(v)
  BY Zenon DEF U16, U32, Ordered

LEMMA BlockSame ==
    ASSUME foreign' = foreign
    PROVE  \A t, b : Block(t, b)' = Block(t, b)
<1>1. \A v : U16(v)' = U16(v) /\ U32(v)' = U32(v)
  BY NumbersSame
<1>2. QED
  BY <1>1, Zenon DEF Block

LEMMA PushSame ==
    ASSUME foreign' = foreign
    PROVE  \A b, c, v : PushOption(b, c, v)' = PushOption(b, c, v)
<1>1. \A v : U16(v)' = U16(v) /\ U32(v)' = U32(v)
  BY NumbersSame
<1>2. QED
  BY <1>1, Zenon DEF PushOption

LEMMA StartSame ==
    ASSUME foreign' = foreign
    PROVE  Section' = Section /\ Interface(1)' = Interface(1) /\ Interface(2)' = Interface(2)
<1>1. \A v : U16(v)' = U16(v) /\ U32(v)' = U32(v)
  BY NumbersSame
<1>2. \A t, b : Block(t, b)' = Block(t, b)
  BY BlockSame
<1>3. \A b, c, v : PushOption(b, c, v)' = PushOption(b, c, v)
  BY PushSame
<1>4. Section' = Section
  BY <1>1, <1>2, Zenon DEF Section
<1>5. Interface(1)' = Interface(1)
  BY <1>1, <1>2, <1>3, Zenon DEF Interface
<1>6. Interface(2)' = Interface(2)
  BY <1>1, <1>2, <1>3, Zenon DEF Interface
<1>7. QED
  BY <1>4, <1>5, <1>6

LEMMA PacketSame ==
    ASSUME foreign' = foreign, iface' = iface, cc' = cc
    PROVE  \A r : Packet(r)' = Packet(r)
<1>1. \A v : U16(v)' = U16(v) /\ U32(v)' = U32(v)
  BY NumbersSame
<1>2. \A t, b : Block(t, b)' = Block(t, b)
  BY BlockSame
<1>3. \A b, c, v : PushOption(b, c, v)' = PushOption(b, c, v)
  BY PushSame
<1>4. \A t : Halves(t)' = Halves(t)
  BY <1>1, Zenon DEF Halves
<1>5. QED
  BY <1>1, <1>2, <1>3, <1>4, Zenon DEF Packet

LEMMA UptoSame ==
    ASSUME foreign' = foreign, iface' = iface, cc' = cc, NEW k,
           \A i \in 1..k : recorded'[i] = recorded[i]
    PROVE  Upto(k)' = Upto(k)
<1>1. \A i \in 1..k : Packet(recorded[i])' = Packet(recorded[i])
  BY PacketSame
<1>2. QED
  BY StartSame, <1>1 DEF Upto

-----------------------------------------------------------------------------
(* Which block is ahead in each place.                                     *)

\* The file is that of the messages recorded, and what is on the disk of it.
Written ==
    /\ Writers /\ recorded \in Seq(Records) /\ size \in Nat
    /\ file = Upto(Len(recorded)) /\ size <= Len(file)

LEMMA WrittenFile ==
    ASSUME Written
    PROVE  /\ file \in Seq(TraceByte) /\ foreign \in BOOLEAN /\ Len(recorded) \in Nat
           /\ Holds(file, 0, Start)
<1> DEFINE n == Len(recorded)
<1>1. Writers /\ recorded \in Seq(Records) /\ file = Upto(n) /\ foreign \in BOOLEAN
  BY DEF Written, Writers
<1>2. n \in Nat
  BY <1>1
<1>3. n \in 0..n
  <2> HIDE DEF n
  <2>1. QED
    BY <1>2
<1>4. Upto(n) \in Seq(TraceByte) /\ Holds(Upto(n), 0, Start)
  BY <1>1, <1>3, UptoIs
<1>5. QED
  BY <1>1, <1>2, <1>4

\* The section header and the interfaces come one after the other,
LEMMA HeadersAhead ==
    ASSUME Written
    PROVE  /\ off = 0 => Ahead(Section)
           /\ off = Len(Section) => Ahead(Interface(1))
           /\ off = Len(Section) + Len(Interface(1)) => Ahead(Interface(2))
<1> DEFINE x == Section
           y == Interface(1)
           z == Interface(2)
           a == Len(x)
           b == Len(y)
<1>1. Writers /\ size \in Nat /\ foreign \in BOOLEAN
  BY DEF Written, Writers
<1>2. file \in Seq(TraceByte) /\ Holds(file, 0, Start)
  BY WrittenFile
<1>3. x \in Seq(TraceByte) /\ y \in Seq(TraceByte) /\ z \in Seq(TraceByte)
  BY <1>1, SectionIs, InterfaceIs
<1>4. /\ Start \in Seq(TraceByte) /\ Holds(Start, 0, x) /\ Holds(Start, a, y)
      /\ Holds(Start, a + b, z)
  BY <1>1, StartIs
<1>5. a \in Nat /\ b \in Nat
  BY <1>3
<1> HIDE DEF x, y, z, a, b
<1>6. Holds(file, 0 + 0, x) /\ Holds(file, 0 + a, y) /\ Holds(file, 0 + (a + b), z)
  BY ONLY <1>2, <1>3, <1>4, HoldsIn
<1>7. 0 + 0 = 0 /\ 0 + a = a /\ 0 + (a + b) = a + b /\ 0 \in Nat /\ a + b \in Nat
  BY <1>5
<1>8. Holds(file, 0, x) /\ Holds(file, a, y) /\ Holds(file, a + b, z)
  BY <1>6, <1>7
<1>9. off = 0 => Ahead(x)
  BY <1>1, <1>2, <1>7, <1>8 DEF Ahead
<1>10. off = a => Ahead(y)
  BY <1>1, <1>2, <1>5, <1>8 DEF Ahead
<1>11. off = a + b => Ahead(z)
  BY <1>1, <1>2, <1>7, <1>8 DEF Ahead
<1>12. QED
  BY <1>9, <1>10, <1>11 DEF x, y, z, a, b

\* and then the messages.
LEMMA PacketAhead ==
    ASSUME Written, NEW k \in Nat, k < Len(recorded)
    PROVE  /\ recorded[k + 1] \in Records /\ Len(Upto(k)) \in Nat
           /\ Len(PacketBlock(recorded[k + 1])) \in Nat /\ Len(Extra) \in Nat
           /\ foreign =>
                /\ off = Len(Upto(k)) => Ahead(Extra)
                /\ off = Len(Upto(k)) + Len(Extra) => Ahead(PacketBlock(recorded[k + 1]))
                /\ Len(Upto(k + 1))
                     = Len(Upto(k)) + Len(Extra) + Len(PacketBlock(recorded[k + 1]))
           /\ ~ foreign =>
                /\ off = Len(Upto(k)) => Ahead(PacketBlock(recorded[k + 1]))
                /\ Len(Upto(k + 1)) = Len(Upto(k)) + Len(PacketBlock(recorded[k + 1]))
<1> DEFINE n == Len(recorded)
           u == Upto(k)
           v == Upto(k + 1)
           r == recorded[k + 1]
           p == Packet(r)
           b == PacketBlock(r)
           e == Extra
           lu == Len(u)
           lx == Len(e)
<1>1. Writers /\ recorded \in Seq(Records) /\ size \in Nat /\ foreign \in BOOLEAN
      /\ file = Upto(n)
  BY DEF Written, Writers
<1>2. file \in Seq(TraceByte) /\ n \in Nat
  BY WrittenFile
<1>3. /\ r \in Records /\ Len(v) = Len(u) + Len(p) /\ Holds(v, Len(u), p)
  BY <1>1, UptoNext
<1>4. k \in 0..n /\ k + 1 \in 0..n /\ n \in 0..n /\ n \in (k + 1)..n
  <2>1. k < n
    OBVIOUS
  <2> HIDE DEF n
  <2>2. QED
    BY <1>2, <2>1
<1>5. u \in Seq(TraceByte) /\ v \in Seq(TraceByte)
  BY <1>1, <1>4, UptoIs
<1>6. Holds(file, 0, v)
  BY <1>1, <1>4, UptoBegins
<1>7. p \in Seq(TraceByte)
  BY <1>1, <1>3, PacketType
<1>8. b \in Seq(TraceByte) /\ e \in Seq(TraceByte)
  BY <1>1, <1>3, PacketBlockIs, ExtraIs
<1>9. lu \in Nat /\ lx \in Nat /\ Len(b) \in Nat /\ Len(p) \in Nat
  BY <1>5, <1>7, <1>8
<1>10. foreign => Len(p) = Len(e) + Len(b) /\ Holds(p, 0, e) /\ Holds(p, Len(e), b)
  BY <1>1, <1>3, PacketType
<1>11. ~ foreign => p = b
  BY <1>1, <1>3, PacketType
<1> HIDE DEF n, u, v, r, p, b, e
<1>12. Holds(file, 0 + Len(u), p)
  BY ONLY <1>2, <1>3, <1>5, <1>6, <1>7, HoldsIn
<1>13. 0 + Len(u) = lu
  <2>1. Len(u) = lu
    OBVIOUS
  <2> HIDE DEF lu
  <2>2. QED
    BY <1>9, <2>1
<1>14. Holds(file, lu, p)
  BY <1>12, <1>13
<1>15. ASSUME foreign
       PROVE  /\ off = lu => Ahead(e)
              /\ off = lu + lx => Ahead(b)
              /\ Len(v) = lu + lx + Len(b)
  <2>1. Len(p) = Len(e) + Len(b) /\ Holds(p, 0, e) /\ Holds(p, Len(e), b)
    BY <1>10, <1>15
  <2>2. Holds(file, lu + 0, e) /\ Holds(file, lu + Len(e), b)
    BY ONLY <1>2, <1>7, <1>8, <1>14, <2>1, HoldsIn
  <2> DEFINE lb == Len(b)
  <2>3. lu + 0 = lu /\ lu + lx \in Nat /\ lu + (lx + lb) = lu + lx + lb
    <3> HIDE DEF lu, lx, lb
    <3>1. QED
      BY <1>9 DEF lb
  <2>4. Holds(file, lu, e) /\ Holds(file, lu + lx, b)
    BY <2>2, <2>3
  <2>5. Len(v) = lu + (lx + lb)
    BY <1>3, <2>1
  <2> HIDE DEF lu, lx, lb
  <2>6. off = lu => Ahead(e)
    BY <1>1, <1>2, <1>9, <2>4 DEF Ahead
  <2>7. off = lu + lx => Ahead(b)
    BY <1>1, <1>2, <2>3, <2>4 DEF Ahead
  <2>8. QED
    BY <2>3, <2>5, <2>6, <2>7 DEF lb
<1>16. ASSUME ~ foreign
       PROVE  /\ off = lu => Ahead(b)
              /\ Len(v) = lu + Len(b)
  <2>1. p = b
    BY <1>11, <1>16
  <2>2. Holds(file, lu, b) /\ Len(v) = Len(u) + Len(b)
    BY <1>3, <1>14, <2>1
  <2>3. off = lu => Ahead(b)
    <3> HIDE DEF lu
    <3>1. QED
      BY <1>1, <1>2, <1>9, <2>2 DEF Ahead
  <2>4. QED
    BY <2>2, <2>3
<1>17. QED
  BY <1>1, <1>3, <1>9, <1>15, <1>16, Zenon DEF r, u, v, b, e

\* The order is known in front of every block.
LEMMA OrdersAhead ==
    ASSUME Writers
    PROVE  /\ Ahead(Section) => Order = ~ foreign
           /\ \A i \in 1..2 : (Ahead(Interface(i)) /\ le = ~ foreign) => Order = ~ foreign
           /\ (Ahead(Extra) /\ le = ~ foreign) => Order = ~ foreign
           /\ \A r \in Records : (Ahead(PacketBlock(r)) /\ le = ~ foreign) => Order = ~ foreign
<1>1. /\ IsBlock(Extra, U32(5), ExtraRead)
      /\ \A i \in 1..2 : IsBlock(Interface(i), U32(1), InterfaceRead(i))
      /\ \A r \in Records : IsBlock(PacketBlock(r), U32(6), PacketRead(r))
  BY OurBlocks
<1>2. 1 \in {1, 5, 6} /\ 5 \in {1, 5, 6} /\ 6 \in {1, 5, 6}
  OBVIOUS
<1>3. /\ Ahead(Section) => Order = ~ foreign
      /\ \A s, p : \A v \in {1, 5, 6} :
           (IsBlock(s, U32(v), p) /\ Ahead(s) /\ le = ~ foreign) => Order = ~ foreign
  BY OrderAhead
<1>4. QED
  BY ONLY <1>1, <1>2, <1>3, Zenon

\* One interface more.
LEMMA MetMore ==
    ASSUME NEW n \in Nat, Met(n), n + 1 \in 1..2,
           \E x \in Interfaces : /\ interfaces' = Append(interfaces, x)
                                 /\ x.name = Names[n + 1] /\ x.tsresol = 6
    PROVE  Met(n + 1)'
<1>1. PICK x \in Interfaces : /\ interfaces' = Append(interfaces, x)
                              /\ x.name = Names[n + 1] /\ x.tsresol = 6
  OBVIOUS
<1>2. /\ interfaces \in Seq(Interfaces) /\ Len(interfaces) = n
      /\ \A i \in 1..n : interfaces[i].name = Names[i] /\ interfaces[i].tsresol = 6
  BY DEF Met
<1> DEFINE t == Append(interfaces, x)
<1>3. /\ t \in Seq(Interfaces) /\ Len(t) = Len(interfaces) + 1
      /\ t[Len(interfaces) + 1] = x /\ \A i \in 1..Len(interfaces) : t[i] = interfaces[i]
  BY ONLY <1>2, x \in Interfaces, AppendProperties
<1> HIDE DEF t
<1>4. Len(t) = n + 1 /\ t[n + 1] = x /\ \A i \in 1..n : t[i] = interfaces[i]
  BY ONLY <1>2, <1>3
<1>5. \A i \in 1..n + 1 : i \in 1..n \/ i = n + 1
  OBVIOUS
<1>6. \A i \in 1..n + 1 : t[i].name = Names[i] /\ t[i].tsresol = 6
  BY <1>1, <1>2, <1>4, <1>5
<1>7. interfaces' = t
  BY <1>1 DEF t
<1>8. QED
  BY <1>3, <1>4, <1>6, <1>7 DEF Met

LEMMA ToldSame ==
    ASSUME iface' = iface, cc' = cc
    PROVE  \A r : Told(r)' = Told(r)
  BY Zenon DEF Told, PacketData, PseudoHeader

LEMMA SeenSame ==
    ASSUME iface' = iface, cc' = cc, recorded' = recorded, NEW k
    PROVE  SeenOf(k)' = SeenOf(k)
<1>1. \A i \in 1..k : Told(recorded[i])' = Told(recorded[i])
  BY ToldSame
<1>2. QED
  BY <1>1 DEF SeenOf

\* One message more.
LEMMA SeenMore ==
    ASSUME NEW k \in Nat
    PROVE  Append(SeenOf(k), Told(recorded[k + 1])) = SeenOf(k + 1)
<1> DEFINE T == {Told(recorded[i]) : i \in 1..k + 1}
           p == SeenOf(k)
           q == SeenOf(k + 1)
           x == Told(recorded[k + 1])
           t == Append(p, x)
<1>1. \A i \in 1..k : i \in 1..k + 1
  OBVIOUS
<1>2. k + 1 \in 1..k + 1 /\ k + 1 \in Nat /\ \A i \in 1..k + 1 : i \in 1..k \/ i = k + 1
  OBVIOUS
<1>3. p = [i \in 1..k |-> p[i]] /\ \A i \in 1..k : p[i] = Told(recorded[i])
  BY DEF SeenOf
<1>4. q = [i \in 1..k + 1 |-> q[i]] /\ \A i \in 1..k + 1 : q[i] = Told(recorded[i])
  BY DEF SeenOf
<1>5. \A i \in 1..k + 1 : Told(recorded[i]) \in T
  OBVIOUS
<1>6. x \in T
  BY <1>2
<1> HIDE DEF T, p, q
<1>7. \A i \in 1..k : p[i] \in T
  BY <1>1, <1>3, <1>5
<1>8. \A i \in 1..k + 1 : q[i] \in T
  BY <1>4, <1>5
<1>9. p \in Seq(T) /\ Len(p) = k
  BY ONLY k \in Nat, <1>3, <1>7, Listed
<1>10. q \in Seq(T) /\ Len(q) = k + 1
  BY ONLY <1>2, <1>4, <1>8, Listed
<1>11. q[k + 1] = x
  BY <1>2, <1>4
<1> HIDE DEF x
<1>12. /\ t \in Seq(T) /\ Len(t) = Len(p) + 1 /\ t[Len(p) + 1] = x
       /\ \A i \in 1..Len(p) : t[i] = p[i]
  BY ONLY <1>6, <1>9, AppendProperties
<1> HIDE DEF t
<1>13. Len(t) = k + 1 /\ t[k + 1] = x /\ \A i \in 1..k : t[i] = p[i]
  BY ONLY <1>9, <1>12
<1>14. \A i \in 1..k : t[i] = q[i]
  BY <1>1, <1>3, <1>4, <1>13
<1>15. \A i \in 1..k + 1 : t[i] = q[i]
  BY <1>2, <1>11, <1>13, <1>14
<1>16. t = q
  <2>1. Len(t) = Len(q) /\ \A i \in 1..Len(t) : t[i] = q[i]
    BY <1>10, <1>13, <1>15
  <2>2. QED
    BY ONLY <1>10, <1>12, <2>1, SeqEqual
<1>17. QED
  BY <1>16 DEF t, p, q, x

-----------------------------------------------------------------------------
(* A block is read.                                                        *)

LEMMA MetSame ==
    ASSUME interfaces' = interfaces, NEW n, Met(n)
    PROVE  Met(n)'
  BY Zenon DEF Met

\* From each place the reader gets to the next.
LEMMA ReadsSection ==
    ASSUME Written, AtStart, ReadBlock, UNCHANGED <<foreign, iface, cc, recorded>>
    PROVE  BehindSection' /\ off' <= size
<1>1. off = 0 /\ Met(0) /\ packets = <<>>
  BY DEF AtStart
<1>2. Writers /\ foreign \in BOOLEAN
  BY DEF Written, Writers
<1>3. Ahead(Section)
  BY <1>1, HeadersAhead
<1>4. Order = ~ foreign
  BY <1>2, <1>3, OrdersAhead
<1>5. IsBlock(Section, SHB, SectionRead)
  BY <1>2, OurBlocks
<1>6. Rd32(SHB, ~ foreign) \notin {1, 6}
  BY <1>2, TypesAre
<1>7. /\ off' = off + Len(Section) /\ off + Len(Section) <= size /\ le' = ~ foreign
      /\ interfaces' = interfaces /\ packets' = packets
  BY <1>3, <1>4, <1>5, <1>6, PassesBlock
<1>8. Section' = Section
  BY StartSame
<1>9. Section \in Seq(TraceByte)
  BY <1>2, SectionIs
<1>10. off' = Len(Section) /\ off' <= size
  <2> DEFINE a == Len(Section)
  <2>1. a \in Nat /\ off' = 0 + a /\ 0 + a <= size
    BY <1>1, <1>7, <1>9
  <2> HIDE DEF a
  <2>2. off' = a /\ off' <= size
    BY <2>1
  <2>3. QED
    BY <2>2 DEF a
<1>11. Met(0)'
  BY <1>1, <1>7, MetSame
<1>12. off' = Len(Section') /\ le' = ~ foreign' /\ packets' = <<>>
  BY <1>1, <1>7, <1>8, <1>10
<1>13. BehindSection'
  BY <1>11, <1>12, Zenon DEF BehindSection
<1>14. QED
  BY <1>10, <1>13

LEMMA ReadsFirst ==
    ASSUME Written, BehindSection, ReadBlock, UNCHANGED <<foreign, iface, cc, recorded>>
    PROVE  BehindFirst' /\ off' <= size
<1>1. off = Len(Section) /\ le = ~ foreign /\ Met(0) /\ packets = <<>>
  BY DEF BehindSection
<1>2. Writers /\ foreign \in BOOLEAN
  BY DEF Written, Writers
<1>3. Ahead(Interface(1))
  BY <1>1, HeadersAhead
<1>4. Order = ~ foreign
  BY <1>1, <1>2, <1>3, OrdersAhead
<1>5. /\ off' = off + Len(Interface(1)) /\ off + Len(Interface(1)) <= size
      /\ le' = ~ foreign /\ packets' = packets
      /\ \E x \in Interfaces : /\ interfaces' = Append(interfaces, x)
                               /\ x.name = Names[1] /\ x.tsresol = 6
  BY <1>3, <1>4, PassesInterface
<1>6. Section' = Section /\ Interface(1)' = Interface(1)
  BY StartSame
<1>7. Met(1)'
  <2>1. 0 \in Nat /\ 0 + 1 \in 1..2 /\ 0 + 1 = 1
    OBVIOUS
  <2>2. Met(0 + 1)'
    BY <1>1, <1>5, <2>1, MetMore
  <2>3. QED
    BY <2>1, <2>2
<1>8. off' = Len(Section') + Len(Interface(1)') /\ le' = ~ foreign' /\ packets' = <<>>
  BY <1>1, <1>5, <1>6
<1>9. BehindFirst'
  BY <1>7, <1>8, Zenon DEF BehindFirst
<1>10. QED
  BY <1>5, <1>9

LEMMA ReadsSecond ==
    ASSUME Written, BehindFirst, ReadBlock, UNCHANGED <<foreign, iface, cc, recorded>>
    PROVE  BehindPackets(0)' /\ off' <= size
<1>1. off = Len(Section) + Len(Interface(1)) /\ le = ~ foreign /\ Met(1) /\ packets = <<>>
  BY DEF BehindFirst
<1>2. Writers /\ foreign \in BOOLEAN /\ recorded \in Seq(Records)
  BY DEF Written, Writers
<1>3. Ahead(Interface(2))
  BY <1>1, HeadersAhead
<1>4. Order = ~ foreign
  BY <1>1, <1>2, <1>3, OrdersAhead
<1>5. /\ off' = off + Len(Interface(2)) /\ off + Len(Interface(2)) <= size
      /\ le' = ~ foreign /\ packets' = packets
      /\ \E x \in Interfaces : /\ interfaces' = Append(interfaces, x)
                               /\ x.name = Names[2] /\ x.tsresol = 6
  BY <1>3, <1>4, PassesInterface
<1>6. Upto(0)' = Upto(0) /\ Upto(0) = Start
  <2>1. \A i \in 1..0 : recorded'[i] = recorded[i]
    OBVIOUS
  <2>2. QED
    BY <1>2, <2>1, UptoSame, UptoNone
<1>7. Met(2)'
  <2>1. 1 \in Nat /\ 1 + 1 \in 1..2 /\ 1 + 1 = 2
    OBVIOUS
  <2>2. Met(1 + 1)'
    BY <1>1, <1>5, <2>1, MetMore
  <2>3. QED
    BY <2>1, <2>2
<1>8. Len(Start) = (Len(Section) + Len(Interface(1))) + Len(Interface(2))
  BY <1>2, StartIs
<1>9. SeenOf(0)' = <<>>
  <2>1. SeenOf(0) = <<>>
    BY DEF SeenOf
  <2>2. QED
    BY <2>1, SeenSame
<1>10. off' = Len(Upto(0)') /\ le' = ~ foreign' /\ packets' = SeenOf(0)'
  BY <1>1, <1>5, <1>6, <1>8, <1>9
<1>11. BehindPackets(0)'
  BY <1>7, <1>10, Zenon DEF BehindPackets
<1>12. QED
  BY <1>5, <1>11

\* What the reader has seen of the first k messages and of the one behind them.
LEMMA ToldOn ==
    ASSUME Written, NEW k \in Nat, k < Len(recorded),
           UNCHANGED <<foreign, iface, cc, recorded>>,
           packets = SeenOf(k), packets' = Append(packets, Told(recorded[k + 1])),
           interfaces' = interfaces, Met(2), le' = ~ foreign, off' = Len(Upto(k + 1))
    PROVE  BehindPackets(k + 1)'
<1>1. packets' = SeenOf(k + 1)
  BY SeenMore
<1>2. SeenOf(k + 1)' = SeenOf(k + 1)
  BY SeenSame
<1>3. Upto(k + 1)' = Upto(k + 1)
  BY UptoSame
<1>4. Met(2)'
  BY MetSame
<1>5. off' = Len(Upto(k + 1)') /\ le' = ~ foreign' /\ packets' = SeenOf(k + 1)'
  BY <1>1, <1>2, <1>3
<1>6. QED
  BY <1>4, <1>5, Zenon DEF BehindPackets

\* Another program's own block is passed over.
LEMMA ReadsExtra ==
    ASSUME Written, NEW k \in Nat, k < Len(recorded), foreign, BehindPackets(k), ReadBlock,
           UNCHANGED <<foreign, iface, cc, recorded>>
    PROVE  BehindExtra(k)' /\ off' <= size
<1>1. off = Len(Upto(k)) /\ le = ~ foreign /\ Met(2) /\ packets = SeenOf(k)
  BY DEF BehindPackets
<1>2. Writers /\ foreign \in BOOLEAN
  BY DEF Written, Writers
<1>3. Ahead(Extra)
  BY <1>1, PacketAhead
<1>4. Order = ~ foreign
  BY <1>1, <1>2, <1>3, OrdersAhead
<1>5. IsBlock(Extra, U32(5), ExtraRead)
  BY <1>2, OurBlocks
<1>6. Rd32(U32(5), ~ foreign) \notin {1, 6}
  <2>1. 5 \in {1, 5, 6} /\ 5 \notin {1, 6}
    OBVIOUS
  <2>2. Rd32(U32(5), ~ foreign) = 5
    BY <1>2, <2>1, TypesAre
  <2>3. QED
    BY <2>1, <2>2
<1>7. /\ off' = off + Len(Extra) /\ off + Len(Extra) <= size /\ le' = ~ foreign
      /\ interfaces' = interfaces /\ packets' = packets
  BY <1>3, <1>4, <1>5, <1>6, PassesBlock
<1>8. Extra' = Extra
  BY BlockSame, NumbersSame DEF Extra
<1>9. Upto(k)' = Upto(k)
  BY UptoSame
<1>10. Met(2)'
  BY <1>1, <1>7, MetSame
<1>11. SeenOf(k)' = SeenOf(k)
  BY SeenSame
<1>12. /\ foreign' /\ off' = Len(Upto(k)') + Len(Extra') /\ le' = ~ foreign'
       /\ packets' = SeenOf(k)'
  BY <1>1, <1>7, <1>8, <1>9, <1>11
<1>13. BehindExtra(k)'
  BY <1>10, <1>12, Zenon DEF BehindExtra
<1>14. QED
  BY <1>7, <1>13

\* A packet adds the next message.
LEMMA ReadsPacket ==
    ASSUME Written, NEW k \in Nat, k < Len(recorded),
           (~ foreign /\ BehindPackets(k)) \/ BehindExtra(k), ReadBlock,
           UNCHANGED <<foreign, iface, cc, recorded>>
    PROVE  BehindPackets(k + 1)' /\ off' <= size
<1> DEFINE r == recorded[k + 1]
<1>1. /\ le = ~ foreign /\ Met(2) /\ packets = SeenOf(k)
      /\ \/ ~ foreign /\ off = Len(Upto(k))
         \/ foreign /\ off = Len(Upto(k)) + Len(Extra)
  BY Zenon DEF BehindPackets, BehindExtra
<1>2. Writers
  BY DEF Written
<1>3. /\ r \in Records /\ Ahead(PacketBlock(r))
      /\ off + Len(PacketBlock(r)) = Len(Upto(k + 1))
  BY <1>1, PacketAhead
<1>4. Order = ~ foreign
  BY <1>1, <1>2, <1>3, OrdersAhead
<1>5. /\ off' = off + Len(PacketBlock(r)) /\ off + Len(PacketBlock(r)) <= size
      /\ le' = ~ foreign /\ interfaces' = interfaces
      /\ packets' = Append(packets, Told(r))
  BY <1>3, <1>4, PassesPacket
<1>6. off' = Len(Upto(k + 1)) /\ off' <= size
  BY <1>3, <1>5
<1>7. BehindPackets(k + 1)'
  BY <1>1, <1>5, <1>6, ToldOn
<1>8. QED
  BY <1>6, <1>7

\* There is a block to read only where a message is still ahead.
LEMMA ReadsNoFurther ==
    ASSUME Written, off = Len(Upto(Len(recorded))), More
    PROVE  FALSE
<1> DEFINE f == Len(file)
<1>1. size \in Nat /\ size <= f /\ off = f
  BY DEF Written
<1>2. f \in Nat
  BY WrittenFile
<1> HIDE DEF f
<1>3. off + 12 <= size
  BY DEF More
<1>4. QED
  BY <1>1, <1>2, <1>3

\* From place to place, and never beyond the bytes on the disk.
LEMMA ReadsOn ==
    ASSUME Written, Place, ReadBlock, UNCHANGED <<foreign, iface, cc, recorded>>
    PROVE  Place' /\ off' <= size
<1> DEFINE n == Len(recorded)
<1>1. n \in Nat /\ foreign \in BOOLEAN
  BY WrittenFile
<1>2. n' = n
  OBVIOUS
<1>3. CASE AtStart
  BY <1>3, ReadsSection DEF Place
<1>4. CASE BehindSection
  BY <1>4, ReadsFirst DEF Place
<1>5. CASE BehindFirst
  <2>1. BehindPackets(0)' /\ off' <= size
    BY <1>5, ReadsSecond
  <2>2. 0 \in 0..n'
    <3> HIDE DEF n
    <3>1. QED
      BY <1>1, <1>2
  <2>3. QED
    BY <2>1, <2>2 DEF Place
<1>6. ASSUME NEW k \in 0..n, BehindPackets(k)
      PROVE  Place' /\ off' <= size
  <2>1. More
    BY DEF ReadBlock
  <2>2. off = Len(Upto(k))
    BY <1>6 DEF BehindPackets
  <2>3. k # n
    BY <2>1, <2>2, ReadsNoFurther
  <2>4. k \in Nat /\ k < n /\ k \in 0..n' /\ k < n' /\ k + 1 \in 0..n'
    <3> HIDE DEF n
    <3>1. QED
      BY <1>1, <1>2, <1>6, <2>3
  <2>5. CASE foreign
    <3>1. BehindExtra(k)' /\ off' <= size
      BY <1>6, <2>4, <2>5, ReadsExtra
    <3>2. QED
      BY <2>4, <3>1 DEF Place
  <2>6. CASE ~ foreign
    <3>1. BehindPackets(k + 1)' /\ off' <= size
      BY <1>6, <2>4, <2>6, ReadsPacket
    <3>2. QED
      BY <2>4, <3>1 DEF Place
  <2>7. QED
    BY <2>5, <2>6
<1>7. ASSUME NEW k \in 0..n, k < n, BehindExtra(k)
      PROVE  Place' /\ off' <= size
  <2>1. k \in Nat /\ k + 1 \in 0..n'
    <3> HIDE DEF n
    <3>1. QED
      BY <1>1, <1>2, <1>7
  <2>2. BehindPackets(k + 1)' /\ off' <= size
    BY <1>7, <2>1, ReadsPacket
  <2>3. QED
    BY <2>1, <2>2 DEF Place
<1>8. QED
  BY <1>3, <1>4, <1>5, <1>6, <1>7, Zenon DEF Place

-----------------------------------------------------------------------------
(* The reader stops.                                                       *)

\* Every block of the writer's that it stops at is cut short by the end of the
\* disk's bytes.
LEMMA StopsAt ==
    ASSUME Writers, size \in Nat, off \in Nat, ~ (More /\ Whole)
    PROVE  /\ Ahead(Section) => size < off + Len(Section)
           /\ le = ~ foreign =>
                /\ \A i \in 1..2 : Ahead(Interface(i)) => size < off + Len(Interface(i))
                /\ Ahead(Extra) => size < off + Len(Extra)
                /\ \A r \in Records : Ahead(PacketBlock(r)) => size < off + Len(PacketBlock(r))
<1>1. ASSUME NEW s, NEW type, NEW p, IsBlock(s, type, p), Ahead(s), Order = ~ foreign
      PROVE  size < off + Len(s)
  <2> DEFINE l == Len(s)
  <2>1. l \in Nat /\ ~ (off + l <= size)
    BY <1>1, AheadRead
  <2> HIDE DEF l
  <2>2. size < off + l
    BY <2>1
  <2>3. QED
    BY <2>2 DEF l
<1>2. /\ IsBlock(Section, SHB, SectionRead) /\ IsBlock(Extra, U32(5), ExtraRead)
      /\ \A i \in 1..2 : IsBlock(Interface(i), U32(1), InterfaceRead(i))
      /\ \A r \in Records : IsBlock(PacketBlock(r), U32(6), PacketRead(r))
  BY OurBlocks
<1>3. /\ Ahead(Section) => Order = ~ foreign
      /\ \A i \in 1..2 : (Ahead(Interface(i)) /\ le = ~ foreign) => Order = ~ foreign
      /\ (Ahead(Extra) /\ le = ~ foreign) => Order = ~ foreign
      /\ \A r \in Records : (Ahead(PacketBlock(r)) /\ le = ~ foreign) => Order = ~ foreign
  BY OrdersAhead
<1>4. QED
  BY ONLY <1>1, <1>2, <1>3, Zenon

\* A message is printed as it was recorded.
Shown(r) ==
    [port |-> Names[iface + 1], unit |-> 6, time |-> r.ts - recorded[1].ts,
     dir  |-> r.dir, cc |-> cc, msg |-> r.msg]

LEMMA PrintsMessage ==
    ASSUME Writers, Met(2), NEW r \in Records, packets[1].ts = recorded[1].ts
    PROVE  Printed(Told(r)) = Shown(r)
<1> DEFINE d == PacketData(r)
           i == interfaces[iface + 1]
           h == ParsedHeader(d)
           m == SubSeq(d, 9, Len(d))
<1>1. h = [dir |-> r.dir, cc |-> cc] /\ m = r.msg
  BY DataSays
<1>2. i.name = Names[iface + 1] /\ i.tsresol = 6
  <2>1. iface + 1 \in 1..2
    BY DEF Writers
  <2>2. QED
    BY <2>1 DEF Met
<1>3. Told(r).iface = iface /\ Told(r).ts = r.ts /\ Told(r).data = d
  BY DEF Told
<1>4. Printed(Told(r)) = [port |-> i.name, unit |-> i.tsresol, time |-> r.ts - packets[1].ts,
                          dir |-> h.dir, cc |-> h.cc, msg |-> m]
  <2> HIDE DEF d
  <2>1. QED
    BY <1>3, Zenon DEF Printed
<1> HIDE DEF d, i, h, m
<1>5. h.dir = r.dir /\ h.cc = cc
  BY <1>1
<1>6. QED
  BY <1>1, <1>2, <1>4, <1>5, Zenon DEF Shown

\* What has been seen of the messages is printed as the messages.
LEMMA OutputIs ==
    ASSUME Writers, recorded \in Seq(Records), NEW k \in 0..Len(recorded), Met(2),
           packets = SeenOf(k)
    PROVE  Output = SubSeq(AsRecorded, 1, k)
<1> DEFINE n == Len(recorded)
           T == {Shown(recorded[i]) : i \in 1..n}
           t == AsRecorded
           u == Output
           w == SubSeq(t, 1, k)
<1>1. n \in Nat /\ k \in Nat /\ k <= n /\ 1..k \subseteq 1..n
  <2>1. n \in Nat /\ k \in 0..n
    OBVIOUS
  <2> HIDE DEF n
  <2>2. QED
    BY <2>1
<1>2. t = [i \in 1..n |-> t[i]] /\ \A i \in 1..n : t[i] = Shown(recorded[i]) /\ t[i] \in T
  BY DEF AsRecorded, Shown
<1>3. Len(packets) = k /\ \A i \in 1..k : packets[i] = Told(recorded[i])
  <2> DEFINE P == {Told(recorded[i]) : i \in 1..k}
  <2>1. packets = [i \in 1..k |-> packets[i]] /\ \A i \in 1..k : packets[i] = Told(recorded[i])
    BY DEF SeenOf
  <2>2. \A i \in 1..k : packets[i] \in P
    BY <2>1
  <2> HIDE DEF P
  <2>3. Len(packets) = k
    BY ONLY <1>1, <2>1, <2>2, Listed
  <2>4. QED
    BY <2>1, <2>3
<1>4. \A i \in 1..k : Printed(packets[i]) = Shown(recorded[i])
  <2> SUFFICES ASSUME NEW i \in 1..k
               PROVE  Printed(packets[i]) = Shown(recorded[i])
    OBVIOUS
  <2>1. 1 \in 1..k /\ 1 \in 1..n /\ i \in 1..n
    <3> HIDE DEF n
    <3>1. QED
      BY <1>1
  <2>2. recorded[i] \in Records
    BY <2>1
  <2>3. packets[1].ts = recorded[1].ts
    BY <1>3, <2>1 DEF Told
  <2>4. QED
    BY <1>3, <2>2, <2>3, PrintsMessage
<1>5. u = [i \in 1..k |-> u[i]] /\ \A i \in 1..k : u[i] = Shown(recorded[i]) /\ u[i] \in T
  <2>1. u = [i \in 1..k |-> Printed(packets[i])]
    BY <1>3 DEF Output
  <2> HIDE DEF u
  <2>2. \A i \in 1..k : u[i] = Shown(recorded[i])
    BY <1>4, <2>1
  <2>3. QED
    BY <1>1, <2>1, <2>2
<1> HIDE DEF n, T, t, u
<1>6. t \in Seq(T) /\ Len(t) = n
  BY ONLY <1>1, <1>2, Listed
<1>7. u \in Seq(T) /\ Len(u) = k
  BY ONLY <1>1, <1>5, Listed
<1>8. w \in Seq(T) /\ Len(w) = k /\ \A i \in 1..k : w[i] = t[i]
  <2>1. 1 \in 1..Len(t) + 1 /\ k \in (1 - 1)..Len(t)
    BY <1>1, <1>6
  <2>2. /\ w \in Seq(T) /\ Len(w) = IF 1 <= k THEN k - 1 + 1 ELSE 0
        /\ \A i \in 1..k - 1 + 1 : w[i] = t[1 + i - 1]
    BY ONLY <1>6, <2>1, SubSeqProperties
  <2>3. (IF 1 <= k THEN k - 1 + 1 ELSE 0) = k /\ \A i \in 1..k : i \in 1..k - 1 + 1 /\ 1 + i - 1 = i
    BY <1>1
  <2> HIDE DEF w
  <2>4. QED
    BY <2>2, <2>3
<1> HIDE DEF w
<1>9. Len(u) = Len(w) /\ \A i \in 1..Len(u) : u[i] = w[i]
  BY <1>1, <1>2, <1>5, <1>7, <1>8
<1>10. u = w
  BY ONLY <1>7, <1>8, <1>9, SeqEqual
<1>11. QED
  BY <1>10 DEF u, w, t

\* Behind the interfaces it stops with the messages whose last byte it could read,
LEMMA StopsBehind ==
    ASSUME Written, NEW k \in 0..Len(recorded), off <= size, ~ (More /\ Whole),
           BehindPackets(k) \/ (k < Len(recorded) /\ BehindExtra(k))
    PROVE  /\ Output = SubSeq(AsRecorded, 1, Stored) /\ ~ NothingRead
           /\ ~ (size < Len(Section) + Len(Interface(1)))
<1> DEFINE n == Len(recorded)
           u == Len(Upto(k))
           v == Len(Upto(k + 1))
           x == Len(Extra)
           b == Len(PacketBlock(recorded[k + 1]))
<1>1. Writers /\ recorded \in Seq(Records) /\ size \in Nat /\ foreign \in BOOLEAN
  BY DEF Written, Writers
<1>2. /\ le = ~ foreign /\ Met(2) /\ packets = SeenOf(k)
      /\ off = u \/ (foreign /\ k < n /\ off = u + x)
  BY Zenon DEF BehindPackets, BehindExtra
<1>3. n \in Nat /\ k \in Nat /\ k <= n
  <2>1. n \in Nat /\ k \in 0..n
    BY <1>1
  <2> HIDE DEF n
  <2>2. QED
    BY <2>1
<1>4. Upto(k) \in Seq(TraceByte) /\ Holds(Upto(k), 0, Start)
  BY <1>1, UptoIs
<1>5. u \in Nat
  BY <1>4
<1>6. x \in Nat
  BY <1>1, ExtraIs
<1>7. off \in Nat /\ u <= off /\ u <= size
  <2> HIDE DEF u, x, n
  <2>1. QED
    BY <1>1, <1>2, <1>5, <1>6
<1>8. ASSUME k < n
      PROVE  size < v
  <2>1. /\ recorded[k + 1] \in Records /\ b \in Nat
        /\ foreign => /\ off = u => Ahead(Extra)
                      /\ off = u + x => Ahead(PacketBlock(recorded[k + 1]))
                      /\ v = u + x + b
        /\ ~ foreign => /\ off = u => Ahead(PacketBlock(recorded[k + 1]))
                        /\ v = u + b
    BY <1>3, <1>8, PacketAhead
  <2>2. /\ Ahead(Extra) => size < off + x
        /\ Ahead(PacketBlock(recorded[k + 1])) => size < off + b
    BY <1>1, <1>2, <1>7, <2>1, StopsAt
  <2> HIDE DEF u, x, n, v, b
  <2>3. CASE off = u
    BY <1>1, <1>5, <1>6, <2>1, <2>2, <2>3
  <2>4. CASE foreign /\ off = u + x
    BY <1>1, <1>5, <1>6, <2>1, <2>2, <2>4
  <2>5. QED
    BY <1>2, <2>3, <2>4
<1>9. Stored = k
  BY <1>1, <1>7, <1>8, StoredIs
<1>10. Output = SubSeq(AsRecorded, 1, Stored)
  BY <1>1, <1>2, <1>9, OutputIs
<1>11. ~ NothingRead
  <2>1. Len(interfaces) = 2
    BY <1>2 DEF Met
  <2>2. Len(<<>>) = 0
    OBVIOUS
  <2>3. QED
    BY <2>1, <2>2 DEF NothingRead
<1>12. ~ (size < Len(Section) + Len(Interface(1)))
  <2> DEFINE s == Len(Section)
             i == Len(Interface(1))
             j == Len(Interface(2))
             h == Len(Start)
  <2>1. s \in Nat /\ i \in Nat /\ j \in Nat
    BY <1>1, SectionIs, InterfaceIs
  <2>2. h = s + i + j
    BY <1>1, StartIs
  <2>3. 0 + h <= u
    BY <1>4 DEF Holds
  <2> HIDE DEF s, i, j, h, u
  <2>4. ~ (size < s + i)
    BY <1>1, <1>5, <1>7, <2>1, <2>2, <2>3
  <2>5. QED
    BY <2>4 DEF s, i
<1>13. QED
  BY <1>10, <1>11, <1>12

\* in front of the first with nothing,
LEMMA StopsBefore ==
    ASSUME Written, off <= size, ~ (More /\ Whole), AtStart \/ BehindSection
    PROVE  NothingRead /\ size < Len(Section) + Len(Interface(1))
<1> DEFINE s == Len(Section)
           i == Len(Interface(1))
<1>1. Writers /\ size \in Nat /\ foreign \in BOOLEAN
  BY DEF Written, Writers
<1>2. s \in Nat /\ i \in Nat
  BY <1>1, SectionIs, InterfaceIs
<1>3. Met(0) /\ packets = <<>>
  BY Zenon DEF AtStart, BehindSection
<1>4. NothingRead
  <2>1. interfaces \in Seq(Interfaces) /\ Len(interfaces) = 0
    BY <1>3 DEF Met
  <2>2. interfaces = <<>>
    BY <2>1, EmptySeq
  <2>3. QED
    BY <1>3, <2>2 DEF NothingRead
<1>5. CASE AtStart
  <2>1. off = 0 /\ off \in Nat
    BY <1>5 DEF AtStart
  <2>2. Ahead(Section)
    BY <2>1, HeadersAhead
  <2>3. size < off + s
    BY <1>1, <2>1, <2>2, StopsAt
  <2> HIDE DEF s, i
  <2>4. size < s + i
    BY <1>1, <1>2, <2>1, <2>3
  <2>5. QED
    BY <1>4, <2>4 DEF s, i
<1>6. CASE BehindSection
  <2>1. off = s /\ off \in Nat /\ le = ~ foreign
    BY <1>2, <1>6 DEF BehindSection
  <2>2. Ahead(Interface(1))
    BY <2>1, HeadersAhead
  <2>3. size < off + i
    BY <1>1, <2>1, <2>2, StopsAt
  <2>4. size < s + i
    BY <2>1, <2>3
  <2>5. QED
    BY <1>4, <2>4
<1>7. QED
  BY <1>5, <1>6

\* and between them with an interface and no message.
LEMMA StopsBehindFirst ==
    ASSUME Written, off <= size, ~ (More /\ Whole), BehindFirst
    PROVE  /\ Output = SubSeq(AsRecorded, 1, Stored) /\ ~ NothingRead
           /\ ~ (size < Len(Section) + Len(Interface(1)))
<1> DEFINE n == Len(recorded)
           s == Len(Section)
           i == Len(Interface(1))
           j == Len(Interface(2))
           h == Len(Start)
           v == Len(Upto(0 + 1))
<1>1. Writers /\ recorded \in Seq(Records) /\ size \in Nat /\ foreign \in BOOLEAN
  BY DEF Written, Writers
<1>2. s \in Nat /\ i \in Nat /\ j \in Nat
  BY <1>1, SectionIs, InterfaceIs
<1>3. off = s + i /\ le = ~ foreign /\ Met(1) /\ packets = <<>>
  BY DEF BehindFirst
<1>4. Ahead(Interface(2))
  BY <1>3, HeadersAhead
<1>5. off \in Nat
  <2> HIDE DEF s, i
  <2>1. QED
    BY <1>2, <1>3
<1>6. size < off + j
  BY <1>1, <1>3, <1>4, <1>5, StopsAt
<1>7. h = s + i + j
  BY <1>1, StartIs
<1>8. n \in Nat /\ 0 \in 0..n
  <2>1. n \in Nat
    BY <1>1
  <2> HIDE DEF n
  <2>2. QED
    BY <2>1
<1>9. ASSUME 0 < n
      PROVE  size < v
  <2>1. 0 \in Nat /\ 0 + 1 \in 0..n
    <3> HIDE DEF n
    <3>1. QED
      BY <1>8, <1>9
  <2>2. Upto(0 + 1) \in Seq(TraceByte) /\ Holds(Upto(0 + 1), 0, Start)
    BY <1>1, <2>1, UptoIs
  <2>3. v \in Nat /\ 0 + h <= v
    BY <2>2 DEF Holds
  <2> HIDE DEF s, i, j, h, v
  <2>4. QED
    BY <1>1, <1>2, <1>3, <1>6, <1>7, <2>3
<1>10. Stored = 0
  <2>1. 0 # 0 => Len(Upto(0)) <= size
    OBVIOUS
  <2>2. 0 < Len(recorded) => size < Len(Upto(0 + 1))
    BY <1>9
  <2>3. QED
    BY ONLY <1>1, <1>8, <2>1, <2>2, StoredIs
<1>11. Output = SubSeq(AsRecorded, 1, Stored)
  <2>1. Len(packets) = 0
    BY <1>3
  <2>2. Output = <<>>
    BY <2>1 DEF Output
  <2>3. SubSeq(AsRecorded, 1, 0) = <<>>
    BY SubSeqEmpty
  <2>4. QED
    BY <1>10, <2>2, <2>3
<1>12. ~ NothingRead
  <2>1. Len(interfaces) = 1
    BY <1>3 DEF Met
  <2>2. Len(<<>>) = 0
    OBVIOUS
  <2>3. QED
    BY <2>1, <2>2 DEF NothingRead
<1>13. ~ (size < s + i)
  <2> HIDE DEF s, i
  <2>1. QED
    BY <1>1, <1>2, <1>3
<1>14. QED
  BY <1>11, <1>12, <1>13

\* What the reader has when it stops is what DumpShowsTrace asks for.
LEMMA ReadStops ==
    ASSUME Written, Place, off <= size, ~ (More /\ Whole)
    PROVE  /\ ~ NothingRead => Output = SubSeq(AsRecorded, 1, Stored)
           /\ NothingRead <=> size < Len(Section) + Len(Interface(1))
<1>1. CASE AtStart \/ BehindSection
  BY <1>1, StopsBefore
<1>2. CASE BehindFirst
  BY <1>2, StopsBehindFirst
<1>3. ASSUME NEW k \in 0..Len(recorded),
             BehindPackets(k) \/ (k < Len(recorded) /\ BehindExtra(k))
      PROVE  /\ Output = SubSeq(AsRecorded, 1, Stored) /\ ~ NothingRead
             /\ ~ (size < Len(Section) + Len(Interface(1)))
  BY <1>3, StopsBehind
<1>4. QED
  BY <1>1, <1>2, <1>3, Zenon DEF Place

-----------------------------------------------------------------------------
(* The steps.                                                              *)

\* What is promised of the output depends on the variables below only.
LEMMA PromiseSame ==
    ASSUME UNCHANGED <<writing, interfaces, packets>>
    PROVE  /\ Output' = Output /\ AsRecorded' = AsRecorded /\ Stored' = Stored
           /\ (Len(Section) + Len(Interface(1)))' = Len(Section) + Len(Interface(1))
           /\ NothingRead' = NothingRead
<1>1. /\ foreign' = foreign /\ iface' = iface /\ cc' = cc /\ size' = size
      /\ recorded' = recorded /\ interfaces' = interfaces /\ packets' = packets
  BY DEF writing
<1>2. Output' = Output
  BY <1>1, Zenon DEF Output, Printed, ParsedHeader
<1>3. AsRecorded' = AsRecorded
  BY <1>1, Zenon DEF AsRecorded
<1>4. \A k : Upto(k)' = Upto(k)
  BY <1>1, UptoSame
<1>5. Stored' = Stored
  BY <1>1, <1>4, Zenon DEF Stored
<1>6. Section' = Section /\ Interface(1)' = Interface(1)
  BY <1>1, StartSame
<1>7. NothingRead' = NothingRead
  BY <1>1 DEF NothingRead
<1>8. QED
  BY <1>2, <1>3, <1>5, <1>6, <1>7

LEMMA InvWritten ==
    ASSUME FileInv, stage # "start"
    PROVE  Written
  BY DEF FileInv, Written

LEMMA AtStartSame ==
    ASSUME UNCHANGED reading, AtStart
    PROVE  AtStart'
<1>1. off' = off /\ interfaces' = interfaces /\ packets' = packets
  BY DEF reading
<1>2. off = 0 /\ Met(0) /\ packets = <<>>
  BY DEF AtStart
<1>3. Met(0)'
  BY <1>1, <1>2, MetSame
<1>4. QED
  BY <1>1, <1>2, <1>3, Zenon DEF AtStart

\* Nothing is promised before the reader stops.
LEMMA NoPromise ==
    ASSUME stage \notin {"dumped", "rejected"}
    PROVE  DumpShowsTrace
<1>1. stage # "dumped"
  OBVIOUS
<1>2. QED
  BY <1>1 DEF DumpShowsTrace

LEMMA NoPromiseNext ==
    ASSUME stage' \notin {"dumped", "rejected"}
    PROVE  DumpShowsTrace'
<1>1. (stage \notin {"dumped", "rejected"})' => DumpShowsTrace'
  BY NoPromise, PTL
<1>2. QED
  BY <1>1

\* The program begins with no file.
LEMMA BlankTrace == Blank => FileInv
<1> SUFFICES ASSUME Blank
             PROVE  FileInv
  OBVIOUS
<1>1. /\ foreign \in BOOLEAN /\ iface \in {0, 1} /\ cc \in {1, 2}
      /\ stage = "start" /\ size = 0 /\ recorded = <<>>
      /\ off = 0 /\ interfaces = <<>> /\ packets = <<>>
  BY DEF Blank
<1>2. <<>> \in Seq(Records) /\ <<>> \in Seq(Interfaces) /\ Len(<<>>) = 0 /\ 0 \in Nat
  OBVIOUS
<1>3. Writers
  BY <1>1, Zenon DEF Writers
<1>4. AtStart
  <2>1. \A i \in 1..0 : interfaces[i].name = Names[i] /\ interfaces[i].tsresol = 6
    OBVIOUS
  <2>2. Met(0)
    BY <1>1, <1>2, <2>1 DEF Met
  <2>3. QED
    BY <1>1, <2>2, Zenon DEF AtStart
<1>5. DumpShowsTrace
  <2>1. stage \notin {"dumped", "rejected"}
    BY <1>1
  <2>2. QED
    BY <2>1, NoPromise
<1>6. /\ stage \in {"start", "trace", "flushed", "broken", "read", "dumped", "rejected"}
      /\ stage # "read" /\ ~ (stage # "start")
  BY <1>1
<1>7. QED
  BY <1>1, <1>2, <1>3, <1>4, <1>5, <1>6, Zenon DEF FileInv

\* The rest of FileInv while the recording goes on and after its end.
LEMMA Recording ==
    ASSUME FileInv, stage \in {"start", "trace"}, UNCHANGED <<foreign, iface, cc, reading>>,
           stage' \in {"trace", "flushed", "broken"},
           recorded' \in Seq(Records), size' \in Nat,
           file' = Upto(Len(recorded))', size' <= Len(file')
    PROVE  FileInv'
<1>1. Writers'
  BY Zenon DEF FileInv, Writers
<1>2. AtStart'
  <2>1. AtStart
    BY DEF FileInv
  <2>2. UNCHANGED reading
    OBVIOUS
  <2>3. QED
    BY <2>1, <2>2, AtStartSame
<1>3. DumpShowsTrace'
  BY NoPromiseNext
<1>4. /\ stage' \in {"start", "trace", "flushed", "broken", "read", "dumped", "rejected"}
      /\ stage' # "start" /\ stage' # "read"
  OBVIOUS
<1>5. QED
  BY <1>1, <1>2, <1>3, <1>4, Zenon DEF FileInv

LEMMA MakesTrace ==
    ASSUME FileInv, MakeTrace
    PROVE  FileInv'
<1>1. /\ stage = "start" /\ file' = Start /\ stage' = "trace"
      /\ foreign' = foreign /\ iface' = iface /\ cc' = cc /\ size' = size
      /\ recorded' = recorded /\ UNCHANGED reading
  BY DEF MakeTrace, Start
<1>2. recorded = <<>> /\ size = 0 /\ Writers /\ foreign \in BOOLEAN /\ recorded \in Seq(Records)
  BY <1>1 DEF FileInv, Writers
<1>3. Len(recorded) = 0
  BY <1>2
<1>4. Upto(0)' = Upto(0) /\ Upto(0) = Start
  <2>1. \A i \in 1..0 : recorded'[i] = recorded[i]
    OBVIOUS
  <2>2. QED
    BY <1>1, <1>2, <2>1, UptoSame, UptoNone
<1>5. Len(recorded)' = 0
  BY <1>1, <1>3
<1>6. file' = Upto(Len(recorded))'
  BY <1>1, <1>4, <1>5
<1>7. size' \in Nat /\ size' <= Len(file')
  <2> DEFINE l == Len(Start)
  <2>1. l \in Nat
    BY <1>2, StartIs
  <2> HIDE DEF l
  <2>2. 0 <= l
    BY <2>1
  <2>3. QED
    BY <1>1, <1>2, <2>2 DEF l
<1>8. QED
  BY <1>1, <1>2, <1>6, <1>7, Recording

Known   == Writers /\ recorded \in Seq(Records)
Growing == \A k \in Nat : k < Len(recorded)
                            => Upto(k + 1) = Upto(k) \o Packet(recorded[k + 1])

LEMMA UptoGrows == Known => Growing
  BY UptoNext DEF Growing, Known

\* A message recorded is at the end of the file.
LEMMA RecordsMessage ==
    ASSUME FileInv, Record
    PROVE  FileInv'
<1>1. /\ stage = "trace" /\ stage' = "trace"
      /\ foreign' = foreign /\ iface' = iface /\ cc' = cc /\ size' = size /\ UNCHANGED reading
  BY DEF Record
<1>2. PICK r \in Records : recorded' = Append(recorded, r) /\ file' = file \o Packet(r)
  BY DEF Record, Records
<1>3. /\ Writers /\ recorded \in Seq(Records) /\ size \in Nat /\ size <= Len(file)
      /\ file = Upto(Len(recorded))
  BY <1>1, InvWritten DEF Written
<1>4. PICK n \in Nat : n = Len(recorded)
  BY <1>3
<1>5. n \in 0..n /\ n < n + 1 /\ n + 1 \in 1..n + 1
  OBVIOUS
<1>6. n \in 0..Len(recorded)
  BY <1>4, <1>5
<1>7. /\ Append(recorded, r) \in Seq(Records) /\ Len(Append(recorded, r)) = Len(recorded) + 1
      /\ Append(recorded, r)[Len(recorded) + 1] = r
      /\ \A i \in 1..Len(recorded) : Append(recorded, r)[i] = recorded[i]
  BY ONLY <1>2, <1>3, AppendProperties
<1>8. /\ recorded' \in Seq(Records) /\ Len(recorded') = n + 1
      /\ recorded'[n + 1] = r /\ \A i \in 1..n : recorded'[i] = recorded[i]
  BY <1>2, <1>4, <1>7
<1>9. Known'
  BY <1>1, <1>3, <1>8, Zenon DEF Known, Writers
<1>10. Growing'
  BY <1>9, UptoGrows, PTL
<1>11. Upto(n + 1)' = Upto(n)' \o Packet(r)
  <2>1. Packet(recorded[n + 1])' = Packet(r)
    BY <1>1, <1>8, PacketSame
  <2>2. Upto(n + 1)' = Upto(n)' \o Packet(recorded[n + 1])'
    BY <1>5, <1>8, <1>10 DEF Growing
  <2>3. QED
    BY <2>1, <2>2
<1>12. Upto(n)' = Upto(n)
  BY <1>1, <1>8, UptoSame
<1>13. file' = Upto(Len(recorded))'
  <2>1. file' = Upto(n + 1)'
    BY <1>2, <1>3, <1>4, <1>11, <1>12
  <2>2. Upto(Len(recorded))' = Upto(n + 1)'
    BY <1>8, Zenon DEF Upto
  <2>3. QED
    BY <2>1, <2>2
<1>14. size' \in Nat /\ size' <= Len(file')
  <2> DEFINE a == Len(file)
             b == Len(Packet(r))
             c == Len(file \o Packet(r))
  <2>1. file \in Seq(TraceByte) /\ Packet(r) \in Seq(TraceByte)
    BY <1>3, <1>4, <1>6, UptoIs, PacketType
  <2>2. a \in Nat /\ b \in Nat /\ c = a + b
    BY <2>1
  <2>3. size \in Nat /\ size <= a
    BY <1>3
  <2> HIDE DEF a, b, c
  <2>4. size <= c
    BY <2>2, <2>3
  <2>5. QED
    BY <1>1, <1>2, <2>3, <2>4 DEF c
<1>15. QED
  BY <1>1, <1>8, <1>13, <1>14, Recording

LEMMA EndsRecording ==
    ASSUME FileInv, Flush \/ BreakOff
    PROVE  FileInv'
<1>1. /\ stage = "trace" /\ stage' \in {"flushed", "broken"} /\ size' \in 0..Len(file)
      /\ foreign' = foreign /\ iface' = iface /\ cc' = cc /\ file' = file
      /\ recorded' = recorded /\ UNCHANGED reading
  <2>1. CASE Flush
    <3>1. Len(file) \in 0..Len(file)
      <4>1. Written
        BY <2>1, InvWritten DEF Flush
      <4>2. file \in Seq(TraceByte)
        BY <4>1, WrittenFile
      <4>3. Len(file) \in Nat
        BY <4>2
      <4> DEFINE a == Len(file)
      <4> HIDE DEF a
      <4>4. a \in Nat => a \in 0..a
        OBVIOUS
      <4>5. QED
        BY <4>3, <4>4 DEF a
    <3>2. QED
      BY <2>1, <3>1 DEF Flush
  <2>2. CASE BreakOff
    BY <2>2 DEF BreakOff
  <2>3. QED
    BY <2>1, <2>2
<1>2. Written
  BY <1>1, InvWritten
<1>3. recorded \in Seq(Records) /\ file = Upto(Len(recorded)) /\ Len(file) \in Nat
  BY <1>2, WrittenFile DEF Written
<1>4. Upto(Len(recorded))' = Upto(Len(recorded))
  <2>1. \A k : Upto(k)' = Upto(k)
    BY <1>1, UptoSame
  <2>2. QED
    BY <1>1, <2>1
<1>5. size' \in Nat /\ size' <= Len(file')
  <2> DEFINE a == Len(file)
  <2>1. a \in Nat /\ size' \in 0..a /\ Len(file') = a
    BY <1>1, <1>3
  <2> HIDE DEF a
  <2>2. QED
    BY <2>1
<1>6. QED
  BY <1>1, <1>3, <1>4, <1>5, Recording

\* The rest of FileInv while the writer's variables stay as they are.
LEMMA Rereading ==
    ASSUME FileInv, stage # "start", UNCHANGED writing,
           stage' \in {"trace", "flushed", "broken", "read", "dumped", "rejected"},
           stage' \in {"trace", "flushed", "broken"} => AtStart',
           stage' = "read" => Place' /\ off' <= size,
           DumpShowsTrace'
    PROVE  FileInv'
<1>1. /\ foreign' = foreign /\ iface' = iface /\ cc' = cc /\ file' = file /\ size' = size
      /\ recorded' = recorded
  BY DEF writing
<1>2. Written
  BY InvWritten
<1>3. /\ Writers /\ recorded \in Seq(Records) /\ size \in Nat /\ size <= Len(file)
      /\ file = Upto(Len(recorded))
  BY <1>2 DEF Written
<1>4. \A k : Upto(k)' = Upto(k)
  BY <1>1, UptoSame
<1>5. file' = Upto(Len(recorded))'
  BY <1>1, <1>3, <1>4
<1>6. Writers'
  BY <1>1, <1>3, Zenon DEF Writers
<1>7. recorded' \in Seq(Records) /\ size' \in Nat /\ size' <= Len(file')
  BY <1>1, <1>3
<1>8. /\ stage' \in {"start", "trace", "flushed", "broken", "read", "dumped", "rejected"}
      /\ stage' # "start"
  OBVIOUS
<1>9. stage' \in {"start", "trace", "flushed", "broken"} => AtStart'
  BY <1>8
<1>10. stage' = "read" => Place' /\ off' <= size'
  BY <1>1
<1>11. QED
  BY <1>5, <1>6, <1>7, <1>8, <1>9, <1>10, Zenon DEF FileInv

LEMMA StartsDump ==
    ASSUME FileInv, Dump
    PROVE  FileInv'
<1>1. stage \in {"flushed", "broken"} /\ stage' = "read" /\ UNCHANGED writing /\ UNCHANGED reading
  BY DEF Dump
<1>2. AtStart /\ size \in Nat
  BY <1>1 DEF FileInv
<1>3. AtStart'
  BY <1>1, <1>2, AtStartSame
<1>4. Place' /\ off' <= size
  <2>1. off' = 0
    BY <1>3 DEF AtStart
  <2>2. QED
    BY <1>2, <1>3, <2>1 DEF Place
<1>5. DumpShowsTrace'
  BY <1>1, NoPromiseNext
<1>6. QED
  BY <1>1, <1>4, <1>5, Rereading

LEMMA ReadsBlock ==
    ASSUME FileInv, ReadBlock
    PROVE  FileInv'
<1>1. stage = "read" /\ stage' = "read" /\ UNCHANGED writing
  BY DEF ReadBlock
<1>2. UNCHANGED <<foreign, iface, cc, recorded>>
  BY <1>1 DEF writing
<1>3. Place /\ Written
  BY <1>1, InvWritten DEF FileInv
<1>4. Place' /\ off' <= size
  BY <1>2, <1>3, ReadsOn
<1>5. DumpShowsTrace'
  BY <1>1, NoPromiseNext
<1>6. QED
  BY <1>1, <1>4, <1>5, Rereading

\* DumpShowsTrace is kept while nothing is written or read.
LEMMA PromiseKept ==
    ASSUME UNCHANGED writing, UNCHANGED reading,
           stage' = "dumped" => Output = SubSeq(AsRecorded, 1, Stored),
           stage' \in {"dumped", "rejected"} =>
             (stage' = "rejected" <=> size < Len(Section) + Len(Interface(1)))
    PROVE  DumpShowsTrace'
<1>1. UNCHANGED <<writing, interfaces, packets>> /\ size' = size
  BY DEF reading, writing
<1>2. /\ Output' = Output /\ AsRecorded' = AsRecorded /\ Stored' = Stored
      /\ (Len(Section) + Len(Interface(1)))' = Len(Section) + Len(Interface(1))
  BY <1>1, PromiseSame
<1>3. (size < Len(Section) + Len(Interface(1)))' <=> size < Len(Section) + Len(Interface(1))
  BY <1>1, <1>2
<1>4. SubSeq(AsRecorded, 1, Stored)' = SubSeq(AsRecorded, 1, Stored)
  BY <1>2
<1>5. QED
  BY <1>2, <1>3, <1>4, Zenon DEF DumpShowsTrace

LEMMA StopsReading ==
    ASSUME FileInv, ReadEnds
    PROVE  FileInv'
<1>1. /\ stage = "read" /\ ~ (More /\ Whole) /\ UNCHANGED writing /\ UNCHANGED reading
      /\ stage' = IF NothingRead THEN "rejected" ELSE "dumped"
  BY DEF ReadEnds
<1>2. Place /\ Written /\ off <= size
  BY <1>1, InvWritten DEF FileInv
<1>3. /\ ~ NothingRead => Output = SubSeq(AsRecorded, 1, Stored)
      /\ NothingRead <=> size < Len(Section) + Len(Interface(1))
  BY <1>1, <1>2, ReadStops
<1>4. /\ stage' \in {"dumped", "rejected"} /\ stage' = "rejected" <=> NothingRead
      /\ stage' = "dumped" <=> ~ NothingRead
  BY <1>1
<1>5. DumpShowsTrace'
  BY <1>1, <1>3, <1>4, PromiseKept, Zenon
<1>6. stage # "start" /\ stage' \notin {"trace", "flushed", "broken", "read"}
      /\ stage' \in {"flushed", "broken", "read", "dumped", "rejected"}
  BY <1>1
<1>7. QED
  BY <1>1, <1>5, <1>6, Rereading

LEMMA PlaceSame ==
    ASSUME UNCHANGED <<foreign, iface, cc, recorded, off, le, interfaces, packets>>, Place
    PROVE  Place'
<1>1. \A n : Met(n) => Met(n)'
  BY MetSame
<1>2. \A k : SeenOf(k)' = SeenOf(k) /\ Upto(k)' = Upto(k)
  BY SeenSame, UptoSame
<1>3. Section' = Section /\ Interface(1)' = Interface(1)
  BY StartSame
<1>4. Extra' = Extra
  BY BlockSame, NumbersSame DEF Extra
<1>5. AtStart => AtStart'
  BY <1>1, Zenon DEF AtStart
<1>6. BehindSection => BehindSection'
  BY <1>1, <1>3, Zenon DEF BehindSection
<1>7. BehindFirst => BehindFirst'
  BY <1>1, <1>3, Zenon DEF BehindFirst
<1>8. \A k : BehindPackets(k) => BehindPackets(k)'
  BY <1>1, <1>2, Zenon DEF BehindPackets
<1>9. \A k : BehindExtra(k) => BehindExtra(k)'
  BY <1>1, <1>2, <1>4, Zenon DEF BehindExtra
<1>10. QED
  BY <1>5, <1>6, <1>7, <1>8, <1>9, Zenon DEF Place

LEMMA TraceStays ==
    ASSUME FileInv, UNCHANGED traceVars
    PROVE  FileInv'
<1>1. UNCHANGED writing /\ UNCHANGED reading /\ stage' = stage
  BY DEF traceVars
<1>2. UNCHANGED <<foreign, iface, cc, file, size, recorded, off, le, interfaces, packets>>
  BY <1>1 DEF writing, reading
<1>3. DumpShowsTrace'
  BY <1>1, PromiseKept DEF FileInv, DumpShowsTrace
<1>4. AtStart => AtStart'
  BY <1>1, AtStartSame
<1>5. CASE stage = "start"
  <2>1. /\ Writers /\ recorded \in Seq(Records) /\ size \in Nat
        /\ recorded = <<>> /\ size = 0 /\ AtStart
    BY <1>5 DEF FileInv
  <2>2. Writers' /\ AtStart'
    BY <1>2, <1>4, <2>1, Zenon DEF Writers
  <2>3. /\ recorded' \in Seq(Records) /\ size' \in Nat /\ recorded' = <<>> /\ size' = 0
        /\ stage' = "start" /\ ~ (stage' # "start") /\ stage' # "read"
        /\ stage' \in {"start", "trace", "flushed", "broken", "read", "dumped", "rejected"}
    BY <1>1, <1>2, <1>5, <2>1
  <2>4. QED
    BY <1>3, <2>2, <2>3, Zenon DEF FileInv
<1>6. CASE stage # "start"
  <2>1. stage \in {"trace", "flushed", "broken"} => AtStart
    BY DEF FileInv
  <2>2. stage = "read" => Place /\ off <= size
    BY DEF FileInv
  <2>3. Place => Place'
    BY <1>2, PlaceSame
  <2>4. stage \in {"trace", "flushed", "broken", "read", "dumped", "rejected"}
    BY <1>6 DEF FileInv
  <2>5. stage' \in {"trace", "flushed", "broken"} => AtStart'
    BY <1>1, <1>4, <2>1
  <2>6. stage' = "read" => Place' /\ off' <= size
    BY <1>1, <1>2, <2>2, <2>3
  <2>7. stage' \in {"trace", "flushed", "broken", "read", "dumped", "rejected"}
    BY <1>1, <2>4
  <2>8. QED
    BY <1>1, <1>3, <1>6, <2>5, <2>6, <2>7, Rereading
<1>7. QED
  BY <1>5, <1>6

\* Every step of the writer and of the reader keeps the invariant.
LEMMA TraceSteps == FileInv /\ [TraceNext]_traceVars => FileInv'
<1> SUFFICES ASSUME FileInv, [TraceNext]_traceVars
             PROVE  FileInv'
  OBVIOUS
<1>1. CASE MakeTrace
  BY <1>1, MakesTrace
<1>2. CASE Record
  BY <1>2, RecordsMessage
<1>3. CASE Flush
  BY <1>3, EndsRecording
<1>4. CASE BreakOff
  BY <1>4, EndsRecording
<1>5. CASE Dump
  BY <1>5, StartsDump
<1>6. CASE ReadBlock
  BY <1>6, ReadsBlock
<1>7. CASE ReadEnds
  BY <1>7, StopsReading
<1>8. CASE UNCHANGED traceVars
  BY <1>8, TraceStays
<1>9. QED
  BY <1>1, <1>2, <1>3, <1>4, <1>5, <1>6, <1>7, <1>8 DEF TraceNext

\* For every byte size, magic, name, message and clock that the code can have, and
\* wherever the recording ends, pd-dump prints the messages that are whole on the
\* disk as they were recorded, and refuses only a file without an interface.
THEOREM TraceIsShown == TraceSpec => []DumpShowsTrace
<1>1. TraceSpec => []FileInv
  BY BlankTrace, TraceSteps, PTL DEF TraceSpec
<1>2. FileInv => DumpShowsTrace
  BY DEF FileInv
<1>3. QED
  BY <1>1, <1>2, PTL
=============================================================================
