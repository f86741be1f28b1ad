---------------------------- MODULE CaptureProofs ----------------------------
(***************************************************************************)
(* Theorems about Capture, for every set of sessions and callers and every *)
(* length of the read queue: the stop handles, the ring of bulk reads, and *)
(* the program, CaptureCli, as one client of both.                         *)
(***************************************************************************)
EXTENDS CaptureCli, DataLemmas

(* The sequence operators a cancelled read goes through. *)
LEMMA CancelledType ==
    ASSUME TypeOK, NEW s \in Session, NEW t \in Transfer, Cancelled(s, t)
    PROVE  endpoint' \in Seq(Session \X Transfer)
<1> DEFINE R == Session \X Transfer
<1>1. endpoint \in Seq(R)
  BY DEF TypeOK
<1>2. CASE UNCHANGED endpoint
  BY <1>1, <1>2
<1>3. ASSUME NEW i \in 1..Len(endpoint),
             endpoint' = SubSeq(endpoint, 1, i - 1)
                         \o SubSeq(endpoint, i + 1, Len(endpoint))
      PROVE  endpoint' \in Seq(R)
  <2>1. Len(endpoint) \in Nat /\ \A k \in 1..Len(endpoint) : endpoint[k] \in R
    BY <1>1, LenProperties, ElementOfSeq
  <2>2. SubSeq(endpoint, 1, i - 1) \in Seq(R)
    <3>1. 1 \in Int /\ i - 1 \in Int /\ \A k \in 1..i - 1 : endpoint[k] \in R
      BY <2>1
    <3>2. QED
      BY <3>1, SubSeqProperties
  <2>3. SubSeq(endpoint, i + 1, Len(endpoint)) \in Seq(R)
    <3>1. /\ i + 1 \in Int /\ Len(endpoint) \in Int
          /\ \A k \in i + 1..Len(endpoint) : endpoint[k] \in R
      BY <2>1
    <3>2. QED
      BY <3>1, SubSeqProperties
  <2>4. QED
    BY <1>3, <2>2, <2>3, ConcatProperties
<1>4. QED
  BY <1>2, <1>3 DEF Cancelled

(* One entry of a table with a row per session and a column per transfer   *)
(* may change to any value of the table's type.                            *)
LEMMA EntryType ==
    ASSUME NEW V, NEW f \in [Session -> [Transfer -> V]],
           NEW s \in Session, NEW t \in Transfer, NEW v \in V
    PROVE  [f EXCEPT ![s][t] = v] \in [Session -> [Transfer -> V]]
  OBVIOUS

LEMMA FreedType ==
    ASSUME TypeOK, NEW s \in Session, NEW t \in Transfer, Freed(s, t)
    PROVE  /\ status' \in [Session -> [Transfer -> Status]]
           /\ chunk' \in [Session -> [Transfer -> 0..MaxChunks]]
<1>1. "idle" \in Status /\ 0 \in 0..MaxChunks
  BY CaptureAssumption DEF Status
<1>2. status' \in [Session -> [Transfer -> Status]]
  BY <1>1, EntryType DEF Freed, TypeOK
<1>3. chunk' \in [Session -> [Transfer -> 0..MaxChunks]]
  BY <1>1, EntryType DEF Freed, TypeOK
<1>4. QED
  BY <1>2, <1>3

(* Every variable keeps its type: the only case that is not immediate is   *)
(* the deque and the host controller's queue.                              *)
LEMMA TypeInitially == Init => TypeOK
  BY CaptureAssumption DEF Init, TypeOK, Phase, Status, Label, Transfer

LEMMA TypeInductive == TypeOK /\ [Next]_vars => TypeOK'
<1> USE CaptureAssumption DEF TypeOK, Phase, Status, Label, wire, stream,
        owner, hist, At, Goto, Return, StopState
<1> SUFFICES ASSUME TypeOK, [Next]_vars
             PROVE  TypeOK'
  OBVIOUS
<1>1. ASSUME NEW s \in Session, Start(s)
      PROVE  TypeOK'
  <2>1. CASE StartCapture(s)
    BY <2>1 DEF StartCapture
  <2>2. CASE StartStop(s)
    BY <2>2 DEF StartStop, StartWrite, WriteOk, WriteErr
  <2>3. CASE StartRun(s)
    BY <2>3 DEF StartRun, StartWrite, WriteOk, WriteErr
  <2>4. CASE StartSubmit(s)
    <3> DEFINE t == Len(reads[s]) + 1
    <3>1. t \in Transfer
      BY <2>4 DEF StartSubmit, MoreReads, Transfer
    <3>2. status' \in [Session -> [Transfer -> Status]]
      <4>1. [status EXCEPT ![s][t] = "pending"] \in [Session -> [Transfer -> Status]]
        BY <3>1, EntryType
      <4>2. QED
        BY <2>4, <4>1 DEF StartSubmit
    <3>3. endpoint' \in Seq(Session \X Transfer)
      <4>1. Append(endpoint, <<s, t>>) \in Seq(Session \X Transfer)
        BY <3>1, AppendProperties
      <4>2. QED
        BY <2>4, <4>1 DEF StartSubmit, Submitted
    <3>4. reads' \in [Session -> Seq(Transfer)]
      <4> DEFINE q == Append(reads[s], t)
      <4>1. q \in Seq(Transfer)
        BY <3>1, AppendProperties
      <4>2. reads' = [reads EXCEPT ![s] = q] \/ reads' = reads
        BY <2>4 DEF StartSubmit
      <4>3. reads \in [Session -> Seq(Transfer)]
        OBVIOUS
      <4> HIDE DEF q, TypeOK
      <4>4. QED
        BY <4>1, <4>2, <4>3
    <3>5. QED
      BY <2>4, <3>2, <3>3, <3>4 DEF StartSubmit
  <2>5. CASE StartReturn(s)
    BY <2>5 DEF StartReturn
  <2>6. CASE StartFailed(s)
    BY <2>6 DEF StartFailed
  <2>7. QED
    BY <1>1, <2>1, <2>2, <2>3, <2>4, <2>5, <2>6 DEF Start
<1>2. ASSUME NEW s \in Session, NextCall(s)
      PROVE  TypeOK'
  BY <1>2 DEF NextCall
<1>3. ASSUME NEW s \in Session, NextLoop(s)
      PROVE  TypeOK'
  <2>1. CASE NextItem(s)
    <3>1. records' = [records EXCEPT ![s] = @ - 1] /\ records[s] - 1 \in 0..MaxRecords
      <4>1. records' = [records EXCEPT ![s] = @ - 1] /\ records[s] > 0
        BY <2>1 DEF NextItem
      <4>2. records[s] \in 0..MaxRecords /\ MaxRecords \in Nat
        BY CaptureAssumption
      <4>3. QED
        BY <4>1, <4>2
    <3>2. records' \in [Session -> 0..MaxRecords]
      BY <3>1
    <3>3. late' \in [Session -> Nat]
      BY <2>1 DEF NextItem
    <3>4. QED
      BY <2>1, <3>2, <3>3 DEF NextItem
  <2>2. CASE NextCompleted(s)
    <3> DEFINE t == Head(reads[s])
    <3>1. t \in Transfer /\ Tail(reads[s]) \in Seq(Transfer)
      BY <2>2, HeadTailProperties DEF NextCompleted, Waiting
    <3>2. status' \in [Session -> [Transfer -> Status]]
      BY <2>2, <3>1, EntryType DEF NextCompleted
    <3>3. chunk' \in [Session -> [Transfer -> 0..MaxChunks]]
      <4>1. [chunk EXCEPT ![s][t] = 0] \in [Session -> [Transfer -> 0..MaxChunks]]
        <5>1. 0 \in 0..MaxChunks /\ chunk \in [Session -> [Transfer -> 0..MaxChunks]]
          OBVIOUS
        <5> HIDE CaptureAssumption DEF TypeOK, t
        <5>2. QED
          BY <3>1, <5>1, EntryType
      <4>2. QED
        BY <2>2, <4>1 DEF NextCompleted
    <3>4. /\ endpoint' \in Seq(Session \X Transfer)
          /\ reads' \in [Session -> Seq(Transfer)]
      BY <2>2, <3>1 DEF NextCompleted, Submitted, Rotated
    <3>5. /\ last' \in [Session -> 0..MaxChunks]
          /\ records' \in [Session -> 0..MaxRecords]
      <4>1. PICK n \in 0..MaxRecords : records' = [records EXCEPT ![s] = n]
        BY <2>2 DEF NextCompleted
      <4>2. last' = [last EXCEPT ![s] = chunk[s][t]]
        BY <2>2 DEF NextCompleted
      <4>3. chunk[s][t] \in 0..MaxChunks
        BY <3>1
      <4>4. QED
        BY <4>1, <4>2, <4>3
    <3>6. QED
      BY <2>2, <3>2, <3>3, <3>4, <3>5 DEF NextCompleted
  <2>3. CASE NextSubmitFails(s)
    <3> DEFINE t == Head(reads[s])
    <3>1. t \in Transfer
      BY <2>3, HeadTailProperties DEF NextSubmitFails, Waiting
    <3>2. /\ status' \in [Session -> [Transfer -> Status]]
          /\ chunk' \in [Session -> [Transfer -> 0..MaxChunks]]
      BY <2>3, <3>1, FreedType DEF NextSubmitFails
    <3>3. /\ last' \in [Session -> 0..MaxChunks]
          /\ records' \in [Session -> 0..MaxRecords]
      <4>1. PICK n \in 0..MaxRecords : records' = [records EXCEPT ![s] = n]
        BY <2>3 DEF NextSubmitFails
      <4>2. last' = [last EXCEPT ![s] = chunk[s][t]] /\ chunk[s][t] \in 0..MaxChunks
        BY <2>3, <3>1 DEF NextSubmitFails
      <4>3. QED
        BY <4>1, <4>2
    <3>4. QED
      BY <2>3, <3>2, <3>3 DEF NextSubmitFails
  <2>4. CASE NextEnd(s)
    BY <2>4 DEF NextEnd, EndStream
  <2>5. CASE NextTimeout(s)
    BY <2>5 DEF NextTimeout
  <2>6. CASE NextFails(s)
    BY <2>6 DEF NextFails, EndStream
  <2>7. QED
    BY <1>3, <2>1, <2>2, <2>3, <2>4, <2>5, <2>6 DEF NextLoop, NextTurn
<1>4. ASSUME NEW s \in Session, Stop(s)
      PROVE  TypeOK'
  BY <1>4 DEF Stop
<1>5. ASSUME NEW s \in Session, Close(s)
      PROVE  TypeOK'
  <2>1. CASE StopWrite(s)
    BY <2>1 DEF StopWrite, WriteOk, WriteErr
  <2>2. CASE CancelRead(s)
    <3> DEFINE t == Head(reads[s])
    <3>1. t \in Transfer /\ Tail(reads[s]) \in Seq(Transfer)
      BY <2>2, HeadTailProperties DEF CancelRead
    <3>2. endpoint' \in Seq(Session \X Transfer)
      BY <2>2, <3>1, CancelledType DEF CancelRead
    <3>3. /\ status' \in [Session -> [Transfer -> Status]]
          /\ chunk' \in [Session -> [Transfer -> 0..MaxChunks]]
      BY <2>2, <3>1, FreedType DEF CancelRead
    <3>4. QED
      BY <2>2, <3>1, <3>2, <3>3 DEF CancelRead
  <2>3. CASE StopReturn(s)
    BY <2>3 DEF StopReturn
  <2>4. QED
    BY <1>5, <2>1, <2>2, <2>3 DEF Close
<1>6. ASSUME NEW c \in Caller,
             StopFnWrite(c) \/ \E s \in Session : StopFnCall(c, s)
      PROVE  TypeOK'
  <2>1. CASE StopFnWrite(c)
    <3>1. call[c] \in Session
      BY <2>1 DEF StopFnWrite
    <3>2. state' \in {state, "stopped"} /\ disabled' \in {disabled, disabled \cup {call[c]}}
      BY <2>1 DEF StopFnWrite, WriteOk, WriteErr
    <3>3. call' \in [Caller -> Session \cup {None}]
      BY <2>1 DEF StopFnWrite
    <3>4. QED
      BY <2>1, <3>1, <3>2, <3>3 DEF StopFnWrite
  <2>2. ASSUME NEW s \in Session, StopFnCall(c, s)
        PROVE  TypeOK'
    BY <2>2 DEF StopFnCall
  <2>3. QED
    BY <1>6, <2>1, <2>2
<1>7. CASE Wire
  <2> DEFINE r == Head(endpoint)
  <2>1. /\ r[1] \in Session /\ r[2] \in Transfer
        /\ Tail(endpoint) \in Seq(Session \X Transfer)
    <3>1. endpoint \in Seq(Session \X Transfer) /\ endpoint # <<>>
      BY <1>7 DEF Wire, Complete, Break
    <3>2. r \in Session \X Transfer /\ Tail(endpoint) \in Seq(Session \X Transfer)
      BY <3>1, HeadTailProperties
    <3>3. QED
      BY <3>2
  <2>2. CASE Complete
    <3>1. sent + 1 \in 0..MaxChunks
      <4>1. sent < MaxChunks
        BY <2>2 DEF Complete
      <4>2. sent \in 0..MaxChunks /\ MaxChunks \in Nat
        OBVIOUS
      <4> HIDE CaptureAssumption DEF TypeOK
      <4>3. QED
        BY <4>1, <4>2
    <3>2. status' \in [Session -> [Transfer -> Status]]
      BY <2>1, <2>2, EntryType DEF Complete
    <3>3. chunk' \in [Session -> [Transfer -> 0..MaxChunks]]
      BY <2>1, <2>2, <3>1, EntryType DEF Complete
    <3>4. QED
      BY <2>1, <2>2, <3>1, <3>2, <3>3 DEF Complete
  <2>3. CASE Break
    <3>1. PICK st \in {"cancelled", "error"} :
             status' = [status EXCEPT ![r[1]][r[2]] = st]
      BY <2>3 DEF Break
    <3>2. status' \in [Session -> [Transfer -> Status]]
      BY <2>1, <3>1, EntryType
    <3>3. QED
      BY <2>1, <2>3, <3>2 DEF Break
  <2>4. QED
    BY <1>7, <2>2, <2>3 DEF Wire
<1>8. CASE UNCHANGED vars
  BY <1>8 DEF vars
<1>9. QED
  BY <1>1, <1>2, <1>3, <1>4, <1>5, <1>6, <1>7, <1>8 DEF Next

(* TypeOK holds in every state of a capture, however many sessions, reads  *)
(* and callers there are: start_capture, next, stop, drop and the StopFns. *)
THEOREM TypeCorrect == Spec => []TypeOK
<1>1. QED
  BY TypeInitially, TypeInductive, PTL DEF Spec

-----------------------------------------------------------------------------
(* Where each session is, given where the owner's thread is; and nothing    *)
(* was written or asked for a session before its stream was open.           *)
Control ==
    /\ pc = "idle" <=> cur = None
    /\ pc \in {"start_stop", "start_run", "start_submit"} =>
          phase[cur] = "starting"
    /\ pc = "start_drop" => phase[cur] = "failed"
    /\ pc = "next" => phase[cur] = "open"
    /\ pc \in {"stop_write", "cancel_reads"} => phase[cur] = "closing"
    /\ \A s \in Session :
          s \in disabled \/ s \in unsure \/ (\E c \in Caller : call[c] = s) =>
             phase[s] \in {"open", "closing", "closed"}

(* The register's session either can still be stopped, or failed to start,  *)
(* or is one whose stop() has seen its write fail.                          *)
Register ==
    /\ DisableSticks
    /\ EnabledHasReason
    /\ pc = "cancel_reads" /\ state = cur => cur \in unsure

(* A stream is inside next with its flag set only before its last item.     *)
LastItem ==
    \A s \in Session :
       /\ late[s] <= 1
       /\ ~flag[s] \/ At("next", s) => late[s] = 0

IInv == TypeOK /\ Control /\ Register /\ LastItem

(* One step per action of Capture; the waits and the wire leave it alone.  *)
LEMMA ControlInductive ==
    TypeOK /\ Control /\ [Next]_vars => Control'
<1> USE CaptureAssumption DEF wire, stream, owner, hist, At, Goto, Return,
        StopState, Ended, StopRequested
<1> SUFFICES ASSUME TypeOK, Control, [Next]_vars
             PROVE  Control'
  OBVIOUS
<1> USE DEF Control
<1>1. ASSUME NEW s \in Session, Start(s)
      PROVE  Control'
  <2>1. CASE StartCapture(s)
    BY <2>1 DEF StartCapture, TypeOK
  <2>2. CASE StartStop(s)
    BY <2>2 DEF StartStop, StartWrite, WriteOk, WriteErr, TypeOK
  <2>3. CASE StartRun(s)
    BY <2>3 DEF StartRun, StartWrite, WriteOk, WriteErr, TypeOK
  <2>4. CASE StartSubmit(s)
    BY <2>4 DEF StartSubmit, TypeOK
  <2>5. CASE StartReturn(s)
    BY <2>5 DEF StartReturn, TypeOK
  <2>6. CASE StartFailed(s)
    BY <2>6 DEF StartFailed, TypeOK
  <2>7. QED
    BY <1>1, <2>1, <2>2, <2>3, <2>4, <2>5, <2>6 DEF Start
<1>2. ASSUME NEW s \in Session, NextCall(s)
      PROVE  Control'
  BY <1>2 DEF NextCall, TypeOK
<1>3. ASSUME NEW s \in Session, NextLoop(s)
      PROVE  Control'
  <2>1. CASE NextItem(s)
    BY <2>1 DEF NextItem, TypeOK
  <2>2. CASE NextCompleted(s)
    BY <2>2 DEF NextCompleted, TypeOK
  <2>3. CASE NextSubmitFails(s)
    BY <2>3 DEF NextSubmitFails, Waiting, TypeOK
  <2>4. CASE NextEnd(s)
    BY <2>4 DEF NextEnd, EndStream, TypeOK
  <2>5. CASE NextTimeout(s)
    BY <2>5 DEF NextTimeout, TypeOK
  <2>6. CASE NextFails(s)
    BY <2>6 DEF NextFails, EndStream, TypeOK
  <2>7. QED
    BY <1>3, <2>1, <2>2, <2>3, <2>4, <2>5, <2>6 DEF NextLoop, NextTurn
<1>4. ASSUME NEW s \in Session, Stop(s)
      PROVE  Control'
  BY <1>4 DEF Stop, TypeOK
<1>5. ASSUME NEW s \in Session, Close(s)
      PROVE  Control'
  <2>1. CASE StopWrite(s)
    BY <2>1 DEF StopWrite, WriteOk, WriteErr, TypeOK
  <2>2. CASE CancelRead(s)
    BY <2>2 DEF CancelRead, TypeOK
  <2>3. CASE StopReturn(s)
    BY <2>3 DEF StopReturn, TypeOK
  <2>4. QED
    BY <1>5, <2>1, <2>2, <2>3 DEF Close
<1>6. ASSUME NEW c \in Caller, StopFnWrite(c)
      PROVE  Control'
  BY <1>6 DEF StopFnWrite, WriteOk, WriteErr, TypeOK
<1>7. ASSUME NEW c \in Caller, NEW s \in Session, StopFnCall(c, s)
      PROVE  Control'
  BY <1>7 DEF StopFnCall, TypeOK
<1>8. CASE Wire
  BY <1>8 DEF Wire, Complete, Break, TypeOK
<1>9. CASE UNCHANGED vars
  BY <1>9 DEF vars, TypeOK
<1>10. QED
  BY <1>1, <1>2, <1>3, <1>4, <1>5, <1>6, <1>7, <1>8, <1>9 DEF Next

(* The step that needs Control is the write of run_state: the session it is *)
(* written for is starting, so nothing has disabled it yet.                 *)
LEMMA RegisterInductive ==
    TypeOK /\ Control /\ Register /\ [Next]_vars => Register'
<1> USE CaptureAssumption DEF wire, stream, owner, hist, At, Goto, Return,
        StopState, Ended, StopRequested
<1> SUFFICES ASSUME TypeOK, Control, Register, [Next]_vars
             PROVE  Register'
  OBVIOUS
<1> USE DEF Control, Register, DisableSticks, EnabledHasReason
<1>1. ASSUME NEW s \in Session, Start(s)
      PROVE  Register'
  <2>1. CASE StartCapture(s)
    BY <2>1 DEF StartCapture, TypeOK
  <2>2. CASE StartStop(s)
    BY <2>2 DEF StartStop, StartWrite, WriteOk, WriteErr, TypeOK
  <2>3. CASE StartRun(s)
    <3>1. s \notin disabled /\ phase[s] = "starting" /\ UNCHANGED hist
      BY <2>3 DEF StartRun, StartWrite, TypeOK
    <3>2. CASE WriteOk(s) /\ pc' = "start_submit" /\ UNCHANGED <<cur, phase>>
      BY <2>3, <3>1, <3>2 DEF StartRun, StartWrite, WriteOk, TypeOK
    <3>3. CASE /\ WriteErr(s) /\ Return
               /\ phase' = [phase EXCEPT ![s] = "failed"]
      BY <2>3, <3>1, <3>3 DEF StartRun, StartWrite, WriteErr, TypeOK
    <3>4. QED
      BY <2>3, <3>2, <3>3 DEF StartRun, StartWrite
  <2>4. CASE StartSubmit(s)
    BY <2>4 DEF StartSubmit, TypeOK
  <2>5. CASE StartReturn(s)
    BY <2>5 DEF StartReturn, TypeOK
  <2>6. CASE StartFailed(s)
    BY <2>6 DEF StartFailed, TypeOK
  <2>7. QED
    BY <1>1, <2>1, <2>2, <2>3, <2>4, <2>5, <2>6 DEF Start
<1>2. ASSUME NEW s \in Session, NextCall(s)
      PROVE  Register'
  BY <1>2 DEF NextCall, TypeOK
<1>3. ASSUME NEW s \in Session, NextLoop(s)
      PROVE  Register'
  <2>1. CASE NextItem(s)
    BY <2>1 DEF NextItem, TypeOK
  <2>2. CASE NextCompleted(s)
    BY <2>2 DEF NextCompleted, TypeOK
  <2>3. CASE NextSubmitFails(s)
    BY <2>3 DEF NextSubmitFails, Waiting, TypeOK
  <2>4. CASE NextEnd(s)
    BY <2>4 DEF NextEnd, EndStream, TypeOK
  <2>5. CASE NextTimeout(s)
    BY <2>5 DEF NextTimeout, Waiting, TypeOK
  <2>6. CASE NextFails(s)
    BY <2>6 DEF NextFails, EndStream, TypeOK
  <2>7. QED
    BY <1>3, <2>1, <2>2, <2>3, <2>4, <2>5, <2>6 DEF NextLoop, NextTurn
<1>4. ASSUME NEW s \in Session, Stop(s)
      PROVE  Register'
  BY <1>4 DEF Stop, TypeOK
<1>5. ASSUME NEW s \in Session, Close(s)
      PROVE  Register'
  <2>1. CASE StopWrite(s)
    BY <2>1 DEF StopWrite, WriteOk, WriteErr, TypeOK
  <2>2. CASE CancelRead(s)
    BY <2>2 DEF CancelRead, TypeOK
  <2>3. CASE StopReturn(s)
    BY <2>3 DEF StopReturn, TypeOK
  <2>4. QED
    BY <1>5, <2>1, <2>2, <2>3 DEF Close
<1>6. ASSUME NEW c \in Caller, StopFnWrite(c)
      PROVE  Register'
  BY <1>6 DEF StopFnWrite, WriteOk, WriteErr, TypeOK
<1>7. ASSUME NEW c \in Caller, NEW s \in Session, StopFnCall(c, s)
      PROVE  Register'
  BY <1>7 DEF StopFnCall, TypeOK
<1>8. CASE Wire
  BY <1>8 DEF Wire, Complete, Break, TypeOK
<1>9. CASE UNCHANGED vars
  BY <1>9 DEF vars, TypeOK
<1>10. QED
  BY <1>1, <1>2, <1>3, <1>4, <1>5, <1>6, <1>7, <1>8, <1>9 DEF Next

(* next is entered only with the flag clear, and returns with each item.    *)
LEMMA LastItemInductive ==
    TypeOK /\ LastItem /\ [Next]_vars => LastItem'
<1> USE CaptureAssumption DEF wire, stream, owner, hist, At, Goto, Return,
        StopState, Ended, StopRequested
<1> SUFFICES ASSUME TypeOK, LastItem, [Next]_vars
             PROVE  LastItem'
  OBVIOUS
<1> USE DEF LastItem
<1>1. ASSUME NEW s \in Session, Start(s)
      PROVE  LastItem'
  <2>1. CASE StartCapture(s)
    BY <2>1 DEF StartCapture, TypeOK
  <2>2. CASE StartStop(s)
    BY <2>2 DEF StartStop, StartWrite, WriteOk, WriteErr, TypeOK
  <2>3. CASE StartRun(s)
    BY <2>3 DEF StartRun, StartWrite, WriteOk, WriteErr, TypeOK
  <2>4. CASE StartSubmit(s)
    BY <2>4 DEF StartSubmit, TypeOK
  <2>5. CASE StartReturn(s)
    BY <2>5 DEF StartReturn, TypeOK
  <2>6. CASE StartFailed(s)
    BY <2>6 DEF StartFailed, TypeOK
  <2>7. QED
    BY <1>1, <2>1, <2>2, <2>3, <2>4, <2>5, <2>6 DEF Start
<1>2. ASSUME NEW s \in Session, NextCall(s)
      PROVE  LastItem'
  BY <1>2 DEF NextCall, TypeOK
<1>3. ASSUME NEW s \in Session, NextLoop(s)
      PROVE  LastItem'
  <2>1. CASE NextItem(s)
    <3>1. /\ late' = [late EXCEPT ![s] = IF flag[s] THEN @ + 1 ELSE @]
          /\ UNCHANGED flag /\ pc' = "idle"
      BY <2>1 DEF NextItem
    <3>2. late[s] = 0
      BY <2>1 DEF NextItem
    <3>3. /\ late'[s] \in 0..1 /\ (~flag[s] => late'[s] = 0)
          /\ \A x \in Session \ {s} : late'[x] = late[x]
      BY <3>1, <3>2 DEF TypeOK
    <3>4. ASSUME NEW x \in Session, pc = "next" /\ cur = x, x # s
          PROVE  FALSE
      BY <2>1, <3>4 DEF NextItem
    <3>5. QED
      BY <3>1, <3>2, <3>3, <3>4
  <2>2. CASE NextCompleted(s)
    BY <2>2 DEF NextCompleted, TypeOK
  <2>3. CASE NextSubmitFails(s)
    BY <2>3 DEF NextSubmitFails, Waiting, TypeOK
  <2>4. CASE NextEnd(s)
    BY <2>4 DEF NextEnd, EndStream, TypeOK
  <2>5. CASE NextTimeout(s)
    BY <2>5 DEF NextTimeout, TypeOK
  <2>6. CASE NextFails(s)
    BY <2>6 DEF NextFails, EndStream, TypeOK
  <2>7. QED
    BY <1>3, <2>1, <2>2, <2>3, <2>4, <2>5, <2>6 DEF NextLoop, NextTurn
<1>4. ASSUME NEW s \in Session, Stop(s)
      PROVE  LastItem'
  BY <1>4 DEF Stop, TypeOK
<1>5. ASSUME NEW s \in Session, Close(s)
      PROVE  LastItem'
  <2>1. CASE StopWrite(s)
    BY <2>1 DEF StopWrite, WriteOk, WriteErr, TypeOK
  <2>2. CASE CancelRead(s)
    BY <2>2 DEF CancelRead, TypeOK
  <2>3. CASE StopReturn(s)
    BY <2>3 DEF StopReturn, TypeOK
  <2>4. QED
    BY <1>5, <2>1, <2>2, <2>3 DEF Close
<1>6. ASSUME NEW c \in Caller, StopFnWrite(c)
      PROVE  LastItem'
  BY <1>6 DEF StopFnWrite, WriteOk, WriteErr, TypeOK
<1>7. ASSUME NEW c \in Caller, NEW s \in Session, StopFnCall(c, s)
      PROVE  LastItem'
  BY <1>7 DEF StopFnCall, TypeOK
<1>8. CASE Wire
  BY <1>8 DEF Wire, Complete, Break, TypeOK
<1>9. CASE UNCHANGED vars
  BY <1>9 DEF vars, TypeOK
<1>10. QED
  BY <1>1, <1>2, <1>3, <1>4, <1>5, <1>6, <1>7, <1>8, <1>9 DEF Next

(* The inductive invariant holds.                                           *)
LEMMA Invariance == Spec => []IInv
<1>1. Init => Control /\ Register /\ LastItem
  BY CaptureAssumption
     DEF Init, Control, Register, LastItem, DisableSticks, EnabledHasReason, At
<1>2. IInv /\ [Next]_vars => IInv'
  BY TypeInductive, ControlInductive, RegisterInductive, LastItemInductive
     DEF IInv
<1>3. Init => IInv
  BY <1>1, TypeInitially DEF IInv
<1>4. QED
  BY <1>2, <1>3, PTL DEF Spec

(* Once a write of a session's stop state returned Ok, from stop, drop or a *)
(* StopFn, the State register never holds that session's run state again.   *)
THEOREM DisableIsFinal == Spec => []DisableSticks
<1>1. IInv => DisableSticks
  BY DEF IInv, Register
<1>2. QED
  BY <1>1, Invariance, PTL

(* Whenever the analyzer captures for a session, that session's stream can  *)
(* still be stopped, or its start_capture failed, or its stop() has seen    *)
(* the register write fail.                                                 *)
THEOREM EnabledOnlyForReason == Spec => []EnabledHasReason
<1>1. IInv => EnabledHasReason
  BY DEF IInv, Register
<1>2. QED
  BY <1>1, Invariance, PTL

(* However a StopFn races with next, the stream returns at most one item    *)
(* after its stop flag was set.                                             *)
THEOREM OneItemAfterStop == Spec => []AtMostOneItemAfterStop
<1>1. IInv => AtMostOneItemAfterStop
  BY DEF IInv, LastItem, AtMostOneItemAfterStop
<1>2. QED
  BY <1>1, Invariance, PTL

-----------------------------------------------------------------------------
(* The ring of bulk reads: the deque of each stream agrees with the host   *)
(* controller's queue, for any number of streams open together and every   *)
(* length of the ring.                                                     *)

(* The parts of ReadsInCompletionOrder in a form that needs fewer          *)
(* witnesses, and what it takes to keep them: a deque lists no transfer    *)
(* twice, and those that still wait are behind those that do not.  They    *)
(* are about a queue e of the host controller, deques q and statuses st,   *)
(* so that an action can be taken in steps.                                *)
Pending(q, st, s, i) == st[s][q[s][i]] = "pending"

HeldOnce(e) == \A m, n \in 1..Len(e) : e[m] = e[n] => m = n

HeldIsPending(e, q, st) ==
    \A m \in 1..Len(e), s \in Session, t \in Transfer :
       e[m] = <<s, t>> => /\ st[s][t] = "pending"
                          /\ \E i \in 1..Len(q[s]) : q[s][i] = t

PendingIsHeld(e, q, st, s) ==
    \A i \in 1..Len(q[s]) :
       Pending(q, st, s, i) => \E m \in 1..Len(e) : e[m] = <<s, q[s][i]>>

InOrder(e, q, st, s) ==
    \A i, j \in 1..Len(q[s]) :
       i < j => /\ q[s][i] # q[s][j]
                /\ Pending(q, st, s, i) => Pending(q, st, s, j)
                /\ \A m, n \in 1..Len(e) :
                      e[m] = <<s, q[s][i]>> /\ e[n] = <<s, q[s][j]>> => m < n

Ring(e, q, st) ==
    /\ e \in Seq(Session \X Transfer)
    /\ q \in [Session -> Seq(Transfer)]
    /\ st \in [Session -> [Transfer -> Status]]
    /\ HeldOnce(e)
    /\ HeldIsPending(e, q, st)
    /\ \A s \in Session : PendingIsHeld(e, q, st, s) /\ InOrder(e, q, st, s)

(* The deque that start_capture fills lists its transfers in their order.  *)
Filling ==
    \A s \in Session : phase[s] \in {"unused", "starting"} =>
       \A i \in 1..Len(reads[s]) : reads[s][i] = i

RingInv == Ring(endpoint, reads, status) /\ Filling

LEMMA RingImpliesOrder == RingInv => ReadsInCompletionOrder
<1> SUFFICES ASSUME RingInv, NEW s \in Session
             PROVE
       LET Held(m, t) == m \in 1..Len(endpoint) /\ endpoint[m] = <<s, t>>
           Ds == 1..Len(reads[s])
       IN /\ \A i, j \in Ds :
                i < j /\ status[s][reads[s][i]] = "pending" =>
                   \E m, n \in 1..Len(endpoint) :
                      m < n /\ Held(m, reads[s][i]) /\ Held(n, reads[s][j])
          /\ \A i \in Ds : status[s][reads[s][i]] = "pending" =>
                \E m \in 1..Len(endpoint) : Held(m, reads[s][i])
          /\ \A m \in 1..Len(endpoint), t \in Transfer :
                Held(m, t) => /\ status[s][t] = "pending"
                              /\ \E i \in Ds : reads[s][i] = t
          /\ \A m, n \in 1..Len(endpoint), t \in Transfer :
                Held(m, t) /\ Held(n, t) => m = n
  BY DEF ReadsInCompletionOrder
<1>1. /\ \A i \in 1..Len(reads[s]) :
            Pending(reads, status, s, i) => \E m \in 1..Len(endpoint) : endpoint[m] = <<s, reads[s][i]>>
      /\ \A i, j \in 1..Len(reads[s]) :
            i < j => /\ Pending(reads, status, s, i) => Pending(reads, status, s, j)
                     /\ \A m, n \in 1..Len(endpoint) :
                           /\ endpoint[m] = <<s, reads[s][i]>>
                           /\ endpoint[n] = <<s, reads[s][j]>>
                           => m < n
  <2>1. PendingIsHeld(endpoint, reads, status, s) /\ InOrder(endpoint, reads, status, s)
    BY DEF RingInv, Ring
  <2>2. QED
    BY <2>1, Zenon DEF PendingIsHeld, InOrder
<1>2. ASSUME NEW i \in 1..Len(reads[s]), NEW j \in 1..Len(reads[s]), i < j, Pending(reads, status, s, i)
      PROVE  \E m, n \in 1..Len(endpoint) :
               /\ m < n /\ endpoint[m] = <<s, reads[s][i]>>
               /\ endpoint[n] = <<s, reads[s][j]>>
  <2>1. Pending(reads, status, s, j)
    BY <1>1, <1>2
  <2>2. PICK m \in 1..Len(endpoint) : endpoint[m] = <<s, reads[s][i]>>
    BY <1>1, <1>2
  <2>3. PICK n \in 1..Len(endpoint) : endpoint[n] = <<s, reads[s][j]>>
    BY <1>1, <2>1
  <2>4. m < n
    BY <1>1, <1>2, <2>2, <2>3
  <2>5. QED
    BY <2>2, <2>3, <2>4
<1>3. \A m \in 1..Len(endpoint), t \in Transfer :
         endpoint[m] = <<s, t>> => /\ status[s][t] = "pending"
                                   /\ \E i \in 1..Len(reads[s]) : reads[s][i] = t
  BY DEF RingInv, Ring, HeldIsPending
<1>4. \A m, n \in 1..Len(endpoint) : endpoint[m] = endpoint[n] => m = n
  BY DEF RingInv, Ring, HeldOnce
<1>5. \A i, j \in 1..Len(reads[s]) :
         i < j /\ Pending(reads, status, s, i) =>
            \E m, n \in 1..Len(endpoint) :
               m < n /\ endpoint[m] = <<s, reads[s][i]>> /\ endpoint[n] = <<s, reads[s][j]>>
  BY <1>2
<1>6. \A i \in 1..Len(reads[s]) :
         Pending(reads, status, s, i) => \E m \in 1..Len(endpoint) : endpoint[m] = <<s, reads[s][i]>>
  BY <1>1
<1> DEFINE Held(m, t) == m \in 1..Len(endpoint) /\ endpoint[m] = <<s, t>>
           Ds == 1..Len(reads[s])
<1>7. \A i, j \in Ds : i < j /\ status[s][reads[s][i]] = "pending" =>
         \E m, n \in 1..Len(endpoint) :
            m < n /\ Held(m, reads[s][i]) /\ Held(n, reads[s][j])
  <2> SUFFICES ASSUME NEW i \in Ds, NEW j \in Ds, i < j,
                      status[s][reads[s][i]] = "pending"
               PROVE  \E m, n \in 1..Len(endpoint) :
                         m < n /\ Held(m, reads[s][i]) /\ Held(n, reads[s][j])
    OBVIOUS
  <2>1. PICK m \in 1..Len(endpoint), n \in 1..Len(endpoint) :
           m < n /\ endpoint[m] = <<s, reads[s][i]>> /\ endpoint[n] = <<s, reads[s][j]>>
    BY <1>5 DEF Pending
  <2>2. QED
    BY <2>1, Zenon
<1>8. \A i \in Ds : status[s][reads[s][i]] = "pending" =>
         \E m \in 1..Len(endpoint) : Held(m, reads[s][i])
  BY <1>6, Zenon DEF Pending
<1>9. \A m \in 1..Len(endpoint), t \in Transfer :
         Held(m, t) => /\ status[s][t] = "pending"
                       /\ \E i \in Ds : reads[s][i] = t
  BY <1>3, Zenon
<1>10. \A m, n \in 1..Len(endpoint), t \in Transfer :
          Held(m, t) /\ Held(n, t) => m = n
  BY <1>4
<1>11. QED
  BY <1>7, <1>8, <1>9, <1>10

-----------------------------------------------------------------------------
(* What happens to the queue and the deques, one thing at a time.          *)

(* r is q without its element k.                                           *)
Without(q, r, k) ==
    /\ Len(r) = Len(q) - 1
    /\ \A i \in 1..Len(r) : r[i] = IF i < k THEN q[i] ELSE q[i + 1]

LEMMA TailIsWithout ==
    ASSUME NEW S, NEW q \in Seq(S), q # <<>>
    PROVE  Tail(q) \in Seq(S) /\ Without(q, Tail(q), 1)
  BY HeadTailProperties DEF Without

LEMMA CutIsWithout ==
    ASSUME NEW S, NEW q \in Seq(S), NEW k \in 1..Len(q)
    PROVE  LET r == SubSeq(q, 1, k - 1) \o SubSeq(q, k + 1, Len(q))
           IN  r \in Seq(S) /\ Without(q, r, k)
<1> DEFINE a == SubSeq(q, 1, k - 1)
           b == SubSeq(q, k + 1, Len(q))
<1>1. Len(q) \in Nat /\ \A i \in 1..Len(q) : q[i] \in S
  BY LenProperties, ElementOfSeq
<1>2. a \in Seq(S) /\ Len(a) = k - 1 /\ \A i \in 1..k - 1 : a[i] = q[i]
  <2>1. 1 \in Int /\ k - 1 \in Int /\ \A i \in 1..k - 1 : q[i] \in S
    BY <1>1
  <2>2. QED
    BY <1>1, <2>1, SubSeqProperties
<1>3. b \in Seq(S) /\ Len(b) = Len(q) - k
      /\ \A i \in 1..Len(q) - k : b[i] = q[k + i]
  <2>1. k + 1 \in Int /\ Len(q) \in Int /\ \A i \in k + 1..Len(q) : q[i] \in S
    BY <1>1
  <2>2. QED
    BY <1>1, <2>1, SubSeqProperties
<1> HIDE DEF a, b
<1>4. a \o b \in Seq(S) /\ Len(a \o b) = Len(q) - 1
  <2>1. a \o b \in Seq(S) /\ Len(a \o b) = Len(a) + Len(b)
    BY <1>2, <1>3, ConcatProperties
  <2>2. Len(a) + Len(b) = Len(q) - 1
    BY <1>1, <1>2, <1>3
  <2>3. QED
    BY <2>1, <2>2
<1>5. ASSUME NEW i \in 1..Len(a \o b)
      PROVE  (a \o b)[i] = IF i < k THEN q[i] ELSE q[i + 1]
  <2>1. (a \o b)[i] = IF i <= Len(a) THEN a[i] ELSE b[i - Len(a)]
    BY <1>2, <1>3, ConcatProperties
  <2>2. CASE i < k
    BY <1>1, <1>2, <2>1, <2>2
  <2>3. CASE ~(i < k)
    <3>1. i - Len(a) \in 1..Len(q) - k /\ k + (i - Len(a)) = i + 1
      BY <1>1, <1>2, <1>4, <2>3
    <3>2. QED
      BY <1>1, <1>2, <1>3, <2>1, <2>3, <3>1
  <2>4. QED
    BY <2>2, <2>3
<1>6. QED
  BY <1>4, <1>5 DEF Without, a, b

(* A transfer that nobody holds changes its status.                        *)
LEMMA StatusKeeps ==
    ASSUME NEW e, NEW q, NEW st, Ring(e, q, st),
           NEW s \in Session, NEW t \in Transfer, NEW v \in Status \ {"pending"},
           st[s][t] # "pending"
    PROVE  Ring(e, q, [st EXCEPT ![s][t] = v])
<1> DEFINE st2 == [st EXCEPT ![s][t] = v]
<1>0. /\ e \in Seq(Session \X Transfer) /\ q \in [Session -> Seq(Transfer)]
      /\ st \in [Session -> [Transfer -> Status]]
      /\ HeldOnce(e) /\ HeldIsPending(e, q, st)
      /\ \A x \in Session : PendingIsHeld(e, q, st, x) /\ InOrder(e, q, st, x)
  BY DEF Ring
<1>1. st2 \in [Session -> [Transfer -> Status]]
  BY <1>0, EntryType
<1>2. \A x \in Session, y \in Transfer :
         st2[x][y] = "pending" <=> st[x][y] = "pending"
  BY <1>0
<1> HIDE DEF st2
<1>3. HeldIsPending(e, q, st2)
  <2> SUFFICES ASSUME NEW m \in 1..Len(e), NEW x \in Session, NEW y \in Transfer,
                      e[m] = <<x, y>>
               PROVE  /\ st2[x][y] = "pending"
                      /\ \E i \in 1..Len(q[x]) : q[x][i] = y
    BY DEF HeldIsPending
  <2>1. st[x][y] = "pending" /\ \E i \in 1..Len(q[x]) : q[x][i] = y
    BY <1>0 DEF HeldIsPending
  <2>2. QED
    BY <1>2, <2>1
<1>4. ASSUME NEW x \in Session
      PROVE  PendingIsHeld(e, q, st2, x) /\ InOrder(e, q, st2, x)
  <2>1. \A i \in 1..Len(q[x]) : q[x][i] \in Transfer
    BY <1>0, ElementOfSeq
  <2>2. \A i \in 1..Len(q[x]) : Pending(q, st2, x, i) <=> Pending(q, st, x, i)
    BY <1>2, <2>1 DEF Pending
  <2>3. PendingIsHeld(e, q, st2, x)
    BY <1>0, <2>2 DEF PendingIsHeld
  <2>4. InOrder(e, q, st2, x)
    BY <1>0, <2>2 DEF InOrder
  <2>5. QED
    BY <2>3, <2>4
<1>5. QED
  BY <1>0, <1>1, <1>3, <1>4 DEF Ring, st2

(* The front of a deque, not waiting any more, leaves it.                  *)
LEMMA FrontLeaves ==
    ASSUME NEW e, NEW q, NEW st, Ring(e, q, st), NEW s \in Session,
           q[s] # <<>>, st[s][Head(q[s])] # "pending"
    PROVE  /\ Ring(e, [q EXCEPT ![s] = Tail(@)], st)
           /\ \A i \in 1..Len(Tail(q[s])) : Tail(q[s])[i] # Head(q[s])
<1> DEFINE r  == Tail(q[s])
           q2 == [q EXCEPT ![s] = r]
<1>0. /\ e \in Seq(Session \X Transfer) /\ q \in [Session -> Seq(Transfer)]
      /\ st \in [Session -> [Transfer -> Status]]
      /\ HeldOnce(e) /\ HeldIsPending(e, q, st)
      /\ \A x \in Session : PendingIsHeld(e, q, st, x) /\ InOrder(e, q, st, x)
  BY DEF Ring
<1>1. r \in Seq(Transfer) /\ Without(q[s], r, 1) /\ Head(q[s]) = q[s][1]
      /\ Len(q[s]) \in Nat \ {0}
  BY <1>0, TailIsWithout, HeadTailProperties, LenProperties, EmptySeq
<1>2. /\ Len(r) = Len(q[s]) - 1 /\ Len(r) \in Nat
      /\ \A i \in 1..Len(r) : r[i] = q[s][i + 1] /\ i + 1 \in 1..Len(q[s])
  BY <1>1 DEF Without
<1>3. \A i \in 1..Len(r) : r[i] # Head(q[s])
  <2>1. ASSUME NEW i \in 1..Len(q[s]), 1 < i
        PROVE  q[s][1] # q[s][i]
    <3>1. InOrder(e, q, st, s) /\ 1 \in 1..Len(q[s])
      BY <1>0, <1>1
    <3>2. QED
      BY <2>1, <3>1 DEF InOrder
  <2>2. QED
    BY <1>1, <1>2, <2>1
<1>4. q2 \in [Session -> Seq(Transfer)] /\ q2[s] = r
      /\ \A x \in Session \ {s} : q2[x] = q[x]
  BY <1>0, <1>1
<1> HIDE DEF r, q2
<1>5. HeldIsPending(e, q2, st)
  <2> SUFFICES ASSUME NEW m \in 1..Len(e), NEW x \in Session, NEW t \in Transfer,
                      e[m] = <<x, t>>
               PROVE  st[x][t] = "pending" /\ \E i \in 1..Len(q2[x]) : q2[x][i] = t
    BY DEF HeldIsPending
  <2>1. st[x][t] = "pending"
    BY <1>0 DEF HeldIsPending
  <2>2. PICK i \in 1..Len(q[x]) : q[x][i] = t
    BY <1>0 DEF HeldIsPending
  <2>3. CASE x = s
    <3>1. i # 1
      BY <1>1, <2>1, <2>2, <2>3
    <3>2. i - 1 \in 1..Len(r) /\ r[i - 1] = t
      BY <1>1, <1>2, <2>2, <2>3, <3>1
    <3>3. QED
      BY <1>4, <2>1, <2>3, <3>2
  <2>4. QED
    BY <1>4, <2>1, <2>2, <2>3
<1>6. PendingIsHeld(e, q2, st, s)
  <2> SUFFICES ASSUME NEW i \in 1..Len(q2[s]), Pending(q2, st, s, i)
               PROVE  \E m \in 1..Len(e) : e[m] = <<s, q2[s][i]>>
    BY DEF PendingIsHeld
  <2>1. i + 1 \in 1..Len(q[s]) /\ q2[s][i] = q[s][i + 1]
    BY <1>2, <1>4
  <2>2. PendingIsHeld(e, q, st, s) /\ Pending(q, st, s, i + 1)
    BY <1>0, <2>1 DEF Pending
  <2>3. \E m \in 1..Len(e) : e[m] = <<s, q[s][i + 1]>>
    BY <2>1, <2>2 DEF PendingIsHeld
  <2>4. QED
    BY <2>1, <2>3
<1>7. InOrder(e, q2, st, s)
  <2> SUFFICES ASSUME NEW i \in 1..Len(q2[s]), NEW j \in 1..Len(q2[s]), i < j
               PROVE  /\ q2[s][i] # q2[s][j]
                      /\ Pending(q2, st, s, i) => Pending(q2, st, s, j)
                      /\ \A m, n \in 1..Len(e) :
                            e[m] = <<s, q2[s][i]>> /\ e[n] = <<s, q2[s][j]>> => m < n
    BY Zenon DEF InOrder
  <2>0. /\ i \in 1..Len(r) /\ j \in 1..Len(r)
        /\ q2[s][i] = r[i] /\ q2[s][j] = r[j]
    BY <1>4
  <2>1. /\ i + 1 \in 1..Len(q[s]) /\ j + 1 \in 1..Len(q[s]) /\ i + 1 < j + 1
        /\ r[i] = q[s][i + 1] /\ r[j] = q[s][j + 1]
    BY <1>2, <2>0
  <2>2. InOrder(e, q, st, s)
    BY <1>0
  <2> DEFINE a == i + 1
             b == j + 1
  <2>3. /\ q[s][a] # q[s][b]
        /\ Pending(q, st, s, a) => Pending(q, st, s, b)
        /\ \A m, n \in 1..Len(e) :
              e[m] = <<s, q[s][a]>> /\ e[n] = <<s, q[s][b]>> => m < n
    <3>1. a \in 1..Len(q[s]) /\ b \in 1..Len(q[s]) /\ a < b
      BY <2>1
    <3> HIDE DEF a, b
    <3>2. QED
      BY <2>2, <3>1 DEF InOrder
  <2>4. q2[s][i] = q[s][a] /\ q2[s][j] = q[s][b]
    BY <2>0, <2>1
  <2>5. QED
    BY <2>3, <2>4 DEF Pending
<1>8. \A x \in Session \ {s} : PendingIsHeld(e, q2, st, x) /\ InOrder(e, q2, st, x)
  <2> SUFFICES ASSUME NEW x \in Session \ {s}
               PROVE  PendingIsHeld(e, q2, st, x) /\ InOrder(e, q2, st, x)
    OBVIOUS
  <2>1. q2[x] = q[x] /\ \A i : Pending(q2, st, x, i) = Pending(q, st, x, i)
    BY <1>4 DEF Pending
  <2>2. PendingIsHeld(e, q2, st, x)
    BY <1>0, <2>1 DEF PendingIsHeld
  <2>3. InOrder(e, q2, st, x)
    <3>1. InOrder(e, q, st, x)
      BY <1>0
    <3>2. QED
      BY <2>1, <3>1, Zenon DEF InOrder
  <2>4. QED
    BY <2>2, <2>3
<1>9. QED
  BY <1>0, <1>3, <1>4, <1>5, <1>6, <1>7, <1>8 DEF Ring, r, q2

(* A transfer that its deque does not list is submitted and put at the     *)
(* back of both.                                                           *)
LEMMA SubmitKeeps ==
    ASSUME NEW e, NEW q, NEW st, Ring(e, q, st),
           NEW s \in Session, NEW t \in Transfer,
           \A i \in 1..Len(q[s]) : q[s][i] # t
    PROVE  Ring(Append(e, <<s, t>>), [q EXCEPT ![s] = Append(@, t)],
                [st EXCEPT ![s][t] = "pending"])
<1> DEFINE e2  == Append(e, <<s, t>>)
           r   == Append(q[s], t)
           q2  == [q EXCEPT ![s] = r]
           st2 == [st EXCEPT ![s][t] = "pending"]
<1>0. /\ e \in Seq(Session \X Transfer) /\ q \in [Session -> Seq(Transfer)]
      /\ st \in [Session -> [Transfer -> Status]]
      /\ HeldOnce(e) /\ HeldIsPending(e, q, st)
      /\ \A x \in Session : PendingIsHeld(e, q, st, x) /\ InOrder(e, q, st, x)
  BY DEF Ring
<1>1. /\ e2 \in Seq(Session \X Transfer) /\ Len(e) \in Nat /\ Len(e2) = Len(e) + 1
      /\ \A m \in 1..Len(e) : e2[m] = e[m]
      /\ e2[Len(e) + 1] = <<s, t>>
  BY <1>0, AppendProperties, LenProperties
<1>2. /\ r \in Seq(Transfer) /\ Len(q[s]) \in Nat /\ Len(r) = Len(q[s]) + 1
      /\ \A i \in 1..Len(q[s]) : r[i] = q[s][i]
      /\ r[Len(q[s]) + 1] = t
  BY <1>0, AppendProperties, LenProperties
<1>3. q2 \in [Session -> Seq(Transfer)] /\ q2[s] = r
      /\ \A x \in Session \ {s} : q2[x] = q[x]
  BY <1>0, <1>2
<1>4. st2 \in [Session -> [Transfer -> Status]]
  <2>1. "pending" \in Status
    BY DEF Status
  <2>2. QED
    BY <1>0, <2>1, EntryType
<1>5. /\ st2[s][t] = "pending"
      /\ \A x \in Session, y \in Transfer : <<x, y>> # <<s, t>> => st2[x][y] = st[x][y]
  BY <1>0
<1>6. ASSUME NEW m \in 1..Len(e), e[m] = <<s, t>>
      PROVE  FALSE
  <2>1. \E i \in 1..Len(q[s]) : q[s][i] = t
    BY <1>0, <1>6 DEF HeldIsPending
  <2>2. QED
    BY <2>1
<1> HIDE DEF e2, r, q2, st2
<1>7. HeldOnce(e2)
  <2> SUFFICES ASSUME NEW m \in 1..Len(e2), NEW n \in 1..Len(e2), e2[m] = e2[n]
               PROVE  m = n
    BY DEF HeldOnce
  <2>1. CASE m \in 1..Len(e) /\ n \in 1..Len(e)
    <3>1. e[m] = e[n]
      BY <1>1, <2>1
    <3>2. QED
      BY <1>0, <2>1, <3>1 DEF HeldOnce
  <2>2. CASE m = Len(e) + 1 /\ n \in 1..Len(e)
    BY <1>1, <1>6, <2>2
  <2>3. CASE m \in 1..Len(e) /\ n = Len(e) + 1
    BY <1>1, <1>6, <2>3
  <2>4. QED
    BY <1>1, <2>1, <2>2, <2>3
<1>8. HeldIsPending(e2, q2, st2)
  <2> SUFFICES ASSUME NEW m \in 1..Len(e2), NEW x \in Session, NEW y \in Transfer,
                      e2[m] = <<x, y>>
               PROVE  st2[x][y] = "pending" /\ \E i \in 1..Len(q2[x]) : q2[x][i] = y
    BY DEF HeldIsPending
  <2>1. CASE m = Len(e) + 1
    <3>1. x = s /\ y = t
      BY <1>1, <2>1
    <3>2. Len(r) \in 1..Len(r)
      BY <1>2
    <3>3. QED
      BY <1>2, <1>3, <1>5, <3>1, <3>2
  <2>2. CASE m \in 1..Len(e)
    <3>1. e[m] = <<x, y>> /\ <<x, y>> # <<s, t>>
      BY <1>1, <1>6, <2>2
    <3>2. st2[x][y] = "pending"
      BY <1>0, <1>5, <2>2, <3>1 DEF HeldIsPending
    <3>3. PICK i \in 1..Len(q[x]) : q[x][i] = y
      BY <1>0, <2>2, <3>1 DEF HeldIsPending
    <3>4. CASE x = s
      <4>1. i \in 1..Len(r) /\ r[i] = y
        BY <1>2, <3>3, <3>4
      <4>2. QED
        BY <1>3, <3>2, <3>4, <4>1
    <3>5. CASE x # s
      BY <1>3, <3>2, <3>3, <3>5
    <3>6. QED
      BY <3>4, <3>5
  <2>3. QED
    BY <1>1, <2>1, <2>2
<1>9. ASSUME NEW x \in Session \ {s}
      PROVE  PendingIsHeld(e2, q2, st2, x) /\ InOrder(e2, q2, st2, x)
  <2>1. q2[x] = q[x] /\ \A i \in 1..Len(q[x]) : q[x][i] \in Transfer
    BY <1>0, <1>3, ElementOfSeq
  <2>2. \A i \in 1..Len(q[x]) : Pending(q2, st2, x, i) <=> Pending(q, st, x, i)
    BY <1>5, <2>1 DEF Pending
  <2>3. \A m \in 1..Len(e2), i \in 1..Len(q[x]) :
           e2[m] = <<x, q[x][i]>> => m \in 1..Len(e) /\ e[m] = <<x, q[x][i]>>
    BY <1>1
  <2>4. PendingIsHeld(e, q, st, x) /\ InOrder(e, q, st, x)
    BY <1>0
  <2>5. PendingIsHeld(e2, q2, st2, x)
    <3> SUFFICES ASSUME NEW i \in 1..Len(q[x]), Pending(q2, st2, x, i)
                 PROVE  \E m \in 1..Len(e2) : e2[m] = <<x, q[x][i]>>
      BY <2>1 DEF PendingIsHeld
    <3>1. PICK m \in 1..Len(e) : e[m] = <<x, q[x][i]>>
      BY <2>2, <2>4 DEF PendingIsHeld
    <3>2. m \in 1..Len(e2) /\ e2[m] = <<x, q[x][i]>>
      BY <1>1, <3>1
    <3>3. QED
      BY <3>2
  <2>6. InOrder(e2, q2, st2, x)
    <3> SUFFICES ASSUME NEW i \in 1..Len(q[x]), NEW j \in 1..Len(q[x]), i < j
                 PROVE  /\ q[x][i] # q[x][j]
                        /\ Pending(q2, st2, x, i) => Pending(q2, st2, x, j)
                        /\ \A m, n \in 1..Len(e2) :
                              /\ e2[m] = <<x, q[x][i]>>
                              /\ e2[n] = <<x, q[x][j]>>
                              => m < n
      BY <2>1 DEF InOrder
    <3>1. /\ q[x][i] # q[x][j]
          /\ Pending(q, st, x, i) => Pending(q, st, x, j)
          /\ \A m, n \in 1..Len(e) :
                e[m] = <<x, q[x][i]>> /\ e[n] = <<x, q[x][j]>> => m < n
      BY <2>4 DEF InOrder
    <3>2. Pending(q2, st2, x, i) => Pending(q2, st2, x, j)
      BY <2>2, <3>1
    <3>3. \A m, n \in 1..Len(e2) :
             e2[m] = <<x, q[x][i]>> /\ e2[n] = <<x, q[x][j]>> => m < n
      BY <2>3, <3>1
    <3>4. QED
      BY <3>1, <3>2, <3>3
  <2>7. QED
    BY <2>5, <2>6
<1>10. PendingIsHeld(e, q, st, s) /\ InOrder(e, q, st, s)
  BY <1>0
<1>11. \A i \in 1..Len(q[s]) : /\ r[i] = q[s][i] /\ q[s][i] \in Transfer /\ q[s][i] # t
                                /\ st2[s][r[i]] = st[s][q[s][i]]
  <2>1. \A i \in 1..Len(q[s]) : q[s][i] \in Transfer
    BY <1>0, ElementOfSeq
  <2>2. QED
    BY <1>2, <1>5, <2>1
<1>12. PendingIsHeld(e2, q2, st2, s)
  <2> SUFFICES ASSUME NEW i \in 1..Len(r), st2[s][r[i]] = "pending"
               PROVE  \E m \in 1..Len(e2) : e2[m] = <<s, r[i]>>
    BY <1>3 DEF PendingIsHeld, Pending
  <2>1. CASE i \in 1..Len(q[s])
    <3>1. r[i] = q[s][i] /\ Pending(q, st, s, i)
      BY <1>11, <2>1 DEF Pending
    <3>2. PICK m \in 1..Len(e) : e[m] = <<s, q[s][i]>>
      BY <1>10, <2>1, <3>1 DEF PendingIsHeld
    <3>3. m \in 1..Len(e2) /\ e2[m] = <<s, r[i]>>
      BY <1>1, <3>1, <3>2
    <3>4. QED
      BY <3>3
  <2>2. CASE i = Len(q[s]) + 1
    BY <1>1, <1>2, <2>2
  <2>3. QED
    BY <1>2, <2>1, <2>2
<1>13. InOrder(e2, q2, st2, s)
  <2> SUFFICES ASSUME NEW i \in 1..Len(q2[s]), NEW j \in 1..Len(q2[s]), i < j
               PROVE  /\ q2[s][i] # q2[s][j]
                      /\ Pending(q2, st2, s, i) => Pending(q2, st2, s, j)
                      /\ \A m, n \in 1..Len(e2) :
                            e2[m] = <<s, q2[s][i]>> /\ e2[n] = <<s, q2[s][j]>> => m < n
    BY Zenon DEF InOrder
  <2>0. /\ i \in 1..Len(r) /\ j \in 1..Len(r)
        /\ q2[s][i] = r[i] /\ q2[s][j] = r[j]
    BY <1>3
  <2>1. i \in 1..Len(q[s])
    BY <1>2, <2>0
  <2>2. \A m \in 1..Len(e2) : e2[m] = <<s, r[i]>> => m \in 1..Len(e)
    BY <1>1, <1>11, <2>1
  <2> DEFINE Kept == /\ r[i] # r[j]
                     /\ st2[s][r[i]] = "pending" => st2[s][r[j]] = "pending"
                     /\ \A m, n \in 1..Len(e2) :
                           e2[m] = <<s, r[i]>> /\ e2[n] = <<s, r[j]>> => m < n
  <2>3. ASSUME j = Len(q[s]) + 1
        PROVE  Kept
    <3>1. r[j] = t /\ \A n \in 1..Len(e2) : e2[n] = <<s, t>> => n = Len(e) + 1
      <4>1. r[j] = t
        BY <1>2, <2>3
      <4>2. ASSUME NEW n \in 1..Len(e2), e2[n] = <<s, t>>, n # Len(e) + 1
            PROVE  FALSE
        <5>1. n \in 1..Len(e)
          BY <1>1, <4>2
        <5>2. QED
          BY <1>1, <1>6, <4>2, <5>1
      <4>3. QED
        BY <4>1, <4>2
    <3>2. r[i] # r[j] /\ st2[s][r[j]] = "pending"
      BY <1>5, <1>11, <2>1, <3>1
    <3>3. ASSUME NEW m \in 1..Len(e2), NEW n \in 1..Len(e2),
                 e2[m] = <<s, r[i]>>, e2[n] = <<s, r[j]>>
          PROVE  m < n
      <4>1. m \in 1..Len(e)
        BY <2>2, <3>3
      <4>2. n = Len(e) + 1
        BY <3>1, <3>3
      <4>3. QED
        BY <1>1, <4>1, <4>2
    <3>4. QED
      BY <3>2, <3>3
  <2>4. ASSUME j \in 1..Len(q[s])
        PROVE  Kept
    <3>1. /\ q[s][i] # q[s][j]
          /\ Pending(q, st, s, i) => Pending(q, st, s, j)
          /\ \A m, n \in 1..Len(e) :
                e[m] = <<s, q[s][i]>> /\ e[n] = <<s, q[s][j]>> => m < n
      BY <1>10, <2>1, <2>4 DEF InOrder
    <3>2. \A n \in 1..Len(e2) : e2[n] = <<s, r[j]>> => n \in 1..Len(e)
      BY <1>1, <1>11, <2>4
    <3>3. r[i] # r[j] /\ (st2[s][r[i]] = "pending" => st2[s][r[j]] = "pending")
      BY <1>11, <2>1, <2>4, <3>1 DEF Pending
    <3>4. ASSUME NEW m \in 1..Len(e2), NEW n \in 1..Len(e2),
                 e2[m] = <<s, r[i]>>, e2[n] = <<s, r[j]>>
          PROVE  m < n
      <4>1. m \in 1..Len(e) /\ n \in 1..Len(e)
        BY <2>2, <3>2, <3>4
      <4>2. e[m] = <<s, q[s][i]>> /\ e[n] = <<s, q[s][j]>>
        BY <1>1, <1>11, <2>1, <2>4, <3>4, <4>1
      <4>3. QED
        BY <3>1, <4>1, <4>2
    <3>5. QED
      BY <3>3, <3>4
  <2>5. j \in 1..Len(q[s]) \/ j = Len(q[s]) + 1
    BY <1>2, <2>0
  <2>6. Kept
    BY <2>3, <2>4, <2>5
  <2>7. QED
    BY <2>0, <2>6 DEF Pending
<1>14. QED
  BY <1>1, <1>3, <1>4, <1>7, <1>8, <1>9, <1>12, <1>13 DEF Ring, e2, r, q2, st2

(* The host controller lets a read go, the oldest of all or one at the     *)
(* front of its deque; it does not wait any more.                          *)
LEMMA ReleaseKeeps ==
    ASSUME NEW e, NEW q, NEW st, Ring(e, q, st),
           NEW s \in Session, NEW t \in Transfer, NEW v \in Status \ {"pending"},
           NEW k \in 1..Len(e), e[k] = <<s, t>>,
           k = 1 \/ (q[s] # <<>> /\ t = Head(q[s])),
           NEW e2 \in Seq(Session \X Transfer), Without(e, e2, k)
    PROVE  Ring(e2, q, [st EXCEPT ![s][t] = v])
<1> DEFINE st2  == [st EXCEPT ![s][t] = v]
           Old(m) == IF m < k THEN m ELSE m + 1
<1>0. /\ e \in Seq(Session \X Transfer) /\ q \in [Session -> Seq(Transfer)]
      /\ st \in [Session -> [Transfer -> Status]]
      /\ HeldOnce(e) /\ HeldIsPending(e, q, st)
      /\ \A x \in Session : PendingIsHeld(e, q, st, x) /\ InOrder(e, q, st, x)
  BY DEF Ring
<1>1. Len(e) \in Nat \ {0} /\ Len(e2) = Len(e) - 1
  BY <1>0, LenProperties DEF Without
<1>2. ASSUME NEW m \in 1..Len(e2)
      PROVE  Old(m) \in 1..Len(e) \ {k} /\ e2[m] = e[Old(m)]
  BY <1>1, <1>2 DEF Without
<1>3. ASSUME NEW m \in 1..Len(e2), NEW n \in 1..Len(e2)
      PROVE  /\ Old(m) < Old(n) => m < n
             /\ Old(m) = Old(n) => m = n
  BY <1>1, <1>3
<1>4. ASSUME NEW n \in 1..Len(e), n # k
      PROVE  \E m \in 1..Len(e2) : Old(m) = n
  <2>1. CASE n < k
    <3>1. n \in 1..Len(e2) /\ Old(n) = n
      BY <1>1, <1>4, <2>1
    <3>2. QED
      BY <3>1
  <2>2. CASE n > k
    <3>1. n - 1 \in 1..Len(e2) /\ Old(n - 1) = n
      BY <1>1, <1>4, <2>2
    <3>2. QED
      BY <3>1
  <2>3. n < k \/ n > k
    BY <1>1, <1>4
  <2>4. QED
    BY <2>1, <2>2, <2>3
<1>5. st2 \in [Session -> [Transfer -> Status]]
  BY <1>0, EntryType
<1>6. /\ st2[s][t] # "pending"
      /\ \A x \in Session, y \in Transfer : <<x, y>> # <<s, t>> => st2[x][y] = st[x][y]
  BY <1>0
<1> HIDE DEF st2, Old
<1>7. HeldOnce(e2)
  <2> SUFFICES ASSUME NEW m \in 1..Len(e2), NEW n \in 1..Len(e2), e2[m] = e2[n]
               PROVE  m = n
    BY DEF HeldOnce
  <2>1. Old(m) \in 1..Len(e) /\ Old(n) \in 1..Len(e) /\ e[Old(m)] = e[Old(n)]
    BY <1>2
  <2>2. Old(m) = Old(n)
    BY <1>0, <2>1 DEF HeldOnce
  <2>3. QED
    BY <1>3, <2>2
<1>8. ASSUME NEW m \in 1..Len(e2), e2[m] = <<s, t>>
      PROVE  FALSE
  <2>1. Old(m) \in 1..Len(e) /\ Old(m) # k /\ e[Old(m)] = e[k]
    BY <1>2, <1>8
  <2>2. QED
    BY <1>0, <2>1 DEF HeldOnce
<1>9. HeldIsPending(e2, q, st2)
  <2> SUFFICES ASSUME NEW m \in 1..Len(e2), NEW x \in Session, NEW y \in Transfer,
                      e2[m] = <<x, y>>
               PROVE  st2[x][y] = "pending" /\ \E i \in 1..Len(q[x]) : q[x][i] = y
    BY DEF HeldIsPending
  <2>1. Old(m) \in 1..Len(e) /\ e[Old(m)] = <<x, y>> /\ <<x, y>> # <<s, t>>
    BY <1>2, <1>8
  <2>2. st[x][y] = "pending" /\ \E i \in 1..Len(q[x]) : q[x][i] = y
    <3>1. HeldIsPending(e, q, st)
      BY <1>0
    <3>2. PICK n \in 1..Len(e) : e[n] = <<x, y>>
      BY <2>1
    <3>3. QED
      BY <3>1, <3>2, Zenon DEF HeldIsPending
  <2>3. QED
    BY <1>6, <2>1, <2>2
<1>10. ASSUME NEW x \in Session
       PROVE  PendingIsHeld(e2, q, st2, x)
  <2> SUFFICES ASSUME NEW i \in 1..Len(q[x]), st2[x][q[x][i]] = "pending"
               PROVE  \E m \in 1..Len(e2) : e2[m] = <<x, q[x][i]>>
    BY DEF PendingIsHeld, Pending
  <2>1. q[x][i] \in Transfer
    BY <1>0, ElementOfSeq
  <2>2. <<x, q[x][i]>> # <<s, t>> /\ st[x][q[x][i]] = "pending"
    BY <1>6, <2>1
  <2>3. PICK n \in 1..Len(e) : e[n] = <<x, q[x][i]>>
    BY <1>0, <2>2 DEF PendingIsHeld, Pending
  <2>4. PICK m \in 1..Len(e2) : Old(m) = n
    BY <1>4, <2>2, <2>3
  <2>5. QED
    BY <1>2, <2>3, <2>4
<1>11. ASSUME NEW x \in Session
       PROVE  InOrder(e2, q, st2, x)
  <2> SUFFICES ASSUME NEW i \in 1..Len(q[x]), NEW j \in 1..Len(q[x]), i < j
               PROVE  /\ q[x][i] # q[x][j]
                      /\ st2[x][q[x][i]] = "pending" => st2[x][q[x][j]] = "pending"
                      /\ \A m, n \in 1..Len(e2) :
                            e2[m] = <<x, q[x][i]>> /\ e2[n] = <<x, q[x][j]>> => m < n
    BY DEF InOrder, Pending
  <2>1. InOrder(e, q, st, x) /\ PendingIsHeld(e, q, st, x)
    BY <1>0
  <2>2. q[x][i] \in Transfer /\ q[x][j] \in Transfer
    BY <1>0, ElementOfSeq
  <2>3. /\ q[x][i] # q[x][j]
        /\ Pending(q, st, x, i) => Pending(q, st, x, j)
        /\ \A m, n \in 1..Len(e) :
              e[m] = <<x, q[x][i]>> /\ e[n] = <<x, q[x][j]>> => m < n
    BY <2>1 DEF InOrder
  <2>4. ASSUME NEW m \in 1..Len(e2), NEW n \in 1..Len(e2),
               e2[m] = <<x, q[x][i]>>, e2[n] = <<x, q[x][j]>>
        PROVE  m < n
    <3>1. /\ Old(m) \in 1..Len(e) /\ e[Old(m)] = <<x, q[x][i]>>
          /\ Old(n) \in 1..Len(e) /\ e[Old(n)] = <<x, q[x][j]>>
      BY <1>2, <2>4
    <3>2. Old(m) < Old(n)
      BY <2>3, <3>1
    <3>3. QED
      BY <1>3, <3>2
  <2>5. ASSUME st2[x][q[x][i]] = "pending", <<x, q[x][j]>> = <<s, t>>
        PROVE  FALSE
    <3>1. Pending(q, st, x, i)
      BY <1>6, <2>2, <2>5 DEF Pending
    <3>2. PICK m \in 1..Len(e) : e[m] = <<x, q[x][i]>>
      BY <2>1, <3>1 DEF PendingIsHeld
    <3>3. m < k
      BY <2>3, <2>5, <3>2
    <3>4. t = Head(q[s]) /\ q[s] # <<>>
      BY <3>3
    <3>5. q[x][1] = q[x][j] /\ 1 < j /\ 1 \in 1..Len(q[x])
      BY <1>0, <2>5, <3>4, LenProperties
    <3>6. QED
      BY <2>1, <3>5 DEF InOrder
  <2>6. QED
    <3>1. CASE st2[x][q[x][i]] # "pending"
      BY <2>3, <2>4, <3>1
    <3>2. CASE st2[x][q[x][i]] = "pending"
      <4>1. st[x][q[x][i]] = "pending"
        BY <1>6, <2>2, <3>2
      <4>2. st2[x][q[x][j]] = "pending"
        BY <1>6, <2>2, <2>3, <2>5, <3>2, <4>1 DEF Pending
      <4>3. QED
        BY <2>3, <2>4, <4>2
    <3>3. QED
      BY <3>1, <3>2
<1>12. QED
  BY <1>0, <1>5, <1>7, <1>9, <1>10, <1>11 DEF Ring, st2
-----------------------------------------------------------------------------
(* Only start_capture fills a deque, and only until it returns.            *)
LEMMA FillingInductive ==
    TypeOK /\ Control /\ Filling /\ [Next]_vars => Filling'
<1> USE DEF wire, stream, owner, hist, At, Goto, Return, Filling
<1> SUFFICES ASSUME TypeOK, Control, Filling, [Next]_vars
             PROVE  Filling'
  OBVIOUS
<1>1. ASSUME NEW s \in Session, Start(s)
      PROVE  Filling'
  <2>1. CASE StartCapture(s)
    BY <2>1 DEF StartCapture, TypeOK
  <2>2. CASE StartStop(s) \/ StartRun(s)
    BY <2>2 DEF StartStop, StartRun, StartWrite, TypeOK
  <2>3. CASE StartSubmit(s)
    <3>1. CASE UNCHANGED reads
      BY <2>3, <3>1 DEF StartSubmit, TypeOK
    <3>2. CASE reads' = [reads EXCEPT ![s] = Append(@, Len(reads[s]) + 1)]
               /\ UNCHANGED phase
      <4> DEFINE t == Len(reads[s]) + 1
      <4>1. reads[s] \in Seq(Transfer) /\ t \in Transfer
        <5>1. reads[s] \in Seq(Transfer) /\ Len(reads[s]) \in Nat
          BY DEF TypeOK
        <5>2. Len(reads[s]) < READ_QUEUE
          BY <2>3 DEF StartSubmit, MoreReads
        <5>3. QED
          BY <5>1, <5>2, CaptureAssumption DEF Transfer
      <4>2. /\ Len(reads[s]) \in Nat /\ Len(Append(reads[s], t)) = Len(reads[s]) + 1
            /\ \A i \in 1..Len(reads[s]) : Append(reads[s], t)[i] = reads[s][i]
            /\ Append(reads[s], t)[Len(reads[s]) + 1] = t
        BY <4>1, AppendProperties, LenProperties
      <4>3. phase[s] = "starting"
        BY <2>3 DEF StartSubmit, Control
      <4>4. \A i \in 1..Len(Append(reads[s], t)) : Append(reads[s], t)[i] = i
        BY <4>2, <4>3
      <4>5. reads'[s] = Append(reads[s], t) /\ \A x \in Session \ {s} : reads'[x] = reads[x]
        BY <3>2 DEF TypeOK
      <4>6. QED
        BY <3>2, <4>4, <4>5
    <3>3. QED
      BY <2>3, <3>1, <3>2 DEF StartSubmit
  <2>4. CASE StartReturn(s) \/ StartFailed(s)
    BY <2>4 DEF StartReturn, StartFailed, TypeOK
  <2>5. QED
    BY <1>1, <2>1, <2>2, <2>3, <2>4 DEF Start
<1>2. ASSUME NEW s \in Session, NextCall(s) \/ NextLoop(s)
      PROVE  Filling'
  <2>1. CASE NextCompleted(s)
    <3>1. phase[s] = "open" /\ UNCHANGED phase
      BY <2>1 DEF NextCompleted, Waiting, Control
    <3>2. \A x \in Session \ {s} : reads'[x] = reads[x]
      BY <2>1 DEF NextCompleted, TypeOK
    <3>3. QED
      BY <3>1, <3>2
  <2>2. CASE UNCHANGED <<phase, reads>>
    BY <2>2
  <2>3. QED
    BY <1>2, <2>1, <2>2 DEF NextCall, NextLoop, NextTurn, NextItem, NextSubmitFails,
       NextEnd, NextFails, EndStream, NextTimeout
<1>3. ASSUME NEW s \in Session, Stop(s)
      PROVE  Filling'
  BY <1>3 DEF Stop, TypeOK
<1>4. ASSUME NEW s \in Session, Close(s)
      PROVE  Filling'
  <2>1. CASE StopWrite(s)
    BY <2>1 DEF StopWrite
  <2>2. CASE CancelRead(s)
    <3>1. phase[s] \in {"closing", "failed"} /\ UNCHANGED phase
      BY <2>2 DEF CancelRead, Control
    <3>2. \A x \in Session \ {s} : reads'[x] = reads[x]
      BY <2>2 DEF CancelRead, TypeOK
    <3>3. QED
      BY <3>1, <3>2
  <2>3. CASE StopReturn(s)
    BY <2>3 DEF StopReturn, TypeOK
  <2>4. QED
    BY <1>4, <2>1, <2>2, <2>3 DEF Close
<1>5. ASSUME NEW c \in Caller, StopFnWrite(c) \/ \E s \in Session : StopFnCall(c, s)
      PROVE  Filling'
  BY <1>5 DEF StopFnWrite, StopFnCall
<1>6. CASE Wire
  BY <1>6 DEF Wire, Complete, Break
<1>7. CASE UNCHANGED vars
  BY <1>7 DEF vars
<1>8. QED
  BY <1>1, <1>2, <1>3, <1>4, <1>5, <1>6, <1>7 DEF Next

(* A read that is cancelled, or that nobody holds, leaves the ring whole.  *)
LEMMA CancelKeeps ==
    ASSUME TypeOK, Ring(endpoint, reads, status), NEW s \in Session, CancelRead(s)
    PROVE  Ring(endpoint', reads', status')
<1> DEFINE t    == Head(reads[s])
           st2  == [status EXCEPT ![s][t] = "idle"]
           q2   == [reads EXCEPT ![s] = Tail(@)]
<1>1. /\ reads[s] \in Seq(Transfer) /\ reads[s] # <<>>
      /\ Cancelled(s, t) /\ status' = st2 /\ reads' = q2
  BY DEF CancelRead, Freed, TypeOK
<1>2. t \in Transfer /\ "idle" \in Status \ {"pending"}
  BY <1>1, HeadTailProperties DEF Status
<1>3. Len(reads[s]) \in Nat \ {0} /\ reads[s][1] = t
  BY <1>1, EmptySeq
<1>4. endpoint \in Seq(Session \X Transfer)
  BY DEF TypeOK
<1> HIDE DEF t, st2, q2
<1>5. Ring(endpoint', reads, st2)
  <2>1. ASSUME NEW k \in 1..Len(endpoint), endpoint[k] = <<s, t>>,
               endpoint' = SubSeq(endpoint, 1, k - 1)
                           \o SubSeq(endpoint, k + 1, Len(endpoint))
        PROVE  Ring(endpoint', reads, st2)
    <3>1. endpoint' \in Seq(Session \X Transfer) /\ Without(endpoint, endpoint', k)
      BY <1>4, <2>1, CutIsWithout
    <3>2. QED
      BY <1>1, <1>2, <2>1, <3>1, ReleaseKeeps DEF t, st2
  <2>2. CASE (\A k \in 1..Len(endpoint) : endpoint[k] # <<s, t>>) /\ UNCHANGED endpoint
    <3>1. PendingIsHeld(endpoint, reads, status, s)
      BY DEF Ring
    <3>2. 1 \in 1..Len(reads[s])
      BY <1>3
    <3>3. status[s][t] # "pending"
      BY <1>3, <2>2, <3>1, <3>2 DEF PendingIsHeld, Pending
    <3>4. Ring(endpoint, reads, st2)
      BY <1>2, <3>3, StatusKeeps DEF st2
    <3>5. QED
      BY <2>2, <3>4
  <2>3. QED
    <3> DEFINE Here(i) == endpoint[i] = <<s, t>>
    <3>1. CASE \E i \in 1..Len(endpoint) : Here(i)
      <4> DEFINE k == CHOOSE j \in 1..Len(endpoint) : Here(j)
      <4>1. k \in 1..Len(endpoint) /\ Here(k)
        BY <3>1
      <4>2. endpoint' = SubSeq(endpoint, 1, k - 1)
                        \o SubSeq(endpoint, k + 1, Len(endpoint))
        BY <1>1, <3>1 DEF Cancelled
      <4> HIDE DEF k
      <4>3. QED
        BY <2>1, <4>1, <4>2
    <3>2. CASE ~ \E i \in 1..Len(endpoint) : Here(i)
      BY <1>1, <2>2, <3>2 DEF Cancelled
    <3>3. QED
      BY <3>1, <3>2
<1>6. st2[s][t] # "pending"
  BY <1>2 DEF st2, TypeOK
<1>7. Ring(endpoint', q2, st2)
  BY <1>1, <1>5, <1>6, FrontLeaves DEF t, q2
<1>8. QED
  BY <1>1, <1>7

(* The wire lets the oldest read of all go, with data or without.          *)
LEMMA WireKeeps ==
    ASSUME TypeOK, Ring(endpoint, reads, status), Wire
    PROVE  Ring(endpoint', reads', status')
<1>1. /\ endpoint \in Seq(Session \X Transfer) /\ endpoint # <<>>
      /\ endpoint' = Tail(endpoint) /\ UNCHANGED reads
  BY DEF Wire, Complete, Break, TypeOK, stream
<1>2. PICK v \in Status \ {"pending"} :
         status' = [status EXCEPT ![Head(endpoint)[1]][Head(endpoint)[2]] = v]
  BY DEF Wire, Complete, Break, Status
<1>3. /\ Head(endpoint) = endpoint[1] /\ 1 \in 1..Len(endpoint)
      /\ Head(endpoint) \in Session \X Transfer
  BY <1>1, HeadTailProperties, EmptySeq
<1>4. PICK s \in Session, t \in Transfer : Head(endpoint) = <<s, t>>
  BY <1>3
<1>5. endpoint' \in Seq(Session \X Transfer) /\ Without(endpoint, endpoint', 1)
  BY <1>1, TailIsWithout
<1>6. status' = [status EXCEPT ![s][t] = v]
  <2>1. Head(endpoint)[1] = s /\ Head(endpoint)[2] = t
    BY <1>4
  <2>2. QED
    BY <1>2, <2>1
<1>7. Ring(endpoint', reads, [status EXCEPT ![s][t] = v])
  BY <1>3, <1>4, <1>5, ReleaseKeeps
<1>8. QED
  BY <1>1, <1>6, <1>7

(* next gives the transfer that completed back to the host controller, at  *)
(* the back of the ring.                                                   *)
LEMMA RotateKeeps ==
    ASSUME TypeOK, Ring(endpoint, reads, status), NEW s \in Session,
           NextCompleted(s)
    PROVE  Ring(endpoint', reads', status')
<1> DEFINE t  == Head(reads[s])
           r  == Tail(reads[s])
           q2 == [reads EXCEPT ![s] = r]
<1>1. /\ reads[s] \in Seq(Transfer) /\ reads[s] # <<>> /\ status[s][t] # "pending"
      /\ endpoint' = Append(endpoint, <<s, t>>)
      /\ status' = [status EXCEPT ![s][t] = "pending"]
      /\ reads' = [reads EXCEPT ![s] = Append(r, t)]
  BY DEF NextCompleted, Waiting, Submitted, Rotated, TypeOK
<1>2. t \in Transfer /\ reads \in [Session -> Seq(Transfer)]
  BY <1>1, HeadTailProperties DEF TypeOK
<1>3. Ring(endpoint, q2, status) /\ \A i \in 1..Len(r) : r[i] # t
  BY <1>1, FrontLeaves
<1>4. q2[s] = r /\ [q2 EXCEPT ![s] = Append(@, t)] = [reads EXCEPT ![s] = Append(r, t)]
  BY <1>2
<1> HIDE DEF t, r, q2
<1>5. Ring(Append(endpoint, <<s, t>>), [q2 EXCEPT ![s] = Append(@, t)],
           [status EXCEPT ![s][t] = "pending"])
  BY <1>2, <1>3, <1>4, SubmitKeeps
<1>6. QED
  BY <1>1, <1>4, <1>5

(* start_capture submits a transfer that its deque does not list yet.      *)
LEMMA FillKeeps ==
    ASSUME TypeOK, Control, RingInv, NEW s \in Session, StartSubmit(s)
    PROVE  Ring(endpoint', reads', status')
<1> DEFINE t == Len(reads[s]) + 1
<1>1. reads[s] \in Seq(Transfer) /\ t \in Transfer
  <2>1. reads[s] \in Seq(Transfer) /\ Len(reads[s]) \in Nat
    BY DEF TypeOK
  <2>2. Len(reads[s]) < READ_QUEUE
    BY DEF StartSubmit, MoreReads
  <2>3. QED
    BY <2>1, <2>2, CaptureAssumption DEF Transfer
<1>2. \A i \in 1..Len(reads[s]) : reads[s][i] # t
  <2>1. phase[s] = "starting"
    BY DEF StartSubmit, At, Control
  <2>2. \A i \in 1..Len(reads[s]) : reads[s][i] = i
    BY <2>1 DEF RingInv, Filling
  <2>3. Len(reads[s]) \in Nat
    BY <1>1, LenProperties
  <2>4. QED
    BY <2>2, <2>3
<1>3. Ring(endpoint, reads, status)
  BY DEF RingInv
<1>4. CASE /\ Submitted(s, t)
           /\ status' = [status EXCEPT ![s][t] = "pending"]
           /\ reads' = [reads EXCEPT ![s] = Append(@, t)]
  <2> HIDE DEF t
  <2>1. Ring(Append(endpoint, <<s, t>>), [reads EXCEPT ![s] = Append(@, t)],
             [status EXCEPT ![s][t] = "pending"])
    BY <1>1, <1>2, <1>3, SubmitKeeps
  <2>2. QED
    BY <1>4, <2>1 DEF Submitted
<1>5. CASE UNCHANGED <<endpoint, reads, status>>
  BY <1>3, <1>5
<1>6. QED
  BY <1>4, <1>5 DEF StartSubmit

(* The ring is whole after every step.                                     *)
LEMMA RingInductive ==
    TypeOK /\ Control /\ RingInv /\ [Next]_vars => RingInv'
<1> SUFFICES ASSUME TypeOK, Control, RingInv, [Next]_vars
             PROVE  RingInv'
  OBVIOUS
<1>1. Ring(endpoint, reads, status)
  BY DEF RingInv
<1>2. Ring(endpoint', reads', status')
  <2>1. ASSUME NEW s \in Session, Start(s) \/ NextCall(s) \/ Stop(s)
        PROVE  Ring(endpoint', reads', status')
    <3>1. CASE StartSubmit(s)
      BY <3>1, FillKeeps
    <3>2. CASE UNCHANGED <<endpoint, reads, status>>
      BY <1>1, <3>2
    <3>3. QED
      BY <2>1, <3>1, <3>2
         DEF Start, StartCapture, StartStop, StartRun, StartWrite, StartReturn,
             StartFailed, NextCall, Stop, wire, stream
  <2>2. ASSUME NEW s \in Session, NextLoop(s)
        PROVE  Ring(endpoint', reads', status')
    <3>1. CASE NextCompleted(s)
      BY <1>1, <3>1, RotateKeeps
    <3>2. CASE NextSubmitFails(s)
      <4> DEFINE t == Head(reads[s])
      <4>1. /\ reads[s] \in Seq(Transfer) /\ reads[s] # <<>>
            /\ status[s][t] # "pending"
            /\ status' = [status EXCEPT ![s][t] = "idle"]
            /\ UNCHANGED <<endpoint, reads>>
        BY <3>2 DEF NextSubmitFails, Waiting, Freed, wire, TypeOK
      <4>2. t \in Transfer /\ "idle" \in Status \ {"pending"}
        BY <4>1, HeadTailProperties DEF Status
      <4>3. Ring(endpoint, reads, [status EXCEPT ![s][t] = "idle"])
        BY <1>1, <4>1, <4>2, StatusKeeps
      <4>4. QED
        BY <4>1, <4>3
    <3>3. CASE UNCHANGED <<endpoint, reads, status>>
      BY <1>1, <3>3
    <3>4. QED
      BY <2>2, <3>1, <3>2, <3>3
         DEF NextLoop, NextTurn, NextItem, NextEnd, NextFails, EndStream,
             NextTimeout, wire
  <2>3. ASSUME NEW s \in Session, Close(s)
        PROVE  Ring(endpoint', reads', status')
    <3>1. CASE CancelRead(s)
      BY <1>1, <3>1, CancelKeeps
    <3>2. CASE UNCHANGED <<endpoint, reads, status>>
      BY <1>1, <3>2
    <3>3. QED
      BY <2>3, <3>1, <3>2 DEF Close, StopWrite, StopReturn, wire, stream
  <2>4. ASSUME NEW c \in Caller, StopFnWrite(c) \/ \E s \in Session : StopFnCall(c, s)
        PROVE  Ring(endpoint', reads', status')
    <3>1. UNCHANGED <<endpoint, reads, status>>
      BY <2>4 DEF StopFnWrite, StopFnCall, wire, stream
    <3>2. QED
      BY <1>1, <3>1
  <2>5. CASE Wire
    BY <1>1, <2>5, WireKeeps
  <2>6. CASE UNCHANGED vars
    <3>1. UNCHANGED <<endpoint, reads, status>>
      BY <2>6 DEF vars, wire, stream
    <3>2. QED
      BY <1>1, <3>1
  <2>7. QED
    BY <2>1, <2>2, <2>3, <2>4, <2>5, <2>6 DEF Next
<1>3. Filling'
  BY FillingInductive DEF RingInv
<1>4. QED
  BY <1>2, <1>3
     DEF RingInv, Ring, HeldOnce, HeldIsPending, PendingIsHeld, InOrder, Pending

LEMMA RingInitially == Init => RingInv
<1> SUFFICES ASSUME Init
             PROVE  RingInv
  OBVIOUS
<1>1. /\ endpoint = <<>> /\ Len(endpoint) = 0
      /\ \A s \in Session : reads[s] = <<>> /\ Len(reads[s]) = 0
  BY EmptySeq DEF Init
<1>2. TypeOK
  BY TypeInitially
<1>3. HeldOnce(endpoint) /\ HeldIsPending(endpoint, reads, status)
  BY <1>1 DEF HeldOnce, HeldIsPending
<1>4. \A s \in Session : /\ PendingIsHeld(endpoint, reads, status, s)
                         /\ InOrder(endpoint, reads, status, s)
  <2> TAKE s \in Session
  <2>1. Len(reads[s]) = 0
    BY <1>1
  <2>2. 1..Len(reads[s]) = {}
    BY <2>1
  <2>3. QED
    BY <2>2, Zenon DEF PendingIsHeld, InOrder
<1>5. Filling
  BY <1>1 DEF Filling
<1>6. QED
  BY <1>2, <1>3, <1>4, <1>5 DEF RingInv, Ring, TypeOK

(* However many streams share the analyzer, each stream's deque lists its  *)
(* reads in the order the host controller completes them, and no read is   *)
(* held for a stream that let it go: start_capture, next and cancel_reads. *)
THEOREM RingInOrder == Spec => []ReadsInCompletionOrder
<1>1. Init => RingInv
  BY RingInitially
<1>2. IInv /\ RingInv /\ [Next]_vars => RingInv'
  BY RingInductive DEF IInv
<1>3. QED
  BY <1>1, <1>2, RingImpliesOrder, Invariance, PTL DEF Spec

-----------------------------------------------------------------------------
(* The ring is the FIFO that ChunkQueue promises: what stands in the queue *)
(* are the chunks of the completed reads of the deque, front to back.      *)

(* The chunks a deque q holds, for statuses st and chunks ch of its        *)
(* transfers.                                                              *)
Pieces(q, st, ch) ==
    [i \in 1..Len(q) |-> IF st[q[i]] = "completed" THEN <<ch[q[i]]>> ELSE <<>>]

ChunksOf(q, st, ch) == FlattenSeq(Pieces(q, st, ch))

LEMMA PiecesType ==
    ASSUME NEW q \in Seq(Transfer), NEW st, NEW ch \in [Transfer -> Nat]
    PROVE  /\ Pieces(q, st, ch) \in Seq(Seq(Nat)) /\ Len(Pieces(q, st, ch)) = Len(q)
           /\ \A i \in 1..Len(q) :
                /\ Pieces(q, st, ch)[i] = IF st[q[i]] = "completed" THEN <<ch[q[i]]>> ELSE <<>>
                /\ Len(Pieces(q, st, ch)[i]) <= 1
<1> DEFINE n == Len(q)
           p == Pieces(q, st, ch)
           v(i) == IF st[q[i]] = "completed" THEN <<ch[q[i]]>> ELSE <<>>
<1>1. n \in Nat /\ \A i \in 1..n : q[i] \in Transfer
  OBVIOUS
<1>2. p = [i \in 1..n |-> v(i)]
  BY DEF Pieces
<1>3. ASSUME NEW i \in 1..n
      PROVE  v(i) \in Seq(Nat) /\ Len(v(i)) <= 1
  <2>1. ch[q[i]] \in Nat
    BY <1>1
  <2> DEFINE c == ch[q[i]]
  <2> HIDE DEF c
  <2>2. <<c>> \in Seq(Nat) /\ Len(<<c>>) <= 1
    BY <2>1 DEF c
  <2>3. <<>> \in Seq(Nat) /\ Len(<<>>) <= 1
    OBVIOUS
  <2>4. CASE st[q[i]] = "completed"
    BY <2>2, <2>4 DEF c
  <2>5. CASE st[q[i]] # "completed"
    BY <2>3, <2>5
  <2>6. QED
    BY <2>4, <2>5
<1> HIDE DEF p, n, v
<1>4. p \in Seq(Seq(Nat)) /\ Len(p) = n
  BY <1>1, <1>2, <1>3, IsASeq
<1>5. \A i \in 1..n : p[i] = v(i)
  BY <1>2
<1>6. QED
  BY <1>3, <1>4, <1>5 DEF n, p, v

(* It holds chunks, no more than it has transfers.                         *)
LEMMA ChunksType ==
    ASSUME NEW q \in Seq(Transfer), NEW st, NEW ch \in [Transfer -> Nat]
    PROVE  ChunksOf(q, st, ch) \in Seq(Nat) /\ Len(ChunksOf(q, st, ch)) <= Len(q)
<1> DEFINE p == Pieces(q, st, ch)
<1>1. p \in Seq(Seq(Nat)) /\ Len(p) = Len(q) /\ \A i \in 1..Len(p) : Len(p[i]) <= 1
  <2>1. /\ p \in Seq(Seq(Nat)) /\ Len(p) = Len(q)
        /\ \A i \in 1..Len(q) : Len(p[i]) <= 1
    BY PiecesType
  <2>2. QED
    BY <2>1
<1> HIDE DEF p
<1>2. FlattenSeq(p) \in Seq(Nat) /\ Len(FlattenSeq(p)) <= Len(p)
  BY <1>1, FlattenType, FlattenAtMost
<1>3. QED
  BY <1>1, <1>2 DEF ChunksOf, p

(* Only what completed counts.                                             *)
Agree(q, st, ch, st2, ch2) ==
    \A i \in 1..Len(q) : /\ st2[q[i]] = "completed" <=> st[q[i]] = "completed"
                         /\ st[q[i]] = "completed" => ch2[q[i]] = ch[q[i]]

LEMMA ChunksAgree ==
    ASSUME NEW q \in Seq(Transfer), NEW st, NEW ch, NEW st2, NEW ch2,
           Agree(q, st, ch, st2, ch2)
    PROVE  ChunksOf(q, st2, ch2) = ChunksOf(q, st, ch)
<1>1. ASSUME NEW i \in 1..Len(q)
      PROVE  (IF st2[q[i]] = "completed" THEN <<ch2[q[i]]>> ELSE <<>>)
               = (IF st[q[i]] = "completed" THEN <<ch[q[i]]>> ELSE <<>>)
  BY Zenon DEF Agree
<1>2. Pieces(q, st2, ch2) = Pieces(q, st, ch)
  BY <1>1, Zenon DEF Pieces
<1>3. QED
  BY <1>2 DEF ChunksOf

(* The front's chunk is the first.                                         *)
LEMMA ChunksFront ==
    ASSUME NEW q \in Seq(Transfer), q # <<>>, NEW st, NEW ch \in [Transfer -> Nat]
    PROVE  /\ st[Head(q)] # "completed" => ChunksOf(q, st, ch) = ChunksOf(Tail(q), st, ch)
           /\ st[Head(q)] = "completed" =>
                /\ ChunksOf(q, st, ch) # <<>>
                /\ Head(ChunksOf(q, st, ch)) = ch[Head(q)]
                /\ Tail(ChunksOf(q, st, ch)) = ChunksOf(Tail(q), st, ch)
<1> DEFINE r == Tail(q)
           n == Len(q)
           p == Pieces(q, st, ch)
           o == Pieces(r, st, ch)
<1>1. /\ r \in Seq(Transfer) /\ n \in Nat /\ n > 0 /\ Len(r) = n - 1
      /\ \A i \in 1..n - 1 : r[i] = q[i + 1]
      /\ q[1] = Head(q) /\ q[1] \in Transfer
  OBVIOUS
<1>2. /\ p \in Seq(Seq(Nat)) /\ Len(p) = n
      /\ \A i \in 1..n : p[i] = IF st[q[i]] = "completed" THEN <<ch[q[i]]>> ELSE <<>>
  BY PiecesType
<1>3. /\ o \in Seq(Seq(Nat)) /\ Len(o) = Len(r)
      /\ \A i \in 1..Len(r) : o[i] = IF st[r[i]] = "completed" THEN <<ch[r[i]]>> ELSE <<>>
  BY <1>1, PiecesType
<1> HIDE DEF r, n, p, o
<1>4. p # <<>> /\ Head(p) = p[1] /\ 1 \in 1..n
  BY <1>1, <1>2
<1>5. Tail(p) \in Seq(Seq(Nat)) /\ Len(Tail(p)) = n - 1 /\ \A i \in 1..n - 1 : Tail(p)[i] = p[i + 1]
  BY <1>1, <1>2, <1>4
<1>6. Tail(p) = o
  <2>1. ASSUME NEW i \in 1..n - 1
        PROVE  Tail(p)[i] = o[i]
    <3>1. i + 1 \in 1..n /\ i \in 1..Len(r) /\ r[i] = q[i + 1]
      BY <1>1
    <3>2. p[i + 1] = o[i]
      BY <1>2, <1>3, <3>1
    <3>3. QED
      BY <1>5, <3>2
  <2>2. Len(o) = n - 1
    BY <1>1, <1>3
  <2> DEFINE a == Tail(p)
  <2>3. a \in Seq(Seq(Nat)) /\ Len(a) = Len(o) /\ \A i \in 1..Len(a) : a[i] = o[i]
    BY <1>5, <2>1, <2>2
  <2>4. o \in Seq(Seq(Nat))
    BY <1>3
  <2> HIDE DEF a
  <2>5. a = o
    BY ONLY <2>3, <2>4, SeqEqual
  <2>6. QED
    BY <2>5 DEF a
<1>7. FlattenSeq(p) = p[1] \o FlattenSeq(o)
  BY <1>2, <1>4, <1>6, FlattenCons
<1>8. FlattenSeq(o) \in Seq(Nat)
  BY <1>3, FlattenType
<1> DEFINE h == FlattenSeq(p)
           g == FlattenSeq(o)
           c == ch[q[1]]
<1>9. c \in Nat
  BY <1>1
<1> HIDE DEF h, g, c
<1>10. CASE st[q[1]] # "completed"
  <2>1. p[1] = <<>>
    BY <1>2, <1>4, <1>10
  <2>2. <<>> \o g = g
    BY <1>8 DEF g
  <2>3. h = g
    BY <1>7, <2>1, <2>2 DEF h, g
  <2>4. QED
    BY <1>1, <1>10, <2>3 DEF ChunksOf, h, g, p, o, r
<1>11. CASE st[q[1]] = "completed"
  <2>1. p[1] = <<c>>
    BY <1>2, <1>4, <1>11 DEF c
  <2>2. <<c>> \o g # <<>> /\ Head(<<c>> \o g) = c /\ Tail(<<c>> \o g) = g
    BY <1>8, <1>9, InFront DEF g
  <2>3. h = <<c>> \o g
    BY <1>7, <2>1 DEF h, g
  <2>4. h # <<>> /\ Head(h) = c /\ Tail(h) = g
    BY <2>2, <2>3
  <2>5. QED
    BY <1>1, <1>11, <2>4 DEF ChunksOf, h, g, c, p, o, r
<1>12. QED
  BY <1>1, <1>10, <1>11

(* A transfer more at the back, without a chunk, is none.                  *)
LEMMA ChunksBack ==
    ASSUME NEW q \in Seq(Transfer), NEW t \in Transfer, NEW st,
           NEW ch \in [Transfer -> Nat], st[t] # "completed"
    PROVE  ChunksOf(Append(q, t), st, ch) = ChunksOf(q, st, ch)
<1> DEFINE r == Append(q, t)
           n == Len(q)
           p == Pieces(q, st, ch)
           o == Pieces(r, st, ch)
           e == Append(p, <<>>)
<1>1. r \in Seq(Transfer) /\ n \in Nat /\ Len(r) = n + 1 /\ r[n + 1] = t
      /\ \A i \in 1..n : r[i] = q[i]
  OBVIOUS
<1>2. /\ p \in Seq(Seq(Nat)) /\ Len(p) = n
      /\ \A i \in 1..n : p[i] = IF st[q[i]] = "completed" THEN <<ch[q[i]]>> ELSE <<>>
  BY PiecesType
<1>3. /\ o \in Seq(Seq(Nat)) /\ Len(o) = Len(r)
      /\ \A i \in 1..Len(r) : o[i] = IF st[r[i]] = "completed" THEN <<ch[r[i]]>> ELSE <<>>
  <2>1. r \in Seq(Transfer) /\ ch \in [Transfer -> Nat]
    BY <1>1
  <2> HIDE DEF r, n, p
  <2>2. /\ Pieces(r, st, ch) \in Seq(Seq(Nat)) /\ Len(Pieces(r, st, ch)) = Len(r)
        /\ \A i \in 1..Len(r) :
             /\ Pieces(r, st, ch)[i] = IF st[r[i]] = "completed" THEN <<ch[r[i]]>> ELSE <<>>
             /\ Len(Pieces(r, st, ch)[i]) <= 1
    BY ONLY <2>1, PiecesType
  <2>3. QED
    BY <2>2
<1> HIDE DEF r, n, p, o
<1>4. <<>> \in Seq(Nat)
  OBVIOUS
<1>5. e \in Seq(Seq(Nat)) /\ Len(e) = n + 1 /\ e[n + 1] = <<>> /\ \A i \in 1..n : e[i] = p[i]
  BY <1>1, <1>2, <1>4, AppendProperties
<1> HIDE DEF e
<1>6. ASSUME NEW i \in 1..n + 1
      PROVE  o[i] = e[i]
  <2>1. CASE i = n + 1
    <3>1. i \in 1..Len(r) /\ r[i] = t
      BY <1>1, <2>1
    <3>2. QED
      BY <1>3, <1>5, <2>1, <3>1
  <2>2. CASE i \in 1..n
    <3>1. i \in 1..Len(r) /\ r[i] = q[i]
      BY <1>1, <2>2
    <3>2. o[i] = p[i]
      BY <1>2, <1>3, <2>2, <3>1
    <3>3. QED
      BY <1>5, <2>2, <3>2
  <2>3. QED
    BY <1>1, <2>1, <2>2
<1>7. o = e
  BY <1>1, <1>3, <1>5, <1>6, SeqEqual
<1>8. FlattenSeq(e) = FlattenSeq(p) \o <<>>
  BY <1>2, <1>4, FlattenAppend DEF e
<1>9. FlattenSeq(p) \in Seq(Nat)
  BY <1>2, FlattenType
<1> DEFINE h == FlattenSeq(p)
<1> HIDE DEF h
<1>10. h \o <<>> = h
  BY <1>9 DEF h
<1>11. FlattenSeq(o) = FlattenSeq(p)
  BY <1>7, <1>8, <1>10 DEF h
<1>12. QED
  BY <1>11 DEF ChunksOf, p, o, r

(* The first read that waits, at place k of the deque, completes.           *)
Arrives(q, k, c, st, ch, st2, ch2) ==
    /\ \A i \in 1..Len(q) : i # k =>
          /\ st2[q[i]] = "completed" <=> st[q[i]] = "completed"
          /\ st[q[i]] = "completed" => ch2[q[i]] = ch[q[i]]
    /\ st2[q[k]] = "completed" /\ ch2[q[k]] = c
    /\ \A i \in k..Len(q) : st[q[i]] # "completed"

(* Its chunk is the last.                                                  *)
LEMMA ChunksArrive ==
    ASSUME NEW q \in Seq(Transfer), NEW k \in 1..Len(q), NEW c \in Nat,
           NEW st, NEW ch \in [Transfer -> Nat],
           NEW st2, NEW ch2 \in [Transfer -> Nat],
           Arrives(q, k, c, st, ch, st2, ch2)
    PROVE  /\ ChunksOf(q, st2, ch2) = Append(ChunksOf(q, st, ch), c)
           /\ Len(ChunksOf(q, st, ch)) < Len(q)
<1> DEFINE n == Len(q)
           p == Pieces(q, st, ch)
           o == Pieces(q, st2, ch2)
           x == SubSeq(p, 1, k - 1)
           y == SubSeq(o, 1, k - 1)
<1>1. n \in Nat /\ k \in 1..n
  OBVIOUS
<1>2. /\ p \in Seq(Seq(Nat)) /\ Len(p) = n
      /\ \A i \in 1..n : /\ p[i] = IF st[q[i]] = "completed" THEN <<ch[q[i]]>> ELSE <<>>
                         /\ Len(p[i]) <= 1
  BY PiecesType
<1>3. /\ o \in Seq(Seq(Nat)) /\ Len(o) = n
      /\ \A i \in 1..n : o[i] = IF st2[q[i]] = "completed" THEN <<ch2[q[i]]>> ELSE <<>>
  <2>1. q \in Seq(Transfer) /\ ch2 \in [Transfer -> Nat]
    OBVIOUS
  <2>2. /\ Pieces(q, st2, ch2) \in Seq(Seq(Nat)) /\ Len(Pieces(q, st2, ch2)) = Len(q)
        /\ \A i \in 1..Len(q) :
             /\ Pieces(q, st2, ch2)[i] = IF st2[q[i]] = "completed" THEN <<ch2[q[i]]>> ELSE <<>>
             /\ Len(Pieces(q, st2, ch2)[i]) <= 1
    BY ONLY <2>1, PiecesType
  <2>3. QED
    BY <2>2
<1>4. \A i \in 1..n : i # k => o[i] = p[i]
  <2> SUFFICES ASSUME NEW i \in 1..n, i # k
               PROVE  o[i] = p[i]
    OBVIOUS
  <2>1. /\ st2[q[i]] = "completed" <=> st[q[i]] = "completed"
        /\ st[q[i]] = "completed" => ch2[q[i]] = ch[q[i]]
    BY DEF Arrives
  <2> HIDE DEF p, o
  <2>2. p[i] = IF st[q[i]] = "completed" THEN <<ch[q[i]]>> ELSE <<>>
    BY <1>2
  <2>3. o[i] = IF st2[q[i]] = "completed" THEN <<ch2[q[i]]>> ELSE <<>>
    BY <1>3
  <2>4. QED
    BY <2>1, <2>2, <2>3, Zenon
<1>5. \A i \in k..n : st[q[i]] # "completed"
  BY DEF Arrives
<1>6. st2[q[k]] = "completed" /\ ch2[q[k]] = c
  BY DEF Arrives
<1> HIDE DEF n, p, o
<1>7. \A i \in k..n : p[i] = <<>>
  <2> TAKE i \in k..n
  <2>1. i \in 1..n
    BY <1>1
  <2>2. QED
    BY <1>2, <1>5, <2>1
<1>8. o[k] = <<c>>
  BY <1>1, <1>3, <1>6
<1>9. \A i \in k + 1..n : p[i] = <<>> /\ o[i] = <<>>
  <2> TAKE i \in k + 1..n
  <2>1. i \in 1..n /\ i \in k..n /\ i # k
    BY <1>1
  <2>2. QED
    BY <1>4, <1>7, <2>1
<1>10. FlattenSeq(p) = FlattenSeq(x) \o p[k] /\ x \in Seq(Seq(Nat)) /\ FlattenSeq(x) \in Seq(Nat)
  BY <1>1, <1>2, <1>9, FlattenUpTo
<1>11. FlattenSeq(o) = FlattenSeq(y) \o o[k]
  BY <1>1, <1>3, <1>9, FlattenUpTo
<1>12. /\ Len(x) = k - 1 /\ \A j \in 1..k - 1 : x[j] = p[j]
       /\ y \in Seq(Seq(Nat)) /\ Len(y) = k - 1 /\ \A j \in 1..k - 1 : y[j] = o[j]
  <2>1. 1 \in 1..n + 1 /\ k - 1 \in 1 - 1..n /\ (k - 1) - 1 + 1 = k - 1
        /\ \A j \in 1..k - 1 : 1 + j - 1 = j
    BY <1>1
  <2>2. /\ Len(x) = (k - 1) - 1 + 1
        /\ \A j \in 1..(k - 1) - 1 + 1 : x[j] = p[1 + j - 1]
    BY <1>2, <2>1, PartIs
  <2>3. /\ y \in Seq(Seq(Nat)) /\ Len(y) = (k - 1) - 1 + 1
        /\ \A j \in 1..(k - 1) - 1 + 1 : y[j] = o[1 + j - 1]
    BY <1>3, <2>1, PartIs
  <2> HIDE DEF x, y
  <2>4. QED
    BY <2>1, <2>2, <2>3
<1> HIDE DEF x, y
<1>13. \A j \in 1..k - 1 : x[j] = y[j] /\ Len(x[j]) <= 1
  <2> TAKE j \in 1..k - 1
  <2>1. j \in 1..n /\ j # k
    BY <1>1
  <2>2. x[j] = p[j] /\ y[j] = o[j] /\ o[j] = p[j] /\ Len(p[j]) <= 1
    BY <1>2, <1>4, <1>12, <2>1
  <2>3. QED
    BY <2>2
<1>14. x = y
  BY <1>10, <1>12, <1>13, SeqEqual
<1> DEFINE g == FlattenSeq(x)
<1>15. g \in Seq(Nat) /\ Len(g) <= k - 1
  <2>1. Len(FlattenSeq(x)) <= Len(x)
    <3>1. \A j \in 1..Len(x) : Len(x[j]) <= 1
      BY <1>12, <1>13
    <3>2. QED
      BY <1>10, <3>1, FlattenAtMost
  <2>2. QED
    BY <1>10, <1>12, <2>1
<1> HIDE DEF g
<1>16. FlattenSeq(p) = g
  <2>1. p[k] = <<>>
    BY <1>1, <1>7
  <2>2. g \o <<>> = g
    BY <1>15
  <2>3. QED
    BY <1>10, <2>1, <2>2 DEF g
<1>17. FlattenSeq(o) = Append(g, c)
  <2>1. g \o <<c>> = Append(g, c)
    BY <1>15
  <2>2. QED
    BY <1>8, <1>11, <1>14, <2>1 DEF g
<1>18. Len(g) < n
  BY <1>1, <1>15
<1>19. QED
  BY <1>16, <1>17, <1>18 DEF ChunksOf, p, o, n

LEMMA ChunkType ==
    ASSUME TypeOK, NEW s \in Session
    PROVE  chunk[s] \in [Transfer -> Nat]
<1>1. chunk[s] \in [Transfer -> 0..MaxChunks] /\ 0..MaxChunks \subseteq Nat
  BY CaptureAssumption DEF TypeOK
<1>2. QED
  BY <1>1

LEMMA ArrivedIs ==
    ASSUME NEW s \in Session
    PROVE  Arrived(s) = ChunksOf(reads[s], status[s], chunk[s])
  BY DEF Arrived, ChunksOf, Pieces

(* The streams a step leaves alone keep what arrived for them.             *)
Alone(s) == UNCHANGED <<reads[s], status[s], chunk[s]>>

LEMMA OthersKeep ==
    ASSUME NEW s \in Session, \A x \in Session : x # s => Alone(x)
    PROVE  \A x \in Session : x # s => Arrived(x)' = Arrived(x)
<1> SUFFICES ASSUME NEW x \in Session, x # s
             PROVE  Arrived(x)' = Arrived(x)
  OBVIOUS
<1>1. /\ reads'[x] = reads[x] /\ status'[x] = status[x] /\ chunk'[x] = chunk[x]
  BY DEF Alone
<1>2. Arrived(x)' = ChunksOf(reads'[x], status'[x], chunk'[x])
  BY DEF Arrived, ChunksOf, Pieces
<1>3. QED
  BY <1>1, <1>2, ArrivedIs

(* A step that touches one transfer leaves the others of its stream alone. *)
Touches(s, t, v, c, w) ==
    /\ status' = [status EXCEPT ![s][t] = v] /\ chunk' = [chunk EXCEPT ![s][t] = c]
    /\ reads' = [reads EXCEPT ![s] = w]

LEMMA OneTransfer ==
    ASSUME TypeOK, NEW s \in Session, NEW t \in Transfer, NEW v, NEW c, NEW w,
           Touches(s, t, v, c, w)
    PROVE  /\ status'[s][t] = v /\ chunk'[s] = [chunk[s] EXCEPT ![t] = c] /\ reads'[s] = w
           /\ \A u \in Transfer : u # t => /\ status'[s][u] = status[s][u]
                                         /\ chunk'[s][u] = chunk[s][u]
           /\ \A x \in Session : x # s => Alone(x)
  BY DEF TypeOK, Alone, Touches

(* The deque of a stream has no transfer twice, so no more than there are. *)
LEMMA DequeFits ==
    ASSUME Ring(endpoint, reads, status), NEW s \in Session
    PROVE  /\ reads[s] \in Seq(Transfer)
           /\ \A i, j \in 1..Len(reads[s]) : i # j => reads[s][i] # reads[s][j]
           /\ Len(reads[s]) <= READ_QUEUE
<1> DEFINE n == Len(reads[s])
           q == reads[s]
<1>1. q \in Seq(Transfer)
  BY DEF Ring
<1>2. n \in Nat /\ q \in [1..n -> Transfer]
  BY <1>1
<1>3. \A i, j \in 1..n : i < j => q[i] # q[j]
  <2>1. InOrder(endpoint, reads, status, s)
    BY DEF Ring
  <2>2. QED
    BY <2>1, Zenon DEF InOrder
<1>4. ASSUME NEW i \in 1..n, NEW j \in 1..n, i # j
      PROVE  q[i] # q[j]
  <2> HIDE DEF n, q
  <2>1. i < j \/ j < i
    BY <1>2, <1>4
  <2>2. QED
    BY <1>3, <2>1
<1>5. n <= READ_QUEUE
  <2> HIDE DEF n, q
  <2> SUFFICES ASSUME ~(n <= READ_QUEUE)
               PROVE  FALSE
    OBVIOUS
  <2>1. READ_QUEUE \in Nat /\ READ_QUEUE < n
    BY <1>2, CaptureAssumption
  <2>2. IsFiniteSet(1..n) /\ Cardinality(1..n) = n
    BY <1>2, FS_Interval
  <2>3. IsFiniteSet(Transfer) /\ Cardinality(Transfer) = READ_QUEUE
    <3>1. IsFiniteSet(1..READ_QUEUE) /\ Cardinality(1..READ_QUEUE) = IF 1 > READ_QUEUE THEN 0 ELSE READ_QUEUE - 1 + 1
      BY <2>1, FS_Interval
    <3>2. QED
      BY <2>1, <3>1 DEF Transfer
  <2>4. Cardinality(Transfer) < Cardinality(1..n)
    BY <2>1, <2>2, <2>3
  <2>5. \E i, j \in 1..n : i # j /\ q[i] = q[j]
    BY <1>2, <2>2, <2>3, <2>4, FS_PigeonHole
  <2>6. QED
    BY <1>4, <2>5
<1>6. QED
  BY <1>1, <1>4, <1>5

(* What the analyzer completes is put into the queue.                      *)
LEMMA QueuePut ==
    ASSUME TypeOK, Ring(endpoint, reads, status), Complete
    PROVE  \E s \in Session : FIFO!Put(s)
<1>1. /\ endpoint # <<>> /\ endpoint \in Seq(Session \X Transfer)
      /\ status' = [status EXCEPT ![Head(endpoint)[1]][Head(endpoint)[2]] = "completed"]
      /\ chunk' = [chunk EXCEPT ![Head(endpoint)[1]][Head(endpoint)[2]] = sent + 1]
      /\ sent' = sent + 1 /\ sent \in Nat /\ UNCHANGED <<phase, reads, last>>
  BY CaptureAssumption DEF Complete, TypeOK
<1>2. /\ Head(endpoint) = endpoint[1] /\ 1 \in 1..Len(endpoint)
      /\ Head(endpoint) \in Session \X Transfer
  BY <1>1, HeadTailProperties, EmptySeq
<1>3. PICK s \in Session, t \in Transfer : Head(endpoint) = <<s, t>>
  BY <1>2
<1>4. /\ status' = [status EXCEPT ![s][t] = "completed"]
      /\ chunk' = [chunk EXCEPT ![s][t] = sent + 1]
  <2>1. Head(endpoint)[1] = s /\ Head(endpoint)[2] = t
    BY <1>3
  <2>2. QED
    BY <1>1, <2>1
<1>5. /\ status \in [Session -> [Transfer -> Status]]
      /\ chunk \in [Session -> [Transfer -> 0..MaxChunks]]
  BY DEF TypeOK
<1> DEFINE q == reads[s]
           c == sent + 1
<1>6. /\ q \in Seq(Transfer) /\ Len(q) <= READ_QUEUE
      /\ \A i, j \in 1..Len(q) : i # j => q[i] # q[j]
  BY DequeFits
<1>7. PICK k \in 1..Len(q) : q[k] = t /\ status[s][t] = "pending"
  <2>1. HeldIsPending(endpoint, reads, status)
    BY DEF Ring
  <2>2. QED
    BY <1>2, <1>3, <2>1 DEF HeldIsPending
<1>8. \A i \in k..Len(q) : status[s][q[i]] # "completed"
  <2> SUFFICES ASSUME NEW i \in k..Len(q)
               PROVE  status[s][q[i]] = "pending"
    OBVIOUS
  <2>1. InOrder(endpoint, reads, status, s)
    BY DEF Ring
  <2>2. CASE i = k
    BY <1>7, <2>2
  <2>3. CASE i # k
    <3>1. i \in 1..Len(q) /\ k < i
      BY <1>6, <1>7, <2>3
    <3>2. Pending(reads, status, s, k)
      BY <1>7 DEF Pending
    <3>3. Pending(reads, status, s, i)
      BY <2>1, <3>1, <3>2, Zenon DEF InOrder
    <3>4. QED
      BY <3>3 DEF Pending
  <2>4. QED
    BY <2>2, <2>3
<1>9. c \in Nat /\ status'[s][t] = "completed" /\ chunk'[s][t] = c
      /\ chunk[s] \in [Transfer -> Nat] /\ chunk'[s] \in [Transfer -> Nat]
  <2>1. c \in Nat
    BY <1>1
  <2>2. status'[s][t] = "completed" /\ chunk'[s][t] = c
    <3> HIDE DEF c
    <3>1. chunk' = [chunk EXCEPT ![s][t] = c]
      BY <1>4 DEF c
    <3>2. QED
      BY <1>4, <1>5, <3>1
  <2>3. chunk[s] \in [Transfer -> Nat]
    BY ChunkType
  <2>4. chunk'[s] = [chunk[s] EXCEPT ![t] = c]
    BY <1>4, <1>5
  <2>5. QED
    BY <2>1, <2>2, <2>3, <2>4
<1>10. \A u \in Transfer : u # t => status'[s][u] = status[s][u] /\ chunk'[s][u] = chunk[s][u]
  BY <1>4, <1>5
<1>11. \A i \in 1..Len(q) : i # k =>
          /\ status'[s][q[i]] = "completed" <=> status[s][q[i]] = "completed"
          /\ status[s][q[i]] = "completed" => chunk'[s][q[i]] = chunk[s][q[i]]
  <2> TAKE i \in 1..Len(q)
  <2> HAVE i # k
  <2>1. q[i] \in Transfer /\ q[i] # t
    BY <1>6, <1>7
  <2>2. QED
    BY <1>10, <2>1
<1> HIDE DEF q, c
<1>12. /\ ChunksOf(q, status'[s], chunk'[s]) = Append(ChunksOf(q, status[s], chunk[s]), c)
       /\ Len(ChunksOf(q, status[s], chunk[s])) < Len(q)
  <2> DEFINE st == status[s]
             st2 == status'[s]
             ch == chunk[s]
             ch2 == chunk'[s]
  <2>1. /\ q \in Seq(Transfer) /\ k \in 1..Len(q)
        /\ ch \in [Transfer -> Nat] /\ ch2 \in [Transfer -> Nat] /\ c \in Nat
    BY <1>6, <1>7, <1>9
  <2>2. Arrives(q, k, c, st, ch, st2, ch2)
    BY <1>7, <1>8, <1>9, <1>11 DEF Arrives
  <2> HIDE DEF st, st2, ch, ch2
  <2>3. /\ ChunksOf(q, st2, ch2) = Append(ChunksOf(q, st, ch), c)
        /\ Len(ChunksOf(q, st, ch)) < Len(q)
    BY ONLY <2>1, <2>2, ChunksArrive
  <2>4. QED
    BY <2>3 DEF st, st2, ch, ch2
<1>13. Arrived(s)' = ChunksOf(q, status'[s], chunk'[s])
  BY <1>1 DEF Arrived, ChunksOf, Pieces, q
<1>14. Arrived(s) = ChunksOf(q, status[s], chunk[s])
  BY ArrivedIs DEF q
<1>15. \A x \in Session : x # s => Alone(x)
  BY <1>1, <1>4, <1>5 DEF Alone
<1>16. \A x \in Session : x # s => Arrived(x)' = Arrived(x)
  BY <1>15, OthersKeep
<1>17. Len(Arrived(s)) < READ_QUEUE
  <2>1. ChunksOf(q, status[s], chunk[s]) \in Seq(Nat)
    BY <1>6, <1>9, ChunksType
  <2>2. QED
    BY <1>6, <1>12, <1>14, <2>1, CaptureAssumption
<1>18. Arrived(s)' = Append(Arrived(s), sent + 1)
  BY <1>12, <1>13, <1>14 DEF c
<1>19. FIFO!Put(s)
  <2>1. [x \in Session |-> Arrived(x)]'
          = [[x \in Session |-> Arrived(x)] EXCEPT ![s] = Append(@, sent + 1)]
    BY <1>16, <1>18
  <2>2. QED
    BY <1>1, <1>17, <2>1 DEF FIFO!Put
<1>20. QED
  BY <1>19

(* next takes the front of the queue: the read goes to the back, or the    *)
(* submit fails and it stays where it was, empty.                          *)
LEMMA QueueGet ==
    ASSUME TypeOK, Control, Ring(endpoint, reads, status), NEW s \in Session,
           NextCompleted(s) \/ NextSubmitFails(s)
    PROVE  FIFO!Get(s)
<1> DEFINE q == reads[s]
           t == Head(q)
           r == Tail(q)
           st == status[s]
           st2 == status'[s]
           ch == chunk[s]
           ch2 == chunk'[s]
<1>1. /\ q # <<>> /\ st[t] = "completed" /\ phase[s] = "open"
      /\ last' = [last EXCEPT ![s] = ch[t]]
      /\ UNCHANGED <<sent, phase>>
  BY DEF NextCompleted, NextSubmitFails, Waiting, At, Control, wire
<1>2. /\ q \in Seq(Transfer) /\ \A i, j \in 1..Len(q) : i # j => q[i] # q[j]
  BY DequeFits
<1>3. /\ t \in Transfer /\ t = q[1] /\ r \in Seq(Transfer) /\ Len(q) \in Nat
      /\ Len(r) = Len(q) - 1 /\ \A i \in 1..Len(r) : r[i] = q[i + 1]
  BY <1>1, <1>2
<1>4. \A i \in 1..Len(r) : r[i] # t /\ r[i] \in Transfer
  <2> TAKE i \in 1..Len(r)
  <2>1. i + 1 \in 1..Len(q) /\ 1 \in 1..Len(q) /\ i + 1 # 1
    BY <1>3
  <2>2. q[i + 1] # q[1]
    BY <1>2, <2>1
  <2>3. QED
    BY <1>2, <1>3, <2>1, <2>2
<1>5. /\ st2[t] # "completed"
      /\ \A u \in Transfer : u # t => st2[u] = st[u] /\ ch2[u] = ch[u]
      /\ \A x \in Session : x # s => Alone(x)
      /\ reads'[s] = q \/ reads'[s] = Append(r, t)
      /\ ch2 = [ch EXCEPT ![t] = 0]
  <2>1. PICK v \in {"pending", "idle"} : status' = [status EXCEPT ![s][t] = v]
    BY DEF NextCompleted, NextSubmitFails, Freed
  <2>2. chunk' = [chunk EXCEPT ![s][t] = 0]
    BY DEF NextCompleted, NextSubmitFails, Freed
  <2>3. PICK w \in {q, Append(r, t)} : reads' = [reads EXCEPT ![s] = w]
    <3>1. CASE NextCompleted(s)
      BY <3>1 DEF NextCompleted, Rotated
    <3>2. CASE NextSubmitFails(s)
      BY <3>2 DEF NextSubmitFails, TypeOK
    <3>3. QED
      BY <3>1, <3>2
  <2>4. Touches(s, t, v, 0, w)
    BY <2>1, <2>2, <2>3 DEF Touches
  <2>5. t \in Transfer
    BY <1>3
  <2> HIDE DEF t, r, q
  <2>6. /\ status'[s][t] = v /\ chunk'[s] = [chunk[s] EXCEPT ![t] = 0] /\ reads'[s] = w
        /\ \A u \in Transfer : u # t => /\ status'[s][u] = status[s][u]
                                      /\ chunk'[s][u] = chunk[s][u]
        /\ \A x \in Session : x # s => Alone(x)
    BY <2>4, <2>5, OneTransfer
  <2>7. QED
    BY <2>6
<1>6. ch \in [Transfer -> Nat] /\ ch2 \in [Transfer -> Nat]
  <2>1. ch \in [Transfer -> Nat]
    BY ChunkType
  <2>2. ch2 = [ch EXCEPT ![t] = 0]
    BY <1>5
  <2> HIDE DEF ch, ch2, t
  <2>3. QED
    BY <2>1, <2>2
<1> HIDE DEF st, st2, ch, ch2, t, r, q
<1>7. ChunksOf(r, st2, ch2) = ChunksOf(r, st, ch)
  <2>1. Agree(r, st, ch, st2, ch2)
    BY <1>4, <1>5 DEF Agree
  <2>2. QED
    BY <1>3, <2>1, ChunksAgree
<1>8. /\ ChunksOf(q, st, ch) # <<>> /\ Head(ChunksOf(q, st, ch)) = ch[t]
      /\ Tail(ChunksOf(q, st, ch)) = ChunksOf(r, st, ch)
  BY <1>1, <1>2, <1>6, ChunksFront DEF t, r
<1>9. ChunksOf(reads'[s], st2, ch2) = ChunksOf(r, st2, ch2)
  <2>1. CASE reads'[s] = q
    <3>1. ChunksOf(q, st2, ch2) = ChunksOf(r, st2, ch2)
      <4>1. st2[Head(q)] # "completed" /\ q # <<>> /\ q \in Seq(Transfer)
            /\ ch2 \in [Transfer -> Nat]
        BY <1>1, <1>2, <1>5, <1>6 DEF t
      <4>2. ChunksOf(q, st2, ch2) = ChunksOf(Tail(q), st2, ch2)
        BY ONLY <4>1, ChunksFront
      <4>3. QED
        BY <4>2 DEF r
    <3>2. QED
      BY <2>1, <3>1
  <2>2. CASE reads'[s] = Append(r, t)
    <3>1. ChunksOf(Append(r, t), st2, ch2) = ChunksOf(r, st2, ch2)
      <4>1. st2[t] # "completed" /\ r \in Seq(Transfer) /\ t \in Transfer
            /\ ch2 \in [Transfer -> Nat]
        BY <1>3, <1>5, <1>6
      <4>2. QED
        BY ONLY <4>1, ChunksBack
    <3>2. QED
      BY <2>2, <3>1
  <2>3. QED
    BY <1>5, <2>1, <2>2
<1>10. Arrived(s) = ChunksOf(q, st, ch)
  BY ArrivedIs DEF q, st, ch
<1>11. Arrived(s)' = ChunksOf(reads'[s], st2, ch2)
  BY DEF Arrived, ChunksOf, Pieces, st2, ch2
<1>12. Arrived(s) # <<>> /\ Head(Arrived(s)) = ch[t] /\ Arrived(s)' = Tail(Arrived(s))
  BY <1>7, <1>8, <1>9, <1>10, <1>11
<1>13. \A x \in Session : x # s => Arrived(x)' = Arrived(x)
  BY <1>5, OthersKeep
<1>14. [x \in Session |-> Arrived(x)]'
         = [[x \in Session |-> Arrived(x)] EXCEPT ![s] = Tail(@)]
  BY <1>12, <1>13
<1>15. s \notin {x \in Session : phase[x] \in {"closing", "closed", "failed"}}
  BY <1>1
<1>16. QED
  BY <1>1, <1>12, <1>14, <1>15 DEF FIFO!Get

(* cancel_reads takes the front off, and with it a chunk, if it holds one. *)
LEMMA QueueDiscard ==
    ASSUME TypeOK, Control, Ring(endpoint, reads, status), NEW s \in Session,
           CancelRead(s)
    PROVE  FIFO!Discard(s) \/ UNCHANGED FIFO!vars
<1> DEFINE q == reads[s]
           t == Head(q)
           r == Tail(q)
           st == status[s]
           st2 == status'[s]
           ch == chunk[s]
           ch2 == chunk'[s]
<1>1. /\ q # <<>> /\ phase[s] \in {"closing", "failed"}
      /\ UNCHANGED <<sent, phase, last>>
  BY DEF CancelRead, At, Control, wire
<1>2. /\ q \in Seq(Transfer) /\ \A i, j \in 1..Len(q) : i # j => q[i] # q[j]
  BY DequeFits
<1>3. /\ t \in Transfer /\ t = q[1] /\ r \in Seq(Transfer) /\ Len(q) \in Nat
      /\ Len(r) = Len(q) - 1 /\ \A i \in 1..Len(r) : r[i] = q[i + 1]
  BY <1>1, <1>2
<1>4. \A i \in 1..Len(r) : r[i] # t /\ r[i] \in Transfer
  <2> TAKE i \in 1..Len(r)
  <2>1. i + 1 \in 1..Len(q) /\ 1 \in 1..Len(q) /\ i + 1 # 1
    BY <1>3
  <2>2. q[i + 1] # q[1]
    BY <1>2, <2>1
  <2>3. QED
    BY <1>2, <1>3, <2>1, <2>2
<1>5. /\ \A u \in Transfer : u # t => st2[u] = st[u] /\ ch2[u] = ch[u]
      /\ \A x \in Session : x # s => Alone(x)
      /\ reads'[s] = r
  BY <1>3 DEF CancelRead, Freed, Alone, TypeOK
<1>6. ch \in [Transfer -> Nat]
  BY ChunkType
<1> HIDE DEF st, st2, ch, ch2, t, r, q
<1>7. ChunksOf(r, st2, ch2) = ChunksOf(r, st, ch)
  <2>1. Agree(r, st, ch, st2, ch2)
    BY <1>4, <1>5 DEF Agree
  <2>2. QED
    BY <1>3, <2>1, ChunksAgree
<1>8. Arrived(s) = ChunksOf(q, st, ch)
  BY ArrivedIs DEF q, st, ch
<1>9. Arrived(s)' = ChunksOf(reads'[s], st2, ch2)
  BY DEF Arrived, ChunksOf, Pieces, st2, ch2
<1>10. \A x \in Session : x # s => Arrived(x)' = Arrived(x)
  BY <1>5, OthersKeep
<1>11. {x \in Session : phase[x] \in {"closing", "closed", "failed"}}'
         = {x \in Session : phase[x] \in {"closing", "closed", "failed"}}
  BY <1>1
<1>12. CASE st[t] = "completed"
  <2>1. ChunksOf(q, st, ch) # <<>> /\ Tail(ChunksOf(q, st, ch)) = ChunksOf(r, st, ch)
    BY <1>1, <1>2, <1>6, <1>12, ChunksFront DEF t, r
  <2>2. Arrived(s) # <<>> /\ Arrived(s)' = Tail(Arrived(s))
    BY <1>5, <1>7, <1>8, <1>9, <2>1
  <2>3. [x \in Session |-> Arrived(x)]'
          = [[x \in Session |-> Arrived(x)] EXCEPT ![s] = Tail(@)]
    BY <1>10, <2>2
  <2>4. s \in {x \in Session : phase[x] \in {"closing", "closed", "failed"}}
    BY <1>1
  <2>5. FIFO!Discard(s)
    BY <1>1, <1>11, <2>2, <2>3, <2>4 DEF FIFO!Discard
  <2>6. QED
    BY <2>5
<1>13. CASE st[t] # "completed"
  <2>1. ChunksOf(q, st, ch) = ChunksOf(r, st, ch)
    BY <1>1, <1>2, <1>6, <1>13, ChunksFront DEF t, r
  <2>2. Arrived(s)' = Arrived(s)
    BY <1>5, <1>7, <1>8, <1>9, <2>1
  <2>3. [x \in Session |-> Arrived(x)]' = [x \in Session |-> Arrived(x)]
    BY <1>10, <2>2
  <2>4. QED
    BY <1>1, <1>11, <2>3 DEF FIFO!vars
<1>14. QED
  BY <1>12, <1>13

(* A transfer that did not complete is none of the queue's, wherever it    *)
(* goes: a read that breaks, and the reads start_capture submits.          *)
LEMMA QueueKept ==
    ASSUME UNCHANGED <<last, sent>>, \A x \in Session : Arrived(x)' = Arrived(x)
    PROVE  /\ UNCHANGED {x \in Session : phase[x] \in {"closing", "closed", "failed"}}
                => UNCHANGED FIFO!vars
           /\ \A s \in Session :
                /\ phase[s] \in {"starting", "open"}
                /\ \E v \in {"closing", "failed"} : phase' = [phase EXCEPT ![s] = v]
                /\ phase \in [Session -> Phase]
                => FIFO!End(s)
<1>1. [x \in Session |-> Arrived(x)]' = [x \in Session |-> Arrived(x)]
  OBVIOUS
<1>2. ASSUME UNCHANGED {x \in Session : phase[x] \in {"closing", "closed", "failed"}}
      PROVE  UNCHANGED FIFO!vars
  BY <1>1, <1>2 DEF FIFO!vars
<1>3. ASSUME NEW s \in Session, phase[s] \in {"starting", "open"},
             NEW v \in {"closing", "failed"}, phase' = [phase EXCEPT ![s] = v],
             phase \in [Session -> Phase]
      PROVE  FIFO!End(s)
  <2>1. s \notin {x \in Session : phase[x] \in {"closing", "closed", "failed"}}
    BY <1>3
  <2>2. {x \in Session : phase[x] \in {"closing", "closed", "failed"}}'
          = {x \in Session : phase[x] \in {"closing", "closed", "failed"}} \cup {s}
    BY <1>3
  <2>3. QED
    BY <1>1, <2>1, <2>2 DEF FIFO!End
<1>4. QED
  BY <1>2, <1>3, Zenon

Finished == {x \in Session : phase[x] \in {"closing", "closed", "failed"}}

(* What did not touch deques, statuses and chunks left the queues alone.   *)
LEMMA NothingArrives ==
    ASSUME UNCHANGED <<reads, status, chunk>>
    PROVE  \A x \in Session : Arrived(x)' = Arrived(x)
  BY DEF Arrived

(* The reads start_capture submits, and one that breaks, carry no chunk.   *)
LEMMA SubmitArrives ==
    ASSUME TypeOK, Control, RingInv, NEW s \in Session, StartSubmit(s)
    PROVE  \A x \in Session : Arrived(x)' = Arrived(x)
<1> DEFINE q == reads[s]
           t == Len(q) + 1
           st == status[s]
           st2 == status'[s]
           ch == chunk[s]
<1>1. CASE UNCHANGED <<reads, status>>
  <2>1. UNCHANGED chunk
    BY DEF StartSubmit
  <2>2. QED
    BY <1>1, <2>1, NothingArrives
<1>2. CASE /\ status' = [status EXCEPT ![s][t] = "pending"]
           /\ reads' = [reads EXCEPT ![s] = Append(q, t)]
  <2>1. q \in Seq(Transfer) /\ Len(q) \in Nat
    BY DEF TypeOK
  <2>2. t \in Transfer
    BY <2>1, CaptureAssumption DEF StartSubmit, MoreReads, Transfer
  <2>3. \A i \in 1..Len(q) : q[i] # t /\ q[i] \in Transfer
    <3>1. phase[s] = "starting"
      BY DEF StartSubmit, At, Control
    <3>2. \A i \in 1..Len(q) : q[i] = i
      BY <3>1 DEF RingInv, Filling
    <3>3. \A i \in 1..Len(q) : q[i] \in Transfer
      BY <2>1
    <3>4. QED
      BY <2>1, <3>2, <3>3
  <2>4. UNCHANGED chunk
    BY DEF StartSubmit
  <2> HIDE DEF t
  <2>5. /\ st2[t] = "pending" /\ reads'[s] = Append(q, t)
        /\ \A u \in Transfer : u # t => st2[u] = st[u]
        /\ \A x \in Session : x # s => Alone(x)
    BY <1>2, <2>2, <2>4 DEF Alone, TypeOK
  <2>6. ch \in [Transfer -> Nat]
    BY ChunkType
  <2> HIDE DEF q, st, st2, ch
  <2>7. Agree(q, st, ch, st2, ch)
    BY <2>3, <2>5 DEF Agree
  <2>8. ChunksOf(q, st2, ch) = ChunksOf(q, st, ch)
    BY <2>1, <2>7, ChunksAgree
  <2>9. ChunksOf(Append(q, t), st2, ch) = ChunksOf(q, st2, ch)
    <3>1. st2[t] # "completed"
      BY <2>5
    <3>2. QED
      BY ONLY <2>1, <2>2, <2>6, <3>1, ChunksBack
  <2>10. Arrived(s)' = ChunksOf(Append(q, t), st2, ch)
    <3>1. reads'[s] = Append(q, t) /\ chunk'[s] = ch
      BY <2>4, <2>5 DEF ch
    <3>2. Arrived(s)' = ChunksOf(reads'[s], status'[s], chunk'[s])
      BY DEF Arrived, ChunksOf, Pieces
    <3>3. QED
      BY <3>1, <3>2 DEF st2
  <2>11. Arrived(s)' = Arrived(s)
    BY <2>8, <2>9, <2>10, ArrivedIs DEF q, st, ch
  <2>12. \A x \in Session : x # s => Arrived(x)' = Arrived(x)
    BY <2>5, OthersKeep
  <2>13. QED
    BY <2>11, <2>12
<1>3. QED
  BY <1>1, <1>2 DEF StartSubmit

LEMMA BreakArrives ==
    ASSUME TypeOK, Ring(endpoint, reads, status), Break
    PROVE  \A x \in Session : Arrived(x)' = Arrived(x)
<1>1. /\ endpoint # <<>> /\ endpoint \in Seq(Session \X Transfer)
      /\ UNCHANGED <<reads, chunk>>
  BY DEF Break, TypeOK
<1>2. /\ Head(endpoint) = endpoint[1] /\ 1 \in 1..Len(endpoint)
      /\ Head(endpoint) \in Session \X Transfer
  BY <1>1, HeadTailProperties, EmptySeq
<1>3. PICK s \in Session, t \in Transfer : Head(endpoint) = <<s, t>>
  BY <1>2
<1>4. PICK v \in {"cancelled", "error"} : status' = [status EXCEPT ![s][t] = v]
  <2>1. Head(endpoint)[1] = s /\ Head(endpoint)[2] = t
    BY <1>3
  <2>2. QED
    BY <2>1 DEF Break
<1>5. status[s][t] = "pending"
  <2>1. HeldIsPending(endpoint, reads, status)
    BY DEF Ring
  <2>2. QED
    BY <1>2, <1>3, <2>1 DEF HeldIsPending
<1>6. \A x \in Session, u \in Transfer :
         status'[x][u] = "completed" <=> status[x][u] = "completed"
  BY <1>4, <1>5 DEF TypeOK
<1>7. ASSUME NEW x \in Session
      PROVE  Arrived(x)' = Arrived(x)
  <2> DEFINE q == reads[x]
             st == status[x]
             st2 == status'[x]
             ch == chunk[x]
  <2>1. q \in Seq(Transfer) /\ \A i \in 1..Len(q) : q[i] \in Transfer
    BY DEF TypeOK
  <2>2. Agree(q, st, ch, st2, ch)
    BY <1>6, <2>1 DEF Agree
  <2>3. Arrived(x)' = ChunksOf(q, st2, ch)
    <3>1. reads'[x] = q /\ chunk'[x] = ch
      BY <1>1
    <3>2. Arrived(x)' = ChunksOf(reads'[x], status'[x], chunk'[x])
      BY DEF Arrived, ChunksOf, Pieces
    <3>3. QED
      BY <3>1, <3>2
  <2>4. Arrived(x) = ChunksOf(q, st, ch)
    BY ArrivedIs
  <2> HIDE DEF q, st, st2, ch
  <2>5. ChunksOf(q, st2, ch) = ChunksOf(q, st, ch)
    BY ONLY <2>1, <2>2, ChunksAgree
  <2>6. QED
    BY <2>3, <2>4, <2>5
<1>8. QED
  BY <1>7

(* Each step of a capture is a step of the queues, or none of theirs.      *)
LEMMA StepsQueue ==
    ASSUME TypeOK, Control, RingInv, [Next]_vars
    PROVE  [FIFO!Next]_FIFO!vars
<1> USE DEF wire, stream, owner, hist, At, Goto, Return
<1>1. Ring(endpoint, reads, status)
  BY DEF RingInv
<1> DEFINE Still == UNCHANGED <<reads, status, chunk, last, sent>>
           Ends(s) == \E v \in {"closing", "failed"} : phase' = [phase EXCEPT ![s] = v]
<1>2. phase \in [Session -> Phase]
  BY DEF TypeOK
<1>3. ASSUME UNCHANGED <<last, sent>>, \A x \in Session : Arrived(x)' = Arrived(x),
             UNCHANGED Finished
      PROVE  UNCHANGED FIFO!vars
  BY <1>3, QueueKept DEF Finished
<1>4. ASSUME NEW s \in Session, UNCHANGED <<last, sent>>,
             \A x \in Session : Arrived(x)' = Arrived(x),
             phase[s] \in {"starting", "open"}, Ends(s)
      PROVE  FIFO!End(s)
  BY <1>2, <1>4, QueueKept
<1>5. ASSUME Still
      PROVE  UNCHANGED <<last, sent>> /\ \A x \in Session : Arrived(x)' = Arrived(x)
  BY <1>5, NothingArrives
<1>6. ASSUME NEW s \in Session, Start(s)
      PROVE  FIFO!End(s) \/ UNCHANGED FIFO!vars
  <2>1. UNCHANGED <<last, sent>> /\ \A x \in Session : Arrived(x)' = Arrived(x)
    <3>1. CASE StartSubmit(s)
      BY <3>1, SubmitArrives DEF StartSubmit
    <3>2. CASE Still
      BY <1>5, <3>2
    <3>3. QED
      BY <1>6, <3>1, <3>2
         DEF Start, StartCapture, StartStop, StartRun, StartWrite, StartReturn, StartFailed
  <2>2. UNCHANGED Finished \/ (phase[s] \in {"starting", "open"} /\ Ends(s))
    <3>1. CASE StartCapture(s)
      BY <1>2, <3>1 DEF StartCapture, Finished
    <3>2. CASE StartStop(s) \/ StartRun(s) \/ StartSubmit(s)
      BY <1>2, <3>2 DEF StartStop, StartRun, StartWrite, StartSubmit, Finished, Control
    <3>3. CASE StartReturn(s)
      BY <1>2, <3>3 DEF StartReturn, Finished, Control
    <3>4. CASE StartFailed(s)
      BY <3>4 DEF StartFailed, Finished
    <3>5. QED
      BY <1>6, <3>1, <3>2, <3>3, <3>4 DEF Start
  <2>3. QED
    BY <1>3, <1>4, <2>1, <2>2
<1>7. ASSUME NEW s \in Session, NextLoop(s)
      PROVE  FIFO!Get(s) \/ UNCHANGED FIFO!vars
  <2>1. CASE NextCompleted(s) \/ NextSubmitFails(s)
    BY <1>1, <2>1, QueueGet
  <2>2. CASE Still /\ UNCHANGED phase
    <3>1. UNCHANGED Finished
      BY <2>2 DEF Finished
    <3>2. QED
      BY <1>3, <1>5, <2>2, <3>1
  <2>3. QED
    BY <1>7, <2>1, <2>2
       DEF NextLoop, NextTurn, NextItem, NextEnd, NextFails, EndStream, NextTimeout
<1>8. ASSUME NEW s \in Session, NextCall(s)
      PROVE  UNCHANGED FIFO!vars
  <2>1. Still /\ UNCHANGED phase
    BY <1>8 DEF NextCall
  <2>2. UNCHANGED Finished
    BY <2>1 DEF Finished
  <2>3. QED
    BY <1>3, <1>5, <2>1, <2>2
<1>9. ASSUME NEW s \in Session, Stop(s)
      PROVE  FIFO!End(s)
  <2>1. Still /\ phase[s] = "open" /\ Ends(s)
    BY <1>9 DEF Stop
  <2>2. QED
    BY <1>4, <1>5, <2>1
<1>10. ASSUME NEW s \in Session, Close(s)
       PROVE  FIFO!Discard(s) \/ UNCHANGED FIFO!vars
  <2>1. CASE CancelRead(s)
    BY <1>1, <2>1, QueueDiscard
  <2>2. CASE StopWrite(s)
    <3>1. Still /\ UNCHANGED phase
      BY <2>2 DEF StopWrite
    <3>2. UNCHANGED Finished
      BY <3>1 DEF Finished
    <3>3. QED
      BY <1>3, <1>5, <3>1, <3>2
  <2>3. CASE StopReturn(s)
    <3>1. Still
      BY <2>3 DEF StopReturn
    <3>2. UNCHANGED Finished
      BY <1>2, <2>3 DEF StopReturn, Finished, Control
    <3>3. QED
      BY <1>3, <1>5, <3>1, <3>2
  <2>4. QED
    BY <1>10, <2>1, <2>2, <2>3 DEF Close
<1>11. ASSUME NEW c \in Caller, StopFnWrite(c) \/ \E s \in Session : StopFnCall(c, s)
       PROVE  UNCHANGED FIFO!vars
  <2>1. Still /\ UNCHANGED phase
    BY <1>11 DEF StopFnWrite, StopFnCall
  <2>2. UNCHANGED Finished
    BY <2>1 DEF Finished
  <2>3. QED
    BY <1>3, <1>5, <2>1, <2>2
<1>12. CASE Complete
  BY <1>1, <1>12, QueuePut DEF FIFO!Next
<1>13. CASE Break
  <2>1. UNCHANGED <<last, sent, phase>>
    BY <1>13 DEF Break
  <2>2. UNCHANGED Finished
    BY <2>1 DEF Finished
  <2>3. QED
    BY <1>1, <1>3, <1>13, <2>1, <2>2, BreakArrives
<1>14. CASE UNCHANGED vars
  <2>1. Still /\ UNCHANGED phase
    BY <1>14 DEF vars
  <2>2. UNCHANGED Finished
    BY <2>1 DEF Finished
  <2>3. QED
    BY <1>3, <1>5, <2>1, <2>2
<1> HIDE DEF Still, Ends
<1>15. QED
  BY <1>6, <1>7, <1>8, <1>9, <1>10, <1>11, <1>12, <1>13, <1>14, Zenon
     DEF Next, Wire, FIFO!Next

(* At first nothing has arrived and nothing is over.                       *)
LEMMA QueueInitially == Init => FIFO!Init
<1> SUFFICES ASSUME Init
             PROVE  FIFO!Init
  OBVIOUS
<1>1. ASSUME NEW s \in Session
      PROVE  Arrived(s) = <<>>
  <2>1. reads[s] = <<>>
    BY DEF Init
  <2>2. Pieces(<<>>, status[s], chunk[s]) = <<>>
    BY DEF Pieces
  <2>3. QED
    BY <2>1, <2>2, ArrivedIs, FlattenEmpty DEF ChunksOf
<1>2. {x \in Session : phase[x] \in {"closing", "closed", "failed"}} = {}
  BY DEF Init
<1>3. QED
  BY <1>1, <1>2 DEF Init, FIFO!Init

\* The ring of bulk reads is a FIFO that loses, repeats and reorders nothing
\* while its stream is open: the submit and rotate_left of next.
THEOREM ImplementsQueue == Spec => DeliversInOrder
<1>1. Init => RingInv
  BY RingInitially
<1>2. IInv /\ RingInv /\ [Next]_vars => RingInv'
  BY RingInductive DEF IInv
<1>3. IInv /\ RingInv /\ [Next]_vars => [FIFO!Next]_FIFO!vars
  BY StepsQueue DEF IInv
<1>4. QED
  BY <1>1, <1>2, <1>3, QueueInitially, Invariance, PTL DEF Spec, DeliversInOrder, FIFO!Spec

-----------------------------------------------------------------------------
(* CaptureCli, for every length of the read queue, any number of chunks and *)
(* of presses of Ctrl-C.  The program is one client of Capture, so Capture's *)
(* inductive invariant carries over; what is left to know is where the stream *)
(* is when the main thread stops caring.                                   *)

(* Every step of the program is a step of the capture, or none of it: the   *)
(* program touches stream, register and StopFn through their calls only.    *)
LEMMA CliStepsCapture == [CliNextState]_cliVars => [Next]_vars
<1> SUFFICES ASSUME [CliNextState]_cliVars
             PROVE  [Next]_vars
  OBVIOUS
<1>0. Cap \in Session /\ Main \in Caller /\ Timer \in Caller /\ CtrlC \in Caller
  BY CliAssumption
<1>1. CASE CliStart
  BY <1>0, <1>1 DEF CliStart, Next, Start, Close
<1>2. CASE CliItem
  BY <1>0, <1>2 DEF CliItem, Next, NextLoop, NextTurn
<1>3. CASE CliNext
  BY <1>0, <1>3 DEF CliNext, Next, NextLoop, NextTurn
<1>4. CASE CliNextFails
  BY <1>0, <1>4 DEF CliNextFails, Next, NextLoop
<1>5. CASE CliDrop
  BY <1>0, <1>5 DEF CliDrop, Next
<1>6. CASE CliStopper
  BY <1>0, <1>6 DEF CliStopper, LockAndCall, CallReturns, Next
<1>7. CASE TimerFires \/ Press
  BY <1>0, <1>7 DEF TimerFires, Press, LockAndCall, Next
<1>8. ASSUME NEW c \in Caller, ThreadReturns(c)
      PROVE  [Next]_vars
  BY <1>8 DEF ThreadReturns, CallReturns, Next
<1>9. CASE CliWire
  BY <1>9 DEF CliWire, Next
<1>10. CASE Setup \/ CliHandler \/ CliFlush \/ PressKills \/ Exited
            \/ UNCHANGED cliVars
  BY <1>10 DEF Setup, CliSelect, CliOpen, CliSpeed, CliCreate, CliHandler,
               CliFlush, PressKills, Exited, cliVars
<1>11. QED
  BY <1>1, <1>2, <1>3, <1>4, <1>5, <1>6, <1>7, <1>8, <1>9, <1>10
     DEF CliNextState, MainStep

-----------------------------------------------------------------------------
(* Where the stream is before its start and after its drop, and that only  *)
(* a missing handler lets Ctrl-C kill the program.                         *)
Whereabouts ==
    /\ prog \in {"select", "open", "speed", "create", "begin"} =>
          phase[Cap] = "unused"
    /\ prog \in {"stopper", "stopping", "flush", "ok"} => phase[Cap] = "closed"
    /\ prog = "error" => phase[Cap] \in {"unused", "failed", "closed"}
    /\ prog = "killed" => ~handled

CliInv == IInv /\ Whereabouts /\ OkMeansWholeFile

(* The stream's phase changes only while the main thread starts it, reads  *)
(* it or drops it, and each of those leaves with the phase it waited for.  *)
LEMMA CliInductive ==
    Whereabouts /\ OkMeansWholeFile /\ [CliNextState]_cliVars
       => Whereabouts' /\ OkMeansWholeFile'
<1> SUFFICES ASSUME Whereabouts, OkMeansWholeFile, [CliNextState]_cliVars
             PROVE  Whereabouts' /\ OkMeansWholeFile'
  OBVIOUS
<1> USE DEF Whereabouts, OkMeansWholeFile, threads, Over
<1>1. CASE CliStart
  BY <1>1 DEF CliStart
<1>2. CASE CliItem
  BY <1>2 DEF CliItem, Written
<1>3. CASE CliNext
  BY <1>3 DEF CliNext
<1>4. CASE CliNextFails
  BY <1>4 DEF CliNextFails
<1>5. CASE CliDrop
  BY <1>5 DEF CliDrop
<1>6. CASE CliStopper
  BY <1>6 DEF CliStopper, LockAndCall, CallReturns, StopFnCall, StopFnWrite,
              stream
<1>7. CASE TimerFires \/ Press
  BY <1>7 DEF TimerFires, Press, LockAndCall, StopFnCall, stream
<1>8. ASSUME NEW c \in Caller, ThreadReturns(c)
      PROVE  Whereabouts' /\ OkMeansWholeFile'
  BY <1>8 DEF ThreadReturns, CallReturns, StopFnWrite, stream
<1>9. CASE CliWire
  BY <1>9 DEF CliWire, Wire, Complete, Break, cli
<1>10. CASE Setup
  <2>1. phase' = phase /\ handled' = handled
    BY <1>10 DEF Setup, CliSelect, CliOpen, CliSpeed, CliCreate, vars, stream
  <2>2. prog \in {"select", "open", "speed", "create"}
        /\ prog' \in {"open", "speed", "create", "begin", "error"}
    BY <1>10 DEF Setup, CliSelect, CliOpen, CliSpeed, CliCreate
  <2>3. QED
    BY <2>1, <2>2
<1>11. CASE CliHandler
  BY <1>11 DEF CliHandler, vars, stream
<1>12. CASE CliFlush
  BY <1>12 DEF CliFlush, Flushed, vars, stream
<1>13. CASE PressKills
  BY <1>13 DEF PressKills, vars, stream
<1>14. CASE Exited \/ UNCHANGED cliVars
  BY <1>14 DEF Exited, cliVars, cli, vars, stream
<1>15. QED
  BY <1>1, <1>2, <1>3, <1>4, <1>5, <1>6, <1>7, <1>8, <1>9, <1>10, <1>11,
     <1>12, <1>13, <1>14 DEF CliNextState, MainStep

LEMMA CliInvariance == CliSpec => []CliInv
<1>1. CliInit => CliInv
  <2>1. CliInit => Init
    BY DEF CliInit
  <2>2. Init => IInv
    BY TypeInitially, CaptureAssumption
       DEF IInv, Init, Control, Register, LastItem, DisableSticks,
           EnabledHasReason, At
  <2>3. CliInit => Whereabouts /\ OkMeansWholeFile
    BY CliAssumption DEF CliInit, Init, Whereabouts, OkMeansWholeFile
  <2>4. QED
    BY <2>1, <2>2, <2>3 DEF CliInv
<1>2. CliInv /\ [CliNextState]_cliVars => CliInv'
  BY CliStepsCapture, TypeInductive, ControlInductive, RegisterInductive,
     LastItemInductive, CliInductive DEF CliInv, IInv
<1>3. QED
  BY <1>1, <1>2, PTL DEF CliSpec

(* However cmd_capture ends, the analyzer is left capturing only if its    *)
(* start failed, if Ctrl-C met no handler, or if no write that disables it *)
(* ever returned Ok, the one in the stream's drop among them.              *)
THEOREM ProgramDisables == CliSpec => []ExitLeavesAnalyzerOff
<1>1. CliInv => ExitLeavesAnalyzerOff
  <2> SUFFICES ASSUME CliInv, Over, state = Cap, phase[Cap] # "failed",
                      ~(prog = "killed" /\ ~handled)
               PROVE  Cap \in unsure /\ Cap \notin disabled
    BY DEF ExitLeavesAnalyzerOff
  <2>1. phase[Cap] \in {"unused", "closed"}
    BY DEF CliInv, Whereabouts, Over
  <2>2. ~At("start_submit", Cap)
    BY <2>1 DEF CliInv, IInv, Control, At
  <2>3. Cap \in Session
    BY CliAssumption
  <2>4. QED
    BY <2>1, <2>2, <2>3
       DEF CliInv, IInv, Register, DisableSticks, EnabledHasReason
<1>2. QED
  BY <1>1, CliInvariance, PTL

(* Ok from cmd_capture means that the pcap file, if one was asked for, was *)
(* flushed whole.                                                          *)
THEOREM OkIsWhole == CliSpec => []OkMeansWholeFile
<1>1. CliInv => OkMeansWholeFile
  BY DEF CliInv
<1>2. QED
  BY <1>1, CliInvariance, PTL

(* cmd_capture is one client of the capture, so its ring does the same.    *)
THEOREM ProgramImplementsQueue == CliSpec => DeliversInOrder
<1>1. CliInit => RingInv /\ FIFO!Init
  BY RingInitially, QueueInitially DEF CliInit
<1>2. CliInv /\ RingInv /\ [CliNextState]_cliVars => RingInv' /\ [FIFO!Next]_FIFO!vars
  BY CliStepsCapture, RingInductive, StepsQueue DEF CliInv, IInv
<1>3. QED
  BY <1>1, <1>2, CliInvariance, PTL DEF CliSpec, DeliversInOrder, FIFO!Spec
=============================================================================
