------------------------------ MODULE Capture ------------------------------
(***************************************************************************)
(* A Cynthion capture: CynthionDevice::start_capture, the CynthionCapture  *)
(* stream (next, stop, drop) and its detached StopFn handles.              *)
(*                                                                         *)
(* A CaptureStream is not Send, so one thread, the owner, runs             *)
(* start_capture, next, stop and drop, one call at a time; pc and cur are  *)
(* that thread.  A StopFn is Send: the threads in Caller run them at any   *)
(* moment.  The analyzer, its State register and the host controller's     *)
(* queue of bulk reads are shared by every session of the device, because  *)
(* start_capture clones the interface handle and nothing ties a stream or  *)
(* a StopFn to the register value it wrote.                                *)
(*                                                                         *)
(* Data are abstracted to chunks: the k-th completed bulk read carries     *)
(* chunk k.  What the bytes of chunks decode to is the module RecordParser.*)
(***************************************************************************)
EXTENDS Naturals, Sequences, SequencesExt

CONSTANTS
    Session,     \* the captures started, one per call of start_capture
    Caller,      \* the threads that call StopFns
    READ_QUEUE,  \* bulk reads kept in flight by a stream
    MaxChunks,   \* bound on the chunks the analyzer sends
    MaxRecords,  \* bound on the records that one chunk completes
    None         \* no session

ASSUME CaptureAssumption ==
    /\ READ_QUEUE \in Nat \ {0}
    /\ MaxChunks \in Nat
    /\ MaxRecords \in Nat
    /\ None \notin Session
    /\ {"stopped", "foreign"} \cap Session = {}

VARIABLES
    state,     \* the State register: the session whose run_state it holds,
               \* "stopped", or "foreign" if another program left it enabled
    endpoint,  \* reads the host controller holds, in submission order
    sent,      \* chunks sent so far
    phase,     \* where each session's stream is in its life
    reads,     \* CynthionCapture.reads: a deque of transfers
    status,    \* status of each transfer of each session
    chunk,     \* the chunk each completed transfer carries
    last,      \* the last chunk each session's parser was extended with
    records,   \* complete records in each session's parser
    flag,      \* CynthionCapture.stop, shared with the StopFns
    done,      \* CynthionCapture.done
    pc, cur,   \* the owner thread: its next step, and the session it serves
    call,      \* the session whose StopFn each thread is in, its flag set
    disabled,  \* history: sessions of which a disabling write returned Ok
    unsure,    \* history: sessions whose own stop() got an error from the write
    late       \* history: items each stream returned after its flag was set

wire   == <<endpoint, sent>>
stream == <<phase, reads, status, chunk, last, records, done>>
owner  == <<pc, cur>>
hist   == <<disabled, unsure, late>>
vars   == <<state, wire, stream, flag, owner, call, hist>>

Transfer == 1..READ_QUEUE
Chunk    == 1..MaxChunks

Phase == {"unused", "starting", "open", "closing", "closed", "failed"}
\* "idle" is a transfer the host controller has not been given.
Status == {"idle", "pending", "completed", "cancelled", "error"}
Label == {"idle", "start_stop", "start_run", "start_submit",
          "start_drop", "next", "stop_write", "cancel_reads"}

TypeOK ==
    /\ state \in Session \cup {"stopped", "foreign"}
    /\ endpoint \in Seq(Session \X Transfer)
    /\ sent \in 0..MaxChunks
    /\ phase \in [Session -> Phase]
    /\ reads \in [Session -> Seq(Transfer)]
    /\ status \in [Session -> [Transfer -> Status]]
    /\ chunk \in [Session -> [Transfer -> 0..MaxChunks]]
    /\ last \in [Session -> 0..MaxChunks]
    /\ records \in [Session -> 0..MaxRecords]
    /\ flag \in [Session -> BOOLEAN]
    /\ done \in [Session -> BOOLEAN]
    /\ pc \in Label
    /\ cur \in Session \cup {None}
    /\ call \in [Caller -> Session \cup {None}]
    /\ disabled \subseteq Session
    /\ unsure \subseteq Session
    /\ late \in [Session -> Nat]

Init ==
    /\ state \in {"stopped", "foreign"}
    /\ endpoint = <<>>
    /\ sent = 0
    /\ phase = [s \in Session |-> "unused"]
    /\ reads = [s \in Session |-> <<>>]
    /\ status = [s \in Session |-> [t \in Transfer |-> "idle"]]
    /\ chunk = [s \in Session |-> [t \in Transfer |-> 0]]
    /\ last = [s \in Session |-> 0]
    /\ records = [s \in Session |-> 0]
    /\ flag = [s \in Session |-> FALSE]
    /\ done = [s \in Session |-> FALSE]
    /\ pc = "idle"
    /\ cur = None
    /\ call = [c \in Caller |-> None]
    /\ disabled = {}
    /\ unsure = {}
    /\ late = [s \in Session |-> 0]

At(label, s) == pc = label /\ cur = s
Goto(label)  == pc' = label /\ UNCHANGED cur
Return       == pc' = "idle" /\ cur' = None

-----------------------------------------------------------------------------
(* The bulk transfers of rawusb and the analyzer, as the source uses them. *)

\* Transfer::submit that succeeds: the host controller queues the read.
Submitted(s, t) == endpoint' = Append(endpoint, <<s, t>>)

\* Transfer t of s holds neither a request nor data.
Freed(s, t) ==
    /\ status' = [status EXCEPT ![s][t] = "idle"]
    /\ chunk' = [chunk EXCEPT ![s][t] = 0]

\* Transfer::cancel, then wait or drop: the host controller gives the read up,
\* if it still holds it.
Cancelled(s, t) ==
    LET Here(i) == endpoint[i] = <<s, t>> IN
    IF \E i \in 1..Len(endpoint) : Here(i)
      THEN LET i == CHOOSE j \in 1..Len(endpoint) : Here(j) IN
           endpoint' = SubSeq(endpoint, 1, i - 1)
                       \o SubSeq(endpoint, i + 1, Len(endpoint))
      ELSE UNCHANGED endpoint

\* The analyzer answers the oldest read with its next chunk.  It may still
\* hold data after it was disabled, so the register is not consulted.
Complete ==
    /\ endpoint # <<>>
    /\ sent < MaxChunks
    /\ LET r == Head(endpoint) IN
         /\ status' = [status EXCEPT ![r[1]][r[2]] = "completed"]
         /\ chunk' = [chunk EXCEPT ![r[1]][r[2]] = sent + 1]
    /\ endpoint' = Tail(endpoint)
    /\ sent' = sent + 1
    /\ UNCHANGED <<state, phase, reads, last, records, done, flag, owner,
                   call, hist>>

\* The oldest read ends without data: a USB error, or the host controller
\* cancelled it (the device is gone).
Break ==
    /\ endpoint # <<>>
    /\ LET r == Head(endpoint) IN
         \E st \in {"cancelled", "error"} :
           status' = [status EXCEPT ![r[1]][r[2]] = st]
    /\ endpoint' = Tail(endpoint)
    /\ UNCHANGED <<state, sent, phase, reads, chunk, last, records, done,
                   flag, owner, call, hist>>

\* write_state: on Ok the register holds v.  After an error, a timeout for
\* instance, the device may or may not have taken the request.
WriteOk(v)  == state' = v
WriteErr(v) == state' \in {state, v}

-----------------------------------------------------------------------------
(* What the operations below test and compute.  A Bad variant is a slip that *)
(* a property must catch; no action uses it.                                *)

\* The byte a session writes to disable the analyzer: encode_state without
\* the enable bit.
BadStopState(s) == s
StopState(s)    == "stopped"

\* The read queue is not full: for _ in 0..READ_QUEUE.
BadMoreReads(s) == Len(reads[s]) <= READ_QUEUE
MoreReads(s)    == Len(reads[s]) < READ_QUEUE

\* reads.rotate_left(1).
BadRotated(q) == q
Rotated(q)    == Append(Tail(q), Head(q))

\* What next looks at on entry.
BadEnded(s) == done[s]
Ended(s)    == done[s] \/ flag[s]

\* What next looks at after a timeout.
BadStopRequested(s) == done[s]
StopRequested(s)    == flag[s]

-----------------------------------------------------------------------------
(* CynthionDevice::start_capture.                                          *)

StartCapture(s) ==
    /\ pc = "idle"
    /\ phase[s] = "unused"
    /\ phase' = [phase EXCEPT ![s] = "starting"]
    /\ pc' = "start_stop"
    /\ cur' = s
    /\ UNCHANGED <<state, wire, reads, status, chunk, last, records, done,
                   flag, call, hist>>

\* write_state(stop_state)?, then write_state(run_state)?.  An error returns
\* at once, whatever the register then holds.
StartWrite(s, label, v, then) ==
    /\ At(label, s)
    /\ \/ WriteOk(v) /\ Goto(then) /\ UNCHANGED phase
       \/ WriteErr(v) /\ Return /\ phase' = [phase EXCEPT ![s] = "failed"]
    /\ UNCHANGED <<wire, reads, status, chunk, last, records, done, flag,
                   call, hist>>

StartStop(s) == StartWrite(s, "start_stop", StopState(s), "start_run")
StartRun(s)  == StartWrite(s, "start_run", s, "start_submit")

\* One turn of the loop that fills the read queue.  When a submit fails the
\* function gives up: the register keeps run_state.
StartSubmit(s) ==
    LET t == Len(reads[s]) + 1 IN
    /\ At("start_submit", s)
    /\ MoreReads(s)
    /\ \/ /\ Submitted(s, t)
          /\ status' = [status EXCEPT ![s][t] = "pending"]
          /\ reads' = [reads EXCEPT ![s] = Append(@, t)]
          /\ UNCHANGED <<phase, owner>>
       \/ /\ phase' = [phase EXCEPT ![s] = "failed"]
          /\ Goto("start_drop")
          /\ UNCHANGED <<endpoint, reads, status>>
    /\ UNCHANGED <<state, sent, chunk, last, records, done, flag, call, hist>>

\* The error returns: the reads are dropped with the deque.
StartFailed(s) ==
    /\ At("start_drop", s)
    /\ reads[s] = <<>>
    /\ Return
    /\ UNCHANGED <<state, wire, stream, flag, call, hist>>

StartReturn(s) ==
    /\ At("start_submit", s)
    /\ ~MoreReads(s)
    /\ phase' = [phase EXCEPT ![s] = "open"]
    /\ Return
    /\ UNCHANGED <<state, wire, reads, status, chunk, last, records, done,
                   flag, call, hist>>

-----------------------------------------------------------------------------
(* CynthionCapture::next.                                                  *)

\* The entry: a stream that ended, or whose flag is set, returns None.
NextCall(s) ==
    /\ pc = "idle"
    /\ phase[s] = "open"
    /\ IF Ended(s)
         THEN done' = [done EXCEPT ![s] = TRUE] /\ UNCHANGED owner
         ELSE pc' = "next" /\ cur' = s /\ UNCHANGED done
    /\ UNCHANGED <<state, wire, phase, reads, status, chunk, last, records,
                   flag, call, hist>>

\* The top of the loop: a complete record is returned without a read.
NextItem(s) ==
    /\ At("next", s)
    /\ records[s] > 0
    /\ records' = [records EXCEPT ![s] = @ - 1]
    /\ late' = [late EXCEPT ![s] = IF flag[s] THEN @ + 1 ELSE @]
    /\ Return
    /\ UNCHANGED <<state, wire, phase, reads, status, chunk, last, done,
                   flag, call, disabled, unsure>>

\* A transfer with status st at the front of the deque, and no record left.
Waiting(s, st) ==
    /\ At("next", s)
    /\ records[s] = 0
    /\ reads[s] # <<>>
    /\ status[s][Head(reads[s])] = st

\* The front read completed: its chunk goes to the parser, the transfer is
\* submitted again and moves to the back.
NextCompleted(s) ==
    LET t == Head(reads[s]) IN
    /\ Waiting(s, "completed")
    /\ last' = [last EXCEPT ![s] = chunk[s][t]]
    /\ records' \in {[records EXCEPT ![s] = n] : n \in 0..MaxRecords}
    /\ status' = [status EXCEPT ![s][t] = "pending"]
    /\ chunk' = [chunk EXCEPT ![s][t] = 0]
    /\ Submitted(s, t)
    /\ reads' = [reads EXCEPT ![s] = Rotated(@)]
    /\ UNCHANGED <<state, sent, phase, done, flag, owner, call, hist>>

\* The same, but the submit fails: the stream ends with the error, the
\* transfer still at the front.
NextSubmitFails(s) ==
    LET t == Head(reads[s]) IN
    /\ Waiting(s, "completed")
    /\ last' = [last EXCEPT ![s] = chunk[s][t]]
    /\ records' \in {[records EXCEPT ![s] = n] : n \in 0..MaxRecords}
    /\ Freed(s, t)
    /\ done' = [done EXCEPT ![s] = TRUE]
    /\ Return
    /\ UNCHANGED <<state, wire, phase, reads, flag, call, hist>>

\* fail, and the other ways to end the stream.
EndStream(s) ==
    /\ At("next", s)
    /\ records[s] = 0
    /\ done' = [done EXCEPT ![s] = TRUE]
    /\ Return
    /\ UNCHANGED <<state, wire, phase, reads, status, chunk, last, records,
                   flag, call, hist>>

\* The front read was cancelled or failed, or the deque is empty.
NextEnd(s) ==
    /\ reads[s] # <<>> => Waiting(s, "cancelled") \/ Waiting(s, "error")
    /\ EndStream(s)

\* wait returned an error other than a timeout, or the data of a completed
\* read could not be taken.
NextFails(s) == reads[s] # <<>> /\ EndStream(s)

\* READ_TIMEOUT passed without data: only now is the flag looked at again.
NextTimeout(s) ==
    /\ Waiting(s, "pending")
    /\ IF StopRequested(s)
         THEN done' = [done EXCEPT ![s] = TRUE] /\ Return
         ELSE UNCHANGED <<done, owner>>
    /\ UNCHANGED <<state, wire, phase, reads, status, chunk, last, records,
                   flag, call, hist>>

-----------------------------------------------------------------------------
(* CaptureStream::stop and the drop of a stream: CynthionCapture::stop.    *)

Stop(s) ==
    /\ pc = "idle"
    /\ phase[s] = "open"
    /\ phase' = [phase EXCEPT ![s] = "closing"]
    /\ flag' = [flag EXCEPT ![s] = TRUE]
    /\ pc' = "stop_write"
    /\ cur' = s
    /\ UNCHANGED <<state, wire, reads, status, chunk, last, records, done,
                   call, hist>>

\* An error is kept for the caller; the reads are cancelled all the same, and
\* nothing ever writes the register for this stream again.
StopWrite(s) ==
    /\ At("stop_write", s)
    /\ \/ /\ WriteOk(StopState(s))
          /\ disabled' = disabled \cup {s}
          /\ UNCHANGED unsure
       \/ /\ WriteErr(StopState(s))
          /\ unsure' = unsure \cup {s}
          /\ UNCHANGED disabled
    /\ Goto("cancel_reads")
    /\ UNCHANGED <<wire, stream, flag, call, late>>

\* cancel_reads: cancel() and wait(None) for the front of the deque.  A deque
\* that start_capture drops goes the same way.
CancelRead(s) ==
    LET t == Head(reads[s]) IN
    /\ At("cancel_reads", s) \/ At("start_drop", s)
    /\ reads[s] # <<>>
    /\ Cancelled(s, t)
    /\ Freed(s, t)
    /\ reads' = [reads EXCEPT ![s] = Tail(@)]
    /\ UNCHANGED <<state, sent, phase, last, records, done, flag,
                   owner, call, hist>>

\* The stream is gone, with the records its parser still had.
StopReturn(s) ==
    /\ At("cancel_reads", s)
    /\ reads[s] = <<>>
    /\ phase' = [phase EXCEPT ![s] = "closed"]
    /\ records' = [records EXCEPT ![s] = 0]
    /\ done' = [done EXCEPT ![s] = TRUE]
    /\ Return
    /\ UNCHANGED <<state, wire, reads, status, chunk, last, flag, call, hist>>

-----------------------------------------------------------------------------
(* The closure of stop_handle.  It outlives the stream it was taken from.  *)

StopFnCall(c, s) ==
    /\ call[c] = None
    /\ phase[s] \in {"open", "closing", "closed"}
    /\ flag' = [flag EXCEPT ![s] = TRUE]
    /\ call' = [call EXCEPT ![c] = s]
    /\ UNCHANGED <<state, wire, stream, owner, hist>>

StopFnWrite(c) ==
    /\ call[c] # None
    /\ \/ WriteOk(StopState(call[c])) /\ disabled' = disabled \cup {call[c]}
       \/ WriteErr(StopState(call[c])) /\ UNCHANGED disabled
    /\ call' = [call EXCEPT ![c] = None]
    /\ UNCHANGED <<wire, stream, flag, owner, unsure, late>>

-----------------------------------------------------------------------------
Start(s) == StartCapture(s) \/ StartStop(s) \/ StartRun(s)
            \/ StartSubmit(s) \/ StartReturn(s) \/ StartFailed(s)

NextTurn(s) == NextItem(s) \/ NextCompleted(s) \/ NextSubmitFails(s)
               \/ NextEnd(s) \/ NextTimeout(s)
NextLoop(s) == NextTurn(s) \/ NextFails(s)

Close(s) == StopWrite(s) \/ CancelRead(s) \/ StopReturn(s)

Wire == Complete \/ Break

Next ==
    \/ \E s \in Session :
         Start(s) \/ NextCall(s) \/ NextLoop(s) \/ Stop(s) \/ Close(s)
    \/ \E c \in Caller :
         StopFnWrite(c) \/ \E s \in Session : StopFnCall(c, s)
    \/ Wire

Spec == Init /\ [][Next]_vars

-----------------------------------------------------------------------------
(* Correctness.                                                            *)

\* The deque of a stream lists its reads in the order the host controller
\* holds them, "in submission (= completion) order", and no read is held for
\* a stream that has let it go: start_capture, next and cancel_reads.
ReadsInCompletionOrder ==
    \A s \in Session :
       LET Held(m, t) == m \in 1..Len(endpoint) /\ endpoint[m] = <<s, t>>
           Ds == 1..Len(reads[s])
       IN /\ \A i, j \in Ds :
                i < j /\ status[s][reads[s][i]] = "pending" =>
                   \E m, n \in 1..Len(endpoint) :
                      m < n /\ Held(m, reads[s][i]) /\ Held(n, reads[s][j])
          /\ \A i \in Ds : status[s][reads[s][i]] = "pending" =>
                \E m \in 1..Len(endpoint) : Held(m, reads[s][i])
          /\ \A m \in 1..Len(endpoint), t \in Transfer :
                Held(m, t) => /\ status[s][t] = "pending"
                              /\ \E i \in Ds : reads[s][i] = t
          /\ \A m, n \in 1..Len(endpoint), t \in Transfer :
                Held(m, t) /\ Held(n, t) => m = n

\* The chunks that next has not taken yet, in the order of the deque.
Arrived(s) ==
    FlattenSeq([i \in 1..Len(reads[s]) |->
                  IF status[s][reads[s][i]] = "completed"
                    THEN <<chunk[s][reads[s][i]]>> ELSE <<>>])

\* The ring of bulk reads is a FIFO that loses, repeats and reorders nothing
\* while its stream is open: the submit and rotate_left of next.
FIFO == INSTANCE ChunkQueue WITH
    Capacity <- READ_QUEUE,
    queue <- [s \in Session |-> Arrived(s)],
    ended <- {s \in Session : phase[s] \in {"closing", "closed", "failed"}}

DeliversInOrder == FIFO!Spec

\* After a write of a session's stop state returned Ok, from its stream or
\* from any of its StopFns, the register never again holds that session's run
\* state, whatever is called afterwards.
DisableSticks == \A s \in disabled : state # s

\* The analyzer captures only for a session that can still disable it, or
\* whose start_capture returned an error, or whose one write in stop() did.
\* A stop() that failed is never repeated, and a start_capture that failed
\* after writing run_state has no stream to stop.
EnabledHasReason ==
    state \in Session =>
       \/ phase[state] \in {"open", "closing", "failed"}
       \/ At("start_submit", state)
       \/ state \in unsure

\* A stream whose stop flag is set returns at most one more item: next
\* examines the flag only on entry and when a read times out.
AtMostOneItemAfterStop == \A s \in Session : late[s] <= 1
=============================================================================
