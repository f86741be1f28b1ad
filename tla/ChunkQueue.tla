----------------------------- MODULE ChunkQueue -----------------------------
(***************************************************************************)
(* What the ring of bulk reads of a capture promises each stream: a        *)
(* bounded FIFO of the chunks the analyzer answered that stream's reads    *)
(* with.  A stream is handed every one of them, once, in the order the     *)
(* analyzer sent them, until it is ended; only then may chunks be thrown   *)
(* away.  Streams open at the same time share the analyzer's chunks.       *)
(***************************************************************************)
EXTENDS Naturals, Sequences

CONSTANTS
    Session,   \* the streams
    Capacity   \* most chunks that wait for one stream

VARIABLES
    queue,  \* chunks waiting for each stream
    last,   \* the last chunk handed to each stream, 0 if none
    sent,   \* chunks sent so far; they are numbered from 1
    ended   \* streams that take no more chunks

vars == <<queue, last, sent, ended>>

Init ==
    /\ queue = [s \in Session |-> <<>>]
    /\ last = [s \in Session |-> 0]
    /\ sent = 0
    /\ ended = {}

\* The analyzer sends the next chunk to stream s.
Put(s) ==
    /\ Len(queue[s]) < Capacity
    /\ sent' = sent + 1
    /\ queue' = [queue EXCEPT ![s] = Append(@, sent + 1)]
    /\ UNCHANGED <<last, ended>>

\* Stream s is handed its oldest chunk.
Get(s) ==
    /\ s \notin ended
    /\ queue[s] # <<>>
    /\ last' = [last EXCEPT ![s] = Head(queue[s])]
    /\ queue' = [queue EXCEPT ![s] = Tail(@)]
    /\ UNCHANGED <<sent, ended>>

\* Stream s ends.
End(s) ==
    /\ s \notin ended
    /\ ended' = ended \cup {s}
    /\ UNCHANGED <<queue, last, sent>>

\* A chunk nobody will take.
Discard(s) ==
    /\ s \in ended
    /\ queue[s] # <<>>
    /\ queue' = [queue EXCEPT ![s] = Tail(@)]
    /\ UNCHANGED <<last, sent, ended>>

Next == \E s \in Session : Put(s) \/ Get(s) \/ End(s) \/ Discard(s)

Spec == Init /\ [][Next]_vars
=============================================================================
