--------------------------- MODULE AnalyzerStream ---------------------------
(***************************************************************************)
(* What the analyzer streams and what a reader of the stream expects: the  *)
(* records of a session, their encoding, and the items they are to become. *)
(* The encoder is in the gateware; this is its format as next_item reads   *)
(* it.                                                                     *)
(***************************************************************************)
EXTENDS RecordParser, FiniteSets, SequencesExt

CONSTANT Streams  \* the sequences of records that may be sent

\* What has a place in the format: an event has a code of one byte, a packet a
\* length whose high byte is not the mark of an event; the distance in time
\* from the record before takes two bytes.
Record ==
    {r \in [event : BOOLEAN, body : Seq(Byte), delta : 0..Base * Base - 1] :
        IF r.event THEN Len(r.body) = 1 ELSE Len(r.body) < (Base - 1) * Base}

\* A packet of odd length is padded by a byte that says nothing.
Pad(n) == IF n % 2 = 1 THEN <<Base - 1>> ELSE <<>>

Encode(r) ==
    LET n == Len(r.body)
        delta == <<r.delta \div Base, r.delta % Base>>
    IN  IF r.event
        THEN <<Base - 1>> \o r.body \o delta
        ELSE <<n \div Base, n % Base>> \o delta \o r.body \o Pad(n)

EncodeAll(rs) == FlattenSeq([i \in 1..Len(rs) |-> Encode(rs[i])])

\* The streams are made of records, and the wires are their encodings.
SendsRecords ==
    /\ Streams \subseteq Seq(Record)
    /\ Wires = {EncodeAll(rs) : rs \in Streams}

\* The records behind a wire.
Encodings == {<<EncodeAll(rs), rs>> : rs \in Streams}
SentOn(w) == (CHOOSE p \in Encodings : p[1] = w)[2]

\* The 60 MHz clock at each record: time is rounded down from the running total.
Cycles(rs) ==
    LET upTo[n \in 0..Len(rs)] ==
            IF n = 0 THEN 0 ELSE upTo[n - 1] + rs[n].delta
    IN  upTo
Expected(rs) ==
    [n \in 1..Len(rs) |-> [ns |-> (50 * Cycles(rs)[n]) \div 3,
                           event |-> rs[n].event, body |-> rs[n].body]]

\* Records of rs that end within the first k bytes.
Whole(rs, k) ==
    Cardinality({n \in 1..Len(rs) : Len(EncodeAll(SubSeq(rs, 1, n))) <= k})

\* However the stream is cut into reads, the items returned are the records
\* sent, in order, with the exact time of each; and none is held back once its
\* last byte, padding included, has arrived: next_item returns None only when
\* the next record is incomplete (extend, next_item, clk_to_ns).
DecodesWhatWasSent ==
    /\ IsPrefix(out, Expected(SentOn(wire)))
    /\ NeedsMore => Len(out) = Whole(SentOn(wire), fed)
=============================================================================
