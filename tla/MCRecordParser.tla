--------------------------- MODULE MCRecordParser ---------------------------
(***************************************************************************)
(* RecordParser fed with every short sequence of records, cut into reads   *)
(* in every way, and compared with the records that were sent.  Bytes have *)
(* four values, so that the second byte of a length is used, and a payload *)
(* may look like an event's header.                                        *)
(***************************************************************************)
EXTENDS AnalyzerStream, TLC

CONSTANT MaxSent  \* records in one stream

Event(code, delta)   == [event |-> TRUE, body |-> <<code>>, delta |-> delta]
Packet(body, delta)  == [event |-> FALSE, body |-> body, delta |-> delta]

Sendable ==
    {Event(0, 1), Event(Base - 1, 7),
     Packet(<<>>, 0), Packet(<<Base - 1>>, 2), Packet(<<1, Base - 1, 2>>, 5),
     Packet(<<3, 3, 0, 1>>, 1), Packet(<<0, 3, 3, 1, 0>>, 15)}

MCStreams == UNION {[1..n -> Sendable] : n \in 1..MaxSent}

MCWires == {EncodeAll(rs) : rs \in MCStreams}

ASSUME SendsRecords
=============================================================================
