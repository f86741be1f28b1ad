---------------------------- MODULE Descriptors ----------------------------
(***************************************************************************)
(* host/descriptors.rs: walk cuts what a device sent into descriptors by   *)
(* their declared lengths, Configuration::parse makes interfaces and       *)
(* endpoints of them.  A blob is a sequence of bytes, and any is possible: *)
(* these functions look at what a device sends, not at what it should.     *)
(*                                                                         *)
(* Bytes that only end up in a field are kept as the bytes they are.       *)
(***************************************************************************)
EXTENDS Integers, SequencesExt

CONSTANTS
    ConfigLen,      \* bytes of a configuration descriptor, 9 in USB
    InterfaceLen,   \* of an interface descriptor, 9
    EndpointLen,    \* of an endpoint descriptor, 7
    INTERFACE,      \* their bDescriptorType, 4
    ENDPOINT,       \* and 5
    Bytes,          \* values of a byte
    MaxLen          \* bound on the bytes a device sends

ASSUME DescriptorAssumption ==
    /\ {ConfigLen, InterfaceLen, EndpointLen} \subseteq Nat
    /\ ConfigLen > 2 /\ InterfaceLen > 2 /\ EndpointLen > 2
    /\ INTERFACE # ENDPOINT
    /\ Bytes \subseteq Nat /\ MaxLen \in Nat

(* walk.  A Bad variant is a slip that a property must catch.              *)

\* The RawDescriptor at byte i, cut where the blob ends.
Cut(blob, end) == end > Len(blob)

DescriptorAt(blob, i) ==
    LET length == blob[i]
        end    == i + length - 1
    IN  [length    |-> length,
         type      |-> IF i < Len(blob) THEN blob[i + 1] ELSE 0,
         bytes     |-> IF length = 0 THEN <<0>>
                       ELSE SubSeq(blob, i, IF Cut(blob, end) THEN Len(blob) ELSE end),
         truncated |-> length = 0 \/ Cut(blob, end)]

\* Where the walk goes on: behind the declared length.
BadAfter(blob, i) == i + Max({2, blob[i]})
After(blob, i)    == IF blob[i] = 0 THEN Len(blob) + 1 ELSE i + blob[i]

Walk(blob) ==
    LET from[i \in Nat \ {0}] ==
          IF i > Len(blob) THEN <<>>
          ELSE <<DescriptorAt(blob, i)>> \o from[After(blob, i)]
    IN  from[1]

(* Configuration::parse.                                                   *)

IsInterface(d) == d.type = INTERFACE /\ Len(d.bytes) >= InterfaceLen
IsEndpoint(d)  == d.type = ENDPOINT /\ Len(d.bytes) >= EndpointLen

\* The fields of a standard descriptor; what follows them is not kept.
Fields(d, length) == SubSeq(d.bytes, 3, length)

NewInterface(d) == [descriptor     |-> Fields(d, InterfaceLen),
                    endpoints      |-> <<>>,
                    class_specific |-> <<>>]

\* One turn of the loop: d goes to a new interface, to the last one, or to
\* other when there is none.
BadPlace(cfg, d) ==
    IF IsInterface(d)
      THEN [cfg EXCEPT !.interfaces = Append(@, NewInterface(d))]
    ELSE [cfg EXCEPT !.other = Append(@, d)]
Place(cfg, d) ==
    LET n == Len(cfg.interfaces) IN
    IF IsInterface(d)
      THEN [cfg EXCEPT !.interfaces = Append(@, NewInterface(d))]
    ELSE IF n = 0
      THEN [cfg EXCEPT !.other = Append(@, d)]
    ELSE IF IsEndpoint(d)
      THEN [cfg EXCEPT !.interfaces[n].endpoints = Append(@, Fields(d, EndpointLen))]
      ELSE [cfg EXCEPT !.interfaces[n].class_specific = Append(@, d)]

\* ConfigurationDescriptor::parse takes any ConfigLen bytes, and the first
\* descriptor of the walk is passed over whatever it is.
Parsable(blob) == Len(blob) >= ConfigLen
Parse(blob)  ==
    LET ds == Tail(Walk(blob))
        upTo[n \in 0..Len(ds)] ==
          IF n = 0 THEN [descriptor |-> SubSeq(blob, 3, ConfigLen),
                         interfaces |-> <<>>, other |-> <<>>]
          ELSE Place(upTo[n - 1], ds[n])
    IN  upTo[Len(ds)]

(* The functions on everything a device may send: sent grows by one byte   *)
(* after the other, and at each point they are compared with what they are *)
(* to compute.                                                             *)

VARIABLE sent

NothingSent == sent = <<>>
SendByte    == /\ Len(sent) < MaxLen
               /\ \E b \in Bytes : sent' = Append(sent, b)
Sending     == NothingSent /\ [][SendByte]_sent

\* The bytes of descriptors, put together.
BytesOf(ds) == FlattenSeq([i \in 1..Len(ds) |-> ds[i].bytes])

\* walk loses no byte and invents none: the descriptors' bytes put together
\* are the blob, or its beginning when a bLength of 0 ends the walk.  Only the
\* last descriptor can be cut short, and it is marked so exactly when bytes
\* are missing or its bLength is 0.
WalkCoversBlob ==
    LET walked == Walk(sent) IN
    /\ IsPrefix(BytesOf(walked), sent)
    /\ BytesOf(walked) # sent => Last(walked).length = 0
    /\ \A i \in 1..Len(walked) :
         LET d == walked[i] IN
         /\ d.truncated <=> Len(d.bytes) < d.length \/ d.length = 0
         /\ d.truncated => i = Len(walked)

\* The numbers of the interface descriptors in ds, in order.
Headings(ds) ==
    FlattenSeq([i \in 1..Len(ds) |-> IF IsInterface(ds[i]) THEN <<i>> ELSE <<>>])

\* The descriptors between heading k and the next; k = 0 for those before the
\* first.
Under(ds, k) ==
    LET heads == Headings(ds)
        first == IF k = 0 THEN 1 ELSE heads[k] + 1
        last  == IF k = Len(heads) THEN Len(ds) ELSE heads[k + 1] - 1
    IN  SubSeq(ds, first, last)

\* The fields of the endpoint descriptors in ds, and the other descriptors.
EndpointsIn(ds) ==
    FlattenSeq([i \in 1..Len(ds) |->
        IF IsEndpoint(ds[i]) THEN <<Fields(ds[i], EndpointLen)>> ELSE <<>>])
OthersIn(ds) ==
    FlattenSeq([i \in 1..Len(ds) |-> IF IsEndpoint(ds[i]) THEN <<>> ELSE <<ds[i]>>])

Groups(cfg, ds) ==
    /\ Len(cfg.interfaces) = Len(Headings(ds))
    /\ cfg.other = Under(ds, 0)
    /\ \A k \in 1..Len(Headings(ds)) :
         /\ cfg.interfaces[k].descriptor = Fields(ds[Headings(ds)[k]], InterfaceLen)
         /\ cfg.interfaces[k].endpoints = EndpointsIn(Under(ds, k))
         /\ cfg.interfaces[k].class_specific = OthersIn(Under(ds, k))

\* Configuration::parse gives each interface the endpoints and the other
\* descriptors that follow it up to the next one, in their order, keeps what
\* comes before the first apart, and drops none: alternate settings, endpoints
\* without an interface and cut-off descriptors included.
ParseGroupsByInterface ==
    Parsable(sent) => Groups(Parse(sent), Tail(Walk(sent)))
=============================================================================
