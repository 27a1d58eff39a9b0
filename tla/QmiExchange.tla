---------------------------- MODULE QmiExchange -----------------------------
(***************************************************************************)
(* One packet between two users of qrtr/lib: a QMI message from its C      *)
(* structure to the structure its receiver fills, or news of a server from *)
(* qrtr_publish to the fields qrtr_decode returns.                         *)
(*                                                                         *)
(* The receiver uses libqrtr as it is made to be used: qrtr_decode tells   *)
(* control packets from data, qmi_decode_header gives the message id to    *)
(* choose a descriptor by, qmi_decode_message fills a zeroed structure.    *)
(* Sender and receiver may know different versions of a message: either    *)
(* descriptor may lack elements that are optional.                         *)
(***************************************************************************)
EXTENDS QmiCodec

CONSTANTS
  Messages,   \* what may be sent: [ei, v], a descriptor and a structure
  NullTypes,  \* descriptors of messages that are sent without a structure
  Unknown,    \* sets of optional types a receiver may not know
  Rooms,      \* sizes of the sender's packet buffer
  Servers     \* what may be published: [version, instance]

Kinds == {"request", "response"}   \* QMI_REQUEST, QMI_RESPONSE
HeaderSize == 7                    \* sizeof(struct qmi_header)

Plenty == CHOOSE r \in Rooms : \A q \in Rooms : q <= r

\* The largest buffer holds every message.
ASSUME ExchangeConstants ==
  /\ \A m \in Messages : LegalMessage(m.ei) /\ ValidStructure(1, m.ei, m.v)
  /\ \A ei \in NullTypes : LegalMessage(ei)
  /\ Rooms \subseteq Nat /\ \E r \in Rooms : \A q \in Rooms : q <= r
  /\ \A m \in Messages : LET r == EncodeBody(m.ei, m.v, Plenty - HeaderSize)
                         IN  r.ok /\ HeaderSize + Len(r.out) <= Plenty
  /\ \A types \in Unknown : \A t \in types : t \in Nat /\ t >= OptionalStart
  /\ Servers \subseteq [version : Nat, instance : Nat]

VARIABLES
  phase,      \* "idle", "sent", "refused"; "control" or "data", "accepted",
              \* "rejected"; "decoded", "failed"
  sent,       \* what the sender passed to libqrtr
  packet,     \* [from, cmd, data, header, payload] on its way
  got         \* what the receiver has made of it

vars == <<phase, sent, packet, got>>

Empty == [none |-> TRUE]

-----------------------------------------------------------------------------
(* The sender.                                                             *)

\* The header's msg_len is 16 bits wide.
DataPacket(kind, payload) ==
  [from |-> "peer", kind |-> kind, msg_len |-> Len(payload) % Limit(2), payload |-> payload]

\* qmi_encode_message with a structure, into a packet with `room` bytes.
Encode(m, kind, room) ==
  /\ phase = "idle"
  /\ NestedString(m.ei) => room = Plenty   \* they are compared with too much room
  /\ sent' = [ei |-> m.ei, v |-> m.v, null |-> FALSE, kind |-> kind, room |-> room]
  /\ LET r == EncodeBody(m.ei, m.v, room - HeaderSize)
     IN  IF room >= HeaderSize /\ r.ok
         THEN phase' = "sent" /\ packet' = DataPacket(kind, r.out)
         ELSE phase' = "refused" /\ packet' = Empty
  /\ UNCHANGED got

\* qmi_encode_message without one: only for a message that may be empty.
EncodeNull(ei, kind, room) ==
  /\ phase = "idle"
  /\ sent' = [ei |-> ei, v |-> Zeroed(ei), null |-> TRUE, kind |-> kind, room |-> room]
  /\ IF MinMsgLen(ei) = 0 /\ room >= HeaderSize
     THEN phase' = "sent" /\ packet' = DataPacket(kind, << >>)
     ELSE phase' = "refused" /\ packet' = Empty
  /\ UNCHANGED got

\* a | b of numbers of 24 bits.
Or(a, b) ==
  LET Bit(n, k) == (n \div 2^k) % 2
      low[k \in 0..24] ==
        IF k = 0 THEN 0
        ELSE low[k - 1] + (IF Bit(a, k - 1) + Bit(b, k - 1) = 0 THEN 0 ELSE 2^(k - 1))
  IN  low[24]

\* qrtr_new_server and the like: version and instance share a field; what a longer
\* version has above its byte falls on the instance.
PackShifted(s) == s.instance * Base * Base + s.version

Pack(s) ==
  IF s.version < Base THEN s.instance * Base + s.version
  ELSE Or(s.instance * Base, s.version)

\* A control packet, as the name server passes it on to observers of the
\* server: NEW_SERVER or DEL_SERVER, or one that names no server.
Control(cmd, s) ==
  /\ phase = "idle"
  /\ sent' = [cmd |-> cmd, version |-> s.version, instance |-> s.instance]
  /\ packet' = [from |-> "ctrl", cmd |-> cmd, instance |-> Pack(s)]
  /\ phase' = "sent"
  /\ UNCHANGED got

-----------------------------------------------------------------------------
(* The receiver.                                                           *)

QrtrDecodeAnyPort(p) == [type |-> "data"]

\* qrtr_decode: the sender's port tells control packets, which are never short,
\* from data.  Node and port are copied, as is what has no version.
QrtrDecode(p) ==
  IF p.from = "peer" THEN [type |-> "data"]
  ELSE IF p.cmd \in {"new_server", "del_server"}
  THEN [type |-> p.cmd, version |-> p.instance % Base, instance |-> p.instance \div Base]
  ELSE IF p.cmd \in {"bye", "del_client"} THEN [type |-> p.cmd]
  ELSE [type |-> "none"]

Receive ==
  /\ phase = "sent"
  /\ got' = QrtrDecode(packet)
  /\ phase' = IF QrtrDecode(packet).type = "data" THEN "data" ELSE "control"
  /\ UNCHANGED <<sent, packet>>

\* qmi_decode_header.
HeaderFits(p) == p.msg_len = Len(p.payload)

DecodeHeader ==
  /\ phase = "data"
  /\ phase' = IF HeaderFits(packet) THEN "accepted" ELSE "rejected"
  /\ UNCHANGED <<sent, packet, got>>

\* The descriptor of a receiver that does not know some types.
Known(ei, unknown) ==
  LET first[k \in 0..Len(ei)] ==
        IF k = 0 THEN << >>
        ELSE IF ei[k].tlv_type \in unknown THEN first[k - 1] ELSE Append(first[k - 1], ei[k])
  IN  first[Len(ei)]

\* qmi_decode_message, by a receiver that waits for this kind of message and
\* does not know some of the optional elements.
DecodeMessage(unknown, kind) ==
  /\ phase = "accepted"
  /\ LET reader == Known(sent.ei, unknown)
         r == DecodeBody(reader, packet.payload)
     IN  /\ got' = [reader |-> reader, kind |-> kind, at |-> r.at, v |-> r.v]
         /\ phase' = IF packet.kind = kind /\ r.ok THEN "decoded" ELSE "failed"
  /\ UNCHANGED <<sent, packet>>

\* The next packet.
Finish ==
  /\ phase \in {"refused", "control", "rejected", "decoded", "failed"}
  /\ phase' = "idle"
  /\ sent' = Empty /\ packet' = Empty /\ got' = Empty

Init == phase = "idle" /\ sent = Empty /\ packet = Empty /\ got = Empty

Commands == {"new_server", "del_server", "del_client", "bye", "resume_tx"}

Next ==
  \/ \E m \in Messages, kind \in Kinds, room \in Rooms : Encode(m, kind, room)
  \/ \E ei \in NullTypes, kind \in Kinds, room \in Rooms : EncodeNull(ei, kind, room)
  \/ \E cmd \in Commands, s \in Servers : Control(cmd, s)
  \/ Receive
  \/ DecodeHeader
  \/ \E unknown \in Unknown, kind \in Kinds : DecodeMessage(unknown, kind)
  \/ Finish

Spec == Init /\ [][Next]_vars

-----------------------------------------------------------------------------
(* Properties.                                                             *)

\* Type invariant: a packet is on its way or was refused, and what the receiver
\* has made of it is what its phase says.
TypeOK ==
  /\ phase \in {"idle", "sent", "refused", "control", "data", "accepted", "rejected",
                "decoded", "failed"}
  /\ (sent = Empty) = (phase = "idle")
  /\ (packet = Empty) = (phase \in {"idle", "refused"})
  /\ (got = Empty) = (phase \in {"idle", "refused", "sent"})
  /\ phase \in {"data", "accepted", "rejected", "decoded", "failed"} => packet.from = "peer"
  /\ phase = "decoded" => got.at \in 0..Len(packet.payload)

\* What a receiver with descriptor reader should find of a structure v that was
\* sent with descriptor ei: the elements it knows.
Expected(reader, ei, v) ==
  [j \in DOMAIN reader |-> v[CHOOSE i \in DOMAIN ei : ei[i] = reader[j]]]

\* "Decode QMI encoded message to C structure" (qmi.c:812): every message that
\* can be encoded arrives as it was sent, in all the elements its receiver
\* knows; it is turned down only when it is too long for its 16-bit lengths or
\* not of the kind that is waited for.
ReceivedIsSent ==
  /\ phase = "rejected" => Len(packet.payload) >= Limit(2)
  /\ phase = "failed" => got.kind # sent.kind
  /\ phase = "decoded" => /\ got.at = Len(packet.payload)
                          /\ got.kind = sent.kind
                          /\ got.v = Expected(got.reader, sent.ei, sent.v)

\* The bytes a message takes.
Needed(ei, v) == HeaderSize + Len(EncodeBody(ei, v, Plenty - HeaderSize).out)

\* "Check to avoid out of range buffer access" (qmi.c:384, 409), by sums over
\* lengths, flags and nested arrays: what is written fits the packet, and a
\* message that fits is never refused.
RoomExact ==
  /\ phase = "sent" /\ packet.from = "peer" => HeaderSize + Len(packet.payload) <= sent.room
  /\ phase = "refused" /\ ~ sent.null => Needed(sent.ei, sent.v) > sent.room

\* "Check the possibility of a zero length QMI message" (qmi.c:765): a missing
\* structure passes for a message in which everything is optional, however its
\* arrays and structures are nested, and for no other.
NullIsOptional ==
  LET optional == \A i \in DOMAIN sent.ei : sent.ei[i].tlv_type >= OptionalStart
  IN  /\ phase = "sent" /\ packet.from = "peer" /\ sent.null => optional
      /\ phase = "refused" /\ sent.null /\ sent.room >= HeaderSize => ~ optional

\* Observers read the version and instance that were published, for versions
\* of one byte.
PublishedIsSeen ==
  phase = "control" /\ sent.cmd \in {"new_server", "del_server"} /\ sent.version < Base =>
    got.type = sent.cmd /\ got.version = sent.version /\ got.instance = sent.instance
=============================================================================
