-------------------------------- MODULE Codec --------------------------------
(***************************************************************************)
(* Codec and the Packet that it reads into.  A message on the wire is a    *)
(* head with the length of the body, the most significant byte first, and  *)
(* the body.  A codec is a record: data is what its buffer holds, of which *)
(* parse_len_ bytes are parsed, and len_ is the size of the buffer.        *)
(***************************************************************************)
EXTENDS Integers, Sequences

CONSTANT TINY_ECHO_HEAD_LEN   \* bytes of the head: 4

ASSUME CodecAssumption == TINY_ECHO_HEAD_LEN \in 1 .. 4

Byte == 0 .. 255

htonl(n) == [j \in 1 .. TINY_ECHO_HEAD_LEN |-> (n \div 256 ^ (TINY_ECHO_HEAD_LEN - j)) % 256]
ntohl(b) ==
  LET value[j \in 0 .. Len(b)] == IF j = 0 THEN 0 ELSE 256 * value[j - 1] + b[j]
  IN value[Len(b)]

EnCode(msg) == htonl(Len(msg)) \o msg

NewCodec ==
  [decode_status_ |-> "HEAD", body_len_ |-> 0, msg_ |-> <<>>,
   data |-> <<>>, parse_len_ |-> 0, len_ |-> TINY_ECHO_HEAD_LEN]

CanWriteLen(k) == k.len_ - Len(k.data)
NeedParseLen(k) == Len(k.data) - k.parse_len_

\* Mutant: the data is not moved on after the head.
Data4ParseFromStart(k, n) == SubSeq(k.data, 1, n)

\* The next n bytes to parse.
Data4Parse(k, n) == SubSeq(k.data, k.parse_len_ + 1, k.parse_len_ + n)

\* The buffer grows for the body, and never shrinks.
DecodeHead(k) ==
  LET n == ntohl(Data4Parse(k, TINY_ECHO_HEAD_LEN))
      size == TINY_ECHO_HEAD_LEN + n
  IN [k EXCEPT !.decode_status_ = "BODY", !.body_len_ = n, !.parse_len_ = @ + TINY_ECHO_HEAD_LEN,
               !.len_ = IF size < @ THEN @ ELSE size]

DecodeBody(k) ==
  [k EXCEPT !.decode_status_ = "FINISH", !.msg_ = Data4Parse(k, k.body_len_),
            !.parse_len_ = @ + k.body_len_]

\* The codec k takes in the bytes b.  The body is tried right after the head: it may be empty.
DeCode(k, b) ==
  LET read == [k EXCEPT !.data = @ \o b]
      head == IF read.decode_status_ = "HEAD" /\ NeedParseLen(read) >= TINY_ECHO_HEAD_LEN
                THEN DecodeHead(read)
                ELSE read
  IN IF head.decode_status_ = "BODY" /\ NeedParseLen(head) >= head.body_len_
       THEN DecodeBody(head)
       ELSE head

\* With bytes left after the message the loop of DeCode has no end.
Spins(k) == k.decode_status_ = "FINISH" /\ NeedParseLen(k) > 0
HasMessage(k) == k.decode_status_ = "FINISH" /\ ~ Spins(k)
=============================================================================
