------------------------------ MODULE H1Framing ------------------------------
(***************************************************************************)
(* How one message body travels over an HTTP/1 connection: the body types  *)
(* of body.rs, the headers and the TransferEncoding of h1/encoder.rs, a    *)
(* network that splits the bytes anywhere, and the head and PayloadDecoder *)
(* of h1/decoder.rs at the other end.  The direction is that of a          *)
(* response: the server encodes, the client codec of h1/client.rs decodes. *)
(*                                                                         *)
(* A byte is a string.  A head is one symbol, whose headers are those of   *)
(* Headers; after the message the sender writes the head of the next one,  *)
(* which the decoder must find where the body ends.  Other peers may write *)
(* spaces or an extension after a chunk's size.                            *)
(***************************************************************************)
EXTENDS Integers, Sequences

CONSTANTS FramingJobs,  \* the messages to send: a subset of Jobs
          Radix         \* of chunk sizes (16)

BodyKinds == {"none", "empty", "bytes", "stream", "sized"}

Jobs ==
  [body     : BodyKinds,
   chunks   : Seq(Seq(STRING)),      \* what the body yields
   len      : Nat,                   \* the size a SizedStream declares
   chunking : BOOLEAN,               \* no_chunking() was not called
   status   : {"ok", "no_content", "switching"},
   head     : BOOLEAN,               \* it answers a HEAD request
   upgrade  : BOOLEAN,               \* it answers CONNECT or a request to upgrade (STREAM)
   version  : {10, 11},
   peer     : {"actix", "spaces", "extension", "garbled"}]

ASSUME FramingJobsAssumption == FramingJobs \subseteq Jobs
ASSUME RadixAssumption == Radix \in 2..16

VARIABLES
  job,   \* the message
  todo,  \* the chunks the body has not given yet
  te,    \* the sender's TransferEncoding
  wire,  \* bytes under way
  src,   \* the receiver's read buffer
  dec,   \* the receiver's PayloadDecoder
  got    \* what it has decoded

framing == <<job, todo, te, wire, src, dec, got>>

-----------------------------------------------------------------------------
(* The sender: body.rs and encoder.rs. *)

Digits == <<"0", "1", "2", "3", "4", "5", "6", "7", "8", "9", "A", "B", "C", "D", "E", "F">>

\* {:X} of a length.
Size(n) ==
  LET S[k \in 0..n] == IF k < Radix THEN <<Digits[k + 1]>>
                       ELSE Append(S[k \div Radix], Digits[(k % Radix) + 1])
  IN  S[n]

\* MessageBody::size.
BodySize(j) ==
  CASE j.body = "none"   -> [tag |-> "None", len |-> 0]
    [] j.body = "empty"  -> [tag |-> "Empty", len |-> 0]
    [] j.body = "bytes"  -> [tag |-> "Sized", len |-> Len(j.chunks[1])]
    [] j.body = "sized"  -> [tag |-> "Sized", len |-> j.len]
    [] j.body = "stream" -> [tag |-> "Stream", len |-> 0]

\* MessageBody::poll_next: no chunk of an empty body, nor an empty one of bytes in
\* memory; a stream passes on what it is given, empty chunks included.
Yields(j) ==
  IF j.body \in {"none", "empty"} \/ (j.body = "bytes" /\ j.chunks[1] = <<>>)
  THEN <<>> ELSE j.chunks

\* MessageEncoder::encode chooses the transfer encoding by the body's size, and
\* encode_headers the headers by the size and the status.
Encoding(j) ==
  LET size == BodySize(j)
  IN  IF j.head \/ size.tag \in {"None", "Empty"} THEN [kind |-> "Length", rem |-> 0, eof |-> FALSE]
      ELSE IF size.tag = "Sized" THEN [kind |-> "Length", rem |-> size.len, eof |-> FALSE]
      ELSE [kind |-> IF j.chunking /\ ~j.upgrade THEN "Chunked" ELSE "Eof", rem |-> 0, eof |-> FALSE]

Headers(j) ==
  LET size   == BodySize(j)
      length == IF j.status = "no_content" THEN "None"
                ELSE IF j.status = "switching" THEN "Stream" ELSE size.tag
  IN  [status  |-> j.status,
       version |-> j.version,
       length  |-> IF length = "Sized" THEN size.len ELSE 0,
       chunked |-> length = "Stream" /\ j.chunking]

\* What other peers may put behind a size; "Z" is no digit.
SizeLine(n) ==
  Size(n) \o (CASE job.peer = "actix"     -> <<>>
                [] job.peer = "spaces"    -> <<" ", " ">>
                [] job.peer = "extension" -> <<";", "x">>
                [] job.peer = "garbled"   -> <<"Z">>)
          \o <<"CR", "LF">>

LastChunk == SizeLine(0) \o <<"CR", "LF">>

\* TransferEncoding::encode.
Encoded(t, msg) ==
  CASE t.kind = "Eof" -> [te |-> t, out |-> msg]
    [] t.kind = "Chunked" /\ t.eof -> [te |-> t, out |-> <<>>]
    [] t.kind = "Chunked" /\ ~t.eof /\ msg = <<>> ->
         [te |-> [t EXCEPT !.eof = TRUE], out |-> LastChunk]
    [] t.kind = "Chunked" /\ ~t.eof /\ msg # <<>> ->
         [te |-> t, out |-> SizeLine(Len(msg)) \o msg \o <<"CR", "LF">>]
    [] t.kind = "Length" ->
         LET n == IF t.rem < Len(msg) THEN t.rem ELSE Len(msg)
         IN  [te |-> [t EXCEPT !.rem = @ - n], out |-> SubSeq(msg, 1, n)]

NoJob == [body |-> "none"]

EncodeHead ==
  /\ job = NoJob
  /\ \E j \in FramingJobs :
       /\ job' = j
       /\ todo' = Yields(j)
       /\ te' = Encoding(j)
       /\ wire' = <<"head">>
  /\ UNCHANGED <<src, dec, got>>

EncodeChunk ==
  /\ job # NoJob /\ te.kind # "Done" /\ todo # <<>>
  /\ LET e == Encoded(te, Head(todo)) IN te' = e.te /\ wire' = wire \o e.out
  /\ todo' = Tail(todo)
  /\ UNCHANGED <<job, src, dec, got>>

\* encode_eof; a body shorter than its declared length is an error that ends the
\* connection, and a body without a length ends with it.
EncodeEof ==
  /\ job # NoJob /\ te.kind # "Done" /\ todo = <<>>
  /\ te' = [te EXCEPT !.kind = "Done"]
  /\ wire' = wire \o (IF te.kind = "Chunked" /\ ~te.eof THEN LastChunk ELSE <<>>)
                  \o (IF te.kind = "Eof" \/ te.rem # 0 THEN <<"closed">> ELSE <<"next">>)
  /\ UNCHANGED <<job, todo, src, dec, got>>

\* The network delivers some bytes.
Transmit ==
  /\ \E n \in 1..Len(wire) :
       /\ src' = src \o SubSeq(wire, 1, n)
       /\ wire' = SubSeq(wire, n + 1, Len(wire))
  /\ UNCHANGED <<job, todo, te, dec, got>>

-----------------------------------------------------------------------------
(* The receiver: decoder.rs. *)

Decoder(kind, state, size) == [kind |-> kind, state |-> state, size |-> size]

\* ResponseHead::decode: set_headers, then the decoder of the payload.
PayloadOf(h) ==
  CASE job.head                                    -> Decoder("None", "", 0)
    [] ~job.head /\ h.chunked                      -> Decoder("Chunked", "Size", 0)
    [] ~job.head /\ ~h.chunked /\ h.length > 0     -> Decoder("Length", "", h.length)
    [] ~job.head /\ ~h.chunked /\ h.length = 0     ->
         IF h.status = "switching" \/ h.version = 10 THEN Decoder("Eof", "", 0)
         ELSE Decoder("None", "", 0)

DecodeHeaders ==
  /\ dec.kind = "Head" /\ src # <<>>
  /\ dec' = PayloadOf(Headers(job))
  /\ src' = Tail(src)
  /\ UNCHANGED <<job, todo, te, wire, got>>

\* The bytes that have come before the connection closed.
Bytes == IF src # <<>> /\ src[Len(src)] = "closed" THEN SubSeq(src, 1, Len(src) - 1) ELSE src

\* At most n bytes of the buffer are a piece of the body.
TakePiece(n, next) ==
  LET k == IF n < Len(Bytes) THEN n ELSE Len(Bytes)
  IN  /\ Bytes # <<>>
      /\ got' = got \o SubSeq(src, 1, k)
      /\ src' = SubSeq(src, k + 1, Len(src))
      /\ dec' = [next EXCEPT !.size = n - k]

DecodeLength ==
  /\ dec.kind = "Length"
  /\ \/ /\ dec.size = 0
        /\ dec' = Decoder("None", "", 0)
        /\ UNCHANGED <<src, got>>
     \/ /\ dec.size > 0
        /\ TakePiece(dec.size, dec)
  /\ UNCHANGED <<job, todo, te, wire>>

DecodeEof ==
  /\ dec.kind = "Eof"
  /\ TakePiece(Len(Bytes), dec)
  /\ UNCHANGED <<job, todo, te, wire>>

\* ChunkedState::step on a byte b outside a chunk's data, and the size after it.
IsDigit(b) == \E k \in 1..Radix : Digits[k] = b
Value(b)   == CHOOSE k \in 0..Radix - 1 : Digits[k + 1] = b

AfterSize(b) == CASE b = " "  -> "SizeLws"
                  [] b = ";"  -> "Extension"
                  [] b = "CR" -> "SizeLf"
                  [] OTHER    -> "Invalid"

Expect(b, wanted, next) == IF b = wanted THEN next ELSE "Invalid"

NextState(b) ==
  CASE dec.state = "Size"      -> IF IsDigit(b) THEN "Size" ELSE AfterSize(b)
    [] dec.state = "SizeLws"   -> AfterSize(b)
    [] dec.state = "Extension" -> IF b = "CR" THEN "SizeLf" ELSE "Extension"
    [] dec.state = "SizeLf"    -> Expect(b, "LF", IF dec.size > 0 THEN "Body" ELSE "EndCr")
    [] dec.state = "BodyCr"    -> Expect(b, "CR", "BodyLf")
    [] dec.state = "BodyLf"    -> Expect(b, "LF", "Size")
    [] dec.state = "EndCr"     -> Expect(b, "CR", "EndLf")
    [] dec.state = "EndLf"     -> Expect(b, "LF", "End")

SizeAfter(b) ==
  IF dec.state = "Size" /\ IsDigit(b) THEN dec.size * Radix + Value(b) ELSE dec.size

DecodeChunked ==
  /\ dec.kind = "Chunked" /\ dec.state \notin {"Body", "End", "Invalid"} /\ Bytes # <<>>
  /\ dec' = Decoder("Chunked", NextState(Head(src)), SizeAfter(Head(src)))
  /\ src' = Tail(src)
  /\ UNCHANGED <<job, todo, te, wire, got>>


\* read_body.
DecodeChunkData ==
  /\ dec.kind = "Chunked" /\ dec.state = "Body"
  /\ TakePiece(dec.size, [dec EXCEPT !.state = IF Len(Bytes) < dec.size THEN "Body" ELSE "BodyCr"])
  /\ UNCHANGED <<job, todo, te, wire>>

\* PayloadItem::Eof.
DecodeLast ==
  /\ dec.kind = "Chunked" /\ dec.state = "End"
  /\ dec' = Decoder("None", "", 0)
  /\ UNCHANGED <<job, todo, te, wire, src, got>>

FramingInit ==
  /\ job = NoJob
  /\ todo = <<>> /\ wire = <<>> /\ src = <<>> /\ got = <<>>
  /\ te = [kind |-> "Length", rem |-> 0, eof |-> FALSE]
  /\ dec = Decoder("Head", "", 0)

FramingNext ==
  \/ EncodeHead \/ EncodeChunk \/ EncodeEof \/ Transmit \/ DecodeHeaders
  \/ DecodeLength \/ DecodeEof \/ DecodeChunked \/ DecodeChunkData \/ DecodeLast

FramingSpec == FramingInit /\ [][FramingNext]_framing

-----------------------------------------------------------------------------
Flattened(chunks) ==
  LET F[k \in 0..Len(chunks)] == IF k = 0 THEN <<>> ELSE F[k - 1] \o chunks[k]
  IN  F[Len(chunks)]

\* The bytes the receiver is to get: none after HEAD, and of a body longer than
\* it declared only that many.
Expected ==
  LET all == Flattened(Yields(job))
  IN  IF job.head THEN <<>>
      ELSE IF job.body = "sized" THEN SubSeq(all, 1, IF job.len < Len(all) THEN job.len ELSE Len(all))
      ELSE all

\* Messages whose headers do not say what the encoder does: a body with status
\* 204, whose bytes follow the head without a length; an endless body under
\* HTTP/1.1, which the decoder takes for none; an empty chunk inside a chunked
\* stream, which is written as the last one; a stream that answers a request to
\* upgrade, whose head announces chunks although its bytes follow raw; and a
\* content-length of 0 under HTTP/1.0, which the decoder takes for a body that
\* ends with the connection.
Misframed ==
  \/ job.status = "no_content" /\ job.body \notin {"none", "empty"} /\ ~job.head
  \/ job.body = "stream" /\ ~job.chunking /\ job.version = 11 /\ job.status = "ok"
  \/ job.body = "stream" /\ job.chunking /\ \E k \in 1..Len(job.chunks) : job.chunks[k] = <<>>
  \/ job.body = "stream" /\ job.chunking /\ job.upgrade /\ ~job.head
  \/ job.version = 10 /\ Encoding(job).kind = "Length" /\ Headers(job).length = 0

=============================================================================
