----------------------------- MODULE ContentCoding -----------------------------
(***************************************************************************)
(* A response body compressed by the Encoder of encoding/encoder.rs and    *)
(* read through the Decoder of encoding/decoder.rs.  A chunk of some size  *)
(* is given, together with the compressor, to a thread of the pool, and    *)
(* the stream has no compressor until the thread gives it back.            *)
(*                                                                         *)
(* A byte is its value and whether it is compressed; one compressed stream *)
(* ends in Trailer.  The libraries hold back any part of what they are     *)
(* given until `finish`, and decompress all they can at `flush`.  A call   *)
(* of poll_next is one action per turn of its loop; nobody else sees the   *)
(* state in between.  A consumer stops at the first error.                 *)
(***************************************************************************)
EXTENDS Integers, Sequences, SequencesExt

CONSTANTS CodingJobs,   \* responses; the values of their bytes are positive
          EncodeInPlace, \* INPLACE of the encoder, in bytes
          DecodeInPlace  \* and of the decoder

Codings == {"br", "deflate", "gzip", "identity", "auto"}
Byte(compressed, v) == [z |-> compressed, v |-> v]
Trailer == Byte(TRUE, 0)

\* header is the Content-Encoding the handler set itself, over a body it compressed
\* itself unless it `lies`; kind is the variant of ResponseBody.
IsCodingJob(j) ==
  /\ j.coding \in Codings /\ j.header \in Codings \cup {"none"} /\ j.lies \in BOOLEAN
  /\ j.status \in {"ok", "no_content", "switching"}
  /\ j.kind \in {"none", "empty", "bytes", "stream"}
  /\ j.kind \in {"none", "empty"} => j.chunks = <<>>
  /\ j.chunks \in Seq(Seq(Nat \ {0}))
ASSUME CodingJobsAssumption == \A j \in CodingJobs : IsCodingJob(j)
ASSUME InPlaceAssumption == EncodeInPlace \in Nat /\ DecodeInPlace \in Nat

VARIABLES
  coded,   \* the response: its job, and whether its connection was lost
  deflate, \* Encoder: body, encoder, fut, eof; `done` is what poll_next ended with
  transit, \* compressed or plain bytes on their way
  inflate, \* Decoder
  gotten   \* auxiliary: what the consumer has read

contentcoding == <<coded, deflate, transit, inflate, gotten>>

NoResponse == [coding |-> "identity", header |-> "none", lies |-> FALSE,
               status |-> "ok", kind |-> "none", chunks |-> <<>>]
Content(j) == FlattenSeq(j.chunks)
Plain(s) == [k \in 1..Len(s) |-> Byte(FALSE, s[k])]
Packed(s) == [k \in 1..Len(s) |-> Byte(TRUE, s[k])]
IsCompression(c) == c \in {"br", "deflate", "gzip"}

\* What the body's chunks are: a handler that sets the header compresses them itself.
BodyChunks(j) ==
  IF IsCompression(j.header) /\ ~j.lies
  THEN [k \in 1..Len(j.chunks) |-> Packed(j.chunks[k])] \o <<<<Trailer>>>>
  ELSE [k \in 1..Len(j.chunks) |-> Plain(j.chunks[k])]

\* Encoder::response: whether the body is compressed, and the header of the response.
CanEncode(j) == j.header = "none" /\ j.status = "ok" /\ IsCompression(j.coding) /\ j.kind \notin {"none", "empty"}
HeaderOf(j) == IF CanEncode(j) THEN j.coding ELSE j.header

\* A coder is "here", "away" with a thread, or "none"; `held` is what it has been given
\* and has not put out, `chunk` what its thread works on or has put out.
BodyDecoder(is) == [coder |-> IF is THEN "here" ELSE "none", work |-> "none",
                    chunk |-> <<>>, eof |-> FALSE, ended |-> FALSE, done |-> "no"]
BodyEncoder(chunks, is) == [left |-> chunks, coder |-> IF is THEN "here" ELSE "none", held |-> <<>>,
                            work |-> "none", chunk |-> <<>>, eof |-> FALSE, done |-> "no"]

StartResponse(j) ==
  /\ coded.job = NoResponse
  /\ coded' = [job |-> j, lost |-> FALSE]
  /\ deflate' = BodyEncoder(BodyChunks(j), CanEncode(j))
  /\ inflate' = BodyDecoder(IsCompression(HeaderOf(j)))
  /\ UNCHANGED <<transit, gotten>>

\* ContentEncoder::write: any part of it reaches the Writer.
Splits(s) == {[out |-> SubSeq(s, 1, k), held |-> SubSeq(s, k + 1, Len(s))] : k \in 0..Len(s)}
Squeezed(held, chunk) == Splits(held \o Packed([k \in 1..Len(chunk) |-> chunk[k].v]))

\* The chunk that poll_next returns is sent.
Return(e, chunk) == deflate' = e /\ transit' = transit \o chunk

EncoderMayRun == coded.job # NoResponse /\ deflate.done = "no" /\ ~coded.lost

\* A faulty variant of CompressChunk: the next chunk is asked for while a thread works.
CompressChunkAhead ==
  /\ EncoderMayRun /\ ~deflate.eof /\ deflate.left # <<>>
  /\ LET chunk == Head(deflate.left)
         e == [deflate EXCEPT !.left = Tail(@)]
     IN  \/ deflate.coder # "here" /\ Return(e, chunk)
         \/ /\ deflate.coder = "here" /\ Len(chunk) < EncodeInPlace
            /\ \E s \in Squeezed(deflate.held, chunk) : Return([e EXCEPT !.held = s.held], s.out)
         \/ /\ deflate.coder = "here" /\ Len(chunk) >= EncodeInPlace
            /\ Return([e EXCEPT !.coder = "away", !.work = "running", !.chunk = chunk], <<>>)
  /\ UNCHANGED <<coded, inflate, gotten>>

CompressChunk ==
  /\ EncoderMayRun /\ ~deflate.eof /\ deflate.work = "none" /\ deflate.left # <<>>
  /\ LET chunk == Head(deflate.left)
         e == [deflate EXCEPT !.left = Tail(@)]
     IN  \/ deflate.coder = "none" /\ Return(e, chunk)
         \/ /\ deflate.coder = "here" /\ Len(chunk) < EncodeInPlace
            /\ \E s \in Squeezed(deflate.held, chunk) : Return([e EXCEPT !.held = s.held], s.out)
         \/ /\ deflate.coder = "here" /\ Len(chunk) >= EncodeInPlace
            /\ Return([e EXCEPT !.coder = "away", !.work = "running", !.chunk = chunk], <<>>)
  /\ UNCHANGED <<coded, inflate, gotten>>

\* A thread writes the chunk; its result waits to be polled.
CompressWork ==
  /\ deflate.work = "running"
  /\ \E s \in Squeezed(deflate.held, deflate.chunk) :
       deflate' = [deflate EXCEPT !.work = "ready", !.held = s.held, !.chunk = s.out]
  /\ UNCHANGED <<coded, transit, inflate, gotten>>

CompressResult ==
  /\ EncoderMayRun /\ deflate.work = "ready"
  /\ Return([deflate EXCEPT !.coder = "here", !.work = "none", !.chunk = <<>>], deflate.chunk)
  /\ UNCHANGED <<coded, inflate, gotten>>

\* At the end of the body, finish; the end of the stream is returned one call later.
CompressFinish ==
  /\ EncoderMayRun /\ ~deflate.eof /\ deflate.work = "none" /\ deflate.left = <<>>
  /\ IF deflate.coder = "here"
     THEN Return([deflate EXCEPT !.coder = "none", !.held = <<>>, !.eof = TRUE], Append(deflate.held, Trailer))
     ELSE Return([deflate EXCEPT !.done = "end"], <<>>)
  /\ UNCHANGED <<coded, inflate, gotten>>

CompressEof ==
  /\ EncoderMayRun /\ deflate.eof
  /\ Return([deflate EXCEPT !.done = "end"], <<>>)
  /\ UNCHANGED <<coded, inflate, gotten>>

\* The body fails: what the compressor holds is dropped, with the connection.
CompressFails ==
  /\ EncoderMayRun /\ ~deflate.eof /\ deflate.work = "none" /\ deflate.left # <<>>
  /\ deflate' = [deflate EXCEPT !.done = "error"]
  /\ \E k \in 0..Len(transit) : transit' = SubSeq(transit, 1, k)
  /\ coded' = [coded EXCEPT !.lost = TRUE]
  /\ UNCHANGED <<inflate, gotten>>

\* The connection is lost with what is on its way.
Lose ==
  /\ EncoderMayRun \/ transit # <<>>
  /\ ~coded.lost
  /\ coded' = [coded EXCEPT !.lost = TRUE]
  /\ \E k \in 0..Len(transit) : transit' = SubSeq(transit, 1, k)
  /\ UNCHANGED <<deflate, inflate, gotten>>

-----------------------------------------------------------------------------
\* ContentDecoder::feed_data: plain bytes and bytes behind the trailer are errors.
Bad(chunk) == inflate.ended \/ \E k \in 1..Len(chunk) : ~chunk[k].z \/ (chunk[k] = Trailer /\ k < Len(chunk))
Unpacked(chunk) ==
  [k \in 1..Len(chunk) - (IF Trailer \in ToSet(chunk) THEN 1 ELSE 0) |-> chunk[k].v]
Fed(d, chunk) ==
  IF Bad(chunk) THEN [d EXCEPT !.done = "error", !.coder = "none"]
  ELSE [d EXCEPT !.ended = Trailer \in ToSet(chunk), !.coder = "here"]
Yield(chunk) == gotten' = IF Bad(chunk) THEN gotten ELSE gotten \o Unpacked(chunk)

DecoderMayRun == coded.job # NoResponse /\ inflate.done = "no"

\* Any part of what has arrived is the next chunk of the payload.
DecompressChunk ==
  /\ DecoderMayRun /\ inflate.work = "none" /\ ~inflate.eof
  /\ \E k \in 1..Len(transit) :
       LET chunk == SubSeq(transit, 1, k)
       IN  /\ transit' = SubSeq(transit, k + 1, Len(transit))
           /\ \/ /\ inflate.coder = "none"
                 /\ inflate' = inflate /\ gotten' = gotten \o [i \in 1..k |-> chunk[i].v]
              \/ /\ inflate.coder = "here" /\ k < DecodeInPlace
                 /\ inflate' = Fed(inflate, chunk) /\ Yield(chunk)
              \/ /\ inflate.coder = "here" /\ k >= DecodeInPlace
                 /\ inflate' = [inflate EXCEPT !.coder = "away", !.work = "running", !.chunk = chunk]
                 /\ UNCHANGED gotten
  /\ UNCHANGED <<coded, deflate>>

DecompressWork ==
  /\ inflate.work = "running"
  /\ inflate' = [inflate EXCEPT !.work = "ready"]
  /\ UNCHANGED <<coded, deflate, transit, gotten>>

DecompressResult ==
  /\ DecoderMayRun /\ inflate.work = "ready"
  /\ inflate' = [Fed(inflate, inflate.chunk) EXCEPT !.work = "none", !.chunk = <<>>]
  /\ Yield(inflate.chunk)
  /\ UNCHANGED <<coded, deflate, transit>>

\* feed_eof: gzip misses its checksum; of the others some notice a missing trailer.
DecompressEnd ==
  /\ DecoderMayRun /\ inflate.work = "none" /\ transit = <<>>
  /\ deflate.done = "end" \/ coded.lost
  /\ \E d \in {"end", "error"} :
       /\ inflate.coder = "none" \/ inflate.ended => d = "end"
       /\ inflate.coder = "here" /\ ~inflate.ended /\ HeaderOf(coded.job) = "gzip" => d = "error"
       /\ inflate' = [inflate EXCEPT !.eof = TRUE, !.coder = "none", !.done = d]
  /\ UNCHANGED <<coded, deflate, transit, gotten>>

CodingInit ==
  /\ coded = [job |-> NoResponse, lost |-> FALSE]
  /\ deflate = BodyEncoder(<<>>, FALSE) /\ inflate = BodyDecoder(FALSE)
  /\ transit = <<>> /\ gotten = <<>>

CodingNext ==
  \/ \E j \in CodingJobs : StartResponse(j)
  \/ CompressChunk \/ CompressWork \/ CompressResult \/ CompressFinish \/ CompressEof \/ CompressFails
  \/ Lose \/ DecompressChunk \/ DecompressWork \/ DecompressResult \/ DecompressEnd
CodingSpec == CodingInit /\ [][CodingNext]_contentcoding

-----------------------------------------------------------------------------
\* Whatever its chunks, whichever of them go to a thread on either side, and however
\* the network cuts them, a body is read as it was written: never reordered, never
\* raw bytes among decompressed ones, whole when nothing was lost, and without an
\* error unless something was lost or the handler lied about its own compression.
\* A gzip body cut short does not look complete.
CodingIsTransparent ==
  LET j == coded.job
  IN  ~j.lies =>
        /\ IsPrefix(gotten, Content(j))
        /\ inflate.done = "end" /\ (~coded.lost \/ HeaderOf(j) = "gzip") => gotten = Content(j)
        /\ inflate.done = "error" => coded.lost
=============================================================================
