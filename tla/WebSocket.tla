------------------------------ MODULE WebSocket ------------------------------
(***************************************************************************)
(* One direction of a WebSocket connection: the handshake of ws/mod.rs,    *)
(* the Codec of ws/codec.rs as encoder and as decoder, the frames of       *)
(* ws/frame.rs and the masking of ws/mask.rs, with a network that hands    *)
(* over one byte after the other.  The other peer may also be one that     *)
(* writes frames this codec never would.                                   *)
(*                                                                         *)
(* A byte is a number below Base; the first two bytes of a frame, which    *)
(* are fields of bits, are records.  Base and Short stand for 256 and 126; *)
(* the widths of lengths and masks are those of the code.                  *)
(***************************************************************************)
EXTENDS Integers, Sequences

CONSTANTS Base,       \* values of a byte
          Xor(_, _),  \* exclusive or of two bytes
          Short,      \* the length code 126; lengths below it are immediate
          MaxSize,    \* Codec.max_size
          WsRequests, \* upgrade requests: a subset of HandshakeRequests
          WsScripts,  \* what a peer sends: sequences of WsMessages or of WsFrames
          WsMasks     \* masks a client draws: sequences of four bytes

WsBytes == 0..Base - 1
OpCodes == {"Continue", "Text", "Binary", "Close", "Ping", "Pong"}
WsFrames == [fin : BOOLEAN, op : OpCodes \cup {"Bad"}, masked : BOOLEAN, pl : Seq(WsBytes)]
WsMessages ==
  [msg : (OpCodes \ {"Continue"}) \cup {"FirstText", "FirstBinary", "Next", "Last", "Nop"},
   pl  : Seq(WsBytes)]
HandshakeRequests ==
  [get : BOOLEAN, upgrade : {"websocket", "other", "none"}, connection : BOOLEAN,
   version : {"13", "8", "7", "other", "none"}, key : BOOLEAN]

\* A number without its last k bytes, for every k up to width.
Shifted(n, width) == LET S[k \in 0..width] == IF k = 0 THEN n ELSE S[k - 1] \div Base IN S
Fits(n, width) == Shifted(n, width)[width] = 0

ASSUME WsSizesAssumption ==
  /\ Base \in Nat \ {0, 1} /\ Short \in Nat \ {0} /\ MaxSize \in Nat
ASSUME XorAssumption ==
  \A a, b \in WsBytes : Xor(a, b) \in WsBytes /\ Xor(Xor(a, b), b) = a
ASSUME WsRequestsAssumption == WsRequests \subseteq HandshakeRequests
ASSUME WsScriptsAssumption ==
  \A s \in WsScripts :
    /\ s # <<>> /\ (s \in Seq(WsMessages) \/ s \in Seq(WsFrames))
    /\ \A k \in 1..Len(s) : Fits(Len(s[k].pl), 8)
ASSUME WsMasksAssumption == WsMasks \subseteq [1..4 -> WsBytes] /\ WsMasks # {}

VARIABLES
  link,   \* the script and who sends it; "none" before the handshake
  unsent, \* messages the application has not given to the encoder yet
  accepted, \* those it has, without the ones that the encoder refused or that are no frames
  cont,   \* the codec flags W_CONTINUATION of the sender, CONTINUATION of the receiver
  bytes,  \* under way
  buffer, \* the receiver's read buffer
  frames, \* what the decoder has returned
  failed  \* the error that ended the decoder

ws == <<link, unsent, accepted, cont, bytes, buffer, frames, failed>>

-----------------------------------------------------------------------------
(* Masking. *)

\* apply_mask: an unaligned head, whole words and a tail, where `start` is the
\* address of the buffer modulo the word of 8 bytes.
HeadLength(len, start) ==
  LET aligned == (8 - start) % 8
  IN  IF start + len < 8 /\ start # 0 THEN len ELSE aligned

\* A faulty variant of ApplyMask: behind the head the mask starts anew.
ApplyMaskUnrotated(buf, mask, start) ==
  LET head == HeadLength(Len(buf), start)
  IN  [k \in 1..Len(buf) |-> Xor(buf[k], mask[((IF k <= head THEN k - 1 ELSE k - head - 1) % 4) + 1])]

ApplyMask(buf, mask, start) ==
  LET head == HeadLength(Len(buf), start)
      rotated == [k \in 1..8 |-> mask[((head + k - 1) % 4) + 1]]
  IN  [k \in 1..Len(buf) |->
         IF k <= head THEN Xor(buf[k], mask[((k - 1) % 4) + 1])
         ELSE Xor(buf[k], rotated[((k - head - 1) % 8) + 1])]

-----------------------------------------------------------------------------
(* Frames. *)

\* A number as `width` bytes, big end first, and back.
BigEndian(n, width) == [k \in 1..width |-> Shifted(n, width)[width - k] % Base]
Number(bs) ==
  LET N[k \in 0..Len(bs)] == IF k = 0 THEN 0 ELSE N[k - 1] * Base + bs[k] IN N[Len(bs)]

\* Parser::write_message.
WriteMessage(pl, op, fin, mask, key, start) ==
  LET n == Len(pl)
      code == IF n < Short THEN n ELSE IF Fits(n, 2) THEN Short ELSE Short + 1
  IN  <<[fin |-> fin, op |-> op], [masked |-> mask, len |-> code]>>
      \o (IF code = Short THEN BigEndian(n, 2) ELSE IF code > Short THEN BigEndian(n, 8) ELSE <<>>)
      \o (IF mask THEN key \o ApplyMask(pl, key, start) ELSE pl)

NeedMore == [tag |-> "more"]
Err(e) == [tag |-> "error", error |-> e]

\* Parser::parse_metadata, for as many bytes as there are.
ParseMetadata(src, server) ==
  LET code  == src[2].len
      wide  == IF code = Short THEN 2 ELSE IF code > Short THEN 8 ELSE 0
      len   == IF wide = 0 THEN code ELSE Number(SubSeq(src, 3, 2 + wide))
      total == 2 + wide + (IF server THEN 4 ELSE 0)
  IN  IF Len(src) < 2 THEN NeedMore
      ELSE IF ~src[2].masked /\ server THEN Err("UnmaskedFrame")
      ELSE IF src[2].masked /\ ~server THEN Err("MaskedFrame")
      ELSE IF src[1].op = "Bad" THEN Err("InvalidOpcode")
      ELSE IF Len(src) < 2 + wide THEN NeedMore
      ELSE IF len > MaxSize THEN Err("Overflow")
      ELSE IF Len(src) < total THEN NeedMore
      ELSE [tag |-> "metadata", idx |-> total, fin |-> src[1].fin, op |-> src[1].op,
            len |-> len, key |-> SubSeq(src, 3 + wide, total)]

\* Parser::parse: a whole frame, unmasked.  An empty one is not checked, and a
\* long Close loses its reason.
Parse(src, server, start) ==
  LET m == ParseMetadata(src, server)
      data == SubSeq(src, m.idx + 1, m.idx + m.len)
      frame == [tag |-> "frame", fin |-> m.fin, op |-> m.op, used |-> m.idx + m.len,
                pl |-> IF server THEN ApplyMask(data, m.key, start) ELSE data]
  IN  IF m.tag # "metadata" THEN m
      ELSE IF Len(src) < m.idx + m.len THEN NeedMore
      ELSE IF m.len >= Short /\ m.op \in {"Ping", "Pong"} THEN Err("InvalidLength")
      ELSE IF m.len >= Short /\ m.op = "Close" THEN [frame EXCEPT !.fin = TRUE, !.pl = <<>>]
      ELSE frame

\* parse_close_payload: a reason needs the two bytes of its code.
CloseReason(pl) == IF Len(pl) >= 2 THEN pl ELSE <<>>

-----------------------------------------------------------------------------
(* The codec.  Each message or frame either goes with a new value of the
   continuation flag, or is an error. *)

Goes(op, fin, flag) == [tag |-> "frame", op |-> op, fin |-> fin, cont |-> flag]

\* Codec::encode; the opcodes of the two kinds of first fragments are exchanged.
Encode(msg, flag) ==
  CASE msg \in {"Text", "Binary", "Ping", "Pong", "Close"} -> Goes(msg, TRUE, flag)
    [] msg = "FirstText"   -> IF flag THEN Err("ContinuationStarted") ELSE Goes("Binary", FALSE, TRUE)
    [] msg = "FirstBinary" -> IF flag THEN Err("ContinuationStarted") ELSE Goes("Text", FALSE, TRUE)
    [] msg = "Next" -> IF flag THEN Goes("Continue", FALSE, TRUE) ELSE Err("ContinuationNotStarted")
    [] msg = "Last" -> IF flag THEN Goes("Continue", TRUE, FALSE) ELSE Err("ContinuationNotStarted")
    [] msg = "Nop"  -> [tag |-> "nothing"]

\* Codec::decode of a parsed frame.
Classify(f, flag) ==
  LET Gives(msg, after) == [tag |-> "message", msg |-> msg, cont |-> after]
  IN  CASE f.op = "Continue" -> IF flag THEN Gives(IF f.fin THEN "Last" ELSE "Next", ~f.fin)
                                ELSE Err("ContinuationNotStarted")
        [] f.fin /\ f.op # "Continue" -> Gives(f.op, flag)
        [] ~f.fin /\ f.op \in {"Binary", "Text"} ->
             IF flag THEN Err("ContinuationStarted") ELSE Gives(IF f.op = "Text" THEN "FirstText" ELSE "FirstBinary", TRUE)
        [] ~f.fin /\ f.op \in {"Close", "Ping", "Pong"} -> Err("ContinuationFragment")

-----------------------------------------------------------------------------
(* The connection. *)

\* verify_handshake: the first test that fails, in the order of the code.
VerifyHandshake(req) ==
  IF ~req.get THEN "GetMethodRequired"
  ELSE IF req.upgrade # "websocket" THEN "NoWebsocketUpgrade"
  ELSE IF ~req.connection THEN "NoConnectionUpgrade"
  ELSE IF req.version = "none" THEN "NoVersionHeader"
  ELSE IF req.version = "other" THEN "UnsupportedVersion"
  ELSE IF ~req.key THEN "BadWebsocketKey"
  ELSE "ok"

NoLink == [open |-> FALSE, codec |-> FALSE, client |-> FALSE, script |-> <<>>]

\* Then one side sends its script: the client, whose frames are masked, or the
\* server; through this codec or another one.
Handshake ==
  /\ link = NoLink /\ failed = "none"
  /\ \E req \in WsRequests :
       IF VerifyHandshake(req) # "ok"
       THEN failed' = VerifyHandshake(req) /\ UNCHANGED <<link, unsent>>
       ELSE \E s \in WsScripts, client \in BOOLEAN :
              /\ link' = [open |-> TRUE, codec |-> "msg" \in DOMAIN s[1], client |-> client, script |-> s]
              /\ unsent' = s
              /\ UNCHANGED failed
  /\ UNCHANGED <<accepted, cont, bytes, buffer, frames>>

\* Encoder and buffers meet the memory as it is aligned.
Alignments == {0, 5, 7}

Send ==
  /\ unsent # <<>>
  /\ \E key \in WsMasks, start \in Alignments :
       LET m == Head(unsent)
           e == IF link.codec THEN Encode(m.msg, cont.w) ELSE Goes(m.op, m.fin, cont.w)
           mask == IF link.codec THEN link.client ELSE m.masked
       IN  CASE e.tag = "frame" ->
                  /\ bytes' = bytes \o WriteMessage(m.pl, e.op, e.fin, mask, key, start)
                  /\ cont' = [cont EXCEPT !.w = e.cont]
                  /\ accepted' = Append(accepted, m)
             [] e.tag \in {"error", "nothing"} -> UNCHANGED <<bytes, cont, accepted>>
  /\ unsent' = Tail(unsent)
  /\ UNCHANGED <<link, buffer, frames, failed>>

\* A byte arrives and the codec, the server's or the client's, tries to decode.
Receive ==
  /\ bytes # <<>> /\ failed = "none"
  /\ bytes' = Tail(bytes)
  /\ \E start \in Alignments :
       LET src == Append(buffer, Head(bytes))
           p == Parse(src, link.client, start)
           c == Classify(p, cont.r)
       IN  IF p.tag = "more" THEN buffer' = src /\ UNCHANGED <<cont, frames, failed>>
           ELSE IF p.tag = "error" THEN /\ failed' = p.error
                                        /\ UNCHANGED <<cont, buffer, frames>>
           ELSE IF c.tag = "error" THEN /\ failed' = c.error
                                        /\ UNCHANGED <<cont, buffer, frames>>
           ELSE /\ buffer' = SubSeq(src, p.used + 1, Len(src))
                /\ cont' = [cont EXCEPT !.r = c.cont]
                /\ frames' = Append(frames, [msg |-> c.msg,
                                             pl |-> IF c.msg = "Close" THEN CloseReason(p.pl) ELSE p.pl])
                /\ UNCHANGED failed
  /\ UNCHANGED <<link, unsent, accepted>>

WsInit ==
  /\ link = NoLink /\ unsent = <<>> /\ accepted = <<>> /\ bytes = <<>> /\ buffer = <<>> /\ frames = <<>>
  /\ cont = [w |-> FALSE, r |-> FALSE] /\ failed = "none"

WsNext == Handshake \/ Send \/ Receive
WsSpec == WsInit /\ [][WsNext]_ws

-----------------------------------------------------------------------------
\* A message as the peer should see it.
Seen(m) ==
  [msg |-> CASE m.msg = "FirstText" -> "FirstBinary" [] m.msg = "FirstBinary" -> "FirstText"
             [] OTHER -> m.msg,
   pl  |-> IF m.msg = "Close" /\ (Len(m.pl) < 2 \/ Len(m.pl) >= Short) THEN <<>> ELSE m.pl]

\* What the decoder refuses of the encoder's own frames.
TooLong(m) == Len(m.pl) > MaxSize \/ (Len(m.pl) >= Short /\ m.msg \in {"Ping", "Pong"})

\* Fragments come as one first, any number of next ones and a last, with nothing
\* but whole messages between.
FragmentsNest ==
  LET Opens(k) == frames[k].msg \in {"FirstText", "FirstBinary"}
      Open(k) == \E j \in 1..k - 1 : Opens(j) /\ \A i \in j + 1..k - 1 : frames[i].msg # "Last"
  IN  \A k \in 1..Len(frames) :
        /\ Opens(k) => ~Open(k)
        /\ frames[k].msg \in {"Next", "Last"} => Open(k)

\* The receiver sees the messages the sender's codec accepted, in order and byte
\* for byte (but for the kind of fragmented messages, which the encoder exchanges,
\* and for reasons of Close that are too long), however the bytes arrive and are
\* aligned; it fails only at one that is too long.  And whoever sends, fragments
\* nest.
FramesAreMessages ==
  /\ link.open /\ link.codec =>
       /\ Len(frames) <= Len(accepted)
       /\ \A k \in 1..Len(frames) : frames[k] = Seen(accepted[k])
       /\ bytes = <<>> /\ failed = "none" => Len(frames) = Len(accepted)
       /\ failed # "none" => TooLong(accepted[Len(frames) + 1])
  /\ FragmentsNest
=============================================================================
