------------------------------- MODULE HeaderText -------------------------------
(***************************************************************************)
(* The text of header values, and the functions on it that the parsers of  *)
(* actix-http share.  A text is a sequence of tokens: a character that     *)
(* some parser looks at, or a word that none looks into.  "ctl" is a       *)
(* control character, "obs" a character outside ASCII, "%FF" a byte in its *)
(* encoding that is no UTF-8.                                              *)
(***************************************************************************)
EXTENDS Integers, Sequences, SequencesExt, TLC

\* Option and Result: a value, or none.
Some(v) == <<v>>
None == <<>>

After(s, k) == SubSeq(s, k + 1, Len(s))
Before(s, k) == SubSeq(s, 1, k - 1)
IndexOf(s, c) == SelectInSeq(s, LAMBDA d : d = c)

TrimStart(s) == LET k == SelectInSeq(s, LAMBDA d : d # " ") IN IF k = 0 THEN <<>> ELSE After(s, k - 1)
TrimEnd(s) == SubSeq(s, 1, SelectLastInSeq(s, LAMBDA d : d # " "))
Trim(s) == TrimStart(TrimEnd(s))

\* At the first needle, or at the end.
SplitOnce(s, needle) ==
  LET k == IndexOf(s, needle) IN IF k = 0 THEN <<s, <<>>>> ELSE <<Before(s, k), After(s, k)>>
SplitOnceAndTrim(s, needle) ==
  LET parts == SplitOnce(s, needle) IN <<TrimEnd(parts[1]), TrimStart(parts[2])>>

\* Where the pieces of s between needles start: one behind each of them.
Starts(s, needle) == SelectSeq([k \in 1..(Len(s) + 1) |-> k], LAMBDA k : k = 1 \/ s[k - 1] = needle)
PieceFrom(s, k, needle) == SplitOnce(SubSeq(s, k, Len(s)), needle)[1]
Split(s, needle) ==
  LET starts == Starts(s, needle) IN [n \in 1..Len(starts) |-> PieceFrom(s, starts[n], needle)]

\* A numeral is one token.
Numerals == {ToString(n) : n \in 0..1000}
ParseNumber(s) ==
  IF Len(s) = 1 /\ s[1] \in Numerals THEN Some(CHOOSE n \in 0..1000 : ToString(n) = s[1]) ELSE None

\* percent_encode and percent_decode: an encoded character is one token.
Hex == (" " :> "%20") @@ ("\"" :> "%22") @@ ("%" :> "%25") @@ ("'" :> "%27") @@ ("," :> "%2C")
         @@ ("/" :> "%2F") @@ (";" :> "%3B") @@ ("=" :> "%3D") @@ ("\\" :> "%5C") @@ ("ctl" :> "%01") @@ ("obs" :> "%C3%A9")
PercentEncode(s, set) == [k \in 1..Len(s) |-> IF s[k] \in set THEN Hex[s[k]] ELSE s[k]]
PercentDecode(s) ==
  [k \in 1..Len(s) |-> IF \E c \in DOMAIN Hex : Hex[c] = s[k]
                       THEN CHOOSE c \in DOMAIN Hex : Hex[c] = s[k] ELSE s[k]]
\* Whether decode_utf8 accepts what percent_decode returns.
IsUtf8(s) == "%FF" \notin ToSet(s)

\* HeaderValue: text without control characters; to_str refuses what is not ASCII.
IsHeaderValue(s) == "ctl" \notin ToSet(s)
IsAscii(s) == "obs" \notin ToSet(s)
=============================================================================
