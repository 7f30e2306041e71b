------------------------------ MODULE TypedHeaders ------------------------------
(***************************************************************************)
(* The typed headers of header/: a value is shown into the lines of a      *)
(* header, and parsed back at the other end (Header::parse).  Headers are  *)
(* single values (Content-Disposition, Content-Range, ETag, If-Range) or   *)
(* comma lists, which may be spread over several lines.                    *)
(*                                                                         *)
(* A value is a record whose `kind` names the header's type.  Variants of  *)
(* DispositionParam and CacheDirective that differ only in whether the     *)
(* library knows the name are one record.                                  *)
(***************************************************************************)
EXTENDS HeaderText

CONSTANTS TypedValues \* the headers an application sets

VARIABLES
  setting, \* the value that is set
  lines,   \* its header: lines of text
  reading, \* what parsing the header yields
  hop      \* the stage: 1 set, 2 read, 3 set again from what was read, 4 read again

typedheaders == <<setting, lines, reading, hop>>

-----------------------------------------------------------------------------
\* Content-Disposition.  A parameter has a name, is extended (name*) or not, and
\* has a value, with a charset and a language if it is extended.
QuotedChars == {"\"", "\\", "ctl"}
Escaped(s) == FlattenSeq([k \in 1..Len(s) |-> IF s[k] \in QuotedChars THEN <<"\\", s[k]>> ELSE <<s[k]>>])

\* Charset: names are read in upper case, so that no text is read as Big5, shown "big5".
Upper(w) == CASE w = "utf-8" -> "UTF-8" [] w = "big5" -> "BIG5" [] w = "iso-8859-1" -> "ISO-8859-1" [] OTHER -> w
KnownCharsets == {"US-ASCII", "ISO-8859-1", "big5"}
ReadCharset(w) == [known |-> Upper(w) \in KnownCharsets, label |-> Upper(w)]

\* HTTP_VALUE: what an extended value encodes ("=" is not among it).
HttpValue == DOMAIN Hex \ {"="}
ShownExtended(p) == <<p.charset.label, "'">> \o p.lang \o <<"'">> \o PercentEncode(p.value, HttpValue)
ShownParam(p) ==
  IF p.ext THEN <<p.name, "*", "=">> \o ShownExtended(p)
  ELSE IF p.name = "name" THEN <<"name", "=">> \o p.value
  ELSE <<p.name, "=", "\"">> \o Escaped(p.value) \o <<"\"">>
ShownDisposition(v) ==
  <<v.type>> \o FlattenSeq([k \in 1..Len(v.params) |-> <<";", " ">> \o ShownParam(v.params[k])])

\* parse_extended_value: charset ' language ' value.
ReadExtended(name, s) ==
  LET first == IndexOf(s, "'")
      second == IndexOf(After(s, first), "'")
  IN  IF first # 2 \/ second = 0 THEN None
      ELSE Some([name |-> name, ext |-> TRUE, charset |-> ReadCharset(s[1]),
                 lang |-> Before(After(s, first), second), value |-> PercentDecode(After(s, first + second))])

Regular(name, value) == [name |-> name, ext |-> FALSE, charset |-> ReadCharset("none"), lang |-> <<>>, value |-> value]

\* A quoted string ends at the first quote no backslash escapes; what follows it up to
\* the next semicolon is skipped.
ReadQuoted(name, s) ==
  LET escaped[k \in 1..Len(s)] == k > 2 /\ s[k - 1] = "\\" /\ ~escaped[k - 1]
      ends == {k \in 2..Len(s) : s[k] = "\"" /\ ~escaped[k]}
      end == CHOOSE k \in ends : \A l \in ends : k <= l
      kept == SelectSeq([k \in 1..(end - 2) |-> k + 1], LAMBDA k : s[k] # "\\" \/ escaped[k])
  IN  IF ends = {} THEN None
      ELSE Some([param |-> Regular(name, [n \in 1..Len(kept) |-> s[kept[n]]]),
                 left |-> TrimStart(SplitOnce(After(s, end), ";")[2])])

\* The parameter at the head of `left`, and what is left behind it.
ReadParam(left) ==
  LET parts == SplitOnceAndTrim(left, "=")
      name == parts[1]
      value == SplitOnceAndTrim(parts[2], ";")
  IN  IF name = <<>> \/ name = <<"*">> \/ parts[2] = <<>> THEN None
      ELSE IF Last(name) = "*" THEN
        LET p == ReadExtended(Head(name), value[1])
        IN  IF p = None THEN None ELSE Some([param |-> p[1], left |-> value[2]])
      ELSE IF parts[2][1] = "\"" THEN ReadQuoted(Head(name), parts[2])
      ELSE IF value[1] = <<>> THEN None
      ELSE Some([param |-> Regular(Head(name), value[1]), left |-> value[2]])

RECURSIVE ReadParams(_, _)
ReadParams(left, params) ==
  IF left = <<>> THEN Some(params)
  ELSE LET p == ReadParam(left) IN IF p = None THEN None ELSE ReadParams(p[1].left, Append(params, p[1].param))

\* ContentDisposition::from_raw reads UTF-8.
ReadDisposition(line) ==
  LET parts == SplitOnceAndTrim(Trim(line), ";")
      params == ReadParams(parts[2], <<>>)
  IN  IF parts[1] = <<>> \/ params = None THEN None
      ELSE Some([kind |-> "disposition", type |-> parts[1][1], params |-> params[1]])

-----------------------------------------------------------------------------
\* Items of comma lists.  An entity tag:
ShownTag(t) == (IF t.weak THEN <<"W/">> ELSE <<>>) \o <<"\"">> \o t.tag \o <<"\"">>
IsTagText(s) == ToSet(s) \cap {" ", "\"", "ctl"} = {}
ReadTag(s) ==
  IF Len(s) >= 2 /\ Last(s) = "\"" /\ s[1] = "\"" /\ IsTagText(SubSeq(s, 2, Len(s) - 1))
  THEN Some([weak |-> FALSE, tag |-> SubSeq(s, 2, Len(s) - 1)])
  ELSE IF Len(s) >= 3 /\ Last(s) = "\"" /\ SubSeq(s, 1, 2) = <<"W/", "\"">> /\ IsTagText(SubSeq(s, 3, Len(s) - 1))
  THEN Some([weak |-> TRUE, tag |-> SubSeq(s, 3, Len(s) - 1)])
  ELSE None

\* An item with a quality, in thousandths; one numeral is the whole of "0.25".
ShownQuality(i) == i.item \o IF i.q = 1000 THEN <<>> ELSE <<";", " ", "q=", ToString(i.q)>>
\* The text of n thousandths is the nearest f32, of 24 bits; times 1000 is rounded to
\* 24 bits again, and truncated.  With n scaled into 1000..1999, the first rounding is
\* down by (scaled * 2^23) % 1000, if that is below 500; the second makes up for 256.
Scaled(n) == CHOOSE m \in {n * 2^t : t \in 0..10} : m \in 1000..1999
FromF32(n) ==
  IF n \in {0, 1000} THEN n
  ELSE LET m == Scaled(n) IN IF m < 1024 /\ ((m * 608) % 1000) \in 257..499 THEN n - 1 ELSE n
\* What mime parses: a type, and parameters whose quotes are closed.
MimeTypes == {"text", "*"}
IsMime(s) == s # <<>> /\ s[1] \in MimeTypes /\ Cardinality({k \in 1..Len(s) : s[k] = "\""}) % 2 = 0
\* Behind the last semicolon, which may be inside quotes, are two characters at least.
OneChar == {"\""}
LastPart(s) == Trim(After(s, SelectLastInSeq(s, LAMBDA c : c = ";")))
IsPart(s) == Len(s) > 1 \/ (Len(s) = 1 /\ s[1] \notin OneChar)
ReadQuality(s) ==
  LET k == SelectLastInSeq(s, LAMBDA c : c = ";")
      rated == k # 0 /\ IsPart(LastPart(s)) /\ LastPart(s)[1] = "q="
      item == IF rated THEN Trim(Before(s, k)) ELSE s
      number == IF rated THEN ParseNumber(Tail(LastPart(s))) ELSE Some(1000)
  IN  IF (k # 0 /\ ~IsPart(LastPart(s))) \/ number = None \/ ~IsMime(item) THEN None
      ELSE Some([item |-> item, q |-> FromF32(number[1])])

\* A cache directive: a name, and perhaps an argument.
FlagDirectives == {<<"no-cache">>, <<"no-store">>, <<"private">>}
SecondsDirectives == {<<"max-age">>, <<"s-maxage">>}
ShownDirective(d) == d.name \o IF d.arg = None THEN <<>> ELSE <<"=">> \o d.arg[1]
TrimQuotes(s) ==
  LET a == SelectInSeq(s, LAMBDA c : c # "\"") IN IF a = 0 THEN <<>> ELSE SubSeq(s, a, SelectLastInSeq(s, LAMBDA c : c # "\""))
ReadDirective(s) ==
  LET k == IndexOf(s, "=")
      left == Before(s, k)
      right == TrimQuotes(After(s, k))
  IN  IF s \in FlagDirectives \/ k = 0 THEN Some([name |-> s, arg |-> None])
      ELSE IF k = Len(s) \/ (left \in SecondsDirectives /\ ParseNumber(right) = None) THEN None
      ELSE Some([name |-> left, arg |-> Some(right)])

ShownItem(kind, i) ==
  CASE kind = "etags" -> ShownTag(i) [] kind = "accept" -> ShownQuality(i) [] kind = "cache" -> ShownDirective(i)
ReadItem(kind, s) ==
  CASE kind = "etags" -> ReadTag(s) [] kind = "accept" -> ReadQuality(s) [] kind = "cache" -> ReadDirective(s)

\* fmt_comma_delimited
ShownList(kind, items) ==
  FlattenSeq([k \in 1..Len(items) |-> (IF k = 1 THEN <<>> ELSE <<",", " ">>) \o ShownItem(kind, items[k])])
\* from_comma_delimited: what does not parse is left out.
ReadLine(kind, line) ==
  LET pieces == Split(line, ",")
  IN  FlattenSeq([k \in 1..Len(pieces) |->
        LET s == Trim(pieces[k]) IN IF s = <<>> THEN <<>> ELSE ReadItem(kind, s)])
ReadList(kind) ==
  IF \E k \in 1..Len(lines) : ~IsAscii(lines[k]) THEN None
  ELSE Some(FlattenSeq([k \in 1..Len(lines) |-> ReadLine(kind, lines[k])]))

-----------------------------------------------------------------------------
\* Content-Range: bytes with a range and a length, each or none, or another unit.
ShownRange(v) ==
  <<"bytes", " ">> \o (IF v.range = None THEN <<"*">> ELSE <<ToString(v.range[1][1]), "-", ToString(v.range[1][2])>>)
    \o <<"/">> \o (IF v.length = None THEN <<"*">> ELSE <<ToString(v.length[1])>>)
ReadBytes(resp) ==
  LET slash == IndexOf(resp, "/")
      range == Before(resp, slash)
      dash == IndexOf(range, "-")
      first == ParseNumber(Before(range, dash))
      last == ParseNumber(After(range, dash))
      length == After(resp, slash)
      bounds == IF range = <<"*">> THEN None ELSE Some(<<first[1], last[1]>>)
  IN  IF \/ slash = 0 \/ (length # <<"*">> /\ ParseNumber(length) = None)
         \/ range # <<"*">> /\ (dash = 0 \/ first = None \/ last = None \/ last[1] < first[1])
      THEN None
      ELSE Some([kind |-> "range", range |-> bounds, length |-> IF length = <<"*">> THEN None ELSE ParseNumber(length)])
ReadRange(line) ==
  LET space == IndexOf(line, " ")
  IN  IF space = 0 THEN None
      ELSE IF Before(line, space) = <<"bytes">> THEN ReadBytes(After(line, space))
      ELSE Some([kind |-> "units", unit |-> Before(line, space), resp |-> After(line, space)])

\* ETag, and If-Range, which is a tag or a date.
ReadOneTag(kind, line) ==
  LET t == ReadTag(line) IN IF t = None THEN None ELSE Some([kind |-> kind, tag |-> t])
ReadIfRange(line) ==
  IF ReadTag(line) # None THEN ReadOneTag("if-range", line)
  ELSE IF line = <<"date">> THEN Some([kind |-> "if-range", tag |-> None])
  ELSE None

-----------------------------------------------------------------------------
\* Display of a header's value, as one line.
Shown(v) ==
  CASE v.kind = "disposition" -> ShownDisposition(v)
    [] v.kind = "any" -> <<"*">>
    [] v.kind \in {"etags", "accept", "cache"} -> ShownList(v.kind, v.items)
    [] v.kind = "range" -> ShownRange(v)
    [] v.kind = "units" -> v.unit \o <<" ">> \o v.resp
    [] v.kind \in {"etag", "if-range"} -> IF v.tag = None THEN <<"date">> ELSE ShownTag(v.tag[1])

\* Header::parse of the type that v has; only from_raw takes what is not ASCII, and
\* only the lists take an empty line.
ReadOne(kind, line) ==
  CASE kind = "disposition" -> ReadDisposition(line)
    [] line = <<>> \/ ~IsAscii(line) -> None
    [] kind \in {"range", "units"} -> ReadRange(line)
    [] kind = "etag" -> ReadOneTag("etag", line)
    [] kind = "if-range" -> ReadIfRange(line)
ReadHeader(kind) ==
  CASE kind \in {"any", "etags"} /\ Trim(lines[1]) = <<"*">> -> Some([kind |-> "any"])
    [] kind \in {"any", "etags", "accept", "cache"} ->
         LET items == ReadList(kind)
         IN  IF items = None \/ (kind = "cache" /\ items[1] = <<>>) THEN None
             ELSE Some([kind |-> kind, items |-> items[1]])
    [] OTHER -> ReadOne(kind, lines[1])

-----------------------------------------------------------------------------
IsList(v) == v.kind \in {"etags", "accept", "cache"}

\* try_into: text with a control character is refused, and no header set.
SetHeader(v) ==
  /\ hop = 0 /\ setting' = v /\ hop' = 1
  /\ lines' = IF IsHeaderValue(Shown(v)) THEN <<Shown(v)>> ELSE <<>>
  /\ UNCHANGED reading

\* Another sender gives each item of a list a line of its own.
SetInLines(v) ==
  /\ hop = 0 /\ IsList(v) /\ Len(v.items) > 1 /\ setting' = v /\ hop' = 1
  /\ lines' = [k \in 1..Len(v.items) |-> Shown([v EXCEPT !.items = <<v.items[k]>>])]
  /\ UNCHANGED reading

ParseHeader ==
  /\ hop \in {1, 3} /\ lines # <<>>
  /\ reading' = ReadHeader(setting.kind) /\ hop' = hop + 1
  /\ UNCHANGED <<setting, lines>>

\* What was read is set in another message.
SetAgain ==
  /\ hop = 2 /\ reading # None /\ setting' = reading[1] /\ hop' = 3
  /\ lines' = <<Shown(reading[1])>>
  /\ UNCHANGED reading

TypedInit == setting = [kind |-> "any"] /\ lines = <<>> /\ reading = None /\ hop = 0
TypedNext == \/ \E v \in TypedValues : SetHeader(v) \/ SetInLines(v)
             \/ ParseHeader \/ SetAgain
TypedSpec == TypedInit /\ [][TypedNext]_typedheaders

-----------------------------------------------------------------------------
\* Items that vanish: entity tags and media types with a comma, media types without a
\* quality that have one character, or a "q=", behind a semicolon inside quotes,
\* directives with an empty argument or with one that is no number of seconds.  Others
\* change: a quality may lose a thousandth, an argument its quotes.
Survives(kind, i) ==
  CASE kind = "etags" -> "," \notin ToSet(i.tag)
    [] kind = "accept" ->
         "," \notin ToSet(i.item)
           /\ (i.q = 1000 /\ ";" \in ToSet(i.item) => IsPart(LastPart(i.item)) /\ LastPart(i.item)[1] # "q=")
    [] kind = "cache" -> i.arg # None => Trim(i.arg[1]) # <<>> /\ (i.name \in SecondsDirectives => ParseNumber(i.arg[1]) # None)
SameItem(kind, i, j) ==
  CASE kind = "etags" -> i = j
    [] kind = "accept" -> i.item = j.item /\ j.q \in {i.q - 1, i.q}
    [] kind = "cache" -> i.name = j.name /\ j.arg = IF i.arg = None THEN None ELSE Some(TrimQuotes(Trim(i.arg[1])))
SameItems(v, r) ==
  LET kept == SelectSeq(v.items, LAMBDA i : Survives(v.kind, i))
  IN  IF ~\A k \in 1..Len(lines) : IsAscii(lines[k]) THEN r = None
      ELSE IF v.kind = "cache" /\ kept = <<>> THEN r = None
      ELSE /\ r # None /\ Len(r[1].items) = Len(kept)
           /\ \A k \in 1..Len(kept) : SameItem(v.kind, kept[k], r[1].items[k])

\* The parameters up to an unquoted `name` that is no token, and all if there is none.
IsToken(s) == s # <<>> /\ s = Trim(s) /\ ";" \notin ToSet(s) /\ s[1] # "\""
Sound(v) == LET k == SelectInSeq(v.params, LAMBDA p : p.name = "name" /\ ~IsToken(p.value))
            IN  IF k = 0 THEN Len(v.params) ELSE k - 1
SameParam(p, r) ==
  /\ p.name = r.name /\ p.ext = r.ext /\ p.value = r.value /\ p.lang = r.lang
  /\ p.ext => r.charset = ReadCharset(p.charset.label)
SameDisposition(v, r) ==
  /\ Sound(v) = Len(v.params) => r # None /\ Len(r[1].params) = Len(v.params)
  /\ r # None => r[1].type = v.type /\ \A k \in 1..Sound(v) : SameParam(v.params[k], r[1].params[k])

\* Commas between which from_comma_delimited may find an item nobody set.
Commas(s) == Cardinality({k \in 1..Len(s) : s[k] = ","})
Mangled(v) ==
  \/ v.kind = "cache" /\ \E k \in 1..Len(v.items) : v.items[k].arg # None /\ Commas(v.items[k].arg[1]) > 0
  \/ v.kind = "accept" /\ \E k \in 1..Len(v.items) : Commas(v.items[k].item) > 1

SameHeader(v, r) ==
  CASE v.kind = "disposition" -> SameDisposition(v, r)
    [] Mangled(v) -> TRUE
    [] IsList(v) -> SameItems(v, r)
    [] v.kind = "range" /\ v.range # None /\ v.range[1][1] > v.range[1][2] -> r = None
    [] v.kind = "units" /\ v.unit = <<"bytes">> -> r = None \/ r[1].kind = "range"
    [] v.kind \in {"etag", "if-range"} /\ ~IsAscii(lines[1]) -> r = None
    [] OTHER -> r = Some(v)

=============================================================================
