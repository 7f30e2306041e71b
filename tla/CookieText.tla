------------------------------- MODULE CookieText -------------------------------
(***************************************************************************)
(* The text of a cookie: cookie/mod.rs, builder.rs and parse.rs.  A parsed *)
(* cookie keeps the text it came from, and its name, value, domain and     *)
(* path are positions in it until a setter gives them strings of their     *)
(* own.  Names of attributes compare without case and are words here;      *)
(* times are words, and 1000 seconds stand for twenty years.               *)
(***************************************************************************)
EXTENDS HeaderText

CONSTANTS CookiePairs,  \* names and values an application gives a cookie
          CookiePaths, CookieDomains, CookieFlags, CookieAges,
          MaxSets,      \* setters called
          MaxTrips      \* times a cookie is shown and parsed
ASSUME CookieFlagsAssumption == CookieFlags \subseteq BOOLEAN \X BOOLEAN \X {"Strict", "Lax", "None"}

\* A CookieStr: Indexed into the cookie's text, or Concrete.
Indexed(range) == [at |-> Some(range), text |-> <<>>]
Concrete(s) == [at |-> None, text |-> s]
ToStr(str, string) == IF str.at = None THEN str.text ELSE SubSeq(string, str.at[1][1], str.at[1][2])

VARIABLES
  crumb,  \* the cookie: its fields, or none before and when its text does not parse
  meant,  \* auxiliary: what its accessors shall return
  text,   \* the header it was last shown in, and whether name and value were encoded
  sets, trips

cookietext == <<crumb, meant, text, sets, trips>>

Attributes == [domain |-> None, path |-> None, secure |-> None, http_only |-> None,
               same_site |-> None, max_age |-> None, expires |-> None]
\* Cookie::new
NewCookie(name, value) ==
  /\ crumb = None /\ trips = 0
  /\ crumb' = Some([string |-> <<>>, name |-> Concrete(name), value |-> Concrete(value)] @@ Attributes)
  /\ meant' = [name |-> name, value |-> value] @@ Attributes
  /\ UNCHANGED <<text, sets, trips>>

\* A chain of CookieBuilder, from Cookie::build to finish; it counts as all the setters.
BuildCookie(name, value, path, flags, permanent) ==
  LET built == [Attributes EXCEPT !.secure = Some(flags[1]), !.http_only = Some(flags[2]), !.same_site = Some(flags[3]),
                                  !.max_age = IF permanent THEN Some(1000) ELSE None,
                                  !.expires = IF permanent THEN Some("twenty years hence") ELSE None]
  IN  /\ crumb = None /\ trips = 0
      /\ crumb' = Some([string |-> <<>>, name |-> Concrete(name), value |-> Concrete(value)]
                        @@ [built EXCEPT !.path = Some(Concrete(path))])
      /\ meant' = [name |-> name, value |-> value] @@ [built EXCEPT !.path = Some(path)]
      /\ sets' = MaxSets /\ UNCHANGED <<text, trips>>

OptionStr(o, string) == IF o = None THEN None ELSE Some(ToStr(o[1], string))
\* What the accessors return.
Accessed(c) == [c EXCEPT !.name = ToStr(c.name, c.string), !.value = ToStr(c.value, c.string),
                     !.domain = OptionStr(c.domain, c.string), !.path = OptionStr(c.path, c.string), !.string = <<>>]

\* The setters, and those of the builder, which call them.
MaySet == crumb # None /\ text = None /\ sets < MaxSets /\ sets' = sets + 1
SetPair(name, value) ==
  /\ MaySet /\ UNCHANGED <<text, trips>>
  /\ crumb' = <<[crumb[1] EXCEPT !.name = Concrete(name), !.value = Concrete(value)]>>
  /\ meant' = [meant EXCEPT !.name = name, !.value = value]
SetPath(path) ==
  /\ MaySet /\ UNCHANGED <<text, trips>>
  /\ crumb' = <<[crumb[1] EXCEPT !.path = Some(Concrete(path))]>> /\ meant' = [meant EXCEPT !.path = Some(path)]
SetDomain(domain) ==
  /\ MaySet /\ UNCHANGED <<text, trips>>
  /\ crumb' = <<[crumb[1] EXCEPT !.domain = Some(Concrete(domain))]>> /\ meant' = [meant EXCEPT !.domain = Some(domain)]
SetFlags(secure, http_only, same_site) ==
  /\ MaySet /\ UNCHANGED <<text, trips>>
  /\ crumb' = <<[crumb[1] EXCEPT !.secure = Some(secure), !.http_only = Some(http_only), !.same_site = Some(same_site)]>>
  /\ meant' = [meant EXCEPT !.secure = Some(secure), !.http_only = Some(http_only), !.same_site = Some(same_site)]
SetAge(age) ==
  /\ MaySet /\ UNCHANGED <<text, trips>>
  /\ crumb' = <<[crumb[1] EXCEPT !.max_age = Some(age)]>> /\ meant' = [meant EXCEPT !.max_age = Some(age)]
MakePermanent ==
  /\ MaySet /\ UNCHANGED <<text, trips>>
  /\ crumb' = <<[crumb[1] EXCEPT !.max_age = Some(1000), !.expires = Some("twenty years hence")]>>
  /\ meant' = [meant EXCEPT !.max_age = Some(1000), !.expires = Some("twenty years hence")]

-----------------------------------------------------------------------------
\* USERINFO: what is encoded; a percent sign is not.
UserInfo == {" ", "\"", "/", ";", "=", "\\", "ctl", "obs"}
Attribute(name, value) == <<";", " ", name, "=">> \o value
\* fmt_parameters
ShownAttributes(c) ==
  LET s == Accessed(c)
  IN  (IF s.http_only = Some(TRUE) THEN <<";", " ", "HttpOnly">> ELSE <<>>)
        \o (IF s.secure = Some(TRUE) THEN <<";", " ", "Secure">> ELSE <<>>)
        \o (IF s.same_site \in {None, Some("None")} THEN <<>> ELSE Attribute("SameSite", s.same_site))
        \o (IF s.path = None THEN <<>> ELSE Attribute("Path", s.path[1]))
        \o (IF s.domain = None THEN <<>> ELSE Attribute("Domain", s.domain[1]))
        \o (IF s.max_age = None THEN <<>> ELSE Attribute("Max-Age", <<ToString(s.max_age[1])>>))
        \o (IF s.expires = None THEN <<>> ELSE Attribute("Expires", s.expires))

\* Display, or that of EncodedCookie.  It is sent unless it is no header value.
ShowCookie(encoded) ==
  /\ crumb # None /\ text = None /\ trips < MaxTrips
  /\ LET c == crumb[1]
         set == IF encoded THEN UserInfo ELSE {}
         s == PercentEncode(Accessed(c).name, set) \o <<"=">> \o PercentEncode(Accessed(c).value, set) \o ShownAttributes(c)
     IN  IsHeaderValue(s) /\ text' = Some([encoded |-> encoded, s |-> s])
  /\ trips' = trips + 1 /\ UNCHANGED sets
  /\ UNCHANGED <<crumb, meant>>

-----------------------------------------------------------------------------
\* The positions from lo to hi of s without spaces at their ends.
TrimRange(s, lo, hi) ==
  LET I == {k \in lo..hi : s[k] # " "}
  IN  IF I = {} THEN <<lo, lo - 1>> ELSE <<CHOOSE a \in I : \A k \in I : a <= k, CHOOSE b \in I : \A k \in I : k <= b>>
\* A piece of s from lo: its key, and the positions of its value, if it has an "=".
Piece(s, lo) ==
  LET hi == lo + Len(PieceFrom(s, lo, ";")) - 1
      eq == {k \in lo..hi : s[k] = "="}
      first == CHOOSE k \in eq : \A l \in eq : k <= l
  IN  IF eq = {} THEN [key |-> TrimRange(s, lo, hi), value |-> None]
      ELSE [key |-> TrimRange(s, lo, first - 1), value |-> Some(TrimRange(s, first + 1, hi))]
TextAt(s, range) == SubSeq(s, range[1], range[2])

\* indexes_of: where a part of the text is.
\* A faulty variant of IndexesOf: positions are those in the attribute that begins at lo.
IndexesInAttribute(range, lo) == <<range[1] - lo + 1, range[2] - lo + 1>>
IndexesOf(range, lo) == range

Ages == -1..1000
ReadAge(v) ==
  IF Len(v) = 1 /\ v[1] \in {ToString(n) : n \in Ages}
  THEN LET n == CHOOSE n \in Ages : ToString(n) = v[1] IN Some(IF n <= 0 THEN 0 ELSE n)
  ELSE None
\* One attribute of the text; what is not known, or not understood, is skipped.
WithAttribute(c, s, lo) ==
  LET p == Piece(s, lo)
      key == TextAt(s, p.key)
      v == TextAt(s, p.value[1])
      dot == IF v # <<>> /\ v[1] = "." THEN 1 ELSE 0
  IN  CASE key = <<"Secure">> -> [c EXCEPT !.secure = Some(TRUE)]
        [] key = <<"HttpOnly">> -> [c EXCEPT !.http_only = Some(TRUE)]
        [] p.value = None -> c
        [] key = <<"Max-Age">> /\ ReadAge(v) # None -> [c EXCEPT !.max_age = ReadAge(v)]
        [] key = <<"Domain">> /\ v # <<>> ->
             [c EXCEPT !.domain = Some(Indexed(IndexesOf(<<p.value[1][1] + dot, p.value[1][2]>>, lo)))]
        [] key = <<"Path">> -> [c EXCEPT !.path = Some(Indexed(IndexesOf(p.value[1], lo)))]
        [] key = <<"SameSite">> /\ v \in {<<"Strict">>, <<"Lax">>} -> [c EXCEPT !.same_site = v]
        [] key = <<"Expires">> /\ v = <<"twenty years hence">> -> [c EXCEPT !.expires = v]
        [] OTHER -> c

\* parse_inner: decoded names and values are Concrete and UTF-8, others Indexed.
ReadCookie(s, decode) ==
  LET starts == Starts(s, ";")
      pair == Piece(s, 1)
      Str(range) == IF decode THEN Concrete(PercentDecode(TextAt(s, range))) ELSE Indexed(range)
  IN  IF \/ pair.value = None \/ TextAt(s, pair.key) = <<>>
         \/ decode /\ ~(IsUtf8(TextAt(s, pair.key)) /\ IsUtf8(TextAt(s, pair.value[1]))) THEN None
      ELSE Some(FoldLeft(LAMBDA c, lo : WithAttribute(c, s, lo),
                         [string |-> s, name |-> Str(pair.key), value |-> Str(pair.value[1])] @@ Attributes,
                         Tail(starts)))

\* What shall be read of a cookie that was shown.
Present(o) == IF o = Some(TRUE) THEN o ELSE None
Trimmed(o) == IF o = None THEN None ELSE Some(Trim(o[1]))
Domain(o) == IF o = None \/ o[1] = <<>> THEN None ELSE IF o[1][1] = "." THEN Some(Tail(o[1])) ELSE o
Kept(a) == [a EXCEPT !.secure = Present(a.secure), !.http_only = Present(a.http_only),
                     !.same_site = IF a.same_site = Some("None") THEN None ELSE a.same_site,
                     !.max_age = IF a.max_age = None THEN None ELSE Some(IF a.max_age[1] < 0 THEN 0 ELSE a.max_age[1]),
                     !.path = Trimmed(a.path), !.domain = Domain(Trimmed(a.domain))]
Carried(s, encoded, decode) ==
  IF decode THEN PercentDecode(s) ELSE IF encoded THEN PercentEncode(s, UserInfo) ELSE s
\* Name and value that are not encoded have no separators or spaces at their ends.
IsBare(s) == {";", "="} \cap ToSet(s) = {} /\ Trim(s) = s
\* What follows a semicolon in a path or a domain is read as attributes.
IsCut(o) == o # None /\ ";" \in ToSet(o[1])
Promised(encoded) ==
  IF ~encoded /\ ~(IsBare(meant.name) /\ IsBare(meant.value)) THEN {}
  ELSE IF IsCut(meant.path) \/ IsCut(meant.domain) THEN {"name", "value"} ELSE DOMAIN meant
ParseCookie(decode) ==
  /\ text # None /\ text' = None
  /\ crumb' = ReadCookie(text[1].s, decode)
  /\ LET e == text[1].encoded
         kept == [Kept(meant) EXCEPT !.name = Carried(@, e, decode), !.value = Carried(@, e, decode)]
     IN  meant' = IF crumb' = None THEN meant
                  ELSE [f \in DOMAIN meant |-> IF f \in Promised(e) THEN kept[f] ELSE Accessed(crumb'[1])[f]]
  /\ UNCHANGED <<sets, trips>>

TextInit ==
  /\ crumb = None /\ meant = [name |-> <<>>, value |-> <<>>] @@ Attributes
  /\ text = None /\ sets = 0 /\ trips = 0
TextNext ==
  \/ \E p \in CookiePairs : NewCookie(p[1], p[2]) \/ SetPair(p[1], p[2])
  \/ \E p \in CookiePairs, s \in CookiePaths, f \in CookieFlags, b \in BOOLEAN : BuildCookie(p[1], p[2], s, f, b)
  \/ \E s \in CookiePaths : SetPath(s)
  \/ \E s \in CookieDomains : SetDomain(s)
  \/ \E f \in CookieFlags : SetFlags(f[1], f[2], f[3])
  \/ \E n \in CookieAges : SetAge(n)
  \/ MakePermanent
  \/ \E e \in BOOLEAN : ShowCookie(e) \/ ParseCookie(e)
TextSpec == TextInit /\ [][TextNext]_cookietext

-----------------------------------------------------------------------------
\* A cookie's accessors return what it was given, before and after it is shown and
\* parsed and with some of its fields set anew on top of a parsed text: encoded names
\* and values survive with any character in them but percent signs before digits, those
\* that are not encoded if they hold no separators or spaces at their ends.  Nothing
\* encodes a path or a domain: it loses the spaces at its ends, and with a semicolon in
\* one of them only name and value survive.  A domain loses its leading dot, an age is
\* not negative, SameSite=None and flags that are off are as good as absent.  The cookie
\* parses unless its name is empty, or what it holds behind percent signs is no UTF-8.
CookieTextSurvives ==
  /\ crumb # None => \A f \in DOMAIN meant : Accessed(crumb[1])[f] = meant[f]
  /\ crumb = None /\ trips > 0 /\ IsBare(meant.name) => meant.name = <<>> \/ ~IsUtf8(meant.name \o meant.value)
=============================================================================
