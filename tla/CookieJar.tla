------------------------------ MODULE CookieJar ------------------------------
(***************************************************************************)
(* Cookies between a browser and handlers: Request::cookies of             *)
(* httpmessage.rs, the CookieJar of cookie/jar.rs with its signed and      *)
(* private children, and the Set-Cookie headers of a ResponseBuilder and a *)
(* Response (response.rs), which are a list of a HeaderMap.                *)
(*                                                                         *)
(* A cookie's text is kept as the record of what made it; paths, domains   *)
(* and dates are left out, so that a removal always hits.  The value       *)
(* "percent" contains a percent sign and two digits, "undecodable" digits  *)
(* that decode to no UTF-8, "accented" a letter outside ASCII, "control" a *)
(* character no header may hold.                                           *)
(***************************************************************************)
EXTENDS HeaderMap, Functions

CONSTANTS CookieNames,
          CookieWrites, \* what handlers add: a subset of Kinds of jar \X values
          MaxCookieOps  \* operations of the handlers in a behaviour

ASSUME CookieWritesAssumption ==
  CookieWrites \subseteq
    {"plain", "signed", "private"} \X {"text", "percent", "undecodable", "accented", "control"}
ASSUME CookieBoundAssumption == MaxCookieOps \in Nat

VARIABLES
  browser,   \* the cookies it holds
  jarOrig,   \* CookieJar.original_cookies
  jarDelta,  \* CookieJar.delta_cookies
  setCookie, \* the Set-Cookie headers of the response
  phase,     \* "idle", "building" or "built"
  jarKey,    \* the server's key
  wanted,    \* auxiliary: what the handler wants the browser to hold
  jarOps     \* auxiliary: operations so far; and of this response whether a name is
             \* set twice in it, whether the jar does not know all the browser's
             \* cookies, and the names whose removal goes unheard

cookies == <<browser, jarOrig, jarDelta, setCookie, phase, jarKey, wanted, jarOps>>

NoCookie == [how |-> "none", key |-> 0, mac |-> "none", v |-> "none"]
Removal(n) == [name |-> n, removed |-> TRUE, c |-> NoCookie]
Added(n, c) == [name |-> n, removed |-> FALSE, c |-> c]

\* The sets of a jar hash and compare their members by name alone.
Others(set, n) == {d \in set : d.name # n}
Replaced(set, d) == Others(set, d.name) \cup {d}
Named(set, n) == {d \in set : d.name = n}

\* sign_cookie writes a digest before the value; encrypt_cookie hides it.
Made(how, v) == [how |-> how, key |-> IF how = "plain" THEN 0 ELSE jarKey,
                 mac |-> IF how = "signed" THEN v ELSE "none", v |-> v]

\* Display writes name and value as they are, and parse_encoded decodes what it
\* reads; base64 has no percent sign.
Decode64(c) == IF c.v = "percent" /\ c.how # "private" THEN [c EXCEPT !.v = "decoded"] ELSE c

\* The values that parse_encoded cannot decode and those for which to_str fails.
Undecodable(c) == c.v = "undecodable" /\ c.how # "private"
Accented(c)    == c.v = "accented" /\ c.how # "private"
Unreadable(c)  == Undecodable(c) \/ Accented(c)

\* CookieJar::get, and what the children make of its value.
JarGet(n) ==
  LET d == IF Named(jarDelta, n) # {} THEN Named(jarDelta, n) ELSE Named(jarOrig, n)
  IN  IF \E e \in d : ~e.removed THEN (CHOOSE e \in d : TRUE).c ELSE NoCookie
ChildGet(n, how) ==
  LET c == JarGet(n)
  IN  IF c.how # how \/ c.key # jarKey \/ (how = "signed" /\ c.mac # c.v) THEN "none" ELSE c.v

\* What a browser holds after a list of Set-Cookie headers; the last one counts, and
\* a removal has expired.
LastOf(list, n) ==
  {k \in 1..Len(list) : list[k].name = n /\ \A j \in k + 1..Len(list) : list[j].name # n}
Applied(list) ==
  [n \in CookieNames |->
     IF LastOf(list, n) = {} THEN browser[n] ELSE list[CHOOSE k \in LastOf(list, n) : TRUE].c]
SetTwice(list) == \E i, j \in 1..Len(list) : i # j /\ list[i].name = list[j].name

-----------------------------------------------------------------------------
Counted(forgets, names) ==
  [n |-> jarOps.n + 1, twice |-> jarOps.twice, blind |-> jarOps.blind \/ forgets, unheard |-> names]
MayOperate(p) == phase = p /\ jarOps.n < MaxCookieOps

\* The browser sends its cookies; the handler puts them into a jar, but for one that
\* cannot be decoded gets none of them.
SendCookies ==
  /\ phase = "idle"
  /\ LET unread == \E n \in CookieNames : Undecodable(browser[n])
         sent == IF unread THEN {} ELSE {n \in CookieNames : browser[n] # NoCookie}
     IN  /\ jarOrig' = {Added(n, Decode64(browser[n])) : n \in sent}
         /\ jarOps' = [n |-> jarOps.n, twice |-> FALSE, blind |-> unread, unheard |-> {}]
  /\ jarDelta' = {} /\ setCookie' = <<>>
  /\ wanted' = [n \in CookieNames |-> Decode64(browser[n])]
  /\ phase' = "building"
  /\ UNCHANGED <<browser, jarKey>>

\* add, through the jar or a child, and ResponseBuilder::cookie.
AddToJar(n, w) ==
  /\ MayOperate("building")
  /\ jarDelta' = Replaced(jarDelta, Added(n, Made(w[1], w[2])))
  /\ wanted' = [wanted EXCEPT ![n] = Made(w[1], w[2])]
  /\ jarOps' = Counted(FALSE, jarOps.unheard \ {n})
  /\ UNCHANGED <<browser, jarOrig, setCookie, phase, jarKey>>

\* A faulty variant of JarRemoved: no removal is sent to the browser.
JarForgotten(orig, delta, n) == Others(delta, n)

JarRemoved(orig, delta, n) ==
  IF Named(orig, n) # {} THEN Replaced(delta, Removal(n)) ELSE Others(delta, n)

\* Of an original a removal is recorded; another cookie is only forgotten, and the
\* browser does not hear of it.
RemoveFromJar(n) ==
  /\ MayOperate("building")
  /\ jarDelta' = JarRemoved(jarOrig, jarDelta, n)
  /\ wanted' = [wanted EXCEPT ![n] = NoCookie]
  /\ jarOps' = Counted(FALSE, IF Named(jarOrig, n) = {} /\ Applied(setCookie)[n] # NoCookie
                              THEN jarOps.unheard \cup {n} ELSE jarOps.unheard \ {n})
  /\ UNCHANGED <<browser, jarOrig, setCookie, phase, jarKey>>

\* ResponseBuilder::del_cookie makes the cookie an original first.
DelCookie(n) ==
  /\ MayOperate("building")
  /\ jarOrig' = Replaced(jarOrig, Added(n, NoCookie))
  /\ jarDelta' = JarRemoved(jarOrig', jarDelta, n)
  /\ wanted' = [wanted EXCEPT ![n] = NoCookie]
  /\ jarOps' = Counted(FALSE, jarOps.unheard \ {n})
  /\ UNCHANGED <<browser, setCookie, phase, jarKey>>

\* force_remove records no removal, and says so.  clear wants them all removed, but
\* empties the originals before it removes them one by one, and so records none.
ForceRemove(n) ==
  /\ MayOperate("building")
  /\ jarOrig' = Others(jarOrig, n) /\ jarDelta' = Others(jarDelta, n)
  /\ wanted' = [wanted EXCEPT ![n] = Applied(setCookie)[n]]
  /\ jarOps' = Counted(TRUE, jarOps.unheard \ {n})
  /\ UNCHANGED <<browser, setCookie, phase, jarKey>>

ClearJar ==
  /\ MayOperate("building")
  /\ jarDelta' = {} /\ jarOrig' = {}
  /\ wanted' = [n \in CookieNames |-> NoCookie]
  /\ jarOps' = Counted(TRUE, {n \in CookieNames : Applied(setCookie)[n] # NoCookie})
  /\ UNCHANGED <<browser, setCookie, phase, jarKey>>

\* message_body appends the delta to the response's headers, in any order; a value
\* no header may hold turns the response into an error without cookies.
Unprintable == \E d \in jarDelta : d.c.v = "control" /\ d.c.how # "private"
Orders(set) == {s \in [1..Cardinality(set) -> set] : \A i, j \in DOMAIN s : i # j => s[i] # s[j]}
AppendExcept(list, s, gone) ==
  LET A[k \in 0..Len(s)] ==
        IF k = 0 THEN list ELSE IF s[k] \in gone THEN A[k - 1] ELSE AppendValue(A[k - 1], s[k])
  IN  A[Len(s)]
AppendAll(list, s) == AppendExcept(list, s, {})

BuildResponse ==
  /\ phase = "building"
  /\ \E s \in Orders(jarDelta) :
       setCookie' = IF Unprintable THEN <<>> ELSE AppendAll(setCookie, s)
  /\ IF Unprintable THEN wanted' = browser /\ jarOps' = [jarOps EXCEPT !.unheard = {}]
     ELSE UNCHANGED <<wanted, jarOps>>
  /\ phase' = "built"
  /\ UNCHANGED <<browser, jarOrig, jarDelta, jarKey>>

\* Response::add_cookie and del_cookie; the latter appends what it keeps anew, with it
\* the cookies of the name that it cannot read.
AddToResponse(n) ==
  /\ MayOperate("built")
  /\ setCookie' = AppendValue(setCookie, Added(n, Made("plain", "text")))
  /\ wanted' = [wanted EXCEPT ![n] = Made("plain", "text")]
  /\ jarOps' = Counted(FALSE, jarOps.unheard \ {n})
  /\ UNCHANGED <<browser, jarOrig, jarDelta, phase, jarKey>>

DelFromResponse(n) ==
  /\ MayOperate("built")
  /\ setCookie' = AppendExcept(<<>>, setCookie, {d \in Range(setCookie) : d.name = n /\ ~Unreadable(d.c)})
  /\ wanted' = [wanted EXCEPT ![n] = browser[n]]
  /\ jarOps' = Counted(FALSE, IF \E d \in Range(setCookie) : d.name = n /\ Unreadable(d.c)
                              THEN jarOps.unheard \cup {n} ELSE jarOps.unheard \ {n})
  /\ UNCHANGED <<browser, jarOrig, jarDelta, phase, jarKey>>

\* CookieIter passes over what it cannot decode and ends at what is not ASCII.
Listed(list) == {k \in 1..Len(list) : ~Undecodable(list[k].c) /\ \A j \in 1..k : ~Accented(list[j].c)}

\* ResponseBuilder::from: the cookies become originals; a response gives its headers
\* away, those of a ResponseHead are appended one by one to a new map.
RebuildResponse ==
  /\ MayOperate("built")
  /\ jarOrig' =
       {Added(setCookie[k].name, Decode64(setCookie[k].c)) :
          k \in {i \in Listed(setCookie) : \A j \in Listed(setCookie) : j > i => setCookie[j].name # setCookie[i].name}}
  /\ jarDelta' = {}
  /\ setCookie' \in {setCookie, AppendAll(<<>>, setCookie)}
  /\ phase' = "building"
  /\ jarOps' = Counted(TRUE, jarOps.unheard)
  /\ UNCHANGED <<browser, jarKey, wanted>>

Deliver ==
  /\ phase = "built"
  /\ browser' = Applied(setCookie)
  /\ jarOps' = [jarOps EXCEPT !.twice = jarOps.twice \/ SetTwice(setCookie)]
  /\ phase' = "idle"
  /\ UNCHANGED <<jarOrig, jarDelta, setCookie, jarKey, wanted>>

\* A restart with another key.
NewKey ==
  /\ phase = "idle" /\ jarKey = 1
  /\ jarKey' = 2
  /\ UNCHANGED <<browser, jarOrig, jarDelta, setCookie, phase, wanted, jarOps>>

CookieInit ==
  /\ browser = [n \in CookieNames |-> NoCookie] /\ jarOrig = {} /\ jarDelta = {} /\ setCookie = <<>>
  /\ phase = "idle" /\ jarKey = 1 /\ wanted = browser
  /\ jarOps = [n |-> 0, twice |-> FALSE, blind |-> FALSE, unheard |-> {}]

CookieNext ==
  \/ SendCookies \/ ClearJar \/ BuildResponse \/ RebuildResponse \/ Deliver \/ NewKey
  \/ \E n \in CookieNames :
       \/ RemoveFromJar(n) \/ DelCookie(n) \/ ForceRemove(n)
       \/ AddToResponse(n) \/ DelFromResponse(n)
       \/ \E w \in CookieWrites : AddToJar(n, w)
CookieSpec == CookieInit /\ [][CookieNext]_cookies

-----------------------------------------------------------------------------
\* The delta of a jar is enough: after a response the browser holds what the handler
\* wanted, and while the jar knows all the browser's cookies it shows the handler the
\* same, whatever is added, removed and added again, through whichever child, and
\* although a failed build drops all of it.  There are two exceptions.  The first two
\* headers of a name set twice in one response arrive exchanged.  A removal goes
\* unheard of a cookie that the jar does not know (one the request sent was
\* undecodable, or the jar was cleared or made from a response) or that del_cookie
\* cannot read in the response; no other removal does.  The children return only what
\* was added through them under the current key, or nothing: a signed value with a
\* percent sign does not survive the decoding.
CookiesArrive ==
  /\ ~jarOps.twice =>
       \A n \in CookieNames :
         /\ phase = "idle" /\ n \notin jarOps.unheard => Decode64(browser[n]) = Decode64(wanted[n])
         /\ phase = "building" /\ ~jarOps.blind => JarGet(n) = wanted[n]
  /\ \A n \in jarOps.unheard : jarOps.blind \/ \E d \in Range(setCookie) : d.name = n /\ Unreadable(d.c)
  /\ \A n \in CookieNames, how \in {"signed", "private"} :
       ChildGet(n, how) # "none" =>
         JarGet(n).key = jarKey /\ <<how, ChildGet(n, how)>> \in CookieWrites
=============================================================================
