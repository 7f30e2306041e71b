-------------------------------- MODULE MCHttp --------------------------------
(***************************************************************************)
(* Instances of the components of actix-http, checked as one suite: `part` *)
(* names the component a behaviour is about.  The components share no      *)
(* state: a connection, a pool, a header map or a jar belongs to one task. *)
(***************************************************************************)
EXTENDS H1Connection, H1Framing, H2Connection, ClientPool, WebSocket, CookieJar, ContentCoding, TypedHeaders, CookieText, Timers,
  Services, MessageHeads

\* Kinds of request, and the pipelines made of them.
K(b, c, h, e, s, r) == [body |-> b, corrupt |-> c, head |-> h, expect |-> e, handler |-> s, fails |-> FALSE, resp |-> r]
Failing(k) == [k EXCEPT !.fails = TRUE]
MCScripts ==
  {<<K(2, FALSE, "keep", "no", "reader", "full"), K(0, FALSE, "keep", "no", "quick", "full"),
     K(0, FALSE, "keep", "no", "quick", "empty")>>,
   <<K(0, FALSE, "keep", "no", "slow", "full"), K(1, TRUE, "keep", "no", "reader", "full")>>,
   <<K(2, TRUE, "keep", "no", "reader", "full"), K(0, FALSE, "keep", "no", "quick", "full")>>,
   <<K(0, FALSE, "close", "no", "quick", "stream"), K(0, FALSE, "keep", "no", "quick", "empty")>>,
   <<K(1, FALSE, "keep", "later", "reader", "empty"), K(0, FALSE, "malformed", "no", "quick", "empty")>>,
   <<K(1, FALSE, "keep", "no", "dropper", "empty"), K(0, FALSE, "keep", "ready", "slow", "broken")>>,
   <<K(0, FALSE, "keep", "fails", "slow", "full"), K(0, FALSE, "malformed", "no", "quick", "empty")>>,
   <<K(0, FALSE, "keep", "no", "slow", "full"), K(2, FALSE, "upgrade", "no", "slow", "full")>>,
   <<Failing(K(0, FALSE, "keep", "no", "slow", "full")), Failing(K(1, FALSE, "keep", "no", "reader", "empty"))>>,
   <<K(1, FALSE, "keep", "fails", "reader", "full"), K(0, FALSE, "keep", "refused", "quick", "full")>>,
   <<K(0, FALSE, "keep", "refused", "slow", "full"), K(0, FALSE, "keep", "no", "quick", "empty")>>}
MCConfigs ==
  {[ka |-> "timeout", disc |-> TRUE], [ka |-> "os", disc |-> FALSE], [ka |-> "disabled", disc |-> TRUE]}

J(b, c, l, k, st, h, v, p) ==
  [body |-> b, chunks |-> c, len |-> l, chunking |-> k, status |-> st, head |-> h, upgrade |-> FALSE,
                               version |-> v, peer |-> p]
ForUpgrade(j) == [j EXCEPT !.upgrade = TRUE]
MCJobs ==
  {J("none", <<>>, 0, TRUE, "ok", FALSE, 11, "actix"), J("empty", <<>>, 0, TRUE, "no_content", FALSE, 11, "actix"),
   J("bytes", <<<<"a", "CR">>>>, 0, TRUE, "ok", FALSE, 11, "actix"), J("bytes", <<<<>>>>, 0, TRUE, "ok", FALSE, 10, "actix"),
   J("bytes", <<<<"a">>>>, 0, TRUE, "no_content", FALSE, 11, "actix"),
   J("sized", <<<<"a">>, <<"b">>>>, 1, TRUE, "ok", FALSE, 11, "actix"), J("sized", <<<<"a">>, <<>>>>, 2, TRUE, "ok", FALSE, 11, "actix"),
   J("stream", <<<<"a", "CR", "0">>, <<"1">>>>, 0, TRUE, "ok", FALSE, 11, "actix"),
   J("stream", <<<<"a">>, <<>>, <<"b">>>>, 0, TRUE, "ok", FALSE, 11, "actix"),
   J("stream", <<<<"LF">>, <<"0", "1">>>>, 0, TRUE, "ok", FALSE, 11, "spaces"),
   J("stream", <<<<"LF">>, <<"0", "1">>>>, 0, TRUE, "ok", FALSE, 11, "extension"),
   J("stream", <<<<"a">>>>, 0, TRUE, "ok", FALSE, 11, "garbled"),
   J("stream", <<<<"a">>, <<"b">>>>, 0, TRUE, "ok", TRUE, 11, "actix"),
   J("stream", <<<<"a">>, <<"b">>>>, 0, FALSE, "ok", FALSE, 10, "actix"),
   J("stream", <<<<"a">>, <<"b">>>>, 0, FALSE, "switching", FALSE, 11, "actix"),
   ForUpgrade(J("stream", <<<<"CR">>, <<"b">>>>, 0, FALSE, "switching", FALSE, 11, "actix")),
   ForUpgrade(J("stream", <<<<"a">>>>, 0, TRUE, "switching", FALSE, 11, "actix")), ForUpgrade(J("stream", <<<<"a">>>>, 0, FALSE, "ok", FALSE, 10, "actix")),
   ForUpgrade(J("bytes", <<<<"a", "0">>>>, 0, TRUE, "ok", FALSE, 11, "actix")), ForUpgrade(J("stream", <<<<"a">>>>, 0, TRUE, "ok", TRUE, 11, "actix"))}

\* Two streams of one HTTP/2 connection.
Q(u, b, d, z, c, h) == [up |-> u, broken |-> b, down |-> d, size |-> z, status |-> c, handler |-> h]
Pair(a, b) == [s \in {"s1", "s2"} |-> IF s = "s1" THEN a ELSE b]
MCPlans ==
  {Pair(Q(<<>>, FALSE, <<3>>, "stream", "ok", "reader"), Q(<<3>>, FALSE, <<1>>, "stream", "ok", "drops")),
   Pair(Q(<<1>>, FALSE, <<2>>, "known", "no_content", "reader"), Q(<<3>>, TRUE, <<2>>, "stream", "ok", "reader")),
   Pair(Q(<<>>, FALSE, <<>>, "known", "ok", "drops"), Q(<<1, 2>>, FALSE, <<1, 2>>, "stream", "ok", "echo")),
   Pair(Q(<<>>, FALSE, <<>>, "known", "ok", "drops"), Q(<<1, 0>>, FALSE, <<1>>, "known", "ok", "fails"))}

\* Two calls for an HTTP/1 server and one for an HTTP/2 server.
MCKeyOf == [c \in {"c1", "c2", "c3"} |-> IF c = "c3" THEN "b" ELSE "a"]

P(n) == [k \in 1..n |-> k % 2]
M(m, n) == [msg |-> m, pl |-> P(n)]
F(fin, op, masked, n) == [fin |-> fin, op |-> op, masked |-> masked, pl |-> P(n)]
MCWsScripts ==
  {<<M(k, n), M("Binary", 3)>> : k \in {"Text", "Ping", "Close"}, n \in 0..5}
    \cup {<<M(a, 2), M(b, 1), M(c, 4)>> : a \in {"FirstText", "FirstBinary", "Next"},
            b \in {"Next", "Last", "FirstText", "Pong", "Nop"}, c \in {"Last", "Next"}}
    \cup {<<F(f, a, TRUE, 1), F(g, b, m, 0)>> :
            f, g, m \in BOOLEAN, a \in {"Text", "Binary", "Ping"}, b \in {"Continue", "Text", "Bad"}}
R(g, u, c, v, k) == [get |-> g, upgrade |-> u, connection |-> c, version |-> v, key |-> k]
MCWsRequests ==
  {R(TRUE, "websocket", TRUE, "13", TRUE), R(FALSE, "websocket", TRUE, "13", TRUE),
   R(TRUE, "other", TRUE, "13", TRUE), R(TRUE, "websocket", FALSE, "13", TRUE),
   R(TRUE, "websocket", TRUE, "none", TRUE), R(TRUE, "websocket", TRUE, "other", TRUE),
   R(TRUE, "websocket", TRUE, "8", FALSE)}
MCXor(a, b) == (a + b) % 2
MCWsMasks == {<<1, 0, 0, 1>>, <<0, 1, 0, 0>>}

MCCookieWrites ==
  {<<"plain", "text">>, <<"plain", "control">>,
   <<"plain", "undecodable">>, <<"plain", "accented">>, <<"signed", "percent">>, <<"private", "text">>}

E(c, h, l, st, k, ch) == [coding |-> c, header |-> h, lies |-> l, status |-> st, kind |-> k, chunks |-> ch]
Chunks3 == <<<<1>>, <<2, 3>>, <<4>>>>
MCCodingJobs ==
  {E("gzip", "none", FALSE, "ok", "stream", Chunks3), E("br", "none", FALSE, "ok", "bytes", <<<<1, 2, 3>>>>),
   E("deflate", "none", FALSE, "ok", "stream", <<<<1, 2>>, <<3>>>>), E("gzip", "gzip", FALSE, "ok", "stream", <<<<1, 2>>>>),
   E("gzip", "br", TRUE, "ok", "stream", <<<<1>>>>), E("gzip", "none", FALSE, "no_content", "empty", <<>>),
   E("auto", "none", FALSE, "ok", "stream", Chunks3), E("gzip", "identity", FALSE, "ok", "bytes", <<<<1>>>>)}

Texts(n) == BoundedSeq({"v", ";", "\"", "\\", " "}, n)
Pm(n, t) == [name |-> n, ext |-> FALSE, charset |-> ReadCharset("none"), lang |-> <<>>, value |-> t]
Xt(n, c, l, t) == [name |-> n, ext |-> TRUE, charset |-> [known |-> c = "big5", label |-> c], lang |-> l, value |-> t]
Dp(ps) == [kind |-> "disposition", type |-> "form-data", params |-> ps]
Tg(w, t) == [weak |-> w, tag |-> t]
Ql(i, n) == [item |-> i, q |-> n]
Dr(n, a) == [name |-> <<n>>, arg |-> a]
Ls(k, s) == [kind |-> k, items |-> s]
MCTypedValues ==
  {Dp(<<Pm("name", t), Pm("filename", u)>>) : t \in Texts(1), u \in Texts(2)}
    \cup {Dp(<<Pm("title", t), Pm("name", <<"v", " ", "=">>)>>) : t \in Texts(3) \cup {<<"ctl">>, <<"obs", "=">>}}
    \cup {Dp(<<Xt("filename", c, l, t), Pm("x", <<";", "v">>)>>) :
            c \in {"utf-8", "big5", "iso-8859-1"}, l \in {<<>>, <<"en">>}, t \in {<<"v", "%", "'">>, <<";", "\"", "obs">>, <<>>}}
    \cup {Ls("etags", <<Tg(w, t), Tg(TRUE, <<"v">>), Tg(FALSE, u)>>) :
            w \in BOOLEAN, t, u \in {<<>>, <<"v", "v">>, <<"*">>, <<",">>, <<"v", ",", "W/">>, <<"obs">>}}
    \cup {[kind |-> k, tag |-> Some(Tg(w, t))] : k \in {"etag", "if-range"}, w \in BOOLEAN, t \in {<<>>, <<"v", ",">>, <<"obs">>}}
    \cup {[kind |-> "if-range", tag |-> None], [kind |-> "any"], Ls("cache", <<Dr("s-maxage", Some(<<"v">>))>>)}
    \cup {Ls("accept", <<Ql(<<"text", ";", " ", "utf-8">>, m), Ql(<<"*">>, n)>>) :
            m \in {0, 1, 250, 251, 1000}, n \in {0, 2, 253, 502, 506, 511, 640, 999, 1000}}
    \cup {Ls("accept", <<Ql(<<"text", ";", " ", "v=", "\"">> \o t \o <<"\"">>, m), Ql(<<"text", ";", " ", "utf-8">>, m), Ql(<<"*">>, 1000)>>) :
            m \in {500, 1000},
            t \in {<<"v">>, <<"v", ";">>, <<";", " ">>, <<"v", ",", "v">>, <<",", "*", ",">>, <<";", "q=", "500">>, <<";", "v", "v">>}}
    \cup {Ls("cache", <<Dr("private", None), Dr(n, a), Dr("max-age", Some(<<"30">>))>>) :
            n \in {"ext", "no-cache"},
            a \in {None} \cup {Some(t) : t \in {<<>>, <<"v">>, <<"\"", "v", "\"">>, <<"v", ",", "v">>, <<"v", " ">>, <<"=">>}}}
    \cup {[kind |-> "range", range |-> r, length |-> l] :
            r \in {None, Some(<<0, 4>>), Some(<<4, 4>>), Some(<<4, 0>>)}, l \in {None, Some(5)}}
    \cup {[kind |-> "units", unit |-> <<u>>, resp |-> t] :
            u \in {"seconds", "bytes"}, t \in {<<"1", "-", "2">>, <<"*", "/", "5">>, <<"v", " ", "v">>}}

MCPairs == {<<<<"k">>, <<"v">>>>, <<<<"k", "=">>, <<" ", "v", ";", "%20">>>>, <<<<"k">>, <<>>>>, <<<<>>, <<"v", "=", "v">>>>,
            <<<<"k">>, <<"v", "%FF">>>>}
MCPaths == {<<"/", "v">>, <<" ", "/", "=", " ">>, <<"/", ";", "Secure">>}
MCDomains == {<<".", "v">>, <<" ", "v", "=">>, <<"v", ";", "Path", "=", "v">>}
MCAges == {-1, 30}
Ts(k, n, d) == [keep |-> k, secs |-> n, disconnect |-> d]
MCSettings == {Ts("timeout", 1, 1), Ts("timeout", 2, 4), Ts("os", 0, 0), Ts("disabled", 0, 1)}
Upgraded == <<"upgrade", TRUE>>
MCChains == {<<>>, <<<<"on_connect", TRUE>>, Upgraded>>, <<<<"keep_alive", 0>>, <<"secure", TRUE>>, <<"expect", TRUE>>>>}
MCEnds == {<<"finish", "tcp">>, <<"finish", "rustls">>, <<"finish", "openssl">>, <<"h1", "tcp">>, <<"h2", "rustls">>,
           <<"one request", "tcp">>}
MCClients == {[offers |-> {}, prior |-> "h1"], [offers |-> {}, prior |-> "h2"],
              [offers |-> {<<"h", "2">>, <<"h", "1">>}, prior |-> "h1"],
              [offers |-> {<<"h", "2", "-">>}, prior |-> "h1"]}
MCExchanges == {<<"dispatcher", "dispatcher", "one request">>, <<"dispatcher", "new", "dispatcher">>,
                <<"response", "response", "response">>}
MCFlags == {<<TRUE, FALSE, "Lax">>, <<FALSE, TRUE, "None">>}

-----------------------------------------------------------------------------
VARIABLE part \* the component of this behaviour

Init ==
  /\ part \in {"h1", "framing", "h2", "pool", "ws", "headers", "cookies", "coding", "typed",
               "cookie text", "timers", "services", "heads"}
  /\ H1Init /\ FramingInit /\ H2Init /\ PoolInit /\ WsInit /\ HeaderInit /\ CookieInit /\
     CodingInit /\ TypedInit /\ TextInit /\ TimersInit /\ ServicesInit /\ HeadsInit

Next ==
  /\ UNCHANGED part
  /\ \/ part = "h1" /\ H1Next /\ UNCHANGED <<framing, h2, pool, ws, headermap, cookies, contentcoding, typedheaders, cookietext, timers, services, heads>>
     \/ part = "framing" /\ FramingNext /\ UNCHANGED <<h1vars, h2, pool, ws, headermap, cookies, contentcoding, typedheaders, cookietext, timers, services, heads>>
     \/ part = "h2" /\ H2Next /\ UNCHANGED <<h1vars, framing, pool, ws, headermap, cookies, contentcoding, typedheaders, cookietext, timers, services, heads>>
     \/ part = "pool" /\ PoolNext /\ UNCHANGED <<h1vars, framing, h2, ws, headermap, cookies, contentcoding, typedheaders, cookietext, timers, services, heads>>
     \/ part = "ws" /\ WsNext /\ UNCHANGED <<h1vars, framing, h2, pool, headermap, cookies, contentcoding, typedheaders, cookietext, timers, services, heads>>
     \/ part = "headers" /\ HeaderNext /\ UNCHANGED <<h1vars, framing, h2, pool, ws, cookies, contentcoding, typedheaders, cookietext, timers, services, heads>>
     \/ part = "cookies" /\ CookieNext /\ UNCHANGED <<h1vars, framing, h2, pool, ws, headermap, contentcoding, typedheaders, cookietext, timers, services, heads>>
     \/ part = "coding" /\ CodingNext /\ UNCHANGED <<h1vars, framing, h2, pool, ws, headermap, cookies, typedheaders, cookietext, timers, services, heads>>
     \/ part = "typed" /\ TypedNext /\ UNCHANGED <<h1vars, framing, h2, pool, ws, headermap, cookies, contentcoding, cookietext, timers, services, heads>>
     \/ part = "cookie text" /\ TextNext /\ UNCHANGED <<h1vars, framing, h2, pool, ws, headermap, cookies, contentcoding, typedheaders, timers, services, heads>>
     \/ part = "timers" /\ TimersNext /\ UNCHANGED <<h1vars, framing, h2, pool, ws, headermap, cookies, contentcoding, typedheaders, cookietext, services, heads>>
     \/ part = "services" /\ ServicesNext /\ UNCHANGED <<h1vars, framing, h2, pool, ws, headermap, cookies, contentcoding, typedheaders, cookietext, timers, heads>>
     \/ part = "heads" /\ HeadsNext /\ UNCHANGED <<h1vars, framing, h2, pool, ws, headermap, cookies, contentcoding, typedheaders, cookietext, timers, services>>

\* No component can take a fair step before an unfair one started it, so that the
\* fairness of the components a behaviour is not about asks nothing.
Spec ==
  /\ Init /\ [][Next]_<<part, h1vars, framing, h2, pool, ws, headermap, cookies, contentcoding, typedheaders, cookietext, timers, services, heads>>
  /\ H1Fairness /\ H2Fairness /\ PoolFairness

\* The header map alone.
HeadersOnly ==
  /\ Init /\ part = "headers"
  /\ [][part = "headers" /\ Next]_<<part, h1vars, framing, h2, pool, ws, headermap, cookies, contentcoding, typedheaders, cookietext, timers, services, heads>>
=============================================================================
