------------------------------- MODULE HeaderMap -------------------------------
(***************************************************************************)
(* The HeaderMap of header/map.rs, which every request and response of     *)
(* actix-http carries: a map from names to one value or to a vector of     *)
(* several.  `wrote` remembers the values in the order they were given.    *)
(*                                                                         *)
(* A name without values is not in the map; names are compared after       *)
(* HeaderName has lowered their case, which is not modelled.               *)
(***************************************************************************)
EXTENDS Integers, Sequences, FiniteSets

CONSTANTS HeaderNames, HeaderValues,
          MaxPerName \* values of a name, to keep the model finite

ASSUME HeaderBoundAssumption == MaxPerName \in Nat \ {0}

VARIABLES
  headers, \* HeaderMap.inner
  wrote    \* auxiliary: what append and insert were called with

headermap == <<headers, wrote>>

\* A faulty variant of AppendValue: the vector begins with the new value alone.
AppendValueOnly(vals, v) == IF Len(vals) <= 1 THEN <<v>> ELSE Append(vals, v)

\* Value::append: One becomes Multi with the new value, to which the old one is
\* then appended.
AppendValue(vals, v) ==
  CASE Len(vals) = 0 -> <<v>>
    [] Len(vals) = 1 -> <<v, vals[1]>>
    [] OTHER         -> Append(vals, v)

\* get_all and get.
GetAll(m, n) == m[n]
GetFirst(m, n) == IF m[n] = <<>> THEN "None" ELSE m[n][1]
HeaderLen(m) == Cardinality({n \in DOMAIN m : m[n] # <<>>})

AppendHeader(n, v) ==
  /\ Len(wrote[n]) < MaxPerName
  /\ headers' = [headers EXCEPT ![n] = AppendValue(@, v)]
  /\ wrote' = [wrote EXCEPT ![n] = Append(@, v)]

InsertHeader(n, v) ==
  /\ headers' = [headers EXCEPT ![n] = <<v>>]
  /\ wrote' = [wrote EXCEPT ![n] = <<v>>]

\* get_mut gives the value that get returns.
ReplaceFirst(n, v) ==
  /\ headers[n] # <<>>
  /\ headers' = [headers EXCEPT ![n][1] = v]
  /\ wrote' = [wrote EXCEPT ![n] = IF Len(@) = 1 THEN <<v>> ELSE [@ EXCEPT ![2] = v]]

RemoveHeader(n) ==
  /\ headers' = [headers EXCEPT ![n] = <<>>]
  /\ wrote' = [wrote EXCEPT ![n] = <<>>]

ClearHeaders ==
  /\ headers' = [n \in HeaderNames |-> <<>>]
  /\ wrote' = [n \in HeaderNames |-> <<>>]

HeaderInit == headers = [n \in HeaderNames |-> <<>>] /\ wrote = [n \in HeaderNames |-> <<>>]
HeaderNext ==
  \/ ClearHeaders
  \/ \E n \in HeaderNames :
       \/ RemoveHeader(n)
       \/ \E v \in HeaderValues : AppendHeader(n, v) \/ InsertHeader(n, v) \/ ReplaceFirst(n, v)
HeaderSpec == HeaderInit /\ [][HeaderNext]_headermap

-----------------------------------------------------------------------------
\* The map is the multimap its callers built: nothing of a name is lost or doubled
\* by the change from one value to several, and but for the first two, which are
\* exchanged, values keep their order.
SwappedFirst(s) == [i \in 1..Len(s) |-> IF Len(s) >= 2 /\ i <= 2 THEN s[3 - i] ELSE s[i]]
HeadersAreMultimap == \A n \in HeaderNames : GetAll(headers, n) = SwappedFirst(wrote[n])

\* append's documentation: "the new value is pushed to the end of the list of values
\* currently associated with the key".
AppendPushesToEnd == \A n \in HeaderNames : GetAll(headers, n) = wrote[n]
=============================================================================
