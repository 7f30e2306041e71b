----------------------------- MODULE StoreReaders -----------------------------
(***************************************************************************)
(* The pages that read a store while it is written: contracts/explorer.html*)
(* walks getPage of a contract to the end and then fetches each record; the*)
(* list pages of exonum-logstore/frontend show one page of the list        *)
(* endpoint of a service, newest first, and step to newer and older pages. *)
(***************************************************************************)
EXTENDS Stores, SequencesExt

CONSTANTS
  Searches,    \* one for each press of Search or All in the explorer
  PageSize,    \* 50 in the explorer
  FetchSize,   \* 10 in the explorer
  Limit,       \* 20 in the list pages
  MaxLoads,    \* bound: requests of the list page
  ReadFaults   \* whether requests may fail

ASSUME ReadersAssumption ==
  /\ PageSize \in Nat \ {0}
  /\ FetchSize \in Nat \ {0}
  /\ Limit \in Nat \ {0}
  /\ MaxLoads \in Nat
  /\ ReadFaults \in BOOLEAN

VARIABLES
  search,   \* the running searches of the explorer
  cards,    \* its list: the search that filled it and the hashes
  view,     \* the list page: offset, items, total
  loads,    \* its requests, in the order sent
  visit     \* auxiliary: the index at the first answer, what was on the
            \* page since, and whether the visitor waited for each answer

readerVars == <<search, cards, view, loads, visit>>
readVars   == <<vars, readerVars>>

-----------------------------------------------------------------------------
(* The explorer *)

\* filter of a JavaScript array: the elements of s that are in S, in order.  It is
\* SelectSeq with a set for the test, a recursive function that can be proved about.
Selected(s, S) ==
  LET upTo[n \in 0 .. Len(s)] ==
        IF n = 0 THEN << >>
        ELSE IF s[n] \in S THEN Append(upTo[n - 1], s[n]) ELSE upTo[n - 1]
  IN upTo[Len(s)]

\* filter is NoSubmitter for All.  known and reorgsThen are auxiliary: the
\* index and the number of reorganisations when the search started.
NewSearch(f) ==
  [pc |-> "pages", filter |-> f, hashes |-> << >>, offset |-> 0, fetched |-> 0,
   records |-> << >>, missed |-> FALSE, known |-> store.ordered, reorgsThen |-> reorgs]

NoSearch == [pc |-> "idle"]

NoCards == [by |-> "none", hashes |-> << >>]

StartSearch(q, f) ==
  /\ which \in Contracts
  /\ search[q].pc = "idle"
  /\ search' = [search EXCEPT ![q] = NewSearch(f)]
  /\ cards' = NoCards
  /\ UNCHANGED <<vars, view, loads, visit>>

\* A faulty variant of FetchPage: a full page is the last, too.
FetchOnePage(q) ==
  /\ search[q].pc = "pages"
  /\ LET page == GetPage(store, search[q].offset, PageSize)
     IN search' = [search EXCEPT ![q].hashes = @ \o page,
                                 ![q].offset = @ + Len(page),
                                 ![q].pc = IF Len(page) <= PageSize THEN "records" ELSE "pages"]
  /\ UNCHANGED <<vars, cards, view, loads, visit>>

\* One awaited getPage: an empty or a short page is the last.
FetchPage(q) ==
  /\ search[q].pc = "pages"
  /\ LET page == GetPage(store, search[q].offset, PageSize)
     IN search' = [search EXCEPT ![q].hashes = @ \o page,
                                 ![q].offset = @ + Len(page),
                                 ![q].pc = IF Len(page) < PageSize THEN "records" ELSE "pages"]
  /\ UNCHANGED <<vars, cards, view, loads, visit>>

\* One batch of concurrent getRecord calls: a record that is not found, or
\* whose call fails, is left out.
FetchRecords(q) ==
  /\ search[q].pc = "records"
  /\ search[q].fetched < Len(search[q].hashes)
  /\ LET end   == Min({Len(search[q].hashes), search[q].fetched + FetchSize})
         batch == SubSeq(search[q].hashes, search[q].fetched + 1, end)
     IN \E lost \in IF ReadFaults THEN SUBSET ToSet(batch) ELSE {{}} :
          LET found == Selected(batch, {h \in Hashes \ lost : Exists(store, h)})
          IN search' = [search EXCEPT
               ![q].records = @ \o [i \in DOMAIN found |->
                                      [hash |-> found[i], by |-> store.records[found[i]].submitter]],
               ![q].missed = @ \/ lost # {},
               ![q].fetched = end]
  /\ UNCHANGED <<vars, cards, view, loads, visit>>

\* The records of the submitter asked for, newest first, replace the list.
ShowCards(q) ==
  /\ search[q].pc = "records"
  /\ search[q].fetched = Len(search[q].hashes)
  /\ LET f == search[q].filter
         filtered == Selected(search[q].records,
                              {r \in ToSet(search[q].records) : f = NoSubmitter \/ r.by = f})
     IN cards' = [by |-> q, hashes |-> Reverse([i \in DOMAIN filtered |-> filtered[i].hash])]
  /\ search' = [search EXCEPT ![q].pc = "done"]
  /\ UNCHANGED <<vars, view, loads, visit>>

\* A failed getPage ends the search with a message in the place of the list.
FailSearch(q) ==
  /\ ReadFaults
  /\ search[q].pc = "pages"
  /\ search' = [search EXCEPT ![q].pc = "done"]
  /\ cards' = NoCards
  /\ UNCHANGED <<vars, view, loads, visit>>

Explorer ==
  \E q \in Searches :
    \/ \E f \in Submitters \cup {NoSubmitter} : StartSearch(q, f)
    \/ FetchPage(q) \/ FetchRecords(q) \/ ShowCards(q) \/ FailSearch(q)

-----------------------------------------------------------------------------
(* The list page *)

Outstanding == {n \in DOMAIN loads : loads[n].pc # "done"}

\* load, up to its await.
Load(offset) ==
  /\ Len(loads) < MaxLoads
  /\ loads' = Append(loads, [pc |-> "sent", offset |-> offset, items |-> << >>, total |-> 0])
  /\ visit' = [visit EXCEPT !.waited = @ /\ Outstanding = {}]
  /\ view' = [view EXCEPT !.offset = offset]
  /\ UNCHANGED <<vars, search, cards>>

Mounted ==
  /\ which \in Services
  /\ loads = << >>
  /\ Load(0)

\* The two buttons; loading disables neither of them.
Newer ==
  /\ loads # << >>
  /\ view.offset # 0
  /\ Load(SaturatingSub(view.offset, Limit))

Older ==
  /\ loads # << >>
  /\ view.offset + Limit < view.total
  /\ Load(view.offset + Limit)

\* The list endpoint reads the store.
AnswerList(n) ==
  /\ loads[n].pc = "sent"
  /\ loads' = [loads EXCEPT ![n].pc = "answered",
                            ![n].items = List(store, loads[n].offset, Limit),
                            ![n].total = Len(store.ordered)]
  /\ visit' = [visit EXCEPT !.known = IF n = 1 THEN ToSet(store.ordered) ELSE @]
  /\ UNCHANGED <<vars, search, cards, view>>

\* The answer reaches the page; answers may overtake each other.
Arrive(n) ==
  /\ loads[n].pc = "answered"
  /\ view' = [view EXCEPT !.items = loads[n].items, !.total = loads[n].total]
  /\ visit' = [visit EXCEPT !.seen = @ \cup ToSet(loads[n].items)]
  /\ loads' = [loads EXCEPT ![n].pc = "done"]
  /\ UNCHANGED <<vars, search, cards>>

\* A failed request leaves items and total; offset has moved.
FailLoad(n) ==
  /\ ReadFaults
  /\ loads[n].pc = "sent"
  /\ loads' = [loads EXCEPT ![n].pc = "done"]
  /\ visit' = [visit EXCEPT !.waited = FALSE]
  /\ UNCHANGED <<vars, search, cards, view>>

ListPage ==
  \/ Mounted \/ Newer \/ Older
  \/ \E n \in DOMAIN loads : AnswerList(n) \/ Arrive(n) \/ FailLoad(n)

-----------------------------------------------------------------------------
ReadInit ==
  /\ Init
  /\ search = [q \in Searches |-> NoSearch]
  /\ cards = NoCards
  /\ view = [offset |-> 0, items |-> << >>, total |-> 0]
  /\ loads = << >>
  /\ visit = [known |-> {}, seen |-> {}, waited |-> TRUE]

ReadNext == (Next /\ UNCHANGED readerVars) \/ Explorer \/ ListPage

ReadSpec == ReadInit /\ [][ReadNext]_readVars

-----------------------------------------------------------------------------
(* Properties *)

\* What the explorer shows is the answer to the search that filled the list:
\* unless a call failed or blocks were undone, it has, newest first, the records that
\* match in some extension of the index at the start of that search, although
\* records are written between its pages and two searches overlap.
SearchIsComplete ==
  cards.by # "none" =>
    LET q == search[cards.by]
        matches == {h \in Hashes : q.filter = NoSubmitter \/ store.records[h].submitter = q.filter}
    IN ~q.missed /\ q.reorgsThen = reorgs =>
         \E n \in Len(q.known) .. Len(store.ordered) :
           cards.hashes = Reverse(Selected(SubSeq(store.ordered, 1, n), matches))

\* A visitor who waits for every answer, gets one, and steps to the oldest page
\* has seen every record there was at the first answer, although each record written
\* meanwhile moves the others to larger offsets.
BrowsingMissesNothing ==
  /\ loads # << >>
  /\ Outstanding = {}
  /\ visit.waited
  /\ view.offset + Limit >= view.total
  => visit.known \subseteq visit.seen
=============================================================================
