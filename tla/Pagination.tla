----------------------------- MODULE Pagination -----------------------------
(***************************************************************************)
(* Pagination (python/django_bolt/pagination.py).  A client walks through  *)
(* the pages of a table while rows are inserted and deleted.  The page     *)
(* number and limit/offset schemes count the rows and then fetch a slice,  *)
(* two queries with an await between them; the cursor scheme fetches one   *)
(* slice that starts after the key of the last row shown.                  *)
(*                                                                         *)
(* The queryset is the handler's.  The first two schemes slice it as it    *)
(* is: one that names no order is answered in any order, at every query.   *)
(* The third orders it, and reads the key off the last item, which a dict  *)
(* of values() without that field does not have, nor an item whose key is  *)
(* a lookup across a relation.                                             *)
(*                                                                         *)
(* A query parameter is absent (<<>>), not a number (<<"bad">>), or a      *)
(* number, given as <<"int", n>>.                                          *)
(***************************************************************************)
EXTENDS Integers, Sequences, FiniteSets

CONSTANTS
  Ids,            \* primary keys of the rows that may exist
  Key,            \* [id -> value of the cursor's ordering field], unique
  Descending,     \* ordering = "-field"
  page_size,      \* default page size of the paginator
  max_page_size,
  DbOrders,       \* [id -> place]: orders a database may answer in if none is asked
  Schemes,        \* the paginators tried: "page", "limit", "cursor"
  Sizes,          \* size parameters of the requests
  MaxWrites       \* bound on the writes during a walk

VARIABLES
  rows,           \* ids in the table
  scheme, size,   \* of this walk: the paginator, the size parameter
  queryset,       \* of this walk: "ordered" or not, "keyed" or "keyless" items
  next,           \* what the next request asks: page, offset or cursor
  pc,             \* "ask", "counted", "end"
  total,          \* the count, between the two queries
  shown,          \* ids shown so far, in order
  constant,       \* ids present since the walk began
  writes          \* writes since the walk began

vars == <<rows, scheme, size, queryset, next, pc, total, shown, constant, writes>>

----------------------------------------------------------------------------
(* Parameters *)

IsInt(p) == Len(p) = 2

GetPageSize(p) ==
  IF ~IsInt(p) THEN page_size
  ELSE IF p[2] > max_page_size THEN max_page_size
  ELSE IF p[2] < 1 THEN page_size ELSE p[2]

(* The limit is checked in the other order, with the same result. *)
Limit(p) ==
  IF ~IsInt(p) THEN page_size
  ELSE LET limit == IF p[2] < 1 THEN page_size ELSE p[2]
       IN IF limit > max_page_size THEN max_page_size ELSE limit

PageOf(p) == IF IsInt(p) /\ p[2] >= 1 THEN p[2] ELSE 1
OffsetOf(p) == IF IsInt(p) /\ p[2] >= 0 THEN p[2] ELSE 0

(* A cursor that does not decode is no cursor. *)
DecodeCursor(p) == IF IsInt(p) THEN <<p[2]>> ELSE <<>>
EncodeCursor(v) == <<"int", v>>

----------------------------------------------------------------------------
(* Queries *)

(* The rows of S by their order, which no two of them share. *)
Sorted(S, order) ==
  [i \in 1..Cardinality(S) |-> CHOOSE x \in S : Cardinality({y \in S : order[y] <= order[x]}) = i]

Ordering == [id \in Ids |-> IF Descending THEN -Key[id] ELSE Key[id]]

(* The rows of an ordered queryset; what a query that is sliced as it is    *)
(* may find.                                                               *)
ById == Sorted(rows, [id \in Ids |-> id])
Listings == IF queryset = "ordered" THEN {ById} ELSE {Sorted(rows, order) : order \in DbOrders}

ByKey == Sorted(rows, Ordering)
Slice(s, from, n) == SubSeq(s, from + 1, IF from + n < Len(s) THEN from + n ELSE Len(s))

(* Mutant: the row the cursor names is part of the next page. *)
AfterCursor_Inclusive(v) ==
  Sorted({id \in rows : IF Descending THEN Key[id] <= v ELSE Key[id] >= v}, Ordering)

AfterCursor(v) ==
  Sorted({id \in rows : IF Descending THEN Key[id] < v ELSE Key[id] > v}, Ordering)

----------------------------------------------------------------------------
(* One request.  The answer's items are shown, and the client asks for the *)
(* page after it, or stops when the answer names none.                     *)

Answer(items, goes_on, following) ==
  /\ shown' = shown \o items
  /\ pc' = IF goes_on THEN "ask" ELSE "end"
  /\ next' = IF goes_on THEN following ELSE next
  /\ total' = 0
  /\ UNCHANGED <<rows, scheme, size, queryset, constant, writes>>

Count ==
  /\ pc = "ask"
  /\ scheme \in {"page", "limit"}
  /\ total' = Cardinality(rows)
  /\ pc' = "counted"
  /\ UNCHANGED <<rows, scheme, size, queryset, next, shown, constant, writes>>

TotalPages(n) ==
  IF n > 0 THEN (n + GetPageSize(size) - 1) \div GetPageSize(size) ELSE 0

PageNumber ==
  LET asked == PageOf(next)
      pages == TotalPages(total)
      page == IF asked > pages /\ pages > 0 THEN pages ELSE asked
  IN /\ pc = "counted"
     /\ scheme = "page"
     /\ \E listing \in Listings :
          Answer(Slice(listing, (page - 1) * GetPageSize(size), GetPageSize(size)), page < pages, <<"int", page + 1>>)

LimitOffset ==
  LET offset == OffsetOf(next)
      limit == Limit(size)
  IN /\ pc = "counted"
     /\ scheme = "limit"
     /\ \E listing \in Listings :
          Answer(Slice(listing, offset, limit), offset + limit < total, <<"int", offset + limit>>)

(* One row more than the page is fetched, to know whether there is a next; *)
(* the cursor is the key of the last row kept.  If the item does not carry *)
(* it the answer has a next page and no cursor, and the client stops.      *)
Cursor ==
  LET after == DecodeCursor(next)
      n == GetPageSize(size)
      raw == Slice(IF after = <<>> THEN ByKey ELSE AfterCursor(after[1]), 0, n + 1)
      more == Len(raw) > n
      items == IF more THEN Slice(raw, 0, n) ELSE raw
      found == more /\ queryset = "keyed"
  IN /\ pc = "ask"
     /\ scheme = "cursor"
     /\ Answer(items, found, IF found THEN EncodeCursor(Key[items[Len(items)]]) ELSE <<>>)

----------------------------------------------------------------------------
(* Everyone else's writes. *)

Insert(id) ==
  /\ id \notin rows
  /\ writes < MaxWrites /\ pc # "end"
  /\ rows' = rows \cup {id}
  /\ writes' = writes + 1
  /\ UNCHANGED <<scheme, size, queryset, next, pc, total, shown, constant>>

Delete(id) ==
  /\ id \in rows
  /\ writes < MaxWrites /\ pc # "end"
  /\ rows' = rows \ {id}
  /\ constant' = constant \ {id}
  /\ writes' = writes + 1
  /\ UNCHANGED <<scheme, size, queryset, next, pc, total, shown>>

Init ==
  /\ rows \in SUBSET Ids
  /\ scheme \in Schemes
  /\ size \in Sizes
  /\ queryset \in IF scheme = "cursor" THEN {"keyed", "keyless"} ELSE {"ordered", "unordered"}
  /\ next \in {<<>>, <<"bad">>}
  /\ pc = "ask"
  /\ total = 0
  /\ shown = <<>>
  /\ constant = rows
  /\ writes = 0

Next ==
  \/ Count
  \/ PageNumber
  \/ LimitOffset
  \/ Cursor
  \/ \E id \in Ids : Insert(id) \/ Delete(id)
  \/ pc = "end" /\ UNCHANGED vars

Spec == Init /\ [][Next]_vars

----------------------------------------------------------------------------
(* Properties *)

Shows(id) == Cardinality({i \in DOMAIN shown : shown[i] = id})

(* A walk that is over has shown every row that was there all along, once: *)
(* with the cursor scheme on a unique key that the items carry under any   *)
(* writes, with the two others on an ordered queryset when nothing was     *)
(* written meanwhile; and a cursor never shows a row twice                 *)
(* (pagination.py:371-656).                                                *)
WalkShowsAll ==
  pc = "end" =>
    /\ queryset = "keyed" \/ (queryset = "ordered" /\ writes = 0) => \A id \in constant : Shows(id) = 1
    /\ scheme = "cursor" => \A id \in Ids : Shows(id) <= 1
=============================================================================
