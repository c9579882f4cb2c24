------------------------------- MODULE Walks -------------------------------
(***************************************************************************)
(* Pagination under names of its own, for modules that have it beside      *)
(* other components.                                                       *)
(***************************************************************************)
EXTENDS Integers, Sequences, FiniteSets

CONSTANTS Ids, Key, Descending, page_size, max_page_size, DbOrders, Schemes, Sizes, MaxWrites

VARIABLES rows, scheme, size, queryset, asked, walkPc, total, shown, constant, writes

Pages == INSTANCE Pagination WITH next <- asked, pc <- walkPc

\* Keys are unique, so are places in an order, a page holds at least one row, and
\* a size is a number or it is none.
ASSUME WalksAssumption ==
  /\ Ids \subseteq Int /\ IsFiniteSet(Ids)
  /\ \A a, b \in Ids : Key[a] \in Int /\ (Key[a] = Key[b] => a = b)
  /\ \A order \in DbOrders : \A a, b \in Ids : order[a] \in Int /\ (order[a] = order[b] => a = b)
  /\ Descending \in BOOLEAN
  /\ page_size \in Nat \ {0} /\ max_page_size \in Nat \ {0}
  /\ Schemes \subseteq {"page", "limit", "cursor"}
  /\ \A p \in Sizes : Pages!IsInt(p) => p[2] \in Int

\* A walk through all pages has shown every row that was there all along, once:
\* with CursorPagination on a unique key that the items carry under any writes,
\* with the two others on an ordered queryset when nothing was written meanwhile;
\* and CursorPagination shows no row twice.
WalkShowsAll == Pages!WalkShowsAll
=============================================================================
