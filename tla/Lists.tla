------------------------------- MODULE Lists -------------------------------
(***************************************************************************)
(* The linked list and the growing array of cd/mu_list.c, on memory.  The  *)
(* other modules model both as sequences; below the operations, what that  *)
(* takes for granted.  MUSB_ListInsertItem, which nothing calls, is left   *)
(* out.                                                                    *)
(***************************************************************************)
EXTENDS Naturals, SequencesExt, FiniteSetsExt

NULL == 0   \* of records and of items, which are positive numbers

\* Memory is a function from the records that are allocated to their contents.
Link(pItem, pNext) == [pItem |-> pItem, pNext |-> pNext]

ListInit(mem, pList) == [mem EXCEPT ![pList] = Link(NULL, NULL)]

\* The records from pList on.
Chain(mem, pList) ==
  LET from[r \in DOMAIN mem \cup {NULL}] ==
        IF r = NULL THEN <<>> ELSE <<r>> \o from[mem[r].pNext]
  IN  from[pList]

ListLength(mem, pList) == IF mem[pList].pItem = NULL THEN 0 ELSE Len(Chain(mem, pList))

ListFindRecord(mem, pList, wIndex) ==
  LET c == Chain(mem, pList) IN IF wIndex < Len(c) THEN c[wIndex + 1] ELSE NULL

ListFindItem(mem, pList, wIndex) ==
  LET r == ListFindRecord(mem, pList, wIndex) IN IF r = NULL THEN NULL ELSE mem[r].pItem

\* The head record belongs to the owner of the list and is used first.  pNew is what
\* MUSB_MemAlloc returns.
ListAppendItem(mem, pList, pItem, pNew) ==
  LET last == Last(Chain(mem, pList))
      linked == [mem EXCEPT ![last].pNext = pNew]
  IN  CASE mem[pList].pItem = NULL ->
             [bOK |-> TRUE, mem |-> [mem EXCEPT ![pList] = Link(pItem, NULL)]]
        [] mem[pList].pItem # NULL /\ pNew = NULL -> [bOK |-> FALSE, mem |-> mem]
        [] OTHER ->
             [bOK |-> TRUE, mem |-> [r \in DOMAIN mem \cup {pNew} |->
                                       IF r = pNew THEN Link(pItem, NULL) ELSE linked[r]]]

Freed(mem, r) == [q \in DOMAIN mem \ {r} |-> mem[q]]

\* MUSB_ListRemoveItem.  An item that is not there ends in a null pointer.
RemoveFaults(mem, pList, pItem) == \A r \in ToSet(Chain(mem, pList)) : mem[r].pItem # pItem

ListRemoveItem(mem, pList, pItem) ==
  LET c == Chain(mem, pList)
      pNext == mem[pList].pNext
      at == Min({k \in DOMAIN c : mem[c[k]].pItem = pItem})
  IN  CASE at = 1 /\ pNext = NULL -> [mem EXCEPT ![pList] = Link(NULL, NULL)]
        [] at = 1 /\ pNext # NULL -> Freed([mem EXCEPT ![pList] = mem[pNext]], pNext)
        [] OTHER -> Freed([mem EXCEPT ![c[at - 1]].pNext = mem[c[at]].pNext], c[at])

-----------------------------------------------------------------------------
(* MUSB_Array: the first items are in a buffer of its owner, the others in  *)
(* one that grows.                                                         *)

ArrayInit(wStaticItemCount) ==
  [static |-> [k \in 0 .. wStaticItemCount - 1 |-> NULL], dynamic |-> <<>>, wItemCount |-> 0]

Statics(a) == Cardinality(DOMAIN a.static)

ArrayFetch(a, wIndex) ==
  CASE wIndex >= a.wItemCount -> NULL
    [] wIndex < a.wItemCount /\ wIndex < Statics(a) -> a.static[wIndex]
    [] OTHER -> a.dynamic[wIndex - Statics(a) + 1]

\* A buffer that is reallocated keeps its items; what follows them has no value.
ArrayAppend(a, pItem, canGrow) ==
  LET k == a.wItemCount
      full == k = Statics(a) + Len(a.dynamic)
      grown == IF full THEN a.dynamic \o [j \in 1 .. Max({Statics(a), 2}) |-> NULL] ELSE a.dynamic
  IN  CASE k < Statics(a) ->
             [bOK |-> TRUE, a |-> [a EXCEPT !.static[k] = pItem, !.wItemCount = k + 1]]
        [] full /\ ~canGrow /\ k >= Statics(a) -> [bOK |-> FALSE, a |-> a]
        [] OTHER ->
             [bOK |-> TRUE,
              a |-> [a EXCEPT !.dynamic = [grown EXCEPT ![k - Statics(a) + 1] = pItem],
                              !.wItemCount = k + 1]]

ArrayClear(a) == [a EXCEPT !.wItemCount = 0, !.dynamic = <<>>]

-----------------------------------------------------------------------------
(* What the other modules take for granted.                                *)

Items(mem, pList) == [k \in 1 .. ListLength(mem, pList) |-> ListFindItem(mem, pList, k - 1)]

\* The lists of the given items, in the records of the sequence r.
Laid(r, items) ==
  [q \in ToSet(SubSeq(r, 1, Max({1, Len(items)}))) |->
     LET k == CHOOSE j \in DOMAIN r : r[j] = q
     IN  IF items = <<>> THEN Link(NULL, NULL)
         ELSE Link(items[k], IF k < Len(items) THEN r[k + 1] ELSE NULL)]

\* No record is lost or used twice: as many as there are items, and the head.
Tight(mem, pList) ==
  /\ ToSet(Chain(mem, pList)) = DOMAIN mem
  /\ Cardinality(DOMAIN mem) = Max({1, ListLength(mem, pList)})

\* Wherever the records of a list lie, appending and removing do to its items what they
\* do to a sequence, at the cost of one record, and a refused item changes nothing.  What
\* is removed must be in the list; of an item that is in it twice, the first goes.
ListIsSequence(r, items, pItem) ==
  LET mem == Laid(r, items)
      head == r[1]
      fresh == CHOOSE n \in 1 .. Len(r) + 1 : n \notin DOMAIN mem
      put == ListAppendItem(mem, head, pItem, fresh)
      refused == ListAppendItem(mem, head, pItem, NULL)
      left == ListRemoveItem(mem, head, pItem)
  IN  /\ Items(mem, head) = items
      /\ Items(ListInit(mem, head), head) = <<>>
      /\ put.bOK /\ Tight(put.mem, head) /\ Items(put.mem, head) = Append(items, pItem)
      /\ refused.bOK <=> items = <<>>
      /\ ~refused.bOK => refused.mem = mem
      /\ RemoveFaults(mem, head, pItem) <=> pItem \notin ToSet(items)
      /\ pItem \in ToSet(items) =>
           Tight(left, head) /\ Items(left, head) = RemoveFirst(items, pItem)

\* An array holds what was appended, in order, through every growth, and a growth that
\* fails changes nothing.
ArrayIsSequence(statics, items) ==
  LET grow(a, x) == ArrayAppend(a, x, TRUE).a
      a == FoldLeft(grow, ArrayInit(statics), items)
      e == ArrayAppend(a, 1, FALSE)
  IN  /\ a.wItemCount = Len(items)
      /\ \A k \in 1 .. Len(items) : ArrayFetch(a, k - 1) = items[k]
      /\ ArrayFetch(a, Len(items)) = NULL
      /\ ~e.bOK => e.a = a
      /\ ArrayClear(a).wItemCount = 0
=============================================================================
