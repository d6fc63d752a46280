----------------------------- MODULE PipeProofs -----------------------------
(***************************************************************************)
(* Proofs about Pipe for every set of IRPs, their lengths, packet size and *)
(* use of the pipes that PipeAssumption admits (under a preempting ISR,    *)
(* callbacks that start transfers): an IRP is in one place at most, and in *)
(* one exactly until it is called back or lost with its device.            *)
(***************************************************************************)
EXTENDS Pipe, TLAPS

Distinct(l) == \A m, n \in 1 .. Len(l) : l[m] = l[n] => m = n

-----------------------------------------------------------------------------
(* The inductive invariant                                                 *)

ShapeInv ==
  /\ current \in [Sides -> Irps \cup {None}]
  /\ list \in [Sides -> Seq(Irps)]
  /\ items \in Seq(Irps \cup {None})
  /\ starting \in Irps \cup {None}
  /\ handled \in Irps \cup {None}
  /\ state \in [Irps -> {"free", "pending", "good", "failed"}]
  /\ main \in Places /\ back \in {"client", "callback"}

\* A side's current IRP, and those that wait, are pending IRPs of that side, and none
\* of them is the one being appended.
SideInv ==
  \A d \in Sides :
    /\ Distinct(list[d])
    /\ \A i \in Irps : current[d] = i \/ Contains(list[d], i) =>
         Dir[i] = d /\ state[i] = "pending" /\ starting # i
    /\ \A i \in Irps : ~(current[d] = i /\ Contains(list[d], i))

\* The queue holds the IRPs that have ended, each once.
CompletedInv ==
  /\ Distinct(items)
  /\ \A i \in Irps : Contains(items, i) <=> state[i] \in {"good", "failed"}

\* Where the main loop is.
MainInv ==
  /\ starting # None <=> main = "append"
  /\ starting # None => state[starting] = "pending"
  /\ main = "callback" \/ (main = "append" /\ back = "callback") => handled # None
  /\ ~Preempt /\ (main \in {"client", "usb"} \/ (main = "append" /\ back = "client"))
       => items = <<>>

Gone == Contains(items, None)

\* A pending IRP is somewhere, unless its device is gone; and then nothing is anywhere
\* until the BSR has told the clients.
HeldInv ==
  /\ \A i \in Irps : state[i] = "pending" =>
       current[Dir[i]] = i \/ Contains(list[Dir[i]], i) \/ starting = i \/ Gone
  /\ Gone => /\ ~Preempt /\ main \in {"tx", "rx", "bsr"}
             /\ items = <<None>>
             /\ \A d \in Sides : current[d] = None /\ list[d] = <<>>

IInv == ShapeInv /\ SideInv /\ CompletedInv /\ MainInv /\ HeldInv

-----------------------------------------------------------------------------
(* Sequences                                                               *)

LEMMA EmptyFacts ==
  ASSUME NEW x, NEW y
  PROVE  /\ ~Contains(<<>>, y) /\ Distinct(<<>>)
         /\ Distinct(<<x>>) /\ (Contains(<<x>>, y) <=> y = x)
  BY DEF Contains, Distinct

LEMMA AppendFacts ==
  ASSUME NEW S, NEW l \in Seq(S), NEW x \in S
  PROVE  /\ Append(l, x) \in Seq(S)
         /\ \A y : Contains(Append(l, x), y) <=> Contains(l, y) \/ y = x
         /\ Distinct(l) /\ ~Contains(l, x) => Distinct(Append(l, x))
<1> DEFINE a == Append(l, x)
<1>1. a \in Seq(S) /\ Len(a) = Len(l) + 1 /\ a[Len(l) + 1] = x
  OBVIOUS
<1>2. \A n \in 1 .. Len(l) : a[n] = l[n]
  OBVIOUS
<1> HIDE DEF a
<1>3. \A n \in 1 .. Len(a) : n \in 1 .. Len(l) \/ n = Len(l) + 1
  BY <1>1
<1>4. \A y : Contains(a, y) <=> Contains(l, y) \/ y = x
  BY <1>1, <1>2, <1>3 DEF Contains
<1>5. Distinct(l) /\ ~Contains(l, x) => Distinct(a)
  BY <1>1, <1>2, <1>3 DEF Contains, Distinct
<1> QED
  BY <1>1, <1>4, <1>5 DEF a

LEMMA TailFacts ==
  ASSUME NEW S, NEW l \in Seq(S), l # <<>>, Distinct(l)
  PROVE  /\ Head(l) \in S /\ Tail(l) \in Seq(S) /\ Distinct(Tail(l))
         /\ Contains(l, Head(l))
         /\ \A y : Contains(Tail(l), y) <=> Contains(l, y) /\ y # Head(l)
<1> DEFINE t == Tail(l)
<1>1. /\ Len(l) \in Nat \ {0} /\ t \in Seq(S) /\ Len(t) = Len(l) - 1
      /\ Head(l) = l[1] /\ l[1] \in S
  OBVIOUS
<1>2. \A n \in 1 .. Len(t) : t[n] = l[n + 1]
  OBVIOUS
<1> HIDE DEF t
<1>3. Distinct(t)
  BY <1>1, <1>2 DEF Distinct
<1>4. \A y : Contains(t, y) => Contains(l, y) /\ y # l[1]
  BY <1>1, <1>2 DEF Distinct, Contains
<1>5. \A y : Contains(l, y) /\ y # l[1] => Contains(t, y)
  <2> SUFFICES ASSUME NEW y, NEW n \in 1 .. Len(l), l[n] = y, y # l[1]
               PROVE  Contains(t, y)
    BY DEF Contains
  <2>1. n - 1 \in 1 .. Len(t) /\ t[n - 1] = y
    BY <1>1, <1>2
  <2> QED
    BY <2>1 DEF Contains
<1>6. Contains(l, l[1])
  BY <1>1 DEF Contains
<1> QED
  BY <1>1, <1>3, <1>4, <1>5, <1>6 DEF t

\* What MUSB_ListRemoveItem leaves.
LEMMA WithoutFacts ==
  ASSUME NEW S, NEW l \in Seq(S), NEW i, Distinct(l)
  PROVE  /\ Without(l, i) \in Seq(S) /\ Distinct(Without(l, i))
         /\ \A y : Contains(Without(l, i), y) <=> Contains(l, y) /\ y # i
<1>1. CASE ~Contains(l, i)
  BY <1>1 DEF Without
<1>2. CASE Contains(l, i)
  <2> DEFINE k == CHOOSE n \in 1 .. Len(l) : l[n] = i
             r == RemoveAt(l, k)
  <2>1. k \in 1 .. Len(l) /\ l[k] = i /\ Without(l, i) = r
    BY <1>2 DEF Contains, Without
  <2> HIDE DEF k
  <2>2. /\ r \in Seq(S) /\ Len(r) = Len(l) - 1 /\ Len(l) \in Nat \ {0}
        /\ \A n \in 1 .. Len(r) : r[n] = IF n < k THEN l[n] ELSE l[n + 1]
    <3> DEFINE u == SubSeq(l, 1, k - 1)
               v == SubSeq(l, k + 1, Len(l))
    <3>1. /\ u \in Seq(S) /\ Len(u) = k - 1 /\ v \in Seq(S) /\ Len(v) = Len(l) - k
          /\ Len(l) \in Nat \ {0}
      BY <2>1
    <3>2. \A n \in 1 .. k - 1 : u[n] = l[n]
      BY <2>1
    <3>3. \A n \in 1 .. Len(l) - k : v[n] = l[n + k]
      BY <2>1
    <3>4. r = u \o v
      BY DEF RemoveAt
    <3> HIDE DEF u, v, r
    <3>5. /\ u \o v \in Seq(S) /\ Len(u \o v) = Len(u) + Len(v)
          /\ \A n \in 1 .. Len(u) + Len(v) :
               (u \o v)[n] = IF n <= Len(u) THEN u[n] ELSE v[n - Len(u)]
      BY <3>1
    <3>6. r \in Seq(S) /\ Len(r) = Len(l) - 1
      BY <2>1, <3>1, <3>4, <3>5
    <3>7. ASSUME NEW n \in 1 .. Len(r)
          PROVE  r[n] = IF n < k THEN l[n] ELSE l[n + 1]
      <4>1. CASE n < k
        <5>1. n \in 1 .. k - 1 /\ n <= Len(u) /\ n \in 1 .. Len(u) + Len(v)
          BY <2>1, <3>1, <3>6, <4>1
        <5>2. r[n] = u[n]
          BY <3>4, <3>5, <5>1
        <5> QED
          BY <3>2, <4>1, <5>1, <5>2
      <4>2. CASE ~(n < k)
        <5>1. ~(n <= Len(u)) /\ n \in 1 .. Len(u) + Len(v) /\ n - Len(u) \in 1 .. Len(l) - k
              /\ n - Len(u) + k = n + 1
          BY <2>1, <3>1, <3>6, <4>2
        <5>2. r[n] = v[n - Len(u)]
          BY <3>4, <3>5, <5>1
        <5> QED
          BY <3>3, <4>2, <5>1, <5>2
      <4> QED
        BY <4>1, <4>2
    <3> QED
      BY <3>1, <3>6, <3>7
  <2> HIDE DEF r
  <2>3. Distinct(r)
    BY <2>1, <2>2 DEF Distinct
  <2>4. \A y : Contains(r, y) => Contains(l, y) /\ y # i
    BY <2>1, <2>2 DEF Distinct, Contains
  <2>5. \A y : Contains(l, y) /\ y # i => Contains(r, y)
    <3> SUFFICES ASSUME NEW y, NEW n \in 1 .. Len(l), l[n] = y, y # i
                 PROVE  Contains(r, y)
      BY DEF Contains
    <3>1. CASE n < k
      <4>1. n \in 1 .. Len(r) /\ r[n] = y
        BY <2>1, <2>2, <3>1
      <4> QED
        BY <4>1 DEF Contains
    <3>2. CASE n > k
      <4>1. n - 1 \in 1 .. Len(r) /\ r[n - 1] = y
        BY <2>1, <2>2, <3>2
      <4> QED
        BY <4>1 DEF Contains
    <3> QED
      BY <2>1, <3>1, <3>2
  <2> QED
    BY <2>1, <2>2, <2>3, <2>4, <2>5
<1> QED
  BY <1>1, <1>2

-----------------------------------------------------------------------------
(* Steps of the same kind                                                  *)

\* What IInv speaks of, but for where the main loop is.
core == <<current, list, items, starting, handled, state, back>>

LEMMA Stuttering ==
  ASSUME IInv, UNCHANGED core, UNCHANGED main
  PROVE  IInv'
  BY DEF IInv, core, ShapeInv, SideInv, CompletedInv, MainInv, HeldInv, Gone

\* The ISR goes on to its next part, or preempts.
LEMMA IsrMoves ==
  ASSUME IInv, UNCHANGED core, NEW p \in {"usb", "tx", "rx"}, NEW q \in {"tx", "rx", "bsr"},
         IsrAt(p, q)
  PROVE  IInv'
<1>1. CASE UNCHANGED main
  BY <1>1, Stuttering
<1>2. CASE ~Preempt /\ main = p /\ main' = q
  BY <1>2 DEF IInv, core, ShapeInv, SideInv, CompletedInv, MainInv, HeldInv, Gone, Places
<1> QED
  BY <1>1, <1>2 DEF IsrAt

\* MGC_CompleteIrp, in the ISR.
LEMMA Completing ==
  ASSUME IInv, NEW d \in Sides, NEW off, NEW ended \in {"good", "failed"},
         NEW p \in {"tx", "rx"}, NEW q \in {"rx", "bsr"}, IsrAt(p, q),
         CompleteIrp(d, off, ended), UNCHANGED <<list, starting, handled, back>>
  PROVE  IInv'
<1> USE DEF Sides
<1>1. CASE current[d] = None
  <2>1. UNCHANGED core
    BY <1>1 DEF CompleteIrp, IInv, ShapeInv, core
  <2> QED
    BY <2>1, IsrMoves
<1>2. CASE current[d] # None
  <2> DEFINE i == current[d]
  <2>1. /\ i \in Irps /\ state[i] = "pending" /\ ~Contains(items, i) /\ ~Gone
        /\ Dir[i] = d /\ ~Contains(list[d], i) /\ starting # i
    BY <1>2 DEF IInv, ShapeInv, SideInv, CompletedInv, HeldInv
  <2>2. /\ current' = [current EXCEPT ![d] = None] /\ items' = Append(items, i)
        /\ state' = [state EXCEPT ![i] = ended]
        /\ UNCHANGED <<list, starting, handled, back>>
    BY <1>2 DEF CompleteIrp
  <2>3. /\ items' \in Seq(Irps \cup {None}) /\ Distinct(items')
        /\ \A y : Contains(items', y) <=> Contains(items, y) \/ y = i
    BY <2>1, <2>2, AppendFacts DEF IInv, ShapeInv, CompletedInv
  <2>4. main' = main \/ (~Preempt /\ main = p /\ main' = q)
    BY DEF IsrAt
  <2> HIDE DEF i
  <2>5. i # None /\ ~Gone'
    BY <2>1, <2>3, PipeAssumption DEF Gone, PipeAssumption
  <2>6. ShapeInv'
    BY <2>2, <2>3, <2>4 DEF IInv, ShapeInv, Places
  <2>7. SideInv'
    <3> SUFFICES ASSUME NEW e \in Sides
                 PROVE  /\ Distinct(list'[e])
                        /\ \A j \in Irps : current'[e] = j \/ Contains(list'[e], j) =>
                             Dir[j] = e /\ state'[j] = "pending" /\ starting' # j
                        /\ \A j \in Irps : ~(current'[e] = j /\ Contains(list'[e], j))
      BY DEF SideInv
    <3>1. \A j \in Irps : current'[e] = j \/ Contains(list'[e], j) =>
            j # i /\ (current[e] = j \/ Contains(list[e], j))
      <4>1. current'[e] = IF e = d THEN None ELSE current[e]
        BY <2>2 DEF IInv, ShapeInv
      <4>2. None \notin Irps
        BY PipeAssumption DEF PipeAssumption
      <4> QED
        BY <2>1, <2>2, <4>1, <4>2 DEF IInv, SideInv
    <3>2. \A j \in Irps : j # i => state'[j] = state[j]
      BY <2>2 DEF IInv, ShapeInv
    <3>3. \A j \in Irps : current[e] = j \/ Contains(list[e], j) =>
            Dir[j] = e /\ state[j] = "pending" /\ starting # j
      BY DEF IInv, SideInv
    <3>4. \A j \in Irps : current'[e] = j \/ Contains(list'[e], j) =>
            Dir[j] = e /\ state'[j] = "pending" /\ starting' # j
      BY <2>2, <3>1, <3>2, <3>3
    <3>5. \A j \in Irps : ~(current'[e] = j /\ Contains(list'[e], j))
      <4>1. current'[e] = IF e = d THEN None ELSE current[e]
        BY <2>2 DEF IInv, ShapeInv
      <4> QED
        BY <2>2, <4>1, PipeAssumption DEF PipeAssumption, IInv, SideInv
    <3>6. Distinct(list'[e])
      BY <2>2 DEF IInv, SideInv
    <3> QED
      BY <3>4, <3>5, <3>6
  <2>8. CompletedInv'
    BY <2>1, <2>2, <2>3 DEF IInv, ShapeInv, CompletedInv
  <2>9. MainInv'
    <3>1. starting # None => state'[starting] = "pending"
      BY <2>1, <2>2, <2>5 DEF IInv, ShapeInv, MainInv
    <3>2. CASE Preempt
      BY <2>2, <3>1, <3>2 DEF IsrAt, IInv, MainInv
    <3>3. CASE ~Preempt
      BY <2>2, <3>1, <3>3 DEF IsrAt, IInv, MainInv
    <3> QED
      BY <3>2, <3>3
  <2>10. HeldInv'
    BY <2>1, <2>2, <2>3, <2>5 DEF IInv, ShapeInv, SideInv, HeldInv, Gone
  <2> QED
    BY <2>6, <2>7, <2>8, <2>9, <2>10 DEF IInv
<1> QED
  BY <1>1, <1>2

\* What side d has of the IRPs.
Has(d, i) == current[d] = i \/ Contains(list[d], i)

\* MGC_StartNextIrp of side d, of whose list l is left: it changes who is current, but not
\* what the side has.
LEMMA NextStarted ==
  ASSUME ShapeInv, NEW d \in Sides, NEW l \in Seq(Irps), Distinct(l), StartNextIrp(d, l),
         \A i \in Irps : current[d] = i \/ Contains(l, i) => Dir[i] = d,
         \A i \in Irps : ~(current[d] = i /\ Contains(l, i))
  PROVE  \E c \in Irps \cup {None}, r \in Seq(Irps) :
           /\ current' = [current EXCEPT ![d] = c] /\ list' = [list EXCEPT ![d] = r]
           /\ Distinct(r)
           /\ \A i \in Irps : c = i \/ Contains(r, i) <=> current[d] = i \/ Contains(l, i)
           /\ \A i \in Irps : ~(c = i /\ Contains(r, i))
<1> USE DEF Sides
<1>0. None \notin Irps
  BY PipeAssumption DEF PipeAssumption
<1>1. ASSUME NEW i \in Irps, NEW n, Dir[i] = d, StartIrp(i, n)
      PROVE  current' = [current EXCEPT ![d] = i]
  BY <1>1 DEF StartIrp, StartTx, StartRx
<1>2. CASE current[d] # None
  <2>1. /\ current[d] \in Irps /\ Dir[current[d]] = d
        /\ list' = [list EXCEPT ![d] = Without(l, current[d])]
        /\ StartIrp(current[d], dwLength[current[d]] - offset[d])
    BY <1>2 DEF ShapeInv, StartNextIrp
  <2>2. current' = [current EXCEPT ![d] = current[d]]
    BY <1>1, <2>1
  <2> DEFINE r == Without(l, current[d])
  <2>3. /\ r \in Seq(Irps) /\ Distinct(r)
        /\ \A y : Contains(r, y) <=> Contains(l, y) /\ y # current[d]
    BY WithoutFacts
  <2> HIDE DEF r
  <2> QED
    BY <2>1, <2>2, <2>3 DEF r
<1>3. CASE current[d] = None /\ l # <<>>
  <2>1. /\ Head(l) \in Irps /\ Contains(l, Head(l))
    BY <1>3, TailFacts
  <2>2. /\ Dir[Head(l)] = d
        /\ list' = [list EXCEPT ![d] = Without(l, Head(l))]
        /\ StartIrp(Head(l), dwLength[Head(l)] - offset[d])
    BY <1>0, <1>3, <2>1 DEF StartNextIrp
  <2>3. current' = [current EXCEPT ![d] = Head(l)]
    BY <1>1, <2>1, <2>2
  <2> DEFINE r == Without(l, Head(l))
  <2>4. /\ r \in Seq(Irps) /\ Distinct(r)
        /\ \A y : Contains(r, y) <=> Contains(l, y) /\ y # Head(l)
    BY WithoutFacts
  <2>5. list' = [list EXCEPT ![d] = r]
    BY <2>2
  <2> HIDE DEF r
  <2>6. \A i \in Irps : current[d] # i
    BY <1>0, <1>3
  <2>7. \A i \in Irps : Head(l) = i \/ Contains(r, i) <=> current[d] = i \/ Contains(l, i)
    BY <2>1, <2>4, <2>6
  <2>8. \A i \in Irps : ~(Head(l) = i /\ Contains(r, i))
    BY <2>4
  <2> QED
    BY <2>1, <2>3, <2>4, <2>5, <2>7, <2>8
<1>4. CASE current[d] = None /\ l = <<>>
  <2>1. current' = current /\ list' = [list EXCEPT ![d] = l]
    BY <1>4 DEF StartNextIrp, programmed
  <2>2. current' = [current EXCEPT ![d] = None]
    BY <1>4, <2>1 DEF ShapeInv
  <2> QED
    BY <1>0, <1>4, <2>1, <2>2
<1> QED
  BY <1>2, <1>3, <1>4

\* Side d has c and r afterwards: IRP i is where it was, or is started or cancelled.
Keeps(d, c, r, i) ==
  /\ c = i \/ Contains(r, i) <=> Has(d, i)
  /\ state'[i] = state[i] /\ (starting' = i <=> starting = i)
Moves(d, c, r, i) ==
  /\ Dir[i] = d /\ {state[i], state'[i]} \subseteq {"free", "pending"}
  /\ state'[i] = "pending" <=> c = i \/ Contains(r, i) \/ starting' = i
  /\ starting' = i => c # i /\ ~Contains(r, i)

\* A step of the main loop, of a client or of a callback.
LEMMA MainStep ==
  ASSUME IInv, NEW d \in Sides, NEW c \in Irps \cup {None}, NEW r \in Seq(Irps),
         main \in {"client", "callback", "append"}, UNCHANGED items,
         current' = [current EXCEPT ![d] = c], list' = [list EXCEPT ![d] = r], Distinct(r),
         \A i \in Irps : ~(c = i /\ Contains(r, i)),
         \A i \in Irps : Keeps(d, c, r, i) \/ Moves(d, c, r, i),
         state' \in [Irps -> {"free", "pending", "good", "failed"}],
         starting' \in Irps \cup {None}, handled' \in Irps \cup {None},
         main' \in Places, back' \in {"client", "callback"},
         starting' # None <=> main' = "append",
         main' = "callback" \/ (main' = "append" /\ back' = "callback") => handled' # None,
         ~Preempt /\ (main' \in {"client", "usb"} \/ (main' = "append" /\ back' = "client"))
           => items = <<>>
  PROVE  IInv'
<1> DEFINE J == {i \in Irps : ~Keeps(d, c, r, i)}
<1>a. \A i \in Irps \ J : /\ c = i \/ Contains(r, i) <=> Has(d, i)
                          /\ state'[i] = state[i] /\ (starting' = i <=> starting = i)
  BY DEF Keeps
<1>b. J \in SUBSET Irps /\ \A i \in J : Moves(d, c, r, i)
  OBVIOUS
<1>c. \A i \in J : /\ Dir[i] = d /\ {state[i], state'[i]} \subseteq {"free", "pending"}
                   /\ state'[i] = "pending" <=> c = i \/ Contains(r, i) \/ starting' = i
                   /\ starting' = i => c # i /\ ~Contains(r, i)
  BY <1>b DEF Moves
<1> HIDE DEF J
<1>0. /\ None \notin Irps /\ ~Gone /\ ~Gone'
  BY PipeAssumption DEF PipeAssumption, IInv, HeldInv, Gone
<1>1. ShapeInv'
  BY DEF IInv, ShapeInv
<1>2. \A e \in Sides : /\ current'[e] = IF e = d THEN c ELSE current[e]
                       /\ list'[e] = IF e = d THEN r ELSE list[e]
  BY DEF IInv, ShapeInv
<1>3. \A e \in Sides, i \in Irps :
        Has(e, i) => Dir[i] = e /\ state[i] = "pending" /\ starting # i
  BY DEF IInv, SideInv, Has
<1>4. SideInv'
  <2> SUFFICES ASSUME NEW e \in Sides
               PROVE  /\ Distinct(list'[e])
                      /\ \A i \in Irps : current'[e] = i \/ Contains(list'[e], i) =>
                           Dir[i] = e /\ state'[i] = "pending" /\ starting' # i
                      /\ \A i \in Irps : ~(current'[e] = i /\ Contains(list'[e], i))
    BY DEF SideInv
  <2>1. CASE e = d
    <3>1. \A i \in Irps \ J : c = i \/ Contains(r, i) =>
            Dir[i] = e /\ state'[i] = "pending" /\ starting' # i
      BY <1>a, <1>3, <2>1
    <3>2. \A i \in J : c = i \/ Contains(r, i) =>
            Dir[i] = e /\ state'[i] = "pending" /\ starting' # i
      BY <1>c, <2>1
    <3> QED
      BY <1>b, <1>2, <2>1, <3>1, <3>2
  <2>2. CASE e # d
    <3>1. current'[e] = current[e] /\ list'[e] = list[e]
      BY <1>2, <2>2
    <3>2. \A i \in Irps : Has(e, i) => i \notin J
      BY <1>c, <1>3, <2>2
    <3>3. \A i \in Irps : Has(e, i) => Dir[i] = e /\ state'[i] = "pending" /\ starting' # i
      BY <1>a, <1>3, <3>2
    <3>4. Distinct(list[e]) /\ \A i \in Irps : ~(current[e] = i /\ Contains(list[e], i))
      BY DEF IInv, SideInv
    <3> QED
      BY <3>1, <3>3, <3>4 DEF Has
  <2> QED
    BY <2>1, <2>2
<1>5. CompletedInv'
  <2>1. \A i \in J : state[i] \notin {"good", "failed"} /\ state'[i] \notin {"good", "failed"}
    BY <1>c
  <2> QED
    BY <1>a, <1>b, <2>1 DEF IInv, CompletedInv
<1>6. MainInv'
  <2>1. starting' # None => state'[starting'] = "pending"
    BY <1>0, <1>a, <1>c DEF IInv, MainInv
  <2> QED
    BY <2>1 DEF MainInv
<1>7. HeldInv'
  <2>1. \A i \in Irps : state'[i] = "pending" =>
          current'[Dir[i]] = i \/ Contains(list'[Dir[i]], i) \/ starting' = i
    <3> SUFFICES ASSUME NEW i \in Irps, state'[i] = "pending", starting' # i
                 PROVE  current'[Dir[i]] = i \/ Contains(list'[Dir[i]], i)
      OBVIOUS
    <3>1. Dir[i] \in Sides
      BY PipeAssumption DEF PipeAssumption, Sides
    <3>2. CASE i \in J
      BY <1>c, <1>2, <3>1, <3>2
    <3>3. CASE i \notin J
      <4>1. Has(Dir[i], i)
        BY <1>0, <1>a, <3>3 DEF IInv, HeldInv, Has
      <4> QED
        BY <1>a, <1>2, <3>1, <3>3, <4>1 DEF Has
    <3> QED
      BY <3>2, <3>3
  <2> QED
    BY <1>0, <2>1 DEF HeldInv
<1> QED
  BY <1>1, <1>4, <1>5, <1>6, <1>7 DEF IInv

-----------------------------------------------------------------------------
(* The steps *)

LEMMA Initial == Init => IInv
<1> SUFFICES ASSUME Init PROVE IInv
  OBVIOUS
<1>1. \A d \in Sides : current[d] = None /\ list[d] = <<>>
  BY DEF Init
<1>2. None \notin Irps
  BY PipeAssumption DEF PipeAssumption
<1>3. ShapeInv
  BY DEF Init, ShapeInv, Places
<1>4. SideInv
  BY <1>1, <1>2, EmptyFacts DEF SideInv
<1>5. CompletedInv /\ MainInv /\ HeldInv
  BY EmptyFacts DEF Init, CompletedInv, MainInv, HeldInv, Gone
<1> QED
  BY <1>3, <1>4, <1>5 DEF IInv

LEMMA UnplugKeeps ==
  ASSUME IInv, Unplug
  PROVE  IInv'
<1>0. ~Preempt
  BY PipeAssumption DEF PipeAssumption, Unplug
<1>1. main = "usb" /\ main' = "tx" /\ items = <<>> /\ items' = <<None>>
  <2>1. main = "usb" /\ main' = "tx" /\ items' = Append(items, None)
    BY <1>0 DEF Unplug, IsrAt
  <2>2. items = <<>>
    BY <1>0, <2>1 DEF IInv, MainInv
  <2> QED
    BY <2>1, <2>2
<1>2. /\ UNCHANGED <<starting, back, handled, state>>
      /\ current' = [d \in Sides |-> None] /\ list' = [d \in Sides |-> <<>>]
  BY DEF Unplug, irp
<1>3. None \notin Irps /\ starting = None
  BY <1>1, PipeAssumption DEF PipeAssumption, IInv, MainInv
<1>4. ShapeInv'
  BY <1>1, <1>2 DEF IInv, ShapeInv, Places
<1>5. SideInv'
  BY <1>2, <1>3, EmptyFacts DEF SideInv
<1>6. CompletedInv'
  <2>1. Distinct(items') /\ \A i \in Irps : ~Contains(items, i) /\ ~Contains(items', i)
    BY <1>1, <1>3, EmptyFacts
  <2> QED
    BY <1>2, <2>1 DEF IInv, CompletedInv
<1>7. MainInv'
  BY <1>1, <1>2, <1>3 DEF MainInv
<1>8. HeldInv'
  BY <1>0, <1>1, <1>2, EmptyFacts DEF HeldInv, Gone
<1> QED
  BY <1>4, <1>5, <1>6, <1>7, <1>8 DEF IInv

LEMMA BsrCompleteKeeps ==
  ASSUME IInv, BsrComplete
  PROVE  IInv'
<1> DEFINE i == Head(items)
<1>1. /\ main = "bsr" /\ main' = "callback" /\ handled' = i /\ items' = Tail(items)
      /\ state' = [state EXCEPT ![i] = "free"]
      /\ items # <<>> /\ i # None
      /\ UNCHANGED <<current, list, starting, back>>
  BY DEF BsrComplete, endpoint
<1>2. /\ i \in Irps /\ Tail(items) \in Seq(Irps \cup {None}) /\ Distinct(items')
      /\ Contains(items, i) /\ \A y : Contains(items', y) <=> Contains(items, y) /\ y # i
  BY <1>1, TailFacts DEF IInv, ShapeInv, CompletedInv
<1> HIDE DEF i
<1>3. state[i] \in {"good", "failed"} /\ starting = None /\ None \notin Irps
  BY <1>1, <1>2, PipeAssumption DEF PipeAssumption, IInv, CompletedInv, MainInv
<1>4. ~Gone /\ ~Gone'
  <2>1. items = <<None>> => i = None
    BY DEF i
  <2>2. ~Gone
    BY <1>1, <2>1 DEF IInv, HeldInv
  <2> QED
    BY <1>2, <2>2 DEF Gone
<1>5. \A j \in Irps : state'[j] = IF j = i THEN "free" ELSE state[j]
  BY <1>1 DEF IInv, ShapeInv
<1>6. ShapeInv'
  BY <1>1, <1>2 DEF IInv, ShapeInv, Places
<1>7. SideInv'
  <2>1. \A d \in Sides, j \in Irps : Has(d, j) =>
          Dir[j] = d /\ state[j] = "pending" /\ starting # j
    BY DEF IInv, SideInv, Has
  <2>2. \A d \in Sides, j \in Irps : Has(d, j) =>
          Dir[j] = d /\ state'[j] = "pending" /\ starting' # j
    BY <1>1, <1>3, <1>5, <2>1
  <2> QED
    BY <1>1, <2>2 DEF Has, IInv, SideInv
<1>8. CompletedInv'
  BY <1>2, <1>5 DEF IInv, CompletedInv
<1>9. MainInv'
  BY <1>1, <1>3 DEF MainInv
<1>10. HeldInv'
  BY <1>1, <1>4, <1>5 DEF IInv, HeldInv
<1> QED
  BY <1>6, <1>7, <1>8, <1>9, <1>10 DEF IInv

LEMMA BsrDisconnectKeeps ==
  ASSUME IInv, BsrDisconnect
  PROVE  IInv'
<1>1. /\ main = "bsr" /\ UNCHANGED <<current, list, main, starting, back, handled>>
      /\ state' = [i \in Irps |-> "free"] /\ items # <<>> /\ Head(items) = None
      /\ items' = Tail(items)
  BY DEF BsrDisconnect, endpoint
<1>2. Contains(items, None)
  BY <1>1, TailFacts DEF IInv, ShapeInv, CompletedInv
<1>3. /\ items = <<None>> /\ \A d \in Sides : current[d] = None /\ list[d] = <<>>
  BY <1>2 DEF IInv, HeldInv, Gone
<1>4. items' = <<>> /\ starting = None /\ None \notin Irps
  BY <1>1, <1>3, PipeAssumption DEF PipeAssumption, IInv, MainInv
<1>5. ShapeInv'
  BY <1>1, <1>4 DEF IInv, ShapeInv
<1>6. SideInv'
  BY <1>1, <1>3, <1>4, EmptyFacts DEF SideInv
<1>7. CompletedInv' /\ MainInv' /\ HeldInv'
  BY <1>1, <1>4, EmptyFacts DEF CompletedInv, MainInv, HeldInv, Gone
<1> QED
  BY <1>5, <1>6, <1>7 DEF IInv

LEMMA SideFacts ==
  ASSUME IInv, NEW d \in Sides
  PROVE  /\ current[d] \in Irps \cup {None} /\ list[d] \in Seq(Irps) /\ Distinct(list[d])
         /\ \A i \in Irps : Has(d, i) => Dir[i] = d /\ state[i] = "pending" /\ starting # i
         /\ \A i \in Irps : ~(current[d] = i /\ Contains(list[d], i))
         /\ current = [current EXCEPT ![d] = current[d]]
         /\ list = [list EXCEPT ![d] = list[d]]
  BY DEF IInv, ShapeInv, SideInv, Has

\* StartNextIrp with all of the side's list.
LEMMA NextOfSide ==
  ASSUME IInv, NEW d \in Sides,
         StartNextIrp(d, list[d]) \/ UNCHANGED <<current, list>>
  PROVE  \E c \in Irps \cup {None}, r \in Seq(Irps) :
           /\ current' = [current EXCEPT ![d] = c] /\ list' = [list EXCEPT ![d] = r]
           /\ Distinct(r)
           /\ \A i \in Irps : c = i \/ Contains(r, i) <=> Has(d, i)
           /\ \A i \in Irps : ~(c = i /\ Contains(r, i))
<1>1. CASE StartNextIrp(d, list[d])
  <2>1. ShapeInv
    BY DEF IInv
  <2> QED
    BY <1>1, <2>1, SideFacts, NextStarted DEF Has
<1>2. CASE UNCHANGED <<current, list>>
  BY <1>2, SideFacts DEF Has
<1> QED
  BY <1>1, <1>2

LEMMA BsrNextKeeps ==
  ASSUME IInv, BsrNext
  PROVE  IInv'
<1> DEFINE d == Dir[handled]
<1>1. /\ main = "callback" /\ main' = "bsr" /\ handled' = None
      /\ UNCHANGED <<items, starting, back, state>>
  BY DEF BsrNext, irp
<1>2. d \in Sides /\ starting = None
  BY <1>1, PipeAssumption DEF PipeAssumption, Sides, IInv, ShapeInv, MainInv
<1>3. StartNextIrp(d, list[d]) \/ UNCHANGED <<current, list>>
  BY DEF BsrNext, programmed
<1> HIDE DEF d
<1>4. PICK c \in Irps \cup {None}, r \in Seq(Irps) :
        /\ current' = [current EXCEPT ![d] = c] /\ list' = [list EXCEPT ![d] = r]
        /\ Distinct(r)
        /\ \A i \in Irps : c = i \/ Contains(r, i) <=> Has(d, i)
        /\ \A i \in Irps : ~(c = i /\ Contains(r, i))
  BY <1>2, <1>3, NextOfSide
<1>5. /\ state' \in [Irps -> {"free", "pending", "good", "failed"}]
      /\ starting' \in Irps \cup {None} /\ handled' \in Irps \cup {None}
      /\ main' \in Places /\ back' \in {"client", "callback"}
  BY <1>1 DEF IInv, ShapeInv, Places
<1>6. \A i \in Irps : Keeps(d, c, r, i)
  BY <1>1, <1>4 DEF Keeps
<1> QED
  BY <1>1, <1>2, <1>4, <1>5, <1>6, MainStep

LEMMA ResumeTxKeeps ==
  ASSUME IInv, ResumeTx
  PROVE  IInv'
<1>1. /\ main \in {"client", "callback"} /\ UNCHANGED <<items, starting, back, state, main, handled>>
      /\ StartNextIrp("tx", list["tx"])
  BY DEF ResumeTx, InClient, loop, irp
<1>2. PICK c \in Irps \cup {None}, r \in Seq(Irps) :
        /\ current' = [current EXCEPT !["tx"] = c] /\ list' = [list EXCEPT !["tx"] = r]
        /\ Distinct(r)
        /\ \A i \in Irps : c = i \/ Contains(r, i) <=> Has("tx", i)
        /\ \A i \in Irps : ~(c = i /\ Contains(r, i))
  BY <1>1, NextOfSide DEF Sides
<1>3. /\ state' \in [Irps -> {"free", "pending", "good", "failed"}]
      /\ starting' \in Irps \cup {None} /\ handled' \in Irps \cup {None}
      /\ main' \in Places /\ back' \in {"client", "callback"} /\ "tx" \in Sides
  BY <1>1 DEF IInv, ShapeInv, Sides
<1>4. /\ starting = None
      /\ main = "callback" => handled # None
      /\ ~Preempt /\ main = "client" => items = <<>>
  BY <1>1 DEF IInv, MainInv
<1>5. \A i \in Irps : Keeps("tx", c, r, i)
  BY <1>1, <1>2 DEF Keeps
<1> QED
  BY <1>1, <1>2, <1>3, <1>4, <1>5, MainStep

LEMMA ResumeRxKeeps ==
  ASSUME IInv, ResumeRx
  PROVE  IInv'
<1>1. /\ main \in {"client", "callback"} /\ UNCHANGED <<items, starting, back, state, main, handled>>
  BY DEF ResumeRx, InClient, loop, irp
<1>2. CASE UNCHANGED <<current, list>>
  BY <1>1, <1>2, Stuttering DEF core
<1>3. CASE ~UNCHANGED <<current, list>>
  <2> DEFINE l == list["rx"]
  <2>1. "rx" \in Sides
    BY DEF Sides
  <2>2. /\ current["rx"] = None /\ l # <<>>
        /\ current' = [current EXCEPT !["rx"] = Head(l)]
        /\ list' = [list EXCEPT !["rx"] = Tail(l)]
    BY <1>3, <2>1, SideFacts DEF ResumeRx
  <2>3. /\ l \in Seq(Irps) /\ Distinct(l) /\ None \notin Irps
    BY <2>1, SideFacts, PipeAssumption DEF PipeAssumption
  <2>4. /\ Head(l) \in Irps /\ Tail(l) \in Seq(Irps) /\ Distinct(Tail(l)) /\ Contains(l, Head(l))
        /\ \A y : Contains(Tail(l), y) <=> Contains(l, y) /\ y # Head(l)
    BY <2>2, <2>3, TailFacts
  <2>5. \A i \in Irps : Head(l) = i \/ Contains(Tail(l), i) <=> Has("rx", i)
    BY <2>2, <2>3, <2>4 DEF Has
  <2>6. \A i \in Irps : ~(Head(l) = i /\ Contains(Tail(l), i))
    BY <2>4
  <2>7. /\ state' \in [Irps -> {"free", "pending", "good", "failed"}]
        /\ starting' \in Irps \cup {None} /\ handled' \in Irps \cup {None}
        /\ main' \in Places /\ back' \in {"client", "callback"}
    BY <1>1 DEF IInv, ShapeInv
  <2>8. /\ starting = None
        /\ main = "callback" => handled # None
        /\ ~Preempt /\ main = "client" => items = <<>>
    BY <1>1 DEF IInv, MainInv
  <2> HIDE DEF l
  <2>9. \A i \in Irps : Keeps("rx", Head(l), Tail(l), i)
    BY <1>1, <2>5 DEF Keeps
  <2> QED
    BY <1>1, <2>1, <2>2, <2>4, <2>6, <2>7, <2>8, <2>9, MainStep
<1> QED
  BY <1>2, <1>3

LEMMA StartNowKeeps ==
  ASSUME IInv, NEW i \in Irps, StartNow(i)
  PROVE  IInv'
<1> DEFINE d == Dir[i]
           r == list[d]
<1>0. d \in Sides /\ None \notin Irps
  BY PipeAssumption DEF PipeAssumption, Sides
<1>1. /\ main \in {"client", "callback"} /\ UNCHANGED <<items, starting, back, main, handled, list>>
      /\ state[i] = "free" /\ state' = [state EXCEPT ![i] = "pending"]
      /\ current[d] = None
  BY DEF StartNow, InClient, Started, loop
<1>2. current' = [current EXCEPT ![d] = i]
  BY <1>0 DEF StartNow, StartIrp, StartTx, StartRx, Sides
<1>3. /\ r \in Seq(Irps) /\ Distinct(r) /\ list' = [list EXCEPT ![d] = r]
      /\ \A j \in Irps : Has(d, j) => state[j] = "pending"
  BY <1>0, <1>1, SideFacts
<1>4. /\ state' \in [Irps -> {"free", "pending", "good", "failed"}]
      /\ starting' \in Irps \cup {None} /\ handled' \in Irps \cup {None}
      /\ main' \in Places /\ back' \in {"client", "callback"}
      /\ \A j \in Irps : state'[j] = IF j = i THEN "pending" ELSE state[j]
  BY <1>1 DEF IInv, ShapeInv
<1>5. /\ starting = None
      /\ main = "callback" => handled # None
      /\ ~Preempt /\ main = "client" => items = <<>>
  BY <1>1 DEF IInv, MainInv
<1>6. ~Contains(r, i)
  BY <1>1, <1>3 DEF Has
<1>7. Moves(d, i, r, i)
  BY <1>0, <1>1, <1>4, <1>5, <1>6 DEF Moves
<1>8. \A j \in Irps : j # i => Keeps(d, i, r, j)
  BY <1>0, <1>1, <1>4 DEF Keeps, Has
<1>9. \A j \in Irps : ~(i = j /\ Contains(r, j))
  BY <1>6
<1> HIDE DEF d, r
<1>10. \A j \in Irps : Keeps(d, i, r, j) \/ Moves(d, i, r, j)
  BY <1>7, <1>8
<1>11. /\ starting' # None <=> main' = "append"
       /\ main' = "callback" => handled' # None
       /\ ~Preempt /\ main' = "client" => items = <<>>
       /\ main' \in {"client", "callback"}
  BY <1>1, <1>5
<1> QED
  BY <1>0, <1>1, <1>2, <1>3, <1>4, <1>9, <1>10, <1>11, MainStep

LEMMA StartLaterKeeps ==
  ASSUME IInv, NEW i \in Irps, StartLater(i)
  PROVE  IInv'
<1> DEFINE d == Dir[i]
           c == current[d]
           r == list[d]
<1>0. d \in Sides /\ None \notin Irps
  BY PipeAssumption DEF PipeAssumption, Sides
<1>1. /\ main \in {"client", "callback"} /\ UNCHANGED <<items, handled, current, list>>
      /\ state[i] = "free" /\ state' = [state EXCEPT ![i] = "pending"]
      /\ starting' = i /\ back' = main /\ main' = "append"
  BY DEF StartLater, InClient, Started, endpoint
<1>2. /\ c \in Irps \cup {None} /\ r \in Seq(Irps) /\ Distinct(r)
      /\ current' = [current EXCEPT ![d] = c] /\ list' = [list EXCEPT ![d] = r]
      /\ \A j \in Irps : Has(d, j) => state[j] = "pending"
      /\ \A j \in Irps : ~(c = j /\ Contains(r, j))
  BY <1>0, <1>1, SideFacts
<1>3. /\ state' \in [Irps -> {"free", "pending", "good", "failed"}]
      /\ starting' \in Irps \cup {None} /\ handled' \in Irps \cup {None}
      /\ main' \in Places /\ back' \in {"client", "callback"}
      /\ \A j \in Irps : state'[j] = IF j = i THEN "pending" ELSE state[j]
  BY <1>1 DEF IInv, ShapeInv, Places
<1>4. /\ starting = None
      /\ main = "callback" => handled # None
      /\ ~Preempt /\ main = "client" => items = <<>>
  BY <1>1 DEF IInv, MainInv
<1>5. Moves(d, c, r, i)
  BY <1>1, <1>2, <1>3 DEF Moves, Has
<1>6. \A j \in Irps : j # i => Keeps(d, c, r, j)
  BY <1>0, <1>1, <1>3, <1>4 DEF Keeps, Has
<1> HIDE DEF d, c, r
<1>7. \A j \in Irps : Keeps(d, c, r, j) \/ Moves(d, c, r, j)
  BY <1>5, <1>6
<1>8. /\ starting' # None /\ main' = "append"
      /\ back' = "callback" => handled' # None
      /\ ~Preempt /\ back' = "client" => items = <<>>
  BY <1>0, <1>1, <1>4
<1> QED
  BY <1>0, <1>1, <1>2, <1>3, <1>7, <1>8, MainStep

\* What both ends of an append have in common.
LEMMA AppendEnds ==
  ASSUME IInv, main = "append", UNCHANGED <<items, handled>>,
         starting' = None, back' = "client", main' = back,
         state' \in [Irps -> {"free", "pending", "good", "failed"}]
  PROVE  /\ starting \in Irps /\ Dir[starting] \in Sides /\ None \notin Irps
         /\ state[starting] = "pending" /\ ~Has(Dir[starting], starting)
         /\ starting' \in Irps \cup {None} /\ handled' \in Irps \cup {None}
         /\ main' \in Places /\ back' \in {"client", "callback"}
         /\ main' \in {"client", "callback"}
         /\ main' = "callback" => handled' # None
         /\ ~Preempt /\ main' = "client" => items = <<>>
<1>1. starting \in Irps /\ state[starting] = "pending"
  BY DEF IInv, ShapeInv, MainInv
<1>2. Dir[starting] \in Sides /\ None \notin Irps
  BY <1>1, PipeAssumption DEF PipeAssumption, Sides
<1>3. ~Has(Dir[starting], starting)
  BY <1>1, <1>2, SideFacts
<1> QED
  BY <1>1, <1>2, <1>3 DEF IInv, ShapeInv, MainInv, Places

LEMMA AppendIrpKeeps ==
  ASSUME IInv, AppendIrp
  PROVE  IInv'
<1> DEFINE i == starting
           d == Dir[i]
<1>1. /\ main = "append" /\ UNCHANGED <<items, handled, state>>
      /\ starting' = None /\ back' = "client" /\ main' = back
  BY DEF AppendIrp, irp
<1>2. state' \in [Irps -> {"free", "pending", "good", "failed"}]
  BY <1>1 DEF IInv, ShapeInv
<1>3. /\ i \in Irps /\ d \in Sides /\ None \notin Irps
      /\ state[i] = "pending" /\ ~Has(d, i)
      /\ starting' \in Irps \cup {None} /\ handled' \in Irps \cup {None}
      /\ main' \in Places /\ back' \in {"client", "callback"}
      /\ main' \in {"client", "callback"}
      /\ main' = "callback" => handled' # None
      /\ ~Preempt /\ main' = "client" => items = <<>>
  BY <1>1, <1>2, AppendEnds
<1>4. /\ current[d] \in Irps \cup {None} /\ list[d] \in Seq(Irps) /\ Distinct(list[d])
      /\ \A j \in Irps : ~(current[d] = j /\ Contains(list[d], j))
      /\ current = [current EXCEPT ![d] = current[d]]
  BY <1>3, SideFacts
<1>5. \E c \in Irps \cup {None}, r \in Seq(Irps) :
        /\ current' = [current EXCEPT ![d] = c] /\ list' = [list EXCEPT ![d] = r]
        /\ Distinct(r)
        /\ \A j \in Irps : c = j \/ Contains(r, j) <=> Has(d, j) \/ j = i
        /\ \A j \in Irps : ~(c = j /\ Contains(r, j))
  <2>1. CASE current[d] = None /\ list[d] = <<>>
    <3>1. StartNextIrp(d, <<i>>)
      BY <2>1 DEF AppendIrp
    <3>2. <<i>> \in Seq(Irps)
      BY <1>3
    <3>3. Distinct(<<i>>) /\ \A j : Contains(<<i>>, j) <=> j = i
      BY EmptyFacts
    <3>4. \A j \in Irps : Has(d, j) \/ j = i <=> current[d] = j \/ Contains(<<i>>, j)
      BY <2>1, <3>3, EmptyFacts DEF Has
    <3>5. /\ \A j \in Irps : current[d] = j \/ Contains(<<i>>, j) => Dir[j] = d
          /\ \A j \in Irps : ~(current[d] = j /\ Contains(<<i>>, j))
      BY <1>3, <2>1, <3>3
    <3> HIDE DEF d
    <3>6. ShapeInv
      BY DEF IInv
    <3>7. PICK c \in Irps \cup {None}, r \in Seq(Irps) :
            /\ current' = [current EXCEPT ![d] = c] /\ list' = [list EXCEPT ![d] = r]
            /\ Distinct(r)
            /\ \A j \in Irps : c = j \/ Contains(r, j) <=> current[d] = j \/ Contains(<<i>>, j)
            /\ \A j \in Irps : ~(c = j /\ Contains(r, j))
      BY <1>3, <3>1, <3>2, <3>3, <3>5, <3>6, NextStarted
    <3>8. \A j \in Irps : c = j \/ Contains(r, j) <=> Has(d, j) \/ j = i
      BY <3>4, <3>7
    <3> QED
      BY <3>7, <3>8
  <2>2. CASE ~(current[d] = None /\ list[d] = <<>>)
    <3> DEFINE r == Append(list[d], i)
    <3>1. list' = [list EXCEPT ![d] = r] /\ UNCHANGED current
      BY <2>2 DEF AppendIrp, programmed
    <3>2. /\ r \in Seq(Irps) /\ Distinct(r)
          /\ \A y : Contains(r, y) <=> Contains(list[d], y) \/ y = i
      BY <1>3, <1>4, AppendFacts DEF Has
    <3>3. /\ \A j \in Irps : current[d] = j \/ Contains(r, j) <=> Has(d, j) \/ j = i
          /\ \A j \in Irps : ~(current[d] = j /\ Contains(r, j))
      BY <1>3, <1>4, <3>2 DEF Has
    <3> HIDE DEF d, r
    <3> QED
      BY <1>4, <3>1, <3>2, <3>3
  <2> QED
    BY <2>1, <2>2
<1> HIDE DEF d
<1>6. PICK c \in Irps \cup {None}, r \in Seq(Irps) :
        /\ current' = [current EXCEPT ![d] = c] /\ list' = [list EXCEPT ![d] = r]
        /\ Distinct(r)
        /\ \A j \in Irps : c = j \/ Contains(r, j) <=> Has(d, j) \/ j = i
        /\ \A j \in Irps : ~(c = j /\ Contains(r, j))
  BY <1>5
<1>7. Moves(d, c, r, i)
  BY <1>1, <1>3, <1>6 DEF Moves, d
<1>8. \A j \in Irps : j # i => Keeps(d, c, r, j)
  BY <1>1, <1>3, <1>6 DEF Keeps
<1> QED
  BY <1>1, <1>2, <1>3, <1>6, <1>7, <1>8, MainStep

LEMMA AppendFailsKeeps ==
  ASSUME IInv, AppendFails
  PROVE  IInv'
<1> DEFINE i == starting
           d == Dir[i]
           c == current[d]
           r == list[d]
<1>1. /\ main = "append" /\ UNCHANGED <<items, handled, current, list>>
      /\ starting' = None /\ back' = "client" /\ main' = back
      /\ state' = [state EXCEPT ![i] = "free"]
  BY DEF AppendFails, endpoint
<1>2. state' \in [Irps -> {"free", "pending", "good", "failed"}]
  BY <1>1 DEF IInv, ShapeInv
<1>3. /\ i \in Irps /\ d \in Sides /\ None \notin Irps
      /\ state[i] = "pending" /\ ~Has(d, i)
      /\ starting' \in Irps \cup {None} /\ handled' \in Irps \cup {None}
      /\ main' \in Places /\ back' \in {"client", "callback"}
      /\ main' \in {"client", "callback"}
      /\ main' = "callback" => handled' # None
      /\ ~Preempt /\ main' = "client" => items = <<>>
  BY <1>1, <1>2, AppendEnds
<1>4. /\ c \in Irps \cup {None} /\ r \in Seq(Irps) /\ Distinct(r)
      /\ current' = [current EXCEPT ![d] = c] /\ list' = [list EXCEPT ![d] = r]
      /\ \A j \in Irps : ~(c = j /\ Contains(r, j))
  BY <1>1, <1>3, SideFacts
<1>5. \A j \in Irps : state'[j] = IF j = i THEN "free" ELSE state[j]
  BY <1>1 DEF IInv, ShapeInv
<1>6. Moves(d, c, r, i)
  BY <1>1, <1>3, <1>5 DEF Moves, Has
<1>7. \A j \in Irps : j # i => Keeps(d, c, r, j)
  BY <1>1, <1>3, <1>5 DEF Keeps, Has
<1> HIDE DEF d, c, r
<1> QED
  BY <1>1, <1>2, <1>3, <1>4, <1>6, <1>7, MainStep

\* What both cancellations have in common.
LEMMA CancelEnds ==
  ASSUME IInv, NEW i \in Irps, main = "client", UNCHANGED loop,
         state' = [state EXCEPT ![i] = "free"]
  PROVE  /\ Dir[i] \in Sides /\ None \notin Irps /\ starting = None
         /\ state' \in [Irps -> {"free", "pending", "good", "failed"}]
         /\ \A j \in Irps : state'[j] = IF j = i THEN "free" ELSE state[j]
         /\ starting' \in Irps \cup {None} /\ handled' \in Irps \cup {None}
         /\ main' = "client" /\ main' \in Places /\ back' \in {"client", "callback"}
         /\ starting' = None /\ UNCHANGED items
         /\ ~Preempt => items = <<>>
<1>1. Dir[i] \in Sides /\ None \notin Irps
  BY PipeAssumption DEF PipeAssumption, Sides
<1> QED
  BY <1>1 DEF IInv, ShapeInv, MainInv, loop

LEMMA CancelCurrentKeeps ==
  ASSUME IInv, NEW i \in Irps, CancelCurrent(i)
  PROVE  IInv'
<1> DEFINE d == Dir[i]
           l == list[d]
<1>1. /\ main = "client" /\ UNCHANGED loop /\ state' = [state EXCEPT ![i] = "free"]
      /\ state[i] = "pending" /\ current[d] = i
  BY DEF CancelCurrent
<1>2. /\ d \in Sides /\ None \notin Irps /\ starting = None
      /\ state' \in [Irps -> {"free", "pending", "good", "failed"}]
      /\ \A j \in Irps : state'[j] = IF j = i THEN "free" ELSE state[j]
      /\ starting' \in Irps \cup {None} /\ handled' \in Irps \cup {None}
      /\ main' = "client" /\ main' \in Places /\ back' \in {"client", "callback"}
      /\ starting' = None /\ UNCHANGED items
      /\ ~Preempt => items = <<>>
  BY <1>1, CancelEnds
<1>3. /\ l \in Seq(Irps) /\ Distinct(l) /\ list = [list EXCEPT ![d] = l]
      /\ \A j \in Irps : Has(d, j) => Dir[j] = d
      /\ \A j \in Irps : ~(current[d] = j /\ Contains(l, j))
  BY <1>2, SideFacts
<1>4. \E c \in Irps \cup {None}, r \in Seq(Irps) :
        /\ current' = [current EXCEPT ![d] = c] /\ list' = [list EXCEPT ![d] = r]
        /\ Distinct(r)
        /\ \A j \in Irps : c = j \/ Contains(r, j) <=> Contains(l, j)
        /\ \A j \in Irps : ~(c = j /\ Contains(r, j))
  <2>1. CASE l = <<>>
    <3>1. current' = [current EXCEPT ![d] = None] /\ UNCHANGED list
      BY <2>1 DEF CancelCurrent
    <3>2. \A j \in Irps : ~Contains(l, j)
      BY <2>1, EmptyFacts
    <3>3. list' = [list EXCEPT ![d] = l] /\ l \in Seq(Irps) /\ Distinct(l)
      BY <1>3, <3>1
    <3>4. /\ \A j \in Irps : None = j \/ Contains(l, j) <=> Contains(l, j)
          /\ \A j \in Irps : ~(None = j /\ Contains(l, j))
      BY <1>2, <3>2
    <3>5. current' = [current EXCEPT ![d] = None]
      BY <3>1
    <3> HIDE DEF d, l
    <3> QED
      BY <3>3, <3>4, <3>5
  <2>2. CASE l # <<>>
    <3>1. /\ list' = [list EXCEPT ![d] = Tail(l)]
          /\ StartIrp(Head(l), dwLength[Head(l)] - offset[d])
      BY <1>2, <1>3, <2>2 DEF CancelCurrent, ShapeInv, IInv
    <3>2. /\ Head(l) \in Irps /\ Tail(l) \in Seq(Irps) /\ Distinct(Tail(l)) /\ Contains(l, Head(l))
          /\ \A y : Contains(Tail(l), y) <=> Contains(l, y) /\ y # Head(l)
      BY <1>3, <2>2, TailFacts
    <3>3. Dir[Head(l)] = d
      BY <1>3, <3>2 DEF Has
    <3>4. current' = [current EXCEPT ![d] = Head(l)]
      BY <1>2, <3>1, <3>3 DEF StartIrp, StartTx, StartRx, Sides
    <3>5. /\ \A j \in Irps : Head(l) = j \/ Contains(Tail(l), j) <=> Contains(l, j)
          /\ \A j \in Irps : ~(Head(l) = j /\ Contains(Tail(l), j))
      BY <3>2
    <3> HIDE DEF d, l
    <3> QED
      BY <3>1, <3>2, <3>4, <3>5
  <2> QED
    BY <2>1, <2>2
<1>5. PICK c \in Irps \cup {None}, r \in Seq(Irps) :
        /\ current' = [current EXCEPT ![d] = c] /\ list' = [list EXCEPT ![d] = r]
        /\ Distinct(r)
        /\ \A j \in Irps : c = j \/ Contains(r, j) <=> Contains(l, j)
        /\ \A j \in Irps : ~(c = j /\ Contains(r, j))
  BY <1>4
<1>6. Moves(d, c, r, i)
  BY <1>1, <1>2, <1>3, <1>5 DEF Moves
<1>7. \A j \in Irps : j # i => Keeps(d, c, r, j)
  BY <1>1, <1>2, <1>5 DEF Keeps, Has
<1> HIDE DEF d, l
<1>8. \A j \in Irps : Keeps(d, c, r, j) \/ Moves(d, c, r, j)
  BY <1>6, <1>7
<1> QED
  BY <1>1, <1>2, <1>5, <1>8, MainStep

LEMMA CancelWaitingKeeps ==
  ASSUME IInv, NEW i \in Irps, CancelWaiting(i)
  PROVE  IInv'
<1> DEFINE d == Dir[i]
           l == Without(list[d], i)
<1>1. /\ main = "client" /\ UNCHANGED loop /\ state' = [state EXCEPT ![i] = "free"]
      /\ state[i] = "pending" /\ current[d] # i /\ StartNextIrp(d, l)
  BY DEF CancelWaiting
<1>2. /\ d \in Sides /\ None \notin Irps /\ starting = None
      /\ state' \in [Irps -> {"free", "pending", "good", "failed"}]
      /\ \A j \in Irps : state'[j] = IF j = i THEN "free" ELSE state[j]
      /\ starting' \in Irps \cup {None} /\ handled' \in Irps \cup {None}
      /\ main' = "client" /\ main' \in Places /\ back' \in {"client", "callback"}
      /\ starting' = None /\ UNCHANGED items
      /\ ~Preempt => items = <<>>
  BY <1>1, CancelEnds
<1>3. /\ list[d] \in Seq(Irps) /\ Distinct(list[d])
      /\ \A j \in Irps : Has(d, j) => Dir[j] = d
      /\ \A j \in Irps : ~(current[d] = j /\ Contains(list[d], j))
  BY <1>2, SideFacts
<1>4. /\ l \in Seq(Irps) /\ Distinct(l)
      /\ \A y : Contains(l, y) <=> Contains(list[d], y) /\ y # i
  BY <1>3, WithoutFacts
<1>5. /\ \A j \in Irps : current[d] = j \/ Contains(l, j) => Dir[j] = d
      /\ \A j \in Irps : ~(current[d] = j /\ Contains(l, j))
      /\ \A j \in Irps : current[d] = j \/ Contains(l, j) <=> Has(d, j) /\ j # i
  BY <1>1, <1>3, <1>4 DEF Has
<1>6. ShapeInv
  BY DEF IInv
<1>a. Dir[i] = d
  OBVIOUS
<1> HIDE DEF d, l
<1>7. PICK c \in Irps \cup {None}, r \in Seq(Irps) :
        /\ current' = [current EXCEPT ![d] = c] /\ list' = [list EXCEPT ![d] = r]
        /\ Distinct(r)
        /\ \A j \in Irps : c = j \/ Contains(r, j) <=> current[d] = j \/ Contains(l, j)
        /\ \A j \in Irps : ~(c = j /\ Contains(r, j))
  BY <1>1, <1>2, <1>4, <1>5, <1>6, NextStarted
<1>8. Moves(d, c, r, i)
  BY <1>a, <1>1, <1>2, <1>5, <1>7 DEF Moves
<1>9. \A j \in Irps : j # i => Keeps(d, c, r, j)
  BY <1>1, <1>2, <1>5, <1>7 DEF Keeps
<1>10. \A j \in Irps : Keeps(d, c, r, j) \/ Moves(d, c, r, j)
  BY <1>8, <1>9
<1> QED
  BY <1>1, <1>2, <1>7, <1>10, MainStep

\* The steps that only move the main loop.
LEMMA PollKeeps ==
  ASSUME IInv, Poll \/ BsrEmpty
  PROVE  IInv'
<1>1. /\ UNCHANGED core
      /\ \/ main = "client" /\ main' \in {"bsr", "usb"}
         \/ main = "bsr" /\ main' = "client" /\ items = <<>>
  BY DEF Poll, BsrEmpty, core, endpoint, irp
<1>2. ~Gone
  BY <1>1, EmptyFacts DEF IInv, HeldInv, Gone
<1>3. MainInv'
  BY <1>1 DEF IInv, MainInv, core
<1>4. ShapeInv' /\ SideInv' /\ CompletedInv' /\ HeldInv'
  BY <1>1, <1>2 DEF IInv, ShapeInv, SideInv, CompletedInv, HeldInv, Gone, core, Places
<1> QED
  BY <1>3, <1>4 DEF IInv

LEMMA BusKeeps ==
  ASSUME IInv, Bus \/ \E d \in Sides : Halt(d)
  PROVE  IInv'
<1>1. UNCHANGED core /\ UNCHANGED main
  BY DEF Bus, TxDone, RxDone, Halt, core, endpoint, loop, irp
<1> QED
  BY <1>1, Stuttering

LEMMA IsrKeeps ==
  ASSUME IInv, IsrUsb \/ IsrTx \/ IsrRx
  PROVE  IInv'
<1>1. CASE NoUsbCause \/ NoTxInterrupt \/ NoRxInterrupt \/ TxNext \/ RxNext \/ RxUnexpected
  <2>1. UNCHANGED core
    BY <1>1 DEF NoUsbCause, NoTxInterrupt, NoRxInterrupt, TxNext, RxNext, RxUnexpected,
                core, endpoint, irp
  <2>2. IsrAt("usb", "tx") \/ IsrAt("tx", "rx") \/ IsrAt("rx", "bsr")
    BY <1>1 DEF NoUsbCause, NoTxInterrupt, NoRxInterrupt, TxNext, RxNext, RxUnexpected
  <2> QED
    BY <2>1, <2>2, IsrMoves
<1>2. CASE TxEnd \/ TxFail
  <2>1. \/ CompleteIrp("tx", offset["tx"] + dwTxSize, "good")
        \/ CompleteIrp("tx", offset["tx"], "failed")
    BY <1>2 DEF TxEnd, TxFail
  <2>2. IsrAt("tx", "rx") /\ UNCHANGED <<list, starting, handled, back>>
    BY <1>2 DEF TxEnd, TxFail
  <2> QED
    BY <2>1, <2>2, Completing DEF Sides
<1>3. CASE RxEnd \/ RxFail
  <2>1. \/ CompleteIrp("rx", offset["rx"] + Unloaded(current["rx"]), "good")
        \/ CompleteIrp("rx", offset["rx"], "failed")
    BY <1>3 DEF RxEnd, RxFail
  <2>2. IsrAt("rx", "bsr") /\ UNCHANGED <<list, starting, handled, back>>
    BY <1>3 DEF RxEnd, RxFail
  <2> QED
    BY <2>1, <2>2, Completing DEF Sides
<1>4. CASE Unplug
  BY <1>4, UnplugKeeps
<1> QED
  BY <1>1, <1>2, <1>3, <1>4 DEF IsrUsb, IsrTx, IsrRx

LEMMA Step ==
  ASSUME IInv, [Next]_vars
  PROVE  IInv'
<1>1. CASE Bus
  BY <1>1, BusKeeps
<1>2. CASE IsrUsb \/ IsrTx \/ IsrRx
  BY <1>2, IsrKeeps
<1>3. CASE MainLoop
  BY <1>3, PollKeeps, BsrCompleteKeeps, BsrDisconnectKeeps, BsrNextKeeps, AppendIrpKeeps
     DEF MainLoop
<1>4. CASE Client
  BY <1>4, StartNowKeeps, StartLaterKeeps, CancelCurrentKeeps, CancelWaitingKeeps,
     AppendFailsKeeps, BusKeeps, ResumeTxKeeps, ResumeRxKeeps DEF Client
<1>5. CASE UNCHANGED vars
  <2>1. UNCHANGED core /\ UNCHANGED main
    BY <1>5 DEF vars, core, endpoint, loop, irp
  <2> QED
    BY <2>1, Stuttering
<1> QED
  BY <1>1, <1>2, <1>3, <1>4, <1>5 DEF Next

\* IInv says where an IRP is by its state; that it is there only once follows.
LEMMA Sufficient == IInv => InOnePlace
<1> SUFFICES ASSUME IInv, NEW i \in Irps
             PROVE  /\ \A p, q \in PlacesOf(i) : p = q
                    /\ state[i] = "free" => PlacesOf(i) = {}
                    /\ state[i] # "free" => PlacesOf(i) # {} \/ Contains(items, None)
  BY DEF InOnePlace
<1> DEFINE d == Dir[i]
           atCurrent == {"current"} \X {e \in Sides : current[e] = i}
           inList == UNION {{e} \X {n \in 1 .. Len(list[e]) : list[e][n] = i} : e \in Sides}
           atEnd == {"completed"} \X {n \in 1 .. Len(items) : items[n] = i}
           atStart == {"starting"} \X {j \in {starting} : j = i}
<1>1. d \in Sides
  BY PipeAssumption DEF PipeAssumption, Sides
<1>2. PlacesOf(i) = atCurrent \cup inList \cup atEnd \cup atStart
  BY DEF PlacesOf
<1>3. \A e \in Sides : Has(e, i) => e = d /\ state[i] = "pending" /\ starting # i
  BY SideFacts
<1>4. \A p \in atCurrent : p = <<"current", d>> /\ current[d] = i
  BY <1>3 DEF Has
<1>5. \A p \in inList : /\ Contains(list[d], i)
                        /\ \E n \in 1 .. Len(list[d]) : p = <<d, n>> /\ list[d][n] = i
  BY <1>3 DEF Has, Contains
<1>6. \A p \in atEnd : /\ Contains(items, i)
                       /\ \E n \in 1 .. Len(items) : p = <<"completed", n>> /\ items[n] = i
  BY DEF Contains
<1>7. \A p \in atStart : p = <<"starting", i>> /\ starting = i
  OBVIOUS
<1>8. Contains(items, i) <=> state[i] \in {"good", "failed"}
  BY DEF IInv, CompletedInv
<1>9. starting = i => state[i] = "pending"
  BY PipeAssumption DEF PipeAssumption, IInv, MainInv
<1>10. /\ Distinct(list[d]) /\ Distinct(items)
       /\ ~(current[d] = i /\ Contains(list[d], i))
  BY <1>1, SideFacts DEF IInv, CompletedInv
<1>11. \A p, q \in inList : p = q
  BY <1>5, <1>10 DEF Distinct
<1>12. \A p, q \in atEnd : p = q
  BY <1>6, <1>10 DEF Distinct
<1>13. /\ atCurrent # {} => current[d] = i
       /\ inList # {} => Contains(list[d], i)
       /\ atEnd # {} => state[i] \in {"good", "failed"}
       /\ atStart # {} => starting = i
  BY <1>4, <1>5, <1>6, <1>7, <1>8
<1>14. /\ state[i] = "pending" =>
            current[d] = i \/ Contains(list[d], i) \/ starting = i \/ Contains(items, None)
       /\ state[i] \in {"free", "pending", "good", "failed"}
  BY DEF IInv, ShapeInv, HeldInv, Gone
<1>15. /\ current[d] = i => atCurrent # {}
       /\ Contains(list[d], i) => inList # {}
       /\ Contains(items, i) => atEnd # {}
       /\ starting = i => atStart # {}
  <2>1. current[d] = i => <<"current", d>> \in atCurrent
    BY <1>1
  <2>2. \A n \in 1 .. Len(list[d]) : list[d][n] = i => <<d, n>> \in inList
    BY <1>1
  <2>3. \A n \in 1 .. Len(items) : items[n] = i => <<"completed", n>> \in atEnd
    OBVIOUS
  <2>4. starting = i => <<"starting", i>> \in atStart
    OBVIOUS
  <2> HIDE DEF atCurrent, inList, atEnd, atStart
  <2> QED
    BY <2>1, <2>2, <2>3, <2>4 DEF Contains
<1>16. \A p, q \in atCurrent \cup atStart : current[d] # i \/ starting # i => p = q
  BY <1>4, <1>7
<1>17. \A e \in Sides : Has(e, i) => state[i] = "pending" /\ starting # i
  BY <1>3
<1> HIDE DEF d, atCurrent, inList, atEnd, atStart
<1>18. current[d] = i \/ Contains(list[d], i) => state[i] = "pending" /\ starting # i
  BY <1>1, <1>17 DEF Has
<1>19. \A p, q \in PlacesOf(i) : p = q
  BY <1>2, <1>9, <1>10, <1>11, <1>12, <1>13, <1>16, <1>18
<1>20. state[i] = "free" => PlacesOf(i) = {}
  BY <1>2, <1>9, <1>13, <1>18
<1>21. state[i] # "free" => PlacesOf(i) # {} \/ Contains(items, None)
  BY <1>2, <1>8, <1>14, <1>15
<1> QED
  BY <1>19, <1>20, <1>21

-----------------------------------------------------------------------------
\* Whatever transfers are started, cancelled, halted, resumed and completed, and wherever the
\* device is removed, no IRP is in two places, none that is free is in any, and none that was
\* started is nowhere unless its device is gone (mu_pip.c, mu_drc.c:1548-1580).
THEOREM OnePlace == Spec => []InOnePlace
<1>1. IInv /\ [Next]_vars => IInv'
  BY Step
<1> QED
  BY Initial, <1>1, Sufficient, PTL DEF Spec
=============================================================================
