-------------------------- MODULE InspectorProofs --------------------------
(***************************************************************************)
(* Proofs about Inspector, for any webhooks, filters, fetches and numbers  *)
(* of attempts: the screen agrees with the page, a deletion goes on to the *)
(* server, and a webhook that is inspected though off the list is          *)
(* explained; what a filter leaves, for a list of any length.              *)
(***************************************************************************)
EXTENDS Inspector, WellFoundedInduction, TLAPS

-----------------------------------------------------------------------------
(* Lists, in which an entry may occur twice. *)

(* x occurs in l at one place at most. *)
Single(l, x) == \A i, j \in 1..Len(l) : l[i] = x /\ l[j] = x => i = j

(* A set of numbers has a least one. *)
LEMMA Least ==
  ASSUME NEW T \in SUBSET Nat, T # {}
  PROVE  \E m \in T : \A n \in T : m <= n
  <1>1. PICK m \in T : \A n \in T : <<n, m>> \notin OpToRel(<, Nat)
    BY WFMin, NatLessThanWellFounded
  <1>2. \A n \in T : n \in Nat /\ m \in Nat /\ ~(n < m)
    BY <1>1 DEF OpToRel
  <1>3. \A n \in T : m <= n
    BY <1>2
  <1> QED
    BY <1>3

(* The first place of an entry. *)
First(l, x) == SelectInSeq(l, LAMBDA y : y = x)

LEMMA FirstFound ==
  ASSUME NEW S, NEW l \in Seq(S), NEW x \in ToSet(l)
  PROVE  First(l, x) \in 1..Len(l) /\ l[First(l, x)] = x
  <1> DEFINE I == {i \in 1..Len(l) : l[i] = x}
  <1>1. I \in SUBSET Nat /\ I # {}
    BY DEF ToSet
  <1>2. PICK m \in I : \A n \in I : m <= n
    <2> HIDE DEF I
    <2> QED
      BY <1>1, Least
  <1>3. First(l, x) = Min(I)
    BY <1>1 DEF First, SelectInSeq
  <1>4. Min(I) \in I
    <2> HIDE DEF I
    <2> QED
      BY <1>2 DEF Min
  <1> QED
    BY <1>3, <1>4

(* Taking the entry at one place off moves those after it. *)
LEMMA Removed ==
  ASSUME NEW S, NEW l \in Seq(S), NEW i \in 1..Len(l)
  PROVE  /\ RemoveAt(l, i) \in Seq(S)
         /\ Len(RemoveAt(l, i)) = Len(l) - 1
         /\ \A j \in 1..(Len(l) - 1) : RemoveAt(l, i)[j] = l[IF j < i THEN j ELSE j + 1]
  <1> DEFINE a == SubSeq(l, 1, i - 1)
             b == SubSeq(l, i + 1, Len(l))
  <1>1. a \in Seq(S) /\ Len(a) = i - 1 /\ \A j \in 1..(i - 1) : a[j] = l[j]
    <2>1. \A j \in 1..(i - 1) : 1 + j - 1 = j
      OBVIOUS
    <2> QED
      BY <2>1
  <1>2. b \in Seq(S) /\ Len(b) = Len(l) - i /\ \A j \in 1..(Len(l) - i) : b[j] = l[i + j]
    <2>1. \A j \in 1..(Len(l) - i) : i + 1 + j - 1 = i + j
      OBVIOUS
    <2> QED
      BY <2>1
  <1>3. RemoveAt(l, i) = a \o b
    BY DEF RemoveAt
  <1> HIDE DEF a, b
  <1>4. a \o b \in Seq(S) /\ Len(a \o b) = Len(l) - 1
    <2>1. a \in Seq(S) /\ b \in Seq(S)
      BY <1>1, <1>2
    <2>2. a \o b \in Seq(S) /\ Len(a \o b) = Len(a) + Len(b)
      BY <2>1
    <2>3. (i - 1) + (Len(l) - i) = Len(l) - 1
      OBVIOUS
    <2> QED
      BY <1>1, <1>2, <2>2, <2>3
  <1>5. ASSUME NEW j \in 1..(Len(l) - 1)
        PROVE  (a \o b)[j] = l[IF j < i THEN j ELSE j + 1]
    <2>1. CASE j < i
      BY <1>1, <1>2, <2>1
    <2>2. CASE ~(j < i)
      <3>1. (a \o b)[j] = b[j - (i - 1)] /\ j - (i - 1) \in 1..(Len(l) - i)
        BY <1>1, <1>2, <1>4, <2>2
      <3>2. i + (j - (i - 1)) = j + 1
        OBVIOUS
      <3>3. b[j - (i - 1)] = l[i + (j - (i - 1))]
        BY <1>2, <3>1
      <3> QED
        BY <2>2, <3>1, <3>2, <3>3
    <2> QED
      BY <2>1, <2>2
  <1> QED
    BY <1>3, <1>4, <1>5

(* What was at one place is at one place; only the entry removed may be gone. *)
LEMMA RemovedEntries ==
  ASSUME NEW S, NEW l \in Seq(S), NEW i \in 1..Len(l)
  PROVE  LET r == RemoveAt(l, i) IN
         /\ ToSet(r) \subseteq ToSet(l)
         /\ ToSet(l) \subseteq ToSet(r) \cup {l[i]}
         /\ \A x : Single(l, x) => Single(r, x)
         /\ IsInjective(l) => IsInjective(r)
  <1> DEFINE r == RemoveAt(l, i)
             f(j) == IF j < i THEN j ELSE j + 1
  <1>1. /\ r \in Seq(S) /\ Len(r) = Len(l) - 1 /\ Len(l) \in Nat
        /\ \A j \in 1..Len(r) : r[j] = l[f(j)]
    <2>1. /\ r \in Seq(S) /\ Len(r) = Len(l) - 1
          /\ \A j \in 1..(Len(l) - 1) : r[j] = l[f(j)]
      BY Removed
    <2> HIDE DEF r
    <2> QED
      BY <2>1
  <1>2. \A j \in 1..Len(r) : f(j) \in 1..Len(l)
    BY <1>1
  <1>3. \A j, k \in 1..Len(r) : f(j) = f(k) => j = k
    BY <1>1
  <1>4. \A k \in 1..Len(l) : k # i => \E j \in 1..Len(r) : f(j) = k
    <2> SUFFICES ASSUME NEW k \in 1..Len(l), k # i
                 PROVE  \E j \in 1..Len(r) : f(j) = k
      OBVIOUS
    <2>1. CASE k < i
      <3>1. k \in 1..Len(r) /\ f(k) = k
        BY <1>1, <2>1
      <3> QED
        BY <3>1
    <2>2. CASE k > i
      <3>1. k - 1 \in 1..Len(r) /\ f(k - 1) = k
        BY <1>1, <2>2
      <3> QED
        BY <3>1
    <2> QED
      BY <2>1, <2>2
  <1> HIDE DEF r, f
  <1>5. ToSet(r) \subseteq ToSet(l)
    BY <1>1, <1>2 DEF ToSet
  <1>6. ToSet(l) \subseteq ToSet(r) \cup {l[i]}
    BY <1>1, <1>4 DEF ToSet
  <1>7. \A x : Single(l, x) => Single(r, x)
    BY <1>1, <1>2, <1>3 DEF Single
  <1>8. IsInjective(l) => IsInjective(r)
    BY <1>1, <1>2, <1>3 DEF IsInjective
  <1> QED
    BY <1>5, <1>6, <1>7, <1>8 DEF r

LEMMA Prepended ==
  ASSUME NEW S, NEW l \in Seq(S), NEW x \in S
  PROVE  LET r == <<x>> \o l IN
         /\ r \in Seq(S) /\ Len(r) = Len(l) + 1 /\ r[1] = x
         /\ \A j \in 1..Len(l) : r[j + 1] = l[j]
         /\ \A j \in 2..Len(r) : j - 1 \in 1..Len(l) /\ r[j] = l[j - 1]
         /\ ToSet(r) = ToSet(l) \cup {x}
         /\ \A y : y # x /\ Single(l, y) => Single(r, y)
         /\ IsInjective(l) /\ x \notin ToSet(l) => IsInjective(r)
  <1> DEFINE r == <<x>> \o l
  <1>1. /\ r \in Seq(S) /\ Len(r) = Len(l) + 1 /\ r[1] = x /\ Len(l) \in Nat
        /\ \A j \in 2..Len(r) : j - 1 \in 1..Len(l) /\ r[j] = l[j - 1]
    OBVIOUS
  <1> HIDE DEF r
  <1>2. \A j \in 1..Len(l) : j + 1 \in 2..Len(r) /\ (j + 1) - 1 = j
    BY <1>1
  <1>3. \A j \in 1..Len(l) : r[j + 1] = l[j]
    BY <1>1, <1>2
  <1>4. \A j \in 1..Len(r) : j = 1 \/ j \in 2..Len(r)
    BY <1>1
  <1>5. ToSet(r) = ToSet(l) \cup {x}
    <2>1. ToSet(r) \subseteq ToSet(l) \cup {x}
      BY <1>1, <1>4 DEF ToSet
    <2>2. x \in ToSet(r)
      BY <1>1 DEF ToSet
    <2>3. ASSUME NEW j \in 1..Len(l) PROVE l[j] \in ToSet(r)
      <3>1. j + 1 \in 1..Len(r)
        BY <1>1
      <3> QED
        BY <1>3, <3>1 DEF ToSet
    <2>4. ToSet(l) \subseteq ToSet(r)
      BY <2>3 DEF ToSet
    <2> QED
      BY <2>1, <2>2, <2>4
  <1>6. ASSUME NEW y, y # x, Single(l, y) PROVE Single(r, y)
    <2> SUFFICES ASSUME NEW j \in 1..Len(r), NEW k \in 1..Len(r), r[j] = y, r[k] = y
                 PROVE  j = k
      BY DEF Single
    <2>1. j \in 2..Len(r) /\ k \in 2..Len(r)
      BY <1>1, <1>4, <1>6
    <2>2. j - 1 = k - 1
      BY <1>1, <1>6, <2>1 DEF Single
    <2> QED
      BY <2>1, <2>2
  <1>7. ASSUME IsInjective(l), x \notin ToSet(l) PROVE IsInjective(r)
    <2> SUFFICES ASSUME NEW j \in 1..Len(r), NEW k \in 1..Len(r), r[j] = r[k]
                 PROVE  j = k
      BY <1>1 DEF IsInjective
    <2>1. \A i \in 1..Len(l) : l[i] # x
      BY <1>7 DEF ToSet
    <2>2. CASE j = 1 \/ k = 1
      BY <1>1, <1>4, <2>1, <2>2
    <2>3. CASE j # 1 /\ k # 1
      <3>1. j - 1 \in 1..Len(l) /\ k - 1 \in 1..Len(l) /\ l[j - 1] = l[k - 1]
        BY <1>1, <1>4, <2>3
      <3>2. j - 1 = k - 1
        BY <1>7, <3>1 DEF IsInjective
      <3> QED
        BY <3>2
    <2> QED
      BY <2>2, <2>3
  <1> QED
    BY <1>1, <1>3, <1>5, <1>6, <1>7 DEF r

LEMMA Appended ==
  ASSUME NEW S, NEW l \in Seq(S), NEW x \in S
  PROVE  LET r == Append(l, x) IN
         /\ r \in Seq(S)
         /\ ToSet(r) = ToSet(l) \cup {x}
         /\ IsInjective(l) /\ x \notin ToSet(l) => IsInjective(r)
  <1> DEFINE r == Append(l, x)
  <1>1. /\ r \in Seq(S) /\ Len(r) = Len(l) + 1 /\ r[Len(l) + 1] = x
        /\ \A j \in 1..Len(l) : r[j] = l[j]
    OBVIOUS
  <1> HIDE DEF r
  <1>2. ToSet(r) = ToSet(l) \cup {x}
    BY <1>1 DEF ToSet
  <1>3. ASSUME IsInjective(l), x \notin ToSet(l) PROVE IsInjective(r)
    <2>1. \A j \in 1..Len(l) : l[j] # x
      BY <1>3 DEF ToSet
    <2> QED
      BY <1>1, <1>3, <2>1 DEF IsInjective
  <1> QED
    BY <1>1, <1>2, <1>3 DEF r

LEMMA Taken ==
  ASSUME NEW S, NEW l \in Seq(S), IsInjective(l), l # <<>>
  PROVE  /\ Head(l) \in S /\ Head(l) \in ToSet(l)
         /\ Tail(l) \in Seq(S) /\ IsInjective(Tail(l))
         /\ ToSet(Tail(l)) = ToSet(l) \ {Head(l)}
  <1> DEFINE r == Tail(l)
  <1>1. /\ r \in Seq(S) /\ Len(r) = Len(l) - 1 /\ Len(l) > 0 /\ Head(l) = l[1]
        /\ \A j \in 1..Len(r) : j + 1 \in 1..Len(l) /\ r[j] = l[j + 1]
    OBVIOUS
  <1> HIDE DEF r
  <1>2. IsInjective(r)
    <2> SUFFICES ASSUME NEW j \in 1..Len(r), NEW k \in 1..Len(r), r[j] = r[k]
                 PROVE  j = k
      BY <1>1 DEF IsInjective
    <2>1. j + 1 \in 1..Len(l) /\ k + 1 \in 1..Len(l) /\ l[j + 1] = l[k + 1]
      BY <1>1
    <2>2. j + 1 = k + 1
      BY <2>1 DEF IsInjective
    <2> QED
      BY <2>2
  <1>3. ToSet(r) \subseteq ToSet(l) \ {l[1]}
    BY <1>1 DEF IsInjective, ToSet
  <1>4. ASSUME NEW x \in ToSet(l) \ {l[1]} PROVE x \in ToSet(r)
    <2>1. PICK j \in 1..Len(l) : l[j] = x /\ j # 1
      BY <1>4 DEF ToSet
    <2>2. j - 1 \in 1..Len(r) /\ r[j - 1] = x
      BY <1>1, <2>1
    <2> QED
      BY <1>1, <2>2 DEF ToSet
  <1>5. Head(l) \in S /\ Head(l) \in ToSet(l)
    BY <1>1 DEF ToSet
  <1> QED
    BY <1>1, <1>2, <1>3, <1>4, <1>5 DEF r

-----------------------------------------------------------------------------
(* The rows behind the filters. *)

(* g holds what the first entries of l leave behind f, for 0 up to n of them. *)
Keeps(g, n, l, f) ==
  g = [k \in 0..n |-> IF k = 0 THEN <<>>
                      ELSE IF Passes(l[k], f) THEN Append(g[k - 1], l[k]) ELSE g[k - 1]]

LEMMA KeepsExists ==
  ASSUME NEW l, NEW f, NEW n \in Nat
  PROVE  \E g : Keeps(g, n, l, f)
  <1> DEFINE T == {k \in Nat : ~\E g : Keeps(g, k, l, f)}
  <1> SUFFICES ASSUME T # {} PROVE FALSE
    OBVIOUS
  <1>1. PICK m \in T : \A k \in T : m <= k
    BY Least
  <1>2. m # 0
    <2>1. Keeps([k \in 0..0 |-> <<>>], 0, l, f)
      BY DEF Keeps
    <2> QED
      BY <2>1
  <1>3. m - 1 \in Nat /\ m - 1 \notin T
    BY <1>1, <1>2
  <1>4. PICK g : Keeps(g, m - 1, l, f)
    BY <1>3
  <1> DEFINE h == [k \in 0..m |->
                     IF k = 0 THEN <<>>
                     ELSE IF Passes(l[k], f) THEN Append(g[k - 1], l[k]) ELSE g[k - 1]]
  <1>5. \A k \in 0..(m - 1) : h[k] = g[k]
    <2>1. \A k \in 0..(m - 1) :
            g[k] = IF k = 0 THEN <<>>
                   ELSE IF Passes(l[k], f) THEN Append(g[k - 1], l[k]) ELSE g[k - 1]
      BY <1>4 DEF Keeps
    <2>2. 0..(m - 1) \subseteq 0..m
      OBVIOUS
    <2>3. \A k \in 0..m :
            h[k] = IF k = 0 THEN <<>>
                   ELSE IF Passes(l[k], f) THEN Append(g[k - 1], l[k]) ELSE g[k - 1]
      OBVIOUS
    <2> HIDE DEF h
    <2> QED
      BY <2>1, <2>2, <2>3
  <1>6. \A k \in 0..m : k # 0 => k - 1 \in 0..(m - 1)
    OBVIOUS
  <1>7. Keeps(h, m, l, f)
    <2>1. \A k \in 0..m :
            h[k] = IF k = 0 THEN <<>>
                   ELSE IF Passes(l[k], f) THEN Append(h[k - 1], l[k]) ELSE h[k - 1]
      BY <1>5, <1>6
    <2> QED
      BY <2>1 DEF Keeps
  <1> QED
    BY <1>7

(* Each entry of r is one of the first k of l, and they are in their order. *)
InOrder(r, l, k) ==
  \E at \in [1..Len(r) -> 1..k] :
    /\ \A i \in 1..Len(r) : r[i] = l[at[i]]
    /\ \A i, j \in 1..Len(r) : i < j => at[i] < at[j]

LEMMA OneMore ==
  ASSUME NEW S, NEW l \in Seq(S), NEW k \in 1..Len(l),
         NEW a \in Seq(S), InOrder(a, l, k - 1)
  PROVE  InOrder(a, l, k) /\ InOrder(Append(a, l[k]), l, k)
  <1> DEFINE n == Len(a)
             b == Append(a, l[k])
  <1>1. PICK at \in [1..n -> 1..(k - 1)] :
          /\ \A i \in 1..n : a[i] = l[at[i]]
          /\ \A i, j \in 1..n : i < j => at[i] < at[j]
    BY DEF InOrder
  <1>2. n \in Nat /\ Len(b) = n + 1 /\ b[n + 1] = l[k] /\ \A i \in 1..n : b[i] = a[i]
    OBVIOUS
  <1>3. \A i \in 1..n : at[i] \in 1..k /\ at[i] < k
    BY <1>1
  <1> HIDE DEF n, b
  <1>4. InOrder(a, l, k)
    <2>1. at \in [1..n -> 1..k]
      BY <1>1, <1>3
    <2> QED
      BY <1>1, <2>1 DEF InOrder, n
  <1>5. InOrder(b, l, k)
    <2> DEFINE to == [i \in 1..(n + 1) |-> IF i = n + 1 THEN k ELSE at[i]]
    <2>1. \A i \in 1..(n + 1) : i = n + 1 \/ i \in 1..n
      BY <1>2
    <2>2. to \in [1..Len(b) -> 1..k]
      BY <1>2, <1>3, <2>1
    <2>3. \A i \in 1..Len(b) : b[i] = l[to[i]]
      BY <1>1, <1>2, <2>1
    <2>4. \A i, j \in 1..Len(b) : i < j => to[i] < to[j]
      <3> SUFFICES ASSUME NEW i \in 1..(n + 1), NEW j \in 1..(n + 1), i < j
                   PROVE  to[i] < to[j]
        BY <1>2
      <3>1. i \in 1..n /\ to[i] = at[i]
        BY <1>2
      <3>2. CASE j = n + 1
        BY <1>3, <3>1, <3>2
      <3>3. CASE j \in 1..n
        BY <1>1, <1>2, <3>1, <3>3
      <3> QED
        BY <2>1, <3>2, <3>3
    <2> HIDE DEF to
    <2> QED
      BY <2>2, <2>3, <2>4 DEF InOrder
  <1> QED
    BY <1>4, <1>5 DEF b

(* What getFilteredRequests leaves of a list are its entries that pass the
   buttons and the search, all of them and no others, in the order of the
   list (app.js:168-181). *)
THEOREM FilteredRows ==
  ASSUME NEW S, NEW l \in Seq(S), NEW f
  PROVE  /\ Filtered(l, f) \in Seq(S)
         /\ ToSet(Filtered(l, f)) = {w \in ToSet(l) : Passes(w, f)}
         /\ InOrder(Filtered(l, f), l, Len(l))
  <1> DEFINE g == CHOOSE kept : Keeps(kept, Len(l), l, f)
             Gone(k) == /\ g[k] \in Seq(S)
                        /\ ToSet(g[k]) = {w \in S : \E i \in 1..k : l[i] = w /\ Passes(w, f)}
                        /\ InOrder(g[k], l, k)
             T == {k \in 0..Len(l) : ~Gone(k)}
  <1>1. Filtered(l, f) = g[Len(l)]
    BY DEF Filtered, Keeps
  <1>2. Keeps(g, Len(l), l, f)
    BY KeepsExists
  <1> HIDE DEF g
  <1>3. /\ g[0] = <<>>
        /\ \A k \in 1..Len(l) : g[k] = IF Passes(l[k], f) THEN Append(g[k - 1], l[k])
                                       ELSE g[k - 1]
    <2>1. \A k \in 0..Len(l) :
            g[k] = IF k = 0 THEN <<>>
                   ELSE IF Passes(l[k], f) THEN Append(g[k - 1], l[k]) ELSE g[k - 1]
      BY <1>2 DEF Keeps
    <2>2. 0 \in 0..Len(l) /\ \A k \in 1..Len(l) : k \in 0..Len(l) /\ k # 0
      OBVIOUS
    <2> QED
      BY <2>1, <2>2
  <1>4. Gone(0)
    <2>1. InOrder(<<>>, l, 0)
      <3>1. 1..Len(<<>>) = {} /\ 1..0 = {}
        OBVIOUS
      <3> DEFINE at == [i \in {} |-> 0]
      <3>2. at \in [{} -> {}]
        OBVIOUS
      <3> HIDE DEF at
      <3>3. at \in [1..Len(<<>>) -> 1..0]
        BY <3>1, <3>2
      <3> QED
        BY <3>1, <3>3 DEF InOrder
    <2> QED
      BY <1>3, <2>1 DEF ToSet
  <1>5. ASSUME NEW k \in 1..Len(l), Gone(k - 1) PROVE Gone(k)
    <2>1. l[k] \in S /\ k \in Nat
      OBVIOUS
    <2>2. \A i \in 1..k : i \in 1..(k - 1) \/ i = k
      OBVIOUS
    <2>3. 1..(k - 1) \subseteq 1..k /\ k \in 1..k
      OBVIOUS
    <2>4. CASE Passes(l[k], f)
      <3> DEFINE a == g[k - 1]
      <3>1. g[k] = Append(a, l[k]) /\ a \in Seq(S)
        BY <1>3, <1>5, <2>4
      <3>2. ToSet(a) = {w \in S : \E i \in 1..(k - 1) : l[i] = w /\ Passes(w, f)}
        BY <1>5
      <3> HIDE DEF a
      <3>3. g[k] \in Seq(S) /\ ToSet(g[k]) = ToSet(a) \cup {l[k]}
        <4> DEFINE b == Append(a, l[k])
        <4>1. /\ b \in Seq(S) /\ Len(b) = Len(a) + 1 /\ Len(a) \in Nat /\ b[Len(a) + 1] = l[k]
              /\ \A i \in 1..Len(a) : b[i] = a[i]
          BY <2>1, <3>1
        <4> HIDE DEF b
        <4>2. ToSet(b) = ToSet(a) \cup {l[k]}
          BY <4>1 DEF ToSet
        <4> QED
          BY <3>1, <4>1, <4>2 DEF b
      <3>4. InOrder(g[k], l, k)
        BY <1>5, <3>1, OneMore DEF a
      <3> QED
        BY <2>1, <2>2, <2>3, <2>4, <3>2, <3>3, <3>4
    <2>5. CASE ~Passes(l[k], f)
      <3>1. g[k] = g[k - 1]
        BY <1>3, <2>5
      <3>2. InOrder(g[k], l, k)
        BY <1>5, <3>1, OneMore
      <3> QED
        BY <1>5, <2>2, <2>3, <2>5, <3>1, <3>2
    <2> QED
      BY <2>4, <2>5
  <1> HIDE DEF Gone
  <1>6. T = {}
    <2> SUFFICES ASSUME T # {} PROVE FALSE
      OBVIOUS
    <2>0. T \in SUBSET Nat
      OBVIOUS
    <2>1. PICK m \in T : \A k \in T : m <= k
      <3> HIDE DEF T
      <3> QED
        BY <2>0, Least
    <2>2. m \in 1..Len(l) /\ m - 1 \in 0..Len(l) /\ m - 1 \notin T
      BY <1>4, <2>1
    <2> QED
      BY <1>5, <2>1, <2>2
  <1>7. Gone(Len(l))
    BY <1>6
  <1>8. ToSet(l) = {w \in S : \E i \in 1..Len(l) : l[i] = w}
    BY DEF ToSet
  <1> QED
    BY <1>1, <1>7, <1>8 DEF Gone

-----------------------------------------------------------------------------
(* The inductive invariant. *)

FetchType == [op    : {"idle", "select", "delete", "clear", "replay"},
              id    : Webhooks \cup {None},
              stage : {"none", "sent", "ok"},
              runs  : Nat]

Inspected == [id : Webhooks, runs : Nat]

Types ==
  /\ captured \subseteq Webhooks /\ table \subseteq captured
  /\ runs    \in [Webhooks -> Nat]
  /\ stream  \in Seq(Webhooks) /\ list \in Seq(Webhooks)
  /\ load.stage \in {"sent", "ok", "done"} /\ load.data \in Seq(Webhooks)
  /\ fetches \in [Slots -> FetchType]
  /\ \A s \in Slots : fetches[s].op \in {"select", "delete", "replay"} =>
                       fetches[s].id \in Webhooks
  /\ current \in Inspected \cup {None} /\ shown \in Inspected \cup {None}

(* Webhooks that may be listed twice by now: the load brought them and their
   event has come too. *)
Again == twice \ ToSet(stream)

(* A webhook is an event on its way or an entry of the list, once, unless the
   load brought it besides; so is one that was deleted, and one that a DELETE is
   under way for was.  Until the load is answered, entries come from events. *)
Once ==
  /\ Old \subseteq captured /\ twice \subseteq captured \ Old
  /\ IsInjective(stream)
  /\ ToSet(stream) \subseteq captured \ Old /\ ToSet(list) \subseteq captured
  /\ \A w \in Webhooks \ Again : Single(list, w)
  /\ ToSet(stream) \cap (ToSet(list) \cup doomed) \subseteq twice
  /\ doomed \subseteq table /\ unsent \subseteq doomed
  /\ load.stage # "done" => twice = {} /\ (ToSet(list) \cup doomed) \cap Old = {}
  /\ load.stage = "ok" => IsInjective(load.data) /\ ToSet(load.data) \subseteq captured
  /\ \A s \in Slots : fetches[s].op = "delete" =>
       fetches[s].id \in captured /\ (fetches[s].id \in table => fetches[s].id \in doomed)

Inv == Types /\ Once /\ ScreenTrue /\ GhostExplained /\ DeletionReaches

(* The parts, for steps that leave what they are about alone. *)
LEMMA SameScreen ==
  ASSUME ScreenTrue, UNCHANGED <<pageVars, screenVars, torn, clicked>>
  PROVE  ScreenTrue'
  BY DEF ScreenTrue, RowsTrue, ShownTrue, PanesTrue, MarkTrue, pageVars, screenVars

LEMMA SameOnce ==
  ASSUME Once, UNCHANGED <<captured, table, stream, load, list, doomed, unsent, twice>>,
         \A s \in Slots : fetches'[s].op = "delete" => fetches'[s] = fetches[s]
  PROVE  Once'
  BY DEF Once, Again

LEMMA SelectDetails ==
  /\ Idle \in FetchType /\ Idle.op = "idle"
  /\ \A op \in {"select", "delete", "clear", "replay"}, id \in Webhooks \cup {None} :
       /\ Sent(op, id) \in FetchType
       /\ Sent(op, id).op = op /\ Sent(op, id).id = id /\ Sent(op, id).stage = "sent"
  BY DEF Idle, Sent, FetchType

(* A workspace just rendered is that of its webhook, in every pane. *)
LEMMA Rendering ==
  ASSUME NEW c \in Inspected \cup {None}, RenderWorkspace(c)
  PROVE  shown' = c /\ torn' = FALSE /\ (PanesTrue /\ MarkTrue)'
  <1>1. shown' = c /\ torn' = FALSE /\ clicked' = FALSE
    BY DEF RenderWorkspace
  <1>2. ASSUME c # None PROVE (PanesTrue /\ MarkTrue)'
    <2>1. c.id \in Webhooks /\ c.runs \in Nat
      BY <1>2 DEF Inspected
    <2>2. /\ payload' = c.id
          /\ mark' = IF Of(picked, c) /\ c.runs # 0 THEN picked ELSE None
          /\ IF c.runs = 0 THEN response' = None /\ picked' = picked
                           ELSE PickAttempt(c, picked)
      BY <1>2 DEF RenderWorkspace, RenderPayload, RenderHistory
    <2>3. CASE c.runs = 0
      BY <1>1, <2>2, <2>3 DEF PanesTrue, MarkTrue
    <2>4. CASE c.runs # 0
      <3>1. Of([id |-> c.id, n |-> c.runs], c)
        BY <2>1, <2>4, InspectorAssumption DEF Of
      <3>2. /\ response' = picked' /\ Of(picked', c)
            /\ mark' # None => mark' = picked'
        BY <2>1, <2>2, <2>4, <3>1 DEF PickAttempt
      <3>3. picked' # None
        BY <3>2 DEF Of
      <3> QED
        BY <1>1, <2>2, <2>4, <3>2, <3>3 DEF PanesTrue, MarkTrue
    <2> QED
      BY <2>3, <2>4
  <1>3. c = None => (PanesTrue /\ MarkTrue)'
    BY <1>1 DEF PanesTrue, MarkTrue
  <1> QED
    BY <1>1, <1>2, <1>3

LEMMA InitInv == Init => Inv
  <1> SUFFICES ASSUME Init PROVE Inv
    OBVIOUS
  <1>1. Types
    BY SelectDetails, InspectorAssumption DEF Init, Types
  <1>2. Once
    BY SelectDetails DEF Init, Once, IsInjective, ToSet, Single
  <1>3. ScreenTrue
    BY DEF Init, ScreenTrue, RowsTrue, ShownTrue, PanesTrue, MarkTrue
  <1>4. GhostExplained /\ DeletionReaches
    BY DEF Init, GhostExplained, OffList, DeletionReaches
  <1> QED
    BY <1>1, <1>2, <1>3, <1>4 DEF Inv

-----------------------------------------------------------------------------
(* The server. *)

LEMMA CaptureInv ==
  ASSUME Inv, NEW w \in Webhooks, Capture(w)
  PROVE  Inv'
  <1> USE DEF Inv, Capture, pageVars, screenVars, obsVars
  <1>1. w \notin ToSet(stream) /\ w \notin ToSet(list) /\ w \notin Old /\ w \notin twice
    BY DEF Once
  <1>2. /\ stream' \in Seq(Webhooks) /\ IsInjective(stream')
        /\ ToSet(stream') = ToSet(stream) \cup {w}
    BY <1>1, Appended DEF Types, Once
  <1>3. Types'
    BY <1>2 DEF Types
  <1>4. Again' = Again
    BY <1>1, <1>2 DEF Again
  <1>5. w \notin doomed /\ \A s \in Slots : fetches[s].op = "delete" => fetches[s].id # w
    BY DEF Types, Once
  <1>6. Once'
    <2> HIDE DEF Capture
    <2>1. /\ captured' = captured \cup {w} /\ table' = table \cup {w}
          /\ UNCHANGED <<load, fetches, list, doomed, unsent, twice>>
      BY DEF Capture
    <2> QED
      BY <1>1, <1>2, <1>4, <1>5, <2>1 DEF Once
  <1>7. ScreenTrue'
    BY SameScreen
  <1>8. (GhostExplained /\ DeletionReaches)'
    <2>1. (twice \ ToSet(stream))' = twice \ ToSet(stream)
      BY <1>4 DEF Again
    <2> QED
      BY <2>1 DEF GhostExplained, OffList, DeletionReaches
  <1> QED
    BY <1>3, <1>6, <1>7, <1>8

LEMMA HandleLoadInv ==
  ASSUME Inv, HandleLoad
  PROVE  Inv'
  <1> USE DEF serverVars, pageVars, screenVars, obsVars
  <1>1. PICK l \in Pages : load' = [stage |-> "ok", data |-> l]
    BY DEF HandleLoad
  <1>2. UNCHANGED <<serverVars, stream, fetches, pageVars, screenVars, obsVars>>
    BY DEF HandleLoad
  <1>3. l \in Seq(table) /\ IsInjective(l)
    <2>1. PICK n \in 0..Limit : l \in [1..n -> table]
      BY DEF Pages
    <2>2. n \in Nat
      BY InspectorAssumption
    <2>3. l \in Seq(table)
      BY <2>1, <2>2
    <2> QED
      BY <2>3 DEF Pages
  <1>4. table \subseteq captured /\ table \subseteq Webhooks
    BY DEF Inv, Types
  <1>5. l \in Seq(Webhooks) /\ ToSet(l) \subseteq captured
    BY <1>3, <1>4 DEF ToSet
  <1>6. load.stage = "sent"
    BY DEF HandleLoad
  <1>7. Types'
    BY <1>1, <1>2, <1>5 DEF Inv, Types
  <1>8. Once'
    BY <1>1, <1>2, <1>3, <1>5, <1>6 DEF Inv, Once, Again
  <1>9. ScreenTrue'
    BY <1>2, SameScreen DEF Inv
  <1>10. (GhostExplained /\ DeletionReaches)'
    BY <1>2 DEF Inv, GhostExplained, OffList, DeletionReaches
  <1> QED
    BY <1>7, <1>8, <1>9, <1>10 DEF Inv

(* One fetch goes on to its answer, or ends; nothing moves on the page. *)
LEMMA HandleInv ==
  ASSUME Inv, NEW s \in Slots, Handle(s)
  PROVE  Inv'
  <1> DEFINE f == fetches[s]
  <1>1. /\ f \in FetchType /\ f.stage = "sent"
        /\ f.op \in {"select", "delete", "replay"} => f.id \in Webhooks
    BY DEF Inv, Types, Handle
  <1>2. /\ UNCHANGED <<captured, stream, load, pageVars, screenVars, torn, astray, twice,
                       clicked>>
        /\ table' \subseteq table
        /\ doomed' = doomed \cap table' /\ unsent' = unsent \cap table'
    BY DEF Handle
  <1>3. /\ runs' \in [Webhooks -> Nat]
        /\ f.op \in {"select", "replay"} => table' = table
        /\ \/ f.op = "delete" /\ table' = table \ {f.id} /\ Free(s)
           \/ /\ f.op # "delete"
              /\ \E n \in Nat :
                   fetches' = [fetches EXCEPT ![s].stage = "ok", ![s].runs = n]
    <2>1. runs \in [Webhooks -> Nat] /\ table \subseteq Webhooks
      BY DEF Inv, Types
    <2>2. CASE f.op = "select"
      <3>1. runs[f.id] \in Nat
        BY <1>1, <2>1, <2>2
      <3>2. fetches' = [fetches EXCEPT ![s].stage = "ok", ![s].runs = runs[f.id]]
        BY <2>2 DEF Handle
      <3> QED
        BY <2>1, <2>2, <3>1, <3>2 DEF Handle
    <2>3. CASE f.op = "delete"
      BY <2>1, <2>3 DEF Handle
    <2>4. CASE f.op = "clear"
      BY <2>1, <2>4 DEF Handle
    <2>5. CASE f.op = "replay"
      <3>1. /\ runs' = [runs EXCEPT ![f.id] = @ + 1] /\ table' = table
            /\ fetches' = [fetches EXCEPT ![s].stage = "ok", ![s].runs = 0]
        BY <2>5 DEF Handle
      <3>2. runs' \in [Webhooks -> Nat]
        <4>1. f.id \in Webhooks
          BY <1>1, <2>5
        <4> HIDE DEF f
        <4> QED
          BY <2>1, <3>1, <4>1
      <3> QED
        BY <2>5, <3>1, <3>2
    <2> QED
      BY <2>2, <2>3, <2>4, <2>5 DEF Handle
  <1>4. /\ fetches' \in [Slots -> FetchType]
        /\ \A t \in Slots : t # s => fetches'[t] = fetches[t]
        /\ fetches'[s].op \in {f.op, "idle"}
        /\ fetches'[s].op = "idle" => f.op \in {"delete", "idle"}
        /\ fetches'[s].op # "idle" => fetches'[s].id = f.id
    <2>0. fetches \in [Slots -> FetchType]
      BY DEF Inv, Types
    <2>1. CASE Free(s) /\ f.op = "delete"
      BY <1>1, <2>0, <2>1, SelectDetails DEF Free
    <2>2. ASSUME NEW n \in Nat,
                 fetches' = [fetches EXCEPT ![s].stage = "ok", ![s].runs = n]
          PROVE  <1>4!:
      BY <1>1, <2>0, <2>2 DEF FetchType
    <2> QED
      BY <1>3, <2>1, <2>2
  <1>5. Types'
    BY <1>1, <1>2, <1>3, <1>4 DEF Inv, Types, pageVars, screenVars
  <1>6. Once'
    BY <1>2, <1>4 DEF Inv, Once, Again, pageVars
  <1>7. ScreenTrue'
    BY <1>2, SameScreen DEF Inv
  <1>8. GhostExplained'
    BY <1>2, <1>4 DEF Inv, GhostExplained, OffList, pageVars
  <1>9. DeletionReaches'
    <2> SUFFICES ASSUME NEW w \in doomed' \ unsent'
                 PROVE  \E t \in Slots : /\ fetches'[t].op = "delete" /\ fetches'[t].id = w
                                         /\ fetches'[t].stage = "sent"
      BY <1>2 DEF Inv, DeletionReaches, pageVars
    <2>1. w \in doomed \ unsent /\ w \in table'
      BY <1>2
    <2>2. PICK t \in Slots : /\ fetches[t].op = "delete" /\ fetches[t].id = w
                             /\ fetches[t].stage = "sent"
      BY <2>1 DEF Inv, DeletionReaches
    <2>3. t # s
      BY <1>3, <2>1, <2>2
    <2> QED
      BY <1>4, <2>2, <2>3
  <1> QED
    BY <1>5, <1>6, <1>7, <1>8, <1>9 DEF Inv

LEMMA FailInv ==
  ASSUME Inv, NEW s \in Slots, Fail(s)
  PROVE  Inv'
  <1> DEFINE f == fetches[s]
  <1>1. /\ f \in FetchType /\ fetches \in [Slots -> FetchType]
        /\ f.op \in {"select", "delete", "replay"} => f.id \in Webhooks
    BY DEF Inv, Types
  <1>2. /\ UNCHANGED <<serverVars, stream, load, pageVars, screenVars, torn, astray, doomed,
                       twice, clicked>>
        /\ unsent' = IF f.op = "delete" THEN unsent \cup ({f.id} \cap table) ELSE unsent
    BY DEF Fail
  <1>3. /\ fetches' \in [Slots -> FetchType]
        /\ \A t \in Slots : t # s => fetches'[t] = fetches[t]
        /\ fetches'[s].op \in {f.op, "idle"}
        /\ f.op = "delete" => fetches'[s].op = "idle"
        /\ f.op = "select" => fetches'[s].op = "select"
        /\ fetches'[s].op # "idle" => fetches'[s].id = f.id
    <2>1. CASE f.op \in {"delete", "clear", "replay"} /\ Free(s)
      BY <1>1, <2>1, SelectDetails DEF Free
    <2>2. CASE /\ f.op = "replay"
               /\ fetches' = [fetches EXCEPT ![s].stage = "ok"]
      BY <1>1, <2>2 DEF FetchType
    <2> QED
      BY <2>1, <2>2 DEF Fail
  <1>4. Types'
    BY <1>1, <1>2, <1>3 DEF Inv, Types, serverVars, pageVars, screenVars
  <1>5. DeletionReaches'
    <2> SUFFICES ASSUME NEW w \in doomed' \ unsent'
                 PROVE  \E t \in Slots : /\ fetches'[t].op = "delete" /\ fetches'[t].id = w
                                         /\ fetches'[t].stage = "sent"
      BY <1>2 DEF Inv, DeletionReaches, pageVars
    <2>1. w \in doomed \ unsent /\ w \in table /\ (f.op = "delete" => w # f.id)
      BY <1>2 DEF Inv, Once
    <2>2. PICK t \in Slots : /\ fetches[t].op = "delete" /\ fetches[t].id = w
                             /\ fetches[t].stage = "sent"
      BY <2>1 DEF Inv, DeletionReaches
    <2>3. t # s
      BY <2>1, <2>2
    <2> QED
      BY <1>3, <2>2, <2>3
  <1>6. Once'
    <2>1. f.op = "delete" => {f.id} \cap table \subseteq doomed
      BY DEF Inv, Once
    <2> QED
      BY <1>2, <1>3, <2>1 DEF Inv, Once, Again, serverVars, pageVars
  <1>7. ScreenTrue'
    BY <1>2, SameScreen DEF Inv
  <1>8. GhostExplained'
    BY <1>2, <1>3 DEF Inv, GhostExplained, OffList, pageVars
  <1> QED
    BY <1>4, <1>5, <1>6, <1>7, <1>8 DEF Inv

-----------------------------------------------------------------------------
(* Answers and events. *)

LEMMA SelectDoneInv ==
  ASSUME Inv, NEW s \in Slots, SelectDone(s)
  PROVE  Inv'
  <1> DEFINE c == [id |-> fetches[s].id, runs |-> fetches[s].runs]
  <1>1. /\ fetches[s].op = "select"
        /\ fetches' = [fetches EXCEPT ![s] = Idle] /\ fetches \in [Slots -> FetchType]
        /\ c \in Inspected /\ current' = c /\ c.id = fetches[s].id
        /\ astray' = (c.id \notin ToSet(list))
        /\ UNCHANGED <<serverVars, stream, load, list, filter, doomed, unsent, twice>>
    BY DEF Inv, Types, FetchType, SelectDone, Answered, Free, Inspected
  <1>2. /\ RenderList(list, filter, c)
        /\ IF Throws(list, filter)
             THEN torn' = TRUE /\ KeepWorkspace
             ELSE RenderWorkspace(c)
    BY DEF SelectDone
  <1> HIDE DEF c
  <1>3. RowsTrue'
    BY <1>1, <1>2 DEF RowsTrue, RenderList
  <1>4. /\ shown' \in Inspected \cup {None}
        /\ (ShownTrue /\ PanesTrue /\ MarkTrue)'
    <2>1. CASE Throws(list, filter)
      BY <1>2, <2>1 DEF Inv, Types, ShownTrue, PanesTrue, MarkTrue, KeepWorkspace
    <2>2. CASE ~Throws(list, filter)
      <3>1. RenderWorkspace(c)
        BY <1>2, <2>2
      <3>2. shown' = c /\ torn' = FALSE /\ (PanesTrue /\ MarkTrue)'
        BY <1>1, <3>1, Rendering
      <3> QED
        BY <1>1, <3>2 DEF ShownTrue
    <2> QED
      BY <2>1, <2>2
  <1>5. Types'
    BY <1>1, <1>4, SelectDetails DEF Inv, Types, serverVars
  <1>6. Once'
    BY <1>1, SelectDetails DEF Inv, Once, Again, serverVars
  <1>7. GhostExplained'
    BY <1>1 DEF GhostExplained, OffList
  <1>8. DeletionReaches'
    BY <1>1 DEF Inv, DeletionReaches
  <1> QED
    BY <1>3, <1>4, <1>5, <1>6, <1>7, <1>8 DEF Inv, ScreenTrue

LEMMA SelectFailsInv ==
  ASSUME Inv, NEW s \in Slots, SelectFails(s)
  PROVE  Inv'
  <1>1. /\ fetches[s].op = "select"
        /\ fetches' = [fetches EXCEPT ![s] = Idle] /\ fetches \in [Slots -> FetchType]
        /\ astray' = (astray \/ OffList(current))
        /\ UNCHANGED <<serverVars, stream, load, pageVars, screenVars, torn, doomed, unsent,
                       twice, clicked>>
    BY DEF Inv, Types, SelectFails, Free
  <1>2. Types'
    BY <1>1, SelectDetails DEF Inv, Types, serverVars, pageVars, screenVars
  <1>3. Once'
    BY <1>1, SelectDetails DEF Inv, Once, Again, serverVars, pageVars
  <1>4. ScreenTrue'
    BY <1>1, SameScreen DEF Inv
  <1>5. GhostExplained'
    BY <1>1 DEF GhostExplained, OffList, pageVars
  <1>6. DeletionReaches'
    BY <1>1 DEF Inv, DeletionReaches, pageVars
  <1> QED
    BY <1>2, <1>3, <1>4, <1>5, <1>6 DEF Inv

LEMMA ClearDoneInv ==
  ASSUME Inv, NEW s \in Slots, ClearDone(s)
  PROVE  Inv'
  <1>1. /\ fetches[s].op = "clear"
        /\ fetches' = [fetches EXCEPT ![s] = Idle] /\ fetches \in [Slots -> FetchType]
        /\ UNCHANGED <<serverVars, stream, load, filter, doomed, unsent, twice>>
    BY DEF Inv, Types, ClearDone, Answered, Free
  <1>2. \A t \in Slots : /\ fetches'[t].op # "idle" => fetches'[t] = fetches[t]
                        /\ fetches[t].op \in {"select", "delete"} => fetches'[t] = fetches[t]
    BY <1>1, SelectDetails
  <1>3. /\ list' = <<>> /\ current' = None
        /\ RenderList(<<>>, filter, None) /\ RenderWorkspace(None)
    BY DEF ClearDone
  <1>4. RowsTrue'
    BY <1>1, <1>3 DEF RowsTrue, RenderList
  <1>5. shown' = None /\ torn' = FALSE /\ (PanesTrue /\ MarkTrue)'
    BY <1>3, Rendering
  <1>6. Types'
    BY <1>1, <1>2, <1>3, <1>5, SelectDetails DEF Inv, Types, serverVars
  <1>7. Once'
    <2>1. ToSet(list') = {} /\ \A w : Single(list', w)
      BY <1>3 DEF ToSet, Single
    <2> QED
      BY <1>1, <1>2, <2>1, SelectDetails DEF Inv, Once, Again, serverVars
  <1>8. (GhostExplained /\ DeletionReaches)'
    BY <1>1, <1>2, <1>3 DEF Inv, GhostExplained, OffList, DeletionReaches, ToSet
  <1> QED
    BY <1>3, <1>4, <1>5, <1>6, <1>7, <1>8 DEF Inv, ScreenTrue, ShownTrue

(* A fetch is sent from an idle slot, or from that of a replay; the page stays
   as it is. *)
LEMMA SendInv ==
  ASSUME Inv, NEW s \in Slots, NEW f \in FetchType,
         fetches[s].op \in {"idle", "replay"},
         f.op \in {"idle", "select", "clear", "replay"},
         f.op \in {"select", "replay"} => f.id \in Webhooks,
         fetches' = [fetches EXCEPT ![s] = f],
         UNCHANGED <<serverVars, stream, load, pageVars, screenVars, obsVars>>
  PROVE  Inv'
  <1> USE DEF serverVars, pageVars, screenVars, obsVars
  <1>1. fetches \in [Slots -> FetchType]
    BY DEF Inv, Types
  <1>2. Types'
    BY <1>1 DEF Inv, Types
  <1>3. Once'
    BY <1>1 DEF Inv, Once, Again
  <1>4. ScreenTrue'
    BY SameScreen DEF Inv
  <1>5. (GhostExplained /\ DeletionReaches)'
    BY <1>1 DEF Inv, GhostExplained, OffList, DeletionReaches
  <1> QED
    BY <1>2, <1>3, <1>4, <1>5 DEF Inv

LEMMA SendsInv ==
  ASSUME Inv, NEW s \in Slots,
         ReplayDone(s) \/ Clear(s) \/ Replay(s) \/ \E w \in Webhooks : Click(s, w)
  PROVE  Inv'
  <1>1. CASE ReplayDone(s)
    <2> DEFINE f == IF current = None THEN Idle ELSE Sent("select", current.id)
    <2>1. current # None => current.id \in Webhooks
      BY DEF Inv, Types, Inspected
    <2>2. /\ f \in FetchType /\ f.op \in {"idle", "select"}
          /\ f.op = "select" => f.id \in Webhooks
      BY <2>1, SelectDetails
    <2>3. fetches[s].op = "replay" /\ fetches' = [fetches EXCEPT ![s] = f]
      BY <1>1 DEF ReplayDone, Answered
    <2>4. UNCHANGED <<serverVars, stream, load, pageVars, screenVars, obsVars>>
      BY <1>1 DEF ReplayDone
    <2> HIDE DEF f
    <2> QED
      BY <2>2, <2>3, <2>4, SendInv
  <1>2. CASE Clear(s)
    <2> DEFINE f == Sent("clear", None)
    <2>1. f \in FetchType /\ f.op = "clear"
      BY SelectDetails
    <2>2. fetches[s].op = "idle" /\ fetches' = [fetches EXCEPT ![s] = f]
      BY <1>2, SelectDetails DEF Clear
    <2>3. UNCHANGED <<serverVars, stream, load, pageVars, screenVars, obsVars>>
      BY <1>2 DEF Clear
    <2> HIDE DEF f
    <2> QED
      BY <2>1, <2>2, <2>3, SendInv
  <1>3. CASE Replay(s)
    <2> DEFINE f == Sent("replay", current.id)
    <2>1. current.id \in Webhooks
      BY <1>3 DEF Inv, Types, Inspected, Replay
    <2>2. f \in FetchType /\ f.op = "replay" /\ f.id \in Webhooks
      BY <2>1, SelectDetails
    <2>3. fetches[s].op = "idle" /\ fetches' = [fetches EXCEPT ![s] = f]
      BY <1>3, SelectDetails DEF Replay
    <2>4. UNCHANGED <<serverVars, stream, load, pageVars, screenVars, obsVars>>
      BY <1>3 DEF Replay
    <2> HIDE DEF f
    <2> QED
      BY <2>2, <2>3, <2>4, SendInv
  <1>4. ASSUME NEW w \in Webhooks, Click(s, w) PROVE Inv'
    <2> DEFINE f == Sent("select", w)
    <2>1. f \in FetchType /\ f.op = "select" /\ f.id \in Webhooks
      BY SelectDetails
    <2>2. fetches[s].op = "idle" /\ fetches' = [fetches EXCEPT ![s] = f]
      BY <1>4, SelectDetails DEF Click
    <2>3. UNCHANGED <<serverVars, stream, load, pageVars, screenVars, obsVars>>
      BY <1>4 DEF Click
    <2> HIDE DEF f
    <2> QED
      BY <2>1, <2>2, <2>3, SendInv
  <1> QED
    BY <1>1, <1>2, <1>3, <1>4

(* An event, or the load, may select a webhook, if none is under inspection. *)
LEMMA OnEventInv ==
  ASSUME Inv, OnEvent
  PROVE  Inv'
  <1> DEFINE w == Head(stream)
             l == <<w>> \o list
  <1>1. /\ stream # <<>> /\ stream' = Tail(stream) /\ list' = l
        /\ RenderList(l, filter, current)
        /\ UNCHANGED <<serverVars, load, filter, current, picked, shown, payload, response,
                       mark, obsVars>>
    BY DEF OnEvent
  <1>2. \/ fetches' = fetches
        \/ /\ current = None
           /\ \E s \in Slots : /\ fetches[s] = Idle
                              /\ fetches' = [fetches EXCEPT ![s] = Sent("select", w)]
    BY DEF OnEvent
  <1>3. /\ stream \in Seq(Webhooks) /\ IsInjective(stream)
        /\ list \in Seq(Webhooks)
    BY DEF Inv, Types, Once
  <1>4. /\ w \in Webhooks /\ w \in ToSet(stream)
        /\ Tail(stream) \in Seq(Webhooks) /\ IsInjective(Tail(stream))
        /\ ToSet(Tail(stream)) = ToSet(stream) \ {w}
    BY <1>1, <1>3, Taken
  <1>5. /\ l \in Seq(Webhooks) /\ ToSet(l) = ToSet(list) \cup {w}
        /\ \A y : y # w /\ Single(list, y) => Single(l, y)
        /\ w \notin ToSet(list) => Single(l, w)
    <2> HIDE DEF w
    <2>1. w \notin ToSet(list) => Single(l, w)
      <3> DEFINE m == <<w>> \o list
      <3> SUFFICES ASSUME w \notin ToSet(list) PROVE Single(m, w)
        OBVIOUS
      <3>1. /\ Len(m) = Len(list) + 1
            /\ \A j \in 2..Len(m) : j - 1 \in 1..Len(list) /\ m[j] = list[j - 1]
        BY <1>3, <1>4, Prepended
      <3>2. \A j \in 1..Len(m) : j = 1 \/ j \in 2..Len(m)
        BY <1>3, <3>1
      <3>3. \A j \in 1..Len(list) : list[j] # w
        BY DEF ToSet
      <3> HIDE DEF m
      <3>4. \A j \in 1..Len(m) : m[j] = w => j = 1
        BY <3>1, <3>2, <3>3
      <3> QED
        BY <3>4 DEF Single
    <2> QED
      BY <1>3, <1>4, <2>1, Prepended
  <1> HIDE DEF w, l
  <1>6. fetches \in [Slots -> FetchType]
    BY DEF Inv, Types
  <1>7. /\ fetches' \in [Slots -> FetchType]
        /\ \A s \in Slots : \/ fetches'[s] = fetches[s]
                            \/ current = None /\ fetches[s].op = "idle"
                               /\ fetches'[s].op = "select" /\ fetches'[s].id = w
    BY <1>2, <1>4, <1>6, SelectDetails
  <1>8. Types'
    BY <1>1, <1>4, <1>5, <1>7 DEF Inv, Types, serverVars, obsVars
  <1>9. w \notin twice => w \notin ToSet(list) /\ w \notin doomed
    BY <1>4 DEF Inv, Once
  <1>10. Once'
    <2>1. \A y \in Webhooks \ Again' : Single(list', y)
      <3> SUFFICES ASSUME NEW y \in Webhooks, y \notin Again' PROVE Single(l, y)
        BY <1>1
      <3>1. CASE y = w
        BY <1>1, <1>4, <1>5, <1>9, <3>1 DEF Again, obsVars
      <3>2. CASE y # w
        <4>1. y \notin Again
          BY <1>1, <1>4, <3>2 DEF Again, obsVars
        <4> QED
          BY <1>5, <3>2, <4>1 DEF Inv, Once
      <3> QED
        BY <3>1, <3>2
    <2>2. /\ ToSet(list') = ToSet(list) \cup {w} /\ ToSet(stream') = ToSet(stream) \ {w}
          /\ IsInjective(stream')
          /\ UNCHANGED <<captured, table, load, twice, doomed, unsent>>
      BY <1>1, <1>4, <1>5 DEF serverVars, obsVars
    <2>3. w \in captured \ Old
      BY <1>4 DEF Inv, Once
    <2> QED
      BY <1>7, <2>1, <2>2, <2>3 DEF Inv, Once
  <1>11. ScreenTrue'
    <2>1. RowsTrue'
      BY <1>1 DEF RowsTrue, RenderList
    <2> QED
      BY <1>1, <2>1 DEF Inv, ScreenTrue, ShownTrue, PanesTrue, MarkTrue, obsVars
  <1>12. GhostExplained'
    BY <1>1, <1>5, <1>7 DEF Inv, GhostExplained, OffList, obsVars
  <1>13. DeletionReaches'
    <2>1. doomed' \cap ToSet(list') \subseteq (twice \ ToSet(stream))'
      BY <1>1, <1>4, <1>5, <1>9 DEF Inv, DeletionReaches, obsVars
    <2> QED
      BY <1>1, <1>7, <2>1 DEF Inv, DeletionReaches, obsVars
  <1> QED
    BY <1>8, <1>10, <1>11, <1>12, <1>13 DEF Inv

LEMMA InjectiveSingle ==
  ASSUME NEW S, NEW l \in Seq(S), IsInjective(l)
  PROVE  \A y : Single(l, y)
  BY DEF IsInjective, Single

LEMMA LoadDoneInv ==
  ASSUME Inv, LoadDone
  PROVE  Inv'
  <1> DEFINE l == load.data
  <1>1. /\ load.stage = "ok" /\ load' = [stage |-> "done", data |-> <<>>] /\ list' = l
        /\ RenderList(l, filter, current)
        /\ twice' = ToSet(l) \ Old
        /\ astray' = (current # None /\ current.id \notin ToSet(l))
        /\ UNCHANGED <<serverVars, stream, filter, current, picked, shown, payload, response,
                       mark, torn, doomed, unsent, clicked>>
    BY DEF LoadDone
  <1>2. \/ fetches' = fetches
        \/ /\ l # <<>>
           /\ \E s \in Slots : /\ fetches[s] = Idle
                              /\ fetches' = [fetches EXCEPT ![s] = Sent("select", Head(l))]
    BY DEF LoadDone
  <1>3. l \in Seq(Webhooks) /\ IsInjective(l) /\ ToSet(l) \subseteq captured
    BY <1>1 DEF Inv, Types, Once
  <1> HIDE DEF l
  <1>4. l # <<>> => Head(l) \in Webhooks
    BY <1>3
  <1>5. /\ fetches' \in [Slots -> FetchType]
        /\ \A s \in Slots : \/ fetches'[s] = fetches[s]
                            \/ fetches[s].op = "idle" /\ fetches'[s].op = "select"
                               /\ fetches'[s].id \in Webhooks
    BY <1>2, <1>4, SelectDetails DEF Inv, Types
  <1>6. Types'
    BY <1>1, <1>3, <1>5 DEF Inv, Types, serverVars
  <1>7. twice = {} /\ (ToSet(list) \cup doomed) \cap Old = {} /\ ToSet(stream) \cap doomed = {}
    BY <1>1 DEF Inv, Once
  <1>8. Once'
    <2>1. \A y : Single(list', y)
      BY <1>1, <1>3, InjectiveSingle
    <2>2. /\ UNCHANGED <<captured, table, stream, doomed, unsent>>
          /\ ToSet(list') = ToSet(l) /\ load'.stage = "done"
      BY <1>1 DEF serverVars
    <2>3. ToSet(stream) \cap Old = {}
      BY DEF Inv, Once
    <2> QED
      BY <1>1, <1>3, <1>5, <1>7, <2>1, <2>2, <2>3 DEF Inv, Once
  <1>9. ScreenTrue'
    <2>1. RowsTrue'
      BY <1>1 DEF RowsTrue, RenderList
    <2> QED
      BY <1>1, <2>1 DEF Inv, ScreenTrue, ShownTrue, PanesTrue, MarkTrue
  <1>10. GhostExplained'
    BY <1>1 DEF GhostExplained, OffList
  <1>11. DeletionReaches'
    <2>1. doomed' \cap ToSet(list') \subseteq (twice \ ToSet(stream))'
      <3>1. doomed \cap Old = {} /\ doomed \cap ToSet(stream) = {}
        BY <1>7
      <3> QED
        BY <1>1, <3>1
    <2> QED
      BY <1>1, <1>5, <2>1 DEF Inv, DeletionReaches
  <1> QED
    BY <1>6, <1>8, <1>9, <1>10, <1>11 DEF Inv

LEMMA LoadFailsInv ==
  ASSUME Inv, LoadFails
  PROVE  Inv'
  <1> USE DEF serverVars, pageVars, screenVars, obsVars
  <1>1. /\ load' = [stage |-> "done", data |-> <<>>]
        /\ UNCHANGED <<serverVars, stream, fetches, pageVars, screenVars, obsVars>>
    BY DEF LoadFails
  <1>2. Types'
    BY <1>1 DEF Inv, Types
  <1>3. Once'
    BY <1>1 DEF Inv, Once, Again
  <1>4. ScreenTrue'
    BY <1>1, SameScreen DEF Inv
  <1>5. (GhostExplained /\ DeletionReaches)'
    BY <1>1 DEF Inv, GhostExplained, OffList, DeletionReaches
  <1> QED
    BY <1>2, <1>3, <1>4, <1>5 DEF Inv

-----------------------------------------------------------------------------
(* The user. *)

LEMMA DeleteInv ==
  ASSUME Inv, NEW s \in Slots, NEW t \in Slots, NEW w \in Webhooks, Delete(s, t, w)
  PROVE  Inv'
  <1> DEFINE idx     == First(list, w)
             rest    == RemoveAt(list, idx)
             next    == rest[IF idx <= Len(rest) THEN idx ELSE Len(rest)]
             selects == w = IdOf(current) /\ rest # <<>>
             sends   == ~Throws(rest, filter)
  <1>1. /\ RemoveEntry(w, rest)
        /\ selects => fetches[s] = Idle
        /\ sends => fetches[t] = Idle
        /\ selects /\ sends => s # t
        /\ fetches' = [u \in Slots |-> IF u = s /\ selects THEN Sent("select", next)
                                       ELSE IF u = t /\ sends THEN Sent("delete", w)
                                       ELSE fetches[u]]
    BY DEF Delete, EntryOf, First
  <1>2. /\ list \in Seq(Webhooks) /\ w \in ToSet(list)
        /\ fetches \in [Slots -> FetchType]
    BY <1>1 DEF Inv, Types, RemoveEntry
  <1>3. idx \in 1..Len(list) /\ list[idx] = w
    BY <1>2, FirstFound
  <1> HIDE DEF idx
  <1>4. /\ rest \in Seq(Webhooks) /\ Len(rest) = Len(list) - 1
        /\ ToSet(rest) \subseteq ToSet(list) /\ ToSet(list) \subseteq ToSet(rest) \cup {w}
        /\ \A x : Single(list, x) => Single(rest, x)
    BY <1>2, <1>3, Removed, RemovedEntries
  <1>4a. ASSUME Single(list, w) PROVE w \notin ToSet(rest)
    <2>1. \A k \in 1..(Len(list) - 1) : rest[k] = list[IF k < idx THEN k ELSE k + 1]
      BY <1>2, <1>3, Removed
    <2>2. \A k \in 1..Len(list) : list[k] = w => k = idx
      BY <1>3, <1>4a DEF Single
    <2>3. Len(list) \in Nat /\ Len(rest) = Len(list) - 1
      BY <1>2, <1>4
    <2>4. \A k \in 1..Len(rest) : rest[k] # w
      BY <1>3, <2>1, <2>2, <2>3
    <2> QED
      BY <2>4 DEF ToSet
  <1> HIDE DEF rest
  <1>5. rest # <<>> => next \in Webhooks
    BY <1>3, <1>4
  <1> HIDE DEF next
  <1>6. /\ list' = rest /\ RenderList(rest, filter, current')
        /\ IF w = IdOf(current) /\ rest = <<>>
             THEN current' = None /\ RenderWorkspace(None)
             ELSE UNCHANGED <<current, torn>> /\ KeepWorkspace
        /\ doomed' = doomed \cup ({w} \cap table)
        /\ unsent' = IF Throws(rest, filter) THEN unsent \cup ({w} \cap table) ELSE unsent
        /\ UNCHANGED <<serverVars, stream, load, filter, astray, twice>>
    BY <1>1 DEF RemoveEntry
  <1>7. /\ fetches' \in [Slots -> FetchType]
        /\ \A u \in Slots : fetches[u].op # "idle" => fetches'[u] = fetches[u]
        /\ \A u \in Slots : fetches'[u].op \in {"select", "delete", "replay"} =>
                              fetches'[u].id \in Webhooks
        /\ \A u \in Slots : fetches'[u].op = "delete" =>
                              fetches'[u] = fetches[u] \/ fetches'[u].id = w
    <2>1. ASSUME NEW u \in Slots
          PROVE  /\ fetches'[u] \in FetchType
                 /\ fetches[u].op # "idle" => fetches'[u] = fetches[u]
                 /\ fetches'[u].op \in {"select", "delete", "replay"} =>
                      fetches'[u].id \in Webhooks
                 /\ fetches'[u].op = "delete" => fetches'[u] = fetches[u] \/ fetches'[u].id = w
      <3>1. CASE u = s /\ selects
        BY <1>1, <1>5, <3>1, SelectDetails
      <3>2. CASE ~(u = s /\ selects) /\ u = t /\ sends
        BY <1>1, <3>2, SelectDetails
      <3>3. CASE ~(u = s /\ selects) /\ ~(u = t /\ sends)
        <4>1. fetches'[u] = fetches[u]
          BY <1>1, <3>3
        <4> QED
          BY <1>2, <4>1 DEF Inv, Types
      <3> QED
        BY <3>1, <3>2, <3>3
    <2>2. fetches' = [u \in Slots |-> fetches'[u]]
      BY <1>1
    <2> QED
      BY <2>1, <2>2
  <1>8. /\ w = IdOf(current) /\ rest # <<>> => fetches'[s].op = "select"
        /\ ~Throws(rest, filter) => /\ fetches'[t].op = "delete" /\ fetches'[t].id = w
                                    /\ fetches'[t].stage = "sent"
    BY <1>1, <1>5, SelectDetails
  <1>9. /\ current' \in Inspected \cup {None} /\ shown' \in Inspected \cup {None}
        /\ (ShownTrue /\ PanesTrue /\ MarkTrue)'
    <2>1. CASE w = IdOf(current) /\ rest = <<>>
      <3>1. shown' = None /\ (PanesTrue /\ MarkTrue)'
        BY <1>6, <2>1, Rendering
      <3> QED
        BY <1>6, <2>1, <3>1 DEF ShownTrue
    <2>2. CASE ~(w = IdOf(current) /\ rest = <<>>)
      BY <1>6, <2>2 DEF Inv, Types, ScreenTrue, ShownTrue, PanesTrue, MarkTrue, KeepWorkspace
    <2> QED
      BY <2>1, <2>2
  <1>10. RowsTrue'
    BY <1>6 DEF RowsTrue, RenderList
  <1>11. Types'
    BY <1>4, <1>6, <1>7, <1>9 DEF Inv, Types, serverVars
  <1>12. Once'
    <2>1. w \in captured /\ (w \in ToSet(stream) => w \in twice)
      BY <1>2 DEF Inv, Once
    <2>2. \A x \in Webhooks \ Again' : Single(list', x)
      BY <1>4, <1>6 DEF Inv, Once, Again
    <2>3. /\ ToSet(list') \subseteq ToSet(list) /\ doomed' \subseteq doomed \cup {w}
          /\ UNCHANGED <<captured, table, stream, load, twice>>
      BY <1>4, <1>6 DEF serverVars
    <2>4. doomed' \subseteq table' /\ unsent' \subseteq doomed'
      BY <1>6 DEF Inv, Once, serverVars
    <2>5. load.stage # "done" => w \notin Old
      BY <1>2 DEF Inv, Once
    <2>6. \A u \in Slots : fetches'[u].op = "delete" =>
            /\ fetches'[u].id \in captured'
            /\ fetches'[u].id \in table' => fetches'[u].id \in doomed'
      BY <1>6, <1>7, <2>1 DEF Inv, Once, serverVars
    <2> QED
      BY <2>1, <2>2, <2>3, <2>4, <2>5, <2>6 DEF Inv, Once
  <1>13. GhostExplained'
    <2> SUFFICES ASSUME OffList(current)', ~astray'
                 PROVE  \E u \in Slots : fetches'[u].op = "select"
      BY DEF GhostExplained
    <2>1. current' = current /\ current # None /\ ~(w = IdOf(current) /\ rest = <<>>)
      BY <1>6 DEF OffList
    <2>2. CASE current.id = w
      BY <1>8, <2>1, <2>2 DEF IdOf
    <2>3. CASE current.id # w
      <3>1. OffList(current) /\ ~astray
        BY <1>4, <1>6, <2>1, <2>3 DEF OffList
      <3>2. PICK u \in Slots : fetches[u].op = "select"
        BY <3>1 DEF Inv, GhostExplained
      <3> QED
        BY <1>7, <3>2
    <2> QED
      BY <2>2, <2>3
  <1>14. DeletionReaches'
    <2>1. doomed' \cap ToSet(list') \subseteq (twice \ ToSet(stream))'
      <3>1. w \in ToSet(rest) => w \in twice \ ToSet(stream)
        BY <1>4a DEF Inv, Once, Again
      <3>2. doomed' \subseteq doomed \cup {w} /\ stream' = stream /\ twice' = twice
        BY <1>6
      <3> QED
        BY <1>4, <1>6, <3>1, <3>2 DEF Inv, DeletionReaches
    <2>2. ASSUME NEW x \in doomed' \ unsent'
          PROVE  \E u \in Slots : /\ fetches'[u].op = "delete" /\ fetches'[u].id = x
                                  /\ fetches'[u].stage = "sent"
      <3>1. CASE x = w
        <4>1. w \in table /\ ~Throws(rest, filter)
          BY <1>2, <1>6, <2>2, <3>1 DEF Inv, Once
        <4> QED
          BY <1>8, <3>1, <4>1
      <3>2. CASE x # w
        <4>1. x \in doomed \ unsent
          BY <1>6, <2>2, <3>2
        <4>2. PICK u \in Slots : /\ fetches[u].op = "delete" /\ fetches[u].id = x
                                 /\ fetches[u].stage = "sent"
          BY <4>1 DEF Inv, DeletionReaches
        <4> QED
          BY <1>7, <4>2
      <3> QED
        BY <3>1, <3>2
    <2> QED
      BY <2>1, <2>2 DEF DeletionReaches
  <1> QED
    BY <1>9, <1>10, <1>11, <1>12, <1>13, <1>14 DEF Inv, ScreenTrue

LEMMA SetFilterInv ==
  ASSUME Inv, NEW f \in Settings, SetFilter(f)
  PROVE  Inv'
  <1>1. /\ filter' = f /\ RenderList(list, f, current)
        /\ UNCHANGED <<serverVars, stream, load, fetches, list, current, picked,
                       shown, payload, response, mark, obsVars>>
    BY DEF SetFilter
  <1>2. Types' /\ Once'
    BY <1>1 DEF Inv, Types, Once, Again, serverVars, obsVars
  <1>3. ScreenTrue'
    <2>1. RowsTrue'
      BY <1>1 DEF RowsTrue, RenderList
    <2> QED
      BY <1>1, <2>1 DEF Inv, ScreenTrue, ShownTrue, PanesTrue, MarkTrue, obsVars
  <1>4. (GhostExplained /\ DeletionReaches)'
    BY <1>1 DEF Inv, GhostExplained, OffList, DeletionReaches, obsVars
  <1> QED
    BY <1>2, <1>3, <1>4 DEF Inv

LEMMA SetFormatInv ==
  ASSUME Inv, SetFormat
  PROVE  Inv'
  <1>1. /\ payload' = current.id
        /\ UNCHANGED <<serverVars, stream, load, fetches, list, filter, current, picked,
                       rows, shown, response, mark, obsVars>>
    BY DEF SetFormat, RenderPayload
  <1>2. Types' /\ Once'
    BY <1>1 DEF Inv, Types, Once, Again, serverVars, obsVars
  <1>3. ScreenTrue'
    BY <1>1 DEF Inv, ScreenTrue, RowsTrue, ShownTrue, PanesTrue, MarkTrue, obsVars
  <1>4. (GhostExplained /\ DeletionReaches)'
    BY <1>1 DEF Inv, GhostExplained, OffList, DeletionReaches, obsVars
  <1> QED
    BY <1>2, <1>3, <1>4 DEF Inv

LEMMA SelectAttemptInv ==
  ASSUME Inv, NEW n \in 1..MaxRuns, SelectAttempt(n)
  PROVE  Inv'
  <1> DEFINE a == [id |-> shown.id, n |-> n]
  <1>1. /\ shown # None /\ current # None /\ n \in 1..shown.runs
        /\ PickAttempt(current, a)
        /\ clicked' = (mark # None /\ mark # a)
        /\ UNCHANGED <<serverVars, stream, load, fetches, list, filter, current,
                       rows, shown, payload, mark, torn, astray, doomed, unsent, twice>>
    BY DEF SelectAttempt
  <1>2. Types' /\ Once'
    BY <1>1 DEF Inv, Types, Once, Again, serverVars
  <1>3. (PanesTrue /\ MarkTrue)'
    <2> SUFFICES ASSUME ~torn PROVE (PanesTrue /\ MarkTrue)'
      BY <1>1 DEF PanesTrue, MarkTrue
    <2>1. current = shown
      BY DEF Inv, ScreenTrue, ShownTrue
    <2>2. shown.id \in Webhooks /\ shown.runs \in Nat /\ shown.runs # 0 /\ n <= shown.runs
      BY <1>1 DEF Inv, Types, Inspected
    <2>3. Of(a, shown) /\ a # None
      BY <2>2, InspectorAssumption DEF Of
    <2>4. picked' = a /\ response' = a
      BY <1>1, <2>1, <2>2, <2>3 DEF PickAttempt
    <2>5. payload = shown.id /\ (mark # None => Of(mark, shown))
      BY <1>1 DEF Inv, ScreenTrue, PanesTrue, MarkTrue
    <2> HIDE DEF a
    <2> QED
      BY <1>1, <2>2, <2>3, <2>4, <2>5 DEF PanesTrue, MarkTrue
  <1>4. ScreenTrue'
    BY <1>1, <1>3 DEF Inv, ScreenTrue, RowsTrue, ShownTrue
  <1>5. (GhostExplained /\ DeletionReaches)'
    BY <1>1 DEF Inv, GhostExplained, OffList, DeletionReaches
  <1> QED
    BY <1>2, <1>4, <1>5 DEF Inv

LEMMA NextInv ==
  ASSUME Inv, [Next]_vars
  PROVE  Inv'
  <1>1. CASE UNCHANGED vars
    BY <1>1 DEF vars, serverVars, pageVars, screenVars, obsVars, Inv, Types, Once, Again,
                ScreenTrue, RowsTrue, ShownTrue, PanesTrue, MarkTrue, GhostExplained, OffList,
                DeletionReaches
  <1>2. CASE Next
    BY <1>2, CaptureInv, HandleLoadInv, LoadDoneInv, LoadFailsInv, OnEventInv, HandleInv, FailInv, SelectDoneInv, SelectFailsInv,
       ClearDoneInv, SendsInv, DeleteInv, SetFilterInv, SetFormatInv, SelectAttemptInv
       DEF Next
  <1> QED
    BY <1>1, <1>2

LEMMA InvHolds == Spec => []Inv
  BY InitInv, NextInv, PTL DEF Spec

-----------------------------------------------------------------------------
(* The types: what Types leaves open, with the invariant at hand. *)

Typed ==
  /\ runs \in [Webhooks -> 0..MaxRuns]
  /\ \A s \in Slots : fetches[s].runs \in 0..MaxRuns
  /\ filter  \in Filter
  /\ current \in Details \cup {None} /\ shown \in Details \cup {None}
  /\ picked  \in Attempt \cup {None} /\ response \in Attempt \cup {None}
  /\ rows    \in [ids : Seq(Webhooks), marked : Webhooks \cup {None}]
  /\ payload \in Webhooks \cup {None} /\ mark \in Attempt \cup {None}
  /\ torn \in BOOLEAN /\ astray \in BOOLEAN /\ clicked \in BOOLEAN
  /\ load \in [stage : {"sent", "ok", "done"}, data : Seq(Webhooks)]

LEMMA TypedIsTypeOK == Inv /\ Typed => TypeOK
  <1> SUFFICES ASSUME Inv, Typed PROVE TypeOK
    OBVIOUS
  <1>1. fetches \in [Slots -> [op    : {"idle", "select", "delete", "clear", "replay"},
                              id    : Webhooks \cup {None},
                              stage : {"none", "sent", "ok"},
                              runs  : 0..MaxRuns]]
    BY DEF Inv, Types, Typed, FetchType
  <1> QED
    BY <1>1 DEF Inv, Types, Once, Typed, TypeOK

LEMMA SentRuns ==
  /\ Idle.runs = 0
  /\ \A op, id : Sent(op, id).runs = 0
  BY DEF Idle, Sent

LEMMA OneFetch ==
  ASSUME Inv, Typed, NEW s \in Slots, NEW f, f.runs \in 0..MaxRuns,
         fetches' = [fetches EXCEPT ![s] = f]
  PROVE  \A t \in Slots : fetches'[t].runs \in 0..MaxRuns
  BY DEF Inv, Types, Typed

LEMMA RowsTyped ==
  ASSUME Inv, Typed, NEW l \in Seq(Webhooks), NEW f, NEW c \in Details \cup {None},
         RenderList(l, f, c)
  PROVE  rows' \in [ids : Seq(Webhooks), marked : Webhooks \cup {None}]
  <1> DEFINE ids == Filtered(l, f)
  <1>1. ids \in Seq(Webhooks)
    BY FilteredRows
  <1>2. c # None => c.id \in Webhooks
    BY DEF Details
  <1>3. IdOf(c) \in ToSet(ids) => c # None
    <2>1. None \notin ToSet(ids)
      BY <1>1, InspectorAssumption DEF ToSet
    <2> QED
      BY <2>1 DEF IdOf
  <1>4. (IF IdOf(c) \in ToSet(ids) THEN c.id ELSE None) \in Webhooks \cup {None}
    BY <1>2, <1>3
  <1>5. Rendered(l, f, c) \in [ids : Seq(Webhooks), marked : Webhooks \cup {None}]
    BY <1>1, <1>4 DEF Rendered
  <1> QED
    BY <1>5 DEF RenderList, Typed

LEMMA AttemptTyped ==
  ASSUME Typed, NEW c \in Details, NEW a \in Attempt \cup {None}, PickAttempt(c, a)
  PROVE  picked' \in Attempt \cup {None} /\ response' \in Attempt \cup {None}
  <1>1. c.id \in Webhooks /\ c.runs \in 0..MaxRuns
    BY DEF Details
  <1>2. c.runs # 0 => [id |-> c.id, n |-> c.runs] \in Attempt
    BY <1>1, InspectorAssumption DEF Attempt
  <1> QED
    BY <1>2 DEF PickAttempt, Typed, Of

LEMMA WorkspaceTyped ==
  ASSUME Typed, NEW c \in Details \cup {None}, RenderWorkspace(c)
  PROVE  /\ picked' \in Attempt \cup {None} /\ response' \in Attempt \cup {None}
         /\ payload' \in Webhooks \cup {None}
         /\ shown' \in Details \cup {None} /\ torn' \in BOOLEAN
         /\ mark' \in Attempt \cup {None} /\ clicked' \in BOOLEAN
  <1>1. CASE c = None
    BY <1>1 DEF RenderWorkspace, Typed
  <1>2. CASE c # None
    <2>1. c \in Details /\ c.id \in Webhooks
      BY <1>2 DEF Details
    <2>2. /\ shown' = c /\ torn' = FALSE /\ clicked' = FALSE /\ payload' = c.id
          /\ RenderHistory(c)
      BY <1>2 DEF RenderWorkspace, RenderPayload
    <2>3. CASE c.runs = 0
      BY <2>1, <2>2, <2>3 DEF RenderHistory, Typed
    <2>4. CASE c.runs # 0
      BY <2>1, <2>2, <2>4, AttemptTyped DEF RenderHistory, Typed
    <2> QED
      BY <2>3, <2>4
  <1> QED
    BY <1>1, <1>2

LEMMA InitTyped == Init => Typed
  <1> SUFFICES ASSUME Init PROVE Typed
    OBVIOUS
  <1>1. Filtered(<<>>, All) \in Seq(Webhooks) /\ ToSet(Filtered(<<>>, All)) = {}
    <2>1. <<>> \in Seq(Webhooks) /\ ToSet(<<>>) = {}
      BY DEF ToSet
    <2> QED
      BY <2>1, FilteredRows
  <1>2. rows \in [ids : Seq(Webhooks), marked : Webhooks \cup {None}]
    BY <1>1 DEF Init, Rendered
  <1>3. All \in Filter
    BY DEF All, Filter
  <1>4. runs \in [Webhooks -> 0..MaxRuns] /\ \A s \in Slots : fetches[s].runs \in 0..MaxRuns
    BY SentRuns, InspectorAssumption DEF Init
  <1>5. load \in [stage : {"sent", "ok", "done"}, data : Seq(Webhooks)]
    BY DEF Init
  <1> QED
    BY <1>2, <1>3, <1>4, <1>5 DEF Init, Typed

LEMMA HandleTyped ==
  ASSUME Inv, Typed, NEW s \in Slots, Handle(s)
  PROVE  Typed'
  <1> DEFINE f == fetches[s]
  <1>1. f.stage = "sent" /\ UNCHANGED <<load, pageVars, screenVars, torn, astray, clicked>>
    BY DEF Handle
  <1>2. /\ fetches \in [Slots -> FetchType]
        /\ f.op \in {"select", "delete", "replay"} => f.id \in Webhooks
    BY DEF Inv, Types
  <1>3. runs \in [Webhooks -> 0..MaxRuns] /\ MaxRuns \in Nat
    BY InspectorAssumption DEF Typed
  <1>4. /\ runs' \in [Webhooks -> 0..MaxRuns]
        /\ \/ Free(s)
           \/ \E n \in 0..MaxRuns :
                fetches' = [fetches EXCEPT ![s].stage = "ok", ![s].runs = n]
    <2>1. CASE f.op = "select"
      <3>1. runs[f.id] \in 0..MaxRuns
        BY <1>2, <1>3, <2>1
      <3>2. /\ fetches' = [fetches EXCEPT ![s].stage = "ok", ![s].runs = runs[f.id]]
            /\ runs' = runs
        BY <2>1 DEF Handle
      <3>3. \E n \in 0..MaxRuns :
              fetches' = [fetches EXCEPT ![s].stage = "ok", ![s].runs = n]
        BY <3>1, <3>2
      <3> QED
        BY <1>3, <3>2, <3>3
    <2>2. CASE f.op = "delete"
      BY <1>3, <2>2 DEF Handle
    <2>3. CASE f.op = "clear"
      <3>1. /\ fetches' = [fetches EXCEPT ![s].stage = "ok", ![s].runs = 0]
            /\ runs' = runs
        BY <2>3 DEF Handle
      <3>2. 0 \in 0..MaxRuns
        BY <1>3
      <3>3. \E n \in 0..MaxRuns :
              fetches' = [fetches EXCEPT ![s].stage = "ok", ![s].runs = n]
        BY <3>1, <3>2
      <3> QED
        BY <1>3, <3>1, <3>3
    <2>4. CASE f.op = "replay"
      <3>1. /\ runs' = [runs EXCEPT ![f.id] = @ + 1] /\ runs[f.id] < MaxRuns
            /\ fetches' = [fetches EXCEPT ![s].stage = "ok", ![s].runs = 0]
        BY <2>4 DEF Handle
      <3>2. runs' \in [Webhooks -> 0..MaxRuns]
        <4>1. f.id \in Webhooks
          BY <1>2, <2>4
        <4> HIDE DEF f
        <4> QED
          BY <1>3, <3>1, <4>1
      <3>3. \E n \in 0..MaxRuns :
              fetches' = [fetches EXCEPT ![s].stage = "ok", ![s].runs = n]
        <4>1. 0 \in 0..MaxRuns
          BY <1>3
        <4> QED
          BY <3>1, <4>1
      <3> QED
        BY <3>2, <3>3
    <2> QED
      BY <2>1, <2>2, <2>3, <2>4 DEF Handle
  <1>5. \A t \in Slots : fetches'[t].runs \in 0..MaxRuns
    <2>1. CASE Free(s)
      BY <1>2, <1>3, <2>1, SentRuns DEF Free, Typed
    <2>2. ASSUME NEW n \in 0..MaxRuns,
                 fetches' = [fetches EXCEPT ![s].stage = "ok", ![s].runs = n]
          PROVE  \A t \in Slots : fetches'[t].runs \in 0..MaxRuns
      BY <1>2, <2>2 DEF Typed, FetchType
    <2> QED
      BY <1>4, <2>1, <2>2
  <1> QED
    BY <1>1, <1>4, <1>5 DEF Typed, pageVars, screenVars

LEMMA FailTyped ==
  ASSUME Inv, Typed, NEW s \in Slots, Fail(s)
  PROVE  Typed'
  <1>1. /\ fetches \in [Slots -> FetchType]
        /\ UNCHANGED <<serverVars, load, pageVars, screenVars, torn, astray, clicked>>
    BY DEF Inv, Types, Fail
  <1>2. Free(s) \/ fetches' = [fetches EXCEPT ![s].stage = "ok"]
    BY DEF Fail
  <1>3. \A t \in Slots : fetches'[t].runs \in 0..MaxRuns
    <2>1. 0 \in 0..MaxRuns
      BY InspectorAssumption
    <2>2. CASE Free(s)
      BY <1>1, <2>1, <2>2, SentRuns DEF Free, Typed
    <2>3. CASE fetches' = [fetches EXCEPT ![s].stage = "ok"]
      <3>1. \A t \in Slots : fetches'[t].runs = fetches[t].runs
        BY <1>1, <2>3 DEF FetchType
      <3> QED
        BY <3>1 DEF Typed
    <2> QED
      BY <1>2, <2>2, <2>3
  <1> QED
    BY <1>1, <1>3 DEF Typed, serverVars, pageVars, screenVars

LEMMA SelectDoneTyped ==
  ASSUME Inv, Typed, NEW s \in Slots, SelectDone(s)
  PROVE  Typed'
  <1> DEFINE c == [id |-> fetches[s].id, runs |-> fetches[s].runs]
  <1>1. /\ fetches[s].op = "select" /\ fetches' = [fetches EXCEPT ![s] = Idle]
        /\ current' = c /\ RenderList(list, filter, c)
        /\ IF Throws(list, filter)
             THEN torn' = TRUE /\ KeepWorkspace
             ELSE RenderWorkspace(c)
        /\ astray' \in BOOLEAN
        /\ UNCHANGED <<serverVars, load, filter>>
    BY DEF SelectDone, Answered, Free
  <1>2. c \in Details
    BY <1>1 DEF Inv, Types, Typed, Details
  <1> HIDE DEF c
  <1>3. rows' \in [ids : Seq(Webhooks), marked : Webhooks \cup {None}]
    BY <1>1, <1>2, RowsTyped DEF Inv, Types
  <1>4. /\ picked' \in Attempt \cup {None} /\ response' \in Attempt \cup {None}
        /\ payload' \in Webhooks \cup {None}
        /\ shown' \in Details \cup {None} /\ torn' \in BOOLEAN
        /\ mark' \in Attempt \cup {None} /\ clicked' \in BOOLEAN
    <2>1. CASE Throws(list, filter)
      BY <1>1, <2>1 DEF Typed, KeepWorkspace
    <2>2. CASE ~Throws(list, filter)
      BY <1>1, <1>2, <2>2, WorkspaceTyped
    <2> QED
      BY <2>1, <2>2
  <1>5. \A t \in Slots : fetches'[t].runs \in 0..MaxRuns
    <2>1. Idle.runs \in 0..MaxRuns
      BY SentRuns, InspectorAssumption
    <2> QED
      BY <1>1, <2>1, OneFetch
  <1> QED
    BY <1>1, <1>2, <1>3, <1>4, <1>5 DEF Typed, serverVars

LEMMA SelectFailsTyped ==
  ASSUME Inv, Typed, NEW s \in Slots, SelectFails(s)
  PROVE  Typed'
  <1>1. /\ fetches' = [fetches EXCEPT ![s] = Idle] /\ astray' \in BOOLEAN
        /\ UNCHANGED <<serverVars, load, pageVars, screenVars, torn, clicked>>
    BY DEF SelectFails, Free, Typed
  <1>2. Idle.runs \in 0..MaxRuns
    BY SentRuns, InspectorAssumption
  <1> QED
    BY <1>1, <1>2, OneFetch DEF Typed, serverVars, pageVars, screenVars

LEMMA ClearDoneTyped ==
  ASSUME Inv, Typed, NEW s \in Slots, ClearDone(s)
  PROVE  Typed'
  <1>1. /\ fetches' = [fetches EXCEPT ![s] = Idle]
        /\ current' = None /\ astray' = FALSE
        /\ RenderList(<<>>, filter, None) /\ RenderWorkspace(None)
        /\ UNCHANGED <<serverVars, load, filter>>
    BY DEF ClearDone, Free
  <1>2. rows' \in [ids : Seq(Webhooks), marked : Webhooks \cup {None}]
    <2>1. <<>> \in Seq(Webhooks)
      OBVIOUS
    <2> QED
      BY <1>1, <2>1, RowsTyped
  <1>3. /\ picked' \in Attempt \cup {None} /\ response' \in Attempt \cup {None}
        /\ payload' \in Webhooks \cup {None}
        /\ shown' \in Details \cup {None} /\ torn' \in BOOLEAN
        /\ mark' \in Attempt \cup {None} /\ clicked' \in BOOLEAN
    BY <1>1, WorkspaceTyped
  <1>4. Idle.runs \in 0..MaxRuns
    BY SentRuns, InspectorAssumption
  <1>5. \A t \in Slots : fetches'[t].runs \in 0..MaxRuns
    BY <1>1, <1>4, OneFetch
  <1> QED
    BY <1>1, <1>2, <1>3, <1>5 DEF Typed, serverVars

LEMMA SendsTyped ==
  ASSUME Inv, Typed, NEW s \in Slots,
         ReplayDone(s) \/ Clear(s) \/ Replay(s) \/ \E w \in Webhooks : Click(s, w)
  PROVE  Typed'
  <1>1. UNCHANGED <<serverVars, load, pageVars, screenVars, obsVars>>
    BY DEF ReplayDone, Clear, Replay, Click
  <1>2. \E f : f.runs = 0 /\ fetches' = [fetches EXCEPT ![s] = f]
    <2>1. CASE ReplayDone(s)
      BY <2>1, SentRuns DEF ReplayDone
    <2>2. CASE Clear(s)
      BY <2>2, SentRuns DEF Clear
    <2>3. CASE Replay(s)
      BY <2>3, SentRuns DEF Replay
    <2>4. CASE \E w \in Webhooks : Click(s, w)
      BY <2>4, SentRuns DEF Click
    <2> QED
      BY <2>1, <2>2, <2>3, <2>4
  <1>3. \A t \in Slots : fetches'[t].runs \in 0..MaxRuns
    <2>1. PICK f : f.runs = 0 /\ fetches' = [fetches EXCEPT ![s] = f]
      BY <1>2
    <2>2. f.runs \in 0..MaxRuns
      BY <2>1, InspectorAssumption
    <2> QED
      BY <2>1, <2>2, OneFetch
  <1> QED
    BY <1>1, <1>3 DEF Typed, serverVars, pageVars, screenVars, obsVars

LEMMA OnEventTyped ==
  ASSUME Inv, Typed, OnEvent
  PROVE  Typed'
  <1> DEFINE w == Head(stream)
             l == <<w>> \o list
  <1>1. /\ stream # <<>> /\ list' = l /\ RenderList(l, filter, current)
        /\ UNCHANGED <<serverVars, load, filter, current, picked, shown, payload, response, mark,
                       obsVars>>
        /\ \/ fetches' = fetches
           \/ \E s \in Slots : fetches' = [fetches EXCEPT ![s] = Sent("select", w)]
    BY DEF OnEvent
  <1>2. l \in Seq(Webhooks)
    BY <1>1 DEF Inv, Types
  <1>3. rows' \in [ids : Seq(Webhooks), marked : Webhooks \cup {None}]
    <2> HIDE DEF l
    <2> QED
      BY <1>1, <1>2, RowsTyped DEF Typed
  <1>4. \A t \in Slots : fetches'[t].runs \in 0..MaxRuns
    <2>1. Sent("select", w).runs \in 0..MaxRuns
      BY SentRuns, InspectorAssumption
    <2>2. ASSUME NEW s \in Slots, fetches' = [fetches EXCEPT ![s] = Sent("select", w)]
          PROVE  \A t \in Slots : fetches'[t].runs \in 0..MaxRuns
      BY <2>1, <2>2, OneFetch
    <2> QED
      BY <1>1, <2>2 DEF Typed
  <1> QED
    BY <1>1, <1>3, <1>4 DEF Typed, serverVars, obsVars

LEMMA LoadTyped ==
  ASSUME Inv, Typed, HandleLoad \/ LoadFails
  PROVE  Typed'
  <1>1. load' \in [stage : {"sent", "ok", "done"}, data : Seq(Webhooks)]
    <2>1. load' = [stage |-> load'.stage, data |-> load'.data]
      BY DEF HandleLoad, LoadFails
    <2>2. load'.stage \in {"sent", "ok", "done"} /\ load'.data \in Seq(Webhooks)
      BY HandleLoadInv, LoadFailsInv DEF Inv, Types
    <2> HIDE DEF Typed
    <2> QED
      BY <2>1, <2>2
  <1>2. UNCHANGED <<serverVars, fetches, pageVars, screenVars, obsVars>>
    BY DEF HandleLoad, LoadFails
  <1> QED
    BY <1>1, <1>2 DEF Typed, serverVars, pageVars, screenVars, obsVars

LEMMA LoadDoneTyped ==
  ASSUME Inv, Typed, LoadDone
  PROVE  Typed'
  <1> DEFINE l == load.data
  <1>1. /\ list' = l /\ RenderList(l, filter, current)
        /\ load' = [stage |-> "done", data |-> <<>>]
        /\ astray' \in BOOLEAN
        /\ UNCHANGED <<serverVars, filter, current, picked, shown, payload, response,
                       mark, torn, clicked>>
        /\ \/ fetches' = fetches
           \/ \E s \in Slots : fetches' = [fetches EXCEPT ![s] = Sent("select", Head(l))]
    BY DEF LoadDone
  <1>2. l \in Seq(Webhooks)
    BY DEF Inv, Types
  <1> HIDE DEF l
  <1>3. rows' \in [ids : Seq(Webhooks), marked : Webhooks \cup {None}]
    BY <1>1, <1>2, RowsTyped DEF Typed
  <1>4. \A t \in Slots : fetches'[t].runs \in 0..MaxRuns
    <2>1. Sent("select", Head(l)).runs \in 0..MaxRuns
      BY SentRuns, InspectorAssumption
    <2>2. ASSUME NEW s \in Slots, fetches' = [fetches EXCEPT ![s] = Sent("select", Head(l))]
          PROVE  \A t \in Slots : fetches'[t].runs \in 0..MaxRuns
      BY <2>1, <2>2, OneFetch
    <2> QED
      BY <1>1, <2>2 DEF Typed
  <1>5. load' \in [stage : {"sent", "ok", "done"}, data : Seq(Webhooks)]
    BY <1>1
  <1> QED
    BY <1>1, <1>3, <1>4, <1>5 DEF Typed, serverVars

LEMMA DeleteTyped ==
  ASSUME Inv, Typed, NEW s \in Slots, NEW t \in Slots, NEW w \in Webhooks, Delete(s, t, w)
  PROVE  Typed'
  <1> DEFINE rest == RemoveAt(list, First(list, w))
  <1>1. /\ RemoveEntry(w, rest)
        /\ \A u \in Slots : fetches'[u] = fetches[u] \/ fetches'[u].runs = 0
    BY SentRuns DEF Delete, EntryOf, First
  <1>2. rest \in Seq(Webhooks)
    <2>1. list \in Seq(Webhooks) /\ w \in ToSet(list)
      BY <1>1 DEF Inv, Types, RemoveEntry
    <2>2. First(list, w) \in 1..Len(list)
      BY <2>1, FirstFound
    <2> QED
      BY <2>1, <2>2, Removed
  <1> HIDE DEF rest
  <1>3. /\ RenderList(rest, filter, current')
        /\ IF w = IdOf(current) /\ rest = <<>>
             THEN current' = None /\ RenderWorkspace(None)
             ELSE UNCHANGED <<current, torn>> /\ KeepWorkspace
        /\ UNCHANGED <<serverVars, load, filter, astray>>
    BY <1>1 DEF RemoveEntry
  <1>4. /\ picked' \in Attempt \cup {None} /\ response' \in Attempt \cup {None}
        /\ payload' \in Webhooks \cup {None} /\ current' \in Details \cup {None}
        /\ shown' \in Details \cup {None} /\ torn' \in BOOLEAN
        /\ mark' \in Attempt \cup {None} /\ clicked' \in BOOLEAN
    <2>1. CASE w = IdOf(current) /\ rest = <<>>
      BY <1>3, <2>1, WorkspaceTyped
    <2>2. CASE ~(w = IdOf(current) /\ rest = <<>>)
      BY <1>3, <2>2 DEF Typed, KeepWorkspace
    <2> QED
      BY <2>1, <2>2
  <1>5. rows' \in [ids : Seq(Webhooks), marked : Webhooks \cup {None}]
    BY <1>2, <1>3, <1>4, RowsTyped
  <1>6. \A u \in Slots : fetches'[u].runs \in 0..MaxRuns
    BY <1>1, InspectorAssumption DEF Typed
  <1> QED
    BY <1>3, <1>4, <1>5, <1>6 DEF Typed, serverVars

LEMMA SetFilterTyped ==
  ASSUME Inv, Typed, NEW f \in Settings, SetFilter(f)
  PROVE  Typed'
  <1>1. /\ filter' = f /\ RenderList(list, f, current) /\ f \in Filter
        /\ UNCHANGED <<serverVars, load, fetches, current, picked, shown, payload, response, mark,
                       obsVars>>
    BY InspectorAssumption DEF SetFilter
  <1>2. rows' \in [ids : Seq(Webhooks), marked : Webhooks \cup {None}]
    BY <1>1, RowsTyped DEF Inv, Types, Typed
  <1> QED
    BY <1>1, <1>2 DEF Typed, serverVars, obsVars

LEMMA SetFormatTyped ==
  ASSUME Inv, Typed, SetFormat
  PROVE  Typed'
  <1>1. current \in Details
    BY DEF SetFormat, Typed
  <1>2. payload' \in Webhooks
    BY <1>1 DEF SetFormat, RenderPayload, Details
  <1> QED
    BY <1>2 DEF SetFormat, Typed, serverVars, obsVars

LEMMA SelectAttemptTyped ==
  ASSUME Inv, Typed, NEW n \in 1..MaxRuns, SelectAttempt(n)
  PROVE  Typed'
  <1> DEFINE a == [id |-> shown.id, n |-> n]
  <1>1. /\ shown # None /\ current # None /\ PickAttempt(current, a)
        /\ clicked' \in BOOLEAN
        /\ UNCHANGED <<serverVars, load, fetches, filter, current, rows, shown, payload, mark,
                       torn, astray>>
    BY DEF SelectAttempt
  <1>2. current \in Details /\ a \in Attempt
    BY <1>1 DEF Typed, Details, Attempt
  <1> HIDE DEF a
  <1>3. picked' \in Attempt \cup {None} /\ response' \in Attempt \cup {None}
    BY <1>1, <1>2, AttemptTyped
  <1> QED
    BY <1>1, <1>3 DEF Typed, serverVars

LEMMA NextTyped ==
  ASSUME Inv, Typed, [Next]_vars
  PROVE  Typed'
  <1>1. CASE UNCHANGED vars
    BY <1>1 DEF vars, serverVars, pageVars, screenVars, obsVars, Typed
  <1>2. ASSUME NEW w \in Webhooks, Capture(w) PROVE Typed'
    BY <1>2 DEF Capture, pageVars, screenVars, obsVars, Typed
  <1>3. CASE Next
    BY <1>2, <1>3, LoadTyped, LoadDoneTyped, OnEventTyped, HandleTyped, FailTyped, SelectDoneTyped, SelectFailsTyped,
       ClearDoneTyped, SendsTyped, DeleteTyped, SetFilterTyped, SetFormatTyped,
       SelectAttemptTyped DEF Next
  <1> QED
    BY <1>1, <1>3

-----------------------------------------------------------------------------
(* The variables keep their types; of the rows that is a fact about the filter,
   and of the attempts one about selectReplayAttempt, which never displays an
   attempt number 0 (app.js:168-181, 364-382). *)
THEOREM InspectorTypes == Spec => []TypeOK
  <1>1. Init => Typed
    BY InitTyped
  <1>2. Inv /\ Typed /\ [Next]_vars => Typed'
    BY NextTyped
  <1>3. Inv /\ Typed => TypeOK
    BY TypedIsTypeOK
  <1> QED
    BY <1>1, <1>2, <1>3, InvHolds, PTL DEF Spec

(* The rows are those of the list behind the filters, the workspace is that of
   the webhook its buttons act on, and its panes belong to it, whatever arrives
   and is clicked, unless renderList threw; the attempt highlighted in its
   history is the one whose response is displayed until another is clicked
   (app.js:101-181, 205-269, 317-382). *)
THEOREM ScreenIsTrue == Spec => []ScreenTrue
  <1>1. Inv => ScreenTrue
    BY DEF Inv
  <1> QED
    BY <1>1, InvHolds, PTL

(* A webhook inspected though off the list has its successor on the way, or
   the reason is known (app.js:86-99, 205-215, 554-563). *)
THEOREM GhostsExplained == Spec => []GhostExplained
  <1>1. Inv => GhostExplained
    BY DEF Inv
  <1> QED
    BY <1>1, InvHolds, PTL

(* A webhook deleted on the page does not come back to its list, or stay there,
   but for an entry that the load and an event have both made; and its DELETE is
   on the way, or failed, or was never sent (app.js:13-19, 86-93, 546-577). *)
THEOREM DeletionsReach == Spec => []DeletionReaches
  <1>1. Inv => DeletionReaches
    BY DEF Inv
  <1> QED
    BY <1>1, InvHolds, PTL
=============================================================================
