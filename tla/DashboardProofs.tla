-------------------------- MODULE DashboardProofs --------------------------
(***************************************************************************)
(* Proofs about Dashboard, for any webhooks and any number of fetches      *)
(* under way: a webhook missing from the list or listed twice is           *)
(* explained, and the replay button comes back.                            *)
(***************************************************************************)
EXTENDS Dashboard, WellFoundedInduction, TLAPS

-----------------------------------------------------------------------------
(* Lists, in which an entry may occur twice. *)

(* x occurs in l at one place at most. *)
Single(l, x) == \A i, j \in 1..Len(l) : l[i] = x /\ l[j] = x => i = j

(* A set of numbers has a least one. *)
LEMMA Least ==
  ASSUME NEW T \in SUBSET Nat, T # {}
  PROVE  \E m \in T : \A n \in T : m <= n
  <1>1. PICK m \in T : \A n \in T : <<n, m>> \notin OpToRel(<, Nat)
    BY WFMin, NatLessThanWellFounded
  <1>2. \A n \in T : n \in Nat /\ m \in Nat /\ ~(n < m)
    BY <1>1 DEF OpToRel
  <1>3. \A n \in T : m <= n
    BY <1>2
  <1> QED
    BY <1>3

(* The first place of an entry. *)
First(l, x) == SelectInSeq(l, LAMBDA y : y = x)

LEMMA FirstFound ==
  ASSUME NEW S, NEW l \in Seq(S), NEW x \in ToSet(l)
  PROVE  First(l, x) \in 1..Len(l) /\ l[First(l, x)] = x
  <1> DEFINE I == {i \in 1..Len(l) : l[i] = x}
  <1>1. I \in SUBSET Nat /\ I # {}
    BY DEF ToSet
  <1>2. PICK m \in I : \A n \in I : m <= n
    <2> HIDE DEF I
    <2> QED
      BY <1>1, Least
  <1>3. First(l, x) = Min(I)
    BY <1>1 DEF First, SelectInSeq
  <1>4. Min(I) \in I
    <2> HIDE DEF I
    <2> QED
      BY <1>2 DEF Min
  <1> QED
    BY <1>3, <1>4

(* Taking the entry at one place off moves those after it. *)
LEMMA Removed ==
  ASSUME NEW S, NEW l \in Seq(S), NEW i \in 1..Len(l)
  PROVE  /\ RemoveAt(l, i) \in Seq(S)
         /\ Len(RemoveAt(l, i)) = Len(l) - 1
         /\ \A j \in 1..(Len(l) - 1) : RemoveAt(l, i)[j] = l[IF j < i THEN j ELSE j + 1]
  <1> DEFINE a == SubSeq(l, 1, i - 1)
             b == SubSeq(l, i + 1, Len(l))
  <1>1. a \in Seq(S) /\ Len(a) = i - 1 /\ \A j \in 1..(i - 1) : a[j] = l[j]
    <2>1. \A j \in 1..(i - 1) : 1 + j - 1 = j
      OBVIOUS
    <2> QED
      BY <2>1
  <1>2. b \in Seq(S) /\ Len(b) = Len(l) - i /\ \A j \in 1..(Len(l) - i) : b[j] = l[i + j]
    <2>1. \A j \in 1..(Len(l) - i) : i + 1 + j - 1 = i + j
      OBVIOUS
    <2> QED
      BY <2>1
  <1>3. RemoveAt(l, i) = a \o b
    BY DEF RemoveAt
  <1> HIDE DEF a, b
  <1>4. a \o b \in Seq(S) /\ Len(a \o b) = Len(l) - 1
    <2>1. a \in Seq(S) /\ b \in Seq(S)
      BY <1>1, <1>2
    <2>2. a \o b \in Seq(S) /\ Len(a \o b) = Len(a) + Len(b)
      BY <2>1
    <2>3. (i - 1) + (Len(l) - i) = Len(l) - 1
      OBVIOUS
    <2> QED
      BY <1>1, <1>2, <2>2, <2>3
  <1>5. ASSUME NEW j \in 1..(Len(l) - 1)
        PROVE  (a \o b)[j] = l[IF j < i THEN j ELSE j + 1]
    <2>1. CASE j < i
      BY <1>1, <1>2, <2>1
    <2>2. CASE ~(j < i)
      <3>1. (a \o b)[j] = b[j - (i - 1)] /\ j - (i - 1) \in 1..(Len(l) - i)
        BY <1>1, <1>2, <1>4, <2>2
      <3>2. i + (j - (i - 1)) = j + 1
        OBVIOUS
      <3>3. b[j - (i - 1)] = l[i + (j - (i - 1))]
        BY <1>2, <3>1
      <3> QED
        BY <2>2, <3>1, <3>2, <3>3
    <2> QED
      BY <2>1, <2>2
  <1> QED
    BY <1>3, <1>4, <1>5

(* What was at one place is at one place; only the entry removed may be gone. *)
LEMMA RemovedEntries ==
  ASSUME NEW S, NEW l \in Seq(S), NEW i \in 1..Len(l)
  PROVE  LET r == RemoveAt(l, i) IN
         /\ ToSet(r) \subseteq ToSet(l)
         /\ ToSet(l) \subseteq ToSet(r) \cup {l[i]}
         /\ \A x : Single(l, x) => Single(r, x)
         /\ IsInjective(l) => IsInjective(r)
  <1> DEFINE r == RemoveAt(l, i)
             f(j) == IF j < i THEN j ELSE j + 1
  <1>1. /\ r \in Seq(S) /\ Len(r) = Len(l) - 1 /\ Len(l) \in Nat
        /\ \A j \in 1..Len(r) : r[j] = l[f(j)]
    BY Removed
  <1>2. \A j \in 1..Len(r) : f(j) \in 1..Len(l)
    BY <1>1
  <1>3. \A j, k \in 1..Len(r) : f(j) = f(k) => j = k
    BY <1>1
  <1>4. \A k \in 1..Len(l) : k # i => \E j \in 1..Len(r) : f(j) = k
    <2> SUFFICES ASSUME NEW k \in 1..Len(l), k # i
                 PROVE  \E j \in 1..Len(r) : f(j) = k
      OBVIOUS
    <2>1. CASE k < i
      <3>1. k \in 1..Len(r) /\ f(k) = k
        BY <1>1, <2>1
      <3> QED
        BY <3>1
    <2>2. CASE k > i
      <3>1. k - 1 \in 1..Len(r) /\ f(k - 1) = k
        BY <1>1, <2>2
      <3> QED
        BY <3>1
    <2> QED
      BY <2>1, <2>2
  <1> HIDE DEF r, f
  <1>5. ToSet(r) \subseteq ToSet(l)
    BY <1>1, <1>2 DEF ToSet
  <1>6. ToSet(l) \subseteq ToSet(r) \cup {l[i]}
    BY <1>1, <1>4 DEF ToSet
  <1>7. \A x : Single(l, x) => Single(r, x)
    BY <1>1, <1>2, <1>3 DEF Single
  <1>8. IsInjective(l) => IsInjective(r)
    BY <1>1, <1>2, <1>3 DEF IsInjective
  <1> QED
    BY <1>5, <1>6, <1>7, <1>8 DEF r

LEMMA Prepended ==
  ASSUME NEW S, NEW l \in Seq(S), NEW x \in S
  PROVE  LET r == <<x>> \o l IN
         /\ r \in Seq(S) /\ Len(r) = Len(l) + 1 /\ r[1] = x
         /\ \A j \in 1..Len(l) : r[j + 1] = l[j]
         /\ \A j \in 2..Len(r) : j - 1 \in 1..Len(l) /\ r[j] = l[j - 1]
         /\ ToSet(r) = ToSet(l) \cup {x}
         /\ \A y : y # x /\ Single(l, y) => Single(r, y)
         /\ IsInjective(l) /\ x \notin ToSet(l) => IsInjective(r)
  <1> DEFINE r == <<x>> \o l
  <1>1. /\ r \in Seq(S) /\ Len(r) = Len(l) + 1 /\ r[1] = x /\ Len(l) \in Nat
        /\ \A j \in 2..Len(r) : j - 1 \in 1..Len(l) /\ r[j] = l[j - 1]
    OBVIOUS
  <1> HIDE DEF r
  <1>2. \A j \in 1..Len(l) : j + 1 \in 2..Len(r) /\ (j + 1) - 1 = j
    BY <1>1
  <1>3. \A j \in 1..Len(l) : r[j + 1] = l[j]
    BY <1>1, <1>2
  <1>4. \A j \in 1..Len(r) : j = 1 \/ j \in 2..Len(r)
    BY <1>1
  <1>5. ToSet(r) = ToSet(l) \cup {x}
    <2>1. ToSet(r) \subseteq ToSet(l) \cup {x}
      BY <1>1, <1>4 DEF ToSet
    <2>2. x \in ToSet(r)
      BY <1>1 DEF ToSet
    <2>3. ASSUME NEW j \in 1..Len(l) PROVE l[j] \in ToSet(r)
      <3>1. j + 1 \in 1..Len(r)
        BY <1>1
      <3> QED
        BY <1>3, <3>1 DEF ToSet
    <2>4. ToSet(l) \subseteq ToSet(r)
      BY <2>3 DEF ToSet
    <2> QED
      BY <2>1, <2>2, <2>4
  <1>6. ASSUME NEW y, y # x, Single(l, y) PROVE Single(r, y)
    <2> SUFFICES ASSUME NEW j \in 1..Len(r), NEW k \in 1..Len(r), r[j] = y, r[k] = y
                 PROVE  j = k
      BY DEF Single
    <2>1. j \in 2..Len(r) /\ k \in 2..Len(r)
      BY <1>1, <1>4, <1>6
    <2>2. j - 1 = k - 1
      BY <1>1, <1>6, <2>1 DEF Single
    <2> QED
      BY <2>1, <2>2
  <1>7. ASSUME IsInjective(l), x \notin ToSet(l) PROVE IsInjective(r)
    <2> SUFFICES ASSUME NEW j \in 1..Len(r), NEW k \in 1..Len(r), r[j] = r[k]
                 PROVE  j = k
      BY <1>1 DEF IsInjective
    <2>1. \A i \in 1..Len(l) : l[i] # x
      BY <1>7 DEF ToSet
    <2>2. CASE j = 1 \/ k = 1
      BY <1>1, <1>4, <2>1, <2>2
    <2>3. CASE j # 1 /\ k # 1
      <3>1. j - 1 \in 1..Len(l) /\ k - 1 \in 1..Len(l) /\ l[j - 1] = l[k - 1]
        BY <1>1, <1>4, <2>3
      <3>2. j - 1 = k - 1
        BY <1>7, <3>1 DEF IsInjective
      <3> QED
        BY <3>2
    <2> QED
      BY <2>2, <2>3
  <1> QED
    BY <1>1, <1>3, <1>5, <1>6, <1>7 DEF r

LEMMA Appended ==
  ASSUME NEW S, NEW l \in Seq(S), NEW x \in S
  PROVE  LET r == Append(l, x) IN
         /\ r \in Seq(S)
         /\ ToSet(r) = ToSet(l) \cup {x}
         /\ IsInjective(l) /\ x \notin ToSet(l) => IsInjective(r)
  <1> DEFINE r == Append(l, x)
  <1>1. /\ r \in Seq(S) /\ Len(r) = Len(l) + 1 /\ r[Len(l) + 1] = x
        /\ \A j \in 1..Len(l) : r[j] = l[j]
    OBVIOUS
  <1> HIDE DEF r
  <1>2. ToSet(r) = ToSet(l) \cup {x}
    BY <1>1 DEF ToSet
  <1>3. ASSUME IsInjective(l), x \notin ToSet(l) PROVE IsInjective(r)
    <2>1. \A j \in 1..Len(l) : l[j] # x
      BY <1>3 DEF ToSet
    <2> QED
      BY <1>1, <1>3, <2>1 DEF IsInjective
  <1> QED
    BY <1>1, <1>2, <1>3 DEF r

LEMMA Taken ==
  ASSUME NEW S, NEW l \in Seq(S), IsInjective(l), l # <<>>
  PROVE  /\ Head(l) \in S /\ Head(l) \in ToSet(l)
         /\ Tail(l) \in Seq(S) /\ IsInjective(Tail(l))
         /\ ToSet(Tail(l)) = ToSet(l) \ {Head(l)}
  <1> DEFINE r == Tail(l)
  <1>1. /\ r \in Seq(S) /\ Len(r) = Len(l) - 1 /\ Len(l) > 0 /\ Head(l) = l[1]
        /\ \A j \in 1..Len(r) : j + 1 \in 1..Len(l) /\ r[j] = l[j + 1]
    OBVIOUS
  <1> HIDE DEF r
  <1>2. IsInjective(r)
    <2> SUFFICES ASSUME NEW j \in 1..Len(r), NEW k \in 1..Len(r), r[j] = r[k]
                 PROVE  j = k
      BY <1>1 DEF IsInjective
    <2>1. j + 1 \in 1..Len(l) /\ k + 1 \in 1..Len(l) /\ l[j + 1] = l[k + 1]
      BY <1>1
    <2>2. j + 1 = k + 1
      BY <2>1 DEF IsInjective
    <2> QED
      BY <2>2
  <1>3. ToSet(r) \subseteq ToSet(l) \ {l[1]}
    BY <1>1 DEF IsInjective, ToSet
  <1>4. ASSUME NEW x \in ToSet(l) \ {l[1]} PROVE x \in ToSet(r)
    <2>1. PICK j \in 1..Len(l) : l[j] = x /\ j # 1
      BY <1>4 DEF ToSet
    <2>2. j - 1 \in 1..Len(r) /\ r[j - 1] = x
      BY <1>1, <2>1
    <2> QED
      BY <1>1, <2>2 DEF ToSet
  <1>5. Head(l) \in S /\ Head(l) \in ToSet(l)
    BY <1>1 DEF ToSet
  <1> QED
    BY <1>1, <1>2, <1>3, <1>4, <1>5 DEF r

(* DELETE FROM requests WHERE id = ?: at most one row goes. *)
LEMMA RowDeleted ==
  ASSUME NEW S, NEW l \in Seq(S), IsInjective(l), NEW x
  PROVE  LET r == RemoveFirst(l, x) IN
         /\ r \in Seq(S) /\ IsInjective(r)
         /\ ToSet(r) \subseteq ToSet(l)
  <1>1. CASE x \in ToSet(l)
    <2>1. RemoveFirst(l, x) = RemoveAt(l, First(l, x))
      BY <1>1 DEF RemoveFirst, First, ToSet
    <2> QED
      BY <1>1, <2>1, FirstFound, Removed, RemovedEntries
  <1>2. CASE x \notin ToSet(l)
    <2>1. RemoveFirst(l, x) = l
      BY <1>2 DEF RemoveFirst, ToSet
    <2> QED
      BY <2>1
  <1> QED
    BY <1>1, <1>2

(* The page has the newest rows, each once. *)
LEMMA PageRows ==
  ASSUME table \in Seq(Requests), IsInjective(table)
  PROVE  /\ Page \in Seq(Requests) /\ IsInjective(Page)
         /\ ToSet(Page) = {table[i] : i \in {j \in 1..Len(table) : j <= Limit}}
  <1> DEFINE n == IF Len(table) < Limit THEN Len(table) ELSE Limit
  <1>1. n \in Nat /\ n <= Len(table) /\ \A j \in 1..Len(table) : j <= n <=> j <= Limit
    BY DashboardAssumption
  <1> HIDE DEF n
  <1>2. /\ SubSeq(table, 1, n) \in Seq(Requests) /\ Len(SubSeq(table, 1, n)) = n
        /\ \A j \in 1..n : SubSeq(table, 1, n)[j] = table[j]
    <2>1. \A j \in 1..n : 1 + j - 1 = j
      BY <1>1
    <2> QED
      BY <1>1, <2>1
  <1>3. Page = SubSeq(table, 1, n)
    BY DEF Page, n
  <1>4. /\ Page \in Seq(Requests) /\ Len(Page) = n /\ 1..Len(Page) = 1..n
        /\ \A j \in 1..n : Page[j] = table[j]
    BY <1>2, <1>3
  <1>5. \A j \in 1..n : j \in 1..Len(table) /\ j <= Limit
    BY <1>1
  <1>6. \A j \in 1..Len(table) : j <= Limit => j \in 1..n
    BY <1>1
  <1> HIDE DEF Page
  <1>7. IsInjective(Page)
    BY <1>4, <1>5 DEF IsInjective
  <1>8. ToSet(Page) = {table[i] : i \in {j \in 1..Len(table) : j <= Limit}}
    BY <1>4, <1>5, <1>6 DEF ToSet
  <1> QED
    BY <1>4, <1>7, <1>8

-----------------------------------------------------------------------------
(* The inductive invariant. *)

(* What a fetch was answered has each webhook once; a free slot has no answer. *)
Settled(f) == IsInjective(f.data) /\ (f.op = "idle" => f.stage = "none")

(* Rows and events are of webhooks that were captured, each once; an event on
   its way has been published. *)
Sound ==
  /\ IsInjective(table) /\ \A r \in ToSet(table) : capture[r] # "new"
  /\ IsInjective(stream) /\ \A r \in ToSet(stream) : capture[r] = "published"
  /\ \A s \in Slots : Settled(fetches[s])

(* What was published, or was in the snapshot, is accounted for. *)
Accounted ==
  /\ \A r \in Requests : capture[r] = "published" =>
       r \in ToSet(list) \cup ToSet(stream) \cup unstreamed \cup wiped \cup hidden
  /\ snapshot \subseteq ToSet(list) \cup wiped \cup hidden

(* The event of r is still to come. *)
Pending(r) == capture[r] # "published" \/ r \in ToSet(stream)

(* A webhook listed before its event was in the snapshot, and is listed once. *)
PendingOnce ==
  \A r \in Requests : Pending(r) /\ r \in ToSet(list) =>
    r \in snapshot /\ Single(list, r)

Inv == TypeOK /\ Sound /\ Accounted /\ PendingOnce /\ DuplicatesExplained /\ ButtonOwned

(* What the replay button reads. *)
Labels == {"replay", "dispatching"}

LEMMA EmptyOnce == IsInjective(<<>>) /\ ToSet(<<>>) = {}
  BY DEF IsInjective, ToSet

LEMMA FetchFields ==
  /\ Idle \in Fetch /\ Idle.op = "idle" /\ Settled(Idle)
  /\ \A op \in {"load", "select", "delete", "clear", "replay", "reselect"},
        id \in Requests \cup {None}, label \in Labels :
       LET f == Sent(op, id, label) IN
       f \in Fetch /\ f.op = op /\ Settled(f)
  /\ \A id \in Requests \cup {None} :
       Select(id) \in Fetch /\ Select(id).op = "select" /\ Settled(Select(id))
  BY EmptyOnce DEF Idle, Fetch, Sent, Select, Labels, Settled

(* For steps that touch neither list, table nor stream. *)
LEMMA SameLists ==
  ASSUME Inv,
         UNCHANGED <<serverVars, stream, list, unstreamed, wiped, hidden, snapshot>>,
         \A s \in Slots : Settled(fetches'[s])
  PROVE  (Sound /\ Accounted /\ PendingOnce /\ DuplicatesExplained)'
  <1> USE DEF serverVars
  <1>1. Sound'
    BY DEF Inv, Sound
  <1>2. Accounted'
    BY DEF Inv, Accounted
  <1>3. PendingOnce'
    BY DEF Inv, PendingOnce, Pending, Single
  <1>4. DuplicatesExplained'
    BY DEF Inv, DuplicatesExplained
  <1> QED
    BY <1>1, <1>2, <1>3, <1>4

(* One fetch is replaced by another, or ends. *)
LEMMA OneFetch ==
  ASSUME Inv, NEW s \in Slots, NEW f \in Fetch, Settled(f),
         fetches' = [fetches EXCEPT ![s] = f]
  PROVE  /\ fetches' \in [Slots -> Fetch]
         /\ \A t \in Slots : Settled(fetches'[t])
         /\ fetches'[s] = f /\ \A t \in Slots : t # s => fetches'[t] = fetches[t]
  BY DEF Inv, TypeOK, Sound

LEMMA SameButton ==
  ASSUME ButtonOwned, button' = button, threw => threw',
         \A s \in Slots : fetches[s].op \in {"replay", "reselect"} =>
                            fetches'[s].op \in {"replay", "reselect"}
  PROVE  ButtonOwned'
  BY DEF ButtonOwned

LEMMA InitInv == Init => Inv
  <1> SUFFICES ASSUME Init PROVE Inv
    OBVIOUS
  <1>1. PICK s \in Slots :
          fetches = [t \in Slots |-> IF t = s THEN Sent("load", None, "replay") ELSE Idle]
    BY DEF Init
  <1>2. fetches \in [Slots -> Fetch] /\ \A t \in Slots : Settled(fetches[t])
    <2>1. Sent("load", None, "replay") \in Fetch /\ Settled(Sent("load", None, "replay"))
      BY FetchFields DEF Labels
    <2> QED
      BY <1>1, <2>1, FetchFields
  <1>3. TypeOK
    <2>1. /\ table \in Seq(Requests) /\ stream \in Seq(Requests) /\ list \in Seq(Requests)
          /\ capture \in [Requests -> {"new", "saved", "published"}]
      BY DEF Init
    <2>2. button \in [disabled : BOOLEAN, label : {"replay", "dispatching"}]
      BY DEF Init
    <2> QED
      BY <1>2, <2>1, <2>2 DEF Init, TypeOK
  <1>4. Sound
    BY <1>2, EmptyOnce DEF Init, Sound
  <1>5. Accounted /\ PendingOnce
    BY EmptyOnce DEF Init, Accounted, PendingOnce
  <1>6. DuplicatesExplained
    BY DEF Init, DuplicatesExplained
  <1>7. ButtonOwned
    BY DEF Init, ButtonOwned
  <1> QED
    BY <1>3, <1>4, <1>5, <1>6, <1>7 DEF Inv

-----------------------------------------------------------------------------
(* The server. *)

LEMMA SaveRowInv ==
  ASSUME Inv, NEW r \in Requests, SaveRow(r)
  PROVE  Inv'
  <1> USE DEF SaveRow, sseVars, pageVars, obsVars
  <1>1. table \in Seq(Requests) /\ IsInjective(table) /\ r \notin ToSet(table)
    BY DEF Inv, TypeOK, Sound
  <1>2. /\ table' \in Seq(Requests) /\ IsInjective(table')
        /\ ToSet(table') = ToSet(table) \cup {r}
    BY <1>1, Prepended
  <1>3. /\ capture' \in [Requests -> {"new", "saved", "published"}]
        /\ \A q \in Requests : capture'[q] = IF q = r THEN "saved" ELSE capture[q]
    BY DEF Inv, TypeOK
  <1>4. TypeOK'
    BY <1>2, <1>3 DEF Inv, TypeOK
  <1>5. ToSet(table) \subseteq Requests /\ ToSet(stream) \subseteq Requests
    BY DEF Inv, TypeOK, ToSet
  <1>6. Sound'
    BY <1>2, <1>3, <1>5 DEF Inv, Sound
  <1>7. Accounted'
    BY <1>3 DEF Inv, Accounted
  <1>8. \A q \in Requests : Pending(q)' => Pending(q)
    BY <1>3 DEF Pending
  <1>9. PendingOnce'
    BY <1>8 DEF Inv, PendingOnce, Single
  <1>10. DuplicatesExplained' /\ ButtonOwned'
    BY DEF Inv, DuplicatesExplained, ButtonOwned
  <1> QED
    BY <1>4, <1>6, <1>7, <1>9, <1>10 DEF Inv

LEMMA PublishInv ==
  ASSUME Inv, NEW r \in Requests, Publish(r)
  PROVE  Inv'
  <1> USE DEF Publish, pageVars
  <1>1. stream \in Seq(Requests) /\ IsInjective(stream) /\ r \notin ToSet(stream)
    BY DEF Inv, TypeOK, Sound
  <1>2. \/ /\ stream' \in Seq(Requests) /\ IsInjective(stream')
           /\ ToSet(stream') = ToSet(stream) \cup {r} /\ unstreamed' = unstreamed
        \/ stream' = stream /\ unstreamed' = unstreamed \cup {r}
    <2>1. /\ Append(stream, r) \in Seq(Requests) /\ IsInjective(Append(stream, r))
          /\ ToSet(Append(stream, r)) = ToSet(stream) \cup {r}
      BY <1>1, Appended
    <2> QED
      BY <2>1
  <1>3. /\ capture' \in [Requests -> {"new", "saved", "published"}]
        /\ \A q \in Requests : capture'[q] = IF q = r THEN "published" ELSE capture[q]
    BY DEF Inv, TypeOK
  <1>4. TypeOK'
    BY <1>1, <1>2, <1>3 DEF Inv, TypeOK
  <1>5. ToSet(table) \subseteq Requests /\ ToSet(stream) \subseteq Requests
    BY DEF Inv, TypeOK, ToSet
  <1>6. Sound'
    BY <1>1, <1>2, <1>3, <1>5 DEF Inv, Sound
  <1>7. Accounted'
    BY <1>2, <1>3 DEF Inv, Accounted
  <1>8. \A q \in Requests : Pending(q)' => Pending(q)
    BY <1>2, <1>3 DEF Inv, TypeOK, Pending
  <1>9. PendingOnce'
    BY <1>8 DEF Inv, PendingOnce, Single
  <1>10. DuplicatesExplained' /\ ButtonOwned'
    BY DEF Inv, DuplicatesExplained, ButtonOwned
  <1> QED
    BY <1>4, <1>6, <1>7, <1>9, <1>10 DEF Inv

(* Fewer rows, and nothing else. *)
LEMMA FewerRows ==
  ASSUME Inv, UNCHANGED <<capture, sseVars, pageVars, unstreamed, wiped, hidden, snapshot,
                          threw>>,
         due' \subseteq Requests,
         table' \in Seq(Requests), IsInjective(table'), ToSet(table') \subseteq ToSet(table),
         fetches' \in [Slots -> Fetch], \A s \in Slots : Settled(fetches'[s]),
         \A s \in Slots : fetches'[s].op = fetches[s].op
  PROVE  Inv'
  <1> USE DEF sseVars, pageVars
  <1>1. TypeOK'
    BY DEF Inv, TypeOK
  <1>2. Sound'
    BY DEF Inv, Sound
  <1>3. Accounted'
    BY DEF Inv, Accounted
  <1>4. PendingOnce'
    BY DEF Inv, PendingOnce, Pending, Single
  <1>5. DuplicatesExplained' /\ ButtonOwned'
    BY DEF Inv, DuplicatesExplained, ButtonOwned
  <1> QED
    BY <1>1, <1>2, <1>3, <1>4, <1>5 DEF Inv

LEMMA OtherDeleteInv ==
  ASSUME Inv, NEW r \in Requests, OtherDelete(r)
  PROVE  Inv'
  <1>1. table \in Seq(Requests) /\ IsInjective(table)
    BY DEF Inv, TypeOK, Sound
  <1>2. /\ table' \in Seq(Requests) /\ IsInjective(table')
        /\ ToSet(table') \subseteq ToSet(table)
    BY <1>1, RowDeleted DEF OtherDelete
  <1>3. /\ fetches' = fetches /\ fetches \in [Slots -> Fetch]
        /\ \A s \in Slots : Settled(fetches[s])
    BY DEF OtherDelete, Inv, TypeOK, Sound
  <1>4. due' \subseteq Requests /\ UNCHANGED obsVars
    BY DEF OtherDelete, Inv, TypeOK, obsVars
  <1> QED
    BY <1>2, <1>3, <1>4, FewerRows DEF OtherDelete, obsVars

LEMMA HandleInv ==
  ASSUME Inv, NEW s \in Slots, Handle(s)
  PROVE  Inv'
  <1> DEFINE f == fetches[s]
  <1>1. /\ f \in Fetch /\ table \in Seq(Requests) /\ IsInjective(table)
        /\ fetches \in [Slots -> Fetch] /\ Settled(f)
    BY DEF Inv, TypeOK, Sound
  <1>2. f.op \in {"load", "delete", "clear", "replay", "select", "reselect"}
    BY <1>1 DEF Handle, Settled, Fetch
  <1>3. /\ table' \in Seq(Requests) /\ IsInjective(table')
        /\ ToSet(table') \subseteq ToSet(table)
    <2>1. CASE f.op = "delete"
      BY <1>1, <2>1, RowDeleted DEF Handle
    <2>2. CASE f.op = "clear"
      BY <2>2, EmptyOnce DEF Handle
    <2>3. CASE f.op \in {"load", "replay", "select", "reselect"}
      <3>1. table' = table
        BY <2>3 DEF Handle
      <3> QED
        BY <1>1, <3>1
    <2> QED
      BY <1>2, <2>1, <2>2, <2>3
  <1>4. PICK stage \in {"ok", "failed"}, data \in {<<>>, Page} :
          fetches' = [fetches EXCEPT ![s].stage = stage, ![s].data = data]
    BY <1>2 DEF Handle
  <1> DEFINE g == [f EXCEPT !.stage = stage, !.data = data]
  <1>5. fetches' = [fetches EXCEPT ![s] = g]
    BY <1>1, <1>4
  <1>6. data \in Seq(Requests) /\ IsInjective(data)
    <2>1. CASE data = <<>>
      BY <2>1, EmptyOnce
    <2>2. CASE data = Page
      BY <1>1, <2>2, PageRows
    <2> QED
      BY <2>1, <2>2
  <1>7. g \in Fetch /\ g.op = f.op /\ Settled(g)
    BY <1>1, <1>2, <1>6 DEF Fetch, Settled
  <1> HIDE DEF g
  <1>8. /\ fetches' \in [Slots -> Fetch] /\ \A t \in Slots : Settled(fetches'[t])
        /\ \A t \in Slots : fetches'[t].op = fetches[t].op
    BY <1>5, <1>7, OneFetch
  <1>9. due' \subseteq Requests
    BY <1>1 DEF Handle, Inv, TypeOK
  <1> QED
    BY <1>3, <1>8, <1>9, FewerRows DEF Handle

LEMMA StreamOpensInv ==
  ASSUME Inv, StreamOpens
  PROVE  Inv'
  <1> USE DEF StreamOpens, pageVars, obsVars
  <1>1. TypeOK' /\ ButtonOwned'
    BY DEF Inv, TypeOK, ButtonOwned, serverVars
  <1>2. (Sound /\ Accounted /\ PendingOnce /\ DuplicatesExplained)'
    <2>1. \A s \in Slots : Settled(fetches'[s])
      BY DEF Inv, Sound
    <2> QED
      BY <2>1, SameLists
  <1> QED
    BY <1>1, <1>2 DEF Inv

LEMMA StreamLostInv ==
  ASSUME Inv, StreamLost
  PROVE  Inv'
  <1> USE DEF StreamLost, serverVars, pageVars
  <1>1. ToSet(stream) \subseteq Requests /\ <<>> \in Seq(Requests)
    BY DEF Inv, TypeOK, ToSet
  <1>2. TypeOK' /\ ButtonOwned'
    BY <1>1 DEF Inv, TypeOK, ButtonOwned
  <1>3. Sound'
    BY EmptyOnce DEF Inv, Sound
  <1>4. Accounted'
    BY EmptyOnce DEF Inv, Accounted
  <1>5. PendingOnce'
    BY EmptyOnce DEF Inv, PendingOnce, Pending, Single
  <1>6. DuplicatesExplained'
    BY DEF Inv, DuplicatesExplained
  <1> QED
    BY <1>2, <1>3, <1>4, <1>5, <1>6 DEF Inv

-----------------------------------------------------------------------------
(* Steps of the page that leave the list alone. *)

LEMMA FetchStep ==
  ASSUME Inv, NEW s \in Slots, NEW f \in Fetch, Settled(f),
         fetches' = [fetches EXCEPT ![s] = f],
         UNCHANGED <<serverVars, sseVars, list, unstreamed, wiped, hidden, snapshot>>,
         due' \in {due, {}},
         current' \in Requests \cup {None}, threw' \in BOOLEAN,
         button' \in [disabled : BOOLEAN, label : {"replay", "dispatching"}]
  PROVE  (TypeOK /\ Sound /\ Accounted /\ PendingOnce /\ DuplicatesExplained)'
  <1>1. fetches' \in [Slots -> Fetch] /\ \A t \in Slots : Settled(fetches'[t])
    BY OneFetch
  <1>2. (Sound /\ Accounted /\ PendingOnce /\ DuplicatesExplained)'
    BY <1>1, SameLists DEF sseVars
  <1>3. TypeOK'
    BY <1>1 DEF Inv, TypeOK, serverVars, sseVars
  <1> QED
    BY <1>2, <1>3

(* The same for a fetch that no button waits for. *)
LEMMA PlainFetchStep ==
  ASSUME Inv, NEW s \in Slots, NEW f \in Fetch, Settled(f),
         fetches' = [fetches EXCEPT ![s] = f],
         f.op = fetches[s].op \/ fetches[s].op \notin {"replay", "reselect"},
         UNCHANGED <<serverVars, sseVars, list, button, unstreamed, wiped, hidden,
                     snapshot, threw>>,
         due' \in {due, {}},
         current' \in Requests \cup {None}
  PROVE  Inv'
  <1>1. /\ threw' \in BOOLEAN
        /\ button' \in [disabled : BOOLEAN, label : {"replay", "dispatching"}]
    BY DEF Inv, TypeOK
  <1>2. (TypeOK /\ Sound /\ Accounted /\ PendingOnce /\ DuplicatesExplained)'
    BY <1>1, FetchStep
  <1>3. \A t \in Slots : fetches[t].op \in {"replay", "reselect"} =>
                           fetches'[t].op \in {"replay", "reselect"}
    BY OneFetch
  <1>4. ButtonOwned'
    BY <1>3, SameButton DEF Inv
  <1> QED
    BY <1>2, <1>4 DEF Inv

LEMMA FailInv ==
  ASSUME Inv, NEW s \in Slots, Fail(s)
  PROVE  Inv'
  <1> DEFINE f == fetches[s]
             g == [f EXCEPT !.stage = "failed", !.data = <<>>]
  <1>1. f \in Fetch /\ fetches \in [Slots -> Fetch] /\ Settled(f)
    BY DEF Inv, TypeOK, Sound
  <1>2. fetches' = [fetches EXCEPT ![s] = g]
    BY <1>1 DEF Fail
  <1>3. g \in Fetch /\ g.op = f.op /\ Settled(g)
    <2>1. f.op # "idle"
      BY <1>1 DEF Fail, Settled
    <2>2. <<>> \in Seq(Requests)
      OBVIOUS
    <2>3. g \in Fetch /\ g.op = f.op /\ g.data = <<>>
      BY <1>1, <2>2 DEF Fetch
    <2> QED
      BY <2>1, <2>3, EmptyOnce DEF Settled
  <1> HIDE DEF g
  <1>4. current \in Requests \cup {None}
    BY DEF Inv, TypeOK
  <1> QED
    BY <1>2, <1>3, <1>4, PlainFetchStep DEF Fail, pageVars, obsVars

LEMMA SelectDoneInv ==
  ASSUME Inv, NEW s \in Slots, SelectDone(s)
  PROVE  Inv'
  <1>1. current' \in Requests \cup {None}
    BY DEF Inv, TypeOK, Fetch, SelectDone
  <1>2. fetches' = [fetches EXCEPT ![s] = Idle] /\ fetches[s].op = "select"
    BY DEF SelectDone, Free, Answered
  <1> QED
    BY <1>1, <1>2, FetchFields, PlainFetchStep DEF SelectDone, obsVars

LEMMA DeleteDoneInv ==
  ASSUME Inv, NEW s \in Slots, DeleteDone(s)
  PROVE  Inv'
  <1>1. current \in Requests \cup {None}
    BY DEF Inv, TypeOK
  <1>2. fetches' = [fetches EXCEPT ![s] = Idle] /\ fetches[s].op = "delete"
    BY DEF DeleteDone, Free, Answered
  <1> QED
    BY <1>1, <1>2, FetchFields, PlainFetchStep DEF DeleteDone, pageVars, obsVars

LEMMA ClickInv ==
  ASSUME Inv, NEW s \in Slots, NEW r \in Requests, Click(s, r)
  PROVE  Inv'
  <1>1. current \in Requests \cup {None}
    BY DEF Inv, TypeOK
  <1>2. fetches[s].op = "idle"
    BY FetchFields DEF Click
  <1>3. Select(r) \in Fetch /\ Settled(Select(r))
    BY FetchFields
  <1> QED
    BY <1>1, <1>2, <1>3, PlainFetchStep DEF Click, pageVars, obsVars

LEMMA ClearClickInv ==
  ASSUME Inv, NEW s \in Slots, ClearClick(s)
  PROVE  Inv'
  <1>1. current \in Requests \cup {None}
    BY DEF Inv, TypeOK
  <1>2. fetches[s].op = "idle"
    BY FetchFields DEF ClearClick
  <1>3. Sent("clear", None, "replay") \in Fetch /\ Settled(Sent("clear", None, "replay"))
    BY FetchFields DEF Labels
  <1> QED
    BY <1>1, <1>2, <1>3, PlainFetchStep DEF ClearClick, pageVars, obsVars

(* The button is disabled by a click on it, goes on to be owned by the fetch
   that its continuation awaits, and is enabled when that is answered. *)
LEMMA ReplayClickInv ==
  ASSUME Inv, NEW s \in Slots, ReplayClick(s)
  PROVE  Inv'
  <1> DEFINE f == Sent("replay", current, button.label)
  <1>1. /\ current \in Requests \cup {None} /\ threw \in BOOLEAN
        /\ button \in [disabled : BOOLEAN, label : {"replay", "dispatching"}]
    BY DEF Inv, TypeOK
  <1>2. f \in Fetch /\ Settled(f) /\ f.op = "replay"
    BY <1>1, FetchFields DEF Labels
  <1> HIDE DEF f
  <1>3. /\ fetches' = [fetches EXCEPT ![s] = f]
        /\ button' = [disabled |-> TRUE, label |-> "dispatching"]
        /\ UNCHANGED <<serverVars, sseVars, list, current, obsVars>>
    BY DEF ReplayClick, f
  <1>4. (TypeOK /\ Sound /\ Accounted /\ PendingOnce /\ DuplicatesExplained)'
    BY <1>1, <1>2, <1>3, FetchStep DEF obsVars
  <1>5. ButtonOwned'
    BY <1>2, <1>3, OneFetch DEF ButtonOwned
  <1> QED
    BY <1>4, <1>5 DEF Inv

LEMMA ReplayDoneInv ==
  ASSUME Inv, NEW s \in Slots, ReplayDone(s)
  PROVE  Inv'
  <1> USE DEF ReplayDone, pageVars
  <1>1. /\ current \in Requests \cup {None} /\ threw \in BOOLEAN
        /\ button \in [disabled : BOOLEAN, label : {"replay", "dispatching"}]
        /\ fetches[s] \in Fetch
    BY DEF Inv, TypeOK
  <1>2. CASE current = None
    <2>1. fetches' = [fetches EXCEPT ![s] = Idle] /\ threw' = TRUE
      BY <1>2 DEF Free
    <2>2. (TypeOK /\ Sound /\ Accounted /\ PendingOnce /\ DuplicatesExplained)'
      BY <1>1, <2>1, FetchFields, FetchStep
    <2>3. ButtonOwned'
      BY <2>1 DEF ButtonOwned
    <2> QED
      BY <2>2, <2>3 DEF Inv
  <1>3. CASE current # None
    <2> DEFINE f == Sent("reselect", current, fetches[s].label)
    <2>1. f \in Fetch /\ Settled(f) /\ f.op = "reselect"
      BY <1>1, FetchFields DEF Fetch, Labels
    <2>2. fetches' = [fetches EXCEPT ![s] = f] /\ threw' = threw
      BY <1>3
    <2> HIDE DEF f
    <2>3. (TypeOK /\ Sound /\ Accounted /\ PendingOnce /\ DuplicatesExplained)'
      BY <1>1, <2>1, <2>2, FetchStep
    <2>4. \A t \in Slots : fetches[t].op \in {"replay", "reselect"} =>
                             fetches'[t].op \in {"replay", "reselect"}
      BY <2>1, <2>2, OneFetch
    <2>5. ButtonOwned'
      BY <2>2, <2>4, SameButton DEF Inv
    <2> QED
      BY <2>3, <2>5 DEF Inv
  <1> QED
    BY <1>2, <1>3

LEMMA ReselectDoneInv ==
  ASSUME Inv, NEW s \in Slots, ReselectDone(s)
  PROVE  Inv'
  <1> USE DEF ReselectDone, obsVars
  <1>1. /\ current \in Requests \cup {None} /\ threw \in BOOLEAN /\ fetches[s] \in Fetch
    BY DEF Inv, TypeOK
  <1>2. /\ current' \in Requests \cup {None}
        /\ button' \in [disabled : BOOLEAN, label : {"replay", "dispatching"}]
        /\ button'.disabled = FALSE
    BY <1>1 DEF Fetch
  <1>3. (TypeOK /\ Sound /\ Accounted /\ PendingOnce /\ DuplicatesExplained)'
    BY <1>1, <1>2, FetchFields, FetchStep DEF Free
  <1>4. ButtonOwned'
    BY <1>2 DEF ButtonOwned
  <1> QED
    BY <1>3, <1>4 DEF Inv
-----------------------------------------------------------------------------
(* Steps that change the list. *)

(* A list without repetition has nothing to explain. *)
LEMMA OnceNoDuplicates ==
  ASSUME NEW l \in Seq(Requests), IsInjective(l)
  PROVE  /\ \A i, j \in 1..Len(l) : l[i] = l[j] => i = j
         /\ \A r : Single(l, r)
  <1>1. DOMAIN l = 1..Len(l)
    OBVIOUS
  <1> QED
    BY <1>1 DEF IsInjective, Single

LEMMA LoadDoneInv ==
  ASSUME Inv, NEW s \in Slots, LoadDone(s)
  PROVE  Inv'
  <1> DEFINE data == fetches[s].data
  <1>1. /\ current \in Requests \cup {None} /\ threw \in BOOLEAN /\ fetches[s] \in Fetch
        /\ fetches \in [Slots -> Fetch] /\ list \in Seq(Requests)
        /\ button \in [disabled : BOOLEAN, label : {"replay", "dispatching"}]
        /\ Settled(fetches[s]) /\ fetches[s].op = "load"
    BY DEF Inv, TypeOK, Sound, LoadDone, Answered
  <1>2. data \in Seq(Requests) /\ IsInjective(data)
    BY <1>1 DEF Fetch, Settled
  <1>3. CASE fetches[s].stage = "ok"
    <2>1. /\ list' = data /\ snapshot' = ToSet(data)
          /\ wiped' = wiped \cup (ToSet(list) \ ToSet(data))
          /\ UNCHANGED <<serverVars, sseVars, current, button, unstreamed, hidden, due, threw>>
      BY <1>3 DEF LoadDone
    <2>2. PICK f \in Fetch : Settled(f) /\ fetches' = [fetches EXCEPT ![s] = f]
      <3>1. CASE data # <<>> /\ current = None
        <4>1. Head(data) \in Requests
          BY <1>2, <3>1
        <4> QED
          BY <1>3, <3>1, <4>1, FetchFields DEF LoadDone
      <3>2. CASE ~(data # <<>> /\ current = None)
        BY <1>3, <3>2, FetchFields DEF LoadDone, Free
      <3> QED
        BY <3>1, <3>2
    <2>3. /\ fetches' \in [Slots -> Fetch] /\ \A t \in Slots : Settled(fetches'[t])
          /\ \A t \in Slots : t # s => fetches'[t] = fetches[t]
      BY <2>2, OneFetch
    <2> HIDE DEF data
    <2>4. ToSet(list) \subseteq Requests /\ ToSet(data) \subseteq Requests
      BY <1>1, <1>2 DEF ToSet
    <2>5. TypeOK'
      BY <1>2, <2>1, <2>3, <2>4 DEF Inv, TypeOK, serverVars, sseVars
    <2>6. Sound'
      BY <2>1, <2>3 DEF Inv, Sound, serverVars, sseVars
    <2>7. Accounted'
      BY <2>1 DEF Inv, Accounted, serverVars, sseVars
    <2>8. PendingOnce'
      BY <1>2, <2>1, OnceNoDuplicates DEF PendingOnce
    <2>9. DuplicatesExplained'
      <3> SUFFICES ASSUME NEW i \in 1..Len(data), NEW j \in 1..Len(data),
                          i < j, data[i] = data[j]
                   PROVE  FALSE
        BY <2>1 DEF DuplicatesExplained
      <3>1. i = j
        BY <1>2, OnceNoDuplicates
      <3> QED
        BY <3>1
    <2>10. ButtonOwned'
      <3>1. \A t \in Slots : fetches[t].op \in {"replay", "reselect"} =>
                               fetches'[t].op \in {"replay", "reselect"}
        BY <1>1, <2>3
      <3> QED
        BY <2>1, <3>1, SameButton DEF Inv
    <2> QED
      BY <2>5, <2>6, <2>7, <2>8, <2>9, <2>10 DEF Inv
  <1>4. CASE fetches[s].stage # "ok"
    <2>1. /\ fetches' = [fetches EXCEPT ![s] = Idle]
          /\ UNCHANGED <<serverVars, sseVars, list, button, unstreamed, wiped, hidden,
                         snapshot, due, threw, current>>
      BY <1>4 DEF LoadDone, Free
    <2> QED
      BY <1>1, <2>1, FetchFields, PlainFetchStep
  <1> QED
    BY <1>3, <1>4

LEMMA ClearDoneInv ==
  ASSUME Inv, NEW s \in Slots, ClearDone(s)
  PROVE  Inv'
  <1> USE DEF ClearDone
  <1>1. /\ current \in Requests \cup {None} /\ list \in Seq(Requests)
        /\ fetches[s].op = "clear" /\ fetches' = [fetches EXCEPT ![s] = Idle]
    BY DEF Inv, TypeOK, Answered, Free
  <1>2. CASE fetches[s].stage = "ok"
    <2>1. /\ list' = <<>> /\ current' = None /\ wiped' = wiped \cup ToSet(list)
          /\ UNCHANGED <<serverVars, sseVars, button, unstreamed, hidden, snapshot, due,
                         threw>>
      BY <1>2
    <2>2. /\ fetches' \in [Slots -> Fetch] /\ \A t \in Slots : Settled(fetches'[t])
          /\ \A t \in Slots : t # s => fetches'[t] = fetches[t]
      BY <1>1, FetchFields, OneFetch
    <2>3. ToSet(list) \subseteq Requests
      BY <1>1 DEF ToSet
    <2>4. TypeOK'
      BY <2>1, <2>2, <2>3 DEF Inv, TypeOK, serverVars, sseVars
    <2>5. Sound'
      BY <2>1, <2>2 DEF Inv, Sound, serverVars, sseVars
    <2>6. Accounted'
      BY <2>1 DEF Inv, Accounted, serverVars, sseVars
    <2>7. PendingOnce'
      BY <2>1, EmptyOnce DEF PendingOnce
    <2>8. DuplicatesExplained'
      BY <2>1 DEF DuplicatesExplained
    <2>9. ButtonOwned'
      <3>1. \A t \in Slots : fetches[t].op \in {"replay", "reselect"} =>
                               fetches'[t].op \in {"replay", "reselect"}
        BY <1>1, <2>2
      <3> QED
        BY <2>1, <3>1, SameButton DEF Inv
    <2> QED
      BY <2>4, <2>5, <2>6, <2>7, <2>8, <2>9 DEF Inv
  <1>3. CASE fetches[s].stage # "ok"
    <2>1. UNCHANGED <<serverVars, sseVars, list, button, unstreamed, wiped, hidden,
                      snapshot, due, threw, current>>
      BY <1>3
    <2> QED
      BY <1>1, <2>1, FetchFields, PlainFetchStep
  <1> QED
    BY <1>2, <1>3
(* An event that comes to a list on which its webhook is at most once, and only
   because the snapshot had it. *)
LEMMA EventDuplicates ==
  ASSUME DuplicatesExplained, list \in Seq(Requests), NEW h \in Requests,
         list' = <<h>> \o list, snapshot' = snapshot,
         h \in ToSet(list) => h \in snapshot /\ Single(list, h)
  PROVE  DuplicatesExplained'
  <1>1. /\ list' \in Seq(Requests) /\ list'[1] = h
        /\ \A j \in 2..Len(list') : j - 1 \in 1..Len(list) /\ list'[j] = list[j - 1]
        /\ Len(list') \in Nat
    BY Prepended
  <1> SUFFICES ASSUME NEW i \in 1..Len(list'), NEW j \in 1..Len(list'),
                      i < j, list'[i] = list'[j]
               PROVE  /\ list'[i] \in snapshot
                      /\ \A k \in 1..Len(list') : list'[k] = list'[i] => k \in {i, j}
    BY DEF DuplicatesExplained
  <1>2. \A k \in 1..Len(list') : k = 1 \/ k \in 2..Len(list')
    BY <1>1
  <1>3. j \in 2..Len(list') /\ j - 1 \in 1..Len(list) /\ list'[j] = list[j - 1]
    BY <1>1
  <1>4. \A k \in 1..Len(list) : list[k] = h => k \in 1..Len(list) /\ h \in ToSet(list)
    BY DEF ToSet
  <1>5. CASE i = 1
    <2>1. list[j - 1] = h /\ h \in snapshot /\ Single(list, h)
      BY <1>1, <1>3, <1>4, <1>5
    <2>2. ASSUME NEW k \in 2..Len(list'), list'[k] = h PROVE k = j
      <3>1. k - 1 \in 1..Len(list) /\ list[k - 1] = h
        BY <1>1, <2>2
      <3>2. k - 1 = j - 1
        BY <1>3, <2>1, <3>1 DEF Single
      <3> QED
        BY <3>2
    <2> QED
      BY <1>1, <1>2, <1>5, <2>1, <2>2
  <1>6. CASE i # 1
    <2>1. i - 1 \in 1..Len(list) /\ list'[i] = list[i - 1] /\ i - 1 < j - 1
      BY <1>1, <1>2, <1>6
    <2>2. list[i - 1] = list[j - 1]
      BY <1>3, <2>1
    <2>3. /\ list[i - 1] \in snapshot
          /\ \A k \in 1..Len(list) : list[k] = list[i - 1] => k \in {i - 1, j - 1}
      BY <1>3, <2>1, <2>2 DEF DuplicatesExplained
    <2>4. list[i - 1] # h
      <3> SUFFICES ASSUME list[i - 1] = h PROVE FALSE
        OBVIOUS
      <3>1. Single(list, h)
        BY <1>4, <2>1
      <3>2. i - 1 = j - 1
        BY <1>3, <2>1, <2>2, <3>1 DEF Single
      <3> QED
        BY <2>1, <3>2
    <2>5. ASSUME NEW k \in 1..Len(list'), list'[k] = list'[i] PROVE k \in {i, j}
      <3>1. k \in 2..Len(list')
        BY <1>1, <1>2, <2>1, <2>4, <2>5
      <3>2. k - 1 \in 1..Len(list) /\ list[k - 1] = list[i - 1]
        BY <1>1, <2>1, <2>5, <3>1
      <3>3. k - 1 = i - 1 \/ k - 1 = j - 1
        BY <2>3, <3>2
      <3> QED
        BY <3>3
    <2> QED
      BY <2>1, <2>3, <2>5
  <1> QED
    BY <1>5, <1>6

LEMMA OnEventInv ==
  ASSUME Inv, OnEvent
  PROVE  Inv'
  <1> DEFINE h == Head(stream)
  <1>1. /\ stream \in Seq(Requests) /\ IsInjective(stream) /\ stream # <<>>
        /\ list \in Seq(Requests) /\ fetches \in [Slots -> Fetch]
        /\ \A r \in ToSet(stream) : capture[r] = "published"
    BY DEF Inv, TypeOK, Sound, OnEvent
  <1>2. /\ h \in Requests /\ h \in ToSet(stream)
        /\ Tail(stream) \in Seq(Requests) /\ IsInjective(Tail(stream))
        /\ ToSet(Tail(stream)) = ToSet(stream) \ {h}
    BY <1>1, Taken
  <1> HIDE DEF h
  <1>3. /\ list' = <<h>> \o list /\ stream' = Tail(stream)
        /\ UNCHANGED <<serverVars, sse, current, button, obsVars>>
    BY DEF OnEvent, h
  <1>4. /\ list' \in Seq(Requests) /\ ToSet(list') = ToSet(list) \cup {h}
        /\ \A r : r # h /\ Single(list, r) => Single(list', r)
    BY <1>1, <1>2, <1>3, Prepended
  <1>5. /\ fetches' \in [Slots -> Fetch] /\ \A t \in Slots : Settled(fetches'[t])
        /\ \A t \in Slots : fetches[t].op \in {"replay", "reselect"} =>
                              fetches'[t] = fetches[t]
    <2>1. CASE current = None
      <3>1. PICK s \in Slots : /\ fetches[s] = Idle
                               /\ fetches' = [fetches EXCEPT ![s] = Select(h)]
        BY <2>1 DEF OnEvent, h
      <3>2. Select(h) \in Fetch /\ Settled(Select(h)) /\ fetches[s].op = "idle"
        BY <1>2, <3>1, FetchFields
      <3> QED
        BY <3>1, <3>2, OneFetch
    <2>2. CASE current # None
      <3>1. fetches' = fetches
        BY <2>2 DEF OnEvent
      <3> QED
        BY <1>1, <3>1 DEF Inv, Sound
    <2> QED
      BY <2>1, <2>2
  <1>6. TypeOK'
    BY <1>2, <1>3, <1>4, <1>5 DEF Inv, TypeOK, serverVars, obsVars
  <1>7. Sound'
    BY <1>2, <1>3, <1>5 DEF Inv, Sound, serverVars
  <1>8. Accounted'
    BY <1>2, <1>3, <1>4 DEF Inv, Accounted, serverVars, obsVars
  <1>9. PendingOnce'
    <2> SUFFICES ASSUME NEW r \in Requests, Pending(r)', r \in ToSet(list')
                 PROVE  r \in snapshot /\ Single(list', r)
      BY <1>3 DEF PendingOnce, obsVars
    <2>1. Pending(r) /\ r # h
      BY <1>1, <1>2, <1>3 DEF Pending, serverVars
    <2>2. r \in snapshot /\ Single(list, r)
      BY <1>4, <2>1 DEF Inv, PendingOnce
    <2> QED
      BY <1>4, <2>1, <2>2
  <1>10. DuplicatesExplained'
    <2>1. h \in ToSet(list) => h \in snapshot /\ Single(list, h)
      BY <1>2 DEF Inv, PendingOnce, Pending
    <2> QED
      BY <1>1, <1>2, <1>3, <2>1, EventDuplicates DEF Inv, obsVars
  <1>11. ButtonOwned'
    BY <1>3, <1>5, SameButton DEF Inv, obsVars
  <1> QED
    BY <1>6, <1>7, <1>8, <1>9, <1>10, <1>11 DEF Inv

(* Taking an entry off makes no duplicates. *)
LEMMA RemovedDuplicates ==
  ASSUME DuplicatesExplained, list \in Seq(Requests), NEW n \in 1..Len(list),
         list' = RemoveAt(list, n), snapshot' = snapshot
  PROVE  DuplicatesExplained'
  <1> DEFINE f(j) == IF j < n THEN j ELSE j + 1
  <1>1. /\ Len(list') = Len(list) - 1 /\ Len(list) \in Nat
        /\ \A j \in 1..Len(list') : list'[j] = list[f(j)]
    <2> DEFINE rest == RemoveAt(list, n)
    <2>1. /\ Len(rest) = Len(list) - 1
          /\ \A j \in 1..(Len(list) - 1) : rest[j] = list[IF j < n THEN j ELSE j + 1]
      BY Removed
    <2>2. list' = rest /\ Len(list) \in Nat
      OBVIOUS
    <2> HIDE DEF rest
    <2> QED
      BY <2>1, <2>2
  <1>2. \A j \in 1..Len(list') : f(j) \in 1..Len(list)
    BY <1>1
  <1>3. \A j, k \in 1..Len(list') : (j < k => f(j) < f(k)) /\ (f(j) = f(k) => j = k)
    BY <1>1
  <1> HIDE DEF f
  <1> SUFFICES ASSUME NEW i \in 1..Len(list'), NEW j \in 1..Len(list'),
                      i < j, list'[i] = list'[j]
               PROVE  /\ list'[i] \in snapshot
                      /\ \A k \in 1..Len(list') : list'[k] = list'[i] => k \in {i, j}
    BY DEF DuplicatesExplained
  <1>4. f(i) < f(j) /\ list[f(i)] = list[f(j)]
    BY <1>1, <1>3
  <1>5. /\ list[f(i)] \in snapshot
        /\ \A k \in 1..Len(list) : list[k] = list[f(i)] => k \in {f(i), f(j)}
    BY <1>2, <1>4 DEF DuplicatesExplained
  <1> QED
    BY <1>1, <1>2, <1>3, <1>5

LEMMA DeleteClickInv ==
  ASSUME Inv, NEW s \in Slots, NEW t \in Slots, NEW r \in Requests, DeleteClick(s, t, r)
  PROVE  Inv'
  <1> DEFINE n    == First(list, r)
             rest == RemoveAt(list, n)
             next == rest[IF n <= Len(rest) THEN n ELSE Len(rest)]
  <1>1. /\ list \in Seq(Requests) /\ r \in ToSet(list) /\ fetches \in [Slots -> Fetch]
        /\ current \in Requests \cup {None} /\ fetches[s] = Idle
    BY DEF Inv, TypeOK, DeleteClick
  <1>2. n \in 1..Len(list) /\ list[n] = r
    BY <1>1, FirstFound
  <1> HIDE DEF n
  <1>3. /\ rest \in Seq(Requests)
        /\ ToSet(rest) \subseteq ToSet(list) /\ ToSet(list) \subseteq ToSet(rest) \cup {r}
        /\ \A x : Single(list, x) => Single(rest, x)
    BY <1>1, <1>2, Removed, RemovedEntries
  <1>4. rest # <<>> => next \in Requests
    <2> SUFFICES ASSUME rest # <<>> PROVE next \in Requests
      OBVIOUS
    <2> HIDE DEF rest
    <2>1. Len(rest) \in Nat /\ Len(rest) > 0
      BY <1>3
    <2>2. (IF n <= Len(rest) THEN n ELSE Len(rest)) \in 1..Len(rest)
      BY <1>2, <2>1
    <2> QED
      BY <1>3, <2>2
  <1>5. /\ list' = rest /\ hidden' = hidden \cup {r}
        /\ current' = (IF current = r /\ rest = <<>> THEN None ELSE current)
        /\ UNCHANGED <<serverVars, sseVars, button, unstreamed, wiped, snapshot, due, threw>>
    BY DEF DeleteClick, n, First
  <1>6. \/ fetches' = [fetches EXCEPT ![s] = Sent("delete", r, "replay")]
        \/ /\ rest # <<>> /\ fetches[t] = Idle
           /\ fetches' = [fetches EXCEPT ![s] = Sent("delete", r, "replay"),
                                         ![t] = Select(next)]
    BY DEF DeleteClick, n, First
  <1>7. DuplicatesExplained'
    BY <1>1, <1>2, <1>5, RemovedDuplicates DEF Inv
  <1> HIDE DEF rest, next
  <1>8. Sent("delete", r, "replay") \in Fetch /\ Settled(Sent("delete", r, "replay"))
    BY FetchFields DEF Labels
  <1>9. /\ fetches' \in [Slots -> Fetch] /\ \A u \in Slots : Settled(fetches'[u])
        /\ \A u \in Slots : fetches[u] # Idle => fetches'[u] = fetches[u]
    <2>1. CASE fetches' = [fetches EXCEPT ![s] = Sent("delete", r, "replay")]
      BY <1>1, <1>8, <2>1, OneFetch
    <2>2. CASE /\ rest # <<>> /\ fetches[t] = Idle
               /\ fetches' = [fetches EXCEPT ![s] = Sent("delete", r, "replay"),
                                             ![t] = Select(next)]
      <3>1. Select(next) \in Fetch /\ Settled(Select(next))
        BY <1>4, <2>2, FetchFields
      <3> QED
        BY <1>1, <1>8, <2>2, <3>1 DEF Inv, Sound
    <2> QED
      BY <1>6, <2>1, <2>2
  <1>10. TypeOK'
    BY <1>1, <1>3, <1>5, <1>9 DEF Inv, TypeOK, serverVars, sseVars
  <1>11. Sound'
    BY <1>5, <1>9 DEF Inv, Sound, serverVars, sseVars
  <1>12. Accounted'
    BY <1>3, <1>5 DEF Inv, Accounted, serverVars, sseVars
  <1>13. PendingOnce'
    BY <1>3, <1>5 DEF Inv, PendingOnce, Pending, serverVars, sseVars
  <1>14. ButtonOwned'
    <2>1. \A u \in Slots : fetches[u].op \in {"replay", "reselect"} =>
                             fetches'[u].op \in {"replay", "reselect"}
      BY <1>1, <1>9, FetchFields
    <2> QED
      BY <1>5, <2>1, SameButton DEF Inv
  <1> QED
    BY <1>7, <1>10, <1>11, <1>12, <1>13, <1>14 DEF Inv

-----------------------------------------------------------------------------
LEMMA NextInv == Inv /\ [Next]_vars => Inv'
  <1> SUFFICES ASSUME Inv, [Next]_vars PROVE Inv'
    OBVIOUS
  <1>1. ASSUME NEW r \in Requests, SaveRow(r) \/ Publish(r) \/ OtherDelete(r)
        PROVE  Inv'
    BY <1>1, SaveRowInv, PublishInv, OtherDeleteInv
  <1>2. CASE StreamOpens \/ StreamLost \/ OnEvent
    BY <1>2, StreamOpensInv, StreamLostInv, OnEventInv
  <1>3. ASSUME NEW s \in Slots,
               \/ Handle(s) \/ Fail(s)
               \/ LoadDone(s) \/ SelectDone(s) \/ DeleteDone(s)
               \/ ClearDone(s) \/ ReplayDone(s) \/ ReselectDone(s)
               \/ ClearClick(s) \/ ReplayClick(s)
        PROVE  Inv'
    BY <1>3, HandleInv, FailInv, LoadDoneInv, SelectDoneInv, DeleteDoneInv, ClearDoneInv,
       ReplayDoneInv, ReselectDoneInv, ClearClickInv, ReplayClickInv
  <1>4. ASSUME NEW s \in Slots, NEW r \in Requests, Click(s, r)
        PROVE  Inv'
    BY <1>4, ClickInv
  <1>5. ASSUME NEW s \in Slots, NEW t \in Slots, NEW r \in Requests, DeleteClick(s, t, r)
        PROVE  Inv'
    BY <1>5, DeleteClickInv
  <1>6. CASE UNCHANGED vars
    <2> USE <1>6 DEF vars, serverVars, sseVars, pageVars, obsVars
    <2>1. TypeOK' /\ ButtonOwned' /\ \A s \in Slots : Settled(fetches'[s])
      BY DEF Inv, TypeOK, Sound, ButtonOwned
    <2>2. (Sound /\ Accounted /\ PendingOnce /\ DuplicatesExplained)'
      BY <2>1, SameLists
    <2> QED
      BY <2>1, <2>2 DEF Inv
  <1> QED
    BY <1>1, <1>2, <1>3, <1>4, <1>5, <1>6 DEF Next

LEMMA InvHolds == Spec => []Inv
  BY InitInv, NextInv, PTL DEF Spec

-----------------------------------------------------------------------------
(* The load, of which there is one, and what it is to bring. *)
Load(s) == fetches[s].op = "load"

Loading ==
  /\ \A s, t \in Slots : Load(s) /\ Load(t) => s = t
  /\ \A s \in Slots : Load(s) =>
       due = {} \/ (fetches[s].stage = "ok" /\ due \subseteq ToSet(fetches[s].data))
  /\ due \subseteq snapshot \/ \E s \in Slots : Load(s)

(* Other fetches come and go. *)
LEMMA SameLoads ==
  ASSUME Loading, UNCHANGED <<due, snapshot>>,
         \A s \in Slots : Load(s) \/ Load(s)' => fetches'[s] = fetches[s]
  PROVE  Loading'
  BY DEF Loading, Load

(* One fetch changes, which is not the load before nor after. *)
LEMMA OtherFetch ==
  ASSUME Loading, Inv, NEW s \in Slots, NEW f, UNCHANGED <<due, snapshot>>,
         fetches' = [fetches EXCEPT ![s] = f], ~Load(s), f.op # "load"
  PROVE  Loading'
  <1>1. fetches \in [Slots -> Fetch]
    BY DEF Inv, TypeOK
  <1>2. \A t \in Slots : Load(t) \/ Load(t)' => fetches'[t] = fetches[t]
    BY <1>1 DEF Load
  <1> QED
    BY <1>2, SameLoads

LEMMA LoadingInit == Init => Loading
  <1> SUFFICES ASSUME Init PROVE Loading
    OBVIOUS
  <1>1. PICK s \in Slots :
          fetches = [t \in Slots |-> IF t = s THEN Sent("load", None, "replay") ELSE Idle]
    BY DEF Init
  <1> QED
    BY <1>1, FetchFields DEF Init, Loading, Load

LEMMA LoadHandled ==
  ASSUME Inv, Loading, NEW s \in Slots, Handle(s)
  PROVE  Loading'
  <1>1. /\ fetches \in [Slots -> Fetch] /\ Settled(fetches[s])
        /\ table \in Seq(Requests) /\ IsInjective(table)
    BY DEF Inv, TypeOK, Sound
  <1>2. \A t \in Slots : fetches'[t].op = fetches[t].op /\ (t # s => fetches'[t] = fetches[t])
    <2>1. fetches[s].op \in {"load", "delete", "clear", "replay", "select", "reselect"}
      BY <1>1 DEF Handle, Settled, Fetch, Inv, TypeOK
    <2>2. PICK stage, data :
            fetches' = [fetches EXCEPT ![s].stage = stage, ![s].data = data]
      BY <2>1 DEF Handle
    <2> QED
      BY <1>1, <2>2 DEF Fetch
  <1>3. CASE Load(s)
    <2>1. fetches'[s].stage = "ok" /\ fetches'[s].data = Page /\ due' = ToSet(Page)
      BY <1>1, <1>3, PageRows DEF Handle, Load, Fetch
    <2> QED
      BY <1>2, <1>3, <2>1 DEF Loading, Load
  <1>4. CASE ~Load(s)
    <2>1. \A t \in Slots : Load(t) \/ Load(t)' => fetches'[t] = fetches[t]
      BY <1>2, <1>4 DEF Load
    <2> QED
      BY <1>4, <2>1, SameLoads DEF Handle, Load
  <1> QED
    BY <1>3, <1>4

LEMMA LoadFails ==
  ASSUME Inv, Loading, NEW s \in Slots, Fail(s)
  PROVE  Loading'
  <1>1. fetches \in [Slots -> Fetch]
    BY DEF Inv, TypeOK
  <1>2. \A t \in Slots : fetches'[t].op = fetches[t].op /\ (t # s => fetches'[t] = fetches[t])
    BY <1>1 DEF Fail, Fetch
  <1>3. CASE Load(s)
    <2>1. due' = {} /\ \A t \in Slots : Load(t)' <=> Load(t)
      BY <1>2, <1>3 DEF Fail, Load
    <2> QED
      BY <1>3, <2>1 DEF Loading
  <1>4. CASE ~Load(s)
    <2>1. \A t \in Slots : Load(t) \/ Load(t)' => fetches'[t] = fetches[t]
      BY <1>2, <1>4 DEF Load
    <2> QED
      BY <1>4, <2>1, SameLoads DEF Fail, Load
  <1> QED
    BY <1>3, <1>4

LEMMA LoadEnds ==
  ASSUME Inv, Loading, NEW s \in Slots, LoadDone(s)
  PROVE  Loading'
  <1>1. fetches \in [Slots -> Fetch] /\ Load(s) /\ due' = due
    BY DEF Inv, TypeOK, LoadDone, Answered, Load
  <1>2. PICK f : fetches' = [fetches EXCEPT ![s] = f] /\ f.op # "load"
    <2>1. Select(Head(fetches[s].data)).op = "select"
      BY DEF Select, Sent
    <2> QED
      BY <2>1, FetchFields DEF LoadDone, Free
  <1>3. \A t \in Slots : ~Load(t)'
    BY <1>1, <1>2 DEF Loading, Load
  <1>4. due \subseteq snapshot'
    <2>1. CASE fetches[s].stage = "ok"
      BY <1>1, <2>1 DEF LoadDone, Loading
    <2>2. CASE fetches[s].stage # "ok"
      BY <1>1, <2>2 DEF LoadDone, Loading
    <2> QED
      BY <2>1, <2>2
  <1> QED
    BY <1>1, <1>3, <1>4 DEF Loading

LEMMA LoadingNext == Inv /\ Loading /\ [Next]_vars => Loading'
  <1> SUFFICES ASSUME Inv, Loading, [Next]_vars PROVE Loading'
    OBVIOUS
  <1> USE DEF obsVars
  <1>1. CASE \/ \E r \in Requests : SaveRow(r) \/ Publish(r) \/ OtherDelete(r)
             \/ StreamOpens \/ StreamLost
             \/ UNCHANGED vars
    <2>1. UNCHANGED <<due, snapshot, fetches>>
      BY <1>1 DEF SaveRow, Publish, OtherDelete, StreamOpens, StreamLost, vars
    <2> QED
      BY <2>1, SameLoads DEF Load
  <1>2. ASSUME NEW s \in Slots, Handle(s) \/ Fail(s) \/ LoadDone(s)
        PROVE  Loading'
    BY <1>2, LoadHandled, LoadFails, LoadEnds
  <1>3. ASSUME NEW s \in Slots,
               SelectDone(s) \/ DeleteDone(s) \/ ClearDone(s) \/ ReselectDone(s)
        PROVE  Loading'
    <2>1. fetches' = [fetches EXCEPT ![s] = Idle] /\ ~Load(s) /\ UNCHANGED <<due, snapshot>>
      BY <1>3 DEF SelectDone, DeleteDone, ClearDone, ReselectDone, Answered, Free, Load
    <2> QED
      BY <2>1, FetchFields, OtherFetch
  <1>4. ASSUME NEW s \in Slots, ReplayDone(s)
        PROVE  Loading'
    <2>1. ~Load(s) /\ UNCHANGED <<due, snapshot>>
      BY <1>4 DEF ReplayDone, Answered, Load
    <2>2. PICK f : fetches' = [fetches EXCEPT ![s] = f] /\ f.op # "load"
      <3>1. Sent("reselect", current, fetches[s].label).op = "reselect"
        BY DEF Sent
      <3> QED
        BY <1>4, <3>1, FetchFields DEF ReplayDone, Free
    <2> QED
      BY <2>1, <2>2, OtherFetch
  <1>5. ASSUME NEW s \in Slots,
               \/ ClearClick(s) \/ ReplayClick(s)
               \/ \E r \in Requests : Click(s, r)
        PROVE  Loading'
    <2>1. fetches[s] = Idle /\ UNCHANGED <<due, snapshot>>
      BY <1>5 DEF ClearClick, ReplayClick, Click
    <2>2. PICK f : fetches' = [fetches EXCEPT ![s] = f] /\ f.op # "load"
      <3>1. \A op, id, label : Sent(op, id, label).op = op
        BY DEF Sent
      <3> QED
        BY <1>5, <3>1 DEF ClearClick, ReplayClick, Click, Select
    <2> QED
      BY <2>1, <2>2, FetchFields, OtherFetch DEF Load
  <1>6. CASE OnEvent
    <2>1. UNCHANGED <<due, snapshot>>
      BY <1>6 DEF OnEvent
    <2>2. CASE current = None
      <3>1. PICK s \in Slots : /\ fetches[s] = Idle
                               /\ fetches' = [fetches EXCEPT ![s] = Select(Head(stream))]
        BY <1>6, <2>2 DEF OnEvent
      <3>2. Select(Head(stream)).op = "select"
        BY DEF Select, Sent
      <3> QED
        BY <2>1, <3>1, <3>2, FetchFields, OtherFetch DEF Load
    <2>3. CASE current # None
      BY <1>6, <2>1, <2>3, SameLoads DEF OnEvent, Load
    <2> QED
      BY <2>2, <2>3
  <1>7. ASSUME NEW s \in Slots, NEW t \in Slots, NEW r \in Requests, DeleteClick(s, t, r)
        PROVE  Loading'
    <2>1. /\ fetches \in [Slots -> Fetch] /\ fetches[s] = Idle /\ UNCHANGED <<due, snapshot>>
      BY <1>7 DEF Inv, TypeOK, DeleteClick
    <2>2. PICK f, g : /\ f.op # "load" /\ g.op # "load"
                      /\ \/ fetches' = [fetches EXCEPT ![s] = f]
                         \/ fetches' = [fetches EXCEPT ![s] = f, ![t] = g] /\ fetches[t] = Idle
      <3>1. \A op, id, label : Sent(op, id, label).op = op
        BY DEF Sent
      <3> QED
        BY <1>7, <3>1 DEF DeleteClick, Select
    <2>3. \A u \in Slots : Load(u) \/ Load(u)' => fetches'[u] = fetches[u]
      BY <2>1, <2>2, FetchFields DEF Load
    <2> QED
      BY <2>1, <2>3, SameLoads
  <1> QED
    BY <1>1, <1>2, <1>3, <1>4, <1>5, <1>6, <1>7 DEF Next

LEMMA LoadingHolds == Spec => []Loading
  BY LoadingInit, LoadingNext, InvHolds, PTL DEF Spec

(* The variables keep their types, whatever order answers and events come in. *)
THEOREM DashboardTypes == Spec => []TypeOK
  <1>1. Inv => TypeOK
    BY DEF Inv
  <1> QED
    BY <1>1, InvHolds, PTL

(* Once all is quiet, a webhook in the table is on the list, unless its event did
   not reach the page and it was not among the newest rows that the load brought,
   or it was taken off the list by an answer or by the user (app.js:9-19, 86-99,
   server.go:56). *)
THEOREM MissingAreExplained == Spec => []MissingExplained
  <1>1. ASSUME Inv, Loading, Quiet, NEW r \in ToSet(table)
        PROVE  r \in ToSet(list) \cup (unstreamed \ due) \cup wiped \cup hidden
    <2>1. r \in Requests /\ capture[r] # "new"
      BY <1>1 DEF Inv, TypeOK, Sound, ToSet
    <2>2. capture[r] = "published"
      BY <1>1, <2>1 DEF Inv, TypeOK, Quiet
    <2>3. ToSet(stream) = {}
      BY <1>1, EmptyOnce DEF Quiet
    <2>4. due \subseteq snapshot
      BY <1>1, FetchFields DEF Loading, Load, Quiet
    <2> QED
      BY <1>1, <2>1, <2>2, <2>3, <2>4 DEF Inv, Accounted
  <1>2. Inv /\ Loading => MissingExplained
    BY <1>1 DEF MissingExplained
  <1> QED
    BY <1>2, InvHolds, LoadingHolds, PTL

(* A webhook is listed twice only if loadRequests was given it and its event came
   later, and never three times, in any order of events, answers and deletions. *)
THEOREM DuplicatesAreExplained == Spec => []DuplicatesExplained
  <1>1. Inv => DuplicatesExplained
    BY DEF Inv
  <1> QED
    BY <1>1, InvHolds, PTL

(* A disabled replay button has a continuation to come that enables it, unless the
   inspected webhook was removed from under it (app.js:384-407). *)
THEOREM ButtonIsOwned == Spec => []ButtonOwned
  <1>1. Inv => ButtonOwned
    BY DEF Inv
  <1> QED
    BY <1>1, InvHolds, PTL
=============================================================================
