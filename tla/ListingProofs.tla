--------------------------- MODULE ListingProofs ---------------------------
(***************************************************************************)
(* Proofs about Timestamps and Listing, for any number of digits, webhooks,*)
(* calls and page size: the way through the created_at column loses        *)
(* nothing of a time, and its order as text is the order of time but for   *)
(* the times of one second of which one continues the other.               *)
(***************************************************************************)
EXTENDS Listing, WellFoundedInduction, TLAPS

-----------------------------------------------------------------------------
(* Texts of times. *)

(* A set of numbers has a least one. *)
LEMMA Least ==
  ASSUME NEW T \in SUBSET Nat, T # {}
  PROVE  \E m \in T : \A n \in T : m <= n
  <1>1. PICK m \in T : \A n \in T : <<n, m>> \notin OpToRel(<, Nat)
    BY WFMin, NatLessThanWellFounded
  <1>2. \A n \in T : n \in Nat /\ m \in Nat /\ ~(n < m)
    BY <1>1 DEF OpToRel
  <1>3. \A n \in T : m <= n
    BY <1>2
  <1> QED
    BY <1>3

Fraction == [1..Width -> Digits]

(* Digits are numbers, and there is always a number of them to keep. *)
LEMMA KeptDigits ==
  ASSUME NEW f \in Fraction
  PROVE  /\ IsKept(f, Kept(f))
         /\ Kept(f) \in 0..Width
         /\ \A i \in 1..Width : f[i] \in 0..9
  <1> USE TimestampsAssumption
  <1> DEFINE T == {n \in 0..Width : \A i \in 1..Width : i > n => f[i] = 0}
  <1>1. \A i \in 1..Width : f[i] \in 0..9
    BY DEF Fraction
  <1>2. Width \in T
    OBVIOUS
  <1>3. PICK m \in T : \A n \in T : m <= n
    <2>1. T \in SUBSET Nat /\ T # {}
      BY <1>2
    <2> HIDE DEF T
    <2> QED
      BY <2>1, Least
  <1>4. m > 0 => f[m] # 0
    <2> SUFFICES ASSUME m > 0, f[m] = 0 PROVE FALSE
      OBVIOUS
    <2>1. m - 1 \in 0..Width /\ \A i \in 1..Width : i > m - 1 => i = m \/ i > m
      OBVIOUS
    <2>2. m - 1 \in T
      BY <2>1
    <2> QED
      BY <1>3, <2>2
  <1>5. IsKept(f, m)
    BY <1>4 DEF IsKept
  <1> QED
    BY <1>1, <1>5 DEF Kept, IsKept

(* The text of a time, byte by byte. *)
LEMMA TextOf ==
  ASSUME NEW t \in Instant
  PROVE  LET s == Format(t)
             n == Kept(t.frac)
         IN  /\ s \in Seq(Nat)
             /\ Len(s) = (IF n = 0 THEN 2 ELSE n + 3)
             /\ s[1] = t.sec
             /\ n > 0 => s[2] = Point
             /\ \A i \in 1..n : s[i + 2] = 48 + t.frac[i]
  <1> USE TimestampsAssumption
  <1> DEFINE n == Kept(t.frac)
             last == IF n = 0 THEN 2 ELSE n + 3
             Byte(i) == IF i = 1 THEN t.sec
                        ELSE IF i = last THEN Zulu
                        ELSE IF i = 2 THEN Point
                        ELSE Digit(t.frac[i - 2])
  <1>1. t.sec \in Nat /\ t.frac \in Fraction
    BY DEF Instant, Fraction
  <1>2. n \in 0..Width /\ \A i \in 1..Width : t.frac[i] \in 0..9
    BY <1>1, KeptDigits
  <1>3. last \in Nat /\ last >= 2
    BY <1>2
  <1>4. Format(t) = [i \in 1..last |-> Byte(i)]
    BY DEF Format
  <1>5. ASSUME NEW i \in 1..last PROVE Byte(i) \in Nat
    <2>1. CASE i = 1 \/ i = last \/ i = 2
      BY <1>1, <2>1 DEF Zulu, Point
    <2>2. CASE i # 1 /\ i # last /\ i # 2
      <3>1. i - 2 \in 1..Width
        BY <1>2, <2>2
      <3>2. t.frac[i - 2] \in 0..9
        BY <1>2, <3>1
      <3> QED
        BY <2>2, <3>2 DEF Digit
    <2> QED
      BY <2>1, <2>2
  <1>6. \A i \in 1..n : i + 2 \in 1..last /\ i + 2 # 1 /\ i + 2 # last /\ i + 2 # 2
                        /\ (i + 2) - 2 = i
    BY <1>2
  <1>7. \A i \in 1..n : Byte(i + 2) = 48 + t.frac[i]
    BY <1>6 DEF Digit
  <1>8. Byte(1) = t.sec /\ (n > 0 => Byte(2) = Point)
    BY <1>2
  <1> HIDE DEF Byte, last, n
  <1>9. /\ Format(t) \in Seq(Nat) /\ Len(Format(t)) = last
        /\ \A i \in 1..last : Format(t)[i] = Byte(i)
    BY <1>3, <1>4, <1>5
  <1>10. \A i \in 1..n : Format(t)[i + 2] = 48 + t.frac[i]
    BY <1>6, <1>7, <1>9
  <1>11. Format(t)[1] = t.sec /\ (n > 0 => Format(t)[2] = Point)
    BY <1>3, <1>8, <1>9
  <1> QED
    BY <1>9, <1>10, <1>11 DEF last, n

(* Parse undoes Format: a time comes back as it was written, to the last digit
   (sqlite.go:97, 187-191). *)
THEOREM TimeRoundTrip ==
  ASSUME NEW t \in Instant
  PROVE  Parse(Format(t)) = t
  <1> USE TimestampsAssumption
  <1> DEFINE n == Kept(t.frac)
             s == Format(t)
  <1>1. t.sec \in Nat /\ t.frac \in Fraction
    BY DEF Instant, Fraction
  <1>2. /\ n \in 0..Width
        /\ \A i \in 1..Width : t.frac[i] \in 0..9
        /\ \A i \in 1..Width : i > n => t.frac[i] = 0
    BY <1>1, KeptDigits DEF IsKept
  <1>3. /\ Len(s) = (IF n = 0 THEN 2 ELSE n + 3) /\ s[1] = t.sec
        /\ \A i \in 1..n : s[i + 2] = 48 + t.frac[i]
    BY TextOf
  <1> HIDE DEF n, s
  <1>4. ASSUME NEW i \in 1..Width
        PROVE  (IF i + 2 < Len(s) THEN s[i + 2] - 48 ELSE 0) = t.frac[i]
    <2>1. CASE i <= n
      <3>1. i \in 1..n /\ n > 0 /\ i + 2 < n + 3
        BY <1>2, <2>1
      <3>2. i + 2 < Len(s) /\ s[i + 2] = 48 + t.frac[i]
        BY <1>3, <3>1
      <3>3. t.frac[i] \in 0..9
        BY <1>2
      <3> QED
        BY <3>2, <3>3
    <2>2. CASE i > n
      <3>1. ~(i + 2 < Len(s)) /\ t.frac[i] = 0
        BY <1>2, <1>3, <2>2
      <3> QED
        BY <3>1
    <2> QED
      BY <1>2, <2>1, <2>2
  <1>5. [i \in 1..Width |-> IF i + 2 < Len(s) THEN s[i + 2] - 48 ELSE 0] = t.frac
    BY <1>1, <1>4 DEF Fraction
  <1>6. Parse(s) = [sec |-> t.sec, frac |-> t.frac]
    BY <1>3, <1>5 DEF Parse
  <1> QED
    BY <1>6 DEF Instant, s

(* A text that does not come before another is not of an earlier second. *)
LEMMA SecondOrder ==
  ASSUME NEW a \in Instant, NEW b \in Instant, ~TextLess(Format(a), Format(b))
  PROVE  b.sec <= a.sec
  <1>1. a.sec \in Nat /\ b.sec \in Nat
    BY DEF Instant
  <1>2. Format(a)[1] = a.sec /\ Format(b)[1] = b.sec
    BY TextOf
  <1>3. Len(Format(b)) \in Nat /\ Len(Format(b)) >= 2
    <2>1. b.frac \in Fraction
      BY DEF Instant, Fraction
    <2>2. Kept(b.frac) \in Nat
      BY <2>1, KeptDigits, TimestampsAssumption
    <2>3. Len(Format(b)) = (IF Kept(b.frac) = 0 THEN 2 ELSE Kept(b.frac) + 3)
      BY TextOf
    <2> QED
      BY <2>2, <2>3
  <1>4. 1 \in 1..Len(Format(b)) /\ 1..(1 - 1) = {}
    BY <1>3
  <1>5. ~(Format(a)[1] < Format(b)[1])
    BY <1>4 DEF TextLess
  <1> QED
    BY <1>1, <1>2, <1>5

(* The order of the texts is the order of the times, unless the later time
   continues the digits of the earlier, of the same second (sqlite.go:97, 156). *)
THEOREM TextOrder ==
  ASSUME NEW a \in Instant, NEW b \in Instant, Earlier(a, b),
         ~TextLess(Format(a), Format(b))
  PROVE  Continues(a, b)
  <1> USE TimestampsAssumption
  <1> DEFINE m == Kept(a.frac)
             n == Kept(b.frac)
             s == Format(a)
             t == Format(b)
  <1>1. /\ a.sec \in Nat /\ a.frac \in Fraction
        /\ b.sec \in Nat /\ b.frac \in Fraction
    BY DEF Instant, Fraction
  <1>2. a.sec = b.sec
    BY <1>1, SecondOrder DEF Earlier
  <1>3. /\ m \in 0..Width /\ n \in 0..Width
        /\ \A i \in 1..Width : a.frac[i] \in 0..9 /\ b.frac[i] \in 0..9
        /\ \A i \in 1..Width : i > n => b.frac[i] = 0
    BY <1>1, KeptDigits DEF IsKept
  <1>4. /\ Len(s) = (IF m = 0 THEN 2 ELSE m + 3) /\ s[1] = a.sec
        /\ m > 0 => s[2] = Point
        /\ \A i \in 1..m : s[i + 2] = 48 + a.frac[i]
    BY TextOf
  <1>5. /\ Len(t) = (IF n = 0 THEN 2 ELSE n + 3) /\ t[1] = b.sec
        /\ n > 0 => t[2] = Point
        /\ \A i \in 1..n : t[i + 2] = 48 + b.frac[i]
    BY TextOf
  <1>6. PICK i \in 1..Width : /\ a.frac[i] < b.frac[i]
                              /\ \A j \in 1..Width : j < i => a.frac[j] = b.frac[j]
    BY <1>1, <1>2 DEF Earlier
  <1>7. i <= n
    BY <1>3, <1>6
  <1>8. ~TextLess(s, t)
    OBVIOUS
  <1> HIDE DEF m, n, s, t
  <1>9. ~(i <= m)
    <2> SUFFICES ASSUME i <= m PROVE FALSE
      OBVIOUS
    <2>1. i + 2 \in 1..Len(t) /\ i \in 1..m /\ i \in 1..n
      BY <1>3, <1>5, <1>7
    <2>2. s[i + 2] < t[i + 2]
      <3>1. s[i + 2] = 48 + a.frac[i] /\ t[i + 2] = 48 + b.frac[i]
        BY <1>4, <1>5, <2>1
      <3>2. a.frac[i] \in 0..9 /\ b.frac[i] \in 0..9 /\ a.frac[i] < b.frac[i]
        BY <1>3, <1>6
      <3> QED
        BY <3>1, <3>2
    <2>3. ASSUME NEW j \in 1..((i + 2) - 1)
          PROVE  j <= Len(s) /\ s[j] = t[j]
      <3>1. j <= Len(s)
        BY <1>3, <1>4
      <3>2. CASE j = 1
        BY <1>2, <1>4, <1>5, <3>1, <3>2
      <3>3. CASE j = 2
        BY <1>3, <1>4, <1>5, <1>7, <3>1, <3>3
      <3>4. CASE j > 2
        <4> DEFINE k == j - 2
        <4>1. k \in 1..Width /\ k < i /\ k \in 1..m /\ k \in 1..n /\ k + 2 = j
          BY <1>3, <1>7, <3>4
        <4>2. s[k + 2] = 48 + a.frac[k] /\ t[k + 2] = 48 + b.frac[k]
          BY <1>4, <1>5, <4>1
        <4>3. a.frac[k] = b.frac[k]
          BY <1>6, <4>1
        <4> QED
          BY <3>1, <4>1, <4>2, <4>3
      <3> QED
        BY <3>2, <3>3, <3>4
    <2>4. TextLess(s, t)
      BY <2>1, <2>2, <2>3 DEF TextLess
    <2> QED
      BY <1>8, <2>4
  <1>10. \A j \in 1..m : a.frac[j] = b.frac[j]
    BY <1>3, <1>6, <1>9
  <1> QED
    BY <1>2, <1>10 DEF Continues, m
-----------------------------------------------------------------------------
(* The inductive invariant. *)

(* What has been saved is in the table or was deleted, under its own time. *)
Saved ==
  /\ rows \cup erased = {r \in Requests : capture[r] \in {"saved", "answered"}}
  /\ \A r \in rows \cup erased : created[r] = Format(stamp[r])

(* Pages, and what was answered before them, are of saved webhooks. *)
Paged ==
  \A l \in Lists : /\ Elements(page[l]) \subseteq rows \cup erased
                   /\ known[l] \subseteq rows \cup erased

Inv == TypeOK /\ Saved /\ Paged /\ MisorderExplained /\ AnsweredListed /\ TimesExact

LEMMA ZeroTime == Zero \in Instant
  BY TimestampsAssumption DEF Zero, Instant

LEMMA InitInv == Init => Inv
  <1> SUFFICES ASSUME Init PROVE Inv
    OBVIOUS
  <1> USE DEF Init
  <1>1. TypeOK
    BY ZeroTime, ListingAssumption DEF TypeOK
  <1>2. Saved /\ Paged
    BY DEF Saved, Paged, Elements
  <1>3. MisorderExplained
    BY DEF MisorderExplained
  <1>4. AnsweredListed
    BY DEF AnsweredListed
  <1>5. TimesExact
    <2>1. [i \in 1..0 |-> stamp[<<>>[i]]] = <<>>
      OBVIOUS
    <2> QED
      BY <2>1 DEF TimesExact
  <1> QED
    BY <1>1, <1>2, <1>3, <1>4, <1>5 DEF Inv

(* Pages stay as true as they were when nobody of theirs is changed. *)
LEMMA SamePages ==
  ASSUME Inv, UNCHANGED <<page, times, known>>, rows \cup erased \subseteq rows' \cup erased',
         \A r \in rows \cup erased : stamp'[r] = stamp[r], erased \subseteq erased',
         \A l \in Lists : call'[l] = "done" => call[l] = "done"
  PROVE  (Paged /\ MisorderExplained /\ AnsweredListed /\ TimesExact)'
  <1>1. ASSUME NEW l \in Lists
        PROVE  /\ page[l] \in Seq(Requests)
               /\ \A i \in 1..Len(page[l]) : page[l][i] \in rows \cup erased
               /\ known[l] \subseteq rows \cup erased
    BY DEF Inv, TypeOK, Paged, Elements
  <1>2. \A l \in Lists : \A i \in 1..Len(page[l]) :
          stamp'[page[l][i]] = stamp[page[l][i]]
    BY <1>1
  <1>3. Paged'
    BY DEF Inv, Paged, Elements
  <1>4. MisorderExplained'
    BY <1>2 DEF Inv, MisorderExplained
  <1>5. TimesExact'
    BY <1>2 DEF Inv, TimesExact
  <1>6. AnsweredListed'
    <2> SUFFICES ASSUME NEW l \in Lists, call[l] = "done", NEW r \in known[l] \ erased
                 PROVE  \/ r \in Elements(page[l])
                        \/ /\ Len(page[l]) = Limit
                           /\ \A i \in 1..Limit : stamp'[page[l][i]].sec >= stamp'[r].sec
      BY DEF AnsweredListed, Elements
    <2>1. stamp'[r] = stamp[r]
      BY <1>1
    <2> QED
      BY <1>2, <2>1 DEF Inv, AnsweredListed
  <1> QED
    BY <1>3, <1>4, <1>5, <1>6
-----------------------------------------------------------------------------
(* Captures and deletions. *)

LEMMA TickInv ==
  ASSUME Inv, Tick
  PROVE  Inv'
  <1> USE DEF Tick, captureVars, listVars
  <1>0. clock' \in Instant
    BY ListingAssumption DEF Instant
  <1>1. TypeOK'
    BY <1>0 DEF Inv, TypeOK
  <1>2. Saved'
    BY DEF Inv, Saved
  <1>3. (Paged /\ MisorderExplained /\ AnsweredListed /\ TimesExact)'
    BY SamePages
  <1> QED
    BY <1>1, <1>2, <1>3 DEF Inv

LEMMA BuildRecordInv ==
  ASSUME Inv, NEW r \in Requests, BuildRecord(r)
  PROVE  Inv'
  <1> USE DEF BuildRecord, listVars
  <1>1. TypeOK'
    BY DEF Inv, TypeOK
  <1>2. /\ {q \in Requests : capture'[q] \in {"saved", "answered"}}
             = {q \in Requests : capture[q] \in {"saved", "answered"}}
        /\ r \notin rows \cup erased
    BY DEF Inv, TypeOK, Saved
  <1>3. \A q \in rows \cup erased : stamp'[q] = stamp[q]
    BY <1>2 DEF Inv, TypeOK
  <1>4. Saved'
    BY <1>2, <1>3 DEF Inv, Saved
  <1>5. (Paged /\ MisorderExplained /\ AnsweredListed /\ TimesExact)'
    BY <1>3, SamePages
  <1> QED
    BY <1>1, <1>4, <1>5 DEF Inv

LEMMA SaveInv ==
  ASSUME Inv, NEW r \in Requests, Save(r)
  PROVE  Inv'
  <1> USE DEF Save, listVars
  <1>1. Format(stamp[r]) \in Seq(Nat)
    BY TextOf DEF Inv, TypeOK
  <1>2. TypeOK'
    BY <1>1 DEF Inv, TypeOK
  <1>3. /\ {q \in Requests : capture'[q] \in {"saved", "answered"}}
             = {q \in Requests : capture[q] \in {"saved", "answered"}} \cup {r}
        /\ r \notin rows \cup erased
    BY DEF Inv, TypeOK, Saved
  <1>4. rows' \cup erased' = rows \cup erased \cup {r}
    OBVIOUS
  <1>5. \A q \in rows \cup erased \cup {r} : created'[q] = Format(stamp[q])
    BY <1>3 DEF Inv, TypeOK, Saved
  <1>6. Saved'
    BY <1>3, <1>4, <1>5 DEF Inv, Saved
  <1>7. (Paged /\ MisorderExplained /\ AnsweredListed /\ TimesExact)'
    BY <1>4, SamePages
  <1> QED
    BY <1>2, <1>6, <1>7 DEF Inv

LEMMA RespondInv ==
  ASSUME Inv, NEW r \in Requests, Respond(r)
  PROVE  Inv'
  <1> USE DEF Respond, listVars
  <1>1. TypeOK'
    BY DEF Inv, TypeOK
  <1>2. {q \in Requests : capture'[q] \in {"saved", "answered"}}
          = {q \in Requests : capture[q] \in {"saved", "answered"}}
    BY DEF Inv, TypeOK
  <1>3. Saved'
    BY <1>2 DEF Inv, Saved
  <1>4. (Paged /\ MisorderExplained /\ AnsweredListed /\ TimesExact)'
    BY SamePages
  <1> QED
    BY <1>1, <1>3, <1>4 DEF Inv

LEMMA DeleteInv ==
  ASSUME Inv, NEW r \in Requests, Delete(r)
  PROVE  Inv'
  <1> USE DEF Delete, listVars
  <1>1. TypeOK'
    BY DEF Inv, TypeOK
  <1>2. rows' \cup erased' = rows \cup erased
    OBVIOUS
  <1>3. Saved'
    BY <1>2 DEF Inv, Saved
  <1>4. (Paged /\ MisorderExplained /\ AnsweredListed /\ TimesExact)'
    BY <1>2, SamePages
  <1> QED
    BY <1>1, <1>3, <1>4 DEF Inv

-----------------------------------------------------------------------------
(* Pages. *)

LEMMA AskInv ==
  ASSUME Inv, NEW l \in Lists, Ask(l)
  PROVE  Inv'
  <1> USE DEF Ask, captureVars
  <1>1. TypeOK'
    BY DEF Inv, TypeOK
  <1>2. Saved'
    BY DEF Inv, Saved
  <1>3. {r \in Requests : capture[r] = "answered"} \subseteq rows \cup erased
    BY DEF Inv, Saved
  <1>4. Paged'
    BY <1>3 DEF Inv, TypeOK, Paged, Elements
  <1>5. MisorderExplained' /\ TimesExact'
    BY DEF Inv, MisorderExplained, TimesExact
  <1>6. \A k \in Lists : call'[k] = "done" => call[k] = "done" /\ known'[k] = known[k]
    BY DEF Inv, TypeOK
  <1>7. AnsweredListed'
    BY <1>6 DEF Inv, AnsweredListed, Elements
  <1> QED
    BY <1>1, <1>2, <1>4, <1>5, <1>7 DEF Inv

LEMMA ListFailsInv ==
  ASSUME Inv, NEW l \in Lists, ListFails(l)
  PROVE  Inv'
  <1> USE DEF ListFails, captureVars
  <1>1. TypeOK'
    BY DEF Inv, TypeOK
  <1>2. Saved'
    BY DEF Inv, Saved
  <1>3. (Paged /\ MisorderExplained /\ AnsweredListed /\ TimesExact)'
    BY SamePages DEF Inv, TypeOK
  <1> QED
    BY <1>1, <1>2, <1>3 DEF Inv

(* What a page is: rows, in the order of their texts, and if others are left
   out, full of texts that do not come before theirs. *)
LEMMA PageOf ==
  ASSUME Inv, NEW s \in Pages
  PROVE  /\ s \in Seq(Requests) /\ Len(s) <= Limit
         /\ \A i \in 1..Len(s) : s[i] \in rows
         /\ Newest(s)
  <1>1. PICK n \in 0..Limit : s \in [1..n -> rows] /\ Newest(s)
    BY DEF Pages
  <1>2. n \in Nat /\ n <= Limit /\ rows \subseteq Requests
    BY ListingAssumption DEF Inv, TypeOK
  <1>3. s \in Seq(rows) /\ Len(s) = n
    BY <1>1, <1>2
  <1> QED
    BY <1>1, <1>2, <1>3

LEMMA ListInv ==
  ASSUME Inv, NEW l \in Lists, List(l)
  PROVE  Inv'
  <1> USE DEF List, captureVars
  <1>1. PICK s \in Pages :
          /\ page' = [page EXCEPT ![l] = s]
          /\ times' = [times EXCEPT ![l] = [i \in 1..Len(s) |-> Parse(created[s[i]])]]
    OBVIOUS
  <1>2. /\ s \in Seq(Requests) /\ Len(s) \in Nat /\ Len(s) <= Limit
        /\ \A i \in 1..Len(s) : s[i] \in rows /\ s[i] \in Requests
        /\ Newest(s)
    BY PageOf DEF Inv, TypeOK
  <1>3. \A r \in rows : created[r] = Format(stamp[r]) /\ stamp[r] \in Instant
    BY DEF Inv, Saved, TypeOK
  <1>4. \A i \in 1..Len(s) : Parse(created[s[i]]) = stamp[s[i]]
    BY <1>2, <1>3, TimeRoundTrip
  <1>5. [i \in 1..Len(s) |-> Parse(created[s[i]])] = [i \in 1..Len(s) |-> stamp[s[i]]]
    BY <1>4
  <1>6. [i \in 1..Len(s) |-> stamp[s[i]]] \in Seq(Instant)
    BY <1>2, <1>3
  <1>7. /\ page'[l] = s /\ times'[l] = [i \in 1..Len(s) |-> stamp[s[i]]]
        /\ \A k \in Lists : k # l => page'[k] = page[k] /\ times'[k] = times[k]
                                     /\ call'[k] = call[k]
    BY <1>1, <1>5 DEF Inv, TypeOK
  <1>8. TypeOK'
    BY <1>1, <1>2, <1>5, <1>6, <1>7 DEF Inv, TypeOK
  <1>9. Saved'
    BY DEF Inv, Saved
  <1>10. Paged'
    BY <1>2, <1>7 DEF Inv, Paged, Elements
  <1>11. TimesExact'
    <2> SUFFICES ASSUME NEW k \in Lists
                 PROVE  times'[k] = [i \in 1..Len(page'[k]) |-> stamp'[page'[k][i]]]
      BY Zenon DEF TimesExact
    <2>s. stamp' = stamp
      OBVIOUS
    <2>1. CASE k = l
      BY <1>7, <2>s, <2>1, Zenon
    <2>2. CASE k # l
      <3>1. times[k] = [i \in 1..Len(page[k]) |-> stamp[page[k][i]]]
        BY DEF Inv, TimesExact
      <3> QED
        BY <1>7, <2>s, <2>2, <3>1, Zenon
    <2> QED
      BY <2>1, <2>2
  <1>12. MisorderExplained'
    <2>1. ASSUME NEW i \in 1..Len(s), NEW j \in 1..Len(s), i < j,
                 Earlier(stamp[s[i]], stamp[s[j]])
          PROVE  Continues(stamp[s[i]], stamp[s[j]])
      <3>1. ~TextLess(Format(stamp[s[i]]), Format(stamp[s[j]]))
        BY <1>2, <1>3, <2>1 DEF Newest
      <3> QED
        BY <1>2, <1>3, <2>1, <3>1, TextOrder
    <2> QED
      BY <1>7, <2>1 DEF Inv, MisorderExplained
  <1>13. AnsweredListed'
    <2>1. ASSUME NEW r \in known[l] \ erased, r \notin Elements(s)
          PROVE  Len(s) = Limit /\ \A i \in 1..Limit : stamp[s[i]].sec >= stamp[r].sec
      <3>1. r \in rows \ Elements(s)
        BY <2>1 DEF Inv, Paged
      <3>2. Len(s) = Limit /\ \A i \in 1..Len(s) : ~TextLess(created[s[i]], created[r])
        BY <1>2, <3>1 DEF Newest
      <3>3. ASSUME NEW i \in 1..Len(s) PROVE stamp[r].sec <= stamp[s[i]].sec
        BY <1>2, <1>3, <3>1, <3>2, SecondOrder
      <3>4. \A i \in 1..Len(s) : stamp[r].sec \in Nat /\ stamp[s[i]].sec \in Nat
        BY <1>2, <1>3, <3>1 DEF Instant
      <3> QED
        BY <3>2, <3>3, <3>4
    <2> SUFFICES ASSUME NEW k \in Lists, call'[k] = "done", NEW r \in known[k] \ erased
                 PROVE  \/ r \in Elements(page'[k])
                        \/ /\ Len(page'[k]) = Limit
                           /\ \A i \in 1..Limit : stamp[page'[k][i]].sec >= stamp[r].sec
      BY DEF AnsweredListed, Elements
    <2>2. CASE k = l
      BY <1>7, <2>1, <2>2
    <2>3. CASE k # l
      BY <1>7, <2>3 DEF Inv, AnsweredListed
    <2> QED
      BY <2>2, <2>3
  <1> QED
    BY <1>8, <1>9, <1>10, <1>11, <1>12, <1>13 DEF Inv

-----------------------------------------------------------------------------
LEMMA NextInv == Inv /\ [Next]_vars => Inv'
  <1> SUFFICES ASSUME Inv, [Next]_vars PROVE Inv'
    OBVIOUS
  <1>1. CASE Tick
    BY <1>1, TickInv
  <1>2. ASSUME NEW r \in Requests, BuildRecord(r) \/ Save(r) \/ Respond(r) \/ Delete(r)
        PROVE  Inv'
    BY <1>2, BuildRecordInv, SaveInv, RespondInv, DeleteInv
  <1>3. ASSUME NEW l \in Lists, Ask(l) \/ List(l) \/ ListFails(l)
        PROVE  Inv'
    BY <1>3, AskInv, ListInv, ListFailsInv
  <1>4. CASE UNCHANGED vars
    <2> USE <1>4 DEF vars, captureVars, listVars
    <2>1. TypeOK' /\ Saved'
      BY DEF Inv, TypeOK, Saved
    <2>2. (Paged /\ MisorderExplained /\ AnsweredListed /\ TimesExact)'
      BY SamePages
    <2> QED
      BY <2>1, <2>2 DEF Inv
  <1> QED
    BY <1>1, <1>2, <1>3, <1>4 DEF Next

LEMMA InvHolds == Spec => []Inv
  BY InitInv, NextInv, PTL DEF Spec

(* The variables keep their types; a page has at most Limit rows. *)
THEOREM ListingTypes == Spec => []TypeOK
  <1>1. Inv => TypeOK
    BY DEF Inv
  <1> QED
    BY <1>1, InvHolds, PTL

(* A page is in the order the webhooks came in, newest first, but for those of
   one second of which the later continues the digits of the earlier, however
   many digits a fraction has (sqlite.go:97, 156). *)
THEOREM PagesOrdered == Spec => []MisorderExplained
  <1>1. Inv => MisorderExplained
    BY DEF Inv
  <1> QED
    BY <1>1, InvHolds, PTL

(* A webhook answered 200 before the page was asked for is on it, unless it
   was deleted or the page is full of webhooks that did not come in an earlier
   second, for every size of page (server.go:56). *)
THEOREM AnsweredAreListed == Spec => []AnsweredListed
  <1>1. Inv => AnsweredListed
    BY DEF Inv
  <1> QED
    BY <1>1, InvHolds, PTL

(* What a page shows as the time of a webhook is when it came in
   (sqlite.go:97, 187-191). *)
THEOREM PageTimesExact == Spec => []TimesExact
  <1>1. Inv => TimesExact
    BY DEF Inv
  <1> QED
    BY <1>1, InvHolds, PTL
=============================================================================
