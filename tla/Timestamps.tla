----------------------------- MODULE Timestamps -----------------------------
(***************************************************************************)
(* The created_at columns of internal/store/sqlite.go: a time is written   *)
(* with Format(time.RFC3339Nano), which drops the trailing zeros of the    *)
(* fraction and the point if nothing follows it, ordered by SQLite as text *)
(* (byte by byte), and read back with Parse.                               *)
(*                                                                         *)
(* "2006-01-02T15:04:05" has the same width for every time, so its order   *)
(* as text is that of the seconds: it is one symbol of a text here.        *)
(***************************************************************************)
EXTENDS Naturals, Sequences

CONSTANTS
  Width,    \* digits of the fraction: 9 in Go
  Digits    \* the digits that occur in it: 0..9

ASSUME TimestampsAssumption ==
  /\ Width \in Nat
  /\ 0 \in Digits
  /\ Digits \subseteq 0..9

Instant == [sec : Nat, frac : [1..Width -> Digits]]

Earlier(a, b) ==
  \/ a.sec < b.sec
  \/ /\ a.sec = b.sec
     /\ \E i \in 1..Width : /\ a.frac[i] < b.frac[i]
                            /\ \A j \in 1..Width : j < i => a.frac[j] = b.frac[j]

(* How many digits of a fraction are left without its trailing zeros. *)
IsKept(f, n) ==
  /\ n \in 0..Width
  /\ n > 0 => f[n] # 0
  /\ \A i \in 1..Width : i > n => f[i] = 0

Kept(f) == CHOOSE n \in 0..Width : IsKept(f, n)

(* Bytes of a text. *)
Point    == 46
Zulu     == 90
Digit(d) == 48 + d

(* The seconds, a point and the digits left if there are any, and the Z. *)
Format(t) ==
  LET n    == Kept(t.frac)
      last == IF n = 0 THEN 2 ELSE n + 3
  IN  [i \in 1..last |-> IF i = 1 THEN t.sec
                         ELSE IF i = last THEN Zulu
                         ELSE IF i = 2 THEN Point
                         ELSE Digit(t.frac[i - 2])]

ParseSeconds(s) == [sec |-> s[1], frac |-> [i \in 1..Width |-> 0]]

Parse(s) ==
  [sec  |-> s[1],
   frac |-> [i \in 1..Width |-> IF i + 2 < Len(s) THEN s[i + 2] - 48 ELSE 0]]

(* The order of texts: the first byte that differs decides, and a text comes
   before those it is the beginning of. *)
TextLess(s, t) ==
  \E i \in 1..Len(t) :
    /\ \A j \in 1..(i - 1) : j <= Len(s) /\ s[j] = t[j]
    /\ i > Len(s) \/ s[i] < t[i]

(* a and b are of one second, and b continues the digits that a's text has:
   12.5 and 12.53, or 12 and 12.5, but not 12.49 and 12.5. *)
Continues(a, b) ==
  /\ a.sec = b.sec
  /\ \A i \in 1..Kept(a.frac) : a.frac[i] = b.frac[i]
=============================================================================
