------------------------------ MODULE Listing ------------------------------
(***************************************************************************)
(* GET /api/requests: the newest page of the requests table, as ordered by *)
(* the text of created_at (ListRequests of internal/store/sqlite.go with   *)
(* the 50 and 0 of internal/server), while webhooks are captured and       *)
(* deleted.                                                                *)
(*                                                                         *)
(* A capture takes its time when it builds the record and commits it       *)
(* later: rows arrive in an order of their own.                            *)
(***************************************************************************)
EXTENDS Timestamps

CONSTANTS
  Requests,   \* webhooks that may be captured
  Lists,      \* calls of GET /api/requests
  Limit,      \* rows on a page; 50 in the code
  Horizon     \* bound: the clock stops after this second

ASSUME ListingAssumption ==
  /\ Limit \in Nat
  /\ Horizon \in Nat

VARIABLES
  clock,     \* time.Now()
  capture,   \* capture[r]: where the capture of r is
  stamp,     \* stamp[r]: CreatedAt of its record
  rows,      \* ids in the table
  created,   \* created[r]: text of its created_at column, <<>> before
  call,      \* call[l]: where the list handler of l is
  page,      \* page[l]: the webhooks it answers with, in order
  times,     \* times[l]: the created_at it gives each of them
  (* observation only *)
  erased,    \* ids that were deleted
  known      \* known[l]: webhooks answered 200 before l was asked

captureVars == <<capture, stamp, rows, created, erased>>
listVars    == <<call, page, times, known>>
vars == <<clock, captureVars, listVars>>

Zero == [sec |-> 0, frac |-> [i \in 1..Width |-> 0]]

TypeOK ==
  /\ clock   \in Instant
  /\ capture \in [Requests -> {"new", "built", "saved", "answered"}]
  /\ stamp   \in [Requests -> Instant]
  /\ rows    \subseteq Requests
  /\ created \in [Requests -> Seq(Nat)]
  /\ call    \in [Lists -> {"new", "asked", "done", "failed"}]
  /\ page    \in [Lists -> Seq(Requests)]
  /\ \A l \in Lists : Len(page[l]) <= Limit
  /\ times   \in [Lists -> Seq(Instant)]
  /\ erased  \subseteq Requests
  /\ known   \in [Lists -> SUBSET Requests]

Init ==
  /\ clock   = Zero
  /\ capture = [r \in Requests |-> "new"]
  /\ stamp   = [r \in Requests |-> Zero]
  /\ rows    = {}
  /\ created = [r \in Requests |-> <<>>]
  /\ call    = [l \in Lists |-> "new"]
  /\ page    = [l \in Lists |-> <<>>]
  /\ times   = [l \in Lists |-> <<>>]
  /\ erased  = {}
  /\ known   = [l \in Lists |-> {}]

-----------------------------------------------------------------------------
(* Time passes; it need not between two captures. *)
Tick ==
  \E t \in [sec : 0..Horizon, frac : [1..Width -> Digits]] :
    /\ Earlier(clock, t)
    /\ clock' = t
    /\ UNCHANGED <<captureVars, listVars>>

(* The capture handler builds the record, with CreatedAt: time.Now().UTC(). *)
BuildRecord(r) ==
  /\ capture[r] = "new"
  /\ capture' = [capture EXCEPT ![r] = "built"]
  /\ stamp' = [stamp EXCEPT ![r] = clock]
  /\ UNCHANGED <<clock, rows, created, erased, listVars>>

(* SaveRequest commits it; a capture whose save fails goes no further. *)
Save(r) ==
  /\ capture[r] = "built"
  /\ capture' = [capture EXCEPT ![r] = "saved"]
  /\ rows' = rows \cup {r}
  /\ created' = [created EXCEPT ![r] = Format(stamp[r])]
  /\ UNCHANGED <<clock, stamp, erased, listVars>>

RespondEarly(r) ==
  /\ capture[r] \in {"built", "saved"}
  /\ capture' = [capture EXCEPT ![r] = "answered"]
  /\ UNCHANGED <<clock, stamp, rows, created, erased, listVars>>

Respond(r) ==
  /\ capture[r] = "saved"
  /\ capture' = [capture EXCEPT ![r] = "answered"]
  /\ UNCHANGED <<clock, stamp, rows, created, erased, listVars>>

Delete(r) ==
  /\ r \in rows
  /\ rows' = rows \ {r}
  /\ erased' = erased \cup {r}
  /\ UNCHANGED <<clock, capture, stamp, created, listVars>>

-----------------------------------------------------------------------------
Elements(s) == {s[i] : i \in 1..Len(s)}

OldestFirst(s) ==
  /\ \A i, j \in 1..Len(s) : i < j =>
       s[i] # s[j] /\ ~TextLess(created[s[j]], created[s[i]])
  /\ \A r \in rows \ Elements(s) :
       Len(s) = Limit /\ \A i \in 1..Len(s) : ~TextLess(created[r], created[s[i]])

(* SELECT ... ORDER BY created_at DESC LIMIT ? OFFSET 0; rows of one text come
   in any order. *)
Newest(s) ==
  /\ \A i, j \in 1..Len(s) : i < j =>
       s[i] # s[j] /\ ~TextLess(created[s[i]], created[s[j]])
  /\ \A r \in rows \ Elements(s) :
       Len(s) = Limit /\ \A i \in 1..Len(s) : ~TextLess(created[s[i]], created[r])

PagesOverLimit == {s \in UNION {[1..n -> rows] : n \in 0..(Limit + 1)} : Newest(s)}

Pages == {s \in UNION {[1..n -> rows] : n \in 0..Limit} : Newest(s)}

Ask(l) ==
  /\ call[l] = "new"
  /\ call' = [call EXCEPT ![l] = "asked"]
  /\ known' = [known EXCEPT ![l] = {r \in Requests : capture[r] = "answered"}]
  /\ UNCHANGED <<clock, captureVars, page, times>>

(* The query is run, and its rows are answered, each with its time parsed. *)
List(l) ==
  /\ call[l] = "asked"
  /\ call' = [call EXCEPT ![l] = "done"]
  /\ \E s \in Pages :
       /\ page' = [page EXCEPT ![l] = s]
       /\ times' = [times EXCEPT ![l] = [i \in 1..Len(s) |-> Parse(created[s[i]])]]
  /\ UNCHANGED <<clock, captureVars, known>>

(* An error of the query or of its context: 500. *)
ListFails(l) ==
  /\ call[l] = "asked"
  /\ call' = [call EXCEPT ![l] = "failed"]
  /\ UNCHANGED <<clock, captureVars, page, times, known>>

Next ==
  \/ Tick
  \/ \E r \in Requests : BuildRecord(r) \/ Save(r) \/ Respond(r) \/ Delete(r)
  \/ \E l \in Lists : Ask(l) \/ List(l) \/ ListFails(l)

Spec == Init /\ [][Next]_vars

-----------------------------------------------------------------------------
(* A page is in the order the webhooks came in, newest first, but for those of
   one second of which the later continues the digits of the earlier
   (sqlite.go:97, 156). *)
MisorderExplained ==
  \A l \in Lists : \A i, j \in 1..Len(page[l]) :
    i < j /\ Earlier(stamp[page[l][i]], stamp[page[l][j]])
      => Continues(stamp[page[l][i]], stamp[page[l][j]])

(* A webhook answered 200 before the page was asked for is on it, unless it
   was deleted or the page is full of webhooks that did not come in an earlier
   second (server.go:56). *)
AnsweredListed ==
  \A l \in Lists : call[l] = "done" =>
    \A r \in known[l] \ erased :
      \/ r \in Elements(page[l])
      \/ /\ Len(page[l]) = Limit
         /\ \A i \in 1..Limit : stamp[page[l][i]].sec >= stamp[r].sec

(* The way through the column loses nothing of a time: what the page shows is
   when the webhook came in (sqlite.go:97, 187-191). *)
TimesExact ==
  \A l \in Lists : times[l] = [i \in 1..Len(page[l]) |-> stamp[page[l][i]]]
=============================================================================
