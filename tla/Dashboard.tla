----------------------------- MODULE Dashboard -----------------------------
(***************************************************************************)
(* The dashboard in the browser (web/static/js/app.js and sse.js): the     *)
(* list of webhooks, the one under inspection and the replay button, kept  *)
(* up to date by fetches and Server-Sent Events that come back in any      *)
(* order, while webhooks arrive and other clients delete.                  *)
(*                                                                         *)
(* JavaScript runs one handler at a time, from one await to the next: that *)
(* is a step here.  Every fetch under way occupies a slot; the server (see *)
(* Ingest and Replay for its inside) handles it in one step.               *)
(***************************************************************************)
EXTENDS Naturals, Sequences, SequencesExt

CONSTANTS
  Requests,   \* webhooks that may be captured
  Slots,      \* bound: fetches under way at a time
  None,       \* no webhook is inspected
  Limit,      \* rows the list is loaded with, 50
  Faults      \* may a fetch fail, or an event be lost?

ASSUME DashboardAssumption ==
  None \notin Requests /\ Limit \in Nat \ {0} /\ Faults \in BOOLEAN

VARIABLES
  table,       \* the server's rows, newest first, as ListRequests gives them
  capture,     \* capture[r]: "new", "saved" (a row), "published"
  sse,         \* the event stream: "off" or "open"
  stream,      \* events on their way to the page
  fetches,     \* fetches[s]: the fetch in slot s
  list,        \* allRequests
  current,     \* window.currentRequest
  button,      \* btn-replay: is it disabled, and what does it say?
  (* observation only *)
  unstreamed,  \* published while the page was not connected, or lost on the way
  wiped,       \* taken off the list by the answer to a load or a clear
  hidden,      \* deleted by this user
  snapshot,    \* the webhooks loadRequests was given
  due,         \* those it is to be given: the newest when the server answered it
  threw        \* a TypeError left a handler half done

serverVars == <<table, capture>>
sseVars    == <<sse, stream>>
pageVars   == <<list, current, button>>
obsVars    == <<unstreamed, wiped, hidden, snapshot, due, threw>>
vars == <<serverVars, sseVars, fetches, pageVars, obsVars>>

Idle == [op |-> "idle", id |-> None, stage |-> "none", data |-> <<>>, label |-> "replay"]

Fetch == [op    : {"idle", "load", "select", "delete", "clear", "replay", "reselect"},
          id    : Requests \cup {None},
          stage : {"none", "sent", "ok", "failed"},
          data  : Seq(Requests),
          label : {"replay", "dispatching"}]

TypeOK ==
  /\ table      \in Seq(Requests)
  /\ capture    \in [Requests -> {"new", "saved", "published"}]
  /\ sse        \in {"off", "open"}
  /\ stream     \in Seq(Requests)
  /\ fetches    \in [Slots -> Fetch]
  /\ list       \in Seq(Requests)
  /\ current    \in Requests \cup {None}
  /\ button     \in [disabled : BOOLEAN, label : {"replay", "dispatching"}]
  /\ unstreamed \subseteq Requests
  /\ wiped      \subseteq Requests
  /\ hidden     \subseteq Requests
  /\ snapshot   \subseteq Requests
  /\ due        \subseteq Requests
  /\ threw      \in BOOLEAN

Sent(op, id, label) ==
  [op |-> op, id |-> id, stage |-> "sent", data |-> <<>>, label |-> label]

Select(id) == Sent("select", id, "replay")

(* DOMContentLoaded: loadRequests has sent its fetch, the EventSource connects. *)
Init ==
  /\ table      = <<>>
  /\ capture    = [r \in Requests |-> "new"]
  /\ sse        = "off"
  /\ stream     = <<>>
  /\ \E s \in Slots : fetches = [t \in Slots |-> IF t = s THEN Sent("load", None, "replay")
                                                  ELSE Idle]
  /\ list       = <<>>
  /\ current    = None
  /\ button     = [disabled |-> FALSE, label |-> "replay"]
  /\ unstreamed = {}
  /\ wiped      = {}
  /\ hidden     = {}
  /\ snapshot   = {}
  /\ due        = {}
  /\ threw      = FALSE

-----------------------------------------------------------------------------
(* The server. *)

(* A capture is committed, and only then published (Ingest!NoGhosts). *)
SaveRow(r) ==
  /\ capture[r] = "new"
  /\ capture' = [capture EXCEPT ![r] = "saved"]
  /\ table' = <<r>> \o table
  /\ UNCHANGED <<sseVars, fetches, pageVars, obsVars>>

(* To a page that is connected, unless its channel is full. *)
Publish(r) ==
  /\ capture[r] = "saved"
  /\ capture' = [capture EXCEPT ![r] = "published"]
  /\ \/ sse = "open" /\ stream' = Append(stream, r) /\ unstreamed' = unstreamed
     \/ /\ sse = "off" \/ Faults
        /\ stream' = stream
        /\ unstreamed' = unstreamed \cup {r}
  /\ UNCHANGED <<table, sse, fetches, pageVars, wiped, hidden, snapshot, due, threw>>

(* Another client deletes one webhook, the one row with its id. *)
OtherDelete(r) ==
  /\ r \in ToSet(table)
  /\ table' = RemoveFirst(table, r)
  /\ UNCHANGED <<capture, sseVars, fetches, pageVars, obsVars>>

OldestPage == SubSeq(table, IF Len(table) < Limit THEN 1 ELSE Len(table) - Limit + 1, Len(table))

(* ListRequests(ctx, 50, 0): the newest rows only. *)
Page == SubSeq(table, 1, IF Len(table) < Limit THEN Len(table) ELSE Limit)

Handle(s) ==
  LET f == fetches[s]
      Done(stage, data) == [fetches EXCEPT ![s].stage = stage, ![s].data = data]
  IN
  /\ f.stage = "sent"
  /\ CASE f.op = "load"   -> fetches' = Done("ok", Page) /\ table' = table
       [] f.op = "delete" -> fetches' = Done("ok", <<>>) /\ table' = RemoveFirst(table, f.id)
       [] f.op = "clear"  -> fetches' = Done("ok", <<>>) /\ table' = <<>>
       [] f.op = "replay" -> fetches' = Done("ok", <<>>) /\ table' = table
       [] f.op \in {"select", "reselect"} ->
            /\ fetches' = Done(IF f.id \in ToSet(table) THEN "ok" ELSE "failed", <<>>)
            /\ table' = table
  /\ due' = IF f.op = "load" THEN {table[i] : i \in {j \in 1..Len(table) : j <= Limit}}
            ELSE due
  /\ UNCHANGED <<capture, sseVars, pageVars, unstreamed, wiped, hidden, snapshot, threw>>

(* An error of the server or the network, before or after the effect. *)
Fail(s) ==
  /\ Faults
  /\ fetches[s].stage \in {"sent", "ok"}
  /\ fetches' = [fetches EXCEPT ![s].stage = "failed", ![s].data = <<>>]
  /\ due' = IF fetches[s].op = "load" THEN {} ELSE due
  /\ UNCHANGED <<serverVars, sseVars, pageVars, unstreamed, wiped, hidden, snapshot, threw>>

(* The EventSource connects, or is cut off and will connect again: there is
   no Last-Event-ID, what is published in between is gone. *)
StreamOpens ==
  /\ sse = "off"
  /\ sse' = "open"
  /\ UNCHANGED <<serverVars, stream, fetches, pageVars, obsVars>>

StreamLost ==
  /\ Faults
  /\ sse = "open"
  /\ sse' = "off"
  /\ stream' = <<>>
  /\ unstreamed' = unstreamed \cup ToSet(stream)
  /\ UNCHANGED <<serverVars, fetches, pageVars, wiped, hidden, snapshot, due, threw>>

-----------------------------------------------------------------------------
(* What the page does when an answer or an event comes in. *)

Answered(s, op) == fetches[s].op = op /\ fetches[s].stage \in {"ok", "failed"}

Free(s) == fetches' = [fetches EXCEPT ![s] = Idle]

(* loadRequests replaces the list, whatever events have put into it. *)
LoadDone(s) ==
  LET data == fetches[s].data IN
  /\ Answered(s, "load")
  /\ IF fetches[s].stage = "ok"
       THEN /\ list' = data
            /\ snapshot' = ToSet(data)
            /\ wiped' = wiped \cup (ToSet(list) \ ToSet(data))
            /\ IF data # <<>> /\ current = None
                 THEN fetches' = [fetches EXCEPT ![s] = Select(Head(data))]
                 ELSE Free(s)
       ELSE Free(s) /\ UNCHANGED <<list, snapshot, wiped>>
  /\ UNCHANGED <<serverVars, sseVars, current, button, unstreamed, hidden, due, threw>>

(* selectRequest: whichever answer comes last is the one inspected. *)
SelectDone(s) ==
  /\ Answered(s, "select")
  /\ current' = IF fetches[s].stage = "ok" THEN fetches[s].id ELSE current
  /\ Free(s)
  /\ UNCHANGED <<serverVars, sseVars, list, button, obsVars>>

(* The entry is off the list already; whether the server did it or not. *)
DeleteDone(s) ==
  /\ Answered(s, "delete")
  /\ Free(s)
  /\ UNCHANGED <<serverVars, sseVars, pageVars, obsVars>>

ClearUnchecked(s) ==
  /\ Answered(s, "clear")
  /\ Free(s)
  /\ list' = <<>> /\ current' = None
  /\ wiped' = IF fetches[s].stage = "ok" THEN wiped \cup ToSet(list) ELSE wiped
  /\ UNCHANGED <<serverVars, sseVars, button, unstreamed, hidden, snapshot, due, threw>>

(* executeClearRequests empties the list as it is when the answer comes. *)
ClearDone(s) ==
  /\ Answered(s, "clear")
  /\ Free(s)
  /\ IF fetches[s].stage = "ok"
       THEN list' = <<>> /\ current' = None /\ wiped' = wiped \cup ToSet(list)
       ELSE UNCHANGED <<list, current, wiped>>
  /\ UNCHANGED <<serverVars, sseVars, button, unstreamed, hidden, snapshot, due, threw>>

ReplayDoneForgetsButton(s) ==
  /\ Answered(s, "replay")
  /\ threw' = threw
  /\ fetches' = [fetches EXCEPT ![s] = IF current = None THEN Idle ELSE Select(current)]
  /\ UNCHANGED <<serverVars, sseVars, pageVars, unstreamed, wiped, hidden, snapshot, due>>

(* The finally of triggerReplay reads currentRequest.id: a TypeError if a
   delete or a clear has set it to null, and the button is never restored. *)
ReplayDone(s) ==
  /\ Answered(s, "replay")
  /\ IF current = None
       THEN threw' = TRUE /\ Free(s)
       ELSE /\ threw' = threw
            /\ fetches' = [fetches EXCEPT ![s] = Sent("reselect", current, fetches[s].label)]
  /\ UNCHANGED <<serverVars, sseVars, pageVars, unstreamed, wiped, hidden, snapshot, due>>

ReselectForgetsLabel(s) ==
  /\ Answered(s, "reselect")
  /\ current' = IF fetches[s].stage = "ok" THEN fetches[s].id ELSE current
  /\ button' = [disabled |-> FALSE, label |-> ""]
  /\ Free(s)
  /\ UNCHANGED <<serverVars, sseVars, list, obsVars>>

(* The selectRequest that the finally awaits, and the button after it. *)
ReselectDone(s) ==
  /\ Answered(s, "reselect")
  /\ current' = IF fetches[s].stage = "ok" THEN fetches[s].id ELSE current
  /\ button' = [disabled |-> FALSE, label |-> fetches[s].label]
  /\ Free(s)
  /\ UNCHANGED <<serverVars, sseVars, list, obsVars>>

ListenTwice ==
  /\ stream # <<>>
  /\ list' = <<Head(stream), Head(stream)>> \o list
  /\ stream' = Tail(stream)
  /\ UNCHANGED <<serverVars, sse, fetches, current, button, obsVars>>

(* onmessage: the webhook goes on top, and is inspected if nothing is. *)
OnEvent ==
  /\ stream # <<>>
  /\ list' = <<Head(stream)>> \o list
  /\ stream' = Tail(stream)
  /\ IF current = None
       THEN \E s \in Slots : /\ fetches[s] = Idle
                             /\ fetches' = [fetches EXCEPT ![s] = Select(Head(stream))]
       ELSE fetches' = fetches
  /\ UNCHANGED <<serverVars, sse, current, button, obsVars>>

-----------------------------------------------------------------------------
(* What the user does. *)

Click(s, r) ==
  /\ fetches[s] = Idle
  /\ r \in ToSet(list)
  /\ fetches' = [fetches EXCEPT ![s] = Select(r)]
  /\ UNCHANGED <<serverVars, sseVars, pageVars, obsVars>>

(* deleteSingleRequest: the first entry of r goes off the list at once; was it
   inspected, the one that takes its place is selected. *)
DeleteClick(s, t, r) ==
  LET idx  == SelectInSeq(list, LAMBDA x : x = r)
      rest == RemoveAt(list, idx)
      next == rest[IF idx <= Len(rest) THEN idx ELSE Len(rest)]
  IN
  /\ r \in ToSet(list)
  /\ fetches[s] = Idle
  /\ current = r /\ rest # <<>> => s # t /\ fetches[t] = Idle
  /\ list' = rest
  /\ hidden' = hidden \cup {r}
  /\ IF current = r /\ rest # <<>>
       THEN fetches' = [fetches EXCEPT ![s] = Sent("delete", r, "replay"), ![t] = Select(next)]
       ELSE fetches' = [fetches EXCEPT ![s] = Sent("delete", r, "replay")]
  /\ current' = IF current = r /\ rest = <<>> THEN None ELSE current
  /\ UNCHANGED <<serverVars, sseVars, button, unstreamed, wiped, snapshot, due, threw>>

(* executeClearRequests; its button is disabled while it runs. *)
ClearClick(s) ==
  /\ fetches[s] = Idle
  /\ \A t \in Slots : fetches[t].op # "clear"
  /\ fetches' = [fetches EXCEPT ![s] = Sent("clear", None, "replay")]
  /\ UNCHANGED <<serverVars, sseVars, pageVars, obsVars>>

(* triggerReplay, from either of its two buttons: the one in the history
   panel is never disabled. *)
ReplayClick(s) ==
  /\ fetches[s] = Idle
  /\ current # None
  /\ button' = [disabled |-> TRUE, label |-> "dispatching"]
  /\ fetches' = [fetches EXCEPT ![s] = Sent("replay", current, button.label)]
  /\ UNCHANGED <<serverVars, sseVars, list, current, obsVars>>

-----------------------------------------------------------------------------
Next ==
  \/ \E r \in Requests : SaveRow(r) \/ Publish(r) \/ OtherDelete(r)
  \/ StreamOpens \/ StreamLost \/ OnEvent
  \/ \E s \in Slots : \/ Handle(s) \/ Fail(s)
                      \/ LoadDone(s) \/ SelectDone(s) \/ DeleteDone(s)
                      \/ ClearDone(s) \/ ReplayDone(s) \/ ReselectDone(s)
                      \/ ClearClick(s) \/ ReplayClick(s)
  \/ \E s \in Slots, r \in Requests : Click(s, r)
  \/ \E s, t \in Slots, r \in Requests : DeleteClick(s, t, r)

Spec == Init /\ [][Next]_vars

-----------------------------------------------------------------------------
(* No answer, no event and no publish is under way. *)
Quiet ==
  /\ \A s \in Slots : fetches[s] = Idle
  /\ stream = <<>>
  /\ \A r \in Requests : capture[r] # "saved"

(* Between the snapshot of loadRequests and the event stream nothing falls
   through: once all is quiet, a webhook in the table is on the list, unless its
   event did not reach the page and it was not among the newest Limit rows that
   the load brought (the load failed, or was answered before it came, or newer
   ones filled the page), it was taken off by a late answer to the load or a
   clear, or the user deleted it and the DELETE failed (app.js:9-19, 86-99,
   server.go:56). *)
MissingExplained ==
  Quiet =>
    ToSet(table) \subseteq ToSet(list) \cup (unstreamed \ due) \cup wiped \cup hidden

(* A webhook is listed twice only if loadRequests was given it and its event
   came later, and never three times. *)
DuplicatesExplained ==
  \A i, j \in 1..Len(list) : i < j /\ list[i] = list[j] =>
    /\ list[i] \in snapshot
    /\ \A k \in 1..Len(list) : list[k] = list[i] => k \in {i, j}

(* The replay button is disabled only while a continuation that enables it is
   still to come, unless the inspected webhook was deleted or cleared from
   under it (app.js:384-407). *)
ButtonOwned ==
  button.disabled =>
    threw \/ \E s \in Slots : fetches[s].op \in {"replay", "reselect"}
=============================================================================
