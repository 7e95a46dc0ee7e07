----------------------------- MODULE Inspector -----------------------------
(***************************************************************************)
(* What the dashboard puts on the screen (web/static/js/app.js): the rows  *)
(* of the list behind its filters, the workspace of the webhook under      *)
(* inspection and its history of replays.  Dashboard asks whether the list *)
(* and the table agree; this module asks whether the screen agrees with    *)
(* the page's own variables, in whichever order answers come, and when     *)
(* renderList throws half way through a handler: while a text is searched, *)
(* an event name that is not a string has no toLowerCase().                *)
(*                                                                         *)
(* The load of the list races with the events and with the user, so that a *)
(* webhook may be listed twice (see Dashboard).  A step is what JavaScript *)
(* runs between two awaits.                                                *)
(***************************************************************************)
EXTENDS Naturals, Sequences, SequencesExt

CONSTANTS
  Webhooks,   \* webhooks that may be captured
  Old,        \* those captured before the page is connected: no event comes
  Odd,        \* those whose body names its type, event or action by no string
  Settings,   \* what the user may set the filters to, see Filter
  Limit,      \* rows the list is loaded with, 50
  Slots,      \* bound: fetches under way at a time, the load not counted
  MaxRuns,    \* bound: attempts of one webhook, or of any two
  None        \* null

(* buttons: the webhooks the method and source buttons let through;
   search: those the text in the search box is found in, None if it is empty. *)
Filter == [buttons : SUBSET Webhooks, search : (SUBSET Webhooks) \cup {None}]

All == [buttons |-> Webhooks, search |-> None]

ASSUME InspectorAssumption ==
  /\ Old \subseteq Webhooks /\ Odd \subseteq Webhooks
  /\ Settings \subseteq Filter
  /\ MaxRuns \in Nat /\ Limit \in Nat \ {0}
  /\ None \notin Webhooks /\ None \notin [id : Webhooks, n : Nat]

VARIABLES
  captured,  \* webhooks the server has got so far
  table,     \* those it has
  runs,      \* runs[w]: attempts in w's history on the server
  stream,    \* events on their way to the page, in the order of publication
  load,      \* the fetch of loadRequests, and the rows it was answered with
  fetches,   \* fetches[s]: the fetch in slot s
  list,      \* allRequests
  filter,    \* activeMethodFilter, activeSourceFilter and the search box
  current,   \* window.currentRequest, with its replay_attempts
  picked,    \* selectedReplayAttempt
  rows,      \* #request-list, as rendered, and the row that is marked
  shown,     \* #active-detail with its history, None while it is hidden
  payload,   \* #payload-content: whose
  response,  \* #target-response-body: an attempt, or None for the prompt
  mark,      \* the attempt highlighted in the history displayed
  (* observation only *)
  torn,      \* renderList threw before the workspace was rendered
  astray,    \* current is off the list: its successor failed, or it came late,
             \* or the load did not bring it
  doomed,    \* webhooks the user deleted on the page that the server still has
  unsent,    \* those of them whose DELETE was not sent, or failed
  twice,     \* webhooks the load put on the list, though an event comes, or came
  clicked    \* the last click on the history was on another attempt than mark

serverVars == <<captured, table, runs>>
pageVars   == <<list, filter, current, picked>>
screenVars == <<rows, shown, payload, response, mark>>
obsVars    == <<torn, astray, doomed, unsent, twice, clicked>>
vars == <<serverVars, stream, load, fetches, pageVars, screenVars, obsVars>>

Attempt == [id : Webhooks, n : 1..MaxRuns]
Details == [id : Webhooks, runs : 0..MaxRuns]

Idle == [op |-> "idle", id |-> None, stage |-> "none", runs |-> 0]

Free(s) == fetches' = [fetches EXCEPT ![s] = Idle]

Sent(op, id) == [op |-> op, id |-> id, stage |-> "sent", runs |-> 0]

TypeOK ==
  /\ captured \subseteq Webhooks
  /\ table    \subseteq captured
  /\ runs     \in [Webhooks -> 0..MaxRuns]
  /\ stream   \in Seq(Webhooks)
  /\ fetches  \in [Slots -> [op    : {"idle", "select", "delete", "clear", "replay"},
                             id    : Webhooks \cup {None},
                             stage : {"none", "sent", "ok"},
                             runs  : 0..MaxRuns]]
  /\ load     \in [stage : {"sent", "ok", "done"}, data : Seq(Webhooks)]
  /\ list     \in Seq(Webhooks)
  /\ filter   \in Filter
  /\ current  \in Details \cup {None}
  /\ picked   \in Attempt \cup {None}
  /\ rows     \in [ids : Seq(Webhooks), marked : Webhooks \cup {None}]
  /\ shown    \in Details \cup {None}
  /\ payload  \in Webhooks \cup {None}
  /\ response \in Attempt \cup {None}
  /\ mark     \in Attempt \cup {None}
  /\ torn     \in BOOLEAN
  /\ astray   \in BOOLEAN
  /\ doomed   \subseteq table
  /\ unsent   \subseteq doomed
  /\ twice    \subseteq captured \ Old
  /\ clicked  \in BOOLEAN

-----------------------------------------------------------------------------
(* Rendering. *)

(* detectEventName, called for every entry the buttons let through while a
   text is searched: what it returns may have no toLowerCase(). *)
Throws(l, f) == f.search # None /\ ToSet(l) \cap f.buttons \cap Odd # {}

Passes(w, f) == w \in f.buttons /\ (f.search = None \/ w \in f.search)

(* getFilteredRequests: kept[n] is what the first n entries leave. *)
Filtered(l, f) ==
  LET kept[n \in 0..Len(l)] ==
        IF n = 0 THEN <<>>
        ELSE IF Passes(l[n], f) THEN Append(kept[n - 1], l[n]) ELSE kept[n - 1]
  IN  kept[Len(l)]

IdOf(c) == IF c = None THEN None ELSE c.id

OffList(c) == c # None /\ c.id \notin ToSet(list)

(* The row of the webhook under inspection is marked, if it has one. *)
Rendered(l, f, c) ==
  LET ids == Filtered(l, f) IN
  [ids |-> ids, marked |-> IF IdOf(c) \in ToSet(ids) THEN c.id ELSE None]

RenderList(l, f, c) == rows' = IF Throws(l, f) THEN rows ELSE Rendered(l, f, c)

(* Is the attempt in the history of c? *)
Of(a, c) == a # None /\ a.id = c.id /\ a.n <= c.runs

PickAttemptUnchecked(c, a) ==
  /\ picked' = IF Of(a, c) THEN a ELSE [id |-> c.id, n |-> c.runs]
  /\ response' = picked'

(* selectReplayAttempt: the attempt asked for if it is in the history of c,
   or else the last one, and nothing is displayed if there is none.  What is
   highlighted in the history is not touched. *)
PickAttempt(c, a) ==
  /\ picked' = IF c.runs = 0 THEN None
               ELSE IF Of(a, c) THEN a ELSE [id |-> c.id, n |-> c.runs]
  /\ response' = IF c.runs = 0 THEN response ELSE picked'

RenderHistoryKeepsResponse(c) ==
  /\ mark' = IF Of(picked, c) THEN picked ELSE None
  /\ IF c.runs = 0 THEN UNCHANGED <<picked, response>> ELSE PickAttempt(c, picked)

RenderHistoryKeepsMark(c) ==
  IF c.runs = 0 THEN response' = None /\ UNCHANGED <<picked, mark>>
  ELSE mark' = (IF Of(picked, c) THEN picked ELSE None) /\ PickAttempt(c, picked)

(* renderReplayHistory: the attempt selected so far is highlighted, if it is in
   the history, and only then the one whose response is to be displayed is
   selected.  Without attempts the prompt is back and the selection of another
   webhook's attempt stays. *)
RenderHistory(c) ==
  /\ mark' = IF Of(picked, c) /\ c.runs # 0 THEN picked ELSE None
  /\ IF c.runs = 0 THEN response' = None /\ picked' = picked ELSE PickAttempt(c, picked)

RenderPayload(c) == payload' = c.id

(* renderActiveWorkspace; what a hidden workspace displays is not kept here. *)
RenderWorkspace(c) ==
  /\ shown' = c
  /\ torn' = FALSE /\ clicked' = FALSE
  /\ IF c = None
       THEN payload' = None /\ response' = None /\ mark' = None /\ picked' = picked
       ELSE RenderPayload(c) /\ RenderHistory(c)

KeepWorkspace == UNCHANGED <<shown, payload, picked, response, mark, clicked>>

(* DOMContentLoaded: loadRequests has sent its fetch, and the page is connected. *)
Init ==
  /\ captured = Old
  /\ table    = Old
  /\ runs     = [w \in Webhooks |-> 0]
  /\ stream   = <<>>
  /\ load     = [stage |-> "sent", data |-> <<>>]
  /\ fetches  = [s \in Slots |-> Idle]
  /\ list     = <<>>
  /\ filter   = All
  /\ current  = None
  /\ picked   = None
  /\ rows     = Rendered(list, filter, current)
  /\ shown    = None
  /\ payload  = None
  /\ response = None
  /\ mark     = None
  /\ torn     = FALSE
  /\ astray   = FALSE
  /\ doomed   = {}
  /\ unsent   = {}
  /\ twice    = {}
  /\ clicked  = FALSE

-----------------------------------------------------------------------------
(* The server, and the way to it. *)

Capture(w) ==
  /\ w \notin captured
  /\ captured' = captured \cup {w}
  /\ table' = table \cup {w}
  /\ stream' = Append(stream, w)
  /\ UNCHANGED <<runs, load, fetches, pageVars, screenVars, obsVars>>

(* The rows of the table, or as many as a page holds: which and in what order is
   up to their created_at (see Listing), not to the order of publication. *)
Pages == {l \in UNION {[1..n -> table] : n \in 0..Limit} :
            IsInjective(l) /\ (Len(l) = Limit \/ ToSet(l) = table)}

HandleLoad ==
  /\ load.stage = "sent"
  /\ \E l \in Pages : load' = [stage |-> "ok", data |-> l]
  /\ UNCHANGED <<serverVars, stream, fetches, pageVars, screenVars, obsVars>>

(* A replay is answered whether or not there was an attempt to record; the
   answer to a DELETE is no more than a toast. *)
Handle(s) ==
  LET f == fetches[s]
      Done(n) == fetches' = [fetches EXCEPT ![s].stage = "ok", ![s].runs = n]
  IN
  /\ f.stage = "sent"
  /\ \/ /\ f.op = "select" /\ f.id \in table
        /\ Done(runs[f.id])
        /\ UNCHANGED <<table, runs>>
     \/ f.op = "delete" /\ table' = table \ {f.id} /\ runs' = runs /\ Free(s)
     \/ f.op = "clear" /\ table' = {} /\ runs' = runs /\ Done(0)
     \/ /\ f.op = "replay"
        /\ f.id \in table /\ runs[f.id] < MaxRuns
        /\ \A w \in Webhooks \ {f.id} : runs[w] + runs[f.id] < MaxRuns
        /\ runs' = [runs EXCEPT ![f.id] = @ + 1]
        /\ table' = table
        /\ Done(0)
  /\ doomed' = doomed \cap table'
  /\ unsent' = unsent \cap table'
  /\ UNCHANGED <<captured, stream, load, pageVars, screenVars, torn, astray, twice,
                 clicked>>

(* An error of the network or the server, before or after the effect; for a
   replay, also an attempt that is not recorded.  triggerReplay goes on in any
   case, the others and the edit form end with a toast. *)
Fail(s) ==
  LET f == fetches[s] IN
  /\ \/ f.op \in {"delete", "clear"} /\ Free(s)
     \/ /\ f.op = "replay" /\ f.stage = "sent"
        /\ Free(s) \/ fetches' = [fetches EXCEPT ![s].stage = "ok"]
  /\ unsent' = IF f.op = "delete" THEN unsent \cup ({f.id} \cap table) ELSE unsent
  /\ UNCHANGED <<serverVars, stream, load, pageVars, screenVars, torn, astray, doomed,
                 twice, clicked>>

-----------------------------------------------------------------------------
(* Answers and events. *)

Answered(s, op) == fetches[s].op = op /\ fetches[s].stage = "ok"

(* loadRequests: the list is replaced, whatever events have put into it, then
   its rows, and a selection if there is none; the catch takes what renderList
   throws. *)
LoadDone ==
  LET l == load.data IN
  /\ load.stage = "ok"
  /\ load' = [stage |-> "done", data |-> <<>>]
  /\ list' = l
  /\ RenderList(l, filter, current)
  /\ IF current = None /\ l # <<>> /\ ~Throws(l, filter)
       THEN \E s \in Slots : /\ fetches[s] = Idle
                             /\ fetches' = [fetches EXCEPT ![s] = Sent("select", Head(l))]
       ELSE fetches' = fetches
  /\ twice' = ToSet(l) \ Old
  /\ astray' = (current # None /\ current.id \notin ToSet(l))
  /\ UNCHANGED <<serverVars, stream, filter, current, picked, shown, payload, response,
                 mark, torn, doomed, unsent, clicked>>

(* An error of the network or the server, before or after the answer. *)
LoadFails ==
  /\ load.stage \in {"sent", "ok"}
  /\ load' = [stage |-> "done", data |-> <<>>]
  /\ UNCHANGED <<serverVars, stream, fetches, pageVars, screenVars, obsVars>>

(* selectRequest, its answer: current, then the list, then the workspace. *)
SelectDone(s) ==
  LET f == fetches[s]
      c == [id |-> f.id, runs |-> f.runs]
  IN
  /\ Answered(s, "select")
  /\ Free(s)
  /\ current' = c
  /\ RenderList(list, filter, c)
  /\ IF Throws(list, filter)
       THEN torn' = TRUE /\ KeepWorkspace
       ELSE RenderWorkspace(c)
  /\ astray' = (f.id \notin ToSet(list))
  /\ UNCHANGED <<serverVars, stream, load, list, filter, doomed, unsent, twice>>

(* A 404, or a fetch that fails: a toast. *)
SelectFails(s) ==
  /\ fetches[s].op = "select"
  /\ Free(s)
  /\ astray' = (astray \/ OffList(current))
  /\ UNCHANGED <<serverVars, stream, load, pageVars, screenVars, torn, doomed, unsent,
                 twice, clicked>>

(* executeClearRequests, its answer: an empty list has nothing to throw at. *)
ClearDone(s) ==
  /\ Answered(s, "clear")
  /\ Free(s)
  /\ list' = <<>> /\ current' = None /\ astray' = FALSE
  /\ RenderList(<<>>, filter, None)
  /\ RenderWorkspace(None)
  /\ UNCHANGED <<serverVars, stream, load, filter, doomed, unsent, twice>>

(* triggerReplay's finally: selectRequest of the webhook current by now, a
   TypeError if there is none. *)
ReplayDone(s) ==
  /\ Answered(s, "replay")
  /\ fetches' = [fetches EXCEPT ![s] = IF current = None THEN Idle
                                       ELSE Sent("select", current.id)]
  /\ UNCHANGED <<serverVars, stream, load, pageVars, screenVars, obsVars>>

(* onmessage: the list, its rows, and a selection if there is none.  If
   renderList throws, that is the end of it. *)
OnEvent ==
  LET w == Head(stream)
      l == <<w>> \o list
  IN
  /\ stream # <<>>
  /\ stream' = Tail(stream)
  /\ list' = l
  /\ RenderList(l, filter, current)
  /\ IF current = None /\ ~Throws(l, filter)
       THEN \E s \in Slots : /\ fetches[s] = Idle
                             /\ fetches' = [fetches EXCEPT ![s] = Sent("select", w)]
       ELSE fetches' = fetches
  /\ UNCHANGED <<serverVars, load, filter, current, picked, shown, payload, response, mark,
                 obsVars>>

-----------------------------------------------------------------------------
(* What the user does. *)

(* A row, which may be of a list that has changed since. *)
Click(s, w) ==
  /\ fetches[s] = Idle
  /\ w \in ToSet(rows.ids)
  /\ fetches' = [fetches EXCEPT ![s] = Sent("select", w)]
  /\ UNCHANGED <<serverVars, stream, load, pageVars, screenVars, obsVars>>

(* deleteSingleRequest, from a row or for the webhook under inspection: off
   the list, select the one that takes its place, render, and only then send
   the DELETE, which a renderList that throws prevents. *)
RemoveEntry(w, rest) ==
  /\ w \in ToSet(list)
  /\ w \in ToSet(rows.ids) \/ (shown # None /\ w = IdOf(current))
  /\ list' = rest
  /\ IF w = IdOf(current) /\ rest = <<>>
       THEN current' = None /\ RenderWorkspace(None)
       ELSE UNCHANGED <<current, torn>> /\ KeepWorkspace
  /\ RenderList(rest, filter, current')
  /\ doomed' = doomed \cup ({w} \cap table)
  /\ unsent' = IF Throws(rest, filter) THEN unsent \cup ({w} \cap table) ELSE unsent
  /\ UNCHANGED <<serverVars, stream, load, filter, astray, twice>>

(* Its first entry: a second one stays. *)
EntryOf(w) == SelectInSeq(list, LAMBDA x : x = w)

DeleteSelectsNothing(s, t, w) ==
  LET rest == RemoveAt(list, EntryOf(w)) IN
  /\ fetches[t] = Idle
  /\ RemoveEntry(w, rest)
  /\ fetches' = IF Throws(rest, filter) THEN fetches
                ELSE [fetches EXCEPT ![t] = Sent("delete", w)]

DeleteSendsNext(s, t, w) ==
  LET rest == RemoveAt(list, EntryOf(w)) IN
  /\ s # t /\ fetches[s] = Idle /\ fetches[t] = Idle
  /\ RemoveEntry(w, rest)
  /\ fetches' = IF Throws(rest, filter) \/ rest = <<>> THEN fetches
                ELSE [fetches EXCEPT ![s] = Sent("select", Head(rest)),
                                     ![t] = Sent("delete", Head(rest))]

Delete(s, t, w) ==
  LET idx     == EntryOf(w)
      rest    == RemoveAt(list, idx)
      next    == rest[IF idx <= Len(rest) THEN idx ELSE Len(rest)]
      selects == w = IdOf(current) /\ rest # <<>>
      sends   == ~Throws(rest, filter)
  IN
  /\ RemoveEntry(w, rest)
  /\ selects => fetches[s] = Idle
  /\ sends => fetches[t] = Idle
  /\ s # t <=> selects /\ sends
  /\ fetches' = [u \in Slots |-> IF u = s /\ selects THEN Sent("select", next)
                                 ELSE IF u = t /\ sends THEN Sent("delete", w)
                                 ELSE fetches[u]]

(* executeClearRequests; its button is disabled while it runs. *)
Clear(s) ==
  /\ fetches[s] = Idle
  /\ \A t \in Slots : fetches[t].op # "clear"
  /\ fetches' = [fetches EXCEPT ![s] = Sent("clear", None)]
  /\ UNCHANGED <<serverVars, stream, load, pageVars, screenVars, obsVars>>

(* triggerReplay, whose button is disabled while it runs (see Dashboard), or the
   edit form, which goes on being open (see Dialogs). *)
Replay(s) ==
  /\ fetches[s] = Idle
  /\ shown # None /\ current # None
  /\ fetches' = [fetches EXCEPT ![s] = Sent("replay", current.id)]
  /\ UNCHANGED <<serverVars, stream, load, pageVars, screenVars, obsVars>>

(* setMethodFilter, setSourceFilter and applyFilters: one control at a time. *)
SetFilter(f) ==
  /\ f # filter
  /\ f.buttons = filter.buttons \/ f.search = filter.search
  /\ filter' = f
  /\ RenderList(list, f, current)
  /\ UNCHANGED <<serverVars, stream, load, fetches, list, current, picked,
                 shown, payload, response, mark, obsVars>>

(* setFormat renders the payload of the current webhook, in the other format. *)
SetFormat ==
  /\ shown # None /\ current # None
  /\ RenderPayload(current)
  /\ UNCHANGED <<serverVars, stream, load, fetches, list, filter, current, picked,
                 rows, shown, response, mark, obsVars>>

(* A click on an attempt of the history displayed: its response is displayed,
   the highlight stays where it is. *)
SelectAttempt(n) ==
  LET a == [id |-> shown.id, n |-> n] IN
  /\ shown # None /\ current # None
  /\ n \in 1..shown.runs
  /\ PickAttempt(current, a)
  /\ clicked' = (mark # None /\ mark # a)
  /\ UNCHANGED <<serverVars, stream, load, fetches, list, filter, current, rows, shown,
                 payload, mark, torn, astray, doomed, unsent, twice>>

Next ==
  \/ \E w \in Webhooks : Capture(w)
  \/ HandleLoad \/ LoadDone \/ LoadFails \/ OnEvent
  \/ \E s \in Slots : \/ Handle(s) \/ Fail(s)
                      \/ SelectDone(s) \/ SelectFails(s)
                      \/ ClearDone(s) \/ ReplayDone(s)
                      \/ Clear(s) \/ Replay(s)
  \/ \E s \in Slots, w \in Webhooks : Click(s, w)
  \/ \E s, t \in Slots, w \in Webhooks : Delete(s, t, w)
  \/ \E f \in Settings : SetFilter(f)
  \/ SetFormat
  \/ \E n \in 1..MaxRuns : SelectAttempt(n)

Spec == Init /\ [][Next]_vars

-----------------------------------------------------------------------------
(* The rows are those of the list behind the filters as they are now, with the
   row of the webhook under inspection marked, unless one of the entries makes
   renderList throw: then they are as old as the search (app.js:101-181). *)
RowsTrue == rows = Rendered(list, filter, current) \/ Throws(list, filter)

(* The workspace is that of window.currentRequest, which its buttons act on,
   unless renderList threw since the answer came (app.js:205-250). *)
ShownTrue == shown = current \/ torn

(* The response displayed belongs to the webhook displayed and is the attempt
   selected, and the payload is its payload, whatever was selected before, of
   which webhook, and whatever came late
   (app.js:252-269, 317-322, 355-382). *)
PanesTrue ==
  shown # None /\ ~torn =>
    /\ payload = shown.id
    /\ response = None <=> shown.runs = 0
    /\ response # None => response = picked /\ Of(response, shown)

(* The attempt highlighted in the history is one of its own, never that of a
   webhook inspected before, and is the one whose response is displayed, unless
   the last click was on another one: the highlight is as old as the rendering,
   and there is none when a history is opened (app.js:328-336, 364-368). *)
MarkTrue ==
  shown # None /\ ~torn /\ mark # None =>
    Of(mark, shown) /\ (mark = response <=> ~clicked)

(* What the page displays is what its variables say, in rows, workspace and
   panes, in whichever order answers come, but for the highlight in the history,
   which says what was selected when it was rendered (app.js:101-181, 205-269,
   317-382). *)
ScreenTrue == RowsTrue /\ ShownTrue /\ PanesTrue /\ MarkTrue

(* A webhook under inspection that is off the list has its successor on the
   way, unless that failed, the answer to an older click came after its
   deletion, or the load came without it (app.js:86-99, 205-215, 554-563). *)
GhostExplained ==
  OffList(current) =>
    \/ astray
    \/ \E s \in Slots : fetches[s].op = "select"

(* A webhook the user deleted is off the list for good, unless the load and an
   event have both listed it, or have still to: the click takes one of two
   entries off, or the other comes later.  And the server is about to delete it
   too, unless the request failed or renderList threw before it was sent
   (app.js:13-19, 86-93, 546-577). *)
DeletionReaches ==
  /\ doomed \cap ToSet(list) \subseteq twice \ ToSet(stream)
  /\ \A w \in doomed \ unsent :
       \E s \in Slots : /\ fetches[s].op = "delete" /\ fetches[s].id = w
                       /\ fetches[s].stage = "sent"
=============================================================================
