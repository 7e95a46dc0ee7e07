------------------------------- MODULE Replay -------------------------------
(***************************************************************************)
(* The replay engine: POST /api/requests/{id}/replay (internal/server and  *)
(* internal/replay), the target server it sends to, the tables requests    *)
(* and replay_attempts it reads and writes, deletions that run meanwhile,  *)
(* and GET /api/requests/{id}, which shows the history.                    *)
(*                                                                         *)
(* A call is one replay request to the API; it makes at most one attempt,  *)
(* so an attempt is named by its call.  A view is one GET of a webhook's   *)
(* details.  Each runs in a goroutine of its own; every SQL statement is   *)
(* one step.                                                               *)
(***************************************************************************)
EXTENDS Naturals, FiniteSets, Overrides

CONSTANTS
  Requests,     \* captured webhooks that are in the table at the start
  Calls,        \* replay calls
  Views,        \* detail requests
  Inputs,       \* what a replay call may ask for, see Overrides!InputType
  Codes         \* HTTP status codes a target answers with

ASSUME ReplayAssumption ==
  /\ Inputs \subseteq InputType
  /\ Codes \subseteq 100..599

VARIABLES
  foreignKeys, \* does the database enforce foreign keys?
  faults,     \* may a statement fail though nothing is wrong with it (disk, lock)?
  requests,   \* ids in table requests
  attempts,   \* calls with a row in table replay_attempts
  pc,         \* pc[k]: where the handler of call k is
  id,         \* id[k]: the webhook of call k (the path)
  input,      \* input[k]: what call k asks for
  sent,       \* sent[k]: the request it sends to the target
  code,       \* code[k]: attempt.StatusCode, 0 after a failed Do
  body,       \* body[k]: attempt.ResponseBody, "none" before it is read
  http,       \* http[k]: status of the answer, 0 before
  cancelled,  \* calls whose r.Context() is done
  view,       \* view[v]: where the handler of view v is
  subject,    \* subject[v]: the webhook it is about
  shown,      \* shown[v]: the attempts it answers with
  (* the target and the way to it *)
  reply,      \* reply[k]: the status the target sent to call k, 0 if none
  whole,      \* calls whose target has sent its body to the end
  broken,     \* calls whose connection to the target was refused or broke
  (* observation *)
  answered,   \* calls whose answer reached the client
  erased,     \* webhooks taken out of the table
  late,       \* calls that arrived when their webhook was already erased
  known       \* known[v]: attempts recorded and answered before v began

targetVars == <<reply, whole, broken>>
replayVars == <<pc, id, input, sent, code, body, http, cancelled, answered, late>>
viewVars   == <<view, subject, shown, known>>
dbVars     == <<foreignKeys, faults, requests, attempts, erased>>
vars == <<dbVars, targetVars, replayVars, viewVars>>

Message == [target : {"default", "query", "custom", "bad"},
            method : {"stored", "custom"}, headers : {"stored", "custom"},
            body : {"stored", "custom"}]

NoMessage == [target |-> "default", method |-> "stored",
              headers |-> "stored", body |-> "stored"]

TypeOK ==
  /\ foreignKeys \in BOOLEAN
  /\ faults \in BOOLEAN
  /\ requests  \subseteq Requests
  /\ attempts  \subseteq Calls
  /\ pc        \in [Calls -> {"new", "looking", "listing", "building", "dispatching",
                              "reading", "saving", "responding", "done"}]
  /\ id        \in [Calls -> Requests]
  /\ input     \in [Calls -> InputType]
  /\ sent      \in [Calls -> Message]
  /\ code      \in [Calls -> Codes \cup {0}]
  /\ body      \in [Calls -> {"none", "cut", "whole"}]
  /\ http      \in [Calls -> {0, 200, 404, 502}]
  /\ cancelled \subseteq Calls
  /\ view      \in [Views -> {"new", "listing", "done", "missing"}]
  /\ subject   \in [Views -> Requests]
  /\ shown     \in [Views -> SUBSET Calls]
  /\ reply     \in [Calls -> Codes \cup {0}]
  /\ whole     \subseteq Calls
  /\ broken    \subseteq Calls
  /\ answered  \subseteq Calls
  /\ erased    \subseteq Requests
  /\ late      \subseteq Calls
  /\ known     \in [Views -> SUBSET Calls]

(* No PRAGMA foreign_keys is issued and SQLite has it off by default; a DSN
   given as -db may turn it on.  It does not change while the database is open.
   With faults any statement may fail, without them none does unless the caller
   is gone or a key is violated. *)
Init ==
  /\ foreignKeys \in BOOLEAN
  /\ faults \in BOOLEAN
  /\ requests  = Requests
  /\ attempts  = {}
  /\ pc        = [k \in Calls |-> "new"]
  /\ id        \in [Calls -> Requests]
  /\ input     = [k \in Calls |-> NoInput]
  /\ sent      = [k \in Calls |-> NoMessage]
  /\ code      = [k \in Calls |-> 0]
  /\ body      = [k \in Calls |-> "none"]
  /\ http      = [k \in Calls |-> 0]
  /\ cancelled = {}
  /\ view      = [v \in Views |-> "new"]
  /\ subject   \in [Views -> Requests]
  /\ shown     = [v \in Views |-> {}]
  /\ reply     = [k \in Calls |-> 0]
  /\ whole     = {}
  /\ broken    = {}
  /\ answered  = {}
  /\ erased    = {}
  /\ late      = {}
  /\ known     = [v \in Views |-> {}]

-----------------------------------------------------------------------------
Goto(k, next) == pc' = [pc EXCEPT ![k] = next]

Answer(k, status) ==
  /\ Goto(k, "responding")
  /\ http' = [http EXCEPT ![k] = status]

Arrive(k, i) ==
  /\ pc[k] = "new"
  /\ Goto(k, "looking")
  /\ input' = [input EXCEPT ![k] = i]
  /\ late' = IF id[k] \in erased THEN late \cup {k} ELSE late
  /\ UNCHANGED <<dbVars, targetVars, id, sent, code, body, http,
                 cancelled, answered, viewVars>>

LookupCached(k) ==
  /\ pc[k] = "looking"
  /\ Goto(k, "listing")
  /\ UNCHANGED <<dbVars, targetVars, id, input, sent, code, body, http,
                 cancelled, answered, late, viewVars>>

(* GetRequest, first statement: the row of the webhook. *)
Lookup(k) ==
  /\ pc[k] = "looking"
  /\ id[k] \in requests
  /\ Goto(k, "listing")
  /\ UNCHANGED <<dbVars, targetVars, id, input, sent, code, body, http,
                 cancelled, answered, late, viewVars>>

(* A statement may return an error. *)
MayFail(k) == faults \/ k \in cancelled

LookupError500(k) ==
  /\ pc[k] \in {"looking", "listing"}
  /\ Answer(k, 500)
  /\ UNCHANGED <<dbVars, targetVars, id, input, sent, code, body,
                 cancelled, answered, late, viewVars>>

(* ErrNotFound, or any other error of GetRequest's two statements: the request
   is nil then, and the handler says 404. *)
LookupFails(k) ==
  /\ \/ pc[k] = "looking" /\ (MayFail(k) \/ id[k] \notin requests)
     \/ pc[k] = "listing" /\ MayFail(k)
  /\ Answer(k, 404)
  /\ UNCHANGED <<dbVars, targetVars, id, input, sent, code, body,
                 cancelled, answered, late, viewVars>>

(* GetRequest, second statement: its attempts, of no use to a replay.  Then
   the message is put together; from here on the copy in memory is used. *)
Build(k) ==
  /\ pc[k] = "listing"
  /\ Goto(k, "building")
  /\ sent' = [sent EXCEPT ![k] = Outgoing(input[k])]
  /\ UNCHANGED <<dbVars, targetVars, id, input, code, body, http,
                 cancelled, answered, late, viewVars>>

(* http.NewRequestWithContext: a URL or method it refuses is a 502, without
   an attempt. *)
Dispatch(k) ==
  /\ pc[k] = "building"
  /\ IF sent[k].target = "bad" THEN Answer(k, 502)
     ELSE Goto(k, "dispatching") /\ http' = http
  /\ UNCHANGED <<dbVars, targetVars, id, input, sent, code, body,
                 cancelled, answered, late, viewVars>>

(* The target server gets the request and answers: its status and headers ... *)
TargetAnswers(k, s) ==
  /\ pc[k] = "dispatching"
  /\ reply[k] = 0
  /\ k \notin broken
  /\ reply' = [reply EXCEPT ![k] = s]
  /\ UNCHANGED <<dbVars, whole, broken, replayVars, viewVars>>

(* ... and later, if ever, the end of the body. *)
TargetFinishes(k) ==
  /\ pc[k] \in {"dispatching", "reading"}
  /\ reply[k] # 0
  /\ k \notin whole \cup broken
  /\ whole' = whole \cup {k}
  /\ UNCHANGED <<dbVars, reply, broken, replayVars, viewVars>>

(* The target refuses the connection, or it breaks: before the target has seen
   the request, after it has acted on it, or within its answer. *)
ConnectionBreaks(k) ==
  /\ pc[k] \in {"dispatching", "reading"}
  /\ k \notin whole \cup broken
  /\ broken' = broken \cup {k}
  /\ UNCHANGED <<dbVars, reply, whole, replayVars, viewVars>>

(* client.Do returns as soon as the headers are there. *)
DoReturns(k) ==
  /\ pc[k] = "dispatching"
  /\ reply[k] # 0
  /\ code' = [code EXCEPT ![k] = reply[k]]
  /\ Goto(k, "reading")
  /\ UNCHANGED <<dbVars, targetVars, id, input, sent, body, http,
                 cancelled, answered, late, viewVars>>

DoErrorIgnored(k) ==
  /\ pc[k] = "dispatching"
  /\ k \in broken \cup cancelled
  /\ \E s \in Codes : code' = [code EXCEPT ![k] = s]
  /\ Goto(k, "saving")
  /\ UNCHANGED <<dbVars, targetVars, id, input, sent, body, http,
                 cancelled, answered, late, viewVars>>

DoIgnoresContext(k) ==
  /\ pc[k] = "dispatching"
  /\ k \in broken
  /\ Goto(k, "saving")
  /\ UNCHANGED <<dbVars, targetVars, id, input, sent, code, body, http,
                 cancelled, answered, late, viewVars>>

(* client.Do returns an error: the code stays 0, and the error is the attempt's. *)
DoFails(k) ==
  /\ pc[k] = "dispatching"
  /\ k \in broken \cup cancelled
  /\ Goto(k, "saving")
  /\ UNCHANGED <<dbVars, targetVars, id, input, sent, code, body, http,
                 cancelled, answered, late, viewVars>>

(* io.ReadAll waits for the end of the body ... *)
ReadAll(k) ==
  /\ pc[k] = "reading"
  /\ k \in whole
  /\ body' = [body EXCEPT ![k] = "whole"]
  /\ Goto(k, "saving")
  /\ UNCHANGED <<dbVars, targetVars, id, input, sent, code, http,
                 cancelled, answered, late, viewVars>>

ReadCutUnsaved(k) ==
  /\ pc[k] = "reading"
  /\ k \in broken \cup cancelled
  /\ body' = [body EXCEPT ![k] = "cut"]
  /\ Answer(k, 502)
  /\ UNCHANGED <<dbVars, targetVars, id, input, sent, code,
                 cancelled, answered, late, viewVars>>

(* ... or is cut off: its error is dropped, and what it has read so far is
   taken for the body. *)
ReadCut(k) ==
  /\ pc[k] = "reading"
  /\ k \in broken \cup cancelled
  /\ body' = [body EXCEPT ![k] = "cut"]
  /\ Goto(k, "saving")
  /\ UNCHANGED <<dbVars, targetVars, id, input, sent, code, http,
                 cancelled, answered, late, viewVars>>

(* SaveReplayAttempt: with foreign keys enforced the webhook must still exist. *)
KeyHolds(k) == foreignKeys => id[k] \in requests

Save(k) ==
  /\ pc[k] = "saving"
  /\ KeyHolds(k)
  /\ attempts' = attempts \cup {k}
  /\ Answer(k, 200)
  /\ UNCHANGED <<foreignKeys, faults, requests, erased, targetVars, id, input, sent,
                 code, body, cancelled, answered, late, viewVars>>

SaveFailsRetries(k) ==
  /\ pc[k] = "saving"
  /\ MayFail(k) \/ ~KeyHolds(k)
  /\ Goto(k, "dispatching")
  /\ UNCHANGED <<dbVars, targetVars, id, input, sent, code, body, http,
                 cancelled, answered, late, viewVars>>

(* It returns an error; with the context done the row may be there all the
   same.  The attempt is not nil, so the client gets it with a 200. *)
SaveFails(k) ==
  /\ pc[k] = "saving"
  /\ \/ /\ MayFail(k) \/ ~KeyHolds(k)
        /\ attempts' = attempts
     \/ /\ k \in cancelled
        /\ KeyHolds(k)
        /\ attempts' = attempts \cup {k}
  /\ Answer(k, 200)
  /\ UNCHANGED <<foreignKeys, faults, requests, erased, targetVars, id, input, sent,
                 code, body, cancelled, answered, late, viewVars>>

Respond(k) ==
  /\ pc[k] = "responding"
  /\ Goto(k, "done")
  /\ answered' = answered \cup ({k} \ cancelled)
  /\ UNCHANGED <<dbVars, targetVars, id, input, sent, code, body, http,
                 cancelled, late, viewVars>>

(* The client of the call goes away. *)
HangUp(k) ==
  /\ pc[k] \notin {"new", "done"}
  /\ k \notin cancelled
  /\ cancelled' = cancelled \cup {k}
  /\ UNCHANGED <<dbVars, targetVars, pc, id, input, sent, code, body,
                 http, answered, late, viewVars>>

-----------------------------------------------------------------------------
AttemptsOf(r) == {k \in attempts : id[k] = r}

(* GET /api/requests/{id}: the row ... *)
ViewBegin(v) ==
  /\ view[v] = "new"
  /\ view' = [view EXCEPT ![v] = IF subject[v] \in requests THEN "listing" ELSE "missing"]
  /\ known' = [known EXCEPT ![v] = AttemptsOf(subject[v]) \cap answered]
  /\ UNCHANGED <<dbVars, targetVars, replayVars, subject, shown>>

ViewSkipsFailed(v) ==
  /\ view[v] = "listing"
  /\ view' = [view EXCEPT ![v] = "done"]
  /\ shown' = [shown EXCEPT ![v] = {k \in AttemptsOf(subject[v]) : code[k] # 0}]
  /\ UNCHANGED <<dbVars, targetVars, replayVars, subject, known>>

(* ... and then its attempts, in a statement of its own. *)
ViewEnd(v) ==
  /\ view[v] = "listing"
  /\ view' = [view EXCEPT ![v] = "done"]
  /\ shown' = [shown EXCEPT ![v] = AttemptsOf(subject[v])]
  /\ UNCHANGED <<dbVars, targetVars, replayVars, subject, known>>

DeleteKeepsAttempts(ids) ==
  /\ ids \cap requests # {}
  /\ requests' = requests \ ids
  /\ erased' = erased \cup (ids \cap requests)
  /\ UNCHANGED <<foreignKeys, faults, attempts, targetVars, replayVars, viewVars>>

(* DeleteRequest and ClearRequests: DELETE FROM requests.  ON DELETE CASCADE
   takes the attempts along only where foreign keys are enforced. *)
Delete(ids) ==
  /\ ids \cap requests # {}
  /\ requests' = requests \ ids
  /\ erased' = erased \cup (ids \cap requests)
  /\ attempts' = IF foreignKeys THEN {k \in attempts : id[k] \notin ids} ELSE attempts
  /\ UNCHANGED <<foreignKeys, faults, targetVars, replayVars, viewVars>>

DeleteRequest(r) == Delete({r})   \* DELETE /api/requests/{id}
ClearRequests == Delete(Requests) \* DELETE /api/requests

Next ==
  \/ \E k \in Calls : \/ \E i \in Inputs : Arrive(k, i)
                      \/ Lookup(k) \/ LookupFails(k) \/ Build(k) \/ Dispatch(k)
                      \/ DoReturns(k) \/ DoFails(k) \/ ReadAll(k) \/ ReadCut(k)
                      \/ Save(k) \/ SaveFails(k) \/ Respond(k) \/ HangUp(k)
  \/ \E k \in Calls : \/ \E s \in Codes : TargetAnswers(k, s)
                      \/ TargetFinishes(k) \/ ConnectionBreaks(k)
  \/ \E v \in Views : ViewBegin(v) \/ ViewEnd(v)
  \/ \E r \in Requests : DeleteRequest(r)
  \/ ClearRequests

Spec == Init /\ [][Next]_vars

(***************************************************************************)
(* The handler's own steps happen.  The target may never answer, nor end   *)
(* what it has begun to answer: neither Do nor ReadAll has a timeout, and  *)
(* only the end of the call's context is sure to stop them.                *)
(***************************************************************************)
HandlerStep(k) ==
  \/ Lookup(k) \/ LookupFails(k) \/ Build(k) \/ Dispatch(k)
  \/ DoReturns(k) \/ DoFails(k) \/ ReadAll(k) \/ ReadCut(k)
  \/ Save(k) \/ SaveFails(k) \/ Respond(k)

Fairness == \A k \in Calls : WF_vars(HandlerStep(k))

FairSpec == Spec /\ Fairness

-----------------------------------------------------------------------------
(* A status code in the history, or in the answer to the call, is the one the
   target gave to that very replay; a failed Do is never recorded as an answer
   (dispatcher.go:78-98). *)
AttemptTruth ==
  \A k \in attempts \cup {c \in answered : http[c] = 200} :
    code[k] # 0 => reply[k] = code[k]

(* Once a webhook is deleted, a replay asked for later is a 404: the target
   gets nothing and no attempt is recorded. *)
DeletedNotReplayed ==
  \A k \in late : /\ reply[k] = 0
                  /\ k \notin attempts
                  /\ k \in answered => http[k] = 404

(* The details of a webhook show its own attempts only, and all of those that
   were recorded and answered before the details were asked for, unless the
   webhook was deleted between the two statements and its attempts with it. *)
HistoryComplete ==
  \A v \in Views : view[v] = "done" =>
    /\ \A k \in shown[v] : id[k] = subject[v]
    /\ \/ known[v] \subseteq shown[v]
       \/ foreignKeys /\ subject[v] \in erased

(* What the target did is told: a call whose target answered leaves a row, with
   the status and the whole body unless the connection broke or the client left
   (dispatcher.go:88-98).  There is none only if the client had left, if the
   webhook was deleted during the replay and keys are enforced, or if the
   database fails; a deletion alone does not lose it. *)
AttemptKept ==
  ~faults => \A k \in Calls :
    pc[k] \in {"responding", "done"} /\ reply[k] # 0 /\ k \notin cancelled =>
      \/ /\ k \in attempts
         /\ (code[k] = reply[k] /\ body[k] = "whole") \/ k \in broken
      \/ foreignKeys /\ id[k] \in erased

(* A call whose client has gone ends, though its target never answer. *)
CancelReleases ==
  \A k \in Calls : k \in cancelled ~> pc[k] = "done"

(* A call ends once the target has answered to the end, or its connection is
   gone; a status alone does not end it, the body may never come
   (dispatcher.go:78-96). *)
AnsweredCompletes ==
  \A k \in Calls : k \in whole \cup broken ~> pc[k] = "done"

(* Where the database enforces foreign keys, as the schema expects, no attempt
   is without its webhook, not even one saved after the webhook was deleted
   (sqlite.go:62, 203-224, 274-282). *)
EnforcedNoOrphans ==
  foreignKeys => \A k \in attempts : id[k] \in requests

(* sqlite.go:62, "FOREIGN KEY(request_id) REFERENCES requests(id) ON DELETE
   CASCADE": no attempt without its webhook.  README.md:176: a DELETE
   "Permanently deletes a single webhook and its associated replay attempts." *)
NoOrphans == \A k \in attempts : id[k] \in requests

(* README.md:182: "Replays the webhook to the configured target or custom URL
   provided in the request body", with the payload of README.md:184-191, whose
   header values are strings. *)
PayloadTargetHonoured ==
  \A k \in Calls : reply[k] # 0 /\ input[k].ctype = "exact" /\ input[k].target = "custom"
                    => sent[k].target = "custom"
=============================================================================
