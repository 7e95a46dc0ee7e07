------------------------------- MODULE Ingest -------------------------------
(***************************************************************************)
(* From a provider's webhook to the dashboards: the capture handler        *)
(* (internal/capture), the requests table it writes to, the broker (as     *)
(* EventFeed, which Broker.tla implements) and the SSE handler, with       *)
(* clients that disconnect or stall, deletions through the API, shutdown,  *)
(* crash and restart.                                                      *)
(*                                                                         *)
(* Every HTTP request has a goroutine of its own; the steps below are what *)
(* such goroutines do between two points where others can run.             *)
(***************************************************************************)
EXTENDS Naturals, Sequences, FiniteSets

CONSTANTS
  Requests, Conns, Capacity,   \* as in EventFeed
  MaxRestarts,                 \* bound: how often the process is started again
  MaxErased                    \* bound: how many webhooks clients delete

ASSUME IngestAssumption ==
  /\ Capacity \in Nat \ {0}
  /\ MaxRestarts \in Nat
  /\ MaxErased \in Nat

VARIABLES
  sub, chan, phase, offers, received, missed, audience, prior,  \* EventFeed
  server,     \* the process: "up", "closing" (httpServer.Close()), "down"
  restarts,
  rows,       \* ids in the requests table
  pc,         \* pc[r]: where the capture handler of r is
  status,     \* status[r]: the HTTP status it decided on, 0 before
  cancelled,  \* captures whose r.Context() is done: nobody reads the answer
  conn,       \* conn[c]: where the SSE handler of c is
  healthy,    \* SSE connections whose client keeps reading; fixed
  ended,      \* SSE connections whose r.Context() is done
  (* observation only *)
  answered,   \* captures whose answer reached the provider
  erased,     \* ids that DELETE took out of the table
  screen,     \* screen[c]: the events written to c's client
  before,     \* before[r]: captures answered 200 before r arrived
  watching    \* watching[r]: connections subscribed when r arrived

feedVars == <<sub, chan, phase, offers, received, missed, audience, prior>>
captureVars == <<pc, status, cancelled, answered, before, watching>>
sseVars  == <<conn, healthy, ended, screen>>
dbVars   == <<rows, erased>>
procVars == <<server, restarts>>
vars == <<feedVars, captureVars, sseVars, dbVars, procVars>>

Feed == INSTANCE EventFeed

Statuses == {200, 400, 500}

TypeOK ==
  /\ Feed!TypeOK
  /\ server    \in {"up", "closing", "down"}
  /\ restarts  \in 0..MaxRestarts
  /\ rows      \subseteq Requests
  /\ pc        \in [Requests -> {"new", "reading", "saving", "publishing",
                                 "responding", "done", "dead"}]
  /\ status    \in [Requests -> Statuses \cup {0}]
  /\ cancelled \subseteq Requests
  /\ conn      \in [Conns -> {"new", "selecting", "writing", "leaving", "gone"}]
  /\ healthy   \subseteq Conns
  /\ ended     \subseteq Conns
  /\ answered  \subseteq Requests
  /\ erased    \subseteq Requests
  /\ screen    \in [Conns -> Seq(Requests)]
  /\ before    \in [Requests -> SUBSET Requests]
  /\ watching  \in [Requests -> SUBSET Conns]

Init ==
  /\ Feed!Init
  /\ server    = "up"
  /\ restarts  = 0
  /\ rows      = {}
  /\ pc        = [r \in Requests |-> "new"]
  /\ status    = [r \in Requests |-> 0]
  /\ cancelled = {}
  /\ conn      = [c \in Conns |-> "new"]
  /\ healthy   \in SUBSET Conns
  /\ ended     = {}
  /\ answered  = {}
  /\ erased    = {}
  /\ screen    = [c \in Conns |-> <<>>]
  /\ before    = [r \in Requests |-> {}]
  /\ watching  = [r \in Requests |-> {}]

Running == {r \in Requests : pc[r] \notin {"new", "done", "dead"}}
Acked   == {r \in answered : status[r] = 200}

-----------------------------------------------------------------------------
(* The capture handler. *)

Goto(r, next) == pc' = [pc EXCEPT ![r] = next]

(* A webhook arrives at /wh/ and its handler starts on the body. *)
Arrive(r) ==
  /\ server = "up"
  /\ pc[r] = "new"
  /\ Goto(r, "reading")
  /\ before' = [before EXCEPT ![r] = Acked]
  /\ watching' = [watching EXCEPT ![r] = Feed!Open]
  /\ UNCHANGED <<feedVars, status, cancelled, answered, sseVars, dbVars, procVars>>

ReadBody(r) ==
  /\ pc[r] = "reading"
  /\ Goto(r, "saving")
  /\ UNCHANGED <<feedVars, status, cancelled, answered, before, watching,
                 sseVars, dbVars, procVars>>

Reject(r, from, code) ==
  /\ pc[r] = from
  /\ Goto(r, "responding")
  /\ status' = [status EXCEPT ![r] = code]
  /\ UNCHANGED <<feedVars, cancelled, answered, before, watching, sseVars, procVars>>

(* Over maxBodyBytes, or the client hung up: 400. *)
ReadFails(r) ==
  /\ Reject(r, "reading", 400)
  /\ UNCHANGED dbVars

SaveReportsError(r) ==
  /\ Reject(r, "saving", 500)
  /\ rows' = rows \cup {r}
  /\ UNCHANGED erased

SaveErrorIgnored(r) ==
  /\ pc[r] = "saving"
  /\ Goto(r, "publishing")
  /\ UNCHANGED <<feedVars, status, cancelled, answered, before, watching,
                 sseVars, dbVars, procVars>>

(* SaveRequest returned nil: the row is committed. *)
Save(r) ==
  /\ pc[r] = "saving"
  /\ Goto(r, "publishing")
  /\ rows' = rows \cup {r}
  /\ UNCHANGED <<feedVars, status, cancelled, answered, before, watching,
                 sseVars, erased, procVars>>

(* SaveRequest returned an error without inserting: disk, lock, closed db. *)
SaveFails(r) ==
  /\ Reject(r, "saving", 500)
  /\ UNCHANGED dbVars

(* The context ended during ExecContext, which then reports an error even if
   the INSERT went through. *)
SaveInterrupted(r) ==
  /\ r \in cancelled
  /\ Reject(r, "saving", 500)
  /\ rows' \in {rows, rows \cup {r}}
  /\ UNCHANGED erased

PublishAsync(r) ==
  /\ pc[r] = "publishing"
  /\ Feed!Begin(r)
  /\ Goto(r, "responding")
  /\ status' = [status EXCEPT ![r] = 200]
  /\ UNCHANGED <<cancelled, answered, before, watching, sseVars, dbVars, procVars>>

(* h.broker.Publish(req): it begins, visits the channels, and returns. *)
PublishBegin(r) ==
  /\ pc[r] = "publishing"
  /\ Feed!Begin(r)
  /\ UNCHANGED <<captureVars, sseVars, dbVars, procVars>>

PublishOfferBlocks(r, c) ==
  /\ Len(chan[c]) < Capacity
  /\ Feed!Offer(r, c)
  /\ UNCHANGED <<captureVars, sseVars, dbVars, procVars>>

PublishOffer(r, c) ==
  /\ Feed!Offer(r, c)
  /\ UNCHANGED <<captureVars, sseVars, dbVars, procVars>>

PublishEndAccepted(r) ==
  /\ pc[r] = "publishing"
  /\ Feed!End(r)
  /\ Goto(r, "responding")
  /\ status' = [status EXCEPT ![r] = 202]
  /\ UNCHANGED <<cancelled, answered, before, watching, sseVars, dbVars, procVars>>

PublishEnd(r) ==
  /\ pc[r] = "publishing"
  /\ Feed!End(r)
  /\ Goto(r, "responding")
  /\ status' = [status EXCEPT ![r] = 200]
  /\ UNCHANGED <<cancelled, answered, before, watching, sseVars, dbVars, procVars>>

(* The answer is written; if the client is gone nobody gets it. *)
Respond(r) ==
  /\ pc[r] = "responding"
  /\ Goto(r, "done")
  /\ answered' = answered \cup ({r} \ cancelled)
  /\ UNCHANGED <<feedVars, status, cancelled, before, watching, sseVars, dbVars, procVars>>

(* The provider hangs up or times out: net/http ends r.Context(). *)
HangUp(r) ==
  /\ r \in Running
  /\ cancelled' = cancelled \cup {r}
  /\ UNCHANGED <<feedVars, pc, status, answered, before, watching,
                 sseVars, dbVars, procVars>>

-----------------------------------------------------------------------------
(* The SSE handler: GET /api/events. *)

Connect(c) ==
  /\ server = "up"
  /\ conn[c] = "new"
  /\ Feed!Subscribe(c)
  /\ conn' = [conn EXCEPT ![c] = "selecting"]
  /\ UNCHANGED <<captureVars, healthy, ended, screen, dbVars, procVars>>

(* select: case req := <-ch. *)
Take(c) ==
  /\ conn[c] = "selecting"
  /\ Feed!Receive(c)
  /\ conn' = [conn EXCEPT ![c] = "writing"]
  /\ UNCHANGED <<captureVars, healthy, ended, screen, dbVars, procVars>>

WriteOnce(c) ==
  /\ conn[c] = "writing"
  /\ conn' = [conn EXCEPT ![c] = "leaving"]
  /\ screen' = IF c \in ended THEN screen
               ELSE [screen EXCEPT ![c] = Append(@, received[c][Len(received[c])])]
  /\ UNCHANGED <<feedVars, captureVars, healthy, ended, dbVars, procVars>>

(* Fprintf and Flush return: the event is out, or the connection is closed
   (the error is ignored) and it is lost.  Against a client that does not
   read, they do not return. *)
Write(c) ==
  /\ conn[c] = "writing"
  /\ conn' = [conn EXCEPT ![c] = "selecting"]
  /\ screen' = IF c \in ended THEN screen
               ELSE [screen EXCEPT ![c] = Append(@, received[c][Len(received[c])])]
  /\ UNCHANGED <<feedVars, captureVars, healthy, ended, dbVars, procVars>>

StopWithoutUnsubscribe(c) ==
  /\ conn[c] = "selecting"
  /\ c \in ended
  /\ conn' = [conn EXCEPT ![c] = "gone"]
  /\ UNCHANGED <<feedVars, captureVars, healthy, ended, screen, dbVars, procVars>>

(* select: case <-ctx.Done(); either case may be chosen if both are ready. *)
Stop(c) ==
  /\ conn[c] = "selecting"
  /\ c \in ended
  /\ conn' = [conn EXCEPT ![c] = "leaving"]
  /\ UNCHANGED <<feedVars, captureVars, healthy, ended, screen, dbVars, procVars>>

(* The deferred Unsubscribe. *)
Leave(c) ==
  /\ conn[c] = "leaving"
  /\ Feed!Unsubscribe(c)
  /\ conn' = [conn EXCEPT ![c] = "gone"]
  /\ UNCHANGED <<captureVars, healthy, ended, screen, dbVars, procVars>>

Disconnect(c) ==
  /\ conn[c] \in {"selecting", "writing"}
  /\ ended' = ended \cup {c}
  /\ UNCHANGED <<feedVars, captureVars, conn, healthy, screen, dbVars, procVars>>

-----------------------------------------------------------------------------
(* DELETE FROM requests, with or without WHERE id = ?: one statement. *)
Delete(ids) ==
  /\ server = "up"
  /\ ids \cap rows # {}
  /\ Cardinality(erased \cup (ids \cap rows)) <= MaxErased
  /\ rows' = rows \ ids
  /\ erased' = erased \cup (ids \cap rows)
  /\ UNCHANGED <<feedVars, captureVars, sseVars, procVars>>

DeleteRequest(r) == Delete({r})   \* DELETE /api/requests/{id}
ClearRequests == Delete(Requests) \* DELETE /api/requests

(* SIGTERM: httpServer.Close() closes every connection, waits for no handler. *)
Shutdown ==
  /\ server = "up"
  /\ server' = "closing"
  /\ cancelled' = cancelled \cup Running
  /\ ended' = ended \cup {c \in Conns : conn[c] \notin {"new", "gone"}}
  /\ UNCHANGED <<feedVars, pc, status, answered, before, watching,
                 conn, healthy, screen, dbVars, restarts>>

(* main returns after Shutdown, or the process is killed at any point: its
   goroutines and the broker go with it, the table stays. *)
Exit ==
  /\ server # "down"
  /\ server' = "down"
  /\ pc'     = [r \in Requests |-> IF r \in Running THEN "dead" ELSE pc[r]]
  /\ conn'   = [c \in Conns |-> IF conn[c] = "new" THEN "new" ELSE "gone"]
  /\ ended'  = ended \cup {c \in Conns : conn[c] # "new"}
  /\ sub'    = [c \in Conns |-> IF sub[c] = "open" THEN "closed" ELSE sub[c]]
  /\ offers' = [r \in Requests |-> {}]
  /\ UNCHANGED <<chan, phase, received, missed, audience, prior, status,
                 cancelled, answered, before, watching, healthy, screen, dbVars, restarts>>

(* NewSqliteStore on the same file: CREATE TABLE IF NOT EXISTS keeps the rows. *)
Restart ==
  /\ server = "down"
  /\ restarts < MaxRestarts
  /\ server' = "up"
  /\ restarts' = restarts + 1
  /\ UNCHANGED <<feedVars, captureVars, sseVars, dbVars>>

-----------------------------------------------------------------------------
Capture(r) ==
  \/ Arrive(r) \/ ReadBody(r) \/ ReadFails(r)
  \/ Save(r) \/ SaveFails(r) \/ SaveInterrupted(r)
  \/ PublishBegin(r) \/ PublishEnd(r) \/ Respond(r)
  \/ HangUp(r)

Stream(c) == Connect(c) \/ Take(c) \/ Write(c) \/ Stop(c) \/ Leave(c) \/ Disconnect(c)

Next ==
  \/ \E r \in Requests : Capture(r)
  \/ \E c \in Conns : Stream(c)
  \/ \E r \in Requests, c \in Conns : PublishOffer(r, c)
  \/ \E r \in Requests : DeleteRequest(r)
  \/ ClearRequests
  \/ Shutdown \/ Exit \/ Restart

Spec == Init /\ [][Next]_vars

(***************************************************************************)
(* The handlers' own steps happen: the database answers, the lock is       *)
(* granted (PublishReturns of Broker), and select, choosing at random,     *)
(* cannot pass over a context that is done for ever (SF).  Writing to a    *)
(* client returns if the client reads or the connection is closed; what    *)
(* the clients do, the deletions and the process's end are not fair.       *)
(***************************************************************************)
CaptureStep(r) ==
  \/ Save(r) \/ SaveFails(r)
  \/ PublishBegin(r) \/ (\E c \in Conns : PublishOffer(r, c)) \/ PublishEnd(r)
  \/ Respond(r)

StreamStep(c) ==
  \/ Take(c) \/ Leave(c)
  \/ c \in healthy \cup ended /\ Write(c)

Fairness ==
  /\ \A r \in Requests : WF_vars(CaptureStep(r))
  /\ \A c \in Conns : WF_vars(StreamStep(c)) /\ SF_vars(Stop(c))

FairSpec == Spec /\ Fairness

-----------------------------------------------------------------------------
Elements(s) == {s[i] : i \in 1..Len(s)}

(* Ids that are or were in the table: only a DELETE takes one out. *)
Stored == rows \cup erased

(* Persist before publish: whatever a dashboard was or is about to be shown
   was committed first, so that a crash leaves no ghost on a screen
   (handler.go:57-64). *)
NoGhosts ==
  /\ \A c \in Conns : Feed!Accepted(c) \subseteq Stored
  /\ \A r \in Requests : offers[r] # {} => r \in Stored

(* A provider that got its 200 need not send again: the webhook is in the
   table, through any crash and restart, until a client deletes it. *)
AckDurable == Acked \subseteq Stored

(* A provider that got a 400 or a 500 may send again without making a double:
   that webhook is in no table and on no dashboard. *)
RejectedLeavesNoTrace ==
  \A r \in answered \ Acked :
    r \notin Stored /\ \A c \in Conns : r \notin Feed!Accepted(c)

(* A dashboard connected from before the webhook arrived until now has every
   webhook answered 200: on its screen, being written, in its channel, or
   dropped because that channel was full. *)
AckStreamed ==
  \A r \in Acked : \A c \in watching[r] \ ended :
    \/ r \in Elements(screen[c]) \cup Elements(chan[c]) \cup missed[c]
    \/ conn[c] = "writing" /\ r = received[c][Len(received[c])]

(* A dashboard shows no webhook twice, nor a webhook before one that had been
   answered when it arrived. *)
CausalOrder ==
  \A c \in Conns : \A i, j \in 1..Len(screen[c]) :
    i < j => /\ screen[c][i] # screen[c][j]
             /\ screen[c][j] \notin before[screen[c][i]]

-----------------------------------------------------------------------------
(* What is known of a webhook at each point of its capture. *)
Life ==
  \A r \in Requests :
    /\ pc[r] \in {"new", "reading", "saving"} =>
         status[r] = 0 /\ r \notin Stored /\ phase[r] = "idle"
    /\ pc[r] = "publishing" => status[r] = 0 /\ r \in Stored
    /\ pc[r] = "responding" => status[r] # 0
    /\ status[r] = 200 => r \in Stored /\ phase[r] = "done"
    /\ status[r] \in {400, 500} =>
         phase[r] = "idle" /\ (r \in Stored => r \in cancelled)
    /\ r \in answered =>
         pc[r] = "done" /\ status[r] # 0 /\ (status[r] # 200 => r \notin Stored)
    /\ phase[r] # "idle" => r \in Stored
    /\ offers[r] # {} => phase[r] = "sending"

(* Only what was published is in a channel or was taken out of one. *)
OnlyPublished ==
  \A c \in Conns : \A r \in Feed!Accepted(c) : phase[r] # "idle"

(* A handler that is writing has taken the event it writes. *)
WriterHoldsEvent == \A c \in Conns : conn[c] = "writing" => received[c] # <<>>

(* The inductive invariant behind NoGhosts, AckDurable and
   RejectedLeavesNoTrace: a row is there before the publish, the answer 200
   comes after it, and an answer that reached a provider is final. *)
Inv == TypeOK /\ Life /\ OnlyPublished /\ WriterHoldsEvent

-----------------------------------------------------------------------------
(* A webhook whose body was read is answered, or the process ends; no
   dashboard, however stalled, can hold it up (broker.go:43-48). *)
CaptureCompletes ==
  \A r \in Requests : pc[r] = "saving" ~> pc[r] \in {"done", "dead"}

(* What is buffered for a client that keeps reading gets to its screen, or
   the connection ends. *)
HealthySees ==
  \A c \in Conns, r \in Requests :
    c \in healthy /\ r \in Elements(chan[c]) ~> r \in Elements(screen[c]) \/ c \in ended

(* A connection that ended, read by its client or not, is unsubscribed: its
   goroutine and its channel do not leak. *)
ConnectionReleased ==
  \A c \in Conns : c \in ended ~> conn[c] = "gone" /\ sub[c] = "closed"
=============================================================================
