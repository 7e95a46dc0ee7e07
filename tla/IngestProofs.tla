---------------------------- MODULE IngestProofs ----------------------------
(***************************************************************************)
(* Proofs about Ingest, for any webhooks, connections, buffer size and     *)
(* bounds: what the provider is told, what the table holds and what the    *)
(* dashboards are shown agree, through hang-ups, failures and crashes.     *)
(***************************************************************************)
EXTENDS Ingest, TLAPS

FeedThm == INSTANCE EventFeedProofs

-----------------------------------------------------------------------------
(* The two instances of EventFeed define the same types and steps. *)
LEMMA FeedType ==
  ASSUME Feed!TypeOK, [Feed!Next]_(Feed!feedVars)
  PROVE  Feed!TypeOK'
  <1>1. FeedThm!TypeOK
    BY DEF Feed!TypeOK, FeedThm!TypeOK
  <1>2. [FeedThm!Next]_(FeedThm!feedVars)
    BY DEF Feed!Next, FeedThm!Next, Feed!feedVars, FeedThm!feedVars,
       Feed!Subscribe, FeedThm!Subscribe, Feed!Unsubscribe, FeedThm!Unsubscribe,
       Feed!Receive, FeedThm!Receive, Feed!Begin, FeedThm!Begin,
       Feed!Offer, FeedThm!Offer, Feed!End, FeedThm!End,
       Feed!Open, FeedThm!Open, Feed!Returned, FeedThm!Returned
  <1>3. FeedThm!TypeOK'
    BY <1>1, <1>2, FeedThm!TypeNext, IngestAssumption
  <1> QED
    BY <1>3 DEF Feed!TypeOK, FeedThm!TypeOK

(* What has been through a channel changes only when a Publish offers. *)
LEMMA AcceptedSame ==
  ASSUME UNCHANGED <<received, chan>>
  PROVE  \A c \in Conns : Feed!Accepted(c)' = Feed!Accepted(c)
  BY DEF Feed!Accepted, Feed!Log

(* Channels hold captured requests. *)
LEMMA AcceptedRequests ==
  ASSUME Feed!TypeOK
  PROVE  \A c \in Conns : Feed!Accepted(c) \subseteq Requests
  <1> SUFFICES ASSUME NEW c \in Conns
               PROVE  Feed!Accepted(c) \subseteq Requests
    OBVIOUS
  <1>1. received[c] \in Seq(Requests) /\ chan[c] \in Seq(Requests)
    BY DEF Feed!TypeOK
  <1>2. Feed!Log(c) \in Seq(Requests)
    BY <1>1 DEF Feed!Log
  <1> QED
    BY <1>2 DEF Feed!Accepted

(* Taking an event out of a channel leaves every log as it is. *)
LEMMA LogsReceive ==
  ASSUME Feed!TypeOK, NEW c \in Conns, Feed!Receive(c)
  PROVE  \A d \in Conns : Feed!Log(d)' = Feed!Log(d)
  <1> SUFFICES ASSUME NEW d \in Conns
               PROVE  Feed!Log(d)' = Feed!Log(d)
    OBVIOUS
  <1>1. received[d] \in Seq(Requests) /\ chan[d] \in Seq(Requests)
    BY DEF Feed!TypeOK
  <1>2. CASE d # c
    BY <1>2 DEF Feed!TypeOK, Feed!Receive, Feed!Log
  <1>3. CASE d = c
    <2>1. Feed!Log(c)' = Append(received[c], Head(chan[c])) \o Tail(chan[c])
      BY DEF Feed!TypeOK, Feed!Receive, Feed!Log
    <2>2. chan[c] # <<>>
      BY DEF Feed!Receive
    <2> QED
      BY <1>1, <1>3, <2>1, <2>2, FeedThm!LogReceive DEF Feed!Log
  <1> QED
    BY <1>2, <1>3

LEMMA AcceptedReceive ==
  ASSUME Feed!TypeOK, NEW c \in Conns, Feed!Receive(c)
  PROVE  \A d \in Conns : Feed!Accepted(d)' = Feed!Accepted(d)
  BY LogsReceive DEF Feed!Accepted

(* An offer appends its event to the log of the channel it visits, if there
   is room, and leaves the others alone. *)
LEMMA LogsOffer ==
  ASSUME Feed!TypeOK, NEW r \in Requests, NEW c \in Conns, Feed!Offer(r, c)
  PROVE  \A d \in Conns :
           Feed!Log(d)' = IF d = c /\ Len(chan[c]) < Capacity
                            THEN Append(Feed!Log(d), r) ELSE Feed!Log(d)
  <1> SUFFICES ASSUME NEW d \in Conns
               PROVE  Feed!Log(d)' = IF d = c /\ Len(chan[c]) < Capacity
                                       THEN Append(Feed!Log(d), r) ELSE Feed!Log(d)
    OBVIOUS
  <1>1. received[d] \in Seq(Requests) /\ chan[d] \in Seq(Requests)
    BY DEF Feed!TypeOK
  <1>2. CASE d = c /\ Len(chan[c]) < Capacity
    <2>1. Feed!Log(d)' = received[d] \o Append(chan[d], r)
      BY <1>2 DEF Feed!TypeOK, Feed!Offer, Feed!Log
    <2>2. received[d] \o Append(chan[d], r) = Append(received[d] \o chan[d], r)
      <3> DEFINE a == received[d]
                 b == chan[d]
      <3>1. a \in Seq(Requests) /\ b \in Seq(Requests)
        BY <1>1
      <3> HIDE DEF a, b
      <3>2. a \o Append(b, r) = Append(a \o b, r)
        BY <3>1, FeedThm!LogAppend
      <3> QED
        BY <3>2 DEF a, b
    <2> QED
      BY <1>2, <2>1, <2>2 DEF Feed!Log
  <1>3. CASE ~(d = c /\ Len(chan[c]) < Capacity)
    BY <1>3 DEF Feed!TypeOK, Feed!Offer, Feed!Log
  <1> QED
    BY <1>2, <1>3

(* Logs are sequences of requests. *)
LEMMA LogTypes ==
  ASSUME Feed!TypeOK
  PROVE  \A c \in Conns : Feed!Log(c) \in Seq(Requests)
  BY DEF Feed!TypeOK, Feed!Log

LEMMA AcceptedOffer ==
  ASSUME Feed!TypeOK, NEW r \in Requests, NEW c \in Conns, Feed!Offer(r, c)
  PROVE  \A d \in Conns : Feed!Accepted(d)' \subseteq Feed!Accepted(d) \cup {r}
  <1> SUFFICES ASSUME NEW d \in Conns
               PROVE  Feed!Accepted(d)' \subseteq Feed!Accepted(d) \cup {r}
    OBVIOUS
  <1>1. Feed!Log(d) \in Seq(Requests)
    BY LogTypes
  <1>2. CASE Feed!Log(d)' = Append(Feed!Log(d), r)
    BY <1>1, <1>2, FeedThm!AppendElements DEF Feed!Accepted
  <1>3. CASE Feed!Log(d)' = Feed!Log(d)
    BY <1>3 DEF Feed!Accepted
  <1> QED
    BY <1>2, <1>3, LogsOffer

-----------------------------------------------------------------------------
(* Steps in which the broker does nothing. *)
LEMMA QuietType ==
  ASSUME Feed!TypeOK, UNCHANGED feedVars
  PROVE  Feed!TypeOK'
  BY FeedType DEF feedVars, Feed!feedVars

LEMMA QuietPublished ==
  ASSUME OnlyPublished, UNCHANGED feedVars
  PROVE  OnlyPublished'
  BY AcceptedSame DEF feedVars, OnlyPublished

(* Steps that leave the SSE handlers, and what they took, alone. *)
LEMMA SameWriters ==
  ASSUME WriterHoldsEvent, UNCHANGED <<received, conn>>
  PROVE  WriterHoldsEvent'
  BY DEF WriterHoldsEvent

-----------------------------------------------------------------------------
(* The initial states. *)
LEMMA InitInv ==
  ASSUME Init
  PROVE  Inv
  <1>1. TypeOK
    BY IngestAssumption DEF Init, Feed!Init, TypeOK, Feed!TypeOK, Statuses
  <1>2. Life
    BY DEF Init, Feed!Init, Life, Stored
  <1>3. \A c \in Conns : Feed!Accepted(c) = {}
    <2>1. \A c \in Conns : Feed!Log(c) = <<>>
      BY DEF Init, Feed!Init, Feed!Log
    <2> QED
      BY <2>1 DEF Feed!Accepted
  <1>4. OnlyPublished
    BY <1>3 DEF OnlyPublished
  <1>5. WriterHoldsEvent
    BY DEF Init, WriterHoldsEvent
  <1> QED
    BY <1>1, <1>2, <1>4, <1>5 DEF Inv

-----------------------------------------------------------------------------
(* The capture handler up to the broker: nothing is published yet. *)
LEMMA ReceivingInv ==
  ASSUME Inv, NEW r \in Requests, Arrive(r) \/ ReadBody(r) \/ ReadFails(r)
  PROVE  Inv'
  <1>1. UNCHANGED feedVars
    BY DEF Arrive, ReadBody, ReadFails, Reject
  <1>2. TypeOK'
    <2>1. Acked \subseteq Requests /\ Feed!Open \subseteq Conns
      BY DEF Inv, TypeOK, Acked, Feed!Open
    <2>2. CASE Arrive(r)
      BY <1>1, <2>1, <2>2, QuietType
         DEF Inv, TypeOK, Arrive, Goto, sseVars, dbVars, procVars
    <2>3. CASE ReadBody(r)
      BY <1>1, <2>3, QuietType
         DEF Inv, TypeOK, ReadBody, Goto, sseVars, dbVars, procVars
    <2>4. CASE ReadFails(r)
      BY <1>1, <2>4, QuietType
         DEF Inv, TypeOK, ReadFails, Reject, Goto, Statuses, sseVars, dbVars, procVars
    <2> QED
      BY <2>2, <2>3, <2>4
  <1>3. Life'
    BY <1>1 DEF Inv, TypeOK, Life, Stored, feedVars, dbVars,
                Arrive, ReadBody, ReadFails, Reject, Goto
  <1>4. WriterHoldsEvent'
    BY SameWriters DEF Inv, Arrive, ReadBody, ReadFails, Reject, sseVars, feedVars
  <1> QED
    BY <1>1, <1>2, <1>3, <1>4, QuietPublished DEF Inv

(* SaveRequest: a row and no error, no row and an error, or, when the context
   ended, an error and perhaps a row. *)
LEMMA SavingInv ==
  ASSUME Inv, NEW r \in Requests, Save(r) \/ SaveFails(r) \/ SaveInterrupted(r)
  PROVE  Inv'
  <1>1. UNCHANGED feedVars
    BY DEF Save, SaveFails, SaveInterrupted, Reject
  <1>2. TypeOK'
    BY <1>1, QuietType
       DEF Inv, TypeOK, Save, SaveFails, SaveInterrupted, Reject, Goto, Statuses,
           sseVars, dbVars, procVars
  <1>3. Life'
    <2>1. CASE Save(r)
      BY <1>1, <2>1 DEF Inv, TypeOK, Life, Stored, feedVars, Save, Goto
    <2>2. CASE SaveFails(r)
      BY <1>1, <2>2 DEF Inv, TypeOK, Life, Stored, feedVars, dbVars, SaveFails, Reject, Goto
    <2>3. CASE SaveInterrupted(r)
      BY <1>1, <2>3 DEF Inv, TypeOK, Life, Stored, feedVars, SaveInterrupted, Reject, Goto
    <2> QED
      BY <2>1, <2>2, <2>3
  <1>4. WriterHoldsEvent'
    BY SameWriters DEF Inv, Save, SaveFails, SaveInterrupted, Reject, sseVars, feedVars
  <1> QED
    BY <1>1, <1>2, <1>3, <1>4, QuietPublished DEF Inv

(* The answer leaves; an answer 4xx or 5xx that arrives was not a hang-up, so
   the row is not there. *)
LEMMA AnsweringInv ==
  ASSUME Inv, NEW r \in Requests, Respond(r) \/ HangUp(r)
  PROVE  Inv'
  <1>1. UNCHANGED feedVars
    BY DEF Respond, HangUp
  <1>2. TypeOK'
    BY <1>1, QuietType
       DEF Inv, TypeOK, Respond, HangUp, Goto, sseVars, dbVars, procVars
  <1>3. Life'
    <2>1. CASE Respond(r)
      BY <1>1, <2>1 DEF Inv, TypeOK, Life, Stored, Statuses, feedVars, dbVars, Respond, Goto
    <2>2. CASE HangUp(r)
      BY <1>1, <2>2 DEF Inv, TypeOK, Life, Stored, feedVars, dbVars, HangUp
    <2> QED
      BY <2>1, <2>2
  <1>4. WriterHoldsEvent'
    BY SameWriters DEF Inv, Respond, HangUp, sseVars, feedVars
  <1> QED
    BY <1>1, <1>2, <1>3, <1>4, QuietPublished DEF Inv

-----------------------------------------------------------------------------
(* h.broker.Publish begins for a row that is there, and its end is the only
   way to an answer 200. *)
LEMMA PublishBoundsInv ==
  ASSUME Inv, NEW r \in Requests, PublishBegin(r) \/ PublishEnd(r)
  PROVE  Inv'
  <1>1. Feed!Begin(r) \/ Feed!End(r)
    BY DEF PublishBegin, PublishEnd
  <1>2. Feed!TypeOK'
    BY <1>1, FeedType DEF Inv, TypeOK, Feed!Next
  <1>3. TypeOK'
    BY <1>2 DEF Inv, TypeOK, PublishBegin, PublishEnd, Goto, Statuses,
                captureVars, sseVars, dbVars, procVars
  <1>4. Life'
    <2>1. CASE PublishBegin(r)
      BY <2>1 DEF Inv, TypeOK, Feed!TypeOK, Life, Stored, PublishBegin, Feed!Begin,
                  captureVars, dbVars
    <2>2. CASE PublishEnd(r)
      BY <2>2 DEF Inv, TypeOK, Feed!TypeOK, Life, Stored, PublishEnd, Feed!End, Goto, dbVars
    <2> QED
      BY <2>1, <2>2
  <1>5. OnlyPublished'
    <2>1. UNCHANGED <<received, chan>>
      BY <1>1 DEF Feed!Begin, Feed!End
    <2>2. \A q \in Requests : phase[q] # "idle" => phase'[q] # "idle"
      BY <1>1 DEF Inv, TypeOK, Feed!TypeOK, Feed!Begin, Feed!End
    <2>3. \A c \in Conns : Feed!Accepted(c) \subseteq Requests
      BY AcceptedRequests DEF Inv, TypeOK
    <2> QED
      BY <2>1, <2>2, <2>3, AcceptedSame DEF Inv, OnlyPublished
  <1>6. WriterHoldsEvent'
    BY SameWriters DEF Inv, PublishBegin, PublishEnd, Feed!Begin, Feed!End, sseVars
  <1> QED
    BY <1>3, <1>4, <1>5, <1>6 DEF Inv

LEMMA PublishOfferInv ==
  ASSUME Inv, NEW r \in Requests, NEW c \in Conns, PublishOffer(r, c)
  PROVE  Inv'
  <1>1. Feed!Offer(r, c)
    BY DEF PublishOffer
  <1>2. Feed!TypeOK'
    BY <1>1, FeedType DEF Inv, TypeOK, Feed!Next
  <1>3. TypeOK'
    BY <1>2 DEF Inv, TypeOK, PublishOffer, captureVars, sseVars, dbVars, procVars
  <1>4. Life'
    <2>1. /\ offers' = [offers EXCEPT ![r] = @ \ {c}]
          /\ phase' = phase
      BY <1>1 DEF Feed!Offer
    <2> QED
      BY <2>1 DEF Inv, TypeOK, Feed!TypeOK, Life, Stored, PublishOffer, captureVars, dbVars
  <1>5. OnlyPublished'
    <2>1. phase' = phase /\ phase[r] # "idle"
      BY <1>1 DEF Inv, Life, Feed!Offer
    <2>2. \A d \in Conns : Feed!Accepted(d)' \subseteq Feed!Accepted(d) \cup {r}
      BY <1>1, AcceptedOffer DEF Inv, TypeOK
    <2> QED
      BY <2>1, <2>2 DEF Inv, OnlyPublished
  <1>6. WriterHoldsEvent'
    BY SameWriters DEF Inv, PublishOffer, Feed!Offer, sseVars
  <1> QED
    BY <1>3, <1>4, <1>5, <1>6 DEF Inv

-----------------------------------------------------------------------------
(* The SSE handler and the broker. *)
LEMMA ConnectLeaveInv ==
  ASSUME Inv, NEW c \in Conns, Connect(c) \/ Leave(c)
  PROVE  Inv'
  <1>1. Feed!Subscribe(c) \/ Feed!Unsubscribe(c)
    BY DEF Connect, Leave
  <1>2. UNCHANGED <<chan, received, phase, offers>>
    BY <1>1 DEF Feed!Subscribe, Feed!Unsubscribe
  <1>3. Feed!TypeOK'
    BY <1>1, FeedType DEF Inv, TypeOK, Feed!Next
  <1>4. TypeOK'
    BY <1>3 DEF Inv, TypeOK, Connect, Leave, captureVars, dbVars, procVars
  <1>5. Life'
    BY <1>2 DEF Inv, Life, Stored, Connect, Leave, captureVars, dbVars
  <1>6. OnlyPublished'
    BY <1>2, AcceptedSame DEF Inv, OnlyPublished
  <1>7. WriterHoldsEvent'
    BY <1>2 DEF Inv, TypeOK, WriterHoldsEvent, Connect, Leave
  <1> QED
    BY <1>4, <1>5, <1>6, <1>7 DEF Inv

LEMMA TakeInv ==
  ASSUME Inv, NEW c \in Conns, Take(c)
  PROVE  Inv'
  <1>1. Feed!Receive(c)
    BY DEF Take
  <1>2. UNCHANGED <<phase, offers>>
    BY <1>1 DEF Feed!Receive
  <1>3. Feed!TypeOK'
    BY <1>1, FeedType DEF Inv, TypeOK, Feed!Next
  <1>4. TypeOK'
    BY <1>3 DEF Inv, TypeOK, Take, captureVars, dbVars, procVars
  <1>5. Life'
    BY <1>2 DEF Inv, Life, Stored, Take, captureVars, dbVars
  <1>6. OnlyPublished'
    BY <1>1, <1>2, AcceptedReceive DEF Inv, TypeOK, OnlyPublished
  <1>7. WriterHoldsEvent'
    <2>1. Append(received[c], Head(chan[c])) # <<>>
      BY <1>1 DEF Inv, TypeOK, Feed!TypeOK, Feed!Receive
    <2>2. received' = [received EXCEPT ![c] = Append(@, Head(chan[c]))]
      BY <1>1 DEF Feed!Receive
    <2> QED
      BY <2>1, <2>2 DEF Inv, TypeOK, Feed!TypeOK, WriterHoldsEvent, Take
  <1> QED
    BY <1>4, <1>5, <1>6, <1>7 DEF Inv

(* The handler in the middle of a write takes its last event from received. *)
LEMMA WritingInv ==
  ASSUME Inv, NEW c \in Conns, Write(c) \/ Stop(c) \/ Disconnect(c)
  PROVE  Inv'
  <1>1. UNCHANGED feedVars
    BY DEF Write, Stop, Disconnect
  <1>2. Life'
    BY <1>1 DEF Inv, Life, Stored, feedVars, Write, Stop, Disconnect, captureVars, dbVars
  <1>3. TypeOK'
    <2>1. CASE Write(c)
      <3>1. received[c] \in Seq(Requests) /\ received[c] # <<>>
        BY <2>1 DEF Inv, TypeOK, Feed!TypeOK, WriterHoldsEvent, Write
      <3>2. received[c][Len(received[c])] \in Requests
        BY <3>1
      <3>3. screen' \in [Conns -> Seq(Requests)]
        BY <2>1, <3>2 DEF Inv, TypeOK, Write
      <3> QED
        BY <1>1, <2>1, <3>3, QuietType
           DEF Inv, TypeOK, Write, captureVars, dbVars, procVars
    <2>2. CASE Stop(c) \/ Disconnect(c)
      BY <1>1, <2>2, QuietType DEF Inv, TypeOK, Stop, Disconnect, captureVars, dbVars, procVars
    <2> QED
      BY <2>1, <2>2
  <1>4. WriterHoldsEvent'
    BY <1>1 DEF Inv, TypeOK, WriterHoldsEvent, feedVars, Write, Stop, Disconnect
  <1> QED
    BY <1>1, <1>2, <1>3, <1>4, QuietPublished DEF Inv

-----------------------------------------------------------------------------
(* A DELETE moves rows to erased. *)
LEMMA DeleteInv ==
  ASSUME Inv, NEW ids \in SUBSET Requests, Delete(ids)
  PROVE  Inv'
  <1>1. UNCHANGED feedVars
    BY DEF Delete
  <1>2. Stored' = Stored
    BY DEF Delete, Stored
  <1>3. TypeOK'
    BY <1>1, QuietType DEF Inv, TypeOK, Delete, captureVars, sseVars, procVars
  <1>4. Life'
    BY <1>1, <1>2 DEF Inv, Life, feedVars, Delete, captureVars
  <1>5. WriterHoldsEvent'
    BY SameWriters DEF Inv, Delete, sseVars, feedVars
  <1> QED
    BY <1>1, <1>3, <1>4, <1>5, QuietPublished DEF Inv

LEMMA ShutdownRestartInv ==
  ASSUME Inv, Shutdown \/ Restart
  PROVE  Inv'
  <1>1. UNCHANGED feedVars
    BY DEF Shutdown, Restart
  <1>2. TypeOK'
    <2>1. CASE Shutdown
      BY <1>1, <2>1, QuietType DEF Inv, TypeOK, Shutdown, Running, dbVars
    <2>2. CASE Restart
      BY <1>1, <2>2, QuietType, IngestAssumption
         DEF Inv, TypeOK, Restart, captureVars, sseVars, dbVars
    <2> QED
      BY <2>1, <2>2
  <1>3. Life'
    BY <1>1 DEF Inv, Life, Stored, feedVars, Shutdown, Restart, Running, captureVars, dbVars
  <1>4. WriterHoldsEvent'
    BY SameWriters DEF Inv, Shutdown, Restart, sseVars, feedVars
  <1> QED
    BY <1>1, <1>2, <1>3, <1>4, QuietPublished DEF Inv

(* A crash: the goroutines and what is left of their publishes are gone. *)
LEMMA ExitInv ==
  ASSUME Inv, Exit
  PROVE  Inv'
  <1>1. TypeOK'
    BY DEF Inv, TypeOK, Feed!TypeOK, Exit, dbVars
  <1>2. Life'
    BY DEF Inv, TypeOK, Life, Stored, Exit, Running, dbVars
  <1>3. OnlyPublished'
    BY AcceptedSame DEF Inv, OnlyPublished, Exit
  <1>4. WriterHoldsEvent'
    BY DEF Inv, TypeOK, WriterHoldsEvent, Exit
  <1> QED
    BY <1>1, <1>2, <1>3, <1>4 DEF Inv

LEMMA StutterInv ==
  ASSUME Inv, UNCHANGED vars
  PROVE  Inv'
  <1>1. UNCHANGED feedVars
    BY DEF vars
  <1>2. TypeOK'
    BY <1>1, QuietType DEF Inv, TypeOK, vars, captureVars, sseVars, dbVars, procVars
  <1>3. Life'
    BY DEF Inv, Life, Stored, vars, feedVars, captureVars, dbVars
  <1>4. WriterHoldsEvent'
    BY SameWriters DEF Inv, vars, sseVars, feedVars
  <1> QED
    BY <1>1, <1>2, <1>3, <1>4, QuietPublished DEF Inv

(* Inv is inductive: every step of the server, the providers and the
   dashboards preserves it. *)
LEMMA NextInv ==
  ASSUME Inv, [Next]_vars
  PROVE  Inv'
  <1>1. ASSUME NEW r \in Requests, Capture(r)
        PROVE  Inv'
    BY <1>1, ReceivingInv, SavingInv, AnsweringInv, PublishBoundsInv DEF Capture
  <1>2. ASSUME NEW c \in Conns, Stream(c)
        PROVE  Inv'
    BY <1>2, ConnectLeaveInv, TakeInv, WritingInv DEF Stream
  <1>3. ASSUME NEW r \in Requests, NEW c \in Conns, PublishOffer(r, c)
        PROVE  Inv'
    BY <1>3, PublishOfferInv
  <1>4. ASSUME NEW r \in Requests, DeleteRequest(r)
        PROVE  Inv'
    BY <1>4, DeleteInv DEF DeleteRequest
  <1>5. CASE ClearRequests
    BY <1>5, DeleteInv DEF ClearRequests
  <1>6. CASE Shutdown \/ Exit \/ Restart
    BY <1>6, ShutdownRestartInv, ExitInv
  <1>7. CASE UNCHANGED vars
    BY <1>7, StutterInv
  <1> QED
    BY <1>1, <1>2, <1>3, <1>4, <1>5, <1>6, <1>7 DEF Next

-----------------------------------------------------------------------------
(* The inductive invariant of ingestion: types, what is known of a webhook at
   each point of its capture, and that only what was published is streamed. *)
THEOREM IngestInvariant == Spec => []Inv
  <1>1. Init => Inv
    BY InitInv
  <1>2. Inv /\ [Next]_vars => Inv'
    BY NextInv
  <1> QED
    BY <1>1, <1>2, PTL DEF Spec

(* The variables of ingestion keep their types. *)
THEOREM IngestTypeOK == Spec => []TypeOK
  <1>1. Inv => TypeOK
    BY DEF Inv
  <1> QED
    BY <1>1, IngestInvariant, PTL

(* Whatever a dashboard was or is about to be shown was committed first. *)
THEOREM IngestNoGhosts == Spec => []NoGhosts
  <1>1. ASSUME Inv
        PROVE  NoGhosts
    <2>1. \A c \in Conns : Feed!Accepted(c) \subseteq Stored
      <3>1. \A c \in Conns : Feed!Accepted(c) \subseteq Requests
        BY <1>1, AcceptedRequests DEF Inv, TypeOK
      <3> QED
        BY <1>1, <3>1 DEF Inv, OnlyPublished, Life
    <2>2. \A r \in Requests : offers[r] # {} => r \in Stored
      BY <1>1 DEF Inv, Life
    <2> QED
      BY <2>1, <2>2 DEF NoGhosts
  <1> QED
    BY <1>1, IngestInvariant, PTL

(* A webhook answered 200 is in the table until a client deletes it. *)
THEOREM IngestAckDurable == Spec => []AckDurable
  <1>1. Inv => AckDurable
    BY DEF Inv, TypeOK, Life, AckDurable, Acked
  <1> QED
    BY <1>1, IngestInvariant, PTL

(* A webhook answered 400 or 500 is in no table and on no dashboard. *)
THEOREM IngestRejectedLeavesNoTrace == Spec => []RejectedLeavesNoTrace
  <1>1. ASSUME Inv, NEW r \in answered \ Acked
        PROVE  r \notin Stored /\ \A c \in Conns : r \notin Feed!Accepted(c)
    <2>1. r \in Requests /\ status[r] # 200
      BY <1>1 DEF Inv, TypeOK, Acked
    <2>2. r \notin Stored /\ phase[r] = "idle"
      BY <1>1, <2>1 DEF Inv, Life
    <2> QED
      BY <1>1, <2>2 DEF Inv, OnlyPublished
  <1>2. Inv => RejectedLeavesNoTrace
    BY <1>1 DEF RejectedLeavesNoTrace
  <1> QED
    BY <1>2, IngestInvariant, PTL

-----------------------------------------------------------------------------
(***************************************************************************)
(* The dashboards' side: what has been answered 200 reaches every          *)
(* dashboard that was there and still is, once, and in an order that       *)
(* respects the answers; through hang-ups, crashes and restarts.           *)
(***************************************************************************)

(* The client has been shown what its handler took from the channel, but for
   the event being written; nothing more when its connection has ended. *)
Shown ==
  \A c \in Conns :
    /\ Len(screen[c]) <= Len(received[c])
    /\ \A i \in 1..Len(screen[c]) : screen[c][i] = received[c][i]
    /\ c \notin ended =>
         Len(received[c]) = Len(screen[c]) + (IF conn[c] = "writing" THEN 1 ELSE 0)

(* A webhook that was answered when another arrived is through the broker. *)
BeforeReturned ==
  \A r \in Requests : \A q \in before[r] : phase[q] = "done"

(* A channel still to be visited does not have the event. *)
NotYet ==
  \A r \in Requests : \A c \in offers[r] : r \notin Feed!Accepted(c)

(* CausalOrder, of all that was ever in a channel. *)
LogOrder ==
  \A c \in Conns : \A i, j \in 1..Len(Feed!Log(c)) :
    i < j => /\ Feed!Log(c)[i] # Feed!Log(c)[j]
             /\ Feed!Log(c)[j] \notin before[Feed!Log(c)[i]]

(* A connection is subscribed from Connect until it ends. *)
Subscribed ==
  /\ \A c \in Conns :
       /\ sub[c] = "open" => conn[c] # "new"
       /\ conn[c] # "new" /\ c \notin ended => sub[c] = "open"
       /\ conn[c] \in {"leaving", "gone"} => c \in ended
  /\ \A r \in Requests : \A c \in watching[r] : conn[c] # "new"

(* A publish under way has been, or will come, to whoever was there when its
   webhook arrived and has not left. *)
Reached ==
  \A r \in Requests : \A c \in watching[r] \ ended :
    phase[r] # "idle" => c \in offers[r] \/ r \in Feed!Accepted(c) \cup missed[c]

(* The inductive invariant behind AckStreamed and CausalOrder. *)
StreamInv ==
  Shown /\ BeforeReturned /\ NotYet /\ LogOrder /\ Subscribed /\ Reached

-----------------------------------------------------------------------------
(* Nothing has been captured, and nobody is connected. *)
LEMMA InitStream ==
  ASSUME Init
  PROVE  StreamInv
  <1>1. \A c \in Conns : Feed!Log(c) = <<>>
    BY DEF Init, Feed!Init, Feed!Log
  <1>2. Shown
    BY DEF Init, Feed!Init, Shown
  <1>3. BeforeReturned /\ NotYet /\ Subscribed /\ Reached
    BY DEF Init, Feed!Init, BeforeReturned, NotYet, Subscribed, Reached
  <1>4. LogOrder
    BY <1>1 DEF LogOrder
  <1> QED
    BY <1>2, <1>3, <1>4 DEF StreamInv

-----------------------------------------------------------------------------
(* Shown: an event is on the screen after Write as it was after Take. *)
LEMMA TakeShown ==
  ASSUME Inv, Shown, NEW c \in Conns, Take(c)
  PROVE  Shown'
  <1>1. Feed!Receive(c) /\ conn[c] = "selecting" /\ conn' = [conn EXCEPT ![c] = "writing"]
    BY DEF Take
  <1>2. UNCHANGED <<screen, ended>>
    BY DEF Take
  <1>3. received' = [received EXCEPT ![c] = Append(received[c], Head(chan[c]))]
    BY <1>1 DEF Feed!Receive
  <1>4. /\ received \in [Conns -> Seq(Requests)]
        /\ conn \in [Conns -> {"new", "selecting", "writing", "leaving", "gone"}]
        /\ screen \in [Conns -> Seq(Requests)]
    BY DEF Inv, TypeOK, Feed!TypeOK
  <1>5. ASSUME NEW d \in Conns
        PROVE  /\ Len(screen'[d]) <= Len(received'[d])
               /\ \A i \in 1..Len(screen'[d]) : screen'[d][i] = received'[d][i]
               /\ d \notin ended' =>
                    Len(received'[d]) = Len(screen'[d]) + (IF conn'[d] = "writing" THEN 1 ELSE 0)
    <2>1. CASE d # c
      BY <1>1, <1>2, <1>3, <1>4, <2>1 DEF Shown
    <2>2. CASE d = c
      <3> DEFINE s == received[c]
                 e == Head(chan[c])
      <3>1. s \in Seq(Requests) /\ received'[c] = Append(s, e) /\ conn'[c] = "writing"
        BY <1>1, <1>3, <1>4
      <3> HIDE DEF s, e
      <3>2. Len(received'[c]) = Len(s) + 1 /\ \A i \in 1..Len(s) : received'[c][i] = s[i]
        BY <3>1
      <3>3. /\ Len(screen[c]) <= Len(s)
            /\ \A i \in 1..Len(screen[c]) : screen[c][i] = s[i]
            /\ c \notin ended => Len(s) = Len(screen[c])
        BY <1>1, <1>4 DEF Shown, s
      <3>4. Len(s) \in Nat /\ Len(screen[c]) \in Nat
        BY <1>4, <3>1
      <3> QED
        BY <1>2, <2>2, <3>1, <3>2, <3>3, <3>4
    <2> QED
      BY <2>1, <2>2
  <1> QED
    BY <1>5 DEF Shown

LEMMA WriteShown ==
  ASSUME Inv, Shown, NEW c \in Conns, Write(c)
  PROVE  Shown'
  <1>1. /\ conn[c] = "writing"
        /\ conn' = [conn EXCEPT ![c] = "selecting"]
        /\ UNCHANGED <<received, ended>>
    BY DEF Write, feedVars
  <1>2. /\ received \in [Conns -> Seq(Requests)]
        /\ conn \in [Conns -> {"new", "selecting", "writing", "leaving", "gone"}]
        /\ screen \in [Conns -> Seq(Requests)]
    BY DEF Inv, TypeOK, Feed!TypeOK
  <1>3. CASE c \in ended
    BY <1>1, <1>2, <1>3 DEF Shown, Write
  <1>4. CASE c \notin ended
    <2> DEFINE e == received[c][Len(received[c])]
    <2>1. screen' = [screen EXCEPT ![c] = Append(screen[c], e)]
      BY <1>4 DEF Write
    <2>2. ASSUME NEW d \in Conns
          PROVE  /\ Len(screen'[d]) <= Len(received[d])
                 /\ \A i \in 1..Len(screen'[d]) : screen'[d][i] = received[d][i]
                 /\ d \notin ended =>
                      Len(received[d]) = Len(screen'[d]) + (IF conn'[d] = "writing" THEN 1 ELSE 0)
      <3>1. CASE d # c
        BY <1>1, <1>2, <2>1, <3>1 DEF Shown
      <3>2. CASE d = c
        <4> DEFINE s == screen[c]
                   t == received[c]
        <4>1. /\ s \in Seq(Requests) /\ t \in Seq(Requests)
              /\ screen'[c] = Append(s, t[Len(t)])
              /\ conn'[c] = "selecting"
          BY <1>1, <1>2, <2>1
        <4>2. Len(t) = Len(s) + 1 /\ \A i \in 1..Len(s) : s[i] = t[i]
          BY <1>1, <1>4 DEF Shown
        <4> HIDE DEF s, t
        <4>3. /\ Len(screen'[c]) = Len(s) + 1
              /\ \A i \in 1..Len(s) : screen'[c][i] = s[i]
              /\ screen'[c][Len(s) + 1] = t[Len(t)]
          BY <4>1
        <4>4. Len(s) \in Nat
          BY <4>1
        <4>5. \A i \in 1..Len(screen'[c]) : i \in 1..Len(s) \/ i = Len(s) + 1
          BY <4>3, <4>4
        <4>6. \A i \in 1..Len(screen'[c]) : screen'[c][i] = t[i]
          BY <4>2, <4>3, <4>5
        <4> QED
          BY <3>2, <4>1, <4>2, <4>3, <4>4, <4>6 DEF t
      <3> QED
        BY <3>1, <3>2
    <2> QED
      BY <1>1, <2>2 DEF Shown
  <1> QED
    BY <1>3, <1>4

(* Other steps write on no screen, or end connections. *)
LEMMA ShownNext ==
  ASSUME Inv, Shown, [Next]_vars
  PROVE  Shown'
  <1>1. ASSUME UNCHANGED <<screen, received, conn, ended>>
        PROVE  Shown'
    BY <1>1 DEF Shown
  <1>2. ASSUME NEW r \in Requests, Capture(r)
        PROVE  Shown'
    BY <1>1, <1>2 DEF Capture, Arrive, ReadBody, ReadFails, Save, SaveFails, SaveInterrupted,
         Reject, PublishBegin, PublishEnd, Respond, HangUp, Feed!Begin, Feed!End,
         feedVars, sseVars
  <1>3. ASSUME NEW c \in Conns, Stream(c)
        PROVE  Shown'
    <2>1. CASE Connect(c) \/ Stop(c) \/ Leave(c) \/ Disconnect(c)
      <3>1. UNCHANGED <<screen, received>>
        BY <2>1 DEF Connect, Stop, Leave, Disconnect, Feed!Subscribe, Feed!Unsubscribe, feedVars
      <3>2. ended \subseteq ended'
        BY <2>1 DEF Connect, Stop, Leave, Disconnect
      <3>3. \A d \in Conns : conn'[d] = "writing" <=> conn[d] = "writing"
        BY <2>1 DEF Inv, TypeOK, Connect, Stop, Leave, Disconnect
      <3> QED
        BY <3>1, <3>2, <3>3 DEF Shown
    <2> QED
      BY <1>3, <2>1, TakeShown, WriteShown DEF Stream
  <1>4. ASSUME NEW r \in Requests, NEW c \in Conns, PublishOffer(r, c)
        PROVE  Shown'
    BY <1>1, <1>4 DEF PublishOffer, Feed!Offer, sseVars
  <1>5. CASE (\E r \in Requests : DeleteRequest(r)) \/ ClearRequests \/ Restart
    BY <1>1, <1>5 DEF DeleteRequest, ClearRequests, Delete, Restart, feedVars, sseVars
  <1>6. CASE Shutdown
    BY <1>6 DEF Shown, Shutdown, feedVars
  <1>7. CASE Exit
    <2>1. UNCHANGED <<screen, received>> /\ ended \subseteq ended'
      BY <1>7 DEF Exit
    <2>2. \A d \in Conns : d \notin ended' => conn[d] = "new" /\ conn'[d] = "new"
      BY <1>7 DEF Exit
    <2> QED
      BY <2>1, <2>2 DEF Shown
  <1>8. CASE UNCHANGED vars
    BY <1>1, <1>8 DEF vars, feedVars, sseVars
  <1> QED
    BY <1>2, <1>3, <1>4, <1>5, <1>6, <1>7, <1>8 DEF Next

-----------------------------------------------------------------------------
(* BeforeReturned: a publish that returned stays so, and a webhook answered
   200 is one of them. *)
LEMMA BeforeReturnedNext ==
  ASSUME Inv, BeforeReturned, [Next]_vars
  PROVE  BeforeReturned'
  <1>1. ASSUME UNCHANGED <<before, phase>>
        PROVE  BeforeReturned'
    BY <1>1 DEF BeforeReturned
  <1>2. ASSUME NEW r \in Requests, Arrive(r)
        PROVE  BeforeReturned'
    <2>1. \A q \in Acked : phase[q] = "done"
      BY DEF Inv, TypeOK, Life, Acked
    <2>2. before' = [before EXCEPT ![r] = Acked] /\ phase' = phase
      BY <1>2 DEF Arrive, feedVars
    <2> QED
      BY <2>1, <2>2 DEF Inv, TypeOK, BeforeReturned
  <1>3. ASSUME NEW r \in Requests, PublishBegin(r) \/ PublishEnd(r)
        PROVE  BeforeReturned'
    <2>1. before' = before
      BY <1>3 DEF PublishBegin, PublishEnd, captureVars
    <2>2. /\ phase' = [phase EXCEPT ![r] = "sending"] /\ phase[r] = "idle"
          \/ phase' = [phase EXCEPT ![r] = "done"]
      BY <1>3 DEF PublishBegin, PublishEnd, Feed!Begin, Feed!End
    <2>3. \A q \in Requests : phase[q] = "done" => phase'[q] = "done"
      BY <2>2 DEF Inv, TypeOK, Feed!TypeOK
    <2> QED
      BY <2>1, <2>3 DEF Inv, TypeOK, BeforeReturned
  <1>4. ASSUME NEW r \in Requests,
               ReadBody(r) \/ ReadFails(r) \/ Save(r) \/ SaveFails(r) \/ SaveInterrupted(r)
                 \/ Respond(r) \/ HangUp(r)
        PROVE  BeforeReturned'
    BY <1>1, <1>4 DEF ReadBody, ReadFails, Save, SaveFails, SaveInterrupted, Reject,
         Respond, HangUp, feedVars
  <1>5. ASSUME NEW c \in Conns, Stream(c)
        PROVE  BeforeReturned'
    BY <1>1, <1>5 DEF Stream, Connect, Take, Write, Stop, Leave, Disconnect,
         Feed!Subscribe, Feed!Receive, Feed!Unsubscribe, feedVars, captureVars
  <1>6. ASSUME NEW r \in Requests, NEW c \in Conns, PublishOffer(r, c)
        PROVE  BeforeReturned'
    BY <1>1, <1>6 DEF PublishOffer, Feed!Offer, captureVars
  <1>7. CASE (\E r \in Requests : DeleteRequest(r)) \/ ClearRequests \/ Shutdown \/ Exit
               \/ Restart \/ UNCHANGED vars
    BY <1>1, <1>7 DEF DeleteRequest, ClearRequests, Delete, Shutdown, Exit, Restart,
         vars, feedVars, captureVars
  <1> QED
    BY <1>2, <1>3, <1>4, <1>5, <1>6, <1>7 DEF Next, Capture

(* Subscribed: only Connect opens a channel, only Leave and the end of the
   process close one. *)
LEMMA SubscribedNext ==
  ASSUME Inv, Subscribed, [Next]_vars
  PROVE  Subscribed'
  <1>1. ASSUME UNCHANGED <<sub, conn, watching>>, ended \subseteq ended'
        PROVE  Subscribed'
    BY <1>1 DEF Subscribed
  <1>2. ASSUME NEW r \in Requests, Arrive(r)
        PROVE  Subscribed'
    <2>1. /\ watching' = [watching EXCEPT ![r] = Feed!Open]
          /\ UNCHANGED <<sub, conn, ended>>
      BY <1>2 DEF Arrive, feedVars, sseVars
    <2>2. \A c \in Feed!Open : conn[c] # "new"
      BY DEF Subscribed, Feed!Open
    <2> QED
      BY <2>1, <2>2 DEF Inv, TypeOK, Subscribed
  <1>3. ASSUME NEW r \in Requests,
               ReadBody(r) \/ ReadFails(r) \/ Save(r) \/ SaveFails(r) \/ SaveInterrupted(r)
                 \/ PublishBegin(r) \/ PublishEnd(r) \/ Respond(r) \/ HangUp(r)
        PROVE  Subscribed'
    BY <1>1, <1>3 DEF ReadBody, ReadFails, Save, SaveFails, SaveInterrupted, Reject,
         PublishBegin, PublishEnd, Respond, HangUp, Feed!Begin, Feed!End,
         feedVars, captureVars, sseVars
  <1>4. ASSUME NEW c \in Conns, Stream(c)
        PROVE  Subscribed'
    <2>1. watching' = watching
      BY <1>4 DEF Stream, Connect, Take, Write, Stop, Leave, Disconnect, captureVars
    <2>2. \A r \in Requests : watching[r] \subseteq Conns
      BY DEF Inv, TypeOK
    <2>3. CASE Connect(c)
      BY <2>1, <2>2, <2>3 DEF Inv, TypeOK, Feed!TypeOK, Subscribed, Connect, Feed!Subscribe
    <2>4. CASE Leave(c)
      BY <2>1, <2>2, <2>4 DEF Inv, TypeOK, Feed!TypeOK, Subscribed, Leave, Feed!Unsubscribe
    <2>5. CASE Take(c)
      BY <2>1, <2>2, <2>5 DEF Inv, TypeOK, Feed!TypeOK, Subscribed, Take, Feed!Receive
    <2>6. CASE Write(c) \/ Stop(c) \/ Disconnect(c)
      BY <2>1, <2>2, <2>6 DEF Inv, TypeOK, Feed!TypeOK, Subscribed, Write, Stop, Disconnect,
           feedVars
    <2> QED
      BY <1>4, <2>3, <2>4, <2>5, <2>6 DEF Stream
  <1>5. ASSUME NEW r \in Requests, NEW c \in Conns, PublishOffer(r, c)
        PROVE  Subscribed'
    BY <1>1, <1>5 DEF PublishOffer, Feed!Offer, captureVars, sseVars
  <1>6. CASE (\E r \in Requests : DeleteRequest(r)) \/ ClearRequests \/ Shutdown
               \/ Restart \/ UNCHANGED vars
    BY <1>1, <1>6 DEF DeleteRequest, ClearRequests, Delete, Shutdown, Restart,
         vars, feedVars, captureVars, sseVars
  <1>7. CASE Exit
    <2>1. \A c \in Conns :
            /\ sub'[c] # "open"
            /\ conn'[c] = (IF conn[c] = "new" THEN "new" ELSE "gone")
            /\ conn[c] # "new" => c \in ended'
      BY <1>7 DEF Inv, TypeOK, Feed!TypeOK, Exit
    <2>2. watching' = watching /\ \A r \in Requests : watching[r] \subseteq Conns
      BY <1>7 DEF Inv, TypeOK, Exit
    <2> QED
      BY <2>1, <2>2 DEF Subscribed
  <1> QED
    BY <1>2, <1>3, <1>4, <1>5, <1>6, <1>7 DEF Next, Capture

-----------------------------------------------------------------------------
(* Steps of nobody's publish: the channels' logs and the publishes under way
   stay as they are. *)
Aside == /\ \A c \in Conns : Feed!Log(c)' = Feed!Log(c)
         /\ UNCHANGED <<phase, missed>>

LEMMA StreamAside ==
  ASSUME Inv, NEW c \in Conns, Stream(c)
  PROVE  Aside /\ UNCHANGED <<offers, before, watching>>
  <1>1. UNCHANGED <<phase, missed, offers, before, watching>>
    BY DEF Stream, Connect, Take, Write, Stop, Leave, Disconnect,
         Feed!Subscribe, Feed!Receive, Feed!Unsubscribe, feedVars, captureVars
  <1>2. CASE Take(c)
    BY <1>1, <1>2, LogsReceive DEF Inv, TypeOK, Take, Aside
  <1>3. CASE Connect(c) \/ Write(c) \/ Stop(c) \/ Leave(c) \/ Disconnect(c)
    <2>1. UNCHANGED <<received, chan>>
      BY <1>3 DEF Connect, Write, Stop, Leave, Disconnect,
           Feed!Subscribe, Feed!Unsubscribe, feedVars
    <2> QED
      BY <1>1, <2>1 DEF Aside, Feed!Log
  <1> QED
    BY <1>2, <1>3 DEF Stream

(* The steps of a capture outside its publish and its arrival. *)
LEMMA CaptureAside ==
  ASSUME NEW r \in Requests,
         ReadBody(r) \/ ReadFails(r) \/ Save(r) \/ SaveFails(r) \/ SaveInterrupted(r)
           \/ Respond(r) \/ HangUp(r)
  PROVE  Aside /\ UNCHANGED <<offers, ended, before, watching>>
  BY DEF ReadBody, ReadFails, Save, SaveFails, SaveInterrupted, Reject, Respond, HangUp,
     Aside, Feed!Log, feedVars, sseVars

LEMMA ProcessAside ==
  ASSUME (\E r \in Requests : DeleteRequest(r)) \/ ClearRequests \/ Shutdown
           \/ Restart \/ UNCHANGED vars
  PROVE  Aside /\ UNCHANGED <<offers, before, watching>> /\ ended \subseteq ended'
  BY DEF DeleteRequest, ClearRequests, Delete, Shutdown, Restart, vars,
     Aside, Feed!Log, feedVars, captureVars, sseVars

LEMMA ExitAside ==
  ASSUME Exit
  PROVE  Aside /\ UNCHANGED <<before, watching>> /\ ended \subseteq ended'
  BY DEF Exit, Aside, Feed!Log

(* An offer appends to the log of the channel, or the event is missed. *)
LEMMA OfferSteps ==
  ASSUME Inv, NEW r \in Requests, NEW c \in Conns, PublishOffer(r, c)
  PROVE  /\ \A d \in Conns : d # c => Feed!Log(d)' = Feed!Log(d) /\ missed'[d] = missed[d]
         /\ \/ Feed!Log(c)' = Append(Feed!Log(c), r) /\ missed' = missed
            \/ Feed!Log(c)' = Feed!Log(c) /\ missed'[c] = missed[c] \cup {r}
         /\ c \in offers[r] /\ phase[r] = "sending"
         /\ offers' = [offers EXCEPT ![r] = @ \ {c}]
         /\ UNCHANGED <<phase, ended, before, watching>>
  <1>1. Feed!Offer(r, c) /\ UNCHANGED <<ended, before, watching>>
    BY DEF PublishOffer, captureVars, sseVars
  <1>2. /\ c \in offers[r] /\ phase' = phase
        /\ offers' = [offers EXCEPT ![r] = @ \ {c}]
    BY <1>1 DEF Feed!Offer
  <1>3. phase[r] = "sending"
    BY <1>2 DEF Inv, Life
  <1>4. \A d \in Conns :
          Feed!Log(d)' = IF d = c /\ Len(chan[c]) < Capacity
                           THEN Append(Feed!Log(d), r) ELSE Feed!Log(d)
    BY <1>1, LogsOffer DEF Inv, TypeOK
  <1>5. IF Len(chan[c]) < Capacity THEN missed' = missed
          ELSE missed' = [missed EXCEPT ![c] = @ \cup {r}]
    BY <1>1 DEF Feed!Offer
  <1>6. missed \in [Conns -> SUBSET Requests]
    BY DEF Inv, TypeOK, Feed!TypeOK
  <1> QED
    BY <1>1, <1>2, <1>3, <1>4, <1>5, <1>6

-----------------------------------------------------------------------------
(* NotYet: a publish begins before its event is anywhere, and visits a
   channel once. *)
LEMMA NotYetNext ==
  ASSUME Inv, NotYet, [Next]_vars
  PROVE  NotYet'
  <1>1. \A r \in Requests : offers[r] \subseteq Conns
    BY DEF Inv, TypeOK, Feed!TypeOK
  <1>2. ASSUME Aside, UNCHANGED offers
        PROVE  NotYet'
    BY <1>1, <1>2 DEF Aside, NotYet, Feed!Accepted
  <1>3. ASSUME NEW r \in Requests, Arrive(r) \/ PublishEnd(r)
        PROVE  NotYet'
    <2>1. UNCHANGED <<offers, received, chan>>
      BY <1>3 DEF Arrive, PublishEnd, Feed!End, feedVars
    <2> QED
      BY <1>1, <2>1, AcceptedSame DEF NotYet
  <1>4. ASSUME NEW r \in Requests, PublishBegin(r)
        PROVE  NotYet'
    <2>1. /\ offers' = [offers EXCEPT ![r] = Feed!Open]
          /\ phase[r] = "idle"
          /\ UNCHANGED <<received, chan>>
      BY <1>4 DEF PublishBegin, Feed!Begin
    <2>2. \A c \in Conns : r \notin Feed!Accepted(c)
      BY <2>1 DEF Inv, OnlyPublished
    <2>3. Feed!Open \subseteq Conns
      BY DEF Feed!Open
    <2> QED
      BY <1>1, <2>1, <2>2, <2>3, AcceptedSame DEF Inv, TypeOK, Feed!TypeOK, NotYet
  <1>5. ASSUME NEW r \in Requests, NEW c \in Conns, PublishOffer(r, c)
        PROVE  NotYet'
    <2>1. /\ offers' = [offers EXCEPT ![r] = @ \ {c}]
          /\ \A d \in Conns : d # c => Feed!Accepted(d)' = Feed!Accepted(d)
      BY <1>5, OfferSteps DEF Feed!Accepted
    <2>2. \A d \in Conns : Feed!Accepted(d)' \subseteq Feed!Accepted(d) \cup {r}
      BY <1>5, AcceptedOffer DEF Inv, TypeOK, PublishOffer
    <2> QED
      BY <1>1, <2>1, <2>2 DEF Inv, TypeOK, Feed!TypeOK, NotYet
  <1>6. CASE Exit
    BY <1>6 DEF Exit, NotYet
  <1> QED
    BY <1>2, <1>3, <1>4, <1>5, <1>6, StreamAside, CaptureAside, ProcessAside
    DEF Next, Capture

(* LogOrder: an event is appended while its own publish runs, so it is not in
   the log yet, and no webhook in the log arrived after its answer. *)
LEMMA LogOrderNext ==
  ASSUME Inv, StreamInv, [Next]_vars
  PROVE  LogOrder'
  <1>1. \A c \in Conns : Feed!Log(c) \in Seq(Requests)
    BY LogTypes DEF Inv, TypeOK
  <1>2. ASSUME Aside, UNCHANGED before
        PROVE  LogOrder'
    BY <1>2 DEF Aside, StreamInv, LogOrder
  <1>3. ASSUME NEW r \in Requests, Arrive(r)
        PROVE  LogOrder'
    <2>1. /\ \A c \in Conns : Feed!Log(c)' = Feed!Log(c)
          /\ phase[r] = "idle"
          /\ before' = [before EXCEPT ![r] = Acked]
      BY <1>3 DEF Arrive, feedVars, Feed!Log, Inv, Life
    <2>2. \A c \in Conns : \A i \in 1..Len(Feed!Log(c)) : Feed!Log(c)[i] # r
      BY <2>1 DEF Inv, OnlyPublished, Feed!Accepted
    <2>3. \A c \in Conns : \A i \in 1..Len(Feed!Log(c)) : before'[Feed!Log(c)[i]] = before[Feed!Log(c)[i]]
      BY <1>1, <2>1, <2>2 DEF Inv, TypeOK
    <2> QED
      BY <2>1, <2>3 DEF StreamInv, LogOrder
  <1>4. ASSUME NEW r \in Requests, PublishBegin(r) \/ PublishEnd(r)
        PROVE  LogOrder'
    <2>1. UNCHANGED <<received, chan, before>>
      BY <1>4 DEF PublishBegin, PublishEnd, Feed!Begin, Feed!End, captureVars
    <2>2. \A c \in Conns : Feed!Log(c)' = Feed!Log(c)
      BY <2>1 DEF Feed!Log
    <2> QED
      BY <2>1, <2>2 DEF StreamInv, LogOrder
  <1>5. ASSUME NEW r \in Requests, NEW c \in Conns, PublishOffer(r, c)
        PROVE  LogOrder'
    <2>1. /\ \A d \in Conns : d # c => Feed!Log(d)' = Feed!Log(d)
          /\ \/ Feed!Log(c)' = Append(Feed!Log(c), r)
             \/ Feed!Log(c)' = Feed!Log(c)
          /\ c \in offers[r] /\ phase[r] = "sending" /\ before' = before
      BY <1>5, OfferSteps
    <2>2. \A q \in Requests : r \notin before[q]
      BY <2>1 DEF StreamInv, BeforeReturned
    <2>3. \A i \in 1..Len(Feed!Log(c)) : Feed!Log(c)[i] # r
      BY <2>1 DEF StreamInv, NotYet, Feed!Accepted
    <2>4. ASSUME NEW d \in Conns,
                 NEW i \in 1..Len(Feed!Log(d)'), NEW j \in 1..Len(Feed!Log(d)'), i < j
          PROVE  /\ Feed!Log(d)'[i] # Feed!Log(d)'[j]
                 /\ Feed!Log(d)'[j] \notin before[Feed!Log(d)'[i]]
      <3>1. CASE Feed!Log(d)' = Feed!Log(d)
        BY <2>4, <3>1 DEF StreamInv, LogOrder
      <3>2. CASE d = c /\ Feed!Log(c)' = Append(Feed!Log(c), r)
        <4> DEFINE s == Feed!Log(c)
        <4>1. s \in Seq(Requests) /\ Feed!Log(d)' = Append(s, r)
          BY <1>1, <3>2
        <4>2. \A k \in 1..Len(s) : s[k] \in Requests /\ s[k] # r
          BY <4>1, <2>3
        <4>3. \A k, l \in 1..Len(s) : k < l => s[k] # s[l] /\ s[l] \notin before[s[k]]
          BY DEF StreamInv, LogOrder
        <4> HIDE DEF s
        <4>4. i \in 1..Len(s) /\ Append(s, r)[i] = s[i]
          BY <2>4, <4>1
        <4>5. CASE j \in 1..Len(s)
          <5>1. Append(s, r)[j] = s[j]
            BY <4>1, <4>5
          <5> QED
            BY <2>4, <4>1, <4>3, <4>4, <4>5, <5>1
        <4>6. CASE j = Len(s) + 1
          <5>1. Append(s, r)[j] = r
            BY <4>1, <4>6
          <5> QED
            BY <2>2, <4>1, <4>2, <4>4, <5>1
        <4> QED
          BY <4>1, <4>5, <4>6
      <3> QED
        BY <2>1, <3>1, <3>2
    <2> QED
      BY <2>1, <2>4 DEF LogOrder
  <1>6. CASE Exit
    BY <1>2, <1>6, ExitAside
  <1> QED
    BY <1>2, <1>3, <1>4, <1>5, <1>6, StreamAside, CaptureAside, ProcessAside
    DEF Next, Capture

-----------------------------------------------------------------------------
(* Reached: who is subscribed when a publish begins is on its way, and an
   offer leaves the event in the channel or among those missed. *)
LEMMA ReachedNext ==
  ASSUME Inv, StreamInv, [Next]_vars
  PROVE  Reached'
  <1>1. \A r \in Requests : watching[r] \subseteq Conns
    BY DEF Inv, TypeOK
  <1>2. ASSUME Aside, UNCHANGED <<offers, watching>>, ended \subseteq ended'
        PROVE  Reached'
    BY <1>1, <1>2 DEF Aside, Feed!Accepted, StreamInv, Reached
  <1>3. ASSUME NEW r \in Requests, Arrive(r)
        PROVE  Reached'
    <2>1. /\ UNCHANGED <<offers, received, chan, missed, phase, ended>>
          /\ phase[r] = "idle"
          /\ \A q \in Requests : q # r => watching'[q] = watching[q]
      BY <1>3 DEF Arrive, feedVars, sseVars, Inv, TypeOK, Life
    <2> QED
      BY <1>1, <2>1, AcceptedSame DEF StreamInv, Reached
  <1>4. ASSUME NEW r \in Requests, PublishBegin(r)
        PROVE  Reached'
    <2>1. /\ offers' = [offers EXCEPT ![r] = Feed!Open]
          /\ phase' = [phase EXCEPT ![r] = "sending"]
          /\ UNCHANGED <<received, chan, missed, watching, ended>>
      BY <1>4 DEF PublishBegin, Feed!Begin, captureVars, sseVars
    <2>2. watching[r] \ ended \subseteq Feed!Open
      BY <1>1 DEF StreamInv, Subscribed, Feed!Open
    <2> QED
      BY <1>1, <2>1, <2>2, AcceptedSame DEF Inv, TypeOK, Feed!TypeOK, StreamInv, Reached
  <1>5. ASSUME NEW r \in Requests, PublishEnd(r)
        PROVE  Reached'
    <2>1. /\ phase[r] = "sending" /\ phase' = [phase EXCEPT ![r] = "done"]
          /\ UNCHANGED <<offers, received, chan, missed, watching, ended>>
      BY <1>5 DEF PublishEnd, Feed!End, sseVars
    <2>2. \A q \in Requests : phase'[q] # "idle" => phase[q] # "idle"
      BY <2>1 DEF Inv, TypeOK, Feed!TypeOK
    <2> QED
      BY <1>1, <2>1, <2>2, AcceptedSame DEF StreamInv, Reached
  <1>6. ASSUME NEW r \in Requests, NEW c \in Conns, PublishOffer(r, c)
        PROVE  Reached'
    <2>1. /\ \A d \in Conns : d # c => Feed!Log(d)' = Feed!Log(d) /\ missed'[d] = missed[d]
          /\ \/ Feed!Log(c)' = Append(Feed!Log(c), r) /\ missed' = missed
             \/ Feed!Log(c)' = Feed!Log(c) /\ missed'[c] = missed[c] \cup {r}
          /\ offers' = [offers EXCEPT ![r] = @ \ {c}]
          /\ UNCHANGED <<phase, ended, watching>>
      BY <1>6, OfferSteps
    <2>2. \A d \in Conns : d # c => Feed!Accepted(d)' = Feed!Accepted(d)
      BY <2>1 DEF Feed!Accepted
    <2>3. Feed!Accepted(c)' \cup missed'[c] = Feed!Accepted(c) \cup missed[c] \cup {r}
      <3>1. Feed!Log(c) \in Seq(Requests)
        BY LogTypes DEF Inv, TypeOK
      <3>2. CASE Feed!Log(c)' = Append(Feed!Log(c), r) /\ missed' = missed
        <4>1. Feed!Accepted(c)' = Feed!Accepted(c) \cup {r}
          BY <3>1, <3>2, FeedThm!AppendElements DEF Feed!Accepted
        <4> QED
          BY <3>2, <4>1
      <3>3. CASE Feed!Log(c)' = Feed!Log(c) /\ missed'[c] = missed[c] \cup {r}
        <4>1. Feed!Accepted(c)' = Feed!Accepted(c)
          BY <3>3 DEF Feed!Accepted
        <4> QED
          BY <3>3, <4>1
      <3> QED
        BY <2>1, <3>2, <3>3
    <2>4. \A q \in Requests : \A d \in Conns :
            d \in offers[q] => d \in offers'[q] \/ (q = r /\ d = c)
      BY <2>1 DEF Inv, TypeOK, Feed!TypeOK
    <2> QED
      BY <1>1, <2>1, <2>2, <2>3, <2>4 DEF StreamInv, Reached
  <1>7. CASE Exit
    <2>1. /\ UNCHANGED <<phase, watching>>
          /\ \A c \in Conns : conn[c] # "new" => c \in ended'
      BY <1>7 DEF Exit
    <2>2. \A r \in Requests : watching[r] \subseteq ended'
      BY <1>1, <2>1 DEF StreamInv, Subscribed
    <2> QED
      BY <2>1, <2>2 DEF Reached
  <1>8. ASSUME NEW c \in Conns, Stream(c)
        PROVE  Reached'
    <2>1. ended \subseteq ended'
      BY <1>8 DEF Stream, Connect, Take, Write, Stop, Leave, Disconnect
    <2> QED
      BY <1>2, <1>8, <2>1, StreamAside
  <1> QED
    BY <1>2, <1>3, <1>4, <1>5, <1>6, <1>7, <1>8, CaptureAside, ProcessAside
    DEF Next, Capture

-----------------------------------------------------------------------------
(* What the dashboards were shown, are being shown and will be shown agrees
   with what the broker accepted and the providers were told. *)
THEOREM StreamInvariant == Spec => []StreamInv
  <1>1. Init => StreamInv
    BY InitStream
  <1>2. Inv /\ StreamInv /\ [Next]_vars => StreamInv'
    BY ShownNext, BeforeReturnedNext, SubscribedNext, NotYetNext, LogOrderNext, ReachedNext
    DEF StreamInv
  <1> QED
    BY <1>1, <1>2, IngestInvariant, PTL DEF Spec

(* What went through a channel is on the screen, is being written, or is
   still in the channel. *)
LEMMA WhereItIs ==
  ASSUME Inv, StreamInv, NEW c \in Conns \ ended, NEW r \in Feed!Accepted(c)
  PROVE  \/ r \in Elements(screen[c]) \cup Elements(chan[c])
         \/ conn[c] = "writing" /\ r = received[c][Len(received[c])]
  <1> DEFINE s == received[c]
             t == chan[c]
             u == screen[c]
  <1>1. s \in Seq(Requests) /\ t \in Seq(Requests) /\ u \in Seq(Requests)
    BY DEF Inv, TypeOK, Feed!TypeOK
  <1>2. PICK i \in 1..Len(s \o t) : r = (s \o t)[i]
    BY DEF Feed!Accepted, Feed!Log
  <1>3. /\ Len(s) = Len(u) + (IF conn[c] = "writing" THEN 1 ELSE 0)
        /\ \A j \in 1..Len(u) : u[j] = s[j]
    BY DEF StreamInv, Shown
  <1>4. (\E j \in 1..Len(t) : r = t[j]) => r \in Elements(chan[c])
    BY DEF Elements
  <1>5. (\E j \in 1..Len(u) : r = u[j]) => r \in Elements(screen[c])
    BY DEF Elements
  <1>6. (conn[c] = "writing" /\ r = s[Len(s)])
          => conn[c] = "writing" /\ r = received[c][Len(received[c])]
    OBVIOUS
  <1> HIDE DEF s, t, u
  <1>7. CASE i <= Len(s)
    <2>1. r = s[i] /\ i \in 1..Len(s)
      BY <1>1, <1>2, <1>7
    <2>2. CASE i <= Len(u)
      BY <1>1, <1>3, <1>5, <2>1, <2>2
    <2>3. CASE i > Len(u)
      <3>1. conn[c] = "writing" /\ i = Len(s)
        BY <1>1, <1>3, <2>1, <2>3
      <3> QED
        BY <1>6, <2>1, <3>1
    <2> QED
      BY <1>1, <2>1, <2>2, <2>3
  <1>8. CASE i > Len(s)
    <2>1. i - Len(s) \in 1..Len(t) /\ r = t[i - Len(s)]
      BY <1>1, <1>2, <1>8
    <2> QED
      BY <1>4, <2>1
  <1> QED
    BY <1>1, <1>2, <1>7, <1>8

(* A webhook answered 200 is on the screen of every dashboard connected since
   before it arrived, on its way there, or lost to a full buffer. *)
THEOREM IngestAckStreamed == Spec => []AckStreamed
  <1>1. ASSUME Inv, StreamInv, NEW r \in Acked, NEW c \in watching[r] \ ended
        PROVE  \/ r \in Elements(screen[c]) \cup Elements(chan[c]) \cup missed[c]
               \/ conn[c] = "writing" /\ r = received[c][Len(received[c])]
    <2>1. r \in Requests /\ c \in Conns /\ status[r] = 200
      BY <1>1 DEF Inv, TypeOK, Acked
    <2>2. phase[r] = "done" /\ offers[r] = {}
      BY <1>1, <2>1 DEF Inv, Life
    <2>3. r \in Feed!Accepted(c) \cup missed[c]
      BY <1>1, <2>1, <2>2 DEF StreamInv, Reached
    <2> QED
      BY <1>1, <2>1, <2>3, WhereItIs
  <1>2. Inv /\ StreamInv => AckStreamed
    BY <1>1 DEF AckStreamed
  <1> QED
    BY <1>2, IngestInvariant, StreamInvariant, PTL

(* A dashboard shows no webhook twice, nor one before another that had been
   answered when it arrived. *)
THEOREM IngestCausalOrder == Spec => []CausalOrder
  <1>1. ASSUME Inv, StreamInv, NEW c \in Conns, NEW i \in 1..Len(screen[c])
        PROVE  i \in 1..Len(Feed!Log(c)) /\ screen[c][i] = Feed!Log(c)[i]
    <2> DEFINE s == received[c]
               t == chan[c]
    <2>1. s \in Seq(Requests) /\ t \in Seq(Requests) /\ screen[c] \in Seq(Requests)
      BY <1>1 DEF Inv, TypeOK, Feed!TypeOK
    <2>2. Len(screen[c]) <= Len(s) /\ screen[c][i] = s[i]
      BY <1>1 DEF StreamInv, Shown
    <2>3. Feed!Log(c) = s \o t
      BY DEF Feed!Log
    <2> HIDE DEF s, t
    <2>4. i \in 1..Len(s) /\ i \in 1..Len(s \o t) /\ (s \o t)[i] = s[i]
      BY <2>1, <2>2
    <2> QED
      BY <2>2, <2>3, <2>4
  <1>2. Inv /\ StreamInv => CausalOrder
    BY <1>1 DEF StreamInv, LogOrder, CausalOrder
  <1> QED
    BY <1>2, IngestInvariant, StreamInvariant, PTL
=============================================================================
