------------------------------- MODULE Broker -------------------------------
(***************************************************************************)
(* internal/event/broker.go: the map of subscriber channels behind a       *)
(* sync.RWMutex.  Publish holds the read lock while it visits the channels *)
(* in map order (any order) with non-blocking sends; Subscribe and         *)
(* Unsubscribe take the write lock.                                        *)
(*                                                                         *)
(* sync.RWMutex is modelled from its use: a writer first announces itself  *)
(* (Lock), which holds back new readers, and enters once the readers that  *)
(* were inside have left.  A writer's critical section is one step: nobody *)
(* can observe its middle.                                                 *)
(***************************************************************************)
EXTENDS Naturals, Sequences

CONSTANTS
  Requests,   \* requests to publish; one goroutine calls Publish for each
  Conns,      \* SSE connections; each goroutine subscribes at most once
  Capacity,   \* make(chan *model.WebhookRequest, 16)
  NoConn      \* no writer holds or awaits the lock

ASSUME BrokerAssumption ==
  /\ Capacity \in Nat \ {0}
  /\ NoConn \notin Conns

VARIABLES
  rlocked,      \* publishers inside b.mu.RLock()
  writer,       \* the goroutine that has announced b.mu.Lock()
  subscribers,  \* keys of b.subscribers
  closed,       \* channels close() was called on
  chan,         \* chan[c]: buffer of c's channel
  op,           \* op[c]: where c's goroutine is
  pub,          \* pub[r]: where Publish(r) is
  todo,         \* todo[r]: channels the range loop of Publish(r) has left
  received, missed, audience, prior   \* observation, as in EventFeed

obsVars == <<received, missed, audience, prior>>
vars == <<rlocked, writer, subscribers, closed, chan, op, pub, todo,
          received, missed, audience, prior>>

TypeOK ==
  /\ rlocked     \subseteq Requests
  /\ writer      \in Conns \cup {NoConn}
  /\ subscribers \subseteq Conns
  /\ closed      \subseteq Conns
  /\ chan        \in [Conns -> Seq(Requests)]
  /\ \A c \in Conns : Len(chan[c]) <= Capacity
  /\ op          \in [Conns -> {"idle", "subscribed", "leaving", "gone"}]
  /\ pub         \in [Requests -> {"idle", "waiting", "sending", "done"}]
  /\ todo        \in [Requests -> SUBSET Conns]
  /\ received    \in [Conns -> Seq(Requests)]
  /\ missed      \in [Conns -> SUBSET Requests]
  /\ audience    \in [Requests -> SUBSET Conns]
  /\ prior       \in [Requests -> SUBSET Requests]

Init ==
  /\ rlocked     = {}
  /\ writer      = NoConn
  /\ subscribers = {}
  /\ closed      = {}
  /\ chan        = [c \in Conns |-> <<>>]
  /\ op          = [c \in Conns |-> "idle"]
  /\ pub         = [r \in Requests |-> "idle"]
  /\ todo        = [r \in Requests |-> {}]
  /\ received    = [c \in Conns |-> <<>>]
  /\ missed      = [c \in Conns |-> {}]
  /\ audience    = [r \in Requests |-> {}]
  /\ prior       = [r \in Requests |-> {}]

-----------------------------------------------------------------------------
(* b.mu.Lock(): one writer at a time announces itself. *)
Lock(c) ==
  /\ op[c] \in {"idle", "leaving"}
  /\ writer = NoConn
  /\ writer' = c
  /\ UNCHANGED <<rlocked, subscribers, closed, chan, op, pub, todo, obsVars>>

(* Subscribe, from the moment the lock is held to the deferred Unlock. *)
Subscribe(c) ==
  /\ writer = c
  /\ rlocked = {}
  /\ op[c] = "idle"
  /\ subscribers' = subscribers \cup {c}
  /\ chan' = [chan EXCEPT ![c] = <<>>]
  /\ op' = [op EXCEPT ![c] = "subscribed"]
  /\ writer' = NoConn
  /\ UNCHANGED <<rlocked, closed, pub, todo, obsVars>>

UnsubscribeDuringPublish(c) ==
  /\ writer = c
  /\ op[c] = "leaving"
  /\ subscribers' = subscribers \ {c}
  /\ closed' = IF c \in subscribers THEN closed \cup {c} ELSE closed
  /\ op' = [op EXCEPT ![c] = "gone"]
  /\ writer' = NoConn
  /\ UNCHANGED <<rlocked, chan, pub, todo, obsVars>>

(* Unsubscribe, likewise; the exists test makes a second call harmless. *)
Unsubscribe(c) ==
  /\ writer = c
  /\ rlocked = {}
  /\ op[c] = "leaving"
  /\ subscribers' = subscribers \ {c}
  /\ closed' = IF c \in subscribers THEN closed \cup {c} ELSE closed
  /\ op' = [op EXCEPT ![c] = "gone"]
  /\ writer' = NoConn
  /\ UNCHANGED <<rlocked, chan, pub, todo, obsVars>>

(* A capture handler calls Publish(r) ... *)
Call(r) ==
  /\ pub[r] = "idle"
  /\ pub' = [pub EXCEPT ![r] = "waiting"]
  /\ UNCHANGED <<rlocked, writer, subscribers, closed, chan, op, todo, obsVars>>

(* ... gets the read lock, and starts to range over the map ... *)
RLock(r) ==
  /\ pub[r] = "waiting"
  /\ writer = NoConn
  /\ rlocked'  = rlocked \cup {r}
  /\ pub'      = [pub EXCEPT ![r] = "sending"]
  /\ todo'     = [todo EXCEPT ![r] = subscribers]
  /\ audience' = [audience EXCEPT ![r] = subscribers]
  /\ prior'    = [prior EXCEPT ![r] = {q \in Requests : pub[q] = "done"}]
  /\ UNCHANGED <<writer, subscribers, closed, chan, op, received, missed>>

SendUnbounded(r, c) ==
  /\ c \in todo[r]
  /\ todo' = [todo EXCEPT ![r] = @ \ {c}]
  /\ chan' = [chan EXCEPT ![c] = Append(@, r)]
  /\ UNCHANGED <<rlocked, writer, subscribers, closed, op, pub,
                 received, missed, audience, prior>>

SendBlocking(r, c) ==
  /\ c \in todo[r]
  /\ Len(chan[c]) < Capacity
  /\ todo' = [todo EXCEPT ![r] = @ \ {c}]
  /\ chan' = [chan EXCEPT ![c] = Append(@, r)]
  /\ UNCHANGED <<rlocked, writer, subscribers, closed, op, pub,
                 received, missed, audience, prior>>

SendAndRevisit(r, c) ==
  /\ c \in todo[r]
  /\ todo' \in {todo, [todo EXCEPT ![r] = @ \ {c}]}
  /\ IF Len(chan[c]) < Capacity
       THEN chan' = [chan EXCEPT ![c] = Append(@, r)] /\ missed' = missed
       ELSE missed' = [missed EXCEPT ![c] = @ \cup {r}] /\ chan' = chan
  /\ UNCHANGED <<rlocked, writer, subscribers, closed, op, pub,
                 received, audience, prior>>

(* ... one channel at a time: put if there is room, else drop ... *)
Send(r, c) ==
  /\ c \in todo[r]
  /\ todo' = [todo EXCEPT ![r] = @ \ {c}]
  /\ IF Len(chan[c]) < Capacity
       THEN chan' = [chan EXCEPT ![c] = Append(@, r)] /\ missed' = missed
       ELSE missed' = [missed EXCEPT ![c] = @ \cup {r}] /\ chan' = chan
  /\ UNCHANGED <<rlocked, writer, subscribers, closed, op, pub,
                 received, audience, prior>>

RUnlockEarly(r) ==
  /\ pub[r] = "sending"
  /\ rlocked' = rlocked \ {r}
  /\ pub'     = [pub EXCEPT ![r] = "done"]
  /\ UNCHANGED <<writer, subscribers, closed, chan, op, todo, obsVars>>

(* ... and returns when every channel has been visited (defer RUnlock). *)
RUnlock(r) ==
  /\ pub[r] = "sending"
  /\ todo[r] = {}
  /\ rlocked' = rlocked \ {r}
  /\ pub'     = [pub EXCEPT ![r] = "done"]
  /\ UNCHANGED <<writer, subscribers, closed, chan, op, todo, obsVars>>

(* The SSE goroutine takes the next event out of its channel, without any lock. *)
Receive(c) ==
  /\ op[c] = "subscribed"
  /\ chan[c] # <<>>
  /\ chan'     = [chan EXCEPT ![c] = Tail(@)]
  /\ received' = [received EXCEPT ![c] = Append(@, Head(chan[c]))]
  /\ UNCHANGED <<rlocked, writer, subscribers, closed, op, pub, todo,
                 missed, audience, prior>>

(* The SSE handler returns: its deferred Unsubscribe wants the lock. *)
Leave(c) ==
  /\ op[c] = "subscribed"
  /\ op' = [op EXCEPT ![c] = "leaving"]
  /\ UNCHANGED <<rlocked, writer, subscribers, closed, chan, pub, todo, obsVars>>

(* The workload is over: the only states in which nothing need happen. *)
Terminating ==
  /\ \A c \in Conns : op[c] = "gone"
  /\ \A r \in Requests : pub[r] = "done"
  /\ UNCHANGED vars

Next ==
  \/ \E c \in Conns : Lock(c) \/ Subscribe(c) \/ Unsubscribe(c) \/ Receive(c) \/ Leave(c)
  \/ \E r \in Requests : Call(r) \/ RLock(r) \/ RUnlock(r)
  \/ \E r \in Requests, c \in Conns : Send(r, c)
  \/ Terminating

Spec == Init /\ [][Next]_vars

(***************************************************************************)
(* Goroutines inside a broker call are scheduled and sync.RWMutex lets     *)
(* them in; whether anybody subscribes, publishes, leaves, or drains its   *)
(* channel (Receive) is up to the clients: a stalled one never does.       *)
(***************************************************************************)
Fairness ==
  /\ \A c \in Conns :
       /\ WF_vars(op[c] = "leaving" /\ Lock(c))
       /\ WF_vars(Subscribe(c))
       /\ WF_vars(Unsubscribe(c))
  /\ \A r \in Requests :
       /\ WF_vars(RLock(r))
       /\ WF_vars(\E c \in Conns : Send(r, c))
       /\ WF_vars(RUnlock(r))

FairSpec == Spec /\ Fairness

-----------------------------------------------------------------------------
(* The refinement mapping: announcing and waiting for the lock are stutters. *)
Feed == INSTANCE EventFeed WITH
  sub    <- [c \in Conns |-> IF c \in subscribers THEN "open"
                             ELSE IF c \in closed THEN "closed" ELSE "new"],
  phase  <- [r \in Requests |-> IF pub[r] = "waiting" THEN "idle" ELSE pub[r]],
  offers <- todo

(* The broker, seen without its lock, is the lossy broadcast of EventFeed:
   each of its steps is one of the feed's or none. *)
ImplementsFeed == Feed!Spec

(* No goroutine inside Publish has a closed channel left to send to, and none
   is inside while the map is being changed: sending on a closed channel
   panics, and so would ranging over a map under modification. *)
NoSendOnClosed ==
  \A r \in Requests : todo[r] \subseteq subscribers \ closed

(* What a channel has carried is exactly what was offered to it and not lost
   to a full buffer; see EventFeed. *)
OfferAccounting == Feed!OfferAccounting

(* No duplicates, and no event overtakes one whose Publish had returned. *)
DeliveryOrder == Feed!DeliveryOrder

-----------------------------------------------------------------------------
(* Who is inside Publish, and that the map only changes while nobody is. *)
LockDiscipline ==
  \A r \in Requests :
    /\ pub[r] = "sending" <=> r \in rlocked
    /\ todo[r] # {} => r \in rlocked

(* A channel is in the map from Subscribe to Unsubscribe, and then closed. *)
Membership ==
  \A c \in Conns :
    /\ c \in subscribers <=> op[c] \in {"subscribed", "leaving"}
    /\ c \in closed <=> op[c] = "gone"
    /\ op[c] = "idle" => chan[c] = <<>>

(* The inductive invariant: a writer that finds no reader inside also finds no
   channel that a Publish has left to visit. *)
Inv == TypeOK /\ LockDiscipline /\ Membership /\ NoSendOnClosed

-----------------------------------------------------------------------------
(* A Publish that was called returns, though no subscriber drain its channel:
   ingestion does not wait for dashboards (broker.go:43-48). *)
PublishReturns == \A r \in Requests : pub[r] = "waiting" ~> pub[r] = "done"

(* A connection that ends is taken out of the map, so that neither its
   goroutine nor its channel leaks, whatever publishers are doing. *)
UnsubscribeReturns ==
  \A c \in Conns : op[c] = "leaving" ~> op[c] = "gone"

(* No call of the broker waits for ever (broker.go:29-50). *)
CallsReturn == PublishReturns /\ UnsubscribeReturns
=============================================================================
