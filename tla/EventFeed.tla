----------------------------- MODULE EventFeed -----------------------------
(***************************************************************************)
(* What internal/event promises the rest of Hooklet: a lossy broadcast.    *)
(* Each SSE connection has a bounded channel; publishing a captured        *)
(* request offers it once to every connection subscribed when the publish  *)
(* began; an offer never waits, a full channel loses it.                   *)
(*                                                                         *)
(* This is the abstract specification of the broker: there is no lock.     *)
(* Broker.tla, with the RWMutex, implements it, and Ingest.tla composes    *)
(* the capture and SSE handlers with it.                                   *)
(*                                                                         *)
(* A channel is named by the connection whose Subscribe made it, a call of *)
(* Publish by the request it publishes: every connection subscribes once   *)
(* and every captured request is published at most once.                   *)
(***************************************************************************)
EXTENDS Naturals, Sequences

CONSTANTS
  Requests,   \* captured webhooks (model.WebhookRequest), one per Publish
  Conns,      \* SSE connections (channels)
  Capacity    \* buffer size of a channel, a natural number; 16 in the code

VARIABLES
  sub,        \* sub[c]: has c a channel in b.subscribers ("open")?
  chan,       \* chan[c]: the events buffered in c's channel
  phase,      \* phase[r]: progress of Publish(r)
  offers,     \* offers[r]: channels Publish(r) has still to visit
  (* observation only *)
  received,   \* received[c]: what c's goroutine took out of its channel
  missed,     \* missed[c]: events lost because c's channel was full
  audience,   \* audience[r]: channels subscribed when Publish(r) began
  prior       \* prior[r]: requests whose Publish had returned by then

feedVars == <<sub, chan, phase, offers, received, missed, audience, prior>>

TypeOK ==
  /\ sub      \in [Conns -> {"new", "open", "closed"}]
  /\ chan     \in [Conns -> Seq(Requests)]
  /\ \A c \in Conns : Len(chan[c]) <= Capacity
  /\ phase    \in [Requests -> {"idle", "sending", "done"}]
  /\ offers   \in [Requests -> SUBSET Conns]
  /\ received \in [Conns -> Seq(Requests)]
  /\ missed   \in [Conns -> SUBSET Requests]
  /\ audience \in [Requests -> SUBSET Conns]
  /\ prior    \in [Requests -> SUBSET Requests]

Init ==
  /\ sub      = [c \in Conns |-> "new"]
  /\ chan     = [c \in Conns |-> <<>>]
  /\ phase    = [r \in Requests |-> "idle"]
  /\ offers   = [r \in Requests |-> {}]
  /\ received = [c \in Conns |-> <<>>]
  /\ missed   = [c \in Conns |-> {}]
  /\ audience = [r \in Requests |-> {}]
  /\ prior    = [r \in Requests |-> {}]

Open     == {c \in Conns : sub[c] = "open"}
Returned == {r \in Requests : phase[r] = "done"}

-----------------------------------------------------------------------------
Subscribe(c) ==
  /\ sub[c] = "new"
  /\ sub' = [sub EXCEPT ![c] = "open"]
  /\ UNCHANGED <<chan, phase, offers, received, missed, audience, prior>>

(* A channel is closed only when no running Publish has still to visit it. *)
Unsubscribe(c) ==
  /\ sub[c] = "open"
  /\ \A r \in Requests : c \notin offers[r]
  /\ sub' = [sub EXCEPT ![c] = "closed"]
  /\ UNCHANGED <<chan, phase, offers, received, missed, audience, prior>>

Begin(r) ==
  /\ phase[r] = "idle"
  /\ phase'    = [phase EXCEPT ![r] = "sending"]
  /\ offers'   = [offers EXCEPT ![r] = Open]
  /\ audience' = [audience EXCEPT ![r] = Open]
  /\ prior'    = [prior EXCEPT ![r] = Returned]
  /\ UNCHANGED <<sub, chan, received, missed>>

(* select { case ch <- req: default: }: the channel is visited, full or not. *)
Offer(r, c) ==
  /\ c \in offers[r]
  /\ offers' = [offers EXCEPT ![r] = @ \ {c}]
  /\ IF Len(chan[c]) < Capacity
       THEN chan' = [chan EXCEPT ![c] = Append(@, r)] /\ missed' = missed
       ELSE missed' = [missed EXCEPT ![c] = @ \cup {r}] /\ chan' = chan
  /\ UNCHANGED <<sub, phase, received, audience, prior>>

End(r) ==
  /\ phase[r] = "sending"
  /\ offers[r] = {}
  /\ phase' = [phase EXCEPT ![r] = "done"]
  /\ UNCHANGED <<sub, chan, offers, received, missed, audience, prior>>

Receive(c) ==
  /\ sub[c] = "open"
  /\ chan[c] # <<>>
  /\ chan'     = [chan EXCEPT ![c] = Tail(@)]
  /\ received' = [received EXCEPT ![c] = Append(@, Head(chan[c]))]
  /\ UNCHANGED <<sub, phase, offers, missed, audience, prior>>

Next ==
  \/ \E c \in Conns : Subscribe(c) \/ Unsubscribe(c) \/ Receive(c)
  \/ \E r \in Requests : Begin(r) \/ End(r)
  \/ \E r \in Requests, c \in Conns : Offer(r, c)

Spec == Init /\ [][Next]_feedVars

-----------------------------------------------------------------------------
(* Everything the broker ever put into c's channel, oldest first. *)
Log(c) == received[c] \o chan[c]

Accepted(c) == {Log(c)[i] : i \in 1..Len(Log(c))}

(* The calls of Publish that have visited c's channel. *)
Visited(c) == {r \in Requests : c \in audience[r] \ offers[r]}

(***************************************************************************)
(* A Publish in progress never holds a channel that has been closed: a     *)
(* send on it would panic the capture handler.                             *)
(***************************************************************************)
NoSendOnClosed == \A r \in Requests : offers[r] \subseteq Open

(***************************************************************************)
(* Every offer is accounted for: a channel holds or has delivered exactly  *)
(* the requests of the Publish calls that visited it, less those lost to a *)
(* full buffer, and a Publish that returned has visited its whole          *)
(* audience.  Nothing else is ever in a channel.                           *)
(***************************************************************************)
OfferAccounting ==
  /\ \A c \in Conns : Visited(c) = Accepted(c) \cup missed[c]
  /\ \A c \in Conns : Accepted(c) \cap missed[c] = {}
  /\ \A r \in Requests : phase[r] = "done" => offers[r] = {}

(***************************************************************************)
(* No subscriber sees an event twice, or an event before one whose Publish *)
(* had returned when its own began.  Events whose publishes overlap may    *)
(* come in different orders to different subscribers.                      *)
(***************************************************************************)
DeliveryOrder ==
  \A c \in Conns : \A i, j \in 1..Len(Log(c)) :
    i < j => /\ Log(c)[i] # Log(c)[j]
             /\ Log(c)[j] \notin prior[Log(c)[i]]

-----------------------------------------------------------------------------
(* What a Publish call knows at each stage of its life. *)
Stages ==
  \A r \in Requests :
    /\ phase[r] # "sending" => offers[r] = {}
    /\ phase[r] = "idle" => audience[r] = {}
    /\ offers[r] \subseteq audience[r]
    /\ prior[r] \subseteq Returned

(***************************************************************************)
(* The inductive invariant behind the three properties above: an event is  *)
(* appended only by its own Publish, which is therefore still running, has *)
(* not been to that channel, and is in nobody's prior.                     *)
(***************************************************************************)
Inv ==
  /\ TypeOK
  /\ Stages
  /\ NoSendOnClosed
  /\ OfferAccounting
  /\ DeliveryOrder
=============================================================================
