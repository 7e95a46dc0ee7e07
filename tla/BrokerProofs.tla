---------------------------- MODULE BrokerProofs ----------------------------
(***************************************************************************)
(* Proofs about Broker, for any sets of requests and connections and any   *)
(* buffer size: the lock keeps a channel open while a Publish may send to  *)
(* it, and the broker implements EventFeed, whose theorems it inherits.    *)
(***************************************************************************)
EXTENDS Broker, TLAPS

-----------------------------------------------------------------------------
LEMMA InitInv == Init => Inv
  BY BrokerAssumption DEF Init, Inv, TypeOK, LockDiscipline, Membership, NoSendOnClosed

LEMMA LockInv ==
  ASSUME Inv, NEW c \in Conns, Lock(c)
  PROVE  Inv'
  BY DEF Lock, obsVars, Inv, TypeOK, LockDiscipline, Membership, NoSendOnClosed

LEMMA SubscribeInv ==
  ASSUME Inv, NEW c \in Conns, Subscribe(c)
  PROVE  Inv'
  <1> USE DEF Subscribe, obsVars, Inv
  <1>1. TypeOK'
    BY BrokerAssumption DEF TypeOK
  <1>2. Membership'
    BY DEF TypeOK, Membership
  <1>3. LockDiscipline' /\ NoSendOnClosed'
    BY DEF TypeOK, LockDiscipline, Membership, NoSendOnClosed
  <1> QED
    BY <1>1, <1>2, <1>3

(* Nobody is inside Publish when the lock is held: no channel is in a todo. *)
LEMMA UnsubscribeInv ==
  ASSUME Inv, NEW c \in Conns, Unsubscribe(c)
  PROVE  Inv'
  <1> USE DEF Unsubscribe, obsVars, Inv
  <1>1. TypeOK'
    BY DEF TypeOK
  <1>2. Membership'
    BY DEF TypeOK, Membership
  <1>3. LockDiscipline' /\ NoSendOnClosed'
    BY DEF TypeOK, LockDiscipline, Membership, NoSendOnClosed
  <1> QED
    BY <1>1, <1>2, <1>3

LEMMA PublishInv ==
  ASSUME Inv, NEW r \in Requests, Call(r) \/ RLock(r) \/ RUnlock(r)
  PROVE  Inv'
  <1> USE DEF obsVars, Inv, TypeOK, LockDiscipline, Membership, NoSendOnClosed
  <1>1. CASE Call(r)
    BY <1>1 DEF Call
  <1>2. CASE RLock(r)
    BY <1>2 DEF RLock
  <1>3. CASE RUnlock(r)
    BY <1>3 DEF RUnlock
  <1> QED
    BY <1>1, <1>2, <1>3

LEMMA SendInv ==
  ASSUME Inv, NEW r \in Requests, NEW c \in Conns, Send(r, c)
  PROVE  Inv'
  <1>1. /\ c \in todo[r]
        /\ todo' = [todo EXCEPT ![r] = @ \ {c}]
        /\ UNCHANGED <<rlocked, writer, subscribers, closed, op, pub,
                       received, audience, prior>>
    BY DEF Send
  <1>2. chan[c] \in Seq(Requests) /\ Append(chan[c], r) \in Seq(Requests)
    BY DEF Inv, TypeOK
  <1>3. CASE Len(chan[c]) < Capacity
    <2>1. chan' = [chan EXCEPT ![c] = Append(@, r)] /\ missed' = missed
      BY <1>3 DEF Send
    <2>2. Len(Append(chan[c], r)) = Len(chan[c]) + 1
      BY <1>2
    <2>3. \A d \in Conns : Len(chan'[d]) <= Capacity
      BY <1>2, <1>3, <2>1, <2>2, BrokerAssumption DEF Inv, TypeOK
    <2>4. TypeOK'
      BY <1>1, <1>2, <2>1, <2>3 DEF Inv, TypeOK
    <2> QED
      BY <1>1, <2>1, <2>4
      DEF Inv, TypeOK, LockDiscipline, Membership, NoSendOnClosed
  <1>4. CASE ~(Len(chan[c]) < Capacity)
    <2>1. chan' = chan /\ missed' = [missed EXCEPT ![c] = @ \cup {r}]
      BY <1>4 DEF Send
    <2>2. TypeOK'
      BY <1>1, <2>1 DEF Inv, TypeOK
    <2> QED
      BY <1>1, <2>1, <2>2
      DEF Inv, TypeOK, LockDiscipline, Membership, NoSendOnClosed
  <1> QED
    BY <1>3, <1>4

LEMMA ReceiveInv ==
  ASSUME Inv, NEW c \in Conns, Receive(c)
  PROVE  Inv'
  <1>1. TypeOK'
    BY BrokerAssumption DEF Receive, Inv, TypeOK
  <1> QED
    BY <1>1 DEF Receive, Inv, TypeOK, LockDiscipline, Membership, NoSendOnClosed

LEMMA LeaveInv ==
  ASSUME Inv, NEW c \in Conns, Leave(c)
  PROVE  Inv'
  BY DEF Leave, obsVars, Inv, TypeOK, LockDiscipline, Membership, NoSendOnClosed

LEMMA StutterInv ==
  ASSUME Inv, UNCHANGED vars
  PROVE  Inv'
  BY DEF vars, Inv, TypeOK, LockDiscipline, Membership, NoSendOnClosed

LEMMA NextInv == Inv /\ [Next]_vars => Inv'
  <1> SUFFICES ASSUME Inv, [Next]_vars PROVE Inv'
    OBVIOUS
  <1>1. ASSUME NEW c \in Conns,
               Lock(c) \/ Subscribe(c) \/ Unsubscribe(c) \/ Receive(c) \/ Leave(c)
        PROVE  Inv'
    BY <1>1, LockInv, SubscribeInv, UnsubscribeInv, ReceiveInv, LeaveInv
  <1>2. ASSUME NEW r \in Requests, Call(r) \/ RLock(r) \/ RUnlock(r)
        PROVE  Inv'
    BY <1>2, PublishInv
  <1>3. ASSUME NEW r \in Requests, NEW c \in Conns, Send(r, c)
        PROVE  Inv'
    BY <1>3, SendInv
  <1>4. CASE UNCHANGED vars
    BY <1>4, StutterInv
  <1> QED
    BY <1>1, <1>2, <1>3, <1>4 DEF Next, Terminating

(* The broker's inductive invariant: its types, who holds the lock when, and
   which channels are in the map. *)
THEOREM BrokerInvariant == Spec => []Inv
  BY InitInv, NextInv, PTL DEF Spec

(* Every value the broker's variables take is of its type; a channel never
   holds more than its capacity. *)
THEOREM BrokerTypeOK == Spec => []TypeOK
  <1>1. Inv => TypeOK
    BY DEF Inv
  <1> QED
    BY <1>1, BrokerInvariant, PTL

(* Publish never sends on a closed channel, nor ranges over the map while it
   is being modified. *)
THEOREM BrokerNoSendOnClosed == Spec => []NoSendOnClosed
  <1>1. Inv => NoSendOnClosed
    BY DEF Inv
  <1> QED
    BY <1>1, BrokerInvariant, PTL

-----------------------------------------------------------------------------
(* The feed's vocabulary, in terms of the broker's state. *)
LEMMA MapOpen ==
  ASSUME Inv
  PROVE  /\ Feed!Open = subscribers
         /\ Feed!Returned = {q \in Requests : pub[q] = "done"}
         /\ \A r \in Requests : pub[r] \in {"idle", "waiting"} => todo[r] = {}
  BY DEF Inv, TypeOK, NoSendOnClosed, LockDiscipline, Feed!Open, Feed!Returned

LEMMA RefineInit == Init => Feed!Init
  BY DEF Init, Feed!Init

(* The steps about the lock and the decisions of the callers are invisible. *)
LEMMA RefineStutter ==
  ASSUME Inv,
         \/ \E c \in Conns : Lock(c) \/ Leave(c)
         \/ \E r \in Requests : Call(r)
         \/ UNCHANGED vars
  PROVE  UNCHANGED Feed!feedVars
  BY DEF Inv, TypeOK, Lock, Leave, Call, vars, obsVars, Feed!feedVars

LEMMA RefineSubscribe ==
  ASSUME Inv, NEW c \in Conns, Subscribe(c)
  PROVE  Feed!Subscribe(c)
  BY DEF Inv, TypeOK, Membership, Subscribe, obsVars, Feed!Subscribe

(* Feed!Unsubscribe wants no Publish to have c left to visit: that is what
   the write lock, held with no reader inside, gives. *)
LEMMA RefineUnsubscribe ==
  ASSUME Inv, NEW c \in Conns, Unsubscribe(c)
  PROVE  Feed!Unsubscribe(c)
  BY DEF Inv, TypeOK, Membership, LockDiscipline, Unsubscribe, obsVars,
     Feed!Unsubscribe

LEMMA RefineReceive ==
  ASSUME Inv, NEW c \in Conns, Receive(c)
  PROVE  Feed!Receive(c)
  BY DEF Inv, TypeOK, Membership, Receive, Feed!Receive

LEMMA RefineBegin ==
  ASSUME Inv, NEW r \in Requests, RLock(r)
  PROVE  Feed!Begin(r)
  <1>1. Feed!Open = subscribers /\ Feed!Returned = {q \in Requests : pub[q] = "done"}
    BY MapOpen
  <1> QED
    BY <1>1 DEF Inv, TypeOK, RLock, Feed!Begin

LEMMA RefineOffer ==
  ASSUME Inv, NEW r \in Requests, NEW c \in Conns, Send(r, c)
  PROVE  Feed!Offer(r, c)
  BY DEF Inv, TypeOK, Send, Feed!Offer

LEMMA RefineEnd ==
  ASSUME Inv, NEW r \in Requests, RUnlock(r)
  PROVE  Feed!End(r)
  BY DEF Inv, TypeOK, RUnlock, obsVars, Feed!End

LEMMA RefineNext == Inv /\ [Next]_vars => [Feed!Next]_(Feed!feedVars)
  <1> SUFFICES ASSUME Inv, [Next]_vars PROVE [Feed!Next]_(Feed!feedVars)
    OBVIOUS
  <1>1. ASSUME NEW c \in Conns, Subscribe(c) \/ Unsubscribe(c) \/ Receive(c)
        PROVE  Feed!Next
    BY <1>1, RefineSubscribe, RefineUnsubscribe, RefineReceive DEF Feed!Next
  <1>2. ASSUME NEW r \in Requests, RLock(r) \/ RUnlock(r)
        PROVE  Feed!Next
    BY <1>2, RefineBegin, RefineEnd DEF Feed!Next
  <1>3. ASSUME NEW r \in Requests, NEW c \in Conns, Send(r, c)
        PROVE  Feed!Next
    BY <1>3, RefineOffer DEF Feed!Next
  <1> QED
    BY <1>1, <1>2, <1>3, RefineStutter DEF Next, Terminating

(* The broker behind its RWMutex implements the lossy broadcast. *)
THEOREM BrokerImplementsFeed == Spec => ImplementsFeed
  BY RefineInit, RefineNext, BrokerInvariant, PTL DEF Spec, ImplementsFeed, Feed!Spec

-----------------------------------------------------------------------------
(* The theorems of EventFeedProofs, under the same refinement mapping. *)
FeedThm == INSTANCE EventFeedProofs WITH
  sub    <- [c \in Conns |-> IF c \in subscribers THEN "open"
                             ELSE IF c \in closed THEN "closed" ELSE "new"],
  phase  <- [r \in Requests |-> IF pub[r] = "waiting" THEN "idle" ELSE pub[r]],
  offers <- todo

(* The two instances are of the same specification. *)
LEMMA SameSpec == Feed!Spec => FeedThm!Spec
  <1>1. Feed!Init => FeedThm!Init
    BY DEF Feed!Init, FeedThm!Init
  <1>2. [Feed!Next]_(Feed!feedVars) => [FeedThm!Next]_(FeedThm!feedVars)
    BY DEF Feed!Next, FeedThm!Next, Feed!feedVars, FeedThm!feedVars,
       Feed!Subscribe, FeedThm!Subscribe, Feed!Unsubscribe, FeedThm!Unsubscribe,
       Feed!Receive, FeedThm!Receive, Feed!Begin, FeedThm!Begin,
       Feed!Offer, FeedThm!Offer, Feed!End, FeedThm!End,
       Feed!Open, FeedThm!Open, Feed!Returned, FeedThm!Returned
  <1> QED
    BY <1>1, <1>2, PTL DEF Feed!Spec, FeedThm!Spec

(* The subscribers of the broker see no duplicates, and no event after one
   whose Publish began only when its own had returned. *)
THEOREM BrokerDeliveryOrder == Spec => []DeliveryOrder
  <1>1. FeedThm!Spec => []FeedThm!DeliveryOrder
    BY FeedThm!FeedDeliveryOrder, BrokerAssumption
  <1>2. FeedThm!DeliveryOrder => DeliveryOrder
    BY DEF DeliveryOrder, Feed!DeliveryOrder, FeedThm!DeliveryOrder,
       Feed!Log, FeedThm!Log
  <1> QED
    BY <1>1, <1>2, SameSpec, BrokerImplementsFeed, PTL DEF ImplementsFeed

(* What a channel of the broker has carried is what was offered to it and not
   lost to a full buffer. *)
THEOREM BrokerOfferAccounting == Spec => []OfferAccounting
  <1>1. FeedThm!Spec => []FeedThm!OfferAccounting
    BY FeedThm!FeedOfferAccounting, BrokerAssumption
  <1>2. FeedThm!OfferAccounting => OfferAccounting
    BY DEF OfferAccounting, Feed!OfferAccounting, FeedThm!OfferAccounting,
       Feed!Visited, FeedThm!Visited, Feed!Accepted, FeedThm!Accepted,
       Feed!Log, FeedThm!Log
  <1> QED
    BY <1>1, <1>2, SameSpec, BrokerImplementsFeed, PTL DEF ImplementsFeed
=============================================================================
