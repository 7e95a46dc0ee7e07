-------------------------- MODULE EventFeedProofs --------------------------
(***************************************************************************)
(* Proofs about EventFeed, for any sets of requests and connections and    *)
(* any buffer size: Inv is inductive, and so the three safety properties   *)
(* of the broadcast hold in every behaviour.                               *)
(***************************************************************************)
EXTENDS EventFeed, TLAPS

-----------------------------------------------------------------------------
(* Putting an event into a channel appends it to the channel's log. *)
LEMMA LogAppend ==
  ASSUME NEW S, NEW s \in Seq(S), NEW t \in Seq(S), NEW e \in S
  PROVE  s \o Append(t, e) = Append(s \o t, e)
  OBVIOUS

(* Taking an event out of a channel leaves the channel's log as it is. *)
LEMMA LogReceive ==
  ASSUME NEW S, NEW s \in Seq(S), NEW t \in Seq(S), t # <<>>
  PROVE  Append(s, Head(t)) \o Tail(t) = s \o t
  OBVIOUS

(* The elements of a sequence after an Append. *)
LEMMA AppendElements ==
  ASSUME NEW S, NEW s \in Seq(S), NEW e \in S
  PROVE  {Append(s, e)[i] : i \in 1..Len(Append(s, e))}
           = {s[i] : i \in 1..Len(s)} \cup {e}
  OBVIOUS

-----------------------------------------------------------------------------
LEMMA OfferType ==
  ASSUME Capacity \in Nat, TypeOK, NEW r \in Requests, NEW c \in Conns, Offer(r, c)
  PROVE  TypeOK'
  <1>1. /\ chan' \in [Conns -> Seq(Requests)]
        /\ missed' \in [Conns -> SUBSET Requests]
    <2>1. chan[c] \in Seq(Requests) /\ Append(chan[c], r) \in Seq(Requests)
      BY DEF TypeOK
    <2>2. CASE Len(chan[c]) < Capacity
      BY <2>1, <2>2 DEF TypeOK, Offer
    <2>3. CASE ~(Len(chan[c]) < Capacity)
      <3>1. chan' = chan /\ missed' = [missed EXCEPT ![c] = @ \cup {r}]
        BY <2>3 DEF Offer
      <3>2. missed[c] \cup {r} \in SUBSET Requests
        BY DEF TypeOK
      <3> QED
        BY <3>1, <3>2 DEF TypeOK
    <2> QED
      BY <2>2, <2>3
  <1>2. ASSUME NEW d \in Conns
        PROVE  Len(chan'[d]) <= Capacity
    <2>1. CASE d # c
      BY <2>1 DEF TypeOK, Offer
    <2>2. CASE d = c /\ Len(chan[c]) < Capacity
      <3>1. chan[c] \in Seq(Requests) /\ chan'[c] = Append(chan[c], r)
        BY <2>2 DEF TypeOK, Offer
      <3>2. Len(chan'[c]) = Len(chan[c]) + 1
        BY <3>1
      <3> QED
        BY <2>2, <3>1, <3>2
    <2>3. CASE d = c /\ ~(Len(chan[c]) < Capacity)
      BY <2>3 DEF TypeOK, Offer
    <2> QED
      BY <2>1, <2>2, <2>3
  <1> QED
    BY <1>1, <1>2 DEF TypeOK, Offer

(* Types are preserved, whatever else is known of the state. *)
LEMMA TypeNext ==
  ASSUME Capacity \in Nat, TypeOK, [Next]_feedVars
  PROVE  TypeOK'
  <1>1. ASSUME NEW c \in Conns, Subscribe(c) \/ Unsubscribe(c)
        PROVE  TypeOK'
    BY <1>1 DEF TypeOK, Subscribe, Unsubscribe
  <1>2. ASSUME NEW c \in Conns, Receive(c)
        PROVE  TypeOK'
    BY <1>2 DEF TypeOK, Receive
  <1>3. ASSUME NEW r \in Requests, Begin(r)
        PROVE  TypeOK'
    BY <1>3 DEF TypeOK, Begin, Open, Returned
  <1>4. ASSUME NEW r \in Requests, End(r)
        PROVE  TypeOK'
    BY <1>4 DEF TypeOK, End
  <1>5. CASE UNCHANGED feedVars
    BY <1>5 DEF TypeOK, feedVars
  <1> QED
    BY <1>1, <1>2, <1>3, <1>4, <1>5, OfferType DEF Next

-----------------------------------------------------------------------------
LEMMA InitInv ==
  ASSUME Capacity \in Nat, Init
  PROVE  Inv
  <1>1. TypeOK
    BY DEF Init, TypeOK
  <1>2. Stages /\ NoSendOnClosed
    BY DEF Init, Stages, NoSendOnClosed, Returned
  <1>3. \A c \in Conns : Log(c) = <<>>
    BY DEF Init, Log
  <1>4. OfferAccounting
    BY <1>3 DEF Init, OfferAccounting, Visited, Accepted
  <1>5. DeliveryOrder
    BY <1>3 DEF DeliveryOrder
  <1> QED
    BY <1>1, <1>2, <1>4, <1>5 DEF Inv

(* A step that leaves the channels and what was taken out of them alone
   leaves every log alone. *)
LEMMA LogUnchanged ==
  ASSUME UNCHANGED <<received, chan>>
  PROVE  \A c \in Conns : Log(c)' = Log(c) /\ Accepted(c)' = Accepted(c)
  BY DEF Log, Accepted

(* An event that is in a log has visited that channel, and is not idle. *)
LEMMA LoggedIsVisited ==
  ASSUME Inv, NEW c \in Conns, NEW i \in 1..Len(Log(c))
  PROVE  Log(c)[i] \in Visited(c)
  BY DEF Inv, OfferAccounting, Accepted

LEMMA SubscribeInv ==
  ASSUME Inv, NEW c \in Conns, Subscribe(c)
  PROVE  Inv'
  <1> USE DEF Subscribe
  <1>1. TypeOK'
    BY DEF Inv, TypeOK
  <1>2. Stages'
    BY DEF Inv, Stages, Returned
  <1>3. NoSendOnClosed'
    BY DEF Inv, TypeOK, NoSendOnClosed, Open
  <1>4. OfferAccounting'
    BY LogUnchanged DEF Inv, OfferAccounting, Visited
  <1>5. DeliveryOrder'
    BY LogUnchanged DEF Inv, DeliveryOrder
  <1> QED
    BY <1>1, <1>2, <1>3, <1>4, <1>5 DEF Inv

LEMMA UnsubscribeInv ==
  ASSUME Inv, NEW c \in Conns, Unsubscribe(c)
  PROVE  Inv'
  <1> USE DEF Unsubscribe
  <1>1. TypeOK'
    BY DEF Inv, TypeOK
  <1>2. Stages'
    BY DEF Inv, Stages, Returned
  <1>3. NoSendOnClosed'
    BY DEF Inv, TypeOK, NoSendOnClosed, Open
  <1>4. OfferAccounting'
    BY LogUnchanged DEF Inv, OfferAccounting, Visited
  <1>5. DeliveryOrder'
    BY LogUnchanged DEF Inv, DeliveryOrder
  <1> QED
    BY <1>1, <1>2, <1>3, <1>4, <1>5 DEF Inv

(* r enters no log when its Publish begins: an idle request has no audience. *)
LEMMA BeginInv ==
  ASSUME Inv, NEW r \in Requests, Begin(r)
  PROVE  Inv'
  <1> USE DEF Begin
  <1>1. TypeOK'
    BY DEF Inv, TypeOK, Open, Returned
  <1>2. Stages'
    BY DEF Inv, TypeOK, Stages, Returned
  <1>3. NoSendOnClosed'
    BY DEF Inv, TypeOK, NoSendOnClosed, Open
  <1>4. \A c \in Conns : r \notin Visited(c) /\ Visited(c)' = Visited(c)
    BY DEF Inv, TypeOK, Stages, Visited
  <1>5. OfferAccounting'
    BY <1>4, LogUnchanged DEF Inv, TypeOK, OfferAccounting
  <1>6. DeliveryOrder'
    <2> SUFFICES ASSUME NEW c \in Conns, NEW i \in 1..Len(Log(c)),
                        NEW j \in 1..Len(Log(c)), i < j
                 PROVE  /\ Log(c)[i] # Log(c)[j]
                        /\ Log(c)[j] \notin prior'[Log(c)[i]]
      BY LogUnchanged DEF DeliveryOrder
    <2>1. Log(c)[i] # r
      BY LoggedIsVisited, <1>4
    <2>2. prior'[Log(c)[i]] = prior[Log(c)[i]]
      BY <2>1 DEF Inv, TypeOK
    <2> QED
      BY <2>2 DEF Inv, DeliveryOrder
  <1> QED
    BY <1>1, <1>2, <1>3, <1>5, <1>6 DEF Inv

LEMMA EndInv ==
  ASSUME Inv, NEW r \in Requests, End(r)
  PROVE  Inv'
  <1> USE DEF End
  <1>1. TypeOK'
    BY DEF Inv, TypeOK
  <1>2. Stages'
    BY DEF Inv, TypeOK, Stages, Returned
  <1>3. NoSendOnClosed'
    BY DEF Inv, NoSendOnClosed, Open
  <1>4. OfferAccounting'
    BY LogUnchanged DEF Inv, TypeOK, OfferAccounting, Visited
  <1>5. DeliveryOrder'
    BY LogUnchanged DEF Inv, DeliveryOrder
  <1> QED
    BY <1>1, <1>2, <1>3, <1>4, <1>5 DEF Inv

LEMMA ReceiveInv ==
  ASSUME Capacity \in Nat, Inv, NEW c \in Conns, Receive(c)
  PROVE  Inv'
  <1> USE DEF Receive
  <1>1. TypeOK'
    BY DEF Inv, TypeOK
  <1>2. Stages'
    BY DEF Inv, Stages, Returned
  <1>3. NoSendOnClosed'
    BY DEF Inv, NoSendOnClosed, Open
  <1>4. ASSUME NEW d \in Conns
        PROVE  Log(d)' = Log(d)
    <2>1. received[d] \in Seq(Requests) /\ chan[d] \in Seq(Requests)
      BY DEF Inv, TypeOK
    <2>2. CASE d # c
      BY <2>2 DEF Inv, TypeOK, Log
    <2>3. CASE d = c
      <3>1. Log(c)' = Append(received[c], Head(chan[c])) \o Tail(chan[c])
        BY DEF Inv, TypeOK, Log
      <3> QED
        BY <2>1, <2>3, <3>1, LogReceive DEF Log
    <2> QED
      BY <2>2, <2>3
  <1>5. \A d \in Conns : Accepted(d)' = Accepted(d)
    BY <1>4 DEF Accepted
  <1>6. OfferAccounting'
    BY <1>5 DEF Inv, OfferAccounting, Visited
  <1>7. DeliveryOrder'
    BY <1>4 DEF Inv, DeliveryOrder
  <1> QED
    BY <1>1, <1>2, <1>3, <1>6, <1>7 DEF Inv

(* The step that matters: r is appended to c's log, where it is not yet, and
   is in nobody's prior because its Publish has not returned. *)
LEMMA OfferInv ==
  ASSUME Capacity \in Nat, Inv, NEW r \in Requests, NEW c \in Conns, Offer(r, c)
  PROVE  Inv'
  <1>1. /\ c \in offers[r]
        /\ offers' = [offers EXCEPT ![r] = @ \ {c}]
        /\ UNCHANGED <<sub, phase, received, audience, prior>>
    BY DEF Offer
  <1>2. /\ phase[r] = "sending"
        /\ r \notin Visited(c)
        /\ \A q \in Requests : r \notin prior[q]
    BY <1>1 DEF Inv, TypeOK, Stages, Visited, Returned
  <1>3. TypeOK'
    BY OfferType DEF Inv
  <1>4. Stages'
    BY <1>1 DEF Inv, TypeOK, Stages, Returned
  <1>5. NoSendOnClosed'
    BY <1>1 DEF Inv, TypeOK, NoSendOnClosed, Open
  <1>6. /\ Visited(c)' = Visited(c) \cup {r}
        /\ \A d \in Conns \ {c} : Visited(d)' = Visited(d)
    BY <1>1 DEF Inv, TypeOK, Stages, Visited
  <1>7. CASE Len(chan[c]) < Capacity
    <2>1. /\ chan' = [chan EXCEPT ![c] = Append(@, r)]
          /\ missed' = missed
      BY <1>7 DEF Offer
    <2>2. /\ Log(c) \in Seq(Requests)
          /\ Log(c)' = Append(Log(c), r)
          /\ \A d \in Conns \ {c} : Log(d)' = Log(d)
      <3>1. received[c] \in Seq(Requests) /\ chan[c] \in Seq(Requests)
        BY DEF Inv, TypeOK
      <3>2. Log(c)' = received[c] \o Append(chan[c], r)
        BY <1>1, <2>1 DEF Inv, TypeOK, Log
      <3>3. \A d \in Conns \ {c} : Log(d)' = Log(d)
        BY <1>1, <2>1 DEF Inv, TypeOK, Log
      <3>4. Log(c) \in Seq(Requests)
        BY <3>1 DEF Log
      <3> QED
        <4>1. received[c] \o Append(chan[c], r) = Append(received[c] \o chan[c], r)
          <5> DEFINE a == received[c]
                     b == chan[c]
          <5>1. a \in Seq(Requests) /\ b \in Seq(Requests)
            BY <3>1
          <5> HIDE DEF a, b
          <5>2. a \o Append(b, r) = Append(a \o b, r)
            BY <5>1, LogAppend
          <5> QED
            BY <5>2 DEF a, b
        <4>2. Log(c) = received[c] \o chan[c]
          BY DEF Log
        <4> QED
          BY <3>2, <3>3, <3>4, <4>1, <4>2
    <2>3. /\ Accepted(c)' = Accepted(c) \cup {r}
          /\ \A d \in Conns \ {c} : Accepted(d)' = Accepted(d)
      BY <2>2, AppendElements DEF Accepted
    <2>4. OfferAccounting'
      <3>1. r \notin missed[c]
        BY <1>2 DEF Inv, OfferAccounting
      <3>2. ASSUME NEW d \in Conns
            PROVE  /\ Visited(d)' = Accepted(d)' \cup missed'[d]
                   /\ Accepted(d)' \cap missed'[d] = {}
        BY <1>6, <2>1, <2>3, <3>1 DEF Inv, OfferAccounting
      <3>3. \A q \in Requests : phase'[q] = "done" => offers'[q] = {}
        BY <1>1, <1>2 DEF Inv, TypeOK, OfferAccounting
      <3> QED
        BY <3>2, <3>3 DEF OfferAccounting
    <2>5. DeliveryOrder'
      <3> SUFFICES ASSUME NEW d \in Conns, NEW i \in 1..Len(Log(d)'),
                          NEW j \in 1..Len(Log(d)'), i < j
                   PROVE  /\ Log(d)'[i] # Log(d)'[j]
                          /\ Log(d)'[j] \notin prior[Log(d)'[i]]
        BY <1>1 DEF DeliveryOrder
      <3>1. CASE d # c
        BY <2>2, <3>1 DEF Inv, DeliveryOrder
      <3>2. CASE d = c /\ j \in 1..Len(Log(c))
        BY <2>2, <3>2 DEF Inv, DeliveryOrder
      <3>3. CASE d = c /\ j = Len(Log(c)) + 1
        <4>1. i \in 1..Len(Log(c)) /\ Log(d)'[i] = Log(c)[i] /\ Log(d)'[j] = r
          BY <2>2, <3>3
        <4>2. Log(c)[i] \in Visited(c)
          BY <4>1, LoggedIsVisited
        <4> QED
          BY <1>2, <4>1, <4>2 DEF Visited
      <3> QED
        BY <2>2, <3>1, <3>2, <3>3
    <2> QED
      BY <1>3, <1>4, <1>5, <2>4, <2>5 DEF Inv
  <1>8. CASE ~(Len(chan[c]) < Capacity)
    <2>1. /\ missed' = [missed EXCEPT ![c] = @ \cup {r}]
          /\ chan' = chan
      BY <1>8 DEF Offer
    <2>2. \A d \in Conns : Log(d)' = Log(d) /\ Accepted(d)' = Accepted(d)
      BY <1>1, <2>1, LogUnchanged
    <2>3. OfferAccounting'
      BY <1>1, <1>2, <1>6, <2>1, <2>2 DEF Inv, TypeOK, OfferAccounting
    <2>4. DeliveryOrder'
      BY <1>1, <2>2 DEF Inv, DeliveryOrder
    <2> QED
      BY <1>3, <1>4, <1>5, <2>3, <2>4 DEF Inv
  <1> QED
    BY <1>7, <1>8

LEMMA StutterInv ==
  ASSUME Capacity \in Nat, Inv, UNCHANGED feedVars
  PROVE  Inv'
  <1> USE DEF feedVars
  <1>1. TypeOK'
    BY DEF Inv, TypeOK
  <1>2. Stages'
    BY DEF Inv, Stages, Returned
  <1>3. NoSendOnClosed'
    BY DEF Inv, NoSendOnClosed, Open
  <1>4. OfferAccounting'
    BY LogUnchanged DEF Inv, OfferAccounting, Visited
  <1>5. DeliveryOrder'
    BY LogUnchanged DEF Inv, DeliveryOrder
  <1> QED
    BY <1>1, <1>2, <1>3, <1>4, <1>5 DEF Inv

(* Inv is inductive: every step of the feed preserves it. *)
LEMMA NextInv ==
  ASSUME Capacity \in Nat, Inv, [Next]_feedVars
  PROVE  Inv'
  <1>1. ASSUME NEW c \in Conns, Subscribe(c) \/ Unsubscribe(c) \/ Receive(c)
        PROVE  Inv'
    BY <1>1, SubscribeInv, UnsubscribeInv, ReceiveInv
  <1>2. ASSUME NEW r \in Requests, Begin(r) \/ End(r)
        PROVE  Inv'
    BY <1>2, BeginInv, EndInv
  <1>3. ASSUME NEW r \in Requests, NEW c \in Conns, Offer(r, c)
        PROVE  Inv'
    BY <1>3, OfferInv
  <1>4. CASE UNCHANGED feedVars
    BY <1>4, StutterInv
  <1> QED
    BY <1>1, <1>2, <1>3, <1>4 DEF Next

-----------------------------------------------------------------------------
(* The inductive invariant of the feed: types, stages of a Publish, and the
   three properties below (broker.go's Subscribe, Unsubscribe, Publish). *)
THEOREM FeedInvariant ==
  ASSUME Capacity \in Nat
  PROVE  Spec => []Inv
  <1>1. Init => Inv
    BY InitInv
  <1>2. Inv /\ [Next]_feedVars => Inv'
    BY NextInv
  <1> QED
    BY <1>1, <1>2, PTL DEF Spec

(* No Publish ever has a closed channel left to send to. *)
THEOREM FeedNoSendOnClosed ==
  ASSUME Capacity \in Nat
  PROVE  Spec => []NoSendOnClosed
  <1>1. Inv => NoSendOnClosed
    BY DEF Inv
  <1> QED
    BY <1>1, FeedInvariant, PTL

(* Every offer of an event to a channel is delivered, buffered or counted as
   lost to a full buffer, and nothing else is in a channel. *)
THEOREM FeedOfferAccounting ==
  ASSUME Capacity \in Nat
  PROVE  Spec => []OfferAccounting
  <1>1. Inv => OfferAccounting
    BY DEF Inv
  <1> QED
    BY <1>1, FeedInvariant, PTL

(* No subscriber sees an event twice, or after one whose Publish began only
   when its own had returned. *)
THEOREM FeedDeliveryOrder ==
  ASSUME Capacity \in Nat
  PROVE  Spec => []DeliveryOrder
  <1>1. Inv => DeliveryOrder
    BY DEF Inv
  <1> QED
    BY <1>1, FeedInvariant, PTL
=============================================================================
