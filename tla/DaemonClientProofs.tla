-------------------------- MODULE DaemonClientProofs --------------------------
(***************************************************************************)
(* Proofs about the desktop's client, for any number of events, requests   *)
(* and attachments and a buffer of any size.                               *)
(***************************************************************************)
EXTENDS DaemonClient, TLAPS

\* The event being tracked or delivered is one.
ReadingSomething == thread \in {"track", "deliver"} => last # 0

\* What is in a channel is an event, or the end.
ItemsAreEvents ==
    \A g \in Attachments : \A k \in DOMAIN channel[g] :
        channel[g][k].end \/ channel[g][k].seq # 0

Types == TypeOK /\ ReadingSomething /\ ItemsAreEvents

-----------------------------------------------------------------------------
(* Types *)

LEMMA InitTypes == ASSUME ClientAssumption, Init PROVE Types
<1>1. /\ log = <<>> /\ Len(log) = 0 /\ last = 0 /\ buffer = <<>> /\ Len(buffer) = 0
      /\ \A S : <<>> \in Seq(S)
  BY DEF Init
<1>2. SocketTypes
  <2>1. Streaming /\ disconnected = FALSE /\ thread = "read"
    BY DEF Init, Streaming
  <2>2. Len(log) <= MaxEvents /\ last \in 0..Len(log)
    BY <1>1 DEF ClientAssumption
  <2>3. QED
    BY <1>1, <2>1, <2>2 DEF SocketTypes
<1>3. StreamTypes
  BY <1>1 DEF ClientAssumption, Init, StreamTypes
<1>4. RequestTypes
  BY DEF Init, RequestTypes
<1>5. TreeTypes
  BY <1>1 DEF ClientAssumption, Init, TreeTypes, Attachments
<1>6. ReadingSomething /\ ItemsAreEvents
  BY DEF Init, ReadingSomething, ItemsAreEvents
<1>7. QED
  BY <1>2, <1>3, <1>4, <1>5, <1>6 DEF Types, TypeOK

LEMMA SeqGrows == ASSUME NEW S, NEW T, S \subseteq T PROVE Seq(S) \subseteq Seq(T)
  OBVIOUS

LEMMA SeqElement == ASSUME NEW S, NEW s \in Seq(S), NEW i \in 1..Len(s) PROVE s[i] \in S
  OBVIOUS

\* The bounds that the types give.
LEMMA Bounds ==
    ASSUME ClientAssumption, SocketTypes, StreamTypes
    PROVE  /\ last \in Nat /\ Len(log) \in Nat /\ last <= Len(log)
           /\ MaxBuffered \in Nat \ {0} /\ MaxAttach \in Nat /\ MaxEvents \in Nat
           /\ sink \in 0..MaxAttach /\ (sink # 0 => sink \in Attachments)
           /\ buffer \in Seq(1..last) /\ Len(buffer) \in Nat
  BY DEF ClientAssumption, SocketTypes, StreamTypes, Attachments

LEMMA TrackedIsAnEvent ==
    ASSUME NEW n \in 1..last, NEW c \in 0..last, last \in Nat
    PROVE  Tracked(n, c) \in 0..last /\ Presented(n, c) \in 0..last
  BY DEF Tracked, Presented

\* What leaves the events and their positions alone leaves the types alone that
\* are about them.
LEMMA SameEvents ==
    ASSUME SocketTypes, UNCHANGED <<log, last, thread, disconnected>>
    PROVE  SocketTypes' /\ Items' = Items
  BY DEF SocketTypes, Streaming, Items

LEMMA SameRequests == ASSUME RequestTypes, UNCHANGED requestState PROVE RequestTypes'
  BY DEF RequestTypes, requestState

LEMMA SameStream ==
    ASSUME StreamTypes, UNCHANGED streamState, last' = last PROVE StreamTypes'
  BY DEF StreamTypes, streamState

LEMMA SameTree ==
    ASSUME TreeTypes, ItemsAreEvents, UNCHANGED treeState, last' = last
    PROVE  TreeTypes' /\ ItemsAreEvents'
<1>1. Items' = Items
  BY DEF Items
<1>2. QED
  BY <1>1 DEF TreeTypes, treeState, ItemsAreEvents

LEMMA ChannelGrows ==
    ASSUME TreeTypes, ItemsAreEvents, NEW g \in Attachments, NEW item \in Items,
           item.end \/ item.seq # 0, last' = last,
           channel' = [channel EXCEPT ![g] = Append(@, item)],
           UNCHANGED <<phase, cursor, offer, forwarder, seen, told, shown>>
    PROVE  TreeTypes' /\ ItemsAreEvents'
<1>1. Items' = Items /\ channel[g] \in Seq(Items)
  BY DEF Items, TreeTypes
<1>2. channel' \in [Attachments -> Seq(Items)]
  BY <1>1 DEF TreeTypes
<1>3. TreeTypes'
  BY <1>1, <1>2 DEF TreeTypes
<1>4. ItemsAreEvents'
  <2>1. ASSUME NEW k \in DOMAIN channel'[g]
        PROVE  channel'[g][k].end \/ channel'[g][k].seq # 0
    <3>1. channel'[g] = Append(channel[g], item)
      BY DEF TreeTypes
    <3>2. CASE k \in DOMAIN channel[g]
      BY <1>1, <3>1, <3>2 DEF ItemsAreEvents
    <3>3. CASE k \notin DOMAIN channel[g]
      BY <1>1, <2>1, <3>1, <3>3
    <3>4. QED
      BY <3>2, <3>3
  <2>2. \A h \in Attachments : h # g => channel'[h] = channel[h]
    BY DEF TreeTypes
  <2>3. QED
    BY <2>1, <2>2 DEF ItemsAreEvents
<1>5. QED
  BY <1>3, <1>4

\* The steps of the socket thread.

LEMMA ReadTypes == ASSUME ClientAssumption, Types, ReadEvent PROVE Types'
<1> USE DEF ReadEvent
<1>0. /\ SocketTypes /\ StreamTypes /\ RequestTypes /\ TreeTypes /\ ItemsAreEvents
      /\ last \in Nat /\ last' = last + 1 /\ last < Len(log) /\ Len(log) \in Nat
  BY Bounds DEF Types, TypeOK
<1>1. 0..last \subseteq 0..last' /\ 1..last \subseteq 1..last' /\ last' # 0
      /\ last' \in 0..Len(log)
  BY <1>0
<1>2. Items \subseteq Items'
  BY <1>1 DEF Items
<1>3. Seq(1..last) \subseteq Seq(1..last') /\ Seq(Items) \subseteq Seq(Items')
  BY <1>1, <1>2, SeqGrows
<1>4. SocketTypes'
  BY <1>0, <1>1 DEF SocketTypes, Streaming
<1>5. StreamTypes'
  BY <1>0, <1>1, <1>3 DEF StreamTypes, streamState
<1>6. TreeTypes'
  BY <1>0, <1>1, <1>3 DEF TreeTypes, treeState
<1>7. RequestTypes'
  BY <1>0, SameRequests
<1>8. ReadingSomething' /\ ItemsAreEvents'
  BY <1>0, <1>1 DEF ReadingSomething, ItemsAreEvents, treeState
<1>9. QED
  BY <1>4, <1>5, <1>6, <1>7, <1>8 DEF Types, TypeOK

LEMMA TrackTypes == ASSUME ClientAssumption, Types, TrackInteraction PROVE Types'
<1> USE DEF TrackInteraction
<1>0. /\ SocketTypes /\ StreamTypes /\ RequestTypes /\ TreeTypes /\ ItemsAreEvents
      /\ last # 0 /\ last \in Nat
  BY Bounds DEF Types, TypeOK, ReadingSomething
<1>1. SocketTypes'
  BY <1>0 DEF SocketTypes, Streaming
<1>2. StreamTypes'
  <2>1. interaction' \in 0..last
    BY <1>0, TrackedIsAnEvent DEF StreamTypes
  <2>2. QED
    BY <1>0, <2>1 DEF StreamTypes
<1>3. RequestTypes' /\ TreeTypes' /\ ItemsAreEvents'
  BY <1>0, SameRequests, SameTree
<1>4. QED
  BY <1>0, <1>1, <1>2, <1>3 DEF Types, TypeOK, ReadingSomething

LEMMA DeliverTypes == ASSUME ClientAssumption, Types, Deliver PROVE Types'
<1> USE DEF Deliver
<1>0. /\ SocketTypes /\ StreamTypes /\ RequestTypes /\ TreeTypes /\ ItemsAreEvents
      /\ last # 0 /\ last \in Nat /\ last' = last
  BY Bounds DEF Types, TypeOK, ReadingSomething
<1>1. SocketTypes' /\ ReadingSomething'
  BY <1>0 DEF SocketTypes, Streaming, ReadingSomething
<1>2. RequestTypes'
  BY <1>0, SameRequests
<1>3. CASE sink # 0
  <2>1. Item(last) \in Items /\ Item(last).seq = last
    BY <1>0 DEF Item, Items
  <2>2. TreeTypes' /\ ItemsAreEvents'
    BY <1>0, <1>3, <2>1, ChannelGrows, Bounds
  <2>3. StreamTypes'
    BY <1>0, <1>3, SameStream DEF streamState
  <2>4. QED
    BY <1>1, <1>2, <2>2, <2>3 DEF Types, TypeOK
<1>4. CASE sink = 0
  <2>1. /\ buffer' = Bounded(Append(buffer, last))
        /\ lost' = IF Len(buffer) = MaxBuffered THEN Head(buffer) ELSE lost
        /\ sink' = sink /\ interaction' = interaction
    BY <1>4
  <2>2. TreeTypes' /\ ItemsAreEvents'
    BY <1>0, <1>4, SameTree DEF treeState
  <2>3. /\ buffer \in Seq(1..last) /\ Len(buffer) <= MaxBuffered
        /\ Len(buffer) \in Nat /\ MaxBuffered \in Nat \ {0} /\ lost \in 0..last
    BY <1>0, Bounds DEF StreamTypes
  <2>4. /\ Append(buffer, last) \in Seq(1..last)
        /\ Len(Append(buffer, last)) = Len(buffer) + 1
    BY <1>0, <2>3
  <2>5. buffer' \in Seq(1..last) /\ Len(buffer') <= MaxBuffered /\ lost' \in 0..last
    <3>1. CASE Len(buffer) = MaxBuffered
      <4>1. Head(buffer) \in 1..last
        <5>1. Len(buffer) # 0 /\ 1 \in 1..Len(buffer)
          BY <2>3, <3>1
        <5>2. buffer # <<>> /\ Head(buffer) = buffer[1]
          BY <2>3, <5>1
        <5>3. buffer[1] \in 1..last
          <6>1. \A i \in 1..Len(buffer) : buffer[i] \in 1..last
            BY <2>3, SeqElement
          <6>2. QED
            BY <5>1, <6>1
        <5>4. QED
          BY <5>2, <5>3
      <4>2. Bounded(Append(buffer, last)) = Tail(Append(buffer, last))
        BY <2>3, <2>4, <3>1 DEF Bounded
      <4>3. QED
        BY <1>0, <2>1, <2>3, <2>4, <3>1, <4>1, <4>2
    <3>2. CASE Len(buffer) # MaxBuffered
      <4>1. Bounded(Append(buffer, last)) = Append(buffer, last)
        BY <2>3, <2>4, <3>2 DEF Bounded
      <4>2. QED
        BY <2>1, <2>3, <2>4, <3>2, <4>1
    <3>3. QED
      BY <3>1, <3>2
  <2>6. StreamTypes'
    BY <1>0, <2>1, <2>5 DEF StreamTypes
  <2>7. QED
    BY <1>1, <1>2, <2>2, <2>6 DEF Types, TypeOK
<1>5. QED
  BY <1>3, <1>4

LEMMA EndTypes ==
    ASSUME ClientAssumption, Types, Disconnect \/ FailRequests \/ EndSinks
    PROVE  Types'
<1>0. /\ SocketTypes /\ StreamTypes /\ RequestTypes /\ TreeTypes /\ ItemsAreEvents
      /\ ReadingSomething /\ last \in Nat
  BY Bounds DEF Types, TypeOK
<1>1. CASE Disconnect
  <2>1. SocketTypes'
    BY <1>0, <1>1 DEF Disconnect, SocketTypes, Streaming
  <2>2. StreamTypes' /\ RequestTypes' /\ TreeTypes' /\ ItemsAreEvents'
    BY <1>0, <1>1, SameStream, SameRequests, SameTree DEF Disconnect
  <2>3. QED
    BY <1>1, <2>1, <2>2 DEF Disconnect, Types, TypeOK, ReadingSomething
<1>2. CASE FailRequests
  <2>1. SocketTypes'
    BY <1>0, <1>2 DEF FailRequests, SocketTypes, Streaming
  <2>2. StreamTypes' /\ TreeTypes' /\ ItemsAreEvents'
    BY <1>0, <1>2, SameStream, SameTree DEF FailRequests
  <2>3. RequestTypes'
    BY <1>0, <1>2 DEF FailRequests, RequestTypes
  <2>4. QED
    BY <1>2, <2>1, <2>2, <2>3 DEF FailRequests, Types, TypeOK, ReadingSomething
<1>3. CASE EndSinks
  <2>1. SocketTypes' /\ ReadingSomething'
    BY <1>0, <1>3 DEF EndSinks, SocketTypes, Streaming, ReadingSomething
  <2>2. RequestTypes' /\ last' = last
    BY <1>0, <1>3, SameRequests DEF EndSinks
  <2>3. StreamTypes'
    BY <1>0, <1>3, Bounds DEF EndSinks, StreamTypes
  <2>4. TreeTypes' /\ ItemsAreEvents'
    <3>1. CASE sink = 0
      BY <1>0, <1>3, <3>1, SameTree DEF EndSinks, treeState
    <3>2. CASE sink # 0
      <4>1. [seq |-> last, end |-> TRUE] \in Items
        BY <1>0 DEF Items
      <4>2. sink \in Attachments
            /\ channel' = [channel EXCEPT ![sink] = Append(@, [seq |-> last, end |-> TRUE])]
        BY <1>0, <1>3, <3>2, Bounds DEF EndSinks
      <4>3. QED
        BY <1>0, <1>3, <4>1, <4>2, ChannelGrows DEF EndSinks
    <3>3. QED
      BY <3>1, <3>2
  <2>5. QED
    BY <2>1, <2>2, <2>3, <2>4 DEF Types, TypeOK
<1>4. QED
  BY <1>1, <1>2, <1>3

\* The daemon's and the requesters' steps.

LEMMA ReduceTypes == ASSUME ClientAssumption, Types, NEW e \in Events, Reduce(e) PROVE Types'
<1>0. /\ SocketTypes /\ StreamTypes /\ RequestTypes /\ TreeTypes /\ ItemsAreEvents
      /\ ReadingSomething /\ last \in Nat /\ Len(log) \in Nat /\ last <= Len(log)
  BY Bounds DEF Types, TypeOK
<1>1. /\ log' = Append(log, e) /\ Len(log) < MaxEvents /\ UNCHANGED <<last, thread, disconnected>>
  BY DEF Reduce, socketState
<1>2. log' \in Seq(Events) /\ Len(log') = Len(log) + 1
  <2>1. log \in Seq(Events)
    BY <1>0 DEF SocketTypes
  <2>2. QED
    BY <1>1, <2>1
<1>3. SocketTypes'
  BY <1>0, <1>1, <1>2 DEF SocketTypes, Streaming, ClientAssumption
<1>4. StreamTypes' /\ RequestTypes' /\ TreeTypes' /\ ItemsAreEvents'
  BY <1>0, <1>1, SameStream, SameRequests, SameTree DEF Reduce
<1>5. QED
  BY <1>0, <1>1, <1>3, <1>4 DEF Types, TypeOK, ReadingSomething

LEMMA RequestStepTypes ==
    ASSUME ClientAssumption, Types, NEW q \in Requests, Caller(q) \/ Timeout(q) \/ Respond(q)
    PROVE  Types'
<1>0. /\ SocketTypes /\ StreamTypes /\ RequestTypes /\ TreeTypes /\ ItemsAreEvents
      /\ ReadingSomething
  BY DEF Types, TypeOK
<1>1. UNCHANGED <<log, socketState, streamState, treeState>>
  BY DEF Caller, CheckConnected, Register, Send, SendFails, Return, Timeout, Respond
<1>2. RequestTypes'
  BY <1>0 DEF Caller, CheckConnected, Register, Send, SendFails, Return, Timeout, Respond, Goto,
              RequestTypes
<1>3. SocketTypes' /\ StreamTypes' /\ TreeTypes' /\ ItemsAreEvents'
  BY <1>0, <1>1, SameEvents, SameStream, SameTree DEF socketState
<1>4. QED
  BY <1>0, <1>1, <1>2, <1>3 DEF Types, TypeOK, ReadingSomething, socketState

-----------------------------------------------------------------------------
\* The attachments' steps.

LEMMA DesktopTypes ==
    ASSUME ClientAssumption, Types, NEW g \in Attachments, Desktop(g)
    PROVE  Types'
<1>0. /\ SocketTypes /\ StreamTypes /\ RequestTypes /\ TreeTypes /\ ItemsAreEvents
      /\ ReadingSomething /\ last \in Nat /\ MaxAttach \in Nat
  BY Bounds DEF Types, TypeOK
<1>1. UNCHANGED <<log, socketState, requestState>>
  BY DEF Desktop, Hydrate, Answered, SubscribeRuntime, Release, AnswerUser, CancelTurn
<1>2. SocketTypes' /\ RequestTypes' /\ ReadingSomething' /\ Items' = Items /\ last' = last
  BY <1>0, <1>1, SameEvents, SameRequests DEF socketState, ReadingSomething
<1>3. ASSUME NEW seq \in 0..MaxEvents, Hydrate(g, seq)
      PROVE  StreamTypes' /\ TreeTypes' /\ ItemsAreEvents'
  <2>1. StreamTypes'
    BY <1>0, <1>2, <1>3, SameStream DEF Hydrate
  <2>2. TreeTypes' /\ ItemsAreEvents'
    BY <1>0, <1>2, <1>3 DEF Hydrate, TreeTypes, ItemsAreEvents
  <2>3. QED
    BY <2>1, <2>2
<1>4. ASSUME Answered(g) PROVE StreamTypes' /\ TreeTypes' /\ ItemsAreEvents'
  <2>1. StreamTypes'
    BY <1>0, <1>2, <1>4, SameStream DEF Answered
  <2>2. TreeTypes' /\ ItemsAreEvents'
    BY <1>0, <1>2, <1>4 DEF Answered, TreeTypes, ItemsAreEvents
  <2>3. QED
    BY <2>1, <2>2
<1>5. ASSUME SubscribeRuntime(g) PROVE StreamTypes' /\ TreeTypes' /\ ItemsAreEvents'
  <2>1. StreamTypes'
    BY <1>0, <1>2, <1>5 DEF SubscribeRuntime, StreamTypes, Attachments
  <2>2. DEFINE items == [i \in DOMAIN buffer |-> Item(buffer[i])]
  <2>3. /\ items \in Seq(Items) /\ \A i \in DOMAIN items : items[i].seq # 0
        /\ DOMAIN items = DOMAIN buffer
    <3>1. buffer \in Seq(1..last) /\ DOMAIN buffer = 1..Len(buffer) /\ Len(buffer) \in Nat
      BY <1>0, Bounds
    <3>2. \A i \in 1..Len(buffer) : Item(buffer[i]) \in Items /\ Item(buffer[i]).seq # 0
      BY <1>0, <3>1 DEF Item, Items
    <3>3. QED
      BY <3>1, <3>2
  <2> HIDE DEF items
  <2>4. /\ channel' = [channel EXCEPT ![g] = items]
        /\ offer' = [offer EXCEPT ![g] = interaction]
        /\ phase' = [phase EXCEPT ![g] = "live"]
        /\ forwarder' = [forwarder EXCEPT ![g] = "offer"]
        /\ UNCHANGED <<cursor, seen, told, shown>>
    BY <1>5 DEF SubscribeRuntime, items
  <2>5. interaction \in 0..last
    BY <1>0 DEF StreamTypes
  <2>6. TreeTypes'
    BY <1>0, <1>2, <2>3, <2>4, <2>5 DEF TreeTypes
  <2>7. ItemsAreEvents'
    BY <1>0, <2>3, <2>4 DEF TreeTypes, ItemsAreEvents
  <2>8. QED
    BY <2>1, <2>6, <2>7
<1>6. ASSUME Release(g) PROVE StreamTypes' /\ TreeTypes' /\ ItemsAreEvents'
  <2>1. StreamTypes'
    BY <1>0, <1>2, <1>6 DEF Release, Unsubscribed, StreamTypes
  <2>2. TreeTypes' /\ ItemsAreEvents'
    BY <1>0, <1>2, <1>6 DEF Release, TreeTypes, ItemsAreEvents
  <2>3. QED
    BY <2>1, <2>2
<1>7. ASSUME AnswerUser(g) PROVE StreamTypes' /\ TreeTypes' /\ ItemsAreEvents'
  <2>1. StreamTypes'
    BY <1>0, <1>2, <1>7 DEF AnswerUser, StreamTypes
  <2>2. TreeTypes' /\ ItemsAreEvents'
    BY <1>0, <1>2, <1>7 DEF AnswerUser, TreeTypes, ItemsAreEvents
  <2>3. QED
    BY <2>1, <2>2
<1>8. ASSUME CancelTurn(g) PROVE StreamTypes' /\ TreeTypes' /\ ItemsAreEvents'
  <2>1. StreamTypes'
    BY <1>0, <1>2, <1>8 DEF CancelTurn, StreamTypes
  <2>2. TreeTypes' /\ ItemsAreEvents'
    BY <1>0, <1>2, <1>8 DEF CancelTurn, TreeTypes, ItemsAreEvents
  <2>3. QED
    BY <2>1, <2>2
<1>9. StreamTypes' /\ TreeTypes' /\ ItemsAreEvents'
  BY <1>3, <1>4, <1>5, <1>6, <1>7, <1>8 DEF Desktop
<1>10. QED
  BY <1>2, <1>9 DEF Types, TypeOK

\* What handing over an event does to the types.
LEMMA HandTypes ==
    ASSUME TreeTypes, last \in Nat, NEW g \in Attachments, NEW n \in 1..last, Hand(g, n)
    PROVE  /\ seen' \in [Attachments -> Seq(1..last)]
           /\ told' \in [Attachments -> BOOLEAN]
           /\ shown' \in [Attachments -> 0..last]
<1>1. Append(seen[g], n) \in Seq(1..last)
  BY DEF TreeTypes
<1>2. shown[g] \in 0..last /\ Presented(n, shown[g]) \in 0..last
  BY TrackedIsAnEvent DEF TreeTypes
<1>3. QED
  BY <1>1, <1>2 DEF Hand, TreeTypes

LEMMA ForwardingTypes ==
    ASSUME ClientAssumption, Types, NEW g \in Attachments, Forwarding(g)
    PROVE  Types'
<1>0. /\ SocketTypes /\ StreamTypes /\ RequestTypes /\ TreeTypes /\ ItemsAreEvents
      /\ ReadingSomething /\ last \in Nat /\ MaxAttach \in Nat
  BY Bounds DEF Types, TypeOK
<1>1. UNCHANGED <<log, socketState, requestState>>
  BY DEF Forwarding, Offer, Forward, ChannelEnds, Leave, Finish
<1>2. SocketTypes' /\ RequestTypes' /\ ReadingSomething' /\ Items' = Items /\ last' = last
  BY <1>0, <1>1, SameEvents, SameRequests DEF socketState, ReadingSomething
<1>3. CASE Offer(g)
  <2>1. StreamTypes'
    BY <1>0, <1>2, <1>3, SameStream DEF Offer
  <2>2. /\ seen' \in [Attachments -> Seq(1..last)] /\ told' \in [Attachments -> BOOLEAN]
        /\ shown' \in [Attachments -> 0..last]
    <3>1. CASE offer[g] # 0 /\ phase[g] = "live"
      <4>1. offer[g] \in 1..last
        BY <1>0, <3>1 DEF TreeTypes
      <4>2. QED
        BY <1>0, <1>3, <3>1, <4>1, HandTypes DEF Offer
    <3>2. CASE ~(offer[g] # 0 /\ phase[g] = "live")
      BY <1>0, <1>3, <3>2 DEF Offer, TreeTypes
    <3>3. QED
      BY <3>1, <3>2
  <2>3. TreeTypes' /\ ItemsAreEvents'
    BY <1>0, <1>2, <1>3, <2>2 DEF Offer, TreeTypes, ItemsAreEvents
  <2>4. QED
    BY <1>2, <2>1, <2>3 DEF Types, TypeOK
<1>4. CASE Forward(g)
  <2>1. StreamTypes'
    BY <1>0, <1>2, <1>4, SameStream DEF Forward
  <2>2. /\ channel[g] \in Seq(Items) /\ channel[g] # <<>>
        /\ Head(channel[g]) \in Items /\ Tail(channel[g]) \in Seq(Items)
        /\ Head(channel[g]).end \/ Head(channel[g]).seq \in 1..last
        /\ Len(channel[g]) \in Nat /\ Len(Tail(channel[g])) = Len(channel[g]) - 1
        /\ \A k \in 1..(Len(channel[g]) - 1) : Tail(channel[g])[k] = channel[g][k + 1]
    <3>1. channel[g] \in Seq(Items) /\ channel[g] # <<>>
      BY <1>0, <1>4 DEF Forward, TreeTypes
    <3>2. 1 \in DOMAIN channel[g] /\ Head(channel[g]) = channel[g][1]
      BY <3>1
    <3>3. channel[g][1] \in Items /\ (channel[g][1].end \/ channel[g][1].seq # 0)
      BY <1>0, <3>1, <3>2 DEF ItemsAreEvents
    <3>4. channel[g][1].end \/ channel[g][1].seq \in 1..last
      BY <1>0, <3>3 DEF Items
    <3>5. QED
      BY <3>1, <3>2, <3>3, <3>4
  <2>3. channel' = [channel EXCEPT ![g] = Tail(@)] /\ channel' \in [Attachments -> Seq(Items)]
    BY <1>0, <1>4, <2>2 DEF Forward, TreeTypes
  <2>4. ItemsAreEvents'
    <3>1. ASSUME NEW k \in DOMAIN channel'[g]
          PROVE  channel'[g][k].end \/ channel'[g][k].seq # 0
      <4>1. k \in 1..(Len(channel[g]) - 1) /\ channel'[g][k] = channel[g][k + 1]
        BY <1>0, <2>2, <2>3 DEF TreeTypes
      <4>2. k + 1 \in DOMAIN channel[g]
        BY <2>2, <4>1
      <4>3. QED
        BY <1>0, <4>1, <4>2 DEF ItemsAreEvents
    <3>2. \A h \in Attachments : h # g => channel'[h] = channel[h]
      BY <1>0, <2>3 DEF TreeTypes
    <3>3. QED
      BY <1>0, <3>1, <3>2 DEF ItemsAreEvents
  <2>5. /\ seen' \in [Attachments -> Seq(1..last)] /\ told' \in [Attachments -> BOOLEAN]
        /\ shown' \in [Attachments -> 0..last]
        /\ forwarder' \in [Attachments -> {"none", "offer", "loop", "leave", "left", "done"}]
    <3>1. CASE UNCHANGED <<seen, told, shown>>
      BY <1>0, <1>4, <3>1 DEF Forward, TreeTypes
    <3>2. CASE UNCHANGED <<forwarder, seen>> /\ told' = [told EXCEPT ![g] = TRUE]
               /\ shown' = [shown EXCEPT ![g] = 0]
      BY <1>0, <3>2 DEF TreeTypes
    <3>3. CASE Hand(g, Head(channel[g]).seq) /\ ~Head(channel[g]).end /\ UNCHANGED forwarder
      BY <1>0, <2>2, <3>3, HandTypes DEF TreeTypes
    <3>4. QED
      BY <1>4, <3>1, <3>2, <3>3 DEF Forward
  <2>6. TreeTypes'
    BY <1>0, <1>2, <1>4, <2>3, <2>5 DEF Forward, TreeTypes
  <2>7. QED
    BY <1>2, <2>1, <2>4, <2>6 DEF Types, TypeOK
<1>5. CASE ChannelEnds(g)
  <2>1. StreamTypes'
    BY <1>0, <1>2, <1>5, SameStream DEF ChannelEnds
  <2>2. TreeTypes' /\ ItemsAreEvents'
    BY <1>0, <1>2, <1>5 DEF ChannelEnds, TreeTypes, ItemsAreEvents
  <2>3. QED
    BY <1>2, <2>1, <2>2 DEF Types, TypeOK
<1>6. CASE Leave(g)
  <2>1. StreamTypes'
    BY <1>0, <1>2, <1>6 DEF Leave, Unsubscribed, StreamTypes
  <2>2. TreeTypes' /\ ItemsAreEvents'
    BY <1>0, <1>2, <1>6 DEF Leave, TreeTypes, ItemsAreEvents
  <2>3. QED
    BY <1>2, <2>1, <2>2 DEF Types, TypeOK
<1>7. CASE Finish(g)
  <2>1. StreamTypes'
    BY <1>0, <1>2, <1>7, SameStream DEF Finish
  <2>2. told' \in [Attachments -> BOOLEAN] /\ shown' \in [Attachments -> 0..last]
    <3>1. CASE phase[g] = "live" /\ ~told[g]
      <4>1. told \in [Attachments -> BOOLEAN] /\ shown \in [Attachments -> 0..last]
        BY <1>0 DEF TreeTypes
      <4>2. told' = [told EXCEPT ![g] = TRUE] /\ shown' = [shown EXCEPT ![g] = 0]
        BY <1>7, <3>1 DEF Finish
      <4>3. QED
        BY <1>0, <4>1, <4>2
    <3>2. CASE ~(phase[g] = "live" /\ ~told[g])
      <4>1. told \in [Attachments -> BOOLEAN] /\ shown \in [Attachments -> 0..last]
        BY <1>0 DEF TreeTypes
      <4>2. UNCHANGED <<told, shown>>
        BY <1>7, <3>2 DEF Finish
      <4>3. QED
        BY <4>1, <4>2
    <3>3. QED
      BY <3>1, <3>2
  <2>3. TreeTypes' /\ ItemsAreEvents'
    BY <1>0, <1>2, <1>7, <2>2 DEF Finish, TreeTypes, ItemsAreEvents
  <2>4. QED
    BY <1>2, <2>1, <2>3 DEF Types, TypeOK
<1>8. QED
  BY <1>3, <1>4, <1>5, <1>6, <1>7 DEF Forwarding

LEMMA NextTypes == ASSUME ClientAssumption, Types, [Next]_vars PROVE Types'
<1>1. ASSUME NEW kind \in Kinds, Reduce(Event(kind, 0)) PROVE Types'
  <2>1. Event(kind, 0) \in Events
    BY DEF ClientAssumption, Event, Events
  <2>2. QED
    BY <1>1, <2>1, ReduceTypes
<1>2. ASSUME NEW n \in 1..MaxEvents, Reduce(Event("resolved", n)) PROVE Types'
  <2>1. Event("resolved", n) \in Events
    BY DEF ClientAssumption, Event, Events
  <2>2. QED
    BY <1>2, <2>1, ReduceTypes
<1>3. CASE Socket \/ Disconnect
  BY <1>3, ReadTypes, TrackTypes, DeliverTypes, EndTypes DEF Socket
<1>4. CASE UNCHANGED vars
  <2>1. SocketTypes' /\ StreamTypes' /\ RequestTypes' /\ TreeTypes' /\ ItemsAreEvents'
    BY <1>4, SameEvents, SameStream, SameRequests, SameTree DEF Types, TypeOK, vars, socketState
  <2>2. QED
    BY <1>4, <2>1 DEF Types, TypeOK, ReadingSomething, vars, socketState
<1>5. QED
  BY <1>1, <1>2, <1>3, <1>4, RequestStepTypes, DesktopTypes, ForwardingTypes DEF Next

-----------------------------------------------------------------------------
(* Requests *)

\* A caller that has not registered yet holds no answer either.
RequestsInv ==
    /\ PendingIsWaitedFor
    /\ \A q \in Requests : caller[q] \in {"idle", "checked"} => answer[q] = "none"

LEMMA NextRequests ==
    ASSUME RequestTypes, RequestsInv, [Next]_vars PROVE RequestsInv'
<1> USE DEF RequestsInv, PendingIsWaitedFor, RequestTypes
<1>1. CASE UNCHANGED <<pending, caller, answer>>
  BY <1>1
<1>2. CASE FailRequests
  BY <1>2 DEF FailRequests
<1>3. ASSUME NEW q \in Requests, CheckConnected(q) PROVE RequestsInv'
  BY <1>3 DEF CheckConnected, Goto
<1>4. ASSUME NEW q \in Requests, Register(q) PROVE RequestsInv'
  BY <1>4 DEF Register, Goto
<1>5. ASSUME NEW q \in Requests, Send(q) PROVE RequestsInv'
  BY <1>5 DEF Send, Goto
<1>6. ASSUME NEW q \in Requests, SendFails(q) PROVE RequestsInv'
  BY <1>6 DEF SendFails, Goto
<1>7. ASSUME NEW q \in Requests, Return(q) PROVE RequestsInv'
  BY <1>7 DEF Return, Goto
<1>8. ASSUME NEW q \in Requests, Timeout(q) PROVE RequestsInv'
  BY <1>8 DEF Timeout, Goto
<1>9. ASSUME NEW q \in Requests, Respond(q) PROVE RequestsInv'
  BY <1>9 DEF Respond
<1>10. CASE UNCHANGED requestState
  BY <1>1, <1>10 DEF requestState
<1>11. ASSUME NEW g \in Attachments, Desktop(g) \/ Forwarding(g) PROVE UNCHANGED requestState
  BY <1>11 DEF Desktop, Hydrate, Answered, SubscribeRuntime, Release, AnswerUser, CancelTurn,
               Forwarding, Offer, Forward, ChannelEnds, Leave, Finish
<1>12. ASSUME NEW e, Reduce(e) PROVE UNCHANGED requestState
  BY <1>12 DEF Reduce
<1>13. ASSUME Socket \/ Disconnect PROVE UNCHANGED requestState \/ FailRequests
  BY <1>13 DEF Socket, Disconnect, ReadEvent, TrackInteraction, Deliver, EndSinks
<1>14. ASSUME UNCHANGED vars PROVE UNCHANGED requestState
  BY <1>14 DEF vars
<1>15. ASSUME Next PROVE RequestsInv'
  BY <1>2, <1>3, <1>4, <1>5, <1>6, <1>7, <1>8, <1>9, <1>10, <1>11, <1>12, <1>13, <1>15
     DEF Next, Caller
<1>16. QED
  BY <1>10, <1>14, <1>15

\* The maps of the client keep their types, and every entry of the pending map
\* has a caller that removes it or is answered (request, FailRequests and the
\* timeouts of client.rs), for any number of requests.
THEOREM NoRequestForgotten == ASSUME ClientAssumption PROVE Spec => []RequestsAreKept
<1>1. Init => Types /\ RequestsInv
  BY InitTypes DEF Init, RequestsInv, PendingIsWaitedFor
<1>2. Types /\ RequestsInv /\ [Next]_vars => (Types /\ RequestsInv)'
  BY NextTypes, NextRequests DEF Types, TypeOK
<1>3. Types /\ RequestsInv => RequestsAreKept
  BY DEF Types, RequestsInv, RequestsAreKept
<1>4. QED
  BY <1>1, <1>2, <1>3, PTL DEF Spec

-----------------------------------------------------------------------------
(* The owner of the stream *)

\* Attachments follow one another, and the stream goes to one in use.
OwnerInv ==
    /\ \A g, h \in Attachments : h < g /\ phase[g] # "none" => phase[h] = "released"
    /\ sink # 0 => phase[sink] = "live"
    /\ OwnerKeepsStream

\* A connection that has ended does not stream again.
LEMMA EndIsFinal == ASSUME [Next]_vars, Streaming' PROVE Streaming
<1>1. CASE UNCHANGED thread
  BY <1>1 DEF Streaming
<1>2. CASE Socket \/ Disconnect
  BY <1>2 DEF Socket, Disconnect, ReadEvent, TrackInteraction, Deliver, FailRequests, EndSinks,
              Streaming
<1>3. ASSUME ~(Socket \/ Disconnect) PROVE UNCHANGED thread
  BY <1>3 DEF Next, vars, socketState, Reduce, Caller, CheckConnected, Register, Send, SendFails,
              Return, Timeout, Respond, Desktop, Hydrate, Answered, SubscribeRuntime, Release,
              AnswerUser, CancelTurn, Forwarding, Offer, Forward, ChannelEnds, Leave, Finish
<1>4. QED
  BY <1>1, <1>2, <1>3

\* What keeps the owner, the phases and the live forwarders keeps the invariant.
LEMMA SameOwner ==
    ASSUME OwnerInv, Streaming' => Streaming, UNCHANGED <<sink, phase>>,
           \A g \in Attachments : forwarder'[g] \in {"offer", "loop"}
                                     => forwarder[g] \in {"offer", "loop"}
    PROVE  OwnerInv'
  BY DEF OwnerInv, OwnerKeepsStream, Attached

LEMMA NextOwner ==
    ASSUME ClientAssumption, Types, OwnerInv, [Next]_vars PROVE OwnerInv'
<1>0. /\ phase \in [Attachments -> {"none", "asked", "ready", "live", "released"}]
      /\ forwarder \in [Attachments -> {"none", "offer", "loop", "leave", "left", "done"}]
      /\ Attachments \subseteq Nat \ {0} /\ (sink # 0 => sink \in Attachments)
      /\ (Streaming' => Streaming)
  BY Bounds, EndIsFinal DEF Types, TypeOK, TreeTypes, Attachments, ClientAssumption
<1> HIDE DEF Attachments
<1>1. CASE UNCHANGED <<sink, phase, forwarder>>
  BY <1>0, <1>1, SameOwner
<1>2. CASE EndSinks
  BY <1>2 DEF EndSinks, OwnerInv, OwnerKeepsStream, Streaming, Attached
<1>3. ASSUME NEW g \in Attachments, NEW seq, Hydrate(g, seq) PROVE OwnerInv'
  BY <1>0, <1>3 DEF Hydrate, Usable, streamState, OwnerInv, OwnerKeepsStream, Attached
<1>4. ASSUME NEW g \in Attachments, Answered(g) PROVE OwnerInv'
  BY <1>0, <1>4 DEF Answered, streamState, OwnerInv, OwnerKeepsStream, Attached
<1>5. ASSUME NEW g \in Attachments, SubscribeRuntime(g) PROVE OwnerInv'
  <2>1. \A h \in Attachments : h # g => phase[h] # "live"
    BY <1>0, <1>5 DEF SubscribeRuntime, OwnerInv
  <2>2. phase' = [phase EXCEPT ![g] = "live"] /\ forwarder' = [forwarder EXCEPT ![g] = "offer"]
        /\ sink' = g /\ phase[g] = "ready"
    BY <1>5 DEF SubscribeRuntime
  <2>3. QED
    BY <1>0, <2>1, <2>2 DEF OwnerInv, OwnerKeepsStream, Attached
<1>6. ASSUME NEW g \in Attachments, Release(g) PROVE OwnerInv'
  BY <1>0, <1>6 DEF Release, Unsubscribed, OwnerInv, OwnerKeepsStream, Attached
<1>7. ASSUME NEW g \in Attachments, Offer(g) PROVE OwnerInv'
  BY <1>0, <1>7, SameOwner DEF Offer, streamState
<1>8. ASSUME NEW g \in Attachments, Forward(g) PROVE OwnerInv'
  BY <1>0, <1>8, SameOwner DEF Forward, streamState
<1>9. ASSUME NEW g \in Attachments, ChannelEnds(g) \/ Finish(g) PROVE OwnerInv'
  BY <1>0, <1>9, SameOwner DEF ChannelEnds, Finish, streamState
<1>10. ASSUME NEW g \in Attachments, Leave(g) PROVE OwnerInv'
  BY <1>0, <1>10 DEF Leave, Unsubscribed, OwnerInv, OwnerKeepsStream, Attached
<1>11. ASSUME NEW q \in Requests, Caller(q) \/ Timeout(q) \/ Respond(q) PROVE OwnerInv'
  <2>1. UNCHANGED <<sink, phase, forwarder>>
    BY <1>11 DEF Caller, CheckConnected, Register, Send, SendFails, Return, Timeout, Respond,
                 streamState, treeState
  <2>2. QED
    BY <1>1, <2>1
<1>12. ASSUME NEW e, Reduce(e) PROVE OwnerInv'
  BY <1>1, <1>12 DEF Reduce, streamState, treeState
<1>13. ASSUME Socket \/ Disconnect PROVE OwnerInv'
  BY <1>1, <1>2, <1>13 DEF Socket, Disconnect, ReadEvent, TrackInteraction, Deliver, FailRequests,
                           streamState, treeState
<1>14. ASSUME NEW g \in Attachments, AnswerUser(g) \/ CancelTurn(g) PROVE OwnerInv'
  BY <1>1, <1>14 DEF AnswerUser, CancelTurn
<1>15. ASSUME UNCHANGED vars PROVE OwnerInv'
  BY <1>1, <1>15 DEF vars, streamState, treeState
<1>16. QED
  BY <1>3, <1>4, <1>5, <1>6, <1>7, <1>8, <1>9, <1>10, <1>11, <1>12, <1>13, <1>14, <1>15
     DEF Next, Desktop, Forwarding

\* The stream of a runtime stays with the attachment that is in use, however
\* late the forwarding threads of earlier ones end (unsubscribe_runtime).
THEOREM OwnerIsKept == ASSUME ClientAssumption PROVE Spec => []OwnerKeepsStream
<1>1. Init => Types /\ OwnerInv
  BY InitTypes DEF Init, OwnerInv, OwnerKeepsStream, Attached
<1>2. Types /\ OwnerInv /\ [Next]_vars => (Types /\ OwnerInv)'
  BY NextTypes, NextOwner
<1>3. OwnerInv => OwnerKeepsStream
  BY DEF OwnerInv
<1>4. QED
  BY <1>1, <1>2, <1>3, PTL DEF Spec

-----------------------------------------------------------------------------
(* The stream of events *)

\* The buffer has the newest events that were handled, in order.
BufferInv ==
    /\ \A i, j \in DOMAIN buffer : i < j => buffer[i] < buffer[j]
    /\ \A i \in DOMAIN buffer : lost < buffer[i] /\ buffer[i] <= Handled
    /\ lost <= Handled

\* A channel is in order, and what was handled; its end comes with the thread's.
ChannelInv(g) ==
    /\ \A i, j \in DOMAIN channel[g] :
          i < j => channel[g][i].seq < channel[g][j].seq \/ channel[g][j].end
    /\ \A i \in DOMAIN channel[g] :
          IF channel[g][i].end THEN thread = "gone" ELSE channel[g][i].seq <= Handled

\* The interaction that the subscription returned comes first, out of turn.
Early(g, i) == i = 1 /\ seen[g][1] = offer[g]

\* What was handed over comes before what is in the channel.
SeenInv(g) ==
    /\ \A i \in DOMAIN seen[g] : Early(g, i) \/ seen[g][i] <= Handled
    /\ \A i \in DOMAIN seen[g], j \in DOMAIN channel[g] :
          Early(g, i) \/ seen[g][i] < channel[g][j].seq \/ channel[g][j].end
    /\ \A i \in DOMAIN seen[g] : seen[g][i] <= cursor[g] => Early(g, i)
    /\ \A i, j \in DOMAIN seen[g] :
          i < j => seen[g][i] < seen[g][j] \/ (Early(g, i) /\ seen[g][j] # offer[g])

\* An attachment begins with nothing.
FreshInv(g) ==
    /\ forwarder[g] \in {"none", "offer"} => seen[g] = <<>>
    /\ phase[g] \in {"none", "asked", "ready"} => forwarder[g] = "none"
    /\ phase[g] = "none" => cursor[g] = 0

\* The attachment whose events are being buffered: the first one may be of a
\* runtime it has started, and so have a claim before it asks.
Awaits(g) == phase[g] \in {"asked", "ready"} \/ (g = 1 /\ phase[g] = "none")

BufferHas(g) ==
    Awaits(g) => \A n \in (cursor[g] + 1)..Handled : n <= lost \/ n \in Elements(buffer)

StreamHas(g) ==
    Attached(g) => \A n \in (cursor[g] + 1)..Handled :
                      n <= lost \/ n \in Elements(seen[g]) \cup Arriving(g) \/ n = offer[g]

AttachmentInv(g) ==
    ChannelInv(g) /\ SeenInv(g) /\ FreshInv(g) /\ BufferHas(g) /\ StreamHas(g)

StreamInv == BufferInv /\ \A g \in Attachments : AttachmentInv(g)

LEMMA StreamInvSuffices == ASSUME StreamInv PROVE StreamIsWhole
<1>1. NothingMissing
  BY DEF StreamInv, AttachmentInv, StreamHas, NothingMissing
<1>2. InOrderOnce
  BY DEF StreamInv, AttachmentInv, SeenInv, Early, InOrderOnce
<1>3. QED
  BY <1>1, <1>2 DEF StreamIsWhole

\* What is known of the values.
LEMMA StreamFacts ==
    ASSUME ClientAssumption, Types
    PROVE  /\ last \in Nat /\ Handled \in Nat /\ Handled <= last /\ lost \in Nat
           /\ thread \in {"track", "deliver"} => Handled = last - 1
           /\ thread \notin {"track", "deliver"} => Handled = last
           /\ buffer \in Seq(Nat) /\ channel \in [Attachments -> Seq(Items)]
           /\ Items \subseteq [seq : Nat, end : BOOLEAN]
           /\ seen \in [Attachments -> Seq(Nat)]
           /\ cursor \in [Attachments -> Nat] /\ offer \in [Attachments -> Nat]
           /\ phase \in [Attachments -> {"none", "asked", "ready", "live", "released"}]
           /\ forwarder \in [Attachments -> {"none", "offer", "loop", "leave", "left", "done"}]
           /\ Attachments \subseteq Nat
<1>1. SocketTypes /\ StreamTypes /\ TreeTypes /\ ReadingSomething
  BY DEF Types, TypeOK
<1>2. last \in Nat /\ MaxAttach \in Nat /\ MaxEvents \in Nat
  BY <1>1, Bounds
<1>3. 0..last \subseteq Nat /\ 1..last \subseteq Nat /\ 0..MaxEvents \subseteq Nat
  BY <1>2
<1>4. Handled \in Nat /\ Handled <= last /\ (thread \in {"track", "deliver"} => Handled = last - 1)
      /\ (thread \notin {"track", "deliver"} => Handled = last)
  BY <1>1, <1>2 DEF ReadingSomething, Handled
<1>5. Seq(1..last) \subseteq Seq(Nat)
  BY <1>3, SeqGrows
<1>6. lost \in Nat /\ buffer \in Seq(Nat)
  BY <1>1, <1>3, <1>5 DEF StreamTypes
<1>7. Items \subseteq [seq : Nat, end : BOOLEAN]
  BY <1>3 DEF Items
<1>8. /\ seen \in [Attachments -> Seq(Nat)]
      /\ cursor \in [Attachments -> Nat] /\ offer \in [Attachments -> Nat]
  BY <1>1, <1>3, <1>5 DEF TreeTypes
<1>9. /\ phase \in [Attachments -> {"none", "asked", "ready", "live", "released"}]
      /\ forwarder \in [Attachments -> {"none", "offer", "loop", "leave", "left", "done"}]
      /\ channel \in [Attachments -> Seq(Items)]
  BY <1>1 DEF TreeTypes
<1>10. Attachments \subseteq Nat
  BY <1>2 DEF Attachments
<1>11. QED
  BY <1>2, <1>4, <1>6, <1>7, <1>8, <1>9, <1>10

LEMMA InitStream == ASSUME ClientAssumption, Init PROVE StreamInv
<1>1. Types
  BY InitTypes
<1>2. Handled = 0 /\ buffer = <<>> /\ lost = 0
  BY DEF Init, Handled
<1>3. BufferInv
  BY <1>2 DEF BufferInv
<1>4. ASSUME NEW g \in Attachments PROVE AttachmentInv(g)
  <2>1. /\ channel[g] = <<>> /\ seen[g] = <<>> /\ cursor[g] = 0 /\ phase[g] = "none"
        /\ forwarder[g] = "none"
    BY DEF Init
  <2>2. ChannelInv(g) /\ SeenInv(g) /\ FreshInv(g)
    BY <2>1 DEF ChannelInv, SeenInv, FreshInv
  <2>3. BufferHas(g) /\ StreamHas(g)
    BY <1>2, <2>1 DEF BufferHas, StreamHas, Attached
  <2>4. QED
    BY <2>2, <2>3 DEF AttachmentInv
<1>5. QED
  BY <1>3, <1>4 DEF StreamInv

\* What an attachment has does not change with the steps of others.
LEMMA SameAttachment ==
    ASSUME NEW g \in Attachments, AttachmentInv(g), FreshInv(g)', Handled' = Handled,
           thread = "gone" => thread' = "gone", UNCHANGED <<buffer, lost>>,
           UNCHANGED <<cursor[g], offer[g], channel[g], seen[g]>>,
           Awaits(g)' => Awaits(g), Attached(g)' => Attached(g)
    PROVE  AttachmentInv(g)'
<1>1. ChannelInv(g)' /\ SeenInv(g)'
  BY DEF AttachmentInv, ChannelInv, SeenInv, Early
<1>2. BufferHas(g)' /\ StreamHas(g)'
  BY DEF AttachmentInv, BufferHas, StreamHas, Arriving
<1>3. QED
  BY <1>1, <1>2 DEF AttachmentInv

LEMMA SameStreams ==
    ASSUME StreamInv, Handled' = Handled, thread = "gone" => thread' = "gone",
           UNCHANGED <<buffer, lost, cursor, offer, channel, seen, phase, forwarder>>
    PROVE  StreamInv'
<1>1. BufferInv'
  BY DEF StreamInv, BufferInv
<1>2. ASSUME NEW g \in Attachments PROVE AttachmentInv(g)'
  <2>1. AttachmentInv(g) /\ FreshInv(g)' /\ (Awaits(g)' => Awaits(g)) /\ (Attached(g)' => Attached(g))
    BY DEF StreamInv, AttachmentInv, FreshInv, Awaits, Attached
  <2>2. QED
    BY <2>1, SameAttachment
<1>3. QED
  BY <1>1, <1>2 DEF StreamInv

-----------------------------------------------------------------------------
\* The steps of the socket thread.

LEMMA QuietSocketStream ==
    ASSUME ClientAssumption, Types, StreamInv,
           ReadEvent \/ TrackInteraction \/ Disconnect \/ FailRequests
    PROVE  StreamInv'
<1>1. last \in Nat
  BY StreamFacts
<1>2. Handled' = Handled
  BY <1>1 DEF ReadEvent, TrackInteraction, Disconnect, FailRequests, Handled
<1>3. thread = "gone" => thread' = "gone"
  BY DEF ReadEvent, TrackInteraction, Disconnect, FailRequests
<1>4. UNCHANGED <<buffer, lost, cursor, offer, channel, seen, phase, forwarder>>
  BY DEF ReadEvent, TrackInteraction, Disconnect, FailRequests, streamState, treeState
<1>5. QED
  BY <1>2, <1>3, <1>4, SameStreams

\* An item at the end of a channel.
LEMMA AppendToChannel ==
    ASSUME ClientAssumption, Types, NEW g \in Attachments, NEW item \in Items,
           AttachmentInv(g), channel'[g] = Append(channel[g], item),
           IF item.end THEN thread' = "gone" /\ Handled' = Handled
                       ELSE Handled < item.seq /\ item.seq = Handled' /\ Handled' = Handled + 1,
           thread # "gone", lost' = lost, phase[g] = "live",
           UNCHANGED <<cursor[g], offer[g], seen[g], phase[g], forwarder[g]>>
    PROVE  AttachmentInv(g)'
<1> DEFINE new == Len(channel[g]) + 1
<1>1. /\ channel[g] \in Seq(Items) /\ Len(channel[g]) \in Nat /\ Items \subseteq [seq : Nat, end : BOOLEAN]
      /\ Handled \in Nat /\ lost \in Nat /\ seen[g] \in Seq(Nat)
      /\ cursor[g] \in Nat /\ offer[g] \in Nat
  BY StreamFacts
<1>2. /\ DOMAIN channel[g] = 1..Len(channel[g]) /\ DOMAIN channel'[g] = 1..new
      /\ \A i \in DOMAIN channel[g] : channel'[g][i] = channel[g][i]
      /\ channel'[g][new] = item /\ item \in [seq : Nat, end : BOOLEAN]
      /\ \A i \in DOMAIN channel[g] : channel[g][i] \in [seq : Nat, end : BOOLEAN]
  BY <1>1, SeqElement
<1>3. \A i \in 1..new : i \in DOMAIN channel[g] \/ i = new
  BY <1>1, <1>2
<1> HIDE DEF new
<1>4. \A i \in DOMAIN channel[g] : ~channel[g][i].end /\ channel[g][i].seq <= Handled
  BY DEF AttachmentInv, ChannelInv
<1>5. ChannelInv(g)'
  <2>1. \A i, j \in DOMAIN channel'[g] :
          i < j => channel'[g][i].seq < channel'[g][j].seq \/ channel'[g][j].end
    <3> SUFFICES ASSUME NEW i \in DOMAIN channel'[g], NEW j \in DOMAIN channel'[g], i < j
                 PROVE  channel'[g][i].seq < channel'[g][j].seq \/ channel'[g][j].end
      OBVIOUS
    <3>1. i \in DOMAIN channel[g]
      BY <1>1, <1>2, <1>3 DEF new
    <3>2. CASE j \in DOMAIN channel[g]
      BY <1>2, <3>1, <3>2 DEF AttachmentInv, ChannelInv
    <3>3. CASE j = new
      <4>1. channel'[g][i].seq <= Handled /\ channel'[g][j] = item /\ channel'[g][i].seq \in Nat
        BY <1>2, <1>4, <3>1, <3>3
      <4>2. CASE item.end
        BY <4>1, <4>2
      <4>3. CASE ~item.end
        <5>1. Handled < item.seq /\ item.seq \in Nat
          BY <1>2, <4>3
        <5>2. QED
          BY <1>1, <4>1, <5>1
      <4>4. QED
        BY <4>2, <4>3
    <3>4. QED
      BY <1>2, <1>3, <3>2, <3>3
  <2>2. ASSUME NEW i \in DOMAIN channel'[g]
        PROVE  IF channel'[g][i].end THEN thread' = "gone" ELSE channel'[g][i].seq <= Handled'
    <3>1. CASE i \in DOMAIN channel[g]
      BY <1>1, <1>2, <1>4, <3>1
    <3>2. CASE i = new
      BY <1>1, <1>2, <3>2
    <3>3. QED
      BY <1>2, <1>3, <3>1, <3>2
  <2>3. QED
    BY <2>1, <2>2 DEF ChannelInv
<1>6. SeenInv(g)'
  <2>1. Handled <= Handled' /\ Handled' \in Nat
    BY <1>1
  <2>2. \A i \in DOMAIN seen[g] : seen[g][i] \in Nat
    BY <1>1, SeqElement
  <2>3. \A i \in DOMAIN seen[g] : Early(g, i)' <=> Early(g, i)
    BY DEF Early
  <2>4. \A i \in DOMAIN seen[g] : Early(g, i) \/ seen[g][i] <= Handled'
    BY <1>1, <2>1, <2>2 DEF AttachmentInv, SeenInv
  <2>5. ASSUME NEW i \in DOMAIN seen[g], NEW j \in DOMAIN channel'[g]
        PROVE  Early(g, i) \/ seen[g][i] < channel'[g][j].seq \/ channel'[g][j].end
    <3>1. CASE j \in DOMAIN channel[g]
      BY <1>2, <3>1 DEF AttachmentInv, SeenInv
    <3>2. CASE j = new
      <4>1. Early(g, i) \/ seen[g][i] <= Handled
        BY DEF AttachmentInv, SeenInv
      <4>2. QED
        BY <1>1, <1>2, <2>2, <3>2, <4>1
    <3>3. QED
      BY <1>2, <1>3, <3>1, <3>2
  <2>6. QED
    BY <2>3, <2>4, <2>5 DEF AttachmentInv, SeenInv
<1>7. FreshInv(g)' /\ BufferHas(g)'
  BY DEF AttachmentInv, FreshInv, BufferHas, Awaits
<1>8. StreamHas(g)'
  <2>1. \A i \in DOMAIN channel[g] : i \in DOMAIN channel'[g] /\ channel'[g][i] = channel[g][i]
    BY <1>1, <1>2 DEF new
  <2>2. Arriving(g) \subseteq Arriving(g)'
    BY <2>1 DEF Arriving, Elements
  <2>3. ~item.end => item.seq \in Arriving(g)'
    <3>1. new \in DOMAIN channel'[g]
      BY <1>1, <1>2 DEF new
    <3>2. QED
      BY <1>2, <3>1 DEF Arriving, Elements
  <2>4. \A n \in (cursor[g] + 1)..Handled' : n \in (cursor[g] + 1)..Handled \/ (~item.end /\ n = item.seq)
    BY <1>1, <1>2
  <2>5. Attached(g)' => Attached(g)
    BY DEF Attached
  <2>6. QED
    BY <2>2, <2>3, <2>4, <2>5 DEF AttachmentInv, StreamHas
<1>9. QED
  BY <1>5, <1>6, <1>7, <1>8 DEF AttachmentInv

\* An attachment that the next event does not reach.
LEMMA LaterAttachment ==
    ASSUME ClientAssumption, Types, NEW g \in Attachments, AttachmentInv(g), ~Attached(g),
           Handled' \in Nat, Handled <= Handled', thread = "gone" => thread' = "gone", BufferHas(g)',
           UNCHANGED <<cursor[g], offer[g], channel[g], seen[g], phase[g], forwarder[g]>>
    PROVE  AttachmentInv(g)'
<1>1. /\ channel[g] \in Seq(Items) /\ Items \subseteq [seq : Nat, end : BOOLEAN]
      /\ Handled \in Nat /\ seen[g] \in Seq(Nat)
  BY StreamFacts
<1>2. /\ \A i \in DOMAIN channel[g] : channel[g][i].seq \in Nat
      /\ \A i \in DOMAIN seen[g] : seen[g][i] \in Nat
  BY <1>1, SeqElement
<1>3. ChannelInv(g)'
  BY <1>1, <1>2 DEF AttachmentInv, ChannelInv
<1>4. SeenInv(g)'
  BY <1>1, <1>2 DEF AttachmentInv, SeenInv, Early
<1>5. FreshInv(g)' /\ StreamHas(g)'
  BY DEF AttachmentInv, FreshInv, StreamHas, Attached
<1>6. QED
  BY <1>3, <1>4, <1>5 DEF AttachmentInv

\* While one attachment is being made no other has the stream, or waits for it.
LEMMA AwaitsAlone ==
    ASSUME ClientAssumption, Types, OwnerInv, NEW g \in Attachments, Awaits(g)
    PROVE  sink = 0 /\ \A h \in Attachments : h # g => phase[h] # "ready"
<1>1. g \in Nat /\ Attachments \subseteq Nat \ {0} /\ (sink # 0 => sink \in Attachments)
  BY Bounds DEF Types, TypeOK, Attachments, ClientAssumption
<1>2. ASSUME NEW h \in Attachments, h # g, phase[h] \in {"live", "ready"} PROVE FALSE
  <2>1. h < g \/ g < h
    BY <1>1, <1>2
  <2>2. CASE h < g
    BY <1>1, <1>2, <2>2 DEF Awaits, OwnerInv
  <2>3. CASE g < h
    BY <1>1, <1>2, <2>3 DEF Awaits, OwnerInv
  <2>4. QED
    BY <2>1, <2>2, <2>3
<1>3. sink = 0
  BY <1>1, <1>2 DEF OwnerInv, Awaits
<1>4. QED
  BY <1>2, <1>3

LEMMA DeliverStream ==
    ASSUME ClientAssumption, Types, OwnerInv, StreamInv, Deliver PROVE StreamInv'
<1>0. /\ thread = "deliver" /\ thread' = "read" /\ last' = last
      /\ UNCHANGED <<phase, cursor, offer, forwarder, seen, sink>>
  BY DEF Deliver
<1>1. /\ last \in Nat /\ Handled = last - 1 /\ Handled' = last /\ Handled \in Nat
      /\ Handled' = Handled + 1 /\ Handled <= Handled'
  BY <1>0, StreamFacts DEF Handled
<1>2. BufferInv
  BY DEF StreamInv
<1>3. channel \in [Attachments -> Seq(Items)] /\ buffer \in Seq(Nat) /\ lost \in Nat
      /\ \A i \in DOMAIN buffer : buffer[i] \in Nat
  BY StreamFacts, SeqElement
<1>4. MaxBuffered \in Nat \ {0} /\ Len(buffer) \in Nat /\ Len(buffer) <= MaxBuffered
      /\ (sink # 0 => sink \in Attachments) /\ Attachments \subseteq Nat \ {0}
  BY Bounds DEF Types, TypeOK, StreamTypes, Attachments, ClientAssumption
<1>5. CASE sink # 0
  <2>1. /\ channel' = [channel EXCEPT ![sink] = Append(@, Item(last))] /\ UNCHANGED <<buffer, lost>>
    BY <1>5 DEF Deliver
  <2>2. BufferInv'
    BY <1>1, <1>2, <1>3, <2>1 DEF BufferInv
  <2>3. ASSUME NEW g \in Attachments, g = sink PROVE AttachmentInv(g)'
    <3>1. Item(last) \in Items /\ ~Item(last).end /\ Item(last).seq = last
      BY <1>1 DEF Item, Items
    <3>2. phase[g] = "live" /\ AttachmentInv(g)
      BY <1>5, <2>3 DEF OwnerInv, StreamInv
    <3>3. channel'[g] = Append(channel[g], Item(last))
      BY <1>3, <2>1, <2>3
    <3>4. QED
      BY <1>0, <1>1, <2>1, <3>1, <3>2, <3>3, AppendToChannel
  <2>4. ASSUME NEW g \in Attachments, g # sink PROVE AttachmentInv(g)'
    <3>1. ~Attached(g) /\ AttachmentInv(g)
      BY <1>0, <2>4 DEF OwnerInv, OwnerKeepsStream, Streaming, StreamInv
    <3>2. BufferHas(g)'
      BY <1>0, <1>5, AwaitsAlone DEF BufferHas, Awaits
    <3>3. channel'[g] = channel[g]
      BY <1>3, <2>1, <2>4
    <3>4. QED
      BY <1>0, <1>1, <3>1, <3>2, <3>3, LaterAttachment
  <2>5. QED
    BY <2>2, <2>3, <2>4 DEF StreamInv
<1>6. CASE sink = 0
  <2> DEFINE grown == Append(buffer, last)
  <2>1. /\ buffer' = Bounded(grown) /\ channel' = channel
        /\ lost' = IF Len(buffer) = MaxBuffered THEN Head(buffer) ELSE lost
    BY <1>6 DEF Deliver
  <2>2. /\ grown \in Seq(Nat) /\ Len(grown) = Len(buffer) + 1 /\ grown[Len(buffer) + 1] = last
        /\ \A i \in 1..Len(buffer) : grown[i] = buffer[i]
        /\ DOMAIN buffer = 1..Len(buffer)
    BY <1>1, <1>3
  <2> HIDE DEF grown
  <2>3. \A i, j \in 1..(Len(buffer) + 1) : i < j => grown[i] < grown[j]
    <3> SUFFICES ASSUME NEW i \in 1..(Len(buffer) + 1), NEW j \in 1..(Len(buffer) + 1), i < j
                 PROVE  grown[i] < grown[j]
      OBVIOUS
    <3>1. i \in 1..Len(buffer) /\ (j \in 1..Len(buffer) \/ j = Len(buffer) + 1)
      BY <1>4
    <3>2. CASE j \in 1..Len(buffer)
      BY <1>2, <2>2, <3>1, <3>2 DEF BufferInv
    <3>3. CASE j = Len(buffer) + 1
      <4>1. buffer[i] <= Handled /\ buffer[i] \in Nat
        BY <1>2, <1>3, <2>2, <3>1 DEF BufferInv
      <4>2. grown[i] = buffer[i] /\ grown[j] = last
        BY <2>2, <3>1, <3>3
      <4>3. QED
        BY <1>1, <4>1, <4>2
    <3>4. QED
      BY <3>1, <3>2, <3>3
  <2>4. \A i \in 1..(Len(buffer) + 1) : lost < grown[i] /\ grown[i] <= Handled'
    <3> SUFFICES ASSUME NEW i \in 1..(Len(buffer) + 1)
                 PROVE  lost < grown[i] /\ grown[i] <= Handled'
      OBVIOUS
    <3>1. CASE i \in 1..Len(buffer)
      <4>1. lost < buffer[i] /\ buffer[i] <= Handled /\ buffer[i] \in Nat
        BY <1>2, <1>3, <2>2, <3>1 DEF BufferInv
      <4>2. QED
        BY <1>1, <2>2, <3>1, <4>1
    <3>2. CASE i = Len(buffer) + 1
      BY <1>1, <1>2, <1>3, <2>2, <3>2 DEF BufferInv
    <3>3. QED
      BY <1>4, <3>1, <3>2
  <2>5. ASSUME NEW g \in Attachments PROVE ~Attached(g)
    BY <1>0, <1>4, <1>6 DEF OwnerInv, OwnerKeepsStream, Streaming
  <2>6. /\ BufferInv'
        /\ lost <= lost' /\ lost' \in Nat
        /\ \A i \in 1..(Len(buffer) + 1) : grown[i] <= lost' \/ grown[i] \in Elements(buffer')
    <3>1. CASE Len(buffer) = MaxBuffered
      <4>1. buffer' = Tail(grown) /\ 1 \in 1..Len(buffer) /\ lost' = buffer[1]
        <5>1. 1 \in 1..Len(buffer) /\ Len(buffer) # 0
          BY <1>4, <3>1
        <5>2. Head(buffer) = buffer[1] /\ buffer # <<>>
          BY <1>3, <5>1
        <5>3. Bounded(grown) = Tail(grown)
          BY <1>4, <2>2, <3>1 DEF Bounded
        <5>4. QED
          BY <2>1, <3>1, <5>1, <5>2, <5>3
      <4>2. /\ Len(buffer') = Len(buffer) /\ DOMAIN buffer' = 1..Len(buffer)
            /\ \A i \in 1..Len(buffer) : buffer'[i] = grown[i + 1]
        BY <1>4, <2>2, <4>1
      <4>3. lost' = grown[1] /\ lost' \in Nat /\ lost < lost' /\ lost' <= Handled'
        BY <1>3, <1>4, <2>2, <2>4, <4>1
      <4>4. \A i \in 1..Len(buffer) :
                i + 1 \in 1..(Len(buffer) + 1) /\ lost' < grown[i + 1] /\ grown[i + 1] <= Handled'
        <5>1. \A i \in 1..Len(buffer) :
                i + 1 \in 1..(Len(buffer) + 1) /\ 1 \in 1..(Len(buffer) + 1) /\ 1 < i + 1
          BY <1>4
        <5>2. QED
          BY <2>3, <2>4, <4>3, <5>1
      <4>5. \A i, j \in 1..Len(buffer) : i < j => buffer'[i] < buffer'[j]
        <5> SUFFICES ASSUME NEW i \in 1..Len(buffer), NEW j \in 1..Len(buffer), i < j
                     PROVE  buffer'[i] < buffer'[j]
          OBVIOUS
        <5>1. i + 1 \in 1..(Len(buffer) + 1) /\ j + 1 \in 1..(Len(buffer) + 1) /\ i + 1 < j + 1
          BY <1>4
        <5>2. QED
          BY <2>3, <4>2, <5>1
      <4>6. BufferInv'
        BY <4>2, <4>3, <4>4, <4>5 DEF BufferInv
      <4>7. ASSUME NEW i \in 1..(Len(buffer) + 1)
            PROVE  grown[i] <= lost' \/ grown[i] \in Elements(buffer')
        <5>1. CASE i = 1
          BY <4>3, <5>1
        <5>2. CASE i # 1
          <6>1. i - 1 \in 1..Len(buffer) /\ (i - 1) + 1 = i
            BY <1>4, <5>2
          <6>2. buffer'[i - 1] = grown[i] /\ i - 1 \in DOMAIN buffer'
            BY <4>2, <6>1
          <6>3. QED
            BY <6>2 DEF Elements
        <5>3. QED
          BY <5>1, <5>2
      <4>8. QED
        BY <1>3, <4>3, <4>6, <4>7
    <3>2. CASE Len(buffer) # MaxBuffered
      <4>1. buffer' = grown /\ lost' = lost
        <5>1. Len(grown) = Len(buffer) + 1
          BY <2>2
        <5>2. Len(buffer) \in Nat /\ MaxBuffered \in Nat /\ Len(buffer) <= MaxBuffered
          BY <1>4
        <5>3. ~(Len(grown) > MaxBuffered)
          BY <3>2, <5>1, <5>2
        <5>4. QED
          BY <2>1, <3>2, <5>3 DEF Bounded
      <4>2. DOMAIN buffer' = 1..(Len(buffer) + 1)
        BY <2>2, <4>1
      <4>3. lost' <= Handled'
        BY <1>1, <1>2, <1>3, <4>1 DEF BufferInv
      <4>4. BufferInv'
        BY <2>3, <2>4, <4>1, <4>2, <4>3 DEF BufferInv
      <4>5. \A i \in 1..(Len(buffer) + 1) : grown[i] \in Elements(buffer')
        BY <4>1, <4>2 DEF Elements
      <4>6. QED
        BY <1>3, <4>1, <4>4, <4>5
    <3>3. QED
      BY <3>1, <3>2
  <2>7. ASSUME NEW g \in Attachments PROVE AttachmentInv(g)'
    <3>1. ~Attached(g) /\ AttachmentInv(g)
      BY <2>5 DEF StreamInv
    <3>2. BufferHas(g)'
      <4> SUFFICES ASSUME Awaits(g)', NEW n \in (cursor[g] + 1)..Handled'
                   PROVE  n <= lost' \/ n \in Elements(buffer')
        BY <1>0 DEF BufferHas
      <4>1. cursor[g] \in Nat /\ Awaits(g)
        BY <1>0, StreamFacts DEF Awaits
      <4>2. CASE n = last
        <5>1. Len(buffer) + 1 \in 1..(Len(buffer) + 1)
          BY <1>4
        <5>2. QED
          BY <2>2, <2>6, <4>2, <5>1
      <4>3. CASE n # last
        <5>1. n \in (cursor[g] + 1)..Handled
          BY <1>1, <4>1, <4>3
        <5>2. n <= lost \/ n \in Elements(buffer)
          BY <3>1, <4>1, <5>1 DEF AttachmentInv, BufferHas
        <5>3. CASE n <= lost
          BY <1>3, <2>6, <4>1, <5>3
        <5>4. CASE n \in Elements(buffer)
          <6>1. PICK i \in 1..Len(buffer) : n = buffer[i]
            BY <2>2, <5>4 DEF Elements
          <6>2. i \in 1..(Len(buffer) + 1) /\ n = grown[i]
            BY <1>4, <2>2, <6>1
          <6>3. QED
            BY <2>6, <6>2
        <5>5. QED
          BY <5>2, <5>3, <5>4
      <4>4. QED
        BY <4>2, <4>3
    <3>3. QED
      BY <1>0, <1>1, <2>1, <3>1, <3>2, LaterAttachment
  <2>8. QED
    BY <2>6, <2>7 DEF StreamInv
<1>7. QED
  BY <1>5, <1>6

LEMMA EndStream ==
    ASSUME ClientAssumption, Types, OwnerInv, StreamInv, EndSinks PROVE StreamInv'
<1>0. /\ thread = "sinks" /\ thread' = "gone" /\ last' = last
      /\ UNCHANGED <<phase, cursor, offer, forwarder, seen, buffer, lost>>
  BY DEF EndSinks
<1>1. Handled' = Handled /\ Handled = last /\ last \in Nat /\ channel \in [Attachments -> Seq(Items)]
  BY <1>0, StreamFacts DEF Handled
<1>2. BufferInv'
  BY <1>0, <1>1 DEF StreamInv, BufferInv
<1>3. ASSUME NEW g \in Attachments PROVE AttachmentInv(g)'
  <2>1. AttachmentInv(g)
    BY DEF StreamInv
  <2>2. CASE g = sink
    <3>1. g # 0
      BY DEF Attachments
    <3>2. [seq |-> last, end |-> TRUE] \in Items
      BY <1>1 DEF Items
    <3>3. channel'[g] = Append(channel[g], [seq |-> last, end |-> TRUE]) /\ phase[g] = "live"
      BY <1>1, <2>2, <3>1 DEF EndSinks, OwnerInv
    <3>4. QED
      BY <1>0, <1>1, <2>1, <3>2, <3>3, AppendToChannel
  <2>3. CASE g # sink
    <3>1. channel'[g] = channel[g]
      BY <1>1, <2>3 DEF EndSinks
    <3>2. FreshInv(g)' /\ (Awaits(g)' => Awaits(g)) /\ (Attached(g)' => Attached(g))
      BY <1>0, <2>1 DEF AttachmentInv, FreshInv, Awaits, Attached
    <3>3. QED
      BY <1>0, <1>1, <2>1, <3>1, <3>2, SameAttachment
  <2>4. QED
    BY <2>2, <2>3
<1>4. QED
  BY <1>2, <1>3 DEF StreamInv

-----------------------------------------------------------------------------
\* The attachments' steps.

\* A step of one attachment that leaves the buffer alone.
LEMMA OwnStep ==
    ASSUME StreamInv, NEW g \in Attachments, AttachmentInv(g)',
           UNCHANGED <<log, socketState, buffer, lost>>,
           \A h \in Attachments : h # g =>
              UNCHANGED <<cursor[h], offer[h], channel[h], seen[h], phase[h], forwarder[h]>>
    PROVE  StreamInv'
<1>1. Handled' = Handled /\ thread' = thread
  BY DEF Handled, socketState
<1>2. BufferInv'
  BY <1>1 DEF StreamInv, BufferInv
<1>3. ASSUME NEW h \in Attachments, h # g PROVE AttachmentInv(h)'
  <2>1. AttachmentInv(h)
    BY DEF StreamInv
  <2>2. FreshInv(h)' /\ (Awaits(h)' => Awaits(h)) /\ (Attached(h)' => Attached(h))
    BY <1>3, <2>1 DEF AttachmentInv, FreshInv, Awaits, Attached
  <2>3. QED
    BY <1>1, <1>3, <2>1, <2>2, SameAttachment
<1>4. QED
  BY <1>2, <1>3 DEF StreamInv

\* A step that moves an attachment on and hands it nothing.
LEMMA QuietStep ==
    ASSUME ClientAssumption, Types, StreamInv, NEW g \in Attachments,
           Answered(g) \/ Release(g) \/ ChannelEnds(g) \/ Leave(g) \/ Finish(g)
    PROVE  StreamInv'
<1>1. /\ phase \in [Attachments -> {"none", "asked", "ready", "live", "released"}]
      /\ forwarder \in [Attachments -> {"none", "offer", "loop", "leave", "left", "done"}]
  BY StreamFacts
<1>2. /\ UNCHANGED <<log, socketState, buffer, lost, cursor, offer, channel, seen>>
      /\ \/ phase' = [phase EXCEPT ![g] = "ready"] /\ phase[g] = "asked" /\ forwarder' = forwarder
         \/ phase' = [phase EXCEPT ![g] = "released"] /\ phase[g] = "live" /\ forwarder' = forwarder
         \/ /\ forwarder[g] \in {"loop", "leave", "left"} /\ phase' = phase
            /\ \E place \in {"leave", "left", "done"} :
                  forwarder' = [forwarder EXCEPT ![g] = place]
  BY DEF Answered, Release, ChannelEnds, Leave, Finish, streamState
<1>3. Handled' = Handled /\ thread' = thread
  BY <1>2 DEF Handled, socketState
<1>4. AttachmentInv(g)
  BY DEF StreamInv
<1>5. FreshInv(g)' /\ (Awaits(g)' => Awaits(g)) /\ (Attached(g)' => Attached(g))
  BY <1>1, <1>2, <1>4 DEF AttachmentInv, FreshInv, Awaits, Attached
<1>6. AttachmentInv(g)'
  BY <1>2, <1>3, <1>4, <1>5, SameAttachment
<1>7. \A h \in Attachments : h # g =>
        UNCHANGED <<cursor[h], offer[h], channel[h], seen[h], phase[h], forwarder[h]>>
  BY <1>1, <1>2
<1>8. QED
  BY <1>2, <1>6, <1>7, OwnStep

LEMMA HydrateStream ==
    ASSUME ClientAssumption, Types, StreamInv, NEW g \in Attachments,
           NEW seq \in 0..MaxEvents, Hydrate(g, seq)
    PROVE  StreamInv'
<1>1. /\ phase \in [Attachments -> {"none", "asked", "ready", "live", "released"}]
      /\ cursor \in [Attachments -> Nat] /\ Handled \in Nat /\ Handled <= last
      /\ seen[g] \in Seq(Nat)
  BY StreamFacts
<1>2. /\ UNCHANGED <<log, socketState, buffer, lost, forwarder, offer, channel, seen>>
      /\ phase' = [phase EXCEPT ![g] = "asked"] /\ phase[g] = "none"
      /\ cursor' = [cursor EXCEPT ![g] = seq]
      /\ seq = Len(log) \/ (g = 1 /\ seq = 0)
  BY DEF Hydrate, streamState
<1>3. Handled' = Handled /\ thread' = thread
  BY <1>2 DEF Handled, socketState
<1>4. AttachmentInv(g) /\ last <= Len(log) /\ last \in Nat /\ Len(log) \in Nat
  BY Bounds DEF StreamInv, Types, TypeOK
<1>5. /\ seen[g] = <<>> /\ forwarder[g] = "none" /\ cursor[g] = 0 /\ phase'[g] = "asked"
      /\ cursor'[g] = seq
  BY <1>1, <1>2, <1>4 DEF AttachmentInv, FreshInv
<1>6. ChannelInv(g)' /\ SeenInv(g)' /\ FreshInv(g)'
  BY <1>2, <1>3, <1>4, <1>5 DEF AttachmentInv, ChannelInv, SeenInv, FreshInv
<1>7. BufferHas(g)'
  <2>1. CASE seq = Len(log)
    <3>1. (cursor'[g] + 1)..Handled' = {}
      BY <1>1, <1>3, <1>4, <1>5, <2>1
    <3>2. QED
      BY <3>1 DEF BufferHas
  <2>2. CASE g = 1 /\ seq = 0
    <3>1. Awaits(g) /\ cursor'[g] = cursor[g]
      BY <1>2, <1>5, <2>2 DEF Awaits
    <3>2. QED
      BY <1>2, <1>3, <1>4, <3>1 DEF AttachmentInv, BufferHas
  <2>3. QED
    BY <1>2, <2>1, <2>2
<1>8. StreamHas(g)'
  BY <1>2, <1>5 DEF StreamHas, Attached
<1>9. \A h \in Attachments : h # g =>
        UNCHANGED <<cursor[h], offer[h], channel[h], seen[h], phase[h], forwarder[h]>>
  BY <1>1, <1>2
<1>10. AttachmentInv(g)'
  BY <1>6, <1>7, <1>8 DEF AttachmentInv
<1>11. QED
  BY <1>2, <1>9, <1>10, OwnStep

LEMMA SubscribeStream ==
    ASSUME ClientAssumption, Types, OwnerInv, StreamInv, NEW g \in Attachments,
           SubscribeRuntime(g)
    PROVE  StreamInv'
<1> DEFINE items == [i \in DOMAIN buffer |-> Item(buffer[i])]
<1>1. /\ phase \in [Attachments -> {"none", "asked", "ready", "live", "released"}]
      /\ forwarder \in [Attachments -> {"none", "offer", "loop", "leave", "left", "done"}]
      /\ channel \in [Attachments -> Seq(Items)] /\ offer \in [Attachments -> Nat]
      /\ Handled \in Nat
  BY StreamFacts
<1>2. /\ UNCHANGED <<log, socketState, lost, cursor, seen>>
      /\ phase' = [phase EXCEPT ![g] = "live"] /\ phase[g] = "ready"
      /\ forwarder' = [forwarder EXCEPT ![g] = "offer"]
      /\ offer' = [offer EXCEPT ![g] = interaction]
      /\ channel' = [channel EXCEPT ![g] = items] /\ buffer' = <<>>
  BY DEF SubscribeRuntime
<1>3. /\ DOMAIN items = DOMAIN buffer
      /\ \A i \in DOMAIN buffer : ~items[i].end /\ items[i].seq = buffer[i]
  BY DEF Item
<1> HIDE DEF items
<1>4. Handled' = Handled /\ thread' = thread
  BY <1>2 DEF Handled, socketState
<1>5. AttachmentInv(g) /\ BufferInv
  BY DEF StreamInv
<1>6. /\ seen'[g] = <<>> /\ channel'[g] = items /\ forwarder'[g] = "offer" /\ phase'[g] = "live"
      /\ cursor'[g] = cursor[g]
  BY <1>1, <1>2, <1>5 DEF AttachmentInv, FreshInv
<1>7. ChannelInv(g)'
  BY <1>3, <1>4, <1>5, <1>6 DEF BufferInv, ChannelInv
<1>8. SeenInv(g)' /\ FreshInv(g)' /\ BufferHas(g)'
  BY <1>6 DEF SeenInv, FreshInv, BufferHas, Awaits
<1>9. StreamHas(g)'
  <2>1. ASSUME NEW n \in Elements(buffer) PROVE n \in Arriving(g)'
    <3>1. PICK i \in DOMAIN buffer : n = buffer[i]
      BY DEF Elements
    <3>2. i \in DOMAIN channel'[g] /\ ~channel'[g][i].end /\ channel'[g][i].seq = n
      BY <1>3, <1>6, <3>1
    <3>3. QED
      BY <3>2 DEF Arriving, Elements
  <2>2. Awaits(g)
    BY <1>2 DEF Awaits
  <2>3. QED
    BY <1>2, <1>4, <1>5, <1>6, <2>1, <2>2 DEF AttachmentInv, BufferHas, StreamHas
<1>10. AttachmentInv(g)'
  BY <1>7, <1>8, <1>9 DEF AttachmentInv
<1>11. ASSUME NEW h \in Attachments, h # g PROVE AttachmentInv(h)'
  <2>1. UNCHANGED <<cursor[h], offer[h], channel[h], seen[h], phase[h], forwarder[h]>>
    BY <1>1, <1>2, <1>11
  <2>2. AttachmentInv(h)
    BY DEF StreamInv
  <2>3. ~Awaits(h)
    BY <1>2, <1>11, AwaitsAlone
  <2>4. BufferHas(h)'
    BY <2>1, <2>3 DEF BufferHas, Awaits
  <2>5. ChannelInv(h)' /\ SeenInv(h)' /\ FreshInv(h)' /\ StreamHas(h)'
    BY <1>2, <1>4, <2>1, <2>2
       DEF AttachmentInv, ChannelInv, SeenInv, Early, FreshInv, StreamHas, Attached, Arriving
  <2>6. QED
    BY <2>4, <2>5 DEF AttachmentInv
<1>12. BufferInv'
  BY <1>2, <1>4, <1>5 DEF BufferInv
<1>13. QED
  BY <1>10, <1>11, <1>12 DEF StreamInv

LEMMA OfferStream ==
    ASSUME ClientAssumption, Types, StreamInv, NEW g \in Attachments, Offer(g)
    PROVE  StreamInv'
<1>1. /\ phase \in [Attachments -> {"none", "asked", "ready", "live", "released"}]
      /\ forwarder \in [Attachments -> {"none", "offer", "loop", "leave", "left", "done"}]
      /\ seen \in [Attachments -> Seq(Nat)] /\ offer[g] \in Nat
  BY StreamFacts
<1>2. /\ UNCHANGED <<log, socketState, streamState, phase, cursor, offer, channel>>
      /\ forwarder[g] = "offer"
      /\ \/ forwarder' = [forwarder EXCEPT ![g] = "loop"]
         \/ forwarder' = [forwarder EXCEPT ![g] = "leave"]
      /\ \/ seen' = [seen EXCEPT ![g] = Append(@, offer[g])]
         \/ seen' = seen
  BY DEF Offer, Hand
<1>3. Handled' = Handled /\ thread' = thread /\ UNCHANGED <<buffer, lost>>
  BY <1>2 DEF Handled, socketState, streamState
<1>4. AttachmentInv(g) /\ seen[g] = <<>>
  BY <1>2 DEF StreamInv, AttachmentInv, FreshInv
<1>5. /\ forwarder'[g] \in {"loop", "leave"}
      /\ seen'[g] = <<>> \/ (Len(seen'[g]) = 1 /\ DOMAIN seen'[g] = 1..1 /\ seen'[g][1] = offer[g])
  BY <1>1, <1>2, <1>4
<1>6. SeenInv(g)'
  <2>1. \A i \in DOMAIN seen'[g] : i = 1 /\ Early(g, i)'
    BY <1>2, <1>5 DEF Early
  <2>2. QED
    BY <2>1 DEF SeenInv
<1>7. ChannelInv(g)' /\ FreshInv(g)' /\ BufferHas(g)'
  BY <1>2, <1>3, <1>4, <1>5
     DEF AttachmentInv, ChannelInv, FreshInv, BufferHas, Awaits
<1>8. StreamHas(g)'
  BY <1>2, <1>3, <1>4 DEF AttachmentInv, StreamHas, Attached, Arriving, Elements
<1>9. \A h \in Attachments : h # g =>
        UNCHANGED <<cursor[h], offer[h], channel[h], seen[h], phase[h], forwarder[h]>>
  BY <1>1, <1>2
<1>10. AttachmentInv(g)'
  BY <1>6, <1>7, <1>8 DEF AttachmentInv
<1>11. QED
  BY <1>2, <1>3, <1>9, <1>10, OwnStep

\* An item taken from a channel is skipped or dropped, or the end, or an event
\* that is new to the desktop and comes before all that follow it.
LEMMA ForwardStream ==
    ASSUME ClientAssumption, Types, StreamInv, NEW g \in Attachments, Forward(g)
    PROVE  StreamInv'
<1> DEFINE item == Head(channel[g])
           rest == Len(channel[g]) - 1
<1>1. /\ phase \in [Attachments -> {"none", "asked", "ready", "live", "released"}]
      /\ forwarder \in [Attachments -> {"none", "offer", "loop", "leave", "left", "done"}]
      /\ seen \in [Attachments -> Seq(Nat)] /\ offer[g] \in Nat /\ cursor[g] \in Nat
      /\ channel \in [Attachments -> Seq(Items)] /\ Items \subseteq [seq : Nat, end : BOOLEAN]
      /\ Handled \in Nat /\ lost \in Nat
  BY StreamFacts
<1>2. /\ UNCHANGED <<log, socketState, streamState, phase, cursor, offer>>
      /\ forwarder[g] = "loop" /\ channel[g] # <<>>
      /\ channel' = [channel EXCEPT ![g] = Tail(@)]
      /\ \/ UNCHANGED <<forwarder, seen>> /\ (AlreadyHas(g, item.seq) \/ item.end)
         \/ seen' = seen /\ forwarder' = [forwarder EXCEPT ![g] = "leave"]
         \/ /\ seen' = [seen EXCEPT ![g] = Append(@, item.seq)] /\ forwarder' = forwarder
            /\ ~AlreadyHas(g, item.seq) /\ ~item.end
  BY DEF Forward, Hand
<1>3. Handled' = Handled /\ thread' = thread /\ UNCHANGED <<buffer, lost>>
  BY <1>2 DEF Handled, socketState, streamState
<1>4. AttachmentInv(g)
  BY DEF StreamInv
<1>5. /\ Len(channel[g]) \in Nat /\ rest \in Nat /\ 1 \in DOMAIN channel[g]
      /\ item = channel[g][1] /\ item \in Items
      /\ channel'[g] = Tail(channel[g])
  <2>1. channel[g] \in Seq(Items)
    BY <1>1
  <2>2. Len(channel[g]) \in Nat /\ Len(channel[g]) # 0
    BY <1>2, <2>1
  <2>3. 1 \in DOMAIN channel[g] /\ item = channel[g][1]
    BY <1>2, <2>1, <2>2
  <2>4. QED
    BY <1>1, <1>2, <2>1, <2>2, <2>3
<1>6. /\ DOMAIN channel'[g] = 1..rest
      /\ \A i \in 1..rest : channel'[g][i] = channel[g][i + 1] /\ i + 1 \in DOMAIN channel[g]
                            /\ 1 < i + 1
      /\ \A i \in DOMAIN channel[g] : i = 1 \/ (i - 1 \in 1..rest /\ (i - 1) + 1 = i)
  <2>1. channel[g] \in Seq(Items) /\ channel[g] # <<>>
    BY <1>1, <1>2
  <2>2. QED
    BY <1>5, <2>1
<1> HIDE DEF item, rest
<1>7. \A i \in DOMAIN channel[g] : channel[g][i].seq \in Nat
  BY <1>1, SeqElement
<1>8. ChannelInv(g)'
  <2>1. \A i, j \in 1..rest : i < j => i + 1 < j + 1
    BY <1>5
  <2>2. \A i, j \in DOMAIN channel'[g] :
          i < j => channel'[g][i].seq < channel'[g][j].seq \/ channel'[g][j].end
    BY <1>4, <1>6, <2>1 DEF AttachmentInv, ChannelInv
  <2>3. \A i \in DOMAIN channel'[g] :
          IF channel'[g][i].end THEN thread' = "gone" ELSE channel'[g][i].seq <= Handled'
    BY <1>3, <1>4, <1>6 DEF AttachmentInv, ChannelInv
  <2>4. QED
    BY <2>2, <2>3 DEF ChannelInv
<1>9. FreshInv(g)' /\ BufferHas(g)'
  <2>1. forwarder'[g] \in {"loop", "leave"} /\ phase[g] \notin {"none", "asked", "ready"}
    BY <1>1, <1>2, <1>4 DEF AttachmentInv, FreshInv
  <2>2. QED
    BY <1>2, <2>1 DEF FreshInv, BufferHas, Awaits
<1>10. \A x \in Arriving(g) : x \in Arriving(g)' \/ (x = item.seq /\ ~item.end)
  <2> SUFFICES ASSUME NEW i \in DOMAIN channel[g], ~channel[g][i].end, i # 1
               PROVE  channel[g][i].seq \in Arriving(g)'
    BY <1>5 DEF Arriving, Elements
  <2>1. channel'[g][i - 1] = channel[g][i] /\ i - 1 \in DOMAIN channel'[g]
    BY <1>6
  <2>2. QED
    BY <2>1 DEF Arriving, Elements
<1>11. ASSUME seen'[g] = seen[g] PROVE SeenInv(g)'
  <2>1. \A i \in DOMAIN seen[g], j \in 1..rest :
          Early(g, i) \/ seen[g][i] < channel[g][j + 1].seq \/ channel[g][j + 1].end
    BY <1>4, <1>6 DEF AttachmentInv, SeenInv
  <2>2. \A i \in DOMAIN seen[g] : Early(g, i)' <=> Early(g, i)
    BY <1>2, <1>11 DEF Early
  <2>3. \A i \in DOMAIN seen'[g], j \in DOMAIN channel'[g] :
          Early(g, i)' \/ seen'[g][i] < channel'[g][j].seq \/ channel'[g][j].end
    BY <1>6, <1>11, <2>1, <2>2
  <2>4. QED
    BY <1>2, <1>3, <1>4, <1>11, <2>2, <2>3 DEF AttachmentInv, SeenInv
<1>12. ASSUME UNCHANGED <<forwarder, seen>>, AlreadyHas(g, item.seq) \/ item.end
       PROVE  AttachmentInv(g)'
  <2>1. StreamHas(g)'
    <3> SUFFICES ASSUME Attached(g)', NEW n \in (cursor[g] + 1)..Handled
                 PROVE  n <= lost \/ n \in Elements(seen[g]) \cup Arriving(g)' \/ n = offer[g]
      BY <1>2, <1>3, <1>12 DEF StreamHas
    <3>1. n <= lost \/ n \in Elements(seen[g]) \cup Arriving(g) \/ n = offer[g]
      BY <1>2, <1>4, <1>12 DEF AttachmentInv, StreamHas, Attached
    <3>2. n = item.seq /\ ~item.end => n = offer[g]
      BY <1>1, <1>12 DEF AlreadyHas
    <3>3. QED
      BY <1>10, <3>1, <3>2
  <2>2. QED
    BY <1>8, <1>9, <1>11, <1>12, <2>1 DEF AttachmentInv
<1>13. ASSUME seen' = seen, forwarder' = [forwarder EXCEPT ![g] = "leave"]
       PROVE  AttachmentInv(g)'
  <2>1. StreamHas(g)'
    BY <1>1, <1>13 DEF StreamHas, Attached
  <2>2. QED
    BY <1>8, <1>9, <1>11, <1>13, <2>1 DEF AttachmentInv
<1>14. ASSUME seen' = [seen EXCEPT ![g] = Append(@, item.seq)], forwarder' = forwarder,
              ~AlreadyHas(g, item.seq), ~item.end
       PROVE  AttachmentInv(g)'
  <2> DEFINE new == Len(seen[g]) + 1
  <2>1. /\ seen[g] \in Seq(Nat) /\ Len(seen[g]) \in Nat /\ item.seq \in Nat
        /\ seen'[g] = Append(seen[g], item.seq)
    BY <1>1, <1>5, <1>7, <1>14
  <2>2. /\ DOMAIN seen[g] = 1..Len(seen[g]) /\ DOMAIN seen'[g] = 1..new
        /\ seen'[g][new] = item.seq
        /\ \A i \in DOMAIN seen[g] : seen'[g][i] = seen[g][i] /\ seen[g][i] \in Nat
        /\ \A i \in DOMAIN seen[g] : i \in 1..new
        /\ \A i \in 1..new : i \in DOMAIN seen[g] \/ i = new
        /\ \A i, j \in 1..new : i < j => i \in DOMAIN seen[g]
    BY <2>1
  <2> HIDE DEF new
  <2>3. /\ item.seq # offer[g] /\ cursor[g] < item.seq /\ item.seq <= Handled
    <3>1. item.seq # 0
      BY <1>5, <1>14 DEF Types, ItemsAreEvents
    <3>2. item.seq <= Handled
      BY <1>4, <1>5, <1>14 DEF AttachmentInv, ChannelInv
    <3>3. item.seq # offer[g] /\ ~(item.seq <= cursor[g])
      BY <1>14, <3>1 DEF AlreadyHas
    <3>4. QED
      BY <1>1, <2>1, <3>2, <3>3
  <2>4. \A i \in DOMAIN seen[g] : Early(g, i)' <=> Early(g, i)
    BY <1>2, <2>1, <2>2 DEF Early
  <2>5. \A i \in DOMAIN seen[g] : Early(g, i) \/ seen[g][i] < item.seq
    BY <1>4, <1>5, <1>14 DEF AttachmentInv, SeenInv
  <2>6. SeenInv(g)'
    <3>1. \A i \in DOMAIN seen'[g] : Early(g, i)' \/ seen'[g][i] <= Handled'
      BY <1>3, <1>4, <2>2, <2>3, <2>4 DEF AttachmentInv, SeenInv
    <3>2. ASSUME NEW i \in DOMAIN seen'[g], NEW j \in DOMAIN channel'[g]
          PROVE  Early(g, i)' \/ seen'[g][i] < channel'[g][j].seq \/ channel'[g][j].end
      <4>1. channel'[g][j] = channel[g][j + 1] /\ j + 1 \in DOMAIN channel[g] /\ 1 < j + 1
        BY <1>6
      <4>2. CASE i \in DOMAIN seen[g]
        BY <1>4, <2>2, <2>4, <4>1, <4>2 DEF AttachmentInv, SeenInv
      <4>3. CASE i = new
        BY <1>4, <1>5, <2>2, <4>1, <4>3 DEF AttachmentInv, ChannelInv
      <4>4. QED
        BY <2>2, <4>2, <4>3
    <3>3. \A i \in DOMAIN seen'[g] : seen'[g][i] <= cursor'[g] => Early(g, i)'
      <4>1. ~(item.seq <= cursor[g]) /\ cursor'[g] = cursor[g]
        BY <1>1, <1>2, <2>1, <2>3
      <4>2. QED
        BY <1>4, <2>2, <2>4, <4>1 DEF AttachmentInv, SeenInv
    <3>4. ASSUME NEW i \in DOMAIN seen'[g], NEW j \in DOMAIN seen'[g], i < j
          PROVE  seen'[g][i] < seen'[g][j] \/ (Early(g, i)' /\ seen'[g][j] # offer'[g])
      <4>1. i \in DOMAIN seen[g] /\ offer'[g] = offer[g]
        BY <1>2, <2>2, <3>4
      <4>2. CASE j \in DOMAIN seen[g]
        BY <1>4, <2>2, <2>4, <3>4, <4>1, <4>2 DEF AttachmentInv, SeenInv
      <4>3. CASE j = new
        BY <2>2, <2>3, <2>4, <2>5, <4>1, <4>3
      <4>4. QED
        BY <2>2, <4>2, <4>3
    <3>5. QED
      BY <3>1, <3>2, <3>3, <3>4 DEF SeenInv
  <2>7. StreamHas(g)'
    <3> SUFFICES ASSUME Attached(g)', NEW n \in (cursor[g] + 1)..Handled
                 PROVE  n <= lost \/ n \in Elements(seen'[g]) \cup Arriving(g)' \/ n = offer[g]
      BY <1>2, <1>3 DEF StreamHas
    <3>1. n <= lost \/ n \in Elements(seen[g]) \cup Arriving(g) \/ n = offer[g]
      BY <1>2, <1>4, <1>14 DEF AttachmentInv, StreamHas, Attached
    <3>2. Elements(seen[g]) \subseteq Elements(seen'[g])
      BY <2>2 DEF Elements
    <3>3. item.seq \in Elements(seen'[g])
      <4>1. new \in DOMAIN seen'[g]
        BY <2>1, <2>2 DEF new
      <4>2. QED
        BY <2>2, <4>1 DEF Elements
    <3>4. QED
      BY <1>10, <3>1, <3>2, <3>3
  <2>8. QED
    BY <1>8, <1>9, <2>6, <2>7 DEF AttachmentInv
<1>15. AttachmentInv(g)'
  BY <1>2, <1>12, <1>13, <1>14
<1>16. \A h \in Attachments : h # g =>
        UNCHANGED <<cursor[h], offer[h], channel[h], seen[h], phase[h], forwarder[h]>>
  BY <1>1, <1>2
<1>17. QED
  BY <1>2, <1>3, <1>15, <1>16, OwnStep

LEMMA NextStream ==
    ASSUME ClientAssumption, Types, OwnerInv, StreamInv, [Next]_vars PROVE StreamInv'
<1>1. ASSUME UNCHANGED <<log, socketState, streamState, treeState>> PROVE StreamInv'
  BY <1>1, SameStreams DEF socketState, streamState, treeState, Handled
<1>2. ASSUME NEW e, Reduce(e) PROVE StreamInv'
  <2>1. UNCHANGED <<last, thread, buffer, lost, cursor, offer, channel, seen, phase, forwarder>>
    BY <1>2 DEF Reduce, socketState, streamState, treeState
  <2>2. QED
    BY <2>1, SameStreams DEF Handled
<1>3. ASSUME NEW g \in Attachments, AnswerUser(g) \/ CancelTurn(g) PROVE StreamInv'
  <2>1. UNCHANGED <<last, thread, buffer, lost, cursor, offer, channel, seen, phase, forwarder>>
    BY <1>3 DEF AnswerUser, CancelTurn, socketState
  <2>2. QED
    BY <2>1, SameStreams DEF Handled
<1>4. ASSUME NEW q \in Requests, Caller(q) \/ Timeout(q) \/ Respond(q) PROVE StreamInv'
  <2>1. UNCHANGED <<log, socketState, streamState, treeState>>
    BY <1>4 DEF Caller, CheckConnected, Register, Send, SendFails, Return, Timeout, Respond
  <2>2. QED
    BY <1>1, <2>1
<1>5. ASSUME UNCHANGED vars PROVE StreamInv'
  BY <1>1, <1>5 DEF vars
<1>6. ASSUME NEW g \in Attachments, Desktop(g) PROVE StreamInv'
  BY <1>3, <1>6, HydrateStream, QuietStep, SubscribeStream DEF Desktop
<1>7. ASSUME NEW g \in Attachments, Forwarding(g) PROVE StreamInv'
  BY <1>7, OfferStream, ForwardStream, QuietStep DEF Forwarding
<1>8. ASSUME Socket \/ Disconnect PROVE StreamInv'
  BY <1>8, QuietSocketStream, DeliverStream, EndStream DEF Socket
<1>9. QED
  BY <1>2, <1>4, <1>5, <1>6, <1>7, <1>8 DEF Next

\* What the desktop is handed is the session's events: each after its cursor
\* once, in order, and none missing between the hydrated session and the
\* stream, however the two requests of attach_driver interleave with the events
\* and with earlier attachments (subscribe_runtime, forward_remote_events).
THEOREM StreamOfEvents == ASSUME ClientAssumption PROVE Spec => []StreamIsWhole
<1>1. Init => Types /\ OwnerInv /\ StreamInv
  BY InitTypes, InitStream DEF Init, OwnerInv, OwnerKeepsStream, Attached
<1>2. Types /\ OwnerInv /\ StreamInv /\ [Next]_vars => (Types /\ OwnerInv /\ StreamInv)'
  BY NextTypes, NextOwner, NextStream
<1>3. StreamInv => StreamIsWhole
  BY StreamInvSuffices
<1>4. QED
  BY <1>1, <1>2, <1>3, PTL DEF Spec

=============================================================================
