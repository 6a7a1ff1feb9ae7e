--------------------------- MODULE EventBusProofs ---------------------------
(***************************************************************************)
(* The agent's bus, for every number of calls, entries, purges and runs:   *)
(* a request gets its own answer or none (RequestsAreSafe), a completed    *)
(* purge is final (PurgeIsFinal), and it spares what is appended after it  *)
(* (PurgeSparesNewEntries).  BusTypeCorrect bounds its buffers, batches    *)
(* and fetches.                                                            *)
(***************************************************************************)
EXTENDS EventBus, FiniteSetTheorems, WellFoundedInduction, TLAPS

-----------------------------------------------------------------------------
(* Naturals.                                                                *)

\* A set of entries that is not empty has a first one.
LEMMA FirstEntry ==
    ASSUME NEW S \in SUBSET Nat, S # {}
    PROVE  \E x \in S : \A y \in S : x <= y
  <1> DEFINE R == {ss \in Nat \X Nat : ss[1] < ss[2]}
  <1>1. IsWellFoundedOn(R, Nat)
    BY NatLessThanWellFounded, Zenon DEF OpToRel
  <1> HIDE DEF R
  <1>2. \E x \in S : \A y \in S : ~(<<y, x>> \in R)
    BY <1>1, WFMin, Zenon
  <1>3. \A x, y \in S : ~(<<y, x>> \in R) => x <= y
    BY DEF R
  <1> QED
    BY <1>2, <1>3

\* Min, by which the group reads the stream, is that first entry.
LEMMA MinIsFirst ==
    ASSUME NEW S \in SUBSET Nat, S # {}
    PROVE  Min(S) \in S /\ \A y \in S : Min(S) <= y
  BY FirstEntry DEF Min

\* The round of a drain that is not full lists everything pending.
LEMMA ShortRoundIsAll ==
    ASSUME NEW P \in SUBSET Nat, IsFiniteSet(P), Batch \in Nat,
           NEW L, L = {e \in P : Cardinality({f \in P : f < e}) < Batch},
           Cardinality(L) < Batch
    PROVE  L = P
  <1> SUFFICES ASSUME P \ L # {} PROVE FALSE
    OBVIOUS
  <1>1. PICK e \in P \ L : \A y \in P \ L : e <= y
    BY FirstEntry
  <1> DEFINE Below == {f \in P : f < e}
  <1>2. Below \subseteq L
    <2> SUFFICES ASSUME NEW f \in P, f < e PROVE f \in L
      BY Zenon
    <2>1. e \in Nat /\ f \in Nat /\ ~(e <= f)
      OBVIOUS
    <2>2. f \in P \ L => e <= f
      BY <1>1, Zenon
    <2> QED
      BY <2>1, <2>2, Zenon
  <1>3. IsFiniteSet(L)
    BY FS_Subset
  <1>4. Cardinality(Below) <= Cardinality(L) /\ IsFiniteSet(Below)
    BY <1>2, <1>3, FS_Subset
  <1>5. Cardinality(Below) \in Nat /\ Cardinality(L) \in Nat
    BY <1>3, <1>4, FS_CardinalityType
  <1>6. ~(Cardinality(Below) < Batch)
    BY <1>1
  <1> QED
    BY <1>4, <1>5, <1>6
-----------------------------------------------------------------------------
(* Requests.                                                                *)

RequestTypeInv ==
    /\ phase \in [Calls -> {"idle", "subscribing", "waiting", "answered", "failed"}]
    /\ live \subseteq Calls
    /\ inbox \in [Calls -> Seq(Calls)]
    /\ got \in [Calls -> Calls \cup {NoCall}]
    /\ queue \in Seq(Calls)
    /\ busy \in Calls \cup {NoCall}
    /\ handled \subseteq Calls

Sent(c) == phase[c] \notin {"idle", "subscribing"}

\* A request exists once it was sent, its caller listens by then, and a reply
\* is for the call in whose inbox it is, and comes from the handler.
RequestInv ==
    /\ RequestTypeInv
    /\ \A c \in Calls : phase[c] = "waiting" => c \in live
    /\ \A i \in DOMAIN queue : Sent(queue[i])
    /\ \A c \in handled : Sent(c)
    /\ replied \subseteq handled
    /\ AnswersReachCallers
    /\ busy # NoCall => busy \in handled
    /\ \A c \in Calls : \A i \in DOMAIN inbox[c] : inbox[c][i] = c /\ c \in handled

\* Before any call, nothing is out.
LEMMA RequestInvInit == Init => RequestInv
  BY DEF Init, RequestInit, RequestInv, RequestTypeInv, AnswersReachCallers

\* What arrives at the responder is the call's request, in the worst case never
\* and in the other twice.
LEMMA OfferAdds ==
    ASSUME NEW c \in Calls, queue \in Seq(Calls), Offer(c)
    PROVE  /\ queue' \in Seq(Calls)
           /\ \A i \in DOMAIN queue' : queue'[i] = c \/ \E j \in DOMAIN queue : queue'[i] = queue[j]
  <1>1. PICK n \in 1 .. 2 :
            queue' = queue \o [i \in 1 .. (IF n < (IF serving THEN Slots - Len(queue) ELSE 0)
                                           THEN n ELSE (IF serving THEN Slots - Len(queue) ELSE 0)) |-> c]
    BY DEF Offer
  <1> DEFINE room == IF serving THEN Slots - Len(queue) ELSE 0
  <1> DEFINE k == IF n < room THEN n ELSE room
  <1> DEFINE copies == [i \in 1 .. k |-> c]
  <1>2. room \in Int /\ k \in Int
    BY RequestAssumption
  <1>3. copies \in Seq(Calls) /\ \A i \in DOMAIN copies : copies[i] = c
    <2>1. \A m \in Nat : [i \in 1 .. m |-> c] \in Seq(Calls)
      OBVIOUS
    <2>2. \E m \in Nat : 1 .. k = 1 .. m
      <3>1. CASE k >= 0
        BY <1>2, <3>1
      <3>2. CASE k < 0
        <4>1. 1 .. k = 1 .. 0
          BY <1>2, <3>2
        <4> QED
          BY <4>1
      <3> QED
        BY <1>2, <3>1, <3>2
    <2> QED
      BY <2>1, <2>2, Zenon
  <1>4. queue' = queue \o copies
    BY <1>1
  <1> HIDE DEF copies
  <1> QED
    BY <1>3, <1>4

\* A request's queue stays sound when only it and the phases change, and no
\* call goes back to idle.
LEMMA QueueKept ==
    ASSUME RequestInv, NEW c \in Calls, Offer(c),
           Sent(c)', \A d \in Calls : Sent(d) => Sent(d)'
    PROVE  queue' \in Seq(Calls) /\ \A i \in DOMAIN queue' : phase'[queue'[i]] \notin {"idle", "subscribing"}
  <1>1. queue \in Seq(Calls) /\ \A i \in DOMAIN queue : queue[i] \in Calls /\ Sent(queue[i])
    BY DEF RequestInv, RequestTypeInv
  <1>2. /\ queue' \in Seq(Calls)
        /\ \A i \in DOMAIN queue' : queue'[i] = c \/ \E j \in DOMAIN queue : queue'[i] = queue[j]
    BY <1>1, OfferAdds
  <1> QED
    BY <1>1, <1>2, Zenon DEF Sent

\* Every step of the bus keeps the invariant of requests.
LEMMA RequestInvNext ==
    ASSUME ChannelsDistinct, RequestInv, Next
    PROVE  RequestInv'
  <1> USE RequestAssumption DEF RequestInv, RequestTypeInv, AnswersReachCallers, Sent
  <1>1. ASSUME NEW c \in Calls, Subscribe(c) PROVE RequestInv'
    BY <1>1 DEF Subscribe
  <1>2. ASSUME NEW c \in Calls, Acknowledge(c) PROVE RequestInv'
    BY <1>2 DEF Acknowledge
  <1>3. ASSUME NEW c \in Calls, Send(c) PROVE RequestInv'
    <2>1. Sent(c)' /\ \A d \in Calls : Sent(d) => Sent(d)'
      BY <1>3 DEF Send
    <2>2. Offer(c)
      BY <1>3 DEF Send
    <2>3. queue' \in Seq(Calls) /\ \A i \in DOMAIN queue' : phase'[queue'[i]] \notin {"idle", "subscribing"}
      <3> HIDE DEF RequestInv
      <3> QED
        BY <2>1, <2>2, QueueKept
    <2> QED
      BY <1>3, <2>3 DEF Send
  <1>4. ASSUME NEW c \in Calls, SendFails(c) PROVE RequestInv'
    <2>1. Sent(c)' /\ \A d \in Calls : Sent(d) => Sent(d)'
      BY <1>4 DEF SendFails, Return
    <2>2. CASE Offer(c)
      <3>1. queue' \in Seq(Calls) /\ \A i \in DOMAIN queue' : phase'[queue'[i]] \notin {"idle", "subscribing"}
        <4> HIDE DEF RequestInv
        <4> QED
          BY <2>1, <2>2, QueueKept
      <3> QED
        BY <1>4, <3>1 DEF SendFails, Return
    <2>3. CASE UNCHANGED queue
      BY <1>4, <2>1, <2>3 DEF SendFails, Return
    <2> QED
      BY <1>4, <2>2, <2>3 DEF SendFails
  <1>5. ASSUME NEW c \in Calls, Receive(c) PROVE RequestInv'
    BY <1>5 DEF Receive, Return
  <1>6. ASSUME NEW c \in Calls, Timeout(c) PROVE RequestInv'
    BY <1>6 DEF Timeout, Return
  <1>7. CASE Take
    BY <1>7 DEF Take
  <1>8. CASE Reply
    <2>1. busy \in Calls /\ busy \in handled
      BY <1>8 DEF Reply
    <2>2. inbox' \in [Calls -> Seq(Calls)]
      BY <1>8, <2>1 DEF Reply
    <2>3. ASSUME NEW c \in Calls, NEW i \in DOMAIN inbox'[c] PROVE inbox'[c][i] = c /\ c \in handled
      <3>1. CASE inbox'[c] = inbox[c]
        BY <2>3, <3>1
      <3>2. CASE inbox'[c] = Append(inbox[c], busy) /\ ReplyChannel(c) = ReplyChannel(busy)
        BY <2>1, <2>3, <3>2 DEF ChannelsDistinct
      <3> QED
        BY <1>8, <3>1, <3>2 DEF Reply
    <2>4. ASSUME NEW c \in replied', phase'[c] = "waiting"
          PROVE  \E i \in DOMAIN inbox'[c] : inbox'[c][i] = c
      <3>1. c \in Calls /\ phase[c] = "waiting" /\ c \in live
        BY <1>8, <2>1, <2>4 DEF Reply
      <3>2. CASE c = busy /\ Len(inbox[c]) < Slots
        <4>1. inbox'[c] = Append(inbox[c], c)
          BY <1>8, <3>1, <3>2 DEF Reply
        <4>2. Len(inbox[c]) + 1 \in DOMAIN inbox'[c] /\ inbox'[c][Len(inbox[c]) + 1] = c
          BY <3>1, <4>1
        <4> QED
          BY <4>2
      <3>3. CASE c = busy /\ ~(Len(inbox[c]) < Slots)
        <4>1. inbox'[c] = inbox[c]
          BY <1>8, <3>1, <3>3 DEF Reply
        <4>2. 1 \in DOMAIN inbox[c]
          BY <3>1, <3>3
        <4> QED
          BY <3>1, <4>1, <4>2
      <3>4. CASE c # busy
        <4>1. PICK i \in DOMAIN inbox[c] : inbox[c][i] = c
          BY <1>8, <3>1, <3>4, <2>4 DEF Reply
        <4>2. inbox'[c] = inbox[c]
          BY <1>8, <2>1, <3>1, <3>4 DEF Reply, ChannelsDistinct
        <4> QED
          BY <4>1, <4>2
      <3> QED
        BY <3>2, <3>3, <3>4
    <2>5. AnswersReachCallers'
      BY <2>4
    <2>6. RequestTypeInv'
      BY <1>8, <2>2 DEF Reply
    <2>7. UNCHANGED <<phase, live, queue, handled>> /\ replied' = replied \cup {busy} /\ busy' = NoCall
      BY <1>8 DEF Reply
    <2> HIDE DEF RequestTypeInv, AnswersReachCallers
    <2> QED
      BY <2>1, <2>3, <2>5, <2>6, <2>7
  <1>9. CASE NoReply
    BY <1>9 DEF NoReply
  <1>10. CASE Unserve
    BY <1>10 DEF Unserve
  <1>11. CASE UNCHANGED <<phase, live, inbox, got, queue, busy, handled, replied>>
    BY <1>11
  <1>12. CASE Requesting
    BY <1>1, <1>2, <1>3, <1>4, <1>5, <1>6, <1>7, <1>8, <1>9, <1>12 DEF Requesting, RequestStep
  <1>13. CASE Run \/ RouterRuns \/ Streaming
    BY <1>11, <1>13 DEF Run, Serve, RouterRuns, Streaming, requestVars
  <1>14. CASE Stop
    BY <1>10, <1>14 DEF Stop
  <1> QED
    BY <1>12, <1>13, <1>14 DEF Next

\* Every step of the bus is a step of the exchange, or none.
LEMMA ExchangeStep ==
    ASSUME RequestInv, [Next]_vars
    PROVE  [Promise!Next]_(Promise!vars)
  <1> USE RequestAssumption DEF RequestInv, RequestTypeInv
  <1> DEFINE asked(p) == [c \in Calls |-> IF p[c] \in {"subscribing", "waiting"} THEN "asked" ELSE p[c]]
  <1>1. ASSUME NEW c \in Calls, Subscribe(c) PROVE Promise!Ask(c)
    BY <1>1 DEF Subscribe, Promise!Ask
  <1>2. ASSUME NEW c \in Calls, Acknowledge(c) PROVE UNCHANGED Promise!vars
    BY <1>2 DEF Acknowledge, Promise!vars
  <1>3. ASSUME NEW c \in Calls, Send(c) PROVE UNCHANGED Promise!vars
    <2>1. asked(phase') = asked(phase)
      BY <1>3 DEF Send
    <2> QED
      BY <1>3, <2>1 DEF Send, Promise!vars
  <1>4. ASSUME NEW c \in Calls, SendFails(c) PROVE Promise!GiveUp(c)
    BY <1>4 DEF SendFails, Return, Promise!GiveUp
  <1>5. ASSUME NEW c \in Calls, Receive(c) PROVE Promise!Answer(c)
    <2>1. Head(inbox[c]) = c /\ c \in handled
      BY <1>5 DEF Receive
    <2> QED
      BY <1>5, <2>1 DEF Receive, Return, Promise!Answer
  <1>6. ASSUME NEW c \in Calls, Timeout(c) PROVE Promise!GiveUp(c)
    BY <1>6 DEF Timeout, Return, Promise!GiveUp
  <1>7. ASSUME Take PROVE UNCHANGED Promise!vars \/ \E c \in Calls : Promise!Handle(c)
    <2>1. Head(queue) \in Calls /\ Sent(Head(queue)) /\ handled' = handled \cup {Head(queue)}
      BY <1>7 DEF Take
    <2>2. CASE Head(queue) \in handled
      BY <1>7, <2>1, <2>2 DEF Take, Promise!vars
    <2>3. CASE Head(queue) \notin handled
      <3>1. Promise!Handle(Head(queue))
        BY <1>7, <2>1, <2>3 DEF Take, Sent, Promise!Handle
      <3> QED
        BY <2>1, <3>1
    <2> QED
      BY <2>2, <2>3
  <1>8. CASE UNCHANGED <<phase, got, handled>>
    BY <1>8 DEF Promise!vars
  <1>9. CASE Requesting
    <2>1. CASE \E c \in Calls : Subscribe(c) \/ Acknowledge(c) \/ Send(c) \/ SendFails(c) \/ Receive(c) \/ Timeout(c)
      BY <1>1, <1>2, <1>3, <1>4, <1>5, <1>6, <2>1, Zenon DEF Promise!Next
    <2>2. CASE Take
      BY <1>7, <2>2, Zenon DEF Promise!Next
    <2>3. CASE Reply \/ NoReply
      BY <1>8, <2>3 DEF Reply, NoReply
    <2> QED
      BY <1>9, <2>1, <2>2, <2>3, Zenon DEF Requesting, RequestStep
  <1>10. CASE Run \/ RouterRuns \/ Stop \/ Streaming
    BY <1>8, <1>10 DEF Run, Serve, RouterRuns, Stop, Unserve, Streaming, requestVars
  <1>11. CASE UNCHANGED vars
    BY <1>8, <1>11 DEF vars, requestVars
  <1> QED
    BY <1>9, <1>10, <1>11, Zenon DEF Next

\* So does a step that changes nothing.
LEMMA RequestInvStep ==
    ASSUME ChannelsDistinct, RequestInv, [Next]_vars
    PROVE  RequestInv'
  <1>1. CASE UNCHANGED vars
    BY <1>1 DEF vars, requestVars, RequestInv, RequestTypeInv, AnswersReachCallers, Sent
  <1> QED
    BY <1>1, RequestInvNext

\* Request keeps its promise whatever the responder, the network and Redis do
\* (bus_pubsub.go:138-189): nobody gets another call's answer, nobody gets an
\* answer the handler did not give, and a call that has ended stays ended.
THEOREM RequestsAreSafe == ChannelsDistinct => (Spec => RequestsFollowExchange)
  <1> SUFFICES ASSUME ChannelsDistinct PROVE Spec => RequestsFollowExchange
    OBVIOUS
  <1>1. Init => Promise!Init
    BY DEF Init, RequestInit, Promise!Init
  <1>2. Init => RequestInv
    BY RequestInvInit
  <1>3. RequestInv /\ [Next]_vars => RequestInv'
    BY RequestInvStep
  <1>4. RequestInv /\ [Next]_vars => [Promise!Next]_(Promise!vars)
    BY ExchangeStep
  <1> QED
    BY <1>1, <1>2, <1>3, <1>4, PTL DEF Spec, RequestsFollowExchange

\* No reply is missed (bus_pubsub.go:149-152): the reply to a request is with
\* its caller as long as the caller waits.
THEOREM NoReplyMissed == ChannelsDistinct => (Spec => []AnswersReachCallers)
  <1> SUFFICES ASSUME ChannelsDistinct PROVE Spec => []AnswersReachCallers
    OBVIOUS
  <1>1. Init => RequestInv
    BY RequestInvInit
  <1>2. RequestInv /\ [Next]_vars => RequestInv'
    BY RequestInvStep
  <1>3. RequestInv => AnswersReachCallers
    BY DEF RequestInv
  <1> QED
    BY <1>1, <1>2, <1>3, PTL DEF Spec

-----------------------------------------------------------------------------
(* The stream.                                                              *)

StreamTypeInv ==
    /\ last \in Nat /\ delivered \in Nat /\ floor \in Nat /\ moved \in Nat /\ purged \in Nat
    /\ stream \subseteq 1 .. last /\ pending \subseteq 1 .. last
    /\ delivered <= last /\ floor <= last /\ moved <= last

\* What a completed purge was to drop is neither ahead of the group nor pending.
\* Once the group was moved it is past the floor, and a round that is not full
\* holds all that is pending of before.
PurgeInv ==
    /\ purged <= delivered
    /\ \A e \in pending : e > purged
    /\ step \in {"list", "ack"} => floor <= delivered
    /\ step = "ack" /\ Cardinality(listed) < Batch => \A e \in pending : e <= floor => e \in listed

\* What left the stream after the last trim was evicted, and what the consumer
\* has fetched is pending until it, or a drain, acknowledges it.
KeptInv ==
    /\ \A e \in 1 .. last : e > floor => e \in stream \cup evicted
    /\ hand \subseteq pending \cup drained \cup done \cup evicted \cup 0 .. floor
    /\ NewEntriesSurvive

StreamInv == StreamTypeInv /\ PurgeInv /\ KeptInv

\* Before any entry, nothing is purged.
LEMMA StreamInvInit == Init => StreamInv
  BY DEF Init, StreamInit, StreamInv, StreamTypeInv, PurgeInv, KeptInv, NewEntriesSurvive

\* A trim drops entries and adds none.
LEMMA TrimmedIsPart ==
    ASSUME NEW S, NEW n, NEW kept \in Trimmed(S, n)
    PROVE  kept \subseteq S
  BY DEF Trimmed

\* The group reads the first entry ahead of it.
LEMMA DeliverReads ==
    ASSUME StreamTypeInv, Deliver
    PROVE  /\ delivered' \in stream /\ delivered' > delivered
           /\ delivered' \in 1 .. last
           /\ \A e \in stream : e > delivered => delivered' <= e
           /\ pending' = pending \cup {delivered'}
           /\ hand' = hand \cup {delivered'}
  <1>0. Undelivered # {}
    BY DEF Deliver
  <1>1. Undelivered \in SUBSET Nat /\ Undelivered # {} /\ Undelivered \subseteq stream
    <2>1. Undelivered \subseteq stream /\ stream \subseteq 1 .. last
      BY DEF StreamTypeInv, Undelivered
    <2> QED
      BY <1>0, <2>1
  <1>2. Min(Undelivered) \in Undelivered /\ \A y \in Undelivered : Min(Undelivered) <= y
    BY <1>1, MinIsFirst
  <1>3. delivered' = Min(Undelivered) /\ pending' = pending \cup {delivered'} /\ hand' = hand \cup {delivered'}
    BY DEF Deliver
  <1> QED
    BY <1>1, <1>2, <1>3 DEF Undelivered, StreamTypeInv

\* The steps of the stream keep the types the purge relies on.
LEMMA TypeStep ==
    ASSUME StreamTypeInv, StreamStep
    PROVE  StreamTypeInv'
  <1> USE DEF StreamTypeInv
  <1>1. CASE Publish
    <2>1. last' = last + 1 /\ UNCHANGED <<delivered, floor, moved, purged, pending>>
      BY <1>1 DEF Publish
    <2>2. stream' \subseteq stream \cup {last + 1}
      BY <1>1, TrimmedIsPart DEF Publish
    <2> QED
      BY <2>1, <2>2
  <1>2. CASE Sweep
    BY <1>2, TrimmedIsPart DEF Sweep
  <1>3. CASE Deliver
    <2>1. UNCHANGED <<last, stream, step, listed, floor, moved, purged>>
      BY <1>3 DEF Deliver
    <2>2. /\ delivered' \in 1 .. last /\ delivered' > delivered
          /\ pending' = pending \cup {delivered'}
      <3> HIDE DEF StreamTypeInv
      <3> QED
        BY <1>3, DeliverReads
    <2> QED
      BY <2>1, <2>2
  <1>4. CASE Claim
    BY <1>4 DEF Claim
  <1>5. CASE Ack
    BY <1>5 DEF Ack
  <1>6. CASE PurgeTrim
    <2>1. stream' \subseteq stream
      BY <1>6, TrimmedIsPart DEF PurgeTrim
    <2> QED
      BY <1>6, <2>1 DEF PurgeTrim
  <1>7. CASE PurgeSetId
    BY <1>7 DEF PurgeSetId
  <1>10. CASE PurgeGroups \/ PurgeFails
    BY <1>10 DEF PurgeGroups, PurgeFails
  <1>8. CASE DrainList
    BY <1>8 DEF DrainList
  <1>9. CASE DrainAck
    BY <1>9 DEF DrainAck
  <1> QED
    BY <1>1, <1>2, <1>3, <1>4, <1>5, <1>6, <1>7, <1>8, <1>9, <1>10 DEF StreamStep

\* The steps of the stream keep what a purge has promised.
LEMMA PurgeStep ==
    ASSUME StreamTypeInv, PurgeInv, StreamStep
    PROVE  PurgeInv'
  <1> USE PurgeAssumption DEF StreamTypeInv, PurgeInv
  <1>1. CASE Publish
    BY <1>1 DEF Publish
  <1>2. CASE Sweep
    BY <1>2 DEF Sweep
  <1>3. CASE Deliver
    <2>1. UNCHANGED <<last, stream, step, listed, floor, moved, purged>>
      BY <1>3 DEF Deliver
    <2>2. /\ delivered' \in 1 .. last /\ delivered' > delivered
          /\ pending' = pending \cup {delivered'}
      <3> HIDE DEF StreamTypeInv
      <3> QED
        BY <1>3, DeliverReads
    <2> QED
      BY <2>1, <2>2
  <1>4. CASE Claim
    BY <1>4 DEF Claim
  <1>5. CASE Ack
    BY <1>5 DEF Ack
  <1>6. CASE PurgeTrim
    BY <1>6 DEF PurgeTrim
  <1>7. CASE PurgeSetId
    BY <1>7 DEF PurgeSetId
  <1>10. CASE PurgeGroups \/ PurgeFails
    BY <1>10 DEF PurgeGroups, PurgeFails
  <1>8. CASE DrainList
    <2>1. pending \in SUBSET Nat /\ IsFiniteSet(pending)
      <3>1. pending \in SUBSET (1 .. last) /\ IsFiniteSet(1 .. last)
        BY FS_Interval
      <3>2. IsFiniteSet(pending)
        BY <3>1, FS_Subset, Zenon
      <3> QED
        BY <3>1, <3>2
    <2>2. listed' = {e \in pending : Cardinality({f \in pending : f < e}) < Batch}
      BY <1>8 DEF DrainList
    <2>3. Cardinality(listed') < Batch => listed' = pending
      BY <2>1, <2>2, ShortRoundIsAll
    <2>4. CASE listed' = {}
      <3>1. pending = {}
        BY <2>3, <2>4, FS_EmptySet
      <3> QED
        BY <1>8, <2>4, <3>1 DEF DrainList
    <2>5. CASE listed' # {}
      BY <1>8, <2>3, <2>5 DEF DrainList
    <2> QED
      BY <2>4, <2>5
  <1>9. CASE DrainAck
    BY <1>9 DEF DrainAck
  <1> QED
    BY <1>1, <1>2, <1>3, <1>4, <1>5, <1>6, <1>7, <1>8, <1>9, <1>10 DEF StreamStep

\* Retention's hand is in evicted, the operator's in floor, moved and drained.
LEMMA KeptStep ==
    ASSUME StreamTypeInv, KeptInv, StreamStep
    PROVE  KeptInv'
  <1> USE DEF StreamTypeInv, KeptInv, NewEntriesSurvive, Undelivered
  <1>1. CASE Publish
    <2>1. /\ last' = last + 1
          /\ stream' \cup evicted' = stream \cup {last + 1} \cup evicted
          /\ evicted \subseteq evicted'
          /\ UNCHANGED <<delivered, pending, hand, done, floor, moved, drained>>
      BY <1>1, TrimmedIsPart DEF Publish
    <2> QED
      BY <2>1
  <1>2. CASE Sweep
    <2>1. /\ stream' \cup evicted' = stream \cup evicted
          /\ evicted \subseteq evicted'
          /\ UNCHANGED <<last, delivered, pending, hand, done, floor, moved, drained>>
      BY <1>2, TrimmedIsPart DEF Sweep
    <2> QED
      BY <2>1
  <1>3. CASE Deliver
    <2>1. UNCHANGED <<last, stream, done, floor, moved, drained, evicted>>
      BY <1>3 DEF Deliver
    <2>2. /\ delivered' \in 1 .. last
          /\ \A e \in stream : e > delivered => delivered' <= e
          /\ pending' = pending \cup {delivered'}
          /\ hand' = hand \cup {delivered'}
      <3> HIDE DEF StreamTypeInv
      <3> QED
        BY <1>3, DeliverReads
    <2> QED
      BY <2>1, <2>2
  <1>4. CASE Claim
    <2>1. PICK x \in pending \ hand : IF x \in stream THEN hand' = hand \cup {x} /\ UNCHANGED pending
                                                   ELSE pending' = pending \ {x} /\ UNCHANGED hand
      BY <1>4 DEF Claim
    <2>2. UNCHANGED <<last, stream, delivered, done, floor, moved, drained, evicted>>
      BY <1>4 DEF Claim
    <2>3. CASE x \in stream
      <3>1. hand' = hand \cup {x} /\ pending' = pending
        BY <2>1, <2>3
      <3>2. hand' \subseteq pending' \cup drained' \cup done' \cup evicted' \cup 0 .. floor'
        BY <2>2, <3>1
      <3>3. NewEntriesSurvive'
        BY <2>2, <3>1
      <3> QED
        BY <2>2, <3>2, <3>3
    <2>4. CASE x \notin stream
      <3>1. x \in evicted \cup 0 .. floor
        BY <2>4
      <3>2. x > floor => x \in evicted
        BY <2>4
      <3> QED
        BY <2>1, <2>2, <2>4, <3>1, <3>2
    <2> QED
      BY <2>3, <2>4
  <1>5. CASE Ack
    BY <1>5 DEF Ack
  <1>6. CASE PurgeTrim
    <2>1. floor' = last /\ UNCHANGED <<last, delivered, pending, hand, done, moved, drained, evicted>>
      BY <1>6 DEF PurgeTrim
    <2>2. 0 .. floor \subseteq 0 .. floor'
      BY <2>1
    <2>3. \A e \in 1 .. last' : ~(e > floor')
      BY <2>1
    <2> QED
      BY <2>1, <2>2, <2>3
  <1>7. CASE PurgeSetId
    BY <1>7 DEF PurgeSetId
  <1>8. CASE DrainList
    BY <1>8 DEF DrainList
  <1>9. CASE DrainAck
    BY <1>9 DEF DrainAck
  <1>10. CASE PurgeGroups \/ PurgeFails
    BY <1>10 DEF PurgeGroups, PurgeFails
  <1> QED
    BY <1>1, <1>2, <1>3, <1>4, <1>5, <1>6, <1>7, <1>8, <1>9, <1>10 DEF StreamStep

\* Every step of the stream keeps its invariant.
LEMMA StreamInvStep ==
    ASSUME StreamInv, [Next]_vars
    PROVE  StreamInv'
  <1>1. CASE UNCHANGED <<last, stream, delivered, pending, hand, done, step, listed, floor, moved,
                         purged, drained, evicted>>
    BY <1>1 DEF StreamInv, StreamTypeInv, PurgeInv, KeptInv, NewEntriesSurvive, Undelivered
  <1>2. CASE Abandon
    BY <1>2 DEF Abandon, StreamInv, StreamTypeInv, PurgeInv, KeptInv, NewEntriesSurvive, Undelivered
  <1>3. CASE Streaming
    BY <1>3, TypeStep, PurgeStep, KeptStep DEF Streaming, StreamInv
  <1>4. CASE Run \/ Requesting \/ UNCHANGED vars
    BY <1>1, <1>4 DEF Run, Requesting, vars, streamVars
  <1>5. CASE RouterRuns
    BY <1>1, <1>5 DEF RouterRuns, Consume
  <1>6. CASE Stop
    BY <1>2, <1>6 DEF Stop
  <1> QED
    BY <1>3, <1>4, <1>5, <1>6 DEF Next

\* A completed purge is final (purge.go:25-30): no entry that was on the stream
\* when it began is fetched again, however its calls interleave with the
\* consumer's, the producers' and the sweep's.
THEOREM PurgeIsFinal == Spec => PurgedStaysPurged
  <1>1. Init => StreamInv
    BY StreamInvInit
  <1>2. StreamInv /\ [Next]_vars => StreamInv'
    BY StreamInvStep
  <1>3. StreamInv /\ [Next]_vars => [\A e \in hand' \ hand : e > purged]_streamVars
    <2> SUFFICES ASSUME StreamInv, Next, NEW e \in hand' \ hand
                 PROVE  e > purged
      BY DEF vars
    <2> USE DEF StreamInv
    <2>1. CASE Deliver
      <3>1. e > delivered /\ e \in Nat
        BY <2>1, DeliverReads
      <3> QED
        BY <3>1 DEF StreamTypeInv, PurgeInv
    <2>2. CASE Claim
      BY <2>2 DEF Claim, PurgeInv
    <2>3. CASE hand' \subseteq hand
      BY <2>3
    <2>4. CASE Streaming
      BY <2>1, <2>2, <2>3, <2>4 DEF Streaming, StreamStep, Publish, Sweep, Ack, PurgeTrim, PurgeGroups,
            PurgeSetId, DrainList, DrainAck, PurgeFails
    <2> QED
      BY <2>3, <2>4 DEF Next, Run, RouterRuns, Consume, Stop, Abandon, Requesting, streamVars
  <1> QED
    BY <1>1, <1>2, <1>3, PTL DEF Spec, PurgedStaysPurged

\* A purge spares what is appended after it has moved the group (purge.go:63):
\* only retention, or a drain that finds the entry pending, can take it.
THEOREM PurgeSparesNewEntries == Spec => []NewEntriesSurvive
  <1>1. Init => StreamInv
    BY StreamInvInit
  <1>2. StreamInv /\ [Next]_vars => StreamInv'
    BY StreamInvStep
  <1>3. StreamInv => NewEntriesSurvive
    BY DEF StreamInv, KeptInv
  <1> QED
    BY <1>1, <1>2, <1>3, PTL DEF Spec

-----------------------------------------------------------------------------
(* Types and limits: no buffer of a subscription holds more than Slots, no  *)
(* round of the drain acknowledges more than Batch, the consumer has at     *)
(* most two entries in its hands, and the two halves of Run go together.    *)

\* The first entries of a set, as many as fewer than n precede, are at most n.
LEMMA RoundFits ==
    ASSUME NEW last0 \in Nat, NEW P \in SUBSET (1 .. last0), NEW n \in Nat \ {0},
           NEW L, L = {e \in P : Cardinality({f \in P : f < e}) < n}
    PROVE  IsFiniteSet(L) /\ Cardinality(L) <= n
  <1>1. IsFiniteSet(P) /\ IsFiniteSet(L)
    <2>1. IsFiniteSet(1 .. last0)
      BY FS_Interval
    <2> QED BY <2>1, FS_Subset
  <1>2. CASE L = {}
    <2>1. Cardinality(L) = 0
      BY <1>2, FS_EmptySet, Zenon
    <2> QED BY <1>1, <2>1
  <1>3. CASE L # {}
    <2> DEFINE D == {last0 - e : e \in L}
    <2>0. \A e \in L : e \in 1 .. last0
      OBVIOUS
    <2>1. D \in SUBSET Nat /\ D # {}
      <3>1. \A e \in L : last0 - e \in Nat
        BY <2>0
      <3> QED BY <1>3, <3>1
    <2>2. PICK x \in D : \A y \in D : x <= y
      <3> HIDE DEF D
      <3> QED BY <2>1, FirstEntry
    <2>3. PICK e \in L : x = last0 - e
      BY <2>2
    <2>4. \A f \in L : f <= e
      <3> SUFFICES ASSUME NEW f \in L PROVE f <= e
        OBVIOUS
      <3>1. last0 - f \in D
        OBVIOUS
      <3>2. last0 - e <= last0 - f
        BY <2>2, <2>3, <3>1
      <3>3. e \in 1 .. last0 /\ f \in 1 .. last0
        OBVIOUS
      <3> QED BY <3>2, <3>3
    <2> DEFINE Below == {f \in P : f < e}
    <2>5. Cardinality(Below) < n /\ Below \subseteq P
      OBVIOUS
    <2>6. L \subseteq Below \cup {e}
      <3> SUFFICES ASSUME NEW f \in L, f # e PROVE f \in Below
        OBVIOUS
      <3>1. f \in P /\ f \in Nat /\ e \in Nat
        OBVIOUS
      <3> QED BY <2>4, <3>1
    <2> HIDE DEF Below, D
    <2>7. IsFiniteSet(Below)
      BY <1>1, <2>5, FS_Subset
    <2>8. Cardinality(Below) \in Nat /\ IsFiniteSet(Below \cup {e})
          /\ Cardinality(Below \cup {e}) <= Cardinality(Below) + 1
      <3>1. Cardinality(Below) \in Nat
        BY <2>7, FS_CardinalityType
      <3>2. /\ IsFiniteSet(Below \cup {e})
            /\ Cardinality(Below \cup {e}) = IF e \in Below THEN Cardinality(Below) ELSE Cardinality(Below) + 1
        BY <2>7, FS_AddElement, Zenon
      <3> QED BY <3>1, <3>2
    <2>9. Cardinality(L) <= Cardinality(Below \cup {e})
      BY <2>6, <2>8, FS_Subset
    <2>10. Cardinality(L) \in Nat /\ Cardinality(Below \cup {e}) \in Nat
      BY <1>1, <2>8, FS_CardinalityType
    <2> QED BY <1>1, <2>5, <2>8, <2>9, <2>10
  <1> QED BY <1>2, <1>3

\* A request is dropped when the responder's buffer is full.
LEMMA OfferFits ==
    ASSUME NEW c \in Calls, queue \in Seq(Calls), Len(queue) <= Slots, Offer(c)
    PROVE  queue' \in Seq(Calls) /\ Len(queue') <= Slots
  <1> USE RequestAssumption
  <1>1. PICK n \in 1 .. 2 :
            queue' = queue \o [i \in 1 .. (IF n < (IF serving THEN Slots - Len(queue) ELSE 0)
                                           THEN n ELSE (IF serving THEN Slots - Len(queue) ELSE 0)) |-> c]
    BY DEF Offer
  <1> DEFINE room == IF serving THEN Slots - Len(queue) ELSE 0
  <1> DEFINE k == IF n < room THEN n ELSE room
  <1> DEFINE copies == [i \in 1 .. k |-> c]
  <1>2. Len(queue) \in Nat
    OBVIOUS
  <1>3. room \in Nat /\ room <= Slots - Len(queue)
    BY <1>2
  <1>4. k \in Nat /\ k <= Slots - Len(queue)
    <2> HIDE DEF room
    <2> QED BY <1>2, <1>3
  <1>5. copies \in Seq(Calls) /\ Len(copies) = k
    <2>1. \A m \in Nat : [i \in 1 .. m |-> c] \in Seq(Calls) /\ Len([i \in 1 .. m |-> c]) = m
      OBVIOUS
    <2> HIDE DEF k
    <2> QED BY <1>4, <2>1
  <1>6. queue' = queue \o copies
    BY <1>1
  <1> HIDE DEF copies, k
  <1>7. queue' \in Seq(Calls) /\ Len(queue') = Len(queue) + k
    <2>1. \A t \in Seq(Calls) : queue \o t \in Seq(Calls) /\ Len(queue \o t) = Len(queue) + Len(t)
      OBVIOUS
    <2> QED BY <1>5, <1>6, <2>1
  <1> QED BY <1>2, <1>4, <1>7

\* The steps of calls keep their types.
LEMMA RequestTypeStep ==
    ASSUME RequestTypeOK, RequestStep \/ Serve \/ Unserve \/ UNCHANGED requestVars
    PROVE  RequestTypeOK'
  <1> USE RequestAssumption DEF RequestTypeOK
  <1>1. ASSUME NEW c \in Calls, Subscribe(c) \/ Acknowledge(c) PROVE RequestTypeOK'
    BY <1>1 DEF Subscribe, Acknowledge
  <1>2. ASSUME NEW c \in Calls, Send(c) PROVE RequestTypeOK'
    <2>1. queue' \in Seq(Calls) /\ Len(queue') <= Slots
      BY <1>2, OfferFits DEF Send
    <2> QED BY <1>2, <2>1 DEF Send
  <1>3. ASSUME NEW c \in Calls, NEW end \in {"answered", "failed"}, Return(c, end)
        PROVE  /\ phase' \in [Calls -> {"idle", "subscribing", "waiting", "answered", "failed"}]
               /\ live' \subseteq Calls
               /\ inbox' \in [Calls -> Seq(Calls)] /\ \A d \in Calls : Len(inbox'[d]) <= Slots
    BY <1>3 DEF Return
  <1>4. ASSUME NEW c \in Calls, SendFails(c) PROVE RequestTypeOK'
    <2>1. queue' \in Seq(Calls) /\ Len(queue') <= Slots
      BY <1>4, OfferFits DEF SendFails
    <2>2. Return(c, "failed") /\ UNCHANGED <<got, serving, busy, handled, replied>>
      BY <1>4 DEF SendFails
    <2> QED BY <1>3, <2>1, <2>2
  <1>5. ASSUME NEW c \in Calls, Receive(c) PROVE RequestTypeOK'
    <2>1. /\ Return(c, "answered") /\ got' = [got EXCEPT ![c] = Head(inbox[c])] /\ inbox[c] # <<>>
          /\ UNCHANGED <<serving, queue, busy, handled, replied>>
      BY <1>5 DEF Receive
    <2>2. Head(inbox[c]) \in Calls
      BY <2>1
    <2> QED BY <1>3, <2>1, <2>2
  <1>6. ASSUME NEW c \in Calls, Timeout(c) PROVE RequestTypeOK'
    <2>1. Return(c, "failed") /\ UNCHANGED <<got, serving, queue, busy, handled, replied>>
      BY <1>6 DEF Timeout
    <2> QED BY <1>3, <2>1
  <1>7. CASE Take
    <2>1. Head(queue) \in Calls /\ Tail(queue) \in Seq(Calls) /\ Len(Tail(queue)) <= Slots
      BY <1>7 DEF Take
    <2> QED BY <1>7, <2>1 DEF Take
  <1>8. CASE Reply
    <2>1. busy \in Calls
      BY <1>8 DEF Reply
    <2>2. \A c \in Calls : inbox'[c] = inbox[c] \/ (inbox'[c] = Append(inbox[c], busy) /\ Len(inbox[c]) < Slots)
      BY <1>8 DEF Reply
    <2>3. inbox' \in [Calls -> Seq(Calls)]
      BY <1>8, <2>1 DEF Reply
    <2>4. \A c \in Calls : Len(inbox'[c]) <= Slots
      <3> SUFFICES ASSUME NEW c \in Calls PROVE Len(inbox'[c]) <= Slots
        OBVIOUS
      <3>1. Len(inbox[c]) \in Nat /\ Len(inbox[c]) <= Slots /\ Len(Append(inbox[c], busy)) = Len(inbox[c]) + 1
        BY <2>1
      <3>2. CASE inbox'[c] = inbox[c]
        BY <3>1, <3>2
      <3>3. CASE inbox'[c] = Append(inbox[c], busy) /\ Len(inbox[c]) < Slots
        <4>1. Len(inbox'[c]) = Len(inbox[c]) + 1
          BY <3>1, <3>3
        <4> QED BY <3>1, <3>3, <4>1
      <3> QED BY <2>2, <3>2, <3>3
    <2>5. replied' = replied \cup {busy} /\ busy' = NoCall /\ UNCHANGED <<phase, live, got, serving, queue, handled>>
      BY <1>8 DEF Reply
    <2> QED BY <2>1, <2>3, <2>4, <2>5
  <1>9. CASE NoReply \/ Serve \/ UNCHANGED requestVars
    BY <1>9 DEF NoReply, Serve, requestVars
  <1>10. CASE Unserve
    <2>1. <<>> \in Seq(Calls) /\ Len(<<>>) = 0 /\ 0 <= Slots
      OBVIOUS
    <2>2. /\ serving' = FALSE /\ queue' = <<>> /\ busy' = NoCall
          /\ UNCHANGED <<phase, live, inbox, got, handled, replied>>
      BY <1>10 DEF Unserve
    <2>3. queue' \in Seq(Calls) /\ Len(queue') <= Slots
      BY <2>1, <2>2
    <2> QED BY <2>2, <2>3
  <1> QED BY <1>1, <1>2, <1>4, <1>5, <1>6, <1>7, <1>8, <1>9, <1>10 DEF RequestStep

\* StreamTypeOK, spelled out.
LEMMA StreamTypes ==
    StreamTypeOK <=>
      /\ last \in 0 .. MaxEntries
      /\ stream \subseteq 1 .. last /\ pending \subseteq 1 .. last /\ hand \subseteq 1 .. last
      /\ done \subseteq 1 .. last /\ listed \subseteq 1 .. last /\ drained \subseteq 1 .. last
      /\ evicted \subseteq 1 .. last
      /\ delivered \in 0 .. last /\ floor \in 0 .. last /\ moved \in 0 .. last /\ purged \in 0 .. last
      /\ grouped \in BOOLEAN /\ consuming \in BOOLEAN
      /\ step \in {"idle", "groups", "setid", "list", "ack"}
      /\ Cardinality(hand) <= Fetched /\ Cardinality(listed) <= Batch
  BY Zenon DEF StreamTypeOK

\* The same one step later.
LEMMA StreamTypesNext ==
    ASSUME /\ last' \in 0 .. MaxEntries
           /\ stream' \subseteq 1 .. last' /\ pending' \subseteq 1 .. last' /\ hand' \subseteq 1 .. last'
           /\ done' \subseteq 1 .. last' /\ listed' \subseteq 1 .. last' /\ drained' \subseteq 1 .. last'
           /\ evicted' \subseteq 1 .. last'
           /\ delivered' \in 0 .. last' /\ floor' \in 0 .. last' /\ moved' \in 0 .. last'
           /\ purged' \in 0 .. last'
           /\ grouped' \in BOOLEAN /\ consuming' \in BOOLEAN
           /\ step' \in {"idle", "groups", "setid", "list", "ack"}
           /\ Cardinality(hand') <= Fetched /\ Cardinality(listed') <= Batch
    PROVE  StreamTypeOK'
  BY Zenon DEF StreamTypeOK, Fetched

\* Entries are finitely many.
LEMMA EntriesFinite ==
    ASSUME NEW n \in Nat, NEW H, H \subseteq 1 .. n
    PROVE  IsFiniteSet(H)
  <1>1. 1 \in Int /\ n \in Int
    OBVIOUS
  <1>2. IsFiniteSet(1 .. n)
    BY <1>1, FS_Interval, Zenon
  <1> QED BY <1>2, FS_Subset, Zenon

\* What the consumer takes in its hand is one of at most two entries.
LEMMA HandFits ==
    ASSUME NEW H, NEW n \in Nat, H \subseteq 1 .. n, Cardinality(H) < Fetched, NEW e
    PROVE  Cardinality(H \cup {e}) <= Fetched
  <1>1. IsFiniteSet(H)
    BY EntriesFinite
  <1>2. Cardinality(H) \in Nat
    BY <1>1, FS_CardinalityType
  <1>3. Cardinality(H \cup {e}) = IF e \in H THEN Cardinality(H) ELSE Cardinality(H) + 1
    BY <1>1, FS_AddElement, Zenon
  <1> QED BY <1>2, <1>3 DEF Fetched

\* Nothing fits everywhere.
LEMMA EmptyFits == Cardinality({}) = 0 /\ Cardinality({}) <= Fetched /\ Cardinality({}) <= Batch
  <1>1. Cardinality({}) = 0
    BY FS_EmptySet, Zenon
  <1> QED BY <1>1, PurgeAssumption DEF Fetched

\* The steps of the stream keep their types.
LEMMA StreamTypeStep ==
    ASSUME StreamTypeOK, StreamStep
    PROVE  StreamTypeOK'
  <1> USE PurgeAssumption
  <1>0. /\ last \in 0 .. MaxEntries
        /\ stream \subseteq 1 .. last /\ pending \subseteq 1 .. last /\ hand \subseteq 1 .. last
        /\ done \subseteq 1 .. last /\ listed \subseteq 1 .. last /\ drained \subseteq 1 .. last
        /\ evicted \subseteq 1 .. last
        /\ delivered \in 0 .. last /\ floor \in 0 .. last /\ moved \in 0 .. last /\ purged \in 0 .. last
        /\ grouped \in BOOLEAN /\ consuming \in BOOLEAN
        /\ step \in {"idle", "groups", "setid", "list", "ack"}
        /\ Cardinality(hand) <= Fetched /\ Cardinality(listed) <= Batch
    BY StreamTypes
  <1>00. last \in Nat
    BY <1>0
  <1>1. CASE Publish
    <2>1. /\ last' = last + 1 /\ last < MaxEntries
          /\ UNCHANGED <<grouped, delivered, pending, consuming, hand, done, step, listed, floor,
                         moved, purged, drained>>
          /\ \E kept \in Trimmed(stream \cup {last + 1}, last) :
                stream' = kept /\ evicted' = evicted \cup ((stream \cup {last + 1}) \ kept)
      BY <1>1 DEF Publish
    <2>2. stream' \subseteq stream \cup {last + 1} /\ evicted' \subseteq evicted \cup stream \cup {last + 1}
      BY <2>1, TrimmedIsPart
    <2>3. last' \in 0 .. MaxEntries /\ last + 1 \in 1 .. last' /\ 1 .. last \subseteq 1 .. last'
          /\ 0 .. last \subseteq 0 .. last'
      BY <1>0, <2>1
    <2> QED BY <1>0, <2>1, <2>2, <2>3, StreamTypesNext
  <1>2. CASE Sweep
    <2>1. /\ UNCHANGED <<last, grouped, delivered, pending, consuming, hand, done, step, listed, floor,
                         moved, purged, drained>>
          /\ \E kept \in Trimmed(stream, last) :
                stream' = kept /\ evicted' = evicted \cup (stream \ kept)
      BY <1>2 DEF Sweep
    <2>2. stream' \subseteq stream /\ evicted' \subseteq evicted \cup stream
      BY <2>1, TrimmedIsPart
    <2> QED BY <1>0, <2>1, <2>2, StreamTypesNext
  <1>3. CASE Deliver
    <2>1. StreamTypeInv
      BY <1>0 DEF StreamTypeInv
    <2>2. /\ delivered' \in 1 .. last
          /\ pending' = pending \cup {delivered'} /\ hand' = hand \cup {delivered'}
      BY <1>3, <2>1, DeliverReads
    <2>3. Cardinality(hand) < Fetched
          /\ UNCHANGED <<last, stream, grouped, consuming, done, step, listed, floor, moved, purged,
                         drained, evicted>>
      BY <1>3 DEF Deliver
    <2>4. Cardinality(hand') <= Fetched
      BY <1>0, <1>00, <2>2, <2>3, HandFits
    <2>5. delivered' \in 0 .. last
      BY <1>0, <2>2
    <2> QED BY <1>0, <2>2, <2>3, <2>4, <2>5, StreamTypesNext
  <1>4. CASE Claim
    <2>1. /\ Cardinality(hand) < Fetched
          /\ UNCHANGED <<last, stream, grouped, delivered, consuming, done, step, listed, floor, moved,
                         purged, drained, evicted>>
      BY <1>4 DEF Claim
    <2>2. \E e \in pending \ hand : \/ hand' = hand \cup {e} /\ pending' = pending
                                    \/ hand' = hand /\ pending' = pending \ {e}
      BY <1>4 DEF Claim
    <2>3. hand' \subseteq 1 .. last /\ pending' \subseteq 1 .. last
      BY <1>0, <2>2
    <2>4. Cardinality(hand') <= Fetched
      <3>1. PICK e \in pending \ hand : hand' = hand \cup {e} \/ hand' = hand
        BY <2>2
      <3>2. Cardinality(hand \cup {e}) <= Fetched
        BY <1>0, <1>00, <2>1, HandFits
      <3> QED BY <1>0, <3>1, <3>2
    <2> QED BY <1>0, <2>1, <2>3, <2>4, StreamTypesNext
  <1>5. CASE Ack
    <2>1. UNCHANGED <<last, stream, grouped, delivered, consuming, step, listed, floor, moved, purged,
                      drained, evicted>>
      BY <1>5 DEF Ack
    <2>2. PICK e \in hand : hand' = hand \ {e} /\ done' = done \cup {e} /\ pending' = pending \ {e}
      BY <1>5 DEF Ack
    <2>3. Cardinality(hand') <= Fetched
      <3>1. IsFiniteSet(hand)
        BY <1>0, <1>00, EntriesFinite
      <3>2. IsFiniteSet(hand') /\ Cardinality(hand') <= Cardinality(hand)
        BY <2>2, <3>1, FS_Subset
      <3>3. Cardinality(hand) \in Nat /\ Cardinality(hand') \in Nat
        BY <3>1, <3>2, FS_CardinalityType
      <3> QED BY <1>0, <3>2, <3>3 DEF Fetched
    <2> QED BY <1>0, <2>1, <2>2, <2>3, StreamTypesNext
  <1>6. CASE PurgeTrim
    <2>1. /\ floor' = last /\ step' = "groups" /\ stream' \subseteq stream
          /\ UNCHANGED <<last, grouped, delivered, pending, consuming, hand, done, listed, moved,
                         purged, drained, evicted>>
      BY <1>6, TrimmedIsPart DEF PurgeTrim
    <2>2. last \in 0 .. last
      BY <1>0
    <2> QED BY <1>0, <2>1, <2>2, StreamTypesNext
  <1>7. CASE PurgeGroups
    <2>1. /\ step' \in {"setid", "idle"}
          /\ UNCHANGED <<last, stream, grouped, delivered, pending, consuming, hand, done, listed, floor,
                         moved, purged, drained, evicted>>
      BY <1>7 DEF PurgeGroups
    <2> QED BY <1>0, <2>1, StreamTypesNext
  <1>8. CASE PurgeSetId
    <2>1. /\ delivered' = last /\ moved' = last /\ step' = "list"
          /\ UNCHANGED <<last, stream, grouped, pending, consuming, hand, done, listed, floor, purged,
                         drained, evicted>>
      BY <1>8 DEF PurgeSetId
    <2>2. last \in 0 .. last
      BY <1>0
    <2> QED BY <1>0, <2>1, <2>2, StreamTypesNext
  <1>9. CASE DrainList
    <2>1. /\ listed' = {e \in pending : Cardinality({f \in pending : f < e}) < Batch}
          /\ step' \in {"idle", "ack"} /\ purged' \in {purged, floor}
          /\ UNCHANGED <<last, stream, grouped, delivered, pending, consuming, hand, done, floor, moved,
                         drained, evicted>>
      BY <1>9 DEF DrainList
    <2>2. last \in Nat /\ pending \in SUBSET (1 .. last) /\ Batch \in Nat \ {0}
      BY <1>0
    <2>3. Cardinality(listed') <= Batch
      BY <2>1, <2>2, RoundFits
    <2>4. listed' \subseteq pending
      BY <2>1
    <2> QED BY <1>0, <2>1, <2>3, <2>4, StreamTypesNext
  <1>10. CASE DrainAck
    <2>1. /\ pending' = pending \ listed /\ drained' = drained \cup listed /\ listed' = {}
          /\ step' \in {"idle", "list"} /\ purged' \in {purged, floor}
          /\ UNCHANGED <<last, stream, grouped, delivered, consuming, hand, done, floor, moved, evicted>>
      BY <1>10 DEF DrainAck
    <2>2. Cardinality(listed') <= Batch
      BY <2>1, EmptyFits
    <2> QED BY <1>0, <2>1, <2>2, StreamTypesNext
  <1>11. CASE PurgeFails
    <2>1. /\ step' = "idle" /\ listed' = {}
          /\ UNCHANGED <<last, stream, grouped, delivered, pending, consuming, hand, done, floor, moved,
                         purged, drained, evicted>>
      BY <1>11 DEF PurgeFails
    <2>2. Cardinality(listed') <= Batch
      BY <2>1, EmptyFits
    <2> QED BY <1>0, <2>1, <2>2, StreamTypesNext
  <1> QED BY <1>1, <1>2, <1>3, <1>4, <1>5, <1>6, <1>7, <1>8, <1>9, <1>10, <1>11 DEF StreamStep

\* Run starts and stops the two halves of the bus together.
LEMMA BusTypeStep ==
    ASSUME TypeOK, [Next]_vars
    PROVE  TypeOK'
  <1>0. RequestTypeOK /\ StreamTypeOK
    BY DEF TypeOK
  <1>1. /\ runs \in 0 .. MaxRuns /\ purges \in 0 .. MaxPurges /\ bus \in {"down", "starting", "running"}
        /\ serving = (bus # "down") /\ consuming = (bus = "running")
        /\ MaxRuns \in Nat /\ MaxPurges \in Nat
    BY BusAssumption DEF TypeOK
  <1>2. CASE Run
    <2>1. /\ bus = "down" /\ bus' = "starting" /\ runs < MaxRuns /\ runs' = runs + 1 /\ purges' = purges
          /\ Serve /\ UNCHANGED streamVars
      BY <1>2 DEF Run
    <2>2. RequestTypeOK'
      BY <1>0, <2>1, RequestTypeStep
    <2>3. StreamTypeOK'
      BY <1>0, <2>1 DEF StreamTypeOK, streamVars
    <2>4. runs' \in 0 .. MaxRuns
      BY <1>1, <2>1
    <2>5. serving' = TRUE /\ consuming' = consuming
      BY <2>1, Zenon DEF Serve, streamVars
    <2>6. serving' = (bus' # "down") /\ consuming' = (bus' = "running")
      BY <1>1, <2>1, <2>5
    <2> QED BY <1>1, <2>1, <2>2, <2>3, <2>4, <2>6, Zenon DEF TypeOK
  <1>3. CASE RouterRuns
    <2>1. /\ bus = "starting" /\ bus' = "running" /\ Consume /\ UNCHANGED <<requestVars, runs, purges>>
      BY <1>3 DEF RouterRuns
    <2>2. RequestTypeOK'
      BY <1>0, <2>1, RequestTypeStep
    <2>3. StreamTypeOK'
      <3>1. /\ consuming' = TRUE /\ grouped' = TRUE
            /\ UNCHANGED <<last, stream, delivered, pending, hand, done, step, listed, floor, moved,
                           purged, drained, evicted>>
        BY <2>1 DEF Consume
      <3> QED BY <1>0, <3>1, Zenon DEF StreamTypeOK, Fetched
    <2>4. consuming' = TRUE /\ serving' = serving
      BY <2>1, Zenon DEF Consume, requestVars
    <2>5. serving' = (bus' # "down") /\ consuming' = (bus' = "running")
      BY <1>1, <2>1, <2>4
    <2> QED BY <1>1, <2>1, <2>2, <2>3, <2>5, Zenon DEF TypeOK
  <1>4. CASE Stop
    <2>1. bus' = "down" /\ Unserve /\ Abandon /\ UNCHANGED <<runs, purges>>
      BY <1>4 DEF Stop
    <2>2. RequestTypeOK'
      BY <1>0, <2>1, RequestTypeStep
    <2>3. StreamTypeOK'
      <3>1. /\ consuming' = FALSE /\ hand' = {}
            /\ UNCHANGED <<last, stream, grouped, delivered, pending, done, step, listed, floor, moved,
                           purged, drained, evicted>>
        BY <2>1 DEF Abandon
      <3>2. Cardinality(hand') <= Fetched
        BY <3>1, EmptyFits
      <3>3. {} \subseteq 1 .. last
        OBVIOUS
      <3> QED BY <1>0, <3>1, <3>2, <3>3, StreamTypes, StreamTypesNext
    <2>4. serving' = FALSE /\ consuming' = FALSE
      BY <2>1, Zenon DEF Unserve, Abandon
    <2>5. serving' = (bus' # "down") /\ consuming' = (bus' = "running")
      BY <2>1, <2>4
    <2> QED BY <1>1, <2>1, <2>2, <2>3, <2>5, Zenon DEF TypeOK
  <1>5. CASE Requesting
    <2>1. RequestStep /\ UNCHANGED <<streamVars, bus, runs, purges>>
      BY <1>5 DEF Requesting
    <2>2. RequestTypeOK'
      BY <1>0, <2>1, RequestTypeStep
    <2>3. StreamTypeOK'
      BY <1>0, <2>1 DEF StreamTypeOK, streamVars
    <2>4. serving' = serving /\ consuming' = consuming
      <3>1. serving' = serving
        BY <2>1, Zenon DEF RequestStep, Subscribe, Acknowledge, Send, SendFails, Receive, Timeout, Take, Reply,
               NoReply
      <3> QED BY <2>1, <3>1, Zenon DEF streamVars
    <2> QED BY <1>1, <2>1, <2>2, <2>3, <2>4, Zenon DEF TypeOK
  <1>6. CASE Streaming
    <2>1. StreamStep /\ UNCHANGED <<requestVars, bus, runs>> /\ purges' <= MaxPurges
          /\ purges' \in {purges, purges + 1}
      BY <1>6 DEF Streaming
    <2>2. RequestTypeOK'
      BY <1>0, <2>1, RequestTypeStep
    <2>3. StreamTypeOK'
      BY <1>0, <2>1, StreamTypeStep
    <2>4. serving' = serving /\ consuming' = consuming
      <3>1. consuming' = consuming
        BY <2>1, Zenon DEF StreamStep, Publish, Sweep, Deliver, Claim, Ack, PurgeTrim, PurgeGroups, PurgeSetId,
               DrainList, DrainAck, PurgeFails
      <3> QED BY <2>1, <3>1, Zenon DEF requestVars
    <2>5. purges' \in 0 .. MaxPurges
      BY <1>1, <2>1
    <2> QED BY <1>1, <2>1, <2>2, <2>3, <2>4, <2>5, Zenon DEF TypeOK
  <1>7. CASE UNCHANGED vars
    BY <1>7, Zenon DEF vars, requestVars, streamVars, TypeOK, RequestTypeOK, StreamTypeOK
  <1> QED BY <1>2, <1>3, <1>4, <1>5, <1>6, <1>7 DEF Next

\* Every variable keeps its type, and with it: buffers hold at most Slots
\* payloads (bus_pubsub.go), a round of the drain at most Batch ids, the
\* subscriber at most the two entries it has fetched, and the responder and the
\* consumer run only while Run does.
THEOREM BusTypeCorrect == Spec => []TypeOK
  <1>1. Init => TypeOK
    <2> SUFFICES ASSUME Init PROVE TypeOK
      OBVIOUS
    <2>1. RequestTypeOK
      <3>1. <<>> \in Seq(Calls) /\ Len(<<>>) = 0 /\ 0 <= Slots
        BY RequestAssumption
      <3>2. /\ phase = [c \in Calls |-> "idle"] /\ live = {} /\ inbox = [c \in Calls |-> <<>>]
            /\ got = [c \in Calls |-> NoCall] /\ serving = FALSE /\ queue = <<>> /\ busy = NoCall
            /\ handled = {} /\ replied = {}
        BY DEF Init, RequestInit
      <3>3. queue \in Seq(Calls) /\ Len(queue) <= Slots
        BY <3>1, <3>2
      <3>4. inbox \in [Calls -> Seq(Calls)] /\ \A c \in Calls : Len(inbox[c]) <= Slots
        BY <3>1, <3>2
      <3> QED BY <3>2, <3>3, <3>4 DEF RequestTypeOK
    <2>2. StreamTypeOK
      <3>1. /\ last = 0 /\ stream = {} /\ grouped = FALSE /\ delivered = 0 /\ pending = {}
            /\ consuming = FALSE /\ hand = {} /\ done = {} /\ step = "idle" /\ listed = {}
            /\ floor = 0 /\ moved = 0 /\ purged = 0 /\ drained = {} /\ evicted = {}
        BY DEF Init, StreamInit
      <3>2. last \in 0 .. MaxEntries /\ 0 \in 0 .. last
        BY <3>1, PurgeAssumption
      <3>3. Cardinality(hand) <= Fetched /\ Cardinality(listed) <= Batch
        BY <3>1, EmptyFits
      <3> QED BY <3>1, <3>2, <3>3, StreamTypes
    <2>3. serving = (bus # "down") /\ consuming = (bus = "running")
      BY DEF Init, RequestInit, StreamInit
    <2>4. runs \in 0 .. MaxRuns /\ purges \in 0 .. MaxPurges /\ bus \in {"down", "starting", "running"}
      BY BusAssumption DEF Init
    <2> QED BY <2>1, <2>2, <2>3, <2>4, Zenon DEF TypeOK
  <1>2. TypeOK /\ [Next]_vars => TypeOK'
    BY BusTypeStep
  <1> QED
    BY <1>1, <1>2, PTL DEF Spec
=============================================================================
