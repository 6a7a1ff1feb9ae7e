---------------------------- MODULE BusRequests ----------------------------
(***************************************************************************)
(* Request/reply on the event bus (shared/eventbus/bus_pubsub.go) over     *)
(* Redis Pub/Sub: callers that subscribe to a reply channel of their own,  *)
(* publish and wait, and one responder that takes requests one by one from *)
(* the buffer of its subscription.  Pub/Sub delivers at most once: to the  *)
(* subscriptions that are live, and while their buffers have room.         *)
(***************************************************************************)
EXTENDS Naturals, Sequences

CONSTANTS
    Calls,     \* calls of Request
    NoCall,    \* no call
    Supplied,  \* the correlation id each caller supplies, or NoId
    NoId,      \* "", an id is minted
    Slots      \* bound: payloads a subscription buffers, 128 in the code

ASSUME RequestAssumption == Slots \in Nat \ {0} /\ NoCall \notin Calls

VARIABLES
    phase,    \* of each call: "idle", "subscribing", "waiting", "answered", "failed"
    live,     \* the calls whose reply subscription Redis has registered
    inbox,    \* the replies buffered for each call
    got,      \* the reply each call returned
    serving,  \* the responder's subscription is live
    queue,    \* the requests buffered for the responder
    busy,     \* the request in dispatchRequest
    handled,  \* the requests the handler has seen
    replied   \* the requests whose reply was published

requestVars == <<phase, live, inbox, got, serving, queue, busy, handled, replied>>

RequestInit ==
    /\ phase = [c \in Calls |-> "idle"]
    /\ live = {}
    /\ inbox = [c \in Calls |-> <<>>]
    /\ got = [c \in Calls |-> NoCall]
    /\ serving = FALSE
    /\ queue = <<>>
    /\ busy = NoCall
    /\ handled = {} /\ replied = {}

\* Mutant of ReplyChannel: one channel for everybody.
OneChannel(c) == NoCall

\* ReplyChannel of the correlation id, which is minted when there is none.
ReplyChannel(c) == IF Supplied[c] = NoId THEN c ELSE Supplied[c]

-----------------------------------------------------------------------------
(* The caller.                                                              *)

\* The call returns; its subscription is closed, its buffer dropped.
Return(c, end) ==
    /\ phase' = [phase EXCEPT ![c] = end]
    /\ live' = live \ {c}
    /\ inbox' = [inbox EXCEPT ![c] = <<>>]

\* Request up to Subscribe.
Subscribe(c) ==
    /\ phase[c] = "idle"
    /\ phase' = [phase EXCEPT ![c] = "subscribing"]
    /\ UNCHANGED <<live, inbox, got, serving, queue, busy, handled, replied>>

\* Redis registers the subscription and acknowledges it.
Acknowledge(c) ==
    /\ phase[c] \in {"subscribing", "waiting"} /\ c \notin live
    /\ live' = live \cup {c}
    /\ UNCHANGED <<phase, inbox, got, serving, queue, busy, handled, replied>>

\* Mutant of Offer: the buffer has no limit.
OfferUnbounded(c) == queue' = IF serving THEN Append(queue, c) ELSE queue

\* A request arrives at the responder, or is dropped; it arrives twice when the
\* Redis client sends it again over a new connection.
Offer(c) ==
    \E n \in 1 .. 2 :
        LET room == IF serving THEN Slots - Len(queue) ELSE 0
        IN queue' = queue \o [i \in 1 .. (IF n < room THEN n ELSE room) |-> c]

\* Mutant of Send: the acknowledgement is not waited for.
SendAtOnce(c) ==
    /\ phase[c] = "subscribing"
    /\ phase' = [phase EXCEPT ![c] = "waiting"]
    /\ Offer(c)
    /\ UNCHANGED <<live, inbox, got, serving, busy, handled, replied>>

\* Receive has returned the acknowledgement; the request is published.
Send(c) ==
    /\ phase[c] = "subscribing" /\ c \in live
    /\ phase' = [phase EXCEPT ![c] = "waiting"]
    /\ Offer(c)
    /\ UNCHANGED <<live, inbox, got, serving, busy, handled, replied>>

\* Subscribing, or publishing, fails or outlasts the caller's context.  A
\* publish that fails may have been delivered.
SendFails(c) ==
    /\ phase[c] = "subscribing"
    /\ Return(c, "failed")
    /\ \/ UNCHANGED queue
       \/ c \in live /\ Offer(c)
    /\ UNCHANGED <<got, serving, busy, handled, replied>>

\* The first reply on the channel is what Request returns.
Receive(c) ==
    /\ phase[c] = "waiting" /\ inbox[c] # <<>>
    /\ Return(c, "answered")
    /\ got' = [got EXCEPT ![c] = Head(inbox[c])]
    /\ UNCHANGED <<serving, queue, busy, handled, replied>>

\* The caller's context is done, or the subscription was closed under it.
Timeout(c) ==
    /\ phase[c] = "waiting"
    /\ Return(c, "failed")
    /\ UNCHANGED <<got, serving, queue, busy, handled, replied>>

-----------------------------------------------------------------------------
(* The responder.                                                           *)

\* consumeRequest takes the next request; dispatchRequest calls the handler.
Take ==
    /\ serving /\ busy = NoCall /\ queue # <<>>
    /\ busy' = Head(queue)
    /\ queue' = Tail(queue)
    /\ handled' = handled \cup {Head(queue)}
    /\ UNCHANGED <<phase, live, inbox, got, serving, replied>>

\* The reply goes to every live subscription of the request's reply channel.  A
\* caller's connection does not break while it waits.
Reply ==
    /\ busy # NoCall
    /\ inbox' = [c \in Calls |-> IF c \in live /\ ReplyChannel(c) = ReplyChannel(busy)
                                     /\ Len(inbox[c]) < Slots
                                 THEN Append(inbox[c], busy) ELSE inbox[c]]
    /\ replied' = replied \cup {busy}
    /\ busy' = NoCall
    /\ UNCHANGED <<phase, live, got, serving, queue, handled>>

\* Nothing to decode, a handler error or no payload, or the reply is not
\* published: no reply.
NoReply ==
    /\ busy # NoCall
    /\ busy' = NoCall
    /\ UNCHANGED <<phase, live, inbox, got, serving, queue, handled, replied>>

RequestStep ==
    \/ \E c \in Calls : Subscribe(c) \/ Acknowledge(c) \/ Send(c) \/ SendFails(c) \/ Receive(c) \/ Timeout(c)
    \/ Take \/ Reply \/ NoReply

\* startPubSub opens the responder's subscription, and its end drops what is
\* buffered; a reply cannot be published once the context is cancelled.
Serve == /\ serving' = TRUE
         /\ UNCHANGED <<phase, live, inbox, got, queue, busy, handled, replied>>
Unserve == /\ serving' = FALSE
           /\ queue' = <<>>
           /\ busy' = NoCall
           /\ UNCHANGED <<phase, live, inbox, got, handled, replied>>

-----------------------------------------------------------------------------
RequestTypeOK ==
    /\ phase \in [Calls -> {"idle", "subscribing", "waiting", "answered", "failed"}]
    /\ live \subseteq Calls /\ handled \subseteq Calls /\ replied \subseteq Calls
    /\ inbox \in [Calls -> Seq(Calls)] /\ \A c \in Calls : Len(inbox[c]) <= Slots
    /\ got \in [Calls -> Calls \cup {NoCall}]
    /\ queue \in Seq(Calls) /\ Len(queue) <= Slots
    /\ busy \in Calls \cup {NoCall}
    /\ serving \in BOOLEAN

\* A reply is not missed (bus_pubsub.go:149-152): once the responder has
\* published the reply to a request, the caller that still waits has it, as
\* long as its subscription's connection lasts.
AnswersReachCallers ==
    \A c \in replied : phase[c] = "waiting" => \E i \in DOMAIN inbox[c] : inbox[c][i] = c

\* Callers' correlation ids are their own.
ChannelsDistinct == \A c, d \in Calls : ReplyChannel(c) = ReplyChannel(d) => c = d

\* What Request promises its callers, by module Exchange.
Promise == INSTANCE Exchange WITH
    outcome <- [c \in Calls |-> IF phase[c] \in {"subscribing", "waiting"} THEN "asked" ELSE phase[c]],
    answer <- got

\* Request implements the exchange: nobody gets another call's reply, whatever
\* is late, dropped or sent twice (bus_pubsub.go:40-43), an answer was given by
\* the handler, and every call ends.
RequestRefinesExchange == Promise!Spec

\* Its safety part: the steps of the bus are steps of the exchange.
RequestsFollowExchange == Promise!Init /\ [][Promise!Next]_(Promise!vars)

-----------------------------------------------------------------------------
(* A statement of the source that the model refutes when callers supply the *)
(* same correlation id.                                                     *)

\* bus_pubsub.go:149-152: concurrent callers do not steal each other's replies.
RepliesNotStolen == \A c \in Calls : got[c] \in {c, NoCall}
=============================================================================
