---------------------------- MODULE StreamPurge ----------------------------
(***************************************************************************)
(* One durable stream and its consumer group while an operator purges it   *)
(* (shared/eventbus/purge.go): the trim, the fast-forward and the rounds   *)
(* of the drain are separate Redis calls, between which producers append,  *)
(* the consumer reads, claims and acknowledges, and the retention sweep    *)
(* (sweeper.go) trims.  Entries are numbered in the order of their ids.    *)
(***************************************************************************)
EXTENDS Naturals, FiniteSetsExt

CONSTANTS
    Cap,         \* bound: the approximate MAXLEN, 10000 in the code
    Batch,       \* bound: pending ids per round of the drain, 500 in the code
    MaxEntries   \* bound: entries appended

ASSUME PurgeAssumption == Cap \in Nat \ {0} /\ Batch \in Nat \ {0} /\ MaxEntries \in Nat

VARIABLES
    last,       \* the newest entry ever appended
    stream,     \* the entries on the stream
    grouped,    \* the consumer group exists
    delivered,  \* the group's last delivered entry
    pending,    \* the group's pending entries
    consuming,  \* the consumer is running
    hand,       \* the entries the consumer has fetched and not acknowledged
    done,       \* the entries the consumer has acknowledged
    step,       \* of PurgeStream: "idle", "groups", "setid", "list" or "ack"
    listed,     \* the pending entries of the drain's current round
    floor,      \* history: last, when a purge last trimmed
    moved,      \* history: last, when a purge last moved the group
    purged,     \* history: floor of the last purge that cleared the group
    drained,    \* history: what the drains acknowledged
    evicted     \* history: what MAXLEN and the sweep dropped

streamVars == <<last, stream, grouped, delivered, pending, consuming, hand, done, step, listed,
                floor, moved, purged, drained, evicted>>

StreamInit ==
    /\ last = 0 /\ stream = {}
    /\ grouped = FALSE /\ delivered = 0 /\ pending = {}
    /\ consuming = FALSE /\ hand = {} /\ done = {}
    /\ step = "idle" /\ listed = {}
    /\ floor = 0 /\ moved = 0 /\ purged = 0
    /\ drained = {} /\ evicted = {}

\* What an approximate trim at entry n leaves: it drops whole nodes from the
\* oldest on, so any part of the entries up to n, or nothing.
Trimmed(entries, n) == {{e \in entries : e > k} : k \in 0 .. n}

-----------------------------------------------------------------------------
(* Producers, the consumer and the sweep.                                   *)

\* Bus.Publish: XADD with an approximate MAXLEN.
Publish ==
    /\ last < MaxEntries
    /\ last' = last + 1
    /\ LET all == stream \cup {last + 1}
       IN \E kept \in Trimmed(all, last) :
            /\ kept = all \/ Cardinality(kept) >= Cap
            /\ stream' = kept
            /\ evicted' = evicted \cup (all \ kept)
    /\ UNCHANGED <<grouped, delivered, pending, consuming, hand, done, step, listed, floor, moved, purged, drained>>

\* SweepOnce on this stream: entries older than the window go.
Sweep ==
    /\ \E kept \in Trimmed(stream, last) \ {stream} :
         /\ stream' = kept
         /\ evicted' = evicted \cup (stream \ kept)
    /\ UNCHANGED <<last, grouped, delivered, pending, consuming, hand, done, step, listed, floor, moved, purged, drained>>

\* The reader and the claimer of the subscriber hold one entry each, and the
\* handler works on a third.
Fetched == 3

Undelivered == {e \in stream : e > delivered}

\* Mutant of Deliver: the entry counts as acknowledged once it is read.
DeliverNoAck ==
    /\ consuming /\ Cardinality(hand) < Fetched /\ Undelivered # {}
    /\ LET e == Min(Undelivered)
       IN hand' = hand \cup {e} /\ delivered' = e
    /\ UNCHANGED <<last, stream, grouped, pending, consuming, done, step, listed, floor, moved, purged, drained, evicted>>

\* XREADGROUP > of the subscriber that RedisStreamTransport builds.
Deliver ==
    /\ consuming /\ Cardinality(hand) < Fetched /\ Undelivered # {}
    /\ LET e == Min(Undelivered)
       IN hand' = hand \cup {e} /\ delivered' = e /\ pending' = pending \cup {e}
    /\ UNCHANGED <<last, stream, grouped, consuming, done, step, listed, floor, moved, purged, drained, evicted>>

\* Its claim of an entry idle for too long: fetched again, or, when the entry
\* was trimmed, dropped from the pending list.
Claim ==
    /\ consuming /\ Cardinality(hand) < Fetched
    /\ \E e \in pending \ hand :
         IF e \in stream THEN hand' = hand \cup {e} /\ UNCHANGED pending
                        ELSE pending' = pending \ {e} /\ UNCHANGED hand
    /\ UNCHANGED <<last, stream, grouped, delivered, consuming, done, step, listed, floor, moved, purged, drained, evicted>>

\* The handler has succeeded, or dropAfterRetry has given up: XACK.
Ack ==
    /\ \E e \in hand : /\ hand' = hand \ {e}
                       /\ done' = done \cup {e}
                       /\ pending' = pending \ {e}
    /\ UNCHANGED <<last, stream, grouped, delivered, consuming, step, listed, floor, moved, purged, drained, evicted>>

\* Subscribing creates the group at the start of the stream, once.
Consume ==
    /\ consuming' = TRUE /\ grouped' = TRUE
    /\ UNCHANGED <<last, stream, delivered, pending, hand, done, step, listed, floor, moved, purged, drained, evicted>>

\* The consumer's process stops or dies with the entry in its hand.
Abandon ==
    /\ consuming' = FALSE /\ hand' = {}
    /\ UNCHANGED <<last, stream, grouped, delivered, pending, done, step, listed, floor, moved, purged, drained, evicted>>

-----------------------------------------------------------------------------
(* PurgeStream, one action per Redis call.                                  *)

\* XTRIM MINID ~ now.
PurgeTrim ==
    /\ step = "idle"
    /\ stream' \in Trimmed(stream, last)
    /\ floor' = last
    /\ step' = "groups"
    /\ UNCHANGED <<last, grouped, delivered, pending, consuming, hand, done, listed, moved, purged, drained, evicted>>

\* XINFO GROUPS: without a group there is nothing more to do.
PurgeGroups ==
    /\ step = "groups"
    /\ step' = IF grouped THEN "setid" ELSE "idle"
    /\ UNCHANGED <<last, stream, grouped, delivered, pending, consuming, hand, done, listed, floor, moved, purged, drained, evicted>>

\* Mutant of PurgeSetId: the group is drained and not moved.
PurgeNoSetId ==
    /\ step = "setid"
    /\ moved' = last
    /\ step' = "list"
    /\ UNCHANGED <<last, stream, grouped, delivered, pending, consuming, hand, done, listed, floor, purged, drained, evicted>>

\* XGROUP SETID $: past the newest entry there is now.
PurgeSetId ==
    /\ step = "setid"
    /\ delivered' = last
    /\ moved' = last
    /\ step' = "list"
    /\ UNCHANGED <<last, stream, grouped, pending, consuming, hand, done, listed, floor, purged, drained, evicted>>

\* XPENDING - + Batch: the oldest pending ids; the group is clear if none.
DrainList ==
    /\ step = "list"
    /\ listed' = {e \in pending : Cardinality({f \in pending : f < e}) < Batch}
    /\ IF listed' = {} THEN step' = "idle" /\ purged' = floor
                       ELSE step' = "ack" /\ UNCHANGED purged
    /\ UNCHANGED <<last, stream, grouped, delivered, pending, consuming, hand, done, floor, moved, drained, evicted>>

\* XACK of the round, the last one unless it was full.
DrainAck ==
    /\ step = "ack"
    /\ pending' = pending \ listed
    /\ drained' = drained \cup listed
    /\ listed' = {}
    /\ IF Cardinality(listed) < Batch THEN step' = "idle" /\ purged' = floor
                                      ELSE step' = "list" /\ UNCHANGED purged
    /\ UNCHANGED <<last, stream, grouped, delivered, consuming, hand, done, floor, moved, evicted>>

\* A Redis call fails, or the operator's request is gone.
PurgeFails ==
    /\ step # "idle"
    /\ step' = "idle"
    /\ listed' = {}
    /\ UNCHANGED <<last, stream, grouped, delivered, pending, consuming, hand, done, floor, moved, purged, drained, evicted>>

StreamStep ==
    \/ Publish \/ Sweep \/ Deliver \/ Claim \/ Ack
    \/ PurgeTrim \/ PurgeGroups \/ PurgeSetId \/ DrainList \/ DrainAck \/ PurgeFails

-----------------------------------------------------------------------------
StreamTypeOK ==
    /\ last \in 0 .. MaxEntries
    /\ \A s \in {stream, pending, hand, done, listed, drained, evicted} : s \subseteq 1 .. last
    /\ \A n \in {delivered, floor, moved, purged} : n \in 0 .. last
    /\ grouped \in BOOLEAN /\ consuming \in BOOLEAN
    /\ step \in {"idle", "groups", "setid", "list", "ack"}
    /\ Cardinality(hand) <= Fetched /\ Cardinality(listed) <= Batch

\* "A consumer resumes with nothing pending and no redelivery" (purge.go:28):
\* once a purge has cleared the group, none of the entries that were on the
\* stream when it began reaches the consumer, although the approximate trim
\* left them there, the purge ran beside the consumer and earlier ones failed
\* halfway.
PurgedStaysPurged == [][\A e \in hand' \ hand : e > purged]_streamVars

\* Purging loses no more than it has to: an entry appended after the group was
\* moved is handled, in the consumer's hand, pending or still to be read,
\* unless retention dropped it or a drain found it pending (purge.go:63-68).
NewEntriesSurvive ==
    \A e \in 1 .. last :
        e > floor /\ e > moved => e \in done \cup hand \cup pending \cup Undelivered \cup evicted \cup drained

-----------------------------------------------------------------------------
(* Statements of the source that the model refutes.                         *)

\* purge.go:41-42: the trim "drops all of them".  It is approximate: what it
\* leaves is read until the group is moved, and by the first consumer of a
\* stream that was purged before it had a group.
TrimDropsAll == [][\A e \in hand' \ hand : e > floor]_streamVars

\* purge.go:74-75: what drainPending acknowledges "no longer exist[s] on the
\* stream".  The trim may have left them, and entries delivered since the group
\* was moved are acknowledged as well.
DrainOnlyDangling == drained \cap stream = {}

\* retention.go:14-15: a consumer can rely on MAXLEN entries, or the hours,
\* "whichever is larger".  MAXLEN and the sweep each drop on their own.
LargerOfTheTwo == Cardinality(evicted) > 0 => Cardinality(stream) >= Cap
=============================================================================
