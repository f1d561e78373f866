------------------------------ MODULE EventBus ------------------------------
(***************************************************************************)
(* The event bus of a session and the event streams that drain it          *)
(* (SessionEventBus, _Subscriber and Subscription in session.py, and the   *)
(* SSE handler routes.get_events).                                         *)
(*                                                                         *)
(* Events are numbered in the order they are published; 0 is the notice    *)
(* that events were dropped.  A stream is in one of these places:          *)
(*    off      there is no handler                                         *)
(*    prepare  subscribed, awaits that the response headers are sent       *)
(*    wait     awaits the next event, or the keepalive timeout             *)
(*    write    awaits that what it took is written                         *)
(***************************************************************************)
EXTENDS Naturals, Sequences

CONSTANTS
    Streams,   \* event streams that can be open at once
    QueueMax,  \* queue_max
    MaxEvents  \* bound on published events

ASSUME BusOK ==
    /\ QueueMax \in Nat
    /\ QueueMax >= 2   \* every bus in the program takes the default, 256
    /\ MaxEvents \in Nat

VARIABLES
    published, \* how many events were published
    subs,      \* the registered subscriptions
    queue,     \* the queue of each
    flagged,   \* those with _overflow_flagged: in a burst of overflows
    at,        \* the place of each stream
    gone,      \* the client of the stream has left
    taken      \* the last event each stream took from its queue

vars == <<published, subs, queue, flagged, at, gone, taken>>

Notice == 0
Event == 1 .. MaxEvents
Places == {"off", "prepare", "wait", "write"}

(* Slips the properties are tried against, each ahead of the definition it *)
(* stands for: the newest message is dropped; an overflowing event jumps   *)
(* the queue; there is no keepalive.                                       *)
DropNewest(q) == IF q = <<>> THEN q ELSE SubSeq(q, 1, Len(q) - 1)

(* asyncio.Queue.                                                          *)
Full(q) == Len(q) >= QueueMax
Put(q, e) == IF Full(q) THEN q ELSE Append(q, e)
DropOldest(q) == IF q = <<>> THEN q ELSE Tail(q)

(* _Subscriber.publish: the first overflow of a burst makes room for a     *)
(* notice as well, the later ones only for the event.                      *)
MakeRoom(q, flag) ==
    IF ~Full(q) THEN q
    ELSE IF flag THEN DropOldest(q)
    ELSE Put(DropOldest(DropOldest(q)), Notice)

AfterPublishFront(q, flag, e) ==
    IF Full(q) THEN <<e>> \o DropOldest(q) ELSE Put(q, e)

AfterPublish(q, flag, e) == Put(MakeRoom(q, flag), e)

Init ==
    /\ published = 0
    /\ subs = {}
    /\ queue = [s \in Streams |-> <<>>]
    /\ flagged = {}
    /\ at = [s \in Streams |-> "off"]
    /\ gone = [s \in Streams |-> FALSE]
    /\ taken = [s \in Streams |-> 0]

-----------------------------------------------------------------------------
(* SessionEventBus.publish: in one go, to every subscriber.  A publish     *)
(* that finds room ends the burst.                                         *)
Publish ==
    /\ published < MaxEvents
    /\ published' = published + 1
    /\ queue' = [s \in Streams |->
                    IF s \in subs
                    THEN AfterPublish(queue[s], s \in flagged, published + 1)
                    ELSE queue[s]]
    /\ flagged' = {s \in subs : Full(queue[s])}
    /\ UNCHANGED <<subs, at, gone, taken>>

(* A client connects.  Opening its session took a while: it may have left. *)
Subscribe(s) ==
    /\ at[s] = "off"
    /\ s \notin subs
    /\ subs' = subs \union {s}
    /\ queue' = [queue EXCEPT ![s] = <<>>]
    /\ flagged' = flagged \ {s}
    /\ taken' = [taken EXCEPT ![s] = 0]
    /\ at' = [at EXCEPT ![s] = "prepare"]
    /\ gone' \in {[gone EXCEPT ![s] = left] : left \in BOOLEAN}
    /\ UNCHANGED published

Leave(s) ==
    /\ at[s] # "off"
    /\ ~gone[s]
    /\ gone' = [gone EXCEPT ![s] = TRUE]
    /\ UNCHANGED <<published, subs, queue, flagged, at, taken>>

Prepared(s) ==
    /\ at[s] = "prepare"
    /\ at' = [at EXCEPT ![s] = "wait"]
    /\ UNCHANGED <<published, subs, queue, flagged, gone, taken>>

(* The headers cannot be sent: the handler ends before its `try`.          *)
PrepareFails(s) ==
    /\ at[s] = "prepare"
    /\ gone[s]
    /\ at' = [at EXCEPT ![s] = "off"]
    /\ UNCHANGED <<published, subs, queue, flagged, gone, taken>>

(* next_event: the oldest event, or a keepalive after SSE_KEEPALIVE_S.     *)
Take(s) ==
    /\ at[s] = "wait"
    /\ queue[s] # <<>>
    /\ queue' = [queue EXCEPT ![s] = Tail(@)]
    /\ taken' = [taken EXCEPT ![s] = IF Head(queue[s]) = Notice THEN @ ELSE Head(queue[s])]
    /\ at' = [at EXCEPT ![s] = "write"]
    /\ UNCHANGED <<published, subs, flagged, gone>>

NoKeepAlive(s) == FALSE

KeepAlive(s) ==
    /\ at[s] = "wait"
    /\ at' = [at EXCEPT ![s] = "write"]
    /\ UNCHANGED <<published, subs, queue, flagged, gone, taken>>

Written(s) ==
    /\ at[s] = "write"
    /\ at' = [at EXCEPT ![s] = "wait"]
    /\ UNCHANGED <<published, subs, queue, flagged, gone, taken>>

(* The client is gone: the handler closes the subscription and ends.       *)
WriteFails(s) ==
    /\ at[s] = "write"
    /\ gone[s]
    /\ at' = [at EXCEPT ![s] = "off"]
    /\ subs' = subs \ {s}
    /\ UNCHANGED <<published, queue, flagged, gone, taken>>

Stream(s) ==
    \/ Prepared(s)
    \/ PrepareFails(s)
    \/ Take(s)
    \/ KeepAlive(s)
    \/ Written(s)
    \/ WriteFails(s)

Next ==
    \/ Publish
    \/ \E s \in Streams : Subscribe(s) \/ Leave(s) \/ Stream(s)

Spec == Init /\ [][Next]_vars

(* Awaited calls return, the timeout fires, and of the writes to a client  *)
(* that is gone one fails.                                                 *)
Fairness == \A s \in Streams : WF_vars(Stream(s)) /\ SF_vars(WriteFails(s))

FairSpec == Spec /\ Fairness
-----------------------------------------------------------------------------
(* The state is well typed, and no queue outgrows its bound.               *)
TypeOK ==
    /\ published \in 0 .. MaxEvents
    /\ subs \subseteq Streams
    /\ queue \in [Streams -> Seq(Event \union {Notice})]
    /\ \A s \in Streams : Len(queue[s]) <= QueueMax
    /\ flagged \subseteq Streams
    /\ at \in [Streams -> Places]
    /\ gone \in [Streams -> BOOLEAN]
    /\ taken \in [Streams -> 0 .. MaxEvents]

(* A stream gets every event at most once and in the order of publication, *)
(* whatever was dropped.                                                   *)
InOrder ==
    \A s \in Streams : \A j \in 1 .. Len(queue[s]) :
        queue[s][j] # Notice =>
            /\ taken[s] < queue[s][j]
            /\ \A i \in 1 .. j - 1 : queue[s][i] < queue[s][j]

(* Only the oldest events are dropped: behind an event that is kept,       *)
(* everything published later is kept, the newest event last.              *)
NewerKept ==
    \A s \in subs : \A i \in 1 .. Len(queue[s]) :
        queue[s][i] # Notice =>
            \A n \in queue[s][i] .. published :
                \E j \in i .. Len(queue[s]) : queue[s][j] = n

NewestLast ==
    \A s \in subs : queue[s] # <<>> => queue[s][Len(queue[s])] = published

(* A stream whose client has gone gives up its subscription: with a quiet  *)
(* bus it is the keepalive that finds out.                                 *)
GoneStreamCloses ==
    \A s \in Streams :
        at[s] \in {"wait", "write"} /\ gone[s] ~> s \notin subs
=============================================================================
