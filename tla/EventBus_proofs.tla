--------------------------- MODULE EventBus_proofs ---------------------------
(***************************************************************************)
(* The event bus keeps the order of events and drops only the oldest ones, *)
(* for every number of streams and events and every queue bound from 2 up. *)
(***************************************************************************)
EXTENDS EventBus, SequenceTheorems, TLAPS

Msg == Event \union {Notice}

(* What is queued or taken has been published.                             *)
Known ==
    \A s \in Streams :
        /\ taken[s] <= published
        /\ \A i \in 1 .. Len(queue[s]) : queue[s][i] <= published

IInv ==
    /\ TypeOK
    /\ Known
    /\ InOrder
    /\ NewerKept
    /\ NewestLast

(* Making room in a queue drops some of its oldest messages and possibly   *)
(* appends a notice; afterwards there is room (_Subscriber.publish).       *)
LEMMA RoomMade ==
    ASSUME NEW q \in Seq(Msg), Len(q) <= QueueMax, NEW flag \in BOOLEAN
    PROVE  /\ MakeRoom(q, flag) \in Seq(Msg)
           /\ Len(MakeRoom(q, flag)) < QueueMax
           /\ \E k \in 0 .. 2 :
                 /\ \A i \in 1 .. Len(MakeRoom(q, flag)) :
                       \/ i + k \in 1 .. Len(q) /\ MakeRoom(q, flag)[i] = q[i + k]
                       \/ MakeRoom(q, flag)[i] = Notice
                 /\ \A j \in 1 .. Len(q) :
                       j > k => /\ j - k \in 1 .. Len(MakeRoom(q, flag))
                                /\ MakeRoom(q, flag)[j - k] = q[j]
<1> DEFINE m == MakeRoom(q, flag)
<1>0. Notice \in Msg
  BY DEF Msg
<1>1. CASE ~Full(q)
  <2>1. m = q
    BY <1>1 DEF MakeRoom
  <2>2. Len(q) < QueueMax
    BY <1>1, BusOK DEF Full
  <2> QED
    BY <2>1, <2>2
<1>2. CASE Full(q) /\ flag
  <2>1. Len(q) = QueueMax /\ q # <<>>
    BY <1>2, BusOK DEF Full
  <2>2. m = Tail(q)
    BY <1>2, <2>1 DEF MakeRoom, DropOldest
  <2>3. m \in Seq(Msg) /\ Len(m) = Len(q) - 1
    BY <2>1, <2>2
  <2>4. \A i \in 1 .. Len(m) : m[i] = q[i + 1]
    BY <2>1, <2>2
  <2> QED
    BY <2>1, <2>3, <2>4, BusOK
<1>3. CASE Full(q) /\ ~flag
  <2>0. Len(q) = QueueMax /\ q # <<>>
    BY <1>3, BusOK DEF Full
  <2>a. Tail(q) \in Seq(Msg) /\ Len(Tail(q)) = Len(q) - 1
        /\ \A i \in 1 .. Len(q) - 1 : Tail(q)[i] = q[i + 1]
    BY <2>0
  <2>1. Len(q) = QueueMax /\ q # <<>> /\ Tail(q) # <<>>
    <3>1. Len(Tail(q)) >= 1
      BY <2>0, <2>a, BusOK
    <3> DEFINE tail == Tail(q)
    <3>a. tail \in Seq(Msg) /\ Len(tail) # 0
      BY <2>a, <3>1
    <3> HIDE DEF tail
    <3>b. tail # <<>>
      BY <3>a, EmptySeq
    <3>2. Tail(q) # <<>>
      BY <3>b DEF tail
    <3> QED
      BY <2>0, <3>2
  <2> DEFINE rest == Tail(Tail(q))
  <2>2. rest \in Seq(Msg) /\ Len(rest) = Len(q) - 2
    BY <2>1, <2>a
  <2>3. \A i \in 1 .. Len(rest) : rest[i] = q[i + 2]
    BY <2>1, <2>2, <2>a
  <2>b. DropOldest(DropOldest(q)) = rest
    BY <2>1 DEF DropOldest
  <2>c. m = Put(rest, Notice)
    BY <1>3, <2>b DEF MakeRoom
  <2>4. m = Append(rest, Notice)
    BY <2>1, <2>2, <2>c, BusOK DEF Put, Full
  <2> HIDE DEF rest, m
  <2>5. m \in Seq(Msg) /\ Len(m) = Len(q) - 1
    BY <1>0, <2>2, <2>4
  <2>6. m[Len(m)] = Notice /\ \A i \in 1 .. Len(rest) : m[i] = rest[i]
    BY <2>2, <2>4
  <2> QED
    BY <2>1, <2>2, <2>3, <2>5, <2>6, BusOK DEF m
<1> QED
  BY <1>1, <1>2, <1>3

(* The initial state satisfies the invariant.                              *)
LEMMA InitInv == Init => IInv
<1> SUFFICES ASSUME Init PROVE IInv
  OBVIOUS
<1>1. TypeOK
  BY BusOK DEF Init, TypeOK, Places
<1>2. Known
  <2> SUFFICES ASSUME NEW s \in Streams
               PROVE  /\ taken[s] <= published
                      /\ \A i \in 1 .. Len(queue[s]) : queue[s][i] <= published
    BY DEF Known
  <2>1. taken[s] = 0 /\ published = 0 /\ queue[s] = <<>>
    BY DEF Init
  <2> QED
    BY <2>1
<1>3. InOrder /\ NewerKept /\ NewestLast
  BY DEF Init, InOrder, NewerKept, NewestLast
<1> QED
  BY <1>1, <1>2, <1>3 DEF IInv

(* A publish preserves it: every subscriber's queue loses some of its      *)
(* oldest messages, may gain a notice, and ends with the new event.        *)
LEMMA PublishInv == IInv /\ Publish => IInv'
<1> SUFFICES ASSUME IInv, Publish PROVE IInv'
  OBVIOUS
<1> USE BusOK
<1>0. /\ published \in 0 .. MaxEvents /\ published' = published + 1
      /\ published' \in 0 .. MaxEvents
      /\ published' \in Msg /\ published' # Notice
      /\ subs' = subs /\ subs \subseteq Streams /\ taken' = taken
      /\ taken \in [Streams -> 0 .. MaxEvents]
  BY DEF IInv, TypeOK, Publish, Msg, Event, Notice
<1>1. \A s \in Streams : queue[s] \in Seq(Msg) /\ Len(queue[s]) <= QueueMax
  BY DEF IInv, TypeOK, Msg
<1>2. \A s \in Streams : s \notin subs => queue'[s] = queue[s]
  BY DEF Publish
<1>3. ASSUME NEW s \in subs
      PROVE  /\ queue'[s] \in Seq(Msg) /\ Len(queue'[s]) \in 1 .. QueueMax
             /\ queue'[s][Len(queue'[s])] = published'
             /\ \E k \in 0 .. 2 :
                   /\ \A i \in 1 .. Len(queue'[s]) - 1 :
                         \/ i + k \in 1 .. Len(queue[s]) /\ queue'[s][i] = queue[s][i + k]
                         \/ queue'[s][i] = Notice
                   /\ \A j \in 1 .. Len(queue[s]) :
                         j > k => /\ j - k \in 1 .. Len(queue'[s]) - 1
                                  /\ queue'[s][j - k] = queue[s][j]
  <2> DEFINE m == MakeRoom(queue[s], s \in flagged)
  <2>0. s \in Streams
    BY <1>0
  <2>1. /\ m \in Seq(Msg) /\ Len(m) < QueueMax
        /\ \E k \in 0 .. 2 :
              /\ \A i \in 1 .. Len(m) :
                    \/ i + k \in 1 .. Len(queue[s]) /\ m[i] = queue[s][i + k]
                    \/ m[i] = Notice
              /\ \A j \in 1 .. Len(queue[s]) :
                    j > k => j - k \in 1 .. Len(m) /\ m[j - k] = queue[s][j]
    <3>1. (s \in flagged) \in BOOLEAN
      OBVIOUS
    <3> QED
      BY <1>1, <2>0, <3>1, RoomMade, Zenon
  <2>2. queue'[s] = Put(m, published')
    BY <1>0, <2>0 DEF Publish, AfterPublish
  <2> HIDE DEF m
  <2>3. queue'[s] = Append(m, published')
    BY <2>1, <2>2 DEF Put, Full
  <2>4. /\ queue'[s] \in Seq(Msg) /\ Len(queue'[s]) = Len(m) + 1
        /\ queue'[s][Len(m) + 1] = published'
        /\ \A i \in 1 .. Len(m) : queue'[s][i] = m[i]
    BY <1>0, <2>1, <2>3
  <2>5. Len(queue'[s]) \in 1 .. QueueMax /\ queue'[s][Len(queue'[s])] = published'
    BY <2>1, <2>4
  <2>6. PICK k \in 0 .. 2 :
           /\ \A i \in 1 .. Len(m) :
                 \/ i + k \in 1 .. Len(queue[s]) /\ m[i] = queue[s][i + k]
                 \/ m[i] = Notice
           /\ \A j \in 1 .. Len(queue[s]) :
                 j > k => j - k \in 1 .. Len(m) /\ m[j - k] = queue[s][j]
    BY <2>1
  <2>7. Len(queue'[s]) - 1 = Len(m)
    BY <2>1, <2>4
  <2>8. \A i \in 1 .. Len(queue'[s]) - 1 :
           \/ i + k \in 1 .. Len(queue[s]) /\ queue'[s][i] = queue[s][i + k]
           \/ queue'[s][i] = Notice
    BY <2>4, <2>6, <2>7
  <2>9. \A j \in 1 .. Len(queue[s]) :
           j > k => /\ j - k \in 1 .. Len(queue'[s]) - 1
                    /\ queue'[s][j - k] = queue[s][j]
    BY <2>4, <2>6, <2>7
  <2> QED
    BY <2>4, <2>5, <2>8, <2>9
<1>4. TypeOK'
  <2>1. queue' \in [Streams -> Seq(Msg)] /\ \A s \in Streams : Len(queue'[s]) <= QueueMax
    <3>1. queue' = [s \in Streams |-> queue'[s]]
      BY DEF Publish
    <3>2. \A s \in Streams : queue'[s] \in Seq(Msg) /\ Len(queue'[s]) <= QueueMax
      BY <1>1, <1>2, <1>3
    <3> QED
      BY <3>1, <3>2
  <2>2. flagged' \subseteq Streams
    BY <1>0 DEF Publish
  <2>3. at' = at /\ gone' = gone
    BY DEF Publish
  <2> QED
    BY <1>0, <2>1, <2>2, <2>3 DEF IInv, TypeOK, Msg
<1>5. Known'
  <2> SUFFICES ASSUME NEW s \in Streams
               PROVE  /\ taken[s] <= published'
                      /\ \A i \in 1 .. Len(queue'[s]) : queue'[s][i] <= published'
    BY <1>0 DEF Known
  <2>1. taken[s] <= published /\ \A i \in 1 .. Len(queue[s]) : queue[s][i] <= published
    BY DEF IInv, Known
  <2>2. \A i \in 1 .. Len(queue[s]) : queue[s][i] \in Nat
    BY <1>1 DEF Msg, Event, Notice
  <2>3. CASE s \in subs
    <3>1. ASSUME NEW i \in 1 .. Len(queue'[s]) PROVE queue'[s][i] <= published'
      <4>1. PICK k \in 0 .. 2 :
               \A l \in 1 .. Len(queue'[s]) - 1 :
                  \/ l + k \in 1 .. Len(queue[s]) /\ queue'[s][l] = queue[s][l + k]
                  \/ queue'[s][l] = Notice
        BY <1>3, <2>3
      <4>2. Len(queue'[s]) \in Nat /\ queue'[s][Len(queue'[s])] = published'
        BY <1>3, <2>3
      <4>3. CASE i = Len(queue'[s])
        BY <1>0, <4>2, <4>3
      <4>4. CASE i \in 1 .. Len(queue'[s]) - 1
        <5>1. published \in Nat /\ published' = published + 1
          BY <1>0
        <5>2. CASE queue'[s][i] = Notice
          BY <5>1, <5>2 DEF Notice
        <5>3. CASE i + k \in 1 .. Len(queue[s]) /\ queue'[s][i] = queue[s][i + k]
          BY <2>1, <2>2, <5>1, <5>3
        <5> QED
          BY <4>1, <4>4, <5>2, <5>3
      <4> QED
        BY <4>2, <4>3, <4>4
    <3>2. taken[s] \in Nat
      BY <1>0
    <3> QED
      BY <1>0, <2>1, <3>1, <3>2
  <2>4. CASE s \notin subs
    BY <1>0, <1>2, <2>1, <2>2, <2>4
  <2> QED
    BY <2>3, <2>4
<1>6. InOrder'
  <2> SUFFICES ASSUME NEW s \in Streams, NEW j \in 1 .. Len(queue'[s]),
                      queue'[s][j] # Notice
               PROVE  /\ taken[s] < queue'[s][j]
                      /\ \A i \in 1 .. j - 1 : queue'[s][i] < queue'[s][j]
    BY <1>0 DEF InOrder
  <2>1. \A i \in 1 .. Len(queue[s]) : queue[s][i] \in Nat
    BY <1>1 DEF Msg, Event, Notice
  <2>2. \A l \in 1 .. Len(queue[s]) :
           /\ queue[s][l] <= published
           /\ queue[s][l] # Notice =>
                 /\ taken[s] < queue[s][l]
                 /\ \A i \in 1 .. l - 1 : queue[s][i] < queue[s][l]
    BY DEF IInv, InOrder, Known
  <2>3. taken[s] <= published /\ taken[s] \in Nat
    BY <1>0 DEF IInv, Known
  <2>4. CASE s \notin subs
    BY <1>2, <2>2, <2>4
  <2>5. CASE s \in subs
    <3>1. PICK k \in 0 .. 2 :
              \A i \in 1 .. Len(queue'[s]) - 1 :
                 \/ i + k \in 1 .. Len(queue[s]) /\ queue'[s][i] = queue[s][i + k]
                 \/ queue'[s][i] = Notice
      BY <1>3, <2>5
    <3>2. /\ Len(queue'[s]) \in Nat /\ queue'[s][Len(queue'[s])] = published'
      BY <1>3, <2>5
    <3>3. CASE j = Len(queue'[s])
      <4>1. ASSUME NEW i \in 1 .. j - 1 PROVE queue'[s][i] < queue'[s][j]
        <5>1. queue'[s][j] = published + 1 /\ published \in Nat
          BY <1>0, <3>2, <3>3
        <5>2. i \in 1 .. Len(queue'[s]) - 1
          BY <3>2, <3>3
        <5>3. CASE queue'[s][i] = Notice
          BY <5>1, <5>3 DEF Notice
        <5>4. CASE i + k \in 1 .. Len(queue[s]) /\ queue'[s][i] = queue[s][i + k]
          <6>1. queue[s][i + k] <= published /\ queue[s][i + k] \in Nat
            BY <2>1, <2>2, <5>4
          <6> QED
            BY <5>1, <5>4, <6>1
        <5> QED
          BY <3>1, <5>2, <5>3, <5>4
      <4> QED
        BY <1>0, <2>3, <3>2, <3>3, <4>1
    <3>4. CASE j # Len(queue'[s])
      <4>1. j + k \in 1 .. Len(queue[s]) /\ queue'[s][j] = queue[s][j + k]
        BY <3>1, <3>2, <3>4
      <4>2. /\ taken[s] < queue[s][j + k]
            /\ \A l \in 1 .. (j + k) - 1 : queue[s][l] < queue[s][j + k]
        BY <2>2, <4>1
      <4>3. queue[s][j + k] > 0
        BY <2>1, <4>1 DEF Notice
      <4>4. ASSUME NEW i \in 1 .. j - 1 PROVE queue'[s][i] < queue'[s][j]
        <5>1. i \in 1 .. Len(queue'[s]) - 1 /\ i + k \in 1 .. (j + k) - 1
          BY <3>2
        <5>2. CASE queue'[s][i] = Notice
          BY <4>1, <4>3, <5>2 DEF Notice
        <5>3. CASE queue'[s][i] = queue[s][i + k]
          BY <4>1, <4>2, <5>1, <5>3
        <5> QED
          BY <3>1, <5>1, <5>2, <5>3
      <4> QED
        BY <4>1, <4>2, <4>4
    <3> QED
      BY <3>3, <3>4
  <2> QED
    BY <2>4, <2>5
<1>7. NewerKept'
  <2> SUFFICES ASSUME NEW s \in subs, NEW i \in 1 .. Len(queue'[s]),
                      queue'[s][i] # Notice, NEW n \in queue'[s][i] .. published'
               PROVE  \E j \in i .. Len(queue'[s]) : queue'[s][j] = n
    BY <1>0 DEF NewerKept
  <2>0. /\ queue'[s] \in Seq(Msg) /\ Len(queue'[s]) \in 1 .. QueueMax
        /\ queue'[s][Len(queue'[s])] = published'
    BY <1>3
  <2>1. PICK k \in 0 .. 2 :
           /\ \A l \in 1 .. Len(queue'[s]) - 1 :
                 \/ l + k \in 1 .. Len(queue[s]) /\ queue'[s][l] = queue[s][l + k]
                 \/ queue'[s][l] = Notice
           /\ \A j \in 1 .. Len(queue[s]) :
                 j > k => /\ j - k \in 1 .. Len(queue'[s]) - 1
                          /\ queue'[s][j - k] = queue[s][j]
    BY <1>3
  <2>2. CASE n = published'
    BY <2>0, <2>2
  <2>3. CASE n # published'
    <3>1. queue'[s][i] \in Nat /\ n \in Nat /\ n <= published
      BY <1>0, <2>0, <2>3 DEF Msg, Event, Notice
    <3>2. i # Len(queue'[s])
      BY <1>0, <2>0, <2>3
    <3>3. i + k \in 1 .. Len(queue[s]) /\ queue'[s][i] = queue[s][i + k]
      BY <2>0, <2>1, <3>2
    <3>4. PICK l \in i + k .. Len(queue[s]) : queue[s][l] = n
      <4>1. n \in queue[s][i + k] .. published
        BY <1>0, <3>1, <3>3
      <4>2. queue[s][i + k] # Notice
        BY <3>3
      <4> QED
        BY <3>3, <4>1, <4>2 DEF IInv, NewerKept
    <3>5. l > k /\ l \in 1 .. Len(queue[s])
      BY <3>3
    <3>6. l - k \in 1 .. Len(queue'[s]) - 1 /\ queue'[s][l - k] = n
      BY <2>1, <3>4, <3>5
    <3>7. l - k \in i .. Len(queue'[s])
      BY <2>0, <3>4, <3>5, <3>6
    <3> QED
      BY <3>6, <3>7
  <2> QED
    BY <2>2, <2>3
<1>8. NewestLast'
  BY <1>0, <1>3 DEF NewestLast
<1> QED
  BY <1>4, <1>5, <1>6, <1>7, <1>8 DEF IInv

(* So does taking the oldest message of a queue.                           *)
LEMMA TakeInv == ASSUME IInv, NEW s \in Streams, Take(s) PROVE IInv'
<1> USE BusOK
<1>0. /\ queue[s] \in Seq(Msg) /\ queue[s] # <<>> /\ Len(queue[s]) <= QueueMax
      /\ \A r \in Streams : queue[r] \in Seq(Msg)
      /\ queue \in [Streams -> Seq(Msg)] /\ taken \in [Streams -> 0 .. MaxEvents]
      /\ published' = published /\ subs' = subs /\ subs \subseteq Streams
      /\ published \in 0 .. MaxEvents
  BY DEF IInv, TypeOK, Take, Msg
<1>1. /\ queue'[s] = Tail(queue[s]) /\ queue'[s] \in Seq(Msg)
      /\ Len(queue'[s]) = Len(queue[s]) - 1
      /\ \A i \in 1 .. Len(queue'[s]) : queue'[s][i] = queue[s][i + 1]
      /\ Head(queue[s]) = queue[s][1] /\ Head(queue[s]) \in Msg
      /\ 1 \in 1 .. Len(queue[s])
  BY <1>0 DEF Take
<1>2. taken'[s] = IF queue[s][1] = Notice THEN taken[s] ELSE queue[s][1]
  BY <1>0, <1>1 DEF Take
<1>3. \A r \in Streams \ {s} : queue'[r] = queue[r] /\ taken'[r] = taken[r]
  BY <1>0 DEF Take
<1>4. TypeOK'
  <2>1. queue' \in [Streams -> Seq(Msg)]
    BY <1>0, <1>1 DEF Take
  <2>2. \A r \in Streams : Len(queue'[r]) <= QueueMax
    <3>1. Len(queue'[s]) <= QueueMax
      BY <1>0, <1>1
    <3> QED
      BY <1>3, <3>1 DEF IInv, TypeOK
  <2>3. taken' \in [Streams -> 0 .. MaxEvents]
    BY <1>0, <1>1 DEF Take, Msg, Event
  <2>4. at' \in [Streams -> Places] /\ flagged' = flagged /\ gone' = gone
    BY DEF IInv, TypeOK, Take, Places
  <2> QED
    BY <1>0, <2>1, <2>2, <2>3, <2>4 DEF IInv, TypeOK, Msg
<1>5. Known'
  <2> SUFFICES ASSUME NEW r \in Streams
               PROVE  /\ taken'[r] <= published
                      /\ \A i \in 1 .. Len(queue'[r]) : queue'[r][i] <= published
    BY <1>0 DEF Known
  <2>1. taken[r] <= published /\ \A i \in 1 .. Len(queue[r]) : queue[r][i] <= published
    BY DEF IInv, Known
  <2>2. CASE r # s
    BY <1>3, <2>1, <2>2
  <2>3. CASE r = s
    <3>1. taken'[s] <= published
      BY <1>1, <1>2, <2>1, <2>3
    <3>2. \A i \in 1 .. Len(queue'[s]) : queue'[s][i] <= published
      <4>1. \A i \in 1 .. Len(queue'[s]) : i + 1 \in 1 .. Len(queue[s])
        BY <1>0, <1>1
      <4> QED
        BY <1>1, <2>1, <2>3, <4>1
    <3> QED
      BY <2>3, <3>1, <3>2
  <2> QED
    BY <2>2, <2>3
<1>6. InOrder'
  <2> SUFFICES ASSUME NEW r \in Streams, NEW j \in 1 .. Len(queue'[r]),
                      queue'[r][j] # Notice
               PROVE  /\ taken'[r] < queue'[r][j]
                      /\ \A i \in 1 .. j - 1 : queue'[r][i] < queue'[r][j]
    BY DEF InOrder
  <2>1. \A l \in 1 .. Len(queue[r]) :
           queue[r][l] # Notice =>
              /\ taken[r] < queue[r][l]
              /\ \A i \in 1 .. l - 1 : queue[r][i] < queue[r][l]
    BY DEF IInv, InOrder
  <2>2. CASE r # s
    BY <1>3, <2>1, <2>2
  <2>3. CASE r = s
    <3>1. j + 1 \in 1 .. Len(queue[s]) /\ queue'[s][j] = queue[s][j + 1]
      BY <1>0, <1>1, <2>3
    <3>2. /\ taken[s] < queue[s][j + 1]
          /\ \A i \in 1 .. (j + 1) - 1 : queue[s][i] < queue[s][j + 1]
      BY <2>1, <2>3, <3>1
    <3>3. taken'[s] < queue'[s][j]
      BY <1>2, <3>1, <3>2
    <3>4. ASSUME NEW i \in 1 .. j - 1 PROVE queue'[s][i] < queue'[s][j]
      <4>1. i \in 1 .. Len(queue'[s]) /\ i + 1 \in 1 .. (j + 1) - 1
        BY <1>0, <1>1, <2>3
      <4> QED
        BY <1>1, <3>1, <3>2, <4>1
    <3> QED
      BY <2>3, <3>3, <3>4
  <2> QED
    BY <2>2, <2>3
<1>7. NewerKept'
  <2> SUFFICES ASSUME NEW r \in subs, NEW i \in 1 .. Len(queue'[r]),
                      queue'[r][i] # Notice, NEW n \in queue'[r][i] .. published
               PROVE  \E j \in i .. Len(queue'[r]) : queue'[r][j] = n
    BY <1>0 DEF NewerKept
  <2>1. CASE r # s
    <3>1. queue'[r] = queue[r] /\ r \in subs
      BY <1>0, <1>3, <2>1
    <3> QED
      BY <3>1 DEF IInv, NewerKept
  <2>2. CASE r = s
    <3>1. i + 1 \in 1 .. Len(queue[s]) /\ queue'[s][i] = queue[s][i + 1]
      BY <1>0, <1>1, <2>2
    <3>2. PICK l \in i + 1 .. Len(queue[s]) : queue[s][l] = n
      BY <2>2, <3>1 DEF IInv, NewerKept
    <3>3. l - 1 \in i .. Len(queue'[s]) /\ l - 1 \in 1 .. Len(queue'[s])
          /\ (l - 1) + 1 = l
      BY <1>0, <1>1, <2>2, <3>2
    <3>4. queue'[s][l - 1] = n
      BY <1>1, <3>2, <3>3
    <3> QED
      BY <2>2, <3>3, <3>4
  <2> QED
    BY <2>1, <2>2
<1>8. NewestLast'
  <2> SUFFICES ASSUME NEW r \in subs, queue'[r] # <<>>
               PROVE  queue'[r][Len(queue'[r])] = published
    BY <1>0 DEF NewestLast
  <2>1. CASE r # s
    BY <1>0, <1>3, <2>1 DEF IInv, NewestLast
  <2>2. CASE r = s
    <3>1. queue[s][Len(queue[s])] = published
      BY <1>0, <2>2 DEF IInv, NewestLast
    <3>2. Len(queue'[s]) \in 1 .. Len(queue'[s])
      <4>1. Len(queue'[s]) # 0
        BY <1>1, <2>2, EmptySeq
      <4>2. Len(queue'[s]) \in Nat
        BY <1>1
      <4> QED
        BY <4>1, <4>2
    <3>3. queue'[s][Len(queue'[s])] = queue[s][Len(queue'[s]) + 1]
          /\ Len(queue'[s]) + 1 = Len(queue[s])
      BY <1>0, <1>1, <3>2
    <3> QED
      BY <2>2, <3>1, <3>3
  <2> QED
    BY <2>1, <2>2
<1> QED
  BY <1>4, <1>5, <1>6, <1>7, <1>8 DEF IInv

(* So does a new subscription, which starts with an empty queue.           *)
LEMMA SubscribeInv == ASSUME IInv, NEW s \in Streams, Subscribe(s) PROVE IInv'
<1> USE BusOK
<1>0. /\ queue \in [Streams -> Seq(Msg)] /\ taken \in [Streams -> 0 .. MaxEvents]
      /\ published' = published /\ subs' = subs \union {s} /\ subs \subseteq Streams
      /\ published \in 0 .. MaxEvents
  BY DEF IInv, TypeOK, Subscribe, Msg
<1>1. queue'[s] = <<>> /\ taken'[s] = 0 /\ Len(queue'[s]) = 0
  BY <1>0 DEF Subscribe
<1>2. \A r \in Streams \ {s} : queue'[r] = queue[r] /\ taken'[r] = taken[r]
  BY <1>0 DEF Subscribe
<1>3. TypeOK'
  <2>1. queue' \in [Streams -> Seq(Msg)] /\ taken' \in [Streams -> 0 .. MaxEvents]
    BY <1>0 DEF Subscribe
  <2>2. \A r \in Streams : Len(queue'[r]) <= QueueMax
    BY <1>1, <1>2 DEF IInv, TypeOK
  <2>3. at' \in [Streams -> Places] /\ flagged' \subseteq Streams
    BY DEF IInv, TypeOK, Subscribe, Places
  <2>4. gone' \in [Streams -> BOOLEAN]
    BY DEF IInv, TypeOK, Subscribe
  <2> QED
    BY <1>0, <2>1, <2>2, <2>3, <2>4 DEF TypeOK, Msg
<1>4. Known'
  BY <1>0, <1>1, <1>2 DEF IInv, Known
<1>5. InOrder'
  BY <1>1, <1>2 DEF IInv, InOrder
<1>6. \A r \in subs' : r # s => r \in subs /\ queue'[r] = queue[r]
  BY <1>0, <1>2
<1>7. NewerKept'
  <2> SUFFICES ASSUME NEW r \in subs', NEW i \in 1 .. Len(queue'[r]),
                      queue'[r][i] # Notice, NEW n \in queue'[r][i] .. published
               PROVE  \E j \in i .. Len(queue'[r]) : queue'[r][j] = n
    BY <1>0 DEF NewerKept
  <2>1. r # s
    BY <1>1
  <2> QED
    BY <1>6, <2>1 DEF IInv, NewerKept
<1>8. NewestLast'
  BY <1>0, <1>1, <1>6 DEF IInv, NewestLast
<1> QED
  BY <1>3, <1>4, <1>5, <1>7, <1>8 DEF IInv

(* The other steps leave the queues alone.                                 *)
LEMMA QuietInv ==
    ASSUME IInv, UNCHANGED <<published, queue, taken, flagged>>,
           subs' \subseteq subs, at' \in [Streams -> Places],
           gone' \in [Streams -> BOOLEAN]
    PROVE  IInv'
<1>1. TypeOK'
  BY DEF IInv, TypeOK
<1>2. Known' /\ InOrder'
  BY DEF IInv, Known, InOrder
<1>3. NewerKept' /\ NewestLast'
  BY DEF IInv, NewerKept, NewestLast
<1> QED
  BY <1>1, <1>2, <1>3 DEF IInv

(* Every step preserves the invariant.                                     *)
LEMMA NextInv == IInv /\ [Next]_vars => IInv'
<1> SUFFICES ASSUME IInv, [Next]_vars PROVE IInv'
  OBVIOUS
<1>0. at \in [Streams -> Places] /\ gone \in [Streams -> BOOLEAN]
  BY DEF IInv, TypeOK
<1>1. CASE Publish
  BY <1>1, PublishInv
<1>2. ASSUME NEW s \in Streams, Subscribe(s) PROVE IInv'
  BY <1>2, SubscribeInv
<1>3. ASSUME NEW s \in Streams, Leave(s) PROVE IInv'
  BY <1>0, <1>3, QuietInv DEF Leave
<1>4. ASSUME NEW s \in Streams, Stream(s) PROVE IInv'
  <2>1. CASE Prepared(s)
    BY <1>0, <2>1, QuietInv DEF Prepared, Places
  <2>2. CASE PrepareFails(s)
    BY <1>0, <2>2, QuietInv DEF PrepareFails, Places
  <2>3. CASE Take(s)
    BY <2>3, TakeInv
  <2>4. CASE KeepAlive(s)
    BY <1>0, <2>4, QuietInv DEF KeepAlive, Places
  <2>5. CASE Written(s)
    BY <1>0, <2>5, QuietInv DEF Written, Places
  <2>6. CASE WriteFails(s)
    BY <1>0, <2>6, QuietInv DEF WriteFails, Places
  <2> QED
    BY <1>4, <2>1, <2>2, <2>3, <2>4, <2>5, <2>6 DEF Stream
<1>5. CASE UNCHANGED vars
  BY <1>0, <1>5, QuietInv DEF vars
<1> QED
  BY <1>1, <1>2, <1>3, <1>4, <1>5 DEF Next

(* The inductive invariant holds in every reachable state.                 *)
THEOREM BusInvariant == Spec => []IInv
  BY InitInv, NextInv, PTL DEF Spec

(* The state stays well typed and no queue outgrows its bound.             *)
THEOREM BusTyped == Spec => []TypeOK
<1>1. IInv => TypeOK
  BY DEF IInv
<1> QED
  BY <1>1, BusInvariant, PTL

(* A stream sees events at most once and in order, whatever is dropped.    *)
THEOREM EventsInOrder == Spec => []InOrder
<1>1. IInv => InOrder
  BY DEF IInv
<1> QED
  BY <1>1, BusInvariant, PTL

(* Behind an event that is kept, every later event is kept.                *)
THEOREM NewerEventsKept == Spec => []NewerKept
<1>1. IInv => NewerKept
  BY DEF IInv
<1> QED
  BY <1>1, BusInvariant, PTL

(* A queue that is not empty ends with the newest event.                   *)
THEOREM NewestEventLast == Spec => []NewestLast
<1>1. IInv => NewestLast
  BY DEF IInv
<1> QED
  BY <1>1, BusInvariant, PTL
=============================================================================
