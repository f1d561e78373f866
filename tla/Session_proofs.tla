--------------------------- MODULE Session_proofs ---------------------------
(***************************************************************************)
(* Two parts of a session: that nothing of a revoked room is shown, for    *)
(* any rooms, writers, times and cache lifetime (Rooms), and that the WHO  *)
(* queries tell the truth and no request for a view is lost (Members).     *)
(***************************************************************************)
EXTENDS Rooms, Members, TLAPS

Entry == [stamp : Int, rooms : SUBSET Room, until : Int]
Stretch == [at : {"free", "sweep", "check", "command"}, room : Room \cup {None},
            stamp : Int \cup {None}, since : SUBSET Room]
Order == [at : {"idle", "enforce", "may", "written", "publish", "history"},
          kind : {"join", "part", "switch", "read", "chat"},
          room : Room \cup {None}, view : Room \cup {None}, since : SUBSET Room]

TypeStore ==
    /\ now \in Nat
    /\ counter \in Int
    /\ cut \in BOOLEAN
    /\ journal \in {"none", "begun", "writing", "hot"}
    /\ grants \subseteq Room
    /\ pending \subseteq Room
    /\ granted \in [Room -> Nat \cup {None}]
    /\ cache = None \/ cache \in Entry

TypeSession ==
    /\ loop \in Stretch
    /\ cmd \in Order
    /\ current \in Room \cup {None}
    /\ inbound \in Seq(Room)

(* What is granted now is known to be.                                     *)
GrantedNow ==
    \A r \in Room :
        /\ r \in grants => granted[r] = now
        /\ granted[r] # None => granted[r] <= now

(* The grants of the whole stretch or command are collected.               *)
Since == IF loop.at = "command" THEN cmd.since ELSE loop.since

Covered ==
    /\ loop.at = "command" => cmd.at # "idle"
    /\ loop.at = "free" => loop.stamp = None
    /\ loop.at \in {"sweep", "check"} => grants \subseteq loop.since
    /\ cmd.at # "idle" => grants \subseteq cmd.since

(* What an entry of the cache names was granted when it was read.          *)
CacheDated ==
    cache # None =>
        \A r \in cache.rooms : granted[r] # None /\ cache.until - granted[r] <= Ttl

(* Unless a writer died in its commit, an entry that has the stamp of now  *)
(* is true now, and one that has the stamp of the stretch was true in it.  *)
CacheTrue ==
    ~cut => /\ loop.stamp # None => loop.stamp <= counter
            /\ cache # None =>
                /\ cache.stamp <= counter
                /\ cache.stamp = counter => cache.rooms = grants /\ journal # "writing"
                /\ loop.stamp # None /\ cache.stamp = loop.stamp => cache.rooms \subseteq Since

HotIsCut == journal = "hot" => cut

(* A command that goes on found its room allowed.                          *)
RoomChecked ==
    /\ cmd.at = "history" => cmd.kind # "part"
    /\ cmd.at \in {"written", "publish", "history"} /\ cmd.kind # "part"
         => cmd.room \in cmd.since

StoreInv == TypeStore /\ GrantedNow /\ CacheDated /\ HotIsCut
SessionInv == TypeSession /\ Covered /\ CacheTrue /\ RoomChecked

LeakInv == StoreInv /\ SessionInv /\ NothingLeaks
-----------------------------------------------------------------------------
LEMMA InitLeak == Init => LeakInv
<1>1. SUFFICES ASSUME Init PROVE LeakInv
  OBVIOUS
<1>2. TypeStore /\ GrantedNow
  <2>1. /\ grants \in SUBSET Room /\ now = 0
        /\ granted = [r \in Room |-> IF r \in grants THEN 0 ELSE None]
    BY <1>1 DEF Init
  <2>2. GrantedNow
    BY <2>1 DEF GrantedNow
  <2>3. granted \in [Room -> Nat \cup {None}]
    BY <2>1
  <2>4. now \in Nat /\ counter \in Int
    BY <1>1 DEF Init
  <2>5. /\ cut \in BOOLEAN /\ journal \in {"none", "begun", "writing", "hot"}
        /\ grants \subseteq Room /\ pending \subseteq Room /\ cache = None
    BY <1>1 DEF Init
  <2>6. QED
    BY <2>2, <2>3, <2>4, <2>5 DEF TypeStore
<1>3. Free \in Stretch /\ NoCommand \in Order
  BY DEF Free, Stretch, NoCommand, Order
<1>4. TypeSession
  BY <1>1, <1>3 DEF Init, TypeSession
<1>5. CacheDated /\ HotIsCut /\ Covered /\ CacheTrue /\ RoomChecked /\ NothingLeaks
  BY <1>1 DEF Init, CacheDated, HotIsCut, Covered, CacheTrue, RoomChecked,
    NothingLeaks, Free, NoCommand
<1>6. QED
  BY <1>2, <1>4, <1>5 DEF LeakInv, StoreInv, SessionInv

(* A check reads rooms that were granted since its stretch or command      *)
(* began, or that a dead writer's stamp excuses.                           *)
LEMMA ReadSound ==
    ASSUME LeakInv, loop.at # "free", loop.stamp # None,
           NEW rooms \in SUBSET Room, Read(rooms)
    PROVE  rooms \subseteq Since \cup Excused
<1>1. TypeStore /\ GrantedNow /\ CacheDated /\ Covered /\ CacheTrue /\ TypeSession
  BY DEF LeakInv, StoreInv, SessionInv
<1>2. grants \subseteq Since
  BY <1>1 DEF Covered, Since, TypeSession, Stretch
<1>3. CASE ~Hit
  BY <1>2, <1>3 DEF Read
<1>4. CASE Hit
  <2>1. /\ rooms = cache.rooms /\ cache # None /\ cache.stamp = loop.stamp
        /\ now < cache.until
    BY <1>4 DEF Read, Hit
  <2>2. CASE ~cut
    BY <1>1, <2>1, <2>2 DEF CacheTrue
  <2>3. CASE cut
    <3>1. cache.until \in Int /\ Ttl \in Nat
      BY <1>1, <2>1, RoomsOK DEF TypeStore, Entry
    <3>2. ASSUME NEW r \in rooms
          PROVE  granted[r] # None /\ now - granted[r] <= Ttl
      <4>1. granted[r] \in Nat /\ cache.until - granted[r] <= Ttl
        BY <1>1, <2>1 DEF CacheDated, TypeStore
      <4>2. QED
        BY <1>1, <2>1, <3>1, <4>1, RoomsOK DEF TypeStore
    <3>3. QED
      BY <2>3, <3>2 DEF Excused
  <2>4. QED
    BY <2>2, <2>3
<1>5. QED
  BY <1>3, <1>4

(* What a check leaves behind.                                             *)
LEMMA ReadKeeps ==
    ASSUME LeakInv, loop.at # "free", loop.stamp # None,
           NEW rooms \in SUBSET Room, Read(rooms), Rest
    PROVE  /\ StoreInv'
           /\ ~cut => /\ counter' = counter
                      /\ cache' # None =>
                         /\ cache'.stamp <= counter
                         /\ cache'.stamp = counter
                              => cache'.rooms = grants /\ journal' # "writing"
                         /\ cache'.stamp = loop.stamp => cache'.rooms \subseteq Since
<1>1. /\ TypeStore /\ GrantedNow /\ CacheDated /\ Covered /\ CacheTrue
      /\ TypeSession /\ HotIsCut
  BY DEF LeakInv, StoreInv, SessionInv
<1>2. UNCHANGED <<now, grants, pending, cut, granted>>
  BY DEF Rest
<1>3. CASE UNCHANGED <<cache, counter, journal>>
  <2>1. StoreInv'
    BY <1>1, <1>2, <1>3 DEF StoreInv, TypeStore, GrantedNow, CacheDated, HotIsCut
  <2>2. QED
    BY <1>1, <1>3, <2>1 DEF CacheTrue
<1>4. CASE ~UNCHANGED <<cache, counter, journal>>
  <2>1. /\ journal # "writing"
        /\ cache' = [stamp |-> loop.stamp, rooms |-> grants, until |-> now + Ttl]
        /\ IF journal = "hot"
           THEN counter' = counter - 1 /\ journal' = "none"
           ELSE UNCHANGED <<counter, journal>>
    BY <1>4 DEF Read
  <2>2. loop.stamp \in Int /\ now + Ttl \in Int /\ now \in Nat /\ Ttl \in Nat
    BY <1>1, RoomsOK DEF TypeSession, Stretch, TypeStore
  <2>3. cache' \in Entry
    BY <1>1, <2>1, <2>2 DEF Entry, TypeStore
  <2>4. counter' \in Int /\ journal' \in {"none", "begun", "writing", "hot"}
    BY <1>1, <2>1 DEF TypeStore
  <2>5. TypeStore'
    BY <1>1, <1>2, <2>3, <2>4 DEF TypeStore
  <2>6. GrantedNow'
    BY <1>1, <1>2 DEF GrantedNow
  <2>7. CacheDated'
    <3>1. cache'.rooms = grants /\ cache'.until = now + Ttl
      BY <2>1
    <3>2. \A r \in grants : granted[r] = now /\ now # None
      BY <1>1, <2>2, RoomsOK DEF GrantedNow, TypeStore
    <3>3. QED
      BY <1>2, <2>2, <3>1, <3>2 DEF CacheDated
  <2>8. HotIsCut'
    BY <1>1, <1>2, <2>1 DEF HotIsCut
  <2>9. StoreInv'
    BY <2>5, <2>6, <2>7, <2>8 DEF StoreInv
  <2>10. grants \subseteq Since
    BY <1>1 DEF Covered, Since, TypeSession, Stretch
  <2>11. ASSUME ~cut PROVE /\ counter' = counter /\ journal' = journal
                           /\ loop.stamp <= counter
    BY <1>1, <2>1, <2>11 DEF HotIsCut, CacheTrue
  <2>12. QED
    BY <2>1, <2>9, <2>10, <2>11
<1>5. QED
  BY <1>3, <1>4
-----------------------------------------------------------------------------
(* The writers and the clock.                                              *)
LEMMA TickStep ==
    ASSUME LeakInv, Tick
    PROVE  LeakInv'
<1>1. StoreInv /\ SessionInv /\ NothingLeaks
  BY DEF LeakInv
<1>2. /\ now' = now + 1
      /\ granted' = [r \in Room |-> IF r \in grants THEN now' ELSE granted[r]]
      /\ UNCHANGED <<grants, counter, journal, pending, cut, cache, current, inbound,
                     loop, cmd, leaked>>
  BY DEF Tick, session
<1>3. now \in Nat /\ granted \in [Room -> Nat \cup {None}]
  BY <1>1 DEF StoreInv, TypeStore
<1>4. TypeStore'
  <2>1. now' \in Nat /\ granted' \in [Room -> Nat \cup {None}]
    BY <1>2, <1>3
  <2>2. QED
    BY <1>1, <1>2, <2>1 DEF StoreInv, TypeStore
<1>5. GrantedNow'
  BY <1>1, <1>2, <1>3, RoomsOK DEF StoreInv, GrantedNow
<1>6. CacheDated'
  <2>1. ASSUME cache # None, NEW r \in cache.rooms
        PROVE  granted'[r] # None /\ cache.until - granted'[r] <= Ttl
    <3>1. cache \in Entry
      BY <1>1, <2>1 DEF StoreInv, TypeStore
    <3>2. r \in Room /\ cache.until \in Int
      BY <2>1, <3>1 DEF Entry
    <3>3. granted[r] \in Nat /\ cache.until - granted[r] <= Ttl
      BY <1>1, <1>3, <2>1, <3>2 DEF StoreInv, CacheDated
    <3>4. granted'[r] \in Nat /\ granted'[r] >= granted[r]
      BY <1>1, <1>2, <1>3, <3>2, <3>3, RoomsOK DEF StoreInv, GrantedNow
    <3>5. QED
      BY <3>2, <3>3, <3>4, RoomsOK
  <2>2. QED
    BY <1>2, <2>1 DEF CacheDated
<1>7. HotIsCut' /\ SessionInv' /\ NothingLeaks'
  BY <1>1, <1>2 DEF StoreInv, SessionInv, HotIsCut, TypeSession, Covered, CacheTrue,
    RoomChecked, NothingLeaks, Since
<1>8. QED
  BY <1>4, <1>5, <1>6, <1>7 DEF LeakInv, StoreInv

LEMMA BeginStep ==
    ASSUME LeakInv, Begin
    PROVE  LeakInv'
<1>1. StoreInv /\ SessionInv /\ NothingLeaks
  BY DEF LeakInv
<1>2. /\ journal = "none" /\ journal' = "begun"
      /\ pending' \in SUBSET Room /\ cache' \in {cache, None}
      /\ UNCHANGED <<now, grants, counter, cut, granted, current, inbound, loop, cmd,
                     leaked>>
  BY DEF Begin, session
<1>3. StoreInv'
  BY <1>1, <1>2 DEF StoreInv, TypeStore, GrantedNow, CacheDated, HotIsCut
<1>4. CacheTrue'
  BY <1>1, <1>2 DEF SessionInv, CacheTrue, Since
<1>5. TypeSession' /\ Covered' /\ RoomChecked' /\ NothingLeaks'
  BY <1>1, <1>2 DEF SessionInv, TypeSession, Covered, RoomChecked, NothingLeaks
<1>6. QED
  BY <1>3, <1>4, <1>5 DEF LeakInv, SessionInv

LEMMA FlushStep ==
    ASSUME LeakInv, Flush
    PROVE  LeakInv'
<1>1. StoreInv /\ SessionInv /\ NothingLeaks
  BY DEF LeakInv
<1>2. /\ journal' = "writing" /\ counter' = counter + 1
      /\ UNCHANGED <<now, grants, pending, cut, granted, cache, current, inbound,
                     loop, cmd, leaked>>
  BY DEF Flush, session
<1>3. StoreInv'
  BY <1>1, <1>2 DEF StoreInv, TypeStore, GrantedNow, CacheDated, HotIsCut
<1>4. CacheTrue'
  BY <1>1, <1>2 DEF StoreInv, TypeStore, Entry, SessionInv, TypeSession, Stretch,
    CacheTrue, Since
<1>5. TypeSession' /\ Covered' /\ RoomChecked' /\ NothingLeaks'
  BY <1>1, <1>2 DEF SessionInv, TypeSession, Covered, RoomChecked, NothingLeaks
<1>6. QED
  BY <1>3, <1>4, <1>5 DEF LeakInv, SessionInv

LEMMA CommitStep ==
    ASSUME LeakInv, Commit
    PROVE  LeakInv'
<1>1. StoreInv /\ SessionInv /\ NothingLeaks
  BY DEF LeakInv
<1>2. /\ journal = "writing" /\ journal' = "none"
      /\ grants' = pending /\ pending' = {}
      /\ granted' = [r \in Room |-> IF r \in pending THEN now ELSE granted[r]]
      /\ loop' = [loop EXCEPT !.since = @ \cup pending]
      /\ cmd' = [cmd EXCEPT !.since = @ \cup pending]
      /\ UNCHANGED <<now, counter, cut, cache, current, inbound, leaked>>
  BY DEF Commit, session
<1>3. /\ now \in Nat /\ granted \in [Room -> Nat \cup {None}]
      /\ pending \subseteq Room /\ loop \in Stretch /\ cmd \in Order
  BY <1>1 DEF StoreInv, TypeStore, SessionInv, TypeSession
<1>4. /\ loop' \in Stretch /\ loop'.at = loop.at /\ loop'.stamp = loop.stamp
      /\ loop'.since = loop.since \cup pending
  BY <1>2, <1>3 DEF Stretch
<1>5. /\ cmd' \in Order /\ cmd'.at = cmd.at /\ cmd'.kind = cmd.kind
      /\ cmd'.room = cmd.room /\ cmd'.since = cmd.since \cup pending
  BY <1>2, <1>3 DEF Order
<1>6. TypeStore'
  <2>1. granted' \in [Room -> Nat \cup {None}]
    BY <1>2, <1>3
  <2>2. QED
    BY <1>1, <1>2, <1>3, <2>1 DEF StoreInv, TypeStore
<1>7. GrantedNow'
  BY <1>1, <1>2, <1>3 DEF StoreInv, GrantedNow
<1>8. CacheDated'
  <2>1. ASSUME cache # None, NEW r \in cache.rooms
        PROVE  granted'[r] # None /\ cache.until - granted'[r] <= Ttl
    <3>1. cache \in Entry
      BY <1>1, <2>1 DEF StoreInv, TypeStore
    <3>2. r \in Room /\ cache.until \in Int
      BY <2>1, <3>1 DEF Entry
    <3>3. granted[r] \in Nat /\ cache.until - granted[r] <= Ttl
      BY <1>1, <1>3, <2>1, <3>2 DEF StoreInv, CacheDated
    <3>4. granted'[r] \in Nat /\ granted'[r] >= granted[r]
      BY <1>1, <1>2, <1>3, <3>2, <3>3, RoomsOK DEF StoreInv, GrantedNow
    <3>5. QED
      BY <3>2, <3>3, <3>4, RoomsOK
  <2>2. QED
    BY <1>2, <2>1 DEF CacheDated
<1>9. HotIsCut' /\ NothingLeaks'
  BY <1>1, <1>2 DEF StoreInv, HotIsCut, NothingLeaks
<1>10. TypeSession' /\ RoomChecked' /\ Covered'
  BY <1>1, <1>2, <1>4, <1>5 DEF SessionInv, TypeSession, RoomChecked, Covered
<1>11. CacheTrue'
  <2>1. Since \subseteq Since'
    BY <1>4, <1>5 DEF Since
  <2>2. QED
    BY <1>1, <1>2, <1>4, <2>1 DEF SessionInv, CacheTrue
<1>12. QED
  BY <1>6, <1>7, <1>8, <1>9, <1>10, <1>11 DEF LeakInv, StoreInv, SessionInv

LEMMA DieStep ==
    ASSUME LeakInv, Die
    PROVE  LeakInv'
<1>1. StoreInv /\ SessionInv /\ NothingLeaks
  BY DEF LeakInv
<1>2. /\ \/ journal = "begun" /\ journal' = "none" /\ cut' = cut
         \/ journal = "writing" /\ journal' = "hot" /\ cut' = TRUE
      /\ pending' = {}
      /\ UNCHANGED <<now, grants, counter, granted, cache, current, inbound, loop,
                     cmd, leaked>>
  <2>1. cut \in BOOLEAN
    BY <1>1 DEF StoreInv, TypeStore
  <2>2. CASE journal = "begun"
    <3>1. journal # "writing" /\ cut' = (cut \/ journal = "writing")
      BY <2>2 DEF Die
    <3>2. cut' = cut
      BY <2>1, <3>1
    <3>3. QED
      BY <2>2, <3>2 DEF Die, session
  <2>3. CASE journal = "writing"
    BY <2>3 DEF Die, session
  <2>4. QED
    BY <2>2, <2>3 DEF Die
<1>3. StoreInv'
  BY <1>1, <1>2 DEF StoreInv, TypeStore, GrantedNow, CacheDated, HotIsCut
<1>4. CacheTrue'
  BY <1>1, <1>2 DEF SessionInv, CacheTrue, Since
<1>5. TypeSession' /\ Covered' /\ RoomChecked' /\ NothingLeaks'
  BY <1>1, <1>2 DEF SessionInv, TypeSession, Covered, RoomChecked, NothingLeaks
<1>6. QED
  BY <1>3, <1>4, <1>5 DEF LeakInv, SessionInv

LEMMA TakeStampStep ==
    ASSUME LeakInv, TakeStamp
    PROVE  LeakInv'
<1>1. StoreInv /\ SessionInv /\ NothingLeaks
  BY DEF LeakInv
<1>2. /\ loop.at # "free" /\ loop' = [loop EXCEPT !.stamp = counter]
      /\ UNCHANGED <<now, grants, pending, counter, journal, cut, granted, cache,
                     current, inbound, cmd, leaked>>
  BY DEF TakeStamp, store, session
<1>3. /\ loop' \in Stretch /\ loop'.at = loop.at /\ loop'.since = loop.since
      /\ loop'.stamp = counter /\ counter \in Int
  BY <1>1, <1>2 DEF StoreInv, TypeStore, SessionInv, TypeSession, Stretch
<1>4. StoreInv' /\ NothingLeaks'
  BY <1>1, <1>2 DEF StoreInv, TypeStore, GrantedNow, CacheDated, HotIsCut,
    NothingLeaks
<1>5. TypeSession' /\ Covered' /\ RoomChecked'
  BY <1>1, <1>2, <1>3 DEF SessionInv, TypeSession, Covered, RoomChecked
<1>6. CacheTrue'
  <2>1. grants \subseteq Since
    BY <1>1, <1>2 DEF SessionInv, TypeSession, Stretch, Covered, Since
  <2>2. Since' = Since
    BY <1>2, <1>3 DEF Since
  <2>3. QED
    BY <1>1, <1>2, <1>3, <2>1, <2>2 DEF SessionInv, CacheTrue
<1>7. QED
  BY <1>4, <1>5, <1>6 DEF LeakInv, SessionInv
-----------------------------------------------------------------------------
(* A step of a stretch that reads keeps what it has to, when its stamp is  *)
(* dropped or serves the same stretch.                                     *)
LEMMA StretchEnds ==
    ASSUME LeakInv, loop.at # "free", loop.stamp # None,
           NEW rooms \in SUBSET Room, Read(rooms), Rest,
           TypeSession', Covered', RoomChecked', leaked' = leaked,
           loop'.stamp = None
    PROVE  LeakInv'
<1>1. StoreInv' /\ NothingLeaks' /\ cut' = cut /\ grants' = grants
  BY ReadKeeps DEF LeakInv, NothingLeaks, Rest
<1>2. CacheTrue'
  BY <1>1, ReadKeeps DEF CacheTrue
<1>3. QED
  BY <1>1, <1>2 DEF LeakInv, SessionInv

LEMMA StretchGoesOn ==
    ASSUME LeakInv, loop.at # "free", loop.stamp # None,
           NEW rooms \in SUBSET Room, Read(rooms), Rest,
           TypeSession', Covered', RoomChecked', leaked' = leaked,
           loop'.stamp = loop.stamp, Since' = Since
    PROVE  LeakInv'
<1>1. StoreInv' /\ NothingLeaks' /\ cut' = cut /\ grants' = grants
  BY ReadKeeps DEF LeakInv, NothingLeaks, Rest
<1>2. CacheTrue'
  BY <1>1, ReadKeeps DEF CacheTrue, LeakInv, SessionInv
<1>3. QED
  BY <1>1, <1>2 DEF LeakInv, SessionInv

(* A step that does not read leaves the store and the cache alone.         *)
LEMMA Apart ==
    ASSUME LeakInv, Rest, UNCHANGED <<counter, journal, cache>>,
           TypeSession', Covered', RoomChecked', leaked' = leaked,
           \/ loop'.stamp = None
           \/ loop'.stamp = counter /\ grants \subseteq Since'
           \/ loop' = loop /\ Since' = Since
    PROVE  LeakInv'
<1>1. StoreInv /\ SessionInv /\ NothingLeaks
  BY DEF LeakInv
<1>2. StoreInv' /\ NothingLeaks' /\ cut' = cut /\ grants' = grants
  BY <1>1 DEF StoreInv, TypeStore, GrantedNow, CacheDated, HotIsCut, NothingLeaks,
    Rest
<1>3. counter \in Int
  BY <1>1 DEF StoreInv, TypeStore
<1>4. CacheTrue'
  BY <1>1, <1>2, <1>3 DEF SessionInv, CacheTrue
<1>5. QED
  BY <1>2, <1>4 DEF LeakInv, SessionInv

LEMMA SayPartStep ==
    ASSUME LeakInv, NEW r \in Room, Say(r) \/ PartTask(r)
    PROVE  LeakInv'
<1>1. TypeSession /\ Covered /\ RoomChecked
  BY DEF LeakInv, SessionInv
<1>2. inbound' \in Seq(Room)
  BY <1>1 DEF TypeSession, Say, PartTask
<1>3. /\ Rest /\ UNCHANGED <<counter, journal, cache, current, loop, cmd, leaked>>
  BY DEF Say, PartTask, session
<1>4. TypeSession' /\ Covered' /\ RoomChecked' /\ Since' = Since
  BY <1>1, <1>2, <1>3 DEF TypeSession, Covered, RoomChecked, Since, Rest
<1>5. QED
  BY <1>3, <1>4, Apart

LEMMA LineArrivesStep ==
    ASSUME LeakInv, LineArrives
    PROVE  LeakInv'
<1>1. TypeSession /\ Covered /\ RoomChecked /\ TypeStore
  BY DEF LeakInv, SessionInv, StoreInv
<1>2. inbound' \in Seq(Room) /\ Head(inbound) \in Room
  BY <1>1 DEF TypeSession, LineArrives
<1>3. PICK at \in {"sweep", "check"} :
        loop' = [at |-> at, room |-> Head(inbound), stamp |-> counter,
                 since |-> grants]
  BY DEF LineArrives
<1>4. /\ Rest /\ UNCHANGED <<counter, journal, cache, current, cmd, leaked>>
      /\ loop.at = "free"
  BY DEF LineArrives
<1>5. loop' \in Stretch
  BY <1>1, <1>2, <1>3 DEF Stretch, TypeStore
<1>6. TypeSession' /\ Covered' /\ RoomChecked'
  BY <1>1, <1>2, <1>3, <1>4, <1>5 DEF TypeSession, Covered, RoomChecked, Rest
<1>7. loop'.stamp = counter /\ grants \subseteq Since'
  BY <1>3 DEF Since
<1>8. QED
  BY <1>4, <1>6, <1>7, Apart

LEMMA LineSweepsStep ==
    ASSUME LeakInv, LineSweeps
    PROVE  LeakInv'
<1>1. TypeSession /\ Covered /\ RoomChecked
  BY DEF LeakInv, SessionInv
<1>2. PICK rooms \in SUBSET Room : Read(rooms) /\ Sweep(rooms)
  BY DEF LineSweeps
<1>3. /\ loop.at = "sweep" /\ loop.stamp # None /\ Rest
      /\ loop' = [loop EXCEPT !.at = "check"]
      /\ UNCHANGED <<inbound, cmd, leaked>>
  BY DEF LineSweeps, Running
<1>4. /\ loop' \in Stretch /\ loop'.at = "check" /\ loop'.stamp = loop.stamp
      /\ loop'.since = loop.since /\ current' \in Room \cup {None}
  BY <1>1, <1>2, <1>3 DEF TypeSession, Stretch, Sweep
<1>5. TypeSession' /\ Covered' /\ RoomChecked'
  BY <1>1, <1>3, <1>4 DEF TypeSession, Covered, RoomChecked, Rest
<1>6. Since' = Since
  BY <1>3, <1>4 DEF Since
<1>7. QED
  BY <1>2, <1>3, <1>4, <1>5, <1>6, StretchGoesOn

LEMMA LineShownStep ==
    ASSUME LeakInv, LineShown
    PROVE  LeakInv'
<1>1. TypeSession /\ Covered /\ RoomChecked /\ NothingLeaks
  BY DEF LeakInv, SessionInv
<1>2. PICK rooms \in SUBSET Room :
        /\ Read(rooms)
        /\ IF loop.room \in rooms /\ loop.room = current
           THEN Shows({loop.room}, loop.since)
           ELSE UNCHANGED leaked
  BY DEF LineShown
<1>3. /\ loop.at = "check" /\ loop.stamp # None /\ Rest /\ loop' = Free
      /\ UNCHANGED <<current, inbound, cmd>>
  BY DEF LineShown, Running, session
<1>4. rooms \subseteq loop.since \cup Excused
  BY <1>2, <1>3, ReadSound DEF Since
<1>5. leaked' = leaked
  BY <1>1, <1>2, <1>4 DEF Shows
<1>6. Free \in Stretch /\ Free.stamp = None /\ Free.at = "free"
  BY DEF Free, Stretch
<1>7. TypeSession' /\ Covered' /\ RoomChecked'
  BY <1>1, <1>3, <1>6 DEF TypeSession, Covered, RoomChecked, Rest
<1>8. QED
  BY <1>2, <1>3, <1>5, <1>6, <1>7, StretchEnds
-----------------------------------------------------------------------------
(* The commands.                                                           *)
LEMMA Values ==
    /\ Free \in Stretch /\ Free.at = "free" /\ Free.stamp = None
    /\ NoCommand \in Order /\ NoCommand.at = "idle"
BY DEF Free, Stretch, NoCommand, Order

LEMMA ExecuteStep ==
    ASSUME LeakInv, Execute
    PROVE  LeakInv'
<1>1. TypeSession /\ TypeStore
  BY DEF LeakInv, SessionInv, StoreInv
<1>2. PICK kind \in {"join", "part", "switch", "read", "chat"}, r \in Room \cup {None} :
        cmd' = [at |-> "enforce", kind |-> kind, room |-> r, view |-> None,
                since |-> grants]
  BY DEF Execute
<1>3. /\ loop' = [Free EXCEPT !.at = "command"]
      /\ UNCHANGED <<now, grants, pending, cut, granted, counter, journal, cache,
                     current, inbound, leaked>>
  BY DEF Execute, store, session
<1>4. /\ loop' \in Stretch /\ loop'.at = "command" /\ loop'.stamp = None
  BY <1>3 DEF Free, Stretch
<1>5. cmd' \in Order /\ cmd'.at = "enforce" /\ cmd'.since = grants
  BY <1>1, <1>2 DEF Order, TypeStore
<1>6. TypeSession' /\ Covered' /\ RoomChecked'
  BY <1>1, <1>3, <1>4, <1>5 DEF TypeSession, Covered, RoomChecked
<1>7. StoreInv' /\ NothingLeaks'
  BY <1>3 DEF LeakInv, StoreInv, TypeStore, GrantedNow, CacheDated, HotIsCut,
    NothingLeaks
<1>8. CacheTrue'
  BY <1>3, <1>4 DEF LeakInv, SessionInv, CacheTrue
<1>9. QED
  BY <1>6, <1>7, <1>8 DEF LeakInv, SessionInv

LEMMA WrittenStep ==
    ASSUME LeakInv, Written
    PROVE  LeakInv'
<1>1. TypeSession /\ Covered /\ RoomChecked
  BY DEF LeakInv, SessionInv
<1>2. /\ cmd.at = "written" /\ cmd' = [cmd EXCEPT !.at = "publish"]
      /\ loop' = [Free EXCEPT !.at = "command"]
      /\ Rest /\ UNCHANGED <<counter, journal, cache, inbound, leaked>>
  BY DEF Written
<1>3. current' \in Room \cup {None}
  BY <1>1 DEF Written, TypeSession, Order
<1>4. loop' \in Stretch /\ loop'.at = "command" /\ loop'.stamp = None
  BY <1>2 DEF Free, Stretch
<1>5. /\ cmd' \in Order /\ cmd'.at = "publish" /\ cmd'.kind = cmd.kind
      /\ cmd'.room = cmd.room /\ cmd'.since = cmd.since
  BY <1>1, <1>2 DEF TypeSession, Order
<1>6. TypeSession' /\ Covered' /\ RoomChecked'
  BY <1>1, <1>2, <1>3, <1>4, <1>5 DEF TypeSession, Covered, RoomChecked, Rest
<1>7. QED
  BY <1>2, <1>4, <1>6, Apart

LEMMA HistoryStep ==
    ASSUME LeakInv, History
    PROVE  LeakInv'
<1>1. TypeSession /\ Covered /\ RoomChecked /\ NothingLeaks
  BY DEF LeakInv, SessionInv
<1>2. /\ loop.at = "free" /\ cmd.at = "history" /\ cmd' = NoCommand
      /\ Rest
      /\ UNCHANGED <<counter, journal, cache, current, inbound, loop>>
  BY DEF History, session
<1>3. cmd.room \in cmd.since
  BY <1>1, <1>2 DEF RoomChecked
<1>4. leaked' = leaked
  BY <1>1, <1>3 DEF History, Shows, NothingLeaks
<1>5. TypeSession' /\ Covered' /\ RoomChecked'
  BY <1>1, <1>2, Values DEF TypeSession, Covered, RoomChecked, Rest
<1>6. loop'.stamp = None
  BY <1>1, <1>2 DEF Covered
<1>7. QED
  BY <1>2, <1>4, <1>5, <1>6, Apart

(* Enforce ends the command, lets it wait, or has it name a room.          *)
LEMMA EnforceStep ==
    ASSUME LeakInv, Enforce
    PROVE  LeakInv'
<1>1. TypeSession /\ Covered /\ RoomChecked
  BY DEF LeakInv, SessionInv
<1>2. PICK rooms \in SUBSET Room : Read(rooms) /\ Sweep(rooms)
  BY DEF Enforce
<1>3. /\ loop.at = "command" /\ loop.stamp # None /\ cmd.at = "enforce"
      /\ Rest /\ UNCHANGED <<inbound, leaked>>
      /\ PartStarts \/ ChatStarts \/ RoomNamed
  BY DEF Enforce, Running
<1>4. current' \in Room \cup {None}
  BY <1>1, <1>2 DEF Sweep, TypeSession
<1>5. \/ Ends
      \/ /\ \E at \in {"may", "written"} :
              \/ cmd' = [cmd EXCEPT !.at = at]
              \/ cmd' = [cmd EXCEPT !.at = at, !.room = current']
         /\ cmd'.at = "written" => cmd.kind = "part"
         /\ loop' = Free \/ loop' = [loop EXCEPT !.stamp = None]
  <2>1. CASE PartStarts
    BY <1>1, <2>1 DEF PartStarts, Awaits
  <2>2. CASE ChatStarts
    BY <1>1, <2>2 DEF ChatStarts, TypeSession, Order
  <2>3. CASE RoomNamed
    BY <1>1, <2>3 DEF RoomNamed, GoesOn, TypeSession, Order
  <2>4. QED
    BY <1>3, <2>1, <2>2, <2>3
<1>6. /\ loop' \in Stretch /\ loop'.stamp = None
      /\ loop'.at \in {"free", "command"}
  BY <1>1, <1>3, <1>5, Values DEF Ends, TypeSession, Stretch
<1>7. /\ cmd' \in Order
      /\ \/ cmd'.at = "idle" /\ loop'.at = "free"
         \/ /\ cmd'.at \in {"may", "written"} /\ cmd'.kind = cmd.kind
            /\ cmd'.since = cmd.since
            /\ cmd'.at = "written" => cmd'.kind = "part"
  <2>1. CASE Ends
    BY <2>1, Values DEF Ends
  <2>2. CASE ~Ends
    BY <1>1, <1>4, <1>5, <2>2 DEF TypeSession, Order
  <2>3. QED
    BY <2>1, <2>2
<1>8. TypeSession' /\ Covered' /\ RoomChecked'
  BY <1>1, <1>3, <1>4, <1>6, <1>7 DEF TypeSession, Covered, RoomChecked, Rest
<1>9. QED
  BY <1>2, <1>3, <1>6, <1>8, StretchEnds

(* An allowed command's room was granted since it began, or is noted as    *)
(* excused.                                                                *)
LEMMA CheckedSound ==
    ASSUME TypeSession, NEW rooms, rooms \subseteq cmd.since \cup Excused,
           Allowed(rooms), NEW at \in {"written", "publish", "history"},
           NEW shows \in Room \cup {None}, Checked(at, shows)
    PROVE  /\ cmd' \in Order /\ cmd'.at = at /\ cmd'.kind = cmd.kind
           /\ cmd'.room = cmd.room /\ cmd.since \subseteq cmd'.since
           /\ cmd'.room \in cmd'.since
<1>1. cmd.room \in cmd.since \cup Excused
  BY DEF Allowed
<1>2. Excused \subseteq Room
  BY DEF Excused
<1>3. QED
  BY <1>1, <1>2 DEF Checked, TypeSession, Order

LEMMA MayStep ==
    ASSUME LeakInv, May
    PROVE  LeakInv'
<1>1. TypeSession /\ Covered /\ RoomChecked /\ NothingLeaks
  BY DEF LeakInv, SessionInv
<1>2. PICK rooms \in SUBSET Room :
        /\ Read(rooms)
        /\ IF Allowed(rooms)
           THEN JoinWrites \/ Switches \/ AsksHistory \/ SendsLine
           ELSE Refused
  BY DEF May
<1>3. /\ loop.at = "command" /\ loop.stamp # None /\ cmd.at = "may"
      /\ Rest /\ inbound' = inbound
  BY DEF May, Running
<1>4. rooms \subseteq cmd.since \cup Excused
  BY <1>2, <1>3, ReadSound DEF Since
<1>5. CASE Ends
  <2>1. loop' = Free /\ cmd' = NoCommand
    BY <1>5 DEF Ends
  <2>2. current' = current /\ leaked' = leaked
    <3>1. CASE Allowed(rooms) /\ SendsLine
      BY <1>1, <1>4, <3>1 DEF SendsLine, Shows, Allowed
    <3>2. CASE ~Allowed(rooms)
      BY <1>2, <3>2 DEF Refused
    <3>3. CASE Allowed(rooms) /\ (JoinWrites \/ Switches \/ AsksHistory)
      <4>1. \E at \in {"written", "publish", "history"} : cmd'.at = at
        BY <1>1, <3>3 DEF JoinWrites, Switches, AsksHistory, Checked, TypeSession,
          Order
      <4>2. QED
        BY <2>1, <4>1, Values
    <3>4. QED
      BY <1>2, <3>1, <3>2, <3>3
  <2>3. TypeSession' /\ Covered' /\ RoomChecked'
    BY <1>1, <1>3, <2>1, <2>2, Values DEF TypeSession, Covered, RoomChecked, Rest
  <2>4. QED
    BY <1>2, <1>3, <2>1, <2>2, <2>3, Values, StretchEnds
<1>6. CASE ~Ends
  <2>1. Allowed(rooms) /\ (JoinWrites \/ Switches \/ AsksHistory)
    BY <1>2, <1>6 DEF Refused, SendsLine
  <2>2. /\ leaked' = leaked /\ current' \in Room \cup {None}
        /\ \/ loop' = Free
           \/ loop' = [loop EXCEPT !.stamp = None]
        /\ cmd.kind # "part"
    BY <1>1, <2>1 DEF JoinWrites, Switches, AsksHistory, TypeSession, Order
  <2>3. PICK at \in {"written", "publish", "history"}, shows \in Room \cup {None} :
            Checked(at, shows)
    BY <1>1, <2>1 DEF JoinWrites, Switches, AsksHistory, TypeSession, Order
  <2>4. /\ cmd' \in Order /\ cmd'.at = at /\ cmd'.kind = cmd.kind
        /\ cmd'.room = cmd.room /\ cmd.since \subseteq cmd'.since
        /\ cmd'.room \in cmd'.since
    BY <1>1, <1>4, <2>1, <2>3, CheckedSound
  <2>5. /\ loop' \in Stretch /\ loop'.stamp = None
        /\ loop'.at \in {"free", "command"}
    BY <1>1, <1>3, <2>2, Values DEF TypeSession, Stretch
  <2>6. TypeSession' /\ Covered' /\ RoomChecked'
    BY <1>1, <1>3, <2>2, <2>4, <2>5 DEF TypeSession, Covered, RoomChecked, Rest
  <2>7. QED
    BY <1>2, <1>3, <2>2, <2>5, <2>6, StretchEnds
<1>7. QED
  BY <1>5, <1>6

LEMMA PublishStep ==
    ASSUME LeakInv, Publish
    PROVE  LeakInv'
<1>1. TypeSession /\ Covered /\ RoomChecked /\ NothingLeaks
  BY DEF LeakInv, SessionInv
<1>2. PICK rooms \in SUBSET Room : Read(rooms) /\ Sweep(rooms)
  BY DEF Publish
<1>3. /\ loop.at = "command" /\ loop.stamp # None /\ cmd.at = "publish"
      /\ Rest /\ inbound' = inbound
  BY DEF Publish, Running
<1>4. rooms \subseteq cmd.since \cup Excused
  BY <1>2, <1>3, ReadSound DEF Since
<1>5. joined' \subseteq rooms /\ current' \in Room \cup {None}
  BY <1>1, <1>2 DEF Sweep, TypeSession
<1>6. leaked' = leaked
  BY <1>1, <1>4, <1>5 DEF Publish, Shows
<1>7. loop' = Free
  BY DEF Publish, Ends
<1>8. \/ cmd' = NoCommand
      \/ cmd.kind # "part" /\ cmd' = [cmd EXCEPT !.at = "history", !.view = cmd.room]
  BY DEF Publish, Ends
<1>9. /\ cmd' \in Order
      /\ \/ cmd'.at = "idle"
         \/ /\ cmd'.at = "history" /\ cmd'.kind = cmd.kind /\ cmd.kind # "part"
            /\ cmd'.since = cmd.since /\ cmd'.room = cmd.room
  BY <1>1, <1>8, Values DEF TypeSession, Order
<1>10. TypeSession' /\ Covered' /\ RoomChecked'
  BY <1>1, <1>3, <1>5, <1>7, <1>9, Values DEF TypeSession, Covered, RoomChecked, Rest
<1>11. QED
  BY <1>2, <1>3, <1>6, <1>7, <1>10, Values, StretchEnds

LEMMA NextLeak == LeakInv /\ [Next]_vars => LeakInv'
<1>1. SUFFICES ASSUME LeakInv, [Next]_vars PROVE LeakInv'
  OBVIOUS
<1>2. CASE Tick \/ Begin \/ Flush \/ Commit \/ Die \/ TakeStamp
  BY <1>1, <1>2, TickStep, BeginStep, FlushStep, CommitStep, DieStep, TakeStampStep
<1>3. CASE (\E r \in Room : Say(r) \/ PartTask(r)) \/ Line
  BY <1>1, <1>3, SayPartStep, LineArrivesStep, LineSweepsStep, LineShownStep DEF Line
<1>4. CASE Execute \/ Command
  BY <1>1, <1>4, ExecuteStep, EnforceStep, MayStep, WrittenStep, PublishStep,
    HistoryStep DEF Command
<1>5. CASE UNCHANGED vars
  BY <1>1, <1>5 DEF vars, store, session, LeakInv, StoreInv, SessionInv, TypeStore,
    GrantedNow, CacheDated, HotIsCut, TypeSession, Covered, CacheTrue, RoomChecked,
    NothingLeaks, Since
<1>6. QED
  BY <1>1, <1>2, <1>3, <1>4, <1>5 DEF Next
-----------------------------------------------------------------------------
(* What the grants, the cache and the stretches keep together.             *)
THEOREM RoomsLeakInv == Spec => []LeakInv
BY InitLeak, NextLeak, PTL DEF Spec

(* Nothing of a room is shown or sent that was not granted at some moment  *)
(* since the line came in or the command began, but for the lifetime of an *)
(* entry that a dead writer's stamp let pass (_cached, dispatch, execute). *)
THEOREM NothingOfRevokedRooms == Spec => []NothingLeaks
<1>1. LeakInv => NothingLeaks
  BY DEF LeakInv
<1>2. QED
  BY <1>1, RoomsLeakInv, PTL
-----------------------------------------------------------------------------
(***************************************************************************)
(* The queries: for any number of joined rooms and any of the bound on     *)
(* events, there is one WHO at a time for every room, and what is shown    *)
(* once all is done is new.                                                *)
(*                                                                         *)
(* Everything rests on the locks: a lock is a line of the coroutines that  *)
(* wait for it (LineUp), so the query whose answer is on its way is the    *)
(* head's (OneAnswer), and the buffer holds the row of that answer and no  *)
(* other (Travel, Held).  The list and the graph then each need a reason   *)
(* to be new, now or later, that every step hands on (RosterKept,          *)
(* GraphKept).                                                             *)
(***************************************************************************)

(* The coroutine has joined the lock of the key of its room.               *)

Waiting == {"lock", "sent", "answered"}
Waits(p) == task[p].at \in Waiting

(* Where each of the three can be.                                         *)
Roles(ts) ==
    /\ ts["roster"].at \in {"idle"} \cup Waiting
    /\ ts["mesh"].at \in {"idle", "new"} \cup Waiting
    /\ ts["exec"].at \in {"idle", "history", "refresh"} \cup Waiting

Typed ==
    /\ TypeOK
    /\ \A r \in Rooms : members[r] <= events /\ noted[r] <= members[r]
    /\ cur # 0 => due <= members[cur]
    /\ \A p \in Procs : Waits(p) => task[p].room \in Rooms
    /\ Roles(task)

(* The lock of a key is a line of those who wait, without repetition, and  *)
(* only its head has a query out.                                          *)
LineUp ==
    /\ \A r \in Rooms : \A i \in DOMAIN queue[r] :
          Waits(queue[r][i]) /\ task[queue[r][i]].room = r
    /\ \A r \in Rooms : \A i, j \in DOMAIN queue[r] : queue[r][i] = queue[r][j] => i = j
    /\ \A p \in Procs : Waits(p) =>
          \E i \in DOMAIN queue[task[p].room] : queue[task[p].room][i] = p
    /\ \A p \in Procs : task[p].at \in {"sent", "answered"} => MyTurn(p)

(* The locks without the one that goes on.                                 *)
Left(p) ==
    IF Waits(p) THEN [queue EXCEPT ![task[p].room] = Tail(@)] ELSE queue

(* What a coroutine does to the locks when it goes on.                     *)
Moves(p) ==
    /\ Waits(p) => MyTurn(p)
    /\ task' \in [Procs -> Task]
    /\ \A q \in Procs \ {p} :
          task'[q] = task[q] \/ (~Waits(q) /\ ~(task'[q].at \in Waiting))
    /\ \/ ~(task'[p].at \in Waiting) /\ queue' = Left(p)
       \/ \E r \in Rooms :
             /\ task'[p].at = "lock" /\ task'[p].room = r
             /\ queue' = [Left(p) EXCEPT ![r] = Append(@, p)]

(* Or it stays where it is in them.                                        *)
Stays ==
    /\ queue' = queue
    /\ task' \in [Procs -> Task]
    /\ \A q \in Procs :
          /\ Waits(q) <=> task'[q].at \in Waiting
          /\ Waits(q) => task'[q].room = task[q].room
          /\ task'[q].at \in {"sent", "answered"} => MyTurn(q)

(* Or it does not touch who is in line.                                    *)
Rests == Stays /\ \A q \in Procs : Waits(q) => task'[q] = task[q]

LEMMA Constants ==
    /\ LastRoom \in Nat \ {0} /\ MaxEvents \in Nat
    /\ 1 \in Rooms
    /\ \A r \in Rooms : r \in Nat /\ r # 0 /\ r \in 0..LastRoom
    /\ \A r \in Rooms : r < LastRoom => r + 1 \in Rooms
    /\ 0 \in Rows /\ NoLists \in Lists
BY MembersOK DEF Rooms, Rows, NoLists, Lists

LEMMA IdleTyped == Idle \in Task /\ Idle.at = "idle"
BY Constants DEF Idle, Task, Places, Purposes

LEMMA AskingTyped ==
    ASSUME NEW r \in Rooms, NEW got \in Lists, NEW for \in Purposes
    PROVE  /\ Asking(r, got, for) \in Task
           /\ Asking(r, got, for).at = "lock"
           /\ Asking(r, got, for).room = r
BY Constants DEF Asking, Task, Places

LEMMA LeftTyped ==
    ASSUME Typed, LineUp, NEW p \in Procs
    PROVE  Left(p) \in [Rooms -> Seq(Procs)]
<1>1. ASSUME Waits(p)
      PROVE  task[p].room \in Rooms /\ queue[task[p].room] # <<>>
  BY <1>1 DEF Typed, LineUp
<1>2. queue \in [Rooms -> Seq(Procs)]
  BY DEF Typed, TypeOK
<1>. QED
  BY <1>1, <1>2 DEF Left

LEMMA Queues ==
    ASSUME NEW S, NEW q \in Seq(S)
    PROVE  /\ Len(q) \in Nat /\ DOMAIN q = 1..Len(q)
           /\ \A i \in DOMAIN q : q[i] \in S
           /\ q # <<>> =>
                /\ Len(q) > 0 /\ Head(q) = q[1] /\ Head(q) \in S
                /\ Tail(q) \in Seq(S)
                /\ Len(Tail(q)) = Len(q) - 1
                /\ \A i \in 1..(Len(q) - 1) : Tail(q)[i] = q[i + 1]
           /\ \A p \in S :
                /\ Append(q, p) \in Seq(S)
                /\ Len(Append(q, p)) = Len(q) + 1
                /\ Append(q, p)[Len(q) + 1] = p
                /\ \A i \in 1..Len(q) : Append(q, p)[i] = q[i]
           /\ \A a, b \in S :
                /\ q \o <<a, b>> \in Seq(S)
                /\ Len(q \o <<a, b>>) = Len(q) + 2
                /\ (q \o <<a, b>>)[Len(q) + 1] = a
                /\ (q \o <<a, b>>)[Len(q) + 2] = b
                /\ \A i \in 1..Len(q) : (q \o <<a, b>>)[i] = q[i]
OBVIOUS

LEMMA MovesTyped ==
    ASSUME Typed, LineUp, NEW p \in Procs, Moves(p)
    PROVE  queue' \in [Rooms -> Seq(Procs)]
<1>1. Left(p) \in [Rooms -> Seq(Procs)]
  BY LeftTyped
<1>2. CASE queue' = Left(p)
  BY <1>1, <1>2
<1>3. ASSUME NEW r \in Rooms, queue' = [Left(p) EXCEPT ![r] = Append(@, p)]
      PROVE  queue' \in [Rooms -> Seq(Procs)]
  BY <1>1, <1>3
<1>. QED
  BY <1>2, <1>3 DEF Moves

(* Who is left in a line after p's leaving.                                *)
LEMMA LeftLine ==
    ASSUME Typed, LineUp, NEW p \in Procs, Waits(p) => MyTurn(p), NEW r \in Rooms,
           NEW i \in DOMAIN Left(p)[r]
    PROVE  /\ Left(p)[r][i] \in Procs \ {p}
           /\ Waits(Left(p)[r][i]) /\ task[Left(p)[r][i]].room = r
           /\ \A j \in DOMAIN Left(p)[r] : Left(p)[r][i] = Left(p)[r][j] => i = j
<1>1. queue[r] \in Seq(Procs)
  BY DEF Typed, TypeOK
<1>2. CASE Waits(p) /\ task[p].room = r
  <2>1. queue[r] # <<>> /\ queue[r][1] = p
    BY <1>1, <1>2, Queues DEF LineUp, MyTurn
  <2>2. Left(p)[r] = Tail(queue[r])
    BY <1>2, Typed DEF Left, Typed, TypeOK
  <2>3. /\ DOMAIN Left(p)[r] = 1..(Len(queue[r]) - 1)
        /\ Len(queue[r]) \in Nat /\ DOMAIN queue[r] = 1..Len(queue[r])
        /\ \A j \in DOMAIN Left(p)[r] : Left(p)[r][j] = queue[r][j + 1]
    BY <1>1, <2>1, <2>2, Queues
  <2>4. \A j \in DOMAIN Left(p)[r] : j + 1 \in DOMAIN queue[r] /\ j + 1 # 1 /\ j \in Nat
    BY <2>3
  <2>5. queue[r][i + 1] # p
    BY <2>1, <2>3, <2>4 DEF LineUp
  <2>6. i + 1 \in DOMAIN queue[r] /\ queue[r][i + 1] \in Procs
    BY <1>1, <2>4, <2>3
  <2>7. ASSUME NEW j \in DOMAIN Left(p)[r], Left(p)[r][i] = Left(p)[r][j]
        PROVE  i = j
    <3>1. queue[r][i + 1] = queue[r][j + 1]
      BY <2>3, <2>7
    <3>2. i + 1 \in DOMAIN queue[r] /\ j + 1 \in DOMAIN queue[r]
      BY <2>4
    <3>3. i + 1 = j + 1
      BY <3>1, <3>2 DEF LineUp
    <3>. QED
      BY <3>3, <2>4
  <2>. QED
    BY <2>3, <2>5, <2>6, <2>7 DEF LineUp
<1>3. CASE ~(Waits(p) /\ task[p].room = r)
  <2>1. Left(p)[r] = queue[r]
    BY <1>3 DEF Left, Typed, TypeOK
  <2>2. queue[r][i] \in Procs
    BY <1>1, <2>1
  <2>. QED
    BY <1>3, <2>1, <2>2 DEF LineUp
<1>. QED
  BY <1>2, <1>3

LEMMA LeftHas ==
    ASSUME Typed, LineUp, NEW p \in Procs, Waits(p) => MyTurn(p),
           NEW q \in Procs \ {p}, Waits(q)
    PROVE  /\ \E i \in DOMAIN Left(p)[task[q].room] : Left(p)[task[q].room][i] = q
           /\ queue[task[q].room] # <<>>
           /\ MyTurn(q) => /\ Head(Left(p)[task[q].room]) = q
                           /\ ~(Waits(p) /\ task[p].room = task[q].room)
<1>. DEFINE r == task[q].room
<1>1. r \in Rooms /\ queue[r] \in Seq(Procs)
  BY DEF Typed, TypeOK
<1>2. PICK i \in DOMAIN queue[r] : queue[r][i] = q
  BY DEF LineUp
<1>3. CASE Waits(p) /\ task[p].room = r
  <2>1. queue[r] # <<>> /\ queue[r][1] = p /\ Head(queue[r]) = p
    BY <1>1, <1>3, Queues DEF LineUp, MyTurn
  <2>2. Left(p)[r] = Tail(queue[r])
    BY <1>1, <1>3 DEF Left, Typed, TypeOK
  <2>3. /\ DOMAIN Left(p)[r] = 1..(Len(queue[r]) - 1)
        /\ Len(queue[r]) \in Nat /\ DOMAIN queue[r] = 1..Len(queue[r])
        /\ \A j \in DOMAIN Left(p)[r] : Left(p)[r][j] = queue[r][j + 1]
    BY <1>1, <2>1, <2>2, Queues
  <2>4. i # 1 /\ i \in 1..Len(queue[r])
    BY <1>2, <2>1, <2>3
  <2>5. i - 1 \in DOMAIN Left(p)[r] /\ (i - 1) + 1 = i
    BY <2>3, <2>4
  <2>6. Left(p)[r][i - 1] = q
    BY <1>2, <2>3, <2>5
  <2>7. ~MyTurn(q)
    BY <2>1 DEF MyTurn
  <2>. QED
    BY <2>1, <2>5, <2>6, <2>7
<1>4. CASE ~(Waits(p) /\ task[p].room = r)
  <2>1. Left(p)[r] = queue[r]
    BY <1>1, <1>4 DEF Left, Typed, TypeOK
  <2>2. queue[r] # <<>>
    BY <1>1, <1>2
  <2>. QED
    BY <1>2, <1>4, <2>1, <2>2 DEF MyTurn
<1>. QED
  BY <1>3, <1>4

LEMMA MovesLineUp ==
    ASSUME Typed, LineUp, NEW p \in Procs, Moves(p)
    PROVE  LineUp'
<1>1. Left(p) \in [Rooms -> Seq(Procs)] /\ queue' \in [Rooms -> Seq(Procs)]
  BY LeftTyped, MovesTyped
<1>2. \A q \in Procs : Waits(q)' <=> task'[q].at \in Waiting
  BY DEF Waits
<1>3. \A q \in Procs \ {p} : Waits(q)' <=> Waits(q)
  BY <1>2 DEF Moves, Waits
<1>4. \A q \in Procs \ {p} : Waits(q) => task'[q] = task[q]
  BY DEF Moves
<1>5. \A r \in Rooms : \A i \in DOMAIN Left(p)[r] :
        /\ Left(p)[r][i] \in Procs \ {p}
        /\ task'[Left(p)[r][i]].at \in Waiting /\ task'[Left(p)[r][i]].room = r
        /\ \A j \in DOMAIN Left(p)[r] : Left(p)[r][i] = Left(p)[r][j] => i = j
  BY <1>2, <1>3, <1>4, LeftLine DEF Moves
<1>6. \A q \in Procs \ {p} : task'[q].at \in Waiting =>
        /\ task'[q].room \in Rooms
        /\ \E i \in DOMAIN Left(p)[task'[q].room] : Left(p)[task'[q].room][i] = q
        /\ task'[q].at \in {"sent", "answered"} =>
              Left(p)[task'[q].room] # <<>> /\ Head(Left(p)[task'[q].room]) = q
  <2>1. SUFFICES ASSUME NEW q \in Procs \ {p}, task'[q].at \in Waiting
                 PROVE  /\ task[q].room \in Rooms
                        /\ \E i \in DOMAIN Left(p)[task[q].room] :
                              Left(p)[task[q].room][i] = q
                        /\ task[q].at \in {"sent", "answered"} =>
                              /\ Left(p)[task[q].room] # <<>>
                              /\ Head(Left(p)[task[q].room]) = q
    BY <1>2, <1>3, <1>4
  <2>2. Waits(q)
    BY <1>2, <1>3, <2>1
  <2>3. task[q].room \in Rooms
    BY <2>2 DEF Typed
  <2>4. PICK i \in DOMAIN Left(p)[task[q].room] : Left(p)[task[q].room][i] = q
    BY <2>2, LeftHas DEF Moves
  <2>5. Left(p)[task[q].room] # <<>>
    BY <1>1, <2>3, <2>4
  <2>6. task[q].at \in {"sent", "answered"} => Head(Left(p)[task[q].room]) = q
    BY <2>2, LeftHas DEF Moves, LineUp
  <2>. QED
    BY <2>3, <2>4, <2>5, <2>6
<1>7. CASE ~(task'[p].at \in Waiting) /\ queue' = Left(p)
  <2>1. \A q \in Procs : task'[q].at \in Waiting => q \in Procs \ {p}
    BY <1>7
  <2>2. \A r \in Rooms : \A i \in DOMAIN queue'[r] :
          task'[queue'[r][i]].at \in Waiting /\ task'[queue'[r][i]].room = r
    BY <1>5, <1>7
  <2>3. \A r \in Rooms : \A i, j \in DOMAIN queue'[r] : queue'[r][i] = queue'[r][j] => i = j
    BY <1>5, <1>7
  <2>4. \A q \in Procs : task'[q].at \in Waiting =>
          \E i \in DOMAIN queue'[task'[q].room] : queue'[task'[q].room][i] = q
    BY <1>6, <1>7, <2>1
  <2>5. \A q \in Procs : task'[q].at \in {"sent", "answered"} =>
          Head(queue'[task'[q].room]) = q
    BY <1>6, <1>7, <2>1 DEF Waiting
  <2>. QED
    BY <2>2, <2>3, <2>4, <2>5 DEF LineUp, Waits, MyTurn
<1>8. ASSUME NEW s \in Rooms, task'[p].at = "lock", task'[p].room = s,
             queue' = [Left(p) EXCEPT ![s] = Append(@, p)]
      PROVE  LineUp'
  <2>. DEFINE L == Left(p)
  <2>1. /\ \A r \in Rooms \ {s} : queue'[r] = L[r]
        /\ Len(L[s]) \in Nat /\ DOMAIN L[s] = 1..Len(L[s])
        /\ DOMAIN queue'[s] = 1..(Len(L[s]) + 1)
        /\ queue'[s][Len(L[s]) + 1] = p
        /\ \A i \in DOMAIN L[s] : queue'[s][i] = L[s][i]
    <3>1. L[s] \in Seq(Procs) /\ queue'[s] = Append(L[s], p)
      BY <1>1, <1>8
    <3>2. \A r \in Rooms \ {s} : queue'[r] = L[r]
      BY <1>1, <1>8
    <3>3. Append(L[s], p) \in Seq(Procs)
      BY <3>1
    <3>. HIDE DEF L
    <3>. QED
      BY <3>1, <3>2, <3>3, Queues
  <2>2. \A i \in DOMAIN queue'[s] : i \in DOMAIN L[s] \/ i = Len(L[s]) + 1
    BY <2>1
  <2>3. \A r \in Rooms : \A i \in DOMAIN queue'[r] :
          task'[queue'[r][i]].at \in Waiting /\ task'[queue'[r][i]].room = r
    <3>1. SUFFICES ASSUME NEW r \in Rooms, NEW i \in DOMAIN queue'[r]
                   PROVE  task'[queue'[r][i]].at \in Waiting /\ task'[queue'[r][i]].room = r
      OBVIOUS
    <3>2. CASE r # s \/ i \in DOMAIN L[s]
      BY <1>5, <2>1, <3>2
    <3>3. CASE r = s /\ i = Len(L[s]) + 1
      BY <1>8, <2>1, <3>3 DEF Waiting
    <3>. QED
      BY <2>2, <3>2, <3>3
  <2>4. \A r \in Rooms : \A i, j \in DOMAIN queue'[r] : queue'[r][i] = queue'[r][j] => i = j
    <3>1. SUFFICES ASSUME NEW r \in Rooms, NEW i \in DOMAIN queue'[r],
                          NEW j \in DOMAIN queue'[r], queue'[r][i] = queue'[r][j]
                   PROVE  i = j
      OBVIOUS
    <3>2. CASE r # s
      BY <1>5, <2>1, <3>1, <3>2
    <3>3. CASE r = s
      <4>1. CASE i \in DOMAIN L[s] /\ j \in DOMAIN L[s]
        BY <1>5, <2>1, <3>1, <3>3, <4>1
      <4>2. \A k \in DOMAIN L[s] : queue'[s][k] # p
        BY <1>5, <2>1
      <4>. QED
        BY <2>1, <2>2, <3>1, <3>3, <4>1, <4>2
    <3>. QED
      BY <3>2, <3>3
  <2>5. \A q \in Procs : task'[q].at \in Waiting =>
          \E i \in DOMAIN queue'[task'[q].room] : queue'[task'[q].room][i] = q
    <3>1. SUFFICES ASSUME NEW q \in Procs \ {p}, task'[q].at \in Waiting
                   PROVE  \E i \in DOMAIN queue'[task'[q].room] : queue'[task'[q].room][i] = q
      BY <1>8, <2>1
    <3>2. PICK i \in DOMAIN L[task'[q].room] : L[task'[q].room][i] = q
      BY <1>6, <3>1
    <3>3. task'[q].room \in Rooms
      BY <1>6, <3>1
    <3>4. i \in DOMAIN queue'[task'[q].room] /\ queue'[task'[q].room][i] = q
      BY <2>1, <3>2, <3>3
    <3>. QED
      BY <3>4
  <2>6. \A q \in Procs : task'[q].at \in {"sent", "answered"} =>
          Head(queue'[task'[q].room]) = q
    <3>1. SUFFICES ASSUME NEW q \in Procs \ {p}, task'[q].at \in {"sent", "answered"}
                   PROVE  Head(queue'[task'[q].room]) = q
      BY <1>8
    <3>2. /\ task'[q].room \in Rooms
          /\ L[task'[q].room] # <<>> /\ Head(L[task'[q].room]) = q
      BY <1>6, <3>1 DEF Waiting
    <3>3. CASE task'[q].room # s
      BY <2>1, <3>2, <3>3
    <3>4. CASE task'[q].room = s
      <4>1. L[s] \in Seq(Procs) /\ L[s] # <<>> /\ queue'[s] = Append(L[s], p)
        BY <1>1, <1>8, <3>2, <3>4
      <4>2. Head(Append(L[s], p)) = Head(L[s])
        BY <4>1
      <4>. QED
        BY <3>2, <3>4, <4>1, <4>2
    <3>. QED
      BY <3>3, <3>4
  <2>. QED
    BY <2>3, <2>4, <2>5, <2>6 DEF LineUp, Waits, MyTurn
<1>. QED
  BY <1>7, <1>8 DEF Moves

LEMMA StaysLineUp ==
    ASSUME Typed, LineUp, Stays
    PROVE  LineUp'
<1>1. /\ \A q \in Procs : Waits(q)' <=> Waits(q)
      /\ \A r \in Rooms : queue[r] \in Seq(Procs)
  BY DEF Stays, Waits, Typed, TypeOK
<1>2. \A r \in Rooms : \A i \in DOMAIN queue[r] : queue[r][i] \in Procs
  BY <1>1
<1>3. \A q \in Procs : task'[q].at \in {"sent", "answered"} => Head(queue'[task'[q].room]) = q
  BY DEF Stays, MyTurn, Waiting
<1>4. \A r \in Rooms : \A i \in DOMAIN queue[r] :
          Waits(queue[r][i])' /\ task'[queue[r][i]].room = r
  BY <1>1, <1>2 DEF Stays, LineUp
<1>5. \A q \in Procs : Waits(q)' =>
          \E i \in DOMAIN queue'[task'[q].room] : queue'[task'[q].room][i] = q
  BY <1>1 DEF Stays, LineUp
<1>. QED
  BY <1>3, <1>4, <1>5 DEF LineUp, MyTurn, Stays
-----------------------------------------------------------------------------
LEMMA RosterRoundMoves ==
    ASSUME Typed, LineUp, Waits("roster") => MyTurn("roster"),
           NEW again \in BOOLEAN, NEW ts \in [Procs -> Task], Roles(ts),
           \A p \in Procs \ {"roster"} :
               ts[p] = task[p] \/ (~Waits(p) /\ ~(ts[p].at \in Waiting)),
           RosterRound(again, Left("roster"), ts)
    PROVE  Moves("roster") /\ Roles(task') /\ dirty' \in BOOLEAN
<1>. DEFINE asks == again /\ cur # 0 /\ connected
            done == IF ts["exec"].at = "refresh" THEN [ts EXCEPT !["exec"] = Idle] ELSE ts
<1>1. done \in [Procs -> Task] /\ Roles(done)
  BY IdleTyped DEF Procs, Roles
<1>2. \A p \in Procs \ {"roster"} :
          done[p] = task[p] \/ (~Waits(p) /\ ~(done[p].at \in Waiting))
  BY IdleTyped DEF Procs, Waits, Waiting, Roles
<1>3. dirty' \in BOOLEAN
  BY DEF RosterRound
<1>4. CASE asks
  <2>1. cur \in Rooms
    BY <1>4, Constants DEF Typed, TypeOK, Rooms
  <2>2. /\ task' = [ts EXCEPT !["roster"] = Asking(cur, NoLists, "view")]
        /\ queue' = [Left("roster") EXCEPT ![cur] = Append(@, "roster")]
    BY <1>4 DEF RosterRound
  <2>3. /\ Asking(cur, NoLists, "view") \in Task
        /\ Asking(cur, NoLists, "view").at = "lock"
        /\ Asking(cur, NoLists, "view").room = cur
    BY <2>1, AskingTyped, Constants DEF Purposes
  <2>. HIDE DEF asks
  <2>4. Moves("roster")
    BY <2>1, <2>2, <2>3 DEF Moves, Procs
  <2>5. Roles(task')
    BY <2>2, <2>3 DEF Roles, Procs, Waiting
  <2>. QED
    BY <1>3, <2>4, <2>5
<1>5. CASE ~asks
  <2>1. task' = [done EXCEPT !["roster"] = Idle] /\ queue' = Left("roster")
    BY <1>5 DEF RosterRound
  <2>. HIDE DEF done, asks
  <2>2. Moves("roster")
    BY <1>1, <1>2, <2>1, IdleTyped DEF Moves, Procs, Waiting
  <2>3. Roles(task')
    BY <1>1, <2>1, IdleTyped DEF Roles, Procs
  <2>. QED
    BY <1>3, <2>2, <2>3
<1>. QED
  BY <1>4, <1>5

(* What p becomes when it goes on to room r, or ends.                      *)
LEMMA AsksNext ==
    ASSUME Typed, LineUp, NEW p \in {"mesh", "exec"}, Waits(p) => MyTurn(p),
           \/ task' = [task EXCEPT ![p] = Idle] /\ queue' = Left(p)
           \/ \E r \in Rooms, got \in Lists, for \in Purposes :
                 /\ task' = [task EXCEPT ![p] = Asking(r, got, for)]
                 /\ queue' = [Left(p) EXCEPT ![r] = Append(@, p)]
    PROVE  Moves(p) /\ Roles(task')
<1>0. task \in [Procs -> Task] /\ Roles(task) /\ p \in Procs
  BY DEF Typed, TypeOK, Procs
<1>1. CASE task' = [task EXCEPT ![p] = Idle] /\ queue' = Left(p)
  BY <1>0, <1>1, IdleTyped DEF Moves, Roles, Procs, Waiting
<1>2. ASSUME NEW r \in Rooms, NEW got \in Lists, NEW for \in Purposes,
             task' = [task EXCEPT ![p] = Asking(r, got, for)],
             queue' = [Left(p) EXCEPT ![r] = Append(@, p)]
      PROVE  Moves(p) /\ Roles(task')
  <2>1. /\ Asking(r, got, for) \in Task
        /\ Asking(r, got, for).at = "lock"
        /\ Asking(r, got, for).room = r
    BY AskingTyped
  <2>. QED
    BY <1>0, <1>2, <2>1 DEF Moves, Roles, Procs, Waiting
<1>. QED
  BY <1>1, <1>2

LEMMA StartBuildMoves ==
    ASSUME Typed, LineUp, NEW p \in {"mesh", "exec"}, ~Waits(p), StartBuild(p, queue)
    PROVE  Moves(p) /\ Roles(task') /\ canvas' \in Lists
<1>1. Left(p) = queue
  BY DEF Left
<1>2. CASE connected
  BY <1>1, <1>2, AsksNext, Constants DEF StartBuild, Purposes, Typed, TypeOK
<1>3. CASE ~connected
  BY <1>1, <1>3, AsksNext, Constants DEF StartBuild, Typed, TypeOK
<1>. QED
  BY <1>2, <1>3

LEMMA BuildOnMoves ==
    ASSUME Typed, LineUp, NEW p \in {"mesh", "exec"}, Waits(p), MyTurn(p),
           NEW rows \in SUBSET Rows, BuildOn(p, rows, Left(p))
    PROVE  /\ Moves(p) /\ Roles(task')
           /\ canvas' \in Lists /\ meshDirty' \in BOOLEAN
<1>. DEFINE r == task[p].room
            got == [task[p].got EXCEPT ![r] = rows]
            again == p = "mesh" /\ DrainAgain
<1>1. r \in Rooms /\ task[p] \in Task /\ canvas \in Lists /\ meshDirty \in BOOLEAN
  BY DEF Typed, TypeOK, Procs
<1>2. got \in Lists
  BY <1>1 DEF Task, Lists
<1>3. CASE r < LastRoom
  <2>1. /\ task' = [task EXCEPT ![p] = Asking(r + 1, got, "view")]
        /\ queue' = [Left(p) EXCEPT ![r + 1] = Append(@, p)]
        /\ UNCHANGED <<canvas, meshDirty>>
    BY <1>3 DEF BuildOn
  <2>. QED
    BY <1>1, <1>2, <1>3, <2>1, AsksNext, Constants DEF Purposes
<1>4. CASE ~(r < LastRoom)
  <2>1. /\ canvas' = IF again /\ ~connected THEN NoLists ELSE got
        /\ meshDirty' = IF p = "mesh" THEN FALSE ELSE meshDirty
        /\ \/ /\ task' = [task EXCEPT ![p] = Asking(1, NoLists, "view")]
              /\ queue' = [Left(p) EXCEPT ![1] = Append(@, p)]
           \/ /\ task' = [task EXCEPT ![p] = Idle]
              /\ queue' = Left(p)
    BY <1>4 DEF BuildOn
  <2>2. canvas' \in Lists /\ meshDirty' \in BOOLEAN
    BY <1>1, <1>2, <2>1, Constants
  <2>3. Moves(p) /\ Roles(task')
    BY <2>1, AsksNext, Constants DEF Purposes
  <2>. QED
    BY <2>2, <2>3
<1>. QED
  BY <1>3, <1>4

LEMMA NicksOnMoves ==
    ASSUME Typed, LineUp, NEW p \in {"mesh", "exec"}, NEW ok, Waits(p), MyTurn(p),
           NicksOn(p, ok, Left(p))
    PROVE  Moves(p) /\ Roles(task') /\ view' \in {"chat", view}
<1>. DEFINE r == task[p].room
            more == task[p].for = "agents" /\ r < LastRoom
<1>1. r \in Rooms
  BY DEF Typed, Procs
<1>2. CASE more
  <2>1. /\ task' = [task EXCEPT ![p] = Asking(r + 1, NoLists, "agents")]
        /\ queue' = [Left(p) EXCEPT ![r + 1] = Append(@, p)]
    BY <1>2 DEF NicksOn
  <2>2. r + 1 \in Rooms /\ NoLists \in Lists /\ "agents" \in Purposes
    BY <1>1, <1>2, Constants DEF Purposes
  <2>3. view' = view
    BY <1>2 DEF NicksOn
  <2>. QED
    BY <2>1, <2>2, <2>3, AsksNext
<1>3. CASE ~more
  <2>1. view' \in {"chat", view}
    BY <1>3 DEF NicksOn
  <2>. QED
    BY <1>3, <2>1, AsksNext DEF NicksOn
<1>. QED
  BY <1>2, <1>3

LEMMA ReturnMoves ==
    ASSUME Typed, LineUp, NEW p \in Procs, Waits(p), MyTurn(p),
           NEW ok \in BOOLEAN, NEW rows \in SUBSET Rows, Return(p, ok, rows)
    PROVE  /\ Moves(p) /\ Roles(task')
           /\ dirty' \in BOOLEAN /\ meshDirty' \in BOOLEAN
           /\ canvas' \in Lists
           /\ view' \in {"chat", view}
           /\ roster' \in [of : 0..LastRoom, rows : SUBSET Rows]
           /\ buf' \in Lists /\ buf' = [buf EXCEPT ![task[p].room] = {}]
<1>0. /\ dirty \in BOOLEAN /\ meshDirty \in BOOLEAN /\ canvas \in Lists /\ buf \in Lists
      /\ roster \in [of : 0..LastRoom, rows : SUBSET Rows]
      /\ task \in [Procs -> Task] /\ Roles(task)
      /\ task[p].room \in Rooms
  BY DEF Typed, TypeOK
<1>1. [queue EXCEPT ![task[p].room] = Tail(@)] = Left(p)
  BY DEF Left
<1>2. buf' = [buf EXCEPT ![task[p].room] = {}]
  BY DEF Return
<1>3. buf' \in Lists
  BY <1>0, <1>2 DEF Lists
<1>4. CASE p = "roster"
  <2>1. /\ roster' = IF ok /\ task[p].room = cur THEN [of |-> task[p].room, rows |-> rows]
                                                ELSE roster
        /\ RosterRound(dirty, Left("roster"), task)
        /\ UNCHANGED <<view, canvas, meshDirty>>
    BY <1>1, <1>4 DEF Return
  <2>2. Moves("roster") /\ Roles(task') /\ dirty' \in BOOLEAN
    BY <1>0, <1>4, <2>1, RosterRoundMoves
  <2>3. roster' \in [of : 0..LastRoom, rows : SUBSET Rows]
    BY <1>0, <2>1, Constants
  <2>. QED
    BY <1>0, <1>2, <1>3, <1>4, <2>1, <2>2, <2>3
<1>5. CASE p # "roster"
  <2>1. p \in {"mesh", "exec"} /\ UNCHANGED <<roster, dirty>>
    BY <1>5 DEF Return, Procs
  <2>2. CASE task[p].for = "view"
    <3>1. BuildOn(p, rows, Left(p)) /\ UNCHANGED view
      BY <1>1, <1>5, <2>2 DEF Return
    <3>. QED
      BY <1>0, <1>2, <1>3, <2>1, <3>1, BuildOnMoves
  <2>3. CASE task[p].for # "view"
    <3>1. NicksOn(p, ok, Left(p)) /\ UNCHANGED <<canvas, meshDirty>>
      BY <1>1, <1>5, <2>3 DEF Return
    <3>. QED
      BY <1>0, <1>2, <1>3, <2>1, <3>1, NicksOnMoves
  <2>. QED
    BY <2>2, <2>3
<1>. QED
  BY <1>4, <1>5

-----------------------------------------------------------------------------
(* What Typed says of all but tasks and locks.                             *)
Others ==
    /\ cur \in 0..LastRoom
    /\ view \in {"chat", "mesh"}
    /\ watching \in BOOLEAN /\ connected \in BOOLEAN /\ dirty \in BOOLEAN
    /\ meshDirty \in BOOLEAN /\ late \in BOOLEAN
    /\ roster \in [of : 0..LastRoom, rows : SUBSET Rows]
    /\ canvas \in Lists
    /\ asked \in Nat
    /\ buf \in Lists
    /\ up \in Seq(Rooms)
    /\ down \in Seq(Lines)
    /\ members \in [Rooms -> Rows]
    /\ noted \in [Rooms -> Rows]
    /\ due \in Rows
    /\ events \in 0..MaxEvents
    /\ \A r \in Rooms : members[r] <= events /\ noted[r] <= members[r]
    /\ cur # 0 => due <= members[cur]

(* The present membership is what a request for the list has to bring.     *)
LEMMA PresentTyped ==
    ASSUME Typed, NEW r \in 0..LastRoom
    PROVE  /\ Present(r) \in Rows
           /\ r # 0 => Present(r) = members[r] /\ Present(r) <= members[r]
<1>1. CASE r = 0
  BY <1>1, Constants DEF Present
<1>2. CASE r # 0
  <2>1. r \in Rooms
    BY <1>2, Constants DEF Rooms
  <2>2. members[r] \in Rows /\ members[r] \in Nat
    BY <2>1 DEF Typed, TypeOK, Rows
  <2>. QED
    BY <1>2, <2>2 DEF Present
<1>. QED
  BY <1>1, <1>2

LEMMA Parts ==
    Typed <=> /\ Others /\ Roles(task)
              /\ task \in [Procs -> Task] /\ queue \in [Rooms -> Seq(Procs)]
              /\ \A p \in Procs : Waits(p) => task[p].room \in Rooms
BY DEF Typed, TypeOK, Others

LEMMA StepTyped ==
    ASSUME Typed, LineUp, Stays \/ (\E p \in Procs : Moves(p)), Roles(task'), Others'
    PROVE  Typed' /\ LineUp'
<1>1. CASE Stays
  <2>1. task' \in [Procs -> Task] /\ queue' \in [Rooms -> Seq(Procs)]
    BY <1>1, Parts DEF Stays
  <2>2. \A p \in Procs : Waits(p)' => task'[p].room \in Rooms
    BY <1>1 DEF Stays, Waits, Typed
  <2>3. Typed' <=> /\ Others' /\ Roles(task')
                   /\ task' \in [Procs -> Task] /\ queue' \in [Rooms -> Seq(Procs)]
                   /\ \A p \in Procs : Waits(p)' => task'[p].room \in Rooms
    BY DEF Typed, TypeOK, Others
  <2>. QED
    BY <1>1, <2>1, <2>2, <2>3, StaysLineUp
<1>2. ASSUME NEW p \in Procs, Moves(p)
      PROVE  Typed' /\ LineUp'
  <2>1. task' \in [Procs -> Task] /\ queue' \in [Rooms -> Seq(Procs)]
    BY <1>2, MovesTyped DEF Moves
  <2>2. \A q \in Procs : Waits(q)' => task'[q].room \in Rooms
    BY <1>2 DEF Moves, Waits, Typed
  <2>3. Typed' <=> /\ Others' /\ Roles(task')
                   /\ task' \in [Procs -> Task] /\ queue' \in [Rooms -> Seq(Procs)]
                   /\ \A q \in Procs : Waits(q)' => task'[q].room \in Rooms
    BY DEF Typed, TypeOK, Others
  <2>. QED
    BY <1>2, <2>1, <2>2, <2>3, MovesLineUp
<1>. QED
  BY <1>1, <1>2

LEMMA InitTyped == MembersInit => Typed /\ LineUp
<1>. SUFFICES ASSUME MembersInit PROVE Typed /\ LineUp
  OBVIOUS
<1>1. Others
  <2>1. <<>> \in Seq(Rooms) /\ <<>> \in Seq(Lines)
    OBVIOUS
  <2>2. /\ roster \in [of : 0..LastRoom, rows : SUBSET Rows]
        /\ canvas \in Lists /\ buf \in Lists /\ events \in 0..MaxEvents
        /\ cur \in 0..LastRoom
    BY Constants DEF MembersInit
  <2>3. /\ members \in [Rooms -> Rows] /\ noted \in [Rooms -> Rows]
        /\ \A r \in Rooms : members[r] <= events /\ noted[r] <= members[r]
        /\ due \in Rows /\ cur = 0
    BY Constants DEF MembersInit
  <2>. QED
    BY <2>1, <2>2, <2>3 DEF MembersInit, Others
<1>2. \A p \in Procs : task[p] = Idle
  BY DEF MembersInit
<1>3. queue \in [Rooms -> Seq(Procs)] /\ \A r \in Rooms : DOMAIN queue[r] = {}
  BY DEF MembersInit
<1>4. task \in [Procs -> Task] /\ Roles(task) /\ \A p \in Procs : task[p].at = "idle"
  BY <1>2, IdleTyped DEF MembersInit, Roles, Procs
<1>. QED
  BY <1>1, <1>3, <1>4, Parts DEF LineUp, Waits, Waiting

(* How the two directions of the connection change.                        *)
LEMMA AskLines ==
    ASSUME Typed, NEW r \in Rooms, up' = Append(up, r)
    PROVE  /\ up' \in Seq(Rooms) /\ Len(up) \in Nat /\ DOMAIN up = 1..Len(up)
           /\ DOMAIN up' = 1..(Len(up) + 1)
           /\ up'[Len(up) + 1] = r
           /\ \A i \in DOMAIN up : up'[i] = up[i]
<1>1. up \in Seq(Rooms)
  BY DEF Typed, TypeOK
<1>. QED
  BY <1>1, Queues

LEMMA AnswerLines ==
    ASSUME Typed, Answer
    PROVE  /\ up' \in Seq(Rooms) /\ Len(up) \in Nat /\ DOMAIN up = 1..Len(up)
           /\ Len(up) > 0 /\ up[1] \in Rooms
           /\ DOMAIN up' = 1..(Len(up) - 1)
           /\ \A i \in DOMAIN up' : up'[i] = up[i + 1]
           /\ down' \in Seq(Lines) /\ Len(down) \in Nat /\ DOMAIN down = 1..Len(down)
           /\ DOMAIN down' = 1..(Len(down) + 2)
           /\ down'[Len(down) + 1] = WireLine("row", up[1], members[up[1]])
           /\ down'[Len(down) + 2] = WireLine("end", up[1], 0)
           /\ \A i \in DOMAIN down : down'[i] = down[i]
<1>1. up \in Seq(Rooms) /\ down \in Seq(Lines) /\ up # <<>>
  BY DEF Typed, TypeOK, Answer
<1>2. Head(up) = up[1] /\ up[1] \in Rooms
  BY <1>1
<1>3. /\ WireLine("row", up[1], members[up[1]]) \in Lines
      /\ WireLine("end", up[1], 0) \in Lines
  BY <1>2, Constants DEF WireLine, Lines, Typed, TypeOK
<1>4. /\ up' = Tail(up)
      /\ down' = down \o <<WireLine("row", up[1], members[up[1]]), WireLine("end", up[1], 0)>>
  BY <1>2 DEF Answer
<1>5. /\ up' \in Seq(Rooms) /\ Len(up) \in Nat /\ DOMAIN up = 1..Len(up)
      /\ Len(up) > 0
      /\ DOMAIN up' = 1..(Len(up) - 1)
      /\ \A i \in DOMAIN up' : up'[i] = up[i + 1]
  BY <1>1, <1>4, Queues
<1>. DEFINE a == WireLine("row", up[1], members[up[1]])
            b == WireLine("end", up[1], 0)
<1>6. a \in Lines /\ b \in Lines /\ down' = down \o <<a, b>>
  BY <1>3, <1>4
<1>. HIDE DEF a, b
<1>7. /\ down' \in Seq(Lines) /\ Len(down) \in Nat /\ DOMAIN down = 1..Len(down)
      /\ DOMAIN down' = 1..(Len(down) + 2)
      /\ down'[Len(down) + 1] = a
      /\ down'[Len(down) + 2] = b
      /\ \A i \in DOMAIN down : down'[i] = down[i]
  BY <1>1, <1>6, Queues
<1>. QED
  BY <1>2, <1>5, <1>7 DEF a, b

LEMMA ChangeLines ==
    ASSUME Typed, NEW r \in Rooms, NEW kind \in {"join", "quit"}, Change(r, kind)
    PROVE  /\ down' \in Seq(Lines) /\ Len(down) \in Nat /\ DOMAIN down = 1..Len(down)
           /\ DOMAIN down' = 1..(Len(down) + 1)
           /\ down'[Len(down) + 1] = WireLine(kind, r, 0)
           /\ \A i \in DOMAIN down : down'[i] = down[i]
<1>1. down \in Seq(Lines) /\ WireLine(kind, r, 0) \in Lines
  BY Constants DEF Typed, TypeOK, WireLine, Lines
<1>2. down' = Append(down, WireLine(kind, r, 0))
  BY DEF Change
<1>. QED
  BY <1>1, <1>2, Queues

LEMMA ReceiveLines ==
    ASSUME Typed, Receive
    PROVE  /\ down' \in Seq(Lines) /\ Len(down) \in Nat /\ DOMAIN down = 1..Len(down)
           /\ Len(down) > 0 /\ Head(down) = down[1] /\ down[1] \in Lines
           /\ DOMAIN down' = 1..(Len(down) - 1)
           /\ \A i \in DOMAIN down' : down'[i] = down[i + 1]
<1>1. down \in Seq(Lines) /\ down # <<>> /\ down' = Tail(down)
  BY DEF Typed, TypeOK, Receive
<1>. QED
  BY <1>1, Queues
-----------------------------------------------------------------------------
LEMMA AskTyped ==
    ASSUME Typed, LineUp, NEW p \in Procs, Ask(p)
    PROVE  /\ Typed' /\ LineUp' /\ Waits(p) /\ MyTurn(p)
           /\ task[p].at = "lock" /\ task[p].room \in Rooms
<1>0. /\ Others /\ Roles(task) /\ task \in [Procs -> Task]
      /\ task[p].room \in Rooms /\ task[p].at = "lock" /\ Waits(p) /\ MyTurn(p)
  BY Parts DEF Ask, Waits, Waiting
<1>1. CASE /\ task' = [task EXCEPT ![p].at = "sent"]
           /\ buf' = [buf EXCEPT ![task[p].room] = {}]
           /\ up' = Append(up, task[p].room) \/ up' = up
           /\ UNCHANGED <<view, roster, canvas, dirty, meshDirty, queue>>
  <2>1. Stays
    BY <1>0, <1>1 DEF Stays, Waits, Waiting, Task, Places, LineUp
  <2>2. Roles(task')
    BY <1>0, <1>1 DEF Roles, Procs, Waiting
  <2>3. buf' \in Lists /\ up' \in Seq(Rooms)
    <3>1. buf' \in Lists
      BY <1>0, <1>1 DEF Others, Lists
    <3>2. up' \in Seq(Rooms)
      BY <1>0, <1>1, AskLines DEF Others
    <3>. QED
      BY <3>1, <3>2
  <2>4. Others'
    BY <1>0, <1>1, <2>3 DEF Others, Ask, shown
  <2>. QED
    BY <1>0, <2>1, <2>2, <2>4, StepTyped
<1>2. CASE ~connected /\ Return(p, FALSE, {}) /\ UNCHANGED up
  <2>1. /\ Moves(p) /\ Roles(task')
        /\ dirty' \in BOOLEAN /\ meshDirty' \in BOOLEAN
        /\ canvas' \in Lists /\ view' \in {"chat", view}
        /\ roster' \in [of : 0..LastRoom, rows : SUBSET Rows]
        /\ buf' \in Lists
    BY <1>0, <1>2, ReturnMoves
  <2>2. Others'
    BY <1>0, <1>2, <2>1 DEF Others, Ask, shown
  <2>. QED
    BY <1>0, <2>1, <2>2, StepTyped
<1>. QED
  BY <1>1, <1>2 DEF Ask

LEMMA BufferTyped ==
    ASSUME Typed, NEW r \in Rooms
    PROVE  buf[r] \in SUBSET Rows
BY DEF Typed, TypeOK, Lists

LEMMA ResumeTyped ==
    ASSUME Typed, LineUp, NEW p \in Procs, Resume(p) \/ Timeout(p)
    PROVE  /\ Typed' /\ LineUp' /\ Moves(p) /\ Waits(p) /\ MyTurn(p)
           /\ task[p].room \in Rooms
           /\ Return(p, TRUE, buf[task[p].room])
           /\ UNCHANGED wire
<1>0. /\ Others /\ task[p].room \in Rooms /\ task[p].at \in {"sent", "answered"}
      /\ Waits(p) /\ MyTurn(p)
  BY Parts DEF Resume, Timeout, Overdue, Waits, Waiting, LineUp
<1>1. Return(p, TRUE, buf[task[p].room])
  BY DEF Resume, Timeout
<1>2. /\ Moves(p) /\ Roles(task')
      /\ dirty' \in BOOLEAN /\ meshDirty' \in BOOLEAN
      /\ canvas' \in Lists /\ view' \in {"chat", view}
      /\ roster' \in [of : 0..LastRoom, rows : SUBSET Rows]
      /\ buf' \in Lists
  BY <1>0, <1>1, ReturnMoves, BufferTyped
<1>3. UNCHANGED <<cur, watching, asked, wire, events>> /\ late' \in BOOLEAN
  BY <1>0 DEF Resume, Timeout, Others
<1>4. Others'
  BY <1>0, <1>2, <1>3 DEF Others, shown, wire, net
<1>. QED
  BY <1>0, <1>1, <1>2, <1>3, <1>4, StepTyped

LEMMA RequestMoves ==
    ASSUME Typed, LineUp, RequestMesh, queue' = queue
    PROVE  Rests /\ Roles(task') /\ meshDirty' = TRUE
<1>1. task \in [Procs -> Task] /\ Roles(task)
  BY Parts
<1>2. \/ task' = task
      \/ task["mesh"].at = "idle" /\ task' = [task EXCEPT !["mesh"].at = "new"]
  <2>1. CASE task["mesh"].at = "idle"
    BY <2>1 DEF RequestMesh
  <2>2. CASE task["mesh"].at # "idle"
    <3>1. task["mesh"].at \in Places /\ task["mesh"] \in Task
      BY <1>1 DEF Task, Procs
    <3>2. task' = [task EXCEPT !["mesh"].at = task["mesh"].at]
      BY <2>2 DEF RequestMesh
    <3>3. [task["mesh"] EXCEPT !.at = task["mesh"].at] = task["mesh"]
      BY <3>1 DEF Task
    <3>4. task' = task
      BY <1>1, <3>2, <3>3
    <3>. QED
      BY <3>4
  <2>. QED
    BY <2>1, <2>2
<1>3. CASE task' = task
  BY <1>1, <1>3 DEF Rests, Stays, Waits, Waiting, LineUp, RequestMesh
<1>4. CASE task["mesh"].at = "idle" /\ task' = [task EXCEPT !["mesh"].at = "new"]
  <2>1. task' \in [Procs -> Task] /\ Roles(task')
    BY <1>1, <1>4 DEF Procs, Task, Places, Roles
  <2>2. task'["mesh"].at = "new" /\ \A p \in Procs \ {"mesh"} : task'[p] = task[p]
    BY <1>1, <1>4 DEF Procs
  <2>. QED
    BY <1>4, <2>1, <2>2 DEF Rests, Stays, Waits, Waiting, LineUp, RequestMesh
<1>. QED
  BY <1>2, <1>3, <1>4

LEMMA Same ==
    ASSUME Typed, LineUp, UNCHANGED <<task, queue>>
    PROVE  Rests /\ Roles(task')
BY Parts DEF Rests, Stays, Waits, Waiting, LineUp

LEMMA RefreshMoves ==
    ASSUME Typed, LineUp, NEW runs, NEW leaves,
           \/ runs = task /\ leaves = task
           \/ /\ task["exec"].at = "history"
              /\ runs = [task EXCEPT !["exec"].at = "refresh"]
              /\ leaves = [task EXCEPT !["exec"] = Idle],
           RefreshRoster(runs, leaves)
    PROVE  /\ Rests \/ (Moves("roster") /\ ~Waits("roster"))
           /\ Roles(task') /\ dirty' \in BOOLEAN
<1>0. task \in [Procs -> Task] /\ Roles(task) /\ "roster" \in Procs
  BY Parts DEF Procs
<1>1. /\ runs \in [Procs -> Task] /\ Roles(runs)
      /\ \A p \in Procs \ {"exec"} : runs[p] = task[p]
      /\ runs["exec"] = task["exec"] \/ (~Waits("exec") /\ runs["exec"].at = "refresh")
  <2>1. CASE runs = task
    BY <1>0, <2>1
  <2>2. CASE task["exec"].at = "history" /\ runs = [task EXCEPT !["exec"].at = "refresh"]
    BY <1>0, <2>2 DEF Procs, Task, Places, Roles, Waits, Waiting
  <2>. QED
    BY <2>1, <2>2
<1>2. CASE task["roster"].at # "idle"
  <2>1. dirty' = TRUE /\ task' = leaves /\ queue' = queue
    BY <1>2 DEF RefreshRoster, AskRoster
  <2>2. /\ \A p \in Procs \ {"exec"} : task'[p] = task[p]
        /\ task' \in [Procs -> Task]
        /\ \/ task'["exec"] = task["exec"]
           \/ ~Waits("exec") /\ task'["exec"].at = "idle"
    <3>1. CASE leaves = task
      BY <1>0, <2>1, <3>1
    <3>2. CASE task["exec"].at = "history" /\ leaves = [task EXCEPT !["exec"] = Idle]
      BY <1>0, <2>1, <3>2, IdleTyped DEF Procs, Waits, Waiting
    <3>. QED
      BY <3>1, <3>2
  <2>3. Roles(task')
    BY <1>0, <2>2 DEF Roles, Procs
  <2>4. Stays
    BY <2>1, <2>2 DEF Stays, Waits, Waiting, LineUp
  <2>5. Rests
    BY <2>2, <2>4 DEF Rests
  <2>. QED
    BY <2>1, <2>3, <2>5
<1>3. CASE task["roster"].at = "idle"
  <2>1. RosterRound(TRUE, queue, runs)
    BY <1>3 DEF RefreshRoster, AskRoster
  <2>2. ~Waits("roster") /\ Left("roster") = queue
    BY <1>3 DEF Waits, Waiting, Left
  <2>3. \A p \in Procs \ {"roster"} :
          runs[p] = task[p] \/ (~Waits(p) /\ ~(runs[p].at \in Waiting))
    BY <1>1 DEF Waiting, Procs
  <2>. QED
    BY <1>0, <1>1, <2>1, <2>2, <2>3, RosterRoundMoves
<1>. QED
  BY <1>2, <1>3

(* The rest of the coroutines' and the users' steps.                       *)
Light ==
    \/ StartRefresh \/ StartDrain \/ Switched
    \/ \E r \in Rooms : Switch(r) \/ AskNicks(r, "who")
    \/ AskNicks(1, "agents")
    \/ ShowMesh \/ Attach \/ Detach \/ Poll \/ Interval

LEMMA LightTyped ==
    ASSUME Typed, LineUp, Light
    PROVE  /\ Typed' /\ LineUp'
           /\ UNCHANGED <<net, late>>
           /\ Rests \/ (\E p \in Procs : Moves(p) /\ ~Waits(p))
<1>0. Others /\ task \in [Procs -> Task] /\ Roles(task)
  BY Parts
<1>. DEFINE G == /\ Others' /\ Roles(task') /\ UNCHANGED <<net, late>>
                 /\ Rests \/ (\E p \in Procs : Moves(p) /\ ~Waits(p))
<1>. SUFFICES G
  BY StepTyped DEF Rests
<1>1. CASE StartRefresh \/ Poll
  <2>1. /\ Rests \/ (Moves("roster") /\ ~Waits("roster"))
        /\ Roles(task') /\ dirty' \in BOOLEAN
    BY <1>1, RefreshMoves DEF StartRefresh, Poll
  <2>2. due' = due \/ due' = Present(cur)
    BY <1>1 DEF StartRefresh, Poll, wire
  <2>3. due' \in Rows /\ (cur # 0 => due' <= members[cur])
    BY <1>0, <2>2, PresentTyped DEF Others
  <2>4. asked' \in Nat
    BY <1>0, <1>1 DEF StartRefresh, Poll, Others
  <2>5. UNCHANGED <<shown, roster, canvas, meshDirty, buf, late, net, events>>
    BY <1>1 DEF StartRefresh, Poll, wire
  <2>6. Others'
    BY <1>0, <2>1, <2>3, <2>4, <2>5 DEF Others, shown, net
  <2>. QED
    BY <2>1, <2>5, <2>6 DEF Procs
<1>2. CASE StartDrain
  <2>1. Moves("mesh") /\ Roles(task') /\ canvas' \in Lists /\ ~Waits("mesh")
    BY <1>2, StartBuildMoves DEF StartDrain, Waits, Waiting
  <2>2. Others'
    BY <1>0, <1>2, <2>1 DEF StartDrain, Others, shown, wire, net
  <2>. QED
    BY <1>2, <2>1, <2>2 DEF StartDrain, Procs, wire
<1>3. CASE Switched
  <2>1. ASSUME RefreshRoster([task EXCEPT !["exec"].at = "refresh"],
                             [task EXCEPT !["exec"] = Idle]),
               task["exec"].at = "history"
        PROVE  /\ Rests \/ (Moves("roster") /\ ~Waits("roster"))
               /\ Roles(task') /\ dirty' \in BOOLEAN
    BY <2>1, RefreshMoves
  <2>2. ASSUME task' = [task EXCEPT !["exec"] = Idle], UNCHANGED <<dirty, queue>>,
               task["exec"].at = "history"
        PROVE  Rests /\ Roles(task') /\ dirty' \in BOOLEAN
    <3>1. /\ task' \in [Procs -> Task] /\ task'["exec"] = Idle
          /\ \A p \in Procs \ {"exec"} : task'[p] = task[p]
      BY <1>0, <2>2, IdleTyped DEF Procs
    <3>. QED
      BY <1>0, <2>2, <3>1, IdleTyped
         DEF Rests, Stays, Waits, Waiting, Roles, Procs, Others, LineUp
  <2>3. /\ Rests \/ (Moves("roster") /\ ~Waits("roster"))
        /\ Roles(task') /\ dirty' \in BOOLEAN
    BY <1>3, <2>1, <2>2 DEF Switched
  <2>4. Others'
    BY <1>0, <1>3, <2>3 DEF Switched, Others, shown, wire, net
  <2>. QED
    BY <1>3, <2>3, <2>4 DEF Switched, Procs, wire
<1>4. ASSUME NEW r \in Rooms, Switch(r)
      PROVE  G
  <2>1. /\ task["exec"].at = "idle"
        /\ task' \in [Procs -> Task] /\ task'["exec"].at = "history"
        /\ \A p \in Procs \ {"exec"} : task'[p] = task[p]
    BY <1>0, <1>4, IdleTyped DEF Switch, Procs, Task, Places
  <2>2. Rests /\ Roles(task')
    BY <1>0, <1>4, <2>1 DEF Switch, Rests, Stays, Waits, Waiting, Roles, Procs, LineUp, queries
  <2>3. cur' \in 0..LastRoom /\ view' \in {"chat", "mesh"} /\ events' \in 0..MaxEvents
    BY <1>0, <1>4, Constants DEF Switch, Event, Others
  <2>4. \A s \in Rooms : members'[s] <= events' /\ noted'[s] <= members'[s]
    BY <1>0, <1>4, Constants DEF Switch, Event, Others, wire, net, Rows
  <2>5. due' \in Rows /\ due' <= members[r] /\ cur' = r
    BY <1>4, Constants, PresentTyped DEF Switch
  <2>6. Others'
    BY <1>0, <1>4, <2>3, <2>4, <2>5 DEF Switch, Others, net, queries
  <2>. QED
    BY <1>4, <2>2, <2>6 DEF Switch, queries
<1>5. ASSUME NEW r \in Rooms, NEW for \in {"who", "agents"}, AskNicks(r, for)
      PROVE  G
  <2>1. task["exec"] = Idle /\ ~Waits("exec") /\ Left("exec") = queue
    BY <1>5, IdleTyped DEF AskNicks, Waits, Waiting, Left
  <2>2. Moves("exec") /\ Roles(task')
    BY <1>5, <2>1, AsksNext, Constants DEF AskNicks, Purposes
  <2>3. events' \in 0..MaxEvents
    BY <1>0, <1>5, Constants DEF AskNicks, Event, Others
  <2>4. \A s \in Rooms : members'[s] <= events' /\ noted'[s] <= members'[s]
    BY <1>0, <1>5, Constants DEF AskNicks, Event, Others, wire, net, Rows
  <2>5. Others'
    BY <1>0, <1>5, <2>3, <2>4 DEF AskNicks, Others, shown, wire, net
  <2>. QED
    BY <1>5, <2>1, <2>2, <2>5 DEF AskNicks, Procs, wire
<1>6. CASE ShowMesh
  <2>1. task["exec"] = Idle /\ ~Waits("exec")
    BY <1>6, IdleTyped DEF ShowMesh, Waits, Waiting
  <2>2. Moves("exec") /\ Roles(task') /\ canvas' \in Lists
    BY <1>6, <2>1, StartBuildMoves DEF ShowMesh
  <2>3. events' \in 0..MaxEvents
    BY <1>0, <1>6, Constants DEF ShowMesh, Event, Others
  <2>4. \A s \in Rooms : members'[s] <= events' /\ noted'[s] <= members'[s]
    BY <1>0, <1>6, Constants DEF ShowMesh, Event, Others, wire, net, Rows
  <2>5. Others'
    BY <1>0, <1>6, <2>2, <2>3, <2>4 DEF ShowMesh, Others, wire, net
  <2>. QED
    BY <1>6, <2>1, <2>2, <2>5 DEF ShowMesh, Procs, wire
<1>7. CASE Attach \/ Interval
  <2>1. queue' = queue /\ UNCHANGED <<cur, view, roster, canvas, dirty, queries, net>>
    BY <1>7 DEF Attach, Interval, queries, shown, wire
  <2>2. UNCHANGED <<meshDirty, task>> \/ RequestMesh
    BY <1>7 DEF Attach, Interval
  <2>3. Rests /\ Roles(task') /\ meshDirty' \in BOOLEAN
    BY <1>0, <2>1, <2>2, RequestMoves, Same DEF Others
  <2>4. /\ events' \in 0..MaxEvents
        /\ watching' \in BOOLEAN /\ asked' \in Nat
    <3>1. /\ events' = events + 1 /\ events < MaxEvents
          /\ watching' = watching \/ watching' = TRUE
          /\ asked' = asked \/ asked' = asked + 1
      BY <1>7 DEF Attach, Interval, Event, shown
    <3>2. events \in 0..MaxEvents /\ watching \in BOOLEAN /\ asked \in Nat
      BY <1>0 DEF Others
    <3>3. events' \in 0..MaxEvents /\ asked' \in Nat
      BY <3>1, <3>2, Constants
    <3>4. watching' \in BOOLEAN
      BY <3>1, <3>2, Zenon
    <3>. QED
      BY <3>3, <3>4
  <2>5. \A s \in Rooms : members'[s] <= events' /\ noted'[s] <= members'[s]
    BY <1>0, <1>7, Constants DEF Attach, Interval, Event, Others, wire, net, Rows
  <2>7. due' = due \/ due' = Present(cur)
    BY <1>7 DEF Attach, Interval, wire
  <2>8. due' \in Rows /\ (cur # 0 => due' <= members[cur])
    BY <1>0, <2>7, PresentTyped DEF Others
  <2>6. Others'
    BY <1>0, <2>1, <2>3, <2>4, <2>5, <2>8 DEF Others, net, queries
  <2>. QED
    BY <2>1, <2>3, <2>6 DEF queries
<1>8. CASE Detach
  <2>1. Rests /\ Roles(task')
    BY <1>8, Same DEF Detach, queries
  <2>2. Others'
    BY <1>0, <1>8 DEF Detach, Others, wire, net, queries
  <2>. QED
    BY <1>8, <2>1, <2>2 DEF Detach, queries, wire
<1>. HIDE DEF G
<1>. QED
  BY <1>1, <1>2, <1>3, <1>4, <1>5, <1>6, <1>7, <1>8, Constants DEF Light

(* The steps of the server and of the connection.                          *)
LEMMA AnswerTyped ==
    ASSUME Typed, LineUp, Answer
    PROVE  Typed' /\ LineUp' /\ UNCHANGED <<task, queue, connected, late>>
<1>1. UNCHANGED <<task, queue, connected, late>>
  BY DEF Answer, queries
<1>2. Others'
  BY Parts, AnswerLines DEF Answer, Others, shown, queries
<1>. QED
  BY <1>1, <1>2, Same, StepTyped DEF Rests

LEMMA ChangeTyped ==
    ASSUME Typed, LineUp, NEW r \in Rooms, NEW kind \in {"join", "quit"}, Change(r, kind)
    PROVE  /\ Typed' /\ LineUp' /\ UNCHANGED <<task, queue, connected, late, up>>
           /\ members' = [members EXCEPT ![r] = @ + 1]
           /\ noted' = IF kind = "join" THEN [noted EXCEPT ![r] = members'[r]] ELSE noted
<1>1. UNCHANGED <<task, queue, connected, late, up>>
  BY DEF Change, queries
<1>2. /\ members \in [Rooms -> Rows] /\ noted \in [Rooms -> Rows]
      /\ events \in 0..MaxEvents
      /\ \A s \in Rooms : members[s] <= events /\ noted[s] <= members[s]
  BY DEF Typed, TypeOK
<1>3. /\ events' = events + 1 /\ events < MaxEvents
      /\ members' = [members EXCEPT ![r] = @ + 1]
      /\ noted' = IF kind = "join" THEN [noted EXCEPT ![r] = members[r] + 1] ELSE noted
  BY DEF Change, Event
<1>4. /\ events' \in 0..MaxEvents
      /\ members' \in [Rooms -> Rows] /\ noted' \in [Rooms -> Rows]
  BY <1>2, <1>3, Constants DEF Rows
<1>5. \A s \in Rooms : members'[s] <= events' /\ noted'[s] <= members'[s]
  BY <1>2, <1>3, Constants DEF Rows
<1>7. due' \in Rows /\ (cur # 0 => due' <= members'[cur])
  <2>1. due' = IF r = cur THEN members'[r] ELSE due
    BY <1>2, <1>3 DEF Change
  <2>2. due \in Rows /\ (cur # 0 => due <= members[cur] /\ cur \in Rooms)
    BY Constants DEF Typed, TypeOK, Rooms
  <2>3. \A q \in Rooms : members'[q] \in Nat
    BY <1>4 DEF Rows
  <2>. QED
    BY <1>2, <1>3, <1>4, <2>1, <2>2, <2>3
<1>6. Others'
  BY <1>4, <1>5, <1>7, Parts, ChangeLines DEF Change, Others, shown, queries
<1>. QED
  BY <1>1, <1>2, <1>3, <1>6, Same, StepTyped DEF Rests

LEMMA VanishTyped ==
    ASSUME Typed, LineUp, NEW r \in Rooms, Vanish(r)
    PROVE  /\ Typed' /\ LineUp'
           /\ UNCHANGED <<cur, view, watching, roster, canvas, asked, dirty, meshDirty, task,
                          queue, buf, late, connected, up, down, noted, due>>
           /\ members' = [members EXCEPT ![r] = @ + 1]
           /\ \A s \in Rooms : members'[s] >= members[s]
<1>1. UNCHANGED <<cur, view, watching, roster, canvas, asked, dirty, meshDirty, task,
                  queue, buf, late, connected, up, down, noted, due>>
  BY DEF Vanish, shown, queries
<1>2. /\ members \in [Rooms -> Rows] /\ noted \in [Rooms -> Rows]
      /\ events \in 0..MaxEvents /\ due \in Rows
      /\ \A s \in Rooms : members[s] <= events /\ noted[s] <= members[s]
      /\ cur # 0 => due <= members[cur] /\ cur \in Rooms
  BY Constants DEF Typed, TypeOK, Rooms
<1>3. /\ events' = events + 1 /\ events < MaxEvents
      /\ members' = [members EXCEPT ![r] = @ + 1]
  BY DEF Vanish, Event
<1>4. events' \in 0..MaxEvents /\ members' \in [Rooms -> Rows]
  BY <1>2, <1>3, Constants DEF Rows
<1>5. /\ \A s \in Rooms : members'[s] <= events' /\ noted[s] <= members'[s]
      /\ \A s \in Rooms : members'[s] >= members[s]
  BY <1>2, <1>3, Constants DEF Rows
<1>6. cur # 0 => due <= members'[cur]
  BY <1>2, <1>3, Constants DEF Rows
<1>7. Others'
  BY <1>1, <1>2, <1>4, <1>5, <1>6, Parts DEF Others
<1>. QED
  BY <1>1, <1>3, <1>5, <1>7, Same, StepTyped DEF Rests

LEMMA LoseTyped ==
    ASSUME Typed, LineUp, Lose
    PROVE  /\ Typed' /\ LineUp' /\ UNCHANGED <<task, queue, late>>
           /\ connected' = FALSE /\ up' = <<>> /\ down' = <<>>
<1>1. /\ UNCHANGED <<task, queue, late>>
      /\ connected' = FALSE /\ up' = <<>> /\ down' = <<>>
  BY DEF Lose, queries
<1>2. <<>> \in Seq(Rooms) /\ <<>> \in Seq(Lines)
  OBVIOUS
<1>3. Others'
  BY <1>1, <1>2, Parts DEF Lose, Others, shown, queries
<1>. QED
  BY <1>1, <1>3, Same, StepTyped DEF Rests

(* The end of an answer wakes the head of the room's line.                 *)
LEMMA ReceiveTyped ==
    ASSUME Typed, LineUp, Receive
    PROVE  /\ Typed' /\ LineUp' /\ UNCHANGED <<queue, connected, late, up, roster, canvas,
                                              cur, view, watching, members, noted, due,
                                              dirty>>
           /\ down[1].kind \in {"join", "quit", "row", "end"} /\ down[1].room \in Rooms
           /\ \A p \in Procs : Waits(p) =>
                 IF down[1].kind = "end" /\ task[p].at = "sent" /\ task[p].room = down[1].room
                 THEN task'[p] = [task[p] EXCEPT !.at = "answered"]
                 ELSE task'[p] = task[p]
           /\ down[1].kind \in {"join", "quit"} => ReceiveChange(down[1]) /\ Rests
           /\ down[1].kind \in {"row", "end"} => ReceiveReply(down[1])
           /\ Stays
<1>. DEFINE line == down[1]
<1>0. /\ line \in Lines /\ Head(down) = line /\ down' \in Seq(Lines)
      /\ Others /\ task \in [Procs -> Task] /\ Roles(task)
  BY Parts, ReceiveLines
<1>1. /\ line.kind \in {"join", "quit", "row", "end"} /\ line.room \in Rooms
      /\ line.row \in Rows
  BY <1>0 DEF Lines
<1>2. UNCHANGED <<queue, connected, late, up, roster, canvas,
                  cur, view, watching, members, noted, due, dirty, events>>
  BY DEF Receive, shown
<1>3. /\ line.kind \in {"join", "quit"} => ReceiveChange(line)
      /\ line.kind \in {"row", "end"} => ReceiveReply(line)
  BY <1>0 DEF Receive
<1>4. CASE line.kind \in {"join", "quit"}
  <2>1. Rests /\ Roles(task') /\ meshDirty' \in BOOLEAN
    BY <1>0, <1>2, <1>3, <1>4, RequestMoves, Same DEF ReceiveChange, Others
  <2>2. buf' = buf /\ asked' \in Nat
    BY <1>0, <1>3, <1>4 DEF ReceiveChange, Others
  <2>3. Others'
    BY <1>0, <1>2, <2>1, <2>2 DEF Others
  <2>4. Typed' /\ LineUp'
    BY <2>1, <2>3, StepTyped DEF Rests
  <2>. QED
    BY <1>1, <1>2, <1>3, <1>4, <2>1, <2>4 DEF Rests
<1>5. CASE line.kind \in {"row", "end"}
  <2>1. /\ task' = [p \in Procs |->
                      IF line.kind = "end" /\ task[p].at = "sent" /\ task[p].room = line.room
                      THEN [task[p] EXCEPT !.at = "answered"]
                      ELSE task[p]]
        /\ UNCHANGED <<asked, meshDirty>>
        /\ buf' = IF line.kind = "row" THEN Collect(line) ELSE buf
    BY <1>3, <1>5 DEF ReceiveReply
  <2>2. \A p \in Procs : [task[p] EXCEPT !.at = "answered"] \in Task
    BY <1>0 DEF Task, Places
  <2>3. Stays
    BY <1>0, <1>2, <2>1, <2>2 DEF Stays, Waits, Waiting, LineUp, Task
  <2>4. Roles(task')
    BY <1>0, <2>1, <2>2 DEF Roles, Procs, Waiting, Task
  <2>5. buf' \in Lists
    BY <1>0, <1>1, <2>1 DEF Collect, Lists, Others
  <2>6. Others'
    BY <1>0, <1>2, <2>1, <2>5 DEF Others
  <2>7. Typed' /\ LineUp'
    BY <2>3, <2>4, <2>6, StepTyped
  <2>. QED
    BY <1>1, <1>2, <1>3, <1>5, <2>1, <2>3, <2>7
<1>. QED
  BY <1>1, <1>4, <1>5
-----------------------------------------------------------------------------
(* One query at a time.  The answer of a room whose head has no query out  *)
(* is not on its way, unless some query has timed out.                     *)
EndAt(i, r) == i \in DOMAIN down /\ down[i].kind = "end" /\ down[i].room = r

Nothing(r) == (\A i \in DOMAIN up : up[i] # r) /\ (\A i \in DOMAIN down : ~EndAt(i, r))

Alone(r) ==
    /\ \A i, j \in DOMAIN up : up[i] = r /\ up[j] = r => i = j
    /\ \A i, j \in DOMAIN down : EndAt(i, r) /\ EndAt(j, r) => i = j
    /\ \A i \in DOMAIN up, j \in DOMAIN down : ~(up[i] = r /\ EndAt(j, r))

HeadSent(r) == queue[r] # <<>> /\ task[Head(queue[r])].at = "sent"

OneAnswer ==
    /\ ~connected => up = <<>> /\ down = <<>>
    /\ ~late => \A r \in Rooms : Alone(r) /\ (Nothing(r) \/ HeadSent(r))

LEMMA NothingMeansAlone ==
    ASSUME NEW r
    PROVE  Nothing(r) => Alone(r)
BY DEF Nothing, Alone

(* While the one at the head has no query out, nothing is on its way.      *)
LEMMA QuietRoom ==
    ASSUME Typed, LineUp, OneAnswer, ~late, NEW p \in Procs, Waits(p), MyTurn(p),
           task[p].at # "sent"
    PROVE  Nothing(task[p].room)
BY DEF OneAnswer, HeadSent, MyTurn, Typed

(* A step that leaves the connection alone.                                *)
LEMMA AnswersStay ==
    ASSUME Typed, LineUp, OneAnswer, UNCHANGED <<connected, up, down>>, late => late',
           \/ Rests
           \/ \E p \in Procs : Moves(p) /\ (Waits(p) /\ ~late' => Nothing(task[p].room))
    PROVE  OneAnswer'
<1>1. SUFFICES ASSUME ~late, ~late', NEW r \in Rooms, HeadSent(r), ~Nothing(r)
               PROVE  HeadSent(r)'
  BY DEF OneAnswer, Nothing, Alone, EndAt
<1>. DEFINE h == Head(queue[r])
<1>2. /\ queue[r] \in Seq(Procs) /\ queue[r] # <<>> /\ task[h].at = "sent"
      /\ h \in Procs /\ queue[r][1] = h /\ 1 \in DOMAIN queue[r]
  BY <1>1 DEF HeadSent, Typed, TypeOK
<1>3. Waits(h) /\ task[h].room = r
  BY <1>2 DEF LineUp
<1>4. CASE Rests
  <2>1. queue'[r] = queue[r] /\ task'[h] = task[h]
    BY <1>2, <1>3, <1>4 DEF Rests, Stays
  <2>. QED
    BY <1>2, <2>1 DEF HeadSent
<1>5. ASSUME NEW p \in Procs, Moves(p), Waits(p) => Nothing(task[p].room)
      PROVE  HeadSent(r)'
  <2>1. h # p
    BY <1>1, <1>3, <1>5
  <2>2. task'[h] = task[h]
    BY <1>2, <1>3, <1>5, <2>1 DEF Moves
  <2>3. MyTurn(h)
    BY <1>2, <1>3 DEF MyTurn
  <2>4. Head(Left(p)[r]) = h /\ Left(p)[r] # <<>>
    <3>1. /\ \E i \in DOMAIN Left(p)[r] : Left(p)[r][i] = h
          /\ Head(Left(p)[r]) = h
      BY <1>2, <1>3, <1>5, <2>1, <2>3, LeftHas DEF Moves
    <3>. QED
      BY <3>1
  <2>5. Left(p) \in [Rooms -> Seq(Procs)]
    BY LeftTyped
  <2>6. queue'[r] = Left(p)[r] \/ queue'[r] = Append(Left(p)[r], p)
    BY <1>5, <2>5 DEF Moves
  <2>7. queue'[r] # <<>> /\ Head(queue'[r]) = h
    BY <2>4, <2>5, <2>6
  <2>. QED
    BY <1>2, <2>2, <2>7 DEF HeadSent
<1>. QED
  BY <1>1, <1>4, <1>5

LEMMA AskAnswers ==
    ASSUME Typed, LineUp, OneAnswer, NEW p \in Procs, Ask(p)
    PROVE  OneAnswer'
<1>. PICK r \in Rooms : r = task[p].room
  BY AskTyped
<1>0. /\ Waits(p) /\ MyTurn(p) /\ task[p].at = "lock" /\ r = task[p].room
      /\ UNCHANGED <<late, connected, down>>
  BY AskTyped DEF Ask
<1>1. CASE ~connected /\ Return(p, FALSE, {}) /\ UNCHANGED up
  <2>1. Moves(p)
    BY <1>0, <1>1, ReturnMoves
  <2>2. Nothing(r)
    BY <1>1 DEF OneAnswer, Nothing
  <2>. QED
    BY <1>0, <1>1, <2>1, <2>2, AnswersStay
<1>2. CASE /\ task' = [task EXCEPT ![p].at = "sent"]
           /\ up' = IF connected /\ ~Swamped(up \o down) THEN Append(up, r) ELSE up
           /\ UNCHANGED queue
  <2>1. SUFFICES ASSUME ~late, NEW s \in Rooms
                 PROVE  Alone(s)' /\ (Nothing(s)' \/ HeadSent(s)')
    BY <1>0, <1>2 DEF OneAnswer
  <2>0. up' = IF connected THEN Append(up, r) ELSE up
    BY <1>2, <2>1 DEF Swamped
  <2>2. Nothing(r) /\ Alone(s) /\ (Nothing(s) \/ HeadSent(s))
    BY <1>0, <2>1, QuietRoom DEF OneAnswer
  <2>3. task \in [Procs -> Task] /\ queue[r] # <<>> /\ Head(queue[r]) = p
    BY <1>0 DEF Typed, TypeOK, LineUp, MyTurn
  <2>4. task'[p].at = "sent" /\ \A q \in Procs \ {p} : task'[q] = task[q]
    BY <1>2, <2>3 DEF Task
  <2>5. HeadSent(r)'
    BY <1>2, <2>3, <2>4 DEF HeadSent
  <2>6. \A t \in Rooms : HeadSent(t) => HeadSent(t)'
    <3>1. ASSUME NEW t \in Rooms, HeadSent(t)
          PROVE  HeadSent(t)'
      <4>1. Head(queue[t]) \in Procs
        BY <3>1 DEF HeadSent, Typed, TypeOK
      <4>. QED
        BY <1>2, <2>4, <3>1, <4>1 DEF HeadSent
    <3>. QED
      BY <3>1
  <2>7. CASE ~connected
    BY <1>0, <2>0, <2>2, <2>6, <2>7 DEF Alone, Nothing, EndAt
  <2>8. CASE connected
    <3>1. /\ Len(up) \in Nat /\ DOMAIN up = 1..Len(up)
          /\ DOMAIN up' = 1..(Len(up) + 1) /\ up'[Len(up) + 1] = r
          /\ \A i \in DOMAIN up : up'[i] = up[i]
      BY <2>0, <2>8, AskLines
    <3>2. \A i \in DOMAIN up' : i \in DOMAIN up \/ i = Len(up) + 1
      BY <3>1
    <3>3. \A i : EndAt(i, s)' <=> EndAt(i, s)
      BY <1>0 DEF EndAt
    <3>4. CASE s = r
      <4>1. Nothing(s)
        BY <2>2, <3>4
      <4>2. Alone(s)'
        BY <1>0, <3>1, <3>2, <3>3, <4>1 DEF Alone, Nothing
      <4>. QED
        BY <2>5, <3>4, <4>2
    <3>5. CASE s # r
      <4>1. \A i \in DOMAIN up' : up'[i] = s => i \in DOMAIN up /\ up[i] = s
        BY <3>1, <3>2, <3>5
      <4>2. Alone(s)'
        BY <1>0, <2>2, <3>3, <4>1 DEF Alone
      <4>3. Nothing(s) => Nothing(s)'
        BY <1>0, <3>3, <4>1 DEF Nothing
      <4>. QED
        BY <2>2, <2>6, <4>2, <4>3
    <3>. QED
      BY <3>4, <3>5
  <2>. QED
    BY <2>7, <2>8
<1>. QED
  BY <1>0, <1>1, <1>2 DEF Ask

LEMMA ReturnAnswers ==
    ASSUME Typed, LineUp, OneAnswer, NEW p \in Procs, Resume(p) \/ Timeout(p)
    PROVE  OneAnswer'
<1>1. /\ Moves(p) /\ Waits(p) /\ MyTurn(p)
      /\ UNCHANGED <<connected, up, down>>
  BY ResumeTyped DEF wire, net
<1>2. CASE Timeout(p)
  BY <1>1, <1>2, AnswersStay DEF Timeout
<1>3. CASE Resume(p)
  BY <1>1, <1>3, AnswersStay, QuietRoom DEF Resume
<1>. QED
  BY <1>2, <1>3

LEMMA AnswerAnswers ==
    ASSUME Typed, LineUp, OneAnswer, Answer
    PROVE  OneAnswer'
<1>. DEFINE r == up[1]
<1>0. /\ UNCHANGED <<task, queue, connected, late>>
      /\ up # <<>> /\ r \in Rooms
  BY AnswerTyped, AnswerLines DEF Answer
<1>1. SUFFICES ASSUME ~late, NEW s \in Rooms
               PROVE  Alone(s)' /\ (Nothing(s)' \/ HeadSent(s)')
  BY <1>0 DEF OneAnswer
<1>2. Alone(s) /\ (Nothing(s) \/ HeadSent(s)) /\ (HeadSent(s) => HeadSent(s)')
  BY <1>0, <1>1 DEF OneAnswer, HeadSent
<1>3. /\ Len(up) \in Nat /\ DOMAIN up = 1..Len(up) /\ Len(up) > 0
      /\ DOMAIN up' = 1..(Len(up) - 1)
      /\ \A i \in DOMAIN up' : up'[i] = up[i + 1]
      /\ Len(down) \in Nat /\ DOMAIN down = 1..Len(down)
      /\ DOMAIN down' = 1..(Len(down) + 2)
      /\ down'[Len(down) + 1] = WireLine("row", r, members[r])
      /\ down'[Len(down) + 2] = WireLine("end", r, 0)
      /\ \A i \in DOMAIN down : down'[i] = down[i]
  BY AnswerLines
<1>4. \A i \in DOMAIN up' : i + 1 \in DOMAIN up /\ i + 1 # 1 /\ i \in Nat
  BY <1>3
<1>5. \A i \in DOMAIN down' :
        EndAt(i, s)' <=> EndAt(i, s) \/ (i = Len(down) + 2 /\ s = r)
  <2>1. \A i \in DOMAIN down' : i \in DOMAIN down \/ i = Len(down) + 1 \/ i = Len(down) + 2
    BY <1>3
  <2>2. ~EndAt(Len(down) + 1, s) /\ ~EndAt(Len(down) + 2, s)
    BY <1>3 DEF EndAt
  <2>3. \A i : i = Len(down) + 1 => ~EndAt(i, s)'
    BY <1>3 DEF EndAt, WireLine
  <2>4. \A i : i = Len(down) + 2 => (EndAt(i, s)' <=> s = r)
    BY <1>3 DEF EndAt, WireLine
  <2>5. \A i \in DOMAIN down : EndAt(i, s)' <=> EndAt(i, s)
    BY <1>3 DEF EndAt
  <2>6. \A i \in DOMAIN down : i # Len(down) + 2
    BY <1>3
  <2>. QED
    BY <2>1, <2>2, <2>3, <2>4, <2>5, <2>6
<1>6. CASE s = r
  <2>1. \A i \in DOMAIN down : ~EndAt(i, s)
    BY <1>2, <1>3, <1>6 DEF Alone
  <2>2. \A i \in DOMAIN up : up[i] = s => i = 1
    BY <1>2, <1>3, <1>6 DEF Alone
  <2>3. \A i \in DOMAIN up' : up'[i] # s
    BY <1>3, <1>4, <2>2
  <2>4. \A i \in DOMAIN down' : EndAt(i, s)' => i = Len(down) + 2
    BY <1>5, <2>1 DEF EndAt
  <2>5. Alone(s)'
    BY <2>3, <2>4 DEF Alone
  <2>6. ~Nothing(s)
    BY <1>3, <1>6 DEF Nothing
  <2>. QED
    BY <1>2, <2>5, <2>6
<1>7. CASE s # r
  <2>1. \A i \in DOMAIN down' : EndAt(i, s)' <=> EndAt(i, s)
    BY <1>5, <1>7
  <2>2. \A i \in DOMAIN up' : up'[i] = s => up[i + 1] = s
    BY <1>3
  <2>3. \A i, j \in DOMAIN up' : up'[i] = s /\ up'[j] = s => i = j
    <3>1. ASSUME NEW i \in DOMAIN up', NEW j \in DOMAIN up', up'[i] = s, up'[j] = s
          PROVE  i = j
      <4>1. i + 1 = j + 1
        BY <1>2, <1>4, <2>2, <3>1 DEF Alone
      <4>. QED
        BY <1>4, <4>1
    <3>. QED
      BY <3>1
  <2>4. \A i \in DOMAIN up', j \in DOMAIN down' : ~(up'[i] = s /\ EndAt(j, s)')
    BY <1>2, <1>4, <2>1, <2>2 DEF Alone, EndAt
  <2>5. \A i, j \in DOMAIN down' : EndAt(i, s)' /\ EndAt(j, s)' => i = j
    BY <1>2, <2>1 DEF Alone, EndAt
  <2>6. Alone(s)'
    BY <2>3, <2>4, <2>5 DEF Alone
  <2>7. Nothing(s) => Nothing(s)'
    BY <1>4, <2>1, <2>2 DEF Nothing, EndAt
  <2>. QED
    BY <1>2, <2>6, <2>7
<1>. QED
  BY <1>6, <1>7

LEMMA ChangeAnswers ==
    ASSUME Typed, LineUp, OneAnswer, NEW r \in Rooms, NEW kind \in {"join", "quit"},
           Change(r, kind)
    PROVE  OneAnswer'
<1>0. UNCHANGED <<task, queue, connected, late, up>> /\ connected
  BY ChangeTyped DEF Change
<1>1. SUFFICES ASSUME ~late, NEW s \in Rooms
               PROVE  Alone(s)' /\ (Nothing(s)' \/ HeadSent(s)')
  BY <1>0 DEF OneAnswer
<1>2. Alone(s) /\ (Nothing(s) \/ HeadSent(s)) /\ (HeadSent(s) => HeadSent(s)')
  BY <1>0, <1>1 DEF OneAnswer, HeadSent
<1>3. /\ Len(down) \in Nat /\ DOMAIN down = 1..Len(down)
      /\ DOMAIN down' = 1..(Len(down) + 1)
      /\ down'[Len(down) + 1] = WireLine(kind, r, 0)
      /\ \A i \in DOMAIN down : down'[i] = down[i]
  BY ChangeLines
<1>4. \A i \in DOMAIN down' : EndAt(i, s)' <=> EndAt(i, s)
  <2>1. \A i \in DOMAIN down' : i \in DOMAIN down \/ i = Len(down) + 1
    BY <1>3
  <2>2. \A i : i = Len(down) + 1 => ~EndAt(i, s)' /\ ~EndAt(i, s)
    BY <1>3 DEF EndAt, WireLine
  <2>3. \A i \in DOMAIN down : EndAt(i, s)' <=> EndAt(i, s)
    BY <1>3 DEF EndAt
  <2>. QED
    BY <2>1, <2>2, <2>3
<1>5. Alone(s)'
  BY <1>0, <1>2, <1>4 DEF Alone, EndAt
<1>6. Nothing(s) => Nothing(s)'
  BY <1>0, <1>4 DEF Nothing, EndAt
<1>. QED
  BY <1>2, <1>5, <1>6

LEMMA ReceiveAnswers ==
    ASSUME Typed, LineUp, OneAnswer, Receive
    PROVE  OneAnswer'
<1>. DEFINE line == down[1]
<1>0. /\ UNCHANGED <<queue, connected, late, up>> /\ down # <<>> /\ connected
      /\ \A p \in Procs : Waits(p) =>
            IF line.kind = "end" /\ task[p].at = "sent" /\ task[p].room = line.room
            THEN task'[p] = [task[p] EXCEPT !.at = "answered"]
            ELSE task'[p] = task[p]
  BY ReceiveTyped DEF Receive, OneAnswer
<1>1. SUFFICES ASSUME ~late, NEW s \in Rooms
               PROVE  Alone(s)' /\ (Nothing(s)' \/ HeadSent(s)')
  BY <1>0 DEF OneAnswer
<1>2. Alone(s) /\ (Nothing(s) \/ HeadSent(s))
  BY <1>0, <1>1 DEF OneAnswer
<1>3. /\ Len(down) \in Nat /\ DOMAIN down = 1..Len(down) /\ Len(down) > 0
      /\ DOMAIN down' = 1..(Len(down) - 1)
      /\ \A i \in DOMAIN down' : down'[i] = down[i + 1]
  BY ReceiveLines
<1>4. \A i \in DOMAIN down' : i + 1 \in DOMAIN down /\ i + 1 # 1 /\ i \in Nat
  BY <1>3
<1>5. \A i \in DOMAIN down' : EndAt(i, s)' => EndAt(i + 1, s)
  BY <1>3, <1>4 DEF EndAt
<1>6. Alone(s)'
  <2>1. \A i, j \in DOMAIN down' : EndAt(i, s)' /\ EndAt(j, s)' => i = j
    <3>1. ASSUME NEW i \in DOMAIN down', NEW j \in DOMAIN down', EndAt(i, s)', EndAt(j, s)'
          PROVE  i = j
      <4>1. i + 1 = j + 1
        BY <1>2, <1>4, <1>5, <3>1 DEF Alone
      <4>. QED
        BY <1>4, <4>1
    <3>. QED
      BY <3>1
  <2>2. \A i \in DOMAIN up, j \in DOMAIN down' : ~(up[i] = s /\ EndAt(j, s)')
    BY <1>2, <1>4, <1>5 DEF Alone
  <2>. QED
    BY <1>0, <1>2, <2>1, <2>2 DEF Alone
<1>7. CASE Nothing(s)
  BY <1>0, <1>4, <1>5, <1>6, <1>7 DEF Nothing
<1>8. CASE EndAt(1, s)
  <2>1. \A i \in DOMAIN up : up[i] # s
    BY <1>2, <1>3, <1>8 DEF Alone
  <2>2. \A i \in DOMAIN down' : ~EndAt(i, s)'
    BY <1>2, <1>3, <1>4, <1>5, <1>8 DEF Alone
  <2>. QED
    BY <1>0, <1>6, <2>1, <2>2 DEF Nothing
<1>9. CASE HeadSent(s) /\ ~EndAt(1, s)
  <2>. DEFINE h == Head(queue[s])
  <2>1. /\ queue[s] # <<>> /\ task[h].at = "sent"
        /\ h \in Procs /\ queue[s][1] = h /\ 1 \in DOMAIN queue[s]
    BY <1>9 DEF HeadSent, Typed, TypeOK
  <2>2. Waits(h) /\ task[h].room = s
    BY <2>1 DEF LineUp
  <2>3. ~(line.kind = "end" /\ s = line.room)
    BY <1>3, <1>9 DEF EndAt
  <2>4. task'[h] = task[h]
    BY <1>0, <2>1, <2>2, <2>3
  <2>. QED
    BY <1>0, <1>6, <2>1, <2>4 DEF HeadSent
<1>. QED
  BY <1>2, <1>7, <1>8, <1>9

LEMMA MembersSteps ==
    MembersNext <=> \/ \E p \in Procs : Ask(p) \/ Resume(p) \/ Timeout(p)
                    \/ Light \/ Answer \/ Receive \/ Lose
                    \/ \E r \in Rooms, kind \in {"join", "quit"} : Change(r, kind)
                    \/ \E r \in Rooms : Vanish(r)
BY DEF MembersNext, Proceed, User, Server, Light

LEMMA LinesNext ==
    ASSUME Typed, LineUp, [MembersNext]_membersVars
    PROVE  Typed' /\ LineUp'
<1>1. CASE UNCHANGED membersVars
  BY <1>1 DEF membersVars, shown, queries, wire, net, Typed, TypeOK, LineUp, Waits, MyTurn
<1>2. CASE MembersNext
  BY <1>2, MembersSteps, AskTyped, ResumeTyped, LightTyped, AnswerTyped, ReceiveTyped,
     LoseTyped, ChangeTyped, VanishTyped, Zenon
<1>. QED
  BY <1>1, <1>2

LEMMA AnswersNext ==
    ASSUME Typed, LineUp, OneAnswer, [MembersNext]_membersVars
    PROVE  OneAnswer'
<1>1. CASE UNCHANGED membersVars
  BY <1>1 DEF membersVars, shown, queries, wire, net, OneAnswer, Alone, Nothing, EndAt, HeadSent
<1>2. CASE Lose
  BY <1>2, LoseTyped, NothingMeansAlone DEF OneAnswer, Nothing, Alone, EndAt
<1>3. CASE Light
  <2>1. /\ UNCHANGED <<connected, up, down, late>>
        /\ Rests \/ (\E p \in Procs : Moves(p) /\ ~Waits(p))
    BY <1>3, LightTyped DEF wire, net
  <2>. QED
    BY <2>1, AnswersStay
<1>5. ASSUME NEW r \in Rooms, Vanish(r)
      PROVE  OneAnswer'
  BY <1>5, VanishTyped DEF OneAnswer, Alone, Nothing, EndAt, HeadSent
<1>4. CASE MembersNext
  BY <1>2, <1>3, <1>4, <1>5, MembersSteps, AskAnswers, ReturnAnswers, AnswerAnswers,
     ReceiveAnswers, ChangeAnswers, Zenon
<1>. QED
  BY <1>1, <1>4

(* The state of the queries is well typed, and every lock is a line of the *)
(* coroutines that wait for its room.                                      *)
THEOREM MembersTyped == MembersSpec => [](Typed /\ LineUp)
<1>1. Typed /\ LineUp /\ [MembersNext]_membersVars => (Typed /\ LineUp)'
  BY LinesNext
<1>. QED
  BY InitTyped, <1>1, PTL DEF MembersSpec

LEMMA InitAnswers == MembersInit => OneAnswer
BY DEF MembersInit, OneAnswer, Alone, Nothing, EndAt

LEMMA OneIsOne ==
    ASSUME Typed, OneAnswer
    PROVE  OneWhoPerRoom
<1>1. SUFFICES ASSUME ~late, NEW r \in Rooms
               PROVE  /\ \A i, j \in Outstanding(r) : i = j
                      /\ Outstanding(r) # {} => task[Head(queue[r])].at = "sent"
  BY DEF OneWhoPerRoom
<1>2. Alone(r) /\ (Nothing(r) \/ HeadSent(r))
  BY <1>1 DEF OneAnswer
<1>3. /\ Len(up) \in Nat /\ DOMAIN up = 1..Len(up)
      /\ Len(down) \in Nat /\ DOMAIN down = 1..Len(down)
  <2>1. up \in Seq(Rooms) /\ down \in Seq(Lines)
    BY DEF Typed, TypeOK
  <2>. QED
    BY <2>1, Queues
<1>4. ASSUME NEW i \in Outstanding(r)
      PROVE  \/ i \in DOMAIN up /\ up[i] = r
             \/ \E k \in DOMAIN down : EndAt(k, r) /\ i = Len(up) + k
  BY DEF Outstanding, EndAt
<1>5. \A i, j \in Outstanding(r) : i = j
  BY <1>2, <1>4 DEF Alone
<1>6. Nothing(r) => Outstanding(r) = {}
  BY <1>4 DEF Nothing
<1>. QED
  BY <1>2, <1>5, <1>6 DEF HeadSent

(* Before the first timeout, no two answers of one room are on their way   *)
(* (_collect_until, which tells answers apart by the room alone).          *)
THEOREM OneWhoAtATime == MembersSpec => []OneWhoPerRoom
<1>1. OneAnswer /\ Typed /\ LineUp /\ [MembersNext]_membersVars => OneAnswer'
  BY AnswersNext
<1>2. MembersSpec => []OneAnswer
  BY InitAnswers, MembersTyped, <1>1, PTL DEF MembersSpec
<1>3. Typed /\ OneAnswer => OneWhoPerRoom
  BY OneIsOne
<1>. QED
  BY MembersTyped, <1>2, <1>3, PTL
-----------------------------------------------------------------------------
(* How new the answers are.                                                *)
RowAt(i, r) == i \in DOMAIN down /\ down[i].kind = "row" /\ down[i].room = r

ChangeAfter(i, r) ==
    \E k \in DOMAIN down : k > i /\ down[k].kind \in {"join", "quit"} /\ down[k].room = r

JoinAfter(i, r) ==
    \E k \in DOMAIN down : k > i /\ down[k].kind = "join" /\ down[k].room = r

(* A row travels just ahead of the end of its answer, and is as new as the *)
(* JOINs and PARTs that travel behind it.                                  *)
NewRow(n, i, r) == n >= noted[r] \/ JoinAfter(i, r)

Travel ==
    /\ \A r \in Rooms : \A i \in DOMAIN down :
          RowAt(i, r) => EndAt(i + 1, r) /\ NewRow(down[i].row, i, r)
    /\ \A r \in Rooms : \A i \in DOMAIN down : EndAt(i, r) /\ i > 1 => RowAt(i - 1, r)

(* What the one whose query is out has got of its answer.                  *)
HasRow(r) == EndAt(1, r) /\ \E n \in Rows : buf[r] = {n} /\ NewRow(n, 1, r)

HasNone(r) == buf[r] = {} /\ ~EndAt(1, r) /\ ~Nothing(r)

(* A query whose answer is on its way has the row once the end is next,    *)
(* and nothing before.                                                     *)
Held ==
    connected /\ ~late => \A r \in Rooms : HeadSent(r) => HasRow(r) \/ HasNone(r)

LEMMA Slots ==
    ASSUME Typed
    PROVE  /\ Len(down) \in Nat /\ DOMAIN down = 1..Len(down)
           /\ Len(up) \in Nat /\ DOMAIN up = 1..Len(up)
           /\ \A i \in DOMAIN down : i \in Nat /\ i > 0 /\ down[i].row \in Rows
           /\ Rows \subseteq Nat
           /\ members \in [Rooms -> Rows] /\ noted \in [Rooms -> Rows] /\ buf \in Lists
<1>1. down \in Seq(Lines) /\ up \in Seq(Rooms)
  BY DEF Typed, TypeOK
<1>2. /\ Len(down) \in Nat /\ DOMAIN down = 1..Len(down)
      /\ Len(up) \in Nat /\ DOMAIN up = 1..Len(up)
      /\ \A i \in DOMAIN down : down[i] \in Lines
  BY <1>1, Queues
<1>3. \A l \in Lines : l.row \in Rows
  BY DEF Lines
<1>. QED
  BY <1>2, <1>3, Constants DEF Typed, TypeOK, Rows

LEMMA TravelStays ==
    ASSUME Travel, UNCHANGED <<down, noted>>
    PROVE  Travel'
BY DEF Travel, RowAt, EndAt, NewRow, JoinAfter

LEMMA TravelLost ==
    ASSUME down' = <<>>
    PROVE  Travel'
<1>1. DOMAIN down' = {}
  OBVIOUS
<1>. QED
  BY <1>1 DEF Travel

(* Lines that are added change nothing for those before them.              *)
LEMMA Behind0 ==
    ASSUME NEW i, NEW r, DOMAIN down \subseteq DOMAIN down',
           \A k \in DOMAIN down : down'[k] = down[k]
    PROVE  /\ RowAt(i, r) => RowAt(i, r)'
           /\ EndAt(i, r) => EndAt(i, r)'
           /\ ChangeAfter(i, r) => ChangeAfter(i, r)'
           /\ JoinAfter(i, r) => JoinAfter(i, r)'
BY DEF RowAt, EndAt, ChangeAfter, JoinAfter

LEMMA AnswerTravels ==
    ASSUME Typed, Travel, Answer
    PROVE  Travel'
<1>. PICK r \in Rooms : r = up[1]
  BY AnswerLines
<1>. PICK n \in Nat : n = Len(down)
  BY Slots
<1>1. /\ DOMAIN down = 1..n /\ DOMAIN down' = 1..(n + 2)
      /\ down'[n + 1] = WireLine("row", r, members[r])
      /\ down'[n + 2] = WireLine("end", r, 0)
      /\ \A i \in DOMAIN down : down'[i] = down[i]
  BY AnswerLines
<1>2. UNCHANGED <<members, noted>>
  BY DEF Answer
<1>3. \A i \in DOMAIN down' : i \in DOMAIN down \/ i = n + 1 \/ i = n + 2
  BY <1>1
<1>4. \A s \in Rooms : \A i \in DOMAIN down' :
        /\ RowAt(i, s)' => RowAt(i, s) \/ (i = n + 1 /\ s = r)
        /\ EndAt(i, s)' => EndAt(i, s) \/ (i = n + 2 /\ s = r)
  BY <1>1, <1>3 DEF RowAt, EndAt, WireLine
<1>5. RowAt(n + 1, r)' /\ EndAt(n + 2, r)' /\ down'[n + 1].row = members[r]
  BY <1>1 DEF RowAt, EndAt, WireLine
<1>6. members[r] >= noted[r]
  BY Slots DEF Typed
<1>7. ASSUME NEW s \in Rooms, NEW i \in DOMAIN down', RowAt(i, s)'
      PROVE  EndAt(i + 1, s)' /\ NewRow(down[i].row, i, s)'
  <2>1. CASE RowAt(i, s)
    <3>1. i \in DOMAIN down /\ EndAt(i + 1, s) /\ NewRow(down[i].row, i, s)
      BY <2>1 DEF Travel, RowAt
    <3>2. /\ EndAt(i + 1, s)' /\ down'[i].row = down[i].row
          /\ JoinAfter(i, s) => JoinAfter(i, s)'
      BY <1>1, <3>1, Behind0
    <3>. QED
      BY <1>2, <3>1, <3>2 DEF NewRow
  <2>2. CASE i = n + 1 /\ s = r
    <3>1. i + 1 = n + 2
      BY <2>2
    <3>. QED
      BY <1>2, <1>5, <1>6, <2>2, <3>1 DEF NewRow
  <2>. QED
    BY <1>4, <1>7, <2>1, <2>2
<1>8. ASSUME NEW s \in Rooms, NEW i \in DOMAIN down', EndAt(i, s)', i > 1
      PROVE  RowAt(i - 1, s)'
  <2>1. CASE EndAt(i, s)
    BY <1>1, <1>8, <2>1, Behind0 DEF Travel, EndAt
  <2>2. CASE i = n + 2 /\ s = r
    BY <1>5, <2>2
  <2>. QED
    BY <1>4, <1>8, <2>1, <2>2
<1>. QED
  BY <1>7, <1>8 DEF Travel

LEMMA ChangeTravels ==
    ASSUME Typed, LineUp, Travel, NEW r \in Rooms, NEW kind \in {"join", "quit"},
           Change(r, kind)
    PROVE  /\ Travel'
           /\ \A i \in DOMAIN down : ChangeAfter(i, r)' /\ (kind = "join" => JoinAfter(i, r)')
           /\ ChangeAfter(0, r)' /\ (kind = "join" => JoinAfter(0, r)')
           /\ \A i : EndAt(i, r)' => EndAt(i, r)
<1>. PICK n \in Nat : n = Len(down)
  BY Slots
<1>1. /\ DOMAIN down = 1..n /\ DOMAIN down' = 1..(n + 1)
      /\ down'[n + 1] = WireLine(kind, r, 0)
      /\ \A i \in DOMAIN down : down'[i] = down[i]
  BY ChangeLines
<1>2. /\ members' = [members EXCEPT ![r] = @ + 1]
      /\ noted' = IF kind = "join" THEN [noted EXCEPT ![r] = members'[r]] ELSE noted
  BY ChangeTyped
<1>3. \A i \in DOMAIN down' : i \in DOMAIN down \/ i = n + 1
  BY <1>1
<1>4. \A s \in Rooms : \A i \in DOMAIN down' :
        /\ RowAt(i, s)' => RowAt(i, s)
        /\ EndAt(i, s)' => EndAt(i, s)
  BY <1>1, <1>3 DEF RowAt, EndAt, WireLine
<1>5. n + 1 \in DOMAIN down' /\ down'[n + 1].kind = kind /\ down'[n + 1].room = r
  BY <1>1 DEF WireLine
<1>6. /\ \A i \in DOMAIN down : ChangeAfter(i, r)' /\ (kind = "join" => JoinAfter(i, r)')
      /\ ChangeAfter(0, r)' /\ (kind = "join" => JoinAfter(0, r)')
  <2>1. \A i \in DOMAIN down : n + 1 > i
    BY <1>1
  <2>. QED
    BY <1>5, <2>1 DEF ChangeAfter, JoinAfter
<1>7. ASSUME NEW s \in Rooms, NEW i \in DOMAIN down', RowAt(i, s)'
      PROVE  EndAt(i + 1, s)' /\ NewRow(down[i].row, i, s)'
  <2>1. i \in DOMAIN down /\ EndAt(i + 1, s) /\ NewRow(down[i].row, i, s)
    BY <1>4, <1>7 DEF Travel, RowAt
  <2>2. /\ EndAt(i + 1, s)' /\ down'[i].row = down[i].row
        /\ JoinAfter(i, s) => JoinAfter(i, s)'
    BY <1>1, <2>1, Behind0
  <2>3. /\ s # r => members'[s] = members[s] /\ noted'[s] = noted[s]
        /\ kind = "quit" => noted'[s] = noted[s]
    BY <1>2, Slots
  <2>. QED
    BY <1>6, <2>1, <2>2, <2>3 DEF NewRow
<1>8. ASSUME NEW s \in Rooms, NEW i \in DOMAIN down', EndAt(i, s)', i > 1
      PROVE  RowAt(i - 1, s)'
  BY <1>1, <1>4, <1>8, Behind0 DEF Travel, EndAt
<1>9. Travel'
  BY <1>7, <1>8 DEF Travel
<1>. QED
  BY <1>4, <1>6, <1>9 DEF EndAt

(* A line nearer the front.                                                *)
LEMMA Shifts ==
    ASSUME Typed, Receive, NEW r, NEW i \in Nat
    PROVE  /\ i > 0 => /\ RowAt(i, r)' <=> RowAt(i + 1, r)
                       /\ EndAt(i, r)' <=> EndAt(i + 1, r)
           /\ ChangeAfter(i, r)' <=> ChangeAfter(i + 1, r)
           /\ JoinAfter(i, r)' <=> JoinAfter(i + 1, r)
<1>1. /\ Len(down) \in Nat /\ DOMAIN down = 1..Len(down) /\ Len(down) > 0
      /\ DOMAIN down' = 1..(Len(down) - 1)
      /\ \A k \in DOMAIN down' : down'[k] = down[k + 1]
  BY ReceiveLines
<1>2. \A k \in Nat : k > 0 => (k \in DOMAIN down' <=> k + 1 \in DOMAIN down)
  BY <1>1
<1>3. \A k \in DOMAIN down' : k \in Nat /\ k > 0 /\ k + 1 \in DOMAIN down
  BY <1>1
<1>4. i > 0 => /\ RowAt(i, r)' <=> RowAt(i + 1, r)
               /\ EndAt(i, r)' <=> EndAt(i + 1, r)
  BY <1>1, <1>2 DEF RowAt, EndAt
<1>5. ASSUME NEW k \in DOMAIN down'
      PROVE  k > i <=> k + 1 > i + 1
  BY <1>3
<1>6. ASSUME NEW k \in DOMAIN down, k > i + 1
      PROVE  k - 1 \in DOMAIN down' /\ k - 1 > i /\ (k - 1) + 1 = k
  BY <1>1, <1>6
<1>7. ChangeAfter(i, r)' <=> ChangeAfter(i + 1, r)
  <2>1. ASSUME ChangeAfter(i, r)' PROVE ChangeAfter(i + 1, r)
    BY <1>1, <1>3, <1>5, <2>1 DEF ChangeAfter
  <2>2. ASSUME ChangeAfter(i + 1, r) PROVE ChangeAfter(i, r)'
    <3>1. PICK k \in DOMAIN down : /\ k > i + 1 /\ down[k].kind \in {"join", "quit"}
                                   /\ down[k].room = r
      BY <2>2 DEF ChangeAfter
    <3>2. k - 1 \in DOMAIN down' /\ k - 1 > i /\ down'[k - 1] = down[k]
      BY <1>1, <1>6, <3>1
    <3>. QED
      BY <3>1, <3>2 DEF ChangeAfter
  <2>. QED
    BY <2>1, <2>2
<1>8. JoinAfter(i, r)' <=> JoinAfter(i + 1, r)
  <2>1. ASSUME JoinAfter(i, r)' PROVE JoinAfter(i + 1, r)
    BY <1>1, <1>3, <1>5, <2>1 DEF JoinAfter
  <2>2. ASSUME JoinAfter(i + 1, r) PROVE JoinAfter(i, r)'
    <3>1. PICK k \in DOMAIN down : /\ k > i + 1 /\ down[k].kind = "join"
                                   /\ down[k].room = r
      BY <2>2 DEF JoinAfter
    <3>2. k - 1 \in DOMAIN down' /\ k - 1 > i /\ down'[k - 1] = down[k]
      BY <1>1, <1>6, <3>1
    <3>. QED
      BY <3>1, <3>2 DEF JoinAfter
  <2>. QED
    BY <2>1, <2>2
<1>. QED
  BY <1>4, <1>7, <1>8

LEMMA ReceiveTravels ==
    ASSUME Typed, LineUp, Travel, Receive
    PROVE  Travel'
<1>1. /\ Len(down) \in Nat /\ DOMAIN down = 1..Len(down) /\ Len(down) > 0
      /\ DOMAIN down' = 1..(Len(down) - 1)
      /\ \A k \in DOMAIN down' : down'[k] = down[k + 1]
  BY ReceiveLines
<1>2. UNCHANGED <<members, noted>>
  BY ReceiveTyped
<1>3. \A k \in DOMAIN down' : k \in Nat /\ k > 0 /\ k + 1 \in DOMAIN down /\ k + 1 > 1
  BY <1>1
<1>4. ASSUME NEW s \in Rooms, NEW i \in DOMAIN down', RowAt(i, s)'
      PROVE  EndAt(i + 1, s)' /\ NewRow(down[i].row, i, s)'
  <2>1. RowAt(i + 1, s) /\ i \in Nat /\ i > 0 /\ i + 1 \in Nat /\ i + 1 > 0
    BY <1>3, <1>4, Shifts
  <2>2. EndAt((i + 1) + 1, s) /\ NewRow(down[i + 1].row, i + 1, s)
    BY <1>3, <2>1 DEF Travel
  <2>3. EndAt(i + 1, s)'
    BY <2>1, <2>2, Shifts
  <2>4. JoinAfter(i + 1, s) => JoinAfter(i, s)'
    BY <2>1, Shifts
  <2>5. down'[i] = down[i + 1]
    BY <1>1
  <2>. QED
    BY <1>2, <2>2, <2>3, <2>4, <2>5 DEF NewRow
<1>5. ASSUME NEW s \in Rooms, NEW i \in DOMAIN down', EndAt(i, s)', i > 1
      PROVE  RowAt(i - 1, s)'
  <2>1. EndAt(i + 1, s) /\ i + 1 \in DOMAIN down /\ i + 1 > 1
    BY <1>3, <1>5, Shifts
  <2>2. RowAt((i + 1) - 1, s)
    BY <2>1 DEF Travel
  <2>3. (i + 1) - 1 = (i - 1) + 1 /\ i - 1 \in Nat /\ i - 1 > 0
    BY <1>3, <1>5
  <2>. QED
    BY <2>2, <2>3, Shifts
<1>. QED
  BY <1>4, <1>5 DEF Travel

(* Only a coroutine that has just sent its query becomes a sent head.      *)
LEMMA SentBefore ==
    ASSUME Typed, LineUp, LineUp', Typed', NEW r \in Rooms, HeadSent(r)',
           Rests \/ (\E p \in Procs : Moves(p))
    PROVE  /\ HeadSent(r)
           /\ \A p \in Procs : Moves(p) /\ Waits(p) /\ ~Rests => task[p].room # r
<1>. PICK h \in Procs : h = Head(queue'[r])
  BY DEF HeadSent, Typed, TypeOK
<1>1. /\ queue'[r] \in Seq(Procs) /\ queue'[r] # <<>> /\ task'[h].at = "sent"
  BY DEF HeadSent, Typed, TypeOK
<1>2. task'[h].room = r
  <2>1. 1 \in DOMAIN queue'[r] /\ queue'[r][1] = h
    BY <1>1
  <2>. QED
    BY <2>1 DEF LineUp
<1>3. ASSUME task[h] = task'[h]
      PROVE  HeadSent(r) /\ Head(queue[r]) = h
  <2>1. task[h].at = "sent" /\ task[h].room = r
    BY <1>1, <1>2, <1>3
  <2>2. MyTurn(h) /\ Waits(h)
    BY <2>1 DEF LineUp, Waits, Waiting
  <2>3. Head(queue[r]) = h /\ queue[r] # <<>>
    BY <2>1, <2>2 DEF MyTurn, LineUp
  <2>. QED
    BY <2>1, <2>3 DEF HeadSent
<1>4. CASE Rests
  <2>1. task'[h] = task[h]
    BY <1>1, <1>4 DEF Rests, Stays, Waiting
  <2>. QED
    BY <1>3, <1>4, <2>1
<1>5. ASSUME NEW p \in Procs, Moves(p)
      PROVE  HeadSent(r) /\ (Waits(p) => task[p].room # r)
  <2>1. h # p
    BY <1>1, <1>5 DEF Moves, Waiting
  <2>2. task'[h] = task[h]
    BY <1>1, <1>5, <2>1 DEF Moves, Waiting
  <2>3. HeadSent(r) /\ Head(queue[r]) = h
    BY <1>3, <2>2
  <2>. QED
    BY <1>5, <2>1, <2>3 DEF Moves, MyTurn
<1>. QED
  BY <1>4, <1>5

LEMMA HeldStays ==
    ASSUME Typed, LineUp, Typed', LineUp', Held, late => late',
           UNCHANGED <<connected, up, down, noted>>,
           \/ Rests /\ UNCHANGED buf
           \/ \E p \in Procs :
                 /\ Moves(p)
                 /\ buf' = buf \/ (Waits(p) /\ buf' = [buf EXCEPT ![task[p].room] = {}])
    PROVE  Held'
<1>1. SUFFICES ASSUME connected, ~late, NEW r \in Rooms, HeadSent(r)'
               PROVE  HasRow(r)' \/ HasNone(r)'
  BY DEF Held
<1>2. HeadSent(r)
  BY <1>1, SentBefore
<1>3. HasRow(r) \/ HasNone(r)
  BY <1>1, <1>2 DEF Held
<1>4. buf'[r] = buf[r]
  <2>1. ASSUME NEW p \in Procs, Moves(p), Waits(p),
               buf' = [buf EXCEPT ![task[p].room] = {}]
        PROVE  buf'[r] = buf[r]
    <3>1. CASE Rests
      <4>1. task'[p].at \in Waiting /\ task'[p].room = task[p].room /\ queue' = queue
            /\ task'[p] = task[p]
        BY <2>1, <3>1 DEF Rests, Stays
      <4>2. task'[p].at = "lock"
        BY <2>1, <4>1 DEF Moves
      <4>3. Head(queue[task[p].room]) = p /\ task[p].at # "sent"
        BY <2>1, <4>1, <4>2 DEF Moves, MyTurn
      <4>4. task[p].room # r
        BY <1>2, <4>3 DEF HeadSent
      <4>. QED
        BY <2>1, <4>4, Slots DEF Lists
    <3>2. CASE ~Rests
      <4>1. task[p].room # r
        BY <1>1, <2>1, <3>2, SentBefore
      <4>. QED
        BY <2>1, <4>1, Slots DEF Lists
    <3>. QED
      BY <3>1, <3>2
  <2>. QED
    BY <2>1
<1>. QED
  BY <1>3, <1>4 DEF HasRow, HasNone, EndAt, Nothing, NewRow, JoinAfter

LEMMA AskHolds ==
    ASSUME Typed, LineUp, OneAnswer, Held, NEW p \in Procs, Ask(p)
    PROVE  Held'
<1>. PICK r \in Rooms : r = task[p].room
  BY AskTyped
<1>0. /\ Waits(p) /\ MyTurn(p) /\ task[p].at = "lock"
      /\ UNCHANGED <<late, connected, down, members, noted>>
  BY AskTyped DEF Ask
<1>1. SUFFICES ASSUME connected, ~late, NEW s \in Rooms, HeadSent(s)'
               PROVE  HasRow(s)' \/ HasNone(s)'
  BY <1>0 DEF Held
<1>2. /\ task' = [task EXCEPT ![p].at = "sent"]
      /\ buf' = [buf EXCEPT ![r] = {}]
      /\ up' = Append(up, r)
      /\ UNCHANGED queue
  BY <1>1 DEF Ask, Swamped
<1>3. /\ Len(up) \in Nat /\ DOMAIN up = 1..Len(up)
      /\ DOMAIN up' = 1..(Len(up) + 1) /\ up'[Len(up) + 1] = r
      /\ \A i \in DOMAIN up : up'[i] = up[i]
  BY <1>2, AskLines
<1>4. Nothing(r)
  BY <1>0, <1>1, QuietRoom
<1>5. buf'[r] = {} /\ \A t \in Rooms \ {r} : buf'[t] = buf[t]
  BY <1>2, Slots DEF Lists
<1>6. CASE s = r
  <2>1. ~EndAt(1, r)'
    BY <1>0, <1>4 DEF Nothing, EndAt
  <2>2. ~Nothing(r)'
    <3>1. Len(up) + 1 \in DOMAIN up'
      BY <1>3
    <3>. QED
      BY <1>3, <3>1 DEF Nothing
  <2>. QED
    BY <1>5, <1>6, <2>1, <2>2 DEF HasNone
<1>7. CASE s # r
  <2>1. Head(queue[s]) \in Procs /\ queue[s] # <<>>
    BY <1>1, <1>2 DEF HeadSent, Typed, TypeOK
  <2>2. Head(queue[s]) # p
    <3>1. queue[s] \in Seq(Procs) /\ 1 \in DOMAIN queue[s] /\ queue[s][1] = Head(queue[s])
      BY <2>1 DEF Typed, TypeOK
    <3>. QED
      BY <1>7, <3>1 DEF LineUp
  <2>3. HeadSent(s)
    BY <1>1, <1>2, <2>1, <2>2 DEF HeadSent, Typed, TypeOK
  <2>4. HasRow(s) \/ HasNone(s)
    BY <1>1, <2>3 DEF Held
  <2>5. ~Nothing(s) => ~Nothing(s)'
    <3>1. DOMAIN up \subseteq DOMAIN up'
      BY <1>3
    <3>. QED
      BY <1>0, <1>3, <3>1 DEF Nothing, EndAt
  <2>6. /\ EndAt(1, s)' <=> EndAt(1, s)
        /\ \A n : NewRow(n, 1, s) => NewRow(n, 1, s)'
    BY <1>0 DEF EndAt, NewRow, JoinAfter
  <2>. QED
    BY <1>5, <1>7, <2>4, <2>5, <2>6 DEF HasRow, HasNone
<1>. QED
  BY <1>6, <1>7

LEMMA ReturnHolds ==
    ASSUME Typed, LineUp, Held, NEW p \in Procs, Resume(p) \/ Timeout(p)
    PROVE  Held'
<1>1. /\ Typed' /\ LineUp' /\ Moves(p) /\ Waits(p)
      /\ UNCHANGED <<connected, up, down, members, noted>>
      /\ buf' = [buf EXCEPT ![task[p].room] = {}]
  BY ResumeTyped DEF wire, net, Return
<1>2. late => late'
  BY DEF Resume, Timeout
<1>. QED
  BY <1>1, <1>2, HeldStays

LEMMA LightBuffers ==
    ASSUME Light
    PROVE  buf' = buf
BY DEF Light, StartRefresh, StartDrain, Switched, Switch, AskNicks, ShowMesh, Attach,
       Detach, Poll, Interval, queries

LEMMA LightHolds ==
    ASSUME Typed, LineUp, Held, Light
    PROVE  Held'
<1>1. buf' = buf
  BY LightBuffers
<1>2. /\ Typed' /\ LineUp'
      /\ UNCHANGED <<connected, up, down, members, noted, late>>
      /\ Rests \/ (\E p \in Procs : Moves(p) /\ ~Waits(p))
  BY LightTyped DEF wire, net
<1>. QED
  BY <1>1, <1>2, HeldStays

LEMMA AnswerHolds ==
    ASSUME Typed, LineUp, Held, Answer
    PROVE  Held'
<1>. PICK r \in Rooms : r = up[1]
  BY AnswerLines
<1>. PICK n \in Nat : n = Len(down)
  BY Slots
<1>0. UNCHANGED <<task, queue, buf, connected, late, members, noted>>
  BY DEF Answer, queries
<1>1. /\ DOMAIN down = 1..n /\ DOMAIN down' = 1..(n + 2)
      /\ down'[n + 1] = WireLine("row", r, members[r])
      /\ down'[n + 2] = WireLine("end", r, 0)
      /\ \A i \in DOMAIN down : down'[i] = down[i]
      /\ Len(up) \in Nat /\ DOMAIN up = 1..Len(up)
      /\ DOMAIN up' = 1..(Len(up) - 1)
      /\ \A i \in DOMAIN up' : up'[i] = up[i + 1]
  BY AnswerLines
<1>2. SUFFICES ASSUME connected, ~late, NEW s \in Rooms, HeadSent(s)'
               PROVE  HasRow(s)' \/ HasNone(s)'
  BY <1>0 DEF Held
<1>3. HasRow(s) \/ HasNone(s)
  BY <1>0, <1>2 DEF Held, HeadSent
<1>4. EndAt(1, s)' <=> EndAt(1, s)
  <2>1. CASE n = 0
    <3>1. ~EndAt(1, s) /\ down'[1] = WireLine("row", r, members[r])
      BY <1>1, <2>1 DEF EndAt
    <3>. QED
      BY <3>1 DEF EndAt, WireLine
  <2>2. CASE n > 0
    <3>1. 1 \in DOMAIN down /\ 1 \in DOMAIN down' /\ down'[1] = down[1]
      BY <1>1, <2>2
    <3>. QED
      BY <3>1 DEF EndAt
  <2>. QED
    BY <2>1, <2>2
<1>5. \A i : EndAt(i, s) => EndAt(i, s)'
  BY <1>1, Behind0
<1>6. ~Nothing(s) => ~Nothing(s)'
  <2>1. ASSUME NEW i \in DOMAIN up, up[i] = s
        PROVE  ~Nothing(s)'
    <3>1. CASE i = 1
      <4>1. \A k : k = n + 2 => EndAt(k, s)' /\ k \in DOMAIN down'
        BY <1>1, <2>1, <3>1 DEF EndAt, WireLine
      <4>. QED
        BY <4>1 DEF Nothing
    <3>2. CASE i # 1
      <4>1. i - 1 \in DOMAIN up' /\ up'[i - 1] = s
        BY <1>1, <2>1, <3>2
      <4>. QED
        BY <4>1 DEF Nothing
    <3>. QED
      BY <3>1, <3>2
  <2>2. ASSUME NEW i \in DOMAIN down, EndAt(i, s)
        PROVE  ~Nothing(s)'
    <3>1. EndAt(i, s)' /\ i \in DOMAIN down'
      BY <1>1, <1>5, <2>2
    <3>. QED
      BY <3>1 DEF Nothing
  <2>. QED
    BY <2>1, <2>2 DEF Nothing
<1>7. \A m : NewRow(m, 1, s) => NewRow(m, 1, s)'
  <2>1. JoinAfter(1, s) => JoinAfter(1, s)'
    BY <1>1, Behind0
  <2>. QED
    BY <1>0, <2>1 DEF NewRow
<1>. QED
  BY <1>0, <1>3, <1>4, <1>6, <1>7 DEF HasRow, HasNone

LEMMA ChangeHolds ==
    ASSUME Typed, LineUp, Travel, Held, NEW r \in Rooms, NEW kind \in {"join", "quit"},
           Change(r, kind)
    PROVE  Held'
<1>. PICK n \in Nat : n = Len(down)
  BY Slots
<1>0. /\ UNCHANGED <<task, queue, buf, connected, late, up>>
      /\ members' = [members EXCEPT ![r] = @ + 1]
      /\ noted' = IF kind = "join" THEN [noted EXCEPT ![r] = members'[r]] ELSE noted
  BY ChangeTyped DEF Change, queries
<1>1. /\ DOMAIN down = 1..n /\ DOMAIN down' = 1..(n + 1)
      /\ \A i \in DOMAIN down : down'[i] = down[i]
  BY ChangeLines
<1>2. SUFFICES ASSUME connected, ~late, NEW s \in Rooms, HeadSent(s)'
               PROVE  HasRow(s)' \/ HasNone(s)'
  BY <1>0 DEF Held
<1>3. HasRow(s) \/ HasNone(s)
  BY <1>0, <1>2 DEF Held, HeadSent
<1>4. /\ \A i : EndAt(i, s) <=> EndAt(i, s)'
      /\ JoinAfter(1, s) => JoinAfter(1, s)'
  <2>1. DOMAIN down \subseteq DOMAIN down'
    BY <1>1
  <2>2. \A i : EndAt(i, s)' => EndAt(i, s)
    <3>1. down'[n + 1] = WireLine(kind, r, 0)
      BY ChangeLines
    <3>2. \A i \in DOMAIN down' : i \in DOMAIN down \/ i = n + 1
      BY <1>1
    <3>. QED
      BY <1>1, <3>1, <3>2 DEF EndAt, WireLine
  <2>. QED
    BY <1>1, <2>1, <2>2, Behind0
<1>5. ~Nothing(s) => ~Nothing(s)'
  BY <1>0, <1>4 DEF Nothing, EndAt
<1>6. EndAt(1, s) => \A m : NewRow(m, 1, s) => NewRow(m, 1, s)'
  <2>1. CASE s = r
    BY <2>1, <1>0, <1>4, ChangeTravels DEF NewRow, EndAt
  <2>2. CASE s # r
    BY <2>2, <1>0, <1>4, Slots DEF NewRow
  <2>. QED
    BY <2>1, <2>2
<1>. QED
  BY <1>0, <1>3, <1>4, <1>5, <1>6 DEF HasRow, HasNone

LEMMA ReceiveHolds ==
    ASSUME Typed, LineUp, OneAnswer, Travel, Held, Receive
    PROVE  Held'
<1>. PICK line \in Lines : line = down[1]
  BY ReceiveLines
<1>. PICK t \in Rooms : t = line.room
  BY DEF Lines
<1>0. /\ UNCHANGED <<queue, connected, late, up, members, noted>>
      /\ line.kind \in {"join", "quit", "row", "end"} /\ line.row \in Rows
      /\ \A p \in Procs : Waits(p) =>
            IF line.kind = "end" /\ task[p].at = "sent" /\ task[p].room = t
            THEN task'[p] = [task[p] EXCEPT !.at = "answered"]
            ELSE task'[p] = task[p]
      /\ line.kind \in {"join", "quit"} => ReceiveChange(line)
      /\ line.kind \in {"row", "end"} => ReceiveReply(line)
      /\ Typed' /\ LineUp'
      /\ 1 \in DOMAIN down
  BY ReceiveTyped, ReceiveLines DEF Lines
<1>1. SUFFICES ASSUME connected, ~late, NEW s \in Rooms, HeadSent(s)'
               PROVE  HasRow(s)' \/ HasNone(s)'
  BY <1>0 DEF Held
<1>. PICK h \in Procs : h = Head(queue[s])
  BY <1>0, <1>1 DEF HeadSent, Typed, TypeOK
<1>2. /\ queue[s] # <<>> /\ task'[h].at = "sent"
  BY <1>0, <1>1 DEF HeadSent
<1>3. Waits(h) /\ task[h].room = s
  <2>1. queue[s] \in Seq(Procs) /\ 1 \in DOMAIN queue[s] /\ queue[s][1] = h
    BY <1>2 DEF Typed, TypeOK
  <2>. QED
    BY <2>1 DEF LineUp
<1>4. task'[h] = task[h] /\ HeadSent(s) /\ ~(line.kind = "end" /\ t = s)
  <2>1. task[h] \in Task
    BY DEF Typed, TypeOK
  <2>2. ~(line.kind = "end" /\ task[h].at = "sent" /\ task[h].room = t)
    <3>1. [task[h] EXCEPT !.at = "answered"].at = "answered"
      BY <2>1 DEF Task
    <3>. QED
      BY <1>0, <1>2, <1>3, <3>1
  <2>3. task'[h] = task[h]
    BY <1>0, <1>3, <2>2
  <2>. QED
    BY <1>2, <1>3, <2>2, <2>3 DEF HeadSent
<1>5. ~EndAt(1, s)
  BY <1>4 DEF EndAt
<1>6. buf[s] = {} /\ ~Nothing(s)
  BY <1>1, <1>4, <1>5 DEF Held, HasRow, HasNone
<1>7. ~Nothing(s)'
  <2>1. CASE \E i \in DOMAIN up : up[i] = s
    BY <1>0, <2>1 DEF Nothing
  <2>2. ASSUME NEW i \in DOMAIN down, EndAt(i, s)
        PROVE  ~Nothing(s)'
    <3>1. i # 1
      BY <1>5, <2>2
    <3>2. i - 1 \in Nat /\ i - 1 > 0 /\ (i - 1) + 1 = i
      BY <3>1, Slots
    <3>3. EndAt(i - 1, s)'
      BY <2>2, <3>2, Shifts
    <3>. QED
      BY <3>3 DEF Nothing, EndAt
  <2>. QED
    BY <1>6, <2>1, <2>2 DEF Nothing
<1>8. EndAt(1, s)' <=> EndAt(2, s)
  BY Shifts
<1>9. EndAt(2, s) <=> RowAt(1, s)
  BY <1>0 DEF Travel, EndAt
<1>10. CASE RowAt(1, s)
  <2>1. line.kind = "row" /\ t = s
    BY <1>10 DEF RowAt
  <2>2. buf' = Collect(line) /\ Holds(s)
    BY <1>0, <1>3, <1>4, <2>1 DEF ReceiveReply, Holds, HeadSent
  <2>3. buf'[s] = {line.row}
    BY <1>6, <2>1, <2>2, Slots DEF Collect, Lists
  <2>4. NewRow(line.row, 1, s)
    BY <1>0, <1>10 DEF Travel
  <2>5. NewRow(line.row, 1, s)'
    <3>2. JoinAfter(0 + 1, s) => JoinAfter(1, s)'
      <4>1. ASSUME JoinAfter(1, s) PROVE JoinAfter(2, s)
        <5>1. PICK k \in DOMAIN down : /\ k > 1 /\ down[k].kind = "join"
                                       /\ down[k].room = s
          BY <4>1 DEF JoinAfter
        <5>2. down[2].kind = "end"
          BY <1>9, <1>10 DEF EndAt
        <5>3. k > 2
          BY <5>1, <5>2, Slots
        <5>. QED
          BY <5>1, <5>3 DEF JoinAfter
      <4>. QED
        BY <4>1, Shifts
    <3>. QED
      BY <1>0, <2>4, <3>2 DEF NewRow
  <2>. QED
    BY <1>0, <1>8, <1>9, <1>10, <2>3, <2>5 DEF HasRow
<1>11. CASE ~RowAt(1, s)
  <2>1. buf'[s] = buf[s]
    <3>1. CASE line.kind = "row"
      <4>1. t # s
        BY <1>0, <1>11, <3>1 DEF RowAt
      <4>. QED
        BY <1>0, <3>1, <4>1, Slots DEF ReceiveReply, Collect, Lists
    <3>2. CASE line.kind # "row"
      BY <1>0, <3>2 DEF ReceiveReply, ReceiveChange
    <3>. QED
      BY <3>1, <3>2
  <2>. QED
    BY <1>6, <1>7, <1>8, <1>9, <1>11, <2>1 DEF HasNone
<1>. QED
  BY <1>10, <1>11
-----------------------------------------------------------------------------
(* The member list: it is as new as it must be, or something will make it  *)
(* so.                                                                     *)
NewEnough(rows) == \E n \in due..members[cur] : rows = {n}

Current == roster.of = cur /\ NewEnough(roster.rows)

(* A refresh will start, or start over.                                    *)
Requested ==
    \/ asked > 0
    \/ dirty /\ task["roster"].at # "idle"
    \/ task["exec"].at = "history"
    \/ ChangeAfter(0, cur)

Locking == task["roster"].at = "lock" /\ task["roster"].room = cur

Sent == task["roster"].at = "sent" /\ task["roster"].room = cur

Answered == task["roster"].at = "answered" /\ task["roster"].room = cur

(* The query, the row or the end of a new enough answer is under way.      *)
NewRowAt(i) == RowAt(i, cur) /\ down[i].row \in due..members[cur]

Coming ==
    \/ \E i \in DOMAIN up : up[i] = cur
    \/ \E i \in DOMAIN down : NewRowAt(i)
    \/ EndAt(1, cur) /\ NewEnough(buf[cur])

(* The refresh that runs will bring the list.                              *)
Fetching == Locking \/ (Sent /\ Coming) \/ (Answered /\ NewEnough(buf[cur]))

RosterKept ==
    connected /\ ~late /\ cur # 0 => Requested \/ Fetching \/ (Current /\ ~Sent /\ ~Answered)

(* What is new enough stays so while nobody asks for newer.                *)
LEMMA StaysNew ==
    ASSUME Typed, Typed', cur # 0, UNCHANGED <<cur, due>>, members'[cur] >= members[cur]
    PROVE  /\ \A n : n \in due..members[cur] => n \in due'..members'[cur']
           /\ \A rows : NewEnough(rows) => \E n \in due'..members'[cur'] : rows = {n}
<1>1. /\ cur \in Rooms /\ due \in Nat /\ members[cur] \in Nat /\ members'[cur] \in Nat
  <2>1. cur \in Rooms
    BY Constants DEF Typed, TypeOK, Rooms
  <2>2. members \in [Rooms -> Rows] /\ members' \in [Rooms -> Rows] /\ due \in Rows
    BY DEF Typed, TypeOK
  <2>3. Rows \subseteq Nat
    BY Constants DEF Rows
  <2>. QED
    BY <2>1, <2>2, <2>3
<1>2. \A n : n \in due..members[cur] => n \in due'..members'[cur']
  BY <1>1
<1>. QED
  BY <1>2 DEF NewEnough

LEMMA RosterFrame ==
    ASSUME Typed, Typed', RosterKept, late => late',
           UNCHANGED <<cur, roster, due, dirty, connected>>,
           cur # 0 => members'[cur] >= members[cur],
           asked' = asked \/ asked' > 0,
           task'["roster"] = task["roster"],
           task["exec"].at = "history" => task'["exec"].at = "history",
           ChangeAfter(0, cur) => \A r : r = cur => ChangeAfter(0, r)',
           cur # 0 /\ Sent /\ Coming => Coming',
           Answered /\ cur # 0 => buf'[cur] = buf[cur]
    PROVE  RosterKept'
<1>1. SUFFICES ASSUME connected, ~late, cur # 0
               PROVE  (Requested \/ Fetching \/ (Current /\ ~Sent /\ ~Answered))'
  BY DEF RosterKept
<1>2. (Answered' <=> Answered) /\ (Sent' <=> Sent) /\ (Locking' <=> Locking)
  BY DEF Answered, Sent, Locking
<1>3. Requested => Requested'
  BY DEF Requested
<1>4. \A rows : NewEnough(rows) => \E n \in due'..members'[cur'] : rows = {n}
  BY <1>1, StaysNew
<1>5. Answered /\ NewEnough(buf[cur]) => Answered' /\ NewEnough(buf[cur])'
  <2>1. SUFFICES ASSUME Answered, NewEnough(buf[cur]) PROVE NewEnough(buf[cur])'
    BY <1>2
  <2>2. buf'[cur'] = buf[cur]
    BY <1>1, <2>1
  <2>. QED
    BY <1>4, <2>1, <2>2 DEF NewEnough
<1>6. Fetching => Fetching'
  BY <1>1, <1>2, <1>5 DEF Fetching
<1>7. Current => Current'
  BY <1>4 DEF Current, NewEnough
<1>. QED
  BY <1>1, <1>2, <1>3, <1>6, <1>7 DEF RosterKept

(* The query that is out is not touched by what others do with theirs.     *)
LEMMA ComingStays ==
    ASSUME Typed, Typed', cur # 0, UNCHANGED <<cur, due>>, members'[cur] >= members[cur],
           DOMAIN down \subseteq DOMAIN down', \A k \in DOMAIN down : down'[k] = down[k],
           DOMAIN up \subseteq DOMAIN up', \A k \in DOMAIN up : up'[k] = up[k],
           buf'[cur] = buf[cur], Coming
    PROVE  Coming'
<1>1. /\ \A n : n \in due..members[cur] => n \in due'..members'[cur']
      /\ \A rows : NewEnough(rows) => \E n \in due'..members'[cur'] : rows = {n}
  BY StaysNew
<1>2. CASE \E i \in DOMAIN up : up[i] = cur
  BY <1>2 DEF Coming
<1>3. CASE \E i \in DOMAIN down : NewRowAt(i)
  <2>1. PICK i \in DOMAIN down : NewRowAt(i)
    BY <1>3
  <2>2. i \in DOMAIN down' /\ down'[i] = down[i]
    BY <2>1
  <2>3. NewRowAt(i)'
    BY <1>1, <2>1, <2>2 DEF NewRowAt, RowAt
  <2>. QED
    BY <2>2, <2>3 DEF Coming
<1>4. CASE EndAt(1, cur) /\ NewEnough(buf[cur])
  <2>1. EndAt(1, cur)'
    BY <1>4 DEF EndAt
  <2>2. NewEnough(buf[cur])'
    BY <1>1, <1>4 DEF NewEnough
  <2>. QED
    BY <2>1, <2>2 DEF Coming
<1>. QED
  BY <1>2, <1>3, <1>4 DEF Coming

(* The steps of the other two leave each other's state alone.              *)
LEMMA OwnTask ==
    ASSUME Typed, NEW p \in {"mesh", "exec"}, NEW q, NEW rows, NEW ok,
           StartBuild(p, q) \/ BuildOn(p, rows, q) \/ NicksOn(p, ok, q)
    PROVE  \A o \in Procs \ {p} : task'[o] = task[o]
<1>1. task \in [Procs -> Task] /\ p \in Procs
  BY DEF Typed, TypeOK, Procs
<1>2. \E x : task' = [task EXCEPT ![p] = x]
  <2>1. CASE StartBuild(p, q)
    BY <2>1 DEF StartBuild
  <2>2. CASE BuildOn(p, rows, q)
    BY <2>2 DEF BuildOn
  <2>3. CASE NicksOn(p, ok, q)
    BY <2>3 DEF NicksOn
  <2>. QED
    BY <2>1, <2>2, <2>3
<1>. QED
  BY <1>1, <1>2

LEMMA ReturnOthers ==
    ASSUME Typed, NEW p \in {"mesh", "exec"}, NEW ok, NEW rows, Return(p, ok, rows)
    PROVE  /\ \A o \in Procs \ {p} : task'[o] = task[o]
           /\ UNCHANGED <<roster, dirty>>
           /\ buf' = [buf EXCEPT ![task[p].room] = {}]
<1>1. p # "roster"
  OBVIOUS
<1>2. \/ BuildOn(p, rows, [queue EXCEPT ![task[p].room] = Tail(@)])
      \/ NicksOn(p, ok, [queue EXCEPT ![task[p].room] = Tail(@)])
  BY <1>1 DEF Return
<1>. QED
  BY <1>1, <1>2, OwnTask DEF Return

LEMMA RoundComes ==
    ASSUME Typed, connected, cur # 0, cur' = cur, NEW q, NEW ts \in [Procs -> Task],
           RosterRound(TRUE, q, ts)
    PROVE  Fetching'
<1>1. task' = [ts EXCEPT !["roster"] = Asking(cur, NoLists, "view")]
  BY DEF RosterRound
<1>2. task'["roster"] = Asking(cur, NoLists, "view")
  BY <1>1 DEF Procs
<1>. QED
  BY <1>2 DEF Asking, Fetching, Locking

LEMMA RefreshComes ==
    ASSUME Typed, connected, cur # 0, cur' = cur, NEW runs \in [Procs -> Task],
           NEW leaves, leaves["roster"] = task["roster"], RefreshRoster(runs, leaves)
    PROVE  Requested' \/ Fetching'
<1>1. CASE task["roster"].at # "idle"
  <2>1. dirty' = TRUE /\ task' = leaves
    BY <1>1 DEF RefreshRoster, AskRoster
  <2>. QED
    BY <1>1, <2>1 DEF Requested
<1>2. CASE task["roster"].at = "idle"
  <2>1. RosterRound(TRUE, queue, runs)
    BY <1>2 DEF RefreshRoster, AskRoster
  <2>. QED
    BY <2>1, RoundComes
<1>. QED
  BY <1>1, <1>2

(* The buffer of a room whose head has its answer is left alone.           *)
LEMMA ClearsOwn ==
    ASSUME Typed, LineUp, NEW p \in Procs, NEW q \in Procs \ {p},
           Waits(p), MyTurn(p), task[q].at \in {"sent", "answered"},
           buf' = [buf EXCEPT ![task[p].room] = {}]
    PROVE  task[q].room # task[p].room /\ buf'[task[q].room] = buf[task[q].room]
<1>1. MyTurn(q) /\ task[q].room \in Rooms
  BY DEF LineUp, Typed, Waits, Waiting
<1>2. task[q].room # task[p].room
  BY <1>1 DEF MyTurn
<1>. QED
  BY <1>1, <1>2, Slots DEF Lists

(* Another coroutine asks or goes on while the list is being fetched.      *)
LEMMA OthersLeave ==
    ASSUME Typed, LineUp, Typed', RosterKept, late => late', NEW p \in Procs \ {"roster"},
           Waits(p), MyTurn(p),
           buf' = [buf EXCEPT ![task[p].room] = {}],
           UNCHANGED <<cur, roster, due, members, dirty, connected, asked, down>>,
           up' = up \/ up' = Append(up, task[p].room),
           task'["roster"] = task["roster"],
           task["exec"].at = "history" => task'["exec"].at = "history"
    PROVE  RosterKept'
<1>1. ChangeAfter(0, cur) => \A r : r = cur => ChangeAfter(0, r)'
  BY DEF ChangeAfter
<1>2. Sent \/ Answered => buf'[cur] = buf[cur]
  <2>1. ASSUME Sent \/ Answered PROVE buf'[cur] = buf[cur]
    <3>1. /\ task["roster"].at \in {"sent", "answered"} /\ "roster" \in Procs \ {p}
          /\ task["roster"].room = cur
      BY <2>1 DEF Sent, Answered, Procs
    <3>. QED
      BY <3>1, ClearsOwn
  <2>. QED
    BY <2>1
<1>3. DOMAIN up \subseteq DOMAIN up' /\ \A k \in DOMAIN up : up'[k] = up[k]
  <2>1. CASE up' = up
    BY <2>1
  <2>2. CASE up' = Append(up, task[p].room)
    <3>1. task[p].room \in Rooms
      BY DEF Typed
    <3>. QED
      BY <2>2, <3>1, AskLines
  <2>. QED
    BY <2>1, <2>2
<1>4. cur # 0 => members'[cur] >= members[cur]
  <2>1. ASSUME cur # 0 PROVE members[cur] \in Nat
    <3>1. cur \in Rooms
      BY <2>1, Constants DEF Typed, TypeOK, Rooms
    <3>. QED
      BY <3>1, Slots
  <2>. QED
    BY <2>1
<1>5. cur # 0 /\ Sent /\ Coming => Coming'
  BY <1>2, <1>3, <1>4, ComingStays
<1>. QED
  BY <1>1, <1>2, <1>4, <1>5, RosterFrame

LEMMA AskRosterKept ==
    ASSUME Typed, LineUp, RosterKept, NEW p \in Procs, Ask(p)
    PROVE  RosterKept'
<1>1. UNCHANGED <<cur, members, due, connected, late, asked, down>>
  BY DEF Ask, shown
<1>2. SUFFICES ASSUME connected, ~late PROVE RosterKept'
  BY <1>1 DEF RosterKept
<1>3. /\ task' = [task EXCEPT ![p].at = "sent"]
      /\ buf' = [buf EXCEPT ![task[p].room] = {}]
      /\ up' = Append(up, task[p].room)
      /\ UNCHANGED <<roster, dirty>>
  BY <1>2 DEF Ask, Swamped
<1>4. /\ Waits(p) /\ MyTurn(p) /\ task[p].at = "lock" /\ task[p].room \in Rooms
      /\ task \in [Procs -> Task] /\ {"roster", "exec"} \subseteq Procs /\ Typed'
  BY AskTyped DEF Typed, TypeOK, Procs
<1>5. task[p] \in Task /\ task'[p].at = "sent" /\ task'[p].room = task[p].room
  BY <1>3, <1>4 DEF Task
<1>6. \A q \in Procs \ {p} : task'[q] = task[q]
  BY <1>3, <1>4
<1>7. task["exec"].at = "history" => task'["exec"].at = "history"
  BY <1>4, <1>5, <1>6
<1>8. ChangeAfter(0, cur) => \A r : r = cur => ChangeAfter(0, r)'
  BY <1>1 DEF ChangeAfter
<1>9. CASE p = "roster"
  <2>1. Requested => Requested'
    BY <1>1, <1>3, <1>5, <1>7, <1>8, <1>9 DEF Requested
  <2>2. Fetching => Fetching'
    <3>1. ASSUME Fetching PROVE Fetching'
      <4>1. task[p].room = cur
        BY <1>4, <1>9, <3>1 DEF Fetching, Locking, Sent, Answered
      <4>2. \E i \in DOMAIN up' : up'[i] = cur
        <5>1. Len(up) \in Nat /\ DOMAIN up' = 1..(Len(up) + 1) /\ up'[Len(up) + 1] = cur
          BY <1>3, <1>4, <4>1, AskLines
        <5>. QED
          BY <5>1
      <4>. QED
        BY <1>1, <1>5, <1>9, <4>1, <4>2 DEF Fetching, Sent, Coming
    <3>. QED
      BY <3>1
  <2>3. Current => Current' /\ ~Answered'
    BY <1>1, <1>3, <1>5, <1>9 DEF Current, NewEnough, Answered
  <2>4. Fetching \/ ~Sent'
    BY <1>1, <1>4, <1>5, <1>9 DEF Fetching, Locking, Sent
  <2>. QED
    BY <1>1, <2>1, <2>2, <2>3, <2>4 DEF RosterKept
<1>10. CASE p # "roster"
  BY <1>1, <1>3, <1>4, <1>6, <1>7, <1>10, OthersLeave
<1>. QED
  BY <1>9, <1>10

LEMMA ReturnRosterKept ==
    ASSUME Typed, LineUp, RosterKept, NEW p \in Procs, Resume(p) \/ Timeout(p)
    PROVE  RosterKept'
<1>0. late => late'
  BY Zenon DEF Resume, Timeout
<1>1. /\ UNCHANGED <<cur, members, due, connected, asked, up, down>> /\ (late => late')
      /\ Typed'
  BY <1>0, ResumeTyped DEF Resume, Timeout, shown, wire, net
<1>2. SUFFICES ASSUME ~late', connected PROVE RosterKept'
  BY <1>1 DEF RosterKept
<1>3. task[p].at = "answered" /\ Return(p, TRUE, buf[task[p].room])
  BY <1>2 DEF Resume, Timeout
<1>4. /\ Waits(p) /\ MyTurn(p) /\ task[p].room \in Rooms
      /\ task \in [Procs -> Task] /\ {"roster", "exec"} \subseteq Procs
  BY ResumeTyped DEF Typed, TypeOK, Procs
<1>5. ChangeAfter(0, cur) => \A r : r = cur => ChangeAfter(0, r)'
  BY <1>1 DEF ChangeAfter
<1>6. CASE p # "roster"
  <2>1. /\ \A o \in Procs \ {p} : task'[o] = task[o]
        /\ UNCHANGED <<roster, dirty>>
        /\ buf' = [buf EXCEPT ![task[p].room] = {}]
    <3>1. p \in {"mesh", "exec"}
      BY <1>6 DEF Procs
    <3>. QED
      BY <1>3, <3>1, ReturnOthers
  <2>2. task["exec"].at = "history" => task'["exec"].at = "history"
    BY <1>3, <1>4, <2>1
  <2>. QED
    BY <1>1, <1>4, <1>6, <2>1, <2>2, OthersLeave
<1>7. CASE p = "roster"
  <2>. DEFINE r == task["roster"].room
  <2>1. SUFFICES ASSUME ~late, cur # 0
                 PROVE  (Requested \/ Fetching \/ (Current /\ ~Sent /\ ~Answered))'
    BY <1>1 DEF RosterKept
  <2>2. /\ roster' = IF r = cur THEN [of |-> r, rows |-> buf[r]] ELSE roster
        /\ RosterRound(dirty, [queue EXCEPT ![r] = Tail(@)], task)
    BY <1>3, <1>7 DEF Return
  <2>3. CASE dirty
    BY <1>1, <1>2, <1>4, <2>1, <2>2, <2>3, RoundComes DEF RosterRound
  <2>4. CASE ~dirty
    <3>1. /\ task'["roster"] = Idle
          /\ task["exec"].at = "history" => task'["exec"].at = "history"
      <4>1. \E done \in [Procs -> Task] :
              /\ task["exec"].at = "history" => done["exec"].at = "history"
              /\ task' = [done EXCEPT !["roster"] = Idle]
        <5>. DEFINE done == IF task["exec"].at = "refresh"
                            THEN [task EXCEPT !["exec"] = Idle] ELSE task
        <5>1. task' = [done EXCEPT !["roster"] = Idle]
          BY <2>2, <2>4 DEF RosterRound
        <5>2. done \in [Procs -> Task]
          BY <1>4, IdleTyped
        <5>3. task["exec"].at = "history" => done["exec"].at = "history"
          OBVIOUS
        <5>. QED
          BY <5>1, <5>2, <5>3
      <4>. QED
        BY <4>1, <1>4
    <3>2. ~Answered' /\ ~Sent'
      BY <3>1, IdleTyped DEF Answered, Sent
    <3>3. CASE Requested
      BY <1>1, <1>5, <2>4, <3>1, <3>3 DEF Requested
    <3>4. CASE Fetching
      <4>1. r = cur /\ NewEnough(buf[cur])
        BY <1>3, <1>7, <3>4 DEF Fetching, Locking, Sent, Answered
      <4>2. roster'.of = cur /\ roster'.rows = buf[cur]
        BY <2>2, <4>1
      <4>. QED
        BY <1>1, <3>2, <4>1, <4>2 DEF Current, NewEnough
    <3>5. CASE Current /\ ~Sent /\ ~Answered
      <4>1. r # cur
        BY <1>3, <1>7, <3>5 DEF Answered
      <4>. QED
        BY <1>1, <2>2, <3>2, <3>5, <4>1 DEF Current, NewEnough
    <3>. QED
      BY <1>2, <2>1, <3>3, <3>4, <3>5 DEF RosterKept
  <2>. QED
    BY <2>3, <2>4
<1>. QED
  BY <1>6, <1>7

LEMMA LightRosterKept ==
    ASSUME Typed, LineUp, RosterKept, Light
    PROVE  RosterKept'
<1>0. /\ task \in [Procs -> Task] /\ {"roster", "mesh", "exec"} \subseteq Procs
      /\ UNCHANGED <<buf, up, down, members, connected, late>>
      /\ asked \in Nat /\ Typed'
  BY LightBuffers, LightTyped DEF Typed, TypeOK, Procs, net
<1>1. CASE StartRefresh \/ Poll
  <2>1. UNCHANGED cur /\ RefreshRoster(task, task)
    BY <1>1 DEF StartRefresh, Poll, shown
  <2>. QED
    BY <1>0, <2>1, RefreshComes DEF RosterKept
<1>2. CASE Switched
  <2>. DEFINE runs == [task EXCEPT !["exec"].at = "refresh"]
              leaves == [task EXCEPT !["exec"] = Idle]
  <2>1. SUFFICES ASSUME connected, cur # 0 PROVE Requested' \/ Fetching'
    BY <1>0, <1>2 DEF RosterKept, Switched, shown
  <2>2. UNCHANGED cur /\ RefreshRoster(runs, leaves)
    BY <1>2, <2>1 DEF Switched, shown
  <2>3. runs \in [Procs -> Task] /\ leaves["roster"] = task["roster"]
    BY <1>0 DEF Task, Places
  <2>. HIDE DEF runs, leaves
  <2>. QED
    BY <2>1, <2>2, <2>3, RefreshComes
<1>3. ASSUME NEW r \in Rooms, Switch(r)
      PROVE  RosterKept'
  <2>1. task'["exec"].at = "history"
    BY <1>0, <1>3 DEF Switch, Task
  <2>. QED
    BY <2>1 DEF RosterKept, Requested
<1>4. ASSUME UNCHANGED <<cur, roster, dirty, due, asked>>,
             task'["roster"] = task["roster"],
             task["exec"].at = "history" => task'["exec"].at = "history"
      PROVE  RosterKept'
  <2>1. ChangeAfter(0, cur) => \A r : r = cur => ChangeAfter(0, r)'
    BY <1>0 DEF ChangeAfter
  <2>2. Coming => Coming'
    BY <1>0, <1>4 DEF Coming, NewRowAt, RowAt, EndAt, NewEnough
  <2>3. cur # 0 => members'[cur] >= members[cur]
    <3>1. ASSUME cur # 0 PROVE members[cur] \in Nat
      <4>1. cur \in Rooms
        BY <3>1, Constants DEF Typed, TypeOK, Rooms
      <4>. QED
        BY <4>1, Slots
    <3>. QED
      BY <1>0, <3>1
  <2>. QED
    BY <1>0, <1>4, <2>1, <2>2, <2>3, RosterFrame
<1>5. CASE StartDrain
  <2>1. \A o \in Procs \ {"mesh"} : task'[o] = task[o]
    BY <1>5, OwnTask DEF StartDrain
  <2>. QED
    BY <1>0, <1>4, <1>5, <2>1 DEF StartDrain, shown, wire
<1>6. CASE ShowMesh
  <2>1. /\ \A o \in Procs \ {"exec"} : task'[o] = task[o]
        /\ task["exec"].at # "history"
    BY <1>6, OwnTask, IdleTyped DEF ShowMesh
  <2>. QED
    BY <1>0, <1>4, <1>6, <2>1 DEF ShowMesh, wire
<1>7. ASSUME NEW r, NEW for, AskNicks(r, for)
      PROVE  RosterKept'
  <2>1. task'["roster"] = task["roster"] /\ task["exec"].at # "history"
    BY <1>0, <1>7, IdleTyped DEF AskNicks
  <2>. QED
    BY <1>0, <1>4, <1>7, <2>1 DEF AskNicks, shown, wire
<1>8. CASE Interval \/ Detach
  <2>1. /\ UNCHANGED <<cur, roster, dirty, due, asked>>
        /\ RequestMesh \/ task' = task
    BY <1>8 DEF Interval, Detach, shown, wire
  <2>2. task'["roster"] = task["roster"] /\ task'["exec"] = task["exec"]
    BY <1>0, <2>1 DEF RequestMesh
  <2>. QED
    BY <1>4, <2>1, <2>2
<1>9. CASE Attach
  <2>1. asked' > 0
    BY <1>0, <1>9 DEF Attach
  <2>. QED
    BY <2>1 DEF RosterKept, Requested
<1>. QED
  BY <1>1, <1>2, <1>3, <1>5, <1>6, <1>7, <1>8, <1>9 DEF Light

LEMMA WireRosterKept ==
    ASSUME Typed, LineUp, RosterKept,
           \/ Answer \/ Lose
           \/ \E r \in Rooms, kind \in {"join", "quit"} : Change(r, kind)
           \/ \E r \in Rooms : Vanish(r)
    PROVE  RosterKept'
<1>0. cur # 0 => cur \in Rooms /\ members[cur] \in Nat
  <2>1. cur # 0 => cur \in Rooms
    BY Constants DEF Typed, TypeOK, Rooms
  <2>. QED
    BY <2>1, Slots
<1>1. CASE Lose
  BY <1>1 DEF Lose, RosterKept
<1>2. ASSUME Typed', UNCHANGED <<cur, roster, dirty, connected, asked, task, buf, late, due>>,
             cur # 0 => members'[cur] >= members[cur],
             DOMAIN down \subseteq DOMAIN down', \A k \in DOMAIN down : down'[k] = down[k],
             cur # 0 /\ Coming => Coming'
      PROVE  RosterKept'
  <2>1. ChangeAfter(0, cur) => \A r : r = cur => ChangeAfter(0, r)'
    BY <1>2, Behind0
  <2>. QED
    BY <1>2, <2>1, RosterFrame
<1>3. CASE Answer
  <2>1. /\ DOMAIN down \subseteq DOMAIN down' /\ \A k \in DOMAIN down : down'[k] = down[k]
        /\ UNCHANGED <<cur, roster, dirty, connected, asked, task, buf, late, due, members>>
        /\ Typed'
    BY <1>3, AnswerLines, AnswerTyped DEF Answer, shown, queries
  <2>2. ASSUME cur # 0, Coming
        PROVE  Coming'
    <3>1. CASE \E i \in DOMAIN up : up[i] = cur
      <4>1. PICK i \in DOMAIN up : up[i] = cur
        BY <3>1
      <4>2. /\ Len(up) \in Nat /\ DOMAIN up = 1..Len(up)
            /\ DOMAIN up' = 1..(Len(up) - 1)
            /\ \A k \in DOMAIN up' : up'[k] = up[k + 1]
        BY <1>3, AnswerLines
      <4>3. CASE i = 1
        <5>1. PICK n \in Nat : n = Len(down)
          BY Slots
        <5>2. n + 1 \in DOMAIN down' /\ down'[n + 1] = WireLine("row", cur, members[cur])
          BY <1>3, <4>1, <4>3, <5>1, AnswerLines
        <5>3. due <= members[cur] /\ due \in Nat
          BY <2>2, Constants DEF Typed, TypeOK, Rows
        <5>4. members[cur] \in due'..members'[cur']
          BY <1>0, <2>1, <2>2, <5>3
        <5>5. NewRowAt(n + 1)'
          BY <2>1, <5>2, <5>4 DEF NewRowAt, RowAt, WireLine
        <5>. QED
          BY <5>2, <5>5 DEF Coming
      <4>4. CASE i # 1
        <5>1. i - 1 \in DOMAIN up' /\ up'[i - 1] = cur
          BY <4>1, <4>2, <4>4
        <5>. QED
          BY <2>1, <5>1 DEF Coming
      <4>. QED
        BY <4>3, <4>4
    <3>2. CASE \E i \in DOMAIN down : NewRowAt(i)
      <4>1. PICK i \in DOMAIN down : NewRowAt(i)
        BY <3>2
      <4>2. i \in DOMAIN down' /\ NewRowAt(i)'
        BY <2>1, <4>1 DEF NewRowAt, RowAt
      <4>. QED
        BY <4>2 DEF Coming
    <3>3. CASE EndAt(1, cur) /\ NewEnough(buf[cur])
      BY <2>1, <3>3 DEF Coming, EndAt, NewEnough
    <3>. QED
      BY <2>2, <3>1, <3>2, <3>3 DEF Coming
  <2>. QED
    BY <1>0, <1>2, <2>1, <2>2
<1>4. ASSUME NEW r \in Rooms, NEW kind \in {"join", "quit"}, Change(r, kind)
      PROVE  RosterKept'
  <2>1. /\ UNCHANGED <<cur, roster, dirty, connected, asked, task, buf, late, up>>
        /\ Typed'
    BY <1>4, ChangeTyped DEF Change, shown, queries
  <2>2. CASE r = cur
    <3>1. \E k \in DOMAIN down' : /\ k > 0 /\ down'[k].kind \in {"join", "quit"}
                                  /\ down'[k].room = r
      <4>1. PICK n \in Nat : n = Len(down)
        BY Slots
      <4>2. n + 1 \in DOMAIN down' /\ down'[n + 1] = WireLine(kind, r, 0)
        BY <1>4, <4>1, ChangeLines
      <4>. QED
        BY <4>1, <4>2 DEF WireLine
    <3>2. Requested'
      BY <2>1, <2>2, <3>1 DEF Requested, ChangeAfter
    <3>. QED
      BY <3>2 DEF RosterKept
  <2>3. CASE r # cur
    <3>1. due' = due
      BY <1>4, <2>3 DEF Change
    <3>2. cur # 0 => members'[cur] >= members[cur]
      <4>1. members' = [members EXCEPT ![r] = @ + 1] /\ members \in [Rooms -> Rows]
        BY <1>4, ChangeTyped DEF Typed, TypeOK
      <4>2. cur # 0 => members'[cur] = members[cur]
        BY <1>0, <2>3, <4>1
      <4>. QED
        BY <1>0, <4>2
    <3>3. DOMAIN down \subseteq DOMAIN down' /\ \A k \in DOMAIN down : down'[k] = down[k]
      BY <1>4, ChangeLines
    <3>4. cur # 0 /\ Coming => Coming'
      BY <2>1, <3>1, <3>2, <3>3, ComingStays
    <3>. QED
      BY <1>2, <2>1, <3>1, <3>2, <3>3, <3>4
  <2>. QED
    BY <2>2, <2>3
<1>5. ASSUME NEW r \in Rooms, Vanish(r)
      PROVE  RosterKept'
  <2>1. /\ UNCHANGED <<cur, roster, dirty, connected, asked, task, buf, late, up, down, due>>
        /\ Typed'
        /\ \A s \in Rooms : members'[s] >= members[s]
    BY <1>5, VanishTyped
  <2>2. cur # 0 /\ Coming => Coming'
    BY <1>0, <2>1, ComingStays
  <2>. QED
    BY <1>0, <1>2, <2>1, <2>2
<1>. QED
  BY <1>1, <1>3, <1>4, <1>5

(* While somebody holds an answer of a room, no row of it arrives.         *)
LEMMA NoStrayRow ==
    ASSUME Typed, LineUp, OneAnswer, Travel, ~late, NEW p \in Procs,
           task[p].at = "answered"
    PROVE  \A i \in DOMAIN down : ~RowAt(i, task[p].room)
<1>1. Waits(p) /\ MyTurn(p) /\ task[p].room \in Rooms
  BY DEF LineUp, Typed, Waits, Waiting
<1>2. Nothing(task[p].room)
  BY <1>1, QuietRoom
<1>. QED
  BY <1>1, <1>2 DEF Travel, Nothing, EndAt

(* The head of a room's line has sent its query.                           *)
LEMMA SentIsHead ==
    ASSUME Typed, LineUp, NEW p \in Procs, task[p].at = "sent"
    PROVE  HeadSent(task[p].room) /\ task[p].room \in Rooms
<1>1. MyTurn(p) /\ queue[task[p].room] # <<>> /\ task[p].room \in Rooms
  BY DEF LineUp, Typed, Waits, Waiting
<1>. QED
  BY <1>1 DEF HeadSent, MyTurn

(* A line of the answer comes in: the row is taken, or the rest moves up.  *)
LEMMA ReceiveComes ==
    ASSUME Typed, LineUp, OneAnswer, Travel, Held, Receive, Typed',
           connected, ~late, cur # 0, Sent, Coming, "roster" \in Procs
    PROVE  IF EndAt(1, cur) THEN NewEnough(buf[cur]) ELSE Coming'
<1>. PICK c \in Rooms : c = cur
  BY Constants DEF Typed, TypeOK, Rooms
<1>1. HeadSent(c) /\ (HasRow(c) \/ HasNone(c)) /\ Alone(c)
  BY SentIsHead DEF Sent, Held, OneAnswer
<1>2. /\ UNCHANGED <<cur, due, members, up>>
      /\ 1 \in DOMAIN down /\ down[1] \in Lines
  BY ReceiveTyped, ReceiveLines
<1>3. CASE EndAt(1, c)
  <2>1. \A i \in DOMAIN up : up[i] # c
    BY <1>1, <1>2, <1>3 DEF Alone
  <2>2. \A i \in DOMAIN down : ~NewRowAt(i)
    <3>1. SUFFICES ASSUME NEW i \in DOMAIN down, RowAt(i, c) PROVE FALSE
      BY DEF NewRowAt
    <3>2. EndAt(i + 1, c)
      BY <3>1 DEF Travel
    <3>3. i \in Nat /\ i > 0
      BY Slots
    <3>4. i + 1 # 1
      BY <3>3
    <3>. QED
      BY <1>1, <1>2, <1>3, <3>2, <3>4 DEF Alone, EndAt
  <2>. QED
    BY <1>3, <2>1, <2>2 DEF Coming
<1>4. CASE ~EndAt(1, c)
  <2>1. SUFFICES Coming'
    BY <1>4
  <2>2. CASE \E i \in DOMAIN up : up[i] = cur
    BY <1>2, <2>2 DEF Coming
  <2>3. ASSUME NEW i \in DOMAIN down, NewRowAt(i), i # 1
        PROVE  Coming'
    <3>1. i - 1 \in Nat /\ i - 1 > 0 /\ (i - 1) + 1 = i
      BY <2>3, Slots
    <3>2. RowAt(i - 1, c)'
      BY <2>3, <3>1, Shifts DEF NewRowAt
    <3>3. i - 1 \in DOMAIN down' /\ down'[i - 1] = down[i]
      BY <3>1, <3>2, ReceiveLines DEF RowAt
    <3>4. NewRowAt(i - 1)'
      BY <1>2, <2>3, <3>2, <3>3 DEF NewRowAt
    <3>. QED
      BY <3>3, <3>4 DEF Coming
  <2>4. CASE NewRowAt(1)
    <3>1. /\ RowAt(1, c) /\ down[1].kind = "row" /\ down[1].room = c
          /\ down[1].row \in due..members[c]
      BY <2>4 DEF NewRowAt, RowAt
    <3>2. buf[c] = {}
      BY <1>1, <1>4 DEF HasRow, HasNone
    <3>3. buf' = Collect(down[1]) /\ Holds(c)
      BY <3>1, ReceiveTyped DEF ReceiveReply, Holds, Sent
    <3>4. buf'[c] = {down[1].row}
      BY <3>1, <3>2, <3>3, Slots DEF Collect, Lists
    <3>5. EndAt(2, c)
      BY <1>2, <3>1 DEF Travel
    <3>6. EndAt(1, c)'
      BY <3>5, Shifts
    <3>. QED
      BY <1>2, <3>1, <3>4, <3>6 DEF Coming, NewEnough
  <2>. QED
    BY <1>4, <2>2, <2>3, <2>4 DEF Coming
<1>. QED
  BY <1>3, <1>4

LEMMA ReceiveRosterKept ==
    ASSUME Typed, LineUp, OneAnswer, Travel, Held, RosterKept, Receive
    PROVE  RosterKept'
<1>. PICK line \in Lines : line = down[1]
  BY ReceiveLines
<1>. PICK t \in Rooms : t = line.room
  BY DEF Lines
<1>. PICK c : c = cur
  OBVIOUS
<1>0. /\ UNCHANGED <<queue, connected, late, members, due, roster, dirty, cur>>
      /\ line.kind \in {"join", "quit", "row", "end"}
      /\ line.kind \in {"join", "quit"} => ReceiveChange(line)
      /\ line.kind \in {"row", "end"} => ReceiveReply(line)
      /\ 1 \in DOMAIN down
      /\ task \in [Procs -> Task] /\ {"roster", "mesh", "exec"} \subseteq Procs
      /\ asked \in Nat /\ Typed'
  BY ReceiveTyped, ReceiveLines DEF Lines, Typed, TypeOK, Procs
<1>1. SUFFICES ASSUME connected, ~late, cur # 0
               PROVE  RosterKept'
  BY <1>0 DEF RosterKept
<1>2. c \in Rooms /\ c = cur /\ members'[cur] >= members[cur]
  <2>1. cur \in Rooms
    BY <1>1, Constants DEF Typed, TypeOK, Rooms
  <2>2. members[cur] \in Nat
    BY <2>1, Slots
  <2>. QED
    BY <1>0, <2>1, <2>2
<1>3. ChangeAfter(1, c) => ChangeAfter(0, c)'
  BY Shifts
<1>6. Sent /\ Coming => IF EndAt(1, cur) THEN NewEnough(buf[cur]) ELSE Coming'
  BY <1>0, <1>1, ReceiveComes
<1>4. CASE line.kind \in {"join", "quit"}
  <2>1. /\ asked' = IF line.kind = "quit" \/ t = cur THEN asked + 1 ELSE asked
        /\ RequestMesh \/ task' = task
        /\ buf' = buf
    BY <1>0, <1>4 DEF ReceiveChange
  <2>2. task'["roster"] = task["roster"] /\ task'["exec"] = task["exec"]
    BY <1>0, <2>1 DEF RequestMesh
  <2>3. CASE asked' > 0
    BY <2>3 DEF RosterKept, Requested
  <2>4. CASE ~(asked' > 0)
    <3>1. asked' = asked /\ t # cur
      BY <1>0, <2>1, <2>4
    <3>2. ChangeAfter(0, c) => ChangeAfter(1, c)
      BY <1>2, <3>1, Slots DEF ChangeAfter
    <3>3. ChangeAfter(0, cur) => \A r : r = cur => ChangeAfter(0, r)'
      BY <1>2, <1>3, <3>2
    <3>4. Sent /\ Coming => Coming'
      BY <1>4, <1>6 DEF EndAt
    <3>. QED
      BY <1>0, <1>2, <2>1, <2>2, <3>1, <3>3, <3>4, RosterFrame
  <2>. QED
    BY <2>3, <2>4
<1>5. CASE line.kind \in {"row", "end"}
  <2>1. /\ task' = [p \in Procs |->
                      IF line.kind = "end" /\ task[p].at = "sent" /\ task[p].room = t
                      THEN [task[p] EXCEPT !.at = "answered"]
                      ELSE task[p]]
        /\ asked' = asked
        /\ buf' = IF line.kind = "row" THEN Collect(line) ELSE buf
    BY <1>0, <1>5 DEF ReceiveReply
  <2>2. ChangeAfter(0, c) => ChangeAfter(1, c)
    BY <1>5, Slots DEF ChangeAfter
  <2>3. task["exec"].at = "history" => task'["exec"].at = "history"
    BY <1>0, <2>1
  <2>4. Answered => buf'[cur] = buf[cur]
    <3>1. ASSUME Answered, line.kind = "row"
          PROVE  t # cur
      BY <1>0, <1>1, <3>1, NoStrayRow DEF Answered, RowAt
    <3>. QED
      BY <1>2, <2>1, <3>1, Slots DEF Collect, Lists
  <2>5. CASE ~(line.kind = "end" /\ task["roster"].at = "sent" /\ task["roster"].room = t)
    <3>1. task'["roster"] = task["roster"]
      BY <1>0, <2>1, <2>5
    <3>2. ChangeAfter(0, cur) => \A r : r = cur => ChangeAfter(0, r)'
      BY <1>2, <1>3, <2>2
    <3>3. Sent /\ Coming => Coming'
      BY <1>6, <2>5 DEF EndAt, Sent
    <3>. QED
      BY <1>0, <1>2, <2>1, <2>3, <2>4, <3>1, <3>2, <3>3, RosterFrame
  <2>6. CASE line.kind = "end" /\ task["roster"].at = "sent" /\ task["roster"].room = t
    <3>1. task["roster"] \in Task
      BY <1>0
    <3>2. /\ task'["roster"].at = "answered" /\ task'["roster"].room = t
          /\ buf' = buf
      BY <1>0, <2>1, <2>6, <3>1 DEF Task
    <3>3. Requested => Requested'
      BY <1>0, <1>2, <1>3, <2>1, <2>2, <2>3, <3>2 DEF Requested
    <3>4. Fetching => Fetching'
      <4>1. ASSUME Fetching PROVE Fetching'
        <5>1. Sent /\ Coming
          BY <2>6, <4>1 DEF Fetching, Locking, Answered
        <5>2. EndAt(1, cur) /\ t = cur
          BY <1>0, <2>6, <5>1 DEF Sent, EndAt
        <5>3. NewEnough(buf[cur])
          BY <1>6, <5>1, <5>2
        <5>. QED
          BY <1>0, <3>2, <5>2, <5>3 DEF Fetching, Answered, NewEnough
      <4>. QED
        BY <4>1
    <3>5. Current /\ ~Sent /\ ~Answered => (Current /\ ~Sent /\ ~Answered)'
      BY <1>0, <2>6, <3>2 DEF Current, NewEnough, Sent, Answered
    <3>. QED
      BY <1>0, <1>1, <3>3, <3>4, <3>5 DEF RosterKept
  <2>. QED
    BY <2>5, <2>6
<1>. QED
  BY <1>0, <1>4, <1>5
-----------------------------------------------------------------------------
(* The mesh graph: it is as new as the last JOIN, or what will be drawn    *)
(* last will be.                                                           *)
Builds(p) == Waits(p) /\ task[p].for = "view"

AsNew(rows, r) == rows # {} /\ \A n \in rows : n >= noted[r]

(* What a builder has, or will get, of room r.                             *)
Fresh(p, r) ==
    \/ task[p].room < r
    \/ task[p].room = r /\ task[p].at \in {"lock", "sent"}
    \/ task[p].room = r /\ AsNew(buf[r], r)
    \/ task[p].room > r /\ AsNew(task[p].got[r], r)

(* Of two in the lock of a room, the first.                                *)
Ahead(q, p, r) ==
    \E i, j \in DOMAIN queue[r] : queue[r][i] = q /\ queue[r][j] = p /\ i < j

(* Rooms are asked in order and their locks served in turn: p stays behind *)
(* q, and draws after it.                                                  *)
Follows(p, q) ==
    \/ task[p].room < task[q].room
    \/ task[p].room = task[q].room /\ Ahead(q, p, task[p].room)

(* Of the builds under way, the one that draws last has room r as new.     *)
Last(p, q, r) == Builds(p) /\ Fresh(p, r) /\ (Builds(q) => Follows(p, q))

(* The mesh task will start, or start over.                                *)
Summoned ==
    task["mesh"].at = "new" \/ (meshDirty /\ task["mesh"].at # "idle")

Drawn(r) == ~Builds("mesh") /\ ~Builds("exec") /\ AsNew(canvas[r], r)

(* Why the graph has, or will have, room r as new.                         *)
Assured(r) ==
    \/ Summoned \/ JoinAfter(0, r)
    \/ Last("mesh", "exec", r) \/ Last("exec", "mesh", r) \/ Drawn(r)

GraphKept ==
    /\ task["mesh"].for = "view"
    /\ connected /\ ~late /\ MeshActive => \A r \in Rooms : Assured(r)

LEMMA AheadStays ==
    ASSUME Typed, LineUp, NEW p \in Procs, Moves(p), NEW r \in Rooms,
           NEW a \in Procs \ {p}, NEW b \in Procs \ {p}, Ahead(a, b, r)
    PROVE  Ahead(a, b, r)'
<1>. PICK i \in DOMAIN queue[r], j \in DOMAIN queue[r] :
        queue[r][i] = a /\ queue[r][j] = b /\ i < j
  BY DEF Ahead
<1>1. queue[r] \in Seq(Procs) /\ Left(p) \in [Rooms -> Seq(Procs)]
  BY LeftTyped DEF Typed, TypeOK
<1>2. \E k, l \in DOMAIN Left(p)[r] : Left(p)[r][k] = a /\ Left(p)[r][l] = b /\ k < l
  <2>1. CASE Waits(p) /\ task[p].room = r
    <3>1. queue[r] # <<>> /\ queue[r][1] = p
      BY <1>1, <2>1, Queues DEF Moves, MyTurn
    <3>2. Left(p)[r] = Tail(queue[r])
      BY <2>1 DEF Left, Typed, TypeOK
    <3>3. /\ DOMAIN Left(p)[r] = 1..(Len(queue[r]) - 1)
          /\ Len(queue[r]) \in Nat /\ DOMAIN queue[r] = 1..Len(queue[r])
          /\ \A k \in DOMAIN Left(p)[r] : Left(p)[r][k] = queue[r][k + 1]
      BY <1>1, <3>1, <3>2, Queues
    <3>4. i # 1 /\ j # 1
      BY <3>1
    <3>5. /\ i - 1 \in DOMAIN Left(p)[r] /\ j - 1 \in DOMAIN Left(p)[r]
          /\ (i - 1) + 1 = i /\ (j - 1) + 1 = j /\ i - 1 < j - 1
      BY <3>3, <3>4
    <3>6. Left(p)[r][i - 1] = a /\ Left(p)[r][j - 1] = b
      BY <3>3, <3>5
    <3>. QED
      BY <3>5, <3>6
  <2>2. CASE ~(Waits(p) /\ task[p].room = r)
    BY <2>2 DEF Left, Typed, TypeOK
  <2>. QED
    BY <2>1, <2>2
<1>3. queue'[r] = Left(p)[r] \/ queue'[r] = Append(Left(p)[r], p)
  BY <1>1 DEF Moves
<1>4. CASE queue'[r] = Left(p)[r]
  BY <1>2, <1>4 DEF Ahead
<1>5. CASE queue'[r] = Append(Left(p)[r], p)
  <2>. DEFINE L == Left(p)[r]
  <2>1. L \in Seq(Procs)
    BY <1>1
  <2>2. \E k, l \in DOMAIN L : L[k] = a /\ L[l] = b /\ k < l
    BY <1>2
  <2>. HIDE DEF L
  <2>3. /\ Len(L) \in Nat /\ DOMAIN L = 1..Len(L)
        /\ Append(L, p) \in Seq(Procs) /\ Len(Append(L, p)) = Len(L) + 1
        /\ \A k \in DOMAIN L : Append(L, p)[k] = L[k]
    BY <2>1, Queues
  <2>4. DOMAIN L \subseteq DOMAIN Append(L, p)
    BY <2>3
  <2>5. \E k, l \in DOMAIN Append(L, p) :
           Append(L, p)[k] = a /\ Append(L, p)[l] = b /\ k < l
    BY <2>2, <2>3, <2>4
  <2>6. queue'[r] = Append(L, p)
    BY <1>5 DEF L
  <2>. QED
    BY <2>5, <2>6 DEF Ahead
<1>. QED
  BY <1>3, <1>4, <1>5

(* Who joins a line stands behind those in it.                             *)
LEMMA AheadOfLast ==
    ASSUME Typed, LineUp, NEW p \in Procs, Waits(p) => MyTurn(p), NEW r \in Rooms,
           queue' = [Left(p) EXCEPT ![r] = Append(@, p)],
           NEW q \in Procs \ {p}, Waits(q), task[q].room = r
    PROVE  Ahead(q, p, r)'
<1>. DEFINE L == Left(p)[r]
<1>1. L \in Seq(Procs) /\ queue'[r] = Append(L, p)
  BY LeftTyped
<1>2. \E i \in DOMAIN L : L[i] = q
  BY LeftHas
<1>. HIDE DEF L
<1>3. /\ Len(L) \in Nat /\ DOMAIN L = 1..Len(L)
      /\ Append(L, p) \in Seq(Procs) /\ Len(Append(L, p)) = Len(L) + 1
      /\ Append(L, p)[Len(L) + 1] = p
      /\ \A k \in DOMAIN L : Append(L, p)[k] = L[k]
  BY <1>1, Queues
<1>4. DOMAIN Append(L, p) = 1..(Len(L) + 1)
  BY <1>3, Queues
<1>5. PICK i \in DOMAIN L : L[i] = q
  BY <1>2
<1>6. /\ i \in DOMAIN Append(L, p) /\ Len(L) + 1 \in DOMAIN Append(L, p)
      /\ i < Len(L) + 1
  BY <1>3, <1>4
<1>. QED
  BY <1>1, <1>3, <1>5, <1>6 DEF Ahead

LEMMA GraphFrame ==
    ASSUME Typed, LineUp, NEW r \in Rooms, Assured(r),
           Summoned => Summoned', canvas' = canvas, noted'[r] = noted[r],
           JoinAfter(0, r) => JoinAfter(0, r)',
           \A q \in {"mesh", "exec"} :
              /\ Builds(q)' <=> Builds(q)
              /\ Builds(q) => task'[q].room = task[q].room
              /\ Builds(q) /\ Fresh(q, r) => Fresh(q, r)',
           \/ queue' = queue
           \/ \E p \in Procs : Moves(p) /\ (p = "roster" \/ ~Builds(p))
    PROVE  Assured(r)'
<1>1. ASSUME NEW a \in {"mesh", "exec"}, NEW b \in {"mesh", "exec"},
             Builds(a), Builds(b), Follows(a, b)
      PROVE  Follows(a, b)'
  <2>1. task'[a].room = task[a].room /\ task'[b].room = task[b].room
    BY <1>1
  <2>2. task[a].room \in Rooms /\ a \in Procs /\ b \in Procs
    BY <1>1 DEF Typed, Builds, Procs
  <2>3. ASSUME NEW s \in Rooms, Ahead(b, a, s)
        PROVE  Ahead(b, a, s)'
    <3>1. CASE queue' = queue
      BY <2>3, <3>1 DEF Ahead
    <3>2. ASSUME NEW p \in Procs, Moves(p), p = "roster" \/ ~Builds(p)
          PROVE  Ahead(b, a, s)'
      <4>1. a # p /\ b # p
        BY <1>1, <3>2
      <4>. QED
        BY <2>2, <2>3, <3>2, <4>1, AheadStays
    <3>. QED
      BY <3>1, <3>2
  <2>4. PICK s \in Rooms : s = task[a].room
    BY <2>2
  <2>5. task[a].room = task[b].room /\ Ahead(b, a, s) => Ahead(b, a, s)'
    BY <2>3
  <2>. QED
    BY <1>1, <2>1, <2>4, <2>5 DEF Follows, Ahead
<1>2. Last("mesh", "exec", r) => Last("mesh", "exec", r)'
  BY <1>1 DEF Last
<1>3. Last("exec", "mesh", r) => Last("exec", "mesh", r)'
  BY <1>1 DEF Last
<1>4. Drawn(r) => Drawn(r)'
  BY DEF Drawn, AsNew
<1>. QED
  BY <1>2, <1>3, <1>4 DEF Assured

(* A coroutine whose state and buffer are left alone.                      *)
LEMMA FreshStays ==
    ASSUME Typed, NEW r \in Rooms, NEW q \in Procs, noted'[r] = noted[r],
           task'[q].room = task[q].room, task'[q].got = task[q].got,
           task'[q].for = task[q].for,
           \/ task'[q].at = task[q].at
           \/ task[q].at = "lock" /\ task'[q].at = "sent",
           task'[q].at = "answered" /\ task[q].room = r => buf'[r] = buf[r]
    PROVE  /\ Builds(q)' <=> Builds(q)
           /\ Builds(q) /\ Fresh(q, r) => Fresh(q, r)'
BY DEF Builds, Waits, Waiting, Fresh, AsNew

LEMMA SummonedNow ==
    ASSUME Typed, RequestMesh
    PROVE  Summoned' /\ task'["mesh"].for = task["mesh"].for
<1>1. task["mesh"] \in Task /\ task \in [Procs -> Task] /\ "mesh" \in Procs
  BY DEF Typed, TypeOK, Procs
<1>. QED
  BY <1>1 DEF RequestMesh, Summoned, Task

(* A coroutine that starts a build will draw last.                         *)
LEMMA StartsLast ==
    ASSUME Typed, LineUp, NEW p \in {"mesh", "exec"}, NEW q \in {"mesh", "exec"} \ {p},
           Waits(p) => MyTurn(p), NEW r \in Rooms,
           task' = [task EXCEPT ![p] = Asking(1, NoLists, "view")],
           queue' = [Left(p) EXCEPT ![1] = Append(@, p)]
    PROVE  Last(p, q, r)'
<1>1. /\ 1 \in Rooms /\ task \in [Procs -> Task] /\ p \in Procs /\ q \in Procs
      /\ r \in Nat /\ r >= 1
  BY Constants DEF Typed, TypeOK, Procs
<1>2. /\ task'[p] = Asking(1, NoLists, "view") /\ task'[q] = task[q]
  BY <1>1
<1>3. task'[p].room = 1 /\ task'[p].at = "lock" /\ task'[p].for = "view"
  BY <1>2 DEF Asking
<1>4. Builds(p)' /\ Fresh(p, r)'
  BY <1>1, <1>3 DEF Builds, Waits, Waiting, Fresh
<1>5. ASSUME Builds(q)'
      PROVE  Follows(p, q)'
  <2>1. Waits(q) /\ task[q].room \in Rooms
    BY <1>1, <1>2, <1>5 DEF Builds, Waits, Typed
  <2>2. task[q].room \in Nat /\ task[q].room >= 1
    BY <2>1, Constants
  <2>3. CASE task[q].room = 1
    <3>1. Ahead(q, p, 1)'
      BY <1>1, <2>1, <2>3, AheadOfLast
    <3>. QED
      BY <1>2, <1>3, <2>3, <3>1 DEF Follows, Ahead
  <2>4. CASE task[q].room # 1
    BY <1>2, <1>3, <2>2, <2>4 DEF Follows
  <2>. QED
    BY <2>3, <2>4
<1>. QED
  BY <1>4, <1>5 DEF Last

LEMMA RoundKeepsMesh ==
    ASSUME NEW again, NEW q, NEW ts \in [Procs -> Task], RosterRound(again, q, ts)
    PROVE  task'["mesh"] = ts["mesh"]
BY DEF RosterRound, Procs

LEMMA RefreshKeepsMesh ==
    ASSUME Typed, NEW runs \in [Procs -> Task], NEW leaves,
           leaves["mesh"] = runs["mesh"], RefreshRoster(runs, leaves)
    PROVE  task'["mesh"] = runs["mesh"]
<1>1. CASE task["roster"].at # "idle"
  BY <1>1 DEF RefreshRoster
<1>2. CASE task["roster"].at = "idle"
  BY <1>2, RoundKeepsMesh DEF RefreshRoster
<1>. QED
  BY <1>1, <1>2

(* The mesh task asks for the graph, never for nicks.                      *)
LEMMA ReturnKeepsFor ==
    ASSUME Typed, GraphKept, NEW p \in Procs, NEW ok, NEW rows, Return(p, ok, rows)
    PROVE  task'["mesh"].for = "view"
<1>0. /\ task \in [Procs -> Task] /\ {"roster", "mesh", "exec"} \subseteq Procs
      /\ task["mesh"].for = "view"
  BY DEF Typed, TypeOK, Procs, GraphKept
<1>1. CASE p = "roster"
  BY <1>0, <1>1, RoundKeepsMesh DEF Return
<1>2. CASE p = "exec"
  BY <1>0, <1>2, ReturnOthers
<1>3. CASE p = "mesh"
  <2>1. BuildOn(p, rows, [queue EXCEPT ![task[p].room] = Tail(@)])
    BY <1>0, <1>3 DEF Return
  <2>. DEFINE s == task["mesh"].room
              got == [task["mesh"].got EXCEPT ![s] = rows]
  <2>2. \/ task' = [task EXCEPT !["mesh"] = Idle]
        \/ task' = [task EXCEPT !["mesh"] = Asking(1, NoLists, "view")]
        \/ task' = [task EXCEPT !["mesh"] = Asking(s + 1, got, "view")]
    BY <1>3, <2>1 DEF BuildOn
  <2>3. \A t, g : Asking(t, g, "view").for = "view"
    BY DEF Asking
  <2>. HIDE DEF s, got
  <2>4. Idle.for = "view"
    BY DEF Idle
  <2>. QED
    BY <1>0, <2>2, <2>3, <2>4
<1>. QED
  BY <1>1, <1>2, <1>3 DEF Procs

LEMMA HeadFollows ==
    ASSUME Typed, LineUp, NEW p \in Procs, NEW q \in Procs, Waits(p), MyTurn(p), Waits(q),
           Follows(p, q)
    PROVE  task[p].room < task[q].room
<1>. DEFINE s == task[p].room
<1>1. s \in Rooms /\ queue[s] \in Seq(Procs)
  BY DEF Typed, TypeOK
<1>2. queue[s] # <<>> /\ queue[s][1] = p /\ 1 \in DOMAIN queue[s]
  BY <1>1 DEF LineUp, MyTurn
<1>3. ~Ahead(q, p, s)
  <2>1. SUFFICES ASSUME NEW i \in DOMAIN queue[s], NEW j \in DOMAIN queue[s],
                        queue[s][j] = p, i < j
                 PROVE  FALSE
    BY DEF Ahead
  <2>2. j = 1
    BY <1>1, <1>2, <2>1 DEF LineUp
  <2>. QED
    BY <1>1, <2>1, <2>2
<1>. QED
  BY <1>3 DEF Follows

LEMMA AskGraphKept ==
    ASSUME Typed, LineUp, GraphKept, NEW p \in Procs, Ask(p)
    PROVE  GraphKept'
<1>1. /\ UNCHANGED <<connected, late, down, noted, watching>>
      /\ Waits(p) /\ MyTurn(p) /\ task[p].at = "lock" /\ task[p].room \in Rooms
      /\ task \in [Procs -> Task] /\ {"roster", "mesh", "exec"} \subseteq Procs
  BY AskTyped DEF Ask, shown, Typed, TypeOK, Procs
<1>2. CASE ~connected
  <2>1. task'["mesh"].for = "view"
    <3>1. CASE task' = [task EXCEPT ![p].at = "sent"]
      BY <1>1, <3>1 DEF GraphKept, Task
    <3>2. CASE Return(p, FALSE, {})
      BY <1>1, <3>2, ReturnKeepsFor
    <3>. QED
      BY <3>1, <3>2 DEF Ask
  <2>. QED
    BY <1>1, <1>2, <2>1 DEF GraphKept
<1>3. CASE connected
  <2>1. /\ task' = [task EXCEPT ![p].at = "sent"]
        /\ buf' = [buf EXCEPT ![task[p].room] = {}]
        /\ UNCHANGED <<view, canvas, meshDirty, queue>>
    BY <1>3 DEF Ask
  <2>2. task[p] \in Task
    BY <1>1
  <2>3. /\ \A q \in Procs : /\ task'[q].room = task[q].room
                            /\ task'[q].got = task[q].got
                            /\ task'[q].for = task[q].for
        /\ task'[p].at = "sent"
        /\ \A q \in Procs \ {p} : task'[q] = task[q]
    BY <1>1, <2>1, <2>2 DEF Task
  <2>4. Summoned => Summoned'
    BY <1>1, <2>1, <2>3 DEF Summoned
  <2>5. ASSUME NEW r \in Rooms, NEW q \in {"mesh", "exec"}
        PROVE  /\ Builds(q)' <=> Builds(q)
               /\ Builds(q) /\ Fresh(q, r) => Fresh(q, r)'
    <3>1. task'[q].at = "answered" /\ task[q].room = r => buf'[r] = buf[r]
      <4>1. CASE q = p
        BY <2>3, <4>1
      <4>2. CASE q # p
        <5>1. q \in Procs \ {p} /\ task'[q] = task[q]
          BY <1>1, <2>3, <4>2
        <5>2. task[q].at = "answered" => buf'[task[q].room] = buf[task[q].room]
          BY <1>1, <2>1, <5>1, ClearsOwn
        <5>. QED
          BY <5>1, <5>2
      <4>. QED
        BY <4>1, <4>2
    <3>2. task'[q].at = task[q].at \/ (task[q].at = "lock" /\ task'[q].at = "sent")
      BY <1>1, <2>3
    <3>. QED
      BY <1>1, <2>3, <3>1, <3>2, FreshStays
  <2>6. ASSUME NEW r \in Rooms, Assured(r)
        PROVE  Assured(r)'
    <3>1. JoinAfter(0, r) => JoinAfter(0, r)'
      BY <1>1 DEF JoinAfter
    <3>2. \A q \in {"mesh", "exec"} : task'[q].room = task[q].room
      BY <1>1, <2>3
    <3>. QED
      BY <1>1, <2>1, <2>4, <2>5, <2>6, <3>1, <3>2, GraphFrame
  <2>7. task'["mesh"].for = "view"
    BY <1>1, <2>3 DEF GraphKept
  <2>. QED
    BY <1>1, <2>1, <2>6, <2>7 DEF GraphKept, MeshActive
<1>. QED
  BY <1>2, <1>3

LEMMA ReturnGraphKept ==
    ASSUME Typed, LineUp, GraphKept, NEW p \in Procs, Resume(p) \/ Timeout(p)
    PROVE  GraphKept'
<1>0. late => late'
  BY Zenon DEF Resume, Timeout
<1>1. /\ UNCHANGED <<connected, down, noted, watching>>
      /\ Waits(p) /\ MyTurn(p) /\ task[p].room \in Rooms /\ Moves(p)
      /\ task \in [Procs -> Task] /\ {"roster", "mesh", "exec"} \subseteq Procs
      /\ Return(p, TRUE, buf[task[p].room])
  BY ResumeTyped DEF Resume, Timeout, shown, wire, net, Typed, TypeOK, Procs
<1>2. task'["mesh"].for = "view" /\ (MeshActive' => MeshActive)
  <2>1. view' \in {"chat", view}
    BY <1>1, BufferTyped, ReturnMoves
  <2>. QED
    BY <1>1, <2>1, ReturnKeepsFor DEF MeshActive
<1>3. SUFFICES ASSUME connected, ~late, ~late', MeshActive, NEW r \in Rooms, Assured(r)
               PROVE  Assured(r)'
  BY <1>0, <1>1, <1>2 DEF GraphKept
<1>. PICK s \in Rooms : s = task[p].room
  BY <1>1
<1>4. /\ task[p].at = "answered" /\ buf' = [buf EXCEPT ![s] = {}] /\ s \in Nat /\ r \in Nat
      /\ queue' \in [Rooms -> Seq(Procs)]
  BY <1>1, <1>3, Constants, MovesTyped DEF Resume, Timeout, Return
<1>5. JoinAfter(0, r) => JoinAfter(0, r)'
  BY <1>1 DEF JoinAfter
<1>6. ASSUME NEW q \in {"mesh", "exec"} \ {p}
      PROVE  /\ Builds(q)' <=> Builds(q)
             /\ Builds(q) => task'[q] = task[q]
             /\ Builds(q) /\ Fresh(q, r) => Fresh(q, r)'
  <2>1. q \in Procs \ {p}
    BY <1>1
  <2>2. CASE task'[q] = task[q]
    <3>1. task'[q].at = "answered" /\ task[q].room = r => buf'[r] = buf[r]
      <4>1. SUFFICES ASSUME task[q].at = "answered" PROVE buf'[task[q].room] = buf[task[q].room]
        BY <2>2
      <4>2. buf' = [buf EXCEPT ![task[p].room] = {}]
        BY <1>4
      <4>. QED
        BY <1>1, <2>1, <4>1, <4>2, ClearsOwn
    <3>. QED
      BY <1>1, <2>1, <2>2, <3>1, FreshStays
  <2>3. CASE ~Waits(q) /\ ~(task'[q].at \in Waiting)
    BY <2>3 DEF Builds, Waits
  <2>. QED
    BY <1>1, <2>1, <2>2, <2>3 DEF Moves
<1>7. CASE ~Builds(p) \/ p = "roster"
  <2>1. /\ UNCHANGED <<canvas, meshDirty>>
        /\ \A q \in {"mesh", "exec"} : q = p => ~Builds(q)'
        /\ task'["mesh"] = task["mesh"]
    <3>1. CASE p = "roster"
      <4>1. RosterRound(dirty, [queue EXCEPT ![task[p].room] = Tail(@)], task)
        BY <1>1, <3>1 DEF Return
      <4>2. task'["mesh"] = task["mesh"]
        BY <1>1, <4>1, RoundKeepsMesh
      <4>. QED
        BY <1>1, <3>1, <4>2 DEF Return
    <3>2. CASE p # "roster"
      <4>1. p = "exec" /\ task[p].for # "view"
        BY <1>1, <1>7, <3>2 DEF GraphKept, Builds, Procs
      <4>2. NicksOn(p, TRUE, [queue EXCEPT ![task[p].room] = Tail(@)]) /\ UNCHANGED <<canvas, meshDirty>>
        BY <1>1, <3>2, <4>1 DEF Return
      <4>3. task'["mesh"] = task["mesh"]
        BY <1>1, <4>1, <4>2, OwnTask
      <4>4. ~Builds("exec")'
        <5>1. task'["exec"] = Idle \/ task'["exec"] = Asking(task[p].room + 1, NoLists, "agents")
          BY <1>1, <4>1, <4>2 DEF NicksOn
        <5>2. Idle.at = "idle" /\ Asking(task[p].room + 1, NoLists, "agents").for = "agents"
          BY IdleTyped DEF Asking
        <5>. QED
          BY <5>1, <5>2 DEF Builds, Waits, Waiting
      <4>. QED
        BY <4>1, <4>2, <4>3, <4>4
    <3>. QED
      BY <3>1, <3>2
  <2>2. Summoned => Summoned'
    BY <2>1 DEF Summoned
  <2>3. \A q \in {"mesh", "exec"} :
          /\ Builds(q)' <=> Builds(q)
          /\ Builds(q) => task'[q].room = task[q].room
          /\ Builds(q) /\ Fresh(q, r) => Fresh(q, r)'
    BY <1>6, <1>7, <2>1
  <2>. QED
    BY <1>1, <1>3, <1>5, <1>7, <2>1, <2>2, <2>3, GraphFrame
<1>8. CASE Builds(p) /\ p # "roster"
  <2>. PICK q \in {"mesh", "exec"} : q # p
    OBVIOUS
  <2>1. p \in {"mesh", "exec"} /\ q \in Procs \ {p} /\ {p, q} = {"mesh", "exec"}
    BY <1>1, <1>8 DEF Procs
  <2>2. BuildOn(p, buf[s], Left(p))
    <3>1. [queue EXCEPT ![task[p].room] = Tail(@)] = Left(p)
      BY <1>1 DEF Left
    <3>. QED
      BY <1>1, <1>8, <3>1 DEF Return, Builds
  <2>3. task[p].got \in Lists /\ Left(p) \in [Rooms -> Seq(Procs)]
    BY <1>1, <2>1, LeftTyped DEF Task
  <2>. DEFINE got == [task[p].got EXCEPT ![s] = buf[s]]
  <2>4. got[s] = buf[s] /\ \A t \in Rooms \ {s} : got[t] = task[p].got[t]
    BY <2>3 DEF Lists
  <2>5. Fresh(p, r) => s < r \/ AsNew(got[r], r)
    <3>1. CASE s = r
      BY <1>4, <2>4, <3>1 DEF Fresh
    <3>2. CASE s # r
      BY <1>4, <2>4, <3>2 DEF Fresh
    <3>. QED
      BY <3>1, <3>2
  <2>6. Builds(q) /\ Follows(p, q) => s < task[q].room
    BY <1>1, <2>1, HeadFollows DEF Builds
  <2>7. CASE s < LastRoom
    <3>1. /\ task' = [task EXCEPT ![p] = Asking(s + 1, got, "view")]
          /\ queue' = [Left(p) EXCEPT ![s + 1] = Append(@, p)]
          /\ UNCHANGED <<canvas, meshDirty>>
      BY <2>2, <2>7 DEF BuildOn
    <3>. HIDE DEF got
    <3>2. /\ s + 1 \in Rooms /\ task'[p] = Asking(s + 1, got, "view")
          /\ task'[q] = task[q]
      BY <1>1, <2>1, <2>7, <3>1, Constants
    <3>3. /\ task'[p].room = s + 1 /\ task'[p].at = "lock" /\ task'[p].for = "view"
          /\ task'[p].got = got
      BY <3>2 DEF Asking
    <3>4. Builds(p)'
      BY <3>3 DEF Builds, Waits, Waiting
    <3>5. Fresh(p, r) => Fresh(p, r)'
      <4>1. CASE s < r
        BY <1>4, <3>3, <4>1 DEF Fresh
      <4>2. CASE ~(s < r) /\ AsNew(got[r], r)
        <5>1. s + 1 > r
          BY <1>4, <4>2
        <5>2. got[r] # {} /\ \A n \in got[r] : n >= noted'[r]
          BY <1>1, <4>2 DEF AsNew
        <5>3. task'[p].room > r /\ task'[p].got[r] = got[r]
          BY <3>3, <5>1
        <5>. QED
          BY <5>2, <5>3 DEF Fresh, AsNew
      <4>. QED
        BY <2>5, <4>1, <4>2
    <3>6. Builds(q)' <=> Builds(q)
      BY <1>6, <2>1
    <3>7. ASSUME Last(p, q, r)
          PROVE  Last(p, q, r)'
      <4>1. ASSUME Builds(q)
            PROVE  Follows(p, q)'
        <5>1. s < task[q].room /\ task[q].room \in Rooms /\ Waits(q)
          BY <2>1, <2>6, <3>7, <4>1 DEF Last, Builds, Typed
        <5>2. task[q].room \in Nat
          BY <5>1, Constants
        <5>3. CASE task[q].room = s + 1
          <6>1. Ahead(q, p, s + 1)'
            BY <1>1, <2>1, <3>1, <3>2, <5>1, <5>3, AheadOfLast
          <6>2. \A t : t = s + 1 => Ahead(q, p, t)'
            BY <6>1
          <6>. QED
            BY <3>2, <3>3, <5>3, <6>2 DEF Follows, Ahead
        <5>4. CASE task[q].room # s + 1
          <6>. PICK t \in Nat : t = task[q].room
            BY <5>2
          <6>1. s \in Nat /\ s < t /\ t # s + 1
            BY <1>4, <5>1, <5>4
          <6>2. s + 1 < t
            BY <6>1
          <6>. QED
            BY <3>2, <3>3, <6>2 DEF Follows
        <5>. QED
          BY <5>3, <5>4
      <4>. QED
        BY <3>4, <3>5, <3>6, <3>7, <4>1 DEF Last
    <3>8. ASSUME Last(q, p, r)
          PROVE  Last(q, p, r)'
      <4>1. Builds(q) /\ Fresh(q, r) /\ Follows(q, p)
        BY <1>8, <3>8 DEF Last
      <4>2. task[q].room \in Nat /\ task[q].room <= s
        <5>1. task[q].room \in Nat
          BY <2>1, <4>1, Constants DEF Builds, Typed
        <5>2. task[q].room < s \/ task[q].room = s
          BY <4>1 DEF Follows
        <5>. QED
          BY <1>4, <5>1, <5>2
      <4>3. Follows(q, p)'
        <5>1. task[q].room < s + 1
          BY <1>4, <4>2
        <5>. QED
          BY <3>2, <3>3, <5>1 DEF Follows
      <4>. QED
        BY <1>6, <2>1, <4>1, <4>3 DEF Last
    <3>9. Summoned => Summoned'
      BY <1>4, <2>1, <3>1, <3>2, <3>3 DEF Summoned
    <3>10. ~Drawn(r)
      BY <1>8, <2>1 DEF Drawn
    <3>. QED
      BY <1>3, <1>5, <2>1, <3>7, <3>8, <3>9, <3>10 DEF Assured
  <2>8. CASE ~(s < LastRoom)
    <3>. DEFINE again == p = "mesh" /\ meshDirty
    <3>1. /\ canvas' = got
          /\ meshDirty' = IF p = "mesh" THEN FALSE ELSE meshDirty
          /\ IF again
             THEN /\ task' = [task EXCEPT ![p] = Asking(1, NoLists, "view")]
                  /\ queue' = [Left(p) EXCEPT ![1] = Append(@, p)]
             ELSE task' = [task EXCEPT ![p] = Idle]
      BY <1>3, <2>2, <2>8 DEF BuildOn, DrainAgain
    <3>. HIDE DEF got
    <3>2. CASE again
      <4>1. Last(p, q, r)'
        BY <1>1, <2>1, <3>1, <3>2, StartsLast
      <4>. QED
        BY <2>1, <4>1 DEF Assured
    <3>3. CASE ~again
      <4>1. task'[p] = Idle /\ task'[q] = task[q]
        BY <1>1, <2>1, <3>1, <3>3
      <4>2. ~Builds(p)'
        BY <4>1, IdleTyped DEF Builds, Waits, Waiting
      <4>3. CASE Summoned
        <5>1. p # "mesh"
          BY <1>4, <3>3, <4>3 DEF Summoned
        <5>. QED
          BY <2>1, <3>1, <4>1, <4>3, <5>1 DEF Summoned, Assured
      <4>4. CASE Last(q, p, r)
        BY <1>6, <2>1, <4>2, <4>4 DEF Last, Assured
      <4>5. CASE Last(p, q, r)
        <5>1. ~Builds(q)
          <6>1. ASSUME Builds(q) PROVE FALSE
            <7>1. s < task[q].room /\ task[q].room \in Rooms
              BY <2>1, <2>6, <4>5, <6>1 DEF Last, Builds, Typed
            <7>2. LastRoom \in Nat /\ task[q].room \in 1..LastRoom
              BY <7>1, Constants DEF Rooms
            <7>. QED
              BY <1>4, <2>8, <7>1, <7>2
          <6>. QED
            BY <6>1
        <5>2. ~Builds(q)'
          BY <1>6, <2>1, <5>1
        <5>3. ~(s < r)
          BY <1>4, <2>8, Constants DEF Rooms
        <5>4. AsNew(got[r], r)
          BY <2>5, <4>5, <5>3 DEF Last
        <5>5. Drawn(r)'
          BY <1>1, <2>1, <3>1, <4>2, <5>2, <5>4 DEF Drawn, AsNew
        <5>. QED
          BY <5>5 DEF Assured
      <4>6. ~Drawn(r)
        BY <1>8, <2>1 DEF Drawn
      <4>. QED
        BY <1>3, <1>5, <2>1, <4>3, <4>4, <4>5, <4>6 DEF Assured
    <3>. QED
      BY <3>2, <3>3
  <2>. QED
    BY <2>7, <2>8
<1>. QED
  BY <1>7, <1>8

LEMMA LightGraphKept ==
    ASSUME Typed, LineUp, GraphKept, Light
    PROVE  GraphKept'
<1>0. /\ task \in [Procs -> Task] /\ {"roster", "mesh", "exec"} \subseteq Procs
      /\ UNCHANGED <<buf, down, noted, connected, late>>
      /\ task["mesh"].for = "view"
      /\ queue' = queue \/ (\E p \in Procs : Moves(p) /\ ~Builds(p))
  BY LightBuffers, LightTyped DEF Typed, TypeOK, Procs, wire, net, GraphKept, Rests, Stays, Builds
(* The graph and its builders are left alone.                              *)
<1>1. ASSUME MeshActive' => MeshActive, Summoned => Summoned',
             task'["mesh"].for = "view", canvas' = canvas,
             \A q \in {"mesh", "exec"} : \/ task'[q] = task[q]
                                         \/ ~Builds(q) /\ ~Builds(q)'
      PROVE  GraphKept'
  <2>1. SUFFICES ASSUME NEW r \in Rooms, Assured(r)
                 PROVE  Assured(r)'
    BY <1>0, <1>1 DEF GraphKept
  <2>2. ASSUME NEW q \in {"mesh", "exec"}
        PROVE  /\ Builds(q)' <=> Builds(q)
               /\ Builds(q) => task'[q].room = task[q].room
               /\ Builds(q) /\ Fresh(q, r) => Fresh(q, r)'
    <3>1. CASE task'[q] = task[q]
      BY <1>0, <3>1, FreshStays
    <3>2. CASE ~Builds(q) /\ ~Builds(q)'
      BY <3>2
    <3>. QED
      BY <1>1, <3>1, <3>2
  <2>3. JoinAfter(0, r) => JoinAfter(0, r)'
    BY <1>0 DEF JoinAfter
  <2>. QED
    BY <1>0, <1>1, <2>1, <2>2, <2>3, GraphFrame
(* The steps of the member list.                                           *)
<1>2. ASSUME Rests \/ Moves("roster"), task'["mesh"] = task["mesh"],
             UNCHANGED <<view, watching, canvas, meshDirty>>
      PROVE  GraphKept'
  <2>1. \A q \in {"mesh", "exec"} : task'[q] = task[q] \/ (~Builds(q) /\ ~Builds(q)')
    BY <1>0, <1>2 DEF Rests, Stays, Moves, Builds, Waits
  <2>2. (MeshActive' => MeshActive) /\ (Summoned => Summoned')
    BY <1>2 DEF MeshActive, Summoned
  <2>. QED
    BY <1>0, <1>1, <1>2, <2>1, <2>2
<1>3. CASE StartRefresh \/ Poll
  <2>1. RefreshRoster(task, task) /\ UNCHANGED <<view, watching, canvas, meshDirty>>
    BY <1>3 DEF StartRefresh, Poll, shown
  <2>. QED
    BY <1>0, <1>2, <2>1, RefreshMoves, RefreshKeepsMesh
<1>4. CASE Switched
  <2>. DEFINE runs == [task EXCEPT !["exec"].at = "refresh"]
              leaves == [task EXCEPT !["exec"] = Idle]
  <2>1. /\ runs \in [Procs -> Task]
        /\ runs["mesh"] = task["mesh"] /\ leaves["mesh"] = task["mesh"]
    BY <1>0 DEF Task, Places
  <2>2. UNCHANGED <<view, watching, canvas, meshDirty>> /\ task["exec"].at = "history"
    BY <1>4 DEF Switched, shown
  <2>3. CASE RefreshRoster(runs, leaves)
    BY <1>2, <2>1, <2>2, <2>3, RefreshMoves, RefreshKeepsMesh
  <2>4. CASE ~connected /\ task' = [task EXCEPT !["exec"] = Idle]
    BY <1>0, <2>4 DEF GraphKept
  <2>. QED
    BY <1>4, <2>3, <2>4 DEF Switched
(* A build starts.                                                         *)
<1>5. ASSUME NEW p \in {"mesh", "exec"}, ~Waits(p), StartBuild(p, queue)
      PROVE  GraphKept'
  <2>. PICK q \in {"mesh", "exec"} : q # p
    OBVIOUS
  <2>1. p \in Procs /\ q \in {"mesh", "exec"} \ {p} /\ {p, q} = {"mesh", "exec"}
    BY <1>0
  <2>2. Left(p) = queue
    BY <1>5 DEF Left
  <2>3. CASE connected
    <3>1. /\ task' = [task EXCEPT ![p] = Asking(1, NoLists, "view")]
          /\ queue' = [Left(p) EXCEPT ![1] = Append(@, p)]
      BY <1>5, <2>2, <2>3 DEF StartBuild
    <3>2. \A r \in Rooms : Last(p, q, r)'
      BY <1>5, <2>1, <3>1, StartsLast
    <3>3. Asking(1, NoLists, "view").for = "view"
      BY DEF Asking
    <3>4. task'["mesh"].for = "view"
      BY <1>0, <3>1, <3>3
    <3>. QED
      BY <2>1, <3>2, <3>4 DEF GraphKept, Assured
  <2>4. CASE ~connected
    <3>1. task' = [task EXCEPT ![p] = Idle] /\ Idle.for = "view"
      BY <1>5, <2>4 DEF StartBuild, Idle
    <3>2. task'["mesh"].for = "view"
      BY <1>0, <3>1
    <3>. QED
      BY <1>0, <2>4, <3>2 DEF GraphKept
  <2>. QED
    BY <2>3, <2>4
<1>6. CASE StartDrain
  <2>1. StartBuild("mesh", queue) /\ ~Waits("mesh")
    BY <1>6 DEF StartDrain, Waits, Waiting
  <2>. QED
    BY <1>5, <2>1
<1>7. CASE ShowMesh
  <2>1. StartBuild("exec", queue) /\ ~Waits("exec")
    BY <1>7, IdleTyped DEF ShowMesh, Waits, Waiting
  <2>. QED
    BY <1>5, <2>1
(* The graph is asked for, or no longer shown.                             *)
<1>8. CASE Attach \/ Interval \/ Detach
  <2>1. CASE RequestMesh
    <3>1. Summoned' /\ task'["mesh"].for = "view"
      BY <1>0, <2>1, SummonedNow
    <3>. QED
      BY <3>1 DEF GraphKept, Assured
  <2>2. CASE ~RequestMesh
    <3>1. task' = task /\ ~MeshActive'
      BY <1>8, <2>2 DEF Attach, Interval, Detach, MeshActive
    <3>. QED
      BY <1>0, <3>1 DEF GraphKept
  <2>. QED
    BY <2>1, <2>2
(* The command asks for something else.                                    *)
<1>10. ASSUME task["exec"] = Idle, ~Builds("exec")', task'["mesh"] = task["mesh"],
              UNCHANGED <<watching, canvas, meshDirty>>, view' \in {"chat", view}
       PROVE  GraphKept'
  <2>1. ~Builds("exec")
    BY <1>10, IdleTyped DEF Builds, Waits, Waiting
  <2>2. (MeshActive' => MeshActive) /\ (Summoned => Summoned')
    BY <1>10 DEF MeshActive, Summoned
  <2>. QED
    BY <1>0, <1>1, <1>10, <2>1, <2>2
<1>11. ASSUME NEW r, Switch(r)
       PROVE  GraphKept'
  <2>1. task' = [task EXCEPT !["exec"].at = "history"]
    BY <1>11 DEF Switch
  <2>2. task'["exec"].at = "history" /\ task'["mesh"] = task["mesh"]
    BY <1>0, <2>1 DEF Task
  <2>3. ~Builds("exec")'
    BY <2>2 DEF Builds, Waits, Waiting
  <2>. QED
    BY <1>10, <1>11, <2>2, <2>3 DEF Switch
<1>12. ASSUME NEW r, NEW for \in {"who", "agents"}, AskNicks(r, for)
       PROVE  GraphKept'
  <2>1. task' = [task EXCEPT !["exec"] = Asking(r, NoLists, for)]
    BY <1>12 DEF AskNicks
  <2>2. Asking(r, NoLists, for).for = for
    BY DEF Asking
  <2>3. task'["exec"].for # "view" /\ task'["mesh"] = task["mesh"]
    BY <1>0, <2>1, <2>2
  <2>4. ~Builds("exec")'
    BY <2>3 DEF Builds
  <2>. QED
    BY <1>10, <1>12, <2>3, <2>4 DEF AskNicks, shown
<1>. QED
  BY <1>3, <1>4, <1>6, <1>7, <1>8, <1>11, <1>12 DEF Light

LEMMA WireGraphKept ==
    ASSUME Typed, LineUp, GraphKept,
           \/ Answer \/ Lose
           \/ \E r \in Rooms, kind \in {"join", "quit"} : Change(r, kind)
    PROVE  GraphKept'
<1>1. /\ UNCHANGED <<task, queue, buf, canvas, meshDirty, late, view, watching>>
      /\ connected' => connected
  BY DEF Answer, Lose, Change, shown, queries
<1>2. /\ task["mesh"].for = "view" /\ {"mesh", "exec"} \subseteq Procs
  BY DEF GraphKept, Procs
<1>3. ASSUME NEW r \in Rooms, Assured(r), noted'[r] = noted[r],
             DOMAIN down \subseteq DOMAIN down', \A k \in DOMAIN down : down'[k] = down[k]
      PROVE  Assured(r)'
  <2>1. \A q \in {"mesh", "exec"} :
          /\ Builds(q)' <=> Builds(q)
          /\ Builds(q) => task'[q].room = task[q].room
          /\ Builds(q) /\ Fresh(q, r) => Fresh(q, r)'
    BY <1>1, <1>2, <1>3, FreshStays
  <2>2. JoinAfter(0, r) => JoinAfter(0, r)'
    BY <1>3, Behind0
  <2>3. Summoned => Summoned'
    BY <1>1 DEF Summoned
  <2>. QED
    BY <1>1, <1>3, <2>1, <2>2, <2>3, GraphFrame
<1>4. CASE Lose
  BY <1>1, <1>2, <1>4 DEF Lose, GraphKept
<1>5. CASE Answer
  <2>1. UNCHANGED noted
    BY <1>5 DEF Answer
  <2>2. DOMAIN down \subseteq DOMAIN down' /\ \A k \in DOMAIN down : down'[k] = down[k]
    BY <1>5, AnswerLines
  <2>. QED
    BY <1>1, <1>2, <1>3, <2>1, <2>2 DEF GraphKept, MeshActive
<1>6. ASSUME NEW s \in Rooms, NEW kind \in {"join", "quit"}, Change(s, kind)
      PROVE  GraphKept'
  <2>1. DOMAIN down \subseteq DOMAIN down' /\ \A k \in DOMAIN down : down'[k] = down[k]
    BY <1>6, ChangeLines
  <2>2. ASSUME kind = "join"
        PROVE  JoinAfter(0, s)'
    <3>1. PICK n \in Nat : n = Len(down)
      BY Slots
    <3>2. n + 1 \in DOMAIN down' /\ down'[n + 1] = WireLine(kind, s, 0) /\ n + 1 > 0
      BY <1>6, <3>1, ChangeLines
    <3>. QED
      BY <2>2, <3>2 DEF JoinAfter, WireLine
  <2>3. ASSUME NEW r \in Rooms, r # s \/ kind = "quit"
        PROVE  noted'[r] = noted[r]
    <3>1. noted \in [Rooms -> Rows]
      BY Slots
    <3>. QED
      BY <1>6, <2>3, <3>1 DEF Change
  <2>4. ASSUME NEW r \in Rooms, Assured(r)
        PROVE  Assured(r)'
    <3>1. CASE r = s /\ kind = "join"
      BY <2>2, <3>1 DEF Assured
    <3>2. CASE r # s \/ kind = "quit"
      BY <1>3, <2>1, <2>3, <2>4, <3>2
    <3>. QED
      BY <3>1, <3>2
  <2>. QED
    BY <1>1, <1>2, <2>4 DEF GraphKept, MeshActive
<1>. QED
  BY <1>4, <1>5, <1>6

LEMMA ReceiveGraphKept ==
    ASSUME Typed, LineUp, OneAnswer, Travel, Held, GraphKept, Receive
    PROVE  GraphKept'
<1>. PICK line \in Lines : line = down[1]
  BY ReceiveLines
<1>. PICK t \in Rooms : t = line.room
  BY DEF Lines
<1>1. /\ UNCHANGED <<queue, connected, late, noted, canvas, view, watching>>
      /\ line.kind \in {"join", "quit", "row", "end"}
      /\ line.kind \in {"join", "quit"} => ReceiveChange(line)
      /\ line.kind \in {"row", "end"} => ReceiveReply(line)
      /\ 1 \in DOMAIN down
      /\ task \in [Procs -> Task] /\ {"roster", "mesh", "exec"} \subseteq Procs
      /\ task["mesh"].for = "view"
  <2>1. task \in [Procs -> Task] /\ task["mesh"].for = "view"
    BY DEF Typed, TypeOK, GraphKept
  <2>2. {"roster", "mesh", "exec"} \subseteq Procs
    BY DEF Procs
  <2>3. 1 \in DOMAIN down
    BY ReceiveLines
  <2>. QED
    BY <2>1, <2>2, <2>3, ReceiveTyped
<1>2. CASE line.kind = "join" /\ MeshActive
  <2>1. RequestMesh
    BY <1>1, <1>2 DEF ReceiveChange
  <2>2. Summoned' /\ task'["mesh"].for = "view"
    BY <1>1, <2>1, SummonedNow
  <2>. QED
    BY <2>2 DEF GraphKept, Assured
<1>3. CASE line.kind = "join" /\ ~MeshActive
  <2>1. task' = task /\ ~MeshActive'
    BY <1>1, <1>3 DEF ReceiveChange, MeshActive
  <2>. QED
    BY <1>1, <2>1 DEF GraphKept
<1>4. CASE line.kind # "join"
  <2>1. /\ meshDirty' = meshDirty
        /\ buf' = IF line.kind = "row" THEN Collect(line) ELSE buf
        /\ \A q \in Procs :
              IF line.kind = "end" /\ task[q].at = "sent" /\ task[q].room = t
              THEN task'[q] = [task[q] EXCEPT !.at = "answered"]
              ELSE task'[q] = task[q]
    <3>1. CASE line.kind = "quit"
      BY <1>1, <3>1 DEF ReceiveChange
    <3>2. CASE line.kind \in {"row", "end"}
      BY <1>1, <3>2 DEF ReceiveReply
    <3>. QED
      BY <1>1, <1>4, <3>1, <3>2
  <2>2. \A q \in Procs : /\ task'[q].room = task[q].room
                         /\ task'[q].got = task[q].got
                         /\ task'[q].for = task[q].for
                         /\ Builds(q)' <=> Builds(q)
    <3>1. ASSUME NEW q \in Procs
          PROVE  /\ task'[q].room = task[q].room
                 /\ task'[q].got = task[q].got
                 /\ task'[q].for = task[q].for
                 /\ Builds(q)' <=> Builds(q)
      <4>1. task[q] \in Task
        BY <1>1
      <4>2. CASE line.kind = "end" /\ task[q].at = "sent" /\ task[q].room = t
        <5>1. task'[q] = [task[q] EXCEPT !.at = "answered"]
          BY <2>1, <4>2
        <5>. QED
          BY <4>1, <4>2, <5>1 DEF Task, Builds, Waits, Waiting
      <4>3. CASE task'[q] = task[q]
        BY <4>3 DEF Builds, Waits
      <4>. QED
        BY <2>1, <4>2, <4>3
    <3>. QED
      BY <3>1
  <2>3. SUFFICES ASSUME connected, ~late, NEW r \in Rooms, Assured(r), ~JoinAfter(0, r)'
                 PROVE  Assured(r)'
    BY <1>1, <2>2 DEF GraphKept, MeshActive, Assured
  <2>4. ~JoinAfter(1, r) /\ ~JoinAfter(0, r)
    <3>1. ~JoinAfter(1, r)
      BY <2>3, Shifts
    <3>2. JoinAfter(0, r) => JoinAfter(1, r)
      BY <1>4, Slots DEF JoinAfter
    <3>. QED
      BY <3>1, <3>2
  <2>5. Summoned => Summoned'
    <3>1. task["mesh"].at = "new" => task'["mesh"].at = "new"
      BY <1>1, <2>1
    <3>2. task["mesh"].at # "idle" => task'["mesh"].at # "idle"
      <4>1. task["mesh"] \in Task
        BY <1>1
      <4>. QED
        BY <1>1, <2>1, <4>1 DEF Task
    <3>. QED
      BY <2>1, <3>1, <3>2 DEF Summoned
  <2>6. ASSUME NEW q \in {"mesh", "exec"}, Builds(q), Fresh(q, r)
        PROVE  Fresh(q, r)'
    <3>1. q \in Procs
      BY <1>1
    <3>2. CASE line.kind = "end" /\ task[q].at = "sent" /\ task[q].room = t
      <4>1. task[q] \in Task
        BY <1>1, <3>1
      <4>2. task'[q].at = "answered" /\ buf' = buf
        BY <2>1, <3>1, <3>2, <4>1 DEF Task
      <4>3. CASE t = r
        <5>1. HeadSent(r)
          <6>1. MyTurn(q) /\ queue[r] # <<>>
            BY <3>1, <3>2, <4>3 DEF LineUp, Waits, Waiting
          <6>. QED
            BY <3>2, <4>3, <6>1 DEF HeadSent, MyTurn
        <5>2. EndAt(1, r)
          BY <1>1, <3>2, <4>3 DEF EndAt
        <5>3. HasRow(r)
          BY <2>3, <5>1, <5>2 DEF Held, HasNone
        <5>4. AsNew(buf[r], r)
          BY <2>4, <5>3 DEF HasRow, NewRow, AsNew
        <5>. QED
          BY <1>1, <2>2, <3>1, <3>2, <4>2, <4>3, <5>4 DEF Fresh, AsNew
      <4>4. CASE t # r
        BY <1>1, <2>2, <2>6, <3>1, <3>2, <4>4 DEF Fresh, AsNew
      <4>. QED
        BY <4>3, <4>4
    <3>3. CASE ~(line.kind = "end" /\ task[q].at = "sent" /\ task[q].room = t)
      <4>1. task'[q] = task[q]
        BY <2>1, <3>1, <3>3
      <4>2. task[q].at = "answered" /\ task[q].room = r => buf'[r] = buf[r]
        <5>1. ASSUME task[q].at = "answered", task[q].room = r, line.kind = "row"
              PROVE  t # r
          BY <1>1, <2>3, <3>1, <5>1, NoStrayRow DEF RowAt
        <5>. QED
          BY <2>1, <5>1, Slots DEF Collect, Lists
      <4>. QED
        BY <1>1, <2>6, <3>1, <4>1, <4>2, FreshStays
    <3>. QED
      BY <3>2, <3>3
  <2>7. \A q \in {"mesh", "exec"} :
          /\ Builds(q)' <=> Builds(q)
          /\ Builds(q) => task'[q].room = task[q].room
          /\ Builds(q) /\ Fresh(q, r) => Fresh(q, r)'
    BY <1>1, <2>2, <2>6
  <2>. QED
    BY <1>1, <2>3, <2>4, <2>5, <2>7, GraphFrame
<1>. QED
  BY <1>2, <1>3, <1>4
-----------------------------------------------------------------------------
LEMMA TravelNext ==
    ASSUME Typed, LineUp, Travel, [MembersNext]_membersVars
    PROVE  Travel'
<1>1. CASE UNCHANGED membersVars
  BY <1>1, TravelStays DEF membersVars, wire, net
<1>2. ASSUME NEW p \in Procs, Ask(p) \/ Resume(p) \/ Timeout(p)
      PROVE  Travel'
  <2>1. UNCHANGED <<down, noted>>
    BY <1>2 DEF Ask, Resume, Timeout, wire, net
  <2>. QED
    BY <2>1, TravelStays
<1>3. CASE Light
  <2>1. UNCHANGED <<down, noted>>
    BY <1>3, LightTyped DEF wire, net
  <2>. QED
    BY <2>1, TravelStays
<1>6. ASSUME NEW r \in Rooms, Vanish(r)
      PROVE  Travel'
  BY <1>6, TravelStays DEF Vanish
<1>4. CASE Lose
  BY <1>4, LoseTyped, TravelLost
<1>5. CASE MembersNext
  BY <1>2, <1>3, <1>4, <1>5, <1>6, MembersSteps, AnswerTravels, ReceiveTravels, ChangeTravels, Zenon
<1>. QED
  BY <1>1, <1>5

LEMMA HeldNext ==
    ASSUME Typed, LineUp, OneAnswer, Travel, Held, [MembersNext]_membersVars
    PROVE  Held'
<1>1. CASE UNCHANGED membersVars
  <2>1. Typed' /\ LineUp'
    BY LinesNext
  <2>2. UNCHANGED <<task, queue, buf, late, connected, up, down, members, noted>>
    BY <1>1 DEF membersVars, wire, net, queries
  <2>3. Rests
    BY <2>2, Same
  <2>. QED
    BY <2>1, <2>2, <2>3, HeldStays
<1>4. ASSUME NEW r \in Rooms, Vanish(r)
      PROVE  Held'
  <2>1. /\ Typed' /\ LineUp'
        /\ UNCHANGED <<task, queue, buf, late, connected, up, down, noted>>
    BY <1>4, VanishTyped
  <2>2. Rests
    BY <2>1, Same
  <2>. QED
    BY <2>1, <2>2, HeldStays
<1>2. CASE Lose
  BY <1>2, LoseTyped DEF Held
<1>3. CASE MembersNext
  BY <1>2, <1>3, <1>4, MembersSteps, AskHolds, ReturnHolds, LightHolds, AnswerHolds, ChangeHolds,
     ReceiveHolds, Zenon
<1>. QED
  BY <1>1, <1>3

LEMMA RosterNext ==
    ASSUME Typed, LineUp, OneAnswer, Travel, Held, RosterKept, [MembersNext]_membersVars
    PROVE  RosterKept'
<1>1. CASE UNCHANGED membersVars
  BY <1>1 DEF membersVars, shown, wire, net, queries, RosterKept, Requested, Fetching, Current,
     Locking, Sent, Answered, Coming, NewRowAt, NewEnough, RowAt, EndAt, ChangeAfter
<1>2. CASE MembersNext
  BY <1>2, MembersSteps, AskRosterKept, ReturnRosterKept, LightRosterKept, WireRosterKept,
     ReceiveRosterKept, Zenon
<1>. QED
  BY <1>1, <1>2

LEMMA GraphNext ==
    ASSUME Typed, LineUp, OneAnswer, Travel, Held, GraphKept, [MembersNext]_membersVars
    PROVE  GraphKept'
<1>1. CASE UNCHANGED membersVars
  <2>1. UNCHANGED <<task, queue, buf, canvas, meshDirty, down, noted, connected, late,
                    view, watching>>
    BY <1>1 DEF membersVars, shown, wire, net, queries
  <2>2. ASSUME NEW r \in Rooms PROVE Assured(r)' <=> Assured(r)
    BY <2>1 DEF Assured, Summoned, JoinAfter, Last, Builds, Waits, Fresh, AsNew, Follows,
       Ahead, Drawn
  <2>. QED
    BY <2>1, <2>2 DEF GraphKept, MeshActive
<1>3. ASSUME NEW s \in Rooms, Vanish(s)
      PROVE  GraphKept'
  <2>1. UNCHANGED <<task, queue, buf, canvas, meshDirty, down, noted, connected, late,
                    view, watching>>
    BY <1>3, VanishTyped
  <2>2. ASSUME NEW r \in Rooms PROVE Assured(r)' <=> Assured(r)
    BY <2>1 DEF Assured, Summoned, JoinAfter, Last, Builds, Waits, Fresh, AsNew, Follows,
       Ahead, Drawn
  <2>. QED
    BY <2>1, <2>2 DEF GraphKept, MeshActive
<1>2. CASE MembersNext
  BY <1>2, <1>3, MembersSteps, AskGraphKept, ReturnGraphKept, LightGraphKept, WireGraphKept,
     ReceiveGraphKept, Zenon
<1>. QED
  BY <1>1, <1>2

LEMMA InitViews == MembersInit => Travel /\ Held /\ RosterKept /\ GraphKept
<1>. SUFFICES ASSUME MembersInit PROVE Travel /\ Held /\ RosterKept /\ GraphKept
  OBVIOUS
<1>1. DOMAIN down = {}
  BY DEF MembersInit
<1>2. Travel
  BY <1>1 DEF Travel
<1>3. \A r \in Rooms : queue[r] = <<>>
  BY DEF MembersInit
<1>4. Held
  BY <1>3 DEF Held, HeadSent
<1>5. RosterKept
  BY DEF MembersInit, RosterKept
<1>6. GraphKept
  BY DEF MembersInit, GraphKept, MeshActive, Idle, Procs
<1>. QED
  BY <1>2, <1>4, <1>5, <1>6

LEMMA SettledIsFresh ==
    ASSUME Typed, RosterKept, GraphKept
    PROVE  ViewsFresh
<1>. SUFFICES ASSUME Settled
              PROVE  /\ cur # 0 => Current
                     /\ MeshActive => \A r \in Rooms : AsNew(canvas[r], r)
  BY DEF ViewsFresh, Current, NewEnough, AsNew
<1>1. /\ connected /\ ~late /\ asked = 0 /\ DOMAIN down = {}
      /\ \A p \in {"roster", "mesh", "exec"} : task[p].at = "idle"
  BY DEF Settled, Procs
<1>2. ~Requested /\ ~Fetching
  BY <1>1 DEF Requested, Fetching, Locking, Sent, Answered, ChangeAfter
<1>3. ~Summoned /\ \A p \in {"mesh", "exec"} : ~Builds(p)
  BY <1>1 DEF Summoned, Builds, Waits, Waiting
<1>4. \A r : ~JoinAfter(0, r)
  BY <1>1 DEF JoinAfter
<1>5. cur # 0 => Current
  BY <1>1, <1>2 DEF RosterKept
<1>6. MeshActive => \A r \in Rooms : Drawn(r)
  BY <1>1, <1>3, <1>4 DEF GraphKept, Assured, Last
<1>. QED
  BY <1>5, <1>6 DEF Drawn

(* No request for the member list or the mesh graph is lost: once all is   *)
(* done, the graph is as new as the last JOIN or PART, and the list as the *)
(* last change the server told of, the last poll, switch or new stream     *)
(* (refresh_roster, _drain_mesh_refresh and the /mesh command that builds  *)
(* beside it).                                                             *)
THEOREM ViewsStayFresh == MembersSpec => []ViewsFresh
<1>1. MembersSpec => []OneAnswer
  <2>1. OneAnswer /\ Typed /\ LineUp /\ [MembersNext]_membersVars => OneAnswer'
    BY AnswersNext
  <2>. QED
    BY InitAnswers, MembersTyped, <2>1, PTL DEF MembersSpec
<1>2. MembersSpec => [](Travel /\ Held)
  <2>1. Travel /\ Held /\ OneAnswer /\ Typed /\ LineUp /\ [MembersNext]_membersVars
        => (Travel /\ Held)'
    BY TravelNext, HeldNext
  <2>. QED
    BY InitViews, MembersTyped, <1>1, <2>1, PTL DEF MembersSpec
<1>3. MembersSpec => [](RosterKept /\ GraphKept)
  <2>1. RosterKept /\ GraphKept /\ Travel /\ Held /\ OneAnswer /\ Typed /\ LineUp
        /\ [MembersNext]_membersVars => (RosterKept /\ GraphKept)'
    BY RosterNext, GraphNext
  <2>. QED
    BY InitViews, MembersTyped, <1>1, <1>2, <2>1, PTL DEF MembersSpec
<1>4. Typed /\ RosterKept /\ GraphKept => ViewsFresh
  BY SettledIsFresh
<1>. QED
  BY MembersTyped, <1>3, <1>4, PTL
=============================================================================
