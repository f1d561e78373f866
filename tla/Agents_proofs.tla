---------------------------- MODULE Agents_proofs ----------------------------
(***************************************************************************)
(* What Agents keeps for any number of people and calls.                   *)
(***************************************************************************)
EXTENDS Agents, TLAPS

(* A nickname is taken by an event.                                        *)
NicksCounted == \A p \in People : nick[p] <= events + 1

IndInv ==
    /\ TypeOK
    /\ NicksCounted
    /\ OpensAlone

Places == {"idle", "verified", "human", "gate", "open", "lock", "opening", "refused"}
-----------------------------------------------------------------------------
(* Disconnecting agents keeps the registry's type.                         *)
LEMMA ClosedTyped ==
    ASSUME TypeOK, NEW ps
    PROVE  Closed(ps) \in [People -> Connection]
<1>1. NoEntry \in Connection
  BY AgentsOK DEF NoEntry, Connection, Nicks
<1>2. QED
  BY <1>1 DEF TypeOK, Closed

(* So does a call that moves on or ends.                                   *)
LEMMA MoveTyped ==
    ASSUME TypeOK, NEW c \in Calls
    PROVE  /\ \A place \in Places : Going(c, place) \in [Calls -> Call]
           /\ Done(c) \in [Calls -> Call]
<1>1. ASSUME NEW place \in Places PROVE Going(c, place) \in [Calls -> Call]
  <2>1. call[c] \in Call
    BY DEF TypeOK
  <2>2. [call[c] EXCEPT !.at = place] \in Call
    BY <2>1 DEF Call, Places
  <2>3. QED
    BY <2>2 DEF TypeOK, Going
<1>2. Idle \in Call
  BY AgentsOK DEF Idle, Call, Nicks
<1>3. QED
  BY <1>1, <1>2 DEF Done, TypeOK

(* What a tool call does keeps the state well typed.                       *)
LEMMA CallTyped ==
    ASSUME TypeOK, NEW c \in Calls, Verify(c) \/ Proceed(c)
    PROVE  TypeOK'
<1>. USE DEF lives, tasks
<1>1. CASE Verify(c)
  <2>1. PICK p \in People :
            call' = [call EXCEPT ![c] = [at |-> "verified", who |-> p, nick |-> cred[p]]]
    BY <1>1 DEF Verify
  <2>2. cred[p] \in Nicks
    BY DEF TypeOK
  <2>3. [at |-> "verified", who |-> p, nick |-> cred[p]] \in Call
    BY <2>2 DEF Call
  <2>4. call' \in [Calls -> Call]
    BY <2>1, <2>3 DEF TypeOK
  <2>5. QED
    BY <1>1, <2>4 DEF Verify, TypeOK
<1>2. CASE CheckHuman(c) \/ CheckNick(c) \/ StoreBusy(c) \/ Gate(c)
  <2>1. call' \in [Calls -> Call]
    BY <1>2, MoveTyped DEF CheckHuman, CheckNick, StoreBusy, Gate, Places
  <2>2. QED
    BY <1>2, <2>1 DEF CheckHuman, CheckNick, StoreBusy, Gate, TypeOK
<1>3. CASE Share(c) \/ Connect(c) \/ ConnectFailed(c)
  <2>1. call' \in [Calls -> Call]
    BY <1>3, MoveTyped DEF Share, Connect, ConnectFailed, Places
  <2>2. QED
    BY <1>3, <2>1 DEF Share, Connect, ConnectFailed, TypeOK
<1>4. CASE Refuse(c) \/ Find(c)
  <2>1. call' \in [Calls -> Call]
    BY <1>4, MoveTyped DEF Refuse, Find, Places
  <2>2. entry' \in [People -> Connection]
    BY <1>4, ClosedTyped DEF Refuse, Find, TypeOK
  <2>3. QED
    BY <1>4, <2>1, <2>2 DEF Refuse, Find, TypeOK
<1>5. CASE Connected(c)
  <2>1. call' \in [Calls -> Call]
    BY <1>5, MoveTyped DEF Connected
  <2>2. call[c].who \in People /\ call[c].nick \in Nicks
    BY DEF TypeOK, Call
  <2>3. entry' \in [People -> Connection]
    BY <1>5, <2>2 DEF Connected, Connection, TypeOK
  <2>4. QED
    BY <1>5, <2>1, <2>3 DEF Connected, TypeOK
<1>6. QED
  BY <1>1, <1>2, <1>3, <1>4, <1>5 DEF Proceed

(* What people do, too.                                                    *)
LEMMA LiveTyped ==
    ASSUME TypeOK, NicksCounted, NEW p \in People, Issue(p) \/ CloseAgent(p) \/ Live(p)
    PROVE  TypeOK'
<1>. USE DEF lives, tasks
<1>1. CASE Issue(p)
  <2>1. 0 \in Nicks
    BY AgentsOK DEF Nicks
  <2>2. issuing' \in [People -> Nicks]
    BY <1>1, <2>1 DEF Issue, TypeOK
  <2>3. cred' \in [People -> Nicks]
    BY <1>1 DEF Issue, TypeOK
  <2>4. QED
    BY <1>1, <2>2, <2>3 DEF Issue, TypeOK
<1>2. CASE CloseAgent(p)
  BY <1>2, ClosedTyped DEF CloseAgent, TypeOK
<1>3. CASE Lose(p)
  <2>1. events' \in 0..MaxEvents
    BY <1>3, AgentsOK DEF Lose, Event, TypeOK
  <2>2. [entry EXCEPT ![p].up = FALSE] \in [People -> Connection]
    <3>1. entry[p] \in Connection
      BY DEF TypeOK
    <3>2. [entry[p] EXCEPT !.up = FALSE] \in Connection
      BY <3>1 DEF Connection
    <3>3. QED
      BY <3>2 DEF TypeOK
  <2>3. entry' \in [People -> Connection]
    BY <1>3, <2>2, ClosedTyped DEF Lose
  <2>4. QED
    BY <1>3, <2>1, <2>3 DEF Lose, TypeOK
<1>4. CASE BeginIssue(p)
  <2>1. events' \in 0..MaxEvents
    BY <1>4, AgentsOK DEF BeginIssue, Event, TypeOK
  <2>2. issuing' \in [People -> Nicks]
    BY <1>4 DEF BeginIssue, TypeOK
  <2>3. QED
    BY <1>4, <2>1, <2>2 DEF BeginIssue, TypeOK
<1>5. CASE Revoke(p)
  <2>1. events' \in 0..MaxEvents
    BY <1>5, AgentsOK DEF Revoke, Event, TypeOK
  <2>2. cred' \in [People -> Nicks]
    BY <1>5, AgentsOK DEF Revoke, TypeOK, Nicks
  <2>3. QED
    BY <1>5, <2>1, <2>2 DEF Revoke, TypeOK
<1>6. CASE Judge(p)
  <2>1. events' \in 0..MaxEvents
    BY <1>6, AgentsOK DEF Judge, Event, TypeOK
  <2>2. QED
    BY <1>6, <2>1 DEF Judge, TypeOK
<1>7. CASE Rename(p)
  <2>1. events' \in 0..MaxEvents
    BY <1>7, AgentsOK DEF Rename, Event, TypeOK
  <2>2. nick[p] + 1 \in Nicks \ {0}
    BY <1>7, AgentsOK DEF Rename, Event, NicksCounted, TypeOK, Nicks
  <2>3. nick' \in [People -> Nicks \ {0}]
    BY <1>7, <2>2 DEF Rename, TypeOK
  <2>4. closing' \subseteq People
    BY <1>7 DEF Rename, TypeOK
  <2>5. QED
    BY <1>7, <2>1, <2>3, <2>4 DEF Rename, TypeOK
<1>8. QED
  BY <1>1, <1>2, <1>3, <1>4, <1>5, <1>6, <1>7 DEF Live

(* What guests do, and their agents' reaper.                               *)
LEMMA GuestTyped ==
    ASSUME TypeOK, NEW g \in Guests, ComeOrGo(g) \/ Extend(g) \/ Reap(g)
    PROVE  TypeOK'
<1>. USE DEF lives, tasks
<1>1. CASE ComeOrGo(g)
  <2>1. events' \in 0..MaxEvents
    BY <1>1, AgentsOK DEF ComeOrGo, Event, TypeOK
  <2>2. QED
    BY <1>1, <2>1 DEF ComeOrGo, TypeOK
<1>2. CASE Extend(g)
  <2>1. events' \in 0..MaxEvents
    BY <1>2, AgentsOK DEF Extend, Event, TypeOK
  <2>2. QED
    BY <1>2, <2>1 DEF Extend, TypeOK
<1>3. CASE Reap(g)
  BY <1>3, ClosedTyped DEF Reap, TypeOK
<1>4. QED
  BY <1>1, <1>2, <1>3

SweepRecord ==
    [at : {"look", "close", "nicks", "retire"}, todo : SUBSET People,
     hit : SUBSET People, seen : [People -> Nicks]]

BanRecord ==
    [at : {"look", "close", "purge"}, todo : SUBSET Guests, hit : SUBSET Guests]

(* The sweeps.                                                             *)
LEMMA SweepTyped ==
    ASSUME TypeOK, Sweep
    PROVE  TypeOK'
<1>. USE DEF lives, tasks
<1>0. sweep \in SweepRecord
  BY DEF TypeOK, SweepRecord
<1>1. CASE SweepStart
  <2>1. /\ sweep' = [at |-> "look", todo |-> { p \in People : Held(p) },
                     hit |-> sweep.hit, seen |-> sweep.seen]
        /\ sweep' \in SweepRecord
    BY <1>0, <1>1 DEF SweepStart, SweepRecord
  <2>2. QED
    BY <1>1, <2>1 DEF SweepStart, TypeOK, SweepRecord
<1>2. CASE SweepLook
  <2>1. PICK p \in sweep.todo :
            sweep' = [sweep EXCEPT !.at = IF StillLive(p) THEN "look" ELSE "close",
                                   !.todo = @ \ {p},
                                   !.hit = IF StillLive(p) THEN {} ELSE {p}]
    BY <1>2 DEF SweepLook
  <2>2. p \in People
    BY <1>0 DEF SweepRecord
  <2>3. CASE StillLive(p)
    <3>1. sweep' = [at |-> "look", todo |-> sweep.todo \ {p}, hit |-> {},
                    seen |-> sweep.seen]
      BY <1>0, <2>1, <2>3 DEF SweepRecord
    <3>2. sweep' \in SweepRecord
      BY <1>0, <3>1 DEF SweepRecord
    <3>3. QED
      BY <1>2, <3>2 DEF SweepLook, TypeOK, SweepRecord
  <2>4. CASE ~StillLive(p)
    <3>1. sweep' = [at |-> "close", todo |-> sweep.todo \ {p}, hit |-> {p},
                    seen |-> sweep.seen]
      BY <1>0, <2>1, <2>4 DEF SweepRecord
    <3>2. sweep' \in SweepRecord
      BY <1>0, <2>2, <3>1 DEF SweepRecord
    <3>3. QED
      BY <1>2, <3>2 DEF SweepLook, TypeOK, SweepRecord
  <2>5. QED
    BY <2>3, <2>4
<1>3. CASE SweepClose
  <2>1. sweep' \in SweepRecord
    BY <1>0, <1>3 DEF SweepClose, SweepRecord
  <2>2. entry' \in [People -> Connection]
    BY <1>3, ClosedTyped DEF SweepClose
  <2>3. QED
    BY <1>3, <2>1, <2>2 DEF SweepClose, TypeOK, SweepRecord
<1>4. CASE NickList
  <2>1. [p \in People |-> entry[p].nick] \in [People -> Nicks]
    BY DEF TypeOK, Connection
  <2>2. sweep' \in SweepRecord
    BY <1>0, <1>4, <2>1 DEF NickList, SweepRecord
  <2>3. QED
    BY <1>4, <2>2 DEF NickList, TypeOK, SweepRecord
<1>5. CASE NickCompare
  <2>1. [p \in People |-> 0] \in [People -> Nicks]
    BY AgentsOK DEF Nicks
  <2>2. sweep' \in SweepRecord
    BY <1>5, <2>1 DEF NickCompare, SweepRecord
  <2>3. QED
    BY <1>5, <2>2 DEF NickCompare, TypeOK, SweepRecord
<1>6. CASE Retire
  <2>1. PICK p \in sweep.todo : /\ entry' = Closed({p})
                                /\ sweep' = [sweep EXCEPT !.todo = @ \ {p}]
    BY <1>6 DEF Retire
  <2>2. sweep' \in SweepRecord
    BY <1>0, <2>1 DEF SweepRecord
  <2>3. entry' \in [People -> Connection]
    BY <2>1, ClosedTyped
  <2>4. QED
    BY <1>6, <2>2, <2>3 DEF Retire, TypeOK, SweepRecord
<1>7. QED
  BY <1>1, <1>2, <1>3, <1>4, <1>5, <1>6 DEF Sweep

LEMMA BanTyped ==
    ASSUME TypeOK, BanSweep
    PROVE  TypeOK'
<1>. USE DEF lives, tasks
<1>0. ban \in BanRecord
  BY DEF TypeOK, BanRecord
<1>1. CASE BanStart
  <2>1. ban' \in BanRecord
    BY <1>0, <1>1 DEF BanStart, BanTargets, BanRecord
  <2>2. QED
    BY <1>1, <2>1 DEF BanStart, TypeOK, BanRecord
<1>2. CASE BanLook
  <2>1. ban' \in BanRecord
    BY <1>0, <1>2 DEF BanLook, BanRecord
  <2>2. QED
    BY <1>2, <2>1 DEF BanLook, TypeOK, BanRecord
<1>3. CASE BanClose
  <2>1. ban' \in BanRecord
    BY <1>0, <1>3 DEF BanClose, BanRecord
  <2>2. entry' \in [People -> Connection]
    BY <1>3, ClosedTyped DEF BanClose
  <2>3. QED
    BY <1>3, <2>1, <2>2 DEF BanClose, TypeOK, BanRecord
<1>4. CASE BanPurge
  <2>1. ban' \in BanRecord
    BY <1>0, <1>4 DEF BanPurge, BanRecord
  <2>2. cred' \in [People -> Nicks]
    BY <1>4, AgentsOK DEF BanPurge, TypeOK, Nicks
  <2>3. QED
    BY <1>4, <2>1, <2>2 DEF BanPurge, TypeOK, BanRecord
<1>5. QED
  BY <1>1, <1>2, <1>3, <1>4 DEF BanSweep

(* Every step keeps the state well typed.                                  *)
LEMMA TypeStep == TypeOK /\ NicksCounted /\ [Next]_vars => TypeOK'
<1>. SUFFICES ASSUME TypeOK, NicksCounted, [Next]_vars PROVE TypeOK'
  OBVIOUS
<1>1. CASE Next
  BY <1>1, CallTyped, LiveTyped, GuestTyped, SweepTyped, BanTyped DEF Next
<1>2. CASE UNCHANGED vars
  BY <1>2 DEF vars, lives, tasks, TypeOK
<1>3. QED
  BY <1>1, <1>2

-----------------------------------------------------------------------------
(* Nicknames change, and events are counted, in one action each at most.   *)
LEMMA NicksStep == TypeOK /\ NicksCounted /\ [Next]_vars => NicksCounted'
<1>. SUFFICES ASSUME TypeOK, NicksCounted, [Next]_vars PROVE NicksCounted'
  OBVIOUS
<1>. USE DEF lives, tasks
<1>0. /\ events \in Nat
      /\ \A p \in People : nick[p] \in Nat
  BY AgentsOK DEF TypeOK, Nicks
<1>1. ASSUME NEW p \in People, Rename(p) PROVE NicksCounted'
  BY <1>0, <1>1 DEF Rename, Event, NicksCounted, TypeOK
<1>2. ASSUME nick' = nick, events' \in {events, events + 1} PROVE NicksCounted'
  BY <1>0, <1>2 DEF NicksCounted
<1>3. ASSUME NEW c \in Calls, Verify(c) \/ Proceed(c) PROVE NicksCounted'
  <2>1. nick' = nick /\ events' = events
    BY <1>3 DEF Proceed, Verify, CheckHuman, CheckNick, StoreBusy, Gate, Refuse,
                Find, Share, Connect, Connected, ConnectFailed
  <2>2. QED
    BY <1>2, <2>1
<1>4. ASSUME NEW p \in People, Issue(p) \/ CloseAgent(p) \/ Live(p) PROVE NicksCounted'
  <2>1. Rename(p) \/ (nick' = nick /\ events' \in {events, events + 1})
    BY <1>4 DEF Issue, CloseAgent, Live, Lose, BeginIssue, Revoke, Judge, Event
  <2>2. QED
    BY <1>1, <1>2, <2>1
<1>5. ASSUME NEW g \in Guests, ComeOrGo(g) \/ Extend(g) \/ Reap(g) PROVE NicksCounted'
  <2>1. nick' = nick /\ events' \in {events, events + 1}
    BY <1>5 DEF ComeOrGo, Extend, Reap, Event
  <2>2. QED
    BY <1>2, <2>1
<1>6. CASE Sweep \/ BanSweep
  <2>1. nick' = nick /\ events' = events
    BY <1>6 DEF Sweep, SweepStart, SweepLook, SweepClose, NickList, NickCompare, Retire,
                BanSweep, BanStart, BanLook, BanClose, BanPurge
  <2>2. QED
    BY <1>2, <2>1
<1>7. CASE UNCHANGED vars
  BY <1>2, <1>7 DEF vars
<1>8. QED
  BY <1>3, <1>4, <1>5, <1>6, <1>7 DEF Next

-----------------------------------------------------------------------------
(* A step that opens nothing and registers nothing keeps OpensAlone.       *)
LEMMA NothingOpens ==
    ASSUME OpensAlone,
           \A c \in Calls : call'[c].at = "opening" =>
               call[c].at = "opening" /\ call'[c].who = call[c].who,
           \A p \in People : ~Held(p) => ~Held(p)',
           call \in [Calls -> Call]
    PROVE  OpensAlone'
<1>1. \A c \in Calls : call[c].who \in People
  BY DEF Call
<1>2. QED
  BY <1>1, Zenon DEF OpensAlone

(* Disconnecting an agent registers nothing.                               *)
LEMMA ClosedHolds ==
    ASSUME NEW ps, entry' = Closed(ps)
    PROVE  \A p \in People : ~Held(p) => ~Held(p)'
BY DEF Closed, Held, NoEntry

(* Every step keeps OpensAlone.                                            *)
LEMMA OpensStep == TypeOK /\ OpensAlone /\ [Next]_vars => OpensAlone'
<1>. SUFFICES ASSUME TypeOK, OpensAlone, [Next]_vars PROVE OpensAlone'
  OBVIOUS
<1>. USE DEF lives, tasks
<1>0. call \in [Calls -> Call]
  BY DEF TypeOK
<1>1. ASSUME UNCHANGED call, \A p \in People : ~Held(p) => ~Held(p)'
      PROVE  OpensAlone'
  BY <1>0, <1>1, NothingOpens
<1>2. ASSUME UNCHANGED entry, UNCHANGED call PROVE OpensAlone'
  BY <1>1, <1>2 DEF Held
<1>3. ASSUME NEW c \in Calls, Verify(c) \/ Proceed(c) PROVE OpensAlone'
  <2>1. CASE Verify(c)
    <3>1. \A p \in People : ~Held(p) => ~Held(p)'
      BY <2>1 DEF Verify, Held
    <3>2. \A d \in Calls : call'[d].at = "opening" => d # c /\ call'[d] = call[d]
      BY <1>0, <2>1 DEF Verify
    <3>3. QED
      BY <1>0, <3>1, <3>2, NothingOpens
  <2>2. ASSUME NEW place \in Places \ {"opening"}, call' = Going(c, place),
               \A p \in People : ~Held(p) => ~Held(p)'
        PROVE  OpensAlone'
    <3>1. call'[c].at = place
      BY <1>0, <2>2 DEF Going, Call
    <3>2. \A d \in Calls : d # c => call'[d] = call[d]
      BY <1>0, <2>2 DEF Going
    <3>3. QED
      BY <1>0, <2>2, <3>1, <3>2, NothingOpens
  <2>3. ASSUME call' = Done(c), \A p \in People : ~Held(p) => ~Held(p)'
        PROVE  OpensAlone'
    <3>1. call'[c].at = "idle"
      BY <1>0, <2>3 DEF Done, Idle
    <3>2. \A d \in Calls : d # c => call'[d] = call[d]
      BY <1>0, <2>3 DEF Done
    <3>3. QED
      BY <1>0, <2>3, <3>1, <3>2, NothingOpens
  <2>4. CASE CheckHuman(c) \/ CheckNick(c) \/ StoreBusy(c) \/ Gate(c)
    <3>1. \A p \in People : ~Held(p) => ~Held(p)'
      BY <2>4 DEF CheckHuman, CheckNick, StoreBusy, Gate, Held
    <3>2. \/ call' = Done(c)
          \/ \E place \in {"human", "refused", "gate", "open"} : call' = Going(c, place)
      BY <2>4 DEF CheckHuman, CheckNick, StoreBusy, Gate
    <3>3. QED
      BY <2>2, <2>3, <3>1, <3>2 DEF Places
  <2>5. CASE Refuse(c) \/ Find(c)
    <3>1. \A p \in People : ~Held(p) => ~Held(p)'
      <4>1. UNCHANGED entry \/ \E ps : entry' = Closed(ps)
        BY <2>5 DEF Refuse, Find
      <4>2. QED
        BY <4>1, ClosedHolds DEF Held
    <3>2. call' = Done(c) \/ call' = Going(c, "lock")
      BY <2>5 DEF Refuse, Find
    <3>3. QED
      BY <2>2, <2>3, <3>1, <3>2 DEF Places
  <2>6. CASE Share(c) \/ ConnectFailed(c)
    BY <2>3, <2>6 DEF Share, ConnectFailed, Held
  <2>7. CASE Connect(c)
    <3>1. call[c].who \in People
      BY <1>0 DEF Call
    <3>2. /\ call'[c].at = "opening" /\ call'[c].who = call[c].who
          /\ \A d \in Calls : d # c => call'[d] = call[d]
      BY <1>0, <2>7 DEF Connect, Going, Call
    <3>3. /\ ~Held(call[c].who)
          /\ \A d \in Calls : call[d].at = "opening" => call[d].who # call[c].who
      BY <2>7 DEF Connect, KeyLockFree
    <3>4. entry' = entry
      BY <2>7 DEF Connect
    <3>5. \A d \in Calls : call'[d].at = "opening" => entry'[call'[d].who].nick = 0
      BY <3>2, <3>3, <3>4 DEF OpensAlone, Held
    <3>6. \A d, e \in Calls : /\ d # e
                              /\ call'[d].at = "opening"
                              /\ call'[e].at = "opening"
                              => call'[d].who # call'[e].who
      BY <3>2, <3>3 DEF OpensAlone
    <3>7. QED
      BY <3>5, <3>6, Zenon DEF OpensAlone, Held
  <2>8. CASE Connected(c)
    <3>1. call[c].at = "opening" /\ call[c].who \in People
      BY <1>0, <2>8 DEF Connected, Call
    <3>2. /\ call'[c].at = "idle"
          /\ \A d \in Calls : d # c => call'[d] = call[d]
      BY <1>0, <2>8 DEF Connected, Done, Idle
    <3>3. \A p \in People : p # call[c].who => entry'[p] = entry[p]
      BY <2>8 DEF Connected, TypeOK
    <3>4. \A d \in Calls : call'[d].at = "opening" =>
            d # c /\ call[d].who \in People /\ call[d].who # call[c].who
      BY <1>0, <3>1, <3>2 DEF OpensAlone, Call
    <3>5. \A d \in Calls : call'[d].at = "opening" => entry'[call'[d].who].nick = 0
      BY <3>2, <3>3, <3>4 DEF OpensAlone, Held
    <3>6. \A d, e \in Calls : /\ d # e
                              /\ call'[d].at = "opening"
                              /\ call'[e].at = "opening"
                              => call'[d].who # call'[e].who
      BY <3>2, <3>4 DEF OpensAlone
    <3>7. QED
      BY <3>5, <3>6, Zenon DEF OpensAlone, Held
  <2>9. QED
    BY <1>3, <2>1, <2>4, <2>5, <2>6, <2>7, <2>8 DEF Proceed
<1>4. ASSUME NEW p \in People, Lose(p) PROVE OpensAlone'
  <2>1. \A q \in People : ~Held(q) => ~Held(q)'
    <3>1. CASE entry' = [entry EXCEPT ![p].up = FALSE]
      BY <3>1 DEF Held, TypeOK, Connection
    <3>2. CASE entry' = Closed({p})
      BY <3>2, ClosedHolds
    <3>3. QED
      BY <1>4, <3>1, <3>2 DEF Lose
  <2>2. QED
    BY <1>1, <1>4, <2>1 DEF Lose
<1>5. ASSUME NEW p \in People,
             Issue(p) \/ BeginIssue(p) \/ Revoke(p) \/ Judge(p) \/ Rename(p)
      PROVE  OpensAlone'
  BY <1>2, <1>5 DEF Issue, BeginIssue, Revoke, Judge, Rename
<1>6. ASSUME NEW p \in People, CloseAgent(p) \/ Reap(p) PROVE OpensAlone'
  BY <1>1, <1>6, ClosedHolds DEF CloseAgent, Reap
<1>7. ASSUME NEW g \in Guests, ComeOrGo(g) \/ Extend(g) PROVE OpensAlone'
  BY <1>2, <1>7 DEF ComeOrGo, Extend
<1>8. CASE SweepClose \/ Retire \/ BanClose
  <2>1. UNCHANGED call /\ \E ps : entry' = Closed(ps)
    BY <1>8 DEF SweepClose, Retire, BanClose
  <2>2. QED
    BY <1>1, <2>1, ClosedHolds
<1>9. CASE SweepStart \/ SweepLook \/ NickList \/ NickCompare \/ BanStart \/ BanLook \/ BanPurge
  BY <1>2, <1>9 DEF SweepStart, SweepLook, NickList, NickCompare, BanStart, BanLook, BanPurge
<1>10. CASE UNCHANGED vars
  BY <1>2, <1>10 DEF vars
<1>11. Guests \subseteq People
  BY AgentsOK
<1>12. QED
  BY <1>3, <1>4, <1>5, <1>6, <1>7, <1>8, <1>9, <1>10, <1>11 DEF Next, Live, Sweep, BanSweep

-----------------------------------------------------------------------------
(* Types, the count of nicknames, and the agents' key locks, for any       *)
(* people, calls and bound.                                                *)
THEOREM AgentsInvariant == Spec => []IndInv
<1>1. Init => IndInv
  <2>. SUFFICES ASSUME Init PROVE IndInv
    OBVIOUS
  <2>1. Idle \in Call /\ Idle.at = "idle"
    BY AgentsOK DEF Idle, Call, Nicks
  <2>2. call \in [Calls -> Call] /\ \A c \in Calls : call[c].at = "idle"
    BY <2>1 DEF Init
  <2>3. TypeOK
    <3>1. 0 \in Nicks /\ 1 \in Nicks \ {0} /\ 0 \in 0..MaxEvents
      BY AgentsOK DEF Nicks
    <3>2. /\ nick \in [People -> Nicks \ {0}]
          /\ cred \in [People -> Nicks]
          /\ issuing \in [People -> Nicks]
      BY <3>1 DEF Init
    <3>3. entry \in [People -> Connection]
      BY <3>1 DEF Init, NoEntry, Connection
    <3>4. sweep.seen \in [People -> Nicks]
      BY <3>1 DEF Init
    <3>5. QED
      BY <2>2, <3>1, <3>2, <3>3, <3>4 DEF Init, TypeOK
  <2>4. NicksCounted
    <3>1. events = 0 /\ \A p \in People : nick[p] = 1
      BY DEF Init
    <3>2. 1 <= 0 + 1
      OBVIOUS
    <3>3. \A p \in People : nick[p] <= events + 1
      BY <3>1, <3>2, Zenon
    <3>4. QED
      BY <3>3 DEF NicksCounted
  <2>5. OpensAlone
    BY <2>2 DEF OpensAlone
  <2>6. QED
    BY <2>3, <2>4, <2>5 DEF IndInv
<1>2. IndInv /\ [Next]_vars => IndInv'
  BY TypeStep, NicksStep, OpensStep DEF IndInv
<1>3. QED
  BY <1>1, <1>2, PTL DEF Spec

(* Type correctness.                                                       *)
THEOREM AgentsTyped == Spec => []TypeOK
BY AgentsInvariant, PTL DEF IndInv

(* No opening agent connection ever buries another (get_or_open_agent's    *)
(* lock and second look).                                                  *)
THEOREM AgentsOpenAlone == Spec => []OpensAlone
BY AgentsInvariant, PTL DEF IndInv
=============================================================================
