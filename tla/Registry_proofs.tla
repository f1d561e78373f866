--------------------------- MODULE Registry_proofs ---------------------------
(***************************************************************************)
(* What Registry keeps for any number of backends, browsers and requests.  *)
(***************************************************************************)
EXTENDS Registry, TLAPS

(* The key's lock: one request opens a backend's connection at a time, and *)
(* while it does the backend has no entry.                                 *)
Opening(r, b) == req[r].at = "open" /\ req[r].backend = b
OneOpener ==
    \A b \in Backends : \A q, r \in Reqs : Opening(q, b) /\ Opening(r, b) => q = r
OpenUnregistered == \A b \in Backends : \A r \in Reqs : Opening(r, b) => entry[b] = NoEntry

IndInv ==
    /\ TypeOK
    /\ OneOpener
    /\ OpenUnregistered
    /\ LinkNamesUser
-----------------------------------------------------------------------------
(* Closing and unlinking connections keeps the types.                      *)
LEMMA CloseTyped ==
    ASSUME TypeOK, NEW B
    PROVE  /\ Close(B) => entry' \in [Backends -> Connection \union {NoEntry}]
           /\ Unlink(B) => link' \in [Backends -> Opener]
BY DEF TypeOK, Close, Unlink, Opener

(* So does a request that moves on or is done.                             *)
LEMMA MoveTyped ==
    ASSUME TypeOK, NEW r \in Reqs, NEW place \in Places, Done(r) \/ Go(r, place)
    PROVE  req' \in [Reqs -> Request]
<1>1. FreeReq \in Request
  BY RegistryOK DEF FreeReq, Request, Places, Opener, Nick
<1>2. CASE Done(r)
  BY <1>1, <1>2 DEF Done, TypeOK
<1>3. CASE Go(r, place)
  BY <1>3 DEF Go, TypeOK, Request
<1>4. QED
  BY <1>2, <1>3

(* So does noting who opened a connection.                                 *)
LEMMA NoteTyped ==
    ASSUME TypeOK, NEW r \in Reqs, NoteOpen(r)
    PROVE  link' \in [Backends -> Opener]
BY DEF TypeOK, NoteOpen, Request

(* Every step keeps the state well typed.                                  *)
LEMMA TypeStep == TypeOK /\ [Next]_vars => TypeOK'
<1>. SUFFICES ASSUME TypeOK, [Next]_vars PROVE TypeOK'
  OBVIOUS
<1>. USE DEF person, closers
<1>1. ASSUME NEW r \in Reqs, NEW b \in Backends, NEW d \in Opener, Arrive(r, b, d)
      PROVE  TypeOK'
  BY <1>1 DEF Arrive, TypeOK, Request, Places
<1>2. ASSUME NEW r \in Reqs, Reuse(r) \/ ConnectFailed(r) PROVE TypeOK'
  BY <1>2, MoveTyped DEF Reuse, ConnectFailed, TypeOK, Places
<1>3. ASSUME NEW r \in Reqs, RetireRenamed(r) \/ EvictDead(r) PROVE TypeOK'
  BY <1>3, MoveTyped, CloseTyped DEF RetireRenamed, EvictDead, Retire, TypeOK, Places
<1>4. ASSUME NEW r \in Reqs, Queue(r) \/ Connect(r) PROVE TypeOK'
  BY <1>4, MoveTyped DEF Queue, Connect, TypeOK, Places
<1>5. ASSUME NEW r \in Reqs, Share(r) PROVE TypeOK'
  <2>1. req[r].backend \in Backends /\ req[r].browser \in Opener
    BY DEF TypeOK, Request
  <2>2. entry[req[r].backend] \in Connection
    BY <1>5, <2>1 DEF Share, TypeOK
  <2>3. [entry[req[r].backend] EXCEPT !.for = @ \union {req[r].browser}] \in Connection
    BY <2>1, <2>2 DEF Connection
  <2>4. entry' = [entry EXCEPT ![req[r].backend] =
                    [entry[req[r].backend] EXCEPT !.for = @ \union {req[r].browser}]]
    BY <1>5 DEF Share
  <2>5. entry' \in [Backends -> Connection \union {NoEntry}]
    BY <2>1, <2>3, <2>4 DEF TypeOK
  <2>6. QED
    BY <1>5, <2>5, MoveTyped, NoteTyped DEF Share, TypeOK, Places
<1>6. ASSUME NEW r \in Reqs, Connected(r) PROVE TypeOK'
  <2>1. /\ req[r].backend \in Backends /\ req[r].browser \in Opener
        /\ req[r].nick \in Nick
    BY DEF TypeOK, Request
  <2>2. [nick |-> req[r].nick, dead |-> FALSE, by |-> r, for |-> {req[r].browser}]
          \in Connection
    BY <2>1 DEF Connection
  <2>3. entry' \in [Backends -> Connection \union {NoEntry}]
    BY <1>6, <2>1, <2>2 DEF Connected, TypeOK
  <2>4. QED
    BY <1>6, <2>3, MoveTyped, NoteTyped DEF Connected, TypeOK, Places
<1>7. ASSUME NEW d \in Browsers, SignIn(d) \/ Lapse(d) PROVE TypeOK'
  BY <1>7 DEF SignIn, Lapse, TypeOK
<1>8. ASSUME NEW D \in SUBSET Browsers, EndSessions(D) PROVE TypeOK'
  BY <1>8 DEF EndSessions, TypeOK, Ending
<1>9. CASE SetApproved
  BY <1>9 DEF SetApproved, TypeOK
<1>10. CASE Rename
  BY <1>10, RegistryOK DEF Rename, TypeOK, Nick
<1>11. CASE CloseLinks
  <2>1. ASSUME NEW B \in SUBSET Backends, CloseSome(B)
        PROVE  /\ entry' \in [Backends -> Connection \union {NoEntry}]
               /\ link' \in [Backends -> Opener]
               /\ ending' \in Ending
    <3>1. CASE B = {}
      BY <2>1, <3>1 DEF CloseSome, TypeOK, Ending, FreeEnding
    <3>2. CASE B # {}
      <4>1. PICK b \in B : /\ Unlink({b}) /\ Close({b})
                           /\ ending' = [at |-> "close", who |-> ending.who, left |-> B \ {b}]
        BY <2>1, <3>2 DEF CloseSome, Retire
      <4>2. ending.who \in SUBSET Browsers
        BY DEF TypeOK, Ending
      <4>3. QED
        BY <4>1, <4>2, CloseTyped DEF Ending
    <3>3. QED
      BY <3>1, <3>2
  <2>2. {b \in Backends : link[b] \in ending.who} \in SUBSET Backends
        /\ ending.left \in SUBSET Backends
    BY DEF TypeOK, Ending
  <2>3. QED
    BY <1>11, <2>1, <2>2 DEF CloseLinks, TypeOK
<1>12. ASSUME NEW b \in Backends, RetireRenaming(b) \/ RetireStale(b) \/ CloseLapsed(b)
       PROVE  TypeOK'
  BY <1>12, CloseTyped DEF RetireRenaming, RetireStale, CloseLapsed, Retire, TypeOK
<1>13. ASSUME NEW b \in Backends, NEW d \in Browsers, CheckLink(b, d) PROVE TypeOK'
  BY <1>13, CloseTyped DEF CheckLink, TypeOK
<1>14. ASSUME NEW b \in Backends, Drop(b) PROVE TypeOK'
  <2>1. entry[b] \in Connection
    BY <1>14 DEF Drop, TypeOK
  <2>2. [entry[b] EXCEPT !.dead = TRUE] \in Connection
    BY <2>1 DEF Connection
  <2>3. entry' = [entry EXCEPT ![b] = [entry[b] EXCEPT !.dead = TRUE]]
    BY <1>14 DEF Drop
  <2>4. entry' \in [Backends -> Connection \union {NoEntry}]
    BY <2>2, <2>3 DEF TypeOK
  <2>5. QED
    BY <1>14, <2>4 DEF Drop, TypeOK
<1>15. CASE ReapView
  BY <1>15, CloseTyped DEF ReapView, TypeOK
<1>16. CASE FindStale
  BY <1>16 DEF FindStale, TypeOK
<1>17. CASE StartCheck
  BY <1>17 DEF StartCheck, TypeOK, Opener
<1>18. CASE UNCHANGED vars
  BY <1>18 DEF vars, TypeOK
<1>19. QED
  BY <1>1, <1>2, <1>3, <1>4, <1>5, <1>6, <1>7, <1>8, <1>9, <1>10, <1>11, <1>12,
     <1>13, <1>14, <1>15, <1>16, <1>17, <1>18
     DEF Next, Proceed, Person, Logout, Closers

-----------------------------------------------------------------------------
(* What a step may do to an entry: leave it, close it, mark it dead, let   *)
(* another browser share it, or fill it for the holder of the key's lock.  *)
Same(b) == entry'[b] = entry[b]
Closed(b) == entry'[b] = NoEntry
Grown(b) ==
    /\ entry[b] # NoEntry
    /\ entry'[b] # NoEntry
    /\ entry'[b].by = entry[b].by
    /\ entry[b].for \subseteq entry'[b].for
Filled(b) == \E r \in Reqs : Opening(r, b) /\ ~Opening(r, b)'

(* A close leaves an entry as it was or removes it.                        *)
LEMMA CloseEffect ==
    ASSUME NEW B, Close(B), NEW b \in Backends
    PROVE  Same(b) \/ Closed(b)
BY DEF Close, Same, Closed

(* Every step keeps an entry, removes it, or fills an empty place.         *)
LEMMA EntryStep ==
    ASSUME TypeOK, [Next]_vars, NEW b \in Backends
    PROVE  Same(b) \/ Closed(b) \/ Grown(b) \/ Filled(b)
<1>. USE DEF person, closers
<1>1. ASSUME entry' = entry PROVE Same(b)
  BY <1>1 DEF Same
<1>2. ASSUME NEW r \in Reqs, Proceed(r) PROVE Same(b) \/ Closed(b) \/ Grown(b) \/ Filled(b)
  <2>1. CASE Reuse(r) \/ Queue(r) \/ Connect(r) \/ ConnectFailed(r)
    BY <1>1, <2>1 DEF Reuse, Queue, Connect, ConnectFailed
  <2>2. CASE RetireRenamed(r) \/ EvictDead(r)
    BY <2>2, CloseEffect DEF RetireRenamed, EvictDead, Retire
  <2>3. CASE Share(r)
    <3>1. CASE req[r].backend = b
      <4>1. entry[b] \in Connection
        BY <2>3, <3>1 DEF Share, TypeOK
      <4>2. entry'[b] = [entry[b] EXCEPT !.for = entry[b].for \union {req[r].browser}]
        BY <2>3, <3>1 DEF Share, TypeOK
      <4>3. /\ entry'[b].by = entry[b].by
            /\ entry'[b].for = entry[b].for \union {req[r].browser}
            /\ entry'[b] \in [nick : Nick, dead : BOOLEAN, by : Reqs, for : {entry[b].for \union {req[r].browser}}]
        BY <4>1, <4>2 DEF Connection
      <4>4. entry[b] # NoEntry
        BY <2>3, <3>1 DEF Share
      <4>5. CASE entry'[b] = NoEntry
        BY <4>5 DEF Closed
      <4>6. CASE entry'[b] # NoEntry
        BY <4>3, <4>4, <4>6 DEF Grown
      <4>7. QED
        BY <4>5, <4>6
    <3>2. CASE req[r].backend # b
      BY <2>3, <3>2 DEF Share, Same, TypeOK
    <3>3. QED
      BY <3>1, <3>2
  <2>4. CASE Connected(r)
    <3>1. CASE req[r].backend = b
      BY <2>4, <3>1 DEF Connected, Done, FreeReq, Filled, Opening, TypeOK
    <3>2. CASE req[r].backend # b
      BY <2>4, <3>2 DEF Connected, Same, TypeOK
    <3>3. QED
      BY <3>1, <3>2
  <2>5. QED
    BY <1>2, <2>1, <2>2, <2>3, <2>4 DEF Proceed
<1>3. ASSUME NEW c \in Backends, Drop(c) PROVE Same(b) \/ Closed(b) \/ Grown(b)
  <2>1. CASE c = b
    <3>1. entry[b] \in Connection /\ entry[b] # NoEntry
      BY <1>3, <2>1 DEF Drop, TypeOK
    <3>2. entry'[b] = [entry[b] EXCEPT !.dead = TRUE]
      BY <1>3, <2>1 DEF Drop, TypeOK
    <3>3. entry'[b].by = entry[b].by /\ entry'[b].for = entry[b].for
      BY <3>1, <3>2 DEF Connection
    <3>4. QED
      BY <3>1, <3>3 DEF Closed, Grown
  <2>2. CASE c # b
    BY <1>3, <2>2 DEF Drop, Same, TypeOK
  <2>3. QED
    BY <2>1, <2>2
<1>4. CASE \E r \in Reqs, c \in Backends, d \in Opener : Arrive(r, c, d)
  BY <1>1, <1>4 DEF Arrive
<1>5. CASE Person
  BY <1>1, <1>5 DEF Person, SignIn, Lapse, Logout, EndSessions, SetApproved, Rename
<1>6. CASE Closers
  BY <1>1, <1>6, CloseEffect DEF Closers, CloseLinks, CloseSome, RetireRenaming,
     RetireStale, CloseLapsed, CheckLink, Retire
<1>7. CASE ReapView
  BY <1>7, CloseEffect DEF ReapView
<1>8. CASE FindStale \/ StartCheck \/ UNCHANGED vars
  BY <1>1, <1>8 DEF FindStale, StartCheck, vars
<1>9. QED
  BY <1>2, <1>3, <1>4, <1>5, <1>6, <1>7, <1>8 DEF Next

(* Who holds a key's lock: a request that found it free, and found no      *)
(* entry, or one that held it before.                                      *)
LEMMA LockStep ==
    ASSUME TypeOK, [Next]_vars, NEW r \in Reqs, NEW b \in Backends, Opening(r, b)'
    PROVE  \/ Opening(r, b)
           \/ /\ \A q \in Reqs : ~Opening(q, b)
              /\ \A q \in Reqs \ {r} : ~Opening(q, b)'
              /\ entry[b] = NoEntry
              /\ entry' = entry
<1>. USE DEF person, closers
<1>1. ASSUME req' = req PROVE Opening(r, b)
  BY <1>1 DEF Opening
<1>2. ASSUME NEW q \in Reqs, NEW place \in Places, Done(q) \/ Go(q, place), place # "open"
      PROVE  Opening(r, b)
  BY <1>2 DEF Done, Go, FreeReq, Opening, TypeOK, Request
<1>3. ASSUME NEW q \in Reqs, Connect(q)
      PROVE  \/ Opening(r, b)
             \/ /\ \A p \in Reqs : ~Opening(p, b)
                /\ \A p \in Reqs \ {r} : ~Opening(p, b)'
                /\ entry[b] = NoEntry
                /\ entry' = entry
  <2>1. CASE q = r
    <3>1. req'[r].backend = req[r].backend
      BY <1>3, <2>1 DEF Connect, Go, TypeOK, Request
    <3>2. req[r].backend = b
      BY <3>1 DEF Opening
    <3>3. \A p \in Reqs \ {r} : req'[p] = req[p]
      BY <1>3, <2>1 DEF Connect, Go, TypeOK
    <3>4. QED
      BY <1>3, <2>1, <3>2, <3>3 DEF Connect, KeyLockFree, Opening
  <2>2. CASE q # r
    BY <1>3, <2>2 DEF Connect, Go, Opening, TypeOK
  <2>3. QED
    BY <2>1, <2>2
<1>4. ASSUME NEW q \in Reqs, Proceed(q), ~Connect(q) PROVE Opening(r, b)
  BY <1>2, <1>4 DEF Proceed, Reuse, RetireRenamed, EvictDead, Queue, Share,
     Connected, ConnectFailed, Places
<1>5. CASE \E q \in Reqs, c \in Backends, d \in Opener : Arrive(q, c, d)
  BY <1>5 DEF Arrive, Opening, TypeOK
<1>6. CASE Person \/ Closers
  BY <1>1, <1>6 DEF Person, SignIn, Lapse, Logout, EndSessions, SetApproved, Rename,
     Closers, CloseLinks, RetireRenaming, RetireStale, CloseLapsed, CheckLink
<1>7. CASE (\E c \in Backends : Drop(c)) \/ ReapView \/ FindStale \/ StartCheck
           \/ UNCHANGED vars
  BY <1>1, <1>7 DEF Drop, ReapView, FindStale, StartCheck, vars
<1>8. QED
  BY <1>3, <1>4, <1>5, <1>6, <1>7 DEF Next

-----------------------------------------------------------------------------
(* A step that leaves a backend both linked and open either changes        *)
(* neither much, or links it to a browser the connection serves.           *)
LinkFits(b) ==
    \/ entry'[b] = NoEntry
    \/ link'[b] = NoBrowser
    \/ link'[b] \in entry'[b].for
    \/ link'[b] = link[b] /\ (Same(b) \/ Grown(b))

(* Every step keeps links to the users of the connection.                  *)
LEMMA LinkStep ==
    ASSUME TypeOK, [Next]_vars, NEW b \in Backends
    PROVE  LinkFits(b)
<1>. USE DEF person, closers
<1>1. ASSUME entry' = entry, link' = link PROVE LinkFits(b)
  BY <1>1 DEF LinkFits, Same
<1>2. ASSUME NEW B, Close(B), link' = link \/ Unlink(B) PROVE LinkFits(b)
  BY <1>2 DEF Close, Unlink, LinkFits, Same
<1>3. ASSUME NEW r \in Reqs, Connected(r) PROVE LinkFits(b)
  <2>1. CASE req[r].backend = b
    BY <1>3, <2>1 DEF Connected, NoteOpen, LinkFits, TypeOK
  <2>2. CASE req[r].backend # b
    BY <1>3, <2>2 DEF Connected, NoteOpen, LinkFits, Same, TypeOK
  <2>3. QED
    BY <2>1, <2>2
<1>4. ASSUME NEW r \in Reqs, Share(r) PROVE LinkFits(b)
  <2>1. CASE req[r].backend = b
    <3>1. entry[b] \in Connection
      BY <1>4, <2>1 DEF Share, TypeOK
    <3>2. entry'[b] = [entry[b] EXCEPT !.for = entry[b].for \union {req[r].browser}]
      BY <1>4, <2>1 DEF Share, TypeOK
    <3>3. entry'[b].for = entry[b].for \union {req[r].browser}
      BY <3>1, <3>2 DEF Connection
    <3>4. link'[b] = req[r].browser
      BY <1>4, <2>1 DEF Share, NoteOpen, TypeOK
    <3>5. QED
      BY <3>3, <3>4 DEF LinkFits
  <2>2. CASE req[r].backend # b
    BY <1>4, <2>2 DEF Share, NoteOpen, LinkFits, Same, TypeOK
  <2>3. QED
    BY <2>1, <2>2
<1>5. ASSUME NEW r \in Reqs, Proceed(r) PROVE LinkFits(b)
  BY <1>1, <1>2, <1>3, <1>4, <1>5 DEF Proceed, Reuse, RetireRenamed, EvictDead, Queue,
     Connect, ConnectFailed, Retire
<1>6. CASE \E r \in Reqs, c \in Backends, d \in Opener : Arrive(r, c, d)
  BY <1>1, <1>6 DEF Arrive
<1>7. CASE Person
  BY <1>1, <1>7 DEF Person, SignIn, Lapse, Logout, EndSessions, SetApproved, Rename
<1>8. ASSUME NEW c \in Backends, NEW d \in Browsers, CheckLink(c, d) PROVE LinkFits(b)
  BY <1>1, <1>8 DEF CheckLink, Unlink, LinkFits, Same
<1>9. CASE Closers
  BY <1>1, <1>2, <1>8, <1>9 DEF Closers, CloseLinks, CloseSome, RetireRenaming,
     RetireStale, CloseLapsed, Retire
<1>10. CASE \E c \in Backends : Drop(c)
  <2>1. link' = link
    BY <1>10 DEF Drop
  <2>2. ~Filled(b)
    BY <1>10 DEF Drop, Filled, Opening
  <2>3. QED
    BY <2>1, <2>2, EntryStep DEF LinkFits, Closed
<1>11. CASE ReapView \/ FindStale \/ StartCheck \/ UNCHANGED vars
  BY <1>1, <1>2, <1>11 DEF ReapView, FindStale, StartCheck, vars
<1>12. QED
  BY <1>5, <1>6, <1>7, <1>9, <1>10, <1>11 DEF Next

-----------------------------------------------------------------------------
(* The inductive invariant: types, locks and links.                        *)
THEOREM RegistryInvariant == Spec => []IndInv
<1>1. Init => IndInv
  <2>. SUFFICES ASSUME Init PROVE IndInv
    OBVIOUS
  <2>1. FreeReq \in Request /\ FreeReq.at # "open"
    BY RegistryOK DEF FreeReq, Request, Places, Opener, Nick
  <2>2. TypeOK
    BY <2>1, RegistryOK DEF Init, TypeOK, Opener, Nick, Ending, FreeEnding
  <2>3. OneOpener /\ OpenUnregistered
    BY <2>1 DEF Init, OneOpener, OpenUnregistered, Opening
  <2>4. LinkNamesUser
    BY DEF Init, LinkNamesUser
  <2>5. QED
    BY <2>2, <2>3, <2>4 DEF IndInv
<1>2. IndInv /\ [Next]_vars => IndInv'
  <2>. SUFFICES ASSUME IndInv, [Next]_vars PROVE IndInv'
    OBVIOUS
  <2>1. TypeOK /\ TypeOK'
    BY TypeStep DEF IndInv
  <2>2. OneOpener'
    BY <2>1, LockStep DEF IndInv, OneOpener
  <2>3. OpenUnregistered'
    <3>. SUFFICES ASSUME NEW b \in Backends, NEW r \in Reqs, Opening(r, b)'
                  PROVE  entry'[b] = NoEntry
      BY DEF OpenUnregistered
    <3>1. CASE Opening(r, b)
      <4>1. entry[b] = NoEntry /\ ~Grown(b)
        BY <3>1 DEF IndInv, OpenUnregistered, Grown
      <4>2. ~Filled(b)
        BY <3>1 DEF IndInv, OneOpener, Filled
      <4>3. QED
        BY <2>1, <4>1, <4>2, EntryStep DEF Same, Closed
    <3>2. CASE entry[b] = NoEntry /\ entry' = entry
      BY <3>2
    <3>3. QED
      BY <2>1, <3>1, <3>2, LockStep
  <2>4. LinkNamesUser'
    <3>. SUFFICES ASSUME NEW b \in Backends, entry'[b] # NoEntry, link'[b] # NoBrowser
                  PROVE  link'[b] \in entry'[b].for
      BY DEF LinkNamesUser
    <3>1. CASE link'[b] = link[b] /\ (Same(b) \/ Grown(b))
      BY <3>1 DEF IndInv, LinkNamesUser, Same, Grown
    <3>2. QED
      BY <2>1, <3>1, LinkStep DEF LinkFits
  <2>5. QED
    BY <2>1, <2>2, <2>3, <2>4 DEF IndInv
<1>3. QED
  BY <1>1, <1>2, PTL DEF Spec

(* A link names a browser the open connection serves, for any number of    *)
(* browsers and of requests in flight.                                     *)
THEOREM LinksNameUsers == Spec => []LinkNamesUser
<1>1. IndInv => LinkNamesUser
  BY DEF IndInv
<1>2. QED
  BY <1>1, RegistryInvariant, PTL

(* No connection is ever overwritten in the registry and so left open and  *)
(* forgotten, for any number of requests in flight.                        *)
THEOREM NoneEverForgotten == Spec => NoneForgotten
<1>1. IndInv /\ [Next]_vars =>
        [\A b \in Backends :
           entry[b] # NoEntry /\ entry'[b] # NoEntry => entry'[b].by = entry[b].by]_vars
  <2>. SUFFICES ASSUME IndInv, [Next]_vars, NEW b \in Backends,
                       entry[b] # NoEntry, entry'[b] # NoEntry
                PROVE  entry'[b].by = entry[b].by
    OBVIOUS
  <2>1. ~Filled(b)
    BY DEF IndInv, OpenUnregistered, Filled
  <2>2. QED
    BY <2>1, EntryStep DEF IndInv, Same, Closed, Grown
<1>2. QED
  BY <1>1, RegistryInvariant, PTL DEF Spec, NoneForgotten

(* The state is well typed.                                                *)
THEOREM RegistryTyped == Spec => []TypeOK
<1>1. IndInv => TypeOK
  BY DEF IndInv
<1>2. QED
  BY <1>1, RegistryInvariant, PTL
=============================================================================
