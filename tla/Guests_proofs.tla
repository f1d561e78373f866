---------------------------- MODULE Guests_proofs ----------------------------
(***************************************************************************)
(* What the two guest components keep: GuestSeats, for any number of       *)
(* guests, requests and seats, and after it GuestData, for any number of   *)
(* guests and nicknames.                                                   *)
(***************************************************************************)
EXTENDS GuestSeats, GuestData, FiniteSetTheorems, TLAPS

(* A request in flight belongs to a guest.                                 *)
RequestsOK ==
    \A r \in Reqs : req[r].at # "free" => req[r].guest \in Guests

TypeInv == TypeOK /\ RequestsOK

(* The guest lock has one holder, and the guest it opens for has a claim   *)
(* on a seat even while a close or an expiry takes the reservation away.   *)
Holds(r) == req[r].at \in {"evict", "open"}
OneHolder == \A q, r \in Reqs : Holds(q) /\ Holds(r) => q = r
Claimed == Active \union {g \in Guests : \E r \in Reqs : Holds(r) /\ req[r].guest = g}
ClaimLimit == Cardinality(Claimed) <= MaxGuests

IndInv ==
    /\ TypeInv
    /\ OneHolder
    /\ ClaimLimit
    /\ AddressCap
    /\ GaugeExact
-----------------------------------------------------------------------------
(* The initial state is well typed.                                        *)
LEMMA TypeInit == Init => TypeInv
<1>. SUFFICES ASSUME Init PROVE TypeInv
  OBVIOUS
<1>1. req \in [Reqs -> Request] /\ RequestsOK
  BY DEF Init, Request, Places, Free, At, RequestsOK
<1>2. QED
  BY <1>1 DEF Init, TypeInv, TypeOK, Conns

(* The operators that several actions share are well typed.                *)
LEMMA CloseTyped ==
    ASSUME TypeOK, NEW g \in Guests, Close(g)
    PROVE  /\ conn' \in [Guests -> Conns]
           /\ idle' \in [Guests -> BOOLEAN]
           /\ reserved' \in [Guests -> Addresses \union {NoAddress, NotReserved}]
           /\ gauge' \in Nat
BY DEF TypeOK, Close, Conns

(* A request that moves on stays well typed.                               *)
LEMMA GoTyped ==
    ASSUME TypeInv, NEW r \in Reqs, NEW place \in Places, req[r].at # "free",
           Go(r, place)
    PROVE  req' \in [Reqs -> Request] /\ RequestsOK'
BY DEF TypeInv, TypeOK, RequestsOK, Go, Request

(* So do the requests when one is done.                                    *)
LEMMA DoneTyped ==
    ASSUME TypeInv, NEW r \in Reqs, Done(r)
    PROVE  req' \in [Reqs -> Request] /\ RequestsOK'
BY DEF TypeInv, TypeOK, RequestsOK, Done, Request, Free, At, Places

(* So do they when one starts.                                             *)
LEMMA StartTyped ==
    ASSUME TypeInv, NEW r \in Reqs, NEW place \in Places, NEW g \in Guests,
           NEW a \in Addresses \union {NoAddress},
           req' = [req EXCEPT ![r] = [at |-> place, guest |-> g, from |-> a]]
    PROVE  req' \in [Reqs -> Request] /\ RequestsOK'
BY DEF TypeInv, TypeOK, RequestsOK, Request

(* Every step keeps the state well typed.                                  *)
LEMMA TypeStep == TypeInv /\ [Next]_vars => TypeInv'
<1>. SUFFICES ASSUME TypeInv, [Next]_vars PROVE TypeInv'
  OBVIOUS
<1>. USE DEF TypeInv
<1>1. ASSUME NEW r \in Reqs, NEW g \in Guests, NEW a \in Addresses, BeginEnter(r, g, a)
      PROVE  TypeInv'
  BY <1>1, StartTyped DEF BeginEnter, TypeOK, Places
<1>2. ASSUME NEW r \in Reqs, NEW g \in Guests, NEW place \in {"act", "poll"},
             Arrive(r, g, place)
      PROVE  TypeInv'
  BY <1>2, StartTyped DEF Arrive, At, TypeOK, Places
<1>3. ASSUME NEW r \in Reqs, NEW g \in Guests, BeginLogout(r, g)
      PROVE  TypeInv'
  BY <1>3, StartTyped, CloseTyped DEF BeginLogout, At, TypeOK, Places
<1>4. ASSUME NEW r \in Reqs, Enter(r) PROVE TypeInv'
  <2>1. req[r].guest \in Guests /\ req[r].from \in Addresses \union {NoAddress}
    BY <1>4 DEF Enter, RequestsOK, TypeOK, Request
  <2>2. reserved' \in [Guests -> Addresses \union {NoAddress, NotReserved}]
    BY <1>4, <2>1 DEF Enter, Reserve, TypeOK
  <2>3. conn' \in [Guests -> Conns]
    BY <1>4, <2>1 DEF Enter, TypeOK, Conns
  <2>4. QED
    BY <1>4, <2>1, <2>2, <2>3, DoneTyped DEF Enter, TypeOK
<1>5. ASSUME NEW r \in Reqs, Reopen(r) PROVE TypeInv'
  <2>1. req[r].guest \in Guests
    BY <1>5 DEF Reopen, RequestsOK
  <2>2. reserved' \in [Guests -> Addresses \union {NoAddress, NotReserved}]
    BY <1>5, <2>1 DEF Reopen, Reserve, TypeOK
  <2>3. req' \in [Reqs -> Request] /\ RequestsOK'
    BY <1>5, GoTyped, DoneTyped DEF Reopen, Places
  <2>4. QED
    BY <1>5, <2>2, <2>3 DEF Reopen, TypeOK
<1>6. ASSUME NEW r \in Reqs, Use(r) PROVE TypeInv'
  BY <1>6, DoneTyped DEF Use, TypeOK
<1>7. ASSUME NEW r \in Reqs, Evict(r) PROVE TypeInv'
  <2>1. req[r].guest \in Guests
    BY <1>7 DEF Evict, RequestsOK
  <2>2. req' \in [Reqs -> Request] /\ RequestsOK'
    BY <1>7, GoTyped DEF Evict, Places
  <2>3. QED
    BY <1>7, <2>1, <2>2, CloseTyped DEF Evict, TypeOK
<1>8. ASSUME NEW r \in Reqs, Evicted(r) PROVE TypeInv'
  BY <1>8, GoTyped DEF Evicted, Places, TypeOK
<1>9. ASSUME NEW r \in Reqs, Opened(r) PROVE TypeInv'
  <2>1. req[r].guest \in Guests
    BY <1>9 DEF Opened, RequestsOK
  <2>2. QED
    <3>1. conn' \in [Guests -> Conns] /\ gauge' \in Nat
      BY <1>9, <2>1 DEF Opened, TypeOK, Conns
    <3>2. idle' \in [Guests -> BOOLEAN]
      BY <1>9, <2>1 DEF Opened, TypeOK
    <3>3. reserved' \in [Guests -> Addresses \union {NoAddress, NotReserved}]
      BY <1>9, <2>1 DEF Opened, TypeOK
    <3>4. QED
      BY <1>9, <3>1, <3>2, <3>3, DoneTyped DEF Opened, TypeOK
<1>10. ASSUME NEW r \in Reqs, OpenFailed(r) PROVE TypeInv'
  BY <1>10, DoneTyped DEF OpenFailed, TypeOK
<1>11. ASSUME NEW r \in Reqs, Logout(r) PROVE TypeInv'
  BY <1>11, DoneTyped DEF Logout, TypeOK
<1>12. ASSUME NEW g \in Guests,
              MailCode(g) \/ Drop(g) \/ Expire(g) \/ GoIdle(g) \/ Ban(g) \/ SweepFinds(g)
       PROVE  TypeInv'
  BY <1>12 DEF MailCode, Drop, Expire, GoIdle, Ban, SweepFinds, TypeOK, RequestsOK, Conns
<1>13. ASSUME NEW g \in Guests, ReapIdle(g) PROVE TypeInv'
  BY <1>13, CloseTyped DEF ReapIdle, TypeOK, RequestsOK
<1>14. CASE SweepCloses
  <2>1. sweep \in Guests
    BY <1>14 DEF SweepCloses, TypeOK
  <2>2. QED
    BY <1>14, <2>1, CloseTyped DEF SweepCloses, TypeOK, RequestsOK
<1>15. CASE UNCHANGED vars
  BY <1>15 DEF vars, TypeOK, RequestsOK
<1>16. QED
  BY <1>1, <1>2, <1>3, <1>4, <1>5, <1>6, <1>7, <1>8, <1>9, <1>10, <1>11, <1>12,
     <1>13, <1>14, <1>15 DEF Next, Begin, Proceed, Environment, Sweeper

-----------------------------------------------------------------------------
(* How a step moves seats: it only gives claims up, or it lets one guest   *)
(* in who already has a seat or finds one free, with the lock free.        *)
GivesUp ==
    /\ Claimed' \subseteq Claimed
    /\ OneHolder'
LetsIn ==
    /\ \E g \in Guests : /\ Claimed' \subseteq Active \union {g}
                         /\ g \in Active \/ Cardinality(Active) < MaxGuests
    /\ OneHolder'

(* A close takes the guest out of the open and the reserved ones.          *)
LEMMA CloseSets ==
    ASSUME TypeInv, NEW g \in Guests, Close(g)
    PROVE  /\ Open' = Open \ {g}
           /\ Reserved' = Reserved \ {g}
BY DEF TypeInv, TypeOK, Close, Open, Reserved

(* A reservation adds the guest to the reserved ones, if to anything.      *)
LEMMA ReserveSet ==
    ASSUME TypeInv, NEW g \in Guests, NEW a, Reserve(g, a)
    PROVE  Reserved' \subseteq Reserved \union {g}
BY DEF TypeInv, TypeOK, Reserve, Reserved

(* What every step may do to the guests who claim a seat.                  *)
LEMMA SeatStep ==
    ASSUME TypeInv, OneHolder, [Next]_vars
    PROVE  GivesUp \/ LetsIn
<1>. USE DEF TypeInv
<1>1. ASSUME NEW r \in Reqs, NEW g \in Guests,
             \/ \E a \in Addresses : BeginEnter(r, g, a)
             \/ \E place \in {"act", "poll"} : Arrive(r, g, place)
      PROVE  GivesUp
  <2>1. Active' = Active
    BY <1>1 DEF BeginEnter, Arrive, Active, Open, Reserved
  <2>2. \A q \in Reqs : Holds(q)' => Holds(q) /\ req'[q] = req[q]
    BY <1>1 DEF BeginEnter, Arrive, At, Holds, TypeOK
  <2>3. QED
    BY <2>1, <2>2 DEF GivesUp, Claimed, OneHolder
<1>2. ASSUME NEW r \in Reqs, NEW g \in Guests, BeginLogout(r, g) PROVE GivesUp
  <2>1. Active' \subseteq Active
    BY <1>2, CloseSets DEF BeginLogout, Active
  <2>2. \A q \in Reqs : Holds(q)' => Holds(q) /\ req'[q] = req[q]
    BY <1>2 DEF BeginLogout, At, Holds, TypeOK
  <2>3. QED
    BY <2>1, <2>2 DEF GivesUp, Claimed, OneHolder
<1>3. ASSUME NEW r \in Reqs, Enter(r) PROVE GivesUp \/ LetsIn
  <2>. DEFINE g == req[r].guest
  <2>1. g \in Guests
    BY <1>3 DEF Enter, RequestsOK
  <2>2. \A q \in Reqs : ~Holds(q)'
    BY <1>3 DEF Enter, GuestLockFree, Done, Free, At, Holds, TypeOK
  <2>3. Open' = Open
    BY <1>3 DEF Enter, Open, TypeOK
  <2>4. CASE SlotFree(g, req[r].from) /\ code[g]
    <3>1. Reserved' \subseteq Reserved \union {g}
      BY <1>3, <2>1, <2>4, ReserveSet DEF Enter
    <3>2. g \in Active \/ Cardinality(Active) < MaxGuests
      BY <2>4 DEF SlotFree
    <3>3. QED
      BY <2>1, <2>2, <2>3, <3>1, <3>2 DEF LetsIn, Claimed, Active, OneHolder
  <2>5. CASE ~(SlotFree(g, req[r].from) /\ code[g])
    <3>1. Reserved' = Reserved
      BY <1>3, <2>5 DEF Enter, Reserved
    <3>2. QED
      BY <2>2, <2>3, <3>1 DEF GivesUp, Claimed, Active, OneHolder
  <2>6. QED
    BY <2>4, <2>5
<1>4. ASSUME NEW r \in Reqs, Reopen(r) PROVE GivesUp \/ LetsIn
  <2>. DEFINE g == req[r].guest
  <2>1. g \in Guests
    BY <1>4 DEF Reopen, RequestsOK
  <2>2. Open' = Open
    BY <1>4 DEF Reopen, Open
  <2>3. \A q \in Reqs : ~Holds(q)
    BY <1>4 DEF Reopen, GuestLockFree, Holds
  <2>4. CASE req[r].at = "act" /\ SlotFree(g, NoAddress)
    <3>1. Reserved' \subseteq Reserved \union {g}
      BY <1>4, <2>1, <2>4, ReserveSet DEF Reopen
    <3>2. g \in Active \/ Cardinality(Active) < MaxGuests
      BY <2>4 DEF SlotFree
    <3>3. \A q \in Reqs : Holds(q)' => q = r /\ req'[q].guest = g
      BY <1>4, <2>3, <2>4 DEF Reopen, Go, Holds, TypeOK, Request
    <3>4. QED
      BY <2>1, <2>2, <3>1, <3>2, <3>3 DEF LetsIn, Claimed, Active, OneHolder
  <2>5. CASE ~(req[r].at = "act" /\ SlotFree(g, NoAddress))
    <3>1. Reserved' = Reserved
      BY <1>4, <2>5 DEF Reopen, Reserved
    <3>2. \A q \in Reqs : ~Holds(q)'
      BY <1>4, <2>3, <2>5 DEF Reopen, Done, Free, At, Holds, TypeOK
    <3>3. QED
      BY <2>2, <3>1, <3>2 DEF GivesUp, Claimed, Active, OneHolder
  <2>6. QED
    BY <2>4, <2>5
<1>5. ASSUME NEW r \in Reqs, Use(r) PROVE GivesUp
  <2>1. Active' = Active
    BY <1>5 DEF Use, Active, Open, Reserved
  <2>2. \A q \in Reqs : ~Holds(q)'
    BY <1>5 DEF Use, GuestLockFree, Done, Free, At, Holds, TypeOK
  <2>3. QED
    BY <2>1, <2>2 DEF GivesUp, Claimed, OneHolder
<1>6. ASSUME NEW r \in Reqs, Evict(r) PROVE GivesUp
  <2>. DEFINE g == req[r].guest
  <2>1. g \in Guests /\ g \in Active
    BY <1>6 DEF Evict, RequestsOK, Active, Open
  <2>2. Active' \subseteq Active
    BY <1>6, <2>1, CloseSets DEF Evict, Active
  <2>3. \A q \in Reqs : Holds(q)' => q = r /\ req'[q].guest = g
    BY <1>6 DEF Evict, GuestLockFree, Go, Holds, TypeOK, Request
  <2>4. QED
    BY <2>1, <2>2, <2>3 DEF GivesUp, Claimed, OneHolder
<1>7. ASSUME NEW r \in Reqs, Evicted(r) PROVE GivesUp
  <2>1. Active' = Active
    BY <1>7 DEF Evicted, Active, Open, Reserved
  <2>2. \A q \in Reqs : Holds(q)' => Holds(q) /\ req'[q].guest = req[q].guest
    BY <1>7 DEF Evicted, Go, Holds, TypeOK, Request
  <2>3. QED
    BY <2>1, <2>2 DEF GivesUp, Claimed, OneHolder
<1>8. ASSUME NEW r \in Reqs, Opened(r) \/ OpenFailed(r) PROVE GivesUp
  <2>. DEFINE g == req[r].guest
  <2>1. g \in Guests /\ g \in Claimed
    BY <1>8 DEF Opened, OpenFailed, RequestsOK, Claimed, Holds
  <2>2. Active' \subseteq Active \union {g}
    BY <1>8, <2>1 DEF Opened, OpenFailed, Active, Open, Reserved, TypeOK
  <2>3. \A q \in Reqs : Holds(q)' => Holds(q) /\ req'[q] = req[q]
    BY <1>8 DEF Opened, OpenFailed, Done, Free, At, Holds, TypeOK
  <2>4. QED
    BY <2>1, <2>2, <2>3 DEF GivesUp, Claimed, OneHolder
<1>9. ASSUME NEW r \in Reqs, Logout(r) PROVE GivesUp
  <2>1. Active' \subseteq Active
    BY <1>9 DEF Logout, Active, Open, Reserved, TypeOK, RequestsOK
  <2>2. \A q \in Reqs : Holds(q)' => Holds(q) /\ req'[q] = req[q]
    BY <1>9 DEF Logout, Done, Free, At, Holds, TypeOK
  <2>3. QED
    BY <2>1, <2>2 DEF GivesUp, Claimed, OneHolder
<1>10. ASSUME NEW g \in Guests,
              MailCode(g) \/ Drop(g) \/ Expire(g) \/ GoIdle(g) \/ Ban(g) \/ SweepFinds(g)
       PROVE  GivesUp
  <2>1. Active' \subseteq Active
    BY <1>10 DEF MailCode, Drop, Expire, GoIdle, Ban, SweepFinds, Active, Open,
                 Reserved, TypeOK
  <2>2. req' = req
    BY <1>10 DEF MailCode, Drop, Expire, GoIdle, Ban, SweepFinds
  <2>3. QED
    BY <2>1, <2>2 DEF GivesUp, Claimed, OneHolder, Holds
<1>11. ASSUME NEW g \in Guests, ReapIdle(g) PROVE GivesUp
  <2>1. Active' \subseteq Active /\ req' = req
    BY <1>11, CloseSets DEF ReapIdle, Active
  <2>2. QED
    BY <2>1 DEF GivesUp, Claimed, OneHolder, Holds
<1>12. CASE SweepCloses
  <2>1. Active' \subseteq Active /\ req' = req
    BY <1>12, CloseSets DEF SweepCloses, Active, TypeOK
  <2>2. QED
    BY <2>1 DEF GivesUp, Claimed, OneHolder, Holds
<1>13. CASE UNCHANGED vars
  BY <1>13 DEF vars, GivesUp, Claimed, Active, Open, Reserved, OneHolder, Holds
<1>14. QED
  BY <1>1, <1>2, <1>3, <1>4, <1>5, <1>6, <1>7, <1>8, <1>9, <1>10, <1>11, <1>12,
     <1>13 DEF Next, Begin, Proceed, Environment, Sweeper

-----------------------------------------------------------------------------
(* The sets whose sizes matter are finite.                                 *)
LEMMA FiniteSeats == IsFiniteSet(Claimed) /\ IsFiniteSet(Active) /\ IsFiniteSet(Open)
<1>1. Claimed \subseteq Guests /\ Active \subseteq Guests /\ Open \subseteq Guests
  BY DEF Claimed, Active, Open, Reserved
<1>2. QED
  BY <1>1, SeatsOK, FS_Subset

(* Nobody claims a seat beyond the limit.                                  *)
LEMMA ClaimStep ==
    ASSUME ClaimLimit, GivesUp \/ LetsIn
    PROVE  ClaimLimit'
<1>1. Cardinality(Active) \in Nat /\ Cardinality(Claimed) \in Nat
  BY FiniteSeats, FS_CardinalityType
<1>2. IsFiniteSet(Claimed') /\ Cardinality(Claimed') \in Nat
  <2>1. Claimed' \subseteq Guests
    BY DEF Claimed, Active, Open, Reserved
  <2>2. QED
    BY <2>1, SeatsOK, FS_Subset, FS_CardinalityType
<1>3. CASE GivesUp
  <2>1. Cardinality(Claimed') <= Cardinality(Claimed)
    BY <1>3, FiniteSeats, FS_Subset DEF GivesUp
  <2>2. QED
    BY <2>1, <1>1, <1>2, SeatsOK DEF ClaimLimit
<1>4. CASE LetsIn
  <2>1. PICK g \in Guests : /\ Claimed' \subseteq Active \union {g}
                            /\ g \in Active \/ Cardinality(Active) < MaxGuests
    BY <1>4 DEF LetsIn
  <2>2. Cardinality(Active) <= MaxGuests
    <3>1. Cardinality(Active) <= Cardinality(Claimed)
      BY FiniteSeats, FS_Subset DEF Claimed
    <3>2. QED
      BY <3>1, <1>1, SeatsOK DEF ClaimLimit
  <2>3. /\ IsFiniteSet(Active \union {g})
        /\ Cardinality(Active \union {g}) \in Nat
        /\ Cardinality(Active \union {g}) <= MaxGuests
    BY <1>1, <2>1, <2>2, FiniteSeats, FS_AddElement, SeatsOK
  <2>4. Cardinality(Claimed') <= Cardinality(Active \union {g})
    BY <2>1, <2>3, FS_Subset
  <2>5. QED
    BY <1>2, <2>3, <2>4, SeatsOK DEF ClaimLimit
<1>5. QED
  BY <1>3, <1>4

(* The pending seats of an address grow only under its cap.                *)
LEMMA AddressStep ==
    ASSUME TypeInv, AddressCap, [Next]_vars
    PROVE  AddressCap'
<1>. USE DEF TypeInv
<1>. SUFFICES ASSUME NEW a \in Addresses PROVE Cardinality(Pending(a)') <= MaxPending
  BY DEF AddressCap
<1>1. a # NoAddress /\ a # NotReserved
  BY SeatsOK
<1>2. /\ IsFiniteSet(Pending(a)) /\ Cardinality(Pending(a)) \in Nat
      /\ IsFiniteSet(Pending(a)') /\ Cardinality(Pending(a)') \in Nat
      /\ Cardinality(Pending(a)) <= MaxPending
  <2>1. Pending(a) \subseteq Guests /\ Pending(a)' \subseteq Guests
    BY DEF Pending
  <2>2. QED
    BY <2>1, SeatsOK, FS_Subset, FS_CardinalityType DEF AddressCap
<1>3. ASSUME Pending(a)' \subseteq Pending(a)
      PROVE  Cardinality(Pending(a)') <= MaxPending
  <2>1. Cardinality(Pending(a)') <= Cardinality(Pending(a))
    BY <1>2, <1>3, FS_Subset
  <2>2. QED
    BY <2>1, <1>2, SeatsOK
<1>4. ASSUME NEW g \in Guests, Close(g) PROVE Pending(a)' \subseteq Pending(a)
  BY <1>1, <1>4 DEF Close, Pending, TypeOK
<1>5. ASSUME reserved' = reserved PROVE Pending(a)' \subseteq Pending(a)
  BY <1>5 DEF Pending
<1>6. ASSUME NEW g \in Guests, reserved' = [reserved EXCEPT ![g] = NotReserved]
      PROVE  Pending(a)' \subseteq Pending(a)
  BY <1>1, <1>6 DEF Pending, TypeOK
<1>7. ASSUME NEW r \in Reqs, Enter(r)
      PROVE  Cardinality(Pending(a)') <= MaxPending
  <2>. DEFINE g == req[r].guest
              from == req[r].from
  <2>1. g \in Guests
    BY <1>7 DEF Enter, RequestsOK
  <2>2. CASE /\ SlotFree(g, from) /\ code[g] /\ g \notin Active /\ from = a
    <3>1. Pending(a)' \subseteq Pending(a) \union {g} /\ g \notin Pending(a)
      BY <1>1, <1>7, <2>1, <2>2 DEF Enter, Reserve, Pending, Active, Reserved, TypeOK
    <3>2. Cardinality(Pending(a)) < MaxPending
      BY <1>1, <2>2 DEF SlotFree
    <3>3. /\ IsFiniteSet(Pending(a) \union {g})
          /\ Cardinality(Pending(a) \union {g}) = Cardinality(Pending(a)) + 1
      BY <1>2, <3>1, FS_AddElement
    <3>4. Cardinality(Pending(a)') <= Cardinality(Pending(a) \union {g})
      BY <3>1, <3>3, FS_Subset
    <3>5. QED
      BY <1>2, <3>2, <3>3, <3>4, SeatsOK
  <2>3. CASE ~(SlotFree(g, from) /\ code[g]) \/ g \in Active \/ from # a
    <3>1. Pending(a)' \subseteq Pending(a)
      BY <1>1, <1>7, <2>1, <2>3 DEF Enter, Reserve, Pending, Active, Reserved, TypeOK
    <3>2. QED
      BY <1>3, <3>1
  <2>4. QED
    BY <2>2, <2>3
<1>8. ASSUME NEW r \in Reqs, Reopen(r) PROVE Pending(a)' \subseteq Pending(a)
  BY <1>1, <1>8 DEF Reopen, Reserve, Pending, TypeOK
<1>9. ASSUME NEW r \in Reqs, Use(r) \/ Evicted(r) PROVE Pending(a)' \subseteq Pending(a)
  BY <1>5, <1>9 DEF Use, Evicted
<1>10. ASSUME NEW r \in Reqs, Evict(r) PROVE Pending(a)' \subseteq Pending(a)
  BY <1>4, <1>10 DEF Evict, RequestsOK
<1>11. ASSUME NEW r \in Reqs, Opened(r) \/ OpenFailed(r) \/ Logout(r)
       PROVE  Pending(a)' \subseteq Pending(a)
  BY <1>5, <1>6, <1>11 DEF Opened, OpenFailed, Logout, RequestsOK
<1>12. ASSUME NEW r \in Reqs, Begin(r) PROVE Pending(a)' \subseteq Pending(a)
  BY <1>4, <1>5, <1>12 DEF Begin, BeginEnter, Arrive, BeginLogout
<1>13. CASE Environment
  BY <1>3, <1>5, <1>6, <1>13 DEF Environment, MailCode, Drop, Expire, GoIdle, Ban
<1>14. CASE Sweeper
  BY <1>3, <1>4, <1>5, <1>14 DEF Sweeper, ReapIdle, SweepFinds, SweepCloses, TypeOK
<1>15. CASE UNCHANGED vars
  BY <1>3, <1>5, <1>15 DEF vars
<1>16. QED
  BY <1>3, <1>7, <1>8, <1>9, <1>10, <1>11, <1>12, <1>13, <1>14, <1>15
     DEF Next, Proceed

-----------------------------------------------------------------------------
(* The gauge follows the open sessions.                                    *)
LEMMA GaugeClose ==
    ASSUME TypeInv, GaugeExact, NEW g \in Guests, Close(g)
    PROVE  GaugeExact'
<1>1. Open' = Open \ {g}
  BY CloseSets
<1>2. Cardinality(Open \ {g}) = IF g \in Open THEN Cardinality(Open) - 1 ELSE Cardinality(Open)
  BY FiniteSeats, FS_RemoveElement
<1>3. Cardinality(Open) \in Nat /\ Cardinality(Open \ {g}) \in Nat
  BY FiniteSeats, FS_CardinalityType, FS_RemoveElement
<1>4. conn[g] # "none" <=> g \in Open
  BY DEF Open
<1>5. QED
  BY <1>1, <1>2, <1>3, <1>4 DEF GaugeExact, Close

(* Every step keeps the gauge exact.                                       *)
LEMMA GaugeStep ==
    ASSUME TypeInv, GaugeExact, [Next]_vars
    PROVE  GaugeExact'
<1>. USE DEF TypeInv
<1>1. ASSUME Open' = Open, gauge' = gauge PROVE GaugeExact'
  BY <1>1 DEF GaugeExact
<1>2. ASSUME NEW r \in Reqs, Begin(r) PROVE GaugeExact'
  BY <1>1, <1>2, GaugeClose DEF Begin, BeginEnter, Arrive, BeginLogout, Open
<1>3. ASSUME NEW r \in Reqs, Enter(r) PROVE GaugeExact'
  BY <1>1, <1>3 DEF Enter, Open, TypeOK
<1>4. ASSUME NEW r \in Reqs,
             Reopen(r) \/ Use(r) \/ Evicted(r) \/ OpenFailed(r) \/ Logout(r)
      PROVE  GaugeExact'
  BY <1>1, <1>4 DEF Reopen, Use, Evicted, OpenFailed, Logout, Open
<1>5. ASSUME NEW r \in Reqs, Evict(r) PROVE GaugeExact'
  BY <1>5, GaugeClose DEF Evict, RequestsOK
<1>6. ASSUME NEW r \in Reqs, Opened(r) PROVE GaugeExact'
  <2>. DEFINE g == req[r].guest
  <2>1. g \in Guests
    BY <1>6 DEF Opened, RequestsOK
  <2>2. CASE conn[g] = "none"
    <3>1. Open' = Open \union {g} /\ g \notin Open /\ gauge' = gauge + 1
      BY <1>6, <2>1, <2>2 DEF Opened, Open, TypeOK
    <3>2. Cardinality(Open \union {g}) = Cardinality(Open) + 1
      BY <3>1, FiniteSeats, FS_AddElement
    <3>3. QED
      BY <3>1, <3>2 DEF GaugeExact
  <2>3. CASE conn[g] # "none"
    BY <1>1, <1>6, <2>3 DEF Opened, Open
  <2>4. QED
    BY <2>2, <2>3
<1>7. CASE Environment
  BY <1>1, <1>7 DEF Environment, MailCode, Drop, Expire, GoIdle, Ban, Open, TypeOK
<1>8. CASE Sweeper
  BY <1>1, <1>8, GaugeClose DEF Sweeper, ReapIdle, SweepFinds, SweepCloses, Open, TypeOK
<1>9. CASE UNCHANGED vars
  BY <1>1, <1>9 DEF vars, Open
<1>10. QED
  BY <1>2, <1>3, <1>4, <1>5, <1>6, <1>7, <1>8, <1>9 DEF Next, Proceed

-----------------------------------------------------------------------------
(* The invariant behind the seat limit holds in every reachable state of   *)
(* GuestSeats.                                                             *)
THEOREM SeatsInvariant == Spec => []IndInv
<1>1. Init => IndInv
  <2>. SUFFICES ASSUME Init PROVE IndInv
    OBVIOUS
  <2>1. TypeInv
    BY TypeInit
  <2>2. Open = {} /\ Reserved = {}
    BY DEF Init, Open, Reserved
  <2>3. \A r \in Reqs : ~Holds(r)
    BY DEF Init, Free, At, Holds
  <2>4. Claimed = {} /\ OneHolder
    BY <2>2, <2>3 DEF Claimed, Active, OneHolder
  <2>5. \A a \in Addresses : Pending(a) = {}
    BY SeatsOK DEF Init, Pending
  <2>6. ClaimLimit
    BY <2>4, FS_EmptySet, SeatsOK DEF ClaimLimit
  <2>7. AddressCap
    BY <2>5, FS_EmptySet, SeatsOK DEF AddressCap
  <2>8. GaugeExact
    BY <2>2, FS_EmptySet DEF Init, GaugeExact
  <2>9. QED
    BY <2>1, <2>4, <2>6, <2>7, <2>8 DEF IndInv
<1>2. IndInv /\ [Next]_vars => IndInv'
  <2>. SUFFICES ASSUME IndInv, [Next]_vars PROVE IndInv'
    OBVIOUS
  <2>1. TypeInv'
    BY TypeStep DEF IndInv
  <2>2. GivesUp \/ LetsIn
    BY SeatStep DEF IndInv
  <2>3. OneHolder'
    BY <2>2 DEF GivesUp, LetsIn
  <2>4. ClaimLimit' /\ AddressCap' /\ GaugeExact'
    BY <2>2, ClaimStep, AddressStep, GaugeStep DEF IndInv
  <2>5. QED
    BY <2>1, <2>3, <2>4 DEF IndInv
<1>3. QED
  BY <1>1, <1>2, PTL DEF Spec

(* The state is well typed.                                                *)
THEOREM SeatsTyped == Spec => []TypeOK
<1>1. IndInv => TypeOK
  BY DEF IndInv, TypeInv
<1>2. QED
  BY <1>1, SeatsInvariant, PTL

(* Never more guests than seats, for any number of guests and of requests  *)
(* in flight (c24).                                                        *)
LEMMA ClaimsCover == IndInv => SeatLimit
<1>1. Cardinality(Active) <= Cardinality(Claimed)
  BY FiniteSeats, FS_Subset DEF Claimed
<1>2. Cardinality(Active) \in Nat /\ Cardinality(Claimed) \in Nat
  BY FiniteSeats, FS_CardinalityType
<1>3. QED
  BY <1>1, <1>2, SeatsOK DEF IndInv, ClaimLimit, SeatLimit

(* Never more than MaxGuests guests are in or about to come in (c24).      *)
THEOREM SeatsLimited == Spec => []SeatLimit
BY ClaimsCover, SeatsInvariant, PTL

(* Never more pending seats of one address than its cap (t12).             *)
THEOREM AddressesCapped == Spec => []AddressCap
<1>1. IndInv => AddressCap
  BY DEF IndInv
<1>2. QED
  BY <1>1, SeatsInvariant, PTL

(* The gauge is exact in every reachable state.                            *)
THEOREM GaugeAlwaysExact == Spec => []GaugeExact
<1>1. IndInv => GaugeExact
  BY DEF IndInv
<1>2. QED
  BY <1>1, SeatsInvariant, PTL

-----------------------------------------------------------------------------
(* The seats implement the abstract guest limit: every step takes one free *)
(* seat, gives one up, or leaves the seats alone.                          *)
OneSeatChanges(g) == Active' \subseteq Active \union {g} /\ Active \ {g} \subseteq Active'

(* A step takes or frees the seat of one guest only.                       *)
LEMMA OneAtATime ==
    ASSUME TypeInv, [Next]_vars
    PROVE  Active' = Active \/ \E g \in Guests : OneSeatChanges(g)
<1>. USE DEF TypeInv
<1>1. ASSUME NEW g \in Guests, Close(g) PROVE OneSeatChanges(g)
  BY <1>1, CloseSets DEF OneSeatChanges, Active
<1>2. ASSUME NEW r \in Reqs, NEW g \in Guests,
             \/ \E a \in Addresses : BeginEnter(r, g, a)
             \/ \E place \in {"act", "poll"} : Arrive(r, g, place)
      PROVE  Active' = Active
  BY <1>2 DEF BeginEnter, Arrive, Active, Open, Reserved
<1>3. ASSUME NEW r \in Reqs, Enter(r) \/ Reopen(r) PROVE OneSeatChanges(req[r].guest)
  <2>1. Open' = Open /\ req[r].guest \in Guests
    BY <1>3 DEF Enter, Reopen, Open, TypeOK, RequestsOK
  <2>2. \A g \in Guests : g # req[r].guest => reserved'[g] = reserved[g]
    BY <1>3, <2>1 DEF Enter, Reopen, Reserve, TypeOK
  <2>3. QED
    BY <2>1, <2>2 DEF OneSeatChanges, Active, Reserved
<1>4. ASSUME NEW r \in Reqs, Use(r) \/ Evicted(r) PROVE Active' = Active
  BY <1>4 DEF Use, Evicted, Active, Open, Reserved
<1>5. ASSUME NEW r \in Reqs, Opened(r) \/ OpenFailed(r) \/ Logout(r)
      PROVE  OneSeatChanges(req[r].guest) /\ req[r].guest \in Guests
  <2>1. req[r].guest \in Guests
    BY <1>5 DEF Opened, OpenFailed, Logout, RequestsOK
  <2>2. \A g \in Guests : g # req[r].guest => reserved'[g] = reserved[g] /\ conn'[g] = conn[g]
    BY <1>5, <2>1 DEF Opened, OpenFailed, Logout, TypeOK
  <2>3. QED
    BY <2>1, <2>2 DEF OneSeatChanges, Active, Open, Reserved
<1>6. ASSUME NEW g \in Guests,
             MailCode(g) \/ Drop(g) \/ Expire(g) \/ GoIdle(g) \/ Ban(g) \/ SweepFinds(g)
      PROVE  OneSeatChanges(g)
  BY <1>6 DEF MailCode, Drop, Expire, GoIdle, Ban, SweepFinds, OneSeatChanges,
              Active, Open, Reserved, TypeOK
<1>7. CASE UNCHANGED vars
  BY <1>7 DEF vars, Active, Open, Reserved
<1>8. ASSUME NEW r \in Reqs, Enter(r) \/ Reopen(r) \/ Evict(r)
      PROVE  req[r].guest \in Guests
  BY <1>8 DEF Enter, Reopen, Evict, RequestsOK
<1>9. CASE \E r \in Reqs : Begin(r)
  BY <1>1, <1>2, <1>9 DEF Begin, BeginLogout
<1>10. CASE \E r \in Reqs : Proceed(r)
  BY <1>1, <1>3, <1>4, <1>5, <1>8, <1>10 DEF Proceed, Evict
<1>11. CASE Environment
  BY <1>6, <1>11 DEF Environment
<1>12. CASE Sweeper
  BY <1>1, <1>6, <1>12 DEF Sweeper, ReapIdle, SweepCloses, TypeOK
<1>13. QED
  BY <1>7, <1>9, <1>10, <1>11, <1>12 DEF Next

(* So every step is one of the abstract guest limit, or changes no seat.   *)
LEMMA SeatRefines ==
    ASSUME IndInv, ClaimLimit', [Next]_vars
    PROVE  [Limit!Next]_Active
<1>. SUFFICES ASSUME Active' # Active PROVE Limit!Next
  OBVIOUS
<1>1. PICK g \in Guests : OneSeatChanges(g)
  BY OneAtATime DEF IndInv
<1>2. CASE g \in Active
  <2>1. Active' = Active \ {g}
    BY <1>1, <1>2 DEF OneSeatChanges
  <2>2. QED
    BY <1>2, <2>1 DEF Limit!Next, Limit!Free
<1>3. CASE g \notin Active
  <2>1. Active' = Active \union {g}
    BY <1>1, <1>3 DEF OneSeatChanges
  <2>2. Cardinality(Active) < MaxGuests
    <3>1. IsFiniteSet(Active') /\ IsFiniteSet(Claimed')
      <4>1. Claimed' \subseteq Guests /\ Active' \subseteq Guests
        BY DEF Claimed, Active, Open, Reserved
      <4>2. QED
        BY <4>1, SeatsOK, FS_Subset
    <3>2. Cardinality(Active') <= Cardinality(Claimed')
      BY <3>1, FS_Subset DEF Claimed
    <3>3. Cardinality(Active') = Cardinality(Active) + 1
      BY <1>3, <2>1, FiniteSeats, FS_AddElement
    <3>4. /\ Cardinality(Claimed') \in Nat
          /\ Cardinality(Active) \in Nat
      BY <3>1, FiniteSeats, FS_CardinalityType
    <3>5. QED
      BY <3>2, <3>3, <3>4, SeatsOK DEF ClaimLimit
  <2>3. QED
    BY <1>3, <2>1, <2>2 DEF Limit!Next, Limit!Take, Limit!Cardinality, Cardinality
<1>4. QED
  BY <1>2, <1>3

(* The seats implement the abstract guest limit of module Seats.           *)
THEOREM SeatsImplemented == Spec => ImplementsSeats
<1>1. Init => Limit!Init
  BY DEF Init, Limit!Init, Active, Open, Reserved
<1>2. IndInv /\ IndInv' /\ [Next]_vars => [Limit!Next]_Active
  BY SeatRefines DEF IndInv
<1>3. QED
  BY <1>1, <1>2, SeatsInvariant, PTL DEF Spec, ImplementsSeats, Limit!Spec
-----------------------------------------------------------------------------
(* The store of what is kept of a guest.                                   *)

(* The records a guest's places are kept in.                               *)
LEMMA Records ==
    /\ NoEntry \in Entries /\ NoVisit \in Visits /\ NoErase \in Erasures
    /\ \A e \in Entries : e.nick \in Nicks \cup {None}
    /\ \A v \in Visits : v.nick \in Nicks \cup {None}
    /\ \A e \in Erasures : e.kept \in SUBSET Nicks /\ e.guest \in Emails \cup {None}
    /\ Emails \subseteq Erasers /\ Retention \in Erasers
    /\ None \notin Emails /\ None \notin Nicks /\ Retention \notin Emails
BY GuestDataOK
   DEF Entries, Visits, Erasures, NoEntry, NoVisit, NoErase, EraserPlaces, Erasers

LEMMA TouchesTyped ==
    ASSUME DataTypeOK, NEW g \in Emails, NEW t \in {"guests", "inputs", "consents"},
           Touches(g, t)
    PROVE  recent' \in [Emails -> SUBSET {"guests", "inputs", "consents"}]
BY DEF DataTypeOK, Touches

LEMMA SpendsTyped ==
    ASSUME DataTypeOK, NEW g \in Emails, NEW p, Spends(g, p)
    PROVE  /\ tokens' \in [Emails -> SUBSET {"guest", "welcome", "delete"}]
           /\ known' \subseteq Emails
BY DEF DataTypeOK, Spends

LEMMA IssuesTyped ==
    ASSUME DataTypeOK, NEW g \in Emails,
           NEW p \in {"guest", "welcome", "delete"}, Issues(g, p)
    PROVE  tokens' \in [Emails -> SUBSET {"guest", "welcome", "delete"}]
BY DEF DataTypeOK, Issues

LEMMA CountsTyped ==
    ASSUME DataTypeOK, NEW what \in {"codes", "visits", "deletes"}, NEW max,
           Counts(what, max)
    PROVE  used' \in [{"codes", "visits", "deletes"} -> Nat]
BY DEF DataTypeOK, Counts

LEMMA RecordGuestTyped ==
    ASSUME DataTypeOK, NEW g \in Emails, NEW e \in Entries, e.nick # None,
           RecordGuest(g, e.nick)
    PROVE  /\ nicks' \in [Emails -> SUBSET Nicks]
           /\ nick' \in [Emails -> Nicks \cup {None}]
           /\ recent' \in [Emails -> SUBSET {"guests", "inputs", "consents"}]
<1>1. e.nick \in Nicks
  BY Records
<1>2. Touches(g, "guests")
  BY DEF RecordGuest
<1>3. QED
  BY <1>1, <1>2, TouchesTyped DEF RecordGuest, DataTypeOK

(* Whoever has a row has a nick, and so has who is about to get one.       *)
Named ==
    \A g \in Emails :
        /\ nicks[g] # {} => nick[g] # None
        /\ entry[g].at = "nick" \/ (entry[g].at = "pad" /\ entry[g].returns)
           => entry[g].nick # None

DataTyped == DataTypeOK /\ Named

LEMMA InitDataTyped == DataInit => DataTyped
<1>1. DataInit => DataTypeOK
  BY Records, GuestDataOK DEF DataInit, DataTypeOK
<1>2. DataInit => Named
  BY DEF DataInit, Named, NoEntry
<1>3. QED
  BY <1>1, <1>2 DEF DataTyped

LEMMA TypeEntering ==
    ASSUME DataTyped, NEW g \in Emails,
           IssueCode(g) \/ SendGuestCode(g) \/ TokensExpire(g) \/ PostCode(g)
           \/ Entering(g) \/ (\E n \in Nicks : PostNickname(g, n)),
           Shake
    PROVE  DataTyped'
<1>0. shaken' \subseteq Emails /\ DataTypeOK
  BY DEF Shake, DataTyped
<1>1. CASE IssueCode(g)
  <2>1. DataTypeOK'
    BY <1>0, <1>1, Records, CountsTyped, IssuesTyped
    DEF DataTypeOK, IssueCode, flags, config
  <2>2. QED
    BY <1>1, <2>1 DEF DataTyped, Named, IssueCode
<1>2. CASE SendGuestCode(g)
  <2>1. DataTypeOK'
    BY <1>0, <1>2, SpendsTyped DEF DataTypeOK, SendGuestCode, RevokeUnmailed, flags, config
  <2>2. QED
    BY <1>2, <2>1 DEF DataTyped, Named, SendGuestCode
<1>3. CASE TokensExpire(g)
  <2>1. DataTypeOK'
    BY <1>0, <1>3 DEF DataTypeOK, TokensExpire, flags, config
  <2>2. QED
    BY <1>3, <2>1 DEF DataTyped, Named, TokensExpire
<1>4. CASE PostCode(g)
  <2>0. [NoEntry EXCEPT !.at = "code"] \in Entries
    BY Records DEF Entries
  <2>1. DataTypeOK'
    BY <1>0, <1>4, <2>0 DEF DataTypeOK, PostCode, Moves, store, flags, config
  <2>2. Named'
    BY <1>0, <1>4 DEF DataTyped, DataTypeOK, Named, PostCode, Moves, NoEntry, store
  <2>3. QED
    BY <2>1, <2>2 DEF DataTyped
<1>5. CASE CodeVersions(g)
  <2>1. PICK e \in Entries :
            /\ Moves(g, e)
            /\ e.at = "pad" /\ e.returns => e.nick # None
            /\ e.at # "nick"
            /\ Spends(g, "guest") \/ UNCHANGED <<tokens, known>>
    <3>1. CASE Moves(g, NoEntry) /\ UNCHANGED <<tokens, known>>
      BY <3>1, Records DEF NoEntry
    <3>2. ASSUME NEW returns \in BOOLEAN, returns => nicks[g] # {},
                 Moves(g, [at |-> "pad", nick |-> nick[g], returns |-> returns]),
                 Spends(g, "guest")
          PROVE  \E e \in Entries :
                    /\ Moves(g, e)
                    /\ e.at = "pad" /\ e.returns => e.nick # None
                    /\ e.at # "nick" /\ Spends(g, "guest")
      <4> DEFINE e == [at |-> "pad", nick |-> nick[g], returns |-> returns]
      <4>1. e \in Entries
        BY <1>0, <3>2 DEF Entries, DataTypeOK
      <4>2. Moves(g, e)
        BY <3>2
      <4>3. returns => e.nick # None
        BY <3>2 DEF DataTyped, Named
      <4>4. QED
        BY <3>2, <4>1, <4>2, <4>3
    <3>3. QED
      BY <1>5, <3>1, <3>2, Zenon DEF CodeVersions, TurnAway
  <2>2. QED
    BY <1>0, <1>5, <2>1, SpendsTyped
    DEF DataTypeOK, DataTyped, Named, CodeVersions, Moves, flags, config
<1>6. CASE CodeEnters(g)
  <2>0. entry[g] \in Entries
    BY <1>0 DEF DataTypeOK
  <2>1. CASE entry[g].returns
    <3>1. RecordGuest(g, entry[g].nick) /\ UNCHANGED tokens
      BY <1>6, <2>1 DEF CodeEnters
    <3>2. entry[g].nick # None
      BY <1>6, <2>1 DEF CodeEnters, DataTyped, Named
    <3>3. DataTypeOK'
      BY <1>0, <1>6, <2>0, <3>1, <3>2, Records, RecordGuestTyped
      DEF DataTypeOK, CodeEnters, Moves, flags, config
    <3>4. Named'
      BY <1>0, <1>6, <3>1, <3>2
      DEF DataTypeOK, DataTyped, Named, CodeEnters, RecordGuest, Moves, NoEntry
    <3>5. QED
      BY <3>3, <3>4 DEF DataTyped
  <2>2. CASE ~entry[g].returns
    <3>1. Issues(g, "welcome") /\ UNCHANGED <<nicks, nick, recent>>
      BY <1>6, <2>2 DEF CodeEnters
    <3>2. DataTypeOK'
      BY <1>0, <1>6, <3>1, Records, IssuesTyped
      DEF DataTypeOK, CodeEnters, Moves, flags, config
    <3>3. Named'
      BY <1>0, <1>6, <3>1
      DEF DataTypeOK, DataTyped, Named, CodeEnters, Moves, NoEntry
    <3>4. QED
      BY <3>2, <3>3 DEF DataTyped
  <2>3. QED
    BY <2>1, <2>2
<1>7. CASE NicknameVersions(g)
  <2>0. entry[g] \in Entries /\ entry[g].nick # None
    BY <1>0, <1>7 DEF DataTypeOK, DataTyped, Named, NicknameVersions
  <2>1. CASE /\ Moves(g, NoEntry)
             /\ UNCHANGED <<nicks, nick, recent, tokens, known>>
    <3>1. DataTypeOK'
      BY <1>0, <1>7, <2>1, Records DEF DataTypeOK, NicknameVersions, Moves, flags, config
    <3>2. Named'
      BY <1>0, <2>1 DEF DataTypeOK, DataTyped, Named, Moves, NoEntry
    <3>3. QED
      BY <3>1, <3>2 DEF DataTyped
  <2>2. CASE /\ Spends(g, Purpose)
             /\ RecordGuest(g, entry[g].nick)
             /\ Moves(g, [NoEntry EXCEPT !.at = "consent"])
    <3>0. [NoEntry EXCEPT !.at = "consent"] \in Entries
      BY Records DEF Entries
    <3>1. DataTypeOK'
      BY <1>0, <1>7, <2>0, <2>2, <3>0, SpendsTyped, RecordGuestTyped
      DEF DataTypeOK, NicknameVersions, Moves, flags, config
    <3>2. Named'
      BY <1>0, <2>0, <2>2
      DEF DataTypeOK, DataTyped, Named, RecordGuest, Moves, NoEntry
    <3>3. QED
      BY <3>1, <3>2 DEF DataTyped
  <2>3. QED
    BY <1>7, <2>1, <2>2 DEF NicknameVersions, TurnAway
<1>8. CASE RecordConsent(g)
  <2>0. Touches(g, "consents") /\ Moves(g, NoEntry)
    BY <1>8 DEF RecordConsent
  <2>1. DataTypeOK'
    BY <1>0, <1>8, <2>0, Records, TouchesTyped
    DEF DataTypeOK, RecordConsent, Moves, flags, config
  <2>2. Named'
    BY <1>0, <1>8, <2>0
    DEF DataTypeOK, DataTyped, Named, RecordConsent, Moves, NoEntry
  <2>3. QED
    BY <2>1, <2>2 DEF DataTyped
<1>9. ASSUME NEW n \in Nicks, PostNickname(g, n) PROVE DataTyped'
  <2>0. [at |-> "nick", nick |-> n, returns |-> FALSE] \in Entries /\ n # None
    BY Records DEF Entries
  <2>1. DataTypeOK'
    BY <1>0, <1>9, <2>0 DEF DataTypeOK, PostNickname, Moves, store, flags, config
  <2>2. Named'
    BY <1>0, <1>9, <2>0 DEF DataTypeOK, DataTyped, Named, PostNickname, Moves, store
  <2>3. QED
    BY <2>1, <2>2 DEF DataTyped
<1>10. QED
  BY <1>1, <1>2, <1>3, <1>4, <1>5, <1>6, <1>7, <1>8, <1>9 DEF Entering

LEMMA VisitMoves ==
    /\ \A v \in Visits : /\ [v EXCEPT !.at = "open"] \in Visits
                         /\ [v EXCEPT !.at = "execute"] \in Visits
                         /\ [v EXCEPT !.at = "execute", !.flagged = TRUE] \in Visits
                         /\ [v EXCEPT !.at = "record", !.nick = None] \in Visits
                         /\ [v EXCEPT !.nick = None] \in Visits
    /\ \A n \in Nicks \cup {None}, at \in {"gate", "check"} :
          [at |-> at, nick |-> n, flagged |-> FALSE] \in Visits
<1>1. ASSUME NEW v \in Visits
      PROVE  /\ [v EXCEPT !.at = "open"] \in Visits
             /\ [v EXCEPT !.at = "execute"] \in Visits
             /\ [v EXCEPT !.at = "execute", !.flagged = TRUE] \in Visits
  BY DEF Visits
<1>2. ASSUME NEW v \in Visits
      PROVE  /\ [v EXCEPT !.at = "record", !.nick = None] \in Visits
             /\ [v EXCEPT !.nick = None] \in Visits
  BY DEF Visits
<1>3. ASSUME NEW n \in Nicks \cup {None}, NEW at \in {"gate", "check"}
      PROVE  [at |-> at, nick |-> n, flagged |-> FALSE] \in Visits
  BY DEF Visits
<1>4. QED
  BY <1>1, <1>2, <1>3

(* A session that closes under a line leaves it without a connection.      *)
LEMMA ClosesTyped ==
    ASSUME DataTypeOK, NEW g \in Emails, Closes(g)
    PROVE  /\ session' \in [Emails -> Nicks \cup {None}]
           /\ visit' \in [Emails -> Visits]
<1>1. [visit[g] EXCEPT !.nick = None] \in Visits
  BY VisitMoves DEF DataTypeOK
<1>2. QED
  BY <1>1 DEF DataTypeOK, Closes

(* What a page or a line of a guest leaves alone.                          *)
LEMMA VisitFrame ==
    ASSUME NEW g \in Emails, FindGuest(g) \/ Visiting(g) \/ Answer(g) \/ SignOff(g)
    PROVE  /\ UNCHANGED <<nicks, nick, consents, tokens, tmp, mailing, entry>>
           /\ UNCHANGED <<eraser, listed, known, spare>>
BY DEF FindGuest, Visiting, ConsentGate, OpenGuest, CheckLine, ExecuteLine,
   RecordLine, Answer,
   SignOff, store, flags, config

LEMMA TypeVisiting ==
    ASSUME DataTyped, NEW g \in Emails,
           FindGuest(g) \/ Visiting(g) \/ Answer(g) \/ SignOff(g), Shake
    PROVE  DataTyped'
<1>0. shaken' \subseteq Emails /\ DataTypeOK
  BY DEF Shake, DataTyped
<1>1. /\ UNCHANGED <<nicks, nick, consents, tokens, tmp, mailing, entry>>
      /\ UNCHANGED <<eraser, listed, known, spare>>
  BY VisitFrame
<1>2. Named'
  BY <1>1 DEF DataTyped, Named
<1>3. ASSUME NEW v \in Visits, Goes(g, v) PROVE visit' \in [Emails -> Visits]
  BY <1>0, <1>3 DEF DataTypeOK, Goes
<1>4. ASSUME RecordInput(g)
      PROVE  /\ inputs' \subseteq Emails
             /\ recent' \in [Emails -> SUBSET {"guests", "inputs", "consents"}]
  BY <1>0, <1>4, TouchesTyped DEF DataTypeOK, RecordInput
<1>5. /\ visit[g] \in Visits /\ NoVisit \in Visits
      /\ [visit[g] EXCEPT !.at = "open"] \in Visits
      /\ [visit[g] EXCEPT !.at = "record", !.nick = None] \in Visits
      /\ [visit[g] EXCEPT !.at = "execute"] \in Visits
      /\ [visit[g] EXCEPT !.at = "execute", !.flagged = TRUE] \in Visits
      /\ [at |-> "gate", nick |-> nick[g], flagged |-> FALSE] \in Visits
  <2>1. visit[g] \in Visits /\ nick[g] \in Nicks \cup {None}
    BY <1>0 DEF DataTypeOK
  <2>2. QED
    BY <2>1, Records, VisitMoves
<1>6. CASE FindGuest(g)
  BY <1>0, <1>1, <1>2, <1>3, <1>5, <1>6, CountsTyped
  DEF DataTyped, DataTypeOK, FindGuest, store, flags, config
<1>7. CASE ConsentGate(g)
  BY <1>0, <1>1, <1>2, <1>3, <1>5, <1>7
  DEF DataTyped, DataTypeOK, ConsentGate, store, flags, config
<1>8. CASE OpenGuest(g)
  <2>0. visit[g].nick \in Nicks \cup {None}
    BY <1>5, Records
  <2>1. session' \in [Emails -> Nicks \cup {None}] /\ rooms' \subseteq Emails
    BY <1>0, <1>8, <2>0 DEF DataTypeOK, OpenGuest
  <2>2. [at |-> "check", nick |-> session'[g], flagged |-> FALSE] \in Visits
    BY <2>1, VisitMoves
  <2>3. visit' \in [Emails -> Visits]
    BY <1>3, <1>5, <1>8, <2>2 DEF OpenGuest, GateLine
  <2>4. QED
    BY <1>0, <1>1, <1>2, <1>8, <2>1, <2>3
    DEF DataTyped, DataTypeOK, OpenGuest, flags, config
<1>9. CASE CheckLine(g)
  BY <1>0, <1>1, <1>2, <1>3, <1>4, <1>5, <1>9
  DEF DataTyped, DataTypeOK, CheckLine, flags, config
<1>10. CASE ExecuteLine(g)
  <2>1. heard' \subseteq Nicks
    BY <1>0, <1>5, <1>10, Records DEF DataTypeOK, ExecuteLine
  <2>2. QED
    BY <1>0, <1>1, <1>2, <1>3, <1>5, <1>10, <2>1
    DEF DataTyped, DataTypeOK, ExecuteLine, store, config
<1>14. CASE RecordLine(g)
  BY <1>0, <1>1, <1>2, <1>3, <1>4, <1>5, <1>14
  DEF DataTyped, DataTypeOK, RecordLine, flags, config
<1>11. CASE Answer(g)
  BY <1>0, <1>1, <1>2, <1>4, <1>11 DEF DataTyped, DataTypeOK, Answer, flags, config
<1>12. CASE SignOff(g)
  BY <1>0, <1>1, <1>2, <1>12, ClosesTyped
  DEF DataTyped, DataTypeOK, SignOff, store, flags, config
<1>13. QED
  BY <1>6, <1>7, <1>8, <1>9, <1>10, <1>11, <1>12, <1>14 DEF Visiting

LEMMA EraserMoves ==
    \A e \in Erasures :
        /\ [e EXCEPT !.at = "read"] \in Erasures
        /\ [e EXCEPT !.at = "rows"] \in Erasures
        /\ [e EXCEPT !.at = "replace", !.kept = {}] \in Erasures
<1>1. ASSUME NEW e \in Erasures
      PROVE  /\ [e EXCEPT !.at = "read"] \in Erasures
             /\ [e EXCEPT !.at = "rows"] \in Erasures
  BY DEF Erasures, EraserPlaces
<1>2. ASSUME NEW e \in Erasures
      PROVE  [e EXCEPT !.at = "replace", !.kept = {}] \in Erasures
  BY DEF Erasures, EraserPlaces
<1>3. QED
  BY <1>1, <1>2

(* The log is read: what is kept of it, or why it is not purged.           *)
LEMMA LogRead ==
    ASSUME DataTypeOK, NEW x \in Erasers, ReadLog(x)
    PROVE  \E e \in Erasures :
              /\ Erases(x, e) /\ e.guest = eraser[x].guest
              /\ \/ e.at = "write" /\ e.kept = flagLog \ nicks[e.guest]
                 \/ e.at = "rows" /\ \/ nicks[e.guest] = {}
                                      \/ ~flagLogSet \/ flagLog = {}
<1> DEFINE g == eraser[x].guest
<1>1. PICK step \in Purge(g) :
          Erases(x, [at |-> step, guest |-> g,
                     kept |-> IF step = "write" THEN flagLog \ Borne(g) ELSE {}])
  BY DEF ReadLog
<1> DEFINE kept == IF step = "write" THEN flagLog \ Borne(g) ELSE {}
           e == [at |-> step, guest |-> g, kept |-> kept]
<1>2. /\ step \in {"rows", "write"}
      /\ step = "rows" => nicks[g] = {} \/ ~flagLogSet \/ flagLog = {}
  BY DEF Purge, Borne
<1>3. /\ g \in Emails \cup {None} /\ kept \in SUBSET Nicks
      /\ step = "write" => kept = flagLog \ nicks[g]
  BY Records DEF DataTypeOK, Borne
<1>4. e \in Erasures
  BY <1>2, <1>3 DEF Erasures, EraserPlaces
<1>5. e.at = step /\ e.guest = g /\ e.kept = kept
  OBVIOUS
<1>6. Erases(x, e)
  BY <1>1
<1> HIDE DEF kept, e
<1>7. QED
  BY <1>2, <1>3, <1>4, <1>5, <1>6


(* What an erasure leaves alone but for the rows it deletes.               *)
LEMMA EraseFrame ==
    ASSUME NEW x, ReadLog(x) \/ WriteTmp(x) \/ ReplaceLog(x)
    PROVE  UNCHANGED <<config, store, mailing, session, entry, visit, used, known>>
BY DEF ReadLog, WriteTmp, ReplaceLog, flags, config

LEMMA TypeErasing ==
    ASSUME DataTyped, NEW x \in Erasers, Erasing(x), Shake
    PROVE  DataTyped'
<1>0. shaken' \subseteq Emails /\ DataTypeOK /\ eraser[x] \in Erasures
  BY DEF Shake, DataTyped, DataTypeOK
<1>1. ASSUME NEW e \in Erasures, Erases(x, e) PROVE eraser' \in [Erasers -> Erasures]
  BY <1>0, <1>1 DEF DataTypeOK, Erases
<1>2. /\ Forgets(x) => spare' \subseteq Emails
      /\ Ended(x) \in [Emails -> SUBSET Nicks]
  BY <1>0 DEF DataTypeOK, Forgets, Ended
<1>3. CASE ReadLog(x)
  <2>1. eraser' \in [Erasers -> Erasures]
    BY <1>0, <1>1, <1>3, LogRead
  <2>2. QED
    BY <1>0, <1>3, <2>1 DEF ReadLog, DataTyped, DataTypeOK, Named, store, flags, config
<1>4. CASE WriteTmp(x)
  <2>1. eraser' \in [Erasers -> Erasures] /\ eraser[x].kept \in SUBSET Nicks
    BY <1>0, <1>1, <1>4, EraserMoves, Records DEF WriteTmp
  <2>2. QED
    BY <1>0, <1>4, <2>1 DEF WriteTmp, DataTyped, DataTypeOK, Named, store, config
<1>5. CASE ReplaceLog(x)
  <2>1. eraser' \in [Erasers -> Erasures]
    BY <1>0, <1>1, <1>5, EraserMoves, Records DEF ReplaceLog
  <2>2. /\ flagLog' \subseteq Nicks /\ tmp' \subseteq SUBSET Nicks
        /\ listed' \subseteq Emails /\ spare' \subseteq Emails
        /\ heard' = heard /\ late' \in [Emails -> SUBSET Nicks]
    BY <1>0, <1>2, <1>5 DEF ReplaceLog, DataTypeOK, flags, config
  <2>3. QED
    BY <1>0, <1>5, <2>1, <2>2 DEF ReplaceLog, DataTyped, DataTypeOK, Named, store, config
<1>6. CASE DeleteRows(x)
  <2>1. [NoErase EXCEPT !.at = "done"] \in Erasures
    BY Records DEF Erasures, EraserPlaces
  <2>2. eraser' \in [Erasers -> Erasures] /\ spare' \subseteq Emails
    BY <1>1, <1>2, <1>6, <2>1, Records DEF DeleteRows
  <2>3. DataTypeOK'
    BY <1>0, <1>2, <1>6, <2>2 DEF DeleteRows, RoomsAfter, DataTypeOK, flags, config
  <2>4. Named'
    BY <1>0, <1>6 DEF DeleteRows, DataTyped, DataTypeOK, Named
  <2>5. QED
    BY <2>3, <2>4 DEF DataTyped
<1>7. QED
  BY <1>3, <1>4, <1>5, <1>6 DEF Erasing

LEMMA TypeDeleting ==
    ASSUME DataTyped, NEW g \in Emails,
           RequestDeletion(g) \/ ConfirmDeletion(g) \/ CloseSession(g)
           \/ SweepLists \/ SweepNext(g) \/ Ages(g),
           Shake
    PROVE  DataTyped'
<1>0. shaken' \subseteq Emails /\ DataTypeOK
  BY DEF Shake, DataTyped
<1>1. CASE RequestDeletion(g)
  BY <1>0, <1>1, IssuesTyped, CountsTyped
  DEF RequestDeletion, DataTyped, DataTypeOK, Named, flags, config
<1>2. CASE ConfirmDeletion(g)
  <2>1. [at |-> "close", guest |-> g, kept |-> {}] \in Erasures
    BY DEF Erasures, EraserPlaces
  <2>2. eraser' \in [Erasers -> Erasures]
    BY <1>0, <1>2, <2>1, Records DEF ConfirmDeletion, Erases, DataTypeOK
  <2>3. QED
    BY <1>0, <1>2, <2>2, SpendsTyped
    DEF ConfirmDeletion, DataTyped, DataTypeOK, Named, flags, config
<1>3. CASE CloseSession(g)
  <2>1. eraser[g] \in Erasures
    BY <1>0, Records DEF DataTypeOK
  <2>2. eraser' \in [Erasers -> Erasures]
    BY <1>0, <1>3, <2>1, EraserMoves, Records DEF CloseSession, Erases, DataTypeOK
  <2>3. QED
    BY <1>0, <1>3, <2>2, ClosesTyped
    DEF CloseSession, DataTyped, DataTypeOK, Named, store, flags, config
<1>4. CASE SweepLists
  BY <1>0, <1>4 DEF SweepLists, DataTyped, DataTypeOK, Named, store, flags, config
<1>5. CASE SweepNext(g)
  <2>1. [at |-> "read", guest |-> g, kept |-> {}] \in Erasures
    BY DEF Erasures, EraserPlaces
  <2>2. eraser' \in [Erasers -> Erasures]
    BY <1>0, <1>5, <2>1, Records DEF SweepNext, Erases, DataTypeOK
  <2>3. QED
    BY <1>0, <1>5, <2>2 DEF SweepNext, DataTyped, DataTypeOK, Named, store, flags, config
<1>6. CASE Ages(g)
  BY <1>0, <1>6 DEF Ages, DataTyped, DataTypeOK, Named, flags, config
<1>7. QED
  BY <1>1, <1>2, <1>3, <1>4, <1>5, <1>6

(* The store stays well typed, through every step.                         *)
LEMMA NextDataTyped == DataTyped /\ [DataNext]_dataVars => DataTyped'
<1>1. SUFFICES ASSUME DataTyped, [DataNext]_dataVars PROVE DataTyped'
  OBVIOUS
<1>2. CASE UNCHANGED dataVars
  BY <1>1, <1>2 DEF dataVars, store, flags, config, DataTyped, DataTypeOK, Named
<1>3. CASE SweepLists /\ Shake
  <2>1. PICK g \in Emails : Inactive(g)
    BY <1>3 DEF SweepLists
  <2>2. QED
    BY <1>1, <1>3, TypeDeleting
<1>4. ASSUME NEW n \in Nicks, FlagLine(n), Shake PROVE DataTyped'
  <2>1. shaken' \subseteq Emails
    BY <1>4 DEF Shake
  <2>2. QED
    BY <1>1, <1>4, <2>1
    DEF FlagLine, DataTyped, DataTypeOK, Named, store, config
<1>5. QED
  BY <1>1, <1>2, <1>3, <1>4, TypeEntering, TypeVisiting, TypeErasing, TypeDeleting, Zenon
  DEF DataNext, Step, Entering

(* The store's state is well typed, and whoever has a row has a nick.      *)
THEOREM GuestDataTyped == DataSpec => []DataTyped
BY InitDataTyped, NextDataTyped, PTL DEF DataSpec

-----------------------------------------------------------------------------
(* A live code is being mailed or was.                                     *)
LEMMA NextUsable ==
    DataTyped /\ UsableWasMailed /\ [DataNext]_dataVars => UsableWasMailed'
<1>1. SUFFICES ASSUME DataTyped, UsableWasMailed, [DataNext]_dataVars,
                      NEW h \in Emails, "guest" \in tokens'[h]
               PROVE  h \in mailing' \/ h \in known'
  BY DEF UsableWasMailed
<1>2. /\ tokens \in [Emails -> SUBSET {"guest", "welcome", "delete"}]
      /\ "guest" \in tokens[h] => h \in mailing \/ h \in known
  BY <1>1 DEF DataTyped, DataTypeOK, UsableWasMailed
<1>3. CASE UNCHANGED <<tokens, mailing, known>>
  BY <1>1, <1>2, <1>3
<1>4. ASSUME NEW g \in Emails,
             IssueCode(g) \/ SendGuestCode(g) \/ TokensExpire(g)
             \/ RequestDeletion(g) \/ ConfirmDeletion(g)
      PROVE  h \in mailing' \/ h \in known'
  <2>1. CASE IssueCode(g)
    BY <1>1, <1>2, <2>1 DEF IssueCode, Issues
  <2>2. CASE SendGuestCode(g)
    BY <1>1, <1>2, <2>2 DEF SendGuestCode, RevokeUnmailed, Spends
  <2>3. CASE TokensExpire(g)
    BY <1>1, <1>2, <2>3 DEF TokensExpire
  <2>4. CASE RequestDeletion(g)
    BY <1>1, <1>2, <2>4 DEF RequestDeletion, Issues
  <2>5. CASE ConfirmDeletion(g)
    BY <1>1, <1>2, <2>5 DEF ConfirmDeletion, Spends
  <2>6. QED
    BY <1>4, <2>1, <2>2, <2>3, <2>4, <2>5
<1>5. ASSUME NEW g \in Emails, Entering(g) PROVE h \in mailing' \/ h \in known'
  <2>1. CASE CodeVersions(g)
    BY <1>1, <1>2, <2>1 DEF CodeVersions, TurnAway, Spends
  <2>2. CASE CodeEnters(g)
    BY <1>1, <1>2, <2>2 DEF CodeEnters, Issues
  <2>3. CASE NicknameVersions(g)
    BY <1>1, <1>2, <2>3 DEF NicknameVersions, TurnAway, Spends
  <2>4. CASE RecordConsent(g)
    BY <1>1, <1>2, <2>4 DEF RecordConsent
  <2>5. QED
    BY <1>5, <2>1, <2>2, <2>3, <2>4 DEF Entering
<1>6. ASSUME NEW x \in Erasers, DeleteRows(x) PROVE h \in mailing' \/ h \in known'
  <2>1. h # eraser[x].guest
    BY <1>1, <1>2, <1>6 DEF DeleteRows
  <2>2. QED
    BY <1>1, <1>2, <1>6, <2>1 DEF DeleteRows
<1>7. ASSUME NEW g \in Emails,
             PostCode(g) \/ (\E n \in Nicks : PostNickname(g, n)) \/ FindGuest(g)
             \/ Visiting(g) \/ Answer(g) \/ SignOff(g) \/ CloseSession(g)
             \/ SweepNext(g) \/ Ages(g)
      PROVE  UNCHANGED <<tokens, mailing, known>>
  BY <1>7, VisitFrame
  DEF PostCode, PostNickname, CloseSession, SweepNext, Ages, store
<1>8. ASSUME SweepLists \/ (\E n \in Nicks : FlagLine(n))
             \/ (\E x \in Erasers : ReadLog(x) \/ WriteTmp(x) \/ ReplaceLog(x))
      PROVE  UNCHANGED <<tokens, mailing, known>>
  BY <1>8, EraseFrame DEF SweepLists, FlagLine, store
<1>9. CASE UNCHANGED dataVars
  BY <1>3, <1>9 DEF dataVars, store
<1>10. QED
  BY <1>1, <1>3, <1>4, <1>5, <1>6, <1>7, <1>8, <1>9, Zenon
  DEF DataNext, Step, Erasing

(* A code that was never mailed can't stay usable, whatever the mailer,    *)
(* the expiry and an erasure do at once (_revoke_unmailed).                *)
THEOREM CodesWereMailed == DataSpec => []UsableWasMailed
<1>1. DataInit => UsableWasMailed
  BY DEF DataInit, UsableWasMailed
<1>2. QED
  BY <1>1, GuestDataTyped, NextUsable, PTL DEF DataSpec
-----------------------------------------------------------------------------
(* The sweep erases one guest at a time, and none between two.             *)
SpareInv ==
    /\ SweepSpares
    /\ eraser[Retention].at = "none" => eraser[Retention].guest = None
    /\ eraser[Retention].at \notin {"close", "done"}

LEMMA NextSpare == DataTyped /\ SpareInv /\ [DataNext]_dataVars => SpareInv'
<1>1. SUFFICES ASSUME DataTyped, SpareInv, [DataNext]_dataVars PROVE SpareInv'
  OBVIOUS
<1>2. /\ eraser \in [Erasers -> Erasures] /\ spare \subseteq Emails
      /\ listed \subseteq Emails
      /\ None \notin Emails /\ Retention \notin Emails /\ Emails \subseteq Erasers
      /\ Retention \in Erasers
  BY <1>1, Records DEF DataTyped, DataTypeOK
<1>3. CASE /\ eraser'[Retention].guest = eraser[Retention].guest
           /\ eraser'[Retention].at = eraser[Retention].at
           /\ listed' = listed /\ spare' = spare
  BY <1>1, <1>3 DEF SpareInv, SweepSpares
<1>4. CASE SweepLists
  BY <1>1, <1>2, <1>4 DEF SweepLists, SpareInv, SweepSpares, Inactive
<1>5. ASSUME NEW g \in Emails, SweepNext(g) PROVE SpareInv'
  BY <1>1, <1>2, <1>5 DEF SweepNext, SpareInv, SweepSpares, Erases
<1>6. CASE Erasing(Retention)
  <2>1. CASE ReadLog(Retention)
    <3>1. PICK e \in Erasures :
              /\ Erases(Retention, e) /\ e.guest = eraser[Retention].guest
              /\ e.at \in {"write", "rows"}
      BY <1>1, <1>2, <2>1, LogRead DEF DataTyped
    <3>2. listed' = listed /\ spare' = spare
      BY <2>1 DEF ReadLog
    <3>3. QED
      BY <1>1, <1>2, <3>1, <3>2 DEF SpareInv, SweepSpares, Erases
  <2>2. CASE WriteTmp(Retention)
    BY <1>1, <1>2, <2>2 DEF WriteTmp, SpareInv, SweepSpares, Erases
  <2>3. CASE ReplaceLog(Retention)
    <3>1. CASE tmp = {}
      BY <1>1, <1>2, <2>3, <3>1
      DEF ReplaceLog, SpareInv, SweepSpares, Erases, Forgets, NoErase
    <3>2. CASE tmp # {}
      <4>1. /\ eraser' = [eraser EXCEPT ![Retention] = [eraser[Retention] EXCEPT !.at = "rows"]]
            /\ listed' = listed
        BY <2>3, <3>2 DEF ReplaceLog, Erases
      <4>2. eraser'[Retention].at = "rows" /\ eraser'[Retention].guest = eraser[Retention].guest
        BY <1>2, <4>1 DEF Erasures
      <4>3. spare' \subseteq spare
        BY <2>3 DEF ReplaceLog, Forgets
      <4>4. QED
        BY <1>1, <4>1, <4>2, <4>3 DEF SpareInv, SweepSpares
    <3>3. QED
      BY <3>1, <3>2
  <2>4. CASE DeleteRows(Retention)
    BY <1>1, <1>2, <2>4
    DEF DeleteRows, SpareInv, SweepSpares, Erases, Forgets, NoErase
  <2>5. QED
    BY <1>6, <2>1, <2>2, <2>3, <2>4 DEF Erasing
<1>7. ASSUME NEW g \in Emails, Erasing(g) PROVE SpareInv'
  <2>1. g # Retention
    BY <1>2
  <2>2. listed' = listed /\ spare' = spare
    BY <1>7, <2>1 DEF Erasing, ReadLog, WriteTmp, ReplaceLog, DeleteRows, Forgets
  <2>3. \E e : Erases(g, e)
    BY <1>7 DEF Erasing, ReadLog, WriteTmp, ReplaceLog, DeleteRows
  <2>4. eraser'[Retention] = eraser[Retention]
    BY <1>2, <2>1, <2>3 DEF Erases
  <2>5. QED
    BY <1>3, <2>2, <2>4
<1>8. ASSUME NEW g \in Emails, IssueCode(g) \/ ConfirmDeletion(g) \/ CloseSession(g)
      PROVE  SpareInv'
  <2>1. g # Retention
    BY <1>2
  <2>2. listed' = listed /\ spare' = spare
    BY <1>8 DEF IssueCode, ConfirmDeletion, CloseSession
  <2>3. eraser'[Retention] = eraser[Retention]
    BY <1>2, <1>8, <2>1 DEF IssueCode, ConfirmDeletion, CloseSession, Erases
  <2>4. QED
    BY <1>3, <2>2, <2>3
<1>9. ASSUME NEW g \in Emails,
             SendGuestCode(g) \/ TokensExpire(g) \/ PostCode(g) \/ Entering(g)
             \/ (\E n \in Nicks : PostNickname(g, n)) \/ FindGuest(g) \/ Visiting(g)
             \/ Answer(g) \/ SignOff(g) \/ RequestDeletion(g) \/ Ages(g)
      PROVE  UNCHANGED <<eraser, listed, spare>>
  BY <1>9, VisitFrame
  DEF SendGuestCode, TokensExpire, PostCode, Entering, CodeVersions, CodeEnters,
      NicknameVersions, RecordConsent, PostNickname, RequestDeletion, Ages
<1>10. CASE UNCHANGED dataVars
  BY <1>3, <1>10 DEF dataVars
<1>12. ASSUME NEW n \in Nicks, FlagLine(n) PROVE UNCHANGED <<eraser, listed, spare>>
  BY <1>12 DEF FlagLine
<1>11. QED
  BY <1>1, <1>3, <1>4, <1>5, <1>6, <1>7, <1>8, <1>9, <1>10, <1>12, Zenon
  DEF DataNext, Step, Erasers

(* The sweep takes nobody with recent activity in any of the three tables, *)
(* though it reads them once and erases them one after the other           *)
(* (inactive_guests, GuestStore.sweep).                                    *)
THEOREM SweepTakesInactive == DataSpec => []SweepSpares
<1>1. DataInit => SpareInv
  BY Records DEF DataInit, SpareInv, SweepSpares, NoErase
<1>2. SpareInv => SweepSpares
  BY DEF SpareInv
<1>3. QED
  BY <1>1, <1>2, GuestDataTyped, NextSpare, PTL DEF DataSpec
-----------------------------------------------------------------------------
(* A deletion that nothing runs beside, place by place: the session stays  *)
(* closed, the kept lines have none under the guest's nicks, nor has the   *)
(* .tmp file, and the log only what came late; and once it is done nothing *)
(* of the guest is left that could write a row.                            *)
Alone(g) == entry[g].at = "none" /\ visit[g].at = "none" /\ g \notin mailing
Gone(g) == Alone(g) /\ ~HasRows(g) /\ session[g] = None /\ tokens[g] = {}
Cleared(g) ==
    /\ eraser[g].at \in {"read", "write", "replace", "rows"} => session[g] = None
    /\ eraser[g].at = "write" => nicks[g] \cap eraser[g].kept = {}
    /\ eraser[g].at = "replace" => \A kept \in tmp : nicks[g] \cap kept = {}
    /\ eraser[g].at = "rows" /\ flagLogSet => nicks[g] \cap flagLog \subseteq late[g]
    /\ eraser[g].at = "done" => Gone(g)
QuietFor(g) ==
    /\ Runs(g) => eraser[g].guest = g
    /\ g \notin shaken => Cleared(g) /\ (Runs(g) => ~Beside(g))
QuietInv == \A g \in Emails : QuietFor(g)

(* Who moves a deletion on.                                                *)
LEMMA ErasingMoves ==
    ASSUME DataTyped, NEW x \in Erasers, Erasing(x)
    PROVE  /\ Runs(x) /\ eraser'[x].at # eraser[x].at
           /\ \A y \in Erasers \ {x} : eraser'[y] = eraser[y]
<1>1. eraser \in [Erasers -> Erasures]
  BY DEF DataTyped, DataTypeOK
<1>2. CASE ReadLog(x)
  <2>1. eraser[x].at = "read"
    BY <1>2 DEF ReadLog
  <2>2. PICK e \in Erasures : Erases(x, e) /\ e.at \in {"write", "rows"}
    BY <1>2, LogRead DEF DataTyped
  <2>3. QED
    BY <1>1, <2>1, <2>2 DEF Erases, Runs
<1>3. CASE WriteTmp(x)
  BY <1>1, <1>3 DEF WriteTmp, Erases, Runs, Erasures
<1>4. CASE ReplaceLog(x)
  BY <1>1, <1>4 DEF ReplaceLog, Erases, Runs, Erasures, NoErase
<1>5. CASE DeleteRows(x)
  BY <1>1, <1>5 DEF DeleteRows, Erases, Runs, Erasures, NoErase
<1>6. QED
  BY <1>2, <1>3, <1>4, <1>5 DEF Erasing

LEMMA OthersWait ==
    ASSUME NEW g \in Emails,
           SendGuestCode(g) \/ TokensExpire(g) \/ PostCode(g) \/ Entering(g)
           \/ (\E n \in Nicks : PostNickname(g, n)) \/ FindGuest(g) \/ Visiting(g)
           \/ Answer(g) \/ SignOff(g) \/ RequestDeletion(g) \/ Ages(g)
    PROVE  UNCHANGED <<eraser, listed, spare, tmp>>
BY VisitFrame
DEF SendGuestCode, TokensExpire, PostCode, Entering, CodeVersions, CodeEnters,
    NicknameVersions, RecordConsent, PostNickname, RequestDeletion, Ages, flags, config

LEMMA EraserSteps ==
    ASSUME DataTyped, Step, NEW h \in Emails
    PROVE  \/ IssueCode(h) \/ ConfirmDeletion(h) \/ CloseSession(h) \/ Erasing(h)
           \/ eraser'[h] = eraser[h]
<1>1. /\ eraser \in [Erasers -> Erasures]
      /\ Retention # h /\ Retention \in Erasers /\ h \in Erasers
  BY Records DEF DataTyped, DataTypeOK
<1>2. ASSUME NEW g \in Emails \ {h}, IssueCode(g) \/ ConfirmDeletion(g) \/ CloseSession(g)
      PROVE  eraser'[h] = eraser[h]
  BY <1>1, <1>2 DEF IssueCode, ConfirmDeletion, CloseSession, Erases
<1>3. ASSUME NEW g \in Emails, SweepNext(g) PROVE eraser'[h] = eraser[h]
  BY <1>1, <1>3 DEF SweepNext, Erases
<1>4. CASE SweepLists
  BY <1>4 DEF SweepLists
<1>5. ASSUME NEW x \in Erasers \ {h}, Erasing(x) PROVE eraser'[h] = eraser[h]
  BY <1>1, <1>5, ErasingMoves
<1>6. ASSUME NEW n \in Nicks, FlagLine(n) PROVE eraser'[h] = eraser[h]
  BY <1>6 DEF FlagLine
<1>7. QED
  BY <1>2, <1>3, <1>4, <1>5, <1>6, OthersWait, Zenon DEF Step

(* The configuration stays.                                               *)
LEMMA ConfigKept == Step => UNCHANGED config
<1>1. ASSUME NEW g \in Emails,
             IssueCode(g) \/ SendGuestCode(g) \/ TokensExpire(g) \/ PostCode(g)
             \/ Entering(g) \/ (\E n \in Nicks : PostNickname(g, n))
      PROVE  UNCHANGED config
  BY <1>1 DEF IssueCode, SendGuestCode, TokensExpire, PostCode, Entering, CodeVersions,
              CodeEnters, NicknameVersions, RecordConsent, PostNickname
<1>2. ASSUME NEW g \in Emails, FindGuest(g) \/ Visiting(g) \/ Answer(g) \/ SignOff(g)
      PROVE  UNCHANGED config
  BY <1>2 DEF FindGuest, Visiting, ConsentGate, OpenGuest, CheckLine, ExecuteLine,
              RecordLine, Answer, SignOff
<1>3. ASSUME NEW g \in Emails,
             RequestDeletion(g) \/ ConfirmDeletion(g) \/ CloseSession(g)
             \/ SweepNext(g) \/ Ages(g)
      PROVE  UNCHANGED config
  BY <1>3 DEF RequestDeletion, ConfirmDeletion, CloseSession, SweepNext, Ages
<1>4. ASSUME SweepLists \/ (\E n \in Nicks : FlagLine(n)) PROVE UNCHANGED config
  BY <1>4 DEF SweepLists, FlagLine
<1>5. ASSUME NEW x \in Erasers, Erasing(x) PROVE UNCHANGED config
  BY <1>5 DEF Erasing, ReadLog, WriteTmp, ReplaceLog, DeleteRows
<1>6. QED
  BY <1>1, <1>2, <1>3, <1>4, <1>5, Zenon DEF Step

(* Beside a deletion that is not shaken nothing touches what it relies on. *)
LEMMA Undisturbed ==
    ASSUME DataTyped, NEW h \in Emails, Runs(h), ~Beside(h), Step,
           eraser'[h] = eraser[h]
    PROVE  /\ nicks'[h] = nicks[h] /\ tmp' = tmp
           /\ session[h] = None => session'[h] = None
           /\ flagLogSet' = flagLogSet
           /\ eraser[h].at = "rows" /\ nicks[h] \cap flagLog \subseteq late[h]
                => nicks[h] \cap flagLog' \subseteq late'[h]
<1>1. /\ nicks \in [Emails -> SUBSET Nicks] /\ session \in [Emails -> Nicks \cup {None}]
      /\ entry[h].at = "none" /\ visit[h].at = "none"
      /\ \A x \in Erasers \ {h} : ~Runs(x)
      /\ h \in Erasers
  BY Records DEF DataTyped, DataTypeOK, Beside
<1>0. flagLogSet' = flagLogSet
  BY ConfigKept DEF config
<1>2. CASE UNCHANGED <<nicks, tmp, session, flagLog, late>>
  BY <1>0, <1>2
<1>3. ASSUME NEW g \in Emails, CodeEnters(g) \/ NicknameVersions(g)
      PROVE  nicks'[h] = nicks[h] /\ UNCHANGED <<tmp, session, flagLog, late>>
  <2>1. g # h
    BY <1>1, <1>3 DEF CodeEnters, NicknameVersions
  <2>2. QED
    BY <1>1, <1>3, <2>1
    DEF CodeEnters, NicknameVersions, RecordGuest, TurnAway, flags, config
<1>4. ASSUME NEW g \in Emails, Visiting(g)
      PROVE  /\ nicks'[h] = nicks[h] /\ UNCHANGED <<tmp, flagLog, late>>
             /\ session'[h] = session[h]
  <2>1. g # h
    BY <1>1, <1>4
    DEF Visiting, ConsentGate, OpenGuest, CheckLine, ExecuteLine, RecordLine
  <2>2. session'[h] = session[h]
    BY <1>1, <1>4, <2>1
    DEF Visiting, ConsentGate, OpenGuest, CheckLine, ExecuteLine, RecordLine
  <2>3. UNCHANGED <<flagLog, late>>
    BY <1>4
    DEF Visiting, ConsentGate, OpenGuest, CheckLine, ExecuteLine, RecordLine, flags
  <2>4. QED
    BY <1>4, <2>2, <2>3, VisitFrame
<1>5. ASSUME NEW g \in Emails, SignOff(g) \/ CloseSession(g)
      PROVE  /\ UNCHANGED <<nicks, tmp, flagLog, late>>
             /\ session[h] = None => session'[h] = None
  BY <1>1, <1>5 DEF SignOff, CloseSession, Closes, store, flags, config
<1>6. ASSUME NEW g \in Emails,
             IssueCode(g) \/ SendGuestCode(g) \/ TokensExpire(g) \/ PostCode(g)
             \/ CodeVersions(g) \/ RecordConsent(g) \/ FindGuest(g) \/ Answer(g)
             \/ (\E n \in Nicks : PostNickname(g, n)) \/ RequestDeletion(g)
             \/ ConfirmDeletion(g) \/ SweepNext(g) \/ Ages(g)
      PROVE  UNCHANGED <<nicks, tmp, session, flagLog, late>>
  BY <1>6
  DEF IssueCode, SendGuestCode, TokensExpire, PostCode, CodeVersions, RecordConsent,
      FindGuest, Answer, PostNickname, RequestDeletion, ConfirmDeletion, SweepNext,
      Ages, store, flags, config
<1>7. CASE SweepLists
  BY <1>2, <1>7 DEF SweepLists, store, flags, config
<1>8. ASSUME NEW x \in Erasers PROVE ~Erasing(x)
  BY <1>1, ErasingMoves
<1>10. ASSUME NEW n \in Nicks, FlagLine(n)
       PROVE  /\ nicks'[h] = nicks[h] /\ tmp' = tmp /\ session'[h] = session[h]
              /\ eraser[h].at = "rows" /\ nicks[h] \cap flagLog \subseteq late[h]
                   => nicks[h] \cap flagLog' \subseteq late'[h]
  <2>1. UNCHANGED <<nicks, tmp, session>> /\ flagLog' = flagLog \cup {n}
    BY <1>10 DEF FlagLine, store
  <2>2. eraser[h].at = "rows" => late'[h] = late[h] \cup (nicks[h] \cap {n})
    BY <1>10 DEF FlagLine
  <2>3. QED
    BY <2>1, <2>2
<1>9. QED
  <2>1. ASSUME NEW g \in Emails, Entering(g)
        PROVE  nicks'[h] = nicks[h] /\ UNCHANGED <<tmp, session, flagLog, late>>
    BY <1>3, <1>6, <2>1 DEF Entering
  <2>2. QED
    BY <1>0, <1>2, <1>4, <1>5, <1>6, <1>7, <1>8, <1>10, <2>1, Zenon DEF Step

(* After an undisturbed deletion nothing of the guest is left to start     *)
(* from: only a new code, which ends the wait, brings anything back.       *)
LEMMA GoneStays ==
    ASSUME DataTyped, NEW h \in Emails, Gone(h), Step, ~IssueCode(h)
    PROVE  Gone(h)'
<1>1. /\ nicks \in [Emails -> SUBSET Nicks] /\ session \in [Emails -> Nicks \cup {None}]
      /\ entry \in [Emails -> Entries] /\ visit \in [Emails -> Visits]
      /\ tokens \in [Emails -> SUBSET {"guest", "welcome", "delete"}]
      /\ Purpose \in {"welcome", "guest"}
  BY DEF DataTyped, DataTypeOK, Purpose
<1>2. /\ entry[h].at = "none" /\ visit[h].at = "none" /\ h \notin mailing
      /\ nicks[h] = {} /\ h \notin consents /\ h \notin inputs /\ h \notin rooms
      /\ session[h] = None /\ tokens[h] = {}
  BY DEF Gone, Alone, HasRows
<1> DEFINE Same == /\ entry'[h] = entry[h] /\ visit'[h] = visit[h] /\ h \notin mailing'
                   /\ nicks'[h] = {} /\ h \notin consents' /\ h \notin inputs'
                   /\ h \notin rooms' /\ session'[h] = None /\ tokens'[h] = {}
<1>3. Same => Gone(h)'
  BY <1>2 DEF Gone, Alone, HasRows
<1>4. ASSUME NEW g \in Emails,
             IssueCode(g) \/ SendGuestCode(g) \/ TokensExpire(g) \/ PostCode(g)
             \/ (\E n \in Nicks : PostNickname(g, n))
      PROVE  Same
  <2>1. CASE IssueCode(g)
    BY <1>1, <1>2, <2>1 DEF IssueCode, Issues
  <2>2. CASE SendGuestCode(g)
    BY <1>1, <1>2, <2>2 DEF SendGuestCode, RevokeUnmailed, Spends
  <2>3. CASE TokensExpire(g)
    BY <1>1, <1>2, <2>3 DEF TokensExpire
  <2>4. CASE PostCode(g)
    BY <1>1, <1>2, <2>4 DEF PostCode, Moves, store
  <2>5. CASE \E n \in Nicks : PostNickname(g, n)
    BY <1>1, <1>2, <2>5 DEF PostNickname, Moves, store
  <2>6. QED
    BY <1>4, <2>1, <2>2, <2>3, <2>4, <2>5
<1>5. ASSUME NEW g \in Emails, Entering(g) PROVE Same
  <2>1. g # h
    BY <1>2, <1>5
    DEF Entering, CodeVersions, CodeEnters, NicknameVersions, RecordConsent
  <2>2. CASE CodeVersions(g)
    BY <1>1, <1>2, <2>1, <2>2 DEF CodeVersions, Moves, TurnAway, Spends
  <2>3. CASE CodeEnters(g)
    BY <1>1, <1>2, <2>1, <2>3 DEF CodeEnters, Moves, RecordGuest, Issues
  <2>4. CASE NicknameVersions(g)
    BY <1>1, <1>2, <2>1, <2>4
    DEF NicknameVersions, Moves, RecordGuest, TurnAway, Spends
  <2>5. CASE RecordConsent(g)
    BY <1>1, <1>2, <2>1, <2>5 DEF RecordConsent, Moves
  <2>6. QED
    BY <1>5, <2>2, <2>3, <2>4, <2>5 DEF Entering
<1>6. ASSUME NEW g \in Emails,
             FindGuest(g) \/ Visiting(g) \/ Answer(g) \/ SignOff(g)
      PROVE  Same
  <2>1. g # h
    BY <1>2, <1>6
    DEF FindGuest, Visiting, ConsentGate, OpenGuest, CheckLine, ExecuteLine,
        RecordLine, Answer, SignOff
  <2>2. visit'[h] = visit[h] /\ session'[h] = session[h]
    BY <1>1, <1>6, <2>1
    DEF FindGuest, Visiting, ConsentGate, OpenGuest, GateLine, CheckLine, ExecuteLine,
        RecordLine, Answer, SignOff, Closes, Goes
  <2>3. rooms' \subseteq rooms \cup {g} /\ inputs' \subseteq inputs \cup {g}
    BY <1>6
    DEF FindGuest, Visiting, ConsentGate, OpenGuest, CheckLine, ExecuteLine,
        RecordLine, Answer, SignOff, RecordInput, store
  <2>4. QED
    BY <1>2, <1>6, <2>1, <2>2, <2>3, VisitFrame
<1>7. ASSUME NEW g \in Emails,
             RequestDeletion(g) \/ ConfirmDeletion(g) \/ CloseSession(g)
             \/ SweepNext(g) \/ Ages(g)
      PROVE  Same
  <2>1. CASE RequestDeletion(g) \/ ConfirmDeletion(g)
    BY <1>1, <1>2, <2>1 DEF RequestDeletion, ConfirmDeletion, Issues, Spends
  <2>2. CASE CloseSession(g) \/ SweepNext(g) \/ Ages(g)
    BY <1>1, <1>2, <2>2 DEF CloseSession, Closes, SweepNext, Ages, store
  <2>3. QED
    BY <1>7, <2>1, <2>2
<1>8. CASE SweepLists
  BY <1>2, <1>3, <1>8 DEF SweepLists, store
<1>9. ASSUME NEW x \in Erasers, Erasing(x) PROVE Same
  <2>1. CASE DeleteRows(x)
    BY <1>1, <1>2, <2>1 DEF DeleteRows, RoomsAfter
  <2>2. CASE ReadLog(x) \/ WriteTmp(x) \/ ReplaceLog(x)
    BY <1>2, <2>2, EraseFrame DEF store
  <2>3. QED
    BY <1>9, <2>1, <2>2 DEF Erasing
<1>11. ASSUME NEW n \in Nicks, FlagLine(n) PROVE Same
  BY <1>2, <1>11 DEF FlagLine, store
<1>10. QED
  BY <1>11, <1>3, <1>4, <1>5, <1>6, <1>7, <1>8, <1>9, Zenon DEF Step

(* The deletion's own steps take it from place to place.                   *)
LEMMA OwnErasure ==
    ASSUME DataTyped, NEW h \in Emails, QuietFor(h), Erasing(h)
    PROVE  /\ Runs(h)' => eraser'[h].guest = h
           /\ h \notin shaken => Cleared(h)'
<1>1. /\ eraser \in [Erasers -> Erasures] /\ h \in Erasers /\ h # Retention
      /\ tmp \subseteq SUBSET Nicks /\ nicks \in [Emails -> SUBSET Nicks]
      /\ consents \subseteq Emails /\ eraser[h] \in Erasures
  BY Records DEF DataTyped, DataTypeOK
<1>2. eraser[h].guest = h
  BY <1>1, ErasingMoves DEF QuietFor
<1>3. CASE ReadLog(h)
  <2>1. PICK e \in Erasures :
            /\ Erases(h, e) /\ e.guest = h
            /\ \/ e.at = "write" /\ e.kept = flagLog \ nicks[h]
               \/ e.at = "rows" /\ (nicks[h] = {} \/ ~flagLogSet \/ flagLog = {})
    BY <1>1, <1>2, <1>3, LogRead DEF DataTyped
  <2>2. eraser'[h] = e
    BY <1>1, <2>1 DEF Erases
  <2>3. eraser[h].at = "read" /\ UNCHANGED <<nicks, flagLog, flagLogSet, session>>
    BY <1>3 DEF ReadLog, store, flags, config
  <2>4. h \notin shaken => session[h] = None
    BY <2>3 DEF QuietFor, Cleared
  <2>5. QED
    BY <2>1, <2>2, <2>3, <2>4 DEF Cleared
<1>4. CASE WriteTmp(h)
  BY <1>1, <1>2, <1>4 DEF WriteTmp, Erases, QuietFor, Cleared, Runs, Erasures, store
<1>5. CASE ReplaceLog(h)
  <2>1. CASE tmp = {}
    BY <1>1, <1>5, <2>1 DEF ReplaceLog, Erases, Cleared, Runs, NoErase
  <2>2. CASE tmp # {}
    BY <1>1, <1>2, <1>5, <2>2, SMTT(30)
    DEF ReplaceLog, Erases, QuietFor, Cleared, Runs, Erasures, store
  <2>3. QED
    BY <2>1, <2>2
<1>6. CASE DeleteRows(h)
  <2>1. eraser'[h].at = "done"
    BY <1>1, <1>6 DEF DeleteRows, Erases, NoErase
  <2>2. ASSUME h \notin shaken PROVE Gone(h)'
    <3>1. Alone(h) /\ session[h] = None
      BY <1>1, <1>6, <2>2, ErasingMoves
      DEF DeleteRows, QuietFor, Cleared, Beside, Alone
    <3>2. QED
      BY <1>1, <1>2, <1>6, <3>1
      DEF DeleteRows, RoomsAfter, Gone, Alone, HasRows, DataTyped, DataTypeOK
  <2>3. QED
    BY <2>1, <2>2 DEF Cleared, Runs
<1>7. QED
  BY <1>3, <1>4, <1>5, <1>6 DEF Erasing

LEMMA NextQuiet == DataTyped /\ QuietInv /\ [DataNext]_dataVars => QuietInv'
<1>1. SUFFICES ASSUME DataTyped, QuietInv, DataNext, NEW h \in Emails
               PROVE  QuietFor(h)'
  <2>1. CASE UNCHANGED dataVars
    BY <2>1
    DEF dataVars, store, flags, config, QuietInv, QuietFor, Cleared, Gone, Alone, HasRows,
       Runs, Beside
  <2>2. QED
    BY <2>1 DEF QuietInv
<1>2. /\ Step /\ QuietFor(h) /\ h \in Erasers
      /\ eraser \in [Erasers -> Erasures] /\ session \in [Emails -> Nicks \cup {None}]
  BY <1>1, Records DEF DataNext, QuietInv, DataTyped, DataTypeOK
<1>3. ASSUME eraser'[h].at # "none", h \notin shaken'
      PROVE  h \notin shaken /\ (Runs(h)' => ~Beside(h)')
  BY <1>1, <1>3 DEF DataNext, Shake
<1>4. CASE eraser'[h].at = "none"
  BY <1>4 DEF QuietFor, Cleared, Runs
<1>5. CASE IssueCode(h)
  BY <1>2, <1>4, <1>5 DEF IssueCode, NoErase
<1>6. CASE ConfirmDeletion(h)
  <2>1. eraser'[h].at = "close" /\ eraser'[h].guest = h
    BY <1>2, <1>6 DEF ConfirmDeletion, Erases
  <2>2. QED
    BY <1>3, <2>1 DEF QuietFor, Cleared
<1>7. CASE CloseSession(h)
  <2>1. /\ eraser'[h].at = "read" /\ eraser'[h].guest = eraser[h].guest
        /\ session'[h] = None /\ Runs(h)
    BY <1>2, <1>7 DEF CloseSession, Closes, Erases, Erasures, Runs
  <2>2. QED
    BY <1>2, <1>3, <2>1 DEF QuietFor, Cleared
<1>8. CASE Erasing(h)
  BY <1>1, <1>2, <1>3, <1>4, <1>8, OwnErasure DEF QuietFor
<1>9. CASE eraser'[h] = eraser[h] /\ ~IssueCode(h)
  <2>1. (Runs(h)' <=> Runs(h)) /\ eraser'[h].guest = eraser[h].guest
    BY <1>9 DEF Runs
  <2>2. ASSUME h \notin shaken, eraser[h].at # "none" PROVE Cleared(h)'
    <3>1. CASE eraser[h].at = "done"
      BY <1>1, <1>2, <1>9, <2>2, <3>1, GoneStays DEF QuietFor, Cleared
    <3>2. CASE Runs(h)
      BY <1>1, <1>2, <1>9, <2>2, <3>2, Undisturbed DEF QuietFor, Cleared, Runs
    <3>3. QED
      BY <2>2, <3>1, <3>2 DEF Runs
  <2>3. QED
    BY <1>2, <1>3, <1>4, <1>9, <2>1, <2>2 DEF QuietFor
<1>10. QED
  BY <1>1, <1>2, <1>5, <1>6, <1>7, <1>8, <1>9, EraserSteps

THEOREM QuietHolds == DataSpec => []QuietInv
<1>1. DataInit => QuietInv
  BY Records DEF DataInit, QuietInv, QuietFor, Cleared, Runs, NoErase
<1>2. QED
  BY <1>1, GuestDataTyped, NextQuiet, PTL DEF DataSpec

(* A deletion that nothing runs beside leaves no row, no session and no    *)
(* token of the guest (post_confirm, delete_guest_inputs).                 *)
THEOREM DeletionLeavesNothing == DataSpec => []QuietDeletion
<1>1. QuietInv => QuietDeletion
  BY DEF QuietInv, QuietFor, Cleared, Gone, QuietDeletion
<1>2. QED
  BY <1>1, QuietHolds, PTL

(* ... and no line in the flag log under any nick they ever had but what   *)
(* sbx-ask wrote after the log was read, though it is read, written and    *)
(* replaced in three steps (purge_flag_log).                               *)
THEOREM DeletionPurgesLog == DataSpec => FlagLinesGo
<1>1. QuietInv /\ [DataNext]_dataVars
        => [\A g \in Emails :
              flagLogSet /\ eraser[g].at = "rows"
              /\ (eraser[g].at = "done" /\ g \notin shaken)' =>
                  nicks[g] \cap flagLog \subseteq late[g]]_dataVars
  <2>1. ASSUME QuietInv, DataNext, NEW g \in Emails, flagLogSet, eraser[g].at = "rows",
               eraser'[g].at = "done", g \notin shaken'
        PROVE  nicks[g] \cap flagLog \subseteq late[g]
    <3>1. g \notin shaken
      BY <2>1 DEF DataNext, Shake
    <3>2. QED
      BY <2>1, <3>1 DEF QuietInv, QuietFor, Cleared
  <2>2. QED
    BY <2>1
<1>2. QED
  BY <1>1, QuietHolds, PTL DEF DataSpec, FlagLinesGo
=============================================================================
