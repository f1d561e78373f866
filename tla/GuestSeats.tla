----------------------------- MODULE GuestSeats -----------------------------
(***************************************************************************)
(* The sandbox seats: which guests are in, who waits to come in, and how   *)
(* seats are given up (SessionRegistry's guest half, routes._open_guest,   *)
(* the entry forms, guest logout, the ban sweep and the idle sign-off).    *)
(*                                                                         *)
(* Everything runs in one event loop; a step here is the code between two  *)
(* awaits.  A request is in one of these places:                           *)
(*    enter  its form passed the checks that come before the guest lock    *)
(*    act    it may open a session (GET /, POST /input), and wants the lock*)
(*    poll   it may not (event stream, polls), and wants the lock          *)
(*    evict  it holds the lock and awaits a stale connection's disconnect  *)
(*    open   it holds the lock and awaits the connection it opens          *)
(*    leave  a logout that awaits the disconnect                           *)
(* The lock is asyncio's: whoever waits for it gets it once it is free.    *)
(***************************************************************************)
EXTENDS FiniteSets, Naturals

CONSTANTS
    Guests,
    Addresses,   \* client addresses
    NoAddress,   \* a reservation made for a returning guest, without address
    NotReserved, \* no reservation
    Reqs,        \* requests in flight
    MaxGuests,   \* guest_max_guests
    MaxPending,  \* guest_max_pending_per_address
    NoGuest

ASSUME SeatsOK ==
    /\ IsFiniteSet(Guests)
    /\ MaxGuests \in Nat
    /\ MaxPending \in Nat
    /\ NoAddress \notin Addresses
    /\ NotReserved \notin Addresses \union {NoAddress}
    /\ NoGuest \notin Guests

VARIABLES
    conn,     \* the guest's registry entry: none, up, or stale (dead, or
              \* connected under a nickname the guest has since changed)
    idle,     \* the guest has not acted for guest_idle_close_s
    reserved, \* the address a reservation was made from
    gauge,    \* the active_guest_sessions metric
    code,     \* the guest has an unused code or welcome token
    cookie,   \* the guest's browser has the lens_guest cookie
    banned,   \* banned in the guest store, by the owner's CLI
    req,      \* the requests in flight
    sweep     \* the guest the ban sweep found banned, while it awaits

vars == <<conn, idle, reserved, gauge, code, cookie, banned, req, sweep>>

Places == {"free", "enter", "act", "poll", "evict", "open", "leave"}
Conns == {"none", "up", "stale"}
Request == [at : Places, guest : Guests \union {NoGuest},
            from : Addresses \union {NoAddress}]
At(place, g) == [at |-> place, guest |-> g, from |-> NoAddress]
Free == At("free", NoGuest)

Open == {g \in Guests : conn[g] # "none"}
Reserved == {g \in Guests : reserved[g] # NotReserved}

(* Slips the properties are tried against, each ahead of the definition it *)
(* stands for: reservations do not count; there is no guest lock; a poll   *)
(* is an action; the ban sweep passes over stale connections.              *)
SlotFreeOpenOnly(g, a) ==
    \/ g \in Open \union Reserved
    \/ /\ Cardinality(Open) < MaxGuests
       /\ a # NoAddress => Cardinality({h \in Guests : reserved[h] = a}) < MaxPending

NoGuestLock == TRUE

(* active_guests, and the two limits of guest_slot_free.                   *)
Active == Open \union Reserved
Pending(a) == {g \in Guests : reserved[g] = a}
SlotFree(g, a) ==
    \/ g \in Active
    \/ /\ Cardinality(Active) < MaxGuests
       /\ a # NoAddress => Cardinality(Pending(a)) < MaxPending

(* try_reserve_guest, once the slot is free: a refresh keeps the address.  *)
Reserve(g, a) ==
    reserved' = [reserved EXCEPT
                    ![g] = IF g \in Open \/ g \in Reserved THEN @ ELSE a]

GuestLockFree == \A r \in Reqs : req[r].at \notin {"evict", "open"}

Done(r) == req' = [req EXCEPT ![r] = Free]
Go(r, place) == req' = [req EXCEPT ![r].at = place]

(* SessionRegistry.close, up to its await: the entry, its idle clock and   *)
(* any reservation go at once.                                             *)
Close(g) ==
    /\ conn' = [conn EXCEPT ![g] = "none"]
    /\ idle' = [idle EXCEPT ![g] = FALSE]
    /\ reserved' = [reserved EXCEPT ![g] = NotReserved]
    /\ gauge' = IF conn[g] # "none" /\ gauge > 0 THEN gauge - 1 ELSE gauge

Init ==
    /\ conn = [g \in Guests |-> "none"]
    /\ idle = [g \in Guests |-> FALSE]
    /\ reserved = [g \in Guests |-> NotReserved]
    /\ gauge = 0
    /\ code = [g \in Guests |-> FALSE]
    /\ cookie = [g \in Guests |-> FALSE]
    /\ banned = [g \in Guests |-> FALSE]
    /\ req = [r \in Reqs |-> Free]
    /\ sweep = NoGuest

-----------------------------------------------------------------------------
(* A code is mailed.  (A first-time guest trades it for a welcome token,   *)
(* which is a code here: one unused token before, one after.)              *)
MailCode(g) ==
    /\ ~banned[g]
    /\ ~code[g]
    /\ code' = [code EXCEPT ![g] = TRUE]
    /\ UNCHANGED <<conn, idle, reserved, gauge, cookie, banned, req, sweep>>

(* A form with a right code: the ban and the code are checked, then the    *)
(* legal versions and the lock are awaited.                                *)
BeginEnter(r, g, a) ==
    /\ req[r] = Free
    /\ code[g]
    /\ ~banned[g]
    /\ req' = [req EXCEPT ![r] = [at |-> "enter", guest |-> g, from |-> a]]
    /\ UNCHANGED <<conn, idle, reserved, gauge, code, cookie, banned, sweep>>

(* Under the lock: the seat first, so that a refused guest keeps the code, *)
(* then the code is used up and the seat reserved.  The guest row written  *)
(* afterwards may carry a new nickname: an open connection is then stale.  *)
(* The answer with the cookie is padded to a constant time: the guest is   *)
(* allowed to come back earlier here than in the code.                     *)
Enter(r) ==
    LET g == req[r].guest
        admitted == SlotFree(g, req[r].from) /\ code[g]
    IN  /\ req[r].at = "enter"
        /\ GuestLockFree
        /\ \/ /\ admitted
              /\ Reserve(g, req[r].from)
              /\ code' = [code EXCEPT ![g] = FALSE]
              /\ cookie' = [cookie EXCEPT ![g] = TRUE]
              /\ \/ UNCHANGED conn
                 \/ conn[g] = "up" /\ conn' = [conn EXCEPT ![g] = "stale"]
           \/ ~admitted /\ UNCHANGED <<reserved, code, cookie, conn>>
        /\ Done(r)
        /\ UNCHANGED <<idle, gauge, banned, sweep>>

(* A request of a signed-in guest: the ban is checked with the cookie.     *)
Arrive(r, g, place) ==
    /\ req[r] = Free
    /\ cookie[g]
    /\ ~banned[g]
    /\ req' = [req EXCEPT ![r] = At(place, g)]
    /\ UNCHANGED <<conn, idle, reserved, gauge, code, cookie, banned, sweep>>

(* _open_guest takes the lock.  No session: only an action may open one,   *)
(* and only in a seat.                                                     *)
Reopen(r) ==
    LET g == req[r].guest
        opens == req[r].at = "act" /\ SlotFree(g, NoAddress)
    IN  /\ req[r].at \in {"act", "poll"}
        /\ GuestLockFree
        /\ conn[g] = "none"
        /\ IF opens THEN Reserve(g, NoAddress) /\ Go(r, "open")
                    ELSE UNCHANGED reserved /\ Done(r)
        /\ UNCHANGED <<conn, idle, gauge, code, cookie, banned, sweep>>

UseTouching(r) ==
    LET g == req[r].guest
    IN  /\ req[r].at \in {"act", "poll"}
        /\ GuestLockFree
        /\ conn[g] = "up"
        /\ idle' = [idle EXCEPT ![g] = FALSE]
        /\ Done(r)
        /\ UNCHANGED <<conn, reserved, gauge, code, cookie, banned, sweep>>

(* A live session is used; an action also restarts the idle clock (_touch).*)
Use(r) ==
    LET g == req[r].guest
    IN  /\ req[r].at \in {"act", "poll"}
        /\ GuestLockFree
        /\ conn[g] = "up"
        /\ idle' = IF req[r].at = "act" THEN [idle EXCEPT ![g] = FALSE] ELSE idle
        /\ Done(r)
        /\ UNCHANGED <<conn, reserved, gauge, code, cookie, banned, sweep>>

(* A stale session is closed first, whoever asks (get_or_open).            *)
Evict(r) ==
    LET g == req[r].guest
    IN  /\ req[r].at \in {"act", "poll"}
        /\ GuestLockFree
        /\ conn[g] = "stale"
        /\ Close(g)
        /\ Go(r, "evict")
        /\ UNCHANGED <<code, cookie, banned, sweep>>

Evicted(r) ==
    /\ req[r].at = "evict"
    /\ Go(r, "open")
    /\ UNCHANGED <<conn, idle, reserved, gauge, code, cookie, banned, sweep>>

(* The connection is up and initialised: it is registered, the reservation *)
(* consumed and the idle clock started.                                    *)
Opened(r) ==
    LET g == req[r].guest
    IN  /\ req[r].at = "open"
        /\ IF conn[g] = "none"
           THEN /\ conn' = [conn EXCEPT ![g] = "up"]
                /\ idle' = [idle EXCEPT ![g] = FALSE]
                /\ reserved' = [reserved EXCEPT ![g] = NotReserved]
                /\ gauge' = gauge + 1
           ELSE UNCHANGED <<conn, idle, reserved, gauge>>
        /\ Done(r)
        /\ UNCHANGED <<code, cookie, banned, sweep>>

(* The connection fails, or the request is cancelled: release_guest.       *)
OpenFailed(r) ==
    /\ req[r].at \in {"evict", "open"}
    /\ reserved' = [reserved EXCEPT ![req[r].guest] = NotReserved]
    /\ Done(r)
    /\ UNCHANGED <<conn, idle, gauge, code, cookie, banned, sweep>>

(* post_guest_logout closes without the lock, and after the disconnect     *)
(* releases the reservation once more; the answer deletes the cookie.      *)
BeginLogout(r, g) ==
    /\ req[r] = Free
    /\ cookie[g]
    /\ ~banned[g]
    /\ Close(g)
    /\ req' = [req EXCEPT ![r] = At("leave", g)]
    /\ UNCHANGED <<code, cookie, banned, sweep>>

Logout(r) ==
    LET g == req[r].guest
    IN  /\ req[r].at = "leave"
        /\ reserved' = [reserved EXCEPT ![g] = NotReserved]
        /\ cookie' = [cookie EXCEPT ![g] = FALSE]
        /\ Done(r)
        /\ UNCHANGED <<conn, idle, gauge, code, banned, sweep>>

-----------------------------------------------------------------------------
(* The IRC server closes the connection.                                   *)
Drop(g) ==
    /\ conn[g] = "up"
    /\ conn' = [conn EXCEPT ![g] = "stale"]
    /\ UNCHANGED <<idle, reserved, gauge, code, cookie, banned, req, sweep>>

(* A reservation runs out (GUEST_RESERVATION_S).                           *)
Expire(g) ==
    /\ reserved[g] # NotReserved
    /\ reserved' = [reserved EXCEPT ![g] = NotReserved]
    /\ UNCHANGED <<conn, idle, gauge, code, cookie, banned, req, sweep>>

(* Time passes without an action of the guest, and the next sweep closes.  *)
GoIdle(g) ==
    /\ conn[g] # "none"
    /\ ~idle[g]
    /\ idle' = [idle EXCEPT ![g] = TRUE]
    /\ UNCHANGED <<conn, reserved, gauge, code, cookie, banned, req, sweep>>

ReapIdle(g) ==
    /\ conn[g] # "none"
    /\ idle[g]
    /\ Close(g)
    /\ UNCHANGED <<code, cookie, banned, req, sweep>>

Ban(g) ==
    /\ banned' = [banned EXCEPT ![g] = ~@]
    /\ UNCHANGED <<conn, idle, reserved, gauge, code, cookie, req, sweep>>

SweepFindsUp(g) ==
    /\ sweep = NoGuest
    /\ conn[g] = "up"
    /\ banned[g]
    /\ sweep' = g
    /\ UNCHANGED <<conn, idle, reserved, gauge, code, cookie, banned, req>>

(* The ban sweep reads the store in a thread, then closes.  An entry that  *)
(* went in the meantime is closed a second time, which does no more than   *)
(* drop a reservation, as Expire does.                                     *)
SweepFinds(g) ==
    /\ sweep = NoGuest
    /\ conn[g] # "none"
    /\ banned[g]
    /\ sweep' = g
    /\ UNCHANGED <<conn, idle, reserved, gauge, code, cookie, banned, req>>

SweepCloses ==
    /\ sweep # NoGuest
    /\ Close(sweep)
    /\ sweep' = NoGuest
    /\ UNCHANGED <<code, cookie, banned, req>>

Begin(r) ==
    \E g \in Guests :
        \/ \E a \in Addresses : BeginEnter(r, g, a)
        \/ \E place \in {"act", "poll"} : Arrive(r, g, place)
        \/ BeginLogout(r, g)

Proceed(r) ==
    \/ Enter(r)
    \/ Reopen(r)
    \/ Use(r)
    \/ Evict(r)
    \/ Evicted(r)
    \/ Opened(r)
    \/ OpenFailed(r)
    \/ Logout(r)

Environment ==
    \E g \in Guests : MailCode(g) \/ Drop(g) \/ Expire(g) \/ GoIdle(g) \/ Ban(g)

Sweeper ==
    \/ \E g \in Guests : ReapIdle(g) \/ SweepFinds(g)
    \/ SweepCloses

Next ==
    \/ \E r \in Reqs : Begin(r) \/ Proceed(r)
    \/ Environment
    \/ Sweeper

Spec == Init /\ [][Next]_vars

(* Awaited calls return (an open within the 5 s welcome timeout),          *)
(* reservations run out, and the sweeper runs every 30 s: it reaches a     *)
(* guest who stays idle, and every guest who is again and again banned and *)
(* in (the one sweep step serves all guests in turn).                      *)
Fairness ==
    /\ \A r \in Reqs : WF_vars(Proceed(r))
    /\ \A g \in Guests : WF_vars(Expire(g))
    /\ \A g \in Guests : WF_vars(ReapIdle(g)) /\ SF_vars(SweepFinds(g))
    /\ WF_vars(SweepCloses)

FairSpec == Spec /\ Fairness
-----------------------------------------------------------------------------
(* The state is well typed.                                                *)
TypeOK ==
    /\ conn \in [Guests -> Conns]
    /\ idle \in [Guests -> BOOLEAN]
    /\ reserved \in [Guests -> Addresses \union {NoAddress, NotReserved}]
    /\ gauge \in Nat
    /\ code \in [Guests -> BOOLEAN]
    /\ cookie \in [Guests -> BOOLEAN]
    /\ banned \in [Guests -> BOOLEAN]
    /\ req \in [Reqs -> Request]
    /\ sweep \in Guests \union {NoGuest}

(* No more than MaxGuests guests are in or about to come in (c24), however *)
(* verifications, reopens, logouts, sweeps and expiries interleave.        *)
SeatLimit == Cardinality(Active) <= MaxGuests

(* The seats implement the abstract guest limit.                           *)
Limit == INSTANCE Seats WITH held <- Active
ImplementsSeats == Limit!Spec

(* One address never holds more pending seats than its cap (t12).          *)
AddressCap == \A a \in Addresses : Cardinality(Pending(a)) <= MaxPending

(* The gauge is the number of open guest sessions, whichever of the many   *)
(* ways in and out a session takes, and with a close during an open.       *)
GaugeExact == gauge = Cardinality(Open)

(* A banned guest is put out for good (o15), also when the ban arrives     *)
(* while the guest's verification or connection is under way.              *)
BannedLeave ==
    \A g \in Guests : <>[]banned[g] => <>[](g \notin Active)

(* A guest who stops acting until the idle time is over is signed off,     *)
(* although a forgotten tab keeps polling (c28), as long as the IRC server *)
(* stays up: a poll that finds its connection dropped opens another and    *)
(* restarts the idle clock.                                                *)
Acts(g) ==
    \/ \E r \in Reqs :
          \/ \E a \in Addresses : BeginEnter(r, g, a)
          \/ Arrive(r, g, "act")
    \/ Drop(g)

ForgottenTab ==
    \A g \in Guests :
        WF_vars(GoIdle(g)) /\ <>[][~Acts(g)]_vars => <>[](g \notin Active)
=============================================================================
