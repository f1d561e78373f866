-------------------------------- MODULE Seats --------------------------------
(***************************************************************************)
(* What the guest limit promises: at most MaxGuests guests hold a seat, a  *)
(* seat is taken only while one is free, and a seat is given up for one    *)
(* guest at a time.  Who counts as a seat holder is SessionRegistry.       *)
(* active_guests: an open guest session or an unexpired reservation.       *)
(***************************************************************************)
EXTENDS FiniteSets, Naturals

CONSTANTS Guests, MaxGuests

VARIABLE held

Init == held = {}

Take(g) ==
    /\ g \notin held
    /\ Cardinality(held) < MaxGuests
    /\ held' = held \union {g}

Free(g) ==
    /\ g \in held
    /\ held' = held \ {g}

Next == \E g \in Guests : Take(g) \/ Free(g)

Spec == Init /\ [][Next]_held
=============================================================================
