------------------------------ MODULE Registry ------------------------------
(***************************************************************************)
(* One approved person's IRC connections: SessionRegistry.get_or_open,     *)
(* close and retire, the record of which app session opened a connection   *)
(* (app_session.LINKS), and everything that closes connections behind a    *)
(* request's back: renames, sign-outs, password changes and the sweeps.    *)
(*                                                                         *)
(* The person has a mesh connection and a Guest-view (sandbox) one, and    *)
(* several browsers, each with its own app session.  People do not share   *)
(* connections, so one person is enough; the other people in a sweep are   *)
(* the time the sweep may take between two of its steps.                   *)
(*                                                                         *)
(* A step is the code between two awaits.  A request is in one of these    *)
(* places:                                                                 *)
(*    ask    identified, about to look for its connection                  *)
(*    evict  awaits the disconnect of the connection it closed             *)
(*    wait   awaits the key's lock                                         *)
(*    open   holds the lock and awaits the connection it opens             *)
(***************************************************************************)
EXTENDS Naturals

CONSTANTS
    Backends,
    Sandbox,     \* the backend whose dead connections are evicted
    Browsers,    \* app sessions, each used for one sign-in
    NoBrowser,   \* a request signed in by an Access JWT, not an app session
    Reqs,        \* requests in flight
    NoEntry,     \* no registry entry
    MaxRenames   \* bound on renames

ASSUME RegistryOK ==
    /\ Sandbox \in Backends
    /\ NoBrowser \notin Browsers
    /\ MaxRenames \in Nat

VARIABLES
    nick,      \* the person's nickname, as the number of the last rename
    approved,  \* the person's state in the access store
    browser,   \* the app session: new, live, or ended
    entry,     \* the registry
    link,      \* LINKS: the app session a connection was opened for
    req,       \* the requests in flight
    renaming,  \* the connections an admin's rename still has to retire
    stale,     \* the nickname sweep's findings, still to retire
    ending,    \* an end_session or end_sessions_for_email under way
    check,     \* the app-session sweep's snapshot of LINKS, still to check
    lapsed     \* its findings, still to close

vars == <<nick, approved, browser, entry, link, req, renaming, stale,
          ending, check, lapsed>>

Opener == Browsers \union {NoBrowser}
Nick == 0 .. MaxRenames

(* A connection: its nickname, whether the socket is dead, the request     *)
(* that opened it, and the browsers whose first request it answered.       *)
Connection == [nick : Nick, dead : BOOLEAN, by : Reqs, for : SUBSET Opener]
Places == {"free", "ask", "evict", "wait", "open"}
Request == [at : Places, backend : Backends, browser : Opener, nick : Nick]
FreeReq == [at |-> "free", backend |-> Sandbox, browser |-> NoBrowser, nick |-> 0]
Ending == [at : {"free", "delete", "close"}, who : SUBSET Browsers, left : SUBSET Backends]
FreeEnding == [at |-> "free", who |-> {}, left |-> {}]

Done(r) == req' = [req EXCEPT ![r] = FreeReq]
Go(r, place) == req' = [req EXCEPT ![r].at = place]

(* SessionRegistry.close up to its await, on a set of entries; retire      *)
(* calls its hook first, which forgets the link.                           *)
Close(B) == entry' = [b \in Backends |-> IF b \in B THEN NoEntry ELSE entry[b]]
Unlink(B) == link' = [b \in Backends |-> IF b \in B THEN NoBrowser ELSE link[b]]
Retire(b) == Unlink({b}) /\ Close({b})

(* Slips the properties are tried against, each ahead of the definition it *)
(* stands for: there is no lock per key; a lapsed app session is not an    *)
(* ended one; dead connections are not stale.                              *)
NoKeyLock(b) == TRUE

EndedByRemoval(d) == ~approved

(* note_registry_open for a request that did not find its connection open; *)
(* a JWT request's NoBrowser drops the link.                               *)
NoteOpen(r) == link' = [link EXCEPT ![req[r].backend] = req[r].browser]

KeyLockFree(b) == \A r \in Reqs : ~(req[r].at = "open" /\ req[r].backend = b)

(* Has the app session ended, or its person lost the approval?             *)
Ended(d) == browser[d] # "live" \/ ~approved

Init ==
    /\ nick = 0
    /\ approved = TRUE
    /\ browser = [d \in Browsers |-> "new"]
    /\ entry = [b \in Backends |-> NoEntry]
    /\ link = [b \in Backends |-> NoBrowser]
    /\ req = [r \in Reqs |-> FreeReq]
    /\ renaming = {}
    /\ stale = {}
    /\ ending = FreeEnding
    /\ check = {}
    /\ lapsed = {}

closers == <<renaming, stale, ending, check, lapsed>>
person == <<nick, approved, browser>>
-----------------------------------------------------------------------------
(* Requests.                                                               *)

(* The middleware identifies the person: approved, and with the nickname   *)
(* the store gives now.                                                    *)
Arrive(r, b, d) ==
    /\ req[r] = FreeReq
    /\ approved
    /\ d \in Browsers => browser[d] = "live"
    /\ req' = [req EXCEPT ![r] = [at |-> "ask", backend |-> b, browser |-> d, nick |-> nick]]
    /\ UNCHANGED <<person, entry, link, closers>>

(* The first lines of get_or_open.                                         *)
Reuse(r) ==
    LET b == req[r].backend
    IN  /\ req[r].at = "ask"
        /\ entry[b] # NoEntry
        /\ entry[b].nick = req[r].nick
        /\ b = Sandbox => ~entry[b].dead
        /\ Done(r)
        /\ UNCHANGED <<person, entry, link, closers>>

RetireRenamed(r) ==
    LET b == req[r].backend
    IN  /\ req[r].at = "ask"
        /\ entry[b] # NoEntry
        /\ entry[b].nick # req[r].nick
        /\ Retire(b)
        /\ Go(r, "evict")
        /\ UNCHANGED <<person, closers>>

EvictDead(r) ==
    LET b == req[r].backend
    IN  /\ req[r].at = "ask"
        /\ entry[b] # NoEntry
        /\ entry[b].nick = req[r].nick
        /\ b = Sandbox
        /\ entry[b].dead
        /\ Close({b})
        /\ Go(r, "evict")
        /\ UNCHANGED <<person, link, closers>>

Queue(r) ==
    /\ \/ req[r].at = "evict"
       \/ req[r].at = "ask" /\ entry[req[r].backend] = NoEntry
    /\ Go(r, "wait")
    /\ UNCHANGED <<person, entry, link, closers>>

(* With the lock: somebody else's connection will do, else open one.       *)
Share(r) ==
    LET b == req[r].backend
    IN  /\ req[r].at = "wait"
        /\ KeyLockFree(b)
        /\ entry[b] # NoEntry
        /\ entry' = [entry EXCEPT ![b].for = @ \union {req[r].browser}]
        /\ NoteOpen(r)
        /\ Done(r)
        /\ UNCHANGED <<person, closers>>

Connect(r) ==
    /\ req[r].at = "wait"
    /\ KeyLockFree(req[r].backend)
    /\ entry[req[r].backend] = NoEntry
    /\ Go(r, "open")
    /\ UNCHANGED <<person, entry, link, closers>>

Connected(r) ==
    /\ req[r].at = "open"
    /\ entry' = [entry EXCEPT
            ![req[r].backend] = [nick |-> req[r].nick, dead |-> FALSE, by |-> r,
                                 for |-> {req[r].browser}]]
    /\ NoteOpen(r)
    /\ Done(r)
    /\ UNCHANGED <<person, closers>>

ConnectFailed(r) ==
    /\ req[r].at = "open"
    /\ Done(r)
    /\ UNCHANGED <<person, entry, link, closers>>

-----------------------------------------------------------------------------
(* The person.                                                             *)

SignIn(d) ==
    /\ approved
    /\ browser[d] = "new"
    /\ browser' = [browser EXCEPT ![d] = "live"]
    /\ UNCHANGED <<nick, approved, entry, link, req, closers>>

(* An app session runs out.                                                *)
Lapse(d) ==
    /\ browser[d] = "live"
    /\ browser' = [browser EXCEPT ![d] = "ended"]
    /\ UNCHANGED <<nick, approved, entry, link, req, closers>>

(* Removed, or approved again, by an admin or the command line.            *)
SetApproved ==
    /\ approved' = ~approved
    /\ UNCHANGED <<nick, browser, entry, link, req, closers>>

(* Renamed by the command line, or by an admin, who also has the           *)
(* connections retired, one after the other (close_user_connections).      *)
Rename ==
    /\ nick < MaxRenames
    /\ nick' = nick + 1
    /\ renaming' \in {renaming, Backends}
    /\ UNCHANGED <<approved, browser, entry, link, req, stale, ending, check, lapsed>>

RetireRenaming(b) ==
    /\ b \in renaming
    /\ Retire(b)
    /\ renaming' = renaming \ {b}
    /\ UNCHANGED <<person, req, stale, ending, check, lapsed>>

(* A logout ends one app session, a new password or a removal all of them. *)
(* The rows go in a thread; the links are looked up afterwards, and the    *)
(* first connection is closed at once, the others one await later.         *)
EndSessions(D) ==
    /\ ending = FreeEnding
    /\ ending' = [at |-> "delete", who |-> D, left |-> {}]
    /\ browser' = [d \in Browsers |->
                      IF d \in D /\ browser[d] = "live" THEN "ended" ELSE browser[d]]
    /\ UNCHANGED <<nick, approved, entry, link, req, renaming, stale, check, lapsed>>

Logout(d) == approved /\ browser[d] = "live" /\ EndSessions({d})

CloseSome(B) ==
    IF B = {}
    THEN UNCHANGED <<entry, link>> /\ ending' = FreeEnding
    ELSE \E b \in B :
            /\ Retire(b)
            /\ ending' = [at |-> "close", who |-> ending.who, left |-> B \ {b}]

CloseLinks ==
    /\ \/ /\ ending.at = "delete"
          /\ CloseSome({b \in Backends : link[b] \in ending.who})
       \/ /\ ending.at = "close"
          /\ CloseSome(ending.left)
    /\ UNCHANGED <<person, req, renaming, stale, check, lapsed>>

-----------------------------------------------------------------------------
(* The rest of the world, and the sweeps.                                  *)

(* The server goes away.                                                   *)
Drop(b) ==
    /\ entry[b] # NoEntry
    /\ ~entry[b].dead
    /\ entry' = [entry EXCEPT ![b].dead = TRUE]
    /\ UNCHANGED <<person, link, req, closers>>

(* A Guest view without an open tab is reaped.                             *)
ReapView ==
    /\ entry[Sandbox] # NoEntry
    /\ Close({Sandbox})
    /\ UNCHANGED <<person, link, req, closers>>

FindStaleAlive ==
    /\ stale = {}
    /\ approved
    /\ stale' = {b \in Backends :
                    entry[b] # NoEntry /\ ~entry[b].dead /\ entry[b].nick # nick}
    /\ stale' # {}
    /\ UNCHANGED <<person, entry, link, req, renaming, ending, check, lapsed>>

(* nickname.sweep_once: the stale entries are found in a thread, and then  *)
(* retired one after the other.  A person who is not approved is skipped.  *)
FindStale ==
    /\ stale = {}
    /\ approved
    /\ stale' = {b \in Backends : entry[b] # NoEntry /\ entry[b].nick # nick}
    /\ stale' # {}
    /\ UNCHANGED <<person, entry, link, req, renaming, ending, check, lapsed>>

RetireStale(b) ==
    /\ b \in stale
    /\ Retire(b)
    /\ stale' = stale \ {b}
    /\ UNCHANGED <<person, req, renaming, ending, check, lapsed>>

(* app_session.sweep_once: a snapshot of the links, each looked up in a    *)
(* thread; links without an entry are dropped; then the links of ended app *)
(* sessions are closed, one after the other.                               *)
StartCheck ==
    /\ check = {}
    /\ lapsed = {}
    /\ check' = {<<b, link[b]>> : b \in {x \in Backends : link[x] # NoBrowser}}
    /\ check' # {}
    /\ UNCHANGED <<person, entry, link, req, renaming, stale, ending, lapsed>>

CheckLink(b, d) ==
    /\ <<b, d>> \in check
    /\ check' = check \ {<<b, d>>}
    /\ IF entry[b] = NoEntry
       THEN Unlink({b}) /\ UNCHANGED lapsed
       ELSE /\ lapsed' = IF Ended(d) THEN lapsed \union {b} ELSE lapsed
            /\ UNCHANGED link
    /\ UNCHANGED <<person, entry, req, renaming, stale, ending>>

CloseLapsed(b) ==
    /\ check = {}
    /\ b \in lapsed
    /\ Unlink({b})
    /\ Close({b})
    /\ lapsed' = lapsed \ {b}
    /\ UNCHANGED <<person, req, renaming, stale, ending, check>>

-----------------------------------------------------------------------------
Proceed(r) ==
    \/ Reuse(r)
    \/ RetireRenamed(r)
    \/ EvictDead(r)
    \/ Queue(r)
    \/ Share(r)
    \/ Connect(r)
    \/ Connected(r)
    \/ ConnectFailed(r)

Person ==
    \/ \E d \in Browsers : SignIn(d) \/ Lapse(d) \/ Logout(d)
    \/ EndSessions(Browsers)
    \/ SetApproved
    \/ Rename

Closers ==
    \/ CloseLinks
    \/ \E b \in Backends : RetireRenaming(b) \/ RetireStale(b) \/ CloseLapsed(b)
    \/ \E b \in Backends, d \in Browsers : CheckLink(b, d)

Next ==
    \/ \E r \in Reqs, b \in Backends, d \in Opener : Arrive(r, b, d)
    \/ \E r \in Reqs : Proceed(r)
    \/ Person
    \/ Closers
    \/ \E b \in Backends : Drop(b)
    \/ ReapView
    \/ FindStale
    \/ StartCheck

Spec == Init /\ [][Next]_vars

(* Awaits return and the sweeps run every 30 s.                            *)
Fairness ==
    /\ \A r \in Reqs : WF_vars(Proceed(r))
    /\ WF_vars(CloseLinks)
    /\ \A b \in Backends :
          /\ WF_vars(RetireRenaming(b)) /\ WF_vars(RetireStale(b))
          /\ WF_vars(CloseLapsed(b))
          /\ \A d \in Browsers : WF_vars(CheckLink(b, d))
    /\ SF_vars(FindStale)
    /\ SF_vars(StartCheck)

FairSpec == Spec /\ Fairness
-----------------------------------------------------------------------------
(* The state is well typed.                                                *)
TypeOK ==
    /\ nick \in Nick
    /\ approved \in BOOLEAN
    /\ browser \in [Browsers -> {"new", "live", "ended"}]
    /\ entry \in [Backends -> Connection \union {NoEntry}]
    /\ link \in [Backends -> Opener]
    /\ req \in [Reqs -> Request]
    /\ renaming \subseteq Backends
    /\ stale \subseteq Backends
    /\ ending \in Ending
    /\ check \subseteq Backends \X Browsers
    /\ lapsed \subseteq Backends

(* A registered connection is closed before another takes its place, so no *)
(* connection is ever left open and forgotten, however requests wait for   *)
(* each other and connections are closed during an open.                   *)
NoneForgotten ==
    [][\A b \in Backends :
          entry[b] # NoEntry /\ entry'[b] # NoEntry => entry'[b].by = entry[b].by]_vars

(* A connection is linked only to a browser that it was opened for or that *)
(* waited for it: ending any other app session never looks it up.          *)
LinkNamesUser ==
    \A b \in Backends :
        entry[b] # NoEntry /\ link[b] # NoBrowser => link[b] \in entry[b].for

(* A connection opened for an app session does not outlive it, also when   *)
(* it was being opened while the app session ended (c29).                  *)
EndedClosed ==
    \A d \in Browsers :
        <>[](browser[d] = "ended" =>
                \A b \in Backends : link[b] = d => entry[b] = NoEntry)

(* After the last rename every connection of an approved person comes to   *)
(* have the new nickname or is closed, also one opened by a request that   *)
(* had read the old one.                                                   *)
NickSettles ==
    <>[]approved =>
        <>[](\A b \in Backends : entry[b] # NoEntry => entry[b].nick = nick)
=============================================================================
