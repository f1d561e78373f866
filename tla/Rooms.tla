------------------------------- MODULE Rooms --------------------------------
(***************************************************************************)
(* Rooms of an approved person under grants that change while their        *)
(* session is open (Session of session.py, access.py, the read cache of    *)
(* access_store.py, join_channel and part_channel of irc/transport.py).    *)
(*                                                                         *)
(* The grants are rows of a database that other processes write to.  Every *)
(* check reads them through a cache, valid while the database file's       *)
(* change counter stands still.  The event loop runs one stretch of code   *)
(* at a time, up to its next await; a writer may come between the reading  *)
(* of the counter and that of the rows, and between any two checks.        *)
(*                                                                         *)
(* One session, and a person who is approved and holds "write" grants.  A  *)
(* sweep reads once for all rooms.  What is written to the IRC server is   *)
(* applied in order, so it is applied at once; the server's lines wait.    *)
(***************************************************************************)
EXTENDS Integers, Sequences, FiniteSets

CONSTANTS
    Room,
    None,
    Ttl,          \* READ_CACHE_TTL_S
    Inbound,      \* lines of the server that may wait
    MaxNow,       \* bound on time
    MaxWrites,    \* bound on write transactions
    MaxCommands   \* bound on commands

ASSUME RoomsOK ==
    /\ None \notin Room /\ None \notin Nat
    /\ Ttl \in Nat \ {0}
    /\ {Inbound, MaxNow, MaxWrites, MaxCommands} \subseteq Nat

VARIABLES
    now,
    grants,     \* the rooms committed rows grant
    counter,    \* the change counter in the file's header
    journal,    \* the write transaction: "none", "begun", "writing" (locked,
                \* the header written), or "hot", after the writer died
    pending,    \* the grants it will commit
    cache,      \* AccessStore._read_cache
    swept,      \* Session._swept_stamp
    joined,     \* Session.joined_channels
    current,    \* Session.current_channel
    inRoom,     \* the rooms the connection is in, at the server
    inbound,    \* the rooms of the lines that wait to be read
    parting,    \* rooms _schedule_part has a task for
    loop,       \* the stretch that runs: who, the line's room, the stamp
    cmd,        \* the command that holds the exec lock
    writes, commands,
    cut,        \* history: a transaction died half way
    granted,    \* history: when each room was last granted
    leaked      \* history: rooms shown or written to without leave

store == <<grants, counter, journal, pending, writes, cut, granted>>
session == <<swept, joined, current, inRoom, parting>>
vars == <<now, store, cache, session, inbound, loop, cmd, commands, leaked>>

Free == [at |-> "free", room |-> None, stamp |-> None, since |-> {}]
NoCommand == [at |-> "idle", kind |-> "chat", room |-> None, view |-> None,
              since |-> {}]
Running(at) == loop.at = at /\ loop.stamp # None

Init ==
    /\ now = 0
    /\ grants \in SUBSET Room
    /\ counter = 0
    /\ journal = "none"
    /\ pending = {}
    /\ cache = None
    /\ swept = None
    /\ joined = {}
    /\ current = None
    /\ inRoom = {}
    /\ inbound = <<>>
    /\ parting = {}
    /\ loop = Free
    /\ cmd = NoCommand
    /\ writes = 0
    /\ commands = 0
    /\ cut = FALSE
    /\ granted = [r \in Room |-> IF r \in grants THEN 0 ELSE None]
    /\ leaked = {}

Tick ==
    /\ now < MaxNow
    /\ now' = now + 1
    /\ granted' = [r \in Room |-> IF r \in grants THEN now' ELSE granted[r]]
    /\ UNCHANGED <<grants, counter, journal, pending, writes, cut, cache,
                   session, inbound, loop, cmd, commands, leaked>>
-----------------------------------------------------------------------------
(* A writer: a lens or a command line.  _tx of this process clears the     *)
(* cache.                                                                  *)
Begin ==
    /\ journal = "none"
    /\ writes < MaxWrites
    /\ writes' = writes + 1
    /\ journal' = "begun"
    /\ pending' \in SUBSET Room
    /\ cache' \in {cache, None}
    /\ UNCHANGED <<now, grants, counter, cut, granted, session, inbound, loop,
                   cmd, commands, leaked>>

(* The commit locks readers out and writes the pages, the header first.    *)
Flush ==
    /\ journal = "begun"
    /\ journal' = "writing"
    /\ counter' = counter + 1
    /\ UNCHANGED <<now, grants, pending, writes, cut, granted, cache, session,
                   inbound, loop, cmd, commands, leaked>>

Commit ==
    /\ journal = "writing"
    /\ journal' = "none"
    /\ grants' = pending
    /\ pending' = {}
    /\ granted' = [r \in Room |-> IF r \in pending THEN now ELSE granted[r]]
    /\ loop' = [loop EXCEPT !.since = @ \cup pending]
    /\ cmd' = [cmd EXCEPT !.since = @ \cup pending]
    /\ UNCHANGED <<now, counter, writes, cut, cache, session, inbound,
                   commands, leaked>>

(* The writer dies; the next reader will put the old pages back.           *)
Die ==
    /\ journal \in {"begun", "writing"}
    /\ journal' = IF journal = "begun" THEN "none" ELSE "hot"
    /\ pending' = {}
    /\ cut' = (cut \/ journal = "writing")
    /\ UNCHANGED <<now, grants, counter, writes, granted, cache, session,
                   inbound, loop, cmd, commands, leaked>>
-----------------------------------------------------------------------------
(* _stamp: the header is read without a lock.                              *)
TakeStamp ==
    /\ loop.at # "free" /\ loop.stamp = None
    /\ loop' = [loop EXCEPT !.stamp = counter]
    /\ UNCHANGED <<now, store, cache, session, inbound, cmd, commands, leaked>>

(* A slip: an entry serves for its lifetime, whatever was written since.   *)
HitAnyStamp == cache # None /\ now < cache.until

(* _cached, with the stamp that was taken.                                 *)
Hit == cache # None /\ cache.stamp = loop.stamp /\ now < cache.until

(* The answer is rooms.  A locked database answers with none in the end,   *)
(* and nothing is cached.                                                  *)
Read(rooms) ==
    \/ /\ Hit
       /\ rooms = cache.rooms
       /\ UNCHANGED <<cache, counter, journal>>
    \/ /\ ~Hit /\ journal = "writing"
       /\ rooms = {}
       /\ UNCHANGED <<cache, counter, journal>>
    \/ /\ ~Hit /\ journal # "writing"
       /\ rooms = grants
       /\ cache' = [stamp |-> loop.stamp, rooms |-> grants, until |-> now + Ttl]
       /\ IF journal = "hot"
          THEN counter' = counter - 1 /\ journal' = "none"
          ELSE UNCHANGED <<counter, journal>>

(* _enforce_revocations                                                    *)
Sweep(rooms) ==
    /\ joined' = joined \cap rooms
    /\ parting' = parting \cup (joined \ rooms)
    /\ current' = IF current \in rooms THEN current ELSE None

(* What is shown or sent was granted at some time since its stretch or     *)
(* command began; a dead writer may give an entry the stamp of a later     *)
(* write, which its lifetime then bounds when the check is made.           *)
Excused == {r \in Room : cut /\ granted[r] # None /\ now - granted[r] <= Ttl}
Shows(rooms, since) == leaked' = leaked \cup (rooms \ (since \cup Excused))

Rest == UNCHANGED <<now, grants, pending, writes, cut, granted, commands>>
-----------------------------------------------------------------------------
(* Somebody speaks in a room the connection is in.                         *)
Say(r) ==
    /\ r \in inRoom
    /\ Len(inbound) < Inbound
    /\ inbound' = Append(inbound, r)
    /\ Rest
    /\ UNCHANGED <<counter, journal, cache, session, loop, cmd, leaked>>

(* dispatch: one stamp for all the checks of a line, and a sweep only if   *)
(* it is not the one swept last.                                           *)
LineArrives ==
    /\ loop.at = "free"
    /\ inbound # <<>>
    /\ inbound' = Tail(inbound)
    /\ loop' = [at |-> IF counter = swept THEN "check" ELSE "sweep",
                room |-> Head(inbound), stamp |-> counter, since |-> grants]
    /\ swept' = counter
    /\ Rest
    /\ UNCHANGED <<counter, journal, cache, joined, current, inRoom, parting,
                   cmd, leaked>>

LineSweeps ==
    /\ Running("sweep")
    /\ \E rooms \in SUBSET Room : Read(rooms) /\ Sweep(rooms)
    /\ loop' = [loop EXCEPT !.at = "check"]
    /\ Rest
    /\ UNCHANGED <<swept, inRoom, inbound, cmd, leaked>>

(* _dispatch_privmsg: a line of the active room is shown.                  *)
LineShown ==
    /\ Running("check")
    /\ \E rooms \in SUBSET Room :
        /\ Read(rooms)
        /\ IF loop.room \in rooms /\ loop.room = current
           THEN Shows({loop.room}, loop.since)
           ELSE UNCHANGED leaked
    /\ loop' = Free
    /\ Rest
    /\ UNCHANGED <<session, inbound, cmd>>

(* The task of _schedule_part.                                             *)
PartTask(r) ==
    /\ loop.at = "free"
    /\ r \in parting
    /\ parting' = parting \ {r}
    /\ inRoom' = inRoom \ {r}
    /\ Rest
    /\ UNCHANGED <<counter, journal, cache, swept, joined, current, inbound,
                   loop, cmd, leaked>>
-----------------------------------------------------------------------------
(* execute, in the exec lock: it sweeps first.                             *)
Execute ==
    /\ loop.at = "free"
    /\ cmd.at = "idle"
    /\ commands < MaxCommands
    /\ commands' = commands + 1
    /\ \E kind \in {"join", "part", "switch", "read", "chat"}, r \in Room :
        cmd' = [at |-> "enforce", kind |-> kind,
                room |-> IF kind = "chat" THEN None ELSE r,
                view |-> None, since |-> grants]
    /\ loop' = [Free EXCEPT !.at = "command"]
    /\ UNCHANGED <<now, store, cache, session, inbound, leaked>>

(* The command goes on within its stretch, or awaits.                      *)
GoesOn(at) == cmd' = [cmd EXCEPT !.at = at] /\ loop' = [loop EXCEPT !.stamp = None]
Awaits(at) == cmd' = [cmd EXCEPT !.at = at] /\ loop' = Free
Ends == cmd' = NoCommand /\ loop' = Free

(* A command whose room was found allowed goes on.                         *)
Checked(at, view) ==
    cmd' = [cmd EXCEPT !.at = at, !.view = view,
                       !.since = @ \cup (Excused \cap {cmd.room})]

(* The commands go on: _exec_part has nothing checked and writes its PART, *)
(* _exec_chat names the active room, _exec_switch wants a joined one.      *)
PartStarts ==
    /\ cmd.kind = "part"
    /\ inRoom' = inRoom \ {cmd.room}
    /\ Awaits("written")

ChatStarts ==
    /\ cmd.kind = "chat"
    /\ IF current' = None
       THEN Ends
       ELSE /\ cmd' = [cmd EXCEPT !.at = "may", !.room = current']
            /\ loop' = [loop EXCEPT !.stamp = None]
    /\ UNCHANGED inRoom

RoomNamed ==
    /\ cmd.kind \in {"join", "switch", "read"}
    /\ IF cmd.kind = "switch" /\ cmd.room \notin joined'
       THEN Ends
       ELSE GoesOn("may")
    /\ UNCHANGED inRoom

Enforce ==
    /\ Running("command") /\ cmd.at = "enforce"
    /\ \E rooms \in SUBSET Room : Read(rooms) /\ Sweep(rooms)
    /\ PartStarts \/ ChatStarts \/ RoomNamed
    /\ Rest
    /\ UNCHANGED <<swept, inbound, leaked>>

(* What each command does at once when it is allowed to.                   *)
JoinWrites ==
    /\ cmd.kind = "join"
    /\ inRoom' = inRoom \cup {cmd.room}
    /\ Checked("written", None)
    /\ loop' = Free
    /\ UNCHANGED <<current, leaked>>

Switches ==
    /\ cmd.kind = "switch"
    /\ current' = cmd.room
    /\ Checked("publish", None)
    /\ loop' = [loop EXCEPT !.stamp = None]
    /\ UNCHANGED <<inRoom, leaked>>

AsksHistory ==
    /\ cmd.kind = "read"
    /\ Checked("history", IF current = None THEN cmd.room ELSE current)
    /\ loop' = Free
    /\ UNCHANGED <<current, inRoom, leaked>>

SendsLine ==
    /\ cmd.kind = "chat"
    /\ Shows({cmd.room}, cmd.since)
    /\ Ends
    /\ UNCHANGED <<current, inRoom>>

(* _allowed                                                                *)
Allowed(rooms) == cmd.room \in rooms

Refused ==
    /\ Ends
    /\ UNCHANGED <<current, inRoom, leaked>>

May ==
    /\ Running("command") /\ cmd.at = "may"
    /\ \E rooms \in SUBSET Room :
        /\ Read(rooms)
        /\ IF Allowed(rooms)
           THEN JoinWrites \/ Switches \/ AsksHistory \/ SendsLine
           ELSE Refused
    /\ Rest
    /\ UNCHANGED <<swept, joined, parting, inbound>>

(* join and part go on once the line was written.                          *)
Written ==
    /\ loop.at = "free"
    /\ cmd.at = "written"
    /\ IF cmd.kind = "join"
       THEN joined' = joined \cup {cmd.room} /\ current' = cmd.room
       ELSE /\ joined' = joined \ {cmd.room}
            /\ current' = IF current = cmd.room THEN None ELSE current
    /\ loop' = [Free EXCEPT !.at = "command"]
    /\ cmd' = [cmd EXCEPT !.at = "publish"]
    /\ Rest
    /\ UNCHANGED <<counter, journal, cache, swept, inRoom, parting, inbound,
                   leaked>>

(* A slip: the sidebar is published as it is.                              *)
PublishUnswept ==
    /\ Running("command") /\ cmd.at = "publish"
    /\ Shows(joined, cmd.since)
    /\ IF cmd.kind = "part"
       THEN Ends
       ELSE /\ cmd' = [cmd EXCEPT !.at = "history", !.view = cmd.room]
            /\ loop' = Free
    /\ Rest
    /\ UNCHANGED <<counter, journal, cache, session, inbound>>

(* _publish_roster and _publish_info sweep, then name the joined rooms.    *)
Publish ==
    /\ Running("command") /\ cmd.at = "publish"
    /\ \E rooms \in SUBSET Room : Read(rooms) /\ Sweep(rooms)
    /\ Shows(joined', cmd.since)
    /\ IF cmd.kind = "part"
       THEN Ends
       ELSE /\ cmd' = [cmd EXCEPT !.at = "history", !.view = cmd.room]
            /\ loop' = Free
    /\ Rest
    /\ UNCHANGED <<swept, inRoom, inbound>>

(* _fetch_and_publish_history: the answer lands if its pane is still open. *)
History ==
    /\ loop.at = "free"
    /\ cmd.at = "history"
    /\ IF current = cmd.view
       THEN Shows({cmd.room}, cmd.since)
       ELSE UNCHANGED leaked
    /\ cmd' = NoCommand
    /\ Rest
    /\ UNCHANGED <<counter, journal, cache, session, inbound, loop>>

Line == LineArrives \/ LineSweeps \/ LineShown
Command == Enforce \/ May \/ Written \/ Publish \/ History

Next ==
    \/ Tick
    \/ Begin \/ Flush \/ Commit \/ Die
    \/ TakeStamp
    \/ \E r \in Room : Say(r) \/ PartTask(r)
    \/ Line
    \/ Execute
    \/ Command

Spec == Init /\ [][Next]_vars

(* The loop runs what is ready in the order it became so, and people go on *)
(* talking in some room the connection is in.                              *)
Fairness ==
    /\ WF_vars(TakeStamp)
    /\ WF_vars(Line)
    /\ SF_vars(Command)
    /\ SF_vars(\E r \in Room : PartTask(r))
    /\ SF_vars(\E r \in Room : Say(r))

FairSpec == Spec /\ Fairness
-----------------------------------------------------------------------------
(* Nothing of a room is shown, and nothing sent to it, unless it was       *)
(* granted at some moment since the line came in or the command began: no  *)
(* order of counter reads, row reads and commits serves a grant from the   *)
(* cache that was revoked before (_cached, dispatch, execute).  A writer   *)
(* that dies in its commit can lend its counter to the next write; an      *)
(* entry read in between outlives a revocation by its lifetime at most.    *)
NothingLeaks == leaked = {}

(* A revoked room is left, at the server too, once somebody speaks in it:  *)
(* whatever join is under way, and though only the first line after a      *)
(* change sweeps (_store_changed, _schedule_part).  Not promised after a   *)
(* writer died in its commit: the counter it lent was swept already.       *)
RevokedLeaves ==
    \A r \in Room :
        (r \in inRoom /\ r \notin grants)
            ~> (r \notin inRoom \/ r \in grants \/ cut)
=============================================================================
