------------------------------- MODULE Members -------------------------------
(***************************************************************************)
(* How a session learns who is in a room: the WHO queries over its IRC     *)
(* connection (Session._collect_until), the member list of the current     *)
(* room (refresh_roster) and the live mesh graph of all joined rooms       *)
(* (build_mesh_snapshot, _drain_mesh_refresh).                             *)
(*                                                                         *)
(* Three coroutines ask WHO:                                               *)
(*    roster  whoever runs the refresh loop of the member list             *)
(*    mesh    the task that drains requests for the mesh graph             *)
(*    exec    the command under the session's dispatch lock (/mesh, /who)  *)
(* Answers come over the connection in order, among the lines about people *)
(* who join and leave, and are told apart by the room alone.  A step is    *)
(* the code between two awaits.                                            *)
(*                                                                         *)
(* A room's membership is a number that grows with every change, and a     *)
(* list of members is the set of the numbers its rows were true at.  Not   *)
(* every change comes with a line: the server tells nobody of a bot that   *)
(* leaves or of a connection cut off, and the page polls for that.         *)
(***************************************************************************)
EXTENDS Naturals, Sequences

CONSTANTS
    LastRoom,  \* the joined rooms are 1..LastRoom, in the order they are asked
    MaxEvents, \* bound on what users and the server come up with, but for polls
    MaxUnread  \* bound on what is under way once a query has timed out

ASSUME MembersOK == LastRoom \in Nat \ {0} /\ MaxEvents \in Nat /\ MaxUnread \in Nat

VARIABLES
    cur,       \* current_channel; 0 is none
    view,      \* the named view, "chat" standing for all but "mesh"
    watching,  \* an event stream is attached
    connected, \* the IRC connection is up
    roster,    \* the member list, and the room it was asked for
    canvas,    \* the mesh graph last published
    asked,     \* roster tasks created and not yet started
    dirty,     \* _roster_dirty
    meshDirty, \* _mesh_dirty
    task,      \* the three coroutines
    queue,     \* the lock of every WHO key: its owner, then who waits
    buf,       \* the collect buffer of every WHO key
    up, down,  \* the connection, to and from the server
    members,   \* the server's membership of every room
    noted,     \* the membership at the last JOIN or PART of a room
    due,       \* history: the membership the list must not be older than
    late,      \* some query has run into QUERY_TIMEOUT
    events     \* what users and the server came up with so far

shown == <<cur, view, watching>>
net == <<connected, up, down, members, noted>>
wire == <<net, due>>
queries == <<queue, buf, late>>
membersVars ==
    <<shown, roster, canvas, asked, dirty, meshDirty, task, queries, wire, events>>

Rooms == 1..LastRoom
Procs == {"roster", "mesh", "exec"}
Rows == 0..MaxEvents
Lists == [Rooms -> SUBSET Rows]
NoLists == [r \in Rooms |-> {}]

(* new: created, not started; lock: wants the key's lock; sent: awaits the *)
(* end of the answer; answered: about to go on; history, refresh: a switch *)
(* awaits its backlog, or the refresh loop it runs itself.                 *)
Places == {"idle", "new", "lock", "sent", "answered", "history", "refresh"}

(* A coroutine asks for the list or the graph it shows, or for the nicks   *)
(* of one room (/who) or of all (/agents).                                 *)
Purposes == {"view", "who", "agents"}
Task == [at : Places, room : 0..LastRoom, got : Lists, for : Purposes]
Idle == [at |-> "idle", room |-> 0, got |-> NoLists, for |-> "view"]

Asking(r, got, for) == [at |-> "lock", room |-> r, got |-> got, for |-> for]

WireLine(kind, r, n) == [kind |-> kind, room |-> r, row |-> n]
Lines == [kind : {"join", "quit", "row", "end"}, room : Rooms, row : Rows]

MembersInit ==
    /\ cur = 0
    /\ view = "chat"
    /\ watching = FALSE
    /\ connected = TRUE
    /\ roster = [of |-> 0, rows |-> {}]
    /\ canvas = NoLists
    /\ asked = 0
    /\ dirty = FALSE
    /\ meshDirty = FALSE
    /\ task = [p \in Procs |-> Idle]
    /\ queue = [r \in Rooms |-> <<>>]
    /\ buf = NoLists
    /\ up = <<>>
    /\ down = <<>>
    /\ members = [r \in Rooms |-> 0]
    /\ noted = [r \in Rooms |-> 0]
    /\ due = 0
    /\ late = FALSE
    /\ events = 0

Event ==
    /\ events < MaxEvents
    /\ events' = events + 1

(* What a request for the list of room r has to bring.                     *)
Present(r) == IF r = 0 THEN 0 ELSE members[r]
-----------------------------------------------------------------------------
(* Slips the properties are tried against, each ahead of the definition it *)
(* stands for: a request during a refresh is dropped; WHO queries have no  *)
(* lock; no timeout.                                                       *)
AskRosterOnce(isRunning) == dirty \/ ~isRunning

AnyTurn(p) == TRUE

NeverOverdue(p) == FALSE

(* refresh_roster marks the list dirty whether or not a refresh is running.*)
AskRoster(isRunning) == TRUE

(* The drain loop goes round again for requests that came meanwhile.       *)
DrainAgain == meshDirty

(* Whose turn it is on the lock of the key p asks under.                   *)
MyTurn(p) == Head(queue[task[p].room]) = p

Overdue(p) == task[p].at = "sent"

(* Only after a timeout can queries and answers pile up.                   *)
Swamped(lines) == late /\ Len(lines) >= MaxUnread

Holds(r) == \E p \in Procs : task[p].room = r /\ task[p].at \in {"sent", "answered"}

(* _on_rpl_whoreply: only a staged buffer collects.                        *)
Collect(line) ==
    [buf EXCEPT ![line.room] = IF Holds(line.room) THEN @ \union {line.row} ELSE @]

-----------------------------------------------------------------------------
(* The rounds of the two loops.  Each is entered from several places.      *)

(* `while _roster_dirty` from its test to the next await: with `again` the *)
(* list is dirty.  q is the lock queues to join, ts the tasks so far.      *)
RosterRound(again, q, ts) ==
    LET asks == again /\ cur # 0 /\ connected
        done == IF ts["exec"].at = "refresh" THEN [ts EXCEPT !["exec"] = Idle] ELSE ts
    IN  /\ dirty' = FALSE
        /\ task' = IF asks THEN [ts EXCEPT !["roster"] = Asking(cur, NoLists, "view")]
                           ELSE [done EXCEPT !["roster"] = Idle]
        /\ queue' = IF asks THEN [q EXCEPT ![cur] = Append(@, "roster")] ELSE q

(* refresh_roster: the caller runs the loop, or leaves the work to the one *)
(* that does.                                                              *)
RefreshRoster(runs, leaves) ==
    LET isRunning == task["roster"].at # "idle"
    IN  IF isRunning
        THEN /\ dirty' = AskRoster(TRUE)
             /\ task' = leaves
             /\ UNCHANGED queue
        ELSE RosterRound(AskRoster(FALSE), queue, runs)

(* _recompute_and_publish_mesh from its start to the first await.          *)
StartBuild(p, q) ==
    IF connected
    THEN /\ task' = [task EXCEPT ![p] = Asking(1, NoLists, "view")]
         /\ queue' = [q EXCEPT ![1] = Append(@, p)]
         /\ UNCHANGED canvas
    ELSE /\ task' = [task EXCEPT ![p] = Idle]
         /\ queue' = q
         /\ canvas' = NoLists

(* A builder has the rows of its room: ask for the next, or publish.  The  *)
(* mesh task starts over when a request came meanwhile.                    *)
BuildOn(p, rows, q) ==
    LET r == task[p].room
        got == [task[p].got EXCEPT ![r] = rows]
        again == p = "mesh" /\ DrainAgain
    IN  IF r < LastRoom
        THEN /\ task' = [task EXCEPT ![p] = Asking(r + 1, got, "view")]
             /\ queue' = [q EXCEPT ![r + 1] = Append(@, p)]
             /\ UNCHANGED <<canvas, meshDirty>>
        ELSE /\ canvas' = IF again /\ ~connected THEN NoLists ELSE got
             /\ meshDirty' = IF p = "mesh" THEN FALSE ELSE meshDirty
             /\ IF again /\ connected
                THEN /\ task' = [task EXCEPT ![p] = Asking(1, NoLists, "view")]
                     /\ queue' = [q EXCEPT ![1] = Append(@, p)]
                ELSE /\ task' = [task EXCEPT ![p] = Idle]
                     /\ queue' = q

(* /who and /agents show what they got, which takes the view back to the   *)
(* chat, and leave list and graph alone.  A /who that fails shows nothing; *)
(* no other command runs, so nobody has moved the view meanwhile.          *)
NicksOn(p, ok, q) ==
    LET r == task[p].room
        more == task[p].for = "agents" /\ r < LastRoom
    IN  /\ view' = IF more \/ (task[p].for = "who" /\ ~ok) THEN view ELSE "chat"
        /\ IF more
           THEN /\ task' = [task EXCEPT ![p] = Asking(r + 1, NoLists, "agents")]
                /\ queue' = [q EXCEPT ![r + 1] = Append(@, p)]
           ELSE /\ task' = [task EXCEPT ![p] = Idle]
                /\ queue' = q

(* who() has returned rows to p, or failed: p leaves the lock and goes on. *)
(* A member list for a room the user has left is dropped.                  *)
Return(p, ok, rows) ==
    LET r == task[p].room
        left == [queue EXCEPT ![r] = Tail(@)]
    IN  /\ buf' = [buf EXCEPT ![r] = {}]
        /\ IF p = "roster"
           THEN /\ roster' = IF ok /\ r = cur THEN [of |-> r, rows |-> rows] ELSE roster
                /\ RosterRound(dirty, left, task)
                /\ UNCHANGED <<view, canvas, meshDirty>>
           ELSE /\ IF task[p].for = "view"
                   THEN BuildOn(p, rows, left) /\ UNCHANGED view
                   ELSE NicksOn(p, ok, left) /\ UNCHANGED <<canvas, meshDirty>>
                /\ UNCHANGED <<roster, dirty>>

-----------------------------------------------------------------------------
(* _collect_until.                                                         *)

(* Stage the buffer and send.  On a lost connection the write fails, or    *)
(* goes nowhere; a server that far behind never answers.                   *)
Ask(p) ==
    LET r == task[p].room
    IN  /\ task[p].at = "lock"
        /\ MyTurn(p)
        /\ \/ /\ task' = [task EXCEPT ![p].at = "sent"]
              /\ buf' = [buf EXCEPT ![r] = {}]
              /\ up' = IF connected /\ ~Swamped(up \o down) THEN Append(up, r) ELSE up
              /\ UNCHANGED <<view, roster, canvas, dirty, meshDirty, queue>>
           \/ /\ ~connected
              /\ Return(p, FALSE, {})
              /\ UNCHANGED up
        /\ UNCHANGED <<cur, watching, asked, late, connected, down, members, noted, due,
                       events>>

Resume(p) ==
    /\ task[p].at = "answered"
    /\ Return(p, TRUE, buf[task[p].room])
    /\ UNCHANGED <<cur, watching, asked, late, wire, events>>

(* QUERY_TIMEOUT: the caller gets what has come in so far.                 *)
Timeout(p) ==
    /\ Overdue(p)
    /\ late' = TRUE
    /\ Return(p, TRUE, buf[task[p].room])
    /\ UNCHANGED <<cur, watching, asked, wire, events>>

-----------------------------------------------------------------------------
(* Requests.                                                               *)

(* A roster task starts.                                                   *)
StartRefresh ==
    /\ asked > 0
    /\ asked' = asked - 1
    /\ RefreshRoster(task, task)
    /\ UNCHANGED <<shown, roster, canvas, meshDirty, buf, late, wire, events>>

(* _request_mesh_refresh: one task at a time.                              *)
RequestMesh ==
    /\ meshDirty' = TRUE
    /\ task' = [task EXCEPT !["mesh"].at = IF @ = "idle" THEN "new" ELSE @]

StartDrain ==
    /\ task["mesh"].at = "new"
    /\ meshDirty' = FALSE
    /\ StartBuild("mesh", queue)
    /\ UNCHANGED <<shown, roster, asked, dirty, buf, late, wire, events>>

MeshActive == view = "mesh" /\ watching

(* The refresher's interval.                                               *)
Interval ==
    /\ Event
    /\ connected
    /\ MeshActive
    /\ RequestMesh
    /\ UNCHANGED <<shown, roster, canvas, asked, dirty, queries, wire>>

(* GET /events asks for the list and, in the mesh view, for the graph.     *)
Attach ==
    /\ Event
    /\ ~watching
    /\ watching' = TRUE
    /\ asked' = asked + 1
    /\ due' = Present(cur)
    /\ IF view = "mesh" THEN RequestMesh ELSE UNCHANGED <<meshDirty, task>>
    /\ UNCHANGED <<cur, view, roster, canvas, dirty, queries, net>>

Detach ==
    /\ watching
    /\ watching' = FALSE
    /\ UNCHANGED <<cur, view, roster, canvas, asked, dirty, meshDirty, task,
                   queries, wire, events>>

(* GET /presence, polled by every tab of the sandbox page for as long as   *)
(* it is open, and any number of times.                                    *)
Poll ==
    /\ due' = Present(cur)
    /\ RefreshRoster(task, task)
    /\ UNCHANGED <<shown, roster, canvas, asked, meshDirty, buf, late, net, events>>

(* /switch, which returns to the chat view, and /join of a joined room,    *)
(* which leaves the view alone; their backlog query delays the refresh.    *)
Switch(r) ==
    /\ Event
    /\ task["exec"] = Idle
    /\ cur' = r
    /\ view' \in {"chat", view}
    /\ due' = Present(r)
    /\ task' = [task EXCEPT !["exec"].at = "history"]
    /\ UNCHANGED <<watching, roster, canvas, asked, dirty, meshDirty, queries, net>>

Switched ==
    /\ task["exec"].at = "history"
    /\ \/ RefreshRoster([task EXCEPT !["exec"].at = "refresh"], [task EXCEPT !["exec"] = Idle])
       \/ /\ ~connected
          /\ task' = [task EXCEPT !["exec"] = Idle]
          /\ UNCHANGED <<dirty, queue>>
    /\ UNCHANGED <<shown, roster, canvas, asked, meshDirty, buf, late, wire, events>>

(* /mesh builds the graph itself.                                          *)
ShowMesh ==
    /\ Event
    /\ task["exec"] = Idle
    /\ view' = "mesh"
    /\ StartBuild("exec", queue)
    /\ UNCHANGED <<cur, watching, roster, asked, dirty, meshDirty, buf, late, wire>>

(* /who asks for one joined room, /agents for one after the other.         *)
AskNicks(r, for) ==
    /\ Event
    /\ task["exec"] = Idle
    /\ connected
    /\ task' = [task EXCEPT !["exec"] = Asking(r, NoLists, for)]
    /\ queue' = [queue EXCEPT ![r] = Append(@, "exec")]
    /\ UNCHANGED <<shown, roster, canvas, asked, dirty, meshDirty, buf, late, wire>>

-----------------------------------------------------------------------------
(* The connection.  The server answers in order; WHO tells the membership  *)
(* at that moment.                                                         *)
Answer ==
    /\ up # <<>> /\ ~Swamped(down)
    /\ LET r == Head(up)
       IN  down' = down \o <<WireLine("row", r, members[r]), WireLine("end", r, 0)>>
    /\ up' = Tail(up)
    /\ UNCHANGED <<shown, roster, canvas, asked, dirty, meshDirty, task, queries,
                   connected, members, noted, due, events>>

(* Somebody joins or parts a room, or quits from it.                       *)
Change(r, kind) ==
    /\ Event
    /\ connected
    /\ members' = [members EXCEPT ![r] = @ + 1]
    /\ due' = IF r = cur THEN members[r] + 1 ELSE due
    /\ noted' = IF kind = "join" THEN [noted EXCEPT ![r] = members[r] + 1] ELSE noted
    /\ down' = Append(down, WireLine(kind, r, 0))
    /\ UNCHANGED <<shown, roster, canvas, asked, dirty, meshDirty, task, queries,
                   connected, up>>

(* A bot leaves, or a connection is cut off: the server sends no QUIT.     *)
Vanish(r) ==
    /\ Event
    /\ connected
    /\ members' = [members EXCEPT ![r] = @ + 1]
    /\ UNCHANGED <<shown, roster, canvas, asked, dirty, meshDirty, task, queries,
                   connected, up, down, noted, due>>

(* The read loop ends; there is no reconnect.                              *)
Lose ==
    /\ connected
    /\ connected' = FALSE
    /\ up' = <<>>
    /\ down' = <<>>
    /\ UNCHANGED <<shown, roster, canvas, asked, dirty, meshDirty, task, queries,
                   members, noted, due, events>>

(* _dispatch_line: people who come and go.  A QUIT carries no channel and  *)
(* does not reach the mesh graph.                                          *)
ReceiveChange(line) ==
    /\ asked' = IF line.kind = "quit" \/ line.room = cur THEN asked + 1 ELSE asked
    /\ IF line.kind = "join" /\ MeshActive THEN RequestMesh ELSE UNCHANGED <<meshDirty, task>>
    /\ UNCHANGED buf

(* The query handlers: the end of an answer wakes whoever awaits the room. *)
ReceiveReply(line) ==
    /\ IF line.kind = "row" THEN buf' = Collect(line) ELSE UNCHANGED buf
    /\ task' = [p \in Procs |->
                   IF line.kind = "end" /\ task[p].at = "sent" /\ task[p].room = line.room
                   THEN [task[p] EXCEPT !.at = "answered"]
                   ELSE task[p]]
    /\ UNCHANGED <<asked, meshDirty>>

Receive ==
    /\ down # <<>>
    /\ down' = Tail(down)
    /\ IF Head(down).kind \in {"join", "quit"} THEN ReceiveChange(Head(down))
                                               ELSE ReceiveReply(Head(down))
    /\ UNCHANGED <<shown, roster, canvas, dirty, queue, late,
                   connected, up, members, noted, due, events>>

Proceed ==
    \/ \E p \in Procs : Ask(p) \/ Resume(p) \/ Timeout(p)
    \/ StartRefresh
    \/ StartDrain
    \/ Switched
    \/ Receive

User ==
    \/ \E r \in Rooms : Switch(r) \/ AskNicks(r, "who")
    \/ AskNicks(1, "agents")
    \/ ShowMesh
    \/ Attach
    \/ Detach
    \/ Poll
    \/ Interval

Server ==
    \/ Answer
    \/ \E r \in Rooms : Change(r, "join") \/ Change(r, "quit") \/ Vanish(r)
    \/ Lose

MembersNext == Proceed \/ User \/ Server

MembersSpec == MembersInit /\ [][MembersNext]_membersVars

(* The event loop runs what is ready and timers go off; the server need    *)
(* not answer.                                                             *)
MembersFairness ==
    /\ \A p \in Procs : WF_membersVars(Ask(p) \/ Resume(p) \/ Timeout(p))
    /\ WF_membersVars(StartRefresh)
    /\ WF_membersVars(StartDrain)
    /\ WF_membersVars(Switched)
    /\ WF_membersVars(Receive)

FairMembersSpec == MembersSpec /\ MembersFairness
-----------------------------------------------------------------------------
(* The state is well typed.                                                *)
TypeOK ==
    /\ cur \in 0..LastRoom
    /\ view \in {"chat", "mesh"}
    /\ {watching, connected, dirty, meshDirty, late} \subseteq BOOLEAN
    /\ roster \in [of : 0..LastRoom, rows : SUBSET Rows]
    /\ canvas \in Lists
    /\ asked \in Nat
    /\ task \in [Procs -> Task]
    /\ queue \in [Rooms -> Seq(Procs)]
    /\ buf \in Lists
    /\ up \in Seq(Rooms)
    /\ down \in Seq(Lines)
    /\ members \in [Rooms -> Rows]
    /\ noted \in [Rooms -> Rows]
    /\ due \in Rows
    /\ events \in 0..MaxEvents

Outstanding(r) ==
    { i \in DOMAIN up : up[i] = r }
        \union { Len(up) + i : i \in { j \in DOMAIN down : down[j].kind = "end" /\ down[j].room = r } }

(* "One WHO at a time: two in flight for the same channel share one reply  *)
(* key and clobber each other" (refresh_roster).  As long as no query has  *)
(* timed out, whatever is on its way about a room is the answer to the one *)
(* query that holds the room's lock.                                       *)
OneWhoPerRoom ==
    ~late => \A r \in Rooms :
        /\ \A i, j \in Outstanding(r) : i = j
        /\ Outstanding(r) # {} => task[Head(queue[r])].at = "sent"

Settled ==
    /\ connected /\ ~late
    /\ up = <<>> /\ down = <<>>
    /\ asked = 0
    /\ \A p \in Procs : task[p].at = "idle"

(* No request for the member list or the mesh graph is lost, although      *)
(* requests during a refresh are folded into one and a slower /mesh and    *)
(* the background task build the graph at the same time.  Once nothing is  *)
(* under way, the list is of the present room, all of one moment, and not  *)
(* older than the last change the server told of, the last poll, the last  *)
(* stream that attached or the switch to the room; what nobody told of     *)
(* since shows with the next poll (get_presence).  The graph is no older   *)
(* than the last JOIN or PART of every room.                               *)
ViewsFresh ==
    Settled =>
        /\ cur # 0 => /\ roster.of = cur
                      /\ \E n \in due..members[cur] : roster.rows = {n}
        /\ MeshActive =>
              \A r \in Rooms : canvas[r] # {} /\ \A n \in canvas[r] : n >= noted[r]

(* From some time on no request meets a refresh under way: the tabs that   *)
(* poll are closed, say, and nobody comes or goes.                         *)
Calm == <>[][~dirty']_dirty

(* A command ends although it awaits queries behind others' queries and    *)
(* the server may never answer, unless it is a /switch or /join that runs  *)
(* the refresh loop itself: that one goes on for as long as every round    *)
(* meets a new request, and every poll is one.                             *)
CommandsEnd ==
    /\ task["exec"].at \notin {"idle", "refresh"} ~> task["exec"].at \in {"idle", "refresh"}
    /\ Calm => (task["exec"].at = "refresh" ~> task["exec"].at = "idle")
=============================================================================
