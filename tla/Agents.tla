-------------------------------- MODULE Agents --------------------------------
(***************************************************************************)
(* The IRC connections of personal agents.  A person issues a credential   *)
(* for their agent; every tool call authenticates with it, and opens the   *)
(* agent's connection or finds it in the session registry                  *)
(* (agent_session_for, get_or_open_agent).  Nobody logs an agent out: its  *)
(* connection is closed by a new credential, by a refused call, and by the *)
(* sweeps of ended credentials and people, of retired nicknames, of banned *)
(* guests and of guests who have signed off.                               *)
(*                                                                         *)
(* Checks run in threads and answer about the moment they read; whatever   *)
(* follows finds the world as it then is.  A step is the code between two  *)
(* awaits, or what a thread reads or writes.                               *)
(*                                                                         *)
(* A person's nicknames are numbered in the order they take them; 0 is     *)
(* none.                                                                   *)
(***************************************************************************)
EXTENDS Naturals

CONSTANTS
    People,   \* the humans, each with at most one agent
    Guests,   \* those of them who are guests of the sandbox
    Calls,    \* tool calls in flight
    MaxEvents \* bound on what people and the network come up with

ASSUME AgentsOK == People # {} /\ Guests \subseteq People /\ MaxEvents \in Nat

VARIABLES
    human,    \* the approved people and the guests who are not banned
    nick,     \* everybody's present nickname
    home,     \* the guests whose own sandbox session is open
    extended, \* the guests whose agent an admin extension covers
    cred,     \* the nickname everybody's live credential is issued for
    issuing,  \* the nickname a POST /agent-credential under way has read
    entry,    \* the registry: everybody's agent connection
    call,     \* the tool calls
    closing,  \* whose agent some handler is about to disconnect
    sweep,    \* the agent sweep, which the nickname sweep ends
    ban,      \* the part of the ban sweep that is about agents
    events    \* what people and the network came up with so far

lives == <<human, nick, home, extended>>
tasks == <<closing, sweep, ban>>
vars == <<lives, cred, issuing, entry, call, tasks, events>>

Nicks == 0..(MaxEvents + 1)
Connection == [nick : Nicks, up : BOOLEAN]
NoEntry == [nick |-> 0, up |-> FALSE]

(* verified: the credential is; human: so is its human; gate: the guest's  *)
(* consent and presence are next; open: about to look for the connection;  *)
(* lock: wants the key's lock; refused: about to disconnect the agent.     *)
Call == [at : {"idle", "verified", "human", "gate", "open", "lock", "opening", "refused"},
         who : People, nick : Nicks]

(* Whose idle call it was does not matter.                                 *)
Idle == [at |-> "idle", who |-> CHOOSE p \in People : TRUE, nick |-> 0]

Held(p) == entry[p].nick # 0
Closed(ps) == [p \in People |-> IF p \in ps THEN NoEntry ELSE entry[p]]
Going(c, place) == [call EXCEPT ![c].at = place]
Done(c) == [call EXCEPT ![c] = Idle]

Init ==
    /\ human = People
    /\ nick = [p \in People |-> 1]
    /\ home = {}
    /\ extended = {}
    /\ cred = [p \in People |-> 0]
    /\ issuing = [p \in People |-> 0]
    /\ entry = [p \in People |-> NoEntry]
    /\ call = [c \in Calls |-> Idle]
    /\ closing = {}
    /\ sweep = [at |-> "retire", todo |-> {}, hit |-> {}, seen |-> [p \in People |-> 0]]
    /\ ban = [at |-> "look", todo |-> {}, hit |-> {}]
    /\ events = 0

Event ==
    /\ events < MaxEvents
    /\ events' = events + 1
-----------------------------------------------------------------------------
(* Slips the properties are tried against, each ahead of the definition it *)
(* stands for.                                                             *)
NoKeyLock(p) == TRUE

StillLiveEither(p) == cred[p] # 0 \/ p \in human

StaleCredential(p, n) == n \notin {0, cred[p]} /\ p \notin Guests /\ p \in human

BanTargetsConnected == { g \in Guests : Held(g) }

(* The lock of an agent's key is held while its connection opens.          *)
KeyLockFree(p) == \A c \in Calls : ~(call[c].at = "opening" /\ call[c].who = p)

(* agent_auth._still_live.                                                 *)
StillLive(p) == cred[p] # 0 /\ p \in human

(* guest_agent_may_run, and _reap_guest_agents' use of it.                 *)
MayRun(g) == g \in home \union extended

SignedOff(g) == ~MayRun(g)

(* nickname._stale of a connection that had the nickname n.                *)
Stale(p, n) == n \notin {0, nick[p]} /\ p \notin Guests /\ p \in human

(* Whom the ban sweep looks at.                                            *)
BanTargets == { g \in Guests : Held(g) \/ cred[g] # 0 }

-----------------------------------------------------------------------------
(* A tool call.                                                            *)

(* verify_agent_credential; a call with any other token ends here.         *)
Verify(c) ==
    /\ call[c].at = "idle"
    /\ \E p \in People :
        /\ cred[p] # 0
        /\ call' = [call EXCEPT ![c] = [at |-> "verified", who |-> p, nick |-> cred[p]]]
    /\ UNCHANGED <<lives, cred, issuing, entry, tasks, events>>

CheckHuman(c) ==
    /\ call[c].at = "verified"
    /\ call' = Going(c, IF call[c].who \in human THEN "human" ELSE "refused")
    /\ UNCHANGED <<lives, cred, issuing, entry, tasks, events>>

(* human_state and _nick_matches; a guest's ban is not looked at again.    *)
CheckNick(c) ==
    LET p == call[c].who
    IN  /\ call[c].at = "human"
        /\ call' = Going(c, IF p \notin human \union Guests \/ call[c].nick # nick[p]
                            THEN "refused"
                            ELSE IF p \in Guests THEN "gate" ELSE "open")
        /\ UNCHANGED <<lives, cred, issuing, entry, tasks, events>>

(* A store that is locked for too long refuses the call and closes nothing.*)
StoreBusy(c) ==
    /\ call[c].at \in {"verified", "human"}
    /\ call' = Done(c)
    /\ UNCHANGED <<lives, cred, issuing, entry, tasks, events>>

(* The guest's consent may be out of date.                                 *)
Gate(c) ==
    /\ call[c].at = "gate"
    /\ \/ MayRun(call[c].who) /\ call' = Going(c, "open")
       \/ call' = Going(c, "refused")
    /\ UNCHANGED <<lives, cred, issuing, entry, tasks, events>>

Refuse(c) ==
    /\ call[c].at = "refused"
    /\ entry' = Closed({call[c].who})
    /\ call' = Done(c)
    /\ UNCHANGED <<lives, cred, issuing, tasks, events>>

(* get_or_open_agent: a healthy connection is used as it is, a dead one is *)
(* closed first.                                                           *)
Find(c) ==
    LET p == call[c].who
    IN  /\ call[c].at = "open"
        /\ call' = IF entry[p].up THEN Done(c) ELSE Going(c, "lock")
        /\ entry' = IF entry[p].up THEN entry ELSE Closed({p})
        /\ UNCHANGED <<lives, cred, issuing, tasks, events>>

Share(c) ==
    /\ call[c].at = "lock"
    /\ KeyLockFree(call[c].who)
    /\ Held(call[c].who)
    /\ call' = Done(c)
    /\ UNCHANGED <<lives, cred, issuing, entry, tasks, events>>

Connect(c) ==
    /\ call[c].at = "lock"
    /\ KeyLockFree(call[c].who)
    /\ ~Held(call[c].who)
    /\ call' = Going(c, "opening")
    /\ UNCHANGED <<lives, cred, issuing, entry, tasks, events>>

Connected(c) ==
    /\ call[c].at = "opening"
    /\ entry' = [entry EXCEPT ![call[c].who] = [nick |-> call[c].nick, up |-> TRUE]]
    /\ call' = Done(c)
    /\ UNCHANGED <<lives, cred, issuing, tasks, events>>

ConnectFailed(c) ==
    /\ call[c].at = "opening"
    /\ call' = Done(c)
    /\ UNCHANGED <<lives, cred, issuing, entry, tasks, events>>

(* A connection is lost: it is left unhealthy, or the call that found out  *)
(* has dropped it.                                                         *)
Lose(p) ==
    /\ Event
    /\ entry[p].up
    /\ entry' \in { [entry EXCEPT ![p].up = FALSE], Closed({p}) }
    /\ UNCHANGED <<lives, cred, issuing, call, tasks>>
-----------------------------------------------------------------------------
(* What people do.                                                         *)

(* POST /agent-credential: the request has the nickname it came with, a    *)
(* thread writes, the handler disconnects the agent.                       *)
BeginIssue(p) ==
    /\ Event
    /\ p \in human
    /\ issuing[p] = 0
    /\ issuing' = [issuing EXCEPT ![p] = nick[p]]
    /\ UNCHANGED <<lives, cred, entry, call, tasks>>

Issue(p) ==
    /\ issuing[p] # 0
    /\ cred' = [cred EXCEPT ![p] = issuing[p]]
    /\ issuing' = [issuing EXCEPT ![p] = 0]
    /\ closing' = closing \union {p}
    /\ UNCHANGED <<lives, entry, call, sweep, ban, events>>

(* close_agent_connections at the end of a handler.                        *)
CloseAgent(p) ==
    /\ p \in closing
    /\ closing' = closing \ {p}
    /\ entry' = Closed({p})
    /\ UNCHANGED <<lives, cred, issuing, call, sweep, ban, events>>

(* The verbs, an admin's removal, and time.                                *)
Revoke(p) ==
    /\ Event
    /\ cred[p] # 0
    /\ cred' = [cred EXCEPT ![p] = 0]
    /\ UNCHANGED <<lives, issuing, entry, call, tasks>>

(* Removed or banned, approved again or unbanned.                          *)
Judge(p) ==
    /\ Event
    /\ human' = IF p \in human THEN human \ {p} ELSE human \union {p}
    /\ UNCHANGED <<nick, home, extended, cred, issuing, entry, call, tasks>>

(* On the admin page, which disconnects the agent, in another process, or  *)
(* by a guest's new consent, which do not.                                 *)
Rename(p) ==
    /\ Event
    /\ nick' = [nick EXCEPT ![p] = @ + 1]
    /\ closing' \in { closing, closing \union ({p} \ Guests) }
    /\ UNCHANGED <<human, home, extended, cred, issuing, entry, call, sweep, ban>>

ComeOrGo(g) ==
    /\ Event
    /\ g \in human \union home
    /\ home' = IF g \in home THEN home \ {g} ELSE home \union {g}
    /\ UNCHANGED <<human, nick, extended, cred, issuing, entry, call, tasks>>

(* irc-lens extend, its undoing, its end.                                  *)
Extend(g) ==
    /\ Event
    /\ extended' = IF g \in extended THEN extended \ {g} ELSE extended \union {g}
    /\ UNCHANGED <<human, nick, home, cred, issuing, entry, call, tasks>>
-----------------------------------------------------------------------------
(* The sweeps.                                                             *)

(* agent_auth.sweep_once: a snapshot of the agents, one check in a thread  *)
(* and perhaps one disconnection after the other.                          *)
SweepStart ==
    /\ sweep.at = "retire"
    /\ sweep.todo = {}
    /\ sweep' = [sweep EXCEPT !.at = "look", !.todo = { p \in People : Held(p) }]
    /\ UNCHANGED <<lives, cred, issuing, entry, call, closing, ban, events>>

SweepLook ==
    /\ sweep.at = "look"
    /\ \E p \in sweep.todo :
        sweep' = [sweep EXCEPT !.at = IF StillLive(p) THEN "look" ELSE "close",
                               !.todo = @ \ {p},
                               !.hit = IF StillLive(p) THEN {} ELSE {p}]
    /\ UNCHANGED <<lives, cred, issuing, entry, call, closing, ban, events>>

SweepClose ==
    /\ sweep.at = "close"
    /\ entry' = Closed(sweep.hit)
    /\ sweep' = [sweep EXCEPT !.at = "look", !.hit = {}]
    /\ UNCHANGED <<lives, cred, issuing, call, closing, ban, events>>

(* nickname.sweep_once: the connections as they are now, compared in a     *)
(* thread, then closed by their keys.                                      *)
NickList ==
    /\ sweep.at = "look"
    /\ sweep.todo = {}
    /\ sweep' = [sweep EXCEPT !.at = "nicks", !.seen = [p \in People |-> entry[p].nick]]
    /\ UNCHANGED <<lives, cred, issuing, entry, call, closing, ban, events>>

NickCompare ==
    /\ sweep.at = "nicks"
    /\ sweep' = [at |-> "retire", hit |-> {},
                 todo |-> { p \in People : Stale(p, sweep.seen[p]) },
                 seen |-> [p \in People |-> 0]]
    /\ UNCHANGED <<lives, cred, issuing, entry, call, closing, ban, events>>

Retire ==
    /\ sweep.at = "retire"
    /\ \E p \in sweep.todo :
        /\ entry' = Closed({p})
        /\ sweep' = [sweep EXCEPT !.todo = @ \ {p}]
    /\ UNCHANGED <<lives, cred, issuing, call, closing, ban, events>>

(* bans._sweep_agents.                                                     *)
BanStart ==
    /\ ban.at = "look"
    /\ ban.todo = {}
    /\ ban' = [ban EXCEPT !.todo = BanTargets]
    /\ UNCHANGED <<lives, cred, issuing, entry, call, closing, sweep, events>>

BanLook ==
    /\ ban.at = "look"
    /\ \E g \in ban.todo :
        ban' = [at |-> IF g \in human THEN "look" ELSE "close",
                todo |-> ban.todo \ {g},
                hit |-> {g} \ human]
    /\ UNCHANGED <<lives, cred, issuing, entry, call, closing, sweep, events>>

BanClose ==
    /\ ban.at = "close"
    /\ entry' = Closed(ban.hit)
    /\ ban' = [ban EXCEPT !.at = "purge"]
    /\ UNCHANGED <<lives, cred, issuing, call, closing, sweep, events>>

BanPurge ==
    /\ ban.at = "purge"
    /\ cred' = [p \in People |-> IF p \in ban.hit THEN 0 ELSE cred[p]]
    /\ ban' = [ban EXCEPT !.at = "look", !.hit = {}]
    /\ UNCHANGED <<lives, issuing, entry, call, closing, sweep, events>>

(* _reap_guest_agents checks and closes without an await in between.       *)
Reap(g) ==
    /\ Held(g)
    /\ SignedOff(g)
    /\ entry' = Closed({g})
    /\ UNCHANGED <<lives, cred, issuing, call, tasks, events>>

Proceed(c) ==
    \/ CheckHuman(c) \/ CheckNick(c) \/ StoreBusy(c) \/ Gate(c) \/ Refuse(c)
    \/ Find(c) \/ Share(c) \/ Connect(c)
    \/ Connected(c) \/ ConnectFailed(c)

Sweep == SweepStart \/ SweepLook \/ SweepClose \/ NickList \/ NickCompare \/ Retire

BanSweep == BanStart \/ BanLook \/ BanClose \/ BanPurge

Live(p) == Lose(p) \/ BeginIssue(p) \/ Revoke(p) \/ Judge(p) \/ Rename(p)

Next ==
    \/ \E c \in Calls : Verify(c) \/ Proceed(c)
    \/ \E p \in People : Issue(p) \/ CloseAgent(p) \/ Live(p)
    \/ \E g \in Guests : ComeOrGo(g) \/ Extend(g) \/ Reap(g)
    \/ Sweep
    \/ BanSweep

Spec == Init /\ [][Next]_vars

(* Calls, handlers and sweeps that have begun go on (a connection attempt  *)
(* has a time limit), and the sweeps run on their timers.                  *)
Fairness ==
    /\ \A c \in Calls : WF_vars(Proceed(c))
    /\ \A p \in People : WF_vars(Issue(p)) /\ WF_vars(CloseAgent(p))
    /\ \A g \in Guests : WF_vars(Reap(g))
    /\ WF_vars(Sweep)
    /\ WF_vars(BanSweep)

FairSpec == Spec /\ Fairness
-----------------------------------------------------------------------------
(* The state is well typed; the ban sweep has to do with guests only.      *)
TypeOK ==
    /\ human \subseteq People
    /\ nick \in [People -> Nicks \ {0}]
    /\ home \subseteq Guests
    /\ extended \subseteq Guests
    /\ cred \in [People -> Nicks]
    /\ issuing \in [People -> Nicks]
    /\ entry \in [People -> Connection]
    /\ call \in [Calls -> Call]
    /\ closing \subseteq People
    /\ sweep \in [at : {"look", "close", "nicks", "retire"}, todo : SUBSET People,
                  hit : SUBSET People, seen : [People -> Nicks]]
    /\ ban \in [at : {"look", "close", "purge"}, todo : SUBSET Guests, hit : SUBSET Guests]
    /\ events \in 0..MaxEvents

(* While a connection opens, its key has no other, opened or opening: the  *)
(* registration in get_or_open_agent never buries a live connection, which *)
(* nobody would close.                                                     *)
OpensAlone ==
    \A c \in Calls : call[c].at = "opening" =>
        /\ ~Held(call[c].who)
        /\ \A d \in Calls \ {c} : call[d].at = "opening" => call[d].who # call[c].who

(* Whoever has no right to an agent any more is rid of it for good: no     *)
(* credential, a human removed, banned or deleted (agent_auth.sweep_once), *)
(* or a guest with neither a session of their own nor an extension         *)
(* (_reap_guest_agents), whatever call had passed its gate before.         *)
AgentLeaves ==
    \A p \in People :
        <>[](\/ cred[p] = 0 \/ p \notin human
             \/ p \in Guests \ (home \union extended))
        => <>[]~Held(p)

(* After an approved person's last rename their agent is not connected     *)
(* under a former nickname for long (nickname.sweep_once).                 *)
AgentNickSettles ==
    \A p \in People \ Guests :
        <>[](p \in human) => <>[](entry[p].nick \in {0, nick[p]})

(* A guest banned for good has no credential in the end, also when it was  *)
(* issued while the sweep went by (bans._drop_agent).                      *)
BannedCredentialGone ==
    \A g \in Guests : <>[](g \notin human) => <>[](cred[g] = 0)
=============================================================================
