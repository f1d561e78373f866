----------------------------- MODULE AccessStore -----------------------------
(***************************************************************************)
(* The permissions store of irc-lens: users with a role and a state, the   *)
(* nicknames people hold or once held, the agent credentials, and the      *)
(* ledger of the one-time admin import (src/irc_lens/access_store.py).     *)
(*                                                                         *)
(* The store is one sqlite file.  Every method is one BEGIN IMMEDIATE      *)
(* transaction and so one atomic step here.  The operations around it are  *)
(* not atomic: the web handlers and the `irc-lens users` verbs read a user *)
(* first, decide, and write in a second transaction, and other processes   *)
(* commit in between.  Such an operation is a Begin step, which records in *)
(* pend what was read or decided, and a Finish step, which commits.  A     *)
(* process may die between the two.                                        *)
(***************************************************************************)
EXTENDS FiniteSets, Naturals

CONSTANTS
    Emails,       \* addresses of approved and invited people
    Guests,       \* credential keys of guests: `guest:` and an address
    Nicks,        \* nicknames as typed, case included
    GuestNicks,   \* the nicknames guests choose
    Keys,         \* nicknames with their case folded (COLLATE NOCASE)
    Fold,         \* the folded form of every nickname
    Tokens,       \* agent tokens that can ever be issued (the bound on issues)
    Procs,        \* operations that can be in flight at the same time
    Lists,        \* what auth.allowed_emails may be at a start; {} in standby
    NoOne,        \* no address: the SQL NULL
    NoNick        \* no nickname: the SQL NULL

ASSUME ConstantsOK ==
    /\ Fold \in [Nicks -> Keys]
    /\ GuestNicks \subseteq Nicks
    /\ Lists \subseteq SUBSET Emails
    /\ Emails \intersect Guests = {}
    /\ NoOne \notin Emails \union Guests
    /\ NoNick \notin Nicks

VARIABLES
    users,    \* the users table; "absent" is an address without a row
    holders,  \* nickname_holders: who has, or first had, a nickname
    creds,    \* agent_credentials, by token
    ledger,   \* admin_imports; NoOne stands for the `initialised` mark
    console,  \* how far the console is in its start, and what that start read
    served,   \* (history) a console has served requests
    pend      \* the operations between their read and their write

vars == <<users, holders, creds, ledger, console, served, pend>>

Roles == {"member", "admin"}
States == {"absent", "invited", "approved", "removed"}
NickOrNone == Nicks \union {NoNick}

User == [role : Roles, state : States, nick : NickOrNone]
NoUser == [role |-> "member", state |-> "absent", nick |-> NoNick]

(* A credential row: "live" and "expired" rows have revoked=0.             *)
Statuses == {"unused", "live", "expired", "revoked"}
Owners == Emails \union Guests
Credential == [email : Owners \union {NoOne}, nick : NickOrNone, status : Statuses]
NoCredential == [email |-> NoOne, nick |-> NoNick, status |-> "unused"]

Ops == {"idle", "set", "invite", "remove", "revoke", "promote", "claim", "issue"}
WebOnly == {"invite", "promote", "claim", "issue"}
Pending == [op : Ops, email : Owners \union {NoOne}, role : Roles,
            state : States, nick : NickOrNone]
Idle == [op |-> "idle", email |-> NoOne, role |-> "member",
         state |-> "absent", nick |-> NoNick]

(* "off", then the transactions of a start: "import", "count", "mark".     *)
Stages == {"off", "import", "count", "mark", "up"}
Console == [stage : Stages, first : BOOLEAN, list : SUBSET Emails]
Off == [stage |-> "off", first |-> FALSE, list |-> {}]
Up == [stage |-> "up", first |-> FALSE, list |-> {}]
Running == console.stage = "up"

IsAdmin(u) == u.role = "admin" /\ u.state = "approved"
Admins == {e \in Emails : IsAdmin(users[e])}
HasAdmin == Admins # {}
Unrevoked(c) == c.status \in {"live", "expired"}

-----------------------------------------------------------------------------
(* The transactions.                                                       *)

(* Slips the properties are tried against, each next to the definition it  *)
(* stands for: the guard only sees removals; the nickname check forgets    *)
(* the holders; an expired credential is not worth revoking; a first start *)
(* that imported nobody is not recorded.                                   *)
LastAdminIfRemoved(e, r, s) ==
    IsAdmin(users[e]) /\ s # "approved" /\ Admins \ {e} = {}

HeldNow(e, n) ==
    \E d \in Emails \ {e} : users[d].nick # NoNick /\ Fold[users[d].nick] = Fold[n]

RevokeValid(e) ==
    [t \in Tokens |->
        IF creds[t].email = e /\ creds[t].status = "live"
        THEN [creds[t] EXCEPT !.status = "revoked"]
        ELSE creds[t]]

(* The store's one guard behind every role or state change by an admin.    *)
LastAdmin(e, r, s) ==
    /\ IsAdmin(users[e])
    /\ ~(r = "admin" /\ s = "approved")
    /\ Admins \ {e} = {}

(* _upsert_user: a new row has no nickname, an old one keeps its own.      *)
Upsert(e, r, s) ==
    [users EXCEPT ![e] = [role |-> r, state |-> s, nick |-> users[e].nick]]

HeldByOther(e, n) ==
    \/ \E d \in Emails \ {e} :
            users[d].nick # NoNick /\ Fold[users[d].nick] = Fold[n]
    \/ holders[Fold[n]] \notin {NoOne, e}

RevokeLive(e) ==
    [t \in Tokens |->
        IF creds[t].email = e /\ Unrevoked(creds[t])
        THEN [creds[t] EXCEPT !.status = "revoked"]
        ELSE creds[t]]

(* _record_nickname: reserve the nickname; a change, unlike a first        *)
(* choice, also revokes the agent credential.                              *)
RecordNickname(e, n, previous) ==
    /\ holders' = IF holders[Fold[n]] = NoOne
                  THEN [holders EXCEPT ![Fold[n]] = e]
                  ELSE holders
    /\ creds' = IF previous = NoNick THEN creds ELSE RevokeLive(e)

-----------------------------------------------------------------------------
Init ==
    /\ users = [e \in Emails |-> NoUser]
    /\ holders = [k \in Keys |-> NoOne]
    /\ creds = [t \in Tokens |-> NoCredential]
    /\ ledger = {}
    /\ console = Off
    /\ served = FALSE
    /\ pend = [p \in Procs |-> Idle]

(* install_access, which runs before the console serves anything.  It      *)
(* reads the ledger and its configuration,                                 *)
BeginStart(list) ==
    /\ console = Off
    /\ console' = [stage |-> IF ledger = {} THEN "import" ELSE "count",
                   first |-> ledger = {}, list |-> IF ledger = {} THEN list ELSE {}]
    /\ UNCHANGED <<users, holders, creds, ledger, served, pend>>

(* on a first start makes admins of those in the list who are not in the   *)
(* ledger, all in one transaction (import_admins),                         *)
Import ==
    LET new == console.list \ ledger
    IN  /\ console.stage = "import"
        /\ users' = [e \in Emails |->
                        IF e \in new
                        THEN [users[e] EXCEPT !.role = "admin", !.state = "approved"]
                        ELSE users[e]]
        /\ ledger' = ledger \union new
        /\ console' = [stage |-> "count", first |-> TRUE, list |-> {}]
        /\ UNCHANGED <<holders, creds, served, pend>>

(* refuses to start if there is no approved admin then, whatever it        *)
(* imported,                                                               *)
CountAdmins ==
    /\ console.stage = "count"
    /\ console' = IF ~HasAdmin THEN Off
                  ELSE IF console.first THEN [console EXCEPT !.stage = "mark"] ELSE Up
    /\ served' = (served \/ (HasAdmin /\ ~console.first))
    /\ UNCHANGED <<users, holders, creds, ledger, pend>>

UpUnmarked ==
    /\ console.stage = "mark"
    /\ console' = Up
    /\ served' = TRUE
    /\ UNCHANGED <<users, holders, creds, ledger, pend>>

(* and leaves its mark in the ledger if it was the first                   *)
(* (mark_initialised).                                                     *)
MarkInitialised ==
    /\ console.stage = "mark"
    /\ ledger' = ledger \union {NoOne}
    /\ console' = Up
    /\ served' = TRUE
    /\ UNCHANGED <<users, holders, creds, pend>>

(* The console stops or crashes, while it starts or later; its half-done   *)
(* operations go with it.                                                  *)
Stop ==
    /\ console # Off
    /\ console' = Off
    /\ pend' = [p \in Procs |-> IF pend[p].op \in WebOnly THEN Idle ELSE pend[p]]
    /\ UNCHANGED <<users, holders, creds, ledger, served>>

(* A command-line process (or its handler) dies between two transactions.  *)
Die(p) ==
    /\ pend[p].op # "idle"
    /\ pend' = [pend EXCEPT ![p] = Idle]
    /\ UNCHANGED <<users, holders, creds, ledger, console, served>>

(* `users add`, /admin mode=add: approve now, with a nickname or without.  *)
AddUser(e, r, n) ==
    LET previous == users[e].nick
        setsNick == n # NoNick /\ n # previous
    IN  /\ ~LastAdmin(e, r, "approved")
        /\ setsNick => ~HeldByOther(e, n)
        /\ users' = [users EXCEPT
                ![e] = [role |-> r, state |-> "approved",
                        nick |-> IF n = NoNick THEN previous ELSE n]]
        /\ IF setsNick THEN RecordNickname(e, n, previous)
                       ELSE UNCHANGED <<holders, creds>>
        /\ UNCHANGED <<ledger, console, served, pend>>

(* `users nick`, /admin nickname: a first nickname or a rename.            *)
SetNickname(e, n) ==
    /\ users[e].state # "absent"
    /\ n # users[e].nick
    /\ ~HeldByOther(e, n)
    /\ users' = [users EXCEPT ![e].nick = n]
    /\ RecordNickname(e, n, users[e].nick)
    /\ UNCHANGED <<ledger, console, served, pend>>

(* Read a user and decide what to write: `users role`, `users remove`,     *)
(* /admin mode=role, mode=invite and remove.                               *)
BeginSet(p, e, op, r, s) ==
    /\ pend[p] = Idle
    /\ pend' = [pend EXCEPT ![p] = [op |-> op, email |-> e, role |-> r,
                                    state |-> s, nick |-> NoNick]]
    /\ UNCHANGED <<users, holders, creds, ledger, console, served>>

BeginRole(p, e, r) ==
    users[e].state # "absent" /\ BeginSet(p, e, "set", r, users[e].state)

BeginInvite(p, e, r) ==
    /\ Running
    /\ BeginSet(p, e, "invite", r,
                IF users[e].state = "approved" THEN "approved" ELSE "invited")

BeginRemove(p, e) ==
    users[e].state # "absent" /\ BeginSet(p, e, "remove", users[e].role, "removed")

(* set_user_keeping_admin: refused for the last admin, else written.  A    *)
(* removal goes on to revoke the credential, in another transaction.       *)
FinishSet(p) ==
    LET w == pend[p]
        refused == LastAdmin(w.email, w.role, w.state)
    IN  /\ w.op \in {"set", "invite", "remove"}
        /\ users' = IF refused THEN users
                    ELSE Upsert(w.email, w.role, w.state)
        /\ pend' = [pend EXCEPT
                ![p] = IF w.op = "remove" /\ ~refused
                       THEN [w EXCEPT !.op = "revoke"] ELSE Idle]
        /\ UNCHANGED <<holders, creds, ledger, console, served>>

FinishRemove(p) ==
    /\ pend[p].op = "revoke"
    /\ creds' = RevokeLive(pend[p].email)
    /\ pend' = [pend EXCEPT ![p] = Idle]
    /\ UNCHANGED <<users, holders, ledger, console, served>>

(* promote_on_signin: get_user, then an unguarded set_user.                *)
BeginPromotion(p, e) ==
    /\ Running
    /\ pend[p] = Idle
    /\ users[e].state = "invited"
    /\ pend' = [pend EXCEPT ![p] = [op |-> "promote", email |-> e,
                                    role |-> users[e].role,
                                    state |-> "approved", nick |-> NoNick]]
    /\ UNCHANGED <<users, holders, creds, ledger, console, served>>

FinishPromotion(p) ==
    /\ pend[p].op = "promote"
    /\ users' = Upsert(pend[p].email, pend[p].role, "approved")
    /\ pend' = [pend EXCEPT ![p] = Idle]
    /\ UNCHANGED <<holders, creds, ledger, console, served>>

(* POST /nickname: the gate lets an approved user without a nickname in,   *)
(* the mesh is asked about the nickname, then claim_nickname commits.      *)
BeginClaim(p, e, n) ==
    /\ Running
    /\ pend[p] = Idle
    /\ users[e].state = "approved"
    /\ users[e].nick = NoNick
    /\ pend' = [pend EXCEPT ![p] = [Idle EXCEPT !.op = "claim", !.email = e, !.nick = n]]
    /\ UNCHANGED <<users, holders, creds, ledger, console, served>>

FinishClaim(p) ==
    LET e == pend[p].email
        n == pend[p].nick
    IN  /\ pend[p].op = "claim"
        /\ IF users[e].nick = NoNick /\ ~HeldByOther(e, n)
           THEN /\ users' = [users EXCEPT ![e].nick = n]
                /\ RecordNickname(e, n, NoNick)
           ELSE UNCHANGED <<users, holders, creds>>
        /\ pend' = [pend EXCEPT ![p] = Idle]
        /\ UNCHANGED <<ledger, console, served>>

(* POST /agent-credential: the agent nick comes from the nickname read     *)
(* with the request's identity; the credential is issued afterwards.  A    *)
(* person's nickname is in the users table.                                *)
BeginIssue(p, e) ==
    /\ Running
    /\ pend[p] = Idle
    /\ users[e].state = "approved"
    /\ users[e].nick # NoNick
    /\ pend' = [pend EXCEPT ![p] = [Idle EXCEPT !.op = "issue", !.email = e,
                                                !.nick = users[e].nick]]
    /\ UNCHANGED <<users, holders, creds, ledger, console, served>>

(* A guest's is in the guest store: any nickname, reserved by nobody.      *)
BeginGuestIssue(p, g, n) ==
    /\ Running
    /\ pend[p] = Idle
    /\ pend' = [pend EXCEPT ![p] = [Idle EXCEPT !.op = "issue", !.email = g, !.nick = n]]
    /\ UNCHANGED <<users, holders, creds, ledger, console, served>>

FinishIssue(p, t) ==
    LET e == pend[p].email
    IN  /\ pend[p].op = "issue"
        /\ creds[t].status = "unused"
        /\ creds' = [RevokeLive(e) EXCEPT
                ![t] = [email |-> e, nick |-> pend[p].nick, status |-> "live"]]
        /\ pend' = [pend EXCEPT ![p] = Idle]
        /\ UNCHANGED <<users, holders, ledger, console, served>>

(* `agents revoke`, which does this for both keys of an address.           *)
RevokeAgent(e) ==
    /\ creds' = RevokeLive(e)
    /\ UNCHANGED <<users, holders, ledger, console, served, pend>>

(* A guest's rows are deleted when the guest is banned or erased; their    *)
(* places may be used again.                                               *)
PurgeGuest(g) ==
    /\ creds' = [t \in Tokens |-> IF creds[t].email = g THEN NoCredential ELSE creds[t]]
    /\ UNCHANGED <<users, holders, ledger, console, served, pend>>

(* A credential passes its expiry.                                         *)
Expire(t) ==
    /\ creds[t].status = "live"
    /\ creds' = [creds EXCEPT ![t].status = "expired"]
    /\ UNCHANGED <<users, holders, ledger, console, served, pend>>

Starting ==
    \/ \E list \in Lists : BeginStart(list)
    \/ Import
    \/ CountAdmins
    \/ MarkInitialised

Verbs ==
    \/ \E e \in Emails :
        \/ \E r \in Roles, n \in NickOrNone : AddUser(e, r, n)
        \/ \E n \in Nicks : SetNickname(e, n)
    \/ \E o \in Owners : RevokeAgent(o)
    \/ \E g \in Guests : PurgeGuest(g)

Begin(p) ==
    \/ \E e \in Emails :
        \/ \E r \in Roles : BeginRole(p, e, r) \/ BeginInvite(p, e, r)
        \/ BeginRemove(p, e)
        \/ BeginPromotion(p, e)
        \/ \E n \in Nicks : BeginClaim(p, e, n)
        \/ BeginIssue(p, e)
    \/ \E g \in Guests, n \in GuestNicks : BeginGuestIssue(p, g, n)

Finish(p) ==
    \/ FinishSet(p)
    \/ FinishRemove(p)
    \/ FinishPromotion(p)
    \/ FinishClaim(p)
    \/ \E t \in Tokens : FinishIssue(p, t)
    \/ Die(p)

Next ==
    \/ Starting
    \/ Stop
    \/ Verbs
    \/ \E p \in Procs : Begin(p) \/ Finish(p)
    \/ \E t \in Tokens : Expire(t)

Spec == Init /\ [][Next]_vars
-----------------------------------------------------------------------------
(* The state is well typed.                                                *)
TypeOK ==
    /\ users \in [Emails -> User]
    /\ holders \in [Keys -> Emails \union {NoOne}]
    /\ creds \in [Tokens -> Credential]
    /\ ledger \subseteq Emails \union {NoOne}
    /\ console \in Console
    /\ served \in BOOLEAN
    /\ pend \in [Procs -> Pending]

(* No two users hold nicknames that differ only in case, however adds,     *)
(* renames and in-flight first choices interleave.                         *)
NicknamesDistinct ==
    \A d, e \in Emails :
        /\ d # e
        /\ users[d].nick # NoNick
        /\ users[e].nick # NoNick
        => Fold[users[d].nick] # Fold[users[e].nick]

(* A nickname, once somebody's, is never anybody else's: a rename does not *)
(* free the old one (_refuse_if_held).  The step that gives e a nickname   *)
(* finds it never used before, or used before by e alone.                  *)
NicknameNeverReassigned ==
    [][ /\ \A e \in Emails :
              users'[e].nick # NoNick => holders[Fold[users'[e].nick]] \in {NoOne, e}
        /\ \A k \in Keys : holders[k] # NoOne => holders'[k] = holders[k] ]_vars

(* agent_key_for_nick: the keys with a row, in any state, for the agent    *)
(* nick of row c.  It names the server, the mesh for a person and the      *)
(* sandbox for a guest, and then the nickname.                             *)
AgentKeys(c) ==
    {creds[t].email : t \in {u \in Tokens :
        /\ creds[u].status # "unused"
        /\ creds[u].email \in Guests <=> c.email \in Guests
        /\ Fold[creds[u].nick] = Fold[c.nick]}}

(* An approved person's agent nick is nobody else's: every credential of a *)
(* person, in whatever state, was issued under a nickname that is still    *)
(* reserved for them, although it is read well before the credential is    *)
(* issued, and a flag raised against the agent reaches them alone.  Guests *)
(* may share theirs.                                                       *)
CredentialNickOwned ==
    \A t \in Tokens :
        creds[t].status # "unused" /\ creds[t].email \in Emails =>
            /\ holders[Fold[creds[t].nick]] = creds[t].email
            /\ AgentKeys(creds[t]) = {creds[t].email}

(* At most one unrevoked credential per person (issue replaces the prior   *)
(* one), with concurrent issues, renames and removals.                     *)
OneLiveCredential ==
    \A t, u \in Tokens :
        /\ Unrevoked(creds[t])
        /\ Unrevoked(creds[u])
        /\ creds[t].email = creds[u].email
        => t = u

(* An approved admin remains after every step, however changes to roles    *)
(* and states interleave, except the unguarded write of a sign-in          *)
(* promotion (set_user_keeping_admin).                                     *)
AdminKept ==
    [][HasAdmin /\ ~HasAdmin' => \E p \in Procs : FinishPromotion(p)]_vars

(* Once a console has served requests, no step of a later start changes    *)
(* anybody's role or state, whatever the configuration lists by then and   *)
(* wherever earlier starts were refused or crashed: who was demoted or     *)
(* removed is not an admin again after a restart (o21).  And none comes up *)
(* without an approved admin, though the command line may write after they *)
(* were counted (o20).                                                     *)
StartSound ==
    [][console' # console =>
         /\ served => users' = users
         /\ Running' => HasAdmin' ]_vars
=============================================================================
