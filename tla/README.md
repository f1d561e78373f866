# A TLA+ model of irc-lens

irc-lens is a web console for an IRC mesh: approved people reach the mesh (and
a "Guest view" of the sandbox server) through it, guests reach the sandbox, and
personal agents call tools over it.  One process serves everybody from one
asyncio event loop, with threads for whatever blocks; the permissions live in sqlite
files that the `irc-lens` command line writes as well.

These modules model the parts in which an unlucky order of steps can do harm:
who may hold a nickname, a seat, a session, a connection or a credential, what a
session shows, what is kept of a guest, and what is mailed and told.  TLC checks
them on small instances; TLAPS proves the main safety properties for every value
of the constants.

    tlc -workers 2 -config Registry.cfg MCRegistry     # a run
    tlapm Registry_proofs.tla                          # its proofs

## 1. The system

### Components

| Component | State | Operations | Hard behaviour | Model |
|---|---|---|---|---|
| Access store (`access_store.py`, `access.py`) | users, nickname holders, agent credentials, import ledger, channel grants, read cache; topics, audit log | one transaction per method; cached reads | several processes; operations and starts of several transactions; crashes between and inside them; reads from a cache | AccessStore, Rooms (topics and log left out) |
| Administration (`web/admin.py`, CLI `users`/`agents`/`grants`) | none of its own | add, invite, role, remove, rename, revoke, grant | read, decide, then write | AccessStore, Rooms |
| Sign-in (`web/entry.py`, `web/setpw.py`, `guest_store.py`) | passwords, tokens, sessions, trusted browsers, attempts | submit a password, enter a code, trust a browser, set a password by a mailed link | counts that are taken and given back; a reset beside sign-ins; restarts; answers that are lost | SignIn |
| App sessions (`web/app_session.py`) | session cookies, `LINKS` (session that opened a connection) | sign-in, sign-out, revocation sweep, promotion, start-up import | the sweep uses a snapshot across awaits; promotion is two transactions | Registry, AccessStore, SignIn |
| Session registry (`web/sessions.py`) | connections by key, per-key locks, guest seats, reservations, the gauge | open, share, evict, close, retire, reserve, reap | many requests of one person; closing during an open; limits | Registry (people), GuestSeats (guests), Agents (agents) |
| Guest entry (`web/entry.py`, `web/routes.py`) | codes, welcome tokens, guest cookie, nicknames, consents | ask for a code, verify, welcome, return, reopen, log out | two requests see the last free seat; a code that could not be mailed | GuestSeats (who gets in), GuestData (what is stored) |
| Guest lines (`web/message_check.py`, `web/input_gate.py`, `routes.post_input`) | inputs, flag log | check, send, record | a late verdict, a deletion during it; the sandbox's bot (sbx-ask) writes the flag log later | GuestData |
| Deletion and retention (`web/deletion.py`, `web/retention.py`) | the `.tmp` of the flag log | delete on request, sweep | erasures in threads beside everything else | GuestData |
| Ban sweep (`web/bans.py`) | none between ticks | close the sessions and agents of banned guests | a ban while its guest comes in | GuestSeats, Agents |
| Nicknames (`web/nickname.py`) | the nickname columns of the store | first choice, rename, the sweep that retires connections | requests that read the old nickname | AccessStore, Registry, Agents |
| Event bus and streams (`session.py`, `routes.get_events`) | queue and burst flag of each subscriber | publish, subscribe, drain, keepalive, close | bursts longer than the queue; clients that leave | EventBus |
| Session queries (`session.py`) | WHO buffers and locks, member list, mesh graph, dispatch lock | query, refresh, view switches, `/mesh`, `/who`, `/agents` | answers carry no query number; requests during a refresh; a silent server; people who leave without a line | Members (LIST left out) |
| Session rooms (`session.py`) | joined rooms, current room, swept stamp | join, part, switch, chat, history; lines of the server; sweep of revoked rooms | grants change between any two checks | Rooms |
| Personal agents (`web/agent_auth.py`, `web/agent_sessions.py`) | agent credentials, agent connections | issue, authenticate, gate, open, close, sweeps | checks in threads answer about a past moment | Agents (tools and inbox left out) |
| Mail, its budget and ceiling, alerts (`mail.py`, `mail_budget.py`, `alerts.py`) | attempts in windows, times of sends and alerts | ask, send, tell, sweep | clocks read outside locks; failures half way; restarts | Mail; the spacing of alerts in Threat |
| Threat rules and decider (`threat.py`, `rules.py`, `decider.py`) | counters, checked windows, the call in flight | count, check, ask for a verdict, time out, tell | a verdict raced by its timer and by the turn of the window; threads that cannot start; a notice held back | Threat |
| IRC transport and buffer | connection, joined rooms, unread lines | connect, join, part, send, read | connections that drop | as Rooms, Members and Agents use it |
| Media store | files, total size | upload, evict, delete | upload beside the deletion of its guest | not modelled |
| Export, standby, web application, front, command line, configuration | none or a flag | assembly, rendering, parsing | - | not modelled: no state to interleave |
| chat-edge worker (`deploy/chat-edge`) | none of the console's | edge proxy | - | not modelled: deployed separately |

### How they interact

    guest entry, sign-in --> guest store (tokens, sessions, rows)  <-- deletion,
        |      \--> mail: budget, ceiling, alerts                      retention
        v
    requests --> access store        (threads, one transaction each) <-- CLI
        |   \--> session registry --> IRC connection (transport)
        |              ^  ^  ^             |
        |   sweeps ----+  |  |             v
        |   (every 30 s)  |  |        session: rooms, queries, roster, graph
        |   admin, CLI ---+  |             |  publish
        |   agent tool calls +             v
        +--------------------------> event bus --> event streams (browser)
        \--> threat counters --> rules --> decider --> notice

Requests, tool calls and sweeps share the registry; nothing but the order of
awaits and the per-key locks keeps them apart.  The owner's command line acts on
the stores alone, so the console learns of it only by reading: that is why there
are sweeps, and why most hazards here are a read that is stale when it is used.

### What makes them correct

* An approved person's nickname and agent nick belong to nobody else, ever (guests may
  share theirs on the sandbox); there is always an admin; a person has at most one live
  agent credential.  No console runs without an admin, and none that starts again gives
  anybody rights.
* A session comes from the right password of its time and the code mailed for it; a reset
  by link ends what older passwords opened (the command line's new password ends only the
  trust of browsers).  A submission that passes password and bot check costs nothing.
* No more guests are in, or on their way in, than there are seats.  Banned and
  idle guests give theirs up.
* No connection is forgotten by the registry: each is closed before another
  takes its place.  Whoever lost the right to a connection ends up without it.
* Nothing of a room is shown or sent on a grant revoked before; revoked rooms
  are left.
* A deletion that nothing ran beside leaves nothing of the guest, and in a flag log the lens
  knows only what is appended after it was read; what another leaves behind is
  erased later; nobody active is erased.
* A browser sees events in order, and loses the oldest if any.  Once nothing is under way
  the member list is no older than the last change that was told of and the last poll, the
  graph no older than the last JOIN or PART; every command ends, a `/switch` or `/join` if
  requests for the list come to rest.
* No window has more mail than its budget, no day more than the ceiling, approved people's
  mail has its reserve; a hot window is told once, and a notice is attempted for it or was
  attempted not long before it.

The hazards that threaten these are listed in `PROJECT.json` with their lines
and the properties that would catch them.

## 2. The modules

A step of a module is what runs without interruption: a transaction for a
store, and the code between two awaits for everything in the event loop.  Work in
a thread is a step of its own, at the moment it reads or writes.  Each action is
a whole handler, or a part of one between two awaits, in the source's order of
checks.  The definitions that a module introduces as slips are plausible mistakes
that the properties are tried against (`mutants` of `PROJECT.json`).

### AccessStore

`users`, `holders` (table `nickname_holders`), `creds` (`agent_credentials`) and
`ledger` (`admin_imports`) are the tables.  `holders` and the uniqueness of nicknames
go by `Fold`, the case-insensitive collation.  `served` is history.  A method of the store is one
`BEGIN IMMEDIATE` transaction and so one step.  What reads in one transaction and writes
in another is a `Begin` step, which leaves what it read or decided in `pend`, and a
`Finish` step: the admin page's role, invitation and removal
(`BeginRole`, `BeginInvite`, `BeginRemove`), the promotion at sign-in
(`BeginPromotion`), the choice of a first nickname, which asks the IRC server in
between (`BeginClaim`), and the issue of an agent credential (`BeginIssue`; for a guest `BeginGuestIssue`,
under whatever nickname the guest store has, which nobody reserves, and `PurgeGuest` when the
guest is banned or erased).  `AgentKeys` is `agent_key_for_nick`.  `Die` is a process that ends
between the two.  A start of the console is `install_access` in its
four transactions, all before it serves: the read of the ledger (`BeginStart`), the import of
the configured admins with their ledger rows (`Import`, one transaction for all of them), the
count of admins, on which it may refuse (`CountAdmins`), and the mark of a first start
(`MarkInitialised`).  `console` is how far it got; `Stop` may come at any of them.

### Seats, GuestSeats

`Seats` is the abstract promise: a set of seat holders, at most `MaxGuests`, that
gains or loses one guest at a time.  `GuestSeats` is the code: the registry's entries
(`conn`), the idle clock, the reservations, the metric (`gauge`), the codes and
cookies that let a browser in, the bans, and requests in the places listed in the
head of the module.  `BeginEnter`/`Enter` are the forms that check a code or
token and reserve; `Arrive`, `Reopen`, `Use`, `Evict`, `Evicted`, `Opened`,
`OpenFailed` are `routes._open_guest` with the guest lock; `BeginLogout`/`Logout` the logout,
which takes no lock; `ReapIdle` the idle sign-off, `SweepFinds`/`SweepCloses` the
ban sweep, which reads the bans in a thread.  The refinement maps `held` to `Active`, the
guests that `active_guests` counts.

### Registry

One approved person, who has a mesh connection and a Guest view.  `entry` is the
registry, `link` is `LINKS`, `req` the requests by place (`ask`, `evict`, `wait`,
`open`).  `Reuse`, `RetireRenamed`, `EvictDead`, `Queue`, `Share`, `Connect`,
`Connected`, `ConnectFailed` are `get_or_open` and what the request does around it;
`EndSessions`/`CloseLinks` the sign-out and password change, `Rename`/`RetireRenaming` an
admin's rename, `FindStale`/`RetireStale` the nickname sweep and
`StartCheck`/`CheckLink`/`CloseLapsed` the revocation sweep with its snapshot of `LINKS`.
People do not share connections, so one person is enough; the others in a sweep are
the time that passes between its steps.

### SignIn

`password` is the number of each email's password, `token` the tokens table,
`sessions` and `trusted` the tables they are named for, `tries`, `ipTries` and
`strict` the sign-in budget.  A browser's submission (`form`) goes through
`SubmitTrusted`/`SubmitCounted`/`SubmitBlocked` (the budget), `BotAnswers` (the
challenge), `CheckPassword` (argon2 in a thread), `AnswerWrong`/`AnswerRight` (the
refund, and a code that is bound to the browser and mailed).  `right` is a submission that
passed both checks; a right password with a failed bot check goes the way of a wrong one.
`EnterCode` and `EnterCodeTrusting` are `post_code` up to its padding; the new cookie of a
trusted browser waits in `reply`, where it is `Delivered` or `Lost`, while the row of it is in the
store already.  `SendLink`, `OpenLink`, `RefuseForm`, `ConsumeLink`, `SetPassword`, `EndSessions` are
`setpw.py` with its awaits, `OwnerSetsPassword` is `irc-lens guests passwd`, which ends no
session.  `Restart` ends every handler.  Histories record who typed which password for a code
(`typed`), counted submissions that failed a check (`refused`), the passwords that links set
(`set`), and emails of which a restart cut a reset short (`cut`).

### GuestData

What the guest store keeps of a guest from the mailed code to the erasure: the rows of
`guests` (`nicks`, `nick`), `consents`, `inputs` and `rooms`, the tokens, the flag log
and its `.tmp` file.  `IssueCode`/`SendGuestCode`, `PostCode`, `Entering`,
`PostNickname` are the entry, with and without the sign-in page (`appSignin`);
`Visiting` a page, and a line with its verdict, the connection it goes to
(`ExecuteLine`) and, after an await, the record of it and of its answer (`RecordLine`);
on a connection that was closed meanwhile a line goes nowhere and may be recorded
nevertheless.  The flag log is another process's: what was sent under a nick is `heard`,
and `FlagLine` appends to the log at any later time.  `Configs` says whether the lens
knows the path of that log; if not, nothing of it is purged.  `SignOff` is the end of a
session.  An erasure runs in a thread: `Erasing` is its file operations and transactions
one by one, for `RequestDeletion`/`ConfirmDeletion` and for the sweep (`SweepLists`,
`SweepNext`).  `recent` says per guest which tables have a row younger than the
retention period; `Ages` takes it away.  `Shake` records deletions that something else
ran beside, `late` what was flagged since a deletion read the log; a line appended
between that read and `os.replace` is lost with the old file, whoever's it is.

### Mail

`rows` is the attempts table, a set of records (`nth` tells attempts of one key and time
apart, as the table's row ids do), `sent` the ceiling's queue.  Histories are `pairs`,
the two rows of each mail that got both, and `taken`, the times at which this process
let mail pass.  A mail is a worker thread: the lock of the guest budget, its checks and
its rows, the clock of the ceiling, its lock and the provider's call are steps, and
`Advance` (time), `Sweep` and `Crash` (a restart of the process: `rows` stays, `sent` is
lost) come between any two.  `StoreFails` ends a mail at either of its rows.  The alert
about a mail that is refused changes nothing here: the alerter neither waits nor raises.

### Threat

Producers read the clock and count later (`ReadClock`, `Increment`); `Check`,
`CheckCompleted`, `CheckCurrent` are `RuleMonitor.check` with the two snapshots it takes;
`Submit`, `Thread`, `Fire`, `Timer` the decider: the call's thread, the timer that may fire
late, and the generation and flag that decide which of them tells the alerter.  `Submit` may
fail to start its thread, `StartTimer` its timer.  `Tell` is `Alerter.notify`: it keeps the time
and starts a post, or holds the notice back (`Spacing`); `notices` counts the calls of it.
Counts are abstracted to whether a rule is crossed.

### Rooms

The grants are committed rows (`grants`), a writer changes them page by page (`Begin`,
`Flush`, `Commit`, `Die`), and every check reads them through the cache, trusted as
long as the file's change counter stands still (`TakeStamp`, `Read`).  `loop` is the
stretch of code the event loop runs, so a writer comes between two reads but another
coroutine does not.  `LineArrives`, `LineSweeps`, `LineShown` are a line from the server;
`Execute`, `Enforce`, `May`, `Written`, `Publish`, `History` a command (join, part, switch,
chat, read); `PartTask` the part that a sweep schedules.  `leaked` records a room
shown or written to although no grant of it existed since the line or command began; what
an entry with a dead writer's stamp lets pass is excused within its lifetime (`Excused`), and a
command keeps that of its own room when it goes on (`Checked`).

### EventBus

Events are numbers in the order of publication, 0 is the overflow notice.  `Publish` is
the whole of `SessionEventBus.publish` for every subscriber (a full queue loses its
oldest message, and in a new burst a second one for the notice); `Subscribe`,
`Prepared`, `Take`, `KeepAlive`, `Written`, and the failing writes are the SSE handler.

### Members

Three coroutines ask WHO: the roster refresh, the background mesh task, and the
command under the dispatch lock (`/mesh`, `/who` of one room, `/agents` of all).  `queue`
holds the per-room locks, `buf` the collect buffers, `up` and `down` the connection, in
order.  A room's membership is a number that grows with every change, so a list of
members is the set of numbers its rows were true at, and a list mixed from two answers
shows.  The server answers, changes rooms and may stay silent; `Timeout` is `QUERY_TIMEOUT`,
after which `late` is set.  A change comes with a line (`Change`) or without one (`Vanish`: a bot
that leaves, a connection cut off), and `Poll`, any number of times, is what the page does about
the latter (`GET /presence`).  `due` is the membership that the last told change, poll, attached
stream or switch asks the list to show.

### Agents

One person, one agent at most.  A tool call verifies its credential, then passes the
checks of `agent_auth` and `agent_session_for` (`CheckHuman`, `CheckNick`, `Gate`), finds
or opens the connection, and each check is a step, since each runs in a thread.  The
sweeps are `SweepStart`/`SweepLook`/`SweepClose` (credentials and people),
`NickList`/`NickCompare`/`Retire` (nicknames), `BanStart`/`BanLook`/`BanClose`/`BanPurge`
(banned guests) and `Reap` (guests who signed off).  `CloseAgent` is the
disconnection a handler owes after it changed the store.

## 3. What the runs check

| Run | Instance | Shows |
|---|---|---|
| `access` | 2 people, 1 guest, `bob`/`BOB`/`eve`, 2 tokens, 1 two-step operation beside whole ones, starts with no configured admin or with two | `NicknameNeverReassigned`, `CredentialNickOwned`: nicknames, and agent nicks of people, never change hands; `AdminKept`, `OneLiveCredential` against crossing writes; `StartSound` against starts refused or cut short anywhere |
| `seats` | 2 guests, 1 seat, 2 requests, 1 address with a cap of 1 | `SeatLimit`, `ImplementsSeats`; `BannedLeave`, `ForgottenTab` under fairness |
| `registry` | the backend with eviction, 1 browser, a JWT opener, 2 requests, 1 rename | `NoneForgotten`, `EndedClosed`, `NickSettles` |
| `signin` | 1 email, 2 browsers, 2 codes, 1 link, 1 post, budgets of 1 and 0, an address limit of 2, 3 submissions, 1 password of the command line | `SessionEarned`, `TrustSound`, `CorrectIsFree`, `ResetLogsOut` |
| `guest` | 2 guests, 2 nicknames, 2 codes, 1 visit, 1 deletion, with sign-in page and flag log or without both | `QuietDeletion`, `FlagLinesGo`, `SweepSpares`, `UsableWasMailed`; `LeftoversGo` under fairness |
| `guest_kept` | 1 guest, 1 line, 1 deletion | the finding below |
| `rooms` | 2 rooms, a cache lifetime of 1, 2 write transactions, 1 command, 1 waiting line | `NothingLeaks`; `RevokedLeaves` under fairness |
| `eventbus` | 2 streams, queues of 3, 7 events | `InOrder`, `NewerKept`, `GoneStreamCloses` |
| `members` | 2 rooms, 3 coroutines, 3 events, any number of polls | `OneWhoPerRoom`, `ViewsFresh`, `CommandsEnd` |
| `agents` | an approved person and a guest, 2 calls, 3 events | `OpensAlone`, `AgentLeaves`, `AgentNickSettles`, `BannedCredentialGone` |
| `mail` | 2 threads, 2 sources, an hour of 1 and a day of 2 ticks, limits of 2, 3 mails, 1 restart | `BudgetKept`, `CeilingKept`, `ReserveKept`, `SweepHarmless` |
| `threat` | 1 producer, windows of 2 ticks, 2 calls a day, a spacing of 3, time up to 4 | `ToldOnce`, `CallsCapped`, `HotIsTold` |

### The bounds, and why they are enough

* *AccessStore.*  What goes wrong with a nickname needs two people and two names, one
  of them in two spellings.  One two-step operation is in flight, and every other operation
  may happen whole between its steps: for what a stale read can spoil, the second
  operation's own interruption adds nothing.  The theorems allow any number in
  flight.  Tokens bound the number of issues: two are a credential and its successor, or a
  person's and a guest's, who chooses the person's nickname.  Two lists of admins, an empty one
  (the standby of the docs) and a full one, are a first start that imports and one that does
  not, and let the list change before a later start.
* *GuestSeats.*  Two guests for one seat is the smallest contended seat.  Two requests
  are one that holds the lock and one that waits or acts outside it; logouts, sweeps
  and expiries are actors of their own.  The theorems hold for any numbers.
* *Registry.*  Two requests on one key are all that the lock separates; backends do
  not share state, and the one with eviction has the most paths.  One rename gives an
  old and a new nickname.
* *SignIn.*  Two browsers contend for a code, a trusted id and the budget of an email, two
  codes are one of before and one of after a reset, one link resets once.  A
  budget of one is full with one submission, the strict one of none blocks at once, and three
  submissions meet the address limit of two.  The command line sets a password once, before
  the link does; the theorem `ResetsLogOut` has no such bound.  Windows do not turn.  With one email a browser is never trusted for
  another one; the theorems about codes, trusted browsers, resets and budgets hold for any
  number of emails.
* *GuestData.*  Two guests are a guest and another erasure, or another owner of a nick;
  two codes let the guest come back after a deletion.  One visit is
  enough for a line that outlives its guest, and each nick that was heard may be flagged again and
  again.  The two configurations are the one of the docs and the one without both options; the
  options have no step in common.
* *Rooms.*  Two rooms, since a sweep reads once for all; two writes are a revocation and a
  dying writer that lends it a counter, or a revocation and a new grant.  A lifetime of
  one tick and one tick of time let a cached entry expire or not.  What a further command and
  longer times could add to a leak, an entry of one command that serves the next, is left to
  the theorem `NothingOfRevokedRooms`, which bounds neither.
* *Mail.*  A day longer than an hour, a row that is older than both and is not swept yet, and
  time for all of them to pass.  Three mails fill a limit of two; a ceiling of two with a
  share of two keeps one place for priority.  The program's share is a quarter of
  its ceiling.  One of the three mails may lose its source row, which is the case in which
  one source does fill the hour.
* *Threat.*  Three windows fit in time 4: one told by its own check, one by the
  check of the completed window, and a third call meets the cap of two.  The spacing is longer than a
  window, as in the program: a second window's notice is held back.
* *EventBus.*  `QueueMax` is 3 where the program has 256: the queue can overflow, the
  notice can be queued in front of kept events and be dropped itself, and seven events
  allow two bursts with a drain between.  The theorems hold for every `QueueMax >= 2`.
* *Members.*  Two rooms are needed for a switch during a query and for a graph of
  several answers; `MaxEvents` counts what users and the server come up with: membership
  changes, told or not, switches, commands, losses; polls are not counted.  Three of them put a
  request into a refresh that is under way and a change into each, and a `/switch` among
  polls that never end.  `MaxUnread` bounds the lines under way, and only once a query has timed
  out: before that the locks do.  The theorems hold for any number of
  rooms and any bound on events.
* *Agents.*  Two calls of one agent contend for its key; one guest and one approved
  person take all branches of the checks.  `MaxEvents` counts issues, revocations,
  removals, renames, presence and dropped connections.

Symmetry is used only in runs without liveness (`access`: tokens and emails; `signin`: browsers,
codes; `mail`: threads, sources).  `CHECK_DEADLOCK FALSE` is set for EventBus, Members,
GuestData, Mail and Rooms, whose bounded events run out and leave a system at rest.

### Fairness

Only what the scheduler gives is assumed.

* *Awaits return* (WF on each request's or call's `Proceed`): connections have a
  welcome timeout, queries `QUERY_TIMEOUT`, disconnects are local; a ready
  coroutine is run and a started thread goes on.  The IRC server is never assumed to answer.
* *Timers fire* (WF): reservations expire, the reaper, the rule check and
  each sweep tick, the keepalive and the decider's timer go off.
* *Strong fairness* where one periodic task or the loop meets a condition that comes and
  goes: `SweepFinds` (one sweep serves all guests in turn, each of them is looked at again and
  again), `FindStale` and `StartCheck` (enabled only between two rounds of the same
  task), `WriteFails` (of repeated writes to a client that is gone one fails: TCP
  accepts a few before the reset is known), `Command` and `PartTask` of Rooms (ready
  while other coroutines keep taking the loop, which runs what is ready in order).
* The world goes on in two places.  Time passes (GuestData, `TokensExpire` or `Ages` under one
  strong fairness): again and again a token of a guest expires or a retention period goes
  by without anything new of theirs.  `Say` (Rooms): people go on talking in some
  room, since `RevokedLeaves` is triggered by a line; which room is open.
* Apart from that no fairness for people: nobody has to come, act, log out or be banned.
  `ForgottenTab` says itself that the guest stops acting (weak fairness of `GoIdle`
  in its premise is the clock that runs), and that the server does not drop the
  connection for ever, since a poll then opens another and restarts the clock.  `CommandsEnd`
  says itself that a `/switch` or `/join` that runs the refresh loop ends if from some time on
  no request meets a refresh (`Calm`); every other command ends without that.

### Findings

`guest_kept`: a guest's line passes its checks and awaits its verdict and its run; a
deletion in between closes the session and erases the rows; the line's record, or that
of its answer, is written after it and stays until the retention sweep.  The docs say
that a confirmed deletion keeps nothing of the conversation.  `LeftoversGo` shows that the
sweep does find it, `QuietDeletion` that without such a line nothing stays.

Also met, each at a place where the model follows the code:

* `promote_on_signin` (`web/app_session.py:299`) reads the user and writes `approved` in a
  second transaction; a removal between the two is undone, while its docstring
  says a removed user is never promoted.
* `post_logout` (`web/entry.py:1099`) takes no guest lock: a request that passed the cookie
  check before it reserves and opens again after it, and the seat is held until the
  idle sign-off.
* `_expected_nick` (`web/nickname.py:297`) leaves people no longer approved to "the other
  sweeps", but these go by `LINKS`, which has nothing on a connection opened by an
  Access-JWT request.  `EndedClosed` is about connections an app session opened.
* `get_events` (`web/routes.py:1126`) subscribes before it prepares the response and outside
  its `try`; if the headers cannot be written the subscription stays.
* The comment at `web/nickname.py:296` takes it that guests' nicknames never change, but
  a guest who consents anew under another nickname changes it.  Their idle agent keeps
  the old nick until its next call, which closes it; `AgentNickSettles` speaks of
  approved people only.
* `ViewsFresh` and `OneWhoPerRoom` hold only while no query has timed out: the late
  answer of an abandoned query is taken by the next one for the same room.
* `session.py:729` runs the refresh loop until nobody asks, under the dispatch lock when a
  `/switch` or `/join` runs it.  With a silent server a round takes `QUERY_TIMEOUT`, and two
  tabs that poll every 15 s can ask in every round: the command, and all commands behind it,
  then wait as long as the tabs are open.
* `irc-lens guests passwd` (`cli/_commands/guests.py:103`) ends no session, while
  `docs/guest-mode-config.md:232` says of a new password that it ends them.  `ResetLogsOut` is
  about passwords set by link.
* A right password whose bot check failed stays counted (`web/entry.py:829`), while
  `docs/guest-mode-config.md:256` says that right passwords cost nothing.  `CorrectIsFree`
  is about submissions that passed both.
* `mail_budget.py:42` says that a source always leaves a global slot.  When the store fails,
  or the process ends, between the two rows of a mail (`mail_budget.py:64`), the global one has no
  source, and one source may fill the hour beside it.  `BudgetKept` says so.
* A line that sbx-ask appends after a deletion has read the flag log stays, and one that it
  appends between that read and `os.replace` is lost (`web/deletion.py:84`), be it another guest's.
  The docs (`guest-mode-config.md:625`) promise the purge without this.
* Two guests, unlike two people, can have the same agent nick
  (`access_store.py:613`): a flag raised against it is then nobody's.
* A post of an alert that fails, or whose thread cannot start, holds the next alert back like
  one that arrived (`alerts.py:161`); a decider's call whose timer cannot start ends without
  telling and stays in flight for good (`decider.py:172`).  `HotIsTold` names both.

## 4. What is proved

Every safety invariant, action property and refinement that a passing run checks is also a
theorem: it holds for every value of the constants that meets the named assumption of its
module (`ConstantsOK`, `SeatsOK`, `RegistryOK`, `BusOK`, `AgentsOK`, `SignInOK`,
`GuestDataOK`, `MailOK`, `ThreatOK`, `RoomsOK`, `MembersOK`), for any number of people,
guests, requests, streams, codes, rooms and operations in flight.

Three proof modules are about two components each.  They extend both, so the second of
the two has names of its own for what every module defines: `DataInit`, `DataNext` and
`DataSpec` of GuestData, `MailInit` and so on of Mail, `MembersInit` and so on of Members.

| Module | Inductive invariant | Theorems |
|---|---|---|
| AccessStore_proofs | `TypeOK`, `PendOK` (what an operation in flight still wants to write is well formed), `HolderOwns` (who has a nickname is its recorded holder), `IssueOwned` and `UsedTokenOK` and `RowsOwned` (so is the person with a nickname in a pending issue, and in a credential), `OneLiveCredential`; `ConsoleInv` (what a start relies on) | `StoreInvariant`, `StoreTyped`, `Distinct`, `NickOwned`, `OneLive`, `NeverReassigned`, `AdminsKept`, `StartsAreSound` |
| Guests_proofs, of GuestSeats | `TypeOK`, `RequestsOK`, `OneHolder` of the guest lock, `ClaimLimit`, `AddressCap`, `GaugeExact` | `SeatsInvariant`, `SeatsTyped`, `SeatsLimited`, `AddressesCapped`, `GaugeAlwaysExact`, `SeatsImplemented` |
| Guests_proofs, of GuestData | `DataTyped` (types; whoever has a row, or is about to, has a nickname), `UsableWasMailed`, `SpareInv` (the sweep erases one guest at a time), `QuietInv` (an undisturbed deletion, place by place) | `GuestDataTyped`, `CodesWereMailed`, `SweepTakesInactive`, `QuietHolds`, `DeletionLeavesNothing`, `DeletionPurgesLog` |
| Registry_proofs | `TypeOK`, `OneOpener` per key, `OpenUnregistered` (the key has no connection while one opens), `LinkNamesUser` | `RegistryInvariant`, `RegistryTyped`, `LinksNameUsers`, `NoneEverForgotten` |
| SignIn_proofs | `Base` (`TypeOK`; `Issued`: only issued tokens are mailed, bound or used; `FormSound`: what a submission has shown so far; `CodeBound`), `SessionEarned`, `TrustHeld`, `LinksApart`, `LinkSetsOnce`, `CorrectIsFree`, `ResetLogsOut` | `SignInInv`, `SignInTyped`, `SessionsAreEarned`, `TrustIsSound`, `LinksSetOnce`, `CorrectOnesAreFree`, `ResetsLogOut` |
| EventBus_proofs | `TypeOK`, `Known` (nothing queued is from the future), `InOrder`, `NewerKept`, `NewestLast` | `BusInvariant`, `BusTyped`, `EventsInOrder`, `NewerEventsKept`, `NewestEventLast` |
| Agents_proofs | `TypeOK`, `NicksCounted` (each nickname took an event), `OpensAlone` | `AgentsInvariant`, `AgentsTyped`, `AgentsOpenAlone` |
| Limits_proofs, of Threat | `Typed`, `Windows` (`Timely`, `Looked`, `Snapped`: windows, snapshots and the last alert in their order), `CallsSound`, `OneCallEach`, `Untold`, `ToldOnce`; `CapInv` (the calls of a day are still in the list) | `NoticesHold`, `NoticesSentOnce`, `CallsOneAtATime`, `CallsOncePerWindow`, `CallsInADay`, `CallsStayCapped` |
| Limits_proofs, of Mail | `MailTyped`, `Numbered` (attempts alike are told apart), `LockHeld`, `RoomLeft` (what the check saw is still so), the counts of `BudgetKept`; `PairsInv` (the two rows of a mail); `ReserveInv`; `CeilingInv` | `BudgetHolds`, `MailKeepsBudget`, `ReserveHolds`, `MailKeepsReserve`, `MailKeepsCeiling`, `MailSweepsHarmlessly` |
| Session_proofs, of Rooms | `StoreInv` (types, `GrantedNow`, `CacheDated`, `HotIsCut`), `SessionInv` (types, `Covered`, `CacheTrue`, `RoomChecked`), `NothingLeaks` | `RoomsLeakInv`, `NothingOfRevokedRooms` |
| Session_proofs, of Members | `Typed`, `LineUp` (a lock is a line of those who wait), `OneAnswer`, `Travel` and `Held` (how new the rows on the wire and in the buffers are), `RosterKept`, `GraphKept` | `MembersTyped`, `OneWhoAtATime`, `ViewsStayFresh` |

Why the invariants have to be stronger than the properties:

* *Nicknames.*  That no two people's nicknames differ only in case is not inductive: a
  first choice or an issue writes what was read long before.  The table of holders
  carries the argument: it only grows (`NextKeepsReservations`), each nickname in `users`,
  `creds` or `pend` has its holder in it, and a transaction that records a nickname checks
  it.  Distinctness and the two ownership properties follow.  `AdminsKept` needs no history:
  the guarded write counts the admins in its own transaction (`UpsertKeepsAdmin`), whatever
  was read before.
* *Starts.*  `StartSound` speaks of a later start.  `ConsoleInv` says why one never imports: the
  ledger is not empty once a console has served (a first start that imported nobody has left
  its mark), and a count that does not come after an import was begun on a ledger that is not
  empty.  The admin who was counted stays until the end of the start by `AdminsKept`, since
  no promotion is in flight while nothing is served.
* *Seats.*  `SeatLimit` is not inductive, because an open in flight is not a seat when its
  reservation has expired, and becomes one when it is registered.  `Claimed` counts these
  opens as seats already, `ClaimLimit` bounds them, and `OneHolder` says there
  is one open at a time.  The refinement (`SeatsImplemented`) uses that a step changes
  one guest's seat (`OneAtATime`) and that a seat is taken only while
  the claimed ones leave room.  Cardinalities need `IsFiniteSet(Guests)`.
* *Connections.*  That a registration buries nothing (`NoneEverForgotten`,
  `AgentsOpenAlone`) rests on the lock: while one request opens, the key is
  empty and nobody else opens; all closers only empty it.
* *Sign-in.*  A session is made from a code, a code from a submission, a submission from
  a form; `CodeBound` and `FormSound` carry the password that was typed along that way.
  `TrustHeld` says that the device id in a browser is unique before it is trusted.
  `CorrectIsFree` compares a counter with the number of forms in flight, a
  cardinality that the lemmas `CountKept`, `CountMore`, `CountLess` move by one.  `ResetLogsOut`
  holds in the middle of a reset only because of the post that still owes the logout.
* *Events.*  `NewerKept` after an overflow is a statement about the tail of a queue after
  one or two messages were dropped and up to two appended; `RoomMade` states once what
  the making of room returns, and `QueueMax >= 2` is what leaves room for
  the notice and the event.
* *Notices.*  That a window is told once needs an order: a window is alerted only above all
  that were reached before.  It holds because a completed window older than the alerted one
  has had its check (`Looked`), in the counters and in the snapshots a check carries
  across its two looks (`Snapped`).  A new alert is then untold, and of the call about it
  either the answer or the timer may tell (`MayTell`, `Untold`).
* *The cache.*  `CacheTrue` relates three readings of one counter: an entry with the
  counter's stamp is what is granted now, and one with the stretch's stamp was
  granted in it, since a commit is flushed, and so counted, before it changes what is granted.  A
  writer that dies in its commit breaks that, its count is taken back and given again;
  `CacheDated` then bounds by the lifetime what the entry may still let pass, and `RoomChecked`
  carries the check over the awaits of a command.
* *Calls in a day.*  The cap is checked against a list from whose front what is older than
  a day is dropped.  `CapInv` says that for any time within the last day the list has at least
  as many entries from then on as calls began since; pruning (`PrunedKeeps`) drops nothing
  of that.  So a list shorter than the cap means fewer calls than the cap.
* *The mail budget.*  What a sender's check saw must still be so when it records, after the
  clock and the sweep have moved on: nobody else records while it holds the lock
  (`LockHeld`), and windows only lose rows (`RoomLeft`).  A row counts once more than before
  only if it is new, which `Numbered` says of attempts of one key and time
  (`RecordCounts`).  That a full hour has a slot of another source needs the link between
  a mail's two rows (`PairsInv`): were every slot one source's, the source's own rows would be as
  many and as young, against its cap.
* *The reserve and the ceiling.*  A refused priority mail finds the queue full; of the
  others there are at most the ceiling less its share in it (`ReserveInv`), so the rest is
  priority mail.  The queue is not in order of time, for threads read the clock before the lock.
  `CeilingInv` says that it nevertheless has, for any moment of the last day, as many
  entries from then on as mails passed since: what is popped is past for its reader, whose clock
  is no later than the present one.
* *Deletion.*  `QuietDeletion` is about the end of a deletion.  `QuietInv` says what each of
  its places has achieved already: the session is closed before the log is read, the kept
  lines and the `.tmp` have none of the guest, the log then only what was flagged since (`late`),
  and when the rows are gone
  nothing is left from which one could be written.  Whatever could put something back counts as
  running beside the deletion (`Beside`): a form, a page or a mail of the guest, and another
  erasure, which rewrites the same log.  All other steps leave what a place has achieved alone (`Undisturbed`), and so does
  everything but a new code once the deletion is done (`GoneStays`).
* *The queries.*  An answer carries only its room.  That it is for the one who waits
  (`OneAnswer`) follows from the line before the lock: the head alone has a query out
  (`LineUp`), and leaves, before a timeout, only after the end of its answer, when nothing
  of the room is on its way (`QuietRoom`).
* *What a query brings.*  The row is the membership of when the server answered: it equals
  the present one unless a change of the room travels behind it, and is no older than the
  last JOIN unless a JOIN does (`Travel`).  `Held` carries this into the buffer, whose rows
  are, before a timeout, those of the holder's own answer (`NoStrayRow`).
* *The views.*  Each is new, or there is a reason why it will be, and every step hands on a
  reason.  For the list (`RosterKept`): a refresh is asked for or owed, a change of the room is
  on its way and will ask for one, or the one that runs will bring a list no older than `due`.
  A departure without a line asks for nothing, and raises `due` only with the next poll.  The
  graph has two builders, and the slower must not draw over the newer: `Follows` orders them by
  the rooms they have asked and, in one room, by their places in its lock, which serves
  them in turn, so neither overtakes the other.  `GraphKept` says that the one that draws last
  (`Last`) has every room as new as its last JOIN, if nothing else is owed (`Summoned`,
  `JoinAfter`).

Only model-checked: all liveness (`BannedLeave`, `ForgottenTab`, `EndedClosed`, `NickSettles`,
`GoneStreamCloses`, `CommandsEnd`, `AgentLeaves`, `AgentNickSettles`, `BannedCredentialGone`,
`LeftoversGo`, `HotIsTold`, `RevokedLeaves`), since fairness and ENABLED are out of the
prover's reach; and the violation of `NothingKept`.  No theorem needs induction over data:
counts are moved by one step at a time with the library's facts about cardinalities.

## 5. Left out, and why

Wording, logging, rendering and layout; message bodies; the spelling rules of nicknames
(nicknames are values that differ or are equal up to case); cookies' signatures and
contents; CSRF tokens, the verification of Access JWTs and its cache of keys, which are
functions of one request.  Except in Mail, Threat and Rooms time is a choice: what expires may expire
at any step.  sqlite's own durability is taken as given; that a commit is not one step to a
reader of the file is modelled in Rooms, where it matters.

AccessStore takes the mesh server and the sandbox to have different names: agent nicks begin
with them.  Mail leaves out the alerts about refused mail; the alerter, taken to be configured, is
part of Threat.

In Members the joined rooms are fixed, LIST and the collector of HISTORY are absent; they use
the same lock and buffer under keys of their own.  In Agents everybody has a nickname, and the kill
switch, the throttle of refused calls and the deletion of a guest are absent.  In GuestData the
validator's prompt, cap and timeout, and the gate's rate windows, only decide
between outcomes that are all modelled.  In Rooms one command runs, under the dispatch lock,
and mentions, topics and the thinking line are absent.

Not modelled: the media store (files written once; its one interleaving, an upload
beside the erasure of its guest, is listed as a hazard), the agents' inbox and tools (filled
and read without an await; the tools run operations that Rooms and Members have), export
and standby (a report and a flag), configuration, command line parsing, seeds, rendering and
front (sequential text processing without state), and the chat-edge worker (deployed
separately).

## 6. Plan

The order is that of the harm an error does.  Done: AccessStore, Seats and GuestSeats,
Registry, EventBus, Members, Agents, SignIn, GuestData, Mail, Threat, Rooms; and the proofs
of all the safety properties their runs check.  Next:

1. Abstract specifications beside Seats, and refinements to them: a ledger of
   nicknames for AccessStore, a log with a bounded view for EventBus, one holder of a key
   for Registry and Agents.
2. *Media*: uploads in flight against eviction and erasure, with an abstract
   specification of a store that keeps nothing of an erased guest.
3. *Inbox*: what an agent reads exactly once, per target, when old lines fall out.
4. A composition of Rooms with Members: the joined rooms of the graph under
   revocation.
