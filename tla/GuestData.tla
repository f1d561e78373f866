----------------------------- MODULE GuestData -----------------------------
(***************************************************************************)
(* What the guest store keeps of a guest, from the mailed code to its      *)
(* erasure (the guest half of entry.py, deletion.py, retention.py, the     *)
(* guests, consents, inputs and rooms of guest_store.py, the guest part of *)
(* POST /input in routes.py).                                              *)
(*                                                                         *)
(* Handlers run on one event loop and an action ends where one awaits.  An *)
(* erasure runs in a thread of its own: each of its file operations and    *)
(* each transaction is an action.  Who gets a seat is GuestSeats' subject; *)
(* here a seat may always turn out to be taken.                            *)
(*                                                                         *)
(* One token of a purpose is live for a guest at a time, and a guest has   *)
(* at most one entry, one visit and one deletion in progress.  Of the      *)
(* recorded lines only whether there are any is kept.                      *)
(***************************************************************************)
EXTENDS Naturals, FiniteSets

CONSTANTS
    Emails,      \* email addresses
    Nicks,       \* nicknames
    None,
    Configs,     \* the lens's configurations: is there a sign-in page, and
                 \* does the lens know the path of sbx-ask's flag log
    Followed,    \* the guests whose fairness is assumed
    Retention,   \* the retention task, an eraser next to the guests
    MaxCodes,    \* bound: codes issued
    MaxVisits,   \* bound: pages and lines of guests
    MaxDeletes   \* bound: deletions asked for

Erasers == Emails \cup {Retention}

ASSUME GuestDataOK ==
    /\ Configs \subseteq [signin : BOOLEAN, flagLog : BOOLEAN]
    /\ Followed \subseteq Emails
    /\ None \notin Emails \cup Nicks /\ Retention \notin Emails
    /\ {MaxCodes, MaxVisits, MaxDeletes} \subseteq Nat

VARIABLES
    appSignin, flagLogSet,  \* the configuration
    nicks,      \* per guest, the nicks of their guests rows
    nick,       \* per guest, the nick of the last of these rows
    consents,   \* guests with a consents row
    inputs,     \* guests with recorded lines or answers
    rooms,      \* guests with a rooms row
    recent,     \* per guest, the tables with a row younger than the
                \* retention period
    tokens,     \* per guest, the purposes of their live tokens
    mailing,    \* guests whose code is being mailed
    session,    \* per guest, the nick of the open sandbox session
    heard,      \* nicks with lines that sbx-ask may yet write to its log
    flagLog,    \* nicks with lines in sbx-ask's flag log
    tmp,        \* the nicks in the flag log's .tmp file, {} for no file
    entry,      \* per guest, the entry in progress
    visit,      \* per guest, the page or line in progress
    eraser,     \* the erasures; a guest's stays "done" until a new code
    listed,     \* guests the retention sweep has still to erase
    used,       \* the bounded counters
    known,      \* history: guests that hold a live code
    spare,      \* history: guests with activity when the sweep listed
    shaken,     \* history: deletions that something else ran beside
    late        \* history: per deletion, the nicks of the guest flagged
                \* since it read the flag log, {} outside of one

store == <<nicks, nick, consents, inputs, rooms, recent, tokens>>
flags == <<heard, flagLog, tmp, late>>
config == <<appSignin, flagLogSet>>
dataVars == <<config, store, flags, mailing, session, entry, visit,
              eraser, listed, used, known, spare, shaken>>

NoEntry == [at |-> "none", nick |-> None, returns |-> FALSE]
NoVisit == [at |-> "none", nick |-> None, flagged |-> FALSE]
NoErase == [at |-> "none", guest |-> None, kept |-> {}]

(* The purpose of the token that a nickname is entered with: the welcome   *)
(* token, or the mailed code itself in the flow without a sign-in page.    *)
Purpose == IF appSignin THEN "welcome" ELSE "guest"

NickTaken(g, n) == \E h \in Emails \ {g} : n \in nicks[h]
Touches(g, t) == recent' = [recent EXCEPT ![g] = @ \cup {t}]
Spends(g, p) ==
    /\ tokens' = [tokens EXCEPT ![g] = @ \ {p}]
    /\ known' = IF p = "guest" THEN known \ {g} ELSE known
Issues(g, p) == tokens' = [tokens EXCEPT ![g] = @ \cup {p}]
Counts(what, max) == used[what] < max /\ used' = [used EXCEPT ![what] = @ + 1]
Moves(g, e) == entry' = [entry EXCEPT ![g] = e]
Goes(g, v) == visit' = [visit EXCEPT ![g] = v]

(* record_guest: one more row, the last one naming the guest.              *)
RecordGuest(g, n) ==
    /\ nicks' = [nicks EXCEPT ![g] = @ \cup {n}]
    /\ nick' = [nick EXCEPT ![g] = n]
    /\ Touches(g, "guests")

(* record_input.                                                           *)
RecordInput(g) == inputs' = inputs \cup {g} /\ Touches(g, "inputs")

HasRows(g) == nicks[g] # {} \/ g \in consents \/ g \in inputs \/ g \in rooms

(* Slips the properties are tried against: a code whose mail failed stays; *)
(* the erasure forgets the room; activity is only what created a guests    *)
(* row; the sweep looks for guests only; only the last nick is purged.     *)
LeftLive(g) == UNCHANGED <<tokens, known>>
RoomsKept(g) == rooms
IdleGuests(g) == HasRows(g) /\ "guests" \notin recent[g]
GuestsOnly(g) == nicks[g] # {} /\ recent[g] = {}
LastNick(g) == nicks[g] \cap {nick[g]}

(* _revoke_unmailed.                                                       *)
RevokeUnmailed(g) == Spends(g, "guest")

(* A full sandbox: the busy page, and the token stays usable.              *)
TurnAway(g, p) == UNCHANGED <<tokens, known>>

RoomsAfter(g) == rooms \ {g}

(* The nicks of all rows of the guest, first to last.                      *)
Borne(g) == nicks[g]

(* inactive_guests.                                                        *)
Inactive(g) == HasRows(g) /\ recent[g] = {}

DataInit ==
    /\ \E c \in Configs : appSignin = c.signin /\ flagLogSet = c.flagLog
    /\ nicks = [g \in Emails |-> {}]
    /\ nick = [g \in Emails |-> None]
    /\ consents = {}
    /\ inputs = {} /\ rooms = {}
    /\ recent = [g \in Emails |-> {}]
    /\ tokens = [g \in Emails |-> {}]
    /\ mailing = {}
    /\ session = [g \in Emails |-> None]
    /\ heard = {} /\ flagLog = {} /\ tmp = {}
    /\ entry = [g \in Emails |-> NoEntry]
    /\ visit = [g \in Emails |-> NoVisit]
    /\ eraser = [x \in Erasers |-> NoErase]
    /\ listed = {}
    /\ used = [codes |-> 0, visits |-> 0, deletes |-> 0]
    /\ known = {}
    /\ spare = {} /\ shaken = {} /\ late = [g \in Emails |-> {}]

(***************************************************************************)
(* The way in.                                                             *)
(***************************************************************************)

(* A code is issued and a task mails it.  (The guest who asks for one is   *)
(* no longer waiting for an earlier deletion.)                             *)
IssueCode(g) ==
    /\ "guest" \notin tokens[g] /\ g \notin mailing /\ entry[g].at = "none"
    /\ eraser[g].at \in {"none", "done"}
    /\ Counts("codes", MaxCodes)
    /\ Issues(g, "guest")
    /\ mailing' = mailing \cup {g}
    /\ eraser' = [eraser EXCEPT ![g] = NoErase]
    /\ UNCHANGED <<config, nicks, nick, consents, inputs, rooms, recent>>
    /\ UNCHANGED <<flags, session, entry, visit, listed, known, spare>>

(* _send_guest_code.  The budget or the mailer may refuse; an erasure may  *)
(* have taken the code in the meantime.                                    *)
SendGuestCode(g) ==
    /\ g \in mailing
    /\ mailing' = mailing \ {g}
    /\ \/ /\ known' = IF "guest" \in tokens[g] THEN known \cup {g} ELSE known
          /\ UNCHANGED tokens
       \/ RevokeUnmailed(g)
    /\ UNCHANGED <<config, nicks, nick, consents, inputs, rooms, recent>>
    /\ UNCHANGED <<flags, session, entry, visit, eraser, listed, used, spare>>

(* Every token has a time to live.                                         *)
TokensExpire(g) ==
    /\ tokens[g] # {} /\ g \notin mailing
    /\ tokens' = [tokens EXCEPT ![g] = {}]
    /\ known' = known \ {g}
    /\ UNCHANGED <<config, nicks, nick, consents, inputs, rooms, recent>>
    /\ UNCHANGED <<flags, mailing, session, entry, visit, eraser, listed, used, spare>>

(* post_code: the right code, then the legal versions are waited for.      *)
PostCode(g) ==
    /\ appSignin /\ entry[g].at = "none"
    /\ g \in known /\ "guest" \in tokens[g]
    /\ Moves(g, [NoEntry EXCEPT !.at = "code"])
    /\ UNCHANGED <<config, store, flags, mailing, session, visit>>
    /\ UNCHANGED <<eraser, listed, used, known, spare>>

(* _post_code_guest up to _pad: the guest's row is read, the seat checked  *)
(* and the code spent.  The versions may be unavailable, and a consent may *)
(* be to versions no longer current.                                       *)
CodeVersions(g) ==
    /\ entry[g].at = "code"
    /\ \/ /\ Moves(g, NoEntry)
          /\ UNCHANGED <<tokens, known>>
       \/ /\ Moves(g, NoEntry)
          /\ "guest" \in tokens[g]
          /\ TurnAway(g, "guest")
       \/ \E current \in BOOLEAN :
          /\ "guest" \in tokens[g]
          /\ Moves(g, [at |-> "pad", nick |-> nick[g],
                returns |-> nicks[g] # {} /\ g \in consents /\ current])
          /\ Spends(g, "guest")
    /\ UNCHANGED <<config, nicks, nick, consents, inputs, rooms, recent>>
    /\ UNCHANGED <<flags, mailing, session, visit, eraser, listed, used, spare>>

(* ... and after it: straight in under the nick read before, or the        *)
(* welcome form.                                                           *)
CodeEnters(g) ==
    /\ entry[g].at = "pad"
    /\ Moves(g, NoEntry)
    /\ IF entry[g].returns
       THEN RecordGuest(g, entry[g].nick) /\ UNCHANGED tokens
       ELSE Issues(g, "welcome") /\ UNCHANGED <<nicks, nick, recent>>
    /\ UNCHANGED <<config, consents, inputs, rooms, flags, mailing>>
    /\ UNCHANGED <<session, visit, eraser, listed, used, known, spare>>

(* post_welcome, or post_verify without a sign-in page: the nickname is    *)
(* checked, then the legal versions are waited for.                        *)
PostNickname(g, n) ==
    /\ entry[g].at = "none"
    /\ Purpose \in tokens[g] /\ (~appSignin => g \in known)
    /\ ~NickTaken(g, n)
    /\ Moves(g, [at |-> "nick", nick |-> n, returns |-> FALSE])
    /\ UNCHANGED <<config, store, flags, mailing, session, visit>>
    /\ UNCHANGED <<eraser, listed, used, known, spare>>

(* Unavailable versions and a seat taken meanwhile leave the token for     *)
(* another try; a token used or erased meanwhile ends the entry.           *)
NicknameVersions(g) ==
    /\ entry[g].at = "nick"
    /\ \/ /\ Moves(g, NoEntry)
          /\ UNCHANGED <<nicks, nick, recent, tokens, known>>
       \/ /\ Purpose \in tokens[g]
          /\ Moves(g, NoEntry)
          /\ TurnAway(g, Purpose)
          /\ UNCHANGED <<nicks, nick, recent>>
       \/ /\ Purpose \in tokens[g]
          /\ Spends(g, Purpose)
          /\ RecordGuest(g, entry[g].nick)
          /\ Moves(g, [NoEntry EXCEPT !.at = "consent"])
    /\ UNCHANGED <<config, consents, inputs, rooms, flags, mailing>>
    /\ UNCHANGED <<session, visit, eraser, listed, used, spare>>

(* record_consent, a transaction after record_guest's.                     *)
RecordConsent(g) ==
    /\ entry[g].at = "consent"
    /\ consents' = consents \cup {g}
    /\ Touches(g, "consents")
    /\ Moves(g, NoEntry)
    /\ UNCHANGED <<config, nicks, nick, inputs, rooms, tokens, flags>>
    /\ UNCHANGED <<mailing, session, visit, eraser, listed, used, known, spare>>

(***************************************************************************)
(* Pages and lines.                                                        *)
(***************************************************************************)

(* GET / or POST /input: _guest_identity finds the row of the cookie's     *)
(* email.                                                                  *)
FindGuest(g) ==
    /\ visit[g].at = "none" /\ nicks[g] # {}
    /\ Counts("visits", MaxVisits)
    /\ Goes(g, [at |-> "gate", nick |-> nick[g], flagged |-> FALSE])
    /\ UNCHANGED <<config, store, flags, mailing, session, entry>>
    /\ UNCHANGED <<eraser, listed, known, spare>>

(* _guest_consent_gate, which fails closed: without the versions, with a   *)
(* consent to older ones or with none.                                     *)
ConsentGate(g) ==
    /\ visit[g].at = "gate"
    /\ \/ Goes(g, NoVisit)
       \/ g \in consents /\ Goes(g, [visit[g] EXCEPT !.at = "open"])
    /\ UNCHANGED <<config, store, flags, mailing, session, entry>>
    /\ UNCHANGED <<eraser, listed, used, known, spare>>

(* A page is then done; a line goes on, with the connection it found,      *)
(* unless that is lost or the input gate refuses it.                       *)
GateLine(g) == \/ Goes(g, NoVisit)
               \/ Goes(g, [at |-> "check", nick |-> session'[g], flagged |-> FALSE])

(* _open_guest: the sandbox may be full or down; opening assigns the room. *)
OpenGuest(g) ==
    /\ visit[g].at = "open"
    /\ \/ Goes(g, NoVisit) /\ session[g] = None /\ UNCHANGED <<session, rooms>>
       \/ /\ IF session[g] = None
             THEN /\ session' = [session EXCEPT ![g] = visit[g].nick]
                  /\ rooms' = rooms \cup {g}
             ELSE UNCHANGED <<session, rooms>>
          /\ GateLine(g)
    /\ UNCHANGED <<config, nicks, nick, consents, inputs, recent, tokens>>
    /\ UNCHANGED <<flags, mailing, entry, eraser, listed, used, known, spare>>

(* _check_guest_line: a blocked or flagged line is recorded when the       *)
(* answer is there.                                                        *)
CheckLine(g) ==
    /\ visit[g].at = "check"
    /\ \/ RecordInput(g) /\ Goes(g, NoVisit)
       \/ RecordInput(g) /\ Goes(g, [visit[g] EXCEPT !.at = "execute", !.flagged = TRUE])
       \/ Goes(g, [visit[g] EXCEPT !.at = "execute"]) /\ UNCHANGED <<inputs, recent>>
    /\ UNCHANGED <<config, nicks, nick, consents, rooms, tokens, flags, mailing>>
    /\ UNCHANGED <<session, entry, eraser, listed, used, known, spare>>

(* session.execute: the line goes to the sandbox, where sbx-ask hears it.  *)
(* A line on a connection closed meanwhile goes nowhere.  Either way the   *)
(* send may fail, and the line is not recorded then.                       *)
ExecuteLine(g) ==
    /\ visit[g].at = "execute"
    /\ heard' = heard \cup ({visit[g].nick} \ {None})
    /\ \/ Goes(g, NoVisit)
       \/ Goes(g, [visit[g] EXCEPT !.at = "record", !.nick = None])
    /\ UNCHANGED <<config, store, flagLog, tmp, late, mailing>>
    /\ UNCHANGED <<session, entry, eraser, listed, used, known, spare>>

(* input_gate.record, when execute has returned; a flagged line is stored  *)
(* already.                                                                *)
RecordLine(g) ==
    /\ visit[g].at = "record"
    /\ Goes(g, NoVisit)
    /\ IF visit[g].flagged THEN UNCHANGED <<inputs, recent>> ELSE RecordInput(g)
    /\ UNCHANGED <<config, nicks, nick, consents, rooms, tokens, flags, mailing>>
    /\ UNCHANGED <<session, entry, eraser, listed, used, known, spare>>

(* sbx-ask, a process of its own, appends a line it heard to its flag log, *)
(* or never does, in its own time.                                         *)
FlagLine(n) ==
    /\ n \in heard
    /\ flagLog' = flagLog \cup {n}
    /\ late' = [g \in Emails |->
                    IF n \in nicks[g] /\ eraser[g].at \in {"write", "replace", "rows"}
                    THEN late[g] \cup {n} ELSE late[g]]
    /\ UNCHANGED <<config, store, heard, tmp, mailing, session, entry, visit>>
    /\ UNCHANGED <<eraser, listed, used, known, spare>>

(* answer_recorder: sbx-ask answers in the room of an open session.        *)
Answer(g) ==
    /\ session[g] # None
    /\ RecordInput(g)
    /\ UNCHANGED <<config, nicks, nick, consents, rooms, tokens, flags, mailing>>
    /\ UNCHANGED <<session, entry, visit, eraser, listed, used, known, spare>>

(* A session closes under the line that found it, if there is one.         *)
Closes(g) ==
    /\ session' = [session EXCEPT ![g] = None]
    /\ visit' = IF visit[g].at \in {"check", "execute"}
                THEN [visit EXCEPT ![g].nick = None] ELSE visit

(* The idle sign-off and post_guest_logout.                                *)
SignOff(g) ==
    /\ session[g] # None
    /\ Closes(g)
    /\ UNCHANGED <<config, store, flags, mailing, entry>>
    /\ UNCHANGED <<eraser, listed, used, known, spare>>

(***************************************************************************)
(* Erasure.                                                                *)
(***************************************************************************)

(* post_request: only a guest is mailed a token.                           *)
RequestDeletion(g) ==
    /\ nicks[g] # {} /\ "delete" \notin tokens[g]
    /\ Counts("deletes", MaxDeletes)
    /\ Issues(g, "delete")
    /\ UNCHANGED <<config, nicks, nick, consents, inputs, rooms, recent>>
    /\ UNCHANGED <<flags, mailing, session, entry, visit, eraser, listed, known, spare>>

Erases(x, e) == eraser' = [eraser EXCEPT ![x] = e]

(* post_confirm: the token is spent before anything is closed or erased.   *)
ConfirmDeletion(g) ==
    /\ eraser[g].at \in {"none", "done"} /\ "delete" \in tokens[g]
    /\ Spends(g, "delete")
    /\ Erases(g, [at |-> "close", guest |-> g, kept |-> {}])
    /\ UNCHANGED <<config, nicks, nick, consents, inputs, rooms, recent>>
    /\ UNCHANGED <<flags, mailing, session, entry, visit, listed, used, spare>>

CloseSession(g) ==
    /\ eraser[g].at = "close"
    /\ Closes(g)
    /\ Erases(g, [eraser[g] EXCEPT !.at = "read"])
    /\ UNCHANGED <<config, store, flags, mailing, entry>>
    /\ UNCHANGED <<listed, used, known, spare>>

(* GuestStore.sweep reads the inactive guests once ...                     *)
SweepLists ==
    /\ eraser[Retention].at = "none" /\ listed = {}
    /\ listed' = {g \in Emails : Inactive(g)} /\ listed' # {}
    /\ spare' = {g \in Emails : recent[g] # {}}
    /\ UNCHANGED <<config, store, flags, mailing, session, entry, visit>>
    /\ UNCHANGED <<eraser, used, known>>

(* ... and erases them one after the other.                                *)
SweepNext(g) ==
    /\ eraser[Retention].at = "none" /\ g \in listed
    /\ listed' = listed \ {g}
    /\ Erases(Retention, [at |-> "read", guest |-> g, kept |-> {}])
    /\ UNCHANGED <<config, store, flags, mailing, session, entry, visit>>
    /\ UNCHANGED <<used, known, spare>>

(* Where purge_flag_log goes on after its checks: a guest without nicks, a *)
(* lens without the path, or a file that is not there leave it out.        *)
Purge(g) == IF Borne(g) = {} \/ ~flagLogSet THEN {"rows"}
            ELSE IF flagLog = {} THEN {"rows", "write"} ELSE {"write"}

(* erase_guest_data and purge_flag_log: the nicks and the log are read ... *)
ReadLog(x) ==
    /\ eraser[x].at = "read"
    /\ LET g == eraser[x].guest IN
       \E step \in Purge(g) :
          Erases(x, [at |-> step, guest |-> g,
             kept |-> IF step = "write" THEN flagLog \ Borne(g) ELSE {}])
    /\ UNCHANGED <<config, store, flags, mailing, session, entry, visit>>
    /\ UNCHANGED <<listed, used, known, spare>>

(* ... what is kept is written to the one .tmp file of the log ...         *)
WriteTmp(x) ==
    /\ eraser[x].at = "write"
    /\ tmp' = {eraser[x].kept}
    /\ Erases(x, [eraser[x] EXCEPT !.at = "replace", !.kept = {}])
    /\ UNCHANGED <<config, store, heard, flagLog, late, mailing, session>>
    /\ UNCHANGED <<entry, visit, listed, used, known, spare>>

(* What was flagged late is forgotten when the deletion ends.              *)
Ended(x) == [g \in Emails |-> IF g = x THEN {} ELSE late[g]]

(* A sweep that is through has nobody left to spare.                       *)
Forgets(x) ==
    spare' = IF x = Retention /\ eraser'[x] = NoErase /\ listed' = {}
             THEN {} ELSE spare

(* ... which replaces the log.  Without the file os.replace raises, which  *)
(* ends the deletion, or the sweep with all it had listed.                 *)
ReplaceLog(x) ==
    /\ eraser[x].at = "replace"
    /\ IF tmp = {}
       THEN /\ Erases(x, NoErase)
            /\ listed' = IF x = Retention THEN {} ELSE listed
            /\ late' = Ended(x)
            /\ UNCHANGED <<heard, flagLog, tmp>>
       ELSE /\ flagLog' = UNION tmp
            /\ tmp' = {}
            /\ Erases(x, [eraser[x] EXCEPT !.at = "rows"])
            /\ UNCHANGED <<listed, heard, late>>
    /\ Forgets(x)
    /\ UNCHANGED <<config, store, mailing, session, entry, visit>>
    /\ UNCHANGED <<used, known>>

(* delete_guest_inputs: one transaction.                                   *)
DeleteRows(x) ==
    /\ eraser[x].at = "rows"
    /\ LET g == eraser[x].guest IN
       /\ nicks' = [nicks EXCEPT ![g] = {}]
       /\ nick' = [nick EXCEPT ![g] = None]
       /\ consents' = consents \ {g}
       /\ inputs' = inputs \ {g}
       /\ rooms' = RoomsAfter(g)
       /\ recent' = [recent EXCEPT ![g] = {}]
       /\ tokens' = [tokens EXCEPT ![g] = {}]
       /\ known' = known \ {g}
    /\ Erases(x, IF x = Retention THEN NoErase ELSE [NoErase EXCEPT !.at = "done"])
    /\ late' = Ended(x)
    /\ UNCHANGED <<config, heard, flagLog, tmp, mailing, session, entry, visit>>
    /\ UNCHANGED <<listed, used>>
    /\ Forgets(x)

(* The retention period goes by with nothing recorded for the guest: far   *)
(* longer than any handler, sweep, session or token lasts.                 *)
Ages(g) ==
    /\ recent[g] # {}
    /\ entry[g].at = "none" /\ visit[g].at = "none" /\ session[g] = None
    /\ tokens[g] = {} /\ g \notin mailing
    /\ eraser[g].at \in {"none", "done"} /\ eraser[Retention].at = "none" /\ listed = {}
    /\ recent' = [recent EXCEPT ![g] = {}]
    /\ UNCHANGED <<config, nicks, nick, consents, inputs, rooms, tokens>>
    /\ UNCHANGED <<flags, mailing, session, entry, visit, eraser, listed, used, known, spare>>

Entering(g) == \/ CodeVersions(g) \/ CodeEnters(g)
               \/ NicknameVersions(g) \/ RecordConsent(g)
Visiting(g) == \/ ConsentGate(g) \/ OpenGuest(g) \/ CheckLine(g)
               \/ ExecuteLine(g) \/ RecordLine(g)
Erasing(x) == ReadLog(x) \/ WriteTmp(x) \/ ReplaceLog(x) \/ DeleteRows(x)

Step ==
    \/ \E g \in Emails :
        \/ IssueCode(g) \/ SendGuestCode(g) \/ TokensExpire(g)
        \/ PostCode(g) \/ Entering(g) \/ \E n \in Nicks : PostNickname(g, n)
        \/ FindGuest(g)
        \/ Visiting(g) \/ Answer(g) \/ SignOff(g)
        \/ RequestDeletion(g) \/ ConfirmDeletion(g) \/ CloseSession(g)
        \/ SweepNext(g) \/ Ages(g)
    \/ SweepLists
    \/ \E n \in Nicks : FlagLine(n)
    \/ \E x \in Erasers : Erasing(x)

(* A deletion is shaken once anything of the guest or another erasure runs *)
(* beside it.                                                              *)
Runs(x) == eraser[x].at \notin {"none", "done"}
Beside(g) == \/ entry[g].at # "none" \/ visit[g].at # "none" \/ g \in mailing
             \/ \E x \in Erasers \ {g} : Runs(x)
Shake == shaken' = {g \in Emails : /\ eraser'[g].at # "none"
                                   /\ g \in shaken \/ (Runs(g) /\ Beside(g))'}

DataNext == Step /\ Shake

DataSpec == DataInit /\ [][DataNext]_dataVars

(* Handlers and threads that have started go on, an idle session is signed *)
(* off, and the retention task comes back every hour: no more is asked for *)
(* than that one of a guest's, or of the erasers', steps happens as long   *)
(* as any can.  And time passes for a guest: again and again a token of    *)
(* theirs expires, or a period goes by with nothing recorded for them.     *)
GoOn(g) == Entering(g) \/ SendGuestCode(g) \/ Visiting(g) \/ SignOff(g)
Erase == \/ SweepLists
         \/ \E g \in Emails : CloseSession(g) \/ SweepNext(g)
         \/ \E x \in Erasers : Erasing(x)

FairDataSpec ==
    /\ DataSpec
    /\ WF_dataVars(Erase /\ Shake)
    /\ \A g \in Followed :
        /\ WF_dataVars(GoOn(g) /\ Shake)
        /\ SF_dataVars((TokensExpire(g) \/ Ages(g)) /\ Shake)

(***************************************************************************)
(* Properties.                                                             *)
(***************************************************************************)

EraserPlaces == {"none", "done", "close", "read", "write", "replace", "rows"}
Entries == [at : {"none", "code", "pad", "nick", "consent"},
            nick : Nicks \cup {None}, returns : BOOLEAN]
Visits == [at : {"none", "gate", "open", "check", "execute", "record"},
           nick : Nicks \cup {None}, flagged : BOOLEAN]
Erasures == [at : EraserPlaces, guest : Emails \cup {None}, kept : SUBSET Nicks]

DataTypeOK ==
    /\ appSignin \in BOOLEAN /\ flagLogSet \in BOOLEAN
    /\ nicks \in [Emails -> SUBSET Nicks]
    /\ nick \in [Emails -> Nicks \cup {None}]
    /\ consents \subseteq Emails /\ inputs \subseteq Emails
    /\ rooms \subseteq Emails
    /\ recent \in [Emails -> SUBSET {"guests", "inputs", "consents"}]
    /\ tokens \in [Emails -> SUBSET {"guest", "welcome", "delete"}]
    /\ mailing \subseteq Emails /\ session \in [Emails -> Nicks \cup {None}]
    /\ heard \subseteq Nicks
    /\ flagLog \subseteq Nicks /\ tmp \subseteq SUBSET Nicks
    /\ entry \in [Emails -> Entries] /\ visit \in [Emails -> Visits]
    /\ eraser \in [Erasers -> Erasures]
    /\ listed \subseteq Emails
    /\ used \in [{"codes", "visits", "deletes"} -> Nat]
    /\ known \subseteq Emails
    /\ spare \subseteq Emails /\ shaken \subseteq Emails
    /\ late \in [Emails -> SUBSET Nicks]

(* A deletion that nothing ran beside leaves no row, no session and no     *)
(* token of the guest until they ask for a new code, as post_confirm and   *)
(* delete_guest_inputs promise.                                            *)
QuietDeletion ==
    \A g \in Emails :
        eraser[g].at = "done" /\ g \notin shaken =>
            ~HasRows(g) /\ session[g] = None /\ tokens[g] = {}

(* When the rows go in such a deletion, the flag log holds no line under   *)
(* any nick the guest ever had, but for those that sbx-ask appended after  *)
(* the log was read (purge_flag_log); the lens must know the log's path.   *)
FlagLinesGo ==
    [][\A g \in Emails :
        flagLogSet /\ eraser[g].at = "rows" /\ (eraser[g].at = "done" /\ g \notin shaken)' =>
            nicks[g] \cap flagLog \subseteq late[g]]_dataVars

(* The sweep takes only guests who had nothing recent in any table when it *)
(* read them (inactive_guests takes the newest of three tables).           *)
SweepSpares == spare \cap (listed \cup {eraser[Retention].guest}) = {}

(* A usable code is being mailed or was: a code that was never mailed      *)
(* can't stay usable (_revoke_unmailed).                                   *)
UsableWasMailed ==
    \A g \in Emails : "guest" \in tokens[g] => g \in mailing \/ g \in known

(* What a late handler writes for a guest who is gone is found by the      *)
(* retention sweep and erased, though the guest has no row in guests any   *)
(* more (inactive_guests reads the inputs, consents and rooms as well).    *)
Leftover(g) == nicks[g] = {} /\ HasRows(g)
LeftoversGo == \A g \in Followed : Leftover(g) ~> ~Leftover(g)

(* "A confirmed deletion keeps nothing of the guest's conversation"        *)
(* (docs/guest-mode-config.md:625).                                        *)
NothingKept == \A g \in Emails : eraser[g].at = "done" => g \notin inputs
=============================================================================
