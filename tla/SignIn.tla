------------------------------- MODULE SignIn -------------------------------
(***************************************************************************)
(* App sign-in of approved people (_post_signin_app and post_code in       *)
(* entry.py, setpw.py, and the tokens, sessions, trusted browsers and the  *)
(* sign-in budget of guest_store.py).                                      *)
(*                                                                         *)
(* A right password has a code mailed; the code, entered in the browser    *)
(* that typed the password, opens a session and may make the browser a     *)
(* trusted one.  A mailed link sets a new password, and so does the        *)
(* command line, from a process of its own.  Each place where a handler    *)
(* awaits a thread or the network ends an action; an answer may be lost.   *)
(*                                                                         *)
(* A pending sign-in value is named by the code bound to it, a trusted     *)
(* browser id by the code whose entry minted it: each is made once per     *)
(* code.  A password is named by its number: what set_password stored last *)
(* is password[e].  The budget's windows do not turn within a behaviour.   *)
(***************************************************************************)
EXTENDS Naturals, FiniteSets

CONSTANTS
    Emails,    \* approved addresses
    Browsers,  \* each with its cookies
    Posts,     \* simultaneous posts of password links
    Codes,     \* tokens that can be issued to sign in
    Links,     \* tokens that can be issued to set a password
    None,      \* no token, no cookie
    Normal,    \* SIGNIN_BUDGET: wrong submissions of one email
    Strict,    \* SIGNIN_BUDGET_STRICT
    IpLimit,   \* SIGNIN_IP_ATTEMPTS_PER_15MIN; every browser has one address
    MaxTries,  \* bound on untrusted submissions
    MaxPasswords \* bound on the passwords the command line sets

Tokens == Codes \cup Links

ASSUME SignInOK ==
    /\ None \notin Tokens
    /\ Codes \cap Links = {}
    /\ IsFiniteSet(Browsers) /\ IsFiniteSet(Tokens)
    /\ Normal \in Nat /\ Strict \in Nat /\ Strict <= Normal
    /\ IpLimit \in Nat
    /\ MaxTries \in Nat /\ MaxPasswords \in Nat

VARIABLES
    password,  \* the number of each email's password
    token,     \* the tokens table: email and state of each token
    mailed,    \* tokens that reached their mailbox
    pending,   \* the lens_signin cookie of each browser
    device,    \* the lens_device cookie of each browser
    reply,     \* new ids whose answer is on its way to each browser
    trusted,   \* the trusted_devices table: 0 where it has no row, else the
               \* password that was set when the trust was given
    sessions,  \* the sessions table; a session is named by its code, and the
               \* browser that posted the code, which has the session's cookie
               \* if the answer arrives, and the password that was set when it
               \* opened are kept with it
    tries,     \* attempts counted for each email
    ipTries,   \* attempts counted for the address
    strict,    \* emails whose last block is less than a day old
    form,      \* the password submission each browser waits for
    post,      \* the posts of password links
    typed,     \* history: per code, who typed which password for it
    refused,   \* history: counted submissions that failed the password, the
               \* bot check or both
    set,       \* history: links that set a password, with its number
    cut        \* history: emails of which a restart cut a reset short

store == <<password, token, trusted, sessions, tries, ipTries, strict>>
history == <<typed, refused, set, cut>>
cookies == <<pending, device, reply>>
vars == <<store, mailed, cookies, form, post, history>>

Fresh == [email |-> None, state |-> "none"]
Live(t) == token[t].state = "live"
NoForm == [at |-> "none", email |-> None, guess |-> 0, device |-> None,
           counted |-> FALSE, human |-> FALSE, right |-> FALSE]
Submission(e, guess, d, counted) ==
    [at |-> "bot", email |-> e, guess |-> guess, device |-> d,
     counted |-> counted, human |-> FALSE, right |-> FALSE]
NoPost == [at |-> "none", link |-> None]
Row(e) == [email |-> e, state |-> "live"]
NoTrust == [e \in Emails |-> 0]
IsTrusted(d, e) == d # None /\ trusted[d][e] > 0

(* signin_budget_take: strict after a blocked attempt.                     *)
Limit(e) == IF e \in strict THEN Strict ELSE Normal
BudgetLeft(e) == tries[e] < Limit(e)

Minus1(n) == IF n = 0 THEN 0 ELSE n - 1

(* Slips the properties are tried against, each ahead of the definition it *)
(* stands for: a code is good in any browser; a new password leaves the    *)
(* trusted browsers; only the address gets its count back; a reset ends    *)
(* the sessions opened after it.                                           *)
AnyBrowser(b, t) == t \in mailed
KeepTrust(e) == trusted

(* bind_signin: a code is good for the pending value it was bound to.      *)
Bound(b, t) == pending[b] = t
Used(t) == [email |-> token[t].email, state |-> "used"]
LinkUsed(t) == Used(t)
Untrust(e) == [d \in Codes |-> [trusted[d] EXCEPT ![e] = 0]]
OpenedLater(e) == {s \in sessions : s.email = e /\ s.under = password[e]}
SessionsOf(e) == {s \in sessions : s.email = e}

Init ==
    /\ password = [e \in Emails |-> 1]
    /\ token = [t \in Tokens |-> Fresh]
    /\ mailed = {}
    /\ pending = [b \in Browsers |-> None]
    /\ device = [b \in Browsers |-> None]
    /\ reply = [b \in Browsers |-> {}]
    /\ trusted = [d \in Codes |-> NoTrust]
    /\ sessions = {}
    /\ tries = [e \in Emails |-> 0]
    /\ ipTries = 0
    /\ strict = {}
    /\ form = [b \in Browsers |-> NoForm]
    /\ post = [p \in Posts |-> NoPost]
    /\ typed = [t \in Codes |-> <<None, 0>>]
    /\ refused = [e \in Emails |-> 0]
    /\ set = {}
    /\ cut = {}

(* _signin_blocked: a browser trusted for this email is not limited and    *)
(* not counted.  Any other is counted for its address, and for the email   *)
(* only when the address has room.                                         *)
SubmitTrusted(b, e, guess) ==
    /\ form[b].at = "none"
    /\ IsTrusted(device[b], e)
    /\ form' = [form EXCEPT ![b] = Submission(e, guess, device[b], FALSE)]
    /\ UNCHANGED <<store, mailed, cookies, post, history>>

SubmitCounted(b, e, guess) ==
    /\ form[b].at = "none"
    /\ ~IsTrusted(device[b], e)
    /\ ipTries < IpLimit /\ ipTries < MaxTries
    /\ BudgetLeft(e)
    /\ tries' = [tries EXCEPT ![e] = @ + 1]
    /\ ipTries' = ipTries + 1
    /\ form' = [form EXCEPT ![b] = Submission(e, guess, device[b], TRUE)]
    /\ UNCHANGED <<password, token, trusted, sessions, strict>>
    /\ UNCHANGED <<mailed, cookies, post, history>>

(* Every submission is answered with the code screen and a fresh pending   *)
(* value: the code it is bound to, or none.  The answer may be lost.       *)
Answered(b, bound) == pending' \in {pending, [pending EXCEPT ![b] = bound]}

(* A blocked submission is answered like any other.                        *)
SubmitBlocked(b, e) ==
    /\ form[b].at = "none"
    /\ ~IsTrusted(device[b], e)
    /\ ipTries < MaxTries
    /\ \/ ipTries >= IpLimit /\ UNCHANGED strict
       \/ ipTries < IpLimit /\ ~BudgetLeft(e) /\ strict' = strict \cup {e}
    /\ ipTries' = ipTries + 1
    /\ Answered(b, None)
    /\ UNCHANGED <<password, token, trusted, sessions, tries>>
    /\ UNCHANGED <<mailed, device, reply, form, post, history>>

(* The bot check answers; a browser trusted by now does not need it.       *)
BotAnswers(b, human) ==
    /\ form[b].at = "bot"
    /\ form' = [form EXCEPT ![b].at = "hash",
            ![b].human = human \/ IsTrusted(form[b].device, form[b].email)]
    /\ UNCHANGED <<store, mailed, cookies, post, history>>

(* The thread of check_password reads the stored hash; from here on only   *)
(* correct, human and right, counts.                                       *)
Correct(b) == form[b].human /\ form[b].guess = password[form[b].email]

CheckPassword(b) ==
    /\ form[b].at = "hash"
    /\ form' = [form EXCEPT ![b].at = "checked",
            ![b].human = FALSE,
            ![b].guess = IF Correct(b) THEN @ ELSE 0,
            ![b].right = Correct(b)]
    /\ UNCHANGED <<store, mailed, cookies, post, history>>

(* _refund_correct_password asks again whether the browser is trusted, and *)
(* unrecord_attempt takes the newest attempt back.                         *)
RefundAddress(b, e) == ipTries' = Minus1(ipTries) /\ UNCHANGED tries

Refund(b, e) ==
    IF IsTrusted(form[b].device, e)
    THEN UNCHANGED <<tries, ipTries>>
    ELSE /\ tries' = [tries EXCEPT ![e] = Minus1(@)]
         /\ ipTries' = Minus1(ipTries)

(* _send_signin_code and _send_link: the background task mails the token,  *)
(* or fails, or ends with the process.  When the mail arrives is seen only *)
(* by the person who enters the code or opens the link.                    *)
Mail(t) == mailed' \in {mailed, mailed \cup {t}}

(* Right is a submission that passed both checks.                          *)
AnswerRight(b, t) ==
    /\ form[b].at = "checked" /\ form[b].right
    /\ token[t].state = "none"
    /\ LET e == form[b].email IN
       /\ Refund(b, e)
       /\ token' = [token EXCEPT ![t] = Row(e)]
       /\ typed' = [typed EXCEPT ![t] = <<b, form[b].guess>>]
    /\ Answered(b, t)
    /\ form' = [form EXCEPT ![b] = NoForm]
    /\ Mail(t)
    /\ UNCHANGED <<password, trusted, sessions, strict, device, reply, post>>
    /\ UNCHANGED <<refused, set, cut>>

(* A right password whose bot check failed is refused like a wrong one,    *)
(* and stays counted.                                                      *)
AnswerWrong(b) ==
    /\ form[b].at = "checked" /\ ~form[b].right
    /\ Answered(b, None)
    /\ refused' = [refused EXCEPT ![form[b].email] =
            IF form[b].counted THEN @ + 1 ELSE @]
    /\ form' = [form EXCEPT ![b] = NoForm]
    /\ UNCHANGED <<store, mailed, device, reply, post, typed, set, cut>>

(* post_code with verify_signin_token and create_session, the box "trust   *)
(* this browser" unticked or ticked.  Whoever enters a code read it in the *)
(* mailbox.  The answer waits for the floor of _pad: a second post may     *)
(* still bring the old cookies, the pending one too, and what the answer   *)
(* sets comes later or never.                                              *)
NewSession(b, t) ==
    [code |-> t, email |-> token[t].email, browser |-> b,
     under |-> password[token[t].email]]

Code(b, t) ==
    /\ t \in mailed
    /\ Bound(b, t)
    /\ Live(t)
    /\ token' = [token EXCEPT ![t] = Used(t)]
    /\ sessions' = sessions \cup {NewSession(b, t)}
    /\ UNCHANGED <<password, tries, ipTries, strict>>
    /\ pending' \in {pending, [pending EXCEPT ![b] = None]}
    /\ UNCHANGED <<mailed, device, form, post, history>>

EnterCode(b, t) ==
    /\ Code(b, t)
    /\ UNCHANGED <<reply, trusted>>

(* add_trusted_device: what the browser was trusted for besides e moves to *)
(* the id it mints, and the old id is trusted for nothing.                 *)
Trust(old, new, e) ==
    [d \in Codes |->
        IF d = old THEN NoTrust
        ELSE IF d = new
        THEN [f \in Emails |-> IF f = e THEN password[e]
                               ELSE IF old = None THEN 0 ELSE trusted[old][f]]
        ELSE trusted[d]]

EnterCodeTrusting(b, t) ==
    /\ Code(b, t)
    /\ trusted' = Trust(device[b], t, token[t].email)
    /\ reply' = [reply EXCEPT ![b] = @ \cup {t}]

(* The answer arrives with the new id, or the process or the connection    *)
(* ends before: then the row stays and no browser has its id.              *)
Delivered(b, t) ==
    /\ t \in reply[b]
    /\ device' = [device EXCEPT ![b] = t]
    /\ reply' = [reply EXCEPT ![b] = @ \ {t}]
    /\ UNCHANGED <<store, mailed, pending, form, post, history>>

Lost(b, t) ==
    /\ t \in reply[b]
    /\ reply' = [reply EXCEPT ![b] = @ \ {t}]
    /\ UNCHANGED <<store, mailed, pending, device, form, post, history>>

(* end_session at logout, or the end of a session's lifetime.              *)
EndSession(s) ==
    /\ s \in sessions
    /\ sessions' = sessions \ {s}
    /\ UNCHANGED <<password, token, trusted, tries, ipTries, strict>>
    /\ UNCHANGED <<mailed, cookies, form, post, history>>

(* A token outlives its ttl.  One that was not mailed is of no use anyway.  *)
Expire(t) ==
    /\ t \in mailed /\ Live(t)
    /\ token' = [token EXCEPT ![t].state = "used"]
    /\ UNCHANGED <<password, trusted, sessions, tries, ipTries, strict>>
    /\ UNCHANGED <<mailed, cookies, form, post, history>>

(* post_password: its background task issues a link and mails it.          *)
SendLink(e, t) ==
    /\ token[t].state = "none"
    /\ token' = [token EXCEPT ![t] = Row(e)]
    /\ Mail(t)
    /\ UNCHANGED <<password, trusted, sessions, tries, ipTries, strict>>
    /\ UNCHANGED <<cookies, form, post, history>>

(* post_token: the link is peeked at, then the form is awaited; a refused  *)
(* form leaves the link as it was.                                         *)
OpenLink(p, t) ==
    /\ post[p].at = "none"
    /\ t \in mailed /\ Live(t)
    /\ post' = [post EXCEPT ![p] = [at |-> "form", link |-> t]]
    /\ UNCHANGED <<store, mailed, cookies, form, history>>

RefuseForm(p) ==
    /\ post[p].at = "form"
    /\ post' = [post EXCEPT ![p] = NoPost]
    /\ UNCHANGED <<store, mailed, cookies, form, history>>

(* consume_token: only one of two posts of a link goes on.                 *)
ConsumeLink(p) ==
    /\ post[p].at = "form"
    /\ Live(post[p].link)
    /\ token' = [token EXCEPT ![post[p].link] = LinkUsed(post[p].link)]
    /\ post' = [post EXCEPT ![p].at = "set"]
    /\ UNCHANGED <<password, trusted, sessions, tries, ipTries, strict>>
    /\ UNCHANGED <<mailed, cookies, form, history>>

(* set_password, in a thread: the hash and the trusted browsers change in  *)
(* one transaction.                                                        *)
SetPassword(p) ==
    /\ post[p].at = "set"
    /\ LET e == token[post[p].link].email IN
       /\ password' = [password EXCEPT ![e] = @ + 1]
       /\ trusted' = Untrust(e)
       /\ set' = set \cup {<<post[p].link, password[e] + 1>>}
    /\ post' = [post EXCEPT ![p].at = "end"]
    /\ UNCHANGED <<token, sessions, tries, ipTries, strict>>
    /\ UNCHANGED <<mailed, cookies, form>>
    /\ UNCHANGED <<typed, refused, cut>>

(* irc-lens guests passwd: set_password alone, in a process of its own     *)
(* that has no sessions to end.                                            *)
OwnerSetsPassword(e) ==
    /\ password[e] < MaxPasswords
    /\ password' = [password EXCEPT ![e] = @ + 1]
    /\ trusted' = Untrust(e)
    /\ UNCHANGED <<token, sessions, tries, ipTries, strict>>
    /\ UNCHANGED <<mailed, cookies, form, post, history>>

(* end_sessions_for_email, in a thread after it.                           *)
EndSessions(p) ==
    /\ post[p].at = "end"
    /\ sessions' = sessions \ SessionsOf(token[post[p].link].email)
    /\ post' = [post EXCEPT ![p] = NoPost]
    /\ UNCHANGED <<password, token, trusted, tries, ipTries, strict>>
    /\ UNCHANGED <<mailed, cookies, form, history>>

(* The web process stops between any two steps; the store stays.  The      *)
(* submissions that were counted and never answered stay counted.  The     *)
(* answers it had not sent are lost, each in its own time.                 *)
Restart ==
    /\ form' = [b \in Browsers |-> NoForm]
    /\ post' = [p \in Posts |-> NoPost]
    /\ refused' = [e \in Emails |-> refused[e] + Cardinality(
            {b \in Browsers : form[b].counted /\ form[b].email = e})]
    /\ cut' = cut \cup {token[post[p].link].email :
                          p \in {q \in Posts : post[q].at = "end"}}
    /\ UNCHANGED <<store, mailed, cookies, typed, set>>

Next ==
    \/ \E b \in Browsers, e \in Emails :
        \/ \E guess \in {0, password[e]} :
            SubmitTrusted(b, e, guess) \/ SubmitCounted(b, e, guess)
        \/ SubmitBlocked(b, e)
    \/ \E e \in Emails : OwnerSetsPassword(e)
    \/ \E b \in Browsers :
        \/ \E human \in BOOLEAN : BotAnswers(b, human)
        \/ CheckPassword(b) \/ AnswerWrong(b)
        \/ \E t \in Codes :
            \/ AnswerRight(b, t) \/ EnterCode(b, t) \/ EnterCodeTrusting(b, t)
            \/ Delivered(b, t) \/ Lost(b, t)
    \/ \E t \in Tokens : Expire(t)
    \/ \E e \in Emails, t \in Links : SendLink(e, t)
    \/ \E s \in sessions : EndSession(s)
    \/ \E p \in Posts :
        \/ \E t \in Links : OpenLink(p, t)
        \/ RefuseForm(p) \/ ConsumeLink(p) \/ SetPassword(p) \/ EndSessions(p)
    \/ Restart

Spec == Init /\ [][Next]_vars

-----------------------------------------------------------------------------
TokenRow == [email : Emails \cup {None}, state : {"none", "live", "used"}]
Form ==
    [at : {"none", "bot", "hash", "checked"}, email : Emails \cup {None},
     guess : Nat, device : Codes \cup {None}, counted : BOOLEAN,
     human : BOOLEAN, right : BOOLEAN]
Post == [at : {"none", "form", "set", "end"}, link : Links \cup {None}]

TypeOK ==
    /\ password \in [Emails -> Nat \ {0}]
    /\ token \in [Tokens -> TokenRow]
    /\ mailed \subseteq Tokens
    /\ pending \in [Browsers -> Codes \cup {None}]
    /\ device \in [Browsers -> Codes \cup {None}]
    /\ reply \in [Browsers -> SUBSET Codes]
    /\ trusted \in [Codes -> [Emails -> Nat]]
    /\ sessions \subseteq
        [code : Codes, email : Emails, browser : Browsers, under : Nat]
    /\ tries \in [Emails -> Nat]
    /\ ipTries \in Nat
    /\ strict \subseteq Emails
    /\ form \in [Browsers -> Form]
    /\ post \in [Posts -> Post]
    /\ typed \in [Codes -> (Browsers \cup {None}) \X Nat]
    /\ refused \in [Emails -> Nat]
    /\ set \subseteq Links \X Nat
    /\ cut \subseteq Emails

(* post_code: a session is there because the right password of its time    *)
(* was typed for its email in its browser and the code for it was mailed   *)
(* to that email; and no code opened two sessions.                         *)
SessionEarned ==
    /\ \A s \in sessions :
        /\ s.code \in mailed
        /\ token[s.code] = [email |-> s.email, state |-> "used"]
        /\ typed[s.code][1] = s.browser
        /\ typed[s.code][2] \in 1 .. password[s.email]
    /\ \A s1, s2 \in sessions : s1.code = s2.code => s1 = s2

(* add_trusted_device and set_password: a browser is trusted for an email  *)
(* only through a sign-in since the email's password was set last, however *)
(* often the trust moved to a new id since; and the id of a trust is in no *)
(* browser, and on its way to none, but the one that typed the password.   *)
(* An answer that was lost leaves a trust whose id is in no browser.       *)
TrustSound ==
    \A d \in Codes, e \in Emails : IsTrusted(d, e) =>
        /\ trusted[d][e] = password[e]
        /\ \A b \in Browsers :
            device[b] = d \/ d \in reply[b] => b = typed[d][1]

(* consume_token: each link mailed sets at most one password, whoever      *)
(* posts it at the same time.                                              *)
LinkSetsOnce == \A x, y \in set : x[1] = y[1] => x = y

InFlight(e) ==
    Cardinality({b \in Browsers : form[b].counted /\ form[b].email = e})

(* _refund_correct_password: what an email's budget counts are submissions *)
(* that failed the password or the bot check, and those not answered yet.  *)
(* One that passes both costs nothing.  A right password whose bot check   *)
(* failed does cost an attempt.                                            *)
CorrectIsFree == \A e \in Emails : tries[e] <= refused[e] + InFlight(e)

(* end_sessions_for_email: a session older than a password that a link set *)
(* is gone when that reset is over, if no restart cut one short.  One that *)
(* is older than a password the command line set may stay.                 *)
ResetLogsOut ==
    \A s \in sessions : \A x \in set : token[x[1]].email = s.email =>
        \/ s.under >= x[2]
        \/ s.email \in cut
        \/ \E p \in Posts :
            post[p].at = "end" /\ token[post[p].link].email = s.email
=============================================================================
