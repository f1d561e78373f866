---------------------------- MODULE SignIn_proofs ----------------------------
(***************************************************************************)
(* What SignIn keeps for any number of emails, browsers, tokens and posts. *)
(***************************************************************************)
EXTENDS SignIn, FiniteSetTheorems, TLAPS

(* A token's states follow each other, and only a token that was issued is *)
(* mailed, is an id or opens a session.                                    *)
Issued ==
    /\ \A t \in Tokens : token[t].state # "none" => token[t].email \in Emails
    /\ \A t \in mailed : token[t].state # "none"
    /\ \A b \in Browsers : device[b] # None => token[device[b]].state = "used"
    /\ \A b \in Browsers : \A d \in reply[b] : token[d].state = "used"
    /\ \A p \in Posts : post[p].at # "none" =>
        post[p].link \in Links /\ token[post[p].link].state # "none"

(* What a submission that is under way has shown so far.                   *)
FormSound ==
    \A b \in Browsers :
        /\ form[b].at = "none" => ~form[b].counted /\ ~form[b].right
        /\ form[b].at # "none" => form[b].email \in Emails
        /\ form[b].right => form[b].guess \in 1 .. password[form[b].email]
        /\ form[b].device # None => token[form[b].device].state = "used"
        /\ form[b].counted => ~IsTrusted(form[b].device, form[b].email)

(* A code is bound to the browser whose submission it answers.             *)
CodeBound ==
    \A b \in Browsers : pending[b] # None =>
        /\ token[pending[b]].state # "none"
        /\ typed[pending[b]][1] = b
        /\ typed[pending[b]][2] \in 1 .. password[token[pending[b]].email]

Base == TypeOK /\ Issued /\ FormSound /\ CodeBound
-----------------------------------------------------------------------------
LEMMA InitBase == Init => Base
BY SignInOK DEF Init, Base, TypeOK, Issued, FormSound, CodeBound, Fresh, NoForm,
    NoPost, NoTrust, Tokens, IsTrusted, TokenRow, Form, Post

(* What a submission changes, whether it is counted or not.                *)
Submits(b, e, guess) ==
    /\ form' \in [Browsers -> Form]
    /\ \A c \in Browsers \ {b} : form'[c] = form[c]
    /\ form'[b] = [at |-> "bot", email |-> e, guess |-> guess,
                   device |-> device[b], counted |-> form'[b].counted,
                   human |-> FALSE, right |-> FALSE]
    /\ form'[b].counted \in BOOLEAN
    /\ form'[b].counted => ~IsTrusted(device[b], e)

LEMMA SubmitTyped ==
    ASSUME TypeOK, NEW b \in Browsers, NEW e \in Emails, NEW guess \in {0, password[e]},
           SubmitTrusted(b, e, guess) \/ SubmitCounted(b, e, guess)
    PROVE  Submits(b, e, guess)
<1>1. guess \in Nat /\ device[b] \in Codes \cup {None}
  BY DEF TypeOK
<1>2. form \in [Browsers -> Form]
  BY DEF TypeOK, Form
<1>3. PICK c \in BOOLEAN :
        /\ form' = [form EXCEPT ![b] =
            Submission(e, guess, device[b], c)]
        /\ c => ~IsTrusted(device[b], e)
  <2>1. CASE SubmitTrusted(b, e, guess)
    BY <2>1 DEF SubmitTrusted
  <2>2. CASE SubmitCounted(b, e, guess)
    BY <2>2 DEF SubmitCounted
  <2>3. QED
    BY <2>1, <2>2
<1>4. QED
  BY <1>1, <1>2, <1>3 DEF Form, Submission, Submits

(* What the bot check and the password check change.                       *)
Moves(b) ==
    /\ form' \in [Browsers -> Form]
    /\ \A c \in Browsers \ {b} : form'[c] = form[c]
    /\ form[b].at # "none" /\ form'[b].at # "none"
    /\ form'[b].email = form[b].email
    /\ form'[b].device = form[b].device
    /\ form'[b].counted = form[b].counted
    /\ form'[b].right =>
        /\ form'[b].guess = form[b].guess
        /\ form[b].right \/ form[b].guess = password[form[b].email]

LEMMA FormMoves ==
    ASSUME TypeOK, NEW b \in Browsers,
           \/ \E human \in BOOLEAN : BotAnswers(b, human)
           \/ CheckPassword(b)
    PROVE  Moves(b)
<1>1. form \in [Browsers -> Form]
  BY DEF TypeOK, Form
<1>2. form[b] \in Form
  BY <1>1
<1>3. ASSUME NEW human \in BOOLEAN, BotAnswers(b, human)
      PROVE  \E h \in BOOLEAN :
                form' = [form EXCEPT ![b].at = "hash", ![b].human = h]
  <2>1. (human \/ IsTrusted(form[b].device, form[b].email)) \in BOOLEAN
    BY DEF IsTrusted
  <2>2. QED
    BY <1>3, <2>1, Zenon DEF BotAnswers
<1>4. ASSUME CheckPassword(b)
      PROVE  \E r \in BOOLEAN, g \in {0, form[b].guess} :
                /\ form' = [form EXCEPT ![b].at = "checked", ![b].human = FALSE,
                                       ![b].guess = g, ![b].right = r]
                /\ r => /\ g = form[b].guess
                        /\ form[b].guess = password[form[b].email]
  <2>1. Correct(b) \in BOOLEAN
    BY <1>2 DEF Correct, Form
  <2>2. form' = [form EXCEPT ![b].at = "checked", ![b].human = FALSE,
                            ![b].guess = IF Correct(b) THEN form[b].guess ELSE 0,
                            ![b].right = Correct(b)]
    BY <1>4 DEF CheckPassword
  <2>3. Correct(b) => form[b].guess = password[form[b].email]
    BY DEF Correct
  <2>4. QED
    BY <2>1, <2>2, <2>3, Zenon
<1>6. CASE CheckPassword(b)
  <2>1. PICK r \in BOOLEAN, g \in {0, form[b].guess} :
            /\ form' = [form EXCEPT ![b].at = "checked", ![b].human = FALSE,
                                   ![b].guess = g, ![b].right = r]
            /\ r => /\ g = form[b].guess
                    /\ form[b].guess = password[form[b].email]
    BY <1>4, <1>6
  <2>2. form[b].at # "none" /\ form[b].guess \in Nat /\ g \in Nat
    BY <1>2, <1>6 DEF CheckPassword, Form
  <2>3. /\ form'[b] = [form[b] EXCEPT !.at = "checked", !.human = FALSE,
                                     !.guess = g, !.right = r]
        /\ \A c \in Browsers \ {b} : form'[c] = form[c]
        /\ form'[b] \in Form
    BY <1>1, <1>2, <2>1, <2>2 DEF Form
  <2>4. form' \in [Browsers -> Form]
    BY <1>1, <2>1, <2>3
  <2>5. QED
    BY <1>2, <2>1, <2>2, <2>3, <2>4 DEF Form, Moves
<1>7. CASE \E human \in BOOLEAN : BotAnswers(b, human)
  <2>1. PICK h \in BOOLEAN :
            form' = [form EXCEPT ![b].at = "hash", ![b].human = h]
    BY <1>3, <1>7
  <2>2. form[b].at # "none"
    BY <1>7 DEF BotAnswers
  <2>3. QED
    BY <1>1, <1>2, <2>1, <2>2 DEF Form, Moves
<1>8. QED
  BY <1>6, <1>7

(* What entering a code changes: the code is used, and but for the id that *)
(* is minted, and sent to that browser, none is trusted for more.          *)
CodeUse(b, t) ==
    /\ t \in Tokens /\ t \in mailed /\ token[t].state = "live"
    /\ pending[b] = t
    /\ \A u \in Tokens \ {t} : token'[u] = token[u]
    /\ token'[t] = [email |-> token[t].email, state |-> "used"]
    /\ token' \in [Tokens -> TokenRow]
    /\ \A c \in Browsers : pending'[c] \in {pending[c], None}
    /\ \A c \in Browsers \ {b} : reply'[c] = reply[c]
    /\ reply'[b] \in {reply[b], reply[b] \cup {t}}
    /\ \A d \in Codes \ {t}, e \in Emails :
         IsTrusted(d, e)' => IsTrusted(d, e) /\ trusted'[d][e] = trusted[d][e]
    /\ sessions' = sessions \cup {NewSession(b, t)}
    /\ UNCHANGED <<password, tries, ipTries, strict, mailed, device, form, post,
                  typed, refused, set, cut>>

LEMMA CodeUsed ==
    ASSUME TypeOK, NEW b \in Browsers, NEW t \in Codes,
           EnterCode(b, t) \/ EnterCodeTrusting(b, t)
    PROVE  CodeUse(b, t)
<1>1. Code(b, t) /\ t \in Tokens
  BY DEF EnterCode, EnterCodeTrusting, Tokens
<1>2. /\ t \in mailed /\ token[t].state = "live" /\ pending[b] = t
      /\ sessions' = sessions \cup {NewSession(b, t)}
      /\ UNCHANGED <<password, tries, ipTries, strict, mailed, device, form, post,
                    typed, refused, set, cut>>
  BY <1>1 DEF Code, Live, Bound, history
<1>3. Used(t) = [email |-> token[t].email, state |-> "used"] /\ Used(t) \in TokenRow
  BY <1>1 DEF Used, TypeOK, TokenRow
<1>4. /\ \A u \in Tokens \ {t} : token'[u] = token[u]
      /\ token'[t] = Used(t)
      /\ token' \in [Tokens -> TokenRow]
  BY <1>1, <1>3 DEF Code, TypeOK
<1>5. \A c \in Browsers : pending'[c] \in {pending[c], None}
  BY <1>1 DEF Code, TypeOK
<1>6. /\ \A c \in Browsers \ {b} : reply'[c] = reply[c]
      /\ reply'[b] \in {reply[b], reply[b] \cup {t}}
  BY DEF EnterCode, EnterCodeTrusting, TypeOK
<1>7. \A d \in Codes \ {t}, e \in Emails :
        IsTrusted(d, e)' => IsTrusted(d, e) /\ trusted'[d][e] = trusted[d][e]
  <2>1. CASE EnterCode(b, t)
    BY <2>1 DEF EnterCode, IsTrusted
  <2>2. CASE EnterCodeTrusting(b, t)
    BY <2>2 DEF EnterCodeTrusting, Trust, NoTrust, IsTrusted
  <2>3. QED
    BY <2>1, <2>2
<1>8. QED
  BY <1>1, <1>2, <1>3, <1>4, <1>5, <1>6, <1>7 DEF CodeUse

(* What consuming a link changes: the link is used and one post moves on.  *)
LinkUse(p) ==
    /\ post[p].at = "form" /\ post[p].link \in Links
    /\ post[p].link \in Tokens
    /\ token[post[p].link].state = "live"
    /\ \A u \in Tokens \ {post[p].link} : token'[u] = token[u]
    /\ token'[post[p].link] =
         [email |-> token[post[p].link].email, state |-> "used"]
    /\ token' \in [Tokens -> TokenRow]
    /\ post' \in [Posts -> Post]
    /\ \A q \in Posts : post'[q].link = post[q].link
    /\ \A q \in Posts \ {p} : post'[q].at = post[q].at
    /\ post'[p].at = "set"
    /\ UNCHANGED <<password, trusted, sessions, tries, ipTries, strict,
                  mailed, cookies, form, typed, refused, set, cut>>

LEMMA ConsumedLink ==
    ASSUME TypeOK, Issued, NEW p \in Posts, ConsumeLink(p)
    PROVE  LinkUse(p)
<1>1. post[p].at = "form" /\ post[p].link \in Links /\ post[p].link \in Tokens
  BY DEF ConsumeLink, Issued, Tokens
<1>2. /\ token[post[p].link].state = "live"
      /\ LinkUsed(post[p].link) =
            [email |-> token[post[p].link].email, state |-> "used"]
      /\ LinkUsed(post[p].link) \in TokenRow
  BY <1>1 DEF ConsumeLink, Live, LinkUsed, Used, TypeOK, TokenRow
<1>3. /\ \A u \in Tokens \ {post[p].link} : token'[u] = token[u]
      /\ token'[post[p].link] = LinkUsed(post[p].link)
      /\ token' \in [Tokens -> TokenRow]
  BY <1>1, <1>2 DEF ConsumeLink, TypeOK
<1>4. /\ post' \in [Posts -> Post]
      /\ \A q \in Posts : post'[q].link = post[q].link
      /\ \A q \in Posts \ {p} : post'[q].at = post[q].at
      /\ post'[p].at = "set"
  BY DEF ConsumeLink, TypeOK, Post
<1>5. UNCHANGED <<password, trusted, sessions, tries, ipTries, strict,
                  mailed, cookies, form, typed, refused, set, cut>>
  BY DEF ConsumeLink, history
<1>6. QED
  BY <1>1, <1>2, <1>3, <1>4, <1>5 DEF LinkUse

(* How many counted submissions wait for their answer is a number.         *)
LEMMA InFlightCounts == \A e \in Emails : InFlight(e) \in Nat
<1>. TAKE e \in Emails
<1>1. IsFiniteSet({b \in Browsers : form[b].counted /\ form[b].email = e})
  BY SignInOK, FS_Subset
<1>2. QED
  BY <1>1, FS_CardinalityType DEF InFlight

(* Every step keeps the state well typed.                                  *)
LEMMA TypeStep == Base /\ [Next]_vars => TypeOK'
<1>. SUFFICES ASSUME Base, [Next]_vars PROVE TypeOK'
  OBVIOUS
<1>. USE DEF Base
<1>. USE DEF store, history, cookies
<1>1. ASSUME NEW b \in Browsers, NEW e \in Emails, NEW guess \in {0, password[e]},
              SubmitTrusted(b, e, guess) \/ SubmitCounted(b, e, guess) PROVE TypeOK'
  <2>1. form' \in [Browsers -> Form]
    BY <1>1, SubmitTyped DEF Submits
  <2>2. CASE SubmitTrusted(b, e, guess)
    BY <2>1, <2>2 DEF SubmitTrusted, TypeOK
  <2>3. CASE SubmitCounted(b, e, guess)
    <3>1. tries' \in [Emails -> Nat] /\ ipTries' \in Nat
      BY <2>3 DEF SubmitCounted, TypeOK
    <3>2. QED
      BY <2>1, <2>3, <3>1 DEF SubmitCounted, TypeOK
  <2>4. QED
    BY <1>1, <2>2, <2>3
<1>2. ASSUME NEW b \in Browsers, NEW e \in Emails, SubmitBlocked(b, e) PROVE TypeOK'
  BY <1>2 DEF SubmitBlocked, Answered, TypeOK
<1>3. ASSUME NEW b \in Browsers,
             (\E human \in BOOLEAN : BotAnswers(b, human)) \/ CheckPassword(b) PROVE TypeOK'
  <2>1. Moves(b)
    BY <1>3, FormMoves
  <2>2. QED
    BY <1>3, <2>1 DEF Moves, BotAnswers, CheckPassword, TypeOK
<1>4. ASSUME NEW b \in Browsers, AnswerWrong(b) PROVE TypeOK'
  <2>1. NoForm \in Form
    BY DEF NoForm, Form
  <2>2. refused' \in [Emails -> Nat]
    <3>1. form[b].email \in Emails
      BY <1>4 DEF AnswerWrong, FormSound
    <3>2. QED
      BY <1>4, <3>1 DEF AnswerWrong, TypeOK
  <2>3. form' \in [Browsers -> Form] /\ pending' \in [Browsers -> Codes \cup {None}]
    BY <1>4, <2>1 DEF AnswerWrong, Answered, TypeOK
  <2>4. QED
    BY <1>4, <2>2, <2>3 DEF AnswerWrong, TypeOK
<1>5. ASSUME NEW b \in Browsers, NEW t \in Codes, AnswerRight(b, t) PROVE TypeOK'
  <2>1. NoForm \in Form
    BY DEF NoForm, Form
  <2>2. form[b].email \in Emails /\ t \in Tokens
    BY <1>5 DEF AnswerRight, FormSound, Tokens
  <2>3. tries' \in [Emails -> Nat] /\ ipTries' \in Nat
    <3>1. Refund(b, form[b].email) /\ tries \in [Emails -> Nat] /\ ipTries \in Nat
      BY <1>5 DEF AnswerRight, TypeOK
    <3>2. QED
      BY <2>2, <3>1 DEF Refund, Minus1
  <2>4. Row(form[b].email) \in TokenRow
    BY <2>2 DEF Row, TokenRow
  <2>5. token' \in [Tokens -> TokenRow] /\ mailed' \subseteq Tokens
    BY <1>5, <2>2, <2>4 DEF AnswerRight, Mail, TypeOK
  <2>6. form' \in [Browsers -> Form] /\ pending' \in [Browsers -> Codes \cup {None}]
    BY <1>5, <2>1 DEF AnswerRight, Answered, TypeOK
  <2>7. typed' \in [Codes -> (Browsers \cup {None}) \X Nat]
    BY <1>5 DEF AnswerRight, TypeOK, Form
  <2>8. QED
    BY <1>5, <2>3, <2>5, <2>6, <2>7 DEF AnswerRight, TypeOK
<1>6. ASSUME NEW b \in Browsers, NEW t \in Codes,
             EnterCode(b, t) \/ EnterCodeTrusting(b, t) PROVE TypeOK'
  <2>0. CodeUse(b, t)
    BY <1>6, CodeUsed
  <2>1. token[t].email \in Emails
    BY <2>0 DEF CodeUse, Issued
  <2>2. NewSession(b, t) \in
            [code : Codes, email : Emails, browser : Browsers, under : Nat]
    BY <2>1 DEF NewSession, TypeOK
  <2>3. pending' \in [Browsers -> Codes \cup {None}]
    BY <1>6 DEF EnterCode, EnterCodeTrusting, Code, TypeOK
  <2>4. Trust(device[b], t, token[t].email) \in [Codes -> [Emails -> Nat]]
    BY <2>1 DEF Trust, NoTrust, TypeOK
  <2>5. trusted' \in [Codes -> [Emails -> Nat]]
        /\ reply' \in [Browsers -> SUBSET Codes]
    <3>1. CASE EnterCode(b, t)
      BY <3>1 DEF EnterCode, TypeOK
    <3>2. CASE EnterCodeTrusting(b, t)
      BY <3>2, <2>4 DEF EnterCodeTrusting, TypeOK
    <3>3. QED
      BY <1>6, <3>1, <3>2
  <2>6. QED
    BY <2>0, <2>2, <2>3, <2>5 DEF CodeUse, TypeOK
<1>7. ASSUME NEW t \in Tokens, Expire(t) PROVE TypeOK'
  BY <1>7 DEF Expire, TypeOK, TokenRow
<1>8. ASSUME NEW e \in Emails, NEW t \in Links, SendLink(e, t) PROVE TypeOK'
  BY <1>8 DEF SendLink, TypeOK, Row, TokenRow, Tokens, Mail
<1>9. ASSUME NEW s \in sessions, EndSession(s) PROVE TypeOK'
  BY <1>9 DEF EndSession, TypeOK
<1>10. ASSUME NEW p \in Posts, NEW t \in Links, OpenLink(p, t) PROVE TypeOK'
  BY <1>10 DEF OpenLink, TypeOK, Post
<1>11. ASSUME NEW p \in Posts, RefuseForm(p) \/ ConsumeLink(p) PROVE TypeOK'
  <2>1. CASE RefuseForm(p)
    BY <2>1 DEF RefuseForm, NoPost, Post, TypeOK
  <2>2. CASE ConsumeLink(p)
    <3>1. LinkUse(p)
      BY <2>2, ConsumedLink
    <3>2. set' = set
      BY <2>2 DEF ConsumeLink
    <3>3. QED
      BY <3>1, <3>2 DEF LinkUse, TypeOK
  <2>3. QED
    BY <1>11, <2>1, <2>2
<1>12. ASSUME NEW p \in Posts, SetPassword(p) PROVE TypeOK'
  <2>1. token[post[p].link].email \in Emails /\ post[p].link \in Links
    BY <1>12 DEF SetPassword, Issued, Tokens
  <2>2. password' \in [Emails -> Nat \ {0}]
    BY <1>12, <2>1 DEF SetPassword, TypeOK
  <2>3. trusted' \in [Codes -> [Emails -> Nat]]
    BY <1>12, <2>1 DEF SetPassword, Untrust, TypeOK
  <2>4. post' \in [Posts -> Post]
    BY <1>12 DEF SetPassword, Post, TypeOK
  <2>5. set' \subseteq Links \X Nat
    BY <1>12, <2>1 DEF SetPassword, TypeOK
  <2>6. QED
    BY <1>12, <2>2, <2>3, <2>4, <2>5 DEF SetPassword, TypeOK
<1>13. ASSUME NEW p \in Posts, EndSessions(p) PROVE TypeOK'
  BY <1>13 DEF EndSessions, NoPost, Post, TypeOK, SessionsOf
<1>14. ASSUME Restart PROVE TypeOK'
  <2>1. \A p \in Posts : post[p].at = "end" => token[post[p].link].email \in Emails
    BY DEF Issued, Tokens
  <2>2. \A e \in Emails : InFlight(e) \in Nat
    BY InFlightCounts
  <2>3. refused' \in [Emails -> Nat]
    <3>1. refused' = [e \in Emails |-> refused[e] + InFlight(e)]
      BY <1>14 DEF Restart, InFlight
    <3>2. refused \in [Emails -> Nat]
      BY DEF TypeOK
    <3>3. QED
      BY <2>2, <3>1, <3>2
  <2>4. cut' \subseteq Emails
    BY <1>14, <2>1 DEF Restart, TypeOK
  <2>5. form' \in [Browsers -> Form]
    BY <1>14 DEF Restart, NoForm, Form
  <2>6. post' \in [Posts -> Post]
    BY <1>14 DEF Restart, NoPost, Post
  <2>7. QED
    BY <1>14, <2>3, <2>4, <2>5, <2>6 DEF Restart, TypeOK, Form
<1>15. ASSUME NEW b \in Browsers, NEW t \in Codes, Delivered(b, t) \/ Lost(b, t)
       PROVE TypeOK'
  <2>0. reply \in [Browsers -> SUBSET Codes] /\ reply[b] \ {t} \in SUBSET Codes
    BY DEF TypeOK
  <2>1. reply' \in [Browsers -> SUBSET Codes]
    BY <1>15, <2>0 DEF Delivered, Lost
  <2>2. device' \in [Browsers -> Codes \cup {None}]
    BY <1>15 DEF Delivered, Lost, TypeOK
  <2>3. QED
    BY <1>15, <2>1, <2>2 DEF Delivered, Lost, TypeOK
<1>16. ASSUME NEW e \in Emails, OwnerSetsPassword(e) PROVE TypeOK'
  BY <1>16 DEF OwnerSetsPassword, Untrust, TypeOK
<1>17. ASSUME UNCHANGED vars PROVE TypeOK'
  BY <1>17 DEF vars, TypeOK
<1>18. QED
  BY <1>1, <1>2, <1>3, <1>4, <1>5, <1>6, <1>7, <1>8, <1>9, <1>10, <1>11, <1>12, <1>13, <1>14, <1>15, <1>16, <1>17 DEF Next

(* Tokens pass from issued to used, and what depends on one stays issued.  *)
LEMMA IssuedStep == Base /\ [Next]_vars => Issued'
<1>. SUFFICES ASSUME Base, [Next]_vars PROVE Issued'
  OBVIOUS
<1>. USE DEF Base
<1>. USE DEF store, history, cookies
<1>1. ASSUME NEW b \in Browsers, NEW e \in Emails, NEW guess \in {0, password[e]},
              SubmitTrusted(b, e, guess) \/ SubmitCounted(b, e, guess) PROVE Issued'
  BY <1>1 DEF SubmitTrusted, SubmitCounted, Issued
<1>2. ASSUME NEW b \in Browsers, NEW e \in Emails, SubmitBlocked(b, e) PROVE Issued'
  BY <1>2 DEF SubmitBlocked, Issued
<1>3. ASSUME NEW b \in Browsers,
             (\E human \in BOOLEAN : BotAnswers(b, human)) \/ CheckPassword(b) PROVE Issued'
  BY <1>3 DEF BotAnswers, CheckPassword, Issued
<1>4. ASSUME NEW b \in Browsers, AnswerWrong(b) PROVE Issued'
  BY <1>4 DEF AnswerWrong, Issued
<1>5. ASSUME NEW b \in Browsers, NEW t \in Codes, AnswerRight(b, t) PROVE Issued'
  <2>1. form[b].email \in Emails /\ t \in Tokens
    BY <1>5 DEF AnswerRight, FormSound, Tokens
  <2>2. QED
    BY <1>5, <2>1 DEF AnswerRight, Row, Mail, TypeOK, Issued, Tokens
<1>6. ASSUME NEW b \in Browsers, NEW t \in Codes,
             EnterCode(b, t) \/ EnterCodeTrusting(b, t) PROVE Issued'
  <2>1. CodeUse(b, t)
    BY <1>6, CodeUsed
  <2>2. /\ \A u \in Tokens :
            /\ token'[u].email = token[u].email
            /\ token[u].state # "none" <=> token'[u].state # "none"
            /\ token[u].state = "used" => token'[u].state = "used"
        /\ token'[t].state = "used" /\ UNCHANGED <<mailed, post>>
    BY <2>1 DEF CodeUse
  <2>3. /\ \A c \in Browsers : device'[c] # None => token'[device'[c]].state = "used"
        /\ \A c \in Browsers : \A d \in reply'[c] : d \in reply[c] \/ d = t
    BY <2>1, <2>2 DEF CodeUse, TypeOK, Issued, Tokens
  <2>6. \A c \in Browsers : \A d \in reply'[c] : token'[d].state = "used"
    BY <2>2, <2>3 DEF TypeOK, Issued, Tokens
  <2>4. mailed \subseteq Tokens /\ Links \subseteq Tokens
    BY DEF TypeOK, Tokens
  <2>5. QED
    BY <2>2, <2>3, <2>4, <2>6 DEF Issued
<1>7. ASSUME NEW t \in Tokens, Expire(t) PROVE Issued'
  BY <1>7 DEF Expire, Live, TypeOK, Issued, Tokens
<1>8. ASSUME NEW e \in Emails, NEW t \in Links, SendLink(e, t) PROVE Issued'
  BY <1>8 DEF SendLink, Row, Mail, TypeOK, Issued, Tokens
<1>9. ASSUME NEW s \in sessions, EndSession(s) PROVE Issued'
  BY <1>9 DEF EndSession, Issued
<1>10. ASSUME NEW p \in Posts, NEW t \in Links, OpenLink(p, t) PROVE Issued'
  BY <1>10 DEF OpenLink, Live, TypeOK, Issued
<1>11. ASSUME NEW p \in Posts, RefuseForm(p) \/ ConsumeLink(p) PROVE Issued'
  <2>1. CASE RefuseForm(p)
    BY <2>1 DEF RefuseForm, NoPost, TypeOK, Issued
  <2>2. CASE ConsumeLink(p)
    <3>1. LinkUse(p)
      BY <2>2, ConsumedLink
    <3>2. QED
      <4>1. \A u \in Tokens :
            /\ token'[u].email = token[u].email
            /\ token[u].state # "none" <=> token'[u].state # "none"
            /\ token[u].state = "used" => token'[u].state = "used"
        BY <3>1 DEF LinkUse
      <4>2. /\ mailed \subseteq Tokens /\ Links \subseteq Tokens
            /\ \A c \in Browsers : device[c] # None => device[c] \in Tokens
            /\ \A c \in Browsers, d \in Codes : d \in reply[c] => d \in Tokens
        BY DEF TypeOK, Tokens
      <4>3. \A q \in Posts : post'[q].at # "none" => post[q].at # "none"
        BY <3>1 DEF LinkUse
      <4>4. ASSUME NEW c \in Browsers, NEW d \in reply[c]
            PROVE  token'[d].state = "used"
        <5>1. d \in Tokens
          BY DEF TypeOK, Tokens
        <5>2. token[d].state = "used"
          BY DEF Issued
        <5>3. QED
          BY <4>1, <5>1, <5>2
      <4>5. UNCHANGED <<mailed, device, reply>>
        BY <3>1 DEF LinkUse
      <4>6. QED
        BY <3>1, <4>1, <4>2, <4>3, <4>4, <4>5 DEF LinkUse, Issued
  <2>3. QED
    BY <1>11, <2>1, <2>2
<1>12. ASSUME NEW p \in Posts, SetPassword(p) PROVE Issued'
  BY <1>12 DEF SetPassword, TypeOK, Issued
<1>13. ASSUME NEW p \in Posts, EndSessions(p) PROVE Issued'
  BY <1>13 DEF EndSessions, NoPost, TypeOK, Issued
<1>14. ASSUME Restart PROVE Issued'
  BY <1>14 DEF Restart, NoPost, Issued
<1>15. ASSUME NEW b \in Browsers, NEW t \in Codes, Delivered(b, t) \/ Lost(b, t)
       PROVE Issued'
  <2>1. UNCHANGED <<token, mailed, post>>
    BY <1>15 DEF Delivered, Lost
  <2>2. \A c \in Browsers : /\ device'[c] = device[c] \/ device'[c] \in reply[c]
                            /\ reply'[c] \subseteq reply[c]
    BY <1>15 DEF Delivered, Lost, TypeOK
  <2>3. QED
    BY <2>1, <2>2 DEF Issued
<1>16. ASSUME NEW e \in Emails, OwnerSetsPassword(e) PROVE Issued'
  BY <1>16 DEF OwnerSetsPassword, Issued
<1>17. ASSUME UNCHANGED vars PROVE Issued'
  BY <1>17 DEF vars, Issued
<1>18. QED
  BY <1>1, <1>2, <1>3, <1>4, <1>5, <1>6, <1>7, <1>8, <1>9, <1>10, <1>11, <1>12, <1>13, <1>14, <1>15, <1>16, <1>17 DEF Next

(* A new password has a higher number and takes trust away.                *)
PasswordSet ==
    /\ \A e \in Emails : password'[e] >= password[e]
    /\ password \in [Emails -> Nat \ {0}] /\ password' \in [Emails -> Nat \ {0}]
    /\ \A d \in Codes, e \in Emails : trusted'[d][e] > 0 => trusted[d][e] > 0

LEMMA NewPassword ==
    ASSUME TypeOK, NEW e \in Emails, trusted' = Untrust(e),
           password' = [password EXCEPT ![e] = @ + 1]
    PROVE  PasswordSet
<1>1. password \in [Emails -> Nat \ {0}] /\ trusted \in [Codes -> [Emails -> Nat]]
  BY DEF TypeOK
<1>2. \A d \in Codes, f \in Emails : trusted'[d][f] > 0 => trusted[d][f] > 0
  BY <1>1 DEF Untrust
<1>3. \A f \in Emails : password'[f] >= password[f]
  BY <1>1
<1>4. password' \in [Emails -> Nat \ {0}]
  BY <1>1
<1>5. QED
  BY <1>1, <1>2, <1>3, <1>4 DEF PasswordSet

LEMMA PasswordKeepsForms ==
    ASSUME TypeOK, FormSound, PasswordSet, UNCHANGED <<form, token>>
    PROVE  FormSound'
<1>1. \A c \in Browsers : form[c] \in Form
  BY DEF TypeOK
<1>2. \A c \in Browsers : form[c].right =>
        form[c].guess \in 1 .. password'[form[c].email]
  <2>. SUFFICES ASSUME NEW c \in Browsers, form[c].right
                PROVE  form[c].guess \in 1 .. password'[form[c].email]
    OBVIOUS
  <2>1. form[c].email \in Emails /\ form[c].guess \in 1 .. password[form[c].email]
    BY DEF FormSound
  <2>2. QED
    BY <2>1 DEF PasswordSet
<1>3. \A c \in Browsers : form[c].counted =>
        ~(form[c].device # None /\ trusted'[form[c].device][form[c].email] > 0)
  BY <1>1 DEF FormSound, Form, IsTrusted, PasswordSet
<1>4. QED
  BY <1>2, <1>3 DEF FormSound, IsTrusted

(* A counted submission's browser is not trusted meanwhile.                *)
LEMMA FormStep == Base /\ [Next]_vars => FormSound'
<1>. SUFFICES ASSUME Base, [Next]_vars PROVE FormSound'
  OBVIOUS
<1>. USE DEF Base
<1>. USE DEF store, history, cookies
<1>1. ASSUME NEW b \in Browsers, NEW e \in Emails, NEW guess \in {0, password[e]},
              SubmitTrusted(b, e, guess) \/ SubmitCounted(b, e, guess) PROVE FormSound'
  <2>1. UNCHANGED <<password, token, trusted>>
    BY <1>1 DEF SubmitTrusted, SubmitCounted
  <2>2. device[b] # None => token[device[b]].state = "used"
    BY DEF Issued
  <2>3. Submits(b, e, guess)
    BY <1>1, SubmitTyped
  <2>4. QED
    BY <2>1, <2>2, <2>3 DEF Submits, FormSound, IsTrusted
<1>2. ASSUME NEW b \in Browsers, NEW e \in Emails, SubmitBlocked(b, e) PROVE FormSound'
  BY <1>2 DEF SubmitBlocked, FormSound, IsTrusted
<1>3. ASSUME NEW b \in Browsers,
             (\E human \in BOOLEAN : BotAnswers(b, human)) \/ CheckPassword(b) PROVE FormSound'
  <2>1. UNCHANGED <<password, token, trusted>>
    BY <1>3 DEF BotAnswers, CheckPassword
  <2>0. Moves(b)
    BY <1>3, FormMoves
  <2>2. form[b].email \in Emails /\ form[b].guess \in Nat
    BY <2>0 DEF Moves, FormSound, TypeOK, Form
  <2>3. form'[b].right => form[b].guess \in 1 .. password[form[b].email]
    BY <2>0, <2>2 DEF Moves, FormSound, TypeOK
  <2>4. QED
    BY <2>0, <2>1, <2>2, <2>3 DEF Moves, FormSound, IsTrusted
<1>4. ASSUME NEW b \in Browsers, AnswerWrong(b) PROVE FormSound'
  BY <1>4 DEF AnswerWrong, FormSound, NoForm, TypeOK, IsTrusted
<1>5. ASSUME NEW b \in Browsers, NEW t \in Codes, AnswerRight(b, t) PROVE FormSound'
  BY <1>5 DEF AnswerRight, FormSound, NoForm, TypeOK, Row, IsTrusted, Tokens
<1>6. ASSUME NEW b \in Browsers, NEW t \in Codes,
             EnterCode(b, t) \/ EnterCodeTrusting(b, t) PROVE FormSound'
  <2>1. CodeUse(b, t)
    BY <1>6, CodeUsed
  <2>2. \A c \in Browsers : form[c].device # t
    BY <2>1, SignInOK DEF CodeUse, FormSound
  <2>3. \A c \in Browsers : form[c].device # None => form[c].device \in Tokens \ {t}
    BY <2>2 DEF TypeOK, Form, Tokens
  <2>4. \A c \in Browsers : form[c].counted =>
            ~IsTrusted(form[c].device, form[c].email)'
    <3>. SUFFICES ASSUME NEW c \in Browsers, form[c].counted,
                         IsTrusted(form[c].device, form[c].email)'
                  PROVE  FALSE
      BY Zenon
    <3>1. form'[c] = form[c] /\ form[c].email \in Emails
      BY <2>1 DEF CodeUse, FormSound
    <3>2. form[c].device \in Codes \ {t}
      BY <2>2, <3>1 DEF TypeOK, Form, IsTrusted
    <3>3. IsTrusted(form[c].device, form[c].email)
      BY <2>1, <3>1, <3>2 DEF CodeUse, IsTrusted
    <3>4. QED
      BY <3>3 DEF FormSound
  <2>5. QED
    BY <2>1, <2>3, <2>4 DEF CodeUse, FormSound, IsTrusted
<1>7. ASSUME NEW t \in Tokens, Expire(t) PROVE FormSound'
  BY <1>7 DEF Expire, Live, TypeOK, FormSound, IsTrusted, Tokens
<1>8. ASSUME NEW e \in Emails, NEW t \in Links, SendLink(e, t) PROVE FormSound'
  BY <1>8 DEF SendLink, Row, TypeOK, FormSound, IsTrusted, Tokens
<1>9. ASSUME NEW s \in sessions, EndSession(s) PROVE FormSound'
  BY <1>9 DEF EndSession, FormSound, IsTrusted
<1>10. ASSUME NEW p \in Posts, NEW t \in Links, OpenLink(p, t) PROVE FormSound'
  BY <1>10 DEF OpenLink, FormSound, IsTrusted
<1>11. ASSUME NEW p \in Posts, RefuseForm(p) \/ ConsumeLink(p) PROVE FormSound'
  <2>1. CASE RefuseForm(p)
    BY <2>1 DEF RefuseForm, FormSound, IsTrusted
  <2>2. CASE ConsumeLink(p)
    <3>1. LinkUse(p)
      BY <2>2, ConsumedLink
    <3>2. \A c \in Browsers : form[c].device # None =>
            form[c].device \in Tokens \ {post[p].link}
      BY <3>1, SignInOK DEF LinkUse, TypeOK, Form, Tokens
    <3>3. QED
      BY <3>1, <3>2 DEF LinkUse, FormSound, IsTrusted
  <2>3. QED
    BY <1>11, <2>1, <2>2
<1>12. ASSUME NEW p \in Posts, SetPassword(p) PROVE FormSound'
  <2>1. token[post[p].link].email \in Emails
    BY <1>12 DEF SetPassword, Issued, Tokens
  <2>2. PasswordSet
    BY <1>12, <2>1, NewPassword DEF SetPassword
  <2>3. QED
    BY <1>12, <2>2, PasswordKeepsForms DEF SetPassword
<1>13. ASSUME NEW p \in Posts, EndSessions(p) PROVE FormSound'
  BY <1>13 DEF EndSessions, FormSound, IsTrusted
<1>14. ASSUME Restart PROVE FormSound'
  BY <1>14 DEF Restart, NoForm, FormSound, IsTrusted
<1>15. ASSUME NEW b \in Browsers, NEW t \in Codes, Delivered(b, t) \/ Lost(b, t)
       PROVE FormSound'
  BY <1>15 DEF Delivered, Lost, FormSound, IsTrusted
<1>16. ASSUME NEW e \in Emails, OwnerSetsPassword(e) PROVE FormSound'
  <2>1. PasswordSet
    BY <1>16, NewPassword DEF OwnerSetsPassword
  <2>2. QED
    BY <1>16, <2>1, PasswordKeepsForms DEF OwnerSetsPassword
<1>17. ASSUME UNCHANGED vars PROVE FormSound'
  BY <1>17 DEF vars, FormSound, IsTrusted
<1>18. QED
  BY <1>1, <1>2, <1>3, <1>4, <1>5, <1>6, <1>7, <1>8, <1>9, <1>10, <1>11, <1>12, <1>13, <1>14, <1>15, <1>16, <1>17 DEF Next

(* A code stays bound to the browser whose password it answers.            *)
LEMMA BoundStep == Base /\ [Next]_vars => CodeBound'
<1>. SUFFICES ASSUME Base, [Next]_vars PROVE CodeBound'
  OBVIOUS
<1>. USE DEF Base
<1>. USE DEF store, history, cookies
<1>1. ASSUME NEW b \in Browsers, NEW e \in Emails, NEW guess \in {0, password[e]},
              SubmitTrusted(b, e, guess) \/ SubmitCounted(b, e, guess) PROVE CodeBound'
  BY <1>1 DEF SubmitTrusted, SubmitCounted, CodeBound
<1>2. ASSUME NEW b \in Browsers, NEW e \in Emails, SubmitBlocked(b, e) PROVE CodeBound'
  BY <1>2 DEF SubmitBlocked, Answered, TypeOK, CodeBound
<1>3. ASSUME NEW b \in Browsers,
             (\E human \in BOOLEAN : BotAnswers(b, human)) \/ CheckPassword(b) PROVE CodeBound'
  BY <1>3 DEF BotAnswers, CheckPassword, CodeBound
<1>4. ASSUME NEW b \in Browsers, AnswerWrong(b) PROVE CodeBound'
  BY <1>4 DEF AnswerWrong, Answered, TypeOK, CodeBound
<1>5. ASSUME NEW b \in Browsers, NEW t \in Codes, AnswerRight(b, t) PROVE CodeBound'
  <2>1. /\ t \in Tokens /\ token[t].state = "none"
        /\ typed' = [typed EXCEPT ![t] = <<b, form[b].guess>>]
        /\ token' = [token EXCEPT ![t] = Row(form[b].email)]
        /\ password' = password
        /\ form[b].guess \in 1 .. password[form[b].email]
    BY <1>5 DEF AnswerRight, FormSound, Tokens
  <2>2. /\ typed'[t] = <<b, form[b].guess>> /\ token'[t] = Row(form[b].email)
        /\ \A u \in Codes \ {t} : typed'[u] = typed[u] /\ token'[u] = token[u]
    BY <2>1 DEF TypeOK, Tokens
  <2>3. \A c \in Browsers : pending'[c] = pending[c] \/ (c = b /\ pending'[c] = t)
    BY <1>5 DEF AnswerRight, Answered, TypeOK
  <2>4. \A c \in Browsers : pending[c] # None => pending[c] \in Codes \ {t}
    BY <2>1 DEF CodeBound, TypeOK
  <2>5. QED
    BY <2>1, <2>2, <2>3, <2>4 DEF CodeBound, Row
<1>6. ASSUME NEW b \in Browsers, NEW t \in Codes,
             EnterCode(b, t) \/ EnterCodeTrusting(b, t) PROVE CodeBound'
  <2>1. CodeUse(b, t)
    BY <1>6, CodeUsed
  <2>2. \A c \in Browsers : pending[c] \in Tokens \cup {None}
    BY DEF TypeOK, Tokens
  <2>3. \A u \in Tokens : /\ token'[u].email = token[u].email
                          /\ token[u].state # "none" => token'[u].state # "none"
    BY <2>1 DEF CodeUse
  <2>4. UNCHANGED <<typed, password>>
        /\ \A c \in Browsers : pending'[c] \in {pending[c], None}
    BY <2>1 DEF CodeUse
  <2>5. QED
    BY <2>2, <2>3, <2>4 DEF CodeBound
<1>7. ASSUME NEW t \in Tokens, Expire(t) PROVE CodeBound'
  BY <1>7 DEF Expire, Live, TypeOK, CodeBound, Tokens
<1>8. ASSUME NEW e \in Emails, NEW t \in Links, SendLink(e, t) PROVE CodeBound'
  BY <1>8 DEF SendLink, Row, TypeOK, CodeBound, Tokens
<1>9. ASSUME NEW s \in sessions, EndSession(s) PROVE CodeBound'
  BY <1>9 DEF EndSession, CodeBound
<1>10. ASSUME NEW p \in Posts, NEW t \in Links, OpenLink(p, t) PROVE CodeBound'
  BY <1>10 DEF OpenLink, CodeBound
<1>11. ASSUME NEW p \in Posts, RefuseForm(p) \/ ConsumeLink(p) PROVE CodeBound'
  <2>1. CASE RefuseForm(p)
    BY <2>1 DEF RefuseForm, CodeBound
  <2>2. CASE ConsumeLink(p)
    <3>1. LinkUse(p)
      BY <2>2, ConsumedLink
    <3>2. \A c \in Browsers : pending[c] # None =>
            pending[c] \in Tokens \ {post[p].link}
      BY <3>1, SignInOK DEF LinkUse, TypeOK, Tokens
    <3>3. QED
      BY <3>1, <3>2 DEF LinkUse, CodeBound
  <2>3. QED
    BY <1>11, <2>1, <2>2
<1>12. ASSUME NEW p \in Posts, SetPassword(p) PROVE CodeBound'
  BY <1>12 DEF SetPassword, TypeOK, CodeBound, Issued, Tokens
<1>13. ASSUME NEW p \in Posts, EndSessions(p) PROVE CodeBound'
  BY <1>13 DEF EndSessions, CodeBound
<1>14. ASSUME Restart PROVE CodeBound'
  BY <1>14 DEF Restart, CodeBound
<1>15. ASSUME NEW b \in Browsers, NEW t \in Codes, Delivered(b, t) \/ Lost(b, t)
       PROVE CodeBound'
  BY <1>15 DEF Delivered, Lost, CodeBound
<1>16. ASSUME NEW e \in Emails, OwnerSetsPassword(e) PROVE CodeBound'
  BY <1>16 DEF OwnerSetsPassword, TypeOK, CodeBound, Issued, Tokens
<1>17. ASSUME UNCHANGED vars PROVE CodeBound'
  BY <1>17 DEF vars, CodeBound
<1>18. QED
  BY <1>1, <1>2, <1>3, <1>4, <1>5, <1>6, <1>7, <1>8, <1>9, <1>10, <1>11, <1>12, <1>13, <1>14, <1>15, <1>16, <1>17 DEF Next
-----------------------------------------------------------------------------
(* An id is in, or on its way to, the browser that typed the password its  *)
(* code was mailed for; and it is trusted under the password set last.     *)
TrustHeld ==
    /\ \A b \in Browsers, d \in Codes :
        device[b] = d \/ d \in reply[b] => b = typed[d][1]
    /\ \A d \in Codes, e \in Emails :
        IsTrusted(d, e) => trusted[d][e] = password[e]

(* A link that set a password is used, and no post sets another with it.   *)
LinksApart ==
    /\ \A x \in set :
        /\ token[x[1]].state = "used"
        /\ x[2] <= password[token[x[1]].email]
    /\ \A p \in Posts : post[p].at = "set" =>
        /\ token[post[p].link].state = "used"
        /\ \A x \in set : x[1] # post[p].link
    /\ \A p, q \in Posts :
        post[p].at = "set" /\ post[q].at = "set" /\ post[p].link = post[q].link
            => p = q

(* What a session's row says.                                              *)
LEMMA SessionFacts ==
    ASSUME Base, SessionEarned, NEW s \in sessions
    PROVE  /\ s.code \in Codes /\ s.code \in Tokens
           /\ token[s.code].state = "used"
           /\ s.email \in Emails /\ typed[s.code][2] \in Nat
<1>1. s.code \in Codes /\ s.email \in Emails
  BY DEF Base, TypeOK
<1>2. token[s.code].state = "used"
  <2>1. token[s.code] = [email |-> s.email, state |-> "used"]
    BY DEF SessionEarned
  <2>2. QED
    BY <2>1
<1>3. typed[s.code][2] \in Nat
  BY <1>1 DEF Base, TypeOK
<1>4. QED
  BY <1>1, <1>2, <1>3 DEF Tokens

LEMMA PasswordKeepsEarned ==
    ASSUME Base, SessionEarned, PasswordSet, UNCHANGED <<sessions, mailed, token, typed>>
    PROVE  SessionEarned'
<1>1. \A s \in sessions : typed[s.code][2] \in 1 .. password'[s.email]
  <2>. TAKE s \in sessions
  <2>1. s.email \in Emails /\ typed[s.code][2] \in Nat
    BY SessionFacts
  <2>2. typed[s.code][2] \in 1 .. password[s.email]
    BY DEF SessionEarned
  <2>3. QED
    BY <2>1, <2>2 DEF PasswordSet
<1>2. QED
  BY <1>1 DEF SessionEarned

(* A session stays one that was earned.                                    *)
LEMMA EarnedStep == Base /\ SessionEarned /\ [Next]_vars => SessionEarned'
<1>. SUFFICES ASSUME Base /\ SessionEarned, [Next]_vars PROVE SessionEarned'
  OBVIOUS
<1>. USE DEF Base
<1>. USE DEF store, history, cookies
<1>1. ASSUME NEW b \in Browsers, NEW e \in Emails, NEW guess \in {0, password[e]},
              SubmitTrusted(b, e, guess) \/ SubmitCounted(b, e, guess) PROVE SessionEarned'
  BY <1>1 DEF SubmitTrusted, SubmitCounted, SessionEarned
<1>2. ASSUME NEW b \in Browsers, NEW e \in Emails, SubmitBlocked(b, e) PROVE SessionEarned'
  BY <1>2 DEF SubmitBlocked, SessionEarned
<1>3. ASSUME NEW b \in Browsers,
             (\E human \in BOOLEAN : BotAnswers(b, human)) \/ CheckPassword(b) PROVE SessionEarned'
  BY <1>3 DEF BotAnswers, CheckPassword, SessionEarned
<1>4. ASSUME NEW b \in Browsers, AnswerWrong(b) PROVE SessionEarned'
  BY <1>4 DEF AnswerWrong, SessionEarned
<1>5. ASSUME NEW b \in Browsers, NEW t \in Codes, AnswerRight(b, t) PROVE SessionEarned'
  <2>1. \A s \in sessions : s.code \in Codes /\ s.code # t /\ s.code \in Tokens
    BY <1>5, SessionFacts DEF AnswerRight
  <2>2. /\ \A u \in Tokens \ {t} : token'[u] = token[u]
        /\ \A u \in Codes \ {t} : typed'[u] = typed[u]
        /\ mailed \subseteq mailed' /\ UNCHANGED <<password, sessions>>
    BY <1>5 DEF AnswerRight, Mail, TypeOK
  <2>3. QED
    BY <2>1, <2>2 DEF SessionEarned
<1>6. ASSUME NEW b \in Browsers, NEW t \in Codes,
             EnterCode(b, t) \/ EnterCodeTrusting(b, t) PROVE SessionEarned'
  <2>1. CodeUse(b, t)
    BY <1>6, CodeUsed
  <2>2. /\ token[t].email \in Emails /\ typed[t][1] = b
        /\ typed[t][2] \in 1 .. password[token[t].email]
    BY <2>1, SignInOK DEF CodeUse, Issued, CodeBound
  <2>3. \A s \in sessions : s.code # t /\ s.code \in Tokens
    BY <2>1, SessionFacts DEF CodeUse
  <2>4. \A s \in sessions' : s \in sessions \/ s = NewSession(b, t)
    BY <2>1 DEF CodeUse
  <2>5. UNCHANGED <<password, mailed, typed>>
    BY <2>1 DEF CodeUse
  <2>6. NewSession(b, t).code = t /\ NewSession(b, t).browser = b
        /\ NewSession(b, t).email = token[t].email
    BY DEF NewSession
  <2>7. \A s \in sessions' :
        /\ s.code \in mailed'
        /\ token'[s.code] = [email |-> s.email, state |-> "used"]
        /\ typed'[s.code][1] = s.browser
        /\ typed'[s.code][2] \in 1 .. password'[s.email]
    <3>. TAKE s \in sessions'
    <3>1. CASE s \in sessions
      BY <2>1, <2>3, <2>5, <3>1 DEF CodeUse, SessionEarned
    <3>2. CASE s = NewSession(b, t)
      BY <2>1, <2>2, <2>5, <2>6, <3>2 DEF CodeUse
    <3>3. QED
      BY <2>4, <3>1, <3>2
  <2>8. \A s1, s2 \in sessions' : s1.code = s2.code => s1 = s2
    BY <2>3, <2>4, <2>6 DEF SessionEarned
  <2>9. QED
    BY <2>7, <2>8 DEF SessionEarned
<1>7. ASSUME NEW t \in Tokens, Expire(t) PROVE SessionEarned'
  <2>1. \A s \in sessions : s.code # t /\ s.code \in Tokens
    BY <1>7, SessionFacts DEF Expire, Live
  <2>2. QED
    BY <1>7, <2>1 DEF Expire, SessionEarned, TypeOK
<1>8. ASSUME NEW e \in Emails, NEW t \in Links, SendLink(e, t) PROVE SessionEarned'
  <2>1. \A s \in sessions : s.code # t /\ s.code \in Tokens
    BY <1>8, SessionFacts DEF SendLink
  <2>2. QED
    BY <1>8, <2>1 DEF SendLink, Mail, SessionEarned, TypeOK, Tokens
<1>9. ASSUME NEW s \in sessions, EndSession(s) PROVE SessionEarned'
  BY <1>9 DEF EndSession, SessionEarned
<1>10. ASSUME NEW p \in Posts, NEW t \in Links, OpenLink(p, t) PROVE SessionEarned'
  BY <1>10 DEF OpenLink, SessionEarned
<1>11. ASSUME NEW p \in Posts, RefuseForm(p) \/ ConsumeLink(p) PROVE SessionEarned'
  <2>1. CASE RefuseForm(p)
    BY <2>1 DEF RefuseForm, SessionEarned
  <2>2. CASE ConsumeLink(p)
    <3>1. LinkUse(p)
      BY <2>2, ConsumedLink
    <3>2. \A s \in sessions : s.code # post[p].link /\ s.code \in Tokens
      BY <3>1, SessionFacts DEF LinkUse
    <3>3. QED
      BY <3>1, <3>2 DEF LinkUse, SessionEarned
  <2>3. QED
    BY <1>11, <2>1, <2>2
<1>12. ASSUME NEW p \in Posts, SetPassword(p) PROVE SessionEarned'
  <2>1. token[post[p].link].email \in Emails
    BY <1>12 DEF SetPassword, Issued, Tokens
  <2>2. PasswordSet
    BY <1>12, <2>1, NewPassword DEF SetPassword
  <2>3. QED
    BY <1>12, <2>2, PasswordKeepsEarned DEF SetPassword
<1>13. ASSUME NEW p \in Posts, EndSessions(p) PROVE SessionEarned'
  BY <1>13 DEF EndSessions, SessionEarned
<1>14. ASSUME Restart PROVE SessionEarned'
  BY <1>14 DEF Restart, SessionEarned
<1>15. ASSUME NEW b \in Browsers, NEW t \in Codes, Delivered(b, t) \/ Lost(b, t)
       PROVE SessionEarned'
  BY <1>15 DEF Delivered, Lost, SessionEarned
<1>16. ASSUME NEW e \in Emails, OwnerSetsPassword(e) PROVE SessionEarned'
  <2>1. PasswordSet
    BY <1>16, NewPassword DEF OwnerSetsPassword
  <2>2. QED
    BY <1>16, <2>1, PasswordKeepsEarned DEF OwnerSetsPassword
<1>17. ASSUME UNCHANGED vars PROVE SessionEarned'
  BY <1>17 DEF vars, SessionEarned
<1>18. QED
  BY <1>1, <1>2, <1>3, <1>4, <1>5, <1>6, <1>7, <1>8, <1>9, <1>10, <1>11, <1>12, <1>13, <1>14, <1>15, <1>16, <1>17 DEF Next

(* Trust follows the browser that holds its id, and ends with the password. *)
LEMMA TrustStep == Base /\ TrustHeld /\ [Next]_vars => TrustHeld'
<1>. SUFFICES ASSUME Base /\ TrustHeld, [Next]_vars PROVE TrustHeld'
  OBVIOUS
<1>. USE DEF Base
<1>. USE DEF store, history, cookies
<1>1. ASSUME NEW b \in Browsers, NEW e \in Emails, NEW guess \in {0, password[e]},
              SubmitTrusted(b, e, guess) \/ SubmitCounted(b, e, guess) PROVE TrustHeld'
  <2>1. UNCHANGED <<trusted, password, device, reply, typed>>
    BY <1>1 DEF SubmitTrusted, SubmitCounted
  <2>2. QED
    BY <2>1 DEF TrustHeld, IsTrusted
<1>2. ASSUME NEW b \in Browsers, NEW e \in Emails, SubmitBlocked(b, e) PROVE TrustHeld'
  BY <1>2 DEF SubmitBlocked, TrustHeld, IsTrusted
<1>3. ASSUME NEW b \in Browsers,
             (\E human \in BOOLEAN : BotAnswers(b, human)) \/ CheckPassword(b) PROVE TrustHeld'
  BY <1>3 DEF BotAnswers, CheckPassword, TrustHeld, IsTrusted
<1>4. ASSUME NEW b \in Browsers, AnswerWrong(b) PROVE TrustHeld'
  BY <1>4 DEF AnswerWrong, TrustHeld, IsTrusted
<1>5. ASSUME NEW b \in Browsers, NEW t \in Codes, AnswerRight(b, t) PROVE TrustHeld'
  <2>1. t \in Tokens /\ UNCHANGED <<device, reply, trusted, password>>
        /\ \A d \in Codes \ {t} : typed'[d] = typed[d]
    BY <1>5 DEF AnswerRight, TypeOK, Tokens
  <2>2. \A c \in Browsers : device[c] # t /\ t \notin reply[c]
    BY <1>5, <2>1, SignInOK DEF AnswerRight, Issued, Tokens
  <2>3. QED
    BY <2>1, <2>2 DEF TrustHeld, IsTrusted
<1>6. ASSUME NEW b \in Browsers, NEW t \in Codes,
             EnterCode(b, t) \/ EnterCodeTrusting(b, t) PROVE TrustHeld'
  <2>1. CodeUse(b, t)
    BY <1>6, CodeUsed
  <2>2. \A c \in Browsers : device[c] # t
    BY <2>1, SignInOK DEF CodeUse, Issued
  <2>3. CASE EnterCode(b, t)
    BY <2>1, <2>3 DEF EnterCode, CodeUse, TrustHeld, IsTrusted
  <2>4. CASE EnterCodeTrusting(b, t)
    <3>1. token[t].email \in Emails /\ t # None /\ device[b] \in Codes \cup {None}
      BY <2>1, SignInOK DEF CodeUse, Issued, TypeOK, Tokens
    <3>2. /\ UNCHANGED <<device, typed, password>>
          /\ trusted' = Trust(device[b], t, token[t].email)
      BY <2>1, <2>4 DEF EnterCodeTrusting, CodeUse
    <3>3. typed[t][1] = b
      BY <2>1, <3>1 DEF CodeUse, CodeBound
    <3>4. \A c \in Browsers, d \in Codes :
            device'[c] = d \/ d \in reply'[c] => c = typed'[d][1]
      BY <2>1, <3>2, <3>3 DEF CodeUse, TrustHeld
    <3>5. ASSUME NEW d \in Codes, NEW e \in Emails, IsTrusted(d, e)'
          PROVE  trusted'[d][e] = password'[e]
      <4>1. CASE d = t
        <5>1. trusted'[d][e] = IF e = token[t].email THEN password[e]
                               ELSE IF device[b] = None THEN 0
                               ELSE trusted[device[b]][e]
          BY <2>2, <3>1, <3>2, <4>1 DEF Trust
        <5>2. QED
          BY <3>1, <3>2, <3>5, <5>1 DEF IsTrusted, TrustHeld
      <4>2. CASE d # t
        <5>1. trusted'[d] = trusted[d]
          BY <3>2, <3>5, <4>2 DEF Trust, NoTrust, IsTrusted
        <5>2. QED
          BY <3>2, <3>5, <5>1 DEF IsTrusted, TrustHeld
      <4>3. QED
        BY <4>1, <4>2
    <3>6. QED
      BY <3>4, <3>5 DEF TrustHeld
  <2>5. QED
    BY <1>6, <2>3, <2>4
<1>7. ASSUME NEW t \in Tokens, Expire(t) PROVE TrustHeld'
  BY <1>7 DEF Expire, TrustHeld, IsTrusted
<1>8. ASSUME NEW e \in Emails, NEW t \in Links, SendLink(e, t) PROVE TrustHeld'
  BY <1>8 DEF SendLink, TrustHeld, IsTrusted
<1>9. ASSUME NEW s \in sessions, EndSession(s) PROVE TrustHeld'
  BY <1>9 DEF EndSession, TrustHeld, IsTrusted
<1>10. ASSUME NEW p \in Posts, NEW t \in Links, OpenLink(p, t) PROVE TrustHeld'
  BY <1>10 DEF OpenLink, TrustHeld, IsTrusted
<1>11. ASSUME NEW p \in Posts, RefuseForm(p) \/ ConsumeLink(p) PROVE TrustHeld'
  BY <1>11 DEF RefuseForm, ConsumeLink, TrustHeld, IsTrusted
<1>12. ASSUME NEW p \in Posts, SetPassword(p) PROVE TrustHeld'
  <2>1. token[post[p].link].email \in Emails
    BY <1>12 DEF SetPassword, Issued, Tokens
  <2>2. \A d \in Codes, e \in Emails :
            trusted'[d][e] = IF e = token[post[p].link].email THEN 0 ELSE trusted[d][e]
    BY <1>12, <2>1 DEF SetPassword, Untrust, TypeOK
  <2>3. \A e \in Emails : e # token[post[p].link].email => password'[e] = password[e]
    BY <1>12 DEF SetPassword, TypeOK
  <2>4. UNCHANGED <<device, reply, typed>>
    BY <1>12 DEF SetPassword
  <2>5. QED
    BY <2>2, <2>3, <2>4 DEF TrustHeld, IsTrusted
<1>13. ASSUME NEW p \in Posts, EndSessions(p) PROVE TrustHeld'
  BY <1>13 DEF EndSessions, TrustHeld, IsTrusted
<1>14. ASSUME Restart PROVE TrustHeld'
  BY <1>14 DEF Restart, TrustHeld, IsTrusted
<1>15. ASSUME NEW b \in Browsers, NEW t \in Codes, Delivered(b, t) \/ Lost(b, t)
       PROVE TrustHeld'
  BY <1>15 DEF Delivered, Lost, TypeOK, TrustHeld, IsTrusted
<1>16. ASSUME NEW e \in Emails, OwnerSetsPassword(e) PROVE TrustHeld'
  BY <1>16 DEF OwnerSetsPassword, Untrust, TypeOK, TrustHeld, IsTrusted
<1>17. ASSUME UNCHANGED vars PROVE TrustHeld'
  BY <1>17 DEF vars, TrustHeld, IsTrusted
<1>18. QED
  BY <1>1, <1>2, <1>3, <1>4, <1>5, <1>6, <1>7, <1>8, <1>9, <1>10, <1>11, <1>12, <1>13, <1>14, <1>15, <1>16, <1>17 DEF Next

(* The steps that touch none of tokens, passwords, posts and sessions, and *)
(* the others.                                                             *)
Quiet == UNCHANGED <<token, password, post, sessions, set, cut>>

LEMMA StepKinds ==
    ASSUME [Next]_vars
    PROVE  \/ Quiet
           \/ \E b \in Browsers, t \in Codes :
                AnswerRight(b, t) \/ EnterCode(b, t) \/ EnterCodeTrusting(b, t)
           \/ \E t \in Tokens : Expire(t)
           \/ \E e \in Emails, t \in Links : SendLink(e, t)
           \/ \E e \in Emails : OwnerSetsPassword(e)
           \/ \E s \in sessions : EndSession(s)
           \/ \E p \in Posts, t \in Links : OpenLink(p, t)
           \/ \E p \in Posts : RefuseForm(p) \/ ConsumeLink(p)
           \/ \E p \in Posts : SetPassword(p)
           \/ \E p \in Posts : EndSessions(p)
           \/ Restart
<1>. USE DEF store, history, cookies
<1>1. ASSUME NEW b, NEW e, NEW guess,
             SubmitTrusted(b, e, guess) \/ SubmitCounted(b, e, guess) PROVE Quiet
  BY <1>1 DEF SubmitTrusted, SubmitCounted, Quiet
<1>2. ASSUME NEW b, NEW e, SubmitBlocked(b, e) PROVE Quiet
  BY <1>2 DEF SubmitBlocked, Quiet
<1>3. ASSUME NEW b, NEW human, BotAnswers(b, human) PROVE Quiet
  BY <1>3 DEF BotAnswers, Quiet
<1>4. ASSUME NEW b, CheckPassword(b) \/ AnswerWrong(b) PROVE Quiet
  BY <1>4 DEF CheckPassword, AnswerWrong, Quiet
<1>5. ASSUME NEW b, NEW t, Delivered(b, t) \/ Lost(b, t) PROVE Quiet
  BY <1>5 DEF Delivered, Lost, Quiet
<1>6. ASSUME UNCHANGED vars PROVE Quiet
  BY <1>6 DEF vars, Quiet
<1>. HIDE DEF store, history, cookies
<1>7. QED
  BY <1>1, <1>2, <1>3, <1>4, <1>5, <1>6, Zenon DEF Next

(* Which email a token is of, and that it was used, stays.                 *)
TokensKept ==
    \A u \in Tokens :
        /\ token[u].state # "none" =>
            token'[u].email = token[u].email /\ token'[u].state # "none"
        /\ token[u].state = "used" => token'[u].state = "used"

LEMMA TokenStep == Base /\ [Next]_vars => TokensKept
<1>. SUFFICES ASSUME Base, [Next]_vars PROVE TokensKept
  OBVIOUS
<1>. USE DEF Base, store, history, cookies
<1>0. token \in [Tokens -> TokenRow]
  BY DEF TypeOK
<1>1. ASSUME NEW b \in Browsers, NEW t \in Codes, AnswerRight(b, t) PROVE TokensKept
  <2>1. t \in Tokens /\ token[t].state = "none"
        /\ token' = [token EXCEPT ![t] = Row(form[b].email)]
    BY <1>1 DEF AnswerRight, Tokens
  <2>2. QED
    BY <1>0, <2>1 DEF TokensKept
<1>2. ASSUME NEW b \in Browsers, NEW t \in Codes,
             EnterCode(b, t) \/ EnterCodeTrusting(b, t) PROVE TokensKept
  <2>1. CodeUse(b, t)
    BY <1>2, CodeUsed
  <2>2. QED
    BY <2>1 DEF CodeUse, TokensKept
<1>3. ASSUME NEW t \in Tokens, Expire(t) PROVE TokensKept
  BY <1>0, <1>3 DEF Expire, Live, TokensKept, TokenRow
<1>4. ASSUME NEW e \in Emails, NEW t \in Links, SendLink(e, t) PROVE TokensKept
  BY <1>0, <1>4 DEF SendLink, TokensKept, Tokens
<1>5. ASSUME NEW p \in Posts, ConsumeLink(p) PROVE TokensKept
  <2>1. LinkUse(p)
    BY <1>5, ConsumedLink
  <2>2. QED
    BY <2>1 DEF LinkUse, TokensKept
<1>6. CASE UNCHANGED token
  BY <1>6 DEF TokensKept
<1>7. QED
  <2>1. ASSUME NEW p \in Posts, RefuseForm(p) \/ SetPassword(p) \/ EndSessions(p)
        PROVE  UNCHANGED token
    BY <2>1 DEF RefuseForm, SetPassword, EndSessions
  <2>2. ASSUME NEW p \in Posts, NEW t \in Links, OpenLink(p, t) PROVE UNCHANGED token
    BY <2>2 DEF OpenLink
  <2>3. ASSUME NEW e \in Emails, OwnerSetsPassword(e) PROVE UNCHANGED token
    BY <2>3 DEF OwnerSetsPassword
  <2>4. ASSUME NEW x \in sessions, EndSession(x) PROVE UNCHANGED token
    BY <2>4 DEF EndSession
  <2>5. Quiet \/ Restart => UNCHANGED token
    BY DEF Quiet, Restart
  <2>6. QED
    BY <1>1, <1>2, <1>3, <1>4, <1>5, <1>6, <2>1, <2>2, <2>3, <2>4, <2>5, StepKinds

(* Passwords are only set anew.                                            *)
LEMMA PasswordStep ==
    Base /\ [Next]_vars => \A e \in Emails : password'[e] >= password[e]
<1>. SUFFICES ASSUME Base, [Next]_vars
              PROVE  \A e \in Emails : password'[e] >= password[e]
  OBVIOUS
<1>. USE DEF Base, store, history, cookies
<1>0. password \in [Emails -> Nat \ {0}]
  BY DEF TypeOK
<1>1. ASSUME NEW e, password' = [password EXCEPT ![e] = @ + 1]
      PROVE  \A f \in Emails : password'[f] >= password[f]
  BY <1>0, <1>1
<1>2. CASE UNCHANGED password
  BY <1>0, <1>2
<1>3. ASSUME NEW p \in Posts, SetPassword(p)
      PROVE  \E e : password' = [password EXCEPT ![e] = @ + 1]
  BY <1>3, Zenon DEF SetPassword
<1>4. ASSUME NEW e \in Emails, OwnerSetsPassword(e)
      PROVE  password' = [password EXCEPT ![e] = @ + 1]
  BY <1>4 DEF OwnerSetsPassword
<1>5. ASSUME NEW p \in Posts, RefuseForm(p) \/ ConsumeLink(p) \/ EndSessions(p)
      PROVE  UNCHANGED password
  BY <1>5 DEF RefuseForm, ConsumeLink, EndSessions
<1>6. ASSUME NEW p \in Posts, NEW t \in Links, OpenLink(p, t) PROVE UNCHANGED password
  BY <1>6 DEF OpenLink
<1>7. ASSUME NEW b \in Browsers, NEW t \in Codes,
             AnswerRight(b, t) \/ EnterCode(b, t) \/ EnterCodeTrusting(b, t)
      PROVE  UNCHANGED password
  BY <1>7 DEF AnswerRight, EnterCode, EnterCodeTrusting, Code
<1>8. ASSUME NEW t \in Tokens, Expire(t) PROVE UNCHANGED password
  BY <1>8 DEF Expire
<1>9. ASSUME NEW e \in Emails, NEW t \in Links, SendLink(e, t) PROVE UNCHANGED password
  BY <1>9 DEF SendLink
<1>10. ASSUME NEW x \in sessions, EndSession(x) PROVE UNCHANGED password
  BY <1>10 DEF EndSession
<1>11. Quiet \/ Restart => UNCHANGED password
  BY DEF Quiet, Restart
<1>12. QED
  BY <1>1, <1>2, <1>3, <1>4, <1>5, <1>6, <1>7, <1>8, <1>9, <1>10, <1>11, StepKinds, Zenon

(* What is known of a link that set a password, before a step and after.   *)
LEMMA SetRows ==
    ASSUME Base, LinksApart, TokensKept, NEW x \in set
    PROVE  /\ x[1] \in Tokens /\ x[2] \in Nat
           /\ token[x[1]].email \in Emails
           /\ token'[x[1]].email = token[x[1]].email
           /\ token'[x[1]].state = "used"
<1>1. x[1] \in Tokens /\ x[2] \in Nat
  BY DEF Base, TypeOK, Tokens
<1>2. token[x[1]].state = "used"
  BY DEF LinksApart
<1>3. QED
  BY <1>1, <1>2 DEF Base, Issued, TokensKept

(* A link that was used is with one post, or has set a password.           *)
LEMMA LinksStep == Base /\ LinksApart /\ [Next]_vars => LinksApart'
<1>. SUFFICES ASSUME Base, LinksApart, [Next]_vars PROVE LinksApart'
  OBVIOUS
<1>. USE DEF store, history, cookies
<1>1. /\ TokensKept
      /\ \A e \in Emails : /\ password'[e] >= password[e]
                           /\ password[e] \in Nat /\ password'[e] \in Nat
  BY TokenStep, PasswordStep, TypeStep DEF Base, TypeOK
<1>2. \A x \in set : /\ token'[x[1]].state = "used"
                     /\ x[2] <= password'[token'[x[1]].email]
  <2>. TAKE x \in set
  <2>1. /\ x[2] \in Nat /\ token[x[1]].email \in Emails
        /\ token'[x[1]].email = token[x[1]].email
        /\ token'[x[1]].state = "used"
    BY <1>1, SetRows
  <2>2. x[2] <= password[token[x[1]].email]
    BY DEF LinksApart
  <2>3. QED
    BY <1>1, <2>1, <2>2
<1>3. \A q \in Posts : post[q].at # "none" => post[q].link \in Tokens
  BY DEF Base, Issued, Tokens
<1>4. ASSUME set' = set,
             \A q \in Posts : post'[q].at = "set" =>
                post[q].at = "set" /\ post'[q].link = post[q].link
      PROVE  LinksApart'
  <2>1. \A q \in Posts : post'[q].at = "set" => token'[post'[q].link].state = "used"
    BY <1>1, <1>3, <1>4 DEF LinksApart, TokensKept
  <2>2. QED
    BY <1>2, <1>4, <2>1 DEF LinksApart
<1>5. ASSUME NEW p \in Posts, ConsumeLink(p) PROVE LinksApart'
  <2>1. LinkUse(p) /\ set' = set
    BY <1>5, ConsumedLink DEF ConsumeLink, Base
  <2>2. \A q \in Posts : post[q].at = "set" => post[q].link # post[p].link
    BY <2>1 DEF LinkUse, LinksApart
  <2>3. \A x \in set : x[1] # post[p].link
    BY <2>1 DEF LinkUse, LinksApart
  <2>4. \A q \in Posts : post'[q].at = "set" => token'[post'[q].link].state = "used"
    BY <1>1, <1>3, <2>1 DEF LinkUse, LinksApart, TokensKept
  <2>5. QED
    BY <1>2, <2>1, <2>2, <2>3, <2>4 DEF LinkUse, LinksApart
<1>6. ASSUME NEW p \in Posts, SetPassword(p) PROVE LinksApart'
  <2>. DEFINE e == token[post[p].link].email
  <2>1. /\ post[p].at = "set" /\ UNCHANGED token
        /\ set' = set \cup {<<post[p].link, password[e] + 1>>}
        /\ password' = [password EXCEPT ![e] = @ + 1]
    BY <1>6 DEF SetPassword
  <2>2. /\ e \in Emails /\ post[p].link \in Tokens
        /\ token[post[p].link].state = "used"
    BY <1>3, <2>1 DEF Base, Issued, LinksApart
  <2>3. \A q \in Posts : post'[q].link = post[q].link
                        /\ post'[q].at = IF q = p THEN "end" ELSE post[q].at
    BY <1>6 DEF SetPassword, Base, TypeOK, Post
  <2>4. password'[e] = password[e] + 1
    BY <2>1, <2>2 DEF Base, TypeOK
  <2>5. \A x \in set' : /\ token'[x[1]].state = "used"
                        /\ x[2] <= password'[token'[x[1]].email]
    <3>. TAKE x \in set'
    <3>1. CASE x \in set
      BY <1>2, <3>1
    <3>2. CASE x = <<post[p].link, password[e] + 1>>
      <4>1. x[1] = post[p].link /\ x[2] = password[e] + 1 /\ password[e] \in Nat
        BY <1>1, <2>2, <3>2
      <4>2. token'[x[1]].state = "used" /\ token'[x[1]].email = e
        BY <2>1, <2>2, <4>1
      <4>. HIDE DEF e
      <4>3. QED
        BY <2>4, <4>1, <4>2
    <3>3. QED
      BY <2>1, <3>1, <3>2
  <2>6. \A q \in Posts \ {p} : post[q].at = "set" => post[q].link # post[p].link
    BY <2>1 DEF LinksApart
  <2>7. QED
    BY <2>1, <2>2, <2>3, <2>5, <2>6 DEF LinksApart
<1>7. QED
  <2>. DEFINE Kept == /\ set' = set
                      /\ \A q \in Posts : post'[q].at = "set" =>
                            post[q].at = "set" /\ post'[q].link = post[q].link
  <2>1. ASSUME NEW p \in Posts, NEW t \in Links, OpenLink(p, t) PROVE Kept
    BY <2>1 DEF OpenLink, Base, TypeOK
  <2>2. ASSUME NEW p \in Posts, RefuseForm(p) PROVE Kept
    BY <2>2 DEF RefuseForm, NoPost, Base, TypeOK
  <2>3. ASSUME NEW p \in Posts, EndSessions(p) PROVE Kept
    BY <2>3 DEF EndSessions, NoPost, Base, TypeOK
  <2>4. Restart => Kept
    BY DEF Restart, NoPost
  <2>5. UNCHANGED <<set, post>> => Kept
    OBVIOUS
  <2>6. ASSUME NEW b \in Browsers, NEW t \in Codes,
               AnswerRight(b, t) \/ EnterCode(b, t) \/ EnterCodeTrusting(b, t)
        PROVE  UNCHANGED <<set, post>>
    BY <2>6 DEF AnswerRight, EnterCode, EnterCodeTrusting, Code
  <2>7. ASSUME NEW t \in Tokens, Expire(t) PROVE UNCHANGED <<set, post>>
    BY <2>7 DEF Expire
  <2>8. ASSUME NEW e \in Emails, NEW t \in Links, SendLink(e, t)
        PROVE  UNCHANGED <<set, post>>
    BY <2>8 DEF SendLink
  <2>9. ASSUME NEW x \in sessions, EndSession(x) PROVE UNCHANGED <<set, post>>
    BY <2>9 DEF EndSession
  <2>10. ASSUME NEW e \in Emails, OwnerSetsPassword(e) PROVE UNCHANGED <<set, post>>
    BY <2>10 DEF OwnerSetsPassword
  <2>11. Quiet => UNCHANGED <<set, post>>
    BY DEF Quiet
  <2>12. Kept => LinksApart'
    BY <1>4
  <2>. HIDE DEF Kept
  <2>13. QED
    BY <1>5, <1>6, <2>1, <2>2, <2>3, <2>4, <2>5, <2>6, <2>7, <2>8, <2>9, <2>10,
       <2>11, <2>12, StepKinds

(* A link that set a password sets no other.                               *)
LEMMA SetStep == Base /\ LinksApart /\ LinkSetsOnce /\ [Next]_vars => LinkSetsOnce'
<1>. SUFFICES ASSUME Base, LinksApart, LinkSetsOnce, [Next]_vars PROVE LinkSetsOnce'
  OBVIOUS
<1>. USE DEF store, history, cookies
<1>1. ASSUME NEW p \in Posts, SetPassword(p) PROVE LinkSetsOnce'
  <2>1. PICK n : set' = set \cup {<<post[p].link, n>>}
    BY <1>1 DEF SetPassword
  <2>2. \A x \in set : x[1] # post[p].link
    BY <1>1 DEF SetPassword, LinksApart
  <2>3. QED
    BY <2>1, <2>2 DEF LinkSetsOnce
<1>2. ASSUME NEW p \in Posts, RefuseForm(p) \/ ConsumeLink(p) \/ EndSessions(p)
      PROVE  UNCHANGED set
  BY <1>2 DEF RefuseForm, ConsumeLink, EndSessions
<1>3. ASSUME NEW p \in Posts, NEW t \in Links, OpenLink(p, t) PROVE UNCHANGED set
  BY <1>3 DEF OpenLink
<1>4. ASSUME NEW b \in Browsers, NEW t \in Codes,
             AnswerRight(b, t) \/ EnterCode(b, t) \/ EnterCodeTrusting(b, t)
      PROVE  UNCHANGED set
  BY <1>4 DEF AnswerRight, EnterCode, EnterCodeTrusting, Code
<1>5. ASSUME NEW t \in Tokens, Expire(t) PROVE UNCHANGED set
  BY <1>5 DEF Expire
<1>6. ASSUME NEW e \in Emails, NEW t \in Links, SendLink(e, t) PROVE UNCHANGED set
  BY <1>6 DEF SendLink
<1>7. ASSUME NEW x \in sessions, EndSession(x) PROVE UNCHANGED set
  BY <1>7 DEF EndSession
<1>8. ASSUME NEW e \in Emails, OwnerSetsPassword(e) PROVE UNCHANGED set
  BY <1>8 DEF OwnerSetsPassword
<1>9. Quiet \/ Restart => UNCHANGED set
  BY DEF Quiet, Restart
<1>10. UNCHANGED set => LinkSetsOnce'
  BY DEF LinkSetsOnce
<1>11. QED
  BY <1>1, <1>2, <1>3, <1>4, <1>5, <1>6, <1>7, <1>8, <1>9, <1>10, StepKinds

(* How the number of unanswered submissions changes with one of them.      *)
Counted(e) == {b \in Browsers : form[b].counted /\ form[b].email = e}

LEMMA CountKept ==
    ASSUME \A b \in Browsers : /\ form'[b].counted <=> form[b].counted
                               /\ form[b].counted => form'[b].email = form[b].email
    PROVE  \A e \in Emails : InFlight(e)' = InFlight(e)
<1>. TAKE e \in Emails
<1>1. {b \in Browsers : form'[b].counted /\ form'[b].email = e} = Counted(e)
  BY DEF Counted
<1>2. QED
  BY <1>1 DEF Counted, InFlight

LEMMA CountMore ==
    ASSUME NEW b \in Browsers, ~form[b].counted, form'[b].counted,
           \A c \in Browsers \ {b} : form'[c] = form[c]
    PROVE  \A e \in Emails :
            InFlight(e)' = IF e = form'[b].email THEN InFlight(e) + 1 ELSE InFlight(e)
<1>. TAKE e \in Emails
<1>1. IsFiniteSet(Counted(e))
  BY SignInOK, FS_Subset DEF Counted
<1>2. CASE e = form'[b].email
  <2>1. {c \in Browsers : form'[c].counted /\ form'[c].email = e}
            = Counted(e) \cup {b}
    BY <1>2 DEF Counted
  <2>2. b \notin Counted(e)
    BY DEF Counted
  <2>3. QED
    BY <1>1, <1>2, <2>1, <2>2, FS_AddElement DEF Counted, InFlight
<1>3. CASE e # form'[b].email
  <2>1. {c \in Browsers : form'[c].counted /\ form'[c].email = e} = Counted(e)
    BY <1>3 DEF Counted
  <2>2. QED
    BY <1>3, <2>1 DEF Counted, InFlight
<1>4. QED
  BY <1>2, <1>3

LEMMA CountLess ==
    ASSUME NEW b \in Browsers, form[b].counted, ~form'[b].counted,
           \A c \in Browsers \ {b} : form'[c] = form[c]
    PROVE  \A e \in Emails :
            InFlight(e) = IF e = form[b].email THEN InFlight(e)' + 1 ELSE InFlight(e)'
<1>. TAKE e \in Emails
<1>. DEFINE Later == {c \in Browsers : form'[c].counted /\ form'[c].email = e}
<1>1. IsFiniteSet(Later)
  BY SignInOK, FS_Subset
<1>2. CASE e = form[b].email
  <2>1. Counted(e) = Later \cup {b} /\ b \notin Later
    BY <1>2 DEF Counted
  <2>2. Cardinality(Counted(e)) = Cardinality(Later) + 1
    BY <1>1, <2>1, FS_AddElement
  <2>3. QED
    BY <1>2, <2>2 DEF Counted, InFlight
<1>3. CASE e # form[b].email
  <2>1. Later = Counted(e)
    BY <1>3 DEF Counted
  <2>2. QED
    BY <1>3, <2>1 DEF Counted, InFlight
<1>4. QED
  BY <1>2, <1>3

LEMMA InFlightCountsNext == \A e \in Emails : InFlight(e)' \in Nat
<1>. TAKE e \in Emails
<1>1. IsFiniteSet({b \in Browsers : form'[b].counted /\ form'[b].email = e})
  BY SignInOK, FS_Subset
<1>2. QED
  BY <1>1, FS_CardinalityType DEF InFlight

(* A step that answers no submission and begins none.                      *)
LEMMA FreeKept ==
    ASSUME CorrectIsFree, UNCHANGED <<tries, refused>>,
           \A b \in Browsers : /\ form'[b].counted <=> form[b].counted
                               /\ form[b].counted => form'[b].email = form[b].email
    PROVE  CorrectIsFree'
BY CountKept DEF CorrectIsFree

(* A submission that passes both checks costs the budget nothing.          *)
LEMMA FreeStep == Base /\ CorrectIsFree /\ [Next]_vars => CorrectIsFree'
<1>. SUFFICES ASSUME Base /\ CorrectIsFree, [Next]_vars PROVE CorrectIsFree'
  OBVIOUS
<1>. USE DEF Base
<1>. USE DEF store, history, cookies
<1>1. ASSUME NEW b \in Browsers, NEW e \in Emails, NEW guess \in {0, password[e]},
              SubmitTrusted(b, e, guess) \/ SubmitCounted(b, e, guess) PROVE CorrectIsFree'
  <2>1. ~form[b].counted /\ Submits(b, e, guess)
    BY <1>1, SubmitTyped DEF SubmitTrusted, SubmitCounted, FormSound
  <2>2. CASE ~form'[b].counted
    <3>1. refused' = refused /\ (tries' = tries)
      <4>1. ~SubmitCounted(b, e, guess)
        BY <2>2 DEF SubmitCounted, Submission, TypeOK
      <4>2. QED
        BY <1>1, <4>1 DEF SubmitTrusted
    <3>2. QED
      BY <2>1, <2>2, <3>1, FreeKept DEF Submits
  <2>3. CASE form'[b].counted
    <3>1. /\ refused' = refused
          /\ \A f \in Emails : tries'[f] = IF f = e THEN tries[f] + 1 ELSE tries[f]
      <4>1. ~SubmitTrusted(b, e, guess)
        BY <2>3 DEF SubmitTrusted, Submission, TypeOK
      <4>2. QED
        BY <1>1, <4>1 DEF SubmitCounted, TypeOK
    <3>2. \A f \in Emails :
            InFlight(f)' = IF f = e THEN InFlight(f) + 1 ELSE InFlight(f)
      BY <2>1, <2>3, CountMore DEF Submits
    <3>3. \A f \in Emails : tries[f] \in Nat /\ refused[f] \in Nat /\ InFlight(f) \in Nat
      BY InFlightCounts DEF TypeOK
    <3>4. QED
      BY <3>1, <3>2, <3>3 DEF CorrectIsFree
  <2>4. QED
    BY <2>2, <2>3
<1>2. ASSUME NEW b \in Browsers, NEW e \in Emails, SubmitBlocked(b, e) PROVE CorrectIsFree'
  BY <1>2, FreeKept DEF SubmitBlocked
<1>3. ASSUME NEW b \in Browsers,
             (\E human \in BOOLEAN : BotAnswers(b, human)) \/ CheckPassword(b) PROVE CorrectIsFree'
  <2>1. Moves(b) /\ UNCHANGED <<tries, refused>>
    BY <1>3, FormMoves DEF BotAnswers, CheckPassword
  <2>2. QED
    BY <2>1, FreeKept DEF Moves
<1>4. ASSUME NEW b \in Browsers, AnswerWrong(b) PROVE CorrectIsFree'
  <2>1. /\ form[b].email \in Emails /\ ~form'[b].counted
        /\ \A c \in Browsers \ {b} : form'[c] = form[c]
    BY <1>4 DEF AnswerWrong, NoForm, FormSound, TypeOK
  <2>2. /\ tries' = tries
        /\ \A e \in Emails : refused'[e] =
            IF form[b].counted /\ e = form[b].email THEN refused[e] + 1 ELSE refused[e]
    BY <1>4, <2>1 DEF AnswerWrong, TypeOK
  <2>3. \A e \in Emails : /\ tries[e] \in Nat /\ refused[e] \in Nat
                         /\ InFlight(e) \in Nat
    BY InFlightCounts DEF TypeOK
  <2>4. CASE form[b].counted
    <3>1. \A e \in Emails : InFlight(e) =
            IF e = form[b].email THEN InFlight(e)' + 1 ELSE InFlight(e)'
      BY <2>1, <2>4, CountLess
    <3>2. \A e \in Emails : InFlight(e)' \in Nat
      BY InFlightCountsNext
    <3>3. QED
      BY <2>2, <2>3, <2>4, <3>1, <3>2 DEF CorrectIsFree
  <2>5. CASE ~form[b].counted
    <3>1. \A e \in Emails : InFlight(e)' = InFlight(e)
      BY <2>1, <2>5, CountKept
    <3>2. QED
      BY <2>2, <2>5, <3>1 DEF CorrectIsFree
  <2>6. QED
    BY <2>4, <2>5
<1>5. ASSUME NEW b \in Browsers, NEW t \in Codes, AnswerRight(b, t) PROVE CorrectIsFree'
  <2>1. /\ form[b].email \in Emails /\ ~form'[b].counted
        /\ \A c \in Browsers \ {b} : form'[c] = form[c]
    BY <1>5 DEF AnswerRight, NoForm, FormSound, TypeOK
  <2>2. \A e \in Emails : /\ tries[e] \in Nat /\ refused[e] \in Nat
                         /\ InFlight(e) \in Nat
    BY InFlightCounts DEF TypeOK
  <2>3. \A e \in Emails : InFlight(e)' \in Nat
    BY InFlightCountsNext
  <2>4. refused' = refused
    BY <1>5 DEF AnswerRight
  <2>5. CASE form[b].counted
    <3>1. ~IsTrusted(form[b].device, form[b].email)
      BY <2>5 DEF FormSound
    <3>2. \A e \in Emails : tries'[e] =
            IF e = form[b].email THEN Minus1(tries[e]) ELSE tries[e]
      BY <1>5, <2>1, <3>1 DEF AnswerRight, Refund, TypeOK
    <3>3. \A e \in Emails : InFlight(e) =
            IF e = form[b].email THEN InFlight(e)' + 1 ELSE InFlight(e)'
      BY <2>1, <2>5, CountLess
    <3>4. QED
      BY <2>2, <2>3, <2>4, <3>2, <3>3 DEF CorrectIsFree, Minus1
  <2>6. CASE ~form[b].counted
    <3>1. \A e \in Emails : tries'[e] <= tries[e] /\ tries'[e] \in Nat
      <4>1. CASE IsTrusted(form[b].device, form[b].email)
        BY <1>5, <2>2, <4>1 DEF AnswerRight, Refund
      <4>2. CASE ~IsTrusted(form[b].device, form[b].email)
        <5>1. \A e \in Emails : tries'[e] =
                IF e = form[b].email THEN Minus1(tries[e]) ELSE tries[e]
          BY <1>5, <2>1, <4>2 DEF AnswerRight, Refund, TypeOK
        <5>2. QED
          BY <2>2, <5>1 DEF Minus1
      <4>3. QED
        BY <4>1, <4>2
    <3>2. \A e \in Emails : InFlight(e)' = InFlight(e)
      BY <2>1, <2>6, CountKept
    <3>3. QED
      BY <2>2, <2>4, <3>1, <3>2 DEF CorrectIsFree
  <2>7. QED
    BY <2>5, <2>6
<1>6. ASSUME NEW b \in Browsers, NEW t \in Codes,
             EnterCode(b, t) \/ EnterCodeTrusting(b, t) PROVE CorrectIsFree'
  <2>1. CodeUse(b, t)
    BY <1>6, CodeUsed
  <2>2. QED
    BY <2>1, FreeKept DEF CodeUse
<1>7. ASSUME NEW t \in Tokens, Expire(t) PROVE CorrectIsFree'
  BY <1>7, FreeKept DEF Expire
<1>8. ASSUME NEW e \in Emails, NEW t \in Links, SendLink(e, t) PROVE CorrectIsFree'
  BY <1>8, FreeKept DEF SendLink
<1>9. ASSUME NEW s \in sessions, EndSession(s) PROVE CorrectIsFree'
  BY <1>9, FreeKept DEF EndSession
<1>10. ASSUME NEW p \in Posts, NEW t \in Links, OpenLink(p, t) PROVE CorrectIsFree'
  BY <1>10, FreeKept DEF OpenLink
<1>11. ASSUME NEW p \in Posts, RefuseForm(p) \/ ConsumeLink(p) PROVE CorrectIsFree'
  BY <1>11, FreeKept DEF RefuseForm, ConsumeLink
<1>12. ASSUME NEW p \in Posts, SetPassword(p) PROVE CorrectIsFree'
  BY <1>12, FreeKept DEF SetPassword
<1>13. ASSUME NEW p \in Posts, EndSessions(p) PROVE CorrectIsFree'
  BY <1>13, FreeKept DEF EndSessions
<1>14. ASSUME Restart PROVE CorrectIsFree'
  <2>1. \A e \in Emails : refused'[e] = refused[e] + InFlight(e) /\ tries'[e] = tries[e]
    BY <1>14 DEF Restart, InFlight
  <2>2. \A e \in Emails : InFlight(e)' = 0
    <3>. TAKE e \in Emails
    <3>1. {b \in Browsers : form'[b].counted /\ form'[b].email = e} = {}
      BY <1>14 DEF Restart, NoForm
    <3>2. QED
      BY <3>1, FS_EmptySet DEF InFlight
  <2>3. \A e \in Emails : /\ tries[e] \in Nat /\ refused[e] \in Nat
                         /\ InFlight(e) \in Nat
    BY InFlightCounts DEF TypeOK
  <2>4. QED
    BY <2>1, <2>2, <2>3 DEF CorrectIsFree
<1>15. ASSUME NEW b \in Browsers, NEW t \in Codes, Delivered(b, t) \/ Lost(b, t)
       PROVE CorrectIsFree'
  BY <1>15, FreeKept DEF Delivered, Lost
<1>16. ASSUME NEW e \in Emails, OwnerSetsPassword(e) PROVE CorrectIsFree'
  BY <1>16, FreeKept DEF OwnerSetsPassword
<1>17. ASSUME UNCHANGED vars PROVE CorrectIsFree'
  BY <1>17, FreeKept DEF vars
<1>18. QED
  BY <1>1, <1>2, <1>3, <1>4, <1>5, <1>6, <1>7, <1>8, <1>9, <1>10, <1>11, <1>12, <1>13, <1>14, <1>15, <1>16, <1>17 DEF Next

(* A reset ends the sessions opened under the password before it.          *)
LEMMA ResetKept ==
    ASSUME Base, LinksApart, TokensKept, ResetLogsOut, UNCHANGED set,
           cut \subseteq cut',
           \A s \in sessions' : s \in sessions \/ s.under = password[s.email],
           \A q \in Posts : post[q].at = "end" =>
                \/ post'[q].at = "end" /\ post'[q].link = post[q].link
                \/ token[post[q].link].email \in cut'
                \/ \A s \in sessions' : s.email # token[post[q].link].email
    PROVE  ResetLogsOut'
<1>. SUFFICES ASSUME NEW s \in sessions', NEW x \in set,
                     token'[x[1]].email = s.email, ~(s.under >= x[2]), s.email \notin cut'
              PROVE  \E q \in Posts :
                        post'[q].at = "end" /\ token'[post'[q].link].email = s.email
  BY Zenon DEF ResetLogsOut
<1>1. token[x[1]].email = s.email /\ x[2] <= password[s.email]
  BY SetRows DEF LinksApart
<1>2. s \in sessions
  <2>1. x[2] \in Nat /\ password[s.email] \in Nat
    BY <1>1, SetRows DEF Base, TypeOK
  <2>2. QED
    BY <1>1, <2>1
<1>3. PICK q \in Posts : post[q].at = "end" /\ token[post[q].link].email = s.email
  BY <1>1, <1>2 DEF ResetLogsOut
<1>4. post'[q].at = "end" /\ post'[q].link = post[q].link
  BY <1>3
<1>5. token'[post[q].link].email = s.email
  BY <1>3 DEF Base, Issued, Tokens, TokensKept
<1>6. QED
  BY <1>4, <1>5

LEMMA ResetStep == Base /\ LinksApart /\ ResetLogsOut /\ [Next]_vars => ResetLogsOut'
<1>. SUFFICES ASSUME Base, LinksApart, ResetLogsOut, [Next]_vars PROVE ResetLogsOut'
  OBVIOUS
<1>. USE DEF store, history, cookies
<1>1. TokensKept
  BY TokenStep
<1>2. ASSUME UNCHANGED <<set, cut, post, sessions>> PROVE ResetLogsOut'
  BY <1>1, <1>2, ResetKept
<1>3. ASSUME NEW b \in Browsers, NEW t \in Codes,
             EnterCode(b, t) \/ EnterCodeTrusting(b, t) PROVE ResetLogsOut'
  <2>1. CodeUse(b, t)
    BY <1>3, CodeUsed DEF Base
  <2>2. /\ UNCHANGED <<set, cut, post>>
        /\ \A s \in sessions' : s \in sessions \/ s.under = password[s.email]
    BY <2>1 DEF CodeUse, NewSession
  <2>3. QED
    BY <1>1, <2>2, ResetKept
<1>4. ASSUME NEW s \in sessions, EndSession(s) PROVE ResetLogsOut'
  <2>1. sessions' \subseteq sessions /\ UNCHANGED <<set, cut, post>>
    BY <1>4 DEF EndSession
  <2>2. QED
    BY <1>1, <2>1, ResetKept
<1>5. ASSUME NEW p \in Posts, NEW t \in Links, OpenLink(p, t) PROVE ResetLogsOut'
  <2>1. /\ UNCHANGED <<set, cut, sessions>>
        /\ \A q \in Posts : post[q].at = "end" => post'[q] = post[q]
    BY <1>5 DEF OpenLink, Base, TypeOK
  <2>2. QED
    BY <1>1, <2>1, ResetKept
<1>6. ASSUME NEW p \in Posts, RefuseForm(p) PROVE ResetLogsOut'
  <2>1. /\ UNCHANGED <<set, cut, sessions>>
        /\ \A q \in Posts : post[q].at = "end" => post'[q] = post[q]
    BY <1>6 DEF RefuseForm, Base, TypeOK
  <2>2. QED
    BY <1>1, <2>1, ResetKept
<1>7. ASSUME NEW p \in Posts, ConsumeLink(p) PROVE ResetLogsOut'
  <2>1. LinkUse(p)
    BY <1>7, ConsumedLink DEF Base
  <2>2. /\ UNCHANGED <<set, cut, sessions>>
        /\ \A q \in Posts : post[q].at = "end" =>
            post'[q].at = "end" /\ post'[q].link = post[q].link
    BY <2>1 DEF LinkUse
  <2>3. QED
    BY <1>1, <2>2, ResetKept
<1>8. ASSUME NEW p \in Posts, EndSessions(p) PROVE ResetLogsOut'
  <2>1. UNCHANGED <<set, cut>> /\ sessions' = sessions \ SessionsOf(token[post[p].link].email)
    BY <1>8 DEF EndSessions
  <2>2. /\ sessions' \subseteq sessions
        /\ \A s \in sessions' : s.email # token[post[p].link].email
    BY <2>1 DEF SessionsOf
  <2>3. \A q \in Posts : q = p \/ post'[q] = post[q]
    BY <1>8 DEF EndSessions, Base, TypeOK
  <2>4. \A q \in Posts : post[q].at = "end" =>
            \/ post'[q].at = "end" /\ post'[q].link = post[q].link
            \/ token[post[q].link].email \in cut'
            \/ \A s \in sessions' : s.email # token[post[q].link].email
    BY <2>2, <2>3
  <2>5. QED
    BY <1>1, <2>1, <2>2, <2>4, ResetKept
<1>9. ASSUME Restart PROVE ResetLogsOut'
  <2>1. /\ UNCHANGED <<set, sessions>> /\ cut \subseteq cut'
        /\ \A q \in Posts : post[q].at = "end" => token[post[q].link].email \in cut'
    BY <1>9 DEF Restart
  <2>2. QED
    BY <1>1, <2>1, ResetKept
<1>10. ASSUME NEW p \in Posts, SetPassword(p) PROVE ResetLogsOut'
  <2>. DEFINE e == token[post[p].link].email
  <2>1. /\ UNCHANGED <<sessions, token, cut>>
        /\ set' = set \cup {<<post[p].link, password[e] + 1>>}
    BY <1>10 DEF SetPassword
  <2>2. /\ post'[p].at = "end" /\ post'[p].link = post[p].link
        /\ \A q \in Posts \ {p} : post'[q] = post[q]
    BY <1>10 DEF SetPassword, Base, TypeOK, Post
  <2>3. post[p].at # "end"
    BY <1>10 DEF SetPassword
  <2>. SUFFICES ASSUME NEW s \in sessions, NEW x \in set', token[x[1]].email = s.email
                PROVE  \/ s.under >= x[2]
                       \/ s.email \in cut
                       \/ \E q \in Posts :
                            post'[q].at = "end" /\ token[post'[q].link].email = s.email
    BY <2>1, Zenon DEF ResetLogsOut
  <2>4. CASE x \in set
    BY <2>2, <2>3, <2>4 DEF ResetLogsOut
  <2>5. CASE x = <<post[p].link, password[e] + 1>>
    BY <2>2, <2>5
  <2>6. QED
    BY <2>1, <2>4, <2>5
<1>11. QED
  <2>1. ASSUME NEW b \in Browsers, NEW t \in Codes, AnswerRight(b, t)
        PROVE  UNCHANGED <<set, cut, post, sessions>>
    BY <2>1 DEF AnswerRight
  <2>2. ASSUME NEW t \in Tokens, Expire(t)
        PROVE  UNCHANGED <<set, cut, post, sessions>>
    BY <2>2 DEF Expire
  <2>3. ASSUME NEW e \in Emails, NEW t \in Links, SendLink(e, t)
        PROVE  UNCHANGED <<set, cut, post, sessions>>
    BY <2>3 DEF SendLink
  <2>4. ASSUME NEW e \in Emails, OwnerSetsPassword(e)
        PROVE  UNCHANGED <<set, cut, post, sessions>>
    BY <2>4 DEF OwnerSetsPassword
  <2>5. Quiet => UNCHANGED <<set, cut, post, sessions>>
    BY DEF Quiet
  <2>6. QED
    BY <1>2, <1>3, <1>4, <1>5, <1>6, <1>7, <1>8, <1>9, <1>10, <2>1, <2>2, <2>3, <2>4,
       <2>5, StepKinds

-----------------------------------------------------------------------------
Inv ==
    /\ Base
    /\ SessionEarned
    /\ TrustHeld
    /\ LinksApart
    /\ LinkSetsOnce
    /\ CorrectIsFree
    /\ ResetLogsOut

(* The strengthened invariant of sign-in.                                  *)
THEOREM SignInInv == Spec => []Inv
<1>1. Init => Inv
  <2>. SUFFICES ASSUME Init PROVE Inv
    OBVIOUS
  <2>1. Base
    BY InitBase
  <2>2. SessionEarned /\ LinksApart /\ ResetLogsOut
    BY DEF Init, SessionEarned, LinksApart, ResetLogsOut, NoPost
  <2>3. TrustHeld
    BY SignInOK DEF Init, TrustHeld, IsTrusted, NoTrust, Tokens
  <2>4. LinkSetsOnce
    BY DEF Init, LinkSetsOnce
  <2>5. CorrectIsFree
    BY InFlightCounts DEF Init, CorrectIsFree
  <2>6. QED
    BY <2>1, <2>2, <2>3, <2>4, <2>5 DEF Inv
<1>2. Inv /\ [Next]_vars => Inv'
  BY TypeStep, IssuedStep, FormStep, BoundStep, EarnedStep, TrustStep,
     LinksStep, SetStep, FreeStep, ResetStep DEF Inv, Base
<1>3. QED
  BY <1>1, <1>2, PTL DEF Spec

(* The state of sign-in is well typed.                                     *)
THEOREM SignInTyped == Spec => []TypeOK
BY SignInInv, PTL DEF Inv, Base

(* verify_signin_token: every session was earned in its browser by a right *)
(* password and the code mailed for it, and no code opens two.             *)
THEOREM SessionsAreEarned == Spec => []SessionEarned
BY SignInInv, PTL DEF Inv

(* add_trusted_device, set_password: trust is of the password set last,    *)
(* and its id only of the browser that signed in.                          *)
THEOREM TrustIsSound == Spec => []TrustSound
<1>1. Inv => TrustSound
  BY DEF Inv, TrustHeld, TrustSound
<1>2. QED
  BY SignInInv, <1>1, PTL

(* consume_token: a link sets one password.                                *)
THEOREM LinksSetOnce == Spec => []LinkSetsOnce
BY SignInInv, PTL DEF Inv

(* _refund_correct_password: what passed both checks costs nothing.        *)
THEOREM CorrectOnesAreFree == Spec => []CorrectIsFree
BY SignInInv, PTL DEF Inv

(* end_sessions_for_email: a finished reset leaves no session older than   *)
(* the password it set.                                                    *)
THEOREM ResetsLogOut == Spec => []ResetLogsOut
BY SignInInv, PTL DEF Inv
=============================================================================
