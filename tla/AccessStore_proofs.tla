------------------------- MODULE AccessStore_proofs -------------------------
(***************************************************************************)
(* What AccessStore keeps for any number of people, nicknames, tokens and  *)
(* operations in flight.                                                   *)
(***************************************************************************)
EXTENDS AccessStore, TLAPS

(* An operation in flight names a real address, or a guest's key if it is  *)
(* an issue, and one about a nickname a real nickname.                     *)
PendOK ==
    \A p \in Procs :
        /\ pend[p].op \notin {"idle", "issue"} => pend[p].email \in Emails
        /\ pend[p].op = "issue" => pend[p].email \in Owners
        /\ pend[p].op \in {"claim", "issue"} => pend[p].nick \in Nicks

(* The reservation behind every nickname of a person that is in use: in a  *)
(* user's row, in the hands of an issue that has not committed yet, and in *)
(* a credential.                                                           *)
HolderOwns ==
    \A e \in Emails : users[e].nick # NoNick => holders[Fold[users[e].nick]] = e

IssueOwned ==
    \A p \in Procs :
        pend[p].op = "issue" /\ pend[p].email \in Emails =>
            holders[Fold[pend[p].nick]] = pend[p].email

RowsOwned ==
    \A t \in Tokens :
        creds[t].status # "unused" /\ creds[t].email \in Emails =>
            holders[Fold[creds[t].nick]] = creds[t].email

UsedTokenOK ==
    \A t \in Tokens :
        creds[t].status # "unused" => creds[t].email \in Owners /\ creds[t].nick \in Nicks

IndInv ==
    /\ TypeOK
    /\ PendOK
    /\ HolderOwns
    /\ IssueOwned
    /\ UsedTokenOK
    /\ RowsOwned
    /\ OneLiveCredential
-----------------------------------------------------------------------------
(* What revoking the unrevoked rows of e does to the credentials table:    *)
(* only statuses change, and e is left with no unrevoked row.              *)
LEMMA RevokeLiveEffect ==
    ASSUME TypeOK, NEW e
    PROVE  /\ RevokeLive(e) \in [Tokens -> Credential]
           /\ \A t \in Tokens :
                /\ RevokeLive(e)[t].email = creds[t].email
                /\ RevokeLive(e)[t].nick = creds[t].nick
                /\ RevokeLive(e)[t].status = "unused" <=> creds[t].status = "unused"
                /\ Unrevoked(RevokeLive(e)[t])
                     <=> Unrevoked(creds[t]) /\ creds[t].email # e
<1>1. \A t \in Tokens : creds[t] \in Credential
  BY DEF TypeOK
<1>2. QED
  BY <1>1 DEF RevokeLive, Credential, Statuses, Unrevoked

(* A reservation, once made, stays.                                        *)
ReservationsKept ==
    /\ holders' \in [Keys -> Emails \union {NoOne}]
    /\ \A k \in Keys : holders[k] # NoOne => holders'[k] = holders[k]

(* Recording a nickname that nobody else holds reserves it for e.          *)
LEMMA RecordNicknameEffect ==
    ASSUME TypeOK, NEW e \in Emails, NEW n \in Nicks, NEW previous,
           ~HeldByOther(e, n), RecordNickname(e, n, previous)
    PROVE  /\ ReservationsKept
           /\ holders'[Fold[n]] = e
           /\ creds' = creds \/ creds' = RevokeLive(e)
<1>1. Fold[n] \in Keys
  BY ConstantsOK
<1>2. QED
  BY <1>1, ConstantsOK DEF TypeOK, HeldByOther, RecordNickname, ReservationsKept

(* The credential invariants survive every step that keeps reservations    *)
(* and at most revokes somebody's rows.                                    *)
LEMMA CredentialsKept ==
    ASSUME IndInv, ReservationsKept,
           creds' = creds \/ \E e \in Owners : creds' = RevokeLive(e)
    PROVE  /\ creds' \in [Tokens -> Credential]
           /\ UsedTokenOK'
           /\ RowsOwned'
           /\ OneLiveCredential'
<1>1. /\ creds' \in [Tokens -> Credential]
      /\ \A t \in Tokens :
            /\ creds'[t].email = creds[t].email
            /\ creds'[t].nick = creds[t].nick
            /\ creds'[t].status = "unused" <=> creds[t].status = "unused"
            /\ Unrevoked(creds'[t]) => Unrevoked(creds[t])
  <2>1. CASE creds' = creds
    BY <2>1 DEF IndInv, TypeOK
  <2>2. CASE \E e \in Owners : creds' = RevokeLive(e)
    BY <2>2, RevokeLiveEffect DEF IndInv
  <2>3. QED
    BY <2>1, <2>2
<1>2. UsedTokenOK'
  BY <1>1 DEF IndInv, UsedTokenOK
<1>3. RowsOwned'
  <2>1. SUFFICES ASSUME NEW t \in Tokens, creds'[t].status # "unused",
                        creds'[t].email \in Emails
                 PROVE  holders'[Fold[creds'[t].nick]] = creds'[t].email
    BY DEF RowsOwned
  <2>2. /\ creds[t].status # "unused"
        /\ creds[t].email \in Emails
        /\ creds[t].nick \in Nicks
    BY <1>1, <2>1 DEF IndInv, UsedTokenOK
  <2>3. holders[Fold[creds[t].nick]] = creds[t].email
    BY <2>2 DEF IndInv, RowsOwned
  <2>4. Fold[creds[t].nick] \in Keys
    BY <2>2, ConstantsOK
  <2>5. QED
    BY <1>1, <2>2, <2>3, <2>4, ConstantsOK DEF ReservationsKept
<1>4. OneLiveCredential'
  BY <1>1 DEF IndInv, OneLiveCredential, Unrevoked
<1>5. QED
  BY <1>1, <1>2, <1>3, <1>4

(* Reservations for issues in flight survive, if no issue begins.          *)
LEMMA IssueKept ==
    ASSUME IndInv, ReservationsKept,
           \A p \in Procs : pend'[p].op = "issue" => pend'[p] = pend[p]
    PROVE  IssueOwned'
<1>1. SUFFICES ASSUME NEW p \in Procs, pend'[p].op = "issue", pend'[p].email \in Emails
               PROVE  holders'[Fold[pend'[p].nick]] = pend'[p].email
  BY DEF IssueOwned
<1>2. /\ pend[p].op = "issue"
      /\ pend'[p] = pend[p]
  BY <1>1
<1>3. /\ pend[p].email \in Emails
      /\ pend[p].nick \in Nicks
      /\ holders[Fold[pend[p].nick]] = pend[p].email
  BY <1>1, <1>2 DEF IndInv, PendOK, IssueOwned
<1>4. Fold[pend[p].nick] \in Keys
  BY <1>3, ConstantsOK
<1>5. QED
  BY <1>2, <1>3, <1>4, ConstantsOK DEF ReservationsKept

(* So do the reservations of nicknames that the step leaves in place.      *)
LEMMA HolderKept ==
    ASSUME IndInv, ReservationsKept,
           \A e \in Emails :
               users'[e].nick # NoNick =>
                   \/ users'[e].nick = users[e].nick
                   \/ holders'[Fold[users'[e].nick]] = e
    PROVE  HolderOwns'
<1>1. SUFFICES ASSUME NEW e \in Emails, users'[e].nick # NoNick,
                      users'[e].nick = users[e].nick
               PROVE  holders'[Fold[users'[e].nick]] = e
  BY DEF HolderOwns
<1>2. users[e].nick \in Nicks
  BY <1>1 DEF IndInv, TypeOK, User, NickOrNone
<1>3. holders[Fold[users[e].nick]] = e
  BY <1>1 DEF IndInv, HolderOwns
<1>4. Fold[users[e].nick] \in Keys
  BY <1>2, ConstantsOK
<1>5. QED
  BY <1>1, <1>3, <1>4, ConstantsOK DEF ReservationsKept
-----------------------------------------------------------------------------
(* Every step keeps the store's invariant, whichever transaction commits.  *)

(* The record of no operation is well typed.                               *)
LEMMA IdleTyped == Idle \in Pending
BY DEF Idle, Pending, Ops, Roles, States, NickOrNone

(* The initial state satisfies the inductive invariant.                    *)
LEMMA InitInd == Init => IndInv
<1> SUFFICES ASSUME Init PROVE IndInv
  OBVIOUS
<1>1. TypeOK
  <2>1. NoUser \in User /\ NoCredential \in Credential
    BY DEF NoUser, User, Roles, States, NickOrNone, NoCredential, Credential, Statuses
  <2>2. Off \in Console
    BY DEF Off, Console, Stages
  <2>3. QED
    BY <2>1, <2>2, IdleTyped DEF Init, TypeOK
<1>2. PendOK /\ IssueOwned
  BY DEF Init, PendOK, IssueOwned, Idle
<1>3. HolderOwns
  BY DEF Init, HolderOwns, NoUser
<1>4. UsedTokenOK /\ RowsOwned /\ OneLiveCredential
  BY DEF Init, UsedTokenOK, RowsOwned, OneLiveCredential, NoCredential, Unrevoked
<1>5. QED
  BY <1>1, <1>2, <1>3, <1>4 DEF IndInv

(* Steps on one field of the state at a time.                              *)
LEMMA NicknameStep ==
    ASSUME IndInv, NEW e \in Emails, NEW n \in Nicks, ~HeldByOther(e, n),
           RecordNickname(e, n, users[e].nick),
           users' \in [Emails -> User],
           \A d \in Emails : users'[d].nick = IF d = e THEN n ELSE users[d].nick,
           UNCHANGED <<ledger, console, served>>,
           pend' \in [Procs -> Pending],
           \A p \in Procs : pend'[p] = pend[p] \/ pend'[p] = Idle
    PROVE  IndInv'
<1>1. /\ ReservationsKept
      /\ holders'[Fold[n]] = e
      /\ creds' = creds \/ creds' = RevokeLive(e)
  BY RecordNicknameEffect DEF IndInv
<1>2. /\ creds' \in [Tokens -> Credential]
      /\ UsedTokenOK'
      /\ RowsOwned'
      /\ OneLiveCredential'
  BY <1>1, CredentialsKept DEF Owners
<1>3. HolderOwns'
  BY <1>1, HolderKept
<1>4. IssueOwned'
  <2>1. \A p \in Procs : pend'[p].op = "issue" => pend'[p] = pend[p]
    BY DEF Idle
  <2>2. QED
    BY <2>1, <1>1, IssueKept
<1>5. TypeOK'
  BY <1>1, <1>2 DEF IndInv, TypeOK, ReservationsKept
<1>6. PendOK'
  BY DEF IndInv, PendOK, Idle
<1>7. QED
  BY <1>2, <1>3, <1>4, <1>5, <1>6 DEF IndInv

(* A step that touches no nickname, no reservation and no credential, and  *)
(* begins no issue, only has to be well typed.                             *)
LEMMA PlainStep ==
    ASSUME IndInv, TypeOK', PendOK', UNCHANGED <<holders, creds>>,
           \A e \in Emails : users'[e].nick = users[e].nick,
           \A p \in Procs : pend'[p].op = "issue" => pend'[p] = pend[p]
    PROVE  IndInv'
<1>1. ReservationsKept
  BY DEF IndInv, TypeOK, ReservationsKept
<1>2. UsedTokenOK' /\ RowsOwned' /\ OneLiveCredential'
  BY <1>1, CredentialsKept
<1>3. HolderOwns'
  BY <1>1, HolderKept
<1>4. IssueOwned'
  BY <1>1, IssueKept
<1>5. QED
  BY <1>2, <1>3, <1>4 DEF IndInv

(* A step that at most revokes one person's credential.                    *)
LEMMA RevokeStep ==
    ASSUME IndInv, NEW e \in Owners, creds' = RevokeLive(e),
           UNCHANGED <<users, holders, ledger, console, served>>,
           pend' \in [Procs -> Pending],
           \A p \in Procs : pend'[p] = pend[p] \/ pend'[p] = Idle
    PROVE  IndInv'
<1>1. ReservationsKept
  BY DEF IndInv, TypeOK, ReservationsKept
<1>2. /\ creds' \in [Tokens -> Credential]
      /\ UsedTokenOK' /\ RowsOwned' /\ OneLiveCredential'
  BY <1>1, CredentialsKept
<1>3. HolderOwns'
  BY <1>1, HolderKept
<1>4. IssueOwned'
  <2>1. \A p \in Procs : pend'[p].op = "issue" => pend'[p] = pend[p]
    BY DEF Idle
  <2>2. QED
    BY <2>1, <1>1, IssueKept
<1>5. TypeOK'
  BY <1>2 DEF IndInv, TypeOK
<1>6. PendOK'
  BY DEF IndInv, PendOK, Idle
<1>7. QED
  BY <1>2, <1>3, <1>4, <1>5, <1>6 DEF IndInv

(* A step of a start, or a stop, of the console preserves it.              *)
LEMMA ConsoleStep == IndInv /\ (Starting \/ Stop) => IndInv'
<1> USE DEF IndInv, TypeOK, PendOK
<1>1. ASSUME IndInv, Import PROVE IndInv'
  <2>1. users' \in [Emails -> User] /\ \A e \in Emails : users'[e].nick = users[e].nick
    BY <1>1 DEF Import, User, Roles, States
  <2>2. ledger' \subseteq Emails \union {NoOne} /\ console' \in Console
    BY <1>1 DEF Import, Console, Stages
  <2>3. UNCHANGED <<holders, creds, served, pend>>
    BY <1>1 DEF Import
  <2>4. TypeOK' /\ PendOK'
    BY <1>1, <2>1, <2>2, <2>3
  <2>5. QED
    BY <1>1, <2>1, <2>3, <2>4, PlainStep
<1>2. ASSUME IndInv, NEW list \in Lists, BeginStart(list) PROVE IndInv'
  <2>1. console' \in Console /\ UNCHANGED <<users, holders, creds, ledger, served, pend>>
    BY <1>2, ConstantsOK DEF BeginStart, Console, Stages
  <2>2. TypeOK' /\ PendOK'
    BY <1>2, <2>1
  <2>3. QED
    BY <1>2, <2>1, <2>2, PlainStep
<1>3. ASSUME IndInv, CountAdmins \/ MarkInitialised PROVE IndInv'
  <2>1. /\ ledger' \subseteq Emails \union {NoOne}
        /\ UNCHANGED <<users, holders, creds, pend>>
    BY <1>3 DEF CountAdmins, MarkInitialised
  <2>2. served' \in BOOLEAN
    BY <1>3, Zenon DEF CountAdmins, MarkInitialised
  <2>3. console' \in Console
    <3>1. Off \in Console /\ Up \in Console
      BY DEF Console, Stages, Off, Up
    <3>2. [console EXCEPT !.stage = "mark"] \in Console
      BY <1>3 DEF Console, Stages
    <3>3. QED
      BY <1>3, <3>1, <3>2 DEF CountAdmins, MarkInitialised
  <2>4. TypeOK' /\ PendOK'
    BY <1>3, <2>1, <2>2, <2>3
  <2>5. QED
    BY <1>3, <2>1, <2>4, PlainStep
<1>4. ASSUME IndInv, Stop PROVE IndInv'
  <2>1. console' \in Console
    BY <1>4 DEF Stop, Console, Stages, Off
  <2>2. TypeOK' /\ PendOK'
    BY <1>4, <2>1, IdleTyped DEF Stop, Idle
  <2>3. QED
    BY <1>4, <2>2, PlainStep DEF Stop, Idle
<1>5. QED
  BY <1>1, <1>2, <1>3, <1>4 DEF Starting

(* So do the operations that are one transaction.                          *)
LEMMA VerbsStep == IndInv /\ Verbs => IndInv'
<1>1. ASSUME IndInv, NEW e \in Emails, NEW r \in Roles, NEW n \in NickOrNone,
             AddUser(e, r, n)
      PROVE  IndInv'
  <2>1. /\ users' \in [Emails -> User]
        /\ \A d \in Emails :
             users'[d].nick = IF d = e /\ n # NoNick THEN n ELSE users[d].nick
    BY <1>1 DEF AddUser, IndInv, TypeOK, User, States
  <2>2. CASE n # NoNick /\ n # users[e].nick
    <3>1. n \in Nicks
      BY <2>2 DEF NickOrNone
    <3>2. ~HeldByOther(e, n) /\ RecordNickname(e, n, users[e].nick)
      BY <1>1, <2>2 DEF AddUser
    <3>3. UNCHANGED <<ledger, console, served, pend>>
      BY <1>1 DEF AddUser
    <3>4. pend' \in [Procs -> Pending]
      BY <1>1, <3>3 DEF IndInv, TypeOK
    <3>5. QED
      BY <1>1, <2>1, <2>2, <3>1, <3>2, <3>3, <3>4, NicknameStep
  <2>3. CASE ~(n # NoNick /\ n # users[e].nick)
    <3>1. UNCHANGED <<holders, creds, ledger, console, served, pend>>
      BY <1>1, <2>3 DEF AddUser
    <3>2. TypeOK' /\ PendOK'
      BY <1>1, <2>1, <3>1 DEF IndInv, TypeOK, PendOK
    <3>3. QED
      BY <1>1, <2>1, <2>3, <3>1, <3>2, PlainStep
  <2>4. QED
    BY <2>2, <2>3
<1>2. ASSUME IndInv, NEW e \in Emails, NEW n \in Nicks, SetNickname(e, n)
      PROVE  IndInv'
  <2>1. /\ users' \in [Emails -> User]
        /\ \A d \in Emails : users'[d].nick = IF d = e THEN n ELSE users[d].nick
    BY <1>2 DEF SetNickname, IndInv, TypeOK, User, NickOrNone
  <2>2. UNCHANGED <<ledger, console, served, pend>>
    BY <1>2 DEF SetNickname
  <2>3. pend' \in [Procs -> Pending]
    BY <1>2, <2>2 DEF IndInv, TypeOK
  <2>4. QED
    BY <1>2, <2>1, <2>2, <2>3, NicknameStep DEF SetNickname
<1>3. ASSUME IndInv, NEW o \in Owners, RevokeAgent(o)
      PROVE  IndInv'
  BY <1>3, RevokeStep DEF RevokeAgent, IndInv, TypeOK
<1>4. ASSUME IndInv, NEW g \in Guests, PurgeGuest(g)
      PROVE  IndInv'
  <2>1. /\ creds' \in [Tokens -> Credential]
        /\ \A t \in Tokens : creds'[t] = creds[t] \/ creds'[t] = NoCredential
    <3>1. NoCredential \in Credential
      BY DEF NoCredential, Credential, Statuses, NickOrNone
    <3>2. QED
      BY <1>4, <3>1 DEF PurgeGuest, IndInv, TypeOK
  <2>2. UNCHANGED <<users, holders, ledger, console, served, pend>>
    BY <1>4 DEF PurgeGuest
  <2>3. TypeOK' /\ PendOK' /\ HolderOwns' /\ IssueOwned'
    BY <1>4, <2>1, <2>2 DEF IndInv, TypeOK, PendOK, HolderOwns, IssueOwned
  <2>4. UsedTokenOK' /\ RowsOwned' /\ OneLiveCredential'
    BY <1>4, <2>1, <2>2 DEF IndInv, UsedTokenOK, RowsOwned, OneLiveCredential,
       NoCredential, Unrevoked
  <2>5. QED
    BY <2>3, <2>4 DEF IndInv
<1>5. QED
  BY <1>1, <1>2, <1>3, <1>4 DEF Verbs

(* So does the first half of a two-step operation.                         *)
LEMMA BeginStep ==
    ASSUME IndInv, NEW p \in Procs, Begin(p)
    PROVE  IndInv'
<1> USE DEF IndInv, TypeOK, PendOK
<1>1. ASSUME NEW e \in Emails PROVE users[e] \in User /\ e \in Owners
  BY DEF Owners
(* Reading a user and deciding what to write.                              *)
<1>3. ASSUME NEW e \in Emails, NEW op \in {"set", "invite", "remove"}, NEW r \in Roles,
             NEW s \in States, BeginSet(p, e, op, r, s)
      PROVE IndInv'
  <2>1. TypeOK' /\ PendOK'
    BY <1>1, <1>3 DEF BeginSet, Pending, Ops, NickOrNone
  <2>2. \A q \in Procs : pend'[q].op = "issue" => pend'[q] = pend[q]
    BY <1>3 DEF BeginSet
  <2>3. QED
    BY <1>3, <2>1, <2>2, PlainStep DEF BeginSet
<1>4. ASSUME NEW e \in Emails, NEW r \in Roles, BeginRole(p, e, r) PROVE IndInv'
  BY <1>1, <1>3, <1>4 DEF BeginRole, User
<1>5. ASSUME NEW e \in Emails, NEW r \in Roles, BeginInvite(p, e, r) PROVE IndInv'
  BY <1>3, <1>5 DEF BeginInvite, States
<1>6. ASSUME NEW e \in Emails, BeginRemove(p, e) PROVE IndInv'
  BY <1>1, <1>3, <1>6 DEF BeginRemove, User, States
<1>7. ASSUME NEW e \in Emails, BeginPromotion(p, e) PROVE IndInv'
  <2>1. TypeOK' /\ PendOK'
    BY <1>1, <1>7 DEF BeginPromotion, User, Pending, Ops, States, NickOrNone
  <2>2. QED
    BY <1>7, <2>1, PlainStep DEF BeginPromotion
<1>8. ASSUME NEW e \in Emails, NEW n \in Nicks, BeginClaim(p, e, n) PROVE IndInv'
  <2>1. TypeOK' /\ PendOK'
    BY <1>1, <1>8 DEF BeginClaim, Idle, Pending, Ops, Roles, States, NickOrNone
  <2>2. QED
    BY <1>8, <2>1, PlainStep DEF BeginClaim, Idle
(* An issue leaves with a nickname that is its owner's, if a person's.     *)
<1>9. ASSUME NEW o \in Owners, NEW n \in Nicks, o \in Emails => holders[Fold[n]] = o,
             pend' = [pend EXCEPT ![p] = [Idle EXCEPT !.op = "issue", !.email = o,
                                                      !.nick = n]],
             UNCHANGED <<users, holders, creds, ledger, console, served>>
      PROVE IndInv'
  <2>1. TypeOK' /\ PendOK'
    BY <1>9 DEF Idle, Pending, Ops, Roles, States, NickOrNone
  <2>2. IssueOwned'
    BY <1>9 DEF IssueOwned, Idle
  <2>3. HolderOwns' /\ UsedTokenOK' /\ RowsOwned' /\ OneLiveCredential'
    BY <1>9 DEF HolderOwns, UsedTokenOK, RowsOwned, OneLiveCredential
  <2>4. QED
    BY <2>1, <2>2, <2>3
<1>10. ASSUME NEW e \in Emails, BeginIssue(p, e) PROVE IndInv'
  <2>1. users[e].nick \in Nicks /\ holders[Fold[users[e].nick]] = e
    BY <1>1, <1>10 DEF BeginIssue, User, NickOrNone, HolderOwns
  <2>2. QED
    BY <1>1, <1>9, <1>10, <2>1 DEF BeginIssue
<1>11. ASSUME NEW g \in Guests, NEW n \in GuestNicks, BeginGuestIssue(p, g, n) PROVE IndInv'
  <2>1. g \in Owners /\ g \notin Emails /\ n \in Nicks
    BY ConstantsOK DEF Owners
  <2>2. QED
    BY <1>9, <1>11, <2>1 DEF BeginGuestIssue
<1>12. QED
  BY <1>4, <1>5, <1>6, <1>7, <1>8, <1>10, <1>11 DEF Begin

(* A write of a role and a state that were decided earlier.                *)
LEMMA FinishSetStep ==
    ASSUME IndInv, NEW p \in Procs, FinishSet(p)
    PROVE  IndInv'
<1> USE DEF IndInv, TypeOK, PendOK
<1>1. pend[p] \in Pending /\ pend[p].email \in Emails
  BY DEF FinishSet
<1>2. /\ users' \in [Emails -> User]
      /\ \A e \in Emails : users'[e].nick = users[e].nick
  BY <1>1 DEF FinishSet, Upsert, User, Pending
<1>3. TypeOK' /\ PendOK'
  <2>1. [pend[p] EXCEPT !.op = "revoke"] \in Pending
    BY <1>1 DEF Pending, Ops
  <2>2. /\ pend' \in [Procs -> Pending]
        /\ \A q \in Procs : \/ pend'[q] = pend[q]
                            \/ pend'[q] = Idle
                            \/ pend'[q] = [pend[p] EXCEPT !.op = "revoke"]
    BY <2>1, IdleTyped DEF FinishSet
  <2>3. PendOK'
    BY <2>2, <1>1 DEF Idle, Pending
  <2>4. QED
    BY <1>2, <2>2, <2>3 DEF FinishSet
<1>4. \A q \in Procs : pend'[q].op = "issue" => pend'[q] = pend[q]
  BY <1>1 DEF FinishSet, Idle, Pending
<1>5. QED
  BY <1>2, <1>3, <1>4, PlainStep DEF FinishSet

(* The unguarded write of a promotion preserves the invariant, too.        *)
LEMMA FinishPromotionStep ==
    ASSUME IndInv, NEW p \in Procs, FinishPromotion(p)
    PROVE  IndInv'
<1> USE DEF IndInv, TypeOK, PendOK
<1>1. pend[p] \in Pending /\ pend[p].email \in Emails
  BY DEF FinishPromotion
<1>2. /\ users' \in [Emails -> User]
      /\ \A e \in Emails : users'[e].nick = users[e].nick
  BY <1>1 DEF FinishPromotion, Upsert, User, Pending, States
<1>3. TypeOK' /\ PendOK'
  BY <1>2, IdleTyped DEF FinishPromotion, Idle
<1>4. \A q \in Procs : pend'[q].op = "issue" => pend'[q] = pend[q]
  BY DEF FinishPromotion, Idle
<1>5. QED
  BY <1>2, <1>3, <1>4, PlainStep DEF FinishPromotion

(* So does the transaction of a first choice of a nickname.                *)
LEMMA FinishClaimStep ==
    ASSUME IndInv, NEW p \in Procs, FinishClaim(p)
    PROVE  IndInv'
<1>1. /\ pend[p].email \in Emails
      /\ pend[p].nick \in Nicks
  BY DEF FinishClaim, IndInv, PendOK
<1>2. /\ pend' \in [Procs -> Pending]
      /\ \A q \in Procs : pend'[q] = pend[q] \/ pend'[q] = Idle
      /\ UNCHANGED <<ledger, console, served>>
  BY IdleTyped DEF FinishClaim, IndInv, TypeOK
<1>3. CASE users[pend[p].email].nick = NoNick /\ ~HeldByOther(pend[p].email, pend[p].nick)
  <2>1. /\ users' = [users EXCEPT ![pend[p].email].nick = pend[p].nick]
        /\ RecordNickname(pend[p].email, pend[p].nick, NoNick)
    BY <1>3 DEF FinishClaim
  <2>2. /\ users' \in [Emails -> User]
        /\ \A d \in Emails :
             users'[d].nick = IF d = pend[p].email THEN pend[p].nick ELSE users[d].nick
    BY <1>1, <2>1 DEF IndInv, TypeOK, User, NickOrNone
  <2>3. QED
    BY <1>1, <1>2, <1>3, <2>1, <2>2, NicknameStep
<1>4. CASE ~(users[pend[p].email].nick = NoNick
               /\ ~HeldByOther(pend[p].email, pend[p].nick))
  <2>1. UNCHANGED <<users, holders, creds>>
    BY <1>4 DEF FinishClaim
  <2>2. TypeOK' /\ PendOK'
    BY <1>2, <2>1 DEF IndInv, TypeOK, PendOK, Idle
  <2>3. QED
    BY <1>2, <2>1, <2>2, PlainStep DEF Idle
<1>5. QED
  BY <1>3, <1>4

(* So does the issue of a credential under the nickname read earlier.      *)
LEMMA FinishIssueStep ==
    ASSUME IndInv, NEW p \in Procs, NEW t \in Tokens, FinishIssue(p, t)
    PROVE  IndInv'
<1> DEFINE e == pend[p].email
           n == pend[p].nick
           row == [email |-> e, nick |-> n, status |-> "live"]
<1>1. /\ e \in Owners
      /\ n \in Nicks
      /\ e \in Emails => holders[Fold[n]] = e
  BY DEF FinishIssue, IndInv, PendOK, IssueOwned
<1>2. /\ creds' = [RevokeLive(e) EXCEPT ![t] = row]
      /\ pend' = [pend EXCEPT ![p] = Idle]
      /\ UNCHANGED <<users, holders, ledger, console, served>>
  BY DEF FinishIssue
<1>3. row \in Credential /\ Unrevoked(row)
  BY <1>1 DEF Credential, Statuses, NickOrNone, Unrevoked
<1>4. /\ RevokeLive(e) \in [Tokens -> Credential]
      /\ \A u \in Tokens :
            /\ RevokeLive(e)[u].email = creds[u].email
            /\ RevokeLive(e)[u].nick = creds[u].nick
            /\ RevokeLive(e)[u].status = "unused" <=> creds[u].status = "unused"
            /\ Unrevoked(RevokeLive(e)[u])
                 <=> Unrevoked(creds[u]) /\ creds[u].email # e
  BY RevokeLiveEffect DEF IndInv
<1>5. creds' \in [Tokens -> Credential]
  BY <1>2, <1>3, <1>4
<1>6. creds'[t] = row /\ \A u \in Tokens \ {t} : creds'[u] = RevokeLive(e)[u]
  BY <1>2, <1>4
<1> HIDE DEF row
<1>7. row.email = e /\ row.nick = n
  BY DEF row
<1>8. UsedTokenOK'
  BY <1>1, <1>4, <1>6, <1>7 DEF IndInv, UsedTokenOK
<1>9. RowsOwned'
  BY <1>1, <1>2, <1>4, <1>6, <1>7 DEF IndInv, RowsOwned
<1>10. OneLiveCredential'
  BY <1>3, <1>4, <1>6, <1>7 DEF IndInv, OneLiveCredential
<1>11. TypeOK' /\ PendOK'
  BY <1>2, <1>5, IdleTyped DEF IndInv, TypeOK, PendOK, Idle
<1>12. HolderOwns' /\ IssueOwned'
  BY <1>2 DEF IndInv, TypeOK, HolderOwns, IssueOwned, Idle
<1>13. QED
  BY <1>8, <1>9, <1>10, <1>11, <1>12 DEF IndInv

(* Every second half, or death, of a two-step operation preserves it.      *)
LEMMA FinishStep ==
    ASSUME IndInv, NEW p \in Procs, Finish(p)
    PROVE  IndInv'
<1>1. ASSUME FinishRemove(p) PROVE IndInv'
  <2>1. pend[p].email \in Owners
    BY <1>1 DEF FinishRemove, IndInv, PendOK, Owners
  <2>2. QED
    BY <1>1, <2>1, RevokeStep, IdleTyped DEF FinishRemove, IndInv, TypeOK
<1>2. ASSUME Die(p) PROVE IndInv'
  <2>1. TypeOK' /\ PendOK'
    BY <1>2, IdleTyped DEF Die, IndInv, TypeOK, PendOK, Idle
  <2>2. \A q \in Procs : pend'[q].op = "issue" => pend'[q] = pend[q]
    BY <1>2 DEF Die, IndInv, TypeOK, Idle
  <2>3. QED
    BY <1>2, <2>1, <2>2, PlainStep DEF Die
<1>3. QED
  BY <1>1, <1>2, FinishSetStep, FinishPromotionStep, FinishClaimStep, FinishIssueStep
     DEF Finish

(* A credential that passes its expiry preserves it.                       *)
LEMMA ExpireStep ==
    ASSUME IndInv, NEW t \in Tokens, Expire(t)
    PROVE  IndInv'
<1>1. /\ creds' \in [Tokens -> Credential]
      /\ \A u \in Tokens :
            /\ creds'[u].email = creds[u].email
            /\ creds'[u].nick = creds[u].nick
            /\ creds'[u].status = "unused" <=> creds[u].status = "unused"
            /\ Unrevoked(creds'[u]) <=> Unrevoked(creds[u])
  BY DEF Expire, IndInv, TypeOK, Credential, Statuses, Unrevoked
<1>2. TypeOK' /\ PendOK' /\ HolderOwns' /\ IssueOwned'
  BY <1>1 DEF Expire, IndInv, TypeOK, PendOK, HolderOwns, IssueOwned
<1>3. UsedTokenOK' /\ RowsOwned' /\ OneLiveCredential'
  BY <1>1 DEF Expire, IndInv, UsedTokenOK, RowsOwned, OneLiveCredential
<1>4. QED
  BY <1>2, <1>3 DEF IndInv

-----------------------------------------------------------------------------
(* Every step preserves the inductive invariant.                           *)
LEMMA StepInd == IndInv /\ [Next]_vars => IndInv'
<1>1. ASSUME IndInv, UNCHANGED vars PROVE IndInv'
  BY <1>1 DEF vars, IndInv, TypeOK, PendOK, HolderOwns, IssueOwned, UsedTokenOK,
     RowsOwned, OneLiveCredential, Unrevoked
<1>2. QED
  BY <1>1, ConsoleStep, VerbsStep, BeginStep, FinishStep, ExpireStep DEF Next

(* The strengthening, of which the invariants below are consequences: the  *)
(* reservation behind each nickname in use is what makes them inductive,   *)
(* for it outlives the read of a nickname by an issue in flight.           *)
THEOREM StoreInvariant == Spec => []IndInv
BY InitInd, StepInd, PTL DEF Spec

(* The state of the store is well typed.                                   *)
THEOREM StoreTyped == Spec => []TypeOK
<1>1. IndInv => TypeOK
  BY DEF IndInv
<1>2. QED
  BY <1>1, StoreInvariant, PTL

(* However many people, processes and spellings there are, no two users    *)
(* ever hold the same nickname.                                            *)
THEOREM Distinct == Spec => []NicknamesDistinct
<1>1. IndInv => NicknamesDistinct
  BY DEF IndInv, HolderOwns, NicknamesDistinct
<1>2. QED
  BY <1>1, StoreInvariant, PTL

(* A person's agent nick is nobody else's, although the nickname was read  *)
(* before the credential was issued: its reservation outlives renames and  *)
(* revocations, and names the one key that agent_key_for_nick can find.    *)
THEOREM NickOwned == Spec => []CredentialNickOwned
<1>1. ASSUME IndInv, NEW t \in Tokens, creds[t].status # "unused", creds[t].email \in Emails
      PROVE  /\ holders[Fold[creds[t].nick]] = creds[t].email
             /\ AgentKeys(creds[t]) = {creds[t].email}
  <2>1. holders[Fold[creds[t].nick]] = creds[t].email
    BY <1>1 DEF IndInv, RowsOwned
  <2>2. creds[t].email \notin Guests
    BY <1>1, ConstantsOK
  <2>3. ASSUME NEW u \in Tokens, creds[u].status # "unused",
               creds[u].email \notin Guests, Fold[creds[u].nick] = Fold[creds[t].nick]
        PROVE  creds[u].email = creds[t].email
    <3>1. creds[u].email \in Emails
      BY <1>1, <2>3 DEF IndInv, UsedTokenOK, Owners
    <3>2. holders[Fold[creds[u].nick]] = creds[u].email
      BY <1>1, <2>3, <3>1 DEF IndInv, RowsOwned
    <3>3. QED
      BY <2>1, <2>3, <3>2
  <2>4. QED
    BY <1>1, <2>1, <2>2, <2>3 DEF AgentKeys
<1>2. IndInv => CredentialNickOwned
  BY <1>1 DEF CredentialNickOwned
<1>3. QED
  BY <1>2, StoreInvariant, PTL

(* At most one credential per person is unrevoked.                         *)
THEOREM OneLive == Spec => []OneLiveCredential
<1>1. IndInv => OneLiveCredential
  BY DEF IndInv
<1>2. QED
  BY <1>1, StoreInvariant, PTL

-----------------------------------------------------------------------------
(* Reservations only grow.                                                 *)
LEMMA NextKeepsReservations == IndInv /\ [Next]_vars => ReservationsKept
<1>1. ASSUME IndInv, UNCHANGED holders PROVE ReservationsKept
  BY <1>1 DEF IndInv, TypeOK, ReservationsKept
<1>2. ASSUME IndInv, NEW e \in Emails, NEW n \in Nicks, NEW previous,
             ~HeldByOther(e, n), RecordNickname(e, n, previous)
      PROVE  ReservationsKept
  BY <1>2, RecordNicknameEffect DEF IndInv
<1>3. ASSUME IndInv, Verbs PROVE ReservationsKept
  <2>1. ASSUME NEW e \in Emails, NEW r \in Roles, NEW n \in NickOrNone, AddUser(e, r, n)
        PROVE  ReservationsKept
    BY <1>1, <1>2, <1>3, <2>1 DEF AddUser, NickOrNone
  <2>2. ASSUME NEW e \in Emails, NEW n \in Nicks, SetNickname(e, n)
        PROVE  ReservationsKept
    BY <1>2, <1>3, <2>2 DEF SetNickname
  <2>3. QED
    BY <1>1, <1>3, <2>1, <2>2 DEF Verbs, RevokeAgent, PurgeGuest
<1>4. ASSUME IndInv, NEW p \in Procs, Finish(p) PROVE ReservationsKept
  <2>1. ASSUME FinishClaim(p) PROVE ReservationsKept
    <3>1. pend[p].email \in Emails /\ pend[p].nick \in Nicks
      BY <1>4, <2>1 DEF FinishClaim, IndInv, PendOK
    <3>2. QED
      BY <1>1, <1>2, <1>4, <2>1, <3>1 DEF FinishClaim
  <2>2. QED
    BY <1>1, <1>4, <2>1
       DEF Finish, FinishSet, FinishRemove, FinishPromotion, FinishIssue, Die
<1>5. ASSUME IndInv, NEW p \in Procs, Begin(p) PROVE ReservationsKept
  BY <1>1, <1>5 DEF Begin, BeginRole, BeginInvite, BeginRemove, BeginSet,
     BeginPromotion, BeginClaim, BeginIssue, BeginGuestIssue
<1>6. QED
  BY <1>1, <1>3, <1>4, <1>5 DEF Next, vars, Starting, BeginStart, Import, CountAdmins,
     MarkInitialised, Stop, Expire

(* A nickname somebody holds, or held, is never given to anybody else.     *)
THEOREM NeverReassigned == Spec => NicknameNeverReassigned
<1>1. IndInv /\ IndInv' /\ ReservationsKept =>
        /\ \A e \in Emails :
              users'[e].nick # NoNick => holders[Fold[users'[e].nick]] \in {NoOne, e}
        /\ \A k \in Keys : holders[k] # NoOne => holders'[k] = holders[k]
  <2>1. SUFFICES ASSUME IndInv, IndInv', ReservationsKept,
                        NEW e \in Emails, users'[e].nick # NoNick
                 PROVE  holders[Fold[users'[e].nick]] \in {NoOne, e}
    BY DEF ReservationsKept
  <2>2. holders'[Fold[users'[e].nick]] = e
    BY <2>1 DEF IndInv, HolderOwns
  <2>3. Fold[users'[e].nick] \in Keys
    BY <2>1, ConstantsOK DEF IndInv, TypeOK, User, NickOrNone
  <2>4. QED
    BY <2>1, <2>2, <2>3 DEF ReservationsKept
<1>2. IndInv /\ [Next]_vars => IndInv' /\ ReservationsKept
  BY StepInd, NextKeepsReservations
<1>3. QED
  BY <1>1, <1>2, StoreInvariant, PTL
     DEF Spec, NicknameNeverReassigned

-----------------------------------------------------------------------------
(* The guard in FinishSet and AddUser is enough to keep an admin: whatever *)
(* was read before, the write is refused when it would leave none.         *)
LEMMA UpsertKeepsAdmin ==
    ASSUME TypeOK, NEW e \in Emails, NEW r \in Roles, NEW s \in States,
           users' \in [Emails -> User],
           users'[e].role = r, users'[e].state = s,
           \A d \in Emails \ {e} : users'[d] = users[d],
           HasAdmin, ~LastAdmin(e, r, s)
    PROVE  HasAdmin'
<1>1. CASE IsAdmin(users[e]) /\ r = "admin" /\ s = "approved"
  BY <1>1 DEF HasAdmin, Admins, IsAdmin
<1>2. CASE Admins \ {e} # {}
  BY <1>2 DEF HasAdmin, Admins, IsAdmin
<1>3. CASE ~IsAdmin(users[e])
  BY <1>3 DEF HasAdmin, Admins, IsAdmin
<1>4. QED
  BY <1>1, <1>2, <1>3 DEF LastAdmin

(* Every step but the write of a sign-in promotion keeps an admin.         *)
LEMMA StepKeepsAdmin ==
    ASSUME IndInv, [Next]_vars, HasAdmin, ~(\E p \in Procs : FinishPromotion(p))
    PROVE  HasAdmin'
<1>1. ASSUME \A e \in Emails : /\ users'[e].role = users[e].role
                              /\ users'[e].state = users[e].state
      PROVE  HasAdmin'
  BY <1>1 DEF HasAdmin, Admins, IsAdmin
<1>2. ASSUME UNCHANGED users PROVE HasAdmin'
  BY <1>1, <1>2
<1>3. ASSUME Import PROVE HasAdmin'
  BY <1>3 DEF Import, HasAdmin, Admins, IsAdmin, IndInv, TypeOK, User
<1>4. ASSUME NEW e \in Emails, NEW r \in Roles, NEW n \in NickOrNone, AddUser(e, r, n)
      PROVE  HasAdmin'
  <2>1. /\ users' \in [Emails -> User]
        /\ users'[e].role = r /\ users'[e].state = "approved"
        /\ \A d \in Emails \ {e} : users'[d] = users[d]
    BY <1>4 DEF AddUser, IndInv, TypeOK, User, States
  <2>2. "approved" \in States
    BY DEF States
  <2>3. QED
    BY <1>4, <2>1, <2>2, UpsertKeepsAdmin DEF AddUser, IndInv
<1>5. ASSUME NEW e \in Emails, NEW n \in Nicks, SetNickname(e, n) PROVE HasAdmin'
  BY <1>1, <1>5 DEF SetNickname, IndInv, TypeOK, User
<1>6. ASSUME NEW p \in Procs, FinishSet(p) PROVE HasAdmin'
  <2>1. pend[p] \in Pending /\ pend[p].email \in Emails
    BY <1>6 DEF FinishSet, IndInv, TypeOK, PendOK
  <2>2. CASE LastAdmin(pend[p].email, pend[p].role, pend[p].state)
    BY <1>2, <1>6, <2>2 DEF FinishSet
  <2>3. CASE ~LastAdmin(pend[p].email, pend[p].role, pend[p].state)
    <3>1. users' = Upsert(pend[p].email, pend[p].role, pend[p].state)
      BY <1>6, <2>3 DEF FinishSet
    <3>2. pend[p].role \in Roles /\ pend[p].state \in States
      BY <2>1 DEF Pending
    <3>3. /\ users' \in [Emails -> User]
          /\ users'[pend[p].email].role = pend[p].role
          /\ users'[pend[p].email].state = pend[p].state
          /\ \A d \in Emails \ {pend[p].email} : users'[d] = users[d]
      BY <2>1, <3>1, <3>2 DEF Upsert, IndInv, TypeOK, User
    <3>4. QED
      BY <2>1, <2>3, <3>2, <3>3, UpsertKeepsAdmin DEF IndInv
  <2>4. QED
    BY <2>2, <2>3
<1>7. ASSUME NEW p \in Procs, FinishClaim(p) PROVE HasAdmin'
  <2>1. pend[p].email \in Emails
    BY <1>7 DEF FinishClaim, IndInv, PendOK
  <2>2. QED
    BY <1>1, <1>2, <1>7, <2>1 DEF FinishClaim, IndInv, TypeOK, User
<1>8. ASSUME NEW p \in Procs, Begin(p) PROVE HasAdmin'
  BY <1>2, <1>8 DEF Begin, BeginRole, BeginInvite, BeginRemove, BeginSet,
     BeginPromotion, BeginClaim, BeginIssue, BeginGuestIssue
<1>9. ASSUME NEW p \in Procs, Finish(p) PROVE HasAdmin'
  BY <1>2, <1>6, <1>7, <1>9 DEF Finish, FinishRemove, FinishIssue, Die
<1>10. ASSUME Verbs PROVE HasAdmin'
  BY <1>2, <1>4, <1>5, <1>10 DEF Verbs, RevokeAgent, PurgeGuest
<1>11. ASSUME \/ \E list \in Lists : BeginStart(list)
              \/ CountAdmins \/ MarkInitialised \/ Stop
              \/ \E t \in Tokens : Expire(t)
              \/ UNCHANGED vars
       PROVE  HasAdmin'
  BY <1>2, <1>11 DEF BeginStart, CountAdmins, MarkInitialised, Stop, Expire, vars
<1>12. QED
  BY <1>3, <1>8, <1>9, <1>10, <1>11 DEF Next, Starting

(* However changes to roles and states interleave, only the unguarded      *)
(* write of a sign-in promotion can leave nobody to administer access.     *)
THEOREM AdminsKept == Spec => AdminKept
<1>1. IndInv /\ [Next]_vars =>
        [HasAdmin /\ ~HasAdmin' => \E p \in Procs : FinishPromotion(p)]_vars
  BY StepKeepsAdmin
<1>2. QED
  BY <1>1, StoreInvariant, PTL DEF Spec, AdminKept

-----------------------------------------------------------------------------
(* What a start relies on: the ledger is not empty once a console has      *)
(* served, so no later start imports; there is an admin from their count   *)
(* to the end of the start; and no request is in flight while the console  *)
(* does not run.                                                           *)
ConsoleInv ==
    /\ served => ledger # {} /\ console.stage # "import"
    /\ Running => served
    /\ console.stage = "count" /\ ~console.first => ledger # {}
    /\ console.stage = "mark" => HasAdmin
    /\ \A p \in Procs : pend[p].op \in WebOnly => Running

(* The initial state is one of a console that never ran.                   *)
LEMMA InitConsole == Init => ConsoleInv
BY DEF Init, ConsoleInv, Off, Running, Idle, WebOnly

(* A step outside starts and stops moves none of what a start goes by.     *)
LEMMA OutsideStep ==
    ASSUME IndInv, Next, ~Starting, ~Stop
    PROVE  UNCHANGED <<ledger, console, served>>
<1>1. ASSUME Verbs PROVE UNCHANGED <<ledger, console, served>>
  BY <1>1, Zenon DEF Verbs, AddUser, SetNickname, RevokeAgent, PurgeGuest
<1>2. ASSUME NEW p \in Procs, Begin(p) PROVE UNCHANGED <<ledger, console, served>>
  BY <1>2, Zenon DEF Begin, BeginRole, BeginInvite, BeginRemove, BeginSet, BeginPromotion,
     BeginClaim, BeginIssue, BeginGuestIssue
<1>3. ASSUME NEW p \in Procs, Finish(p) PROVE UNCHANGED <<ledger, console, served>>
  BY <1>3, Zenon DEF Finish, FinishSet, FinishRemove, FinishPromotion, FinishClaim,
     FinishIssue, Die
<1>4. ASSUME NEW t \in Tokens, Expire(t) PROVE UNCHANGED <<ledger, console, served>>
  BY <1>4 DEF Expire
<1>5. QED
  BY <1>1, <1>2, <1>3, <1>4 DEF Next

(* A request in flight was let in by a console that still runs.            *)
LEMMA OutsidePending ==
    ASSUME IndInv, ConsoleInv, Next, ~Starting, ~Stop, NEW p \in Procs,
           pend'[p].op \in WebOnly
    PROVE  Running'
<1> USE DEF IndInv, TypeOK
<1>1. console' = console
  BY OutsideStep
<1>2. CASE pend'[p].op = pend[p].op
  BY <1>1, <1>2 DEF ConsoleInv, Running
<1>3. CASE pend'[p].op # pend[p].op
  <2>1. ASSUME Verbs \/ \E t \in Tokens : Expire(t) PROVE FALSE
    BY <1>3, <2>1, Zenon DEF Verbs, AddUser, SetNickname, RevokeAgent, PurgeGuest, Expire
  <2>2. ASSUME NEW q \in Procs, Finish(q) PROVE FALSE
    <3>1. /\ pend[p] \in Pending
          /\ \/ pend' = [pend EXCEPT ![q] = Idle]
             \/ pend' = [pend EXCEPT ![q] = [pend[q] EXCEPT !.op = "revoke"]]
      BY <2>2 DEF Finish, FinishSet, FinishRemove, FinishPromotion, FinishClaim,
         FinishIssue, Die
    <3>2. pend'[p] \in {pend[p], Idle} \/ pend'[p].op = "revoke"
      BY <3>1 DEF Pending
    <3>3. QED
      BY <1>3, <3>2 DEF Idle, WebOnly
  <2>3. ASSUME NEW q \in Procs, Begin(q) PROVE Running
    <3>1. ASSUME NEW e \in Emails, NEW op \in {"set", "remove"}, NEW r, NEW s,
                 BeginSet(q, e, op, r, s)
          PROVE  FALSE
      BY <1>3, <3>1 DEF BeginSet, WebOnly
    <3>2. ASSUME NEW e \in Emails, NEW r \in Roles, BeginRole(q, e, r) PROVE FALSE
      BY <3>1, <3>2 DEF BeginRole
    <3>3. ASSUME NEW e \in Emails, BeginRemove(q, e) PROVE FALSE
      BY <3>1, <3>3 DEF BeginRemove
    <3>4. QED
      BY <2>3, <3>2, <3>3 DEF Begin, BeginInvite, BeginPromotion, BeginClaim,
         BeginIssue, BeginGuestIssue
  <2>4. QED
    BY <1>1, <2>1, <2>2, <2>3 DEF Next, Running
<1>4. QED
  BY <1>2, <1>3

(* Every step keeps what a start relies on.                                *)
LEMMA ConsoleKept ==
    ASSUME IndInv, ConsoleInv, [Next]_vars
    PROVE  ConsoleInv'
<1> USE DEF ConsoleInv, Running
<1>1. CASE UNCHANGED vars
  BY <1>1 DEF vars, HasAdmin, Admins, IsAdmin, WebOnly
<1>2. CASE Next /\ ~Starting /\ ~Stop
  <2>1. UNCHANGED <<ledger, console, served>>
    BY <1>2, OutsideStep
  <2>2. console.stage = "mark" => ~\E p \in Procs : FinishPromotion(p)
    BY DEF FinishPromotion, WebOnly
  <2>3. console.stage = "mark" => HasAdmin'
    BY <2>2, StepKeepsAdmin
  <2>4. \A p \in Procs : pend'[p].op \in WebOnly => Running'
    BY <1>2, OutsidePending
  <2>5. QED
    BY <2>1, <2>3, <2>4
<1>3. ASSUME NEW list \in Lists, BeginStart(list) PROVE ConsoleInv'
  BY <1>3 DEF BeginStart, Off, WebOnly
<1>4. CASE Import
  BY <1>4 DEF Import, WebOnly
<1>5. CASE CountAdmins
  <2>1. HasAdmin' <=> HasAdmin
    BY <1>5 DEF CountAdmins, HasAdmin, Admins, IsAdmin
  <2>2. QED
    BY <1>5, <2>1 DEF CountAdmins, Off, Up, WebOnly, IndInv, TypeOK, Console
<1>6. CASE MarkInitialised
  BY <1>6 DEF MarkInitialised, Up, WebOnly
<1>7. CASE Stop
  BY <1>7 DEF Stop, Off, Idle, WebOnly
<1>8. QED
  BY <1>1, <1>2, <1>3, <1>4, <1>5, <1>6, <1>7 DEF Starting

(* No start gives anybody rights once a console has served, and none comes *)
(* up without an admin: whatever is configured by then, and wherever       *)
(* earlier starts were refused or crashed.                                 *)
THEOREM StartsAreSound == Spec => StartSound
<1>1. ASSUME IndInv, ConsoleInv, Next, console' # console
      PROVE  (served => users' = users) /\ (Running' => HasAdmin')
  <2>1. Starting \/ Stop
    BY <1>1, OutsideStep
  <2>2. ASSUME NEW list \in Lists, BeginStart(list)
        PROVE  (served => users' = users) /\ (Running' => HasAdmin')
    BY <2>2 DEF BeginStart, Running
  <2>3. CASE Import
    BY <1>1, <2>3 DEF Import, ConsoleInv, Running
  <2>4. CASE CountAdmins
    BY <2>4 DEF CountAdmins, Running, Off, Up, HasAdmin, Admins, IsAdmin
  <2>5. CASE MarkInitialised
    BY <1>1, <2>5 DEF MarkInitialised, ConsoleInv, HasAdmin, Admins, IsAdmin
  <2>6. CASE Stop
    BY <2>6 DEF Stop, Running, Off
  <2>7. QED
    BY <2>1, <2>2, <2>3, <2>4, <2>5, <2>6 DEF Starting
<1>2. IndInv /\ ConsoleInv /\ [Next]_vars =>
        [console' # console =>
             /\ served => users' = users
             /\ Running' => HasAdmin' ]_vars
  BY <1>1 DEF vars
<1>3. IndInv /\ ConsoleInv /\ [Next]_vars => ConsoleInv'
  BY ConsoleKept
<1>4. QED
  BY <1>2, <1>3, InitConsole, StoreInvariant, PTL DEF Spec, StartSound
=============================================================================
