-------------------------------- MODULE Mail --------------------------------
(***************************************************************************)
(* Outgoing mail (mail_budget.py, the ceiling and send_with_alert of       *)
(* mail.py, the attempts table of guest_store.py).                         *)
(*                                                                         *)
(* Two limits in a row: the guest budget, whose attempts are rows of the   *)
(* guest database and outlive the process, and the ceiling of all mail,    *)
(* which lives in its memory.  Every mail runs in a worker thread: a       *)
(* transaction, a clock read, a locked section and the provider's call are *)
(* actions of their own, and the clock may advance and the process may die *)
(* between any two.                                                        *)
(*                                                                         *)
(* Time is counted in ticks; a sender is a worker thread, busy with one    *)
(* mail at a time.  The alerter, told of what is refused or fails, never   *)
(* waits and never raises: it changes nothing here (see Threat).           *)
(***************************************************************************)
EXTENDS Integers, Sequences, FiniteSets, FiniteSetsExt

CONSTANTS
    Senders,        \* worker threads
    Sources,        \* addresses guests ask from
    Nil,
    HourWindow,     \* HOUR_WINDOW_S
    DayWindow,      \* DAILY_WINDOW_S, also TOTAL_SEND_WINDOW_S
    Kept,           \* ATTEMPT_RETENTION_S
    HourLimit,      \* guest_mail_hourly_budget
    DayLimit,       \* guest_mail_daily_budget
    SourceLimit,    \* guest_mail_ip_hourly_budget
    Ceiling,        \* guest_mail_total_daily_ceiling
    Share,          \* one part in this many is kept for priority mail: 4
    MaxClock,       \* bound on time
    MaxMails,       \* bound on mails asked for
    MaxCrashes      \* bound on restarts

Global == "global"

ASSUME MailOK ==
    /\ {HourWindow, DayWindow, Kept, Share} \subseteq Nat \ {0}
    /\ {HourLimit, DayLimit, SourceLimit, Ceiling} \subseteq Nat
    /\ HourWindow <= DayWindow /\ DayWindow < Kept
    /\ {MaxClock, MaxMails, MaxCrashes} \subseteq Nat
    /\ Nil \notin Senders \cup Sources \cup Nat
    /\ Global \notin Sources

VARIABLES
    clock,
    rows,     \* the attempts table; rows alike but for their rowid are
              \* told apart by their number within key and tick
    holder,   \* the sender that holds the budget's lock
    sent,     \* SendCeiling._sent_at, with who reserved each entry
    mail,     \* what each sender is doing, and (history) its global row
    asked,    \* mails asked for
    crashes,
    pairs,    \* history: the two rows of each mail that has both
    taken     \* history: the times at which this process let mail pass

mailVars == <<clock, rows, holder, sent, mail, asked, crashes, pairs, taken>>

Idle == [at |-> "idle", priority |-> FALSE, source |-> Nil, read |-> 0,
         slot |-> Nil]

(* count_attempts: the rows of k younger than the window.                  *)
RowsOf(k, window) == {r \in rows : r.key = k /\ r.at > clock - window}
CountAt(k, window) == Cardinality(RowsOf(k, window))
RateLimited(k, limit, window) == CountAt(k, window) >= limit

(* MailBudget.__init__: a source's cap stays one short of the hour's.      *)
SourceCap ==
    LET spare == Max({HourLimit - 1, 0})
    IN  Min({SourceLimit, spare})

(* _global_limit_hit                                                       *)
GlobalHit ==
    \/ RateLimited(Global, DayLimit, DayWindow)
    \/ RateLimited(Global, HourLimit, HourWindow)

(* A slip: has one limit for all mail.                                     *)
OneLimit(priority) == Ceiling

(* SendCeiling.take: what is not priority leaves the last part alone.      *)
LimitOf(priority) ==
    IF priority THEN Ceiling ELSE Ceiling - Ceiling \div Share

(* A slip: forgets a mail once its hour is over.                           *)
PoppedHourly(q, cutoff) ==
    LET young == {i \in DOMAIN q : q[i].at > cutoff + DayWindow - HourWindow}
    IN  IF young = {} THEN <<>> ELSE SubSeq(q, Min(young), Len(q))

(* The head entries the window has left are popped.                        *)
Popped(q, cutoff) ==
    LET young == {i \in DOMAIN q : q[i].at > cutoff}
    IN  IF young = {} THEN <<>> ELSE SubSeq(q, Min(young), Len(q))
-----------------------------------------------------------------------------
MailInit ==
    /\ clock = 0
    /\ rows = {}
    /\ holder = Nil
    /\ sent = <<>>
    /\ mail = [s \in Senders |-> Idle]
    /\ asked = 0
    /\ crashes = 0
    /\ pairs = {}
    /\ taken = <<>>

Advance ==
    /\ clock < MaxClock
    /\ clock' = clock + 1
    /\ UNCHANGED <<rows, holder, sent, mail, asked, crashes, pairs, taken>>

Ends(s) == mail' = [mail EXCEPT ![s] = Idle]

(* A slip: takes the budget without its lock.                              *)
CheckUnlocked(s) ==
    /\ mail[s].at = "idle"
    /\ asked < MaxMails
    /\ asked' = asked + 1
    /\ \E source \in Sources :
        /\ ~GlobalHit
        /\ ~RateLimited(source, SourceCap, HourWindow)
        /\ mail' = [mail EXCEPT ![s] = [Idle EXCEPT
                !.at = "global", !.source = source]]
    /\ UNCHANGED <<clock, rows, holder, sent, crashes, pairs, taken>>

(* A mail's thread starts: for guest code mail, _take_sync enters the lock *)
(* and asks the database; a mail that is refused is not sent.              *)
CheckBudget(s) ==
    /\ mail[s].at = "idle"
    /\ asked < MaxMails
    /\ asked' = asked + 1
    /\ holder = Nil
    /\ \E source \in Sources :
        /\ ~GlobalHit
        /\ ~RateLimited(source, SourceCap, HourWindow)
        /\ mail' = [mail EXCEPT ![s] = [Idle EXCEPT
                !.at = "global", !.source = source]]
    /\ holder' = s
    /\ UNCHANGED <<clock, rows, sent, crashes, pairs, taken>>

(* record_attempt.                                                         *)
Alike(k, t) == {r \in rows : r.key = k /\ r.at = t}
NewRow(k) ==
    [key |-> k, at |-> clock, nth |-> Cardinality(Alike(k, clock)) + 1]
Record(k) == rows' = rows \cup {NewRow(k)}

(* The two record_attempt calls, a transaction each.                       *)
RecordGlobal(s) ==
    /\ mail[s].at = "global"
    /\ Record(Global)
    /\ mail' = [mail EXCEPT ![s].at = "source", ![s].slot = NewRow(Global)]
    /\ UNCHANGED <<clock, holder, sent, asked, crashes, pairs, taken>>

RecordSource(s) ==
    /\ mail[s].at = "source"
    /\ Record(mail[s].source)
    /\ pairs' = pairs \cup {[slot |-> mail[s].slot, by |-> NewRow(mail[s].source)]}
    /\ holder' = Nil
    /\ mail' = [mail EXCEPT ![s] = [Idle EXCEPT !.at = "clock"]]
    /\ UNCHANGED <<clock, sent, asked, crashes, taken>>

(* The database raises: the lock is released and the mail not sent, while  *)
(* a row that was recorded stays.                                          *)
StoreFails(s) ==
    /\ mail[s].at \in {"global", "source"}
    /\ holder' = Nil
    /\ Ends(s)
    /\ UNCHANGED <<clock, rows, sent, asked, crashes, pairs, taken>>

(* send_with_alert, with all other mail beginning here: the clock is read  *)
(* before the lock of the ceiling is taken.                                *)
ReadTime(s) ==
    /\ mail[s].at = "clock"
    /\ mail' = [mail EXCEPT ![s].at = "ceiling", ![s].read = clock]
    /\ UNCHANGED <<clock, rows, holder, sent, asked, crashes, pairs, taken>>

OtherMail(s) ==
    /\ mail[s].at = "idle"
    /\ asked < MaxMails
    /\ asked' = asked + 1
    /\ \E priority \in BOOLEAN :
        mail' = [mail EXCEPT ![s] = [Idle EXCEPT
            !.at = "ceiling", !.priority = priority, !.read = clock]]
    /\ UNCHANGED <<clock, rows, holder, sent, crashes, pairs, taken>>

(* SendCeiling.take, in its lock.                                          *)
TakeCeiling(s) ==
    /\ mail[s].at = "ceiling"
    /\ LET kept == Popped(sent, mail[s].read - DayWindow)
           entry == [at |-> mail[s].read, priority |-> mail[s].priority]
       IN  IF Len(kept) >= LimitOf(mail[s].priority)
           THEN sent' = kept /\ Ends(s) /\ UNCHANGED taken
           ELSE /\ sent' = Append(kept, entry)
                /\ taken' = Append(taken, mail[s].read)
                /\ mail' = [mail EXCEPT ![s] = [Idle EXCEPT !.at = "send"]]
    /\ UNCHANGED <<clock, rows, holder, asked, crashes, pairs>>

(* adapter.send, delivered or failed: the entry in the queue stays.        *)
Send(s) ==
    /\ mail[s].at = "send"
    /\ Ends(s)
    /\ UNCHANGED <<clock, rows, holder, sent, asked, crashes, pairs, taken>>

(* A slip: sweeps an attempt once its hour is over.                        *)
SweepHourly ==
    /\ rows' = {r \in rows : r.at > clock - HourWindow}
    /\ rows' # rows
    /\ UNCHANGED <<clock, holder, sent, mail, asked, crashes, pairs, taken>>

(* GuestStore.sweep: attempts past their retention are deleted.            *)
Sweep ==
    /\ rows' = {r \in rows : r.at >= clock - Kept}
    /\ rows' # rows
    /\ UNCHANGED <<clock, holder, sent, mail, asked, crashes, pairs, taken>>

(* The process dies and starts again: the rows stay, the memory is empty.  *)
Crash ==
    /\ crashes < MaxCrashes
    /\ crashes' = crashes + 1
    /\ holder' = Nil
    /\ sent' = <<>>
    /\ taken' = <<>>
    /\ mail' = [s \in Senders |-> Idle]
    /\ UNCHANGED <<clock, rows, asked, pairs>>

Step(s) ==
    \/ CheckBudget(s)
    \/ RecordGlobal(s)
    \/ RecordSource(s)
    \/ StoreFails(s)
    \/ ReadTime(s)
    \/ OtherMail(s)
    \/ TakeCeiling(s)
    \/ Send(s)

MailNext ==
    \/ Advance
    \/ \E s \in Senders : Step(s)
    \/ Sweep
    \/ Crash

MailSpec == MailInit /\ [][MailNext]_mailVars
-----------------------------------------------------------------------------
(* No rolling hour or day has more guest mail than its budget, whatever    *)
(* was asked at the same time, failed half way or was restarted; and an    *)
(* hour that is full was never filled by the mail of one source alone: one *)
(* of its slots is another source's, or has lost the source to a failure   *)
(* between the two records of its mail (_take_sync, MailBudget.__init__).  *)
BudgetKept ==
    /\ CountAt(Global, HourWindow) <= HourLimit
    /\ CountAt(Global, DayWindow) <= DayLimit
    /\ CountAt(Global, HourWindow) >= HourLimit /\ HourLimit > 0
       => \A source \in Sources : \E r \in RowsOf(Global, HourWindow) :
            \A p \in pairs : p.slot = r => p.by.key # source

(* Mail that anyone can trigger never starves approved people's: one of    *)
(* their mails is refused only when a quarter of the ceiling went to their *)
(* own (SendCeiling.take), though all kinds share one queue and take their *)
(* time before its lock.                                                   *)
ReserveKept ==
    [][\A s \in Senders :
          (/\ mail[s].at = "ceiling" /\ mail'[s].at = "idle"
           /\ mail[s].priority /\ crashes' = crashes)
          => Quantify(DOMAIN sent', LAMBDA i : sent'[i].priority)
                >= Ceiling \div Share]_mailVars

(* A process lets no more mail pass in a rolling day than the ceiling, by  *)
(* the times its threads read: these are read before the lock, so that the *)
(* queue is out of order and a head that is young hides an entry that is   *)
(* past (SendCeiling.take).  The count starts anew with the process.       *)
CeilingKept ==
    Quantify(DOMAIN taken, LAMBDA i : taken[i] > clock - DayWindow) <= Ceiling

(* Sweeping old attempts never frees a budget: no count that a limit is    *)
(* compared with changes (ATTEMPT_RETENTION_S outlives every window).      *)
SweepHarmless ==
    [][~(rows \subseteq rows')
       => \A k \in Sources \cup {Global} :
            /\ CountAt(k, HourWindow)' = CountAt(k, HourWindow)
            /\ CountAt(k, DayWindow)' = CountAt(k, DayWindow)]_mailVars
=============================================================================
