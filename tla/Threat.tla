------------------------------- MODULE Threat -------------------------------
(***************************************************************************)
(* Threat rules (ThreatCounters of threat.py, RuleMonitor of rules.py,     *)
(* ThreatVerdictCaller and DeciderClient of decider.py, Alerter of         *)
(* alerts.py).                                                             *)
(*                                                                         *)
(* Signals are counted in windows; a periodic check looks at the window    *)
(* under way and at the one completed last, and tells the alerter once of  *)
(* each window that crossed a rule; the alerter posts no more than one     *)
(* notice within its spacing, which is longer than a window.  Telling      *)
(* waits for an optional verdict: a call in a thread of its own, raced by  *)
(* a timer, either of which may be the one that tells.                     *)
(*                                                                         *)
(* Counts are abstracted to whether a rule is crossed ("hot"), a window is *)
(* named by the tick it starts at, and a call by its generation.           *)
(***************************************************************************)
EXTENDS Integers, Sequences, FiniteSets, FiniteSetsExt

CONSTANTS
    Producers,  \* threads that count signals
    None,
    Window,     \* WINDOW_SECONDS
    Gap,        \* a check runs at least this often: CHECK_INTERVAL_S
    Day,        \* DAILY_WINDOW_S
    DayCap,     \* DAILY_CALL_CAP
    Spacing,    \* ALERT_INTERVAL_S
    MaxNow      \* bound on time

Times == 0 .. MaxNow
Calls == 1 .. (MaxNow \div Window) + 1  \* a window is assessed once

ASSUME ThreatOK ==
    /\ {Window, Gap, Day, Spacing} \subseteq Nat \ {0}
    /\ Gap < Window
    /\ {DayCap, MaxNow} \subseteq Nat
    /\ None \notin Times \cup [start : Times, hot : BOOLEAN]

VARIABLES
    now,
    window,     \* the window under way: its start, and whether it is hot
    completed,  \* _completed_snapshot
    reading,    \* the clock each producer read, None outside increment
    monitor,    \* the check under way, with the snapshots it took
    checkedAt,  \* when the last check began
    alerted,    \* RuleMonitor._alerted_window
    checked,    \* RuleMonitor._checked_completed_window
    calls,      \* ThreatVerdictCaller._calls
    assessed,   \* ThreatVerdictCaller._last_window
    inFlight, done, generation,  \* of DeciderClient
    run,        \* the thread of each call, and the window it is about
    timer,      \* the timer of each call
    last,       \* Alerter._last, of the one kind that is modelled
    notices,    \* history: how often the alerter was told of each window
    began       \* history: when each call began

counters == <<window, completed, reading>>
rules == <<monitor, checkedAt, alerted, checked>>
client == <<inFlight, done, generation, run, timer>>
vars == <<now, counters, rules, calls, assessed, client, last, notices, began>>

Fresh(t) == [start |-> t, hot |-> FALSE]
Resting == [at |-> "idle", completed |-> None, current |-> Fresh(0)]

(* _roll_window: the window and the completed one, for a clock reading.    *)
Over(t) == t - window.start >= Window
Current(t) == IF Over(t) THEN Fresh(t) ELSE window
Completed(t) == IF Over(t) THEN window ELSE completed

Init ==
    /\ now = 0
    /\ window = Fresh(0)
    /\ completed = None
    /\ reading = [p \in Producers |-> None]
    /\ monitor = Resting
    /\ checkedAt = 0
    /\ alerted = None
    /\ checked = None
    /\ calls = <<>>
    /\ assessed = None
    /\ inFlight = FALSE
    /\ done = FALSE
    /\ generation = 0
    /\ run = [g \in Calls |-> [at |-> "none", about |-> None]]
    /\ timer = [g \in Calls |-> "off"]
    /\ last = None
    /\ notices = [w \in Times |-> 0]
    /\ began = {}

(* The loop of rules.py is never held up for a whole window.               *)
Tick ==
    /\ now < MaxNow
    /\ now - checkedAt < Gap
    /\ now' = now + 1
    /\ UNCHANGED <<counters, rules, calls, assessed, client, last, notices, began>>
-----------------------------------------------------------------------------
(* increment and observe_request read the clock before the lock; the       *)
(* amount may cross a rule.                                                *)
ReadClock(p) ==
    /\ reading[p] = None
    /\ reading' = [reading EXCEPT ![p] = now]
    /\ UNCHANGED <<now, window, completed, rules, calls, assessed, client,
                   last, notices, began>>

Increment(p) ==
    LET t == reading[p]
    IN  /\ t # None
        /\ completed' = Completed(t)
        /\ \E hot \in {Current(t).hot, TRUE} :
            window' = [Current(t) EXCEPT !.hot = hot]
        /\ reading' = [reading EXCEPT ![p] = None]
        /\ UNCHANGED <<now, rules, calls, assessed, client, last, notices,
                       began>>

(* check: both snapshots are taken in one locked section.                  *)
Check ==
    /\ monitor.at = "idle"
    /\ window' = Current(now)
    /\ completed' = Completed(now)
    /\ monitor' = [at |-> "completed", completed |-> completed',
                   current |-> window']
    /\ checkedAt' = now
    /\ UNCHANGED <<now, reading, alerted, checked, calls, assessed, client,
                   last, notices, began>>

(* Alerter.notify.  The time is kept before the thread of the post starts: *)
(* a start or a post that fails is not noticed, and holds the next notice  *)
(* back like one that arrived.  Kinds do not hold each other back: the one *)
(* modelled here is the worst case.                                        *)
HeldBack == last # None /\ now - last < Spacing
Tell(w) ==
    /\ notices' = [notices EXCEPT ![w] = @ + 1]
    /\ last' = IF HeldBack THEN last ELSE now
Quiet == UNCHANGED <<alerted, calls, assessed, client, last, notices, began>>

(* _prune: what is a day old is popped from the head.                      *)
Pruned ==
    LET young == {i \in DOMAIN calls : now - calls[i] < Day}
    IN  IF young = {} THEN <<>> ELSE SubSeq(calls, Min(young), Len(calls))

(* DeciderClient.submit, in its lock.  When the thread cannot be started   *)
(* the exception leaves the call in flight for good, and the alerter is    *)
(* told without a verdict.                                                 *)
Submit(w, kept) ==
    /\ inFlight' = TRUE
    /\ done' = FALSE
    /\ generation' = generation + 1
    /\ \/ /\ run' = [run EXCEPT ![generation'] = [at |-> "new", about |-> w]]
          /\ calls' = Append(kept, now)
          /\ began' = began \cup {[call |-> generation', about |-> w, at |-> now]}
          /\ UNCHANGED <<timer, last, notices>>
       \/ /\ calls' = kept
          /\ Tell(w)
          /\ UNCHANGED <<run, timer, began>>

(* assess: at most one call per window, DayCap per day, one in flight;     *)
(* without a call the alerter is told at once.                             *)
Assess(w) ==
    LET stale == assessed # None /\ w <= assessed
    IN  /\ assessed' = IF stale THEN assessed ELSE w
        /\ IF stale \/ Len(Pruned) >= DayCap \/ inFlight
           THEN /\ Tell(w)
                /\ calls' = Pruned
                /\ UNCHANGED <<client, began>>
           ELSE Submit(w, Pruned)

(* _check_snapshot                                                         *)
Look(snapshot) ==
    IF snapshot.hot /\ snapshot.start # alerted
    THEN alerted' = snapshot.start /\ Assess(snapshot.start)
    ELSE Quiet

(* A slip: the completed window is taken to have been checked.             *)
SkipCompleted ==
    /\ monitor.at = "completed"
    /\ monitor' = [monitor EXCEPT !.at = "current"]
    /\ Quiet
    /\ UNCHANGED <<now, counters, checkedAt, checked>>

(* _check_completed                                                        *)
CheckCompleted ==
    /\ monitor.at = "completed"
    /\ LET snapshot == monitor.completed
       IN  IF snapshot = None
           THEN Quiet /\ UNCHANGED checked
           ELSE /\ checked' = snapshot.start
                /\ IF snapshot.start = checked THEN Quiet ELSE Look(snapshot)
    /\ monitor' = [monitor EXCEPT !.at = "current"]
    /\ UNCHANGED <<now, counters, checkedAt>>

CheckCurrent ==
    /\ monitor.at = "current"
    /\ Look(monitor.current)
    /\ monitor' = Resting
    /\ UNCHANGED <<now, counters, checkedAt, checked>>
-----------------------------------------------------------------------------
Moves(g, at) == run' = [run EXCEPT ![g].at = at]
Apart == UNCHANGED <<now, counters, rules, calls, assessed, generation, began>>

(* _run starts the timer and posts.  A timer whose thread cannot be        *)
(* started raises before the try: the call ends there, untold and in       *)
(* flight for good.                                                        *)
StartTimer(g) ==
    /\ run[g].at = "new"
    /\ \/ Moves(g, "posting") /\ timer' = [timer EXCEPT ![g] = "armed"]
       \/ Moves(g, "dead") /\ UNCHANGED timer
    /\ Apart /\ UNCHANGED <<inFlight, done, last, notices>>

(* The answer, an error or nothing comes back; the timer is cancelled,     *)
(* which one that has already fired does not notice.                       *)
Answer(g) ==
    /\ run[g].at = "posting"
    /\ Moves(g, "answered")
    /\ timer' = [timer EXCEPT ![g] = IF @ = "armed" THEN "off" ELSE @]
    /\ Apart /\ UNCHANGED <<inFlight, done, last, notices>>

Finish(g) ==
    /\ run[g].at = "answered"
    /\ inFlight' = FALSE
    /\ IF g = generation /\ ~done
       THEN done' = TRUE /\ Moves(g, "telling")
       ELSE Moves(g, "over") /\ UNCHANGED done
    /\ Apart /\ UNCHANGED <<timer, last, notices>>

(* _deliver, outside the lock, from either thread.                         *)
RunTells(g) ==
    /\ run[g].at = "telling"
    /\ Tell(run[g].about)
    /\ Moves(g, "over")
    /\ Apart /\ UNCHANGED <<inFlight, done, timer>>

(* TIMEOUT_S have passed.                                                  *)
Fire(g) ==
    /\ timer[g] = "armed"
    /\ timer' = [timer EXCEPT ![g] = "fired"]
    /\ Apart /\ UNCHANGED <<inFlight, done, run, last, notices>>

(* A slip: a late timer does not look whose call is under way.             *)
TimeOutAny(g) ==
    /\ timer[g] = "fired"
    /\ IF done
       THEN timer' = [timer EXCEPT ![g] = "off"] /\ UNCHANGED done
       ELSE timer' = [timer EXCEPT ![g] = "telling"] /\ done' = TRUE
    /\ Apart /\ UNCHANGED <<inFlight, run, last, notices>>

(* A slip: a call that timed out makes room for the next.                  *)
TimeOutFrees(g) ==
    /\ timer[g] = "fired"
    /\ IF g # generation \/ done
       THEN timer' = [timer EXCEPT ![g] = "off"] /\ UNCHANGED <<done, inFlight>>
       ELSE /\ timer' = [timer EXCEPT ![g] = "telling"]
            /\ done' = TRUE
            /\ inFlight' = FALSE
    /\ Apart /\ UNCHANGED <<run, last, notices>>

(* _time_out, in the lock: the call stays in flight.                       *)
TimeOut(g) ==
    /\ timer[g] = "fired"
    /\ IF g # generation \/ done
       THEN timer' = [timer EXCEPT ![g] = "off"] /\ UNCHANGED done
       ELSE timer' = [timer EXCEPT ![g] = "telling"] /\ done' = TRUE
    /\ Apart /\ UNCHANGED <<inFlight, run, last, notices>>

TimerTells(g) ==
    /\ timer[g] = "telling"
    /\ Tell(run[g].about)
    /\ timer' = [timer EXCEPT ![g] = "off"]
    /\ Apart /\ UNCHANGED <<inFlight, done, run>>

Thread(g) ==
    \/ StartTimer(g)
    \/ Answer(g)
    \/ Finish(g)
    \/ RunTells(g)

Timer(g) == TimeOut(g) \/ TimerTells(g)

Next ==
    \/ Tick
    \/ \E p \in Producers : ReadClock(p) \/ Increment(p)
    \/ Check \/ CheckCompleted \/ CheckCurrent
    \/ \E g \in Calls : Thread(g) \/ Fire(g) \/ Timer(g)

Spec == Init /\ [][Next]_vars

(* The loop goes on; a thread is scheduled, and its post ends, for the     *)
(* socket has a timeout.                                                   *)
Fairness ==
    /\ WF_vars(Check \/ CheckCompleted \/ CheckCurrent)
    /\ \A g \in Calls : WF_vars(Thread(g)) /\ WF_vars(Timer(g))

FairSpec == Spec /\ Fairness
-----------------------------------------------------------------------------
(* The alerter is told of a window that crossed a rule once, however the   *)
(* check of the window under way and of the completed one, an answer, and  *)
(* a timer that fires late, into the next call, follow each other          *)
(* (_check_snapshot, _run, _time_out).                                     *)
ToldOnce == \A w \in Times : notices[w] <= 1

(* For a window that crossed a rule a notice is attempted: its own, or one *)
(* that began less than the alerter's spacing before the window.  So it is *)
(* even when the rule was crossed in the last moment, after the last check *)
(* of the window (_check_completed), and when the decider is busy, capped, *)
(* late or broken (_assess_and_alert); all but for a call that could not   *)
(* start its timer (_run).                                                 *)
HotIsTold ==
    \A w \in Times : (window.start = w /\ window.hot) ~>
        \/ notices[w] > 0 /\ last # None /\ last > w - Spacing
        \/ \E g \in Calls : run[g] = [at |-> "dead", about |-> w]

OneAtATime == Cardinality({g \in Calls : run[g].at \in {"new", "posting"}}) <= 1
OncePerWindow == \A b, c \in began : b.about = c.about => b = c

DailyCapped ==
    \A t \in Times : Cardinality({b \in began : b.at \in t .. t + Day - 1}) <= DayCap

(* Verdicts stay cheap: one call at a time, one per window, DayCap in any  *)
(* rolling day, though a call may outlive its timeout (submit, assess).    *)
CallsCapped == OneAtATime /\ OncePerWindow /\ DailyCapped
=============================================================================
