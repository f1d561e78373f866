---------------------------- MODULE Limits_proofs ----------------------------
(***************************************************************************)
(* What the components that limit what goes out keep, for any of their     *)
(* constants: Threat (notices and verdicts) and, after it, Mail (budgets   *)
(* and the ceiling).  Both count the entries of a queue whose head is      *)
(* popped as it ages.                                                      *)
(***************************************************************************)
EXTENDS Threat, Mail, FiniteSetTheorems, SequenceTheorems, TLAPS

Snapshots == [start : Times, hot : BOOLEAN]
Maybe == Snapshots \cup {None}
Runs == [at : {"none", "new", "posting", "answered", "telling", "over", "dead"},
         about : Times \cup {None}]
Began == [call : Nat, about : Times, at : Times]

TypeCounters ==
    /\ now \in Times
    /\ window \in Snapshots
    /\ completed \in Maybe
    /\ reading \in [Producers -> Times \cup {None}]

TypeRules ==
    /\ monitor \in [at : {"idle", "completed", "current"},
                    completed : Maybe, current : Snapshots]
    /\ alerted \in Times \cup {None}
    /\ checked \in Times \cup {None}

TypeClient ==
    /\ inFlight \in BOOLEAN
    /\ done \in BOOLEAN
    /\ generation \in Nat
    /\ run \in [Calls -> Runs]
    /\ timer \in [Calls -> {"off", "armed", "fired", "telling"}]
    /\ notices \in [Times -> Nat]
    /\ began \subseteq Began

Typed == TypeCounters /\ TypeRules /\ TypeClient

(* Was window w alerted, or passed over for a later one?                   *)
Reached(w) == alerted # None /\ w <= alerted

(* Clocks are read before they are used, windows follow each other, and no *)
(* window is alerted before it has begun.                                  *)
Timely ==
    /\ window.start <= now
    /\ \A p \in Producers : reading[p] # None => reading[p] <= now
    /\ completed # None => completed.start < window.start
    /\ alerted # None => alerted <= window.start

(* A completed window older than the alerted one has had its check.        *)
Looked(snapshot) ==
    (alerted # None /\ snapshot # None /\ alerted > snapshot.start)
        => checked = snapshot.start

(* The check under way saw two windows that followed each other; since     *)
(* then they have stayed, or the later one is over.                        *)
Snapped ==
    LET before == monitor.completed
        start == monitor.current.start
    IN  monitor.at # "idle" =>
            /\ before # None => before.start < start
            /\ start <= window.start
            /\ alerted # None => alerted <= start
            /\ \/ completed = before /\ window.start = start
               \/ completed # None /\ completed.start >= start
            /\ Looked(before)
            /\ monitor.at = "current" /\ before # None => checked = before.start

Windows == Timely /\ Looked(completed) /\ Snapped

Called(g) == run[g].at # "none"
Ongoing(g) == run[g].at \in {"new", "posting", "answered", "dead"}

(* A call may still send its notice: its answer or its timer has won, or   *)
(* it is the last call and neither has.                                    *)
MayTell(g) ==
    \/ run[g].at = "telling"
    \/ timer[g] = "telling"
    \/ Called(g) /\ g = generation /\ ~done

(* Only the last call is under way, and one of its two ends wins.          *)
CallsSound ==
    \A g \in Calls :
        /\ Called(g) => /\ g <= generation
                        /\ run[g].about \in Times
                        /\ Reached(run[g].about)
        /\ ~Called(g) => timer[g] = "off"
        /\ Ongoing(g) => g = generation /\ inFlight
        /\ Called(g) /\ g = generation /\ ~done => Ongoing(g)
        /\ timer[g] = "telling" =>
            (g # generation \/ done) /\ run[g].at # "telling"

OneCallEach ==
    /\ \A g, h \in Calls :
        Called(g) /\ Called(h) /\ run[g].about = run[h].about => g = h
    /\ \A b \in began : Reached(b.about)
    /\ OncePerWindow

Untold ==
    /\ \A w \in Times : notices[w] > 0 => Reached(w)
    /\ \A g \in Calls : MayTell(g) => notices[run[g].about] = 0

NoticesInv == Typed /\ Windows /\ CallsSound /\ OneCallEach /\ Untold /\ ToldOnce
-----------------------------------------------------------------------------
LEMMA InitNotices == Init => NoticesInv
<1>1. SUFFICES ASSUME Init PROVE NoticesInv
  OBVIOUS
<1>2. 0 \in Times
  BY ThreatOK DEF Times
<1>3. Fresh(0) \in Snapshots /\ Fresh(0).start = 0
  BY <1>2 DEF Fresh, Snapshots
<1>4. Typed
  BY <1>1, <1>2, <1>3 DEF Init, Typed, TypeCounters, TypeRules, TypeClient, Resting,
    Maybe, Runs
<1>5. Windows
  BY <1>1, <1>2, <1>3 DEF Init, Windows, Timely, Looked, Snapped, Resting, Times
<1>6. CallsSound /\ OneCallEach
  BY <1>1 DEF Init, CallsSound, Called, Ongoing, OneCallEach, OncePerWindow
<1>7. Untold /\ ToldOnce
  BY <1>1 DEF Init, Untold, MayTell, Called, ToldOnce
<1>8. QED
  BY <1>4, <1>5, <1>6, <1>7 DEF NoticesInv

(* Rolling the window: it stays, or it is the completed one and a later    *)
(* one has begun.                                                          *)
LEMMA Rolled ==
    ASSUME TypeCounters, Timely, NEW t \in Times, t <= now
    PROVE  /\ Current(t) \in Snapshots /\ Completed(t) \in Maybe
           /\ \/ Current(t) = window /\ Completed(t) = completed
              \/ /\ Current(t).start = t /\ window.start < t
                 /\ Completed(t) = window
BY ThreatOK DEF TypeCounters, Timely, Current, Completed, Over, Fresh, Snapshots,
    Maybe, Times
-----------------------------------------------------------------------------
(* What a check does: nothing, or it alerts a window later than any yet.   *)
AlertsFor(w) == w \in Times /\ ~Reached(w) /\ alerted' = w /\ Assess(w)

LEMMA ChecksAlert ==
    ASSUME NoticesInv, CheckCompleted \/ CheckCurrent
    PROVE  Quiet \/ \E w \in Times : AlertsFor(w)
<1>1. ASSUME NEW s \in Snapshots, Look(s), s.start # alerted => ~Reached(s.start)
      PROVE  Quiet \/ \E w \in Times : AlertsFor(w)
  BY <1>1 DEF Look, AlertsFor, Snapshots
<1>2. Typed /\ Snapped
  BY DEF NoticesInv, Windows
<1>3. CASE CheckCompleted
  <2>1. CASE monitor.completed = None \/ monitor.completed.start = checked
    BY <1>3, <2>1 DEF CheckCompleted
  <2>2. CASE monitor.completed # None /\ monitor.completed.start # checked
    <3>1. Look(monitor.completed)
      BY <1>3, <2>2 DEF CheckCompleted
    <3>2. monitor.completed \in Snapshots
      BY <1>2, <2>2 DEF Typed, TypeRules, Maybe
    <3>3. Looked(monitor.completed)
      BY <1>2, <1>3 DEF Snapped, CheckCompleted
    <3>4. monitor.completed.start # alerted => ~Reached(monitor.completed.start)
      BY <1>2, <2>2, <3>2, <3>3
      DEF Looked, Reached, Snapshots, Typed, TypeRules, Times
    <3>5. QED
      BY <1>1, <3>1, <3>2, <3>4
  <2>3. QED
    BY <2>1, <2>2
<1>4. CASE CheckCurrent
  <2>1. Look(monitor.current)
    BY <1>4 DEF CheckCurrent
  <2>2. monitor.current \in Snapshots
    BY <1>2 DEF Typed, TypeRules
  <2>3. alerted # None => alerted <= monitor.current.start
    BY <1>2, <1>4 DEF Snapped, CheckCurrent
  <2>4. monitor.current.start # alerted => ~Reached(monitor.current.start)
    BY <1>2, <2>2, <2>3 DEF Reached, Snapshots, Typed, TypeRules, Times
  <2>5. QED
    BY <1>1, <2>1, <2>2, <2>4
<1>5. QED
  BY <1>3, <1>4

(* Alerting a window tells it at once, begins a call about it, or neither  *)
(* could begin one and tells it.                                           *)
Tells(w) ==
    /\ notices' = [notices EXCEPT ![w] = @ + 1]
    /\ UNCHANGED <<inFlight, done, generation, run, timer, began>>
Begins(w) ==
    /\ generation' = generation + 1
    /\ run' = [run EXCEPT ![generation'] = [at |-> "new", about |-> w]]
    /\ began' = began \cup {[call |-> generation', about |-> w, at |-> now]}
    /\ ~inFlight /\ inFlight' = TRUE /\ done' = FALSE
    /\ UNCHANGED <<timer, notices>>
Stalls(w) ==
    /\ generation' = generation + 1
    /\ notices' = [notices EXCEPT ![w] = @ + 1]
    /\ ~inFlight /\ inFlight' = TRUE /\ done' = FALSE
    /\ UNCHANGED <<run, timer, began>>

LEMMA AssessCases ==
    ASSUME NEW w, Assess(w)
    PROVE  Tells(w) \/ Begins(w) \/ Stalls(w)
<1>1. CASE \/ assessed # None /\ w <= assessed
           \/ Len(Pruned) >= DayCap
           \/ inFlight
  BY <1>1 DEF Assess, Tell, Tells, client
<1>2. CASE ~(\/ assessed # None /\ w <= assessed
             \/ Len(Pruned) >= DayCap
             \/ inFlight)
  <2>1. Submit(w, Pruned)
    BY <1>2 DEF Assess
  <2>2. QED
    BY <1>2, <2>1 DEF Submit, Tell, Begins, Stalls
<1>3. QED
  BY <1>1, <1>2

(* An alerted window is above those reached before.                        *)
LEMMA AlertedLast ==
    ASSUME TypeRules, NEW w, AlertsFor(w)
    PROVE  /\ Reached(w)'
           /\ \A v \in Times : Reached(v) => Reached(v)' /\ v # w
BY ThreatOK DEF TypeRules, AlertsFor, Reached, Times

LEMMA TellsSound ==
    ASSUME NoticesInv, NEW w, AlertsFor(w), Tells(w)
    PROVE  (TypeClient /\ CallsSound /\ OneCallEach /\ Untold /\ ToldOnce)'
<1>1. /\ TypeRules /\ TypeClient /\ CallsSound /\ OneCallEach
      /\ Untold /\ ToldOnce /\ w \in Times /\ ~Reached(w)
  BY DEF NoticesInv, Typed, AlertsFor
<1>2. /\ Reached(w)'
      /\ \A v \in Times : Reached(v) => Reached(v)' /\ v # w
  BY <1>1, AlertedLast
<1>3. /\ UNCHANGED <<inFlight, done, generation, run, timer, began>>
      /\ notices' \in [Times -> Nat]
      /\ notices[w] = 0 /\ notices'[w] = 1
      /\ \A v \in Times \ {w} : notices'[v] = notices[v]
  BY <1>1 DEF Tells, TypeClient, Untold
<1>4. TypeClient'
  BY <1>1, <1>3 DEF TypeClient
<1>5. CallsSound'
  BY <1>1, <1>2, <1>3 DEF CallsSound, Called, Ongoing
<1>6. OneCallEach'
  BY <1>1, <1>2, <1>3 DEF OneCallEach, OncePerWindow, Called, TypeClient, Began
<1>7. Untold'
  <2>1. ASSUME NEW g \in Calls, MayTell(g)
        PROVE  run[g].about \in Times /\ run[g].about # w
    BY <1>1, <1>2, <2>1 DEF CallsSound, MayTell, Called
  <2>2. ASSUME NEW g \in Calls, MayTell(g)'
        PROVE  notices'[run'[g].about] = 0
    BY <1>1, <1>3, <2>1, <2>2 DEF Untold, MayTell, Called
  <2>3. ASSUME NEW v \in Times, notices'[v] > 0
        PROVE  Reached(v)'
    BY <1>1, <1>2, <1>3, <2>3 DEF Untold
  <2>4. QED
    BY <2>2, <2>3 DEF Untold
<1>8. ToldOnce'
  BY <1>1, <1>3 DEF ToldOnce
<1>9. QED
  BY <1>4, <1>5, <1>6, <1>7, <1>8

LEMMA BeginsSound ==
    ASSUME NoticesInv, NEW w, AlertsFor(w), Begins(w)
    PROVE  (TypeClient /\ CallsSound /\ OneCallEach /\ Untold /\ ToldOnce)'
<1> DEFINE new == generation + 1
<1>1. /\ TypeRules /\ TypeClient /\ CallsSound /\ OneCallEach /\ now \in Times
      /\ Untold /\ ToldOnce /\ w \in Times /\ ~Reached(w)
  BY DEF NoticesInv, Typed, TypeCounters, AlertsFor
<1>2. /\ Reached(w)'
      /\ \A v \in Times : Reached(v) => Reached(v)' /\ v # w
  BY <1>1, AlertedLast
<1>3. /\ generation' = new /\ new \in Nat /\ new > generation
      /\ \A g \in Calls \ {new} : run'[g] = run[g]
      /\ new \in Calls => run'[new] = [at |-> "new", about |-> w]
      /\ run' \in [Calls -> Runs]
      /\ ~inFlight /\ inFlight' = TRUE /\ done' = FALSE
      /\ timer' = timer /\ notices' = notices
      /\ began' = began \cup {[call |-> new, about |-> w, at |-> now]}
  <2>1. generation' = new /\ new \in Nat /\ new > generation
    BY <1>1 DEF Begins, TypeClient
  <2>2. /\ ~inFlight /\ inFlight' = TRUE /\ done' = FALSE
        /\ timer' = timer /\ notices' = notices
        /\ began' = began \cup {[call |-> new, about |-> w, at |-> now]}
        /\ run' = [run EXCEPT ![new] = [at |-> "new", about |-> w]]
    BY <2>1, Zenon DEF Begins
  <2>3. run \in [Calls -> Runs] /\ [at |-> "new", about |-> w] \in Runs
    BY <1>1 DEF TypeClient, Runs
  <2>4. QED
    BY <2>1, <2>2, <2>3
<1>4. \A g \in Calls : Called(g) => g # new
  BY <1>1, <1>3 DEF CallsSound, TypeClient, Calls
<1>5. TypeClient'
  <2>1. began' \subseteq Began
    BY <1>1, <1>3 DEF TypeClient, Began
  <2>2. inFlight' \in BOOLEAN /\ done' \in BOOLEAN
    BY <1>3
  <2>3. QED
    BY <1>1, <1>3, <2>1, <2>2 DEF TypeClient
<1>6. CallsSound'
  <2>1. ASSUME NEW g \in Calls \ {new}
        PROVE  /\ run'[g] = run[g] /\ timer'[g] = timer[g]
               /\ Called(g) => /\ g <= generation' /\ run[g].about \in Times
                               /\ Reached(run[g].about)'
               /\ ~Called(g) => timer[g] = "off"
               /\ ~Ongoing(g)
               /\ g # generation'
               /\ timer[g] = "telling" => run[g].at # "telling"
    BY <1>1, <1>2, <1>3 DEF CallsSound, TypeClient, Calls
  <2>2. new \in Calls => timer[new] = "off"
    BY <1>1, <1>4 DEF CallsSound
  <2>3. QED
    BY <1>2, <1>3, <1>1, <2>1, <2>2 DEF CallsSound, Called, Ongoing
<1>7. OneCallEach'
  <2>1. \A g \in Calls : Called(g) => run[g].about # w
    BY <1>1, <1>2 DEF CallsSound
  <2>2. \A g, h \in Calls :
          (Called(g) /\ Called(h) /\ run[g].about = run[h].about => g = h)'
    BY <1>1, <1>3, <2>1 DEF OneCallEach, Called
  <2>3. \A b \in began : b.about \in Times /\ b.about # w /\ Reached(b.about)'
    BY <1>1, <1>2 DEF OneCallEach, TypeClient, Began
  <2>4. QED
    BY <1>1, <1>2, <1>3, <2>2, <2>3 DEF OneCallEach, OncePerWindow
<1>8. Untold'
  <2>1. ASSUME NEW v \in Times, notices'[v] > 0
        PROVE  Reached(v)'
    BY <1>1, <1>2, <1>3, <2>1 DEF Untold
  <2>2. ASSUME NEW g \in Calls, MayTell(g)'
        PROVE  notices'[run'[g].about] = 0
    <3>1. CASE g = new
      BY <1>1, <1>3, <3>1 DEF Untold, TypeClient
    <3>2. CASE g # new
      BY <1>1, <1>3, <2>2, <3>2 DEF Untold, MayTell, Called
    <3>3. QED
      BY <3>1, <3>2
  <2>3. QED
    BY <2>1, <2>2 DEF Untold
<1>9. ToldOnce'
  BY <1>1, <1>3 DEF ToldOnce
<1>10. QED
  BY <1>5, <1>6, <1>7, <1>8, <1>9

LEMMA StallsSound ==
    ASSUME NoticesInv, NEW w, AlertsFor(w), Stalls(w)
    PROVE  (TypeClient /\ CallsSound /\ OneCallEach /\ Untold /\ ToldOnce)'
<1>1. /\ TypeRules /\ TypeClient /\ CallsSound /\ OneCallEach
      /\ Untold /\ ToldOnce /\ w \in Times /\ ~Reached(w)
  BY DEF NoticesInv, Typed, AlertsFor
<1>2. /\ Reached(w)'
      /\ \A v \in Times : Reached(v) => Reached(v)' /\ v # w
  BY <1>1, AlertedLast
<1>3. /\ generation' = generation + 1
      /\ UNCHANGED <<run, timer, began>>
      /\ ~inFlight /\ inFlight' = TRUE /\ done' = FALSE
      /\ notices' \in [Times -> Nat]
      /\ notices[w] = 0 /\ notices'[w] = 1
      /\ \A v \in Times \ {w} : notices'[v] = notices[v]
  BY <1>1 DEF Stalls, TypeClient, Untold
<1>4. TypeClient'
  <2>1. inFlight' \in BOOLEAN /\ done' \in BOOLEAN
    BY <1>3
  <2>2. generation' \in Nat
    BY <1>1, <1>3 DEF TypeClient
  <2>3. QED
    BY <1>1, <1>3, <2>1, <2>2 DEF TypeClient
<1>5. CallsSound'
  BY <1>1, <1>2, <1>3 DEF CallsSound, Called, Ongoing, TypeClient, Calls
<1>6. OneCallEach'
  BY <1>1, <1>2, <1>3 DEF OneCallEach, OncePerWindow, Called, TypeClient, Began,
    CallsSound
<1>7. Untold'
  <2>1. ASSUME NEW v \in Times, notices'[v] > 0
        PROVE  Reached(v)'
    BY <1>1, <1>2, <1>3, <2>1 DEF Untold
  <2>2. ASSUME NEW g \in Calls, MayTell(g)'
        PROVE  notices'[run'[g].about] = 0
    <3>1. MayTell(g)
      BY <1>1, <1>3, <2>2 DEF MayTell, Called, CallsSound, TypeClient, Calls
    <3>2. run[g].about \in Times /\ run[g].about # w
      BY <1>1, <1>2, <3>1 DEF CallsSound, MayTell, Called
    <3>3. QED
      BY <1>1, <1>3, <3>1, <3>2 DEF Untold
  <2>3. QED
    BY <2>1, <2>2 DEF Untold
<1>8. ToldOnce'
  BY <1>1, <1>3 DEF ToldOnce
<1>9. QED
  BY <1>4, <1>5, <1>6, <1>7, <1>8

(* The client's part of the invariant holds while only the counters, the   *)
(* monitor's clock or its snapshots change.                                *)
LEMMA Apart1 ==
    ASSUME NoticesInv, UNCHANGED <<alerted, client, notices, began>>
    PROVE  (TypeClient /\ CallsSound /\ OneCallEach /\ Untold /\ ToldOnce)'
BY DEF NoticesInv, Typed, TypeClient, CallsSound, OneCallEach, OncePerWindow,
    Untold, ToldOnce, Called, Ongoing, MayTell, Reached, client

LEMMA TimeStep ==
    ASSUME NoticesInv, Tick \/ \E p \in Producers : ReadClock(p)
    PROVE  NoticesInv'
<1>1. TypeCounters /\ TypeRules /\ Timely /\ Looked(completed) /\ Snapped
  BY DEF NoticesInv, Typed, Windows
<1>2. UNCHANGED <<window, completed, monitor, alerted, checked, client, notices, began>>
  BY DEF Tick, ReadClock, counters, rules
<1>3. TypeCounters' /\ Timely'
  <2>1. CASE Tick
    BY <1>1, <2>1, ThreatOK DEF Tick, TypeCounters, Timely, Times, counters, rules,
      Snapshots
  <2>2. CASE \E p \in Producers : ReadClock(p)
    <3>1. PICK p \in Producers : ReadClock(p)
      BY <2>2
    <3>2. reading' = [reading EXCEPT ![p] = now] /\ now' = now
      BY <3>1 DEF ReadClock
    <3>3. TypeCounters'
      BY <1>1, <1>2, <3>2 DEF TypeCounters
    <3>4. \A q \in Producers : reading'[q] # None => reading'[q] <= now'
      BY <1>1, <3>2 DEF TypeCounters, Timely, Times
    <3>5. QED
      BY <1>1, <1>2, <3>2, <3>3, <3>4 DEF Timely
  <2>3. QED
    BY <2>1, <2>2
<1>4. TypeRules' /\ Looked(completed)' /\ Snapped'
  BY <1>1, <1>2 DEF TypeRules, Looked, Snapped
<1>5. (TypeClient /\ CallsSound /\ OneCallEach /\ Untold /\ ToldOnce)'
  BY <1>2, Apart1
<1>6. QED
  BY <1>3, <1>4, <1>5 DEF NoticesInv, Typed, Windows

LEMMA IncrementStep ==
    ASSUME NoticesInv, NEW p \in Producers, Increment(p)
    PROVE  NoticesInv'
<1> DEFINE t == reading[p]
<1>1. TypeCounters /\ TypeRules /\ Timely /\ Looked(completed) /\ Snapped
  BY DEF NoticesInv, Typed, Windows
<1>2. t \in Times /\ t <= now
  BY <1>1 DEF Increment, TypeCounters, Timely
<1>3. /\ Current(t) \in Snapshots /\ Completed(t) \in Maybe
      /\ \/ Current(t) = window /\ Completed(t) = completed
         \/ /\ Current(t).start = t /\ window.start < t
            /\ Completed(t) = window
  BY <1>1, <1>2, Rolled
<1>4. /\ completed' = Completed(t)
      /\ window' \in Snapshots /\ window'.start = Current(t).start
      /\ reading' = [reading EXCEPT ![p] = None]
      /\ UNCHANGED <<now, monitor, alerted, checked, client, notices, began>>
  <2>1. PICK hot \in {Current(t).hot, TRUE} :
            window' = [Current(t) EXCEPT !.hot = hot]
    BY DEF Increment
  <2>2. hot \in BOOLEAN
    BY <1>3, <2>1 DEF Snapshots
  <2>3. QED
    BY <1>3, <2>1, <2>2 DEF Increment, Snapshots, rules
<1>5. TypeCounters'
  BY <1>1, <1>3, <1>4 DEF TypeCounters
<1>6. \A q \in Producers : reading'[q] # None => reading'[q] <= now'
  BY <1>1, <1>4 DEF TypeCounters, Timely
<1>7. (Timely /\ Looked(completed) /\ Snapped)'
  <2>1. CASE Current(t) = window /\ Completed(t) = completed
    BY <1>1, <1>4, <1>6, <2>1 DEF Timely, Looked, Snapped
  <2>2. CASE /\ Current(t).start = t /\ window.start < t
             /\ Completed(t) = window
    <3>1. window.start \in Times /\ alerted \in Times \cup {None}
      BY <1>1 DEF TypeCounters, TypeRules, Snapshots
    <3>2. window # None
      BY <1>1, ThreatOK DEF TypeCounters, Snapshots
    <3>3. Timely'
      BY <1>1, <1>2, <1>4, <1>6, <2>2, <3>1 DEF Timely, Times
    <3>4. Looked(completed)'
      BY <1>1, <1>4, <2>2, <3>1 DEF Timely, Looked, Times
    <3>5. monitor.current.start \in Times
      BY <1>1 DEF TypeRules, Snapshots
    <3>6. Snapped'
      BY <1>1, <1>2, <1>4, <2>2, <3>1, <3>2, <3>5 DEF Snapped, Looked, Times
    <3>7. QED
      BY <3>3, <3>4, <3>6
  <2>3. QED
    BY <1>3, <2>1, <2>2
<1>8. TypeRules'
  BY <1>1, <1>4 DEF TypeRules
<1>9. (TypeClient /\ CallsSound /\ OneCallEach /\ Untold /\ ToldOnce)'
  BY <1>4, Apart1
<1>10. QED
  BY <1>5, <1>7, <1>8, <1>9 DEF NoticesInv, Typed, Windows

LEMMA CheckStep ==
    ASSUME NoticesInv, Check
    PROVE  NoticesInv'
<1>1. TypeCounters /\ TypeRules /\ Timely /\ Looked(completed) /\ Snapped
  BY DEF NoticesInv, Typed, Windows
<1>2. now \in Times /\ now <= now
  BY <1>1 DEF TypeCounters, Times
<1>3. /\ Current(now) \in Snapshots /\ Completed(now) \in Maybe
      /\ \/ Current(now) = window /\ Completed(now) = completed
         \/ /\ Current(now).start = now /\ window.start < now
            /\ Completed(now) = window
  BY <1>1, <1>2, Rolled
<1>4. /\ window' = Current(now) /\ completed' = Completed(now)
      /\ monitor' = [at |-> "completed", completed |-> completed',
                     current |-> window']
      /\ UNCHANGED <<now, reading, alerted, checked, client, notices, began>>
  BY DEF Check
<1>5. TypeCounters' /\ TypeRules'
  BY <1>1, <1>3, <1>4 DEF TypeCounters, TypeRules
<1>6. (Timely /\ Looked(completed))'
  <2>1. window.start \in Times /\ alerted \in Times \cup {None}
    BY <1>1 DEF TypeCounters, TypeRules, Snapshots
  <2>2. QED
    BY <1>1, <1>2, <1>3, <1>4, <2>1 DEF Timely, Looked, Times
<1>7. Snapped'
  <2>1. monitor'.completed = completed' /\ monitor'.current = window'
    BY <1>4
  <2>2. monitor'.at # "current"
    BY <1>4
  <2>3. window'.start \in Int
    BY <1>5 DEF TypeCounters, Snapshots, Times
  <2>4. QED
    BY <1>6, <2>1, <2>2, <2>3 DEF Snapped, Timely, Looked
<1>8. (TypeClient /\ CallsSound /\ OneCallEach /\ Untold /\ ToldOnce)'
  BY <1>4, Apart1
<1>9. QED
  BY <1>5, <1>6, <1>7, <1>8 DEF NoticesInv, Typed, Windows

(* The client's part, when a check alerts.                                 *)
LEMMA AlertSound ==
    ASSUME NoticesInv, CheckCompleted \/ CheckCurrent
    PROVE  /\ (TypeClient /\ CallsSound /\ OneCallEach /\ Untold /\ ToldOnce)'
           /\ alerted' \in Times \cup {None}
<1>1. CASE Quiet
  <2>1. UNCHANGED <<alerted, client, notices, began>>
    BY <1>1 DEF Quiet
  <2>2. alerted' \in Times \cup {None}
    BY <2>1 DEF NoticesInv, Typed, TypeRules
  <2>3. QED
    BY <2>1, <2>2, Apart1
<1>2. CASE \E w \in Times : AlertsFor(w)
  <2>1. PICK w \in Times : AlertsFor(w)
    BY <1>2
  <2>2. Tells(w) \/ Begins(w) \/ Stalls(w)
    BY <2>1, AssessCases DEF AlertsFor
  <2>3. QED
    BY <2>1, <2>2, TellsSound, BeginsSound, StallsSound DEF AlertsFor
<1>3. QED
  BY <1>1, <1>2, ChecksAlert

LEMMA CheckCompletedStep ==
    ASSUME NoticesInv, CheckCompleted
    PROVE  NoticesInv'
<1> DEFINE before == monitor.completed
           start == monitor.current.start
<1>1. TypeCounters /\ TypeRules /\ Timely /\ Looked(completed) /\ Snapped
  BY DEF NoticesInv, Typed, Windows
<1>2. /\ (TypeClient /\ CallsSound /\ OneCallEach /\ Untold /\ ToldOnce)'
      /\ alerted' \in Times \cup {None}
  BY AlertSound
<1>3. /\ monitor.at = "completed"
      /\ monitor' = [monitor EXCEPT !.at = "current"]
      /\ UNCHANGED <<now, window, completed, reading>>
  BY DEF CheckCompleted, counters
<1>4. /\ before = None => alerted' = alerted /\ checked' = checked
      /\ before # None => /\ checked' = before.start
                         /\ alerted' \in {alerted, before.start}
  BY DEF CheckCompleted, Quiet, Look
<1>5. /\ before # None => before \in Snapshots /\ before.start \in Times
      /\ start \in Times /\ window.start \in Times
      /\ alerted \in Times \cup {None}
      /\ completed # None => completed.start \in Times
  BY <1>1 DEF TypeRules, TypeCounters, Maybe, Snapshots
<1>6. /\ before # None => before.start < start
      /\ start <= window.start
      /\ alerted # None => alerted <= start
      /\ \/ completed = before /\ window.start = start
         \/ completed # None /\ completed.start >= start
      /\ Looked(before)
  BY <1>1, <1>3 DEF Snapped
<1>7. TypeCounters' /\ TypeRules'
  <2>1. monitor' \in [at : {"idle", "completed", "current"},
                      completed : Maybe, current : Snapshots]
    BY <1>1, <1>3 DEF TypeRules
  <2>2. checked' \in Times \cup {None}
    BY <1>1, <1>4, <1>5 DEF TypeRules
  <2>3. QED
    BY <1>1, <1>2, <1>3, <2>1, <2>2 DEF TypeCounters, TypeRules
<1>8. alerted' # None => alerted' <= start
  BY <1>4, <1>5, <1>6 DEF Times
<1>9. Timely'
  BY <1>1, <1>2, <1>3, <1>5, <1>6, <1>8 DEF Timely, Times
<1>10. Looked(completed)'
  <2>1. CASE before = None
    BY <1>1, <1>3, <1>4, <2>1 DEF Looked
  <2>2. CASE before # None /\ completed = before
    BY <1>3, <1>4, <2>2 DEF Looked
  <2>3. CASE completed # None /\ completed.start >= start
    BY <1>2, <1>3, <1>5, <1>8, <2>3 DEF Looked, Times
  <2>4. QED
    BY <1>6, <2>1, <2>2, <2>3
<1>11. Snapped'
  <2>1. monitor'.completed = before /\ monitor'.current.start = start
    BY <1>1, <1>3 DEF TypeRules
  <2>2. before # None => checked' = before.start
    BY <1>4
  <2>3. QED
    BY <1>3, <1>6, <1>8, <2>1, <2>2 DEF Snapped, Looked
<1>12. QED
  BY <1>2, <1>7, <1>9, <1>10, <1>11 DEF NoticesInv, Typed, Windows

LEMMA CheckCurrentStep ==
    ASSUME NoticesInv, CheckCurrent
    PROVE  NoticesInv'
<1> DEFINE before == monitor.completed
           start == monitor.current.start
<1>1. TypeCounters /\ TypeRules /\ Timely /\ Looked(completed) /\ Snapped
  BY DEF NoticesInv, Typed, Windows
<1>2. /\ (TypeClient /\ CallsSound /\ OneCallEach /\ Untold /\ ToldOnce)'
      /\ alerted' \in Times \cup {None}
  BY AlertSound
<1>3. /\ monitor.at = "current" /\ monitor' = Resting
      /\ UNCHANGED <<now, window, completed, reading, checked>>
      /\ alerted' \in {alerted, start}
  BY DEF CheckCurrent, counters, Quiet, Look
<1>4. /\ start \in Times /\ window.start \in Times
      /\ alerted \in Times \cup {None}
      /\ completed # None => completed.start \in Times
  BY <1>1 DEF TypeRules, TypeCounters, Maybe, Snapshots
<1>5. /\ start <= window.start
      /\ alerted # None => alerted <= start
      /\ \/ completed = before
         \/ completed # None /\ completed.start >= start
      /\ before # None => checked = before.start
  BY <1>1, <1>3 DEF Snapped
<1>6. Resting \in [at : {"idle", "completed", "current"},
                   completed : Maybe, current : Snapshots]
  BY ThreatOK DEF Resting, Maybe, Fresh, Snapshots, Times
<1>7. TypeCounters' /\ TypeRules'
  BY <1>1, <1>2, <1>3, <1>6 DEF TypeCounters, TypeRules
<1>8. alerted' # None => alerted' <= start
  BY <1>3, <1>4, <1>5 DEF Times
<1>9. Timely'
  BY <1>1, <1>2, <1>3, <1>4, <1>5, <1>8 DEF Timely, Times
<1>10. Looked(completed)'
  BY <1>2, <1>3, <1>4, <1>5, <1>8 DEF Looked, Times
<1>11. Snapped'
  BY <1>3 DEF Snapped, Resting
<1>12. QED
  BY <1>2, <1>7, <1>9, <1>10, <1>11 DEF NoticesInv, Typed, Windows
-----------------------------------------------------------------------------
(* The steps of a call's thread and of its timer leave the windows alone.  *)
LEMMA Apart2 ==
    ASSUME NoticesInv, Apart
    PROVE  (TypeCounters /\ TypeRules /\ Windows)'
BY DEF NoticesInv, Typed, Windows, TypeCounters, TypeRules, Timely, Looked, Snapped,
    Apart, counters, rules

(* They leave what a call is about alone, and tell nothing.                *)
Hushed(g) ==
    /\ Apart
    /\ notices' = notices
    /\ inFlight' \in BOOLEAN /\ done' \in BOOLEAN
    /\ run' \in [Calls -> Runs]
    /\ timer' \in [Calls -> {"off", "armed", "fired", "telling"}]
    /\ \A h \in Calls \ {g} : run'[h] = run[h] /\ timer'[h] = timer[h]
    /\ run'[g].about = run[g].about
    /\ Called(g) /\ run'[g].at # "none"
    /\ done => done'
    /\ MayTell(g)' => MayTell(g)

LEMMA HushedSound ==
    ASSUME NoticesInv, NEW g \in Calls, Hushed(g)
    PROVE  (TypeClient /\ OneCallEach /\ Untold /\ ToldOnce)'
<1>1. /\ TypeClient /\ CallsSound /\ OneCallEach /\ Untold /\ ToldOnce
      /\ UNCHANGED <<alerted, generation, began, notices>>
  BY DEF NoticesInv, Typed, Hushed, Apart, rules
<1>2. TypeClient'
  BY <1>1 DEF TypeClient, Hushed
<1>3. \A h \in Calls : /\ run'[h].about = run[h].about
                       /\ Called(h)' <=> Called(h)
                       /\ MayTell(h)' => MayTell(h)
  <2>1. ASSUME NEW h \in Calls \ {g}
        PROVE  /\ run'[h].about = run[h].about
               /\ Called(h)' <=> Called(h)
               /\ MayTell(h)' => MayTell(h)
    BY <1>1 DEF Hushed, Called, MayTell
  <2>2. QED
    BY <2>1 DEF Hushed, Called
<1>4. OneCallEach'
  BY <1>1, <1>3 DEF OneCallEach, OncePerWindow, Reached
<1>5. Untold' /\ ToldOnce'
  BY <1>1, <1>3 DEF Untold, ToldOnce, Reached
<1>6. QED
  BY <1>2, <1>4, <1>5

LEMMA StartTimerStep ==
    ASSUME NoticesInv, NEW g \in Calls, StartTimer(g)
    PROVE  NoticesInv'
<1>1. TypeClient /\ CallsSound
  BY DEF NoticesInv, Typed
<1>2. /\ \/ /\ run' = [run EXCEPT ![g].at = "posting"]
            /\ timer' = [timer EXCEPT ![g] = "armed"]
         \/ run' = [run EXCEPT ![g].at = "dead"] /\ timer' = timer
      /\ run[g].at = "new" /\ Apart
      /\ UNCHANGED <<inFlight, done, notices, generation, alerted>>
  BY DEF StartTimer, Moves, Apart, rules
<1>3. Hushed(g)
  BY <1>1, <1>2 DEF Hushed, TypeClient, Runs, Called, MayTell, CallsSound, Ongoing
<1>4. CallsSound'
  BY <1>1, <1>2 DEF CallsSound, TypeClient, Runs, Called, Ongoing, Reached
<1>5. QED
  BY <1>2, <1>3, <1>4, HushedSound, Apart2 DEF NoticesInv, Typed

LEMMA AnswerStep ==
    ASSUME NoticesInv, NEW g \in Calls, Answer(g)
    PROVE  NoticesInv'
<1>1. TypeClient /\ CallsSound
  BY DEF NoticesInv, Typed
<1>2. /\ run' = [run EXCEPT ![g].at = "answered"]
      /\ timer' = [timer EXCEPT ![g] = IF @ = "armed" THEN "off" ELSE @]
      /\ run[g].at = "posting" /\ Apart
      /\ UNCHANGED <<inFlight, done, notices, generation, alerted>>
  BY DEF Answer, Moves, Apart, rules
<1>3. Hushed(g)
  BY <1>1, <1>2 DEF Hushed, TypeClient, Runs, Called, MayTell, CallsSound, Ongoing
<1>4. CallsSound'
  BY <1>1, <1>2 DEF CallsSound, TypeClient, Runs, Called, Ongoing, Reached
<1>5. QED
  BY <1>2, <1>3, <1>4, HushedSound, Apart2 DEF NoticesInv, Typed

LEMMA FinishStep ==
    ASSUME NoticesInv, NEW g \in Calls, Finish(g)
    PROVE  NoticesInv'
<1>1. TypeClient /\ CallsSound
  BY DEF NoticesInv, Typed
<1>2. /\ run[g].at = "answered" /\ Apart /\ inFlight' = FALSE
      /\ UNCHANGED <<timer, notices, generation, alerted>>
  BY DEF Finish, Apart, rules
<1>3. g = generation /\ \A h \in Calls \ {g} : ~Ongoing(h)
  BY <1>1, <1>2 DEF CallsSound, Ongoing
<1>4. CASE ~done
  <2>1. run' = [run EXCEPT ![g].at = "telling"] /\ done' = TRUE
    BY <1>3, <1>4 DEF Finish, Moves
  <2>2. Hushed(g)
    BY <1>1, <1>2, <1>3, <1>4, <2>1 DEF Hushed, TypeClient, Runs, Called, MayTell
  <2>3. timer[g] # "telling"
    BY <1>1, <1>3, <1>4 DEF CallsSound
  <2>4. CallsSound'
    BY <1>1, <1>2, <1>3, <2>1, <2>3
    DEF CallsSound, TypeClient, Runs, Called, Ongoing, Reached
  <2>5. QED
    BY <1>2, <2>2, <2>4, HushedSound, Apart2 DEF NoticesInv, Typed
<1>5. CASE done
  <2>1. run' = [run EXCEPT ![g].at = "over"] /\ done' = done
    BY <1>5 DEF Finish, Moves
  <2>2. Hushed(g)
    BY <1>1, <1>2, <1>3, <1>5, <2>1 DEF Hushed, TypeClient, Runs, Called, MayTell
  <2>3. CallsSound'
    BY <1>1, <1>2, <1>3, <1>5, <2>1
    DEF CallsSound, TypeClient, Runs, Called, Ongoing, Reached
  <2>4. QED
    BY <1>2, <2>2, <2>3, HushedSound, Apart2 DEF NoticesInv, Typed
<1>6. QED
  BY <1>4, <1>5

LEMMA FireStep ==
    ASSUME NoticesInv, NEW g \in Calls, Fire(g)
    PROVE  NoticesInv'
<1>1. TypeClient /\ CallsSound
  BY DEF NoticesInv, Typed
<1>2. /\ timer' = [timer EXCEPT ![g] = "fired"]
      /\ timer[g] = "armed" /\ Apart
      /\ UNCHANGED <<inFlight, done, run, notices, generation, alerted>>
  BY DEF Fire, Apart, rules
<1>3. Hushed(g)
  BY <1>1, <1>2 DEF Hushed, TypeClient, Runs, Called, MayTell, CallsSound
<1>4. CallsSound'
  BY <1>1, <1>2 DEF CallsSound, TypeClient, Runs, Called, Ongoing, Reached
<1>5. QED
  BY <1>2, <1>3, <1>4, HushedSound, Apart2 DEF NoticesInv, Typed

LEMMA TimeOutStep ==
    ASSUME NoticesInv, NEW g \in Calls, TimeOut(g)
    PROVE  NoticesInv'
<1>1. TypeClient /\ CallsSound
  BY DEF NoticesInv, Typed
<1>2. /\ timer[g] = "fired" /\ Apart
      /\ UNCHANGED <<inFlight, run, notices, generation, alerted>>
  BY DEF TimeOut, Apart, rules
<1>3. Called(g)
  BY <1>1, <1>2 DEF CallsSound
<1>4. CASE g # generation \/ done
  <2>1. timer' = [timer EXCEPT ![g] = "off"] /\ done' = done
    BY <1>4 DEF TimeOut
  <2>2. Hushed(g)
    BY <1>1, <1>2, <1>3, <2>1 DEF Hushed, TypeClient, Runs, Called, MayTell
  <2>3. CallsSound'
    BY <1>1, <1>2, <1>3, <2>1
    DEF CallsSound, TypeClient, Runs, Called, Ongoing, Reached
  <2>4. QED
    BY <1>2, <2>2, <2>3, HushedSound, Apart2 DEF NoticesInv, Typed
<1>5. CASE g = generation /\ ~done
  <2>1. timer' = [timer EXCEPT ![g] = "telling"] /\ done' = TRUE
    BY <1>5 DEF TimeOut
  <2>2. Hushed(g)
    BY <1>1, <1>2, <1>3, <1>5, <2>1 DEF Hushed, TypeClient, Runs, Called, MayTell
  <2>3. run[g].at # "telling"
    BY <1>1, <1>3, <1>5 DEF CallsSound, Ongoing
  <2>4. CallsSound'
    BY <1>1, <1>2, <1>3, <1>5, <2>1, <2>3
    DEF CallsSound, TypeClient, Runs, Called, Ongoing, Reached
  <2>5. QED
    BY <1>2, <2>2, <2>4, HushedSound, Apart2 DEF NoticesInv, Typed
<1>6. QED
  BY <1>4, <1>5

(* A notice is sent: its call may not send another.                        *)
LEMMA TellingStep ==
    ASSUME NoticesInv, NEW g \in Calls, RunTells(g) \/ TimerTells(g)
    PROVE  NoticesInv'
<1> DEFINE w == run[g].about
<1>1. TypeClient /\ CallsSound /\ OneCallEach /\ Untold /\ ToldOnce
  BY DEF NoticesInv, Typed
<1>2. /\ notices' = [notices EXCEPT ![w] = @ + 1] /\ Apart
      /\ UNCHANGED <<inFlight, done, generation, alerted, began>>
      /\ MayTell(g)
      /\ \/ /\ run[g].at = "telling" /\ timer' = timer
            /\ run' = [run EXCEPT ![g].at = "over"]
         \/ /\ timer[g] = "telling" /\ run' = run
            /\ timer' = [timer EXCEPT ![g] = "off"]
  BY DEF RunTells, TimerTells, Tell, Moves, Apart, rules, MayTell
<1>3. /\ Called(g) /\ w \in Times /\ Reached(w) /\ notices[w] = 0
      /\ timer'[g] # "telling" /\ (g # generation \/ done)
      /\ run'[g].at \notin {"none", "telling"}
  BY <1>1, <1>2 DEF CallsSound, Untold, MayTell, Called, Ongoing, TypeClient, Runs
<1>4. /\ run' \in [Calls -> Runs]
      /\ timer' \in [Calls -> {"off", "armed", "fired", "telling"}]
      /\ \A h \in Calls \ {g} : run'[h] = run[h] /\ timer'[h] = timer[h]
      /\ run'[g].about = w
      /\ Called(g)'
      /\ Ongoing(g)' => Ongoing(g)
  <2>1. run \in [Calls -> Runs] /\ timer \in [Calls -> {"off", "armed", "fired", "telling"}]
    BY <1>1 DEF TypeClient
  <2>2. CASE timer' = timer /\ run' = [run EXCEPT ![g].at = "over"]
    BY <1>3, <2>1, <2>2 DEF Runs, Called, Ongoing
  <2>3. CASE run' = run /\ timer' = [timer EXCEPT ![g] = "off"]
    BY <1>3, <2>1, <2>3 DEF Called, Ongoing
  <2>4. QED
    BY <1>2, <2>2, <2>3
<1>5. /\ notices' \in [Times -> Nat] /\ notices'[w] = 1
      /\ \A v \in Times \ {w} : notices'[v] = notices[v]
  BY <1>1, <1>2, <1>3 DEF TypeClient
<1>6. TypeClient'
  BY <1>1, <1>2, <1>4, <1>5 DEF TypeClient
<1>7. CallsSound'
  BY <1>1, <1>2, <1>3, <1>4 DEF CallsSound, Called, Ongoing, Reached
<1>8. OneCallEach'
  BY <1>1, <1>2, <1>3, <1>4 DEF OneCallEach, OncePerWindow, Called, Reached
<1>9. Untold'
  <2>1. ~MayTell(g)'
    BY <1>2, <1>3 DEF MayTell
  <2>2. ASSUME NEW h \in Calls \ {g}, MayTell(h)'
        PROVE  notices'[run'[h].about] = 0
    <3>1. MayTell(h)
      BY <1>2, <1>4, <2>2 DEF MayTell, Called
    <3>2. Called(h) /\ run[h].about \in Times
      BY <1>1, <3>1 DEF CallsSound, MayTell, Called
    <3>3. run[h].about # w
      BY <1>1, <1>3, <3>2 DEF OneCallEach
    <3>4. QED
      BY <1>1, <1>4, <1>5, <3>1, <3>2, <3>3 DEF Untold
  <2>3. \A v \in Times : notices'[v] > 0 => Reached(v)'
    BY <1>1, <1>2, <1>3, <1>5 DEF Untold, Reached
  <2>4. QED
    BY <2>1, <2>2, <2>3 DEF Untold
<1>10. ToldOnce'
  BY <1>1, <1>5 DEF ToldOnce
<1>11. QED
  BY <1>2, <1>6, <1>7, <1>8, <1>9, <1>10, Apart2 DEF NoticesInv, Typed

LEMMA NextNotices == NoticesInv /\ [Next]_vars => NoticesInv'
<1>1. SUFFICES ASSUME NoticesInv, [Next]_vars PROVE NoticesInv'
  OBVIOUS
<1>2. CASE Tick \/ \E p \in Producers : ReadClock(p)
  BY <1>1, <1>2, TimeStep
<1>3. CASE \E p \in Producers : Increment(p)
  BY <1>1, <1>3, IncrementStep
<1>4. CASE Check
  BY <1>1, <1>4, CheckStep
<1>5. CASE CheckCompleted
  BY <1>1, <1>5, CheckCompletedStep
<1>6. CASE CheckCurrent
  BY <1>1, <1>6, CheckCurrentStep
<1>7. ASSUME NEW g \in Calls, Thread(g) \/ Fire(g) \/ Timer(g)
      PROVE  NoticesInv'
  BY <1>1, <1>7, StartTimerStep, AnswerStep, FinishStep, FireStep, TimeOutStep,
    TellingStep DEF Thread, Timer
<1>8. CASE UNCHANGED vars
  <2>1. UNCHANGED <<alerted, client, notices, began>>
    BY <1>8 DEF vars, rules, client
  <2>2. TypeCounters' /\ TypeRules' /\ Windows'
    BY <1>1, <1>8 DEF NoticesInv, Typed, Windows, TypeCounters, TypeRules, Timely,
      Looked, Snapped, vars, counters, rules
  <2>3. QED
    BY <1>1, <2>1, <2>2, Apart1 DEF NoticesInv, Typed
<1>9. QED
  BY <1>1, <1>2, <1>3, <1>4, <1>5, <1>6, <1>7, <1>8 DEF Next
-----------------------------------------------------------------------------
(* Counting the entries of a queue whose head is popped.                    *)
LEMMA MinOfNats ==
    ASSUME NEW S \in SUBSET Nat, S # {}
    PROVE  Min(S) \in S /\ \A y \in S : Min(S) <= y
<1>1. \E x \in S : \A y \in S : ~(<<y, x>> \in OpToRel(<, Nat))
  BY NatLessThanWellFounded, WFMin, Zenon
<1>2. PICK x \in S : \A y \in S : ~(<<y, x>> \in OpToRel(<, Nat))
  BY <1>1, Zenon
<1>3. ASSUME NEW y \in S PROVE ~(y < x)
  <2>1. <<y, x>> \notin OpToRel(<, Nat)
    BY <1>2, Zenon
  <2>2. x \in Nat /\ y \in Nat
    OBVIOUS
  <2>3. QED
    BY <2>1, <2>2, Zenon DEF OpToRel
<1>4. \A y \in S : x <= y
  BY <1>3
<1>5. QED
  BY <1>4 DEF Min

(* The entries of a sequence that are in P.                                *)
Hits(q, P) == {i \in DOMAIN q : q[i] \in P}
CountIn(q, P) == Cardinality(Hits(q, P))

LEMMA HitsFinite ==
    ASSUME NEW S, NEW q \in Seq(S), NEW P
    PROVE  /\ IsFiniteSet(Hits(q, P)) /\ CountIn(q, P) \in Nat
           /\ CountIn(q, P) <= Len(q)
<1>1. Len(q) \in Nat /\ DOMAIN q = 1 .. Len(q)
  BY LenProperties
<1>2. IsFiniteSet(1 .. Len(q)) /\ Cardinality(1 .. Len(q)) = Len(q)
  BY <1>1, FS_Interval
<1>3. Hits(q, P) \in SUBSET (1 .. Len(q))
  BY <1>1 DEF Hits
<1>4. QED
  BY <1>2, <1>3, FS_Subset, FS_CardinalityType DEF CountIn

LEMMA CountAppend ==
    ASSUME NEW S, NEW q \in Seq(S), NEW x \in S, NEW P
    PROVE  CountIn(Append(q, x), P) = CountIn(q, P) + (IF x \in P THEN 1 ELSE 0)
<1> DEFINE r == Append(q, x)
<1>1. /\ Len(q) \in Nat /\ DOMAIN q = 1 .. Len(q)
      /\ r \in Seq(S) /\ Len(r) = Len(q) + 1 /\ DOMAIN r = 1 .. Len(q) + 1
      /\ \A i \in 1 .. Len(q) : r[i] = q[i]
      /\ r[Len(q) + 1] = x
  BY LenProperties, AppendProperties
<1>2. IsFiniteSet(Hits(q, P)) /\ Len(q) + 1 \notin Hits(q, P)
  <2>1. IsFiniteSet(Hits(q, P))
    BY HitsFinite
  <2>2. QED
    BY <1>1, <2>1 DEF Hits
<1>3. CASE x \in P
  <2>1. Hits(r, P) = Hits(q, P) \cup {Len(q) + 1}
    BY <1>1, <1>3 DEF Hits
  <2>2. QED
    BY <1>2, <1>3, <2>1, FS_AddElement DEF CountIn
<1>4. CASE x \notin P
  <2>1. Hits(r, P) = Hits(q, P)
    BY <1>1, <1>4 DEF Hits
  <2>2. QED
    BY <1>4, <2>1, HitsFinite DEF CountIn
<1>5. QED
  BY <1>3, <1>4

(* Popping entries from the head.                                          *)
LEMMA CountPopped ==
    ASSUME NEW S, NEW q \in Seq(S), NEW m \in 1 .. Len(q), NEW P
    PROVE  LET r == SubSeq(q, m, Len(q))
           IN  /\ r \in Seq(S)
               /\ CountIn(r, P) <= CountIn(q, P)
               /\ (\A i \in 1 .. m - 1 : q[i] \notin P)
                    => CountIn(r, P) = CountIn(q, P)
<1> DEFINE r == SubSeq(q, m, Len(q))
           late == {i \in Hits(q, P) : i >= m}
           f == [i \in Hits(r, P) |-> i + m - 1]
<1>1. Len(q) \in Nat /\ DOMAIN q = 1 .. Len(q) /\ m \in Nat
  BY LenProperties
<1>2. /\ r \in Seq(S) /\ Len(r) = Len(q) - m + 1
      /\ DOMAIN r = 1 .. Len(q) - m + 1
      /\ \A i \in 1 .. Len(q) - m + 1 : r[i] = q[m + i - 1]
  <2>1. r = [i \in 1 .. Len(q) - m + 1 |-> q[m + i - 1]]
    BY <1>1
  <2>2. r \in Seq(S)
    BY <1>1, SubSeqProperties
  <2>3. QED
    BY <1>1, <2>1, <2>2, LenProperties
<1>3. IsFiniteSet(Hits(q, P)) /\ IsFiniteSet(Hits(r, P))
  BY <1>2, HitsFinite
<1>4. late \in SUBSET Hits(q, P) /\ IsFiniteSet(late)
      /\ Cardinality(late) <= Cardinality(Hits(q, P))
  <2>1. late \in SUBSET Hits(q, P)
    OBVIOUS
  <2>2. QED
    BY <1>3, <2>1, FS_Subset
<1>5. f \in Bijection(Hits(r, P), late)
  <2>1. \A i \in Hits(r, P) : f[i] \in late
    BY <1>1, <1>2 DEF Hits
  <2>2. \A i, j \in Hits(r, P) : f[i] = f[j] => i = j
    BY <1>1, <1>2 DEF Hits
  <2>3. ASSUME NEW j \in late PROVE \E i \in Hits(r, P) : f[i] = j
    <3>1. j - m + 1 \in Hits(r, P)
      BY <1>1, <1>2 DEF Hits
    <3>2. QED
      BY <1>1, <3>1 DEF Hits
  <2>4. QED
    BY <2>1, <2>2, <2>3 DEF Bijection, Injection, Surjection, IsInjective
<1>6. Cardinality(Hits(r, P)) = Cardinality(late)
  BY <1>3, <1>4, <1>5, FS_Bijection DEF ExistsBijection
<1>7. ASSUME \A i \in 1 .. m - 1 : q[i] \notin P PROVE late = Hits(q, P)
  BY <1>1, <1>7 DEF Hits
<1>8. QED
  BY <1>2, <1>4, <1>6, <1>7 DEF CountIn
-----------------------------------------------------------------------------
(* The daily cap.  The entries of _calls from t on, and the calls that     *)
(* began from t on, for a t the pruning has not reached.                   *)
From(t) == {u \in Times : u >= t}
BeganFrom(t) == {b \in began : b.at >= t}

CapInv ==
    /\ calls \in Seq(Times)
    /\ IsFiniteSet(began)
    /\ \A b \in began : b.at <= now
    /\ \A t \in Times :
        t > now - Day => Cardinality(BeganFrom(t)) <= CountIn(calls, From(t))
    /\ DailyCapped

LEMMA PrunedKeeps ==
    ASSUME calls \in Seq(Times), now \in Times
    PROVE  /\ Pruned \in Seq(Times)
           /\ \A t \in Times : t > now - Day =>
                CountIn(Pruned, From(t)) = CountIn(calls, From(t))
<1> DEFINE young == {i \in DOMAIN calls : now - calls[i] < Day}
<1>1. Len(calls) \in Nat /\ DOMAIN calls = 1 .. Len(calls)
  BY LenProperties
<1>2. /\ now \in Int /\ Day \in Int /\ \A t \in Times : t \in Int
      /\ \A i \in DOMAIN calls : calls[i] \in Int
  <2>1. \A i \in DOMAIN calls : calls[i] \in Times
    BY <1>1, ElementOfSeq
  <2>2. QED
    BY <2>1, ThreatOK DEF Times
<1>3. CASE young = {}
  <2>1. Pruned = <<>>
    BY <1>3 DEF Pruned
  <2>2. ASSUME NEW t \in Times, t > now - Day
        PROVE  Hits(calls, From(t)) = {}
    <3>1. \A i \in DOMAIN calls : ~(now - calls[i] < Day)
      BY <1>3
    <3>2. \A i \in DOMAIN calls : ~(calls[i] >= t)
      BY <1>1, <1>2, <2>2, <3>1
    <3>3. QED
      BY <3>2 DEF Hits, From
  <2>3. \A t \in Times : Hits(<<>>, From(t)) = {}
    BY DEF Hits
  <2>4. <<>> \in Seq(Times)
    OBVIOUS
  <2>5. QED
    BY <2>1, <2>2, <2>3, <2>4 DEF CountIn
<1>4. CASE young # {}
  <2>1. young \in SUBSET Nat
    BY <1>1
  <2>2. Min(young) \in young /\ \A i \in young : Min(young) <= i
    BY <1>4, <2>1, MinOfNats
  <2>3. Min(young) \in 1 .. Len(calls)
    BY <1>1, <2>2
  <2>4. Pruned = SubSeq(calls, Min(young), Len(calls))
    BY <1>4 DEF Pruned
  <2>5. ASSUME NEW t \in Times, t > now - Day, NEW i \in 1 .. Min(young) - 1
        PROVE  calls[i] \notin From(t)
    <3>1. Min(young) \in Nat /\ Min(young) <= Len(calls)
      BY <1>1, <2>3
    <3>2. i \in DOMAIN calls /\ i < Min(young)
      BY <1>1, <3>1
    <3>3. i \notin young
      <4>1. ASSUME i \in young PROVE FALSE
        <5>1. Min(young) <= i
          BY <2>2, <4>1
        <5>2. QED
          BY <3>1, <3>2, <5>1
      <4>2. QED
        BY <4>1
    <3>4. calls[i] \in Int /\ ~(now - calls[i] < Day)
      BY <1>2, <3>2, <3>3
    <3>5. QED
      BY <1>2, <2>5, <3>4 DEF From
  <2>6. QED
    BY <2>3, <2>4, <2>5, CountPopped
<1>5. QED
  BY <1>3, <1>4

(* What an assessment does to them.                                        *)
Counts ==
    \/ calls' = Pruned /\ began' = began
    \/ /\ Len(Pruned) < DayCap
       /\ calls' = Append(Pruned, now)
       /\ \E b \in Began : b.at = now /\ began' = began \cup {b}

LEMMA AssessCounts ==
    ASSUME NoticesInv, calls \in Seq(Times), NEW w \in Times, Assess(w)
    PROVE  Counts
<1>1. now \in Times /\ generation \in Nat
  BY DEF NoticesInv, Typed, TypeCounters, TypeClient
<1>2. Len(Pruned) \in Nat /\ DayCap \in Nat
  BY <1>1, PrunedKeeps, LenProperties, ThreatOK
<1>3. CASE \/ assessed # None /\ w <= assessed
           \/ Len(Pruned) >= DayCap
           \/ inFlight
  BY <1>3 DEF Assess, Counts
<1>4. CASE ~(\/ assessed # None /\ w <= assessed
             \/ Len(Pruned) >= DayCap
             \/ inFlight)
  <2>1. Submit(w, Pruned) /\ Len(Pruned) < DayCap
    BY <1>2, <1>4 DEF Assess
  <2>2. [call |-> generation + 1, about |-> w, at |-> now] \in Began
    BY <1>1 DEF Began
  <2>3. QED
    BY <2>1, <2>2 DEF Submit, Counts
<1>5. QED
  BY <1>3, <1>4

LEMMA CountsCapped ==
    ASSUME NoticesInv, CapInv, now' = now, Counts
    PROVE  CapInv'
<1>1. now \in Times /\ now \in Int /\ Day \in Nat \ {0} /\ DayCap \in Nat
      /\ (\A t \in Times : t \in Int) /\ (\A b \in began : b.at \in Times)
  BY ThreatOK DEF NoticesInv, Typed, TypeCounters, TypeClient, Began, Times
<1>2. /\ Pruned \in Seq(Times)
      /\ \A t \in Times : t > now - Day =>
            Cardinality(BeganFrom(t)) <= CountIn(Pruned, From(t))
  BY <1>1, PrunedKeeps DEF CapInv
<1>3. CASE calls' = Pruned /\ began' = began
  BY <1>2, <1>3 DEF CapInv, BeganFrom, DailyCapped
<1>4. CASE /\ Len(Pruned) < DayCap
           /\ calls' = Append(Pruned, now)
           /\ \E b \in Began : b.at = now /\ began' = began \cup {b}
  <2>1. PICK b \in Began : b.at = now /\ began' = began \cup {b}
    BY <1>4
  <2>2. calls' \in Seq(Times) /\ IsFiniteSet(began')
        /\ \A c \in began' : c.at \in Int /\ c.at <= now
    <3>1. calls' \in Seq(Times)
      BY <1>1, <1>2, <1>4, AppendProperties
    <3>2. IsFiniteSet(began')
      BY <2>1, FS_AddElement DEF CapInv
    <3>3. ASSUME NEW c \in began' PROVE c.at \in Int /\ c.at <= now
      <4>1. c = b \/ c \in began
        BY <2>1
      <4>2. CASE c = b
        BY <1>1, <2>1, <4>2
      <4>3. CASE c \in began
        <5>1. c.at \in Times /\ c.at <= now
          BY <1>1, <4>3 DEF CapInv
        <5>2. QED
          BY <1>1, <5>1
      <4>4. QED
        BY <4>1, <4>2, <4>3
    <3>4. QED
      BY <3>1, <3>2, <3>3
  <2>3. ASSUME NEW t \in Times, t > now - Day, t <= now
        PROVE  /\ Cardinality(BeganFrom(t)') <= CountIn(calls', From(t))
               /\ Cardinality(BeganFrom(t)') <= DayCap
    <3>1. BeganFrom(t)' = BeganFrom(t) \cup {b}
      BY <1>1, <2>1, <2>3 DEF BeganFrom
    <3>2. IsFiniteSet(BeganFrom(t))
      <4>1. BeganFrom(t) \in SUBSET began
        BY DEF BeganFrom
      <4>2. QED
        BY <4>1, FS_Subset DEF CapInv
    <3>3. Cardinality(BeganFrom(t)') <= Cardinality(BeganFrom(t)) + 1
      <4>1. Cardinality(BeganFrom(t)) \in Nat
        BY <3>2, FS_CardinalityType
      <4>2. QED
        BY <3>1, <3>2, <4>1, FS_AddElement
    <3>4. /\ CountIn(calls', From(t)) = CountIn(Pruned, From(t)) + 1
          /\ CountIn(Pruned, From(t)) \in Nat
          /\ CountIn(Pruned, From(t)) <= Len(Pruned)
      <4>1. now \in From(t)
        BY <1>1, <2>3 DEF From
      <4>2. QED
        BY <1>1, <1>2, <1>4, <4>1, CountAppend, HitsFinite
    <3>5. /\ Cardinality(BeganFrom(t)) \in Nat
          /\ Cardinality(BeganFrom(t)') \in Nat
          /\ Cardinality(BeganFrom(t)) <= CountIn(Pruned, From(t))
      BY <1>2, <2>3, <3>1, <3>2, FS_AddElement, FS_CardinalityType
    <3>6. Len(Pruned) \in Nat
      BY <1>2, LenProperties
    <3>7. QED
      BY <1>1, <1>4, <3>3, <3>4, <3>5, <3>6
  <2>4. ASSUME NEW t \in Times, t > now
        PROVE  Cardinality(BeganFrom(t)') <= CountIn(calls', From(t))
    <3>1. BeganFrom(t)' = {}
      <4>1. \A c \in began' : ~(c.at >= t)
        BY <1>1, <2>2, <2>4
      <4>2. QED
        BY <4>1 DEF BeganFrom
    <3>2. CountIn(calls', From(t)) \in Nat
      BY <2>2, HitsFinite
    <3>3. QED
      BY <3>1, <3>2, FS_EmptySet
  <2>5. ASSUME NEW t \in Times
        PROVE  Cardinality({c \in began' : c.at \in t .. t + Day - 1}) <= DayCap
    <3>1. CASE t > now - Day /\ t <= now
      <4>1. {c \in began' : c.at \in t .. t + Day - 1} = BeganFrom(t)'
        <5>1. \A c \in began' : c.at \in t .. t + Day - 1 <=> c.at >= t
          BY <1>1, <2>2, <3>1
        <5>2. QED
          BY <5>1 DEF BeganFrom
      <4>2. QED
        BY <2>3, <3>1, <4>1
    <3>2. CASE ~(t > now - Day /\ t <= now)
      <4>1. {c \in began' : c.at \in t .. t + Day - 1}
              = {c \in began : c.at \in t .. t + Day - 1}
        BY <1>1, <2>1, <3>2
      <4>2. QED
        BY <4>1 DEF CapInv, DailyCapped
    <3>3. QED
      BY <3>1, <3>2
  <2>6. \A t \in Times : t > now - Day =>
            Cardinality(BeganFrom(t)') <= CountIn(calls', From(t))
    BY <1>1, <2>3, <2>4
  <2>7. QED
    BY <2>2, <2>5, <2>6 DEF CapInv, BeganFrom, DailyCapped
<1>5. QED
  BY <1>3, <1>4 DEF Counts

(* All other steps leave the calls alone, and time does not go back.       *)
LEMMA CapKept ==
    ASSUME NoticesInv, CapInv, now' \in {now, now + 1}, UNCHANGED <<calls, began>>
    PROVE  CapInv'
<1>1. now \in Int /\ Day \in Int /\ (\A t \in Times : t \in Int)
      /\ (\A b \in began : b.at \in Times)
  BY ThreatOK DEF NoticesInv, Typed, TypeCounters, TypeClient, Began, Times
<1>2. DailyCapped'
  BY DEF CapInv, DailyCapped
<1>3. \A b \in began : b.at <= now'
  BY <1>1 DEF CapInv
<1>4. ASSUME NEW t \in Times, t > now' - Day
      PROVE  Cardinality(BeganFrom(t)') <= CountIn(calls', From(t))
  <2>1. t > now - Day
    BY <1>1, <1>4
  <2>2. QED
    BY <2>1 DEF CapInv, BeganFrom
<1>5. QED
  BY <1>2, <1>3, <1>4 DEF CapInv

LEMMA InitCap == Init => CapInv
<1>1. SUFFICES ASSUME Init PROVE CapInv
  OBVIOUS
<1>2. calls = <<>> /\ began = {}
  BY <1>1 DEF Init
<1>3. calls \in Seq(Times) /\ \A t \in Times : CountIn(calls, From(t)) \in Nat
  <2>1. calls \in Seq(Times)
    BY <1>2
  <2>2. QED
    BY <2>1, HitsFinite
<1>4. IsFiniteSet({}) /\ Cardinality({}) = 0 /\ DayCap \in Nat
  BY FS_EmptySet, ThreatOK
<1>5. /\ \A t \in Times : BeganFrom(t) = {}
      /\ \A t \in Times : {b \in began : b.at \in t .. t + Day - 1} = {}
  BY <1>2 DEF BeganFrom
<1>6. ASSUME NEW t \in Times
      PROVE  Cardinality(BeganFrom(t)) <= CountIn(calls, From(t))
  <2>1. Cardinality(BeganFrom(t)) = 0 /\ CountIn(calls, From(t)) \in Nat
    BY <1>3, <1>4, <1>5
  <2>2. QED
    BY <2>1
<1>7. DailyCapped
  BY <1>4, <1>5 DEF DailyCapped
<1>8. QED
  BY <1>2, <1>3, <1>4, <1>6, <1>7 DEF CapInv

LEMMA NextCap == NoticesInv /\ CapInv /\ [Next]_vars => CapInv'
<1>1. SUFFICES ASSUME NoticesInv, CapInv, [Next]_vars PROVE CapInv'
  OBVIOUS
<1>2. CASE Tick
  BY <1>1, <1>2, CapKept DEF Tick
<1>3. CASE CheckCompleted \/ CheckCurrent
  <2>1. now' = now
    BY <1>3 DEF CheckCompleted, CheckCurrent
  <2>2. CASE Quiet
    BY <1>1, <2>1, <2>2, CapKept DEF Quiet
  <2>3. CASE \E w \in Times : AlertsFor(w)
    <3>1. PICK w \in Times : AlertsFor(w)
      BY <2>3
    <3>2. Counts
      BY <1>1, <3>1, AssessCounts DEF AlertsFor, CapInv
    <3>3. QED
      BY <1>1, <2>1, <3>2, CountsCapped
  <2>4. QED
    BY <1>1, <1>3, <2>2, <2>3, ChecksAlert
<1>4. CASE Check \/ \E p \in Producers : ReadClock(p) \/ Increment(p)
  BY <1>1, <1>4, CapKept DEF Check, ReadClock, Increment
<1>5. ASSUME NEW g \in Calls, Thread(g) \/ Fire(g) \/ Timer(g)
      PROVE  CapInv'
  <2>1. Apart
    BY <1>5 DEF Thread, Timer, StartTimer, Answer, Finish, RunTells, Fire,
      TimeOut, TimerTells
  <2>2. QED
    BY <1>1, <2>1, CapKept DEF Apart
<1>6. CASE UNCHANGED vars
  BY <1>1, <1>6, CapKept DEF vars
<1>7. QED
  BY <1>1, <1>2, <1>3, <1>4, <1>5, <1>6 DEF Next
-----------------------------------------------------------------------------
(* What the counters, the monitor and the client keep together.            *)
THEOREM NoticesHold == Spec => []NoticesInv
BY InitNotices, NextNotices, PTL DEF Spec

(* The alerter is told of a window at most once, whatever its checks,      *)
(* its answer and its timer do, and however late (_check_snapshot, _run,   *)
(* _time_out).                                                             *)
THEOREM NoticesSentOnce == Spec => []ToldOnce
<1>1. NoticesInv => ToldOnce
  BY DEF NoticesInv
<1>2. QED
  BY <1>1, NoticesHold, PTL

(* At most one call is under way, even when its timer has long given it up *)
(* (submit).                                                               *)
THEOREM CallsOneAtATime == Spec => []OneAtATime
<1>1. ASSUME NoticesInv PROVE OneAtATime
  <2> DEFINE S == {g \in Calls : run[g].at \in {"new", "posting"}}
  <2>1. S \in SUBSET {generation}
    BY <1>1 DEF NoticesInv, CallsSound, Ongoing
  <2>2. IsFiniteSet({generation}) /\ Cardinality({generation}) = 1
    BY FS_Singleton
  <2>3. Cardinality(S) <= 1
    BY <2>1, <2>2, FS_Subset
  <2>4. QED
    BY <2>3 DEF OneAtATime
<1>2. QED
  BY <1>1, NoticesHold, PTL

(* No window is the subject of two calls (assess).                         *)
THEOREM CallsOncePerWindow == Spec => []OncePerWindow
<1>1. NoticesInv => OncePerWindow
  BY DEF NoticesInv, OneCallEach
<1>2. QED
  BY <1>1, NoticesHold, PTL

(* In no rolling day do more calls begin than DAILY_CALL_CAP, wherever the *)
(* day starts, though the entries are popped from the head as they age     *)
(* (_prune, assess).                                                       *)
THEOREM CallsInADay == Spec => []DailyCapped
<1>1. CapInv => DailyCapped
  BY DEF CapInv
<1>2. QED
  BY <1>1, InitCap, NextCap, NoticesHold, PTL DEF Spec

(* The verdicts stay cheap: one call at a time, one per window, DayCap a   *)
(* day (assess, submit).                                                   *)
THEOREM CallsStayCapped == Spec => []CallsCapped
<1>1. OneAtATime /\ OncePerWindow /\ DailyCapped => CallsCapped
  BY DEF CallsCapped
<1>2. QED
  BY <1>1, CallsOneAtATime, CallsOncePerWindow, CallsInADay, PTL
-----------------------------------------------------------------------------
MailTimes == 0 .. MaxClock
Keys == Sources \cup {Global}
Row == [key : Keys, at : MailTimes, nth : Nat]
Entries == [at : MailTimes, priority : BOOLEAN]
Others == {e \in Entries : ~e.priority}
Mails == [at : {"idle", "global", "source", "clock", "ceiling", "send"},
          priority : BOOLEAN, source : Sources \cup {Nil}, read : MailTimes,
          slot : Row \cup {Nil}]

(* The constants as numbers.                                               *)
LEMMA MailNumbers ==
    /\ {HourWindow, DayWindow, Kept, Share} \subseteq Nat \ {0}
    /\ {HourLimit, DayLimit, SourceLimit, Ceiling, MaxClock} \subseteq Nat
    /\ HourWindow < Kept /\ DayWindow < Kept
    /\ MailTimes \subseteq Nat
    /\ Nil \notin Senders \cup Sources \cup MailTimes
    /\ Global \notin Sources
<1>1. /\ {HourWindow, DayWindow, Kept, Share} \subseteq Nat \ {0}
      /\ {HourLimit, DayLimit, SourceLimit, Ceiling, MaxClock} \subseteq Nat
      /\ HourWindow <= DayWindow /\ DayWindow < Kept
      /\ Nil \notin Senders \cup Sources \cup Nat
      /\ Global \notin Sources
  BY MailOK
<1>2. QED
  BY <1>1 DEF MailTimes

(* The part of the ceiling kept for priority mail.                         *)
LEMMA ReservedPart == Ceiling \div Share \in Nat /\ Ceiling \div Share <= Ceiling
<1>1. Ceiling \in Nat /\ Share \in Nat \ {0}
  BY MailNumbers
<1>2. QED
  BY <1>1

LEMMA TwoBounds ==
    ASSUME NEW a \in Int, NEW b \in Int
    PROVE  /\ Max({a, b}) \in {a, b} /\ Max({a, b}) >= a /\ Max({a, b}) >= b
           /\ Min({a, b}) \in {a, b} /\ Min({a, b}) <= a /\ Min({a, b}) <= b
<1>1. \E x \in {a, b} : \A y \in {a, b} : x >= y
  OBVIOUS
<1>2. \E x \in {a, b} : \A y \in {a, b} : x <= y
  OBVIOUS
<1>3. QED
  BY <1>1, <1>2 DEF Max, Min

(* A source has less than the hour.                                        *)
LEMMA SourceCapBelow ==
    SourceCap \in Int /\ SourceCap <= Max({HourLimit - 1, 0})
<1> DEFINE spare == Max({HourLimit - 1, 0})
<1>1. HourLimit - 1 \in Int /\ SourceLimit \in Int
  BY MailNumbers
<1>2. spare \in Int
  <2>1. spare \in {HourLimit - 1, 0}
    BY <1>1, TwoBounds, 0 \in Int
  <2>2. QED
    BY <1>1, <2>1
<1>3. Min({SourceLimit, spare}) \in Int /\ Min({SourceLimit, spare}) <= spare
  BY <1>1, <1>2, TwoBounds
<1>4. QED
  BY <1>3 DEF SourceCap
-----------------------------------------------------------------------------
MailTyped ==
    /\ clock \in MailTimes
    /\ rows \subseteq Row /\ IsFiniteSet(rows)
    /\ \A r \in rows : r.at <= clock
    /\ holder \in Senders \cup {Nil}
    /\ sent \in Seq(Entries)
    /\ mail \in [Senders -> Mails]
    /\ crashes \in Nat

LEMMA RowTimes == MailTyped => clock \in Nat /\ \A r \in rows : r.at \in Int
<1>1. MailTyped => clock \in MailTimes /\ \A r \in rows : r.at \in MailTimes
  BY DEF MailTyped, Row
<1>2. \A t \in MailTimes : t \in Nat /\ t \in Int
  BY MailNumbers
<1>3. QED
  BY <1>1, <1>2

(* The rows alike are numbered, so that a new one is not among them.       *)
Numbered == \A r \in rows : r.nth <= Cardinality(Alike(r.key, r.at))

(* Who is between the check and the last record holds the lock.            *)
Recording(s) == mail[s].at \in {"global", "source"}
LockHeld == \A s \in Senders : Recording(s) <=> holder = s

(* What the check saw is still so: no other sender has recorded since, and *)
(* rows only age.                                                          *)
RoomLeft ==
    \A s \in Senders :
        /\ Recording(s) =>
            /\ mail[s].source \in Sources
            /\ \A k \in {mail[s].source} : CountAt(k, HourWindow) < SourceCap
        /\ mail[s].at = "global" => /\ CountAt(Global, HourWindow) < HourLimit
                                    /\ CountAt(Global, DayWindow) < DayLimit

(* The counts: no source has as many rows in an hour as the budget.        *)
CountsKept ==
    /\ CountAt(Global, HourWindow) <= HourLimit
    /\ CountAt(Global, DayWindow) <= DayLimit
    /\ \A source \in Sources :
        CountAt(source, HourWindow) <= Max({HourLimit - 1, 0})

BudgetInv ==
    MailTyped /\ Numbered /\ LockHeld /\ RoomLeft /\ CountsKept

(* A row in the window is counted; the windows only lose rows as time goes *)
(* on and rows are swept.                                                  *)
LEMMA CountType ==
    ASSUME MailTyped, NEW k, NEW w
    PROVE  /\ IsFiniteSet(RowsOf(k, w))
           /\ CountAt(k, w) \in Nat /\ CountAt(k, w) = Cardinality(RowsOf(k, w))
<1>1. RowsOf(k, w) \in SUBSET rows
  BY DEF RowsOf
<1>2. IsFiniteSet(RowsOf(k, w))
  BY <1>1, FS_Subset DEF MailTyped
<1>3. QED
  BY <1>2, FS_CardinalityType DEF CountAt

LEMMA CountFalls ==
    ASSUME MailTyped, rows' \subseteq rows, clock' \in {clock, clock + 1},
           NEW k, NEW w \in Nat
    PROVE  CountAt(k, w)' \in Nat /\ CountAt(k, w)' <= CountAt(k, w)
<1>1. RowsOf(k, w)' \in SUBSET RowsOf(k, w)
  <2>1. clock \in Int /\ \A r \in rows : r.at \in Int
    BY RowTimes
  <2>2. \A r \in rows : r.at > clock' - w => r.at > clock - w
    BY <2>1
  <2>3. QED
    BY <2>2 DEF RowsOf
<1>2. IsFiniteSet(RowsOf(k, w)) /\ CountAt(k, w) = Cardinality(RowsOf(k, w))
  BY CountType
<1>3. CountAt(k, w)' = Cardinality(RowsOf(k, w)')
  BY DEF CountAt
<1>4. QED
  BY <1>1, <1>2, <1>3, FS_Subset, FS_CardinalityType

(* A record adds a row, which is counted for its key and for no other.     *)
LEMMA RecordCounts ==
    ASSUME MailTyped, Numbered, clock' = clock, NEW k \in Keys, Record(k)
    PROVE  /\ rows' \subseteq Row /\ IsFiniteSet(rows')
           /\ NewRow(k) \in Row \ rows /\ rows' = rows \cup {NewRow(k)}
           /\ NewRow(k).key = k /\ NewRow(k).at = clock
           /\ \A r \in rows' : r.at <= clock
           /\ Numbered'
           /\ \A w \in Nat \ {0} : CountAt(k, w)' = CountAt(k, w) + 1
           /\ \A l \in Keys \ {k}, w \in Nat : CountAt(l, w)' = CountAt(l, w)
<1> DEFINE new == NewRow(k)
           n == Cardinality(Alike(k, clock))
<1>1. IsFiniteSet(rows) /\ rows \subseteq Row /\ clock \in MailTimes /\ clock \in Int
      /\ \A r \in rows : r.at <= clock
  BY MailNumbers DEF MailTyped
<1>2. \A l, t : Alike(l, t) \in SUBSET rows
  BY DEF Alike
<1>3. IsFiniteSet(Alike(k, clock)) /\ n \in Nat
  BY <1>1, <1>2, FS_Subset, FS_CardinalityType
<1>4. new = [key |-> k, at |-> clock, nth |-> n + 1]
  BY DEF NewRow
<1>5. rows' = rows \cup {new} /\ new \in Row
  BY <1>1, <1>3, <1>4 DEF Record, Row
<1>6. new \notin rows
  BY <1>3, <1>4 DEF Numbered
<1>7. IsFiniteSet(rows')
  BY <1>1, <1>5, FS_AddElement
<1>8. Alike(k, clock)' = Alike(k, clock) \cup {new}
  BY <1>4, <1>5 DEF Alike
<1>9. Cardinality(Alike(k, clock)') = n + 1
  BY <1>2, <1>3, <1>6, <1>8, FS_AddElement
<1>10. ASSUME NEW r \in rows' PROVE r.nth <= Cardinality(Alike(r.key, r.at)')
  <2>1. CASE r.key = k /\ r.at = clock
    <3>1. CASE r = new
      BY <1>3, <1>4, <1>9, <2>1, <3>1
    <3>2. CASE r \in rows
      <4>1. r.nth \in Nat /\ r.nth <= n
        BY <1>1, <2>1, <3>2 DEF Numbered, Row
      <4>2. QED
        BY <1>3, <1>9, <2>1, <4>1
    <3>3. QED
      BY <1>5, <3>1, <3>2
  <2>2. CASE ~(r.key = k /\ r.at = clock)
    <3>1. r \in rows
      BY <1>4, <1>5, <2>2
    <3>2. Alike(r.key, r.at)' = Alike(r.key, r.at)
      BY <1>4, <1>5, <2>2 DEF Alike
    <3>3. QED
      BY <3>1, <3>2 DEF Numbered
  <2>3. QED
    BY <2>1, <2>2
<1>11. ASSUME NEW w \in Nat \ {0} PROVE CountAt(k, w)' = CountAt(k, w) + 1
  <2>1. RowsOf(k, w)' = RowsOf(k, w) \cup {new}
    BY <1>1, <1>4, <1>5 DEF RowsOf
  <2>2. new \notin RowsOf(k, w)
    BY <1>6 DEF RowsOf
  <2>3. IsFiniteSet(RowsOf(k, w)) /\ CountAt(k, w) = Cardinality(RowsOf(k, w))
    BY CountType
  <2>4. CountAt(k, w)' = Cardinality(RowsOf(k, w)')
    BY DEF CountAt
  <2>5. QED
    BY <2>1, <2>2, <2>3, <2>4, FS_AddElement
<1>12. ASSUME NEW l \in Keys \ {k}, NEW w \in Nat
       PROVE  CountAt(l, w)' = CountAt(l, w)
  <2>1. RowsOf(l, w)' = RowsOf(l, w)
    BY <1>4, <1>5 DEF RowsOf
  <2>2. QED
    BY <2>1 DEF CountAt
<1>13. Numbered'
  BY <1>10 DEF Numbered
<1>14. \A r \in rows' : r.at <= clock
  BY <1>1, <1>4, <1>5
<1>15. QED
  BY <1>1, <1>4, <1>5, <1>6, <1>7, <1>11, <1>12, <1>13, <1>14

LEMMA IdleMail ==
    Idle \in Mails /\ Idle.at = "idle" /\ 0 \in MailTimes
<1>1. 0 \in MailTimes
  BY MailNumbers DEF MailTimes
<1>2. QED
  BY <1>1 DEF Idle, Mails

LEMMA InitBudget == MailInit => BudgetInv
<1>1. SUFFICES ASSUME MailInit PROVE BudgetInv
  OBVIOUS
<1>2. /\ clock = 0 /\ rows = {} /\ holder = Nil /\ sent = <<>> /\ crashes = 0
      /\ mail = [s \in Senders |-> Idle]
  BY <1>1 DEF MailInit
<1>3. Idle \in Mails /\ Idle.at = "idle" /\ 0 \in MailTimes
  BY <1>1, IdleMail
<1>4. MailTyped
  <2>1. sent \in Seq(Entries)
    BY <1>2
  <2>2. QED
    BY <1>2, <1>3, <2>1, FS_EmptySet DEF MailTyped
<1>5. Numbered
  BY <1>2 DEF Numbered
<1>6. LockHeld /\ RoomLeft
  BY <1>1, <1>2, <1>3, MailNumbers DEF LockHeld, RoomLeft, Recording
<1>7. \A k, w : CountAt(k, w) = 0
  <2>1. ASSUME NEW k, NEW w PROVE CountAt(k, w) = 0
    <3>1. RowsOf(k, w) = {}
      BY <1>2 DEF RowsOf
    <3>2. QED
      BY <1>4, <3>1, CountType, FS_EmptySet
  <2>2. QED
    BY <2>1
<1>8. CountsKept
  <2>1. Max({HourLimit - 1, 0}) >= 0
    BY <1>1, MailNumbers, TwoBounds, HourLimit - 1 \in Int, 0 \in Int
  <2>2. QED
    BY <1>1, <1>7, <2>1, MailNumbers DEF CountsKept
<1>9. QED
  BY <1>4, <1>5, <1>6, <1>8 DEF BudgetInv

(* A step that records nothing, and after which no more senders are        *)
(* recording than before.                                                  *)
LEMMA NoRecord ==
    ASSUME BudgetInv, MailTyped', LockHeld', rows' \subseteq rows, Numbered',
           clock' \in {clock, clock + 1},
           \A s \in Senders : Recording(s)' =>
                mail'[s].source = mail[s].source /\ mail'[s].at = mail[s].at
    PROVE  BudgetInv'
<1>1. \A k, w : w \in Nat =>
        CountAt(k, w)' \in Nat /\ CountAt(k, w)' <= CountAt(k, w)
  BY CountFalls DEF BudgetInv
<1>2. \A k, w : CountAt(k, w) \in Nat
  BY CountType DEF BudgetInv
<1>3. HourWindow \in Nat /\ DayWindow \in Nat /\ HourLimit \in Nat /\ DayLimit \in Nat
      /\ SourceCap \in Int
  BY MailNumbers, SourceCapBelow
<1>4. RoomLeft'
  <2>1. ASSUME NEW s \in Senders, Recording(s)'
        PROVE  /\ mail'[s].source \in Sources
               /\ \A k \in {mail'[s].source} : CountAt(k, HourWindow)' < SourceCap
    <3>1. Recording(s) /\ mail'[s].source = mail[s].source
      BY <2>1 DEF Recording
    <3>2. ASSUME NEW k, k = mail[s].source
          PROVE  CountAt(k, HourWindow)' < SourceCap
      <4>1. CountAt(k, HourWindow) < SourceCap
        BY <3>1, <3>2 DEF BudgetInv, RoomLeft
      <4>2. QED
        BY <1>1, <1>2, <1>3, <4>1
    <3>3. QED
      BY <3>1, <3>2 DEF BudgetInv, RoomLeft
  <2>2. ASSUME NEW s \in Senders, mail'[s].at = "global"
        PROVE  /\ CountAt(Global, HourWindow)' < HourLimit
               /\ CountAt(Global, DayWindow)' < DayLimit
    <3>1. mail[s].at = "global"
      BY <2>2 DEF Recording
    <3>2. /\ CountAt(Global, HourWindow) < HourLimit
          /\ CountAt(Global, DayWindow) < DayLimit
      BY <3>1 DEF BudgetInv, RoomLeft
    <3>3. QED
      BY <1>1, <1>2, <1>3, <3>2 DEF Global
  <2>3. QED
    BY <2>1, <2>2 DEF RoomLeft, Recording
<1>5. CountsKept'
  <2>1. Max({HourLimit - 1, 0}) \in Int
    BY <1>3, TwoBounds, HourLimit - 1 \in Int, 0 \in Int
  <2>2. CountAt(Global, HourWindow)' <= HourLimit
        /\ CountAt(Global, DayWindow)' <= DayLimit
    BY <1>1, <1>2, <1>3 DEF BudgetInv, CountsKept, Global
  <2>3. \A source \in Sources :
            CountAt(source, HourWindow)' <= Max({HourLimit - 1, 0})
    BY <1>1, <1>2, <1>3, <2>1 DEF BudgetInv, CountsKept
  <2>4. QED
    BY <2>2, <2>3 DEF CountsKept, Global
<1>6. QED
  BY <1>4, <1>5 DEF BudgetInv

(* Popping the head of the ceiling's queue.                                *)
LEMMA MailPopped ==
    ASSUME NEW q \in Seq(Entries), NEW cutoff
    PROVE  /\ Popped(q, cutoff) \in Seq(Entries)
           /\ \A P : CountIn(Popped(q, cutoff), P) <= CountIn(q, P)
<1> DEFINE young == {i \in DOMAIN q : q[i].at > cutoff}
<1>1. Len(q) \in Nat /\ DOMAIN q = 1 .. Len(q)
  BY LenProperties
<1>2. CASE young = {}
  <2>1. Popped(q, cutoff) = <<>>
    BY <1>2 DEF Popped
  <2>2. \A P : CountIn(<<>>, P) = 0
    <3>1. \A P : Hits(<<>>, P) = {}
      BY DEF Hits
    <3>2. QED
      BY <3>1, FS_EmptySet DEF CountIn
  <2>3. \A P : CountIn(q, P) \in Nat
    BY HitsFinite
  <2>4. <<>> \in Seq(Entries)
    OBVIOUS
  <2>5. QED
    BY <2>1, <2>2, <2>3, <2>4
<1>3. CASE young # {}
  <2>1. young \in SUBSET Nat
    BY <1>1
  <2>2. Min(young) \in 1 .. Len(q)
    BY <1>1, <1>3, <2>1, MinOfNats
  <2>3. Popped(q, cutoff) = SubSeq(q, Min(young), Len(q))
    BY <1>3 DEF Popped
  <2>4. QED
    BY <2>2, <2>3, CountPopped
<1>4. QED
  BY <1>2, <1>3

(* A sender goes on without the lock, or gives it up.                      *)
LEMMA SenderMoves ==
    ASSUME BudgetInv, NEW s \in Senders, NEW m \in Mails,
           mail' = [mail EXCEPT ![s] = m],
           m.at \notin {"global", "source"},
           (~Recording(s) /\ holder' = holder) \/ (Recording(s) /\ holder' = Nil),
           sent' \in Seq(Entries),
           UNCHANGED <<clock, rows, crashes>>
    PROVE  BudgetInv'
<1>1. MailTyped /\ Numbered /\ LockHeld
  BY DEF BudgetInv
<1>2. mail \in [Senders -> Mails] /\ Nil \notin Senders
  BY <1>1, MailNumbers DEF MailTyped
<1>3. /\ mail' \in [Senders -> Mails] /\ mail'[s] = m
      /\ \A r \in Senders \ {s} : mail'[r] = mail[r]
  BY <1>2
<1>4. MailTyped'
  BY <1>1, <1>3 DEF MailTyped
<1>5. Numbered'
  BY <1>1 DEF Numbered, Alike
<1>6. LockHeld'
  BY <1>1, <1>2, <1>3 DEF LockHeld, Recording
<1>7. \A r \in Senders : Recording(r)' =>
            mail'[r].source = mail[r].source /\ mail'[r].at = mail[r].at
  BY <1>3 DEF Recording
<1>8. QED
  BY <1>4, <1>5, <1>6, <1>7, NoRecord

LEMMA SenderSteps ==
    ASSUME BudgetInv, NEW s \in Senders,
           \/ StoreFails(s) \/ ReadTime(s) \/ OtherMail(s)
           \/ TakeCeiling(s) \/ Send(s)
    PROVE  BudgetInv'
<1>1. /\ clock \in MailTimes /\ mail[s] \in Mails /\ sent \in Seq(Entries)
      /\ mail \in [Senders -> Mails]
      /\ Recording(s) <=> mail[s].at \in {"global", "source"}
  BY DEF BudgetInv, MailTyped, Recording
<1>2. Idle \in Mails /\ Idle.at = "idle"
  BY IdleMail
<1>3. CASE StoreFails(s)
  <2>1. mail' = [mail EXCEPT ![s] = Idle] /\ Recording(s) /\ holder' = Nil
    BY <1>3 DEF StoreFails, Ends, Recording
  <2>2. QED
    BY <1>1, <1>2, <1>3, <2>1, SenderMoves DEF StoreFails
<1>4. CASE ReadTime(s)
  <2> DEFINE m == [mail[s] EXCEPT !.at = "ceiling", !.read = clock]
  <2>1. mail' = [mail EXCEPT ![s] = m] /\ ~Recording(s)
    BY <1>1, <1>4 DEF ReadTime, Recording
  <2>2. m \in Mails /\ m.at = "ceiling"
    BY <1>1 DEF Mails
  <2>3. QED
    BY <1>1, <1>4, <2>1, <2>2, SenderMoves DEF ReadTime
<1>5. CASE OtherMail(s)
  <2>1. PICK priority \in BOOLEAN :
            mail' = [mail EXCEPT ![s] = [Idle EXCEPT
                !.at = "ceiling", !.priority = priority, !.read = clock]]
    BY <1>5 DEF OtherMail
  <2> DEFINE m == [Idle EXCEPT
                !.at = "ceiling", !.priority = priority, !.read = clock]
  <2>2. m \in Mails /\ m.at = "ceiling" /\ ~Recording(s)
    BY <1>1, <1>2, <1>5 DEF Mails, OtherMail
  <2>3. QED
    BY <1>1, <1>5, <2>1, <2>2, SenderMoves DEF OtherMail
<1>6. CASE TakeCeiling(s)
  <2> DEFINE kept == Popped(sent, mail[s].read - DayWindow)
             entry == [at |-> mail[s].read, priority |-> mail[s].priority]
  <2>1. kept \in Seq(Entries) /\ entry \in Entries
    BY <1>1, MailPopped DEF Entries, Mails
  <2>2. Append(kept, entry) \in Seq(Entries)
    BY <2>1, AppendProperties
  <2>3. sent' \in {kept, Append(kept, entry)}
    BY <1>6 DEF TakeCeiling
  <2>4. \E m \in Mails : mail' = [mail EXCEPT ![s] = m]
                         /\ m.at \in {"idle", "send"}
    <3>1. [Idle EXCEPT !.at = "send"] \in Mails
      BY <1>2 DEF Mails
    <3>2. \/ mail' = [mail EXCEPT ![s] = Idle]
          \/ mail' = [mail EXCEPT ![s] = [Idle EXCEPT !.at = "send"]]
      BY <1>6 DEF TakeCeiling, Ends
    <3>3. QED
      BY <1>2, <3>1, <3>2 DEF Mails
  <2>5. ~Recording(s) /\ UNCHANGED <<holder, clock, rows, crashes>>
    BY <1>1, <1>6 DEF TakeCeiling
  <2>6. QED
    BY <1>1, <2>1, <2>2, <2>3, <2>4, <2>5, SenderMoves
<1>7. CASE Send(s)
  <2>1. mail' = [mail EXCEPT ![s] = Idle] /\ ~Recording(s)
        /\ UNCHANGED <<holder, sent, clock, rows, crashes>>
    BY <1>1, <1>7 DEF Send, Ends
  <2>2. QED
    BY <1>1, <1>2, <2>1, SenderMoves
<1>8. QED
  BY <1>3, <1>4, <1>5, <1>6, <1>7

LEMMA CheckBudgetStep ==
    ASSUME BudgetInv, NEW s \in Senders, CheckBudget(s)
    PROVE  BudgetInv'
<1>1. PICK source \in Sources :
        /\ ~GlobalHit
        /\ ~RateLimited(source, SourceCap, HourWindow)
        /\ mail' = [mail EXCEPT ![s] = [Idle EXCEPT
                !.at = "global", !.source = source]]
  BY DEF CheckBudget
<1>2. /\ MailTyped /\ Numbered /\ LockHeld /\ CountsKept
      /\ holder = Nil /\ holder' = s /\ mail[s].at = "idle"
      /\ UNCHANGED <<clock, rows, sent, crashes>>
  BY DEF CheckBudget, BudgetInv
<1>3. [Idle EXCEPT !.at = "global", !.source = source] \in Mails
  BY IdleMail DEF Mails
<1>4. /\ mail' \in [Senders -> Mails]
      /\ mail'[s].at = "global" /\ mail'[s].source = source
      /\ \A r \in Senders \ {s} : mail'[r] = mail[r]
  <2>1. mail \in [Senders -> Mails]
    BY <1>2 DEF MailTyped
  <2>2. mail'[s] = [Idle EXCEPT !.at = "global", !.source = source]
    BY <1>1, <2>1
  <2>3. QED
    BY <1>1, <1>3, <2>1, <2>2 DEF Mails, Idle
<1>5. MailTyped'
  BY <1>2, <1>4 DEF MailTyped
<1>6. \A k, w : CountAt(k, w)' = CountAt(k, w)
  BY <1>2 DEF CountAt, RowsOf
<1>7. \A k, w : CountAt(k, w) \in Nat
  BY <1>2, CountType
<1>8. Numbered' /\ CountsKept'
  BY <1>2, <1>6 DEF Numbered, Alike, CountsKept, Global
<1>9. \A r \in Senders : ~Recording(r)
  BY <1>2, MailNumbers DEF LockHeld
<1>10. \A r \in Senders : Recording(r)' <=> r = s
  BY <1>4, <1>9 DEF Recording
<1>11. LockHeld'
  BY <1>2, <1>10 DEF LockHeld
<1>12. /\ CountAt(Global, HourWindow) < HourLimit
       /\ CountAt(Global, DayWindow) < DayLimit
       /\ CountAt(source, HourWindow) < SourceCap
  BY <1>1, <1>7, MailNumbers, SourceCapBelow DEF GlobalHit, RateLimited
<1>13. RoomLeft'
  <2>1. ASSUME NEW r \in Senders, Recording(r)'
        PROVE  /\ mail'[r].source \in Sources
               /\ \A k \in {mail'[r].source} : CountAt(k, HourWindow)' < SourceCap
    BY <1>4, <1>6, <1>10, <1>12, <2>1
  <2>2. /\ CountAt(Global, HourWindow)' < HourLimit
        /\ CountAt(Global, DayWindow)' < DayLimit
    BY <1>6, <1>12 DEF Global
  <2>3. QED
    BY <2>1, <2>2 DEF RoomLeft
<1>14. QED
  BY <1>5, <1>8, <1>11, <1>13 DEF BudgetInv

(* Between the two records the counts stay below what the check saw.       *)
LEMMA RecordGlobalStep ==
    ASSUME BudgetInv, NEW s \in Senders, RecordGlobal(s)
    PROVE  BudgetInv'
<1>1. /\ MailTyped /\ Numbered /\ LockHeld /\ RoomLeft /\ CountsKept
      /\ mail[s].at = "global" /\ Record(Global)
      /\ mail' = [mail EXCEPT ![s].at = "source", ![s].slot = NewRow(Global)]
      /\ UNCHANGED <<clock, holder, sent, crashes>>
  BY DEF RecordGlobal, BudgetInv
<1>2. Global \in Keys /\ Global \notin Sources
  BY MailNumbers DEF Keys
<1>3. /\ mail' \in [Senders -> Mails]
      /\ mail'[s].at = "source" /\ mail'[s].source = mail[s].source
      /\ \A r \in Senders \ {s} : mail'[r] = mail[r]
  <2>1. mail \in [Senders -> Mails]
    BY <1>1 DEF MailTyped
  <2>2. NewRow(Global) \in Row
    <3>1. PICK k \in Keys : k = Global
      BY <1>2
    <3>2. Record(k)
      BY <1>1, <3>1
    <3>3. QED
      BY <1>1, <3>1, <3>2, RecordCounts
  <2>3. QED
    BY <1>1, <2>1, <2>2 DEF Mails
<1>4. /\ rows' \subseteq Row /\ IsFiniteSet(rows')
      /\ \A r \in rows' : r.at <= clock
      /\ Numbered'
      /\ \A w \in Nat \ {0} :
            CountAt(Global, w)' = CountAt(Global, w) + 1
      /\ \A l \in Keys \ {Global}, w \in Nat :
            CountAt(l, w)' = CountAt(l, w)
  <2>1. PICK k \in Keys : k = Global
    BY <1>2
  <2>2. Record(k)
    BY <1>1, <2>1
  <2>3. QED
    BY <1>1, <2>1, <2>2, RecordCounts DEF Global
<1>5. MailTyped'
  BY <1>1, <1>3, <1>4 DEF MailTyped
<1>6. LockHeld'
  BY <1>1, <1>3 DEF LockHeld, Recording
<1>7. HourWindow \in Nat \ {0} /\ DayWindow \in Nat \ {0}
  BY MailNumbers
<1>8. \A l \in Sources : CountAt(l, HourWindow)' = CountAt(l, HourWindow)
  BY <1>2, <1>4, <1>7 DEF Keys
<1>9. RoomLeft'
  <2>1. ASSUME NEW r \in Senders, Recording(r)'
        PROVE  /\ mail'[r].source \in Sources
               /\ \A k \in {mail'[r].source} : CountAt(k, HourWindow)' < SourceCap
    <3>1. Recording(r) /\ mail'[r].source = mail[r].source
      BY <1>1, <1>3, <2>1 DEF Recording
    <3>2. QED
      BY <1>1, <1>8, <3>1 DEF RoomLeft
  <2>2. \A r \in Senders : mail'[r].at # "global"
    BY <1>1, <1>3 DEF LockHeld, Recording
  <2>3. QED
    BY <2>1, <2>2 DEF RoomLeft
<1>10. CountsKept'
  <2>1. /\ CountAt(Global, HourWindow) < HourLimit
        /\ CountAt(Global, DayWindow) < DayLimit
    BY <1>1 DEF RoomLeft
  <2>2. /\ CountAt(Global, HourWindow)' <= HourLimit
        /\ CountAt(Global, DayWindow)' <= DayLimit
    <3>1. CountAt(Global, HourWindow) \in Nat /\ CountAt(Global, DayWindow) \in Nat
      BY <1>1, CountType
    <3>2. HourLimit \in Nat /\ DayLimit \in Nat
      BY MailNumbers
    <3>3. QED
      BY <1>4, <1>7, <2>1, <3>1, <3>2
  <2>3. \A l \in Sources : CountAt(l, HourWindow)' <= Max({HourLimit - 1, 0})
    BY <1>1, <1>8 DEF CountsKept
  <2>4. QED
    BY <2>2, <2>3 DEF CountsKept, Global
<1>11. QED
  BY <1>4, <1>5, <1>6, <1>9, <1>10 DEF BudgetInv

LEMMA RecordSourceStep ==
    ASSUME BudgetInv, NEW s \in Senders, RecordSource(s)
    PROVE  BudgetInv'
<1>1. /\ MailTyped /\ Numbered /\ LockHeld /\ RoomLeft /\ CountsKept
      /\ mail[s].at = "source" /\ Record(mail[s].source) /\ holder' = Nil
      /\ mail' = [mail EXCEPT ![s] = [Idle EXCEPT !.at = "clock"]]
      /\ UNCHANGED <<clock, sent, crashes>>
  BY DEF RecordSource, BudgetInv
<1>2. PICK k \in Sources : k = mail[s].source
  BY <1>1 DEF RoomLeft, Recording
<1>3. k \in Keys /\ Global \in Keys \ {k}
  BY <1>2, MailNumbers DEF Keys
<1>4. /\ mail' \in [Senders -> Mails] /\ mail'[s].at = "clock"
      /\ \A r \in Senders \ {s} : mail'[r] = mail[r]
  <2>1. mail \in [Senders -> Mails]
    BY <1>1 DEF MailTyped
  <2>2. /\ [Idle EXCEPT !.at = "clock"] \in Mails
        /\ [Idle EXCEPT !.at = "clock"].at = "clock"
    BY IdleMail DEF Mails
  <2>3. QED
    BY <1>1, <2>1, <2>2
<1>5. /\ rows' \subseteq Row /\ IsFiniteSet(rows')
      /\ \A r \in rows' : r.at <= clock
      /\ Numbered'
      /\ \A w \in Nat \ {0} : CountAt(k, w)' = CountAt(k, w) + 1
      /\ \A l \in Keys \ {k}, w \in Nat : CountAt(l, w)' = CountAt(l, w)
  BY <1>1, <1>2, <1>3, RecordCounts
<1>6. MailTyped'
  BY <1>1, <1>4, <1>5 DEF MailTyped
<1>7. \A r \in Senders : ~Recording(r)'
  BY <1>1, <1>4 DEF LockHeld, Recording
<1>8. LockHeld' /\ RoomLeft'
  BY <1>1, <1>7, MailNumbers DEF LockHeld, RoomLeft, Recording
<1>9. HourWindow \in Nat \ {0} /\ DayWindow \in Nat \ {0}
  BY MailNumbers
<1>10. CountAt(k, HourWindow)' <= Max({HourLimit - 1, 0})
  <2>1. CountAt(k, HourWindow) < SourceCap /\ CountAt(k, HourWindow) \in Nat
    BY <1>1, <1>2, CountType DEF RoomLeft, Recording
  <2>2. Max({HourLimit - 1, 0}) \in Int
    BY MailNumbers, TwoBounds, HourLimit - 1 \in Int, 0 \in Int
  <2>3. CountAt(k, HourWindow)' = CountAt(k, HourWindow) + 1
    BY <1>5, <1>9
  <2>4. QED
    BY <2>1, <2>2, <2>3, SourceCapBelow
<1>11. CountsKept'
  <2>1. \A l \in Sources : CountAt(l, HourWindow)' <= Max({HourLimit - 1, 0})
    BY <1>1, <1>5, <1>9, <1>10 DEF CountsKept, Keys
  <2>2. /\ CountAt(Global, HourWindow)' <= HourLimit
        /\ CountAt(Global, DayWindow)' <= DayLimit
    BY <1>1, <1>3, <1>5, <1>9 DEF CountsKept, Global
  <2>3. QED
    BY <2>1, <2>2 DEF CountsKept, Global
<1>12. QED
  BY <1>5, <1>6, <1>8, <1>11 DEF BudgetInv

LEMMA SweepStep ==
    ASSUME BudgetInv, Sweep
    PROVE  BudgetInv'
<1>1. /\ MailTyped /\ Numbered /\ LockHeld
      /\ rows' = {r \in rows : r.at >= clock - Kept}
      /\ UNCHANGED <<clock, holder, sent, mail, crashes>>
  BY DEF Sweep, BudgetInv
<1>2. rows' \subseteq rows
  BY <1>1
<1>3. MailTyped'
  BY <1>1, <1>2, FS_Subset DEF MailTyped
<1>4. ASSUME NEW r \in rows' PROVE r.nth <= Cardinality(Alike(r.key, r.at)')
  <2>1. Alike(r.key, r.at)' = Alike(r.key, r.at)
    BY <1>1 DEF Alike
  <2>2. QED
    BY <1>1, <1>2, <2>1 DEF Numbered
<1>5. Numbered'
  BY <1>4 DEF Numbered
<1>6. LockHeld' /\ clock' = clock
      /\ \A s \in Senders : mail'[s].source = mail[s].source
                            /\ mail'[s].at = mail[s].at
  BY <1>1 DEF LockHeld, Recording
<1>7. QED
  BY <1>2, <1>3, <1>5, <1>6, NoRecord

LEMMA OtherSteps ==
    ASSUME BudgetInv, Advance \/ Crash \/ UNCHANGED mailVars
    PROVE  BudgetInv'
<1>1. MailTyped /\ Numbered /\ LockHeld
  BY DEF BudgetInv
<1>2. rows' = rows
  BY DEF Advance, Crash, mailVars
<1>3. Numbered'
  BY <1>1, <1>2 DEF Numbered, Alike
<1>4. CASE Advance
  <2>1. clock' = clock + 1 /\ clock < MaxClock
        /\ UNCHANGED <<holder, sent, mail, crashes>>
    BY <1>4 DEF Advance
  <2>2. clock' \in MailTimes /\ \A r \in rows : r.at <= clock'
    <3>1. clock \in Nat /\ MaxClock \in Nat /\ \A r \in rows : r.at \in Int
      BY <1>1, RowTimes, MailNumbers
    <3>2. clock' \in MailTimes
      BY <2>1, <3>1 DEF MailTimes
    <3>3. \A r \in rows : r.at <= clock'
      BY <1>1, <2>1, <3>1 DEF MailTyped
    <3>4. QED
      BY <3>2, <3>3
  <2>3. MailTyped'
    BY <1>1, <1>2, <2>1, <2>2 DEF MailTyped
  <2>4. LockHeld'
    BY <1>1, <2>1 DEF LockHeld, Recording
  <2>5. QED
    BY <1>2, <1>3, <2>1, <2>3, <2>4, NoRecord
<1>5. CASE Crash
  <2>1. /\ holder' = Nil /\ sent' = <<>> /\ crashes' = crashes + 1
        /\ clock' = clock
        /\ mail' = [s \in Senders |-> Idle]
    BY <1>5 DEF Crash
  <2>2. Idle \in Mails /\ Idle.at = "idle"
    BY IdleMail
  <2>3. sent' \in Seq(Entries)
    BY <2>1
  <2>4. MailTyped'
    BY <1>1, <1>2, <2>1, <2>2, <2>3 DEF MailTyped
  <2>5. \A s \in Senders : ~Recording(s)'
    BY <2>1, <2>2 DEF Recording
  <2>6. LockHeld'
    BY <2>1, <2>5, MailNumbers DEF LockHeld
  <2>7. QED
    BY <1>2, <1>3, <2>1, <2>4, <2>5, <2>6, NoRecord
<1>6. CASE UNCHANGED mailVars
  <2>1. UNCHANGED <<clock, rows, holder, sent, mail, crashes>>
    BY <1>6 DEF mailVars
  <2>2. MailTyped' /\ LockHeld'
    BY <1>1, <2>1 DEF MailTyped, LockHeld, Recording
  <2>3. QED
    BY <1>3, <2>1, <2>2, NoRecord
<1>7. QED
  BY <1>4, <1>5, <1>6

LEMMA NextBudget == BudgetInv /\ [MailNext]_mailVars => BudgetInv'
<1>1. SUFFICES ASSUME BudgetInv, [MailNext]_mailVars PROVE BudgetInv'
  OBVIOUS
<1>2. ASSUME NEW s \in Senders, Step(s) PROVE BudgetInv'
  BY <1>1, <1>2, CheckBudgetStep, RecordGlobalStep, RecordSourceStep, SenderSteps
  DEF Step
<1>3. CASE Advance \/ Crash \/ UNCHANGED mailVars
  BY <1>1, <1>3, OtherSteps
<1>4. CASE Sweep
  BY <1>1, <1>4, SweepStep
<1>5. QED
  BY <1>1, <1>2, <1>3, <1>4 DEF MailNext

THEOREM BudgetHolds == MailSpec => []BudgetInv
<1>1. MailInit => BudgetInv
  BY InitBudget
<1>2. BudgetInv /\ [MailNext]_mailVars => BudgetInv'
  BY NextBudget
<1>3. QED
  BY <1>1, <1>2, PTL DEF MailSpec

(* The two rows of a mail: the second is no older than the first, lasts    *)
(* until it is swept, and is the row of no other mail.                     *)
PairsInv ==
    /\ \A s \in Senders : mail[s].at = "source" =>
            mail[s].slot \in Row /\ mail[s].slot.at <= clock
    /\ \A p \in pairs :
        /\ p.slot \in Row /\ p.by \in Row
        /\ p.slot.at <= p.by.at /\ p.by.at <= clock
        /\ p.by \in rows \/ p.by.at < clock - Kept
    /\ \A p, q \in pairs : p.by = q.by => p = q

LEMMA RowNumbers ==
    /\ \A r \in Row : r.at \in Nat
    /\ MailTyped => clock \in Nat
    /\ Kept \in Nat \ {0} /\ HourWindow \in Nat /\ HourWindow < Kept
<1>1. MailTimes \subseteq Nat
  BY MailNumbers
<1>2. QED
  BY <1>1, MailNumbers DEF Row, MailTyped

(* A step after which the pairs are those of before, while nothing but old *)
(* rows went.                                                              *)
LEMMA PairsStay ==
    ASSUME BudgetInv, PairsInv, pairs' = pairs, clock' \in {clock, clock + 1},
           \A r \in rows : r \in rows' \/ r.at < clock - Kept,
           \A s \in Senders : mail'[s].at = "source" =>
                mail[s].at = "source" /\ mail'[s].slot = mail[s].slot
    PROVE  PairsInv'
<1>1. clock \in Nat /\ Kept \in Nat /\ \A r \in Row : r.at \in Nat
  BY RowNumbers DEF BudgetInv
<1>2. ASSUME NEW s \in Senders, mail'[s].at = "source"
      PROVE  mail'[s].slot \in Row /\ mail'[s].slot.at <= clock'
  BY <1>1, <1>2 DEF PairsInv
<1>3. ASSUME NEW p \in pairs
      PROVE  /\ p.slot \in Row /\ p.by \in Row
             /\ p.slot.at <= p.by.at /\ p.by.at <= clock'
             /\ p.by \in rows' \/ p.by.at < clock' - Kept
  <2>1. /\ p.slot \in Row /\ p.by \in Row
        /\ p.slot.at <= p.by.at /\ p.by.at <= clock
        /\ p.by \in rows \/ p.by.at < clock - Kept
    BY DEF PairsInv
  <2>2. p.slot.at \in Nat /\ p.by.at \in Nat
    BY <1>1, <2>1
  <2>3. p.by \in rows' \/ p.by.at < clock - Kept
    BY <2>1
  <2>4. QED
    BY <1>1, <2>1, <2>2, <2>3
<1>4. QED
  BY <1>2, <1>3 DEF PairsInv

LEMMA PairsGlobal ==
    ASSUME BudgetInv, PairsInv, NEW s \in Senders, RecordGlobal(s)
    PROVE  PairsInv'
<1>1. /\ MailTyped /\ Numbered /\ Record(Global) /\ pairs' = pairs /\ clock' = clock
      /\ mail' = [mail EXCEPT ![s].at = "source", ![s].slot = NewRow(Global)]
  BY DEF RecordGlobal, BudgetInv
<1>2. NewRow(Global) \in Row /\ NewRow(Global).at = clock /\ rows \subseteq rows'
  <2>1. PICK k \in Keys : k = Global
    BY DEF Keys
  <2>2. Record(k)
    BY <1>1, <2>1
  <2>3. QED
    BY <1>1, <2>1, <2>2, RecordCounts
<1>3. mail \in [Senders -> Mails] /\ clock \in Nat
  BY <1>1, RowNumbers DEF MailTyped
<1>4. ASSUME NEW r \in Senders, mail'[r].at = "source"
      PROVE  mail'[r].slot \in Row /\ mail'[r].slot.at <= clock
  <2>1. CASE r = s
    <3>1. mail'[r].slot = NewRow(Global)
      BY <1>1, <1>3, <2>1 DEF Mails
    <3>2. QED
      BY <1>2, <1>3, <3>1
  <2>2. CASE r # s
    BY <1>1, <1>3, <1>4, <2>2 DEF PairsInv
  <2>3. QED
    BY <2>1, <2>2
<1>5. QED
  BY <1>1, <1>2, <1>4 DEF PairsInv

LEMMA PairsSource ==
    ASSUME BudgetInv, PairsInv, NEW s \in Senders, RecordSource(s)
    PROVE  PairsInv'
<1> DEFINE new == NewRow(mail[s].source)
           pair == [slot |-> mail[s].slot, by |-> new]
<1>1. /\ MailTyped /\ Numbered /\ RoomLeft /\ mail[s].at = "source"
      /\ Record(mail[s].source) /\ clock' = clock
      /\ pairs' = pairs \cup {pair}
      /\ mail' = [mail EXCEPT ![s] = [Idle EXCEPT !.at = "clock"]]
  BY DEF RecordSource, BudgetInv
<1>2. new \in Row \ rows /\ new.at = clock /\ rows' = rows \cup {new}
  <2>1. PICK k \in Sources : k = mail[s].source
    BY <1>1 DEF RoomLeft, Recording
  <2>2. k \in Keys /\ Record(k)
    BY <1>1, <2>1 DEF Keys
  <2>3. QED
    BY <1>1, <2>1, <2>2, RecordCounts
<1> HIDE DEF new
<1>3. mail \in [Senders -> Mails] /\ clock \in Nat /\ Kept \in Nat \ {0}
      /\ \A r \in Row : r.at \in Nat
  BY <1>1, RowNumbers DEF MailTyped
<1>4. ASSUME NEW r \in Senders, mail'[r].at = "source"
      PROVE  mail'[r].slot \in Row /\ mail'[r].slot.at <= clock
  <2>1. r # s
    BY <1>1, <1>3, <1>4, IdleMail
  <2>2. QED
    BY <1>1, <1>3, <1>4, <2>1 DEF PairsInv
<1>5. mail[s].slot \in Row /\ mail[s].slot.at <= clock
  BY <1>1 DEF PairsInv
<1>6. \A p \in pairs :
        /\ p.slot \in Row /\ p.by \in Row
        /\ p.slot.at <= p.by.at /\ p.by.at <= clock
        /\ p.by \in rows \/ p.by.at < clock - Kept
  BY DEF PairsInv
<1>7. \A p \in pairs : p.by # new
  <2>1. ASSUME NEW p \in pairs, p.by = new PROVE FALSE
    <3>1. clock < clock - Kept
      BY <1>2, <1>6, <2>1
    <3>2. QED
      BY <1>3, <3>1
  <2>2. QED
    BY <2>1
<1>8. ASSUME NEW p \in pairs'
      PROVE  /\ p.slot \in Row /\ p.by \in Row
             /\ p.slot.at <= p.by.at /\ p.by.at <= clock
             /\ p.by \in rows' \/ p.by.at < clock - Kept
  <2>1. CASE p \in pairs
    BY <1>2, <1>6, <2>1
  <2>2. CASE p = pair
    BY <1>2, <1>3, <1>5, <2>2
  <2>3. QED
    BY <1>1, <2>1, <2>2
<1>9. \A p, q \in pairs' : p.by = q.by => p = q
  BY <1>1, <1>7 DEF PairsInv
<1>10. QED
  BY <1>1, <1>4, <1>8, <1>9 DEF PairsInv

LEMMA NextPairs == BudgetInv /\ PairsInv /\ [MailNext]_mailVars => PairsInv'
<1>1. SUFFICES ASSUME BudgetInv, PairsInv, [MailNext]_mailVars PROVE PairsInv'
  OBVIOUS
<1>2. mail \in [Senders -> Mails] /\ Idle.at = "idle"
  BY <1>1, IdleMail DEF BudgetInv, MailTyped
<1>3. ASSUME NEW s \in Senders,
             \/ CheckBudget(s) \/ StoreFails(s) \/ ReadTime(s)
             \/ OtherMail(s) \/ TakeCeiling(s) \/ Send(s)
      PROVE  PairsInv'
  <2>1. pairs' = pairs /\ clock' = clock /\ rows' = rows
    BY <1>3 DEF CheckBudget, StoreFails, ReadTime, OtherMail, TakeCeiling, Send
  <2>2. \E m : mail' = [mail EXCEPT ![s] = m] /\ m.at # "source"
    <3>1. CASE CheckBudget(s)
      <4>1. PICK source \in Sources : mail' = [mail EXCEPT ![s] =
                [Idle EXCEPT !.at = "global", !.source = source]]
        BY <3>1 DEF CheckBudget
      <4>2. [Idle EXCEPT !.at = "global", !.source = source].at = "global"
        BY IdleMail DEF Mails
      <4>3. QED
        BY <4>1, <4>2
    <3>2. CASE StoreFails(s) \/ Send(s)
      BY <1>2, <3>2 DEF StoreFails, Send, Ends
    <3>3. CASE ReadTime(s)
      <4> DEFINE m == [mail[s] EXCEPT !.at = "ceiling", !.read = clock]
      <4>1. mail' = [mail EXCEPT ![s] = m]
        BY <1>2, <3>3 DEF ReadTime
      <4>2. m.at = "ceiling"
        BY <1>2 DEF Mails
      <4>3. QED
        BY <4>1, <4>2
    <3>4. CASE OtherMail(s)
      <4>1. PICK priority \in BOOLEAN : mail' = [mail EXCEPT ![s] = [Idle EXCEPT
                !.at = "ceiling", !.priority = priority, !.read = clock]]
        BY <3>4 DEF OtherMail
      <4>2. [Idle EXCEPT
                !.at = "ceiling", !.priority = priority, !.read = clock].at = "ceiling"
        BY IdleMail DEF Mails
      <4>3. QED
        BY <4>1, <4>2
    <3>5. CASE TakeCeiling(s)
      <4>1. \/ mail' = [mail EXCEPT ![s] = Idle]
            \/ mail' = [mail EXCEPT ![s] = [Idle EXCEPT !.at = "send"]]
        BY <3>5 DEF TakeCeiling, Ends
      <4>2. QED
        BY <4>1 DEF Idle
    <3>6. QED
      BY <1>3, <3>1, <3>2, <3>3, <3>4, <3>5
  <2>3. \A r \in Senders : mail'[r].at = "source" =>
            mail[r].at = "source" /\ mail'[r].slot = mail[r].slot
    BY <1>2, <2>2
  <2>4. QED
    BY <1>1, <2>1, <2>3, PairsStay
<1>4. CASE Advance \/ Sweep \/ UNCHANGED mailVars
  <2>1. /\ pairs' = pairs /\ clock' \in {clock, clock + 1} /\ mail' = mail
        /\ \A r \in rows : r \in rows' \/ ~(r.at >= clock - Kept)
    BY <1>4 DEF Advance, Sweep, mailVars
  <2>2. clock \in Nat /\ Kept \in Nat /\ \A r \in rows : r.at \in Nat
    BY <1>1, RowNumbers DEF BudgetInv, MailTyped
  <2>3. \A r \in rows : r \in rows' \/ r.at < clock - Kept
    BY <2>1, <2>2
  <2>4. QED
    BY <1>1, <2>1, <2>3, PairsStay
<1>5. CASE Crash
  <2>1. /\ pairs' = pairs /\ clock' = clock /\ rows' = rows
        /\ mail' = [s \in Senders |-> Idle]
    BY <1>5 DEF Crash
  <2>2. \A s \in Senders : mail'[s].at # "source"
    BY <1>2, <2>1
  <2>3. QED
    BY <1>1, <2>1, <2>2, PairsStay
<1>6. QED
  BY <1>1, <1>3, <1>4, <1>5, PairsGlobal, PairsSource DEF MailNext, Step

(* A full hour of one source's mail would pair as many rows of its own.    *)
LEMMA HourShared ==
    ASSUME BudgetInv, PairsInv, CountAt(Global, HourWindow) >= HourLimit,
           HourLimit > 0, NEW source \in Sources
    PROVE  \E r \in RowsOf(Global, HourWindow) :
                \A p \in pairs : p.slot = r => p.by.key # source
<1> DEFINE hour == RowsOf(Global, HourWindow)
           own == RowsOf(source, HourWindow)
           mine(r) == CHOOSE p \in pairs : p.slot = r /\ p.by.key = source
           f == [r \in hour |-> mine(r).by]
<1>1. SUFFICES ASSUME \A r \in hour : \E p \in pairs :
                        p.slot = r /\ p.by.key = source
               PROVE  FALSE
  OBVIOUS
<1>2. \A r \in hour : /\ mine(r) \in pairs /\ mine(r).slot = r
                      /\ mine(r).by.key = source
  BY <1>1
<1> HIDE DEF mine
<1>3. /\ clock \in Nat /\ Kept \in Nat /\ HourWindow \in Nat /\ HourWindow < Kept
      /\ \A r \in Row : r.at \in Nat
  BY RowNumbers DEF BudgetInv
<1>4. ASSUME NEW r \in hour PROVE f[r] \in own
  <2>1. r.at > clock - HourWindow
    BY DEF RowsOf
  <2>2. /\ mine(r).by \in Row /\ r \in Row /\ r.at <= mine(r).by.at
        /\ mine(r).by \in rows \/ mine(r).by.at < clock - Kept
    BY <1>2 DEF PairsInv
  <2>3. mine(r).by.at \in Nat /\ r.at \in Nat
    BY <1>3, <2>2
  <2>4. mine(r).by.at > clock - HourWindow /\ ~(mine(r).by.at < clock - Kept)
    BY <1>3, <2>1, <2>2, <2>3
  <2>5. mine(r).by \in rows /\ mine(r).by.key = source
    BY <1>2, <2>2, <2>4
  <2>6. QED
    BY <2>4, <2>5 DEF RowsOf
<1>5. \A r, q \in hour : f[r] = f[q] => r = q
  <2>1. ASSUME NEW r \in hour, NEW q \in hour, mine(r).by = mine(q).by
        PROVE  r = q
    <3>1. mine(r) = mine(q)
      BY <1>2, <2>1 DEF PairsInv
    <3>2. QED
      BY <1>2, <3>1
  <2>2. QED
    BY <2>1
<1>6. IsFiniteSet(hour) /\ IsFiniteSet(own)
      /\ CountAt(Global, HourWindow) = Cardinality(hour)
      /\ CountAt(source, HourWindow) = Cardinality(own)
      /\ CountAt(source, HourWindow) \in Nat /\ CountAt(Global, HourWindow) \in Nat
  BY CountType DEF BudgetInv
<1>7. f \in Injection(hour, own)
  BY <1>4, <1>5 DEF Injection, IsInjective
<1> HIDE DEF f, hour, own
<1>8. Cardinality(hour) <= Cardinality(own)
  BY <1>6, <1>7, FS_Injection
<1>9. CountAt(source, HourWindow) <= HourLimit - 1
  <2>1. HourLimit \in Nat
    BY MailNumbers
  <2>2. Max({HourLimit - 1, 0}) \in {HourLimit - 1, 0}
    BY <2>1, TwoBounds, HourLimit - 1 \in Int, 0 \in Int
  <2>3. CountAt(source, HourWindow) <= Max({HourLimit - 1, 0})
    BY DEF BudgetInv, CountsKept
  <2>4. QED
    BY <1>6, <2>1, <2>2, <2>3
<1>10. QED
  BY <1>6, <1>8, <1>9, MailNumbers

(* No rolling hour or day has more guest mail than its budget, and an hour *)
(* that is full has a slot that is not this source's, for any one source,  *)
(* whatever the threads ask at once, whichever of the two records fails,   *)
(* and through restarts (_take_sync).                                      *)
THEOREM MailKeepsBudget == MailSpec => []BudgetKept
<1>1. MailInit => PairsInv
  BY InitBudget DEF MailInit, PairsInv, Idle
<1>2. BudgetInv /\ PairsInv /\ [MailNext]_mailVars => PairsInv'
  BY NextPairs
<1>3. BudgetInv /\ PairsInv => BudgetKept
  BY HourShared DEF BudgetInv, CountsKept, BudgetKept, Global
<1>4. QED
  BY <1>1, <1>2, <1>3, BudgetHolds, PTL DEF MailSpec
-----------------------------------------------------------------------------
(* What is not priority mail leaves its last part of the ceiling free.     *)
ReserveInv == CountIn(sent, Others) <= Ceiling - Ceiling \div Share

LEMMA TakeCases ==
    ASSUME BudgetInv, NEW s \in Senders, TakeCeiling(s)
    PROVE  \E q \in Seq(Entries) :
            /\ q = Popped(sent, mail[s].read - DayWindow)
            /\ CountIn(q, Others) <= CountIn(sent, Others)
            /\ \/ /\ Len(q) >= LimitOf(mail[s].priority) /\ sent' = q
                  /\ mail'[s].at = "idle" /\ taken' = taken
               \/ /\ Len(q) < LimitOf(mail[s].priority)
                  /\ \E e \in Entries : /\ e.priority = mail[s].priority
                                        /\ sent' = Append(q, e)
                                        /\ taken' = Append(taken, e.at)
                                        /\ e.at = mail[s].read
                  /\ mail'[s].at = "send"
<1> DEFINE q == Popped(sent, mail[s].read - DayWindow)
           entry == [at |-> mail[s].read, priority |-> mail[s].priority]
<1>1. /\ mail[s] \in Mails /\ sent \in Seq(Entries)
      /\ mail \in [Senders -> Mails]
  BY DEF BudgetInv, MailTyped
<1>2. /\ q \in Seq(Entries) /\ CountIn(q, Others) <= CountIn(sent, Others)
      /\ entry \in Entries /\ entry.priority = mail[s].priority /\ entry.at = mail[s].read
  BY <1>1, MailPopped DEF Entries, Mails
<1>3. Len(q) \in Nat /\ LimitOf(mail[s].priority) \in Int
  BY <1>1, <1>2, MailNumbers, ReservedPart, LenProperties DEF LimitOf, Mails
<1>4. CASE Len(q) >= LimitOf(mail[s].priority)
  <2>1. /\ sent' = q
        /\ mail' = [mail EXCEPT ![s] = Idle] /\ taken' = taken
    BY <1>4 DEF TakeCeiling, Ends
  <2>2. mail'[s].at = "idle"
    BY <1>1, <2>1 DEF Idle
  <2>3. QED
    BY <1>2, <1>4, <2>1, <2>2
<1>5. CASE Len(q) < LimitOf(mail[s].priority)
  <2>1. /\ sent' = Append(q, entry)
        /\ mail' = [mail EXCEPT ![s] = [Idle EXCEPT !.at = "send"]]
        /\ taken' = Append(taken, mail[s].read)
    BY <1>3, <1>5 DEF TakeCeiling
  <2>2. mail'[s].at = "send"
    BY <1>1, <2>1 DEF Idle
  <2>3. QED
    BY <1>2, <1>5, <2>1, <2>2
<1>6. QED
  BY <1>3, <1>4, <1>5

LEMMA NextReserve ==
    BudgetInv /\ ReserveInv /\ [MailNext]_mailVars => ReserveInv'
<1>1. SUFFICES ASSUME BudgetInv, ReserveInv, [MailNext]_mailVars
               PROVE  ReserveInv'
  OBVIOUS
<1>2. PICK part \in Nat : part = Ceiling \div Share /\ part <= Ceiling
  BY ReservedPart
<1> DEFINE limit == Ceiling - part
<1>3. /\ CountIn(sent, Others) <= limit
      /\ CountIn(sent', Others) <= limit => ReserveInv'
      /\ Ceiling \in Nat /\ limit \in Nat
  BY <1>1, <1>2, MailNumbers DEF ReserveInv
<1> HIDE DEF limit
<1>4. CASE sent' = sent
  BY <1>3, <1>4
<1>5. CASE sent' = <<>>
  <2>1. Hits(sent', Others) = {}
    BY <1>5 DEF Hits
  <2>2. CountIn(sent', Others) = 0
    BY <2>1, FS_EmptySet DEF CountIn
  <2>3. QED
    BY <1>3, <2>2
<1>6. ASSUME NEW s \in Senders, TakeCeiling(s) PROVE ReserveInv'
  <2>1. PICK q \in Seq(Entries) :
            /\ CountIn(q, Others) <= CountIn(sent, Others)
            /\ \/ sent' = q
               \/ /\ Len(q) < LimitOf(mail[s].priority)
                  /\ \E e \in Entries : /\ e.priority = mail[s].priority
                                        /\ sent' = Append(q, e)
    BY <1>1, <1>6, TakeCases
  <2>2. /\ CountIn(q, Others) \in Nat /\ CountIn(q, Others) <= Len(q)
        /\ CountIn(sent, Others) \in Nat /\ Len(q) \in Nat
    BY <1>1, HitsFinite, LenProperties DEF BudgetInv, MailTyped
  <2>3. CASE sent' = q
    BY <1>3, <2>1, <2>2, <2>3
  <2>4. CASE /\ Len(q) < LimitOf(mail[s].priority)
             /\ \E e \in Entries : /\ e.priority = mail[s].priority
                                   /\ sent' = Append(q, e)
    <3>1. PICK e \in Entries : /\ e.priority = mail[s].priority
                               /\ sent' = Append(q, e)
      BY <2>4
    <3>2. CountIn(sent', Others)
            = CountIn(q, Others) + (IF e \in Others THEN 1 ELSE 0)
      BY <3>1, CountAppend
    <3>3. CASE e.priority
      <4>1. CountIn(sent', Others) = CountIn(q, Others)
        BY <2>2, <3>2, <3>3 DEF Others
      <4>2. QED
        BY <1>3, <2>1, <2>2, <4>1
    <3>4. CASE ~e.priority
      <4>1. CountIn(sent', Others) = CountIn(q, Others) + 1
        BY <2>2, <3>2, <3>4 DEF Others
      <4>2. Len(q) < limit
        BY <1>2, <2>4, <3>1, <3>4 DEF LimitOf, limit
      <4>3. QED
        BY <1>3, <2>2, <4>1, <4>2
    <3>5. QED
      BY <3>3, <3>4
  <2>5. QED
    BY <2>1, <2>3, <2>4
<1>7. sent' = sent \/ sent' = <<>> \/ \E s \in Senders : TakeCeiling(s)
  BY <1>1 DEF MailNext, Step, mailVars, Advance, Sweep, Crash, CheckBudget,
    RecordGlobal, RecordSource, StoreFails, ReadTime, OtherMail,
    Send
<1>8. QED
  BY <1>4, <1>5, <1>6, <1>7

THEOREM ReserveHolds == MailSpec => [](BudgetInv /\ ReserveInv)
<1>1. MailInit => ReserveInv
  <2>1. ASSUME MailInit PROVE ReserveInv
    <3>1. Hits(sent, Others) = {}
      BY <2>1 DEF MailInit, Hits
    <3>2. CountIn(sent, Others) = 0
      BY <3>1, FS_EmptySet DEF CountIn
    <3>3. QED
      BY <3>2, MailNumbers, ReservedPart DEF ReserveInv
  <2>2. QED
    BY <2>1
<1>2. BudgetInv /\ ReserveInv /\ [MailNext]_mailVars => ReserveInv'
  BY NextReserve
<1>3. QED
  BY <1>1, <1>2, BudgetHolds, PTL DEF MailSpec

(* A full queue without its other mail is the reserve of priority mail.    *)
LEMMA ReservePart ==
    ASSUME NEW all \in Nat, NEW part \in Nat,
           NEW q \in Seq(Entries), Len(q) >= all, CountIn(q, Others) <= all - part
    PROVE  Cardinality({i \in DOMAIN q : q[i].priority}) >= part
<1> DEFINE ours == {i \in DOMAIN q : q[i].priority}
<1>1. Len(q) \in Nat /\ DOMAIN q = 1 .. Len(q)
  BY LenProperties
<1>2. IsFiniteSet(1 .. Len(q)) /\ Cardinality(1 .. Len(q)) = Len(q)
  <2>1. ASSUME NEW n \in Nat PROVE IsFiniteSet(1 .. n) /\ Cardinality(1 .. n) = n
    BY FS_Interval
  <2>2. QED
    BY <1>1, <2>1
<1>3. ours \in SUBSET (1 .. Len(q)) /\ Hits(q, Others) \in SUBSET (1 .. Len(q))
  BY <1>1 DEF Hits
<1>4. IsFiniteSet(ours) /\ IsFiniteSet(Hits(q, Others))
  BY <1>2, <1>3, FS_Subset
<1>5. ours \cup Hits(q, Others) = 1 .. Len(q)
  <2>1. \A i \in DOMAIN q : q[i] \in Entries
    BY <1>1, ElementOfSeq
  <2>2. QED
    BY <1>1, <2>1 DEF Hits, Others
<1> HIDE DEF ours
<1>6. Cardinality(ours \cup Hits(q, Others))
        = Cardinality(ours) + Cardinality(Hits(q, Others))
            - Cardinality(ours \cap Hits(q, Others))
      /\ IsFiniteSet(ours \cap Hits(q, Others))
  BY <1>4, FS_Union, FS_Intersection
<1>7. /\ Cardinality(ours) \in Nat /\ CountIn(q, Others) \in Nat
      /\ Cardinality(ours \cap Hits(q, Others)) \in Nat
  BY <1>4, <1>6, FS_CardinalityType DEF CountIn
<1>8. Len(q) <= Cardinality(ours) + CountIn(q, Others)
  <2>1. Len(q) = Cardinality(ours) + CountIn(q, Others)
                    - Cardinality(ours \cap Hits(q, Others))
    BY <1>2, <1>5, <1>6 DEF CountIn
  <2>2. QED
    BY <1>1, <1>7, <2>1
<1>9. Cardinality(ours) >= part
  BY <1>1, <1>7, <1>8
<1>10. QED
  BY <1>9 DEF ours

(* Priority mail is refused only when its own part of the ceiling is used  *)
(* up by its own, whatever anyone else asked for (SendCeiling.take).       *)
THEOREM MailKeepsReserve == MailSpec => ReserveKept
<1>1. ASSUME BudgetInv, ReserveInv, [MailNext]_mailVars, ReserveInv', NEW s \in Senders,
             mail[s].at = "ceiling", mail'[s].at = "idle", mail[s].priority,
             crashes' = crashes
      PROVE  Quantify(DOMAIN sent', LAMBDA i : sent'[i].priority)
                >= Ceiling \div Share
  <2>1. TakeCeiling(s)
    <3>1. mail \in [Senders -> Mails] /\ Idle.at = "idle"
      BY <1>1, IdleMail DEF BudgetInv, MailTyped
    <3>2. ASSUME NEW r \in Senders, Step(r) PROVE TakeCeiling(s)
      <4>1. r = s
        BY <1>1, <3>1, <3>2 DEF Step, CheckBudget, RecordGlobal, RecordSource,
          StoreFails, ReadTime, OtherMail, TakeCeiling, Send, Ends
      <4>2. QED
        BY <1>1, <3>2, <4>1 DEF Step, CheckBudget, RecordGlobal, RecordSource,
          StoreFails, ReadTime, OtherMail, Send
    <3>3. CASE Advance \/ Sweep \/ UNCHANGED mailVars
      BY <1>1, <3>3 DEF Advance, Sweep, mailVars
    <3>4. ~Crash
      <4>1. crashes \in Nat
        BY <1>1 DEF BudgetInv, MailTyped
      <4>2. QED
        BY <1>1, <4>1 DEF Crash
    <3>5. QED
      BY <1>1, <3>2, <3>3, <3>4 DEF MailNext
  <2>2. PICK q \in Seq(Entries) : Len(q) >= LimitOf(TRUE) /\ sent' = q
    BY <1>1, <2>1, TakeCases
  <2>3. Len(q) >= Ceiling
    BY <2>2 DEF LimitOf
  <2>4. Cardinality({i \in DOMAIN q : q[i].priority}) >= Ceiling \div Share
    BY <1>1, <2>2, <2>3, ReservePart, MailNumbers, ReservedPart DEF ReserveInv
  <2>5. QED
    BY <2>2, <2>4 DEF Quantify
<1>2. BudgetInv /\ ReserveInv /\ [MailNext]_mailVars
        => [\A s \in Senders :
              (/\ mail[s].at = "ceiling" /\ mail'[s].at = "idle"
               /\ mail[s].priority /\ crashes' = crashes)
              => Quantify(DOMAIN sent', LAMBDA i : sent'[i].priority)
                    >= Ceiling \div Share]_mailVars
  BY <1>1, NextReserve
<1>3. QED
  BY <1>2, ReserveHolds, PTL DEF MailSpec, ReserveKept
-----------------------------------------------------------------------------
(* The entries of the queue that are younger than a window reaching back   *)
(* to t are the mails that passed since, as long as t is in the day of     *)
(* today: only what is past for the reader, and so for the clock, is       *)
(* popped.                                                                 *)
PassedAfter(t) == {u \in MailTimes : u > t}
QueuedAfter(t) == {e \in Entries : e.at > t}

CeilingInv ==
    /\ taken \in Seq(MailTimes)
    /\ Len(sent) <= Ceiling
    /\ \A s \in Senders : mail[s].read <= clock
    /\ \A t \in Int : t >= clock - DayWindow =>
        CountIn(taken, PassedAfter(t)) <= CountIn(sent, QueuedAfter(t))

LEMMA PoppedYoung ==
    ASSUME NEW q \in Seq(Entries), NEW cutoff \in Int
    PROVE  /\ Len(Popped(q, cutoff)) <= Len(q)
           /\ \A t \in Int : t >= cutoff =>
                CountIn(Popped(q, cutoff), QueuedAfter(t)) = CountIn(q, QueuedAfter(t))
<1> DEFINE young == {i \in DOMAIN q : q[i].at > cutoff}
<1>1. Len(q) \in Nat /\ DOMAIN q = 1 .. Len(q)
  BY LenProperties
<1>2. \A i \in DOMAIN q : q[i].at \in Nat
  <2>1. \A i \in DOMAIN q : q[i] \in Entries
    BY <1>1, ElementOfSeq
  <2>2. MailTimes \subseteq Nat
    BY MailNumbers
  <2>3. QED
    BY <2>1, <2>2 DEF Entries
<1>3. ASSUME NEW t \in Int, t >= cutoff, NEW i \in DOMAIN q, i \notin young
      PROVE  q[i] \notin QueuedAfter(t)
  BY <1>2, <1>3 DEF QueuedAfter
<1>4. CASE young = {}
  <2>1. Popped(q, cutoff) = <<>> /\ Len(<<>>) = 0
    BY <1>4 DEF Popped
  <2>2. \A t \in Int : t >= cutoff =>
            /\ Hits(q, QueuedAfter(t)) = {}
            /\ Hits(<<>>, QueuedAfter(t)) = {}
    BY <1>3, <1>4 DEF Hits
  <2>3. \A t \in Int : t >= cutoff =>
            CountIn(<<>>, QueuedAfter(t)) = CountIn(q, QueuedAfter(t))
    BY <2>2 DEF CountIn
  <2>4. QED
    BY <1>1, <2>1, <2>3
<1>5. CASE young # {}
  <2>1. young \in SUBSET Nat
    BY <1>1
  <2>2. Min(young) \in young /\ \A i \in young : Min(young) <= i
    BY <1>5, <2>1, MinOfNats
  <2>3. PICK m \in 1 .. Len(q) : m = Min(young)
    BY <1>1, <2>2
  <2>4. Popped(q, cutoff) = SubSeq(q, m, Len(q))
    BY <1>5, <2>3 DEF Popped
  <2>5. ASSUME NEW i \in 1 .. m - 1 PROVE i \in DOMAIN q /\ i \notin young
    <3>1. i \in DOMAIN q /\ i < m /\ m \in Nat /\ i \in Nat
      BY <1>1
    <3>2. ASSUME i \in young PROVE FALSE
      <4>1. m <= i
        BY <2>2, <2>3, <3>2
      <4>2. QED
        BY <3>1, <4>1
    <3>3. QED
      BY <3>1, <3>2
  <2>6. \A t \in Int : t >= cutoff =>
            CountIn(Popped(q, cutoff), QueuedAfter(t)) = CountIn(q, QueuedAfter(t))
    <3>1. ASSUME NEW t \in Int, t >= cutoff
          PROVE  \A i \in 1 .. m - 1 : q[i] \notin QueuedAfter(t)
      BY <1>3, <2>5, <3>1
    <3>2. QED
      BY <2>4, <3>1, CountPopped
  <2>7. Len(SubSeq(q, m, Len(q))) <= Len(q)
    BY <1>1
  <2>8. QED
    BY <2>4, <2>6, <2>7
<1>6. QED
  BY <1>4, <1>5

(* A step that lets no mail pass.                                          *)
LEMMA CeilingStays ==
    ASSUME BudgetInv, CeilingInv, sent' = sent, taken' = taken,
           clock' \in {clock, clock + 1},
           \A s \in Senders : mail'[s].read <= clock'
    PROVE  CeilingInv'
<1>1. clock \in Nat /\ DayWindow \in Nat
  BY RowNumbers, MailNumbers DEF BudgetInv
<1>2. ASSUME NEW t \in Int, t >= clock' - DayWindow
      PROVE  CountIn(taken, PassedAfter(t)) <= CountIn(sent, QueuedAfter(t))
  <2>1. t >= clock - DayWindow
    <3>1. CASE clock' = clock
      BY <1>2, <3>1
    <3>2. CASE clock' = clock + 1
      <4>1. t >= clock + 1 - DayWindow
        BY <1>1, <1>2, <3>2
      <4>2. QED
        BY <1>1, <4>1
    <3>3. QED
      BY <3>1, <3>2
  <2>2. QED
    BY <2>1 DEF CeilingInv
<1>3. QED
  BY <1>2 DEF CeilingInv, PassedAfter, QueuedAfter

LEMMA CeilingTaken ==
    ASSUME BudgetInv, CeilingInv, NEW s \in Senders, TakeCeiling(s)
    PROVE  CeilingInv'
<1>1. /\ clock \in Nat /\ DayWindow \in Nat /\ Ceiling \in Nat
      /\ mail \in [Senders -> Mails] /\ MailTimes \subseteq Nat
      /\ sent \in Seq(Entries) /\ taken \in Seq(MailTimes)
  BY RowNumbers, MailNumbers DEF BudgetInv, MailTyped, CeilingInv
<1> DEFINE cutoff == mail[s].read - DayWindow
<1>2. /\ mail[s].read \in MailTimes /\ mail[s].read \in Nat
      /\ mail[s].read <= clock /\ cutoff \in Int
  <2>1. mail[s].read \in MailTimes /\ mail[s].read <= clock
    BY <1>1 DEF CeilingInv, Mails
  <2>2. PICK n \in Nat : n = mail[s].read
    BY <1>1, <2>1
  <2>3. cutoff = n - DayWindow
    BY <2>2
  <2>4. cutoff \in Int
    BY <1>1, <2>3
  <2>5. QED
    BY <2>1, <2>2, <2>4
<1>3. PICK q \in Seq(Entries) :
        /\ q = Popped(sent, cutoff)
        /\ \/ sent' = q /\ taken' = taken
           \/ /\ Len(q) < LimitOf(mail[s].priority)
              /\ \E e \in Entries : /\ e.at = mail[s].read
                                    /\ sent' = Append(q, e)
                                    /\ taken' = Append(taken, e.at)
  BY TakeCases
<1>4. /\ Len(q) <= Ceiling /\ Len(q) \in Nat
      /\ \A t \in Int : t >= cutoff =>
            CountIn(q, QueuedAfter(t)) = CountIn(sent, QueuedAfter(t))
  <2>1. Len(sent) <= Ceiling /\ Len(sent) \in Nat /\ Len(q) \in Nat
    BY <1>1, LenProperties DEF CeilingInv
  <2>2. QED
    BY <1>1, <1>2, <1>3, <2>1, PoppedYoung
<1>5. ASSUME NEW t \in Int, t >= clock - DayWindow
      PROVE  /\ CountIn(taken, PassedAfter(t)) <= CountIn(q, QueuedAfter(t))
             /\ CountIn(taken, PassedAfter(t)) \in Nat
             /\ CountIn(q, QueuedAfter(t)) \in Nat
  <2>1. t >= cutoff
    BY <1>1, <1>2, <1>5
  <2>2. CountIn(taken, PassedAfter(t)) <= CountIn(sent, QueuedAfter(t))
    BY <1>5 DEF CeilingInv
  <2>3. QED
    BY <1>1, <1>4, <2>1, <2>2, HitsFinite
<1>6. \A r \in Senders : mail'[r].read <= clock
  <2>1. /\ mail' = [mail EXCEPT ![s] = Idle]
           \/ mail' = [mail EXCEPT ![s] = [Idle EXCEPT !.at = "send"]]
        /\ clock' = clock
    BY DEF TakeCeiling, Ends
  <2>2. \E m : mail' = [mail EXCEPT ![s] = m] /\ m.read = 0
    BY <2>1 DEF Idle
  <2>3. QED
    BY <1>1, <2>2 DEF CeilingInv
<1>7. clock' = clock
  BY DEF TakeCeiling
<1>8. CASE sent' = q /\ taken' = taken
  BY <1>1, <1>4, <1>5, <1>6, <1>7, <1>8 DEF CeilingInv, PassedAfter, QueuedAfter
<1>9. CASE /\ Len(q) < LimitOf(mail[s].priority)
           /\ \E e \in Entries : /\ e.at = mail[s].read
                                 /\ sent' = Append(q, e)
                                 /\ taken' = Append(taken, e.at)
  <2>1. PICK e \in Entries : /\ e.at = mail[s].read
                             /\ sent' = Append(q, e)
                             /\ taken' = Append(taken, e.at)
    BY <1>9
  <2>2. e.at \in MailTimes
    BY <1>2, <2>1
  <2>3. taken' \in Seq(MailTimes) /\ Len(sent') = Len(q) + 1
    BY <1>1, <2>1, <2>2, AppendProperties
  <2>4. Len(q) < Ceiling
    BY <1>1, <1>4, <1>9, ReservedPart DEF LimitOf
  <2>5. ASSUME NEW t \in Int, t >= clock - DayWindow
        PROVE  CountIn(taken', PassedAfter(t)) <= CountIn(sent', QueuedAfter(t))
    <3>1. CountIn(taken', PassedAfter(t))
            = CountIn(taken, PassedAfter(t)) + (IF e.at \in PassedAfter(t) THEN 1 ELSE 0)
      BY <1>1, <2>1, <2>2, CountAppend
    <3>2. CountIn(sent', QueuedAfter(t))
            = CountIn(q, QueuedAfter(t)) + (IF e \in QueuedAfter(t) THEN 1 ELSE 0)
      BY <2>1, CountAppend
    <3>3. e.at \in PassedAfter(t) <=> e \in QueuedAfter(t)
      BY <2>2 DEF PassedAfter, QueuedAfter
    <3>4. QED
      BY <1>5, <2>5, <3>1, <3>2, <3>3
  <2>6. Len(sent') <= Ceiling
    BY <1>1, <1>4, <2>3, <2>4
  <2>7. QED
    BY <1>6, <1>7, <2>3, <2>5, <2>6 DEF CeilingInv, PassedAfter, QueuedAfter
<1>10. QED
  BY <1>3, <1>8, <1>9

LEMMA NextCeiling == BudgetInv /\ CeilingInv /\ [MailNext]_mailVars => CeilingInv'
<1>1. SUFFICES ASSUME BudgetInv, CeilingInv, [MailNext]_mailVars PROVE CeilingInv'
  OBVIOUS
<1>2. /\ mail \in [Senders -> Mails] /\ clock \in Nat /\ Idle.read = 0
      /\ \A s \in Senders : mail[s].read <= clock /\ mail[s].read \in Nat
  <2>1. mail \in [Senders -> Mails] /\ MailTimes \subseteq Nat
    BY <1>1, MailNumbers DEF BudgetInv, MailTyped
  <2>2. QED
    BY <1>1, <2>1, RowNumbers DEF BudgetInv, CeilingInv, Mails, Idle
<1>3. ASSUME NEW s \in Senders,
             \/ CheckBudget(s) \/ RecordGlobal(s) \/ RecordSource(s)
             \/ StoreFails(s) \/ ReadTime(s) \/ OtherMail(s) \/ Send(s)
      PROVE  CeilingInv'
  <2>1. sent' = sent /\ taken' = taken /\ clock' = clock
    BY <1>3 DEF CheckBudget, RecordGlobal, RecordSource, StoreFails, ReadTime,
      OtherMail, Send
  <2>2. \E m : mail' = [mail EXCEPT ![s] = m] /\ m.read \in {0, clock, mail[s].read}
    <3>1. CASE RecordGlobal(s)
      <4> DEFINE m == [mail[s] EXCEPT !.at = "source", !.slot = NewRow(Global)]
      <4>1. mail' = [mail EXCEPT ![s] = m]
        BY <1>2, <3>1 DEF RecordGlobal
      <4>2. m.read = mail[s].read
        BY <1>2 DEF Mails
      <4>3. QED
        BY <4>1, <4>2
    <3>2. CASE ReadTime(s)
      <4> DEFINE m == [mail[s] EXCEPT !.at = "ceiling", !.read = clock]
      <4>1. mail' = [mail EXCEPT ![s] = m]
        BY <1>2, <3>2 DEF ReadTime
      <4>2. m.read = clock
        BY <1>2 DEF Mails
      <4>3. QED
        BY <4>1, <4>2
    <3>3. CASE CheckBudget(s) \/ OtherMail(s)
      BY <3>3 DEF CheckBudget, OtherMail, Idle
    <3>4. CASE RecordSource(s) \/ StoreFails(s) \/ Send(s)
      BY <3>4 DEF RecordSource, StoreFails, Send, Ends, Idle
    <3>5. QED
      BY <1>3, <3>1, <3>2, <3>3, <3>4
  <2>3. \A r \in Senders : mail'[r].read <= clock
    BY <1>2, <2>2
  <2>4. QED
    BY <1>1, <2>1, <2>3, CeilingStays
<1>4. CASE Advance \/ Sweep \/ UNCHANGED mailVars
  <2>1. /\ sent' = sent /\ taken' = taken /\ mail' = mail
        /\ clock' \in {clock, clock + 1}
    BY <1>4 DEF Advance, Sweep, mailVars
  <2>2. \A s \in Senders : mail'[s].read <= clock'
    BY <1>2, <2>1
  <2>3. QED
    BY <1>1, <2>1, <2>2, CeilingStays
<1>5. CASE Crash
  <2>1. /\ sent' = <<>> /\ taken' = <<>> /\ clock' = clock
        /\ mail' = [s \in Senders |-> Idle]
    BY <1>5 DEF Crash
  <2>2. \A P : CountIn(<<>>, P) = 0
    <3>1. \A P : Hits(<<>>, P) = {}
      BY DEF Hits
    <3>2. QED
      BY <3>1, FS_EmptySet DEF CountIn
  <2>3. <<>> \in Seq(MailTimes) /\ Len(<<>>) = 0
    OBVIOUS
  <2>4. \A s \in Senders : mail'[s].read <= clock
    BY <1>2, <2>1
  <2>5. QED
    BY <2>1, <2>2, <2>3, <2>4, MailNumbers DEF CeilingInv
<1>6. QED
  BY <1>1, <1>3, <1>4, <1>5, CeilingTaken DEF MailNext, Step

(* A process lets no more mail pass in a rolling day than the ceiling, by  *)
(* the times that were read, for any number of threads that read before    *)
(* the lock and enter it in any order (SendCeiling.take).                  *)
THEOREM MailKeepsCeiling == MailSpec => []CeilingKept
<1>1. MailInit => CeilingInv
  <2>1. ASSUME MailInit PROVE CeilingInv
    <3>1. \A P : CountIn(<<>>, P) = 0
      <4>1. \A P : Hits(<<>>, P) = {}
        BY DEF Hits
      <4>2. QED
        BY <4>1, FS_EmptySet DEF CountIn
    <3>2. /\ sent = <<>> /\ taken = <<>> /\ clock = 0
          /\ mail = [s \in Senders |-> Idle]
      BY <2>1 DEF MailInit
    <3>3. <<>> \in Seq(MailTimes) /\ Len(<<>>) = 0
      OBVIOUS
    <3>4. \A s \in Senders : mail[s].read <= clock
      BY <3>2 DEF Idle
    <3>5. QED
      BY <3>1, <3>2, <3>3, <3>4, MailNumbers DEF CeilingInv
  <2>2. QED
    BY <2>1
<1>2. BudgetInv /\ CeilingInv /\ [MailNext]_mailVars => CeilingInv'
  BY NextCeiling
<1>3. ASSUME BudgetInv, CeilingInv PROVE CeilingKept
  <2> DEFINE start == clock - DayWindow
  <2>1. clock \in Nat /\ DayWindow \in Nat /\ start \in Int
    BY <1>3, RowNumbers, MailNumbers DEF BudgetInv
  <2>2. /\ taken \in Seq(MailTimes) /\ sent \in Seq(Entries)
        /\ Len(sent) <= Ceiling /\ Len(sent) \in Nat /\ Ceiling \in Nat
    BY <1>3, MailNumbers, LenProperties DEF BudgetInv, MailTyped, CeilingInv
  <2>3. CountIn(taken, PassedAfter(start)) <= CountIn(sent, QueuedAfter(start))
    BY <1>3, <2>1 DEF CeilingInv
  <2> HIDE DEF start
  <2>4. /\ CountIn(sent, QueuedAfter(start)) <= Len(sent)
        /\ CountIn(sent, QueuedAfter(start)) \in Nat
        /\ CountIn(taken, PassedAfter(start)) \in Nat
    BY <2>2, HitsFinite
  <2>5. Hits(taken, PassedAfter(start)) = {i \in DOMAIN taken : taken[i] > start}
    <3>1. \A i \in DOMAIN taken : taken[i] \in MailTimes
      BY <2>2, LenProperties, ElementOfSeq
    <3>2. QED
      BY <3>1 DEF Hits, PassedAfter
  <2>6. Cardinality({i \in DOMAIN taken : taken[i] > start}) <= Ceiling
    BY <2>2, <2>3, <2>4, <2>5 DEF CountIn
  <2>7. QED
    BY <2>6 DEF CeilingKept, Quantify, start
<1>4. QED
  BY <1>1, <1>2, <1>3, BudgetHolds, PTL DEF MailSpec
-----------------------------------------------------------------------------
(* Sweeping attempts changes no count a limit is compared with, for they   *)
(* are kept longer than any window looks back (GuestStore.sweep).          *)
THEOREM MailSweepsHarmlessly == MailSpec => SweepHarmless
<1>1. ASSUME BudgetInv, [MailNext]_mailVars, ~(rows \subseteq rows'),
             NEW k \in Sources \cup {Global}
      PROVE  /\ CountAt(k, HourWindow)' = CountAt(k, HourWindow)
             /\ CountAt(k, DayWindow)' = CountAt(k, DayWindow)
  <2>1. Sweep
    BY <1>1 DEF MailNext, Step, mailVars, Advance, Crash, CheckBudget,
      RecordGlobal, RecordSource, StoreFails, ReadTime, OtherMail,
      TakeCeiling, Send, Record
  <2>2. /\ rows' = {r \in rows : r.at >= clock - Kept} /\ clock' = clock
        /\ clock \in Int /\ \A r \in rows : r.at \in Int
    BY <1>1, <2>1, RowTimes DEF Sweep, BudgetInv
  <2>3. ASSUME NEW w \in Nat, w < Kept PROVE CountAt(k, w)' = CountAt(k, w)
    <3>1. \A r \in rows : r.at > clock - w => r.at >= clock - Kept
      BY <2>2, <2>3, MailNumbers
    <3>2. RowsOf(k, w)' = RowsOf(k, w)
      BY <2>2, <3>1 DEF RowsOf
    <3>3. QED
      BY <3>2 DEF CountAt
  <2>4. QED
    BY <2>3, MailNumbers
<1>2. BudgetInv /\ [MailNext]_mailVars
        => [~(rows \subseteq rows')
            => \A k \in Sources \cup {Global} :
                /\ CountAt(k, HourWindow)' = CountAt(k, HourWindow)
                /\ CountAt(k, DayWindow)' = CountAt(k, DayWindow)]_mailVars
  BY <1>1
<1>3. QED
  BY <1>2, BudgetHolds, PTL DEF MailSpec, SweepHarmless
=============================================================================
