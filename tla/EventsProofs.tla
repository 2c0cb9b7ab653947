---------------------------- MODULE EventsProofs ----------------------------
(***************************************************************************)
(* Proofs about the events and the objects on them, for any number of      *)
(* tasks, events, timers, completions and bridges: the two records of a    *)
(* wait agree, no signal is missed, deadlines are kept across the wrap of  *)
(* the clock, event.c implements the promise of AbstractEvents as long as  *)
(* no stop signal breaks a wait, and what a timer, a completion or a       *)
(* bridge has to announce is announced until it is taken.                  *)
(***************************************************************************)
EXTENDS Async, TLAPS, WellFoundedInduction

\* The types of events and waits, without those of time.
WaitTypes ==
    /\ active \in [Events -> BOOLEAN] /\ manual \in [Events -> BOOLEAN]
    /\ signaled \in [Events -> BOOLEAN]
    /\ waiters \in [Events -> SUBSET Tasks] /\ wait_set \in [Tasks -> SUBSET Events]
    /\ state \in [Tasks -> {"running", "event", "stopped", "dead"}]
    /\ result \in [Tasks -> Results]

\* The inductive invariant: a task is registered exactly while it is parked,
\* on active events that are not signaled, in both records.
WaitInv ==
    /\ WaitTypes
    /\ WaitRecordsAgree
    /\ NoMissedSignal
    /\ BrokenWaitIsOver

-----------------------------------------------------------------------------
\* The bits of an event are the tasks that list it, and all of them are parked.
LEMMA WaitersAreListed ==
    ASSUME WaitInv, NEW e \in Events
    PROVE  /\ \A t \in Tasks : t \in waiters[e] <=> e \in wait_set[t]
           /\ Parked(waiters[e]) = waiters[e]
           /\ waiters[e] = {t \in Tasks : e \in wait_set[t]}
<1>1. waiters[e] \subseteq Tasks
  BY DEF WaitInv, WaitTypes
<1>2. ASSUME NEW t \in waiters[e]
      PROVE  e \in wait_set[t] /\ state[t] = "event"
  <2>1. e \in wait_set[t]
    BY <1>2 DEF WaitInv, WaitRecordsAgree
  <2> QED BY <1>1, <1>2, <2>1 DEF WaitInv, BrokenWaitIsOver
<1>3. ASSUME NEW t \in Tasks, e \in wait_set[t]
      PROVE  t \in waiters[e]
  <2>1. state[t] = "event"
    BY <1>3 DEF WaitInv, BrokenWaitIsOver
  <2> QED BY <1>3, <2>1 DEF WaitInv, WaitRecordsAgree
<1> QED BY <1>1, <1>2, <1>3 DEF Parked

\* A wake takes the parked tasks of W out of both records, and leaves the
\* others alone.
LEMMA WakeWorks ==
    ASSUME WaitInv, NEW E \in SUBSET Events, NEW W \in SUBSET Tasks, NEW r \in Results,
           Wake(E, W, r),
           \A e \in E : \A t \in W : t \in waiters[e] => state[t] = "event"
    PROVE  /\ waiters' = [e \in Events |-> waiters[e] \ Parked(W)]
           /\ waiters' \in [Events -> SUBSET Tasks]
           /\ wait_set' = [t \in Tasks |-> IF t \in Parked(W) THEN {} ELSE wait_set[t]]
           /\ wait_set' \in [Tasks -> SUBSET Events]
           /\ state' = [t \in Tasks |-> IF t \in Parked(W) THEN "running" ELSE state[t]]
           /\ state' \in [Tasks -> {"running", "event", "stopped", "dead"}]
           /\ result' = [t \in Tasks |-> IF t \in Parked(W) THEN r ELSE result[t]]
           /\ result' \in [Tasks -> Results]
           /\ BrokenWaitIsOver'
<1>1. WaitTypes
  BY DEF WaitInv
<1>2. Parked(W) \subseteq Tasks /\ \A t \in Parked(W) : state[t] = "event"
  BY DEF Parked
<1>3. waiters' = [e \in Events |-> waiters[e] \ Parked(W)]
  <2>1. ASSUME NEW e \in Events, NEW t \in waiters[e]
        PROVE  (~(e \in E /\ t \in W) /\ ~(t \in Parked(W) /\ e \in wait_set[t] /\ active[e]))
               <=> t \notin Parked(W)
    <3>1. e \in wait_set[t] /\ active[e]
      BY <2>1 DEF WaitInv, WaitRecordsAgree
    <3> QED BY <3>1, <2>1 DEF Parked
  <2>2. \A e \in Events :
          {t \in waiters[e] : ~(e \in E /\ t \in W) /\ ~(t \in Parked(W) /\ e \in wait_set[t] /\ active[e])}
            = waiters[e] \ Parked(W)
    BY <2>1
  <2> QED BY <2>2 DEF Wake, WaitersCleared
<1>4. waiters' \in [Events -> SUBSET Tasks]
  BY <1>1, <1>3 DEF WaitTypes
<1>5. wait_set' \in [Tasks -> SUBSET Events]
  BY <1>1 DEF WaitTypes, Wake
<1>6. state' \in [Tasks -> {"running", "event", "stopped", "dead"}]
  BY <1>1 DEF WaitTypes, Wake
<1>7. result' \in [Tasks -> Results]
  BY <1>1 DEF WaitTypes, Wake
<1>8. BrokenWaitIsOver'
  <2> SUFFICES ASSUME NEW t \in Tasks, state'[t] # "event"
               PROVE  wait_set'[t] = {}
    BY DEF BrokenWaitIsOver
  <2> QED BY DEF Wake, WaitInv, BrokenWaitIsOver
<1> QED BY <1>3, <1>4, <1>5, <1>6, <1>7, <1>8 DEF Wake

\* A wake keeps the records of a wait in step.
LEMMA WakeKeepsRecords ==
    ASSUME WaitInv, NEW E \in SUBSET Events, NEW W \in SUBSET Tasks, NEW r \in Results,
           Wake(E, W, r),
           \A e \in E : \A t \in W : t \in waiters[e] => state[t] = "event",
           \A e \in Events : active'[e] = active[e] \/ waiters[e] \subseteq W
    PROVE  WaitRecordsAgree'
<1>1. /\ waiters' = [e \in Events |-> waiters[e] \ Parked(W)]
      /\ wait_set' = [t \in Tasks |-> IF t \in Parked(W) THEN {} ELSE wait_set[t]]
      /\ state' = [t \in Tasks |-> IF t \in Parked(W) THEN "running" ELSE state[t]]
  BY WakeWorks, Zenon
<1>2. \A e \in Events, t \in Tasks : t \in waiters[e] <=> e \in wait_set[t]
  BY WaitersAreListed
<1>3. \A e \in Events : waiters[e] \subseteq Tasks
  BY DEF WaitInv, WaitTypes
<1>4. \A e \in Events : Parked(waiters[e]) = waiters[e]
  BY WaitersAreListed
<1>5. ASSUME NEW e \in Events, NEW t \in waiters'[e]
      PROVE  e \in wait_set'[t] /\ active'[e]
  <2>1. t \in waiters[e] /\ t \notin Parked(W) /\ t \in Tasks
    BY <1>1, <1>3, <1>5
  <2>2. state[t] = "event"
    BY <1>4, <2>1 DEF Parked
  <2>3. active'[e] = active[e]
    BY <2>1, <2>2 DEF Parked
  <2>4. active[e] /\ e \in wait_set[t]
    BY <2>1 DEF WaitInv, WaitRecordsAgree
  <2> QED BY <1>1, <2>1, <2>3, <2>4
<1>6. ASSUME NEW t \in Tasks, state'[t] = "event"
      PROVE  wait_set'[t] # {} /\ \A e \in wait_set'[t] : active'[e] /\ t \in waiters'[e]
  <2>1. t \notin Parked(W) /\ state[t] = "event"
    BY <1>1, <1>6
  <2>2. wait_set'[t] = wait_set[t] /\ wait_set[t] # {} /\ wait_set[t] \subseteq Events
    BY <1>1, <2>1 DEF WaitInv, WaitRecordsAgree, WaitTypes
  <2>3. ASSUME NEW e \in wait_set[t]
        PROVE  active'[e] /\ t \in waiters'[e]
    <3>1. t \in waiters[e] /\ e \in Events
      BY <1>2, <2>2, <2>3
    <3>2. t \in waiters'[e]
      BY <1>1, <2>1, <3>1
    <3> QED BY <1>5, <3>1, <3>2
  <2> QED BY <2>2, <2>3
<1> QED BY <1>5, <1>6 DEF WaitRecordsAgree

\* An auto-reset signal finds a first waiter whenever there is one.
LEMMA FirstWaiterExists ==
    ASSUME WaitInv, NEW e \in Events, waiters[e] # {}
    PROVE  \E t \in waiters[e] : FirstWaiter(e) = {t}
<1> DEFINE R == OpToRel(<, Nat)
<1>1. waiters[e] \subseteq Nat
  BY EventsAssumption, Zenon DEF WaitInv, WaitTypes
<1>2. IsWellFoundedOn(R, Nat)
  BY NatLessThanWellFounded, Zenon
<1>3. PICK t \in waiters[e] : \A u \in waiters[e] : <<u, t>> \notin R
  BY ONLY WFMin, <1>1, <1>2, waiters[e] # {}, Zenon
<1>4. ASSUME NEW u \in waiters[e]
      PROVE  t <= u
  <2>1. t \in Nat /\ u \in Nat /\ <<u, t>> \notin R
    BY <1>1, <1>3, Zenon
  <2>2. ~(u < t)
    BY <2>1 DEF OpToRel
  <2> HIDE DEF R
  <2> QED BY <2>1, <2>2
<1>5. ASSUME NEW u \in FirstWaiter(e)
      PROVE  u = t
  <2>1. u \in waiters[e] /\ u <= t /\ t <= u
    BY <1>4, <1>5 DEF FirstWaiter
  <2> QED BY <1>1, <2>1
<1> QED BY <1>4, <1>5 DEF FirstWaiter

-----------------------------------------------------------------------------
(* The steps keep the invariant.                                             *)

\* Before the first call nobody waits.
LEMMA InitKeeps == Init => WaitInv
<1> SUFFICES ASSUME Init PROVE WaitInv
  OBVIOUS
<1>1. WaitTypes
  BY DEF Init, WaitTypes, Results
<1>2. WaitRecordsAgree /\ NoMissedSignal /\ BrokenWaitIsOver
  BY DEF Init, WaitRecordsAgree, NoMissedSignal, BrokenWaitIsOver
<1> QED BY <1>1, <1>2 DEF WaitInv

\* event_create: a new event has no waiters yet.
LEMMA CreateKeeps ==
    ASSUME WaitInv, NEW e \in Events, NEW m \in BOOLEAN, NEW s \in BOOLEAN, EventCreate(e, m, s)
    PROVE  WaitInv'
<1>1. WaitTypes'
  BY DEF EventCreate, WaitInv, WaitTypes, waits, task
<1>2. waiters[e] = {} /\ waiters' = waiters
  <2>1. waiters[e] = {}
    BY DEF EventCreate, WaitInv, WaitRecordsAgree
  <2> QED BY <2>1 DEF EventCreate, WaitInv, WaitTypes
<1>3. \A f \in Events : active[f] => active'[f]
  BY DEF EventCreate, WaitInv, WaitTypes
<1>4. wait_set' = wait_set /\ state' = state
  BY DEF EventCreate, waits, task
<1>5. WaitRecordsAgree'
  BY <1>2, <1>3, <1>4 DEF WaitInv, WaitTypes, WaitRecordsAgree
<1>6. NoMissedSignal'
  BY <1>2 DEF EventCreate, WaitInv, WaitTypes, NoMissedSignal
<1>7. BrokenWaitIsOver'
  BY <1>4 DEF WaitInv, BrokenWaitIsOver
<1> QED BY <1>1, <1>5, <1>6, <1>7 DEF WaitInv

\* event_destroy wakes every waiter of the event.
LEMMA DestroyKeeps ==
    ASSUME WaitInv, NEW e \in Events, EventDestroy(e)
    PROVE  WaitInv'
<1>1. waiters[e] \in SUBSET Tasks /\ {e} \in SUBSET Events /\ "gone" \in Results
  BY DEF WaitInv, WaitTypes, Results
<1>2. \A t \in waiters[e] : state[t] = "event"
  BY WaitersAreListed DEF Parked
<1>3. Wake({e}, waiters[e], "gone") /\ active' = [active EXCEPT ![e] = FALSE]
      /\ signaled' = [signaled EXCEPT ![e] = FALSE] /\ manual' = manual
  BY DEF EventDestroy
<1>4. /\ waiters' = [f \in Events |-> waiters[f] \ Parked(waiters[e])]
      /\ waiters' \in [Events -> SUBSET Tasks] /\ wait_set' \in [Tasks -> SUBSET Events]
      /\ state' \in [Tasks -> {"running", "event", "stopped", "dead"}]
      /\ result' \in [Tasks -> Results] /\ BrokenWaitIsOver'
  BY <1>1, <1>2, <1>3, WakeWorks, Zenon
<1>5. \A f \in Events : active'[f] = active[f] \/ waiters[f] \subseteq waiters[e]
  BY <1>3, Zenon DEF WaitInv, WaitTypes
<1>6. WaitRecordsAgree'
  BY <1>1, <1>2, <1>3, <1>5, WakeKeepsRecords, Zenon
<1>7. WaitTypes'
  BY <1>3, <1>4 DEF WaitInv, WaitTypes
<1>8. NoMissedSignal'
  BY <1>3, <1>4 DEF WaitInv, WaitTypes, NoMissedSignal
<1> QED BY <1>4, <1>6, <1>7, <1>8 DEF WaitInv

\* What a signal wakes: all waiters of a manual event, else the first.
LEMMA WokenIsParked ==
    ASSUME WaitInv, NEW e \in Events
    PROVE  /\ Woken(e) \subseteq waiters[e] /\ Woken(e) \subseteq Tasks
           /\ Parked(Woken(e)) = Woken(e)
           /\ manual[e] \/ waiters[e] = {} => Woken(e) = waiters[e]
<1>1. Woken(e) \subseteq waiters[e]
  BY DEF Woken, FirstWaiter
<1>2. waiters[e] \subseteq Tasks /\ Parked(waiters[e]) = waiters[e]
  BY WaitersAreListed DEF WaitInv, WaitTypes
<1>3. Parked(Woken(e)) = Woken(e)
  BY <1>1, <1>2 DEF Parked
<1>4. manual[e] \/ waiters[e] = {} => Woken(e) = waiters[e]
  BY <1>1 DEF Woken
<1> QED BY <1>1, <1>2, <1>3, <1>4

\* event_signal leaves nobody asleep on a signal.
LEMMA SignalKeeps ==
    ASSUME WaitInv, NEW e \in Events, EventSignal(e)
    PROVE  WaitInv'
<1>1. Woken(e) \in SUBSET Tasks /\ {e} \in SUBSET Events /\ e \in Results
  BY WokenIsParked DEF Results
<1>2. \A t \in Woken(e) : state[t] = "event"
  BY WokenIsParked DEF Parked
<1>3. Wake({e}, Woken(e), e) /\ active' = active /\ manual' = manual /\ signaled' = Signaled(e)
  BY DEF EventSignal
<1>4. /\ waiters' = [f \in Events |-> waiters[f] \ Parked(Woken(e))]
      /\ waiters' \in [Events -> SUBSET Tasks] /\ wait_set' \in [Tasks -> SUBSET Events]
      /\ state' \in [Tasks -> {"running", "event", "stopped", "dead"}]
      /\ result' \in [Tasks -> Results] /\ BrokenWaitIsOver'
  BY <1>1, <1>2, <1>3, WakeWorks, Zenon
<1>5. WaitRecordsAgree'
  BY <1>1, <1>2, <1>3, WakeKeepsRecords
<1>6. WaitTypes'
  <2>1. signaled' \in [Events -> BOOLEAN]
    BY <1>3 DEF WaitInv, WaitTypes, Signaled
  <2> QED BY <1>3, <1>4, <2>1 DEF WaitInv, WaitTypes
<1>7. NoMissedSignal'
  <2> SUFFICES ASSUME NEW f \in Events, signaled'[f] PROVE waiters'[f] = {}
    BY DEF NoMissedSignal
  <2>1. CASE signaled[f]
    BY <2>1, <1>4 DEF WaitInv, NoMissedSignal
  <2>2. CASE ~signaled[f]
    <3>1. f = e /\ (waiters[e] = {} \/ manual[e])
      BY <1>3, <2>2 DEF Signaled, WaitInv, WaitTypes
    <3>2. Parked(Woken(e)) = waiters[e]
      BY <3>1, WokenIsParked
    <3> QED BY <1>4, <3>1, <3>2
  <2> QED BY <2>1, <2>2
<1> QED BY <1>4, <1>5, <1>6, <1>7 DEF WaitInv

\* event_reset only clears a signal.
LEMMA ResetKeeps ==
    ASSUME WaitInv, NEW e \in Events, EventReset(e)
    PROVE  WaitInv'
<1>1. UNCHANGED <<active, manual, waiters, wait_set, state, result>>
  BY DEF EventReset, waits, task
<1>2. WaitTypes'
  BY <1>1 DEF EventReset, WaitInv, WaitTypes
<1>3. NoMissedSignal'
  BY <1>1 DEF EventReset, WaitInv, WaitTypes, NoMissedSignal
<1>4. WaitRecordsAgree' /\ BrokenWaitIsOver'
  BY <1>1 DEF WaitInv, WaitRecordsAgree, BrokenWaitIsOver
<1> QED BY <1>2, <1>3, <1>4 DEF WaitInv

\* The entries of a list are active events, and there is at least one.
LEMMA ListsAreActive ==
    ASSUME NEW w \in Lists
    PROVE  /\ \A i \in DOMAIN w : w[i] \in Events /\ active[w[i]]
           /\ {w[i] : i \in DOMAIN w} \subseteq Events
           /\ {w[i] : i \in DOMAIN w} # {}
<1>1. PICK n \in 1 .. WaitMax : w \in [1 .. n -> {e \in Events : active[e]}]
  BY DEF Lists
<1>2. 1 \in DOMAIN w
  BY <1>1, EventsAssumption
<1> QED BY <1>1, <1>2

\* event_wait_many parks only when none of its events is signaled.
LEMMA WaitKeeps ==
    ASSUME WaitInv, NEW t \in Tasks, NEW w \in Lists, NEW timeout \in Timeouts, WaitMany(t, w, timeout)
    PROVE  WaitInv'
<1>1. ASSUME WaitRefused(t, w) PROVE WaitInv'
  <2>1. UNCHANGED <<active, manual, signaled, waiters, wait_set, state>>
    BY <1>1 DEF WaitRefused, Answer, event, waits
  <2>2. result' \in [Tasks -> Results]
    BY <1>1 DEF WaitRefused, Answer, WaitInv, WaitTypes, Results
  <2> QED BY <2>1, <2>2 DEF WaitInv, WaitTypes, WaitRecordsAgree, NoMissedSignal, BrokenWaitIsOver
<1>2. ASSUME WaitReady(t, w) PROVE WaitInv'
  <2>1. PICK i \in DOMAIN w : /\ ScanEnd(w, i) /\ ~Bad(w, i)
                              /\ signaled' = [signaled EXCEPT ![w[i]] = manual[w[i]]]
                              /\ Answer(t, w[i])
    BY <1>2, Zenon DEF WaitReady
  <2>2. UNCHANGED <<active, manual, waiters, wait_set, state>>
    BY <1>2, <2>1 DEF WaitReady, Answer, waits
  <2>3. w[i] \in Events
    BY ListsAreActive
  <2>4. signaled[w[i]]
    BY <2>1 DEF ScanEnd, Stops
  <2>5. result' \in [Tasks -> Results]
    BY <2>1, <2>3 DEF Answer, WaitInv, WaitTypes, Results
  <2>6. signaled' \in [Events -> BOOLEAN]
    BY <2>1, <2>3 DEF WaitInv, WaitTypes
  <2>7. NoMissedSignal'
    BY <2>1, <2>2, <2>3, <2>4 DEF WaitInv, WaitTypes, NoMissedSignal
  <2> QED BY <2>2, <2>5, <2>6, <2>7 DEF WaitInv, WaitTypes, WaitRecordsAgree, BrokenWaitIsOver
<1>3. ASSUME WaitParks(t, w, timeout) PROVE WaitInv'
  <2> DEFINE S == {w[i] : i \in DOMAIN w}
  <2>1. S \subseteq Events /\ S # {} /\ \A e \in S : active[e]
    BY ListsAreActive
  <2>2. \A e \in S : ~signaled[e]
    BY <1>3 DEF WaitParks, Stops
  <2>3. /\ waiters' = [e \in Events |-> IF e \in S THEN waiters[e] \cup {t} ELSE waiters[e]]
        /\ wait_set' = [wait_set EXCEPT ![t] = S] /\ state' = [state EXCEPT ![t] = "event"]
        /\ result' = [result EXCEPT ![t] = "none"]
        /\ UNCHANGED <<active, manual, signaled>>
        /\ state[t] = "running" /\ wait_set[t] = {}
    BY <1>3 DEF WaitParks
  <2> HIDE DEF S
  <2>4. WaitTypes'
    BY <2>1, <2>3 DEF WaitInv, WaitTypes, Results
  <2>5. NoMissedSignal'
    BY <2>1, <2>2, <2>3 DEF WaitInv, NoMissedSignal
  <2>6. BrokenWaitIsOver'
    BY <2>3 DEF WaitInv, WaitTypes, BrokenWaitIsOver
  <2>7. ASSUME NEW e \in Events, NEW u \in waiters'[e] PROVE e \in wait_set'[u] /\ active'[e]
    <3>1. u \in Tasks
      BY <2>4, <2>7 DEF WaitTypes
    <3>2. CASE u = t
      <4>1. t \notin waiters[e]
        BY <2>3 DEF WaitInv, WaitRecordsAgree
      <4>2. e \in S
        BY <2>3, <2>7, <3>2, <4>1
      <4> QED BY <2>1, <2>3, <3>2, <4>2 DEF WaitInv, WaitTypes
    <3>3. CASE u # t
      <4>1. u \in waiters[e]
        BY <2>3, <2>7, <3>3
      <4> QED BY <2>3, <3>1, <3>3, <4>1 DEF WaitInv, WaitRecordsAgree, WaitTypes
    <3> QED BY <3>2, <3>3
  <2>8. ASSUME NEW u \in Tasks, state'[u] = "event"
        PROVE  wait_set'[u] # {} /\ \A e \in wait_set'[u] : active'[e] /\ u \in waiters'[e]
    <3>1. CASE u = t
      BY <2>1, <2>3, <3>1 DEF WaitInv, WaitTypes
    <3>2. CASE u # t
      <4>1. state[u] = "event" /\ wait_set'[u] = wait_set[u] /\ wait_set[u] \subseteq Events
        BY <2>3, <2>8, <3>2 DEF WaitInv, WaitTypes
      <4> QED BY <2>3, <4>1 DEF WaitInv, WaitRecordsAgree
    <3> QED BY <3>1, <3>2
  <2>9. WaitRecordsAgree'
    BY <2>7, <2>8 DEF WaitRecordsAgree
  <2> QED BY <2>4, <2>5, <2>6, <2>9 DEF WaitInv
<1> QED BY <1>1, <1>2, <1>3 DEF WaitMany

\* event_tick ends the waits whose deadline has passed, on both sides.
LEMMA TickKeeps ==
    ASSUME WaitInv, EventTick
    PROVE  WaitInv'
<1> DEFINE W == Expired(NextTick(timer_ticks))
<1>1. W \in SUBSET Tasks /\ {} \in SUBSET Events /\ "ETIMEDOUT" \in Results
  BY DEF Expired, Results
<1>2. Wake({}, W, "ETIMEDOUT") /\ UNCHANGED <<active, manual, signaled>>
  BY DEF EventTick
<1> HIDE DEF W
<1>3. /\ waiters' = [f \in Events |-> waiters[f] \ Parked(W)]
      /\ waiters' \in [Events -> SUBSET Tasks] /\ wait_set' \in [Tasks -> SUBSET Events]
      /\ state' \in [Tasks -> {"running", "event", "stopped", "dead"}]
      /\ result' \in [Tasks -> Results] /\ BrokenWaitIsOver'
  BY <1>1, <1>2, WakeWorks, Zenon
<1>4. WaitRecordsAgree'
  BY <1>1, <1>2, WakeKeepsRecords
<1>5. WaitTypes'
  BY <1>2, <1>3 DEF WaitInv, WaitTypes
<1>6. NoMissedSignal'
  BY <1>2, <1>3 DEF WaitInv, NoMissedSignal
<1> QED BY <1>3, <1>4, <1>5, <1>6 DEF WaitInv

\* event_cancel_task takes a dying task off its event.
LEMMA DeathKeeps ==
    ASSUME WaitInv, NEW t \in Tasks, TaskDies(t)
    PROVE  WaitInv'
<1>1. /\ wait_set' = [wait_set EXCEPT ![t] = {}] /\ state' = [state EXCEPT ![t] = "dead"]
      /\ result' = [result EXCEPT ![t] = "none"] /\ waiters' = ForgetCleared(t)
      /\ UNCHANGED <<active, manual, signaled>>
  BY DEF TaskDies
<1>2. waiters' = [e \in Events |-> waiters[e] \ {t}]
  <2>1. ASSUME NEW e \in Events, t \in waiters[e] PROVE e \in wait_set[t] /\ active[e]
    BY <2>1 DEF WaitInv, WaitRecordsAgree
  <2> QED BY <1>1, <2>1 DEF ForgetCleared
<1>3. WaitTypes'
  BY <1>1, <1>2 DEF WaitInv, WaitTypes, Results
<1>4. NoMissedSignal'
  BY <1>1, <1>2 DEF WaitInv, NoMissedSignal
<1>5. BrokenWaitIsOver'
  BY <1>1 DEF WaitInv, WaitTypes, BrokenWaitIsOver
<1>6. WaitRecordsAgree'
  <2>1. \A e \in Events : waiters[e] \subseteq Tasks
    BY DEF WaitInv, WaitTypes
  <2>2. \A u \in Tasks : u # t => wait_set'[u] = wait_set[u] /\ state'[u] = state[u] /\ wait_set[u] \subseteq Events
    BY <1>1 DEF WaitInv, WaitTypes
  <2>3. state'[t] # "event"
    BY <1>1 DEF WaitInv, WaitTypes
  <2> QED BY <1>1, <1>2, <2>1, <2>2, <2>3 DEF WaitInv, WaitRecordsAgree
<1> QED BY <1>3, <1>4, <1>5, <1>6 DEF WaitInv

\* A slot is reused only by a task that waits for nothing.
LEMMA StartKeeps ==
    ASSUME WaitInv, NEW t \in Tasks, TaskStarts(t)
    PROVE  WaitInv'
<1>1. UNCHANGED <<active, manual, signaled, waiters, wait_set, result>>
      /\ state' = [state EXCEPT ![t] = "running"] /\ state[t] = "dead"
  BY DEF TaskStarts, event, waits
<1>2. WaitTypes'
  BY <1>1 DEF WaitInv, WaitTypes
<1>3. BrokenWaitIsOver'
  BY <1>1 DEF WaitInv, WaitTypes, BrokenWaitIsOver
<1>4. WaitRecordsAgree'
  BY <1>1 DEF WaitInv, WaitTypes, WaitRecordsAgree
<1>5. NoMissedSignal'
  BY <1>1 DEF WaitInv, NoMissedSignal
<1> QED BY <1>2, <1>3, <1>4, <1>5 DEF WaitInv

\* Every step of the specification keeps the invariant.
LEMMA StepKeeps == WaitInv /\ [EventStep]_vars => WaitInv'
<1> SUFFICES ASSUME WaitInv, [EventStep]_vars PROVE WaitInv'
  OBVIOUS
<1>1. CASE UNCHANGED vars
  <2>1. UNCHANGED <<active, manual, signaled, waiters, wait_set, state, result>>
    BY <1>1 DEF vars, event, waits, task
  <2> QED BY <2>1 DEF WaitInv, WaitTypes, WaitRecordsAgree, NoMissedSignal, BrokenWaitIsOver
<1>2. CASE EventCalls(Events)
  BY <1>2, CreateKeeps, DestroyKeeps, SignalKeeps, ResetKeeps DEF EventCalls
<1>3. CASE TaskSteps
  BY <1>3, WaitKeeps, DeathKeeps, StartKeeps DEF TaskSteps
<1>4. CASE EventTick
  BY <1>4, TickKeeps
<1> QED BY <1>1, <1>2, <1>3, <1>4 DEF EventStep

\* Without stop signals a task is registered exactly while it is parked, in both
\* records (event_wait_many, wake_slot, clear_wait_set, event_cancel_task).
THEOREM WaitInvariant == CoreSpec => []WaitInv
<1>1. Init => WaitInv
  BY InitKeeps
<1>2. WaitInv /\ [EventStep]_vars => WaitInv'
  BY StepKeeps
<1> QED BY <1>1, <1>2, PTL DEF CoreSpec

\* The two records of a wait agree and no task sleeps on a signaled event
\* (event_signal, event_wait_many).
THEOREM WaitsAgree == CoreSpec => [](WaitRecordsAgree /\ NoMissedSignal)
<1>1. WaitInv => WaitRecordsAgree /\ NoMissedSignal
  BY DEF WaitInv
<1> QED BY <1>1, WaitInvariant, PTL

----------------------------------------------------------------------------
(***************************************************************************)
(* The clock.                                                              *)
(***************************************************************************)
\* Division with remainder, for either sign.
LEMMA DivMod ==
    ASSUME NEW w \in Nat \ {0}, NEW a \in Int
    PROVE  /\ a = w * (a \div w) + (a % w)
           /\ a % w \in 0 .. w - 1 /\ a \div w \in Int
  BY SMT

\* A number that differs from r by a multiple k of w has remainder r.
LEMMA Remainder ==
    ASSUME NEW w \in Nat \ {0}, NEW a \in Int, NEW k \in Int,
           NEW r \in 0 .. w - 1, a = w * k + r
    PROVE  a % w = r
  <1> DEFINE q == a \div w
             m == a % w
  <1>1. a = w * q + m /\ m \in 0 .. w - 1 /\ q \in Int
    BY DivMod
  <1> HIDE DEF q, m
  <1>2. w * (q - k) = r - m
    BY <1>1
  <1>3. r - m < w /\ r - m > -w
    BY <1>1
  <1>4. q - k <= 0
    <2>1. SUFFICES ASSUME q - k >= 1 PROVE FALSE
      BY <1>1
    <2>2. w * (q - k) >= w
      BY <1>1, <2>1
    <2> QED BY <1>1, <1>2, <1>3, <2>2
  <1>5. q - k >= 0
    <2>1. SUFFICES ASSUME q - k <= -1 PROVE FALSE
      BY <1>1
    <2>2. w * (q - k) <= -w
      BY <1>1, <2>1
    <2> QED BY <1>1, <1>2, <1>3, <2>2
  <1>6. q - k = 0
    BY <1>1, <1>4, <1>5
  <1>7. r = m
    BY <1>1, <1>2, <1>6
  <1> QED BY <1>7 DEF m

\* The remainders of numbers up to one turn away.
LEMMA Turns ==
    ASSUME NEW w \in Nat \ {0}, NEW a \in Int
    PROVE  /\ a \in 0 .. w - 1 => a % w = a
           /\ a \in w .. 2 * w - 1 => a % w = a - w
           /\ a \in -w .. -1 => a % w = a + w
  <1>1. ASSUME a \in 0 .. w - 1 PROVE a % w = a
    <2>1. a = w * 0 + a
      OBVIOUS
    <2> QED BY <1>1, <2>1, Remainder
  <1>2. ASSUME a \in w .. 2 * w - 1 PROVE a % w = a - w
    <2>1. a = w * 1 + (a - w) /\ a - w \in 0 .. w - 1
      BY <1>2
    <2> QED BY <2>1, Remainder
  <1>3. ASSUME a \in -w .. -1 PROVE a % w = a + w
    <2>1. a = w * (-1) + (a + w) /\ a + w \in 0 .. w - 1
      BY <1>3
    <2> QED BY <2>1, Remainder
  <1> QED BY <1>1, <1>2, <1>3

\* Half the width of the clock.
LEMMA HalfWrap ==
    Wrap \in Nat \ {0} /\ Wrap \div 2 \in Nat /\ Wrap = 2 * (Wrap \div 2)
  BY TicksAssumption

\* A timeout is less than half the clock.
LEMMA TimeoutsBound ==
    ASSUME NEW n \in Timeouts
    PROVE  n \in 0 .. (Wrap \div 2 - 1) /\ n \in 0 .. Wrap
  <1>1. n \in 0 .. (Wrap \div 2 - 1)
    BY TicksAssumption
  <1> QED BY <1>1, HalfWrap

\* The times are closed under ticks and deadlines.
LEMMA TimesClosed ==
    ASSUME NEW t \in Times, NEW n \in Nat
    PROVE  NextTick(t) \in Times /\ Deadline(t, n) \in Times
  BY HalfWrap, DivMod DEF Times, NextTick, Deadline

\* A deadline n ticks away comes one tick nearer with each tick, and it has
\* come exactly when one tick was left.
LEMMA TickNearer ==
    ASSUME NEW t \in Times, NEW n \in 1 .. (Wrap \div 2 - 1)
    PROVE  /\ Before(NextTick(t), Deadline(t, n)) <=> n # 1
           /\ Deadline(NextTick(t), n - 1) = Deadline(t, n)
  <1> DEFINE h == Wrap \div 2
             w == Wrap
             u == (t + 1) % w
             d == (t + n) % w
  <1>0. w \in Nat \ {0} /\ h \in Nat /\ w = 2 * h
    BY HalfWrap
  <1>1. t \in 0 .. w - 1 /\ n \in 1 .. h - 1
    BY DEF Times
  <1>6. \A a \in Int :
           /\ a \in 0 .. w - 1 => a % w = a
           /\ a \in w .. 2 * w - 1 => a % w = a - w
           /\ a \in -w .. -1 => a % w = a + w
    BY Zenon, <1>0, Turns
  <1>2. u = IF t + 1 < w THEN t + 1 ELSE t + 1 - w
    <2>1. t + 1 \in 0 .. w - 1 \/ t + 1 \in w .. 2 * w - 1
      BY <1>0, <1>1
    <2> HIDE DEF w, h
    <2> QED BY <1>0, <1>1, <1>6, <2>1
  <1>3. d = IF t + n < w THEN t + n ELSE t + n - w
    <2>1. t + n \in 0 .. w - 1 \/ t + n \in w .. 2 * w - 1
      BY <1>0, <1>1
    <2> HIDE DEF w, h
    <2> QED BY <1>0, <1>1, <1>6, <2>1
  <1>4. (u + (n - 1)) % w = d
    <2> DEFINE e == u + (n - 1)
    <2>1. /\ e \in 0 .. w - 1 \/ e \in w .. 2 * w - 1
          /\ e \in 0 .. w - 1 => e = d
          /\ e \in w .. 2 * w - 1 => e - w = d
      <3> HIDE DEF w, h, u, d
      <3> QED BY <1>0, <1>1, <1>2, <1>3
    <2>2. e \in Int
      BY <1>0, <1>1, <1>2
    <2>3. e % w = d
      <3> HIDE DEF w, h, u, d, e
      <3> QED BY <1>0, <1>6, <2>1, <2>2
    <2> QED BY <2>3
  <1>5. ((u - d) % w >= h) <=> n # 1
    <2>1. /\ u - d \in 0 .. w - 1 \/ u - d \in -w .. -1
          /\ u - d \in 0 .. w - 1 => (u - d >= h <=> n # 1)
          /\ u - d \in -w .. -1 => (u - d + w >= h <=> n # 1)
      <3> HIDE DEF w, h, u, d
      <3> QED BY <1>0, <1>1, <1>2, <1>3
    <2>2. u - d \in Int
      BY <1>0, <1>1, <1>2, <1>3
    <2> HIDE DEF w, h, u, d
    <2> QED BY <1>0, <1>6, <2>1, <2>2
  <1> QED BY <1>4, <1>5 DEF Before, NextTick, Deadline


\* The numbers of ticks a wait may have left are times.
LEMMA LeftBound ==
    /\ 0 \in Times /\ Timeouts \subseteq Times /\ Times \subseteq Nat
    /\ Timeouts \cup Times = Times
  <1>1. \A n \in Timeouts : n \in 0 .. (Wrap \div 2 - 1)
    BY TimeoutsBound
  <1>2. Timeouts \subseteq Times
    BY <1>1, HalfWrap DEF Times
  <1>3. 0 \in Times /\ Times \subseteq Nat
    BY HalfWrap DEF Times
  <1> QED BY <1>2, <1>3, Zenon

\* The inductive invariant of timed waits: a slot is timed only while it is
\* parked, and its deadline is as many ticks away as the wait has left.
WaitTimes ==
    /\ timer_ticks \in Times /\ timed \in [Tasks -> BOOLEAN]
    /\ deadline \in [Tasks -> Times] /\ left \in [Tasks -> Times]
    /\ \A t \in Tasks : timed[t] =>
           /\ state[t] = "event" /\ left[t] \in 1 .. (Wrap \div 2 - 1)
           /\ deadline[t] = Deadline(timer_ticks, left[t])
    /\ \A t \in Tasks : result[t] = "ETIMEDOUT" => left[t] = 0

\* A wake with another answer ends timed waits and starts none.
LEMMA WakeTimes ==
    ASSUME WaitInv, WaitTimes, NEW E, NEW W, NEW r, r # "ETIMEDOUT", Wake(E, W, r),
           UNCHANGED <<timer_ticks, left>>
    PROVE  WaitTimes'
<1>1. /\ timed' = [t \in Tasks |-> timed[t] /\ t \notin Parked(W)]
      /\ state' = [t \in Tasks |-> IF t \in Parked(W) THEN "running" ELSE state[t]]
      /\ deadline' = [t \in Tasks |-> IF t \in Parked(W) THEN 0 ELSE deadline[t]]
      /\ result' = [t \in Tasks |-> IF t \in Parked(W) THEN r ELSE result[t]]
  BY DEF Wake
<1>2. timed' \in [Tasks -> BOOLEAN] /\ deadline' \in [Tasks -> Times]
  BY <1>1, LeftBound DEF WaitTimes
<1>3. ASSUME NEW t \in Tasks, timed'[t]
      PROVE  /\ state'[t] = "event" /\ left'[t] \in 1 .. (Wrap \div 2 - 1)
             /\ deadline'[t] = Deadline(timer_ticks', left'[t])
  BY <1>1, <1>3, Zenon DEF WaitTimes
<1>4. \A t \in Tasks : result'[t] = "ETIMEDOUT" => left'[t] = 0
  BY <1>1 DEF WaitTimes
<1> QED BY <1>2, <1>3, <1>4 DEF WaitTimes

\* A tick ends exactly the timed waits that had one tick left.
LEMMA TickTimes ==
    ASSUME WaitInv, WaitTimes, EventTick
    PROVE  WaitTimes'
<1> DEFINE now == NextTick(timer_ticks)
           W == Parked(Expired(now))
<1>1. /\ timed' = [t \in Tasks |-> timed[t] /\ t \notin W]
      /\ state' = [t \in Tasks |-> IF t \in W THEN "running" ELSE state[t]]
      /\ deadline' = [t \in Tasks |-> IF t \in W THEN 0 ELSE deadline[t]]
      /\ result' = [t \in Tasks |-> IF t \in W THEN "ETIMEDOUT" ELSE result[t]]
      /\ timer_ticks' = now
      /\ left' = [t \in Tasks |-> IF left[t] > 0 THEN left[t] - 1 ELSE 0]
  BY DEF EventTick, Wake
<1>2. timer_ticks \in Times /\ now \in Times
  BY TimesClosed DEF WaitTimes
<1>3. ASSUME NEW t \in Tasks, timed[t]
      PROVE  /\ left[t] \in 1 .. (Wrap \div 2 - 1) /\ state[t] = "event"
             /\ t \in W <=> left[t] = 1
             /\ deadline[t] = Deadline(now, left[t] - 1)
  <2>1. /\ left[t] \in 1 .. (Wrap \div 2 - 1) /\ state[t] = "event"
        /\ deadline[t] = Deadline(timer_ticks, left[t])
    BY <1>3 DEF WaitTimes
  <2>2. /\ Before(now, deadline[t]) <=> left[t] # 1
        /\ Deadline(now, left[t] - 1) = deadline[t]
    BY <1>2, <2>1, TickNearer
  <2> QED BY <1>3, <2>1, <2>2 DEF Parked, Expired
<1>4. \A t \in W : t \in Tasks /\ timed[t]
  BY DEF Parked, Expired
<1>5. \A t \in Tasks : left[t] \in Times /\ left[t] \in Nat
  BY LeftBound, Zenon DEF WaitTimes
<1> HIDE DEF now, W
<1>6. timed' \in [Tasks -> BOOLEAN] /\ deadline' \in [Tasks -> Times]
  BY <1>1, LeftBound DEF WaitTimes
<1>7. left' \in [Tasks -> Times]
  <2>1. \A n \in Times : (IF n > 0 THEN n - 1 ELSE 0) \in Times
    BY HalfWrap DEF Times
  <2> QED BY <1>1, <1>5, <2>1
<1>8. ASSUME NEW t \in Tasks, timed'[t]
      PROVE  /\ state'[t] = "event" /\ left'[t] \in 1 .. (Wrap \div 2 - 1)
             /\ deadline'[t] = Deadline(timer_ticks', left'[t])
  <2>1. timed[t] /\ t \notin W
    BY <1>1, <1>8, Zenon
  <2>2. /\ left[t] \in 1 .. (Wrap \div 2 - 1) /\ left[t] # 1 /\ state[t] = "event"
        /\ deadline[t] = Deadline(now, left[t] - 1)
    BY <1>3, <2>1
  <2>3. left'[t] = left[t] - 1
    BY <1>1, <2>2
  <2>4. left[t] - 1 \in 1 .. (Wrap \div 2 - 1)
    BY <2>2, HalfWrap
  <2> QED BY <1>1, <2>1, <2>2, <2>3, <2>4
<1>9. ASSUME NEW t \in Tasks, result'[t] = "ETIMEDOUT"
      PROVE  left'[t] = 0
  <2>1. CASE t \in W
    BY <1>1, <1>3, <1>4, <2>1
  <2>2. CASE t \notin W
    BY <1>1, <1>9, <2>2 DEF WaitTimes
  <2> QED BY <2>1, <2>2
<1> QED BY <1>1, <1>2, <1>6, <1>7, <1>8, <1>9 DEF WaitTimes

\* Every step keeps the deadlines; a timed wait that parks is its timeout away
\* from its deadline.
LEMMA TimesKeep == WaitInv /\ WaitTimes /\ [EventStep]_vars => WaitTimes'
<1> SUFFICES ASSUME WaitInv, WaitTimes, [EventStep]_vars PROVE WaitTimes'
  OBVIOUS
<1>1. ASSUME UNCHANGED <<timed, state, deadline, left, timer_ticks, result>> PROVE WaitTimes'
  BY <1>1 DEF WaitTimes
<1>2. ASSUME NEW e \in Events, NEW m \in BOOLEAN, NEW s \in BOOLEAN, EventCreate(e, m, s)
      PROVE  WaitTimes'
  BY <1>1, <1>2 DEF EventCreate, waits, task
<1>3. ASSUME NEW e \in Events, EventReset(e) PROVE WaitTimes'
  BY <1>1, <1>3 DEF EventReset, waits, task
<1>4. ASSUME NEW e \in Events, EventDestroy(e) \/ EventSignal(e) PROVE WaitTimes'
  <2>1. e # "ETIMEDOUT" /\ "gone" # "ETIMEDOUT"
    BY EventsAssumption
  <2> QED BY <1>4, <2>1, WakeTimes DEF EventDestroy, EventSignal
<1>5. CASE EventCalls(Events)
  BY Zenon, <1>2, <1>3, <1>4, <1>5 DEF EventCalls
<1>6. CASE EventTick
  BY <1>6, TickTimes
<1>7. ASSUME NEW t \in Tasks, NEW w \in Lists, NEW timeout \in Timeouts, WaitMany(t, w, timeout)
      PROVE  WaitTimes'
  <2>1. ASSUME NEW r, r # "ETIMEDOUT", Answer(t, r) PROVE WaitTimes'
    <3>1. /\ UNCHANGED <<timed, state, deadline, left, timer_ticks>>
          /\ result' = [result EXCEPT ![t] = r]
      BY <2>1 DEF Answer, waits
    <3>2. \A u \in Tasks : result'[u] = "ETIMEDOUT" => result[u] = "ETIMEDOUT"
      BY <2>1, <3>1 DEF WaitInv, WaitTypes
    <3> QED BY <3>1, <3>2 DEF WaitTimes
  <2>2. CASE WaitRefused(t, w)
    BY <2>1, <2>2 DEF WaitRefused
  <2>3. CASE WaitReady(t, w)
    <3>1. PICK i \in DOMAIN w : Answer(t, w[i])
      BY <2>3, Zenon DEF WaitReady
    <3>2. w[i] # "ETIMEDOUT"
      BY ListsAreActive, EventsAssumption
    <3> QED BY <2>1, <3>1, <3>2
  <2>4. CASE WaitParks(t, w, timeout)
    <3>1. /\ timed' = [timed EXCEPT ![t] = timeout > 0] /\ state' = [state EXCEPT ![t] = "event"]
          /\ deadline' = [deadline EXCEPT ![t] = Deadline(timer_ticks, timeout)]
          /\ result' = [result EXCEPT ![t] = "none"] /\ left' = [left EXCEPT ![t] = timeout]
          /\ timer_ticks' = timer_ticks
      BY <2>4 DEF WaitParks
    <3>2. timeout \in 0 .. (Wrap \div 2 - 1) /\ timeout \in Times /\ timeout \in Nat
      BY TimeoutsBound, LeftBound
    <3>3. Deadline(timer_ticks, timeout) \in Times
      BY <3>2, TimesClosed DEF WaitTimes
    <3>4. timed' \in [Tasks -> BOOLEAN] /\ deadline' \in [Tasks -> Times] /\ left' \in [Tasks -> Times]
      BY <3>1, <3>2, <3>3 DEF WaitTimes
    <3>5. ASSUME NEW u \in Tasks, timed'[u]
          PROVE  /\ state'[u] = "event" /\ left'[u] \in 1 .. (Wrap \div 2 - 1)
                 /\ deadline'[u] = Deadline(timer_ticks', left'[u])
      <4>1. CASE u = t
        <5>1. timeout > 0 /\ state'[u] = "event" /\ left'[u] = timeout
              /\ deadline'[u] = Deadline(timer_ticks, timeout)
          BY <3>1, <3>5, <4>1, Zenon DEF WaitTimes, WaitInv, WaitTypes
        <5> QED BY <3>1, <3>2, <5>1
      <4>2. CASE u # t
        BY <3>1, <3>5, <4>2 DEF WaitTimes, WaitInv, WaitTypes
      <4> QED BY <4>1, <4>2
    <3>6. \A u \in Tasks : result'[u] = "ETIMEDOUT" => left'[u] = 0
      BY <3>1 DEF WaitTimes, WaitInv, WaitTypes
    <3> QED BY <3>1, <3>4, <3>5, <3>6 DEF WaitTimes
  <2> QED BY <1>7, <2>2, <2>3, <2>4 DEF WaitMany
<1>8. ASSUME NEW t \in Tasks, TaskDies(t) PROVE WaitTimes'
  <2>1. /\ timed' = [timed EXCEPT ![t] = FALSE] /\ state' = [state EXCEPT ![t] = "dead"]
        /\ deadline' = [deadline EXCEPT ![t] = 0] /\ result' = [result EXCEPT ![t] = "none"]
        /\ left' = [left EXCEPT ![t] = 0] /\ timer_ticks' = timer_ticks
    BY <1>8 DEF TaskDies
  <2>2. timed' \in [Tasks -> BOOLEAN] /\ deadline' \in [Tasks -> Times] /\ left' \in [Tasks -> Times]
    BY <2>1, LeftBound DEF WaitTimes
  <2>3. \A u \in Tasks : timed'[u] => u # t /\ timed[u]
    BY <2>1 DEF WaitTimes
  <2>4. \A u \in Tasks : u # t => /\ state'[u] = state[u] /\ deadline'[u] = deadline[u]
                                  /\ left'[u] = left[u] /\ result'[u] = result[u]
    BY <2>1 DEF WaitTimes, WaitInv, WaitTypes
  <2>5. left'[t] = 0
    BY <2>1 DEF WaitTimes
  <2> QED BY <2>1, <2>2, <2>3, <2>4, <2>5 DEF WaitTimes
<1>9. ASSUME NEW t \in Tasks, TaskStarts(t) PROVE WaitTimes'
  BY <1>9 DEF TaskStarts, waits, WaitTimes, WaitInv, WaitTypes
<1>10. CASE TaskSteps
  BY Zenon, <1>7, <1>8, <1>9, <1>10 DEF TaskSteps
<1>11. CASE UNCHANGED vars
  BY <1>1, <1>11 DEF vars, waits, task
<1> QED BY <1>5, <1>6, <1>10, <1>11 DEF EventStep

\* The deadlines of the parked waits, for every behaviour without stop signals.
THEOREM WaitTimesInvariant == CoreSpec => [](WaitInv /\ WaitTimes)
<1>1. Init => WaitInv /\ WaitTimes
  <2>1. Init => WaitTimes
    BY LeftBound, EventsAssumption DEF Init, WaitTimes
  <2> QED BY <2>1, InitKeeps
<1>2. WaitInv /\ WaitTimes /\ [EventStep]_vars => WaitInv' /\ WaitTimes'
  BY StepKeeps, TimesKeep
<1> QED BY <1>1, <1>2, PTL DEF CoreSpec

\* event_tick ends a timed wait at its deadline, not before and not later, also
\* when timer_ticks wraps.
THEOREM WaitsEndOnTime == CoreSpec => []TimedWaitOnTime
<1>1. WaitTimes => TimedWaitOnTime
  BY DEF WaitTimes, TimedWaitOnTime
<1> QED BY <1>1, WaitTimesInvariant, PTL

\* A dead task has no wait left, on either side.
LEMMA InvSound ==
    ASSUME WaitInv, WaitTimes PROVE WaitsSound
<1>1. ASSUME NEW t \in Tasks, state[t] = "dead"
      PROVE  wait_set[t] = {} /\ ~timed[t] /\ \A e \in Events : t \notin waiters[e]
  <2>1. wait_set[t] = {} /\ ~timed[t]
    BY <1>1 DEF WaitInv, BrokenWaitIsOver, WaitTimes
  <2> QED BY <2>1, WaitersAreListed
<1>2. DeadTaskWaitsForNothing
  BY <1>1 DEF DeadTaskWaitsForNothing
<1> QED BY <1>2 DEF WaitInv, WaitsSound

\* Who waits for what agrees on both sides, a parked wait has nothing to take,
\* and a dead task leaves no wait for the next task of its slot.
THEOREM WaitsStaySound == CoreSpec => []WaitsSound
<1>1. WaitInv /\ WaitTimes => WaitsSound
  BY InvSound
<1> QED BY <1>1, WaitTimesInvariant, PTL

-----------------------------------------------------------------------------
(* The refinement: every step of event.c is a step of its promise.           *)

\* The initial states of the table are initial states of the abstract events.
LEMMA InitRefines == Init => Abstract!Init
  BY DEF Init, Abstract!Init

\* Destroying an event is an abstract destroy.
LEMMA DestroyRefines ==
    ASSUME WaitInv, NEW e \in Events, EventDestroy(e)
    PROVE  Abstract!Destroy(e)
<1>1. waiters[e] \in SUBSET Tasks /\ {e} \in SUBSET Events /\ "gone" \in Results
  BY DEF WaitInv, WaitTypes, Results
<1>2. Parked(waiters[e]) = Abstract!On(e) /\ \A t \in waiters[e] : state[t] = "event"
  BY WaitersAreListed DEF Parked, Abstract!On
<1>3. Wake({e}, waiters[e], "gone")
  BY DEF EventDestroy
<1>4. /\ wait_set' = [t \in Tasks |-> IF t \in Abstract!On(e) THEN {} ELSE wait_set[t]]
      /\ result' = [t \in Tasks |-> IF t \in Abstract!On(e) THEN "gone" ELSE result[t]]
  <2>1. /\ wait_set' = [t \in Tasks |-> IF t \in Parked(waiters[e]) THEN {} ELSE wait_set[t]]
        /\ result' = [t \in Tasks |-> IF t \in Parked(waiters[e]) THEN "gone" ELSE result[t]]
    BY <1>3 DEF Wake
  <2> QED BY <1>2, <2>1
<1> QED BY <1>4 DEF EventDestroy, Abstract!Destroy, Abstract!Release

\* A signal is an abstract signal: it wakes the first waiter, or all of them, or is kept.
LEMMA SignalRefines ==
    ASSUME WaitInv, NEW e \in Events, EventSignal(e)
    PROVE  Abstract!SignalRemembered(e) \/ Abstract!SignalHandedOver(e)
<1>1. Woken(e) \in SUBSET Tasks /\ {e} \in SUBSET Events /\ e \in Results
  BY WokenIsParked DEF Results
<1>2. Parked(Woken(e)) = Woken(e) /\ \A t \in Woken(e) : state[t] = "event"
  BY WokenIsParked DEF Parked
<1>3. Wake({e}, Woken(e), e) /\ active[e] /\ active' = active /\ manual' = manual
      /\ signaled' = Signaled(e)
  BY DEF EventSignal
<1>4. /\ wait_set' = [t \in Tasks |-> IF t \in Woken(e) THEN {} ELSE wait_set[t]]
      /\ result' = [t \in Tasks |-> IF t \in Woken(e) THEN e ELSE result[t]]
  <2>1. /\ wait_set' = [t \in Tasks |-> IF t \in Parked(Woken(e)) THEN {} ELSE wait_set[t]]
        /\ result' = [t \in Tasks |-> IF t \in Parked(Woken(e)) THEN e ELSE result[t]]
    BY <1>3 DEF Wake
  <2> QED BY <1>2, <2>1
<1>5. waiters[e] = Abstract!On(e)
  BY WaitersAreListed DEF Abstract!On
<1>6. CASE waiters[e] = {} \/ manual[e]
  <2>1. Woken(e) = Abstract!On(e)
    BY <1>5, <1>6, WokenIsParked
  <2> QED BY <1>3, <1>4, <1>5, <1>6, <2>1 DEF Signaled, Abstract!SignalRemembered, Abstract!Release
<1>7. CASE ~(waiters[e] = {} \/ manual[e])
  <2>1. PICK t \in waiters[e] : FirstWaiter(e) = {t}
    BY <1>7, FirstWaiterExists
  <2>2. Woken(e) = {t} /\ signaled' = signaled
    BY <1>3, <1>7, <2>1 DEF Woken, Signaled
  <2>3. Abstract!Release({t}, e)
    BY <1>4, <2>2 DEF Abstract!Release
  <2> QED BY <1>3, <1>5, <1>7, <2>1, <2>2, <2>3 DEF Abstract!SignalHandedOver
<1> QED BY <1>6, <1>7

\* A wait takes the signal, parks, or changes nothing.
LEMMA WaitRefines ==
    ASSUME WaitInv, NEW t \in Tasks, NEW w \in Lists, NEW timeout \in Timeouts, WaitMany(t, w, timeout)
    PROVE  Abstract!Next
<1>1. ASSUME WaitRefused(t, w) PROVE Abstract!Refuse(t)
  <2>1. wait_set[t] = {}
    BY <1>1 DEF WaitRefused, WaitInv, BrokenWaitIsOver
  <2> QED BY <1>1, <2>1, Zenon DEF WaitRefused, Answer, event, waits, Abstract!Refuse
<1>2. ASSUME WaitReady(t, w) PROVE \E e \in Events : Abstract!Take(t, e)
  <2>1. PICK i \in DOMAIN w : /\ ScanEnd(w, i) /\ ~Bad(w, i)
                              /\ signaled' = [signaled EXCEPT ![w[i]] = manual[w[i]]]
                              /\ Answer(t, w[i])
    BY <1>2, Zenon DEF WaitReady
  <2>2. w[i] \in Events /\ active[w[i]]
    BY ListsAreActive
  <2>3. signaled[w[i]]
    BY <2>1 DEF ScanEnd, Stops
  <2>4. Abstract!Take(t, w[i])
    BY <1>2, <2>1, <2>2, <2>3, Zenon DEF WaitReady, Answer, waits, Abstract!Take
  <2> QED BY <2>2, <2>4
<1>3. ASSUME WaitParks(t, w, timeout) PROVE \E S \in SUBSET Events : Abstract!Park(t, S)
  <2> DEFINE S == {w[i] : i \in DOMAIN w}
  <2>1. S \subseteq Events /\ S # {} /\ \A e \in S : active[e]
    BY ListsAreActive
  <2>2. \A e \in S : ~signaled[e]
    BY <1>3 DEF WaitParks, Stops
  <2>3. /\ wait_set' = [wait_set EXCEPT ![t] = S] /\ wait_set[t] = {}
        /\ result' = [result EXCEPT ![t] = "none"] /\ UNCHANGED <<active, manual, signaled>>
    BY <1>3 DEF WaitParks
  <2> HIDE DEF S
  <2>4. Abstract!Park(t, S)
    BY <2>1, <2>2, <2>3 DEF Abstract!Park
  <2> QED BY <2>1, <2>4
<1> QED BY <1>1, <1>2, <1>3 DEF WaitMany, Abstract!Next

\* A tick cancels the waits that are due, and nothing else.
LEMMA TickRefines ==
    ASSUME WaitInv, EventTick
    PROVE  \E W \in SUBSET Tasks : Abstract!Leave(W, "ETIMEDOUT")
<1> DEFINE X == Expired(NextTick(timer_ticks))
<1>1. X \in SUBSET Tasks /\ {} \in SUBSET Events /\ "ETIMEDOUT" \in Results
  BY DEF Expired, Results
<1>2. Wake({}, X, "ETIMEDOUT") /\ UNCHANGED <<active, manual, signaled>>
  BY DEF EventTick
<1> HIDE DEF X
<1>3. /\ wait_set' = [t \in Tasks |-> IF t \in Parked(X) THEN {} ELSE wait_set[t]]
      /\ result' = [t \in Tasks |-> IF t \in Parked(X) THEN "ETIMEDOUT" ELSE result[t]]
  BY <1>2 DEF Wake
<1>4. Parked(X) \in SUBSET Tasks
  BY <1>1 DEF Parked
<1>5. Abstract!Leave(Parked(X), "ETIMEDOUT")
  BY <1>2, <1>3 DEF Abstract!Leave, Abstract!Release
<1> QED BY <1>4, <1>5

\* A death cancels the task's own wait, if it has one.
LEMMA DeathRefines ==
    ASSUME WaitInv, NEW t \in Tasks, TaskDies(t)
    PROVE  Abstract!Leave({t}, "none")
<1>1. /\ wait_set' = [wait_set EXCEPT ![t] = {}] /\ result' = [result EXCEPT ![t] = "none"]
      /\ UNCHANGED <<active, manual, signaled>>
  BY DEF TaskDies
<1>2. /\ wait_set' = [u \in Tasks |-> IF u \in {t} THEN {} ELSE wait_set[u]]
      /\ result' = [u \in Tasks |-> IF u \in {t} THEN "none" ELSE result[u]]
  BY <1>1, Zenon DEF WaitInv, WaitTypes
<1> QED BY <1>1, <1>2, Zenon DEF Abstract!Leave, Abstract!Release

\* Every step of the table is an abstract step or a stutter.
LEMMA StepRefines == WaitInv /\ [EventStep]_vars => [Abstract!Next]_(Abstract!vars)
<1> SUFFICES ASSUME WaitInv, [EventStep]_vars
             PROVE  Abstract!Next \/ UNCHANGED Abstract!vars
  OBVIOUS
<1>1. CASE UNCHANGED vars
  BY <1>1 DEF vars, event, waits, task, Abstract!vars
<1>2. CASE EventCalls(Events)
  <2>1. ASSUME NEW e \in Events, NEW m \in BOOLEAN, NEW s \in BOOLEAN, EventCreate(e, m, s)
        PROVE  Abstract!Create(e)
    BY <2>1, Zenon DEF EventCreate, waits, task, Abstract!Create
  <2>2. ASSUME NEW e \in Events, EventReset(e)
        PROVE  Abstract!Reset(e)
    BY <2>2 DEF EventReset, waits, task, Abstract!Reset
  <2> QED BY <1>2, <2>1, <2>2, DestroyRefines, SignalRefines DEF EventCalls, Abstract!Next
<1>3. CASE TaskSteps
  <2>1. ASSUME NEW t \in Tasks, TaskStarts(t)
        PROVE  UNCHANGED Abstract!vars
    BY <2>1 DEF TaskStarts, event, waits, Abstract!vars
  <2>2. ASSUME NEW t \in Tasks, TaskDies(t)
        PROVE  Abstract!Next
    BY <2>2, DeathRefines DEF Abstract!Next
  <2> QED BY <1>3, <2>1, <2>2, WaitRefines DEF TaskSteps
<1>4. CASE EventTick
  BY <1>4, TickRefines DEF Abstract!Next
<1> QED BY <1>1, <1>2, <1>3, <1>4 DEF EventStep

\* Without stop signals event.c implements its promise: every step is a step of
\* AbstractEvents with the tasks parked on their wait sets, or changes nothing it
\* can see.
THEOREM EventsRefine == CoreSpec => ImplementsAbstract
<1>1. Init => Abstract!Init
  BY InitRefines
<1>2. WaitInv /\ [EventStep]_vars => [Abstract!Next]_(Abstract!vars)
  BY StepRefines
<1> QED BY <1>1, <1>2, WaitInvariant, PTL DEF CoreSpec, ImplementsAbstract, Abstract!Spec
-----------------------------------------------------------------------------
(* The objects built on events.                                              *)

Owned == Timers \cup Sources

\* The events of timers, completions and bridges are auto-reset.
OwnedOK ==
    /\ told \in [Sources -> BOOLEAN]
    /\ \A o \in Owned : ~manual[o]

\* A timer that is armed lies ahead, or is due in this very interrupt; one that
\* is signaled has fired.
TimersOK ==
    /\ due \subseteq Requests \cup Timers
    /\ armed \in [Timers -> BOOLEAN] /\ alarm \in [Timers -> Times]
    /\ interval \in [Timers -> Intervals \cup {0}] /\ fired \in [Timers -> BOOLEAN]
    /\ \A e \in Timers :
          /\ armed[e] => e \in due \/ Before(timer_ticks, alarm[e])
          /\ e \in due => armed[e] /\ alarm[e] = timer_ticks
          /\ signaled[e] => fired[e]

\* Something to take from o is announced.
Announced(o) == signaled[o] \/ told[o]

\* A pending request lies ahead, or is due in this very interrupt; an inactive
\* completion has no requests; one that is over is announced.
RequestsOK ==
    /\ rstate \in [Requests -> {"free", "pending"} \cup Over]
    /\ rgen \in [Requests -> 1 .. GENERATIONS]
    /\ expiry \in [Requests -> Times] /\ rtimed \in [Requests -> BOOLEAN]
    /\ next_slot \in [Completions -> Slots] /\ begun \in Nat
    /\ serial \in [Requests -> Nat] /\ closer \in [Requests -> Nat]
    /\ issued \subseteq [r : Requests, gen : 1 .. GENERATIONS, n : Nat]
    /\ \A r \in Requests :
          /\ rstate[r] = "pending" /\ rtimed[r] => r \in due \/ Before(timer_ticks, expiry[r])
          /\ ~active[r[1]] => rstate[r] = "free"
          /\ rstate[r] \in Over => Announced(r[1])

\* The next sequence number of an active bridge follows the ones in its queue;
\* an inactive one is empty; one that is not is announced.
BridgesOK ==
    /\ queue \in [Bridges -> [Places -> 0 .. SEQUENCES - 1]]
    /\ head \in [Bridges -> Places] /\ count \in [Bridges -> 0 .. QUEUE_MAX]
    /\ sequence \in [Bridges -> 0 .. SEQUENCES - 1] /\ last \in [Bridges -> 0 .. SEQUENCES - 1]
    /\ NotificationsInOrder
    /\ \A b \in Bridges :
          /\ ~active[b] => count[b] = 0
          /\ active[b] => sequence[b] = (last[b] + 1 + count[b]) % SEQUENCES
          /\ count[b] > 0 => Announced(b)

\* The inductive invariant of the objects, next to that of the events.
ObjectsInv == OwnedOK /\ TimersOK /\ RequestsOK /\ BridgesOK

\* An id that is still good names a request that is not free, and the one it was
\* made for.
IdsOK ==
    /\ \A id \in issued :
          /\ id.gen <= rgen[id.r]
          /\ id.gen = rgen[id.r] => rstate[id.r] # "free" /\ id.n = serial[id.r]
    /\ LateFinishHitsNothing

\* What is announced, what is owned, and that the three kinds do not overlap.
LEMMA Kinds ==
    /\ Owned \subseteq Events /\ Sources \subseteq Owned /\ Timers \subseteq Owned
    /\ Timers \cap Sources = {} /\ Completions \cap Bridges = {}
    /\ Sources = Completions \cup Bridges /\ Requests \cap Timers = {}
    /\ \A r \in Requests : r[1] \in Completions /\ r[2] \in Slots /\ r = <<r[1], r[2]>>
<1>1. Requests \cap Timers = {}
  BY AsyncAssumption, Zenon DEF Requests, Slots
<1>2. \A r \in Requests : r[1] \in Completions /\ r[2] \in Slots /\ r = <<r[1], r[2]>>
  BY DEF Requests
<1> QED BY <1>1, <1>2, AsyncAssumption DEF Owned, Sources

\* A remainder added to is a sum's remainder.
LEMMA ModAdd ==
    ASSUME NEW w \in Nat \ {0}, NEW a \in Int, NEW b \in Int
    PROVE  ((a % w) + b) % w = (a + b) % w
<1> DEFINE q == a \div w
           m == a % w
           p == (a + b) \div w
           n == (a + b) % w
<1>1. a = w * q + m /\ m \in 0 .. w - 1 /\ q \in Int
  BY DivMod
<1>2. a + b = w * p + n /\ n \in 0 .. w - 1 /\ p \in Int
  <2>1. a + b \in Int
    OBVIOUS
  <2> QED BY <2>1, DivMod
<1> HIDE DEF q, m, p, n
<1>3. m + b = w * (p - q) + n /\ p - q \in Int /\ m + b \in Int
  BY <1>1, <1>2
<1>4. (m + b) % w = n
  BY <1>2, <1>3, Remainder, Zenon
<1> QED BY <1>4 DEF m, n

\* A deadline less than half the clock away lies ahead.
LEMMA DeadlineAhead ==
    ASSUME NEW t \in Times, NEW n \in 1 .. (Wrap \div 2 - 1)
    PROVE  Before(t, Deadline(t, n))
<1> DEFINE h == Wrap \div 2
           w == Wrap
           d == (t + n) % w
<1>0. w \in Nat \ {0} /\ h \in Nat /\ w = 2 * h
  BY HalfWrap
<1>1. t \in 0 .. w - 1 /\ n \in 1 .. h - 1
  BY DEF Times
<1>2. \A a \in Int :
         /\ a \in 0 .. w - 1 => a % w = a
         /\ a \in w .. 2 * w - 1 => a % w = a - w
         /\ a \in -w .. -1 => a % w = a + w
  BY Zenon, <1>0, Turns
<1>3. d = IF t + n < w THEN t + n ELSE t + n - w
  <2>1. t + n \in 0 .. w - 1 \/ t + n \in w .. 2 * w - 1
    BY <1>0, <1>1
  <2> HIDE DEF w, h
  <2> QED BY <1>0, <1>1, <1>2, <2>1
<1>4. (t - d) % w >= h
  <2>1. /\ t - d \in 0 .. w - 1 \/ t - d \in -w .. -1
        /\ t - d \in 0 .. w - 1 => t - d >= h
        /\ t - d \in -w .. -1 => t - d + w >= h
    <3> HIDE DEF w, h, d
    <3> QED BY <1>0, <1>1, <1>3
  <2>2. t - d \in Int
    BY <1>0, <1>1, <1>3
  <2> HIDE DEF w, h, d
  <2> QED BY <1>0, <1>2, <2>1, <2>2
<1> QED BY <1>4 DEF Before, Deadline

\* A time ahead is ahead after the next tick as well, unless it has just come.
LEMMA TickReaches ==
    ASSUME NEW t \in Times, NEW d \in Times, Before(t, d)
    PROVE  Before(NextTick(t), d) \/ d = NextTick(t)
<1> DEFINE h == Wrap \div 2
           w == Wrap
           u == (t + 1) % w
<1>0. w \in Nat \ {0} /\ h \in Nat /\ w = 2 * h
  BY HalfWrap
<1>1. t \in 0 .. w - 1 /\ d \in 0 .. w - 1 /\ (t - d) % w >= h
  BY DEF Times, Before
<1>2. \A a \in Int :
         /\ a \in 0 .. w - 1 => a % w = a
         /\ a \in w .. 2 * w - 1 => a % w = a - w
         /\ a \in -w .. -1 => a % w = a + w
  BY Zenon, <1>0, Turns
<1>3. u = IF t + 1 < w THEN t + 1 ELSE t + 1 - w
  <2>1. t + 1 \in 0 .. w - 1 \/ t + 1 \in w .. 2 * w - 1
    BY <1>0, <1>1
  <2> HIDE DEF w, h
  <2> QED BY <1>0, <1>1, <1>2, <2>1
<1>4. (t - d) % w = IF t >= d THEN t - d ELSE t - d + w
  <2>1. t - d \in Int /\ (t >= d => t - d \in 0 .. w - 1) /\ (t < d => t - d \in -w .. -1)
    BY <1>0, <1>1
  <2> HIDE DEF w, h
  <2> QED BY <1>0, <1>1, <1>2, <2>1
<1>5. (u - d) % w = IF u >= d THEN u - d ELSE u - d + w
  <2>1. u - d \in Int /\ (u >= d => u - d \in 0 .. w - 1) /\ (u < d => u - d \in -w .. -1)
    <3> HIDE DEF w, h, u
    <3> QED BY <1>0, <1>1, <1>3
  <2> HIDE DEF w, h, u
  <2> QED BY <1>0, <1>1, <1>2, <1>3, <2>1
<1>6. (u - d) % w >= h \/ d = u
  <2>1. PICK x, y \in Int : x = (t - d) % w /\ y = (u - d) % w
    BY <1>0, <1>1, <1>3, <1>4, <1>5
  <2>2. y >= h \/ d = u
    <3> HIDE DEF w, h, u
    <3> QED BY <1>0, <1>1, <1>3, <1>4, <1>5, <2>1
  <2> QED BY <2>1, <2>2
<1> QED BY <1>6 DEF Before, NextTick

\* A call on the event an object owns leaves the other events alone.
LEMMA Elsewhere ==
    ASSUME WaitInv, OwnedOK, NEW o \in Owned,
           CreateObject(o) \/ EventDestroy(o) \/ EventSignal(o) \/ EventReset(o)
    PROVE  /\ timer_ticks' = timer_ticks
           /\ \A f \in Events \ {o} : /\ active'[f] = active[f] /\ manual'[f] = manual[f]
                                      /\ signaled'[f] = signaled[f]
           /\ \A f \in Owned : ~manual'[f]
<1>0. o \in Events /\ Owned \subseteq Events /\ ~manual[o]
  BY Kinds DEF OwnedOK
<1>1. /\ timer_ticks' = timer_ticks
      /\ \A f \in Events \ {o} : /\ active'[f] = active[f] /\ manual'[f] = manual[f]
                                 /\ signaled'[f] = signaled[f]
      /\ ~manual'[o]
  <2>1. CASE CreateObject(o)
    BY <1>0, <2>1 DEF CreateObject, EventCreate, WaitInv, WaitTypes
  <2>2. CASE EventDestroy(o)
    BY <1>0, <2>2 DEF EventDestroy, WaitInv, WaitTypes
  <2>3. CASE EventSignal(o)
    BY <1>0, <2>3 DEF EventSignal, Signaled, WaitInv, WaitTypes
  <2>4. CASE EventReset(o)
    BY <1>0, <2>4 DEF EventReset, WaitInv, WaitTypes
  <2> QED BY <2>1, <2>2, <2>3, <2>4, Zenon
<1> QED BY <1>0, <1>1 DEF OwnedOK

\* A signal to an object is kept, or somebody is told.
LEMMA SignalTells ==
    ASSUME WaitInv, OwnedOK, NEW o \in Owned, EventSignal(o)
    PROVE  active[o] /\ active'[o] /\ (signaled'[o] \/ waiters[o] # {})
<1>0. o \in Events
  BY Kinds
<1> QED BY <1>0 DEF EventSignal, Signaled, WaitInv, WaitTypes

\* What tasks do takes signals and gives none, and changes no event otherwise.
LEMMA TasksTake ==
    ASSUME WaitInv, TaskSteps
    PROVE  /\ UNCHANGED <<active, manual, timer_ticks>>
           /\ \A e \in Events : signaled'[e] => signaled[e]
<1>1. ASSUME NEW t \in Tasks, NEW w \in Lists, NEW timeout \in Timeouts, WaitMany(t, w, timeout)
      PROVE  /\ UNCHANGED <<active, manual, timer_ticks>>
             /\ \A e \in Events : signaled'[e] => signaled[e]
  <2>1. CASE WaitRefused(t, w) \/ WaitParks(t, w, timeout)
    BY <2>1 DEF WaitRefused, WaitParks, Answer, event
  <2>2. CASE WaitReady(t, w)
    <3>1. PICK i \in DOMAIN w : /\ ScanEnd(w, i) /\ ~Bad(w, i)
                                /\ signaled' = [signaled EXCEPT ![w[i]] = manual[w[i]]]
                                /\ Answer(t, w[i])
      BY <2>2, Zenon DEF WaitReady
    <3>2. signaled[w[i]]
      BY <3>1 DEF ScanEnd, Stops
    <3>3. \A e \in Events : signaled'[e] => signaled[e]
      BY <3>1, <3>2 DEF WaitInv, WaitTypes
    <3> QED BY <2>2, <3>1, <3>3, Zenon DEF WaitReady, Answer
  <2> QED BY <1>1, <2>1, <2>2 DEF WaitMany
<1>2. ASSUME NEW t \in Tasks, TaskDies(t) \/ TaskStarts(t)
      PROVE  UNCHANGED <<active, manual, timer_ticks, signaled>>
  BY <1>2 DEF TaskDies, TaskStarts, event
<1> QED BY <1>1, <1>2 DEF TaskSteps

-----------------------------------------------------------------------------
(* What keeps one kind of object as it is.                                   *)

\* Timers stay as they are while only other objects change.
LEMMA TimersFrame ==
    ASSUME TimersOK, UNCHANGED <<timer, timer_ticks>>, due' \subseteq Requests \cup Timers,
           \A e \in Timers : (e \in due' <=> e \in due) /\ (signaled'[e] => signaled[e])
    PROVE  TimersOK'
  BY DEF TimersOK, timer

\* Requests stay as they are while their completions stay active and announced.
LEMMA RequestsFrame ==
    ASSUME RequestsOK, UNCHANGED <<request, timer_ticks>>,
           \A r \in Requests : r \in due => r \in due',
           \A c \in Completions : active'[c] = active[c] /\ (Announced(c) => Announced(c)')
    PROVE  RequestsOK'
<1>1. UNCHANGED <<rstate, rgen, expiry, rtimed, next_slot, begun, serial, closer, issued>>
  BY Zenon DEF request
<1>2. ASSUME NEW r \in Requests
      PROVE  /\ rstate'[r] = "pending" /\ rtimed'[r] => r \in due' \/ Before(timer_ticks', expiry'[r])
             /\ ~active'[r[1]] => rstate'[r] = "free"
             /\ rstate'[r] \in Over => Announced(r[1])'
  <2>1. r[1] \in Completions
    BY Kinds
  <2> QED BY <1>1, <2>1, Zenon DEF RequestsOK
<1> QED BY <1>1, <1>2, Zenon DEF RequestsOK

\* Bridges stay as they are while they stay active and announced.
LEMMA BridgesFrame ==
    ASSUME BridgesOK, UNCHANGED bridge,
           \A b \in Bridges : active'[b] = active[b] /\ (Announced(b) => Announced(b)')
    PROVE  BridgesOK'
<1>1. UNCHANGED <<queue, head, count, sequence, last>>
  BY DEF bridge
<1>2. NotificationsInOrder'
  BY <1>1 DEF BridgesOK, NotificationsInOrder
<1>3. \A b \in Bridges :
          /\ ~active'[b] => count'[b] = 0
          /\ active'[b] => sequence'[b] = (last'[b] + 1 + count'[b]) % SEQUENCES
          /\ count'[b] > 0 => Announced(b)'
  BY <1>1 DEF BridgesOK
<1> QED BY <1>1, <1>2, <1>3, Zenon DEF BridgesOK

-----------------------------------------------------------------------------
(* Timers.                                                                   *)

\* A timer that is taken back is neither armed nor signaled.
LEMMA UnsetKeeps ==
    ASSUME WaitInv, ObjectsInv, due = {}, due' = due, NEW e \in Timers, TimerUnset(e),
           ~signaled'[e], \A f \in Events \ {e} : signaled'[f] = signaled[f],
           timer_ticks' = timer_ticks
    PROVE  TimersOK'
<1>1. /\ armed' = [armed EXCEPT ![e] = FALSE] /\ alarm' = [alarm EXCEPT ![e] = 0]
      /\ interval' = [interval EXCEPT ![e] = 0] /\ fired' = [fired EXCEPT ![e] = FALSE]
  BY DEF TimerUnset
<1>2. TimersOK /\ Timers \subseteq Events /\ 0 \in Times
  BY Kinds, LeftBound DEF ObjectsInv
<1>3. /\ armed' \in [Timers -> BOOLEAN] /\ alarm' \in [Timers -> Times]
      /\ interval' \in [Timers -> Intervals \cup {0}] /\ fired' \in [Timers -> BOOLEAN]
  BY <1>1, <1>2 DEF TimersOK
<1>4. ASSUME NEW f \in Timers
      PROVE  /\ armed'[f] => f \in due' \/ Before(timer_ticks', alarm'[f])
             /\ f \in due' => armed'[f] /\ alarm'[f] = timer_ticks'
             /\ signaled'[f] => fired'[f]
  <2>1. CASE f = e
    BY <1>1, <1>2, <2>1 DEF TimersOK
  <2>2. CASE f # e
    BY <1>1, <1>2, <2>2 DEF TimersOK
  <2> QED BY <2>1, <2>2
<1> QED BY <1>3, <1>4 DEF TimersOK

\* An armed timer is its timeout away.
LEMMA ArmKeeps ==
    ASSUME WaitInv, WaitTimes, ObjectsInv, due = {}, due' = due, NEW e \in Timers,
           NEW timeout \in Timeouts, NEW i \in Intervals, TimerArm(e, timeout, i)
    PROVE  TimersOK'
<1>1. /\ armed' = [armed EXCEPT ![e] = TRUE]
      /\ alarm' = [alarm EXCEPT ![e] = Deadline(timer_ticks, timeout)]
      /\ interval' = [interval EXCEPT ![e] = i] /\ fired' = [fired EXCEPT ![e] = FALSE]
      /\ signaled' = [signaled EXCEPT ![e] = FALSE] /\ timer_ticks' = timer_ticks
      /\ timeout > 0
  BY DEF TimerArm, ArmResets, EventReset
<1>2. TimersOK /\ Timers \subseteq Events
  BY Kinds DEF ObjectsInv
<1>3. timeout \in 0 .. (Wrap \div 2 - 1) /\ timer_ticks \in Times
  BY TimeoutsBound DEF WaitTimes
<1>4. timeout \in 1 .. (Wrap \div 2 - 1) /\ timeout \in Nat
  BY <1>1, <1>3
<1>5. Deadline(timer_ticks, timeout) \in Times /\ Before(timer_ticks, Deadline(timer_ticks, timeout))
  BY <1>3, <1>4, TimesClosed, DeadlineAhead, Zenon
<1>6. /\ armed' \in [Timers -> BOOLEAN] /\ alarm' \in [Timers -> Times]
      /\ interval' \in [Timers -> Intervals \cup {0}] /\ fired' \in [Timers -> BOOLEAN]
  BY <1>1, <1>2, <1>5 DEF TimersOK
<1>7. ASSUME NEW f \in Timers
      PROVE  /\ armed'[f] => f \in due' \/ Before(timer_ticks', alarm'[f])
             /\ f \in due' => armed'[f] /\ alarm'[f] = timer_ticks'
             /\ signaled'[f] => fired'[f]
  <2>1. CASE f = e
    BY <1>1, <1>2, <1>5, <2>1 DEF TimersOK, WaitInv, WaitTypes
  <2>2. CASE f # e
    BY <1>1, <1>2, <2>2 DEF TimersOK, WaitInv, WaitTypes
  <2> QED BY <2>1, <2>2, Zenon
<1> QED BY <1>6, <1>7 DEF TimersOK

\* The calls on timers.
LEMMA TimerCallsKeep ==
    ASSUME WaitInv, WaitTimes, ObjectsInv, due = {}, due' = due, TimerCalls
    PROVE  ObjectsInv' /\ EventStep
<1>0. PICK e \in Timers :
          \/ TimerCreate(e) \/ TimerDestroy(e) \/ TimerCancel(e)
          \/ \E timeout \in Timeouts, i \in Intervals : TimerArm(e, timeout, i)
  BY Zenon DEF TimerCalls
<1>1. UNCHANGED <<request, bridge, told>>
  BY DEF TimerCalls
<1>2. /\ CreateObject(e) \/ EventDestroy(e) \/ EventSignal(e) \/ EventReset(e)
      /\ TimerUnset(e) => ~signaled'[e]
  <2>1. e \in Events
    BY Kinds
  <2> QED BY <1>0, <2>1 DEF TimerCreate, TimerDestroy, TimerCancel, TimerArm, ArmResets, CreateObject,
                 EventCreate, EventDestroy, EventReset, WaitInv, WaitTypes
<1>3. e \in Owned /\ e \in Events /\ OwnedOK
  BY Kinds DEF ObjectsInv
<1>4. /\ timer_ticks' = timer_ticks
      /\ \A f \in Events \ {e} : /\ active'[f] = active[f] /\ manual'[f] = manual[f]
                                 /\ signaled'[f] = signaled[f]
      /\ \A f \in Owned : ~manual'[f]
  BY <1>2, <1>3, Elsewhere
<1>5. EventStep
  <2>1. EventCalls(Events)
    BY <1>2, <1>3, Zenon DEF EventCalls, CreateObject
  <2> QED BY <2>1 DEF EventStep
<1>6. TimersOK'
  <2>1. CASE TimerUnset(e)
    BY <1>2, <1>4, <2>1, UnsetKeeps, Zenon
  <2>2. ASSUME NEW timeout \in Timeouts, NEW i \in Intervals, TimerArm(e, timeout, i)
        PROVE  TimersOK'
    BY <2>2, ArmKeeps
  <2> QED BY <1>0, <2>1, <2>2 DEF TimerCreate, TimerDestroy, TimerCancel
<1>7. \A f \in Sources : f # e /\ f \in Events
  BY Kinds
<1>8. \A f \in Sources : active'[f] = active[f] /\ (Announced(f) => Announced(f)')
  BY <1>1, <1>4, <1>7 DEF Announced
<1>9. RequestsOK' /\ BridgesOK'
  BY <1>1, <1>4, <1>8, RequestsFrame, BridgesFrame, Kinds DEF ObjectsInv
<1>10. OwnedOK'
  BY <1>1, <1>3, <1>4, Zenon DEF OwnedOK
<1> QED BY <1>5, <1>6, <1>9, <1>10 DEF ObjectsInv

\* A periodic timer that fires at its time goes to the next multiple, which lies
\* ahead.
LEMMA AdvanceAhead ==
    ASSUME WaitTimes, TimersOK, NEW e \in Timers, alarm[e] = timer_ticks, interval[e] # 0
    PROVE  Advance(e) \in Times /\ Before(timer_ticks, Advance(e))
<1> DEFINE at(k) == (alarm[e] + k * interval[e]) % Wrap
           P(k) == /\ Before(timer_ticks, at(k))
                   /\ \A j \in 1 .. k - 1 : ~Before(timer_ticks, at(j))
<1>1. timer_ticks \in Times /\ timer_ticks \in Int /\ interval[e] \in Int
      /\ interval[e] \in 1 .. (Wrap \div 2 - 1)
  <2>1. interval[e] \in 0 .. (Wrap \div 2 - 1)
    <3>1. interval[e] \in Intervals \cup {0}
      BY DEF TimersOK
    <3>2. Intervals \subseteq 0 .. (Wrap \div 2 - 1)
      BY AsyncAssumption
    <3> QED BY <3>1, <3>2, Zenon
  <2> QED BY <2>1, LeftBound DEF WaitTimes
<1>2. at(1) = Deadline(timer_ticks, interval[e])
  BY <1>1 DEF Deadline
<1>3. Before(timer_ticks, at(1))
  BY <1>1, <1>2, DeadlineAhead
<1>4. P(1) /\ 1 \in 1 .. Wrap
  <2>1. 1 .. 1 - 1 = {}
    OBVIOUS
  <2> QED BY <1>3, <2>1, HalfWrap
<1>5. PICK k \in 1 .. Wrap : Advance(e) = at(k) /\ P(k)
  <2> DEFINE K == CHOOSE k \in 1 .. Wrap : P(k)
  <2>1. K \in 1 .. Wrap /\ P(K)
    <3> HIDE DEF P
    <3> QED BY <1>4
  <2>2. Advance(e) = at(K)
    BY DEF Advance
  <2> QED BY <2>1, <2>2, Zenon
<1>6. at(k) \in Times
  <2>1. alarm[e] + k * interval[e] \in Int
    BY <1>1
  <2> QED BY <2>1, HalfWrap, DivMod DEF Times
<1> QED BY <1>5, <1>6

\* timer_object_tick: a due timer fires and is over, or lies ahead again.
LEMMA TimerTickKeeps ==
    ASSUME WaitInv, WaitTimes, ObjectsInv, TimerTick
    PROVE  ObjectsInv' /\ EventStep
<1>0. PICK e \in due : TimerFires(e) /\ due' = due \ {e} /\ UNCHANGED <<request, bridge>>
  BY Zenon DEF TimerTick
<1>1. e \in Timers /\ due \subseteq Timers
  BY <1>0 DEF TimerTick
<1>2. e \in Owned /\ e \in Events /\ OwnedOK /\ TimersOK /\ Timers \subseteq Events /\ e \notin Sources
      /\ Requests \cap Timers = {}
  BY <1>1, Kinds DEF ObjectsInv
<1>3. /\ EventSignal(e) /\ told' = told
      /\ fired' = [fired EXCEPT ![e] = TRUE]
      /\ armed' = [armed EXCEPT ![e] = interval[e] # 0]
      /\ alarm' = [alarm EXCEPT ![e] = IF interval[e] = 0 THEN 0 ELSE Advance(e)]
      /\ interval' = interval
  BY <1>0, <1>2, Zenon DEF TimerFires, SignalObject, Tell
<1>4. /\ timer_ticks' = timer_ticks
      /\ \A f \in Events \ {e} : /\ active'[f] = active[f] /\ manual'[f] = manual[f]
                                 /\ signaled'[f] = signaled[f]
      /\ \A f \in Owned : ~manual'[f]
  BY <1>2, <1>3, Elsewhere, Zenon
<1>5. EventStep
  <2>1. EventCalls(Events)
    BY <1>2, <1>3 DEF EventCalls
  <2> QED BY <2>1 DEF EventStep
<1>6. alarm[e] = timer_ticks
  BY <1>0, <1>1, <1>2 DEF TimersOK
<1>7. interval[e] # 0 => Advance(e) \in Times /\ Before(timer_ticks, Advance(e))
  BY <1>1, <1>2, <1>6, AdvanceAhead, Zenon
<1>8. TimersOK'
  <2>1. /\ armed' \in [Timers -> BOOLEAN] /\ alarm' \in [Timers -> Times]
        /\ interval' \in [Timers -> Intervals \cup {0}] /\ fired' \in [Timers -> BOOLEAN]
    <3>1. armed' \in [Timers -> BOOLEAN] /\ fired' \in [Timers -> BOOLEAN]
      BY <1>2, <1>3, Zenon DEF TimersOK
    <3>2. (IF interval[e] = 0 THEN 0 ELSE Advance(e)) \in Times
      BY <1>7, LeftBound
    <3> QED BY <1>2, <1>3, <3>1, <3>2 DEF TimersOK
  <2>2. ASSUME NEW f \in Timers
        PROVE  /\ armed'[f] => f \in due' \/ Before(timer_ticks', alarm'[f])
               /\ f \in due' => armed'[f] /\ alarm'[f] = timer_ticks'
               /\ signaled'[f] => fired'[f]
    <3>1. CASE f = e
      <4>1. armed'[f] => interval[e] # 0
        BY <1>2, <1>3, <3>1, Zenon DEF TimersOK
      <4>2. interval[e] # 0 => alarm'[f] = Advance(e)
        BY <1>2, <1>3, <3>1 DEF TimersOK
      <4>3. fired'[f] /\ f \notin due'
        BY <1>0, <1>2, <1>3, <3>1 DEF TimersOK
      <4> QED BY <1>4, <1>7, <4>1, <4>2, <4>3
    <3>2. CASE f # e
      <4>1. /\ armed'[f] = armed[f] /\ alarm'[f] = alarm[f] /\ fired'[f] = fired[f]
            /\ f \in due' <=> f \in due
        BY <1>0, <1>2, <1>3, <3>2 DEF TimersOK
      <4>2. signaled'[f] = signaled[f]
        BY <1>2, <1>4, <3>2, Zenon
      <4> QED BY <1>2, <1>4, <4>1, <4>2, Zenon DEF TimersOK
    <3> QED BY <3>1, <3>2
  <2> QED BY <1>0, <1>1, <2>1, <2>2 DEF TimersOK
<1>9. \A f \in Sources : active'[f] = active[f] /\ (Announced(f) => Announced(f)')
  <2>1. \A f \in Sources : f # e /\ f \in Events
    BY <1>1, Kinds
  <2> QED BY <1>3, <1>4, <2>1, Zenon DEF Announced
<1>10. \A r \in Requests : r \in due => r \in due'
  BY <1>1, <1>2
<1>11. RequestsOK' /\ BridgesOK'
  BY <1>0, <1>4, <1>9, <1>10, RequestsFrame, BridgesFrame, Kinds DEF ObjectsInv
<1>12. OwnedOK'
  BY <1>2, <1>3, <1>4, Zenon DEF OwnedOK
<1> QED BY <1>5, <1>8, <1>11, <1>12 DEF ObjectsInv

-----------------------------------------------------------------------------
(* Completions.                                                              *)

\* A step on the event of a completion c leaves the timers, the bridges and the
\* other completions as they are.
LEMMA AroundCompletion ==
    ASSUME WaitInv, ObjectsInv, NEW c \in Completions, UNCHANGED <<timer, bridge>>,
           CreateObject(c) \/ EventDestroy(c) \/ EventSignal(c) \/ EventReset(c),
           due' \subseteq Requests \cup Timers, \A e \in Timers : e \in due' <=> e \in due,
           told' \in [Sources -> BOOLEAN], \A o \in Sources \ {c} : told'[o] = told[o]
    PROVE  /\ TimersOK' /\ BridgesOK' /\ OwnedOK' /\ EventStep
           /\ timer_ticks' = timer_ticks
           /\ \A d \in Completions \ {c} : active'[d] = active[d] /\ (Announced(d) => Announced(d)')
<1>1. c \in Owned /\ c \in Events /\ OwnedOK /\ c \in Sources
  BY Kinds DEF ObjectsInv
<1>2. /\ timer_ticks' = timer_ticks
      /\ \A f \in Events \ {c} : /\ active'[f] = active[f] /\ manual'[f] = manual[f]
                                 /\ signaled'[f] = signaled[f]
      /\ \A f \in Owned : ~manual'[f]
  BY <1>1, Elsewhere
<1>3. EventStep
  <2>1. EventCalls(Events)
    BY <1>1, Zenon DEF EventCalls, CreateObject
  <2> QED BY <2>1 DEF EventStep
<1>4. TimersOK'
  <2>1. \A e \in Timers : e # c /\ e \in Events
    BY <1>1, Kinds
  <2> QED BY <1>2, <2>1, TimersFrame DEF ObjectsInv
<1>5. \A f \in Sources \ {c} : active'[f] = active[f] /\ (Announced(f) => Announced(f)')
  <2>1. Sources \subseteq Events
    BY Kinds
  <2> QED BY <1>2, <2>1, Zenon DEF Announced
<1>6. BridgesOK'
  <2>1. \A b \in Bridges : b \in Sources \ {c}
    BY Kinds
  <2> QED BY <1>5, <2>1, BridgesFrame DEF ObjectsInv
<1>7. OwnedOK'
  BY <1>2 DEF OwnedOK
<1>8. \A d \in Completions \ {c} : d \in Sources \ {c}
  BY Kinds
<1> QED BY <1>2, <1>3, <1>4, <1>5, <1>6, <1>7, <1>8, Zenon

\* completion_create and completion_destroy leave every request of c free.
LEMMA CreateDestroyKeep ==
    ASSUME WaitInv, WaitTimes, ObjectsInv, due = {}, due' = due, NEW c \in Completions,
           CompletionCreate(c) \/ CompletionDestroy(c), told' = [told EXCEPT ![c] = FALSE],
           UNCHANGED <<timer, bridge>>
    PROVE  ObjectsInv' /\ EventStep
<1>1. told' \in [Sources -> BOOLEAN] /\ \A o \in Sources \ {c} : told'[o] = told[o]
  BY Zenon DEF ObjectsInv, OwnedOK
<1>2. CreateObject(c) \/ EventDestroy(c) \/ EventSignal(c) \/ EventReset(c)
  BY Zenon DEF CompletionCreate, CompletionDestroy
<1>3. due' \subseteq Requests \cup Timers /\ \A e \in Timers : e \in due' <=> e \in due
  OBVIOUS
<1>4. /\ TimersOK' /\ BridgesOK' /\ OwnedOK' /\ EventStep
      /\ timer_ticks' = timer_ticks
      /\ \A d \in Completions \ {c} : active'[d] = active[d] /\ (Announced(d) => Announced(d)')
  BY <1>1, <1>2, <1>3, AroundCompletion, Zenon
<1>5. RequestsOK /\ c \in Events /\ 0 \in Times /\ 0 \in Slots
  BY Kinds, LeftBound, AsyncAssumption DEF ObjectsInv, Slots
<1>6. next_slot' \in [Completions -> Slots] /\ UNCHANGED <<begun, serial, closer, issued>>
  BY <1>5, Zenon DEF CompletionCreate, CompletionDestroy, RequestsOK
<1>7. /\ rstate' \in [Requests -> {"free", "pending"} \cup Over]
      /\ rgen' \in [Requests -> 1 .. GENERATIONS]
      /\ expiry' \in [Requests -> Times] /\ rtimed' \in [Requests -> BOOLEAN]
      /\ \A r \in Requests : /\ r[1] = c => rstate'[r] = "free"
                             /\ r[1] # c => rstate'[r] = rstate[r] /\ expiry'[r] = expiry[r]
                                            /\ rtimed'[r] = rtimed[r]
  <2>1. CASE CompletionCreate(c)
    <3>1. UNCHANGED <<rstate, rgen, expiry, rtimed>> /\ ~active[c]
      BY <2>1 DEF CompletionCreate, CreateObject, EventCreate
    <3> QED BY <1>5, <3>1, Zenon DEF RequestsOK
  <2>2. CASE CompletionDestroy(c)
    <3>1. /\ rstate' = [r \in Requests |-> IF r[1] = c THEN "free" ELSE rstate[r]]
          /\ rgen' = [r \in Requests |-> IF r[1] = c THEN NextGeneration(r) ELSE rgen[r]]
          /\ expiry' = [r \in Requests |-> IF r[1] = c THEN 0 ELSE expiry[r]]
          /\ rtimed' = [r \in Requests |-> IF r[1] = c THEN FALSE ELSE rtimed[r]]
      BY <2>2, Zenon DEF CompletionDestroy
    <3>2. \A r \in Requests : NextGeneration(r) \in 1 .. GENERATIONS
      BY <1>5, AsyncAssumption DEF NextGeneration, RequestsOK
    <3> QED BY <1>5, <3>1, <3>2, Zenon DEF RequestsOK
  <2> QED BY <2>1, <2>2, Zenon
<1>8. ASSUME NEW r \in Requests
      PROVE  /\ rstate'[r] = "pending" /\ rtimed'[r] => r \in due' \/ Before(timer_ticks', expiry'[r])
             /\ ~active'[r[1]] => rstate'[r] = "free"
             /\ rstate'[r] \in Over => Announced(r[1])'
  <2>1. r[1] \in Completions
    BY Kinds
  <2>2. CASE r[1] = c
    BY <1>7, <2>2, Zenon DEF Over
  <2>3. CASE r[1] # c
    BY <1>4, <1>5, <1>7, <2>1, <2>3, Zenon DEF RequestsOK
  <2> QED BY <2>2, <2>3, Zenon
<1>9. RequestsOK'
  BY <1>5, <1>6, <1>7, <1>8, Zenon DEF RequestsOK
<1> QED BY <1>4, <1>9 DEF ObjectsInv

\* completion_request_begin: the request's deadline is its timeout away.
LEMMA BeginKeeps ==
    ASSUME WaitInv, WaitTimes, ObjectsInv, due = {}, due' = due, NEW r \in Requests,
           NEW timeout \in Timeouts, RequestBegin(r[1], r[2], timeout), UNCHANGED <<told, timer, bridge>>
    PROVE  ObjectsInv' /\ UNCHANGED vars
<1>1. r = <<r[1], r[2]>> /\ r[1] \in Completions /\ r[2] \in Slots
  BY Kinds
<1>2. /\ active[r[1]]
      /\ rstate' = [rstate EXCEPT ![r] = "pending"]
      /\ expiry' = [expiry EXCEPT ![r] = Deadline(timer_ticks, timeout)]
      /\ rtimed' = [rtimed EXCEPT ![r] = timeout # 0]
      /\ next_slot' = [next_slot EXCEPT ![r[1]] = (r[2] + 1) % REQUEST_MAX]
      /\ begun' = begun + 1
      /\ serial' = [serial EXCEPT ![r] = begun + 1]
      /\ closer' = [closer EXCEPT ![r] = begun + 1]
      /\ issued' = issued \cup {[r |-> r, gen |-> rgen[r], n |-> begun + 1]}
      /\ UNCHANGED <<vars, rgen>>
  BY <1>1, Zenon DEF RequestBegin
<1>3. /\ UNCHANGED <<active, manual, signaled, timer_ticks>>
      /\ UNCHANGED vars
  BY <1>2, Zenon DEF vars, event
<1>4. TimersOK' /\ OwnedOK' /\ BridgesOK'
  BY <1>3, TimersFrame, BridgesFrame, Zenon DEF ObjectsInv, OwnedOK, Announced, TimersOK
<1>5. RequestsOK /\ timer_ticks \in Times /\ timeout \in Nat /\ timeout \in 0 .. (Wrap \div 2 - 1)
  BY TimeoutsBound DEF ObjectsInv, WaitTimes
<1>6. /\ Deadline(timer_ticks, timeout) \in Times
      /\ timeout # 0 => Before(timer_ticks, Deadline(timer_ticks, timeout))
  <2>1. timeout # 0 => timeout \in 1 .. (Wrap \div 2 - 1)
    BY <1>5
  <2> QED BY <1>5, <2>1, TimesClosed, DeadlineAhead, Zenon
<1>7. next_slot' \in [Completions -> Slots]
  <2>1. REQUEST_MAX \in Nat \ {0} /\ r[2] + 1 \in Int
    BY <1>1, AsyncAssumption DEF Slots
  <2>2. (r[2] + 1) % REQUEST_MAX \in Slots
    BY <2>1, DivMod, Zenon DEF Slots
  <2> QED BY <1>1, <1>2, <1>5, <2>2, Zenon DEF RequestsOK
<1>8. /\ rstate' \in [Requests -> {"free", "pending"} \cup Over]
      /\ rgen' \in [Requests -> 1 .. GENERATIONS]
      /\ expiry' \in [Requests -> Times] /\ rtimed' \in [Requests -> BOOLEAN]
      /\ begun' \in Nat /\ serial' \in [Requests -> Nat] /\ closer' \in [Requests -> Nat]
  BY <1>2, <1>5, <1>6 DEF RequestsOK
<1>9. issued' \subseteq [r : Requests, gen : 1 .. GENERATIONS, n : Nat]
  BY <1>2, <1>5 DEF RequestsOK
<1>10. ASSUME NEW q \in Requests
       PROVE  /\ rstate'[q] = "pending" /\ rtimed'[q] => q \in due' \/ Before(timer_ticks', expiry'[q])
              /\ ~active'[q[1]] => rstate'[q] = "free"
              /\ rstate'[q] \in Over => Announced(q[1])'
  <2>1. CASE q = r
    BY <1>2, <1>3, <1>5, <1>6, <2>1, Zenon DEF RequestsOK, Over
  <2>2. CASE q # r
    BY <1>2, <1>3, <1>5, <2>2, Zenon DEF RequestsOK, Announced
  <2> QED BY <2>1, <2>2, Zenon
<1>11. RequestsOK'
  BY <1>7, <1>8, <1>9, <1>10, Zenon DEF RequestsOK
<1> QED BY <1>3, <1>4, <1>11 DEF ObjectsInv

\* A request that ends is announced on its completion's event.
LEMMA CloseKeeps ==
    ASSUME WaitInv, WaitTimes, ObjectsInv, NEW r \in Requests, NEW s \in Over, Close(r, s),
           closer' \in [Requests -> Nat], UNCHANGED <<timer, bridge>>,
           due' \subseteq Requests \cup Timers, \A e \in Timers : e \in due' <=> e \in due,
           \A q \in Requests : q # r /\ q \in due => q \in due'
    PROVE  ObjectsInv' /\ EventStep
<1>1. r[1] \in Completions /\ r[1] \in Sources /\ r[1] \in Owned /\ r[1] \in Events
  BY Kinds
<1>2. /\ EventSignal(r[1])
      /\ told' = IF waiters[r[1]] # {} THEN [told EXCEPT ![r[1]] = TRUE] ELSE told
      /\ rstate' = [rstate EXCEPT ![r] = s] /\ expiry' = [expiry EXCEPT ![r] = 0]
      /\ rtimed' = [rtimed EXCEPT ![r] = FALSE]
      /\ UNCHANGED <<rgen, next_slot, begun, serial, issued>>
  BY <1>1, Zenon DEF Close, SignalObject, Tell
<1>3. /\ told' \in [Sources -> BOOLEAN] /\ \A o \in Sources \ {r[1]} : told'[o] = told[o]
      /\ waiters[r[1]] # {} => told'[r[1]]
      /\ RequestsOK /\ OwnedOK
  BY <1>1, <1>2, Zenon DEF ObjectsInv, OwnedOK
<1>4. /\ TimersOK' /\ BridgesOK' /\ OwnedOK' /\ EventStep
      /\ timer_ticks' = timer_ticks
      /\ \A d \in Completions \ {r[1]} : active'[d] = active[d] /\ (Announced(d) => Announced(d)')
  BY <1>1, <1>2, <1>3, AroundCompletion, Zenon
<1>5. active[r[1]] /\ active'[r[1]] /\ Announced(r[1])'
  <2>1. active[r[1]] /\ active'[r[1]] /\ (signaled'[r[1]] \/ waiters[r[1]] # {})
    BY <1>1, <1>2, <1>3, SignalTells, Zenon
  <2> QED BY <1>3, <2>1, Zenon DEF Announced
<1>6. /\ rstate' \in [Requests -> {"free", "pending"} \cup Over]
      /\ rgen' \in [Requests -> 1 .. GENERATIONS]
      /\ expiry' \in [Requests -> Times] /\ rtimed' \in [Requests -> BOOLEAN]
      /\ next_slot' \in [Completions -> Slots] /\ begun' \in Nat /\ serial' \in [Requests -> Nat]
      /\ issued' \subseteq [r : Requests, gen : 1 .. GENERATIONS, n : Nat]
  BY <1>2, <1>3, LeftBound, Zenon DEF RequestsOK
<1>7. ASSUME NEW q \in Requests
      PROVE  /\ rstate'[q] = "pending" /\ rtimed'[q] => q \in due' \/ Before(timer_ticks', expiry'[q])
             /\ ~active'[q[1]] => rstate'[q] = "free"
             /\ rstate'[q] \in Over => Announced(q[1])'
  <2>1. q[1] \in Completions
    BY Kinds
  <2>2. CASE q = r
    BY <1>2, <1>3, <1>5, <2>2, Zenon DEF RequestsOK
  <2>3. CASE q # r
    <3>1. rstate'[q] = rstate[q] /\ expiry'[q] = expiry[q] /\ rtimed'[q] = rtimed[q]
      BY <1>2, <1>3, <2>3, Zenon DEF RequestsOK
    <3>2. /\ ~active'[q[1]] => ~active[q[1]]
          /\ Announced(q[1]) => Announced(q[1])'
      BY <1>4, <1>5, <2>1, Zenon
    <3> QED BY <1>3, <1>4, <2>3, <3>1, <3>2, Zenon DEF RequestsOK
  <2> QED BY <2>2, <2>3, Zenon
<1>8. RequestsOK'
  BY <1>6, <1>7, Zenon DEF RequestsOK
<1> QED BY <1>4, <1>8, Zenon DEF ObjectsInv

\* A poll that announces the next request is a signal: the reset before it
\* takes back nothing that somebody waits for.
LEMMA PollSignals ==
    ASSUME WaitInv, OwnedOK, NEW r \in Requests, PollAnnounces(r)
    PROVE  /\ \/ EventReset(r[1]) /\ Others(r) = {} /\ told' = [told EXCEPT ![r[1]] = FALSE]
              \/ EventSignal(r[1]) /\ told' = [told EXCEPT ![r[1]] = waiters[r[1]] # {}]
<1> DEFINE c == r[1]
<1>1. c \in Owned /\ c \in Events /\ ~manual[c]
  BY Kinds DEF OwnedOK
<1>2. ASSUME active[c], signaled' = [signaled EXCEPT ![c] = waiters[c] = {}],
             Wake({c}, Woken(c), c), UNCHANGED <<active, manual, timer_ticks, left>>
      PROVE  EventSignal(c)
  <2>1. [signaled EXCEPT ![c] = waiters[c] = {}] = Signaled(c)
    <3>1. CASE waiters[c] = {}
      BY <1>1, <3>1, Zenon DEF Signaled
    <3>2. CASE waiters[c] # {}
      <4>1. signaled[c] = FALSE
        BY <1>1, <3>2 DEF WaitInv, NoMissedSignal, WaitTypes
      <4>2. [signaled EXCEPT ![c] = FALSE] = signaled
        BY <1>1, <4>1 DEF WaitInv, WaitTypes
      <4> QED BY <1>1, <3>2, <4>2, Zenon DEF Signaled
    <3> QED BY <3>1, <3>2, Zenon
  <2> QED BY <1>2, <2>1, Zenon DEF EventSignal
<1> QED BY <1>2, Zenon DEF PollAnnounces, PollResets

\* completion_request_poll: whatever is over besides the request it takes is
\* announced again.
LEMMA PollKeeps ==
    ASSUME WaitInv, WaitTimes, ObjectsInv, due = {}, due' = due, NEW id \in issued, RequestPoll(id),
           UNCHANGED <<timer, bridge>>
    PROVE  ObjectsInv' /\ EventStep
<1> DEFINE r == id.r
           c == r[1]
<1>1. r \in Requests /\ c \in Completions /\ c \in Sources /\ c \in Owned /\ c \in Events
      /\ r[2] \in Slots
  <2>1. r \in Requests
    BY Zenon DEF ObjectsInv, RequestsOK
  <2> QED BY <2>1, Kinds
<1>2. RequestsOK /\ OwnedOK
  BY DEF ObjectsInv
<1>3. /\ active[c]
      /\ rstate' = [rstate EXCEPT ![r] = "free"] /\ rgen' = [rgen EXCEPT ![r] = NextGeneration(r)]
      /\ next_slot' = [next_slot EXCEPT ![c] = IF next_slot[c] > r[2] THEN r[2] ELSE next_slot[c]]
      /\ PollAnnounces(r)
      /\ UNCHANGED <<expiry, rtimed, begun, serial, closer, issued>>
  BY Zenon DEF RequestPoll, Current, PollBumpsGeneration
<1> HIDE DEF r, c
<1>4. \/ EventReset(c) /\ Others(r) = {} /\ told' = [told EXCEPT ![c] = FALSE]
      \/ EventSignal(c) /\ told' = [told EXCEPT ![c] = waiters[c] # {}]
  BY <1>1, <1>2, <1>3, PollSignals, Zenon DEF c
<1>5. /\ told' \in [Sources -> BOOLEAN] /\ \A o \in Sources \ {c} : told'[o] = told[o]
  BY <1>1, <1>2, <1>4, Zenon DEF OwnedOK
<1>6. /\ TimersOK' /\ BridgesOK' /\ OwnedOK' /\ EventStep
      /\ timer_ticks' = timer_ticks
      /\ \A d \in Completions \ {c} : active'[d] = active[d] /\ (Announced(d) => Announced(d)')
  <2>1. due' \subseteq Requests \cup Timers /\ \A e \in Timers : e \in due' <=> e \in due
    OBVIOUS
  <2> QED BY <1>1, <1>4, <1>5, <2>1, AroundCompletion, Zenon
<1>7. active'[c]
  BY <1>1, <1>3, <1>4, Zenon DEF EventReset, EventSignal
<1>8. Others(r) # {} => Announced(c)'
  <2> SUFFICES ASSUME EventSignal(c), told' = [told EXCEPT ![c] = waiters[c] # {}]
               PROVE  Announced(c)'
    BY <1>4, Zenon
  <2>1. signaled'[c] \/ waiters[c] # {}
    BY <1>1, <1>2, SignalTells, Zenon
  <2>2. told'[c] = (waiters[c] # {})
    BY <1>1, <1>2, Zenon DEF OwnedOK
  <2> QED BY <2>1, <2>2, Zenon DEF Announced
<1>9. /\ rstate' \in [Requests -> {"free", "pending"} \cup Over]
      /\ rgen' \in [Requests -> 1 .. GENERATIONS]
      /\ next_slot' \in [Completions -> Slots]
  <2>1. NextGeneration(r) \in 1 .. GENERATIONS
    BY <1>1, <1>2, AsyncAssumption DEF NextGeneration, RequestsOK
  <2> QED BY <1>1, <1>2, <1>3, <2>1, Zenon DEF RequestsOK
<1>10. ASSUME NEW q \in Requests
       PROVE  /\ rstate'[q] = "pending" /\ rtimed'[q] => q \in due' \/ Before(timer_ticks', expiry'[q])
              /\ ~active'[q[1]] => rstate'[q] = "free"
              /\ rstate'[q] \in Over => Announced(q[1])'
  <2>1. q[1] \in Completions
    BY Kinds
  <2>2. CASE q = r
    BY <1>1, <1>2, <1>3, <2>2, Zenon DEF RequestsOK, Over
  <2>3. CASE q # r
    <3>1. rstate'[q] = rstate[q] /\ expiry'[q] = expiry[q] /\ rtimed'[q] = rtimed[q]
      BY <1>1, <1>2, <1>3, <2>3, Zenon DEF RequestsOK
    <3>2. q[1] = c /\ rstate[q] \in Over => q \in Others(r)
      BY <2>3 DEF Others, c
    <3>3. CASE q[1] = c
      BY <1>2, <1>3, <1>6, <1>7, <1>8, <3>1, <3>2, <3>3, Zenon DEF RequestsOK
    <3>4. CASE q[1] # c
      BY <1>2, <1>3, <1>6, <2>1, <3>1, <3>4, Zenon DEF RequestsOK
    <3> QED BY <3>3, <3>4, Zenon
  <2> QED BY <2>2, <2>3, Zenon
<1>11. RequestsOK'
  BY <1>2, <1>3, <1>9, <1>10, Zenon DEF RequestsOK
<1> QED BY <1>6, <1>11, Zenon DEF ObjectsInv

\* The calls on completions.
LEMMA CompletionCallsKeep ==
    ASSUME WaitInv, WaitTimes, ObjectsInv, due = {}, due' = due, CompletionCalls
    PROVE  ObjectsInv' /\ (EventStep \/ UNCHANGED vars)
<1>0. UNCHANGED <<timer, bridge>>
  BY DEF CompletionCalls
<1>1. ASSUME NEW c \in Completions, CompletionCreate(c) \/ CompletionDestroy(c),
             told' = [told EXCEPT ![c] = FALSE]
      PROVE  ObjectsInv' /\ EventStep
  BY <1>0, <1>1, CreateDestroyKeep, Zenon
<1>2. ASSUME NEW r \in Requests, NEW timeout \in Timeouts,
             RequestBegin(r[1], r[2], timeout), UNCHANGED told
      PROVE  ObjectsInv' /\ UNCHANGED vars
  BY <1>0, <1>2, BeginKeeps
<1>3. ASSUME NEW id \in issued, NEW s \in {"done", "canceled"}, RequestFinish(id, s)
      PROVE  ObjectsInv' /\ EventStep
  <2>1. id.r \in Requests /\ id.n \in Nat /\ s \in Over /\ Close(id.r, s)
    BY <1>3, Zenon DEF ObjectsInv, RequestsOK, RequestFinish, Over
  <2>2. closer' \in [Requests -> Nat]
    BY <1>3, <2>1, Zenon DEF RequestFinish, ObjectsInv, RequestsOK
  <2>3. due' \subseteq Requests \cup Timers
    OBVIOUS
  <2> QED BY <1>0, <2>1, <2>2, <2>3, CloseKeeps
<1>4. ASSUME NEW id \in issued, RequestPoll(id)
      PROVE  ObjectsInv' /\ EventStep
  BY <1>0, <1>4, PollKeeps
<1> QED BY Zenon, <1>1, <1>2, <1>3, <1>4 DEF CompletionCalls

\* completion_tick ends a request that is due.
LEMMA CompletionTickKeeps ==
    ASSUME WaitInv, WaitTimes, ObjectsInv, CompletionTick
    PROVE  ObjectsInv' /\ EventStep
<1>0. PICK r \in due \ Timers : RequestExpires(r) /\ due' = due \ {r} /\ UNCHANGED <<timer, bridge>>
  BY Zenon DEF CompletionTick
<1>1. r \in Requests /\ due \subseteq Requests \cup Timers
  BY DEF ObjectsInv, TimersOK
<1>2. Close(r, "timed_out") /\ closer' \in [Requests -> Nat] /\ "timed_out" \in Over
  BY <1>0, Zenon DEF RequestExpires, ObjectsInv, RequestsOK, Over
<1>3. /\ due' \subseteq Requests \cup Timers /\ \A e \in Timers : e \in due' <=> e \in due
      /\ \A q \in Requests : q # r /\ q \in due => q \in due'
  BY <1>0, <1>1
<1> QED BY <1>0, <1>1, <1>2, <1>3, CloseKeeps

-----------------------------------------------------------------------------
(* Bridges.                                                                  *)

\* A step on the event of a bridge b leaves the timers, the requests and the
\* other bridges as they are.
LEMMA AroundBridge ==
    ASSUME WaitInv, ObjectsInv, NEW b \in Bridges, UNCHANGED <<timer, request>>, due = {}, due' = due,
           CreateObject(b) \/ EventDestroy(b) \/ EventSignal(b) \/ EventReset(b),
           told' \in [Sources -> BOOLEAN], \A o \in Sources \ {b} : told'[o] = told[o]
    PROVE  /\ TimersOK' /\ RequestsOK' /\ OwnedOK' /\ EventStep
           /\ \A d \in Bridges \ {b} : active'[d] = active[d] /\ (Announced(d) => Announced(d)')
<1>1. b \in Owned /\ b \in Events /\ OwnedOK /\ b \in Sources
  BY Kinds DEF ObjectsInv
<1>2. /\ timer_ticks' = timer_ticks
      /\ \A f \in Events \ {b} : /\ active'[f] = active[f] /\ manual'[f] = manual[f]
                                 /\ signaled'[f] = signaled[f]
      /\ \A f \in Owned : ~manual'[f]
  BY <1>1, Elsewhere, Zenon
<1>3. EventStep
  <2>1. EventCalls(Events)
    BY <1>1, Zenon DEF EventCalls, CreateObject
  <2> QED BY <2>1 DEF EventStep
<1>4. TimersOK'
  <2>1. \A e \in Timers : e # b /\ e \in Events
    BY <1>1, Kinds
  <2> QED BY <1>2, <2>1, TimersFrame, Zenon DEF ObjectsInv
<1>5. \A f \in Sources \ {b} : active'[f] = active[f] /\ (Announced(f) => Announced(f)')
  <2>1. Sources \subseteq Events
    BY Kinds
  <2> QED BY <1>2, <2>1, Zenon DEF Announced
<1>6. RequestsOK'
  <2>1. \A c \in Completions : c \in Sources \ {b}
    BY Kinds
  <2> QED BY <1>2, <1>5, <2>1, RequestsFrame, Zenon DEF ObjectsInv
<1>7. OwnedOK'
  BY <1>2, Zenon DEF OwnedOK
<1>8. \A d \in Bridges \ {b} : d \in Sources \ {b}
  BY Kinds
<1> QED BY <1>3, <1>4, <1>5, <1>6, <1>7, <1>8, Zenon

\* What the ring of bridge b holds, and that it is announced.
BridgeOK(b) ==
    /\ \A i \in 0 .. count[b] - 1 :
          queue[b][(head[b] + i) % QUEUE_MAX] = (last[b] + 1 + i) % SEQUENCES
    /\ ~active[b] => count[b] = 0
    /\ active[b] => sequence[b] = (last[b] + 1 + count[b]) % SEQUENCES
    /\ count[b] > 0 => Announced(b)

\* A step on bridge b has to keep only b.
LEMMA OneBridge ==
    ASSUME BridgesOK, NEW b \in Bridges,
           queue' \in [Bridges -> [Places -> 0 .. SEQUENCES - 1]],
           head' \in [Bridges -> Places], count' \in [Bridges -> 0 .. QUEUE_MAX],
           sequence' \in [Bridges -> 0 .. SEQUENCES - 1], last' \in [Bridges -> 0 .. SEQUENCES - 1],
           \A d \in Bridges \ {b} :
               /\ queue'[d] = queue[d] /\ head'[d] = head[d] /\ count'[d] = count[d]
               /\ sequence'[d] = sequence[d] /\ last'[d] = last[d]
               /\ active'[d] = active[d] /\ (Announced(d) => Announced(d)'),
           BridgeOK(b)'
    PROVE  BridgesOK'
<1>1. ASSUME NEW d \in Bridges PROVE BridgeOK(d)'
  <2>1. BridgeOK(d)
    BY Zenon DEF BridgesOK, BridgeOK, NotificationsInOrder
  <2> QED BY <2>1, Zenon DEF BridgeOK
<1>2. NotificationsInOrder'
  BY <1>1, Zenon DEF NotificationsInOrder, BridgeOK
<1> QED BY <1>1, <1>2, Zenon DEF BridgesOK, BridgeOK

\* bridge_create and bridge_destroy leave the ring empty.
LEMMA EmptyKeeps ==
    ASSUME WaitInv, ObjectsInv, NEW b \in Bridges, UNCHANGED <<timer, request>>, due = {}, due' = due,
           BridgeCreate(b) \/ BridgeDestroy(b), told' = [told EXCEPT ![b] = FALSE]
    PROVE  ObjectsInv' /\ EventStep
<1>1. told' \in [Sources -> BOOLEAN] /\ \A o \in Sources \ {b} : told'[o] = told[o]
  BY Zenon DEF ObjectsInv, OwnedOK
<1>2. CreateObject(b) \/ EventDestroy(b) \/ EventSignal(b) \/ EventReset(b)
  BY DEF BridgeCreate, BridgeDestroy
<1>3. /\ TimersOK' /\ RequestsOK' /\ OwnedOK' /\ EventStep
      /\ \A d \in Bridges \ {b} : active'[d] = active[d] /\ (Announced(d) => Announced(d)')
  BY <1>1, <1>2, AroundBridge, Zenon
<1>4. BridgesOK /\ b \in Events /\ 0 \in Places /\ SEQUENCES \in Nat /\ SEQUENCES > 1 /\ QUEUE_MAX \in Nat
  BY Kinds, AsyncAssumption DEF ObjectsInv, Places
<1>5. PICK first \in {0, 1} : /\ BridgeEmpty(b, first)
                              /\ active'[b] => first = 1
  <2>1. CASE BridgeCreate(b)
    BY <2>1 DEF BridgeCreate
  <2>2. CASE BridgeDestroy(b)
    <3>1. ~active'[b] /\ BridgeEmpty(b, 0)
      BY <1>4, <2>2, Zenon DEF BridgeDestroy, EventDestroy, WaitInv, WaitTypes
    <3> QED BY <3>1
  <2> QED BY <2>1, <2>2
<1>6. /\ head' = [head EXCEPT ![b] = 0] /\ count' = [count EXCEPT ![b] = 0]
      /\ sequence' = [sequence EXCEPT ![b] = first] /\ last' = [last EXCEPT ![b] = 0] /\ queue' = queue
  BY <1>5 DEF BridgeEmpty
<1>7. first \in 0 .. SEQUENCES - 1 /\ 0 \in 0 .. SEQUENCES - 1 /\ 0 \in 0 .. QUEUE_MAX
  BY <1>4
<1>8. /\ queue' \in [Bridges -> [Places -> 0 .. SEQUENCES - 1]]
      /\ head' \in [Bridges -> Places] /\ count' \in [Bridges -> 0 .. QUEUE_MAX]
      /\ sequence' \in [Bridges -> 0 .. SEQUENCES - 1] /\ last' \in [Bridges -> 0 .. SEQUENCES - 1]
  BY <1>4, <1>6, <1>7, Zenon DEF BridgesOK
<1>9. \A d \in Bridges \ {b} :
          /\ queue'[d] = queue[d] /\ head'[d] = head[d] /\ count'[d] = count[d]
          /\ sequence'[d] = sequence[d] /\ last'[d] = last[d]
  BY <1>4, <1>6, Zenon DEF BridgesOK
<1>10. BridgeOK(b)'
  <2>1. count'[b] = 0 /\ sequence'[b] = first /\ last'[b] = 0
    BY <1>4, <1>6, Zenon DEF BridgesOK
  <2>2. (0 + 1 + 0) % SEQUENCES = 1
    <3>1. SEQUENCES \in Nat \ {0} /\ 1 \in 0 .. SEQUENCES - 1 /\ 0 + 1 + 0 = 1
      BY <1>4
    <3> QED BY <3>1, Turns
  <2>3. 0 .. count'[b] - 1 = {}
    BY <2>1
  <2>4. ~(0 > 0)
    OBVIOUS
  <2> QED BY <1>5, <2>1, <2>2, <2>3, <2>4, Zenon DEF BridgeOK
<1>11. BridgesOK'
  BY <1>3, <1>4, <1>8, <1>9, <1>10, OneBridge, Zenon
<1> QED BY <1>3, <1>11, Zenon DEF ObjectsInv

\* The places of the ring are different.
LEMMA PlacesDiffer ==
    ASSUME NEW h \in Places, NEW i \in Nat, NEW j \in Nat, i < j, j < QUEUE_MAX
    PROVE  /\ (h + i) % QUEUE_MAX \in Places /\ (h + j) % QUEUE_MAX \in Places
           /\ (h + i) % QUEUE_MAX # (h + j) % QUEUE_MAX
<1> DEFINE w == QUEUE_MAX
<1>0. w \in Nat \ {0} /\ h \in 0 .. w - 1 /\ j < w
  BY AsyncAssumption DEF Places
<1>1. \A a \in Int :
         /\ a \in 0 .. w - 1 => a % w = a
         /\ a \in w .. 2 * w - 1 => a % w = a - w
  BY Zenon, <1>0, Turns
<1>2. (h + i) % w = IF h + i < w THEN h + i ELSE h + i - w
  <2>1. h + i \in Int /\ (h + i \in 0 .. w - 1 \/ h + i \in w .. 2 * w - 1)
    BY <1>0
  <2> HIDE DEF w
  <2> QED BY <1>0, <1>1, <2>1
<1>3. (h + j) % w = IF h + j < w THEN h + j ELSE h + j - w
  <2>1. h + j \in Int /\ (h + j \in 0 .. w - 1 \/ h + j \in w .. 2 * w - 1)
    BY <1>0
  <2> HIDE DEF w
  <2> QED BY <1>0, <1>1, <2>1
<1>4. PICK x, y \in Int : x = (h + i) % w /\ y = (h + j) % w
  BY <1>0, <1>2, <1>3
<1>5. x \in 0 .. w - 1 /\ y \in 0 .. w - 1 /\ x # y
  <2> HIDE DEF w
  <2> QED BY <1>0, <1>2, <1>3, <1>4
<1> QED BY <1>4, <1>5 DEF Places

\* bridge_notify puts the next number behind the others.
LEMMA NotifyKeeps ==
    ASSUME WaitInv, ObjectsInv, NEW b \in Bridges, UNCHANGED <<timer, request>>, due = {}, due' = due,
           BridgeNotify(b)
    PROVE  ObjectsInv' /\ EventStep
<1> DEFINE tail == (head[b] + count[b]) % QUEUE_MAX
<1>1. b \in Sources /\ b \in Owned /\ b \in Events /\ OwnedOK /\ BridgesOK
      /\ QUEUE_MAX \in Nat \ {0} /\ SEQUENCES \in Nat \ {0}
  BY Kinds, AsyncAssumption DEF ObjectsInv
<1>2. /\ count[b] < QUEUE_MAX /\ EventSignal(b)
      /\ told' = IF waiters[b] # {} THEN [told EXCEPT ![b] = TRUE] ELSE told
      /\ queue' = [queue EXCEPT ![b] = [queue[b] EXCEPT ![tail] = sequence[b]]]
      /\ sequence' = [sequence EXCEPT ![b] = (sequence[b] + 1) % SEQUENCES]
      /\ count' = [count EXCEPT ![b] = count[b] + 1]
      /\ head' = head /\ last' = last
  BY <1>1, Zenon DEF BridgeNotify, Room, SignalObject, Tell
<1>3. /\ told' \in [Sources -> BOOLEAN] /\ \A o \in Sources \ {b} : told'[o] = told[o]
      /\ waiters[b] # {} => told'[b]
  BY <1>1, <1>2 DEF OwnedOK
<1>4. /\ TimersOK' /\ RequestsOK' /\ OwnedOK' /\ EventStep
      /\ \A d \in Bridges \ {b} : active'[d] = active[d] /\ (Announced(d) => Announced(d)')
  BY <1>2, <1>3, AroundBridge, Zenon
<1>5. active[b] /\ active'[b] /\ Announced(b)'
  <2>1. active[b] /\ active'[b] /\ (signaled'[b] \/ waiters[b] # {})
    BY <1>1, <1>2, SignalTells
  <2> QED BY <1>3, <2>1, Zenon DEF Announced
<1>6. /\ head[b] \in Places /\ count[b] \in 0 .. QUEUE_MAX /\ count[b] \in Nat /\ last[b] \in Int
      /\ sequence[b] \in 0 .. SEQUENCES - 1 /\ queue[b] \in [Places -> 0 .. SEQUENCES - 1]
      /\ sequence[b] \in Int /\ head[b] \in Int
  BY <1>1 DEF BridgesOK, Places
<1>7. tail \in Places /\ (sequence[b] + 1) % SEQUENCES \in 0 .. SEQUENCES - 1
  <2>1. head[b] + count[b] \in Int /\ sequence[b] + 1 \in Int
    BY <1>6
  <2> QED BY <1>1, <2>1, DivMod, Zenon DEF Places
<1> HIDE DEF tail
<1>8. /\ queue' \in [Bridges -> [Places -> 0 .. SEQUENCES - 1]]
      /\ head' \in [Bridges -> Places] /\ count' \in [Bridges -> 0 .. QUEUE_MAX]
      /\ sequence' \in [Bridges -> 0 .. SEQUENCES - 1] /\ last' \in [Bridges -> 0 .. SEQUENCES - 1]
  <2>1. [queue[b] EXCEPT ![tail] = sequence[b]] \in [Places -> 0 .. SEQUENCES - 1]
    BY <1>6, <1>7, Zenon
  <2>2. count[b] + 1 \in 0 .. QUEUE_MAX
    BY <1>1, <1>2, <1>6
  <2> QED BY <1>1, <1>2, <1>7, <2>1, <2>2, Zenon DEF BridgesOK
<1>9. \A d \in Bridges \ {b} :
          /\ queue'[d] = queue[d] /\ head'[d] = head[d] /\ count'[d] = count[d]
          /\ sequence'[d] = sequence[d] /\ last'[d] = last[d]
  BY <1>1, <1>2, Zenon DEF BridgesOK
<1>10. /\ queue'[b] = [queue[b] EXCEPT ![tail] = sequence[b]] /\ count'[b] = count[b] + 1
       /\ sequence'[b] = (sequence[b] + 1) % SEQUENCES /\ head'[b] = head[b] /\ last'[b] = last[b]
  BY <1>1, <1>2, Zenon DEF BridgesOK
<1>11. sequence[b] = (last[b] + 1 + count[b]) % SEQUENCES
  BY <1>1, <1>5, Zenon DEF BridgesOK
<1>12. sequence'[b] = (last'[b] + 1 + count'[b]) % SEQUENCES
  <2>1. last[b] + 1 + count[b] \in Int /\ 1 \in Int
    BY <1>6
  <2>2. (((last[b] + 1 + count[b]) % SEQUENCES) + 1) % SEQUENCES = (last[b] + 1 + count[b] + 1) % SEQUENCES
    BY <1>1, <2>1, ModAdd, Zenon
  <2>3. last[b] + 1 + count[b] + 1 = last[b] + 1 + (count[b] + 1)
    BY <1>6
  <2> QED BY <1>10, <1>11, <2>2, <2>3, Zenon
<1>13. ASSUME NEW i \in 0 .. count'[b] - 1
       PROVE  queue'[b][(head'[b] + i) % QUEUE_MAX] = (last'[b] + 1 + i) % SEQUENCES
  <2>1. CASE i = count[b]
    BY <1>6, <1>7, <1>10, <1>11, <2>1, Zenon DEF tail
  <2>2. CASE i # count[b]
    <3>1. i \in Nat /\ i < count[b] /\ i \in 0 .. count[b] - 1
      BY <1>6, <1>10, <1>13, <2>2
    <3>2. (head[b] + i) % QUEUE_MAX \in Places /\ (head[b] + i) % QUEUE_MAX # tail
      BY <1>2, <1>6, <3>1, PlacesDiffer, Zenon DEF tail
    <3>3. queue'[b][(head[b] + i) % QUEUE_MAX] = queue[b][(head[b] + i) % QUEUE_MAX]
      BY <1>6, <1>10, <3>2, Zenon
    <3>4. queue[b][(head[b] + i) % QUEUE_MAX] = (last[b] + 1 + i) % SEQUENCES
      BY <1>1, <3>1, Zenon DEF BridgesOK, NotificationsInOrder
    <3> QED BY <1>10, <3>3, <3>4, Zenon
  <2> QED BY <2>1, <2>2, Zenon
<1>14. BridgeOK(b)'
  BY <1>5, <1>12, <1>13, Zenon DEF BridgeOK
<1>15. BridgesOK'
  BY <1>1, <1>4, <1>8, <1>9, <1>14, OneBridge, Zenon
<1> QED BY <1>4, <1>15, Zenon DEF ObjectsInv

\* bridge_endpoint_read takes the first number and leaves the others in order.
LEMMA ReadKeeps ==
    ASSUME WaitInv, ObjectsInv, NEW b \in Bridges, UNCHANGED <<timer, request>>, due = {}, due' = due,
           BridgeRead(b)
    PROVE  ObjectsInv' /\ EventStep
<1>1. b \in Sources /\ b \in Owned /\ b \in Events /\ OwnedOK /\ BridgesOK
      /\ QUEUE_MAX \in Nat \ {0} /\ SEQUENCES \in Nat \ {0}
  BY Kinds, AsyncAssumption DEF ObjectsInv
<1>2. /\ active[b] /\ count[b] > 0
      /\ last' = [last EXCEPT ![b] = queue[b][head[b]]]
      /\ head' = [head EXCEPT ![b] = (head[b] + 1) % QUEUE_MAX]
      /\ count' = [count EXCEPT ![b] = count[b] - 1]
      /\ IF count[b] > 1 THEN EventSignal(b) /\ told' = [told EXCEPT ![b] = waiters[b] # {}]
                         ELSE EventReset(b) /\ told' = [told EXCEPT ![b] = FALSE]
      /\ queue' = queue /\ sequence' = sequence
  BY Zenon DEF BridgeRead
<1>3. /\ told' \in [Sources -> BOOLEAN] /\ \A o \in Sources \ {b} : told'[o] = told[o]
  BY <1>1, <1>2, Zenon DEF OwnedOK
<1>4. /\ TimersOK' /\ RequestsOK' /\ OwnedOK' /\ EventStep
      /\ \A d \in Bridges \ {b} : active'[d] = active[d] /\ (Announced(d) => Announced(d)')
  BY <1>2, <1>3, AroundBridge, Zenon
<1>5. count[b] > 1 => Announced(b)'
  <2> SUFFICES ASSUME EventSignal(b), told' = [told EXCEPT ![b] = waiters[b] # {}]
               PROVE  Announced(b)'
    BY <1>2, Zenon
  <2>1. signaled'[b] \/ waiters[b] # {}
    BY <1>1, SignalTells, Zenon
  <2>2. told'[b] = (waiters[b] # {})
    BY <1>1, Zenon DEF OwnedOK
  <2> QED BY <2>1, <2>2, Zenon DEF Announced
<1>6. active'[b]
  BY <1>1, <1>2, Zenon DEF EventSignal, EventReset
<1>7. /\ head[b] \in Places /\ count[b] \in 0 .. QUEUE_MAX /\ count[b] \in Nat /\ last[b] \in Int
      /\ queue[b] \in [Places -> 0 .. SEQUENCES - 1] /\ head[b] \in Int /\ head[b] \in 0 .. QUEUE_MAX - 1
  BY <1>1 DEF BridgesOK, Places
<1>8. (head[b] + 1) % QUEUE_MAX \in Places /\ queue[b][head[b]] \in 0 .. SEQUENCES - 1
  <2>1. head[b] + 1 \in Int
    BY <1>7
  <2> QED BY <1>1, <1>7, <2>1, DivMod, Zenon DEF Places
<1>9. /\ queue' \in [Bridges -> [Places -> 0 .. SEQUENCES - 1]]
      /\ head' \in [Bridges -> Places] /\ count' \in [Bridges -> 0 .. QUEUE_MAX]
      /\ sequence' \in [Bridges -> 0 .. SEQUENCES - 1] /\ last' \in [Bridges -> 0 .. SEQUENCES - 1]
  <2>1. count[b] - 1 \in 0 .. QUEUE_MAX
    <3>1. count[b] > 0 /\ QUEUE_MAX \in Nat \ {0}
      BY <1>1, <1>2, Zenon
    <3> QED BY <1>7, <3>1
  <2> QED BY <1>1, <1>2, <1>8, <2>1, Zenon DEF BridgesOK
<1>10. \A d \in Bridges \ {b} :
          /\ queue'[d] = queue[d] /\ head'[d] = head[d] /\ count'[d] = count[d]
          /\ sequence'[d] = sequence[d] /\ last'[d] = last[d]
  BY <1>1, <1>2, Zenon DEF BridgesOK
<1>11. /\ queue'[b] = queue[b] /\ count'[b] = count[b] - 1 /\ sequence'[b] = sequence[b]
       /\ head'[b] = (head[b] + 1) % QUEUE_MAX /\ last'[b] = queue[b][head[b]]
  BY <1>1, <1>2, Zenon DEF BridgesOK
<1>12. \A i \in 0 .. count[b] - 1 :
           queue[b][(head[b] + i) % QUEUE_MAX] = (last[b] + 1 + i) % SEQUENCES
  BY <1>1, Zenon DEF BridgesOK, NotificationsInOrder
<1>13. last'[b] = (last[b] + 1) % SEQUENCES
  <2>1. 0 \in 0 .. count[b] - 1 /\ head[b] + 0 = head[b] /\ last[b] + 1 + 0 = last[b] + 1
    BY <1>2, <1>7
  <2>2. head[b] % QUEUE_MAX = head[b]
    BY <1>1, <1>7, Turns, Zenon
  <2>3. queue[b][(head[b] + 0) % QUEUE_MAX] = (last[b] + 1 + 0) % SEQUENCES
    BY <1>12, <2>1, Zenon
  <2> QED BY <1>11, <2>1, <2>2, <2>3, Zenon
<1>14. \A i \in Int : (last'[b] + 1 + i) % SEQUENCES = (last[b] + 1 + (i + 1)) % SEQUENCES
  <2> SUFFICES ASSUME NEW i \in Int
               PROVE  (last'[b] + 1 + i) % SEQUENCES = (last[b] + 1 + (i + 1)) % SEQUENCES
    BY Zenon
  <2>1. (((last[b] + 1) % SEQUENCES) + (1 + i)) % SEQUENCES = (last[b] + 1 + (1 + i)) % SEQUENCES
    <3>1. last[b] + 1 \in Int /\ 1 + i \in Int
      BY <1>7
    <3> QED BY <1>1, <3>1, ModAdd, Zenon
  <2>2. last'[b] \in Int
    BY <1>8, <1>11
  <2>3. last'[b] + 1 + i = last'[b] + (1 + i) /\ last[b] + 1 + (i + 1) = last[b] + 1 + (1 + i)
    BY <1>7, <2>2
  <2> QED BY <1>13, <2>1, <2>3, Zenon
<1>15. ASSUME NEW i \in 0 .. count'[b] - 1
       PROVE  queue'[b][(head'[b] + i) % QUEUE_MAX] = (last'[b] + 1 + i) % SEQUENCES
  <2>1. i \in Int /\ i + 1 \in 0 .. count[b] - 1 /\ head[b] + 1 \in Int
        /\ head[b] + 1 + i = head[b] + (i + 1)
    BY <1>7, <1>11, <1>15
  <2>2. (((head[b] + 1) % QUEUE_MAX) + i) % QUEUE_MAX = (head[b] + 1 + i) % QUEUE_MAX
    BY <1>1, <2>1, ModAdd, Zenon
  <2>3. queue[b][(head[b] + (i + 1)) % QUEUE_MAX] = (last[b] + 1 + (i + 1)) % SEQUENCES
    BY <1>12, <2>1, Zenon
  <2>4. (last'[b] + 1 + i) % SEQUENCES = (last[b] + 1 + (i + 1)) % SEQUENCES
    BY <1>14, <2>1, Zenon
  <2> QED BY <1>11, <2>1, <2>2, <2>3, <2>4, Zenon
<1>16. sequence'[b] = (last'[b] + 1 + count'[b]) % SEQUENCES
  <2>1. sequence[b] = (last[b] + 1 + count[b]) % SEQUENCES
    BY <1>1, <1>2, Zenon DEF BridgesOK
  <2>2. count'[b] \in Int /\ count'[b] + 1 = count[b]
    BY <1>7, <1>11
  <2>3. (last'[b] + 1 + count'[b]) % SEQUENCES = (last[b] + 1 + (count'[b] + 1)) % SEQUENCES
    BY <1>14, <2>2, Zenon
  <2> QED BY <1>11, <2>1, <2>2, <2>3, Zenon
<1>17. count'[b] > 0 => Announced(b)'
  <2>1. count'[b] > 0 => count[b] > 1
    BY <1>7, <1>11
  <2> QED BY <1>5, <2>1
<1>18. BridgeOK(b)'
  BY <1>6, <1>15, <1>16, <1>17, Zenon DEF BridgeOK
<1>19. BridgesOK'
  BY <1>1, <1>4, <1>9, <1>10, <1>18, OneBridge, Zenon
<1> QED BY <1>4, <1>19, Zenon DEF ObjectsInv

\* The calls on bridges.
LEMMA BridgeCallsKeep ==
    ASSUME WaitInv, ObjectsInv, due = {}, due' = due, BridgeCalls
    PROVE  ObjectsInv' /\ EventStep
<1>1. UNCHANGED <<timer, request>>
  BY DEF BridgeCalls
<1> QED BY Zenon, <1>1, EmptyKeeps, NotifyKeeps, ReadKeeps DEF BridgeCalls

-----------------------------------------------------------------------------
(* Every step.                                                               *)

\* A wait takes a signal, and somebody is told then.
LEMMA TaskCallsKeep ==
    ASSUME WaitInv, ObjectsInv, due = {}, due' = due, TaskCalls
    PROVE  ObjectsInv' /\ EventStep
<1>1. TaskSteps /\ UNCHANGED <<timer, request, bridge>>
      /\ told' = [o \in Sources |-> told[o] \/ (signaled[o] /\ ~signaled'[o])]
  BY Zenon DEF TaskCalls
<1>2. /\ UNCHANGED <<active, manual, timer_ticks>>
      /\ \A e \in Events : signaled'[e] => signaled[e]
  BY <1>1, TasksTake, Zenon
<1>3. told' \in [Sources -> BOOLEAN] /\ \A o \in Sources : Announced(o) => Announced(o)'
  BY <1>1, Zenon DEF ObjectsInv, OwnedOK, Announced
<1>4. OwnedOK'
  BY <1>2, <1>3, Zenon DEF ObjectsInv, OwnedOK
<1>5. TimersOK'
  BY <1>1, <1>2, TimersFrame, Kinds, Zenon DEF ObjectsInv
<1>6. RequestsOK' /\ BridgesOK'
  BY <1>1, <1>2, <1>3, RequestsFrame, BridgesFrame, Kinds, Zenon DEF ObjectsInv
<1> QED BY <1>1, <1>4, <1>5, <1>6, Zenon DEF ObjectsInv, EventStep

\* Calls on plain events do not touch the events objects own.
LEMMA PlainKeeps ==
    ASSUME WaitInv, ObjectsInv, due = {}, due' = due, PlainEvents
    PROVE  ObjectsInv' /\ EventStep
<1>1. EventCalls(Events \ Owned) /\ UNCHANGED <<timer, request, bridge, told>>
  BY DEF PlainEvents, Owned
<1>2. /\ timer_ticks' = timer_ticks
      /\ \A o \in Owned : /\ active'[o] = active[o] /\ manual'[o] = manual[o]
                          /\ signaled'[o] = signaled[o]
  <2>1. PICK e \in Events \ Owned :
            \/ \E m, s \in BOOLEAN : EventCreate(e, m, s)
            \/ EventDestroy(e)
            \/ EventSignal(e)
            \/ EventReset(e)
    BY <1>1, Zenon DEF EventCalls
  <2>2. Owned \subseteq Events
    BY Kinds
  <2> QED BY <2>1, <2>2, Zenon DEF EventCreate, EventDestroy, EventSignal, EventReset, Signaled, WaitInv, WaitTypes
<1>3. OwnedOK' /\ \A o \in Sources : active'[o] = active[o] /\ (Announced(o) => Announced(o)')
  BY <1>1, <1>2, Kinds, Zenon DEF ObjectsInv, OwnedOK, Announced
<1>4. TimersOK'
  BY <1>1, <1>2, TimersFrame, Kinds DEF ObjectsInv
<1>5. RequestsOK' /\ BridgesOK'
  BY <1>1, <1>2, <1>3, RequestsFrame, BridgesFrame, Kinds, Zenon DEF ObjectsInv
<1>6. EventStep
  BY <1>1 DEF EventStep, EventCalls
<1> QED BY <1>3, <1>4, <1>5, <1>6 DEF ObjectsInv

\* The timer interrupt finds the timers whose time is now and the requests whose
\* deadline has come, and leaves the others ahead.
LEMMA InterruptKeeps ==
    ASSUME WaitInv, WaitTimes, ObjectsInv, TimerInterrupt
    PROVE  ObjectsInv' /\ EventStep
<1> DEFINE now == NextTick(timer_ticks)
<1>1. /\ due = {} /\ EventTick /\ timer_ticks' = now
      /\ due' = DueRequests(now) \cup DueTimers(now)
      /\ UNCHANGED <<timer, request, bridge, told, active, manual, signaled>>
  BY DEF TimerInterrupt, EventTick
<1>2. timer_ticks \in Times /\ now \in Times /\ OwnedOK /\ TimersOK /\ RequestsOK /\ BridgesOK
  BY TimesClosed DEF WaitTimes, ObjectsInv
<1> HIDE DEF now
<1>3. DueRequests(now) \subseteq Requests /\ DueTimers(now) \subseteq Timers /\ Requests \cap Timers = {}
  BY Kinds DEF DueRequests, DueTimers
<1>4. UNCHANGED <<armed, alarm, interval, fired>>
  BY <1>1 DEF timer
<1>5. ASSUME NEW e \in Timers
      PROVE  /\ armed'[e] => e \in due' \/ Before(timer_ticks', alarm'[e])
             /\ e \in due' => armed'[e] /\ alarm'[e] = timer_ticks'
             /\ signaled'[e] => fired'[e]
  <2>1. e \in due' <=> armed[e] /\ ~Before(now, alarm[e])
    BY <1>1, <1>3 DEF DueTimers
  <2>2. armed[e] => Before(now, alarm[e]) \/ alarm[e] = now
    <3>1. armed[e] => Before(timer_ticks, alarm[e]) /\ alarm[e] \in Times
      BY <1>1, <1>2 DEF TimersOK
    <3> QED BY <1>2, <3>1, TickReaches DEF now
  <2> QED BY <1>1, <1>2, <1>4, <2>1, <2>2 DEF TimersOK
<1>6. TimersOK'
  <2>1. due' \subseteq Requests \cup Timers
    BY <1>1, <1>3
  <2> QED BY <1>2, <1>4, <1>5, <2>1 DEF TimersOK
<1>7. UNCHANGED <<rstate, rgen, expiry, rtimed, next_slot, begun, serial, closer, issued>>
  BY <1>1 DEF request
<1>8. \A r \in Requests : rstate'[r] = "pending" /\ rtimed'[r] =>
          r \in due' \/ Before(timer_ticks', expiry'[r])
  BY <1>1, <1>7 DEF DueRequests
<1>9. RequestsOK'
  BY <1>1, <1>2, <1>7, <1>8 DEF RequestsOK, Announced
<1>10. BridgesOK' /\ OwnedOK'
  BY <1>1, <1>2, BridgesFrame, Zenon DEF Announced, OwnedOK
<1> QED BY <1>1, <1>6, <1>9, <1>10 DEF ObjectsInv, EventStep

\* The inductive invariant of the events with the objects on them.
AsyncInv == WaitInv /\ WaitTimes /\ ObjectsInv

\* Every step keeps the objects, and is a step of event.c.
LEMMA AsyncStepKeeps == AsyncInv /\ [AsyncNext]_avars => ObjectsInv' /\ [EventStep]_vars
<1> SUFFICES ASSUME WaitInv, WaitTimes, ObjectsInv, [AsyncNext]_avars
             PROVE  ObjectsInv' /\ (EventStep \/ UNCHANGED vars)
  BY DEF AsyncInv
<1>1. CASE UNCHANGED avars
  <2>1. /\ UNCHANGED <<vars, due, timer, request, bridge, told>>
        /\ UNCHANGED <<active, manual, signaled, timer_ticks>>
    BY <1>1 DEF avars, vars, event
  <2>2. OwnedOK' /\ TimersOK' /\ RequestsOK' /\ BridgesOK'
    BY <2>1, TimersFrame, RequestsFrame, BridgesFrame DEF ObjectsInv, OwnedOK, Announced, TimersOK
  <2> QED BY <2>1, <2>2 DEF ObjectsInv
<1>2. CASE Calls
  <2>1. due = {} /\ due' = due
    BY <1>2 DEF Calls
  <2> QED BY Zenon, <1>2, <2>1, TaskCallsKeep, PlainKeeps, TimerCallsKeep, CompletionCallsKeep, BridgeCallsKeep
          DEF Calls
<1>3. CASE TimerInterrupt
  BY <1>3, InterruptKeeps
<1>4. CASE CompletionTick
  BY <1>4, CompletionTickKeeps
<1>5. CASE TimerTick
  BY <1>5, TimerTickKeeps
<1> QED BY <1>1, <1>2, <1>3, <1>4, <1>5 DEF AsyncNext

\* At the start there are no objects.
LEMMA AsyncInitKeeps == AsyncInit => AsyncInv
<1> SUFFICES ASSUME AsyncInit PROVE AsyncInv
  OBVIOUS
<1>1. Init /\ WaitInv /\ WaitTimes
  <2>1. Init
    BY DEF AsyncInit
  <2>2. WaitTimes
    BY <2>1, LeftBound, EventsAssumption DEF Init, WaitTimes
  <2> QED BY <2>1, <2>2, InitKeeps
<1>2. OwnedOK
  <2>1. Owned \subseteq Events
    BY Kinds
  <2> QED BY <1>1, <2>1 DEF AsyncInit, Init, OwnedOK
<1>3. TimersOK
  <2>1. Timers \subseteq Events /\ 0 \in Times
    BY Kinds, LeftBound
  <2> QED BY <1>1, <2>1 DEF AsyncInit, Init, TimersOK
<1>4. RequestsOK
  <2>1. 0 \in Times /\ 0 \in Slots /\ 1 \in 1 .. GENERATIONS
    BY LeftBound, AsyncAssumption DEF Slots
  <2> QED BY <2>1 DEF AsyncInit, RequestsOK, Over
<1>5. BridgesOK
  <2>1. /\ 0 \in Places /\ 0 \in 0 .. SEQUENCES - 1 /\ 0 \in 0 .. QUEUE_MAX /\ 0 .. 0 - 1 = {}
        /\ Bridges \subseteq Events
    BY Kinds, AsyncAssumption DEF Places
  <2>2. NotificationsInOrder
    BY <2>1 DEF AsyncInit, NotificationsInOrder
  <2>3. \A b \in Bridges : ~active[b] /\ count[b] = 0
    BY <1>1, <2>1 DEF AsyncInit, Init
  <2> QED BY <2>1, <2>2, <2>3 DEF AsyncInit, BridgesOK
<1> QED BY <1>1, <1>2, <1>3, <1>4, <1>5 DEF AsyncInv, ObjectsInv

\* Timers, completions and bridges, and the events they own, for any number of
\* each (timer_object.c, completion.c, bridge.c).
THEOREM AsyncInvariant == AsyncSpec => []AsyncInv
<1>1. AsyncInit => AsyncInv
  BY AsyncInitKeeps
<1>2. AsyncInv /\ [AsyncNext]_avars => AsyncInv'
  BY AsyncStepKeeps, StepKeeps, TimesKeep DEF AsyncInv
<1> QED BY <1>1, <1>2, PTL DEF AsyncSpec

\* Timers, completions and bridges use their events as event.c allows: all that
\* is proved of events holds with them, the wake-up a poll makes included.
THEOREM ObjectsUseEvents == AsyncSpec => CoreSpec
<1>1. AsyncInit => Init
  BY DEF AsyncInit
<1>2. AsyncInv /\ [AsyncNext]_avars => [EventStep]_vars
  BY AsyncStepKeeps
<1> QED BY <1>1, <1>2, AsyncInvariant, PTL DEF AsyncSpec, CoreSpec

\* With the objects on them events still implement their promise.
THEOREM AsyncRefines == AsyncSpec => ImplementsAbstract
  BY ObjectsUseEvents, EventsRefine, PTL

\* Timed waits, requests and timers end at their tick and not before, across the
\* wrap of timer_ticks, and no timer is signaled for a deadline that was taken
\* back (event_tick, completion_tick, timer_object_tick).
THEOREM AlarmsStayOnTime == AsyncSpec => []AlarmsOnTime
<1>1. ASSUME AsyncInv PROVE AlarmsOnTime
  <2>1. TimedWaitOnTime
    BY <1>1 DEF AsyncInv, WaitTimes, TimedWaitOnTime
  <2>2. DeadlinesKept
    BY <1>1, <2>1 DEF AsyncInv, ObjectsInv, TimersOK, RequestsOK, DeadlinesKept
  <2>3. NoStaleAlarm
    BY <1>1 DEF AsyncInv, ObjectsInv, TimersOK, NoStaleAlarm
  <2> QED BY <2>2, <2>3 DEF AlarmsOnTime
<1>2. AsyncInv => AlarmsOnTime
  BY <1>1
<1> QED BY <1>2, AsyncInvariant, PTL

\* A new generation is one that no id has, unless they come round.
LEMMA GenerationGrows ==
    ASSUME RequestsOK, IdsNotReused, NEW r \in Requests, rgen'[r] = NextGeneration(r)
    PROVE  rgen'[r] > rgen[r]
<1>1. rgen[r] \in 1 .. GENERATIONS /\ GENERATIONS \in Nat /\ GENERATIONS > 1
  BY AsyncAssumption DEF RequestsOK
<1>2. rgen'[r] >= rgen[r]
  BY DEF IdsNotReused
<1> QED BY <1>1, <1>2 DEF NextGeneration

\* request_for: an id is good for the request it was made for and for no other,
\* as long as the generations do not come round.
LEMMA IdsKeep ==
    ASSUME ObjectsInv, IdsOK, IdsNotReused, [AsyncNext]_avars
    PROVE  IdsOK'
<1>0. /\ RequestsOK
      /\ \A id \in issued : id.r \in Requests /\ id.gen \in Nat /\ id.n \in Nat
      /\ \A r \in Requests : rgen[r] \in Nat
  <2>1. RequestsOK
    BY DEF ObjectsInv
  <2>2. /\ issued \subseteq [r : Requests, gen : 1 .. GENERATIONS, n : Nat]
        /\ rgen \in [Requests -> 1 .. GENERATIONS]
    BY <2>1, Zenon DEF RequestsOK
  <2>3. 1 .. GENERATIONS \subseteq Nat
    BY AsyncAssumption
  <2> QED BY <2>1, <2>2, <2>3
<1>1. ASSUME UNCHANGED <<rgen, serial, closer, issued>>,
             \A r \in Requests : rstate[r] # "free" => rstate'[r] # "free"
      PROVE  IdsOK'
  BY <1>0, <1>1, Zenon DEF IdsOK, LateFinishHitsNothing
<1>2. CASE UNCHANGED request
  BY <1>1, <1>2 DEF request
<1>3. ASSUME NEW r \in Requests, NEW s \in Over, Close(r, s)
      PROVE  /\ UNCHANGED <<rgen, serial, issued>>
             /\ \A q \in Requests : rstate[q] # "free" => rstate'[q] # "free"
  BY <1>0, <1>3 DEF Close, RequestsOK, Over
<1>4. ASSUME NEW c \in Completions, CompletionCreate(c)
      PROVE  IdsOK'
  BY <1>1, <1>4 DEF CompletionCreate
<1>5. ASSUME NEW c \in Completions, CompletionDestroy(c)
      PROVE  IdsOK'
  <2>1. /\ rstate' = [r \in Requests |-> IF r[1] = c THEN "free" ELSE rstate[r]]
        /\ rgen' = [r \in Requests |-> IF r[1] = c THEN NextGeneration(r) ELSE rgen[r]]
        /\ UNCHANGED <<serial, closer, issued>>
    BY <1>5 DEF CompletionDestroy
  <2>2. \A r \in Requests : /\ r[1] = c => rgen'[r] > rgen[r] /\ rgen'[r] \in Int
                            /\ r[1] # c => rgen'[r] = rgen[r] /\ rstate'[r] = rstate[r]
    <3>1. \A r \in Requests : NextGeneration(r) \in Int
      BY <1>0, AsyncAssumption DEF NextGeneration
    <3> QED BY <1>0, <2>1, <3>1, GenerationGrows
  <2>3. ASSUME NEW id \in issued
        PROVE  /\ id.gen <= rgen'[id.r]
               /\ id.gen = rgen'[id.r] => rstate'[id.r] # "free" /\ id.n = serial[id.r]
    <3>1. id.r \in Requests /\ id.gen \in Nat /\ id.gen <= rgen[id.r] /\ rgen[id.r] \in Nat
      BY <1>0 DEF IdsOK
    <3>2. CASE id.r[1] = c
      BY <2>2, <3>1, <3>2
    <3>3. CASE id.r[1] # c
      BY <2>2, <3>1, <3>3 DEF IdsOK
    <3> QED BY <3>2, <3>3
  <2> QED BY <2>1, <2>3 DEF IdsOK, LateFinishHitsNothing
<1>6. ASSUME NEW r \in Requests, NEW timeout \in Timeouts, RequestBegin(r[1], r[2], timeout)
      PROVE  IdsOK'
  <2>1. r = <<r[1], r[2]>>
    BY Kinds
  <2>2. /\ rstate[r] = "free" /\ rstate' = [rstate EXCEPT ![r] = "pending"]
        /\ serial' = [serial EXCEPT ![r] = begun + 1] /\ closer' = [closer EXCEPT ![r] = begun + 1]
        /\ issued' = issued \cup {[r |-> r, gen |-> rgen[r], n |-> begun + 1]} /\ rgen' = rgen
    BY <1>6, <2>1, Zenon DEF RequestBegin, FreeSlot
  <2>3. ASSUME NEW id \in issued'
        PROVE  /\ id.gen <= rgen'[id.r]
               /\ id.gen = rgen'[id.r] => rstate'[id.r] # "free" /\ id.n = serial'[id.r]
    <3>1. CASE id \in issued
      <4>1. /\ id.r \in Requests /\ id.gen <= rgen[id.r]
            /\ id.gen = rgen[id.r] => rstate[id.r] # "free" /\ id.n = serial[id.r]
        BY <1>0, <3>1 DEF IdsOK
      <4>2. CASE id.r = r
        BY <2>2, <4>1, <4>2
      <4>3. CASE id.r # r
        BY <1>0, <2>2, <4>1, <4>3, Zenon DEF RequestsOK
      <4> QED BY <4>2, <4>3
    <3>2. CASE id \notin issued
      <4>1. id.r = r /\ id.gen = rgen[r] /\ id.n = begun + 1
        BY <2>2, <2>3, <3>2
      <4>2. rgen[r] \in Nat /\ rstate'[r] = "pending" /\ serial'[r] = begun + 1
        BY <1>0, <2>2, Zenon DEF RequestsOK
      <4> QED BY <2>2, <4>1, <4>2
    <3> QED BY <3>1, <3>2
  <2>4. LateFinishHitsNothing'
    BY <1>0, <2>2, Zenon DEF RequestsOK, IdsOK, LateFinishHitsNothing
  <2> QED BY <2>3, <2>4 DEF IdsOK
<1>7. ASSUME NEW id \in issued, NEW s \in {"done", "canceled"}, RequestFinish(id, s)
      PROVE  IdsOK'
  <2>1. id.r \in Requests /\ s \in Over /\ Close(id.r, s)
        /\ closer' = [closer EXCEPT ![id.r] = id.n] /\ id.n = serial[id.r]
    BY <1>0, <1>7 DEF RequestFinish, Current, IdsOK, Over
  <2>2. closer' = closer
    BY <1>0, <2>1, Zenon DEF RequestsOK, IdsOK, LateFinishHitsNothing
  <2> QED BY <1>1, <1>3, <2>1, <2>2, Zenon
<1>8. ASSUME NEW id \in issued, RequestPoll(id)
      PROVE  IdsOK'
  <2> DEFINE r == id.r
  <2>1. /\ rstate' = [rstate EXCEPT ![r] = "free"] /\ rgen' = [rgen EXCEPT ![r] = NextGeneration(r)]
        /\ UNCHANGED <<serial, closer, issued>> /\ r \in Requests
    BY <1>0, <1>8 DEF RequestPoll, PollBumpsGeneration
  <2>2. rgen'[r] > rgen[r] /\ rgen'[r] \in Int
    <3>1. rgen'[r] = NextGeneration(r)
      BY <1>0, <2>1 DEF RequestsOK
    <3>2. NextGeneration(r) \in Int
      BY <1>0, <2>1, AsyncAssumption DEF NextGeneration
    <3> QED BY <1>0, <2>1, <3>1, <3>2, GenerationGrows
  <2> HIDE DEF r
  <2>3. ASSUME NEW q \in issued
        PROVE  /\ q.gen <= rgen'[q.r]
               /\ q.gen = rgen'[q.r] => rstate'[q.r] # "free" /\ q.n = serial[q.r]
    <3>1. /\ q.r \in Requests /\ q.gen \in Nat /\ q.gen <= rgen[q.r] /\ rgen[q.r] \in Nat
          /\ q.gen = rgen[q.r] => rstate[q.r] # "free" /\ q.n = serial[q.r]
      BY <1>0 DEF IdsOK
    <3>2. CASE q.r = r
      BY <2>2, <3>1, <3>2
    <3>3. CASE q.r # r
      BY <1>0, <2>1, <3>1, <3>3, Zenon DEF RequestsOK
    <3> QED BY <3>2, <3>3
  <2> QED BY <2>1, <2>3 DEF IdsOK, LateFinishHitsNothing
<1>9. CASE CompletionCalls
  BY Zenon, <1>4, <1>5, <1>6, <1>7, <1>8, <1>9 DEF CompletionCalls
<1>10. CASE CompletionTick
  <2>1. PICK r \in due \ Timers : RequestExpires(r)
    BY <1>10 DEF CompletionTick
  <2>2. r \in Requests /\ Close(r, "timed_out") /\ closer' = closer /\ "timed_out" \in Over
    BY <2>1, Zenon DEF ObjectsInv, TimersOK, RequestExpires, Over
  <2> QED BY <1>1, <1>3, <2>2, Zenon
<1> QED BY <1>2, <1>9, <1>10, Zenon DEF AsyncNext, Calls, TaskCalls, PlainEvents, TimerCalls, BridgeCalls,
           TimerInterrupt, TimerTick, avars

\* What a completion or a bridge has to hand over is announced until it is taken
\* and comes in order, and an answer ends the request its id was made for, as
\* long as the generations of a slot do not come round (finish_request,
\* completion_request_poll, bridge_notify, bridge_endpoint_read).
THEOREM CompletionsFindTheirOwn ==
    AsyncSpec /\ [][IdsNotReused]_avars => []CompletionsReachTheirOwn
<1>1. AsyncInit => IdsOK
  BY DEF AsyncInit, IdsOK, LateFinishHitsNothing
<1>2. AsyncInv /\ IdsOK /\ [AsyncNext]_avars /\ [IdsNotReused]_avars => IdsOK'
  <2> SUFFICES ASSUME AsyncInv, IdsOK, [AsyncNext]_avars, [IdsNotReused]_avars PROVE IdsOK'
    OBVIOUS
  <2>1. CASE IdsNotReused
    BY <2>1, IdsKeep DEF AsyncInv
  <2>2. CASE UNCHANGED avars
    BY <2>2 DEF avars, request, IdsOK, LateFinishHitsNothing
  <2> QED BY <2>1, <2>2
<1>3. ASSUME AsyncInv, IdsOK PROVE CompletionsReachTheirOwn
  <2>1. TypeOK
    BY <1>3, LeftBound DEF AsyncInv, WaitInv, WaitTypes, WaitTimes, TypeOK
  <2>2. AsyncTypeOK
    BY <1>3, <2>1, Zenon DEF AsyncInv, ObjectsInv, TimersOK, RequestsOK, BridgesOK, AsyncTypeOK
  <2>3. AnnouncedUntilTaken
    <3>1. ASSUME NEW c \in Completions, NEW s \in Slots, rstate[<<c, s>>] \in Over
          PROVE  Announced(c)
      <4>1. <<c, s>> \in Requests /\ <<c, s>>[1] = c
        BY DEF Requests
      <4> QED BY <1>3, <3>1, <4>1 DEF AsyncInv, ObjectsInv, RequestsOK
    <3>2. ASSUME NEW b \in Bridges, count[b] > 0
          PROVE  Announced(b)
      BY <1>3, <3>2 DEF AsyncInv, ObjectsInv, BridgesOK
    <3> QED BY <3>1, <3>2, Zenon DEF AnnouncedUntilTaken, Ready, Announced
  <2>4. NotificationsInOrder /\ LateFinishHitsNothing
    BY <1>3 DEF AsyncInv, ObjectsInv, BridgesOK, IdsOK
  <2> QED BY <2>2, <2>3, <2>4 DEF CompletionsReachTheirOwn
<1>4. AsyncInv /\ IdsOK => CompletionsReachTheirOwn
  BY <1>3
<1> QED BY <1>1, <1>2, <1>4, AsyncInvariant, PTL DEF AsyncSpec
=============================================================================
