--------------------------- MODULE AbstractEvents ---------------------------
(***************************************************************************)
(* What event.c promises: a task is parked on a set of events; a signal to *)
(* an auto-reset event is handed to one task parked on it or remembered    *)
(* for the next wait, a signal to a manual event is handed to all of them  *)
(* and stays.  result is what the last wait of a task answered.            *)
(***************************************************************************)
CONSTANTS Tasks, Events

VARIABLES active, manual, signaled, parked, result

vars == <<active, manual, signaled, parked, result>>

Init ==
    /\ active = [e \in Events |-> FALSE]
    /\ manual = [e \in Events |-> FALSE]
    /\ signaled = [e \in Events |-> FALSE]
    /\ parked = [t \in Tasks |-> {}]
    /\ result = [t \in Tasks |-> "none"]

On(e) == {t \in Tasks : e \in parked[t]}

\* The waits of the tasks of W end with answer r.
Release(W, r) ==
    /\ parked' = [t \in Tasks |-> IF t \in W THEN {} ELSE parked[t]]
    /\ result' = [t \in Tasks |-> IF t \in W THEN r ELSE result[t]]

Create(e) ==
    /\ ~active[e]
    /\ active' = [active EXCEPT ![e] = TRUE]
    /\ \E m, s \in BOOLEAN :
          /\ manual' = [manual EXCEPT ![e] = m]
          /\ signaled' = [signaled EXCEPT ![e] = s]
    /\ UNCHANGED <<parked, result>>

Destroy(e) ==
    /\ active[e]
    /\ active' = [active EXCEPT ![e] = FALSE]
    /\ signaled' = [signaled EXCEPT ![e] = FALSE]
    /\ Release(On(e), "gone")
    /\ UNCHANGED manual

SignalRemembered(e) ==
    /\ active[e]
    /\ On(e) = {} \/ manual[e]
    /\ signaled' = [signaled EXCEPT ![e] = TRUE]
    /\ Release(On(e), e)
    /\ UNCHANGED <<active, manual>>

SignalHandedOver(e) ==
    /\ active[e] /\ ~manual[e]
    /\ \E t \in On(e) : Release({t}, e)
    /\ UNCHANGED <<active, manual, signaled>>

Reset(e) ==
    /\ active[e]
    /\ signaled' = [signaled EXCEPT ![e] = FALSE]
    /\ UNCHANGED <<active, manual, parked, result>>

\* A wait that is answered at once takes the signal of an auto-reset event.
Take(t, e) ==
    /\ active[e] /\ signaled[e] /\ parked[t] = {}
    /\ signaled' = [signaled EXCEPT ![e] = manual[e]]
    /\ result' = [result EXCEPT ![t] = e]
    /\ UNCHANGED <<active, manual, parked>>

Park(t, S) ==
    /\ parked[t] = {} /\ S # {}
    /\ \A e \in S : active[e] /\ ~signaled[e]
    /\ parked' = [parked EXCEPT ![t] = S]
    /\ result' = [result EXCEPT ![t] = "none"]
    /\ UNCHANGED <<active, manual, signaled>>

Refuse(t) ==
    /\ parked[t] = {}
    /\ result' = [result EXCEPT ![t] = "-1"]
    /\ UNCHANGED <<active, manual, signaled, parked>>

\* Timeouts and deaths.
Leave(W, r) ==
    /\ Release(W, r)
    /\ UNCHANGED <<active, manual, signaled>>

Next ==
    \/ \E e \in Events :
          \/ Create(e) \/ Destroy(e)
          \/ SignalRemembered(e) \/ SignalHandedOver(e)
          \/ Reset(e)
          \/ \E t \in Tasks : Take(t, e)
    \/ \E t \in Tasks :
          \/ \E S \in SUBSET Events : Park(t, S)
          \/ Refuse(t)
          \/ Leave({t}, "none")
    \/ \E W \in SUBSET Tasks : Leave(W, "ETIMEDOUT")

Spec == Init /\ [][Next]_vars
=============================================================================
