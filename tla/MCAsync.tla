------------------------------ MODULE MCAsync ------------------------------
(***************************************************************************)
(* Async, and with it Events, for TLC.  A behaviour has one of five scopes: *)
(*   many         three tasks and two plain events, no clock;              *)
(*   timed        two tasks, one plain event, timed waits;                 *)
(*   timers       one task, a timer and a plain event;                     *)
(*   completions  two tasks and a completion;                              *)
(*   bridges      two tasks, a bridge and a plain event.                   *)
(* Nobody keeps an id until its generation comes round again.              *)
(***************************************************************************)
EXTENDS Async

CONSTANTS e1, e2, timer1, port1, bridge1

VARIABLE scope

MCEvents == {e1, e2, timer1, port1, bridge1}
MCTimers == {timer1}
MCCompletions == {port1}
MCBridges == {bridge1}

UsedEvents ==
    CASE scope = "many" -> {e1, e2}
      [] scope = "timed" -> {e1}
      [] scope = "timers" -> {timer1, e1}
      [] scope = "completions" -> {port1}
      [] scope = "bridges" -> {bridge1, e1}

UsedTasks ==
    CASE scope = "many" -> Tasks
      [] scope = "timers" -> {1}
      [] OTHER -> {1, 2}

InScope ==
    /\ scope' = scope
    /\ \A e \in Events \ UsedEvents : ~active'[e]
    /\ \A t \in Tasks \ UsedTasks : state'[t] = "running" /\ result'[t] = "none"
    /\ scope \in {"many", "bridges"} => timer_ticks' = timer_ticks
    /\ IdsNotReused
    /\ scope # "timed" => \A t \in Tasks : ~timed'[t]
    /\ scope \in {"timed", "timers", "completions", "bridges"} =>
          /\ \A e \in Events : ~manual'[e]
          /\ \A t \in Tasks : result'[t] # "-1"
    /\ scope \in {"timers", "completions", "bridges"} =>
          \A t \in Tasks : state'[t] # "dead"

MCInit ==
    /\ AsyncInit
    /\ scope \in {"many", "timed", "timers", "completions", "bridges"}

MCSpec ==
    /\ MCInit
    /\ [][AsyncNext /\ InScope]_<<avars, scope>>
    /\ AsyncFairness

=============================================================================
