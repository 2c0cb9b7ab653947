------------------------------- MODULE MCIpc -------------------------------
(***************************************************************************)
(* Ipc for TLC.  A behaviour has one of two scopes:                        *)
(*   three  three tasks, one of which dies and is replaced, no timeouts:   *)
(*          cycles of sends, several senders for one receiver;             *)
(*   timed  two tasks with timeouts, stops and deaths.                     *)
(***************************************************************************)
EXTENDS Ipc

VARIABLE scope

MCInit ==
    /\ Init
    /\ scope \in {"three", "timed"}
    /\ \A s \in Slots : state[s] = "free" <=> scope # "three" /\ s = 3

InScope ==
    /\ scope' = scope
    /\ \A s \in {1, 2} : gen'[s] = 0
    /\ scope = "timed" => state'[3] = "free"
    /\ scope = "three" =>
          /\ timer_ticks' = timer_ticks
          /\ \A s \in Slots : ~timed'[s] /\ state'[s] # "stopped"
          /\ \A s \in {1, 2} : state'[s] # "zombie"

\* No task of the model can run; the clock of this scope stands still.
Quiet ==
    /\ scope = "three"
    /\ \A s \in Slots : state[s] # "running"
    /\ UNCHANGED <<vars, scope>>

MCSpec ==
    /\ MCInit
    /\ [][(Next /\ InScope) \/ Quiet]_<<vars, scope>>
    /\ Fairness
=============================================================================
