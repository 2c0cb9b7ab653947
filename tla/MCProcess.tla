----------------------------- MODULE MCProcess -----------------------------
(***************************************************************************)
(* Process, and the shared queue of Scheduler, for TLC.  A behaviour has   *)
(* one of four scopes:                                                     *)
(*   waits    three slots, SIGCHLD caught or not;                          *)
(*   jobs     three slots, job control, WUNTRACED, but no init and only    *)
(*            waits by waitpid;                                            *)
(*   ignored  two slots, SIGCHLD ignored or not, job control, suspended    *)
(*            spawns;                                                      *)
(*   queue    processor 0 and four slots, one of them idle (Scheduler).    *)
(***************************************************************************)
EXTENDS Process, Scheduler

VARIABLE scope

allvars == <<vars, schedvars, scope>>

ProcessScopes == {"waits", "jobs", "ignored"}

\* The part that takes no steps stays as it was at the start.
MCInit == scope \in ProcessScopes \cup {"queue"} /\ Init /\ SchedulerInit

InScope ==
    /\ scope = "waits" =>
          /\ held' = {}
          /\ \A s \in Slots : /\ state'[s] # "stopped"
                              /\ chld'[s] # "ignore"
                              /\ wait_options'[s] = {}
    /\ scope = "jobs" =>
          /\ held' = {} /\ init_owner' = Kernel
          /\ \A s \in Slots : /\ chld'[s] = "default"
                              /\ state'[s] = "wait" => wait_posix'[s]
    /\ scope = "ignored" =>
          /\ state'[3] = "free"
          /\ \A s \in Slots : chld'[s] # "catch" /\ wait_options'[s] = {}

----------------------------------------------------------------------------
\* An interrupt wakes at most one task.
Woken == {{}} \cup {{t} : t \in PoolSlots}

InProcess(A) == scope \in ProcessScopes /\ A /\ InScope /\ UNCHANGED <<schedvars, scope>>
InQueue(A) == scope = "queue" /\ A /\ UNCHANGED <<vars, scope>>

MCNext ==
    \/ InProcess(Next)
    \/ InQueue(timer64_dispatch) \/ InQueue(Dispatches(Woken))
    \/ InQueue(Calls) \/ InQueue(Interrupts(Woken)) \/ InQueue(Lone)

\* The timer keeps ticking and an interrupt storm does not keep it out; a
\* dispatch once entered runs on.
MCFairness ==
    /\ WF_allvars(InProcess(Tick))
    /\ SF_allvars(InQueue(timer64_dispatch))
    /\ WF_allvars(InQueue(Dispatches(Woken)))

MCSpec == MCInit /\ [][MCNext]_allvars /\ MCFairness

----------------------------------------------------------------------------
\* Zombies nobody will wait for do not stay: again and again there is none
\* (reap_orphan_zombies).
OrphansEnd ==
    []<>(scope \in ProcessScopes => \A s \in Slots : ~(state[s] = "zombie" /\ parent[s] = Kernel))

\* Every task of the shared queue that stays runnable gets processor 0
\* (task_pick_locked, timer64_dispatch).
QueueMovesOn ==
    \A t \in 1 .. SlotCount - 1 :
        (scope = "queue" /\ Runnable(t)) ~> (scope = "queue" /\ (cpu[0].cur = t \/ ~Runnable(t)))
=============================================================================
