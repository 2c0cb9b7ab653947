------------------------------ MODULE Process ------------------------------
(***************************************************************************)
(* The life of tasks as parents see it: spawn, fork, exit, reparenting,    *)
(* zombies, wait and waitpid, stop and continue reports, SIGCHLD.          *)
(*   process/task.c, process/service.c, process/posix_signal.c,            *)
(*   terminate64 and its helpers in arch/x86_64/kernel/kernel.c and the    *)
(*   system calls of syscall_dispatch.c.                                   *)
(* System calls and the timer run with interrupts masked on the one CPU    *)
(* that schedules the pool, so each handler is one action.                 *)
(***************************************************************************)
EXTENDS Integers, FiniteSets, FiniteSetsExt

CONSTANTS
    Slots,       \* slots of task_pool that hold tasks, from 1
    GenMax,      \* the largest generation, 0x7FFF in the code
    Options,     \* the waitpid options tasks use: UNTRACED, CONTINUED
    Dispositions,\* the SIGCHLD dispositions tasks set
    Stoppable,   \* the slots stop signals reach
    SpawnHeld,   \* may a spawn leave its task suspended: a set of BOOLEAN
    InitSlots,   \* the slots whose tasks may register as init
    Kernel       \* parent_id 0 or -1, pid -1, no service owner: nobody

ASSUME ProcessAssumption ==
    /\ Slots \subseteq Nat \ {0} /\ IsFiniteSet(Slots) /\ 1 \in Slots
    /\ GenMax \in Nat \ {0}
    /\ Kernel \notin Slots /\ Kernel \notin Slots \X (0 .. GenMax)
    /\ Dispositions \subseteq {"default", "ignore", "catch"}

VARIABLES
    state, gen, parent,
    wait_pid, wait_posix, wait_options,
    stop_report, continued_report,
    chld,            \* the disposition of SIGCHLD
    init_owner,      \* service_owners[SERVICE_INIT]
    held             \* history: spawned suspended and not resumed yet

wait == <<wait_pid, wait_posix, wait_options>>
report == <<stop_report, continued_report>>
vars == <<state, gen, parent, wait, report, chld, init_owner, held>>

Pids == Slots \X (0 .. GenMax)
Pid(s) == <<s, gen[s]>>
Dead == {"free", "zombie"}
Live(pid) == pid # Kernel /\ gen[pid[1]] = pid[2] /\ state[pid[1]] \notin Dead

Init ==
    /\ state = [s \in Slots |-> IF s = 1 THEN "running" ELSE "free"]
    /\ gen = [s \in Slots |-> 0]
    /\ parent = [s \in Slots |-> Kernel]
    /\ wait_pid = [s \in Slots |-> Kernel]
    /\ wait_posix = [s \in Slots |-> FALSE]
    /\ wait_options = [s \in Slots |-> {}]
    /\ stop_report = [s \in Slots |-> FALSE]
    /\ continued_report = [s \in Slots |-> FALSE]
    /\ chld = [s \in Slots |-> "default"]
    /\ init_owner = Kernel
    /\ held = {}

Set(f, S, v) == [x \in DOMAIN f |-> IF x \in S THEN v ELSE f[x]]

\* task_free_slot's (g + 1) & 0x7FFF, never 0.
NextGenUnmasked(g) == g + 1
NextGen(g) == IF g = GenMax THEN 1 ELSE g + 1

\* task_free_slot on the slots F: a new generation, and task_clear_dynamic,
\* which leaves the reports of the last task in place.
Freed(F, st) == Set(st, F, "free")
FreeSlots(F) ==
    /\ gen' = [s \in Slots |-> IF s \in F THEN NextGen(gen[s]) ELSE gen[s]]
    /\ chld' = Set(chld, F, "default")
    /\ held' = held \ F

\* task_wait_wake's condition: task p, in states st, waits for child c.
Awaits(p, c, st) ==
    /\ st[p] = "wait"
    /\ wait_pid[p] \in {Kernel, Pid(c)}

----------------------------------------------------------------------------
\* The slot task_alloc_slot hands out.
FirstFree == Min({s \in Slots : state[s] = "free"})
CanAlloc == \E s \in Slots : state[s] = "free"

\* fork64: reports are reset, dispositions are inherited.
Fork(p) ==
    /\ state[p] = "running"
    /\ CanAlloc
    /\ state' = [state EXCEPT ![FirstFree] = "running"]
    /\ parent' = [parent EXCEPT ![FirstFree] = Pid(p)]
    /\ stop_report' = [stop_report EXCEPT ![FirstFree] = FALSE]
    /\ continued_report' = [continued_report EXCEPT ![FirstFree] = FALSE]
    /\ chld' = [chld EXCEPT ![FirstFree] = chld[p]]
    /\ UNCHANGED <<gen, wait, init_owner, held>>

\* System call 32, and spawn64_image with parent 0 for a driver domain.
Spawn(p, suspended) ==
    /\ p # Kernel => state[p] = "running"
    /\ CanAlloc
    /\ state' = [state EXCEPT ![FirstFree] =
                    IF suspended THEN "suspended" ELSE "running"]
    /\ parent' = [parent EXCEPT ![FirstFree] =
                    IF p = Kernel THEN Kernel ELSE Pid(p)]
    /\ held' = IF suspended THEN held \cup {FirstFree} ELSE held
    /\ UNCHANGED <<gen, wait, report, chld, init_owner>>

\* System call 216, by the parent.
ResumeSuspended(s) ==
    /\ state[s] = "suspended"
    /\ Live(parent[s]) /\ state[parent[s][1]] = "running"
    /\ state' = [state EXCEPT ![s] = "running"]
    /\ held' = held \ {s}
    /\ UNCHANGED <<gen, parent, wait, report, chld, init_owner>>

\* service_register(SERVICE_INIT); an owner that died was released.
RegisterInit(s) ==
    /\ s \in InitSlots
    /\ state[s] = "running"
    /\ init_owner \in {Kernel, Pid(s)}
    /\ init_owner' = Pid(s)
    /\ UNCHANGED <<state, gen, parent, wait, report, chld, held>>

\* sigaction(SIGCHLD).
SigactionChld(s, disposition) ==
    /\ state[s] = "running"
    /\ chld' = [chld EXCEPT ![s] = disposition]
    /\ UNCHANGED <<state, gen, parent, wait, report, init_owner, held>>

----------------------------------------------------------------------------
(***************************************************************************)
(* terminate64(d): reparent_children, then the auto-reap or the zombie and *)
(* wake_waiting_parent.                                                    *)
(***************************************************************************)
Adopter(d) == IF Live(init_owner) /\ init_owner # Pid(d)
              THEN init_owner ELSE Kernel

ChildrenAlive(pid) ==
    {c \in Slots : state[c] \notin Dead /\ parent[c] = pid}
Children(pid) == {c \in Slots : state[c] # "free" /\ parent[c] = pid}

\* The adopted zombie that ends the adopter's wait, if one does.
AdoptedUnseen(d) == {}
Adopted(d) ==
    LET matching == {c \in Children(Pid(d)) :
                        /\ state[c] = "zombie"
                        /\ Adopter(d) # Kernel
                        /\ Awaits(Adopter(d)[1], c, state)}
    IN  IF matching = {} THEN {} ELSE {Min(matching)}

\* The zombies reparent_children frees.
Buried(d) ==
    IF Adopter(d) = Kernel
    THEN {c \in Children(Pid(d)) : state[c] = "zombie"}
    ELSE Adopted(d)

\* service_release_owner.
ReleaseOwnerByNobody(d) == init_owner
ReleaseOwner(d) == IF init_owner = Pid(d) THEN Kernel ELSE init_owner

Die(d) ==
    LET adopter == Adopter(d)
        \* a task that had adopted itself is reparented too
        p == IF d \in Children(Pid(d)) THEN adopter ELSE parent[d]
        woken == IF Adopted(d) = {} THEN {} ELSE {adopter[1]}
        st1 == Freed(Buried(d), Set(state, woken, "running"))
        listens == p # Kernel /\ gen[p[1]] = p[2] /\ st1[p[1]] \notin Dead
        \* posix_signal_child_exiting
        ignored == listens /\ chld[p[1]] = "ignore"
        eintr == /\ listens /\ chld[p[1]] = "catch"
                 /\ st1[p[1]] = "wait" /\ wait_pid[p[1]] = Kernel
        st2 == IF eintr THEN [st1 EXCEPT ![p[1]] = "running"] ELSE st1
        \* wake_waiting_parent
        reported == /\ ~ignored /\ listens
                    /\ Awaits(p[1], d, st2)
        freed == Buried(d) \cup (IF ignored \/ reported THEN {d} ELSE {})
        exited == woken \cup (IF reported THEN {p[1]} ELSE {})
        broken == IF eintr THEN {p[1]} ELSE {}
        \* a POSIX waiter's report replaces the uncollected ones
        cleared == {c \in Adopted(d) : wait_posix[adopter[1]]} \cup
                   {c \in {d} : reported /\ wait_posix[p[1]]}
    IN  /\ state[d] \notin Dead
        /\ state' = Freed(freed, [Set(st2, exited, "running") EXCEPT
                                      ![d] = "zombie"])
        /\ wait_pid' = Set(wait_pid, exited \cup broken \cup {d}, Kernel)
        /\ wait_posix' = Set(wait_posix, exited \cup broken \cup {d}, FALSE)
        /\ wait_options' = Set(wait_options, broken, {})
        /\ stop_report' = Set(stop_report, cleared, FALSE)
        /\ continued_report' = Set(continued_report, cleared, FALSE)
        /\ parent' = Set(Set(parent, Children(Pid(d)), adopter), freed, Kernel)
        /\ init_owner' = ReleaseOwner(d)
        /\ gen' = [s \in Slots |-> IF s \in freed THEN NextGen(gen[s])
                                                  ELSE gen[s]]
        /\ chld' = Set(chld, freed \cup {d}, "default")
        /\ held' = held \ (freed \cup {d})

\* The timer's reap_orphan_zombies.
OrphansPastSlotOne ==
    {s \in Slots \ {1} : state[s] = "zombie" /\ parent[s] = Kernel}
Orphans == {s \in Slots : state[s] = "zombie" /\ parent[s] = Kernel}

Tick ==
    /\ Orphans # {}
    /\ state' = Freed(Orphans, state)
    /\ FreeSlots(Orphans)
    /\ UNCHANGED <<parent, wait, report, init_owner>>

----------------------------------------------------------------------------
(***************************************************************************)
(* System call 15 (native) and waitpid.                                    *)
(***************************************************************************)
\* The children a wait for pid looks at; Kernel stands for -1.
Candidates(p, pid) ==
    {c \in Children(Pid(p)) : pid \in {Kernel, Pid(c)}}

\* A stop or continue report waitpid was asked for.
Wanted(c, options) ==
    \/ "UNTRACED" \in options /\ stop_report[c]
    \/ "CONTINUED" \in options /\ continued_report[c]

WaitEmpty(p, pid) ==
    /\ state[p] = "running"
    /\ Candidates(p, pid) = {}
    /\ UNCHANGED vars

\* The scan stops at the first child with news: a zombie or a report.
News(p, pid, options) ==
    {c \in Candidates(p, pid) : state[c] = "zombie" \/ Wanted(c, options)}

WaitFinds(p, pid, options) ==
    /\ state[p] = "running"
    /\ News(p, pid, options) # {}
    /\ LET c == Min(News(p, pid, options)) IN
           IF state[c] = "zombie"
           THEN /\ state' = Freed({c}, state)
                /\ FreeSlots({c})
                /\ parent' = [parent EXCEPT ![c] = Kernel]
                /\ UNCHANGED report
           ELSE /\ stop_report' = [stop_report EXCEPT ![c] = FALSE]
                /\ continued_report' = [continued_report EXCEPT ![c] = FALSE]
                /\ UNCHANGED <<state, gen, parent, chld, held>>
    /\ UNCHANGED <<wait, init_owner>>

\* NOHANG: answer 0 at once.
WaitNohang(p, pid, options) ==
    /\ state[p] = "running"
    /\ Candidates(p, pid) # {}
    /\ News(p, pid, options) = {}
    /\ UNCHANGED vars

\* task_wait_park.
WaitParks(p, pid, posix, options) ==
    /\ state[p] = "running"
    /\ Candidates(p, pid) # {}
    /\ News(p, pid, options) = {}
    /\ state' = [state EXCEPT ![p] = "wait"]
    /\ wait_pid' = [wait_pid EXCEPT ![p] = pid]
    /\ wait_posix' = [wait_posix EXCEPT ![p] = posix]
    /\ wait_options' = [wait_options EXCEPT ![p] = options]
    /\ UNCHANGED <<gen, parent, report, chld, init_owner, held>>

Wait(p, pid) ==
    \/ WaitEmpty(p, pid)
    \/ \E posix \in BOOLEAN, options \in SUBSET Options :
           /\ ~posix => options = {}
           /\ \/ WaitFinds(p, pid, options)
              \/ posix /\ WaitNohang(p, pid, options)
              \/ WaitParks(p, pid, posix, options)

----------------------------------------------------------------------------
(***************************************************************************)
(* Job control: posix_signal_stop, posix_signal_continue_task and          *)
(* task64_report_child.                                                    *)
(***************************************************************************)
\* task_wait_cancel(target, -1): only a wait for any child is broken.
Breakable(s) == state[s] = "wait" /\ wait_pid[s] = Kernel

\* task64_report_child: parked parent p takes the reports stopped and
\* continued of child c.  A task that adopted itself no longer waits.
Publishes(p, c, stopped, continued) ==
    /\ Live(p) /\ p # Pid(c)
    /\ wait_posix[p[1]]
    /\ stopped => "UNTRACED" \in wait_options[p[1]]
    /\ continued => "CONTINUED" \in wait_options[p[1]]
    /\ Awaits(p[1], c, state)

\* The change of slot c to st, with its new reports, and what
\* task64_report_child makes of them.  broken: c's own wait ends with EINTR.
Report(c, st, stopped, continued, broken) ==
    LET p == parent[c]
        told == Publishes(p, c, stopped, continued)
        woken == IF told THEN {p[1]} ELSE {}
        done == woken \cup (IF broken THEN {c} ELSE {})
    IN  /\ state' = [Set(state, woken, "running") EXCEPT ![c] = st]
        /\ stop_report' = [stop_report EXCEPT ![c] = stopped /\ ~told]
        /\ continued_report' =
               [continued_report EXCEPT ![c] = continued /\ ~told]
        /\ wait_pid' = Set(wait_pid, done, Kernel)
        /\ wait_posix' = Set(wait_posix, done, FALSE)
        /\ wait_options' = Set(wait_options, done, {})
        /\ UNCHANGED <<gen, parent, chld, init_owner, held>>

\* A stop signal with the default action.
Stop(c) ==
    /\ c \in Stoppable
    /\ state[c] \notin Dead \cup {"stopped"}
    /\ Report(c, "stopped", TRUE, continued_report[c], Breakable(c))

\* SIGCONT.
Continue(c) ==
    /\ state[c] = "stopped"
    /\ Report(c, "running", FALSE, TRUE, FALSE)

\* A caught signal: wake_with_eintr.
Interrupt(s) ==
    /\ Breakable(s)
    /\ state' = [state EXCEPT ![s] = "running"]
    /\ wait_posix' = [wait_posix EXCEPT ![s] = FALSE]
    /\ wait_options' = [wait_options EXCEPT ![s] = {}]
    /\ UNCHANGED <<gen, parent, wait_pid, report, chld, init_owner, held>>

Next ==
    \/ \E s \in Slots :
           \/ Fork(s)
           \/ \E suspended \in SpawnHeld : Spawn(s, suspended)
           \/ ResumeSuspended(s)
           \/ RegisterInit(s)
           \/ \E disposition \in Dispositions :
                  SigactionChld(s, disposition)
           \/ Die(s)
           \/ \E pid \in Pids \cup {Kernel} : Wait(s, pid)
           \/ Stop(s)
           \/ Continue(s)
           \/ Interrupt(s)
    \/ Spawn(Kernel, FALSE)
    \/ Tick

Spec == Init /\ [][Next]_vars

\* The timer keeps ticking.
Fairness == WF_vars(Tick)

----------------------------------------------------------------------------
States == {"running", "wait", "stopped", "suspended", "zombie", "free"}

\* Every variable keeps its type.
TypeOK ==
    /\ state \in [Slots -> States]
    /\ gen \in [Slots -> 0 .. GenMax]
    /\ parent \in [Slots -> Pids \cup {Kernel}]
    /\ wait_pid \in [Slots -> Pids \cup {Kernel}]
    /\ wait_posix \in [Slots -> BOOLEAN]
    /\ wait_options \in [Slots -> SUBSET Options]
    /\ stop_report \in [Slots -> BOOLEAN]
    /\ continued_report \in [Slots -> BOOLEAN]
    /\ chld \in [Slots -> {"default", "ignore", "catch"}]
    /\ init_owner \in Pids \cup {Kernel}
    /\ held \subseteq Slots

\* reparent_children leaves no task, alive or zombie, with a parent that is
\* gone: the parent is a live task of that generation, or the kernel.
ParentIsLive ==
    \A c \in Slots : state[c] # "free" => parent[c] = Kernel \/ Live(parent[c])

\* A parked wait never coexists with a zombie it would take: exits, adoptions
\* and wakes never lose a child's death (wake_waiting_parent).
NoWaitSleepsOn ==
    \A p, c \in Slots :
        ~(state[c] = "zombie" /\ parent[c] = Pid(p) /\ Awaits(p, c, state))

\* The owner of the init service is a live task or nobody
\* (service_release_owner, service_lookup).
InitOwnerIsLive == init_owner = Kernel \/ Live(init_owner)

\* Parents, and the owner of the init service, are live tasks of the generation
\* they are named by, or nobody, and no generation leaves its range
\* (reparent_children, service_release_owner, task_free_slot).
FamilyIsLive == TypeOK /\ ParentIsLive /\ InitOwnerIsLive

\* task64_report_child: "publish the report to a parent that is parked in a
\* waitpid and asked for it".
ParkedParentLearnsStop ==
    \A p, c \in Slots :
        ~(/\ stop_report[c] /\ state[c] = "stopped" /\ parent[c] = Pid(p)
          /\ Awaits(p, c, state)
          /\ "UNTRACED" \in wait_options[p])

\* waitpid: "WUNTRACED adds a stopped child": a child waitpid would report
\* as stopped is stopped.
ReportedChildIsStopped ==
    \A c \in Slots :
        stop_report[c] /\ state[c] \notin Dead /\ Live(parent[c]) =>
            state[c] = "stopped"
=============================================================================
