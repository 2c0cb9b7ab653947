-------------------------- MODULE ProcessorsProofs --------------------------
(***************************************************************************)
(* Proofs about processors that meet at the run queue and at the kernel    *)
(* locks, for any number of them.  Run queue: a task runs on one processor, *)
(* from the registers it last had, and processor 0 returns only to a task  *)
(* that may run.  Locks: one holder at a time and no deadlock, for every   *)
(* width of a ticket larger than the number of processors.                 *)
(***************************************************************************)
EXTENDS Scheduler, Locks, TLAPS, FiniteSetTheorems, NaturalsInduction, WellFoundedInduction

States == {"free", "run", "blocked", "zombie"}
Modes == {"user", "tick", "ticked", "switch", "parked", "gone", "irq", "hlt", "off"}
Tasks == [st : States, on : CpuSet \cup {None}, idle : BOOLEAN]
Cpus == [cur : PoolSlots \cup {None}, mode : Modes, regs : Int,
         next : PoolSlots \cup {None}, ipi : SUBSET {"resched", "user", "timer", "net"},
         timer : BOOLEAN]

Types ==
    /\ task \in [PoolSlots -> Tasks]
    /\ ctx \in [PoolSlots -> Int] /\ done \in [PoolSlots -> Int]
    /\ cpu \in [CpuSet -> Cpus]
    /\ shared \in PoolSlots /\ pending \in BOOLEAN

\* The owner field: the idle task is there to be picked, a slot without a live
\* task has no owner, a pinned task may always run, and processor 0 owns what
\* it runs or is about to run.
OwnersOK ==
    /\ task[0].st = "run" /\ task[0].on \in {None, 0}
    /\ \A t \in PoolSlots :
         /\ task[t].st \in {"free", "zombie"} => task[t].on = None
         /\ task[t].on \in Aps => task[t].st = "run"
         /\ task[t].on = 0 => t \in {shared, cpu[0].next}

\* Between the claim of the next slot and the load of its context.
Claimed == cpu[0].mode \in {"tick", "switch"}

\* Processor 0: what each point of a dispatch knows of the current slot.
Cpu0OK ==
    /\ cpu[0].cur = shared /\ cpu[0].ipi = {}
    /\ task[shared].on \in {None, 0}
    /\ cpu[0].mode \notin {"hlt", "off"}
    /\ IF Claimed
       THEN /\ cpu[0].next \in PoolSlots
            /\ task[cpu[0].next].st = "run" /\ task[cpu[0].next].on = 0
            /\ task[shared].st \in {"run", "blocked"} => ctx[shared] = done[shared]
       ELSE /\ cpu[0].next = None
            /\ task[shared].st \in {"run", "blocked"} =>
                   task[shared].on = 0 /\ cpu[0].regs = done[shared]
    /\ cpu[0].mode \in {"user", "ticked", "tick"} => task[shared].st = "run"
    /\ cpu[0].mode = "parked" => task[shared].st = "blocked"
    /\ cpu[0].mode = "gone" => task[shared].st \in {"free", "zombie"}
    /\ cpu[0].mode = "irq" /\ task[shared].st # "run" => pending /\ Aps = {}

\* Another processor: it runs a task it owns, or halts, with an idle task armed
\* that an IPI will enter, or with nothing.
ApOK(c) ==
    /\ cpu[c].mode \in {"user", "hlt", "off"}
    /\ cpu[c].cur # None => task[cpu[c].cur].on = c
    /\ cpu[c].mode = "user" =>
           cpu[c].cur # None /\ cpu[c].regs = done[cpu[c].cur] /\ "user" \notin cpu[c].ipi
    /\ cpu[c].mode = "off" => cpu[c].cur = None /\ "user" \notin cpu[c].ipi
    /\ cpu[c].mode = "hlt" =>
           IF cpu[c].cur = None
           THEN /\ "user" \notin cpu[c].ipi
                /\ "resched" \in cpu[c].ipi => \E t \in PoolSlots : task[t].on = c
           ELSE /\ "user" \in cpu[c].ipi /\ "resched" \notin cpu[c].ipi
                /\ done[cpu[c].cur] = 0

\* What is saved for a live task that no processor has is where it stopped.
Saved ==
    \A t \in PoolSlots :
        task[t].st \in {"run", "blocked"} /\ (\A c \in CpuSet : cpu[c].cur # t) => ctx[t] = done[t]

\* The inductive invariant.
SchedInv == Types /\ OwnersOK /\ Cpu0OK /\ (\A c \in Aps : ApOK(c)) /\ Saved

-----------------------------------------------------------------------------
\* Every set of numbers but the empty one has a least.
LEMMA LeastOf ==
    ASSUME NEW S \in SUBSET Nat, S # {}
    PROVE  \E o \in S : \A p \in S : o <= p
<1> DEFINE R == OpToRel(<, Nat)
<1>1. IsWellFoundedOn(R, Nat)
  BY NatLessThanWellFounded, Zenon
<1>2. PICK o \in S : \A p \in S : <<p, o>> \notin R
  BY ONLY WFMin, <1>1, S \in SUBSET Nat, S # {}, Zenon
<1>3. ASSUME NEW p \in S
      PROVE  o <= p
  <2>1. o \in Nat /\ p \in Nat /\ <<p, o>> \notin R
    BY <1>2, Zenon
  <2>2. ~(p < o)
    BY <2>1 DEF OpToRel
  <2> HIDE DEF R
  <2> QED BY <2>1, <2>2
<1> HIDE DEF R
<1> QED BY <1>2, <1>3, Zenon

\* SlotCount steps from any slot lead through every slot.
LEMMA Reach ==
    ASSUME NEW from \in PoolSlots, NEW t \in PoolSlots
    PROVE  \E o \in 1 .. SlotCount : (from + o) % SlotCount = t
<1>1. SlotCount \in Nat /\ SlotCount > 1 /\ from \in 0 .. SlotCount - 1 /\ t \in 0 .. SlotCount - 1
  BY SchedulerAssumption DEF PoolSlots
<1>2. CASE from < t
  <2>1. t - from \in 1 .. SlotCount /\ from + (t - from) = t /\ t % SlotCount = t
    BY <1>1, <1>2
  <2> QED BY <2>1
<1>3. CASE ~(from < t)
  <2>1. t - from + SlotCount \in 1 .. SlotCount /\ from + (t - from + SlotCount) = t + SlotCount
    BY <1>1, <1>3
  <2>2. (t + SlotCount) % SlotCount = t
    BY <1>1
  <2> QED BY <2>1, <2>2
<1> QED BY <1>2, <1>3

\* The pick finds a slot of the set whenever there is one.
LEMMA RoundRobinPicks ==
    ASSUME NEW from \in PoolSlots, NEW S \in SUBSET PoolSlots
    PROVE  /\ S = {} => RoundRobin(from, S) = None
           /\ S # {} => RoundRobin(from, S) \in S
<1> DEFINE At(o) == (from + o) % SlotCount
           Least(P) == IF P = {} THEN None ELSE At(CHOOSE o \in P : \A p \in P : o <= p)
           Any == {o \in 1 .. SlotCount : At(o) \in S}
           Busy == {o \in 1 .. SlotCount : At(o) \in S /\ ~task[At(o)].idle}
<1>1. RoundRobin(from, S) = IF Busy # {} THEN Least(Busy) ELSE Least(Any)
  BY Zenon DEF RoundRobin
<1>2. S # {} => Any # {}
  BY Reach, Zenon
<1>3. ASSUME NEW P \in SUBSET Any, P # {}
      PROVE  Least(P) \in S
  <2> DEFINE l == CHOOSE o \in P : \A p \in P : o <= p
  <2>1. P \in SUBSET Nat
    BY SchedulerAssumption
  <2>2. l \in P
    BY <1>3, <2>1, LeastOf, Zenon
  <2> HIDE DEF l
  <2>3. At(l) \in S
    BY <2>2, Zenon
  <2>4. Least(P) = At(l)
    BY <1>3, Zenon DEF l
  <2> QED BY <2>3, <2>4, Zenon
<1>4. Busy \subseteq Any /\ (S = {} => Any = {} /\ Busy = {})
  BY Zenon
<1> HIDE DEF Any, Busy
<1>5. S = {} => Least(Any) = None
  BY <1>4, Zenon
<1> HIDE DEF Least
<1> QED BY <1>1, <1>2, <1>3, <1>4, <1>5, Zenon

-----------------------------------------------------------------------------
\* The other processors and their tasks are left alone.
ApsUntouched ==
    /\ \A c \in Aps : cpu'[c] = cpu[c]
    /\ \A t \in PoolSlots : task[t].on \in Aps => task'[t].on = task[t].on /\ done'[t] = done[t]

\* Processor 0 goes to point m of its dispatch, with n to be loaded.
Cpu0Moves(m, n) ==
    /\ cpu' \in [CpuSet -> Cpus]
    /\ \A c \in Aps : cpu'[c] = cpu[c]
    /\ cpu'[0].cur = cpu[0].cur /\ cpu'[0].regs = cpu[0].regs /\ cpu'[0].ipi = cpu[0].ipi
    /\ cpu'[0].mode = m /\ cpu'[0].next = n

\* Numbers of processors: None and 0 are no other processor's.
LEMMA CpuNumbers ==
    /\ 0 \in CpuSet /\ 0 \notin Aps /\ None \notin Aps /\ None \notin CpuSet
    /\ None \notin PoolSlots /\ 0 \in PoolSlots /\ 1 \in PoolSlots
    /\ \A c \in CpuSet : c = 0 \/ c \in Aps
    /\ \A c \in Aps : c \in CpuSet /\ c # 0
  BY SchedulerAssumption DEF CpuSet, None, PoolSlots

\* The fields of tasks and processors have their types.
LEMMA Fields ==
    ASSUME Types
    PROVE  /\ \A t \in PoolSlots : task[t].st \in States /\ task[t].on \in CpuSet \cup {None}
                                   /\ task[t].idle \in BOOLEAN
           /\ \A c \in CpuSet : /\ cpu[c].cur \in PoolSlots \cup {None} /\ cpu[c].mode \in Modes
                                /\ cpu[c].regs \in Int /\ cpu[c].next \in PoolSlots \cup {None}
                                /\ cpu[c].ipi \in SUBSET {"resched", "user", "timer", "net"}
                                /\ cpu[c].timer \in BOOLEAN
  BY DEF Types, Tasks, Cpus

\* Untouched processors stay as they should be.
LEMMA ApsStay ==
    ASSUME SchedInv, ApsUntouched
    PROVE  \A c \in Aps : ApOK(c)'
<1> SUFFICES ASSUME NEW c \in Aps PROVE ApOK(c)'
  OBVIOUS
<1>1. ApOK(c) /\ cpu'[c] = cpu[c]
  BY DEF SchedInv, ApsUntouched
<1>2. cpu[c].cur # None => cpu[c].cur \in PoolSlots
  BY CpuNumbers, Fields DEF SchedInv
<1>3. \A t \in PoolSlots : task[t].on = c => task'[t].on = c /\ done'[t] = done[t]
  BY DEF ApsUntouched
<1> QED BY <1>1, <1>2, <1>3 DEF ApOK

\* Processor 0 always finds a task that may run and that it may claim.
LEMMA PickLocked ==
    ASSUME SchedInv
    PROVE  /\ smp64_running_slot(0) = shared
           /\ task_pick_locked(shared, 0) \in PoolSlots
           /\ task_pick_locked(shared, 0) # None
           /\ task[task_pick_locked(shared, 0)].st = "run"
           /\ task[task_pick_locked(shared, 0)].on \in {None, 0}
<1> DEFINE S == {t \in PoolSlots : task[t].st = "run" /\ task[t].on \in {None, 0}}
<1>1. 0 \in S /\ S \in SUBSET PoolSlots
  BY CpuNumbers DEF SchedInv, OwnersOK
<1>2. shared \in PoolSlots
  BY DEF SchedInv, Types
<1>3. RoundRobin(shared, S) \in S
  BY <1>1, <1>2, RoundRobinPicks, Zenon
<1>4. task_pick_locked(shared, 0) = RoundRobin(shared, S)
  BY Zenon DEF task_pick_locked
<1>5. smp64_running_slot(0) = shared
  BY DEF smp64_running_slot, SchedInv, Cpu0OK
<1> HIDE DEF S
<1>6. task_pick_locked(shared, 0) \in S
  BY <1>3, <1>4
<1> QED BY <1>5, <1>6, CpuNumbers DEF S

\* The claim of the next slot, with the registers of the current one saved.
LEMMA ClaimInv ==
    ASSUME SchedInv, ~Claimed,
           NEW p \in PoolSlots, task[p].st = "run", task[p].on \in {None, 0},
           NEW m \in {"tick", "switch"}, m = "tick" => task[shared].st = "run",
           task' = [task EXCEPT ![p].on = 0], Cpu0Moves(m, p),
           \/ ctx' = [ctx EXCEPT ![shared] = cpu[0].regs]
           \/ ctx' = ctx /\ task[shared].st \notin {"run", "blocked"},
           done' = done, shared' = shared, pending' \in BOOLEAN
    PROVE  SchedInv'
<1>1. Types /\ OwnersOK /\ Cpu0OK /\ Saved
  BY DEF SchedInv
<1>2. /\ \A t \in PoolSlots : /\ task'[t].st = task[t].st
                              /\ task'[t].on = IF t = p THEN 0 ELSE task[t].on
      /\ task' \in [PoolSlots -> Tasks]
  BY <1>1, CpuNumbers DEF Types, Tasks
<1>3. /\ shared \in PoolSlots /\ cpu[0].regs \in Int /\ ctx' \in [PoolSlots -> Int]
      /\ \A t \in PoolSlots : t # shared => ctx'[t] = ctx[t]
      /\ task[shared].st \in {"run", "blocked"} => ctx'[shared] = done[shared]
  BY <1>1, Fields, CpuNumbers DEF Types, Cpu0OK
<1>4. Types'
  BY <1>1, <1>2, <1>3 DEF Types, Cpu0Moves
<1>5. cpu'[0].mode = m /\ cpu'[0].next = p /\ cpu'[0].cur = shared /\ cpu'[0].ipi = {}
  BY <1>1 DEF Cpu0Moves, Cpu0OK
<1>6. OwnersOK'
  BY <1>1, <1>2, <1>5, CpuNumbers DEF OwnersOK, Cpu0OK
<1>7. Cpu0OK'
  BY <1>1, <1>2, <1>3, <1>5, CpuNumbers DEF Cpu0OK, Claimed
<1>8. ApsUntouched
  BY <1>2, CpuNumbers DEF ApsUntouched, Cpu0Moves
<1>9. Saved'
  <2> SUFFICES ASSUME NEW t \in PoolSlots, task'[t].st \in {"run", "blocked"},
                      \A c \in CpuSet : cpu'[c].cur # t
               PROVE  ctx'[t] = done'[t]
    BY DEF Saved
  <2>1. \A c \in CpuSet : cpu[c].cur # t
    BY <1>1, <1>5, CpuNumbers DEF Cpu0Moves, Cpu0OK
  <2>2. t # shared
    BY <1>5, CpuNumbers
  <2> QED BY <1>1, <1>2, <1>3, <2>1, <2>2 DEF Saved
<1> QED BY <1>4, <1>6, <1>7, <1>8, <1>9, ApsStay DEF SchedInv

\* The context of the claimed slot is loaded, and the old one is let go.
LEMMA LoadInv ==
    ASSUME SchedInv, Load
    PROVE  SchedInv'
<1> DEFINE n == cpu[0].next
           m == IF cpu[0].mode = "tick" THEN "ticked" ELSE "user"
<1>1. Types /\ OwnersOK /\ Cpu0OK /\ Saved
  BY DEF SchedInv
<1>2. Claimed /\ scheduler64_set_running(m) /\ UNCHANGED <<ctx, pending, done>>
  BY DEF Load, Claimed
<1>3. /\ n \in PoolSlots /\ shared \in PoolSlots /\ smp64_running_slot(0) = shared
      /\ task[n].st = "run" /\ task[n].on = 0 /\ task[shared].on \in {None, 0}
      /\ m \in {"ticked", "user"} /\ 0 \in CpuSet
  BY <1>1, <1>2, PickLocked, CpuNumbers DEF Types, Cpu0OK
<1>4. /\ task' = [t \in PoolSlots |-> IF t = n THEN [task[t] EXCEPT !.on = 0]
                                      ELSE IF t = shared THEN [task[t] EXCEPT !.on = None] ELSE task[t]]
      /\ shared' = n
      /\ cpu' = [cpu EXCEPT ![0] = interrupt_load([@ EXCEPT !.next = None, !.mode = m], n)]
  BY <1>2, <1>3, Zenon DEF scheduler64_set_running
<1> HIDE DEF n, m
<1>5. /\ \A t \in PoolSlots :
            /\ task'[t].st = task[t].st
            /\ task'[t].on = IF t = n THEN 0 ELSE IF t = shared THEN None ELSE task[t].on
      /\ task' \in [PoolSlots -> Tasks]
  BY <1>1, <1>3, <1>4 DEF Types, Tasks
<1>6. /\ cpu'[0].cur = n /\ cpu'[0].regs = ctx[n] /\ cpu'[0].ipi = cpu[0].ipi
      /\ cpu'[0].mode = m /\ cpu'[0].next = None
      /\ \A c \in Aps : cpu'[c] = cpu[c]
      /\ cpu' \in [CpuSet -> Cpus]
  <2> DEFINE r == interrupt_load([cpu[0] EXCEPT !.next = None, !.mode = m], n)
  <2>1. cpu[0] \in Cpus /\ ctx[n] \in Int
    BY <1>1, <1>3 DEF Types
  <2>2. /\ r.cur = n /\ r.regs = ctx[n] /\ r.ipi = cpu[0].ipi /\ r.mode = m /\ r.next = None
        /\ r \in Cpus
    BY <1>3, <2>1, Zenon DEF Cpus, interrupt_load, Modes
  <2>3. cpu' = [cpu EXCEPT ![0] = r]
    BY <1>4
  <2> HIDE DEF r
  <2> QED BY <1>1, <1>3, <2>2, <2>3, CpuNumbers DEF Types
<1>7. Types'
  BY <1>1, <1>2, <1>3, <1>4, <1>5, <1>6 DEF Types
\* The claimed slot is nobody else's.
<1>8. \A c \in Aps : cpu[c].cur # n /\ cpu[c].cur # shared
  BY <1>3, CpuNumbers DEF SchedInv, ApOK
<1>9. ctx[n] = done[n]
  <2>1. CASE n = shared
    BY <1>1, <1>2, <1>3, <2>1 DEF Cpu0OK
  <2>2. CASE n # shared
    <3>1. \A c \in CpuSet : cpu[c].cur # n
      BY <1>1, <1>8, <2>2, CpuNumbers DEF Cpu0OK
    <3> QED BY <1>1, <1>3, <3>1 DEF Saved
  <2> QED BY <2>1, <2>2
<1>10. OwnersOK'
  <2>1. n = cpu[0].next
    BY DEF n
  <2> QED BY <1>1, <1>3, <1>4, <1>5, <1>6, <2>1, CpuNumbers DEF OwnersOK
<1>11. Cpu0OK'
  BY <1>1, <1>2, <1>3, <1>4, <1>5, <1>6, <1>9, Zenon DEF Cpu0OK, Claimed
<1>12. ApsUntouched
  BY <1>2, <1>3, <1>5, <1>6, CpuNumbers DEF ApsUntouched
<1>13. Saved'
  <2> SUFFICES ASSUME NEW t \in PoolSlots, task'[t].st \in {"run", "blocked"},
                      \A c \in CpuSet : cpu'[c].cur # t
               PROVE  ctx[t] = done[t]
    BY <1>2 DEF Saved
  <2>1. CASE t = shared
    BY <1>1, <1>2, <1>5, <2>1 DEF Cpu0OK
  <2>2. CASE t # shared
    <3>1. \A c \in CpuSet : cpu[c].cur # t
      BY <1>1, <1>6, <2>2, CpuNumbers DEF Cpu0OK
    <3> QED BY <1>1, <1>5, <3>1 DEF Saved
  <2> QED BY <2>1, <2>2
<1> QED BY <1>7, <1>10, <1>11, <1>12, <1>13, ApsStay DEF SchedInv

\* The current task of processor 0 parks, stops or ends.
LEMMA CurrentInv ==
    ASSUME SchedInv, cpu[0].mode \in {"user", "ticked"}, shared # 0,
           NEW x \in Tasks,
           \/ x.st \in {"free", "zombie"} /\ x.on = None
           \/ x.st = "blocked" /\ x.on = 0,
           NEW m,
           \/ m = "gone" /\ x.st # "blocked"
           \/ m = "parked" /\ x.st = "blocked"
           \/ m = "irq" /\ pending' /\ Aps = {},
           task' = [task EXCEPT ![shared] = x], Cpu0Moves(m, None),
           ctx' = ctx \/ \E k \in Int : ctx' = [ctx EXCEPT ![shared] = k] /\ x.st # "blocked",
           done' = done, shared' = shared, pending' \in BOOLEAN
    PROVE  SchedInv'
<1>1. Types /\ OwnersOK /\ Cpu0OK /\ Saved
  BY DEF SchedInv
<1>2. /\ shared \in PoolSlots /\ ctx' \in [PoolSlots -> Int]
      /\ \A t \in PoolSlots : t # shared => ctx'[t] = ctx[t] /\ task'[t] = task[t]
      /\ task'[shared] = x /\ task' \in [PoolSlots -> Tasks]
  BY <1>1 DEF Types
<1>3. cpu'[0].mode = m /\ cpu'[0].next = None /\ cpu'[0].cur = shared /\ cpu'[0].ipi = {}
      /\ cpu'[0].regs = cpu[0].regs
  BY <1>1 DEF Cpu0Moves, Cpu0OK
<1>4. Types'
  BY <1>1, <1>2 DEF Types, Cpu0Moves
<1>5. task[shared].on = 0 /\ cpu[0].regs = done[shared] /\ cpu[0].next = None
  BY <1>1 DEF Cpu0OK, Claimed
<1>6. OwnersOK'
  BY <1>1, <1>2, <1>3, <1>5, CpuNumbers DEF OwnersOK
<1>7. Cpu0OK'
  BY <1>2, <1>3, <1>5 DEF Cpu0OK, Claimed
<1>8. ApsUntouched
  BY <1>2, <1>5, CpuNumbers DEF ApsUntouched, Cpu0Moves
<1>9. Saved'
  <2> SUFFICES ASSUME NEW t \in PoolSlots, task'[t].st \in {"run", "blocked"},
                      \A c \in CpuSet : cpu'[c].cur # t
               PROVE  ctx'[t] = done'[t]
    BY DEF Saved
  <2>1. \A c \in CpuSet : cpu[c].cur # t
    BY <1>1, <1>3, CpuNumbers DEF Cpu0Moves, Cpu0OK
  <2>2. t # shared
    BY <1>3, CpuNumbers
  <2> QED BY <1>1, <1>2, <2>1, <2>2 DEF Saved
<1> QED BY <1>4, <1>6, <1>7, <1>8, <1>9, ApsStay DEF SchedInv

\* Blocked tasks are woken; processor 0 goes on in the task it has.
LEMMA WakesInv ==
    ASSUME SchedInv, cpu[0].mode \in {"user", "ticked", "irq"}, task[shared].st = "run",
           NEW W, Wakes(W), NEW m \in {"user", "irq"}, Cpu0Moves(m, None),
           ctx' = ctx, done' = done, shared' = shared, pending' \in BOOLEAN
    PROVE  SchedInv'
<1>1. Types /\ OwnersOK /\ Cpu0OK /\ Saved
  BY DEF SchedInv
<1>2. /\ \A t \in PoolSlots :
            /\ task'[t].on = task[t].on
            /\ task'[t].st = task[t].st \/ (task'[t].st = "run" /\ task[t].st = "blocked")
      /\ task' \in [PoolSlots -> Tasks]
  <2>1. \A t \in PoolSlots : [task[t] EXCEPT !.st = "run"] \in Tasks
    BY <1>1 DEF Types, Tasks, States
  <2>2. task' = [t \in PoolSlots |-> IF t \in W THEN [task[t] EXCEPT !.st = "run"] ELSE task[t]]
        /\ \A t \in W : task[t].st = "blocked"
    BY DEF Wakes
  <2>3. task' \in [PoolSlots -> Tasks]
    BY <1>1, <2>1, <2>2 DEF Types
  <2>4. \A t \in PoolSlots : /\ [task[t] EXCEPT !.st = "run"].st = "run"
                             /\ [task[t] EXCEPT !.st = "run"].on = task[t].on
    BY <1>1 DEF Types, Tasks
  <2>5. \A t \in PoolSlots : /\ t \in W => task'[t] = [task[t] EXCEPT !.st = "run"]
                             /\ t \notin W => task'[t] = task[t]
    BY <2>2, Zenon
  <2>6. ASSUME NEW t \in PoolSlots
        PROVE  /\ task'[t].on = task[t].on
               /\ task'[t].st = task[t].st \/ (task'[t].st = "run" /\ task[t].st = "blocked")
    <3>1. CASE t \in W
      BY <2>2, <2>4, <2>5, <3>1, Zenon
    <3>2. CASE t \notin W
      BY <2>5, <3>2, Zenon
    <3> QED BY <3>1, <3>2
  <2> QED BY <2>3, <2>6
<1>3. cpu'[0].mode = m /\ cpu'[0].next = None /\ cpu'[0].cur = shared /\ cpu'[0].ipi = {}
      /\ cpu'[0].regs = cpu[0].regs
  BY <1>1 DEF Cpu0Moves, Cpu0OK
<1>4. Types'
  BY <1>1, <1>2 DEF Types, Cpu0Moves
<1>5. task[shared].on = 0 /\ cpu[0].regs = done[shared] /\ cpu[0].next = None /\ shared \in PoolSlots
  BY <1>1 DEF Cpu0OK, Claimed, Types
<1>6. OwnersOK'
  BY <1>1, <1>2, <1>3, <1>5, CpuNumbers DEF OwnersOK
<1>7. Cpu0OK'
  BY <1>2, <1>3, <1>5 DEF Cpu0OK, Claimed
<1>8. ApsUntouched
  BY <1>2 DEF ApsUntouched, Cpu0Moves
<1>9. Saved'
  <2> SUFFICES ASSUME NEW t \in PoolSlots, task'[t].st \in {"run", "blocked"},
                      \A c \in CpuSet : cpu'[c].cur # t
               PROVE  ctx[t] = done[t]
    BY DEF Saved
  <2>1. \A c \in CpuSet : cpu[c].cur # t
    BY <1>1, <1>3, CpuNumbers DEF Cpu0Moves, Cpu0OK
  <2> QED BY <1>1, <1>2, <2>1 DEF Saved
<1> QED BY <1>4, <1>6, <1>7, <1>8, <1>9, ApsStay DEF SchedInv

\* A task that no processor runs ends.
LEMMA OtherEndsInv ==
    ASSUME SchedInv, cpu[0].mode = "user",
           NEW t \in PoolSlots, t # 0, t # shared, task[t].on \notin Aps,
           NEW x \in Tasks, x.st \in {"free", "zombie"}, x.on = None,
           task' = [task EXCEPT ![t] = x], ctx' = ctx \/ ctx' = [ctx EXCEPT ![t] = 0],
           UNCHANGED <<cpu, shared, pending, done>>
    PROVE  SchedInv'
<1>1. Types /\ OwnersOK /\ Cpu0OK /\ Saved
  BY DEF SchedInv
<1>2. /\ shared \in PoolSlots /\ ctx' \in [PoolSlots -> Int]
      /\ \A u \in PoolSlots : u # t => ctx'[u] = ctx[u] /\ task'[u] = task[u]
      /\ task'[t] = x /\ task' \in [PoolSlots -> Tasks]
  BY <1>1 DEF Types
<1>3. Types'
  BY <1>1, <1>2 DEF Types
<1>4. cpu[0].next = None
  BY <1>1 DEF Cpu0OK, Claimed
<1>5. OwnersOK'
  BY <1>1, <1>2, CpuNumbers DEF OwnersOK
<1>6. Cpu0OK'
  BY <1>1, <1>2, <1>4 DEF Cpu0OK, Claimed
<1>7. ApsUntouched
  BY <1>2 DEF ApsUntouched
<1>8. Saved'
  BY <1>1, <1>2 DEF Saved
<1> QED BY <1>3, <1>5, <1>6, <1>7, <1>8, ApsStay DEF SchedInv

\* At most processor c changes, and it has a new current slot n only if it had
\* none.
Arms(c, n) ==
    /\ cpu' \in [CpuSet -> Cpus]
    /\ \A d \in CpuSet : d # c => cpu'[d] = cpu[d]
    /\ cpu'[c].cur = cpu[c].cur \/ (cpu'[c].cur = n /\ cpu[c].cur = None)

\* A new task starts in a free slot, for processor 0 or pinned to c.
LEMMA NewTaskInv ==
    ASSUME SchedInv, cpu[0].mode = "user",
           NEW n \in PoolSlots, task[n].st = "free",
           NEW c \in Aps \cup {None}, NEW x \in Tasks, x.st = "run", x.on = c,
           NEW k \in Int, k = 0 \/ (c \in Aps /\ cpu'[c].cur = n),
           task' = [task EXCEPT ![n] = x], ctx' = [ctx EXCEPT ![n] = k], done' = [done EXCEPT ![n] = 0],
           cpu' = cpu \/ Arms(c, n), c = None => cpu' = cpu, c \in Aps => ApOK(c)',
           UNCHANGED <<shared, pending>>
    PROVE  SchedInv'
<1>1. Types /\ OwnersOK /\ Cpu0OK /\ Saved /\ \A d \in Aps : ApOK(d)
  BY DEF SchedInv
<1>2. /\ shared \in PoolSlots /\ ctx' \in [PoolSlots -> Int] /\ done' \in [PoolSlots -> Int]
      /\ \A u \in PoolSlots : u # n => ctx'[u] = ctx[u] /\ done'[u] = done[u] /\ task'[u] = task[u]
      /\ task'[n] = x /\ ctx'[n] = k /\ done'[n] = 0 /\ task' \in [PoolSlots -> Tasks]
  BY <1>1 DEF Types
<1>3. cpu' \in [CpuSet -> Cpus] /\ (\A d \in CpuSet : d # c => cpu'[d] = cpu[d]) /\ cpu'[0] = cpu[0]
  BY <1>1, CpuNumbers DEF Types, Arms
<1>4. Types'
  BY <1>1, <1>2, <1>3 DEF Types
<1>5. n # shared /\ n # 0 /\ cpu[0].next = None /\ task[n].on = None
  BY <1>1 DEF Cpu0OK, OwnersOK, Claimed
<1>6. OwnersOK'
  BY <1>1, <1>2, <1>3, <1>5, CpuNumbers DEF OwnersOK
<1>7. Cpu0OK'
  BY <1>1, <1>2, <1>3, <1>5 DEF Cpu0OK, Claimed
<1>8. ASSUME NEW d \in Aps, d # c
      PROVE  ApOK(d)'
  <2>1. cpu'[d] = cpu[d] /\ ApOK(d)
    BY <1>1, <1>3, <1>8, CpuNumbers
  <2>2. cpu[d].cur # None => cpu[d].cur \in PoolSlots
    BY <1>1, CpuNumbers, Fields
  <2>3. \A u \in PoolSlots : task[u].on = d => task'[u].on = d /\ done'[u] = done[u]
    BY <1>2, <1>5, CpuNumbers
  <2> QED BY <2>1, <2>2, <2>3 DEF ApOK
<1>9. Saved'
  <2> SUFFICES ASSUME NEW t \in PoolSlots, task'[t].st \in {"run", "blocked"},
                      \A d \in CpuSet : cpu'[d].cur # t
               PROVE  ctx'[t] = done'[t]
    BY DEF Saved
  <2>1. CASE t = n
    BY <1>2, <2>1, CpuNumbers
  <2>2. CASE t # n
    <3>1. \A d \in CpuSet : cpu[d].cur # t
      BY <1>3, <2>2, CpuNumbers DEF Arms
    <3> QED BY <1>1, <1>2, <2>2, <3>1 DEF Saved
  <2> QED BY <2>1, <2>2
<1> QED BY <1>4, <1>6, <1>7, <1>8, <1>9, Zenon DEF SchedInv

\* A step of another processor c on its own tasks.
ApActs(c) ==
    /\ Types'
    /\ \A d \in CpuSet : d # c => cpu'[d] = cpu[d]
    /\ shared' = shared
    /\ \A t \in PoolSlots :
         /\ task[t].on # c => task'[t] = task[t] /\ ctx'[t] = ctx[t] /\ done'[t] = done[t]
         /\ task[t].on = c => \/ task'[t].on = c /\ task'[t].st = "run"
                              \/ task'[t].on = None /\ task'[t].st \in {"free", "zombie"}
         /\ task[t].on = c /\ task'[t].st = "run" /\ cpu'[c].cur # t => ctx'[t] = done'[t]
    /\ ApOK(c)'

\* Such a step disturbs nobody else.
LEMMA ApActsInv ==
    ASSUME SchedInv, NEW c \in Aps, ApActs(c)
    PROVE  SchedInv'
<1>1. Types /\ OwnersOK /\ Cpu0OK /\ Saved /\ \A d \in Aps : ApOK(d)
  BY DEF SchedInv
<1>2. /\ \A d \in CpuSet : d # c => cpu'[d] = cpu[d]
      /\ shared' = shared /\ shared \in PoolSlots /\ cpu'[0] = cpu[0]
      /\ Types' /\ ApOK(c)'
  BY <1>1, CpuNumbers DEF ApActs, Types
<1>3. /\ \A t \in PoolSlots : task[t].on # c =>
                                 task'[t] = task[t] /\ ctx'[t] = ctx[t] /\ done'[t] = done[t]
      /\ \A t \in PoolSlots : task[t].on = c => \/ task'[t].on = c /\ task'[t].st = "run"
                                                \/ task'[t].on = None /\ task'[t].st \in {"free", "zombie"}
  BY DEF ApActs
<1>4. OwnersOK'
  BY <1>1, <1>2, <1>3, CpuNumbers DEF OwnersOK
<1>5. Cpu0OK'
  <2>1. task[shared].on # c /\ (Claimed => cpu[0].next \in PoolSlots /\ task[cpu[0].next].on # c)
    BY <1>1, CpuNumbers DEF Cpu0OK
  <2>2. /\ task'[shared] = task[shared] /\ ctx'[shared] = ctx[shared] /\ done'[shared] = done[shared]
        /\ Claimed => task'[cpu[0].next] = task[cpu[0].next]
    BY <1>2, <1>3, <2>1
  <2> QED BY <1>1, <1>2, <2>2 DEF Cpu0OK, Claimed
<1>6. ASSUME NEW d \in Aps, d # c
      PROVE  ApOK(d)'
  <2>1. cpu'[d] = cpu[d] /\ ApOK(d)
    BY <1>1, <1>2, <1>6, CpuNumbers
  <2>2. cpu[d].cur # None => cpu[d].cur \in PoolSlots
    BY <1>1, CpuNumbers, Fields
  <2>3. \A u \in PoolSlots : task[u].on = d => task'[u].on = d /\ done'[u] = done[u]
    BY <1>3, <1>6
  <2> QED BY <2>1, <2>2, <2>3 DEF ApOK
<1>7. Saved'
  <2> SUFFICES ASSUME NEW t \in PoolSlots, task'[t].st \in {"run", "blocked"},
                      \A d \in CpuSet : cpu'[d].cur # t
               PROVE  ctx'[t] = done'[t]
    BY DEF Saved
  <2>1. CASE task[t].on = c
    BY <1>3, <2>1, CpuNumbers DEF ApActs
  <2>2. CASE task[t].on # c
    <3>1. cpu[c].cur # t
      BY <1>1, <2>2, CpuNumbers DEF ApOK
    <3>2. \A d \in CpuSet : cpu[d].cur # t
      BY <1>2, <3>1
    <3> QED BY <1>1, <1>3, <2>2, <3>2 DEF Saved
  <2> QED BY <2>1, <2>2
<1> QED BY <1>2, <1>4, <1>5, <1>6, <1>7, Zenon DEF SchedInv

-----------------------------------------------------------------------------
\* One processor's record becomes r.
LEMMA Becomes ==
    ASSUME Types, NEW c \in CpuSet, NEW r \in Cpus, cpu' = [cpu EXCEPT ![c] = r]
    PROVE  /\ cpu' \in [CpuSet -> Cpus] /\ cpu'[c] = r
           /\ \A d \in CpuSet : d # c => cpu'[d] = cpu[d]
  BY DEF Types

\* Processor 0's record becomes r, which has the same task and registers.
LEMMA Moves ==
    ASSUME Types, NEW r \in Cpus, cpu' = [cpu EXCEPT ![0] = r],
           r.cur = cpu[0].cur, r.regs = cpu[0].regs, r.ipi = cpu[0].ipi
    PROVE  Cpu0Moves(r.mode, r.next)
  BY Becomes, CpuNumbers, Zenon DEF Cpu0Moves

\* A change of mode, and of mode and next.
LEMMA ModeMoves ==
    ASSUME Types, NEW m \in Modes, cpu' = [cpu EXCEPT ![0].mode = m]
    PROVE  Cpu0Moves(m, cpu[0].next)
<1> DEFINE r == [cpu[0] EXCEPT !.mode = m]
<1>1. cpu[0] \in Cpus
  BY CpuNumbers DEF Types
<1>2. /\ r \in Cpus /\ r.cur = cpu[0].cur /\ r.regs = cpu[0].regs /\ r.ipi = cpu[0].ipi
      /\ r.mode = m /\ r.next = cpu[0].next
  BY <1>1 DEF Cpus
<1>3. cpu' = [cpu EXCEPT ![0] = r]
  OBVIOUS
<1> HIDE DEF r
<1> QED BY <1>2, <1>3, Moves, Zenon

\* The pick and the claim of scheduler64_next_slot.
LEMMA NextSlotMoves ==
    ASSUME SchedInv, NEW m \in Modes, scheduler64_next_slot(m)
    PROVE  \E p \in PoolSlots :
               /\ task[p].st = "run" /\ task[p].on \in {None, 0}
               /\ task' = [task EXCEPT ![p].on = 0] /\ Cpu0Moves(m, p)
<1> DEFINE p == task_pick_locked(shared, 0)
           r == [cpu[0] EXCEPT !.mode = m, !.next = p]
<1>1. /\ smp64_running_slot(0) = shared /\ p \in PoolSlots /\ p # None
      /\ task[p].st = "run" /\ task[p].on \in {None, 0}
  BY PickLocked
<1>2. task' = [task EXCEPT ![p].on = 0] /\ cpu' = [cpu EXCEPT ![0].mode = m, ![0].next = p]
  BY <1>1, Zenon DEF scheduler64_next_slot
<1> HIDE DEF p
<1>3. cpu[0] \in Cpus /\ Types
  BY CpuNumbers DEF SchedInv, Types
<1>4. /\ r \in Cpus /\ r.cur = cpu[0].cur /\ r.regs = cpu[0].regs /\ r.ipi = cpu[0].ipi
      /\ r.mode = m /\ r.next = p
  BY <1>1, <1>3, Zenon DEF Cpus
<1>5. cpu' = [cpu EXCEPT ![0] = r]
  BY <1>2, <1>3, Zenon DEF Types
<1> HIDE DEF r
<1>6. Cpu0Moves(m, p)
  BY <1>3, <1>4, <1>5, Moves, Zenon
<1> QED BY <1>1, <1>2, <1>6, Zenon

\* A tick, a switch away from a parked task, and one away from a dead one.
LEMMA NextSlotInv ==
    ASSUME SchedInv, timer64_dispatch \/ scheduler64_switch \/ exit_switch
    PROVE  SchedInv'
<1>1. Types /\ OwnersOK /\ Cpu0OK /\ pending' \in BOOLEAN /\ shared' = shared /\ done' = done
  BY DEF SchedInv, Types, timer64_dispatch, scheduler64_switch, exit_switch
<1>2. smp64_running_slot(0) = shared
  BY PickLocked
<1>3. CASE timer64_dispatch
  <2>1. /\ ~Claimed /\ task[shared].st = "run" /\ ctx' = [ctx EXCEPT ![shared] = cpu[0].regs]
        /\ scheduler64_next_slot("tick")
    BY <1>1, <1>3 DEF timer64_dispatch, interrupt_save, Claimed, Cpu0OK
  <2>2. PICK p \in PoolSlots :
            /\ task[p].st = "run" /\ task[p].on \in {None, 0}
            /\ task' = [task EXCEPT ![p].on = 0] /\ Cpu0Moves("tick", p)
    BY <2>1, NextSlotMoves, Zenon DEF Modes
  <2> QED BY <1>1, <2>1, <2>2, ClaimInv, Zenon
<1>4. CASE scheduler64_switch
  <2>1. /\ ~Claimed /\ ctx' = [ctx EXCEPT ![shared] = cpu[0].regs] /\ scheduler64_next_slot("switch")
    BY <1>2, <1>4, Zenon DEF scheduler64_switch, interrupt_save, Claimed
  <2>2. PICK p \in PoolSlots :
            /\ task[p].st = "run" /\ task[p].on \in {None, 0}
            /\ task' = [task EXCEPT ![p].on = 0] /\ Cpu0Moves("switch", p)
    BY <2>1, NextSlotMoves, Zenon DEF Modes
  <2> QED BY <1>1, <2>1, <2>2, ClaimInv, Zenon
<1>5. CASE exit_switch
  <2>1. /\ ~Claimed /\ ctx' = ctx /\ task[shared].st \notin {"run", "blocked"}
        /\ scheduler64_next_slot("switch")
    BY <1>1, <1>5 DEF exit_switch, Claimed, Cpu0OK
  <2>2. PICK p \in PoolSlots :
            /\ task[p].st = "run" /\ task[p].on \in {None, 0}
            /\ task' = [task EXCEPT ![p].on = 0] /\ Cpu0Moves("switch", p)
    BY <2>1, NextSlotMoves, Zenon DEF Modes
  <2> QED BY <1>1, <2>1, <2>2, ClaimInv, Zenon
<1> QED BY <1>3, <1>4, <1>5

\* The last test of a device interrupt: a switch, or back to the task.
LEMMA PreemptInv ==
    ASSUME SchedInv, irq64_preempt
    PROVE  SchedInv'
<1> DEFINE p == task_pick_locked(shared, 0)
<1>1. Types /\ OwnersOK /\ Cpu0OK /\ cpu[0] \in Cpus /\ cpu[0].ipi = {} /\ cpu[0].mode = "irq"
  BY CpuNumbers DEF SchedInv, Types, Cpu0OK, irq64_preempt
<1>2. /\ smp64_running_slot(0) = shared /\ p \in PoolSlots /\ p # None
      /\ task[p].st = "run" /\ task[p].on \in {None, 0}
  BY PickLocked
<1>3. shared' = shared /\ done' = done /\ pending' \in BOOLEAN /\ ~Claimed /\ cpu[0].next = None
  BY <1>1 DEF irq64_preempt, Claimed, Cpu0OK
<1>4. CASE p = shared
  <2> DEFINE r == [cpu[0] EXCEPT !.mode = "user", !.ipi = {}]
  <2>1. cpu' = [cpu EXCEPT ![0] = r] /\ task' = task /\ ctx' = ctx
    BY <1>2, <1>4, Zenon DEF irq64_preempt
  <2>2. /\ r \in Cpus /\ r.cur = cpu[0].cur /\ r.regs = cpu[0].regs /\ r.ipi = cpu[0].ipi
        /\ r.mode = "user" /\ r.next = cpu[0].next
    BY <1>1, Zenon DEF Cpus, Modes
  <2> HIDE DEF r
  <2>3. Cpu0Moves("user", None)
    BY <1>1, <1>3, <2>1, <2>2, Moves, Zenon
  <2>4. Wakes({})
    BY <1>1, <2>1 DEF Wakes, Types
  <2> QED BY <1>1, <1>2, <1>3, <1>4, <2>1, <2>3, <2>4, WakesInv, Zenon
<1>5. CASE p # shared
  <2> DEFINE r == [cpu[0] EXCEPT !.mode = "switch", !.next = p, !.ipi = {}]
  <2>1. /\ cpu' = [cpu EXCEPT ![0] = r] /\ task' = [task EXCEPT ![p].on = 0]
        /\ ctx' = [ctx EXCEPT ![shared] = cpu[0].regs]
    BY <1>2, <1>5, Zenon DEF irq64_preempt, frame64_save_user
  <2> HIDE DEF p
  <2>2. /\ r \in Cpus /\ r.cur = cpu[0].cur /\ r.regs = cpu[0].regs /\ r.ipi = cpu[0].ipi
        /\ r.mode = "switch" /\ r.next = p
    BY <1>1, <1>2, Zenon DEF Cpus, Modes
  <2> HIDE DEF r
  <2>3. Cpu0Moves("switch", p)
    BY <1>1, <2>1, <2>2, Moves, Zenon
  <2> QED BY <1>2, <1>3, <2>1, <2>3, ClaimInv, Zenon
<1> QED BY <1>4, <1>5

-----------------------------------------------------------------------------
\* What a slot holds once its task has ended: a zombie, or nothing.
LEMMA EndedTask ==
    ASSUME Types, NEW t \in PoolSlots, NEW a,
           NEW x, x = IF a THEN Vacant ELSE [task[t] EXCEPT !.st = "zombie", !.on = None]
    PROVE  x \in Tasks /\ x.st \in {"free", "zombie"} /\ x.on = None
<1>1. Vacant \in Tasks /\ Vacant.st = "free" /\ Vacant.on = None
  BY DEF Vacant, Tasks, States
<1>2. task[t] \in Tasks
  BY DEF Types
<1>3. LET z == [task[t] EXCEPT !.st = "zombie", !.on = None]
      IN  z \in Tasks /\ z.st = "zombie" /\ z.on = None
  BY <1>2, Zenon DEF Tasks, States
<1> QED BY <1>1, <1>3, Zenon

\* An exit, a fault, a signal that kills, and a console character that does.
LEMMA CurrentEndsInv ==
    ASSUME SchedInv,
           \E a \in BOOLEAN : \/ exit64_dispatch(a) \/ user_fault(a) \/ SignalKills(a)
                              \/ Aps = {} /\ console64_rx_drain("kill", a)
    PROVE  SchedInv'
<1>1. PICK a \in BOOLEAN : \/ exit64_dispatch(a) \/ user_fault(a) \/ SignalKills(a)
                           \/ Aps = {} /\ console64_rx_drain("kill", a)
  OBVIOUS
<1> DEFINE x == IF a THEN Vacant ELSE [task[shared] EXCEPT !.st = "zombie", !.on = None]
           m == IF exit64_dispatch(a) \/ user_fault(a) \/ SignalKills(a) THEN "gone" ELSE "irq"
<1>2. Types /\ shared \in PoolSlots /\ pending \in BOOLEAN
  BY DEF SchedInv, Types
<1>3. x \in Tasks /\ x.st \in {"free", "zombie"} /\ x.on = None
  BY <1>2, EndedTask, Zenon
<1>4. /\ cpu[0].mode \in {"user", "ticked"} /\ shared # 0 /\ shared' = shared /\ done' = done
      /\ cpu' = [cpu EXCEPT ![0].mode = m] /\ m \in Modes
      /\ \/ m = "gone" /\ pending' = pending
         \/ m = "irq" /\ pending' = TRUE /\ Aps = {}
  <2>1. CASE exit64_dispatch(a) \/ user_fault(a) \/ SignalKills(a)
    BY <2>1 DEF exit64_dispatch, user_fault, SignalKills, Modes
  <2>2. CASE ~(exit64_dispatch(a) \/ user_fault(a) \/ SignalKills(a))
    BY <1>1, <2>2 DEF console64_rx_drain, Modes
  <2> QED BY <2>1, <2>2, Zenon
<1>5. task' = [task EXCEPT ![shared] = x]
  <2>1. CASE user_fault(a)
    BY <2>1, Zenon DEF user_fault
  <2>2. CASE ~user_fault(a)
    <3>1. terminate64(shared, a)
      BY <1>1, <2>2, Zenon DEF exit64_dispatch, SignalKills, console64_rx_drain
    <3> QED BY <3>1, Zenon DEF terminate64
  <2> QED BY <2>1, <2>2
<1>6. ctx' = ctx \/ \E k \in Int : ctx' = [ctx EXCEPT ![shared] = k]
  <2>1. cpu[0].regs \in Int /\ 0 \in Int
    BY <1>2, Fields, CpuNumbers
  <2>2. CASE user_fault(a)
    BY <2>1, <2>2, Zenon DEF user_fault, frame64_save_user
  <2>3. CASE ~user_fault(a)
    <3>1. terminate64(shared, a)
      BY <1>1, <2>3, Zenon DEF exit64_dispatch, SignalKills, console64_rx_drain
    <3> QED BY <2>1, <3>1, Zenon DEF terminate64
  <2> QED BY <2>2, <2>3
<1> HIDE DEF x, m
<1>7. cpu[0].next = None
  BY <1>4 DEF SchedInv, Cpu0OK, Claimed
<1>8. Cpu0Moves(m, None)
  BY <1>2, <1>4, <1>7, ModeMoves, Zenon
<1>9. /\ pending' \in BOOLEAN
      /\ (m = "gone" /\ x.st # "blocked") \/ (m = "irq" /\ pending' /\ Aps = {})
  BY <1>2, <1>3, <1>4, Zenon
<1>10. ctx' = ctx \/ \E k \in Int : ctx' = [ctx EXCEPT ![shared] = k] /\ x.st # "blocked"
  BY <1>3, <1>6
<1> QED BY <1>3, <1>4, <1>5, <1>8, <1>9, <1>10, CurrentInv, Zenon

\* A task parks in a system call, or a console character stops it.
LEMMA CurrentStopsInv ==
    ASSUME SchedInv,
           task_wait_park \/ \E a \in BOOLEAN : Aps = {} /\ console64_rx_drain("stop", a)
    PROVE  SchedInv'
<1> DEFINE x == [task[shared] EXCEPT !.st = "blocked"]
           m == IF task_wait_park THEN "parked" ELSE "irq"
<1>1. Types /\ shared \in PoolSlots /\ pending \in BOOLEAN /\ task[shared] \in Tasks
  BY DEF SchedInv, Types
<1>2. /\ cpu[0].mode = "user" /\ shared # 0 /\ shared' = shared /\ done' = done /\ ctx' = ctx
      /\ cpu' = [cpu EXCEPT ![0].mode = m] /\ m \in Modes
      /\ task' = [task EXCEPT ![shared].st = "blocked"]
      /\ \/ m = "parked" /\ pending' = pending
         \/ m = "irq" /\ pending' = TRUE /\ Aps = {}
  <2>1. CASE task_wait_park
    BY <2>1 DEF task_wait_park, Modes
  <2>2. CASE ~task_wait_park
    BY <2>2 DEF console64_rx_drain, Modes
  <2> QED BY <2>1, <2>2, Zenon
<1>3. task[shared].on = 0 /\ cpu[0].next = None
  BY <1>2 DEF SchedInv, Cpu0OK, Claimed
<1>4. x \in Tasks /\ x.st = "blocked" /\ x.on = 0
  BY <1>1, <1>3 DEF Tasks, States
<1>5. task' = [task EXCEPT ![shared] = x]
  BY <1>2
<1> HIDE DEF x, m
<1>6. Cpu0Moves(m, None)
  BY <1>1, <1>2, <1>3, ModeMoves, Zenon
<1>7. /\ pending' \in BOOLEAN
      /\ (m = "parked" /\ x.st = "blocked") \/ (m = "irq" /\ pending' /\ Aps = {})
  BY <1>1, <1>2, <1>4, Zenon
<1> QED BY <1>2, <1>4, <1>5, <1>6, <1>7, CurrentInv, Zenon

\* Ticks, interrupts and calls wake blocked tasks; an interrupt that woke none
\* returns.
LEMMA WakingInv ==
    ASSUME SchedInv,
           \/ \E W \in SUBSET PoolSlots : ticks(W) \/ irq64_dispatch(W)
           \/ \E t \in PoolSlots : WakeOther(t)
           \/ irq64_return
    PROVE  SchedInv'
<1>1. Types /\ Cpu0OK /\ pending \in BOOLEAN /\ cpu[0] \in Cpus
  BY CpuNumbers DEF SchedInv, Types
<1>2. ASSUME cpu[0].mode \in {"user", "ticked"} \/ (cpu[0].mode = "irq" /\ ~pending)
      PROVE  task[shared].st = "run" /\ cpu[0].next = None
  BY <1>1, <1>2 DEF Cpu0OK, Claimed
<1>3. ASSUME NEW W \in SUBSET PoolSlots, ticks(W) \/ irq64_dispatch(W) PROVE SchedInv'
  <2> DEFINE m == IF ticks(W) THEN "user" ELSE "irq"
  <2>1. /\ cpu[0].mode \in {"user", "ticked"} /\ Wakes(W) /\ cpu' = [cpu EXCEPT ![0].mode = m]
        /\ m \in {"user", "irq"} /\ m \in Modes
        /\ ctx' = ctx /\ done' = done /\ shared' = shared /\ pending' \in BOOLEAN
    <3>1. CASE ticks(W)
      BY <1>1, <3>1 DEF ticks, Modes
    <3>2. CASE ~ticks(W)
      BY <1>1, <1>3, <3>2, Zenon DEF irq64_dispatch, Modes
    <3> QED BY <3>1, <3>2
  <2> HIDE DEF m
  <2>2. Cpu0Moves(m, None)
    BY <1>1, <1>2, <2>1, ModeMoves, Zenon
  <2> QED BY <1>2, <2>1, <2>2, WakesInv
<1>4. ASSUME NEW t \in PoolSlots, WakeOther(t) PROVE SchedInv'
  <2>1. /\ cpu[0].mode = "user" /\ task[t].st = "blocked" /\ task' = [task EXCEPT ![t].st = "run"]
        /\ pending' = TRUE /\ cpu' = cpu /\ ctx' = ctx /\ done' = done /\ shared' = shared
    BY <1>4 DEF WakeOther
  <2>2. Cpu0Moves("user", None)
    BY <1>1, <1>2, <2>1 DEF Cpu0Moves, Types
  <2>3. Wakes({t})
    BY <1>1, <2>1, Zenon DEF Wakes, Types
  <2> QED BY <1>2, <2>1, <2>2, <2>3, WakesInv
<1>5. CASE irq64_return
  <2>1. /\ cpu[0].mode = "irq" /\ ~pending /\ cpu' = [cpu EXCEPT ![0].mode = "user"]
        /\ task' = task /\ pending' = pending /\ ctx' = ctx /\ done' = done /\ shared' = shared
    BY <1>5 DEF irq64_return
  <2>2. Cpu0Moves("user", None)
    BY <1>1, <1>2, <2>1, ModeMoves DEF Modes
  <2>3. Wakes({})
    BY <1>1, <2>1 DEF Wakes, Types
  <2> QED BY <1>1, <1>2, <2>1, <2>2, <2>3, WakesInv
<1> QED BY <1>3, <1>4, <1>5

\* A zombie is reaped, or a task of the queue is killed.
LEMMA OtherEnds ==
    ASSUME SchedInv, NEW t \in PoolSlots,
           task_free_slot(t) \/ \E a \in BOOLEAN : Aps = {} /\ Kill(t, a)
    PROVE  SchedInv'
<1>1. Types /\ OwnersOK
  BY DEF SchedInv
<1>2. CASE task_free_slot(t)
  <2>1. /\ cpu[0].mode = "user" /\ task[t].st = "zombie" /\ t # shared
        /\ task' = [task EXCEPT ![t] = Vacant] /\ ctx' = [ctx EXCEPT ![t] = 0]
        /\ UNCHANGED <<cpu, shared, pending, done>>
    BY <1>2 DEF task_free_slot
  <2>2. Vacant \in Tasks /\ Vacant.st \in {"free", "zombie"} /\ Vacant.on = None
    BY DEF Vacant, Tasks, States
  <2>3. t # 0 /\ task[t].on \notin Aps
    BY <1>1, <2>1, CpuNumbers DEF OwnersOK
  <2> QED BY <2>1, <2>2, <2>3, OtherEndsInv, Zenon
<1>3. ASSUME NEW a \in BOOLEAN, Aps = {}, Kill(t, a) PROVE SchedInv'
  <2> DEFINE x == IF a THEN Vacant ELSE [task[t] EXCEPT !.st = "zombie", !.on = None]
  <2>1. /\ cpu[0].mode = "user" /\ t # 0 /\ t # shared /\ terminate64(t, a)
        /\ UNCHANGED <<cpu, shared, pending, done>>
    BY <1>3 DEF Kill
  <2>2. task' = [task EXCEPT ![t] = x] /\ (ctx' = ctx \/ ctx' = [ctx EXCEPT ![t] = 0])
    BY <2>1, Zenon DEF terminate64
  <2>3. x \in Tasks /\ x.st \in {"free", "zombie"} /\ x.on = None
    BY <1>1, EndedTask, Zenon
  <2> HIDE DEF x
  <2>4. task[t].on \notin Aps
    BY <1>3
  <2> QED BY <2>1, <2>2, <2>3, <2>4, OtherEndsInv, Zenon
<1> QED BY <1>2, <1>3

\* The task processor 0 runs makes progress.
LEMMA User0Inv ==
    ASSUME SchedInv, User(0)
    PROVE  SchedInv'
<1> DEFINE m == (cpu[0].regs + 1) % Marks
           r == [cpu[0] EXCEPT !.regs = m]
<1>1. Types /\ OwnersOK /\ Cpu0OK /\ Saved /\ cpu[0] \in Cpus /\ shared \in PoolSlots
  BY CpuNumbers DEF SchedInv, Types
<1>2. cpu[0].mode = "user" /\ cpu[0].cur = shared /\ task[shared].on = 0 /\ cpu[0].next = None
  BY <1>1 DEF User, Cpu0OK, Claimed
<1>3. m \in Int
  <2>1. cpu[0].regs \in Int
    BY <1>1, Fields, CpuNumbers
  <2> QED BY <2>1, SchedulerAssumption
<1>4. /\ cpu' = [cpu EXCEPT ![0] = r] /\ done' = [done EXCEPT ![shared] = m]
      /\ UNCHANGED <<task, ctx, shared, pending>>
  BY <1>2, Zenon DEF User
<1> HIDE DEF m
<1>5. /\ r \in Cpus /\ r.cur = shared /\ r.regs = m /\ r.mode = "user" /\ r.next = None
      /\ r.ipi = cpu[0].ipi
  BY <1>1, <1>2, <1>3, Zenon DEF Cpus
<1> HIDE DEF r
<1>6. cpu' \in [CpuSet -> Cpus] /\ cpu'[0] = r /\ \A c \in Aps : cpu'[c] = cpu[c]
  BY <1>1, <1>4, <1>5, Becomes, CpuNumbers, Zenon
<1>7. /\ done' \in [PoolSlots -> Int] /\ done'[shared] = m
      /\ \A t \in PoolSlots : t # shared => done'[t] = done[t]
  BY <1>1, <1>3, <1>4 DEF Types
<1>8. Types'
  BY <1>1, <1>4, <1>6, <1>7 DEF Types
<1>9. OwnersOK'
  BY <1>1, <1>2, <1>4, <1>5, <1>6 DEF OwnersOK
<1>10. Cpu0OK'
  BY <1>1, <1>2, <1>4, <1>5, <1>6, <1>7 DEF Cpu0OK, Claimed
<1>11. ApsUntouched
  BY <1>2, <1>4, <1>6, <1>7, CpuNumbers DEF ApsUntouched
<1>12. Saved'
  <2> SUFFICES ASSUME NEW t \in PoolSlots, task[t].st \in {"run", "blocked"},
                      \A c \in CpuSet : cpu'[c].cur # t
               PROVE  ctx[t] = done'[t]
    BY <1>4 DEF Saved
  <2>1. (\A c \in CpuSet : cpu[c].cur # t) /\ t # shared
    BY <1>2, <1>5, <1>6, CpuNumbers
  <2> QED BY <1>1, <1>7, <2>1 DEF Saved
<1> QED BY <1>8, <1>9, <1>10, <1>11, <1>12, ApsStay DEF SchedInv

\* The slot allocated is free and not the idle task's.
LEMMA AllocIsFree ==
    ASSUME Free # {}
    PROVE  task_alloc_slot \in PoolSlots /\ task[task_alloc_slot].st = "free"
<1>1. Free \in SUBSET Nat
  BY SchedulerAssumption DEF Free, PoolSlots
<1>2. \E o \in Free : \A p \in Free : o <= p
  BY <1>1, LeastOf
<1>3. task_alloc_slot \in Free
  BY <1>2, Zenon DEF task_alloc_slot
<1> QED BY <1>3, Zenon DEF Free

\* A spawned task waits in the shared queue.
LEMMA SpawnInv ==
    ASSUME SchedInv, create_task
    PROVE  SchedInv'
<1> DEFINE n == task_alloc_slot
           x == [st |-> "run", on |-> None, idle |-> FALSE]
<1>1. n \in PoolSlots /\ task[n].st = "free" /\ cpu[0].mode = "user"
  BY AllocIsFree DEF create_task
<1>2. /\ task' = [task EXCEPT ![n] = x] /\ ctx' = [ctx EXCEPT ![n] = 0] /\ done' = [done EXCEPT ![n] = 0]
      /\ cpu' = cpu /\ UNCHANGED <<shared, pending>>
  BY Zenon DEF create_task
<1>3. x \in Tasks /\ x.st = "run" /\ x.on = None
  BY DEF Tasks, States
<1>4. None \in Aps \cup {None} /\ None \notin Aps
  BY CpuNumbers
<1> HIDE DEF n, x
<1>5. 0 \in Int /\ (0 = 0 \/ (None \in Aps /\ cpu'[None].cur = n))
  OBVIOUS
<1> QED BY <1>1, <1>2, <1>3, <1>4, <1>5, NewTaskInv, Zenon

\* A task pinned to a processor is found by the IPI that was sent for it.
LEMMA PinTaskInv ==
    ASSUME SchedInv, NEW c \in Aps, smp64_pin_task(c)
    PROVE  SchedInv'
<1> DEFINE n == task_alloc_slot
           x == [st |-> "run", on |-> c, idle |-> FALSE]
           r == [cpu[c] EXCEPT !.ipi = @ \cup {"resched"}]
<1>1. n \in PoolSlots /\ task[n].st = "free" /\ cpu[0].mode = "user" /\ "user" \notin cpu[c].ipi
  BY AllocIsFree DEF smp64_pin_task
<1>2. /\ task' = [task EXCEPT ![n] = x] /\ ctx' = [ctx EXCEPT ![n] = 0] /\ done' = [done EXCEPT ![n] = 0]
      /\ cpu' = [cpu EXCEPT ![c] = r] /\ UNCHANGED <<shared, pending>>
  BY Zenon DEF smp64_pin_task
<1>3. /\ Types /\ OwnersOK /\ ApOK(c) /\ c \in CpuSet /\ c # None /\ cpu[c] \in Cpus
  BY CpuNumbers DEF SchedInv, Types
<1>4. x \in Tasks /\ x.st = "run" /\ x.on = c
  BY <1>3 DEF Tasks, States
<1>5. /\ r \in Cpus /\ r.cur = cpu[c].cur /\ r.mode = cpu[c].mode /\ r.regs = cpu[c].regs
      /\ "user" \in r.ipi <=> "user" \in cpu[c].ipi
  BY <1>3 DEF Cpus
<1> HIDE DEF n, x, r
<1>6. cpu' \in [CpuSet -> Cpus] /\ cpu'[c] = r /\ \A d \in CpuSet : d # c => cpu'[d] = cpu[d]
  BY <1>2, <1>3, <1>5, Becomes, Zenon
<1>7. Arms(c, n)
  BY <1>5, <1>6 DEF Arms
<1>8. /\ task'[n] = x /\ \A u \in PoolSlots : u # n => task'[u] = task[u] /\ done'[u] = done[u]
  BY <1>1, <1>2, <1>3 DEF Types
<1>9. cpu[c].cur # None => cpu[c].cur # n /\ cpu[c].cur \in PoolSlots
  BY <1>1, <1>3, Fields DEF OwnersOK, ApOK
<1>10. ApOK(c)'
  BY <1>1, <1>3, <1>4, <1>5, <1>6, <1>8, <1>9 DEF ApOK
<1>11. 0 \in Int /\ (0 = 0 \/ (c \in Aps /\ cpu'[c].cur = n))
  OBVIOUS
<1> QED BY <1>1, <1>2, <1>3, <1>4, <1>7, <1>10, <1>11, NewTaskInv, Zenon

\* An idle task armed on a processor that halts waits for the IPI that enters it.
LEMMA HostStartInv ==
    ASSUME SchedInv, NEW c \in Aps, smp64_host_start(c)
    PROVE  SchedInv'
<1> DEFINE n == task_alloc_slot
           x == [st |-> "run", on |-> c, idle |-> TRUE]
           r == [cpu[c] EXCEPT !.cur = n, !.ipi = cpu[c].ipi \cup {"user"}]
<1>1. /\ n \in PoolSlots /\ task[n].st = "free" /\ cpu[0].mode = "user"
      /\ cpu[c].mode = "hlt" /\ cpu[c].cur = None /\ \A t \in PoolSlots : task[t].on # c
  BY AllocIsFree DEF smp64_host_start
<1>2. /\ task' = [task EXCEPT ![n] = x] /\ ctx' = [ctx EXCEPT ![n] = Unset] /\ done' = [done EXCEPT ![n] = 0]
      /\ cpu' = [cpu EXCEPT ![c] = r] /\ UNCHANGED <<shared, pending>>
  BY Zenon DEF smp64_host_start
<1>3. /\ Types /\ ApOK(c) /\ c \in CpuSet /\ c # None /\ cpu[c] \in Cpus /\ Unset \in Int
  BY CpuNumbers DEF SchedInv, Types, Unset
<1>4. x \in Tasks /\ x.st = "run" /\ x.on = c
  BY <1>3 DEF Tasks, States
<1>5. /\ r \in Cpus /\ r.cur = n /\ r.mode = "hlt" /\ r.ipi = cpu[c].ipi \cup {"user"} /\ n # None
  BY <1>1, <1>3, CpuNumbers, Zenon DEF Cpus
<1> HIDE DEF n, x, r
<1>6. cpu' \in [CpuSet -> Cpus] /\ cpu'[c] = r /\ \A d \in CpuSet : d # c => cpu'[d] = cpu[d]
  BY <1>2, <1>3, <1>5, Becomes, Zenon
<1>7. Arms(c, n)
  BY <1>1, <1>5, <1>6 DEF Arms
<1>8. task'[n] = x /\ done'[n] = 0
  BY <1>1, <1>2, <1>3 DEF Types
<1>9. "resched" \notin cpu[c].ipi
  BY <1>1, <1>3 DEF ApOK
<1>10. ApOK(c)'
  BY <1>4, <1>5, <1>6, <1>8, <1>9 DEF ApOK
<1>11. Unset = 0 \/ (c \in Aps /\ cpu'[c].cur = n)
  BY <1>5, <1>6
<1> QED BY <1>1, <1>2, <1>3, <1>4, <1>7, <1>10, <1>11, NewTaskInv, Zenon

-----------------------------------------------------------------------------
\* The pick among the pinned tasks finds one whenever there is one.
LEMMA PickPinned ==
    ASSUME SchedInv, NEW c \in Aps, NEW from \in PoolSlots
    PROVE  \/ task_pick_pinned(c, from) = None /\ \A t \in PoolSlots : task[t].on # c
           \/ /\ task_pick_pinned(c, from) \in PoolSlots
              /\ task[task_pick_pinned(c, from)].on = c
<1> DEFINE S == {t \in PoolSlots : task[t].st = "run" /\ task[t].on = c}
<1>1. /\ S \in SUBSET PoolSlots /\ task_pick_pinned(c, from) = RoundRobin(from, S)
  BY DEF task_pick_pinned
<1>2. (S = {} => RoundRobin(from, S) = None) /\ (S # {} => RoundRobin(from, S) \in S)
  BY <1>1, RoundRobinPicks, Zenon
<1>3. \A t \in PoolSlots : task[t].on = c => t \in S
  BY DEF SchedInv, OwnersOK
<1> QED BY <1>1, <1>2, <1>3, Zenon

\* A processor that runs, or is armed, has a task of its own, and what is saved
\* for the others pinned to it is where they stopped.
LEMMA PinnedSaved ==
    ASSUME SchedInv, NEW c \in Aps
    PROVE  /\ cpu[c].cur # None => /\ cpu[c].cur \in PoolSlots /\ task[cpu[c].cur].on = c
                                   /\ task[cpu[c].cur].st = "run"
                                   /\ cpu[c].cur # shared
           /\ \A t \in PoolSlots : task[t].on = c => task[t].st = "run"
           /\ \A t \in PoolSlots : task[t].on = c /\ t # cpu[c].cur => ctx[t] = done[t]
<1>1. Types /\ OwnersOK /\ Cpu0OK /\ Saved /\ \A d \in Aps : ApOK(d)
  BY DEF SchedInv
<1>2. \A d \in CpuSet : cpu[d].cur \in PoolSlots \cup {None}
  BY <1>1, Fields
<1>3. \A t \in PoolSlots : task[t].on = c => task[t].st = "run"
  BY <1>1 DEF OwnersOK
<1>4. ASSUME cpu[c].cur # None
      PROVE  /\ cpu[c].cur \in PoolSlots /\ task[cpu[c].cur].on = c /\ cpu[c].cur # shared
  <2>1. cpu[c].cur \in PoolSlots /\ task[cpu[c].cur].on = c
    BY <1>1, <1>2, <1>4, CpuNumbers DEF ApOK
  <2> QED BY <1>1, <2>1, CpuNumbers DEF Cpu0OK
<1>5. ASSUME NEW t \in PoolSlots, task[t].on = c, t # cpu[c].cur
      PROVE  ctx[t] = done[t]
  <2>1. ASSUME NEW d \in CpuSet PROVE cpu[d].cur # t
    <3>1. CASE d = 0
      BY <1>1, <1>5, <3>1, CpuNumbers DEF Cpu0OK
    <3>2. CASE d = c
      BY <1>5, <3>2
    <3>3. CASE d \in Aps /\ d # c
      BY <1>1, <1>5, <3>3, CpuNumbers DEF ApOK
    <3> QED BY <3>1, <3>2, <3>3, CpuNumbers
  <2> QED BY <1>1, <1>3, <1>5, <2>1 DEF Saved
<1> QED BY <1>3, <1>4, <1>5

\* A step of processor c that changes no task and no progress.
LEMMA PinnedStep ==
    ASSUME SchedInv, NEW c \in Aps, NEW r \in Cpus,
           cpu' = [cpu EXCEPT ![c] = r], UNCHANGED <<task, shared, done>>, pending' \in BOOLEAN,
           \/ ctx' = ctx /\ (r.cur = cpu[c].cur \/ cpu[c].cur = None)
           \/ cpu[c].mode = "user" /\ ctx' = [ctx EXCEPT ![cpu[c].cur] = cpu[c].regs],
           ApOK(c)'
    PROVE  SchedInv'
<1>1. Types /\ ApOK(c) /\ c \in CpuSet /\ cpu[c] \in Cpus /\ cpu[c].regs \in Int
  BY CpuNumbers, Fields DEF SchedInv, Types
<1>2. cpu' \in [CpuSet -> Cpus] /\ cpu'[c] = r /\ \A d \in CpuSet : d # c => cpu'[d] = cpu[d]
  BY <1>1, Becomes, Zenon
<1>3. /\ ctx' \in [PoolSlots -> Int]
      /\ \A t \in PoolSlots : ctx'[t] = ctx[t] \/ (t = cpu[c].cur /\ task[t].on = c /\ ctx'[t] = done[t])
      /\ \A t \in PoolSlots : t = cpu[c].cur => ctx'[t] = done[t] \/ r.cur = t
  <2>1. CASE ctx' = ctx /\ (r.cur = cpu[c].cur \/ cpu[c].cur = None)
    BY <1>1, <2>1, CpuNumbers DEF Types
  <2>2. CASE cpu[c].mode = "user" /\ ctx' = [ctx EXCEPT ![cpu[c].cur] = cpu[c].regs]
    <3>1. cpu[c].regs = done[cpu[c].cur] /\ cpu[c].cur # None
      BY <1>1, <2>2 DEF ApOK
    <3>2. cpu[c].cur \in PoolSlots /\ task[cpu[c].cur].on = c
      BY <3>1, PinnedSaved
    <3> QED BY <1>1, <2>2, <3>1, <3>2 DEF Types
  <2> QED BY <2>1, <2>2
<1>4. Types'
  BY <1>1, <1>2, <1>3 DEF Types
<1>5. ASSUME NEW t \in PoolSlots
      PROVE  /\ task[t].on # c => task'[t] = task[t] /\ ctx'[t] = ctx[t] /\ done'[t] = done[t]
             /\ task[t].on = c => task'[t].on = c /\ task'[t].st = "run"
             /\ task[t].on = c /\ task'[t].st = "run" /\ cpu'[c].cur # t => ctx'[t] = done'[t]
  BY <1>2, <1>3, PinnedSaved
<1>6. ApActs(c)
  BY <1>2, <1>4, <1>5 DEF ApActs
<1> QED BY <1>6, ApActsInv

\* An IPI of the kernel is sent, or taken; the one that enters the armed idle
\* task finds it.
LEMMA IpiInv ==
    ASSUME SchedInv, NEW c \in Aps,
           \/ \E v \in {"timer", "net"} : smp64_ipi_cpu(c, v)
           \/ \E v \in {"timer", "user", "net"} : smp64_ipi_dispatch(c, v)
    PROVE  SchedInv'
<1>1. /\ ApOK(c) /\ cpu[c] \in Cpus /\ pending \in BOOLEAN
      /\ cpu[c].cur \in PoolSlots \cup {None} /\ cpu[c].ipi \subseteq {"resched", "user", "timer", "net"}
      /\ cpu \in [CpuSet -> Cpus] /\ c \in CpuSet
  BY CpuNumbers, Fields DEF SchedInv, Types, Cpus
<1>2. ASSUME NEW v \in {"timer", "net"}, smp64_ipi_cpu(c, v) PROVE SchedInv'
  <2> DEFINE r == [cpu[c] EXCEPT !.ipi = cpu[c].ipi \cup {v}]
  <2>1. cpu' = [cpu EXCEPT ![c] = r] /\ UNCHANGED <<task, ctx, shared, pending, done>>
    BY <1>2, Zenon DEF smp64_ipi_cpu
  <2>2. /\ r \in Cpus /\ r.cur = cpu[c].cur /\ r.mode = cpu[c].mode /\ r.regs = cpu[c].regs
        /\ r.ipi = cpu[c].ipi \cup {v}
    BY <1>1 DEF Cpus
  <2> HIDE DEF r
  <2>3. cpu'[c] = r
    BY <1>1, <2>1, <2>2, Becomes, Zenon
  <2>4. ApOK(c)'
    BY <1>1, <2>1, <2>2, <2>3 DEF ApOK
  <2> QED BY <1>1, <2>1, <2>2, <2>4, PinnedStep, Zenon
<1>3. ASSUME NEW v \in {"timer", "net"}, smp64_ipi_dispatch(c, v) PROVE SchedInv'
  <2> DEFINE r == [cpu[c] EXCEPT !.timer = IF v = "timer" THEN ~cpu[c].timer ELSE cpu[c].timer,
                                 !.ipi = cpu[c].ipi \ {v}]
  <2>1. cpu' = [cpu EXCEPT ![c] = r] /\ UNCHANGED <<task, ctx, shared, done>> /\ pending' = FALSE
    <3>1. CASE v = "timer"
      BY <1>3, <3>1 DEF smp64_ipi_dispatch
    <3>2. CASE v = "net"
      BY <1>1, <1>3, <3>2, Zenon DEF smp64_ipi_dispatch, Cpus
    <3> QED BY <3>1, <3>2, Zenon
  <2>2. /\ r \in Cpus /\ r.cur = cpu[c].cur /\ r.mode = cpu[c].mode /\ r.regs = cpu[c].regs
        /\ r.ipi = cpu[c].ipi \ {v}
    BY <1>1, Zenon DEF Cpus
  <2> HIDE DEF r
  <2>3. cpu'[c] = r
    BY <1>1, <2>1, <2>2, Becomes, Zenon
  <2>4. ApOK(c)'
    BY <1>1, <2>1, <2>2, <2>3 DEF ApOK
  <2> QED BY <1>1, <2>1, <2>2, <2>4, PinnedStep, Zenon
<1>4. CASE smp64_ipi_dispatch(c, "user")
  <2> DEFINE r == [cpu[c] EXCEPT !.mode = "user", !.regs = 0, !.ipi = cpu[c].ipi \ {"user"}]
  <2>1. Interruptible(c) /\ "user" \in cpu[c].ipi
    BY <1>4 DEF smp64_ipi_dispatch
  <2>2. cpu[c].cur # None /\ done[cpu[c].cur] = 0
    BY <1>1, <2>1 DEF ApOK, Interruptible
  <2>3. cpu' = [cpu EXCEPT ![c] = r] /\ UNCHANGED <<task, ctx, shared, done>> /\ pending' = FALSE
    BY <1>4, <2>2 DEF smp64_ipi_dispatch
  <2>4. /\ r \in Cpus /\ r.cur = cpu[c].cur /\ r.mode = "user" /\ r.regs = 0
        /\ r.ipi = cpu[c].ipi \ {"user"}
    <3>1. 0 \in Int /\ "user" \in Modes
      BY DEF Modes
    <3> QED BY <1>1, <3>1, Zenon DEF Cpus
  <2> HIDE DEF r
  <2>5. cpu'[c] = r
    BY <1>1, <2>3, <2>4, Becomes, Zenon
  <2>6. ApOK(c)'
    BY <1>1, <2>2, <2>3, <2>4, <2>5 DEF ApOK
  <2> QED BY <2>3, <2>4, <2>6, PinnedStep, Zenon
<1> QED BY <1>2, <1>3, <1>4

\* A tick of another processor rotates the tasks pinned to it.
LEMMA ApTickInv ==
    ASSUME SchedInv, NEW c \in Aps, ap64_timer_preempt(c)
    PROVE  SchedInv'
<1> DEFINE s == cpu[c].cur
           p == smp64_pick_next(c, s)
           r == IF p = s THEN cpu[c] ELSE interrupt_load(cpu[c], p)
<1>1. /\ ApOK(c) /\ cpu[c] \in Cpus /\ pending \in BOOLEAN /\ c \in CpuSet
      /\ cpu \in [CpuSet -> Cpus] /\ ctx \in [PoolSlots -> Int]
  BY CpuNumbers DEF SchedInv, Types
<1>2. cpu[c].mode = "user" /\ s # None /\ cpu[c].regs = done[s] /\ "user" \notin cpu[c].ipi
  BY <1>1 DEF ap64_timer_preempt, ApOK
<1>3. s \in PoolSlots /\ task[s].on = c
  BY <1>2, PinnedSaved
<1>4. /\ ctx' = [ctx EXCEPT ![s] = cpu[c].regs] /\ UNCHANGED <<task, shared, pending, done>>
      /\ cpu' = IF p = s THEN cpu ELSE [cpu EXCEPT ![c] = interrupt_load(@, p)]
  BY <1>2, Zenon DEF ap64_timer_preempt, smp64_running_slot, interrupt_save
<1>5. p \in PoolSlots /\ task[p].on = c
  BY <1>3, PickPinned DEF smp64_pick_next
<1>6. p # s => ctx[p] = done[p]
  BY <1>5, PinnedSaved
<1> HIDE DEF p
<1>7. cpu' = [cpu EXCEPT ![c] = r]
  BY <1>1, <1>4, Zenon DEF interrupt_load
<1>8. /\ r \in Cpus /\ r.cur = p /\ r.mode = "user" /\ r.regs = done[p] /\ r.ipi = cpu[c].ipi
  <2>1. CASE p = s
    BY <1>1, <1>2, <2>1
  <2>2. CASE p # s
    BY <1>1, <1>2, <1>5, <1>6, <2>2, Zenon DEF interrupt_load, Cpus
  <2> QED BY <2>1, <2>2
<1> HIDE DEF r
<1>9. cpu'[c] = r
  BY <1>1, <1>7, <1>8, Becomes, Zenon
<1>10. ApOK(c)'
  BY <1>2, <1>4, <1>5, <1>8, <1>9, CpuNumbers DEF ApOK
<1> QED BY <1>1, <1>2, <1>4, <1>7, <1>8, <1>10, PinnedStep, Zenon

\* A reschedule IPI enters a pinned task, or rotates them.
LEMMA ReschedInv ==
    ASSUME SchedInv, NEW c \in Aps, ap64_resched(c)
    PROVE  SchedInv'
<1> DEFINE s == cpu[c].cur
           rest == cpu[c].ipi \ {"resched"}
<1>1. /\ ApOK(c) /\ cpu[c] \in Cpus /\ c \in CpuSet /\ cpu[c].ipi \subseteq {"resched", "user", "timer", "net"}
      /\ cpu \in [CpuSet -> Cpus] /\ ctx \in [PoolSlots -> Int]
  BY CpuNumbers, Fields DEF SchedInv, Types, Cpus
<1>2. Interruptible(c) /\ "resched" \in cpu[c].ipi /\ UNCHANGED <<task, shared, done>> /\ pending' = FALSE
  BY DEF ap64_resched
<1>3. CASE cpu[c].mode = "hlt"
  <2> DEFINE p == task_pick_pinned(c, 0)
             r == [frame64_load_user(cpu[c], p) EXCEPT !.ipi = rest]
  <2>1. s = None /\ "user" \notin cpu[c].ipi /\ \E t \in PoolSlots : task[t].on = c
    BY <1>1, <1>2, <1>3 DEF ApOK
  <2>2. p \in PoolSlots /\ task[p].on = c /\ p # None
    BY <2>1, PickPinned, CpuNumbers
  <2>3. ctx[p] = done[p]
    BY <2>1, <2>2, PinnedSaved
  <2>4. EnterPinned(c, rest, "hlt") /\ ctx' = ctx
    BY <1>3 DEF ap64_resched
  <2>5. cpu' = [cpu EXCEPT ![c] = r]
    BY <2>2, <2>4 DEF EnterPinned
  <2> HIDE DEF p
  <2>6. r \in Cpus /\ r.cur = p /\ r.mode = "user" /\ r.regs = done[p] /\ r.ipi = rest
    BY <1>1, <2>2, <2>3, Zenon DEF frame64_load_user, Cpus, Modes
  <2> HIDE DEF r
  <2>7. cpu'[c] = r
    BY <1>1, <2>5, <2>6, Becomes, Zenon
  <2>8. ApOK(c)'
    BY <1>2, <2>1, <2>2, <2>6, <2>7 DEF ApOK
  <2> QED BY <1>2, <2>1, <2>4, <2>5, <2>6, <2>8, PinnedStep, Zenon
<1>4. CASE cpu[c].mode = "user"
  <2> DEFINE p == smp64_pick_next(c, s)
             q == IF p = s THEN cpu[c] ELSE frame64_load_user(cpu[c], p)
             r == [q EXCEPT !.ipi = rest]
  <2>1. s # None /\ cpu[c].regs = done[s] /\ "user" \notin cpu[c].ipi
    BY <1>1, <1>4 DEF ApOK
  <2>2. s \in PoolSlots /\ task[s].on = c /\ s # shared
    BY <2>1, PinnedSaved
  <2>3. p \in PoolSlots /\ task[p].on = c
    BY <2>2, PickPinned DEF smp64_pick_next
  <2>4. p # s => ctx[p] = done[p]
    BY <2>3, PinnedSaved
  <2>5. smp64_running_slot(c) = s
    BY <2>1 DEF smp64_running_slot
  <2>6. ctx' = [ctx EXCEPT ![s] = cpu[c].regs] /\ cpu' = [cpu EXCEPT ![c] = r]
    BY <1>4, <2>2, <2>5 DEF ap64_resched, frame64_save_user
  <2> HIDE DEF p
  <2>7. q \in Cpus /\ q.cur = p /\ q.mode = "user" /\ q.regs = done[p]
    <3>1. CASE p = s
      BY <1>1, <1>4, <2>1, <3>1
    <3>2. CASE p # s
      BY <1>1, <2>3, <2>4, <3>2, Zenon DEF frame64_load_user, Cpus, Modes
    <3> QED BY <3>1, <3>2
  <2> HIDE DEF q
  <2>8. r \in Cpus /\ r.cur = p /\ r.mode = "user" /\ r.regs = done[p] /\ r.ipi = rest
    BY <1>1, <2>7 DEF Cpus
  <2> HIDE DEF r
  <2>9. cpu'[c] = r
    BY <1>1, <2>6, <2>8, Becomes, Zenon
  <2>10. ApOK(c)'
    BY <1>2, <2>1, <2>3, <2>8, <2>9, CpuNumbers DEF ApOK
  <2>11. pending' \in BOOLEAN
    BY <1>2, Zenon
  <2> QED BY <1>2, <1>4, <2>6, <2>8, <2>10, <2>11, PinnedStep, Zenon
<1> QED BY <1>2, <1>3, <1>4 DEF Interruptible

\* The task of another processor makes progress.
LEMMA UserApInv ==
    ASSUME SchedInv, NEW c \in Aps, User(c)
    PROVE  SchedInv'
<1> DEFINE s == cpu[c].cur
           m == (cpu[c].regs + 1) % Marks
           r == [cpu[c] EXCEPT !.regs = m]
<1>1. /\ Types /\ ApOK(c) /\ cpu[c] \in Cpus /\ c \in CpuSet /\ cpu[c].regs \in Int
      /\ cpu \in [CpuSet -> Cpus]
  BY CpuNumbers, Fields DEF SchedInv, Types
<1>2. cpu[c].mode = "user" /\ s # None /\ "user" \notin cpu[c].ipi
  BY <1>1 DEF User, ApOK
<1>3. s \in PoolSlots /\ task[s].on = c
  BY <1>2, PinnedSaved
<1>4. m \in Int
  BY <1>1, SchedulerAssumption
<1>5. /\ cpu' = [cpu EXCEPT ![c] = r] /\ done' = [done EXCEPT ![s] = m]
      /\ UNCHANGED <<task, ctx, shared, pending>>
  BY Zenon DEF User
<1> HIDE DEF m
<1>6. r \in Cpus /\ r.cur = s /\ r.regs = m /\ r.mode = "user" /\ r.ipi = cpu[c].ipi
  BY <1>1, <1>2, <1>4, Zenon DEF Cpus
<1> HIDE DEF r
<1>7. cpu' \in [CpuSet -> Cpus] /\ cpu'[c] = r /\ \A d \in CpuSet : d # c => cpu'[d] = cpu[d]
  BY <1>1, <1>5, <1>6, Becomes, Zenon
<1>8. /\ done' \in [PoolSlots -> Int] /\ done'[s] = m
      /\ \A t \in PoolSlots : t # s => done'[t] = done[t]
  BY <1>1, <1>3, <1>4, <1>5 DEF Types
<1>9. Types'
  BY <1>1, <1>5, <1>7, <1>8 DEF Types
<1>10. ApOK(c)'
  BY <1>2, <1>3, <1>5, <1>6, <1>7, <1>8 DEF ApOK
<1>11. ASSUME NEW t \in PoolSlots
       PROVE  /\ task[t].on # c => task'[t] = task[t] /\ ctx'[t] = ctx[t] /\ done'[t] = done[t]
              /\ task[t].on = c => task'[t].on = c /\ task'[t].st = "run"
              /\ task[t].on = c /\ task'[t].st = "run" /\ cpu'[c].cur # t => ctx'[t] = done'[t]
  BY <1>3, <1>5, <1>6, <1>7, <1>8, PinnedSaved
<1>12. ApActs(c)
  BY <1>5, <1>7, <1>9, <1>10, <1>11 DEF ApActs
<1> QED BY <1>12, ApActsInv

\* The task of another processor ends, and the processor goes on in another
\* pinned task or stops.
LEMMA ApEndsStep ==
    ASSUME SchedInv, NEW c \in Aps, cpu[c].mode = "user", NEW x \in Tasks,
           x.st \in {"free", "zombie"}, x.on = None, NEW r \in Cpus,
           task' = [task EXCEPT ![cpu[c].cur] = x], cpu' = [cpu EXCEPT ![c] = r],
           ctx' = ctx \/ ctx' = [ctx EXCEPT ![cpu[c].cur] = 0],
           "user" \notin r.ipi,
           \/ r.cur = None /\ r.mode = "off"
           \/ /\ r.cur \in PoolSlots \ {cpu[c].cur} /\ task[r.cur].on = c
              /\ r.mode = "user" /\ r.regs = ctx[r.cur],
           UNCHANGED <<shared, pending, done>>
    PROVE  SchedInv'
<1> DEFINE s == cpu[c].cur
<1>1. /\ Types /\ ApOK(c) /\ c \in CpuSet /\ cpu \in [CpuSet -> Cpus]
  BY CpuNumbers DEF SchedInv, Types
<1>2. s \in PoolSlots /\ task[s].on = c
  BY <1>1, PinnedSaved DEF ApOK
<1>3. cpu' \in [CpuSet -> Cpus] /\ cpu'[c] = r /\ \A d \in CpuSet : d # c => cpu'[d] = cpu[d]
  BY <1>1, Becomes, Zenon
<1>4. /\ task' \in [PoolSlots -> Tasks] /\ ctx' \in [PoolSlots -> Int] /\ task'[s] = x
      /\ \A t \in PoolSlots : t # s => task'[t] = task[t] /\ ctx'[t] = ctx[t]
  BY <1>1, <1>2 DEF Types
<1>5. Types'
  BY <1>1, <1>3, <1>4 DEF Types
<1>6. ApOK(c)'
  <2>1. CASE r.cur = None /\ r.mode = "off"
    BY <1>3, <2>1 DEF ApOK
  <2>2. CASE /\ r.cur \in PoolSlots \ {s} /\ task[r.cur].on = c
             /\ r.mode = "user" /\ r.regs = ctx[r.cur]
    <3>1. ctx[r.cur] = done[r.cur] /\ r.cur # None
      BY <2>2, PinnedSaved, CpuNumbers
    <3> QED BY <1>3, <1>4, <2>2, <3>1 DEF ApOK
  <2> QED BY <2>1, <2>2
<1>7. ASSUME NEW t \in PoolSlots
      PROVE  /\ task[t].on # c => task'[t] = task[t] /\ ctx'[t] = ctx[t] /\ done'[t] = done[t]
             /\ task[t].on = c => \/ task'[t].on = c /\ task'[t].st = "run"
                                  \/ task'[t].on = None /\ task'[t].st \in {"free", "zombie"}
             /\ task[t].on = c /\ task'[t].st = "run" /\ cpu'[c].cur # t => ctx'[t] = done'[t]
  BY <1>2, <1>4, PinnedSaved
<1>8. ApActs(c)
  BY <1>3, <1>5, <1>6, <1>7 DEF ApActs
<1> QED BY <1>8, ApActsInv

\* A fault on another processor, or a return it may not take.
LEMMA ApEndsInv ==
    ASSUME SchedInv, NEW c \in Aps, NEW a \in BOOLEAN,
           exception64_dispatch(c, a) \/ syscall64_validate_return(c, a)
    PROVE  SchedInv'
<1> DEFINE s == cpu[c].cur
           x == IF a THEN Vacant ELSE [task[s] EXCEPT !.st = "zombie", !.on = None]
           off == [cpu[c] EXCEPT !.cur = None, !.mode = "off"]
<1>1. /\ Types /\ ApOK(c) /\ cpu[c] \in Cpus /\ cpu[c].mode = "user"
  BY CpuNumbers DEF SchedInv, Types, exception64_dispatch, syscall64_validate_return
<1>2. "user" \notin cpu[c].ipi /\ s # None
  BY <1>1 DEF ApOK
<1>3. s \in PoolSlots
  BY <1>2, PinnedSaved
<1>4. x \in Tasks /\ x.st \in {"free", "zombie"} /\ x.on = None
  BY <1>1, <1>3, EndedTask, Zenon
<1>5. /\ task' = [task EXCEPT ![s] = x] /\ (ctx' = ctx \/ ctx' = [ctx EXCEPT ![s] = 0])
      /\ UNCHANGED <<shared, pending, done>>
  <2>1. CASE exception64_dispatch(c, a)
    BY <2>1, Zenon DEF exception64_dispatch, terminate64
  <2>2. CASE syscall64_validate_return(c, a)
    BY <2>2, Zenon DEF syscall64_validate_return
  <2> QED BY <2>1, <2>2
<1> HIDE DEF x
<1>6. off \in Cpus /\ off.cur = None /\ off.mode = "off" /\ off.ipi = cpu[c].ipi
  BY <1>1, Zenon DEF Cpus, Modes
<1>7. ASSUME cpu' = [cpu EXCEPT ![c] = off] PROVE SchedInv'
  <2> HIDE DEF off
  <2> QED BY <1>1, <1>2, <1>4, <1>5, <1>6, <1>7, ApEndsStep, Zenon
<1>8. CASE exception64_dispatch(c, a)
  BY <1>7, <1>8, Zenon DEF exception64_dispatch
<1>9. CASE syscall64_validate_return(c, a)
  <2> DEFINE P == {u \in PoolSlots \ {s} : task[u].st = "run" /\ task[u].on = c}
             p == RoundRobin(0, P)
             r == frame64_load_user(cpu[c], p)
  <2>1. cpu' = [cpu EXCEPT ![c] = IF p = None THEN off ELSE r]
    BY <1>9, Zenon DEF syscall64_validate_return
  <2>2. P \in SUBSET PoolSlots /\ 0 \in PoolSlots
    BY CpuNumbers
  <2>3. p = None \/ p \in P
    BY <2>2, RoundRobinPicks, Zenon
  <2>4. CASE p = None
    BY <1>7, <2>1, <2>4, Zenon
  <2>5. CASE p # None
    <3>1. p \in PoolSlots \ {s} /\ task[p].on = c
      BY <2>3, <2>5
    <3>2. cpu' = [cpu EXCEPT ![c] = r]
      BY <2>1, <2>5, Zenon
    <3> HIDE DEF p
    <3>3. ctx[p] \in Int
      BY <1>1, <3>1 DEF Types
    <3>4. r \in Cpus /\ r.cur = p /\ r.mode = "user" /\ r.regs = ctx[p] /\ r.ipi = cpu[c].ipi
      BY <1>1, <3>1, <3>3, Zenon DEF frame64_load_user, Cpus, Modes
    <3> HIDE DEF r
    <3> QED BY <1>1, <1>2, <1>4, <1>5, <3>1, <3>2, <3>4, ApEndsStep, Zenon
  <2> QED BY <2>4, <2>5
<1> QED BY <1>8, <1>9

-----------------------------------------------------------------------------
\* kernel64_main leaves the idle task and the first init, on processor 0.
LEMMA InitInv ==
    ASSUME SchedulerInit
    PROVE  SchedInv
<1>1. /\ 0 \in CpuSet /\ 0 \in PoolSlots /\ 1 \in PoolSlots /\ None \notin PoolSlots
      /\ \A c \in Aps : c \in CpuSet /\ c # 0
  BY CpuNumbers
<1> DEFINE First == [cur |-> 1, mode |-> "user", regs |-> 0, next |-> None, ipi |-> {}, timer |-> FALSE]
           Halted == [cur |-> None, mode |-> "hlt", regs |-> 0, next |-> None, ipi |-> {}, timer |-> FALSE]
           Idle == [st |-> "run", on |-> None, idle |-> TRUE]
           Task1 == [st |-> "run", on |-> 0, idle |-> FALSE]
<1>2. /\ task[0] = Idle /\ task[1] = Task1
      /\ \A t \in PoolSlots : t = 0 \/ t = 1 \/ task[t] = Vacant
      /\ \A t \in PoolSlots : ctx[t] = 0 /\ done[t] = 0
      /\ cpu[0] = First /\ \A c \in Aps : cpu[c] = Halted
      /\ shared = 1 /\ pending = FALSE
  <2>1. task[0] = Idle /\ task[1] = Task1
    BY <1>1 DEF SchedulerInit
  <2>2. \A t \in PoolSlots : t = 0 \/ t = 1 \/ task[t] = Vacant
    BY DEF SchedulerInit
  <2>3. cpu[0] = First
    BY <1>1 DEF SchedulerInit
  <2>4. \A c \in Aps : cpu[c] = Halted
    BY <1>1, Zenon DEF SchedulerInit
  <2> QED BY <2>1, <2>2, <2>3, <2>4, Zenon DEF SchedulerInit
<1>3. Idle \in Tasks /\ Task1 \in Tasks /\ Vacant \in Tasks /\ First \in Cpus /\ Halted \in Cpus
  <2>1. Idle \in Tasks /\ Task1 \in Tasks /\ Vacant \in Tasks
    BY <1>1 DEF Tasks, States, Vacant
  <2>2. First \in Cpus
    BY <1>1 DEF Cpus, Modes
  <2>3. Halted \in Cpus
    BY DEF Cpus, Modes
  <2> QED BY <2>1, <2>2, <2>3
<1>4. Types
  <2>1. /\ task \in [PoolSlots -> Tasks] /\ cpu \in [CpuSet -> Cpus]
        /\ ctx \in [PoolSlots -> Int] /\ done \in [PoolSlots -> Int]
    <3> HIDE DEF Idle, Task1, First, Halted
    <3>1. /\ DOMAIN task = PoolSlots /\ task = [t \in PoolSlots |-> task[t]]
          /\ DOMAIN cpu = CpuSet /\ cpu = [c \in CpuSet |-> cpu[c]]
          /\ ctx \in [PoolSlots -> Int] /\ done \in [PoolSlots -> Int]
      BY DEF SchedulerInit
    <3>2. (\A t \in PoolSlots : task[t] \in Tasks) /\ \A c \in CpuSet : cpu[c] \in Cpus
      BY <1>2, <1>3, CpuNumbers
    <3> QED BY <3>1, <3>2
  <2> QED BY <1>1, <1>2, <2>1, Zenon DEF Types
<1>5. OwnersOK
  BY <1>1, <1>2, CpuNumbers DEF OwnersOK, Vacant
<1>6. Cpu0OK
  BY <1>1, <1>2, CpuNumbers DEF Cpu0OK, Claimed
<1>7. ASSUME NEW c \in Aps PROVE ApOK(c)
  BY <1>2 DEF ApOK
<1>8. Saved
  BY <1>2 DEF Saved
<1> QED BY <1>4, <1>5, <1>6, <1>7, <1>8 DEF SchedInv

\* Every step keeps the invariant.
LEMMA StepInv ==
    ASSUME SchedInv, [SchedulerNext]_schedvars
    PROVE  SchedInv'
<1>1. CASE UNCHANGED schedvars
  BY <1>1 DEF schedvars, SchedInv, Types, OwnersOK, Cpu0OK, Claimed, ApOK, Saved
<1>2. CASE timer64_dispatch
  BY <1>2, NextSlotInv
<1>3. CASE Dispatches(SUBSET PoolSlots)
  BY <1>3, NextSlotInv, LoadInv, PreemptInv, WakingInv, Zenon DEF Dispatches
<1>4. CASE Calls
  BY <1>4, User0Inv, SpawnInv, CurrentStopsInv, WakingInv, OtherEnds, CurrentEndsInv, Zenon DEF Calls
<1>5. CASE Interrupts(SUBSET PoolSlots)
  BY <1>5, CurrentEndsInv, WakingInv, Zenon DEF Interrupts
<1>6. CASE Aps = {} /\ Lone
  <2>1. ASSUME NEW a \in BOOLEAN, NEW st \in {"stop", "kill"}, console64_rx_drain(st, a)
        PROVE  SchedInv'
    BY <1>6, <2>1, CurrentEndsInv, CurrentStopsInv, Zenon
  <2>2. ASSUME NEW a \in BOOLEAN, NEW t \in PoolSlots, Kill(t, a)
        PROVE  SchedInv'
    BY <1>6, <2>2, OtherEnds, Zenon
  <2> QED BY <1>6, <2>1, <2>2, Zenon DEF Lone
<1>7. ASSUME NEW c \in Aps, Pinned(c) PROVE SchedInv'
  BY <1>7, UserApInv, PinTaskInv, HostStartInv, ApTickInv, ReschedInv, ApEndsInv, IpiInv, Zenon DEF Pinned
<1> QED BY <1>1, <1>2, <1>3, <1>4, <1>5, <1>6, <1>7, Zenon DEF SchedulerNext

-----------------------------------------------------------------------------
\* The invariant holds of every behaviour, for any number of slots and any set
\* of processors beside 0.
THEOREM SchedInvariant == SchedulerSpec => []SchedInv
<1>1. SchedulerInit => SchedInv
  BY InitInv
<1>2. SchedInv /\ [SchedulerNext]_schedvars => SchedInv'
  BY StepInv
<1> QED BY <1>1, <1>2, PTL DEF SchedulerSpec

\* task_next_slot_claim, task_pick_pinned and smp64_host_start: a task runs on
\* one processor, the one that claimed it, and goes on from the registers it
\* last had, however the processors' dispatches interleave.
THEOREM StaysOnOneProcessor == SchedulerSpec => []RunsOnOneProcessor
<1>1. ASSUME SchedInv PROVE RunsOnOneProcessor
  <2>1. Types /\ OwnersOK /\ Cpu0OK /\ Saved /\ \A c \in Aps : ApOK(c)
    BY <1>1 DEF SchedInv
  <2>2. \A c \in CpuSet : cpu[c].cur # None => cpu[c].cur \in PoolSlots
    BY <2>1, Fields
  <2>3. ASSUME NEW c \in CpuSet, cpu[c].cur # None
        PROVE  task[cpu[c].cur].on \in {None, 0, c} /\ (c # 0 => task[cpu[c].cur].on = c)
    BY <2>1, <2>3, CpuNumbers DEF Cpu0OK, ApOK
  <2>4. ASSUME NEW c \in CpuSet, cpu[c].mode = "user"
        PROVE  task[cpu[c].cur].on = c /\ cpu[c].regs = done[cpu[c].cur]
    <3>1. CASE c = 0
      BY <2>1, <2>4, <3>1 DEF Cpu0OK, Claimed
    <3>2. CASE c \in Aps
      BY <2>1, <2>4, <3>2 DEF ApOK
    <3> QED BY <3>1, <3>2, CpuNumbers
  <2>5. ASSUME NEW c \in CpuSet, NEW d \in CpuSet, cpu[c].cur # None, cpu[c].cur = cpu[d].cur, c # d
        PROVE  FALSE
    BY <2>3, <2>5, CpuNumbers
  <2>6. \A t \in PoolSlots : task[t].on = 0 => t \in {cpu[0].cur, cpu[0].next}
    BY <2>1 DEF OwnersOK, Cpu0OK
  <2>7. RunsOnOne
    BY <2>4, <2>5, <2>6 DEF RunsOnOne
  <2>8. ContextKept
    BY <2>1, <2>4 DEF ContextKept, Saved
  <2> QED BY <2>7, <2>8 DEF RunsOnOneProcessor
<1> QED BY <1>1, SchedInvariant, PTL

\* irq64_dispatch, console64_rx_drain and scheduler64_switch: processor 0 goes
\* back to ring 3 only in a task that may run, from where that task was.
THEOREM ReturnsOnlyToRunnable == SchedulerSpec => []ReturnsToRunnable
<1>1. ASSUME SchedInv, RunsOnOneProcessor PROVE ReturnsToRunnable
  BY <1>1 DEF SchedInv, Cpu0OK, RunsOnOneProcessor, ReturnsToRunnable, RunsOnlyRunnable
<1> QED BY <1>1, SchedInvariant, StaysOnOneProcessor, PTL

-----------------------------------------------------------------------------
(* The kernel locks.                                                       *)

\* Division with remainder.
LEMMA DivMod ==
    ASSUME NEW w \in Nat, w > 0, NEW a \in Nat
    PROVE  a = w * (a \div w) + (a % w) /\ a % w \in Int /\ a \div w \in Int
  BY SMT

\* Two numbers less than w apart that agree modulo w are equal.
LEMMA SameTicket ==
    ASSUME NEW w \in Nat, w > 0, NEW a \in Nat, NEW b \in Nat, a <= b, b - a < w, a % w = b % w
    PROVE  a = b
<1> DEFINE p == a \div w
           q == b \div w
<1>1. a = w * p + (a % w) /\ p \in Int
  BY DivMod
<1>2. b = w * q + (b % w) /\ q \in Int
  BY DivMod
<1>3. a % w \in Int
  BY DivMod
<1> HIDE DEF p, q
<1>4. b - a = w * (q - p)
  BY <1>1, <1>2, <1>3
<1>5. q - p <= 0
  <2>1. SUFFICES ASSUME q - p >= 1 PROVE FALSE
    BY <1>1, <1>2
  <2>2. w * (q - p) >= w
    BY <2>1, <1>1, <1>2
  <2> QED BY <2>2, <1>4
<1>6. w * (q - p) <= 0
  BY <1>5, <1>1, <1>2
<1> QED BY <1>4, <1>6

\* No more tickets are out than there are processors.
LEMMA TicketsFew ==
    ASSUME LocksInv, NEW l \in Levels
    PROVE  ticket[l] - served[l] < Width
<1> DEFINE T == served[l] .. (ticket[l] - 1)
           f == [t \in T |-> CHOOSE c \in LockCpus : Has(c, l) /\ mine[c][l] = t]
<1>1. ticket[l] \in Nat /\ served[l] \in Nat /\ served[l] <= ticket[l]
  BY DEF LocksInv, LocksTypeOK, TicketsOwned
<1>2. \A t \in T : f[t] \in LockCpus /\ mine[f[t]][l] = t
  BY DEF LocksInv, TicketsOwned
<1>3. f \in Injection(T, LockCpus)
  <2>1. f \in [T -> LockCpus]
    BY <1>2, Zenon
  <2>2. \A a, b \in T : f[a] = f[b] => a = b
    BY <1>2, Zenon
  <2> QED BY <2>1, <2>2, Zenon DEF Injection, IsInjective
<1>4. IsFiniteSet(LockCpus) /\ Cardinality(LockCpus) < Width
  BY LockAssumption
<1>5. IsFiniteSet(T) /\ Cardinality(T) <= Cardinality(LockCpus)
  BY <1>3, <1>4, FS_Injection DEF ExistsInjection
<1>6. Cardinality(T) = IF served[l] > ticket[l] - 1 THEN 0 ELSE ((ticket[l] - 1) - served[l]) + 1
  <2>1. served[l] \in Int /\ ticket[l] - 1 \in Int
    BY <1>1
  <2> QED BY <2>1, FS_Interval
<1>7. Cardinality(LockCpus) \in Nat /\ Width \in Nat
  BY <1>4, LockAssumption, FS_CardinalityType
<1> HIDE DEF T, f
<1> QED BY <1>1, <1>4, <1>5, <1>6, <1>7
\* A processor that spins has its turn exactly when its ticket is served.
LEMMA Turn ==
    ASSUME LocksInv, NEW c \in LockCpus, want[c] # 0, served[want[c]] % Width = mine[c][want[c]] % Width
    PROVE  served[want[c]] = mine[c][want[c]]
<1> DEFINE l == want[c]
<1>1. l \in Levels
  BY DEF LocksInv, LocksTypeOK
<1>2. served[l] \in Nat /\ mine[c][l] \in Nat /\ ticket[l] \in Nat /\ Width \in Nat
  BY <1>1, LockAssumption DEF LocksInv, LocksTypeOK
<1>3. served[l] <= mine[c][l] /\ mine[c][l] < ticket[l]
  BY <1>1 DEF LocksInv, TicketsOwned, Has
<1>4. ticket[l] - served[l] < Width
  BY <1>1, TicketsFew
<1> HIDE DEF l
<1>5. mine[c][l] - served[l] < Width /\ Width > 0
  BY <1>2, <1>3, <1>4
<1> QED BY <1>2, <1>3, <1>5, SameTicket DEF l

\* The deepest level of a record is the last one.
LEMMA LastIsDeepest ==
    ASSUME LocksInv, NEW c \in LockCpus
    PROVE  /\ klock_held_level(c) \in Levels \union {0}
           /\ \A i \in 1 .. Len(held[c]) : held[c][i] \in Levels /\ held[c][i] <= klock_held_level(c)
           /\ held[c] # <<>> => Holds(c, klock_held_level(c)) /\ Len(held[c]) >= 1
<1>1. held[c] \in Seq(Levels) /\ LevelMax \in Nat
  BY LockAssumption DEF LocksInv, LocksTypeOK
<1>2. \A i \in 1 .. Len(held[c]) : held[c][i] \in Levels
  BY <1>1
<1>3. held[c] # <<>> => Len(held[c]) \in 1 .. Len(held[c])
  BY <1>1
<1>4. \A i, j \in 1 .. Len(held[c]) : i < j => held[c][i] < held[c][j]
  BY DEF LocksInv, LevelsIncrease
<1>5. ASSUME NEW i \in 1 .. Len(held[c])
      PROVE  held[c][i] <= klock_held_level(c)
  <2>1. held[c] # <<>>
    BY <1>1
  <2>2. Len(held[c]) \in Nat /\ held[c][i] \in Nat
    BY <1>1, <1>2 DEF Levels
  <2>3. i = Len(held[c]) \/ i < Len(held[c])
    BY <2>2
  <2> QED BY <2>1, <2>2, <2>3, <1>2, <1>3, <1>4 DEF klock_held_level, Levels
<1> QED BY <1>2, <1>3, <1>5 DEF klock_held_level, Holds, Levels

\* Before the first acquire every lock is free.
LEMMA InvInit == LocksInit => LocksInv
<1> SUFFICES ASSUME LocksInit PROVE LocksInv
  OBVIOUS
<1>1. LocksTypeOK
  BY DEF LocksInit, LocksTypeOK
<1>2. \A c \in LockCpus, l \in Levels : ~Has(c, l)
  BY DEF LocksInit, Has, Holds, Levels
<1>3. TicketsOwned
  BY <1>2 DEF LocksInit, TicketsOwned, Has
<1>4. LevelsIncrease
  BY DEF LocksInit, LevelsIncrease
<1> QED BY <1>1, <1>3, <1>4 DEF LocksInv

\* Drawing a ticket keeps the invariant: the new ticket is the next one, and
\* its level lies beyond every level of the record.
LEMMA AcquireKeeps ==
    ASSUME LocksInv, NEW c \in LockCpus, NEW l \in Levels, klock_acquire(c, l)
    PROVE  LocksInv'
<1>1. /\ want[c] = 0 /\ mine' = [mine EXCEPT ![c][l] = ticket[l]]
      /\ ticket' = [ticket EXCEPT ![l] = @ + 1] /\ want' = [want EXCEPT ![c] = l]
      /\ served' = served /\ held' = held /\ l > klock_held_level(c)
  BY DEF klock_acquire, klock_order_ok
<1>2. LocksTypeOK /\ LocksTypeOK'
  BY <1>1 DEF LocksInv, LocksTypeOK
<1>3. \A i \in 1 .. Len(held[c]) : held[c][i] < l
  BY <1>1, <1>2, LastIsDeepest, LockAssumption DEF Levels
<1>4. ~Has(c, l)
  BY <1>1, <1>3 DEF Has, Holds, Levels
<1>5. \A d \in LockCpus, k \in Levels : Holds(d, k)' <=> Holds(d, k)
  BY <1>1 DEF Holds
<1>6. \A d \in LockCpus, k \in Levels : Has(d, k)' <=> Has(d, k) \/ (d = c /\ k = l)
  BY <1>1, <1>2, <1>5 DEF Has, LocksTypeOK, Levels
<1>7. \A d \in LockCpus, k \in Levels : mine'[d][k] = IF d = c /\ k = l THEN ticket[l] ELSE mine[d][k]
  BY <1>1, <1>2 DEF LocksTypeOK
<1>8. \A k \in Levels : ticket'[k] = (IF k = l THEN ticket[k] + 1 ELSE ticket[k]) /\ served'[k] = served[k]
  BY <1>1, <1>2 DEF LocksTypeOK
<1>9. TicketsOwned'
  <2> SUFFICES ASSUME NEW k \in Levels
               PROVE  /\ served'[k] <= ticket'[k]
                      /\ \A d \in LockCpus : Has(d, k)' => served'[k] <= mine'[d][k] /\ mine'[d][k] < ticket'[k]
                      /\ \A d \in LockCpus : Holds(d, k)' => mine'[d][k] = served'[k]
                      /\ \A d, e \in LockCpus : Has(d, k)' /\ Has(e, k)' /\ mine'[d][k] = mine'[e][k] => d = e
                      /\ \A t \in served'[k] .. ticket'[k] - 1 :
                           \E d \in LockCpus : Has(d, k)' /\ mine'[d][k] = t
    BY DEF TicketsOwned
  <2>1. /\ served[k] <= ticket[k]
        /\ \A d \in LockCpus : Has(d, k) => served[k] <= mine[d][k] /\ mine[d][k] < ticket[k]
        /\ \A d \in LockCpus : Holds(d, k) => mine[d][k] = served[k]
        /\ \A d, e \in LockCpus : Has(d, k) /\ Has(e, k) /\ mine[d][k] = mine[e][k] => d = e
        /\ \A t \in served[k] .. ticket[k] - 1 : \E d \in LockCpus : Has(d, k) /\ mine[d][k] = t
    BY DEF LocksInv, TicketsOwned
  <2>2. served[k] \in Nat /\ ticket[k] \in Nat /\ \A d \in LockCpus : mine[d][k] \in Nat
    BY <1>2 DEF LocksTypeOK
  <2>3. served'[k] <= ticket'[k]
    BY <2>1, <2>2, <1>8
  <2>4. \A d \in LockCpus : Has(d, k)' => served'[k] <= mine'[d][k] /\ mine'[d][k] < ticket'[k]
    BY <2>1, <2>2, <1>6, <1>7, <1>8
  <2>5. \A d \in LockCpus : Holds(d, k)' => mine'[d][k] = served'[k]
    BY <2>1, <1>4, <1>5, <1>7, <1>8 DEF Has
  <2>6. \A d, e \in LockCpus : Has(d, k)' /\ Has(e, k)' /\ mine'[d][k] = mine'[e][k] => d = e
    BY <2>1, <2>2, <1>6, <1>7
  <2>7. ASSUME NEW t \in served'[k] .. ticket'[k] - 1
        PROVE  \E d \in LockCpus : Has(d, k)' /\ mine'[d][k] = t
    <3>1. CASE t \in served[k] .. ticket[k] - 1
      <4>1. PICK d \in LockCpus : Has(d, k) /\ mine[d][k] = t
        BY <2>1, <3>1
      <4> QED BY <4>1, <1>4, <1>6, <1>7
    <3>2. CASE ~(t \in served[k] .. ticket[k] - 1)
      <4>1. k = l /\ t = ticket[l]
        BY <3>2, <2>2, <1>8
      <4> QED BY <4>1, <1>6, <1>7
    <3> QED BY <3>1, <3>2
  <2> QED BY <2>3, <2>4, <2>5, <2>6, <2>7
<1>10. LevelsIncrease'
  BY <1>1, <1>2, <1>3, Zenon DEF LocksInv, LevelsIncrease, LocksTypeOK
<1> QED BY <1>2, <1>9, <1>10 DEF LocksInv

\* A served ticket turns the processor that spins into the holder.
LEMMA SpinKeeps ==
    ASSUME LocksInv, NEW c \in LockCpus, spin_lock(c)
    PROVE  LocksInv'
<1> DEFINE l == want[c]
<1>1. /\ want[c] # 0 /\ held' = [held EXCEPT ![c] = Append(held[c], l)]
      /\ want' = [want EXCEPT ![c] = 0] /\ ticket' = ticket /\ served' = served /\ mine' = mine
  BY DEF spin_lock
<1>2. served[l] = mine[c][l]
  BY Turn DEF spin_lock
<1>3. LocksTypeOK /\ l \in Levels /\ held[c] \in Seq(Levels)
  BY <1>1 DEF LocksInv, LocksTypeOK
<1>4. LocksTypeOK'
  BY <1>1, <1>3 DEF LocksTypeOK
<1>5. Len(Append(held[c], l)) = Len(held[c]) + 1 /\ Len(held[c]) \in Nat
  BY <1>3
<1>6. \A i \in 1 .. Len(held[c]) + 1 :
        Append(held[c], l)[i] = IF i = Len(held[c]) + 1 THEN l ELSE held[c][i]
  BY <1>3
<1>7. \A d \in LockCpus : held'[d] = (IF d = c THEN Append(held[c], l) ELSE held[d])
                       /\ want'[d] = IF d = c THEN 0 ELSE want[d]
  BY <1>1, <1>3 DEF LocksTypeOK
<1> HIDE DEF l
<1>8. \A d \in LockCpus, k \in Levels : Holds(d, k)' <=> Holds(d, k) \/ (d = c /\ k = l)
  <2> SUFFICES ASSUME NEW d \in LockCpus, NEW k \in Levels
               PROVE  Holds(d, k)' <=> Holds(d, k) \/ (d = c /\ k = l)
    OBVIOUS
  <2>1. CASE d # c
    BY <2>1, <1>7 DEF Holds
  <2>2. CASE d = c
    <3>1. Holds(c, k)' <=> \E i \in 1 .. Len(held[c]) + 1 : Append(held[c], l)[i] = k
      BY <1>5, <1>7, Zenon DEF Holds
    <3>2. (\E i \in 1 .. Len(held[c]) + 1 : Append(held[c], l)[i] = k) <=>
            (\E i \in 1 .. Len(held[c]) : held[c][i] = k) \/ k = l
      BY <1>5, <1>6
    <3> QED BY <2>2, <3>1, <3>2 DEF Holds
  <2> QED BY <2>1, <2>2
<1>9. \A d \in LockCpus, k \in Levels : Has(d, k)' <=> Has(d, k)
  BY <1>7, <1>8 DEF Has, Levels, l
<1>10. TicketsOwned'
  <2>1. \A d \in LockCpus, k \in Levels : Holds(d, k)' => mine[d][k] = served[k]
    BY <1>2, <1>8 DEF LocksInv, TicketsOwned
  <2> QED BY <2>1, <1>1, <1>9 DEF LocksInv, TicketsOwned
<1>11. LevelsIncrease'
  <2> SUFFICES ASSUME NEW d \in LockCpus
               PROVE  /\ \A i, j \in 1 .. Len(held'[d]) : i < j => held'[d][i] < held'[d][j]
                      /\ \A i \in 1 .. Len(held'[d]) : want'[d] # 0 => held'[d][i] < want'[d]
    BY DEF LevelsIncrease
  <2>1. /\ \A i, j \in 1 .. Len(held[d]) : i < j => held[d][i] < held[d][j]
        /\ \A i \in 1 .. Len(held[d]) : want[d] # 0 => held[d][i] < want[d]
    BY DEF LocksInv, LevelsIncrease
  <2>2. CASE d # c
    BY <2>1, <2>2, <1>7
  <2>3. CASE d = c
    BY <2>1, <2>3, <1>1, <1>5, <1>6, <1>7 DEF l
  <2> QED BY <2>2, <2>3
<1> QED BY <1>4, <1>10, <1>11 DEF LocksInv

\* A release serves the next ticket: the holder of the deepest lock had the
\* served one, and every other processor at that level has a later one.
LEMMA ReleaseKeeps ==
    ASSUME LocksInv, NEW c \in LockCpus, klock_release(c)
    PROVE  LocksInv'
<1>0. want[c] = 0 /\ held[c] # <<>>
  BY DEF klock_release
<1>a. PICK l \in Levels, n \in Nat : l = klock_held_level(c) /\ n = Len(held[c])
  BY <1>0, LastIsDeepest DEF LocksInv, LocksTypeOK, Holds
<1>1. /\ served' = [served EXCEPT ![l] = @ + 1]
      /\ held' = [held EXCEPT ![c] = SubSeq(held[c], 1, n - 1)]
      /\ ticket' = ticket /\ mine' = mine /\ want' = want
  BY <1>a DEF klock_release
<1>2. LocksTypeOK /\ held[c] \in Seq(Levels) /\ n \in Nat /\ n >= 1 /\ l = held[c][n]
  BY <1>0, <1>a, LastIsDeepest DEF LocksInv, LocksTypeOK, klock_held_level
<1>3. Holds(c, l)
  BY <1>0, <1>a, LastIsDeepest
<1>4. mine[c][l] = served[l] /\ served[l] < ticket[l] /\ served[l] \in Nat /\ ticket[l] \in Nat
  BY <1>2, <1>3 DEF LocksInv, TicketsOwned, Has, LocksTypeOK
<1>5. /\ SubSeq(held[c], 1, n - 1) \in Seq(Levels) /\ Len(SubSeq(held[c], 1, n - 1)) = n - 1
      /\ \A i \in 1 .. n - 1 : SubSeq(held[c], 1, n - 1)[i] = held[c][i]
  BY <1>a, <1>2
<1>6. \A d \in LockCpus : held'[d] = IF d = c THEN SubSeq(held[c], 1, n - 1) ELSE held[d]
  BY <1>1, <1>2 DEF LocksTypeOK
<1>7. \A k \in Levels : served'[k] = IF k = l THEN served[k] + 1 ELSE served[k]
  BY <1>1, <1>2 DEF LocksTypeOK
<1>8. LocksTypeOK'
  BY <1>1, <1>2, <1>3, <1>5 DEF LocksTypeOK
<1>9. \A i \in 1 .. n - 1 : held[c][i] < l
  BY <1>a, <1>2 DEF LocksInv, LevelsIncrease
<1>10. \A d \in LockCpus, k \in Levels : Holds(d, k)' <=> Holds(d, k) /\ ~(d = c /\ k = l)
  <2> SUFFICES ASSUME NEW d \in LockCpus, NEW k \in Levels
               PROVE  Holds(d, k)' <=> Holds(d, k) /\ ~(d = c /\ k = l)
    OBVIOUS
  <2>1. CASE d # c
    BY <2>1, <1>6 DEF Holds
  <2>2. CASE d = c
    <3>1. Holds(c, k)' <=> \E i \in 1 .. n - 1 : held[c][i] = k
      BY <1>5, <1>6, Zenon DEF Holds
    <3>2. Holds(c, k) <=> \E i \in 1 .. n : held[c][i] = k
      BY <1>a DEF Holds
    <3>3. (\E i \in 1 .. n - 1 : held[c][i] = k) => k # l
      BY <1>3, <1>9 DEF Levels
    <3>4. (\E i \in 1 .. n : held[c][i] = k) /\ k # l => \E i \in 1 .. n - 1 : held[c][i] = k
      BY <1>2
    <3>5. (\E i \in 1 .. n - 1 : held[c][i] = k) => \E i \in 1 .. n : held[c][i] = k
      BY <1>2
    <3> QED BY <2>2, <3>1, <3>2, <3>3, <3>4, <3>5
  <2> QED BY <2>1, <2>2
<1>11. \A d \in LockCpus, k \in Levels : Has(d, k)' <=> Has(d, k) /\ ~(d = c /\ k = l)
  BY <1>0, <1>1, <1>3, <1>10 DEF Has, Levels
<1>12. TicketsOwned'
  <2> SUFFICES ASSUME NEW k \in Levels
               PROVE  /\ served'[k] <= ticket[k]
                      /\ \A d \in LockCpus : Has(d, k)' => served'[k] <= mine[d][k] /\ mine[d][k] < ticket[k]
                      /\ \A d \in LockCpus : Holds(d, k)' => mine[d][k] = served'[k]
                      /\ \A d, e \in LockCpus : Has(d, k)' /\ Has(e, k)' /\ mine[d][k] = mine[e][k] => d = e
                      /\ \A t \in served'[k] .. ticket[k] - 1 :
                           \E d \in LockCpus : Has(d, k)' /\ mine[d][k] = t
    BY <1>1 DEF TicketsOwned
  <2>1. /\ served[k] <= ticket[k]
        /\ \A d \in LockCpus : Has(d, k) => served[k] <= mine[d][k] /\ mine[d][k] < ticket[k]
        /\ \A d \in LockCpus : Holds(d, k) => mine[d][k] = served[k]
        /\ \A d, e \in LockCpus : Has(d, k) /\ Has(e, k) /\ mine[d][k] = mine[e][k] => d = e
        /\ \A t \in served[k] .. ticket[k] - 1 : \E d \in LockCpus : Has(d, k) /\ mine[d][k] = t
    BY DEF LocksInv, TicketsOwned
  <2>2. served[k] \in Nat /\ ticket[k] \in Nat /\ \A d \in LockCpus : mine[d][k] \in Nat
    BY <1>2 DEF LocksTypeOK
  <2>3. CASE k # l
    BY <2>1, <2>3, <1>7, <1>10, <1>11
  <2>4. CASE k = l
    <3>1. \A d \in LockCpus : Has(d, l)' => Has(d, l) /\ mine[d][l] # served[l]
      BY <2>1, <2>4, <1>3, <1>4, <1>11 DEF Has
    <3>2. \A d \in LockCpus : ~Holds(d, l)'
      BY <2>1, <2>4, <1>3, <1>4, <1>10 DEF Has
    <3>3. \A t \in served'[l] .. ticket[l] - 1 : \E d \in LockCpus : Has(d, l)' /\ mine[d][l] = t
      <4> SUFFICES ASSUME NEW t \in served'[l] .. ticket[l] - 1
                   PROVE  \E d \in LockCpus : Has(d, l)' /\ mine[d][l] = t
        OBVIOUS
      <4>1. t \in served[l] .. ticket[l] - 1 /\ t # served[l]
        BY <1>3, <1>4, <1>7
      <4>2. PICK d \in LockCpus : Has(d, l) /\ mine[d][l] = t
        BY <2>1, <2>4, <4>1
      <4> QED BY <4>1, <4>2, <1>3, <1>4, <1>11
    <3>4. \A d \in LockCpus : Has(d, l)' => served'[l] <= mine[d][l] /\ mine[d][l] < ticket[l]
      BY <2>1, <2>2, <2>4, <3>1, <1>3, <1>7
    <3>5. served'[l] <= ticket[l]
      BY <1>3, <1>4, <1>7
    <3> QED BY <2>1, <2>4, <3>1, <3>2, <3>3, <3>4, <3>5
  <2> QED BY <2>3, <2>4
<1>13. LevelsIncrease'
  <2> SUFFICES ASSUME NEW d \in LockCpus
               PROVE  /\ \A i, j \in 1 .. Len(held'[d]) : i < j => held'[d][i] < held'[d][j]
                      /\ \A i \in 1 .. Len(held'[d]) : want[d] # 0 => held'[d][i] < want[d]
    BY <1>1 DEF LevelsIncrease
  <2>1. /\ \A i, j \in 1 .. Len(held[d]) : i < j => held[d][i] < held[d][j]
        /\ \A i \in 1 .. Len(held[d]) : want[d] # 0 => held[d][i] < want[d]
    BY DEF LocksInv, LevelsIncrease
  <2>2. CASE d # c
    BY <2>1, <2>2, <1>6
  <2>3. CASE d = c
    <3>1. \A i, j \in 1 .. n : i < j => held[c][i] < held[c][j]
      BY <2>1, <2>3, <1>a
    <3>2. \A i, j \in 1 .. n - 1 : i < j => held[c][i] < held[c][j]
      BY <3>1, <1>2
    <3>3. held'[d] = SubSeq(held[c], 1, n - 1)
      BY <2>3, <1>6, Zenon
    <3>4. Len(held'[d]) = n - 1 /\ \A i \in 1 .. n - 1 : held'[d][i] = held[c][i]
      BY <3>3, <1>5
    <3> QED BY <2>3, <3>2, <3>4, <1>0
  <2> QED BY <2>2, <2>3
<1> QED BY <1>8, <1>12, <1>13 DEF LocksInv

\* Every ticket out has one owner and levels increase, for any number of
\* processors: klock_acquire, spin_lock and klock_release keep the invariant.
THEOREM LocksInvariant == LocksSpec => []LocksInv
<1>1. LocksInv /\ [LocksNext]_lockvars => LocksInv'
  <2> SUFFICES ASSUME LocksInv, [LocksNext]_lockvars PROVE LocksInv'
    OBVIOUS
  <2>1. CASE UNCHANGED lockvars
    BY <2>1 DEF lockvars, LocksInv, LocksTypeOK, TicketsOwned, LevelsIncrease, Has, Holds
  <2>2. ASSUME NEW c \in LockCpus, NEW l \in Levels, klock_acquire(c, l) PROVE LocksInv'
    BY <2>2, AcquireKeeps
  <2>3. ASSUME NEW c \in LockCpus, spin_lock(c) PROVE LocksInv'
    BY <2>3, SpinKeeps
  <2>4. ASSUME NEW c \in LockCpus, klock_release(c) PROVE LocksInv'
    BY <2>4, ReleaseKeeps
  <2> QED BY <2>1, <2>2, <2>3, <2>4 DEF LocksNext
<1> QED BY <1>1, InvInit, PTL DEF LocksSpec

\* A kernel lock has one holder at a time (klock_acquire, klock_release), even
\* after its 32-bit counters have run round.
THEOREM MutualExclusionHolds == LocksSpec => []MutualExclusion
<1>1. LocksInv => MutualExclusion
  BY DEF LocksInv, TicketsOwned, MutualExclusion, Has
<1> QED BY <1>1, LocksInvariant, PTL

\* Processors that spin never all wait for one another.  Of the levels some
\* processor spins for, take the deepest: the owner of the ticket served there
\* either spins for it, and is served, or holds it, and then spins for no
\* deeper lock, hence for none.
THEOREM NoDeadlockHolds == LocksSpec => []NoDeadlock
<1>1. LocksInv => NoDeadlock
  <2> SUFFICES ASSUME LocksInv, NEW b \in LockCpus, want[b] # 0
               PROVE  \E c \in LockCpus :
                        \/ want[c] # 0 /\ served[want[c]] = mine[c][want[c]]
                        \/ want[c] = 0 /\ held[c] # <<>>
    BY DEF NoDeadlock
  <2>1. LocksTypeOK
    BY DEF LocksInv
  <2> DEFINE Left == {LevelMax - want[c] : c \in {d \in LockCpus : want[d] # 0}}
             R == OpToRel(<, Nat)
  <2>a. LevelMax \in Nat /\ \A d \in LockCpus : want[d] \in Nat /\ want[d] <= LevelMax
    <3>1. \A d \in LockCpus : want[d] \in Levels \union {0}
      BY <2>1 DEF LocksTypeOK
    <3> QED BY <3>1, LockAssumption DEF Levels
  <2>2. Left \subseteq Nat /\ Left # {}
    <3>1. \A d \in LockCpus : LevelMax - want[d] \in Nat
      BY <2>a
    <3> QED BY <3>1
  <2>3. IsWellFoundedOn(R, Nat)
    BY NatLessThanWellFounded, Zenon
  <2>4. PICK x \in Left : \A y \in Left : <<y, x>> \notin R
    BY ONLY WFMin, <2>2, <2>3, Zenon
  <2>5. PICK c \in LockCpus : want[c] # 0 /\ x = LevelMax - want[c]
    BY <2>4, Zenon
  <2>6. \A d \in LockCpus : want[d] # 0 => want[d] <= want[c]
    <3> SUFFICES ASSUME NEW d \in LockCpus, want[d] # 0, want[d] > want[c]
                 PROVE  FALSE
      BY <2>a
    <3>1. LevelMax - want[d] \in Left
      OBVIOUS
    <3>2. LevelMax - want[d] \in Nat /\ x \in Nat /\ LevelMax - want[d] < x
      BY <2>a, <2>5
    <3> QED BY <3>1, <3>2, <2>4, Zenon DEF OpToRel
  <2>7. PICK l \in Levels : l = want[c]
    BY <2>1, <2>5 DEF LocksTypeOK
  <2>8. served[l] \in served[l] .. ticket[l] - 1
    <3>1. served[l] <= mine[c][l] /\ mine[c][l] < ticket[l]
      BY <2>7 DEF LocksInv, TicketsOwned, Has
    <3>2. served[l] \in Nat /\ ticket[l] \in Nat /\ mine[c][l] \in Nat
      BY <2>1 DEF LocksTypeOK
    <3> QED BY <3>1, <3>2
  <2>9. PICK d \in LockCpus : Has(d, l) /\ mine[d][l] = served[l]
    BY <2>8 DEF LocksInv, TicketsOwned
  <2>10. CASE want[d] = l
    BY <2>5, <2>7, <2>9, <2>10
  <2>11. CASE want[d] # l
    <3>1. PICK i \in 1 .. Len(held[d]) : held[d][i] = l
      BY <2>9, <2>11 DEF Has, Holds
    <3>2. held[d] # <<>>
      BY <3>1
    <3>3. want[d] # 0 => l < want[d]
      BY <3>1 DEF LocksInv, LevelsIncrease
    <3>4. want[d] = 0
      BY <3>3, <2>a, <2>6, <2>7
    <3> QED BY <3>2, <3>4
  <2> QED BY <2>10, <2>11
<1> QED BY <1>1, LocksInvariant, PTL
=============================================================================
