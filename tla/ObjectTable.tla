---------------------------- MODULE ObjectTable ----------------------------
(***************************************************************************)
(* Kernel objects and per-task handle tables (src/objects/object.c) as     *)
(* several CPUs use them.  Every region between klock_acquire and          *)
(* klock_release of object_klock is one step; everything a function does   *)
(* with the lock dropped (the destroy callback, the next pass of a revoke) *)
(* is a step of its own, so other CPUs run in between.                     *)
(*                                                                         *)
(* A counted pointer to an object lives in one of four kinds of place: a   *)
(* handle slot, a kernel variable (Places: a registry entry, a domain      *)
(* resource, a local of a caller), the payload of another object (inner:   *)
(* a vfs file holds its node), or the argument of an object_release that   *)
(* has not taken the lock yet (pend).                                      *)
(***************************************************************************)
EXTENDS Naturals, Sequences, FiniteSets

CONSTANTS CPUs,         \* processors that run kernel code
          SyscallCPUs,  \* those that run task system calls (CPU 0 in the code)
          Tasks,        \* task slots that own a handle table
          KOBJECT_MAX,  \* object table size
          KHANDLE_MAX,  \* handle table size of one task
          Places,       \* kernel variables that may hold a counted pointer
          Rights,       \* the KRIGHT_* bits
          TRANSFER,     \* KRIGHT_TRANSFER
          RefMax,       \* 0xFFFFFFFF in the code
          GenMax,       \* 0xFFFFFF in the code
          MaxCreate,    \* bound of the model: object creations in a behaviour
          None

Objects == 1..KOBJECT_MAX
Index == 1..KHANDLE_MAX
Slots == Tasks \X Index

ASSUME ConstantsAssumption ==
    /\ SyscallCPUs \subseteq CPUs
    /\ KOBJECT_MAX \in Nat /\ KHANDLE_MAX \in Nat
    /\ RefMax \in Nat \ {0}
    /\ GenMax \in Nat \ {0}
    /\ MaxCreate \in Nat
    /\ TRANSFER \in Rights
    /\ None \notin Objects
    /\ IsFiniteSet(CPUs) /\ IsFiniteSet(Tasks) /\ IsFiniteSet(Places)

\* Task system calls run on one processor.
ASSUME SyscallAssumption == \A c, d \in SyscallCPUs : c = d

VARIABLES active,      \* the object table: slot in use,
          references,  \* reference count,
          destroy,     \* destroy callback still to run
          handle,      \* the handle tables: object of each slot,
          rights,      \* its rights
          generation,  \* and its generation
          place,     \* what each kernel variable points to
          inner,     \* what the payload of each object points to
          alive,     \* task_index(t) >= 0: neither FREE nor ZOMBIE
          pend,      \* pend[c]: object_release(pend[c]) is about to lock
          stack,     \* stack[c]: objects whose destroy callback runs on c
          op,        \* op[c]: the multi-step function running on c
          created,   \* history: how many objects were ever created
          born,      \* history: born[o] is the creation o's slot now holds
          granted,   \* history: rights handle_open gave out for o's creation
          stale      \* history: one closed handle value some task still keeps

objects == <<active, references, destroy>>
handles == <<handle, rights, generation>>
vars == <<objects, handles, place, inner, alive, pend, stack, op, created,
          born, granted, stale>>

Idle == [fn |-> "none"]
Revoking(o, p) == [fn |-> "revoke", object |-> o, keep |-> p,
                   target |-> born[o]]
Closing(t, i, v) == [fn |-> "close_all", task |-> t, index |-> i, value |-> v]

\* Before reading the next slot, and holding the value read from slot index.
ClosingStates ==
    [fn : {"close_all"}, task : Tasks, index : 0..KHANDLE_MAX, value : {0}]
    \cup [fn : {"close_all"}, task : Tasks, index : Index, value : 1..GenMax]

TypeOK ==
    /\ active \in [Objects -> BOOLEAN]
    /\ references \in [Objects -> 0..RefMax]
    /\ destroy \in [Objects -> BOOLEAN]
    /\ handle \in [Slots -> Objects \cup {None}]
    /\ rights \in [Slots -> SUBSET Rights]
    /\ generation \in [Slots -> 1..GenMax]
    /\ place \in [Places -> Objects \cup {None}]
    /\ inner \in [Objects -> Objects \cup {None}]
    /\ alive \in [Tasks -> BOOLEAN]
    /\ pend \in [CPUs -> Objects \cup {None}]
    /\ stack \in [CPUs -> Seq(Objects)]
    /\ op \in [CPUs -> {Idle}
                \cup [fn : {"revoke"}, object : Objects, keep : Places,
                      target : Nat]
                \cup ClosingStates]
    /\ created \in Nat
    /\ born \in [Objects -> Nat]
    /\ granted \in [Objects -> SUBSET Rights]
    /\ stale \in {None} \cup [task : Tasks, index : Index,
                              generation : 1..GenMax, closes : 1..GenMax]

Init ==
    /\ active = [o \in Objects |-> FALSE]
    /\ references = [o \in Objects |-> 0]
    /\ destroy = [o \in Objects |-> FALSE]
    /\ handle = [h \in Slots |-> None]
    /\ rights = [h \in Slots |-> {}]
    /\ generation = [h \in Slots |-> 1]
    /\ place = [p \in Places |-> None]
    /\ inner = [o \in Objects |-> None]
    /\ alive = [t \in Tasks |-> TRUE]
    /\ pend = [c \in CPUs |-> None]
    /\ stack = [c \in CPUs |-> << >>]
    /\ op = [c \in CPUs |-> Idle]
    /\ created = 0
    /\ born = [o \in Objects |-> 0]
    /\ granted = [o \in Objects |-> {}]
    /\ stale = None

(***************************************************************************)
(* Helpers.                                                                *)
(***************************************************************************)
NextGenerationZero(g) == (g + 1) % (GenMax + 1)
NextGenerationKept(g) == g

NextGeneration(g) == IF g = GenMax THEN 1 ELSE g + 1

CanRetain(o) ==
    active[o] /\ references[o] \notin {0, RefMax}

RetainedNotCounted(o) == UNCHANGED objects

Retained(o) ==
    /\ references' = [references EXCEPT ![o] = @ + 1]
    /\ UNCHANGED <<active, destroy>>

\* The slot a first-fit scan of t's table answers.
FirstEmpty(t, i) ==
    /\ handle[<<t, i>>] = None
    /\ \A j \in Index : j < i => handle[<<t, j>>] # None

\* No release and no callback is running on c.
Between(c) == pend[c] = None /\ stack[c] = << >>
Ready(c) == Between(c) /\ op[c] = Idle

PinnedNothing == {}

\* Kernel variables a revoke in progress was called through: its caller holds
\* the lock that owns them (driver supervisor, interface registry).
Pinned == {op[c].keep : c \in {d \in CPUs : op[d].fn = "revoke"}}

\* The slot is emptied under the lock and the release of what it held
\* follows on the same CPU.
ClearSlot(c, t, i) ==
    LET g == generation[<<t, i>>] IN
    /\ handle' = [handle EXCEPT ![<<t, i>>] = None]
    /\ rights' = [rights EXCEPT ![<<t, i>>] = {}]
    /\ generation' = [generation EXCEPT ![<<t, i>>] = NextGeneration(g)]
    /\ pend' = [pend EXCEPT ![c] = handle[<<t, i>>]]
    /\ \/ stale' = [task |-> t, index |-> i, generation |-> g, closes |-> 1]
       \/ stale' = IF /\ stale # None
                      /\ stale.task = t /\ stale.index = i
                      /\ stale.closes < GenMax
                   THEN [task |-> t, index |-> i,
                         generation |-> stale.generation,
                         closes |-> stale.closes + 1]
                   ELSE stale

----------------------------------------------------------------------------
(***************************************************************************)
(* Objects.                                                                *)
(***************************************************************************)
ObjectCreateReusesDying(c, p) ==
    /\ Ready(c) /\ place[p] = None
    /\ created < MaxCreate
    /\ \E o \in Objects, q \in Places :
          /\ references[o] = 0
          /\ \A x \in Objects : x < o => references[x] # 0
          /\ q \notin Pinned
          /\ active' = [active EXCEPT ![o] = TRUE]
          /\ references' = [references EXCEPT ![o] = 1]
          /\ destroy' = [destroy EXCEPT ![o] = TRUE]
          /\ place' = [place EXCEPT ![q] = None, ![p] = o]
          /\ inner' = [inner EXCEPT ![o] = place[q]]
          /\ created' = created + 1
          /\ born' = [born EXCEPT ![o] = created + 1]
          /\ granted' = [granted EXCEPT ![o] = {}]
    /\ UNCHANGED <<handles, alive, pend, stack, op, stale>>

\* object_create: the first inactive slot, born with its creator's reference.
\* A creator may pass a reference it holds (q) on to the payload.
ObjectCreate(c, p) ==
    /\ Ready(c) /\ place[p] = None
    /\ created < MaxCreate
    /\ \E o \in Objects, q \in Places :
          /\ ~active[o]
          /\ \A x \in Objects : x < o => active[x]
          /\ q \notin Pinned
          /\ active' = [active EXCEPT ![o] = TRUE]
          /\ references' = [references EXCEPT ![o] = 1]
          /\ destroy' = [destroy EXCEPT ![o] = TRUE]
          /\ place' = [place EXCEPT ![q] = None, ![p] = o]
          /\ inner' = [inner EXCEPT ![o] = place[q]]
          /\ created' = created + 1
          /\ born' = [born EXCEPT ![o] = created + 1]
          /\ granted' = [granted EXCEPT ![o] = {}]
    /\ UNCHANGED <<handles, alive, pend, stack, op, stale>>

\* object_retain through a pointer the caller holds; a saturated or dying
\* object refuses and nothing changes.
ObjectRetain(c, p, q) ==
    /\ Ready(c) /\ place[p] # None /\ place[q] = None
    /\ CanRetain(place[p])
    /\ Retained(place[p])
    /\ place' = [place EXCEPT ![q] = place[p]]
    /\ UNCHANGED <<handles, inner, alive, pend, stack, op, created, born,
                   granted, stale>>

\* A kernel caller gives up the reference in p: it calls object_release.
ObjectReleaseCall(c, p) ==
    /\ Ready(c) /\ place[p] # None /\ p \notin Pinned
    /\ pend' = [pend EXCEPT ![c] = place[p]]
    /\ place' = [place EXCEPT ![p] = None]
    /\ UNCHANGED <<objects, handles, inner, alive, stack, op, created, born,
                   granted, stale>>

\* First locked region of object_release.
ObjectRelease(c) ==
    LET o == pend[c]
        left == references[o] - 1 IN
    /\ o # None
    /\ pend' = [pend EXCEPT ![c] = None]
    /\ IF ~active[o] \/ references[o] = 0
       THEN UNCHANGED <<references, destroy, stack>>
       ELSE IF left # 0
       THEN /\ references' = [references EXCEPT ![o] = left]
            /\ UNCHANGED <<destroy, stack>>
       ELSE /\ references' = [references EXCEPT ![o] = 0]
            /\ destroy' = [destroy EXCEPT ![o] = FALSE]
            /\ stack' = [stack EXCEPT ![c] = <<o>> \o @]
    /\ UNCHANGED <<active, handles, place, inner, alive, op, created, born, granted,
                   stale>>

\* destroy(object): the callback drops what the payload points to, which is
\* an object_release of its own before the outer one goes on.
Destroy(c) ==
    /\ pend[c] = None /\ stack[c] # << >>
    /\ inner[Head(stack[c])] # None
    /\ pend' = [pend EXCEPT ![c] = inner[Head(stack[c])]]
    /\ inner' = [inner EXCEPT ![Head(stack[c])] = None]
    /\ UNCHANGED <<objects, handles, place, alive, stack, op, created, born,
                   granted, stale>>

ObjectReleaseFinishKeepsSlot(c) ==
    /\ pend[c] = None /\ stack[c] # << >>
    /\ inner[Head(stack[c])] = None
    /\ stack' = [stack EXCEPT ![c] = Tail(@)]
    /\ UNCHANGED <<objects, handles, place, inner, alive, pend, op, created, born,
                   granted, stale>>

\* Second locked region of object_release: the slot goes back to the table.
ObjectReleaseFinish(c) ==
    /\ pend[c] = None /\ stack[c] # << >>
    /\ inner[Head(stack[c])] = None
    /\ active' = [active EXCEPT ![Head(stack[c])] = FALSE]
    /\ stack' = [stack EXCEPT ![c] = Tail(@)]
    /\ UNCHANGED <<references, destroy, handles, place, inner, alive, pend, op, created, born,
                   granted, stale>>

----------------------------------------------------------------------------
(***************************************************************************)
(* Handles.                                                                *)
(***************************************************************************)
HandleOpen(c, t, p, r) ==
    /\ Ready(c) /\ c \in SyscallCPUs /\ alive[t]
    /\ place[p] # None /\ r # {}
    /\ CanRetain(place[p])
    /\ \E i \in Index :
          /\ FirstEmpty(t, i)
          /\ handle' = [handle EXCEPT ![<<t, i>>] = place[p]]
          /\ rights' = [rights EXCEPT ![<<t, i>>] = r]
    /\ Retained(place[p])
    /\ granted' = [granted EXCEPT ![place[p]] = @ \cup r]
    /\ UNCHANGED <<generation, place, inner, alive, pend, stack, op, created, born, stale>>

HandleDuplicateAnyRights(c, source, i, target, r) ==
    /\ Ready(c) /\ c \in SyscallCPUs /\ alive[source] /\ alive[target]
    /\ handle[<<source, i>>] # None
    /\ TRANSFER \in rights[<<source, i>>]
    /\ r # {}
    /\ CanRetain(handle[<<source, i>>])
    /\ \E j \in Index :
          /\ FirstEmpty(target, j)
          /\ handle' = [handle EXCEPT ![<<target, j>>] = handle[<<source, i>>]]
          /\ rights' = [rights EXCEPT ![<<target, j>>] = r]
    /\ Retained(handle[<<source, i>>])
    /\ UNCHANGED <<generation, place, inner, alive, pend, stack, op, created, born,
                   granted, stale>>

HandleDuplicate(c, source, i, target, r) ==
    /\ Ready(c) /\ c \in SyscallCPUs /\ alive[source] /\ alive[target]
    /\ handle[<<source, i>>] # None
    /\ TRANSFER \in rights[<<source, i>>]
    /\ r # {} /\ r \subseteq rights[<<source, i>>]
    /\ CanRetain(handle[<<source, i>>])
    /\ \E j \in Index :
          /\ FirstEmpty(target, j)
          /\ handle' = [handle EXCEPT ![<<target, j>>] = handle[<<source, i>>]]
          /\ rights' = [rights EXCEPT ![<<target, j>>] = r]
    /\ Retained(handle[<<source, i>>])
    /\ UNCHANGED <<generation, place, inner, alive, pend, stack, op, created, born,
                   granted, stale>>

HandleClose(c, t, i) ==
    /\ Ready(c) /\ c \in SyscallCPUs /\ alive[t]
    /\ handle[<<t, i>>] # None
    /\ ClearSlot(c, t, i)
    /\ UNCHANGED <<objects, place, inner, alive, stack, op, created, born,
                   granted>>

\* handle_revoke_object: the active check, then one slot per pass.  What
\* posix_fd_revoke_object releases in between are pointers of the descriptor
\* layer, in place like any other: the same releases before the call.
HandleRevoke(c, p) ==
    /\ Ready(c) /\ place[p] # None /\ active[place[p]]
    /\ op' = [op EXCEPT ![c] = Revoking(place[p], p)]
    /\ UNCHANGED <<objects, handles, place, inner, alive, pend, stack,
                   created, born, granted, stale>>

HandleRevokePass(c) ==
    /\ op[c].fn = "revoke" /\ Between(c)
    /\ \/ \E t \in Tasks, i \in Index :
             /\ handle[<<t, i>>] = op[c].object
             /\ ClearSlot(c, t, i)
             /\ UNCHANGED op
       \/ /\ \A t \in Tasks, i \in Index : handle[<<t, i>>] # op[c].object
          /\ op' = [op EXCEPT ![c] = Idle]
          /\ UNCHANGED <<handles, pend, stale>>
    /\ UNCHANGED <<objects, place, inner, alive, stack, created, born, granted>>

\* terminate64 runs handle_close_all and only then lets the slot become a
\* zombie.  The loop reads each slot without the lock (value 0: slot empty)
\* and handle_close checks the value again under it.
TaskExit(c, t) ==
    /\ Ready(c) /\ c \in SyscallCPUs /\ alive[t]
    /\ op' = [op EXCEPT ![c] = Closing(t, 0, 0)]
    /\ UNCHANGED <<objects, handles, place, inner, alive, pend, stack,
                   created, born, granted, stale>>

HandleCloseAllReadShort(c) ==
    LET t == op[c].task
        i == op[c].index + 1 IN
    /\ op[c].fn = "close_all" /\ op[c].value = 0 /\ Between(c)
    /\ IF i < KHANDLE_MAX
       THEN /\ op' = [op EXCEPT ![c] = Closing(t, i,
                  IF handle[<<t, i>>] = None THEN 0 ELSE generation[<<t, i>>])]
            /\ UNCHANGED alive
       ELSE /\ op' = [op EXCEPT ![c] = Idle]
            /\ alive' = [alive EXCEPT ![t] = FALSE]
    /\ UNCHANGED <<objects, handles, place, inner, pend, stack, created, born,
                   granted, stale>>

HandleCloseAllRead(c) ==
    LET t == op[c].task
        i == op[c].index + 1 IN
    /\ op[c].fn = "close_all" /\ op[c].value = 0 /\ Between(c)
    /\ IF i \in Index
       THEN /\ op' = [op EXCEPT ![c] = Closing(t, i,
                  IF handle[<<t, i>>] = None THEN 0 ELSE generation[<<t, i>>])]
            /\ UNCHANGED alive
       ELSE /\ op' = [op EXCEPT ![c] = Idle]
            /\ alive' = [alive EXCEPT ![t] = FALSE]
    /\ UNCHANGED <<objects, handles, place, inner, pend, stack, created, born,
                   granted, stale>>

HandleCloseAllClose(c) ==
    LET t == op[c].task
        i == op[c].index IN
    /\ op[c].fn = "close_all" /\ op[c].value # 0 /\ Between(c)
    /\ op' = [op EXCEPT ![c] = Closing(t, i, 0)]
    /\ IF /\ handle[<<t, i>>] # None
          /\ generation[<<t, i>>] = op[c].value
       THEN ClearSlot(c, t, i)
       ELSE UNCHANGED <<handles, pend, stale>>
    /\ UNCHANGED <<objects, place, inner, alive, stack, created, born, granted>>

\* The slot of a reaped task is handed to a new one.
TaskCreate(c, t) ==
    /\ Ready(c) /\ c \in SyscallCPUs /\ ~alive[t]
    /\ alive' = [alive EXCEPT ![t] = TRUE]
    /\ UNCHANGED <<objects, handles, place, inner, pend, stack, op, created,
                   born, granted, stale>>

----------------------------------------------------------------------------
ReleaseStep(c) ==
    \/ ObjectRelease(c)
    \/ Destroy(c)
    \/ ObjectReleaseFinish(c)

Continue(c) ==
    \/ ReleaseStep(c)
    \/ HandleRevokePass(c)
    \/ HandleCloseAllRead(c)
    \/ HandleCloseAllClose(c)

Next ==
    \E c \in CPUs :
       \/ \E p \in Places :
             \/ ObjectCreate(c, p)
             \/ ObjectReleaseCall(c, p)
             \/ HandleRevoke(c, p)
       \/ \E p, q \in Places : ObjectRetain(c, p, q)
       \/ \E t \in Tasks, p \in Places, r \in SUBSET Rights :
             HandleOpen(c, t, p, r)
       \/ \E s, t \in Tasks, i \in Index, r \in SUBSET Rights :
             HandleDuplicate(c, s, i, t, r)
       \/ \E t \in Tasks, i \in Index : HandleClose(c, t, i)
       \/ \E t \in Tasks : TaskExit(c, t) \/ TaskCreate(c, t)
       \/ Continue(c)

Fairness == \A c \in CPUs : WF_vars(Continue(c))

Spec == Init /\ [][Next]_vars
FairSpec == Spec /\ Fairness

----------------------------------------------------------------------------
(***************************************************************************)
(* Properties.                                                             *)
(***************************************************************************)
\* The places that can keep a counted pointer, what each points to, and the
\* ones that point to o.
Tokens ==
    ({"handle"} \X Slots) \cup ({"place"} \X Places)
    \cup ({"inner"} \X Objects) \cup ({"release"} \X CPUs)

Pointee(k) ==
    CASE k[1] = "handle" -> handle[k[2]]
      [] k[1] = "place" -> place[k[2]]
      [] k[1] = "inner" -> inner[k[2]]
      [] k[1] = "release" -> pend[k[2]]

Holders(o) == {k \in Tokens : Pointee(k) = o}

\* The reference count of every object is exactly the number of places that
\* hold a counted pointer to it, whatever releases, callbacks and revoke
\* passes are half done on other CPUs (object.c: retain, release, open, close).
ReferencesAreHolders ==
    \A o \in Objects : references[o] = Cardinality(Holders(o))

\* A slot handed back to the table, or one whose destroy callback has started,
\* is named by nobody: object_create cannot recycle a slot under a pointer,
\* and nothing brings a dying object back (comment at object.c:114).
NoDanglingPointer ==
    \A o \in Objects :
        Holders(o) # {} => active[o] /\ references[o] > 0

\* One callback per object: an object is being destroyed on at most one CPU,
\* once, and it is still claimed in the table while that runs.
DestroyedOnce ==
    /\ \A c \in CPUs : \A i \in 1..Len(stack[c]) :
          LET o == stack[c][i] IN
          /\ active[o] /\ references[o] = 0
          /\ ~destroy[o]
          /\ \A d \in CPUs : \A j \in 1..Len(stack[d]) :
                stack[d][j] = o => d = c /\ j = i
    /\ \A o \in Objects :
          active[o] /\ references[o] = 0 =>
             \E c \in CPUs : \E i \in 1..Len(stack[c]) : stack[c][i] = o

\* A revoke only ever closes handles of the object it was called for, although
\* it drops the lock between passes and compares slots with a bare pointer:
\* the caller's own reference keeps the slot from being recycled.
RevokeHitsItsObject ==
    \A c \in CPUs :
        op[c].fn = "revoke" => born[op[c].object] = op[c].target

\* Duplication never widens rights: every handle, however many duplications
\* away, carries only rights handle_open granted for this very object.
RightsNeverGrow ==
    \A t \in Tasks : \A i \in Index :
        handle[<<t, i>>] # None =>
           rights[<<t, i>>] \subseteq granted[handle[<<t, i>>]]

\* A closed handle value resolves to nothing, even once its slot is reused,
\* until the slot has been closed GenMax times (the generation wraps).
StaleHandleStaysDead ==
    stale # None /\ stale.closes < GenMax =>
        ~ /\ handle[<<stale.task, stale.index>>] # None
          /\ generation[<<stale.task, stale.index>>] = stale.generation

\* A task that has exited leaves no handle behind for the next owner of its
\* slot, although handle_close_all reads its table without the lock while
\* another CPU revokes.
DeadTaskHasNoHandle ==
    \A t \in Tasks : ~alive[t] =>
        \A i \in Index : handle[<<t, i>>] = None

\* A handle means what it meant when it was given out: rights only shrink along
\* duplications, an old handle never reaches the slot's next object, a revoke
\* closes the handles of its own object and no other, and a task that is gone
\* has none left.
HandlesSound ==
    /\ TypeOK
    /\ RightsNeverGrow
    /\ StaleHandleStaysDead
    /\ RevokeHitsItsObject
    /\ DeadTaskHasNoHandle

\* An object nobody holds any more goes back to the table, through however
\* many nested destroy callbacks: the table does not leak slots.
UnheldObjectIsFreed ==
    \A o \in Objects :
        (active[o] /\ references[o] = 0) ~> ~active[o]
============================================================================
