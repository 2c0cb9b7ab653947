----------------------------- MODULE MCMachine -----------------------------
(* The machine below the system calls for TLC: the kernel locks and, one at a *)
(* time, the parts that manage processors, memory, interrupts, drivers and    *)
(* disks.  A behaviour belongs to one scope: one part at one size.  The parts *)
(* share no state in the kernel.  Locks, run queue, memory and kernel drivers *)
(* have their own variables, which stay as they were at the start in the      *)
(* other scopes; the others take turns with x1 .. x14, and what a part leaves *)
(* unused stays 0.                                                            *)
EXTENDS Locks, Scheduler, Memory, Modules

CONSTANT Scopes

VARIABLES scope, x1, x2, x3, x4, x5, x6, x7, x8, x9, x10, x11, x12, x13, x14

xvars == <<x1, x2, x3, x4, x5, x6, x7, x8, x9, x10, x11, x12, x13, x14>>
allvars == <<lockvars, schedvars, memvars, modvars, scope, xvars>>

G == INSTANCE Images WITH
       Slots <- {1, 2}, Spaces <- {1, 2, 3}, Frames <- 1 .. 5, Nodes <- {1, 2},
       ImagePages <- {1}, SPAWN_STACK_PAGES <- 2,
       task <- x1, space <- x2, refs <- x3, held <- x4, stage <- x5, call <- x6

\* Multi-message and table interrupts on one processor, and on two.
M == INSTANCE Interrupts WITH
       Cpus <- {1}, Devices <- {1, 2}, Irqs <- 1 .. 3, Msis <- 1 .. 3, Groups <- {1, 2},
       Msixs <- {}, FirstVector <- 6, LastVector <- 9, irq <- x1, msi <- x2, group <- x3,
       msix <- x4, owner <- x5, next <- x6, cpu <- x7, heard <- x8, armed <- x9
T == INSTANCE Interrupts WITH
       Cpus <- {1}, Devices <- {1, 2}, Irqs <- {1, 2}, Msis <- {}, Groups <- {},
       Msixs <- {1, 2}, FirstVector <- 6, LastVector <- 8, irq <- x1, msi <- x2, group <- x3,
       msix <- x4, owner <- x5, next <- x6, cpu <- x7, heard <- x8, armed <- x9
I == INSTANCE Interrupts WITH
       Cpus <- {1, 2}, Devices <- {1}, Irqs <- {1, 2}, Msis <- {1, 2}, Groups <- {1},
       Msixs <- {}, FirstVector <- 6, LastVector <- 8, irq <- x1, msi <- x2, group <- x3,
       msix <- x4, owner <- x5, next <- x6, cpu <- x7, heard <- x8, armed <- x9

\* A driver that restarts and falls back; a driver that needs another one.
D == INSTANCE Drivers WITH
       Devices <- {1}, Manifests <- {1}, Matches <- [m \in {1} |-> {1}],
       Needs <- [m \in {1} |-> {}], Graceful <- {1}, OnFailure <- {1}, Fallback <- {1},
       Triggers <- {"circuit", "limit"}, MaxRestarts <- 1, RepeatLimit <- 2, Pids <- 1 .. 3,
       dom <- x1, binding <- x2, present <- x3, live <- x4, holds <- x5, bus <- x6,
       dying <- x7, sup <- x8, mgr <- x9
E == INSTANCE Drivers WITH
       Devices <- {1, 2}, Manifests <- {1, 2}, Matches <- [m \in {1, 2} |-> {m}],
       Needs <- [m \in {1, 2} |-> IF m = 2 THEN {1} ELSE {}], Graceful <- {}, OnFailure <- {1},
       Fallback <- {}, Triggers <- {}, MaxRestarts <- 1, RepeatLimit <- 2, Pids <- 1 .. 3,
       dom <- x1, binding <- x2, present <- x3, live <- x4, holds <- x5, bus <- x6,
       dying <- x7, sup <- x8, mgr <- x9

\* Two kernel drivers of which one needs the other and matches both devices.
DriverNeeds == [n \in Names |-> IF n = 2 THEN {1} ELSE {}]
DriverPriority == [n \in Names |-> n]
DriverMatches == [n \in Names |-> 1 .. (3 - n)]
DriverRestarts == [n \in Names |-> 1]

\* Three backends with a deep queue, and a capsule.
B == INSTANCE Block WITH
       Slots <- {1, 2}, Clients <- {1, 2}, Lbas <- {1}, Values <- {1, 2},
       Backends <- {"ram", "defer"}, Depth <- 3, MaxGen <- 2,
       dev <- x1, req <- x2, token <- x3, pool <- x4, disk <- x5, sent <- x6, inside <- x7,
       done <- x8, old <- x9, cq <- x10, nv <- x11, irq <- x12, event <- x13, client <- x14
N == INSTANCE Block WITH
       Slots <- {1, 2}, Clients <- {1, 2}, Lbas <- {1}, Values <- {1},
       Backends <- {"nvme"}, Depth <- 2, MaxGen <- 2,
       dev <- x1, req <- x2, token <- x3, pool <- x4, disk <- x5, sent <- x6, inside <- x7,
       done <- x8, old <- x9, cq <- x10, nv <- x11, irq <- x12, event <- x13, client <- x14
C == INSTANCE Block WITH
       Slots <- {1}, Clients <- {1, 2}, Lbas <- {1}, Values <- {1, 2},
       Backends <- {"capsule"}, Depth <- 2, MaxGen <- 2,
       dev <- x1, req <- x2, token <- x3, pool <- x4, disk <- x5, sent <- x6, inside <- x7,
       done <- x8, old <- x9, cq <- x10, nv <- x11, irq <- x12, event <- x13, client <- x14
Q == INSTANCE Cache WITH
       Pages <- {1, 2, 3}, Size <- 2, Contents <- {<<0, 0>>, <<1, 2>>},
       entry <- x1, clock <- x2, disk <- x3, want <- x4

-----------------------------------------------------------------------------
\* The variables a part of that many leaves alone, and that they are blank.
After4 == <<x5, x6, x7, x8, x9, x10, x11, x12, x13, x14>>
After6 == <<x7, x8, x9, x10, x11, x12, x13, x14>>
After9 == <<x10, x11, x12, x13, x14>>
Blank9 == x10 = 0 /\ x11 = 0 /\ x12 = 0 /\ x13 = 0 /\ x14 = 0
Blank6 == x7 = 0 /\ x8 = 0 /\ x9 = 0 /\ Blank9
Blank4 == x5 = 0 /\ x6 = 0 /\ Blank6
Blank0 == x1 = 0 /\ x2 = 0 /\ x3 = 0 /\ x4 = 0 /\ Blank4

Init ==
    /\ scope \in Scopes
    /\ LocksInit /\ SchedulerInit /\ MemoryInit /\ driver_init
    /\ CASE scope \in {"locks", "pair", "heap", "windows", "lists", "modules", "failing"} -> Blank0
         [] scope = "images"   -> G!Init /\ Blank6
         [] scope = "messages" -> M!Init /\ Blank9
         [] scope = "table"    -> T!Init /\ Blank9
         [] scope = "vectors"  -> I!Init /\ Blank9
         [] scope = "restart"  -> D!Init /\ Blank9
         [] scope = "depends"  -> E!Init /\ Blank9
         [] scope = "queue"    -> B!Init
         [] scope = "nvme"     -> N!Init
         [] scope = "capsule"  -> C!Init
         [] scope = "cache"    -> Q!block_cache_init /\ Blank4

-----------------------------------------------------------------------------
(* Processor 0 and one with a pinned task.                                    *)

Woken == {{}} \cup {{t} : t \in PoolSlots}

Scheduling ==
    /\ scope = "pair"
    /\ \/ timer64_dispatch \/ Dispatches(Woken) \/ Calls \/ Interrupts(Woken)
       \/ \E c \in Aps : Pinned(c)

-----------------------------------------------------------------------------
(* Three address spaces that fork off each other; two objects with windows in *)
(* two spaces; two objects with pins and lists.                               *)

Ats == {<<[o |-> 1, i |-> 1]>>, <<[o |-> 1, i |-> 2], [o |-> 2, i |-> 1]>>,
        <<[o |-> 2, i |-> 1], [o |-> 2, i |-> 1]>>}

Storage ==
    \/ scope = "heap" /\ HeapSteps
    \/ scope \in {"windows", "lists"} /\ ObjectSteps
    \/ scope = "windows" /\ WindowSteps({1, 2})
    \/ scope = "lists" /\ ListSteps(Ats)

Programs == scope = "images" /\ G!Next /\ UNCHANGED After6

-----------------------------------------------------------------------------
(* Interrupts: steps of the calls and of the dispatch on a processor.         *)

Messages ==
    /\ scope = "messages"
    /\ \/ \E d \in {1, 2}, n \in {1, 2} : (d = 2 => n = 2) /\ M!msi64_create_group(1, d, n)
       \/ M!program(1) \/ M!release(1) \/ M!irq_resource_signal(1) \/ M!dispatch_mask(1)
       \/ \E i \in 1 .. 3 : \/ M!irq_destroy(1, i) \/ M!irq_resource_bind(1, i)
                            \/ M!irq_resource_unbind(1, i) \/ M!bridge_endpoint_read(1, i)
                            \/ (\E m \in BOOLEAN : M!irq_resource_set_mask(1, i, m))
       \/ \E v \in 6 .. 9 : M!irq64_dispatch(1, v)
    /\ UNCHANGED After9

Table ==
    /\ scope = "table"
    /\ \/ \E d \in {1, 2}, es \in {<<1>>, <<2>>, <<1, 2>>} : T!msix64_create_group(1, d, es)
       \/ T!program(1) \/ T!release(1) \/ T!discard(1) \/ T!irq_resource_signal(1) \/ T!dispatch_mask(1)
       \/ \E i \in {1, 2} : \/ T!irq_destroy(1, i) \/ T!irq_resource_bind(1, i)
                            \/ T!irq_resource_unbind(1, i) \/ T!bridge_endpoint_read(1, i)
                            \/ (\E m \in BOOLEAN : T!irq_resource_set_mask(1, i, m))
       \/ \E v \in 6 .. 8 : T!irq64_dispatch(1, v)
    /\ UNCHANGED After9

Vectors ==
    /\ scope = "vectors"
    /\ \E c \in {1, 2} :
       \/ \E n \in {1, 2} : I!msi64_create_group(c, 1, n)
       \/ I!program(c) \/ I!release(c) \/ I!discard(c) \/ I!irq_resource_signal(c) \/ I!dispatch_mask(c)
       \/ \E i \in {1, 2} : \/ I!irq_destroy(c, i) \/ I!irq_resource_bind(c, i)
                            \/ I!irq_resource_unbind(c, i) \/ I!bridge_endpoint_read(c, i)
                            \/ (\E m \in BOOLEAN : I!irq_resource_set_mask(c, i, m))
       \/ \E v \in 6 .. 8 : I!irq64_dispatch(c, v)
    /\ UNCHANGED After9

-----------------------------------------------------------------------------
(* Drivers in tasks: the supervisor, the manager, and drivers that die.       *)

Restart ==
    /\ scope = "restart"
    /\ \/ D!terminate_task \/ D!driver_supervisor_tick(1) \/ D!driver_domain_quarantine(1)
       \/ D!driver_manager_start_all \/ D!driver_manager_set_devices(1)
       \/ D!driver_manager_stop_device(1) \/ D!driver_manager_restart_device(1)
       \/ D!driver_manager_restart_again \/ D!DisableBinding
       \/ D!driver_manager_device_removed(1) \/ D!driver_manager_remove_again
       \/ D!driver_manager_tick \/ D!TickLook \/ D!TickAct
       \/ \E p \in 1 .. 3 :
            \/ D!driver_domain_stop_ack(p) \/ D!driver_supervisor_task_died(p)
            \/ D!EnableBus(p, 1) \/ D!driver_manager_task_exiting(p) \/ D!Gone(p)
            \/ \E death \in {"clean", "exit", "fault"} : D!terminate64(p, death)
    /\ UNCHANGED After9

Depends ==
    /\ scope = "depends"
    /\ \/ E!terminate_task \/ E!driver_manager_start_all \/ E!driver_manager_restart_again
       \/ E!DisableBinding \/ E!driver_manager_tick \/ E!TickLook \/ E!TickAct
       \/ \E d \in {1, 2} : \/ E!driver_supervisor_tick(d) \/ E!driver_manager_stop_device(d)
                            \/ E!driver_manager_restart_device(d)
       \/ \E p \in 1 .. 3 :
            \/ E!driver_supervisor_task_died(p) \/ E!driver_manager_task_exiting(p) \/ E!Gone(p)
            \/ \E q \in 1 .. 3, d \in {1, 2} : E!Grant(p, q, d)
            \/ \E death \in {"clean", "fault"} : E!terminate64(p, death)
    /\ UNCHANGED After9

\* Drivers in the kernel.  One processor takes the modules in order, as the boot
\* does, while the other binds, starts and unbinds.  An instance fails only while
\* the other is not in a call: driver_instance_failed takes no reference on it.
Kernel ==
    /\ scope \in {"modules", "failing"}
    /\ \E c \in IF scope = "modules" THEN {1, 2} ELSE {1} :
         CallSteps(c) \/ (c = 1 /\ StartAllSteps(c)) \/ (scope = "failing" /\ FailureSteps(c))

-----------------------------------------------------------------------------
(* Requests to a disk.                                                        *)

Queue ==
    /\ scope = "queue"
    /\ \/ \E c \in {1, 2} :
            \/ \E a \in {1}, v \in {1, 2}, list \in BOOLEAN :
                 B!block_submit(c, "write", a, v, list) \/ (v = 1 /\ B!block_submit(c, "read", a, v, list))
            \/ B!block_service(c) \/ B!block_collect(c) \/ B!Return(c) \/ B!event_wait(c) \/ B!GiveUp(c)
       \/ B!block_revoke \/ B!block_rebind

Nvme ==
    /\ scope = "nvme"
    /\ \/ \E c \in {1, 2} :
            \/ (c = 1 /\ N!block_submit(c, "read", 1, 1, TRUE)) \/ N!block_submit(c, "write", 1, 1, FALSE)
            \/ N!block_service(c) \/ N!block_collect(c) \/ N!Return(c) \/ N!event_wait(c) \/ N!GiveUp(c)
       \/ N!take
       \/ \E k \in x7, ok \in BOOLEAN : N!nvme_complete(k, ok)

Capsule ==
    /\ scope = "capsule"
    /\ \/ \E c \in {1, 2} :
            \/ \E v \in {1, 2}, list \in BOOLEAN :
                 C!block_submit(c, "write", 1, v, list) \/ (v = 1 /\ C!block_submit(c, "read", 1, v, list))
            \/ C!block_service(c) \/ C!block_collect(c) \/ C!Return(c) \/ C!event_wait(c) \/ C!GiveUp(c)
       \/ C!block_revoke \/ C!block_rebind \/ C!take
       \/ \E k \in x7, ok \in BOOLEAN : C!capsule_complete(k, ok)
       \/ \E id \in x9 : C!capsule_again(id)

Caching == scope = "cache" /\ Q!Next /\ UNCHANGED After4

Part ==
    \/ Programs \/ Messages \/ Table \/ Vectors
    \/ Restart \/ Depends \/ Queue \/ Nvme \/ Capsule \/ Caching

Next ==
    \/ scope = "locks" /\ LocksNext /\ UNCHANGED <<schedvars, memvars, modvars, scope, xvars>>
    \/ Scheduling /\ UNCHANGED <<lockvars, memvars, modvars, scope, xvars>>
    \/ Storage /\ UNCHANGED <<lockvars, schedvars, modvars, scope, xvars>>
    \/ Kernel /\ UNCHANGED <<lockvars, schedvars, memvars, scope, xvars>>
    \/ Part /\ UNCHANGED <<lockvars, schedvars, memvars, modvars, scope>>

Spec == Init /\ [][Next]_allvars

-----------------------------------------------------------------------------

\* A program is loaded completely or not at all.  An exec replaces everything or
\* nothing: "nothing below can fail, so descriptors and the old image are intact
\* for every failure path above" (posix_execve64); and when a spawn, fork or exec
\* has failed at any of its steps, frames, address spaces and node references
\* are counted exactly, nothing of it is left behind.
LoadsAllOrNothing == [][scope = "images" => G!ExecStep /\ G!ImagesExact']_allvars

\* A vector a device can raise is owned by a live irq of that device, no
\* creation that failed half-way or group that lost a member leaves one behind;
\* and, on one processor, a driver that opened its interrupt hears it: the mask
\* of the dispatch never outlives the unmask that answers it.
VectorsOwned ==
    /\ scope = "messages" => M!OwnersExact /\ M!RaisedIsOwned /\ M!HearsDevice
    /\ scope = "table" => T!OwnersExact /\ T!RaisedIsOwned /\ T!HearsDevice
    /\ scope = "vectors" => I!OwnersExact /\ I!RaisedIsOwned

\* A device has at most one driver, whatever dies, restarts, falls back or is
\* unplugged meanwhile; without one it is quiet and no task holds a handle on
\* it; and a callback of a kernel driver owns its instance.
OneDriver ==
    /\ scope = "restart" => D!OneDriver /\ D!QuietUnlessRunning
    /\ scope = "depends" => E!OneDriver /\ E!QuietUnlessRunning
    /\ scope \in {"modules", "failing"} => CallbackOwnsInstance /\ OneInstanceOfDevice

\* An answer belongs to its request and a read returns bytes that were on the
\* disk, through late, repeated and stale completions; and the page cache in
\* front of the disk answers with what was last written, whatever was evicted
\* and whichever write-back failed.
AnswerIsOwn ==
    /\ scope = "queue" => B!AnswerIsOwn
    /\ scope = "nvme" => N!AnswerIsOwn
    /\ scope = "capsule" => C!AnswerIsOwn
    /\ scope = "cache" => Q!CacheCoherent

\* A pending request is with its backend or its completion is still to be read,
\* and a completion nobody has read has woken somebody who will.
NoRequestForgotten ==
    /\ scope = "nvme" => N!PendingIsInFlight /\ N!NoneStranded
    /\ scope = "capsule" => C!PendingIsInFlight
=============================================================================
