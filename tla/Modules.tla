------------------------------ MODULE Modules -------------------------------
(***************************************************************************)
(* In-kernel driver modules (driver/driver.c): registration with a         *)
(* manifest, instances bound to devices, and the callbacks of a module.    *)
(* Every table access is under the module lock and is one step; a probe,   *)
(* start or stop callback runs with the lock released, so a call is        *)
(* several steps and calls of other processors come in between.  An        *)
(* instance whose callback runs is BUSY.                                   *)
(***************************************************************************)
EXTENDS Naturals, FiniteSets, Sequences

CONSTANTS Cpus, Devices,
          Modules,       \* 1 .. DRIVER_MODULE_MAX
          Instances,     \* 1 .. DRIVER_INSTANCE_MAX
          Names,         \* names of drivers; a manifest for each
          Needs,         \* [Names -> SUBSET Names]: dependencies
          Priority,      \* [Names -> Nat]
          Matches,       \* [Names -> SUBSET Devices]
          Restarts,      \* [Names -> Nat]: max_restarts, zero without the policy
          Stops          \* names with a stop callback

ASSUME ModulesAssumption ==
    /\ Modules \subseteq Nat /\ IsFiniteSet(Modules)
    /\ Instances \subseteq Nat /\ IsFiniteSet(Instances)
    /\ Devices \subseteq Nat /\ Priority \in [Names -> Nat]

VARIABLES module,     \* [Modules -> [name, instances, done]], NoDriver when inactive
          instance,   \* [Instances -> struct driver_instance], NoDriver when inactive
          in_call     \* [Cpus -> the call a processor is in]

modvars == <<module, instance, in_call>>

NoDriver == [on |-> FALSE]
Idle == [pc |-> "idle"]
At(c, pc) == in_call[c].pc = pc
Goto(c, r) == in_call' = [in_call EXCEPT ![c] = r]
FreeSlots(S, f) == {x \in S : f[x] = NoDriver}
Lowest(S) == CHOOSE x \in S : \A y \in S : x <= y

driver_init ==
    /\ module = [m \in Modules |-> NoDriver]
    /\ instance = [i \in Instances |-> NoDriver]
    /\ in_call = [c \in Cpus |-> Idle]

driver_register_manifest(c, n) ==
    /\ At(c, "idle") /\ n \notin Needs[n]
    /\ \A m \in Modules : module[m].on => module[m].name # n
    /\ FreeSlots(Modules, module) # {}
    /\ module' = [module EXCEPT ![Lowest(FreeSlots(Modules, module))] =
                    [on |-> TRUE, name |-> n, instances |-> 0, done |-> FALSE]]
    /\ UNCHANGED <<instance, in_call>>

driver_unregister(c, m) ==
    /\ At(c, "idle") /\ module[m].on /\ module[m].instances = 0
    /\ module' = [module EXCEPT ![m] = NoDriver]
    /\ UNCHANGED <<instance, in_call>>

-----------------------------------------------------------------------------
(* Calls in steps.  "then" is what the caller of a step goes on with: the  *)
(* rest of an autobind, or nothing.                                        *)

\* The probe of module m looks at device d, the lock released.
driver_bind(c, m, d, then) == Goto(c, [pc |-> "probe", m |-> m, d |-> d, then |-> then])

Bind(c, m, d) == At(c, "idle") /\ module[m].on /\ driver_bind(c, m, d, Idle) /\ UNCHANGED <<module, instance>>

driver_bind_unchecked(c) ==
    LET m == in_call[c].m  d == in_call[c].d IN
    /\ At(c, "probe") /\ FreeSlots(Instances, instance) # {}
    /\ instance' = [instance EXCEPT ![Lowest(FreeSlots(Instances, instance))] =
         [on |-> TRUE, module |-> m, state |-> "STOPPED", device |-> d, restarts |-> 0]]
    /\ Goto(c, in_call[c].then)
    /\ UNCHANGED module

\* The probe agrees, and the instance is made unless the module or the device
\* was lost meanwhile.
driver_bind_locked(c) ==
    LET m == in_call[c].m  d == in_call[c].d IN
    /\ At(c, "probe")
    /\ \/ /\ module[m].on /\ FreeSlots(Instances, instance) # {}
          /\ \A i \in Instances : instance[i].on => instance[i].device # d
          /\ \E i \in {Lowest(FreeSlots(Instances, instance))} :
               /\ instance' = [instance EXCEPT ![i] =
                    [on |-> TRUE, module |-> m, state |-> "STOPPED", device |-> d, restarts |-> 0]]
               /\ Goto(c, IF in_call[c].then = Idle THEN Idle
                          ELSE [pc |-> "bound", i |-> i, then |-> in_call[c].then])
          /\ module' = [module EXCEPT ![m].instances = @ + 1]
       \/ Goto(c, in_call[c].then) /\ UNCHANGED <<module, instance>>

driver_start_claim_locked(i) ==
    instance[i].on /\ instance[i].state = "STOPPED" /\ module[instance[i].module].on

\* driver_start, and the start that an autobind makes of a new instance.
driver_start(c, i) ==
    /\ At(c, "idle") \/ (At(c, "bound") /\ in_call[c].i = i)
    /\ LET then == IF At(c, "bound") THEN in_call[c].then ELSE Idle IN
       IF driver_start_claim_locked(i)
       THEN /\ instance' = [instance EXCEPT ![i].state = "BUSY"]
            /\ Goto(c, [pc |-> "start", i |-> i, then |-> then])
       ELSE /\ Goto(c, IF then = Idle THEN Idle ELSE [pc |-> "unbind", i |-> i, then |-> then])
            /\ UNCHANGED instance
    /\ UNCHANGED module

\* The start callback returns, with or without success.
driver_start_done(c, ok) ==
    /\ At(c, "start")
    /\ LET i == in_call[c].i  then == in_call[c].then IN
       /\ instance' = IF instance[i].on /\ instance[i].state = "BUSY"
                      THEN [instance EXCEPT ![i].state = IF ok THEN "RUNNING" ELSE "STOPPED"]
                      ELSE instance
       /\ Goto(c, IF ok \/ then = Idle THEN then ELSE [pc |-> "unbind", i |-> i, then |-> then])
    /\ UNCHANGED module

\* driver_stop, for a stop, an unbind, a removed device or a failure.
driver_stop_claim_locked(i) ==
    /\ instance[i].on /\ instance[i].state = "RUNNING"
    /\ module[instance[i].module].name \in Stops

driver_stop(c, i, then) ==
    IF driver_stop_claim_locked(i)
    THEN /\ instance' = [instance EXCEPT ![i].state = "BUSY"]
         /\ Goto(c, [pc |-> "stop", i |-> i, then |-> then])
    ELSE /\ instance' = IF instance[i].on /\ instance[i].state = "RUNNING"
                        THEN [instance EXCEPT ![i].state = "STOPPED"] ELSE instance
         /\ Goto(c, then)

Stop(c, i) == At(c, "idle") /\ driver_stop(c, i, Idle) /\ UNCHANGED module

\* The stop callback returns.
driver_stop_done(c) ==
    /\ At(c, "stop")
    /\ LET i == in_call[c].i IN
       instance' = IF instance[i].on /\ instance[i].state = "BUSY"
                   THEN [instance EXCEPT ![i].state = "STOPPED"] ELSE instance
    /\ Goto(c, in_call[c].then)
    /\ UNCHANGED module

\* driver_unbind and driver_device_removed: stop, then unbind.
driver_unbind(c, i) ==
    /\ \/ At(c, "idle") /\ driver_stop(c, i, [pc |-> "release", i |-> i, then |-> Idle])
       \/ At(c, "unbind") /\ in_call[c].i = i
          /\ driver_stop(c, i, [pc |-> "release", i |-> i, then |-> in_call[c].then])
    /\ UNCHANGED module

driver_unbind_locked(c) ==
    LET i == in_call[c].i  m == instance[i].module IN
    /\ At(c, "release") /\ Goto(c, in_call[c].then)
    /\ IF instance[i].on /\ instance[i].state # "BUSY"
       THEN /\ instance' = [instance EXCEPT ![i] = NoDriver]
            /\ module' = IF module[m].on /\ module[m].instances > 0
                         THEN [module EXCEPT ![m].instances = @ - 1] ELSE module
       ELSE UNCHANGED <<module, instance>>

\* driver_instance_failed: stop, then restart while the manifest allows it.
driver_instance_failed(c, i) ==
    /\ At(c, "idle") /\ instance[i].on
    /\ driver_stop(c, i, [pc |-> "failed", i |-> i, then |-> Idle])
    /\ UNCHANGED module

driver_instance_failed_done(c) ==
    LET i == in_call[c].i IN
    /\ At(c, "failed")
    /\ IF ~instance[i].on THEN Goto(c, Idle) /\ UNCHANGED instance
       ELSE LET again == instance[i].restarts < Restarts[module[instance[i].module].name] IN
            /\ instance' = [instance EXCEPT ![i].state = IF again THEN "STOPPED" ELSE "FAILED",
                                            ![i].restarts = IF again THEN instance[i].restarts + 1 ELSE instance[i].restarts]
            /\ Goto(c, IF again THEN [pc |-> "bound", i |-> i, then |-> Idle] ELSE Idle)
    /\ UNCHANGED module

-----------------------------------------------------------------------------
(* driver_start_all: the modules in order of dependency and priority, each *)
(* offered every device it matches.                                        *)

dependencies_ready(m) ==
    \A n \in Needs[module[m].name] : \E k \in Modules : module[k].on /\ module[k].done /\ module[k].name = n

driver_start_all(c) ==
    /\ At(c, "idle")
    /\ module' = [m \in Modules |-> IF module[m].on THEN [module[m] EXCEPT !.done = FALSE] ELSE NoDriver]
    /\ Goto(c, [pc |-> "pick", left |-> Cardinality({m \in Modules : module[m].on})])
    /\ UNCHANGED instance

\* A module with its dependencies done and the lowest priority; none, or none
\* left, ends the call.
start_all_pick(c) ==
    LET ready == {m \in Modules : module[m].on /\ ~module[m].done /\ dependencies_ready(m)}
        first == {m \in ready : \A k \in ready : Priority[module[m].name] <= Priority[module[k].name]}
    IN  /\ At(c, "pick")
        /\ Goto(c, IF in_call[c].left = 0 \/ ready = {} THEN Idle
                   ELSE [pc |-> "offer", m |-> Lowest(first), rest |-> Devices, left |-> in_call[c].left])
        /\ UNCHANGED <<module, instance>>

driver_autobind(c) ==
    LET m == in_call[c].m IN
    /\ At(c, "offer") /\ in_call[c].rest # {}
    /\ \E d \in {Lowest(in_call[c].rest)} :
         LET then == [in_call[c] EXCEPT !.rest = @ \ {d}] IN
         IF in_call[c].rest = Devices /\ ~(module[m].on /\ dependencies_ready(m)) THEN Goto(c, Idle)
         ELSE IF module[m].on /\ d \in Matches[module[m].name] THEN driver_bind(c, m, d, then)
         ELSE Goto(c, then)
    /\ UNCHANGED <<module, instance>>

autobind_done(c) ==
    LET m == in_call[c].m IN
    /\ At(c, "offer") /\ in_call[c].rest = {}
    /\ module' = IF module[m].on THEN [module EXCEPT ![m].done = TRUE] ELSE module
    /\ Goto(c, [pc |-> "pick", left |-> in_call[c].left - 1])
    /\ UNCHANGED instance

-----------------------------------------------------------------------------
CallSteps(c) ==
    \/ \E n \in Names : driver_register_manifest(c, n)
    \/ \E m \in Modules : driver_unregister(c, m) \/ (\E d \in Devices : Bind(c, m, d))
    \/ \E i \in Instances : driver_start(c, i) \/ Stop(c, i) \/ driver_unbind(c, i)
    \/ driver_bind_locked(c) \/ driver_stop_done(c) \/ driver_unbind_locked(c)
    \/ \E ok \in BOOLEAN : driver_start_done(c, ok)

StartAllSteps(c) == driver_start_all(c) \/ start_all_pick(c) \/ driver_autobind(c) \/ autobind_done(c)

FailureSteps(c) ==
    (\E i \in Instances : driver_instance_failed(c, i)) \/ driver_instance_failed_done(c)

\* An instance fails only where there is no other processor to be in a call:
\* driver_instance_failed takes no reference on it.
ModulesNext == \E c \in Cpus : CallSteps(c) \/ StartAllSteps(c) \/ (Cpus = {c} /\ FailureSteps(c))
ModulesSpec == driver_init /\ [][ModulesNext]_modvars

-----------------------------------------------------------------------------

\* While a start or stop callback runs, its instance is bound and claimed, and
\* no other callback of it runs; the module it is code of is registered and
\* counts exactly its instances, so it cannot be unregistered.
CallbackOwnsInstance ==
    /\ \A m \in Modules : module[m].on =>
         module[m].instances = Cardinality({i \in Instances : instance[i].on /\ instance[i].module = m})
    /\ \A i \in Instances : instance[i].on => module[instance[i].module].on
    /\ \A c \in Cpus : in_call[c].pc \in {"start", "stop"} =>
         /\ instance[in_call[c].i].on /\ instance[in_call[c].i].state = "BUSY"
         /\ \A k \in Cpus \ {c} : in_call[k].pc \in {"start", "stop"} => in_call[k].i # in_call[c].i

\* A device has one instance.
OneInstanceOfDevice ==
    \A i, j \in Instances : instance[i].on /\ instance[j].on /\ i # j => instance[i].device # instance[j].device
=============================================================================
