------------------------------ MODULE Drivers ------------------------------
(***************************************************************************)
(* Userspace drivers: the domains of the supervisor, the bindings of the   *)
(* manager, the driver tasks and what they can reach of their device.      *)
(*                                                                         *)
(* Two locks nest, manager outside supervisor.  A manager operation holds  *)
(* its own lock throughout and takes the supervisor's once per call, so    *)
(* deaths reported by other processors and the supervisor's tick fall in   *)
(* between (`mgr`).  A supervisor operation that ends a task does it while *)
(* holding the lock with the terminating flag raised (`sup`); terminate64  *)
(* on any processor reads that flag without the lock.                      *)
(*                                                                         *)
(* Ticks are nondeterministic: a deadline has passed when the tick says so.*)
(* A crash fingerprint is the choice "same as the last, within the window".*)
(***************************************************************************)
EXTENDS Naturals, FiniteSets

CONSTANTS Devices,        \* 1 .. N
          Manifests,      \* registered driver manifests
          Matches,        \* [Manifests -> SUBSET Devices]
          Needs,          \* [Manifests -> SUBSET Manifests], acyclic
          Graceful,       \* manifests with DRIVER_MANIFEST_GRACEFUL_STOP
          OnFailure,      \* manifests with DRIVER_RESTART_ON_FAILURE
          Fallback,       \* manifests with a recovery fallback
          Triggers,       \* fallback_triggers, out of "circuit", "limit"
          MaxRestarts, RepeatLimit,
          Pids            \* task ids, 1 .. K, used once each

VARIABLES dom,      \* [Devices -> struct driver_domain]
          binding,  \* [Devices -> struct manager_binding]
          present,  \* managed_devices
          live,     \* {<<pid, device>>} : driver tasks not yet gone
          holds,    \* {<<pid, device>>} : the task has handles on the bundle
          bus,      \* devices that may interrupt and master the bus
          dying,    \* [Pids -> where terminate64 is, and the death]
          sup,      \* what the holder of the supervisor lock does
          mgr       \* what the holder of the manager lock does

vars == <<dom, binding, present, live, holds, bus, dying, sup, mgr>>

NoDomain == [state |-> "none", pid |-> 0, m |-> 0, restarts |-> 0, repeat |-> 0,
             fallback |-> FALSE, ack |-> FALSE]
NoBinding == [m |-> 0, enabled |-> FALSE]
Free == [op |-> "free"]

Init ==
    /\ dom = [d \in Devices |-> NoDomain]
    /\ binding = [d \in Devices |-> NoBinding]
    /\ present = Devices
    /\ live = {} /\ holds = {} /\ bus = {}
    /\ dying = [p \in Pids |-> "no"]
    /\ sup = Free /\ mgr = [op |-> "start"]

Now == [D |-> dom, L |-> live, H |-> holds, B |-> bus]   \* what the supervisor changes
Become(n) == dom' = n.D /\ live' = n.L /\ holds' = n.H /\ bus' = n.B

-----------------------------------------------------------------------------
(* The supervisor (driver_supervisor.c).                                      *)

Lives(n, p) == \E d \in Devices : <<p, d>> \in n.L
Unused == {p \in Pids : dying[p] = "no" /\ ~Lives(Now, p)}
NextPid == CHOOSE p \in Unused : \A q \in Unused : p <= q

\* spawn_backend, a new generation, the bundle of handles.
launched(n, d, p) ==
    [n EXCEPT !.D[d].state = "running", !.D[d].pid = p, !.D[d].ack = FALSE,
              !.L = @ \cup {<<p, d>>}, !.H = @ \cup {<<p, d>>}]

teardown_own_handles(n, d, quiet) ==
    [n EXCEPT !.H = {h \in @ : h[1] # n.D[d].pid},
              !.B = IF quiet THEN @ \ {d} ELSE @,
              !.D[d].pid = 0, !.D[d].ack = FALSE]

\* Interrupts are masked and the device quiesced, the mappings and every handle
\* on the bundle revoked, the device reset, the bridge replaced.  quiet: the
\* masking and the quiesce worked; the other steps run either way.
teardown(n, d, quiet) ==
    [n EXCEPT !.H = {h \in @ : h[2] # d /\ h[1] # n.D[d].pid},
              !.B = IF quiet THEN @ \ {d} ELSE @,
              !.D[d].pid = 0, !.D[d].ack = FALSE]

\* terminate_task: the flag goes up, and the lock stays held until it is down.
Terminating(d, p, then) == [op |-> "terminate", d |-> d, p |-> p, then |-> then]

\* launch: the outcomes are a running driver, no task, and a task that could not
\* be given its handles and is ended again.
Failed(n, d) == [n EXCEPT !.D[d].state = "failed"]
launch(n, d) ==
    {[n |-> Failed(n, d), s |-> Free, ok |-> FALSE]} \cup
    IF Unused = {} THEN {}
    ELSE {[n |-> launched(n, d, NextPid), s |-> Free, ok |-> TRUE],
          [n |-> [Failed(n, d) EXCEPT !.L = @ \cup {<<NextPid, d>>}],
           s |-> Terminating(d, NextPid, "launch"), ok |-> FALSE]}

driver_domain_start(n, d) ==
    IF n.D[d].state = "stopped" THEN launch(n, d)
    ELSE {[n |-> n, s |-> Free, ok |-> FALSE]}

\* driver_domain_stop up to the call of terminate_task.  A failed teardown
\* quarantines the domain and leaves the task alone.
driver_domain_stop(n, d, quiet) ==
    IF n.D[d].state = "quarantined" THEN [n |-> n, s |-> Free, ok |-> FALSE]
    ELSE IF n.D[d].state \notin {"running", "stopping"}
         THEN [n |-> [n EXCEPT !.D[d].state = "stopped"], s |-> Free, ok |-> TRUE]
    ELSE LET t == teardown(n, d, quiet)
         IN  IF quiet THEN [n |-> [t EXCEPT !.D[d].state = "stopped"],
                            s |-> Terminating(d, n.D[d].pid, "stop"), ok |-> TRUE]
             ELSE [n |-> [t EXCEPT !.D[d].state = "quarantined"], s |-> Free, ok |-> FALSE]

\* supervisor64_terminate ends the task, or refuses one that is gone already or
\* is the task this processor was running; a refusal quarantines a domain that
\* was being stopped.  The manager goes on if the call was its own.
terminate_task ==
    /\ sup.op = "terminate"
    /\ \E ok \in BOOLEAN :
         /\ ok => <<sup.p, sup.d>> \in live
         /\ sup.then = "launch" /\ <<sup.p, sup.d>> \in live => ok   \* nobody runs it yet
         /\ live' = IF ok THEN live \ {<<sup.p, sup.d>>} ELSE live
         /\ holds' = IF ok THEN {h \in holds : h[1] # sup.p} ELSE holds
         /\ dom' = IF ok \/ sup.then # "stop" THEN dom
                   ELSE [dom EXCEPT ![sup.d].state = "quarantined"]
         /\ dying' = IF ok /\ dying[sup.p] = "no" THEN [dying EXCEPT ![sup.p] = "gone"]
                     ELSE dying
         /\ mgr' = CASE mgr.op # "wait" -> mgr
                     [] mgr.op = "wait" /\ (ok \/ sup.then = "launch") -> mgr.next
                     [] OTHER -> mgr.refused
    /\ sup' = Free
    /\ UNCHANGED <<binding, present, bus>>

\* request_stop signals the bridge; the driver may acknowledge.
driver_domain_request_stop(n, d) ==
    IF n.D[d].state = "running" THEN [n EXCEPT !.D[d].state = "stopping", !.D[d].ack = FALSE]
    ELSE n

driver_domain_stop_ack(p) ==
    /\ sup = Free /\ dying[p] = "no"
    /\ \E d \in Devices :
         /\ <<p, d>> \in live
         /\ dom[d].state = "stopping" /\ dom[d].pid = p /\ ~dom[d].ack
         /\ dom' = [dom EXCEPT ![d].ack = TRUE]
    /\ UNCHANGED <<binding, present, live, holds, bus, dying, sup, mgr>>

crash_repeat(x, death, same) ==
    IF death # "fault" \/ x.state # "running" THEN 0
    ELSE IF x.repeat > 0 /\ same THEN x.repeat + 1 ELSE 1

recovery_fallback_activate(x, trigger, selected) ==
    x.m \in Fallback /\ ~x.fallback /\ trigger \in Triggers /\ selected

\* The state a domain goes to after its task's death and a clean teardown.
AfterDeath(x, death, r, selected) ==
    LET Fall == [x EXCEPT !.state = "backoff", !.fallback = TRUE, !.repeat = 0]
        Fail == [x EXCEPT !.state = "failed", !.repeat = r]
    IN  IF x.state = "stopping"
        THEN [x EXCEPT !.state = IF death = "clean" /\ x.ack THEN "stopped" ELSE "failed",
                       !.repeat = IF death = "clean" THEN @ ELSE r]
        ELSE IF death = "clean" THEN [x EXCEPT !.state = "stopped", !.repeat = 0]
        ELSE IF r >= RepeatLimit
             THEN IF recovery_fallback_activate(x, "circuit", selected) THEN Fall ELSE Fail
        ELSE IF x.m \notin OnFailure THEN Fail
        ELSE IF x.restarts >= MaxRestarts
             THEN IF recovery_fallback_activate(x, "limit", selected) THEN Fall ELSE Fail
        ELSE [x EXCEPT !.state = "backoff", !.restarts = @ + 1, !.repeat = r]

driver_supervisor_task_died(p) ==
    /\ sup = Free /\ dying[p] \in {"died clean", "died exit", "died fault"}
    /\ LET death == CASE dying[p] = "died clean" -> "clean"
                      [] dying[p] = "died exit"  -> "exit"
                      [] dying[p] = "died fault" -> "fault"
       IN  \/ /\ \A d \in Devices : ~(dom[d].pid = p /\ dom[d].state \in {"running", "stopping"})
              /\ UNCHANGED <<dom, holds, bus>>
           \/ \E d \in Devices, quiet, same, selected \in BOOLEAN :
                LET x == dom[d]
                    n == teardown(Now, d, quiet)
                    y == IF quiet THEN AfterDeath(x, death, crash_repeat(x, death, same), selected)
                         ELSE [x EXCEPT !.state = "quarantined"]
                IN  /\ x.pid = p /\ x.state \in {"running", "stopping"}
                    /\ dom' = [dom EXCEPT ![d] = [y EXCEPT !.pid = 0, !.ack = FALSE]]
                    /\ holds' = n.H /\ bus' = n.B
    /\ dying' = [dying EXCEPT ![p] = "tick"]
    /\ UNCHANGED <<binding, present, live, sup, mgr>>

\* One domain of the supervisor's tick: a stop that ran out of time, or a
\* restart that is due.
driver_supervisor_tick(d) ==
    /\ sup = Free
    /\ \/ /\ dom[d].state = "stopping"
          /\ \E quiet \in BOOLEAN :
               LET r == driver_domain_stop(Now, d, quiet)
               IN  Become(r.n) /\ sup' = r.s
       \/ /\ dom[d].state = "backoff"
          /\ \E r \in launch(Now, d) : Become(r.n) /\ sup' = r.s
    /\ UNCHANGED <<binding, present, dying, mgr>>

\* An IOMMU fault of the device, found by the tick.
driver_domain_quarantine(d) ==
    /\ sup = Free /\ dom[d].state \notin {"none", "quarantined"}
    /\ \E quiet \in BOOLEAN :
         LET t == IF dom[d].state \in {"running", "stopping"} THEN teardown(Now, d, quiet) ELSE Now
         IN  Become([t EXCEPT !.D[d].state = "quarantined"])
    /\ sup' = IF dom[d].pid = 0 THEN Free ELSE Terminating(d, dom[d].pid, "quarantine")
    /\ UNCHANGED <<binding, present, dying, mgr>>

-----------------------------------------------------------------------------
(* Tasks.                                                                     *)

\* The driver turns its device on, or hands a handle to another task.
EnableBus(p, d) ==
    /\ dying[p] = "no" /\ <<p, d>> \in holds /\ d \notin bus
    /\ bus' = bus \cup {d}
    /\ UNCHANGED <<dom, binding, present, live, holds, dying, sup, mgr>>

Grant(p, q, d) ==
    /\ Lives(Now, q) /\ dying[p] = "no" /\ dying[q] = "no"
    /\ <<p, d>> \in holds /\ <<q, d>> \notin holds
    /\ holds' = holds \cup {<<q, d>>}
    /\ UNCHANGED <<dom, binding, present, live, bus, dying, sup, mgr>>

\* terminate64 on another processor.  With the flag up it reports nothing.
terminate64(p, death) ==
    /\ Lives(Now, p) /\ dying[p] = "no"
    /\ IF sup.op = "terminate"
       THEN /\ live' = {t \in live : t[1] # p}
            /\ holds' = {h \in holds : h[1] # p}
            /\ dying' = [dying EXCEPT ![p] = "unreported"]
       ELSE /\ dying' = [dying EXCEPT ![p] = CASE death = "clean" -> "exit clean"
                                               [] death = "exit"  -> "died exit"
                                               [] death = "fault" -> "died fault"]
            /\ UNCHANGED <<live, holds>>
    /\ UNCHANGED <<dom, binding, present, bus, sup, mgr>>

\* A clean exit of a running driver disables its binding.
driver_manager_task_exiting(p) ==
    /\ mgr = Free /\ dying[p] = "exit clean"
    /\ binding' = [d \in Devices |->
                     IF dom[d].state = "running" /\ dom[d].pid = p
                     THEN [binding[d] EXCEPT !.enabled = FALSE] ELSE binding[d]]
    /\ dying' = [dying EXCEPT ![p] = "died clean"]
    /\ UNCHANGED <<dom, present, live, holds, bus, sup, mgr>>

Ticking(d) == [op |-> "tick", d |-> d, act |-> "look"]
First == CHOOSE d \in Devices : \A e \in Devices : d <= e

\* The rest of terminate64 starts with the manager's tick.
Gone(p) ==
    /\ mgr = Free /\ dying[p] = "tick"
    /\ live' = {t \in live : t[1] # p}
    /\ holds' = {h \in holds : h[1] # p}
    /\ dying' = [dying EXCEPT ![p] = "gone"]
    /\ mgr' = Ticking(First)
    /\ UNCHANGED <<dom, binding, present, bus, sup>>

-----------------------------------------------------------------------------
(* The manager (driver_manager.c).                                            *)

dependencies_ready(D, m) ==
    \A k \in Needs[m] : \E d \in Devices : binding[d].m = k /\ D[d].state = "running"

Startable(d) == {m \in Manifests : d \in Matches[m] /\ dependencies_ready(dom, m)}

\* start_all tries the devices without a binding until none can be started.  A
\* manifest that fails to start leaves no trace, and the next one is tried.
driver_manager_start_all ==
    /\ mgr.op = "start" /\ sup = Free
    /\ \/ \E d \in present, p \in Unused : \E m \in Startable(d) :
            /\ p = NextPid /\ binding[d].m = 0 /\ dom[d].state = "none"
            /\ Become(launched([Now EXCEPT !.D[d] = [NoDomain EXCEPT !.m = m]], d, p))
            /\ binding' = [binding EXCEPT ![d] = [m |-> m, enabled |-> TRUE]]
            /\ UNCHANGED mgr
       \/ mgr' = Free /\ UNCHANGED <<dom, live, holds, bus, binding>>
    /\ UNCHANGED <<present, dying, sup>>

driver_manager_set_devices(d) ==
    /\ mgr = Free /\ d \notin present
    /\ present' = present \cup {d}
    /\ mgr' = [op |-> "start"]
    /\ UNCHANGED <<dom, binding, live, holds, bus, dying, sup>>

\* A call of the supervisor by the manager, which goes on with next, or with
\* refused; while a task is being ended it waits.
Call(r, next, refused) ==
    /\ Become(r.n) /\ sup' = r.s
    /\ LET after == IF r.ok THEN next ELSE refused
       IN  mgr' = IF r.s = Free THEN after
                  ELSE [op |-> "wait", next |-> after, refused |-> refused]

Stop(d, next, refused) ==
    \E quiet \in BOOLEAN : Call(driver_domain_stop(Now, d, quiet), next, refused)

driver_manager_stop_device(d) ==
    /\ mgr = Free /\ sup = Free /\ binding[d].m # 0
    /\ binding' = [binding EXCEPT ![d].enabled = FALSE]
    /\ IF binding[d].m \in Graceful
       THEN Become(driver_domain_request_stop(Now, d)) /\ UNCHANGED <<sup, mgr>>
       ELSE Stop(d, Free, Free)
    /\ UNCHANGED <<present, dying>>

Disable(d, next) == [op |-> "disable", d |-> d, next |-> next]

driver_manager_restart_device(d) ==
    /\ mgr = Free /\ sup = Free /\ binding[d].m # 0
    /\ binding' = [binding EXCEPT ![d].enabled = FALSE]
    /\ Stop(d, [op |-> "restart", d |-> d], Free)
    /\ UNCHANGED <<present, dying>>

driver_manager_restart_again ==
    /\ mgr.op = "restart" /\ sup = Free
    /\ binding' = [binding EXCEPT ![mgr.d].enabled = TRUE]
    /\ IF dependencies_ready(dom, binding[mgr.d].m)
       THEN \E r \in driver_domain_start(Now, mgr.d) : Call(r, Free, Disable(mgr.d, Free))
       ELSE mgr' = Free /\ UNCHANGED <<dom, live, holds, bus, sup>>
    /\ UNCHANGED <<present, dying>>

\* A binding whose domain could not be stopped or started is disabled.
DisableBinding ==
    /\ mgr.op = "disable"
    /\ binding' = [binding EXCEPT ![mgr.d].enabled = FALSE]
    /\ mgr' = mgr.next
    /\ UNCHANGED <<dom, present, live, holds, bus, dying, sup>>

\* The device is unplugged: the domain is removed, and destroyed unless it had
\* to be quarantined; the binding goes either way.
driver_manager_device_removed(d) ==
    /\ mgr = Free /\ sup = Free /\ d \in present
    /\ present' = present \ {d}
    /\ IF binding[d].m = 0 THEN UNCHANGED <<dom, live, holds, bus, sup, mgr, binding>>
       ELSE /\ binding' = [binding EXCEPT ![d].enabled = FALSE]
            /\ Stop(d, [op |-> "remove", d |-> d], [op |-> "remove", d |-> d])
    /\ UNCHANGED dying

driver_manager_remove_again ==
    /\ mgr.op = "remove" /\ sup = Free
    /\ \E quiet \in BOOLEAN :
         dom' = [dom EXCEPT ![mgr.d] = IF @.state = "quarantined" THEN @
                                       ELSE IF quiet THEN NoDomain
                                       ELSE [@ EXCEPT !.state = "quarantined"]]
    /\ binding' = [binding EXCEPT ![mgr.d] = NoBinding]
    /\ mgr' = Free
    /\ UNCHANGED <<present, live, holds, bus, dying, sup>>

driver_manager_tick ==
    /\ mgr = Free
    /\ mgr' = Ticking(First)
    /\ UNCHANGED <<dom, binding, present, live, holds, bus, dying, sup>>

Following(d) == IF d + 1 \in Devices THEN Ticking(d + 1) ELSE Free

\* One binding of the tick: what to do is read first, done in a later section.
TickLook ==
    /\ mgr.op = "tick" /\ mgr.act = "look"
    /\ LET d == mgr.d
           ready == dependencies_ready(dom, binding[d].m)
       IN  mgr' = IF binding[d].m = 0 \/ ~binding[d].enabled THEN Following(d)
                  ELSE IF ~ready /\ dom[d].state = "running" THEN [mgr EXCEPT !.act = "stop"]
                  ELSE IF ready /\ dom[d].state = "stopped" THEN [mgr EXCEPT !.act = "start"]
                  ELSE Following(d)
    /\ UNCHANGED <<dom, binding, present, live, holds, bus, dying, sup>>

TickAct ==
    /\ mgr.op = "tick" /\ mgr.act # "look" /\ sup = Free
    /\ LET d == mgr.d
       IN  \/ mgr.act = "stop" /\ Stop(d, Following(d), Disable(d, Following(d)))
           \/ /\ mgr.act = "start"
              /\ \E r \in driver_domain_start(Now, d) : Call(r, Following(d), Disable(d, Following(d)))
    /\ UNCHANGED <<binding, present, dying>>

-----------------------------------------------------------------------------

\* A device whose domain is stopped, waits for its restart, failed or is gone is
\* quiet, and no task has a handle on it, not even one the driver passed on:
\* teardown comes before every one of these states (README, "Driver teardown
\* masks interrupts, disables bus mastering, revokes mappings, invalidates
\* handles").  A quarantined device may be noisy but nobody holds it.
QuietUnlessRunning ==
    \A d \in Devices :
      /\ dom[d].state \in {"stopped", "backoff", "failed"} => d \notin bus
      /\ dom[d].state \notin {"running", "stopping"} => ~\E h \in holds : h[2] = d

\* A device never has two drivers: a driver task that lives is the task of the
\* device's running or stopping domain, is being ended, or its domain is in
\* quarantine, from where no new driver is started.
OneDriver ==
    \A t \in live :
      LET p == t[1]  x == dom[t[2]]
      IN  \/ x.pid = p /\ x.state \in {"running", "stopping"}
          \/ dying[p] # "no"
          \/ sup.op = "terminate" /\ sup.p = p
          \/ x.state = "quarantined"

=============================================================================
