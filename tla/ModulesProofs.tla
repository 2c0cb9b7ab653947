--------------------------- MODULE ModulesProofs ----------------------------
(***************************************************************************)
(* Proofs about the drivers in the kernel, for any number of processors,   *)
(* modules, instances and devices: the callbacks of a module run one at a  *)
(* time on an instance that stays bound, and a device has one instance,    *)
(* whatever calls of other processors come between the steps of a call.    *)
(***************************************************************************)
EXTENDS Modules, Integers, TLAPS, FiniteSetTheorems, WellFoundedInduction

\* The least element of a set of numbers is one of them.
LEMMA LowestIs ==
    ASSUME NEW S, S \subseteq Nat, S # {}
    PROVE  Lowest(S) \in S /\ \A y \in S : Lowest(S) <= y
<1> DEFINE R == OpToRel(<, Nat)
<1>1. IsWellFoundedOn(R, Nat)
  BY NatLessThanWellFounded, Zenon
<1>2. PICK x \in S : \A y \in S : <<y, x>> \notin R
  BY ONLY WFMin, <1>1, S \subseteq Nat, S # {}, Zenon
<1>3. \A y \in S : y \in Nat /\ x \in Nat /\ (y < x => <<y, x>> \in R)
  BY DEF OpToRel
<1> HIDE DEF R
<1>4. \A y \in S : ~(y < x)
  BY <1>2, <1>3, Zenon
<1>5. \A y \in S : x <= y
  BY <1>4
<1> QED BY <1>5, Zenon DEF Lowest

-----------------------------------------------------------------------------
States == {"STOPPED", "BUSY", "RUNNING", "FAILED"}
ModuleRecord == [on : {TRUE}, name : Names, instances : Nat, done : BOOLEAN]
InstanceRecord == [on : {TRUE}, module : Modules, state : States, device : Devices, restarts : Nat]
Offers == [pc : {"offer"}, m : Modules, rest : SUBSET Devices, left : Int]

\* What a call goes on with, and what it goes on with after a stop.
Rest(x) == x = Idle \/ x \in Offers
Later(x) == Rest(x) \/ (x.pc \in {"release", "failed"} /\ x.i \in Instances /\ Rest(x.then))

\* A call knows the module and device, or the instance, it is about.
CallOK(x) ==
    \/ Later(x)
    \/ x.pc = "pick" /\ x.left \in Int
    \/ x.pc = "probe" /\ x.m \in Modules /\ x.d \in Devices /\ Rest(x.then)
    \/ x.pc \in {"bound", "start", "unbind"} /\ x.i \in Instances /\ Rest(x.then)
    \/ x.pc = "stop" /\ x.i \in Instances /\ Later(x.then)

Tables ==
    /\ module \in [Modules -> ModuleRecord \cup {NoDriver}]
    /\ instance \in [Instances -> InstanceRecord \cup {NoDriver}]

CallsOK ==
    /\ in_call = [c \in Cpus |-> in_call[c]]
    /\ \A c \in Cpus : CallOK(in_call[c])

\* The inductive invariant.
ModInv == Tables /\ CallsOK /\ CallbackOwnsInstance /\ OneInstanceOfDevice

\* The instances of module m, and the callback a processor is in.
InstancesOf(m) == {i \in Instances : instance[i].on /\ instance[i].module = m}
InCallback(x) == x.pc \in {"start", "stop"}

\* What the entries of the tables are when they are in use.
LEMMA Entries ==
    ASSUME Tables
    PROVE  /\ \A m \in Modules : module[m].on \in BOOLEAN
           /\ \A m \in Modules : module[m].on => module[m] \in ModuleRecord
           /\ \A m \in Modules : ~module[m].on => module[m] = NoDriver
           /\ \A i \in Instances : instance[i].on \in BOOLEAN
           /\ \A i \in Instances : instance[i].on => instance[i] \in InstanceRecord
           /\ \A i \in Instances : ~instance[i].on => instance[i] = NoDriver
<1>1. \A x \in ModuleRecord \cup InstanceRecord : x.on = TRUE
  BY Zenon DEF ModuleRecord, InstanceRecord
<1>2. NoDriver.on = FALSE
  BY DEF NoDriver
<1>3. \A m \in Modules : module[m] \in ModuleRecord \/ module[m] = NoDriver
  BY DEF Tables
<1>4. \A i \in Instances : instance[i] \in InstanceRecord \/ instance[i] = NoDriver
  BY DEF Tables
<1> QED BY <1>1, <1>2, <1>3, <1>4, Zenon

\* The count of a registered module is set to n.
LEMMA CountIs ==
    ASSUME Tables, NEW m \in Modules, module[m].on, NEW n \in Nat,
           module' = [module EXCEPT ![m].instances = n]
    PROVE  /\ module'[m].instances = n /\ module'[m].on = TRUE
           /\ \A k \in Modules \ {m} : module'[k] = module[k]
           /\ module' \in [Modules -> ModuleRecord \cup {NoDriver}]
<1> DEFINE x == [module[m] EXCEPT !.instances = n]
<1>1. module[m] \in ModuleRecord /\ module \in [Modules -> ModuleRecord \cup {NoDriver}]
  BY Entries, Zenon DEF Tables
<1>2. x \in ModuleRecord /\ x.instances = n /\ x.on = TRUE
  BY <1>1, Zenon DEF ModuleRecord
<1>3. module' = [module EXCEPT ![m] = x]
  BY <1>1
<1> HIDE DEF x
<1>4. module'[m] = x /\ \A k \in Modules \ {m} : module'[k] = module[k]
  BY <1>1, <1>3, Zenon
<1>5. module' \in [Modules -> ModuleRecord \cup {NoDriver}]
  BY <1>1, <1>2, <1>3, Zenon
<1> QED BY <1>2, <1>4, <1>5

\* A processor goes on to r.
LEMMA GotoIs ==
    ASSUME CallsOK, NEW c \in Cpus, NEW r, Goto(c, r), CallOK(r)
    PROVE  /\ CallsOK' /\ in_call'[c] = r
           /\ \A k \in Cpus \ {c} : in_call'[k] = in_call[k]
<1>1. in_call' = [k \in Cpus |-> IF k = c THEN r ELSE in_call[k]]
  BY Zenon DEF Goto, CallsOK
<1>2. in_call'[c] = r /\ \A k \in Cpus \ {c} : in_call'[k] = in_call[k]
  BY <1>1, Zenon
<1>3. in_call' = [k \in Cpus |-> in_call'[k]]
  BY <1>1, Zenon
<1>4. \A k \in Cpus : CallOK(in_call'[k])
  BY <1>2, Zenon DEF CallsOK
<1>5. CallsOK' <=> in_call' = [k \in Cpus |-> in_call'[k]] /\ \A k \in Cpus : CallOK(in_call'[k])
  BY Zenon DEF CallsOK, CallOK, Later, Rest, Offers
<1> QED BY <1>2, <1>3, <1>4, <1>5, Zenon

-----------------------------------------------------------------------------
(* The kinds of steps.                                                       *)

\* CallbackOwnsInstance, part by part.
CountsExact ==
    \A m \in Modules : module[m].on => module[m].instances = Cardinality(InstancesOf(m))
ModulesStay == \A i \in Instances : instance[i].on => module[instance[i].module].on
CallbacksApart ==
    \A c \in Cpus : InCallback(in_call[c]) =>
      /\ instance[in_call[c].i].on /\ instance[in_call[c].i].state = "BUSY"
      /\ \A k \in Cpus \ {c} : InCallback(in_call[k]) => in_call[k].i # in_call[c].i

\* Its parts are all there is to it.
LEMMA OwnershipIs ==
    /\ CallbackOwnsInstance <=> CountsExact /\ ModulesStay /\ CallbacksApart
    /\ CallbackOwnsInstance' <=> CountsExact' /\ ModulesStay' /\ CallbacksApart'
  BY Zenon DEF CallbackOwnsInstance, CountsExact, ModulesStay, CallbacksApart, InstancesOf, InCallback

\* A step of a processor without a callback, which leaves claimed instances alone,
\* disturbs no callback.
LEMMA CallbacksStay ==
    ASSUME ModInv, NEW c \in Cpus, ~InCallback(in_call[c]), ~InCallback(in_call'[c]),
           \A k \in Cpus \ {c} : in_call'[k] = in_call[k],
           \A i \in Instances : instance[i].on /\ instance[i].state = "BUSY" => instance'[i] = instance[i]
    PROVE  CallbacksApart'
<1>1. ASSUME NEW k \in Cpus, InCallback(in_call'[k])
      PROVE  InCallback(in_call[k]) /\ in_call'[k].i = in_call[k].i
  BY <1>1, Zenon
<1>2. CallbacksApart
  BY OwnershipIs DEF ModInv
<1>3. ASSUME NEW k \in Cpus, InCallback(in_call'[k])
      PROVE  /\ instance'[in_call'[k].i].on /\ instance'[in_call'[k].i].state = "BUSY"
             /\ \A j \in Cpus \ {k} : InCallback(in_call'[j]) => in_call'[j].i # in_call'[k].i
  <2>1. InCallback(in_call[k]) /\ in_call'[k].i = in_call[k].i
    BY <1>1, <1>3, Zenon
  <2>2. /\ instance[in_call[k].i].on /\ instance[in_call[k].i].state = "BUSY"
        /\ \A j \in Cpus \ {k} : InCallback(in_call[j]) => in_call[j].i # in_call[k].i
    BY <1>2, <2>1, Zenon DEF CallbacksApart
  <2>3. in_call[k].i \in Instances
    BY <2>1 DEF InCallback, ModInv, CallsOK, CallOK, Later, Rest, Idle, Offers
  <2>4. instance'[in_call[k].i] = instance[in_call[k].i]
    BY <2>2, <2>3, Zenon
  <2>5. \A j \in Cpus \ {k} : InCallback(in_call'[j]) => InCallback(in_call[j]) /\ in_call'[j].i = in_call[j].i
    BY <1>1, Zenon
  <2> QED BY <2>1, <2>2, <2>4, <2>5, Zenon
<1> QED BY <1>3, Zenon DEF CallbacksApart, InCallback

\* A step that leaves the instances and their counts alone, of a processor that
\* runs no callback before or after.
LEMMA LookKeeps ==
    ASSUME ModInv, NEW c \in Cpus, NEW r, Goto(c, r), CallOK(r),
           ~InCallback(in_call[c]), ~InCallback(r), UNCHANGED instance,
           module' \in [Modules -> ModuleRecord \cup {NoDriver}],
           \A m \in Modules : module'[m].on = module[m].on /\ module'[m].instances = module[m].instances
    PROVE  ModInv'
<1>1. /\ CallsOK' /\ in_call'[c] = r
      /\ \A k \in Cpus \ {c} : in_call'[k] = in_call[k]
  BY GotoIs, Zenon DEF ModInv
<1>2. Tables' /\ OneInstanceOfDevice'
  BY DEF ModInv, Tables, OneInstanceOfDevice
<1>3. CountsExact'
  BY OwnershipIs, Zenon DEF ModInv, CountsExact, InstancesOf
<1>4. ModulesStay'
  <2>1. \A i \in Instances : instance[i].on => instance[i].module \in Modules
    BY Entries, Zenon DEF ModInv, InstanceRecord
  <2> QED BY <2>1, OwnershipIs, Zenon DEF ModInv, ModulesStay
<1>5. CallbacksApart'
  <2>1. \A i \in Instances : instance[i].on /\ instance[i].state = "BUSY" => instance'[i] = instance[i]
    OBVIOUS
  <2> QED BY <1>1, <2>1, CallbacksStay, Zenon
<1> QED BY <1>1, <1>2, <1>3, <1>4, <1>5, OwnershipIs DEF ModInv

\* The state of instance i is set, by a processor that runs its callback, or while
\* nobody does; or there is no other processor.
LEMMA StateKeeps ==
    ASSUME ModInv, NEW c \in Cpus, NEW r, Goto(c, r), CallOK(r), NEW i \in Instances, NEW x,
           UNCHANGED module, instance[i].on, instance' = [instance EXCEPT ![i] = x],
           x \in InstanceRecord, x.module = instance[i].module, x.device = instance[i].device,
           \/ Cpus = {c}
           \/ ~InCallback(in_call[c]) /\ instance[i].state # "BUSY"
           \/ InCallback(in_call[c]) /\ in_call[c].i = i,
           InCallback(r) => r.i = i /\ x.state = "BUSY"
    PROVE  ModInv'
<1>1. /\ CallsOK' /\ in_call'[c] = r
      /\ \A k \in Cpus \ {c} : in_call'[k] = in_call[k]
  BY GotoIs, Zenon DEF ModInv
<1>2. instance \in [Instances -> InstanceRecord \cup {NoDriver}] /\ x.on = TRUE
  BY Zenon DEF ModInv, Tables, InstanceRecord
<1>3. instance'[i] = x /\ \A j \in Instances \ {i} : instance'[j] = instance[j]
  BY <1>2, Zenon
<1>4. \A j \in Instances : /\ instance'[j].on = instance[j].on
                            /\ instance'[j].module = instance[j].module
                            /\ instance'[j].device = instance[j].device
  <2>1. instance[i].on = TRUE
    BY Entries, Zenon DEF ModInv
  <2> QED BY <1>2, <1>3, <2>1, Zenon
<1>5. Tables'
  <2>1. instance' \in [Instances -> InstanceRecord \cup {NoDriver}]
    BY <1>2, Zenon
  <2> QED BY <2>1, Zenon DEF ModInv, Tables
<1>6. OneInstanceOfDevice'
  BY <1>4 DEF ModInv, OneInstanceOfDevice
<1>7. CountsExact'
  <2>1. \A m \in Modules : InstancesOf(m)' = InstancesOf(m)
    BY <1>4, Zenon DEF InstancesOf
  <2> QED BY <2>1, OwnershipIs, Zenon DEF ModInv, CountsExact
<1>8. ModulesStay'
  BY <1>4, OwnershipIs, Zenon DEF ModInv, ModulesStay
<1>9. ASSUME NEW k \in Cpus, k # c, InCallback(in_call'[k])
      PROVE  /\ in_call'[k] = in_call[k] /\ in_call[k].i # i /\ in_call[k].i \in Instances
             /\ instance[in_call[k].i].on /\ instance[in_call[k].i].state = "BUSY"
  <2>1. in_call'[k] = in_call[k] /\ Cpus # {c} /\ InCallback(in_call[k])
    BY <1>1, <1>9, Zenon
  <2>2. instance[in_call[k].i].on /\ instance[in_call[k].i].state = "BUSY"
    BY <2>1, OwnershipIs, Zenon DEF CallbacksApart, ModInv
  <2>3. InCallback(in_call[c]) => in_call[k].i # in_call[c].i
    BY <1>9, <2>1, OwnershipIs, Zenon DEF CallbacksApart, ModInv
  <2>4. in_call[k].i \in Instances
    BY <2>1 DEF InCallback, ModInv, CallsOK, CallOK, Later, Rest, Idle, Offers
  <2> QED BY <2>1, <2>2, <2>3, <2>4, Zenon
<1>10. CallbacksApart'
  <2> SUFFICES ASSUME NEW k \in Cpus, InCallback(in_call'[k])
               PROVE  /\ instance'[in_call'[k].i].on /\ instance'[in_call'[k].i].state = "BUSY"
                      /\ \A j \in Cpus \ {k} : InCallback(in_call'[j]) => in_call'[j].i # in_call'[k].i
    BY Zenon DEF CallbacksApart, InCallback
  <2>1. CASE k = c
    <3>1. in_call'[k].i = i /\ x.state = "BUSY"
      BY <1>1, <2>1, Zenon
    <3>2. instance'[i].on /\ instance'[i].state = "BUSY"
      BY <1>2, <1>3, <3>1, Zenon
    <3>3. \A j \in Cpus \ {k} : InCallback(in_call'[j]) => in_call'[j].i # i
      BY <1>9, <2>1, Zenon
    <3> QED BY <3>1, <3>2, <3>3, Zenon
  <2>2. CASE k # c
    <3>1. instance'[in_call'[k].i].on /\ instance'[in_call'[k].i].state = "BUSY"
      <4>1. /\ in_call'[k] = in_call[k] /\ in_call[k].i # i /\ in_call[k].i \in Instances
            /\ instance[in_call[k].i].on /\ instance[in_call[k].i].state = "BUSY"
        BY <1>9, <2>2, Zenon
      <4>2. instance'[in_call[k].i] = instance[in_call[k].i]
        BY <1>3, <4>1, Zenon
      <4> QED BY <4>1, <4>2, Zenon
    <3>2. ASSUME NEW j \in Cpus \ {k}, InCallback(in_call'[j])
          PROVE  in_call'[j].i # in_call'[k].i
      <4>1. CASE j = c
        BY <1>1, <1>9, <2>2, <3>2, <4>1, Zenon
      <4>2. CASE j # c
        <5>1. in_call'[j] = in_call[j] /\ in_call'[k] = in_call[k]
          BY <1>1, <2>2, <4>2, Zenon
        <5>2. InCallback(in_call[j]) /\ InCallback(in_call[k]) /\ CallbacksApart
          BY <2>2, <3>2, <5>1, OwnershipIs, Zenon DEF ModInv
        <5> QED BY <5>1, <5>2, Zenon DEF CallbacksApart
      <4> QED BY <4>1, <4>2
    <3> QED BY <3>1, <3>2, Zenon
  <2> QED BY <2>1, <2>2
<1> QED BY <1>1, <1>5, <1>6, <1>7, <1>8, <1>10, OwnershipIs DEF ModInv

\* A new instance of module m for a device that has none.
LEMMA BindKeeps ==
    ASSUME ModInv, NEW c \in Cpus, NEW r, Goto(c, r), CallOK(r),
           ~InCallback(in_call[c]), ~InCallback(r),
           NEW i \in Instances, NEW m \in Modules, NEW x \in InstanceRecord,
           instance[i] = NoDriver, module[m].on, x.module = m,
           \A j \in Instances : instance[j].on => instance[j].device # x.device,
           instance' = [instance EXCEPT ![i] = x],
           module' = [module EXCEPT ![m].instances = @ + 1]
    PROVE  ModInv'
<1>1. /\ CallsOK' /\ in_call'[c] = r
      /\ \A k \in Cpus \ {c} : in_call'[k] = in_call[k]
  BY GotoIs, Zenon DEF ModInv
<1>2. /\ instance \in [Instances -> InstanceRecord \cup {NoDriver}] /\ x.on = TRUE /\ ~instance[i].on
      /\ module[m].instances \in Nat /\ Tables
  <2>1. Tables /\ x.on = TRUE /\ ~NoDriver.on
    BY Zenon DEF ModInv, InstanceRecord, NoDriver
  <2>2. module[m].instances \in Nat
    BY <2>1, Entries, Zenon DEF ModuleRecord
  <2> QED BY <2>1, <2>2 DEF Tables
<1>3. instance'[i] = x /\ \A j \in Instances \ {i} : instance'[j] = instance[j]
  BY <1>2, Zenon
<1>4. /\ module'[m].instances = module[m].instances + 1 /\ module'[m].on = TRUE
      /\ \A n \in Modules \ {m} : module'[n] = module[n]
      /\ module' \in [Modules -> ModuleRecord \cup {NoDriver}]
  <2>1. module[m].instances + 1 \in Nat
    BY <1>2
  <2> QED BY <1>2, <2>1, CountIs, Zenon
<1>5. Tables'
  <2>1. instance' \in [Instances -> InstanceRecord \cup {NoDriver}]
    BY <1>2, Zenon
  <2> QED BY <1>4, <2>1, Zenon DEF Tables
<1>6. OneInstanceOfDevice'
  BY <1>2, <1>3 DEF ModInv, OneInstanceOfDevice
<1>7. CountsExact'
  <2>1. InstancesOf(m)' = InstancesOf(m) \cup {i} /\ i \notin InstancesOf(m)
    BY <1>2, <1>3 DEF InstancesOf
  <2>2. \A n \in Modules \ {m} : InstancesOf(n)' = InstancesOf(n)
    BY <1>2, <1>3 DEF InstancesOf
  <2>3. IsFiniteSet(InstancesOf(m))
    BY ModulesAssumption, FS_Subset, Zenon DEF InstancesOf
  <2>4. Cardinality(InstancesOf(m) \cup {i}) = Cardinality(InstancesOf(m)) + 1
    BY <2>1, <2>3, FS_AddElement, Zenon
  <2>5. CountsExact
    BY OwnershipIs DEF ModInv
  <2>6. module'[m].instances = Cardinality(InstancesOf(m)')
    BY <1>4, <2>1, <2>4, <2>5, Zenon DEF CountsExact
  <2>7. ASSUME NEW n \in Modules, module'[n].on
        PROVE  module'[n].instances = Cardinality(InstancesOf(n)')
    BY <1>4, <2>2, <2>5, <2>6, <2>7, Zenon DEF CountsExact
  <2> QED BY <2>7, Zenon DEF CountsExact
<1>8. ModulesStay'
  <2>1. \A j \in Instances : instance[j].on => instance[j].module \in Modules
    BY Entries, Zenon DEF ModInv, InstanceRecord
  <2>2. \A n \in Modules : module[n].on => module'[n].on
    BY <1>4, Zenon
  <2>3. ModulesStay
    BY OwnershipIs DEF ModInv
  <2> QED BY <1>3, <1>4, <2>1, <2>2, <2>3, Zenon DEF ModulesStay
<1>9. CallbacksApart'
  <2>1. \A j \in Instances : instance[j].on /\ instance[j].state = "BUSY" => instance'[j] = instance[j]
    BY <1>2, <1>3, Zenon
  <2> QED BY <1>1, <2>1, CallbacksStay, Zenon
<1> QED BY <1>1, <1>5, <1>6, <1>7, <1>8, <1>9, OwnershipIs DEF ModInv

\* An instance without a callback is given up, and its module counts one less.
LEMMA ReleaseKeeps ==
    ASSUME ModInv, NEW c \in Cpus, NEW r, Goto(c, r), CallOK(r),
           ~InCallback(in_call[c]), ~InCallback(r),
           NEW i \in Instances, NEW m \in Modules,
           instance[i].on, instance[i].state # "BUSY", instance[i].module = m,
           instance' = [instance EXCEPT ![i] = NoDriver],
           module' = IF module[m].on /\ module[m].instances > 0
                     THEN [module EXCEPT ![m].instances = @ - 1] ELSE module
    PROVE  ModInv'
<1>1. /\ CallsOK' /\ in_call'[c] = r
      /\ \A k \in Cpus \ {c} : in_call'[k] = in_call[k]
  BY GotoIs, Zenon DEF ModInv
<1>2. /\ instance \in [Instances -> InstanceRecord \cup {NoDriver}] /\ NoDriver.on = FALSE
      /\ module \in [Modules -> ModuleRecord \cup {NoDriver}]
  BY DEF ModInv, Tables, NoDriver
<1>3. instance'[i] = NoDriver /\ \A j \in Instances \ {i} : instance'[j] = instance[j]
  BY <1>2, Zenon
<1>4. CountsExact /\ ModulesStay
  BY OwnershipIs DEF ModInv
<1>5. module[m].on /\ module[m] \in ModuleRecord
  BY <1>4, Entries, Zenon DEF ModulesStay, ModInv
<1>6. /\ InstancesOf(m)' = InstancesOf(m) \ {i} /\ i \in InstancesOf(m)
      /\ \A n \in Modules \ {m} : InstancesOf(n)' = InstancesOf(n)
  BY <1>2, <1>3 DEF InstancesOf
<1>7. /\ IsFiniteSet(InstancesOf(m)) /\ Cardinality(InstancesOf(m)) \in Nat
      /\ Cardinality(InstancesOf(m) \ {i}) = Cardinality(InstancesOf(m)) - 1
      /\ Cardinality(InstancesOf(m) \ {i}) \in Nat
  <2>1. IsFiniteSet(InstancesOf(m))
    BY ModulesAssumption, FS_Subset, Zenon DEF InstancesOf
  <2>2. IsFiniteSet(InstancesOf(m) \ {i}) /\ Cardinality(InstancesOf(m) \ {i}) = Cardinality(InstancesOf(m)) - 1
    BY <1>6, <2>1, FS_RemoveElement
  <2> QED BY <2>1, <2>2, FS_CardinalityType, Zenon
<1>8. module[m].instances = Cardinality(InstancesOf(m)) /\ module[m].instances > 0
  <2>1. module[m].instances = Cardinality(InstancesOf(m))
    BY <1>4, <1>5, Zenon DEF CountsExact
  <2> QED BY <1>7, <2>1
<1>9. /\ module'[m].instances = module[m].instances - 1 /\ module'[m].on = TRUE
      /\ \A n \in Modules \ {m} : module'[n] = module[n]
      /\ module' \in [Modules -> ModuleRecord \cup {NoDriver}]
  <2>1. module' = [module EXCEPT ![m].instances = module[m].instances - 1]
    BY <1>5, <1>8, Zenon
  <2>2. module[m].instances - 1 \in Nat
    BY <1>7, <1>8
  <2> QED BY <1>5, <2>1, <2>2, CountIs, Zenon DEF ModInv
<1>10. Tables'
  <2>1. instance' \in [Instances -> InstanceRecord \cup {NoDriver}]
    BY <1>2, Zenon
  <2> QED BY <1>9, <2>1, Zenon DEF Tables
<1>11. OneInstanceOfDevice'
  BY <1>2, <1>3 DEF ModInv, OneInstanceOfDevice
<1>12. CountsExact'
  <2>1. ASSUME NEW n \in Modules, module'[n].on
        PROVE  module'[n].instances = Cardinality(InstancesOf(n)')
    <3>1. CASE n = m
      BY <1>6, <1>7, <1>8, <1>9, <3>1, Zenon
    <3>2. CASE n # m
      <4>1. InstancesOf(n)' = InstancesOf(n) /\ module'[n] = module[n]
        BY <1>6, <1>9, <3>2, Zenon
      <4> QED BY <1>4, <2>1, <4>1, Zenon DEF CountsExact
    <3> QED BY <3>1, <3>2
  <2> QED BY <2>1, Zenon DEF CountsExact
<1>13. ModulesStay'
  <2>1. \A j \in Instances : instance[j].on => instance[j].module \in Modules
    BY Entries, Zenon DEF ModInv, InstanceRecord
  <2>2. \A n \in Modules : module[n].on => module'[n].on
    BY <1>9, Zenon
  <2> QED BY <1>2, <1>3, <1>4, <2>1, <2>2, Zenon DEF ModulesStay
<1>14. CallbacksApart'
  <2>1. \A j \in Instances : instance[j].on /\ instance[j].state = "BUSY" => instance'[j] = instance[j]
    BY <1>3, Zenon
  <2> QED BY <1>1, <2>1, CallbacksStay, Zenon
<1> QED BY <1>1, <1>10, <1>11, <1>12, <1>13, <1>14, OwnershipIs DEF ModInv

\* A slot of a module without instances is filled or emptied.
LEMMA RegisterKeeps ==
    ASSUME ModInv, UNCHANGED <<instance, in_call>>, NEW m \in Modules, NEW x \in ModuleRecord \cup {NoDriver},
           InstancesOf(m) = {}, x.on => x.instances = 0, module' = [module EXCEPT ![m] = x]
    PROVE  ModInv'
<1>1. module' \in [Modules -> ModuleRecord \cup {NoDriver}] /\ module'[m] = x
      /\ \A n \in Modules \ {m} : module'[n] = module[n]
  BY DEF ModInv, Tables
<1>2. Tables' /\ CallsOK' /\ OneInstanceOfDevice'
  BY <1>1, Zenon DEF ModInv, Tables, CallsOK, OneInstanceOfDevice, CallOK, Later, Rest, Offers
<1>3. CountsExact /\ ModulesStay /\ CallbacksApart
  BY OwnershipIs DEF ModInv
<1>4. \A n \in Modules : InstancesOf(n)' = InstancesOf(n)
  BY Zenon DEF InstancesOf
<1>5. CountsExact'
  <2>1. Cardinality(InstancesOf(m)) = 0
    BY FS_EmptySet
  <2>2. ASSUME NEW n \in Modules, module'[n].on
        PROVE  module'[n].instances = Cardinality(InstancesOf(n)')
    BY <1>1, <1>3, <1>4, <2>1, <2>2 DEF CountsExact
  <2> QED BY <2>2, Zenon DEF CountsExact
<1>6. ModulesStay'
  <2>1. \A j \in Instances : instance[j].on => instance[j].module \in Modules \ {m}
    BY Entries, Zenon DEF ModInv, InstanceRecord, InstancesOf
  <2> QED BY <1>1, <1>3, <2>1, Zenon DEF ModulesStay
<1>7. CallbacksApart'
  BY <1>3, Zenon DEF CallbacksApart, InCallback
<1> QED BY <1>2, <1>5, <1>6, <1>7, OwnershipIs DEF ModInv

\* What a call at some point knows.
LEMMA CallIs ==
    ASSUME CallsOK, NEW c \in Cpus
    PROVE  /\ At(c, "probe") => /\ in_call[c].m \in Modules /\ in_call[c].d \in Devices
                                /\ Rest(in_call[c].then)
           /\ in_call[c].pc \in {"bound", "start", "unbind", "release", "failed"} =>
                 in_call[c].i \in Instances /\ Rest(in_call[c].then)
           /\ At(c, "stop") => in_call[c].i \in Instances /\ Later(in_call[c].then)
           /\ At(c, "pick") => in_call[c].left \in Int
           /\ At(c, "offer") => in_call[c] \in Offers
<1>1. CallOK(in_call[c])
  BY Zenon DEF CallsOK
<1>2. in_call[c] = Idle => At(c, "idle")
  BY DEF At, Idle
<1>3. in_call[c] \in Offers => At(c, "offer")
  BY DEF At, Offers
<1> QED BY <1>1, <1>2, <1>3 DEF CallOK, Later, Rest, At

\* Where a call may go on, no callback runs.
LEMMA RestsQuiet ==
    ASSUME NEW r, Later(r)
    PROVE  CallOK(r) /\ ~InCallback(r)
<1>1. r = Idle => r.pc = "idle"
  BY DEF Idle
<1>2. r \in Offers => r.pc = "offer"
  BY DEF Offers
<1> QED BY <1>1, <1>2 DEF CallOK, Later, Rest, InCallback

\* An instance with another state.
LEMMA StateIs ==
    ASSUME Tables, NEW i \in Instances, instance[i].on, NEW st \in States
    PROVE  LET x == [instance[i] EXCEPT !.state = st]
           IN  /\ x \in InstanceRecord /\ x.module = instance[i].module /\ x.device = instance[i].device
               /\ x.state = st /\ [instance EXCEPT ![i].state = st] = [instance EXCEPT ![i] = x]
<1>1. instance[i] \in InstanceRecord /\ instance \in [Instances -> InstanceRecord \cup {NoDriver}]
  BY Entries, Zenon DEF Tables
<1> QED BY <1>1, Zenon DEF InstanceRecord

\* driver_stop claims a running instance or leaves it stopped.
LEMMA StopKeeps ==
    ASSUME ModInv, NEW c \in Cpus, NEW i \in Instances, NEW then, driver_stop(c, i, then),
           UNCHANGED module, Later(then), ~InCallback(in_call[c])
    PROVE  ModInv'
<1> DEFINE r == [pc |-> "stop", i |-> i, then |-> then]
<1>1. Tables /\ CallOK(then) /\ ~InCallback(then)
  BY RestsQuiet, Zenon DEF ModInv
<1>2. CASE driver_stop_claim_locked(i)
  <2>1. Goto(c, r) /\ instance' = [instance EXCEPT ![i].state = "BUSY"]
    BY <1>2, Zenon DEF driver_stop
  <2>2. instance[i].on /\ instance[i].state # "BUSY" /\ "BUSY" \in States
    BY <1>2 DEF driver_stop_claim_locked, States
  <2>3. CallOK(r) /\ r.i = i
    BY DEF CallOK
  <2> HIDE DEF r
  <2> QED BY <1>1, <2>1, <2>2, <2>3, StateIs, StateKeeps, Zenon
<1>3. CASE ~driver_stop_claim_locked(i) /\ instance[i].on /\ instance[i].state = "RUNNING"
  <2>1. Goto(c, then) /\ instance' = [instance EXCEPT ![i].state = "STOPPED"]
    BY <1>3, Zenon DEF driver_stop
  <2>2. instance[i].state # "BUSY" /\ "STOPPED" \in States
    BY <1>3 DEF States
  <2> QED BY <1>1, <1>3, <2>1, <2>2, StateIs, StateKeeps, Zenon
<1>4. CASE ~driver_stop_claim_locked(i) /\ ~(instance[i].on /\ instance[i].state = "RUNNING")
  <2>1. Goto(c, then) /\ instance' = instance
    BY <1>4, Zenon DEF driver_stop
  <2>2. /\ module' \in [Modules -> ModuleRecord \cup {NoDriver}]
        /\ \A m \in Modules : module'[m].on = module[m].on /\ module'[m].instances = module[m].instances
    BY <1>1, Zenon DEF Tables
  <2> QED BY <1>1, <2>1, <2>2, LookKeeps, Zenon
<1> QED BY <1>2, <1>3, <1>4

-----------------------------------------------------------------------------
(* The calls.                                                              *)

\* The call goes on, and both tables stay.
LEMMA LookOnly ==
    ASSUME ModInv, NEW c \in Cpus, NEW r, Goto(c, r), CallOK(r),
           ~InCallback(in_call[c]), ~InCallback(r), UNCHANGED <<module, instance>>
    PROVE  ModInv'
<1>1. /\ module' \in [Modules -> ModuleRecord \cup {NoDriver}]
      /\ \A m \in Modules : module'[m].on = module[m].on /\ module'[m].instances = module[m].instances
  BY Zenon DEF ModInv, Tables
<1> QED BY <1>1, LookKeeps, Zenon

\* driver_register_manifest takes a slot that no instance names.
LEMMA RegisterStep ==
    ASSUME ModInv, NEW c \in Cpus, NEW n \in Names, driver_register_manifest(c, n)
    PROVE  ModInv'
<1> DEFINE m == Lowest(FreeSlots(Modules, module))
           x == [on |-> TRUE, name |-> n, instances |-> 0, done |-> FALSE]
<1>1. FreeSlots(Modules, module) # {} /\ FreeSlots(Modules, module) \subseteq Nat
  BY ModulesAssumption, Zenon DEF driver_register_manifest, FreeSlots
<1>2. m \in FreeSlots(Modules, module)
  BY <1>1, LowestIs, Zenon
<1>3. m \in Modules /\ module[m] = NoDriver
  BY <1>2, Zenon DEF FreeSlots
<1>4. module' = [module EXCEPT ![m] = x] /\ UNCHANGED <<instance, in_call>>
  BY Zenon DEF driver_register_manifest
<1>5. x \in ModuleRecord /\ x.instances = 0
  BY DEF ModuleRecord
<1> HIDE DEF x, m
<1>6. InstancesOf(m) = {}
  <2>1. ~NoDriver.on
    BY DEF NoDriver
  <2> QED BY <1>3, <2>1, OwnershipIs, Zenon DEF ModInv, ModulesStay, InstancesOf
<1>7. x \in ModuleRecord \cup {NoDriver}
  BY <1>5, Zenon
<1> QED BY <1>3, <1>4, <1>5, <1>6, <1>7, RegisterKeeps, Zenon

\* driver_unregister takes a module that counts no instance.
LEMMA UnregisterStep ==
    ASSUME ModInv, NEW c \in Cpus, NEW m \in Modules, driver_unregister(c, m)
    PROVE  ModInv'
<1>1. Cardinality(InstancesOf(m)) = 0
  BY OwnershipIs, Zenon DEF ModInv, CountsExact, driver_unregister
<1>2. IsFiniteSet(InstancesOf(m))
  BY FS_Subset, ModulesAssumption, Zenon DEF InstancesOf
<1>3. InstancesOf(m) = {}
  BY <1>1, <1>2, FS_EmptySet, Zenon
<1>4. NoDriver \in ModuleRecord \cup {NoDriver} /\ ~NoDriver.on
  BY DEF NoDriver
<1>5. module' = [module EXCEPT ![m] = NoDriver] /\ UNCHANGED <<instance, in_call>>
  BY Zenon DEF driver_unregister
<1> QED BY <1>3, <1>4, <1>5, RegisterKeeps, Zenon

\* A bind begins with a probe, the lock released.
LEMMA BindStep ==
    ASSUME ModInv, NEW c \in Cpus, NEW m \in Modules, NEW d \in Devices, Bind(c, m, d)
    PROVE  ModInv'
<1> DEFINE r == [pc |-> "probe", m |-> m, d |-> d, then |-> Idle]
<1>1. Goto(c, r) /\ UNCHANGED <<module, instance>> /\ in_call[c].pc = "idle"
  BY Zenon DEF Bind, driver_bind, At
<1>2. CallOK(r) /\ ~InCallback(r)
  BY DEF CallOK, InCallback, Rest
<1>3. ~InCallback(in_call[c])
  BY <1>1 DEF InCallback
<1> HIDE DEF r
<1> QED BY <1>1, <1>2, <1>3, LookOnly, Zenon

\* driver_bind_locked binds in a free slot, or the call goes on.
LEMMA BindLockedStep ==
    ASSUME ModInv, NEW c \in Cpus, driver_bind_locked(c)
    PROVE  ModInv'
<1> DEFINE m == in_call[c].m
           d == in_call[c].d
           then == in_call[c].then
           i == Lowest(FreeSlots(Instances, instance))
           x == [on |-> TRUE, module |-> m, state |-> "STOPPED", device |-> d, restarts |-> 0]
           r == IF then = Idle THEN Idle ELSE [pc |-> "bound", i |-> i, then |-> then]
<1>1. in_call[c].pc = "probe"
  BY Zenon DEF driver_bind_locked, At
<1>2. m \in Modules /\ d \in Devices /\ Rest(then) /\ ~InCallback(in_call[c])
  <2>1. m \in Modules /\ d \in Devices /\ Rest(then)
    BY <1>1, CallIs, Zenon DEF ModInv, At
  <2> QED BY <2>1, <1>1 DEF InCallback
<1>3. CASE /\ module[m].on /\ FreeSlots(Instances, instance) # {}
           /\ \A j \in Instances : instance[j].on => instance[j].device # d
           /\ instance' = [instance EXCEPT ![i] = x] /\ Goto(c, r)
           /\ module' = [module EXCEPT ![m].instances = @ + 1]
  <2>1. FreeSlots(Instances, instance) # {} /\ FreeSlots(Instances, instance) \subseteq Nat
    BY <1>3, ModulesAssumption, Zenon DEF FreeSlots
  <2>2. i \in Instances /\ instance[i] = NoDriver
    BY <2>1, LowestIs, Zenon DEF FreeSlots
  <2>3. x \in InstanceRecord /\ x.module = m /\ x.device = d
    BY <1>2 DEF InstanceRecord, States
  <2>4. CallOK(r) /\ ~InCallback(r)
    <3>1. CASE then = Idle
      BY <3>1 DEF CallOK, InCallback, Later, Rest, Idle
    <3>2. CASE then # Idle
      <4> DEFINE b == [pc |-> "bound", i |-> i, then |-> then]
      <4>1. b.pc = "bound" /\ b.i \in Instances /\ Rest(b.then)
        BY <2>2, <1>2
      <4>2. r = b
        BY <3>2, Zenon
      <4> HIDE DEF b, r
      <4> QED BY <4>1, <4>2 DEF CallOK, InCallback
    <3> QED BY <3>1, <3>2
  <2>5. \A j \in Instances : instance[j].on => instance[j].device # x.device
    BY <1>3, <2>3, Zenon
  <2>6. module[m].on /\ instance' = [instance EXCEPT ![i] = x] /\ Goto(c, r)
        /\ module' = [module EXCEPT ![m].instances = @ + 1]
    BY <1>3
  <2> HIDE DEF r, x, i, m, d, then
  <2> QED BY <1>2, <2>2, <2>3, <2>4, <2>5, <2>6, BindKeeps, Zenon
<1>4. CASE Goto(c, then) /\ UNCHANGED <<module, instance>>
  <2>1. CallOK(then) /\ ~InCallback(then)
    BY <1>2, RestsQuiet, Zenon DEF Later
  <2> QED BY <1>2, <1>4, <2>1, LookOnly, Zenon
<1> QED BY <1>3, <1>4, Zenon DEF driver_bind_locked

\* driver_start claims a stopped instance, or the call goes on without it.
LEMMA StartStep ==
    ASSUME ModInv, NEW c \in Cpus, NEW i \in Instances, driver_start(c, i)
    PROVE  ModInv'
<1> DEFINE then == IF At(c, "bound") THEN in_call[c].then ELSE Idle
           r == [pc |-> "start", i |-> i, then |-> then]
           u == [pc |-> "unbind", i |-> i, then |-> then]
           q == IF then = Idle THEN Idle ELSE u
<1>1. in_call[c].pc \in {"idle", "bound"}
  BY Zenon DEF driver_start, At
<1>2. ~InCallback(in_call[c]) /\ Tables
  BY <1>1 DEF InCallback, ModInv
<1>3. Rest(then)
  <2>1. At(c, "bound") => Rest(in_call[c].then)
    BY CallIs DEF ModInv, At
  <2> QED BY <2>1, Zenon DEF Rest
<1>4. IF driver_start_claim_locked(i)
      THEN instance' = [instance EXCEPT ![i].state = "BUSY"] /\ Goto(c, r)
      ELSE Goto(c, q) /\ UNCHANGED instance
  BY Zenon DEF driver_start
<1>5. UNCHANGED module
  BY Zenon DEF driver_start
<1> HIDE DEF then
<1>6. CASE driver_start_claim_locked(i)
  <2>1. instance' = [instance EXCEPT ![i].state = "BUSY"] /\ Goto(c, r)
    BY <1>4, <1>6, Zenon
  <2>2. instance[i].on /\ instance[i].state # "BUSY" /\ "BUSY" \in States
    BY <1>6 DEF driver_start_claim_locked, States
  <2>3. CallOK(r) /\ r.i = i
    BY <1>3 DEF CallOK
  <2> HIDE DEF r
  <2> QED BY <1>2, <1>5, <2>1, <2>2, <2>3, StateIs, StateKeeps, Zenon
<1>7. CASE ~driver_start_claim_locked(i)
  <2>1. CallOK(u) /\ ~InCallback(u)
    BY <1>3 DEF CallOK, InCallback
  <2>2. CallOK(Idle) /\ ~InCallback(Idle)
    BY RestsQuiet DEF Later, Rest
  <2> HIDE DEF u
  <2>3. CallOK(q) /\ ~InCallback(q)
    BY <2>1, <2>2, Zenon
  <2>4. Goto(c, q) /\ UNCHANGED <<module, instance>>
    BY <1>4, <1>5, <1>7, Zenon
  <2> HIDE DEF q
  <2> QED BY <1>2, <2>3, <2>4, LookOnly, Zenon
<1> QED BY <1>6, <1>7

\* A callback that returns leaves its instance in another state.
LEMMA ReturnKeeps ==
    ASSUME ModInv, NEW c \in Cpus, InCallback(in_call[c]), NEW st \in States, NEW r, CallOK(r), ~InCallback(r),
           Goto(c, r), UNCHANGED module,
           instance' = IF instance[in_call[c].i].on /\ instance[in_call[c].i].state = "BUSY"
                       THEN [instance EXCEPT ![in_call[c].i].state = st] ELSE instance
    PROVE  ModInv'
<1> DEFINE i == in_call[c].i
<1>1. i \in Instances /\ Tables
  BY CallIs DEF ModInv, InCallback, At
<1>2. instance[i].on /\ instance[i].state = "BUSY"
  BY OwnershipIs, Zenon DEF ModInv, CallbacksApart
<1>3. instance' = [instance EXCEPT ![i].state = st]
  BY <1>2, Zenon
<1> HIDE DEF i
<1>4. InCallback(in_call[c]) /\ in_call[c].i = i
  BY Zenon DEF i
<1>5. PICK x \in InstanceRecord : /\ x.module = instance[i].module /\ x.device = instance[i].device
                                  /\ instance' = [instance EXCEPT ![i] = x]
  BY <1>1, <1>2, <1>3, StateIs, Zenon
<1>6. ModInv /\ Goto(c, r) /\ CallOK(r) /\ ~InCallback(r) /\ UNCHANGED module
  BY Zenon
<1> QED BY ONLY c \in Cpus, <1>1, <1>2, <1>4, <1>5, <1>6, StateKeeps, Zenon

\* The start callback returns.
LEMMA StartDoneStep ==
    ASSUME ModInv, NEW c \in Cpus, NEW ok \in BOOLEAN, driver_start_done(c, ok)
    PROVE  ModInv'
<1> DEFINE i == in_call[c].i
           then == in_call[c].then
           st == IF ok THEN "RUNNING" ELSE "STOPPED"
           u == [pc |-> "unbind", i |-> i, then |-> then]
           r == IF ok \/ then = Idle THEN then ELSE u
<1>1. in_call[c].pc = "start"
  BY Zenon DEF driver_start_done, At
<1>2. InCallback(in_call[c])
  BY <1>1 DEF InCallback
<1>3. i \in Instances /\ Rest(then)
  BY <1>1, CallIs DEF ModInv, At
<1>4. /\ instance' = IF instance[i].on /\ instance[i].state = "BUSY"
                     THEN [instance EXCEPT ![i].state = st] ELSE instance
      /\ Goto(c, r) /\ UNCHANGED module
  BY Zenon DEF driver_start_done
<1>5. st \in States
  BY DEF States
<1>6. CallOK(r) /\ ~InCallback(r)
  <2>1. CallOK(then) /\ ~InCallback(then)
    BY <1>3, RestsQuiet, Zenon DEF Later
  <2> HIDE DEF then, i
  <2>2. CallOK(u) /\ ~InCallback(u)
    BY <1>3 DEF CallOK, InCallback
  <2> HIDE DEF u
  <2> QED BY <2>1, <2>2, Zenon
<1> HIDE DEF r, st
<1> QED BY <1>2, <1>4, <1>5, <1>6, ReturnKeeps, Zenon

\* The stop callback returns.
LEMMA StopDoneStep ==
    ASSUME ModInv, NEW c \in Cpus, driver_stop_done(c)
    PROVE  ModInv'
<1>1. in_call[c].pc = "stop"
  BY Zenon DEF driver_stop_done, At
<1>2. InCallback(in_call[c])
  BY <1>1 DEF InCallback
<1>3. Later(in_call[c].then)
  BY <1>1, CallIs, Zenon DEF ModInv, At
<1>4. "STOPPED" \in States
  BY DEF States
<1>5. /\ instance' = IF instance[in_call[c].i].on /\ instance[in_call[c].i].state = "BUSY"
                     THEN [instance EXCEPT ![in_call[c].i].state = "STOPPED"] ELSE instance
      /\ Goto(c, in_call[c].then) /\ UNCHANGED module
  BY Zenon DEF driver_stop_done
<1>6. CallOK(in_call[c].then) /\ ~InCallback(in_call[c].then)
  BY <1>3, RestsQuiet, Zenon
<1> QED BY <1>2, <1>4, <1>5, <1>6, ReturnKeeps, Zenon

\* A stop, and the stop that an unbind or a failure begins with.
LEMMA StopStep ==
    ASSUME ModInv, NEW c \in Cpus, NEW i \in Instances,
           Stop(c, i) \/ driver_unbind(c, i) \/ driver_instance_failed(c, i)
    PROVE  ModInv'
<1>1. in_call[c].pc \in {"idle", "unbind"} /\ UNCHANGED module
  BY Zenon DEF Stop, driver_unbind, driver_instance_failed, At
<1>2. ~InCallback(in_call[c])
  BY <1>1 DEF InCallback
<1>3. ASSUME NEW then, Rest(then), NEW pc \in {"release", "failed"}
      PROVE  Later([pc |-> pc, i |-> i, then |-> then])
  BY <1>3 DEF Later
<1>4. Rest(Idle) /\ Later(Idle)
  BY Zenon DEF Rest, Later
<1>5. At(c, "unbind") => Rest(in_call[c].then)
  BY CallIs DEF ModInv, At
<1>6. PICK then : driver_stop(c, i, then) /\ Later(then)
  <2>1. CASE Stop(c, i)
    BY <2>1, <1>4, Zenon DEF Stop
  <2>2. CASE driver_unbind(c, i)
    BY <2>2, <1>3, <1>4, <1>5, Zenon DEF driver_unbind
  <2>3. CASE driver_instance_failed(c, i)
    BY <2>3, <1>3, <1>4, Zenon DEF driver_instance_failed
  <2> QED BY <2>1, <2>2, <2>3
<1> QED BY <1>1, <1>2, <1>6, StopKeeps, Zenon

\* driver_unbind_locked releases an instance no callback runs of.
LEMMA UnbindLockedStep ==
    ASSUME ModInv, NEW c \in Cpus, driver_unbind_locked(c)
    PROVE  ModInv'
<1> DEFINE i == in_call[c].i
           m == instance[i].module
           then == in_call[c].then
<1>1. in_call[c].pc = "release"
  BY Zenon DEF driver_unbind_locked, At
<1>2. ~InCallback(in_call[c])
  BY <1>1 DEF InCallback
<1>3. i \in Instances /\ Rest(then)
  BY <1>1, CallIs DEF ModInv
<1>4. CallOK(then) /\ ~InCallback(then)
  BY <1>3, RestsQuiet, Zenon DEF Later
<1>5. /\ Goto(c, then)
      /\ IF instance[i].on /\ instance[i].state # "BUSY"
         THEN /\ instance' = [instance EXCEPT ![i] = NoDriver]
              /\ module' = IF module[m].on /\ module[m].instances > 0
                           THEN [module EXCEPT ![m].instances = @ - 1] ELSE module
         ELSE UNCHANGED <<module, instance>>
  BY Zenon DEF driver_unbind_locked
<1> HIDE DEF i, then
<1>6. CASE instance[i].on /\ instance[i].state # "BUSY"
  <2>1. m \in Modules
    BY <1>3, <1>6, Entries, Zenon DEF ModInv, InstanceRecord
  <2>2. instance[i].module = m
    OBVIOUS
  <2> HIDE DEF m
  <2>3. /\ instance' = [instance EXCEPT ![i] = NoDriver]
        /\ module' = IF module[m].on /\ module[m].instances > 0
                     THEN [module EXCEPT ![m].instances = @ - 1] ELSE module
    BY <1>5, <1>6, Zenon
  <2> QED BY <1>2, <1>3, <1>4, <1>5, <1>6, <2>1, <2>2, <2>3, ReleaseKeeps, Zenon
<1>7. CASE ~(instance[i].on /\ instance[i].state # "BUSY")
  BY <1>2, <1>4, <1>5, <1>7, LookOnly, Zenon
<1> QED BY <1>6, <1>7

\* A failed instance is restarted or given up, with no other processor in a call.
LEMMA FailedStep ==
    ASSUME ModInv, NEW c \in Cpus, Cpus = {c}, driver_instance_failed_done(c)
    PROVE  ModInv'
<1> DEFINE i == in_call[c].i
           again == instance[i].restarts < Restarts[module[instance[i].module].name]
           b == [pc |-> "bound", i |-> i, then |-> Idle]
           r == IF again THEN b ELSE Idle
           st == IF again THEN "STOPPED" ELSE "FAILED"
           n == IF again THEN instance[i].restarts + 1 ELSE instance[i].restarts
           x == [instance[i] EXCEPT !.state = st, !.restarts = n]
<1>1. in_call[c].pc = "failed" /\ UNCHANGED module
  BY Zenon DEF driver_instance_failed_done, At
<1>2. ~InCallback(in_call[c])
  BY <1>1 DEF InCallback
<1>3. i \in Instances /\ Tables
  BY <1>1, CallIs DEF ModInv
<1>4. CallOK(Idle) /\ ~InCallback(Idle)
  BY RestsQuiet, Zenon DEF Later, Rest
<1>5. CASE ~instance[i].on
  <2>1. Goto(c, Idle) /\ UNCHANGED <<module, instance>>
    BY <1>1, <1>5, Zenon DEF driver_instance_failed_done
  <2> QED BY <1>2, <1>4, <2>1, LookOnly, Zenon
<1>6. CASE instance[i].on
  <2>1. instance' = [instance EXCEPT ![i].state = st, ![i].restarts = n] /\ Goto(c, r)
    BY <1>6, Zenon DEF driver_instance_failed_done
  <2> HIDE DEF i
  <2>2. instance[i] \in InstanceRecord /\ instance \in [Instances -> InstanceRecord \cup {NoDriver}]
    BY <1>3, <1>6, Entries, Zenon DEF Tables
  <2> HIDE DEF again
  <2>3. st \in States /\ n \in Nat
    <3>1. instance[i].restarts \in Nat
      BY ONLY <2>2, Zenon DEF InstanceRecord
    <3>2. instance[i].restarts + 1 \in Nat
      BY <3>1
    <3> QED BY <3>1, <3>2, Zenon DEF States
  <2> HIDE DEF st, n
  <2>4. /\ x \in InstanceRecord /\ x.module = instance[i].module /\ x.device = instance[i].device
        /\ instance' = [instance EXCEPT ![i] = x]
    BY <1>3, <2>1, <2>2, <2>3, Zenon DEF InstanceRecord
  <2>5. CallOK(b) /\ ~InCallback(b)
    BY <1>3 DEF CallOK, InCallback, Rest
  <2> HIDE DEF b, x
  <2>6. CallOK(r) /\ ~InCallback(r)
    BY <1>4, <2>5, Zenon
  <2> HIDE DEF r
  <2> QED BY <1>1, <1>3, <1>6, <2>1, <2>4, <2>6, StateKeeps, Zenon
<1> QED BY <1>5, <1>6

\* driver_start_all clears what earlier calls have done.
LEMMA StartAllStep ==
    ASSUME ModInv, NEW c \in Cpus, driver_start_all(c)
    PROVE  ModInv'
<1> DEFINE r == [pc |-> "pick", left |-> Cardinality({m \in Modules : module[m].on})]
<1>1. in_call[c].pc = "idle" /\ Goto(c, r) /\ UNCHANGED instance
  BY Zenon DEF driver_start_all, At
<1>2. ~InCallback(in_call[c])
  BY <1>1 DEF InCallback
<1>3. CallOK(r) /\ ~InCallback(r)
  <2>1. Cardinality({m \in Modules : module[m].on}) \in Nat
    BY FS_Subset, FS_CardinalityType, ModulesAssumption, Zenon
  <2> QED BY <2>1 DEF CallOK, InCallback
<1>4. ASSUME NEW m \in Modules
      PROVE  /\ module'[m] \in ModuleRecord \cup {NoDriver}
             /\ module'[m].on = module[m].on /\ module'[m].instances = module[m].instances
  <2>1. module'[m] = IF module[m].on THEN [module[m] EXCEPT !.done = FALSE] ELSE NoDriver
    BY Zenon DEF driver_start_all
  <2>2. CASE module[m].on
    <3>1. module[m] \in ModuleRecord
      BY <2>2, Entries, Zenon DEF ModInv
    <3> QED BY <2>1, <2>2, <3>1, Zenon DEF ModuleRecord
  <2>3. CASE ~module[m].on
    BY <2>1, <2>3, Entries, Zenon DEF ModInv
  <2> QED BY <2>2, <2>3
<1>5. module' \in [Modules -> ModuleRecord \cup {NoDriver}]
  <2>1. module' = [m \in Modules |-> module'[m]]
    BY Zenon DEF driver_start_all
  <2> QED BY <2>1, <1>4, Zenon
<1> HIDE DEF r
<1> QED BY <1>1, <1>2, <1>3, <1>4, <1>5, LookKeeps, Zenon

\* Among modules in use, one has the lowest priority.
LEMMA FirstIs ==
    ASSUME Tables, NEW S, S \subseteq Modules, S # {}, \A m \in S : module[m].on
    PROVE  Lowest({m \in S : \A k \in S : Priority[module[m].name] <= Priority[module[k].name]}) \in Modules
<1> DEFINE P(m) == Priority[module[m].name]
           first == {m \in S : \A k \in S : P(m) <= P(k)}
<1>1. \A m \in S : module[m].name \in Names
  BY Entries, Zenon DEF ModuleRecord
<1>2. \A m \in S : P(m) \in Nat
  BY <1>1, ModulesAssumption, Zenon
<1> HIDE DEF P
<1>3. {P(m) : m \in S} \subseteq Nat /\ {P(m) : m \in S} # {}
  BY <1>2, Zenon
<1>4. Lowest({P(m) : m \in S}) \in {P(m) : m \in S} /\ \A k \in S : Lowest({P(m) : m \in S}) <= P(k)
  BY <1>3, LowestIs, Zenon
<1>5. first # {} /\ first \subseteq Nat /\ first \subseteq Modules
  BY <1>4, ModulesAssumption, Zenon
<1>6. Lowest(first) \in Modules
  BY <1>5, LowestIs, Zenon
<1> QED BY <1>6, Zenon DEF P

\* A module is picked, or driver_start_all ends.
LEMMA PickStep ==
    ASSUME ModInv, NEW c \in Cpus, start_all_pick(c)
    PROVE  ModInv'
<1> DEFINE ready == {m \in Modules : module[m].on /\ ~module[m].done /\ dependencies_ready(m)}
           first == {m \in ready : \A k \in ready : Priority[module[m].name] <= Priority[module[k].name]}
           r == [pc |-> "offer", m |-> Lowest(first), rest |-> Devices, left |-> in_call[c].left]
           q == IF in_call[c].left = 0 \/ ready = {} THEN Idle ELSE r
<1>1. in_call[c].pc = "pick" /\ Goto(c, q) /\ UNCHANGED <<module, instance>>
  BY Zenon DEF start_all_pick, At
<1>2. ~InCallback(in_call[c])
  BY <1>1 DEF InCallback
<1>3. in_call[c].left \in Int
  BY <1>1, CallIs, Zenon DEF ModInv, At
<1>4. ready # {} => Lowest(first) \in Modules
  <2>1. ready \subseteq Modules /\ \A m \in ready : module[m].on
    BY Zenon
  <2> HIDE DEF ready
  <2> QED BY <2>1, FirstIs, Zenon DEF ModInv
<1> HIDE DEF first, ready
<1>5. ready # {} => r \in Offers
  BY <1>3, <1>4 DEF Offers
<1> HIDE DEF r
<1>6. Rest(q)
  BY <1>5, Zenon DEF Rest
<1> HIDE DEF q
<1>7. CallOK(q) /\ ~InCallback(q)
  BY <1>6, RestsQuiet, Zenon DEF Later
<1> QED BY <1>1, <1>2, <1>7, LookOnly, Zenon

\* A device is offered to the module that was picked.
LEMMA AutobindStep ==
    ASSUME ModInv, NEW c \in Cpus, driver_autobind(c)
    PROVE  ModInv'
<1> DEFINE m == in_call[c].m
           d == Lowest(in_call[c].rest)
           then == [in_call[c] EXCEPT !.rest = @ \ {d}]
           p == [pc |-> "probe", m |-> m, d |-> d, then |-> then]
<1>1. in_call[c].pc = "offer" /\ in_call[c].rest # {} /\ UNCHANGED <<module, instance>>
  BY Zenon DEF driver_autobind, At
<1>2. ~InCallback(in_call[c])
  BY <1>1 DEF InCallback
<1>3. in_call[c] \in Offers
  BY <1>1, CallIs, Zenon DEF ModInv, At
<1>4. m \in Modules /\ in_call[c].rest \subseteq Devices
  BY <1>3 DEF Offers
<1>5. d \in Devices
  <2>1. in_call[c].rest \subseteq Nat
    BY <1>4, ModulesAssumption, Zenon
  <2> QED BY <1>1, <1>4, <2>1, LowestIs, Zenon
<1>6. Goto(c, Idle) \/ Goto(c, p) \/ Goto(c, then)
  BY Zenon DEF driver_autobind, driver_bind
<1> HIDE DEF d, m
<1>7. then \in Offers
  BY <1>3 DEF Offers
<1> HIDE DEF then
<1>8. CallOK(p) /\ ~InCallback(p)
  BY <1>4, <1>5, <1>7 DEF CallOK, InCallback, Rest
<1> HIDE DEF p
<1>9. CallOK(Idle) /\ ~InCallback(Idle) /\ CallOK(then) /\ ~InCallback(then)
  BY <1>7, RestsQuiet, Zenon DEF Later, Rest
<1> QED BY <1>1, <1>2, <1>6, <1>8, <1>9, LookOnly, Zenon

\* A module has been offered every device.
LEMMA AutobindDoneStep ==
    ASSUME ModInv, NEW c \in Cpus, autobind_done(c)
    PROVE  ModInv'
<1> DEFINE m == in_call[c].m
           r == [pc |-> "pick", left |-> in_call[c].left - 1]
           x == [module[m] EXCEPT !.done = TRUE]
<1>1. in_call[c].pc = "offer" /\ Goto(c, r) /\ UNCHANGED instance
  BY Zenon DEF autobind_done, At
<1>2. ~InCallback(in_call[c])
  BY <1>1 DEF InCallback
<1>3. in_call[c] \in Offers
  BY <1>1, CallIs, Zenon DEF ModInv, At
<1>4. m \in Modules /\ in_call[c].left - 1 \in Int
  BY <1>3 DEF Offers
<1>5. module' = IF module[m].on THEN [module EXCEPT ![m].done = TRUE] ELSE module
  BY Zenon DEF autobind_done
<1>6. CallOK(r) /\ ~InCallback(r)
  BY <1>4 DEF CallOK, InCallback
<1> HIDE DEF r, m
<1>7. /\ module' \in [Modules -> ModuleRecord \cup {NoDriver}]
      /\ \A k \in Modules : module'[k].on = module[k].on /\ module'[k].instances = module[k].instances
  <2>1. module \in [Modules -> ModuleRecord \cup {NoDriver}]
    BY Zenon DEF ModInv, Tables
  <2>2. CASE ~module[m].on
    BY <1>5, <2>1, <2>2, Zenon
  <2>3. CASE module[m].on
    <3>1. module[m] \in ModuleRecord
      BY <1>4, <2>3, Entries, Zenon DEF ModInv
    <3>2. x \in ModuleRecord /\ x.on = module[m].on /\ x.instances = module[m].instances
      BY <3>1, Zenon DEF ModuleRecord
    <3>3. module' = [module EXCEPT ![m] = x]
      BY <1>5, <2>3, Zenon
    <3> HIDE DEF x
    <3> QED BY <1>4, <2>1, <3>2, <3>3
  <2> QED BY <2>2, <2>3
<1> QED BY <1>1, <1>2, <1>6, <1>7, LookKeeps, Zenon

-----------------------------------------------------------------------------
\* Every step of every call, and a step that changes nothing, keeps the invariant.
LEMMA StepKeeps ==
    ASSUME ModInv, [ModulesNext]_modvars
    PROVE  ModInv'
<1>1. CASE UNCHANGED modvars
  <2>1. module' = module /\ instance' = instance /\ in_call' = in_call
    BY <1>1, Zenon DEF modvars
  <2>2. Tables' /\ CallsOK'
    BY <2>1, Zenon DEF ModInv, Tables, CallsOK
  <2>3. CallbackOwnsInstance' /\ OneInstanceOfDevice'
    BY <2>1, Zenon DEF ModInv, CallbackOwnsInstance, OneInstanceOfDevice
  <2> QED BY <2>2, <2>3, Zenon DEF ModInv
<1>2. CASE ModulesNext
  <2>1. PICK c \in Cpus : CallSteps(c) \/ StartAllSteps(c) \/ (Cpus = {c} /\ FailureSteps(c))
    BY <1>2, Zenon DEF ModulesNext
  <2>2. CASE CallSteps(c)
    <3>1. CASE \E n \in Names : driver_register_manifest(c, n)
      BY <3>1, RegisterStep, Zenon
    <3>2. CASE \E m \in Modules : driver_unregister(c, m) \/ (\E d \in Devices : Bind(c, m, d))
      BY <3>2, UnregisterStep, BindStep, Zenon
    <3>3. CASE \E i \in Instances : driver_start(c, i) \/ Stop(c, i) \/ driver_unbind(c, i)
      BY <3>3, StartStep, StopStep, Zenon
    <3>4. CASE driver_bind_locked(c) \/ driver_stop_done(c) \/ driver_unbind_locked(c)
      BY <3>4, BindLockedStep, StopDoneStep, UnbindLockedStep, Zenon
    <3>5. CASE \E ok \in BOOLEAN : driver_start_done(c, ok)
      BY <3>5, StartDoneStep, Zenon
    <3> QED BY <2>2, <3>1, <3>2, <3>3, <3>4, <3>5, Zenon DEF CallSteps
  <2>3. CASE StartAllSteps(c)
    BY <2>3, StartAllStep, PickStep, AutobindStep, AutobindDoneStep, Zenon DEF StartAllSteps
  <2>4. CASE Cpus = {c} /\ FailureSteps(c)
    BY <2>4, StopStep, FailedStep, Zenon DEF FailureSteps
  <2> QED BY <2>1, <2>2, <2>3, <2>4
<1> QED BY <1>1, <1>2

\* driver_init leaves both tables empty and no processor in a call.
LEMMA InitKeeps ==
    ASSUME driver_init
    PROVE  ModInv
<1>1. ~NoDriver.on /\ Idle.pc = "idle"
  BY DEF NoDriver, Idle
<1>2. /\ \A m \in Modules : module[m] = NoDriver
      /\ \A i \in Instances : instance[i] = NoDriver
      /\ \A c \in Cpus : in_call[c] = Idle
  BY Zenon DEF driver_init
<1>3. Tables /\ CallsOK
  BY <1>2, Zenon DEF driver_init, Tables, CallsOK, CallOK, Later, Rest
<1>4. CountsExact /\ ModulesStay /\ OneInstanceOfDevice
  BY <1>1, <1>2, Zenon DEF CountsExact, ModulesStay, OneInstanceOfDevice
<1>5. CallbacksApart
  <2>1. \A c \in Cpus : ~InCallback(in_call[c])
    BY <1>1, <1>2 DEF InCallback
  <2> QED BY <2>1, Zenon DEF CallbacksApart
<1> QED BY <1>3, <1>4, <1>5, OwnershipIs, Zenon DEF ModInv

\* In every behaviour of driver.c the tables and the calls agree.
THEOREM ModulesInvariant == ModulesSpec => []ModInv
<1>1. driver_init => ModInv
  BY InitKeeps
<1>2. ModInv /\ [ModulesNext]_modvars => ModInv'
  BY StepKeeps
<1> QED BY <1>1, <1>2, PTL DEF ModulesSpec

\* A start or stop callback runs on an instance that is bound and claimed, alone,
\* of a module that counts its instances; and a device has one instance.
THEOREM CallbacksOwnTheirInstance == ModulesSpec => [](CallbackOwnsInstance /\ OneInstanceOfDevice)
<1>1. ModInv => CallbackOwnsInstance /\ OneInstanceOfDevice
  BY DEF ModInv
<1> QED BY <1>1, ModulesInvariant, PTL

-----------------------------------------------------------------------------
\* No step unregisters a module while a callback of it runs: the code that a
\* processor executes stays registered.
CodeStays ==
    \A c \in Cpus : in_call[c].pc \in {"start", "stop"} => module'[instance[in_call[c].i].module].on

\* A module that counts an instance is registered after every step.
LEMMA CountedStays ==
    ASSUME ModInv, ModulesNext, NEW m \in Modules, module[m].on, module[m].instances # 0
    PROVE  module'[m].on
<1>1. PICK c \in Cpus : CallSteps(c) \/ StartAllSteps(c) \/ FailureSteps(c)
  BY Zenon DEF ModulesNext
<1>2. Tables /\ module[m] # NoDriver /\ module[m] \in ModuleRecord
  <2>1. ~NoDriver.on
    BY DEF NoDriver
  <2> QED BY <2>1, Entries, Zenon DEF ModInv
<1>3. ASSUME NEW n, NEW k, module' = [module EXCEPT ![k].instances = n] PROVE module'[m].on
  BY <1>2, <1>3 DEF Tables, ModuleRecord
<1>4. ASSUME NEW n \in Names, driver_register_manifest(c, n) PROVE module'[m].on
  <2> DEFINE F == FreeSlots(Modules, module)
             x == [on |-> TRUE, name |-> n, instances |-> 0, done |-> FALSE]
  <2>1. module' = [module EXCEPT ![Lowest(F)] = x] /\ x.on
    BY <1>4 DEF driver_register_manifest
  <2> HIDE DEF F, x
  <2> QED BY <2>1, <1>2 DEF Tables
<1>5. ASSUME NEW k \in Modules, driver_unregister(c, k) PROVE module'[m].on
  <2>1. k # m /\ module' = [module EXCEPT ![k] = NoDriver]
    BY <1>5, Zenon DEF driver_unregister
  <2> QED BY <2>1, <1>2 DEF Tables
<1>6. ASSUME driver_bind_locked(c) PROVE module'[m].on
  <2>1. UNCHANGED module \/ module' = [module EXCEPT ![in_call[c].m].instances = @ + 1]
    BY <1>6, Zenon DEF driver_bind_locked
  <2> QED BY <2>1, <1>3
<1>7. ASSUME driver_unbind_locked(c) PROVE module'[m].on
  <2> DEFINE k == instance[in_call[c].i].module
  <2>1. UNCHANGED module \/ module' = [module EXCEPT ![k].instances = @ - 1]
    BY <1>7, Zenon DEF driver_unbind_locked
  <2> QED BY <2>1, <1>3
<1>8. ASSUME driver_start_all(c) PROVE module'[m].on
  <2>1. module'[m] = [module[m] EXCEPT !.done = FALSE]
    BY <1>8, Zenon DEF driver_start_all
  <2> QED BY <2>1, <1>2 DEF ModuleRecord
<1>9. ASSUME autobind_done(c) PROVE module'[m].on
  <2> DEFINE k == in_call[c].m
  <2>1. UNCHANGED module \/ module' = [module EXCEPT ![k].done = TRUE]
    BY <1>9, Zenon DEF autobind_done
  <2> HIDE DEF k
  <2> QED BY <2>1, <1>2 DEF Tables, ModuleRecord
<1>10. ASSUME UNCHANGED module PROVE module'[m].on
  BY <1>10
<1>11. CASE CallSteps(c)
  BY <1>11, <1>4, <1>5, <1>6, <1>7, <1>10, Zenon
     DEF CallSteps, Bind, driver_start, Stop, driver_unbind, driver_stop_done, driver_start_done
<1>12. CASE StartAllSteps(c)
  BY <1>12, <1>8, <1>9, <1>10, Zenon DEF StartAllSteps, start_all_pick, driver_autobind
<1>13. CASE FailureSteps(c)
  BY <1>13, <1>10, Zenon DEF FailureSteps, driver_instance_failed, driver_instance_failed_done
<1> QED BY <1>1, <1>11, <1>12, <1>13

\* The count of instances that driver_unregister looks at holds the module.
THEOREM RunningCodeStays == ModulesSpec => [][CodeStays]_modvars
<1>1. ASSUME ModInv, ModulesNext PROVE CodeStays
  <2> SUFFICES ASSUME NEW c \in Cpus, InCallback(in_call[c])
               PROVE  module'[instance[in_call[c].i].module].on
    BY Zenon DEF CodeStays, InCallback
  <2> DEFINE i == in_call[c].i
             m == instance[i].module
  <2>1. i \in Instances
    BY <1>1, CallIs DEF ModInv, InCallback, At
  <2>2. CountsExact /\ ModulesStay /\ CallbacksApart
    BY <1>1, OwnershipIs, Zenon DEF ModInv
  <2>3. instance[i].on
    BY <2>2, Zenon DEF CallbacksApart
  <2> HIDE DEF i
  <2>4. m \in Modules
    BY <1>1, <2>1, <2>3, Entries, Zenon DEF ModInv, InstanceRecord
  <2>5. module[m].on /\ i \in InstancesOf(m)
    BY <2>1, <2>2, <2>3, Zenon DEF ModulesStay, InstancesOf
  <2>6. module[m].instances # 0
    <3>1. IsFiniteSet(InstancesOf(m))
      BY FS_Subset, ModulesAssumption, Zenon DEF InstancesOf
    <3>2. Cardinality(InstancesOf(m)) # 0
      BY <2>5, <3>1, FS_EmptySet, Zenon
    <3> QED BY <2>2, <2>4, <2>5, <3>2, Zenon DEF CountsExact
  <2>7. module'[m].on
    BY <1>1, <2>4, <2>5, <2>6, CountedStays, Zenon
  <2> QED BY <2>7, Zenon DEF i
<1> QED BY <1>1, ModulesInvariant, PTL DEF ModulesSpec
=============================================================================
