----------------------------- MODULE Interrupts -----------------------------
(***************************************************************************)
(* Message signalled interrupts: irq resources (resource.c), the vector    *)
(* table (vector64.c), MSI groups (msi64.c), MSI-X entries (msix64.c) and  *)
(* the dispatch of an interrupt (irq64_dispatch).                          *)
(*                                                                         *)
(* A processor runs with interrupts off inside the kernel, so it does one  *)
(* thing at a time, but there are several.  resource_klock guards the irq  *)
(* table, irq_program_klock the controllers.  A mask is a claim made under *)
(* the first lock and programmed under the second, so every call has a     *)
(* step for each (`cpu`).                                                  *)
(*                                                                         *)
(* An irq is a kernel object with its resource slot; the driver of irq i   *)
(* takes its notifications (`heard`) and opens the interrupt again         *)
(* (`armed`: it did, and has heard nothing since).                         *)
(***************************************************************************)
EXTENDS Integers, FiniteSets, Sequences, SequencesExt

CONSTANTS Cpus, Devices, Irqs,       \* Irqs: 1 .. RESOURCE_IRQ_MAX
          Msis, Groups, Msixs,       \* slots of msi64.c and msix64.c
          FirstVector, LastVector    \* VECTOR64_MSI_FIRST, VECTOR64_MSI_LAST

VARIABLES irq,      \* [Irqs -> struct irq_resource]
          msi,      \* [Msis -> struct msi64_state]
          group,    \* [Groups -> struct msi64_group]
          msix,     \* [Msixs -> struct msix64_state]
          owner,    \* [FirstVector .. LastVector -> the irq, 0 when free]
          next,     \* next_vector
          cpu,      \* [Cpus -> the call in progress]
          heard, armed

vars == <<irq, msi, group, msix, owner, next, cpu, heard, armed>>

NoIrq == [on |-> FALSE, ctl |-> "none", src |-> 0, masked |-> TRUE, bound |-> FALSE]
NoMsi == [on |-> FALSE, g |-> 0, member |-> 0, vector |-> 0]
NoGroup == [on |-> FALSE, dev |-> 0, count |-> 0, unmasked |-> {}, base |-> 0, enabled |-> FALSE]
NoMsix == [on |-> FALSE, dev |-> 0, entry |-> 0, vector |-> 0, open |-> FALSE]
Idle == [pc |-> "idle"]

Init ==
    /\ irq = [i \in Irqs |-> NoIrq]
    /\ msi = [s \in Msis |-> NoMsi]
    /\ group = [g \in Groups |-> NoGroup]
    /\ msix = [s \in Msixs |-> NoMsix]
    /\ owner = [v \in FirstVector .. LastVector |-> 0] /\ next = FirstVector
    /\ cpu = [c \in Cpus |-> Idle]
    /\ heard = [i \in Irqs |-> FALSE] /\ armed = [i \in Irqs |-> FALSE]

Lowest(S) == CHOOSE x \in S : \A y \in S : x <= y
InOrder(S) == SetToSortSeq(S, <)

\* The object of an irq that is being destroyed is not free yet; one that its
\* creator will discard has no handle.
FreeIrqs == {i \in Irqs : /\ ~irq[i].on
                          /\ \A c \in Cpus : cpu[c].pc \in {"program", "release"} => cpu[c].i # i}
Discarded == UNION {IF cpu[c].pc = "discard" THEN cpu[c].todo
                    ELSE IF cpu[c].pc \in {"program", "release"} THEN cpu[c].todo ELSE {} : c \in Cpus}
Usable(i) == irq[i].on /\ i \notin Discarded

\* The driver of an irq is one task: it has one call in progress.
Free(c, i) == /\ cpu[c] = Idle /\ Usable(i)
              /\ ~\E b \in Cpus : cpu[b].pc = "program" /\ cpu[b].i = i /\ cpu[b].then = "driver"

NewIrq(ctl, s) == [NoIrq EXCEPT !.on = TRUE, !.ctl = ctl, !.src = s]

-----------------------------------------------------------------------------
(* Vectors (vector64.c).                                                      *)

\* vector64_allocate: the first free one from next_vector on, around the end.
vector64_allocate(own, nx) ==
    LET total == LastVector - FirstVector + 1
        at(k) == FirstVector + ((nx - FirstVector + k) % total)
        k == Lowest({j \in 0 .. total - 1 : own[at(j)] = 0})
    IN  at(k)

After(v) == IF v >= LastVector THEN FirstVector ELSE v + 1

\* vector64_allocate_group: the lowest aligned run of n free vectors.
Runs(n) == {v \in FirstVector .. LastVector - n + 1 : v % n = 0 /\ \A k \in 0 .. n - 1 : owner[v + k] = 0}

-----------------------------------------------------------------------------
(* Creation, under irq_program_klock.                                         *)

\* msi64_create_group.  When the irq table is full after some members, the
\* vectors of the others are returned and those created are discarded later.
msi64_create_group(c, d, n) ==
    LET slots == InOrder({s \in Msis : ~msi[s].on})
        ids == InOrder(FreeIrqs)
        made == Lowest({n, Len(ids)})
        g == Lowest({h \in Groups : ~group[h].on})
        base == Lowest(Runs(n))
        Of(i) == CHOOSE k \in 1 .. made : ids[k] = i
        At(s) == CHOOSE k \in 1 .. made : slots[k] = s
        some == {ids[k] : k \in 1 .. made}
    IN  /\ cpu[c] = Idle
        /\ ~\E h \in Groups : group[h].on /\ group[h].dev = d
        /\ \E h \in Groups : ~group[h].on
        /\ Len(slots) >= n /\ Runs(n) # {}
        /\ msi' = [s \in Msis |->
                     IF \E k \in 1 .. made : slots[k] = s
                     THEN [on |-> TRUE, g |-> g, member |-> At(s) - 1, vector |-> base + At(s) - 1]
                     ELSE msi[s]]
        /\ irq' = [i \in Irqs |-> IF i \in some THEN NewIrq("msi", slots[Of(i)]) ELSE irq[i]]
        /\ owner' = [v \in FirstVector .. LastVector |->
                       IF v \in base .. base + made - 1 THEN ids[v - base + 1] ELSE owner[v]]
        /\ next' = After(base + n - 1)
        /\ group' = IF made = 0 THEN group
                    ELSE [group EXCEPT ![g] = [NoGroup EXCEPT !.on = TRUE, !.dev = d,
                                                 !.count = n, !.base = base]]
        /\ cpu' = [cpu EXCEPT ![c] = IF made = n THEN Idle ELSE [pc |-> "discard", todo |-> some]]
        /\ UNCHANGED <<msix, heard, armed>>

\* msix_create_locked for one entry; n collects what a group has made so far.
msix_create(n, d, e) ==
    LET slots == {s \in Msixs : ~n.msix[s].on}
        ids == FreeIrqs \ n.made
        s == Lowest(slots)
        v == vector64_allocate(n.owner, n.next)
        i == Lowest(ids)
    IN  IF \/ n.stop \/ slots = {} \/ \A w \in FirstVector .. LastVector : n.owner[w] # 0
           \/ \E t \in Msixs : n.msix[t].on /\ n.msix[t].dev = d /\ n.msix[t].entry = e
        THEN [n EXCEPT !.stop = TRUE]
        ELSE IF ids = {} THEN [n EXCEPT !.stop = TRUE, !.next = After(v)]
        ELSE [n EXCEPT !.msix[s] = [on |-> TRUE, dev |-> d, entry |-> e, vector |-> v, open |-> FALSE],
                       !.irq[i] = NewIrq("msix", s), !.owner[v] = i, !.next = After(v),
                       !.made = @ \cup {i}]

\* es: the entries asked for, in order.
msix64_create_group(c, d, es) ==
    LET Now == [irq |-> irq, msix |-> msix, owner |-> owner, next |-> next, made |-> {}, stop |-> FALSE]
        n == FoldLeft(LAMBDA m, e : msix_create(m, d, e), Now, es)
    IN  /\ cpu[c] = Idle
        /\ irq' = n.irq /\ msix' = n.msix /\ owner' = n.owner /\ next' = n.next
        /\ cpu' = [cpu EXCEPT ![c] = IF n.stop THEN [pc |-> "discard", todo |-> n.made] ELSE Idle]
        /\ UNCHANGED <<msi, group, heard, armed>>

-----------------------------------------------------------------------------
(* The controllers: the mask and release backends, under irq_program_klock.   *)

Call(pc, i, m, then, todo) ==
    [pc |-> pc, i |-> i, ctl |-> irq[i].ctl, src |-> irq[i].src, m |-> m, then |-> then, todo |-> todo]

Return(x) == IF x.then = "release" THEN [x EXCEPT !.pc = "release"]
             ELSE IF x.todo # {} THEN [pc |-> "discard", todo |-> x.todo] ELSE Idle

\* msi_mask: masking one member disables the device's MSI, which is enabled
\* when every vector of the group is unmasked.
msi_mask(s, m) ==
    LET g == msi[s].g
        x == group[g]
        left == IF m THEN x.unmasked \ {msi[s].member} ELSE x.unmasked \cup {msi[s].member}
    IN  group' = IF ~msi[s].on THEN group
                 ELSE [group EXCEPT ![g].unmasked = left,
                         ![g].enabled = ~m /\ (@ \/ left = 0 .. x.count - 1)]

msix_mask(s, m) == msix' = IF msix[s].on THEN [msix EXCEPT ![s].open = ~m] ELSE msix

program(c) ==
    LET x == cpu[c]
    IN  /\ x.pc = "program"
        /\ IF x.ctl = "msi" THEN msi_mask(x.src, x.m) /\ UNCHANGED msix
                            ELSE msix_mask(x.src, x.m) /\ UNCHANGED group
        /\ cpu' = [cpu EXCEPT ![c] = Return(x)]
        /\ UNCHANGED <<irq, msi, owner, next, heard, armed>>

msi_release_keeps_enabled(s) ==
    LET g == msi[s].g
    IN  IF ~msi[s].on THEN UNCHANGED <<msi, group, owner>>
        ELSE /\ msi' = [msi EXCEPT ![s] = NoMsi]
             /\ owner' = [owner EXCEPT ![msi[s].vector] = 0]
             /\ group' = [group EXCEPT ![g].unmasked = @ \ {msi[s].member}]

\* msi_release: the group is disabled, the vector returned; the last member
\* clears the group.
msi_release(s) ==
    LET g == msi[s].g
        last == ~\E t \in Msis \ {s} : msi[t].on /\ msi[t].g = g
    IN  IF ~msi[s].on THEN UNCHANGED <<msi, group, owner>>
        ELSE /\ msi' = [msi EXCEPT ![s] = NoMsi]
             /\ owner' = [owner EXCEPT ![msi[s].vector] = 0]
             /\ group' = [group EXCEPT ![g] = IF last THEN NoGroup
                            ELSE [@ EXCEPT !.enabled = FALSE, !.unmasked = @ \ {msi[s].member}]]

msix_release_keeps_vector(s) ==
    msix' = [msix EXCEPT ![s] = NoMsix] /\ UNCHANGED owner

msix_release(s) ==
    IF ~msix[s].on THEN UNCHANGED <<msix, owner>>
    ELSE /\ msix' = [msix EXCEPT ![s] = NoMsix]
         /\ owner' = [owner EXCEPT ![msix[s].vector] = 0]

release(c) ==
    LET x == cpu[c]
    IN  /\ x.pc = "release"
        /\ IF x.ctl = "msi" THEN msi_release(x.src) /\ UNCHANGED msix
                            ELSE msix_release(x.src) /\ UNCHANGED <<msi, group>>
        /\ cpu' = [cpu EXCEPT ![c] = IF x.todo # {} THEN [pc |-> "discard", todo |-> x.todo] ELSE Idle]
        /\ UNCHANGED <<irq, next, heard, armed>>

-----------------------------------------------------------------------------
(* The irq table, under resource_klock.                                       *)

\* irq_destroy: the slot is cleared, then the mask and release backends run.
Destroyed(c, i, todo) ==
    /\ irq' = [irq EXCEPT ![i] = NoIrq]
    /\ heard' = [heard EXCEPT ![i] = FALSE] /\ armed' = [armed EXCEPT ![i] = FALSE]
    /\ cpu' = [cpu EXCEPT ![c] = Call("program", i, TRUE, "release", todo)]
    /\ UNCHANGED <<msi, group, msix, owner, next>>

\* The last handle is closed or revoked.
irq_destroy(c, i) == cpu[c] = Idle /\ Usable(i) /\ Destroyed(c, i, {})

discard(c) ==
    /\ cpu[c].pc = "discard"
    /\ LET todo == cpu[c].todo
       IN  IF todo = {} THEN /\ cpu' = [cpu EXCEPT ![c] = Idle]
                             /\ UNCHANGED <<irq, msi, group, msix, owner, next, heard, armed>>
           ELSE Destroyed(c, Lowest(todo), todo \ {Lowest(todo)})

irq_resource_bind(c, i) ==
    /\ Free(c, i) /\ ~irq[i].bound /\ irq[i].masked
    /\ irq' = [irq EXCEPT ![i].bound = TRUE]
    /\ UNCHANGED <<msi, group, msix, owner, next, cpu, heard, armed>>

irq_resource_unbind(c, i) ==
    /\ Free(c, i) /\ irq[i].bound
    /\ irq' = [irq EXCEPT ![i].bound = FALSE, ![i].masked = TRUE]
    /\ armed' = [armed EXCEPT ![i] = FALSE]
    /\ cpu' = [cpu EXCEPT ![c] = IF irq[i].masked THEN Idle ELSE Call("program", i, TRUE, "driver", {})]
    /\ UNCHANGED <<msi, group, msix, owner, next, heard>>

irq_resource_set_mask(c, i, m) ==
    /\ Free(c, i) /\ (m \/ irq[i].bound)
    /\ irq' = [irq EXCEPT ![i].masked = m]
    /\ armed' = [armed EXCEPT ![i] = ~m]
    /\ cpu' = [cpu EXCEPT ![c] = Call("program", i, m, "driver", {})]
    /\ UNCHANGED <<msi, group, msix, owner, next, heard>>

\* The driver reads the notification of its endpoint.
bridge_endpoint_read(c, i) ==
    /\ Free(c, i) /\ heard[i]
    /\ heard' = [heard EXCEPT ![i] = FALSE] /\ armed' = [armed EXCEPT ![i] = FALSE]
    /\ UNCHANGED <<irq, msi, group, msix, owner, next, cpu>>

-----------------------------------------------------------------------------
(* Delivery.                                                                  *)

\* The vectors the hardware may raise now.
Raised == {v \in FirstVector .. LastVector :
             \/ \E g \in Groups : /\ group[g].enabled
                                  /\ v \in group[g].base .. group[g].base + group[g].count - 1
             \/ \E s \in Msixs : msix[s].open /\ msix[s].vector = v}

\* irq64_dispatch reads the owner, signals it, masks it; the owner may be gone,
\* or its object be another irq, by the time of the later steps.
irq64_dispatch(c, v) ==
    /\ cpu[c] = Idle /\ v \in Raised /\ owner[v] # 0 /\ irq[owner[v]].on
    /\ cpu' = [cpu EXCEPT ![c] = [pc |-> "signal", i |-> owner[v]]]
    /\ UNCHANGED <<irq, msi, group, msix, owner, next, heard, armed>>

irq_resource_signal(c) ==
    LET i == cpu[c].i
    IN  /\ cpu[c].pc = "signal"
        /\ heard' = [heard EXCEPT ![i] = @ \/ (irq[i].on /\ ~irq[i].masked /\ irq[i].bound)]
        /\ cpu' = [cpu EXCEPT ![c].pc = "mask"]
        /\ UNCHANGED <<irq, msi, group, msix, owner, next, armed>>

dispatch_mask(c) ==
    LET i == cpu[c].i
    IN  /\ cpu[c].pc = "mask"
        /\ irq' = IF irq[i].on THEN [irq EXCEPT ![i].masked = TRUE] ELSE irq
        /\ cpu' = [cpu EXCEPT ![c] = IF irq[i].on THEN Call("program", i, TRUE, "idle", {}) ELSE Idle]
        /\ UNCHANGED <<msi, group, msix, owner, next, heard, armed>>

-----------------------------------------------------------------------------

\* Every vector belongs to the irq of exactly one live source, which has it as
\* its vector, except while that irq is being destroyed; a group is there as
\* long as it has members: a creation that ran out of irqs or vectors in the
\* middle, and a member destroyed alone, leave nothing behind.
OwnersExact ==
    LET Dying(i) == \E c \in Cpus : /\ cpu[c].pc \in {"program", "release"}
                                    /\ cpu[c].i = i /\ cpu[c].then = "release"
        SourceOf(i, v) == \/ \E s \in Msis : msi[s].on /\ msi[s].vector = v
                                             /\ (Dying(i) \/ (irq[i].ctl = "msi" /\ irq[i].src = s))
                          \/ \E s \in Msixs : msix[s].on /\ msix[s].vector = v
                                              /\ (Dying(i) \/ (irq[i].ctl = "msix" /\ irq[i].src = s))
    IN  /\ \A v \in FirstVector .. LastVector : owner[v] # 0 => SourceOf(owner[v], v)
        /\ \A s \in Msis : msi[s].on => owner[msi[s].vector] # 0 /\ group[msi[s].g].on
        /\ \A s \in Msixs : msix[s].on => owner[msix[s].vector] # 0
        /\ \A s, t \in Msis : s # t /\ msi[s].on /\ msi[t].on => msi[s].vector # msi[t].vector
        /\ \A g \in Groups : group[g].on => \E s \in Msis : msi[s].on /\ msi[s].g = g

\* A vector that a device can raise is owned by an irq of that device, and a
\* vector that was given back is never raised for its next owner: not after
\* one member of a group was destroyed and the others are unmasked again.
RaisedIsOwned ==
    /\ \A g \in Groups : group[g].enabled =>
         \A k \in 0 .. group[g].count - 1 :
           \E s \in Msis : /\ msi[s].on /\ msi[s].g = g /\ msi[s].member = k
                           /\ msi[s].vector = group[g].base + k
    /\ \A s \in Msixs : msix[s].open => msix[s].on /\ owner[msix[s].vector] # 0

\* When no call is in progress, a driver that opened its interrupt and has not
\* heard from it since is not masked, in the table or at the controller: the
\* mask the dispatch adds never outlives the unmask that answers it.
HearsDevice ==
    (\A c \in Cpus : cpu[c] = Idle) =>
      \A i \in Irqs : irq[i].on /\ armed[i] /\ ~heard[i] =>
        /\ ~irq[i].masked
        /\ IF irq[i].ctl = "msix" THEN msix[irq[i].src].open
           ELSE msi[irq[i].src].member \in group[msi[irq[i].src].g].unmasked
=============================================================================
