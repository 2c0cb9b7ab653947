------------------------------- MODULE Block --------------------------------
(***************************************************************************)
(* A block device (block.c) and its three kinds of backend: the ramdisk,   *)
(* which finishes a request in submit or, deferred, in service; an NVMe    *)
(* queue pair (nvme.c); a capsule, a driver in user space that takes       *)
(* requests from one ring and puts completions on another.                 *)
(*                                                                         *)
(* The calls do not interleave with one another (the block layer has no    *)
(* lock and runs on one processor), the hardware and the capsule do.  A    *)
(* request is one sector.  The caller of a request is a client: a task     *)
(* that submits, waits for the event of the device, services it and        *)
(* collects, or the kernel in block_io and page_transfer, which give up    *)
(* after a number of spins.                                                *)
(***************************************************************************)
EXTENDS Integers, FiniteSets, Sequences, SequencesExt

CONSTANTS Slots,     \* 1 .. BLOCK_REQUEST_MAX
          Clients, Lbas, Values,
          Backends,  \* among "ram", "defer", "nvme", "capsule"
          Depth,     \* capacity of a capsule ring, NVME_IO_DEPTH
          MaxGen     \* bound: a slot is used in MaxGen generations

VARIABLES
    dev,      \* on, revoked, ops: the backend
    req,      \* [Slots -> struct block_request]
    token,    \* the slots whose token is set
    pool,     \* [Slots -> Values]: the staging sector of a slot, or
              \* the caller's pages for a scatter-gather list
    disk,     \* [Lbas -> Values]
    sent,     \* request ring or submission queue
    inside,   \* requests the backend has taken
    done,     \* completion ring of the capsule
    old,      \* completions the capsule has sent
    cq,       \* completion queue of the NVMe: [0 .. Depth - 1 -> entry]
    nv,       \* head, phase: the driver's; tail, bit: the device's
    irq,      \* masked, pend: the MSI-X entry of the NVMe
    event,    \* the event of the device is signalled
    client    \* [Clients -> the call or the request of a client]

vars == <<dev, req, token, pool, disk, sent, inside, done, old, cq, nv, irq, event, client>>

FreeReq(g) == [gen |-> g, st |-> "free", op |-> "none", lba |-> 0, data |-> 0, ok |-> FALSE, sg |-> FALSE]
Idle == [pc |-> "idle"]
Fresh == [s \in Slots |-> FreeReq(1)]
Backend == dev.ops
Lowest(S) == CHOOSE x \in S : \A y \in S : x <= y

\* block_create, block_bind_transport or block_bind_capsule_transport has run.
Init ==
    /\ dev \in [on : {TRUE}, revoked : {FALSE}, ops : Backends]
    /\ req = Fresh /\ token = {}
    /\ pool = [s \in Slots |-> 0] /\ disk = [a \in Lbas |-> 0]
    /\ sent = <<>> /\ inside = {} /\ done = <<>> /\ old = {}
    /\ cq = [k \in 0 .. Depth - 1 |-> [bit |-> 0, id |-> <<0, 0>>, ok |-> FALSE]]
    /\ nv = [head |-> 0, phase |-> 0, tail |-> 0, bit |-> 1]
    /\ irq = [masked |-> FALSE, pend |-> FALSE]
    /\ event = FALSE
    /\ client = [c \in Clients |-> Idle]

-----------------------------------------------------------------------------
(* Requests.                                                                  *)

\* What the clients that wait for sector a may read once it has held v.
Saw(cl, a, v) == [c \in Clients |-> IF cl[c].pc = "wait" /\ cl[c].lba = a
                                    THEN [cl[c] EXCEPT !.seen = @ \cup {v}] ELSE cl[c]]
Landed(cl, c, id) == IF cl[c].pc = "wait" /\ cl[c].id = id
                     THEN [cl EXCEPT ![c].landed = TRUE] ELSE cl

\* nvme_issue and nvme_issue_sg stage the data and queue the command, whose
\* identifier is the slot (io_submit).
nvme_issue(s, cmd, data) == pool' = [pool EXCEPT ![s] = data] /\ sent' = Append(sent, cmd)

\* block_submit and block_submit_sg (sg: a scatter-gather list, NVMe only).
block_submit(c, op, a, v, sg) ==
    LET free == {s \in Slots : req[s].st = "free"}
        s == Lowest(free)
        id == <<req[s].gen, s>>
        cmd == [id |-> id, by |-> c, op |-> op, lba |-> a, sg |-> sg]
        data == IF op = "write" THEN v ELSE 0
        new == [req[s] EXCEPT !.st = "pending", !.op = op, !.lba = a, !.data = data, !.ok = FALSE, !.sg = sg]
        waiting == [client EXCEPT ![c] = [pc |-> "wait", id |-> id, op |-> op, lba |-> a, sg |-> sg,
                                          seen |-> {disk[a]}, landed |-> FALSE, awake |-> FALSE]]
    IN  /\ client[c] = Idle /\ dev.on /\ ~dev.revoked /\ free # {} /\ req[s].gen <= MaxGen
        /\ sg => Backend = "nvme"
        /\ CASE Backend = "capsule" /\ Len(sent) >= Depth -> UNCHANGED <<req, pool, sent, client>>
             [] Backend = "capsule" /\ Len(sent) < Depth ->
                  /\ pool' = IF op = "write" THEN [pool EXCEPT ![s] = v] ELSE pool
                  /\ req' = [req EXCEPT ![s] = new]
                  /\ sent' = Append(sent, cmd) /\ client' = waiting
             [] Backend = "nvme" ->
                  nvme_issue(s, cmd, data) /\ req' = [req EXCEPT ![s] = new] /\ client' = waiting
             [] Backend = "defer" ->
                  /\ req' = [req EXCEPT ![s] = new] /\ client' = waiting /\ UNCHANGED <<pool, sent>>
             [] Backend = "ram" ->
                  /\ req' = [req EXCEPT ![s] = [new EXCEPT !.st = "done", !.ok = TRUE,
                                                  !.data = IF op = "read" THEN disk[a] ELSE v]]
                  /\ client' = Landed(Saw(waiting, a, IF op = "write" THEN v ELSE disk[a]), c, id)
                  /\ UNCHANGED <<pool, sent>>
        /\ token' = IF Backend = "nvme" THEN token \cup {s} ELSE token
        /\ disk' = IF Backend = "ram" /\ op = "write" THEN [disk EXCEPT ![a] = v] ELSE disk
        /\ event' = (event \/ Backend = "ram")
        /\ UNCHANGED <<dev, inside, done, old, cq, nv, irq>>

\* The slot of a finished request: error, or done with the bytes of its staging
\* sector when it was a read.
Finished(r, s, ok) ==
    [r EXCEPT ![s].st = IF ok THEN "done" ELSE "error", ![s].ok = ok,
              ![s].data = IF ok /\ r[s].op = "read" /\ ~r[s].sg THEN pool[s] ELSE @]

CapsuleCompletionAnyGeneration(x, e) ==
    IF x.req[e.id[2]].st # "pending" THEN x
    ELSE [x EXCEPT !.req = Finished(@, e.id[2], e.ok), !.n = @ + 1]

\* The loop of block_service over the completion ring of a capsule: a
\* completion of another generation, or of a request that is not outstanding,
\* is dropped.
CapsuleCompletion(x, e) ==
    LET s == e.id[2]
    IN  IF x.req[s].st # "pending" \/ x.req[s].gen # e.id[1] THEN x
        ELSE [x EXCEPT !.req = Finished(@, s, e.ok), !.n = @ + 1]

\* One turn of the same loop over nvme_reap: the entry is consumed; a command
\* with no token ends the loop.
NvmeCompletion(x, e) ==
    LET s == e.id[2]
    IN  IF x.stop THEN x
        ELSE IF s \notin x.token THEN [x EXCEPT !.stop = TRUE, !.taken = @ + 1]
        ELSE IF x.req[s].st # "pending" THEN [x EXCEPT !.taken = @ + 1]
        ELSE [x EXCEPT !.req = [Finished(@, s, e.ok) EXCEPT ![s].sg = FALSE],
                       !.token = @ \ {s}, !.taken = @ + 1, !.n = @ + 1]

\* The entries whose phase bit is new, from the head on.
Bit(k) == IF nv.head + k >= Depth THEN 1 - nv.phase ELSE nv.phase
NewEntries ==
    LET n == Lowest({k \in 0 .. Depth : k = Depth \/ cq[(nv.head + k) % Depth].bit = Bit(k)})
    IN  [k \in 1 .. n |-> cq[(nv.head + k - 1) % Depth]]

RearmNothing == UNCHANGED irq

\* irq_resource_set_mask(irq, 0): a message that came while the entry was
\* masked is sent, which signals the event and masks the entry again.
Rearm == IF irq.pend THEN irq' = [masked |-> TRUE, pend |-> FALSE] ELSE irq' = [irq EXCEPT !.masked = FALSE]

\* complete_slot on every pending request of a deferred ramdisk, in slot order.
RamCompletion(x, s) ==
    LET r == x.req[s]
    IN  IF r.st # "pending" THEN x
        ELSE [req |-> [x.req EXCEPT ![s].st = "done", ![s].ok = TRUE,
                         ![s].data = IF r.op = "read" THEN x.disk[r.lba] ELSE @],
              disk |-> IF r.op = "write" THEN [x.disk EXCEPT ![r.lba] = r.data] ELSE x.disk,
              client |-> LET cl == IF r.op = "write" THEN Saw(x.client, r.lba, r.data) ELSE x.client
                         IN  [c \in Clients |-> IF cl[c].pc = "wait" /\ cl[c].id = <<r.gen, s>>
                                                THEN [cl[c] EXCEPT !.landed = TRUE] ELSE cl[c]],
              n |-> x.n + 1]

Serviced(cl, c) == [cl EXCEPT ![c].awake = FALSE]

block_service(c) ==
    /\ client[c].pc = "wait" /\ dev.on /\ ~dev.revoked
    /\ CASE Backend = "capsule" ->
              LET x == FoldLeft(CapsuleCompletion, [req |-> req, n |-> 0], done)
              IN  /\ req' = x.req /\ done' = <<>> /\ event' = (event \/ x.n > 0)
                  /\ client' = Serviced(client, c) /\ UNCHANGED <<token, disk, nv, irq>>
         [] Backend = "nvme" ->
              LET x == FoldLeft(NvmeCompletion, [req |-> req, token |-> token, taken |-> 0, n |-> 0, stop |-> FALSE],
                                NewEntries)
                  at == nv.head + x.taken
              IN  /\ req' = x.req /\ token' = x.token
                  /\ nv' = [nv EXCEPT !.head = at % Depth,
                                      !.phase = IF at >= Depth THEN 1 - @ ELSE @]
                  /\ Rearm
                  /\ event' = (event \/ x.n > 0 \/ irq.pend)
                  /\ client' = Serviced(client, c) /\ UNCHANGED <<done, disk>>
         [] Backend \in {"ram", "defer"} ->
              LET x == FoldLeft(RamCompletion, [req |-> req, disk |-> disk, client |-> client, n |-> 0],
                                SetToSortSeq(Slots, <))
              IN  /\ req' = x.req /\ disk' = x.disk /\ client' = Serviced(x.client, c)
                  /\ event' = (event \/ x.n > 0)
                  /\ UNCHANGED <<token, done, nv, irq>>
    /\ UNCHANGED <<dev, pool, sent, inside, old, cq>>

NextGen(s) == FreeReq(req[s].gen + 1)

\* block_collect answers the request with this id, once, and frees the slot.  A
\* task that was woken services the device before it collects.
block_collect(c) ==
    LET x == client[c]
        s == x.id[2]
    IN  /\ x.pc = "wait" /\ ~x.awake /\ dev.on
        /\ req[s].gen = x.id[1] /\ req[s].st \in {"done", "error"}
        /\ client' = [client EXCEPT ![c] =
                        [pc |-> "got", op |-> x.op, ok |-> req[s].ok, val |-> IF x.sg THEN pool[s] ELSE req[s].data,
                         seen |-> x.seen, landed |-> x.landed]]
        /\ req' = [req EXCEPT ![s] = NextGen(s)]
        /\ UNCHANGED <<dev, token, pool, disk, sent, inside, done, old, cq, nv, irq, event>>

\* The client is done with the answer.
Return(c) == /\ client[c].pc = "got" /\ client' = [client EXCEPT ![c] = Idle]
             /\ UNCHANGED <<dev, req, token, pool, disk, sent, inside, done, old, cq, nv, irq, event>>

\* A task wakes by the event, which resets itself, and services the device.
event_wait(c) == /\ client[c].pc = "wait" /\ ~client[c].awake /\ event /\ event' = FALSE
                 /\ client' = [client EXCEPT ![c].awake = TRUE]
                 /\ UNCHANGED <<dev, req, token, pool, disk, sent, inside, done, old, cq, nv, irq>>

\* block_io and page_transfer return an error after their last spin; the
\* request stays where it is.
GiveUp(c) == /\ client[c].pc = "wait" /\ ~client[c].awake /\ req[client[c].id[2]].st = "pending"
             /\ client' = [client EXCEPT ![c] = Idle]
             /\ UNCHANGED <<dev, req, token, pool, disk, sent, inside, done, old, cq, nv, irq, event>>

\* block_revoke of a ramdisk or of the device of a capsule: every outstanding
\* request is void.
block_revoke ==
    /\ dev.on /\ ~dev.revoked /\ Backend # "nvme"
    /\ dev' = [dev EXCEPT !.revoked = TRUE]
    /\ req' = [s \in Slots |-> NextGen(s)] /\ token' = {}
    /\ client' = [c \in Clients |-> IF client[c].pc = "wait" THEN Idle ELSE client[c]]
    /\ UNCHANGED <<pool, disk, sent, inside, done, old, cq, nv, irq, event>>

\* The last reference goes (block_destroy), and the backend of a restarted
\* capsule registers with rings of its own (block_bind_capsule_transport).
block_rebind ==
    /\ dev.revoked /\ \A c \in Clients : client[c] = Idle
    /\ dev' = [dev EXCEPT !.revoked = FALSE]
    /\ req' = Fresh /\ token' = {} /\ sent' = <<>> /\ inside' = {} /\ done' = <<>> /\ old' = {}
    /\ event' = FALSE
    /\ UNCHANGED <<pool, disk, cq, nv, irq, client>>

-----------------------------------------------------------------------------
(* The backends.                                                              *)

take == /\ sent # <<>>
        /\ inside' = inside \cup {Head(sent)} /\ sent' = Tail(sent)
        /\ UNCHANGED <<dev, req, token, pool, disk, done, old, cq, nv, irq, event, client>>

\* The device executes command k, or fails it.
Execute(k, ok) ==
    LET s == k.id[2]
        v == pool[s]
    IN  /\ inside' = inside \ {k}
        /\ disk' = IF ok /\ k.op = "write" THEN [disk EXCEPT ![k.lba] = v] ELSE disk
        /\ pool' = IF ok /\ k.op = "read" THEN [pool EXCEPT ![s] = disk[k.lba]] ELSE pool
        /\ client' = IF ~ok THEN client
                     ELSE Landed(IF k.op = "write" THEN Saw(client, k.lba, v) ELSE client, k.by, k.id)

capsule_complete(k, ok) ==
    /\ Backend = "capsule" /\ k \in inside /\ Len(done) < Depth
    /\ Execute(k, ok)
    /\ done' = Append(done, [id |-> k.id, ok |-> ok]) /\ old' = old \cup {k.id}
    /\ UNCHANGED <<dev, req, token, sent, cq, nv, irq, event>>

\* A completion a second time, however late.
capsule_again(id) ==
    /\ id \in old /\ Len(done) < Depth
    /\ done' = Append(done, [id |-> id, ok |-> TRUE]) /\ old' = old \ {id}
    /\ UNCHANGED <<dev, req, token, pool, disk, sent, inside, cq, nv, irq, event, client>>

\* The controller posts an entry with its phase bit and interrupts.
nvme_complete(k, ok) ==
    /\ Backend = "nvme" /\ k \in inside /\ Execute(k, ok)
    /\ cq' = [cq EXCEPT ![nv.tail] = [bit |-> nv.bit, id |-> k.id, ok |-> ok]]
    /\ nv' = [nv EXCEPT !.tail = (@ + 1) % Depth, !.bit = IF nv.tail + 1 = Depth THEN 1 - @ ELSE @]
    /\ irq' = IF irq.masked THEN [irq EXCEPT !.pend = TRUE] ELSE [irq EXCEPT !.masked = TRUE]
    /\ event' = (event \/ ~irq.masked)
    /\ UNCHANGED <<dev, req, token, sent, done, old>>

-----------------------------------------------------------------------------

InFlight == Range(sent) \cup inside
Unread == LET n == NewEntries IN {n[k].id : k \in DOMAIN n}

\* An answer belongs to the request it is given for: the device did execute
\* that request, and a read returns what the sector held at some moment since
\* its submission.  Completions that come late, twice, or after the slot was
\* used again answer nobody.
AnswerIsOwn ==
    \A c \in Clients : client[c].pc = "got" /\ client[c].ok =>
        /\ client[c].landed
        /\ client[c].op = "read" => client[c].val \in client[c].seen

\* No request is forgotten: one that is pending is with its backend, or its
\* completion is still to be read, through every turn of the completion queue
\* and its phase bit; no two are there for one slot.
PendingIsInFlight ==
    Backend \in {"nvme", "capsule"} /\ ~dev.revoked =>
      \A s \in Slots : req[s].st = "pending" =>
        LET id == <<req[s].gen, s>>
        IN  /\ \/ \E k \in InFlight : k.id = id
               \/ \E k \in DOMAIN done : done[k].id = id
               \/ Backend = "nvme" /\ id \in Unread
            /\ Backend = "nvme" => Cardinality({k \in InFlight : k.id[2] = s}) <= 1

\* A completion of the NVMe that nobody has read has signalled the event or
\* woken a task: the interrupt is never left masked with the completions of
\* sleeping tasks in the queue.
NoneStranded == Backend = "nvme" /\ Unread # {} => 
    event \/ \E c \in Clients : client[c].pc = "wait" /\ client[c].awake
=============================================================================
