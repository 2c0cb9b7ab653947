-------------------------------- MODULE Vnic --------------------------------
(***************************************************************************)
(* The virtual network card (net/vnic.c): a packet pool between two rings. *)
(* vnic_inject fills the receive ring and vnic_receive empties it into the *)
(* stack; vnic_submit_tx fills the transmit ring and vnic_drain_tx empties *)
(* it.  Either side may be a task with a handle, and a revoke may come     *)
(* between any two calls.  The benchmark (vnic_benchmark.c) is one such    *)
(* caller.                                                                 *)
(***************************************************************************)
EXTENDS PacketPool

VARIABLES pool, rx, tx,   \* struct vnic_state
          stack,          \* received buffers a task has not released
          filling         \* transmit buffers a task has not submitted

vars == <<pool, rx, tx, stack, filling>>

vnic_create ==
    /\ pool = packet_pool_create /\ rx = ring_resource_create /\ tx = ring_resource_create
    /\ stack = {} /\ filling = {}

\* A frame comes in; no buffer or no place on the ring drops it.
vnic_inject ==
    /\ ~pool.revoked
    /\ \E a \in {packet_pool_acquire(pool, "RX")} :
         /\ a.id # None
         /\ pool' = IF ring_room(rx) THEN a.pool ELSE packet_pool_release(a.pool, a.id, "RX")
         /\ rx' = ring_resource_submit(rx, a.id)
    /\ UNCHANGED <<tx, stack, filling>>

vnic_receive ==
    /\ ~pool.revoked /\ rx.queue # <<>>
    /\ \E id \in {Head(rx.queue)} :
         /\ pool' = packet_pool_transition(pool, id, "RX", "STACK")
         /\ stack' = IF buffer_for(pool, id, "RX") THEN stack \union {id} ELSE stack
    /\ rx' = ring_resource_consume(rx)
    /\ UNCHANGED <<tx, filling>>

vnic_release_rx(id) ==
    /\ ~pool.revoked /\ id \in stack
    /\ pool' = packet_pool_release(pool, id, "STACK")
    /\ stack' = stack \ {id}
    /\ UNCHANGED <<rx, tx, filling>>

vnic_acquire_tx ==
    /\ ~pool.revoked
    /\ \E a \in {packet_pool_acquire(pool, "TX")} :
         /\ a.id # None /\ pool' = a.pool /\ filling' = filling \union {a.id}
    /\ UNCHANGED <<rx, tx, stack>>

\* A full ring leaves the buffer with its caller.
vnic_submit_tx(id) ==
    /\ ~pool.revoked /\ id \in filling /\ ring_room(tx)
    /\ pool' = packet_pool_transition(pool, id, "TX", "TX_QUEUED")
    /\ tx' = ring_resource_submit(tx, id)
    /\ filling' = filling \ {id}
    /\ UNCHANGED <<rx, stack>>

vnic_drain_tx ==
    /\ ~pool.revoked /\ tx.queue # <<>>
    /\ pool' = packet_pool_release(pool, Head(tx.queue), "TX_QUEUED")
    /\ tx' = ring_resource_consume(tx)
    /\ UNCHANGED <<rx, stack, filling>>

\* Tasks keep the identifiers they hold.
vnic_revoke ==
    /\ ~pool.revoked
    /\ pool' = packet_pool_revoke(pool) /\ rx' = revoke_ring(rx) /\ tx' = revoke_ring(tx)
    /\ UNCHANGED <<stack, filling>>

Next ==
    \/ vnic_inject \/ vnic_receive \/ vnic_acquire_tx \/ vnic_drain_tx \/ vnic_revoke
    \/ \E id \in stack : vnic_release_rx(id)
    \/ \E id \in filling : vnic_submit_tx(id)

\* Every buffer of a card in use is in exactly one place, the one its state
\* names, and every identifier in a place is still good: no buffer is lost to
\* the pool, none is handed out twice, and no call with an identifier a task
\* rightly holds is refused.
VnicBuffersExact ==
    ~pool.revoked =>
      LET On(ring, state) == {<<k, ring.queue[k], state>> : k \in 1 .. Len(ring.queue)}
          held == On(rx, "RX") \union On(tx, "TX_QUEUED")
                  \union {<<0, id, "STACK">> : id \in stack}
                  \union {<<0, id, "TX">> : id \in filling}
      IN  /\ \A h \in held : buffer_for(pool, h[2], h[3])
          /\ \A b \in Buffers : pool.state[b] # "FREE" =>
               \E h \in held : h[2][1] = b /\ \A g \in held : g[2][1] = b => g = h
=============================================================================
