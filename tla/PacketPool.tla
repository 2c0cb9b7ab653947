----------------------------- MODULE PacketPool -----------------------------
(***************************************************************************)
(* Packet buffers and descriptor rings (net/net_buffer.c, objects/ring.c)  *)
(* as operators on values: a pool of buffers, each with a state and a      *)
(* generation, and a ring of buffer identifiers.  An identifier is a slot  *)
(* with the generation it was acquired at; generations run round, as the   *)
(* 32-bit ones do, and skip zero.  The 64-bit positions of a ring are      *)
(* abstracted to the sequence of descriptors between consumer and          *)
(* producer.                                                               *)
(***************************************************************************)
EXTENDS Integers, Sequences

CONSTANTS BufferCount,    \* buffers of the pool
          GenerationTop,  \* largest generation, 2^32 - 1 in the code
          RingCapacity    \* descriptors a ring holds

Buffers == 1 .. BufferCount
None == <<>>

\* F(x), with x evaluated once.
Given(x, F(_)) == CHOOSE y \in {F(z) : z \in {x}} : TRUE

NextGeneration(g) == (g % GenerationTop) + 1

packet_pool_create ==
    [state |-> [b \in Buffers |-> "FREE"], generation |-> [b \in Buffers |-> 1],
     next |-> 0, revoked |-> FALSE]

\* buffer_for, and the test of the state that every caller adds to it.
buffer_for(pool, id, state) ==
    id # None /\ pool.generation[id[1]] = id[2] /\ pool.state[id[1]] = state

\* The first free buffer at or after next, round the end.
packet_pool_acquire(pool, state) ==
    LET free == {b \in Buffers : pool.state[b] = "FREE"}
        Turn(b) == ((b - 1 + BufferCount) - pool.next) % BufferCount
    IN  IF pool.revoked \/ free = {} THEN [pool |-> pool, id |-> None]
        ELSE LET b == CHOOSE x \in free : \A y \in free : Turn(x) <= Turn(y)
             IN  [pool |-> [pool EXCEPT !.state[b] = state, !.next = b % BufferCount],
                  id |-> <<b, pool.generation[b]>>]

packet_pool_transition(pool, id, old, new) ==
    IF ~pool.revoked /\ buffer_for(pool, id, old)
    THEN [pool EXCEPT !.state[id[1]] = new] ELSE pool

packet_pool_release(pool, id, state) ==
    IF buffer_for(pool, id, state)
    THEN [pool EXCEPT !.state[id[1]] = "FREE", !.generation[id[1]] = NextGeneration(@),
                      !.next = IF @ > id[1] - 1 THEN id[1] - 1 ELSE @]
    ELSE pool

\* packet_pool_data: the buffer can be read and written.
packet_pool_data(pool, id, state) == ~pool.revoked /\ buffer_for(pool, id, state)

packet_pool_revoke(pool) ==
    [pool EXCEPT !.revoked = TRUE, !.state = [b \in Buffers |-> "FREE"],
                 !.generation = [b \in Buffers |-> NextGeneration(pool.generation[b])]]

ring_resource_create == [queue |-> <<>>, revoked |-> FALSE]

ring_room(ring) == ~ring.revoked /\ Len(ring.queue) < RingCapacity

ring_resource_submit(ring, id) ==
    IF ring_room(ring) THEN [ring EXCEPT !.queue = Append(@, id)] ELSE ring

ring_resource_consume(ring) ==
    IF ~ring.revoked /\ ring.queue # <<>> THEN [ring EXCEPT !.queue = Tail(@)] ELSE ring

revoke_ring(ring) == [queue |-> <<>>, revoked |-> TRUE]
=============================================================================
