------------------------------- MODULE Locks --------------------------------
(***************************************************************************)
(* The kernel locks (core/klock.c, core/klock.h): one ticket spinlock      *)
(* (core/spinlock.h) per level, and a record per processor of the levels   *)
(* it holds.  A processor takes a lock deeper than the deepest one it      *)
(* holds; klock_acquire panics otherwise, so the step does not exist.      *)
(* Interrupts are off from the acquire to the release, so a processor does *)
(* nothing else in between.  Two locks of the code share the level WAIT    *)
(* (posix_tty_wait_klock, posix_poll_wait_klock); nobody holds both, and   *)
(* they are one lock here.                                                 *)
(*                                                                         *)
(* Tickets are 32 bits wide and compared for equality: they are numbers    *)
(* here, compared modulo Width.                                            *)
(***************************************************************************)
EXTENDS Integers, FiniteSets, Sequences

CONSTANTS LockCpus,
          LevelMax,    \* KLOCK_LEVEL_PMM
          Width,       \* 2^32
          MaxTicket    \* bound: tickets of one lock

Levels == 1 .. LevelMax

ASSUME LockAssumption ==
    /\ IsFiniteSet(LockCpus)
    /\ LevelMax \in Nat /\ Width \in Nat /\ MaxTicket \in Nat
    /\ Cardinality(LockCpus) < Width

VARIABLES ticket, served,   \* [Levels -> Nat]: struct spinlock
          mine,             \* [LockCpus -> [Levels -> Nat]]: the last ticket drawn
          want,             \* [LockCpus -> Levels or 0]: spins for it
          held              \* [LockCpus -> Seq(Levels)]: klock_records

lockvars == <<ticket, served, mine, want, held>>

LocksInit ==
    /\ ticket = [l \in Levels |-> 0] /\ served = [l \in Levels |-> 0]
    /\ mine = [c \in LockCpus |-> [l \in Levels |-> 0]]
    /\ want = [c \in LockCpus |-> 0] /\ held = [c \in LockCpus |-> <<>>]

klock_held_level(c) == IF held[c] = <<>> THEN 0 ELSE held[c][Len(held[c])]

klock_order_any(level, wanted) == wanted # level

klock_order_ok(level, wanted) == wanted > level

klock_acquire_read_only(c, l) ==
    /\ want[c] = 0 /\ klock_order_ok(klock_held_level(c), l)
    /\ mine' = [mine EXCEPT ![c][l] = ticket[l]]
    /\ want' = [want EXCEPT ![c] = l]
    /\ UNCHANGED <<ticket, served, held>>

\* The first half of spin_lock: draw a ticket.
klock_acquire(c, l) ==
    /\ want[c] = 0 /\ klock_order_ok(klock_held_level(c), l)
    /\ ticket[l] < MaxTicket
    /\ mine' = [mine EXCEPT ![c][l] = ticket[l]]
    /\ ticket' = [ticket EXCEPT ![l] = @ + 1]
    /\ want' = [want EXCEPT ![c] = l]
    /\ UNCHANGED <<served, held>>

\* The second half: the ticket is served.
spin_lock(c) ==
    /\ want[c] # 0
    /\ served[want[c]] % Width = mine[c][want[c]] % Width
    /\ held' = [held EXCEPT ![c] = Append(@, want[c])]
    /\ want' = [want EXCEPT ![c] = 0]
    /\ UNCHANGED <<ticket, served, mine>>

klock_release(c) ==
    /\ want[c] = 0 /\ held[c] # <<>>
    /\ served' = [served EXCEPT ![klock_held_level(c)] = @ + 1]
    /\ held' = [held EXCEPT ![c] = SubSeq(@, 1, Len(@) - 1)]
    /\ UNCHANGED <<ticket, mine, want>>

LocksNext == \E c \in LockCpus : spin_lock(c) \/ klock_release(c) \/ \E l \in Levels : klock_acquire(c, l)

LocksSpec == LocksInit /\ [][LocksNext]_lockvars

-----------------------------------------------------------------------------
Holds(c, l) == \E i \in 1 .. Len(held[c]) : held[c][i] = l

LocksTypeOK ==
    /\ ticket \in [Levels -> Nat] /\ served \in [Levels -> Nat]
    /\ mine \in [LockCpus -> [Levels -> Nat]]
    /\ want \in [LockCpus -> Levels \union {0}]
    /\ held \in [LockCpus -> Seq(Levels)]

\* A lock is held by one processor at a time: the ticket comparison lets one in
\* even when the counters have run round.
MutualExclusion == \A c, d \in LockCpus, l \in Levels : Holds(c, l) /\ Holds(d, l) => c = d

\* While a processor spins, some processor can go on: one whose ticket is
\* served, or one that holds a lock and spins for none.  The order of levels
\* that klock_acquire enforces rules out processors that all wait for one
\* another.
NoDeadlock ==
    (\E c \in LockCpus : want[c] # 0) =>
      \E c \in LockCpus :
        \/ want[c] # 0 /\ served[want[c]] = mine[c][want[c]]
        \/ want[c] = 0 /\ held[c] # <<>>

-----------------------------------------------------------------------------
(* The inductive invariant: a processor that spins for a lock or holds it  *)
(* has one of the tickets drawn and not yet served, the holder the one     *)
(* that is served; every such ticket has exactly one owner; and levels     *)
(* increase along a record, to the level spun for.                         *)

Has(c, l) == want[c] = l \/ Holds(c, l)

TicketsOwned ==
    \A l \in Levels :
      /\ served[l] <= ticket[l]
      /\ \A c \in LockCpus : Has(c, l) => served[l] <= mine[c][l] /\ mine[c][l] < ticket[l]
      /\ \A c \in LockCpus : Holds(c, l) => mine[c][l] = served[l]
      /\ \A c, d \in LockCpus : Has(c, l) /\ Has(d, l) /\ mine[c][l] = mine[d][l] => c = d
      /\ \A t \in served[l] .. ticket[l] - 1 : \E c \in LockCpus : Has(c, l) /\ mine[c][l] = t

LevelsIncrease ==
    \A c \in LockCpus :
      /\ \A i, j \in 1 .. Len(held[c]) : i < j => held[c][i] < held[c][j]
      /\ \A i \in 1 .. Len(held[c]) : want[c] # 0 => held[c][i] < want[c]

LocksInv == LocksTypeOK /\ TicketsOwned /\ LevelsIncrease
=============================================================================
