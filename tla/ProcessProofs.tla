---------------------------- MODULE ProcessProofs ---------------------------
(***************************************************************************)
(* Proofs about the process tree, for any number of slots and generations: *)
(* parents and the owner of the init service are live, and no parked wait  *)
(* sleeps through an exit.                                                 *)
(***************************************************************************)
EXTENDS Process, TLAPS, WellFoundedInduction

\* The types the proofs need.
FamilyTypes ==
    /\ state \in [Slots -> States]
    /\ gen \in [Slots -> 0 .. GenMax]
    /\ parent \in [Slots -> Pids \cup {Kernel}]
    /\ wait_pid \in [Slots -> Pids \cup {Kernel}]
    /\ init_owner \in Pids \cup {Kernel}

\* The inductive invariant.
FamilyInv == FamilyTypes /\ ParentIsLive /\ InitOwnerIsLive /\ NoWaitSleepsOn

-----------------------------------------------------------------------------
\* The least element of a set of slots is one of them.
LEMMA MinOfSlots ==
    ASSUME NEW S \in SUBSET Slots, S # {}
    PROVE  Min(S) \in S
<1> DEFINE R == OpToRel(<, Nat)
<1>1. S \subseteq Nat
  BY ProcessAssumption
<1>2. IsWellFoundedOn(R, Nat)
  BY NatLessThanWellFounded, Zenon
<1>3. PICK x \in S : \A y \in S : <<y, x>> \notin R
  BY ONLY WFMin, <1>1, <1>2, S # {}, Zenon
<1>4. ASSUME NEW y \in S
      PROVE  x <= y
  <2>1. x \in Nat /\ y \in Nat /\ <<y, x>> \notin R
    BY <1>1, <1>3, Zenon
  <2>2. ~(y < x)
    BY <2>1 DEF OpToRel
  <2> HIDE DEF R
  <2> QED BY <2>1, <2>2
<1>5. \E z \in S : \A y \in S : z <= y
  BY <1>3, <1>4, Zenon
<1> HIDE DEF R
<1> QED BY <1>5 DEF Min

\* task_alloc_slot hands out a free slot.
LEMMA FirstFreeIsFree ==
    ASSUME CanAlloc
    PROVE  FirstFree \in Slots /\ state[FirstFree] = "free"
  BY MinOfSlots DEF CanAlloc, FirstFree

\* Process identifiers name one slot each.
LEMMA PidFacts ==
    ASSUME FamilyTypes
    PROVE  /\ \A s \in Slots : Pid(s) \in Pids /\ Pid(s) # Kernel
           /\ \A s, t \in Slots : Pid(s) = Pid(t) => s = t
           /\ \A q \in Pids : q[1] \in Slots /\ q[2] \in 0 .. GenMax /\ q = <<q[1], q[2]>> /\ q # Kernel
           /\ \A q \in Pids : Live(q) => Pid(q[1]) = q
           /\ \A s \in Slots : Live(Pid(s)) <=> state[s] \notin Dead
  BY ProcessAssumption DEF FamilyTypes, Pid, Pids, Live

\* task_free_slot keeps the generation within its bits.
LEMMA NextGenInRange ==
    ASSUME NEW g \in 0 .. GenMax
    PROVE  NextGen(g) \in 0 .. GenMax
  BY ProcessAssumption DEF NextGen

\* The first task has no parent and nobody waits.
LEMMA InitFamily == Init => FamilyInv
<1> SUFFICES ASSUME Init PROVE FamilyInv
  OBVIOUS
<1>1. FamilyTypes
  BY ProcessAssumption DEF Init, FamilyTypes, States
<1>2. ParentIsLive /\ InitOwnerIsLive /\ NoWaitSleepsOn
  BY <1>1, PidFacts DEF Init, ParentIsLive, InitOwnerIsLive, NoWaitSleepsOn
<1> QED BY <1>1, <1>2 DEF FamilyInv

-----------------------------------------------------------------------------
\* A step that lets nobody die, and nobody new in, keeps the family.
LEMMA SameFamily ==
    ASSUME FamilyInv, FamilyTypes', UNCHANGED <<gen, parent, init_owner>>,
           \A s \in Slots : (state'[s] \in Dead \/ state[s] \in Dead) => state'[s] = state[s]
    PROVE  ParentIsLive' /\ InitOwnerIsLive'
<1>1. \A q \in Pids : Live(q) => Live(q)'
  BY PidFacts DEF FamilyInv, Live
<1>2. \A c \in Slots : parent[c] \in Pids \cup {Kernel}
  BY DEF FamilyInv, FamilyTypes
<1>3. ParentIsLive'
  BY <1>1, <1>2 DEF FamilyInv, ParentIsLive, Dead
<1>4. InitOwnerIsLive'
  BY <1>1 DEF FamilyInv, FamilyTypes, InitOwnerIsLive
<1> QED BY <1>3, <1>4

\* If besides that nobody parks, no wait comes to sleep on a zombie.
LEMMA SameWaits ==
    ASSUME FamilyInv, FamilyTypes', UNCHANGED <<gen, parent>>,
           \A s \in Slots : (state'[s] \in Dead \/ state[s] \in Dead) => state'[s] = state[s],
           \A s \in Slots : state'[s] = "wait" => state[s] = "wait" /\ wait_pid'[s] = wait_pid[s]
    PROVE  NoWaitSleepsOn'
<1> SUFFICES ASSUME NEW p \in Slots, NEW c \in Slots,
                    state'[c] = "zombie", parent'[c] = Pid(p)', Awaits(p, c, state)'
             PROVE  FALSE
  BY DEF NoWaitSleepsOn
<1>1. state[c] = "zombie" /\ parent[c] = Pid(p)
  BY DEF Pid, Dead
<1>2. Awaits(p, c, state)
  BY DEF Awaits, Pid
<1> QED BY <1>1, <1>2 DEF FamilyInv, NoWaitSleepsOn

\* A new task in a free slot, with a live parent or none.
LEMMA NewTask ==
    ASSUME FamilyInv, CanAlloc, UNCHANGED <<gen, wait_pid, init_owner>>,
           NEW st \in {"running", "suspended"}, state' = [state EXCEPT ![FirstFree] = st],
           NEW q, q = Kernel \/ \E p \in Slots : q = Pid(p) /\ state[p] = "running",
           parent' = [parent EXCEPT ![FirstFree] = q]
    PROVE  FamilyInv'
<1> DEFINE n == FirstFree
<1>1. n \in Slots /\ state[n] = "free"
  BY FirstFreeIsFree
<1> HIDE DEF n
<1>2. FamilyTypes /\ ParentIsLive /\ InitOwnerIsLive /\ NoWaitSleepsOn
  BY DEF FamilyInv
<1>3. q \in Pids \cup {Kernel} /\ (q # Kernel => Live(q))
  BY <1>2, PidFacts DEF Dead
<1>4. /\ \A s \in Slots : s # n => state'[s] = state[s] /\ parent'[s] = parent[s]
      /\ state'[n] = st /\ parent'[n] = q
  BY <1>1, <1>2 DEF FamilyTypes, n
<1>5. FamilyTypes'
  BY <1>1, <1>2, <1>3 DEF FamilyTypes, States, n
<1>6. \A r \in Pids : Live(r) => Live(r)'
  <2> SUFFICES ASSUME NEW r \in Pids, Live(r) PROVE Live(r)'
    OBVIOUS
  <2>1. r[1] \in Slots /\ r[1] # n
    BY <1>1, <1>2, PidFacts DEF Live, Dead
  <2> QED BY <1>4, <2>1 DEF Live
<1>7. ParentIsLive'
  <2> SUFFICES ASSUME NEW c \in Slots, state'[c] # "free"
               PROVE  (parent[c] = Kernel \/ Live(parent[c]))'
    BY DEF ParentIsLive
  <2>1. CASE c = n
    BY <1>3, <1>4, <1>6, <2>1
  <2>2. CASE c # n
    <3>1. parent[c] \in Pids \cup {Kernel} /\ (parent[c] = Kernel \/ Live(parent[c]))
      BY <1>2, <1>4, <2>2 DEF FamilyTypes, ParentIsLive
    <3> QED BY <1>4, <1>6, <2>2, <3>1
  <2> QED BY <2>1, <2>2
<1>8. InitOwnerIsLive'
  BY <1>2, <1>6 DEF FamilyTypes, InitOwnerIsLive
<1>9. NoWaitSleepsOn'
  <2> SUFFICES ASSUME NEW p \in Slots, NEW c \in Slots,
                      state'[c] = "zombie", parent'[c] = Pid(p)', Awaits(p, c, state)'
               PROVE  FALSE
    BY Zenon DEF NoWaitSleepsOn
  <2>1. c # n /\ p # n
    BY <1>4 DEF Awaits
  <2>2. state[c] = "zombie" /\ parent[c] = Pid(p) /\ Awaits(p, c, state)
    BY <1>4, <2>1 DEF Awaits, Pid
  <2> QED BY <1>2, <2>2 DEF NoWaitSleepsOn
<1> QED BY <1>5, <1>7, <1>8, <1>9 DEF FamilyInv

\* Zombies are freed; nobody is their child.
LEMMA ZombiesFreed ==
    ASSUME FamilyInv, NEW F \in SUBSET Slots, \A s \in F : state[s] = "zombie",
           state' = Freed(F, state), FreeSlots(F), UNCHANGED <<wait_pid, init_owner>>,
           parent' \in [Slots -> Pids \cup {Kernel}],
           \A s \in Slots \ F : parent'[s] = parent[s]
    PROVE  FamilyInv'
<1>1. FamilyTypes /\ ParentIsLive /\ InitOwnerIsLive /\ NoWaitSleepsOn
  BY DEF FamilyInv
<1>2. /\ \A s \in Slots \ F : state'[s] = state[s] /\ gen'[s] = gen[s]
      /\ \A s \in F : state'[s] = "free"
  BY <1>1 DEF FamilyTypes, Freed, FreeSlots, Set
<1>3. FamilyTypes'
  <2>1. state' \in [Slots -> States]
    BY <1>1 DEF FamilyTypes, Freed, Set, States
  <2>2. gen' \in [Slots -> 0 .. GenMax]
    BY <1>1, NextGenInRange DEF FamilyTypes, FreeSlots
  <2> QED BY <1>1, <2>1, <2>2 DEF FamilyTypes
<1>4. \A r \in Pids : Live(r) => Live(r)'
  <2> SUFFICES ASSUME NEW r \in Pids, Live(r) PROVE Live(r)'
    OBVIOUS
  <2>1. r[1] \in Slots \ F
    BY <1>1, PidFacts DEF Live, Dead
  <2> QED BY <1>2, <2>1 DEF Live
<1>5. ParentIsLive'
  <2> SUFFICES ASSUME NEW c \in Slots, state'[c] # "free"
               PROVE  (parent[c] = Kernel \/ Live(parent[c]))'
    BY DEF ParentIsLive
  <2>1. c \in Slots \ F /\ state[c] # "free" /\ parent'[c] = parent[c]
    BY <1>2
  <2>2. parent[c] \in Pids \cup {Kernel} /\ (parent[c] = Kernel \/ Live(parent[c]))
    BY <1>1, <2>1 DEF FamilyTypes, ParentIsLive
  <2> QED BY <1>4, <2>1, <2>2
<1>6. InitOwnerIsLive'
  BY <1>1, <1>4 DEF FamilyTypes, InitOwnerIsLive
<1>7. NoWaitSleepsOn'
  <2> SUFFICES ASSUME NEW p \in Slots, NEW c \in Slots,
                      state'[c] = "zombie", parent'[c] = Pid(p)', Awaits(p, c, state)'
               PROVE  FALSE
    BY DEF NoWaitSleepsOn
  <2>1. c \notin F /\ p \notin F
    BY <1>2 DEF Awaits
  <2>2. state[c] = "zombie" /\ parent[c] = Pid(p) /\ Awaits(p, c, state)
    BY <1>2, <2>1 DEF Awaits, Pid
  <2> QED BY <1>1, <2>2 DEF NoWaitSleepsOn
<1> QED BY <1>3, <1>5, <1>6, <1>7 DEF FamilyInv

-----------------------------------------------------------------------------
\* reparent_children frees only zombie children of the dying task, and wakes
\* an adopter only out of its wait.
LEMMA BuriedFacts ==
    ASSUME FamilyInv, NEW d \in Slots
    PROVE  /\ Buried(d) \in SUBSET Slots
           /\ \A c \in Buried(d) : state[c] = "zombie"
           /\ Adopter(d) = Kernel \/ (Adopter(d) \in Pids /\ Live(Adopter(d)) /\ Adopter(d) # Pid(d))
           /\ Adopted(d) # {} => Adopter(d) # Kernel /\ state[Adopter(d)[1]] = "wait"
           /\ \A c \in Children(Pid(d)) :
                 (state[c] = "zombie" /\ Adopter(d) # Kernel /\ Awaits(Adopter(d)[1], c, state))
                     => Adopted(d) # {}
<1> DEFINE M == {c \in Children(Pid(d)) :
                    /\ state[c] = "zombie"
                    /\ Adopter(d) # Kernel
                    /\ Awaits(Adopter(d)[1], c, state)}
<1>1. Adopted(d) = IF M = {} THEN {} ELSE {Min(M)}
  BY DEF Adopted
<1>2. M \in SUBSET Slots
  BY DEF Children
<1>3. M # {} => Min(M) \in M
  BY <1>2, MinOfSlots
<1>4. Adopted(d) \subseteq M /\ (M # {} => Adopted(d) # {})
  BY <1>1, <1>3
<1>5. Adopter(d) = Kernel \/ (Adopter(d) \in Pids /\ Live(Adopter(d)) /\ Adopter(d) # Pid(d))
  BY DEF FamilyInv, FamilyTypes, InitOwnerIsLive, Adopter, Live
<1>6. Buried(d) \in SUBSET Slots /\ \A c \in Buried(d) : state[c] = "zombie"
  BY <1>2, <1>4 DEF Buried, Children
<1>7. Adopted(d) # {} => Adopter(d) # Kernel /\ state[Adopter(d)[1]] = "wait"
  BY <1>4 DEF Awaits
<1> QED BY <1>4, <1>5, <1>6, <1>7

\* terminate64 leaves every survivor with a live parent, and whoever waits
\* for the dead task, or for a zombie it adopts, is told.
LEMMA DieKeeps ==
    ASSUME FamilyInv, NEW d \in Slots, Die(d)
    PROVE  FamilyInv'
<1> DEFINE adopter == Adopter(d)
           p == IF d \in Children(Pid(d)) THEN adopter ELSE parent[d]
           woken == IF Adopted(d) = {} THEN {} ELSE {adopter[1]}
           st1 == Freed(Buried(d), Set(state, woken, "running"))
           listens == p # Kernel /\ gen[p[1]] = p[2] /\ st1[p[1]] \notin Dead
           ignored == listens /\ chld[p[1]] = "ignore"
           eintr == /\ listens /\ chld[p[1]] = "catch"
                    /\ st1[p[1]] = "wait" /\ wait_pid[p[1]] = Kernel
           st2 == IF eintr THEN [st1 EXCEPT ![p[1]] = "running"] ELSE st1
           reported == /\ ~ignored /\ listens
                       /\ Awaits(p[1], d, st2)
           freed == Buried(d) \cup (IF ignored \/ reported THEN {d} ELSE {})
           exited == woken \cup (IF reported THEN {p[1]} ELSE {})
           broken == IF eintr THEN {p[1]} ELSE {}
<1>1. /\ state[d] \notin Dead
      /\ state' = Freed(freed, [Set(st2, exited, "running") EXCEPT ![d] = "zombie"])
      /\ wait_pid' = Set(wait_pid, exited \cup broken \cup {d}, Kernel)
      /\ parent' = Set(Set(parent, Children(Pid(d)), adopter), freed, Kernel)
      /\ init_owner' = ReleaseOwner(d)
      /\ gen' = [s \in Slots |-> IF s \in freed THEN NextGen(gen[s]) ELSE gen[s]]
  BY Zenon DEF Die
<1>2. /\ state \in [Slots -> States] /\ gen \in [Slots -> 0 .. GenMax]
      /\ parent \in [Slots -> Pids \cup {Kernel}]
      /\ wait_pid \in [Slots -> Pids \cup {Kernel}]
      /\ init_owner \in Pids \cup {Kernel}
  BY DEF FamilyInv, FamilyTypes
<1>3. FamilyTypes /\ ParentIsLive /\ InitOwnerIsLive /\ NoWaitSleepsOn
  BY DEF FamilyInv
<1>4. /\ Buried(d) \in SUBSET Slots
      /\ \A c \in Buried(d) : state[c] = "zombie"
      /\ adopter = Kernel \/ (adopter \in Pids /\ Live(adopter) /\ adopter # Pid(d))
      /\ Adopted(d) # {} => adopter # Kernel /\ state[adopter[1]] = "wait"
      /\ \A c \in Children(Pid(d)) :
            (state[c] = "zombie" /\ adopter # Kernel /\ Awaits(adopter[1], c, state))
                => Adopted(d) # {}
  BY BuriedFacts, Zenon
<1> HIDE DEF adopter
\* A live process identifier other than the dying task's.
<1>5. \A q \in Pids : Live(q) /\ q # Pid(d) =>
          /\ q[1] \in Slots /\ q[1] # d /\ q = Pid(q[1])
          /\ gen[q[1]] = q[2] /\ state[q[1]] \notin Dead
  BY <1>3, PidFacts DEF Live
<1>6. p = Kernel \/ (p \in Pids /\ Live(p) /\ p # Pid(d))
  <2>1. d \notin Children(Pid(d)) => parent[d] # Pid(d)
    BY <1>1, Zenon DEF Children, Dead
  <2>2. parent[d] \in Pids \cup {Kernel} /\ (parent[d] = Kernel \/ Live(parent[d]))
    BY <1>1, <1>2, <1>3, Zenon DEF ParentIsLive, Dead
  <2>3. CASE d \in Children(Pid(d))
    <3>1. p = adopter
      BY <2>3
    <3> QED BY ONLY <1>4, <3>1, Zenon
  <2>4. CASE d \notin Children(Pid(d))
    <3>1. p = parent[d]
      BY <2>4
    <3> HIDE DEF p
    <3> QED BY <2>1, <2>2, <2>4, <3>1
  <2> HIDE DEF p
  <2> QED BY <2>3, <2>4
<1> HIDE DEF p
<1>7. woken \in SUBSET Slots /\ d \notin woken /\ \A s \in woken : state[s] = "wait"
  BY <1>4, <1>5
<1> HIDE DEF woken
<1>8. /\ DOMAIN st1 = Slots
      /\ \A s \in Slots : st1[s] = IF s \in Buried(d) THEN "free"
                                   ELSE IF s \in woken THEN "running" ELSE state[s]
  BY <1>2 DEF Freed, Set
<1> HIDE DEF st1
<1>9. p # Kernel => listens
  BY <1>4, <1>5, <1>6, <1>8, Zenon DEF Dead
<1> HIDE DEF listens
<1> DEFINE E == exited \cup broken
<1>10. E \in SUBSET Slots /\ d \notin E /\ \A s \in E : state[s] = "wait"
  <2>1. p # Kernel => p[1] \in Slots /\ p[1] # d
    BY <1>5, <1>6, Zenon
  <2>2. listens => p # Kernel
    BY Zenon DEF listens
  <2>3. eintr => st1[p[1]] = "wait"
    OBVIOUS
  <2>4. reported => st1[p[1]] = "wait"
    BY <1>8, <2>1, <2>2 DEF Awaits
  <2>5. \A s \in Slots : st1[s] = "wait" => state[s] = "wait"
    BY <1>8
  <2> QED BY <1>7, <2>1, <2>2, <2>3, <2>4, <2>5, Zenon
<1>11. /\ DOMAIN st2 = Slots
       /\ \A s \in Slots : st2[s] = IF s \in broken THEN "running" ELSE st1[s]
  BY <1>8
<1> HIDE DEF eintr, st2
<1>12. /\ Buried(d) \subseteq freed /\ freed \subseteq Buried(d) \cup {d}
       /\ woken \subseteq exited
  OBVIOUS
\* The dead task's wait_pid, parent and generation never count again.
<1>13. ASSUME NEW q \in Slots, state[q] = "wait", q \notin E, q # d, p = Pid(q),
              wait_pid[q] \in {Kernel, Pid(d)}
       PROVE  d \in freed
  <2>1. p # Kernel /\ p[1] = q
    BY <1>3, <1>13, PidFacts DEF Pid
  <2>2. q \notin Buried(d) /\ q \notin woken /\ q \notin broken
    BY <1>4, <1>13
  <2>3. st2[q] = "wait"
    BY <1>8, <1>11, <1>13, <2>2
  <2>4. ignored \/ reported
    BY <1>9, <1>13, <2>1, <2>3 DEF Awaits
  <2> QED BY <2>4
<1> HIDE DEF ignored, reported, exited, broken, freed
<1>14. /\ \A s \in Slots : state'[s] = IF s \in freed THEN "free" ELSE IF s = d THEN "zombie"
                                       ELSE IF s \in E THEN "running" ELSE state[s]
       /\ state' \in [Slots -> States]
  <2>1. \A s \in Slots : s \notin freed /\ s # d =>
            state'[s] = IF s \in exited THEN "running" ELSE st2[s]
    BY <1>1, <1>11 DEF Freed, Set
  <2>2. \A s \in Slots : (s \in freed => state'[s] = "free")
                         /\ (s \notin freed /\ s = d => state'[s] = "zombie")
    BY <1>1, <1>11 DEF Freed, Set
  <2>3. \A s \in Slots : s \notin freed /\ s # d =>
            state'[s] = IF s \in E THEN "running" ELSE state[s]
    BY <1>8, <1>11, <1>12, <2>1
  <2>4. DOMAIN state' = Slots /\ state' = [s \in Slots |-> state'[s]]
    BY <1>1, <1>11, Zenon DEF Freed, Set
  <2> QED BY <1>2, <2>2, <2>3, <2>4 DEF States
<1>15. /\ \A s \in Slots : wait_pid'[s] = IF s \in E \cup {d} THEN Kernel ELSE wait_pid[s]
       /\ wait_pid' \in [Slots -> Pids \cup {Kernel}]
  BY <1>1, <1>2 DEF Set
<1>16. /\ \A s \in Slots : parent'[s] = IF s \in freed THEN Kernel
                                        ELSE IF s \in Children(Pid(d)) THEN adopter ELSE parent[s]
       /\ parent' \in [Slots -> Pids \cup {Kernel}]
  BY <1>1, <1>2, <1>4, Zenon DEF Set
<1>17. gen' \in [Slots -> 0 .. GenMax] /\ \A s \in Slots \ freed : gen'[s] = gen[s]
  BY <1>1, <1>2, NextGenInRange, Zenon
<1>18. FamilyTypes'
  BY <1>1, <1>2, <1>14, <1>15, <1>16, <1>17 DEF FamilyTypes, ReleaseOwner
<1> HIDE DEF E
<1>19. ASSUME NEW q \in Pids, Live(q), q # Pid(d)
       PROVE  Live(q)'
  <2>1. q[1] \in Slots /\ q[1] # d /\ gen[q[1]] = q[2] /\ state[q[1]] \notin Dead /\ q # Kernel
    BY <1>5, <1>19 DEF Live
  <2>2. q[1] \notin freed
    BY <1>4, <1>12, <2>1 DEF Dead
  <2> QED BY <1>14, <1>17, <2>1, <2>2 DEF Live, Dead
<1>20. ParentIsLive'
  <2> SUFFICES ASSUME NEW c \in Slots, state'[c] # "free"
               PROVE  (parent[c] = Kernel \/ Live(parent[c]))'
    BY DEF ParentIsLive
  <2>1. c \notin freed /\ state[c] # "free"
    BY <1>1, <1>10, <1>14 DEF Dead
  <2>2. CASE c \in Children(Pid(d))
    BY <1>4, <1>16, <1>19, <2>1, <2>2, Zenon
  <2>3. CASE c \notin Children(Pid(d))
    <3>1. parent'[c] = parent[c] /\ parent[c] # Pid(d)
      BY <1>16, <2>1, <2>3 DEF Children
    <3>2. parent[c] \in Pids \cup {Kernel} /\ (parent[c] = Kernel \/ Live(parent[c]))
      BY <1>2, <1>3, <2>1 DEF ParentIsLive
    <3> QED BY <1>19, <3>1, <3>2
  <2> QED BY <2>2, <2>3
<1>21. InitOwnerIsLive'
  BY <1>1, <1>2, <1>3, <1>19 DEF InitOwnerIsLive, ReleaseOwner
<1>22. NoWaitSleepsOn'
  <2> SUFFICES ASSUME NEW q \in Slots, NEW c \in Slots,
                      state'[c] = "zombie", parent'[c] = Pid(q)', Awaits(q, c, state)'
               PROVE  FALSE
    BY DEF NoWaitSleepsOn
  <2>1. c \notin freed /\ q \notin freed /\ q # d /\ q \notin E /\ state[q] = "wait"
    BY <1>14 DEF Awaits
  <2>2. Pid(c)' = Pid(c) /\ Pid(q)' = Pid(q)
    BY <1>17, <2>1 DEF Pid
  <2>3. wait_pid[q] \in {Kernel, Pid(c)}
    BY <1>15, <2>1, <2>2 DEF Awaits
  <2>4. CASE c = d
    <3>1. p = Pid(q)
      BY <1>16, <2>1, <2>2, <2>4 DEF p
    <3> QED BY <1>13, <2>1, <2>3, <2>4, <3>1
  <2>5. CASE c # d
    <3>1. state[c] = "zombie" /\ Awaits(q, c, state)
      BY <1>14, <2>1, <2>3, <2>5 DEF Awaits
    <3>2. CASE c \in Children(Pid(d))
      <4>1. adopter = Pid(q) /\ adopter # Kernel /\ adopter[1] = q
        BY <1>3, <1>16, <2>1, <2>2, <3>2, PidFacts DEF Pid
      <4>2. Adopted(d) # {}
        BY <1>4, <3>1, <3>2, <4>1, Zenon
      <4>3. q \in woken
        BY <4>1, <4>2 DEF woken
      <4> QED BY <1>12, <2>1, <4>3 DEF E
    <3>3. CASE c \notin Children(Pid(d))
      BY <1>3, <1>16, <2>1, <2>2, <3>1, <3>3 DEF NoWaitSleepsOn
    <3> QED BY <3>2, <3>3
  <2> QED BY <2>4, <2>5
<1> QED BY <1>18, <1>20, <1>21, <1>22 DEF FamilyInv

-----------------------------------------------------------------------------
\* A new task, from fork64 or a spawn.
LEMMA ForkKeeps ==
    ASSUME FamilyInv, NEW s \in Slots, Fork(s)
    PROVE  FamilyInv'
<1>1. /\ state[s] = "running" /\ CanAlloc /\ UNCHANGED <<gen, wait_pid, init_owner>>
      /\ state' = [state EXCEPT ![FirstFree] = "running"]
      /\ parent' = [parent EXCEPT ![FirstFree] = Pid(s)]
  BY DEF Fork, wait
<1> QED BY <1>1, NewTask, Zenon

\* A spawn by task p, or by the kernel.
LEMMA SpawnKeeps ==
    ASSUME FamilyInv, NEW p \in Slots \cup {Kernel}, NEW suspended, Spawn(p, suspended)
    PROVE  FamilyInv'
<1> DEFINE st == IF suspended THEN "suspended" ELSE "running"
           q == IF p = Kernel THEN Kernel ELSE Pid(p)
<1>1. /\ CanAlloc /\ UNCHANGED <<gen, wait_pid, init_owner>>
      /\ state' = [state EXCEPT ![FirstFree] = st]
      /\ parent' = [parent EXCEPT ![FirstFree] = q]
  BY DEF Spawn, wait
<1>2. st \in {"running", "suspended"}
  OBVIOUS
<1>3. q = Kernel \/ \E t \in Slots : q = Pid(t) /\ state[t] = "running"
  BY DEF Spawn
<1> HIDE DEF st, q
<1> QED BY <1>1, <1>2, <1>3, NewTask, Zenon

\* reap_orphan_zombies.
LEMMA TickKeeps ==
    ASSUME FamilyInv, Tick
    PROVE  FamilyInv'
<1>1. /\ Orphans \in SUBSET Slots /\ \A s \in Orphans : state[s] = "zombie"
      /\ parent' \in [Slots -> Pids \cup {Kernel}]
      /\ \A s \in Slots \ Orphans : parent'[s] = parent[s]
  BY DEF Orphans, Tick, FamilyInv, FamilyTypes
<1>2. state' = Freed(Orphans, state) /\ FreeSlots(Orphans) /\ UNCHANGED <<wait_pid, init_owner>>
  BY DEF Tick, wait
<1> QED BY <1>1, <1>2, ZombiesFreed

\* A wait that finds news takes a zombie or a report.
LEMMA WaitFindsKeeps ==
    ASSUME FamilyInv, NEW p \in Slots, NEW pid, NEW options, WaitFinds(p, pid, options)
    PROVE  FamilyInv'
<1> DEFINE N == News(p, pid, options)
           c == Min(N)
<1>1. N \in SUBSET Slots /\ N # {}
  BY Zenon DEF WaitFinds, News, Candidates, Children
<1>2. c \in Slots
  BY <1>1, MinOfSlots
<1>3. UNCHANGED <<wait_pid, init_owner>>
  BY DEF WaitFinds, wait
<1>4. CASE state[c] = "zombie"
  <2>1. state' = Freed({c}, state) /\ FreeSlots({c}) /\ parent' = [parent EXCEPT ![c] = Kernel]
    BY <1>4, Zenon DEF WaitFinds
  <2> HIDE DEF c
  <2>2. /\ parent' \in [Slots -> Pids \cup {Kernel}]
        /\ \A s \in Slots \ {c} : parent'[s] = parent[s]
    BY <1>2, <2>1 DEF FamilyInv, FamilyTypes
  <2>3. {c} \in SUBSET Slots /\ \A s \in {c} : state[s] = "zombie"
    BY <1>2, <1>4
  <2> QED BY <1>3, <2>1, <2>2, <2>3, ZombiesFreed
<1>5. CASE state[c] # "zombie"
  <2>1. UNCHANGED <<state, gen, parent>>
    BY <1>5 DEF WaitFinds
  <2>2. FamilyTypes'
    BY <1>3, <2>1 DEF FamilyInv, FamilyTypes
  <2> QED BY <1>3, <2>1, <2>2, SameFamily, SameWaits, Zenon DEF FamilyInv
<1> QED BY <1>4, <1>5

\* task_wait_park: the scan before it found no zombie.
LEMMA WaitParksKeeps ==
    ASSUME FamilyInv, NEW p \in Slots, NEW pid \in Pids \cup {Kernel}, NEW posix, NEW options,
           WaitParks(p, pid, posix, options)
    PROVE  FamilyInv'
<1>1. /\ state[p] = "running" /\ News(p, pid, options) = {}
      /\ state' = [state EXCEPT ![p] = "wait"]
      /\ wait_pid' = [wait_pid EXCEPT ![p] = pid]
      /\ UNCHANGED <<gen, parent, init_owner>>
  BY DEF WaitParks
<1>2. FamilyTypes'
  BY <1>1 DEF FamilyInv, FamilyTypes, States
<1>3. /\ \A s \in Slots : (state'[s] \in Dead \/ state[s] \in Dead) => state'[s] = state[s]
      /\ \A s \in Slots : s # p => state'[s] = state[s] /\ wait_pid'[s] = wait_pid[s]
      /\ wait_pid'[p] = pid
  BY <1>1 DEF FamilyInv, FamilyTypes, Dead
<1>4. ParentIsLive' /\ InitOwnerIsLive'
  BY <1>1, <1>2, <1>3, SameFamily
<1>5. NoWaitSleepsOn'
  <2> SUFFICES ASSUME NEW q \in Slots, NEW c \in Slots,
                      state'[c] = "zombie", parent'[c] = Pid(q)', Awaits(q, c, state)'
               PROVE  FALSE
    BY DEF NoWaitSleepsOn
  <2>1. state[c] = "zombie" /\ parent[c] = Pid(q) /\ Pid(c)' = Pid(c)
    BY <1>1, <1>3 DEF Pid, Dead
  <2>2. CASE q = p
    <3>1. pid \in {Kernel, Pid(c)}
      BY <1>3, <2>1, <2>2 DEF Awaits
    <3>2. c \in News(p, pid, options)
      BY <2>1, <2>2, <3>1 DEF News, Candidates, Children
    <3> QED BY <1>1, <3>2
  <2>3. CASE q # p
    <3>1. Awaits(q, c, state)
      BY <1>3, <2>1, <2>3 DEF Awaits
    <3> QED BY <2>1, <3>1 DEF FamilyInv, NoWaitSleepsOn
  <2> QED BY <2>2, <2>3
<1> QED BY <1>2, <1>4, <1>5 DEF FamilyInv

\* Stops and continues change nobody's life, and end waits only.
LEMMA ReportKeeps ==
    ASSUME FamilyInv, NEW c \in Slots, NEW st \in {"running", "stopped"}, NEW stopped, NEW continued,
           NEW broken, state[c] \notin Dead, Report(c, st, stopped, continued, broken)
    PROVE  FamilyInv'
<1> DEFINE p == parent[c]
           told == Publishes(p, c, stopped, continued)
           woken == IF told THEN {p[1]} ELSE {}
           done == woken \cup (IF broken THEN {c} ELSE {})
<1>1. /\ state' = [Set(state, woken, "running") EXCEPT ![c] = st]
      /\ wait_pid' = Set(wait_pid, done, Kernel)
      /\ UNCHANGED <<gen, parent, init_owner>>
  BY Zenon DEF Report
<1>2. \A s \in woken : state[s] = "wait"
  BY Zenon DEF Publishes, Awaits
<1> HIDE DEF woken
<1>3. \A s \in Slots : state'[s] = IF s = c THEN st ELSE IF s \in woken THEN "running" ELSE state[s]
  BY <1>1 DEF Set, FamilyInv, FamilyTypes
<1>4. FamilyTypes'
  <2>1. state' \in [Slots -> States]
    BY <1>1 DEF FamilyInv, FamilyTypes, States, Set
  <2>2. wait_pid' \in [Slots -> Pids \cup {Kernel}]
    BY <1>1 DEF FamilyInv, FamilyTypes, Set
  <2> QED BY <1>1, <2>1, <2>2, Zenon DEF FamilyInv, FamilyTypes
<1>5. \A s \in Slots : (state'[s] \in Dead \/ state[s] \in Dead) => state'[s] = state[s]
  BY <1>2, <1>3 DEF Dead
<1>6. \A s \in Slots : state'[s] = "wait" => state[s] = "wait" /\ wait_pid'[s] = wait_pid[s]
  BY <1>1, <1>3 DEF Set, FamilyInv, FamilyTypes
<1> QED BY <1>1, <1>4, <1>5, <1>6, SameFamily, SameWaits DEF FamilyInv

\* The steps of one task that change nobody's life.
LEMMA QuietKeeps ==
    ASSUME FamilyInv, NEW s \in Slots,
           \/ ResumeSuspended(s)
           \/ \E disposition \in Dispositions : SigactionChld(s, disposition)
           \/ Interrupt(s)
    PROVE  FamilyInv'
<1>1. /\ UNCHANGED <<gen, parent, init_owner, wait_pid>>
      /\ state' = state \/ (state' = [state EXCEPT ![s] = "running"] /\ state[s] \notin Dead)
  BY Zenon DEF ResumeSuspended, SigactionChld, Interrupt, Breakable, wait, Dead
<1>2. FamilyTypes'
  BY <1>1 DEF FamilyInv, FamilyTypes, States
<1>3. \A t \in Slots : (state'[t] \in Dead \/ state[t] \in Dead) => state'[t] = state[t]
  BY <1>1 DEF FamilyInv, FamilyTypes, Dead
<1>4. \A t \in Slots : state'[t] = "wait" => state[t] = "wait" /\ wait_pid'[t] = wait_pid[t]
  BY <1>1 DEF FamilyInv, FamilyTypes
<1> QED BY <1>1, <1>2, <1>3, <1>4, SameFamily, SameWaits DEF FamilyInv

\* service_register: a running task becomes the owner.
LEMMA RegisterInitKeeps ==
    ASSUME FamilyInv, NEW s \in Slots, RegisterInit(s)
    PROVE  FamilyInv'
<1>1. UNCHANGED <<state, gen, parent, wait_pid>> /\ init_owner' = Pid(s) /\ state[s] = "running"
  BY DEF RegisterInit, wait
<1>2. FamilyTypes'
  BY <1>1, PidFacts DEF FamilyInv, FamilyTypes
<1>3. NoWaitSleepsOn'
  BY <1>1, <1>2, SameWaits
<1>4. ParentIsLive'
  BY <1>1, Zenon DEF FamilyInv, ParentIsLive, Live
<1>5. InitOwnerIsLive'
  <2>1. Live(Pid(s))
    BY <1>1, PidFacts DEF FamilyInv, Dead
  <2> QED BY <1>1, <2>1, Zenon DEF InitOwnerIsLive, Live
<1> QED BY <1>2, <1>3, <1>4, <1>5 DEF FamilyInv

\* A step that changes nothing.
LEMMA StutterKeeps ==
    ASSUME FamilyInv, UNCHANGED vars
    PROVE  FamilyInv'
<1>1. UNCHANGED <<state, gen, parent, wait_pid, init_owner>>
  BY DEF vars, wait
<1>2. FamilyTypes'
  BY <1>1 DEF FamilyInv, FamilyTypes
<1> QED BY <1>1, <1>2, SameFamily, SameWaits DEF FamilyInv

\* One step of Next.
LEMMA StepKeeps ==
    ASSUME FamilyInv, [Next]_vars
    PROVE  FamilyInv'
<1>1. ASSUME NEW s \in Slots, Fork(s) PROVE FamilyInv'
  BY <1>1, ForkKeeps
<1>2. ASSUME NEW s \in Slots \cup {Kernel}, NEW suspended, Spawn(s, suspended) PROVE FamilyInv'
  BY <1>2, SpawnKeeps
<1>3. ASSUME NEW s \in Slots, \/ ResumeSuspended(s)
                              \/ \E disposition \in Dispositions : SigactionChld(s, disposition)
                              \/ Interrupt(s)
      PROVE  FamilyInv'
  BY <1>3, QuietKeeps
<1>4. ASSUME NEW s \in Slots, RegisterInit(s) PROVE FamilyInv'
  BY <1>4, RegisterInitKeeps
<1>5. ASSUME NEW s \in Slots, Die(s) PROVE FamilyInv'
  BY <1>5, DieKeeps
<1>6. ASSUME NEW s \in Slots, NEW pid \in Pids \cup {Kernel}, Wait(s, pid) PROVE FamilyInv'
  <2>1. CASE WaitEmpty(s, pid)
    BY <2>1, StutterKeeps DEF WaitEmpty
  <2>2. ASSUME NEW options, WaitNohang(s, pid, options) PROVE FamilyInv'
    BY <2>2, StutterKeeps DEF WaitNohang
  <2>3. ASSUME NEW options, WaitFinds(s, pid, options) PROVE FamilyInv'
    BY <2>3, WaitFindsKeeps
  <2>4. ASSUME NEW posix, NEW options, WaitParks(s, pid, posix, options) PROVE FamilyInv'
    BY <2>4, WaitParksKeeps
  <2> QED BY <1>6, <2>1, <2>2, <2>3, <2>4 DEF Wait
<1>7. ASSUME NEW s \in Slots, Stop(s) PROVE FamilyInv'
  <2>1. state[s] \notin Dead /\ Report(s, "stopped", TRUE, continued_report[s], Breakable(s))
    BY <1>7, Zenon DEF Stop
  <2> QED BY <2>1, ReportKeeps, Zenon
<1>8. ASSUME NEW s \in Slots, Continue(s) PROVE FamilyInv'
  <2>1. state[s] \notin Dead /\ Report(s, "running", FALSE, TRUE, FALSE)
    BY <1>8, Zenon DEF Continue, Dead
  <2> QED BY <2>1, ReportKeeps, Zenon
<1>9. CASE Tick
  BY <1>9, TickKeeps
<1>10. CASE UNCHANGED vars
  BY <1>10, StutterKeeps
<1> QED BY <1>1, <1>2, <1>3, <1>4, <1>5, <1>6, <1>7, <1>8, <1>9, <1>10, Zenon DEF Next

-----------------------------------------------------------------------------
\* The types of what a task records about its own wait, its reports and its
\* signals.
RecordTypes ==
    /\ wait_posix \in [Slots -> BOOLEAN]
    /\ wait_options \in [Slots -> SUBSET Options]
    /\ stop_report \in [Slots -> BOOLEAN]
    /\ continued_report \in [Slots -> BOOLEAN]
    /\ chld \in [Slots -> {"default", "ignore", "catch"}]
    /\ held \subseteq Slots

\* Setting a field in some slots to a value of its type keeps its type.
LEMMA SetKeepsType ==
    ASSUME NEW V, NEW f \in [Slots -> V], NEW S, NEW v \in V
    PROVE  Set(f, S, v) \in [Slots -> V]
  BY DEF Set

\* terminate64 clears the records of the tasks it frees, ends or wakes.
LEMMA DieRecords ==
    ASSUME RecordTypes, NEW d \in Slots, Die(d)
    PROVE  RecordTypes'
<1>1. PICK W, B, C, F :
          /\ wait_posix' = Set(wait_posix, W, FALSE)
          /\ wait_options' = Set(wait_options, B, {})
          /\ stop_report' = Set(stop_report, C, FALSE)
          /\ continued_report' = Set(continued_report, C, FALSE)
          /\ chld' = Set(chld, F, "default")
          /\ held' = held \ F
  BY Zenon DEF Die
<1>2. wait_posix' \in [Slots -> BOOLEAN] /\ wait_options' \in [Slots -> SUBSET Options]
  BY <1>1, SetKeepsType, Zenon DEF RecordTypes
<1>3. stop_report' \in [Slots -> BOOLEAN] /\ continued_report' \in [Slots -> BOOLEAN]
  BY <1>1, SetKeepsType, Zenon DEF RecordTypes
<1>4. chld' \in [Slots -> {"default", "ignore", "catch"}] /\ held' \subseteq Slots
  BY <1>1, SetKeepsType, Zenon DEF RecordTypes
<1> QED BY <1>2, <1>3, <1>4 DEF RecordTypes

\* So does the freeing of zombies.
LEMMA FreedRecords ==
    ASSUME RecordTypes, NEW F, FreeSlots(F), UNCHANGED <<wait, report>>
    PROVE  RecordTypes'
  BY SetKeepsType, "default" \in {"default", "ignore", "catch"}, Zenon DEF FreeSlots, RecordTypes, wait, report

\* A stop or continue report.
LEMMA ReportRecords ==
    ASSUME RecordTypes, NEW c \in Slots, NEW st, NEW stopped \in BOOLEAN, NEW continued \in BOOLEAN,
           NEW broken, Report(c, st, stopped, continued, broken)
    PROVE  RecordTypes'
<1>1. PICK D, told :
          /\ wait_posix' = Set(wait_posix, D, FALSE)
          /\ wait_options' = Set(wait_options, D, {})
          /\ stop_report' = [stop_report EXCEPT ![c] = stopped /\ ~told]
          /\ continued_report' = [continued_report EXCEPT ![c] = continued /\ ~told]
          /\ UNCHANGED <<chld, held>>
  BY Zenon DEF Report
<1>2. wait_posix' \in [Slots -> BOOLEAN] /\ wait_options' \in [Slots -> SUBSET Options]
  BY <1>1, SetKeepsType, Zenon DEF RecordTypes
<1>3. stop_report' \in [Slots -> BOOLEAN] /\ continued_report' \in [Slots -> BOOLEAN]
  <2>1. PICK v \in BOOLEAN, w \in BOOLEAN :
            /\ stop_report' = [stop_report EXCEPT ![c] = v]
            /\ continued_report' = [continued_report EXCEPT ![c] = w]
    BY <1>1, Zenon
  <2> QED BY <2>1 DEF RecordTypes
<1> QED BY <1>1, <1>2, <1>3, Zenon DEF RecordTypes

\* A wait that finds news, parks, or does neither.
LEMMA WaitRecords ==
    ASSUME RecordTypes, NEW p \in Slots, NEW pid, Wait(p, pid)
    PROVE  RecordTypes'
<1>1. ASSUME UNCHANGED vars PROVE RecordTypes'
  BY <1>1 DEF RecordTypes, vars, wait, report
<1>2. ASSUME NEW options, WaitFinds(p, pid, options) PROVE RecordTypes'
  <2>1. \E c : \/ FreeSlots({c}) /\ UNCHANGED <<wait, report>>
               \/ /\ stop_report' = [stop_report EXCEPT ![c] = FALSE]
                  /\ continued_report' = [continued_report EXCEPT ![c] = FALSE]
                  /\ UNCHANGED <<wait, chld, held>>
    BY <1>2, Zenon DEF WaitFinds
  <2>2. PICK c : \/ FreeSlots({c}) /\ UNCHANGED <<wait, report>>
                 \/ /\ stop_report' = [stop_report EXCEPT ![c] = FALSE]
                    /\ continued_report' = [continued_report EXCEPT ![c] = FALSE]
                    /\ UNCHANGED <<wait, chld, held>>
    BY <2>1, Zenon
  <2>3. CASE FreeSlots({c}) /\ UNCHANGED <<wait, report>>
    BY <2>3, FreedRecords
  <2>4. CASE /\ stop_report' = [stop_report EXCEPT ![c] = FALSE]
             /\ continued_report' = [continued_report EXCEPT ![c] = FALSE]
             /\ UNCHANGED <<wait, chld, held>>
    BY <2>4, Zenon DEF RecordTypes, wait
  <2> QED BY <2>2, <2>3, <2>4
<1>3. ASSUME NEW posix \in BOOLEAN, NEW options \in SUBSET Options, WaitParks(p, pid, posix, options)
      PROVE  RecordTypes'
  BY <1>3 DEF WaitParks, RecordTypes, report
<1> QED BY <1>1, <1>2, <1>3, Zenon DEF Wait, WaitEmpty, WaitNohang

\* A new task takes its parent's disposition, or starts suspended.
LEMMA NewTaskRecords ==
    ASSUME RecordTypes, NEW p,
           (p \in Slots /\ Fork(p)) \/ \E suspended : Spawn(p, suspended)
    PROVE  RecordTypes'
<1>1. CanAlloc
  BY DEF Fork, Spawn
<1>2. FirstFree \in Slots
  BY <1>1, FirstFreeIsFree
<1>3. CASE p \in Slots /\ Fork(p)
  BY <1>2, <1>3 DEF Fork, RecordTypes, wait
<1>4. ASSUME NEW suspended, Spawn(p, suspended) PROVE RecordTypes'
  BY <1>2, <1>4 DEF Spawn, RecordTypes, wait, report
<1> QED BY <1>3, <1>4

\* The other steps of one task.
LEMMA QuietRecords ==
    ASSUME RecordTypes, NEW s \in Slots,
           \/ ResumeSuspended(s) \/ RegisterInit(s) \/ Interrupt(s)
           \/ \E disposition \in Dispositions : SigactionChld(s, disposition)
    PROVE  RecordTypes'
<1>1. CASE ResumeSuspended(s) \/ RegisterInit(s)
  BY <1>1 DEF ResumeSuspended, RegisterInit, RecordTypes, wait, report
<1>2. CASE Interrupt(s)
  BY <1>2 DEF Interrupt, RecordTypes, report
<1>3. ASSUME NEW disposition \in Dispositions, SigactionChld(s, disposition) PROVE RecordTypes'
  <2>1. disposition \in {"default", "ignore", "catch"}
    BY ProcessAssumption
  <2> QED BY <1>3, <2>1 DEF SigactionChld, RecordTypes, wait, report
<1> QED BY <1>1, <1>2, <1>3

\* One step of Next.
LEMMA RecordsKeep ==
    ASSUME RecordTypes, [Next]_vars
    PROVE  RecordTypes'
<1>1. CASE UNCHANGED vars
  BY <1>1 DEF RecordTypes, vars, wait, report
<1>2. CASE Tick
  BY <1>2, FreedRecords DEF Tick
<1>3. CASE Spawn(Kernel, FALSE)
  BY <1>3, NewTaskRecords, Zenon
<1>4. ASSUME NEW s \in Slots, Stop(s) \/ Continue(s) PROVE RecordTypes'
  <2>1. continued_report[s] \in BOOLEAN
    BY DEF RecordTypes
  <2>2. \/ Report(s, "stopped", TRUE, continued_report[s], Breakable(s))
        \/ Report(s, "running", FALSE, TRUE, FALSE)
    BY <1>4, Zenon DEF Stop, Continue
  <2> QED BY <2>1, <2>2, ReportRecords, Zenon
<1>5. ASSUME NEW s \in Slots, NEW pid, Wait(s, pid) PROVE RecordTypes'
  BY <1>5, WaitRecords
<1>6. ASSUME NEW s \in Slots, Die(s) PROVE RecordTypes'
  BY <1>6, DieRecords
<1>7. ASSUME NEW s \in Slots, Fork(s) \/ \E suspended : Spawn(s, suspended) PROVE RecordTypes'
  BY <1>7, NewTaskRecords
<1>8. ASSUME NEW s \in Slots,
             \/ ResumeSuspended(s) \/ RegisterInit(s) \/ Interrupt(s)
             \/ \E disposition \in Dispositions : SigactionChld(s, disposition)
      PROVE  RecordTypes'
  BY <1>8, QuietRecords
<1> QED BY <1>1, <1>2, <1>3, <1>4, <1>5, <1>6, <1>7, <1>8, Zenon DEF Next

-----------------------------------------------------------------------------
\* The invariant holds of every behaviour, for any number of slots and any
\* generation limit.
THEOREM FamilyInvariant == Spec => [](FamilyInv /\ RecordTypes)
<1>1. Init => RecordTypes
  BY DEF Init, RecordTypes
<1>2. (FamilyInv /\ RecordTypes) /\ [Next]_vars => (FamilyInv /\ RecordTypes)'
  BY StepKeeps, RecordsKeep
<1> QED BY InitFamily, <1>1, <1>2, PTL DEF Spec

\* reparent_children, service_release_owner and task_free_slot: no task is
\* ever left with a parent that is gone, a dead init is never asked to adopt,
\* and generations stay in their range.
THEOREM FamilyStaysLive == Spec => []FamilyIsLive
<1>1. FamilyInv /\ RecordTypes => FamilyIsLive
  BY DEF FamilyInv, FamilyTypes, RecordTypes, FamilyIsLive, TypeOK
<1> QED BY FamilyInvariant, <1>1, PTL

\* wake_waiting_parent: no parked wait sleeps beside a zombie it would take,
\* whichever of exit, adoption, park and signal comes first.
THEOREM NoExitIsMissed == Spec => []NoWaitSleepsOn
<1>1. FamilyInv => NoWaitSleepsOn
  BY DEF FamilyInv
<1> QED BY FamilyInvariant, <1>1, PTL
=============================================================================
