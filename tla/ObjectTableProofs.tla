------------------------- MODULE ObjectTableProofs -------------------------
(***************************************************************************)
(* For every number of CPUs, tasks, kernel variables and table sizes: the  *)
(* tables keep their types; the reference count of an object is exactly    *)
(* the number of places holding a counted pointer to it, so no slot is     *)
(* recycled under a pointer and every destroy callback runs once, on one   *)
(* CPU; and so a handle means what it meant when it was given out.         *)
(***************************************************************************)
EXTENDS ObjectTable, FiniteSetTheorems, TLAPS

USE ConstantsAssumption

\* Closing a slot, by whichever of the three functions, keeps its type.
LEMMA ClearSlotType ==
    ASSUME TypeOK, NEW c \in CPUs, NEW t \in Tasks, NEW i \in Index,
           ClearSlot(c, t, i)
    PROVE  /\ handle' \in [Slots -> Objects \cup {None}]
           /\ rights' \in [Slots -> SUBSET Rights]
           /\ generation' \in [Slots -> 1..GenMax]
           /\ pend' \in [CPUs -> Objects \cup {None}]
           /\ stale' \in {None} \cup [task : Tasks, index : Index,
                                      generation : 1..GenMax,
                                      closes : 1..GenMax]
  <1> DEFINE g == generation[<<t, i>>]
  <1>1. g \in 1..GenMax /\ <<t, i>> \in Slots
    BY DEF TypeOK, Slots
  <1>2. NextGeneration(g) \in 1..GenMax
    BY <1>1 DEF NextGeneration
  <1>3. /\ handle' \in [Slots -> Objects \cup {None}]
        /\ rights' \in [Slots -> SUBSET Rights]
        /\ generation' \in [Slots -> 1..GenMax]
        /\ pend' \in [CPUs -> Objects \cup {None}]
    BY <1>1, <1>2 DEF objects, handles, ClearSlot, TypeOK
  <1>4. stale' \in {None} \cup [task : Tasks, index : Index,
                                generation : 1..GenMax, closes : 1..GenMax]
    BY <1>1 DEF objects, handles, ClearSlot, TypeOK
  <1> QED BY <1>3, <1>4

\* The states of handle_close_all keep their type as the loop advances.
LEMMA ClosingType ==
    ASSUME TypeOK, NEW c \in CPUs, op[c].fn = "close_all"
    PROVE  /\ op[c].task \in Tasks
           /\ op[c].index \in 0..KHANDLE_MAX
           /\ op[c].value # 0 => op[c].index \in Index
  <1>1. op[c] \in {Idle}
                \cup [fn : {"revoke"}, object : Objects, keep : Places,
                      target : Nat]
                \cup ClosingStates
    BY DEF TypeOK
  <1>2. op[c] # Idle
    BY DEF Idle
  <1>3. op[c] \in ClosingStates
    BY <1>1, <1>2
  <1>4. CASE op[c] \in [fn : {"close_all"}, task : Tasks,
                       index : 0..KHANDLE_MAX, value : {0}]
    BY <1>4
  <1>5. CASE op[c] \in [fn : {"close_all"}, task : Tasks, index : Index,
                       value : 1..GenMax]
    BY <1>5 DEF Index
  <1> QED BY <1>3, <1>4, <1>5 DEF ClosingStates

\* object_init leaves every variable in its type.
LEMMA InitType == Init => TypeOK
  BY DEF Init, TypeOK, Idle

\* Every operation keeps every variable in its type: generations stay within
\* 1..GenMax, and no count leaves 0..RefMax.
LEMMA NextType == TypeOK /\ [Next]_vars => TypeOK'
  <1> SUFFICES ASSUME TypeOK, [Next]_vars PROVE TypeOK'
    OBVIOUS
  <1>1. ASSUME NEW c \in CPUs, NEW p \in Places, ObjectCreate(c, p)
        PROVE  TypeOK'
    <2>1. PICK o \in Objects, q \in Places :
             /\ active' = [active EXCEPT ![o] = TRUE]
             /\ references' = [references EXCEPT ![o] = 1]
             /\ destroy' = [destroy EXCEPT ![o] = TRUE]
             /\ place' = [place EXCEPT ![q] = None, ![p] = o]
             /\ inner' = [inner EXCEPT ![o] = place[q]]
             /\ created' = created + 1
             /\ born' = [born EXCEPT ![o] = created + 1]
             /\ granted' = [granted EXCEPT ![o] = {}]
      BY Zenon, <1>1 DEF ObjectCreate
    <2>2. /\ references' \in [Objects -> 0..RefMax]
          /\ active' \in [Objects -> BOOLEAN]
          /\ destroy' \in [Objects -> BOOLEAN]
      BY <2>1 DEF TypeOK
    <2>3. /\ place' \in [Places -> Objects \cup {None}]
          /\ inner' \in [Objects -> Objects \cup {None}]
      BY Zenon, <2>1 DEF TypeOK
    <2>4. /\ created' \in Nat
          /\ born' \in [Objects -> Nat]
          /\ granted' \in [Objects -> SUBSET Rights]
      BY <2>1 DEF TypeOK
    <2> QED BY Zenon, <1>1, <2>2, <2>3, <2>4 DEF ObjectCreate, handles, TypeOK
  <1>2. ASSUME NEW c \in CPUs, NEW p \in Places, ObjectReleaseCall(c, p)
        PROVE  TypeOK'
    BY <1>2 DEF ObjectReleaseCall, objects, handles, TypeOK
  <1>3. ASSUME NEW c \in CPUs, NEW p \in Places, HandleRevoke(c, p)
        PROVE  TypeOK'
    BY <1>3 DEF objects, handles, HandleRevoke, Revoking, TypeOK
  <1>4. ASSUME NEW c \in CPUs, NEW p \in Places, NEW q \in Places,
               ObjectRetain(c, p, q)
        PROVE  TypeOK'
    BY <1>4 DEF objects, handles, ObjectRetain, Retained, CanRetain, TypeOK
  <1>5. ASSUME NEW c \in CPUs, NEW t \in Tasks, NEW p \in Places,
               NEW r \in SUBSET Rights, HandleOpen(c, t, p, r)
        PROVE  TypeOK'
    <2>1. place[p] \in Objects /\ references[place[p]] + 1 \in 0..RefMax
      BY <1>5 DEF HandleOpen, CanRetain, TypeOK
    <2>2. PICK i \in Index :
             /\ handle' = [handle EXCEPT ![<<t, i>>] = place[p]]
             /\ rights' = [rights EXCEPT ![<<t, i>>] = r]
      BY Zenon, <1>5 DEF HandleOpen
    <2>3. <<t, i>> \in Slots
      BY DEF Slots
    <2> QED BY Zenon, <1>5, <2>1, <2>2, <2>3 DEF HandleOpen, Retained, TypeOK
  <1>6. ASSUME NEW c \in CPUs, NEW s \in Tasks, NEW t \in Tasks,
               NEW i \in Index, NEW r \in SUBSET Rights,
               HandleDuplicate(c, s, i, t, r)
        PROVE  TypeOK'
    <2> DEFINE o == handle[<<s, i>>]
    <2>1. <<s, i>> \in Slots
      BY DEF Slots
    <2>2. o \in Objects /\ references[o] + 1 \in 0..RefMax
      BY <1>6, <2>1 DEF HandleDuplicate, CanRetain, TypeOK
    <2>3. PICK j \in Index :
             /\ handle' = [handle EXCEPT ![<<t, j>>] = o]
             /\ rights' = [rights EXCEPT ![<<t, j>>] = r]
      BY Zenon, <1>6 DEF HandleDuplicate
    <2>4. <<t, j>> \in Slots
      BY DEF Slots
    <2> QED BY Zenon, <1>6, <2>2, <2>3, <2>4 DEF HandleDuplicate, Retained, TypeOK
  <1>7. ASSUME NEW c \in CPUs, NEW t \in Tasks, NEW i \in Index,
               HandleClose(c, t, i)
        PROVE  TypeOK'
    BY <1>7, ClearSlotType DEF objects, handles, HandleClose, TypeOK
  <1>8. ASSUME NEW c \in CPUs, NEW t \in Tasks, TaskExit(c, t)
        PROVE  TypeOK'
    BY <1>8 DEF objects, handles, ClosingStates, TaskExit, Closing, TypeOK
  <1>9. ASSUME NEW c \in CPUs, NEW t \in Tasks, TaskCreate(c, t)
        PROVE  TypeOK'
    BY <1>9 DEF objects, handles, TaskCreate, TypeOK
  <1>10. ASSUME NEW c \in CPUs, ObjectRelease(c)
         PROVE  TypeOK'
    <2> DEFINE o == pend[c]
    <2>1. o \in Objects /\ pend' \in [CPUs -> Objects \cup {None}]
      BY <1>10 DEF ObjectRelease, TypeOK
    <2>2. CASE UNCHANGED <<references, destroy, stack>>
      BY <1>10, <2>1, <2>2 DEF ObjectRelease, handles, TypeOK
    <2>3. CASE /\ references[o] # 0
               /\ references' = [references EXCEPT ![o] = references[o] - 1]
               /\ UNCHANGED <<destroy, stack>>
      <3>1. references' \in [Objects -> 0..RefMax]
        BY <2>1, <2>3 DEF TypeOK
      <3> QED BY <1>10, <2>1, <2>3, <3>1 DEF ObjectRelease, handles, TypeOK
    <2>4. CASE /\ references' = [references EXCEPT ![o] = 0]
               /\ destroy' = [destroy EXCEPT ![o] = FALSE]
               /\ stack' = [stack EXCEPT ![c] = <<o>> \o stack[c]]
      <3>1. references' \in [Objects -> 0..RefMax]
        BY <2>1, <2>4 DEF TypeOK
      <3>2. stack' \in [CPUs -> Seq(Objects)]
        BY <2>1, <2>4 DEF TypeOK
      <3> QED BY <1>10, <2>1, <2>4, <3>1, <3>2 DEF ObjectRelease, handles, TypeOK
    <2> QED BY <1>10, <2>2, <2>3, <2>4 DEF ObjectRelease
  <1>11. ASSUME NEW c \in CPUs, Destroy(c)
         PROVE  TypeOK'
    BY <1>11 DEF objects, handles, Destroy, TypeOK
  <1>12. ASSUME NEW c \in CPUs, ObjectReleaseFinish(c)
         PROVE  TypeOK'
    BY <1>12 DEF objects, handles, ObjectReleaseFinish, TypeOK
  <1>13. ASSUME NEW c \in CPUs, HandleRevokePass(c)
         PROVE  TypeOK'
    BY Zenon, <1>13, ClearSlotType DEF objects, handles, HandleRevokePass, TypeOK
  <1>14. ASSUME NEW c \in CPUs, HandleCloseAllRead(c)
         PROVE  TypeOK'
    <2> DEFINE t == op[c].task
               i == op[c].index + 1
               v == IF handle[<<t, i>>] = None THEN 0 ELSE generation[<<t, i>>]
    <2>1. t \in Tasks
      BY <1>14, ClosingType DEF HandleCloseAllRead
    <2>2. CASE i \in Index
      <3>1. <<t, i>> \in Slots
        BY <2>1, <2>2 DEF Slots
      <3>2. v \in 0..GenMax
        BY <3>1 DEF TypeOK
      <3>3. op' = [op EXCEPT ![c] = Closing(t, i, v)] /\ UNCHANGED alive
        BY <1>14, <2>2 DEF HandleCloseAllRead
      <3>4. Closing(t, i, v) \in ClosingStates
        <4>1. CASE v = 0
          BY <2>1, <2>2, <4>1 DEF Closing, ClosingStates, Index
        <4>2. CASE v # 0
          BY <2>1, <2>2, <3>2, <4>2 DEF Closing, ClosingStates
        <4> QED BY <4>1, <4>2
      <3> QED BY <1>14, <3>3, <3>4 DEF HandleCloseAllRead, handles, objects, TypeOK
    <2>3. CASE i \notin Index
      BY Zenon, <1>14, <2>1, <2>3 DEF HandleCloseAllRead, handles, objects, TypeOK
    <2> QED BY <2>2, <2>3
  <1>15. ASSUME NEW c \in CPUs, HandleCloseAllClose(c)
         PROVE  TypeOK'
    <2> DEFINE t == op[c].task
               i == op[c].index
    <2>1. t \in Tasks /\ i \in Index
      BY <1>15, ClosingType DEF HandleCloseAllClose
    <2>2. Closing(t, i, 0) \in ClosingStates
      BY <2>1 DEF Closing, ClosingStates, Index
    <2>3. CASE ClearSlot(c, t, i)
      BY <1>15, <2>1, <2>2, <2>3, ClearSlotType
         DEF HandleCloseAllClose, objects, TypeOK
    <2>4. CASE UNCHANGED <<handles, pend, stale>>
      BY <1>15, <2>2, <2>4 DEF HandleCloseAllClose, handles, objects, TypeOK
    <2> QED BY <1>15, <2>3, <2>4 DEF HandleCloseAllClose
  <1>16. CASE UNCHANGED vars
    BY <1>16 DEF vars, objects, handles, TypeOK
  <1> QED
    BY <1>1, <1>2, <1>3, <1>4, <1>5, <1>6, <1>7, <1>8, <1>9, <1>10, <1>11,
       <1>12, <1>13, <1>14, <1>15, <1>16 DEF objects, handles, Next, Continue, ReleaseStep

\* Whatever the CPUs interleave, the object table and the handle tables of
\* object.c keep their types: generations never become 0 and counts never pass
\* the saturation that object_retain_locked guards.
THEOREM TypeCorrect == Spec => []TypeOK
  BY InitType, NextType, PTL DEF Spec

----------------------------------------------------------------------------
(***************************************************************************)
(* Counting the holders of an object.  The four kinds of place are the     *)
(* arguments, so that a step that moves a pointer from one place to        *)
(* another is two changes counted one after the other.                     *)
(***************************************************************************)
PointeeOf(h, pl, inn, re, k) ==
    CASE k[1] = "handle" -> h[k[2]]
      [] k[1] = "place" -> pl[k[2]]
      [] k[1] = "inner" -> inn[k[2]]
      [] k[1] = "release" -> re[k[2]]

HoldersOf(h, pl, inn, re, o) ==
    {k \in Tokens : PointeeOf(h, pl, inn, re, k) = o}

Refs(h, pl, inn, re, o) == Cardinality(HoldersOf(h, pl, inn, re, o))

\* What the member a adds to the size of a set.
Has(S, a) == IF a \in S THEN 1 ELSE 0

\* What a place that points to x adds to the count of o.
One(x, o) == IF x = o THEN 1 ELSE 0

\* From f to g only the place k of D is written, from a to b.
Moves(D, f, g, k, a, b) ==
    /\ k \in D
    /\ f[k] = a /\ g[k] = b
    /\ \A x \in D : x # k => g[x] = f[x]

\* There are finitely many places that can hold a counted pointer.
LEMMA TokensFinite == IsFiniteSet(Tokens)
  <1>1. IsFiniteSet(Objects) /\ IsFiniteSet(Index)
    BY FS_Interval DEF Objects, Index
  <1>2. IsFiniteSet(Slots)
    BY <1>1, FS_Product DEF Slots
  <1>3. \A x : IsFiniteSet({x})
    BY FS_Singleton
  <1>4. /\ IsFiniteSet({"handle"} \X Slots)
        /\ IsFiniteSet({"place"} \X Places)
        /\ IsFiniteSet({"inner"} \X Objects)
        /\ IsFiniteSet({"release"} \X CPUs)
    BY <1>1, <1>2, <1>3, FS_Product, Zenon
  <1>5. IsFiniteSet(({"handle"} \X Slots) \cup ({"place"} \X Places))
    BY Zenon, <1>4, FS_Union
  <1>6. IsFiniteSet(({"handle"} \X Slots) \cup ({"place"} \X Places)
                    \cup ({"inner"} \X Objects))
    BY <1>4, <1>5, FS_Union, Zenon
  <1> QED BY Zenon, <1>4, <1>6, FS_Union DEF Tokens

\* Changing one place changes the number of holders by what left and came.
LEMMA CountChange ==
    ASSUME NEW S \in SUBSET Tokens, NEW R \in SUBSET Tokens, NEW a \in Tokens,
           \A k \in Tokens : k # a => (k \in R <=> k \in S)
    PROVE  /\ Cardinality(S) \in Nat /\ Cardinality(R) \in Nat
           /\ Cardinality(R) = Cardinality(S) - Has(S, a) + Has(R, a)
  <1>1. IsFiniteSet(S) /\ IsFiniteSet(R)
    BY TokensFinite, FS_Subset
  <1>2. Cardinality(S) \in Nat /\ Cardinality(R) \in Nat
    BY <1>1, FS_CardinalityType
  <1>3. CASE a \in S /\ a \in R
    <2>1. S = R
      BY <1>3
    <2> QED BY <1>2, <1>3, <2>1 DEF Has
  <1>4. CASE a \in S /\ a \notin R
    <2>1. R = S \ {a}
      BY <1>4
    <2>2. Cardinality(R) = Cardinality(S) - 1
      BY <1>1, <1>4, <2>1, FS_RemoveElement
    <2> QED BY <1>2, <1>4, <2>2 DEF Has
  <1>5. CASE a \notin S /\ a \in R
    <2>1. R = S \cup {a}
      BY <1>5
    <2>2. Cardinality(R) = Cardinality(S) + 1
      BY <1>1, <1>5, <2>1, FS_AddElement
    <2> QED BY <1>2, <1>5, <2>2 DEF Has
  <1>6. CASE a \notin S /\ a \notin R
    <2>1. S = R
      BY <1>6
    <2> QED BY <1>2, <1>6, <2>1 DEF Has
  <1> QED BY <1>3, <1>4, <1>5, <1>6

\* The number of holders of an object is a natural number.
LEMMA RefsType ==
    ASSUME NEW h, NEW pl, NEW inn, NEW re, NEW o
    PROVE  Refs(h, pl, inn, re, o) \in Nat
  <1>1. IsFiniteSet(HoldersOf(h, pl, inn, re, o))
    BY TokensFinite, FS_Subset DEF HoldersOf
  <1> QED BY <1>1, FS_CardinalityType DEF Refs

\* Writing one handle slot moves the holder count by what left and came.
LEMMA RefsHandle ==
    ASSUME NEW h, NEW g, NEW pl, NEW inn, NEW re, NEW o,
           NEW s, NEW a, NEW b, Moves(Slots, h, g, s, a, b)
    PROVE  Refs(g, pl, inn, re, o) =
             Refs(h, pl, inn, re, o) - One(a, o) + One(b, o)
  <1> DEFINE S == HoldersOf(h, pl, inn, re, o)
             R == HoldersOf(g, pl, inn, re, o)
             k0 == <<"handle", s>>
  <1>1. k0 \in Tokens
    BY DEF Tokens, Moves
  <1>2. (k0 \in S <=> a = o) /\ (k0 \in R <=> b = o)
    BY <1>1 DEF HoldersOf, PointeeOf, Moves
  <1>3. \A k \in Tokens : k # k0 => (k \in R <=> k \in S)
    BY DEF Tokens, HoldersOf, PointeeOf, Moves
  <1>4. S \in SUBSET Tokens /\ R \in SUBSET Tokens
    BY DEF HoldersOf
  <1>5. Cardinality(R) = Cardinality(S) - Has(S, k0) + Has(R, k0)
    BY <1>1, <1>3, <1>4, CountChange
  <1> QED BY <1>2, <1>5 DEF Refs, One, Has

\* Likewise for a kernel variable,
LEMMA RefsPlace ==
    ASSUME NEW h, NEW pl, NEW g, NEW inn, NEW re, NEW o,
           NEW p, NEW a, NEW b, Moves(Places, pl, g, p, a, b)
    PROVE  Refs(h, g, inn, re, o) =
             Refs(h, pl, inn, re, o) - One(a, o) + One(b, o)
  <1> DEFINE S == HoldersOf(h, pl, inn, re, o)
             R == HoldersOf(h, g, inn, re, o)
             k0 == <<"place", p>>
  <1>1. k0 \in Tokens
    BY DEF Tokens, Moves
  <1>2. (k0 \in S <=> a = o) /\ (k0 \in R <=> b = o)
    BY <1>1 DEF HoldersOf, PointeeOf, Moves
  <1>3. \A k \in Tokens : k # k0 => (k \in R <=> k \in S)
    BY DEF Tokens, HoldersOf, PointeeOf, Moves
  <1>4. S \in SUBSET Tokens /\ R \in SUBSET Tokens
    BY DEF HoldersOf
  <1>5. Cardinality(R) = Cardinality(S) - Has(S, k0) + Has(R, k0)
    BY <1>1, <1>3, <1>4, CountChange
  <1> QED BY <1>2, <1>5 DEF Refs, One, Has

\* for the payload of an object,
LEMMA RefsInner ==
    ASSUME NEW h, NEW pl, NEW inn, NEW g, NEW re, NEW o,
           NEW y, NEW a, NEW b, Moves(Objects, inn, g, y, a, b)
    PROVE  Refs(h, pl, g, re, o) =
             Refs(h, pl, inn, re, o) - One(a, o) + One(b, o)
  <1> DEFINE S == HoldersOf(h, pl, inn, re, o)
             R == HoldersOf(h, pl, g, re, o)
             k0 == <<"inner", y>>
  <1>1. k0 \in Tokens
    BY DEF Tokens, Moves
  <1>2. (k0 \in S <=> a = o) /\ (k0 \in R <=> b = o)
    BY <1>1 DEF HoldersOf, PointeeOf, Moves
  <1>3. \A k \in Tokens : k # k0 => (k \in R <=> k \in S)
    BY DEF Tokens, HoldersOf, PointeeOf, Moves
  <1>4. S \in SUBSET Tokens /\ R \in SUBSET Tokens
    BY DEF HoldersOf
  <1>5. Cardinality(R) = Cardinality(S) - Has(S, k0) + Has(R, k0)
    BY <1>1, <1>3, <1>4, CountChange
  <1> QED BY <1>2, <1>5 DEF Refs, One, Has

\* and for the argument of an object_release.
LEMMA RefsRelease ==
    ASSUME NEW h, NEW pl, NEW inn, NEW re, NEW g, NEW o,
           NEW c, NEW a, NEW b, Moves(CPUs, re, g, c, a, b)
    PROVE  Refs(h, pl, inn, g, o) =
             Refs(h, pl, inn, re, o) - One(a, o) + One(b, o)
  <1> DEFINE S == HoldersOf(h, pl, inn, re, o)
             R == HoldersOf(h, pl, inn, g, o)
             k0 == <<"release", c>>
  <1>1. k0 \in Tokens
    BY DEF Tokens, Moves
  <1>2. (k0 \in S <=> a = o) /\ (k0 \in R <=> b = o)
    BY <1>1 DEF HoldersOf, PointeeOf, Moves
  <1>3. \A k \in Tokens : k # k0 => (k \in R <=> k \in S)
    BY DEF Tokens, HoldersOf, PointeeOf, Moves
  <1>4. S \in SUBSET Tokens /\ R \in SUBSET Tokens
    BY DEF HoldersOf
  <1>5. Cardinality(R) = Cardinality(S) - Has(S, k0) + Has(R, k0)
    BY <1>1, <1>3, <1>4, CountChange
  <1> QED BY <1>2, <1>5 DEF Refs, One, Has

----------------------------------------------------------------------------
(***************************************************************************)
(* The inductive invariant.  The count alone is not inductive: a finished  *)
(* release must not clear a slot that still counts references (ActiveOK,   *)
(* StackOK), and object_create must not overwrite a payload pointer        *)
(* (PayloadOK).                                                            *)
(***************************************************************************)
RefsOK == \A o \in Objects :
             references[o] = Refs(handle, place, inner, pend, o)

ActiveOK == \A o \in Objects : references[o] # 0 => active[o]

PayloadOK == \A o \in Objects : inner[o] # None => active[o]

StackOK ==
    \A c \in CPUs : \A i \in 1..Len(stack[c]) :
        /\ active[stack[c][i]] /\ references[stack[c][i]] = 0
        /\ ~destroy[stack[c][i]]
        /\ \A d \in CPUs : \A j \in 1..Len(stack[d]) :
              stack[d][j] = stack[c][i] => d = c /\ j = i

DyingOK ==
    \A o \in Objects : active[o] /\ references[o] = 0 =>
        \E c \in CPUs : \E i \in 1..Len(stack[c]) : stack[c][i] = o

IInv == TypeOK /\ RefsOK /\ ActiveOK /\ PayloadOK /\ StackOK /\ DyingOK

\* The types of the variables IInv is about.
TableTypes ==
    /\ active \in [Objects -> BOOLEAN]
    /\ references \in [Objects -> 0..RefMax]
    /\ destroy \in [Objects -> BOOLEAN]
    /\ handle \in [Slots -> Objects \cup {None}]
    /\ place \in [Places -> Objects \cup {None}]
    /\ inner \in [Objects -> Objects \cup {None}]
    /\ pend \in [CPUs -> Objects \cup {None}]
    /\ stack \in [CPUs -> Seq(Objects)]

\* They are part of the type invariant, before a step and after it.
LEMMA TableTyped == (TypeOK => TableTypes) /\ (TypeOK' => TableTypes')
  <1>1. TypeOK => TableTypes
    BY Zenon DEF TypeOK, TableTypes
  <1>2. TypeOK' => TableTypes'
    BY Zenon DEF TypeOK, TableTypes
  <1> QED BY <1>1, <1>2

\* What a place points to is counted, hence active.
LEMMA HeldIsLive ==
    ASSUME IInv, NEW o \in Objects, NEW k \in Tokens,
           PointeeOf(handle, place, inner, pend, k) = o
    PROVE  references[o] \in Nat \ {0} /\ active[o]
  <1> DEFINE H == HoldersOf(handle, place, inner, pend, o)
  <1>1. k \in H
    BY DEF HoldersOf
  <1>2. IsFiniteSet(H)
    BY TokensFinite, FS_Subset DEF HoldersOf
  <1>3. Cardinality(H) \in Nat /\ Cardinality(H) # 0
    BY <1>1, <1>2, FS_CardinalityType, FS_EmptySet
  <1>4. references[o] = Cardinality(H)
    BY DEF IInv, RefsOK, Refs
  <1> QED BY <1>3, <1>4 DEF IInv, ActiveOK

\* An object on a CPU's stack of callbacks is a member of the table.
LEMMA StackElement ==
    ASSUME TypeOK, NEW c \in CPUs, NEW i \in 1..Len(stack[c])
    PROVE  stack[c][i] \in Objects
  <1>1. stack[c] \in Seq(Objects)
    BY DEF TypeOK
  <1> QED BY <1>1

\* object_init establishes the inductive invariant.
LEMMA InitInv == Init => IInv
  <1> SUFFICES ASSUME Init PROVE IInv
    OBVIOUS
  <1>1. TypeOK
    BY InitType
  <1>2. ASSUME NEW o \in Objects
        PROVE  references[o] = Refs(handle, place, inner, pend, o)
    <2>1. o # None
      BY <1>2
    <2>2. HoldersOf(handle, place, inner, pend, o) = {}
      BY <2>1 DEF HoldersOf, PointeeOf, Tokens, Init
    <2> QED BY <2>2, FS_EmptySet, Zenon DEF Refs, Init
  <1>3. ActiveOK /\ PayloadOK /\ StackOK /\ DyingOK
    BY DEF Init, ActiveOK, PayloadOK, StackOK, DyingOK
  <1> QED BY <1>1, <1>2, <1>3 DEF IInv, RefsOK

\* A step that leaves the four kinds of place and the table alone.
LEMMA QuietInv ==
    ASSUME IInv, TypeOK', UNCHANGED <<objects, handle, place, inner, pend, stack>>
    PROVE  IInv'
  BY DEF IInv, RefsOK, ActiveOK, PayloadOK, StackOK, DyingOK, objects

\* Taking one more reference to a live object keeps the table consistent.
LEMMA RetainTable ==
    ASSUME IInv, TypeOK', NEW o \in Objects, CanRetain(o), Retained(o),
           UNCHANGED <<inner, stack>>
    PROVE  ActiveOK' /\ PayloadOK' /\ StackOK' /\ DyingOK'
  <1>0. TableTypes
    BY TableTyped DEF IInv
  <1>1. /\ active' = active /\ destroy' = destroy /\ stack' = stack
        /\ inner' = inner
        /\ references' = [references EXCEPT ![o] = references[o] + 1]
    BY DEF Retained
  <1>2. active[o] /\ references[o] # 0 /\ references[o] \in Nat
    BY <1>0 DEF CanRetain, TableTypes
  <1>3. references'[o] # 0
    BY <1>1, <1>2, <1>0 DEF TableTypes
  <1>4. \A x \in Objects : x # o => references'[x] = references[x]
    BY <1>1, <1>0 DEF TableTypes
  <1>5. ActiveOK'
    BY <1>1, <1>2, <1>4 DEF IInv, ActiveOK
  <1>6. PayloadOK'
    BY <1>1 DEF IInv, PayloadOK
  <1>7. StackOK'
    <2>1. \A c \in CPUs : \A i \in 1..Len(stack[c]) :
             stack[c][i] \in Objects /\ stack[c][i] # o
      BY <1>2, StackElement DEF IInv, StackOK
    <2> QED BY <1>1, <1>4, <2>1 DEF IInv, StackOK
  <1>8. DyingOK'
    BY <1>1, <1>3, <1>4 DEF IInv, DyingOK
  <1> QED BY <1>5, <1>6, <1>7, <1>8

\* Emptying a handle slot into a pending release moves one pointer.
LEMMA ClearSlotInv ==
    ASSUME IInv, TypeOK', NEW c \in CPUs, NEW t \in Tasks, NEW i \in Index,
           pend[c] = None, ClearSlot(c, t, i),
           UNCHANGED <<objects, place, inner, stack>>
    PROVE  IInv'
  <1>0. TableTypes
    BY TableTyped DEF IInv
  <1>1. ASSUME NEW o \in Objects
        PROVE  references'[o] = Refs(handle', place', inner', pend', o)
    <2>1. <<t, i>> \in Slots /\ o # None
      BY DEF Slots
    <2>2. /\ handle' = [handle EXCEPT ![<<t, i>>] = None]
          /\ pend' = [pend EXCEPT ![c] = handle[<<t, i>>]]
          /\ UNCHANGED <<place, inner, references>>
      BY DEF ClearSlot, objects
    <2>3. /\ \A x \in Slots : x # <<t, i>> => handle'[x] = handle[x]
          /\ handle'[<<t, i>>] = None
          /\ \A x \in CPUs : x # c => pend'[x] = pend[x]
          /\ pend'[c] = handle[<<t, i>>]
      BY <2>1, <2>2, <1>0 DEF TableTypes
    <2>4. Refs(handle', place, inner, pend, o) =
            Refs(handle, place, inner, pend, o)
              - One(handle[<<t, i>>], o) + One(None, o)
      <3>1. Moves(Slots, handle, handle', <<t, i>>, handle[<<t, i>>], None)
        BY <2>1, <2>3 DEF Moves
      <3> QED BY <3>1, RefsHandle
    <2>5. Refs(handle', place, inner, pend', o) =
            Refs(handle', place, inner, pend, o)
              - One(None, o) + One(handle[<<t, i>>], o)
      <3>1. Moves(CPUs, pend, pend', c, None, handle[<<t, i>>])
        BY <2>3 DEF Moves
      <3> QED BY <3>1, RefsRelease
    <2>6. Refs(handle, place, inner, pend, o) = references[o]
      BY DEF IInv, RefsOK
    <2> QED BY <2>2, <2>4, <2>5, <2>6, RefsType DEF One
  <1>2. ActiveOK' /\ PayloadOK' /\ StackOK' /\ DyingOK'
    BY DEF IInv, ActiveOK, PayloadOK, StackOK, DyingOK, objects
  <1> QED BY <1>1, <1>2 DEF IInv, RefsOK

\* object_create: the new object is held once, by its creator.
LEMMA CreateInv ==
    ASSUME IInv, TypeOK', NEW c \in CPUs, NEW p \in Places, ObjectCreate(c, p)
    PROVE  IInv'
  <1>0. TableTypes
    BY TableTyped DEF IInv
  <1>1. PICK o \in Objects, q \in Places :
           /\ ~active[o]
           /\ active' = [active EXCEPT ![o] = TRUE]
           /\ references' = [references EXCEPT ![o] = 1]
           /\ destroy' = [destroy EXCEPT ![o] = TRUE]
           /\ place' = [place EXCEPT ![q] = None, ![p] = o]
           /\ inner' = [inner EXCEPT ![o] = place[q]]
    BY Zenon DEF ObjectCreate
  <1>2. place[p] = None /\ UNCHANGED <<handle, pend, stack>>
    BY DEF ObjectCreate, handles
  <1>3. references[o] = 0 /\ inner[o] = None
    BY <1>1 DEF IInv, ActiveOK, PayloadOK
  <1>4. place[q] # o
    <2>1. <<"place", q>> \in Tokens
      BY DEF Tokens
    <2>2. PointeeOf(handle, place, inner, pend, <<"place", q>>) = place[q]
      BY DEF PointeeOf
    <2> QED BY <1>1, <2>1, <2>2, HeldIsLive
  <1>5. ASSUME NEW y \in Objects
        PROVE  references'[y] = Refs(handle', place', inner', pend', y)
    <2> DEFINE emptied == [place EXCEPT ![q] = None]
    <2>1. y # None
      OBVIOUS
    <2>2. /\ inner'[o] = place[q]
          /\ \A x \in Objects : x # o => inner'[x] = inner[x]
          /\ emptied[q] = None /\ emptied[p] = None
          /\ \A x \in Places : x # q => emptied[x] = place[x]
          /\ place'[p] = o
          /\ \A x \in Places : x # p => place'[x] = emptied[x]
      BY <1>1, <1>2, <1>0 DEF TableTypes
    <2> HIDE DEF emptied
    <2>3. Refs(handle, place, inner', pend, y) =
            Refs(handle, place, inner, pend, y)
              - One(None, y) + One(place[q], y)
      <3>1. Moves(Objects, inner, inner', o, None, place[q])
        BY <1>3, <2>2 DEF Moves
      <3> QED BY <3>1, RefsInner
    <2>4. Refs(handle, emptied, inner', pend, y) =
            Refs(handle, place, inner', pend, y)
              - One(place[q], y) + One(None, y)
      <3>1. Moves(Places, place, emptied, q, place[q], None)
        BY <2>2 DEF Moves
      <3> QED BY <3>1, RefsPlace
    <2>5. Refs(handle, place', inner', pend, y) =
            Refs(handle, emptied, inner', pend, y) - One(None, y) + One(o, y)
      <3>1. Moves(Places, emptied, place', p, None, o)
        BY <2>2 DEF Moves
      <3> QED BY <3>1, RefsPlace
    <2>6. references[y] = Refs(handle, place, inner, pend, y)
      BY DEF IInv, RefsOK
    <2>7. references'[y] = IF y = o THEN 1 ELSE references[y]
      BY <1>1, <1>0 DEF TableTypes
    <2> QED
      BY <1>2, <1>3, <2>1, <2>3, <2>4, <2>5, <2>6, <2>7, RefsType DEF One
  <1>6. \A x \in Objects : x # o => /\ active'[x] = active[x]
                                  /\ references'[x] = references[x]
                                  /\ destroy'[x] = destroy[x]
                                  /\ inner'[x] = inner[x]
    BY <1>1, <1>0 DEF TableTypes
  <1>7. active'[o] /\ references'[o] = 1
    BY <1>1, <1>0 DEF TableTypes
  <1>8. ActiveOK' /\ PayloadOK' /\ DyingOK'
    <2>1. ActiveOK'
      BY <1>6, <1>7 DEF IInv, ActiveOK
    <2>2. PayloadOK'
      BY <1>6, <1>7 DEF IInv, PayloadOK
    <2>3. DyingOK'
      <3> SUFFICES ASSUME NEW x \in Objects, active'[x], references'[x] = 0
                   PROVE  \E d \in CPUs :
                             \E i \in 1..Len(stack'[d]) : stack'[d][i] = x
        BY DEF DyingOK
      <3>1. x # o
        BY <1>7
      <3>2. active[x] /\ references[x] = 0
        BY <1>6, <3>1
      <3> QED BY <1>2, <3>2 DEF IInv, DyingOK
    <2> QED BY <2>1, <2>2, <2>3
  <1>9. StackOK'
    <2>1. \A d \in CPUs : \A i \in 1..Len(stack[d]) :
             stack[d][i] \in Objects /\ stack[d][i] # o
      BY <1>1, StackElement DEF IInv, StackOK
    <2> QED BY <1>2, <1>6, <2>1 DEF IInv, StackOK
  <1> QED BY <1>5, <1>8, <1>9 DEF IInv, RefsOK

\* object_retain: one more pointer, one more count.
LEMMA RetainInv ==
    ASSUME IInv, TypeOK', NEW c \in CPUs, NEW p \in Places, NEW q \in Places,
           ObjectRetain(c, p, q)
    PROVE  IInv'
  <1>0. TableTypes
    BY TableTyped DEF IInv
  <1> DEFINE x == place[p]
  <1>1. /\ x \in Objects /\ place[q] = None /\ CanRetain(x) /\ Retained(x)
        /\ place' = [place EXCEPT ![q] = x]
        /\ UNCHANGED <<handle, inner, pend, stack>>
    BY <1>0 DEF ObjectRetain, handles, TableTypes
  <1>2. ActiveOK' /\ PayloadOK' /\ StackOK' /\ DyingOK'
    BY <1>1, RetainTable
  <1>3. ASSUME NEW o \in Objects
        PROVE  references'[o] = Refs(handle', place', inner', pend', o)
    <2>1. o # None
      OBVIOUS
    <2>2. /\ place[q] = None /\ place'[q] = x
          /\ \A y \in Places : y # q => place'[y] = place[y]
      BY <1>1, <1>0 DEF TableTypes
    <2>3. Refs(handle, place', inner, pend, o) =
            Refs(handle, place, inner, pend, o) - One(None, o) + One(x, o)
      <3>1. Moves(Places, place, place', q, None, x)
        BY <2>2 DEF Moves
      <3> QED BY <3>1, RefsPlace
    <2>4. references'[o] = references[o] + One(x, o)
      BY <1>1, <1>0 DEF Retained, TableTypes, One
    <2>5. references[o] = Refs(handle, place, inner, pend, o)
      BY DEF IInv, RefsOK
    <2> QED BY <1>1, <2>1, <2>3, <2>4, <2>5, RefsType DEF One
  <1> QED BY <1>2, <1>3 DEF IInv, RefsOK

\* handle_open and handle_duplicate: a new slot for a pointer held elsewhere.
LEMMA OpenInv ==
    ASSUME IInv, TypeOK', NEW x \in Objects, NEW t \in Tasks, NEW i \in Index,
           CanRetain(x), Retained(x), handle[<<t, i>>] = None,
           handle'[<<t, i>>] = x,
           \A y \in Slots : y # <<t, i>> => handle'[y] = handle[y],
           UNCHANGED <<place, inner, pend, stack>>
    PROVE  IInv'
  <1>0. TableTypes
    BY TableTyped DEF IInv
  <1>1. ActiveOK' /\ PayloadOK' /\ StackOK' /\ DyingOK'
    BY RetainTable
  <1>2. ASSUME NEW o \in Objects
        PROVE  references'[o] = Refs(handle', place', inner', pend', o)
    <2>1. o # None /\ <<t, i>> \in Slots
      BY DEF Slots
    <2>3. Refs(handle', place, inner, pend, o) =
            Refs(handle, place, inner, pend, o) - One(None, o) + One(x, o)
      <3>1. Moves(Slots, handle, handle', <<t, i>>, None, x)
        BY <2>1 DEF Moves
      <3> QED BY <3>1, RefsHandle
    <2>4. references'[o] = references[o] + One(x, o)
      BY <1>0 DEF Retained, TableTypes, One
    <2>5. references[o] = Refs(handle, place, inner, pend, o)
      BY DEF IInv, RefsOK
    <2> QED BY <2>1, <2>3, <2>4, <2>5, RefsType DEF One
  <1> QED BY <1>1, <1>2 DEF IInv, RefsOK

\* A caller hands its pointer to object_release: it stays counted.
LEMMA ReleaseCallInv ==
    ASSUME IInv, TypeOK', NEW c \in CPUs, NEW p \in Places,
           ObjectReleaseCall(c, p)
    PROVE  IInv'
  <1>0. TableTypes
    BY TableTyped DEF IInv
  <1>1. /\ pend[c] = None
        /\ pend' = [pend EXCEPT ![c] = place[p]]
        /\ place' = [place EXCEPT ![p] = None]
        /\ UNCHANGED <<objects, handle, inner, stack>>
    BY DEF ObjectReleaseCall, Ready, Between, handles
  <1>2. ASSUME NEW o \in Objects
        PROVE  references'[o] = Refs(handle', place', inner', pend', o)
    <2>1. o # None
      OBVIOUS
    <2>2. /\ place'[p] = None
          /\ \A y \in Places : y # p => place'[y] = place[y]
      BY <1>1, <1>0 DEF TableTypes
    <2>6. /\ pend[c] = None /\ pend'[c] = place[p]
          /\ \A y \in CPUs : y # c => pend'[y] = pend[y]
      BY <1>1, <1>0 DEF TableTypes
    <2>3. Refs(handle, place', inner, pend, o) =
            Refs(handle, place, inner, pend, o)
              - One(place[p], o) + One(None, o)
      <3>1. Moves(Places, place, place', p, place[p], None)
        BY <2>2 DEF Moves
      <3> QED BY <3>1, RefsPlace
    <2>4. Refs(handle, place', inner, pend', o) =
            Refs(handle, place', inner, pend, o)
              - One(None, o) + One(place[p], o)
      <3>1. Moves(CPUs, pend, pend', c, None, place[p])
        BY <2>6 DEF Moves
      <3> QED BY <3>1, RefsRelease
    <2>5. references[o] = Refs(handle, place, inner, pend, o)
      BY DEF IInv, RefsOK
    <2> QED BY <1>1, <2>1, <2>3, <2>4, <2>5, RefsType DEF One, objects
  <1>3. ActiveOK' /\ PayloadOK' /\ StackOK' /\ DyingOK'
    BY <1>1 DEF IInv, ActiveOK, PayloadOK, StackOK, DyingOK, objects
  <1> QED BY <1>2, <1>3 DEF IInv, RefsOK

\* The locked half of object_release.  The released pointer was counted, so
\* the object is live and either keeps a reference or starts to die here.
LEMMA ReleaseInv ==
    ASSUME IInv, TypeOK', NEW c \in CPUs, ObjectRelease(c)
    PROVE  IInv'
  <1>0. TableTypes
    BY TableTyped DEF IInv
  <1> DEFINE x == pend[c]
  <1>1. x \in Objects
    BY <1>0 DEF ObjectRelease, TableTypes
  <1>2. references[x] \in Nat \ {0} /\ active[x]
    <2>1. <<"release", c>> \in Tokens
      BY DEF Tokens
    <2>2. PointeeOf(handle, place, inner, pend, <<"release", c>>) = x
      BY DEF PointeeOf
    <2> QED BY <1>1, <2>1, <2>2, HeldIsLive
  <1>3. /\ pend'[c] = None
        /\ \A y \in CPUs : y # c => pend'[y] = pend[y]
        /\ UNCHANGED <<active, handle, place, inner>>
    BY <1>0 DEF ObjectRelease, handles, TableTypes
  <1>4. references' = [references EXCEPT ![x] = references[x] - 1]
    BY <1>2 DEF ObjectRelease
  <1>5. /\ references'[x] = references[x] - 1
        /\ \A y \in Objects : y # x => references'[y] = references[y]
    BY <1>1, <1>4, <1>0 DEF TableTypes
  <1>6. ASSUME NEW o \in Objects
        PROVE  references'[o] = Refs(handle', place', inner', pend', o)
    <2>1. o # None
      OBVIOUS
    <2>2. Refs(handle, place, inner, pend', o) =
            Refs(handle, place, inner, pend, o) - One(x, o) + One(None, o)
      <3>1. Moves(CPUs, pend, pend', c, x, None)
        BY <1>3 DEF Moves
      <3> QED BY <3>1, RefsRelease
    <2>3. references[o] = Refs(handle, place, inner, pend, o)
      BY DEF IInv, RefsOK
    <2>4. references'[o] = references[o] - One(x, o)
      BY <1>5, <2>3, RefsType DEF One
    <2> QED BY <1>3, <2>1, <2>2, <2>3, <2>4, RefsType DEF One
  <1>7. ActiveOK' /\ PayloadOK'
    BY <1>2, <1>3, <1>5 DEF IInv, ActiveOK, PayloadOK
  <1>8. \A d \in CPUs : \A i \in 1..Len(stack[d]) :
           stack[d][i] \in Objects /\ stack[d][i] # x
    BY <1>2, StackElement DEF IInv, StackOK
  <1>9. CASE references[x] # 1
    <2>1. stack' = stack /\ destroy' = destroy /\ references'[x] # 0
      BY <1>2, <1>5, <1>9 DEF ObjectRelease
    <2>2. StackOK'
      BY <1>3, <1>5, <1>8, <2>1 DEF IInv, StackOK
    <2>3. DyingOK'
      <3>1. ASSUME NEW o \in Objects, active'[o], references'[o] = 0
            PROVE  active[o] /\ references[o] = 0
        BY <1>3, <1>5, <2>1, <3>1, Zenon
      <3>2. DyingOK
        BY DEF IInv
      <3> QED BY Zenon, <2>1, <3>1, <3>2 DEF DyingOK
    <2> QED BY <1>6, <1>7, <2>2, <2>3 DEF IInv, RefsOK
  <1>10. CASE references[x] = 1
    <2>1. /\ stack' = [stack EXCEPT ![c] = <<x>> \o stack[c]]
          /\ destroy' = [destroy EXCEPT ![x] = FALSE]
          /\ references'[x] = 0
      BY <1>2, <1>5, <1>10 DEF ObjectRelease
    <2>2. /\ ~destroy'[x]
          /\ \A y \in Objects : y # x => destroy'[y] = destroy[y]
      BY <1>1, <2>1, <1>0 DEF TableTypes
    <2>3. stack[c] \in Seq(Objects)
      BY <1>0 DEF TableTypes
    <2>4. /\ Len(stack'[c]) = Len(stack[c]) + 1
          /\ stack'[c][1] = x
          /\ \A i \in 1..Len(stack[c]) : stack'[c][i + 1] = stack[c][i]
          /\ \A d \in CPUs : d # c => stack'[d] = stack[d]
      BY <1>1, <2>1, <2>3, <1>0 DEF TableTypes
    <2>5. \A i \in 1..Len(stack'[c]) :
             i = 1 \/ (i - 1 \in 1..Len(stack[c]) /\ stack'[c][i] = stack[c][i - 1])
      BY <2>3, <2>4
    <2>6. StackOK'
      <3> SUFFICES ASSUME NEW d \in CPUs, NEW i \in 1..Len(stack'[d])
                   PROVE  /\ active'[stack'[d][i]]
                          /\ references'[stack'[d][i]] = 0
                          /\ ~destroy'[stack'[d][i]]
                          /\ \A e \in CPUs : \A j \in 1..Len(stack'[e]) :
                                stack'[e][j] = stack'[d][i] => e = d /\ j = i
        BY DEF StackOK
      <3>1. CASE d = c /\ i = 1
        <4>1. stack'[d][i] = x
          BY <2>4, <3>1
        <4>2. \A e \in CPUs : \A j \in 1..Len(stack'[e]) :
                 stack'[e][j] = x => e = c /\ j = 1
          BY <1>8, <2>4, <2>5
        <4> QED BY <1>2, <1>3, <2>1, <2>2, <3>1, <4>1, <4>2
      <3>2. CASE d = c /\ i # 1
        <4>1. i - 1 \in 1..Len(stack[c]) /\ stack'[c][i] = stack[c][i - 1]
          BY <2>5, <3>2
        <4>2. /\ active[stack[c][i - 1]] /\ references[stack[c][i - 1]] = 0
              /\ ~destroy[stack[c][i - 1]]
              /\ \A e \in CPUs : \A j \in 1..Len(stack[e]) :
                    stack[e][j] = stack[c][i - 1] => e = c /\ j = i - 1
          BY <4>1 DEF IInv, StackOK
        <4>3. stack[c][i - 1] \in Objects /\ stack[c][i - 1] # x
          BY <1>8, <4>1
        <4>4. ASSUME NEW e \in CPUs, NEW j \in 1..Len(stack'[e]),
                     stack'[e][j] = stack[c][i - 1]
              PROVE  e = c /\ j = i
          <5>1. CASE e # c
            BY Zenon, <2>4, <4>2, <4>4, <5>1
          <5>2. CASE e = c
            <6>1. j # 1
              BY <2>4, <4>3, <4>4, <5>2
            <6>2. j - 1 \in 1..Len(stack[c]) /\ stack[c][j - 1] = stack[c][i - 1]
              BY <2>5, <4>4, <5>2, <6>1
            <6>3. j - 1 = i - 1
              BY <4>2, <6>2
            <6> QED BY <2>3, <4>4, <4>1, <5>2, <6>2, <6>3
          <5> QED BY <5>1, <5>2
        <4> QED BY <1>3, <1>5, <2>2, <3>2, <4>1, <4>2, <4>3, <4>4
      <3>3. CASE d # c
        <4>1. stack'[d] = stack[d]
          BY <2>4, <3>3
        <4>2. /\ active[stack[d][i]] /\ references[stack[d][i]] = 0
              /\ ~destroy[stack[d][i]]
              /\ \A e \in CPUs : \A j \in 1..Len(stack[e]) :
                    stack[e][j] = stack[d][i] => e = d /\ j = i
          BY <4>1 DEF IInv, StackOK
        <4>3. stack[d][i] \in Objects /\ stack[d][i] # x
          BY <1>8, <4>1
        <4>4. ASSUME NEW e \in CPUs, NEW j \in 1..Len(stack'[e]),
                     stack'[e][j] = stack[d][i]
              PROVE  e = d /\ j = i
          <5>1. CASE e # c
            BY <2>4, <4>2, <4>4, <5>1
          <5>2. CASE e = c
            <6>1. j # 1
              BY <2>4, <4>3, <4>4, <5>2
            <6>2. j - 1 \in 1..Len(stack[c]) /\ stack[c][j - 1] = stack[d][i]
              BY <2>5, <4>4, <5>2, <6>1
            <6> QED BY <3>3, <4>2, <5>2, <6>2
          <5> QED BY <5>1, <5>2
        <4> QED BY <1>3, <1>5, <2>2, <4>1, <4>2, <4>3, <4>4
      <3> QED BY <3>1, <3>2, <3>3
    <2>7. DyingOK'
      <3> SUFFICES ASSUME NEW o \in Objects, active'[o], references'[o] = 0
                   PROVE  \E d \in CPUs : \E i \in 1..Len(stack'[d]) :
                             stack'[d][i] = o
        BY DEF DyingOK
      <3>1. CASE o = x
        <4>1. 1 \in 1..Len(stack'[c])
          BY <2>3, <2>4
        <4> QED BY <2>4, <3>1, <4>1
      <3>2. CASE o # x
        <4>0. PICK d \in CPUs : \E i \in 1..Len(stack[d]) : stack[d][i] = o
          BY <1>3, <1>5, <3>2 DEF IInv, DyingOK
        <4>1. PICK i \in 1..Len(stack[d]) : stack[d][i] = o
          BY <4>0
        <4>2. CASE d = c
          <5>1. i + 1 \in 1..Len(stack'[c]) /\ stack'[c][i + 1] = o
            BY <2>3, <2>4, <4>1, <4>2
          <5> QED BY <5>1
        <4>3. CASE d # c
          BY <2>4, <4>1, <4>3
        <4> QED BY <4>2, <4>3
      <3> QED BY <3>1, <3>2
    <2> QED BY <1>6, <1>7, <2>6, <2>7 DEF IInv, RefsOK
  <1> QED BY <1>9, <1>10

\* The destroy callback hands the payload's pointer to a nested release.
LEMMA DestroyInv ==
    ASSUME IInv, TypeOK', NEW c \in CPUs, Destroy(c)
    PROVE  IInv'
  <1>0. TableTypes
    BY TableTyped DEF IInv
  <1> DEFINE y == Head(stack[c])
  <1>1. y \in Objects
    BY <1>0 DEF Destroy, TableTypes
  <1>2. UNCHANGED <<objects, handle, place, stack>>
    BY Zenon DEF Destroy, handles
  <1>3. /\ inner'[y] = None
        /\ \A x \in Objects : x # y => inner'[x] = inner[x]
    BY <1>1, <1>0 DEF Destroy, TableTypes
  <1>4. /\ pend[c] = None /\ pend'[c] = inner[y]
        /\ \A x \in CPUs : x # c => pend'[x] = pend[x]
    BY <1>0 DEF Destroy, TableTypes
  <1>5. ASSUME NEW o \in Objects
        PROVE  references'[o] = Refs(handle', place', inner', pend', o)
    <2>1. o # None
      OBVIOUS
    <2>2. Refs(handle, place, inner', pend, o) =
            Refs(handle, place, inner, pend, o)
              - One(inner[y], o) + One(None, o)
      <3>1. Moves(Objects, inner, inner', y, inner[y], None)
        BY <1>1, <1>3 DEF Moves
      <3> QED BY <3>1, RefsInner
    <2>3. Refs(handle, place, inner', pend', o) =
            Refs(handle, place, inner', pend, o)
              - One(None, o) + One(inner[y], o)
      <3>1. Moves(CPUs, pend, pend', c, None, inner[y])
        BY <1>4 DEF Moves
      <3> QED BY <3>1, RefsRelease
    <2>4. references[o] = Refs(handle, place, inner, pend, o)
      BY DEF IInv, RefsOK
    <2> QED BY <1>2, <2>1, <2>2, <2>3, <2>4, RefsType DEF One, objects
  <1>6. ActiveOK' /\ StackOK' /\ DyingOK'
    BY <1>2 DEF IInv, ActiveOK, StackOK, DyingOK, objects
  <1>7. PayloadOK'
    BY <1>2, <1>3 DEF IInv, PayloadOK, objects
  <1> QED BY <1>5, <1>6, <1>7 DEF IInv, RefsOK

\* The object whose callback has returned leaves the table and the stack.
LEMMA FinishInv ==
    ASSUME IInv, TypeOK', NEW c \in CPUs, ObjectReleaseFinish(c)
    PROVE  IInv'
  <1>0. TableTypes
    BY TableTyped DEF IInv
  <1> DEFINE y == Head(stack[c])
  <1>1. /\ UNCHANGED <<references, destroy, handle, place, inner, pend>>
        /\ inner[y] = None
        /\ active' = [active EXCEPT ![y] = FALSE]
        /\ stack' = [stack EXCEPT ![c] = Tail(stack[c])]
    BY Zenon DEF ObjectReleaseFinish, handles
  <1>2. stack[c] \in Seq(Objects) /\ stack[c] # << >>
    BY <1>0 DEF ObjectReleaseFinish, TableTypes
  <1>3. y \in Objects /\ y = stack[c][1] /\ 1 \in 1..Len(stack[c])
    BY <1>2
  <1> HIDE DEF y
  <1>4. /\ references[y] = 0
        /\ \A d \in CPUs : \A j \in 1..Len(stack[d]) :
              stack[d][j] = y => d = c /\ j = 1
    BY <1>3 DEF IInv, StackOK
  <1>5. /\ ~active'[y]
        /\ \A x \in Objects : x # y => active'[x] = active[x]
    BY <1>1, <1>3, <1>0 DEF TableTypes
  <1>6. /\ \A d \in CPUs : d # c => stack'[d] = stack[d]
        /\ stack'[c] = Tail(stack[c])
    BY <1>1, <1>0 DEF TableTypes
  <1>7. /\ Len(stack'[c]) = Len(stack[c]) - 1
        /\ Len(stack[c]) \in Nat \ {0}
        /\ \A i \in 1..Len(stack'[c]) : i + 1 \in 1..Len(stack[c])
                                      /\ stack'[c][i] = stack[c][i + 1]
    BY <1>2, <1>6
  <1>8. RefsOK' /\ ActiveOK' /\ PayloadOK'
    BY <1>1, <1>4, <1>5 DEF IInv, RefsOK, ActiveOK, PayloadOK
  <1>9. StackOK'
    <2>1. ASSUME NEW d \in CPUs, NEW i \in 1..Len(stack'[d])
          PROVE  \E m \in 1..Len(stack[d]) :
                    /\ stack'[d][i] = stack[d][m]
                    /\ stack[d][m] # y
                    /\ m = IF d = c THEN i + 1 ELSE i
      <3>1. CASE d = c
        <4>1. i + 1 \in 1..Len(stack[c]) /\ i + 1 # 1
          BY <1>7, <3>1
        <4> QED BY <1>4, <1>7, <3>1, <4>1
      <3>2. CASE d # c
        BY <1>4, <1>6, <3>2
      <3> QED BY <3>1, <3>2
    <2> SUFFICES ASSUME NEW d \in CPUs, NEW i \in 1..Len(stack'[d])
                 PROVE  /\ active'[stack'[d][i]]
                        /\ references'[stack'[d][i]] = 0
                        /\ ~destroy'[stack'[d][i]]
                        /\ \A e \in CPUs : \A j \in 1..Len(stack'[e]) :
                              stack'[e][j] = stack'[d][i] => e = d /\ j = i
      BY DEF StackOK
    <2>2. PICK m \in 1..Len(stack[d]) :
             /\ stack'[d][i] = stack[d][m] /\ stack[d][m] # y
             /\ m = IF d = c THEN i + 1 ELSE i
      BY <2>1
    <2>3. stack[d][m] \in Objects
      BY StackElement DEF IInv
    <2>4. /\ active[stack[d][m]] /\ references[stack[d][m]] = 0
          /\ ~destroy[stack[d][m]]
          /\ \A e \in CPUs : \A j \in 1..Len(stack[e]) :
                stack[e][j] = stack[d][m] => e = d /\ j = m
      BY DEF IInv, StackOK
    <2>5. ASSUME NEW e \in CPUs, NEW j \in 1..Len(stack'[e]),
                 stack'[e][j] = stack'[d][i]
          PROVE  e = d /\ j = i
      <3>1. PICK n \in 1..Len(stack[e]) :
               /\ stack'[e][j] = stack[e][n]
               /\ n = IF e = c THEN j + 1 ELSE j
        BY <2>1
      <3>2. e = d /\ n = m
        BY <2>2, <2>4, <2>5, <3>1
      <3>3. stack'[d] \in Seq(Objects)
        BY TableTyped DEF TableTypes
      <3>4. i \in Nat /\ j \in Nat
        BY <3>2, <3>3
      <3> QED BY <2>2, <3>1, <3>2, <3>4
    <2> QED BY <1>1, <1>5, <2>2, <2>3, <2>4, <2>5
  <1>10. DyingOK'
    <2> SUFFICES ASSUME NEW o \in Objects, active'[o], references'[o] = 0
                 PROVE  \E d \in CPUs : \E i \in 1..Len(stack'[d]) :
                           stack'[d][i] = o
      BY DEF DyingOK
    <2>1. o # y /\ active[o] /\ references[o] = 0
      BY <1>1, <1>5
    <2>2. PICK d \in CPUs : \E i \in 1..Len(stack[d]) : stack[d][i] = o
      BY <2>1 DEF IInv, DyingOK
    <2>3. PICK i \in 1..Len(stack[d]) : stack[d][i] = o
      BY <2>2
    <2>4. CASE d = c
      <3>1. i # 1
        BY <1>3, <2>1, <2>3, <2>4
      <3>2. i - 1 \in 1..Len(stack'[c]) /\ stack'[c][i - 1] = stack[c][i]
        BY <1>7, <2>4, <3>1
      <3> QED BY <2>3, <2>4, <3>2
    <2>5. CASE d # c
      BY <1>6, <2>3, <2>5
    <2> QED BY <2>4, <2>5
  <1> QED BY <1>8, <1>9, <1>10 DEF IInv

\* Every step of every CPU preserves the inductive invariant.
LEMMA NextInv == IInv /\ [Next]_vars => IInv'
  <1> SUFFICES ASSUME IInv, [Next]_vars PROVE IInv'
    OBVIOUS
  <1>0. TypeOK
    BY DEF IInv
  <1>1. TypeOK'
    BY NextType DEF IInv
  <1>2. ASSUME NEW c \in CPUs, NEW p \in Places, ObjectCreate(c, p)
        PROVE  IInv'
    BY <1>1, <1>2, CreateInv
  <1>3. ASSUME NEW c \in CPUs, NEW p \in Places, ObjectReleaseCall(c, p)
        PROVE  IInv'
    BY <1>1, <1>3, ReleaseCallInv
  <1>4. ASSUME NEW c \in CPUs, NEW p \in Places, NEW q \in Places,
               ObjectRetain(c, p, q)
        PROVE  IInv'
    BY <1>1, <1>4, RetainInv
  <1>5. ASSUME NEW c \in CPUs, NEW t \in Tasks, NEW p \in Places,
               NEW r \in SUBSET Rights, HandleOpen(c, t, p, r)
        PROVE  IInv'
    <2>1. PICK i \in Index :
             FirstEmpty(t, i) /\ handle' = [handle EXCEPT ![<<t, i>>] = place[p]]
      BY Zenon, <1>5 DEF HandleOpen
    <2>2. /\ place[p] \in Objects /\ CanRetain(place[p]) /\ Retained(place[p])
          /\ UNCHANGED <<place, inner, pend, stack>>
      BY Zenon, <1>5, <1>0 DEF HandleOpen, TypeOK
    <2>3. <<t, i>> \in Slots
      BY DEF Slots
    <2>4. /\ handle[<<t, i>>] = None /\ handle'[<<t, i>>] = place[p]
          /\ \A y \in Slots : y # <<t, i>> => handle'[y] = handle[y]
      BY <2>1, <2>3, <1>0 DEF FirstEmpty, TypeOK
    <2> QED BY Zenon, <1>1, <2>2, <2>4, OpenInv
  <1>6. ASSUME NEW c \in CPUs, NEW s \in Tasks, NEW t \in Tasks,
               NEW k \in Index, NEW r \in SUBSET Rights,
               HandleDuplicate(c, s, k, t, r)
        PROVE  IInv'
    <2> DEFINE x == handle[<<s, k>>]
    <2>1. PICK i \in Index :
             FirstEmpty(t, i) /\ handle' = [handle EXCEPT ![<<t, i>>] = x]
      BY Zenon, <1>6 DEF HandleDuplicate
    <2>2. <<s, k>> \in Slots /\ <<t, i>> \in Slots
      BY DEF Slots
    <2>3. /\ x \in Objects /\ CanRetain(x) /\ Retained(x)
          /\ UNCHANGED <<place, inner, pend, stack>>
      BY Zenon, <1>6, <2>2, <1>0 DEF HandleDuplicate, TypeOK
    <2>4. /\ handle[<<t, i>>] = None /\ handle'[<<t, i>>] = x
          /\ \A y \in Slots : y # <<t, i>> => handle'[y] = handle[y]
      BY <2>1, <2>2, <1>0 DEF FirstEmpty, TypeOK
    <2> QED BY Zenon, <1>1, <2>3, <2>4, OpenInv
  <1>7. ASSUME NEW c \in CPUs, NEW t \in Tasks, NEW i \in Index,
               HandleClose(c, t, i)
        PROVE  IInv'
    BY Zenon, <1>1, <1>7, ClearSlotInv DEF HandleClose, Ready, Between
  <1>8. ASSUME NEW c \in CPUs, HandleRevokePass(c)
        PROVE  IInv'
    <2>1. CASE UNCHANGED <<handles, pend, stale>>
      BY Zenon, <1>1, <1>8, <2>1, QuietInv DEF HandleRevokePass, handles
    <2>2. CASE \E t \in Tasks, i \in Index : ClearSlot(c, t, i)
      BY Zenon, <1>1, <1>8, <2>2, ClearSlotInv DEF HandleRevokePass, Between
    <2> QED BY Zenon, <1>8, <2>1, <2>2 DEF HandleRevokePass
  <1>9. ASSUME NEW c \in CPUs, HandleCloseAllClose(c)
        PROVE  IInv'
    <2>1. CASE UNCHANGED <<handles, pend, stale>>
      BY Zenon, <1>1, <1>9, <2>1, QuietInv DEF HandleCloseAllClose, handles
    <2>2. CASE ClearSlot(c, op[c].task, op[c].index)
      <3>1. op[c].task \in Tasks /\ op[c].index \in Index
        BY Zenon, <1>9, ClosingType DEF HandleCloseAllClose, IInv
      <3> QED BY Zenon, <1>1, <1>9, <2>2, <3>1, ClearSlotInv
                 DEF HandleCloseAllClose, Between
    <2> QED BY Zenon, <1>9, <2>1, <2>2 DEF HandleCloseAllClose
  <1>10. ASSUME NEW c \in CPUs, ReleaseStep(c)
         PROVE  IInv'
    BY <1>1, <1>10, ReleaseInv, DestroyInv, FinishInv DEF ReleaseStep
  <1>11. ASSUME NEW c \in CPUs, NEW p \in Places, HandleRevoke(c, p)
         PROVE  IInv'
    BY <1>1, <1>11, QuietInv DEF HandleRevoke, handles
  <1>12. ASSUME NEW c \in CPUs, NEW t \in Tasks,
                TaskExit(c, t) \/ TaskCreate(c, t)
         PROVE  IInv'
    BY Zenon, <1>1, <1>12, QuietInv DEF TaskExit, TaskCreate, handles
  <1>13. ASSUME NEW c \in CPUs, HandleCloseAllRead(c)
         PROVE  IInv'
    BY Zenon, <1>1, <1>13, QuietInv DEF HandleCloseAllRead, handles
  <1>14. CASE UNCHANGED vars
    BY <1>1, <1>14, QuietInv DEF vars, handles
  <1> QED
    BY <1>2, <1>3, <1>4, <1>5, <1>6, <1>7, <1>8, <1>9, <1>10, <1>11, <1>12,
       <1>13, <1>14 DEF Next, Continue

\* The inductive invariant behind the three results: each count of the object
\* table equals the number of counted pointers, an object with a count is
\* active, and the dying objects are exactly the ones on some CPU's stack.
THEOREM Inductive == Spec => []IInv
  BY InitInv, NextInv, PTL DEF Spec

\* object_retain, object_release, handle_open, handle_close, handle_duplicate
\* and handle_revoke_object keep every reference count equal to the number of
\* counted pointers, at every point where another CPU can take the lock.
THEOREM ReferencesExact == Spec => []ReferencesAreHolders
  <1>1. IInv => ReferencesAreHolders
    <2> SUFFICES ASSUME IInv, NEW o \in Objects
                 PROVE  references[o] = Cardinality(Holders(o))
      BY DEF ReferencesAreHolders
    <2>1. HoldersOf(handle, place, inner, pend, o) = Holders(o)
      BY DEF HoldersOf, Holders, PointeeOf, Pointee
    <2> QED BY <2>1 DEF IInv, RefsOK, Refs
  <1> QED BY <1>1, Inductive, PTL

\* object_create never hands out a slot somebody still points to, and an
\* object whose count reached zero is not brought back.
THEOREM NoDangling == Spec => []NoDanglingPointer
  <1>1. IInv => NoDanglingPointer
    <2> SUFFICES ASSUME IInv, NEW o \in Objects, NEW k \in Holders(o)
                 PROVE  active[o] /\ references[o] > 0
      BY DEF NoDanglingPointer
    <2>1. k \in Tokens /\ PointeeOf(handle, place, inner, pend, k) = o
      BY Zenon DEF Holders, PointeeOf, Pointee
    <2> QED BY <2>1, HeldIsLive
  <1> QED BY <1>1, Inductive, PTL

\* object_release runs the destroy callback of an object once, on one CPU,
\* while the slot is still claimed, and forgets none that is due.
THEOREM DestroyOnce == Spec => []DestroyedOnce
  <1>1. IInv => DestroyedOnce
    BY DEF IInv, StackOK, DyingOK, DestroyedOnce
  <1> QED BY <1>1, Inductive, PTL

----------------------------------------------------------------------------
(***************************************************************************)
(* Handles: a slot of the object table is given to a new object only when  *)
(* nothing points to it.                                                   *)
(***************************************************************************)
HIDE ConstantsAssumption

\* The types the argument needs.
HandleTypes ==
    /\ handle \in [Slots -> Objects \cup {None}]
    /\ rights \in [Slots -> SUBSET Rights]
    /\ generation \in [Slots -> 1..GenMax]
    /\ place \in [Places -> Objects \cup {None}]
    /\ alive \in [Tasks -> BOOLEAN]
    /\ pend \in [CPUs -> Objects \cup {None}]
    /\ op = [c \in CPUs |-> op[c]]
    /\ born \in [Objects -> Nat]
    /\ granted \in [Objects -> SUBSET Rights]

\* They are part of the type invariant.
LEMMA HandleTyped == TypeOK => HandleTypes
  <1>1. TypeOK => op = [c \in CPUs |-> op[c]]
    BY DEF TypeOK
  <1> QED BY Zenon, <1>1 DEF TypeOK, HandleTypes

\* A revoke in progress was called through a variable that still points to
\* its object.
KeepOK ==
    \A c \in CPUs : op[c].fn = "revoke" =>
        /\ op[c].keep \in Places
        /\ op[c].object \in Objects
        /\ place[op[c].keep] = op[c].object
        /\ born[op[c].object] = op[c].target

\* The generation g after n closes of the slot, while n is below GenMax.
Advanced(g, n) == IF g + n <= GenMax THEN g + n ELSE g + n - GenMax

\* The slot of the remembered handle has moved on by the closes since.
StaleOK ==
    stale # None /\ stale.closes < GenMax =>
        generation[<<stale.task, stale.index>>] =
            Advanced(stale.generation, stale.closes)

\* handle_close_all has emptied the slots it passed, and the value it read is
\* the one in the slot unless a revoke has emptied it since.
ClosingOK ==
    \A c \in CPUs : op[c].fn = "close_all" =>
        /\ c \in SyscallCPUs
        /\ \A j \in Index :
              j < op[c].index \/ (j = op[c].index /\ op[c].value = 0) =>
                 handle[<<op[c].task, j>>] = None
        /\ op[c].value # 0 =>
              \/ handle[<<op[c].task, op[c].index>>] = None
              \/ generation[<<op[c].task, op[c].index>>] = op[c].value

HInv == KeepOK /\ RightsNeverGrow /\ StaleOK /\ ClosingOK /\ DeadTaskHasNoHandle

\* The remembered handle names a slot.
LEMMA StaleType ==
    ASSUME TypeOK, stale # None
    PROVE  /\ stale.task \in Tasks /\ stale.index \in Index
           /\ stale.generation \in 1..GenMax /\ stale.closes \in 1..GenMax
  BY DEF TypeOK

\* What a kernel variable points to is active,
LEMMA PlaceIsLive ==
    ASSUME IInv, NEW p \in Places, place[p] \in Objects
    PROVE  active[place[p]]
  <1>1. <<"place", p>> \in Tokens
    BY DEF Tokens
  <1>2. PointeeOf(handle, place, inner, pend, <<"place", p>>) = place[p]
    BY DEF PointeeOf
  <1> QED BY <1>1, <1>2, HeldIsLive

\* and so is what a handle points to.
LEMMA HandleIsLive ==
    ASSUME IInv, NEW h \in Slots, handle[h] \in Objects
    PROVE  active[handle[h]]
  <1>1. <<"handle", h>> \in Tokens
    BY DEF Tokens
  <1>2. PointeeOf(handle, place, inner, pend, <<"handle", h>>) = handle[h]
    BY DEF PointeeOf
  <1> QED BY <1>1, <1>2, HeldIsLive

\* Steps that leave the handle tables and the running calls alone and move
\* no pointer out of a variable a revoke was called through.
LEMMA PlacesHandles ==
    ASSUME HInv, UNCHANGED <<handles, alive, op, stale>>,
           \A c \in CPUs : op[c].fn = "revoke" =>
               /\ place'[op[c].keep] = place[op[c].keep]
               /\ born'[op[c].object] = born[op[c].object],
           \A h \in Slots : handle[h] # None =>
               granted'[handle[h]] = granted[handle[h]]
    PROVE  HInv'
  <1>1. KeepOK'
    BY DEF HInv, KeepOK
  <1>2. RightsNeverGrow'
    BY Zenon DEF HInv, RightsNeverGrow, handles, Slots
  <1>3. StaleOK' /\ ClosingOK' /\ DeadTaskHasNoHandle'
    BY DEF HInv, StaleOK, ClosingOK, DeadTaskHasNoHandle, handles, Advanced
  <1> QED BY <1>1, <1>2, <1>3 DEF HInv

\* object_create takes a slot no handle and no revoke knows.
LEMMA CreateHandles ==
    ASSUME IInv, HInv, NEW c \in CPUs, NEW p \in Places, ObjectCreate(c, p)
    PROVE  HInv'
  <1>0. HandleTypes
    BY HandleTyped DEF IInv
  <1>1. PICK o \in Objects, q \in Places :
           /\ ~active[o]
           /\ q \notin Pinned
           /\ place' = [place EXCEPT ![q] = None, ![p] = o]
           /\ born' = [born EXCEPT ![o] = created + 1]
           /\ granted' = [granted EXCEPT ![o] = {}]
    BY Zenon DEF ObjectCreate
  <1>2. place[p] = None /\ UNCHANGED <<handles, alive, op, stale>>
    BY Zenon DEF ObjectCreate
  <1>3. ASSUME NEW d \in CPUs, op[d].fn = "revoke"
        PROVE  /\ place'[op[d].keep] = place[op[d].keep]
               /\ born'[op[d].object] = born[op[d].object]
    <2>1. /\ op[d].keep \in Places /\ op[d].object \in Objects
          /\ place[op[d].keep] = op[d].object
      BY <1>3 DEF HInv, KeepOK
    <2>2. op[d].keep # q
      BY <1>1, <1>3 DEF Pinned
    <2>3. op[d].keep # p
      BY <1>2, <2>1, ConstantsAssumption
    <2>4. op[d].object # o
      BY <1>1, <2>1, PlaceIsLive
    <2> QED BY <1>0, <1>1, <2>1, <2>2, <2>3, <2>4 DEF HandleTypes
  <1>4. ASSUME NEW h \in Slots, handle[h] # None
        PROVE  granted'[handle[h]] = granted[handle[h]]
    <2>1. handle[h] \in Objects
      BY <1>0, <1>4 DEF HandleTypes
    <2> QED BY <1>0, <1>1, <2>1, HandleIsLive DEF HandleTypes
  <1> QED BY <1>2, <1>3, <1>4, PlacesHandles, Zenon

\* object_retain writes a variable that is empty.
LEMMA RetainHandles ==
    ASSUME IInv, HInv, NEW c \in CPUs, NEW p \in Places, NEW q \in Places,
           ObjectRetain(c, p, q)
    PROVE  HInv'
  <1>0. HandleTypes
    BY HandleTyped DEF IInv
  <1>1. ASSUME NEW d \in CPUs, op[d].fn = "revoke"
        PROVE  place'[op[d].keep] = place[op[d].keep]
    <2>1. op[d].keep \in Places /\ place[op[d].keep] # None
      BY <1>1, ConstantsAssumption DEF HInv, KeepOK
    <2>2. op[d].keep # q
      BY <2>1 DEF ObjectRetain
    <2> QED BY <1>0, <2>1, <2>2 DEF ObjectRetain, HandleTypes
  <1> QED BY <1>1, PlacesHandles DEF ObjectRetain

\* A caller of object_release clears a variable no revoke was called through.
LEMMA ReleaseCallHandles ==
    ASSUME IInv, HInv, NEW c \in CPUs, NEW p \in Places,
           ObjectReleaseCall(c, p)
    PROVE  HInv'
  <1>0. HandleTypes
    BY HandleTyped DEF IInv
  <1>1. ASSUME NEW d \in CPUs, op[d].fn = "revoke"
        PROVE  place'[op[d].keep] = place[op[d].keep]
    <2>1. op[d].keep \in Places
      BY <1>1 DEF HInv, KeepOK
    <2>2. op[d].keep # p
      BY <1>1 DEF ObjectReleaseCall, Pinned
    <2> QED BY <1>0, <2>1, <2>2 DEF ObjectReleaseCall, HandleTypes
  <1> QED BY <1>1, PlacesHandles DEF ObjectReleaseCall

\* The steps of object_release touch no handle and no variable.
LEMMA ReleaseHandles ==
    ASSUME IInv, HInv, NEW c \in CPUs, ReleaseStep(c)
    PROVE  HInv'
  <1>1. UNCHANGED <<handles, alive, op, stale, place, born, granted>>
    BY DEF ReleaseStep, ObjectRelease, Destroy, ObjectReleaseFinish
  <1> QED BY <1>1, PlacesHandles

\* handle_open and handle_duplicate fill an empty slot of a live task with
\* rights that were granted; nobody is inside handle_close_all.
LEMMA FillHandles ==
    ASSUME IInv, HInv, NEW c \in SyscallCPUs, NEW t \in Tasks,
           NEW i \in Index, NEW o \in Objects, NEW r \in SUBSET Rights,
           Ready(c), alive[t],
           handle' = [handle EXCEPT ![<<t, i>>] = o],
           rights' = [rights EXCEPT ![<<t, i>>] = r],
           r \subseteq granted'[o],
           \A x \in Objects : granted[x] \subseteq granted'[x],
           UNCHANGED <<generation, place, alive, op, born, stale>>
    PROVE  HInv'
  <1>0. HandleTypes
    BY HandleTyped DEF IInv
  <1>1. KeepOK' /\ StaleOK'
    BY DEF HInv, KeepOK, StaleOK, Advanced
  <1>2. RightsNeverGrow'
    <2> SUFFICES ASSUME NEW u \in Tasks, NEW j \in Index,
                        handle'[<<u, j>>] # None
                 PROVE  rights'[<<u, j>>] \subseteq granted'[handle'[<<u, j>>]]
      BY Zenon DEF RightsNeverGrow
    <2>1. <<t, i>> \in Slots /\ <<u, j>> \in Slots
      BY DEF Slots
    <2>2. CASE <<u, j>> = <<t, i>>
      BY <1>0, <2>1, <2>2 DEF HandleTypes
    <2>3. CASE <<u, j>> # <<t, i>>
      <3>1. /\ handle'[<<u, j>>] = handle[<<u, j>>]
            /\ rights'[<<u, j>>] = rights[<<u, j>>]
        BY <1>0, <2>1, <2>3 DEF HandleTypes
      <3>2. handle[<<u, j>>] \in Objects
        BY <1>0, <2>1, <3>1 DEF HandleTypes
      <3>3. rights[<<u, j>>] \subseteq granted[handle[<<u, j>>]]
        BY <3>1 DEF HInv, RightsNeverGrow
      <3> QED BY <3>1, <3>2, <3>3
    <2> QED BY <2>2, <2>3
  <1>3. ClosingOK'
    <2>1. ASSUME NEW d \in CPUs, op[d].fn = "close_all"
          PROVE  FALSE
      <3>1. d = c
        BY <2>1, SyscallAssumption, Zenon DEF HInv, ClosingOK
      <3> QED BY <2>1, <3>1 DEF Ready, Idle
    <2> QED BY <2>1 DEF ClosingOK
  <1>4. DeadTaskHasNoHandle'
    <2> SUFFICES ASSUME NEW u \in Tasks, ~alive'[u], NEW j \in Index
                 PROVE  handle'[<<u, j>>] = None
      BY DEF DeadTaskHasNoHandle
    <2>1. <<u, j>> \in Slots /\ <<u, j>> # <<t, i>>
      BY DEF Slots
    <2> QED BY <1>0, <2>1 DEF HandleTypes, HInv, DeadTaskHasNoHandle
  <1> QED BY <1>1, <1>2, <1>3, <1>4 DEF HInv

\* The generations of a slot after one more close.
LEMMA AdvancedNext ==
    ASSUME NEW g \in 1..GenMax, NEW n \in 1..GenMax, n + 1 < GenMax
    PROVE  NextGeneration(Advanced(g, n)) = Advanced(g, n + 1)
  BY ConstantsAssumption DEF NextGeneration, Advanced

\* The generation of a slot after the first close.
LEMMA AdvancedFirst ==
    ASSUME NEW g \in 1..GenMax, 1 < GenMax
    PROVE  NextGeneration(g) = Advanced(g, 1)
  BY ConstantsAssumption DEF NextGeneration, Advanced

\* Closing a slot moves its generation on by one, and the remembered handle
\* counts it.
LEMMA ClearStale ==
    ASSUME IInv, HInv, NEW c \in CPUs, NEW t \in Tasks, NEW i \in Index,
           ClearSlot(c, t, i)
    PROVE  StaleOK'
  <1> DEFINE g == generation[<<t, i>>]
  <1>0. HandleTypes
    BY HandleTyped DEF IInv
  <1>1. <<t, i>> \in Slots /\ g \in 1..GenMax
    BY <1>0 DEF Slots, HandleTypes
  <1>2. /\ generation'[<<t, i>>] = NextGeneration(g)
        /\ \A h \in Slots : h # <<t, i>> => generation'[h] = generation[h]
    BY <1>0, <1>1 DEF ClearSlot, HandleTypes
  <1>3. CASE stale' = [task |-> t, index |-> i, generation |-> g, closes |-> 1]
    BY <1>1, <1>2, <1>3, AdvancedFirst, Zenon DEF StaleOK
  <1>4. CASE /\ stale # None
             /\ stale.task = t /\ stale.index = i
             /\ stale.closes < GenMax
             /\ stale' = [task |-> t, index |-> i,
                          generation |-> stale.generation,
                          closes |-> stale.closes + 1]
    <2>1. stale.generation \in 1..GenMax /\ stale.closes \in 1..GenMax
      BY <1>4, StaleType DEF IInv
    <2>2. g = Advanced(stale.generation, stale.closes)
      BY <1>4 DEF HInv, StaleOK
    <2> QED BY <1>2, <1>4, <2>1, <2>2, AdvancedNext DEF StaleOK
  <1>5. CASE /\ ~ /\ stale # None
                  /\ stale.task = t /\ stale.index = i
                  /\ stale.closes < GenMax
             /\ stale' = stale
    <2> SUFFICES ASSUME stale # None, stale.closes < GenMax
                 PROVE  generation'[<<stale.task, stale.index>>] =
                          Advanced(stale.generation, stale.closes)
      BY <1>5 DEF StaleOK
    <2>1. <<stale.task, stale.index>> \in Slots
      BY StaleType DEF IInv, Slots
    <2>2. <<stale.task, stale.index>> # <<t, i>>
      BY <1>5
    <2> QED BY <1>2, <2>1, <2>2 DEF HInv, StaleOK
  <1> QED BY <1>3, <1>4, <1>5 DEF ClearSlot

\* Closing a slot, whatever the calls in progress become, as long as the ones
\* the closing CPU is in stay true.
LEMMA ClearHandles ==
    ASSUME IInv, HInv, NEW c \in CPUs, NEW t \in Tasks, NEW i \in Index,
           ClearSlot(c, t, i), UNCHANGED <<place, alive, born, granted>>,
           \/ UNCHANGED op
           \/ /\ op[c].fn = "close_all" /\ op[c].task = t /\ op[c].index = i
              /\ op' = [op EXCEPT ![c] = Closing(t, i, 0)]
    PROVE  HInv'
  <1>0. HandleTypes
    BY HandleTyped DEF IInv
  <1>1. <<t, i>> \in Slots
    BY DEF Slots
  <1>2. /\ handle'[<<t, i>>] = None
        /\ \A h \in Slots : h # <<t, i>> =>
              /\ handle'[h] = handle[h]
              /\ rights'[h] = rights[h]
              /\ generation'[h] = generation[h]
    BY <1>0, <1>1 DEF ClearSlot, HandleTypes
  <1>4. \A d \in CPUs : op'[d].fn = "revoke" => op'[d] = op[d]
    BY <1>0 DEF HandleTypes, Closing
  <1>5. KeepOK'
    BY <1>4 DEF HInv, KeepOK
  <1>6. RightsNeverGrow'
    <2> SUFFICES ASSUME NEW u \in Tasks, NEW j \in Index,
                        handle'[<<u, j>>] # None
                 PROVE  rights'[<<u, j>>] \subseteq granted'[handle'[<<u, j>>]]
      BY Zenon DEF RightsNeverGrow
    <2>1. <<u, j>> \in Slots
      BY DEF Slots
    <2>2. <<u, j>> # <<t, i>>
      BY <1>2
    <2> QED BY <1>2, <2>1, <2>2, Zenon DEF HInv, RightsNeverGrow
  <1>7. ClosingOK'
    <2> SUFFICES ASSUME NEW d \in CPUs, op'[d].fn = "close_all"
                 PROVE  /\ d \in SyscallCPUs
                        /\ \A j \in Index :
                              j < op'[d].index
                                \/ (j = op'[d].index /\ op'[d].value = 0) =>
                              handle'[<<op'[d].task, j>>] = None
                        /\ op'[d].value # 0 =>
                              \/ handle'[<<op'[d].task, op'[d].index>>] = None
                              \/ generation'[<<op'[d].task, op'[d].index>>]
                                   = op'[d].value
      BY DEF ClosingOK
    <2>1. CASE op'[d] = op[d]
      <3>1. op[d].task \in Tasks /\ (op[d].value # 0 => op[d].index \in Index)
        BY <2>1, ClosingType DEF IInv
      <3>2. d \in SyscallCPUs
        BY Zenon, <2>1 DEF HInv, ClosingOK
      <3>3. ASSUME NEW j \in Index,
                   j < op[d].index \/ (j = op[d].index /\ op[d].value = 0)
            PROVE  handle'[<<op[d].task, j>>] = None
        <4>1. <<op[d].task, j>> \in Slots
          BY <3>1 DEF Slots
        <4>2. handle[<<op[d].task, j>>] = None
          BY <2>1, <3>3, Zenon DEF HInv, ClosingOK
        <4> QED BY <1>2, <4>1, <4>2, Zenon
      <3>4. ASSUME op[d].value # 0
            PROVE  \/ handle'[<<op[d].task, op[d].index>>] = None
                   \/ generation'[<<op[d].task, op[d].index>>] = op[d].value
        <4>1. <<op[d].task, op[d].index>> \in Slots
          BY <3>1, <3>4 DEF Slots
        <4>2. \/ handle[<<op[d].task, op[d].index>>] = None
              \/ generation[<<op[d].task, op[d].index>>] = op[d].value
          BY <2>1, <3>4 DEF HInv, ClosingOK
        <4> QED BY <1>2, <4>1, <4>2
      <3> QED BY <2>1, <3>2, <3>3, <3>4
    <2>2. CASE op'[d] # op[d]
      <3>1. /\ d = c /\ op'[d] = Closing(t, i, 0)
            /\ op[d].fn = "close_all" /\ op[d].task = t /\ op[d].index = i
        BY <1>0, <2>2 DEF HandleTypes
      <3>2. op'[d].task = t /\ op'[d].index = i /\ op'[d].value = 0
        BY <3>1 DEF Closing
      <3>3. ASSUME NEW j \in Index, j < i \/ j = i
            PROVE  handle'[<<t, j>>] = None
        <4>1. <<t, j>> \in Slots
          BY DEF Slots
        <4>2. CASE j = i
          BY <1>2, <4>2
        <4>3. CASE j < i
          <5>1. handle[<<t, j>>] = None
            BY Zenon, <3>1, <4>3 DEF HInv, ClosingOK
          <5> QED BY <1>2, <4>1, <5>1
        <4> QED BY <3>3, <4>2, <4>3
      <3>4. d \in SyscallCPUs
        BY <3>1, Zenon DEF HInv, ClosingOK
      <3> QED BY <3>2, <3>3, <3>4
    <2> QED BY <2>1, <2>2, Zenon
  <1>8. DeadTaskHasNoHandle'
    <2> SUFFICES ASSUME NEW u \in Tasks, ~alive'[u], NEW j \in Index
                 PROVE  handle'[<<u, j>>] = None
      BY DEF DeadTaskHasNoHandle
    <2>1. <<u, j>> \in Slots
      BY DEF Slots
    <2> QED BY <1>2, <2>1 DEF HInv, DeadTaskHasNoHandle
  <1> QED BY <1>5, <1>6, <1>7, <1>8, ClearStale DEF HInv

\* A call in progress becomes another one while handles stay as they are.
LEMMA OpHandles ==
    ASSUME IInv, HInv, UNCHANGED <<handles, place, born, granted, stale>>,
           \A c \in CPUs : op'[c].fn = "revoke" /\ op'[c] # op[c] =>
               /\ op'[c].keep \in Places
               /\ op'[c].object \in Objects
               /\ place[op'[c].keep] = op'[c].object
               /\ born[op'[c].object] = op'[c].target,
           ClosingOK', DeadTaskHasNoHandle'
    PROVE  HInv'
  <1>1. KeepOK'
    BY DEF HInv, KeepOK
  <1>2. RightsNeverGrow'
    BY Zenon DEF HInv, RightsNeverGrow, handles
  <1>3. StaleOK'
    BY DEF HInv, StaleOK, handles, Advanced
  <1> QED BY <1>1, <1>2, <1>3 DEF HInv

\* handle_revoke_object starts with a variable that points to its object.
LEMMA RevokeHandles ==
    ASSUME IInv, HInv, NEW c \in CPUs, NEW p \in Places, HandleRevoke(c, p)
    PROVE  HInv'
  <1>0. HandleTypes
    BY HandleTyped DEF IInv
  <1>1. /\ op' = [op EXCEPT ![c] = Revoking(place[p], p)]
        /\ place[p] \in Objects
        /\ UNCHANGED <<handles, place, alive, born, granted, stale>>
    BY <1>0 DEF HandleRevoke, HandleTypes
  <1>2. /\ op'[c] = Revoking(place[p], p)
        /\ \A d \in CPUs : d # c => op'[d] = op[d]
    BY <1>0, <1>1 DEF HandleTypes
  <1>6. /\ op'[c].fn = "revoke" /\ op'[c].object = place[p]
        /\ op'[c].keep = p /\ op'[c].target = born[place[p]]
    BY <1>2 DEF Revoking
  <1>3. ClosingOK'
    <2>1. ASSUME NEW d \in CPUs, op'[d].fn = "close_all"
          PROVE  op'[d] = op[d]
      BY <1>2, <1>6, <2>1
    <2>2. UNCHANGED <<handle, generation>>
      BY <1>1 DEF handles
    <2>3. ClosingOK
      BY DEF HInv
    <2> QED BY Zenon, <2>1, <2>2, <2>3 DEF ClosingOK
  <1>4. DeadTaskHasNoHandle'
    BY Zenon, <1>1 DEF HInv, DeadTaskHasNoHandle, handles
  <1>5. \A d \in CPUs : op'[d].fn = "revoke" /\ op'[d] # op[d] =>
               /\ op'[d].keep \in Places
               /\ op'[d].object \in Objects
               /\ place[op'[d].keep] = op'[d].object
               /\ born[op'[d].object] = op'[d].target
    <2>1. \A d \in CPUs : op'[d] # op[d] => d = c
      BY <1>2
    <2> QED BY Zenon, <1>1, <1>6, <2>1
  <1> QED BY <1>1, <1>3, <1>4, <1>5, OpHandles

\* The loop of handle_close_all starts before the first slot.
LEMMA ExitHandles ==
    ASSUME IInv, HInv, NEW c \in CPUs, NEW t \in Tasks, TaskExit(c, t)
    PROVE  HInv'
  <1>0. HandleTypes
    BY HandleTyped DEF IInv
  <1>1. /\ op' = [op EXCEPT ![c] = Closing(t, 0, 0)]
        /\ c \in SyscallCPUs
        /\ UNCHANGED <<handles, place, alive, born, granted, stale>>
    BY DEF TaskExit
  <1>2. /\ op'[c] = Closing(t, 0, 0)
        /\ \A d \in CPUs : d # c => op'[d] = op[d]
    BY <1>0, <1>1 DEF HandleTypes
  <1>3. \A j \in Index : ~(j < 0 \/ j = 0)
    BY DEF Index
  <1>4. ClosingOK'
    BY <1>1, <1>2, <1>3 DEF HInv, ClosingOK, Closing, handles
  <1>5. DeadTaskHasNoHandle'
    BY <1>1 DEF HInv, DeadTaskHasNoHandle, handles
  <1>6. \A d \in CPUs : op'[d].fn = "revoke" => op'[d] = op[d]
    BY <1>2 DEF Closing
  <1> QED BY <1>1, <1>4, <1>5, <1>6, OpHandles

\* A new task finds the table its predecessor left empty.
LEMMA CreateTaskHandles ==
    ASSUME IInv, HInv, NEW c \in CPUs, NEW t \in Tasks, TaskCreate(c, t)
    PROVE  HInv'
  <1>0. HandleTypes
    BY HandleTyped DEF IInv
  <1>1. /\ alive' = [alive EXCEPT ![t] = TRUE]
        /\ UNCHANGED <<handles, op, place, born, granted, stale>>
    BY DEF TaskCreate
  <1>2. ClosingOK'
    BY <1>1 DEF HInv, ClosingOK, handles
  <1>3. DeadTaskHasNoHandle'
    BY <1>0, <1>1 DEF HInv, DeadTaskHasNoHandle, handles, HandleTypes
  <1> QED BY <1>1, <1>2, <1>3, OpHandles

\* The loop reads the next slot; past the last one the table is empty and the
\* task is gone.
LEMMA ReadHandles ==
    ASSUME IInv, HInv, NEW c \in CPUs, HandleCloseAllRead(c)
    PROVE  HInv'
  <1> DEFINE t == op[c].task
             i == op[c].index + 1
             v == IF handle[<<t, i>>] = None THEN 0 ELSE generation[<<t, i>>]
  <1>0. HandleTypes
    BY HandleTyped DEF IInv
  <1>1. /\ op[c].fn = "close_all" /\ op[c].value = 0
        /\ UNCHANGED <<handles, place, born, granted, stale>>
    BY DEF HandleCloseAllRead
  <1>2. t \in Tasks /\ op[c].index \in 0..KHANDLE_MAX
    BY <1>1, ClosingType DEF IInv
  <1>3. /\ c \in SyscallCPUs
        /\ \A j \in Index : j <= op[c].index => handle[<<t, j>>] = None
    <2>1. \A j \in Index : j <= op[c].index =>
             j < op[c].index \/ (j = op[c].index /\ op[c].value = 0)
      BY <1>1, <1>2 DEF Index
    <2> QED BY Zenon, <1>1, <2>1 DEF HInv, ClosingOK
  <1>4. CASE i \in Index
    <2>1. op' = [op EXCEPT ![c] = Closing(t, i, v)] /\ UNCHANGED alive
      BY <1>4 DEF HandleCloseAllRead
    <2>2. /\ op'[c] = Closing(t, i, v)
          /\ \A d \in CPUs : d # c => op'[d] = op[d]
      BY <1>0, <2>1 DEF HandleTypes
    <2>3. <<t, i>> \in Slots /\ generation[<<t, i>>] \in 1..GenMax
      BY <1>0, <1>2, <1>4 DEF Slots, HandleTypes
    <2>4. /\ v = 0 => handle[<<t, i>>] = None
          /\ v # 0 => v = generation[<<t, i>>]
      BY <2>3
    <2>5. \A j \in Index : j < i => j <= op[c].index
      BY <1>2 DEF Index
    <2> HIDE DEF v
    <2>6. ASSUME NEW d \in CPUs, op'[d].fn = "close_all"
          PROVE  /\ d \in SyscallCPUs
                 /\ \A j \in Index :
                       j < op'[d].index
                         \/ (j = op'[d].index /\ op'[d].value = 0) =>
                       handle'[<<op'[d].task, j>>] = None
                 /\ op'[d].value # 0 =>
                       \/ handle'[<<op'[d].task, op'[d].index>>] = None
                       \/ generation'[<<op'[d].task, op'[d].index>>]
                            = op'[d].value
      <3>1. CASE d = c
        <4>1. op'[d].task = t /\ op'[d].index = i /\ op'[d].value = v
          BY <2>2, <3>1 DEF Closing
        <4>2. \A j \in Index : j < i \/ (j = i /\ v = 0) =>
                 handle[<<t, j>>] = None
          BY <1>3, <2>4, <2>5
        <4> QED BY <1>1, <1>3, <2>4, <3>1, <4>1, <4>2 DEF handles
      <3>2. CASE d # c
        BY Zenon, <1>1, <2>2, <2>6, <3>2 DEF HInv, ClosingOK, handles
      <3> QED BY <3>1, <3>2
    <2>7. ClosingOK'
      BY <2>6 DEF ClosingOK
    <2>8. DeadTaskHasNoHandle'
      BY <1>1, <2>1 DEF HInv, DeadTaskHasNoHandle, handles
    <2>9. \A d \in CPUs : op'[d].fn = "revoke" => op'[d] = op[d]
      BY <2>2 DEF Closing
    <2> QED BY <1>1, <2>7, <2>8, <2>9, OpHandles
  <1>5. CASE i \notin Index
    <2>1. /\ op' = [op EXCEPT ![c] = Idle]
          /\ alive' = [alive EXCEPT ![t] = FALSE]
      BY <1>5 DEF HandleCloseAllRead
    <2>2. /\ op'[c] = Idle
          /\ \A d \in CPUs : d # c => op'[d] = op[d]
      BY <1>0, <2>1 DEF HandleTypes
    <2>3. \A j \in Index : handle[<<t, j>>] = None
      <3>1. \A j \in Index : j <= op[c].index
        BY <1>2, <1>5, ConstantsAssumption DEF Index
      <3> QED BY <1>3, <3>1
    <2>4. ClosingOK'
      BY <1>1, <2>2 DEF HInv, ClosingOK, handles, Idle
    <2>5. DeadTaskHasNoHandle'
      BY <1>0, <1>1, <2>1, <2>3
         DEF HInv, DeadTaskHasNoHandle, handles, HandleTypes
    <2>6. \A d \in CPUs : op'[d].fn = "revoke" => op'[d] = op[d]
      BY <2>2 DEF Idle
    <2> QED BY <1>1, <2>4, <2>5, <2>6, OpHandles
  <1> QED BY <1>4, <1>5

\* handle_close under the lock: the slot is closed if it still holds the value
\* the loop read, and otherwise a revoke was there first and it is empty.
LEMMA CloseHandles ==
    ASSUME IInv, HInv, NEW c \in CPUs, HandleCloseAllClose(c)
    PROVE  HInv'
  <1> DEFINE t == op[c].task
             i == op[c].index
  <1>0. HandleTypes
    BY HandleTyped DEF IInv
  <1>1. /\ op[c].fn = "close_all" /\ op[c].value # 0
        /\ op' = [op EXCEPT ![c] = Closing(t, i, 0)]
        /\ UNCHANGED <<place, alive, born, granted>>
    BY Zenon DEF HandleCloseAllClose
  <1>2. t \in Tasks /\ i \in Index
    BY <1>1, ClosingType DEF IInv
  <1>3. CASE handle[<<t, i>>] # None /\ generation[<<t, i>>] = op[c].value
    <2>1. ClearSlot(c, t, i)
      BY Zenon, <1>3 DEF HandleCloseAllClose
    <2> QED BY Zenon, <1>1, <1>2, <2>1, ClearHandles
  <1>4. CASE ~(handle[<<t, i>>] # None /\ generation[<<t, i>>] = op[c].value)
    <2>1. UNCHANGED <<handles, stale>>
      BY <1>4, Zenon DEF HandleCloseAllClose
    <2>2. handle[<<t, i>>] = None
      BY Zenon, <1>1, <1>4 DEF HInv, ClosingOK
    <2>3. /\ op'[c] = Closing(t, i, 0)
          /\ \A d \in CPUs : d # c => op'[d] = op[d]
      BY <1>0, <1>1 DEF HandleTypes
    <2>4. \A j \in Index : j < i => handle[<<t, j>>] = None
      BY Zenon, <1>1 DEF HInv, ClosingOK
    <2>5. ASSUME NEW d \in CPUs, op'[d].fn = "close_all"
          PROVE  /\ d \in SyscallCPUs
                 /\ \A j \in Index :
                       j < op'[d].index
                         \/ (j = op'[d].index /\ op'[d].value = 0) =>
                       handle'[<<op'[d].task, j>>] = None
                 /\ op'[d].value # 0 =>
                       \/ handle'[<<op'[d].task, op'[d].index>>] = None
                       \/ generation'[<<op'[d].task, op'[d].index>>]
                            = op'[d].value
      <3>1. CASE d = c
        <4>1. op'[d].task = t /\ op'[d].index = i /\ op'[d].value = 0
          BY <2>3, <3>1 DEF Closing
        <4>2. d \in SyscallCPUs
          BY Zenon, <1>1, <3>1 DEF HInv, ClosingOK
        <4> QED BY <2>1, <2>2, <2>4, <4>1, <4>2 DEF handles
      <3>2. CASE d # c
        BY Zenon, <2>1, <2>3, <2>5, <3>2 DEF HInv, ClosingOK, handles
      <3> QED BY <3>1, <3>2
    <2>6. ClosingOK'
      BY <2>5 DEF ClosingOK
    <2>7. DeadTaskHasNoHandle'
      BY <1>1, <2>1 DEF HInv, DeadTaskHasNoHandle, handles
    <2>8. \A d \in CPUs : op'[d].fn = "revoke" => op'[d] = op[d]
      BY <2>3 DEF Closing
    <2> QED BY Zenon, <1>1, <2>1, <2>6, <2>7, <2>8, OpHandles
  <1> QED BY <1>3, <1>4

\* A pass of a revoke closes a slot, or finds none and ends.
LEMMA PassHandles ==
    ASSUME IInv, HInv, NEW c \in CPUs, HandleRevokePass(c)
    PROVE  HInv'
  <1>0. HandleTypes
    BY HandleTyped DEF IInv
  <1>1. UNCHANGED <<place, alive, born, granted>>
    BY DEF HandleRevokePass
  <1>2. CASE \E t \in Tasks, i \in Index : ClearSlot(c, t, i) /\ UNCHANGED op
    BY <1>1, <1>2, ClearHandles
  <1>3. CASE op' = [op EXCEPT ![c] = Idle] /\ UNCHANGED <<handles, pend, stale>>
    <2>1. /\ op'[c] = Idle
          /\ \A d \in CPUs : d # c => op'[d] = op[d]
      BY <1>0, <1>3 DEF HandleTypes
    <2>2. ClosingOK'
      BY <1>3, <2>1 DEF HInv, ClosingOK, handles, Idle
    <2>3. DeadTaskHasNoHandle'
      BY Zenon, <1>1, <1>3 DEF HInv, DeadTaskHasNoHandle, handles
    <2>4. \A d \in CPUs : op'[d].fn = "revoke" => op'[d] = op[d]
      BY <2>1 DEF Idle
    <2> QED BY <1>1, <1>3, <2>2, <2>3, <2>4, OpHandles
  <1> QED BY Zenon, <1>2, <1>3 DEF HandleRevokePass

\* object_init leaves no handle and no call.
LEMMA InitHandles == Init => HInv
  BY DEF Init, HInv, KeepOK, RightsNeverGrow, StaleOK, ClosingOK,
         DeadTaskHasNoHandle, Idle, Slots

\* Every step of every CPU keeps the invariant of the handles.
LEMMA NextHandles == IInv /\ HInv /\ [Next]_vars => HInv'
  <1> SUFFICES ASSUME IInv, HInv, [Next]_vars PROVE HInv'
    OBVIOUS
  <1>0. HandleTypes
    BY HandleTyped DEF IInv
  <1>1. ASSUME NEW c \in CPUs, NEW p \in Places, NEW q \in Places,
               \/ ObjectCreate(c, p) \/ ObjectReleaseCall(c, p)
               \/ HandleRevoke(c, p) \/ ObjectRetain(c, p, q)
        PROVE  HInv'
    BY <1>1, CreateHandles, ReleaseCallHandles, RevokeHandles, RetainHandles
  <1>2. ASSUME NEW c \in CPUs, NEW t \in Tasks, NEW p \in Places,
               NEW r \in SUBSET Rights, HandleOpen(c, t, p, r)
        PROVE  HInv'
    <2>1. PICK i \in Index :
             /\ handle' = [handle EXCEPT ![<<t, i>>] = place[p]]
             /\ rights' = [rights EXCEPT ![<<t, i>>] = r]
      BY Zenon, <1>2 DEF HandleOpen
    <2>2. /\ Ready(c) /\ c \in SyscallCPUs /\ alive[t]
          /\ place[p] \in Objects
          /\ granted' = [granted EXCEPT ![place[p]] = @ \cup r]
          /\ UNCHANGED <<generation, place, alive, op, born, stale>>
      BY <1>0, <1>2 DEF HandleOpen, HandleTypes
    <2>3. /\ r \subseteq granted'[place[p]]
          /\ \A x \in Objects : granted[x] \subseteq granted'[x]
      BY <1>0, <2>2 DEF HandleTypes
    <2> QED BY Zenon, <2>1, <2>2, <2>3, FillHandles
  <1>3. ASSUME NEW c \in CPUs, NEW s \in Tasks, NEW t \in Tasks,
               NEW k \in Index, NEW r \in SUBSET Rights,
               HandleDuplicate(c, s, k, t, r)
        PROVE  HInv'
    <2> DEFINE x == handle[<<s, k>>]
    <2>1. PICK i \in Index :
             /\ handle' = [handle EXCEPT ![<<t, i>>] = x]
             /\ rights' = [rights EXCEPT ![<<t, i>>] = r]
      BY Zenon, <1>3 DEF HandleDuplicate
    <2>2. <<s, k>> \in Slots
      BY DEF Slots
    <2>3. /\ Ready(c) /\ c \in SyscallCPUs /\ alive[t]
          /\ x \in Objects /\ r \subseteq rights[<<s, k>>]
          /\ UNCHANGED <<generation, place, alive, op, born, granted, stale>>
      BY <1>0, <1>3, <2>2 DEF HandleDuplicate, HandleTypes
    <2>4. r \subseteq granted[x]
      BY <1>3, <2>3 DEF HInv, RightsNeverGrow, HandleDuplicate
    <2> HIDE DEF x
    <2> QED BY Zenon, <2>1, <2>3, <2>4, FillHandles
  <1>4. ASSUME NEW c \in CPUs, NEW t \in Tasks, NEW i \in Index,
               HandleClose(c, t, i)
        PROVE  HInv'
    BY <1>4, ClearHandles DEF HandleClose
  <1>5. ASSUME NEW c \in CPUs, NEW t \in Tasks,
               TaskExit(c, t) \/ TaskCreate(c, t)
        PROVE  HInv'
    BY <1>5, ExitHandles, CreateTaskHandles
  <1>6. ASSUME NEW c \in CPUs, Continue(c)
        PROVE  HInv'
    BY <1>6, ReleaseHandles, PassHandles, ReadHandles, CloseHandles DEF Continue
  <1>7. CASE UNCHANGED vars
    BY <1>7, PlacesHandles DEF vars, handles
  <1> QED BY Zenon, <1>1, <1>2, <1>3, <1>4, <1>5, <1>6, <1>7 DEF Next

\* The inductive invariant of the handles: a revoke keeps the variable it was
\* called through, the remembered handle is as many generations behind as its
\* slot was closed, and handle_close_all leaves empty slots behind it.
THEOREM HandlesInvariant == Spec => [](IInv /\ HInv)
  BY InitInv, NextInv, InitHandles, NextHandles, PTL DEF Spec

\* handle_open, handle_duplicate, handle_close, handle_revoke_object and
\* handle_close_all keep what a handle means, for any number of processors,
\* tasks and handles and any generation limit.
THEOREM HandlesStaySound == Spec => []HandlesSound
  <1>1. IInv /\ HInv => HandlesSound
    <2> SUFFICES ASSUME IInv, HInv PROVE HandlesSound
      OBVIOUS
    <2>1. StaleHandleStaysDead
      <3> SUFFICES ASSUME stale # None, stale.closes < GenMax
                   PROVE  generation[<<stale.task, stale.index>>]
                            # stale.generation
        BY DEF StaleHandleStaysDead
      <3>1. stale.generation \in 1..GenMax /\ stale.closes \in 1..GenMax
        BY StaleType DEF IInv
      <3> QED BY <3>1, ConstantsAssumption DEF HInv, StaleOK, Advanced
    <2>2. RevokeHitsItsObject
      BY DEF HInv, KeepOK, RevokeHitsItsObject
    <2> QED BY <2>1, <2>2 DEF HInv, IInv, HandlesSound
  <1> QED BY <1>1, HandlesInvariant, PTL
============================================================================
