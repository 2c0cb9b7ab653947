----------------------------- MODULE HeapProofs -----------------------------
(***************************************************************************)
(* Frames and the heaps of address spaces, for any number of each: every   *)
(* reference is counted exactly, and a shared heap page is never seen to    *)
(* be shared.                                                              *)
(***************************************************************************)
EXTENDS Memory, FiniteSetTheorems, TLAPS

-----------------------------------------------------------------------------
(* Counting.                                                                  *)

\* A part of a finite set that goes is subtracted from its size.
LEMMA CardPart ==
    ASSUME NEW S, IsFiniteSet(S), NEW T \in SUBSET S
    PROVE  /\ IsFiniteSet(T) /\ IsFiniteSet(S \ T)
           /\ Cardinality(T) \in Nat /\ Cardinality(S) \in Nat /\ Cardinality(S \ T) \in Nat
           /\ Cardinality(S \ T) = Cardinality(S) - Cardinality(T)
  <1>1. S \cap T = T
    OBVIOUS
  <1>2. IsFiniteSet(T)
    BY FS_Subset
  <1>3. IsFiniteSet(S \ T) /\ Cardinality(S \ T) = Cardinality(S) - Cardinality(T)
    BY <1>1, FS_Difference
  <1>4. QED
    BY <1>2, <1>3, FS_CardinalityType

\* Two finite sets that share nothing: the sizes add up.
LEMMA CardDisjoint ==
    ASSUME NEW S, IsFiniteSet(S), NEW T, IsFiniteSet(T), S \cap T = {}
    PROVE  /\ IsFiniteSet(S \cup T)
           /\ Cardinality(S) \in Nat /\ Cardinality(T) \in Nat
           /\ Cardinality(S \cup T) = Cardinality(S) + Cardinality(T)
  <1>1. Cardinality(S) \in Nat /\ Cardinality(T) \in Nat
    BY FS_CardinalityType
  <1>2. /\ IsFiniteSet(S \cup T)
        /\ Cardinality(S \cup T) = Cardinality(S) + Cardinality(T) - Cardinality({})
    BY FS_Union
  <1>3. QED
    BY <1>1, <1>2, FS_EmptySet

\* Pairs with the same first part are as many as their second parts.
LEMMA CardColumn ==
    ASSUME NEW a, NEW I, IsFiniteSet(I), NEW C,
           \A k : k \in C <=> \E i \in I : k = <<a, i>>
    PROVE  IsFiniteSet(C) /\ Cardinality(C) = Cardinality(I)
  <1> DEFINE h == [i \in I |-> <<a, i>>]
  <1>1. h \in [I -> C]
    OBVIOUS
  <1>2. \A i, j \in I : h[i] = h[j] => i = j
    OBVIOUS
  <1>3. \A k \in C : \E i \in I : h[i] = k
    OBVIOUS
  <1>4. h \in Bijection(I, C)
    BY <1>1, <1>2, <1>3 DEF Bijection, Injection, Surjection, IsInjective
  <1>5. ExistsBijection(I, C)
    BY <1>4 DEF ExistsBijection
  <1>6. QED
    BY <1>5, FS_Bijection

\* pmm_alloc_page, n times, answers with n different free frames.
LEMMA AllocPages ==
    ASSUME NEW F, NEW n \in Nat, Cardinality(FreeFrames(F)) >= n
    PROVE  /\ pmm_alloc_pages(F, n) \in [1 .. n -> FreeFrames(F)]
           /\ \A i, j \in 1 .. n :
                pmm_alloc_pages(F, n)[i] = pmm_alloc_pages(F, n)[j] => i = j
  \* A list of n different elements exists in a set that has as many.
  <1>DistinctExists. ASSUME NEW S, IsFiniteSet(S), NEW n0 \in Nat, Cardinality(S) >= n0
        PROVE  Distinct(S, n0) # {}
    <2> USE <1>DistinctExists
    <2>1. Cardinality(S) \in Nat /\ ExistsBijection(1 .. Cardinality(S), S)
      BY FS_CardinalityType
    <2>2. PICK b \in Bijection(1 .. Cardinality(S), S) : TRUE
      BY <2>1 DEF ExistsBijection
    <2>3. /\ b \in [1 .. Cardinality(S) -> S]
          /\ \A i, j \in 1 .. Cardinality(S) : b[i] = b[j] => i = j
      BY <2>2 DEF Bijection, Injection, IsInjective
    <2> DEFINE q == [i \in 1 .. n0 |-> b[i]]
    <2>4. \A i \in 1 .. n0 : i \in 1 .. Cardinality(S)
      BY <2>1
    <2>5. q \in [1 .. n0 -> S]
      BY <2>3, <2>4
    <2>6. \A i, j \in 1 .. n0 : q[i] = q[j] => i = j
      BY <2>3, <2>4
    <2>7. q \in Distinct(S, n0)
      BY <2>5, <2>6 DEF Distinct
    <2>8. QED
      BY <2>7
  <1>1. IsFiniteSet(FreeFrames(F))
    BY MemoryAssumption, FS_Subset DEF FreeFrames
  <1>2. Distinct(FreeFrames(F), n) # {}
    BY <1>1, <1>DistinctExists
  <1>3. pmm_alloc_pages(F, n) \in Distinct(FreeFrames(F), n)
    BY <1>2 DEF pmm_alloc_pages, Some
  <1>4. QED
    BY <1>3 DEF Distinct

-----------------------------------------------------------------------------
(* The inductive invariant.                                                   *)

Entry == [f : Frames \cup {0}, w : BOOLEAN, cow : BOOLEAN]
FrameType == frame \in [Frames -> [refs : Nat, data : Values]]
SpaceType == space \in [Spaces -> [on : BOOLEAN, pte : [Pages -> Entry]]]
MemType == mem \in [Spaces -> [Pages -> Values]]

\* A heap is filled from its first page on; a space that is off maps nothing.
Filled(pte) == \E k \in {0} \cup Pages : \A v \in Pages : pte[v].f # 0 <=> v <= k
HeapShape ==
    \A s \in Spaces :
      /\ Filled(space[s].pte)
      /\ ~space[s].on => \A v \in Pages : space[s].pte[v].f = 0

\* Nobody shares a page that is writable.
WritableIsSole ==
    \A s, t \in Spaces, v, u \in Pages :
      /\ space[s].pte[v].w /\ space[s].pte[v].f # 0
      /\ space[t].pte[u].f = space[s].pte[v].f
      => s = t /\ v = u

\* A page that is not mapped yet will read as zero.
UnmappedIsBlank ==
    \A s \in Spaces, v \in Pages : space[s].pte[v].f = 0 => mem[s][v] = 0

HeapInv ==
    /\ FrameType /\ SpaceType /\ MemType
    /\ HeapShape /\ WritableIsSole /\ UnmappedIsBlank
    /\ FrameRefsExact /\ CowIsolated

-----------------------------------------------------------------------------
(* Frames.                                                                    *)

\* The sets that are counted are finite.
LEMMA SlotsFinite ==
    ASSUME NEW P, NEW f
    PROVE  /\ IsFiniteSet(HeapSlots(P, f)) /\ Cardinality(HeapSlots(P, f)) \in Nat
           /\ IsFiniteSet(PageSlots(P, f)) /\ Cardinality(PageSlots(P, f)) \in Nat
  <1>1. IsFiniteSet(1 .. PagesMax)
    BY MemoryAssumption, FS_Interval
  <1>2. IsFiniteSet(Spaces \X Pages) /\ IsFiniteSet(Objs \X (1 .. PagesMax))
    BY <1>1, MemoryAssumption, FS_Product, Zenon
  <1>3. HeapSlots(P, f) \subseteq Spaces \X Pages /\ PageSlots(P, f) \subseteq Objs \X (1 .. PagesMax)
    BY DEF HeapSlots, PageSlots
  <1>4. IsFiniteSet(HeapSlots(P, f)) /\ IsFiniteSet(PageSlots(P, f))
    BY <1>2, <1>3, FS_Subset
  <1>5. QED
    BY <1>4, FS_CardinalityType

\* A free frame is in no heap and no object; a frame somewhere is not free.
LEMMA FreeUnused ==
    ASSUME FrameType, FrameRefsExact, NEW f \in Frames
    PROVE  frame[f].refs = 0 <=> HeapSlots(space, f) = {} /\ PageSlots(obj, f) = {}
  <1>1. /\ Cardinality(HeapSlots(space, f)) \in Nat /\ Cardinality(PageSlots(obj, f)) \in Nat
        /\ IsFiniteSet(HeapSlots(space, f)) /\ IsFiniteSet(PageSlots(obj, f))
    BY SlotsFinite
  <1>2. frame[f].refs = Cardinality(HeapSlots(space, f)) + Cardinality(PageSlots(obj, f))
    BY DEF FrameRefsExact
  <1>3. /\ Cardinality(HeapSlots(space, f)) = 0 <=> HeapSlots(space, f) = {}
        /\ Cardinality(PageSlots(obj, f)) = 0 <=> PageSlots(obj, f) = {}
    BY <1>1, FS_EmptySet
  <1>4. QED
    BY <1>1, <1>2, <1>3

\* A mapped page is a slot of its frame, which is not free.
LEMMA MappedUsed ==
    ASSUME FrameType, SpaceType, FrameRefsExact,
           NEW s \in Spaces, NEW v \in Pages, space[s].pte[v].f # 0
    PROVE  /\ space[s].pte[v].f \in Frames
           /\ <<s, v>> \in HeapSlots(space, space[s].pte[v].f)
           /\ frame[space[s].pte[v].f].refs \in Nat \ {0}
  <1>1. space[s].pte[v].f \in Frames
    BY DEF SpaceType, Entry
  <1>2. <<s, v>> \in HeapSlots(space, space[s].pte[v].f)
    BY DEF HeapSlots
  <1>3. frame[space[s].pte[v].f].refs # 0
    BY <1>1, <1>2, FreeUnused
  <1>4. QED
    BY <1>1, <1>2, <1>3 DEF FrameType

\* No heap page maps a free frame.
LEMMA FreeUnmapped ==
    ASSUME HeapInv, NEW f \in FreeFrames(frame)
    PROVE  /\ \A t \in Spaces, u \in Pages : space[t].pte[u].f # f
           /\ HeapSlots(space, f) = {} /\ PageSlots(obj, f) = {}
  <1>1. f \in Frames /\ frame[f].refs = 0
    BY DEF FreeFrames
  <1>2. HeapSlots(space, f) = {} /\ PageSlots(obj, f) = {}
    BY <1>1, FreeUnused DEF HeapInv
  <1>3. ASSUME NEW t \in Spaces, NEW u \in Pages, space[t].pte[u].f = f
        PROVE  FALSE
    <2>1. <<t, u>> \in HeapSlots(space, f)
      BY <1>3 DEF HeapSlots
    <2>2. QED
      BY <1>2, <2>1
  <1>4. QED
    BY <1>2, <1>3

\* What an object does to frames leaves the heaps as they are, if it keeps the
\* counts and touches no frame in use.
LEMMA HeapKept ==
    ASSUME HeapInv, UNCHANGED <<space, mem>>, FrameType', FrameRefsExact',
           \A f \in Frames : frame[f].refs # 0 => frame'[f].data = frame[f].data
    PROVE  HeapInv'
  <1>1. CowIsolated'
    <2> SUFFICES ASSUME NEW s \in Spaces, NEW v \in Pages, space[s].pte[v].f # 0
                 PROVE  frame'[space[s].pte[v].f].data = mem[s][v]
      BY DEF HeapInv, CowIsolated
    <2>1. space[s].pte[v].f \in Frames /\ frame[space[s].pte[v].f].refs # 0
      BY MappedUsed, Zenon DEF HeapInv
    <2>2. QED
      BY <2>1 DEF HeapInv, CowIsolated
  <1>2. SpaceType' /\ MemType' /\ HeapShape' /\ WritableIsSole' /\ UnmappedIsBlank'
    BY DEF HeapInv, SpaceType, MemType, HeapShape, WritableIsSole, UnmappedIsBlank
  <1>3. QED
    BY <1>1, <1>2 DEF HeapInv

\* The pages of the objects in D go with them.
LEMMA SlotsFreed ==
    ASSUME NEW O, NEW Q, NEW D, NEW f,
           \A o \in Objs : Q[o].fs = IF o \in D THEN <<>> ELSE O[o].fs
    PROVE  /\ Cardinality(DeadSlots(O, D, f)) \in Nat
           /\ Cardinality(PageSlots(Q, f)) =
                Cardinality(PageSlots(O, f)) - Cardinality(DeadSlots(O, D, f))
  <1>1. PageSlots(Q, f) = PageSlots(O, f) \ DeadSlots(O, D, f)
    BY DEF PageSlots, DeadSlots
  <1>2. DeadSlots(O, D, f) \in SUBSET PageSlots(O, f)
    BY DEF DeadSlots
  <1>3. IsFiniteSet(PageSlots(O, f))
    BY SlotsFinite
  <1>4. QED
    BY <1>1, <1>2, <1>3, CardPart

\* Objects in D are destroyed: their frames are freed.
LEMMA FramesFreed ==
    ASSUME HeapInv, UNCHANGED <<space, mem>>, NEW D,
           \A o \in Objs : obj'[o].fs = IF o \in D THEN <<>> ELSE obj[o].fs,
           frame' = FreePages(frame, obj, D)
    PROVE  HeapInv'
  <1>1. ASSUME NEW f \in Frames
        PROVE  /\ frame'[f].data = frame[f].data
               /\ frame'[f] \in [refs : Nat, data : Values]
               /\ frame'[f].refs = Cardinality(HeapSlots(space', f)) + Cardinality(PageSlots(obj', f))
    <2>1. /\ Cardinality(DeadSlots(obj, D, f)) \in Nat
          /\ Cardinality(PageSlots(obj', f)) =
               Cardinality(PageSlots(obj, f)) - Cardinality(DeadSlots(obj, D, f))
      BY SlotsFreed
    <2>2. frame'[f] = [refs |-> frame[f].refs - Cardinality(DeadSlots(obj, D, f)),
                       data |-> frame[f].data]
      BY <1>1 DEF FreePages
    <2>3. frame[f].refs \in Nat /\ frame[f].data \in Values
      BY <1>1 DEF HeapInv, FrameType
    <2>4. frame[f].refs = Cardinality(HeapSlots(space, f)) + Cardinality(PageSlots(obj, f))
      BY <1>1 DEF HeapInv, FrameRefsExact
    <2>5. Cardinality(HeapSlots(space, f)) \in Nat /\ Cardinality(PageSlots(obj', f)) \in Nat
          /\ Cardinality(PageSlots(obj, f)) \in Nat
      BY SlotsFinite
    <2>6. QED
      BY <2>1, <2>2, <2>3, <2>4, <2>5
  <1>2. FrameType'
    BY <1>1 DEF FrameType, FreePages
  <1>3. FrameRefsExact'
    BY <1>1 DEF FrameRefsExact
  <1>4. QED
    BY <1>1, <1>2, <1>3, HeapKept

\* Where the elements of a concatenation come from.
Joined(a, b) ==
    /\ Len(a \o b) = Len(a) + Len(b)
    /\ DOMAIN (a \o b) = 1 .. (Len(a) + Len(b))
    /\ \A i \in 1 .. Len(a) : i \in 1 .. (Len(a) + Len(b)) /\ (a \o b)[i] = a[i]
    /\ \A i \in 1 .. Len(b) :
         Len(a) + i \in 1 .. (Len(a) + Len(b)) /\ (a \o b)[Len(a) + i] = b[i]
    /\ \A j \in 1 .. (Len(a) + Len(b)) :
         j \in 1 .. Len(a) \/ (j - Len(a) \in 1 .. Len(b) /\ j = Len(a) + (j - Len(a)))

\* Concatenation takes first the one, then the other.
LEMMA Concatenated ==
    ASSUME NEW S, NEW a \in Seq(S), NEW b \in Seq(S)
    PROVE  a \o b \in Seq(S) /\ Joined(a, b)
  <1>1. a \o b \in Seq(S) /\ Len(a \o b) = Len(a) + Len(b)
    OBVIOUS
  <1>2. DOMAIN (a \o b) = 1 .. (Len(a) + Len(b))
    BY <1>1
  <1>3. Len(a) \in Nat /\ Len(b) \in Nat
    OBVIOUS
  <1>4. \A i \in 1 .. Len(a) : i \in 1 .. (Len(a) + Len(b)) /\ (a \o b)[i] = a[i]
    OBVIOUS
  <1>5. \A i \in 1 .. Len(b) : Len(a) + i \in 1 .. (Len(a) + Len(b))
    BY <1>3
  <1>6. \A i \in 1 .. Len(b) : (a \o b)[Len(a) + i] = b[i]
    OBVIOUS
  <1>7. \A j \in 1 .. (Len(a) + Len(b)) :
          j \in 1 .. Len(a) \/ (j - Len(a) \in 1 .. Len(b) /\ j = Len(a) + (j - Len(a)))
    BY <1>3
  <1>8. QED
    BY <1>1, <1>2, <1>4, <1>5, <1>6, <1>7 DEF Joined

\* Frames that were free go to the end of an object: one holder each.
LEMMA PagesTaken ==
    ASSUME HeapInv, UNCHANGED <<space, mem>>, NEW o \in Objs, NEW n \in Nat,
           NEW fs \in [1 .. n -> FreeFrames(frame)],
           \A i, j \in 1 .. n : fs[i] = fs[j] => i = j,
           obj[o].fs \in Seq(Frames), obj'[o].fs = obj[o].fs \o fs,
           Len(obj[o].fs) + n <= PagesMax,
           \A p \in Objs \ {o} : obj'[p].fs = obj[p].fs,
           frame' = Taken(frame, fs)
    PROVE  HeapInv'
  <1> DEFINE len == Len(obj[o].fs)
  <1>1. fs \in Seq(Frames) /\ Len(fs) = n /\ len \in Nat /\ DOMAIN fs = 1 .. n
    BY DEF FreeFrames
  <1>2. /\ DOMAIN obj'[o].fs = 1 .. (len + n)
        /\ \A i \in 1 .. len : i \in 1 .. (len + n) /\ obj'[o].fs[i] = obj[o].fs[i]
        /\ \A i \in 1 .. n : len + i \in 1 .. (len + n) /\ obj'[o].fs[len + i] = fs[i]
        /\ \A j \in 1 .. (len + n) : j \in 1 .. len \/ (j - len \in 1 .. n /\ j = len + (j - len))
        /\ DOMAIN obj[o].fs = 1 .. len
    <2> DEFINE a == obj[o].fs
    <2>1. a \in Seq(Frames) /\ fs \in Seq(Frames)
      BY <1>1
    <2>2. DOMAIN a = 1 .. len
      BY <2>1
    <2>3. obj'[o].fs = a \o fs
      OBVIOUS
    <2> HIDE DEF a
    <2>4. Joined(a, fs)
      BY <2>1, Concatenated
    <2>5. Len(a) = len /\ Len(fs) = n
      BY <1>1 DEF a
    <2> HIDE DEF len
    <2>6. QED
      BY <2>2, <2>3, <2>4, <2>5, Zenon DEF a, Joined
  <1>3. \A f \in FreeFrames(frame) : HeapSlots(space, f) = {} /\ PageSlots(obj, f) = {}
    BY FreeUnused DEF HeapInv, FreeFrames
  <1> HIDE DEF len
  <1>4. ASSUME NEW f \in Frames, NEW i \in 1 .. n, fs[i] = f
        PROVE  PageSlots(obj', f) = {<<o, len + i>>}
    <2>1. f \in FreeFrames(frame)
      BY <1>4
    <2>2. PageSlots(obj, f) = {}
      BY <2>1, <1>3
    <2>3. ASSUME NEW k \in PageSlots(obj', f)
          PROVE  k = <<o, len + i>>
      <3>1. /\ k \in Objs \X (1 .. PagesMax) /\ k = <<k[1], k[2]>>
            /\ k[2] \in DOMAIN obj'[k[1]].fs /\ obj'[k[1]].fs[k[2]] = f
        BY <2>3 DEF PageSlots
      <3>2. k[1] = o
        <4> SUFFICES ASSUME k[1] # o PROVE FALSE
          OBVIOUS
        <4>1. obj'[k[1]].fs = obj[k[1]].fs
          BY <3>1
        <4>2. k \in PageSlots(obj, f)
          BY <3>1, <4>1 DEF PageSlots
        <4>3. QED
          BY <2>2, <4>2
      <3>3. k[2] \notin 1 .. len
        <4> SUFFICES ASSUME k[2] \in 1 .. len PROVE FALSE
          OBVIOUS
        <4>1. k \in PageSlots(obj, f)
          BY <3>1, <3>2, <1>2, Zenon DEF PageSlots
        <4>2. QED
          BY <2>2, <4>1
      <3>4. k[2] - len \in 1 .. n /\ k[2] = len + (k[2] - len)
        BY <1>2, <3>1, <3>2, <3>3
      <3>5. fs[k[2] - len] = fs[i]
        BY <1>2, <1>4, <3>1, <3>2, <3>4, Zenon
      <3>6. k[2] - len = i
        BY <3>4, <3>5
      <3>7. QED
        BY <3>1, <3>2, <3>4, <3>6
    <2>4. len + i \in 1 .. PagesMax
      BY <1>1, MemoryAssumption DEF len
    <2>5. <<o, len + i>> \in PageSlots(obj', f)
      BY <1>2, <1>4, <2>4, Zenon DEF PageSlots
    <2>6. QED
      BY <2>3, <2>5, Zenon
  <1>5. ASSUME NEW f \in Frames, ~\E i \in 1 .. n : fs[i] = f
        PROVE  PageSlots(obj', f) = PageSlots(obj, f)
    <2>1. ASSUME NEW k \in Objs \X (1 .. PagesMax)
          PROVE  k \in PageSlots(obj', f) <=> k \in PageSlots(obj, f)
      <3>1. CASE k[1] # o
        BY <3>1 DEF PageSlots
      <3>2. CASE k[1] = o
        <4>1. k \in PageSlots(obj, f) => k \in PageSlots(obj', f)
          BY <1>2, <3>2, Zenon DEF PageSlots
        <4>2. ASSUME k \in PageSlots(obj', f) PROVE k \in PageSlots(obj, f)
          <5>1. k[2] \in 1 .. (len + n) /\ obj'[o].fs[k[2]] = f
            BY <1>2, <3>2, <4>2, Zenon DEF PageSlots
          <5>2. k[2] \in 1 .. len
            <6> DEFINE j == k[2] - len
            <6>1. k[2] \in 1 .. len \/ (j \in 1 .. n /\ k[2] = len + j)
              BY <1>2, <5>1
            <6> HIDE DEF j
            <6>2. j \in 1 .. n /\ k[2] = len + j => fs[j] = f
              BY <1>2, <5>1
            <6>3. QED
              BY <1>5, <6>1, <6>2
          <5>3. QED
            BY <1>2, <3>2, <5>1, <5>2, Zenon DEF PageSlots
        <4>3. QED
          BY <4>1, <4>2
      <3>3. QED
        BY <3>1, <3>2
    <2>2. QED
      BY <2>1 DEF PageSlots
  <1>6. ASSUME NEW f \in Frames
        PROVE  /\ frame[f].refs # 0 => frame'[f].data = frame[f].data
               /\ frame'[f] \in [refs : Nat, data : Values]
               /\ frame'[f].refs = Cardinality(HeapSlots(space', f)) + Cardinality(PageSlots(obj', f))
    <2>1. CASE \E i \in 1 .. n : fs[i] = f
      <3>1. PICK i \in 1 .. n : fs[i] = f
        BY <2>1
      <3>2. PageSlots(obj', f) = {<<o, len + i>>} /\ Cardinality(PageSlots(obj', f)) = 1
        BY <3>1, <1>4, FS_Singleton, Zenon
      <3>3. f \in FreeFrames(frame)
        BY <3>1
      <3>4. HeapSlots(space', f) = {} /\ Cardinality(HeapSlots(space', f)) = 0
        BY <3>3, <1>3, FS_EmptySet, Zenon
      <3>5. frame'[f] = [refs |-> 1, data |-> 0]
        BY <1>1, <2>1 DEF Taken
      <3>6. frame[f].refs = 0
        BY <3>3 DEF FreeFrames
      <3>7. QED
        BY <3>2, <3>4, <3>5, <3>6, MemoryAssumption
    <2>2. CASE ~\E i \in 1 .. n : fs[i] = f
      <3>1. frame'[f] = frame[f]
        BY <1>1, <2>2 DEF Taken
      <3>2. PageSlots(obj', f) = PageSlots(obj, f)
        BY <2>2, <1>5
      <3>3. frame[f] \in [refs : Nat, data : Values]
        BY DEF HeapInv, FrameType
      <3>4. frame[f].refs = Cardinality(HeapSlots(space, f)) + Cardinality(PageSlots(obj, f))
        BY DEF HeapInv, FrameRefsExact
      <3>5. QED
        BY <3>1, <3>2, <3>3, <3>4
    <2>3. QED
      BY <2>1, <2>2
  <1>7. FrameType'
    BY <1>6 DEF FrameType, Taken
  <1>8. FrameRefsExact'
    BY <1>6 DEF FrameRefsExact
  <1>9. QED
    BY <1>6, <1>7, <1>8, HeapKept

-----------------------------------------------------------------------------
(* Heaps.                                                                     *)

\* Nothing mapped is a heap filled up to page 0.
LEMMA NoPagesBlank ==
    /\ NoPages \in [Pages -> Entry] /\ Filled(NoPages)
    /\ \A v \in Pages : NoPages[v].f = 0 /\ ~NoPages[v].w
  <1>1. /\ NoPages \in [Pages -> Entry]
        /\ \A v \in Pages : NoPages[v].f = 0 /\ ~NoPages[v].w
    BY DEF NoPages, NoPage, Entry
  <1>2. \A v \in Pages : ~(v <= 0)
    BY MemoryAssumption, FS_CardinalityType
  <1>3. Filled(NoPages)
    BY <1>1, <1>2 DEF Filled
  <1>4. QED
    BY <1>1, <1>3

\* A space starts with nothing mapped.
LEMMA CreateHeap ==
    ASSUME HeapInv, NEW s \in Spaces, vm64_create_space(s)
    PROVE  HeapInv'
  <1>1. /\ space' = [space EXCEPT ![s] = [on |-> TRUE, pte |-> NoPages]]
        /\ mem' = [mem EXCEPT ![s] = [v \in Pages |-> 0]]
        /\ frame' = frame /\ obj' = obj /\ ~space[s].on
    BY DEF vm64_create_space
  <1>2. NoPages \in [Pages -> Entry] /\ \A v \in Pages : NoPages[v].f = 0 /\ ~NoPages[v].w
    BY NoPagesBlank
  <1>3. SpaceType' /\ MemType' /\ FrameType'
    BY <1>1, <1>2, MemoryAssumption DEF HeapInv, SpaceType, MemType, FrameType
  <1>4. /\ space'[s] = [on |-> TRUE, pte |-> NoPages]
        /\ \A t \in Spaces \ {s} : space'[t] = space[t]
        /\ \A v \in Pages : mem'[s][v] = 0
        /\ \A t \in Spaces \ {s} : mem'[t] = mem[t]
    BY <1>1 DEF HeapInv, SpaceType, MemType
  <1>5. \A t \in Spaces, v \in Pages :
          space'[t].pte[v].f = space[t].pte[v].f /\ (space'[t].pte[v].w => space[t].pte[v].w)
    BY <1>1, <1>2, <1>4 DEF HeapInv, HeapShape
  <1>6. \A f : HeapSlots(space', f) = HeapSlots(space, f)
    BY <1>5 DEF HeapSlots
  <1>7. FrameRefsExact'
    BY <1>1, <1>6, Zenon DEF HeapInv, FrameRefsExact
  <1>8. HeapShape'
    <2>1. Filled(space'[s].pte)
      BY <1>4, NoPagesBlank
    <2>2. QED
      BY <1>4, <2>1 DEF HeapInv, HeapShape
  <1>9. WritableIsSole' /\ UnmappedIsBlank' /\ CowIsolated'
    <2>1. WritableIsSole'
      BY <1>5 DEF HeapInv, WritableIsSole
    <2>2. UnmappedIsBlank'
      BY <1>4, <1>5 DEF HeapInv, UnmappedIsBlank
    <2>3. CowIsolated'
      BY <1>1, <1>2, <1>4 DEF HeapInv, CowIsolated
    <2>4. QED
      BY <2>1, <2>2, <2>3
  <1>10. QED
    BY <1>3, <1>7, <1>8, <1>9 DEF HeapInv

\* Spaces P and Q map alike, but for page v of space s.
AlikeBut(P, Q, s, v) ==
    \A t \in Spaces, u \in Pages : t # s \/ u # v => Q[t].pte[u].f = P[t].pte[u].f

\* A page that changes its frame is a slot less of the one, one more of the other.
LEMMA SlotMoved ==
    ASSUME NEW P, NEW Q, NEW s \in Spaces, NEW v \in Pages, NEW f, AlikeBut(P, Q, s, v)
    PROVE  /\ P[s].pte[v].f # f /\ Q[s].pte[v].f # f => HeapSlots(Q, f) = HeapSlots(P, f)
           /\ P[s].pte[v].f = f /\ Q[s].pte[v].f = f => HeapSlots(Q, f) = HeapSlots(P, f)
           /\ P[s].pte[v].f = f /\ Q[s].pte[v].f # f =>
                Cardinality(HeapSlots(Q, f)) = Cardinality(HeapSlots(P, f)) - 1
           /\ P[s].pte[v].f # f /\ Q[s].pte[v].f = f =>
                Cardinality(HeapSlots(Q, f)) = Cardinality(HeapSlots(P, f)) + 1
  <1>1. IsFiniteSet(HeapSlots(P, f))
    BY SlotsFinite
  <1>2. \A k \in Spaces \X Pages :
          k # <<s, v>> => (k \in HeapSlots(Q, f) <=> k \in HeapSlots(P, f))
    BY DEF HeapSlots, AlikeBut
  <1>3. /\ <<s, v>> \in HeapSlots(P, f) <=> P[s].pte[v].f = f
        /\ <<s, v>> \in HeapSlots(Q, f) <=> Q[s].pte[v].f = f
    BY DEF HeapSlots
  <1>4. HeapSlots(P, f) \subseteq Spaces \X Pages /\ HeapSlots(Q, f) \subseteq Spaces \X Pages
    BY DEF HeapSlots
  <1>5. ASSUME P[s].pte[v].f # f, Q[s].pte[v].f = f
        PROVE  Cardinality(HeapSlots(Q, f)) = Cardinality(HeapSlots(P, f)) + 1
    <2>1. HeapSlots(Q, f) = HeapSlots(P, f) \cup {<<s, v>>} /\ <<s, v>> \notin HeapSlots(P, f)
      BY <1>2, <1>3, <1>4, <1>5
    <2>2. QED
      BY <1>1, <2>1, FS_AddElement, Zenon
  <1>6. ASSUME P[s].pte[v].f = f, Q[s].pte[v].f # f
        PROVE  Cardinality(HeapSlots(Q, f)) = Cardinality(HeapSlots(P, f)) - 1
    <2>1. HeapSlots(Q, f) = HeapSlots(P, f) \ {<<s, v>>} /\ <<s, v>> \in HeapSlots(P, f)
      BY <1>2, <1>3, <1>4, <1>6
    <2>2. QED
      BY <1>1, <2>1, FS_RemoveElement, Zenon
  <1>7. ASSUME P[s].pte[v].f # f, Q[s].pte[v].f # f
        PROVE  HeapSlots(Q, f) = HeapSlots(P, f)
    BY <1>2, <1>3, <1>4, <1>7
  <1>8. ASSUME P[s].pte[v].f = f, Q[s].pte[v].f = f
        PROVE  HeapSlots(Q, f) = HeapSlots(P, f)
    BY <1>2, <1>3, <1>4, <1>8
  <1>9. QED
    BY <1>5, <1>6, <1>7, <1>8

\* The last page of a heap goes, with its reference.
LEMMA UnmapHeap ==
    ASSUME HeapInv, NEW s \in Spaces, NEW v \in Pages, vm64_unmap(s, v)
    PROVE  HeapInv'
  <1> DEFINE g == space[s].pte[v].f
  <1>1. g # 0 /\ g \in Frames /\ frame[g].refs \in Nat \ {0}
    BY MappedUsed, Zenon DEF HeapInv, vm64_unmap
  <1> HIDE DEF g
  <1>2. /\ space[s].on /\ (v + 1 \in Pages => space[s].pte[v + 1].f = 0)
        /\ frame' = [frame EXCEPT ![g].refs = @ - 1]
        /\ space' = [space EXCEPT ![s].pte[v] = NoPage]
        /\ mem' = [mem EXCEPT ![s][v] = 0] /\ obj' = obj
    BY DEF vm64_unmap, pmm_free_page, g
  <1>3. NoPage \in Entry /\ NoPage.f = 0 /\ NoPage.w = FALSE
    BY DEF NoPage, Entry
  <1>4. /\ space' \in [Spaces -> [on : BOOLEAN, pte : [Pages -> Entry]]]
        /\ space'[s].pte[v] = NoPage
        /\ \A t \in Spaces, u \in Pages :
             t # s \/ u # v => space'[t].pte[u] = space[t].pte[u]
        /\ \A t \in Spaces : space'[t].on = space[t].on
    BY <1>2, <1>3, Zenon DEF HeapInv, SpaceType
  <1>5. MemType' /\ mem'[s][v] = 0
        /\ \A t \in Spaces, u \in Pages : t # s \/ u # v => mem'[t][u] = mem[t][u]
    BY <1>2, MemoryAssumption DEF HeapInv, MemType
  <1>6. ASSUME NEW f \in Frames
        PROVE  /\ frame'[f].data = frame[f].data /\ frame'[f] \in [refs : Nat, data : Values]
               /\ frame'[f].refs = Cardinality(HeapSlots(space', f)) + Cardinality(PageSlots(obj', f))
    <2>1. /\ frame'[f].refs = IF f = g THEN frame[f].refs - 1 ELSE frame[f].refs
          /\ frame'[f] = [refs |-> frame'[f].refs, data |-> frame[f].data]
          /\ frame[f].refs \in Nat /\ frame[f].data \in Values
      BY <1>2, <1>6 DEF HeapInv, FrameType
    <2>2. frame[f].refs = Cardinality(HeapSlots(space, f)) + Cardinality(PageSlots(obj, f))
      BY <1>6 DEF HeapInv, FrameRefsExact
    <2>3. AlikeBut(space, space', s, v)
      BY <1>4 DEF AlikeBut
    <2>4. space[s].pte[v].f = g /\ space'[s].pte[v].f = 0 /\ f # 0
      BY <1>3, <1>4, <1>6, MemoryAssumption DEF g
    <2>5. /\ Cardinality(HeapSlots(space, f)) \in Nat /\ Cardinality(PageSlots(obj, f)) \in Nat
          /\ Cardinality(HeapSlots(space', f)) \in Nat
      BY SlotsFinite
    <2>6. Cardinality(HeapSlots(space', f)) = IF f = g THEN Cardinality(HeapSlots(space, f)) - 1
                                              ELSE Cardinality(HeapSlots(space, f))
      BY <2>3, <2>4, SlotMoved
    <2>7. frame'[f].refs = Cardinality(HeapSlots(space', f)) + Cardinality(PageSlots(obj', f))
      BY <1>2, <2>1, <2>2, <2>5, <2>6
    <2>8. QED
      BY <1>2, <2>1, <2>5, <2>7
  <1>7. FrameType' /\ FrameRefsExact'
    BY <1>2, <1>6, Zenon DEF HeapInv, FrameType, FrameRefsExact
  <1>8. HeapShape'
    <2>1. ASSUME NEW t \in Spaces, t # s
          PROVE  space'[t] = space[t]
      BY <1>2, <2>1 DEF HeapInv, SpaceType
    <2>2. PICK k \in {0} \cup Pages : \A u \in Pages : space[s].pte[u].f # 0 <=> u <= k
      BY DEF HeapInv, HeapShape, Filled
    <2>3. Pages = 1 .. Cardinality(Pages) /\ Cardinality(Pages) \in Nat
      BY MemoryAssumption, FS_CardinalityType
    <2>4. k = v
      BY <1>1, <1>2, <2>2, <2>3 DEF g
    <2>5. \A u \in Pages : space'[s].pte[u].f # 0 <=> u <= v - 1
      BY <1>3, <1>4, <2>2, <2>3, <2>4
    <2>6. v - 1 \in {0} \cup Pages
      BY <2>3
    <2>7. Filled(space'[s].pte)
      BY <2>5, <2>6, Zenon DEF Filled
    <2>8. QED
      BY <1>2, <1>4, <2>1, <2>7 DEF HeapInv, HeapShape
  <1>9. WritableIsSole'
    <2> SUFFICES ASSUME NEW t \in Spaces, NEW r \in Spaces, NEW u \in Pages, NEW q \in Pages,
                        space'[t].pte[u].w, space'[t].pte[u].f # 0,
                        space'[r].pte[q].f = space'[t].pte[u].f
                 PROVE  t = r /\ u = q
      BY DEF WritableIsSole
    <2>1. (t # s \/ u # v) /\ (r # s \/ q # v)
      BY <1>3, <1>4
    <2>2. space'[t].pte[u] = space[t].pte[u] /\ space'[r].pte[q] = space[r].pte[q]
      BY <1>4, <2>1
    <2>3. QED
      BY <2>2 DEF HeapInv, WritableIsSole
  <1>10. UnmappedIsBlank'
    BY <1>4, <1>5 DEF HeapInv, UnmappedIsBlank
  <1>11. CowIsolated'
    <2> SUFFICES ASSUME NEW t \in Spaces, NEW u \in Pages, space'[t].pte[u].f # 0
                 PROVE  frame'[space'[t].pte[u].f].data = mem'[t][u]
      BY DEF CowIsolated
    <2>1. t # s \/ u # v
      BY <1>3, <1>4
    <2>2. space'[t].pte[u].f = space[t].pte[u].f /\ mem'[t][u] = mem[t][u]
      BY <1>4, <1>5, <2>1
    <2>3. space[t].pte[u].f \in Frames
      BY <2>2 DEF HeapInv, SpaceType, Entry
    <2>4. QED
      BY <1>6, <2>2, <2>3 DEF HeapInv, CowIsolated
  <1>12. QED
    BY <1>4, <1>5, <1>7, <1>8, <1>9, <1>10, <1>11 DEF HeapInv, SpaceType

\* A store through an entry whose frame nobody else maps, with the counts right,
\* keeps the heaps.
Stored(s, v, x, e) ==
    /\ e \in Entry /\ e.f \in Frames /\ space[s].pte[v].f # 0
    /\ space' = [space EXCEPT ![s].pte[v] = e] /\ mem' = [mem EXCEPT ![s][v] = x]
    /\ \A t \in Spaces, u \in Pages : t # s \/ u # v => space[t].pte[u].f # e.f
    /\ FrameType' /\ FrameRefsExact' /\ frame'[e.f].data = x
    /\ \A f \in Frames : f # e.f => frame'[f].data = frame[f].data

\* A store: in place, after the last sharer made the page its own, or to a copy.
LEMMA WriteHeap ==
    ASSUME HeapInv, NEW s \in Spaces, NEW v \in Pages, NEW x \in Values, write(s, v, x)
    PROVE  HeapInv'
  \* A frame that is referenced once, by a heap page, is in no other heap.
  <1>LastSharer. ASSUME HeapInv, NEW s0 \in Spaces, NEW v0 \in Pages, space[s0].pte[v0].f # 0,
               frame[space[s0].pte[v0].f].refs = 1
        PROVE  \A t \in Spaces, u \in Pages :
                 t # s0 \/ u # v0 => space[t].pte[u].f # space[s0].pte[v0].f
    <2> USE <1>LastSharer
    <2> DEFINE g == space[s0].pte[v0].f
    <2>1. g \in Frames /\ <<s0, v0>> \in HeapSlots(space, g)
      BY MappedUsed DEF HeapInv
    <2> HIDE DEF g
    <2>2. frame[g].refs = 1
      BY DEF g
    <2>3. IsFiniteSet(HeapSlots(space, g)) /\ Cardinality(HeapSlots(space, g)) \in Nat
          /\ Cardinality(PageSlots(obj, g)) \in Nat
      BY SlotsFinite
    <2>4. Cardinality(HeapSlots(space, g)) + Cardinality(PageSlots(obj, g)) = 1
      BY <2>1, <2>2 DEF HeapInv, FrameRefsExact
    <2>5. Cardinality(HeapSlots(space, g)) # 0
      BY <2>1, <2>3, FS_EmptySet
    <2>6. Cardinality(HeapSlots(space, g)) = 1
      BY <2>3, <2>4, <2>5
    <2>7. PICK k : HeapSlots(space, g) = {k}
      BY <2>3, <2>6, FS_Singleton, Zenon
    <2>8. ASSUME NEW t \in Spaces, NEW u \in Pages, space[t].pte[u].f = g
          PROVE  t = s0 /\ u = v0
      <3>1. <<t, u>> \in HeapSlots(space, g)
        BY <2>8 DEF HeapSlots
      <3>2. <<t, u>> = <<s0, v0>>
        BY <2>1, <2>7, <3>1
      <3>3. QED
        BY <3>2
    <2>9. QED
      BY <2>8 DEF g
  \* Whichever frame it went to.
  <1>StoreHeap. ASSUME HeapInv, NEW s0 \in Spaces, NEW v0 \in Pages, NEW x0 \in Values,
               NEW e, Stored(s0, v0, x0, e)
        PROVE  HeapInv'
    <2> USE <1>StoreHeap
    <2>1. /\ space' \in [Spaces -> [on : BOOLEAN, pte : [Pages -> Entry]]]
          /\ space'[s0].pte[v0] = e
          /\ \A t \in Spaces, u \in Pages :
               t # s0 \/ u # v0 => space'[t].pte[u] = space[t].pte[u]
          /\ \A t \in Spaces : space'[t].on = space[t].on
      BY Zenon DEF HeapInv, SpaceType, Stored
    <2>2. MemType' /\ mem'[s0][v0] = x0
          /\ \A t \in Spaces, u \in Pages : t # s0 \/ u # v0 => mem'[t][u] = mem[t][u]
      BY DEF HeapInv, MemType, Stored
    <2>3. e.f # 0
      BY MemoryAssumption DEF Stored
    <2>4. \A t \in Spaces, u \in Pages : space'[t].pte[u].f # 0 <=> space[t].pte[u].f # 0
      BY <2>1, <2>3 DEF Stored
    <2>5. HeapShape'
      <3> SUFFICES ASSUME NEW t \in Spaces
                   PROVE  /\ Filled(space'[t].pte)
                          /\ ~space'[t].on => \A u \in Pages : space'[t].pte[u].f = 0
        BY DEF HeapShape
      <3>1. PICK k \in {0} \cup Pages : \A u \in Pages : space[t].pte[u].f # 0 <=> u <= k
        BY DEF HeapInv, HeapShape, Filled
      <3>2. Filled(space'[t].pte)
        BY <2>4, <3>1, Zenon DEF Filled
      <3>3. ~space'[t].on => \A u \in Pages : space'[t].pte[u].f = 0
        BY <2>1, <2>4, Zenon DEF HeapInv, HeapShape
      <3>4. QED
        BY <3>2, <3>3
    <2>6. WritableIsSole'
      <3> SUFFICES ASSUME NEW t \in Spaces, NEW r \in Spaces, NEW u \in Pages, NEW q \in Pages,
                          space'[t].pte[u].w, space'[t].pte[u].f # 0,
                          space'[r].pte[q].f = space'[t].pte[u].f
                   PROVE  t = r /\ u = q
        BY DEF WritableIsSole
      <3>1. CASE (t # s0 \/ u # v0) /\ (r # s0 \/ q # v0)
        <4>1. space'[t].pte[u] = space[t].pte[u] /\ space'[r].pte[q] = space[r].pte[q]
          BY <2>1, <3>1
        <4>2. QED
          BY <4>1 DEF HeapInv, WritableIsSole
      <3>2. CASE t = s0 /\ u = v0
        BY <2>1, <3>2 DEF Stored
      <3>3. CASE r = s0 /\ q = v0
        BY <2>1, <3>3 DEF Stored
      <3>4. QED
        BY <3>1, <3>2, <3>3
    <2>7. UnmappedIsBlank'
      BY <2>1, <2>2, <2>3 DEF HeapInv, UnmappedIsBlank
    <2>8. CowIsolated'
      <3> SUFFICES ASSUME NEW t \in Spaces, NEW u \in Pages, space'[t].pte[u].f # 0
                   PROVE  frame'[space'[t].pte[u].f].data = mem'[t][u]
        BY DEF CowIsolated
      <3>1. CASE t = s0 /\ u = v0
        BY <2>1, <2>2, <3>1 DEF Stored
      <3>2. CASE t # s0 \/ u # v0
        <4>1. space'[t].pte[u].f = space[t].pte[u].f /\ mem'[t][u] = mem[t][u]
          BY <2>1, <2>2, <3>2
        <4>2. space[t].pte[u].f \in Frames /\ space[t].pte[u].f # e.f
          BY <4>1, <3>2 DEF HeapInv, SpaceType, Entry, Stored
        <4>3. QED
          BY <4>1, <4>2 DEF HeapInv, CowIsolated, Stored
      <3>3. QED
        BY <3>1, <3>2
    <2>9. QED
      BY <2>1, <2>2, <2>5, <2>6, <2>7, <2>8 DEF HeapInv, SpaceType, Stored
  <1> DEFINE e == space[s].pte[v]
             c == Some(FreeFrames(frame))
  <1>1. /\ e \in Entry /\ e.f # 0 /\ e.f \in Frames
        /\ frame[e.f].refs \in Nat \ {0}
        /\ mem' = [mem EXCEPT ![s][v] = x] /\ obj' = obj
    BY MappedUsed, Zenon DEF HeapInv, SpaceType, write
  <1>2. frame \in [Frames -> [refs : Nat, data : Values]]
    BY DEF HeapInv, FrameType
  <1>3. ASSUME e.w \/ frame[e.f].refs = 1
        PROVE  HeapInv'
    <2> DEFINE d == IF e.w THEN e ELSE [e EXCEPT !.w = TRUE, !.cow = FALSE]
    <2>1. frame' = [frame EXCEPT ![d.f].data = x] /\ space' = [space EXCEPT ![s].pte[v] = d]
      BY <1>3, Zenon DEF write, vm64_handle_cow
    <2>2. d \in Entry /\ d.f = e.f
      BY <1>1, Zenon DEF Entry
    <2>3. \A t \in Spaces, u \in Pages : t # s \/ u # v => space[t].pte[u].f # e.f
      BY <1>1, <1>3, <1>LastSharer DEF HeapInv, WritableIsSole
    <2> HIDE DEF d, e
    <2>4. /\ frame' \in [Frames -> [refs : Nat, data : Values]] /\ frame'[e.f].data = x
          /\ \A f \in Frames : frame'[f].refs = frame[f].refs
          /\ \A f \in Frames : f # e.f => frame'[f].data = frame[f].data
      BY <1>1, <1>2, <2>1, <2>2
    <2>5. \A t \in Spaces, u \in Pages : space'[t].pte[u].f = space[t].pte[u].f
      BY <2>1, <2>2 DEF HeapInv, SpaceType, e
    <2>6. \A f : HeapSlots(space', f) = HeapSlots(space, f)
      BY <2>5 DEF HeapSlots
    <2>7. FrameRefsExact'
      BY <1>1, <2>4, <2>6 DEF HeapInv, FrameRefsExact
    <2>8. FrameType'
      BY <2>4 DEF FrameType
    <2>9. space[s].pte[v].f # 0
      BY <1>1 DEF e
    <2>10. /\ \A t \in Spaces, u \in Pages : t # s \/ u # v => space[t].pte[u].f # d.f
           /\ \A f \in Frames : f # d.f => frame'[f].data = frame[f].data
           /\ d.f \in Frames /\ frame'[d.f].data = x
      BY <1>1, <2>2, <2>3, <2>4
    <2>11. Stored(s, v, x, d)
      BY <1>1, <2>1, <2>2, <2>7, <2>8, <2>9, <2>10, Zenon DEF Stored
    <2>12. QED
      BY <2>11, <1>StoreHeap
  <1>4. ASSUME ~e.w, frame[e.f].refs # 1
        PROVE  HeapInv'
    <2> DEFINE T == [pmm_take_page(frame, c) EXCEPT ![c].data = frame[e.f].data]
               U == pmm_free_page(T, e.f)
               d == [f |-> c, w |-> TRUE, cow |-> FALSE]
    <2>1. FreeFrames(frame) # {} /\ frame' = [U EXCEPT ![c].data = x]
          /\ space' = [space EXCEPT ![s].pte[v] = d]
      BY <1>4, Zenon DEF write, vm64_handle_cow
    <2>2. c \in FreeFrames(frame)
      BY <2>1, Zenon DEF Some
    <2>3. c \in Frames /\ frame[c].refs = 0 /\ c # e.f
      BY <1>1, <2>2 DEF FreeFrames
    <2>5. \A t \in Spaces, u \in Pages : space[t].pte[u].f # c
      BY <2>2, FreeUnmapped
    <2> HIDE DEF c, e
    <2>6. /\ T \in [Frames -> [refs : Nat, data : Values]] /\ T[c].refs = 1
          /\ \A f \in Frames : f # c => T[f] = frame[f]
      BY <1>1, <1>2, <2>3, MemoryAssumption DEF pmm_take_page
    <2> HIDE DEF T
    <2>7. T[e.f].refs \in Nat \ {0} /\ T[e.f] = frame[e.f]
      BY <1>1, <2>3, <2>6
    <2>8. /\ U \in [Frames -> [refs : Nat, data : Values]]
          /\ U[e.f].refs = frame[e.f].refs - 1 /\ U[e.f].data = frame[e.f].data
          /\ \A f \in Frames : f # e.f => U[f] = T[f]
      BY <1>1, <2>6, <2>7 DEF pmm_free_page
    <2> HIDE DEF U
    <2>9. /\ frame' \in [Frames -> [refs : Nat, data : Values]] /\ frame'[c].data = x
          /\ frame'[c].refs = U[c].refs
          /\ \A f \in Frames : f # c => frame'[f] = U[f]
      BY <2>1, <2>3, <2>8
    <2>10. /\ frame'[c].refs = 1 /\ frame'[e.f].refs = frame[e.f].refs - 1
           /\ \A f \in Frames : f # c /\ f # e.f => frame'[f] = frame[f]
           /\ \A f \in Frames : f # c => frame'[f].data = frame[f].data
      BY <1>1, <2>3, <2>6, <2>8, <2>9
    <2>11. d \in Entry /\ d.f = c
      BY <2>3 DEF Entry
    <2> HIDE DEF d
    <2>12. /\ space'[s].pte[v].f = c /\ space[s].pte[v].f = e.f
           /\ AlikeBut(space, space', s, v)
      BY <2>1, <2>11 DEF HeapInv, SpaceType, AlikeBut, e
    <2>13. ASSUME NEW f \in Frames
           PROVE  frame'[f].refs = Cardinality(HeapSlots(space', f)) + Cardinality(PageSlots(obj', f))
      <3>1. frame[f].refs = Cardinality(HeapSlots(space, f)) + Cardinality(PageSlots(obj, f))
        BY <2>13 DEF HeapInv, FrameRefsExact
      <3>2. /\ Cardinality(HeapSlots(space, f)) \in Nat /\ Cardinality(PageSlots(obj, f)) \in Nat
            /\ Cardinality(HeapSlots(space', f)) \in Nat
        BY SlotsFinite
      <3>3. CASE f = c
        <4>1. Cardinality(HeapSlots(space', f)) = Cardinality(HeapSlots(space, f)) + 1
          BY <2>3, <2>12, <3>3, SlotMoved
        <4>2. QED
          BY <1>1, <2>3, <2>10, <3>1, <3>2, <3>3, <4>1
      <3>4. CASE f = e.f
        <4>1. Cardinality(HeapSlots(space', f)) = Cardinality(HeapSlots(space, f)) - 1
          BY <2>3, <2>12, <3>4, SlotMoved
        <4>2. QED
          BY <1>1, <2>10, <3>1, <3>2, <3>4, <4>1
      <3>5. CASE f # c /\ f # e.f
        <4>1. HeapSlots(space', f) = HeapSlots(space, f)
          BY <2>12, <3>5, SlotMoved
        <4>2. QED
          BY <1>1, <2>10, <3>1, <3>5, <4>1
      <3>6. QED
        BY <3>3, <3>4, <3>5
    <2>14. FrameType' /\ FrameRefsExact'
      BY <2>9, <2>13 DEF FrameType, FrameRefsExact
    <2>15. space[s].pte[v].f # 0
      BY <1>1 DEF e
    <2>16. /\ \A t \in Spaces, u \in Pages : t # s \/ u # v => space[t].pte[u].f # d.f
           /\ \A f \in Frames : f # d.f => frame'[f].data = frame[f].data
           /\ d.f \in Frames /\ frame'[d.f].data = x
      BY <2>3, <2>5, <2>9, <2>10, <2>11
    <2>17. Stored(s, v, x, d)
      BY <1>1, <2>1, <2>11, <2>14, <2>15, <2>16, Zenon DEF Stored
    <2>18. QED
      BY <2>17, <1>StoreHeap
  <1>5. QED
    BY <1>3, <1>4

\* The heap grows by pages of its own, cleared.
LEMMA BrkHeap ==
    ASSUME HeapInv, NEW s \in Spaces, NEW n \in Pages, posix_brk(s, n)
    PROVE  HeapInv'
  <1> DEFINE top == Cardinality({v \in Pages : space[s].pte[v].f # 0})
             fs == pmm_alloc_pages(frame, n)
             new == (top + 1) .. (top + n)
             Page(v) == [f |-> fs[v - top], w |-> TRUE, cow |-> FALSE]
  <1>1. Pages = 1 .. Cardinality(Pages) /\ Cardinality(Pages) \in Nat
    BY MemoryAssumption, FS_CardinalityType
  <1>2. PICK k \in {0} \cup Pages : \A u \in Pages : space[s].pte[u].f # 0 <=> u <= k
    BY DEF HeapInv, HeapShape, Filled
  <1>3. n \in Nat /\ n >= 1 /\ k \in Nat
    BY <1>1
  <1>4. top = k
    <2>1. {v \in Pages : space[s].pte[v].f # 0} = 1 .. k
      BY <1>1, <1>2
    <2>2. Cardinality(1 .. k) = k
      BY <1>3, FS_Interval
    <2>3. QED
      BY <2>1, <2>2, Zenon
  <1>5. /\ space[s].on /\ new \subseteq Pages /\ Cardinality(FreeFrames(frame)) >= n
        /\ frame' = Taken(frame, fs)
        /\ space' = [space EXCEPT ![s].pte = [v \in Pages |->
                       IF v \in new THEN Page(v) ELSE space[s].pte[v]]]
        /\ obj' = obj /\ mem' = mem
    BY DEF posix_brk
  <1>6. /\ fs \in [1 .. n -> FreeFrames(frame)]
        /\ \A i, j \in 1 .. n : fs[i] = fs[j] => i = j
    BY <1>3, <1>5, AllocPages
  <1> HIDE DEF top, fs
  <1>7. \A v \in new : v \in Pages /\ v - k \in 1 .. n /\ v = k + (v - k)
    BY <1>3, <1>4, <1>5
  <1>8. \A v \in new : fs[v - top] \in FreeFrames(frame) /\ fs[v - top] \in Frames
                       /\ fs[v - top] # 0
    BY <1>4, <1>6, <1>7, MemoryAssumption DEF FreeFrames
  <1>9. /\ space' \in [Spaces -> [on : BOOLEAN, pte : [Pages -> Entry]]]
        /\ \A t \in Spaces : space'[t].on = space[t].on
        /\ \A t \in Spaces, u \in Pages :
             ~(t = s /\ u \in new) => space'[t].pte[u] = space[t].pte[u]
        /\ \A u \in new : space'[s].pte[u] = Page(u)
    BY <1>5, <1>8, Zenon DEF HeapInv, SpaceType, Entry
  <1>10. \A u \in new : space'[s].pte[u].f = fs[u - k] /\ space[s].pte[u].f = 0
    <2>1. \A u \in new : ~(u <= k)
      BY <1>3, <1>4
    <2>2. \A u \in new : Page(u).f = fs[u - top]
      OBVIOUS
    <2> HIDE DEF new, Page
    <2>3. \A u \in new : space[s].pte[u].f = 0
      BY <1>2, <1>7, <2>1
    <2>4. \A u \in new : space'[s].pte[u].f = fs[u - k]
      BY <1>4, <1>9, <2>2
    <2>5. QED
      BY <2>3, <2>4
  <1> HIDE DEF new, Page
  <1>11. \A i \in 1 .. n : k + i \in new /\ (k + i) - k = i
    BY <1>3, <1>4 DEF new
  <1>12. ASSUME NEW f \in Frames
         PROVE  /\ frame[f].refs # 0 => frame'[f] = frame[f]
                /\ (\E i \in 1 .. n : fs[i] = f) => frame'[f].data = 0
                /\ frame'[f] \in [refs : Nat, data : Values]
                /\ frame'[f].refs = Cardinality(HeapSlots(space', f)) + Cardinality(PageSlots(obj', f))
    <2>1. CASE \E i \in 1 .. n : fs[i] = f
      <3>1. PICK i \in 1 .. n : fs[i] = f
        BY <2>1
      <3>2. f \in FreeFrames(frame) /\ frame[f].refs = 0
        BY <1>6, <3>1 DEF FreeFrames
      <3>3. /\ \A t \in Spaces, u \in Pages : space[t].pte[u].f # f
            /\ PageSlots(obj, f) = {}
        BY <3>2, FreeUnmapped
      <3>4. \A t \in Spaces, u \in Pages : space'[t].pte[u].f = f <=> t = s /\ u = k + i
        <4> SUFFICES ASSUME NEW t \in Spaces, NEW u \in Pages
                     PROVE  space'[t].pte[u].f = f <=> t = s /\ u = k + i
          OBVIOUS
        <4>1. CASE t = s /\ u \in new
          <5>1. u - k \in 1 .. n /\ u = k + (u - k) /\ space'[t].pte[u].f = fs[u - k]
            BY <1>7, <1>10, <4>1
          <5>2. fs[u - k] = f <=> u - k = i
            BY <1>6, <3>1, <5>1
          <5>3. u - k = i <=> u = k + i
            BY <1>3, <5>1
          <5>4. QED
            BY <4>1, <5>1, <5>2, <5>3
        <4>2. CASE ~(t = s /\ u \in new)
          BY <1>9, <1>11, <3>1, <3>3, <4>2
        <4>3. QED
          BY <4>1, <4>2
      <3>5. HeapSlots(space', f) = {<<s, k + i>>}
        <4>1. k + i \in Pages
          BY <1>7, <1>11
        <4>2. QED
          BY <3>4, <4>1 DEF HeapSlots
      <3>6. Cardinality(HeapSlots(space', f)) = 1 /\ Cardinality(PageSlots(obj', f)) = 0
        BY <1>5, <3>3, <3>5, FS_Singleton, FS_EmptySet, Zenon
      <3>7. frame'[f] = [refs |-> 1, data |-> 0]
        BY <1>5, <1>6, <2>1 DEF Taken
      <3>8. QED
        BY <3>2, <3>6, <3>7, MemoryAssumption
    <2>2. CASE ~\E i \in 1 .. n : fs[i] = f
      <3>1. frame'[f] = frame[f]
        BY <1>5, <1>6, <2>2 DEF Taken
      <3>2. \A t \in Spaces, u \in Pages : space'[t].pte[u].f = f <=> space[t].pte[u].f = f
        <4> SUFFICES ASSUME NEW t \in Spaces, NEW u \in Pages
                     PROVE  space'[t].pte[u].f = f <=> space[t].pte[u].f = f
          OBVIOUS
        <4>1. CASE t = s /\ u \in new
          <5>1. f # 0
            BY MemoryAssumption
          <5>2. u - k \in 1 .. n
            BY <1>7, <4>1
          <5>3. QED
            BY <1>10, <2>2, <4>1, <5>1, <5>2
        <4>2. CASE ~(t = s /\ u \in new)
          BY <1>9, <4>2
        <4>3. QED
          BY <4>1, <4>2
      <3>3. HeapSlots(space', f) = HeapSlots(space, f)
        BY <3>2 DEF HeapSlots
      <3>4. QED
        BY <1>5, <2>2, <3>1, <3>3 DEF HeapInv, FrameType, FrameRefsExact
    <2>3. QED
      BY <2>1, <2>2
  <1>13. FrameType' /\ FrameRefsExact'
    BY <1>5, <1>12 DEF FrameType, FrameRefsExact, Taken
  <1>14. HeapShape'
    <2>1. \A u \in Pages : space'[s].pte[u].f # 0 <=> u <= k + n
      <3> SUFFICES ASSUME NEW u \in Pages
                   PROVE  space'[s].pte[u].f # 0 <=> u <= k + n
        OBVIOUS
      <3>1. CASE u \in new
        <4>1. u <= k + n
          BY <1>4, <3>1, <1>1, <1>3 DEF new
        <4>2. QED
          BY <1>4, <1>8, <1>10, <3>1, <4>1
      <3>2. CASE u \notin new
        <4>1. space'[s].pte[u].f # 0 <=> u <= k
          BY <1>2, <1>9, <3>2
        <4>2. u <= k <=> u <= k + n
          BY <1>1, <1>3, <1>4, <3>2 DEF new
        <4>3. QED
          BY <4>1, <4>2
      <3>3. QED
        BY <3>1, <3>2
    <2>2. k + n \in Pages
      BY <1>3, <1>7, <1>11
    <2>3. Filled(space'[s].pte)
      BY <2>1, <2>2 DEF Filled
    <2>4. \A t \in Spaces : t # s => space'[t] = space[t]
      BY <1>5 DEF HeapInv, SpaceType
    <2>5. QED
      BY <1>5, <1>9, <2>3, <2>4 DEF HeapInv, HeapShape
  <1>15. WritableIsSole'
    <2> SUFFICES ASSUME NEW t \in Spaces, NEW r \in Spaces, NEW u \in Pages, NEW q \in Pages,
                        space'[t].pte[u].w, space'[t].pte[u].f # 0,
                        space'[r].pte[q].f = space'[t].pte[u].f
                 PROVE  t = r /\ u = q
      BY DEF WritableIsSole
    <2>1. CASE t = s /\ u \in new /\ r = s /\ q \in new
      <3>1. fs[u - k] = fs[q - k] /\ u - k \in 1 .. n /\ q - k \in 1 .. n
        BY <1>7, <1>10, <2>1
      <3>2. u - k = q - k
        BY <1>6, <3>1
      <3>3. QED
        BY <1>7, <2>1, <3>2
    <2>2. CASE t = s /\ u \in new /\ ~(r = s /\ q \in new)
      BY <1>4, <1>8, <1>9, <1>10, <2>2, FreeUnmapped
    <2>3. CASE ~(t = s /\ u \in new) /\ r = s /\ q \in new
      BY <1>4, <1>8, <1>9, <1>10, <2>3, FreeUnmapped
    <2>4. CASE ~(t = s /\ u \in new) /\ ~(r = s /\ q \in new)
      <3>1. space'[t].pte[u] = space[t].pte[u] /\ space'[r].pte[q] = space[r].pte[q]
        BY <1>9, <2>4
      <3>2. QED
        BY <3>1 DEF HeapInv, WritableIsSole
    <2>5. QED
      BY <2>1, <2>2, <2>3, <2>4
  <1>16. UnmappedIsBlank'
    <2> SUFFICES ASSUME NEW t \in Spaces, NEW u \in Pages, space'[t].pte[u].f = 0
                 PROVE  mem[t][u] = 0
      BY <1>5 DEF UnmappedIsBlank
    <2>1. space[t].pte[u].f = 0
      BY <1>9, <1>10
    <2>2. QED
      BY <2>1 DEF HeapInv, UnmappedIsBlank
  <1>17. CowIsolated'
    <2> SUFFICES ASSUME NEW t \in Spaces, NEW u \in Pages, space'[t].pte[u].f # 0
                 PROVE  frame'[space'[t].pte[u].f].data = mem[t][u]
      BY <1>5 DEF CowIsolated
    <2>1. CASE t = s /\ u \in new
      <3>1. u - k \in 1 .. n /\ space'[t].pte[u].f = fs[u - k] /\ fs[u - k] \in Frames
        BY <1>4, <1>7, <1>8, <1>10, <2>1
      <3>2. frame'[fs[u - k]].data = 0
        BY <1>12, <3>1
      <3>3. mem[t][u] = 0
        BY <1>10, <2>1 DEF HeapInv, UnmappedIsBlank
      <3>4. QED
        BY <3>1, <3>2, <3>3
    <2>2. CASE ~(t = s /\ u \in new)
      <3>1. space'[t].pte[u] = space[t].pte[u]
        BY <1>9, <2>2
      <3>2. space[t].pte[u].f \in Frames /\ frame[space[t].pte[u].f].refs # 0
        BY <3>1, MappedUsed, Zenon DEF HeapInv
      <3>3. QED
        BY <1>12, <3>1, <3>2 DEF HeapInv, CowIsolated
    <2>3. QED
      BY <2>1, <2>2
  <1>18. QED
    BY <1>5, <1>9, <1>13, <1>14, <1>15, <1>16, <1>17 DEF HeapInv, SpaceType, MemType

\* fork: the copy maps what the source maps, and neither may write.
LEMMA CloneHeap ==
    ASSUME HeapInv, NEW s \in Spaces, NEW t \in Spaces, NEW upto \in {0} \cup Pages,
           vm64_clone_space(s, t, upto)
    PROVE  HeapInv'
  <1> DEFINE Done(v) == v <= upto /\ space[s].pte[v].f # 0
             all == \A v \in Pages : space[s].pte[v].f # 0 => v <= upto
             half == [v \in Pages |-> IF Done(v) THEN Shared(space[s].pte[v]) ELSE NoPage]
             kept == [v \in Pages |-> IF Done(v) THEN half[v] ELSE space[s].pte[v]]
  <1>1. /\ space[s].on /\ ~space[t].on /\ s # t /\ obj' = obj
        /\ all => /\ space' = [space EXCEPT ![s].pte = kept, ![t] = [on |-> TRUE, pte |-> half]]
                  /\ frame' = pmm_retain_page(frame, half) /\ mem' = [mem EXCEPT ![t] = mem[s]]
        /\ ~all => space' = [space EXCEPT ![s].pte = kept] /\ frame' = frame /\ mem' = mem
    BY DEF vm64_clone_space
  <1>2. space[s].pte \in [Pages -> Entry]
    BY DEF HeapInv, SpaceType
  <1>3. \A v \in Pages : /\ Shared(space[s].pte[v]) \in Entry
                         /\ Shared(space[s].pte[v]).f = space[s].pte[v].f
                         /\ Shared(space[s].pte[v]).w = FALSE
    BY <1>2, Zenon DEF Shared, Entry
  <1>4. NoPage \in Entry /\ NoPage.f = 0 /\ NoPage.w = FALSE
    BY DEF NoPage, Entry
  <1>5. \A v \in Pages : /\ half[v] \in Entry /\ half[v].w = FALSE
                         /\ half[v].f = IF Done(v) THEN space[s].pte[v].f ELSE 0
                         /\ kept[v] \in Entry /\ kept[v].f = space[s].pte[v].f
                         /\ kept[v].w => space[s].pte[v].w
                         /\ Done(v) => kept[v].w = FALSE
    BY <1>2, <1>3, <1>4
  <1>6. half \in [Pages -> Entry] /\ kept \in [Pages -> Entry]
    BY <1>5
  <1>7. all => \A v \in Pages : half[v].f = space[s].pte[v].f
    BY <1>5
  <1>8. all => \A v \in Pages : space[s].pte[v].f # 0 => kept[v].w = FALSE
    BY <1>5
  <1>9. Filled(space[s].pte) /\ \A v \in Pages : space[t].pte[v].f = 0
    BY <1>1 DEF HeapInv, HeapShape
  <1> HIDE DEF Done, half, kept, all
  <1>10. ASSUME ~all PROVE HeapInv'
    <2>1. space' = [space EXCEPT ![s].pte = kept] /\ frame' = frame /\ mem' = mem
      BY <1>1, <1>10
    <2>2. /\ space' \in [Spaces -> [on : BOOLEAN, pte : [Pages -> Entry]]]
          /\ space'[s].pte = kept /\ \A a \in Spaces : space'[a].on = space[a].on
          /\ \A a \in Spaces \ {s} : space'[a] = space[a]
      BY <1>6, <2>1 DEF HeapInv, SpaceType
    <2>3. \A a \in Spaces, v \in Pages :
            /\ space'[a].pte[v].f = space[a].pte[v].f
            /\ space'[a].pte[v].w => space[a].pte[v].w
      BY <1>5, <2>2
    <2>4. \A f : HeapSlots(space', f) = HeapSlots(space, f)
      BY <2>3 DEF HeapSlots
    <2>5. FrameRefsExact' /\ FrameType' /\ MemType' /\ SpaceType'
      <3>1. FrameRefsExact'
        BY <1>1, <2>1, <2>4, Zenon DEF HeapInv, FrameRefsExact
      <3>2. FrameType' /\ MemType' /\ SpaceType'
        BY <2>1, <2>2 DEF HeapInv, FrameType, MemType, SpaceType
      <3>3. QED
        BY <3>1, <3>2
    <2>6. HeapShape'
      <3>1. Filled(kept)
        BY <1>5, <1>9 DEF Filled
      <3>2. QED
        BY <1>1, <2>2, <3>1 DEF HeapInv, HeapShape
    <2>7. WritableIsSole'
      BY <2>3 DEF HeapInv, WritableIsSole
    <2>8. UnmappedIsBlank' /\ CowIsolated'
      BY <2>1, <2>3 DEF HeapInv, UnmappedIsBlank, CowIsolated
    <2>9. QED
      BY <2>5, <2>6, <2>7, <2>8 DEF HeapInv
  <1>11. ASSUME all PROVE HeapInv'
    <2>1. /\ space' = [space EXCEPT ![s].pte = kept, ![t] = [on |-> TRUE, pte |-> half]]
          /\ frame' = pmm_retain_page(frame, half) /\ mem' = [mem EXCEPT ![t] = mem[s]]
      BY <1>1, <1>11
    <2>2. /\ space' \in [Spaces -> [on : BOOLEAN, pte : [Pages -> Entry]]]
          /\ space'[s].pte = kept /\ space'[t].pte = half
          /\ space'[s].on = space[s].on /\ space'[t].on = TRUE
          /\ \A a \in Spaces : a # s /\ a # t => space'[a] = space[a]
      BY <1>1, <1>6, <2>1, Zenon DEF HeapInv, SpaceType
    <2>3. MemType' /\ mem'[t] = mem[s] /\ \A a \in Spaces : a # t => mem'[a] = mem[a]
      BY <2>1 DEF HeapInv, MemType
    <2>4. /\ \A v \in Pages : space'[t].pte[v].f = space[s].pte[v].f
          /\ \A a \in Spaces, v \in Pages : a # t => space'[a].pte[v].f = space[a].pte[v].f
          /\ \A a \in Spaces, v \in Pages :
               space'[a].pte[v].w /\ space'[a].pte[v].f # 0 =>
                 a # s /\ a # t /\ space[a].pte[v].w
      BY <1>5, <1>7, <1>8, <1>11, <2>2
    <2>5. ASSUME NEW f \in Frames
          PROVE  /\ frame'[f].data = frame[f].data /\ frame'[f] \in [refs : Nat, data : Values]
                 /\ frame'[f].refs = Cardinality(HeapSlots(space', f)) + Cardinality(PageSlots(obj', f))
      <3> DEFINE I == {v \in Pages : half[v].f = f}
                 C == {k \in HeapSlots(space', f) : k[1] = t}
      <3>1. I \subseteq Pages
        OBVIOUS
      <3>2. IsFiniteSet(I)
        BY <3>1, MemoryAssumption, FS_Subset
      <3>3. \A k : k \in C <=> \E i \in I : k = <<t, i>>
        BY <2>2 DEF HeapSlots
      <3>4. frame'[f] = [refs |-> frame[f].refs + Cardinality(I), data |-> frame[f].data]
        BY <2>1 DEF pmm_retain_page
      <3>5. HeapSlots(space', f) = HeapSlots(space, f) \cup C /\ HeapSlots(space, f) \cap C = {}
        <4>1. f # 0
          BY MemoryAssumption
        <4>2. ASSUME NEW k \in Spaces \X Pages
              PROVE  /\ k[1] = t => k \notin HeapSlots(space, f)
                     /\ k[1] # t => (k \in HeapSlots(space', f) <=> k \in HeapSlots(space, f))
          BY <1>9, <2>4, <4>1 DEF HeapSlots
        <4>3. HeapSlots(space', f) \subseteq Spaces \X Pages
              /\ HeapSlots(space, f) \subseteq Spaces \X Pages
          BY DEF HeapSlots
        <4>4. QED
          BY <4>2, <4>3
      <3> HIDE DEF I, C
      <3>6. IsFiniteSet(C) /\ Cardinality(C) = Cardinality(I)
        BY <3>2, <3>3, CardColumn, Zenon
      <3>7. IsFiniteSet(HeapSlots(space, f)) /\ Cardinality(PageSlots(obj, f)) \in Nat
        BY SlotsFinite
      <3>8. /\ Cardinality(HeapSlots(space, f)) \in Nat /\ Cardinality(C) \in Nat
            /\ Cardinality(HeapSlots(space', f)) = Cardinality(HeapSlots(space, f)) + Cardinality(C)
        BY <3>5, <3>6, <3>7, CardDisjoint
      <3>9. frame[f].refs = Cardinality(HeapSlots(space, f)) + Cardinality(PageSlots(obj, f))
            /\ frame[f].data \in Values
        BY DEF HeapInv, FrameRefsExact, FrameType
      <3>10. QED
        BY <1>1, <3>4, <3>6, <3>7, <3>8, <3>9
    <2>6. FrameType' /\ FrameRefsExact'
      BY <2>1, <2>5, Zenon DEF FrameType, FrameRefsExact, pmm_retain_page
    <2>7. HeapShape'
      <3>1. Filled(kept) /\ Filled(half)
        BY <1>5, <1>7, <1>9, <1>11 DEF Filled
      <3>2. QED
        BY <1>1, <2>2, <3>1 DEF HeapInv, HeapShape
    <2>8. WritableIsSole'
      <3> SUFFICES ASSUME NEW a \in Spaces, NEW r \in Spaces, NEW u \in Pages, NEW q \in Pages,
                          space'[a].pte[u].w, space'[a].pte[u].f # 0,
                          space'[r].pte[q].f = space'[a].pte[u].f
                   PROVE  a = r /\ u = q
        BY DEF WritableIsSole
      <3>1. a # s /\ a # t /\ space[a].pte[u].w /\ space[a].pte[u].f = space'[a].pte[u].f
        BY <2>4
      <3>2. r # t
        <4> SUFFICES ASSUME r = t PROVE FALSE
          OBVIOUS
        <4>1. space[s].pte[q].f = space[a].pte[u].f
          BY <2>4, <3>1
        <4>2. QED
          BY <3>1, <4>1 DEF HeapInv, WritableIsSole
      <3>3. space[r].pte[q].f = space[a].pte[u].f
        BY <2>4, <3>1, <3>2
      <3>4. QED
        BY <3>1, <3>3 DEF HeapInv, WritableIsSole
    <2>9. UnmappedIsBlank'
      BY <2>3, <2>4 DEF HeapInv, UnmappedIsBlank
    <2>10. CowIsolated'
      <3> SUFFICES ASSUME NEW a \in Spaces, NEW u \in Pages, space'[a].pte[u].f # 0
                   PROVE  frame'[space'[a].pte[u].f].data = mem'[a][u]
        BY DEF CowIsolated
      <3>1. PICK b \in Spaces : space'[a].pte[u].f = space[b].pte[u].f /\ mem'[a] = mem[b]
        BY <2>3, <2>4
      <3>2. space[b].pte[u].f \in Frames
        BY <3>1 DEF HeapInv, SpaceType, Entry
      <3>3. QED
        BY <2>5, <3>1, <3>2 DEF HeapInv, CowIsolated
    <2>11. QED
      BY <2>2, <2>3, <2>6, <2>7, <2>8, <2>9, <2>10 DEF HeapInv, SpaceType
  <1>12. QED
    BY <1>10, <1>11

\* A space goes with its pages, and the objects in D that it held last with theirs.
LEMMA DestroyHeap ==
    ASSUME HeapInv, NEW s \in Spaces, NEW D,
           \A o \in Objs : obj'[o].fs = IF o \in D THEN <<>> ELSE obj[o].fs,
           NEW F, F = FreePages(frame, obj, D),
           frame' = [f \in Frames |->
                       [refs |-> F[f].refs - Cardinality({v \in Pages : space[s].pte[v].f = f}),
                        data |-> F[f].data]],
           space' = [space EXCEPT ![s] = Off], mem' = [mem EXCEPT ![s] = [v \in Pages |-> 0]]
    PROVE  HeapInv'
  <1>1. NoPages \in [Pages -> Entry] /\ Filled(NoPages)
        /\ \A v \in Pages : NoPages[v].f = 0 /\ ~NoPages[v].w
    BY NoPagesBlank
  <1>2. /\ space' \in [Spaces -> [on : BOOLEAN, pte : [Pages -> Entry]]]
        /\ space'[s].pte = NoPages /\ \A t \in Spaces : t # s => space'[t] = space[t]
    BY <1>1 DEF HeapInv, SpaceType, Off
  <1>3. MemType' /\ (\A v \in Pages : mem'[s][v] = 0) /\ \A t \in Spaces : t # s => mem'[t] = mem[t]
    BY MemoryAssumption DEF HeapInv, MemType
  <1>4. /\ \A v \in Pages : space'[s].pte[v].f = 0
        /\ \A t \in Spaces, v \in Pages : space'[t].pte[v].f # 0 =>
             t # s /\ space'[t].pte[v] = space[t].pte[v] /\ mem'[t][v] = mem[t][v]
    BY <1>1, <1>2, <1>3
  <1>5. ASSUME NEW f \in Frames
        PROVE  /\ frame'[f].data = frame[f].data /\ frame'[f] \in [refs : Nat, data : Values]
               /\ frame'[f].refs = Cardinality(HeapSlots(space', f)) + Cardinality(PageSlots(obj', f))
    <2> DEFINE I == {v \in Pages : space[s].pte[v].f = f}
               C == {k \in HeapSlots(space, f) : k[1] = s}
    <2>1. I \subseteq Pages
      OBVIOUS
    <2>2. IsFiniteSet(I)
      BY <2>1, MemoryAssumption, FS_Subset
    <2>3. \A k : k \in C <=> \E i \in I : k = <<s, i>>
      BY DEF HeapSlots
    <2>4. frame'[f] = [refs |-> frame[f].refs - Cardinality(DeadSlots(obj, D, f)) - Cardinality(I),
                       data |-> frame[f].data]
      BY DEF FreePages
    <2>5. HeapSlots(space', f) = HeapSlots(space, f) \ C /\ C \in SUBSET HeapSlots(space, f)
      <3>1. f # 0
        BY MemoryAssumption
      <3>2. ASSUME NEW k \in Spaces \X Pages
            PROVE  /\ k[1] = s => k \notin HeapSlots(space', f)
                   /\ k[1] # s => (k \in HeapSlots(space', f) <=> k \in HeapSlots(space, f))
        BY <1>2, <1>4, <3>1 DEF HeapSlots
      <3>3. HeapSlots(space', f) \subseteq Spaces \X Pages
            /\ HeapSlots(space, f) \subseteq Spaces \X Pages
        BY DEF HeapSlots
      <3>4. QED
        BY <3>2, <3>3, Zenon
    <2> HIDE DEF I, C
    <2>6. IsFiniteSet(C) /\ Cardinality(C) = Cardinality(I)
      BY <2>2, <2>3, CardColumn, Zenon
    <2>7. IsFiniteSet(HeapSlots(space, f)) /\ Cardinality(PageSlots(obj, f)) \in Nat
          /\ Cardinality(PageSlots(obj', f)) \in Nat
      BY SlotsFinite
    <2>8. /\ Cardinality(HeapSlots(space, f)) \in Nat /\ Cardinality(C) \in Nat
          /\ Cardinality(HeapSlots(space', f)) \in Nat
          /\ Cardinality(HeapSlots(space', f)) = Cardinality(HeapSlots(space, f)) - Cardinality(C)
      BY <2>5, <2>7, CardPart, Zenon
    <2>9. /\ Cardinality(DeadSlots(obj, D, f)) \in Nat
          /\ Cardinality(PageSlots(obj', f)) =
               Cardinality(PageSlots(obj, f)) - Cardinality(DeadSlots(obj, D, f))
      BY SlotsFreed
    <2>10. frame[f].refs = Cardinality(HeapSlots(space, f)) + Cardinality(PageSlots(obj, f))
           /\ frame[f].data \in Values
      BY DEF HeapInv, FrameRefsExact, FrameType
    <2>11. QED
      BY <2>4, <2>6, <2>7, <2>8, <2>9, <2>10
  <1>6. FrameType' /\ FrameRefsExact'
    BY <1>5, Zenon DEF FrameType, FrameRefsExact
  <1>7. HeapShape'
    BY <1>1, <1>2, <1>4 DEF HeapInv, HeapShape
  <1>8. WritableIsSole'
    BY <1>4 DEF HeapInv, WritableIsSole
  <1>9. UnmappedIsBlank'
    BY <1>2, <1>3 DEF HeapInv, UnmappedIsBlank
  <1>10. CowIsolated'
    <2> SUFFICES ASSUME NEW t \in Spaces, NEW u \in Pages, space'[t].pte[u].f # 0
                 PROVE  frame'[space'[t].pte[u].f].data = mem'[t][u]
      BY Zenon DEF CowIsolated
    <2>1. space'[t].pte[u] = space[t].pte[u] /\ mem'[t][u] = mem[t][u]
      BY <1>4
    <2>2. space[t].pte[u].f \in Frames
      BY <2>1 DEF HeapInv, SpaceType, Entry
    <2>3. frame[space[t].pte[u].f].data = mem[t][u]
      BY <2>1, Zenon DEF HeapInv, CowIsolated
    <2>4. frame'[space[t].pte[u].f].data = frame[space[t].pte[u].f].data
      BY <1>5, <2>2, Zenon
    <2>5. QED
      BY <2>1, <2>3, <2>4, Zenon
  <1>11. QED
    BY <1>2, <1>3, <1>6, <1>7, <1>8, <1>9, <1>10 DEF HeapInv, SpaceType
=============================================================================
