---------------------------- MODULE MemoryProofs ----------------------------
(***************************************************************************)
(* Page and DMA objects over the frames of HeapProofs, for any number of   *)
(* objects, windows, lists and calls: the counts of an object are those of *)
(* its holders, and no window or list entry outlives the frames it shows.  *)
(***************************************************************************)
EXTENDS HeapProofs

-----------------------------------------------------------------------------
(* The inductive invariant: what holds of objects and their holders.          *)

\* The types of objects, lists, windows and calls.
Object == [kind : {"none", "page", "dma"}, fs : Seq(Frames), refs : Nat, handles : Nat,
           own : Nat, pins : Nat, mapc : Nat, revoked : BOOLEAN, quit : BOOLEAN]
SgType ==
    /\ sg \in [Sgs -> [on : BOOLEAN, at : Seq([o : Objs, f : Frames]), revoked : BOOLEAN]]
    /\ \A g \in Sgs : Len(sg[g].at) <= ListMax /\ (~sg[g].on => sg[g].at = <<>>)
MapsType ==
    /\ IsFiniteSet(maps)
    /\ \A m \in maps : m \in [s : Spaces, w : Windows, o : Objs, fs : Seq(Frames \cup {0})]
MapCall == [op : {"map"}, s : Spaces, w : Windows, o : Objs, n : Nat]
RevokeCall == [op : {"revoke"}, o : Objs]
CallType == IsFiniteSet(call) /\ \A c \in call : c \in MapCall \/ c \in RevokeCall

\* An object with w windows, l list entries and c calls about to map it: it is
\* referenced while its slot is in use, only pages are pinned and counted when
\* mapped, and every reference is accounted for.
Sound(x, w, l, c) ==
    /\ x \in Object /\ Len(x.fs) <= PagesMax
    /\ x.kind = "none" => x = NoObj
    /\ x.kind # "none" => x.refs > 0
    /\ x.kind = "page" => x.mapc = w
    /\ x.kind = "dma" => x.mapc = 0 /\ x.pins = 0
    /\ x.quit => x.revoked /\ x.mapc = 0 /\ x.pins = 0
    /\ x.pins = x.own + l
    /\ x.refs = x.handles + w + x.pins + c
ObjsSound ==
    /\ obj \in [Objs -> Object]
    /\ \A o \in Objs : Sound(obj[o], Cardinality(WindowsOn(o)), Cardinality(EntriesOf(o)),
                             Cardinality(MapCalls(o)))

\* A window and a list entry show frames of their object; a call about to map has
\* its object, with as many pages as it read, and its window to itself.
WindowOk(m) == \A i \in DOMAIN m.fs : i \in DOMAIN obj[m.o].fs /\ obj[m.o].fs[i] = m.fs[i]
EntryOk(e) == \E k \in DOMAIN obj[e.o].fs : obj[e.o].fs[k] = e.f
CallOk(c) == obj[c.o].kind = "page" /\ c.n <= Len(obj[c.o].fs)
CallsAlone ==
    \A c \in call : c.op = "map" =>
      /\ ~\E m \in maps : m.s = c.s /\ m.w = c.w
      /\ \A d \in call : d.op = "map" /\ d.s = c.s => d = c

HoldersOk ==
    /\ \A m \in maps : WindowOk(m)
    /\ \A g \in Sgs : \A i \in DOMAIN sg[g].at : EntryOk(sg[g].at[i])
    /\ \A c \in call : c.op = "map" => CallOk(c)

ObjInv == SgType /\ MapsType /\ CallType /\ ObjsSound /\ HoldersOk /\ CallsAlone

MemInv == HeapInv /\ ObjInv

-----------------------------------------------------------------------------
(* Objects.                                                                   *)

\* The holders of an object can be counted.
LEMMA HoldersFinite ==
    ASSUME MapsType, CallType, NEW o
    PROVE  /\ IsFiniteSet(WindowsOn(o)) /\ Cardinality(WindowsOn(o)) \in Nat
           /\ IsFiniteSet(EntriesOf(o)) /\ Cardinality(EntriesOf(o)) \in Nat
           /\ IsFiniteSet(MapCalls(o)) /\ Cardinality(MapCalls(o)) \in Nat
  <1>1. IsFiniteSet(1 .. ListMax)
    BY MemoryAssumption, FS_Interval
  <1>2. IsFiniteSet(Sgs \X (1 .. ListMax))
    BY <1>1, MemoryAssumption, FS_Product, Zenon
  <1>3. /\ WindowsOn(o) \subseteq maps /\ EntriesOf(o) \subseteq Sgs \X (1 .. ListMax)
        /\ MapCalls(o) \subseteq call
    BY DEF WindowsOn, EntriesOf, MapCalls
  <1>4. IsFiniteSet(WindowsOn(o)) /\ IsFiniteSet(EntriesOf(o)) /\ IsFiniteSet(MapCalls(o))
    BY <1>2, <1>3, FS_Subset DEF MapsType, CallType
  <1>5. QED
    BY <1>4, FS_CardinalityType

\* The object has no holder.
Unheld(o) == WindowsOn(o) = {} /\ EntriesOf(o) = {} /\ MapCalls(o) = {}
NoneHeld == \A o \in Objs : obj[o].kind = "none" => Unheld(o)

\* Nothing holds an object whose slot is empty.
LEMMA NoneUnheld == MapsType /\ CallType /\ ObjsSound => NoneHeld
  <1> SUFFICES ASSUME MapsType, CallType, ObjsSound, NEW o \in Objs, obj[o].kind = "none"
               PROVE  Unheld(o)
    BY DEF NoneHeld
  <1>1. Sound(obj[o], Cardinality(WindowsOn(o)), Cardinality(EntriesOf(o)),
              Cardinality(MapCalls(o)))
    BY DEF ObjsSound
  <1>2. /\ IsFiniteSet(WindowsOn(o)) /\ Cardinality(WindowsOn(o)) \in Nat
        /\ IsFiniteSet(EntriesOf(o)) /\ Cardinality(EntriesOf(o)) \in Nat
        /\ IsFiniteSet(MapCalls(o)) /\ Cardinality(MapCalls(o)) \in Nat
    BY HoldersFinite
  <1>3. obj[o].refs = 0 /\ obj[o].handles = 0 /\ obj[o].pins = 0 /\ obj[o].own = 0
    BY <1>1 DEF Sound, NoObj
  <1>4. /\ Cardinality(WindowsOn(o)) = 0 /\ Cardinality(EntriesOf(o)) = 0
        /\ Cardinality(MapCalls(o)) = 0
    BY <1>1, <1>2, <1>3 DEF Sound
  <1>5. QED
    BY <1>2, <1>4, FS_EmptySet DEF Unheld

\* An element of a sequence.
LEMMA Element ==
    ASSUME NEW S, NEW q \in Seq(S), NEW i \in DOMAIN q
    PROVE  q[i] \in S
  OBVIOUS

\* What a step may do to an object that is held: destroy it when it is not held
\* any more, or keep its pages and add some.
Grown(x, y) ==
    /\ y.kind = x.kind /\ Len(x.fs) <= Len(y.fs)
    /\ \A i \in DOMAIN x.fs : i \in DOMAIN y.fs /\ y.fs[i] = x.fs[i]
StillThere(o) ==
    \/ Unheld(o)
    \/ obj'[o] = NoObj
    \/ Grown(obj[o], obj'[o])

\* With the new counts right, whoever holds an object before and after a step
\* still finds its pages.
LEMMA HoldersKept ==
    ASSUME ObjInv, SgType', MapsType', CallType', ObjsSound', \A o \in Objs : StillThere(o)
    PROVE  /\ \A m \in maps : m \in maps' => WindowOk(m)'
           /\ \A g \in Sgs : sg'[g].at = sg[g].at =>
                \A i \in DOMAIN sg[g].at : EntryOk(sg[g].at[i])'
           /\ \A c \in call : c \in call' /\ c.op = "map" => CallOk(c)'
  <1>0. NoneHeld'
    BY NoneUnheld, PTL
  <1>1. ASSUME NEW o \in Objs, obj'[o] = NoObj
        PROVE  Unheld(o)'
    <2>1. obj'[o].kind = "none"
      BY <1>1 DEF NoObj
    <2>2. QED
      BY <1>0, <2>1, Zenon DEF NoneHeld
  <1>2. ASSUME NEW m \in maps, m \in maps'
        PROVE  WindowOk(m)'
    <2>1. m.o \in Objs
      BY <1>2 DEF ObjInv, MapsType
    <2>2. m \in WindowsOn(m.o) /\ m \in WindowsOn(m.o)'
      BY <1>2 DEF WindowsOn
    <2>3. Grown(obj[m.o], obj'[m.o])
      BY <1>1, <2>1, <2>2 DEF StillThere, Unheld
    <2>4. QED
      BY <1>2, <2>3 DEF ObjInv, HoldersOk, WindowOk, Grown
  <1>3. ASSUME NEW g \in Sgs, sg'[g].at = sg[g].at, NEW i \in DOMAIN sg[g].at
        PROVE  EntryOk(sg[g].at[i])'
    <2> PICK e : e = sg[g].at[i]
      OBVIOUS
    <2>0. sg[g] \in [on : BOOLEAN, at : Seq([o : Objs, f : Frames]), revoked : BOOLEAN]
      BY <1>3, Zenon DEF ObjInv, SgType
    <2>1. /\ sg[g].at \in Seq([o : Objs, f : Frames]) /\ Len(sg[g].at) \in Nat
          /\ Len(sg[g].at) <= ListMax
      BY <1>3, <2>0 DEF ObjInv, SgType
    <2>1a. DOMAIN sg[g].at = 1 .. Len(sg[g].at)
      BY <2>1
    <2>1b. i \in Nat /\ i >= 1 /\ i <= Len(sg[g].at)
      BY <2>1, <2>1a
    <2>2. e \in [o : Objs, f : Frames]
      BY <1>3, <2>1, Element, Zenon
    <2>2a. i \in 1 .. ListMax
      BY <2>1, <2>1b, MemoryAssumption
    <2>3. e.o \in Objs
      BY <2>2
    <2>4. <<g, i>> \in EntriesOf(e.o) /\ <<g, i>> \in {k \in Sgs \X (1 .. ListMax) :
                   k[2] \in DOMAIN sg'[k[1]].at /\ sg'[k[1]].at[k[2]].o = e.o}
      BY <1>3, <2>2a DEF EntriesOf
    <2>4a. ~Unheld(e.o)
      BY <2>4 DEF Unheld
    <2>4b. obj'[e.o] # NoObj
      BY <1>1, <2>3, <2>4 DEF Unheld, EntriesOf
    <2>5. Grown(obj[e.o], obj'[e.o])
      BY <2>3, <2>4a, <2>4b DEF StillThere
    <2>6. EntryOk(e)
      BY <1>3 DEF ObjInv, HoldersOk
    <2>7. EntryOk(e)'
      BY <2>5, <2>6, Zenon DEF EntryOk, Grown
    <2>8. QED
      BY <1>3, <2>7, Zenon DEF EntryOk
  <1>4. ASSUME NEW c \in call, c \in call', c.op = "map"
        PROVE  CallOk(c)'
    <2>1. c.o \in Objs /\ c \in MapCall
      BY <1>4 DEF ObjInv, CallType, MapCall, RevokeCall
    <2>2. c \in MapCalls(c.o) /\ c \in MapCalls(c.o)'
      BY <1>4 DEF MapCalls
    <2>3. Grown(obj[c.o], obj'[c.o])
      BY <1>1, <2>1, <2>2 DEF StillThere, Unheld
    <2>4. obj[c.o].kind = "page" /\ c.n <= Len(obj[c.o].fs)
      BY <1>4 DEF ObjInv, HoldersOk, CallOk
    <2>5. /\ Len(obj[c.o].fs) \in Nat /\ Len(obj'[c.o].fs) \in Nat /\ c.n \in Nat
      BY <2>1 DEF ObjInv, ObjsSound, Object, MapCall
    <2>6. QED
      BY <2>3, <2>4, <2>5 DEF CallOk, Grown
  <1>5. QED
    BY <1>2, <1>3, <1>4

\* What the invariant says of one object.
LEMMA SoundObj ==
    ASSUME ObjInv, NEW o \in Objs
    PROVE  /\ Sound(obj[o], Cardinality(WindowsOn(o)), Cardinality(EntriesOf(o)),
                    Cardinality(MapCalls(o)))
           /\ Cardinality(WindowsOn(o)) \in Nat /\ Cardinality(EntriesOf(o)) \in Nat
           /\ Cardinality(MapCalls(o)) \in Nat
  BY HoldersFinite DEF ObjInv, ObjsSound

\* An object is its own continuation.
LEMMA GrownSelf ==
    ASSUME NEW x \in Object
    PROVE  Grown(x, x)
  <1>1. Len(x.fs) \in Nat
    BY DEF Object
  <1>2. QED
    BY <1>1 DEF Grown

\* A step that changes one object and none of its holders.
LEMMA OnlyObj ==
    ASSUME ObjInv, UNCHANGED <<maps, sg, call>>, NEW o \in Objs,
           obj' \in [Objs -> Object], \A p \in Objs : p # o => obj'[p] = obj[p],
           Sound(obj'[o], Cardinality(WindowsOn(o)), Cardinality(EntriesOf(o)),
                 Cardinality(MapCalls(o))),
           StillThere(o)
    PROVE  ObjInv'
  <1>1. SgType' /\ MapsType' /\ CallType' /\ CallsAlone'
    BY Zenon DEF ObjInv, SgType, MapsType, CallType, CallsAlone
  <1>2. \A p : WindowsOn(p)' = WindowsOn(p) /\ EntriesOf(p)' = EntriesOf(p) /\ MapCalls(p)' = MapCalls(p)
    BY DEF WindowsOn, EntriesOf, MapCalls
  <1>3. ObjsSound'
    BY <1>2 DEF ObjInv, ObjsSound
  <1>4. \A p \in Objs : StillThere(p)
    BY GrownSelf DEF ObjInv, ObjsSound, StillThere
  <1>5. HoldersOk'
    <2>1. /\ \A m \in maps : m \in maps' => WindowOk(m)'
          /\ \A g \in Sgs : sg'[g].at = sg[g].at =>
               \A i \in DOMAIN sg[g].at : EntryOk(sg[g].at[i])'
          /\ \A c \in call : c \in call' /\ c.op = "map" => CallOk(c)'
      BY <1>1, <1>3, <1>4, HoldersKept
    <2>2. QED
      BY <2>1 DEF HoldersOk
  <1>6. QED
    BY <1>1, <1>3, <1>5 DEF ObjInv

\* An empty slot without holders is sound.
LEMMA NoObjSound ==
    NoObj \in Object /\ NoObj.fs = <<>> /\ Sound(NoObj, 0, 0, 0)
  <1>1. NoObj \in Object /\ NoObj.fs = <<>>
    BY DEF NoObj, Object
  <1>2. Len(<<>>) = 0 /\ 0 <= PagesMax
    BY MemoryAssumption
  <1>3. QED
    BY <1>1, <1>2 DEF Sound, NoObj

\* A step that changes no frame and no pages of an object.
LEMMA FsKept ==
    ASSUME HeapInv, UNCHANGED <<frame, space, mem>>, \A p \in Objs : obj'[p].fs = obj[p].fs
    PROVE  HeapInv'
  <1>1. \A f : PageSlots(obj', f) = PageSlots(obj, f)
    BY DEF PageSlots
  <1>2. FrameType' /\ FrameRefsExact'
    BY <1>1 DEF HeapInv, FrameType, FrameRefsExact
  <1>3. QED
    BY <1>2, HeapKept

\* An object with another count or flag is an object.
LEMMA FieldSet ==
    ASSUME NEW x \in Object, NEW n \in Nat
    PROVE  /\ [x EXCEPT !.refs = n] \in Object /\ [x EXCEPT !.handles = n] \in Object
           /\ [x EXCEPT !.own = n] \in Object /\ [x EXCEPT !.pins = n] \in Object
           /\ [x EXCEPT !.mapc = n] \in Object
  <1>1. [x EXCEPT !.refs = n] \in Object
    BY DEF Object
  <1>2. [x EXCEPT !.handles = n] \in Object
    BY DEF Object
  <1>3. [x EXCEPT !.own = n] \in Object
    BY DEF Object
  <1>4. [x EXCEPT !.pins = n] \in Object
    BY DEF Object
  <1>5. [x EXCEPT !.mapc = n] \in Object
    BY DEF Object
  <1>6. QED
    BY <1>1, <1>2, <1>3, <1>4, <1>5

\* An object with other pages is an object.
LEMMA FsSet ==
    ASSUME NEW x \in Object, NEW fs \in Seq(Frames)
    PROVE  [x EXCEPT !.fs = fs] \in Object
  BY DEF Object

\* The counts of an object are naturals, its flags Booleans, its pages frames.
LEMMA FieldTypes ==
    ASSUME NEW x \in Object
    PROVE  /\ x.refs \in Nat /\ x.handles \in Nat /\ x.own \in Nat /\ x.pins \in Nat
           /\ x.mapc \in Nat /\ x.revoked \in BOOLEAN /\ x.quit \in BOOLEAN
           /\ x.kind \in {"none", "page", "dma"} /\ x.fs \in Seq(Frames) /\ Len(x.fs) \in Nat
  BY DEF Object

\* An object loses one reference, after O: destroyed with its frames if it was
\* the last.
LEMMA LetGo ==
    ASSUME HeapInv, ObjInv, UNCHANGED <<space, mem>>, NEW o \in Objs,
           NEW O \in [Objs -> Object], \A p \in Objs : p # o => O[p] = obj[p],
           O[o].fs = obj[o].fs, O[o].refs > 0, Settle(Released(O, frame, o, 1))
    PROVE  /\ HeapInv' /\ obj' \in [Objs -> Object]
           /\ \A p \in Objs : p # o => obj'[p] = obj[p]
           /\ O[o].refs = 1 => obj'[o] = NoObj
           /\ O[o].refs # 1 => obj'[o] = [O[o] EXCEPT !.refs = O[o].refs - 1]
  \* The frames of one object, one by one or all at once.
  <1>FreedAll. ASSUME NEW F, NEW O0, NEW o0 \in Objs, O0[o0].fs \in Seq(Frames), Len(O0[o0].fs) <= PagesMax
        PROVE  FreeAll(F, O0[o0].fs) = FreePages(F, O0, {o0})
    <2> USE <1>FreedAll
    <2> DEFINE fs == O0[o0].fs
    <2>1. Len(fs) \in Nat /\ DOMAIN fs = 1 .. Len(fs)
      OBVIOUS
    <2>2. ASSUME NEW f \in Frames
          PROVE  Times(fs, f) = Cardinality(DeadSlots(O0, {o0}, f))
      <3> DEFINE I == {i \in DOMAIN fs : fs[i] = f}
      <3>1. IsFiniteSet(1 .. Len(fs))
        BY <2>1, FS_Interval
      <3>2. IsFiniteSet(I)
        BY <2>1, <3>1, FS_Subset
      <3>3. \A i \in I : i \in 1 .. PagesMax
        BY <2>1, MemoryAssumption
      <3>4. \A k : k \in DeadSlots(O0, {o0}, f) <=> \E i \in I : k = <<o0, i>>
        <4>1. ASSUME NEW k \in DeadSlots(O0, {o0}, f)
              PROVE  \E i \in I : k = <<o0, i>>
          <5>1. k \in Objs \X (1 .. PagesMax) /\ k[1] = o0 /\ k[2] \in I
            BY <4>1 DEF DeadSlots, PageSlots
          <5>2. k = <<o0, k[2]>>
            BY <5>1
          <5>3. QED
            BY <5>1, <5>2
        <4>2. ASSUME NEW i \in I
              PROVE  <<o0, i>> \in DeadSlots(O0, {o0}, f)
          BY <3>3, <4>2 DEF DeadSlots, PageSlots
        <4>3. QED
          BY <4>1, <4>2, Zenon
      <3>5. Cardinality(DeadSlots(O0, {o0}, f)) = Cardinality(I)
        <4> HIDE DEF I
        <4> QED
          BY <3>2, <3>4, CardColumn, Zenon
      <3>6. QED
        BY <3>5 DEF Times
    <2>3. QED
      BY <2>2, Zenon DEF FreeAll, FreePages
  <1>1. CASE O[o].refs = 1
    <2>1. obj' = [O EXCEPT ![o] = NoObj] /\ frame' = FreeAll(frame, O[o].fs)
      BY <1>1 DEF Settle, Released
    <2>2. /\ obj' \in [Objs -> Object] /\ obj'[o] = NoObj /\ obj'[o].fs = <<>>
          /\ \A p \in Objs : p # o => obj'[p] = obj[p]
      BY <2>1, NoObjSound
    <2>3. O[o].fs \in Seq(Frames) /\ Len(O[o].fs) <= PagesMax
      BY SoundObj DEF Sound, Object
    <2>4. frame' = FreePages(frame, obj, {o})
      BY <2>1, <2>3, <1>FreedAll, Zenon
    <2>5. \A p \in Objs : obj'[p].fs = IF p \in {o} THEN <<>> ELSE obj[p].fs
      BY <2>2
    <2>6. HeapInv'
      BY <2>4, <2>5, FramesFreed
    <2>7. QED
      BY <1>1, <2>2, <2>6
  <1>2. CASE O[o].refs # 1
    <2>1. obj' = [O EXCEPT ![o].refs = O[o].refs - 1] /\ frame' = frame
      BY <1>2 DEF Settle, Released
    <2>2. /\ obj'[o] = [O[o] EXCEPT !.refs = O[o].refs - 1]
          /\ \A p \in Objs : p # o => obj'[p] = obj[p]
      BY <2>1
    <2>3. \A p \in Objs : obj'[p].fs = obj[p].fs
      BY <2>2 DEF Object
    <2>4. obj'[o] \in Object
      <3>1. O[o] \in Object /\ O[o].refs - 1 \in Nat
        BY <1>2 DEF Object
      <3>2. QED
        BY <2>2, <3>1, FieldSet, Zenon
    <2>5. obj' \in [Objs -> Object]
      BY <2>1, <2>4
    <2>6. HeapInv'
      BY <2>1, <2>3, FsKept
    <2>7. QED
      BY <1>2, <2>2, <2>5, <2>6
  <1>3. QED
    BY <1>1, <1>2

\* An object that is held is in use.
LEMMA HeldInUse ==
    ASSUME NEW x, NEW w \in Nat, NEW l \in Nat, NEW c \in Nat, Sound(x, w, l, c),
           x.handles > 0 \/ x.pins > 0 \/ w > 0 \/ l > 0 \/ c > 0
    PROVE  x.kind # "none" /\ x.refs > 0
  <1>1. x \in Object
    BY DEF Sound
  <1>2. x.refs > 0
    BY <1>1, FieldTypes DEF Sound
  <1>3. NoObj.refs = 0
    BY DEF NoObj
  <1>4. QED
    BY <1>2, <1>3 DEF Sound

\* n list entries more.
Listed(x, n) == [x EXCEPT !.pins = x.pins + n, !.refs = x.refs + n]

\* n list entries less, not the last references.
Unlisted(x, n) == [x EXCEPT !.pins = x.pins - n, !.refs = x.refs - n]

\* An object that loses list entries, not its last references, stays sound.
LEMMA UnlistedSound ==
    ASSUME NEW x, NEW w \in Nat, NEW l \in Nat, NEW c \in Nat, Sound(x, w, l, c),
           NEW n \in Nat, n <= l, x.refs # n, l > 0
    PROVE  LET y == Unlisted(x, n)
           IN  y \in Object /\ Sound(y, w, l - n, c) /\ y.fs = x.fs /\ y.kind = x.kind
  <1> DEFINE y == Unlisted(x, n)
             k == l - n
  <1>1. /\ x \in Object /\ x.kind # "none" /\ x.refs > 0
        /\ x.pins = x.own + l /\ x.refs = x.handles + w + x.pins + c
        /\ x.kind = "page" => x.mapc = w
    BY HeldInUse DEF Sound
  <1>2. /\ x.refs \in Nat /\ x.handles \in Nat /\ x.own \in Nat /\ x.pins \in Nat
        /\ x.mapc \in Nat /\ x.quit \in BOOLEAN
    BY <1>1, FieldTypes
  <1>3. x.pins - n \in Nat /\ x.refs - n \in Nat /\ k \in Nat
    BY <1>1, <1>2
  <1>4. y \in Object
    BY <1>1, <1>3, FieldSet, Zenon DEF Unlisted
  <1>5. /\ y.kind = x.kind /\ y.fs = x.fs /\ y.refs = x.refs - n
        /\ y.handles = x.handles /\ y.own = x.own /\ y.pins = x.pins - n
        /\ y.mapc = x.mapc /\ y.revoked = x.revoked /\ y.quit = x.quit
    BY <1>1 DEF Object, Unlisted
  <1>6. k = l - n
    OBVIOUS
  <1> HIDE DEF y, k
  <1>7. y.refs = y.handles + w + y.pins + c
    BY <1>1, <1>2, <1>3, <1>5, <1>6
  <1>7a. y.refs > 0
    BY <1>2, <1>3, <1>5
  <1>8. y.pins = y.own + k /\ Len(y.fs) <= PagesMax
    BY <1>1, <1>2, <1>5, <1>6 DEF Sound
  <1>9. (y.kind = "page" => y.mapc = w) /\ (y.kind = "dma" => y.mapc = 0 /\ y.pins = 0)
    BY <1>1, <1>2, <1>3, <1>5, <1>6 DEF Sound
  <1>10. y.quit => y.revoked /\ y.mapc = 0 /\ y.pins = 0
    BY <1>1, <1>2, <1>3, <1>5, <1>6 DEF Sound
  <1>11. Sound(y, w, k, c)
    BY <1>1, <1>4, <1>5, <1>7, <1>7a, <1>8, <1>9, <1>10 DEF Sound
  <1>12. QED
    BY <1>4, <1>5, <1>11 DEF y, k

-----------------------------------------------------------------------------
(* Handles, pins and pages.                                                   *)

\* Another handle of the object is another reference.
LEMMA HandleOpenInv ==
    ASSUME MemInv, NEW o \in Objs, handle_open(o)
    PROVE  MemInv'
  \* Another handle.
  <1>OpenSound. ASSUME NEW x, NEW w \in Nat, NEW l \in Nat, NEW c \in Nat, Sound(x, w, l, c),
               x.handles > 0
        PROVE  LET y == [x EXCEPT !.handles = x.handles + 1, !.refs = x.refs + 1]
               IN  y \in Object /\ Sound(y, w, l, c) /\ y.fs = x.fs /\ y.kind = x.kind
    <2> USE <1>OpenSound
    <2> DEFINE y == [x EXCEPT !.handles = x.handles + 1, !.refs = x.refs + 1]
    <2>1. /\ x \in Object /\ x.kind # "none" /\ x.refs > 0
          /\ x.pins = x.own + l /\ x.refs = x.handles + w + x.pins + c
          /\ x.kind = "page" => x.mapc = w
      BY HeldInUse DEF Sound
    <2>2. /\ x.refs \in Nat /\ x.handles \in Nat /\ x.own \in Nat /\ x.pins \in Nat
          /\ x.mapc \in Nat /\ x.quit \in BOOLEAN
      BY <2>1, FieldTypes
    <2>3. x.handles + 1 \in Nat /\ x.refs + 1 \in Nat
      BY <2>1, <2>2
    <2>4. y \in Object
      BY <2>1, <2>3, FieldSet, Zenon
    <2>5. /\ y.kind = x.kind /\ y.fs = x.fs /\ y.refs = x.refs + 1
          /\ y.handles = x.handles + 1 /\ y.own = x.own /\ y.pins = x.pins
          /\ y.mapc = x.mapc /\ y.revoked = x.revoked /\ y.quit = x.quit
      BY <2>1 DEF Object
    <2> HIDE DEF y
    <2>7. y.refs = y.handles + w + y.pins + c
      BY <2>1, <2>2, <2>3, <2>5
    <2>7a. y.refs > 0
      BY <2>1, <2>2, <2>3, <2>5
    <2>8. y.pins = y.own + l /\ Len(y.fs) <= PagesMax
      BY <2>1, <2>2, <2>5 DEF Sound
    <2>9. (y.kind = "page" => y.mapc = w) /\ (y.kind = "dma" => y.mapc = 0 /\ y.pins = 0)
      BY <2>1, <2>2, <2>3, <2>5 DEF Sound
    <2>10. y.quit => y.revoked /\ y.mapc = 0 /\ y.pins = 0
      BY <2>1, <2>2, <2>3, <2>5 DEF Sound
    <2>11. Sound(y, w, l, c)
      BY <2>1, <2>4, <2>5, <2>7, <2>7a, <2>8, <2>9, <2>10 DEF Sound
    <2>12. QED
      BY <2>4, <2>5, <2>11 DEF y
  <1> DEFINE x == obj[o]
             w == Cardinality(WindowsOn(o))
             l == Cardinality(EntriesOf(o))
             c == Cardinality(MapCalls(o))
             y == [x EXCEPT !.handles = x.handles + 1, !.refs = x.refs + 1]
  <1>1. Sound(x, w, l, c) /\ w \in Nat /\ l \in Nat /\ c \in Nat
    BY SoundObj DEF MemInv
  <1>2. /\ x.handles > 0 /\ obj \in [Objs -> Object]
        /\ UNCHANGED <<frame, space, maps, sg, call, mem>>
        /\ obj' = [obj EXCEPT ![o].handles = @ + 1, ![o].refs = @ + 1]
    BY DEF handle_open, MemInv, ObjInv, ObjsSound
  <1>3. obj' = [obj EXCEPT ![o] = y]
    BY <1>2, Zenon DEF Object
  <1> HIDE DEF x, w, l, c
  <1>4. y \in Object /\ Sound(y, w, l, c) /\ y.fs = x.fs /\ y.kind = x.kind
    BY <1>1, <1>2, <1>OpenSound, Zenon
  <1> HIDE DEF y
  <1>5. obj' \in [Objs -> Object] /\ obj'[o] = y /\ \A p \in Objs : p # o => obj'[p] = obj[p]
    BY <1>2, <1>3, <1>4, Zenon
  <1>6. Grown(x, y)
    BY <1>1, <1>4, FieldTypes DEF Grown, Sound
  <1>7. ObjInv'
    BY <1>2, <1>4, <1>5, <1>6, OnlyObj DEF MemInv, StillThere, x, w, l, c
  <1>8. HeapInv'
    BY <1>2, <1>4, <1>5, FsKept DEF MemInv, x
  <1>9. QED
    BY <1>7, <1>8 DEF MemInv

\* page_resource_pin counts its pin as a reference.
LEMMA PinInv ==
    ASSUME MemInv, NEW o \in Objs, page_resource_pin(o)
    PROVE  MemInv'
  \* Another pin by its owner.
  <1>PinSound. ASSUME NEW x, NEW w \in Nat, NEW l \in Nat, NEW c \in Nat, Sound(x, w, l, c),
               x.handles > 0, x.kind = "page", ~x.revoked
        PROVE  LET y == [x EXCEPT !.pins = x.pins + 1, !.refs = x.refs + 1, !.own = x.own + 1]
               IN  y \in Object /\ Sound(y, w, l, c) /\ y.fs = x.fs /\ y.kind = x.kind
    <2> USE <1>PinSound
    <2> DEFINE y == [x EXCEPT !.pins = x.pins + 1, !.refs = x.refs + 1, !.own = x.own + 1]
    <2>1. /\ x \in Object /\ x.kind # "none" /\ x.refs > 0
          /\ x.pins = x.own + l /\ x.refs = x.handles + w + x.pins + c
          /\ x.kind = "page" => x.mapc = w
      BY HeldInUse DEF Sound
    <2>2. /\ x.refs \in Nat /\ x.handles \in Nat /\ x.own \in Nat /\ x.pins \in Nat
          /\ x.mapc \in Nat /\ x.quit \in BOOLEAN
      BY <2>1, FieldTypes
    <2>3. x.pins + 1 \in Nat /\ x.refs + 1 \in Nat /\ x.own + 1 \in Nat
      BY <2>1, <2>2
    <2>4. y \in Object
      BY <2>1, <2>3, FieldSet, Zenon
    <2>5. /\ y.kind = x.kind /\ y.fs = x.fs /\ y.refs = x.refs + 1
          /\ y.handles = x.handles /\ y.own = x.own + 1 /\ y.pins = x.pins + 1
          /\ y.mapc = x.mapc /\ y.revoked = x.revoked /\ y.quit = x.quit
      BY <2>1 DEF Object
    <2> HIDE DEF y
    <2>7. y.refs = y.handles + w + y.pins + c
      BY <2>1, <2>2, <2>3, <2>5
    <2>7a. y.refs > 0
      BY <2>1, <2>2, <2>3, <2>5
    <2>8. y.pins = y.own + l /\ Len(y.fs) <= PagesMax
      BY <2>1, <2>2, <2>5 DEF Sound
    <2>9. (y.kind = "page" => y.mapc = w) /\ (y.kind = "dma" => y.mapc = 0 /\ y.pins = 0)
      BY <2>1, <2>2, <2>3, <2>5 DEF Sound
    <2>10. y.quit => y.revoked /\ y.mapc = 0 /\ y.pins = 0
      BY <2>1, <2>2, <2>3, <2>5 DEF Sound
    <2>11. Sound(y, w, l, c)
      BY <2>1, <2>4, <2>5, <2>7, <2>7a, <2>8, <2>9, <2>10 DEF Sound
    <2>12. QED
      BY <2>4, <2>5, <2>11 DEF y
  <1> DEFINE x == obj[o]
             w == Cardinality(WindowsOn(o))
             l == Cardinality(EntriesOf(o))
             c == Cardinality(MapCalls(o))
             y == [x EXCEPT !.pins = x.pins + 1, !.refs = x.refs + 1, !.own = x.own + 1]
  <1>1. Sound(x, w, l, c) /\ w \in Nat /\ l \in Nat /\ c \in Nat
    BY SoundObj DEF MemInv
  <1>2. /\ x.kind = "page" /\ ~x.revoked /\ x.handles > 0 /\ obj \in [Objs -> Object]
        /\ UNCHANGED <<frame, space, maps, sg, call, mem>>
        /\ obj' = [obj EXCEPT ![o].pins = @ + 1, ![o].refs = @ + 1, ![o].own = @ + 1]
    BY DEF page_resource_pin, MemInv, ObjInv, ObjsSound
  <1>3. obj' = [obj EXCEPT ![o] = y]
    BY <1>2 DEF Object
  <1> HIDE DEF x, w, l, c
  <1>4. y \in Object /\ Sound(y, w, l, c) /\ y.fs = x.fs /\ y.kind = x.kind
    BY <1>1, <1>2, <1>PinSound, Zenon
  <1> HIDE DEF y
  <1>5. obj' \in [Objs -> Object] /\ obj'[o] = y /\ \A p \in Objs : p # o => obj'[p] = obj[p]
    BY <1>2, <1>3, <1>4, Zenon
  <1>6. Grown(x, y)
    BY <1>1, <1>4, FieldTypes DEF Grown, Sound
  <1>7. ObjInv'
    BY <1>2, <1>4, <1>5, <1>6, OnlyObj DEF MemInv, StillThere, x, w, l, c
  <1>8. HeapInv'
    BY <1>2, <1>4, <1>5, FsKept DEF MemInv, x
  <1>9. QED
    BY <1>7, <1>8 DEF MemInv

\* A handle is closed, and with the last reference the object goes.
LEMMA HandleCloseInv ==
    ASSUME MemInv, NEW o \in Objs, handle_close(o)
    PROVE  MemInv'
  \* A handle less, not the last reference.
  <1>CloseSound. ASSUME NEW x, NEW w \in Nat, NEW l \in Nat, NEW c \in Nat, Sound(x, w, l, c),
               x.handles > 0, x.refs # 1
        PROVE  LET y == [x EXCEPT !.handles = x.handles - 1, !.refs = x.refs - 1]
               IN  y \in Object /\ Sound(y, w, l, c) /\ y.fs = x.fs /\ y.kind = x.kind
    <2> USE <1>CloseSound
    <2> DEFINE y == [x EXCEPT !.handles = x.handles - 1, !.refs = x.refs - 1]
    <2>1. /\ x \in Object /\ x.kind # "none" /\ x.refs > 0
          /\ x.pins = x.own + l /\ x.refs = x.handles + w + x.pins + c
          /\ x.kind = "page" => x.mapc = w
      BY HeldInUse DEF Sound
    <2>2. /\ x.refs \in Nat /\ x.handles \in Nat /\ x.own \in Nat /\ x.pins \in Nat
          /\ x.mapc \in Nat /\ x.quit \in BOOLEAN
      BY <2>1, FieldTypes
    <2>3. x.handles - 1 \in Nat /\ x.refs - 1 \in Nat
      BY <2>1, <2>2
    <2>4. y \in Object
      BY <2>1, <2>3, FieldSet, Zenon
    <2>5. /\ y.kind = x.kind /\ y.fs = x.fs /\ y.refs = x.refs - 1
          /\ y.handles = x.handles - 1 /\ y.own = x.own /\ y.pins = x.pins
          /\ y.mapc = x.mapc /\ y.revoked = x.revoked /\ y.quit = x.quit
      BY <2>1 DEF Object
    <2> HIDE DEF y
    <2>7. y.refs = y.handles + w + y.pins + c
      BY <2>1, <2>2, <2>3, <2>5
    <2>7a. y.refs > 0
      BY <2>1, <2>2, <2>3, <2>5
    <2>8. y.pins = y.own + l /\ Len(y.fs) <= PagesMax
      BY <2>1, <2>2, <2>5 DEF Sound
    <2>9. (y.kind = "page" => y.mapc = w) /\ (y.kind = "dma" => y.mapc = 0 /\ y.pins = 0)
      BY <2>1, <2>2, <2>3, <2>5 DEF Sound
    <2>10. y.quit => y.revoked /\ y.mapc = 0 /\ y.pins = 0
      BY <2>1, <2>2, <2>3, <2>5 DEF Sound
    <2>11. Sound(y, w, l, c)
      BY <2>1, <2>4, <2>5, <2>7, <2>7a, <2>8, <2>9, <2>10 DEF Sound
    <2>12. QED
      BY <2>4, <2>5, <2>11 DEF y
  <1> DEFINE x == obj[o]
             w == Cardinality(WindowsOn(o))
             l == Cardinality(EntriesOf(o))
             c == Cardinality(MapCalls(o))
             O == [obj EXCEPT ![o].handles = @ - 1]
             y == [x EXCEPT !.handles = x.handles - 1]
             z == [x EXCEPT !.handles = x.handles - 1, !.refs = x.refs - 1]
  <1>1. Sound(x, w, l, c) /\ w \in Nat /\ l \in Nat /\ c \in Nat /\ x \in Object
    BY SoundObj DEF MemInv, Sound
  <1>2. /\ x.handles > 0 /\ obj \in [Objs -> Object] /\ UNCHANGED <<space, maps, sg, call, mem>>
        /\ Settle(Released(O, frame, o, 1))
    BY DEF handle_close, MemInv, ObjInv, ObjsSound
  <1>3. O = [obj EXCEPT ![o] = y]
    BY <1>2 DEF Object
  <1>4. /\ x.refs \in Nat /\ x.handles \in Nat /\ x.own \in Nat /\ x.pins \in Nat
        /\ x.pins = x.own + l /\ x.refs = x.handles + w + x.pins + c
    BY <1>1, FieldTypes DEF Sound
  <1>4a. x.handles > 0
    BY <1>2
  <1>5. /\ x.refs > 0 /\ (x.own > 0 => x.pins > 0)
        /\ x.refs = 1 => w = 0 /\ l = 0 /\ c = 0
    <2> HIDE DEF x, w, l, c, O
    <2>1. x.refs > 0 /\ (x.own > 0 => x.pins > 0)
      BY <1>1, <1>4, <1>4a
    <2>2. x.refs = 1 => w = 0 /\ l = 0 /\ c = 0
      BY <1>1, <1>4, <1>4a
    <2>3. QED
      BY <2>1, <2>2
  <1>6. y \in Object
    <2>1. x.handles - 1 \in Nat
      <3> HIDE DEF x, l
      <3> QED
        BY <1>1, <1>4, <1>4a, <1>5
    <2>2. QED
      <3> HIDE DEF x
      <3> QED
        BY <1>1, <2>1, FieldSet, Zenon
  <1>7. y.fs = x.fs /\ y.refs = x.refs /\ [y EXCEPT !.refs = y.refs - 1] = z
    BY <1>1 DEF Object
  <1> HIDE DEF y, O
  <1>8. O \in [Objs -> Object] /\ O[o] = y /\ \A p \in Objs : p # o => O[p] = obj[p]
    BY <1>2, <1>3, <1>6
  <1>9. /\ HeapInv' /\ obj' \in [Objs -> Object]
        /\ \A p \in Objs : p # o => obj'[p] = obj[p]
        /\ O[o].refs = 1 => obj'[o] = NoObj
        /\ O[o].refs # 1 => obj'[o] = [O[o] EXCEPT !.refs = O[o].refs - 1]
    <2>1. O[o].fs = obj[o].fs /\ O[o].refs > 0
      BY <1>5, <1>7, <1>8
    <2>2. QED
      BY <1>2, <1>8, <2>1, LetGo DEF MemInv
  <1>10. Sound(obj'[o], w, l, c) /\ StillThere(o)
    <2>1. CASE x.refs = 1
      <3>1. obj'[o] = NoObj /\ w = 0 /\ l = 0 /\ c = 0
        BY <1>5, <1>7, <1>8, <1>9, <2>1
      <3>2. QED
        <4> HIDE DEF w, l, c
        <4> QED
          BY <3>1, NoObjSound DEF StillThere
    <2>2. CASE x.refs # 1
      <3>1. obj'[o] = z
        BY <1>7, <1>8, <1>9, <2>2
      <3> HIDE DEF x, w, l, c
      <3>2. z \in Object /\ Sound(z, w, l, c) /\ z.fs = x.fs /\ z.kind = x.kind
        BY <1>1, <1>4a, <1>5, <2>2, <1>CloseSound, Zenon
      <3> HIDE DEF z
      <3>3. Grown(x, z)
        BY <1>1, <3>2, FieldTypes DEF Grown
      <3>4. QED
        BY <3>1, <3>2, <3>3 DEF StillThere, x
    <2>3. QED
      BY <2>1, <2>2
  <1>11. ObjInv'
    BY <1>2, <1>9, <1>10, OnlyObj DEF MemInv
  <1>12. QED
    BY <1>9, <1>11 DEF MemInv

\* A pin is returned.
LEMMA UnpinInv ==
    ASSUME MemInv, NEW o \in Objs, page_resource_unpin(o)
    PROVE  MemInv'
  \* A pin less, not the last reference.
  <1>UnpinSound. ASSUME NEW x, NEW w \in Nat, NEW l \in Nat, NEW c \in Nat, Sound(x, w, l, c),
               x.own > 0, x.refs # 1, x.pins > 0
        PROVE  LET y == [x EXCEPT !.pins = x.pins - 1, !.own = x.own - 1, !.refs = x.refs - 1]
               IN  y \in Object /\ Sound(y, w, l, c) /\ y.fs = x.fs /\ y.kind = x.kind
    <2> USE <1>UnpinSound
    <2> DEFINE y == [x EXCEPT !.pins = x.pins - 1, !.own = x.own - 1, !.refs = x.refs - 1]
    <2>1. /\ x \in Object /\ x.kind # "none" /\ x.refs > 0
          /\ x.pins = x.own + l /\ x.refs = x.handles + w + x.pins + c
          /\ x.kind = "page" => x.mapc = w
      BY HeldInUse DEF Sound
    <2>2. /\ x.refs \in Nat /\ x.handles \in Nat /\ x.own \in Nat /\ x.pins \in Nat
          /\ x.mapc \in Nat /\ x.quit \in BOOLEAN
      BY <2>1, FieldTypes
    <2>3. x.pins - 1 \in Nat /\ x.own - 1 \in Nat /\ x.refs - 1 \in Nat
      BY <2>1, <2>2
    <2>4. y \in Object
      BY <2>1, <2>3, FieldSet, Zenon
    <2>5. /\ y.kind = x.kind /\ y.fs = x.fs /\ y.refs = x.refs - 1
          /\ y.handles = x.handles /\ y.own = x.own - 1 /\ y.pins = x.pins - 1
          /\ y.mapc = x.mapc /\ y.revoked = x.revoked /\ y.quit = x.quit
      BY <2>1 DEF Object
    <2> HIDE DEF y
    <2>7. y.refs = y.handles + w + y.pins + c
      BY <2>1, <2>2, <2>3, <2>5
    <2>7a. y.refs > 0
      BY <2>1, <2>2, <2>3, <2>5
    <2>8. y.pins = y.own + l /\ Len(y.fs) <= PagesMax
      BY <2>1, <2>2, <2>5 DEF Sound
    <2>9. (y.kind = "page" => y.mapc = w) /\ (y.kind = "dma" => y.mapc = 0 /\ y.pins = 0)
      BY <2>1, <2>2, <2>3, <2>5 DEF Sound
    <2>10. y.quit => y.revoked /\ y.mapc = 0 /\ y.pins = 0
      BY <2>1, <2>2, <2>3, <2>5 DEF Sound
    <2>11. Sound(y, w, l, c)
      BY <2>1, <2>4, <2>5, <2>7, <2>7a, <2>8, <2>9, <2>10 DEF Sound
    <2>12. QED
      BY <2>4, <2>5, <2>11 DEF y
  <1> DEFINE x == obj[o]
             w == Cardinality(WindowsOn(o))
             l == Cardinality(EntriesOf(o))
             c == Cardinality(MapCalls(o))
             O == [obj EXCEPT ![o].pins = @ - 1, ![o].own = @ - 1]
             y == [x EXCEPT !.pins = x.pins - 1, !.own = x.own - 1]
             z == [x EXCEPT !.pins = x.pins - 1, !.own = x.own - 1, !.refs = x.refs - 1]
  <1>1. Sound(x, w, l, c) /\ w \in Nat /\ l \in Nat /\ c \in Nat /\ x \in Object
    BY SoundObj DEF MemInv, Sound
  <1>2. /\ x.own > 0 /\ obj \in [Objs -> Object] /\ UNCHANGED <<space, maps, sg, call, mem>>
        /\ Settle(Released(O, frame, o, 1))
    BY DEF page_resource_unpin, MemInv, ObjInv, ObjsSound
  <1>3. O = [obj EXCEPT ![o] = y]
    BY <1>2, Zenon DEF Object
  <1>4. /\ x.refs \in Nat /\ x.handles \in Nat /\ x.own \in Nat /\ x.pins \in Nat
        /\ x.pins = x.own + l /\ x.refs = x.handles + w + x.pins + c
    BY <1>1, FieldTypes DEF Sound
  <1>4a. x.own > 0
    BY <1>2
  <1>5. /\ x.refs > 0 /\ (x.own > 0 => x.pins > 0)
        /\ x.refs = 1 => w = 0 /\ l = 0 /\ c = 0
    <2> HIDE DEF x, w, l, c, O
    <2>1. x.refs > 0 /\ (x.own > 0 => x.pins > 0)
      BY <1>1, <1>4, <1>4a
    <2>2. x.refs = 1 => w = 0 /\ l = 0 /\ c = 0
      BY <1>1, <1>4, <1>4a
    <2>3. QED
      BY <2>1, <2>2
  <1>6. y \in Object
    <2>1. x.pins - 1 \in Nat /\ x.own - 1 \in Nat
      <3> HIDE DEF x, l
      <3> QED
        BY <1>1, <1>4, <1>4a, <1>5
    <2>2. QED
      <3> HIDE DEF x
      <3> QED
        BY <1>1, <2>1, FieldSet, Zenon
  <1>7. y.fs = x.fs /\ y.refs = x.refs /\ [y EXCEPT !.refs = y.refs - 1] = z
    BY <1>1 DEF Object
  <1> HIDE DEF y, O
  <1>8. O \in [Objs -> Object] /\ O[o] = y /\ \A p \in Objs : p # o => O[p] = obj[p]
    BY <1>2, <1>3, <1>6
  <1>9. /\ HeapInv' /\ obj' \in [Objs -> Object]
        /\ \A p \in Objs : p # o => obj'[p] = obj[p]
        /\ O[o].refs = 1 => obj'[o] = NoObj
        /\ O[o].refs # 1 => obj'[o] = [O[o] EXCEPT !.refs = O[o].refs - 1]
    <2>1. O[o].fs = obj[o].fs /\ O[o].refs > 0
      BY <1>5, <1>7, <1>8
    <2>2. QED
      BY <1>2, <1>8, <2>1, LetGo DEF MemInv
  <1>10. Sound(obj'[o], w, l, c) /\ StillThere(o)
    <2>1. CASE x.refs = 1
      <3>1. obj'[o] = NoObj /\ w = 0 /\ l = 0 /\ c = 0
        BY <1>5, <1>7, <1>8, <1>9, <2>1
      <3>2. QED
        <4> HIDE DEF w, l, c
        <4> QED
          BY <3>1, NoObjSound DEF StillThere
    <2>2. CASE x.refs # 1
      <3>1. obj'[o] = z
        BY <1>7, <1>8, <1>9, <2>2
      <3> HIDE DEF x, w, l, c
      <3>2. z \in Object /\ Sound(z, w, l, c) /\ z.fs = x.fs /\ z.kind = x.kind
        BY <1>1, <1>4a, <1>5, <2>2, <1>UnpinSound, Zenon
      <3> HIDE DEF z
      <3>3. Grown(x, z)
        BY <1>1, <3>2, FieldTypes DEF Grown
      <3>4. QED
        BY <3>1, <3>2, <3>3 DEF StillThere, x
    <2>3. QED
      BY <2>1, <2>2
  <1>11. ObjInv'
    BY <1>2, <1>9, <1>10, OnlyObj DEF MemInv
  <1>12. QED
    BY <1>9, <1>11 DEF MemInv

\* A slot in use again, with frames that were free.
LEMMA AllocateInv ==
    ASSUME MemInv, NEW o \in Objs, NEW kind \in {"page", "dma"}, NEW n \in 1 .. PagesMax,
           NEW fs \in [1 .. n -> FreeFrames(frame)],
           \A i, j \in 1 .. n : fs[i] = fs[j] => i = j,
           obj[o].kind = "none", frame' = Taken(frame, fs),
           obj' = [obj EXCEPT ![o] = New(kind, fs)], UNCHANGED <<space, maps, sg, call, mem>>
    PROVE  MemInv'
  \* A new object: its creator's handle and nothing else.
  <1>NewSound. ASSUME NEW kind0 \in {"page", "dma"}, NEW fs0 \in Seq(Frames), Len(fs0) <= PagesMax
        PROVE  /\ New(kind0, fs0) \in Object /\ New(kind0, fs0).fs = fs0
               /\ Sound(New(kind0, fs0), 0, 0, 0)
    <2> USE <1>NewSound
    <2> DEFINE x == New(kind0, fs0)
               a == [NoObj EXCEPT !.kind = kind0]
               b == [a EXCEPT !.fs = fs0]
               d == [b EXCEPT !.refs = 1]
    <2>1. x = [d EXCEPT !.handles = 1]
      BY DEF New
    <2>2. x \in Object
      <3>1. a \in Object
        BY NoObjSound, Zenon DEF Object
      <3> HIDE DEF a
      <3>2. b \in Object
        BY <3>1, FsSet
      <3> HIDE DEF b
      <3>3. d \in Object
        BY <3>2, FieldSet, Zenon
      <3> HIDE DEF d, x
      <3>4. QED
        BY <2>1, <3>3, FieldSet, Zenon
    <2>3. /\ x.kind = kind0 /\ x.fs = fs0 /\ x.refs = 1 /\ x.handles = 1 /\ x.own = 0
          /\ x.pins = 0 /\ x.mapc = 0 /\ x.revoked = FALSE /\ x.quit = FALSE
      BY DEF New, NoObj
    <2> HIDE DEF x
    <2>4. QED
      BY <2>2, <2>3 DEF Sound, x
  <1>1. n \in Nat /\ fs \in Seq(Frames) /\ Len(fs) = n /\ n <= PagesMax
    BY MemoryAssumption DEF FreeFrames
  <1>2. obj[o] = NoObj
    BY SoundObj DEF MemInv, Sound
  <1>3. /\ New(kind, fs) \in Object /\ New(kind, fs).fs = fs
        /\ Sound(New(kind, fs), 0, 0, 0)
    BY <1>1, <1>NewSound
  <1>4. obj \in [Objs -> Object]
    BY DEF MemInv, ObjInv, ObjsSound
  <1>5. /\ obj' \in [Objs -> Object] /\ obj'[o] = New(kind, fs)
        /\ \A p \in Objs : p # o => obj'[p] = obj[p]
    BY <1>3, <1>4
  <1>6. Unheld(o)
    BY NoneUnheld DEF NoneHeld, MemInv, ObjInv
  <1>7. /\ Cardinality(WindowsOn(o)) = 0 /\ Cardinality(EntriesOf(o)) = 0
        /\ Cardinality(MapCalls(o)) = 0
    BY <1>6, FS_EmptySet DEF Unheld
  <1>8. ObjInv'
    BY <1>3, <1>5, <1>6, <1>7, OnlyObj DEF MemInv, StillThere
  <1>9. HeapInv'
    <2>1. obj[o].fs = <<>>
      BY <1>2 DEF NoObj
    <2>2. obj[o].fs \in Seq(Frames) /\ Len(obj[o].fs) + n <= PagesMax
      BY <1>1, <2>1
    <2>3. obj'[o].fs = obj[o].fs \o fs
      BY <1>1, <1>3, <1>5, <2>1
    <2>4. \A p \in Objs \ {o} : obj'[p].fs = obj[p].fs
      BY <1>5
    <2>5. QED
      BY <1>1, <2>2, <2>3, <2>4, PagesTaken, Zenon DEF MemInv
  <1>10. QED
    BY <1>8, <1>9 DEF MemInv

\* page_allocate takes frames that were free.
LEMMA PageAllocateInv ==
    ASSUME MemInv, NEW o \in Objs, NEW n \in 1 .. PagesMax, page_allocate(o, n)
    PROVE  MemInv'
  <1> DEFINE fs == pmm_alloc_pages(frame, n)
  <1>1. /\ obj[o].kind = "none" /\ Cardinality(FreeFrames(frame)) >= n
        /\ frame' = Taken(frame, fs) /\ obj' = [obj EXCEPT ![o] = New("page", fs)]
        /\ UNCHANGED <<space, maps, sg, call, mem>>
    BY DEF page_allocate
  <1>2. fs \in [1 .. n -> FreeFrames(frame)] /\ \A i, j \in 1 .. n : fs[i] = fs[j] => i = j
    BY <1>1, AllocPages
  <1> HIDE DEF fs
  <1>3. QED
    BY <1>1, <1>2, AllocateInv, Zenon

\* dma_resource_allocate takes a run of frames that were free.
LEMMA DmaAllocateInv ==
    ASSUME MemInv, NEW o \in Objs, NEW n \in 1 .. PagesMax, dma_resource_allocate(o, n)
    PROVE  MemInv'
  \* pmm_alloc_contiguous too, the frames of a run.
  <1>AllocRun. ASSUME NEW F, NEW n0 \in Nat, Runs(F, n0) # {}
        PROVE  /\ pmm_alloc_contiguous(F, n0) \in [1 .. n0 -> FreeFrames(F)]
               /\ \A i, j \in 1 .. n0 :
                    pmm_alloc_contiguous(F, n0)[i] = pmm_alloc_contiguous(F, n0)[j] => i = j
    <2> USE <1>AllocRun
    <2> DEFINE f == Some(Runs(F, n0))
    <2>1. f \in Runs(F, n0)
      BY DEF Some
    <2>2. f \in Nat /\ f .. (f + n0 - 1) \subseteq FreeFrames(F)
      BY <2>1, MemoryAssumption, Zenon DEF Runs
    <2>3. pmm_alloc_contiguous(F, n0) = [i \in 1 .. n0 |-> f + i - 1]
      BY DEF pmm_alloc_contiguous
    <2> HIDE DEF f
    <2>4. \A i \in 1 .. n0 : f + i - 1 \in f .. (f + n0 - 1)
      BY <2>2
    <2>5. QED
      BY <2>2, <2>3, <2>4
  <1> DEFINE fs == pmm_alloc_contiguous(frame, n)
  <1>1. /\ obj[o].kind = "none" /\ Runs(frame, n) # {}
        /\ frame' = Taken(frame, fs) /\ obj' = [obj EXCEPT ![o] = New("dma", fs)]
        /\ UNCHANGED <<space, maps, sg, call, mem>>
    BY DEF dma_resource_allocate
  <1>2. fs \in [1 .. n -> FreeFrames(frame)] /\ \A i, j \in 1 .. n : fs[i] = fs[j] => i = j
    BY <1>1, <1>AllocRun
  <1> HIDE DEF fs
  <1>3. QED
    BY <1>1, <1>2, AllocateInv, Zenon

\* An object in use stays sound with other pages.
LEMMA FsSound ==
    ASSUME NEW x, NEW w \in Nat, NEW l \in Nat, NEW c \in Nat, Sound(x, w, l, c),
           x.kind # "none", NEW fs \in Seq(Frames), Len(fs) <= PagesMax
    PROVE  LET y == [x EXCEPT !.fs = fs]
           IN  y \in Object /\ Sound(y, w, l, c) /\ y.fs = fs /\ y.kind = x.kind
  <1> DEFINE y == [x EXCEPT !.fs = fs]
  <1>1. x \in Object
    BY DEF Sound
  <1>2. y \in Object
    BY <1>1, FsSet
  <1>3. /\ y.kind = x.kind /\ y.fs = fs /\ y.refs = x.refs /\ y.handles = x.handles
        /\ y.own = x.own /\ y.pins = x.pins /\ y.mapc = x.mapc
        /\ y.revoked = x.revoked /\ y.quit = x.quit
    BY <1>1 DEF Object
  <1> HIDE DEF y
  <1>4. Sound(y, w, l, c)
    BY <1>2, <1>3 DEF Sound
  <1>5. QED
    BY <1>2, <1>3, <1>4 DEF y

\* An object grows by frames that were free.
LEMMA GrowInv ==
    ASSUME MemInv, NEW o \in Objs, NEW n \in 1 .. PagesMax, page_resource_grow(o, n)
    PROVE  MemInv'
  <1> DEFINE x == obj[o]
             w == Cardinality(WindowsOn(o))
             l == Cardinality(EntriesOf(o))
             c == Cardinality(MapCalls(o))
             more == n - Len(obj[o].fs)
             fs == pmm_alloc_pages(frame, more)
             y == [x EXCEPT !.fs = x.fs \o fs]
  <1>1. Sound(x, w, l, c) /\ w \in Nat /\ l \in Nat /\ c \in Nat /\ x \in Object
    BY SoundObj DEF MemInv, Sound
  <1>2. /\ x.kind = "page" /\ n > Len(x.fs) /\ Cardinality(FreeFrames(frame)) >= more
        /\ frame' = Taken(frame, fs) /\ obj' = [obj EXCEPT ![o].fs = @ \o fs]
        /\ UNCHANGED <<space, maps, sg, call, mem>>
    BY DEF page_resource_grow
  <1>3. x.fs \in Seq(Frames) /\ Len(x.fs) \in Nat
    BY <1>1, FieldTypes
  <1>4. more \in Nat /\ Len(x.fs) + more <= PagesMax
    BY <1>2, <1>3, MemoryAssumption
  <1>5. fs \in [1 .. more -> FreeFrames(frame)] /\ \A i, j \in 1 .. more : fs[i] = fs[j] => i = j
    BY <1>2, <1>4, AllocPages
  <1>6. obj' = [obj EXCEPT ![o] = y] /\ obj \in [Objs -> Object]
    BY <1>2 DEF MemInv, ObjInv, ObjsSound
  <1> HIDE DEF x, w, l, c, more, fs
  <1>7. fs \in Seq(Frames) /\ Len(fs) = more
    BY <1>4, <1>5 DEF FreeFrames
  <1>8. x.fs \o fs \in Seq(Frames) /\ Joined(x.fs, fs)
    BY <1>3, <1>7, Concatenated
  <1>9. Len(x.fs \o fs) = Len(x.fs) + more
    BY <1>3, <1>7
  <1>10. y \in Object /\ Sound(y, w, l, c) /\ y.fs = x.fs \o fs /\ y.kind = x.kind
    BY <1>1, <1>2, <1>4, <1>8, <1>9, FsSound, Zenon
  <1> HIDE DEF y
  <1>11. obj' \in [Objs -> Object] /\ obj'[o] = y /\ \A p \in Objs : p # o => obj'[p] = obj[p]
    BY <1>6, <1>10
  <1>12. Grown(x, y)
    BY <1>3, <1>4, <1>7, <1>8, <1>9, <1>10 DEF Grown, Joined
  <1>13. ObjInv'
    BY <1>2, <1>10, <1>11, <1>12, OnlyObj, Zenon DEF MemInv, StillThere, x, w, l, c
  <1>14. HeapInv'
    BY <1>2, <1>3, <1>4, <1>5, <1>10, <1>11, PagesTaken, Zenon DEF MemInv, x
  <1>15. QED
    BY <1>13, <1>14 DEF MemInv

\* The slots of an object beyond the first n.
Beyond(O, o, n, f) == {k \in PageSlots(O, f) : k[1] = o /\ k[2] > n}

\* An object that nobody holds is cut to n pages.
LEMMA TrimInv ==
    ASSUME MemInv, NEW o \in Objs, NEW n \in 1 .. PagesMax, MapCalls(o) = {},
           page_resource_trim(o, n)
    PROVE  MemInv'
  \* A set of numbers moved up by n.
  <1>CardShift. ASSUME NEW n0 \in Nat, NEW I \in SUBSET Nat, IsFiniteSet(I), NEW J,
               \A j : j \in J <=> \E i \in I : j = n0 + i
        PROVE  IsFiniteSet(J) /\ Cardinality(J) = Cardinality(I)
    <2> USE <1>CardShift
    <2> DEFINE h == [i \in I |-> n0 + i]
    <2>1. h \in [I -> J] /\ \A j \in J : \E i \in I : h[i] = j
      OBVIOUS
    <2>2. \A i, j \in I : h[i] = h[j] => i = j
      OBVIOUS
    <2>3. ExistsBijection(I, J)
      BY <2>1, <2>2, Zenon DEF ExistsBijection, Bijection, Injection, Surjection, IsInjective
    <2>4. QED
      BY <2>3, FS_Bijection
  \* The slots of an object beyond the first n.
  <1>TrimmedSlots. ASSUME NEW O, NEW o0 \in Objs, O[o0].fs \in Seq(Frames), Len(O[o0].fs) <= PagesMax,
               NEW n0 \in Nat, n0 < Len(O[o0].fs), NEW f
        PROVE  Times(SubSeq(O[o0].fs, n0 + 1, Len(O[o0].fs)), f) = Cardinality(Beyond(O, o0, n0, f))
    <2> USE <1>TrimmedSlots
    <2> DEFINE fs == O[o0].fs
               len == Len(O[o0].fs)
               q == SubSeq(fs, n0 + 1, len)
               I == {i \in DOMAIN q : q[i] = f}
               J == {j \in 1 .. len : j > n0 /\ fs[j] = f}
    <2>1. len \in Nat /\ DOMAIN fs = 1 .. len /\ fs \in Seq(Frames) /\ len <= PagesMax /\ n0 < len
      OBVIOUS
    <2> HIDE DEF fs, len
    <2>2. Len(q) = len - n0 /\ DOMAIN q = 1 .. (len - n0)
      BY <2>1 DEF len
    <2>3. \A i \in 1 .. (len - n0) : q[i] = fs[n0 + i]
      BY <2>1 DEF len
    <2> HIDE DEF q
    <2>4. IsFiniteSet(I) /\ I \in SUBSET Nat
      <3>1. IsFiniteSet(1 .. (len - n0))
        BY <2>1, FS_Interval
      <3>2. I \subseteq 1 .. (len - n0)
        BY <2>2
      <3>3. QED
        BY <2>1, <3>1, <3>2, FS_Subset
    <2>5. \A j : j \in J <=> \E i \in I : j = n0 + i
      <3>1. ASSUME NEW j \in J
            PROVE  \E i \in I : j = n0 + i
        <4>1. j - n0 \in 1 .. (len - n0) /\ j = n0 + (j - n0)
          BY <2>1
        <4>2. QED
          BY <2>2, <2>3, <4>1
      <3>2. ASSUME NEW i \in I
            PROVE  n0 + i \in J
        <4>1. n0 + i \in 1 .. len /\ n0 + i > n0 /\ i \in 1 .. (len - n0)
          BY <2>1, <2>2
        <4>2. QED
          BY <2>3, <4>1
      <3>3. QED
        BY <3>1, <3>2
    <2>6. IsFiniteSet(J) /\ Cardinality(J) = Cardinality(I)
      <3> HIDE DEF I, J
      <3> QED
        BY <2>4, <2>5, <1>CardShift, Zenon
    <2>7. \A k : k \in Beyond(O, o0, n0, f) <=> \E j \in J : k = <<o0, j>>
      <3>1. ASSUME NEW k \in Beyond(O, o0, n0, f)
            PROVE  \E j \in J : k = <<o0, j>>
        <4>1. k \in Objs \X (1 .. PagesMax) /\ k[1] = o0 /\ k[2] \in J
          BY <2>1, <3>1 DEF Beyond, PageSlots, fs
        <4>2. k = <<o0, k[2]>>
          BY <4>1
        <4>3. QED
          BY <4>1, <4>2
      <3>2. ASSUME NEW j \in J
            PROVE  <<o0, j>> \in Beyond(O, o0, n0, f)
        <4>1. j \in 1 .. PagesMax /\ j > n0 /\ j \in DOMAIN fs /\ fs[j] = f
          BY <2>1, MemoryAssumption
        <4>2. QED
          BY <4>1 DEF Beyond, PageSlots, fs
      <3>3. QED
        BY <3>1, <3>2
    <2>8. Cardinality(Beyond(O, o0, n0, f)) = Cardinality(J)
      <3> HIDE DEF J
      <3> QED
        BY <2>6, <2>7, CardColumn, Zenon
    <2>9. QED
      BY <2>6, <2>8, Zenon DEF Times, q, fs, len
  <1> DEFINE x == obj[o]
             w == Cardinality(WindowsOn(o))
             l == Cardinality(EntriesOf(o))
             c == Cardinality(MapCalls(o))
             cut == SubSeq(obj[o].fs, 1, n)
             tail == SubSeq(obj[o].fs, n + 1, Len(obj[o].fs))
             y == [x EXCEPT !.fs = cut]
  <1>1. Sound(x, w, l, c) /\ w \in Nat /\ l \in Nat /\ c \in Nat /\ x \in Object
    BY SoundObj, Zenon DEF MemInv, Sound
  <1>2. /\ x.kind = "page" /\ n < Len(x.fs) /\ x.mapc = 0 /\ x.pins = 0
        /\ frame' = FreeAll(frame, tail) /\ obj' = [obj EXCEPT ![o] = y]
        /\ UNCHANGED <<space, maps, sg, call, mem>>
    BY DEF page_resource_trim
  <1>3. x.fs \in Seq(Frames) /\ Len(x.fs) \in Nat /\ Len(x.fs) <= PagesMax /\ n \in Nat
    BY <1>1, FieldTypes DEF Sound
  <1>4. /\ cut \in Seq(Frames) /\ Len(cut) = n /\ DOMAIN cut = 1 .. n
        /\ \A i \in 1 .. n : cut[i] = x.fs[i]
    BY <1>2, <1>3
  <1>5. w = 0 /\ l = 0
    <2>1. x.own \in Nat
      BY <1>1, FieldTypes
    <2> HIDE DEF x, w, l, c
    <2>2. QED
      BY <1>1, <1>2, <2>1 DEF Sound
  <1>6. Unheld(o)
    BY <1>5, HoldersFinite, FS_EmptySet DEF Unheld, MemInv, ObjInv
  <1>7. obj \in [Objs -> Object]
    BY DEF MemInv, ObjInv, ObjsSound
  <1> HIDE DEF x, w, l, c, cut, tail
  <1>8. y \in Object /\ Sound(y, w, l, c) /\ y.fs = cut
    BY <1>1, <1>2, <1>3, <1>4, FsSound
  <1> HIDE DEF y
  <1>9. obj' \in [Objs -> Object] /\ obj'[o] = y /\ \A p \in Objs : p # o => obj'[p] = obj[p]
    BY <1>2, <1>7, <1>8
  <1>10. ObjInv'
    BY <1>2, <1>6, <1>8, <1>9, OnlyObj, Zenon DEF MemInv, StillThere, w, l, c
  <1>11. ASSUME NEW f \in Frames
         PROVE  /\ frame'[f].data = frame[f].data
                /\ frame'[f] \in [refs : Nat, data : Values]
                /\ frame'[f].refs = Cardinality(HeapSlots(space', f)) + Cardinality(PageSlots(obj', f))
    <2> DEFINE B == Beyond(obj, o, n, f)
    <2>1. Times(tail, f) = Cardinality(B)
      BY <1>2, <1>3, <1>TrimmedSlots DEF x, tail
    <2>2. PageSlots(obj', f) = PageSlots(obj, f) \ B
      <3>1. ASSUME NEW k \in Objs \X (1 .. PagesMax)
            PROVE  k \in PageSlots(obj', f) <=> k \in PageSlots(obj, f) /\ k \notin B
        <4>1. CASE k[1] # o
          BY <1>9, <4>1 DEF PageSlots, Beyond
        <4>2. CASE k[1] = o
          <5>1. k[2] \in Nat /\ k[2] >= 1
            BY MemoryAssumption
          <5>2. DOMAIN x.fs = 1 .. Len(x.fs)
            BY <1>3
          <5>3. k[2] \in DOMAIN cut <=> k[2] \in DOMAIN x.fs /\ ~(k[2] > n)
            BY <1>2, <1>3, <1>4, <5>1, <5>2
          <5>4. k[2] \in DOMAIN cut => cut[k[2]] = x.fs[k[2]]
            BY <1>4
          <5>5. k \in PageSlots(obj', f) <=> k[2] \in DOMAIN cut /\ cut[k[2]] = f
            BY <1>8, <1>9, <4>2 DEF PageSlots
          <5>6. k \in PageSlots(obj, f) <=> k[2] \in DOMAIN x.fs /\ x.fs[k[2]] = f
            BY <4>2 DEF PageSlots, x
          <5>7. k \in B <=> k \in PageSlots(obj, f) /\ k[2] > n
            BY <4>2 DEF Beyond
          <5>8. QED
            BY <5>3, <5>4, <5>5, <5>6, <5>7
        <4>3. QED
          BY <4>1, <4>2
      <3>2. /\ PageSlots(obj', f) \subseteq Objs \X (1 .. PagesMax)
            /\ PageSlots(obj, f) \subseteq Objs \X (1 .. PagesMax)
        BY DEF PageSlots
      <3>3. QED
        BY <3>1, <3>2
    <2>3. /\ Cardinality(B) \in Nat
          /\ Cardinality(PageSlots(obj', f)) = Cardinality(PageSlots(obj, f)) - Cardinality(B)
      <3>1. B \in SUBSET PageSlots(obj, f) /\ IsFiniteSet(PageSlots(obj, f))
        BY SlotsFinite DEF Beyond
      <3> HIDE DEF B
      <3>2. QED
        BY <2>2, <3>1, CardPart
    <2> HIDE DEF B
    <2>4. frame'[f] = [refs |-> frame[f].refs - Cardinality(B), data |-> frame[f].data]
      BY <1>2, <1>11, <2>1, Zenon DEF FreeAll
    <2>5. frame[f].refs \in Nat /\ frame[f].data \in Values
      BY <1>11 DEF MemInv, HeapInv, FrameType
    <2>6. frame[f].refs = Cardinality(HeapSlots(space, f)) + Cardinality(PageSlots(obj, f))
      BY <1>11 DEF MemInv, HeapInv, FrameRefsExact
    <2>7. Cardinality(HeapSlots(space, f)) \in Nat /\ Cardinality(PageSlots(obj', f)) \in Nat
          /\ Cardinality(PageSlots(obj, f)) \in Nat
      BY SlotsFinite
    <2>8. space' = space
      BY <1>2
    <2>9. QED
      BY <2>3, <2>4, <2>5, <2>6, <2>7, <2>8
  <1>12. FrameType'
    BY <1>2, <1>11, Zenon DEF FrameType, FreeAll
  <1>13. FrameRefsExact'
    BY <1>11 DEF FrameRefsExact
  <1>14. HeapInv'
    BY <1>2, <1>11, <1>12, <1>13, HeapKept DEF MemInv
  <1>15. QED
    BY <1>10, <1>14 DEF MemInv

-----------------------------------------------------------------------------
(* Windows and the calls that open and close them.                           *)

\* A step that takes holders away and adds sound ones.
LEMMA ObjStep ==
    ASSUME ObjInv, SgType', MapsType', CallType', ObjsSound', CallsAlone',
           \A o \in Objs : StillThere(o),
           \A m \in maps' : m \in maps \/ WindowOk(m)',
           \A g \in Sgs : sg'[g].at = sg[g].at \/ \A i \in DOMAIN sg'[g].at : EntryOk(sg[g].at[i])',
           \A k \in call' : k.op = "map" => k \in call \/ CallOk(k)'
    PROVE  ObjInv'
  <1>1. /\ \A m \in maps : m \in maps' => WindowOk(m)'
        /\ \A g \in Sgs : sg'[g].at = sg[g].at =>
             \A i \in DOMAIN sg[g].at : EntryOk(sg[g].at[i])'
        /\ \A k \in call : k \in call' /\ k.op = "map" => CallOk(k)'
    BY HoldersKept
  <1>2. (\A m \in maps : WindowOk(m))'
    BY <1>1
  <1>3. (\A g \in Sgs : \A i \in DOMAIN sg[g].at : EntryOk(sg[g].at[i]))'
    BY <1>1
  <1>4. (\A k \in call : k.op = "map" => CallOk(k))'
    BY <1>1
  <1>5. QED
    BY <1>2, <1>3, <1>4 DEF ObjInv, HoldersOk

\* An object after n of its w windows went.
AfterUnmap(x, n) ==
    IF n > 0 /\ x.refs - n = 0 THEN NoObj
    ELSE [x EXCEPT !.refs = x.refs - n,
                   !.mapc = IF x.kind = "page" THEN x.mapc - n ELSE x.mapc]

\* The objects whose last references are the windows in S.
Dead(S) == {o \in Objs : Gone(obj, o, S) > 0 /\ obj[o].refs - Gone(obj, o, S) = 0}

\* The windows in S go, and the objects with them that nobody else holds.
LEMMA UnmapStep ==
    ASSUME ObjInv, NEW S \in SUBSET maps, obj' = Unmapped(obj, frame, S).O, maps' = maps \ S,
           sg' = sg, \A o \in Objs : MapCalls(o)' = MapCalls(o)
    PROVE  /\ MapsType' /\ SgType' /\ ObjsSound' /\ \A o \in Objs : StillThere(o)
           /\ \A o \in Objs : obj'[o].fs = IF o \in Dead(S) THEN <<>> ELSE obj[o].fs
           /\ Unmapped(obj, frame, S).F = FreePages(frame, obj, Dead(S))
  \* A DMA object loses n windows, not its last references.
  <1>LeftSound. ASSUME NEW x, NEW w \in Nat, NEW l \in Nat, NEW c \in Nat, Sound(x, w, l, c),
               NEW n \in Nat, n <= w, x.kind = "dma", x.refs # n, w > 0
        PROVE  LET y == [x EXCEPT !.refs = x.refs - n]
               IN  y \in Object /\ Sound(y, w - n, l, c) /\ y.fs = x.fs /\ y.kind = x.kind
    <2> USE <1>LeftSound
    <2> DEFINE y == [x EXCEPT !.refs = x.refs - n]
               v == w - n
    <2>1. /\ x \in Object /\ x.kind # "none" /\ x.refs > 0
          /\ x.pins = x.own + l /\ x.refs = x.handles + w + x.pins + c
          /\ x.kind = "page" => x.mapc = w
      BY HeldInUse DEF Sound
    <2>2. /\ x.refs \in Nat /\ x.handles \in Nat /\ x.own \in Nat /\ x.pins \in Nat
          /\ x.mapc \in Nat /\ x.quit \in BOOLEAN
      BY <2>1, FieldTypes
    <2>3. x.refs - n \in Nat /\ v \in Nat
      BY <2>1, <2>2
    <2>4. y \in Object
      BY <2>1, <2>3, FieldSet, Zenon
    <2>5. /\ y.kind = x.kind /\ y.fs = x.fs /\ y.refs = x.refs - n
          /\ y.handles = x.handles /\ y.own = x.own /\ y.pins = x.pins
          /\ y.mapc = x.mapc /\ y.revoked = x.revoked /\ y.quit = x.quit
      BY <2>1 DEF Object
    <2>6. v = w - n
      OBVIOUS
    <2> HIDE DEF y, v
    <2>7. y.refs = y.handles + v + y.pins + c
      BY <2>1, <2>2, <2>3, <2>5, <2>6
    <2>7a. y.refs > 0
      BY <2>2, <2>3, <2>5
    <2>8. y.pins = y.own + l /\ Len(y.fs) <= PagesMax
      BY <2>1, <2>2, <2>5, <2>6 DEF Sound
    <2>9. (y.kind = "page" => y.mapc = v) /\ (y.kind = "dma" => y.mapc = 0 /\ y.pins = 0)
      BY <2>1, <2>2, <2>3, <2>5, <2>6 DEF Sound
    <2>10. y.quit => y.revoked /\ y.mapc = 0 /\ y.pins = 0
      BY <2>1, <2>2, <2>3, <2>5, <2>6 DEF Sound
    <2>11. Sound(y, v, l, c)
      BY <2>1, <2>4, <2>5, <2>7, <2>7a, <2>8, <2>9, <2>10 DEF Sound
    <2>12. QED
      BY <2>4, <2>5, <2>11 DEF y, v
  \* A page object loses n windows, not its last references.
  <1>ClosedSound. ASSUME NEW x, NEW w \in Nat, NEW l \in Nat, NEW c \in Nat, Sound(x, w, l, c),
               NEW n \in Nat, n <= w, x.kind = "page", x.refs # n, w > 0
        PROVE  LET y == [x EXCEPT !.refs = x.refs - n, !.mapc = x.mapc - n]
               IN  y \in Object /\ Sound(y, w - n, l, c) /\ y.fs = x.fs /\ y.kind = x.kind
    <2> USE <1>ClosedSound
    <2> DEFINE y == [x EXCEPT !.refs = x.refs - n, !.mapc = x.mapc - n]
               v == w - n
    <2>1. /\ x \in Object /\ x.kind # "none" /\ x.refs > 0
          /\ x.pins = x.own + l /\ x.refs = x.handles + w + x.pins + c
          /\ x.kind = "page" => x.mapc = w
      BY HeldInUse DEF Sound
    <2>2. /\ x.refs \in Nat /\ x.handles \in Nat /\ x.own \in Nat /\ x.pins \in Nat
          /\ x.mapc \in Nat /\ x.quit \in BOOLEAN
      BY <2>1, FieldTypes
    <2>3. x.refs - n \in Nat /\ x.mapc - n \in Nat /\ v \in Nat
      BY <2>1, <2>2
    <2>4. y \in Object
      BY <2>1, <2>3, FieldSet, Zenon
    <2>5. /\ y.kind = x.kind /\ y.fs = x.fs /\ y.refs = x.refs - n
          /\ y.handles = x.handles /\ y.own = x.own /\ y.pins = x.pins
          /\ y.mapc = x.mapc - n /\ y.revoked = x.revoked /\ y.quit = x.quit
      BY <2>1 DEF Object
    <2>6. v = w - n
      OBVIOUS
    <2> HIDE DEF y, v
    <2>7. y.refs = y.handles + v + y.pins + c
      BY <2>1, <2>2, <2>3, <2>5, <2>6
    <2>7a. y.refs > 0
      BY <2>2, <2>3, <2>5
    <2>8. y.pins = y.own + l /\ Len(y.fs) <= PagesMax
      BY <2>1, <2>2, <2>5, <2>6 DEF Sound
    <2>9. (y.kind = "page" => y.mapc = v) /\ (y.kind = "dma" => y.mapc = 0 /\ y.pins = 0)
      BY <2>1, <2>2, <2>3, <2>5, <2>6 DEF Sound
    <2>10. y.quit => y.revoked /\ y.mapc = 0 /\ y.pins = 0
      BY <2>1, <2>2, <2>3, <2>5, <2>6 DEF Sound
    <2>11. Sound(y, v, l, c)
      BY <2>1, <2>4, <2>5, <2>7, <2>7a, <2>8, <2>9, <2>10 DEF Sound
    <2>12. QED
      BY <2>4, <2>5, <2>11 DEF y, v
  \* An object after n of its w windows went.
  <1>UnmappedObj. ASSUME NEW x, NEW w \in Nat, NEW l \in Nat, NEW c \in Nat, Sound(x, w, l, c),
               NEW n \in Nat, n <= w
        PROVE  /\ AfterUnmap(x, n) \in Object /\ Sound(AfterUnmap(x, n), w - n, l, c)
               /\ AfterUnmap(x, n).fs = IF n > 0 /\ x.refs - n = 0 THEN <<>> ELSE x.fs
               /\ AfterUnmap(x, n) = NoObj \/ Grown(x, AfterUnmap(x, n))
    <2> USE <1>UnmappedObj
    <2>1. x \in Object
      BY DEF Sound
    <2>2. /\ x.refs \in Nat /\ x.handles \in Nat /\ x.own \in Nat /\ x.pins \in Nat
          /\ x.mapc \in Nat /\ Len(x.fs) \in Nat
          /\ x.pins = x.own + l /\ x.refs = x.handles + w + x.pins + c
      BY <2>1, FieldTypes DEF Sound
    <2>3. CASE n = 0
      <3>1. AfterUnmap(x, n) = [x EXCEPT !.refs = x.refs, !.mapc = x.mapc]
        <4>1. x.refs - n = x.refs /\ x.mapc - n = x.mapc /\ ~(n > 0)
          BY <2>2, <2>3
        <4>2. QED
          BY <4>1, Zenon DEF AfterUnmap
      <3>2. [x EXCEPT !.refs = x.refs, !.mapc = x.mapc] = x
        BY <2>1, Zenon DEF Object
      <3>3. w - n = w
        BY <2>3
      <3>4. QED
        BY <2>1, <2>3, <3>1, <3>2, <3>3, GrownSelf
    <2>4. CASE n > 0 /\ x.refs = n
      <3>1. w - n = 0 /\ l = 0 /\ c = 0 /\ x.refs - n = 0
        <4>1. n = x.handles + w + x.pins + c
          BY <2>2, <2>4
        <4>2. w = n /\ x.pins = 0 /\ c = 0
          <5>1. \A h, p \in Nat : n = h + w + p + c => w = n /\ p = 0 /\ c = 0
            OBVIOUS
          <5>2. QED
            BY <2>2, <4>1, <5>1, Zenon
        <4>3. l = 0
          BY <2>2, <4>2
        <4>4. QED
          BY <2>4, <4>2, <4>3
      <3>2. AfterUnmap(x, n) = NoObj
        BY <2>4, <3>1 DEF AfterUnmap
      <3>3. QED
        BY <2>4, <3>1, <3>2, NoObjSound
    <2>5. CASE n > 0 /\ x.refs # n
      <3>1. w > 0 /\ x.refs - n # 0
        BY <2>2, <2>5
      <3>2. x.kind # "none"
        BY <3>1, HeldInUse
      <3>3. CASE x.kind = "page"
        <4> DEFINE y == [x EXCEPT !.refs = x.refs - n, !.mapc = x.mapc - n]
        <4>1. AfterUnmap(x, n) = y
          BY <3>1, <3>3 DEF AfterUnmap
        <4>2. y \in Object /\ Sound(y, w - n, l, c) /\ y.fs = x.fs /\ y.kind = x.kind
          BY <2>5, <3>1, <3>3, <1>ClosedSound, Zenon
        <4> HIDE DEF y
        <4>3. Grown(x, y)
          BY <2>2, <4>2 DEF Grown
        <4>4. QED
          BY <3>1, <4>1, <4>2, <4>3
      <3>4. CASE x.kind = "dma"
        <4> DEFINE y == [x EXCEPT !.refs = x.refs - n]
        <4>1. AfterUnmap(x, n) = y
          <5>1. AfterUnmap(x, n) = [x EXCEPT !.refs = x.refs - n, !.mapc = x.mapc]
            BY <3>1, <3>4 DEF AfterUnmap
          <5>2. [x EXCEPT !.refs = x.refs - n, !.mapc = x.mapc] = y
            BY <2>1, Zenon DEF Object
          <5>3. QED
            BY <5>1, <5>2
        <4>2. y \in Object /\ Sound(y, w - n, l, c) /\ y.fs = x.fs /\ y.kind = x.kind
          BY <2>5, <3>1, <3>4, <1>LeftSound
        <4> HIDE DEF y
        <4>3. Grown(x, y)
          BY <2>2, <4>2 DEF Grown
        <4>4. QED
          BY <3>1, <4>1, <4>2, <4>3
      <3>5. QED
        BY <2>1, <3>2, <3>3, <3>4, FieldTypes
    <2>6. QED
      BY <2>2, <2>3, <2>4, <2>5
  <1>1. MapsType' /\ SgType'
    BY FS_Difference, Zenon DEF ObjInv, MapsType, SgType
  <1>2. ASSUME NEW o \in Objs
        PROVE  /\ obj'[o] = AfterUnmap(obj[o], Gone(obj, o, S))
               /\ Gone(obj, o, S) \in Nat /\ Gone(obj, o, S) <= Cardinality(WindowsOn(o))
               /\ Cardinality(WindowsOn(o)') = Cardinality(WindowsOn(o)) - Gone(obj, o, S)
    <2>1. obj'[o] = AfterUnmap(obj[o], Gone(obj, o, S))
      BY <1>2, Zenon DEF Unmapped, AfterUnmap
    <2> DEFINE T == {m \in S : m.o = o}
    <2>2. T \in SUBSET WindowsOn(o) /\ WindowsOn(o)' = WindowsOn(o) \ T
      BY DEF WindowsOn
    <2>3. IsFiniteSet(WindowsOn(o))
      BY HoldersFinite DEF ObjInv
    <2>4. Gone(obj, o, S) = Cardinality(T)
      BY DEF Gone
    <2> HIDE DEF T
    <2>5. /\ Cardinality(T) \in Nat /\ Cardinality(WindowsOn(o)) \in Nat
          /\ Cardinality(WindowsOn(o) \ T) \in Nat
          /\ Cardinality(WindowsOn(o) \ T) = Cardinality(WindowsOn(o)) - Cardinality(T)
      BY <2>2, <2>3, CardPart
    <2>6. QED
      BY <2>1, <2>2, <2>4, <2>5
  <1>3. ASSUME NEW o \in Objs
        PROVE  /\ obj'[o] \in Object
               /\ Sound(obj'[o], Cardinality(WindowsOn(o)'), Cardinality(EntriesOf(o)),
                        Cardinality(MapCalls(o)))
               /\ obj'[o].fs = IF o \in Dead(S) THEN <<>> ELSE obj[o].fs
               /\ StillThere(o)
    <2> DEFINE x == obj[o]
               w == Cardinality(WindowsOn(o))
               l == Cardinality(EntriesOf(o))
               c == Cardinality(MapCalls(o))
               n == Gone(obj, o, S)
    <2>1. Sound(x, w, l, c) /\ w \in Nat /\ l \in Nat /\ c \in Nat
      BY SoundObj
    <2>2. n \in Nat /\ n <= w
      BY <1>2
    <2>3. obj'[o] = AfterUnmap(x, n) /\ Cardinality(WindowsOn(o)') = w - n
      BY <1>2
    <2>4. o \in Dead(S) <=> n > 0 /\ x.refs - n = 0
      BY DEF Dead
    <2> HIDE DEF w, l, c, n, x
    <2>5. /\ AfterUnmap(x, n) \in Object /\ Sound(AfterUnmap(x, n), w - n, l, c)
          /\ AfterUnmap(x, n).fs = IF n > 0 /\ x.refs - n = 0 THEN <<>> ELSE x.fs
          /\ AfterUnmap(x, n) = NoObj \/ Grown(x, AfterUnmap(x, n))
      BY <2>1, <2>2, <1>UnmappedObj, Zenon
    <2>6. QED
      BY <2>3, <2>4, <2>5, Zenon DEF StillThere, x, l, c
  <1>4. \A o : EntriesOf(o)' = EntriesOf(o)
    BY DEF EntriesOf
  <1>5. DOMAIN obj' = Objs /\ obj' = [o \in Objs |-> obj'[o]]
    BY Zenon DEF Unmapped
  <1>6. obj' \in [Objs -> Object]
    BY <1>3, <1>5
  <1>7. ObjsSound'
    BY <1>3, <1>4, <1>6 DEF ObjsSound
  <1>8. Unmapped(obj, frame, S).F = FreePages(frame, obj, Dead(S))
    BY Zenon DEF Unmapped, Dead
  <1>9. QED
    BY <1>1, <1>3, <1>7, <1>8

\* One window is closed.
LEMMA UnmapObjectInv ==
    ASSUME MemInv, NEW m \in maps, vm64_unmap_object(m)
    PROVE  MemInv'
  <1> DEFINE S == {m}
  <1>1. /\ obj' = Unmapped(obj, frame, S).O /\ frame' = Unmapped(obj, frame, S).F
        /\ maps' = maps \ S /\ UNCHANGED <<space, sg, call, mem>>
    BY DEF vm64_unmap_object, Settle
  <1>2. S \in SUBSET maps /\ \A o \in Objs : MapCalls(o)' = MapCalls(o)
    BY <1>1 DEF MapCalls
  <1> HIDE DEF S
  <1>3. /\ MapsType' /\ SgType' /\ ObjsSound' /\ \A o \in Objs : StillThere(o)
        /\ \A o \in Objs : obj'[o].fs = IF o \in Dead(S) THEN <<>> ELSE obj[o].fs
        /\ Unmapped(obj, frame, S).F = FreePages(frame, obj, Dead(S))
    BY <1>1, <1>2, UnmapStep DEF MemInv
  <1>4. CallType' /\ CallsAlone'
    BY <1>1 DEF MemInv, ObjInv, CallType, CallsAlone
  <1>5. ObjInv'
    BY <1>1, <1>3, <1>4, ObjStep DEF MemInv
  <1>6. HeapInv'
    BY <1>1, <1>3, FramesFreed DEF MemInv
  <1>7. QED
    BY <1>5, <1>6 DEF MemInv

\* A space goes, with its pages and its windows.
LEMMA DestroySpaceInv ==
    ASSUME MemInv, NEW s \in Spaces, vm64_destroy_space(s)
    PROVE  MemInv'
  <1> DEFINE S == {m \in maps : m.s = s}
             F == Unmapped(obj, frame, S).F
  <1>1. /\ obj' = Unmapped(obj, frame, S).O /\ maps' = maps \ S /\ UNCHANGED <<sg, call>>
        /\ frame' = [f \in Frames |->
                       [refs |-> F[f].refs - Cardinality({v \in Pages : space[s].pte[v].f = f}),
                        data |-> F[f].data]]
        /\ space' = [space EXCEPT ![s] = Off] /\ mem' = [mem EXCEPT ![s] = [v \in Pages |-> 0]]
    BY DEF vm64_destroy_space
  <1>2. S \in SUBSET maps /\ \A o \in Objs : MapCalls(o)' = MapCalls(o)
    BY <1>1, Zenon DEF MapCalls
  <1> HIDE DEF S, F
  <1>3. /\ MapsType' /\ SgType' /\ ObjsSound' /\ \A o \in Objs : StillThere(o)
        /\ \A o \in Objs : obj'[o].fs = IF o \in Dead(S) THEN <<>> ELSE obj[o].fs
        /\ F = FreePages(frame, obj, Dead(S))
    BY <1>1, <1>2, UnmapStep, Zenon DEF MemInv, F
  <1>4. CallType' /\ CallsAlone'
    BY <1>1 DEF MemInv, ObjInv, CallType, CallsAlone
  <1>5. ObjInv'
    BY <1>1, <1>3, <1>4, ObjStep, Zenon DEF MemInv
  <1>6. HeapInv'
    BY <1>1, <1>3, DestroyHeap, Zenon DEF MemInv
  <1>7. QED
    BY <1>5, <1>6 DEF MemInv

\* A revoke first closes every window onto the object.
LEMMA RevokeUnmapInv ==
    ASSUME MemInv, NEW o \in Objs, RevokeUnmap(o)
    PROVE  MemInv'
  <1> DEFINE S == {m \in maps : m.o = o}
             k == [op |-> "revoke", o |-> o]
  <1>1. /\ obj' = Unmapped(obj, frame, S).O /\ frame' = Unmapped(obj, frame, S).F
        /\ maps' = maps \ S /\ call' = call \cup {k} /\ UNCHANGED <<space, sg, mem>>
    BY DEF RevokeUnmap, Settle
  <1>2. k.op = "revoke" /\ k \in RevokeCall
    BY DEF RevokeCall
  <1> HIDE DEF k
  <1>3. S \in SUBSET maps /\ \A p \in Objs : MapCalls(p)' = MapCalls(p)
    BY <1>1, <1>2 DEF MapCalls
  <1> HIDE DEF S
  <1>4. /\ MapsType' /\ SgType' /\ ObjsSound' /\ \A p \in Objs : StillThere(p)
        /\ \A p \in Objs : obj'[p].fs = IF p \in Dead(S) THEN <<>> ELSE obj[p].fs
        /\ Unmapped(obj, frame, S).F = FreePages(frame, obj, Dead(S))
    BY <1>1, <1>3, UnmapStep, Zenon DEF MemInv
  <1>5. CallType'
    BY <1>1, <1>2, FS_AddElement DEF MemInv, ObjInv, CallType
  <1>6. CallsAlone'
    BY <1>1, <1>2 DEF MemInv, ObjInv, CallsAlone
  <1>7. ObjInv'
    BY <1>1, <1>2, <1>4, <1>5, <1>6, ObjStep DEF MemInv
  <1>8. HeapInv'
    BY <1>1, <1>4, FramesFreed DEF MemInv
  <1>9. QED
    BY <1>7, <1>8 DEF MemInv

\* Then it sets the flag; it answers that nothing holds the pages if so.
LEMMA RevokeFlagInv ==
    ASSUME MemInv, NEW k \in call, RevokeFlag(k)
    PROVE  MemInv'
  \* Likewise a flag.
  <1>FlagSet. ASSUME NEW x \in Object, NEW b \in BOOLEAN
        PROVE  [x EXCEPT !.revoked = b] \in Object /\ [x EXCEPT !.quit = b] \in Object
    <2> USE <1>FlagSet
    <2>1. [x EXCEPT !.revoked = b] \in Object
      BY DEF Object
    <2>2. [x EXCEPT !.quit = b] \in Object
      BY DEF Object
    <2>3. QED
      BY <2>1, <2>2
  <1>1. /\ k.op = "revoke" /\ call' = call \ {k} /\ UNCHANGED <<frame, space, maps, sg, mem>>
        /\ obj' = IF obj[k.o].kind # "page" THEN obj
                  ELSE [obj EXCEPT ![k.o].revoked = TRUE,
                                   ![k.o].quit = obj[k.o].mapc = 0 /\ obj[k.o].pins = 0]
    BY DEF RevokeFlag
  <1>2. k.o \in Objs /\ obj \in [Objs -> Object]
    BY <1>1 DEF MemInv, ObjInv, CallType, MapCall, RevokeCall, ObjsSound
  <1>3. SgType' /\ MapsType' /\ CallType' /\ CallsAlone'
    BY <1>1, FS_RemoveElement, Zenon DEF MemInv, ObjInv, SgType, MapsType, CallType, CallsAlone
  <1>4. \A o : WindowsOn(o)' = WindowsOn(o) /\ EntriesOf(o)' = EntriesOf(o) /\ MapCalls(o)' = MapCalls(o)
    BY <1>1 DEF WindowsOn, EntriesOf, MapCalls
  <1>5. /\ obj' \in [Objs -> Object]
        /\ \A o \in Objs : /\ obj'[o].fs = obj[o].fs /\ Grown(obj[o], obj'[o])
                           /\ Sound(obj'[o], Cardinality(WindowsOn(o)), Cardinality(EntriesOf(o)),
                                    Cardinality(MapCalls(o)))
    <2>1. CASE obj[k.o].kind # "page"
      BY <1>1, <1>2, <2>1, SoundObj, GrownSelf DEF MemInv
    <2>2. CASE obj[k.o].kind = "page"
      <3> DEFINE o == k.o
                 x == obj[o]
                 w == Cardinality(WindowsOn(o))
                 l == Cardinality(EntriesOf(o))
                 c == Cardinality(MapCalls(o))
                 b == x.mapc = 0 /\ x.pins = 0
                 y == [x EXCEPT !.revoked = TRUE, !.quit = b]
      <3>1. Sound(x, w, l, c) /\ x \in Object
        BY <1>2, SoundObj DEF MemInv, Sound
      <3>2. obj' = [obj EXCEPT ![o] = y]
        BY <1>1, <1>2, <2>2, Zenon DEF Object
      <3>3. b \in BOOLEAN
        OBVIOUS
      <3>4. y \in Object
        <4> HIDE DEF x, b
        <4> QED
          BY <3>1, <3>3, <1>FlagSet, Zenon
      <3>5. /\ y.kind = x.kind /\ y.fs = x.fs /\ y.refs = x.refs /\ y.handles = x.handles
            /\ y.own = x.own /\ y.pins = x.pins /\ y.mapc = x.mapc /\ y.revoked = TRUE
        <4> HIDE DEF x, b
        <4> QED
          BY <3>1 DEF Object
      <3>6. y.quit => y.mapc = 0 /\ y.pins = 0
        <4>1. y.quit = b
          <5> HIDE DEF x, b
          <5> QED
            BY <3>1 DEF Object
        <4>2. QED
          BY <3>5, <4>1, Zenon
      <3>7. x.kind = "page"
        BY <2>2
      <3> HIDE DEF y, x, w, l, c
      <3>8. Sound(y, w, l, c)
        BY <3>1, <3>4, <3>5, <3>6, <3>7 DEF Sound
      <3>9. Grown(x, y)
        BY <3>1, <3>5, FieldTypes DEF Grown
      <3>10. obj' \in [Objs -> Object] /\ obj'[o] = y /\ \A p \in Objs : p # o => obj'[p] = obj[p]
        BY <1>2, <3>2, <3>4
      <3>11. ASSUME NEW p \in Objs
             PROVE  /\ obj'[p].fs = obj[p].fs /\ Grown(obj[p], obj'[p])
                    /\ Sound(obj'[p], Cardinality(WindowsOn(p)), Cardinality(EntriesOf(p)),
                             Cardinality(MapCalls(p)))
        <4>1. CASE p = o
          BY <3>5, <3>8, <3>9, <3>10, <4>1 DEF x, w, l, c
        <4>2. CASE p # o
          BY <1>2, <3>10, <4>2, SoundObj, GrownSelf DEF MemInv
        <4>3. QED
          BY <4>1, <4>2
      <3>12. QED
        BY <3>10, <3>11
    <2>3. QED
      BY <2>1, <2>2
  <1>6. ObjsSound'
    BY <1>4, <1>5 DEF ObjsSound
  <1>7. ObjInv'
    BY <1>1, <1>3, <1>5, <1>6, ObjStep, Zenon DEF MemInv, StillThere
  <1>8. HeapInv'
    BY <1>1, <1>5, FsKept DEF MemInv
  <1>9. QED
    BY <1>7, <1>8 DEF MemInv

\* A window onto a DMA object.
LEMMA MapObjectInv ==
    ASSUME MemInv, NEW s \in Spaces, NEW v \in Windows, NEW o \in Objs, vm64_map_object(s, v, o)
    PROVE  MemInv'
  \* A window onto a DMA object.
  <1>WindowSound. ASSUME NEW x, NEW w \in Nat, NEW l \in Nat, NEW c \in Nat, Sound(x, w, l, c),
               x.handles > 0, x.kind = "dma"
        PROVE  LET y == [x EXCEPT !.refs = x.refs + 1]
               IN  y \in Object /\ Sound(y, w + 1, l, c) /\ y.fs = x.fs /\ y.kind = x.kind
    <2> USE <1>WindowSound
    <2> DEFINE y == [x EXCEPT !.refs = x.refs + 1]
               v0 == w + 1
    <2>1. /\ x \in Object /\ x.kind # "none" /\ x.refs > 0
          /\ x.pins = x.own + l /\ x.refs = x.handles + w + x.pins + c
          /\ x.kind = "page" => x.mapc = w
      BY HeldInUse DEF Sound
    <2>2. /\ x.refs \in Nat /\ x.handles \in Nat /\ x.own \in Nat /\ x.pins \in Nat
          /\ x.mapc \in Nat /\ x.quit \in BOOLEAN
      BY <2>1, FieldTypes
    <2>3. x.refs + 1 \in Nat /\ v0 \in Nat
      BY <2>1, <2>2
    <2>4. y \in Object
      BY <2>1, <2>3, FieldSet, Zenon
    <2>5. /\ y.kind = x.kind /\ y.fs = x.fs /\ y.refs = x.refs + 1
          /\ y.handles = x.handles /\ y.own = x.own /\ y.pins = x.pins
          /\ y.mapc = x.mapc /\ y.revoked = x.revoked /\ y.quit = x.quit
      BY <2>1 DEF Object
    <2>6. v0 = w + 1
      OBVIOUS
    <2> HIDE DEF y, v0
    <2>7. y.refs = y.handles + v0 + y.pins + c
      BY <2>1, <2>2, <2>3, <2>5, <2>6
    <2>7a. y.refs > 0
      BY <2>1, <2>2, <2>3, <2>5
    <2>8. y.pins = y.own + l /\ Len(y.fs) <= PagesMax
      BY <2>1, <2>2, <2>5, <2>6 DEF Sound
    <2>9. (y.kind = "page" => y.mapc = v0) /\ (y.kind = "dma" => y.mapc = 0 /\ y.pins = 0)
      BY <2>1, <2>2, <2>3, <2>5, <2>6 DEF Sound
    <2>10. y.quit => y.revoked /\ y.mapc = 0 /\ y.pins = 0
      BY <2>1, <2>2, <2>3, <2>5, <2>6 DEF Sound
    <2>11. Sound(y, v0, l, c)
      BY <2>1, <2>4, <2>5, <2>7, <2>7a, <2>8, <2>9, <2>10 DEF Sound
    <2>12. QED
      BY <2>4, <2>5, <2>11 DEF y, v0
  <1> DEFINE x == obj[o]
             w == Cardinality(WindowsOn(o))
             l == Cardinality(EntriesOf(o))
             c == Cardinality(MapCalls(o))
             y == [x EXCEPT !.refs = x.refs + 1]
  <1>0. PICK m : m = [s |-> s, w |-> v, o |-> o, fs |-> obj[o].fs]
    BY Zenon
  <1>1. Sound(x, w, l, c) /\ w \in Nat /\ l \in Nat /\ c \in Nat /\ x \in Object
    BY SoundObj, Zenon DEF MemInv, Sound
  <1>2. /\ x.kind = "dma" /\ x.handles > 0 /\ obj \in [Objs -> Object]
        /\ ~\E k \in call : k.op = "map" /\ k.s = s
        /\ ~\E n \in maps : n.s = s /\ n.w = v
        /\ maps' = maps \cup {m} /\ obj' = [obj EXCEPT ![o] = y]
        /\ UNCHANGED <<frame, space, sg, call, mem>>
    BY <1>0 DEF vm64_map_object, MemInv, ObjInv, ObjsSound
  <1>3. /\ m.s = s /\ m.w = v /\ m.o = o /\ m.fs = x.fs
        /\ m \in [s : Spaces, w : Windows, o : Objs, fs : Seq(Frames \cup {0})]
    <2>1. x.fs \in Seq(Frames \cup {0})
      BY <1>1, FieldTypes
    <2>2. QED
      BY <1>0, <2>1
  <1>4. m \notin maps
    BY <1>2, <1>3
  <1>5. SgType' /\ CallType' /\ MapsType' /\ CallsAlone'
    <2>1. SgType' /\ CallType'
      BY <1>2, Zenon DEF MemInv, ObjInv, SgType, CallType
    <2>2. MapsType'
      BY <1>2, <1>3, FS_AddElement DEF MemInv, ObjInv, MapsType
    <2>3. CallsAlone'
      BY <1>2, <1>3 DEF MemInv, ObjInv, CallsAlone
    <2>4. QED
      BY <2>1, <2>2, <2>3
  <1>6. /\ \A p : EntriesOf(p)' = EntriesOf(p) /\ MapCalls(p)' = MapCalls(p)
        /\ \A p : p # o => WindowsOn(p)' = WindowsOn(p)
        /\ WindowsOn(o)' = WindowsOn(o) \cup {m} /\ m \notin WindowsOn(o)
    BY <1>2, <1>3, <1>4 DEF WindowsOn, EntriesOf, MapCalls
  <1>7. Cardinality(WindowsOn(o)') = w + 1
    BY <1>6, HoldersFinite, FS_AddElement, Zenon DEF MemInv, ObjInv
  <1> HIDE DEF x, w, l, c
  <1>8. y \in Object /\ Sound(y, w + 1, l, c) /\ y.fs = x.fs /\ y.kind = x.kind
    BY <1>1, <1>2, <1>WindowSound
  <1> HIDE DEF y
  <1>9. obj' \in [Objs -> Object] /\ obj'[o] = y /\ \A p \in Objs : p # o => obj'[p] = obj[p]
    BY <1>2, <1>8, Zenon
  <1>10. Grown(x, y)
    BY <1>1, <1>8, FieldTypes DEF Grown
  <1>11. \A p \in Objs : StillThere(p) /\ obj'[p].fs = obj[p].fs
    BY <1>2, <1>8, <1>9, <1>10, GrownSelf, Zenon DEF StillThere, x
  <1>12. ObjsSound'
    <2>1. ASSUME NEW p \in Objs
          PROVE  Sound(obj'[p], Cardinality(WindowsOn(p)'), Cardinality(EntriesOf(p)'),
                       Cardinality(MapCalls(p)'))
      <3>1. CASE p = o
        BY <1>6, <1>7, <1>8, <1>9, <3>1 DEF l, c
      <3>2. CASE p # o
        BY <1>6, <1>9, <3>2, SoundObj DEF MemInv
      <3>3. QED
        BY <3>1, <3>2
    <2>2. QED
      BY <1>9, <2>1 DEF ObjsSound
  <1>13. WindowOk(m)'
    BY <1>3, <1>8, <1>9 DEF WindowOk
  <1>14. ObjInv'
    BY <1>2, <1>5, <1>11, <1>12, <1>13, ObjStep DEF MemInv
  <1>15. HeapInv'
    BY <1>2, <1>11, FsKept DEF MemInv
  <1>16. QED
    BY <1>14, <1>15 DEF MemInv

\* A call has read the object it is about to map.
LEMMA MapLookInv ==
    ASSUME MemInv, NEW s \in Spaces, NEW v \in Windows, NEW o \in Objs, MapLook(s, v, o)
    PROVE  MemInv'
  \* A call about to map.
  <1>LookSound. ASSUME NEW x, NEW w \in Nat, NEW l \in Nat, NEW c \in Nat, Sound(x, w, l, c),
               x.handles > 0
        PROVE  LET y == [x EXCEPT !.refs = x.refs + 1]
               IN  y \in Object /\ Sound(y, w, l, c + 1) /\ y.fs = x.fs /\ y.kind = x.kind
    <2> USE <1>LookSound
    <2> DEFINE y == [x EXCEPT !.refs = x.refs + 1]
               d == c + 1
    <2>1. /\ x \in Object /\ x.kind # "none" /\ x.refs > 0
          /\ x.pins = x.own + l /\ x.refs = x.handles + w + x.pins + c
          /\ x.kind = "page" => x.mapc = w
      BY HeldInUse DEF Sound
    <2>2. /\ x.refs \in Nat /\ x.handles \in Nat /\ x.own \in Nat /\ x.pins \in Nat
          /\ x.mapc \in Nat /\ x.quit \in BOOLEAN
      BY <2>1, FieldTypes
    <2>3. x.refs + 1 \in Nat /\ d \in Nat
      BY <2>1, <2>2
    <2>4. y \in Object
      BY <2>1, <2>3, FieldSet, Zenon
    <2>5. /\ y.kind = x.kind /\ y.fs = x.fs /\ y.refs = x.refs + 1
          /\ y.handles = x.handles /\ y.own = x.own /\ y.pins = x.pins
          /\ y.mapc = x.mapc /\ y.revoked = x.revoked /\ y.quit = x.quit
      BY <2>1 DEF Object
    <2>6. d = c + 1
      OBVIOUS
    <2> HIDE DEF y, d
    <2>7. y.refs = y.handles + w + y.pins + d
      BY <2>1, <2>2, <2>3, <2>5, <2>6
    <2>7a. y.refs > 0
      BY <2>1, <2>2, <2>3, <2>5
    <2>8. y.pins = y.own + l /\ Len(y.fs) <= PagesMax
      BY <2>1, <2>2, <2>5, <2>6 DEF Sound
    <2>9. (y.kind = "page" => y.mapc = w) /\ (y.kind = "dma" => y.mapc = 0 /\ y.pins = 0)
      BY <2>1, <2>2, <2>3, <2>5, <2>6 DEF Sound
    <2>10. y.quit => y.revoked /\ y.mapc = 0 /\ y.pins = 0
      BY <2>1, <2>2, <2>3, <2>5, <2>6 DEF Sound
    <2>11. Sound(y, w, l, d)
      BY <2>1, <2>4, <2>5, <2>7, <2>7a, <2>8, <2>9, <2>10 DEF Sound
    <2>12. QED
      BY <2>4, <2>5, <2>11 DEF y, d
  <1> DEFINE x == obj[o]
             w == Cardinality(WindowsOn(o))
             l == Cardinality(EntriesOf(o))
             c == Cardinality(MapCalls(o))
             y == [x EXCEPT !.refs = x.refs + 1]
  <1>0. PICK k : k = [op |-> "map", s |-> s, w |-> v, o |-> o, n |-> Len(obj[o].fs)]
    BY Zenon
  <1>1. Sound(x, w, l, c) /\ w \in Nat /\ l \in Nat /\ c \in Nat /\ x \in Object
    BY SoundObj, Zenon DEF MemInv, Sound
  <1>2. /\ x.kind = "page" /\ x.handles > 0 /\ obj \in [Objs -> Object]
        /\ ~\E d \in call : d.op = "map" /\ d.s = s
        /\ ~\E n \in maps : n.s = s /\ n.w = v
        /\ call' = call \cup {k} /\ obj' = [obj EXCEPT ![o] = y]
        /\ UNCHANGED <<frame, space, maps, sg, mem>>
    BY <1>0 DEF MapLook, MemInv, ObjInv, ObjsSound
  <1>3. /\ k.op = "map" /\ k.s = s /\ k.w = v /\ k.o = o /\ k.n = Len(x.fs) /\ k \in MapCall
    <2>1. Len(x.fs) \in Nat
      BY <1>1, FieldTypes
    <2>2. QED
      BY <1>0, <2>1, Zenon DEF MapCall
  <1>4. k \notin call
    BY <1>2, <1>3
  <1>5. SgType' /\ CallType' /\ MapsType' /\ CallsAlone'
    <2>1. SgType' /\ MapsType'
      BY <1>2, Zenon DEF MemInv, ObjInv, SgType, MapsType
    <2>2. CallType'
      BY <1>2, <1>3, FS_AddElement DEF MemInv, ObjInv, CallType
    <2>3. CallsAlone'
      BY <1>2, <1>3 DEF MemInv, ObjInv, CallsAlone
    <2>4. QED
      BY <2>1, <2>2, <2>3
  <1>6. /\ \A p : EntriesOf(p)' = EntriesOf(p) /\ WindowsOn(p)' = WindowsOn(p)
        /\ \A p : p # o => MapCalls(p)' = MapCalls(p)
        /\ MapCalls(o)' = MapCalls(o) \cup {k} /\ k \notin MapCalls(o)
    BY <1>2, <1>3, <1>4 DEF WindowsOn, EntriesOf, MapCalls
  <1>7. Cardinality(MapCalls(o)') = c + 1
    BY <1>6, HoldersFinite, FS_AddElement, Zenon DEF MemInv, ObjInv
  <1> HIDE DEF x, w, l, c
  <1>8. y \in Object /\ Sound(y, w, l, c + 1) /\ y.fs = x.fs /\ y.kind = x.kind
    BY <1>1, <1>2, <1>LookSound
  <1> HIDE DEF y
  <1>9. obj' \in [Objs -> Object] /\ obj'[o] = y /\ \A p \in Objs : p # o => obj'[p] = obj[p]
    BY <1>2, <1>8
  <1>10. Grown(x, y)
    BY <1>1, <1>8, FieldTypes DEF Grown
  <1>11. \A p \in Objs : StillThere(p) /\ obj'[p].fs = obj[p].fs
    BY <1>2, <1>8, <1>9, <1>10, GrownSelf, Zenon DEF StillThere, x
  <1>12. ObjsSound'
    <2>1. ASSUME NEW p \in Objs
          PROVE  Sound(obj'[p], Cardinality(WindowsOn(p)'), Cardinality(EntriesOf(p)'),
                       Cardinality(MapCalls(p)'))
      <3>1. CASE p = o
        BY <1>6, <1>7, <1>8, <1>9, <3>1 DEF l, w
      <3>2. CASE p # o
        BY <1>6, <1>9, <3>2, SoundObj DEF MemInv
      <3>3. QED
        BY <3>1, <3>2
    <2>2. QED
      BY <1>9, <2>1 DEF ObjsSound
  <1>13. CallOk(k)'
    <2>1. Len(x.fs) \in Nat
      BY <1>1, FieldTypes
    <2>2. QED
      BY <1>2, <1>3, <1>8, <1>9, <2>1 DEF CallOk
  <1>14. ObjInv'
    BY <1>2, <1>5, <1>11, <1>12, <1>13, ObjStep DEF MemInv
  <1>15. HeapInv'
    BY <1>2, <1>11, FsKept DEF MemInv
  <1>16. QED
    BY <1>14, <1>15 DEF MemInv

\* The call opens its window, or finds the object revoked and lets it go.
LEMMA MapOpenInv ==
    ASSUME MemInv, NEW k \in call, MapOpen(k)
    PROVE  MemInv'
  \* A call that opened its window.
  <1>MapSound. ASSUME NEW x, NEW w \in Nat, NEW l \in Nat, NEW c \in Nat, Sound(x, w, l, c),
               c > 0, x.kind = "page", ~x.revoked
        PROVE  LET y == [x EXCEPT !.mapc = x.mapc + 1]
               IN  y \in Object /\ Sound(y, w + 1, l, c - 1) /\ y.fs = x.fs /\ y.kind = x.kind
    <2> USE <1>MapSound
    <2> DEFINE y == [x EXCEPT !.mapc = x.mapc + 1]
               v == w + 1
               d == c - 1
    <2>1. /\ x \in Object /\ x.kind # "none" /\ x.refs > 0
          /\ x.pins = x.own + l /\ x.refs = x.handles + w + x.pins + c
          /\ x.kind = "page" => x.mapc = w
      BY HeldInUse DEF Sound
    <2>2. /\ x.refs \in Nat /\ x.handles \in Nat /\ x.own \in Nat /\ x.pins \in Nat
          /\ x.mapc \in Nat /\ x.quit \in BOOLEAN
      BY <2>1, FieldTypes
    <2>3. x.mapc + 1 \in Nat /\ v \in Nat /\ d \in Nat
      BY <2>1, <2>2
    <2>4. y \in Object
      BY <2>1, <2>3, FieldSet, Zenon
    <2>5. /\ y.kind = x.kind /\ y.fs = x.fs /\ y.refs = x.refs
          /\ y.handles = x.handles /\ y.own = x.own /\ y.pins = x.pins
          /\ y.mapc = x.mapc + 1 /\ y.revoked = x.revoked /\ y.quit = x.quit
      BY <2>1 DEF Object
    <2>6. v = w + 1 /\ d = c - 1
      OBVIOUS
    <2> HIDE DEF y, v, d
    <2>7. y.refs = y.handles + v + y.pins + d
      BY <2>1, <2>2, <2>3, <2>5, <2>6
    <2>7a. y.refs > 0
      BY <2>1, <2>2, <2>3, <2>5
    <2>8. y.pins = y.own + l /\ Len(y.fs) <= PagesMax
      BY <2>1, <2>2, <2>5, <2>6 DEF Sound
    <2>9. (y.kind = "page" => y.mapc = v) /\ (y.kind = "dma" => y.mapc = 0 /\ y.pins = 0)
      BY <2>1, <2>2, <2>3, <2>5, <2>6 DEF Sound
    <2>10. y.quit => y.revoked /\ y.mapc = 0 /\ y.pins = 0
      BY <2>1, <2>2, <2>3, <2>5, <2>6 DEF Sound
    <2>11. Sound(y, v, l, d)
      BY <2>1, <2>4, <2>5, <2>7, <2>7a, <2>8, <2>9, <2>10 DEF Sound
    <2>12. QED
      BY <2>4, <2>5, <2>11 DEF y, v, d
  \* A call that gives up, not the last reference.
  <1>ForgetSound. ASSUME NEW x, NEW w \in Nat, NEW l \in Nat, NEW c \in Nat, Sound(x, w, l, c),
               c > 0, x.refs # 1
        PROVE  LET y == [x EXCEPT !.refs = x.refs - 1]
               IN  y \in Object /\ Sound(y, w, l, c - 1) /\ y.fs = x.fs /\ y.kind = x.kind
    <2> USE <1>ForgetSound
    <2> DEFINE y == [x EXCEPT !.refs = x.refs - 1]
               d == c - 1
    <2>1. /\ x \in Object /\ x.kind # "none" /\ x.refs > 0
          /\ x.pins = x.own + l /\ x.refs = x.handles + w + x.pins + c
          /\ x.kind = "page" => x.mapc = w
      BY HeldInUse DEF Sound
    <2>2. /\ x.refs \in Nat /\ x.handles \in Nat /\ x.own \in Nat /\ x.pins \in Nat
          /\ x.mapc \in Nat /\ x.quit \in BOOLEAN
      BY <2>1, FieldTypes
    <2>3. x.refs - 1 \in Nat /\ d \in Nat
      BY <2>1, <2>2
    <2>4. y \in Object
      BY <2>1, <2>3, FieldSet, Zenon
    <2>5. /\ y.kind = x.kind /\ y.fs = x.fs /\ y.refs = x.refs - 1
          /\ y.handles = x.handles /\ y.own = x.own /\ y.pins = x.pins
          /\ y.mapc = x.mapc /\ y.revoked = x.revoked /\ y.quit = x.quit
      BY <2>1 DEF Object
    <2>6. d = c - 1
      OBVIOUS
    <2> HIDE DEF y, d
    <2>7. y.refs = y.handles + w + y.pins + d
      BY <2>1, <2>2, <2>3, <2>5, <2>6
    <2>7a. y.refs > 0
      BY <2>1, <2>2, <2>3, <2>5
    <2>8. y.pins = y.own + l /\ Len(y.fs) <= PagesMax
      BY <2>1, <2>2, <2>5, <2>6 DEF Sound
    <2>9. (y.kind = "page" => y.mapc = w) /\ (y.kind = "dma" => y.mapc = 0 /\ y.pins = 0)
      BY <2>1, <2>2, <2>3, <2>5, <2>6 DEF Sound
    <2>10. y.quit => y.revoked /\ y.mapc = 0 /\ y.pins = 0
      BY <2>1, <2>2, <2>3, <2>5, <2>6 DEF Sound
    <2>11. Sound(y, w, l, d)
      BY <2>1, <2>4, <2>5, <2>7, <2>7a, <2>8, <2>9, <2>10 DEF Sound
    <2>12. QED
      BY <2>4, <2>5, <2>11 DEF y, d
  <1> DEFINE o == k.o
             x == obj[o]
             w == Cardinality(WindowsOn(o))
             l == Cardinality(EntriesOf(o))
             c == Cardinality(MapCalls(o))
  <1>1. k.op = "map" /\ call' = call \ {k} /\ UNCHANGED <<space, sg, mem>>
    BY DEF MapOpen
  <1>2. k \in MapCall /\ o \in Objs /\ k.n \in Nat /\ obj \in [Objs -> Object]
    BY <1>1, Zenon DEF MemInv, ObjInv, CallType, MapCall, RevokeCall, ObjsSound
  <1>3. Sound(x, w, l, c) /\ w \in Nat /\ l \in Nat /\ c \in Nat /\ x \in Object
    BY <1>2, SoundObj DEF MemInv, Sound
  <1>4. /\ x.kind = "page" /\ k.n <= Len(x.fs)
        /\ ~\E m \in maps : m.s = k.s /\ m.w = k.w
        /\ \A d \in call : d.op = "map" /\ d.s = k.s => d = k
    BY <1>1, Zenon DEF MemInv, ObjInv, HoldersOk, CallOk, CallsAlone
  <1>5. SgType' /\ CallType'
    BY <1>1, FS_RemoveElement, Zenon DEF MemInv, ObjInv, SgType, CallType
  <1>6. /\ \A p : EntriesOf(p)' = EntriesOf(p)
        /\ \A p : p # o => MapCalls(p)' = MapCalls(p)
        /\ MapCalls(o)' = MapCalls(o) \ {k} /\ k \in MapCalls(o)
    BY <1>1 DEF EntriesOf, MapCalls
  <1>7. Cardinality(MapCalls(o)') = c - 1 /\ c > 0 /\ c - 1 \in Nat
    <2>1. IsFiniteSet(MapCalls(o))
      BY HoldersFinite DEF MemInv, ObjInv
    <2>2. Cardinality(MapCalls(o) \ {k}) = c - 1 /\ Cardinality(MapCalls(o) \ {k}) \in Nat
      BY <1>6, <2>1, FS_RemoveElement, FS_CardinalityType
    <2> HIDE DEF c
    <2>3. QED
      BY <1>3, <1>6, <2>2
  <1>8. CASE x.revoked
    <2>1. Settle(Released(obj, frame, o, 1)) /\ maps' = maps
      BY <1>8 DEF MapOpen
    <2>2. /\ x.refs \in Nat /\ x.handles \in Nat /\ x.own \in Nat /\ x.pins \in Nat
          /\ x.pins = x.own + l /\ x.refs = x.handles + w + x.pins + c
      BY <1>3, FieldTypes, Zenon DEF Sound
    <2>3. x.refs > 0
      <3> HIDE DEF x, w, l, c
      <3> QED
        BY <1>3, <1>7, <2>2
    <2>4. /\ HeapInv' /\ obj' \in [Objs -> Object]
          /\ \A p \in Objs : p # o => obj'[p] = obj[p]
          /\ obj[o].refs = 1 => obj'[o] = NoObj
          /\ obj[o].refs # 1 => obj'[o] = [obj[o] EXCEPT !.refs = obj[o].refs - 1]
      BY <1>1, <1>2, <2>1, <2>3, LetGo DEF MemInv
    <2>5. Sound(obj'[o], w, l, c - 1) /\ StillThere(o)
      <3>1. CASE x.refs = 1
        <4>1. w = 0 /\ l = 0 /\ c - 1 = 0
          <5> HIDE DEF x, w, l, c
          <5>1. w = 0 /\ x.pins = 0 /\ c = 1
            BY <1>3, <1>7, <2>2, <3>1
          <5>2. QED
            BY <1>3, <2>2, <5>1
        <4>2. obj'[o] = NoObj
          BY <2>4, <3>1
        <4> HIDE DEF w, l, c
        <4>3. QED
          BY <4>1, <4>2, NoObjSound, Zenon DEF StillThere
      <3>2. CASE x.refs # 1
        <4> DEFINE z == [x EXCEPT !.refs = x.refs - 1]
        <4>1. obj'[o] = z
          BY <2>4, <3>2
        <4> HIDE DEF x, w, l, c
        <4>2. z \in Object /\ Sound(z, w, l, c - 1) /\ z.fs = x.fs /\ z.kind = x.kind
          BY <1>3, <1>7, <3>2, <1>ForgetSound
        <4> HIDE DEF z
        <4>3. Grown(x, z)
          BY <1>3, <4>2, FieldTypes DEF Grown
        <4>4. QED
          BY <4>1, <4>2, <4>3 DEF StillThere, x
      <3>3. QED
        BY <3>1, <3>2, Zenon
    <2>6. \A p \in Objs : StillThere(p)
      BY <1>2, <2>4, <2>5, GrownSelf DEF StillThere
    <2>7. MapsType' /\ CallsAlone' /\ \A p : WindowsOn(p)' = WindowsOn(p)
      BY <1>1, <2>1, Zenon DEF MemInv, ObjInv, MapsType, CallsAlone, WindowsOn
    <2>8. ObjsSound'
      <3>1. ASSUME NEW p \in Objs
            PROVE  Sound(obj'[p], Cardinality(WindowsOn(p)'), Cardinality(EntriesOf(p)'),
                         Cardinality(MapCalls(p)'))
        <4>1. CASE p = o
          BY <1>6, <1>7, <2>5, <2>7, <4>1
        <4>2. CASE p # o
          BY <1>6, <2>4, <2>7, <4>2, SoundObj DEF MemInv
        <4>3. QED
          BY <4>1, <4>2
      <3>2. QED
        BY <2>4, <3>1 DEF ObjsSound
    <2>9. ObjInv'
      BY <1>1, <1>5, <2>1, <2>6, <2>7, <2>8, ObjStep DEF MemInv
    <2>10. QED
      BY <2>4, <2>9 DEF MemInv
  <1>9. CASE ~x.revoked
    <2> DEFINE y == [x EXCEPT !.mapc = x.mapc + 1]
               fs == [i \in 1 .. k.n |-> IF i <= Len(obj[k.o].fs) THEN obj[k.o].fs[i] ELSE 0]
    <2>1. PICK m : m = [s |-> k.s, w |-> k.w, o |-> k.o, fs |-> fs]
      BY Zenon
    <2>2. maps' = maps \cup {m} /\ obj' = [obj EXCEPT ![o] = y] /\ frame' = frame
      BY <1>9, <2>1 DEF MapOpen
    <2>3. /\ x.fs \in Seq(Frames) /\ Len(x.fs) \in Nat /\ DOMAIN x.fs = 1 .. Len(x.fs)
          /\ \A i \in 1 .. k.n : i \in 1 .. Len(x.fs) /\ i <= Len(x.fs)
      <3>1. x.fs \in Seq(Frames) /\ Len(x.fs) \in Nat
        BY <1>3, FieldTypes
      <3>2. QED
        BY <1>2, <1>4, <3>1
    <2>4. \A i \in 1 .. k.n : fs[i] = x.fs[i] /\ x.fs[i] \in Frames
      BY <2>3
    <2>4a. DOMAIN fs = 1 .. k.n /\ fs = [i \in 1 .. k.n |-> fs[i]]
      OBVIOUS
    <2> HIDE DEF fs
    <2>4b. fs \in [1 .. k.n -> Frames \cup {0}]
      BY <2>4, <2>4a
    <2>5. fs \in Seq(Frames \cup {0}) /\ DOMAIN fs = 1 .. k.n
      BY <1>2, <2>4a, <2>4b
    <2>6. /\ m.s = k.s /\ m.w = k.w /\ m.o = o /\ m.fs = fs
          /\ m \in [s : Spaces, w : Windows, o : Objs, fs : Seq(Frames \cup {0})]
      BY <1>2, <2>1, <2>5, Zenon DEF MapCall
    <2>7. m \notin maps
      BY <1>4, <2>6
    <2>8. MapsType'
      BY <2>2, <2>6, FS_AddElement DEF MemInv, ObjInv, MapsType
    <2>9. CallsAlone'
      BY <1>1, <1>4, <2>2, <2>6 DEF MemInv, ObjInv, CallsAlone
    <2>10. /\ \A p : p # o => WindowsOn(p)' = WindowsOn(p)
           /\ WindowsOn(o)' = WindowsOn(o) \cup {m} /\ m \notin WindowsOn(o)
      BY <2>2, <2>6, <2>7 DEF WindowsOn
    <2>11. Cardinality(WindowsOn(o)') = w + 1
      BY <2>10, HoldersFinite, FS_AddElement, Zenon DEF MemInv, ObjInv
    <2>12. y \in Object /\ Sound(y, w + 1, l, c - 1) /\ y.fs = x.fs /\ y.kind = x.kind
      <3> HIDE DEF x, w, l, c
      <3> QED
        BY <1>3, <1>4, <1>7, <1>9, <1>MapSound
    <2> HIDE DEF y
    <2>13. obj' \in [Objs -> Object] /\ obj'[o] = y /\ \A p \in Objs : p # o => obj'[p] = obj[p]
      BY <1>2, <2>2, <2>12
    <2>14. Grown(x, y)
      BY <2>3, <2>12 DEF Grown
    <2>15. \A p \in Objs : StillThere(p) /\ obj'[p].fs = obj[p].fs
      BY <1>2, <2>12, <2>13, <2>14, GrownSelf DEF StillThere
    <2>16. ObjsSound'
      <3>1. ASSUME NEW p \in Objs
            PROVE  Sound(obj'[p], Cardinality(WindowsOn(p)'), Cardinality(EntriesOf(p)'),
                         Cardinality(MapCalls(p)'))
        <4>1. CASE p = o
          BY <1>6, <1>7, <2>11, <2>12, <2>13, <4>1, Zenon
        <4>2. CASE p # o
          BY <1>6, <2>10, <2>13, <4>2, SoundObj DEF MemInv
        <4>3. QED
          BY <4>1, <4>2
      <3>2. QED
        BY <2>13, <3>1 DEF ObjsSound
    <2>17. \A i \in DOMAIN m.fs : i \in DOMAIN obj'[o].fs /\ obj'[o].fs[i] = m.fs[i]
      BY <2>3, <2>4, <2>5, <2>6, <2>12, <2>13
    <2>18. WindowOk(m)'
      BY <2>6, <2>17 DEF WindowOk
    <2>19. ObjInv'
      BY <1>1, <1>5, <2>2, <2>8, <2>9, <2>15, <2>16, <2>18, ObjStep DEF MemInv
    <2>20. HeapInv'
      BY <1>1, <2>2, <2>15, FsKept DEF MemInv
    <2>21. QED
      BY <2>19, <2>20 DEF MemInv
  <1>10. QED
    BY <1>8, <1>9

-----------------------------------------------------------------------------
(* Scatter-gather lists.                                                      *)

\* An object after n of its l list entries went.
AfterUnpin(x, n) ==
    IF n > 0 /\ x.refs = n THEN NoObj
    ELSE [x EXCEPT !.pins = x.pins - n, !.refs = x.refs - n]

\* An object that loses list entries is sound, or its slot is empty.
LEMMA UnpinnedObj ==
    ASSUME NEW x, NEW w \in Nat, NEW l \in Nat, NEW c \in Nat, Sound(x, w, l, c),
           NEW n \in Nat, n <= l
    PROVE  /\ AfterUnpin(x, n) \in Object /\ Sound(AfterUnpin(x, n), w, l - n, c)
           /\ AfterUnpin(x, n).fs = IF n > 0 /\ x.refs = n THEN <<>> ELSE x.fs
           /\ AfterUnpin(x, n) = NoObj \/ Grown(x, AfterUnpin(x, n))
  <1>1. x \in Object
    BY DEF Sound
  <1>2. /\ x.refs \in Nat /\ x.handles \in Nat /\ x.own \in Nat /\ x.pins \in Nat
        /\ x.mapc \in Nat /\ Len(x.fs) \in Nat
        /\ x.pins = x.own + l /\ x.refs = x.handles + w + x.pins + c
    BY <1>1, FieldTypes DEF Sound
  <1>3. CASE n = 0
    <2>1. AfterUnpin(x, n) = [x EXCEPT !.pins = x.pins, !.refs = x.refs]
      <3>1. x.refs - n = x.refs /\ x.pins - n = x.pins /\ ~(n > 0)
        BY <1>2, <1>3
      <3>2. QED
        BY <3>1, Zenon DEF AfterUnpin
    <2>2. [x EXCEPT !.pins = x.pins, !.refs = x.refs] = x
      BY <1>1, Zenon DEF Object
    <2>3. l - n = l
      BY <1>3
    <2>4. QED
      BY <1>1, <1>3, <2>1, <2>2, <2>3, GrownSelf
  <1>4. CASE n > 0 /\ x.refs = n
    <2>1. w = 0 /\ l - n = 0 /\ c = 0
      <3>1. n = x.handles + w + x.own + l + c
        BY <1>2, <1>4
      <3>2. \A h, k \in Nat : n = h + w + k + l + c => w = 0 /\ l - n = 0 /\ c = 0
        OBVIOUS
      <3>3. QED
        BY <1>2, <3>1, <3>2, Zenon
    <2>2. AfterUnpin(x, n) = NoObj
      BY <1>4 DEF AfterUnpin
    <2>3. QED
      BY <1>4, <2>1, <2>2, NoObjSound
  <1>5. CASE n > 0 /\ x.refs # n
    <2> DEFINE y == Unlisted(x, n)
    <2>1. AfterUnpin(x, n) = y
      BY <1>5 DEF AfterUnpin, Unlisted
    <2>2. l > 0 /\ x.refs # n
      BY <1>5
    <2>3. y \in Object /\ Sound(y, w, l - n, c) /\ y.fs = x.fs /\ y.kind = x.kind
      BY <2>2, UnlistedSound
    <2> HIDE DEF y
    <2>4. Grown(x, y)
      BY <1>2, <2>3 DEF Grown
    <2>5. QED
      BY <1>5, <2>1, <2>3, <2>4
  <1>6. QED
    BY <1>2, <1>3, <1>4, <1>5

\* The entries of list g in a table of lists G, and those of them on object o.
Column(G, g, o) == {k \in Sgs \X (1 .. ListMax) :
                      k[1] = g /\ k[2] \in DOMAIN G[g].at /\ G[g].at[k[2]].o = o}

\* A list pins an object once for each of its entries on it.
LEMMA ColumnSize ==
    ASSUME NEW G, NEW g \in Sgs, NEW o, NEW n \in Nat, DOMAIN G[g].at = 1 .. n, n <= ListMax
    PROVE  /\ IsFiniteSet(Column(G, g, o)) /\ PinsOf(G[g].at, o) \in Nat
           /\ Cardinality(Column(G, g, o)) = PinsOf(G[g].at, o)
  <1> DEFINE at == G[g].at
             I == {i \in DOMAIN at : at[i].o = o}
  <1>1. IsFiniteSet(1 .. n)
    BY FS_Interval
  <1>2. IsFiniteSet(I)
    BY <1>1, FS_Subset
  <1>3. \A i \in I : i \in 1 .. ListMax
    BY MemoryAssumption
  <1>4. \A k : k \in Column(G, g, o) <=> \E i \in I : k = <<g, i>>
    <2>1. ASSUME NEW k \in Column(G, g, o)
          PROVE  \E i \in I : k = <<g, i>>
      <3>1. k \in Sgs \X (1 .. ListMax) /\ k[1] = g /\ k[2] \in I
        BY <2>1 DEF Column
      <3>2. k = <<g, k[2]>>
        BY <3>1
      <3>3. QED
        BY <3>1, <3>2
    <2>2. ASSUME NEW i \in I
          PROVE  <<g, i>> \in Column(G, g, o)
      BY <1>3, <2>2 DEF Column
    <2>3. QED
      BY <2>1, <2>2
  <1>5. IsFiniteSet(Column(G, g, o)) /\ Cardinality(Column(G, g, o)) = Cardinality(I)
    <2> HIDE DEF I
    <2> QED
      BY <1>2, <1>4, CardColumn, Zenon
  <1>6. PinsOf(at, o) = Cardinality(I)
    BY DEF PinsOf
  <1> HIDE DEF I
  <1>7. QED
    BY <1>2, <1>5, <1>6, FS_CardinalityType

\* The objects whose last references are the entries of a list.
DeadPins(at) == {o \in Objs : PinsOf(at, o) > 0 /\ obj[o].refs = PinsOf(at, o)}

\* A list lets go of its entries, and the objects that nobody else holds go.
LEMMA UnpinStep ==
    ASSUME MemInv, NEW g \in Sgs, Settle(Unpinned(obj, frame, sg[g].at)),
           SgType', sg'[g].at = <<>>, \A h \in Sgs : h # g => sg'[h] = sg[h],
           UNCHANGED <<space, maps, call, mem>>
    PROVE  MemInv'
  <1> DEFINE at == sg[g].at
  <1>1. PICK n \in Nat : DOMAIN at = 1 .. n /\ n <= ListMax
    <2>1. at \in Seq([o : Objs, f : Frames]) /\ Len(at) <= ListMax
      BY Zenon DEF MemInv, ObjInv, SgType
    <2>2. Len(at) \in Nat /\ DOMAIN at = 1 .. Len(at)
      BY <2>1
    <2>3. QED
      BY <2>1, <2>2
  <1>2. obj' = Unpinned(obj, frame, at).O /\ frame' = Unpinned(obj, frame, at).F
    BY DEF Settle
  <1>3. ASSUME NEW o \in Objs
        PROVE  /\ obj'[o] = AfterUnpin(obj[o], PinsOf(at, o))
               /\ PinsOf(at, o) \in Nat /\ PinsOf(at, o) <= Cardinality(EntriesOf(o))
               /\ Cardinality(EntriesOf(o)') = Cardinality(EntriesOf(o)) - PinsOf(at, o)
    <2>1. obj'[o] = AfterUnpin(obj[o], PinsOf(at, o))
      BY <1>2, <1>3, Zenon DEF Unpinned, AfterUnpin
    <2> DEFINE T == Column(sg, g, o)
    <2>2. Cardinality(T) = PinsOf(at, o)
      BY <1>1, ColumnSize
    <2>3. T \in SUBSET EntriesOf(o)
      BY DEF Column, EntriesOf
    <2>4. EntriesOf(o)' = EntriesOf(o) \ T
      <3>1. ASSUME NEW k \in Sgs \X (1 .. ListMax)
            PROVE  k \in EntriesOf(o)' <=> k \in EntriesOf(o) /\ k \notin T
        <4>1. CASE k[1] = g
          <5>1. k[2] \notin DOMAIN sg'[g].at
            OBVIOUS
          <5>2. k \notin EntriesOf(o)'
            BY <4>1, <5>1 DEF EntriesOf
          <5>3. k \in EntriesOf(o) => k \in T
            BY <4>1 DEF EntriesOf, Column
          <5>4. QED
            BY <5>2, <5>3
        <4>2. CASE k[1] # g
          BY <4>2 DEF EntriesOf, Column
        <4>3. QED
          BY <4>1, <4>2
      <3>2. /\ EntriesOf(o)' \subseteq Sgs \X (1 .. ListMax)
            /\ EntriesOf(o) \subseteq Sgs \X (1 .. ListMax)
        BY DEF EntriesOf
      <3> HIDE DEF T
      <3>3. QED
        BY <3>1, <3>2
    <2>5. IsFiniteSet(EntriesOf(o))
      BY HoldersFinite DEF MemInv, ObjInv
    <2> HIDE DEF T, at
    <2>6. /\ Cardinality(T) \in Nat /\ Cardinality(EntriesOf(o)) \in Nat
          /\ Cardinality(EntriesOf(o) \ T) \in Nat
          /\ Cardinality(EntriesOf(o) \ T) = Cardinality(EntriesOf(o)) - Cardinality(T)
      BY <2>3, <2>5, CardPart, Zenon
    <2>7. PinsOf(at, o) \in Nat /\ PinsOf(at, o) <= Cardinality(EntriesOf(o))
      BY <2>2, <2>6
    <2>8. Cardinality(EntriesOf(o)') = Cardinality(EntriesOf(o)) - PinsOf(at, o)
      BY <2>2, <2>4, <2>6, Zenon
    <2>9. QED
      BY <2>1, <2>7, <2>8, Zenon
  <1> HIDE DEF at
  <1>4. ASSUME NEW o \in Objs
        PROVE  /\ obj'[o] \in Object
               /\ Sound(obj'[o], Cardinality(WindowsOn(o)), Cardinality(EntriesOf(o)'),
                        Cardinality(MapCalls(o)))
               /\ obj'[o].fs = IF o \in DeadPins(at) THEN <<>> ELSE obj[o].fs
               /\ StillThere(o)
    <2> DEFINE x == obj[o]
               w == Cardinality(WindowsOn(o))
               l == Cardinality(EntriesOf(o))
               c == Cardinality(MapCalls(o))
               k == PinsOf(at, o)
    <2>1. Sound(x, w, l, c) /\ w \in Nat /\ l \in Nat /\ c \in Nat
      BY SoundObj, Zenon DEF MemInv
    <2>2. k \in Nat /\ k <= l
      BY <1>3
    <2>3. obj'[o] = AfterUnpin(x, k) /\ Cardinality(EntriesOf(o)') = l - k
      BY <1>3
    <2>4. o \in DeadPins(at) <=> k > 0 /\ x.refs = k
      BY DEF DeadPins
    <2> HIDE DEF w, l, c, k, x
    <2>5. /\ AfterUnpin(x, k) \in Object /\ Sound(AfterUnpin(x, k), w, l - k, c)
          /\ AfterUnpin(x, k).fs = IF k > 0 /\ x.refs = k THEN <<>> ELSE x.fs
          /\ AfterUnpin(x, k) = NoObj \/ Grown(x, AfterUnpin(x, k))
      BY <2>1, <2>2, UnpinnedObj
    <2>6. QED
      BY <2>3, <2>4, <2>5, Zenon DEF StillThere, x, w, c
  <1>5. DOMAIN obj' = Objs /\ obj' = [o \in Objs |-> obj'[o]]
    BY <1>2, Zenon DEF Unpinned
  <1>6. obj' \in [Objs -> Object]
    BY <1>4, <1>5
  <1>7. \A o : WindowsOn(o)' = WindowsOn(o) /\ MapCalls(o)' = MapCalls(o)
    BY DEF WindowsOn, MapCalls
  <1>8. ObjsSound'
    BY <1>4, <1>6, <1>7, Zenon DEF ObjsSound
  <1>9. MapsType' /\ CallType' /\ CallsAlone'
    BY Zenon DEF MemInv, ObjInv, MapsType, CallType, CallsAlone
  <1>10. \A h \in Sgs : sg'[h].at = sg[h].at \/ \A i \in DOMAIN sg'[h].at : EntryOk(sg[h].at[i])'
    OBVIOUS
  <1>11. ObjInv'
    BY <1>4, <1>8, <1>9, <1>10, ObjStep, Zenon DEF MemInv
  <1>12. Unpinned(obj, frame, at).F = FreePages(frame, obj, DeadPins(at))
    BY Zenon DEF Unpinned, DeadPins
  <1>13. HeapInv'
    BY <1>2, <1>4, <1>12, FramesFreed, Zenon DEF MemInv
  <1>14. QED
    BY <1>11, <1>13 DEF MemInv

\* sg_revoke releases what the list pins.
LEMMA SgRevokeInv ==
    ASSUME MemInv, NEW g \in Sgs, sg_resource_revoke(g)
    PROVE  MemInv'
  <1>1. /\ sg[g].on /\ Settle(Unpinned(obj, frame, sg[g].at)) /\ UNCHANGED <<space, maps, call, mem>>
        /\ sg' = [sg EXCEPT ![g].revoked = TRUE, ![g].at = <<>>]
    BY DEF sg_resource_revoke
  <1>2. sg \in [Sgs -> [on : BOOLEAN, at : Seq([o : Objs, f : Frames]), revoked : BOOLEAN]]
    BY Zenon DEF MemInv, ObjInv, SgType
  <1>3. /\ sg' \in [Sgs -> [on : BOOLEAN, at : Seq([o : Objs, f : Frames]), revoked : BOOLEAN]]
        /\ sg'[g].at = <<>> /\ \A h \in Sgs : h # g => sg'[h] = sg[h]
    <2> DEFINE R == [on : BOOLEAN, at : Seq([o : Objs, f : Frames]), revoked : BOOLEAN]
    <2>1. ASSUME NEW r \in R
          PROVE  [r EXCEPT !.revoked = TRUE] \in R
      BY Zenon
    <2>2. ASSUME NEW r \in R
          PROVE  [r EXCEPT !.at = <<>>] \in R /\ [r EXCEPT !.at = <<>>].at = <<>>
      <3>1. <<>> \in Seq([o : Objs, f : Frames])
        OBVIOUS
      <3>2. QED
        BY <2>2, <3>1, Zenon
    <2> HIDE DEF R
    <2>3. PICK t : t = [sg EXCEPT ![g].revoked = TRUE]
      BY Zenon
    <2>4. t \in [Sgs -> R] /\ \A h \in Sgs : h # g => t[h] = sg[h]
      BY <1>2, <2>1, <2>3, Zenon DEF R
    <2>5. sg' = [t EXCEPT ![g].at = <<>>]
      BY <1>1, <2>3
    <2>6. sg' \in [Sgs -> R] /\ sg'[g].at = <<>> /\ \A h \in Sgs : h # g => sg'[h] = sg[h]
      BY <2>2, <2>4, <2>5
    <2>7. QED
      BY <2>6, Zenon DEF R
  <1>4. Len(<<>>) = 0 /\ 0 <= ListMax
    BY MemoryAssumption
  <1>5. SgType'
    BY <1>3, <1>4, Zenon DEF MemInv, ObjInv, SgType
  <1>6. QED
    BY <1>1, <1>3, <1>5, UnpinStep

\* sg_destroy releases what the list pins.
LEMMA SgDestroyInv ==
    ASSUME MemInv, NEW g \in Sgs, sg_destroy(g)
    PROVE  MemInv'
  <1>1. /\ Settle(Unpinned(obj, frame, sg[g].at)) /\ UNCHANGED <<space, maps, call, mem>>
        /\ sg' = [sg EXCEPT ![g] = NoSg]
    BY DEF sg_destroy
  <1>2. sg \in [Sgs -> [on : BOOLEAN, at : Seq([o : Objs, f : Frames]), revoked : BOOLEAN]]
    BY Zenon DEF MemInv, ObjInv, SgType
  <1>3. /\ NoSg \in [on : BOOLEAN, at : Seq([o : Objs, f : Frames]), revoked : BOOLEAN]
        /\ NoSg.at = <<>>
    BY DEF NoSg
  <1>4. /\ sg' \in [Sgs -> [on : BOOLEAN, at : Seq([o : Objs, f : Frames]), revoked : BOOLEAN]]
        /\ sg'[g].at = <<>> /\ \A h \in Sgs : h # g => sg'[h] = sg[h]
    BY <1>1, <1>2, <1>3, Zenon
  <1>5. Len(<<>>) = 0 /\ 0 <= ListMax
    BY MemoryAssumption
  <1>6. SgType'
    BY <1>4, <1>5, Zenon DEF MemInv, ObjInv, SgType
  <1>7. QED
    BY <1>1, <1>4, <1>6, UnpinStep

\* A new list pins an object once for each of its entries on it.
LEMMA SgCreateInv ==
    ASSUME MemInv, NEW g \in Sgs, NEW at \in SgLists, sg_resource_create(g, at)
    PROVE  MemInv'
  \* n list entries more.
  <1>ListedSound. ASSUME NEW x, NEW w \in Nat, NEW l \in Nat, NEW c \in Nat, Sound(x, w, l, c),
               NEW n \in Nat, x.handles > 0, x.kind = "page", ~x.revoked
        PROVE  LET y == Listed(x, n)
               IN  y \in Object /\ Sound(y, w, l + n, c) /\ y.fs = x.fs /\ y.kind = x.kind
    <2> USE <1>ListedSound
    <2> DEFINE y == Listed(x, n)
               k == l + n
    <2>1. /\ x \in Object /\ x.kind # "none" /\ x.refs > 0
          /\ x.pins = x.own + l /\ x.refs = x.handles + w + x.pins + c
          /\ x.kind = "page" => x.mapc = w
      BY HeldInUse DEF Sound
    <2>2. /\ x.refs \in Nat /\ x.handles \in Nat /\ x.own \in Nat /\ x.pins \in Nat
          /\ x.mapc \in Nat /\ x.quit \in BOOLEAN
      BY <2>1, FieldTypes
    <2>3. x.pins + n \in Nat /\ x.refs + n \in Nat /\ k \in Nat
      BY <2>1, <2>2
    <2>4. y \in Object
      BY <2>1, <2>3, FieldSet, Zenon DEF Listed
    <2>5. /\ y.kind = x.kind /\ y.fs = x.fs /\ y.refs = x.refs + n
          /\ y.handles = x.handles /\ y.own = x.own /\ y.pins = x.pins + n
          /\ y.mapc = x.mapc /\ y.revoked = x.revoked /\ y.quit = x.quit
      BY <2>1 DEF Object, Listed
    <2>6. k = l + n
      OBVIOUS
    <2> HIDE DEF y, k
    <2>7. y.refs = y.handles + w + y.pins + c
      BY <2>1, <2>2, <2>3, <2>5, <2>6
    <2>7a. y.refs > 0
      BY <2>1, <2>2, <2>3, <2>5
    <2>8. y.pins = y.own + k /\ Len(y.fs) <= PagesMax
      BY <2>1, <2>2, <2>5, <2>6 DEF Sound
    <2>9. (y.kind = "page" => y.mapc = w) /\ (y.kind = "dma" => y.mapc = 0 /\ y.pins = 0)
      BY <2>1, <2>2, <2>3, <2>5, <2>6 DEF Sound
    <2>10. y.quit => y.revoked /\ y.mapc = 0 /\ y.pins = 0
      BY <2>1, <2>2, <2>3, <2>5, <2>6 DEF Sound
    <2>11. Sound(y, w, k, c)
      BY <2>1, <2>4, <2>5, <2>7, <2>7a, <2>8, <2>9, <2>10 DEF Sound
    <2>12. QED
      BY <2>4, <2>5, <2>11 DEF y, k
  \* n list entries more, none of them or of a page object with a handle.
  <1>ListedObj. ASSUME NEW x, NEW w \in Nat, NEW l \in Nat, NEW c \in Nat, Sound(x, w, l, c),
               NEW n \in Nat, n > 0 => x.handles > 0 /\ x.kind = "page" /\ ~x.revoked
        PROVE  /\ Listed(x, n) \in Object /\ Sound(Listed(x, n), w, l + n, c)
               /\ Listed(x, n).fs = x.fs /\ Grown(x, Listed(x, n))
    <2> USE <1>ListedObj
    <2>1. x \in Object
      BY DEF Sound
    <2>2. x.refs \in Nat /\ x.pins \in Nat /\ Len(x.fs) \in Nat
      BY <2>1, FieldTypes
    <2>3. CASE n = 0
      <3>1. Listed(x, n) = [x EXCEPT !.pins = x.pins, !.refs = x.refs]
        <4>1. x.refs + n = x.refs /\ x.pins + n = x.pins
          BY <2>2, <2>3
        <4>2. QED
          BY <4>1, Zenon DEF Listed
      <3>2. [x EXCEPT !.pins = x.pins, !.refs = x.refs] = x
        BY <2>1, Zenon DEF Object
      <3>3. l + n = l
        BY <2>3
      <3>4. QED
        BY <2>1, <3>1, <3>2, <3>3, GrownSelf
    <2>4. CASE n > 0
      <3> DEFINE y == Listed(x, n)
      <3>1. y \in Object /\ Sound(y, w, l + n, c) /\ y.fs = x.fs /\ y.kind = x.kind
        BY <2>4, <1>ListedSound
      <3> HIDE DEF y
      <3>2. Grown(x, y)
        BY <2>2, <3>1 DEF Grown
      <3>3. QED
        BY <3>1, <3>2 DEF y
    <2>5. QED
      BY <2>3, <2>4
  <1> DEFINE ListEntry == [o : Objs, f : Frames]
             new == [i \in DOMAIN at |-> [o |-> at[i].o, f |-> obj[at[i].o].fs[at[i].i]]]
  <1>1. PICK n \in 1 .. ListMax : at \in [1 .. n -> [o : Objs, i : 1 .. PagesMax]]
    BY DEF SgLists
  <1>2. n \in Nat /\ n <= ListMax /\ DOMAIN at = 1 .. n
    BY <1>1, MemoryAssumption
  <1>3. /\ ~sg[g].on /\ UNCHANGED <<frame, space, maps, call, mem>>
        /\ \A i \in DOMAIN at : /\ obj[at[i].o].kind = "page" /\ ~obj[at[i].o].revoked
                                /\ obj[at[i].o].handles > 0 /\ at[i].i <= Len(obj[at[i].o].fs)
        /\ sg' = [sg EXCEPT ![g] = [on |-> TRUE, revoked |-> FALSE, at |-> new]]
        /\ DOMAIN obj' = Objs /\ obj' = [o \in Objs |-> obj'[o]]
        /\ \A o \in Objs : obj'[o] = Listed(obj[o], PinsOf(at, o))
    BY Zenon DEF sg_resource_create, Listed
  <1>4. \A o \in Objs : obj[o].fs \in Seq(Frames)
    BY DEF MemInv, ObjInv, ObjsSound, Object
  <1>5. \A i \in DOMAIN at : at[i].i \in DOMAIN obj[at[i].o].fs /\ at[i].o \in Objs
    <2>1. ASSUME NEW i \in DOMAIN at
          PROVE  at[i].i \in DOMAIN obj[at[i].o].fs /\ at[i].o \in Objs
      <3>1. at[i].o \in Objs /\ at[i].i \in 1 .. PagesMax /\ at[i].i <= Len(obj[at[i].o].fs)
        BY <1>1, <1>2, <1>3, <2>1
      <3>2. obj[at[i].o].fs \in Seq(Frames)
        BY <1>4, <3>1
      <3>3. Len(obj[at[i].o].fs) \in Nat /\ DOMAIN obj[at[i].o].fs = 1 .. Len(obj[at[i].o].fs)
        BY <3>2
      <3>4. at[i].i \in Nat /\ at[i].i >= 1
        BY <3>1, MemoryAssumption
      <3>5. QED
        BY <3>1, <3>3, <3>4
    <2>2. QED
      BY <2>1
  <1>6. new \in [1 .. n -> ListEntry]
    <2>1. ASSUME NEW i \in DOMAIN at
          PROVE  new[i] \in ListEntry
      <3>1. obj[at[i].o].fs \in Seq(Frames) /\ at[i].i \in DOMAIN obj[at[i].o].fs /\ at[i].o \in Objs
        BY <1>4, <1>5, <2>1
      <3>2. obj[at[i].o].fs[at[i].i] \in Frames
        BY <3>1, Element
      <3>3. QED
        BY <2>1, <3>1, <3>2
    <2>2. QED
      BY <1>2, <2>1
  <1>7. new \in Seq(ListEntry) /\ Len(new) = n
    BY <1>2, <1>6
  <1>8. /\ \A i \in DOMAIN at : new[i].o = at[i].o /\ new[i].f = obj[at[i].o].fs[at[i].i]
        /\ DOMAIN new = DOMAIN at
    OBVIOUS
  <1>9. sg \in [Sgs -> [on : BOOLEAN, at : Seq(ListEntry), revoked : BOOLEAN]] /\ sg[g].at = <<>>
    BY <1>3, Zenon DEF MemInv, ObjInv, SgType
  <1> HIDE DEF new
  <1>10. PICK r : r = [on |-> TRUE, revoked |-> FALSE, at |-> new]
    BY Zenon
  <1>11. r \in [on : BOOLEAN, at : Seq(ListEntry), revoked : BOOLEAN] /\ r.on /\ r.at = new
    BY <1>7, <1>10
  <1>12. sg' = [sg EXCEPT ![g] = r]
    BY <1>3, <1>10
  <1>13. /\ sg' \in [Sgs -> [on : BOOLEAN, at : Seq(ListEntry), revoked : BOOLEAN]]
         /\ sg'[g] = r /\ \A h \in Sgs : h # g => sg'[h] = sg[h]
    BY <1>9, <1>11, <1>12, Zenon
  <1>14. SgType'
    BY <1>2, <1>7, <1>11, <1>13, Zenon DEF MemInv, ObjInv, SgType
  <1>15. ASSUME NEW o \in Objs
         PROVE  /\ PinsOf(at, o) \in Nat
                /\ Cardinality(EntriesOf(o)') = Cardinality(EntriesOf(o)) + PinsOf(at, o)
    <2> DEFINE T == Column(sg', g, o)
    <2>1. DOMAIN sg'[g].at = 1 .. n
      BY <1>2, <1>8, <1>11, <1>13, Zenon
    <2>2. /\ IsFiniteSet(T) /\ PinsOf(sg'[g].at, o) \in Nat
          /\ Cardinality(T) = PinsOf(sg'[g].at, o)
      BY <1>2, <2>1, ColumnSize
    <2>3. PinsOf(sg'[g].at, o) = PinsOf(at, o)
      <3>1. {i \in DOMAIN new : new[i].o = o} = {i \in DOMAIN at : at[i].o = o}
        BY <1>8
      <3>2. QED
        BY <1>11, <1>13, <3>1, Zenon DEF PinsOf
    <2>4. ASSUME NEW k \in Sgs \X (1 .. ListMax)
          PROVE  /\ k \in EntriesOf(o)' <=> k \in EntriesOf(o) \/ k \in T
                 /\ ~(k \in EntriesOf(o) /\ k \in T)
      <3>1. CASE k[1] = g
        <4>1. k[2] \notin DOMAIN sg[g].at
          BY <1>9
        <4>2. k \notin EntriesOf(o)
          BY <3>1, <4>1 DEF EntriesOf
        <4>3. k \in EntriesOf(o)' <=> k \in T
          BY <3>1 DEF EntriesOf, Column
        <4>4. QED
          BY <4>2, <4>3
      <3>2. CASE k[1] # g
        BY <1>13, <3>2, Zenon DEF EntriesOf, Column
      <3>3. QED
        BY <3>1, <3>2
    <2>5. /\ EntriesOf(o)' \subseteq Sgs \X (1 .. ListMax)
          /\ EntriesOf(o) \subseteq Sgs \X (1 .. ListMax)
          /\ T \subseteq Sgs \X (1 .. ListMax)
      BY Zenon DEF EntriesOf, Column
    <2> HIDE DEF T
    <2>6. EntriesOf(o)' = EntriesOf(o) \cup T /\ EntriesOf(o) \cap T = {}
      BY <2>4, <2>5
    <2>7. IsFiniteSet(EntriesOf(o))
      BY HoldersFinite DEF MemInv, ObjInv
    <2>8. Cardinality(EntriesOf(o) \cup T) = Cardinality(EntriesOf(o)) + Cardinality(T)
      BY <2>2, <2>6, <2>7, CardDisjoint, Zenon
    <2>9. QED
      BY <2>2, <2>3, <2>6, <2>8
  <1>16. ASSUME NEW o \in Objs
         PROVE  /\ obj'[o] \in Object
                /\ Sound(obj'[o], Cardinality(WindowsOn(o)), Cardinality(EntriesOf(o)'),
                         Cardinality(MapCalls(o)))
                /\ obj'[o].fs = obj[o].fs
                /\ StillThere(o)
    <2> DEFINE x == obj[o]
               w == Cardinality(WindowsOn(o))
               l == Cardinality(EntriesOf(o))
               c == Cardinality(MapCalls(o))
               k == PinsOf(at, o)
    <2>1. Sound(x, w, l, c) /\ w \in Nat /\ l \in Nat /\ c \in Nat
      BY SoundObj DEF MemInv
    <2>2. k \in Nat /\ obj'[o] = Listed(x, k) /\ Cardinality(EntriesOf(o)') = l + k
      BY <1>3, <1>15
    <2>3. k > 0 => x.handles > 0 /\ x.kind = "page" /\ ~x.revoked
      <3>1. CASE \E i \in DOMAIN at : at[i].o = o
        BY <1>3, <3>1
      <3>2. CASE ~\E i \in DOMAIN at : at[i].o = o
        <4>1. {i \in DOMAIN at : at[i].o = o} = {}
          BY <3>2
        <4>2. k = 0
          BY <4>1, FS_EmptySet DEF PinsOf
        <4>3. ~(k > 0)
          BY <4>2
        <4>4. QED
          BY <4>3, Zenon
      <3>3. QED
        BY <3>1, <3>2
    <2> HIDE DEF w, l, c, k, x
    <2>4. /\ Listed(x, k) \in Object /\ Sound(Listed(x, k), w, l + k, c)
          /\ Listed(x, k).fs = x.fs /\ Grown(x, Listed(x, k))
      BY <2>1, <2>2, <2>3, <1>ListedObj, Zenon
    <2>5. QED
      BY <2>2, <2>4, Zenon DEF StillThere, x, w, c
  <1>17. obj' \in [Objs -> Object]
    BY <1>3, <1>16
  <1>18. \A o : WindowsOn(o)' = WindowsOn(o) /\ MapCalls(o)' = MapCalls(o)
    BY <1>3 DEF WindowsOn, MapCalls
  <1>19. ObjsSound'
    BY <1>16, <1>17, <1>18, Zenon DEF ObjsSound
  <1>20. MapsType' /\ CallType' /\ CallsAlone'
    BY <1>3 DEF MemInv, ObjInv, MapsType, CallType, CallsAlone
  <1>21. \A i \in DOMAIN sg'[g].at : EntryOk(sg[g].at[i])'
    <2>1. ASSUME NEW i \in DOMAIN at
          PROVE  EntryOk(sg[g].at[i])'
      <3>1. sg'[g].at[i].o = at[i].o /\ sg'[g].at[i].f = obj[at[i].o].fs[at[i].i]
        BY <1>8, <1>11, <1>13, <2>1, Zenon
      <3>2. at[i].i \in DOMAIN obj'[at[i].o].fs /\ obj'[at[i].o].fs = obj[at[i].o].fs
        BY <1>5, <1>16, <2>1
      <3>3. QED
        BY <3>1, <3>2, Zenon DEF EntryOk
    <2>2. DOMAIN sg'[g].at = DOMAIN at
      BY <1>8, <1>11, <1>13
    <2>3. QED
      BY <2>1, <2>2
  <1>22. \A h \in Sgs : sg'[h].at = sg[h].at \/ \A i \in DOMAIN sg'[h].at : EntryOk(sg[h].at[i])'
    BY <1>13, <1>21
  <1>23. ObjInv'
    BY <1>3, <1>14, <1>16, <1>19, <1>20, <1>22, ObjStep DEF MemInv
  <1>24. HeapInv'
    BY <1>3, <1>16, FsKept DEF MemInv
  <1>25. QED
    BY <1>23, <1>24 DEF MemInv

-----------------------------------------------------------------------------
(* The specification.                                                         *)

\* The steps of the heap leave objects and their holders alone.
LEMMA ObjByHeap ==
    ASSUME ObjInv, UNCHANGED <<maps, obj, sg, call>>
    PROVE  ObjInv'
  <1>1. SgType' /\ MapsType' /\ CallType' /\ CallsAlone'
    BY Zenon DEF ObjInv, SgType, MapsType, CallType, CallsAlone
  <1>2. \A o : /\ WindowsOn(o)' = WindowsOn(o) /\ EntriesOf(o)' = EntriesOf(o)
               /\ MapCalls(o)' = MapCalls(o)
    BY DEF WindowsOn, EntriesOf, MapCalls
  <1>3. ObjsSound'
    BY <1>2 DEF ObjInv, ObjsSound
  <1>4. HoldersOk'
    BY DEF ObjInv, HoldersOk, WindowOk, EntryOk, CallOk
  <1>5. QED
    BY <1>1, <1>3, <1>4 DEF ObjInv

\* A step of the heap.
LEMMA HeapStep ==
    ASSUME MemInv, HeapSteps
    PROVE  MemInv'
  <1>1. PICK s \in Spaces :
          \/ vm64_create_space(s) \/ vm64_destroy_space(s) \/ (\E n \in Pages : posix_brk(s, n))
          \/ \E v \in Pages : vm64_unmap(s, v) \/ (\E x \in Values : write(s, v, x))
          \/ \E t \in Spaces, upto \in {0} \cup Pages : vm64_clone_space(s, t, upto)
    BY DEF HeapSteps
  <1>2. CASE vm64_create_space(s)
    <2>1. UNCHANGED <<maps, obj, sg, call>>
      BY <1>2 DEF vm64_create_space
    <2>2. QED
      BY <1>2, <2>1, CreateHeap, ObjByHeap DEF MemInv
  <1>3. CASE vm64_destroy_space(s)
    BY <1>3, DestroySpaceInv
  <1>4. ASSUME NEW n \in Pages, posix_brk(s, n)
        PROVE  MemInv'
    <2>1. UNCHANGED <<maps, obj, sg, call>>
      BY <1>4 DEF posix_brk
    <2>2. QED
      BY <1>4, <2>1, BrkHeap, ObjByHeap DEF MemInv
  <1>5. ASSUME NEW v \in Pages, vm64_unmap(s, v)
        PROVE  MemInv'
    <2>1. UNCHANGED <<maps, obj, sg, call>>
      BY <1>5 DEF vm64_unmap
    <2>2. QED
      BY <1>5, <2>1, UnmapHeap, ObjByHeap DEF MemInv
  <1>6. ASSUME NEW v \in Pages, NEW x \in Values, write(s, v, x)
        PROVE  MemInv'
    <2>1. UNCHANGED <<maps, obj, sg, call>>
      BY <1>6, Zenon DEF write
    <2>2. QED
      BY <1>6, <2>1, WriteHeap, ObjByHeap DEF MemInv
  <1>7. ASSUME NEW t \in Spaces, NEW upto \in {0} \cup Pages, vm64_clone_space(s, t, upto)
        PROVE  MemInv'
    <2>1. UNCHANGED <<maps, obj, sg, call>>
      BY <1>7 DEF vm64_clone_space
    <2>2. QED
      BY <1>7, <2>1, CloneHeap, ObjByHeap DEF MemInv
  <1>8. QED
    BY <1>1, <1>2, <1>3, <1>4, <1>5, <1>6, <1>7

\* A step on an object.
LEMMA ObjectStep ==
    ASSUME MemInv, ObjectSteps
    PROVE  MemInv'
  <1>1. ASSUME NEW o \in Objs, NEW n \in 1 .. PagesMax, page_allocate(o, n)
        PROVE  MemInv'
    BY <1>1, PageAllocateInv
  <1>2. ASSUME NEW o \in Objs, NEW n \in 1 .. PagesMax, dma_resource_allocate(o, n)
        PROVE  MemInv'
    BY <1>2, DmaAllocateInv
  <1>3. ASSUME NEW o \in Objs, NEW n \in 1 .. PagesMax, page_resource_grow(o, n)
        PROVE  MemInv'
    BY <1>3, GrowInv
  <1>4. ASSUME NEW o \in Objs, NEW n \in 1 .. PagesMax, MapCalls(o) = {}, page_resource_trim(o, n)
        PROVE  MemInv'
    BY <1>4, TrimInv
  <1>5. ASSUME NEW o \in Objs, handle_close(o)
        PROVE  MemInv'
    BY <1>5, HandleCloseInv
  <1>6. ASSUME NEW o \in Objs, RevokeUnmap(o)
        PROVE  MemInv'
    BY <1>6, RevokeUnmapInv
  <1>7. ASSUME NEW c \in call, RevokeFlag(c)
        PROVE  MemInv'
    BY <1>7, RevokeFlagInv
  <1>8. QED
    BY <1>1, <1>2, <1>3, <1>4, <1>5, <1>6, <1>7 DEF ObjectSteps

\* A step on a window.
LEMMA WindowStep ==
    ASSUME MemInv, WindowSteps(Spaces)
    PROVE  MemInv'
  <1>1. ASSUME NEW s \in Spaces, vm64_create_space(s)
        PROVE  MemInv'
    BY <1>1, HeapStep DEF HeapSteps
  <1>2. ASSUME NEW s \in Spaces, vm64_destroy_space(s)
        PROVE  MemInv'
    BY <1>2, DestroySpaceInv
  <1>3. ASSUME NEW s \in Spaces, NEW w \in Windows, NEW o \in Objs, vm64_map_object(s, w, o)
        PROVE  MemInv'
    BY <1>3, MapObjectInv
  <1>4. ASSUME NEW s \in Spaces, NEW w \in Windows, NEW o \in Objs, MapLook(s, w, o)
        PROVE  MemInv'
    BY <1>4, MapLookInv
  <1>5. ASSUME NEW m \in maps, vm64_unmap_object(m)
        PROVE  MemInv'
    BY <1>5, UnmapObjectInv
  <1>6. ASSUME NEW c \in call, MapOpen(c)
        PROVE  MemInv'
    BY <1>6, MapOpenInv
  <1>7. QED
    BY <1>1, <1>2, <1>3, <1>4, <1>5, <1>6 DEF WindowSteps

\* A step on a list, a handle or a pin.
LEMMA ListStep ==
    ASSUME MemInv, ListSteps(SgLists)
    PROVE  MemInv'
  <1>1. ASSUME NEW g \in Sgs, sg_resource_revoke(g)
        PROVE  MemInv'
    BY <1>1, SgRevokeInv
  <1>2. ASSUME NEW g \in Sgs, sg_destroy(g)
        PROVE  MemInv'
    BY <1>2, SgDestroyInv
  <1>3. ASSUME NEW g \in Sgs, NEW at \in SgLists, sg_resource_create(g, at)
        PROVE  MemInv'
    BY <1>3, SgCreateInv
  <1>4. ASSUME NEW o \in Objs, handle_open(o)
        PROVE  MemInv'
    BY <1>4, HandleOpenInv
  <1>5. ASSUME NEW o \in Objs, page_resource_pin(o)
        PROVE  MemInv'
    BY <1>5, PinInv
  <1>6. ASSUME NEW o \in Objs, page_resource_unpin(o)
        PROVE  MemInv'
    BY <1>6, UnpinInv
  <1>7. QED
    BY <1>1, <1>2, <1>3, <1>4, <1>5, <1>6 DEF ListSteps

\* At boot nothing is mapped, no object exists and no frame is referenced.
LEMMA InitInv == MemoryInit => MemInv
  <1> SUFFICES ASSUME MemoryInit
               PROVE  MemInv
    OBVIOUS
  <1>1. Cardinality({}) = 0 /\ IsFiniteSet({})
    BY FS_EmptySet
  <1>2. NoPage \in Entry /\ NoPage.f = 0 /\ Off.on = FALSE /\ Off.pte = NoPages
    BY DEF NoPage, Entry, Off
  <1>3. NoPages \in [Pages -> Entry] /\ \A v \in Pages : NoPages[v].f = 0
    BY <1>2 DEF NoPages
  <1>4. Off \in [on : BOOLEAN, pte : [Pages -> Entry]]
    BY <1>3 DEF Off
  <1>5. \A s \in Spaces : space[s] = Off /\ \A v \in Pages : space[s].pte[v].f = 0
    BY <1>2, <1>3 DEF MemoryInit
  <1>6. FrameType /\ SpaceType /\ MemType /\ UnmappedIsBlank
    BY <1>4, MemoryAssumption DEF MemoryInit, FrameType, SpaceType, MemType, UnmappedIsBlank
  <1>7. HeapShape
    <2>1. ASSUME NEW s \in Spaces
          PROVE  Filled(space[s].pte)
      <3>1. \A v \in Pages : ~(v <= 0) /\ space[s].pte[v].f = 0
        <4>1. PICK top \in Nat : Pages = 1 .. top
          BY MemoryAssumption, FS_CardinalityType
        <4>2. \A v \in Pages : ~(v <= 0)
          BY <4>1
        <4>3. QED
          BY <1>5, <4>2
      <3>2. QED
        BY <3>1 DEF Filled
    <2>2. QED
      BY <1>5, <2>1 DEF HeapShape
  <1>8. WritableIsSole /\ CowIsolated
    BY <1>5 DEF WritableIsSole, CowIsolated
  <1>9. FrameRefsExact
    <2>1. ASSUME NEW f \in Frames
          PROVE  frame[f].refs = Cardinality(HeapSlots(space, f)) + Cardinality(PageSlots(obj, f))
      <3>1. f # 0
        BY MemoryAssumption
      <3>2. HeapSlots(space, f) = {}
        BY <1>5, <3>1 DEF HeapSlots
      <3>3. \A o \in Objs : DOMAIN obj[o].fs = {}
        BY DEF MemoryInit, NoObj
      <3>4. PageSlots(obj, f) = {}
        BY <3>3 DEF PageSlots
      <3>5. frame[f].refs = 0
        BY DEF MemoryInit
      <3>6. QED
        BY <1>1, <3>2, <3>4, <3>5
    <2>2. QED
      BY <2>1 DEF FrameRefsExact
  <1>10. HeapInv
    BY <1>6, <1>7, <1>8, <1>9 DEF HeapInv
  <1>11. NoSg \in [on : BOOLEAN, at : Seq([o : Objs, f : Frames]), revoked : BOOLEAN] /\ NoSg.at = <<>>
    BY DEF NoSg
  <1>12. Len(<<>>) = 0 /\ 0 <= ListMax
    BY MemoryAssumption
  <1>13. SgType
    BY <1>11, <1>12 DEF MemoryInit, SgType
  <1>14. MapsType /\ CallType /\ CallsAlone
    BY <1>1, Zenon DEF MemoryInit, MapsType, CallType, CallsAlone
  <1>15. \A g \in Sgs : DOMAIN sg[g].at = {}
    BY <1>11 DEF MemoryInit
  <1>16. \A o : WindowsOn(o) = {} /\ EntriesOf(o) = {} /\ MapCalls(o) = {}
    BY <1>15, Zenon DEF MemoryInit, WindowsOn, EntriesOf, MapCalls
  <1>17. NoObj \in Object /\ Sound(NoObj, 0, 0, 0)
    BY NoObjSound, Zenon
  <1>18. ObjsSound
    BY <1>1, <1>16, <1>17 DEF MemoryInit, ObjsSound
  <1>19. HoldersOk
    BY <1>15 DEF MemoryInit, HoldersOk
  <1>20. QED
    BY <1>10, <1>13, <1>14, <1>18, <1>19 DEF MemInv, ObjInv

\* The invariant MemInv holds whatever the sizes: frames and heaps are typed, the
\* references of frames and objects are exact, a writable page is nobody else's.
THEOREM MemInvariant == MemorySpec => []MemInv
  <1>1. MemoryInit => MemInv
    BY InitInv
  <1>2. MemInv /\ [MemoryNext]_memvars => MemInv'
    <2> SUFFICES ASSUME MemInv, [MemoryNext]_memvars
                 PROVE  MemInv'
      OBVIOUS
    <2>1. CASE HeapSteps
      BY <2>1, HeapStep
    <2>2. CASE ObjectSteps
      BY <2>2, ObjectStep
    <2>3. CASE WindowSteps(Spaces)
      BY <2>3, WindowStep
    <2>4. CASE ListSteps(SgLists)
      BY <2>4, ListStep
    <2>5. CASE UNCHANGED memvars
      <3>1. UNCHANGED <<frame, space, mem>> /\ obj' = obj /\ UNCHANGED <<maps, obj, sg, call>>
        BY <2>5 DEF memvars
      <3>2. HeapInv'
        BY <3>1, FsKept DEF MemInv
      <3>3. QED
        BY <3>1, <3>2, ObjByHeap DEF MemInv
    <2>6. QED
      BY <2>1, <2>2, <2>3, <2>4, <2>5 DEF MemoryNext
  <1>3. QED
    BY <1>1, <1>2, PTL DEF MemorySpec

\* Whatever forks, faults, exits, windows, pins, lists, trims and revokes happen in
\* whatever order: a frame has as many references as owners, windows and lists show
\* frames of their objects, and an object's counts are those of its holders.
THEOREM FramesStayCounted == MemorySpec => []FramesCounted
  <1>1. MemInv => FramesCounted
    <2> SUFFICES ASSUME MemInv
                 PROVE  FramesCounted
      OBVIOUS
    <2>1. FrameRefsExact
      BY DEF MemInv, HeapInv
    <2>2. NoDanglingFrame
      BY Zenon DEF MemInv, ObjInv, HoldersOk, WindowOk, EntryOk, NoDanglingFrame
    <2>3. HoldersCounted
      BY DEF MemInv, ObjInv, ObjsSound, Sound, HoldersCounted
    <2>4. QED
      BY <2>1, <2>2, <2>3 DEF FramesCounted
  <1>2. QED
    BY <1>1, MemInvariant, PTL

\* A task reads what it wrote or inherited, through any number of forks.
THEOREM ForksStayIsolated == MemorySpec => []CowIsolated
  <1>1. MemInv => CowIsolated
    BY DEF MemInv, HeapInv
  <1>2. QED
    BY <1>1, MemInvariant, PTL

=============================================================================
