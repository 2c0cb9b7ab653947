------------------------------ MODULE Memory ------------------------------
(***************************************************************************)
(* Memory: frames with reference counts (core/pmm.c), address spaces with  *)
(* copy-on-write pages and windows onto objects (vm.c), and the page, DMA  *)
(* and scatter-gather objects that own frames (objects/resource.c).        *)
(*                                                                         *)
(* Page-table frames are left out: an allocation may fail whatever the     *)
(* model's free frames say.  A call is atomic where one lock or one task's *)
(* own space covers it.  Two calls are not: vm64_map_page_object reads the *)
(* object before it opens the mapping, and page_resource_revoke lets the   *)
(* table lock go while the mappings are taken down.                        *)
(*                                                                         *)
(* quit says that a revoke has answered 0, data what a frame holds; mem,   *)
(* a history variable, what each task last wrote or inherited at its pages. *)
(***************************************************************************)
EXTENDS Integers, Sequences, FiniteSets

CONSTANTS Frames, Spaces, Pages,   \* frames; address spaces; heap pages of a space
          Windows,                 \* VM64_MAPPING_MAX object windows of a space
          Objs, Sgs,               \* slots of the page/DMA and the list tables
          PagesMax, ListMax,       \* RESOURCE_PAGE_PAGES_MAX, RESOURCE_SG_ENTRY_MAX
          Values                   \* contents

ASSUME MemoryAssumption ==
    /\ Frames \subseteq Nat \ {0} /\ IsFiniteSet(Frames)
    /\ IsFiniteSet(Spaces) /\ IsFiniteSet(Objs) /\ IsFiniteSet(Sgs)
    /\ IsFiniteSet(Pages) /\ Pages = 1 .. Cardinality(Pages)
    /\ PagesMax \in Nat /\ ListMax \in Nat /\ 0 \in Values

VARIABLES frame,   \* [Frames -> [refs, data]]
          space,   \* [Spaces -> [on, pte]]
          maps,    \* set of object mappings
          obj,     \* [Objs -> object and resource]
          sg,      \* [Sgs -> list]
          call,    \* calls between two sections
          mem      \* [Spaces -> [Pages -> Values]]

memvars == <<frame, space, maps, obj, sg, call, mem>>

NoPage == [f |-> 0, w |-> FALSE, cow |-> FALSE]
NoObj == [kind |-> "none", fs |-> <<>>, refs |-> 0, handles |-> 0, own |-> 0,
          pins |-> 0, mapc |-> 0, revoked |-> FALSE, quit |-> FALSE]
NoSg == [on |-> FALSE, at |-> <<>>, revoked |-> FALSE]
NoPages == [v \in Pages |-> NoPage]
Off == [on |-> FALSE, pte |-> NoPages]

MemoryInit ==
    /\ frame = [f \in Frames |-> [refs |-> 0, data |-> 0]]
    /\ space = [s \in Spaces |-> Off]
    /\ maps = {} /\ call = {}
    /\ obj = [o \in Objs |-> NoObj]
    /\ sg = [g \in Sgs |-> NoSg]
    /\ mem = [s \in Spaces |-> [v \in Pages |-> 0]]

-----------------------------------------------------------------------------
(* core/pmm.c                                                                 *)

FreeFrames(F) == {f \in Frames : F[f].refs = 0}
\* pmm_take_page: one reference, cleared.  Which free frame pmm_alloc_page takes
\* (above 16 MB first) is left open.
Some(S) == CHOOSE f \in S : TRUE
pmm_take_page(F, f) == [F EXCEPT ![f] = [refs |-> 1, data |-> 0]]
pmm_free_page(F, f) == [F EXCEPT ![f].refs = @ - 1]
pmm_retain_nothing(F, pte) == F

\* pmm_retain_page, once for every page of a table.
pmm_retain_page(F, pte) ==
    [f \in Frames |-> [refs |-> F[f].refs + Cardinality({v \in Pages : pte[v].f = f}), data |-> F[f].data]]

\* The frames of fs, each of them taken.
Taken(F, fs) ==
    [f \in Frames |-> IF \E k \in DOMAIN fs : fs[k] = f THEN [refs |-> 1, data |-> 0] ELSE F[f]]

\* pmm_alloc_page, n times: as many different free frames.
Distinct(S, n) == {q \in [1 .. n -> S] : \A i, j \in 1 .. n : q[i] = q[j] => i = j}
pmm_alloc_pages(F, n) == Some(Distinct(FreeFrames(F), n))

\* pmm_alloc_contiguous: a run of n free frames.
Runs(F, n) == {f \in Frames : f .. (f + n - 1) \subseteq FreeFrames(F)}
pmm_alloc_contiguous(F, n) ==
    LET f == Some(Runs(F, n))
    IN  [i \in 1 .. n |-> f + i - 1]

\* The page slots of objects O that hold f.
PageSlots(O, f) == {k \in Objs \X (1 .. PagesMax) :
                  k[2] \in DOMAIN O[k[1]].fs /\ O[k[1]].fs[k[2]] = f}
\* The pages of the objects in dead are freed.
DeadSlots(O, dead, f) == {k \in PageSlots(O, f) : k[1] \in dead}
FreePages(F, O, dead) ==
    [f \in Frames |-> [refs |-> F[f].refs - Cardinality(DeadSlots(O, dead, f)), data |-> F[f].data]]
Times(s, x) == Cardinality({i \in DOMAIN s : s[i] = x})
FreeAll(F, fs) == [f \in Frames |-> [refs |-> F[f].refs - Times(fs, f), data |-> F[f].data]]

-----------------------------------------------------------------------------
(* Address spaces (vm.c).                                                     *)

vm64_create_space(s) ==
    /\ ~space[s].on
    /\ space' = [space EXCEPT ![s] = [on |-> TRUE, pte |-> NoPages]]
    /\ mem' = [mem EXCEPT ![s] = [v \in Pages |-> 0]]
    /\ UNCHANGED <<frame, maps, obj, sg, call>>

\* posix_brk grows the heap by n pages: all of them or none.
posix_brk(s, n) ==
    LET top == Cardinality({v \in Pages : space[s].pte[v].f # 0})
        new == (top + 1) .. (top + n)
        fs == pmm_alloc_pages(frame, n)
    IN  /\ space[s].on /\ new \subseteq Pages /\ Cardinality(FreeFrames(frame)) >= n
        /\ frame' = Taken(frame, fs)
        /\ space' = [space EXCEPT ![s].pte = [v \in Pages |->
                       IF v \in new THEN [f |-> fs[v - top], w |-> TRUE, cow |-> FALSE] ELSE space[s].pte[v]]]
        /\ UNCHANGED <<maps, obj, sg, call, mem>>

\* The mapping of page v can be undone alone (vm64_unmap).
vm64_unmap(s, v) ==
    /\ space[s].on /\ space[s].pte[v].f # 0
    /\ v + 1 \in Pages => space[s].pte[v + 1].f = 0
    /\ frame' = pmm_free_page(frame, space[s].pte[v].f)
    /\ space' = [space EXCEPT ![s].pte[v] = NoPage]
    /\ mem' = [mem EXCEPT ![s][v] = 0]
    /\ UNCHANGED <<maps, obj, sg, call>>

\* vm64_handle_cow: the last sharer keeps the frame, another one copies it.
\* copied is the frame it copies to.
vm64_handle_cow(F, e, copied) ==
    IF F[e.f].refs = 1 THEN [F |-> F, e |-> [e EXCEPT !.w = TRUE, !.cow = FALSE]]
    ELSE LET T == [pmm_take_page(F, copied) EXCEPT ![copied].data = F[e.f].data]
         IN  [F |-> pmm_free_page(T, e.f), e |-> [f |-> copied, w |-> TRUE, cow |-> FALSE]]

\* A store by the task, or vm64_copy_to on its behalf.
write(s, v, x) ==
    LET e == space[s].pte[v]
    IN  /\ space[s].on /\ e.f # 0
        /\ e.w \/ frame[e.f].refs = 1 \/ FreeFrames(frame) # {}
        /\ LET r == IF e.w THEN [F |-> frame, e |-> e]
                    ELSE vm64_handle_cow(frame, e, IF frame[e.f].refs = 1 THEN 0
                                                   ELSE Some(FreeFrames(frame)))
           IN  /\ frame' = [r.F EXCEPT ![r.e.f].data = x]
               /\ space' = [space EXCEPT ![s].pte[v] = r.e]
        /\ mem' = [mem EXCEPT ![s][v] = x]
        /\ UNCHANGED <<maps, obj, sg, call>>

SharedWritable(e) == e

\* vm64_clone_space copies the heap pages in order, writable ones turning
\* copy-on-write in the source as well.  It may run out of page tables after
\* upto pages: the copy is destroyed, the source stays as it then is.  Windows
\* onto objects are not inherited.
Shared(e) == IF e.w THEN [e EXCEPT !.w = FALSE, !.cow = TRUE] ELSE e
vm64_clone_space(s, t, upto) ==
    LET Done(v) == v <= upto /\ space[s].pte[v].f # 0
        all == \A v \in Pages : space[s].pte[v].f # 0 => v <= upto
        half == [v \in Pages |-> IF Done(v) THEN Shared(space[s].pte[v]) ELSE NoPage]
        kept == [v \in Pages |-> IF Done(v) THEN half[v] ELSE space[s].pte[v]]
    IN  /\ space[s].on /\ ~space[t].on /\ s # t
        /\ IF all
           THEN /\ space' = [space EXCEPT ![s].pte = kept, ![t] = [on |-> TRUE, pte |-> half]]
                /\ frame' = pmm_retain_page(frame, half)
                /\ mem' = [mem EXCEPT ![t] = mem[s]]
           ELSE space' = [space EXCEPT ![s].pte = kept] /\ UNCHANGED <<frame, mem>>
        /\ UNCHANGED <<maps, obj, sg, call>>

-----------------------------------------------------------------------------
(* Objects that own frames (resource.c).                                      *)

New(kind, fs) == [NoObj EXCEPT !.kind = kind, !.fs = fs, !.refs = 1, !.handles = 1]

\* page_resource_create and shared_memory_resource_create.
page_allocate(o, n) ==
    LET fs == pmm_alloc_pages(frame, n)
    IN  /\ obj[o].kind = "none" /\ Cardinality(FreeFrames(frame)) >= n
        /\ frame' = Taken(frame, fs)
        /\ obj' = [obj EXCEPT ![o] = New("page", fs)]
        /\ UNCHANGED <<space, maps, sg, call, mem>>

dma_resource_allocate(o, n) ==
    /\ obj[o].kind = "none" /\ Runs(frame, n) # {}
    /\ LET fs == pmm_alloc_contiguous(frame, n)
       IN  frame' = Taken(frame, fs) /\ obj' = [obj EXCEPT ![o] = New("dma", fs)]
    /\ UNCHANGED <<space, maps, sg, call, mem>>

\* object_release k times; the last one runs page_destroy or dma_destroy.
Released(O, F, o, k) ==
    IF O[o].refs = k THEN [O |-> [O EXCEPT ![o] = NoObj], F |-> FreeAll(F, O[o].fs)]
    ELSE [O |-> [O EXCEPT ![o].refs = @ - k], F |-> F]
Settle(r) == obj' = r.O /\ frame' = r.F

handle_open(o) ==
    /\ obj[o].handles > 0 /\ obj[o].handles < 2
    /\ obj' = [obj EXCEPT ![o].handles = @ + 1, ![o].refs = @ + 1]
    /\ UNCHANGED <<frame, space, maps, sg, call, mem>>

handle_close(o) ==
    /\ obj[o].handles > 0
    /\ Settle(Released([obj EXCEPT ![o].handles = @ - 1], frame, o, 1))
    /\ UNCHANGED <<space, maps, sg, call, mem>>

page_resource_grow(o, n) ==
    LET fs == pmm_alloc_pages(frame, n - Len(obj[o].fs))
    IN  /\ obj[o].kind = "page" /\ ~obj[o].revoked /\ obj[o].handles > 0
        /\ n > Len(obj[o].fs) /\ Cardinality(FreeFrames(frame)) >= n - Len(obj[o].fs)
        /\ frame' = Taken(frame, fs)
        /\ obj' = [obj EXCEPT ![o].fs = @ \o fs]
        /\ UNCHANGED <<space, maps, sg, call, mem>>

page_resource_trim(o, n) ==
    LET fs == obj[o].fs
    IN  /\ obj[o].kind = "page" /\ ~obj[o].revoked /\ obj[o].handles > 0
        /\ n < Len(fs) /\ obj[o].mapc = 0 /\ obj[o].pins = 0
        /\ frame' = FreeAll(frame, SubSeq(fs, n + 1, Len(fs)))
        /\ obj' = [obj EXCEPT ![o].fs = SubSeq(fs, 1, n)]
        /\ UNCHANGED <<space, maps, sg, call, mem>>

page_resource_pin(o) ==
    /\ obj[o].kind = "page" /\ ~obj[o].revoked /\ obj[o].handles > 0 /\ obj[o].own = 0
    /\ obj' = [obj EXCEPT ![o].pins = @ + 1, ![o].refs = @ + 1, ![o].own = @ + 1]
    /\ UNCHANGED <<frame, space, maps, sg, call, mem>>

\* A caller returns the pins it took, and no other.
page_resource_unpin(o) ==
    /\ obj[o].own > 0
    /\ Settle(Released([obj EXCEPT ![o].pins = @ - 1, ![o].own = @ - 1], frame, o, 1))
    /\ UNCHANGED <<space, maps, sg, call, mem>>

\* vm64_map_object maps a DMA object, which counts no mappings.
vm64_map_object(s, w, o) ==
    /\ obj[o].kind = "dma" /\ obj[o].handles > 0 /\ space[s].on
    /\ ~\E c \in call : c.op = "map" /\ c.s = s
    /\ ~\E m \in maps : m.s = s /\ m.w = w
    /\ maps' = maps \cup {[s |-> s, w |-> w, o |-> o, fs |-> obj[o].fs]}
    /\ obj' = [obj EXCEPT ![o].refs = @ + 1]
    /\ UNCHANGED <<frame, space, sg, call, mem>>

\* vm64_map_page_object first reads the object: not revoked, so many pages.
MapLook(s, w, o) ==
    /\ obj[o].kind = "page" /\ ~obj[o].revoked /\ obj[o].handles > 0 /\ space[s].on
    /\ ~\E c \in call : c.op = "map" /\ c.s = s
    /\ ~\E m \in maps : m.s = s /\ m.w = w
    /\ call' = call \cup {[op |-> "map", s |-> s, w |-> w, o |-> o, n |-> Len(obj[o].fs)]}
    /\ obj' = [obj EXCEPT ![o].refs = @ + 1]
    /\ UNCHANGED <<frame, space, maps, sg, mem>>

\* Then it opens the mapping, refused when revoked by now, and maps those pages.
MapOpen(c) ==
    /\ c \in call /\ c.op = "map"
    /\ IF obj[c.o].revoked
       THEN Settle(Released(obj, frame, c.o, 1)) /\ UNCHANGED maps
       ELSE /\ obj' = [obj EXCEPT ![c.o].mapc = @ + 1]
            /\ maps' = maps \cup {[s |-> c.s, w |-> c.w, o |-> c.o,
                                   fs |-> [i \in 1 .. c.n |-> IF i <= Len(obj[c.o].fs)
                                                              THEN obj[c.o].fs[i] ELSE 0]]}
            /\ UNCHANGED frame
    /\ call' = call \ {c}
    /\ UNCHANGED <<space, sg, mem>>

\* The mappings of set S go: closed, and the object released.  With F and O the
\* frames and objects before.
Gone(O, o, S) == Cardinality({m \in S : m.o = o})
Unmapped(O, F, S) ==
    LET left(o) == O[o].refs - Gone(O, o, S)
        dead == {o \in Objs : Gone(O, o, S) > 0 /\ left(o) = 0}
    IN  [O |-> [o \in Objs |-> IF o \in dead THEN NoObj
                  ELSE [O[o] EXCEPT !.refs = left(o),
                                    !.mapc = IF O[o].kind = "page" THEN @ - Gone(O, o, S) ELSE @]],
         F |-> FreePages(F, O, dead)]

vm64_unmap_object(m) ==
    /\ m \in maps
    /\ Settle(Unmapped(obj, frame, {m}))
    /\ maps' = maps \ {m}
    /\ UNCHANGED <<space, sg, call, mem>>

\* The address space goes with all its pages and windows.
vm64_destroy_space(s) ==
    LET S == {m \in maps : m.s = s}
        u == Unmapped(obj, frame, S)
    IN  /\ space[s].on /\ ~\E c \in call : c.op = "map" /\ c.s = s
        /\ obj' = u.O
        /\ frame' = [f \in Frames |->
                       [refs |-> u.F[f].refs - Cardinality({v \in Pages : space[s].pte[v].f = f}),
                        data |-> u.F[f].data]]
        /\ maps' = maps \ S
        /\ space' = [space EXCEPT ![s] = Off]
        /\ mem' = [mem EXCEPT ![s] = [v \in Pages |-> 0]]
        /\ UNCHANGED <<sg, call>>

\* page_resource_revoke: vm64_revoke_object_all without the table lock, then the
\* flag, and the answer: 0 only if nothing holds the pages any more.
RevokeUnmap(o) ==
    LET S == {m \in maps : m.o = o}
    IN  /\ obj[o].kind = "page" /\ ~obj[o].revoked /\ obj[o].handles > 0
        /\ ~\E c \in call : c.op = "revoke" /\ c.o = o
        /\ Settle(Unmapped(obj, frame, S))
        /\ maps' = maps \ S
        /\ call' = call \cup {[op |-> "revoke", o |-> o]}
        /\ UNCHANGED <<space, sg, mem>>

RevokeFlag(c) ==
    /\ c \in call /\ c.op = "revoke"
    /\ obj' = IF obj[c.o].kind # "page" THEN obj
              ELSE [obj EXCEPT ![c.o].revoked = TRUE,
                               ![c.o].quit = obj[c.o].mapc = 0 /\ obj[c.o].pins = 0]
    /\ call' = call \ {c}
    /\ UNCHANGED <<frame, space, maps, sg, mem>>

-----------------------------------------------------------------------------
(* Scatter-gather lists: at is a sequence of objects and page indices.        *)

PinsOf(at, o) == Cardinality({i \in DOMAIN at : at[i].o = o})

sg_resource_create(g, at) ==
    /\ ~sg[g].on
    /\ \A i \in DOMAIN at : LET x == obj[at[i].o]
                            IN  x.kind = "page" /\ ~x.revoked /\ x.handles > 0 /\ at[i].i <= Len(x.fs)
    /\ sg' = [sg EXCEPT ![g] = [on |-> TRUE, revoked |-> FALSE,
                 at |-> [i \in DOMAIN at |-> [o |-> at[i].o, f |-> obj[at[i].o].fs[at[i].i]]]]]
    /\ obj' = [o \in Objs |-> [obj[o] EXCEPT !.pins = @ + PinsOf(at, o), !.refs = @ + PinsOf(at, o)]]
    /\ UNCHANGED <<frame, space, maps, call, mem>>

UnpinnedOnce(O, F, at) ==
    [O |-> [o \in Objs |-> IF PinsOf(at, o) > 0 THEN [O[o] EXCEPT !.pins = @ - 1, !.refs = @ - 1] ELSE O[o]],
     F |-> F]

Unpinned(O, F, at) ==
    LET dead == {o \in Objs : PinsOf(at, o) > 0 /\ O[o].refs = PinsOf(at, o)}
    IN  [O |-> [o \in Objs |-> IF o \in dead THEN NoObj
                  ELSE [O[o] EXCEPT !.pins = @ - PinsOf(at, o), !.refs = @ - PinsOf(at, o)]],
         F |-> FreePages(F, O, dead)]

sg_resource_revoke(g) ==
    /\ sg[g].on /\ ~sg[g].revoked
    /\ Settle(Unpinned(obj, frame, sg[g].at))
    /\ sg' = [sg EXCEPT ![g].revoked = TRUE, ![g].at = <<>>]
    /\ UNCHANGED <<space, maps, call, mem>>

sg_destroy(g) ==
    /\ sg[g].on
    /\ Settle(Unpinned(obj, frame, sg[g].at))
    /\ sg' = [sg EXCEPT ![g] = NoSg]
    /\ UNCHANGED <<space, maps, call, mem>>

-----------------------------------------------------------------------------
(* An object is trimmed while nobody is between looking at it and mapping it: *)
(* page_resource_trim checks the mappings, not the callers.                   *)

\* The windows, the list entries and the calls about to map that hold o.
WindowsOn(o) == {m \in maps : m.o = o}
EntriesOf(o) == {k \in Sgs \X (1 .. ListMax) :
                   k[2] \in DOMAIN sg[k[1]].at /\ sg[k[1]].at[k[2]].o = o}
MapCalls(o) == {c \in call : c.op = "map" /\ c.o = o}


HeapSteps ==
    \E s \in Spaces :
      \/ vm64_create_space(s) \/ vm64_destroy_space(s) \/ (\E n \in Pages : posix_brk(s, n))
      \/ \E v \in Pages : vm64_unmap(s, v) \/ (\E x \in Values : write(s, v, x))
      \/ \E t \in Spaces, upto \in {0} \cup Pages : vm64_clone_space(s, t, upto)

ObjectSteps ==
    \/ \E o \in Objs :
         \/ \E n \in 1 .. PagesMax :
              \/ page_allocate(o, n) \/ dma_resource_allocate(o, n) \/ page_resource_grow(o, n)
              \/ MapCalls(o) = {} /\ page_resource_trim(o, n)
         \/ handle_close(o) \/ RevokeUnmap(o)
    \/ \E c \in call : RevokeFlag(c)

\* Windows of the spaces in S; the lists in L.
WindowSteps(S) ==
    \/ \E s \in S :
         \/ vm64_create_space(s) \/ vm64_destroy_space(s)
         \/ \E w \in Windows, o \in Objs : vm64_map_object(s, w, o) \/ MapLook(s, w, o)
    \/ \E m \in maps : vm64_unmap_object(m)
    \/ \E c \in call : MapOpen(c)

ListSteps(L) ==
    \/ \E g \in Sgs :
         \/ sg_resource_revoke(g) \/ sg_destroy(g)
         \/ \E at \in L : sg_resource_create(g, at)
    \/ \E o \in Objs : handle_open(o) \/ page_resource_pin(o) \/ page_resource_unpin(o)

SgLists == UNION {[1 .. n -> [o : Objs, i : 1 .. PagesMax]] : n \in 1 .. ListMax}

MemoryNext == HeapSteps \/ ObjectSteps \/ WindowSteps(Spaces) \/ ListSteps(SgLists)
MemorySpec == MemoryInit /\ [][MemoryNext]_memvars

-----------------------------------------------------------------------------

\* The heap pages of spaces P that map f.
HeapSlots(P, f) == {k \in Spaces \X Pages : P[k[1]].pte[k[2]].f = f}

\* Every frame has as many references as owners: heap pages that map it and live
\* objects that contain it.  A leak, a double free or a free of somebody else's
\* page breaks this, whatever the order of forks, faults, failures and exits.
FrameRefsExact ==
    \A f \in Frames :
      frame[f].refs = Cardinality(HeapSlots(space, f)) + Cardinality(PageSlots(obj, f))

\* A window or a list entry leads to a frame of the object it was made for, as
\* long as it exists.
NoDanglingFrame ==
    /\ \A m \in maps : \A i \in DOMAIN m.fs :
         i \in DOMAIN obj[m.o].fs /\ obj[m.o].fs[i] = m.fs[i]
    /\ \A g \in Sgs : \A i \in DOMAIN sg[g].at :
         \E k \in DOMAIN obj[sg[g].at[i].o].fs : obj[sg[g].at[i].o].fs[k] = sg[g].at[i].f

\* The counts page_destroy panics on ("page resource reference invariant") are
\* those of the windows and pins there are, each of which holds a reference, so
\* an object is never destroyed under them; and once a revoke answered that
\* nothing holds the pages, nothing ever does again.
HoldersCounted ==
    /\ \A o \in Objs :
         /\ obj[o].pins = obj[o].own + Cardinality(EntriesOf(o))
         /\ obj[o].kind = "page" => obj[o].mapc = Cardinality(WindowsOn(o))
         /\ obj[o].refs = obj[o].handles + Cardinality(WindowsOn(o)) + obj[o].pins
                          + Cardinality(MapCalls(o))
    /\ \A o \in Objs : obj[o].quit => obj[o].mapc = 0 /\ obj[o].pins = 0

\* What the counts of frames and objects promise together: through forks,
\* copy-on-write faults and exits, and through windows, pins, lists, trims and
\* revokes of page and DMA objects.
FramesCounted == FrameRefsExact /\ NoDanglingFrame /\ HoldersCounted

\* A task reads at each heap page what it last wrote there, or what it inherited
\* from the task that forked it: sharing a frame is never visible.
CowIsolated ==
    \A s \in Spaces, v \in Pages :
      space[s].pte[v].f # 0 => frame[space[s].pte[v].f].data = mem[s][v]
=============================================================================
