------------------------------ MODULE Adytumfs ------------------------------
(***************************************************************************)
(* The AdytumFS volume (src/fs/adytumfs*.c) over the block cache           *)
(* (src/block/cache.c).  The device holds two metadata sets: a superblock, *)
(* a bitmap and an inode table each.  A window of operations stages        *)
(* metadata in memory and puts file data into blocks the committed set     *)
(* does not use; a commit writes the staged blocks into the inactive set   *)
(* and then flips to it by writing its superblock last.                    *)
(*                                                                         *)
(* One variable holds each store: disk what survives a crash, cache the    *)
(* dirty pages over it, stage the window, super the mounted superblock.    *)
(* An operation is a function of their values, taken together as a record  *)
(* v.  Kernel code runs one operation at a time; what interrupts it is a   *)
(* failing device or a crash, so an operation that fails after any of a    *)
(* commit's steps, followed by Crash, stands for a crash inside it.        *)
(* What the device does with the writes of data and checksums before the   *)
(* commit is the argument io of an operation: "ok", "write" (the block is  *)
(* refused or cut short) or "seal" (its checksum is) for each in turn, and *)
(* "ok" past the end.                                                      *)
(*                                                                         *)
(* Not modelled: reads that fail, subdirectories, symbolic links,          *)
(* timestamps, inode generations, the mount's sixteen slots.  A size       *)
(* counts half blocks; names of one directory fit in one block.            *)
(***************************************************************************)
EXTENDS Integers, FiniteSets, Sequences, SequencesExt

CONSTANTS
    Blocks,             \* the data blocks, an interval of numbers
    Inodes,             \* inode numbers besides the root's
    INODES_PER_BLOCK,
    DIRECT_EXTENTS,
    FILE_PAGES,         \* ADYTUMFS_FILE_PAGES
    Names,              \* names in the root directory
    Values              \* what a write stores in a file, digits 1 to 9

ROOT == 1
AllInodes == {ROOT} \cup Inodes

ASSUME AdytumfsAssumption ==
    /\ Blocks = Min(Blocks) .. Max(Blocks)
    /\ Inodes \subseteq Nat \ {0, ROOT}
    /\ INODES_PER_BLOCK \in Nat \ {0} /\ DIRECT_EXTENTS \in Nat \ {0}
    /\ FILE_PAGES \in Nat \ {0} /\ Values \subseteq 1 .. 9

VARIABLES
    disk,       \* the device: what is stored under each key below
    cache,      \* the dirty pages of the block cache, by key
    stage,      \* adytumfs_staging: the open window's metadata blocks
    super,      \* the mount's struct adytumfs_superblock
    mixed,      \* history: a flip named a set with a block left from before
    failed,     \* history: the blocks an operation gave up on, since allocated
    mounted,    \* "no", "yes" or "leaving"
    nodes,      \* the VFS node, the mount slot and the page cache of a file
    synced      \* the file whose fsync has just returned 0, or 0

vars == <<disk, cache, stage, super, mixed, failed, mounted, nodes, synced>>

-----------------------------------------------------------------------------
(* Keys of the device: the metadata of set 0 and 1, the data blocks, and   *)
(* the checksum region with one entry for each of them.                    *)

BITMAP == <<"bitmap", 0>>
TableOf(i) == <<"table", i \div INODES_PER_BLOCK>>
Meta == {BITMAP} \cup {TableOf(i) : i \in AllInodes}
At(k, slot) == <<k[1], k[2], slot>>
Super(slot) == <<"super", 0, slot>>
Data(b) == <<"data", b>>
SUMS == <<"sums", 0>>

Keys == {At(k, s) : k \in Meta, s \in {0, 1}} \cup {Super(s) : s \in {0, 1}}
        \cup {Data(b) : b \in Blocks} \cup {SUMS}

Pages == 0 .. FILE_PAGES - 1
None == [x \in {} |-> 0]

\* A block of a file or a directory: its two halves, or its records.
ZERO == [sound |-> TRUE, half |-> <<0, 0>>, names |-> [n \in Names |-> 0]]
NoNode == [live |-> FALSE, names |-> {}, size |-> 0, active |-> FALSE,
           present |-> {}, dirty |-> {}, bytes |-> [p \in Pages |-> <<0, 0>>]]

\* Mutant: the dirty bits outlive the pages.
PagesDetachDirty(nd) == [nd EXCEPT !.active = FALSE, !.present = {}]

\* adytumfs_pages_detach.
PagesDetach(nd) ==
    [NoNode EXCEPT !.live = nd.live, !.names = nd.names, !.size = nd.size]

FreeInode == [mode |-> "free", links |-> 0, attr |-> 0, size |-> 0, map |-> <<>>]

Trying(io) == [disk |-> disk, cache |-> cache, stage |-> stage, super |-> super,
               mixed |-> mixed, failed |-> failed, io |-> io]
Now == Trying(<<>>)
Become(v) ==
    /\ disk' = v.disk /\ cache' = v.cache /\ stage' = v.stage
    /\ super' = v.super /\ mixed' = v.mixed /\ failed' = v.failed

\* F(x), with x evaluated once.
Given(x, F(_)) == CHOOSE y \in {F(z) : z \in {x}} : TRUE

-----------------------------------------------------------------------------
(* The block cache, and the staging over it.                               *)

Read(v, k) == IF k \in DOMAIN v.cache THEN v.cache[k] ELSE v.disk[k]
Write(v, k, image) == [v EXCEPT !.cache = (k :> image) @@ @]

Image(v, k) ==
    IF k \in DOMAIN v.stage THEN v.stage[k]
                            ELSE Read(v, At(k, v.super.active_slot))
Stage(v, k, image) == [v EXCEPT !.stage = (k :> image) @@ @]

InodeRead(v, i) == Image(v, TableOf(i)).inodes[i]
InodeWrite(v, i, in) ==
    Stage(v, TableOf(i), [Image(v, TableOf(i)) EXCEPT !.inodes[i] = in])

\* One write of data and its adytumfs_data_seal, given what the block's own
\* write makes of v when it goes through and when it does not.
Seal(v, b, content) == Write(v, SUMS, [Read(v, SUMS) EXCEPT ![b] = content])
Sealed(v, b, content, written, refused) ==
    LET next == IF v.io = <<>> THEN "ok" ELSE Head(v.io)
        w == CASE next = "ok" -> Seal(written, b, content)
               [] next = "seal" -> written
               [] next = "write" -> refused
    IN  [ok |-> next = "ok",
         v |-> [w EXCEPT !.io = IF @ = <<>> THEN @ ELSE Tail(@),
                         !.failed = IF next = "ok" THEN @ \ {b} ELSE @ \cup {b}]]

\* adytumfs_data_write, and the transfers that bypass the cache
\* (adytumfs_block_zero, page_transfer), which drop the cached page.
DataWrite(v, b, content) == Sealed(v, b, content, Write(v, Data(b), content), v)
DataSound(v, b) == Read(v, Data(b)) = Read(v, SUMS)[b]
DirectWrite(v, b, content) ==
    LET kept == DOMAIN v.cache \ {Data(b)}
        w == [v EXCEPT !.cache = [k \in kept |-> v.cache[k]]]
    IN  Sealed(v, b, content, [w EXCEPT !.disk[Data(b)] = content],
                              [w EXCEPT !.disk[Data(b)].sound = FALSE])

-----------------------------------------------------------------------------
(* Allocation.  A block the window freed stays out of reach until the       *)
(* committed bitmap has released it too.                                   *)

Used(v) == Image(v, BITMAP).used
Committed(v) == Read(v, At(BITMAP, v.super.active_slot)).used
\* Mutant: the window's own bitmap decides alone.
AllocatableUnused(v) == Blocks \ Used(v)
Allocatable(v) == Blocks \ (Used(v) \cup Committed(v))

SetUsed(v, used) ==
    [Stage(v, BITMAP, [sound |-> TRUE, used |-> used]) EXCEPT
        !.super.free_blocks = @ + Cardinality(Used(v)) - Cardinality(used)]

AllocRun(v, length) ==
    Given({s \in Blocks : s .. s + length - 1 \subseteq Allocatable(v)},
        LAMBDA starts :
            IF starts = {} THEN [ok |-> FALSE, v |-> v, run |-> <<>>]
            ELSE LET s == Min(starts)
                 IN  [ok |-> TRUE,
                      v |-> [SetUsed(v, Used(v) \cup s .. s + length - 1) EXCEPT
                                !.failed = @ \ s .. s + length - 1],
                      run |-> [k \in 1 .. length |-> s + k - 1]])

FreeRun(v, run) == SetUsed(v, Used(v) \ ToSet(run))

-----------------------------------------------------------------------------
(* The block map of an inode.  Its extents are the runs of adjacent blocks  *)
(* of the map: every edit merges neighbours.                               *)

Joined(map, l) == l \in 2 .. Len(map) /\ map[l] = map[l - 1] + 1
Extents(map) == Cardinality({l \in 1 .. Len(map) : ~Joined(map, l)})

\* adytumfs_inode_grow: the fresh blocks are zeroed on the device.  When that
\* fails they stay marked as used.
Grow(v, in, blocks) ==
    IF blocks <= Len(in.map) THEN [ok |-> TRUE, v |-> v, in |-> in]
    ELSE Given(AllocRun(v, blocks - Len(in.map)), LAMBDA a :
        LET map == in.map \o a.run
        IN  IF ~a.ok THEN [ok |-> FALSE, v |-> v, in |-> in]
            ELSE IF Extents(map) > DIRECT_EXTENTS
            THEN [ok |-> FALSE, v |-> FreeRun(a.v, a.run), in |-> in]
            ELSE Given(FoldLeft(LAMBDA w, b : IF w.ok THEN DirectWrite(w.v, b, ZERO) ELSE w,
                                [ok |-> TRUE, v |-> a.v], a.run), LAMBDA z :
                IF z.ok THEN [ok |-> TRUE, v |-> z.v, in |-> [in EXCEPT !.map = map]]
                ELSE [ok |-> FALSE, in |-> in,
                      v |-> [z.v EXCEPT !.failed = @ \cup ToSet(a.run)]]))

\* adytumfs_inode_truncate.
Shrink(v, in, blocks) ==
    IF blocks >= Len(in.map) THEN [ok |-> TRUE, v |-> v, in |-> in]
    ELSE [ok |-> TRUE, in |-> [in EXCEPT !.map = SubSeq(@, 1, blocks)],
          v |-> FreeRun(v, SubSeq(in.map, blocks + 1, Len(in.map)))]

\* Mutant: the block a page or a directory moved from is not freed.
RedirectCommitKeeps(v, in, i, l, fresh) ==
    LET moved == [in EXCEPT !.map[l] = fresh]
    IN  [ok |-> TRUE, in |-> moved, v |-> InodeWrite(v, i, moved)]

\* adytumfs_redirect_commit: splitting the extent around block l may need
\* more extents than an inode has.
RedirectCommit(v, in, i, l, fresh) ==
    LET pieces == 1 + (IF Joined(in.map, l) THEN 1 ELSE 0)
                    + (IF Joined(in.map, l + 1) THEN 1 ELSE 0)
        moved == [in EXCEPT !.map[l] = fresh]
    IN  IF Extents(in.map) - 1 + pieces > DIRECT_EXTENTS
        THEN [ok |-> FALSE, v |-> FreeRun(v, <<fresh>>), in |-> in]
        ELSE [ok |-> TRUE, in |-> moved,
              v |-> FreeRun(InodeWrite(v, i, moved), <<in.map[l]>>)]

\* adytumfs_inode_remap.
Remap(v, in, i, l, content) ==
    Given(AllocRun(v, 1), LAMBDA a :
        IF ~a.ok THEN [ok |-> FALSE, v |-> v, in |-> in]
        ELSE Given(DataWrite(a.v, a.run[1], content), LAMBDA w :
                 IF w.ok THEN RedirectCommit(w.v, in, i, l, a.run[1])
                 ELSE [ok |-> FALSE, v |-> FreeRun(w.v, a.run), in |-> in]))

-----------------------------------------------------------------------------
(* The root directory.                                                     *)

Dir(v) ==
    LET map == InodeRead(v, ROOT).map
    IN  IF map = <<>> THEN ZERO.names ELSE Read(v, Data(map[1])).names

\* Mutant: the directory block is rewritten where it is.
DirWriteInPlace(v, names) ==
    LET content == [ZERO EXCEPT !.names = names]
    IN  Given(InodeRead(v, ROOT), LAMBDA in :
            Given(Grow(v, in, 1), LAMBDA g :
                IF ~g.ok THEN g
                ELSE Given(DataWrite(g.v, g.in.map[1], content), LAMBDA w :
                    [g EXCEPT !.ok = w.ok, !.v = InodeWrite(w.v, ROOT, g.in)])))

DirWrite(v, names) ==
    LET content == [ZERO EXCEPT !.names = names]
    IN  Given(InodeRead(v, ROOT), LAMBDA in :
            IF in.map # <<>> THEN Remap(v, in, ROOT, 1, content)
            ELSE Given(Grow(v, in, 1), LAMBDA g :
                IF ~g.ok THEN g
                ELSE Given(DataWrite(g.v, g.in.map[1], content), LAMBDA w :
                    [g EXCEPT !.ok = w.ok,
                              !.v = IF w.ok THEN InodeWrite(w.v, ROOT, g.in) ELSE w.v])))

\* adytumfs_dir_add and adytumfs_dir_remove.
DirAdd(v, n, i) ==
    Given(Dir(v), LAMBDA names :
        IF names[n] # 0 THEN [ok |-> FALSE, v |-> v]
        ELSE DirWrite(v, [names EXCEPT ![n] = i]))
DirRemove(v, n) ==
    Given(Dir(v), LAMBDA names :
        IF names[n] = 0 THEN [ok |-> FALSE, v |-> v]
        ELSE DirWrite(v, [names EXCEPT ![n] = 0]))

Touch(v, i) == InodeWrite(v, i, InodeRead(v, i))

-----------------------------------------------------------------------------
(* The commit: every result it may have.  It fails before the first flush   *)
(* is through, with the new blocks in the cache; or with everything but the *)
(* superblock on the device, whose write was refused or cut short.          *)

Flushed(v) == [v EXCEPT !.disk = v.cache @@ @, !.cache = None]
SuperImage(s) ==
    [sound |-> TRUE, generation |-> s.generation,
     free_blocks |-> s.free_blocks, free_inodes |-> s.free_inodes]

\* The staged blocks written into set slot, in the cache.
Landed(v, slot) ==
    [v EXCEPT !.cache = [k \in {At(m, slot) : m \in DOMAIN v.stage} |->
                            v.stage[<<k[1], k[2]>>]] @@ @]
Left(v, k) == k \notin DOMAIN v.stage /\ Read(v, At(k, 0)) # Read(v, At(k, 1))

\* Mutant: one flush for the set and its superblock, which may land first.
CommitOneFlush(v) ==
    LET slot == 1 - v.super.active_slot
        next == [v.super EXCEPT !.generation = @ + 1, !.active_slot = slot]
        Flip(w) == [w EXCEPT !.disk[Super(slot)] = SuperImage(next)]
    IN  IF v.stage = None THEN {[ok |-> TRUE, v |-> v]}
        ELSE UNION {{[ok |-> FALSE, v |-> Flip(w)],
                     [ok |-> TRUE, v |-> [Flip(Flushed(w)) EXCEPT
                                             !.super = next, !.stage = None]]} :
                    w \in {Landed(v, slot)}}

Commit(v) ==
    LET slot == 1 - v.super.active_slot
        next == [v.super EXCEPT !.generation = @ + 1, !.active_slot = slot]
    IN  IF v.stage = None THEN {[ok |-> TRUE, v |-> v]}
        ELSE UNION {{[ok |-> FALSE, v |-> w],
                     [ok |-> FALSE, v |-> Flushed(w)],
                     [ok |-> FALSE, v |-> [Flushed(w) EXCEPT
                                              !.disk[Super(slot)].sound = FALSE]],
                     [ok |-> TRUE,
                      v |-> [Flushed(w) EXCEPT
                                !.disk[Super(slot)] = SuperImage(next),
                                !.super = next, !.stage = None,
                                !.mixed = @ \/ \E k \in Meta : Left(v, k)]]} :
                    w \in {Landed(v, slot)}}

-----------------------------------------------------------------------------
(* The pages of a file.  A half block holds 0 or says which file wrote it.  *)

Stored(i, x) == 10 * i + x

\* adytumfs_pages_ready up to page last: pages are faulted in from the device
\* past the block cache, and checked, until one does not verify.
PagesReady(v, i, nd, last) ==
    Given(InodeRead(v, i), LAMBDA in :
        LET Backed(p) == 2 * p < in.size /\ p < Len(in.map)
            Verified(p) ==
                v.disk[Data(in.map[p + 1])] = Read(v, SUMS)[in.map[p + 1]]
            Ready(p) == p \in nd.present \/ ~Backed(p) \/ Verified(p)
            Fault(p) == IF Backed(p) THEN v.disk[Data(in.map[p + 1])].half
                                     ELSE <<0, 0>>
        IN  Given({p \in 0 .. last : \A q \in 0 .. p : Ready(q)}, LAMBDA good :
                [ok |-> last \in good,
                 nd |-> [nd EXCEPT !.active = TRUE, !.present = @ \cup good,
                            !.bytes = [p \in Pages |->
                                IF p \in good \ nd.present THEN Fault(p)
                                                            ELSE @[p]]]]))

\* adytumfs_pages_sync: a page that had a block is redirected to a fresh one,
\* which stays marked as used when its transfer or its checksum fails.
SyncPage(st, i, old, p, content) ==
    IF p >= Len(st.in.map) THEN [st EXCEPT !.ok = FALSE]
    ELSE IF p >= old
    THEN Given(DirectWrite(st.v, st.in.map[p + 1], content), LAMBDA w :
        [st EXCEPT !.ok = w.ok, !.v = w.v, !.dirty = IF w.ok THEN @ \ {p} ELSE @])
    ELSE Given(AllocRun(st.v, 1), LAMBDA a :
        IF ~a.ok THEN [st EXCEPT !.ok = FALSE]
        ELSE Given(DirectWrite(a.v, a.run[1], content), LAMBDA w :
            IF ~w.ok THEN [st EXCEPT !.ok = FALSE, !.v = w.v]
            ELSE Given(RedirectCommit(w.v, st.in, i, p + 1, a.run[1]), LAMBDA r :
                [ok |-> r.ok, v |-> r.v, in |-> r.in,
                 dirty |-> IF r.ok THEN st.dirty \ {p} ELSE st.dirty])))

SyncPages(v, i, nd) ==
    Given(InodeRead(v, i), LAMBDA in :
        LET needed == Min({FILE_PAGES, (in.size + 1) \div 2})
            old == Len(in.map)
            Step(st, p) ==
                IF ~st.ok \/ p \notin nd.dirty THEN st
                ELSE SyncPage(st, i, old, p, [ZERO EXCEPT !.half = nd.bytes[p]])
        IN  Given(Grow(v, in, needed), LAMBDA g :
                FoldLeft(Step,
                    [ok |-> g.ok, in |-> g.in, dirty |-> nd.dirty,
                     v |-> IF needed > old /\ g.ok THEN InodeWrite(g.v, i, g.in)
                                                   ELSE g.v],
                    [k \in 1 .. FILE_PAGES |-> k - 1])))

\* Mutant: the pages are staged and the commit is left to the unmount.
SyncResultsStaged(v, i, nd) ==
    {[ok |-> s.ok, v |-> s.v, nd |-> [nd EXCEPT !.dirty = s.dirty]] :
        s \in {SyncPages(v, i, nd)}}

SyncResults(v, i, nd) ==
    IF ~nd.active \/ nd.dirty = {} THEN {[ok |-> TRUE, v |-> v, nd |-> nd]}
    ELSE UNION {{[ok |-> c.ok, v |-> c.v, nd |-> [nd EXCEPT !.dirty = s.dirty]] :
                    c \in IF s.ok THEN Commit(s.v) ELSE {s}} :
                s \in {SyncPages(v, i, nd)}}

\* Mutant: the tail of the last block stays.
TruncateWindowKeepsTail(v, i, size) ==
    LET in == InodeRead(v, i)
        blocks == (size + 1) \div 2
    IN  Given(IF blocks > Len(in.map) THEN Grow(v, in, blocks)
                                      ELSE Shrink(v, in, blocks), LAMBDA g :
            [ok |-> g.ok, v |-> InodeWrite(g.v, i, [g.in EXCEPT !.size = size])])

\* adytumfs_truncate up to its commit, to size half blocks.
TruncateWindow(v, i, size) ==
    LET in == InodeRead(v, i)
        blocks == (size + 1) \div 2
        Zeroed(b) == [b EXCEPT !.half[2] = 0]
    IN  Given(IF blocks > Len(in.map) THEN Grow(v, in, blocks)
                                      ELSE Shrink(v, in, blocks), LAMBDA g :
        IF ~g.ok \/ (size % 2 = 1 /\ ~DataSound(g.v, g.in.map[blocks]))
        THEN [ok |-> FALSE, v |-> g.v]
        ELSE Given(IF size % 2 = 0 THEN g
                   ELSE Remap(g.v, g.in, i, blocks,
                              Zeroed(Read(g.v, Data(g.in.map[blocks])))),
             LAMBDA r :
                IF ~r.ok THEN [ok |-> FALSE, v |-> r.v]
                ELSE [ok |-> TRUE,
                      v |-> InodeWrite(r.v, i, [r.in EXCEPT !.size = size])]))

TruncateResults(v, i, size) ==
    UNION {IF t.ok THEN Commit(t.v) ELSE {t} : t \in {TruncateWindow(v, i, size)}}

-----------------------------------------------------------------------------
(* The operations on an open file.                                         *)

Live(i) == mounted = "yes" /\ nodes[i].live
SetNode(i, nd) == nodes' = [nodes EXCEPT ![i] = nd]

\* vfs_write of one half block.
WriteFile(i, h, x) ==
    LET p == h \div 2
        size == Max({nodes[i].size, h + 1})
        in == InodeRead(Now, i)
        Written(nd) == [nd EXCEPT !.size = size, !.dirty = @ \cup {p},
                                  !.bytes[p][(h % 2) + 1] = Stored(i, x)]
    IN  /\ Live(i) /\ synced' = 0 /\ UNCHANGED mounted
        /\ \E r \in {PagesReady(Now, i, nodes[i], p)} :
              /\ SetNode(i, IF r.ok THEN Written(r.nd) ELSE r.nd)
              /\ Become(IF r.ok
                        THEN InodeWrite(Now, i, [in EXCEPT !.size = Max({@, size})])
                        ELSE Now)

\* vfs_read of everything, with the access time it may stage.
ReadFile(i, stamp) ==
    /\ Live(i) /\ nodes[i].size > 0 /\ synced' = 0 /\ UNCHANGED mounted
    /\ \E r \in {PagesReady(Now, i, nodes[i], (nodes[i].size - 1) \div 2)} :
          SetNode(i, r.nd) /\ Become(IF r.ok /\ stamp THEN Touch(Now, i) ELSE Now)

\* vfs_sync and vfs_fsync.
SyncFile(i, io) ==
    /\ Live(i) /\ UNCHANGED mounted
    /\ \E s \in SyncResults(Trying(io), i, nodes[i]) :
          Become(s.v) /\ SetNode(i, s.nd) /\ synced' = IF s.ok THEN i ELSE 0

\* vfs_truncate: write the pages back, truncate, let the pages go.
TruncateFile(i, size, io) ==
    /\ Live(i) /\ synced' = 0 /\ UNCHANGED mounted
    /\ \E s \in SyncResults(Trying(io), i, nodes[i]) :
          \/ ~s.ok /\ Become(s.v) /\ SetNode(i, s.nd)
          \/ /\ s.ok
             /\ \E t \in TruncateResults(s.v, i, size) :
                   /\ Become(t.v)
                   /\ SetNode(i, IF t.ok THEN [PagesDetach(s.nd) EXCEPT !.size = size]
                                         ELSE s.nd)

\* adytumfs_inode_update: permissions or owner.
Update(i) ==
    /\ Live(i) /\ synced' = 0
    /\ Become(InodeWrite(Now, i, [InodeRead(Now, i) EXCEPT !.attr = 1 - @]))
    /\ UNCHANGED <<mounted, nodes>>

-----------------------------------------------------------------------------
(* Names and inodes.                                                       *)

Owner(n) == {i \in Inodes : nodes[i].live /\ n \in nodes[i].names}

InodeFree(v, i) ==
    [InodeWrite(v, i, [InodeRead(v, i) EXCEPT !.mode = "free"]) EXCEPT
        !.super.free_inodes = @ + 1]

\* inode_reclaim, of the file's blocks and then of the inode.
Reclaim(v, i) ==
    Given(Shrink(v, InodeRead(v, i), 0), LAMBDA t :
        InodeFree(InodeWrite(t.v, i, [t.in EXCEPT !.size = 0]), i))

\* adytumfs_create_at: the first free inode, then its name.
CreateFile(n, io) ==
    LET free == {i \in Inodes : InodeRead(Now, i).mode = "free"}
        i == Min(free)
        fresh == [FreeInode EXCEPT !.mode = "reg", !.links = 1]
        v == [InodeWrite(Trying(io), i, fresh) EXCEPT !.super.free_inodes = @ - 1]
    IN  /\ mounted = "yes" /\ free # {} /\ Owner(n) = {} /\ synced' = 0
        /\ \E d \in {DirAdd(v, n, i)} :
              /\ Become(IF d.ok THEN d.v ELSE InodeFree(d.v, i))
              /\ SetNode(i, IF d.ok THEN [NoNode EXCEPT !.live = TRUE, !.names = {n}]
                                    ELSE nodes[i])
        /\ UNCHANGED mounted

\* Mutant: the new name is not counted.
LinkFileUncounted(i, n, io) ==
    /\ Live(i) /\ nodes[i].names # {} /\ Owner(n) = {} /\ synced' = 0
    /\ \E d \in {DirAdd(Trying(io), n, i)} :
          /\ Become(d.v)
          /\ SetNode(i, IF d.ok THEN [nodes[i] EXCEPT !.names = @ \cup {n}]
                                ELSE nodes[i])
    /\ UNCHANGED mounted

\* adytumfs_inode_link: the count rises before the name lands.
LinkFile(i, n, io) ==
    LET in == InodeRead(Now, i)
        v == InodeWrite(Trying(io), i, [in EXCEPT !.links = @ + 1])
    IN  /\ Live(i) /\ nodes[i].names # {} /\ Owner(n) = {} /\ synced' = 0
        /\ \E d \in {DirAdd(v, n, i)} :
              /\ Become(IF d.ok THEN Touch(d.v, ROOT) ELSE InodeWrite(d.v, i, in))
              /\ SetNode(i, IF d.ok THEN [nodes[i] EXCEPT !.names = @ \cup {n}]
                                    ELSE nodes[i])
        /\ UNCHANGED mounted

\* adytumfs_unlink.  A file whose last name goes is reclaimed, unless a
\* descriptor holds it: then its final close does that.
Unlinked(v, i, n, open) ==
    LET in == InodeRead(v, i)
        nd == nodes[i]
        kept == [nd EXCEPT !.names = @ \ {n}]
        Linked(w, links) ==
            [ok |-> TRUE, nd |-> kept,
             v |-> InodeWrite(w, i, [in EXCEPT !.links = links])]
    IN  Given(DirRemove(v, n), LAMBDA d :
            IF ~d.ok THEN [ok |-> FALSE, v |-> d.v, nd |-> nd]
            ELSE Given(Touch(d.v, ROOT), LAMBDA w :
                IF in.links > 1 THEN Linked(w, in.links - 1)
                ELSE IF open /\ nd.names = {n} THEN Linked(w, 0)
                ELSE [ok |-> TRUE, nd |-> NoNode, v |-> Reclaim(w, i)]))

UnlinkFile(i, n, open, io) ==
    /\ mounted = "yes" /\ i \in Owner(n) /\ synced' = 0
    /\ \E u \in {Unlinked(Trying(io), i, n, open)} : Become(u.v) /\ SetNode(i, u.nd)
    /\ UNCHANGED mounted

\* node_destroy after the last close of a file without a name.
Release(i, io) ==
    /\ Live(i) /\ nodes[i].names = {} /\ synced' = 0
    /\ \E s \in SyncResults(Trying(io), i, nodes[i]) : Become(Reclaim(s.v, i))
    /\ SetNode(i, NoNode)
    /\ UNCHANGED mounted

\* adytumfs_rename.  The old name leaves first and comes back if the new one
\* does not fit; the move is committed at once.
RenameResults(v, i, n, m) ==
    IF Dir(v)[n] # i \/ Dir(v)[m] # 0 THEN {[ok |-> FALSE, v |-> v]}
    ELSE UNION {IF ~d.ok THEN {[ok |-> FALSE, v |-> d.v]}
                ELSE UNION {IF ~e.ok THEN {[ok |-> FALSE, v |-> DirAdd(e.v, n, i).v]}
                            ELSE Commit(Touch(e.v, ROOT)) :
                            e \in {DirAdd(d.v, m, i)}} :
                d \in {DirRemove(Touch(v, i), n)}}

Renamed(i, n, m) == [nodes[i] EXCEPT !.names = (@ \ {n}) \cup {m}]

\* vfs_rename, to a free name or over another file.
RenameFile(i, n, m, io) ==
    /\ mounted = "yes" /\ i \in Owner(n) /\ Owner(m) = {} /\ synced' = 0
    /\ \E r \in RenameResults(Trying(io), i, n, m) :
          Become(r.v) /\ SetNode(i, IF r.ok THEN Renamed(i, n, m) ELSE nodes[i])
    /\ UNCHANGED mounted

ReplaceFile(i, n, j, m, open, io) ==
    /\ mounted = "yes" /\ i \in Owner(n) /\ j \in Owner(m) /\ i # j
    /\ \E u \in {Unlinked(Trying(io), j, m, open)} :
          \E r \in IF u.ok THEN RenameResults(u.v, i, n, m) ELSE {u} :
              /\ Become(r.v)
              /\ nodes' = [nodes EXCEPT ![j] = u.nd,
                     ![i] = IF r.ok THEN Renamed(i, n, m) ELSE @]
    /\ synced' = 0 /\ UNCHANGED mounted

-----------------------------------------------------------------------------
(* Mounting, unmounting, and what happens to the device in between.         *)

\* adytumfs_super_read: the newer of the superblocks that are sound.
Picked(v) ==
    Given([s \in {0, 1} |-> Read(v, Super(s))], LAMBDA pair :
        LET pick == IF pair[1].sound
                       /\ (~pair[0].sound
                           \/ pair[1].generation > pair[0].generation)
                    THEN 1 ELSE 0
        IN  [v EXCEPT !.stage = None,
                      !.super = [generation |-> pair[pick].generation,
                                 free_blocks |-> pair[pick].free_blocks,
                                 free_inodes |-> pair[pick].free_inodes,
                                 active_slot |-> pick]])

\* adytumfs_verify: bitmap, extents and counters tell the same story, and no
\* block is marked as used for nobody.
LiveInodes(v) == {i \in AllInodes : InodeRead(v, i).mode # "free"}
Claimed(v, i) == ToSet(InodeRead(v, i).map)
Unclaimed(v) == Used(v) \ UNION {Claimed(v, i) : i \in LiveInodes(v)}

Agree(v) ==
    LET live == LiveInodes(v)
    IN  /\ \A i \in live : /\ Claimed(v, i) \subseteq Used(v)
                           /\ Cardinality(Claimed(v, i)) = Len(InodeRead(v, i).map)
        /\ \A i, j \in live : i # j => Claimed(v, i) \cap Claimed(v, j) = {}
        /\ v.super.free_inodes = Cardinality(AllInodes \ live)
        /\ v.super.free_blocks = Cardinality(Blocks \ Used(v))

Verify(v) == Agree(v) /\ Unclaimed(v) = {}

\* walk_tree: every name leads to a file.
Walk(v) ==
    LET root == InodeRead(v, ROOT)
    IN  /\ root.mode = "dir"
        /\ root.map # <<>> => DataSound(v, root.map[1])
        /\ \A n \in Names :
              Dir(v)[n] # 0 => InodeRead(v, Dir(v)[n]).mode = "reg"

Intact(v) ==
    /\ Read(v, Super(v.super.active_slot)).sound
    /\ \A k \in Meta : Image(v, k).sound

Mountable(v) == Intact(v) /\ Verify(v) /\ Walk(v)

\* adytumfs_inode_get: a size is clamped to the blocks behind it.
Clamped(in) == Min({in.size, 2 * Len(in.map)})

\* vfs_mount_adytumfs.
Mount ==
    LET NamesOf(v, i) == {n \in Names : Dir(v)[n] = i}
        Node(v, i) ==
            IF NamesOf(v, i) = {} THEN NoNode
            ELSE [NoNode EXCEPT !.live = TRUE, !.names = NamesOf(v, i),
                                !.size = Clamped(InodeRead(v, i))]
    IN  /\ mounted = "no" /\ synced' = 0
        /\ \E v \in {Picked(Now)} : \E ok \in {Mountable(v)} :
              /\ mounted' = IF ok THEN "yes" ELSE "no"
              /\ nodes' = [i \in Inodes |-> IF ok THEN Node(v, i) ELSE NoNode]
              /\ Become(IF ok THEN v ELSE [Now EXCEPT !.stage = None])

\* adytumfs_detach: every page cache is written back, one after the other,
\* then the window is committed; a failure is not reported.
Unmount ==
    /\ mounted = "yes" /\ mounted' = "leaving" /\ synced' = 0
    /\ \A i \in Inodes : nodes[i].live => nodes[i].names # {}
    /\ UNCHANGED <<disk, cache, stage, super, mixed, failed, nodes>>

DetachPages(i, io) ==
    /\ mounted = "leaving" /\ nodes[i].active
    /\ \E s \in SyncResults(Trying(io), i, nodes[i]) : Become(s.v)
    /\ SetNode(i, PagesDetach(nodes[i]))
    /\ UNCHANGED <<mounted, synced>>

DetachCommit ==
    /\ mounted = "leaving" /\ \A i \in Inodes : ~nodes[i].active
    /\ \E c \in Commit(Now) : Become(c.v)
    /\ mounted' = "no" /\ nodes' = [i \in Inodes |-> NoNode]
    /\ UNCHANGED synced

\* The cache makes room by writing a dirty page back.
WriteBack(k) ==
    /\ k \in DOMAIN cache
    /\ disk' = [disk EXCEPT ![k] = cache[k]]
    /\ cache' = [l \in DOMAIN cache \ {k} |-> cache[l]]
    /\ UNCHANGED <<stage, super, mixed, failed, mounted, nodes, synced>>

\* What a write cut short leaves: some entries of the checksums, or a block
\* that is neither the old nor the new one.
Torn(k) ==
    IF k = SUMS
    THEN {[b \in Blocks |-> IF b < c THEN cache[k][b] ELSE disk[k][b]] :
             c \in {b \in Blocks : cache[k][b] # disk[k][b]}}
    ELSE {[disk[k] EXCEPT !.sound = FALSE]}

\* Memory is lost; of the dirty pages some were down, and one on its way.
Crash ==
    /\ \E down \in SUBSET DOMAIN cache :
          LET d == [k \in Keys |-> IF k \in down THEN cache[k] ELSE disk[k]]
          IN  \/ disk' = d
              \/ \E k \in DOMAIN cache \ down :
                    \E t \in Torn(k) : disk' = [d EXCEPT ![k] = t]
    /\ cache' = None /\ stage' = None /\ mounted' = "no"
    /\ nodes' = [i \in Inodes |-> NoNode] /\ synced' = 0
    /\ UNCHANGED <<super, mixed, failed>>

-----------------------------------------------------------------------------
\* A volume adytumfs_make has formatted: the two sets are twins.
Init ==
    LET root == [FreeInode EXCEPT !.mode = "dir", !.links = 2]
        Table(k) == [sound |-> TRUE,
                     inodes |-> [i \in {j \in AllInodes : TableOf(j) = k} |->
                                    IF i = ROOT THEN root ELSE FreeInode]]
        first == [generation |-> 1, free_blocks |-> Cardinality(Blocks),
                  free_inodes |-> Cardinality(Inodes), active_slot |-> 0]
    IN  /\ disk = [k \in Keys |->
               CASE k[1] = "super" -> SuperImage(first)
                 [] k[1] = "bitmap" -> [sound |-> TRUE, used |-> {}]
                 [] k[1] = "table" -> Table(<<k[1], k[2]>>)
                 [] k[1] = "data" -> ZERO
                 [] k = SUMS -> [b \in Blocks |-> ZERO]]
        /\ cache = None /\ stage = None /\ super = first /\ mixed = FALSE
        /\ failed = {}
        /\ mounted = "no" /\ nodes = [i \in Inodes |-> NoNode] /\ synced = 0

NameStep(io) ==
    \/ \E i \in Inodes : Release(i, io)
    \/ \E n \in Names :
        \/ CreateFile(n, io)
        \/ \E i \in Inodes, open \in BOOLEAN :
              \/ LinkFile(i, n, io)
              \/ UnlinkFile(i, n, open, io)
              \/ \E m \in Names \ {n} :
                    \/ RenameFile(i, n, m, io)
                    \/ \E j \in Inodes : ReplaceFile(i, n, j, m, open, io)

FileStep ==
    \E i \in Inodes :
        \/ Update(i)
        \/ \E stamp \in BOOLEAN : ReadFile(i, stamp)
        \/ \E h \in 0 .. 2 * FILE_PAGES - 1, x \in Values : WriteFile(i, h, x)

SyncStep(io) == \E i \in Inodes : SyncFile(i, io) \/ DetachPages(i, io)

TruncateStep(io) ==
    \E i \in Inodes, size \in 0 .. 2 * FILE_PAGES : TruncateFile(i, size, io)

VolumeStep == Mount \/ Unmount \/ DetachCommit \/ Crash

Next ==
    \/ FileStep \/ VolumeStep
    \/ \E io \in Seq({"ok", "write", "seal"}) : NameStep(io) \/ SyncStep(io) \/ TruncateStep(io)
    \/ \E k \in Keys : WriteBack(k)

Spec == Init /\ [][Next]_vars

-----------------------------------------------------------------------------
(* What the volume holds: as the open window sees it, and as the next boot  *)
(* would find it on the device.                                            *)

Half(v, in, h) == Read(v, Data(in.map[(h \div 2) + 1])).half[(h % 2) + 1]

File(v, i) ==
    LET in == InodeRead(v, i)
    IN  [mode |-> in.mode, links |-> in.links, attr |-> in.attr,
         bytes |-> [h \in 1 .. Clamped(in) |-> Half(v, in, h - 1)]]

Content(v) == [names |-> Dir(v), files |-> [i \in Inodes |-> File(v, i)]]

Recovered == Picked([Now EXCEPT !.cache = None])
Durable == Content(Recovered)
Window == IF mounted = "no" THEN Durable ELSE Content(Now)

TypeOK ==
    /\ DOMAIN disk = Keys /\ DOMAIN cache \subseteq Keys
    /\ DOMAIN stage \subseteq Meta
    /\ super.active_slot \in {0, 1} /\ super.generation \in Nat \ {0}
    /\ super.free_blocks \in 0 .. Cardinality(Blocks)
    /\ super.free_inodes \in 0 .. Cardinality(Inodes)
    /\ mixed \in BOOLEAN /\ failed \subseteq Blocks /\ mounted \in {"no", "yes", "leaving"}
    /\ synced \in Inodes \cup {0}
    /\ \A i \in Inodes :
          /\ nodes[i].names \subseteq Names
          /\ nodes[i].dirty \subseteq nodes[i].present
          /\ nodes[i].present # {} => nodes[i].active
          /\ nodes[i].active => nodes[i].live

\* At every moment a reboot finds one sound generation, whose blocks verify: a
\* commit never exposes a set before all of it is down.  Only a block whose own
\* write has failed may not verify, or be marked as used for nobody; with such a
\* mark the volume does not mount.
Recoverable ==
    LET r == Recovered
    IN  /\ Intact(r) /\ Agree(r) /\ Walk(r)
        /\ Unclaimed(r) \subseteq failed
        /\ \A i \in Inodes :
              InodeRead(r, i).mode # "free" =>
                  \A b \in Claimed(r, i) \ failed : DataSound(r, b)

\* The open window tells one story, whatever operation has failed in it: no
\* block has two owners, what a file maps is marked as used, the counters follow
\* the bitmap, names lead to files, and the only blocks marked for nobody are
\* those whose own write has failed.
WindowSound ==
    mounted # "no" =>
        LET v == Now IN Agree(v) /\ Walk(v) /\ Unclaimed(v) \subseteq failed

\* While a file has a name, its link count is the number of its names.
LinksExact ==
    LET NamesOf(i) == {n \in Names : Dir(Now)[n] = i}
    IN  mounted # "no" =>
            \A i \in Inodes :
                NamesOf(i) # {} => InodeRead(Now, i).links = Cardinality(NamesOf(i))

\* A file shows zeroes and its own writes, in memory, in the window and after
\* a reboot; never what a freed block held for another file.
OwnBytes ==
    LET Own(i) == {0} \cup {Stored(i, x) : x \in Values}
        Shows(v, i) == ToSet(File(v, i).bytes)
    IN  \A i \in Inodes :
            /\ Shows(Recovered, i) \subseteq Own(i)
            /\ mounted # "no" /\ nodes[i].live =>
                  /\ Shows(Now, i) \subseteq Own(i)
                  /\ \A p \in nodes[i].present :
                        ToSet(nodes[i].bytes[p]) \subseteq Own(i)

\* Bytes past the end of a file are zeroes in the blocks it keeps, so a file
\* that grows again does not show what truncation cut off.
ZeroTail ==
    mounted # "no" =>
        \A i \in Inodes :
            LET in == InodeRead(Now, i)
            IN  in.mode = "reg" =>
                    \A h \in in.size .. 2 * Len(in.map) - 1 : Half(Now, in, h) = 0

\* A successful fsync of a file with dirty pages puts them on the device.
SyncLands ==
    [][\A i \in Inodes : synced' = i =>
          \E landed \in {Durable'.files[i].bytes} :
              \A p \in nodes[i].dirty, k \in {1, 2} :
                  2 * p + k <= nodes[i].size =>
                      /\ 2 * p + k <= Len(landed)
                      /\ landed[2 * p + k] = nodes[i].bytes[p][k]]_vars

=============================================================================
