------------------------------- MODULE Cache --------------------------------
(***************************************************************************)
(* The write-back cache of block devices (cache.c), for one device.  A     *)
(* page is the sequence of its sectors.  Writing a page back fails for the *)
(* pages in `bad`, after some of its sectors; reading one fails too.       *)
(***************************************************************************)
EXTENDS Integers, Sequences, SequencesExt

CONSTANTS Pages, Size,     \* Size: BLOCK_CACHE_MAX entries
          Contents         \* contents of a page: sequences of two sectors

VARIABLES entry,   \* [1 .. Size -> state, page, data]
          clock,   \* 1 .. Size
          disk,    \* [Pages -> Contents]
          want     \* what was last written to a page and not given up

vars == <<entry, clock, disk, want>>

Empty == [st |-> "empty", page |-> 0, data |-> <<>>]

block_cache_init ==
    /\ entry = [i \in 1 .. Size |-> Empty] /\ clock = 1
    /\ disk \in [Pages -> Contents] /\ want = disk

Cached(en, p) == {i \in 1 .. Size : en[i].st # "empty" /\ en[i].page = p}

\* The sectors of a page that reach the device before the write fails.
Torn(old, new) == <<new[1], old[2]>>

writeback_marks_clean(x, i, bad) == [x EXCEPT !.entry[i].st = IF @ = "dirty" THEN "clean" ELSE @]

\* x: entry, disk, and whether the write failed.
writeback(x, i, bad) ==
    LET e == x.entry[i]
    IN  IF e.st # "dirty" THEN x
        ELSE IF e.page \in bad THEN [x EXCEPT !.disk[e.page] = Torn(@, e.data), !.failed = TRUE]
        ELSE [x EXCEPT !.disk[e.page] = e.data, !.entry[i].st = "clean"]

\* evict goes around the clock twice; a dirty page that cannot be written is
\* left where it is.
evict(x, bad) ==
    LET Turn(y, n) ==
          LET i == y.clock
              w == writeback([y EXCEPT !.failed = FALSE], i, bad)
          IN  IF y.found # 0 THEN y
              ELSE [w EXCEPT !.clock = IF i = Size THEN 1 ELSE i + 1,
                             !.found = IF w.failed THEN 0 ELSE i,
                             !.entry[i] = IF w.failed THEN @ ELSE Empty]
    IN  FoldLeft(Turn, x, [n \in 1 .. 2 * Size |-> n])

Now == [entry |-> entry, clock |-> clock, disk |-> disk, found |-> 0, failed |-> FALSE]

\* fill: the entry of page p, read from the device when it is not cached.
fill(p, bad) ==
    LET c == Cached(entry, p)
        x == evict(Now, bad)
    IN  IF c # {} THEN [Now EXCEPT !.found = CHOOSE i \in c : TRUE]
        ELSE IF x.found = 0 \/ p \in bad THEN [x EXCEPT !.found = 0]
        ELSE [x EXCEPT !.entry[x.found] = [st |-> "clean", page |-> p, data |-> x.disk[p]]]

block_cache_read(p, bad) ==
    \E x \in {fill(p, bad)} :
        /\ entry' = x.entry /\ clock' = x.clock /\ disk' = x.disk /\ UNCHANGED want

block_cache_write(p, v, bad) ==
    \E x \in {fill(p, bad)} :
        /\ entry' = IF x.found = 0 THEN x.entry
                    ELSE [x.entry EXCEPT ![x.found].data = v, ![x.found].st = "dirty"]
        /\ want' = IF x.found = 0 THEN want ELSE [want EXCEPT ![p] = v]
        /\ clock' = x.clock /\ disk' = x.disk

\* block_cache_flush stops at the first page it cannot write.
block_cache_flush(bad) ==
    \E x \in {FoldLeft(LAMBDA y, i : IF y.failed THEN y ELSE writeback(y, i, bad), Now,
                       [i \in 1 .. Size |-> i])} :
        /\ entry' = x.entry /\ disk' = x.disk /\ UNCHANGED <<clock, want>>

block_cache_invalidate(p) ==
    /\ entry' = [i \in 1 .. Size |-> IF i \in Cached(entry, p) THEN Empty ELSE entry[i]]
    /\ want' = [want EXCEPT ![p] = disk[p]]
    /\ UNCHANGED <<clock, disk>>

\* page_transfer drops the cached image, then writes through the transport.
page_transfer(p, v) ==
    /\ entry' = [i \in 1 .. Size |-> IF i \in Cached(entry, p) THEN Empty ELSE entry[i]]
    /\ disk' = [disk EXCEPT ![p] = v] /\ want' = [want EXCEPT ![p] = v]
    /\ UNCHANGED clock

block_cache_drop_device ==
    /\ entry' = [i \in 1 .. Size |-> Empty] /\ want' = disk
    /\ UNCHANGED <<clock, disk>>

Next ==
    \/ \E p \in Pages, bad \in SUBSET Pages :
         \/ block_cache_read(p, bad)
         \/ \E v \in Contents : block_cache_write(p, v, bad)
    \/ \E bad \in SUBSET Pages : block_cache_flush(bad)
    \/ \E p \in Pages : block_cache_invalidate(p) \/ (\E v \in Contents : page_transfer(p, v))
    \/ block_cache_drop_device

-----------------------------------------------------------------------------

\* Whatever was evicted, whichever writes failed half-way: a page is cached
\* once, and a reader finds in the cache, or else on the device, the bytes that
\* were last written to it.
CacheCoherent ==
    \A p \in Pages :
      \E c \in {Cached(entry, p)} :
        /\ \A i, j \in c : i = j
        /\ \A i \in c : entry[i].data = want[p] /\ (entry[i].st = "clean" => disk[p] = want[p])
        /\ c = {} => disk[p] = want[p]
=============================================================================
