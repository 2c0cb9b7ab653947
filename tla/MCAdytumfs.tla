----------------------------- MODULE MCAdytumfs -----------------------------
(* Small volumes for TLC. *)
EXTENDS Adytumfs

CONSTANTS
    MaxGeneration,      \* bound on the superblock's generation
    MaxMounts           \* bound on the mounts of the volume

VARIABLES
    scope,
    mounts, ops,        \* how often it was mounted, operated on
    window, durable     \* Window and Durable, kept for AbstractVolume

\* Bound on the operations of a scope.
MaxOps == [names |-> 4, data |-> 3, reuse |-> 5, device |-> 3, full |-> 2]

\* A truncation that stops between the blocks and the inode leaves them at
\* odds (see the run adytumfs_truncate): here it gets through, or not even the
\* blocks it asks for.
Fits(i, size, io) ==
    \A s \in SyncResults(Trying(io), i, nodes[i]) :
        LET in == InodeRead(s.v, i)
        IN  s.ok => \/ TruncateWindow(s.v, i, size).ok
                    \/ ~Grow(s.v, in, (size + 1) \div 2).ok

\* The files a scope works on come for free, one or two.
Setup ==
    /\ ops = 0 /\ mounts = 1 /\ scope # "names"
    /\ scope \in {"data", "device"} => \A n \in Names : Owner(n) = {}
    /\ \E n \in Names : Owner(n) = {}
    /\ CreateFile(CHOOSE n \in Names : Owner(n) = {}, <<>>)

\* In the scope device one of the first writes of an operation fails, once.
Io == IF scope # "device" \/ failed # {} THEN {<<>>}
      ELSE {<<>>, <<"write">>, <<"seal">>, <<"ok", "write">>, <<"ok", "seal">>}

Truncate(io) ==
    \E i \in Inodes, size \in 0 .. 2 * FILE_PAGES :
        Live(i) /\ Fits(i, size, io) /\ TruncateFile(i, size, io)

\* The operations a scope counts.
Step ==
    CASE scope = "names" -> NameStep(<<>>)
      [] scope = "data" -> FileStep \/ Truncate(<<>>) \/ \E i \in Inodes : SyncFile(i, <<>>)
      [] scope = "reuse" ->
           \/ \E n \in Names : UnlinkFile(Min(Inodes), n, FALSE, <<>>)
           \/ \E i \in Inodes, x \in Values : WriteFile(i, 0, x)
           \/ \E i \in Inodes : SyncFile(i, <<>>)
      [] scope = "device" ->
           \/ \E i \in Inodes, x \in Values : WriteFile(i, 0, x)
           \/ \E io \in Io : NameStep(io) \/ Truncate(io) \/ \E i \in Inodes : SyncFile(i, io)
      [] scope = "full" -> TruncateStep(<<>>)

\* Names and directories are read through the cache: what it has written back
\* of them shows in a crash alone, which has its own choice of that.
Evict == scope = "data" /\ \E b \in Blocks : WriteBack(Data(b))

Leaving == \E i \in Inodes, io \in Io : DetachPages(i, io)

InitIn(scopes) ==
    /\ Init /\ scope \in scopes /\ mounts = 0 /\ ops = 0
    /\ window = Window /\ durable = Durable

Bounded ==
    /\ \/ ops < MaxOps[scope] /\ Step /\ ops' = ops + 1
       \/ (Setup \/ Evict \/ Leaving \/ VolumeStep) /\ UNCHANGED ops
    /\ super'.generation <= MaxGeneration
    /\ \E now \in {Now'}, r \in {Recovered'} :
          /\ durable' = Content(r)
          /\ window' = Content(IF mounted' = "no" THEN r ELSE now)
    /\ mounts' = mounts + (IF mounted = "no" /\ mounted' = "yes" THEN 1 ELSE 0)
    /\ mounts' <= (IF scope = "device" THEN 1 ELSE MaxMounts) /\ UNCHANGED scope

\* A flip that names a set with a block left from before (see the run
\* adytumfs_mix) is out of scope too.
MCNext == Bounded /\ ~mixed'

mcvars == <<vars, scope, mounts, ops, window, durable>>

MCInit == InitIn({"names", "data", "reuse", "device"})
MCSpec == MCInit /\ [][MCNext]_mcvars

MixSpec == InitIn({"data"}) /\ [][Bounded]_mcvars
FullSpec == InitIn({"full"}) /\ [][MCNext]_mcvars

Abstract == INSTANCE AbstractVolume

\* The volume is a pair of contents: operations edit one file of the window,
\* and what survives a crash is replaced by the window as a whole or not at
\* all (adytumfs_commit).
CrashAtomic == Abstract!Spec

\* Whatever survives a crash at any moment is a sound volume, and so is the
\* window the mounted volume works on: its links are exact and no block has two
\* owners.  It mounts again, unless the write of a block failed: such a block may
\* stay marked for nobody, and once that is committed the mount refuses.
VolumeSound == TypeOK /\ Recoverable /\ WindowSound /\ LinksExact

\* A file reads its own bytes: never those of the file that had the block
\* before, and zeros past what was written.
OwnBytesOnly == OwnBytes /\ ZeroTail
=============================================================================
