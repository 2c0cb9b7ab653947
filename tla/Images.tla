------------------------------ MODULE Images ------------------------------
(***************************************************************************)
(* Building and replacing a task's image (kernel.c, elf64.c): spawn, fork, *)
(* the native exec and execve, one allocation at a time, each of which may *)
(* fail.  One call runs at a time: the kernel is not preempted and only    *)
(* the boot processor runs these calls.                                    *)
(*                                                                         *)
(* A call holds what it has acquired so far: the task slot of a new task,  *)
(* the new address space with the pages mapped into it, the node of the    *)
(* image, the lock of the argument staging area.  Page tables are left     *)
(* out: an allocation may fail while frames are free.  What the pages hold *)
(* is Memory's subject, the descriptors behind the numbers Pipes'.         *)
(***************************************************************************)
EXTENDS Integers, Sequences, FiniteSets

CONSTANTS Slots, Spaces, Frames,   \* task slots, address spaces, page frames
          Nodes,                   \* file-system nodes; 1 is the root
          ImagePages,              \* sizes of the program images, in pages
          SPAWN_STACK_PAGES

VARIABLES task,    \* [Slots -> task, its context and its profile]
          space,   \* [Spaces -> [on, pte]]: the frames mapped, in order
          refs,    \* [Frames -> Nat]: pmm reference counts
          held,    \* [Nodes -> Nat]: references the tasks and calls hold
          stage,   \* posix_exec_stage.lock is taken
          call     \* the call in progress

vars == <<task, space, refs, held, stage, call>>

NoTask == [on |-> FALSE, valid |-> FALSE, space |-> 0, cwd |-> 0, fds |-> {}, handles |-> FALSE]
NoSpace == [on |-> FALSE, pte |-> <<>>]
Idle == [op |-> "none"]

\* descriptors: one closed on exec, one kept.
Fds == {"cloexec", "plain"}

Init ==
    /\ task = [t \in Slots |-> NoTask] /\ space = [s \in Spaces |-> NoSpace]
    /\ refs = [f \in Frames |-> 0] /\ held = [n \in Nodes |-> 0]
    /\ stage = FALSE /\ call = Idle

-----------------------------------------------------------------------------
(* Frames, spaces and what a task holds.                                      *)

FreeFrames == {f \in Frames : refs[f] = 0}
FreeSpaces == {s \in Spaces : ~space[s].on}
Lowest(S) == CHOOSE x \in S : \A y \in S : x <= y
Times(q, x) == Cardinality({i \in DOMAIN q : q[i] = x})

\* vm64_free_page, once for each page of q, refuses a page without references.
Freed(R, q) == [f \in Frames |-> IF R[f] >= Times(q, f) THEN R[f] - Times(q, f) ELSE 0]
\* vm64_destroy_space also frees the pages the tables own.
vm64_destroy_space(S, s) == [S EXCEPT ![s] = NoSpace]

\* posix_profile_release: the reference to the working directory goes.
posix_profile_release(H, t) == [n \in Nodes |-> IF task[t].cwd = n THEN H[n] - 1 ELSE H[n]]

\* task_free_slot with arch_task_release, R the counts it starts from.
task_free_slot(t, R) ==
    LET r == task[t]
    IN  /\ task' = [task EXCEPT ![t] = NoTask]
        /\ held' = posix_profile_release(held, t)
        /\ IF r.valid THEN /\ refs' = Freed(R, space[r.space].pte)
                           /\ space' = vm64_destroy_space(space, r.space)
           ELSE refs' = R /\ UNCHANGED space

GiveNothing(n) == held

\* The exits of a call: the caller's new space, node and lock are returned.
Give(n) == IF n = 0 THEN held ELSE [held EXCEPT ![n] = @ - 1]
Abandon ==
    /\ IF call.s = 0 THEN UNCHANGED <<space, refs>>
       ELSE space' = vm64_destroy_space(space, call.s) /\ refs' = Freed(refs, space[call.s].pte)
    /\ held' = Give(call.node) /\ stage' = FALSE /\ call' = Idle
    /\ UNCHANGED task

-----------------------------------------------------------------------------
(* exec64 and posix_execve64.                                                 *)

Begin(op, t) == [op |-> op, t |-> t, step |-> "path", s |-> 0, node |-> 0, left |-> 0,
                 was |-> task[t], pages |-> space[task[t].space].pte]

\* copy_stage_string and copy_stage_vector fill the staging area under its lock.
posix_execve64(t) ==
    /\ call = Idle /\ task[t].on /\ task[t].valid /\ task[t].cwd # 0 /\ ~stage
    /\ stage' = TRUE /\ call' = Begin("execve", t)
    /\ UNCHANGED <<task, space, refs, held>>

exec64(t) ==
    /\ call = Idle /\ task[t].on /\ task[t].valid
    /\ call' = Begin("exec", t)
    /\ UNCHANGED <<task, space, refs, held, stage>>

Execs == {"exec", "execve"}

ResolveCloses(n, pages) ==
    /\ call.op \in {"exec", "execve"} /\ call.step = "path"
    /\ held' = [held EXCEPT ![n] = @ + 1]
    /\ call' = [call EXCEPT !.step = "image", !.node = n, !.left = pages]
    /\ task' = [task EXCEPT ![call.t].fds = @ \ {"cloexec"}]
    /\ UNCHANGED <<space, refs, stage>>

\* The path, the veil, the vectors, the mode and the image: any may refuse.
\* The node is held once the path is resolved.
Resolve(n, pages) ==
    /\ call.op \in Execs /\ call.step = "path"
    /\ held' = [held EXCEPT ![n] = @ + 1]
    /\ call' = [call EXCEPT !.step = "image", !.node = n, !.left = pages]
    /\ UNCHANGED <<task, space, refs, stage>>

Refuse == call.op \in Execs /\ call.step \in {"path", "image"} /\ Abandon

vm64_create_space ==
    /\ call.op \in Execs /\ call.step = "image" /\ FreeSpaces # {}
    /\ LET s == Lowest(FreeSpaces)
       IN  /\ space' = [space EXCEPT ![s] = [NoSpace EXCEPT !.on = TRUE]]
           /\ call' = [call EXCEPT !.step = "load", !.s = s]
    /\ UNCHANGED <<task, refs, held, stage>>

\* A page of a segment, of the stack at the end: allocated and mapped.
AllocMap(s) ==
    LET f == Lowest(FreeFrames)
    IN  /\ FreeFrames # {}
        /\ refs' = [refs EXCEPT ![f] = 1]
        /\ space' = [space EXCEPT ![s].pte = Append(@, f)]

elf64_load ==
    /\ call.op # "none" /\ call.step = "load" /\ call.left > 0
    /\ AllocMap(call.s)
    /\ call' = [call EXCEPT !.left = @ - 1]
    /\ UNCHANGED <<task, held, stage>>

Loaded ==
    /\ call.op # "none" /\ call.step = "load" /\ call.left = 0
    /\ call' = [call EXCEPT !.step = "stack", !.left = IF call.op = "spawn" THEN SPAWN_STACK_PAGES ELSE 1]
    /\ UNCHANGED <<task, space, refs, held, stage>>

MapStack ==
    /\ call.op # "none" /\ call.step = "stack" /\ call.left > 0
    /\ AllocMap(call.s)
    /\ call' = [call EXCEPT !.left = @ - 1]
    /\ UNCHANGED <<task, held, stage>>

\* No page, no page table, or (execve) no room for the vectors on the stack.
LoadFails ==
    /\ call.op \in Execs
    /\ call.step \in {"load", "stack"} /\ (call.left > 0 \/ call.op = "execve")
    /\ Abandon

\* The vectors fit the first stack page and are copied there.
posix_process_build_stack ==
    /\ call.op = "execve" /\ call.step = "stack" /\ call.left = 0
    /\ call' = [call EXCEPT !.step = "built"]
    /\ UNCHANGED <<task, space, refs, held, stage>>

\* What the new image keeps: exec64 also drops the profile.
Replaced(t) ==
    [task[t] EXCEPT !.fds = @ \ {"cloexec"}, !.handles = FALSE, !.space = call.s,
                    !.cwd = IF call.op = "exec" THEN 0 ELSE @]

\* Nothing fails from here.
Commit ==
    LET t == call.t
        old == task[t].space
    IN  /\ \/ call.op = "exec" /\ call.step = "stack" /\ call.left = 0
           \/ call.op = "execve" /\ call.step = "built"
        /\ task' = [task EXCEPT ![t] = Replaced(t)]
        /\ held' = IF call.op = "exec" THEN posix_profile_release(Give(call.node), t)
                   ELSE Give(call.node)
        /\ refs' = Freed(refs, space[old].pte)
        /\ space' = vm64_destroy_space(space, old)
        /\ stage' = FALSE /\ call' = Idle

-----------------------------------------------------------------------------
(* spawn64_image and fork64.                                                  *)

FreeSlots == {t \in Slots : ~task[t].on}

\* task_alloc_slot, then the space, which the context owns at once.
spawn64_image(pages) ==
    /\ call = Idle /\ FreeSlots # {} /\ FreeSpaces # {}
    /\ LET t == Lowest(FreeSlots)
           s == Lowest(FreeSpaces)
       IN  /\ task' = [task EXCEPT ![t] = [NoTask EXCEPT !.on = TRUE, !.valid = TRUE, !.space = s]]
           /\ space' = [space EXCEPT ![s] = [NoSpace EXCEPT !.on = TRUE]]
           /\ call' = [op |-> "spawn", t |-> t, step |-> "load", s |-> s, node |-> 0, left |-> pages]
    /\ UNCHANGED <<refs, held, stage>>

\* A failed stack returns its pages one by one and then frees the slot, whose
\* tables still map them.
Stacked == IF call.step # "stack" THEN <<>>
           ELSE SubSeq(space[call.s].pte, Len(space[call.s].pte) - (SPAWN_STACK_PAGES - call.left) + 1,
                       Len(space[call.s].pte))
SpawnFails ==
    /\ call.op = "spawn" /\ call.left > 0
    /\ task_free_slot(call.t, Freed(refs, Stacked))
    /\ call' = Idle /\ UNCHANGED stage

\* posix_profile_admit takes the root when the image asks for it.
posix_profile_admit(admit) ==
    /\ call.op = "spawn" /\ call.step = "stack" /\ call.left = 0
    /\ task' = [task EXCEPT ![call.t].cwd = IF admit THEN 1 ELSE 0]
    /\ held' = IF admit THEN [held EXCEPT ![1] = @ + 1] ELSE held
    /\ call' = Idle
    /\ UNCHANGED <<space, refs, stage>>

\* There is no root to take: the slot goes, with everything it maps.
ProfileRefused ==
    /\ call.op = "spawn" /\ call.step = "stack" /\ call.left = 0
    /\ task_free_slot(call.t, refs)
    /\ call' = Idle /\ UNCHANGED stage

\* fork64: the pages upto are copied before the page tables run out.
fork64(p, upto) ==
    /\ call = Idle /\ task[p].on /\ task[p].valid /\ FreeSlots # {} /\ FreeSpaces # {}
    /\ LET t == Lowest(FreeSlots)
           s == Lowest(FreeSpaces)
           q == SubSeq(space[task[p].space].pte, 1, upto)
       IN  /\ upto <= Len(space[task[p].space].pte)
           /\ refs' = [f \in Frames |-> refs[f] + Times(q, f)]
           /\ space' = [space EXCEPT ![s] = [on |-> TRUE, pte |-> q]]
           /\ task' = [task EXCEPT ![t] = [NoTask EXCEPT !.on = TRUE]]
           /\ call' = [op |-> "fork", t |-> t, p |-> p, s |-> s, node |-> 0,
                       step |-> IF q = space[task[p].space].pte THEN "cloned" ELSE "broken"]
    /\ UNCHANGED <<held, stage>>

\* vm64_clone_space gives its copy back, fork64 the slot.
CloneFails ==
    /\ call.op = "fork" /\ call.step = "broken"
    /\ refs' = Freed(refs, space[call.s].pte)
    /\ space' = vm64_destroy_space(space, call.s)
    /\ task' = [task EXCEPT ![call.t] = NoTask]
    /\ call' = Idle /\ UNCHANGED <<held, stage>>

\* The context is the parent's copy until the space is set.
ForkContext ==
    /\ call.op = "fork" /\ call.step = "cloned"
    /\ task' = [task EXCEPT ![call.t].valid = TRUE, ![call.t].space = call.s]
    /\ call' = [call EXCEPT !.step = "fds"]
    /\ UNCHANGED <<space, refs, held, stage>>

\* posix_fd_fork, then posix_profile_fork; either may refuse.
posix_fd_fork ==
    /\ call.op = "fork" /\ call.step = "fds"
    /\ task' = [task EXCEPT ![call.t].fds = task[call.p].fds]
    /\ call' = [call EXCEPT !.step = "profile"]
    /\ UNCHANGED <<space, refs, held, stage>>

posix_profile_fork ==
    LET n == task[call.p].cwd
    IN  /\ call.op = "fork" /\ call.step = "profile"
        /\ task' = [task EXCEPT ![call.t].cwd = n]
        /\ held' = IF n = 0 THEN held ELSE [held EXCEPT ![n] = @ + 1]
        /\ call' = Idle
        /\ UNCHANGED <<space, refs, stage>>

ForkFails ==
    /\ call.op = "fork" /\ call.step \in {"fds", "profile"}
    /\ task_free_slot(call.t, refs)
    /\ call' = Idle /\ UNCHANGED stage

-----------------------------------------------------------------------------
(* Between the calls.                                                         *)

\* A task opens descriptors and handles, and changes its directory.
Open(t, d) ==
    /\ call = Idle /\ task[t].on
    /\ task' = [task EXCEPT ![t].fds = @ \cup {d}, ![t].handles = TRUE]
    /\ UNCHANGED <<space, refs, held, stage, call>>

posix_profile_chdir(t, n) ==
    /\ call = Idle /\ task[t].on /\ task[t].cwd # 0
    /\ held' = [posix_profile_release(held, t) EXCEPT ![n] = @ + 1]
    /\ task' = [task EXCEPT ![t].cwd = n]
    /\ UNCHANGED <<space, refs, stage, call>>

\* A dead task's slot is freed.
Reap(t) ==
    /\ call = Idle /\ task[t].on
    /\ task_free_slot(t, refs)
    /\ UNCHANGED <<stage, call>>

Next ==
    \/ \E t \in Slots : posix_execve64(t) \/ exec64(t) \/ Reap(t)
    \/ \E t \in Slots, d \in Fds : Open(t, d)
    \/ \E t \in Slots, n \in Nodes : posix_profile_chdir(t, n)
    \/ \E n \in Nodes, k \in ImagePages : Resolve(n, k)
    \/ Refuse \/ vm64_create_space \/ elf64_load \/ Loaded \/ MapStack \/ LoadFails
    \/ posix_process_build_stack \/ Commit
    \/ \E k \in ImagePages : spawn64_image(k)
    \/ SpawnFails \/ ProfileRefused \/ (\E a \in BOOLEAN : posix_profile_admit(a))
    \/ \E p \in Slots, k \in 0 .. Cardinality(Frames) : fork64(p, k)
    \/ CloneFails \/ ForkContext \/ posix_fd_fork \/ posix_profile_fork \/ ForkFails

-----------------------------------------------------------------------------
(* Properties.                                                                *)

\* Whatever step of a spawn, fork or exec failed, when the call is over every
\* address space belongs to exactly one task, every frame is counted once for
\* each page that maps it, every node reference has a working directory behind
\* it, and the staging lock is free: nothing leaks and nothing is freed twice.
ImagesExact ==
    call = Idle =>
      /\ ~stage
      /\ \A s \in Spaces : Cardinality({t \in Slots : task[t].valid /\ task[t].space = s})
                             = IF space[s].on THEN 1 ELSE 0
      /\ \A f \in Frames : refs[f] = Cardinality({<<s, i>> \in Spaces \X (1 .. Cardinality(Frames)) :
                                                   i \in DOMAIN space[s].pte /\ space[s].pte[i] = f})
      /\ \A n \in Nodes : held[n] = Cardinality({t \in Slots : task[t].cwd = n})

\* An exec that ends replaces the image and sheds the handles and the
\* close-on-exec descriptors, or it fails and the caller still has its old
\* space, with the same pages, its descriptors, handles and directory.
ExecStep ==
    call.op \in Execs /\ call'.op = "none" =>
      LET t == call.t
      IN  \/ /\ task'[t].space # call.was.space /\ ~space'[call.was.space].on
             /\ task'[t].fds = call.was.fds \ {"cloexec"} /\ ~task'[t].handles
          \/ /\ task'[t] = call.was
             /\ space'[call.was.space].on /\ space'[call.was.space].pte = call.pages
=============================================================================
