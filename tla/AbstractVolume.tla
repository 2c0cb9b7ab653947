--------------------------- MODULE AbstractVolume ---------------------------
(***************************************************************************)
(* What AdytumFS promises across crashes.  A volume has a window, which    *)
(* operations edit, and a durable content, which a reboot goes back to.    *)
(* An operation concerns one file (a rename over a file, one more), and    *)
(* the durable content only ever moves to the window as a whole.           *)
(***************************************************************************)
CONSTANTS Inodes, Names

VARIABLES window, durable

\* a and b differ in file i at most.
SameBut(a, b, i) == \A k \in Inodes \ {i} : a.files[k] = b.files[k]

\* Every name that differs belongs to file i or j.
NamesBut(a, b, i, j) ==
    \A n \in Names :
        a.names[n] = b.names[n] \/ {a.names[n], b.names[n]} \subseteq {0, i, j}

Init == window = durable

\* An operation on file i, with the commits it makes on its way.
Operation(i, j) ==
    /\ SameBut(window, window', i) /\ NamesBut(window, window', i, j)
    /\ \/ durable' = durable
       \/ /\ SameBut(durable', window', i)
          /\ durable'.names \in {window.names, window'.names}

\* The window ends, committed or lost.
Close == durable' \in {durable, window} /\ window' = durable'

Next == Close \/ \E i, j \in Inodes : Operation(i, j)

Spec == Init /\ [][Next]_<<window, durable>>

=============================================================================
