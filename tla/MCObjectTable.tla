-------------------------- MODULE MCObjectTable ---------------------------
(***************************************************************************)
(* ObjectTable for TLC.  A behaviour has one of two scopes:                *)
(*   cpus    two CPUs and the handles of one task: counts, callbacks,      *)
(*           revokes and exits in every interleaving;                      *)
(*   rights  one CPU and two tasks with one handle each: duplications,     *)
(*           rights and the generations of a slot.                         *)
(***************************************************************************)
EXTENDS ObjectTable

CONSTANTS bsp, ap, t1, t2, p1, p2, wait, transfer

VARIABLE scope

InScope ==
    /\ scope' = scope
    /\ scope = "cpus" =>
          /\ stale' = None
          /\ \A h \in Slots : handle'[h] # None =>
                h[1] = t1 /\ rights'[h] = {transfer}
    /\ scope = "rights" =>
          /\ \A h \in Slots : handle'[h] # None => h[2] = 1
          /\ \A o \in Objects : active'[o] => o = 1
          /\ place'[p2] = None
          /\ op'[ap] = Idle /\ pend'[ap] = None
          /\ created' < MaxCreate

MCInit == Init /\ scope \in {"cpus", "rights"}

MCSpec ==
    /\ MCInit
    /\ [][Next /\ InScope]_<<vars, scope>>
    /\ Fairness
============================================================================
