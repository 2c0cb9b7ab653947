----------------------------- MODULE IpcProofs -----------------------------
(***************************************************************************)
(* For every number of tasks, generations and timeouts and every width of  *)
(* the clock: a parked task waits for somebody who lives and has not       *)
(* offered yet, the parked sends form no cycle, and a call answers what    *)
(* happened.                                                               *)
(***************************************************************************)
EXTENDS Ipc, FiniteSetTheorems, NaturalsInduction, WellFoundedInduction, TLAPS

\* The deadline of a timed send is the rest of its timeout away.
OnTime(s) ==
    state[s] = "send" /\ timed[s] =>
        /\ left[s] \in 1 .. (Wrap \div 2 - 1)
        /\ send_deadline[s] = Deadline(timer_ticks, left[s])

\* A parked send or receive has its fields set, its answer open and a live
\* partner.
ParkedOK(s) ==
    /\ state[s] = "send" =>
          /\ pending[s] /\ send_to[s] \in Pids /\ Live(send_to[s])
          /\ call[s] = "send" /\ copies[s] = 0 /\ rax[s] = "0"
    /\ state[s] = "recv" =>
          /\ recv_buf[s] /\ (recv_expect[s] = Any \/ Live(recv_expect[s]))
          /\ call[s] = "recv" /\ got[s] = 0

\* A task outside a call has no answer pending, a slot without a task no call.
IdleOK(s) ==
    /\ call[s] = "none" => copies[s] = 0 /\ got[s] = 0 /\ ~broken[s]
    /\ state[s] \in {"zombie", "free"} => call[s] = "none"

\* The answer of a call that is over and that no stop broke, and of a send
\* that timed out.
AnswerOK(s) ==
    /\ ~broken[s] /\ state[s] \in {"running", "stopped"} =>
          /\ call[s] = "send" => (rax[s] = "0" <=> copies[s] = 1)
          /\ call[s] = "recv" => (rax[s] = "0" <=> got[s] = 1)
    /\ call[s] = "send" /\ rax[s] = "ETIMEDOUT" => left[s] = 0

SlotOK(s) == OnTime(s) /\ ParkedOK(s) /\ IdleOK(s) /\ AnswerOK(s)

SlotsOK == \A s \in Slots : SlotOK(s)

IpcInv == TypeOK /\ SlotsOK /\ NoMissedRendezvous /\ SendsAcyclic

----------------------------------------------------------------------------
(***************************************************************************)
(* The clock.                                                              *)
(***************************************************************************)
\* Division with remainder, for either sign.
LEMMA DivMod ==
    ASSUME NEW w \in Nat \ {0}, NEW a \in Int
    PROVE  /\ a = w * (a \div w) + (a % w)
           /\ a % w \in 0 .. w - 1 /\ a \div w \in Int
  BY SMT

\* A number that differs from r by a multiple k of w has remainder r.
LEMMA Remainder ==
    ASSUME NEW w \in Nat \ {0}, NEW a \in Int, NEW k \in Int,
           NEW r \in 0 .. w - 1, a = w * k + r
    PROVE  a % w = r
  <1> DEFINE q == a \div w
             m == a % w
  <1>1. a = w * q + m /\ m \in 0 .. w - 1 /\ q \in Int
    BY DivMod
  <1> HIDE DEF q, m
  <1>2. w * (q - k) = r - m
    BY <1>1
  <1>3. r - m < w /\ r - m > -w
    BY <1>1
  <1>4. q - k <= 0
    <2>1. SUFFICES ASSUME q - k >= 1 PROVE FALSE
      BY <1>1
    <2>2. w * (q - k) >= w
      BY <1>1, <2>1
    <2> QED BY <1>1, <1>2, <1>3, <2>2
  <1>5. q - k >= 0
    <2>1. SUFFICES ASSUME q - k <= -1 PROVE FALSE
      BY <1>1
    <2>2. w * (q - k) <= -w
      BY <1>1, <2>1
    <2> QED BY <1>1, <1>2, <1>3, <2>2
  <1>6. q - k = 0
    BY <1>1, <1>4, <1>5
  <1>7. r = m
    BY <1>1, <1>2, <1>6
  <1> QED BY <1>7 DEF m

\* The remainders of numbers up to one turn away.
LEMMA Turns ==
    ASSUME NEW w \in Nat \ {0}, NEW a \in Int
    PROVE  /\ a \in 0 .. w - 1 => a % w = a
           /\ a \in w .. 2 * w - 1 => a % w = a - w
           /\ a \in -w .. -1 => a % w = a + w
  <1>1. ASSUME a \in 0 .. w - 1 PROVE a % w = a
    <2>1. a = w * 0 + a
      OBVIOUS
    <2> QED BY <1>1, <2>1, Remainder
  <1>2. ASSUME a \in w .. 2 * w - 1 PROVE a % w = a - w
    <2>1. a = w * 1 + (a - w) /\ a - w \in 0 .. w - 1
      BY <1>2
    <2> QED BY <2>1, Remainder
  <1>3. ASSUME a \in -w .. -1 PROVE a % w = a + w
    <2>1. a = w * (-1) + (a + w) /\ a + w \in 0 .. w - 1
      BY <1>3
    <2> QED BY <2>1, Remainder
  <1> QED BY <1>1, <1>2, <1>3

\* Half the width of the clock.
LEMMA HalfWrap ==
    Wrap \in Nat \ {0} /\ Wrap \div 2 \in Nat /\ Wrap = 2 * (Wrap \div 2)
  BY TicksAssumption

\* A timeout is less than half the clock.
LEMMA TimeoutsBound ==
    ASSUME NEW n \in Timeouts
    PROVE  n \in 0 .. (Wrap \div 2 - 1) /\ n \in 0 .. Wrap
  <1>1. n \in 0 .. (Wrap \div 2 - 1)
    BY TicksAssumption
  <1> QED BY <1>1, HalfWrap

\* The times are closed under ticks and deadlines.
LEMMA TimesClosed ==
    ASSUME NEW t \in Times, NEW n \in Nat
    PROVE  NextTick(t) \in Times /\ Deadline(t, n) \in Times
  BY HalfWrap, DivMod DEF Times, NextTick, Deadline

\* A deadline n ticks away comes one tick nearer with each tick, and it has
\* come exactly when one tick was left.
LEMMA TickNearer ==
    ASSUME NEW t \in Times, NEW n \in 1 .. (Wrap \div 2 - 1)
    PROVE  /\ Before(NextTick(t), Deadline(t, n)) <=> n # 1
           /\ Deadline(NextTick(t), n - 1) = Deadline(t, n)
  <1> DEFINE h == Wrap \div 2
             w == Wrap
             u == (t + 1) % w
             d == (t + n) % w
  <1>0. w \in Nat \ {0} /\ h \in Nat /\ w = 2 * h
    BY HalfWrap
  <1>1. t \in 0 .. w - 1 /\ n \in 1 .. h - 1
    BY DEF Times
  <1>6. \A a \in Int :
           /\ a \in 0 .. w - 1 => a % w = a
           /\ a \in w .. 2 * w - 1 => a % w = a - w
           /\ a \in -w .. -1 => a % w = a + w
    BY Zenon, <1>0, Turns
  <1>2. u = IF t + 1 < w THEN t + 1 ELSE t + 1 - w
    <2>1. t + 1 \in 0 .. w - 1 \/ t + 1 \in w .. 2 * w - 1
      BY <1>0, <1>1
    <2> HIDE DEF w, h
    <2> QED BY <1>0, <1>1, <1>6, <2>1
  <1>3. d = IF t + n < w THEN t + n ELSE t + n - w
    <2>1. t + n \in 0 .. w - 1 \/ t + n \in w .. 2 * w - 1
      BY <1>0, <1>1
    <2> HIDE DEF w, h
    <2> QED BY <1>0, <1>1, <1>6, <2>1
  <1>4. (u + (n - 1)) % w = d
    <2> DEFINE e == u + (n - 1)
    <2>1. /\ e \in 0 .. w - 1 \/ e \in w .. 2 * w - 1
          /\ e \in 0 .. w - 1 => e = d
          /\ e \in w .. 2 * w - 1 => e - w = d
      <3> HIDE DEF w, h, u, d
      <3> QED BY <1>0, <1>1, <1>2, <1>3
    <2>2. e \in Int
      BY <1>0, <1>1, <1>2
    <2>3. e % w = d
      <3> HIDE DEF w, h, u, d, e
      <3> QED BY <1>0, <1>6, <2>1, <2>2
    <2> QED BY <2>3
  <1>5. ((u - d) % w >= h) <=> n # 1
    <2>1. /\ u - d \in 0 .. w - 1 \/ u - d \in -w .. -1
          /\ u - d \in 0 .. w - 1 => (u - d >= h <=> n # 1)
          /\ u - d \in -w .. -1 => (u - d + w >= h <=> n # 1)
      <3> HIDE DEF w, h, u, d
      <3> QED BY <1>0, <1>1, <1>2, <1>3
    <2>2. u - d \in Int
      BY <1>0, <1>1, <1>2, <1>3
    <2> HIDE DEF w, h, u, d
    <2> QED BY <1>0, <1>6, <2>1, <2>2
  <1> QED BY <1>4, <1>5 DEF Before, NextTick, Deadline

----------------------------------------------------------------------------
(***************************************************************************)
(* What a step leaves as it is.                                            *)
(***************************************************************************)
\* A set of slots has a least one.
LEMMA MinOfSlots ==
    ASSUME NEW S \in SUBSET Slots, S # {}
    PROVE  Min(S) \in S
  <1> DEFINE R == OpToRel(<, Nat)
  <1>1. S \subseteq Nat
    BY SlotsAssumption
  <1>2. IsWellFoundedOn(R, Nat)
    BY NatLessThanWellFounded, Zenon
  <1>3. PICK x \in S : \A y \in S : <<y, x>> \notin R
    BY ONLY WFMin, <1>1, <1>2, S # {}, Zenon
  <1>4. ASSUME NEW y \in S
        PROVE  x <= y
    <2>1. x \in Nat /\ y \in Nat /\ <<y, x>> \notin R
      BY <1>1, <1>3, Zenon
    <2>2. ~(y < x)
      BY <2>1 DEF OpToRel
    <2> HIDE DEF R
    <2> QED BY <2>1, <2>2
  <1>5. \E z \in S : \A y \in S : z <= y
    BY <1>3, <1>4, Zenon
  <1> HIDE DEF R
  <1> QED BY <1>5 DEF Min

\* The step leaves the fields of slot s alone.
Untouched(s) ==
    /\ state'[s] = state[s]
    /\ send_to'[s] = send_to[s] /\ pending'[s] = pending[s]
    /\ timed'[s] = timed[s] /\ send_deadline'[s] = send_deadline[s]
    /\ recv_buf'[s] = recv_buf[s] /\ recv_expect'[s] = recv_expect[s]
    /\ rax'[s] = rax[s] /\ call'[s] = call[s] /\ copies'[s] = copies[s]
    /\ got'[s] = got[s] /\ broken'[s] = broken[s] /\ left'[s] = left[s]

\* The task slot s is parked on is there after the step.
PartnerStays(s) ==
    /\ state[s] = "send" => Live(send_to[s]) /\ Live(send_to[s])'
    /\ state[s] = "recv" => recv_expect[s] = Any \/ Live(recv_expect[s])'

\* A slot nobody touches is as good as before when its partner stays.
LEMMA UntouchedOK ==
    ASSUME NEW s \in Slots, SlotOK(s), Untouched(s), PartnerStays(s),
           timer_ticks' = timer_ticks
    PROVE  SlotOK(s)'
  <1>1. OnTime(s)'
    BY DEF SlotOK, OnTime, Untouched
  <1>2. ParkedOK(s)'
    BY DEF SlotOK, ParkedOK, Untouched, PartnerStays
  <1>3. IdleOK(s)' /\ AnswerOK(s)'
    BY DEF SlotOK, IdleOK, AnswerOK, Untouched
  <1> QED BY <1>1, <1>2, <1>3 DEF SlotOK

\* Partners stay when no task dies and no slot changes its generation.
LEMMA NobodyDies ==
    ASSUME TypeOK, SlotsOK, NEW s \in Slots, Untouched(s), gen' = gen,
           \A x \in Slots : state[x] \notin {"free", "zombie"} =>
                               state'[x] \notin {"free", "zombie"}
    PROVE  PartnerStays(s)
  <1>1. ASSUME NEW q \in Pids, Live(q)
        PROVE  Live(q)'
    BY <1>1 DEF Live, Pids
  <1>2. recv_expect[s] \in Pids \cup {Any}
    BY DEF TypeOK
  <1>3. ParkedOK(s)
    BY DEF SlotsOK, SlotOK
  <1>4. state[s] = "send" => Live(send_to[s]) /\ Live(send_to[s])'
    BY <1>1, <1>3 DEF ParkedOK, Untouched, Live
  <1>5. state[s] = "recv" => recv_expect[s] = Any \/ Live(recv_expect[s])'
    BY <1>1, <1>2, <1>3 DEF ParkedOK, Untouched, Live
  <1> QED BY <1>4, <1>5 DEF PartnerStays

\* The tasks that are parked after the step were parked the same way before.
NobodyParks ==
    \A x \in Slots : state'[x] \in {"send", "recv"} =>
        /\ state'[x] = state[x] /\ gen'[x] = gen[x]
        /\ send_to'[x] = send_to[x]
        /\ recv_buf'[x] = recv_buf[x] /\ recv_expect'[x] = recv_expect[x]

\* Then no rendezvous is missed and no cycle closed by the step.
LEMMA NobodyParksOK ==
    ASSUME NoMissedRendezvous, SendsAcyclic, NobodyParks
    PROVE  NoMissedRendezvous' /\ SendsAcyclic'
  <1>1. NoMissedRendezvous'
    <2> SUFFICES ASSUME NEW s \in Slots, NEW r \in Slots,
                        state'[s] = "send", send_to'[s] = <<r, gen'[r]>>,
                        state'[r] = "recv", recv_buf'[r],
                        recv_expect'[r] \in {Any, <<s, gen'[s]>>}
                 PROVE  FALSE
      BY DEF NoMissedRendezvous, Accepts, Pid
    <2>1. /\ state[s] = "send" /\ gen'[s] = gen[s] /\ send_to'[s] = send_to[s]
          /\ state[r] = "recv" /\ gen'[r] = gen[r]
          /\ recv_buf[r] /\ recv_expect'[r] = recv_expect[r]
      BY DEF NobodyParks
    <2> QED BY <2>1 DEF NoMissedRendezvous, Accepts, Pid
  <1>2. SendsAcyclic'
    <2> SUFFICES ASSUME NEW S \in (SUBSET Slots) \ {{}}
                 PROVE  \E s \in S :
                            state'[s] = "send" => send_to'[s][1] \notin S
      BY DEF SendsAcyclic
    <2>1. PICK s \in S : state[s] = "send" => send_to[s][1] \notin S
      BY DEF SendsAcyclic
    <2> QED BY <2>1 DEF NobodyParks
  <1> QED BY <1>1, <1>2

----------------------------------------------------------------------------
(***************************************************************************)
(* One lemma per operation.                                                *)
(***************************************************************************)
\* A call that returns at once.
LEMMA RefuseInv ==
    ASSUME IpcInv, NEW s \in Slots, Ready(s), NEW op \in {"send", "recv"},
           NEW answer \in Answers \ {"0", "ETIMEDOUT"}, Refuse(s, op, answer)
    PROVE  IpcInv'
  <1>1. TypeOK'
    BY DEF IpcInv, TypeOK, Refuse, task, send, recv
  <1>2. ASSUME NEW x \in Slots
        PROVE  SlotOK(x)'
    <2>1. CASE x = s
      <3>1. /\ state'[s] = "running" /\ call'[s] = op /\ rax'[s] = answer
            /\ copies'[s] = copies[s] /\ got'[s] = got[s]
        BY DEF IpcInv, TypeOK, Refuse, Ready, task
      <3>2. copies[s] = 0 /\ got[s] = 0
        BY DEF IpcInv, SlotsOK, SlotOK, IdleOK, Ready
      <3> QED BY <2>1, <3>1, <3>2
              DEF SlotOK, OnTime, ParkedOK, IdleOK, AnswerOK
    <2>2. CASE x # s
      <3>1. Untouched(x) /\ gen' = gen /\ state' = state
            /\ timer_ticks' = timer_ticks
        BY <2>2 DEF IpcInv, TypeOK, Untouched, Refuse, task, send, recv
      <3> QED BY <3>1, NobodyDies, UntouchedOK DEF IpcInv, SlotsOK
    <2> QED BY <2>1, <2>2
  <1>3. NobodyParks
    BY DEF NobodyParks, Refuse, task, send, recv
  <1> QED BY <1>1, <1>2, <1>3, NobodyParksOK DEF IpcInv, SlotsOK

\* A send that finds its receiver parked.
LEMMA SendMeetsInv ==
    ASSUME IpcInv, NEW s \in Slots, NEW dest \in Pids, SendMeets(s, dest)
    PROVE  IpcInv'
  <1> DEFINE r == dest[1]
  <1>1. r \in Slots /\ r # s
    BY DEF SendMeets, Pids
  <1>2. PICK copied \in BOOLEAN :
          /\ copies' = [copies EXCEPT ![s] = Count(0, copied)]
          /\ got' = [got EXCEPT ![r] = Count(got[r], copied)]
          /\ recv_buf' = [recv_buf EXCEPT ![r] = FALSE]
          /\ recv_expect' = [recv_expect EXCEPT ![r] = Any]
          /\ state' = [state EXCEPT ![r] = "running"]
          /\ rax' = Set(rax, {r, s}, Answer(copied))
          /\ call' = [call EXCEPT ![s] = "send"]
          /\ UNCHANGED <<gen, send, timer_ticks, broken, left>>
    BY Zenon DEF SendMeets, SendNow
  <1>3. /\ state[s] = "running" /\ call[s] = "none" /\ copies[s] = 0
        /\ state[r] = "recv" /\ call[r] = "recv" /\ got[r] = 0
    BY <1>1 DEF SendMeets, Ready, Accepts, IpcInv, SlotsOK, SlotOK, IdleOK,
                ParkedOK
  <1> HIDE DEF r
  <1>4. TypeOK'
    BY <1>1, <1>2, <1>3 DEF IpcInv, TypeOK, send, Set, Answer, Count, Answers,
                            States
  <1>5. ASSUME NEW x \in Slots
        PROVE  SlotOK(x)'
    <2>1. CASE x = s
      <3>1. /\ state'[s] = "running" /\ call'[s] = "send"
            /\ copies'[s] = Count(0, copied) /\ rax'[s] = Answer(copied)
        BY <1>1, <1>2, <1>3 DEF IpcInv, TypeOK, Set
      <3> QED BY <2>1, <3>1 DEF SlotOK, OnTime, ParkedOK, IdleOK, AnswerOK,
                                Count, Answer
    <2>2. CASE x = r
      <3>1. /\ state'[r] = "running" /\ call'[r] = "recv"
            /\ got'[r] = Count(0, copied) /\ rax'[r] = Answer(copied)
        BY <1>1, <1>2, <1>3 DEF IpcInv, TypeOK, Set
      <3> QED BY <2>2, <3>1 DEF SlotOK, OnTime, ParkedOK, IdleOK, AnswerOK,
                                Count, Answer
    <2>3. CASE x \notin {r, s}
      <3>1. Untouched(x) /\ gen' = gen /\ timer_ticks' = timer_ticks
        BY <1>2, <2>3, Zenon DEF IpcInv, TypeOK, Untouched, Set, send
      <3>2. \A y \in Slots : state[y] \notin {"free", "zombie"} =>
                                state'[y] \notin {"free", "zombie"}
        BY <1>2 DEF IpcInv, TypeOK
      <3> QED BY <3>1, <3>2, NobodyDies, UntouchedOK DEF IpcInv, SlotsOK
    <2> QED BY <2>1, <2>2, <2>3
  <1>6. NobodyParks
    BY <1>1, <1>2, Zenon DEF NobodyParks, send, IpcInv, TypeOK
  <1> QED BY <1>4, <1>5, <1>6, NobodyParksOK DEF IpcInv, SlotsOK

\* A send that closes a cycle releases its members and goes on itself.
LEMMA SendDeadlocksInv ==
    ASSUME IpcInv, NEW s \in Slots, NEW dest \in Pids, SendDeadlocks(s, dest)
    PROVE  IpcInv'
  <1> DEFINE R == Chain(s, dest[1])
  <1>1. /\ send_to' = Set(send_to, R, Any)
        /\ pending' = Set(pending, R, FALSE)
        /\ timed' = Set(timed, R, FALSE)
        /\ send_deadline' = Set(send_deadline, R, 0)
        /\ state' = Set(state, R, "running")
        /\ rax' = Set(rax, R \cup {s}, "EDEADLK")
        /\ call' = [call EXCEPT ![s] = "send"]
        /\ UNCHANGED <<gen, recv, timer_ticks, copies, got, broken, left>>
    BY DEF SendDeadlocks, EndSends
  <1>2. \A x \in R : state[x] = "send" /\ x # s
    BY DEF Chain
  <1>3. state[s] = "running" /\ call[s] = "none"
    BY DEF SendDeadlocks, Ready
  <1> HIDE DEF R
  <1>4. TypeOK'
    <2>1. 0 \in Times
      BY HalfWrap DEF Times
    <2> QED BY <1>1, <2>1, Zenon DEF IpcInv, TypeOK, recv, Set, Answers, States
  <1>5. ASSUME NEW x \in Slots
        PROVE  SlotOK(x)'
    <2>0. SlotOK(x)
      BY DEF IpcInv, SlotsOK
    <2>1. CASE x = s \/ x \in R
      <3>1. /\ state'[x] = "running" /\ call'[x] = "send"
            /\ copies'[x] = 0 /\ rax'[x] = "EDEADLK"
        <4>1. copies[x] = 0 /\ (x # s => call[x] = "send")
          BY <1>2, <1>3, <2>0, <2>1 DEF SlotOK, IdleOK, ParkedOK
        <4> QED BY <1>1, <1>2, <1>3, <2>1, <4>1 DEF IpcInv, TypeOK, Set
      <3> QED BY <3>1 DEF SlotOK, OnTime, ParkedOK, IdleOK, AnswerOK
    <2>2. CASE x # s /\ x \notin R
      <3>1. Untouched(x) /\ gen' = gen /\ timer_ticks' = timer_ticks
        BY Zenon, <1>1, <2>2 DEF IpcInv, TypeOK, Untouched, Set, recv
      <3>2. \A y \in Slots : state[y] \notin {"free", "zombie"} =>
                                state'[y] \notin {"free", "zombie"}
        BY <1>1 DEF IpcInv, TypeOK, Set
      <3> QED BY <3>1, <3>2, NobodyDies, UntouchedOK DEF IpcInv, SlotsOK
    <2> QED BY <2>1, <2>2
  <1>6. NobodyParks
    BY <1>1 DEF NobodyParks, recv, IpcInv, TypeOK, Set
  <1> QED BY <1>4, <1>5, <1>6, NobodyParksOK DEF IpcInv, SlotsOK

\* A receive from a task that is gone.
LEMMA RecvProbeInv ==
    ASSUME IpcInv, NEW s \in Slots, NEW expected, RecvProbe(s, expected)
    PROVE  IpcInv'
  <1>1. /\ state[s] = "running" /\ call[s] = "none" /\ got[s] = 0
    BY DEF RecvProbe, Ready, IpcInv, SlotsOK, SlotOK, IdleOK
  <1>2. TypeOK'
    BY <1>1 DEF RecvProbe, IpcInv, TypeOK, task, send, recv, Answers
  <1>3. ASSUME NEW x \in Slots
        PROVE  SlotOK(x)'
    <2>1. CASE x = s
      <3>1. /\ state'[s] = "running" /\ call'[s] = "recv" /\ got'[s] = 1
            /\ rax'[s] = "0"
        BY <1>1 DEF RecvProbe, IpcInv, TypeOK, task
      <3> QED BY <2>1, <3>1 DEF SlotOK, OnTime, ParkedOK, IdleOK, AnswerOK
    <2>2. CASE x # s
      <3>1. Untouched(x) /\ gen' = gen /\ state' = state
            /\ timer_ticks' = timer_ticks
        BY Zenon, <2>2
           DEF IpcInv, TypeOK, Untouched, RecvProbe, task, send, recv
      <3> QED BY <3>1, NobodyDies, UntouchedOK DEF IpcInv, SlotsOK
    <2> QED BY <2>1, <2>2
  <1>4. NobodyParks
    BY DEF NobodyParks, RecvProbe, task, send, recv
  <1> QED BY <1>2, <1>3, <1>4, NobodyParksOK DEF IpcInv, SlotsOK

\* A receive that finds a sender parked.
LEMMA RecvMeetsInv ==
    ASSUME IpcInv, NEW s \in Slots, NEW expected, RecvMeets(s, expected)
    PROVE  IpcInv'
  <1> DEFINE t == Min(Offers(s, expected))
  <1>1. t \in Slots /\ state[t] = "send"
    <2>1. Offers(s, expected) \in SUBSET Slots /\ Offers(s, expected) # {}
      BY DEF RecvMeets, Offers
    <2>2. t \in Offers(s, expected)
      BY <2>1, MinOfSlots
    <2> QED BY <2>2 DEF Offers
  <1>2. /\ copies' = [copies EXCEPT ![t] = copies[t] + 1]
        /\ send_to' = Set(send_to, {t}, Any)
        /\ pending' = Set(pending, {t}, FALSE)
        /\ timed' = Set(timed, {t}, FALSE)
        /\ send_deadline' = Set(send_deadline, {t}, 0)
        /\ state' = [state EXCEPT ![t] = "running"]
        /\ rax' = Set(rax, {s, t}, "0")
        /\ got' = [got EXCEPT ![s] = got[s] + 1]
        /\ call' = [call EXCEPT ![s] = "recv"]
        /\ UNCHANGED <<gen, recv, timer_ticks, broken, left>>
    BY Zenon DEF RecvMeets, EndSends
  <1> HIDE DEF t
  <1>3. /\ state[s] = "running" /\ call[s] = "none" /\ got[s] = 0
        /\ call[t] = "send" /\ copies[t] = 0 /\ s # t
    BY <1>1 DEF RecvMeets, RecvWaits, Ready, IpcInv, SlotsOK, SlotOK, IdleOK,
                ParkedOK
  <1>4. TypeOK'
    <2>1. 0 \in Times
      BY HalfWrap DEF Times
    <2>2. /\ copies' \in [Slots -> 0 .. 1] /\ got' \in [Slots -> 0 .. 1]
          /\ state' \in [Slots -> States]
      BY <1>1, <1>2, <1>3 DEF IpcInv, TypeOK, States
    <2>3. /\ send_to' \in [Slots -> Pids \cup {Any}]
          /\ pending' \in [Slots -> BOOLEAN]
          /\ timed' \in [Slots -> BOOLEAN]
          /\ send_deadline' \in [Slots -> Times]
          /\ rax' \in [Slots -> Answers]
      BY <1>2, <2>1, Zenon DEF IpcInv, TypeOK, Set, Answers
    <2> QED BY <1>2, <2>2, <2>3, Zenon DEF IpcInv, TypeOK, recv
  <1>5. ASSUME NEW x \in Slots
        PROVE  SlotOK(x)'
    <2>1. CASE x = s
      <3>1. /\ state'[s] = "running" /\ call'[s] = "recv" /\ got'[s] = 1
            /\ rax'[s] = "0"
        BY <1>1, <1>2, <1>3 DEF IpcInv, TypeOK, Set
      <3> QED BY <2>1, <3>1 DEF SlotOK, OnTime, ParkedOK, IdleOK, AnswerOK
    <2>2. CASE x = t
      <3>1. /\ state'[t] = "running" /\ call'[t] = "send" /\ copies'[t] = 1
            /\ rax'[t] = "0"
        BY <1>1, <1>2, <1>3 DEF IpcInv, TypeOK, Set
      <3> QED BY <2>2, <3>1 DEF SlotOK, OnTime, ParkedOK, IdleOK, AnswerOK
    <2>3. CASE x # s /\ x # t
      <3>1. Untouched(x) /\ gen' = gen /\ timer_ticks' = timer_ticks
        BY Zenon, <1>2, <2>3 DEF IpcInv, TypeOK, Untouched, Set, recv
      <3>2. \A y \in Slots : state[y] \notin {"free", "zombie"} =>
                                state'[y] \notin {"free", "zombie"}
        BY <1>2 DEF IpcInv, TypeOK
      <3> QED BY <3>1, <3>2, NobodyDies, UntouchedOK DEF IpcInv, SlotsOK
    <2> QED BY <2>1, <2>2, <2>3
  <1>6. NobodyParks
    BY <1>2 DEF NobodyParks, recv, IpcInv, TypeOK, Set
  <1> QED BY <1>4, <1>5, <1>6, NobodyParksOK DEF IpcInv, SlotsOK

\* A receive that finds nobody parks; every sender that could have been
\* taken would have been among the offers.
LEMMA RecvParksInv ==
    ASSUME IpcInv, NEW s \in Slots, NEW expected \in Pids \cup {Any},
           RecvParks(s, expected)
    PROVE  IpcInv'
  <1>1. /\ recv_buf' = [recv_buf EXCEPT ![s] = TRUE]
        /\ recv_expect' = [recv_expect EXCEPT ![s] = expected]
        /\ state' = [state EXCEPT ![s] = "recv"]
        /\ rax' = [rax EXCEPT ![s] = "0"]
        /\ call' = [call EXCEPT ![s] = "recv"]
        /\ UNCHANGED <<gen, send, timer_ticks, copies, got, broken, left>>
    BY Zenon DEF RecvParks
  <1>2. /\ state[s] = "running" /\ call[s] = "none" /\ got[s] = 0
        /\ expected # Any => Live(expected)
    BY DEF RecvParks, RecvWaits, Ready, IpcInv, SlotsOK, SlotOK, IdleOK
  <1>3. TypeOK'
    BY <1>1 DEF IpcInv, TypeOK, send, Answers, States
  <1>4. /\ state'[s] = "recv"
        /\ \A y \in Slots : y # s =>
              /\ state'[y] = state[y] /\ recv_buf'[y] = recv_buf[y]
              /\ recv_expect'[y] = recv_expect[y]
    BY <1>1 DEF IpcInv, TypeOK
  <1>5. ASSUME NEW x \in Slots
        PROVE  SlotOK(x)'
    <2>1. CASE x = s
      <3>1. /\ call'[s] = "recv" /\ rax'[s] = "0" /\ got'[s] = 0
            /\ recv_buf'[s] /\ recv_expect'[s] = expected
        BY <1>1, <1>2 DEF IpcInv, TypeOK
      <3>2. expected # Any => Live(expected)'
        BY <1>1, <1>2, <1>4 DEF Live, Pids
      <3> QED BY Zenon, <2>1, <1>4, <3>1, <3>2
              DEF SlotOK, OnTime, ParkedOK, IdleOK, AnswerOK, Live
    <2>2. CASE x # s
      <3>1. Untouched(x) /\ gen' = gen /\ timer_ticks' = timer_ticks
        BY Zenon, <1>1, <2>2 DEF IpcInv, TypeOK, Untouched, send
      <3>2. \A y \in Slots : state[y] \notin {"free", "zombie"} =>
                                state'[y] \notin {"free", "zombie"}
        BY <1>4
      <3> QED BY <3>1, <3>2, NobodyDies, UntouchedOK DEF IpcInv, SlotsOK
    <2> QED BY <2>1, <2>2
  <1>6. NoMissedRendezvous'
    <2> SUFFICES ASSUME NEW a \in Slots, NEW b \in Slots,
                        state'[a] = "send", send_to[a] = <<b, gen[b]>>,
                        state'[b] = "recv", recv_buf'[b],
                        recv_expect'[b] \in {Any, <<a, gen[a]>>}
                 PROVE  FALSE
      BY <1>1 DEF NoMissedRendezvous, Accepts, Pid, send
    <2>1. a # s /\ state[a] = "send"
      BY <1>4
    <2>2. CASE b = s
      <3>1. pending[a]
        BY <2>1 DEF IpcInv, SlotsOK, SlotOK, ParkedOK
      <3>2. expected \in {Any, <<a, gen[a]>>}
        BY <1>1, <2>2 DEF IpcInv, TypeOK
      <3>3. a \in Offers(s, expected)
        BY <2>1, <2>2, <3>1, <3>2 DEF Offers, Pid
      <3> QED BY <3>3 DEF RecvParks
    <2>3. CASE b # s
      BY <1>4, <2>1, <2>3 DEF IpcInv, NoMissedRendezvous, Accepts, Pid
    <2> QED BY <2>2, <2>3
  <1>7. SendsAcyclic'
    <2> SUFFICES ASSUME NEW S \in (SUBSET Slots) \ {{}}
                 PROVE  \E x \in S :
                            state'[x] = "send" => send_to'[x][1] \notin S
      BY DEF SendsAcyclic
    <2>1. PICK x \in S : state[x] = "send" => send_to[x][1] \notin S
      BY DEF IpcInv, SendsAcyclic
    <2> QED BY <1>1, <1>4, <2>1 DEF send
  <1> QED BY <1>3, <1>5, <1>6, <1>7 DEF IpcInv, SlotsOK

\* The call returns to its task.
LEMMA ResumeInv ==
    ASSUME IpcInv, NEW s \in Slots, Resume(s)
    PROVE  IpcInv'
  <1>1. TypeOK'
    <2>1. 0 \in 0 .. Wrap
      BY HalfWrap
    <2> QED BY <2>1 DEF Resume, IpcInv, TypeOK, task, send, recv, Answers
  <1>2. ASSUME NEW x \in Slots
        PROVE  SlotOK(x)'
    <2>1. CASE x = s
      <3>1. /\ state'[s] = "running" /\ call'[s] = "none" /\ copies'[s] = 0
            /\ got'[s] = 0 /\ broken'[s] = FALSE
        BY DEF Resume, IpcInv, TypeOK, task
      <3> QED BY <2>1, <3>1 DEF SlotOK, OnTime, ParkedOK, IdleOK, AnswerOK
    <2>2. CASE x # s
      <3>1. Untouched(x) /\ gen' = gen /\ state' = state
            /\ timer_ticks' = timer_ticks
        BY Zenon, <2>2 DEF IpcInv, TypeOK, Untouched, Resume, task, send, recv
      <3> QED BY <3>1, NobodyDies, UntouchedOK DEF IpcInv, SlotsOK
    <2> QED BY <2>1, <2>2
  <1>3. NobodyParks
    BY DEF NobodyParks, Resume, task, send, recv
  <1> QED BY <1>1, <1>2, <1>3, NobodyParksOK DEF IpcInv, SlotsOK

\* A timer tick ends exactly the sends that had one tick left.
LEMMA TickInv ==
    ASSUME IpcInv, Tick
    PROVE  IpcInv'
  <1> DEFINE now == NextTick(timer_ticks)
             late == {s \in Slots : /\ state[s] = "send"
                                    /\ timed[s]
                                    /\ ~Before(now, send_deadline[s])}
  <1>1. /\ timer_ticks' = now
        /\ send_to' = Set(send_to, late, Any)
        /\ pending' = Set(pending, late, FALSE)
        /\ timed' = Set(timed, late, FALSE)
        /\ send_deadline' = Set(send_deadline, late, 0)
        /\ state' = Set(state, late, "running")
        /\ rax' = Set(rax, late, "ETIMEDOUT")
        /\ left' = [s \in Slots |->
               IF state[s] = "send" /\ timed[s] /\ left[s] > 0
               THEN left[s] - 1 ELSE left[s]]
        /\ UNCHANGED <<gen, recv, call, copies, got, broken>>
    BY DEF Tick
  <1>2. timer_ticks \in Times /\ now \in Times /\ 0 \in Times
    BY TimesClosed, HalfWrap DEF IpcInv, TypeOK, Times
  <1>3. ASSUME NEW x \in Slots, state[x] = "send", timed[x]
        PROVE  /\ left[x] \in 1 .. (Wrap \div 2 - 1)
               /\ x \in late <=> left[x] = 1
               /\ send_deadline[x] = Deadline(now, left[x] - 1)
    <2>1. /\ left[x] \in 1 .. (Wrap \div 2 - 1)
          /\ send_deadline[x] = Deadline(timer_ticks, left[x])
      BY <1>3 DEF IpcInv, SlotsOK, SlotOK, OnTime
    <2>2. /\ Before(now, send_deadline[x]) <=> left[x] # 1
          /\ Deadline(now, left[x] - 1) = send_deadline[x]
      BY <1>2, <2>1, TickNearer
    <2> QED BY <1>3, <2>1, <2>2
  <1>4. \A x \in late : state[x] = "send" /\ timed[x]
    OBVIOUS
  <1> HIDE DEF now, late
  <1>5. TypeOK'
    <2>1. left \in [Slots -> 0 .. Wrap]
      <3>1. left \in [Slots -> Timeouts \cup 0 .. Wrap]
        BY DEF IpcInv, TypeOK
      <3> QED BY <3>1, TimeoutsBound
    <2>2. left' \in [Slots -> 0 .. Wrap]
      BY <1>1, <2>1, HalfWrap
    <2>3. left' \in [Slots -> Timeouts \cup 0 .. Wrap]
      BY <2>2
    <2>4. /\ state' \in [Slots -> States]
          /\ send_to' \in [Slots -> Pids \cup {Any}]
          /\ pending' \in [Slots -> BOOLEAN]
          /\ timed' \in [Slots -> BOOLEAN]
          /\ send_deadline' \in [Slots -> Times]
          /\ rax' \in [Slots -> Answers]
      BY <1>1, <1>2, Zenon DEF IpcInv, TypeOK, Set, Answers, States
    <2> QED BY Zenon, <1>1, <1>2, <2>3, <2>4 DEF IpcInv, TypeOK, recv
  <1>6. ASSUME NEW x \in Slots
        PROVE  SlotOK(x)'
    <2>0. SlotOK(x) /\ left[x] \in Int
      <3>1. left[x] \in Timeouts \cup 0 .. Wrap
        BY DEF IpcInv, TypeOK
      <3>2. left[x] \in 0 .. Wrap
        BY <3>1, TimeoutsBound
      <3> QED BY <3>2, HalfWrap DEF IpcInv, SlotsOK
    <2>1. CASE x \in late
      <3>1. left[x] = 1 /\ state[x] = "send" /\ timed[x]
        BY <1>3, <1>4, <2>1
      <3>2. /\ state'[x] = "running" /\ call'[x] = call[x]
            /\ copies'[x] = copies[x] /\ rax'[x] = "ETIMEDOUT"
        BY <1>1, <2>1 DEF IpcInv, TypeOK, Set
      <3>3. left'[x] = 0
        BY <1>1, <3>1
      <3>4. call[x] = "send" /\ copies[x] = 0
        BY <2>0, <3>1 DEF SlotOK, ParkedOK
      <3> QED BY <3>2, <3>3, <3>4 DEF SlotOK, OnTime, ParkedOK, IdleOK, AnswerOK
    <2>2. CASE x \notin late
      <3>1. /\ state'[x] = state[x] /\ send_to'[x] = send_to[x]
            /\ pending'[x] = pending[x] /\ timed'[x] = timed[x]
            /\ send_deadline'[x] = send_deadline[x] /\ rax'[x] = rax[x]
            /\ UNCHANGED <<gen, recv_buf, recv_expect, call, copies, got, broken>>
        BY Zenon, <1>1, <2>2 DEF IpcInv, TypeOK, Set, recv
      <3>2. OnTime(x)'
        <4> SUFFICES ASSUME state[x] = "send", timed[x]
                     PROVE  /\ left'[x] \in 1 .. (Wrap \div 2 - 1)
                            /\ send_deadline'[x] = Deadline(timer_ticks', left'[x])
          BY <3>1 DEF OnTime
        <4>1. /\ left[x] \in 1 .. (Wrap \div 2 - 1) /\ left[x] # 1
              /\ send_deadline[x] = Deadline(now, left[x] - 1)
          BY <1>3, <2>2
        <4>2. left'[x] = left[x] - 1
          BY <1>1, <4>1
        <4>3. left[x] - 1 \in 1 .. (Wrap \div 2 - 1)
          BY <4>1, HalfWrap
        <4> QED BY <1>1, <3>1, <4>1, <4>2, <4>3
      <3>3. AnswerOK(x)'
        <4>1. left[x] = 0 => left'[x] = 0
          BY <1>1
        <4> QED BY <2>0, <3>1, <4>1 DEF SlotOK, AnswerOK
      <3>4. IdleOK(x)'
        BY <2>0, <3>1 DEF SlotOK, IdleOK
      <3>5. ParkedOK(x)'
        <4>1. \A y \in Slots : state[y] \notin {"free", "zombie"} =>
                                  state'[y] \notin {"free", "zombie"}
          BY <1>1 DEF IpcInv, TypeOK, Set
        <4>2. ASSUME NEW q \in Pids, Live(q)
              PROVE  Live(q)'
          BY <3>1, <4>1, <4>2 DEF Live, Pids
        <4>3. recv_expect[x] \in Pids \cup {Any}
          BY DEF IpcInv, TypeOK
        <4> QED BY <2>0, <3>1, <4>2, <4>3 DEF SlotOK, ParkedOK, Live
      <3> QED BY <3>2, <3>3, <3>4, <3>5 DEF SlotOK
    <2> QED BY <2>1, <2>2
  <1>7. NobodyParks
    BY Zenon, <1>1 DEF NobodyParks, recv, IpcInv, TypeOK, Set
  <1> QED BY <1>5, <1>6, <1>7, NobodyParksOK DEF IpcInv, SlotsOK

\* A death wakes exactly the tasks parked on the dead one.
LEMMA TaskDiedInv ==
    ASSUME IpcInv, NEW d \in Slots, TaskDied(d)
    PROVE  IpcInv'
  <1> DEFINE P == Senders(d)
             W == Waiters(d)
  <1>1. PICK after \in {"zombie", "free"}, noticed \in SUBSET W :
          /\ after = "free" => gen[d] < GenMax
          /\ state' = [Set(state, P \cup W, "running") EXCEPT ![d] = after]
          /\ gen' = [gen EXCEPT ![d] =
                        IF after = "free" THEN gen[d] + 1 ELSE gen[d]]
          /\ rax' = [s \in Slots |->
                CASE s = d -> "0"
                  [] s \in P -> "ESRCH"
                  [] s \in W -> Answer(s \in noticed)
                  [] OTHER -> rax[s]]
          /\ got' = [s \in Slots |->
                IF s = d THEN 0 ELSE Count(got[s], s \in noticed)]
    BY Zenon DEF TaskDied
  <1>2. /\ send_to' = Set(send_to, P \cup {d}, Any)
        /\ pending' = Set(pending, P \cup {d}, FALSE)
        /\ timed' = Set(timed, P \cup {d}, FALSE)
        /\ send_deadline' = Set(send_deadline, P \cup {d}, 0)
        /\ recv_buf' = Set(recv_buf, W \cup {d}, FALSE)
        /\ recv_expect' = Set(recv_expect, W \cup {d}, Any)
        /\ call' = [call EXCEPT ![d] = "none"]
        /\ copies' = [copies EXCEPT ![d] = 0]
        /\ broken' = [broken EXCEPT ![d] = FALSE]
        /\ left' = [left EXCEPT ![d] = 0]
        /\ timer_ticks' = timer_ticks
    BY Zenon DEF TaskDied, EndSends
  <1>3. /\ P \subseteq Slots /\ \A x \in P : state[x] = "send"
        /\ W \subseteq Slots /\ \A x \in W : state[x] = "recv"
    BY DEF Senders, Waiters
  <1>4. \A x \in Slots : /\ state[x] = "send" /\ send_to[x] = Pid(d) => x \in P
                         /\ state[x] = "recv" /\ recv_buf[x]
                              /\ recv_expect[x] = Pid(d) => x \in W
    BY DEF Senders, Waiters
  <1>5. \A x \in Slots : SlotOK(x)
    BY DEF IpcInv, SlotsOK
  <1>6. \A x \in Slots :
          /\ state[x] = "send" => call[x] = "send" /\ copies[x] = 0
          /\ state[x] = "recv" => call[x] = "recv" /\ got[x] = 0
    BY <1>5 DEF SlotOK, ParkedOK
  <1> HIDE DEF P, W
  <1>7. /\ state'[d] = after
        /\ \A x \in Slots : x # d =>
              /\ x \in P \cup W => state'[x] = "running"
              /\ x \notin P \cup W => state'[x] = state[x]
              /\ gen'[x] = gen[x]
    BY <1>1 DEF IpcInv, TypeOK, Set
  <1>8. TypeOK'
    <2>1. 0 \in Times /\ 0 \in 0 .. Wrap
      BY HalfWrap DEF Times
    <2>2. state' \in [Slots -> States]
      BY <1>1 DEF IpcInv, TypeOK, Set, States
    <2>3. gen' \in [Slots -> 0 .. GenMax]
      BY <1>1, SlotsAssumption DEF IpcInv, TypeOK
    <2>4. rax' \in [Slots -> Answers]
      BY <1>1 DEF IpcInv, TypeOK, Answers, Answer
    <2>5. got' \in [Slots -> 0 .. 1]
      <3> SUFFICES ASSUME NEW x \in Slots
                   PROVE  (IF x = d THEN 0 ELSE Count(got[x], x \in noticed))
                             \in 0 .. 1
        BY <1>1
      <3>1. got[x] \in 0 .. 1
        BY DEF IpcInv, TypeOK
      <3> QED BY <1>3, <1>6, <3>1 DEF Count
    <2>6. /\ send_to' \in [Slots -> Pids \cup {Any}]
          /\ pending' \in [Slots -> BOOLEAN]
          /\ timed' \in [Slots -> BOOLEAN]
          /\ send_deadline' \in [Slots -> Times]
          /\ recv_buf' \in [Slots -> BOOLEAN]
          /\ recv_expect' \in [Slots -> Pids \cup {Any}]
      BY <1>2, <2>1, Zenon DEF IpcInv, TypeOK, Set
    <2>7. /\ call' \in [Slots -> {"none", "send", "recv"}]
          /\ copies' \in [Slots -> 0 .. 1]
          /\ broken' \in [Slots -> BOOLEAN]
          /\ left' \in [Slots -> Timeouts \cup 0 .. Wrap]
          /\ timer_ticks' \in Times
      BY <1>2, <2>1 DEF IpcInv, TypeOK
    <2> QED BY <2>2, <2>3, <2>4, <2>5, <2>6, <2>7 DEF TypeOK
  <1>9. ASSUME NEW x \in Slots
        PROVE  SlotOK(x)'
    <2>1. CASE x = d
      <3>1. /\ state'[d] \in {"zombie", "free"} /\ call'[d] = "none"
            /\ copies'[d] = 0 /\ got'[d] = 0 /\ broken'[d] = FALSE
        BY <1>1, <1>2, <1>7 DEF IpcInv, TypeOK
      <3> QED BY <2>1, <3>1 DEF SlotOK, OnTime, ParkedOK, IdleOK, AnswerOK
    <2>2. CASE x # d /\ x \in P
      <3>1. /\ state'[x] = "running" /\ call'[x] = "send"
            /\ copies'[x] = 0 /\ rax'[x] = "ESRCH"
        BY <1>1, <1>2, <1>3, <1>6, <1>7, <2>2, Zenon DEF IpcInv, TypeOK
      <3> QED BY <3>1 DEF SlotOK, OnTime, ParkedOK, IdleOK, AnswerOK
    <2>3. CASE x # d /\ x \in W
      <3>1. /\ state'[x] = "running" /\ call'[x] = "recv"
            /\ got'[x] = Count(0, x \in noticed)
            /\ rax'[x] = Answer(x \in noticed)
        <4>1. x \notin P
          BY <1>3, <2>3
        <4> QED BY Zenon, <1>1, <1>2, <1>3, <1>6, <1>7, <2>3, <4>1 DEF IpcInv, TypeOK
      <3> QED BY <3>1 DEF SlotOK, OnTime, ParkedOK, IdleOK, AnswerOK, Answer,
                          Count
    <2>4. CASE x # d /\ x \notin P /\ x \notin W
      <3>1. rax'[x] = rax[x] /\ got'[x] = got[x] /\ state'[x] = state[x]
        BY <1>1, <1>7, <2>4 DEF Count
      <3>2. Untouched(x)
        BY Zenon, <1>2, <2>4, <3>1 DEF IpcInv, TypeOK, Untouched, Set
      <3>3. ASSUME NEW q \in Pids, Live(q), q # Pid(d)
            PROVE  Live(q)'
        BY <1>7, <3>3 DEF Live, Pids, Pid
      <3>4. ParkedOK(x)
        BY <1>5 DEF SlotOK
      <3>5. recv_expect[x] \in Pids \cup {Any}
        BY DEF IpcInv, TypeOK
      <3>6. state[x] = "send" => Live(send_to[x]) /\ Live(send_to[x])'
        BY Zenon, <1>4, <2>4, <3>2, <3>3, <3>4 DEF ParkedOK, Untouched, Live
      <3>7. state[x] = "recv" => recv_expect[x] = Any \/ Live(recv_expect[x])'
        BY <1>4, <2>4, <3>2, <3>3, <3>4, <3>5, Zenon DEF ParkedOK, Untouched, Live
      <3> QED BY <1>2, <1>5, <3>2, <3>6, <3>7, UntouchedOK, Zenon DEF PartnerStays
    <2> QED BY <2>1, <2>2, <2>3, <2>4
  <1>10. NobodyParks
    <2> SUFFICES ASSUME NEW x \in Slots, state'[x] \in {"send", "recv"}
                 PROVE  /\ state'[x] = state[x] /\ gen'[x] = gen[x]
                        /\ send_to'[x] = send_to[x]
                        /\ recv_buf'[x] = recv_buf[x]
                        /\ recv_expect'[x] = recv_expect[x]
      BY DEF NobodyParks
    <2>1. x # d /\ x \notin P /\ x \notin W
      BY <1>7
    <2> QED BY <1>2, <1>7, <2>1, Zenon DEF IpcInv, TypeOK, Set
  <1> QED BY <1>8, <1>9, <1>10, NobodyParksOK DEF IpcInv, SlotsOK

----------------------------------------------------------------------------
(***************************************************************************)
(* The walk along the parked senders.                                      *)
(***************************************************************************)
\* One step of the walk.
Onward(s, c) ==
    CASE c = Any \/ c = s -> c
      [] OTHER -> IF state[c] = "send" /\ send_to[c] # Any /\ Live(send_to[c])
                  THEN send_to[c][1] ELSE Any

IsWalk(f, s, d, n) ==
    f = [k \in 0 .. n |-> IF k = 0 THEN d ELSE Onward(s, f[k - 1])]

\* A set of numbers has a least one.
LEMMA LeastNumber ==
    ASSUME NEW S \in SUBSET Nat, S # {}
    PROVE  \E n \in S : n - 1 \notin S
  <1> DEFINE R == OpToRel(<, Nat)
  <1>1. IsWellFoundedOn(R, Nat)
    BY NatLessThanWellFounded, Zenon
  <1>2. PICK n \in S : \A m \in S : <<m, n>> \notin R
    BY ONLY WFMin, <1>1, S \in SUBSET Nat, S # {}, Zenon
  <1>3. n \in Nat /\ (n - 1 \in S => n - 1 \in Nat /\ n - 1 < n)
    OBVIOUS
  <1>4. n - 1 \in S => <<n - 1, n>> \in R
    BY <1>3 DEF OpToRel
  <1> HIDE DEF R
  <1> QED BY <1>2, <1>4

\* There is a walk of every length.
LEMMA WalkExists ==
    ASSUME NEW s, NEW d, NEW n \in Nat
    PROVE  \E f : IsWalk(f, s, d, n)
  <1> DEFINE Bad == {m \in Nat : ~ \E f : IsWalk(f, s, d, m)}
  <1> SUFFICES ASSUME Bad # {} PROVE FALSE
    OBVIOUS
  <1>1. PICK m \in Bad : m - 1 \notin Bad
    BY LeastNumber, Zenon
  <1>2. m \in Nat /\ ~ \E f : IsWalk(f, s, d, m)
    BY <1>1
  <1>3. CASE m = 0
    <2> DEFINE g == [k \in 0 .. 0 |-> d]
    <2>1. IsWalk(g, s, d, 0)
      BY DEF IsWalk
    <2> QED BY <1>2, <1>3, <2>1
  <1>4. CASE m # 0
    <2>1. PICK f : IsWalk(f, s, d, m - 1)
      BY <1>1, <1>2, <1>4
    <2> DEFINE g == [k \in 0 .. m |->
                       IF k = m THEN Onward(s, f[m - 1]) ELSE f[k]]
    <2>2. ASSUME NEW k \in 0 .. m
          PROVE  g[k] = IF k = 0 THEN d ELSE Onward(s, g[k - 1])
      <3>1. CASE k = m
        <4>1. m - 1 \in 0 .. m /\ m - 1 # m
          BY <1>2, <1>4
        <4> QED BY <1>4, <3>1, <4>1
      <3>2. CASE k # m
        <4>1. k \in 0 .. m - 1 /\ (k # 0 => k - 1 \in 0 .. m /\ k - 1 # m)
          BY <1>2, <3>2
        <4>2. f[k] = IF k = 0 THEN d ELSE Onward(s, f[k - 1])
          BY <2>1, <4>1 DEF IsWalk
        <4> QED BY <3>2, <4>1, <4>2
      <3> QED BY <3>1, <3>2
    <2>3. IsWalk(g, s, d, m)
      BY <2>2 DEF IsWalk
    <2> QED BY <1>2, <2>3
  <1> QED BY <1>3, <1>4

\* Cursor is the walk.
LEMMA CursorWalks ==
    ASSUME NEW s, NEW d
    PROVE  /\ MAX_TASKS \in Nat
           /\ Cursor(s, d)[0] = d
           /\ \A k \in 1 .. MAX_TASKS :
                 Cursor(s, d)[k] = Onward(s, Cursor(s, d)[k - 1])
  <1>1. MAX_TASKS \in Nat
    BY FS_CardinalityType, SlotsAssumption DEF MAX_TASKS
  <1>2. \E f : f = [k \in 0 .. MAX_TASKS |->
                       IF k = 0 THEN d ELSE
                         LET c == f[k - 1] IN
                         CASE c = Any \/ c = s -> c
                           [] OTHER -> IF state[c] = "send" /\ send_to[c] # Any
                                          /\ Live(send_to[c])
                                       THEN send_to[c][1] ELSE Any]
    <2>1. \E f : IsWalk(f, s, d, MAX_TASKS)
      BY <1>1, WalkExists
    <2> QED BY Zenon, <2>1 DEF IsWalk, Onward
  <1>3. IsWalk(Cursor(s, d), s, d, MAX_TASKS)
    BY Zenon, <1>2 DEF Cursor, IsWalk, Onward
  <1> QED BY <1>1, <1>3 DEF IsWalk

\* From a member of a set of tasks that send into the set, the walk stays in
\* the set: the search finds every cycle that the send would close.
LEMMA WalkStays ==
    ASSUME IpcInv, NEW s \in Slots, NEW S \in SUBSET Slots, NEW d \in S,
           \A c \in S : c # s => state[c] = "send" /\ send_to[c][1] \in S
    PROVE  deadlock(s, d)
  <1> DEFINE C == Cursor(s, d)
             Bad == {k \in Nat : k <= MAX_TASKS /\ C[k] \notin S}
  <1>1. /\ MAX_TASKS \in Nat /\ C[0] = d
        /\ \A k \in 1 .. MAX_TASKS : C[k] = Onward(s, C[k - 1])
    BY CursorWalks
  <1>2. ASSUME NEW c \in S
        PROVE  Onward(s, c) \in S
    <2>1. c # Any
      BY SlotsAssumption
    <2>2. CASE c = s
      BY <2>2 DEF Onward
    <2>3. CASE c # s
      <3>1. state[c] = "send" /\ send_to[c][1] \in S
        BY <2>3
      <3>2. send_to[c] \in Pids /\ Live(send_to[c])
        BY <3>1 DEF IpcInv, SlotsOK, SlotOK, ParkedOK
      <3>3. send_to[c] # Any
        BY <3>2, SlotsAssumption DEF Pids
      <3> QED BY <2>1, <2>3, <3>1, <3>2, <3>3 DEF Onward
    <2> QED BY <2>2, <2>3
  <1> HIDE DEF C
  <1>3. Bad = {}
    <2> SUFFICES ASSUME Bad # {} PROVE FALSE
      OBVIOUS
    <2>1. PICK k \in Bad : k - 1 \notin Bad
      BY LeastNumber, Zenon
    <2>2. k \in Nat /\ k <= MAX_TASKS /\ C[k] \notin S
      BY <2>1
    <2>3. k # 0
      BY <1>1, <2>2
    <2>4. k - 1 \in Nat /\ k - 1 <= MAX_TASKS /\ k \in 1 .. MAX_TASKS
      BY <1>1, <2>2, <2>3
    <2>5. C[k - 1] \in S
      BY <2>1, <2>4
    <2> QED BY <1>1, <1>2, <2>2, <2>4, <2>5
  <1>4. C[MAX_TASKS] \in S
    BY <1>1, <1>3
  <1>5. C[MAX_TASKS] # Any
    BY <1>4, SlotsAssumption, Zenon
  <1> QED BY <1>5 DEF deadlock, C

\* A send that finds no receiver and closes no cycle parks.
LEMMA SendParksInv ==
    ASSUME IpcInv, NEW s \in Slots, NEW dest \in Pids,
           NEW timeout \in Timeouts \cup {0}, SendParks(s, dest, timeout)
    PROVE  IpcInv'
  <1>0. /\ dest[1] \in Slots /\ dest[1] # s /\ dest = <<dest[1], dest[2]>>
        /\ Live(dest) /\ ~Accepts(dest[1], s)
    BY DEF SendParks, Pids
  <1>1. /\ send_to' = [send_to EXCEPT ![s] = dest]
        /\ pending' = [pending EXCEPT ![s] = TRUE]
        /\ timed' = [timed EXCEPT ![s] = timeout > 0]
        /\ send_deadline' = [send_deadline EXCEPT ![s] =
              IF timeout > 0 THEN Deadline(timer_ticks, timeout) ELSE 0]
        /\ state' = [state EXCEPT ![s] = "send"]
        /\ rax' = [rax EXCEPT ![s] = "0"]
        /\ left' = [left EXCEPT ![s] = timeout]
        /\ call' = [call EXCEPT ![s] = "send"]
        /\ UNCHANGED <<gen, recv, timer_ticks, copies, got, broken>>
    BY Zenon DEF SendParks
  <1>2. state[s] = "running" /\ call[s] = "none" /\ copies[s] = 0
    BY DEF SendParks, Ready, IpcInv, SlotsOK, SlotOK, IdleOK
  <1>3. /\ timeout \in Nat /\ timeout \in 0 .. Wrap
        /\ timeout > 0 => timeout \in 1 .. (Wrap \div 2 - 1)
    BY TimeoutsBound, HalfWrap
  <1>4. TypeOK'
    <2>1. 0 \in Times /\ Deadline(timer_ticks, timeout) \in Times
      <3>1. 0 \in Times
        BY HalfWrap DEF Times
      <3>2. timer_ticks \in Times
        BY DEF IpcInv, TypeOK
      <3> QED BY <1>3, <3>1, <3>2, TimesClosed, Zenon
    <2>2. send_deadline' \in [Slots -> Times]
      BY <1>1, <2>1 DEF IpcInv, TypeOK
    <2>3. /\ send_to' \in [Slots -> Pids \cup {Any}]
          /\ pending' \in [Slots -> BOOLEAN]
          /\ state' \in [Slots -> States]
          /\ rax' \in [Slots -> Answers]
          /\ call' \in [Slots -> {"none", "send", "recv"}]
          /\ left' \in [Slots -> Timeouts \cup 0 .. Wrap]
      BY <1>1, <1>3 DEF IpcInv, TypeOK, Answers, States
    <2>4. timed' \in [Slots -> BOOLEAN]
      BY <1>1 DEF IpcInv, TypeOK
    <2> QED BY Zenon, <1>1, <2>2, <2>3, <2>4 DEF IpcInv, TypeOK, recv
  <1>5. /\ state'[s] = "send" /\ send_to'[s] = dest
        /\ \A y \in Slots : y # s =>
              state'[y] = state[y] /\ send_to'[y] = send_to[y]
    BY <1>1 DEF IpcInv, TypeOK
  <1>6. ASSUME NEW x \in Slots
        PROVE  SlotOK(x)'
    <2>1. CASE x = s
      <3>1. /\ call'[s] = "send" /\ rax'[s] = "0" /\ copies'[s] = 0
            /\ pending'[s] /\ left'[s] = timeout /\ (timed'[s] => timeout > 0)
            /\ timeout > 0 => send_deadline'[s] = Deadline(timer_ticks, timeout)
            /\ timer_ticks' = timer_ticks
        BY <1>1, <1>2, Zenon DEF IpcInv, TypeOK
      <3>2. Live(dest)'
        BY <1>0, <1>1, <1>5 DEF Live
      <3>3. OnTime(s)'
        BY <1>3, <3>1 DEF OnTime
      <3>4. ParkedOK(s)'
        BY Zenon, <1>5, <3>1, <3>2 DEF ParkedOK, Live
      <3>5. IdleOK(s)' /\ AnswerOK(s)'
        BY <1>5, <3>1 DEF IdleOK, AnswerOK
      <3> QED BY <2>1, <3>3, <3>4, <3>5 DEF SlotOK
    <2>2. CASE x # s
      <3>1. Untouched(x) /\ gen' = gen /\ timer_ticks' = timer_ticks
        BY Zenon, <1>1, <2>2 DEF IpcInv, TypeOK, Untouched, recv
      <3>2. \A y \in Slots : state[y] \notin {"free", "zombie"} =>
                                state'[y] \notin {"free", "zombie"}
        BY <1>5
      <3> QED BY <3>1, <3>2, NobodyDies, UntouchedOK DEF IpcInv, SlotsOK
    <2> QED BY <2>1, <2>2
  <1>7. NoMissedRendezvous'
    <2> SUFFICES ASSUME NEW a \in Slots, NEW b \in Slots,
                        state'[a] = "send", send_to'[a] = <<b, gen[b]>>,
                        state'[b] = "recv", recv_buf[b],
                        recv_expect[b] \in {Any, <<a, gen[a]>>}
                 PROVE  FALSE
      BY <1>1 DEF NoMissedRendezvous, Accepts, Pid, recv
    <2>1. b # s /\ state[b] = "recv"
      BY <1>5
    <2>2. CASE a = s
      BY <1>0, <1>5, <2>1, <2>2 DEF Accepts, Pid
    <2>3. CASE a # s
      BY <1>5, <2>1, <2>3 DEF IpcInv, NoMissedRendezvous, Accepts, Pid
    <2> QED BY <2>2, <2>3
  <1>8. SendsAcyclic'
    <2> SUFFICES ASSUME NEW S \in (SUBSET Slots) \ {{}},
                        \A x \in S : state'[x] = "send" /\ send_to'[x][1] \in S
                 PROVE  FALSE
      BY DEF SendsAcyclic
    <2>1. CASE s \in S
      <3>1. dest[1] \in S
        BY <1>5, <2>1
      <3>2. \A c \in S : c # s => state[c] = "send" /\ send_to[c][1] \in S
        BY <1>5
      <3>3. deadlock(s, dest[1])
        BY <3>1, <3>2, WalkStays
      <3> QED BY <3>3 DEF SendParks
    <2>2. CASE s \notin S
      BY Zenon, <1>5, <2>2 DEF IpcInv, SendsAcyclic
    <2> QED BY <2>1, <2>2
  <1> QED BY <1>4, <1>6, <1>7, <1>8 DEF IpcInv, SlotsOK

----------------------------------------------------------------------------
\* The slot of a dead task is freed.
LEMMA ReapInv ==
    ASSUME IpcInv, NEW s \in Slots, Reap(s)
    PROVE  IpcInv'
  <1>1. /\ state[s] = "zombie" /\ gen[s] < GenMax
        /\ state' = [state EXCEPT ![s] = "free"]
        /\ gen' = [gen EXCEPT ![s] = gen[s] + 1]
        /\ UNCHANGED <<send, recv, rax, timer_ticks, call, copies, got,
                       broken, left>>
    BY DEF Reap
  <1>2. /\ state'[s] = "free"
        /\ \A y \in Slots : y # s => state'[y] = state[y] /\ gen'[y] = gen[y]
    BY <1>1 DEF IpcInv, TypeOK
  <1>3. TypeOK'
    <2>1. gen' \in [Slots -> 0 .. GenMax] /\ state' \in [Slots -> States]
      BY <1>1, SlotsAssumption DEF IpcInv, TypeOK, States
    <2> QED BY Zenon, <1>1, <2>1 DEF IpcInv, TypeOK, send, recv
  <1>4. ASSUME NEW x \in Slots
        PROVE  SlotOK(x)'
    <2>0. SlotOK(x)
      BY DEF IpcInv, SlotsOK
    <2>1. CASE x = s
      <3>1. UNCHANGED <<call, copies, got, broken>> /\ call[s] = "none"
        BY <1>1, <2>0, <2>1 DEF SlotOK, IdleOK
      <3> QED BY <1>2, <2>0, <2>1, <3>1
              DEF SlotOK, OnTime, ParkedOK, IdleOK, AnswerOK
    <2>2. CASE x # s
      <3>1. Untouched(x) /\ timer_ticks' = timer_ticks
        BY <1>1, <1>2, <2>2 DEF Untouched, send, recv
      <3>2. ASSUME NEW q \in Pids, Live(q)
            PROVE  Live(q)'
        BY <1>1, <1>2, <3>2 DEF Live, Pids
      <3>3. recv_expect[x] \in Pids \cup {Any}
        BY DEF IpcInv, TypeOK
      <3>4. PartnerStays(x)
        BY Zenon, <2>0, <3>1, <3>2, <3>3
           DEF SlotOK, ParkedOK, PartnerStays, Untouched, Live
      <3> QED BY <2>0, <3>1, <3>4, UntouchedOK
    <2> QED BY <2>1, <2>2
  <1>5. NobodyParks
    BY <1>1, <1>2 DEF NobodyParks, send, recv
  <1> QED BY <1>3, <1>4, <1>5, NobodyParksOK DEF IpcInv, SlotsOK

\* The state of one slot changes and, when a stop takes the task out of a
\* call, broken records it: Spawn, Stop and Continue.
LEMMA StateInv ==
    ASSUME IpcInv, NEW s \in Slots, NEW v \in {"running", "stopped"},
           state' = [state EXCEPT ![s] = v],
           broken' = [broken EXCEPT ![s] =
               broken[s] \/ state[s] \in {"send", "recv"}],
           UNCHANGED <<gen, send, recv, rax, timer_ticks, call, copies, got, left>>
    PROVE  IpcInv'
  <1>1. TypeOK'
    BY DEF IpcInv, TypeOK, States, send, recv
  <1>2. /\ state'[s] = v
        /\ broken'[s] = (broken[s] \/ state[s] \in {"send", "recv"})
        /\ \A y \in Slots : y # s =>
              state'[y] = state[y] /\ broken'[y] = broken[y]
    BY DEF IpcInv, TypeOK
  <1>3. ASSUME NEW x \in Slots
        PROVE  SlotOK(x)'
    <2>0. SlotOK(x) /\ state[x] \in States
      BY DEF IpcInv, SlotsOK, TypeOK
    <2>1. CASE x = s
      <3>1. OnTime(s)' /\ ParkedOK(s)'
        BY <1>2 DEF OnTime, ParkedOK
      <3>2. IdleOK(s)'
        BY <1>2, <2>0, <2>1, Zenon DEF SlotOK, IdleOK, ParkedOK
      <3>3. AnswerOK(s)'
        BY <1>2, <2>0, <2>1, Zenon DEF SlotOK, AnswerOK, IdleOK, States
      <3> QED BY <2>1, <3>1, <3>2, <3>3 DEF SlotOK
    <2>2. CASE x # s
      <3>1. Untouched(x)
        BY <1>2, <2>2 DEF Untouched, send, recv
      <3>2. \A y \in Slots : state[y] \notin {"free", "zombie"} =>
                                state'[y] \notin {"free", "zombie"}
        BY <1>2
      <3> QED BY <3>1, <3>2, NobodyDies, UntouchedOK DEF IpcInv, SlotsOK
    <2> QED BY <2>1, <2>2
  <1>4. NobodyParks
    BY <1>2 DEF NobodyParks, send, recv
  <1> QED BY <1>1, <1>3, <1>4, NobodyParksOK DEF IpcInv, SlotsOK

\* Nothing is parked at the start.
LEMMA InitInv == Init => IpcInv
  <1> SUFFICES ASSUME Init PROVE IpcInv
    OBVIOUS
  <1>1. 0 \in Times /\ 0 \in 0 .. Wrap /\ 0 \in 0 .. GenMax
    BY HalfWrap, SlotsAssumption DEF Times
  <1>2. TypeOK
    BY <1>1 DEF Init, TypeOK, States, Answers
  <1>3. \A s \in Slots : state[s] \in {"running", "free"}
    BY DEF Init
  <1>4. SlotsOK
    BY <1>3 DEF Init, SlotsOK, SlotOK, OnTime, ParkedOK, IdleOK, AnswerOK
  <1>5. NoMissedRendezvous
    BY <1>3 DEF NoMissedRendezvous
  <1>6. SendsAcyclic
    <2> SUFFICES ASSUME NEW S \in (SUBSET Slots) \ {{}}
                 PROVE  \E s \in S :
                            state[s] = "send" => send_to[s][1] \notin S
      BY DEF SendsAcyclic
    <2>0. S \in SUBSET Slots /\ S # {}
      OBVIOUS
    <2>1. PICK s \in S : s \in Slots
      BY <2>0
    <2> QED BY <1>3, <2>1
  <1> QED BY <1>2, <1>4, <1>5, <1>6 DEF IpcInv

\* Every step keeps the invariant.
LEMMA NextInv == IpcInv /\ [Next]_vars => IpcInv'
  <1> SUFFICES ASSUME IpcInv, [Next]_vars PROVE IpcInv'
    OBVIOUS
  <1>1. ASSUME NEW s \in Slots, NEW dest \in Pids, Send(s, dest)
        PROVE  IpcInv'
    <2>1. ASSUME SendRefused(s, dest) PROVE IpcInv'
      <3>1. PICK answer \in {"ESRCH", "EDEADLK", "EINVAL"} :
                Refuse(s, "send", answer)
        BY <2>1 DEF SendRefused
      <3>2. Ready(s)
        BY <2>1 DEF SendRefused
      <3> QED BY <3>1, <3>2, RefuseInv DEF Answers
    <2>2. ASSUME SendNbMisses(s, dest) PROVE IpcInv'
      <3>1. Ready(s) /\ Refuse(s, "send", "-1")
        BY <2>2 DEF SendNbMisses
      <3> QED BY <3>1, RefuseInv DEF Answers
    <2> QED BY <1>1, <2>1, <2>2, SendMeetsInv, SendDeadlocksInv, SendParksInv
            DEF Send
  <1>2. ASSUME NEW s \in Slots, NEW expected \in Pids \cup {Any},
               Recv(s, expected)
        PROVE  IpcInv'
    <2>1. ASSUME RecvRefused(s, expected) PROVE IpcInv'
      <3>1. PICK answer \in {"EDEADLK", "EINVAL"} : Refuse(s, "recv", answer)
        BY <2>1 DEF RecvRefused
      <3>2. Ready(s)
        BY <2>1 DEF RecvRefused
      <3> QED BY <3>1, <3>2, RefuseInv DEF Answers
    <2> QED BY <1>2, <2>1, RecvProbeInv, RecvMeetsInv, RecvParksInv DEF Recv
  <1>3. ASSUME NEW s \in Slots, Spawn(s) PROVE IpcInv'
    <2>1. broken' = [broken EXCEPT ![s] =
             broken[s] \/ state[s] \in {"send", "recv"}]
      <3>1. state[s] = "free" /\ broken' = broken
        BY <1>3 DEF Spawn
      <3>2. broken[s] \in BOOLEAN /\ broken \in [Slots -> BOOLEAN]
        BY DEF IpcInv, TypeOK
      <3> QED BY <3>1, <3>2
    <2> QED BY Zenon, <1>3, <2>1, StateInv DEF Spawn
  <1>4. ASSUME NEW s \in Slots, Stop(s) PROVE IpcInv'
    <2>1. state[s] # "running" <=> state[s] \in {"send", "recv"}
      BY <1>4 DEF Stop
    <2> QED BY <1>4, <2>1, StateInv, Zenon DEF Stop
  <1>5. ASSUME NEW s \in Slots, Continue(s) PROVE IpcInv'
    <2>1. broken' = [broken EXCEPT ![s] =
             broken[s] \/ state[s] \in {"send", "recv"}]
      <3>1. state[s] = "stopped" /\ broken' = broken
        BY <1>5 DEF Continue
      <3>2. broken[s] \in BOOLEAN /\ broken \in [Slots -> BOOLEAN]
        BY DEF IpcInv, TypeOK
      <3> QED BY <3>1, <3>2
    <2> QED BY <1>5, <2>1, StateInv, Zenon DEF Continue
  <1>6. ASSUME UNCHANGED vars PROVE IpcInv'
    <2>1. UNCHANGED <<state, gen, send_to, pending, timed, send_deadline,
             recv_buf, recv_expect, rax, timer_ticks, call, copies, got, broken,
             left>>
      BY <1>6 DEF vars, task, send, recv
    <2>2. TypeOK'
      BY Zenon, <2>1 DEF IpcInv, TypeOK
    <2>3. \A x \in Slots : SlotOK(x)'
      BY <2>1 DEF IpcInv, SlotsOK, SlotOK, OnTime, ParkedOK, IdleOK, AnswerOK, Live
    <2>4. NobodyParks
      BY <2>1 DEF NobodyParks
    <2> QED BY <2>2, <2>3, <2>4, NobodyParksOK DEF IpcInv, SlotsOK
  <1> QED BY Zenon, <1>1, <1>2, <1>3, <1>4, <1>5, <1>6, ResumeInv, TaskDiedInv,
             ReapInv, TickInv DEF Next

----------------------------------------------------------------------------
\* The inductive invariant of message passing holds in every reachable state.
THEOREM IpcInvariant == Spec => []IpcInv
  BY InitInv, NextInv, PTL DEF Spec

\* A parked task waits for somebody who lives and has not offered yet:
\* send_internal, ipc64_recv and ipc64_task_died miss nobody, whatever the
\* number of tasks.
THEOREM ParkedForCauseHolds == Spec => []ParkedForCause
  <1>1. IpcInv => ParkedForCause
    BY DEF IpcInv, ParkedForCause, ParkedOnLiveTask, SlotsOK, SlotOK, ParkedOK
  <1> QED BY <1>1, IpcInvariant, PTL

\* The walk of deadlock() over at most MAX_TASKS parked senders finds every
\* cycle, so none is ever closed.
THEOREM SendsStayAcyclic == Spec => []SendsAcyclic
  <1>1. IpcInv => SendsAcyclic
    BY DEF IpcInv
  <1> QED BY <1>1, IpcInvariant, PTL

\* A call answers 0 exactly when its message was copied, once, and ETIMEDOUT
\* exactly when its time ran out, for every even width of timer_ticks.
THEOREM AnswersStayTrue == Spec => []AnswersTrue
  <1>1. ASSUME IpcInv PROVE AnswersTrue
    <2>1. \A s \in Slots : OnTime(s) /\ AnswerOK(s) /\ IdleOK(s)
      BY <1>1 DEF IpcInv, SlotsOK, SlotOK
    <2>2. AnswerTellsDelivery
      BY <2>1 DEF AnswerTellsDelivery, AnswerOK
    <2>3. TimedSendOnTime
      BY <2>1, HalfWrap DEF TimedSendOnTime, OnTime, AnswerOK
    <2> QED BY <1>1, <2>2, <2>3 DEF IpcInv, AnswersTrue
  <1> QED BY <1>1, IpcInvariant, PTL
============================================================================
