-------------------------------- MODULE Ticks --------------------------------
(***************************************************************************)
(* timer_ticks and deadlines: u32 values compared through the sign of      *)
(* their difference, (i32)(now - deadline) < 0.                            *)
(***************************************************************************)
EXTENDS Integers

CONSTANTS Wrap,      \* the width of timer_ticks, 2^32 in the code
          Timeouts   \* the timeouts tasks ask for; 0 is none

\* The system calls refuse a timeout of 2^31 ticks and more.
ASSUME TicksAssumption ==
    /\ Wrap \in Nat \ {0} /\ Wrap % 2 = 0
    /\ Timeouts \subseteq 0 .. (Wrap \div 2 - 1)

Times == 0 .. Wrap - 1
Deadline(now, timeout) == (now + timeout) % Wrap
NextTickUnmasked(now) == now + 1
NextTick(now) == (now + 1) % Wrap

BeforeUnsigned(now, deadline) == now < deadline
BeforeOrAt(now, deadline) ==
    now = deadline \/ (now - deadline) % Wrap >= Wrap \div 2
BeforeZeroIsNever(now, deadline) ==
    deadline = 0 \/ (now - deadline) % Wrap >= Wrap \div 2

Before(now, deadline) == (now - deadline) % Wrap >= Wrap \div 2
==============================================================================
