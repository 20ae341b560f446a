------------------------------- MODULE Stamp -------------------------------
(***************************************************************************)
(* The time stamps of core/timestamp.h: pairs of seconds and nanoseconds,  *)
(* how they are compared, and the arithmetic the benchmark client measures *)
(* round trips with.                                                       *)
(***************************************************************************)
EXTENDS Integers

CONSTANTS NanosPerMilli,   \* 1'000'000
          MillisPerSecond, \* 1000
          MaxStamp         \* bound: the largest stamp explored, in nanoseconds

ASSUME StampAssumption ==
  NanosPerMilli \in Nat \ {0} /\ MillisPerSecond \in Nat \ {0} /\ MaxStamp \in Nat

NanosPerSecond == MillisPerSecond * NanosPerMilli

-----------------------------------------------------------------------------
(* Seeded faults: plausible slips in the definitions below.                *)

NoBorrow(seconds, nanos) == <<seconds, nanos>>

-----------------------------------------------------------------------------
\* setIfNewer(): the stamp is a pair, compared lexicographically.
Newer(new, old) ==
  new[1] > old[1] \/ (new[1] = old[1] /\ new[2] > old[2])

\* Nanoseconds below zero are made up for by a second.
Borrow(seconds, nanos) ==
  IF nanos < 0 THEN <<seconds - 1, nanos + NanosPerSecond>> ELSE <<seconds, nanos>>

Delta(new, older) == Borrow(new[1] - older[1], new[2] - older[2])

\* For millis that are not negative, which the code does not test.
SubtractMilliseconds(st, millis) ==
  Borrow(st[1] - millis \div MillisPerSecond,
         st[2] - (millis % MillisPerSecond) * NanosPerMilli)

-----------------------------------------------------------------------------
(* Correctness.                                                            *)

IsStamp(st) == st \in Int \X (0 .. NanosPerSecond - 1)

\* What a stamp means.
Total(st) == st[1] * NanosPerSecond + st[2]

NewerExact(a, b) == Newer(a, b) <=> Total(a) > Total(b)

DeltaExact(a, b) ==
  IsStamp(Delta(a, b)) /\ Total(Delta(a, b)) = Total(a) - Total(b)

SubtractExact(a, millis) ==
  LET d == SubtractMilliseconds(a, millis)
  IN  IsStamp(d) /\ Total(d) = Total(a) - millis * NanosPerMilli

SmallStamps == {<<n \div NanosPerSecond, n % NanosPerSecond>> : n \in -MaxStamp .. MaxStamp}

\* Comparing, measuring and shifting stamps agrees with what they mean, in
\* either order, over every borrow, and the results are stamps again.
StampExact ==
  \A a, b \in SmallStamps :
    /\ NewerExact(a, b) /\ DeltaExact(a, b)
    /\ \A millis \in 0 .. MaxStamp : SubtractExact(a, millis)
=============================================================================
