------------------------------- MODULE DivMod -------------------------------
(***************************************************************************)
(* The 64-bit division routines that the compiler calls on a 32-bit target *)
(* (kernel/src/compiler_rt_divmod.c), on words of Bits bits: shift the      *)
(* divisor up as far as it fits, then subtract it on the way down.          *)
(***************************************************************************)
EXTENDS Integers

CONSTANT Bits               \* the width of du_int: 64

ASSUME BitsAssumption == Bits \in Nat \ {0}

\* What a shift to the left multiplies by
Pow2[n \in Nat] == IF n = 0 THEN 1 ELSE 2 * Pow2[n - 1]

MaxU == Pow2[Bits] - 1
MinS == -(Pow2[Bits - 1])
MaxS == Pow2[Bits - 1] - 1

\* Fault: the shift stops one place early.
ShiftShort(a, b) ==
  CHOOSE s \in 0 .. Bits - 1 :
    /\ b * Pow2[s] >= Pow2[Bits - 1] \/ b * Pow2[s] >= a \div 2
    /\ \A r \in 0 .. s - 1 : b * Pow2[r] < Pow2[Bits - 1] /\ b * Pow2[r] < a \div 2

\* How often the first loop shifts: until the top bit is set or another shift
\* would take the divisor past a
Shift(a, b) ==
  CHOOSE s \in 0 .. Bits - 1 :
    /\ b * Pow2[s] >= Pow2[Bits - 1] \/ b * Pow2[s] > a \div 2
    /\ \A r \in 0 .. s - 1 : b * Pow2[r] < Pow2[Bits - 1] /\ b * Pow2[r] <= a \div 2

\* A turn of the second loop: the divisor shifted by i is tried
Turn(b, i, s) ==
  IF s.rem >= b * Pow2[i]
    THEN [quot |-> 2 * s.quot + 1, rem |-> s.rem - b * Pow2[i]]
    ELSE [quot |-> 2 * s.quot, rem |-> s.rem]

\* The second loop, from the divisor shifted by n: the state after each turn
Turns(a, b, n) ==
  LET after[i \in 0 .. n] ==
        Turn(b, i, IF i = n THEN [quot |-> 0, rem |-> a] ELSE after[i + 1])
  IN  after

UDivMod(a, b) ==
  IF b = 0 THEN [quot |-> 0, rem |-> 0]
  ELSE IF a < b THEN [quot |-> 0, rem |-> a]
  ELSE Turns(a, b, Shift(a, b))[0]

UDiv(a, b) == UDivMod(a, b).quot
UMod(a, b) == UDivMod(a, b).rem

\* Conversions between du_int and di_int
Unsigned(x) == x % Pow2[Bits]
Signed(x) == IF x > MaxS THEN x - Pow2[Bits] ELSE x
UAbs(x) == IF x < 0 THEN Unsigned(-x) ELSE x

\* The last step negates a signed word; C leaves -MinS open, and the target's
\* subtraction wraps it to MinS
Negate(x) == Signed(Unsigned(-x))

SDiv(a, b) ==
  LET q == Signed(UDiv(UAbs(a), UAbs(b)))
  IN  IF (a < 0) # (b < 0) THEN Negate(q) ELSE q

SMod(a, b) ==
  LET r == Signed(UMod(UAbs(a), UAbs(b)))
  IN  IF a < 0 THEN Negate(r) ELSE r

----------------------------------------------------------------------------
(* Correctness. *)

\* Shift and subtract computes quotient and remainder of all words, and the
\* signed routines truncate towards zero, up to the one quotient that is no
\* signed word.
DivisionExact ==
  /\ \A a \in 0 .. MaxU, b \in 1 .. MaxU :
       UDivMod(a, b) = [quot |-> a \div b, rem |-> a % b]
  /\ \A a \in MinS .. MaxS, b \in MinS .. MaxS \ {0} :
       LET q == SDiv(a, b)
           r == SMod(a, b)
       IN  ~(a = MinS /\ b = -1) =>
             /\ a = q * b + r
             /\ UAbs(r) < UAbs(b)
             /\ r # 0 => (r < 0) = (a < 0)
=============================================================================
