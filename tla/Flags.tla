-------------------------------- MODULE Flags --------------------------------
(* The condition flags of a core (vm.c, float.h): what the instructions make  *)
(* of them and what the conditional jumps read out of them.  A word is an     *)
(* unsigned number below 2 * Half; a register is a uint32_t, and the          *)
(* instructions that need a signed operand convert it.                        *)
EXTENDS Integers

CONSTANT Half  \* half of the number of words: 2^31 in the program

ASSUME HalfAssumption == Half \in Nat \ {0}

Modulus == 2 * Half
Word == 0 .. Modulus - 1
Signed(w) == IF w < Half THEN w ELSE w - Modulus

Flag == {"ZF", "SF", "CF", "OF"}
Jumps == {"JZ", "JNZ", "JG", "JGE", "JL", "JLE", "JC", "JNC"}

Sum(a, b) == (a + b) % Modulus
Difference(a, b) == (a - b) % Modulus

-----------------------------------------------------------------------------
\* update_zf_sf
ZfSf(r) == {f \in {"ZF"} : r = 0} \cup {f \in {"SF"} : Signed(r) < 0}

\* update_add_flags.  The sum of two int32_t that overflows is undefined in C:
\* an optimised build may find the test for it never true.
AddOverflows(a, b, r) ==
  \/ Signed(a) > 0 /\ Signed(b) > 0 /\ Signed(r) < 0
  \/ Signed(a) < 0 /\ Signed(b) < 0 /\ Signed(r) > 0
AddFlags(a, b, r, folded) ==
  ZfSf(r)
    \cup {f \in {"CF"} : r < a}
    \cup {f \in {"OF"} : AddOverflows(a, b, r) /\ ~folded}

\* update_sub_flags, likewise.
SubOverflows(a, b, r) ==
  \/ Signed(a) > 0 /\ Signed(b) < 0 /\ Signed(r) < 0
  \/ Signed(a) < 0 /\ Signed(b) > 0 /\ Signed(r) > 0
\* Fault: the borrow of signed numbers.
SubFlagsSigned(a, b, r, folded) ==
  ZfSf(r)
    \cup {f \in {"CF"} : Signed(a) < Signed(b)}
    \cup {f \in {"OF"} : SubOverflows(a, b, r) /\ ~folded}
SubFlags(a, b, r, folded) ==
  ZfSf(r)
    \cup {f \in {"CF"} : a < b}
    \cup {f \in {"OF"} : SubOverflows(a, b, r) /\ ~folded}

\* Fault: carry and overflow stay.
LogicFlagsKept(old, r) == (old \cap {"CF", "OF"}) \cup ZfSf(r)
\* update_logic_flags
LogicFlags(old, r) == ZfSf(r)

\* OP_LOAD calls update_zf_sf alone.
LoadFlags(old, r) == (old \cap {"CF", "OF"}) \cup ZfSf(r)

\* set_cas_flags
CasFlags(success) == {f \in {"ZF"} : success}

\* update_fcmp_flags: how the first number compares with the second.
FloatOrders == {"less", "equal", "greater", "unordered"}
FcmpFlags(order) ==
  CASE order = "less" -> {"SF"}
    [] order = "equal" -> {"ZF"}
    [] order = "greater" -> {"CF"}
    [] order = "unordered" -> {"OF"}

-----------------------------------------------------------------------------
\* (flags & FLAG_SF) == (flags & FLAG_OF) compares the masked bits 0x10 and
\* 0x20 as numbers: they are equal when both flags are clear.
SfEqualsOf(flags) == "SF" \notin flags /\ "OF" \notin flags

\* Whether a conditional jump is taken.
Taken(jump, flags) ==
  CASE jump = "JZ" -> "ZF" \in flags
    [] jump = "JNZ" -> "ZF" \notin flags
    [] jump = "JG" -> "ZF" \notin flags /\ SfEqualsOf(flags)
    [] jump = "JGE" -> SfEqualsOf(flags)
    [] jump = "JL" -> ~SfEqualsOf(flags)
    [] jump = "JLE" -> "ZF" \in flags \/ ~SfEqualsOf(flags)
    [] jump = "JC" -> "CF" \in flags
    [] jump = "JNC" -> "CF" \notin flags

-----------------------------------------------------------------------------
\* What the jumps should decide after x was compared with y.
EqualityDecided(x, y, flags) ==
  (Taken("JZ", flags) <=> x = y) /\ (Taken("JNZ", flags) <=> x # y)
UnsignedDecided(x, y, flags) ==
  (Taken("JC", flags) <=> x < y) /\ (Taken("JNC", flags) <=> x >= y)
SignedDecided(x, y, flags) ==
  /\ Taken("JG", flags) <=> Signed(x) > Signed(y)
  /\ Taken("JGE", flags) <=> Signed(x) >= Signed(y)
  /\ Taken("JL", flags) <=> Signed(x) < Signed(y)
  /\ Taken("JLE", flags) <=> Signed(x) <= Signed(y)

\* The signed difference of x and y is a signed word.
InRange(x, y) == Signed(x) - Signed(y) \in -Half .. Half - 1
=============================================================================
