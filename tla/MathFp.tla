------------------------------- MODULE MathFp -------------------------------
(***************************************************************************)
(* The fixed-point helpers of contracts/src/libraries/math_fp.cairo.       *)
(*                                                                         *)
(* A WAD number x stands for x / WAD.  Products and quotients of WAD       *)
(* numbers go through the 64.64 format of the cubit library: both operands *)
(* are converted (rounding down), combined (rounding down) and converted   *)
(* back (rounding down).  The contracts have WAD = 10^18 and               *)
(* CUBIT_ONE = 2^64; both are parameters here, so an instance may keep the *)
(* ratio of the code (about 18.4, not an integer, so every conversion can  *)
(* lose a unit) or make it integral (the conversions are exact and only    *)
(* the operations round).                                                  *)
(***************************************************************************)
EXTENDS Integers

CONSTANTS
  WAD,       \* the unit of WAD numbers, 10^18 in the code
  CUBIT_ONE  \* the unit of cubit's 64.64 numbers, 2^64 in the code

ASSUME WadAssumption == WAD \in Nat \ {0}
ASSUME CubitAssumption == CUBIT_ONE \in Nat \ {0} /\ CUBIT_ONE >= WAD

\* math_fp.cairo max and min.
max(a, b) == IF a > b THEN a ELSE b
min(a, b) == IF a < b THEN a ELSE b

\* Conversions between WAD and the 64.64 format; both truncate.
wad_to_fp(w) == (w * CUBIT_ONE) \div WAD
fp_to_wad(f) == (f * WAD) \div CUBIT_ONE

\* The multiplication and division of cubit's Fixed type (a library).
fp_mul(a, b) == (a * b) \div CUBIT_ONE
fp_div(a, b) == (a * CUBIT_ONE) \div b

wad_mul(a, b) == fp_to_wad(fp_mul(wad_to_fp(a), wad_to_fp(b)))

\* The code asserts b # 0 before it divides; every use below has b > 0.
wad_div(a, b) == fp_to_wad(fp_div(wad_to_fp(a), wad_to_fp(b)))

\* ceil(a / b) and ceil(a * WAD / b), computed on integers: cubit is not used.
div_up(a, b) == IF a = 0 THEN 0 ELSE (a + b - 1) \div b
wad_div_up(a, b) == IF a = 0 THEN 0 ELSE (a * WAD + b - 1) \div b

\* The conversions between SY and the accounting asset at a PY index.
sy_to_asset(sy_amount, py_index) == wad_mul(sy_amount, py_index)
asset_to_sy_up(asset, py_index) == wad_div_up(asset, py_index)
asset_to_sy(asset, py_index) == wad_div(asset, py_index)

=============================================================================
