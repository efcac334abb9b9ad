------------------------------ MODULE Decoding ------------------------------
(***************************************************************************)
(* Scalars on their way from a document to a typed read: the keys a YAML   *)
(* decoder leaves (internal/dictutil/normalize.go), the casting of strings *)
(* (internal/typecoerce/parse.go) and the typed getters (config_access.go).*)
(***************************************************************************)
EXTENDS Integers, FiniteSets

CONSTANTS
  Int64Bits,      \* width of int64
  Mantissa        \* significant bits of a float64

\* Powers of two in the range are positive and double from one to the next, and
\* a float64 has at least two significant bits.
ASSUME NumbersAssumption ==
  /\ Int64Bits \in Nat /\ 2^Mantissa \in Int /\ 2^Mantissa > 2
  /\ \A e \in 0..(Int64Bits + 2) : 2^e \in Nat /\ 2^e > 0 /\ 2^e <= 2^(Int64Bits + 2)
  /\ \A e \in 0..(Int64Bits + 1) : 2^(e + 1) = 2 * 2^e

(***************************************************************************)
(* Map keys, as [type, text]: text is the canonical form.                  *)
(***************************************************************************)
\* A key that has no canonical form: null, NaN, another collection.
Coercible(k) == k.type \in {"string", "bool", "int", "float"}

\* Mutant: the key that comes last takes the place of the one it collides with.
NormalizeKeyLast(out, k, sound) ==
  IF ~Coercible(k) \/ ~sound THEN [out EXCEPT !.error = TRUE]
  ELSE [out EXCEPT !.keys = @ \cup {k.text}, !.from = {j \in @ : j.text # k.text} \cup {k}]

\* One key of the map, whichever the iteration comes to next.
NormalizeKey(out, k, sound) ==
  IF ~Coercible(k) \/ ~sound \/ k.text \in out.keys THEN [out EXCEPT !.error = TRUE]
  ELSE [out EXCEPT !.keys = @ \cup {k.text}, !.from = @ \cup {k}]

(***************************************************************************)
(* Numbers.  Every number is counted in halves, so that 1 is a fraction;   *)
(* a float64 is a number whose significant bits fit the mantissa.          *)
(***************************************************************************)
MaxOf(bits) == 2^(bits - 1) - 1
MinOf(bits) == -(2^(bits - 1))

Magnitude(n) == IF n < 0 THEN -n ELSE n
Floats == {n \in -(2^(Int64Bits + 2))..(2^(Int64Bits + 2)) :
             \E e \in 0..(Int64Bits + 2) : n % 2^e = 0 /\ Magnitude(n) \div 2^e < 2^Mantissa}

\* An integer as a float64: the nearest one, the larger of two as near.
AsFloat(n) ==
  CHOOSE f \in Floats : \A g \in Floats :
    LET df == Magnitude(f - 2*n)
        dg == Magnitude(g - 2*n)
    IN df < dg \/ (df = dg /\ g <= f)

\* Whether an int of that width, the one of the platform, holds n.
InInt(bits, n) == n \in MinOf(bits)..MaxOf(bits)

(***************************************************************************)
(* A string is [word, half, mark, plain, padded].  Its word is a spelling  *)
(* of a boolean, "number" or "text"; a number has its value in halves, a   *)
(* mark if it has a point or an exponent, and is plain when its digits are *)
(* as they would be printed; padded is with spaces around it.              *)
(***************************************************************************)
NoString == [word |-> "none", half |-> 0, mark |-> FALSE, plain |-> FALSE, padded |-> FALSE]
Value(type, half) == [type |-> type, half |-> half, string |-> NoString]
Str(s) == [type |-> "string", half |-> 0, string |-> s]

\* The hook of type casting; "yes" and "on" stay what they are.
ParseScalar(bits, s) ==
  IF s.word \in {"true", "false"} THEN Value("bool", IF s.word = "true" THEN 2 ELSE 0)
  ELSE IF s.word # "number" \/ s.padded THEN Str(s)
  ELSE IF s.mark THEN Value("float64", s.half)
  ELSE IF s.plain /\ InInt(bits, s.half \div 2) THEN Value("int", s.half) ELSE Str(s)

(***************************************************************************)
(* The typed getters, as the sets of what they may return.  A float beyond *)
(* the int range converts to whatever int the platform makes of it.        *)
(***************************************************************************)
Failed == [ok |-> FALSE, half |-> 0]
Got(half) == [ok |-> TRUE, half |-> half]

Narrow(bits, half) ==
  IF InInt(bits, half \div 2) THEN {Got(half)} ELSE {Got(2*n) : n \in {MinOf(bits), MaxOf(bits)}}

\* Mutant: no check of the range before the conversion.
GetIntUnchecked(bits, v) ==
  CASE v.type = "int" -> {Got(v.half)}
    [] v.type = "int64" -> {IF InInt(bits, v.half \div 2) THEN Got(v.half) ELSE Failed}
    [] v.type = "float64" /\ v.half % 2 = 0 -> Narrow(bits, v.half)
    [] OTHER -> {Failed}

GetInt(bits, v) ==
  CASE v.type = "int" -> {Got(v.half)}
    [] v.type = "int64" -> {IF InInt(bits, v.half \div 2) THEN Got(v.half) ELSE Failed}
    [] /\ v.type = "float64" /\ v.half % 2 = 0
       /\ v.half <= AsFloat(MaxOf(bits)) /\ v.half >= AsFloat(MinOf(bits)) -> Narrow(bits, v.half)
    [] OTHER -> {Failed}

GetFloat64(v) ==
  CASE v.type \in {"float64", "nonfinite"} -> Got(v.half)
    [] v.type \in {"int", "int64"} -> Got(AsFloat(v.half \div 2))
    [] OTHER -> Failed

\* A boolean is 0 or 2 halves, so that it reads as the numbers 0 and 1 do.
GetBool(v) ==
  LET s == v.string
      spelled == s.word = "number" /\ s.plain /\ ~s.mark /\ s.half \in {0, 2}
  IN CASE v.type = "string" /\ s.word \in {"true", "yes", "on"} -> Got(2)
       [] v.type = "string" /\ s.word \in {"false", "no", "off"} -> Got(0)
       [] v.type = "string" /\ spelled -> Got(s.half)
       [] v.type # "string" /\ v.half \in {0, 2} -> Got(v.half)
       [] OTHER -> Failed
=============================================================================
