------------------------------- MODULE Values -------------------------------
(***************************************************************************)
(* What happens to one value between a caller or a document and the        *)
(* published configuration: its keys are normalized in whatever order the  *)
(* map is iterated, a scalar is cast and read by a typed getter, and a     *)
(* reference that was built by hand is written and read back.              *)
(***************************************************************************)
EXTENDS Decoding, References

CONSTANTS
  Documents,      \* sets of [key, sound], sound being that the value under it can be normalized
  Scalars,        \* scalars of a document
  Handmade,       \* references built by hand
  Platforms       \* widths of int

\* A map has a key once; a number without a point or exponent is an integer,
\* any other is a float64; an int is no wider than an int64.
ASSUME ValuesAssumption ==
  /\ \A d \in Documents : \A e1, e2 \in d : e1.key = e2.key => e1 = e2
  /\ Scalars \subseteq
       [type : {"bool", "int", "int64", "float64", "nonfinite", "string"}, half : Int,
        string : [word : STRING, half : Int, mark : BOOLEAN, plain : BOOLEAN, padded : BOOLEAN]]
  /\ \A v \in Scalars :
       /\ v.type \in {"int", "int64"} => v.half % 2 = 0
       /\ v.type = "float64" => v.half \in Floats
       /\ v.type = "string" /\ v.string.word = "number" /\ ~v.string.mark => v.string.half % 2 = 0
       /\ v.type = "string" /\ v.string.word = "number" /\ v.string.mark => v.string.half \in Floats
  /\ \A ref \in Handmade :
       /\ ref.key \in Seq(Token) /\ ref.field \in Seq(Token) /\ ref.version \in Seq(Token)
       /\ ref = Reference(ref.provider, ref.key, ref.field, ref.version)
  /\ Platforms \subseteq 1..Int64Bits

VARIABLES
  journey,        \* what happens to the value, and how far it is
  given,          \* the value
  todo,           \* entries of the map that the iteration has not reached
  made,           \* what has become of it
  bits            \* the width of int on the platform

vars == <<journey, given, todo, made, bits>>

Init ==
  \/ /\ journey = "normalize" /\ given \in Documents /\ todo = given /\ bits = 0
     /\ made = [keys |-> {}, from |-> {}, error |-> FALSE]
  \/ journey = "read" /\ given \in Scalars /\ todo = {} /\ made = "nothing" /\ bits \in Platforms
  \/ journey = "write out" /\ given \in Handmade /\ todo = {} /\ made = "nothing" /\ bits = 0

NormalizeKeys ==
  /\ journey = "normalize" /\ ~made.error
  /\ \E e \in todo :
       /\ made' = NormalizeKey(made, e.key, e.sound)
       /\ todo' = todo \ {e}
  /\ UNCHANGED <<journey, given, bits>>

\* With casting or without, the value is read by every getter.
ReadTyped ==
  /\ journey = "read" /\ journey' = "returned"
  /\ \E casting \in BOOLEAN :
       LET v == IF casting /\ given.type = "string" THEN ParseScalar(bits, given.string) ELSE given
       IN \E int \in GetInt(bits, v) :
            made' = [int |-> int, float64 |-> GetFloat64(v), bool |-> GetBool(v), casting |-> casting]
  /\ UNCHANGED <<given, todo, bits>>

WriteReference ==
  /\ journey = "write out" /\ journey' = "written out"
  /\ made' = Parse(String(given))
  /\ UNCHANGED <<given, todo, bits>>

Next == NormalizeKeys \/ ReadTyped \/ WriteReference

Spec == Init /\ [][Next]_vars

(***************************************************************************)
(* Properties.                                                             *)
(***************************************************************************)
\* Whichever order the map is iterated in, its keys are refused exactly when
\* one of them or one of its values is, or two of them have one canonical
\* form; and otherwise none is lost (internal/dictutil/normalize.go).
KeysOrderFree ==
  journey = "normalize" =>
    LET ambiguous == \E e1, e2 \in given : e1.key # e2.key /\ e1.key.text = e2.key.text
                                           /\ Coercible(e1.key) /\ Coercible(e2.key)
        refused == ambiguous \/ \E e \in given : ~Coercible(e.key) \/ ~e.sound
    IN /\ made.error => refused
       /\ todo = {} /\ ~made.error => ~refused /\ made.keys = {e.key.text : e \in given}

\* The number a scalar stands for, in halves.
Says(v) == IF v.type = "string" THEN v.string.half ELSE v.half
Integral(v) == v.type \in {"int", "int64", "float64"} /\ v.half % 2 = 0

\* The least integer above the range of int, when that is what the conversion
\* of the greatest int to a float64 gives.
AtTheEdge(v) == Says(v) = AsFloat(MaxOf(bits)) /\ Says(v) > 2 * MaxOf(bits)

\* An int that is returned is the number that was written, and an integer that
\* fits is returned; and casting changes no boolean that could be read without
\* it (config_access.go, internal/typecoerce/parse.go).
TypedReadsExact ==
  journey = "returned" =>
    /\ (made.int.ok /\ ~AtTheEdge(given)) => made.int.half = Says(given)
    /\ (Integral(given) /\ InInt(bits, given.half \div 2)) => made.int.ok
    /\ GetBool(given).ok => made.bool = GetBool(given)
    /\ made.float64.ok /\ Says(given) \in Floats => made.float64.half = Says(given)
    /\ (given.type = "string" /\ ~given.string.plain) => ~made.int.ok \/ given.string.mark

\* A reference that can be written reads back as itself, and one that cannot
\* reads back as none: it never names another secret
\* (internal/secretref/reference.go).
ReferenceRoundTrip ==
  journey = "written out" =>
    made = IF Validate(given) THEN [ok |-> TRUE, ref |-> given] ELSE Unparsed
=============================================================================
