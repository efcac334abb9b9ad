------------------------------ MODULE MCValues ------------------------------
(***************************************************************************)
(* Instances of Values and Copies for TLC: keys of every type that         *)
(* collide, numbers around the ends of the ranges, references with         *)
(* delimiters in them, and heaps of a map, a backing array and the struct  *)
(* behind a pointer, which point at each other in every way, with the      *)
(* paths of up to three steps into them.                                   *)
(***************************************************************************)
EXTENDS Copies

Key(type, text) == [type |-> type, text |-> text]
AllKeys == {Key("string", "true"), Key("bool", "true"), Key("int", "1"), Key("float", "1"),
            Key("string", "a"), Key("null", "")}
AllDocuments ==
  {d \in SUBSET [key : AllKeys, sound : BOOLEAN] :
     Cardinality(d) <= 3 /\ \A e1, e2 \in d : e1.key = e2.key => e1 = e2}

Ints == {2*n : n \in -17..20}
Halves == -34..40
AllScalars ==
  {Value("int", h) : h \in Ints} \cup {Value("int64", h) : h \in Ints}
  \cup {Value("float64", h) : h \in Floats \cap Halves} \cup {Value("nonfinite", 1), Value("bool", 0), Value("bool", 2)}
  \cup {Str([word |-> w, half |-> 1, mark |-> FALSE, plain |-> FALSE, padded |-> p]) :
          w \in {"true", "false", "yes", "off", "text"}, p \in BOOLEAN}
  \cup {Str(s) : s \in {t \in [word : {"number"}, half : Floats \cap Halves, mark : BOOLEAN, plain : BOOLEAN,
                                 padded : BOOLEAN] : t.mark \/ t.half \in Ints}}

AllTokens == {"${secret", "@", ":", "}", "w", "a"}
Components == {<<>>, <<"w">>, <<":">>, <<"}">>, <<"${secret">>, <<"w", ":", "w">>}
AllHandmade ==
  {Reference(p, k, f, v) : p \in {NoAlias, "a", "-a"}, k \in Components, f \in Components, v \in Components}

Referents == {NilValue, MapAt(1), PointerTo(3), SliceOf(2, 0), SliceOf(2, 1), SliceOf(2, 2)}
AllGraphs ==
  {<<[a |-> p, b |-> q], [first |-> r, second |-> s], [exported |-> t, unexported |-> u]>> :
     p \in Referents, q \in Referents, r \in Referents \cup {Scalar(1)}, s \in {Scalar(1), PointerTo(3)},
     t \in Referents, u \in {NilValue, MapAt(1)}}

Steps == {"a", "b", "first", "second", "exported"}
AllPaths == {<<>>} \cup {<<l>> : l \in {"a", "b"}}
            \cup {<<l, m>> : l \in {"a", "b"}, m \in Steps}
            \cup {<<l, m, n>> : l \in {"a", "b"}, m \in {"first", "second", "exported"}, n \in Steps}
=============================================================================
