------------------------------ MODULE Merging ------------------------------
(***************************************************************************)
(* The strategy-aware merger (merge/strategy.go).                          *)
(*                                                                         *)
(* A merger is [default, paths]: the default strategy and the strategies   *)
(* registered for key paths; a path is governed by the longest registered  *)
(* path at or above it.                                                    *)
(***************************************************************************)
EXTENDS Trees

ResolveStrategy(m, p) ==
  LET above == {q \in DOMAIN m.paths : AtOrAbove(q, p)}
  IN IF above = {} THEN m.default
     ELSE m.paths[CHOOSE q \in above : \A r \in above : Len(r) <= Len(q)]

ToSlice(n) == IF IsList(n) THEN n.list ELSE <<n>>

\* Comparing two lists with == is a run-time panic of the language.
Panic == [panic |-> TRUE]
Same(b, o) == IF IsList(b) /\ IsList(o) THEN Panic ELSE IF b = o THEN b ELSE Missing

\* The maps and scalars both sides agree on; Missing stands for "omit the key".
RECURSIVE IntersectMaps(_, _)
IntersectMaps(base, overlay) ==
  LET Both(b, o) == IF IsDict(b) /\ IsDict(o)
                    THEN LET nested == IntersectMaps(b.map, o.map)
                         IN IF nested = EmptyTree THEN Missing ELSE Dict(nested)
                    ELSE Same(b, o)
      common == DOMAIN base \cap DOMAIN overlay
  IN [k \in {c \in common : Both(base[c], overlay[c]) # Missing} |-> Both(base[k], overlay[k])]

\* The per-key form: nil, not an omitted key, when the two have nothing in common.
Intersect(b, o) ==
  IF IsDict(b) /\ IsDict(o)
  THEN LET nested == IntersectMaps(b.map, o.map)
       IN IF nested = EmptyTree THEN Nil ELSE Dict(nested)
  ELSE IF Same(b, o) = Missing THEN Nil ELSE Same(b, o)

RECURSIVE MergeAt(_, _, _, _)
ApplyStrategy(m, strategy, b, o, p) ==
  LET maps == IsDict(b) /\ IsDict(o)
  IN CASE strategy = "append" -> List(ToSlice(b) \o ToSlice(o))
       [] strategy = "prepend" -> List(ToSlice(o) \o ToSlice(b))
       [] strategy = "intersection" -> Intersect(b, o)
       [] strategy = "shallow" /\ maps -> Dict(ShallowMerge(b.map, o.map))
       [] strategy \in {"deep", "union"} /\ maps -> Dict(MergeAt(m, b.map, o.map, p))
       [] OTHER -> o

\* Mutant: strategies are looked up for the last key alone, not for the whole path.
MergeAtKey(m, base, overlay, prefix) ==
  [k \in DOMAIN base \cup DOMAIN overlay |->
     IF k \notin DOMAIN overlay THEN base[k]
     ELSE IF k \notin DOMAIN base THEN overlay[k]
     ELSE ApplyStrategy(m, ResolveStrategy(m, <<k>>), base[k], overlay[k], <<k>>)]

MergeAt(m, base, overlay, prefix) ==
  LET top == ResolveStrategy(m, prefix)
      kept == IF top = "replace" THEN {} ELSE DOMAIN base
  IN IF top = "intersection" THEN IntersectMaps(base, overlay)
     ELSE [k \in kept \cup DOMAIN overlay |->
             IF k \notin DOMAIN overlay THEN base[k]
             ELSE IF k \notin DOMAIN base THEN overlay[k]
             ELSE LET p == Append(prefix, k)
                  IN ApplyStrategy(m, ResolveStrategy(m, p), base[k], overlay[k], p)]

Merge(m, base, overlay) ==
  IF m.default = "shallow"
  THEN [k \in DOMAIN base \cup DOMAIN overlay |->
          IF k \notin DOMAIN overlay THEN base[k]
          ELSE IF k \in DOMAIN base /\ <<k>> \in DOMAIN m.paths
               THEN ApplyStrategy(m, m.paths[<<k>>], base[k], overlay[k], <<k>>)
               ELSE overlay[k]]
  ELSE MergeAt(m, base, overlay, <<>>)

\* The merged contributions of a sequence of layers, lowest precedence first.
RECURSIVE MergeAll(_, _)
MergeAll(m, layers) ==
  IF layers = <<>> THEN EmptyTree
  ELSE IF Len(layers) = 1 THEN layers[1]
  ELSE Merge(m, MergeAll(m, SubSeq(layers, 1, Len(layers) - 1)), layers[Len(layers)])
=============================================================================
