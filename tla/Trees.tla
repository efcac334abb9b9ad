------------------------------- MODULE Trees -------------------------------
(***************************************************************************)
(* Configuration trees, and the pure functions the library applies to      *)
(* them: key paths (configmap), the plain merges (internal/dictutil), the  *)
(* comparison of two trees (diff) and redaction.                           *)
(*                                                                         *)
(* A tree is a function from keys to nodes; a node is a leaf, a list of    *)
(* nodes or a nested tree.  A key path is a sequence of keys: splitting a  *)
(* dotted string is left out, an empty segment is a path of NoPath.        *)
(***************************************************************************)
EXTENDS Naturals, Sequences, FiniteSets, TLC

Leaf(v) == [leaf |-> v]
List(s) == [list |-> s]
Dict(t) == [map |-> t]
IsDict(n) == "map" \in DOMAIN n
IsList(n) == "list" \in DOMAIN n
Nil == Leaf("nil")

EmptyTree == [k \in {} |-> Nil]

Missing == [missing |-> TRUE]
Conflict == [conflict |-> TRUE]

\* p is at or above q.
AtOrAbove(p, q) == Len(p) <= Len(q) /\ SubSeq(q, 1, Len(p)) = p

(***************************************************************************)
(* Key paths.                                                              *)
(***************************************************************************)
RECURSIVE Get(_, _)
Get(t, p) ==
  IF p = <<>> \/ Head(p) \notin DOMAIN t THEN Missing
  ELSE LET n == t[Head(p)]
       IN IF Len(p) = 1 THEN n ELSE IF IsDict(n) THEN Get(n.map, Tail(p)) ELSE Missing

Has(t, p) == Get(t, p) # Missing

RECURSIVE BuildBranch(_, _)
BuildBranch(p, n) == IF p = <<>> THEN n ELSE Dict(Head(p) :> BuildBranch(Tail(p), n))

\* The tree with n stored at p, or Conflict when a segment above p is not a map.
RECURSIVE Set(_, _, _)
Set(t, p, n) ==
  LET k == Head(p)
      Put(m) == (k :> m) @@ t
  IN IF Len(p) = 1 \/ k \notin DOMAIN t THEN Put(BuildBranch(Tail(p), n))
     ELSE IF ~IsDict(t[k]) THEN Conflict
     ELSE LET below == Set(t[k].map, Tail(p), n)
          IN IF below = Conflict THEN Conflict ELSE Put(Dict(below))

\* Every leaf path with its value; a list is a leaf and an empty map has none.
RECURSIVE Flatten(_, _)
Flatten(prefix, t) ==
  LET Of(k) == LET p == Append(prefix, k)
               IN IF IsDict(t[k]) THEN Flatten(p, t[k].map) ELSE p :> t[k]
      parts == {Of(k) : k \in DOMAIN t}
      paths == UNION {DOMAIN f : f \in parts}
  IN [p \in paths |-> (CHOOSE f \in parts : p \in DOMAIN f)[p]]

Flat(t) == Flatten(<<>>, t)

\* Keys(prefix): the leaf paths strictly below prefix, all of them for the root.
Keys(t, prefix) == {p \in DOMAIN Flat(t) : AtOrAbove(prefix, p) /\ p # prefix}

(***************************************************************************)
(* Plain merges.                                                           *)
(***************************************************************************)
RECURSIVE DeepMerge(_, _)
DeepMerge(base, overlay) ==
  [k \in DOMAIN base \cup DOMAIN overlay |->
     IF k \notin DOMAIN overlay THEN base[k]
     ELSE IF k \in DOMAIN base /\ IsDict(base[k]) /\ IsDict(overlay[k])
          THEN Dict(DeepMerge(base[k].map, overlay[k].map))
          ELSE overlay[k]]

ShallowMerge(base, overlay) == overlay @@ base

(***************************************************************************)
(* Differences of two trees, in no particular order: the code sorts them   *)
(* by key.                                                                 *)
(***************************************************************************)
RECURSIVE DiffMaps(_, _, _)
DiffMaps(t1, t2, prefix) ==
  LET Entry(k, type, old, new, nested) ==
        [path |-> Append(prefix, k), type |-> type, old |-> old, new |-> new, nested |-> nested]
      Of(k) ==
        CASE k \notin DOMAIN t1 -> {Entry(k, "added", Missing, t2[k], {})}
          [] k \notin DOMAIN t2 -> {Entry(k, "removed", t1[k], Missing, {})}
          [] k \in DOMAIN t1 \cap DOMAIN t2 /\ IsDict(t1[k]) /\ IsDict(t2[k]) ->
               LET nested == DiffMaps(t1[k].map, t2[k].map, Append(prefix, k))
               IN IF nested = {} THEN {} ELSE {Entry(k, "modified", t1[k], t2[k], nested)}
          [] OTHER ->
               IF t1[k] = t2[k] THEN {} ELSE {Entry(k, "modified", t1[k], t2[k], {})}
  IN UNION {Of(k) : k \in DOMAIN t1 \cup DOMAIN t2}

\* Mutant: only the keys of the first tree are compared.
DiffOfFirst(t1, t2) == DiffMaps(t1, [k \in DOMAIN t1 \cap DOMAIN t2 |-> t2[k]], <<>>)

Diff(t1, t2) == DiffMaps(t1, t2, <<>>)

RECURSIVE AllEntries(_)
AllEntries(diffs) == diffs \cup UNION {AllEntries(d.nested) : d \in diffs}

Summary(diffs) ==
  [type \in {"added", "removed", "modified"} |->
     Cardinality({d \in AllEntries(diffs) : d.type = type})]

(***************************************************************************)
(* Redaction.  A sensitive path hides what is at or below it; an entry     *)
(* that carries a whole subtree is hidden above it too.                    *)
(***************************************************************************)
Redacted == Leaf("[REDACTED]")

ValuePathIsSensitive(p, paths) == \E s \in paths : AtOrAbove(s, p)
\* Mutant: an entry that carries a subtree is not hidden for a path inside it.
OnlyAtOrBelow(p, paths) == ValuePathIsSensitive(p, paths)

PathIsSensitive(p, paths) == \E s \in paths : AtOrAbove(s, p) \/ AtOrAbove(p, s)

RECURSIVE RedactValue(_, _, _)
RedactValue(p, n, paths) ==
  IF p # <<>> /\ ValuePathIsSensitive(p, paths) THEN Redacted
  ELSE IF IsDict(n)
       THEN Dict([k \in DOMAIN n.map |-> RedactValue(Append(p, k), n.map[k], paths)])
  ELSE IF IsList(n) THEN List([i \in DOMAIN n.list |-> RedactValue(p, n.list[i], paths)])
  ELSE n

RedactSensitiveValues(t, paths) == RedactValue(<<>>, Dict(t), paths).map

RECURSIVE RedactDiffs(_, _)
RedactDiffs(diffs, paths) ==
  {LET Hide(n) == IF n # Missing /\ PathIsSensitive(d.path, paths) THEN Redacted ELSE n
   IN [d EXCEPT !.old = Hide(d.old), !.new = Hide(d.new), !.nested = RedactDiffs(@, paths)]
   : d \in diffs}
=============================================================================
