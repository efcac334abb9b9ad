------------------------------- MODULE Copying -------------------------------
(***************************************************************************)
(* The deep copy that isolates the published configuration from the values *)
(* callers give and get (internal/dictutil/copy.go).                       *)
(*                                                                         *)
(* A heap maps addresses to cells, a cell maps labels to values: the keys  *)
(* of a map, the elements of a backing array, the fields of the struct     *)
(* behind a pointer.  A value is [kind, at, len]: a scalar (at is what it  *)
(* is), a nil, or a reference to the cell at an address, of which a slice  *)
(* shows the first len elements.                                           *)
(***************************************************************************)
EXTENDS Integers, Sequences, FiniteSets, SequencesExt

Scalar(n) == [kind |-> "scalar", at |-> n, len |-> 0]
NilValue == [kind |-> "nil", at |-> 0, len |-> 0]
MapAt(a) == [kind |-> "map", at |-> a, len |-> 0]
PointerTo(a) == [kind |-> "pointer", at |-> a, len |-> 0]
SliceOf(a, n) == [kind |-> "slice", at |-> a, len |-> n]

\* A field that reflection cannot assign.
Unexported == "unexported"

Element == <<"first", "second">>
Shown(n) == {Element[i] : i \in 1..n}

Labels(heap, v) ==
  IF v.kind \in {"scalar", "nil"} THEN {}
  ELSE IF v.kind = "slice" THEN Shown(v.len) ELSE DOMAIN heap[v.at] \ {Unexported}

(***************************************************************************)
(* A copy in progress is [heap, visited, value]: visited maps the kind and *)
(* the address of what has been cloned to its clone.                       *)
(***************************************************************************)
RECURSIVE DeepCopyRV(_, _)
DeepCopyRV(v, st) ==
  LET key == <<v.kind, v.at>>
      new == Cardinality(DOMAIN st.heap) + 1
      clone == [v EXCEPT !.at = new]
      shell == IF v.kind = "slice" THEN [e \in Shown(v.len) |-> NilValue] ELSE st.heap[v.at]
      opened == [heap |-> [a \in 1..new |-> IF a = new THEN shell ELSE st.heap[a]],
                 visited |-> [k \in DOMAIN st.visited \cup {key} |-> IF k = key THEN clone ELSE st.visited[k]],
                 value |-> clone]
      Part(acc, l) == LET part == DeepCopyRV(st.heap[v.at][l], acc)
                      IN [part EXCEPT !.heap[new][l] = part.value]
  IN IF v.kind \in {"scalar", "nil"} THEN [st EXCEPT !.value = v]
     ELSE IF key \in DOMAIN st.visited THEN [st EXCEPT !.value = st.visited[key]]
     ELSE [FoldLeft(Part, opened, SetToSeq(Labels(st.heap, v))) EXCEPT !.value = clone]

NothingVisited == [k \in {} |-> NilValue]

\* Mutant: each top-level entry is cloned on its own.
DeepCopyByEntry(heap, v) ==
  LET new == Cardinality(DOMAIN heap) + 1
      Entry(acc, l) == LET part == DeepCopyRV(heap[v.at][l], [acc EXCEPT !.visited = NothingVisited])
                       IN [part EXCEPT !.heap[new][l] = part.value]
      opened == [heap |-> [a \in 1..new |-> IF a = new THEN heap[v.at] ELSE heap[a]],
                 visited |-> NothingVisited, value |-> v]
  IN [FoldLeft(Entry, opened, SetToSeq(Labels(heap, v))) EXCEPT !.value = [v EXCEPT !.at = new]]

DeepCopyValue(heap, v) == DeepCopyRV(v, [heap |-> heap, visited |-> NothingVisited, value |-> v])

(***************************************************************************)
(* What a reader of v can tell: along every path the scalar, the kind and  *)
(* the length, and which paths lead to the same cell.                      *)
(***************************************************************************)
Nowhere == [kind |-> "nowhere", at |-> 0, len |-> 0]

Follow(heap, v, path) ==
  FoldLeft(LAMBDA w, l: IF w # Nowhere /\ l \in Labels(heap, w) THEN heap[w.at][l] ELSE Nowhere, v, path)

Shape(heap, v, paths) ==
  LET to == [p \in paths |-> Follow(heap, v, p)]
      Reference(w) == w.kind \in {"map", "pointer", "slice"}
  IN [p \in paths |->
        [kind |-> to[p].kind, len |-> to[p].len,
         scalar |-> IF Reference(to[p]) THEN 0 ELSE to[p].at,
         same |-> IF Reference(to[p])
                  THEN {q \in paths : <<to[q].kind, to[q].at>> = <<to[p].kind, to[p].at>>} ELSE {}]]

\* No two slices show different lengths of one backing array.
OneLengthEach(heap, v, paths) ==
  LET slices == {w \in {Follow(heap, v, p) : p \in paths} : w.kind = "slice"}
  IN \A w1, w2 \in slices : w1.at = w2.at => w1.len = w2.len
=============================================================================
