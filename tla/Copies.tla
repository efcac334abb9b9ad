------------------------------- MODULE Copies -------------------------------
(***************************************************************************)
(* A value that enters or leaves the configuration is copied, and its      *)
(* owner goes on writing to it (internal/dictutil/copy.go and its callers  *)
(* in Set, Get and Export): one more journey of a value, next to those of  *)
(* Values.                                                                 *)
(***************************************************************************)
EXTENDS Values, Copying

CONSTANTS
  Graphs,         \* heaps whose map at 1 is the value that is copied
  Paths           \* bound: the paths along which a copy is read

\* given is the heap of the owner; made is the copy, with how the value read
\* when it was made.
InitCopies ==
  \/ Init
  \/ journey = "copy" /\ given \in Graphs /\ todo = {} /\ made = "nothing" /\ bits = 0

DeepCopy ==
  /\ journey = "copy" /\ journey' = "copied"
  /\ made' = [copy |-> DeepCopyValue(given, MapAt(1)), was |-> Shape(given, MapAt(1), Paths),
              lengths |-> OneLengthEach(given, MapAt(1), Paths)]
  /\ UNCHANGED <<given, todo, bits>>

\* The owner of the value writes to a cell of it, and to none of the copy.
OwnerWrites ==
  /\ journey = "copied" /\ journey' = "written"
  /\ \E a \in DOMAIN given : \E l \in DOMAIN given[a] \ {Unexported} :
       made' = [made EXCEPT !.copy.heap[a][l] = Scalar(9)]
  /\ UNCHANGED <<given, todo, bits>>

NextCopies == Next \/ DeepCopy \/ OwnerWrites

SpecCopies == InitCopies /\ [][NextCopies]_vars

-----------------------------------------------------------------------------
\* A copy reads as the value did when it was copied, shared parts and cycles
\* included, and goes on doing so while the owner writes to the value;
\* slices of several lengths over one array aside (internal/dictutil/copy.go).
CopyKeepsShape ==
  journey \in {"copied", "written"} /\ made.lengths =>
    Shape(made.copy.heap, made.copy.value, Paths) = made.was

\* The same of every value, as DeepCopyValue promises of an arbitrary one.
CopyKeepsEveryShape ==
  journey \in {"copied", "written"} =>
    Shape(made.copy.heap, made.copy.value, Paths) = made.was
=============================================================================
