---------------------------- MODULE Composition ----------------------------
(***************************************************************************)
(* Composition directives (compose/composer.go): _defaults go underneath a *)
(* tree, _include puts other files on top of it, recursively.              *)
(*                                                                         *)
(* Directives are ordinary top-level keys until they are deleted, so the   *)
(* merger sees them.  fs maps the name of every readable file to its tree; *)
(* resolving a name to an absolute path is left out.                       *)
(***************************************************************************)
EXTENDS Merging, SequencesExt

CONSTANTS
  MaxDepth,       \* maxDepth: nesting at which composition is refused
  InlineDefaults  \* string leaves with a colon, "key: value" -> [key, value]

ASSUME MaxDepthAssumption == MaxDepth \in Nat \ {0}

Without(t, k) == [j \in DOMAIN t \ {k} |-> t[j]]

\* The keys that one item of _defaults sets: those of a map, or the one of a
\* "key: value" string, whose value stays a string.
DefaultKeys(item) ==
  IF IsDict(item) THEN Without(item.map, "optional")
  ELSE IF item \in DOMAIN InlineDefaults
       THEN InlineDefaults[item].key :> InlineDefaults[item].value
  ELSE EmptyTree

\* A list of items, the later ones in force, or a single string; not a map.
ProcessDefaults(n) ==
  IF IsDict(n) THEN EmptyTree
  ELSE FoldLeft(LAMBDA t, item: DefaultKeys(item) @@ t, EmptyTree, ToSlice(n))

\* The file names of _include; entries that are not names are ignored.
IncludePaths(n) ==
  IF IsList(n)
  THEN LET names == SelectSeq(n.list, LAMBDA item: "leaf" \in DOMAIN item)
       IN [i \in DOMAIN names |-> names[i].leaf]
  ELSE IF "leaf" \in DOMAIN n THEN <<n.leaf>> ELSE <<>>

\* What a composition returns: its tree, and the files read so far in order,
\* which are also the files this traversal has visited.
Composed(t, deps) == [ok |-> TRUE, tree |-> t, deps |-> deps]
Failed(deps) == [ok |-> FALSE, tree |-> EmptyTree, deps |-> deps]

RECURSIVE Compose(_, _, _, _, _)
ProcessIncludes(fs, m, names, depth, deps) ==
  LET Include(acc, name) ==
        LET read == Append(acc.deps, name)
            file == Compose(fs, m, fs[name], depth + 1, read)
        IN IF ~acc.ok \/ name \in Range(acc.deps) THEN acc
           ELSE IF name \notin DOMAIN fs THEN Failed(read)
           ELSE IF ~file.ok THEN file
           ELSE Composed(Merge(m, acc.tree, file.tree), file.deps)
  IN FoldLeft(Include, Composed(EmptyTree, deps), names)

\* Mutant: the keys of the file itself override what it includes.
ComposeOwnKeysWin(fs, m, t, depth, deps) ==
  LET based == IF "_defaults" \in DOMAIN t
               THEN Without(Merge(m, ProcessDefaults(t["_defaults"]), t), "_defaults")
               ELSE t
      included == ProcessIncludes(fs, m, IncludePaths(based["_include"]), depth, deps)
  IN IF depth >= MaxDepth THEN Failed(deps)
     ELSE IF "_include" \notin DOMAIN based THEN Composed(based, deps)
     ELSE IF ~included.ok THEN included
     ELSE Composed(Without(Merge(m, included.tree, based), "_include"), included.deps)

Compose(fs, m, t, depth, deps) ==
  LET based == IF "_defaults" \in DOMAIN t
               THEN Without(Merge(m, ProcessDefaults(t["_defaults"]), t), "_defaults")
               ELSE t
      included == ProcessIncludes(fs, m, IncludePaths(based["_include"]), depth, deps)
  IN IF depth >= MaxDepth THEN Failed(deps)
     ELSE IF "_include" \notin DOMAIN based
          THEN Composed(Without(based, "_merge_strategy"), deps)
     ELSE IF ~included.ok THEN included
     ELSE Composed(Without(Without(Merge(m, based, included.tree), "_include"), "_merge_strategy"),
                   included.deps)

ComposeWithDependencies(fs, m, t) == Compose(fs, m, t, 0, <<>>)
=============================================================================
