------------------------------- MODULE Layers -------------------------------
(***************************************************************************)
(* One load of the configuration on nested trees: every source is read,    *)
(* composed, resolved for the environment and tracked, the layers are      *)
(* merged, secret references are materialized, and keys are set at run     *)
(* time.  The order of concurrent loads and mutations is the subject of    *)
(* ConfigTxn and IncrementalReload; here one goroutine owns the candidate. *)
(***************************************************************************)
EXTENDS Composition, Environments, Materialization

CONSTANTS
  Contents(_),    \* the trees a source may hold, by source name
  MaxSets         \* bound on the number of Set calls

VARIABLES
  opts,           \* what New decided: a Materialization plan with merger, env, strategy,
                  \* policy, onError, sources, declared (sensitive paths), frozen,
                  \* sysenvFallback and files (those that can be included)
  surroundings,   \* what the caller will do and ask: sysenv, intended, assignments
  next,           \* index of the source to load; past the last one, loading is over
  phase,          \* "loading", "merged", "live" or "failed"
  layers,         \* configs and resolvedConfigs with their source, for the merge
  writers,        \* leaf path -> families and sources that wrote it
  planError,      \* sourcePlanErr
  conflicts,      \* plan.Conflicts
  tracker,        \* sourceTracker: leaf path -> record of its origin
  merged,         \* c.mergedConfig
  raw,            \* c.unresolvedEnvConfig
  live,           \* c.envConfig
  sensitive,      \* c.sensitivePaths
  before,         \* live before the last Set
  validatedModel, \* the tree the cached typed model was decoded from, or Missing
  sets            \* Set calls made (bound)

loadVars == <<opts, surroundings, next, layers, writers, planError, conflicts>>
vars == <<opts, surroundings, next, phase, layers, writers, planError, conflicts, tracker, merged, raw, live,
          sensitive, before, validatedModel, sets>>

Sources == opts.sources
NoWriters == [p \in {} |-> <<>>]

\* Nothing is loaded yet; opts and surroundings are the caller's.
LoadInit ==
  /\ next = 1 /\ phase = "loading" /\ layers = <<>> /\ sets = 0
  /\ writers = NoWriters /\ planError = FALSE /\ conflicts = {}
  /\ tracker = [p \in {} |-> <<>>]
  /\ merged = EmptyTree /\ raw = EmptyTree /\ live = EmptyTree /\ before = EmptyTree
  /\ sensitive = {} /\ validatedModel = Missing

(***************************************************************************)
(* Tracking (sourcetrack/tracker.go), in debug mode.                       *)
(***************************************************************************)
Origin(n, source) == [value |-> n, source |-> source, overrides |-> 0, history |-> <<>>]

\* Mutant: a write of an equal value leaves the recorded source alone.
KeepFirstSource(t, p, n, source) ==
  IF p \in DOMAIN t /\ t[p].value = n THEN t
  ELSE IF p \in DOMAIN t
       THEN (p :> [value |-> n, source |-> source, overrides |-> t[p].overrides + 1,
                   history |-> Append(t[p].history, [value |-> t[p].value, source |-> t[p].source])]) @@ t
       ELSE (p :> Origin(n, source)) @@ t

TrackValue(t, p, n, source) ==
  LET old == t[p]
      record == IF p \notin DOMAIN t THEN Origin(n, source)
                ELSE IF old.value = n THEN [old EXCEPT !.source = source]
                ELSE [value |-> n, source |-> source, overrides |-> old.overrides + 1,
                      history |-> Append(old.history, [value |-> old.value, source |-> old.source])]
  IN (p :> record) @@ t

TrackConfig(t, tree, source) ==
  LET flat == Flat(tree)
  IN [p \in DOMAIN t \cup DOMAIN flat |->
        IF p \in DOMAIN flat THEN TrackValue(t, p, flat[p], source)[p] ELSE t[p]]

(***************************************************************************)
(* Loading (loadSelected with every source selected).                      *)
(***************************************************************************)
\* The environment model a layer belongs to: "" for a flat one.
Family(source, composed) ==
  IF source.envFile THEN "named_files"
  ELSE IF IsEnvironmentAware(composed, opts.env) THEN "sectioned" ELSE ""

ResolvedLayer(source, composed) ==
  IF source.envFile THEN composed ELSE Resolve(composed, opts.env)

Written(source, family, resolved) ==
  IF family = "" THEN writers
  ELSE LET keys == DOMAIN Flat(resolved)
           Of(p) == IF p \in DOMAIN writers THEN writers[p] ELSE <<>>
       IN [p \in DOMAIN writers \cup keys |->
             IF p \in keys THEN Append(Of(p), [family |-> family, source |-> source.name])
             ELSE Of(p)]

Skip ==
  /\ next' = next + 1
  /\ UNCHANGED <<opts, surroundings, phase, layers, writers, planError, conflicts, tracker, merged, raw, live,
                 sensitive, before, validatedModel, sets>>

Fail ==
  /\ phase' = "failed"
  /\ UNCHANGED <<loadVars, tracker, merged, raw, live, sensitive, before, validatedModel, sets>>

AddLayer(source, text, composed, deps) ==
  LET family == Family(source, composed)
      resolved == ResolvedLayer(source, composed)
  IN /\ layers' = Append(layers, [source |-> source, text |-> text, composed |-> composed,
                                  resolved |-> resolved, deps |-> deps])
     /\ writers' = Written(source, family, resolved)
     /\ planError' = (planError \/ (opts.strategy = "named_files" /\ family = "sectioned"))
     /\ tracker' = TrackConfig(tracker, resolved, source.name)
     /\ next' = next + 1
     /\ UNCHANGED <<opts, surroundings, phase, conflicts, merged, raw, live, sensitive, before, validatedModel, sets>>

Loading == phase = "loading" /\ next <= Len(Sources)

\* The loader has no data, or an error that the policy lets pass; or the error is
\* raised, as that of a canceled startup is under every policy.
LoadNothing == Loading /\ (Skip \/ Fail)

LoadSource ==
  /\ Loading
  /\ \E tree \in Contents(Sources[next].name) :
       LET composition == ComposeWithDependencies(opts.files, opts.merger, tree)
       IN \/ composition.ok /\ AddLayer(Sources[next], tree, composition.tree, composition.deps)
          \/ ~composition.ok /\ opts.onError # "raise" /\ AddLayer(Sources[next], tree, tree, <<>>)
          \/ ~composition.ok /\ opts.onError = "raise" /\ Fail

UsesEnvironmentFiles == \E i \in DOMAIN layers : layers[i].source.envFile
SawSectioned == \E i \in DOMAIN layers : Family(layers[i].source, layers[i].composed) = "sectioned"

ComposedLayers == [i \in DOMAIN layers |-> layers[i].composed]
ResolvedLayers == [i \in DOMAIN layers |-> layers[i].resolved]

\* Sources selected by an environment file name make every layer resolve on its own.
MergeLayers ==
  LET all == MergeAll(opts.merger, ComposedLayers)
      envFiles == \E i \in DOMAIN Sources : Sources[i].envFile
      found == MixedConflicts(writers)
      refused == /\ opts.strategy = "hybrid"
                 /\ \/ ~UsesEnvironmentFiles \/ ~SawSectioned
                    \/ found # {} /\ opts.policy = "error"
  IN /\ phase = "loading" /\ next > Len(Sources)
     /\ phase' = IF planError \/ refused THEN "failed" ELSE "merged"
     /\ merged' = IF planError THEN EmptyTree ELSE all
     /\ raw' = IF planError THEN EmptyTree
               ELSE IF envFiles THEN MergeAll(opts.merger, ResolvedLayers) ELSE Resolve(all, opts.env)
     /\ conflicts' = IF opts.strategy = "hybrid" THEN found ELSE {}
     /\ UNCHANGED <<opts, surroundings, next, layers, writers, planError, tracker, live, sensitive, before, validatedModel, sets>>

(***************************************************************************)
(* Materialization of the selected tree, and validation of the result.     *)
(***************************************************************************)
Effective(t) == MaterializeTree(opts, t)

Materialize ==
  /\ phase = "merged" /\ AdmitBeforeResolution(opts, raw) /\ ~Fails(Dict(Effective(raw)))
  /\ phase' = "materialized"
  /\ live' = Effective(raw) /\ before' = live'
  /\ sensitive' = SensitivePathsForConfig(raw, opts.declared)
  /\ validatedModel' = Missing
  /\ UNCHANGED <<loadVars, tracker, merged, raw, sets>>

\* A reference or the shape is refused, a reference has no value, or what a
\* provider holds cannot be had.
RefuseShape == phase = "merged" /\ ~AdmitBeforeResolution(opts, raw) /\ Fail
ResolutionFails ==
  /\ phase = "merged" /\ AdmitBeforeResolution(opts, raw)
  /\ SecretReferenceKeys(raw) # {} \/ Fails(Dict(Effective(raw)))
  /\ Fail

Validate ==
  /\ phase = "materialized"
  /\ phase' = IF ValidateCandidate(opts, live) THEN "live" ELSE "failed"
  /\ UNCHANGED <<loadVars, tracker, merged, raw, live, sensitive, before, validatedModel, sets>>

(***************************************************************************)
(* Set: the three trees are written together or not at all.                *)
(***************************************************************************)
Assigned(a) ==
  LET value == MaterializeNode(opts, a[1], a[2])
  IN [live |-> Set(live, a[1], value), raw |-> Set(raw, a[1], a[2]),
      merged |-> Set(merged, a[1], a[2]), refused |-> Fails(value)]

Settable(new) ==
  /\ Conflict \notin {new.live, new.raw, new.merged} /\ ~new.refused
  /\ ValidateCandidate(opts, new.live)

\* Mutant: Set replaces the trees but keeps the classification of the old ones.
SetKeepsPaths ==
  /\ phase = "live" /\ ~opts.frozen /\ sets < MaxSets
  /\ \E a \in surroundings.assignments :
       LET new == Assigned(a)
       IN /\ Settable(new)
          /\ live' = new.live /\ raw' = new.raw /\ merged' = new.merged
          /\ tracker' = TrackValue(tracker, a[1], a[2], "set")
  /\ before' = live /\ sets' = sets + 1 /\ validatedModel' = Missing
  /\ UNCHANGED <<loadVars, phase, sensitive>>

SetKey ==
  /\ phase = "live" /\ ~opts.frozen /\ sets < MaxSets
  /\ \E a \in surroundings.assignments :
       LET new == Assigned(a)
       IN /\ Settable(new)
          /\ live' = new.live /\ raw' = new.raw /\ merged' = new.merged
          /\ sensitive' = SensitivePathsForConfig(new.raw, opts.declared)
          /\ tracker' = TrackValue(tracker, a[1], a[2], "set")
          /\ validatedModel' = Missing
  /\ before' = live /\ sets' = sets + 1
  /\ UNCHANGED <<loadVars, phase>>

LoadStep == LoadNothing \/ LoadSource \/ MergeLayers

(***************************************************************************)
(* Properties.                                                             *)
(***************************************************************************)
\* A later tree decides what is at p: it has something there, or it has a
\* leaf or a list above p.
Touches(t, p) ==
  \/ Has(t, p)
  \/ \E n \in 1..Len(p) - 1 : LET above == Get(t, SubSeq(p, 1, n))
                              IN above # Missing /\ ~IsDict(above)

\* The leaves that the last of a sequence of trees to touch their path supplies.
LastWritten(trees) ==
  LET At(p) == {i \in DOMAIN trees : Touches(trees[i], p)}
      Newest(p) == CHOOSE i \in At(p) : \A j \in At(p) : j <= i
      paths == {p \in UNION {DOMAIN Flat(trees[i]) : i \in DOMAIN trees} :
                  p \in DOMAIN Flat(trees[Newest(p)])}
  IN [p \in paths |-> Flat(trees[Newest(p)])[p]]

\* The elements that every layer contributes to the list at p.
RECURSIVE Elements(_, _)
Elements(trees, p) ==
  IF trees = <<>> THEN <<>>
  ELSE (IF Has(Head(trees), p) THEN ToSlice(Get(Head(trees), p)) ELSE <<>>) \o Elements(Tail(trees), p)

\* The merge of all layers, taken pairwise with rules looked up per path, means
\* what docs/merging.md says of the layers as a whole: the last writer of a
\* path wins under deep_merge and union, the last layer alone counts under
\* replace, every leaf of an intersection is a leaf of all layers, and where every
\* layer that has a path governed by append or prepend has a list there, the merged
\* list holds the elements of all of them in order.  Nothing is said of
\* those two on other operands, which the code wraps (merge/strategy.go:230-253) and
\* docs/merging.md:56-57 has replaced by the overlay.
MergeExact ==
  phase = "merged" /\ layers # <<>> =>
    LET m == opts.merger
        trees == ComposedLayers
        last == trees[Len(trees)]
        Holders(p) == {i \in DOMAIN trees : Has(trees[i], p)}
    IN /\ m.default \in {"deep", "union"} =>
            \A p \in DOMAIN LastWritten(trees) \cup DOMAIN Flat(merged) :
               (\A q \in DOMAIN m.paths : ~AtOrAbove(q, p) /\ ~AtOrAbove(p, q)) =>
                  /\ p \in DOMAIN LastWritten(trees) \cap DOMAIN Flat(merged)
                  /\ Flat(merged)[p] = LastWritten(trees)[p]
       /\ (m.default = "replace" /\ m.paths = NoWriters) => merged = last
       /\ (m.default = "shallow" /\ m.paths = NoWriters) =>
            \A k \in DOMAIN merged :
               \E i \in Holders(<<k>>) : merged[k] = trees[i][k] /\ \A j \in Holders(<<k>>) : j <= i
       /\ m.default = "intersection" =>
            \A p \in UNION {DOMAIN Flat(trees[i]) : i \in DOMAIN trees}, n \in {Flat(last)[q] : q \in DOMAIN Flat(last)} :
               Get(merged, p) = n <=> \A i \in DOMAIN trees : Get(trees[i], p) = n
       /\ \A p \in {q \in DOMAIN m.paths :
                     /\ m.default \in {"deep", "union"} /\ m.paths[q] \in {"append", "prepend"}
                     /\ Cardinality(Holders(q)) > 1
                     /\ \A i \in DOMAIN trees : Touches(trees[i], q) => IsList(Get(trees[i], q))} :
            IF m.paths[p] = "append" THEN Get(merged, p) = List(Elements(trees, p))
            ELSE Get(merged, p) = List(Elements(Reverse(trees), p))

\* The sources of which the tracker can speak: flat ones, or environment files
\* next to anything, merged key by key.
TrackedExactly ==
  /\ opts.merger = [default |-> "deep", paths |-> NoWriters]
  /\ UsesEnvironmentFiles \/ (~SawSectioned /\ raw = merged)

\* Explain names the layer that supplies the effective value of a key, with
\* that value, and its history is the values it replaced, all different from
\* their successor (sourcetrack/tracker.go, config_load.go).
ExplainedExactly ==
  phase = "merged" /\ TrackedExactly =>
    \A p \in DOMAIN Flat(raw) :
      LET info == tracker[p]
          supplied == {i \in DOMAIN layers : p \in DOMAIN Flat(layers[i].resolved)}
          values == Append([i \in DOMAIN info.history |-> info.history[i].value], info.value)
      IN /\ p \in DOMAIN tracker /\ info.value = Flat(raw)[p]
         /\ \E i \in supplied : info.source = layers[i].source.name /\ \A j \in supplied : j <= i
         /\ info.overrides = Len(info.history)
         /\ \A i \in 1..Len(values) - 1 : values[i] # values[i + 1]

\* In hybrid mode a configuration loads only with both models present, under
\* the error policy only if no key is supplied by both, and otherwise with
\* exactly those keys listed as conflicts (config_environment_strategy.go).
ConflictsExact ==
  phase \in {"merged", "live"} /\ opts.strategy = "hybrid" =>
    LET model(f) == {i \in DOMAIN layers : Family(layers[i].source, layers[i].composed) = f}
        keys(f) == UNION {DOMAIN Flat(layers[i].resolved) : i \in model(f)}
    IN /\ model("named_files") # {} /\ model("sectioned") # {}
       /\ {c.key : c \in conflicts} = keys("named_files") \cap keys("sectioned")
       /\ opts.policy = "error" => conflicts = {}

ProvenanceExact == ExplainedExactly /\ ConflictsExact

\* The effective tree stays the materialization of the unresolved one, and the
\* sensitive paths stay its classification, whatever nested paths are set over
\* references, documents and lists (config_runtime_mutation.go).
SnapshotMaterialized ==
  phase = "live" =>
    live = Effective(raw) /\ sensitive = SensitivePathsForConfig(raw, opts.declared)

\* A configuration a caller can see satisfies the validation it was built with,
\* at construction and after every Set (config_validation.go).
PublishedValid == phase = "live" => ValidateCandidate(opts, live)

\* What a file contributes, in the order of force: defaults, its own keys,
\* then every included file in list order.
RECURSIVE Contributions(_)
Contributions(t) ==
  LET own == Without(Without(t, "_include"), "_defaults")
      defaults == IF "_defaults" \in DOMAIN t THEN ProcessDefaults(t["_defaults"]) ELSE EmptyTree
      names == IF "_include" \in DOMAIN t THEN IncludePaths(t["_include"]) ELSE <<>>
  IN FoldLeft(LAMBDA acc, n: acc \o Contributions(opts.files[n]), <<defaults, own>>, names)

Mentions(t) == IF "_include" \in DOMAIN t THEN Len(IncludePaths(t["_include"])) ELSE 0
RECURSIVE AllMentions(_)
AllMentions(names) ==
  IF names = <<>> THEN 0 ELSE Mentions(opts.files[Head(names)]) + AllMentions(Tail(names))

\* A composed layer keeps no directive; no file is included twice in a traversal,
\* so include cycles end, also those through the source itself; and where no file
\* is mentioned twice, every included file overrides its includer and its earlier
\* siblings, defaults in any of their forms yield to all (docs/composition.md,
\* compose/composer.go).
ComposedExactly ==
  \A i \in DOMAIN layers :
    LET l == layers[i]
        files == l.deps
        trees == Contributions(l.text)
    IN l.composed # l.text =>
         /\ {"_include", "_defaults", "_merge_strategy"} \cap DOMAIN l.composed = {}
         /\ Cardinality(Range(files)) = Len(files)
         /\ (/\ opts.merger.default = "deep" /\ opts.merger.paths = NoWriters
             /\ Mentions(l.text) + AllMentions(files) = Len(files)) =>
              \A p \in DOMAIN LastWritten(trees) : Get(l.composed, p) = LastWritten(trees)[p]
=============================================================================
