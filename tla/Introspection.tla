---------------------------- MODULE Introspection ----------------------------
(***************************************************************************)
(* What a caller can read out of a loaded configuration: values and typed  *)
(* getters (config_access), provenance and documentation (config_inspect), *)
(* redacted exports and differences.  Every view is a function of one      *)
(* state of Layers.                                                        *)
(***************************************************************************)
EXTENDS Layers

(***************************************************************************)
(* Reads.                                                                  *)
(***************************************************************************)
\* Get with WithSysenvFallback: the variable named after the path, if any.
Read(p) ==
  IF Has(live, p) THEN Get(live, p)
  ELSE IF opts.sysenvFallback /\ p \in surroundings.sysenv THEN Leaf("from OS") ELSE Missing

Exists(p) == Has(live, p) \/ (opts.sysenvFallback /\ p \in surroundings.sysenv)

(***************************************************************************)
(* Provenance.                                                             *)
(***************************************************************************)
\* sensitivePathLocked: the recorded paths, and those of the unresolved tree.
Hidden(p) == PathIsSensitive(p, sensitive) \/ PathIsSensitive(p, SensitivePathsForConfig(raw, opts.declared))
Shown(p, n) == IF Hidden(p) THEN Redacted ELSE n

RedactInfo(info) ==
  [info EXCEPT !.value = Redacted,
               !.history = [i \in DOMAIN @ |-> [@[i] EXCEPT !.value = Redacted]]]

SourceInfo(p) == IF Hidden(p) THEN RedactInfo(tracker[p]) ELSE tracker[p]

Explain(p) ==
  IF p \notin DOMAIN tracker THEN Missing
  ELSE [info |-> SourceInfo(p), current |-> IF Has(live, p) THEN Shown(p, Get(live, p)) ELSE Missing]

Schema(p) == IF Has(live, p) THEN Shown(p, Get(live, p)) ELSE Missing

Conflicts == {p \in DOMAIN tracker : tracker[p].overrides > 0}

\* Keys whose source is exactly s: the code matches a substring of its name.
FindKeysFromSource(s) == {p \in DOMAIN tracker : tracker[p].source = s}

\* Tracker.RedactValues on the detached copy: the recorded paths only.
DetachedTracker ==
  [p \in DOMAIN tracker |->
     IF PathIsSensitive(p, sensitive) THEN RedactInfo(tracker[p]) ELSE tracker[p]]

(***************************************************************************)
(* Documents: the key inventory, the redacted export and the drift from an *)
(* intended tree.  DetectDrift and Diff copy the values under one lock and *)
(* the sensitive paths under another: copied is what they hold in between. *)
(***************************************************************************)
GenerateDocs == [p \in DOMAIN Flat(live) |-> Shown(p, Flat(live)[p])]

RedactedDict == RedactSensitiveValues(live, sensitive)

VARIABLES
  copied,         \* values copied for a drift report, or NotCopied
  decoding        \* the snapshot a Typed call is decoding, or Missing
NotCopied == Missing

CopyForDrift ==
  /\ phase = "live" /\ copied = NotCopied
  /\ copied' = live /\ UNCHANGED <<vars, decoding>>

\* What is returned once the paths are read too.
Drift == RedactDiffs(Diff(surroundings.intended, copied), sensitive)

ReturnDrift == copied # NotCopied /\ copied' = NotCopied /\ UNCHANGED <<vars, decoding>>

(***************************************************************************)
(* Typed: a snapshot is decoded and validated without the lock, and kept   *)
(* as the cached model only if the configuration still holds its values.   *)
(***************************************************************************)
StartTyped ==
  /\ phase = "live" /\ validatedModel = Missing /\ decoding = Missing
  /\ decoding' = live /\ UNCHANGED <<vars, copied>>

FinishTyped ==
  /\ decoding # Missing
  /\ validatedModel' = IF decoding = live THEN decoding ELSE validatedModel
  /\ decoding' = Missing
  /\ UNCHANGED <<opts, surroundings, next, phase, layers, writers, planError, conflicts, tracker, merged, raw, live,
                 sensitive, before, sets, copied>>

\* The decoder or the validator rejects the snapshot.
RejectTyped == decoding # Missing /\ decoding' = Missing /\ UNCHANGED <<vars, copied>>

NothingViewed == copied = NotCopied /\ decoding = Missing
ViewStep == CopyForDrift \/ ReturnDrift \/ StartTyped \/ FinishTyped \/ RejectTyped

(***************************************************************************)
(* Properties.                                                             *)
(***************************************************************************)
\* What a caller can see belongs together: the effective tree is the
\* materialization of the unresolved one and satisfies the validation, the
\* sensitive paths are its classification, and the cached typed model is its
\* decoding, however Set and decoding interleave (config_access.go).
PublishedSound ==
  /\ SnapshotMaterialized /\ PublishedValid
  /\ validatedModel # Missing => validatedModel = live

RECURSIVE Holds(_, _)
Holds(n, secrets) ==
  IF IsDict(n) THEN \E k \in DOMAIN n.map : Holds(n.map[k], secrets)
  ELSE IF IsList(n) THEN \E i \in DOMAIN n.list : Holds(n.list[i], secrets)
  ELSE n \in secrets

InfoHolds(info, secrets) ==
  Holds(info.value, secrets) \/ \E i \in DOMAIN info.history : Holds(info.history[i].value, secrets)


\* Every path a caller could ask about.
Askable == UNION {{SubSeq(p, 1, n) : n \in 1..Len(p)} : p \in DOMAIN Flat(live) \cup DOMAIN tracker}

\* What the hooks make of the unresolved tree before the secret hook has its turn.
AfterHooks == MaterializeTree([opts EXCEPT !.resolve = [n \in DOMAIN Placeholders |-> n]], raw)

\* Every reference that a hook makes up lies under a declared path, as
\* docs/introspection.md:44-46 asks: nothing else tells that its value is a secret.
MintedAreDeclared ==
  \A p \in SecretReferenceKeys(AfterHooks) \ SecretReferenceKeys(raw) :
     \E d \in opts.declared : AtOrAbove(d, p)

\* What the secret stores of the scenes hold.
Secrets == {Leaf("s3cret"), Leaf("private"), Leaf("minted")}

\* No inspection method shows a value that came from a secret store, or one
\* that lies at or below a path declared sensitive, whatever the shape of the
\* secret (a scalar, a document, an element of a list) and whoever supplied the
\* reference: a layer, a run-time Set, or a hook that puts one under a declared path
\* (config_inspect.go, config_redacted.go, diff).  A drift report may show one, but
\* only at a path that a Set has changed between its two locks (config_observe.go:137-143).
\* Nothing is said of a configuration whose hooks put references elsewhere.
NoSecretShown ==
  phase = "live" /\ MintedAreDeclared =>
    /\ \A p \in Askable :
         /\ ~Holds(Schema(p), Secrets)
         /\ p \in DOMAIN tracker =>
              /\ ~InfoHolds(Explain(p).info, Secrets) /\ ~Holds(Explain(p).current, Secrets)
              /\ ~InfoHolds(DetachedTracker[p], Secrets)
    /\ \A p \in DOMAIN GenerateDocs : ~Holds(GenerateDocs[p], Secrets)
    /\ ~Holds(Dict(RedactedDict), Secrets)
    /\ copied # NotCopied =>
         \A d \in AllEntries(Drift) :
           Holds(d.old, Secrets) \/ Holds(d.new, Secrets) => Get(live, d.path) # Get(copied, d.path)

\* t after the changes a difference lists.
RECURSIVE Patch(_, _)
Patch(t, diffs) ==
  LET At(d) == d.path[Len(d.path)]
      changed == {At(d) : d \in diffs}
      of(k) == CHOOSE d \in diffs : At(d) = k
      gone == {At(d) : d \in {e \in diffs : e.type = "removed"}}
  IN [k \in (DOMAIN t \cup changed) \ gone |->
        IF k \notin changed THEN t[k]
        ELSE IF of(k).nested # {} THEN Dict(Patch(t[k].map, of(k).nested))
        ELSE of(k).new]

\* A difference is complete and minimal: applying it to the first tree gives the
\* second, every value it calls old is the one that was there, and it is empty
\* exactly when nothing changed (diff/differ.go).
DiffExplains ==
  phase = "live" =>
    \A t \in {before, surroundings.intended} :
      /\ Patch(t, Diff(t, live)) = live
      /\ \A d \in AllEntries(Diff(t, live)) : Get(t, d.path) = d.old /\ Get(live, d.path) = d.new
      /\ Diff(t, live) = {} <=> t = live
=============================================================================
