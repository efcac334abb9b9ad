----------------------------- MODULE ConfigData -----------------------------
(***************************************************************************)
(* The data of one Config: what a snapshot holds and what each operation   *)
(* computes from it.  A configuration tree is abstracted to the leaves the *)
(* properties tell apart: a tree maps every key to a value or to Absent.   *)
(* A value is a literal, a resolved secret, a secret reference             *)
(* ("${secret:...}") or a reference to another key of the same             *)
(* configuration ("${json:self#key}", always to SelfKey).                  *)
(*                                                                         *)
(* The two unresolved views of the code, unresolvedEnvConfig and           *)
(* mergedConfig, receive the same raw value in every operation; here the   *)
(* field raw stands for both.                                              *)
(***************************************************************************)
EXTENDS Naturals, Sequences

CONSTANTS Key,        \* leaf key paths
          Literal,    \* plain values
          SecretVal,  \* values a secret provider may return
          Source,     \* loader sources
          Absent,     \* "no value at this key"
          SecretRef,  \* an unresolved ${secret:...} reference
          SelfRef,    \* an unresolved ${json:self#SelfKey} reference
          SelfKey,    \* the key every SelfRef reads
          Declared    \* paths declared with WithSensitivePaths

ASSUME DataAssumption ==
  /\ SelfKey \in Key
  /\ Declared \subseteq Key
  /\ Literal \cap SecretVal = {}
  /\ {Absent, SecretRef, SelfRef} \cap (Literal \cup SecretVal) = {}
  /\ Absent # SecretRef /\ Absent # SelfRef /\ SecretRef # SelfRef
  /\ Source \cap {"none", "runtime", "override", "version"} = {}

Val == Literal \cup SecretVal \cup {Absent, SecretRef, SelfRef}
Tree == [Key -> Val]

\* Who last wrote a key: a source, Set, Override or a restored version.
Owner == Source \cup {"none", "runtime", "override", "version"}

\* One published snapshot: unresolved and effective views, provenance
\* (sourceTracker) and sensitive paths.
Snapshot == [raw: Tree, env: Tree, prov: [Key -> Owner], sens: SUBSET Key]

-----------------------------------------------------------------------------
\* The hook chain on one leaf: the structured resolver reads SelfKey in the
\* unresolved root, then the secret hook, always last, resolves a reference.
Resolve(v, root, secret) ==
  LET text == IF v = SelfRef THEN root[SelfKey] ELSE v
  IN  IF text = SecretRef THEN secret ELSE text

Materialize(root, secret) == [k \in Key |-> Resolve(root[k], root, secret)]

\* A self reference to a missing key is an error: "field not found".
Resolvable(pay, root) ==
  (\E k \in Key \ {SelfKey} : pay[k] = SelfRef) => root[SelfKey] # Absent

\* Every path of a payload is materialized on its own, against the root with
\* only that path replaced.
MaterializePayload(pay, root, secret) ==
  [k \in Key |-> Resolve(pay[k], [root EXCEPT ![k] = pay[k]], secret)]

\* What a payload may become: only the value of SelfKey and the secret matter.
RootWith(v) == [k \in Key |-> IF k = SelfKey THEN v ELSE Absent]
Materialized(pay) ==
  {MaterializePayload(pay, RootWith(v), secret) : v \in Val, secret \in SecretVal}

Overlay(tree, pay) == [k \in Key |-> IF pay[k] = Absent THEN tree[k] ELSE pay[k]]

\* sensitivePathsForConfig: keys holding a secret reference, and declared ones.
SensitivePaths(raw) == {k \in Key : raw[k] = SecretRef} \cup Declared

-----------------------------------------------------------------------------
\* Mutant: the sensitive paths are not recomputed.
SetPathsKeepingSens(S, pay, eff, label) ==
  [raw  |-> Overlay(S.raw, pay),
   env  |-> [k \in Key |-> IF pay[k] = Absent THEN S.env[k] ELSE eff[k]],
   prov |-> [k \in Key |-> IF pay[k] = Absent THEN S.prov[k] ELSE label],
   sens |-> S.sens]

\* runtimeMutationCandidate.set for each path of a payload.
SetPaths(S, pay, eff, label) ==
  LET raw == Overlay(S.raw, pay)
  IN  [raw  |-> raw,
       env  |-> [k \in Key |-> IF pay[k] = Absent THEN S.env[k] ELSE eff[k]],
       prov |-> [k \in Key |-> IF pay[k] = Absent THEN S.prov[k] ELSE label],
       sens |-> SensitivePaths(raw)]

Highest(S) == CHOOSE i \in S : \A j \in S : j <= i

\* The layers, by position, that define key k; the last one wins the merge.
Writers(layers, disk, k) == {i \in DOMAIN layers : disk[layers[i]][k] # Absent}

LoadLayers(layers, disk) ==
  [k \in Key |-> LET w == Writers(layers, disk, k)
                 IN  IF w = {} THEN Absent ELSE disk[layers[Highest(w)]][k]]

Reloaded(layers, disk, secret) ==
  LET raw == LoadLayers(layers, disk)
  IN  [raw  |-> raw,
       env  |-> Materialize(raw, secret),
       prov |-> [k \in Key |-> LET w == Writers(layers, disk, k)
                               IN  IF w = {} THEN "none" ELSE layers[Highest(w)]],
       sens |-> SensitivePaths(raw)]

Extended(S, src, disk, secret) ==
  LET raw == Overlay(S.raw, disk[src])
  IN  [raw  |-> raw,
       env  |-> Materialize(raw, secret),
       prov |-> [k \in Key |-> IF disk[src][k] = Absent THEN S.prov[k] ELSE src],
       sens |-> SensitivePaths(raw)]

Refreshed(S, secret) ==
  [S EXCEPT !.env = Materialize(S.raw, secret), !.sens = SensitivePaths(S.raw)]

\* What SaveVersion keeps: the effective tree and its sensitive paths.
SavedSnapshot == [env : Tree, sens : SUBSET Key]

Saved(S) == [env |-> S.env, sens |-> S.sens]

RolledBack(v) ==
  [raw  |-> v.env,
   env  |-> v.env,
   prov |-> [k \in Key |-> IF v.env[k] = Absent THEN "none" ELSE "version"],
   sens |-> v.sens]

-----------------------------------------------------------------------------
Frame == [id : Nat, pay : Tree, eff : Tree]

\* An override stack is a set of frames: ids grow with every push, so push order
\* is id order.  The frames whose payload has key k, and the newest of a set.
Covering(frames, k) == {f \in frames : f.pay[k] # Absent}
\* Mutant: the oldest frame wins.
Oldest(frames) == CHOOSE f \in frames : \A g \in frames : f.id <= g.id

Newest(frames) == CHOOSE f \in frames : \A g \in frames : g.id <= f.id

\* The restore closure's rebuild: the captured base with the surviving frames
\* replayed in push order.
Replay(S, frames) ==
  LET top(k) == Newest(Covering(frames, k))
      raw == [k \in Key |-> IF Covering(frames, k) = {} THEN S.raw[k] ELSE top(k).pay[k]]
  IN  [raw  |-> raw,
       env  |-> [k \in Key |-> IF Covering(frames, k) = {} THEN S.env[k] ELSE top(k).eff[k]],
       prov |-> [k \in Key |-> IF Covering(frames, k) = {} THEN S.prov[k] ELSE "override"],
       sens |-> SensitivePaths(raw)]
=============================================================================
