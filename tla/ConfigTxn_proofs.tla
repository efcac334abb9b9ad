-------------------------- MODULE ConfigTxn_proofs --------------------------
(***************************************************************************)
(* Proofs about the transaction engine, for any number of goroutines, keys, *)
(* sources and values and without a bound on calls or on the outside world *)
(* other than the ones the constants name.                                 *)
(***************************************************************************)
EXTENDS ConfigTxn, TLAPS, WellFoundedInduction, SequenceTheorems, FiniteSetTheorems

-----------------------------------------------------------------------------
(* The operators of ConfigData: what each of them returns. *)

\* A nonempty set of naturals with an upper bound has a greatest element.
LEMMA BoundedMax ==
  ASSUME NEW N \in Nat, NEW S, S \subseteq 0..N, S # {}
  PROVE  \E i \in S : \A j \in S : j <= i
<1> DEFINE T == {n \in Nat : N - n \in S}
           Less == {ss \in Nat \X Nat : ss[1] < ss[2]}
<1>1. IsWellFoundedOn(Less, Nat)
  <2>1. Less = OpToRel(<, Nat)
    BY Zenon DEF OpToRel
  <2> QED
    BY <2>1, NatLessThanWellFounded, Zenon
<1>2. PICK s \in S : TRUE
  OBVIOUS
<1>3. T # {} /\ T \subseteq Nat
  <2>1. N - s \in T
    BY <1>2
  <2> QED
    BY <2>1
<1>4. PICK n \in T : \A m \in T : ~(<<m, n>> \in Less)
  <2> HIDE DEF Less, T
  <2> QED
    BY <1>1, <1>3, WFMin
<1>5. ASSUME NEW m \in T PROVE n <= m
  <2>1. m \in Nat /\ n \in Nat
    BY <1>3
  <2>2. <<m, n>> \notin Less
    BY <1>4, Zenon
  <2> QED
    BY <2>1, <2>2
<1>6. ASSUME NEW j \in S PROVE j <= N - n
  <2>1. N - j \in T /\ n \in Nat /\ j \in Nat
    BY <1>3, <1>6
  <2>2. n <= N - j
    BY <2>1, <1>5, Zenon
  <2> QED
    BY <2>1, <2>2
<1>7. N - n \in S
  BY <1>3
<1> QED
  BY <1>6, <1>7, Zenon

\* The last of the layers that define a key is one of them.
LEMMA HighestIsMember ==
  ASSUME NEW N \in Nat, NEW S, S \subseteq 0..N, S # {}
  PROVE  Highest(S) \in S
BY BoundedMax DEF Highest

-----------------------------------------------------------------------------
(* Types *)

\* Materialization of a leaf, of a tree and of a payload yields values.
LEMMA ResolveType ==
  ASSUME NEW v \in Val, NEW root \in Tree, NEW sec \in SecretVal
  PROVE  Resolve(v, root, sec) \in Val
BY DataAssumption DEF Resolve, Tree, Val

LEMMA MaterializeType ==
  ASSUME NEW root \in Tree, NEW sec \in SecretVal
  PROVE  Materialize(root, sec) \in Tree
BY ResolveType DEF Materialize, Tree

LEMMA MaterializePayloadType ==
  ASSUME NEW pay \in Tree, NEW root \in Tree, NEW sec \in SecretVal
  PROVE  MaterializePayload(pay, root, sec) \in Tree
<1>1. ASSUME NEW k \in Key
      PROVE  Resolve(pay[k], [root EXCEPT ![k] = pay[k]], sec) \in Val
  <2>1. pay[k] \in Val /\ [root EXCEPT ![k] = pay[k]] \in Tree
    BY DEF Tree
  <2> QED
    BY <2>1, ResolveType
<1> QED
  BY <1>1 DEF MaterializePayload, Tree

LEMMA ResolveRoot ==
  ASSUME NEW v, NEW r1, NEW r2, NEW sec, r1[SelfKey] = r2[SelfKey]
  PROVE  Resolve(v, r1, sec) = Resolve(v, r2, sec)
BY DEF Resolve

\* Materialization of a payload depends on the root only through SelfKey.
LEMMA MaterializedPayload ==
  ASSUME NEW pay \in Tree, NEW root \in Tree, NEW sec \in SecretVal
  PROVE  MaterializePayload(pay, root, sec) \in Materialized(pay)
<1> DEFINE self == root[SelfKey]
           thin == RootWith(self)
<1>1. self \in Val
  BY DataAssumption DEF Tree
<1>2. ASSUME NEW k \in Key
      PROVE  [root EXCEPT ![k] = pay[k]][SelfKey] = [thin EXCEPT ![k] = pay[k]][SelfKey]
  BY DataAssumption DEF Tree, RootWith
<1>3. ASSUME NEW k \in Key
      PROVE  Resolve(pay[k], [root EXCEPT ![k] = pay[k]], sec)
               = Resolve(pay[k], [thin EXCEPT ![k] = pay[k]], sec)
  <2> DEFINE r1 == [root EXCEPT ![k] = pay[k]]
             r2 == [thin EXCEPT ![k] = pay[k]]
  <2>1. r1[SelfKey] = r2[SelfKey]
    BY <1>2
  <2> HIDE DEF r1, r2
  <2>2. Resolve(pay[k], r1, sec) = Resolve(pay[k], r2, sec)
    BY <2>1, ResolveRoot
  <2> QED
    BY <2>2 DEF r1, r2
<1>4. MaterializePayload(pay, root, sec) = MaterializePayload(pay, thin, sec)
  <2> HIDE DEF thin
  <2> QED
    BY <1>3 DEF MaterializePayload
<1> QED
  BY <1>1, <1>4 DEF Materialized

LEMMA OverlayType ==
  ASSUME NEW tree \in Tree, NEW pay \in Tree
  PROVE  Overlay(tree, pay) \in Tree
BY DEF Overlay, Tree

LEMMA SensitivePathsType ==
  ASSUME NEW raw PROVE SensitivePaths(raw) \subseteq Key
BY DataAssumption DEF SensitivePaths

\* Every operation turns a snapshot into a snapshot.
LEMMA SetPathsType ==
  ASSUME NEW S \in Snapshot, NEW pay \in Tree, NEW eff \in Tree, NEW label \in Owner
  PROVE  SetPaths(S, pay, eff, label) \in Snapshot
<1>1. Overlay(S.raw, pay) \in Tree
  BY OverlayType DEF Snapshot
<1>2. SensitivePaths(Overlay(S.raw, pay)) \subseteq Key
  BY SensitivePathsType
<1>3. [k \in Key |-> IF pay[k] = Absent THEN S.env[k] ELSE eff[k]] \in Tree
  BY DEF Snapshot, Tree
<1>4. [k \in Key |-> IF pay[k] = Absent THEN S.prov[k] ELSE label] \in [Key -> Owner]
  BY DEF Snapshot
<1> QED
  BY <1>1, <1>2, <1>3, <1>4 DEF SetPaths, Snapshot

LEMMA WritersLast ==
  ASSUME NEW layers \in Seq(Source), NEW files \in [Source -> Tree], NEW k \in Key,
         Writers(layers, files, k) # {}
  PROVE  layers[Highest(Writers(layers, files, k))] \in Source
<1>1. Len(layers) \in Nat /\ Writers(layers, files, k) \subseteq 1..Len(layers)
  BY LenProperties DEF Writers
<1>2. Highest(Writers(layers, files, k)) \in 1..Len(layers)
  BY <1>1, HighestIsMember
<1> QED
  BY <1>2, ElementOfSeq

LEMMA LoadLayersType ==
  ASSUME NEW layers \in Seq(Source), NEW files \in [Source -> Tree]
  PROVE  LoadLayers(layers, files) \in Tree
<1>1. ASSUME NEW k \in Key, Writers(layers, files, k) # {}
      PROVE  files[layers[Highest(Writers(layers, files, k))]][k] \in Val
  BY <1>1, WritersLast DEF Tree
<1>2. Absent \in Val
  BY DEF Val
<1> QED
  BY <1>1, <1>2 DEF LoadLayers, Tree

LEMMA ReloadedType ==
  ASSUME NEW layers \in Seq(Source), NEW files \in [Source -> Tree], NEW sec \in SecretVal
  PROVE  Reloaded(layers, files, sec) \in Snapshot
<1> DEFINE raw == LoadLayers(layers, files)
           prov == [k \in Key |-> LET w == Writers(layers, files, k)
                                  IN  IF w = {} THEN "none" ELSE layers[Highest(w)]]
<1>1. raw \in Tree /\ Materialize(raw, sec) \in Tree
  BY LoadLayersType, MaterializeType
<1>2. prov \in [Key -> Owner]
  BY WritersLast DEF Owner
<1>3. SensitivePaths(raw) \subseteq Key
  BY SensitivePathsType
<1> QED
  BY <1>1, <1>2, <1>3 DEF Reloaded, Snapshot

LEMMA ExtendedType ==
  ASSUME NEW S \in Snapshot, NEW src \in Source, NEW files \in [Source -> Tree],
         NEW sec \in SecretVal
  PROVE  Extended(S, src, files, sec) \in Snapshot
<1> DEFINE raw == Overlay(S.raw, files[src])
           prov == [k \in Key |-> IF files[src][k] = Absent THEN S.prov[k] ELSE src]
<1>1. raw \in Tree /\ Materialize(raw, sec) \in Tree
  BY OverlayType, MaterializeType DEF Snapshot
<1>2. prov \in [Key -> Owner]
  BY DEF Snapshot, Owner
<1>3. SensitivePaths(raw) \subseteq Key
  BY SensitivePathsType
<1> QED
  BY <1>1, <1>2, <1>3 DEF Extended, Snapshot

LEMMA RefreshedType ==
  ASSUME NEW S \in Snapshot, NEW sec \in SecretVal
  PROVE  Refreshed(S, sec) \in Snapshot
<1>1. Materialize(S.raw, sec) \in Tree /\ SensitivePaths(S.raw) \subseteq Key
  BY MaterializeType, SensitivePathsType DEF Snapshot
<1> QED
  BY <1>1 DEF Refreshed, Snapshot

LEMMA SavedType ==
  ASSUME NEW S \in Snapshot PROVE Saved(S) \in SavedSnapshot
BY DEF Saved, Snapshot, SavedSnapshot

LEMMA RolledBackType ==
  ASSUME NEW v \in SavedSnapshot PROVE RolledBack(v) \in Snapshot
BY DEF SavedSnapshot, RolledBack, Snapshot, Owner

\* Among frames whose ids are bounded there is a newest one.
LEMMA NewestIsNewest ==
  ASSUME NEW N \in Nat, NEW pushed \in SUBSET Frame, pushed # {},
         \A f \in pushed : f.id <= N
  PROVE  /\ Newest(pushed) \in pushed
         /\ \A g \in pushed : g.id <= Newest(pushed).id
<1> DEFINE ids == {f.id : f \in pushed}
<1>1. ids \subseteq 0..N /\ ids # {}
  BY DEF Frame
<1>2. PICK i \in ids : \A j \in ids : j <= i
  BY <1>1, BoundedMax
<1>3. PICK f \in pushed : f.id = i
  OBVIOUS
<1>4. \A g \in pushed : g.id <= f.id
  BY <1>2, <1>3
<1> QED
  BY <1>4 DEF Newest

LEMMA ReplayType ==
  ASSUME NEW S \in Snapshot, NEW N \in Nat, NEW pushed \in SUBSET Frame,
         \A f \in pushed : f.id <= N
  PROVE  Replay(S, pushed) \in Snapshot
<1> DEFINE top(k) == Newest(Covering(pushed, k))
           raw == [k \in Key |-> IF Covering(pushed, k) = {} THEN S.raw[k] ELSE top(k).pay[k]]
           env == [k \in Key |-> IF Covering(pushed, k) = {} THEN S.env[k] ELSE top(k).eff[k]]
           prov == [k \in Key |-> IF Covering(pushed, k) = {} THEN S.prov[k] ELSE "override"]
<1>1. ASSUME NEW k \in Key, Covering(pushed, k) # {}
      PROVE  top(k).pay[k] \in Val /\ top(k).eff[k] \in Val
  <2>1. Covering(pushed, k) \in SUBSET Frame /\ \A f \in Covering(pushed, k) : f.id <= N
    BY DEF Covering
  <2>2. top(k) \in Frame
    BY <1>1, <2>1, NewestIsNewest
  <2> QED
    BY <2>2 DEF Frame, Tree
<1>2. raw \in Tree /\ env \in Tree
  BY <1>1 DEF Snapshot, Tree
<1>3. prov \in [Key -> Owner]
  BY DEF Snapshot, Owner
<1>4. SensitivePaths(raw) \subseteq Key
  BY SensitivePathsType
<1> QED
  BY <1>2, <1>3, <1>4 DEF Replay, Snapshot

-----------------------------------------------------------------------------
(* Types of the engine. *)

\* A call that prepares a candidate is a Reload, an Extend or a RefreshSecrets,
\* and an Extend has a source.
CallShape ==
  \A p \in Proc :
    /\ pc[p] = "prepare" => op[p].kind \in SourceKinds \cup {"refresh"}
    /\ op[p].kind = "extend" => op[p].src \in Source

\* A base is held while frames are active, and no frame id is ahead of the
\* counter.
ScopeShape ==
  /\ base.taken <=> frames # {}
  /\ \A f \in frames : f.id <= lastId

TypeInv == TypeOK /\ CallShape /\ ScopeShape

-----------------------------------------------------------------------------
(* Type correctness *)

LEMMA AbsentInVal == Absent \in Val
BY DEF Val

LEMMA NoJobType == NoJob \in Job /\ EmptySnap \in Snapshot /\ EmptyTree \in Tree
<1>1. EmptyTree \in Tree
  BY AbsentInVal DEF EmptyTree, Tree
<1>2. EmptySnap \in Snapshot
  BY <1>1 DEF EmptySnap, Snapshot, Owner
<1>3. <<>> \in Seq(Source)
  OBVIOUS
<1> QED
  BY <1>1, <1>2, <1>3 DEF NoJob, Job

LEMMA NoCallType == NoCall \in Call
BY NoJobType DEF NoCall, Call

LEMMA DiskType == ASSUME NEW d \in Disk PROVE d \in [Source -> Tree]
BY TxnAssumption DEF Disk

LEMMA TypeInit == Init => TypeInv
<1> SUFFICES ASSUME Init PROVE TypeInv
  OBVIOUS
<1> USE DEF Init
<1>1. disk \in [Source -> Tree]
  BY DiskType
<1>2. loaders \in Seq(Source)
  OBVIOUS
<1>3. live \in Snapshot
  BY <1>1, <1>2, ReloadedType
<1>4. TypeOK
  <2>1. frozen \in BOOLEAN /\ base \in Base
    BY TxnAssumption DEF Base, NoBase
  <2>2. pc \in [Proc -> Labels] /\ op \in [Proc -> Call] /\ job \in [Proc -> Job]
    BY NoJobType, NoCallType DEF Labels
  <2>3. world \in 0..MaxWorld /\ ops \in [Proc -> 0..MaxOps]
    BY TxnAssumption
  <2> QED
    BY <1>2, <1>3, <2>1, <2>2, <2>3 DEF TypeOK
<1>5. CallShape
  BY DEF CallShape, NoCall
<1>6. ScopeShape
  BY DEF ScopeShape, NoBase
<1> QED
  BY <1>4, <1>5, <1>6 DEF TypeInv

-----------------------------------------------------------------------------
(* The parts of the type invariant, each preserved by the actions that leave *)
(* its variables alone.                                                     *)

ConfigOK ==
  /\ live \in Snapshot /\ loaders \in Seq(Source)
  /\ frozen \in BOOLEAN /\ closed \in BOOLEAN
  /\ revision \in Nat
  /\ frames \subseteq Frame /\ base \in Base /\ lastId \in Nat
  /\ versions \subseteq SavedSnapshot
  /\ ScopeShape

OutsideOK == disk \in Disk /\ secret \in SecretVal /\ world \in 0..MaxWorld

CallsOK ==
  /\ pc \in [Proc -> Labels] /\ op \in [Proc -> Call] /\ job \in [Proc -> Job]
  /\ CallShape

BoundsOK == ops \in [Proc -> 0..MaxOps]

SignalsOK == restorable \subseteq Nat /\ notified \in Nat /\ disturbed \in BOOLEAN

LEMMA TypeParts ==
  TypeInv <=> ConfigOK /\ OutsideOK /\ CallsOK /\ BoundsOK /\ SignalsOK
BY DEF TypeInv, TypeOK, ConfigOK, OutsideOK, CallsOK, BoundsOK, SignalsOK

LEMMA TypePartsNext ==
  ConfigOK' /\ OutsideOK' /\ CallsOK' /\ BoundsOK' /\ SignalsOK' => TypeInv'
BY DEF TypeInv, TypeOK, ConfigOK, OutsideOK, CallsOK, BoundsOK, SignalsOK

LEMMA ConfigStable == ConfigOK /\ UNCHANGED config => ConfigOK'
BY DEF ConfigOK, config, ScopeShape

LEMMA OutsideStable == OutsideOK /\ UNCHANGED outside => OutsideOK'
BY DEF OutsideOK, outside, Disk

LEMMA SignalsStable == SignalsOK /\ UNCHANGED signals => SignalsOK'
BY DEF SignalsOK, signals

LEMMA BoundsStable == BoundsOK /\ UNCHANGED ops => BoundsOK'
BY DEF BoundsOK

LEMMA CallsStable == CallsOK /\ UNCHANGED <<pc, op, job>> => CallsOK'
BY DEF CallsOK, CallShape

LEMMA BeginBounds ==
  ASSUME BoundsOK, NEW p \in Proc, NEW kind, Begin(p, kind)
  PROVE  BoundsOK' /\ kind \in Kinds
BY TxnAssumption DEF BoundsOK, Begin

\* A call that returns leaves well-typed locals behind.
LEMMA ReturnCalls ==
  ASSUME CallsOK, NEW p \in Proc, Return(p) PROVE CallsOK'
<1>1. pc' \in [Proc -> Labels] /\ op' \in [Proc -> Call] /\ job' \in [Proc -> Job]
  BY NoJobType, NoCallType DEF CallsOK, Return, Goto, Labels
<1>2. CallShape'
  BY DEF CallsOK, Return, Goto, CallShape, NoCall
<1> QED
  BY <1>1, <1>2 DEF CallsOK

\* A call moves on, with a new job.
LEMMA GotoCalls ==
  ASSUME CallsOK, NEW p \in Proc, NEW l \in Labels, Goto(p, l),
         NEW J \in Job, job' = [job EXCEPT ![p] = J], UNCHANGED op,
         l = "prepare" => op[p].kind \in SourceKinds \cup {"refresh"}
  PROVE  CallsOK'
<1>1. pc' \in [Proc -> Labels] /\ op' \in [Proc -> Call] /\ job' \in [Proc -> Job]
  BY DEF CallsOK, Goto
<1>2. CallShape'
  BY DEF CallsOK, Goto, CallShape
<1> QED
  BY <1>1, <1>2 DEF CallsOK

\* A call starts, with its request and its first locals.
LEMMA StartCalls ==
  ASSUME CallsOK, NEW p \in Proc, NEW l \in Labels \ {"prepare"}, Goto(p, l),
         NEW J \in Job, job' = [job EXCEPT ![p] = J],
         NEW C \in Call, op' = [op EXCEPT ![p] = C],
         C.kind = "extend" => C.src \in Source
  PROVE  CallsOK'
<1>1. pc' \in [Proc -> Labels] /\ op' \in [Proc -> Call] /\ job' \in [Proc -> Job]
  BY DEF CallsOK, Goto
<1>2. CallShape'
  BY DEF CallsOK, Goto, CallShape
<1> QED
  BY <1>1, <1>2 DEF CallsOK

-----------------------------------------------------------------------------
(* One lemma per group of actions *)

LEMMA CallRuntimeType ==
  ASSUME TypeInv, NEW p \in Proc, CallRuntime(p) PROVE TypeInv'
<1>1. PICK kind \in RuntimeKinds, pay \in Payload :
        /\ Begin(p, kind)
        /\ op' = [op EXCEPT ![p] = [kind |-> kind, pay |-> pay, src |-> "none"]]
        /\ Goto(p, "materialize")
        /\ UNCHANGED <<config, outside, job, signals>>
  BY DEF CallRuntime
<1>2. job[p] \in Job /\ job' = [job EXCEPT ![p] = job[p]]
  BY <1>1, TypeParts DEF CallsOK
<1>3. [kind |-> kind, pay |-> pay, src |-> "none"] \in Call
  BY TxnAssumption DEF Call, Kinds, RuntimeKinds
<1>4. CallsOK'
  BY <1>1, <1>2, <1>3, TypeParts, StartCalls DEF Labels, RuntimeKinds
<1> QED
  BY <1>1, <1>4, TypeParts, TypePartsNext, BeginBounds, ConfigStable, OutsideStable, SignalsStable

LEMMA MaterializeInputType ==
  ASSUME TypeInv, NEW p \in Proc, MaterializeInput(p) PROVE TypeInv'
<1> DEFINE E == MaterializePayload(op[p].pay, live.raw, secret)
           J == [NoJob EXCEPT !.eff = E]
<1>1. E \in Tree
  <2>1. op[p].pay \in Tree /\ live.raw \in Tree /\ secret \in SecretVal
    BY TypeParts DEF ConfigOK, OutsideOK, CallsOK, Call, Snapshot
  <2> QED
    BY <2>1, MaterializePayloadType
<1>2. J \in Job
  BY <1>1, NoJobType DEF Job
<1>3. CallsOK'
  <2>1. CASE Goto(p, "attempt") /\ UNCHANGED op /\ job' = [job EXCEPT ![p] = J]
    BY <1>2, <2>1, TypeParts, GotoCalls DEF Labels
  <2>2. CASE Return(p)
    BY <2>2, TypeParts, ReturnCalls
  <2> QED
    BY <2>1, <2>2 DEF MaterializeInput
<1> QED
  BY <1>3, TypeParts, TypePartsNext, ConfigStable, OutsideStable, SignalsStable, BoundsStable
     DEF MaterializeInput

LEMMA CallSourceType ==
  ASSUME TypeInv, NEW p \in Proc, CallSource(p) PROVE TypeInv'
<1>1. PICK kind \in SourceKinds, src \in Source \cup {"none"} :
        /\ Begin(p, kind)
        /\ (kind = "extend") <=> (src \in Source)
        /\ op' = [op EXCEPT ![p] = [kind |-> kind, pay |-> EmptyTree, src |-> src]]
        /\ Goto(p, "attempt")
        /\ UNCHANGED <<config, outside, job, signals>>
  BY DEF CallSource
<1>2. [kind |-> kind, pay |-> EmptyTree, src |-> src] \in Call
  BY NoJobType DEF Call, Kinds, SourceKinds
<1>3. job[p] \in Job /\ job' = [job EXCEPT ![p] = job[p]]
  BY <1>1, TypeParts DEF CallsOK
<1>4. CallsOK'
  BY <1>1, <1>2, <1>3, TypeParts, StartCalls DEF Labels
<1> QED
  BY <1>1, <1>4, TypeParts, TypePartsNext, BeginBounds, ConfigStable, OutsideStable, SignalsStable

LEMMA CallRefreshType ==
  ASSUME TypeInv, NEW p \in Proc, CallRefresh(p) PROVE TypeInv'
<1> DEFINE C == [NoCall EXCEPT !.kind = "refresh"]
<1>1. C \in Call /\ C.kind = "refresh"
  BY NoJobType DEF NoCall, Call, Kinds
<1>2. job[p] \in Job /\ job' = [job EXCEPT ![p] = job[p]]
  BY TypeParts DEF CallsOK, CallRefresh
<1>3. CallsOK'
  BY <1>1, <1>2, TypeParts, StartCalls DEF Labels, CallRefresh
<1> QED
  BY <1>3, TypeParts, TypePartsNext, BeginBounds, ConfigStable, OutsideStable, SignalsStable DEF CallRefresh

LEMMA CallRollbackType ==
  ASSUME TypeInv, NEW p \in Proc, CallRollback(p) PROVE TypeInv'
<1> DEFINE C == [NoCall EXCEPT !.kind = "rollback"]
<1>1. PICK v \in versions :
        /\ Begin(p, "rollback")
        /\ op' = [op EXCEPT ![p] = C]
        /\ job' = [job EXCEPT ![p] = [NoJob EXCEPT !.snap = RolledBack(v)]]
        /\ Goto(p, "commit")
        /\ UNCHANGED <<config, outside, signals>>
  BY DEF CallRollback
<1>2. C \in Call /\ C.kind = "rollback"
  BY NoJobType DEF NoCall, Call, Kinds
<1>3. RolledBack(v) \in Snapshot
  BY RolledBackType, TypeParts DEF ConfigOK
<1>4. [NoJob EXCEPT !.snap = RolledBack(v)] \in Job
  BY <1>3, NoJobType DEF Job
<1>5. CallsOK'
  BY <1>1, <1>2, <1>4, TypeParts, StartCalls DEF Labels
<1> QED
  BY <1>1, <1>5, TypeParts, TypePartsNext, BeginBounds, ConfigStable, OutsideStable, SignalsStable

LEMMA SaveType ==
  ASSUME TypeInv, NEW p \in Proc, CallSave(p) \/ StoreVersion(p) PROVE TypeInv'
<1>1. CASE CallSave(p)
  <2> DEFINE C == [NoCall EXCEPT !.kind = "save"]
  <2>1. C \in Call /\ C.kind = "save"
    BY NoJobType DEF NoCall, Call, Kinds
  <2>2. [NoJob EXCEPT !.snap = live] \in Job
    BY NoJobType, TypeParts DEF Job, ConfigOK
  <2>3. CallsOK'
    BY <1>1, <2>1, <2>2, TypeParts, StartCalls DEF Labels, CallSave
  <2> QED
    BY <1>1, <2>3, TypeParts, TypePartsNext, BeginBounds, ConfigStable, OutsideStable, SignalsStable
       DEF CallSave
<1>2. CASE StoreVersion(p)
  <2>1. Saved(job[p].snap) \in SavedSnapshot
    BY SavedType, TypeParts DEF CallsOK, Job
  <2>2. ConfigOK'
    BY <1>2, <2>1, TypeParts DEF StoreVersion, ConfigOK, ScopeShape
  <2>3. CallsOK'
    BY <1>2, TypeParts, ReturnCalls DEF StoreVersion
  <2> QED
    BY <1>2, <2>2, <2>3, TypeParts, TypePartsNext, OutsideStable, SignalsStable, BoundsStable DEF StoreVersion
<1> QED
  BY <1>1, <1>2

LEMMA LifecycleType ==
  ASSUME TypeInv, NEW p \in Proc, Freeze(p) \/ Close(p) PROVE TypeInv'
<1>1. ConfigOK'
  BY TypeParts DEF Freeze, Close, ConfigOK, ScopeShape
<1>2. BoundsOK'
  BY TypeParts, BeginBounds DEF Freeze, Close
<1> QED
  BY <1>1, <1>2, TypeParts, TypePartsNext, CallsStable, OutsideStable, SignalsStable DEF Freeze, Close

LEMMA SnapshotRuntimeType ==
  ASSUME TypeInv, NEW p \in Proc, SnapshotRuntime(p) PROVE TypeInv'
<1> DEFINE S == SetPaths(live, op[p].pay, job[p].eff, RuntimeLabel(p))
           J == [job[p] EXCEPT !.rev = revision, !.before = live.env, !.snap = S]
<1>1. S \in Snapshot
  <2>1. live \in Snapshot /\ op[p].pay \in Tree /\ job[p].eff \in Tree
    BY TypeParts DEF ConfigOK, CallsOK, Call, Job
  <2>2. RuntimeLabel(p) \in Owner
    BY DEF RuntimeLabel, Owner
  <2> QED
    BY <2>1, <2>2, SetPathsType
<1>2. J \in Job
  BY <1>1, TypeParts DEF ConfigOK, CallsOK, Job, Snapshot
<1>3. CallsOK'
  <2>1. CASE Admitted(p) /\ InsertAllowed(p)
    <3>1. Goto(p, "validate") /\ UNCHANGED op /\ job' = [job EXCEPT ![p] = J]
      BY <2>1, TypeParts DEF SnapshotRuntime, CallsOK
    <3> QED
      BY <1>2, <3>1, TypeParts, GotoCalls DEF Labels
  <2>2. CASE ~(Admitted(p) /\ InsertAllowed(p))
    BY <2>2, TypeParts, ReturnCalls DEF SnapshotRuntime
  <2> QED
    BY <2>1, <2>2
<1> QED
  BY <1>3, TypeParts, TypePartsNext, ConfigStable, OutsideStable, SignalsStable, BoundsStable
     DEF SnapshotRuntime

LEMMA SnapshotSourceType ==
  ASSUME TypeInv, NEW p \in Proc, SnapshotSource(p) PROVE TypeInv'
<1> DEFINE J == [job[p] EXCEPT !.rev = revision, !.before = live.env,
                               !.snap = live, !.layers = loaders]
<1>1. J \in Job
  BY TypeParts DEF ConfigOK, CallsOK, Job, Snapshot
<1>2. CallsOK'
  <2>1. CASE Admitted(p)
    <3>1. Goto(p, "prepare") /\ UNCHANGED op /\ job' = [job EXCEPT ![p] = J]
      BY <2>1, TypeParts DEF SnapshotSource, CallsOK
    <3> QED
      BY <1>1, <3>1, TypeParts, GotoCalls DEF Labels, SnapshotSource
  <2>2. CASE ~Admitted(p)
    BY <2>2, TypeParts, ReturnCalls DEF SnapshotSource
  <2> QED
    BY <2>1, <2>2
<1> QED
  BY <1>2, TypeParts, TypePartsNext, ConfigStable, OutsideStable, SignalsStable, BoundsStable
     DEF SnapshotSource

\* What Prepared yields for each kind of call.
LEMMA PreparedCases ==
  ASSUME NEW p \in Proc
  PROVE  /\ op[p].kind = "reload" =>
              Prepared(p) = [job[p] EXCEPT !.snap = Reloaded(job[p].layers, disk, secret)]
         /\ op[p].kind = "extend" =>
              Prepared(p) = [job[p] EXCEPT
                               !.snap = Extended(job[p].snap, op[p].src, disk, secret),
                               !.layers = Append(job[p].layers, op[p].src)]
         /\ op[p].kind = "refresh" =>
              Prepared(p) = [job[p] EXCEPT !.snap = Refreshed(job[p].snap, secret)]
BY DEF Prepared

LEMMA JobUpdate ==
  ASSUME NEW J \in Job, NEW S \in Snapshot, NEW L \in Seq(Source)
  PROVE  /\ [J EXCEPT !.snap = S] \in Job
         /\ [J EXCEPT !.layers = L] \in Job
BY DEF Job

LEMMA PreparedType ==
  ASSUME TypeInv, NEW p \in Proc, pc[p] = "prepare" PROVE Prepared(p) \in Job
<1>1. /\ disk \in [Source -> Tree] /\ secret \in SecretVal
      /\ job[p] \in Job /\ job[p].snap \in Snapshot /\ job[p].layers \in Seq(Source)
  BY DiskType, TypeParts DEF OutsideOK, CallsOK, Job
<1>2. CASE op[p].kind = "reload"
  <2> DEFINE S == Reloaded(job[p].layers, disk, secret)
  <2>1. S \in Snapshot
    BY <1>1, ReloadedType
  <2>2. Prepared(p) = [job[p] EXCEPT !.snap = S]
    BY <1>2, PreparedCases
  <2> HIDE DEF S
  <2>3. [job[p] EXCEPT !.snap = S] \in Job
    BY <1>1, <2>1, JobUpdate
  <2> QED
    BY <2>2, <2>3
<1>3. CASE op[p].kind = "extend"
  <2> DEFINE S == Extended(job[p].snap, op[p].src, disk, secret)
             L == Append(job[p].layers, op[p].src)
  <2>1. op[p].src \in Source
    BY <1>3, TypeParts DEF CallsOK, CallShape
  <2>2. L \in Seq(Source)
    BY <1>1, <2>1, AppendProperties
  <2>3. S \in Snapshot
    BY <1>1, <2>1, ExtendedType
  <2> DEFINE J == [job[p] EXCEPT !.snap = S]
  <2>4. Prepared(p) = [J EXCEPT !.layers = L]
    BY <1>3, PreparedCases
  <2>5. J \in Job
    BY <1>1, <2>3, <2>2, JobUpdate
  <2> HIDE DEF J, S, L
  <2> QED
    BY <1>1, <2>2, <2>3, <2>4, <2>5, JobUpdate
<1>4. CASE op[p].kind = "refresh"
  <2> DEFINE S == Refreshed(job[p].snap, secret)
  <2>1. S \in Snapshot
    BY <1>1, RefreshedType
  <2>2. Prepared(p) = [job[p] EXCEPT !.snap = S]
    BY <1>4, PreparedCases
  <2> HIDE DEF S
  <2>3. [job[p] EXCEPT !.snap = S] \in Job
    BY <1>1, <2>1, JobUpdate
  <2> QED
    BY <2>2, <2>3
<1> QED
  BY <1>2, <1>3, <1>4, TypeParts DEF CallsOK, CallShape, SourceKinds

LEMMA PrepareType ==
  ASSUME TypeInv, NEW p \in Proc, Prepare(p) PROVE TypeInv'
<1>1. Prepared(p) \in Job
  BY PreparedType DEF Prepare
<1>2. CallsOK'
  <2>1. CASE /\ job' = [job EXCEPT ![p] = Prepared(p)]
             /\ Goto(p, "commit")
             /\ UNCHANGED op
    BY <1>1, <2>1, TypeParts, GotoCalls DEF Labels
  <2>2. CASE Return(p)
    BY <2>2, TypeParts, ReturnCalls
  <2> QED
    BY <2>1, <2>2 DEF Prepare
<1> QED
  BY <1>2, TypeParts, TypePartsNext, ConfigStable, OutsideStable, SignalsStable, BoundsStable
     DEF Prepare

\* Steps that move a call on or end it and touch nothing else.
LEMMA LocalStepType ==
  ASSUME TypeInv, NEW p \in Proc,
         Validate(p) \/ CommitRefused(p) \/ CommitConflict(p) \/ Abandon(p)
  PROVE  TypeInv'
<1>1. job[p] \in Job /\ (UNCHANGED job => job' = [job EXCEPT ![p] = job[p]])
  BY TypeParts DEF CallsOK
<1>2. CallsOK'
  <2>1. CASE Return(p)
    BY <2>1, TypeParts, ReturnCalls
  <2>2. CASE (Goto(p, "commit") \/ Goto(p, "attempt")) /\ UNCHANGED <<op, job>>
    BY <1>1, <2>2, TypeParts, GotoCalls DEF Labels
  <2> QED
    BY <2>1, <2>2 DEF Validate, CommitRefused, CommitConflict, Abandon
<1> QED
  BY <1>2, TypeParts, TypePartsNext, ConfigStable, OutsideStable, SignalsStable, BoundsStable
     DEF Validate, CommitRefused, CommitConflict, Abandon

\* A publication moves the call to "deliver" and may update its locals.
LEMMA PublishingType ==
  ASSUME TypeInv, NEW p \in Proc, Publishing(p), NEW J \in Job,
         job' = [job EXCEPT ![p] = J]
  PROVE  CallsOK' /\ OutsideOK' /\ BoundsOK' /\ SignalsOK' /\ revision' \in Nat
<1>1. CallsOK'
  BY TypeParts, GotoCalls DEF Publishing, Labels
<1>2. OutsideOK' /\ BoundsOK'
  BY TypeParts, OutsideStable, BoundsStable DEF Publishing
<1>3. SignalsOK'
  BY TypeParts DEF Publishing, SignalsOK
<1>4. revision' \in Nat
  BY TypeParts DEF Publishing, ConfigOK
<1> QED
  BY <1>1, <1>2, <1>3, <1>4

LEMMA PublishType ==
  ASSUME TypeInv, NEW p \in Proc, Publish(p) PROVE TypeInv'
<1> DEFINE J == job[p]
<1>1. /\ J \in Job /\ J.snap \in Snapshot /\ J.layers \in Seq(Source) /\ J.eff \in Tree
      /\ J.snap.env \in Tree /\ J.snap.sens \subseteq Key /\ op[p].pay \in Tree
      /\ live \in Snapshot /\ live.env \in Tree
      /\ job' = job => job' = [job EXCEPT ![p] = J]
  BY TypeParts DEF CallsOK, ConfigOK, Job, Snapshot, Call
<1>2. CASE PublishSet(p)
  <2>1. ConfigOK'
    BY <1>1, <1>2, TypeParts DEF PublishSet, Publishing, ConfigOK, ScopeShape
  <2> QED
    BY <1>1, <1>2, <2>1, PublishingType, TypePartsNext DEF PublishSet
<1>3. CASE PublishSource(p)
  <2>1. ConfigOK'
    BY <1>1, <1>3, TypeParts DEF PublishSource, Publishing, ConfigOK, ScopeShape
  <2> QED
    BY <1>1, <1>3, <2>1, PublishingType, TypePartsNext DEF PublishSource
<1>4. CASE PublishRefresh(p)
  <2>1. live' \in Snapshot
    BY <1>1, <1>4 DEF PublishRefresh, Snapshot
  <2>2. ConfigOK'
    BY <1>4, <2>1, TypeParts DEF PublishRefresh, Publishing, ConfigOK, ScopeShape
  <2> QED
    BY <1>1, <1>4, <2>2, PublishingType, TypePartsNext DEF PublishRefresh
<1>5. CASE PublishRollback(p)
  <2>1. [J EXCEPT !.before = live.env] \in Job
    BY <1>1 DEF Job
  <2>2. ConfigOK'
    BY <1>1, <1>5, TypeParts DEF PublishRollback, Publishing, ConfigOK, ScopeShape
  <2>3. job' = [job EXCEPT ![p] = [J EXCEPT !.before = live.env]]
    BY <1>5, TypeParts DEF PublishRollback, CallsOK
  <2> QED
    BY <1>5, <2>1, <2>2, <2>3, PublishingType, TypePartsNext DEF PublishRollback
<1>6. CASE PublishOverride(p)
  <2> DEFINE F == [id |-> lastId', pay |-> op[p].pay, eff |-> J.eff]
  <2>1. lastId' \in Nat /\ lastId' > lastId /\ lastId \in Nat
    BY <1>6, TypeParts DEF PublishOverride, ConfigOK
  <2>2. [J EXCEPT !.id = lastId'] \in Job
    BY <1>1, <2>1 DEF Job
  <2>3. F \in Frame /\ F.id = lastId' /\ frames' = frames \cup {F}
    BY <1>1, <1>6, <2>1 DEF PublishOverride, Frame
  <2> HIDE DEF F
  <2>4. base' \in Base /\ base'.taken
    BY <1>6, <1>1, TypeParts
       DEF PublishOverride, BaseAfterPush, CaptureBase, Base, ConfigOK, ScopeShape
  <2>5. frames' \subseteq Frame /\ frames' # {} /\ \A f \in frames' : f.id <= lastId'
    BY <2>1, <2>3, TypeParts DEF ConfigOK, ScopeShape, Frame
  <2>6. ConfigOK'
    <3>1. live' \in Snapshot /\ frozen' \in BOOLEAN /\ UNCHANGED <<loaders, closed, versions>>
      BY <1>1, <1>6 DEF PublishOverride, Publishing
    <3>2. revision' \in Nat
      BY <1>6, TypeParts DEF PublishOverride, Publishing, ConfigOK
    <3> QED
      BY <2>1, <2>4, <2>5, <3>1, <3>2, TypeParts DEF ConfigOK, ScopeShape
  <2>7. job' = [job EXCEPT ![p] = [J EXCEPT !.id = lastId']]
    BY <1>6, TypeParts DEF PublishOverride, CallsOK
  <2> QED
    BY <1>6, <2>2, <2>6, <2>7, PublishingType, TypePartsNext DEF PublishOverride
<1> QED
  BY <1>2, <1>3, <1>4, <1>5, <1>6 DEF Publish

LEMMA DeliverType ==
  ASSUME TypeInv, NEW p \in Proc, Deliver(p) PROVE TypeInv'
<1>1. CallsOK'
  BY TypeParts, ReturnCalls DEF Deliver
<1>2. SignalsOK'
  BY TypeParts DEF Deliver, SignalsOK, CallsOK, Job
<1> QED
  BY <1>1, <1>2, TypeParts, TypePartsNext, ConfigStable, OutsideStable, BoundsStable DEF Deliver

LEMMA HeldBase ==
  ASSUME base \in Base, base.taken
  PROVE  base.snap \in Snapshot /\ base.frozen \in BOOLEAN
<1>1. base # NoBase
  BY DEF NoBase
<1>2. base \in [taken : {TRUE}, snap : Snapshot, frozen : BOOLEAN]
  BY <1>1 DEF Base
<1> QED
  BY <1>2

LEMMA RestoreType ==
  ASSUME TypeInv, NEW p \in Proc, Restore(p) PROVE TypeInv'
<1>1. PICK f \in frames :
        /\ frames' = frames \ {f}
        /\ live' = RestoredTo(frames \ {f})
        /\ frozen' = (frames \ {f} = {} /\ base.frozen)
        /\ base' = IF frames \ {f} = {} THEN NoBase ELSE base
        /\ revision' = revision + 1
        /\ job' = [job EXCEPT ![p] = [NoJob EXCEPT !.before = live.env, !.snap = live']]
        /\ disturbed' = FALSE
        /\ Goto(p, "deliver")
        /\ UNCHANGED <<loaders, closed, lastId, versions, outside, op, ops,
                       restorable, notified>>
  BY Zenon DEF Restore
<1> DEFINE rest == frames \ {f}
<1>2. base.snap \in Snapshot /\ base.frozen \in BOOLEAN /\ base.taken
  <2>1. base \in Base /\ base.taken
    BY TypeParts DEF ConfigOK, ScopeShape
  <2> QED
    BY <2>1, HeldBase
<1>3. live' \in Snapshot
  <2>1. rest \in SUBSET Frame /\ lastId \in Nat /\ \A g \in rest : g.id <= lastId
    BY TypeParts DEF ConfigOK, ScopeShape
  <2>2. Replay(base.snap, rest) \in Snapshot
    BY <1>2, <2>1, ReplayType
  <2> QED
    BY <1>1, <1>2, <2>2 DEF RestoredTo
<1>4. ConfigOK'
  <2>1. base' \in Base /\ (base'.taken <=> rest # {})
    BY <1>1, <1>2, TypeParts DEF ConfigOK, Base, NoBase
  <2>2. frames' \subseteq Frame /\ \A g \in frames' : g.id <= lastId
    BY <1>1, TypeParts DEF ConfigOK, ScopeShape
  <2> QED
    BY <1>1, <1>2, <1>3, <2>1, <2>2, TypeParts DEF ConfigOK, ScopeShape
<1>5. [NoJob EXCEPT !.before = live.env, !.snap = live'] \in Job
  BY <1>3, NoJobType, TypeParts DEF ConfigOK, Job, Snapshot
<1>6. CallsOK'
  BY <1>1, <1>5, TypeParts, GotoCalls DEF Labels
<1>7. SignalsOK'
  BY <1>1, TypeParts DEF SignalsOK
<1> QED
  BY <1>1, <1>4, <1>6, <1>7, TypeParts, TypePartsNext, OutsideStable, BoundsStable

LEMMA WorldType ==
  ASSUME TypeInv, EditSource \/ RotateSecret PROVE TypeInv'
<1>1. OutsideOK'
  BY TypeParts, TxnAssumption DEF EditSource, RotateSecret, OutsideOK, Disk
<1> QED
  BY <1>1, TypeParts, TypePartsNext, ConfigStable, CallsStable, BoundsStable, SignalsStable
     DEF EditSource, RotateSecret, goroutines

LEMMA TypeStep == TypeInv /\ [Next]_vars => TypeInv'
<1> SUFFICES ASSUME TypeInv, [Next]_vars PROVE TypeInv'
  OBVIOUS
<1>1. ASSUME NEW p \in Proc, StartCall(p) PROVE TypeInv'
  BY <1>1, CallRuntimeType, CallSourceType, CallRefreshType, CallRollbackType, SaveType,
     LifecycleType, RestoreType DEF StartCall
<1>2. ASSUME NEW p \in Proc, Step(p) PROVE TypeInv'
  BY <1>2, MaterializeInputType, SnapshotRuntimeType, SnapshotSourceType, PrepareType, LocalStepType, PublishType,
     DeliverType, SaveType DEF Step
<1>3. ASSUME NEW p \in Proc, Abandon(p) PROVE TypeInv'
  BY <1>3, LocalStepType
<1>4. CASE UNCHANGED vars
  BY <1>4, TypeParts, TypePartsNext, ConfigStable, OutsideStable, CallsStable, BoundsStable,
     SignalsStable DEF vars, goroutines
<1> QED
  BY <1>1, <1>2, <1>3, <1>4, WorldType DEF Next

\* Every reachable state is well typed; a held base and the active frames, the
\* part of the state an Override leaves for its restore, agree with each other.
THEOREM TypeCorrect == Spec => []TypeInv
BY TypeInit, TypeStep, PTL DEF Spec

-----------------------------------------------------------------------------
(* Candidates.  A candidate whose revision is still the current one was      *)
(* built from exactly the live state; this is what makes a commit atomic.    *)

Current(p) == job[p].rev = revision

OptimisticKinds == RuntimeKinds \cup SourceKinds \cup {"refresh"}

PositionOK(p) ==
  /\ job[p].rev <= revision
  /\ pc[p] = "idle" => op[p].kind = "none"
  /\ pc[p] = "materialize" => op[p].kind \in RuntimeKinds
  /\ pc[p] = "attempt" => op[p].kind \in OptimisticKinds
  /\ pc[p] = "validate" => op[p].kind \in RuntimeKinds
  /\ pc[p] = "commit" => op[p].kind \in OptimisticKinds \cup {"rollback"}

BeforeOK(p) ==
  pc[p] \in {"prepare", "validate", "commit"} /\ op[p].kind # "rollback" /\ Current(p)
    => job[p].before = live.env

RuntimeOK(p) ==
  op[p].kind \in RuntimeKinds =>
    /\ op[p].pay \in Payload
    /\ pc[p] # "materialize" => job[p].eff \in Materialized(op[p].pay)
    /\ pc[p] \in {"validate", "commit"} /\ Current(p) =>
         /\ job[p].snap = SetPaths(live, op[p].pay, job[p].eff, RuntimeLabel(p))
         /\ InsertAllowed(p)

PreparingOK(p) ==
  pc[p] = "prepare" /\ Current(p) => job[p].snap = live /\ job[p].layers = loaders

SourceOK(p) ==
  pc[p] = "commit" /\ Current(p) =>
    /\ op[p].kind = "reload" =>
         /\ job[p].layers = loaders
         /\ \E d \in Disk, v \in SecretVal : job[p].snap = Reloaded(loaders, d, v)
    /\ op[p].kind = "extend" =>
         /\ job[p].layers = Append(loaders, op[p].src)
         /\ \E d \in Disk, v \in SecretVal : job[p].snap = Extended(live, op[p].src, d, v)
    /\ op[p].kind = "refresh" =>
         \E v \in SecretVal : job[p].snap = Refreshed(live, v)

CommitOK(p) ==
  pc[p] = "commit" =>
    /\ job[p].snap.env \in ValidEnv
    /\ op[p].kind = "rollback" => \E v \in versions : job[p].snap = RolledBack(v)

CandidateOK(p) ==
  PositionOK(p) /\ BeforeOK(p) /\ RuntimeOK(p) /\ PreparingOK(p) /\ SourceOK(p) /\ CommitOK(p)

CandidateInv == \A p \in Proc : CandidateOK(p)

\* The inductive invariant.
IInv == TypeInv /\ CandidateInv

LEMMA CandidateInit == Init => CandidateInv
BY DEF Init, CandidateInv, CandidateOK, PositionOK, BeforeOK, RuntimeOK, PreparingOK,
       SourceOK, CommitOK, NoJob, NoCall, RuntimeKinds

\* What other goroutines hold stays good: either the live state did not move,
\* or the revision did and their candidates are superseded.
LEMMA OthersKeep ==
  ASSUME TypeInv, NEW q \in Proc, CandidateOK(q),
         pc'[q] = pc[q], op'[q] = op[q], job'[q] = job[q],
         versions \subseteq versions',
         \/ UNCHANGED <<live, loaders, revision>>
         \/ revision' = revision + 1
  PROVE  CandidateOK(q)'
<1> USE DEF CandidateOK
<1>1. revision \in Nat /\ job[q].rev \in Nat /\ job[q].rev <= revision
  BY TypeParts DEF ConfigOK, CallsOK, Job, PositionOK
<1>2. Current(q)' => Current(q) /\ UNCHANGED <<live, loaders>>
  BY <1>1 DEF Current
<1>3. PositionOK(q)'
  BY <1>1 DEF PositionOK
<1>4. BeforeOK(q)'
  BY <1>2 DEF BeforeOK
<1>5. RuntimeOK(q)'
  BY <1>2 DEF RuntimeOK, RuntimeLabel, InsertAllowed
<1>6. PreparingOK(q)'
  BY <1>2 DEF PreparingOK
<1>7. SourceOK(q)'
  BY <1>2 DEF SourceOK, Disk
<1>8. CommitOK(q)'
  BY DEF CommitOK
<1> QED
  BY <1>3, <1>4, <1>5, <1>6, <1>7, <1>8

\* A goroutine that is idle, delivers or stores holds nothing to be kept.
LEMMA RestedOK ==
  ASSUME TypeInv, NEW p \in Proc, pc'[p] \in {"idle", "deliver", "store"},
         pc'[p] = "idle" => op'[p].kind = "none",
         op'[p].kind \notin RuntimeKinds \/ RuntimeOK(p)',
         job'[p].rev <= revision'
  PROVE  CandidateOK(p)'
BY DEF CandidateOK, PositionOK, BeforeOK, RuntimeOK, PreparingOK, SourceOK, CommitOK

LEMMA OneMoves ==
  ASSUME TypeInv, CandidateInv, NEW p \in Proc,
         \A q \in Proc \ {p} : pc'[q] = pc[q] /\ op'[q] = op[q] /\ job'[q] = job[q],
         versions \subseteq versions',
         \/ UNCHANGED <<live, loaders, revision>>
         \/ revision' = revision + 1,
         CandidateOK(p)'
  PROVE  CandidateInv'
<1>1. ASSUME NEW q \in Proc \ {p} PROVE CandidateOK(q)'
  BY OthersKeep DEF CandidateInv
<1> QED
  BY <1>1 DEF CandidateInv

\* Frame conditions of the per-goroutine updates.
LEMMA ReturnFrame ==
  ASSUME TypeInv, NEW p \in Proc, Return(p)
  PROVE  /\ pc'[p] = "idle" /\ op'[p] = NoCall /\ job'[p] = NoJob
         /\ \A q \in Proc \ {p} : pc'[q] = pc[q] /\ op'[q] = op[q] /\ job'[q] = job[q]
BY TypeParts DEF CallsOK, Return, Goto

LEMMA ReturnCandidate ==
  ASSUME TypeInv, NEW p \in Proc, Return(p), revision' \in Nat
  PROVE  CandidateOK(p)'
<1>1. op'[p].kind = "none" /\ "none" \notin RuntimeKinds /\ job'[p].rev = 0 /\ pc'[p] = "idle"
  BY ReturnFrame DEF NoCall, NoJob, RuntimeKinds
<1> QED
  BY <1>1, RestedOK

\* A call that returns without a commit.
LEMMA ReturnStep ==
  ASSUME TypeInv, CandidateInv, NEW p \in Proc, Return(p), UNCHANGED config
  PROVE  CandidateInv'
<1>1. CandidateOK(p)'
  BY ReturnCandidate, TypeParts DEF ConfigOK, config
<1> QED
  BY <1>1, ReturnFrame, OneMoves DEF config

LEMMA CallRuntimeCandidate ==
  ASSUME TypeInv, CandidateInv, NEW p \in Proc, CallRuntime(p) PROVE CandidateInv'
<1>1. PICK kind \in RuntimeKinds, pay \in Payload :
        /\ op' = [op EXCEPT ![p] = [kind |-> kind, pay |-> pay, src |-> "none"]]
        /\ Goto(p, "materialize")
        /\ UNCHANGED <<config, job>>
  BY DEF CallRuntime
<1>2. /\ pc'[p] = "materialize" /\ op'[p].kind = kind /\ op'[p].pay = pay
      /\ \A q \in Proc \ {p} : pc'[q] = pc[q] /\ op'[q] = op[q]
  BY <1>1, TypeParts DEF CallsOK, Goto
<1>3. CandidateOK(p)'
  BY <1>1, <1>2
     DEF CandidateInv, CandidateOK, PositionOK, BeforeOK, RuntimeOK, PreparingOK, SourceOK,
         CommitOK, config
<1> QED
  BY <1>1, <1>2, <1>3, OneMoves DEF config

LEMMA MaterializeInputCandidate ==
  ASSUME TypeInv, CandidateInv, NEW p \in Proc, MaterializeInput(p) PROVE CandidateInv'
<1> DEFINE E == MaterializePayload(op[p].pay, live.raw, secret)
           J == [NoJob EXCEPT !.eff = E]
<1>1. CASE Goto(p, "attempt") /\ UNCHANGED op /\ job' = [job EXCEPT ![p] = J]
  <2>1. J.rev = 0 /\ J.eff = E
    BY DEF NoJob
  <2> HIDE DEF J
  <2>2. /\ op' = op /\ pc[p] = "materialize" /\ pc'[p] = "attempt"
        /\ job'[p].rev = 0 /\ job'[p].eff = E
        /\ \A q \in Proc \ {p} : pc'[q] = pc[q] /\ job'[q] = job[q]
        /\ UNCHANGED config
    BY <1>1, <2>1, TypeParts DEF MaterializeInput, CallsOK, Goto
  <2>3. op[p].kind \in RuntimeKinds /\ op[p].pay \in Payload
    BY <2>2 DEF CandidateInv, CandidateOK, PositionOK, RuntimeOK
  <2>4. E \in Materialized(op[p].pay)
    <3>1. op[p].pay \in Tree /\ live.raw \in Tree /\ secret \in SecretVal
      BY TypeParts DEF ConfigOK, OutsideOK, CallsOK, Call, Snapshot
    <3> QED
      BY <3>1, MaterializedPayload
  <2>5. revision' \in Nat
    BY <2>2, TypeParts DEF ConfigOK, config
  <2>6. CandidateOK(p)'
    BY <2>2, <2>3, <2>4, <2>5
       DEF CandidateOK, PositionOK, BeforeOK, RuntimeOK, PreparingOK, SourceOK, CommitOK,
           OptimisticKinds
  <2> QED
    BY <2>2, <2>6, OneMoves DEF config
<1>2. CASE Return(p)
  BY <1>2, ReturnStep DEF MaterializeInput
<1> QED
  BY <1>1, <1>2 DEF MaterializeInput

LEMMA CallSourceCandidate ==
  ASSUME TypeInv, CandidateInv, NEW p \in Proc, CallSource(p) \/ CallRefresh(p)
  PROVE  CandidateInv'
<1>1. /\ op'[p].kind \in SourceKinds \cup {"refresh"} /\ pc'[p] = "attempt"
      /\ job' = job
      /\ \A q \in Proc \ {p} : pc'[q] = pc[q] /\ op'[q] = op[q]
      /\ UNCHANGED config
  BY TypeParts DEF CallSource, CallRefresh, CallsOK, Goto, NoCall
<1>2. CandidateOK(p)'
  BY <1>1 DEF CandidateInv, CandidateOK, PositionOK, BeforeOK, RuntimeOK, PreparingOK,
              SourceOK, CommitOK, OptimisticKinds, SourceKinds, RuntimeKinds, config
<1> QED
  BY <1>1, <1>2, OneMoves DEF config

LEMMA CallRollbackCandidate ==
  ASSUME TypeInv, CandidateInv, NEW p \in Proc, CallRollback(p) PROVE CandidateInv'
<1>1. PICK v \in versions :
        /\ v.env \in ValidEnv
        /\ op' = [op EXCEPT ![p] = [NoCall EXCEPT !.kind = "rollback"]]
        /\ job' = [job EXCEPT ![p] = [NoJob EXCEPT !.snap = RolledBack(v)]]
        /\ Goto(p, "commit")
        /\ UNCHANGED config
  BY DEF CallRollback
<1>2. /\ op'[p].kind = "rollback" /\ pc'[p] = "commit"
      /\ job'[p].snap = RolledBack(v) /\ job'[p].rev = 0
      /\ \A q \in Proc \ {p} : pc'[q] = pc[q] /\ op'[q] = op[q] /\ job'[q] = job[q]
  BY <1>1, TypeParts DEF CallsOK, Goto, NoCall, NoJob
<1>3. job'[p].snap.env = v.env
  BY <1>2 DEF RolledBack
<1>4. CandidateOK(p)'
  BY <1>1, <1>2, <1>3, TypeParts
     DEF CandidateOK, PositionOK, BeforeOK, RuntimeOK, PreparingOK, SourceOK, CommitOK,
         OptimisticKinds, SourceKinds, RuntimeKinds, ConfigOK, config
<1> QED
  BY <1>1, <1>2, <1>4, OneMoves DEF config

LEMMA SaveCandidate ==
  ASSUME TypeInv, CandidateInv, NEW p \in Proc, CallSave(p) \/ StoreVersion(p)
  PROVE  CandidateInv'
<1>1. CASE CallSave(p)
  <2>1. /\ op'[p].kind = "save" /\ pc'[p] = "store" /\ job'[p].rev = 0
        /\ \A q \in Proc \ {p} : pc'[q] = pc[q] /\ op'[q] = op[q] /\ job'[q] = job[q]
        /\ UNCHANGED config
    BY <1>1, TypeParts DEF CallSave, CallsOK, Goto, NoCall, NoJob
  <2>2. CandidateOK(p)'
    BY <2>1, RestedOK, TypeParts DEF RuntimeKinds, ConfigOK, config
  <2> QED
    BY <2>1, <2>2, OneMoves DEF config
<1>2. CASE StoreVersion(p)
  <2>1. CandidateOK(p)'
    BY <1>2, ReturnCandidate, TypeParts DEF StoreVersion, ConfigOK
  <2> QED
    BY <1>2, <2>1, ReturnFrame, OneMoves DEF StoreVersion
<1> QED
  BY <1>1, <1>2

\* Actions that change neither a goroutine nor the snapshot.
LEMMA QuietCandidate ==
  ASSUME TypeInv, CandidateInv, UNCHANGED <<pc, op, job, live, loaders, revision, versions>>
  PROVE  CandidateInv'
BY OthersKeep DEF CandidateInv

LEMMA SnapshotRuntimeCandidate ==
  ASSUME TypeInv, CandidateInv, NEW p \in Proc, SnapshotRuntime(p) PROVE CandidateInv'
<1>1. CASE Admitted(p) /\ InsertAllowed(p)
  <2> DEFINE S == SetPaths(live, op[p].pay, job[p].eff, RuntimeLabel(p))
             J == [job[p] EXCEPT !.rev = revision, !.before = live.env, !.snap = S]
  <2>1. J.rev = revision /\ J.before = live.env /\ J.snap = S /\ J.eff = job[p].eff
    BY TypeParts DEF CallsOK, Job
  <2>2. /\ op' = op /\ Goto(p, "validate") /\ job' = [job EXCEPT ![p] = J]
        /\ UNCHANGED config /\ op[p].kind \in RuntimeKinds
    BY <1>1, TypeParts DEF SnapshotRuntime, CallsOK
  <2> HIDE DEF J
  <2>3. /\ op' = op /\ pc'[p] = "validate"
        /\ job'[p].rev = revision /\ job'[p].before = live.env
        /\ job'[p].snap = S /\ job'[p].eff = job[p].eff
        /\ \A q \in Proc \ {p} : pc'[q] = pc[q] /\ job'[q] = job[q]
        /\ UNCHANGED config /\ op[p].kind \in RuntimeKinds
    BY <2>1, <2>2, TypeParts DEF CallsOK, Goto
  <2>4. op[p].pay \in Payload /\ job[p].eff \in Materialized(op[p].pay)
    BY <2>3 DEF CandidateInv, CandidateOK, RuntimeOK, SnapshotRuntime
  <2>5. revision \in Nat
    BY TypeParts DEF ConfigOK
  <2>6. RuntimeOK(p)'
    BY <1>1, <2>3, <2>4 DEF RuntimeOK, RuntimeLabel, InsertAllowed, config
  <2>7. CandidateOK(p)'
    BY <2>3, <2>5, <2>6 DEF CandidateOK, PositionOK, BeforeOK, PreparingOK, SourceOK, CommitOK,
                            config
  <2> QED
    BY <2>3, <2>7, OneMoves DEF config
<1>2. CASE ~(Admitted(p) /\ InsertAllowed(p))
  BY <1>2, ReturnStep DEF SnapshotRuntime
<1> QED
  BY <1>1, <1>2

LEMMA SnapshotSourceCandidate ==
  ASSUME TypeInv, CandidateInv, NEW p \in Proc, SnapshotSource(p) PROVE CandidateInv'
<1>1. CASE Admitted(p)
  <2> DEFINE J == [job[p] EXCEPT !.rev = revision, !.before = live.env,
                                 !.snap = live, !.layers = loaders]
  <2>1. /\ J.rev = revision /\ J.before = live.env /\ J.snap = live
        /\ J.layers = loaders /\ J.eff = job[p].eff
    BY TypeParts DEF CallsOK, Job
  <2>2. /\ op' = op /\ Goto(p, "prepare") /\ job' = [job EXCEPT ![p] = J]
        /\ UNCHANGED config /\ op[p].kind \in SourceKinds \cup {"refresh"}
    BY <1>1, TypeParts DEF SnapshotSource, CallsOK
  <2> HIDE DEF J
  <2>3. /\ op' = op /\ pc'[p] = "prepare"
        /\ job'[p].rev = revision /\ job'[p].before = live.env
        /\ job'[p].snap = live /\ job'[p].layers = loaders
        /\ \A q \in Proc \ {p} : pc'[q] = pc[q] /\ job'[q] = job[q]
        /\ UNCHANGED config /\ op[p].kind \in SourceKinds \cup {"refresh"}
    BY <2>1, <2>2, TypeParts DEF CallsOK, Goto
  <2>4. revision \in Nat
    BY TypeParts DEF ConfigOK
  <2>5. CandidateOK(p)'
    BY <2>3, <2>4 DEF CandidateOK, PositionOK, BeforeOK, RuntimeOK, PreparingOK, SourceOK,
                      CommitOK, SourceKinds, RuntimeKinds, config
  <2> QED
    BY <2>3, <2>5, OneMoves DEF config
<1>2. CASE ~Admitted(p)
  BY <1>2, ReturnStep DEF SnapshotSource
<1> QED
  BY <1>1, <1>2

\* The fields of Prepared, for each kind of call.
LEMMA PreparedFields ==
  ASSUME NEW p \in Proc, job[p] \in Job, op[p].kind \in SourceKinds \cup {"refresh"}
  PROVE  /\ Prepared(p).rev = job[p].rev /\ Prepared(p).before = job[p].before
         /\ op[p].kind = "reload" =>
              /\ Prepared(p).snap = Reloaded(job[p].layers, disk, secret)
              /\ Prepared(p).layers = job[p].layers
         /\ op[p].kind = "extend" =>
              /\ Prepared(p).snap = Extended(job[p].snap, op[p].src, disk, secret)
              /\ Prepared(p).layers = Append(job[p].layers, op[p].src)
         /\ op[p].kind = "refresh" => Prepared(p).snap = Refreshed(job[p].snap, secret)
<1>1. CASE op[p].kind = "reload"
  <2> DEFINE S == Reloaded(job[p].layers, disk, secret)
  <2>1. Prepared(p) = [job[p] EXCEPT !.snap = S]
    BY <1>1, PreparedCases
  <2> HIDE DEF S
  <2>2. /\ Prepared(p).rev = job[p].rev /\ Prepared(p).before = job[p].before
        /\ Prepared(p).snap = S /\ Prepared(p).layers = job[p].layers
    BY <2>1 DEF Job
  <2> QED
    BY <1>1, <2>2 DEF S
<1>2. CASE op[p].kind = "extend"
  <2> DEFINE S == Extended(job[p].snap, op[p].src, disk, secret)
             L == Append(job[p].layers, op[p].src)
  <2>1. Prepared(p) = [job[p] EXCEPT !.snap = S, !.layers = L]
    BY <1>2, PreparedCases
  <2> HIDE DEF S, L
  <2>2. /\ Prepared(p).rev = job[p].rev /\ Prepared(p).before = job[p].before
        /\ Prepared(p).snap = S /\ Prepared(p).layers = L
    BY <2>1 DEF Job
  <2> QED
    BY <1>2, <2>2 DEF S, L
<1>3. CASE op[p].kind = "refresh"
  <2> DEFINE S == Refreshed(job[p].snap, secret)
  <2>1. Prepared(p) = [job[p] EXCEPT !.snap = S]
    BY <1>3, PreparedCases
  <2> HIDE DEF S
  <2>2. Prepared(p).rev = job[p].rev /\ Prepared(p).before = job[p].before /\ Prepared(p).snap = S
    BY <2>1 DEF Job
  <2> QED
    BY <1>3, <2>2 DEF S
<1> QED
  BY <1>1, <1>2, <1>3 DEF SourceKinds

LEMMA PrepareCandidate ==
  ASSUME TypeInv, CandidateInv, NEW p \in Proc, Prepare(p) PROVE CandidateInv'
<1>1. CASE /\ Prepared(p).snap.env \in ValidEnv
           /\ job' = [job EXCEPT ![p] = Prepared(p)]
           /\ Goto(p, "commit")
           /\ UNCHANGED op
  <2>1. /\ op' = op /\ pc[p] = "prepare" /\ pc'[p] = "commit" /\ job'[p] = Prepared(p)
        /\ \A q \in Proc \ {p} : pc'[q] = pc[q] /\ job'[q] = job[q]
        /\ UNCHANGED config
    BY <1>1, TypeParts DEF Prepare, CallsOK, Goto
  <2>2. /\ op[p].kind \in SourceKinds \cup {"refresh"}
        /\ disk \in Disk /\ secret \in SecretVal /\ job[p] \in Job
    BY <2>1, TypeParts DEF CallsOK, CallShape, OutsideOK
  <2>3. /\ job'[p].rev = job[p].rev /\ job'[p].before = job[p].before
        /\ op[p].kind = "reload" =>
             /\ job'[p].snap = Reloaded(job[p].layers, disk, secret)
             /\ job'[p].layers = job[p].layers
        /\ op[p].kind = "extend" =>
             /\ job'[p].snap = Extended(job[p].snap, op[p].src, disk, secret)
             /\ job'[p].layers = Append(job[p].layers, op[p].src)
        /\ op[p].kind = "refresh" => job'[p].snap = Refreshed(job[p].snap, secret)
    BY <2>1, <2>2, PreparedFields
  <2>4. Current(p) => /\ job[p].snap = live /\ job[p].layers = loaders
                      /\ job[p].before = live.env
    BY <2>1, <2>2 DEF CandidateInv, CandidateOK, PreparingOK, BeforeOK, SourceKinds
  <2>5. Current(p)' => Current(p)
    BY <2>1, <2>3 DEF Current, config
  <2>6. PositionOK(p)'
    BY <2>1, <2>2, <2>3 DEF CandidateInv, CandidateOK, PositionOK, OptimisticKinds, config
  <2>7. BeforeOK(p)'
    BY <2>1, <2>3, <2>4, <2>5 DEF BeforeOK, config
  <2>8. SourceOK(p)'
    BY <2>1, <2>2, <2>3, <2>4, <2>5 DEF SourceOK, config, Disk
  <2>9. RuntimeOK(p)' /\ PreparingOK(p)' /\ CommitOK(p)'
    BY <1>1, <2>1, <2>2 DEF RuntimeOK, PreparingOK, CommitOK, SourceKinds, RuntimeKinds
  <2> QED
    BY <2>1, <2>6, <2>7, <2>8, <2>9, OneMoves DEF CandidateOK, config
<1>2. CASE Return(p)
  BY <1>2, ReturnStep DEF Prepare
<1> QED
  BY <1>1, <1>2 DEF Prepare

LEMMA LocalStepCandidate ==
  ASSUME TypeInv, CandidateInv, NEW p \in Proc,
         Validate(p) \/ CommitRefused(p) \/ CommitConflict(p) \/ Abandon(p)
  PROVE  CandidateInv'
<1>1. CASE Return(p)
  BY <1>1, ReturnStep DEF Validate, CommitRefused, CommitConflict, Abandon
<1>2. CASE Goto(p, "commit") /\ UNCHANGED <<op, job>> /\ Validate(p)
  <2>1. /\ pc[p] = "validate" /\ pc'[p] = "commit" /\ job[p].snap.env \in ValidEnv
        /\ \A q \in Proc \ {p} : pc'[q] = pc[q]
        /\ UNCHANGED config /\ UNCHANGED <<op, job>>
    <3>1. "commit" # "attempt" /\ pc \in [Proc -> Labels]
      BY TypeParts DEF CallsOK
    <3> QED
      BY <1>2, <3>1, ReturnFrame DEF Validate, Goto
  <2>2. op[p].kind \in RuntimeKinds
    BY <2>1 DEF CandidateInv, CandidateOK, PositionOK
  <2>3. PositionOK(p)' /\ BeforeOK(p)' /\ RuntimeOK(p)'
    BY <2>1, <2>2 DEF CandidateInv, CandidateOK, PositionOK, BeforeOK, RuntimeOK, Current,
                      RuntimeLabel, InsertAllowed, OptimisticKinds, config
  <2>4. PreparingOK(p)' /\ SourceOK(p)' /\ CommitOK(p)'
    BY <2>1, <2>2 DEF PreparingOK, SourceOK, CommitOK, RuntimeKinds
  <2> QED
    BY <2>1, <2>3, <2>4, OneMoves DEF CandidateOK, config
<1>3. CASE /\ Goto(p, "attempt") /\ UNCHANGED <<op, job>>
           /\ Validate(p) \/ CommitConflict(p)
  <2>1. /\ pc[p] \in {"validate", "commit"} /\ pc'[p] = "attempt"
        /\ pc[p] = "commit" => op[p].kind # "rollback"
        /\ \A q \in Proc \ {p} : pc'[q] = pc[q]
        /\ UNCHANGED config /\ UNCHANGED <<op, job>>
    BY <1>3, TypeParts DEF Validate, CommitConflict, Unsuperseded, CallsOK, Goto
  <2>2. op[p].kind \in OptimisticKinds
    BY <2>1 DEF CandidateInv, CandidateOK, PositionOK, OptimisticKinds
  <2>3. CandidateOK(p)'
    BY <2>1, <2>2 DEF CandidateInv, CandidateOK, PositionOK, BeforeOK, RuntimeOK,
                      PreparingOK, SourceOK, CommitOK, config
  <2> QED
    BY <2>1, <2>3, OneMoves DEF config
<1> QED
  BY <1>1, <1>2, <1>3 DEF Validate, CommitRefused, CommitConflict, Abandon

\* The locals that matter after a publication are untouched by it.
LEMMA PublishedJob ==
  ASSUME TypeInv, NEW p \in Proc, Publish(p)
  PROVE  /\ job'[p].rev = job[p].rev /\ job'[p].eff = job[p].eff
         /\ job'[p].snap = job[p].snap
         /\ op[p].kind # "rollback" => job'[p].before = job[p].before
         /\ op[p].kind = "rollback" => job'[p].before = live.env
         /\ \A q \in Proc \ {p} : job'[q] = job[q]
<1>1. job \in [Proc -> Job] /\ job[p] \in Job
  BY TypeParts DEF CallsOK
<1>2. CASE PublishSet(p) \/ PublishSource(p) \/ PublishRefresh(p)
  BY <1>2 DEF PublishSet, PublishSource, PublishRefresh, SourceKinds
<1>3. CASE PublishRollback(p)
  <2> DEFINE J == [job[p] EXCEPT !.before = live.env]
  <2>1. job' = [job EXCEPT ![p] = J] /\ op[p].kind = "rollback"
    BY <1>1, <1>3 DEF PublishRollback
  <2>2. /\ J.rev = job[p].rev /\ J.eff = job[p].eff /\ J.snap = job[p].snap
        /\ J.before = live.env
    BY <1>1 DEF Job
  <2> HIDE DEF J
  <2> QED
    BY <1>1, <2>1, <2>2
<1>4. CASE PublishOverride(p)
  <2> DEFINE J == [job[p] EXCEPT !.id = lastId']
  <2>1. job' = [job EXCEPT ![p] = J] /\ op[p].kind = "override"
    BY <1>1, <1>4 DEF PublishOverride
  <2>2. /\ J.rev = job[p].rev /\ J.eff = job[p].eff /\ J.snap = job[p].snap
        /\ J.before = job[p].before
    BY <1>1 DEF Job
  <2> HIDE DEF J
  <2> QED
    BY <1>1, <2>1, <2>2
<1> QED
  BY <1>2, <1>3, <1>4 DEF Publish

LEMMA PublishFrame ==
  ASSUME TypeInv, NEW p \in Proc, Publish(p)
  PROVE  /\ pc[p] = "commit" /\ pc'[p] = "deliver" /\ UNCHANGED <<op, versions, closed>>
         /\ revision' = revision + 1 /\ Admitted(p) /\ Unsuperseded(p)
         /\ \A q \in Proc \ {p} : pc'[q] = pc[q]
BY TypeParts DEF Publish, PublishSet, PublishSource, PublishRefresh, PublishRollback,
                 PublishOverride, Publishing, Goto, CallsOK

LEMMA PublishCandidate ==
  ASSUME TypeInv, CandidateInv, NEW p \in Proc, Publish(p) PROVE CandidateInv'
<1>1. revision \in Nat /\ job[p].rev \in Nat /\ job[p].rev <= revision
  BY TypeParts DEF ConfigOK, CallsOK, Job, CandidateInv, CandidateOK, PositionOK
<1>2. job'[p].rev <= revision'
  BY <1>1, PublishedJob, PublishFrame
<1>3. RuntimeOK(p)'
  BY PublishedJob, PublishFrame DEF CandidateInv, CandidateOK, RuntimeOK
<1>4. CandidateOK(p)'
  BY <1>2, <1>3, PublishFrame, RestedOK
<1> QED
  BY <1>4, PublishedJob, PublishFrame, OneMoves

LEMMA DeliverCandidate ==
  ASSUME TypeInv, CandidateInv, NEW p \in Proc, Deliver(p) PROVE CandidateInv'
BY ReturnStep DEF Deliver

LEMMA RestoreCandidate ==
  ASSUME TypeInv, CandidateInv, NEW p \in Proc, Restore(p) PROVE CandidateInv'
<1>1. /\ pc[p] = "idle" /\ Goto(p, "deliver") /\ UNCHANGED <<op, versions>>
      /\ job' = [job EXCEPT ![p] = [NoJob EXCEPT !.before = live.env, !.snap = live']]
      /\ revision' = revision + 1
  BY Zenon DEF Restore
<1> DEFINE J == [NoJob EXCEPT !.before = live.env, !.snap = live']
<1>2. J.rev = 0
  BY DEF NoJob
<1> HIDE DEF J
<1>3. /\ pc'[p] = "deliver" /\ job'[p].rev = 0 /\ op'[p].kind = "none"
      /\ \A q \in Proc \ {p} : pc'[q] = pc[q] /\ op'[q] = op[q] /\ job'[q] = job[q]
  BY <1>1, <1>2, TypeParts DEF CallsOK, Goto, J, CandidateInv, CandidateOK, PositionOK
<1>4. CandidateOK(p)'
  BY <1>1, <1>3, RestedOK, TypeParts DEF ConfigOK, RuntimeKinds
<1> QED
  BY <1>1, <1>3, <1>4, OneMoves

LEMMA CandidateStep == IInv /\ [Next]_vars => CandidateInv'
<1> SUFFICES ASSUME TypeInv, CandidateInv, [Next]_vars PROVE CandidateInv'
  BY DEF IInv
<1>1. ASSUME NEW p \in Proc, StartCall(p) PROVE CandidateInv'
  <2>1. CASE Freeze(p) \/ Close(p)
    BY <2>1, QuietCandidate DEF Freeze, Close
  <2> QED
    BY <1>1, <2>1, CallRuntimeCandidate, CallSourceCandidate, CallRollbackCandidate,
       SaveCandidate, RestoreCandidate DEF StartCall
<1>2. ASSUME NEW p \in Proc, Step(p) PROVE CandidateInv'
  BY <1>2, MaterializeInputCandidate, SnapshotRuntimeCandidate, SnapshotSourceCandidate, PrepareCandidate,
     LocalStepCandidate, PublishCandidate, DeliverCandidate, SaveCandidate DEF Step
<1>3. ASSUME NEW p \in Proc, Abandon(p) PROVE CandidateInv'
  BY <1>3, LocalStepCandidate
<1>4. CASE EditSource \/ RotateSecret
  BY <1>4, QuietCandidate DEF EditSource, RotateSecret, config, goroutines
<1>5. CASE UNCHANGED vars
  BY <1>5, QuietCandidate DEF vars, config, goroutines
<1> QED
  BY <1>1, <1>2, <1>3, <1>4, <1>5 DEF Next

\* The inductive invariant holds: in particular a candidate at its commit, whose
\* revision is still current, was built from the live state and from nothing else.
THEOREM CandidatesCurrent == Spec => []IInv
<1>1. Init => IInv
  BY TypeInit, CandidateInit DEF IInv
<1>2. IInv /\ [Next]_vars => IInv'
  BY TypeStep, CandidateStep DEF IInv
<1> QED
  BY <1>1, <1>2, PTL DEF Spec

-----------------------------------------------------------------------------
(* Safety *)

\* Every reachable state is well typed, for any constants.
THEOREM TypeSafe == Spec => []TypeOK
<1>1. TypeInv => TypeOK
  BY DEF TypeInv
<1> QED
  BY <1>1, TypeCorrect, PTL

\* Only a publication or a restore takes a call to "deliver".
LEMMA DeliverySteps ==
  ASSUME TypeInv, [Next]_vars, NEW p \in Proc, pc'[p] = "deliver", pc[p] # "deliver"
  PROVE  Publish(p) \/ Restore(p)
<1>1. ASSUME NEW q \in Proc, StartCall(q) PROVE Restore(p)
  BY <1>1, TypeParts
     DEF StartCall, CallRuntime, CallSource, CallRefresh, CallRollback, CallSave, Freeze,
         Close, Restore, Goto, CallsOK
<1>2. ASSUME NEW q \in Proc, Step(q) PROVE Publish(p)
  BY <1>2, TypeParts
     DEF Step, MaterializeInput, SnapshotRuntime, SnapshotSource, Prepare, Validate, CommitRefused,
         CommitConflict, Publish, Deliver, StoreVersion, Publishing, PublishSet,
         PublishSource, PublishRefresh, PublishRollback, PublishOverride, Return, Goto,
         CallsOK
<1>3. ASSUME NEW q \in Proc, Abandon(q) PROVE FALSE
  BY <1>3, TypeParts DEF Abandon, Return, Goto, CallsOK
<1>4. CASE EditSource \/ RotateSecret
  BY <1>4 DEF EditSource, RotateSecret, goroutines
<1> QED
  BY <1>1, <1>2, <1>3, <1>4 DEF Next, vars, goroutines

\* What is published is the candidate, and what it replaces is what it was
\* built from.
LEMMA PublishedTransition ==
  ASSUME IInv, NEW p \in Proc, Publish(p)
  PROVE  job'[p].before = live.env /\ job'[p].snap.env = live'.env
<1>1. op[p].kind # "rollback" => Current(p)
  BY PublishFrame DEF IInv, Unsuperseded, Current
<1>2. op[p].kind # "rollback" => job[p].before = live.env
  BY <1>1, PublishFrame DEF IInv, CandidateInv, CandidateOK, BeforeOK
<1>3. job'[p].before = live.env
  BY <1>2, PublishedJob DEF IInv
<1>4. live'.env = job[p].snap.env
  BY TypeParts DEF IInv, ConfigOK, Snapshot, Publish, PublishSet, PublishSource, PublishRefresh,
                   PublishRollback, PublishOverride
<1> QED
  BY <1>3, <1>4, PublishedJob DEF IInv

LEMMA RestoredTransition ==
  ASSUME IInv, NEW p \in Proc, Restore(p)
  PROVE  job'[p].before = live.env /\ job'[p].snap.env = live'.env
<1>1. job' = [job EXCEPT ![p] = [NoJob EXCEPT !.before = live.env, !.snap = live']]
  BY Zenon DEF Restore
<1> DEFINE J == [NoJob EXCEPT !.before = live.env, !.snap = live']
<1>2. J.before = live.env /\ J.snap = live'
  BY DEF NoJob
<1> HIDE DEF J
<1> QED
  BY <1>1, <1>2, TypeParts DEF J, IInv, CallsOK

\* Listeners are told the transition that was published, whatever committed
\* while the call prepared its candidate.
THEOREM ChangeDescribed == Spec => ChangeDescribesCommit
<1>1. IInv /\ [Next]_vars =>
        [\A p \in Proc : (pc'[p] = "deliver" /\ pc[p] # "deliver") =>
            job'[p].before = live.env /\ job'[p].snap.env = live'.env]_vars
  BY DeliverySteps, PublishedTransition, RestoredTransition DEF IInv
<1> QED
  BY <1>1, CandidatesCurrent, PTL DEF Spec, ChangeDescribesCommit

\* A Set that must not overwrite never does: the key its check found absent is
\* absent from the snapshot it replaces.
THEOREM InsertChecked == Spec => InsertOnlyWhenAbsent
<1>1. ASSUME IInv, [Next]_vars, NEW p \in Proc, op[p].kind = "insert",
             pc'[p] = "deliver", pc[p] # "deliver"
      PROVE  InsertAllowed(p)
  <2>1. Publish(p)
    BY <1>1, DeliverySteps, Zenon DEF IInv, CandidateInv, CandidateOK, PositionOK, Restore
  <2>2. pc[p] = "commit" /\ Current(p)
    BY <1>1, <2>1, PublishFrame DEF IInv, Unsuperseded, Current
  <2> QED
    BY <1>1, <2>2 DEF IInv, CandidateInv, CandidateOK, RuntimeOK, RuntimeKinds
<1>2. IInv /\ [Next]_vars =>
        [\A p \in Proc : (op[p].kind = "insert" /\ pc'[p] = "deliver" /\ pc[p] # "deliver") =>
           \A k \in Key : op[p].pay[k] # Absent => live.env[k] = Absent]_vars
  BY <1>1 DEF InsertAllowed
<1> QED
  BY <1>2, CandidatesCurrent, PTL DEF Spec, InsertOnlyWhenAbsent

-----------------------------------------------------------------------------
(* Refinement: the engine implements AtomicConfig *)

\* The abstract specification computes with the same data operations.
LEMMA SameReloaded ==
  ASSUME NEW L, NEW d, NEW v PROVE Promise!Reloaded(L, d, v) = Reloaded(L, d, v)
BY DEF Promise!Reloaded, Reloaded, Promise!LoadLayers, LoadLayers, Promise!Writers, Writers,
       Promise!Highest, Highest, Promise!Materialize, Materialize, Promise!Resolve, Resolve,
       Promise!SensitivePaths, SensitivePaths

LEMMA SameExtended ==
  ASSUME NEW S, NEW src, NEW d, NEW v
  PROVE  Promise!Extended(S, src, d, v) = Extended(S, src, d, v)
BY DEF Promise!Extended, Extended, Promise!Overlay, Overlay, Promise!Materialize, Materialize,
       Promise!Resolve, Resolve, Promise!SensitivePaths, SensitivePaths

LEMMA SameRefreshed ==
  ASSUME NEW S, NEW v PROVE Promise!Refreshed(S, v) = Refreshed(S, v)
BY DEF Promise!Refreshed, Refreshed, Promise!Materialize, Materialize, Promise!Resolve, Resolve,
       Promise!SensitivePaths, SensitivePaths

LEMMA SameSetPaths ==
  ASSUME NEW S, NEW pay, NEW eff, NEW label
  PROVE  Promise!SetPaths(S, pay, eff, label) = SetPaths(S, pay, eff, label)
BY DEF Promise!SetPaths, SetPaths, Promise!Overlay, Overlay, Promise!SensitivePaths,
       SensitivePaths

LEMMA SameMaterialized ==
  ASSUME NEW pay PROVE Promise!Materialized(pay) = Materialized(pay)
BY DEF Promise!Materialized, Materialized, Promise!MaterializePayload, MaterializePayload,
       Promise!RootWith, RootWith, Promise!Resolve, Resolve, Promise!Val, Val

LEMMA SameReplay ==
  ASSUME NEW S, NEW fs PROVE Promise!Replay(S, fs) = Replay(S, fs)
BY DEF Promise!Replay, Replay, Promise!Covering, Covering, Promise!Newest, Newest,
       Promise!SensitivePaths, SensitivePaths

LEMMA SameSaved ==
  /\ \A S : Promise!Saved(S) = Saved(S)
  /\ \A v : Promise!RolledBack(v) = RolledBack(v)
  /\ Promise!Disk = Disk /\ Promise!NoBase = NoBase
BY DEF Promise!Saved, Saved, Promise!RolledBack, RolledBack, Promise!Disk, Disk, Promise!NoBase,
       NoBase

LEMMA RefinesInit == Init => Promise!Init
<1> SUFFICES ASSUME Init PROVE Promise!Init
  OBVIOUS
<1>1. versions \cup Saving = {}
  BY DEF Init, Saving
<1>2. frozen \in BOOLEAN
  BY TxnAssumption DEF Init
<1>3. PICK s \in Source : loaders = <<s>>
  BY DEF Init
<1>4. live = Promise!Reloaded(<<s>>, disk, secret) /\ live.env \in ValidEnv
      /\ disk \in Promise!Disk /\ secret \in SecretVal
  BY <1>3, SameReloaded, SameSaved DEF Init
<1>5. closed = FALSE /\ frames = {} /\ base = Promise!NoBase /\ lastId = 0
  BY SameSaved DEF Init
<1> QED
  BY <1>1, <1>2, <1>3, <1>4, <1>5 DEF Promise!Init

\* A step that saves nothing and leaves the Config alone is, to a caller, at
\* most the loss of a version that was being stored.
LEMMA QuietRefines ==
  ASSUME UNCHANGED config,
         \A q \in Proc : pc'[q] = "store" => pc[q] = "store" /\ job'[q] = job[q]
  PROVE  Promise!Next
<1>1. Saving' \subseteq Saving
  BY DEF Saving
<1>2. (versions \cup Saving)' \in SUBSET (versions \cup Saving)
  BY <1>1 DEF config
<1>3. Promise!ForgetVersions
  BY <1>2 DEF Promise!ForgetVersions, config
<1> QED
  BY <1>3 DEF Promise!Next

\* Goroutines that are not storing a version do not show.
LEMMA SavingStable ==
  ASSUME TypeInv, NEW p \in Proc, pc[p] # "store", pc'[p] # "store",
         \A q \in Proc \ {p} : pc'[q] = pc[q] /\ job'[q] = job[q]
  PROVE  Saving' = Saving
BY DEF Saving

LEMMA SaveRefines ==
  ASSUME TypeInv, NEW p \in Proc, CallSave(p) \/ StoreVersion(p)
  PROVE  Promise!Next
<1>1. CASE CallSave(p)
  <2>1. /\ pc[p] # "store" /\ pc'[p] = "store" /\ job'[p].snap = live
        /\ \A q \in Proc \ {p} : pc'[q] = pc[q] /\ job'[q] = job[q]
        /\ UNCHANGED config
    BY <1>1, TypeParts DEF CallSave, Begin, CallsOK, Goto, NoJob
  <2>2. Saving' = Saving \cup {Saved(live)}
    BY <2>1 DEF Saving
  <2>3. Promise!SaveVersion
    BY <2>1, <2>2, SameSaved DEF Promise!SaveVersion, config
  <2> QED
    BY <2>3 DEF Promise!Next
<1>2. CASE StoreVersion(p)
  <2>1. /\ pc[p] = "store" /\ pc'[p] = "idle" /\ versions' = versions \cup {Saved(job[p].snap)}
        /\ \A q \in Proc \ {p} : pc'[q] = pc[q] /\ job'[q] = job[q]
        /\ UNCHANGED <<live, loaders, frozen, closed, frames, base, lastId>>
    BY <1>2, ReturnFrame DEF StoreVersion
  <2>2. Saved(job[p].snap) \in Saving
    BY <2>1 DEF Saving
  <2>3. Saving' \subseteq Saving /\ Saving \subseteq Saving' \cup {Saved(job[p].snap)}
    BY <2>1 DEF Saving
  <2>4. (versions \cup Saving)' = versions \cup Saving
    BY <2>1, <2>2, <2>3
  <2>5. Promise!ForgetVersions
    BY <2>1, <2>4 DEF Promise!ForgetVersions
  <2> QED
    BY <2>5 DEF Promise!Next
<1> QED
  BY <1>1, <1>2

LEMMA LifecycleRefines ==
  ASSUME TypeInv, NEW p \in Proc, Freeze(p) \/ Close(p) PROVE Promise!Next
<1>1. (versions \cup Saving)' = versions \cup Saving
  BY DEF Freeze, Close, Saving
<1>2. Promise!Freeze \/ Promise!Close
  BY <1>1 DEF Freeze, Close, Promise!Freeze, Promise!Close
<1> QED
  BY <1>2 DEF Promise!Next

LEMMA RestoreRefines ==
  ASSUME IInv, NEW p \in Proc, Restore(p) PROVE Promise!Next
<1>1. PICK f \in frames :
        /\ pc[p] = "idle" /\ Goto(p, "deliver") /\ ~closed
        /\ frames' = frames \ {f}
        /\ live' = RestoredTo(frames \ {f})
        /\ frozen' = (frames \ {f} = {} /\ base.frozen)
        /\ base' = IF frames \ {f} = {} THEN NoBase ELSE base
        /\ job' = [job EXCEPT ![p] = [NoJob EXCEPT !.before = live.env, !.snap = live']]
        /\ UNCHANGED <<loaders, closed, lastId, versions>>
  BY Zenon DEF Restore
<1>2. base.frozen \in BOOLEAN
  BY HeldBase, TypeParts DEF IInv, ConfigOK, ScopeShape
<1>3. Saving' = Saving
  <2>1. \A q \in Proc \ {p} : pc'[q] = pc[q] /\ job'[q] = job[q]
    BY <1>1, TypeParts DEF IInv, CallsOK, Goto
  <2>2. pc'[p] = "deliver"
    BY <1>1, TypeParts DEF IInv, CallsOK, Goto
  <2> QED
    BY <1>1, <2>1, <2>2, SavingStable DEF IInv
<1>4. Promise!Restore(f)
  <2>1. CASE frames' = {}
    BY <1>1, <1>2, <1>3, <2>1, SameSaved DEF RestoredTo, Promise!Restore
  <2>2. CASE frames' # {}
    BY <1>1, <1>3, <2>2, SameReplay DEF RestoredTo, Promise!Restore
  <2> QED
    BY <2>1, <2>2
<1> QED
  BY <1>4 DEF Promise!Next

\* What a commit publishes, by kind of call: the live state, the disk and the
\* secret the candidate was built from need not be the present ones.
LEMMA PublishRefines ==
  ASSUME IInv, NEW p \in Proc, Publish(p) PROVE Promise!Next
<1>1. /\ TypeInv /\ pc[p] = "commit" /\ Admitted(p) /\ Unsuperseded(p)
      /\ op[p].kind # "rollback" => Current(p)
      /\ job[p].snap.env \in ValidEnv
  BY PublishFrame DEF IInv, Unsuperseded, Current, CandidateInv, CandidateOK, CommitOK
<1>2. (versions \cup Saving)' = versions \cup Saving
  BY <1>1, PublishFrame, PublishedJob, SavingStable
<1>3. CandidateOK(p)
  BY DEF IInv, CandidateInv
<1>4. CASE PublishSet(p)
  <2>1. /\ op[p].pay \in Payload /\ job[p].eff \in Promise!Materialized(op[p].pay)
        /\ job[p].snap = Promise!SetPaths(live, op[p].pay, job[p].eff, "runtime")
    BY <1>1, <1>3, <1>4, SameMaterialized, SameSetPaths
       DEF CandidateOK, RuntimeOK, PublishSet, RuntimeKinds, RuntimeLabel
  <2>2. Promise!Set(op[p].pay)
    BY <1>1, <1>2, <1>4, <2>1
       DEF PublishSet, Publishing, Admitted, Promise!Set, Promise!Mutable, Promise!Replace
  <2> QED
    BY <2>1, <2>2 DEF Promise!Next
<1>5. CASE PublishSource(p) /\ op[p].kind = "reload"
  <2>1. PICK d \in Disk, v \in SecretVal : job[p].snap = Reloaded(loaders, d, v)
    BY <1>1, <1>3, <1>5 DEF CandidateOK, SourceOK
  <2>2. job[p].layers = loaders
    BY <1>1, <1>3, <1>5 DEF CandidateOK, SourceOK
  <2>3. d \in Promise!Disk /\ job[p].snap = Promise!Reloaded(loaders, d, v)
    BY <2>1, SameReloaded, SameSaved
  <2>4. Promise!Replace(Promise!Reloaded(loaders, d, v))
    BY <1>1, <1>5, <2>3 DEF PublishSource, Promise!Replace
  <2>5. Promise!Reload
    BY <1>1, <1>2, <1>5, <2>2, <2>3, <2>4
       DEF PublishSource, Publishing, Admitted, Promise!Reload, Promise!Mutable
  <2> QED
    BY <2>5 DEF Promise!Next
<1>6. CASE PublishSource(p) /\ op[p].kind = "extend"
  <2>1. PICK d \in Disk, v \in SecretVal : job[p].snap = Extended(live, op[p].src, d, v)
    BY <1>1, <1>3, <1>6 DEF CandidateOK, SourceOK
  <2>2. job[p].layers = Append(loaders, op[p].src) /\ op[p].src \in Source
    BY <1>1, <1>3, <1>6, TypeParts DEF CandidateOK, SourceOK, CallsOK, CallShape
  <2>3. d \in Promise!Disk /\ job[p].snap = Promise!Extended(live, op[p].src, d, v)
    BY <2>1, SameExtended, SameSaved
  <2>4. Promise!Replace(Promise!Extended(live, op[p].src, d, v))
    BY <1>1, <1>6, <2>3 DEF PublishSource, Promise!Replace
  <2>5. Promise!Extend(op[p].src)
    BY <1>1, <1>2, <1>6, <2>2, <2>3, <2>4
       DEF PublishSource, Publishing, Admitted, Promise!Extend, Promise!Mutable
  <2> QED
    BY <2>2, <2>5 DEF Promise!Next
<1>7. CASE PublishRefresh(p)
  <2>1. PICK v \in SecretVal : job[p].snap = Refreshed(live, v)
    BY <1>1, <1>3, <1>7 DEF CandidateOK, SourceOK, PublishRefresh
  <2>2. live' = Refreshed(live, v)
    <3>1. live \in Snapshot
      BY <1>1, TypeParts DEF ConfigOK
    <3> QED
      BY <1>7, <2>1, <3>1 DEF PublishRefresh, Refreshed, Snapshot
  <2>3. Promise!Replace(Promise!Refreshed(live, v))
    BY <1>1, <2>1, <2>2, SameRefreshed DEF Promise!Replace
  <2>4. Promise!RefreshSecrets
    BY <1>1, <1>2, <1>7, <2>3
       DEF PublishRefresh, Publishing, Admitted, Promise!RefreshSecrets, Promise!Mutable
  <2> QED
    BY <2>4 DEF Promise!Next
<1>8. CASE PublishRollback(p)
  <2>1. PICK v \in versions : job[p].snap = RolledBack(v)
    BY <1>1, <1>3, <1>8 DEF CandidateOK, CommitOK, PublishRollback
  <2>2. Promise!Replace(Promise!RolledBack(v))
    BY <1>1, <1>8, <2>1, SameSaved DEF PublishRollback, Promise!Replace
  <2>3. Promise!RollbackToVersion
    BY <1>1, <1>2, <1>8, <2>1, <2>2
       DEF PublishRollback, Publishing, Admitted, Promise!RollbackToVersion, Promise!Mutable
  <2> QED
    BY <2>3 DEF Promise!Next
<1>9. CASE PublishOverride(p)
  <2>1. /\ op[p].pay \in Payload /\ job[p].eff \in Promise!Materialized(op[p].pay)
        /\ job[p].snap = Promise!SetPaths(live, op[p].pay, job[p].eff, "override")
    BY <1>1, <1>3, <1>9, SameMaterialized, SameSetPaths
       DEF CandidateOK, RuntimeOK, PublishOverride, RuntimeKinds, RuntimeLabel
  <2>2. Promise!Override(op[p].pay)
    BY <1>1, <1>2, <1>9, <2>1
       DEF PublishOverride, Publishing, Admitted, BaseAfterPush, CaptureBase,
           Promise!Override, Promise!Replace
  <2> QED
    BY <2>1, <2>2 DEF Promise!Next
<1> QED
  BY <1>4, <1>5, <1>6, <1>7, <1>8, <1>9 DEF Publish, PublishSource, SourceKinds

\* Every other step of a goroutine, and of the outside world.
LEMMA OtherRefines ==
  ASSUME TypeInv, NEW p \in Proc,
         \/ CallRuntime(p) \/ CallSource(p) \/ CallRefresh(p) \/ CallRollback(p)
         \/ MaterializeInput(p) \/ SnapshotRuntime(p) \/ SnapshotSource(p) \/ Prepare(p) \/ Validate(p)
         \/ CommitRefused(p) \/ CommitConflict(p) \/ Deliver(p) \/ Abandon(p)
  PROVE  Promise!Next
<1>1. UNCHANGED config
  BY DEF CallRuntime, CallSource, CallRefresh, CallRollback, MaterializeInput,
         SnapshotRuntime, SnapshotSource, Prepare, Validate, CommitRefused, CommitConflict, Deliver, Abandon
<1>2. PICK l \in Labels \ {"store"} : Goto(p, l)
  BY DEF CallRuntime, CallSource, CallRefresh, CallRollback, MaterializeInput,
         SnapshotRuntime, SnapshotSource, Prepare, Validate, CommitRefused, CommitConflict, Deliver, Abandon, Return, Labels
<1>3. \A q \in Proc \ {p} : job'[q] = job[q]
  BY TypeParts
     DEF CallRuntime, CallSource, CallRefresh, CallRollback, MaterializeInput,
         SnapshotRuntime, SnapshotSource, Prepare, Validate, CommitRefused, CommitConflict, Deliver, Abandon, Return, CallsOK
<1>4. pc'[p] # "store" /\ \A q \in Proc \ {p} : pc'[q] = pc[q]
  BY <1>2, TypeParts DEF CallsOK, Goto
<1> QED
  BY <1>1, <1>3, <1>4, QuietRefines

LEMMA RefinesStep == IInv /\ [Next]_vars => [Promise!Next]_(Promise!vars)
<1> SUFFICES ASSUME IInv, [Next]_vars PROVE Promise!Next \/ UNCHANGED Promise!vars
  OBVIOUS
<1>1. ASSUME NEW p \in Proc, StartCall(p) PROVE Promise!Next
  BY <1>1, OtherRefines, SaveRefines, LifecycleRefines, RestoreRefines DEF StartCall, IInv
<1>2. ASSUME NEW p \in Proc, Step(p) PROVE Promise!Next
  BY <1>2, OtherRefines, SaveRefines, PublishRefines DEF Step, IInv
<1>3. ASSUME NEW p \in Proc, Abandon(p) PROVE Promise!Next
  BY <1>3, OtherRefines DEF IInv
<1>4. CASE EditSource \/ RotateSecret \/ UNCHANGED vars
  <2>1. UNCHANGED <<config, pc, job>>
    BY <1>4 DEF EditSource, RotateSecret, goroutines, vars
  <2> QED
    BY <2>1, QuietRefines
<1> QED
  BY <1>1, <1>2, <1>3, <1>4 DEF Next

\* The engine implements AtomicConfig: a call that begins on one state, prepares
\* its candidate without a lock and commits on another still takes effect at one
\* instant, as if it had run alone.
THEOREM EngineIsAtomic == Spec => ImplementsAtomicConfig
<1>1. Init => Promise!Init
  BY RefinesInit
<1>2. IInv /\ [Next]_vars => [Promise!Next]_(Promise!vars)
  BY RefinesStep
<1> QED
  BY <1>1, <1>2, CandidatesCurrent, PTL DEF Spec, ImplementsAtomicConfig, Promise!Spec

-----------------------------------------------------------------------------
(* The views of a snapshot, and the scope of the overrides.  A step replaces *)
(* the snapshot by one of seven derivations of it, or leaves it.         *)

\* A leaf and what it is materialized to, never a reference to a secret.
Leaf(r, e) == /\ r \in Literal \cup SecretVal \cup {Absent} => e = r
              /\ r = SecretRef => e \in SecretVal
              /\ e # SecretRef

Sound(S) ==
  \A k \in Key : /\ Leaf(S.raw[k], S.env[k])
                 /\ S.raw[k] = SecretRef => k \in S.sens
                 /\ S.raw[k] = Absent <=> S.prov[k] = "none"

NoReference(env) == \A k \in Key : env[k] # SecretRef

\* The live snapshot and the captured base are sound; frames hold what their
\* payload was materialized to; a version, saved or about to be, holds no reference.
ViewsInv ==
  /\ Sound(live) /\ (base.taken => Sound(base.snap))
  /\ \A f \in frames : f.eff \in Materialized(f.pay)
  /\ \A v \in versions : NoReference(v.env)
  /\ \A p \in Proc : pc[p] = "store" => NoReference(job[p].snap.env)

\* The scope is exact, and the base was captured outside any override.
ScopeInv ==
  /\ OverrideScopeExact
  /\ base.taken => \A k \in Key : base.snap.prov[k] # "override"

-----------------------------------------------------------------------------
(* The derivations of the live snapshot *)

\* What Set, Reload, Extend, RefreshSecrets or a rollback makes of the snapshot.
Replaces(S) ==
  \/ \E pay \in Payload : \E eff \in Materialized(pay) : S = SetPaths(live, pay, eff, "runtime")
  \/ \E d \in Disk, v \in SecretVal : S = Reloaded(loaders, d, v)
  \/ \E src \in Source, d \in Disk, v \in SecretVal : S = Extended(live, src, d, v)
  \/ \E v \in SecretVal : S = Refreshed(live, v)
  \/ \E v \in versions : S = RolledBack(v)

\* A step that replaces the snapshot, pushes a frame or restores one.
Mutates == /\ Replaces(live') /\ UNCHANGED <<frames, base>>
           /\ frames # {} => disturbed'
Pushes == \E pay \in Payload : \E eff \in Materialized(pay) :
            /\ live' = SetPaths(live, pay, eff, "override")
            /\ frames' = frames \cup {[id |-> lastId + 1, pay |-> pay, eff |-> eff]}
            /\ base' = BaseAfterPush
            /\ ~disturbed' => ~disturbed
Pops == \E f \in frames :
          /\ frames' = frames \ {f}
          /\ live' = RestoredTo(frames')
          /\ base' = IF frames' = {} THEN NoBase ELSE base

\* What a call publishes is a derivation of the state it replaces.
LEMMA PublishDerives ==
  ASSUME IInv, NEW p \in Proc, Publish(p) PROVE Mutates \/ Pushes
<1>1. /\ TypeInv /\ pc[p] = "commit"
      /\ op[p].kind # "rollback" => Current(p)
      /\ CandidateOK(p)
  BY PublishFrame DEF IInv, Unsuperseded, Current, CandidateInv
<1>2. op[p].kind # "override" /\ frames # {} => disturbed'
  BY DEF Publish, PublishSet, PublishSource, PublishRefresh, PublishRollback, PublishOverride,
         Publishing
<1>3. CASE PublishSet(p)
  <2>1. /\ op[p].pay \in Payload /\ job[p].eff \in Materialized(op[p].pay)
        /\ live' = SetPaths(live, op[p].pay, job[p].eff, "runtime")
    BY <1>1, <1>3 DEF CandidateOK, RuntimeOK, PublishSet, RuntimeKinds, RuntimeLabel
  <2> QED
    BY <1>2, <1>3, <2>1 DEF PublishSet, Mutates, Replaces
<1>4. CASE PublishSource(p) /\ op[p].kind = "reload"
  <2>1. PICK d \in Disk, v \in SecretVal : job[p].snap = Reloaded(loaders, d, v)
    BY <1>1, <1>4 DEF CandidateOK, SourceOK
  <2> QED
    BY <1>2, <1>4, <2>1 DEF PublishSource, Mutates, Replaces
<1>5. CASE PublishSource(p) /\ op[p].kind = "extend"
  <2>1. PICK d \in Disk, v \in SecretVal : job[p].snap = Extended(live, op[p].src, d, v)
    BY <1>1, <1>5 DEF CandidateOK, SourceOK
  <2>2. op[p].src \in Source
    BY <1>1, <1>5, TypeParts DEF CallsOK, CallShape
  <2> QED
    BY <1>2, <1>5, <2>1, <2>2 DEF PublishSource, Mutates, Replaces
<1>6. CASE PublishRefresh(p)
  <2>1. PICK v \in SecretVal : job[p].snap = Refreshed(live, v)
    BY <1>1, <1>6 DEF CandidateOK, SourceOK, PublishRefresh
  <2>2. live \in Snapshot
    BY <1>1, TypeParts DEF ConfigOK
  <2>3. live' = Refreshed(live, v)
    BY <1>6, <2>1, <2>2 DEF PublishRefresh, Refreshed, Snapshot
  <2> QED
    BY <1>2, <1>6, <2>3 DEF PublishRefresh, Mutates, Replaces
<1>7. CASE PublishRollback(p)
  <2>1. PICK v \in versions : job[p].snap = RolledBack(v)
    BY <1>1, <1>7 DEF CandidateOK, CommitOK, PublishRollback
  <2> QED
    BY <1>2, <1>7, <2>1 DEF PublishRollback, Mutates, Replaces
<1>8. CASE PublishOverride(p)
  <2>1. /\ op[p].pay \in Payload /\ job[p].eff \in Materialized(op[p].pay)
        /\ live' = SetPaths(live, op[p].pay, job[p].eff, "override")
    BY <1>1, <1>8 DEF CandidateOK, RuntimeOK, PublishOverride, RuntimeKinds, RuntimeLabel
  <2>2. /\ frames' = frames \cup {[id |-> lastId + 1, pay |-> op[p].pay, eff |-> job[p].eff]}
        /\ base' = BaseAfterPush /\ (~disturbed' => ~disturbed)
    BY <1>8 DEF PublishOverride, Publishing
  <2> QED
    BY <2>1, <2>2 DEF Pushes
<1> QED
  BY <1>3, <1>4, <1>5, <1>6, <1>7, <1>8 DEF Publish, PublishSource, SourceKinds

\* Any step derives the snapshot anew or leaves the scope alone.
LEMMA ScopeSteps ==
  ASSUME IInv, [Next]_vars
  PROVE  Mutates \/ Pushes \/ Pops \/ UNCHANGED <<live, frames, base, disturbed>>
<1>1. ASSUME NEW p \in Proc, Publish(p) PROVE Mutates \/ Pushes
  BY <1>1, PublishDerives
<1>2. ASSUME NEW p \in Proc, Restore(p) PROVE Pops
  BY <1>2, Zenon DEF Restore, Pops
<1>3. ASSUME NEW p \in Proc, Step(p), ~Publish(p)
      PROVE  UNCHANGED <<live, frames, base, disturbed>>
  BY <1>3 DEF Step, MaterializeInput, SnapshotRuntime, SnapshotSource, Prepare, Validate,
     CommitRefused, CommitConflict, Deliver, StoreVersion, config, signals
<1>4. ASSUME NEW p \in Proc, StartCall(p), ~Restore(p)
      PROVE  UNCHANGED <<live, frames, base, disturbed>>
  BY <1>4 DEF StartCall, CallRuntime, CallSource, CallRefresh, CallRollback, CallSave, Freeze,
     Close, config, signals
<1>5. ASSUME NEW p \in Proc, Abandon(p) PROVE UNCHANGED <<live, frames, base, disturbed>>
  BY <1>5 DEF Abandon, config, signals
<1>6. CASE EditSource \/ RotateSecret \/ UNCHANGED vars
  BY <1>6 DEF EditSource, RotateSecret, vars, config, goroutines, signals
<1> QED
  BY <1>1, <1>2, <1>3, <1>4, <1>5, <1>6 DEF Next

-----------------------------------------------------------------------------
(* The views agree *)

\* What the hook chain makes of a leaf.
LEMMA ResolvedLeaf ==
  ASSUME NEW v \in Val, NEW root, NEW sv \in SecretVal, root[SelfKey] \in Val
  PROVE  Leaf(v, Resolve(v, root, sv))
BY DataAssumption DEF Leaf, Resolve, Val

\* A materialized tree has no reference to a secret left.
LEMMA MaterializedLeaf ==
  ASSUME NEW raw \in Tree, NEW sv \in SecretVal, NEW k \in Key
  PROVE  Leaf(raw[k], Materialize(raw, sv)[k])
<1>1. raw[k] \in Val /\ raw[SelfKey] \in Val
  BY DataAssumption DEF Tree
<1> QED
  BY <1>1, ResolvedLeaf DEF Materialize

\* So has a payload, materialized on its own.
LEMMA PayloadLeaf ==
  ASSUME NEW pay \in Tree, NEW eff \in Materialized(pay), NEW k \in Key
  PROVE  Leaf(pay[k], eff[k])
<1>1. PICK v \in Val, sv \in SecretVal : eff = MaterializePayload(pay, RootWith(v), sv)
  BY DEF Materialized
<1> DEFINE root == [RootWith(v) EXCEPT ![k] = pay[k]]
<1>2. RootWith(v) \in Tree
  BY DEF RootWith, Tree, Val
<1>3. root[SelfKey] \in Val /\ pay[k] \in Val
  BY <1>2, DataAssumption DEF Tree
<1>4. eff[k] = Resolve(pay[k], root, sv)
  BY <1>1 DEF MaterializePayload
<1> HIDE DEF root
<1> QED
  BY <1>3, <1>4, ResolvedLeaf

\* A sound snapshot stays sound when the paths of a payload are replaced.
LEMMA SetPathsSound ==
  ASSUME NEW S \in Snapshot, Sound(S), NEW pay \in Tree, NEW eff \in Materialized(pay),
         NEW label \in Owner \ {"none"}
  PROVE  Sound(SetPaths(S, pay, eff, label))
<1> DEFINE T == SetPaths(S, pay, eff, label)
<1>1. ASSUME NEW k \in Key
      PROVE  /\ T.raw[k] = IF pay[k] = Absent THEN S.raw[k] ELSE pay[k]
             /\ T.env[k] = IF pay[k] = Absent THEN S.env[k] ELSE eff[k]
             /\ T.prov[k] = IF pay[k] = Absent THEN S.prov[k] ELSE label
             /\ T.raw[k] = SecretRef => k \in T.sens
  BY DEF SetPaths, Overlay, SensitivePaths
<1> HIDE DEF T
<1> SUFFICES ASSUME NEW k \in Key
             PROVE  /\ Leaf(T.raw[k], T.env[k])
                    /\ T.raw[k] = SecretRef => k \in T.sens
                    /\ T.raw[k] = Absent <=> T.prov[k] = "none"
  BY DEF Sound, T
<1> QED
  BY <1>1, PayloadLeaf DEF Sound

\* A tree loaded from its layers is sound.
LEMMA ReloadedSound ==
  ASSUME NEW layers \in Seq(Source), NEW d \in Disk, NEW v \in SecretVal
  PROVE  Sound(Reloaded(layers, d, v))
<1> DEFINE raw == LoadLayers(layers, d)
           prov == [k \in Key |-> LET w == Writers(layers, d, k)
                                  IN  IF w = {} THEN "none" ELSE layers[Highest(w)]]
<1>1. raw \in Tree
  BY DiskType, LoadLayersType
<1>2. ASSUME NEW k \in Key PROVE raw[k] = Absent <=> prov[k] = "none"
  <2>1. CASE Writers(layers, d, k) = {}
    BY <2>1 DEF LoadLayers
  <2>2. CASE Writers(layers, d, k) # {}
    <3> DEFINE h == Highest(Writers(layers, d, k))
    <3>1. Len(layers) \in Nat /\ Writers(layers, d, k) \subseteq 1 .. Len(layers)
      BY DEF Writers
    <3>2. h \in Writers(layers, d, k)
      BY <2>2, <3>1, HighestIsMember
    <3>3. raw[k] = d[layers[h]][k] /\ prov[k] = layers[h] /\ layers[h] \in Source
      BY <2>2, <3>1, <3>2 DEF LoadLayers
    <3> QED
      BY <3>2, <3>3, DataAssumption DEF Writers
  <2> QED
    BY <2>1, <2>2
<1> HIDE DEF raw, prov
<1>3. ASSUME NEW k \in Key PROVE Leaf(raw[k], Materialize(raw, v)[k])
  BY <1>1, MaterializedLeaf
<1> DEFINE env == Materialize(raw, v)
           T == Reloaded(layers, d, v)
<1>4. T.raw = raw /\ T.env = env /\ T.prov = prov /\ T.sens = SensitivePaths(raw)
  BY DEF Reloaded, raw, prov
<1>5. \A k \in Key : Leaf(raw[k], env[k]) /\ (raw[k] = SecretRef => k \in SensitivePaths(raw))
  BY <1>3 DEF SensitivePaths
<1> HIDE DEF env, T
<1>6. Sound(T)
  BY <1>2, <1>4, <1>5 DEF Sound
<1> QED
  BY <1>6 DEF T

\* A sound snapshot stays sound when a layer is added, or its secrets are refreshed.
LEMMA ExtendedSound ==
  ASSUME NEW S \in Snapshot, Sound(S), NEW src \in Source, NEW d \in Disk, NEW v \in SecretVal
  PROVE  Sound(Extended(S, src, d, v))
<1> DEFINE T == Extended(S, src, d, v)
           raw == Overlay(S.raw, d[src])
<1>1. raw \in Tree
  BY DiskType, OverlayType DEF Snapshot
<1>2. ASSUME NEW k \in Key PROVE Leaf(raw[k], Materialize(raw, v)[k])
  BY <1>1, MaterializedLeaf
<1>3. ASSUME NEW k \in Key
      PROVE  /\ T.raw[k] = raw[k] /\ T.env[k] = Materialize(raw, v)[k]
             /\ T.raw[k] = IF d[src][k] = Absent THEN S.raw[k] ELSE d[src][k]
             /\ T.prov[k] = IF d[src][k] = Absent THEN S.prov[k] ELSE src
             /\ T.raw[k] = SecretRef => k \in T.sens
  BY DEF Extended, Overlay, SensitivePaths
<1>4. src # "none"
  BY DataAssumption
<1> HIDE DEF T, raw
<1>5. Sound(T)
  BY <1>2, <1>3, <1>4 DEF Sound
<1> QED
  BY <1>5 DEF T

\* The trees are materialized again, and nothing else changes.
LEMMA RefreshedSound ==
  ASSUME NEW S \in Snapshot, Sound(S), NEW v \in SecretVal PROVE Sound(Refreshed(S, v))
<1>1. S.raw \in Tree
  BY DEF Snapshot
<1>2. ASSUME NEW k \in Key PROVE Leaf(S.raw[k], Materialize(S.raw, v)[k])
  BY <1>1, MaterializedLeaf
<1>3. /\ Refreshed(S, v).raw = S.raw /\ Refreshed(S, v).env = Materialize(S.raw, v)
      /\ Refreshed(S, v).prov = S.prov /\ Refreshed(S, v).sens = SensitivePaths(S.raw)
  BY DEF Refreshed, Snapshot
<1> QED
  BY <1>2, <1>3 DEF Sound, SensitivePaths

\* A version without references is its own raw tree.
LEMMA RolledBackSound ==
  ASSUME NEW v \in SavedSnapshot, NoReference(v.env) PROVE Sound(RolledBack(v))
BY DEF RolledBack, NoReference, Sound, Leaf

\* Replaying the frames on a sound base gives a sound snapshot.
LEMMA ReplaySound ==
  ASSUME NEW S \in Snapshot, Sound(S), NEW N \in Nat, NEW F \in SUBSET Frame,
         \A f \in F : f.id <= N /\ f.eff \in Materialized(f.pay)
  PROVE  Sound(Replay(S, F))
<1> DEFINE T == Replay(S, F)
<1>1. ASSUME NEW k \in Key
      PROVE  /\ T.raw[k] = IF Covering(F, k) = {} THEN S.raw[k] ELSE Newest(Covering(F, k)).pay[k]
             /\ T.env[k] = IF Covering(F, k) = {} THEN S.env[k] ELSE Newest(Covering(F, k)).eff[k]
             /\ T.prov[k] = IF Covering(F, k) = {} THEN S.prov[k] ELSE "override"
             /\ T.raw[k] = SecretRef => k \in T.sens
  BY DEF Replay, SensitivePaths
<1>2. ASSUME NEW k \in Key, Covering(F, k) # {}
      PROVE  /\ Newest(Covering(F, k)).pay[k] # Absent
             /\ Leaf(Newest(Covering(F, k)).pay[k], Newest(Covering(F, k)).eff[k])
  <2> DEFINE f == Newest(Covering(F, k))
  <2>1. Covering(F, k) \in SUBSET Frame /\ \A g \in Covering(F, k) : g.id <= N
    BY DEF Covering
  <2>2. f \in Covering(F, k)
    BY <1>2, <2>1, NewestIsNewest
  <2>3. f \in F /\ f.pay[k] # Absent /\ f.pay \in Tree /\ f.eff \in Materialized(f.pay)
    BY <2>2 DEF Covering, Frame
  <2> HIDE DEF f
  <2>4. Leaf(f.pay[k], f.eff[k])
    BY <2>3, PayloadLeaf
  <2> QED
    BY <2>3, <2>4 DEF f
<1> HIDE DEF T
<1>3. Sound(T)
  BY <1>1, <1>2 DEF Sound
<1> QED
  BY <1>3 DEF T

\* What replaces the live snapshot is sound.
LEMMA ReplacesSound ==
  ASSUME TypeInv, ViewsInv, NEW S, Replaces(S) PROVE Sound(S)
<1>1. /\ live \in Snapshot /\ loaders \in Seq(Source) /\ versions \subseteq SavedSnapshot
      /\ Sound(live) /\ Payload \subseteq Tree /\ "runtime" \in Owner \ {"none"}
  BY TypeParts, TxnAssumption DEF ConfigOK, ViewsInv, Owner
<1> QED
  BY <1>1, SetPathsSound, ReloadedSound, ExtendedSound, RefreshedSound, RolledBackSound
     DEF Replaces, ViewsInv

\* Initially one layer is loaded, and nothing is overridden or saved.
LEMMA ViewsInit == Init => ViewsInv
<1> SUFFICES ASSUME Init PROVE ViewsInv
  OBVIOUS
<1>1. TypeInv
  BY TypeInit
<1>2. Sound(live)
  BY <1>1, ReloadedSound, TypeParts DEF Init, OutsideOK, ConfigOK
<1> QED
  BY <1>2 DEF Init, ViewsInv, NoBase

\* Versions, and the snapshots on their way to become one.
LEMMA SavedViews ==
  ASSUME IInv, ViewsInv, [Next]_vars
  PROVE  /\ \A v \in versions' : NoReference(v.env)
         /\ \A p \in Proc : pc'[p] = "store" => NoReference(job'[p].snap.env)
<1>0. /\ pc \in [Proc -> Labels] /\ job \in [Proc -> Job] /\ live \in Snapshot
      /\ NoReference(live.env)
  BY TypeParts DEF IInv, CallsOK, ConfigOK, ViewsInv, Sound, Leaf, NoReference
<1> DEFINE Kept == /\ \A v \in versions' : NoReference(v.env)
                   /\ \A p \in Proc : pc'[p] = "store" => NoReference(job'[p].snap.env)
<1>1. ASSUME NEW p \in Proc, pc'[p] # "store", UNCHANGED versions,
             \A q \in Proc \ {p} : pc'[q] = pc[q] /\ job'[q] = job[q]
      PROVE  Kept
  BY <1>1 DEF ViewsInv
<1>2. ASSUME NEW p \in Proc, CallSave(p) PROVE Kept
  <2>1. job' = [job EXCEPT ![p] = [NoJob EXCEPT !.snap = live]] /\ UNCHANGED versions
        /\ pc' = [pc EXCEPT ![p] = "store"]
    BY <1>2 DEF CallSave, config, Goto
  <2> DEFINE J == [NoJob EXCEPT !.snap = live]
  <2>2. J.snap = live
    BY DEF NoJob
  <2> HIDE DEF J
  <2>3. job'[p] = J /\ \A q \in Proc \ {p} : pc'[q] = pc[q] /\ job'[q] = job[q]
    BY <1>0, <2>1 DEF J
  <2> QED
    BY <1>0, <2>1, <2>2, <2>3 DEF ViewsInv
<1>3. ASSUME NEW p \in Proc, StoreVersion(p) PROVE Kept
  <2>1. /\ pc[p] = "store" /\ versions' = versions \cup {Saved(job[p].snap)} /\ pc'[p] = "idle"
        /\ \A q \in Proc \ {p} : pc'[q] = pc[q] /\ job'[q] = job[q]
    BY <1>3, ReturnFrame DEF StoreVersion, IInv
  <2> QED
    BY <2>1 DEF ViewsInv, Saved
<1>4. ASSUME NEW p \in Proc, Publish(p) \/ Restore(p) PROVE Kept
  <2>1. CASE Restore(p)
    <3>1. UNCHANGED versions /\ Goto(p, "deliver") /\ \E J : job' = [job EXCEPT ![p] = J]
      BY <2>1, Zenon DEF Restore
    <3> QED
      BY <1>0, <1>1, <3>1 DEF Goto
  <2>2. CASE Publish(p)
    <3>1. /\ UNCHANGED versions /\ pc'[p] = "deliver"
          /\ \A q \in Proc \ {p} : pc'[q] = pc[q] /\ job'[q] = job[q]
      BY <2>2, PublishFrame, PublishedJob DEF IInv
    <3> QED
      BY <1>1, <3>1
  <2> QED
    BY <1>4, <2>1, <2>2
<1>5. ASSUME NEW p \in Proc, Freeze(p) \/ Close(p) PROVE Kept
  BY <1>5 DEF Freeze, Close, ViewsInv
<1>6. ASSUME NEW p \in Proc,
             \/ CallRuntime(p) \/ CallSource(p) \/ CallRefresh(p) \/ CallRollback(p)
             \/ MaterializeInput(p) \/ SnapshotRuntime(p) \/ SnapshotSource(p) \/ Prepare(p)
             \/ Validate(p) \/ CommitRefused(p) \/ CommitConflict(p) \/ Deliver(p) \/ Abandon(p)
      PROVE  Kept
  <2>1. pc'[p] # "store" /\ UNCHANGED versions
    BY <1>0, <1>6 DEF CallRuntime, CallSource, CallRefresh, CallRollback, MaterializeInput,
       SnapshotRuntime, SnapshotSource, Prepare, Validate, CommitRefused, CommitConflict, Deliver,
       Abandon, Return, Goto, config
  <2>2. \A q \in Proc \ {p} : pc'[q] = pc[q] /\ job'[q] = job[q]
    BY <1>0, <1>6 DEF CallRuntime, CallSource, CallRefresh, CallRollback, MaterializeInput,
       SnapshotRuntime, SnapshotSource, Prepare, Validate, CommitRefused, CommitConflict, Deliver,
       Abandon, Return, Goto
  <2> QED
    BY <1>1, <2>1, <2>2
<1>7. CASE EditSource \/ RotateSecret \/ UNCHANGED vars
  BY <1>7 DEF EditSource, RotateSecret, vars, config, goroutines, ViewsInv
<1> QED
  BY <1>2, <1>3, <1>4, <1>5, <1>6, <1>7 DEF Next, Step, StartCall

\* Every step keeps the views in agreement.
LEMMA ViewsStep == IInv /\ ViewsInv /\ [Next]_vars => ViewsInv'
<1> SUFFICES ASSUME IInv, ViewsInv, [Next]_vars PROVE ViewsInv'
  OBVIOUS
<1>0. /\ live \in Snapshot /\ lastId \in Nat /\ frames \subseteq Frame
      /\ \A f \in frames : f.id <= lastId
      /\ base.taken <=> frames # {}
      /\ base.taken => base.snap \in Snapshot
  BY TypeParts, HeldBase DEF IInv, ConfigOK, ScopeShape
<1> SUFFICES /\ Sound(live)' /\ (base'.taken => Sound(base.snap)')
             /\ \A f \in frames' : f.eff \in Materialized(f.pay)
  BY SavedViews DEF ViewsInv
<1>1. CASE UNCHANGED <<live, frames, base>>
  BY <1>1 DEF ViewsInv, Sound
<1>2. CASE Mutates
  <2>1. Sound(live')
    BY <1>2, ReplacesSound DEF Mutates, IInv
  <2> QED
    BY <1>2, <2>1 DEF Mutates, ViewsInv, Sound
<1>3. CASE Pushes
  <2>0. PICK pay \in Payload : \E e \in Materialized(pay) :
          /\ live' = SetPaths(live, pay, e, "override")
          /\ frames' = frames \cup {[id |-> lastId + 1, pay |-> pay, eff |-> e]}
          /\ base' = BaseAfterPush
    BY <1>3, Zenon DEF Pushes
  <2>1. PICK eff \in Materialized(pay) :
          /\ live' = SetPaths(live, pay, eff, "override")
          /\ frames' = frames \cup {[id |-> lastId + 1, pay |-> pay, eff |-> eff]}
          /\ base' = BaseAfterPush
    BY <2>0, Zenon
  <2>2. Sound(live')
    <3>1. pay \in Tree /\ "override" \in Owner \ {"none"}
      BY TxnAssumption DEF Owner
    <3> QED
      BY <1>0, <2>1, <3>1, SetPathsSound DEF ViewsInv
  <2>3. base'.taken => Sound(base'.snap)
    BY <2>1 DEF BaseAfterPush, CaptureBase, ViewsInv
  <2>4. \A f \in frames' : f.eff \in Materialized(f.pay)
    BY <2>1 DEF ViewsInv
  <2> QED
    BY <2>2, <2>3, <2>4 DEF Sound
<1>4. CASE Pops
  <2>1. PICK f \in frames :
          /\ frames' = frames \ {f}
          /\ live' = RestoredTo(frames')
          /\ base' = IF frames' = {} THEN NoBase ELSE base
    BY <1>4 DEF Pops
  <2>2. Sound(base.snap) /\ base.snap \in Snapshot
    BY <1>0 DEF ViewsInv
  <2>3. Sound(live')
    <3>1. CASE frames' = {}
      BY <2>1, <2>2, <3>1 DEF RestoredTo
    <3>2. CASE frames' # {}
      <4>1. frames' \in SUBSET Frame /\ \A g \in frames' : g.id <= lastId /\ g.eff \in Materialized(g.pay)
        BY <1>0, <2>1 DEF ViewsInv
      <4> QED
        BY <1>0, <2>1, <2>2, <3>2, <4>1, ReplaySound DEF RestoredTo
    <3> QED
      BY <3>1, <3>2
  <2>4. base'.taken => Sound(base'.snap)
    BY <2>1, <2>2 DEF NoBase
  <2> QED
    BY <2>1, <2>3, <2>4 DEF ViewsInv, Sound
<1> QED
  BY <1>1, <1>2, <1>3, <1>4, ScopeSteps

\* Any operation of any goroutine leaves the four views of the live snapshot, and
\* of the captured base, in agreement.
THEOREM ViewsCoherent == Spec => []SnapshotCoherent
<1>1. ViewsInv => SnapshotCoherent
  BY DEF ViewsInv, Sound, Leaf, SnapshotCoherent, ViewsAgree
<1>2. Spec => []ViewsInv
  BY ViewsInit, ViewsStep, CandidatesCurrent, PTL DEF Spec
<1> QED
  BY <1>1, <1>2, PTL

-----------------------------------------------------------------------------
(* The override scope *)

\* No frame of F is newer than N, and the frame pushed after it.
UpTo(F, N) == \A f \in F : f.id <= N
Pushed(N, pay, eff) == [id |-> N + 1, pay |-> pay, eff |-> eff]

\* The newest frame that covers a key, when a newer one is pushed.
LEMMA NewestAfterPush ==
  ASSUME NEW N \in Nat, NEW F \in SUBSET Frame, UpTo(F, N),
         NEW pay \in Tree, NEW eff \in Tree, NEW k \in Key, pay[k] # Absent
  PROVE  /\ Covering(F \cup {Pushed(N, pay, eff)}, k) # {}
         /\ Newest(Covering(F \cup {Pushed(N, pay, eff)}, k)) = Pushed(N, pay, eff)
<1> DEFINE g == Pushed(N, pay, eff)
           C == Covering(F \cup {g}, k)
<1>1. g \in Frame /\ g.id = N + 1 /\ g.pay = pay
  BY DEF Frame, Pushed
<1> HIDE DEF g
<1>2. g \in C /\ C \in SUBSET Frame /\ \A f \in C : f.id <= N + 1
  BY <1>1 DEF Covering, Frame, UpTo
<1>3. \A f \in C : f.id = N + 1 => f = g
  BY <1>1 DEF Covering, Frame, UpTo
<1> HIDE DEF C
<1>4. Newest(C) \in C /\ g.id <= Newest(C).id
  BY <1>2, NewestIsNewest
<1>5. Newest(C) = g
  BY <1>1, <1>2, <1>3, <1>4 DEF Frame
<1> QED
  BY <1>2, <1>5 DEF g, C

\* The values and the owners of R are those of S with the frames replayed.
Replayed(R, S, F) ==
  \A k \in Key :
    /\ R.raw[k] = IF Covering(F, k) = {} THEN S.raw[k] ELSE Newest(Covering(F, k)).pay[k]
    /\ R.env[k] = IF Covering(F, k) = {} THEN S.env[k] ELSE Newest(Covering(F, k)).eff[k]
    /\ R.prov[k] = IF Covering(F, k) = {} THEN S.prov[k] ELSE "override"

\* Pushing a frame on a replayed base replays one frame more.
LEMMA ReplayPush ==
  ASSUME NEW N \in Nat, NEW F \in SUBSET Frame, UpTo(F, N),
         NEW S, NEW R, NEW pay \in Tree, NEW eff \in Tree, Replayed(R, S, F)
  PROVE  SetPaths(R, pay, eff, "override")
           = Replay(S, F \cup {Pushed(N, pay, eff)})
<1> DEFINE g == Pushed(N, pay, eff)
           G == F \cup {g}
<1>1. g.pay = pay /\ g.eff = eff
  BY DEF Pushed
<1>2. ASSUME NEW k \in Key, pay[k] # Absent
      PROVE  Covering(G, k) # {} /\ Newest(Covering(G, k)) = g
  BY <1>2, NewestAfterPush
<1>3. ASSUME NEW k \in Key, pay[k] = Absent PROVE Covering(G, k) = Covering(F, k)
  BY <1>1, <1>3 DEF Covering
<1> HIDE DEF g, G
<1> DEFINE raw == [k \in Key |-> IF pay[k] = Absent THEN R.raw[k] ELSE pay[k]]
           env == [k \in Key |-> IF pay[k] = Absent THEN R.env[k] ELSE eff[k]]
           prov == [k \in Key |-> IF pay[k] = Absent THEN R.prov[k] ELSE "override"]
           raw2 == [k \in Key |-> IF Covering(G, k) = {} THEN S.raw[k]
                                  ELSE Newest(Covering(G, k)).pay[k]]
           env2 == [k \in Key |-> IF Covering(G, k) = {} THEN S.env[k]
                                  ELSE Newest(Covering(G, k)).eff[k]]
           prov2 == [k \in Key |-> IF Covering(G, k) = {} THEN S.prov[k] ELSE "override"]
<1>5. raw = raw2 /\ env = env2 /\ prov = prov2
  BY <1>1, <1>2, <1>3 DEF Replayed
<1>6. SetPaths(R, pay, eff, "override")
        = [raw |-> raw, env |-> env, prov |-> prov, sens |-> SensitivePaths(raw)]
  BY DEF SetPaths, Overlay
<1>7. Replay(S, G) = [raw |-> raw2, env |-> env2, prov |-> prov2, sens |-> SensitivePaths(raw2)]
  BY DEF Replay
<1> HIDE DEF raw, raw2, env, env2, prov, prov2
<1>8. SetPaths(R, pay, eff, "override") = Replay(S, G)
  BY <1>5, <1>6, <1>7
<1> QED
  BY <1>8 DEF g, G

\* Every other mutation leaves each key to an override that had it before, with
\* its value, or takes it over under another name.
LEMMA ReplacesScope ==
  ASSUME TypeInv, NEW S, Replaces(S), NEW k \in Key, S.prov[k] = "override"
  PROVE  live.prov[k] = "override" /\ S.raw[k] = live.raw[k]
<1>0. "override" \notin Source /\ live \in Snapshot /\ loaders \in Seq(Source)
  BY DataAssumption, TypeParts DEF ConfigOK
<1>1. CASE \E pay \in Payload : \E eff \in Materialized(pay) :
             S = SetPaths(live, pay, eff, "runtime")
  BY <1>1 DEF SetPaths, Overlay
<1>2. CASE \E d \in Disk, v \in SecretVal : S = Reloaded(loaders, d, v)
  <2>1. PICK d \in Disk, v \in SecretVal : S = Reloaded(loaders, d, v)
    BY <1>2
  <2> DEFINE W == Writers(loaders, d, k)
  <2>2. S.prov[k] = IF W = {} THEN "none" ELSE loaders[Highest(W)]
    BY <2>1 DEF Reloaded
  <2>3. W # {} => loaders[Highest(W)] \in Source
    <3>1. Len(loaders) \in Nat /\ W \subseteq 1 .. Len(loaders)
      BY <1>0 DEF Writers
    <3>2. W # {} => Highest(W) \in W
      BY <3>1, HighestIsMember
    <3> DEFINE h == Highest(W)
    <3>3. W # {} => h \in 1 .. Len(loaders)
      BY <3>1, <3>2
    <3> HIDE DEF W, h
    <3>4. W # {} => loaders[h] \in Source
      BY <1>0, <3>3
    <3> QED
      BY <3>4 DEF h
  <2> HIDE DEF W
  <2> QED
    BY <1>0, <2>2, <2>3
<1>3. CASE \E src \in Source, d \in Disk, v \in SecretVal : S = Extended(live, src, d, v)
  BY <1>0, <1>3 DEF Extended, Overlay
<1>4. CASE \E v \in SecretVal : S = Refreshed(live, v)
  BY <1>0, <1>4 DEF Refreshed, Snapshot
<1>5. CASE \E v \in versions : S = RolledBack(v)
  BY <1>5 DEF RolledBack
<1> QED
  BY <1>1, <1>2, <1>3, <1>4, <1>5 DEF Replaces

\* No layer is called override.
LEMMA ScopeInit == Init => ScopeInv
<1> SUFFICES ASSUME Init PROVE ScopeInv
  OBVIOUS
<1>1. ASSUME NEW k \in Key PROVE live.prov[k] # "override"
  <2> DEFINE W == Writers(loaders, disk, k)
  <2>1. loaders \in Seq(Source) /\ "override" \notin Source
    BY TypeInit, TypeParts, DataAssumption DEF ConfigOK
  <2>2. live.prov[k] = IF W = {} THEN "none" ELSE loaders[Highest(W)]
    BY DEF Init, Reloaded
  <2>3. Len(loaders) \in Nat /\ W \subseteq 1 .. Len(loaders)
    BY <2>1 DEF Writers
  <2>4. W # {} => Highest(W) \in W
    BY <2>3, HighestIsMember
  <2> HIDE DEF W
  <2> QED
    BY <2>1, <2>2, <2>3, <2>4
<1>2. frames = {} /\ base = NoBase
  BY DEF Init
<1> QED
  BY <1>1, <1>2 DEF ScopeInv, OverrideScopeExact, NoBase

\* A mutation other than an override disturbs the scope but adds nothing to it.
LEMMA ScopeMutates ==
  ASSUME IInv, ScopeInv, Mutates PROVE ScopeInv'
<1>1. ASSUME NEW k \in Key, live'.prov[k] = "override"
      PROVE  live.prov[k] = "override" /\ live'.raw[k] = live.raw[k]
  BY <1>1, ReplacesScope DEF IInv, Mutates
<1>2. UNCHANGED <<frames, base>> /\ (frames # {} => disturbed')
  BY DEF Mutates
<1> QED
  BY <1>1, <1>2 DEF ScopeInv, OverrideScopeExact

\* An override captures the base if it is the first, and covers its keys.
LEMMA ScopePushes ==
  ASSUME IInv, ScopeInv, Pushes PROVE ScopeInv'
<1>0. /\ live \in Snapshot /\ lastId \in Nat /\ frames \in SUBSET Frame
      /\ UpTo(frames, lastId)
      /\ base.taken <=> frames # {}
      /\ base.taken => base.snap \in Snapshot
  BY TypeParts, HeldBase DEF IInv, ConfigOK, ScopeShape, UpTo
<1>1. PICK pay \in Payload : \E e \in Materialized(pay) :
        /\ live' = SetPaths(live, pay, e, "override")
        /\ frames' = frames \cup {Pushed(lastId, pay, e)}
        /\ base' = BaseAfterPush
        /\ ~disturbed' => ~disturbed
  BY Zenon DEF Pushes, Pushed
<1>2. PICK eff \in Materialized(pay) :
        /\ live' = SetPaths(live, pay, eff, "override")
        /\ frames' = frames \cup {Pushed(lastId, pay, eff)}
        /\ base' = BaseAfterPush
        /\ ~disturbed' => ~disturbed
  BY <1>1, Zenon
<1>3. pay \in Tree /\ eff \in Tree
  <2>1. PICK v \in Val, secret1 \in SecretVal :
          eff = MaterializePayload(pay, RootWith(v), secret1)
    BY DEF Materialized
  <2>2. pay \in Tree /\ RootWith(v) \in Tree
    BY TxnAssumption DEF RootWith, Tree, Val
  <2> QED
    BY <2>1, <2>2, MaterializePayloadType
<1> DEFINE g == Pushed(lastId, pay, eff)
<1>4. ASSUME NEW k \in Key, live'.prov[k] = "override"
      PROVE  /\ Covering(frames', k) # {}
             /\ live'.raw[k] = Newest(Covering(frames', k)).pay[k]
  <2>0. g.pay = pay
    BY DEF Pushed
  <2>1. CASE pay[k] = Absent
    <3>1. live.prov[k] = "override" /\ live'.raw[k] = live.raw[k]
      BY <1>2, <1>4, <2>1 DEF SetPaths, Overlay
    <3>2. Covering(frames', k) = Covering(frames, k)
      BY <1>2, <2>0, <2>1 DEF Covering
    <3> QED
      BY <3>1, <3>2 DEF ScopeInv, OverrideScopeExact
  <2>2. CASE pay[k] # Absent
    <3>1. live'.raw[k] = pay[k]
      BY <1>2, <2>2 DEF SetPaths, Overlay
    <3>2. Covering(frames', k) # {} /\ Newest(Covering(frames', k)) = g
      BY <1>0, <1>2, <1>3, <2>2, NewestAfterPush
    <3> QED
      BY <3>1, <3>2 DEF Pushed
  <2> QED
    BY <2>1, <2>2
<1>5. base'.taken => \A k \in Key : base'.snap.prov[k] # "override"
  <2>1. CASE frames = {}
    <3>1. base'.snap = live
      BY <1>2, <2>1 DEF BaseAfterPush, CaptureBase
    <3>2. ASSUME NEW k \in Key PROVE live.prov[k] # "override"
      BY <2>1 DEF ScopeInv, OverrideScopeExact, Covering
    <3> QED
      BY <3>1, <3>2
  <2>2. CASE frames # {}
    BY <1>2, <2>2 DEF BaseAfterPush, ScopeInv
  <2> QED
    BY <2>1, <2>2
<1>6. ASSUME ~disturbed' PROVE live' = Replay(base'.snap, frames')
  <2> DEFINE S == base'.snap
  <2>1. Replayed(live, S, frames)
    <3>1. CASE frames = {}
      <4>1. S = live
        BY <1>2, <3>1 DEF BaseAfterPush, CaptureBase
      <4> HIDE DEF S
      <4> QED
        BY <3>1, <4>1 DEF Replayed, Covering
    <3>2. CASE frames # {}
      <4>1. live = Replay(base.snap, frames) /\ S = base.snap
        BY <1>2, <1>6, <3>2 DEF BaseAfterPush, ScopeInv, OverrideScopeExact
      <4> HIDE DEF S
      <4> QED
        BY <4>1 DEF Replay, Replayed
    <3> QED
      BY <3>1, <3>2
  <2> HIDE DEF S
  <2>2. SetPaths(live, pay, eff, "override") = Replay(S, frames \cup {g})
    BY <1>0, <1>3, <2>1, ReplayPush
  <2> QED
    BY <1>2, <2>2 DEF S
<1> QED
  BY <1>4, <1>5, <1>6 DEF ScopeInv, OverrideScopeExact

\* A restore rebuilds the scope from the base.
LEMMA ScopePops ==
  ASSUME IInv, ScopeInv, Pops PROVE ScopeInv'
<1>1. PICK f \in frames :
        /\ frames' = frames \ {f}
        /\ live' = RestoredTo(frames')
        /\ base' = IF frames' = {} THEN NoBase ELSE base
  BY DEF Pops
<1>2. base.taken
  BY TypeParts DEF IInv, ConfigOK, ScopeShape
<1>3. CASE frames' = {}
  BY <1>1, <1>2, <1>3 DEF RestoredTo, NoBase, ScopeInv, OverrideScopeExact
<1>4. CASE frames' # {}
  <2>1. live' = Replay(base.snap, frames') /\ base' = base
    BY <1>1, <1>4 DEF RestoredTo
  <2>2. ASSUME NEW k \in Key, live'.prov[k] = "override"
        PROVE  /\ Covering(frames', k) # {}
               /\ live'.raw[k] = Newest(Covering(frames', k)).pay[k]
    BY <1>2, <2>1, <2>2 DEF Replay, ScopeInv
  <2> QED
    BY <2>1, <2>2 DEF ScopeInv, OverrideScopeExact
<1> QED
  BY <1>3, <1>4

\* Every step keeps the scope exact.
LEMMA ScopeStep == IInv /\ ScopeInv /\ [Next]_vars => ScopeInv'
<1>1. ScopeInv /\ UNCHANGED <<live, frames, base, disturbed>> => ScopeInv'
  BY DEF ScopeInv, OverrideScopeExact
<1> QED
  BY <1>1, ScopeSteps, ScopeMutates, ScopePushes, ScopePops

\* Whatever order overrides are restored in, and whatever commits in between, no
\* restored override comes back; and without other commits the live snapshot is
\* the captured base with the active frames replayed.
THEOREM ScopeExact == Spec => []OverrideScopeExact
<1>1. Spec => []ScopeInv
  BY ScopeInit, ScopeStep, CandidatesCurrent, PTL DEF Spec
<1>2. ScopeInv => OverrideScopeExact
  BY DEF ScopeInv
<1> QED
  BY <1>1, <1>2, PTL

-----------------------------------------------------------------------------
(* Deliveries *)

Delivering == {p \in Proc : pc[p] = "deliver"}

\* Finitely many changes are on their way to the listeners, however many
\* goroutines there are, and they make up for what the listeners have not had.
DeliveryInv == IsFiniteSet(Delivering) /\ EveryCommitDelivered

\* Initially there is nothing to deliver.
LEMMA DeliveryInit == Init => DeliveryInv
<1> SUFFICES ASSUME Init PROVE DeliveryInv
  OBVIOUS
<1>1. Delivering = {}
  BY DEF Init, Delivering
<1>2. notified = 0 /\ revision = 0
  BY DEF Init
<1> QED
  BY <1>1, <1>2, FS_EmptySet DEF DeliveryInv, EveryCommitDelivered, Delivering

\* A publication and a restore add one delivery, and a delivery removes one.
LEMMA DeliveryStep == IInv /\ DeliveryInv /\ [Next]_vars => DeliveryInv'
<1> SUFFICES ASSUME IInv, DeliveryInv, [Next]_vars PROVE DeliveryInv'
  OBVIOUS
<1>0. /\ pc \in [Proc -> Labels] /\ notified \in Nat /\ revision \in Nat
      /\ IsFiniteSet(Delivering) /\ notified + Cardinality(Delivering) = revision
      /\ Cardinality(Delivering) \in Nat
  BY TypeParts, FS_CardinalityType
     DEF IInv, CallsOK, ConfigOK, SignalsOK, DeliveryInv, EveryCommitDelivered, Delivering
<1>1. ASSUME UNCHANGED <<notified, revision>>, Delivering' = Delivering PROVE DeliveryInv'
  BY <1>0, <1>1 DEF DeliveryInv, EveryCommitDelivered, Delivering
<1>2. ASSUME NEW p \in Proc, UNCHANGED notified, revision' = revision + 1,
             pc[p] # "deliver", Goto(p, "deliver")
      PROVE  DeliveryInv'
  <2>1. Delivering' = Delivering \cup {p} /\ p \notin Delivering
    BY <1>0, <1>2 DEF Delivering, Goto
  <2>2. IsFiniteSet(Delivering') /\ Cardinality(Delivering') = Cardinality(Delivering) + 1
    BY <1>0, <2>1, FS_AddElement
  <2> QED
    BY <1>0, <1>2, <2>2 DEF DeliveryInv, EveryCommitDelivered, Delivering
<1>3. ASSUME NEW p \in Proc, Publish(p) PROVE DeliveryInv'
  <2>1. /\ pc[p] # "deliver" /\ Goto(p, "deliver") /\ UNCHANGED notified
        /\ revision' = revision + 1
    BY <1>3 DEF Publish, PublishSet, PublishSource, PublishRefresh, PublishRollback,
                PublishOverride, Publishing
  <2> QED
    BY <1>2, <2>1
<1>4. ASSUME NEW p \in Proc, Restore(p) PROVE DeliveryInv'
  <2>1. /\ pc[p] # "deliver" /\ Goto(p, "deliver") /\ UNCHANGED notified
        /\ revision' = revision + 1
    BY <1>4, Zenon DEF Restore
  <2> QED
    BY <1>2, <2>1
<1>5. ASSUME NEW p \in Proc, Deliver(p) PROVE DeliveryInv'
  <2>1. /\ pc[p] = "deliver" /\ notified' = notified + 1 /\ UNCHANGED revision
        /\ pc' = [pc EXCEPT ![p] = "idle"]
    BY <1>5 DEF Deliver, Return, Goto, config
  <2>2. Delivering' = Delivering \ {p} /\ p \in Delivering
    BY <1>0, <2>1 DEF Delivering
  <2>3. IsFiniteSet(Delivering') /\ Cardinality(Delivering') = Cardinality(Delivering) - 1
    BY <1>0, <2>2, FS_RemoveElement
  <2> QED
    BY <1>0, <2>1, <2>3 DEF DeliveryInv, EveryCommitDelivered, Delivering
<1>6. ASSUME NEW p \in Proc,
             \/ CallRuntime(p) \/ CallSource(p) \/ CallRefresh(p) \/ CallRollback(p)
             \/ CallSave(p) \/ StoreVersion(p) \/ MaterializeInput(p) \/ SnapshotRuntime(p)
             \/ SnapshotSource(p) \/ Prepare(p) \/ Validate(p) \/ CommitRefused(p)
             \/ CommitConflict(p) \/ Abandon(p)
      PROVE  DeliveryInv'
  <2>1. UNCHANGED <<notified, revision>>
    BY <1>6 DEF CallRuntime, CallSource, CallRefresh, CallRollback, CallSave, StoreVersion,
       MaterializeInput, SnapshotRuntime, SnapshotSource, Prepare, Validate, CommitRefused,
       CommitConflict, Abandon, config, signals
  <2>2. pc[p] # "deliver" /\ \E l \in Labels \ {"deliver"} : Goto(p, l)
    BY <1>6 DEF CallRuntime, CallSource, CallRefresh, CallRollback, CallSave, StoreVersion, Begin,
       MaterializeInput, SnapshotRuntime, SnapshotSource, Prepare, Validate, CommitRefused,
       CommitConflict, Abandon, Return, Labels
  <2>3. Delivering' = Delivering
    BY <1>0, <2>2 DEF Delivering, Goto
  <2> QED
    BY <1>1, <2>1, <2>3
<1>7. ASSUME NEW p \in Proc, Freeze(p) \/ Close(p) PROVE DeliveryInv'
  BY <1>1, <1>7 DEF Freeze, Close, signals, Delivering
<1>8. CASE EditSource \/ RotateSecret \/ UNCHANGED vars
  BY <1>1, <1>8 DEF EditSource, RotateSecret, vars, config, goroutines, signals, Delivering
<1> QED
  BY <1>3, <1>4, <1>5, <1>6, <1>7, <1>8 DEF Next, Step, StartCall

\* Every commit is delivered once and nothing else is, for any number of
\* goroutines: what was delivered and what is pending add up to the commits.
THEOREM DeliveredOnce == Spec => []EveryCommitDelivered
<1>1. Spec => []DeliveryInv
  BY DeliveryInit, DeliveryStep, CandidatesCurrent, PTL DEF Spec
<1>2. DeliveryInv => EveryCommitDelivered
  BY DEF DeliveryInv
<1> QED
  BY <1>1, <1>2, PTL
=============================================================================
