------------------------------ MODULE ConfigTxn ------------------------------
(***************************************************************************)
(* The transaction engine of Config[T]: goroutines run Set, Override and   *)
(* its restore, Reload, Extend, RefreshSecrets, RollbackToVersion,         *)
(* SaveVersion, Freeze and Close on one shared configuration.              *)
(*                                                                         *)
(* A mutation snapshots the state and its revision under the read lock,    *)
(* builds a private candidate without any lock, and publishes it under the *)
(* write lock only if the Config is still open and unfrozen and the        *)
(* revision has not moved; otherwise it starts over from the newest state. *)
(* Each critical section of c.mu is one action.  The committed change is   *)
(* delivered to listeners after the lock is released.                      *)
(*                                                                         *)
(* Reload is the full reload, WithIncremental(false).  A call refused at   *)
(* entry (closed, frozen, unknown version) returns an error and changes    *)
(* nothing: it is a stuttering step, so its guard simply disables it.      *)
(***************************************************************************)
EXTENDS ConfigData, FiniteSets

CONSTANTS Proc,      \* goroutines
          Kind,      \* operations the goroutines run in this instance
          Payload,   \* partial trees given to Set (one key) and Override
          Content,   \* what a source may hold
          ValidEnv,  \* effective trees that validation accepts
          Freezes,   \* WithFreezeOnLoad values of this instance
          MaxOps,    \* bound: operations started per goroutine
          MaxWorld   \* bound: edits of sources and rotations of secrets

Kinds == {"set", "insert", "override", "reload", "extend", "refresh",
          "rollback", "save", "freeze", "close"}

ASSUME TxnAssumption ==
  /\ Kind \subseteq Kinds
  /\ Payload \subseteq Tree
  /\ \A pay \in Payload : \E k \in Key : pay[k] # Absent
  /\ Content \subseteq Tree
  /\ \A t \in Payload \cup Content : t[SelfKey] # SelfRef  \* no reference cycle
  /\ ValidEnv \subseteq Tree
  /\ Freezes \subseteq BOOLEAN
  /\ MaxOps \in Nat /\ MaxWorld \in Nat

VARIABLES
  live, loaders, frozen, closed,     \* the published Config
  revision,
  frames, base, lastId,              \* overrideStack, overrideBase*, overrideIDCounter
  versions,                          \* versionMgr
  disk, secret, world,               \* sources, secret provider, bound counter
  pc, op, job, ops,                  \* each goroutine: position, call, locals, bound
  restorable,                        \* ids of frames whose restore was returned
  notified,                          \* change deliveries made (change_count)
  disturbed                          \* history: another mutation committed since the
                                     \* last rebuild of the override scope

config == <<live, loaders, frozen, closed, revision, frames, base, lastId, versions>>
outside == <<disk, secret, world>>
signals == <<restorable, notified, disturbed>>
goroutines == <<pc, op, job, ops, signals>>
vars == <<config, outside, goroutines>>

Disk == [Source -> Content]
NoBase == [taken |-> FALSE]
Base == {NoBase} \cup [taken : {TRUE}, snap : Snapshot, frozen : BOOLEAN]

EmptyTree == [k \in Key |-> Absent]
EmptySnap == [raw |-> EmptyTree, env |-> EmptyTree,
              prov |-> [k \in Key |-> "none"], sens |-> {}]

Labels == {"idle", "materialize", "attempt", "prepare", "validate", "commit", "deliver",
           "store"}

\* The locals of a call: the revision and effective tree it started from, the
\* materialized payload, its candidate snapshot and loaders, the pushed frame.
Job == [rev : Nat, before : Tree, eff : Tree, snap : Snapshot,
        layers : Seq(Source), id : Nat]
NoJob == [rev |-> 0, before |-> EmptyTree, eff |-> EmptyTree, snap |-> EmptySnap,
          layers |-> <<>>, id |-> 0]

\* A call: its kind, the payload of Set and Override, the source of Extend.
Call == [kind : Kinds \cup {"none"}, pay : Tree, src : Source \cup {"none"}]
NoCall == [kind |-> "none", pay |-> EmptyTree, src |-> "none"]

RuntimeKinds == {"set", "insert", "override"}
SourceKinds == {"reload", "extend"}

Init ==
  /\ disk \in Disk
  /\ secret \in SecretVal
  /\ world = 0
  /\ \E s \in Source : loaders = <<s>>
  /\ live = Reloaded(loaders, disk, secret)
  /\ live.env \in ValidEnv
  /\ frozen \in Freezes
  /\ closed = FALSE
  /\ revision = 0
  /\ frames = {} /\ base = NoBase /\ lastId = 0
  /\ versions = {}
  /\ pc = [p \in Proc |-> "idle"]
  /\ op = [p \in Proc |-> NoCall]
  /\ job = [p \in Proc |-> NoJob]
  /\ ops = [p \in Proc |-> 0]
  /\ restorable = {}
  /\ notified = 0
  /\ disturbed = FALSE

-----------------------------------------------------------------------------
(* Calls *)

Goto(p, l) == pc' = [pc EXCEPT ![p] = l]

Begin(p, kind) ==
  /\ kind \in Kind
  /\ pc[p] = "idle"
  /\ ops[p] < MaxOps
  /\ ops' = [ops EXCEPT ![p] = @ + 1]

\* The call returns; whatever it prepared is dropped.
Return(p) ==
  /\ Goto(p, "idle")
  /\ op' = [op EXCEPT ![p] = NoCall]
  /\ job' = [job EXCEPT ![p] = NoJob]

\* Set and Override are refused on a closed Config, Set also on a frozen one.
SingleKey(pay) == \E k \in Key : \A j \in Key : (pay[j] # Absent) <=> (j = k)

CallRuntime(p) ==
  \E kind \in RuntimeKinds, pay \in Payload :
    /\ Begin(p, kind)
    /\ ~closed
    /\ kind # "override" => ~frozen /\ SingleKey(pay)
    /\ op' = [op EXCEPT ![p] = [kind |-> kind, pay |-> pay, src |-> "none"]]
    /\ Goto(p, "materialize")
    /\ UNCHANGED <<config, outside, job, signals>>

\* The payload is materialized once, before any attempt, against the unresolved
\* root of this moment.
MaterializeInput(p) ==
  /\ pc[p] = "materialize"
  /\ IF Resolvable(op[p].pay, live.raw)
       THEN /\ job' = [job EXCEPT ![p] = [NoJob EXCEPT
                         !.eff = MaterializePayload(op[p].pay, live.raw, secret)]]
            /\ Goto(p, "attempt")
            /\ UNCHANGED op
       ELSE Return(p)
  /\ UNCHANGED <<config, outside, ops, signals>>

CallSource(p) ==
  \E kind \in SourceKinds, src \in Source \cup {"none"} :
    /\ Begin(p, kind)
    /\ (kind = "extend") <=> (src \in Source)
    /\ op' = [op EXCEPT ![p] = [kind |-> kind, pay |-> EmptyTree, src |-> src]]
    /\ Goto(p, "attempt")
    /\ UNCHANGED <<config, outside, job, signals>>

CallRefresh(p) ==
  /\ Begin(p, "refresh")
  /\ ~closed /\ ~frozen
  /\ op' = [op EXCEPT ![p] = [NoCall EXCEPT !.kind = "refresh"]]
  /\ Goto(p, "attempt")
  /\ UNCHANGED <<config, outside, job, signals>>

\* Rollback reads the version and validates it before taking the write lock.
CallRollback(p) ==
  \E v \in versions :
    /\ Begin(p, "rollback")
    /\ ~frozen /\ ~closed
    /\ v.env \in ValidEnv
    /\ op' = [op EXCEPT ![p] = [NoCall EXCEPT !.kind = "rollback"]]
    /\ job' = [job EXCEPT ![p] = [NoJob EXCEPT !.snap = RolledBack(v)]]
    /\ Goto(p, "commit")
    /\ UNCHANGED <<config, outside, signals>>

\* SaveVersion copies the snapshot under the lock and stores it afterwards.
CallSave(p) ==
  /\ Begin(p, "save")
  /\ op' = [op EXCEPT ![p] = [NoCall EXCEPT !.kind = "save"]]
  /\ job' = [job EXCEPT ![p] = [NoJob EXCEPT !.snap = live]]
  /\ Goto(p, "store")
  /\ UNCHANGED <<config, outside, signals>>

StoreVersion(p) ==
  /\ pc[p] = "store"
  /\ versions' = versions \cup {Saved(job[p].snap)}
  /\ Return(p)
  /\ UNCHANGED <<live, loaders, frozen, closed, revision, frames, base, lastId,
                 outside, ops, signals>>

Freeze(p) ==
  /\ Begin(p, "freeze")
  /\ frozen' = TRUE
  /\ UNCHANGED <<live, loaders, closed, revision, frames, base, lastId, versions,
                 outside, pc, op, job, signals>>

Close(p) ==
  /\ Begin(p, "close")
  /\ closed' = TRUE
  /\ UNCHANGED <<live, loaders, frozen, revision, frames, base, lastId, versions,
                 outside, pc, op, job, signals>>

-----------------------------------------------------------------------------
(* One attempt: snapshot, prepare or validate, commit *)

\* Lifecycle checks that precede a snapshot and a publication.
Admitted(p) == ~closed /\ (op[p].kind # "override" => ~frozen)

\* The candidate of Set and Override is built inside the read-locked section.
\* WithOverride(false) refuses a key that the snapshot already has.
InsertAllowed(p) ==
  op[p].kind = "insert" => \A k \in Key : op[p].pay[k] # Absent => live.env[k] = Absent

\* Mutant: the tracker is given the name of the operation.
LabelByOperation(p) == op[p].kind

RuntimeLabel(p) == IF op[p].kind = "override" THEN "override" ELSE "runtime"

SnapshotRuntime(p) ==
  /\ pc[p] = "attempt" /\ op[p].kind \in RuntimeKinds
  /\ IF Admitted(p) /\ InsertAllowed(p)
       THEN /\ job' = [job EXCEPT ![p] = [@ EXCEPT
                         !.rev = revision, !.before = live.env,
                         !.snap = SetPaths(live, op[p].pay, job[p].eff, RuntimeLabel(p))]]
            /\ Goto(p, "validate")
            /\ UNCHANGED op
       ELSE Return(p)
  /\ UNCHANGED <<config, outside, ops, signals>>

SnapshotSource(p) ==
  /\ pc[p] = "attempt" /\ op[p].kind \in SourceKinds \cup {"refresh"}
  /\ IF Admitted(p)
       THEN /\ job' = [job EXCEPT ![p] = [@ EXCEPT
                         !.rev = revision, !.before = live.env,
                         !.snap = live, !.layers = loaders]]
            /\ Goto(p, "prepare")
            /\ UNCHANGED op
       ELSE Return(p)
  /\ UNCHANGED <<config, outside, ops, signals>>

\* Sources and providers are read without a lock, at some later instant.  A
\* candidate that does not materialize or validate is dropped.
Prepared(p) ==
  LET J == job[p]
  IN  CASE op[p].kind = "reload" ->
             [J EXCEPT !.snap = Reloaded(J.layers, disk, secret)]
        [] op[p].kind = "extend" ->
             [J EXCEPT !.snap = Extended(J.snap, op[p].src, disk, secret),
                       !.layers = Append(J.layers, op[p].src)]
        [] op[p].kind = "refresh" ->
             [J EXCEPT !.snap = Refreshed(J.snap, secret)]

Prepare(p) ==
  /\ pc[p] = "prepare"
  /\ LET J == Prepared(p)
     IN  IF Resolvable(J.snap.raw, J.snap.raw) /\ J.snap.env \in ValidEnv
           THEN /\ job' = [job EXCEPT ![p] = J]
                /\ Goto(p, "commit")
                /\ UNCHANGED op
           ELSE Return(p)
  /\ UNCHANGED <<config, outside, ops, signals>>

\* A runtime candidate that fails validation is an error only if it is not
\* stale; a stale one is rebuilt.
Validate(p) ==
  /\ pc[p] = "validate"
  /\ IF job[p].snap.env \in ValidEnv
       THEN Goto(p, "commit") /\ UNCHANGED <<op, job>>
       ELSE IF ~closed /\ job[p].rev # revision
              THEN Goto(p, "attempt") /\ UNCHANGED <<op, job>>
              ELSE Return(p)
  /\ UNCHANGED <<config, outside, ops, signals>>

\* Mutants: no operation, no refresh or no insertion compares revisions.
NothingCompared(p) == TRUE
RefreshNotCompared(p) ==
  op[p].kind \in {"rollback", "refresh"} \/ job[p].rev = revision
InsertNotCompared(p) ==
  op[p].kind \in {"rollback", "insert"} \/ job[p].rev = revision

\* Rollback does not depend on the state it replaces and skips the check.
Unsuperseded(p) == op[p].kind = "rollback" \/ job[p].rev = revision

CommitRefused(p) ==
  /\ pc[p] = "commit"
  /\ ~Admitted(p)
  /\ Return(p)
  /\ UNCHANGED <<config, outside, ops, signals>>

\* Mutants: a superseded attempt delivers its change, or is retried as it is.
ConflictDelivers(p) ==
  /\ pc[p] = "commit"
  /\ Admitted(p) /\ ~Unsuperseded(p)
  /\ Goto(p, "deliver")
  /\ UNCHANGED <<config, outside, op, job, ops, signals>>
ConflictKeepsCandidate(p) ==
  /\ pc[p] = "commit"
  /\ Admitted(p) /\ ~Unsuperseded(p)
  /\ Goto(p, "validate")
  /\ UNCHANGED <<config, outside, op, job, ops, signals>>

CommitConflict(p) ==
  /\ pc[p] = "commit"
  /\ Admitted(p) /\ ~Unsuperseded(p)
  /\ Goto(p, "attempt")
  /\ UNCHANGED <<config, outside, op, job, ops, signals>>

\* A publication: the next revision, and the change to deliver is captured.
Publishing(p) ==
  /\ pc[p] = "commit"
  /\ Admitted(p) /\ Unsuperseded(p)
  /\ revision' = revision + 1
  /\ Goto(p, "deliver")
  /\ disturbed' = (disturbed \/ (frames # {} /\ op[p].kind # "override"))
  /\ UNCHANGED <<closed, versions, outside, op, ops, restorable, notified>>

PublishSet(p) ==
  /\ op[p].kind \in {"set", "insert"}
  /\ Publishing(p)
  /\ live' = job[p].snap
  /\ UNCHANGED <<loaders, frozen, frames, base, lastId, job>>

PublishSource(p) ==
  /\ op[p].kind \in SourceKinds
  /\ Publishing(p)
  /\ live' = job[p].snap
  /\ loaders' = job[p].layers
  /\ UNCHANGED <<frozen, frames, base, lastId, job>>

PublishRefresh(p) ==
  /\ op[p].kind = "refresh"
  /\ Publishing(p)
  /\ live' = [live EXCEPT !.env = job[p].snap.env, !.sens = job[p].snap.sens]
  /\ UNCHANGED <<loaders, frozen, frames, base, lastId, job>>

PublishRollback(p) ==
  /\ op[p].kind = "rollback"
  /\ Publishing(p)
  /\ live' = job[p].snap
  /\ job' = [job EXCEPT ![p] = [@ EXCEPT !.before = live.env]]
  /\ UNCHANGED <<loaders, frozen, frames, base, lastId>>

CaptureBase == [taken |-> TRUE, snap |-> live, frozen |-> frozen]

BaseAfterPush == IF frames = {} THEN CaptureBase ELSE base

PublishOverride(p) ==
  /\ op[p].kind = "override"
  /\ Publishing(p)
  /\ base' = BaseAfterPush
  /\ lastId' = lastId + 1
  /\ frames' = frames \cup {[id |-> lastId', pay |-> op[p].pay, eff |-> job[p].eff]}
  /\ frozen' = FALSE
  /\ live' = job[p].snap
  /\ job' = [job EXCEPT ![p] = [@ EXCEPT !.id = lastId']]
  /\ UNCHANGED loaders

\* After the lock: callbacks, metrics and events; Override then returns its
\* restore function.
Deliver(p) ==
  /\ pc[p] = "deliver"
  /\ notified' = notified + 1
  /\ restorable' = IF op[p].kind = "override" THEN restorable \cup {job[p].id} ELSE restorable
  /\ Return(p)
  /\ UNCHANGED <<config, outside, ops, disturbed>>

\* Cancellation is seen, or a loader, a provider, the watcher or the store of
\* versions fails, or an incremental reload finds nothing changed: the call
\* ends and publishes nothing.
Abandon(p) ==
  /\ pc[p] \in {"materialize", "attempt", "prepare", "validate", "commit", "store"}
  /\ Return(p)
  /\ UNCHANGED <<config, outside, ops, signals>>

-----------------------------------------------------------------------------
(* The restore function of an override frame: a whole transaction under the *)
(* write lock.  On a closed Config, or when called again, it does nothing.  *)

RestoredTo(rest) == IF rest = {} THEN base.snap ELSE Replay(base.snap, rest)

Restore(p) ==
  \E f \in frames :
    LET rest == frames \ {f}
    IN  /\ pc[p] = "idle"
        /\ f.id \in restorable
        /\ ~closed
        /\ frames' = rest
        /\ live' = RestoredTo(rest)
        /\ frozen' = (rest = {} /\ base.frozen)
        /\ base' = IF rest = {} THEN NoBase ELSE base
        /\ revision' = revision + 1
        /\ job' = [job EXCEPT ![p] = [NoJob EXCEPT !.before = live.env, !.snap = live']]
        /\ disturbed' = FALSE
        /\ Goto(p, "deliver")
        /\ UNCHANGED <<loaders, closed, lastId, versions, outside, op, ops,
                       restorable, notified>>

-----------------------------------------------------------------------------
(* Outside the process: a source is edited, a secret is rotated *)

EditSource ==
  /\ world < MaxWorld
  /\ \E s \in Source, c \in Content : disk' = [disk EXCEPT ![s] = c]
  /\ world' = world + 1
  /\ UNCHANGED <<config, secret, goroutines>>

RotateSecret ==
  /\ world < MaxWorld
  /\ secret' \in SecretVal
  /\ world' = world + 1
  /\ UNCHANGED <<config, disk, goroutines>>

-----------------------------------------------------------------------------
Publish(p) ==
  \/ PublishSet(p)
  \/ PublishSource(p)
  \/ PublishRefresh(p)
  \/ PublishRollback(p)
  \/ PublishOverride(p)

\* What a goroutine inside a call does next.
Step(p) ==
  \/ MaterializeInput(p)
  \/ SnapshotRuntime(p)
  \/ SnapshotSource(p)
  \/ Prepare(p)
  \/ Validate(p)
  \/ CommitRefused(p)
  \/ CommitConflict(p)
  \/ Publish(p)
  \/ Deliver(p)
  \/ StoreVersion(p)

StartCall(p) ==
  \/ CallRuntime(p)
  \/ CallSource(p)
  \/ CallRefresh(p)
  \/ CallRollback(p)
  \/ CallSave(p)
  \/ Freeze(p)
  \/ Close(p)
  \/ Restore(p)

Next ==
  \/ \E p \in Proc : StartCall(p) \/ Step(p) \/ Abandon(p)
  \/ EditSource
  \/ RotateSecret

Spec == Init /\ [][Next]_vars

\* A goroutine inside a call is eventually scheduled.
FairSpec == Spec /\ \A p \in Proc : WF_vars(Step(p))
-----------------------------------------------------------------------------
(* Properties *)

TypeOK ==
  /\ live \in Snapshot
  /\ loaders \in Seq(Source)
  /\ frozen \in BOOLEAN /\ closed \in BOOLEAN
  /\ revision \in Nat
  /\ frames \subseteq Frame
  /\ base \in Base
  /\ lastId \in Nat
  /\ versions \subseteq SavedSnapshot
  /\ disk \in Disk /\ secret \in SecretVal /\ world \in 0..MaxWorld
  /\ pc \in [Proc -> Labels]
  /\ op \in [Proc -> Call]
  /\ job \in [Proc -> Job]
  /\ ops \in [Proc -> 0..MaxOps]
  /\ restorable \subseteq Nat
  /\ notified \in Nat
  /\ disturbed \in BOOLEAN

\* Every call of every goroutine takes effect at one instant, on exactly the
\* state it replaces: no candidate built from a superseded snapshot, from
\* before a Freeze or from before a Close is ever published.  A version counts
\* as saved from the moment SaveVersion reads the snapshot.
Saving == {Saved(job[p].snap) : p \in {q \in Proc : pc[q] = "store"}}
Promise == INSTANCE AtomicConfig WITH versions <- versions \cup Saving
ImplementsAtomicConfig == Promise!Spec

\* The change handed to listeners is exactly the transition that was published:
\* "before" is the tree it replaced, "after" the tree it installed, although
\* both were captured by the call long before the commit.
ChangeDescribesCommit ==
  [][\A p \in Proc :
       (pc'[p] = "deliver" /\ pc[p] # "deliver") =>
         job'[p].before = live.env /\ job'[p].snap.env = live'.env]_vars

\* A superseded or refused attempt delivers nothing and a commit is delivered
\* exactly once: deliveries made and deliveries pending add up to the commits.
EveryCommitDelivered ==
  notified + Cardinality({p \in Proc : pc[p] = "deliver"}) = revision

\* Set with WithOverride(false) never replaces a value, even one that appeared
\* after its check.
InsertOnlyWhenAbsent ==
  [][\A p \in Proc :
       (op[p].kind = "insert" /\ pc'[p] = "deliver" /\ pc[p] # "deliver") =>
         \A k \in Key : op[p].pay[k] # Absent => live.env[k] = Absent]_vars

\* The four views of the snapshot, published by different operations from
\* candidates of different origins, describe one configuration: plain values
\* are effective as they are, a reference is resolved by a secret and is
\* sensitive, and exactly the present keys have an owner.
ViewsAgree(S) ==
  \A k \in Key :
    /\ S.raw[k] \in Literal \cup SecretVal \cup {Absent} => S.env[k] = S.raw[k]
    /\ S.raw[k] = SecretRef => S.env[k] \in SecretVal /\ k \in S.sens
    /\ S.raw[k] = Absent <=> S.prov[k] = "none"
SnapshotCoherent == ViewsAgree(live) /\ (base.taken => ViewsAgree(base.snap))

\* A key attributed to an override holds the value of the newest active frame
\* that covers it, whatever order the frames were restored in and whatever was
\* committed in between: no restored override comes back ("phantom
\* resurrection").  And as long as no other mutation committed inside the scope,
\* the live snapshot is the captured base with the active frames replayed.
OverrideScopeExact ==
  /\ \A k \in Key :
       live.prov[k] = "override" =>
         /\ Covering(frames, k) # {}
         /\ live.raw[k] = Newest(Covering(frames, k)).pay[k]
  /\ frames # {} /\ ~disturbed => live = Replay(base.snap, frames)

\* An optimistic call is not starved: every call that has begun returns, since
\* each retry is caused by a commit of another call.
EveryCallReturns == \A p \in Proc : pc[p] # "idle" ~> pc[p] = "idle"

-----------------------------------------------------------------------------
(* Statements of the documentation that the code does not keep *)

\* docs/versioning.md: "a rollback retains the redaction policy of the restored
\* materialized snapshot".  A key still attributed to the restored version, with
\* its value, stays sensitive until another version is restored.
RollingBack == \E p \in Proc : op[p].kind = "rollback" /\ pc'[p] # pc[p]
SensitivePolicyRetained ==
  [][\A k \in Key :
       /\ live.prov[k] = "version" /\ live'.prov[k] = "version"
       /\ live'.raw[k] = live.raw[k]
       /\ k \in live.sens
       /\ ~RollingBack
       => k \in live'.sens]_vars
=============================================================================
