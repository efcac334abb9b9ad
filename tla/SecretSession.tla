---------------------------- MODULE SecretSession ---------------------------
(***************************************************************************)
(* Materialization of the secrets of one Config: config_materialize.go     *)
(* (parallel branches), config_secret_self.go (resolution session, router, *)
(* providers created on first use, resource collector), the managed        *)
(* resolver of SecretResolver as the other backend, and Config.Close       *)
(* (config_lifecycle.go).  An operation (Reload, RefreshSecrets) resolves  *)
(* the leaves of one snapshot with its workers and publishes all or none.  *)
(*                                                                         *)
(* Revision conflicts between operations are in ConfigTxn; here each       *)
(* operation runs once and is refused only by Close.                       *)
(***************************************************************************)
EXTENDS SecretResolver

CONSTANTS Op,                \* operations that materialize
          OpOf,              \* Worker -> the operation it works for
          Leaf, LeafOrder,   \* leaves, and the sorted job queue of every operation
          RefsOf,            \* Leaf -> its references, left to right
          Provider, ProviderOf,
          NoLeaf,
          Pools,             \* backend ("router", "resolver") -> sets of workers
          Cancelable,        \* operations whose caller may cancel them
          MaxStores          \* bound on provider stores created in a run

ASSUME SessionConstants ==
  /\ OpOf \in [Worker -> Op] /\ LeafOrder \in [Op -> Seq(Leaf)]
  /\ RefsOf \in [Leaf -> Seq(Ref)] /\ ProviderOf \in [Ref -> Provider]
  /\ DOMAIN Pools \subseteq {"router", "resolver"}
  /\ \A b \in DOMAIN Pools : Pools[b] \subseteq SUBSET Worker
  /\ "config" \in Closer /\ Cancelable \subseteq Op

VARIABLES
  backend,     \* router of declared providers, or one managed resolver
  pool,        \* the workers that SecretResolutionConcurrency allows
  op,          \* Op -> [status, queue, values, cause, userCanceled]
  session,     \* Op -> Ref -> entry of secretResolutionSession
  work,        \* Worker -> [step, leaf, rest, got, err]
  spec,        \* Provider -> [lock, store]: selfConfigProviderSpec
  stores,      \* what became of every store a factory made
  collector,   \* [closed, resources]: selfConfigResourceCollector
  cfgClosed, cfgClose, toClose     \* Config.Close, its step, what it still closes

mine == <<backend, pool, op, session, work, spec, stores, collector, cfgClosed, cfgClose,
          toClose>>
vars == <<resolver, mine>>

NoStore == 0
Absent == [state |-> "absent", val |-> 0, err |-> "none"]
IdleWork == [step |-> "loop", leaf |-> NoLeaf, rest |-> <<>>, got |-> <<>>, err |-> "none",
             store |-> NoStore]
IdleOp == [status |-> "idle", queue |-> <<>>, values |-> <<>>, cause |-> "none",
           userCanceled |-> FALSE]
Exited == [IdleWork EXCEPT !.step = "exited"]

Init ==
  /\ ResolverInit
  /\ backend \in DOMAIN Pools /\ pool \in Pools[backend]
  /\ op = [o \in Op |-> IdleOp]
  /\ session = [o \in Op |-> [r \in Ref |-> Absent]]
  /\ work = [w \in Worker |-> Exited]
  /\ spec = [p \in Provider |-> [lock |-> NoWorker, store |-> NoStore]]
  /\ stores = <<>>
  /\ collector = [closed |-> FALSE, resources |-> {}]
  /\ cfgClosed = FALSE /\ cfgClose = "idle" /\ toClose = {}

Leaves(o) == {LeafOrder[o][i] : i \in DOMAIN LeafOrder[o]}
Workers(o) == {w \in pool : OpOf[w] = o}
Done(o) == op[o].cause # "none"                  \* workCtx.Err() # nil
Ref1(w) == Head(work[w].rest)

(* Start: RefreshSecrets clears the resolver cache first, Reload does not. *)
Start(o, refresh) ==
  /\ op[o].status = "idle" /\ ~cfgClosed /\ Workers(o) # {}
  /\ op' = [op EXCEPT ![o].status = "run", ![o].queue = LeafOrder[o],
                      ![o].values = [l \in Leaves(o) |-> <<>>]]
  /\ work' = [w \in Worker |-> IF w \in Workers(o) THEN IdleWork ELSE work[w]]
  /\ IF refresh /\ backend = "resolver" THEN ClearCache ELSE UNCHANGED <<cache, cleared>>
  /\ UNCHANGED <<remote, call, inFlight, closing, canceled, storeOpen, closer, once,
                 backend, pool, session, spec, stores, collector, cfgClosed, cfgClose, toClose>>

(* The caller's context is canceled or times out: the cause, unless a      *)
(* worker failed before.                                                   *)
FirstCause(o, e) == IF op[o].cause = "none" THEN e ELSE op[o].cause
\* Mutant: a later failure replaces the first one.
LastCause(o, e) == e

(* cancel(cause): only the first call sets it. *)
Cause(o, e) == FirstCause(o, e)

Cancel(o) == /\ op[o].status = "run" /\ ~op[o].userCanceled
             /\ op' = [op EXCEPT ![o].userCanceled = TRUE,
                                 ![o].cause = Cause(o, "canceled")]
             /\ UNCHANGED <<resolver, backend, pool, session, work, spec, stores, collector,
                            cfgClosed, cfgClose, toClose>>

(* ------------------------ a worker of the branch pool ------------------ *)
TakeLeaf(w) ==
  LET o == OpOf[w] IN
  /\ op[o].status = "run" /\ work[w].step = "loop"
  /\ IF Done(o) \/ op[o].queue = <<>>
     THEN work' = [work EXCEPT ![w] = Exited] /\ UNCHANGED op
     ELSE LET l == Head(op[o].queue) IN
          /\ work' = [work EXCEPT ![w] = [IdleWork EXCEPT !.step = "next", !.leaf = l,
                                                    !.rest = RefsOf[l]]]
          /\ op' = [op EXCEPT ![o].queue = Tail(@)]
  /\ UNCHANGED <<resolver, backend, pool, session, spec, stores, collector, cfgClosed, cfgClose,
                 toClose>>

(* Every reference of the leaf replaced: the value of this job is stored. *)
StoreLeaf(w) ==
  /\ work[w].step = "next" /\ work[w].rest = <<>>
  /\ op' = [op EXCEPT ![OpOf[w]].values[work[w].leaf] = work[w].got]
  /\ work' = [work EXCEPT ![w] = IdleWork]
  /\ UNCHANGED <<resolver, backend, pool, session, spec, stores, collector, cfgClosed, cfgClose,
                 toClose>>

(* One failing placeholder fails the leaf, which cancels the operation.    *)
LeafFailed(w) ==
  /\ work[w].step = "failed"
  /\ op' = [op EXCEPT ![OpOf[w]].cause = Cause(OpOf[w], work[w].err)]
  /\ work' = [work EXCEPT ![w] = IdleWork]
  /\ UNCHANGED <<resolver, backend, pool, session, spec, stores, collector, cfgClosed, cfgClose,
                 toClose>>

Got(w, v) == [work[w] EXCEPT !.step = "next", !.rest = Tail(@), !.got = Append(@, v),
                             !.store = NoStore]
Failed(w, e) == [IdleWork EXCEPT !.step = "failed", !.err = e]
GotOrFailed(w, e) == IF e.err = "none" THEN Got(w, e.val) ELSE Failed(w, e.err)

(* The managed resolver's hook: one resolveKey per placeholder. *)
CallResolver(w) == /\ backend = "resolver"
                   /\ work[w].step = "next" /\ work[w].rest # <<>>
                   /\ Enter(w, Ref1(w))
                   /\ work' = [work EXCEPT ![w].step = "call"]
                   /\ UNCHANGED <<backend, pool, op, session, spec, stores, collector, cfgClosed,
                                  cfgClose, toClose>>

RunResolver(w) ==
  /\ ResolverCall(w, Done(OpOf[w]))
  /\ UNCHANGED <<backend, pool, op, session, work, spec, stores, collector, cfgClosed, cfgClose,
                 toClose>>

ResolverReturned(w) ==
  /\ work[w].step = "call" /\ call[w].step \in {"ok", "failed"}
  /\ work' = [work EXCEPT ![w] = GotOrFailed(w, call[w])]
  /\ call' = [call EXCEPT ![w] = NoCall]
  /\ UNCHANGED <<remote, cache, cleared, inFlight, closing, canceled, storeOpen, closer,
                 once, backend, pool, op, session, spec, stores, collector, cfgClosed, cfgClose,
                 toClose>>

\* Mutant: an owner that has not answered yet is not waited for.
Unanswered(e) == e.state # "done"
NoEntryYet(e) == e.state = "absent"

(* getSelfConfigSecretOnce: the first worker to ask for a reference owns   *)
(* the read, the others wait for its result or for the context.            *)
Lookup(w) ==
  LET e == session[OpOf[w]][Ref1(w)] IN
  /\ backend = "router"
  /\ work[w].step = "next" /\ work[w].rest # <<>>
  /\ IF NoEntryYet(e)
     THEN /\ session' = [session EXCEPT ![OpOf[w]][Ref1(w)].state = "pending"]
          /\ work' = [work EXCEPT ![w].step = "route"]
     ELSE /\ work' = [work EXCEPT ![w].step = "wait"] /\ UNCHANGED session
  /\ UNCHANGED <<resolver, backend, pool, op, spec, stores, collector, cfgClosed, cfgClose,
                 toClose>>

Await(w) ==
  LET e == session[OpOf[w]][Ref1(w)] IN
  /\ work[w].step = "wait"
  /\ \/ e.state = "done" /\ work' = [work EXCEPT ![w] = GotOrFailed(w, e)]
     \/ Done(OpOf[w]) /\ work' = [work EXCEPT ![w] = Failed(w, "canceled")]
  /\ UNCHANGED <<resolver, backend, pool, op, session, spec, stores, collector, cfgClosed,
                 cfgClose, toClose>>

(* The owner has its answer: entry.value, entry.err, close(done). *)
Settle(w, v, e) ==
  LET entry == [state |-> "done", val |-> v, err |-> e] IN
  /\ session' = [session EXCEPT ![OpOf[w]][Ref1(w)] = entry]
  /\ work' = [work EXCEPT ![w] = GotOrFailed(w, entry)]

(* selfConfigSecretRouter.get: the store of a provider is created on first *)
(* use, under the lock of its spec, which is held during the factory call. *)
LockSpec(w) ==
  LET p == ProviderOf[Ref1(w)] IN
  /\ work[w].step = "route" /\ spec[p].lock = NoWorker
  /\ IF spec[p].store = NoStore
     THEN /\ spec' = [spec EXCEPT ![p].lock = w]
          /\ work' = [work EXCEPT ![w].step = "create"]
     ELSE UNCHANGED spec /\ work' = [work EXCEPT ![w].step = "read"]
  /\ UNCHANGED <<resolver, backend, pool, op, session, stores, collector, cfgClosed, cfgClose,
                 toClose>>

\* Mutant: the error path of the factory does not unlock the spec.
CreateKeepsLock(w) ==
  /\ work[w].step = "create" /\ Settle(w, 0, "store")
  /\ UNCHANGED <<resolver, backend, pool, op, spec, stores, collector, cfgClosed, cfgClose,
                 toClose>>

Create(w) ==
  LET p == ProviderOf[Ref1(w)] IN
  /\ work[w].step = "create"
  /\ \/ /\ Len(stores) < MaxStores
        /\ stores' = Append(stores, "open")
        /\ work' = [work EXCEPT ![w].step = "collect", ![w].store = Len(stores) + 1]
        /\ UNCHANGED <<session, spec>>
     \/ /\ Settle(w, 0, "store") /\ UNCHANGED stores
        /\ spec' = [spec EXCEPT ![p].lock = NoWorker]
  /\ UNCHANGED <<resolver, backend, pool, op, collector, cfgClosed, cfgClose, toClose>>

\* Mutant: a resource is accepted after closeAndSnapshot.
AlwaysAdmitted == TRUE
(* selfConfigResourceCollector.add refuses a resource once Close took its  *)
(* snapshot; the router then closes the store itself and fails.            *)
Admitted == ~collector.closed

Collect(w) ==
  LET p == ProviderOf[Ref1(w)]  s == work[w].store IN
  /\ work[w].step = "collect"
  /\ IF Admitted
     THEN /\ collector' = [collector EXCEPT !.resources = @ \cup {s}]
          /\ spec' = [spec EXCEPT ![p] = [lock |-> NoWorker, store |-> s]]
          /\ work' = [work EXCEPT ![w].step = "read"]
          /\ UNCHANGED <<session, stores>>
     ELSE /\ stores' = [stores EXCEPT ![s] = "closed"]
          /\ spec' = [spec EXCEPT ![p].lock = NoWorker]
          /\ Settle(w, 0, "closed") /\ UNCHANGED collector
  /\ UNCHANGED <<resolver, backend, pool, op, cfgClosed, cfgClose, toClose>>

ReadStore(w) ==
  LET r == Ref1(w) IN
  /\ work[w].step = "read"
  /\ \/ Settle(w, remote[r], "none")
     \/ Settle(w, 0, "store")
     \/ Done(OpOf[w]) /\ Settle(w, 0, "canceled")
  /\ UNCHANGED <<resolver, backend, pool, op, spec, stores, collector, cfgClosed, cfgClose, toClose>>

Outcome(o) == IF Done(o) THEN "failed" ELSE IF cfgClosed THEN "refused" ELSE "published"

(* wg.Wait: a cause fails the operation; else the snapshot is published,   *)
(* unless Close came first.                                                *)
Finish(o) ==
  /\ op[o].status = "run" /\ \A w \in Workers(o) : work[w].step = "exited"
  /\ op' = [op EXCEPT ![o] = [IdleOp EXCEPT !.status = Outcome(o)]]
  /\ session' = [session EXCEPT ![o] = [r \in Ref |-> Absent]]
  /\ UNCHANGED <<resolver, backend, pool, work, spec, stores, collector, cfgClosed, cfgClose,
                 toClose>>

(* ------------------------------ Config.Close --------------------------- *)
CloseConfig == /\ cfgClose = "idle"
               /\ cfgClosed' = TRUE /\ cfgClose' = "collect"
               /\ UNCHANGED <<resolver, backend, pool, op, session, work, spec, stores,
                              collector, toClose>>

CloseCollect == /\ cfgClose = "collect"
                /\ toClose' = collector.resources
                /\ collector' = [closed |-> TRUE, resources |-> {}]
                /\ cfgClose' = IF backend = "resolver" THEN "resolver" ELSE "stores"
                /\ UNCHANGED <<resolver, backend, pool, op, session, work, spec, stores,
                               cfgClosed>>

CloseResource == /\ cfgClose = "stores" /\ toClose # {}
                 /\ \E s \in toClose :
                      /\ toClose' = toClose \ {s}
                      /\ stores' = [stores EXCEPT ![s] = IF @ = "open" THEN "closed"
                                                         ELSE "twice"]
                 /\ UNCHANGED <<resolver, backend, pool, op, session, work, spec, collector,
                                cfgClosed, cfgClose>>

CloseReturns == /\ \/ cfgClose = "stores" /\ toClose = {}
                   \/ cfgClose = "resolver" /\ closer["config"] = "returned"
                /\ cfgClose' = "done"
                /\ UNCHANGED <<resolver, backend, pool, op, session, work, spec, stores,
                               collector, cfgClosed, toClose>>

(* The resolver is closed by Config.Close, and perhaps by its owner too. *)
CloseResolver(c) == /\ backend = "resolver"
                    /\ c = "config" => cfgClose = "resolver"
                    /\ ResolverClose(c)
                    /\ UNCHANGED mine

Environment == \/ \E r \in Ref : (Rotate(r) \/ Expire(r)) /\ UNCHANGED mine
               \/ \E o \in Cancelable : Cancel(o)

Step(w) == \/ TakeLeaf(w) \/ StoreLeaf(w) \/ LeafFailed(w)
           \/ CallResolver(w) \/ RunResolver(w) \/ ResolverReturned(w)
           \/ Lookup(w) \/ Await(w) \/ LockSpec(w) \/ Create(w) \/ Collect(w) \/ ReadStore(w)

CloseStep == \/ CloseCollect \/ CloseResource \/ CloseReturns \/ CloseResolver("config")

Next == \/ \E o \in Op, refresh \in BOOLEAN : Start(o, refresh)
        \/ \E w \in Worker : Step(w)
        \/ \E o \in Op : Finish(o)
        \/ CloseConfig \/ CloseStep
        \/ \E c \in Closer \ {"config"} : CloseResolver(c)
        \/ Environment

(* The steps of the program: a store and a factory return, with an answer  *)
(* or an error, as their contract asks once the context is canceled.       *)
Progress == \/ \E w \in Worker : Step(w)
            \/ \E o \in Op : Finish(o)
            \/ CloseStep
            \/ \E c \in Closer \ {"config"} : closer[c] # "idle" /\ CloseResolver(c)

Spec == Init /\ [][Next]_vars

-----------------------------------------------------------------------------
(* A published snapshot is complete, and two keys with the same reference  *)
(* hold the same secret although it was rotated while they were resolved.  *)
Complete(v) == \A l \in DOMAIN v : Len(v[l]) = Len(RefsOf[l])
Coherent(v) ==
  \A l, m \in DOMAIN v : \A i \in DOMAIN RefsOf[l], j \in DOMAIN RefsOf[m] :
    RefsOf[l][i] = RefsOf[m][j] => v[l][i] = v[m][j]

Publishes(o) == op[o].status = "run" /\ op'[o].status = "published"
PublishedConsistent ==
  [][\A o \in Op : Publishes(o) =>
       Complete(op[o].values) /\ (backend = "router" => Coherent(op[o].values))]_vars

(* The error of an operation is the failure that started it, never the     *)
(* cancellation that failure caused in the other branches.                 *)
ErrorIsRootCause ==
  \A o \in Op : op[o].cause = "canceled" => op[o].userCanceled \/ canceled

(* Every store a factory ever made is closed by the time Config.Close has  *)
(* returned and no operation runs, and none is closed twice, although the  *)
(* factories race Close.                                                   *)
EveryStoreClosedOnce ==
  /\ \A s \in DOMAIN stores : stores[s] # "twice"
  /\ cfgClose = "done" /\ (\A o \in Op : op[o].status # "run") =>
       \A s \in DOMAIN stores : stores[s] = "closed"

(* Nobody waits for ever: while an operation runs, or a Close has begun,   *)
(* some goroutine can take a step, whoever failed or was canceled; as none *)
(* loops, every operation and every Close returns.                         *)
Unfinished == \/ \E o \in Op : op[o].status = "run"
              \/ cfgClose \notin {"idle", "done"}
              \/ \E c \in Closer : closer[c] \notin {"idle", "returned"}
NobodyWaitsForever == Unfinished => ENABLED Progress

=============================================================================
