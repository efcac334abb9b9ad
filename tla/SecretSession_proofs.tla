------------------------ MODULE SecretSession_proofs ------------------------
(***************************************************************************)
(* Proofs about the managed resolver and the resolution session, for any   *)
(* number of workers, operations, references, leaves, providers and        *)
(* callers of Close.                                                       *)
(***************************************************************************)
EXTENDS SecretSession, SequenceTheorems, TLAPS

-----------------------------------------------------------------------------
(* Types *)

Errors == {"none", "store", "canceled", "closed"}
Secret == 0 .. 2

ActiveSteps == {"check", "fetch", "write", "leave"}
CallRecord == [step : ActiveSteps \cup {"none", "ok", "failed"}, ref : Ref \cup {NoRef},
               val : Secret, err : Errors]
MidClose == {"cancel", "wait", "drop", "store"}

ResolverType ==
  /\ remote \in [Ref -> 1 .. 2] /\ cleared \in [Ref -> 1 .. 2]
  /\ cache \in [Ref -> [val : Secret, expired : BOOLEAN]]
  /\ call \in [Worker -> CallRecord]
  /\ \A w \in Worker : call[w].step # "none" => call[w].ref \in Ref
  /\ inFlight \subseteq Worker
  /\ closing \in BOOLEAN /\ canceled \in BOOLEAN /\ storeOpen \in BOOLEAN
  /\ closer \in [Closer -> MidClose \cup {"idle", "blocked", "returned"}]
  /\ once \in Closer \cup {"free", "done"}

BusySteps == {"next", "call", "wait", "route", "create", "collect", "read"}
OwnerSteps == {"route", "create", "collect", "read"}
WorkRecord == [step : BusySteps \cup {"loop", "failed", "exited"}, leaf : Leaf \cup {NoLeaf},
               rest : Seq(Ref), got : Seq(Secret), err : Errors, store : Nat]
Entry == [state : {"absent", "pending", "done"}, val : Secret, err : Errors]
Values == UNION {[L -> Seq(Secret)] : L \in SUBSET Leaf}
OpRecord == [status : {"idle", "run", "failed", "refused", "published"}, queue : Seq(Leaf),
             values : Values, cause : Errors, userCanceled : BOOLEAN]

\* What a worker at a step has in hand.
Shape(w, r) == /\ r.step \in BusySteps \ {"next"} => r.rest # <<>>
               /\ r.step \in BusySteps => r.leaf \in Leaves(OpOf[w])

WorkType ==
  /\ backend \in {"router", "resolver"} /\ pool \subseteq Worker
  /\ work \in [Worker -> WorkRecord]
  /\ \A w \in Worker : Shape(w, work[w])

\* A running operation holds a slot for every leaf.
OpShape(o, r) ==
  r.status = "run" => DOMAIN r.values = Leaves(o) /\ r.queue \in Seq(Leaves(o))

OpType ==
  /\ op \in [Op -> OpRecord]
  /\ \A o \in Op : OpShape(o, op[o])
  /\ session \in [Op -> [Ref -> Entry]]
  /\ stores \in Seq({"open", "closed", "twice"})

-----------------------------------------------------------------------------
(* The resolver *)

Fresh ==
  /\ \A r \in Ref : cleared[r] <= remote[r]
  /\ NothingOlderThanCleared
  /\ \A w \in Worker : call[w].step = "write" => call[w].val >= cleared[call[w].ref]

Quiesced == closing /\ \A w \in Worker : call[w].step \notin ActiveSteps

CloseOrder ==
  /\ \A w \in Worker : call[w].step \in ActiveSteps <=> w \in inFlight
  /\ once # "free" => closing
  /\ \A c \in Closer : closer[c] \in MidClose <=> once = c
  /\ \A c \in Closer : closer[c] = "blocked" => once # "free"
  /\ \A c \in Closer : closer[c] = "returned" => once = "done"
  /\ \A c \in Closer : closer[c] \in {"drop", "store"} => Quiesced
  /\ \A c \in Closer : closer[c] = "store" => cache = EmptyCache
  /\ once = "done" => Quiesced /\ cache = EmptyCache /\ ~storeOpen

-----------------------------------------------------------------------------
(* Who works for which operation *)

Employed ==
  /\ \A w \in Worker : work[w].step # "exited" => w \in pool /\ op[OpOf[w]].status = "run"
  /\ \A w \in Worker : call[w].step # "none" <=> work[w].step = "call"
  /\ \A w \in Worker : work[w].step \in OwnerSteps \cup {"wait"} => backend = "router"
  /\ \A w \in Worker : work[w].step = "call" => backend = "resolver"

(* Errors *)

RootCauses ==
  /\ \A o \in Op : op[o].status # "run" => op[o].cause = "none"
  /\ ErrorIsRootCause
  /\ \A w \in Worker : call[w].step # "none" /\ call[w].err = "canceled" =>
       canceled \/ Done(OpOf[w])
  /\ \A w \in Worker : work[w].step = "failed" =>
       work[w].err # "none" /\ (work[w].err = "canceled" => canceled \/ Done(OpOf[w]))
  /\ \A o \in Op, r \in Ref : session[o][r].err = "canceled" => canceled \/ Done(o)

-----------------------------------------------------------------------------
(* Stores *)

Creating == {w \in Worker : work[w].step = "collect"}
Owned == collector.resources \cup toClose \cup {work[w].store : w \in Creating}

StoresKept ==
  /\ stores \in Seq({"open", "closed"})
  /\ \A s \in DOMAIN stores : stores[s] = "open" <=> s \in Owned
  /\ Owned \subseteq DOMAIN stores
  /\ collector.resources \cap toClose = {}
  /\ \A w \in Creating : work[w].store \notin collector.resources \cup toClose
  /\ \A v, w \in Creating : work[v].store = work[w].store => v = w
  /\ collector = [closed |-> collector.closed, resources |-> collector.resources]
  /\ collector.closed \in BOOLEAN
  /\ cfgClose \in {"idle", "collect"} => toClose = {}
  /\ cfgClose \notin {"idle", "collect"} => collector.closed /\ collector.resources = {}
  /\ cfgClose \in {"resolver", "done"} => toClose = {}
  /\ backend = "resolver" => collector.resources = {}

-----------------------------------------------------------------------------
(* Snapshots *)

Owners(o, r) == {w \in Worker : OpOf[w] = o /\ work[w].step \in OwnerSteps /\ Ref1(w) = r}

OneOwner ==
  /\ \A w \in Worker : work[w].step \in OwnerSteps =>
       session[OpOf[w]][Ref1(w)].state = "pending"
  /\ \A v, w \in Worker :
       /\ work[v].step \in OwnerSteps /\ work[w].step \in OwnerSteps
       /\ OpOf[v] = OpOf[w] /\ Ref1(v) = Ref1(w)
       => v = w

Agrees(o, r, v) ==
  backend = "router" => session[o][r].state = "done" /\ v = session[o][r].val

InLine(w) ==
  LET refs == RefsOf[work[w].leaf] got == work[w].got rest == work[w].rest IN
  /\ Len(got) + Len(rest) = Len(refs)
  /\ \A i \in DOMAIN rest : rest[i] = refs[Len(got) + i]
  /\ \A i \in DOMAIN got : Agrees(OpOf[w], refs[i], got[i])
Aligned == \A w \in Worker : work[w].step \in BusySteps => InLine(w)

Resolved(o, l) == Len(op[o].values[l]) = Len(RefsOf[l])
Queued(o, l) == \E i \in DOMAIN op[o].queue : op[o].queue[i] = l
Has(w, o, l) == /\ OpOf[w] = o
                /\ \/ work[w].step \in BusySteps /\ work[w].leaf = l
                   \/ work[w].step = "failed"
Pending(o, l) == Queued(o, l) \/ \E w \in Worker : Has(w, o, l)

\* A running operation has each leaf resolved, queued or in a worker's hands;
\* its values are those of its references; a worker that left knew that
\* nothing was queued.
ValuesAgree(o) ==
  \A l \in Leaves(o) : \A i \in DOMAIN op[o].values[l] :
    i \in DOMAIN RefsOf[l] /\ Agrees(o, RefsOf[l][i], op[o].values[l][i])
AllLeaves(o) == \A l \in Leaves(o) : Resolved(o, l) \/ Pending(o, l)
LeftNothing(o) ==
  \A w \in Workers(o) : work[w].step = "exited" => Done(o) \/ op[o].queue = <<>>

Attended(o) == /\ Workers(o) # {} /\ ValuesAgree(o) /\ LeftNothing(o)
               /\ Done(o) \/ AllLeaves(o)
NoLeafDropped == \A o \in Op : op[o].status = "run" => Attended(o)

-----------------------------------------------------------------------------
(* The resolver makes its own steps: every step of the session is one of    *)
(* them, or leaves the resolver alone.                                     *)

Cleared == ClearCache /\ UNCHANGED <<remote, call, inFlight, closing, canceled, storeOpen,
                                     closer, once>>
Returned(w) == /\ call[w].step \in {"ok", "failed"}
               /\ call' = [call EXCEPT ![w] = NoCall]
               /\ UNCHANGED <<remote, cache, cleared, inFlight, closing, canceled, storeOpen,
                              closer, once>>
WorkerCall(w) == \/ \E r \in Ref : Enter(w, r)
                 \/ \E ctxDone \in BOOLEAN : ResolverCall(w, ctxDone)
                 \/ Returned(w)
ResolverNext == \/ \E r \in Ref : Rotate(r) \/ Expire(r)
                \/ Cleared
                \/ \E w \in Worker : WorkerCall(w)
                \/ \E c \in Closer : ResolverClose(c)

\* The head and the tail of a sequence.
LEMMA HeadInSet ==
  ASSUME NEW S, NEW q \in Seq(S), q # <<>>
  PROVE  /\ Head(q) \in S /\ Tail(q) \in Seq(S) /\ Len(Tail(q)) = Len(q) - 1 /\ Len(q) > 0
         /\ Head(q) = q[1] /\ \A i \in DOMAIN Tail(q) : Tail(q)[i] = q[i + 1]
BY HeadTailProperties

\* The next reference of a worker is one of the references.
LEMMA ReferenceKnown ==
  ASSUME WorkType, NEW w \in Worker, work[w].rest # <<>> PROVE Ref1(w) \in Ref
<1>1. work[w].rest \in Seq(Ref)
  BY DEF WorkType, WorkRecord
<1> QED
  BY <1>1, HeadInSet DEF Ref1

\* The session uses the resolver only through its operations.
LEMMA SessionStep ==
  ASSUME WorkType, [Next]_vars PROVE [ResolverNext]_resolver
<1>1. CASE \E o \in Op, refresh \in BOOLEAN : Start(o, refresh)
  BY <1>1 DEF Start, ResolverNext, Cleared, resolver
<1>2. ASSUME NEW w \in Worker, Step(w) PROVE [ResolverNext]_resolver
  <2>1. CASE CallResolver(w)
    BY <2>1, ReferenceKnown DEF CallResolver, ResolverNext, WorkerCall
  <2>2. CASE RunResolver(w)
    <3>1. Done(OpOf[w]) \in BOOLEAN
      BY DEF Done
    <3> QED
      BY <2>2, <3>1 DEF RunResolver, ResolverNext, WorkerCall
  <2>3. CASE ResolverReturned(w)
    BY <2>3 DEF ResolverReturned, ResolverNext, WorkerCall, Returned
  <2>4. CASE ~CallResolver(w) /\ ~RunResolver(w) /\ ~ResolverReturned(w)
    BY <1>2, <2>4 DEF Step, TakeLeaf, StoreLeaf, LeafFailed, Lookup, Await, LockSpec, Create,
                      Collect, ReadStore
  <2> QED
    BY <2>1, <2>2, <2>3, <2>4
<1>3. CASE \E o \in Op : Finish(o)
  BY <1>3 DEF Finish
<1>4. CASE CloseConfig \/ CloseCollect \/ CloseResource \/ CloseReturns
  BY <1>4 DEF CloseConfig, CloseCollect, CloseResource, CloseReturns
<1>5. CASE \E c \in Closer : CloseResolver(c)
  BY <1>5 DEF CloseResolver, ResolverNext
<1>6. CASE Environment
  BY <1>6 DEF Environment, Cancel, ResolverNext
<1>7. CASE UNCHANGED vars
  BY <1>7 DEF vars
<1> QED
  BY <1>1, <1>2, <1>3, <1>4, <1>5, <1>6, <1>7, SessionConstants DEF Next, CloseStep

-----------------------------------------------------------------------------
(* Invariants of the resolver *)

\* The resolver starts typed.
LEMMA ResolverTypeInit == ResolverInit => ResolverType
<1> SUFFICES ASSUME ResolverInit PROVE ResolverType
  OBVIOUS
<1>1. NoCall \in CallRecord /\ NoEntry \in [val : Secret, expired : BOOLEAN]
  BY DEF NoEntry, NoCall, CallRecord, Secret, Errors
<1> QED
  <2>1. call \in [Worker -> CallRecord] /\ cache \in [Ref -> [val : Secret, expired : BOOLEAN]]
    BY <1>1 DEF ResolverInit
  <2>2. \A w \in Worker : call[w].step # "none" => call[w].ref \in Ref
    BY DEF ResolverInit, NoCall
  <2>3. remote \in [Ref -> 1 .. 2] /\ cleared \in [Ref -> 1 .. 2]
    BY DEF ResolverInit
  <2>4. closer \in [Closer -> MidClose \cup {"idle", "blocked", "returned"}]
    BY DEF ResolverInit
  <2> QED
    BY <2>1, <2>2, <2>3, <2>4 DEF ResolverInit, ResolverType

\* A call that moves on is a call.
LEMMA CallMoves ==
  ASSUME ResolverType, NEW w \in Worker, NEW new \in CallRecord, new.ref \in Ref,
         call' = [call EXCEPT ![w] = new]
  PROVE  /\ call' \in [Worker -> CallRecord]
         /\ \A v \in Worker : call'[v].step # "none" => call'[v].ref \in Ref
BY DEF ResolverType

\* A step of a call keeps the resolver typed.
LEMMA CallTypeStep ==
  ASSUME ResolverType, NEW w \in Worker, WorkerCall(w) PROVE ResolverType'
<1> USE DEF ResolverType
<1> DEFINE CallType == /\ call \in [Worker -> CallRecord]
                       /\ \A v \in Worker : call[v].step # "none" => call[v].ref \in Ref
<1>1. ASSUME NEW r \in Ref, Enter(w, r) PROVE ResolverType'
  <2>1. CallType'
    BY <1>1 DEF Enter, CallRecord, ActiveSteps, Secret, Errors
  <2> QED
    BY <1>1, <2>1 DEF Enter
<1>2. CASE CheckCache(w)
  <2>1. call[w] \in CallRecord /\ call[w].ref \in Ref /\ cache[call[w].ref].val \in Secret
    BY <1>2 DEF CheckCache
  <2>2. CASE Hit(call[w].ref)
    <3> DEFINE new == [call[w] EXCEPT !.step = "leave", !.val = cache[call[w].ref].val]
    <3>1. call' = [call EXCEPT ![w] = new]
      BY <1>2, <2>2 DEF CheckCache
    <3>2. new \in CallRecord /\ new.ref \in Ref
      BY <2>1 DEF CallRecord, ActiveSteps
    <3> HIDE DEF new
    <3> QED
      BY <1>2, <3>1, <3>2, CallMoves DEF CheckCache
  <2>3. CASE ~Hit(call[w].ref)
    <3> DEFINE new == [call[w] EXCEPT !.step = "fetch"]
    <3>1. call' = [call EXCEPT ![w] = new]
      BY <1>2, <2>3 DEF CheckCache
    <3>2. new \in CallRecord /\ new.ref \in Ref
      BY <2>1 DEF CallRecord, ActiveSteps
    <3> HIDE DEF new
    <3> QED
      BY <1>2, <3>1, <3>2, CallMoves DEF CheckCache
  <2> QED
    BY <2>2, <2>3
<1>3. ASSUME NEW d \in BOOLEAN, Fetch(w, d) PROVE ResolverType'
  <2>1. call[w] \in CallRecord /\ call[w].ref \in Ref /\ remote[call[w].ref] \in Secret
    BY <1>3 DEF Fetch, Secret
  <2>2. PICK new : /\ call' = [call EXCEPT ![w] = new]
                   /\ \/ new = [call[w] EXCEPT !.step = "write", !.val = remote[call[w].ref]]
                      \/ new = [call[w] EXCEPT !.step = "leave", !.err = "store"]
                      \/ new = [call[w] EXCEPT !.step = "leave", !.err = "canceled"]
    BY <1>3 DEF Fetch
  <2>3. new \in CallRecord /\ new.ref \in Ref
    BY <2>1, <2>2 DEF CallRecord, ActiveSteps, Errors
  <2> QED
    BY <1>3, <2>2, <2>3, CallMoves DEF Fetch
<1>4. CASE CacheWrite(w)
  <2>1. CallType'
    BY <1>4 DEF CacheWrite, CallRecord, ActiveSteps, Secret, Errors
  <2>2. call[w].ref \in Ref /\ call[w].val \in Secret
    BY <1>4 DEF CacheWrite, CallRecord
  <2>3. cache' \in [Ref -> [val : Secret, expired : BOOLEAN]]
    BY <1>4, <2>2 DEF CacheWrite
  <2> QED
    BY <1>4, <2>1, <2>3 DEF CacheWrite
<1>5. CASE Leave(w)
  <2>1. CallType'
    BY <1>5 DEF Leave, CallRecord, ActiveSteps, Secret, Errors
  <2> QED
    BY <1>5, <2>1 DEF Leave
<1>6. CASE Returned(w)
  <2>1. CallType'
    BY <1>6 DEF Returned, NoCall, CallRecord, ActiveSteps, Secret, Errors
  <2> QED
    BY <1>6, <2>1 DEF Returned
<1> QED
  BY <1>1, <1>2, <1>3, <1>4, <1>5, <1>6 DEF WorkerCall, ResolverCall

\* So does every step of the resolver.
LEMMA ResolverTypeStep ==
  ResolverType /\ [ResolverNext]_resolver => ResolverType'
<1> SUFFICES ASSUME ResolverType, [ResolverNext]_resolver PROVE ResolverType'
  OBVIOUS
<1> USE DEF ResolverType
<1>1. ASSUME NEW r \in Ref, Rotate(r) PROVE ResolverType'
  BY <1>1 DEF Rotate
<1>2. ASSUME NEW r \in Ref, Expire(r) PROVE ResolverType'
  BY <1>2 DEF Expire
<1>3. CASE Cleared
  BY <1>3 DEF Cleared, ClearCache, EmptyCache, NoEntry, ClearedValues, Secret
<1>4. ASSUME NEW c \in Closer, ResolverClose(c) PROVE ResolverType'
  <2>1. CASE CloseBegin(c)
    BY <2>1 DEF CloseBegin, MidClose
  <2>2. CASE CloseDrop(c)
    BY <2>2 DEF CloseDrop, MidClose, EmptyCache, NoEntry, Secret
  <2>3. CASE CloseCancel(c) \/ CloseWait(c) \/ CloseStore(c) \/ CloseJoin(c)
    BY <2>3 DEF CloseCancel, CloseWait, CloseStore, CloseJoin, MidClose
  <2> QED
    BY <1>4, <2>1, <2>2, <2>3 DEF ResolverClose
<1>5. CASE UNCHANGED resolver
  BY <1>5 DEF resolver
<1> QED
  BY <1>1, <1>2, <1>3, <1>4, <1>5, CallTypeStep DEF ResolverNext

-----------------------------------------------------------------------------
(* ClearCache bounds staleness *)

\* Nothing is cached at first.
LEMMA FreshInit == ResolverInit => Fresh
BY DEF ResolverInit, Fresh, NothingOlderThanCleared, NoCall

\* What a call does to the cache and to the answers on their way.
LEMMA FreshCall ==
  ASSUME ResolverType, Fresh, NEW w \in Worker, WorkerCall(w) PROVE Fresh'
<1> USE DEF Fresh, NothingOlderThanCleared
<1>1. ASSUME NEW r \in Ref, Enter(w, r) PROVE Fresh'
  BY <1>1 DEF Enter, ResolverType
<1>2. CASE CheckCache(w)
  <2>1. \A v \in Worker : call'[v].step = "write" => call'[v] = call[v]
    BY <1>2 DEF CheckCache, ResolverType, CallRecord
  <2> QED
    BY <1>2, <2>1 DEF CheckCache
<1>3. ASSUME NEW d \in BOOLEAN, Fetch(w, d) PROVE Fresh'
  <2>1. call[w].ref \in Ref /\ cleared[call[w].ref] <= remote[call[w].ref]
    BY <1>3 DEF Fetch, ResolverType
  <2>2. PICK new : /\ call' = [call EXCEPT ![w] = new]
                   /\ \/ new = [call[w] EXCEPT !.step = "write", !.val = remote[call[w].ref]]
                      \/ new = [call[w] EXCEPT !.step = "leave", !.err = "store"]
                      \/ new = [call[w] EXCEPT !.step = "leave", !.err = "canceled"]
    BY <1>3 DEF Fetch, ResolverType
  <2>3. call[w] \in CallRecord /\ remote[call[w].ref] \in Nat /\ cleared[call[w].ref] \in Nat
    BY <2>1 DEF ResolverType
  <2>4. new.step = "write" => new.ref = call[w].ref /\ new.val >= cleared[new.ref]
    BY <2>1, <2>2, <2>3 DEF CallRecord
  <2>5. \A v \in Worker : call'[v] = IF v = w THEN new ELSE call[v]
    BY <2>2 DEF ResolverType
  <2> QED
    BY <1>3, <2>4, <2>5 DEF Fetch
<1>4. CASE CacheWrite(w)
  <2>1. /\ call[w].ref \in Ref /\ call[w].val >= cleared[call[w].ref]
        /\ \A v \in Worker : call'[v].step = "write" => call'[v] = call[v]
    BY <1>4 DEF CacheWrite, ResolverType, CallRecord
  <2>2. \A r \in Ref : cache'[r] = cache[r] \/ cache'[r].val >= cleared[r]
    BY <1>4, <2>1 DEF CacheWrite, ResolverType
  <2> QED
    BY <1>4, <2>1, <2>2 DEF CacheWrite
<1>5. CASE Leave(w)
  BY <1>5 DEF Leave, ResolverType, CallRecord
<1>6. CASE Returned(w)
  BY <1>6 DEF Returned, ResolverType, NoCall
<1> QED
  BY <1>1, <1>2, <1>3, <1>4, <1>5, <1>6 DEF WorkerCall, ResolverCall

\* A cached value is never older than the last ClearCache allows: a rotation only
\* makes the service newer, and a call writes what it was allowed to hold.
LEMMA FreshStep ==
  ResolverType /\ Fresh /\ [ResolverNext]_resolver => Fresh'
<1> SUFFICES ASSUME ResolverType, Fresh, [ResolverNext]_resolver PROVE Fresh'
  OBVIOUS
<1> USE DEF Fresh, NothingOlderThanCleared
<1>1. ASSUME NEW r \in Ref, Rotate(r) PROVE Fresh'
  BY <1>1 DEF Rotate, ResolverType
<1>2. ASSUME NEW r \in Ref, Expire(r) PROVE Fresh'
  <2>1. \A q \in Ref : cache'[q] # NoEntry => cache[q] # NoEntry /\ cache'[q].val = cache[q].val
    BY <1>2 DEF Expire, Hit, ResolverType
  <2> QED
    BY <1>2, <2>1 DEF Expire
<1>3. CASE Cleared
  BY <1>3 DEF Cleared, ClearCache, EmptyCache, ClearedValues, Held, ResolverType
<1>4. ASSUME NEW c \in Closer, ResolverClose(c) PROVE Fresh'
  BY <1>4 DEF ResolverClose, CloseBegin, CloseCancel, CloseWait, CloseDrop, CloseStore,
              CloseJoin, EmptyCache
<1>5. CASE UNCHANGED resolver
  BY <1>5 DEF resolver
<1> QED
  BY <1>1, <1>2, <1>3, <1>4, <1>5, FreshCall DEF ResolverNext

-----------------------------------------------------------------------------
(* Close quiesces the resolver *)

\* Close has not begun.
LEMMA CloseOrderInit == ResolverInit => CloseOrder
BY ResolverConstants DEF ResolverInit, CloseOrder, NoCall, ActiveSteps, MidClose

\* Calls become active only before Close began, and leave the cache alone afterwards.
LEMMA CloseOrderCall ==
  ASSUME ResolverType, CloseOrder, NEW w \in Worker, WorkerCall(w) PROVE CloseOrder'
<1>1. UNCHANGED <<closing, storeOpen, closer, once>>
  BY DEF WorkerCall, ResolverCall, Enter, CheckCache, Fetch, CacheWrite, Leave, Returned
<1>2. \A v \in Worker \ {w} : call'[v] = call[v]
  BY DEF WorkerCall, ResolverCall, Enter, CheckCache, Fetch, CacheWrite, Leave, Returned,
         ResolverType
<1>3. call'[w].step \in ActiveSteps => \/ call[w].step \in ActiveSteps /\ inFlight' = inFlight
                                       \/ ~closing /\ inFlight' = inFlight \cup {w}
  BY DEF WorkerCall, ResolverCall, Enter, CheckCache, Fetch, CacheWrite, Leave, Returned,
         ResolverType, ActiveSteps, CallRecord, NoCall
<1>4. cache' # cache => call[w].step \in ActiveSteps
  BY DEF WorkerCall, ResolverCall, Enter, CheckCache, Fetch, CacheWrite, Leave, Returned,
         ActiveSteps
<1>5. Quiesced => Quiesced' /\ cache' = cache
  BY <1>1, <1>2, <1>3, <1>4 DEF Quiesced
<1>6. \A v \in Worker : call'[v].step \in ActiveSteps <=> v \in inFlight'
  <2>1. inFlight' \ {w} = inFlight \ {w}
    BY DEF WorkerCall, ResolverCall, Enter, CheckCache, Fetch, CacheWrite, Leave, Returned
  <2>2. call'[w].step \in ActiveSteps <=> w \in inFlight'
    <3>1. ASSUME NEW r \in Ref, Enter(w, r)
          PROVE  call'[w].step \in ActiveSteps <=> w \in inFlight'
      BY <3>1 DEF Enter, CloseOrder, ActiveSteps, ResolverType
    <3>2. CASE CheckCache(w) \/ CacheWrite(w) \/ \E d \in BOOLEAN : Fetch(w, d)
      BY <3>2 DEF CheckCache, CacheWrite, Fetch, CloseOrder, ActiveSteps, ResolverType, CallRecord
    <3>3. CASE Leave(w)
      BY <3>3 DEF Leave, ActiveSteps, ResolverType, CallRecord
    <3>4. CASE Returned(w)
      BY <3>4 DEF Returned, NoCall, CloseOrder, ActiveSteps, ResolverType
    <3> QED
      BY <3>1, <3>2, <3>3, <3>4 DEF WorkerCall, ResolverCall
  <2> QED
    BY <1>2, <2>1, <2>2 DEF CloseOrder
<1>7. EmptyCache' = EmptyCache
  BY DEF EmptyCache
<1> QED
  BY <1>1, <1>5, <1>6, <1>7 DEF CloseOrder, MidClose

\* Close drops the cache and the store only when every call has left.
LEMMA CloseOrderStep ==
  ResolverType /\ CloseOrder /\ [ResolverNext]_resolver => CloseOrder'
<1> SUFFICES ASSUME ResolverType, CloseOrder, [ResolverNext]_resolver PROVE CloseOrder'
  OBVIOUS
<1>1. ASSUME NEW r \in Ref, Rotate(r) PROVE CloseOrder'
  BY <1>1 DEF Rotate, CloseOrder, Quiesced, EmptyCache
<1>2. ASSUME NEW r \in Ref, Expire(r) PROVE CloseOrder'
  <2>1. cache # EmptyCache
    BY <1>2 DEF Expire, Hit, EmptyCache
  <2> QED
    BY <1>2, <2>1 DEF Expire, CloseOrder, Quiesced, EmptyCache
<1>3. CASE Cleared
  BY <1>3 DEF Cleared, ClearCache, CloseOrder, Quiesced, EmptyCache
<1>4. ASSUME NEW c \in Closer, ResolverClose(c) PROVE CloseOrder'
  <2> USE DEF CloseOrder, Quiesced, MidClose, ResolverType
  <2>1. CASE CloseBegin(c)
    BY <2>1, ResolverConstants DEF CloseBegin, EmptyCache
  <2>2. CASE CloseCancel(c)
    BY <2>2 DEF CloseCancel, EmptyCache
  <2>3. CASE CloseWait(c)
    BY <2>3, ResolverConstants DEF CloseWait, EmptyCache
  <2>4. CASE CloseDrop(c)
    BY <2>4 DEF CloseDrop, EmptyCache
  <2>5. CASE CloseStore(c)
    BY <2>5, ResolverConstants DEF CloseStore, EmptyCache
  <2>6. CASE CloseJoin(c)
    BY <2>6 DEF CloseJoin, EmptyCache
  <2> QED
    BY <1>4, <2>1, <2>2, <2>3, <2>4, <2>5, <2>6 DEF ResolverClose
<1>5. CASE UNCHANGED resolver
  BY <1>5 DEF resolver, CloseOrder, Quiesced, EmptyCache
<1> QED
  BY <1>1, <1>2, <1>3, <1>4, <1>5, CloseOrderCall DEF ResolverNext

\* The values of call steps are the ones the type allows.
LEMMA ClosedFollows ==
  ResolverType /\ CloseOrder => ClosedHoldsNothing
BY DEF ResolverType, CloseOrder, Quiesced, ClosedHoldsNothing, CallRecord, ActiveSteps

-----------------------------------------------------------------------------
(* Types of the session *)

\* Nothing queued and nothing resolved are typed.
LEMMA EmptyTyped == <<>> \in Values /\ \A S : <<>> \in Seq(S)
<1>1. <<>> = [l \in {} |-> {}]
  OBVIOUS
<1> QED
  BY <1>1 DEF Values

\* The leaves of an operation are leaves.
LEMMA LeavesTyped ==
  ASSUME NEW o \in Op
  PROVE  Leaves(o) \subseteq Leaf /\ LeafOrder[o] \in Seq(Leaves(o))
<1>1. LeafOrder[o] \in Seq(Leaf)
  BY SessionConstants
<1> QED
  BY <1>1 DEF Leaves

\* The records of a worker that does nothing.
LEMMA IdleTyped ==
  /\ IdleWork \in WorkRecord /\ Exited \in WorkRecord
  /\ IdleWork.step = "loop" /\ Exited.step = "exited"
  /\ IdleOp \in OpRecord
BY EmptyTyped DEF IdleWork, Exited, IdleOp, WorkRecord, OpRecord, Errors, NoStore, BusySteps

\* A worker that does nothing has nothing in hand.
LEMMA IdleShape ==
  ASSUME NEW w PROVE Shape(w, IdleWork) /\ Shape(w, Exited)
BY IdleTyped DEF Shape, BusySteps

\* The session starts typed.
LEMMA SessionTypeInit == Init => WorkType /\ OpType
<1> SUFFICES ASSUME Init PROVE WorkType /\ OpType
  OBVIOUS
<1>1. backend \in {"router", "resolver"} /\ pool \subseteq Worker
  BY SessionConstants DEF Init
<1>2. WorkType
  BY <1>1, IdleTyped, IdleShape DEF Init, WorkType
<1>3. Absent \in Entry
  BY DEF Absent, Entry, Secret, Errors
<1>4. OpType
  BY <1>3, IdleTyped DEF Init, OpType, IdleOp, OpShape
<1> QED
  BY <1>2, <1>4

\* The two ways a read ends: a value is added to the leaf, or the leaf fails.
LEMMA GotTyped ==
  ASSUME WorkType, NEW w \in Worker, NEW v \in Secret,
         work[w].step \in BusySteps \ {"next"}
  PROVE  /\ Got(w, v) \in WorkRecord /\ Shape(w, Got(w, v))
         /\ Got(w, v) = [work[w] EXCEPT !.step = "next", !.rest = Tail(work[w].rest),
                           !.got = Append(work[w].got, v), !.store = NoStore]
<1>1. work[w] \in WorkRecord /\ Shape(w, work[w])
  BY DEF WorkType
<1>2. work[w].rest \in Seq(Ref) /\ work[w].rest # <<>> /\ work[w].got \in Seq(Secret)
  BY <1>1 DEF WorkRecord, Shape
<1>3. Tail(work[w].rest) \in Seq(Ref) /\ Append(work[w].got, v) \in Seq(Secret)
  BY <1>2, HeadInSet
<1>4. Got(w, v) = [work[w] EXCEPT !.step = "next", !.rest = Tail(work[w].rest),
                           !.got = Append(work[w].got, v), !.store = NoStore]
  BY <1>1 DEF Got, WorkRecord
<1>5. Got(w, v) \in WorkRecord
  <2> DEFINE t == Tail(work[w].rest)  a == Append(work[w].got, v)
  <2>1. t \in Seq(Ref) /\ a \in Seq(Secret)
    BY <1>3
  <2>2. Got(w, v) = [work[w] EXCEPT !.step = "next", !.rest = t, !.got = a, !.store = NoStore]
    BY <1>4
  <2> DEFINE Steps == BusySteps \cup {"loop", "failed", "exited"}
             R == Seq(Ref)
             G == Seq(Secret)
  <2>3. WorkRecord = [step : Steps, leaf : Leaf \cup {NoLeaf}, rest : R, got : G, err : Errors,
                      store : Nat]
    BY DEF WorkRecord
  <2>4. "next" \in Steps /\ NoStore \in Nat /\ t \in R /\ a \in G
    BY <2>1 DEF BusySteps, NoStore
  <2> HIDE DEF t, a, Steps, R, G
  <2> QED
    BY <1>1, <2>2, <2>3, <2>4
<1>6. Got(w, v).step = "next" /\ Got(w, v).leaf = work[w].leaf
  BY <1>1, <1>4 DEF WorkRecord
<1>7. Shape(w, Got(w, v))
  BY <1>1, <1>6 DEF Shape, BusySteps
<1> QED
  BY <1>4, <1>5, <1>7

\* A failed leaf is typed.
LEMMA FailedTyped ==
  ASSUME NEW w, NEW e \in Errors
  PROVE  /\ Failed(w, e) \in WorkRecord /\ Shape(w, Failed(w, e))
         /\ Failed(w, e).step = "failed" /\ Failed(w, e).err = e
BY IdleTyped DEF Failed, IdleWork, WorkRecord, Shape, BusySteps

\* An answer, value or error, leaves a typed record.
LEMMA GotOrFailedTyped ==
  ASSUME WorkType, NEW w \in Worker, NEW e, e.val \in Secret, e.err \in Errors,
         work[w].step \in BusySteps \ {"next"}
  PROVE  GotOrFailed(w, e) \in WorkRecord /\ Shape(w, GotOrFailed(w, e))
BY GotTyped, FailedTyped DEF GotOrFailed

\* The owner's answer leaves a typed session and a typed record.
LEMMA SettleTyped ==
  ASSUME WorkType, OpType, NEW w \in Worker, NEW v \in Secret, NEW e \in Errors,
         work[w].step \in OwnerSteps, Settle(w, v, e)
  PROVE  /\ session' \in [Op -> [Ref -> Entry]]
         /\ \E new \in WorkRecord : Shape(w, new) /\ work' = [work EXCEPT ![w] = new]
<1>1. work[w].step \in BusySteps \ {"next"}
  BY DEF OwnerSteps, BusySteps
<1>2. Ref1(w) \in Ref /\ OpOf[w] \in Op
  BY <1>1, ReferenceKnown, SessionConstants DEF WorkType, Shape
<1> DEFINE entry == [state |-> "done", val |-> v, err |-> e]
<1>3. entry \in Entry /\ entry.val = v /\ entry.err = e
  BY DEF Entry
<1>4. session' = [session EXCEPT ![OpOf[w]][Ref1(w)] = entry]
      /\ work' = [work EXCEPT ![w] = GotOrFailed(w, entry)]
  BY DEF Settle
<1> HIDE DEF entry
<1>5. session' \in [Op -> [Ref -> Entry]]
  BY <1>2, <1>3, <1>4 DEF OpType
<1> QED
  BY <1>1, <1>3, <1>4, <1>5, GotOrFailedTyped

\* A step of a worker changes its own record only.
LEMMA WorkerMoves ==
  ASSUME ResolverType, WorkType, OpType, NEW w \in Worker, Step(w)
  PROVE  /\ \E new \in WorkRecord : Shape(w, new) /\ work' = [work EXCEPT ![w] = new]
         /\ session' \in [Op -> [Ref -> Entry]]
<1>0. /\ work[w] \in WorkRecord /\ Shape(w, work[w]) /\ OpOf[w] \in Op
      /\ work \in [Worker -> WorkRecord] /\ session \in [Op -> [Ref -> Entry]]
  BY SessionConstants DEF WorkType, OpType
\* A worker that stays on its leaf, at another step.
<1>a. ASSUME NEW step \in BusySteps, work[w].step \in BusySteps, work[w].rest # <<>>
      PROVE  /\ [work[w] EXCEPT !.step = step] \in WorkRecord
             /\ Shape(w, [work[w] EXCEPT !.step = step])
             /\ [work EXCEPT ![w].step = step]
                  = [work EXCEPT ![w] = [work[w] EXCEPT !.step = step]]
  <2>1. [work[w] EXCEPT !.step = step] \in WorkRecord
    BY <1>0 DEF WorkRecord
  <2>2. Shape(w, [work[w] EXCEPT !.step = step])
    BY <1>0, <1>a DEF WorkRecord, Shape
  <2>3. [work EXCEPT ![w].step = step] = [work EXCEPT ![w] = [work[w] EXCEPT !.step = step]]
    BY <1>0
  <2> QED
    BY <2>1, <2>2, <2>3
<1>b. work[w].step \in BusySteps \ {"next"} => work[w].rest # <<>>
  BY <1>0 DEF Shape
<1>1. CASE TakeLeaf(w)
  <2>1. CASE work' = [work EXCEPT ![w] = Exited]
    BY <1>1, <2>1, <1>0, IdleTyped, IdleShape DEF TakeLeaf
  <2>2. CASE ~(Done(OpOf[w]) \/ op[OpOf[w]].queue = <<>>)
    <3> DEFINE l == Head(op[OpOf[w]].queue)
               new == [IdleWork EXCEPT !.step = "next", !.leaf = l, !.rest = RefsOf[l]]
    <3>1. op[OpOf[w]].queue \in Seq(Leaves(OpOf[w]))
      BY <1>0, <1>1 DEF TakeLeaf, OpType, OpShape
    <3>2. l \in Leaves(OpOf[w]) /\ l \in Leaf
      BY <3>1, <2>2, <1>0, HeadInSet, LeavesTyped
    <3>3. RefsOf[l] \in Seq(Ref)
      BY <3>2, SessionConstants
    <3>4. work' = [work EXCEPT ![w] = new]
      BY <1>1, <2>2 DEF TakeLeaf
    <3> HIDE DEF l
    <3>5. new \in WorkRecord /\ Shape(w, new)
      BY <3>2, <3>3, IdleTyped DEF WorkRecord, Shape, BusySteps
    <3> HIDE DEF new
    <3> QED
      BY <3>4, <3>5, <1>1, <1>0 DEF TakeLeaf
  <2> QED
    BY <1>1, <2>1, <2>2 DEF TakeLeaf
<1>2. CASE StoreLeaf(w) \/ LeafFailed(w)
  BY <1>2, <1>0, IdleTyped, IdleShape DEF StoreLeaf, LeafFailed
<1>3. CASE CallResolver(w)
  BY <1>3, <1>0, <1>a DEF CallResolver, BusySteps
<1>4. CASE RunResolver(w)
  <2>1. work' = [work EXCEPT ![w] = work[w]]
    BY <1>4, <1>0 DEF RunResolver
  <2> QED
    BY <1>4, <2>1, <1>0 DEF RunResolver
<1>5. CASE ResolverReturned(w)
  <2>1. call[w].val \in Secret /\ call[w].err \in Errors
    BY DEF ResolverType, CallRecord
  <2> QED
    BY <1>5, <2>1, <1>0, GotOrFailedTyped DEF ResolverReturned, BusySteps
<1>6. CASE Lookup(w)
  <2>1. Ref1(w) \in Ref
    BY <1>6, ReferenceKnown DEF Lookup
  <2>2. session' \in [Op -> [Ref -> Entry]]
    <3> DEFINE e == [session[OpOf[w]][Ref1(w)] EXCEPT !.state = "pending"]
    <3>0. session[OpOf[w]][Ref1(w)] \in Entry
      BY <1>0, <2>1
    <3>1. e \in Entry
      BY <3>0 DEF Entry
    <3>2. session' \in {session, [session EXCEPT ![OpOf[w]][Ref1(w)] = e]}
      <4>1. CASE UNCHANGED session
        BY <4>1
      <4>2. CASE session' = [session EXCEPT ![OpOf[w]][Ref1(w)].state = "pending"]
        BY <1>0, <2>1, <4>2
      <4> QED
        BY <1>6, <4>1, <4>2 DEF Lookup
    <3> HIDE DEF e
    <3> QED
      BY <1>0, <2>1, <3>1, <3>2
  <2>3. \E step \in BusySteps : work' = [work EXCEPT ![w].step = step]
    BY <1>6 DEF Lookup, BusySteps
  <2> QED
    BY <1>6, <1>0, <1>a, <2>2, <2>3 DEF Lookup, BusySteps
<1>7. CASE Await(w)
  <2>1. Ref1(w) \in Ref
    BY <1>7, <1>b, ReferenceKnown DEF Await, BusySteps
  <2>2. session[OpOf[w]][Ref1(w)].val \in Secret /\ session[OpOf[w]][Ref1(w)].err \in Errors
    BY <1>0, <2>1 DEF Entry
  <2> QED
    BY <1>7, <1>0, <2>2, GotOrFailedTyped, FailedTyped DEF Await, BusySteps, Errors
<1>8. CASE LockSpec(w)
  <2>1. \E step \in BusySteps : work' = [work EXCEPT ![w].step = step]
    BY <1>8 DEF LockSpec, BusySteps
  <2> QED
    BY <1>8, <1>0, <1>a, <1>b, <2>1 DEF LockSpec, BusySteps
<1>9. CASE Create(w)
  <2>1. CASE Settle(w, 0, "store")
    BY <1>9, <2>1, SettleTyped DEF Create, OwnerSteps, Secret, Errors
  <2>2. CASE work' = [work EXCEPT ![w].step = "collect", ![w].store = Len(stores) + 1]
             /\ UNCHANGED session
    <3> DEFINE n == Len(stores) + 1
               new == [work[w] EXCEPT !.step = "collect", !.store = n]
    <3>0. n \in Nat
      BY DEF OpType
    <3> HIDE DEF n
    <3>1. work' = [work EXCEPT ![w] = new]
      BY <2>2, <1>0 DEF n
    <3>2. new \in WorkRecord
      BY <1>0, <3>0 DEF WorkRecord, BusySteps
    <3>3. Shape(w, new)
      BY <1>0, <1>9 DEF Create, Shape, BusySteps, WorkRecord
    <3> QED
      BY <1>0, <2>2, <3>1, <3>2, <3>3
  <2> QED
    BY <1>9, <2>1, <2>2 DEF Create
<1>10. CASE Collect(w)
  <2>1. CASE Settle(w, 0, "closed")
    BY <1>10, <2>1, SettleTyped DEF Collect, OwnerSteps, Secret, Errors
  <2>2. CASE work' = [work EXCEPT ![w].step = "read"] /\ UNCHANGED session
    BY <1>10, <2>2, <1>0, <1>a, <1>b DEF Collect, BusySteps
  <2> QED
    BY <1>10, <2>1, <2>2 DEF Collect
<1>11. CASE ReadStore(w)
  <2>1. remote[Ref1(w)] \in Secret
    BY <1>11, <1>b, ReferenceKnown DEF ReadStore, BusySteps, ResolverType, Secret
  <2> QED
    BY <1>11, <2>1, SettleTyped DEF ReadStore, OwnerSteps, Secret, Errors
<1> QED
  BY <1>1, <1>2, <1>3, <1>4, <1>5, <1>6, <1>7, <1>8, <1>9, <1>10, <1>11 DEF Step

\* The cause of an operation is an error.
LEMMA CauseTyped ==
  ASSUME OpType, NEW o \in Op, NEW e \in Errors PROVE Cause(o, e) \in Errors
<1>1. op[o].cause \in Errors
  BY DEF OpType, OpRecord
<1> QED
  BY <1>1 DEF Cause, FirstCause

\* What a step of a worker does to its operation.
LEMMA WorkerOp ==
  ASSUME WorkType, OpType, NEW w \in Worker, Step(w)
  PROVE  op' \in [Op -> OpRecord] /\ \A o \in Op : OpShape(o, op'[o])
<1> DEFINE o == OpOf[w]
           Queues == Seq(Leaf)
           Stats == {"idle", "run", "failed", "refused", "published"}
<1>0. /\ o \in Op /\ op[o] \in OpRecord /\ OpShape(o, op[o]) /\ work[w] \in WorkRecord
      /\ op \in [Op -> OpRecord] /\ \A p \in Op : OpShape(p, op[p])
  BY SessionConstants DEF WorkType, OpType
<1>r. OpRecord = [status : Stats, queue : Queues, values : Values, cause : Errors,
                  userCanceled : BOOLEAN]
  BY DEF OpRecord
\* The record of one operation is replaced.
<1>m. ASSUME NEW r \in OpRecord, OpShape(o, r), op' = [op EXCEPT ![o] = r]
      PROVE  op' \in [Op -> OpRecord] /\ \A p \in Op : OpShape(p, op'[p])
  BY <1>0, <1>m
<1> HIDE DEF o, Queues, Stats
<1>1. CASE TakeLeaf(w)
  <2>1. CASE UNCHANGED op
    BY <1>0, <2>1
  <2>2. CASE op[o].status = "run" /\ op[o].queue # <<>> /\ op' = [op EXCEPT ![o].queue = Tail(@)]
    <3> DEFINE q == Tail(op[o].queue)
               r == [op[o] EXCEPT !.queue = q]
    <3>1. op[o].queue \in Seq(Leaves(o)) /\ Leaves(o) \subseteq Leaf
      BY <1>0, <2>2, LeavesTyped DEF OpShape
    <3>2. q \in Seq(Leaves(o))
      BY <2>2, <3>1, HeadInSet
    <3>3. q \in Queues
      BY <3>1, <3>2 DEF Queues
    <3>4. op' = [op EXCEPT ![o] = r]
      BY <2>2, <1>0
    <3> HIDE DEF q
    <3>5. r \in OpRecord /\ r.queue = q /\ r.values = op[o].values /\ r.status = op[o].status
      BY <1>0, <1>r, <3>3
    <3>6. OpShape(o, r)
      BY <1>0, <3>2, <3>5 DEF OpShape
    <3> HIDE DEF r
    <3> QED
      BY <1>m, <3>4, <3>5, <3>6
  <2> QED
    BY <1>1, <2>1, <2>2 DEF TakeLeaf, o
<1>2. CASE StoreLeaf(w)
  <2> DEFINE v == [op[o].values EXCEPT ![work[w].leaf] = work[w].got]
             r == [op[o] EXCEPT !.values = v]
  <2>1. op[o].values \in Values /\ work[w].got \in Seq(Secret)
    BY <1>0 DEF OpRecord, WorkRecord
  <2>2. v \in Values /\ DOMAIN v = DOMAIN op[o].values
    BY <2>1 DEF Values
  <2>3. op' = [op EXCEPT ![o] = r]
    <3>1. op' = [op EXCEPT ![o].values[work[w].leaf] = work[w].got]
      BY <1>2 DEF StoreLeaf, o
    <3>2. op[o].values = op[o].values /\ "values" \in DOMAIN op[o]
      BY <1>0 DEF OpRecord
    <3> QED
      BY <1>0, <3>1, <3>2
  <2> HIDE DEF v
  <2>4. r \in OpRecord /\ r.values = v /\ r.queue = op[o].queue /\ r.status = op[o].status
    BY <1>0, <1>r, <2>2
  <2>5. OpShape(o, r)
    BY <1>0, <2>2, <2>4 DEF OpShape
  <2> HIDE DEF r
  <2> QED
    BY <1>m, <2>3, <2>4, <2>5
<1>3. CASE LeafFailed(w)
  <2> DEFINE c == Cause(o, work[w].err)
             r == [op[o] EXCEPT !.cause = c]
  <2>1. c \in Errors
    BY <1>0, CauseTyped DEF WorkRecord
  <2>2. op' = [op EXCEPT ![o] = r]
    BY <1>3, <1>0 DEF LeafFailed, o
  <2> HIDE DEF c
  <2>3. r \in OpRecord /\ r.values = op[o].values /\ r.queue = op[o].queue
        /\ r.status = op[o].status
    BY <1>0, <1>r, <2>1
  <2>4. OpShape(o, r)
    BY <1>0, <2>3 DEF OpShape
  <2> HIDE DEF r
  <2> QED
    BY <1>m, <2>2, <2>3, <2>4
<1>4. CASE ~TakeLeaf(w) /\ ~StoreLeaf(w) /\ ~LeafFailed(w)
  <2>1. UNCHANGED op
    BY <1>4 DEF Step, CallResolver, RunResolver, ResolverReturned, Lookup, Await, LockSpec,
                Create, Collect, ReadStore
  <2> QED
    BY <1>0, <2>1
<1> QED
  BY <1>1, <1>2, <1>3, <1>4

Replaced(q, i, x) == [q EXCEPT ![i] = x]

\* A sequence with one element replaced.
LEMMA ReplacedTyped ==
  ASSUME NEW S, NEW q \in Seq(S), NEW i, NEW x \in S
  PROVE  /\ Replaced(q, i, x) \in Seq(S)
         /\ DOMAIN Replaced(q, i, x) = DOMAIN q
         /\ \A j \in DOMAIN q : Replaced(q, i, x)[j] = IF j = i THEN x ELSE q[j]
<1>1. Replaced(q, i, x) = [j \in 1 .. Len(q) |-> IF j = i THEN x ELSE q[j]]
  BY LenProperties DEF Replaced
<1>2. \A j \in 1 .. Len(q) : (IF j = i THEN x ELSE q[j]) \in S
  OBVIOUS
<1>3. [j \in 1 .. Len(q) |-> IF j = i THEN x ELSE q[j]] \in Seq(S)
  BY <1>2, IsASeq
<1> QED
  BY <1>1, <1>3

\* A store is open, closed, or closed twice.
LEMMA StoresTyped ==
  OpType /\ [Next]_vars => stores' \in Seq({"open", "closed", "twice"})
<1> SUFFICES ASSUME OpType, [Next]_vars PROVE stores' \in Seq({"open", "closed", "twice"})
  OBVIOUS
<1> DEFINE S == {"open", "closed", "twice"}
<1>1. stores \in Seq(S) /\ "open" \in S /\ "closed" \in S /\ "twice" \in S
  BY DEF OpType
<1> HIDE DEF S
<1> SUFFICES stores' \in Seq(S)
  BY DEF S
<1>2. ASSUME NEW w \in Worker, Step(w) PROVE stores' \in Seq(S)
  <2>1. CASE Create(w)
    BY <1>1, <2>1, AppendProperties DEF Create
  <2>2. CASE Collect(w)
    <3>1. stores' \in {stores, Replaced(stores, work[w].store, "closed")}
      BY <2>2 DEF Collect, Replaced
    <3> QED
      BY <1>1, <3>1, ReplacedTyped
  <2>3. CASE ~Create(w) /\ ~Collect(w)
    BY <1>1, <1>2, <2>3 DEF Step, TakeLeaf, StoreLeaf, LeafFailed, CallResolver, RunResolver,
       ResolverReturned, Lookup, Await, LockSpec, ReadStore
  <2> QED
    BY <2>1, <2>2, <2>3
<1>3. CASE CloseResource
  <2>1. PICK s : stores' = Replaced(stores, s, IF stores[s] = "open" THEN "closed" ELSE "twice")
    BY <1>3 DEF CloseResource, Replaced
  <2>2. (IF stores[s] = "open" THEN "closed" ELSE "twice") \in S
    BY <1>1
  <2> QED
    BY <1>1, <2>1, <2>2, ReplacedTyped
<1>4. CASE UNCHANGED stores
  BY <1>1, <1>4
<1> QED
  BY <1>2, <1>3, <1>4 DEF Next, Start, Finish, CloseConfig, CloseStep, CloseCollect,
     CloseReturns, CloseResolver, Environment, Cancel, mine, vars

\* Every step keeps the session typed.
LEMMA SessionTypeStep ==
  ResolverType /\ WorkType /\ OpType /\ [Next]_vars => WorkType' /\ OpType'
<1> SUFFICES ASSUME ResolverType, WorkType, OpType, [Next]_vars PROVE WorkType' /\ OpType'
  OBVIOUS
<1>s. stores' \in Seq({"open", "closed", "twice"})
  BY StoresTyped
<1>1. ASSUME NEW o \in Op, NEW refresh \in BOOLEAN, Start(o, refresh) PROVE WorkType' /\ OpType'
  <2>1. WorkType'
    BY <1>1, IdleTyped, IdleShape DEF Start, WorkType, Shape, Leaves
  <2> DEFINE r == [op[o] EXCEPT !.status = "run", !.queue = LeafOrder[o],
                                !.values = [l \in Leaves(o) |-> <<>>]]
  <2>2. op' = [op EXCEPT ![o] = r]
    BY <1>1 DEF Start, OpType
  <2>3. [l \in Leaves(o) |-> <<>>] \in Values
    BY EmptyTyped, LeavesTyped DEF Values
  <2>4. op[o] \in OpRecord /\ LeafOrder[o] \in Seq(Leaf)
    BY SessionConstants DEF OpType
  <2>5. r \in OpRecord /\ r.values = [l \in Leaves(o) |-> <<>>] /\ r.queue = LeafOrder[o]
    <3> DEFINE Queues == Seq(Leaf)
               v == [l \in Leaves(o) |-> <<>>]
               q == LeafOrder[o]
               Stats == {"idle", "run", "failed", "refused", "published"}
    <3>1. OpRecord = [status : Stats, queue : Queues, values : Values, cause : Errors,
                  userCanceled : BOOLEAN]
      BY DEF OpRecord
    <3>2. v \in Values /\ q \in Queues /\ "run" \in Stats
      BY <2>3, <2>4
    <3> HIDE DEF Queues, Stats, v, q
    <3>3. [op[o] EXCEPT !.status = "run", !.queue = q, !.values = v] \in OpRecord
      BY <2>4, <3>1, <3>2
    <3>4. /\ [op[o] EXCEPT !.status = "run", !.queue = q, !.values = v].values = v
          /\ [op[o] EXCEPT !.status = "run", !.queue = q, !.values = v].queue = q
      BY <2>4, <3>1
    <3> QED
      BY <3>3, <3>4 DEF v, q
  <2>6. OpShape(o, r)
    BY <2>5, LeavesTyped DEF OpShape
  <2>7. r \in OpRecord
    BY <2>5
  <2> HIDE DEF r
  <2>8. op' \in [Op -> OpRecord] /\ \A p \in Op : OpShape(p, op'[p])
    BY <2>2, <2>6, <2>7 DEF OpType
  <2>9. OpType'
    BY <1>1, <1>s, <2>8 DEF Start, OpType, OpShape, Leaves
  <2> QED
    BY <2>1, <2>9
<1>2. ASSUME NEW w \in Worker, Step(w) PROVE WorkType' /\ OpType'
  <2>1. UNCHANGED <<backend, pool>>
    BY <1>2 DEF Step, TakeLeaf, StoreLeaf, LeafFailed, CallResolver, RunResolver,
       ResolverReturned, Lookup, Await, LockSpec, Create, Collect, ReadStore
  <2>2. PICK new \in WorkRecord : Shape(w, new) /\ work' = [work EXCEPT ![w] = new]
    BY <1>2, WorkerMoves
  <2>3. WorkType'
    BY <2>1, <2>2 DEF WorkType, Shape, Leaves
  <2>4. OpType'
    BY <1>2, <1>s, WorkerOp, WorkerMoves DEF OpType, OpShape, Leaves
  <2> QED
    BY <2>3, <2>4
<1>3. ASSUME NEW o \in Op, Finish(o) PROVE WorkType' /\ OpType'
  <2>1. Outcome(o) \in {"failed", "refused", "published"}
    BY DEF Outcome
  <2>2. [IdleOp EXCEPT !.status = Outcome(o)] \in OpRecord
    BY <2>1, EmptyTyped DEF IdleOp, OpRecord, Errors
  <2>3. OpShape(o, [IdleOp EXCEPT !.status = Outcome(o)])
    BY <2>1 DEF IdleOp, OpShape
  <2>4. op' \in [Op -> OpRecord] /\ \A p \in Op : OpShape(p, op'[p])
    BY <1>3, <2>2, <2>3 DEF Finish, OpType
  <2>5. Absent \in Entry
    BY DEF Absent, Entry, Secret, Errors
  <2>6. session' \in [Op -> [Ref -> Entry]]
    BY <1>3, <2>5 DEF Finish, OpType
  <2> QED
    BY <1>3, <1>s, <2>4, <2>6 DEF Finish, WorkType, OpType, OpShape, Shape, Leaves
<1>4. ASSUME NEW o \in Op, Cancel(o) PROVE WorkType' /\ OpType'
  <2> DEFINE c == Cause(o, "canceled")
             r == [op[o] EXCEPT !.userCanceled = TRUE, !.cause = c]
  <2>1. c \in Errors /\ op[o] \in OpRecord /\ OpShape(o, op[o])
    BY CauseTyped DEF Errors, OpType
  <2>2. op' = [op EXCEPT ![o] = r]
    BY <1>4 DEF Cancel, OpType
  <2> HIDE DEF c
  <2>3. r \in OpRecord /\ r.values = op[o].values /\ r.queue = op[o].queue
        /\ r.status = op[o].status
    <3> DEFINE Queues == Seq(Leaf)
               Stats == {"idle", "run", "failed", "refused", "published"}
    <3>1. OpRecord = [status : Stats, queue : Queues, values : Values, cause : Errors,
                  userCanceled : BOOLEAN]
      BY DEF OpRecord
    <3> HIDE DEF Queues, Stats
    <3> QED
      BY <2>1, <3>1
  <2>4. OpShape(o, r)
    BY <2>1, <2>3 DEF OpShape
  <2> HIDE DEF r
  <2> QED
    BY <1>4, <1>s, <2>2, <2>3, <2>4 DEF Cancel, WorkType, OpType, OpShape, Shape, Leaves
<1>5. CASE UNCHANGED <<backend, pool, op, session, work>>
  BY <1>5, <1>s DEF WorkType, OpType, OpShape, Shape, Leaves
<1>6. CASE Environment
  BY <1>4, <1>5, <1>6, SessionConstants DEF Environment, mine
<1> QED
  BY <1>1, <1>2, <1>3, <1>5, <1>6 DEF Next, CloseConfig, CloseStep, CloseCollect, CloseResource,
     CloseReturns, CloseResolver, mine, vars

-----------------------------------------------------------------------------
(* Who works for which operation *)

Types == ResolverType /\ WorkType /\ OpType

\* A worker that reads ends with a value or with a failure.
LEMMA AfterRead ==
  ASSUME WorkType, NEW w \in Worker, NEW e, e.val \in Secret, e.err \in Errors,
         work[w].step \in BusySteps \ {"next"}
  PROVE  \/ /\ e.err = "none" /\ GotOrFailed(w, e) = Got(w, e.val)
            /\ GotOrFailed(w, e).step = "next" /\ GotOrFailed(w, e).leaf = work[w].leaf
            /\ GotOrFailed(w, e).rest = Tail(work[w].rest)
            /\ GotOrFailed(w, e).got = Append(work[w].got, e.val)
         \/ /\ e.err # "none" /\ GotOrFailed(w, e) = Failed(w, e.err)
            /\ GotOrFailed(w, e).step = "failed" /\ GotOrFailed(w, e).err = e.err
<1>1. CASE e.err = "none"
  <2> DEFINE v == e.val  t == Tail(work[w].rest)  a == Append(work[w].got, v)
  <2>1. Got(w, v) = [work[w] EXCEPT !.step = "next", !.rest = t, !.got = a, !.store = NoStore]
    BY <1>1, GotTyped
  <2>2. work[w] \in WorkRecord
    BY DEF WorkType
  <2> HIDE DEF t, a
  <2>3. Got(w, v).step = "next" /\ Got(w, v).leaf = work[w].leaf
        /\ Got(w, v).rest = t /\ Got(w, v).got = a
    BY <2>1, <2>2 DEF WorkRecord
  <2> QED
    BY <1>1, <2>3 DEF GotOrFailed, t, a
<1>2. CASE e.err # "none"
  BY <1>2, FailedTyped DEF GotOrFailed
<1> QED
  BY <1>1, <1>2

\* A step of a worker is its own: the others, and what the operations are doing, stay.
LEMMA WorkerAlone ==
  ASSUME Types, Employed, NEW w \in Worker, Step(w)
  PROVE  /\ work[w].step # "exited" /\ w \in pool /\ op[OpOf[w]].status = "run"
         /\ \A o \in Op : op'[o].status = op[o].status
         /\ \A v \in Worker \ {w} : work'[v] = work[v] /\ call'[v] = call[v]
         /\ UNCHANGED <<backend, pool, canceled, cfgClosed, cfgClose, toClose>>
<1> USE DEF Step, TakeLeaf, StoreLeaf, LeafFailed, CallResolver, RunResolver, ResolverReturned,
            Lookup, Await, LockSpec, Create, Collect, ReadStore
<1>1. work[w].step # "exited"
  BY DEF ResolverCall, CheckCache, Fetch, CacheWrite, Leave, Employed
<1>2. \A o \in Op : op'[o].status = op[o].status
  BY DEF Types, OpType, OpRecord
<1>3. \A v \in Worker \ {w} : work'[v] = work[v]
  BY WorkerMoves DEF Types, WorkType
<1>4. \A v \in Worker \ {w} : call'[v] = call[v]
  BY DEF ResolverCall, Enter, CheckCache, Fetch, CacheWrite, Leave, Types, ResolverType, resolver
<1>5. UNCHANGED <<backend, pool, canceled, cfgClosed, cfgClose, toClose>>
  BY DEF ResolverCall, Enter, CheckCache, Fetch, CacheWrite, Leave, resolver
<1> QED
  BY <1>1, <1>2, <1>3, <1>4, <1>5 DEF Employed

\* Nobody works at first.
LEMMA EmployedInit == Init => Employed
BY IdleTyped DEF Init, ResolverInit, Employed, NoCall, OwnerSteps

\* The steps of a call to the resolver, and of the rest of the work, follow each other.
LEMMA EmployedWorker ==
  ASSUME Types, Employed, NEW w \in Worker, Step(w)
  PROVE  /\ call'[w].step # "none" <=> work'[w].step = "call"
         /\ work'[w].step \in OwnerSteps \cup {"wait"} => backend = "router"
         /\ work'[w].step = "call" => backend = "resolver"
<1>0. /\ work[w] \in WorkRecord /\ work \in [Worker -> WorkRecord] /\ call[w] \in CallRecord
      /\ call \in [Worker -> CallRecord]
      /\ work[w].step = "call" => backend = "resolver"
      /\ call[w].step # "none" <=> work[w].step = "call"
      /\ work[w].step \in OwnerSteps \cup {"wait"} => backend = "router"
  BY DEF Types, WorkType, ResolverType, Employed
<1>a. ASSUME NEW e, e.val \in Secret, e.err \in Errors, work[w].step \in BusySteps \ {"next"},
             work' = [work EXCEPT ![w] = GotOrFailed(w, e)]
      PROVE  work'[w].step \in {"next", "failed"}
  <2>1. work'[w] = GotOrFailed(w, e)
    BY <1>a, <1>0
  <2> QED
    BY <1>a, <2>1, AfterRead DEF Types
<1>b. ASSUME NEW v \in Secret, NEW x \in Errors, work[w].step \in OwnerSteps, Settle(w, v, x)
      PROVE  work'[w].step \in {"next", "failed"}
  <2> DEFINE entry == [state |-> "done", val |-> v, err |-> x]
  <2>1. entry.val \in Secret /\ entry.err \in Errors
    OBVIOUS
  <2>2. work' = [work EXCEPT ![w] = GotOrFailed(w, entry)]
    BY <1>b DEF Settle
  <2> HIDE DEF entry
  <2> QED
    BY <1>a, <1>b, <2>1, <2>2 DEF OwnerSteps, BusySteps
<1>s. 0 \in Secret /\ "store" \in Errors /\ "closed" \in Errors /\ "canceled" \in Errors
  BY DEF Secret, Errors
<1>1. CASE TakeLeaf(w) \/ StoreLeaf(w) \/ LeafFailed(w)
  <2>1. call' = call /\ work[w].step # "call"
    BY <1>1 DEF TakeLeaf, StoreLeaf, LeafFailed, resolver
  <2>2. work'[w].step \in {"next", "loop", "exited"}
    <3>1. CASE StoreLeaf(w) \/ LeafFailed(w)
      BY <3>1, <1>0, IdleTyped DEF StoreLeaf, LeafFailed
    <3>2. CASE TakeLeaf(w)
      BY <3>2, <1>0, IdleTyped DEF TakeLeaf, IdleWork
    <3> QED
      BY <1>1, <3>1, <3>2
  <2> QED
    BY <1>0, <2>1, <2>2 DEF OwnerSteps
<1>2. CASE CallResolver(w)
  <2>1. call'[w].step # "none"
    BY <1>2, <1>0 DEF CallResolver, Enter
  <2> QED
    BY <1>2, <1>0, <2>1 DEF CallResolver, OwnerSteps, WorkRecord
<1>3. CASE RunResolver(w)
  <2>1. call[w].step # "none" /\ call'[w].step # "none" /\ work' = work
    BY <1>3, <1>0 DEF RunResolver, ResolverCall, CheckCache, Fetch, CacheWrite, Leave, CallRecord
  <2> QED
    BY <1>0, <2>1
<1>4. CASE ResolverReturned(w)
  <2>1. call'[w].step = "none"
    BY <1>4, <1>0 DEF ResolverReturned, NoCall
  <2>2. call[w].val \in Secret /\ call[w].err \in Errors
    BY <1>0 DEF CallRecord
  <2>3. work'[w].step \in {"next", "failed"}
    BY <1>4, <2>2, <1>a DEF ResolverReturned, BusySteps
  <2> QED
    BY <2>1, <2>3 DEF OwnerSteps
<1>5. CASE Lookup(w)
  BY <1>5, <1>0 DEF Lookup, resolver, WorkRecord
<1>6. CASE Await(w)
  <2>0. Ref1(w) \in Ref /\ OpOf[w] \in Op
    BY <1>6, ReferenceKnown, SessionConstants DEF Await, Types, WorkType, Shape, BusySteps
  <2>1. session[OpOf[w]][Ref1(w)] \in Entry
    BY <2>0 DEF Types, OpType
  <2>2. work'[w].step \in {"next", "failed"}
    BY <1>6, <1>0, <2>1, <1>a, <1>s, FailedTyped DEF Await, Entry, BusySteps
  <2> QED
    BY <1>6, <1>0, <2>2 DEF Await, resolver, OwnerSteps
<1>7. CASE LockSpec(w) \/ Create(w) \/ Collect(w) \/ ReadStore(w)
  <2>1. call' = call /\ work[w].step \in OwnerSteps
    BY <1>7 DEF LockSpec, Create, Collect, ReadStore, resolver, OwnerSteps
  <2>2. CASE \E v \in Secret, x \in Errors : Settle(w, v, x)
    BY <1>0, <2>1, <2>2, <1>b DEF OwnerSteps
  <2>3. CASE LockSpec(w)
    BY <1>0, <2>1, <2>3 DEF LockSpec, OwnerSteps, WorkRecord
  <2>4. CASE Create(w) /\ ~Settle(w, 0, "store")
    BY <1>0, <2>1, <2>4 DEF Create, OwnerSteps, WorkRecord
  <2>5. CASE Collect(w) /\ ~Settle(w, 0, "closed")
    BY <1>0, <2>1, <2>5 DEF Collect, OwnerSteps, WorkRecord
  <2>6. CASE ReadStore(w)
    <3>1. remote[Ref1(w)] \in Secret
      BY <2>6, ReferenceKnown DEF ReadStore, BusySteps, Types, WorkType, Shape, ResolverType, Secret
    <3> QED
      BY <2>2, <2>6, <3>1, <1>s DEF ReadStore, Errors
  <2> QED
    BY <1>7, <1>s, <2>2, <2>3, <2>4, <2>5, <2>6
<1> QED
  BY <1>1, <1>2, <1>3, <1>4, <1>5, <1>6, <1>7 DEF Step

\* A worker that has not left belongs to the pool of a running operation, and calls
\* the resolver only from its step "call".
LEMMA EmployedStep ==
  Types /\ Employed /\ [Next]_vars => Employed'
<1> SUFFICES ASSUME Types, Employed, [Next]_vars PROVE Employed'
  OBVIOUS
<1>1. ASSUME NEW o \in Op, NEW refresh \in BOOLEAN, Start(o, refresh) PROVE Employed'
  <2>1. \A w \in Workers(o) : work[w].step = "exited" \/ w \notin Worker
    BY <1>1 DEF Start, Workers, Employed
  <2>2. \A p \in Op : op'[p].status = IF p = o THEN "run" ELSE op[p].status
    BY <1>1 DEF Start, Types, OpType, OpRecord
  <2>3. \A w \in Worker : work'[w] = IF w \in Workers(o) THEN IdleWork ELSE work[w]
    BY <1>1 DEF Start
  <2>4. UNCHANGED <<backend, pool, call>>
    BY <1>1 DEF Start
  <2> QED
    BY <2>1, <2>2, <2>3, <2>4, IdleTyped, SessionConstants DEF Employed, Workers, OwnerSteps
<1>2. ASSUME NEW w \in Worker, Step(w) PROVE Employed'
  <2>1. OpOf[w] \in Op /\ \A v \in Worker : OpOf[v] \in Op
    BY SessionConstants
  <2> QED
    BY <1>2, <2>1, WorkerAlone, EmployedWorker DEF Employed
<1>3. ASSUME NEW o \in Op, Finish(o) PROVE Employed'
  <2>1. \A w \in Worker : work[w].step # "exited" => OpOf[w] # o
    BY <1>3 DEF Finish, Employed, Workers
  <2>2. \A p \in Op \ {o} : op'[p] = op[p]
    BY <1>3 DEF Finish, Types, OpType
  <2> QED
    BY <1>3, <2>1, <2>2, SessionConstants DEF Finish, resolver, Employed
<1>4. ASSUME NEW o \in Op, Cancel(o) PROVE Employed'
  <2>1. \A p \in Op : op'[p].status = op[p].status
    BY <1>4 DEF Cancel, Types, OpType, OpRecord
  <2> QED
    BY <1>4, <2>1, SessionConstants DEF Cancel, resolver, Employed
<1>5. CASE UNCHANGED <<backend, pool, op, work, call>>
  BY <1>5 DEF Employed
<1>6. CASE Environment
  BY <1>4, <1>5, <1>6, SessionConstants DEF Environment, mine, Rotate, Expire
<1>7. ASSUME NEW c, CloseResolver(c) PROVE Employed'
  BY <1>5, <1>7 DEF CloseResolver, mine, ResolverClose, CloseBegin, CloseCancel, CloseWait,
     CloseDrop, CloseStore, CloseJoin
<1> QED
  BY <1>1, <1>2, <1>3, <1>5, <1>6, <1>7 DEF Next, CloseConfig, CloseStep, CloseCollect,
     CloseResource, CloseReturns, mine, resolver, vars

-----------------------------------------------------------------------------
(* The error of an operation is its root cause *)

Excused(o) == canceled \/ Done(o)

\* No error at first.
LEMMA RootCausesInit == Init => RootCauses
<1> SUFFICES ASSUME Init PROVE RootCauses
  OBVIOUS
<1>1. \A o \in Op : op[o].cause = "none"
  BY DEF Init, IdleOp
<1>2. \A w \in Worker : call[w].step = "none" /\ work[w].step = "exited"
  BY IdleTyped DEF Init, ResolverInit, NoCall
<1>3. \A o \in Op, r \in Ref : session[o][r].err = "none"
  BY DEF Init, Absent
<1> QED
  BY <1>1, <1>2, <1>3 DEF RootCauses, ErrorIsRootCause

\* How an owner's answer enters the session and its own record.
LEMMA SettleResult ==
  ASSUME Types, NEW w \in Worker, NEW v \in Secret, NEW x \in Errors,
         work[w].step \in OwnerSteps, Settle(w, v, x)
  PROVE  /\ Ref1(w) \in Ref /\ OpOf[w] \in Op
         /\ \A o \in Op, r \in Ref :
              session'[o][r] = IF o = OpOf[w] /\ r = Ref1(w)
                               THEN [state |-> "done", val |-> v, err |-> x] ELSE session[o][r]
         /\ work' = [work EXCEPT ![w] = IF x = "none" THEN Got(w, v) ELSE Failed(w, x)]
<1>1. work[w].step \in BusySteps \ {"next"}
  BY DEF OwnerSteps, BusySteps
<1>2. Ref1(w) \in Ref /\ OpOf[w] \in Op
  BY <1>1, ReferenceKnown, SessionConstants DEF Types, WorkType, Shape
<1> DEFINE entry == [state |-> "done", val |-> v, err |-> x]
<1>3. session' = [session EXCEPT ![OpOf[w]][Ref1(w)] = entry]
      /\ work' = [work EXCEPT ![w] = GotOrFailed(w, entry)]
  BY DEF Settle
<1>4. GotOrFailed(w, entry) = IF x = "none" THEN Got(w, v) ELSE Failed(w, x)
  BY DEF GotOrFailed
<1>5. work' = [work EXCEPT ![w] = IF x = "none" THEN Got(w, v) ELSE Failed(w, x)]
  BY <1>3, <1>4
<1> HIDE DEF entry
<1>6. \A o \in Op, r \in Ref :
        session'[o][r] = IF o = OpOf[w] /\ r = Ref1(w) THEN entry ELSE session[o][r]
  BY <1>2, <1>3 DEF Types, OpType
<1> QED
  BY <1>2, <1>5, <1>6 DEF entry

\* The errors a worker's step can bring.
LEMMA ErrorsWorker ==
  ASSUME Types, Employed, RootCauses, NEW w \in Worker, Step(w)
  PROVE  /\ call'[w].step # "none" /\ call'[w].err = "canceled" => Excused(OpOf[w])
         /\ work'[w].step = "failed" =>
              work'[w].err # "none" /\ (work'[w].err = "canceled" => Excused(OpOf[w]))
         /\ \A p \in Op, r \in Ref : session'[p][r].err = "canceled" => Excused(p)
         /\ \A p \in Op : Done(p) => Done(p)'
         /\ \A p \in Op : op'[p].cause = "canceled" => op'[p].userCanceled \/ canceled
<1>0. /\ work[w] \in WorkRecord /\ work \in [Worker -> WorkRecord] /\ call[w] \in CallRecord
      /\ call \in [Worker -> CallRecord] /\ OpOf[w] \in Op
      /\ op \in [Op -> OpRecord]
  BY SessionConstants DEF Types, WorkType, ResolverType, OpType
<1>r. /\ call[w].step # "none" /\ call[w].err = "canceled" => Excused(OpOf[w])
      /\ work[w].step = "failed" =>
              work[w].err # "none" /\ (work[w].err = "canceled" => Excused(OpOf[w]))
      /\ \A p \in Op, r \in Ref : session[p][r].err = "canceled" => Excused(p)
      /\ \A p \in Op : op[p].cause = "canceled" => op[p].userCanceled \/ canceled
  BY DEF RootCauses, ErrorIsRootCause, Excused
<1> DEFINE Calls == call'[w].step # "none" /\ call'[w].err = "canceled" => Excused(OpOf[w])
           Works == work'[w].step = "failed" =>
              work'[w].err # "none" /\ (work'[w].err = "canceled" => Excused(OpOf[w]))
           Entries == \A p \in Op, r \in Ref : session'[p][r].err = "canceled" => Excused(p)
           Causes == /\ \A p \in Op : Done(p) => Done(p)'
                     /\ \A p \in Op : op'[p].cause = "canceled" => op'[p].userCanceled \/ canceled
<1> SUFFICES Calls /\ Works /\ Entries /\ Causes
  OBVIOUS
<1>a. UNCHANGED call => Calls
  BY <1>r
<1>b. UNCHANGED session => Entries
  BY <1>r
<1>c. UNCHANGED op => Causes
  BY <1>r DEF Done
\* A read that ends.
<1>d. ASSUME NEW v \in Secret, NEW x \in Errors, work[w].step \in BusySteps \ {"next"},
             work' = [work EXCEPT ![w] = IF x = "none" THEN Got(w, v) ELSE Failed(w, x)],
             x = "canceled" => Excused(OpOf[w])
      PROVE  Works
  <2>1. CASE x = "none"
    <3>1. work'[w] = Got(w, v)
      BY <1>0, <1>d, <2>1
    <3>2. Got(w, v).step = "next"
      <4> DEFINE e == [val |-> v, err |-> x]
      <4>1. e.val \in Secret /\ e.err \in Errors /\ e.val = v /\ e.err = "none"
        BY <2>1
      <4> HIDE DEF e
      <4> QED
        BY <1>d, <4>1, AfterRead DEF Types
    <3> QED
      BY <3>1, <3>2
  <2>2. CASE x # "none"
    <3>1. work'[w] = Failed(w, x)
      BY <1>0, <1>d, <2>2
    <3> QED
      BY <1>d, <2>2, <3>1, FailedTyped
  <2> QED
    BY <2>1, <2>2
<1>e. ASSUME NEW v \in Secret, NEW x \in Errors, work[w].step \in OwnerSteps, Settle(w, v, x),
             x = "canceled" => Excused(OpOf[w])
      PROVE  Works /\ Entries
  <2>1. Works
    <3>1. work' = [work EXCEPT ![w] = IF x = "none" THEN Got(w, v) ELSE Failed(w, x)]
      BY <1>e, SettleResult
    <3>2. work[w].step \in BusySteps \ {"next"}
      BY <1>e DEF OwnerSteps, BusySteps
    <3> HIDE DEF Works
    <3> QED
      BY <1>d, <1>e, <3>1, <3>2
  <2>2. \A o \in Op, r \in Ref :
              session'[o][r] = IF o = OpOf[w] /\ r = Ref1(w)
                               THEN [state |-> "done", val |-> v, err |-> x] ELSE session[o][r]
    BY <1>e, SettleResult
  <2>3. Entries
    BY <2>2, <1>e, <1>r
  <2> QED
    BY <2>1, <2>3
<1>s. 0 \in Secret /\ "store" \in Errors /\ "closed" \in Errors /\ "canceled" \in Errors
      /\ "none" \in Errors
  BY DEF Secret, Errors
<1>1. CASE TakeLeaf(w)
  <2>1. work'[w].step \in {"next", "exited"}
    BY <1>1, <1>0, IdleTyped DEF TakeLeaf, IdleWork
  <2>2. \A p \in Op : op'[p].cause = op[p].cause /\ op'[p].userCanceled = op[p].userCanceled
    <3> DEFINE q == Tail(op[OpOf[w]].queue)
    <3>1. op' = op \/ op' = [op EXCEPT ![OpOf[w]].queue = q]
      BY <1>1 DEF TakeLeaf
    <3> HIDE DEF q
    <3> QED
      BY <3>1, <1>0 DEF OpRecord
  <2>3. Causes
    BY <2>2, <1>r DEF Done
  <2> QED
    BY <1>1, <2>1, <2>3, <1>a, <1>b DEF TakeLeaf, resolver
<1>2. CASE StoreLeaf(w)
  <2>1. work'[w].step = "loop"
    BY <1>2, <1>0, IdleTyped DEF StoreLeaf
  <2>2. \A p \in Op : op'[p].cause = op[p].cause /\ op'[p].userCanceled = op[p].userCanceled
    BY <1>2, <1>0 DEF StoreLeaf, OpRecord
  <2>3. Causes
    BY <2>2, <1>r DEF Done
  <2> QED
    BY <1>2, <2>1, <2>3, <1>a, <1>b DEF StoreLeaf, resolver
<1>3. CASE LeafFailed(w)
  <2>1. work'[w].step = "loop"
    BY <1>3, <1>0, IdleTyped DEF LeafFailed
  <2>2. \A p \in Op : op'[p].userCanceled = op[p].userCanceled
                      /\ op'[p].cause = IF p = OpOf[w] /\ op[p].cause = "none" THEN work[w].err
                                        ELSE op[p].cause
    BY <1>3, <1>0 DEF LeafFailed, OpRecord, Cause, FirstCause
  <2>3. work[w].step = "failed"
    BY <1>3 DEF LeafFailed
  <2>4. Causes
    BY <2>2, <2>3, <1>r DEF Done, Excused
  <2> QED
    BY <1>3, <2>1, <2>4, <1>a, <1>b DEF LeafFailed, resolver
<1>4. CASE CallResolver(w)
  <2>1. call'[w].err \in {"closed", "none"} /\ work'[w].step = "call"
    BY <1>4, <1>0 DEF CallResolver, Enter, WorkRecord
  <2> QED
    BY <1>4, <2>1, <1>b, <1>c DEF CallResolver
<1>5. CASE RunResolver(w)
  <2>0. UNCHANGED <<work, session, op>>
    BY <1>5 DEF RunResolver
  <2>1. \/ call'[w].err = call[w].err /\ call[w].step # "none"
        \/ call'[w].err = "store"
        \/ call'[w].err = "canceled" /\ Excused(OpOf[w])
    BY <1>5, <1>0 DEF RunResolver, ResolverCall, CheckCache, Fetch, CacheWrite, Leave, CallRecord,
                      Excused
  <2>2. Calls
    BY <2>1, <1>r
  <2> QED
    BY <2>0, <2>2, <1>r, <1>b, <1>c
<1>6. CASE ResolverReturned(w)
  <2>1. call'[w].step = "none"
    BY <1>6, <1>0 DEF ResolverReturned, NoCall
  <2>2. call[w].val \in Secret /\ call[w].err \in Errors /\ work[w].step = "call"
    BY <1>6, <1>0 DEF ResolverReturned, CallRecord
  <2>3. call[w].err = "canceled" => Excused(OpOf[w])
    BY <1>6, <1>r DEF ResolverReturned
  <2>4. work' = [work EXCEPT ![w] = IF call[w].err = "none" THEN Got(w, call[w].val)
                                    ELSE Failed(w, call[w].err)]
    BY <1>6 DEF ResolverReturned, GotOrFailed
  <2>5. Works
    BY <1>d, <2>2, <2>3, <2>4 DEF BusySteps
  <2> QED
    BY <1>6, <2>1, <2>5, <1>b, <1>c DEF ResolverReturned
<1>7. CASE Lookup(w)
  <2>1. work'[w].step \in {"route", "wait"}
    BY <1>7, <1>0 DEF Lookup, WorkRecord
  <2>2. Ref1(w) \in Ref
    BY <1>7, ReferenceKnown DEF Lookup, Types
  <2>3. \A p \in Op, r \in Ref : session'[p][r].err = session[p][r].err
    <3>1. CASE UNCHANGED session
      BY <3>1
    <3>2. CASE session' = [session EXCEPT ![OpOf[w]][Ref1(w)].state = "pending"]
      BY <1>0, <2>2, <3>2 DEF Types, OpType, Entry
    <3> QED
      BY <1>7, <3>1, <3>2 DEF Lookup
  <2> QED
    BY <1>7, <2>1, <2>3, <1>r, <1>a, <1>c DEF Lookup, resolver
<1>8. CASE Await(w)
  <2>0. Ref1(w) \in Ref /\ work[w].step \in BusySteps \ {"next"}
    BY <1>8, <1>0, ReferenceKnown DEF Await, Types, WorkType, Shape, BusySteps
  <2> DEFINE e == session[OpOf[w]][Ref1(w)]
  <2>1. e \in Entry
    BY <1>0, <2>0 DEF Types, OpType
  <2>2. e.val \in Secret /\ e.err \in Errors /\ (e.err = "canceled" => Excused(OpOf[w]))
    BY <2>0, <2>1, <1>0, <1>r DEF Entry
  <2>3. \/ work' = [work EXCEPT ![w] = IF e.err = "none" THEN Got(w, e.val) ELSE Failed(w, e.err)]
        \/ Done(OpOf[w]) /\ work' = [work EXCEPT ![w] = Failed(w, "canceled")]
    BY <1>8 DEF Await, GotOrFailed
  <2> HIDE DEF e
  <2>4. CASE work' = [work EXCEPT ![w] = IF e.err = "none" THEN Got(w, e.val)
                                         ELSE Failed(w, e.err)]
    BY <2>0, <2>2, <2>4, <1>d, <1>8, <1>a, <1>b, <1>c DEF Await, resolver
  <2>5. CASE Done(OpOf[w]) /\ work' = [work EXCEPT ![w] = Failed(w, "canceled")]
    <3>1. work'[w] = Failed(w, "canceled") /\ Excused(OpOf[w])
      BY <2>5, <1>0 DEF Excused
    <3> QED
      BY <3>1, <1>s, FailedTyped, <1>8, <1>a, <1>b, <1>c DEF Await, resolver
  <2> QED
    BY <2>3, <2>4, <2>5
<1>9. CASE LockSpec(w)
  <2>1. work'[w].step \in {"create", "read"}
    BY <1>9, <1>0 DEF LockSpec, WorkRecord
  <2> QED
    BY <1>9, <2>1, <1>a, <1>b, <1>c DEF LockSpec, resolver
<1>10. CASE Create(w)
  <2>1. CASE Settle(w, 0, "store")
    BY <1>10, <2>1, <1>e, <1>s, <1>a, <1>c DEF Create, OwnerSteps, resolver
  <2>2. CASE ~Settle(w, 0, "store")
    <3>1. work'[w].step = "collect"
      BY <1>10, <1>0, <2>2 DEF Create, WorkRecord
    <3> QED
      BY <1>10, <2>2, <3>1, <1>a, <1>b, <1>c DEF Create, resolver
  <2> QED
    BY <2>1, <2>2
<1>11. CASE Collect(w)
  <2>1. CASE Settle(w, 0, "closed")
    BY <1>11, <2>1, <1>e, <1>s, <1>a, <1>c DEF Collect, OwnerSteps, resolver
  <2>2. CASE ~Settle(w, 0, "closed")
    <3>1. work'[w].step = "read"
      BY <1>11, <1>0, <2>2 DEF Collect, WorkRecord
    <3> QED
      BY <1>11, <2>2, <3>1, <1>a, <1>b, <1>c DEF Collect, resolver
  <2> QED
    BY <2>1, <2>2
<1>12. CASE ReadStore(w)
  <2>0. remote[Ref1(w)] \in Secret /\ work[w].step \in OwnerSteps
    BY <1>12, ReferenceKnown DEF ReadStore, BusySteps, OwnerSteps, Types, WorkType, Shape,
                                 ResolverType, Secret
  <2>1. \E v \in Secret, x \in Errors : Settle(w, v, x) /\ (x = "canceled" => Excused(OpOf[w]))
    BY <1>12, <2>0, <1>s DEF ReadStore, Excused
  <2>2. Works /\ Entries
    BY <2>0, <2>1, <1>e
  <2> QED
    BY <1>12, <2>2, <1>a, <1>c DEF ReadStore, resolver
<1> QED
  BY <1>1, <1>2, <1>3, <1>4, <1>5, <1>6, <1>7, <1>8, <1>9, <1>10, <1>11, <1>12 DEF Step

\* A cancellation is recorded only where the caller or Close canceled, or where an
\* earlier failure is already the cause.
LEMMA RootCausesStep ==
  Types /\ Employed /\ RootCauses /\ [Next]_vars => RootCauses'
<1> SUFFICES ASSUME Types, Employed, RootCauses, [Next]_vars PROVE RootCauses'
  OBVIOUS
<1>0. \A w \in Worker : OpOf[w] \in Op
  BY SessionConstants
<1>1. ASSUME NEW o \in Op, NEW refresh \in BOOLEAN, Start(o, refresh) PROVE RootCauses'
  <2>1. \A p \in Op : /\ op'[p].cause = op[p].cause /\ op'[p].userCanceled = op[p].userCanceled
                      /\ op'[p].status # "run" => op[p].status # "run"
    <3> DEFINE q == LeafOrder[o]  v == [l \in Leaves(o) |-> <<>>]
    <3>1. op' = [op EXCEPT ![o].status = "run", ![o].queue = q, ![o].values = v]
      BY <1>1 DEF Start
    <3> HIDE DEF q, v
    <3> QED
      BY <3>1 DEF Types, OpType, OpRecord
  <2>2. \A w \in Worker : work'[w] \in {work[w], IdleWork}
    BY <1>1 DEF Start
  <2>3. UNCHANGED <<call, session, canceled>>
    BY <1>1 DEF Start
  <2> QED
    BY <1>0, <2>1, <2>2, <2>3, IdleTyped DEF RootCauses, ErrorIsRootCause, Done
<1>2. ASSUME NEW w \in Worker, Step(w) PROVE RootCauses'
  <2>1. UNCHANGED canceled
    BY <1>2, WorkerAlone
  <2>2. \A p \in Op : op'[p].status # "run" => op'[p].cause = "none"
    <3>1. \A p \in Op \ {OpOf[w]} : op'[p] = op[p]
      BY <1>2 DEF Step, TakeLeaf, StoreLeaf, LeafFailed, CallResolver, RunResolver,
         ResolverReturned, Lookup, Await, LockSpec, Create, Collect, ReadStore, Types, OpType
    <3> QED
      BY <1>2, <3>1, WorkerAlone DEF RootCauses
  <2>3. \A v \in Worker \ {w} : work'[v] = work[v] /\ call'[v] = call[v]
    BY <1>2, WorkerAlone
  <2>4. \A p \in Op : Excused(p) => Excused(p)'
    BY <1>2, <2>1, ErrorsWorker DEF Excused
  <2>5. /\ call'[w].step # "none" /\ call'[w].err = "canceled" => Excused(OpOf[w])
        /\ work'[w].step = "failed" =>
              work'[w].err # "none" /\ (work'[w].err = "canceled" => Excused(OpOf[w]))
        /\ \A p \in Op, r \in Ref : session'[p][r].err = "canceled" => Excused(p)
        /\ \A p \in Op : op'[p].cause = "canceled" => op'[p].userCanceled \/ canceled
    BY <1>2, ErrorsWorker
  <2>6. \A v \in Worker : call'[v].step # "none" /\ call'[v].err = "canceled" => Excused(OpOf[v])
    BY <2>3, <2>5 DEF RootCauses, Excused
  <2>7. \A v \in Worker : work'[v].step = "failed" =>
              work'[v].err # "none" /\ (work'[v].err = "canceled" => Excused(OpOf[v]))
    BY <2>3, <2>5 DEF RootCauses, Excused
  <2>8. \A p \in Op : Excused(p) => canceled' \/ Done(p)'
    BY <2>4 DEF Excused
  <2>9. ErrorIsRootCause'
    BY <2>1, <2>5 DEF ErrorIsRootCause
  <2> QED
    BY <1>0, <2>2, <2>5, <2>6, <2>7, <2>8, <2>9 DEF RootCauses
<1>3. ASSUME NEW o \in Op, Finish(o) PROVE RootCauses'
  <2>1. \A w \in Worker : work[w].step # "exited" => OpOf[w] # o
    BY <1>3 DEF Finish, Employed, Workers
  <2>2. \A w \in Worker : call[w].step # "none" => OpOf[w] # o
    BY <2>1 DEF Employed
  <2>3. /\ op'[o].cause = "none" /\ \A p \in Op \ {o} : op'[p] = op[p]
        /\ \A r \in Ref : session'[o][r].err = "none"
        /\ \A p \in Op \ {o} : session'[p] = session[p]
    BY <1>3 DEF Finish, Types, OpType, IdleOp, Absent
  <2>4. UNCHANGED <<call, work, canceled>>
    BY <1>3 DEF Finish, resolver
  <2> QED
    BY <1>0, <2>1, <2>2, <2>3, <2>4 DEF RootCauses, ErrorIsRootCause, Done
<1>4. ASSUME NEW o \in Op, Cancel(o) PROVE RootCauses'
  <2>1. /\ \A p \in Op \ {o} : op'[p] = op[p]
        /\ op'[o].status = "run" /\ op'[o].userCanceled /\ op'[o].cause # "none"
    BY <1>4 DEF Cancel, Types, OpType, OpRecord, Cause, FirstCause
  <2>2. UNCHANGED <<call, session, canceled, work>>
    BY <1>4 DEF Cancel, resolver
  <2> QED
    BY <1>0, <2>1, <2>2 DEF RootCauses, ErrorIsRootCause, Done
<1>5. CASE UNCHANGED <<op, session, work, call>> /\ (canceled => canceled')
  BY <1>5 DEF RootCauses, ErrorIsRootCause, Done
<1>6. CASE Environment
  BY <1>4, <1>5, <1>6, SessionConstants DEF Environment, mine, Rotate, Expire
<1>7. ASSUME NEW c, CloseResolver(c) PROVE RootCauses'
  BY <1>5, <1>7 DEF CloseResolver, mine, ResolverClose, CloseBegin, CloseCancel, CloseWait,
     CloseDrop, CloseStore, CloseJoin
<1> QED
  BY <1>1, <1>2, <1>3, <1>5, <1>6, <1>7 DEF Next, CloseConfig, CloseStep, CloseCollect,
     CloseResource, CloseReturns, mine, resolver, vars

-----------------------------------------------------------------------------
(* Every store is closed once *)

\* No store at first.
LEMMA StoresKeptInit == Init => StoresKept
<1> SUFFICES ASSUME Init PROVE StoresKept
  OBVIOUS
<1>1. Creating = {}
  BY IdleTyped DEF Init, Creating
<1>2. stores \in Seq({"open", "closed"}) /\ DOMAIN stores = {}
  BY DEF Init
<1> QED
  BY <1>1, <1>2 DEF Init, StoresKept, Owned

\* What is left of a read that ended: a value more, or a failure.
Ended(w, v, x) ==
  work' = [work EXCEPT ![w] = IF x = "none" THEN Got(w, v) ELSE Failed(w, x)]

\* The record of a worker whose read ended.
LEMMA EndedRecord ==
  ASSUME Types, NEW w \in Worker, NEW v \in Secret, NEW x \in Errors,
         work[w].step \in BusySteps \ {"next"}, Ended(w, v, x)
  PROVE  /\ \A u \in Worker \ {w} : work'[u] = work[u]
         /\ x = "none" => /\ work'[w].step = "next" /\ work'[w].leaf = work[w].leaf
                          /\ work'[w].rest = Tail(work[w].rest)
                          /\ work'[w].got = Append(work[w].got, v)
         /\ x # "none" => work'[w].step = "failed" /\ work'[w].err = x
<1>1. work \in [Worker -> WorkRecord]
  BY DEF Types, WorkType
<1>2. CASE x = "none"
  <2> DEFINE e == [val |-> v, err |-> x]
  <2>1. e.val \in Secret /\ e.err \in Errors /\ e.val = v /\ e.err = "none"
    BY <1>2
  <2> HIDE DEF e
  <2>2. /\ Got(w, v).step = "next" /\ Got(w, v).leaf = work[w].leaf
        /\ Got(w, v).rest = Tail(work[w].rest) /\ Got(w, v).got = Append(work[w].got, v)
    BY <2>1, AfterRead DEF Types
  <2> DEFINE g == Got(w, v)
  <2>3. work' = [work EXCEPT ![w] = g]
    BY <1>2 DEF Ended
  <2> HIDE DEF g
  <2>4. work'[w] = g /\ \A u \in Worker \ {w} : work'[u] = work[u]
    BY <1>1, <2>3
  <2> QED
    BY <1>2, <2>2, <2>4 DEF g
<1>3. CASE x # "none"
  <2>1. work' = [work EXCEPT ![w] = Failed(w, x)]
    BY <1>3 DEF Ended
  <2> QED
    BY <1>1, <1>3, <2>1, FailedTyped
<1> QED
  BY <1>2, <1>3

\* A return of the resolver, an answer of the session and an answer of a store end a
\* read.
LEMMA ReadEnds ==
  ASSUME Types, NEW w \in Worker, ResolverReturned(w) \/ Await(w) \/ ReadStore(w)
  PROVE  /\ work[w].step \in {"call", "wait", "read"}
         /\ \E v \in Secret, x \in Errors : Ended(w, v, x)
<1>1. CASE ResolverReturned(w)
  <2>1. call[w].val \in Secret /\ call[w].err \in Errors
    BY DEF Types, ResolverType, CallRecord
  <2>2. Ended(w, call[w].val, call[w].err)
    BY <1>1 DEF ResolverReturned, Ended, GotOrFailed
  <2> QED
    BY <1>1, <2>1, <2>2 DEF ResolverReturned
<1>2. CASE Await(w)
  <2>1. Ref1(w) \in Ref /\ OpOf[w] \in Op
    BY <1>2, ReferenceKnown, SessionConstants DEF Await, Types, WorkType, Shape, BusySteps
  <2>2. session[OpOf[w]][Ref1(w)] \in Entry
    BY <2>1 DEF Types, OpType
  <2>3. /\ session[OpOf[w]][Ref1(w)].val \in Secret /\ session[OpOf[w]][Ref1(w)].err \in Errors
        /\ 0 \in Secret /\ "canceled" \in Errors
    BY <2>2 DEF Entry, Secret, Errors
  <2>4. \/ Ended(w, session[OpOf[w]][Ref1(w)].val, session[OpOf[w]][Ref1(w)].err)
        \/ Ended(w, 0, "canceled")
    BY <1>2 DEF Await, Ended, GotOrFailed
  <2> QED
    BY <1>2, <2>3, <2>4 DEF Await
<1>3. CASE ReadStore(w)
  <2>1. remote[Ref1(w)] \in Secret /\ work[w].step = "read"
    BY <1>3, ReferenceKnown DEF ReadStore, BusySteps, Types, WorkType, Shape, ResolverType, Secret
  <2>2. PICK v \in Secret, x \in Errors : Settle(w, v, x)
    BY <1>3, <2>1 DEF ReadStore, Errors, Secret
  <2>3. work[w].step \in OwnerSteps
    BY <2>1 DEF OwnerSteps
  <2>4. Ended(w, v, x)
    BY <2>2, <2>3, SettleResult DEF Ended
  <2> QED
    BY <2>1, <2>4
<1> QED
  BY <1>1, <1>2, <1>3

\* A store that a factory has just made is in nobody else's hands.
LEMMA NotCollecting ==
  ASSUME Types, Employed, NEW w \in Worker, Step(w), ~Create(w), ~Collect(w)
  PROVE  /\ work[w].step # "collect" /\ work'[w].step # "collect"
         /\ UNCHANGED <<stores, collector>>
<1>0. work[w] \in WorkRecord /\ work \in [Worker -> WorkRecord]
  BY DEF Types, WorkType
<1>1. CASE TakeLeaf(w) \/ StoreLeaf(w) \/ LeafFailed(w)
  <2>1. CASE TakeLeaf(w)
    BY <2>1, <1>0, IdleTyped DEF TakeLeaf, IdleWork
  <2>2. CASE StoreLeaf(w) \/ LeafFailed(w)
    BY <2>2, <1>0, IdleTyped DEF StoreLeaf, LeafFailed
  <2> QED
    BY <1>1, <2>1, <2>2
<1>2. CASE CallResolver(w)
  BY <1>2, <1>0 DEF CallResolver, WorkRecord
<1>3. CASE RunResolver(w)
  <2>1. call[w].step # "none"
    BY <1>3 DEF RunResolver, ResolverCall, CheckCache, Fetch, CacheWrite, Leave
  <2> QED
    BY <1>3, <2>1 DEF RunResolver, Employed
<1>4. CASE Lookup(w) \/ LockSpec(w)
  BY <1>4, <1>0 DEF Lookup, LockSpec, WorkRecord
<1>5. CASE ResolverReturned(w) \/ Await(w) \/ ReadStore(w)
  <2>1. UNCHANGED <<stores, collector>>
    BY <1>5 DEF ResolverReturned, Await, ReadStore
  <2> QED
    BY <1>5, <2>1, ReadEnds, EndedRecord DEF BusySteps
<1> QED
  BY <1>1, <1>2, <1>3, <1>4, <1>5 DEF Step, TakeLeaf, StoreLeaf, LeafFailed, CallResolver,
     RunResolver, Lookup, LockSpec, ResolverReturned, Await, ReadStore

\* A step that touches no store and no factory keeps the stores.
LEMMA KeptUnchanged ==
  ASSUME StoresKept, UNCHANGED <<stores, collector, toClose, cfgClose, backend>>,
         \A v \in Worker : /\ work'[v].step = "collect" <=> work[v].step = "collect"
                           /\ work[v].step = "collect" => work'[v].store = work[v].store
  PROVE  StoresKept'
<1>1. Creating' = Creating
  BY DEF Creating
<1>2. \A v \in Creating : work'[v].store = work[v].store
  BY DEF Creating
<1>3. Owned' = Owned
  BY <1>1, <1>2 DEF Owned
<1> QED
  BY <1>1, <1>2, <1>3 DEF StoresKept

\* A store that a factory makes is open and in the hands of its worker alone.
LEMMA KeptCreate ==
  ASSUME Types, Employed, StoresKept, NEW w \in Worker, Create(w) PROVE StoresKept'
<1>0. work[w] \in WorkRecord /\ work \in [Worker -> WorkRecord]
  BY DEF Types, WorkType
<1>1. CASE Settle(w, 0, "store") /\ UNCHANGED stores
  <2>1. work[w].step \in OwnerSteps /\ work[w].step = "create" /\ 0 \in Secret /\ "store" \in Errors
    BY DEF Create, OwnerSteps, Secret, Errors
  <2>2. Ended(w, 0, "store")
    BY <1>1, <2>1, SettleResult DEF Ended
  <2>3. work'[w].step = "failed" /\ \A u \in Worker \ {w} : work'[u] = work[u]
    BY <2>1, <2>2, EndedRecord DEF BusySteps
  <2> QED
    BY <1>1, <2>1, <2>3, KeptUnchanged DEF Create
<1>2. CASE /\ stores' = Append(stores, "open")
           /\ work' = [work EXCEPT ![w].step = "collect", ![w].store = Len(stores) + 1]
  <2> DEFINE n == Len(stores) + 1
  <2>1. /\ stores \in Seq({"open", "closed"}) /\ n \in Nat /\ DOMAIN stores = 1 .. (n - 1)
        /\ n \notin DOMAIN stores
    BY DEF StoresKept
  <2>2. /\ stores' \in Seq({"open", "closed"}) /\ DOMAIN stores' = DOMAIN stores \cup {n}
        /\ stores'[n] = "open" /\ \A i \in DOMAIN stores : stores'[i] = stores[i]
    BY <1>2, <2>1, AppendProperties
  <2>3. /\ work'[w].step = "collect" /\ work'[w].store = n
        /\ \A u \in Worker \ {w} : work'[u] = work[u]
    BY <1>0, <1>2 DEF WorkRecord
  <2> HIDE DEF n
  <2>4. w \notin Creating /\ Creating' = Creating \cup {w}
    BY <2>3 DEF Creating, Create
  <2>5. \A v \in Creating : work'[v].store = work[v].store
    BY <2>3, <2>4 DEF Creating
  <2>6. Owned' = Owned \cup {n} /\ n \notin Owned
    <3>1. UNCHANGED <<collector, toClose>>
      BY DEF Create
    <3>2. {work'[v].store : v \in Creating'} = {work[v].store : v \in Creating} \cup {n}
      BY <2>3, <2>4, <2>5
    <3> QED
      BY <2>1, <3>1, <3>2 DEF Owned, StoresKept
  <2>7. UNCHANGED <<collector, toClose, cfgClose, backend>>
    BY DEF Create
  <2>8. \A v \in Creating : work[v].store \in Owned
    BY DEF Owned
  <2> QED
    BY <2>2, <2>3, <2>4, <2>5, <2>6, <2>7, <2>8 DEF StoresKept, Owned
<1> QED
  BY <1>1, <1>2 DEF Create

\* The collector takes the store, or the router closes it: it is in one place again.
LEMMA KeptCollect ==
  ASSUME Types, Employed, StoresKept, NEW w \in Worker, Collect(w) PROVE StoresKept'
<1> DEFINE s == work[w].store
<1>0. /\ work[w] \in WorkRecord /\ work \in [Worker -> WorkRecord] /\ work[w].step = "collect"
      /\ backend = "router" /\ work[w].step \in OwnerSteps
      /\ UNCHANGED <<toClose, cfgClose, backend>>
  BY DEF Types, WorkType, Employed, Collect, OwnerSteps
<1>1. /\ w \in Creating /\ s \in Owned /\ s \notin collector.resources \cup toClose
      /\ \A v \in Creating \ {w} : work[v].store # s
  BY <1>0 DEF Creating, Owned, StoresKept
<1>2. ASSUME work'[w].step # "collect", \A u \in Worker \ {w} : work'[u] = work[u]
      PROVE  /\ Creating' = Creating \ {w}
             /\ {work'[v].store : v \in Creating'} = {work[v].store : v \in Creating} \ {s}
             /\ \A v \in Creating' : work'[v].store = work[v].store
  <2>1. Creating' = Creating \ {w}
    BY <1>2 DEF Creating
  <2>2. \A v \in Creating' : work'[v] = work[v] /\ v \in Creating
    BY <1>2, <2>1 DEF Creating
  <2>3. {work'[v].store : v \in Creating'} = {work[v].store : v \in Creating} \ {s}
    BY <1>1, <2>1, <2>2
  <2> QED
    BY <2>1, <2>2, <2>3
<1>3. CASE ~collector.closed
  <2>1. /\ work' = [work EXCEPT ![w].step = "read"] /\ UNCHANGED stores
        /\ collector' = [collector EXCEPT !.resources = @ \cup {s}]
    BY <1>3 DEF Collect, Admitted
  <2>2. work'[w].step = "read" /\ \A u \in Worker \ {w} : work'[u] = work[u]
    BY <1>0, <2>1 DEF WorkRecord
  <2>3. collector' = [closed |-> FALSE, resources |-> collector.resources \cup {s}]
    BY <1>3, <2>1 DEF StoresKept
  <2> HIDE DEF s
  <2>4. Owned' = Owned
    BY <1>0, <1>1, <1>2, <2>2, <2>3 DEF Owned
  <2>5. cfgClose \in {"idle", "collect"}
    BY <1>3 DEF StoresKept
  <2>6. /\ stores' \in Seq({"open", "closed"}) /\ Owned' \subseteq DOMAIN stores'
        /\ \A i \in DOMAIN stores' : stores'[i] = "open" <=> i \in Owned'
    BY <2>1, <2>4 DEF StoresKept
  <2>7. Creating' = Creating \ {w} /\ \A v \in Creating' : work'[v].store = work[v].store
    BY <1>2, <2>2
  <2>8. collector'.resources = collector.resources \cup {s} /\ collector'.closed = FALSE
    BY <2>3
  <2>9. /\ collector'.resources \cap toClose' = {}
        /\ \A v \in Creating' : work'[v].store \notin collector'.resources \cup toClose'
        /\ \A u, v \in Creating' : work'[u].store = work'[v].store => u = v
    BY <1>0, <1>1, <2>7, <2>8 DEF StoresKept
  <2> QED
    BY <1>0, <2>3, <2>5, <2>6, <2>8, <2>9 DEF StoresKept
<1>4. CASE collector.closed
  <2>1. /\ stores' = Replaced(stores, s, "closed") /\ Settle(w, 0, "closed")
        /\ UNCHANGED collector
    BY <1>4 DEF Collect, Admitted, Replaced
  <2>2. 0 \in Secret /\ "closed" \in Errors
    BY DEF Secret, Errors
  <2>3. Ended(w, 0, "closed")
    BY <1>0, <2>1, <2>2, SettleResult DEF Ended
  <2>4. work'[w].step = "failed" /\ \A u \in Worker \ {w} : work'[u] = work[u]
    BY <1>0, <2>2, <2>3, EndedRecord DEF BusySteps
  <2>5. stores \in Seq({"open", "closed"})
    BY DEF StoresKept
  <2> HIDE DEF s
  <2>6. /\ stores' \in Seq({"open", "closed"}) /\ DOMAIN stores' = DOMAIN stores
        /\ \A i \in DOMAIN stores : stores'[i] = IF i = s THEN "closed" ELSE stores[i]
    BY <2>1, <2>5, ReplacedTyped
  <2>7. Owned' = Owned \ {s}
    BY <1>0, <1>1, <1>2, <2>1, <2>4 DEF Owned
  <2> QED
    BY <1>0, <1>1, <1>2, <2>1, <2>4, <2>6, <2>7 DEF StoresKept
<1> QED
  BY <1>3, <1>4 DEF StoresKept

\* An open store is in exactly one place: a worker's hands, the collector, or the
\* list that Config.Close is closing.
LEMMA StoresKeptStep ==
  Types /\ Employed /\ StoresKept /\ [Next]_vars => StoresKept'
<1> SUFFICES ASSUME Types, Employed, StoresKept, [Next]_vars PROVE StoresKept'
  OBVIOUS
<1>1. ASSUME NEW o \in Op, NEW refresh \in BOOLEAN, Start(o, refresh) PROVE StoresKept'
  <2>1. \A w \in Worker : w \in Workers(o) => work[w].step = "exited"
    BY <1>1 DEF Start, Workers, Employed
  <2>2. \A w \in Worker : work'[w] = IF w \in Workers(o) THEN IdleWork ELSE work[w]
    BY <1>1 DEF Start
  <2>3. UNCHANGED <<stores, collector, toClose, cfgClose, backend>>
    BY <1>1 DEF Start
  <2> QED
    BY <2>1, <2>2, <2>3, IdleTyped, KeptUnchanged
<1>2. ASSUME NEW w \in Worker, Step(w) PROVE StoresKept'
  <2>1. CASE ~Create(w) /\ ~Collect(w)
    BY <1>2, <2>1, NotCollecting, WorkerAlone, KeptUnchanged
  <2> QED
    BY <2>1, KeptCreate, KeptCollect
<1>3. CASE CloseConfig
  <2>1. Creating' = Creating
    BY <1>3 DEF CloseConfig, Creating
  <2>2. Owned' = Owned
    BY <1>3, <2>1 DEF CloseConfig, Owned
  <2> QED
    BY <1>3, <2>1, <2>2 DEF CloseConfig, StoresKept
<1>4. CASE CloseCollect
  <2>1. Creating' = Creating /\ toClose = {}
    BY <1>4 DEF CloseCollect, Creating, StoresKept
  <2>2. /\ collector' = [closed |-> TRUE, resources |-> {}] /\ toClose' = collector.resources
        /\ UNCHANGED <<stores, work, backend>>
    BY <1>4 DEF CloseCollect
  <2>3. Owned' = Owned
    BY <2>1, <2>2 DEF Owned
  <2>4. cfgClose' \in {"stores", "resolver"} /\ (cfgClose' = "resolver" => toClose' = {})
    BY <1>4, <2>2 DEF CloseCollect, StoresKept
  <2>5. \A w \in Creating : work[w].store \notin toClose'
    BY <2>2 DEF StoresKept
  <2> QED
    BY <2>1, <2>2, <2>3, <2>4, <2>5 DEF StoresKept
<1>5. CASE CloseResource
  <2>1. PICK s \in toClose :
          /\ toClose' = toClose \ {s}
          /\ stores' = Replaced(stores, s, IF stores[s] = "open" THEN "closed" ELSE "twice")
    BY <1>5 DEF CloseResource, Replaced
  <2>2. s \in DOMAIN stores /\ stores[s] = "open" /\ stores \in Seq({"open", "closed"})
    BY <2>1 DEF StoresKept, Owned
  <2>3. /\ stores' \in Seq({"open", "closed"}) /\ DOMAIN stores' = DOMAIN stores
        /\ \A i \in DOMAIN stores : stores'[i] = IF i = s THEN "closed" ELSE stores[i]
    BY <2>1, <2>2, ReplacedTyped
  <2>4. UNCHANGED <<work, collector, backend, cfgClose>> /\ cfgClose = "stores"
    BY <1>5 DEF CloseResource
  <2>5. Creating' = Creating
    BY <2>4 DEF Creating
  <2>6. \A w \in Creating : work[w].store # s
    BY <2>1 DEF StoresKept
  <2>7. Owned' = Owned \ {s}
    <3>1. s \notin collector.resources
      BY <2>1 DEF StoresKept
    <3> QED
      BY <2>1, <2>4, <2>5, <2>6, <3>1 DEF Owned
  <2>8. /\ Owned' \subseteq DOMAIN stores'
        /\ \A i \in DOMAIN stores' : stores'[i] = "open" <=> i \in Owned'
    BY <2>3, <2>7 DEF StoresKept
  <2> QED
    BY <2>1, <2>3, <2>4, <2>5, <2>8 DEF StoresKept
<1>6. CASE CloseReturns
  <2>1. Creating' = Creating /\ cfgClose' = "done" /\ toClose = {}
    BY <1>6 DEF CloseReturns, Creating, StoresKept
  <2>2. Owned' = Owned
    BY <1>6, <2>1 DEF CloseReturns, Owned
  <2>3. UNCHANGED <<stores, collector, work, backend, toClose>>
        /\ collector.closed /\ collector.resources = {}
    BY <1>6 DEF CloseReturns, StoresKept
  <2> QED
    BY <2>1, <2>2, <2>3 DEF StoresKept
<1>7. CASE UNCHANGED <<stores, collector, toClose, cfgClose, backend, work>>
  BY <1>7, KeptUnchanged
<1>8. CASE Environment
  BY <1>7, <1>8 DEF Environment, Cancel, mine
<1> QED
  BY <1>1, <1>2, <1>3, <1>4, <1>5, <1>6, <1>7, <1>8 DEF Next, Finish, CloseStep, CloseResolver,
     mine, vars

\* With Config.Close done and no operation running these places are empty.
LEMMA ClosedOnceFollows ==
  Types /\ Employed /\ StoresKept => EveryStoreClosedOnce
<1> SUFFICES ASSUME Types, Employed, StoresKept PROVE EveryStoreClosedOnce
  OBVIOUS
<1>1. \A s \in DOMAIN stores : stores[s] \in {"open", "closed"}
  BY DEF StoresKept
<1>2. ASSUME cfgClose = "done", \A o \in Op : op[o].status # "run", NEW s \in DOMAIN stores
      PROVE  stores[s] = "closed"
  <2>1. Creating = {}
    BY <1>2, SessionConstants DEF Creating, Employed
  <2>2. Owned = {}
    BY <1>2, <2>1 DEF Owned, StoresKept
  <2> QED
    BY <1>1, <1>2, <2>2 DEF StoresKept
<1> QED
  BY <1>1, <1>2 DEF EveryStoreClosedOnce

-----------------------------------------------------------------------------
(* One owner per reference, and the snapshot an operation publishes.  A     *)
(* step of a worker is one of six turns.                                   *)

Hand(w) == <<work[w].leaf, work[w].rest, work[w].got>>
Entry1(w) == session[OpOf[w]][Ref1(w)]
EntryBecomes(w, e) == \A o \in Op, r \in Ref :
  session'[o][r] = IF o = OpOf[w] /\ r = Ref1(w) THEN e ELSE session[o][r]

Exits(w) == /\ work[w].step = "loop" /\ work'[w].step = "exited"
            /\ Done(OpOf[w]) \/ op[OpOf[w]].queue = <<>>
            /\ UNCHANGED <<op, session>>
Takes(w) == LET o == OpOf[w] IN
            /\ work[w].step = "loop" /\ work'[w].step = "next" /\ op[o].queue # <<>>
            /\ Hand(w)' = <<Head(op[o].queue), RefsOf[Head(op[o].queue)], <<>> >>
            /\ op'[o].queue = Tail(op[o].queue)
            /\ op'[o].values = op[o].values /\ op'[o].cause = op[o].cause
            /\ UNCHANGED session
Keeps(w) == LET o == OpOf[w] IN
            /\ work[w].step = "next" /\ work[w].rest = <<>> /\ work'[w].step = "loop"
            /\ op'[o].values = [op[o].values EXCEPT ![work[w].leaf] = work[w].got]
            /\ op'[o].queue = op[o].queue /\ op'[o].cause = op[o].cause
            /\ UNCHANGED session
Fails(w) == LET o == OpOf[w] IN
            /\ work[w].step = "failed" /\ work'[w].step = "loop"
            /\ op'[o].values = op[o].values /\ op'[o].queue = op[o].queue
            /\ op'[o].cause # "none"
            /\ UNCHANGED session
Carries(w) == /\ work[w].step \in BusySteps /\ work'[w].step \in BusySteps
              /\ UNCHANGED <<op, Hand(w)>>
              /\ work'[w].step = "wait" => Entry1(w).state # "absent"
              /\ \/ /\ work'[w].step \in OwnerSteps <=> work[w].step \in OwnerSteps
                    /\ UNCHANGED session
                 \/ /\ Entry1(w).state = "absent" /\ Ref1(w) \in Ref
                    /\ work[w].step \notin OwnerSteps /\ work'[w].step = "route"
                    /\ EntryBecomes(w, [Entry1(w) EXCEPT !.state = "pending"])
Ends(w, v, x) ==
  /\ work[w].step \in BusySteps \ {"next"} /\ Ref1(w) \in Ref
  /\ Ended(w, v, x) /\ UNCHANGED op
  /\ \/ /\ work[w].step \in OwnerSteps
        /\ EntryBecomes(w, [state |-> "done", val |-> v, err |-> x])
     \/ /\ work[w].step \notin OwnerSteps /\ UNCHANGED session
        /\ x = "none" => Agrees(OpOf[w], Ref1(w), v)

\* A worker's step leaves the other operations alone.
LEMMA OpRestStays ==
  ASSUME Types, NEW w \in Worker, Step(w) PROVE \A p \in Op \ {OpOf[w]} : op'[p] = op[p]
BY DEF Step, TakeLeaf, StoreLeaf, LeafFailed, CallResolver, RunResolver, ResolverReturned, Lookup,
       Await, LockSpec, Create, Collect, ReadStore, Types, OpType

\* The owner's answer is the end of a read.
LEMMA SettleEnds ==
  ASSUME Types, NEW w \in Worker, NEW v \in Secret, NEW x \in Errors,
         work[w].step \in OwnerSteps, Settle(w, v, x), UNCHANGED op
  PROVE  Ends(w, v, x)
<1>1. work[w].step \in BusySteps \ {"next"}
  BY DEF OwnerSteps, BusySteps
<1>2. /\ Ref1(w) \in Ref
      /\ EntryBecomes(w, [state |-> "done", val |-> v, err |-> x])
      /\ Ended(w, v, x)
  BY SettleResult DEF EntryBecomes, Ended
<1> QED
  BY <1>1, <1>2 DEF Ends

\* Every step of a worker is one of the turns.
LEMMA Turns ==
  ASSUME Types, Employed, RootCauses, NEW w \in Worker, Step(w)
  PROVE  \/ Exits(w) \/ Takes(w) \/ Keeps(w) \/ Fails(w) \/ Carries(w)
         \/ \E v \in Secret, x \in Errors : Ends(w, v, x)
<1> DEFINE o == OpOf[w]
<1>0. /\ work[w] \in WorkRecord /\ work \in [Worker -> WorkRecord]
      /\ OpOf[w] \in Op /\ op \in [Op -> OpRecord] /\ op[OpOf[w]] \in OpRecord
      /\ session \in [Op -> [Ref -> Entry]]
  BY SessionConstants DEF Types, WorkType, OpType
<1>b. work[w].step \in BusySteps \ {"next"} => work[w].rest # <<>> /\ Ref1(w) \in Ref
  BY ReferenceKnown DEF Types, WorkType, Shape
<1>s. 0 \in Secret /\ "store" \in Errors /\ "closed" \in Errors /\ "canceled" \in Errors
      /\ "none" \in Errors
  BY DEF Secret, Errors
<1>m. ASSUME NEW step \in BusySteps, work[w].step \in BusySteps,
             work' = [work EXCEPT ![w].step = step]
      PROVE  work'[w].step = step /\ UNCHANGED Hand(w)
  BY <1>0, <1>m DEF WorkRecord, Hand
<1>1. CASE TakeLeaf(w)
  <2>1. CASE work' = [work EXCEPT ![w] = Exited] /\ UNCHANGED op /\ (Done(o) \/ op[o].queue = <<>>)
    BY <1>1, <2>1, <1>0, IdleTyped DEF TakeLeaf, Exits
  <2>2. CASE ~Done(o) /\ op[o].queue # <<>>
    <3> DEFINE l == Head(op[o].queue)
               q == Tail(op[o].queue)
               refs == RefsOf[l]
               new == [IdleWork EXCEPT !.step = "next", !.leaf = l, !.rest = refs]
    <3>1. work' = [work EXCEPT ![w] = new] /\ op' = [op EXCEPT ![o].queue = q]
      BY <1>1, <2>2 DEF TakeLeaf
    <3> HIDE DEF l, q, refs
    <3>2. new.step = "next" /\ new.leaf = l /\ new.rest = refs /\ new.got = <<>>
      BY DEF IdleWork
    <3> HIDE DEF new
    <3>3. work'[w] = new
      BY <1>0, <3>1
    <3>4. op'[o].queue = q /\ op'[o].values = op[o].values /\ op'[o].cause = op[o].cause
      BY <1>0, <3>1 DEF OpRecord
    <3> QED
      BY <1>1, <2>2, <3>2, <3>3, <3>4 DEF TakeLeaf, Takes, Hand, l, q, refs
  <2> QED
    BY <1>1, <2>1, <2>2 DEF TakeLeaf
<1>2. CASE StoreLeaf(w)
  <2>1. work'[w].step = "loop"
    BY <1>2, <1>0, IdleTyped DEF StoreLeaf
  <2>2. /\ op'[o].values = [op[o].values EXCEPT ![work[w].leaf] = work[w].got]
        /\ op'[o].queue = op[o].queue /\ op'[o].cause = op[o].cause
    BY <1>2, <1>0 DEF StoreLeaf, OpRecord
  <2> QED
    BY <1>2, <2>1, <2>2 DEF StoreLeaf, Keeps
<1>3. CASE LeafFailed(w)
  <2>1. work'[w].step = "loop"
    BY <1>3, <1>0, IdleTyped DEF LeafFailed
  <2>2. work[w].err # "none" /\ work[w].step = "failed"
    BY <1>3 DEF LeafFailed, RootCauses
  <2>3. /\ op'[o].values = op[o].values /\ op'[o].queue = op[o].queue
        /\ op'[o].cause = Cause(o, work[w].err)
    BY <1>3, <1>0 DEF LeafFailed, OpRecord
  <2> QED
    BY <1>3, <2>1, <2>2, <2>3 DEF LeafFailed, Fails, Cause, FirstCause
<1>4. CASE CallResolver(w)
  <2>1. work' = [work EXCEPT ![w].step = "call"] /\ UNCHANGED <<op, session>>
        /\ work[w].step = "next"
    BY <1>4 DEF CallResolver
  <2>2. work'[w].step = "call" /\ UNCHANGED Hand(w)
    BY <2>1, <1>m DEF BusySteps
  <2> QED
    BY <2>1, <2>2 DEF Carries, BusySteps, OwnerSteps
<1>5. CASE RunResolver(w)
  <2>1. call[w].step # "none" /\ UNCHANGED <<work, op, session>>
    BY <1>5 DEF RunResolver, ResolverCall, CheckCache, Fetch, CacheWrite, Leave
  <2>2. work[w].step = "call"
    BY <2>1 DEF Employed
  <2> QED
    BY <2>1, <2>2 DEF Carries, Hand, BusySteps
<1>6. CASE ResolverReturned(w)
  <2>1. call[w].val \in Secret /\ call[w].err \in Errors
    BY DEF Types, ResolverType, CallRecord
  <2>2. /\ Ended(w, call[w].val, call[w].err) /\ UNCHANGED <<op, session>>
        /\ work[w].step = "call"
    BY <1>6 DEF ResolverReturned, Ended, GotOrFailed
  <2>3. Agrees(OpOf[w], Ref1(w), call[w].val)
    BY <2>2 DEF Employed, Agrees
  <2>4. Ends(w, call[w].val, call[w].err)
    BY <1>b, <2>2, <2>3 DEF Ends, BusySteps, OwnerSteps
  <2> QED
    BY <2>1, <2>4
<1>7. CASE Lookup(w)
  <2>0. Ref1(w) \in Ref /\ work[w].step = "next" /\ UNCHANGED op
    BY <1>7, ReferenceKnown DEF Lookup, Types
  <2>1. CASE Entry1(w).state = "absent"
    <3>1. /\ session' = [session EXCEPT ![OpOf[w]][Ref1(w)].state = "pending"]
          /\ work' = [work EXCEPT ![w].step = "route"]
      BY <1>7, <2>1 DEF Lookup, NoEntryYet, Entry1
    <3>2. EntryBecomes(w, [Entry1(w) EXCEPT !.state = "pending"])
      BY <1>0, <2>0, <3>1 DEF EntryBecomes, Entry1
    <3>3. work'[w].step = "route" /\ UNCHANGED Hand(w)
      BY <2>0, <3>1, <1>m DEF BusySteps
    <3> QED
      BY <2>0, <2>1, <3>2, <3>3 DEF Carries, BusySteps, OwnerSteps
  <2>2. CASE Entry1(w).state # "absent"
    <3>1. work' = [work EXCEPT ![w].step = "wait"] /\ UNCHANGED session
      BY <1>7, <2>2 DEF Lookup, NoEntryYet, Entry1
    <3>2. work'[w].step = "wait" /\ UNCHANGED Hand(w)
      BY <2>0, <3>1, <1>m DEF BusySteps
    <3> QED
      BY <2>0, <2>2, <3>1, <3>2 DEF Carries, BusySteps, OwnerSteps
  <2> QED
    BY <2>1, <2>2
<1>8. CASE Await(w)
  <2>0. Ref1(w) \in Ref /\ work[w].step = "wait" /\ UNCHANGED <<op, session>>
        /\ work[w].step \in BusySteps \ {"next"}
    BY <1>8, <1>b DEF Await, BusySteps
  <2>1. Entry1(w) \in Entry
    BY <1>0, <2>0 DEF Entry1
  <2>2. Entry1(w).val \in Secret /\ Entry1(w).err \in Errors
    BY <2>1 DEF Entry
  <2>3. \/ Ended(w, Entry1(w).val, Entry1(w).err) /\ Entry1(w).state = "done"
        \/ Ended(w, 0, "canceled")
    BY <1>8 DEF Await, Ended, GotOrFailed, Entry1
  <2>4. CASE Ended(w, Entry1(w).val, Entry1(w).err) /\ Entry1(w).state = "done"
    <3>1. Agrees(OpOf[w], Ref1(w), Entry1(w).val)
      BY <2>4 DEF Agrees, Entry1
    <3>2. Ends(w, Entry1(w).val, Entry1(w).err)
      BY <2>0, <2>4, <3>1 DEF Ends, OwnerSteps
    <3> QED
      BY <2>2, <3>2
  <2>5. CASE Ended(w, 0, "canceled")
    <3>1. Ends(w, 0, "canceled")
      BY <2>0, <2>5 DEF Ends, OwnerSteps
    <3> QED
      BY <3>1, <1>s
  <2> QED
    BY <2>3, <2>4, <2>5
<1>9. CASE LockSpec(w)
  <2>1. /\ \E step \in {"create", "read"} : work' = [work EXCEPT ![w].step = step]
        /\ UNCHANGED <<op, session>> /\ work[w].step = "route"
    BY <1>9 DEF LockSpec
  <2>2. work'[w].step \in {"create", "read"} /\ UNCHANGED Hand(w)
    BY <2>1, <1>m DEF BusySteps
  <2> QED
    BY <2>1, <2>2 DEF Carries, BusySteps, OwnerSteps
<1>10. CASE Create(w)
  <2>0. work[w].step \in OwnerSteps /\ UNCHANGED op /\ work[w].step = "create"
    BY <1>10 DEF Create, OwnerSteps
  <2>1. CASE Settle(w, 0, "store")
    BY <2>0, <2>1, <1>s, SettleEnds
  <2>2. CASE ~Settle(w, 0, "store")
    <3> DEFINE n == Len(stores) + 1
    <3>1. work' = [work EXCEPT ![w].step = "collect", ![w].store = n] /\ UNCHANGED session
      BY <1>10, <2>2 DEF Create
    <3> HIDE DEF n
    <3>2. work'[w].step = "collect" /\ UNCHANGED Hand(w)
      BY <1>0, <3>1 DEF WorkRecord, Hand
    <3> QED
      BY <2>0, <3>1, <3>2 DEF Carries, BusySteps, OwnerSteps
  <2> QED
    BY <2>1, <2>2
<1>11. CASE Collect(w)
  <2>0. work[w].step \in OwnerSteps /\ UNCHANGED op /\ work[w].step = "collect"
    BY <1>11 DEF Collect, OwnerSteps
  <2>1. CASE Settle(w, 0, "closed")
    BY <2>0, <2>1, <1>s, SettleEnds
  <2>2. CASE ~Settle(w, 0, "closed")
    <3>1. work' = [work EXCEPT ![w].step = "read"] /\ UNCHANGED session
      BY <1>11, <2>2 DEF Collect
    <3>2. work'[w].step = "read" /\ UNCHANGED Hand(w)
      BY <2>0, <3>1, <1>m DEF BusySteps
    <3> QED
      BY <2>0, <3>1, <3>2 DEF Carries, BusySteps, OwnerSteps
  <2> QED
    BY <2>1, <2>2
<1>12. CASE ReadStore(w)
  <2>0. work[w].step \in OwnerSteps /\ UNCHANGED op
    BY <1>12 DEF ReadStore, OwnerSteps
  <2>1. remote[Ref1(w)] \in Secret
    BY <1>12, <1>b DEF ReadStore, BusySteps, Types, ResolverType, Secret
  <2>2. PICK v \in Secret, x \in Errors : Settle(w, v, x)
    BY <1>12, <1>s, <2>1 DEF ReadStore
  <2> QED
    BY <2>0, <2>2, SettleEnds
<1> QED
  BY <1>1, <1>2, <1>3, <1>4, <1>5, <1>6, <1>7, <1>8, <1>9, <1>10, <1>11, <1>12 DEF Step

\* An owner works on a reference of its operation.
LEMMA OwnerKnown ==
  ASSUME Types, NEW w \in Worker, work[w].step \in OwnerSteps
  PROVE  Ref1(w) \in Ref /\ OpOf[w] \in Op
BY ReferenceKnown, SessionConstants DEF Types, WorkType, Shape, OwnerSteps, BusySteps

\* No worker has a read in hand when nothing has begun.
LEMMA OneOwnerInit == Init => OneOwner
BY IdleTyped DEF Init, OneOwner, OwnerSteps

\* A turn of one worker leaves every reference with at most one owner: a
\* worker becomes one only where there is no entry yet.
LEMMA OneOwnerTurn ==
  ASSUME Types, Employed, RootCauses, OneOwner, NEW w \in Worker, Step(w) PROVE OneOwner'
<1>0. \A v \in Worker \ {w} : work'[v] = work[v] /\ (Ref1(v))' = Ref1(v)
  BY WorkerAlone DEF Ref1
<1>1. CASE work'[w].step \notin OwnerSteps /\ UNCHANGED session
  BY <1>0, <1>1 DEF OneOwner
<1>2. CASE Exits(w) \/ Takes(w) \/ Keeps(w) \/ Fails(w)
  BY <1>1, <1>2 DEF Exits, Takes, Keeps, Fails, OwnerSteps
<1>3. CASE Carries(w)
  <2>1. (Ref1(w))' = Ref1(w)
    BY <1>3 DEF Carries, Hand, Ref1
  <2>2. CASE (work'[w].step \in OwnerSteps <=> work[w].step \in OwnerSteps) /\ UNCHANGED session
    BY <1>0, <2>1, <2>2 DEF OneOwner
  <2>3. CASE /\ Entry1(w).state = "absent" /\ Ref1(w) \in Ref
             /\ EntryBecomes(w, [Entry1(w) EXCEPT !.state = "pending"])
    <3>1. \A v \in Worker \ {w} : work[v].step \in OwnerSteps =>
            ~(OpOf[v] = OpOf[w] /\ Ref1(v) = Ref1(w))
      BY <2>3 DEF OneOwner, Entry1
    <3>2. Entry1(w) \in Entry /\ OpOf[w] \in Op
      BY <2>3, SessionConstants DEF Entry1, Types, OpType
    <3>3. session'[OpOf[w]][Ref1(w)].state = "pending"
      BY <2>3, <3>2 DEF EntryBecomes, Entry
    <3>4. \A v \in Worker \ {w} : work[v].step \in OwnerSteps =>
            session'[OpOf[v]][Ref1(v)] = session[OpOf[v]][Ref1(v)]
      BY <2>3, <3>1, OwnerKnown DEF EntryBecomes
    <3> QED
      BY <1>0, <2>1, <3>1, <3>3, <3>4 DEF OneOwner
  <2> QED
    BY <1>3, <2>2, <2>3 DEF Carries
<1>4. ASSUME NEW v \in Secret, NEW x \in Errors, Ends(w, v, x) PROVE OneOwner'
  <2>1. work'[w].step \notin OwnerSteps
    BY <1>4, EndedRecord DEF Ends, OwnerSteps
  <2>2. CASE UNCHANGED session
    BY <1>1, <2>1, <2>2
  <2>3. CASE /\ work[w].step \in OwnerSteps
             /\ EntryBecomes(w, [state |-> "done", val |-> v, err |-> x])
    <3>1. \A u \in Worker \ {w} : work[u].step \in OwnerSteps =>
            session'[OpOf[u]][Ref1(u)] = session[OpOf[u]][Ref1(u)]
      BY <2>3, OwnerKnown DEF EntryBecomes, OneOwner
    <3> QED
      BY <1>0, <2>1, <3>1 DEF OneOwner
  <2> QED
    BY <1>4, <2>2, <2>3 DEF Ends
<1> QED
  BY <1>2, <1>3, <1>4, Turns

\* Between the operations: one that starts has no owner yet, one that ends has
\* none left.
LEMMA OneOwnerStep ==
  Types /\ Employed /\ RootCauses /\ OneOwner /\ [Next]_vars => OneOwner'
<1> SUFFICES ASSUME Types, Employed, RootCauses, OneOwner, [Next]_vars PROVE OneOwner'
  OBVIOUS
<1>1. ASSUME NEW o \in Op, NEW refresh \in BOOLEAN, Start(o, refresh) PROVE OneOwner'
  <2>1. /\ \A w \in Worker : work'[w] = IF w \in Workers(o) THEN IdleWork ELSE work[w]
        /\ UNCHANGED session
    BY <1>1 DEF Start
  <2>2. \A w \in Worker : work'[w].step \in OwnerSteps => work'[w] = work[w]
    BY <2>1, IdleTyped DEF OwnerSteps
  <2> QED
    BY <2>1, <2>2 DEF OneOwner, Ref1
<1>2. ASSUME NEW w \in Worker, Step(w) PROVE OneOwner'
  BY <1>2, OneOwnerTurn
<1>3. ASSUME NEW o \in Op, Finish(o) PROVE OneOwner'
  <2>1. /\ \A w \in Worker : work[w].step # "exited" => OpOf[w] # o
        /\ UNCHANGED work
    BY <1>3 DEF Finish, Employed, Workers
  <2>2. \A p \in Op \ {o} : session'[p] = session[p]
    BY <1>3 DEF Finish, Types, OpType
  <2> QED
    BY <2>1, <2>2, SessionConstants DEF OneOwner, Ref1, OwnerSteps
<1>4. CASE UNCHANGED <<work, session>>
  BY <1>4 DEF OneOwner, Ref1
<1> QED
  BY <1>1, <1>2, <1>3, <1>4 DEF Next, CloseConfig, CloseStep, CloseCollect, CloseResource,
     CloseReturns, CloseResolver, Environment, Cancel, mine, vars

\* An answer of the session is final.
LEMMA DoneStays ==
  ASSUME Types, Employed, RootCauses, OneOwner, NEW w \in Worker, Step(w)
  PROVE  \A o \in Op, r \in Ref :
           session[o][r].state = "done" => session'[o][r] = session[o][r]
<1>1. CASE Carries(w)
  BY <1>1 DEF Carries, EntryBecomes, Entry1
<1>2. ASSUME NEW v \in Secret, NEW x \in Errors, Ends(w, v, x)
      PROVE  \A o \in Op, r \in Ref :
               session[o][r].state = "done" => session'[o][r] = session[o][r]
  BY <1>2 DEF Ends, EntryBecomes, OneOwner
<1> QED
  BY <1>1, <1>2, Turns DEF Exits, Takes, Keeps, Fails

\* A value that will agree with the session.
WillAgree(o, r, v) ==
  backend' = "router" => session'[o][r].state = "done" /\ v = session'[o][r].val

\* What agreed with the session still does.
LEMMA AgreesStays ==
  ASSUME Types, Employed, RootCauses, OneOwner, NEW w \in Worker, Step(w),
         NEW o \in Op, NEW r \in Ref, NEW v, Agrees(o, r, v)
  PROVE  WillAgree(o, r, v)
BY DoneStays, WorkerAlone DEF Agrees, WillAgree

\* The leaf in hand and its references.
LEMMA HandTyped ==
  ASSUME Types, NEW w \in Worker
  PROVE  /\ work[w].rest \in Seq(Ref) /\ work[w].got \in Seq(Secret) /\ OpOf[w] \in Op
         /\ work[w].step \in BusySteps => /\ work[w].leaf \in Leaf
                                          /\ RefsOf[work[w].leaf] \in Seq(Ref)
BY LeavesTyped, SessionConstants DEF Types, WorkType, WorkRecord, Shape

\* Nobody has a leaf in hand at first.
LEMMA AlignedInit == Init => Aligned
BY IdleTyped DEF Init, Aligned, BusySteps

\* The elements of a sequence, by position.
LEMMA InRange ==
  ASSUME NEW S, NEW q \in Seq(S)
  PROVE  Len(q) \in Nat /\ DOMAIN q = 1 .. Len(q) /\ \A i \in 1 .. Len(q) : q[i] \in S
OBVIOUS

\* A leaf in line has a reference for every value read.
LEMMA RefOfValue ==
  ASSUME Types, NEW w \in Worker, work[w].step \in BusySteps, InLine(w)
  PROVE  \A i \in DOMAIN work[w].got : RefsOf[work[w].leaf][i] \in Ref
<1> DEFINE refs == RefsOf[work[w].leaf] got == work[w].got rest == work[w].rest
<1>1. refs \in Seq(Ref) /\ got \in Seq(Secret) /\ rest \in Seq(Ref)
  BY HandTyped
<1>2. Len(got) + Len(rest) = Len(refs)
  BY DEF InLine
<1> SUFFICES \A i \in DOMAIN got : refs[i] \in Ref
  OBVIOUS
<1> HIDE DEF refs, got, rest
<1>3. Len(got) <= Len(refs) /\ DOMAIN got = 1 .. Len(got) /\ Len(got) \in Nat /\ Len(refs) \in Nat
  BY <1>1, <1>2, InRange
<1> QED
  BY <1>1, <1>3, InRange

\* What a worker has read of its leaf stays in line with the session, and a
\* read that ends adds the value of the next reference.
LEMMA InLineEnds ==
  ASSUME Types, Employed, RootCauses, OneOwner, NEW w \in Worker, Step(w), InLine(w),
         NEW v \in Secret, Ends(w, v, "none")
  PROVE  InLine(w)'
<1> DEFINE refs == RefsOf[work[w].leaf] got == work[w].got rest == work[w].rest
<1>1. /\ work[w].step \in BusySteps /\ rest \in Seq(Ref) /\ rest # <<>> /\ got \in Seq(Secret)
      /\ refs \in Seq(Ref) /\ OpOf[w] \in Op /\ Ref1(w) \in Ref
  BY HandTyped DEF Ends, Types, WorkType, Shape
<1>2. /\ work'[w].leaf = work[w].leaf /\ work'[w].rest = Tail(rest)
      /\ work'[w].got = Append(got, v)
  BY EndedRecord DEF Ends, Errors
<1>3. /\ Tail(rest) \in Seq(Ref) /\ Len(Tail(rest)) = Len(rest) - 1 /\ Len(rest) > 0
      /\ Ref1(w) = rest[1] /\ \A i \in DOMAIN Tail(rest) : Tail(rest)[i] = rest[i + 1]
  BY <1>1, HeadInSet DEF Ref1
<1>4. /\ Append(got, v) \in Seq(Secret) /\ Len(Append(got, v)) = Len(got) + 1
      /\ Append(got, v)[Len(got) + 1] = v
      /\ \A i \in 1 .. Len(got) : Append(got, v)[i] = got[i]
  BY <1>1, AppendProperties
<1>5. WillAgree(OpOf[w], Ref1(w), v)
  <2>1. CASE work[w].step \in OwnerSteps
    BY <1>1, <2>1 DEF Ends, EntryBecomes, WillAgree
  <2>2. CASE work[w].step \notin OwnerSteps
    BY <1>1, <2>2, AgreesStays DEF Ends
  <2> QED
    BY <2>1, <2>2
<1>6. /\ Len(got) + Len(rest) = Len(refs)
      /\ \A i \in DOMAIN rest : rest[i] = refs[Len(got) + i]
      /\ \A i \in DOMAIN got : Agrees(OpOf[w], refs[i], got[i])
  BY DEF InLine
<1>7. /\ Len(got) \in Nat /\ Len(rest) \in Nat /\ DOMAIN got = 1 .. Len(got)
      /\ DOMAIN rest = 1 .. Len(rest) /\ DOMAIN refs = 1 .. Len(refs)
      /\ DOMAIN Append(got, v) = 1 .. Len(got) + 1
      /\ DOMAIN Tail(rest) = 1 .. Len(rest) - 1
  BY <1>1, <1>3, <1>4
<1>8. \A i \in 1 .. Len(got) : refs[i] \in Ref /\ WillAgree(OpOf[w], refs[i], got[i])
  <2>1. \A i \in 1 .. Len(got) : refs[i] \in Ref
    BY <1>1, <1>7, RefOfValue
  <2> QED
    BY <1>1, <1>6, <1>7, <2>1, AgreesStays
<1>9. refs[Len(got) + 1] = Ref1(w)
  BY <1>3, <1>6, <1>7
<1> DEFINE t == Tail(rest)  a == Append(got, v)
<1>10. \A i \in 1 .. Len(got) + 1 : WillAgree(OpOf[w], refs[i], a[i])
  <2> SUFFICES ASSUME NEW i \in 1 .. Len(got) + 1 PROVE WillAgree(OpOf[w], refs[i], a[i])
    OBVIOUS
  <2>1. CASE i \in 1 .. Len(got)
    <3>1. a[i] = got[i]
      BY <1>4, <2>1
    <3> QED
      BY <1>8, <2>1, <3>1
  <2>2. CASE i = Len(got) + 1
    <3>1. a[i] = v /\ refs[i] = Ref1(w)
      BY <1>4, <1>9, <2>2
    <3> QED
      BY <1>5, <3>1
  <2> QED
    BY <1>7, <2>1, <2>2
<1>11. \A i \in DOMAIN t : t[i] = refs[Len(a) + i]
  <2> SUFFICES ASSUME NEW i \in DOMAIN t PROVE t[i] = refs[Len(a) + i]
    OBVIOUS
  <2>1. i \in 1 .. Len(rest) - 1 /\ t[i] = rest[i + 1] /\ Len(a) = Len(got) + 1
    BY <1>3, <1>4, <1>7
  <2> DEFINE n == Len(got)  k == Len(rest)
  <2>2. n \in Nat /\ k \in Nat /\ i \in 1 .. k - 1 /\ Len(a) = n + 1
        /\ \A j \in 1 .. k : rest[j] = refs[n + j]
    BY <1>6, <1>7, <2>1
  <2> HIDE DEF n, k, a, refs, rest, got
  <2>3. i + 1 \in 1 .. k /\ n + (i + 1) = Len(a) + i
    BY <2>2
  <2>4. rest[i + 1] = refs[n + (i + 1)]
    BY <2>2, <2>3
  <2> QED
    BY <2>1, <2>3, <2>4
<1>12. Len(a) + Len(t) = Len(refs) /\ DOMAIN a = 1 .. Len(got) + 1
  <2> DEFINE n == Len(got)  k == Len(rest)
  <2>1. n \in Nat /\ k \in Nat /\ Len(a) = n + 1 /\ Len(t) = k - 1 /\ n + k = Len(refs)
    BY <1>3, <1>4, <1>6, <1>7
  <2>2. DOMAIN a = 1 .. Len(got) + 1
    BY <1>7
  <2> HIDE DEF n, k, a, t, refs
  <2>3. Len(a) + Len(t) = Len(refs)
    BY <2>1
  <2> QED
    BY <2>2, <2>3
<1> HIDE DEF t, a
<1> QED
  BY <1>2, <1>10, <1>11, <1>12 DEF InLine, Agrees, WillAgree, t, a

\* A leaf in hand that a step does not advance stays in line.
LEMMA InLineStays ==
  ASSUME Types, Employed, RootCauses, OneOwner, NEW w \in Worker, Step(w),
         NEW v \in Worker, work[v].step \in BusySteps, InLine(v), UNCHANGED Hand(v)
  PROVE  InLine(v)'
<1> DEFINE refs == RefsOf[work[v].leaf] got == work[v].got rest == work[v].rest
<1>1. refs \in Seq(Ref) /\ got \in Seq(Secret) /\ rest \in Seq(Ref) /\ OpOf[v] \in Op
  BY HandTyped
<1>2. \A i \in DOMAIN got : refs[i] \in Ref
  BY RefOfValue
<1>3. \A i \in DOMAIN got : WillAgree(OpOf[v], refs[i], got[i])
  BY <1>1, <1>2, AgreesStays DEF InLine
<1> QED
  BY <1>3 DEF Hand, InLine, Agrees, WillAgree

\* One turn: a leaf that is taken has all its references left.
LEMMA AlignedTurn ==
  ASSUME Types, Employed, RootCauses, OneOwner, Aligned, NEW w \in Worker, Step(w)
  PROVE  Aligned'
<1>1. ASSUME NEW v \in Worker \ {w}, work'[v].step \in BusySteps PROVE InLine(v)'
  BY <1>1, WorkerAlone, InLineStays DEF Aligned, Hand
<1>2. ASSUME work'[w].step \in BusySteps PROVE InLine(w)'
  <2>1. CASE Exits(w) \/ Keeps(w) \/ Fails(w)
    BY <1>2, <2>1 DEF Exits, Keeps, Fails, BusySteps
  <2>2. CASE Takes(w)
    <3> DEFINE l == Head(op[OpOf[w]].queue)
    <3>1. op[OpOf[w]].queue \in Seq(Leaf) /\ op[OpOf[w]].queue # <<>>
      BY <2>2, SessionConstants DEF Takes, Types, OpType, OpRecord
    <3>2. l \in Leaf /\ RefsOf[l] \in Seq(Ref)
      BY <3>1, HeadInSet, SessionConstants
    <3> HIDE DEF l
    <3>3. work'[w].leaf = l /\ work'[w].rest = RefsOf[l] /\ work'[w].got = <<>>
      BY <2>2 DEF Takes, Hand, l
    <3> QED
      BY <3>2, <3>3 DEF InLine
  <2>3. CASE Carries(w)
    BY <2>3, InLineStays DEF Carries, Aligned, Hand
  <2>4. ASSUME NEW v \in Secret, NEW x \in Errors, Ends(w, v, x) PROVE InLine(w)'
    <3>1. x = "none" /\ work[w].step \in BusySteps
      BY <1>2, <2>4, EndedRecord DEF Ends, BusySteps
    <3> QED
      BY <2>4, <3>1, InLineEnds DEF Aligned
  <2> QED
    BY <2>1, <2>2, <2>3, <2>4, Turns
<1> QED
  BY <1>1, <1>2 DEF Aligned

\* What every worker has read of its leaf is in line with the session.
LEMMA AlignedStep ==
  Types /\ Employed /\ RootCauses /\ OneOwner /\ Aligned /\ [Next]_vars => Aligned'
<1> SUFFICES ASSUME Types, Employed, RootCauses, OneOwner, Aligned, [Next]_vars PROVE Aligned'
  OBVIOUS
<1>1. ASSUME NEW o \in Op, NEW refresh \in BOOLEAN, Start(o, refresh) PROVE Aligned'
  <2>1. /\ \A w \in Worker : work'[w] = IF w \in Workers(o) THEN IdleWork ELSE work[w]
        /\ UNCHANGED <<session, backend>>
    BY <1>1 DEF Start
  <2>2. \A w \in Worker : work'[w].step \in BusySteps => work'[w] = work[w]
    BY <2>1, IdleTyped DEF BusySteps
  <2>3. ASSUME NEW w \in Worker, work'[w].step \in BusySteps PROVE InLine(w)'
    <3>1. InLine(w) /\ work'[w] = work[w]
      BY <2>2, <2>3 DEF Aligned
    <3> QED
      BY <2>1, <3>1 DEF InLine, Agrees
  <2> QED
    BY <2>3 DEF Aligned
<1>2. ASSUME NEW w \in Worker, Step(w) PROVE Aligned'
  BY <1>2, AlignedTurn
<1>3. ASSUME NEW o \in Op, Finish(o) PROVE Aligned'
  <2>1. /\ \A w \in Worker : work[w].step # "exited" => OpOf[w] # o
        /\ UNCHANGED <<work, backend>>
    BY <1>3 DEF Finish, Employed, Workers
  <2>2. \A p \in Op \ {o} : session'[p] = session[p]
    BY <1>3 DEF Finish, Types, OpType
  <2>3. ASSUME NEW w \in Worker, work'[w].step \in BusySteps PROVE InLine(w)'
    <3>1. InLine(w) /\ work'[w] = work[w] /\ session'[OpOf[w]] = session[OpOf[w]]
      BY <2>1, <2>2, <2>3, SessionConstants DEF Aligned, BusySteps
    <3> QED
      BY <2>1, <3>1 DEF InLine, Agrees
  <2> QED
    BY <2>3 DEF Aligned
<1>4. CASE UNCHANGED <<work, session, backend>>
  BY <1>4 DEF Aligned, InLine, Agrees
<1> QED
  BY <1>1, <1>2, <1>3, <1>4 DEF Next, CloseConfig, CloseStep, CloseCollect, CloseResource,
     CloseReturns, CloseResolver, Environment, Cancel, mine, vars

\* No operation runs at first.
LEMMA NoLeafDroppedInit == Init => NoLeafDropped
BY DEF Init, IdleOp, NoLeafDropped

\* The values of a running operation, typed.
LEMMA ValuesTyped ==
  ASSUME Types, NEW o \in Op, op[o].status = "run"
  PROVE  /\ DOMAIN op[o].values = Leaves(o) /\ Leaves(o) \subseteq Leaf
         /\ op[o].queue \in Seq(Leaves(o))
         /\ \A l \in Leaves(o) : op[o].values[l] \in Seq(Secret) /\ RefsOf[l] \in Seq(Ref)
<1>1. DOMAIN op[o].values = Leaves(o) /\ op[o].queue \in Seq(Leaves(o))
  BY DEF Types, OpType, OpShape
<1>2. op[o].values \in Values
  BY DEF Types, OpType, OpRecord
<1>3. PICK L \in SUBSET Leaf : op[o].values \in [L -> Seq(Secret)]
  BY <1>2 DEF Values
<1>4. Leaves(o) \subseteq Leaf
  BY LeavesTyped
<1> QED
  BY <1>1, <1>3, <1>4, SessionConstants

\* The values already stored keep agreeing with the session.
LEMMA ValuesStay ==
  ASSUME Types, Employed, RootCauses, OneOwner, NEW w \in Worker, Step(w),
         NEW o \in Op, op[o].status = "run", ValuesAgree(o), NEW l \in Leaves(o),
         NEW i \in DOMAIN op[o].values[l]
  PROVE  i \in DOMAIN RefsOf[l] /\ WillAgree(o, RefsOf[l][i], op[o].values[l][i])
<1>1. i \in DOMAIN RefsOf[l] /\ RefsOf[l] \in Seq(Ref)
  BY ValuesTyped DEF ValuesAgree
<1>2. RefsOf[l][i] \in Ref
  BY <1>1, InRange
<1> QED
  BY <1>1, <1>2, AgreesStays DEF ValuesAgree

\* An operation is attended as before when its record stays, and every leaf
\* somebody had is still in somebody's hands.
LEMMA AttendedStays ==
  ASSUME Types, Employed, RootCauses, OneOwner, NEW w \in Worker, Step(w),
         NEW o \in Op, op[o].status = "run", Attended(o), op'[o] = op[o],
         \A v \in Worker, l \in Leaves(o) : Has(v, o, l) => Has(v, o, l)',
         \A v \in Workers(o) : work'[v].step = "exited" =>
           work[v].step = "exited" \/ Done(o) \/ op[o].queue = <<>>
  PROVE  Attended(o)'
<1>1. UNCHANGED <<pool, Workers(o), Leaves(o)>> /\ Done(o)' = Done(o)
  BY WorkerAlone DEF Workers, Leaves, Done
<1>2. ValuesAgree(o)'
  BY <1>1, ValuesStay DEF Attended, ValuesAgree, Agrees, WillAgree
<1>3. \A l : Resolved(o, l)' = Resolved(o, l) /\ Queued(o, l)' = Queued(o, l)
  BY DEF Resolved, Queued
<1>4. AllLeaves(o) => AllLeaves(o)'
  BY <1>1, <1>3 DEF AllLeaves, Pending
<1>5. LeftNothing(o)'
  BY <1>1 DEF Attended, LeftNothing
<1> QED
  BY <1>1, <1>2, <1>4, <1>5 DEF Attended

\* The leaf at the head of the queue goes to the worker that takes it.
LEMMA AttendedTakes ==
  ASSUME Types, Employed, RootCauses, OneOwner, NEW w \in Worker, Step(w), Takes(w),
         Attended(OpOf[w])
  PROVE  Attended(OpOf[w])'
<1> DEFINE o == OpOf[w]  q == op[o].queue
<1>0. o \in Op /\ op[o].status = "run"
  BY SessionConstants, WorkerAlone
<1>1. UNCHANGED <<pool, Workers(o), Leaves(o)>> /\ Done(o)' = Done(o)
  BY WorkerAlone DEF Workers, Leaves, Done, Takes
<1>2. op'[o].values = op[o].values /\ op'[o].queue = Tail(q) /\ q # <<>>
  BY DEF Takes
<1>3. ValuesAgree(o)'
  BY <1>0, <1>1, <1>2, ValuesStay DEF Attended, ValuesAgree, Agrees, WillAgree
<1>4. LeftNothing(o)'
  BY <1>1, <1>2, WorkerAlone DEF Attended, LeftNothing, Takes, Types, WorkType, Workers
<1>5. ASSUME NEW l \in Leaves(o), Queued(o, l) PROVE Pending(o, l)'
  <2>1. q \in Seq(Leaves(o))
    BY <1>0, ValuesTyped
  <2>2. PICK i \in DOMAIN q : q[i] = l
    BY <1>5 DEF Queued
  <2>3. CASE i = 1
    <3>1. work'[w].leaf = l /\ work'[w].step = "next"
      BY <1>2, <2>1, <2>2, <2>3, HeadInSet DEF Takes, Hand
    <3> QED
      BY <3>1 DEF Pending, Has, BusySteps
  <2>4. CASE i # 1
    <3> DEFINE t == Tail(q)
    <3>1. t \in Seq(Leaves(o)) /\ Len(t) = Len(q) - 1 /\ \A j \in DOMAIN t : t[j] = q[j + 1]
      BY <1>2, <2>1, HeadInSet
    <3> HIDE DEF t, q
    <3>2. i - 1 \in DOMAIN t /\ (i - 1) + 1 = i
      BY <2>1, <2>2, <2>4, <3>1, InRange
    <3>3. t[i - 1] = l
      BY <2>2, <3>1, <3>2
    <3>4. \E j \in DOMAIN op'[o].queue : op'[o].queue[j] = l
      BY <1>2, <3>2, <3>3 DEF t
    <3> QED
      BY <3>4 DEF Pending, Queued
  <2> QED
    BY <2>3, <2>4
<1>6. ASSUME NEW l \in Leaves(o), NEW v \in Worker, Has(v, o, l) PROVE Pending(o, l)'
  <2>1. v # w
    BY <1>6 DEF Has, Takes, BusySteps
  <2>2. Has(v, o, l)'
    BY <1>6, <2>1, WorkerAlone DEF Has
  <2> QED
    BY <2>2 DEF Pending
<1>7. AllLeaves(o) => AllLeaves(o)'
  BY <1>1, <1>2, <1>5, <1>6 DEF AllLeaves, Pending, Resolved
<1> QED
  BY <1>1, <1>3, <1>4, <1>7 DEF Attended

\* A leaf that is stored is resolved, with the values of its references.
LEMMA AttendedKeeps ==
  ASSUME Types, Employed, RootCauses, OneOwner, Aligned, NEW w \in Worker, Step(w), Keeps(w),
         Attended(OpOf[w])
  PROVE  Attended(OpOf[w])'
<1> DEFINE o == OpOf[w]  m == work[w].leaf  got == work[w].got
<1>0. o \in Op /\ op[o].status = "run" /\ work[w].step \in BusySteps /\ m \in Leaves(o)
  BY SessionConstants, WorkerAlone DEF Keeps, BusySteps, Types, WorkType, Shape
<1>1. UNCHANGED <<pool, Workers(o), Leaves(o), session, backend>> /\ Done(o)' = Done(o)
  BY WorkerAlone DEF Workers, Leaves, Done, Keeps
<1>2. /\ op'[o].queue = op[o].queue
      /\ \A l \in Leaves(o) : op'[o].values[l] = IF l = m THEN got ELSE op[o].values[l]
  <2>1. op'[o].values = [op[o].values EXCEPT ![m] = got]
    BY DEF Keeps
  <2>2. op[o].values \in [Leaves(o) -> Seq(Secret)]
    <3>1. op[o].values \in Values /\ DOMAIN op[o].values = Leaves(o)
      BY <1>0, ValuesTyped DEF Types, OpType, OpRecord
    <3> QED
      BY <3>1 DEF Values
  <2> QED
    BY <2>1, <2>2 DEF Keeps
<1>3. Len(got) = Len(RefsOf[m]) /\ DOMAIN got = DOMAIN RefsOf[m]
      /\ \A i \in DOMAIN got : Agrees(o, RefsOf[m][i], got[i])
  <2>1. got \in Seq(Secret) /\ RefsOf[m] \in Seq(Ref) /\ work[w].rest = <<>>
    BY <1>0, HandTyped DEF Keeps
  <2>2. /\ Len(got) + Len(work[w].rest) = Len(RefsOf[m])
        /\ \A i \in DOMAIN got : Agrees(o, RefsOf[m][i], got[i])
    BY <1>0 DEF Aligned, InLine
  <2>3. Len(got) = Len(RefsOf[m])
    BY <2>1, <2>2, InRange
  <2> QED
    BY <2>1, <2>2, <2>3, InRange
<1>4. ValuesAgree(o)'
  <2> SUFFICES ASSUME NEW l \in Leaves(o), NEW i \in DOMAIN op'[o].values[l]
               PROVE  i \in DOMAIN RefsOf[l] /\ WillAgree(o, RefsOf[l][i], op'[o].values[l][i])
    BY <1>1 DEF ValuesAgree, Agrees, WillAgree
  <2>1. CASE l = m
    BY <1>1, <1>2, <1>3, <2>1 DEF Agrees, WillAgree
  <2>2. CASE l # m
    BY <1>0, <1>2, <2>2, ValuesStay DEF Attended
  <2> QED
    BY <2>1, <2>2
<1>5. LeftNothing(o)'
  BY <1>1, <1>2, WorkerAlone DEF Attended, LeftNothing, Keeps, Types, WorkType, Workers
<1>6. ASSUME NEW l \in Leaves(o), l # m, Resolved(o, l) PROVE Resolved(o, l)'
  BY <1>2, <1>6 DEF Resolved
<1>7. ASSUME NEW l \in Leaves(o), l = m PROVE Resolved(o, l)'
  BY <1>0, <1>2, <1>3, <1>7 DEF Resolved
<1>8. ASSUME NEW l \in Leaves(o), l # m, Pending(o, l) PROVE Pending(o, l)'
  <2>1. Queued(o, l) => Queued(o, l)'
    BY <1>2 DEF Queued
  <2>2. ASSUME NEW v \in Worker, Has(v, o, l) PROVE Has(v, o, l)'
    <3>1. v # w
      BY <1>8, <2>2 DEF Has, Keeps
    <3> QED
      BY <2>2, <3>1, WorkerAlone DEF Has
  <2> QED
    BY <1>8, <2>1, <2>2 DEF Pending
<1>9. AllLeaves(o) => AllLeaves(o)'
  BY <1>1, <1>6, <1>7, <1>8 DEF AllLeaves
<1> QED
  BY <1>1, <1>4, <1>5, <1>9 DEF Attended

\* One turn of a worker.
LEMMA NoLeafDroppedTurn ==
  ASSUME Types, Employed, RootCauses, OneOwner, Aligned, NoLeafDropped,
         NEW w \in Worker, Step(w)
  PROVE  NoLeafDropped'
<1> SUFFICES ASSUME NEW o \in Op, op'[o].status = "run" PROVE Attended(o)'
  BY DEF NoLeafDropped
<1>0. op[o].status = "run" /\ Attended(o)
  BY WorkerAlone DEF NoLeafDropped
<1>1. \A v \in Worker \ {w} : work'[v] = work[v]
  BY WorkerAlone
<1>2. CASE o # OpOf[w]
  <2>1. op'[o] = op[o]
    BY <1>2, OpRestStays
  <2>2. \A v \in Worker : OpOf[v] = o => work'[v] = work[v]
    BY <1>1, <1>2
  <2>3. \A v \in Worker, l \in Leaves(o) : Has(v, o, l) => Has(v, o, l)'
    BY <2>2 DEF Has
  <2>4. \A v \in Workers(o) : work'[v].step = "exited" => work[v].step = "exited"
    BY <2>2 DEF Workers, Types, WorkType
  <2> QED
    BY <1>0, <2>1, <2>3, <2>4, AttendedStays
<1>3. CASE o = OpOf[w]
  <2>1. CASE Exits(w)
    <3>1. \A v \in Worker, l \in Leaves(o) : Has(v, o, l) => Has(v, o, l)'
      BY <1>1, <2>1 DEF Has, Exits, BusySteps
    <3>2. op'[o] = op[o] /\ \A v \in Workers(o) : work'[v].step = "exited" =>
            work[v].step = "exited" \/ Done(o) \/ op[o].queue = <<>>
      BY <1>1, <1>3, <2>1 DEF Exits, Workers, Types, WorkType
    <3> QED
      BY <1>0, <3>1, <3>2, AttendedStays
  <2>2. CASE Takes(w)
    BY <1>0, <1>3, <2>2, AttendedTakes
  <2>3. CASE Keeps(w)
    BY <1>0, <1>3, <2>3, AttendedKeeps
  <2>4. CASE Fails(w)
    <3>1. op'[o].values = op[o].values /\ Done(o)'
      BY <1>3, <2>4 DEF Fails, Done
    <3>2. UNCHANGED <<Workers(o), Leaves(o)>>
      BY WorkerAlone DEF Workers, Leaves
    <3>3. ValuesAgree(o)'
      BY <1>0, <3>1, <3>2, ValuesStay DEF Attended, ValuesAgree, Agrees, WillAgree
    <3> QED
      BY <1>0, <3>1, <3>2, <3>3 DEF Attended, LeftNothing
  <2>5. CASE Carries(w)
    <3>1. \A v \in Worker, l \in Leaves(o) : Has(v, o, l) => Has(v, o, l)'
      BY <1>1, <2>5 DEF Has, Carries, Hand, BusySteps
    <3>2. op'[o] = op[o] /\ \A v \in Workers(o) : work'[v].step = "exited" =>
            work[v].step = "exited"
      BY <1>1, <2>5 DEF Carries, Workers, Types, WorkType, BusySteps
    <3> QED
      BY <1>0, <3>1, <3>2, AttendedStays
  <2>6. ASSUME NEW v \in Secret, NEW x \in Errors, Ends(w, v, x) PROVE Attended(o)'
    <3>1. /\ work[w].step \in BusySteps
          /\ \/ work'[w].step = "next" /\ work'[w].leaf = work[w].leaf
             \/ work'[w].step = "failed"
      BY <2>6, EndedRecord DEF Ends
    <3>2. \A u \in Worker, l \in Leaves(o) : Has(u, o, l) => Has(u, o, l)'
      BY <1>1, <3>1 DEF Has, BusySteps
    <3>3. op'[o] = op[o] /\ \A u \in Workers(o) : work'[u].step = "exited" =>
            work[u].step = "exited"
      BY <1>1, <2>6, <3>1 DEF Ends, Workers, Types, WorkType
    <3> QED
      BY <1>0, <3>2, <3>3, AttendedStays
  <2> QED
    BY <2>1, <2>2, <2>3, <2>4, <2>5, <2>6, Turns
<1> QED
  BY <1>2, <1>3

\* A step elsewhere leaves an operation attended.
LEMMA AttendedElsewhere ==
  ASSUME NEW p \in Op, Attended(p), op'[p] = op[p], session'[p] = session[p],
         UNCHANGED <<backend, pool>>, \A w \in Worker : OpOf[w] = p => work'[w] = work[w],
         pool \subseteq Worker
  PROVE  Attended(p)'
<1>1. /\ UNCHANGED <<Workers(p), Leaves(p)>> /\ Done(p)' = Done(p)
      /\ \A w \in Workers(p) : work'[w] = work[w]
  BY DEF Workers, Leaves, Done
<1>2. \A l : Pending(p, l)' = Pending(p, l) /\ Resolved(p, l)' = Resolved(p, l)
  BY DEF Pending, Queued, Has, Resolved
<1>3. ValuesAgree(p)' = ValuesAgree(p)
  BY <1>1 DEF ValuesAgree, Agrees
<1> QED
  BY <1>1, <1>2, <1>3 DEF Attended, LeftNothing, AllLeaves

\* An operation that starts has every leaf queued.
LEMMA AttendedStart ==
  ASSUME Types, NEW o \in Op, NEW refresh \in BOOLEAN, Start(o, refresh)
  PROVE  Attended(o)'
<1>1. /\ \A w \in Worker : work'[w] = IF w \in Workers(o) THEN IdleWork ELSE work[w]
      /\ UNCHANGED <<session, backend, pool>> /\ Workers(o) # {} /\ pool \subseteq Worker
  BY DEF Start, Types, WorkType
<1>2. /\ op'[o].queue = LeafOrder[o] /\ op'[o].values = [l \in Leaves(o) |-> <<>>]
  BY DEF Start, Types, OpType, OpRecord
<1>3. UNCHANGED <<Workers(o), Leaves(o)>>
  BY <1>1 DEF Workers, Leaves
<1>4. ValuesAgree(o)'
  BY <1>2, <1>3 DEF ValuesAgree
<1>5. LeftNothing(o)'
  BY <1>1, <1>3, IdleTyped DEF LeftNothing, Workers
<1>6. AllLeaves(o)'
  BY <1>2, <1>3 DEF AllLeaves, Pending, Queued, Leaves
<1> QED
  BY <1>1, <1>3, <1>4, <1>5, <1>6 DEF Attended

\* No step loses a leaf of a running operation.
LEMMA NoLeafDroppedStep ==
  /\ Types /\ Employed /\ RootCauses /\ OneOwner /\ Aligned /\ NoLeafDropped
  /\ [Next]_vars
  => NoLeafDropped'
<1> SUFFICES ASSUME Types, Employed, RootCauses, OneOwner, Aligned, NoLeafDropped, [Next]_vars
             PROVE  NoLeafDropped'
  OBVIOUS
<1>0. pool \subseteq Worker
  BY DEF Types, WorkType
<1>1. ASSUME NEW o \in Op, NEW refresh \in BOOLEAN, Start(o, refresh) PROVE NoLeafDropped'
  <2> SUFFICES ASSUME NEW p \in Op, p # o, op'[p].status = "run" PROVE Attended(p)'
    BY <1>1, AttendedStart DEF NoLeafDropped
  <2>1. op'[p] = op[p] /\ UNCHANGED <<session, backend, pool>>
    BY <1>1 DEF Start, Types, OpType
  <2>2. \A w \in Worker : OpOf[w] = p => work'[w] = work[w]
    BY <1>1 DEF Start, Workers
  <2> QED
    BY <1>0, <2>1, <2>2, AttendedElsewhere DEF NoLeafDropped
<1>2. ASSUME NEW w \in Worker, Step(w) PROVE NoLeafDropped'
  BY <1>2, NoLeafDroppedTurn
<1>3. ASSUME NEW o \in Op, Finish(o) PROVE NoLeafDropped'
  <2> SUFFICES ASSUME NEW p \in Op, op'[p].status = "run" PROVE Attended(p)'
    BY DEF NoLeafDropped
  <2>1. op'[o].status # "run"
    BY <1>3 DEF Finish, Outcome, IdleOp, Types, OpType
  <2>2. op'[p] = op[p] /\ session'[p] = session[p] /\ UNCHANGED <<backend, pool, work>>
    BY <1>3, <2>1 DEF Finish, Types, OpType
  <2> QED
    BY <1>0, <2>2, AttendedElsewhere DEF NoLeafDropped
<1>4. ASSUME NEW o \in Op, Cancel(o) PROVE NoLeafDropped'
  <2> SUFFICES ASSUME NEW p \in Op, op'[p].status = "run" PROVE Attended(p)'
    BY DEF NoLeafDropped
  <2>1. UNCHANGED <<session, backend, pool, work>>
    BY <1>4 DEF Cancel
  <2>2. CASE p # o
    <3>1. op'[p] = op[p]
      BY <1>4, <2>2 DEF Cancel, Types, OpType
    <3> QED
      BY <1>0, <2>1, <3>1, AttendedElsewhere DEF NoLeafDropped
  <2>3. CASE p = o
    <3>1. op'[o].values = op[o].values /\ op'[o].cause # "none" /\ op[o].status = "run"
      BY <1>4 DEF Cancel, Cause, FirstCause, Types, OpType, OpRecord
    <3>2. UNCHANGED <<Workers(o), Leaves(o)>> /\ ValuesAgree(o)' = ValuesAgree(o) /\ Done(o)'
      BY <2>1, <3>1 DEF Workers, Leaves, ValuesAgree, Agrees, Done
    <3> QED
      BY <2>3, <3>1, <3>2 DEF NoLeafDropped, Attended, LeftNothing
  <2> QED
    BY <2>2, <2>3
<1>5. CASE UNCHANGED <<op, session, backend, pool, work>>
  BY <1>0, <1>5, AttendedElsewhere DEF NoLeafDropped
<1>6. CASE Environment
  BY <1>4, <1>5, <1>6, SessionConstants DEF Environment, mine
<1> QED
  BY <1>1, <1>2, <1>3, <1>5, <1>6 DEF Next, CloseConfig, CloseStep, CloseCollect, CloseResource,
     CloseReturns, CloseResolver, mine, vars

-----------------------------------------------------------------------------
(* Whom a worker or a closer waits for: the lock of a spec has a holder at  *)
(* the factory, a read that others wait for has an owner, and Config.Close  *)
(* is where the closers of the resolver say it is.                         *)

FactorySteps == {"create", "collect"}
SpecType == spec \in [Provider -> [lock : Worker \cup {NoWorker}, store : Nat]]
HeldBy(p, w) == work[w].step \in FactorySteps /\ ProviderOf[Ref1(w)] = p
LocksHeld == SpecType /\ \A p \in Provider :
  spec[p].lock # NoWorker => HeldBy(p, spec[p].lock)

ReadsOwned ==
  /\ \A o \in Op, r \in Ref : session[o][r].state = "pending" => Owners(o, r) # {}
  /\ \A w \in Worker : work[w].step = "wait" => Entry1(w).state # "absent"

ClosersInPlace ==
  /\ cfgClose \in {"idle", "collect", "resolver", "stores", "done"}
  /\ cfgClose = "resolver" => backend = "resolver"
  /\ closer["config"] \notin {"idle", "returned"} => cfgClose = "resolver"
  /\ \A c \in Closer : closer[c] # "idle" => backend = "resolver"

\* At first no lock is held, nothing is read and nothing closes.
LEMMA WaitingInit == Init => LocksHeld /\ ReadsOwned /\ ClosersInPlace
<1> SUFFICES ASSUME Init PROVE LocksHeld /\ ReadsOwned /\ ClosersInPlace
  OBVIOUS
<1>1. LocksHeld
  BY DEF Init, LocksHeld, SpecType, NoStore
<1>2. ReadsOwned
  BY IdleTyped DEF Init, ReadsOwned, Absent
<1>3. ClosersInPlace
  BY SessionConstants DEF Init, ResolverInit, ClosersInPlace
<1> QED
  BY <1>1, <1>2, <1>3

\* The closers and Config.Close follow each other.
LEMMA ClosersStep ==
  Types /\ ClosersInPlace /\ [Next]_vars => ClosersInPlace'
<1> SUFFICES ASSUME Types, ClosersInPlace, [Next]_vars PROVE ClosersInPlace'
  OBVIOUS
<1> USE SessionConstants DEF ClosersInPlace
<1>1. CASE UNCHANGED <<closer, backend, cfgClose>>
  BY <1>1
<1>2. CASE CloseConfig
  BY <1>2 DEF CloseConfig, resolver
<1>3. CASE CloseCollect
  BY <1>3 DEF CloseCollect, resolver, Types, WorkType
<1>4. CASE CloseReturns
  BY <1>4 DEF CloseReturns, resolver
<1>5. ASSUME NEW c \in Closer, CloseResolver(c) PROVE ClosersInPlace'
  <2>1. \A d \in Closer \ {c} : closer'[d] = closer[d]
    BY <1>5 DEF CloseResolver, ResolverClose, CloseBegin, CloseCancel, CloseWait, CloseDrop,
       CloseStore, CloseJoin, Types, ResolverType
  <2>2. /\ UNCHANGED <<backend, cfgClose>> /\ backend = "resolver"
        /\ c = "config" => cfgClose = "resolver"
    BY <1>5 DEF CloseResolver, mine
  <2> QED
    BY <2>1, <2>2
<1>6. ASSUME NEW w \in Worker, Step(w) PROVE UNCHANGED <<closer, backend, cfgClose>>
  BY <1>6 DEF Step, TakeLeaf, StoreLeaf, LeafFailed, CallResolver, RunResolver, ResolverReturned,
     Lookup, Await, LockSpec, Create, Collect, ReadStore, resolver, Enter, ResolverCall,
     CheckCache, Fetch, CacheWrite, Leave
<1>7. CASE Environment
  BY <1>1, <1>7 DEF Environment, Rotate, Expire, Cancel, mine, resolver
<1> QED
  BY <1>1, <1>2, <1>3, <1>4, <1>5, <1>6, <1>7 DEF Next, CloseStep, Start, Finish, CloseResource,
     resolver, vars, mine

\* A turn of a worker leaves every pending read with its owner: who stops owning
\* one has settled it.
LEMMA ReadsOwnedTurn ==
  ASSUME Types, Employed, RootCauses, OneOwner, ReadsOwned, NEW w \in Worker, Step(w)
  PROVE  ReadsOwned'
<1> DEFINE o == OpOf[w]
<1>0. /\ \A v \in Worker \ {w} : work'[v] = work[v] /\ (Ref1(v))' = Ref1(v)
      /\ \A p \in Op, r \in Ref : \A v \in Owners(p, r) \ {w} : v \in Owners(p, r)'
  BY WorkerAlone DEF Ref1, Owners
<1>1. ASSUME UNCHANGED session, work'[w].step # "wait",
             \A p \in Op, r \in Ref : w \in Owners(p, r) => w \in Owners(p, r)'
      PROVE  ReadsOwned'
  <2>1. \A p \in Op, r \in Ref : session'[p][r].state = "pending" => Owners(p, r)' # {}
    BY <1>0, <1>1 DEF ReadsOwned
  <2>2. \A v \in Worker : work'[v].step = "wait" => (Entry1(v).state # "absent")'
    BY <1>0, <1>1 DEF ReadsOwned, Entry1
  <2> QED
    BY <2>1, <2>2 DEF ReadsOwned
<1>2. CASE Exits(w) \/ Takes(w) \/ Keeps(w) \/ Fails(w)
  BY <1>1, <1>2 DEF Exits, Takes, Keeps, Fails, OwnerSteps, Owners
<1>3. CASE Carries(w)
  <2>1. (Ref1(w))' = Ref1(w)
    BY <1>3 DEF Carries, Hand, Ref1
  <2>2. CASE (work'[w].step \in OwnerSteps <=> work[w].step \in OwnerSteps) /\ UNCHANGED session
    <3>1. \A p \in Op, r \in Ref : w \in Owners(p, r) => w \in Owners(p, r)'
      BY <2>1, <2>2 DEF Owners
    <3>2. \A p \in Op, r \in Ref : session'[p][r].state = "pending" => Owners(p, r)' # {}
      BY <1>0, <2>2, <3>1 DEF ReadsOwned
    <3>3. \A v \in Worker : work'[v].step = "wait" => (Entry1(v).state # "absent")'
      BY <1>0, <1>3, <2>1, <2>2 DEF ReadsOwned, Entry1, Carries
    <3> QED
      BY <3>2, <3>3 DEF ReadsOwned
  <2>3. CASE /\ Entry1(w).state = "absent" /\ Ref1(w) \in Ref
             /\ work[w].step \notin OwnerSteps /\ work'[w].step = "route"
             /\ EntryBecomes(w, [Entry1(w) EXCEPT !.state = "pending"])
    <3>1. \A r \in Ref : r = Ref1(w) => w \in Owners(o, r)'
      BY <2>1, <2>3 DEF Owners, OwnerSteps
    <3>2. \A p \in Op, r \in Ref : session'[p][r].state = "pending" => Owners(p, r)' # {}
      <4> SUFFICES ASSUME NEW p \in Op, NEW r \in Ref, session'[p][r].state = "pending",
                          ~(p = o /\ r = Ref1(w))
                   PROVE  Owners(p, r)' # {}
        BY <3>1
      <4>1. session[p][r].state = "pending" /\ w \notin Owners(p, r)
        BY <2>3 DEF EntryBecomes, Owners
      <4> QED
        BY <1>0, <4>1 DEF ReadsOwned
    <3>3. ASSUME NEW v \in Worker, work'[v].step = "wait" PROVE (Entry1(v).state # "absent")'
      <4>1. v # w /\ work[v].step = "wait" /\ (Ref1(v))' = Ref1(v)
        BY <1>0, <2>3, <3>3
      <4>2. Ref1(v) \in Ref /\ OpOf[v] \in Op
        BY <4>1, ReferenceKnown, SessionConstants DEF Types, WorkType, Shape, BusySteps
      <4>3. Entry1(v).state # "absent"
        BY <4>1 DEF ReadsOwned
      <4>4. session'[OpOf[v]][Ref1(v)] = session[OpOf[v]][Ref1(v)]
        BY <2>3, <4>2, <4>3 DEF EntryBecomes, Entry1
      <4> QED
        BY <4>1, <4>3, <4>4 DEF Entry1
    <3> QED
      BY <3>2, <3>3 DEF ReadsOwned
  <2> QED
    BY <1>3, <2>2, <2>3 DEF Carries
<1>4. ASSUME NEW x \in Secret, NEW e \in Errors, Ends(w, x, e) PROVE ReadsOwned'
  <2>1. work'[w].step \in {"next", "failed"}
    BY <1>4, EndedRecord DEF Ends
  <2>2. CASE work[w].step \notin OwnerSteps /\ UNCHANGED session
    BY <1>1, <2>1, <2>2 DEF Owners
  <2>3. CASE /\ work[w].step \in OwnerSteps
             /\ EntryBecomes(w, [state |-> "done", val |-> x, err |-> e])
    <3>1. \A p \in Op, r \in Ref : session'[p][r].state = "pending" => Owners(p, r)' # {}
      <4> SUFFICES ASSUME NEW p \in Op, NEW r \in Ref, session'[p][r].state = "pending"
                   PROVE  Owners(p, r)' # {}
        OBVIOUS
      <4>1. session[p][r].state = "pending" /\ ~(p = o /\ r = Ref1(w))
        BY <2>3 DEF EntryBecomes
      <4>2. w \notin Owners(p, r)
        BY <4>1 DEF Owners
      <4> QED
        BY <1>0, <4>1, <4>2 DEF ReadsOwned
    <3>2. ASSUME NEW v \in Worker, work'[v].step = "wait" PROVE (Entry1(v).state # "absent")'
      <4>1. v # w /\ work[v].step = "wait" /\ (Ref1(v))' = Ref1(v)
        BY <1>0, <2>1, <3>2
      <4>2. Ref1(v) \in Ref /\ OpOf[v] \in Op
        BY <4>1, ReferenceKnown, SessionConstants DEF Types, WorkType, Shape, BusySteps
      <4>3. Entry1(v).state # "absent"
        BY <4>1 DEF ReadsOwned
      <4>4. session'[OpOf[v]][Ref1(v)].state # "absent"
        BY <2>3, <4>2, <4>3 DEF EntryBecomes, Entry1
      <4> QED
        BY <4>1, <4>4 DEF Entry1
    <3> QED
      BY <3>1, <3>2 DEF ReadsOwned
  <2> QED
    BY <1>4, <2>2, <2>3 DEF Ends
<1> QED
  BY <1>2, <1>3, <1>4, Turns

\* Between the operations: one that starts has nothing to wait for, one that ends
\* forgets its reads when its workers have left.
LEMMA ReadsOwnedStep ==
  Types /\ Employed /\ RootCauses /\ OneOwner /\ ReadsOwned /\ [Next]_vars => ReadsOwned'
<1> SUFFICES ASSUME Types, Employed, RootCauses, OneOwner, ReadsOwned, [Next]_vars
             PROVE  ReadsOwned'
  OBVIOUS
<1>1. ASSUME NEW o \in Op, NEW refresh \in BOOLEAN, Start(o, refresh) PROVE ReadsOwned'
  <2>1. \A w \in Worker : work[w].step # "exited" => work'[w] = work[w]
    <3>1. \A w \in Workers(o) : w \in Worker => work[w].step = "exited"
      BY <1>1 DEF Start, Workers, Employed
    <3> QED
      BY <1>1, <3>1 DEF Start
  <2>2. \A w \in Worker : work'[w].step \in OwnerSteps \cup {"wait"} => work'[w] = work[w]
    BY <1>1, IdleTyped DEF Start, OwnerSteps
  <2>3. UNCHANGED session
    BY <1>1 DEF Start
  <2>4. \A p \in Op, r \in Ref : Owners(p, r) \subseteq Owners(p, r)'
    BY <2>1 DEF Owners, OwnerSteps, Ref1
  <2>5. \A w \in Worker : work'[w].step = "wait" => (Entry1(w).state # "absent")'
    BY <2>2, <2>3 DEF ReadsOwned, Entry1, Ref1
  <2> QED
    BY <2>3, <2>4, <2>5 DEF ReadsOwned
<1>2. ASSUME NEW w \in Worker, Step(w) PROVE ReadsOwned'
  BY <1>2, ReadsOwnedTurn
<1>3. ASSUME NEW o \in Op, Finish(o) PROVE ReadsOwned'
  <2>1. /\ \A w \in Worker : work[w].step # "exited" => OpOf[w] # o
        /\ UNCHANGED work
    BY <1>3 DEF Finish, Employed, Workers
  <2>2. /\ \A p \in Op \ {o} : session'[p] = session[p]
        /\ \A r \in Ref : session'[o][r].state = "absent"
    BY <1>3 DEF Finish, Absent, Types, OpType
  <2>3. \A p \in Op, r \in Ref : Owners(p, r)' = Owners(p, r)
    BY <2>1 DEF Owners, Ref1
  <2>4. \A w \in Worker : work[w].step = "wait" => (Entry1(w))' = Entry1(w)
    BY <2>1, <2>2, SessionConstants DEF Entry1, Ref1
  <2> QED
    BY <2>1, <2>2, <2>3, <2>4 DEF ReadsOwned
<1>4. CASE UNCHANGED <<work, session>>
  BY <1>4 DEF ReadsOwned, Owners, Entry1, Ref1
<1> QED
  BY <1>1, <1>2, <1>3, <1>4 DEF Next, CloseConfig, CloseStep, CloseCollect, CloseResource,
     CloseReturns, CloseResolver, Environment, Cancel, mine, vars

\* The lock of a spec is held by a worker inside its factory, and by no other.
LEMMA LocksHeldTurn ==
  ASSUME Types, Employed, RootCauses, LocksHeld, NEW w \in Worker, Step(w)
  PROVE  LocksHeld'
<1> DEFINE p == ProviderOf[Ref1(w)]
<1>0. /\ work[w] \in WorkRecord /\ work \in [Worker -> WorkRecord]
      /\ spec \in [Provider -> [lock : Worker \cup {NoWorker}, store : Nat]]
  BY DEF Types, WorkType, LocksHeld, SpecType
<1>a. /\ \A v \in Worker \ {w} : work'[v] = work[v]
      /\ \A q, v : v \in Worker \ {w} /\ HeldBy(q, v) => HeldBy(q, v)'
  BY WorkerAlone DEF HeldBy, Ref1
<1>b. work[w].step \in OwnerSteps => p \in Provider
  BY OwnerKnown, SessionConstants
<1>1. CASE LockSpec(w)
  <2>1. ~(\E q \in Provider : spec[q].lock = w /\ w # NoWorker)
    BY <1>1 DEF LocksHeld, HeldBy, LockSpec, FactorySteps
  <2>2. p \in Provider
    BY <1>1, <1>b DEF LockSpec, OwnerSteps
  <2>3. CASE spec' = spec
    BY <1>0, <1>a, <2>1, <2>3 DEF LocksHeld, SpecType
  <2>4. CASE spec' # spec
    <3>1. spec' = [spec EXCEPT ![p].lock = w] /\ work' = [work EXCEPT ![w].step = "create"]
      BY <1>1, <2>4 DEF LockSpec
    <3>2. \A q \in Provider : q = p => HeldBy(q, w)'
      BY <1>0, <3>1 DEF HeldBy, FactorySteps, WorkRecord, Ref1
    <3>3. SpecType'
      BY <1>0, <3>1 DEF SpecType
    <3>4. \A q \in Provider : spec'[q].lock = IF q = p THEN w ELSE spec[q].lock
      BY <1>0, <2>2, <3>1
    <3> QED
      BY <1>0, <1>a, <2>1, <3>2, <3>3, <3>4 DEF LocksHeld
  <2> QED
    BY <2>3, <2>4
<1>2. ASSUME NEW n \in Nat, Create(w), UNCHANGED spec,
             work' = [work EXCEPT ![w].step = "collect", ![w].store = n]
      PROVE  LocksHeld'
  <2>1. \A q : HeldBy(q, w) => HeldBy(q, w)'
    BY <1>0, <1>2 DEF HeldBy, FactorySteps, WorkRecord, Ref1
  <2> QED
    BY <1>0, <1>a, <1>2, <2>1 DEF LocksHeld, SpecType
<1>3. ASSUME work[w].step \in FactorySteps, NEW s \in Nat,
             \/ spec' = [spec EXCEPT ![p].lock = NoWorker]
             \/ spec' = [spec EXCEPT ![p] = [lock |-> NoWorker, store |-> s]]
      PROVE  LocksHeld'
  <2>1. \A q \in Provider \ {p} : spec[q].lock = w => w = NoWorker
    BY DEF LocksHeld, HeldBy
  <2>2. \A q \in Provider : spec'[q].lock = IF q = p THEN NoWorker ELSE spec[q].lock
    BY <1>0, <1>3
  <2>3. SpecType'
    BY <1>0, <1>3 DEF SpecType
  <2> QED
    BY <1>0, <1>a, <2>1, <2>2, <2>3 DEF LocksHeld
<1>4. CASE Create(w)
  <2>1. Len(stores) + 1 \in Nat /\ work[w].step \in FactorySteps
    BY <1>4 DEF Create, FactorySteps, Types, OpType
  <2> DEFINE n == Len(stores) + 1
  <2>2. \/ UNCHANGED spec /\ work' = [work EXCEPT ![w].step = "collect", ![w].store = n]
        \/ spec' = [spec EXCEPT ![p].lock = NoWorker]
    BY <1>4 DEF Create
  <2> HIDE DEF n
  <2> QED
    BY <1>2, <1>3, <1>4, <2>1, <2>2 DEF n
<1>5. CASE Collect(w)
  <2>1. work[w].step \in FactorySteps /\ work[w].store \in Nat
    BY <1>0, <1>5 DEF Collect, FactorySteps, WorkRecord
  <2> QED
    BY <1>3, <1>5, <2>1 DEF Collect
<1>6. CASE ~LockSpec(w) /\ ~Create(w) /\ ~Collect(w)
  <2>1. UNCHANGED spec /\ work[w].step \notin FactorySteps
    BY <1>6 DEF Step, TakeLeaf, StoreLeaf, LeafFailed, CallResolver, RunResolver,
       ResolverReturned, Lookup, Await, ReadStore, ResolverCall, CheckCache, Fetch, CacheWrite,
       Leave, Employed, FactorySteps
  <2>2. \A q \in Provider : spec[q].lock = w => w = NoWorker
    BY <2>1 DEF LocksHeld, HeldBy
  <2> QED
    BY <1>0, <1>a, <2>1, <2>2 DEF LocksHeld, SpecType
<1> QED
  BY <1>1, <1>4, <1>5, <1>6

\* Between the turns no lock is taken or freed: an operation starts with workers
\* that hold none.
LEMMA LocksHeldStep ==
  Types /\ Employed /\ RootCauses /\ LocksHeld /\ [Next]_vars => LocksHeld'
<1> SUFFICES ASSUME Types, Employed, RootCauses, LocksHeld, [Next]_vars PROVE LocksHeld'
  OBVIOUS
<1>1. ASSUME UNCHANGED spec, \A w \in Worker : work[w].step # "exited" => work'[w] = work[w]
      PROVE  LocksHeld'
  <2>1. \A p, w : w \in Worker /\ HeldBy(p, w) => HeldBy(p, w)'
    BY <1>1 DEF HeldBy, FactorySteps, Ref1
  <2>2. \A p \in Provider : spec[p].lock # NoWorker => spec[p].lock \in Worker
    BY DEF LocksHeld, SpecType
  <2> QED
    BY <1>1, <2>1, <2>2 DEF LocksHeld, SpecType
<1>2. ASSUME NEW o \in Op, NEW refresh \in BOOLEAN, Start(o, refresh) PROVE LocksHeld'
  <2>1. \A w \in Workers(o) : w \in Worker => work[w].step = "exited"
    BY <1>2 DEF Start, Workers, Employed
  <2> QED
    BY <1>1, <1>2, <2>1 DEF Start
<1>3. ASSUME NEW w \in Worker, Step(w) PROVE LocksHeld'
  BY <1>3, LocksHeldTurn
<1>4. CASE UNCHANGED <<work, spec>>
  BY <1>1, <1>4
<1> QED
  BY <1>2, <1>3, <1>4 DEF Next, Finish, CloseConfig, CloseStep, CloseCollect, CloseResource,
     CloseReturns, CloseResolver, Environment, Cancel, mine, vars

-----------------------------------------------------------------------------
(* The invariant of the session, and what follows from it *)

SessionInv == /\ Types /\ Fresh /\ CloseOrder /\ Employed /\ RootCauses /\ StoresKept
              /\ OneOwner /\ Aligned /\ NoLeafDropped
              /\ LocksHeld /\ ReadsOwned /\ ClosersInPlace

\* Every state of the session and of the resolver satisfies the invariant:
\* types, freshness of the cache, the order of Close, who works for whom, the
\* causes of errors, who owns a store, a read or a lock, and where every leaf is.
THEOREM SessionInvariant == Spec => []SessionInv
<1>1. Init => SessionInv
  BY ResolverTypeInit, SessionTypeInit, FreshInit, CloseOrderInit, EmployedInit, RootCausesInit,
     StoresKeptInit, OneOwnerInit, AlignedInit, NoLeafDroppedInit, WaitingInit DEF SessionInv, Types, Init
<1>2. SessionInv /\ [Next]_vars => SessionInv'
  <2> SUFFICES ASSUME SessionInv, [Next]_vars PROVE SessionInv'
    OBVIOUS
  <2>1. [ResolverNext]_resolver
    BY SessionStep DEF SessionInv, Types
  <2>2. ResolverType' /\ Fresh' /\ CloseOrder'
    BY <2>1, ResolverTypeStep, FreshStep, CloseOrderStep DEF SessionInv, Types
  <2>3. Types'
    BY <2>2, SessionTypeStep DEF SessionInv, Types
  <2>4. Employed' /\ RootCauses' /\ StoresKept'
    BY EmployedStep, RootCausesStep, StoresKeptStep DEF SessionInv
  <2>5. OneOwner' /\ Aligned' /\ NoLeafDropped'
    BY OneOwnerStep, AlignedStep, NoLeafDroppedStep DEF SessionInv
  <2>6. LocksHeld' /\ ReadsOwned' /\ ClosersInPlace'
    BY LocksHeldStep, ReadsOwnedStep, ClosersStep DEF SessionInv
  <2> QED
    BY <2>2, <2>3, <2>4, <2>5, <2>6 DEF SessionInv
<1> QED
  BY <1>1, <1>2, PTL DEF Spec

\* A closed resolver holds no secret and no call that could hand one out.
THEOREM ResolverHoldsNothing == Spec => []ClosedHoldsNothing
<1>1. SessionInv => ClosedHoldsNothing
  BY ClosedFollows DEF SessionInv, Types
<1> QED
  BY <1>1, SessionInvariant, PTL

\* No cached value is older than the secret was when the cache was cleared,
\* unless a call already held it.
THEOREM CacheIsFresh == Spec => []NothingOlderThanCleared
<1>1. SessionInv => NothingOlderThanCleared
  BY DEF SessionInv, Fresh
<1> QED
  BY <1>1, SessionInvariant, PTL

\* An operation reports the failure that ended it, never the cancellation
\* which that failure caused in its other workers.
THEOREM RootCauseReported == Spec => []ErrorIsRootCause
<1>1. SessionInv => ErrorIsRootCause
  BY DEF SessionInv, RootCauses
<1> QED
  BY <1>1, SessionInvariant, PTL

\* Every store that a factory made is closed exactly once, although the
\* factories race Config.Close.
THEOREM StoresClosedOnce == Spec => []EveryStoreClosedOnce
<1>1. SessionInv => EveryStoreClosedOnce
  BY ClosedOnceFollows DEF SessionInv
<1> QED
  BY <1>1, SessionInvariant, PTL

\* Only the end of an operation publishes, when nothing failed: its workers are
\* gone, so each leaf is resolved, with the values of the session.
LEMMA PublishStep ==
  ASSUME SessionInv, [Next]_vars, NEW o \in Op, Publishes(o)
  PROVE  Complete(op[o].values) /\ (backend = "router" => Coherent(op[o].values))
<1> USE DEF SessionInv
<1>1. Finish(o)
  <2>1. ~(\E w \in Worker : Step(w))
    BY WorkerAlone DEF Publishes
  <2>2. ~(\E p \in Op, refresh \in BOOLEAN : Start(p, refresh))
    BY DEF Start, Publishes, Types, OpType, OpRecord
  <2>3. \A p \in Op : Finish(p) => p = o
    BY DEF Finish, Publishes, Types, OpType
  <2>4. ASSUME NEW p \in Op, Cancel(p) PROVE FALSE
    <3>1. op'[o].status = op[o].status
      BY <2>4 DEF Cancel, Types, OpType, OpRecord
    <3> QED
      BY <3>1 DEF Publishes
  <2>5. op' # op
    BY DEF Publishes
  <2> QED
    BY <2>1, <2>2, <2>3, <2>4, <2>5, SessionConstants DEF Next, CloseConfig, CloseStep,
       CloseCollect, CloseResource, CloseReturns, CloseResolver, Environment, mine, vars
<1>2. op[o].status = "run" /\ ~Done(o) /\ \A w \in Workers(o) : work[w].step = "exited"
  BY <1>1 DEF Finish, Outcome, IdleOp, Publishes, Types, OpType
<1>3. Attended(o)
  BY <1>2 DEF NoLeafDropped
<1>4. op[o].queue = <<>>
  BY <1>2, <1>3 DEF Attended, LeftNothing
<1>5. \A w \in Worker : \A l : ~Has(w, o, l)
  BY <1>2 DEF Has, Employed, Workers, BusySteps
<1>6. \A l \in Leaves(o) : Resolved(o, l)
  BY <1>2, <1>3, <1>4, <1>5 DEF Attended, AllLeaves, Pending, Queued
<1>7. DOMAIN op[o].values = Leaves(o)
      /\ \A l \in Leaves(o) : op[o].values[l] \in Seq(Secret) /\ RefsOf[l] \in Seq(Ref)
  BY <1>2, ValuesTyped
<1>8. \A l \in Leaves(o) : DOMAIN op[o].values[l] = DOMAIN RefsOf[l]
  BY <1>6, <1>7, InRange DEF Resolved
<1>9. Complete(op[o].values)
  BY <1>6, <1>7 DEF Complete, Resolved
<1>10. ASSUME backend = "router" PROVE Coherent(op[o].values)
  <2>1. \A l \in Leaves(o) : \A i \in DOMAIN RefsOf[l] :
          op[o].values[l][i] = session[o][RefsOf[l][i]].val
    BY <1>3, <1>8, <1>10 DEF Attended, ValuesAgree, Agrees
  <2> QED
    BY <1>7, <2>1 DEF Coherent
<1> QED
  BY <1>9, <1>10

\* What an operation publishes is complete, and two keys with one reference
\* hold one value, whatever rotates meanwhile.
THEOREM SnapshotsConsistent == Spec => PublishedConsistent
<1>1. SessionInv /\ [Next]_vars =>
        [\A o \in Op : Publishes(o) =>
           Complete(op[o].values) /\ (backend = "router" => Coherent(op[o].values))]_vars
  BY PublishStep
<1> QED
  BY <1>1, SessionInvariant, PTL DEF Spec, PublishedConsistent
-----------------------------------------------------------------------------
(* Nobody waits for ever: the guards of the steps that the program takes by *)
(* itself, those of Progress, one disjunct for each action.                *)

MayMove(w) ==
  \/ work[w].step = "loop" /\ op[OpOf[w]].status = "run"               \* TakeLeaf
  \/ work[w].step = "next" /\ work[w].rest = <<>>                      \* StoreLeaf
  \/ /\ work[w].step = "next" /\ work[w].rest # <<>>                   \* CallResolver
     /\ backend = "resolver" /\ call[w].step = "none"
  \/ call[w].step \in ActiveSteps                                      \* RunResolver
  \/ work[w].step = "call" /\ call[w].step \in {"ok", "failed"}        \* ResolverReturned
  \/ work[w].step = "next" /\ work[w].rest # <<>> /\ backend = "router"   \* Lookup
  \/ work[w].step = "wait" /\ (Entry1(w).state = "done" \/ Done(OpOf[w])) \* Await
  \/ work[w].step = "route" /\ spec[ProviderOf[Ref1(w)]].lock = NoWorker  \* LockSpec
  \* LeafFailed, Create, Collect, ReadStore
  \/ work[w].step \in {"failed", "create", "collect", "read"}

MayFinish(o) == op[o].status = "run" /\ \A w \in Workers(o) : work[w].step = "exited"

\* CloseCollect, CloseResource or CloseReturns; CloseResolver.
MayClose == \/ cfgClose \in {"collect", "stores"}
            \/ cfgClose = "resolver" /\ closer["config"] = "returned"
MayCloseResolver(c) ==
  /\ backend = "resolver"
  /\ IF c = "config" THEN cfgClose = "resolver" ELSE closer[c] # "idle"
  /\ \/ closer[c] \in {"idle", "cancel", "drop", "store"}
     \/ closer[c] = "wait" /\ inFlight = {}
     \/ closer[c] = "blocked" /\ once = "done"

SomebodyMoves == \/ \E w \in Worker : MayMove(w)
                 \/ \E o \in Op : MayFinish(o)
                 \/ MayClose
                 \/ \E c \in Closer : MayCloseResolver(c)

\* A worker that has not left moves, or waits for one that moves: the owner of
\* its read, the holder of the lock, or both in turn.
LEMMA WorkerMovesOn ==
  ASSUME SessionInv, NEW w \in Worker, work[w].step # "exited"
  PROVE  \E v \in Worker : MayMove(v)
<1> USE DEF SessionInv
<1>0. /\ work[w] \in WorkRecord /\ op[OpOf[w]].status = "run" /\ call[w] \in CallRecord
      /\ backend \in {"router", "resolver"}
  BY DEF Types, WorkType, ResolverType, Employed
<1>1. ASSUME NEW v \in Worker, work[v].step = "route" PROVE \E u \in Worker : MayMove(u)
  <2>1. ProviderOf[Ref1(v)] \in Provider
    BY <1>1, OwnerKnown, SessionConstants DEF Types, OwnerSteps
  <2>2. CASE spec[ProviderOf[Ref1(v)]].lock = NoWorker
    BY <1>1, <2>2 DEF MayMove
  <2>3. CASE spec[ProviderOf[Ref1(v)]].lock # NoWorker
    <3>1. PICK u \in Worker : work[u].step \in FactorySteps
      BY <2>1, <2>3 DEF LocksHeld, SpecType, HeldBy
    <3> QED
      BY <3>1 DEF MayMove, FactorySteps
  <2> QED
    BY <2>2, <2>3
<1>2. ASSUME NEW v \in Worker, work[v].step \in OwnerSteps PROVE \E u \in Worker : MayMove(u)
  BY <1>1, <1>2 DEF MayMove, OwnerSteps
<1>3. CASE work[w].step = "wait"
  <2>1. Ref1(w) \in Ref /\ OpOf[w] \in Op
    BY <1>3, ReferenceKnown, SessionConstants DEF Types, WorkType, Shape, BusySteps
  <2>2. Entry1(w).state \in {"pending", "done"}
    BY <1>3, <2>1 DEF ReadsOwned, Entry1, Types, OpType, Entry
  <2>3. CASE Entry1(w).state = "done"
    BY <1>3, <2>3 DEF MayMove
  <2>4. CASE Entry1(w).state = "pending"
    <3>1. PICK v \in Worker : work[v].step \in OwnerSteps
      BY <2>1, <2>4 DEF ReadsOwned, Entry1, Owners
    <3> QED
      BY <1>2, <3>1
  <2> QED
    BY <2>2, <2>3, <2>4
<1>4. CASE work[w].step = "call"
  <2>1. call[w].step \in ActiveSteps \cup {"ok", "failed"}
    BY <1>0, <1>4 DEF Employed, CallRecord
  <2> QED
    BY <1>4, <2>1 DEF MayMove
<1>5. CASE work[w].step = "next"
  <2>1. call[w].step = "none"
    BY <1>5 DEF Employed
  <2> QED
    BY <1>0, <1>5, <2>1 DEF MayMove
<1>6. CASE work[w].step \in {"loop", "failed"}
  BY <1>0, <1>6 DEF MayMove
<1> QED
  BY <1>0, <1>2, <1>3, <1>4, <1>5, <1>6 DEF WorkRecord, BusySteps, OwnerSteps

\* A caller of the resolver's Close moves, or waits for the one that runs it, who
\* waits for no more than the calls in flight.
LEMMA CloserMovesOn ==
  ASSUME SessionInv, NEW c \in Closer, closer[c] \notin {"idle", "returned"}
  PROVE  SomebodyMoves
<1> USE DEF SessionInv
<1>1. ASSUME NEW d \in Closer, closer[d] \in MidClose PROVE SomebodyMoves
  <2>1. backend = "resolver" /\ (d = "config" => cfgClose = "resolver")
    BY <1>1 DEF ClosersInPlace, MidClose
  <2>2. CASE closer[d] \in {"cancel", "drop", "store"} \/ inFlight = {}
    BY <1>1, <2>1, <2>2 DEF SomebodyMoves, MayCloseResolver, MidClose
  <2>3. CASE inFlight # {}
    <3>1. PICK w \in Worker : call[w].step \in ActiveSteps
      BY <2>3 DEF CloseOrder, Types, ResolverType
    <3> QED
      BY <3>1 DEF SomebodyMoves, MayMove
  <2> QED
    BY <1>1, <2>2, <2>3 DEF MidClose
<1>2. CASE closer[c] = "blocked"
  <2>1. once \in Closer \cup {"done"}
    BY <1>2 DEF CloseOrder, Types, ResolverType
  <2>2. CASE once = "done"
    <3>1. backend = "resolver" /\ (c = "config" => cfgClose = "resolver")
      BY <1>2 DEF ClosersInPlace
    <3> QED
      BY <1>2, <2>2, <3>1 DEF SomebodyMoves, MayCloseResolver
  <2>3. CASE once \in Closer
    BY <1>1, <2>3 DEF CloseOrder
  <2> QED
    BY <2>1, <2>2, <2>3
<1> QED
  BY <1>1, <1>2 DEF Types, ResolverType

\* The waiting of the session has no cycle.
LEMMA UnfinishedMoves == SessionInv /\ Unfinished => SomebodyMoves
<1> SUFFICES ASSUME SessionInv, Unfinished PROVE SomebodyMoves
  OBVIOUS
<1>1. ASSUME NEW o \in Op, op[o].status = "run" PROVE SomebodyMoves
  <2>1. CASE \A w \in Workers(o) : work[w].step = "exited"
    BY <1>1, <2>1 DEF SomebodyMoves, MayFinish
  <2>2. ASSUME NEW w \in Workers(o), work[w].step # "exited" PROVE SomebodyMoves
    <3>1. w \in Worker
      BY DEF Workers, SessionInv, Types, WorkType
    <3> QED
      BY <2>2, <3>1, WorkerMovesOn DEF SomebodyMoves
  <2> QED
    BY <2>1, <2>2
<1>2. CASE cfgClose \notin {"idle", "done"}
  <2>1. CASE cfgClose = "resolver" /\ closer["config"] = "idle"
    <3>1. MayCloseResolver("config")
      BY <2>1 DEF MayCloseResolver, SessionInv, ClosersInPlace
    <3> QED
      BY <3>1, SessionConstants DEF SomebodyMoves
  <2>2. CASE cfgClose = "resolver" /\ closer["config"] \notin {"idle", "returned"}
    BY <2>2, CloserMovesOn, SessionConstants
  <2>3. CASE MayClose
    BY <2>3 DEF SomebodyMoves
  <2> QED
    BY <1>2, <2>1, <2>2, <2>3 DEF SessionInv, ClosersInPlace, MayClose
<1> QED
  BY <1>1, <1>2, CloserMovesOn DEF Unfinished

\* While an operation runs or a Close has begun, some step of the program has its
\* guard: no worker, operation or caller of Close waits in a circle or for
\* something that will not come, however many there are.
THEOREM SomebodyAlwaysMoves == Spec => [](Unfinished => SomebodyMoves)
<1>1. SessionInv => (Unfinished => SomebodyMoves)
  BY UnfinishedMoves
<1> QED
  BY <1>1, SessionInvariant, PTL
=============================================================================
