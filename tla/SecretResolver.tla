--------------------------- MODULE SecretResolver ---------------------------
(***************************************************************************)
(* secret/resolver.go and secret/resolver_close.go: the managed resolver.  *)
(* Goroutines resolve references through a cache and a remote store; the   *)
(* cache lock is not held while the store is read.  ClearCache and secret  *)
(* rotation happen at any time.  Close refuses new calls, cancels the ones *)
(* in flight, waits for them, drops the cache and closes the store; every  *)
(* caller of Close shares one execution.                                   *)
(***************************************************************************)
EXTENDS Naturals, FiniteSets, Sequences

CONSTANTS Worker,         \* goroutines that resolve
          Closer,         \* goroutines that call Close
          Ref,            \* what a reference names: key and version
          NoRef, NoWorker,
          CacheEnabled,   \* WithCache
          Expiring,       \* WithCacheTTL is not zero
          Rotating        \* secrets that the service rotates once

ASSUME ResolverConstants == /\ CacheEnabled \in BOOLEAN /\ Expiring \in BOOLEAN
                            /\ NoRef \notin Ref /\ Rotating \subseteq Ref
                            /\ {"free", "done"} \cap Closer = {}

VARIABLES
  remote,      \* the current value of every secret in the service
  cache,       \* Ref -> [val, expired], or NoEntry
  cleared,     \* the oldest value that ClearCache left possible (history)
  call,        \* Worker -> its resolveKey call
  inFlight,    \* calls registered with the WaitGroup
  closing,     \* set by Close: no new calls
  canceled,    \* closeCtx is done
  storeOpen,
  closer,      \* Closer -> its step in Close
  once         \* who runs closeOnce: "free", a closer, or "done"

resolver == <<remote, cache, cleared, call, inFlight, closing, canceled, storeOpen,
              closer, once>>

NoEntry == [val |-> 0, expired |-> TRUE]
NoCall == [step |-> "none", ref |-> NoRef, val |-> 0, err |-> "none"]

ResolverInit == /\ remote = [r \in Ref |-> 1]
                /\ cache = [r \in Ref |-> NoEntry]
                /\ cleared = [r \in Ref |-> 1]
                /\ call = [w \in Worker |-> NoCall]
                /\ inFlight = {} /\ closing = FALSE /\ canceled = FALSE
                /\ storeOpen = TRUE
                /\ closer = [c \in Closer |-> "idle"] /\ once = "free"

Fail(w, e) == call' = [call EXCEPT ![w].step = "failed", ![w].err = e, ![w].val = 0]

(* enter: the closing check and the registration are one step under lifeMu. *)
Enter(w, r) ==
  /\ call[w].step = "none"
  /\ IF closing
     THEN /\ call' = [call EXCEPT ![w] = [step |-> "failed", ref |-> r, val |-> 0,
                                          err |-> "closed"]]
          /\ UNCHANGED inFlight
     ELSE /\ call' = [call EXCEPT ![w] = [step |-> "check", ref |-> r, val |-> 0,
                                          err |-> "none"]]
          /\ inFlight' = inFlight \cup {w}
  /\ UNCHANGED <<remote, cache, cleared, closing, canceled, storeOpen, closer, once>>

Hit(r) == CacheEnabled /\ cache[r] # NoEntry /\ ~cache[r].expired

CheckCache(w) ==
  /\ call[w].step = "check"
  /\ call' = IF Hit(call[w].ref)
             THEN [call EXCEPT ![w].step = "leave", ![w].val = cache[call[w].ref].val]
             ELSE [call EXCEPT ![w].step = "fetch"]
  /\ UNCHANGED <<remote, cache, cleared, inFlight, closing, canceled, storeOpen, closer, once>>

(* store.GetSecret: the value of the instant at which the service reads    *)
(* it, or its error; a canceled context may still lose to an answer.       *)
Fetch(w, ctxDone) ==
  /\ call[w].step = "fetch"
  /\ \/ call' = [call EXCEPT ![w].step = "write", ![w].val = remote[call[w].ref]]
     \/ call' = [call EXCEPT ![w].step = "leave", ![w].err = "store"]
     \/ /\ canceled \/ ctxDone
        /\ call' = [call EXCEPT ![w].step = "leave", ![w].err = "canceled"]
  /\ UNCHANGED <<remote, cache, cleared, inFlight, closing, canceled, storeOpen, closer, once>>

CacheWrite(w) ==
  /\ call[w].step = "write"
  /\ cache' = IF CacheEnabled
              THEN [cache EXCEPT ![call[w].ref] = [val |-> call[w].val, expired |-> FALSE]]
              ELSE cache
  /\ call' = [call EXCEPT ![w].step = "leave"]
  /\ UNCHANGED <<remote, cleared, inFlight, closing, canceled, storeOpen, closer, once>>

\* Mutant: the WaitGroup is released before the cache is written.
LeaveBeforeWrite(w) ==
  /\ \/ call[w].step = "write" /\ w \in inFlight /\ UNCHANGED call
     \/ /\ call[w].step = "leave"
        /\ call' = [call EXCEPT ![w].step = IF call[w].err = "none" THEN "ok" ELSE "failed"]
  /\ inFlight' = inFlight \ {w}
  /\ UNCHANGED <<remote, cache, cleared, closing, canceled, storeOpen, closer, once>>

(* The deferred leave: the call returns. *)
Leave(w) ==
  /\ call[w].step = "leave"
  /\ inFlight' = inFlight \ {w}
  /\ call' = [call EXCEPT ![w].step = IF call[w].err = "none" THEN "ok" ELSE "failed"]
  /\ UNCHANGED <<remote, cache, cleared, closing, canceled, storeOpen, closer, once>>

(* ClearCache replaces the map.  A call that already holds an answer will  *)
(* still write it; the value below cannot come back otherwise.             *)
Held(r) == {w \in Worker : call[w].step = "write" /\ call[w].ref = r}

ClearedValues == [r \in Ref |-> IF Held(r) = {} THEN remote[r] ELSE cleared[r]]

\* Mutant: only the expired entries are dropped.
DropExpired == [r \in Ref |-> IF cache[r].expired THEN NoEntry ELSE cache[r]]
EmptyCache == [r \in Ref |-> NoEntry]

ClearCache == /\ cache' = EmptyCache
              /\ cleared' = ClearedValues

(* The service rotates a secret, once; a cache entry reaches its TTL. *)
Rotate(r) == /\ r \in Rotating /\ remote[r] = 1
             /\ remote' = [remote EXCEPT ![r] = 2]
             /\ UNCHANGED <<cache, cleared, call, inFlight, closing, canceled, storeOpen,
                            closer, once>>

Expire(r) == /\ Expiring /\ Hit(r)
             /\ cache' = [cache EXCEPT ![r].expired = TRUE]
             /\ UNCHANGED <<remote, cleared, call, inFlight, closing, canceled, storeOpen,
                            closer, once>>

(* Close, under closeOnce. *)
CloseBegin(c) ==
  /\ closer[c] = "idle"
  /\ IF once = "free"
     THEN once' = c /\ closing' = TRUE /\ closer' = [closer EXCEPT ![c] = "cancel"]
     ELSE UNCHANGED <<once, closing>> /\ closer' = [closer EXCEPT ![c] = "blocked"]
  /\ UNCHANGED <<remote, cache, cleared, call, inFlight, canceled, storeOpen>>

CloseCancel(c) == /\ closer[c] = "cancel"
                  /\ canceled' = TRUE /\ closer' = [closer EXCEPT ![c] = "wait"]
                  /\ UNCHANGED <<remote, cache, cleared, call, inFlight, closing,
                                 storeOpen, once>>

CloseWait(c) == /\ closer[c] = "wait" /\ inFlight = {}
                /\ closer' = [closer EXCEPT ![c] = "drop"]
                /\ UNCHANGED <<remote, cache, cleared, call, inFlight, closing, canceled,
                               storeOpen, once>>

CloseDrop(c) == /\ closer[c] = "drop"
                /\ cache' = EmptyCache
                /\ closer' = [closer EXCEPT ![c] = "store"]
                /\ UNCHANGED <<remote, cleared, call, inFlight, closing, canceled,
                               storeOpen, once>>

CloseStore(c) == /\ closer[c] = "store"
                 /\ storeOpen' = FALSE /\ once' = "done"
                 /\ closer' = [closer EXCEPT ![c] = "returned"]
                 /\ UNCHANGED <<remote, cache, cleared, call, inFlight, closing, canceled>>

CloseJoin(c) == /\ closer[c] = "blocked" /\ once = "done"
                /\ closer' = [closer EXCEPT ![c] = "returned"]
                /\ UNCHANGED <<remote, cache, cleared, call, inFlight, closing, canceled,
                               storeOpen, once>>

ResolverClose(c) == \/ CloseBegin(c) \/ CloseCancel(c) \/ CloseWait(c)
                    \/ CloseDrop(c) \/ CloseStore(c) \/ CloseJoin(c)

ResolverCall(w, ctxDone) == CheckCache(w) \/ Fetch(w, ctxDone) \/ CacheWrite(w) \/ Leave(w)

-----------------------------------------------------------------------------
(* After Close returns the resolver holds no secret, reads no store and    *)
(* hands out no value: no call that could is left, whatever was in flight  *)
(* when Close began (docs/secrets.md, "What close does and does not        *)
(* promise").                                                              *)
ClosedHoldsNothing ==
  (\E c \in Closer : closer[c] = "returned") =>
     /\ ~storeOpen /\ cache = EmptyCache
     /\ \A w \in Worker : call[w].step \in {"none", "ok", "failed"}

(* ClearCache bounds staleness: unless an answer was already on its way,   *)
(* no cached value is older than the secret was when the cache was cleared. *)
NothingOlderThanCleared ==
  \A r \in Ref : cache[r] # NoEntry => cache[r].val >= cleared[r]

=============================================================================
