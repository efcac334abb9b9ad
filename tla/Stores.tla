------------------------------- MODULE Stores -------------------------------
(***************************************************************************)
(* A chain of secret stores in order of authority (secret/multi.go) over   *)
(* memory stores (secret/dict.go), variables of the process (secret/env.go)*)
(* and remote stores that may fail.  A call visits the stores one by one,  *)
(* and other calls, outages and a cancellation come in between.            *)
(*                                                                         *)
(* Values are strings, which a variable holds as they are.  A version is   *)
(* an index into what was written, Latest asks for the current value.      *)
(* Versions are 0 and 1: an index that no history reaches is a miss, as a  *)
(* version that is no number is.                                           *)
(***************************************************************************)
EXTENDS Naturals, Sequences

CONSTANTS
  Client, Key, Value,
  Variable,       \* the names of variables
  Chain,          \* the kinds of the stores: "memory", "remote" or "env"
  EnvKey,         \* key -> the variable of an env store; several keys may share one
  NoValue, Latest,
  MaxCalls        \* bound on the number of calls

ASSUME StoresAssumption ==
  /\ Chain \in Seq({"memory", "remote", "env"}) /\ Chain # <<>>
  /\ EnvKey \in [Key -> Variable] /\ Key \cap Variable = {} /\ NoValue \notin Value
  /\ Latest \notin Nat /\ MaxCalls \in Nat

VARIABLES
  current,        \* store -> name -> value
  versions,       \* store -> name -> the values written, oldest first
  down,           \* remote stores that answer with an error
  writeToFirst,   \* the option of the chain
  call,           \* the call of each client
  calls           \* calls made (bound)

stored == <<current, versions>>
vars == <<stored, down, writeToFirst, call, calls>>

Store == DOMAIN Chain
Version == {Latest, 0, 1}

Name(i, k) == IF Chain[i] = "env" THEN EnvKey[k] ELSE k
NamesOf(i) == IF Chain[i] = "env" THEN Variable ELSE Key

(***************************************************************************)
(* One store.  A variable has no versions and answers every version alike. *)
(***************************************************************************)
AnswerIn(values, history, i, n, v) ==
  IF v = Latest \/ Chain[i] = "env" THEN values[i][n]
  ELSE IF v + 1 \in DOMAIN history[i][n] THEN history[i][n][v + 1] ELSE NoValue

Answer(i, n, v) == AnswerIn(current, versions, i, n, v)

Listed(i) == {n \in NamesOf(i) : current[i][n] # NoValue}

WriteTo(i, k, x) ==
  /\ current' = [current EXCEPT ![i][Name(i, k)] = x]
  /\ IF Chain[i] = "env" THEN UNCHANGED versions
     ELSE versions' = [versions EXCEPT ![i][k] = Append(@, x)]

Forget(i, names) ==
  /\ current' = [current EXCEPT ![i] = [n \in DOMAIN @ |-> IF n \in names THEN NoValue ELSE @[n]]]
  /\ versions' = [versions EXCEPT ![i] = [n \in DOMAIN @ |-> IF n \in names THEN <<>> ELSE @[n]]]

\* A call remembers what the stores have held from its start on (history).
StillHeld(calling) ==
  [d \in Client |-> [calling[d] EXCEPT !.held =
     {h \in @ : AnswerIn(current', versions', h[1], h[2], calling[d].version) # NoValue}]]

(***************************************************************************)
(* Calls.  Each client is idle, visits store "at", or has its result.      *)
(***************************************************************************)
NoCall == [op |-> "none", key |-> NoValue, value |-> NoValue, version |-> Latest, at |-> 0,
           entries |-> <<>>, seen |-> {}, held |-> {}, canceled |-> FALSE, result |-> "none"]

Init ==
  /\ current \in {f \in [Store -> [Key \cup Variable -> Value \cup {NoValue}]] :
                    \A i \in Store, n \in Key \cup Variable : n \notin NamesOf(i) => f[i][n] = NoValue}
  /\ versions = [i \in Store |-> [n \in Key \cup Variable |-> <<>>]]
  /\ down = {} /\ writeToFirst \in BOOLEAN
  /\ call = [c \in Client |-> NoCall] /\ calls = 0

Begin(c, op, k, x, v) ==
  /\ call[c] = NoCall /\ calls < MaxCalls /\ calls' = calls + 1
  /\ call' = [call EXCEPT ![c] =
       [NoCall EXCEPT !.op = op, !.key = k, !.value = x, !.version = v, !.at = 1, !.result = "pending",
                      !.held = {h \in {<<i, n>> : i \in Store, n \in Key \cup Variable} :
                                  h[2] \in NamesOf(h[1]) /\ Answer(h[1], h[2], v) # NoValue}]]
  /\ UNCHANGED <<stored, down, writeToFirst>>

Call(c) ==
  \E k \in Key :
    \/ \E v \in Version : Begin(c, "get", k, NoValue, v)
    \/ \E x \in Value : Begin(c, "set", k, x, Latest)
    \/ Begin(c, "delete", k, NoValue, Latest)
    \/ Begin(c, "list", k, NoValue, Latest)

Pending(c, op) == call[c].op = op /\ call[c].result = "pending"
Finish(c, r) == call' = [call EXCEPT ![c].result = r]


\* The context is looked at before a store is visited, but not for a write to
\* the first store alone.
OneWrite(op) == writeToFirst /\ op \in {"set", "delete"}

Canceled(c) ==
  /\ call[c].result = "pending" /\ call[c].canceled /\ call[c].at \in Store
  /\ ~OneWrite(call[c].op)
  /\ Finish(c, "canceled") /\ UNCHANGED <<stored, down, writeToFirst, calls>>

Visiting(c, op) ==
  Pending(c, op) /\ call[c].at \in Store /\ (call[c].canceled => OneWrite(op))

\* MultiStoreError: misses do not count next to a failure.
Entry(i, err) == [store |-> i, err |-> err]

Unwrap(entries) ==
  LET errs == {entries[j].err : j \in DOMAIN entries}
  IN IF errs \subseteq {"notfound"} THEN errs ELSE errs \ {"notfound"}

ErrorOf(entries) == IF "notfound" \in Unwrap(entries) THEN "notfound" ELSE "failed"

\* Mutant: the search goes on past a store that fails.
GetSecretAnywhere(c) ==
  LET i == call[c].at
      answer == IF i \in down THEN NoValue ELSE Answer(i, Name(i, call[c].key), call[c].version)
  IN /\ Visiting(c, "get")
     /\ call' = [call EXCEPT ![c] =
          IF answer # NoValue THEN [@ EXCEPT !.result = answer] ELSE [@ EXCEPT !.at = i + 1]]
     /\ UNCHANGED <<stored, down, writeToFirst, calls>>

\* The first store that has it answers; only a miss moves on.
GetSecret(c) ==
  LET i == call[c].at
      answer == Answer(i, Name(i, call[c].key), call[c].version)
  IN /\ Visiting(c, "get")
     /\ call' = [call EXCEPT ![c] =
          IF i \in down
          THEN [@ EXCEPT !.result = ErrorOf(Append(call[c].entries, Entry(i, "failed")))]
          ELSE IF answer # NoValue THEN [@ EXCEPT !.result = answer]
          ELSE [@ EXCEPT !.at = i + 1, !.entries = Append(call[c].entries, Entry(i, "notfound"))]]
     /\ UNCHANGED <<stored, down, writeToFirst, calls>>

\* The stores after one that fails are left as they are.
Change(c, op) ==
  /\ Visiting(c, op)
  /\ LET i == call[c].at
     IN IF i \in down THEN Finish(c, "failed") /\ UNCHANGED stored
        ELSE /\ IF op = "set" THEN WriteTo(i, call[c].key, call[c].value)
                ELSE Forget(i, {Name(i, call[c].key)})
             /\ call' = StillHeld([call EXCEPT ![c].at = IF writeToFirst THEN Len(Chain) + 1 ELSE i + 1])
  /\ UNCHANGED <<down, writeToFirst, calls>>

SetSecret(c) == Change(c, "set")
DeleteSecret(c) == Change(c, "delete")

\* Mutant: a store that fails is passed over.
ListSecretsQuietly(c) ==
  LET i == call[c].at
  IN /\ Visiting(c, "list")
     /\ call' = [call EXCEPT ![c].at = i + 1, ![c].seen = @ \cup (IF i \in down THEN {} ELSE Listed(i))]
     /\ UNCHANGED <<stored, down, writeToFirst, calls>>

\* A store that fails is noted, and the others are listed all the same, unless the
\* failure is a cancellation or a deadline of the store's own: the listing ends with
\* that error alone and with the names found so far.
ListSecrets(c) ==
  LET i == call[c].at
  IN /\ Visiting(c, "list")
     /\ \/ i \in down /\ Finish(c, "expired")
        \/ call' = [call EXCEPT ![c] =
             IF i \in down THEN [@ EXCEPT !.at = i + 1, !.entries = Append(call[c].entries, Entry(i, "failed"))]
             ELSE [@ EXCEPT !.at = i + 1, !.seen = call[c].seen \cup Listed(i)]]
     /\ UNCHANGED <<stored, down, writeToFirst, calls>>

\* Every store has been visited.
Complete(c) ==
  /\ call[c].result = "pending" /\ call[c].at \notin Store
  /\ Finish(c, IF call[c].op = "get" THEN "notfound"
               ELSE IF call[c].entries # <<>> THEN "partial" ELSE "done")
  /\ UNCHANGED <<stored, down, writeToFirst, calls>>

Return(c) ==
  /\ call[c].result \notin {"none", "pending"} /\ call' = [call EXCEPT ![c] = NoCall]
  /\ UNCHANGED <<stored, down, writeToFirst, calls>>

Cancel(c) ==
  /\ call[c].result = "pending" /\ ~call[c].canceled /\ call' = [call EXCEPT ![c].canceled = TRUE]
  /\ UNCHANGED <<stored, down, writeToFirst, calls>>

\* DictStore.Clear, called on a memory store of the chain.
Clear(i) ==
  /\ Chain[i] = "memory" /\ Forget(i, NamesOf(i)) /\ call' = StillHeld(call)
  /\ UNCHANGED <<down, writeToFirst, calls>>

Outage(i) ==
  /\ Chain[i] = "remote" /\ down' = IF i \in down THEN down \ {i} ELSE down \cup {i}
  /\ UNCHANGED <<stored, writeToFirst, call, calls>>

Next ==
  \/ \E c \in Client :
       \/ Call(c) \/ GetSecret(c) \/ SetSecret(c) \/ DeleteSecret(c) \/ ListSecrets(c)
       \/ Canceled(c) \/ Complete(c) \/ Return(c) \/ Cancel(c)
  \/ \E i \in Store : Outage(i) \/ Clear(i)

Spec == Init /\ [][Next]_vars

(***************************************************************************)
(* Properties.                                                             *)
(***************************************************************************)

\* A get never answers from a store of lower authority, and never reports a
\* miss, past a store that has held the secret since the call began: whatever
\* fails or is written meanwhile, an outage does not look like an absent secret.
NeverMasked ==
  \A c \in Client :
    LET passed == IF call[c].result \in Value THEN 1 .. call[c].at - 1
                  ELSE IF call[c].result = "notfound" THEN Store ELSE {}
    IN call[c].op = "get" => \A i \in passed : <<i, Name(i, call[c].key)>> \notin call[c].held

\* An inventory that comes without an error names everything the stores have
\* held since the call began, and one that comes with a MultiStoreError still names
\* everything of the stores the error does not name (ListSecrets).  Nothing is said of
\* one that a cancellation has cut short, the caller's or a store's own.
Accounted(q) ==
  \A h \in q.held : h[2] \in q.seen \/ \E j \in DOMAIN q.entries : q.entries[j].store = h[1]

InventoryComplete ==
  \A c \in Client :
    (call[c].op = "list" /\ call[c].result \in {"done", "partial"}) =>
      /\ (call[c].result = "partial") <=> (call[c].entries # <<>>)
      /\ Accounted(call[c])
=============================================================================
