---------------------------- MODULE Stores_proofs ----------------------------
(***************************************************************************)
(* Proofs about the chain of secret stores, for any chain, any number of   *)
(* clients, keys and values, and any number of calls and outages.          *)
(***************************************************************************)
EXTENDS Stores, TLAPS

Names == Key \cup Variable
Op == {"none", "get", "set", "delete", "list"}
Outcome == {"none", "pending", "notfound", "failed", "canceled", "expired", "partial", "done"}

CallRecord ==
  [op : Op, key : Key \cup {NoValue}, value : Value \cup {NoValue}, version : Version, at : Nat,
   entries : Seq([store : Store, err : {"notfound", "failed"}]), seen : SUBSET Names,
   held : SUBSET (Store \X Names), canceled : BOOLEAN, result : Value \cup Outcome]

StoredOK == /\ current \in [Store -> [Names -> Value \cup {NoValue}]]
            /\ versions \in [Store -> [Names -> Seq(Value)]]

\* A call has a key and a place in the chain; only a get asks for a version, and a
\* set has a value; what a store holds has a name of that store.
Placed(r) == /\ r.op # "none" => r.at >= 1 /\ r.key \in Key
             /\ r.op # "get" => r.version = Latest
             /\ r.op = "set" => r.value \in Value
             /\ \A i \in Store, n \in Names : <<i, n>> \in r.held => n \in NamesOf(i)

\* A get has passed only stores that have not held its secret throughout, and
\* reports a miss when it has passed them all.
GetOK(r) ==
  r.op = "get" =>
    /\ \A i \in Store : i < r.at => <<i, Name(i, r.key)>> \notin r.held
    /\ r.result = "notfound" => r.result \in Value \/ r.at \notin Store

\* An inventory has what the stores it passed hold, or names the store; its
\* result tells which.
Named(entries, i) == \E j \in DOMAIN entries : entries[j].store = i
ListOK(r) ==
  r.op = "list" =>
    /\ \A i \in Store, n \in Names :
         <<i, n>> \in r.held /\ i < r.at => n \in r.seen \/ Named(r.entries, i)
    /\ r.result \in {"partial", "done"} =>
         /\ r.at \notin Store
         /\ (r.result = "partial") <=> (r.entries # <<>>)

\* What a call remembers is still there.
HeldOK(r) ==
  \A i \in Store, n \in Names : <<i, n>> \in r.held => Answer(i, n, r.version) # NoValue

CallOK(r) == r \in CallRecord /\ Placed(r) /\ GetOK(r) /\ ListOK(r)

ChainInv ==
  /\ StoredOK
  /\ call \in [Client -> CallRecord]
  /\ \A c \in Client : CallOK(call[c]) /\ HeldOK(call[c])

-----------------------------------------------------------------------------
(* Types *)

\* The chain is a sequence, and each of its stores knows its names.
LEMMA ChainFacts ==
  /\ Store = 1 .. Len(Chain) /\ Len(Chain) \in Nat /\ Len(Chain) >= 1
  /\ \A i \in Store, k \in Key : Name(i, k) \in Names
  /\ \A i \in Store : NamesOf(i) \subseteq Names
<1>1. Chain \in Seq({"memory", "remote", "env"}) /\ Chain # <<>>
  BY StoresAssumption
<1>2. Store = 1 .. Len(Chain) /\ Len(Chain) \in Nat /\ Len(Chain) >= 1
  BY <1>1 DEF Store
<1> QED
  BY <1>2, StoresAssumption DEF Name, NamesOf, Names

\* A store answers with a value or with a miss.
LEMMA AnswerType ==
  ASSUME StoredOK, NEW i \in Store, NEW n \in Names, NEW v \in Version
  PROVE  Answer(i, n, v) \in Value \cup {NoValue}
<1> DEFINE h == versions[i][n]
<1>1. current[i][n] \in Value \cup {NoValue} /\ h \in Seq(Value)
  BY DEF StoredOK
<1>2. v # Latest /\ v + 1 \in DOMAIN h => h[v + 1] \in Value
  BY <1>1
<1> HIDE DEF h
<1>3. Answer(i, n, v) = IF v = Latest \/ Chain[i] = "env" THEN current[i][n]
                        ELSE IF v + 1 \in DOMAIN h THEN h[v + 1] ELSE NoValue
  BY DEF Answer, AnswerIn, h
<1> QED
  BY <1>1, <1>2, <1>3

\* An idle client is well formed.
LEMMA NoCallRecord == CallOK(NoCall) /\ HeldOK(NoCall)
BY DEF NoCall, CallRecord, CallOK, Placed, GetOK, ListOK, HeldOK, Op, Outcome, Version

\* Writing a value keeps the types.
LEMMA WriteType ==
  ASSUME StoredOK, NEW i \in Store, NEW k \in Key, NEW x \in Value,
         WriteTo(i, k, x)
  PROVE  StoredOK'
<1>1. Name(i, k) \in Names /\ k \in Names
  BY ChainFacts DEF Names
<1>2. current' \in [Store -> [Names -> Value \cup {NoValue}]]
  BY <1>1 DEF WriteTo, StoredOK
<1>3. versions' \in [Store -> [Names -> Seq(Value)]]
  <2>1. CASE Chain[i] = "env"
    BY <2>1 DEF WriteTo, StoredOK
  <2>2. CASE Chain[i] # "env"
    <3> DEFINE h == Append(versions[i][k], x)
    <3>1. h \in Seq(Value)
      BY <1>1 DEF StoredOK
    <3>2. versions' = [versions EXCEPT ![i][k] = h]
      BY <2>2 DEF WriteTo
    <3> HIDE DEF h
    <3> QED
      BY <1>1, <3>1, <3>2 DEF StoredOK
  <2> QED
    BY <2>1, <2>2
<1> QED
  BY <1>2, <1>3 DEF StoredOK

\* Forgetting names keeps the types.
LEMMA ForgetType ==
  ASSUME StoredOK, NEW i \in Store, NEW names, Forget(i, names) PROVE StoredOK'
<1> DEFINE f == [n \in DOMAIN current[i] |-> IF n \in names THEN NoValue ELSE current[i][n]]
           h == [n \in DOMAIN versions[i] |-> IF n \in names THEN <<>> ELSE versions[i][n]]
<1>1. f \in [Names -> Value \cup {NoValue}] /\ h \in [Names -> Seq(Value)]
  BY DEF StoredOK
<1>2. current' = [current EXCEPT ![i] = f] /\ versions' = [versions EXCEPT ![i] = h]
  BY DEF Forget
<1> HIDE DEF f, h
<1> QED
  BY <1>1, <1>2 DEF StoredOK

-----------------------------------------------------------------------------
(* The two shapes of a step *)

\* A call moves on and the stores are left alone.
LEMMA CallMoves ==
  ASSUME ChainInv, UNCHANGED stored, NEW c \in Client, NEW r, CallOK(r), HeldOK(r),
         call' = [call EXCEPT ![c] = r]
  PROVE  ChainInv'
<1>1. StoredOK'
  BY DEF ChainInv, StoredOK, stored
<1>2. \A q : HeldOK(q) <=> HeldOK(q)'
  BY DEF HeldOK, Answer, AnswerIn, stored
<1>3. \A q : CallOK(q) <=> CallOK(q)'
  BY DEF CallOK, Placed, GetOK, ListOK
<1>4. \A d \in Client : call'[d] = IF d = c THEN r ELSE call[d]
  BY DEF ChainInv
<1>5. call' \in [Client -> CallRecord]
  BY DEF ChainInv, CallOK
<1>6. \A d \in Client : CallOK(call'[d]) /\ HeldOK(call'[d])
  BY <1>4 DEF ChainInv
<1>7. \A d \in Client : CallOK(call[d])' /\ HeldOK(call[d])'
  BY <1>2, <1>3, <1>6 DEF CallOK, Placed, GetOK, ListOK, HeldOK, Answer, AnswerIn, stored
<1> QED
  BY <1>1, <1>5, <1>7 DEF ChainInv

\* The stores change, and every call forgets what is gone.
LEMMA StoresChange ==
  ASSUME ChainInv, StoredOK', NEW calling \in [Client -> CallRecord],
         \A c \in Client : CallOK(calling[c]), call' = StillHeld(calling)
  PROVE  ChainInv'
<1> DEFINE left(r) == {h \in r.held : AnswerIn(current', versions', h[1], h[2], r.version) # NoValue}
<1>1. ASSUME NEW d \in Client
      PROVE  LET q == calling[d]
                 r == call'[d]
             IN  /\ r = [q EXCEPT !.held = left(q)]
                 /\ r \in CallRecord
                 /\ r.op = q.op /\ r.key = q.key /\ r.version = q.version /\ r.at = q.at
                 /\ r.entries = q.entries /\ r.seen = q.seen /\ r.result = q.result
                 /\ r.value = q.value
                 /\ r.held = left(q) /\ r.held \subseteq q.held
  <2> DEFINE q == calling[d]
  <2>1. q \in CallRecord /\ call'[d] = [q EXCEPT !.held = left(q)]
    BY DEF StillHeld
  <2>2. left(q) \subseteq q.held
    OBVIOUS
  <2> DEFINE l == left(q)
  <2>3. call'[d] = [q EXCEPT !.held = l] /\ l \subseteq q.held
    BY <2>1, <2>2
  <2> HIDE DEF l, q
  <2>4. [q EXCEPT !.held = l] \in CallRecord
    BY <2>1, <2>3 DEF CallRecord
  <2>5. /\ call'[d].op = q.op /\ call'[d].key = q.key /\ call'[d].version = q.version
        /\ call'[d].at = q.at /\ call'[d].entries = q.entries /\ call'[d].seen = q.seen
        /\ call'[d].result = q.result /\ call'[d].value = q.value /\ call'[d].held = l
    BY <2>1, <2>3 DEF CallRecord
  <2> QED
    BY <2>3, <2>4, <2>5 DEF q, l
<1> HIDE DEF left
<1>2. ASSUME NEW d \in Client PROVE CallOK(call[d])'
  <2>1. CallOK(calling[d])
    OBVIOUS
  <2>2. call'[d] \in CallRecord /\ Placed(call[d])'
    BY <1>1, <2>1 DEF CallOK, Placed
  <2>3. GetOK(call[d])'
    BY <1>1, <2>1 DEF CallOK, GetOK
  <2>4. ListOK(call[d])'
    BY <1>1, <2>1 DEF CallOK, ListOK
  <2> QED
    BY <2>2, <2>3, <2>4 DEF CallOK
<1>3. ASSUME NEW d \in Client PROVE HeldOK(call[d])'
  <2> SUFFICES ASSUME NEW i \in Store, NEW n \in Names, <<i, n>> \in call'[d].held
               PROVE  AnswerIn(current', versions', i, n, call'[d].version) # NoValue
    BY DEF HeldOK, Answer
  <2>1. <<i, n>> \in left(calling[d]) /\ call'[d].version = calling[d].version
    BY <1>1
  <2> QED
    BY <2>1 DEF left
<1>4. call' \in [Client -> CallRecord]
  <2>1. call' = [d \in Client |-> call'[d]]
    BY DEF StillHeld
  <2> QED
    BY <1>1, <2>1
<1> QED
  BY <1>2, <1>3, <1>4 DEF ChainInv

-----------------------------------------------------------------------------
(* The operations *)

\* A call that begins remembers what the stores hold.
LEMMA BeginKeeps ==
  ASSUME ChainInv, NEW c \in Client, NEW op \in Op \ {"none"}, NEW k \in Key,
         NEW x \in Value \cup {NoValue}, NEW v \in Version, op # "get" => v = Latest,
         op = "set" => x \in Value, Begin(c, op, k, x, v)
  PROVE  ChainInv'
<1> DEFINE H == {h \in {<<i, n>> : i \in Store, n \in Key \cup Variable} :
                   h[2] \in NamesOf(h[1]) /\ Answer(h[1], h[2], v) # NoValue}
           r == [NoCall EXCEPT !.op = op, !.key = k, !.value = x, !.version = v, !.at = 1,
                               !.result = "pending", !.held = H]
<1>1. H \subseteq Store \X Names /\ \A i \in Store, n \in Names :
        <<i, n>> \in H => n \in NamesOf(i) /\ Answer(i, n, v) # NoValue
  BY DEF Names
<1>2. call' = [call EXCEPT ![c] = r] /\ UNCHANGED stored
  BY DEF Begin
<1> HIDE DEF H
<1>a. <<>> \in Seq([store : Store, err : {"notfound", "failed"}]) /\ {} \in SUBSET Names
      /\ "pending" \in Value \cup Outcome /\ k \in Key \cup {NoValue} /\ 1 \in Nat
  BY DEF Outcome
<1>3. /\ r.op = op /\ r.key = k /\ r.version = v /\ r.at = 1 /\ r.held = H
      /\ r.result = "pending" /\ r.entries = <<>> /\ r.seen = {} /\ r.value = x
      /\ r.canceled = FALSE /\ r \in CallRecord
  BY <1>1, <1>a DEF NoCall, CallRecord
<1> HIDE DEF r
<1>4. CallOK(r)
  BY <1>1, <1>3, ChainFacts DEF CallOK, Placed, GetOK, ListOK
<1>5. HeldOK(r)
  BY <1>1, <1>3 DEF HeldOK
<1> QED
  BY <1>2, <1>4, <1>5, CallMoves

\* A get visits one store: an outage ends it, a value ends it, a miss moves it on.
LEMMA GetKeeps ==
  ASSUME ChainInv, NEW c \in Client, GetSecret(c) PROVE ChainInv'
<1> DEFINE q == call[c]
           i == q.at
           answer == Answer(i, Name(i, q.key), q.version)
           missed == Append(q.entries, Entry(i, "notfound"))
           failed == Append(q.entries, Entry(i, "failed"))
           r == IF i \in down THEN [q EXCEPT !.result = ErrorOf(failed)]
                ELSE IF answer # NoValue THEN [q EXCEPT !.result = answer]
                ELSE [q EXCEPT !.at = i + 1, !.entries = missed]
<1>1. /\ q \in CallRecord /\ CallOK(q) /\ HeldOK(q) /\ q.op = "get" /\ q.result = "pending"
      /\ i \in Store /\ i \in Nat /\ UNCHANGED stored
  BY DEF ChainInv, GetSecret, Visiting, Pending, CallRecord
<1>2. call' = [call EXCEPT ![c] = r]
  BY DEF GetSecret
<1>3. Name(i, q.key) \in Names /\ answer \in Value \cup {NoValue}
  <2>1. q.key \in Key /\ q.version \in Version
    BY <1>1 DEF CallOK, Placed, CallRecord
  <2>2. Name(i, q.key) \in Names
    BY <1>1, <2>1, ChainFacts
  <2> QED
    BY <1>1, <2>1, <2>2, AnswerType DEF ChainInv
<1>4. missed \in Seq([store : Store, err : {"notfound", "failed"}])
  BY <1>1 DEF CallRecord, Entry
<1>5. ErrorOf(failed) = "failed"
  <2>1. Len(q.entries) + 1 \in DOMAIN failed /\ failed[Len(q.entries) + 1].err = "failed"
    BY <1>1 DEF CallRecord, Entry
  <2> HIDE DEF failed
  <2>2. \E j \in DOMAIN failed : failed[j].err = "failed"
    BY <2>1
  <2> QED
    BY <2>2 DEF ErrorOf, Unwrap
<1>6. answer = NoValue => <<i, Name(i, q.key)>> \notin q.held
  BY <1>1, <1>3 DEF HeldOK
<1> HIDE DEF answer, missed, failed
<1>7. CASE i \in down
  <2> DEFINE s == [q EXCEPT !.result = "failed"]
  <2>1. r = s
    BY <1>5, <1>7
  <2>2. /\ s \in CallRecord /\ s.op = "get" /\ s.result = "failed" /\ s.at = q.at /\ s.key = q.key
        /\ s.held = q.held /\ s.version = q.version
    BY <1>1 DEF CallRecord, Outcome
  <2> HIDE DEF s, q
  <2>3. CallOK(s) /\ HeldOK(s)
    BY <1>1, <2>2 DEF CallOK, Placed, GetOK, ListOK, HeldOK
  <2> QED
    BY <1>1, <1>2, <2>1, <2>3, CallMoves DEF q
<1>8. CASE i \notin down /\ answer # NoValue
  <2> DEFINE s == [q EXCEPT !.result = answer]
  <2>1. r = s /\ answer \in Value
    BY <1>3, <1>8
  <2>2. /\ s \in CallRecord /\ s.op = "get" /\ s.result \in Value /\ s.at = q.at /\ s.key = q.key
        /\ s.held = q.held /\ s.version = q.version
    BY <1>1, <2>1 DEF CallRecord
  <2> HIDE DEF s, q
  <2>3. CallOK(s) /\ HeldOK(s)
    BY <1>1, <2>2 DEF CallOK, Placed, GetOK, ListOK, HeldOK
  <2> QED
    BY <1>1, <1>2, <2>1, <2>3, CallMoves DEF q
<1>9. CASE i \notin down /\ answer = NoValue
  <2> DEFINE s == [q EXCEPT !.at = i + 1, !.entries = missed]
  <2>1. r = s
    BY <1>9
  <2> DEFINE m == i + 1
  <2>a. s = [q EXCEPT !.at = m, !.entries = missed] /\ m \in Nat
    BY <1>1
  <2> HIDE DEF m, q
  <2>b. /\ s \in CallRecord /\ s.op = q.op /\ s.result = q.result /\ s.at = m /\ s.key = q.key
        /\ s.held = q.held /\ s.version = q.version
    BY <1>1, <1>4, <2>a DEF CallRecord
  <2>2. /\ s \in CallRecord /\ s.op = "get" /\ s.result = "pending" /\ s.at = q.at + 1 /\ s.key = q.key
        /\ s.held = q.held /\ s.version = q.version
    BY <1>1, <2>b DEF m
  <2> HIDE DEF s
  <2>3. \A j \in Store : j < s.at => <<j, Name(j, s.key)>> \notin s.held
    <3>1. ASSUME NEW j \in Store, j < s.at PROVE j < q.at \/ j = q.at
      BY <1>1, <2>2, <3>1, ChainFacts
    <3> QED
      BY <1>1, <1>6, <1>9, <2>2, <3>1 DEF CallOK, GetOK
  <2> HIDE DEF q
  <2>4. CallOK(s) /\ HeldOK(s)
    BY <1>1, <2>2, <2>3 DEF CallOK, Placed, GetOK, ListOK, HeldOK
  <2> QED
    BY <1>1, <1>2, <2>1, <2>4, CallMoves DEF q
<1> QED
  BY <1>7, <1>8, <1>9

\* A list visits one store, and adds its names or an error.
LEMMA ListKeeps ==
  ASSUME ChainInv, NEW c \in Client, ListSecrets(c) PROVE ChainInv'
<1>0. CASE Finish(c, "expired")
  <2> DEFINE r == [call[c] EXCEPT !.result = "expired"]
  <2>1. /\ call[c] \in CallRecord /\ CallOK(call[c]) /\ HeldOK(call[c]) /\ call[c].op = "list"
        /\ UNCHANGED stored
    BY DEF ChainInv, ListSecrets, Visiting, Pending
  <2>2. call' = [call EXCEPT ![c] = r]
    BY <1>0 DEF Finish
  <2>3. /\ r \in CallRecord /\ r.op = "list" /\ r.at = call[c].at /\ r.key = call[c].key
        /\ r.held = call[c].held /\ r.version = call[c].version /\ r.value = call[c].value
        /\ r.entries = call[c].entries /\ r.seen = call[c].seen /\ r.result = "expired"
    BY <2>1 DEF CallRecord, Outcome
  <2> HIDE DEF r
  <2>4. CallOK(r) /\ HeldOK(r)
    BY <2>1, <2>3 DEF CallOK, Placed, GetOK, ListOK, HeldOK
  <2> QED
    BY <2>1, <2>2, <2>4, CallMoves
<1> SUFFICES ASSUME ~Finish(c, "expired") PROVE ChainInv'
  BY <1>0
<1> DEFINE q == call[c]
           i == q.at
           failed == Append(q.entries, Entry(i, "failed"))
           names == q.seen \cup Listed(i)
           s == IF i \in down THEN [q EXCEPT !.at = i + 1, !.entries = failed]
                ELSE [q EXCEPT !.at = i + 1, !.seen = names]
<1>1. /\ q \in CallRecord /\ CallOK(q) /\ HeldOK(q) /\ q.op = "list" /\ q.result = "pending"
      /\ i \in Store /\ i \in Nat /\ UNCHANGED stored
  BY DEF ChainInv, ListSecrets, Visiting, Pending, CallRecord
<1>2. call' = [call EXCEPT ![c] = s]
  BY DEF ListSecrets
<1>3. failed \in Seq([store : Store, err : {"notfound", "failed"}])
  BY <1>1 DEF CallRecord, Entry
<1>4. names \subseteq Names
  BY <1>1, ChainFacts DEF Listed, CallRecord
<1>5. Named(failed, i) /\ \A j : Named(q.entries, j) => Named(failed, j)
  <2>1. q.entries \in Seq([store : Store, err : {"notfound", "failed"}])
    BY <1>1 DEF CallRecord
  <2> DEFINE e == q.entries
             n == Len(q.entries)
  <2>2. n \in Nat /\ DOMAIN e = 1 .. n /\ DOMAIN failed = 1 .. n + 1
        /\ (\A j \in 1 .. n : failed[j] = e[j]) /\ failed[n + 1] = Entry(i, "failed")
    BY <2>1
  <2> HIDE DEF e, n, failed
  <2>3. n + 1 \in DOMAIN failed /\ failed[n + 1].store = i /\ 1 .. n \subseteq DOMAIN failed
    BY <2>2 DEF Entry
  <2>4. Named(failed, i) /\ \A j : Named(e, j) => Named(failed, j)
    BY <2>2, <2>3 DEF Named
  <2> QED
    BY <2>4 DEF e
<1>6. ASSUME NEW n \in Names, <<i, n>> \in q.held PROVE n \in Listed(i)
  <2>1. n \in NamesOf(i) /\ Answer(i, n, q.version) # NoValue /\ q.version = Latest
    BY <1>1, <1>6 DEF HeldOK, CallOK, Placed
  <2> QED
    BY <2>1 DEF Answer, AnswerIn, Listed
<1> DEFINE m == i + 1
<1> HIDE DEF failed, names
<1>7. s = IF i \in down THEN [q EXCEPT !.at = m, !.entries = failed]
          ELSE [q EXCEPT !.at = m, !.seen = names]
  OBVIOUS
<1>8. m \in Nat
  BY <1>1
<1> HIDE DEF m, s, q
<1>9. /\ s \in CallRecord /\ s.op = q.op /\ s.result = q.result /\ s.at = m
      /\ s.key = q.key /\ s.held = q.held /\ s.version = q.version
      /\ s.entries = IF q.at \in down THEN failed ELSE q.entries
      /\ s.seen = IF q.at \in down THEN q.seen ELSE names
  <2>1. CASE q.at \in down
    BY <1>1, <1>3, <1>7, <1>8, <2>1 DEF CallRecord
  <2>2. CASE q.at \notin down
    BY <1>1, <1>4, <1>7, <1>8, <2>2 DEF CallRecord
  <2> QED
    BY <2>1, <2>2
<1>10. HeldOK(s)
  BY <1>1, <1>9 DEF HeldOK
<1>11. ASSUME NEW j \in Store, NEW n \in Names, <<j, n>> \in s.held, j < s.at
       PROVE  n \in s.seen \/ Named(s.entries, j)
  <2>1. j < q.at \/ j = q.at
    BY <1>1, <1>9, <1>11, ChainFacts DEF m
  <2>2. CASE j < q.at
    BY <1>1, <1>5, <1>9, <1>11, <2>2 DEF CallOK, ListOK, names
  <2>3. CASE j = q.at
    BY <1>5, <1>6, <1>9, <1>11, <2>3 DEF names
  <2> QED
    BY <2>1, <2>2, <2>3
<1>12. s.at >= 1
  BY <1>1, <1>9, ChainFacts DEF m
<1>13. CallOK(s)
  BY <1>1, <1>9, <1>11, <1>12 DEF CallOK, Placed, GetOK, ListOK
<1> QED
  BY <1>1, <1>2, <1>10, <1>13, CallMoves DEF q

\* A set or a delete changes one store, or ends at its outage.
LEMMA ChangeKeeps ==
  ASSUME ChainInv, NEW c \in Client, NEW op \in {"set", "delete"}, Change(c, op) PROVE ChainInv'
<1> DEFINE q == call[c]
           i == q.at
<1>1. /\ q \in CallRecord /\ CallOK(q) /\ HeldOK(q) /\ q.op = op /\ q.result = "pending"
      /\ i \in Store /\ i \in Nat /\ q.key \in Key /\ (op = "set" => q.value \in Value)
  BY DEF ChainInv, Change, Visiting, Pending, CallRecord, CallOK, Placed
<1>2. CASE i \in down
  <2> DEFINE s == [q EXCEPT !.result = "failed"]
  <2>1. call' = [call EXCEPT ![c] = s] /\ UNCHANGED stored
    BY <1>2 DEF Change, Finish
  <2> HIDE DEF q
  <2>2. /\ s \in CallRecord /\ s.op = q.op /\ s.at = q.at /\ s.key = q.key /\ s.held = q.held
        /\ s.version = q.version /\ s.value = q.value
    BY <1>1 DEF CallRecord, Outcome
  <2> HIDE DEF s
  <2>3. CallOK(s) /\ HeldOK(s)
    BY <1>1, <2>2 DEF CallOK, Placed, GetOK, ListOK, HeldOK
  <2> QED
    BY <2>1, <2>3, CallMoves DEF q
<1>3. CASE i \notin down
  <2> DEFINE m == IF writeToFirst THEN Len(Chain) + 1 ELSE i + 1
             s == [q EXCEPT !.at = m]
             calling == [call EXCEPT ![c] = s]
  <2>1. call' = StillHeld(calling)
    BY <1>3, Zenon DEF Change
  <2>2. StoredOK'
    BY <1>1, <1>3, WriteType, ForgetType DEF Change, ChainInv
  <2>3. m \in Nat /\ m >= 1
    BY <1>1, ChainFacts
  <2> HIDE DEF m, q
  <2>4. /\ s \in CallRecord /\ s.op = q.op /\ s.at = m /\ s.key = q.key /\ s.held = q.held
        /\ s.version = q.version /\ s.value = q.value
    BY <1>1, <2>3 DEF CallRecord
  <2> HIDE DEF s
  <2>5. CallOK(s)
    BY <1>1, <2>3, <2>4 DEF CallOK, Placed, GetOK, ListOK
  <2>6. calling \in [Client -> CallRecord] /\ \A d \in Client : CallOK(calling[d])
    BY <2>4, <2>5 DEF ChainInv
  <2> HIDE DEF calling
  <2> QED
    BY <2>1, <2>2, <2>6, StoresChange
<1> QED
  BY <1>2, <1>3

\* A call that ends, or is canceled, without a visit.
LEMMA EndKeeps ==
  ASSUME ChainInv, NEW c \in Client, Canceled(c) \/ Complete(c) \/ Cancel(c) PROVE ChainInv'
<1> DEFINE q == call[c]
<1>1. q \in CallRecord /\ CallOK(q) /\ HeldOK(q) /\ q.result = "pending" /\ UNCHANGED stored
  BY DEF ChainInv, Canceled, Complete, Cancel
<1>2. CASE Canceled(c)
  <2> DEFINE s == [q EXCEPT !.result = "canceled"]
  <2>1. call' = [call EXCEPT ![c] = s]
    BY <1>2 DEF Canceled, Finish
  <2> HIDE DEF q
  <2>2. /\ s \in CallRecord /\ s.op = q.op /\ s.at = q.at /\ s.key = q.key /\ s.held = q.held
        /\ s.version = q.version /\ s.value = q.value /\ s.result = "canceled"
    BY <1>1 DEF CallRecord, Outcome
  <2>3. s.entries = q.entries /\ s.seen = q.seen
    BY <1>1 DEF CallRecord
  <2> HIDE DEF s
  <2>4. CallOK(s) /\ HeldOK(s)
    BY <1>1, <2>2, <2>3 DEF CallOK, Placed, GetOK, ListOK, HeldOK
  <2> QED
    BY <1>1, <2>1, <2>4, CallMoves DEF q
<1>3. CASE Complete(c)
  <2> DEFINE o == IF q.op = "get" THEN "notfound"
                  ELSE IF q.entries # <<>> THEN "partial" ELSE "done"
             s == [q EXCEPT !.result = o]
  <2>1. call' = [call EXCEPT ![c] = s] /\ q.at \notin Store
    BY <1>3 DEF Complete, Finish
  <2>2. o \in Outcome /\ (q.op = "list" => ((o = "partial") <=> (q.entries # <<>>)))
    BY DEF Outcome
  <2> HIDE DEF q, o
  <2>3. /\ s \in CallRecord /\ s.op = q.op /\ s.at = q.at /\ s.key = q.key /\ s.held = q.held
        /\ s.version = q.version /\ s.value = q.value /\ s.result = o
    BY <1>1, <2>2 DEF CallRecord
  <2>4. s.entries = q.entries /\ s.seen = q.seen
    BY <1>1 DEF CallRecord
  <2> HIDE DEF s
  <2>5. CallOK(s) /\ HeldOK(s)
    BY <1>1, <2>1, <2>2, <2>3, <2>4 DEF CallOK, Placed, GetOK, ListOK, HeldOK
  <2> QED
    BY <1>1, <2>1, <2>5, CallMoves DEF q
<1>4. CASE Cancel(c)
  <2> DEFINE s == [q EXCEPT !.canceled = TRUE]
  <2>1. call' = [call EXCEPT ![c] = s]
    BY <1>4 DEF Cancel
  <2> HIDE DEF q
  <2>2. /\ s \in CallRecord /\ s.op = q.op /\ s.at = q.at /\ s.key = q.key /\ s.held = q.held
        /\ s.version = q.version /\ s.value = q.value /\ s.result = q.result
    BY <1>1 DEF CallRecord
  <2>3. s.entries = q.entries /\ s.seen = q.seen
    BY <1>1 DEF CallRecord
  <2> HIDE DEF s
  <2>4. CallOK(s) /\ HeldOK(s)
    BY <1>1, <2>2, <2>3 DEF CallOK, Placed, GetOK, ListOK, HeldOK
  <2> QED
    BY <1>1, <2>1, <2>4, CallMoves DEF q
<1> QED
  BY <1>2, <1>3, <1>4

\* Clearing a memory store is noticed by every call.
LEMMA ClearKeeps ==
  ASSUME ChainInv, NEW i \in Store, Clear(i) PROVE ChainInv'
<1>1. StoredOK'
  BY ForgetType DEF Clear, ChainInv
<1>2. call' = StillHeld(call)
  BY DEF Clear
<1> QED
  BY <1>1, <1>2, StoresChange DEF ChainInv

\* A client asks, with what its operation takes.
LEMMA CallKeeps ==
  ASSUME ChainInv, NEW c \in Client, Call(c) PROVE ChainInv'
<1>1. PICK k \in Key :
        \/ \E v \in Version : Begin(c, "get", k, NoValue, v)
        \/ \E x \in Value : Begin(c, "set", k, x, Latest)
        \/ Begin(c, "delete", k, NoValue, Latest)
        \/ Begin(c, "list", k, NoValue, Latest)
  BY DEF Call
<1>2. {"get", "set", "delete", "list"} \subseteq Op \ {"none"} /\ Latest \in Version
  BY DEF Op, Version
<1>3. CASE \E v \in Version : Begin(c, "get", k, NoValue, v)
  BY <1>2, <1>3, BeginKeeps
<1>4. CASE \E x \in Value : Begin(c, "set", k, x, Latest)
  BY <1>2, <1>4, BeginKeeps
<1>5. CASE Begin(c, "delete", k, NoValue, Latest)
  BY <1>2, <1>5, BeginKeeps
<1>6. CASE Begin(c, "list", k, NoValue, Latest)
  BY <1>2, <1>6, BeginKeeps
<1> QED
  BY <1>1, <1>3, <1>4, <1>5, <1>6

\* Initially nothing has been written and nobody asks.
LEMMA ChainInit == Init => ChainInv
<1> SUFFICES ASSUME Init PROVE ChainInv
  OBVIOUS
<1>1. StoredOK
  <2>1. current \in [Store -> [Names -> Value \cup {NoValue}]]
    BY DEF Init, Names
  <2>2. <<>> \in Seq(Value)
    OBVIOUS
  <2>3. versions \in [Store -> [Names -> Seq(Value)]]
    BY <2>2 DEF Init, Names
  <2> QED
    BY <2>1, <2>3 DEF StoredOK
<1>2. \A c \in Client : call[c] = NoCall
  BY DEF Init
<1>3. call \in [Client -> CallRecord]
  BY NoCallRecord DEF Init, CallOK
<1> QED
  BY <1>1, <1>2, <1>3, NoCallRecord DEF ChainInv

\* Every step keeps the invariant.
LEMMA ChainStep == ChainInv /\ [Next]_vars => ChainInv'
<1> SUFFICES ASSUME ChainInv, [Next]_vars PROVE ChainInv'
  OBVIOUS
<1>1. ASSUME NEW c \in Client, Return(c) PROVE ChainInv'
  BY <1>1, NoCallRecord, CallMoves DEF Return
<1>2. ASSUME NEW c \in Client, SetSecret(c) \/ DeleteSecret(c) PROVE ChainInv'
  BY <1>2, ChangeKeeps DEF SetSecret, DeleteSecret
<1>3. ASSUME UNCHANGED <<stored, call>> PROVE ChainInv'
  BY <1>3 DEF ChainInv, StoredOK, CallOK, Placed, GetOK, ListOK, HeldOK, Answer, AnswerIn, stored
<1>4. ASSUME NEW i \in Store, Outage(i) PROVE ChainInv'
  BY <1>3, <1>4 DEF Outage
<1>5. CASE UNCHANGED vars
  BY <1>3, <1>5 DEF vars
<1> QED
  BY <1>1, <1>2, <1>4, <1>5, CallKeeps, GetKeeps, ListKeeps, EndKeeps, ClearKeeps DEF Next

\* The invariant holds throughout.
LEMMA ChainAlways == Spec => []ChainInv
BY ChainInit, ChainStep, PTL DEF Spec

\* Whatever fails, is canceled or is written while a get runs, its answer never
\* comes from a store of lower authority than one that has the secret, and an
\* outage never looks like an absent secret.
THEOREM AuthorityKept == Spec => []NeverMasked
<1>1. ChainInv => NeverMasked
  <2> SUFFICES ASSUME ChainInv, NEW c \in Client, call[c].op = "get"
               PROVE  LET passed == IF call[c].result \in Value THEN 1 .. call[c].at - 1
                                    ELSE IF call[c].result = "notfound" THEN Store ELSE {}
                      IN  \A i \in passed : <<i, Name(i, call[c].key)>> \notin call[c].held
    BY DEF NeverMasked
  <2> DEFINE q == call[c]
  <2>1. CallOK(q) /\ q.at \in Nat /\ q.at >= 1 /\ q.held \subseteq Store \X Names
    BY DEF ChainInv, CallOK, Placed, CallRecord
  <2> HIDE DEF q
  <2>2. q.op = "get"
    BY DEF q
  <2>3. ASSUME NEW i \in 1 .. q.at - 1 PROVE <<i, Name(i, q.key)>> \notin q.held
    BY <2>1, <2>2 DEF CallOK, GetOK
  <2>4. ASSUME NEW i \in Store, q.result = "notfound", q.result \notin Value
        PROVE  <<i, Name(i, q.key)>> \notin q.held
    <3>1. i < q.at
      BY <2>1, <2>2, <2>4, ChainFacts DEF CallOK, GetOK
    <3> QED
      BY <2>1, <2>2, <3>1 DEF CallOK, GetOK
  <2> QED
    BY <2>3, <2>4 DEF q
<1> QED
  BY <1>1, ChainAlways, PTL

\* An inventory without an error is complete, and a MultiStoreError names every store
\* whose secrets may be missing, whatever fails, recovers, is cleared or is written
\* during the listing; one that a store's own cancellation ends promises neither.
THEOREM InventoryAccounted == Spec => []InventoryComplete
<1>1. ChainInv => InventoryComplete
  <2> SUFFICES ASSUME ChainInv, NEW c \in Client, call[c].op = "list",
                      call[c].result \in {"done", "partial"}
               PROVE  /\ (call[c].result = "partial") <=> (call[c].entries # <<>>)
                      /\ \A h \in call[c].held : h[2] \in call[c].seen \/ Named(call[c].entries, h[1])
    BY DEF InventoryComplete, Accounted, Named
  <2> DEFINE q == call[c]
  <2>1. CallOK(q) /\ q.at \in Nat /\ q.at >= 1 /\ q.held \subseteq Store \X Names
    BY DEF ChainInv, CallOK, Placed, CallRecord
  <2>2. q.op = "list" /\ q.result \in {"done", "partial"}
    OBVIOUS
  <2> HIDE DEF q
  <2>3. q.at \notin Store /\ ((q.result = "partial") <=> (q.entries # <<>>))
    BY <2>1, <2>2 DEF CallOK, ListOK
  <2>4. ASSUME NEW h \in q.held PROVE h[2] \in q.seen \/ Named(q.entries, h[1])
    <3>1. h[1] \in Store /\ h[2] \in Names /\ h = <<h[1], h[2]>>
      BY <2>1
    <3>2. h[1] < q.at
      BY <2>1, <2>3, <3>1, ChainFacts
    <3> QED
      BY <2>1, <2>2, <3>1, <3>2 DEF CallOK, ListOK
  <2> QED
    BY <2>3, <2>4 DEF q
<1> QED
  BY <1>1, ChainAlways, PTL
=============================================================================
