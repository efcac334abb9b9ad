--------------------------- MODULE Values_proofs ---------------------------
(***************************************************************************)
(* Proofs about the values that enter and leave a configuration: the       *)
(* grammar of references, the keys of a map, and the numbers.              *)
(***************************************************************************)
EXTENDS Values, SequenceTheorems, WellFoundedInduction, TLAPS

-----------------------------------------------------------------------------
(* The grammar of references *)

\* The only position that ends the text from i on is the one EndOf finds.
LEMMA EndOfIs ==
  ASSUME NEW text, NEW i \in Nat, NEW j \in i..Len(text), Len(text) \in Nat,
         text[j] \in Delimiters, \A k \in i..(j - 1) : text[k] \notin Delimiters
  PROVE  EndOf(text, i) = j
<1>1. ASSUME NEW m \in i..Len(text), text[m] \in Delimiters,
             \A k \in i..(m - 1) : text[k] \notin Delimiters
      PROVE  m = j
  <2>1. ~(m < j)
    BY <1>1
  <2>2. ~(j < m)
    BY <1>1
  <2> QED
    BY <2>1, <2>2
<1> QED
  BY <1>1 DEF EndOf

\* In a text that goes on, after opening, with a component and a delimiter, the
\* component ends at that delimiter, and is what is cut out before it.
LEMMA Component ==
  ASSUME NEW opening \in Seq(Token), NEW component \in Seq(Token), NEW rest \in Seq(Token),
         Clean(component), rest # <<>>, rest[1] \in Delimiters
  PROVE  LET text == (opening \o component) \o rest
             end == Len(opening) + Len(component) + 1
         IN /\ text \in Seq(Token) /\ Len(text) = Len(opening) + Len(component) + Len(rest)
            /\ text[end] = rest[1] /\ EndOf(text, Len(opening) + 1) = end
            /\ SubSeq(text, Len(opening) + 1, end - 1) = component
            /\ \A i \in 1..Len(opening) : text[i] = opening[i]
            /\ text[Len(text)] = rest[Len(rest)]
<1> DEFINE both == opening \o component
           text == both \o rest
           n == Len(opening)
           m == Len(component)
           end == n + m + 1
<1>1. n \in Nat /\ m \in Nat /\ Len(rest) \in Nat \ {0}
  BY LenProperties, EmptySeq
<1>2. /\ both \in Seq(Token) /\ Len(both) = n + m
      /\ \A i \in 1..(n + m) : both[i] = IF i <= n THEN opening[i] ELSE component[i - n]
  BY ConcatProperties
<1>3. /\ text \in Seq(Token) /\ Len(text) = n + m + Len(rest)
      /\ \A i \in 1..(n + m + Len(rest)) : text[i] = IF i <= n + m THEN both[i] ELSE rest[i - (n + m)]
  <2> HIDE DEF both, n, m
  <2>1. /\ both \o rest \in Seq(Token) /\ Len(both \o rest) = Len(both) + Len(rest)
        /\ \A i \in 1..(Len(both) + Len(rest)) :
             (both \o rest)[i] = IF i <= Len(both) THEN both[i] ELSE rest[i - Len(both)]
    BY <1>2, ConcatProperties
  <2> QED
    BY <1>2, <2>1
<1> HIDE DEF text, both
<1>4. text[end] = rest[1]
  <2>1. end \in 1..(n + m + Len(rest)) /\ ~(end <= n + m) /\ end - (n + m) = 1
    BY <1>1
  <2> HIDE DEF end, n, m
  <2> QED
    BY <1>3, <2>1
<1>5. \A k \in 1..m : text[n + k] = component[k]
  BY <1>1, <1>2, <1>3
<1>6. EndOf(text, n + 1) = end
  <2>1. \A k \in (n + 1)..(end - 1) : text[k] \notin Delimiters
    <3> TAKE k \in (n + 1)..(end - 1)
    <3>1. k - n \in 1..m /\ text[n + (k - n)] = component[k - n]
      BY <1>1, <1>5
    <3>2. component[k - n] \notin Delimiters
      BY <3>1, LenProperties DEF Clean
    <3> QED
      BY <1>1, <3>1, <3>2
  <2>2. end \in (n + 1)..Len(text) /\ n + 1 \in Nat /\ Len(text) \in Nat
    BY <1>1, <1>3
  <2> QED
    BY <1>4, <2>1, <2>2, EndOfIs
<1>7. SubSeq(text, n + 1, end - 1) = component
  <2> DEFINE cut == SubSeq(text, n + 1, end - 1)
  <2>1. \A i \in (n + 1)..(end - 1) : text[i] \in Token
    BY <1>1, <1>3, ElementOfSeq
  <2>2. /\ cut \in Seq(Token)
        /\ Len(cut) = IF n + 1 <= end - 1 THEN (end - 1) - (n + 1) + 1 ELSE 0
        /\ \A i \in 1..((end - 1) - (n + 1) + 1) : cut[i] = text[(n + 1) + i - 1]
    <3>1. n + 1 \in Int /\ end - 1 \in Int
      BY <1>1
    <3> HIDE DEF end, n
    <3> QED
      BY <2>1, <3>1, SubSeqProperties
  <2> HIDE DEF cut
  <2>3. Len(cut) = m /\ \A i \in 1..m : cut[i] = component[i]
    BY <1>1, <1>5, <2>2
  <2>4. cut = component
    BY <2>2, <2>3, SeqEqual
  <2> QED
    BY <2>4 DEF cut
<1>8. /\ \A i \in 1..n : text[i] = opening[i]
      /\ text[Len(text)] = rest[Len(rest)]
  <2>1. \A i \in 1..n : text[i] = opening[i]
    BY <1>1, <1>2, <1>3
  <2>2. text[n + m + Len(rest)] = rest[Len(rest)]
    BY <1>1, <1>3
  <2> QED
    BY <1>3, <2>1, <2>2
<1> QED
  BY <1>3, <1>4, <1>6, <1>7, <1>8 DEF text, both

\* The same, of a text that is given another way.
CutsAt(text, before, component, rest, end) ==
  /\ text \in Seq(Token) /\ Len(text) = Len(before) + Len(component) + Len(rest)
  /\ text[end] = rest[1] /\ EndOf(text, Len(before) + 1) = end
  /\ SubSeq(text, Len(before) + 1, end - 1) = component
  /\ \A i \in 1..Len(before) : text[i] = before[i]
  /\ text[Len(text)] = rest[Len(rest)]

LEMMA CutsWhole ==
  ASSUME NEW before \in Seq(Token), NEW component \in Seq(Token), NEW rest \in Seq(Token),
         Clean(component), rest # <<>>, rest[1] \in Delimiters
  PROVE  CutsAt((before \o component) \o rest, before, component, rest,
                Len(before) + Len(component) + 1)
BY Component DEF CutsAt

LEMMA Literals ==
  /\ \A a, b \in Token : <<a, b>> \in Seq(Token)
  /\ \A a, b, c, d \in Token : <<a, b, c, d>> \in Seq(Token)
OBVIOUS

\* What opens a reference: the colon before the key is at its end.
LEMMA OpeningIs ==
  ASSUME NEW provider \in Aliases
  PROVE  /\ Opening(provider) \in Seq(Token) /\ Opening(provider)[1] = "${secret"
         /\ provider = NoAlias => Len(Opening(provider)) = 2 /\ Opening(provider)[2] = ":"
         /\ provider # NoAlias => /\ Len(Opening(provider)) = 4 /\ Opening(provider)[2] = "@"
                                  /\ Opening(provider)[3] = provider /\ Opening(provider)[4] = ":"
<1>1. provider # NoAlias => provider \in Token
  BY ReferenceAssumption DEF Aliases
<1>2. "${secret" \in Token /\ "@" \in Token /\ ":" \in Token
  BY ReferenceAssumption DEF Delimiters
<1>3. CASE provider = NoAlias
  <2> DEFINE tuple == <<"${secret", ":">>
  <2>1. Opening(provider) = tuple
    BY <1>3 DEF Opening
  <2>2. tuple \in Seq(Token)
    BY <1>2, Literals
  <2>3. Len(tuple) = 2 /\ tuple[1] = "${secret" /\ tuple[2] = ":"
    OBVIOUS
  <2> HIDE DEF tuple
  <2> QED
    BY <1>3, <2>1, <2>2, <2>3
<1>4. CASE provider # NoAlias
  <2> DEFINE tuple == <<"${secret", "@", provider, ":">>
  <2>1. Opening(provider) = tuple
    BY <1>4 DEF Opening
  <2>2. tuple \in Seq(Token)
    BY <1>1, <1>2, <1>4, Literals
  <2>3. /\ Len(tuple) = 4 /\ tuple[1] = "${secret" /\ tuple[2] = "@"
        /\ tuple[3] = provider /\ tuple[4] = ":"
    OBVIOUS
  <2> HIDE DEF tuple
  <2> QED
    BY <1>4, <2>1, <2>2, <2>3
<1> QED
  BY <1>3, <1>4

\* The text opens with the alias of the provider, and ends where a component does.
Opens(provider, text) ==
  /\ \A i \in 1..Len(Opening(provider)) : text[i] = Opening(provider)[i]
  /\ Len(text) > Len(Opening(provider)) /\ text[Len(text)] = "}"

\* Where its key, its field and its version end.
EndsAt(colon, text, key, field, version) ==
  /\ key = EndOf(text, colon + 1) /\ key > colon + 1
  /\ field = IF text[key] = ":" THEN EndOf(text, key + 1) ELSE key
  /\ version = IF field > key /\ text[field] = ":" THEN EndOf(text, field + 1) ELSE field
  /\ version # field + 1 /\ version = Len(text)

\* What a text parses to, given where its components end.
LEMMA ParseIs ==
  ASSUME NEW provider \in Aliases, NEW text \in Seq(Token),
         NEW key \in Nat, NEW field \in Nat, NEW version \in Nat,
         Opens(provider, text), EndsAt(Len(Opening(provider)), text, key, field, version)
  PROVE  Parse(text) =
           [ok |-> TRUE,
            ref |-> Reference(provider, SubSeq(text, Len(Opening(provider)) + 1, key - 1),
                              SubSeq(text, key + 1, field - 1),
                              SubSeq(text, field + 1, version - 1))]
<1> DEFINE opening == Opening(provider)
           colon == Len(opening)
           routed == Len(text) > 2 /\ text[2] = "@"
<1>1. colon \in {2, 4} /\ Len(text) \in Nat /\ Len(text) > colon
  BY OpeningIs, LenProperties DEF Opens
<1>2. \A i \in 1..colon : text[i] = opening[i]
  BY DEF Opens
<1>3. CASE provider = NoAlias
  <2>0. colon = 2
    BY <1>3, OpeningIs, Zenon
  <2>1. /\ colon = 2 /\ text[1] = "${secret" /\ text[2] = ":"
    <3>1. colon = 2 /\ opening[1] = "${secret" /\ opening[2] = ":"
      BY <1>3, OpeningIs
    <3> HIDE DEF colon, opening
    <3>2. 1 \in 1..colon /\ 2 \in 1..colon
      BY <2>0
    <3>3. text[1] = opening[1] /\ text[2] = opening[2]
      BY <1>2, <3>2, Zenon
    <3> QED
      BY <3>1, <3>3, Zenon
  <2>2. ~routed
    BY <2>1
  <2> QED
    BY <1>1, <1>3, <2>0, <2>1, <2>2 DEF Parse, Opens, EndsAt
<1>4. CASE provider # NoAlias
  <2>0. colon = 4
    BY <1>4, OpeningIs, Zenon
  <2>1. /\ colon = 4 /\ text[1] = "${secret" /\ text[2] = "@" /\ text[3] = provider
        /\ text[4] = ":"
    <3>1. /\ colon = 4 /\ opening[1] = "${secret" /\ opening[2] = "@"
          /\ opening[3] = provider /\ opening[4] = ":"
      BY <1>4, OpeningIs
    <3> HIDE DEF colon, opening
    <3>2. 1 \in 1..colon /\ 2 \in 1..colon /\ 3 \in 1..colon /\ 4 \in 1..colon
      BY <2>0
    <3>3. /\ text[1] = opening[1] /\ text[2] = opening[2]
          /\ text[3] = opening[3] /\ text[4] = opening[4]
      BY <1>2, <3>2, Zenon
    <3> QED
      BY <3>1, <3>3, Zenon
  <2>2. routed
    <3>1. Len(text) > 2
      BY <1>1, <2>0
    <3> QED
      BY <2>1, <3>1, Zenon
  <2> QED
    BY <1>1, <1>4, <2>0, <2>1, <2>2 DEF Parse, Opens, EndsAt
<1> QED
  BY <1>3, <1>4

\* The ways in which what is written out can be read as an opening, a
\* component and the rest.  Cat is concatenation.
Cat(s, t) == s \o t

LEMMA CatSeq ==
  ASSUME NEW S, NEW s \in Seq(S), NEW t \in Seq(S)
  PROVE  Cat(s, t) \in Seq(S)
BY DEF Cat

LEMMA CatAssociative ==
  ASSUME NEW S, NEW s \in Seq(S), NEW t \in Seq(S), NEW u \in Seq(S)
  PROVE  Cat(Cat(s, t), u) = Cat(s, Cat(t, u))
BY ConcatAssociative DEF Cat

LEMMA Regroup ==
  ASSUME NEW S, NEW a \in Seq(S), NEW f \in Seq(S), NEW v \in Seq(S), NEW c \in Seq(S),
         NEW b \in Seq(S)
  PROVE  /\ Cat(Cat(a, Cat(c, f)), b) = Cat(a, Cat(c, Cat(f, b)))
         /\ Cat(Cat(a, Cat(c, f)), b) = Cat(Cat(Cat(a, c), f), b)
         /\ Cat(Cat(a, Cat(Cat(Cat(c, f), c), v)), b) = Cat(a, Cat(c, Cat(f, Cat(c, Cat(v, b)))))
         /\ Cat(Cat(a, Cat(Cat(Cat(c, f), c), v)), b) = Cat(Cat(Cat(a, c), f), Cat(c, Cat(v, b)))
         /\ Cat(Cat(a, Cat(Cat(Cat(c, f), c), v)), b) = Cat(Cat(Cat(Cat(Cat(a, c), f), c), v), b)
<1> DEFINE seqs == Seq(S)
<1>1. ASSUME NEW s \in seqs, NEW t \in seqs
      PROVE  Cat(s, t) \in seqs
  BY CatSeq
<1>2. ASSUME NEW s \in seqs, NEW t \in seqs, NEW u \in seqs
      PROVE  Cat(Cat(s, t), u) = Cat(s, Cat(t, u))
  BY CatAssociative
<1>3. a \in seqs /\ f \in seqs /\ v \in seqs /\ c \in seqs /\ b \in seqs
  OBVIOUS
<1> HIDE DEF seqs
<1> DEFINE ac == Cat(a, c)
           cf == Cat(c, f)
           vb == Cat(v, b)
           acf == Cat(ac, f)
           acfc == Cat(acf, c)
           cfc == Cat(cf, c)
<1>4. ac \in seqs /\ cf \in seqs /\ vb \in seqs /\ acf \in seqs /\ acfc \in seqs /\ cfc \in seqs
      /\ Cat(f, b) \in seqs /\ Cat(c, vb) \in seqs /\ Cat(f, Cat(c, vb)) \in seqs
      /\ Cat(c, v) \in seqs /\ Cat(f, Cat(c, v)) \in seqs
  BY <1>1, <1>3
<1>5. Cat(Cat(a, cf), b) = Cat(a, Cat(c, Cat(f, b)))
  BY <1>2, <1>3, <1>4
<1>6. Cat(Cat(a, cf), b) = Cat(acf, b)
  BY <1>2, <1>3
<1>7. Cat(a, Cat(cfc, v)) = Cat(acfc, v)
  <2>1. Cat(cfc, v) = Cat(c, Cat(f, Cat(c, v)))
    BY <1>2, <1>3, <1>4
  <2>2. Cat(acfc, v) = Cat(acf, Cat(c, v))
    BY <1>2, <1>3, <1>4
  <2>3. Cat(acf, Cat(c, v)) = Cat(a, Cat(c, Cat(f, Cat(c, v))))
    BY <1>2, <1>3, <1>4
  <2> QED
    BY <2>1, <2>2, <2>3
<1>8. Cat(Cat(acfc, v), b) = Cat(acf, Cat(c, vb))
  BY <1>2, <1>3, <1>4
<1>9. Cat(acf, Cat(c, vb)) = Cat(a, Cat(c, Cat(f, Cat(c, vb))))
  BY <1>2, <1>3, <1>4
<1> QED
  BY <1>5, <1>6, <1>7, <1>8, <1>9

\* What starts with a delimiter.
LEMMA Starts ==
  ASSUME NEW c \in Token, NEW s \in Seq(Token)
  PROVE  /\ <<c>> \in Seq(Token) /\ Len(<<c>>) = 1 /\ <<c>>[1] = c /\ <<c>> # <<>>
         /\ <<c>> \o s \in Seq(Token) /\ (<<c>> \o s)[1] = c /\ <<c>> \o s # <<>>
<1> DEFINE first == <<c>>
           whole == first \o s
<1>1. first \in Seq(Token) /\ Len(first) = 1 /\ first[1] = c /\ first # <<>>
  OBVIOUS
<1> HIDE DEF first
<1>2. /\ first \o s \in Seq(Token) /\ Len(first \o s) = Len(first) + Len(s)
      /\ \A i \in 1..(Len(first) + Len(s)) :
           (first \o s)[i] = IF i <= Len(first) THEN first[i] ELSE s[i - Len(first)]
  BY <1>1, ConcatProperties
<1>3. Len(s) \in Nat
  BY LenProperties
<1> HIDE DEF whole
<1>4. whole \in Seq(Token) /\ Len(whole) = 1 + Len(s) /\ whole[1] = c
  BY <1>1, <1>2, <1>3 DEF whole
<1>5. whole # <<>>
  BY <1>3, <1>4, EmptySeq
<1> QED
  BY <1>1, <1>4, <1>5 DEF whole, first

\* What is read back from a text whose components end where EndsAt says.
Reads(text, provider, key, field, version) ==
  Parse(text) = [ok |-> TRUE, ref |-> Reference(provider, key, field, version)]

\* A text of a reference with a key alone.
LEMMA KeyReadsBack ==
  ASSUME NEW provider \in Aliases, NEW key \in Seq(Token), key # <<>>, Clean(key)
  PROVE  Reads((Opening(provider) \o key) \o <<"}">>, provider, key, <<>>, <<>>)
<1> DEFINE opening == Opening(provider)
           brace == <<"}">>
           text == (opening \o key) \o brace
           k == Len(opening) + Len(key) + 1
<1>1. opening \in Seq(Token) /\ Len(opening) \in Nat /\ Len(key) \in Nat \ {0} /\ k \in Nat
  <2>1. opening \in Seq(Token)
    BY OpeningIs
  <2> HIDE DEF opening
  <2> QED
    BY <2>1, LenProperties, EmptySeq
<1>2. brace \in Seq(Token) /\ Len(brace) = 1 /\ brace[1] = "}" /\ brace # <<>>
  BY Starts, EmptySeq, ReferenceAssumption DEF Delimiters
<1>3. "}" \in Delimiters /\ "}" # ":"
  BY DEF Delimiters
<1> HIDE DEF opening, brace
<1>4. CutsAt(text, opening, key, brace, k)
  BY <1>1, <1>2, <1>3, CutsWhole
<1> HIDE DEF text
<1>5. /\ text \in Seq(Token) /\ Len(text) = k /\ text[k] = "}" /\ EndOf(text, Len(opening) + 1) = k
      /\ SubSeq(text, Len(opening) + 1, k - 1) = key /\ \A i \in 1..Len(opening) : text[i] = opening[i]
  BY <1>1, <1>2, <1>4 DEF CutsAt
<1> HIDE DEF k
<1>6. Opens(provider, text)
  <2>1. k > Len(opening)
    BY <1>1 DEF k
  <2> QED
    BY <1>5, <2>1 DEF Opens, opening
<1>7. EndsAt(Len(Opening(provider)), text, k, k, k)
  <2>1. k > Len(opening) + 1
    BY <1>1 DEF k
  <2>2. k # k + 1 /\ ~(k > k)
    BY <1>1
  <2> QED
    BY <1>3, <1>5, <2>1, <2>2 DEF EndsAt, opening
<1>8. SubSeq(text, k + 1, k - 1) = <<>>
  BY <1>1, SubSeqEmpty
<1>9. Parse(text) =
        [ok |-> TRUE,
         ref |-> Reference(provider, SubSeq(text, Len(Opening(provider)) + 1, k - 1),
                           SubSeq(text, k + 1, k - 1), SubSeq(text, k + 1, k - 1))]
  <2>1. k \in Nat /\ text \in Seq(Token)
    BY <1>1, <1>5
  <2> QED
    BY <1>6, <1>7, <2>1, ParseIs, Zenon
<1> QED
  BY <1>5, <1>8, <1>9 DEF Reads, text, opening, brace

\* A text of a reference with a key and a field.
LEMMA FieldReadsBack ==
  ASSUME NEW provider \in Aliases, NEW key \in Seq(Token), key # <<>>, Clean(key),
         NEW field \in Seq(Token), field # <<>>, Clean(field)
  PROVE  Reads(((Opening(provider) \o key) \o (<<":">> \o field)) \o <<"}">>, provider, key, field, <<>>)
<1> DEFINE opening == Opening(provider)
           brace == <<"}">>
           colon == <<":">>
           front == opening \o key
           whole == (front \o (colon \o field)) \o brace
           text == whole
           k == Len(opening) + Len(key) + 1
           f == k + Len(field) + 1
<1>1. opening \in Seq(Token) /\ Len(opening) \in Nat /\ Len(key) \in Nat \ {0} /\ k \in Nat
      /\ Len(field) \in Nat \ {0} /\ f \in Nat
  <2>1. opening \in Seq(Token)
    BY OpeningIs
  <2> HIDE DEF opening
  <2> QED
    BY <2>1, LenProperties, EmptySeq
<1>2. brace \in Seq(Token) /\ Len(brace) = 1 /\ brace[1] = "}" /\ brace # <<>>
  BY Starts, EmptySeq, ReferenceAssumption DEF Delimiters
<1>3. "}" \in Delimiters /\ ":" \in Delimiters /\ "}" # ":" /\ ":" \in Token
  BY ReferenceAssumption DEF Delimiters
<1>4. colon \in Seq(Token) /\ Len(colon) = 1
  BY <1>3, Starts
<1> HIDE DEF opening, brace
<1>5. /\ front \in Seq(Token) /\ Len(front) = k - 1
      /\ \A i \in 1..Len(opening) : front[i] = opening[i]
  BY <1>1, ConcatProperties
<1> DEFINE last == field \o brace
           rest == colon \o last
           next == front \o colon
<1>6. last \in Seq(Token)
  BY <1>2, ConcatProperties
<1>7. rest \in Seq(Token) /\ rest[1] = ":" /\ rest # <<>>
  <2> HIDE DEF last
  <2> QED
    BY <1>3, <1>6, Starts
<1> HIDE DEF colon, front
<1>8. text = front \o rest /\ text = (next \o field) \o brace
  <2>1. front \in Seq(Token) /\ colon \in Seq(Token) /\ brace \in Seq(Token) /\ field \in Seq(Token)
    BY <1>2, <1>4, <1>5
  <2> DEFINE two == Cat(Cat(front, Cat(colon, field)), brace)
  <2>2. two = Cat(front, Cat(colon, Cat(field, brace)))
        /\ two = Cat(Cat(Cat(front, colon), field), brace)
    BY <2>1, Regroup, SMTT(20)
  <2> QED
    BY <2>2 DEF Cat
<1>9. next \in Seq(Token) /\ Len(next) = k
  <2>1. next \in Seq(Token) /\ Len(next) = Len(front) + Len(colon)
    BY <1>4, <1>5, ConcatProperties
  <2> HIDE DEF next, k
  <2> QED
    BY <1>1, <1>4, <1>5, <2>1
<1> HIDE DEF whole, text, rest, next
<1>10. CutsAt(text, opening, key, rest, k)
  <2>1. CutsAt((opening \o key) \o rest, opening, key, rest, Len(opening) + Len(key) + 1)
    BY <1>1, <1>3, <1>7, CutsWhole
  <2> QED
    BY <1>8, <2>1 DEF front, k
<1>11. CutsAt(text, next, field, brace, f)
  <2>1. CutsAt((next \o field) \o brace, next, field, brace, Len(next) + Len(field) + 1)
    BY <1>2, <1>3, <1>9, CutsWhole
  <2> QED
    BY <1>8, <1>9, <2>1 DEF f
<1>12. /\ text \in Seq(Token) /\ text[k] = ":" /\ EndOf(text, Len(opening) + 1) = k
       /\ SubSeq(text, Len(opening) + 1, k - 1) = key /\ \A i \in 1..Len(opening) : text[i] = opening[i]
  BY <1>1, <1>7, <1>10 DEF CutsAt
<1>13. /\ Len(text) = f /\ text[f] = "}" /\ EndOf(text, k + 1) = f
       /\ SubSeq(text, k + 1, f - 1) = field
  BY <1>1, <1>2, <1>9, <1>11 DEF CutsAt
<1>14. k > Len(opening) + 1 /\ f > k /\ f # f + 1 /\ k \in Nat /\ f \in Nat /\ f > Len(opening)
  BY <1>1
<1> HIDE DEF k, f
<1>15. Opens(provider, text)
  BY <1>12, <1>13, <1>14 DEF Opens, opening
<1>16. EndsAt(Len(Opening(provider)), text, k, f, f)
  BY <1>3, <1>12, <1>13, <1>14 DEF EndsAt, opening
<1>17. SubSeq(text, f + 1, f - 1) = <<>>
  BY <1>14, SubSeqEmpty
<1>18. Parse(text) =
        [ok |-> TRUE,
         ref |-> Reference(provider, SubSeq(text, Len(Opening(provider)) + 1, k - 1),
                           SubSeq(text, k + 1, f - 1), SubSeq(text, f + 1, f - 1))]
  <2>1. k \in Nat /\ f \in Nat /\ text \in Seq(Token)
    BY <1>12, <1>14
  <2> QED
    BY <1>15, <1>16, <2>1, ParseIs, Zenon
<1> QED
  BY <1>12, <1>13, <1>17, <1>18 DEF Reads, text, whole, front, colon, opening, brace

\* A text of a reference with a version, and a field or none.
LEMMA VersionReadsBack ==
  ASSUME NEW provider \in Aliases, NEW key \in Seq(Token), key # <<>>, Clean(key),
         NEW field \in Seq(Token), Clean(field),
         NEW version \in Seq(Token), version # <<>>, Clean(version)
  PROVE  Reads(((Opening(provider) \o key) \o (((<<":">> \o field) \o <<":">>) \o version)) \o <<"}">>,
               provider, key, field, version)
<1> DEFINE opening == Opening(provider)
           brace == <<"}">>
           colon == <<":">>
           front == opening \o key
           whole == (front \o (((colon \o field) \o colon) \o version)) \o brace
           text == whole
           k == Len(opening) + Len(key) + 1
           f == k + Len(field) + 1
           v == f + Len(version) + 1
<1>1. opening \in Seq(Token) /\ Len(opening) \in Nat /\ Len(key) \in Nat \ {0} /\ k \in Nat
      /\ Len(field) \in Nat /\ f \in Nat /\ Len(version) \in Nat \ {0} /\ v \in Nat
  <2>1. opening \in Seq(Token)
    BY OpeningIs
  <2> HIDE DEF opening
  <2> QED
    BY <2>1, LenProperties, EmptySeq
<1>2. brace \in Seq(Token) /\ Len(brace) = 1 /\ brace[1] = "}" /\ brace # <<>>
  BY Starts, EmptySeq, ReferenceAssumption DEF Delimiters
<1>3. "}" \in Delimiters /\ ":" \in Delimiters /\ "}" # ":" /\ ":" \in Token
  BY ReferenceAssumption DEF Delimiters
<1>4. colon \in Seq(Token) /\ Len(colon) = 1
  BY <1>3, Starts
<1> HIDE DEF opening, brace
<1>5. /\ front \in Seq(Token) /\ Len(front) = k - 1
      /\ \A i \in 1..Len(opening) : front[i] = opening[i]
  BY <1>1, ConcatProperties
<1> DEFINE tail == version \o brace
           final == colon \o tail
           last == field \o final
           rest == colon \o last
           next == front \o colon
           upto == next \o field
           further == upto \o colon
<1>6. tail \in Seq(Token)
  BY <1>2, ConcatProperties
<1>7. final \in Seq(Token) /\ final[1] = ":" /\ final # <<>>
  <2> HIDE DEF tail
  <2> QED
    BY <1>3, <1>6, Starts
<1>8. rest \in Seq(Token) /\ rest[1] = ":" /\ rest # <<>>
  <2>1. last \in Seq(Token)
    <3> HIDE DEF final
    <3> QED
      BY <1>7, ConcatProperties
  <2> HIDE DEF last
  <2> QED
    BY <1>3, <2>1, Starts
<1> HIDE DEF colon, front
<1>9. text = front \o rest /\ text = upto \o final /\ text = (further \o version) \o brace
  <2>1. front \in Seq(Token) /\ colon \in Seq(Token) /\ brace \in Seq(Token) /\ field \in Seq(Token)
    BY <1>2, <1>4, <1>5
  <2> DEFINE three == Cat(Cat(front, Cat(Cat(Cat(colon, field), colon), version)), brace)
  <2>2. /\ three = Cat(front, Cat(colon, Cat(field, Cat(colon, Cat(version, brace)))))
        /\ three = Cat(Cat(Cat(front, colon), field), Cat(colon, Cat(version, brace)))
        /\ three = Cat(Cat(Cat(Cat(Cat(front, colon), field), colon), version), brace)
    BY <2>1, Regroup, SMTT(20)
  <2> QED
    BY <2>2 DEF Cat
<1>10. next \in Seq(Token) /\ Len(next) = k
  <2>1. next \in Seq(Token) /\ Len(next) = Len(front) + Len(colon)
    BY <1>4, <1>5, ConcatProperties
  <2> HIDE DEF next, k
  <2> QED
    BY <1>1, <1>4, <1>5, <2>1
<1>11. further \in Seq(Token) /\ Len(further) = f
  <2> HIDE DEF next
  <2>1. upto \in Seq(Token) /\ Len(upto) = Len(next) + Len(field)
    BY <1>10, ConcatProperties
  <2> HIDE DEF upto
  <2>2. further \in Seq(Token) /\ Len(further) = Len(upto) + Len(colon)
    BY <1>4, <2>1, ConcatProperties
  <2> HIDE DEF further, k
  <2> QED
    BY <1>1, <1>4, <1>10, <2>1, <2>2
<1> HIDE DEF whole, text, rest, final, next, upto, further
<1>12. CutsAt(text, opening, key, rest, k)
  <2>1. CutsAt((opening \o key) \o rest, opening, key, rest, Len(opening) + Len(key) + 1)
    BY <1>1, <1>3, <1>8, CutsWhole
  <2> QED
    BY <1>9, <2>1 DEF front, k
<1>13. CutsAt(text, next, field, final, f)
  <2>1. CutsAt((next \o field) \o final, next, field, final, Len(next) + Len(field) + 1)
    BY <1>3, <1>7, <1>10, CutsWhole
  <2> QED
    BY <1>9, <1>10, <2>1 DEF f, upto
<1>14. CutsAt(text, further, version, brace, v)
  <2>1. CutsAt((further \o version) \o brace, further, version, brace, Len(further) + Len(version) + 1)
    BY <1>2, <1>3, <1>11, CutsWhole
  <2> QED
    BY <1>9, <1>11, <2>1 DEF v
<1>15. /\ text \in Seq(Token) /\ text[k] = ":" /\ EndOf(text, Len(opening) + 1) = k
       /\ SubSeq(text, Len(opening) + 1, k - 1) = key /\ \A i \in 1..Len(opening) : text[i] = opening[i]
  BY <1>1, <1>8, <1>12 DEF CutsAt
<1>16. text[f] = ":" /\ EndOf(text, k + 1) = f /\ SubSeq(text, k + 1, f - 1) = field
  BY <1>1, <1>7, <1>10, <1>13 DEF CutsAt
<1>17. /\ Len(text) = v /\ text[v] = "}" /\ EndOf(text, f + 1) = v
       /\ SubSeq(text, f + 1, v - 1) = version
  BY <1>1, <1>2, <1>11, <1>14 DEF CutsAt
<1>18. /\ k > Len(opening) + 1 /\ f > k /\ v # f + 1 /\ k \in Nat /\ f \in Nat /\ v \in Nat
       /\ v > Len(opening)
  BY <1>1
<1> HIDE DEF k, f, v
<1>19. Opens(provider, text)
  BY <1>15, <1>17, <1>18 DEF Opens, opening
<1>20. EndsAt(Len(Opening(provider)), text, k, f, v)
  BY <1>3, <1>15, <1>16, <1>17, <1>18 DEF EndsAt, opening
<1>21. Parse(text) =
        [ok |-> TRUE,
         ref |-> Reference(provider, SubSeq(text, Len(Opening(provider)) + 1, k - 1),
                           SubSeq(text, k + 1, f - 1), SubSeq(text, f + 1, v - 1))]
  <2>1. k \in Nat /\ f \in Nat /\ v \in Nat /\ text \in Seq(Token)
    BY <1>15, <1>18
  <2> QED
    BY <1>19, <1>20, <2>1, ParseIs
<1> QED
  BY <1>15, <1>16, <1>17, <1>21 DEF Reads, text, whole, front, colon, opening, brace

\* Every reference that can be written reads back as itself.
LEMMA WrittenReadsBack ==
  ASSUME NEW provider \in Aliases, NEW key \in Seq(Token), NEW field \in Seq(Token),
         NEW version \in Seq(Token), key # <<>>, Clean(key), Clean(field), Clean(version)
  PROVE  Reads(WriteOut(Reference(provider, key, field, version)), provider, key, field, version)
<1> DEFINE ref == Reference(provider, key, field, version)
           front == Opening(provider) \o key
<1>1. /\ ref.provider = provider /\ ref.key = key
      /\ ref.field = field /\ ref.version = version
  BY DEF Reference
<1> HIDE DEF ref
<1>2. CASE version # <<>>
  <2>1. WriteOut(ref) = (front \o (((<<":">> \o field) \o <<":">>) \o version)) \o <<"}">>
    BY <1>1, <1>2 DEF WriteOut
  <2> QED
    BY <1>2, <2>1, VersionReadsBack DEF ref
<1>3. CASE version = <<>> /\ field # <<>>
  <2>1. WriteOut(ref) = (front \o (<<":">> \o field)) \o <<"}">>
    BY <1>1, <1>3 DEF WriteOut
  <2> QED
    BY <1>3, <2>1, FieldReadsBack DEF ref
<1>4. CASE version = <<>> /\ field = <<>>
  <2>1. WriteOut(ref) = (front \o <<>>) \o <<"}">>
    BY <1>1, <1>4 DEF WriteOut
  <2>2. Opening(provider) \in Seq(Token)
    BY OpeningIs
  <2>3. front \in Seq(Token)
    BY <2>2, ConcatProperties
  <2> HIDE DEF front
  <2>4. front \o <<>> = front
    BY <2>3, ConcatEmptySeq
  <2>5. WriteOut(ref) = (Opening(provider) \o key) \o <<"}">>
    BY <2>1, <2>4 DEF front
  <2> QED
    BY <1>4, <2>5, KeyReadsBack DEF ref
<1> QED
  BY <1>2, <1>3, <1>4

\* A reference that was built by hand, for every one of them: one that can be
\* written reads back as itself, and the diagnostic that stands for any other
\* is not read as a reference (internal/secretref/reference.go).
LEMMA EveryReferenceReadsBack ==
  ASSUME NEW ref \in Handmade
  PROVE  Parse(String(ref)) = IF Validate(ref) THEN [ok |-> TRUE, ref |-> ref] ELSE Unparsed
<1>1. /\ ref.key \in Seq(Token) /\ ref.field \in Seq(Token) /\ ref.version \in Seq(Token)
      /\ ref = Reference(ref.provider, ref.key, ref.field, ref.version)
  BY ValuesAssumption
<1>2. CASE Validate(ref)
  <2>1. /\ ref.provider \in Aliases /\ ref.key # <<>>
        /\ Clean(ref.key) /\ Clean(ref.field) /\ Clean(ref.version)
    BY <1>2 DEF Validate
  <2>2. Reads(WriteOut(Reference(ref.provider, ref.key, ref.field, ref.version)),
              ref.provider, ref.key, ref.field, ref.version)
    BY <1>1, <2>1, WrittenReadsBack
  <2> QED
    BY <1>1, <1>2, <2>2 DEF Reads, String
<1>3. CASE ~Validate(ref)
  <2> DEFINE text == <<"%!secret(...)">>
  <2>1. text[1] # "${secret"
    OBVIOUS
  <2> HIDE DEF text
  <2>2. Parse(text) = Unparsed
    BY <2>1 DEF Parse
  <2>3. String(ref) = text
    BY <1>3 DEF String, text
  <2> QED
    BY <1>3, <2>2, <2>3
<1> QED
  BY <1>2, <1>3

\* What a reference that was written out has become.
WrittenOut ==
  /\ journey = "write out" => given \in Handmade
  /\ journey = "written out" => given \in Handmade /\ made = Parse(String(given))

THEOREM ReferencesRoundTrip == Spec => []ReferenceRoundTrip
<1>1. Init => WrittenOut
  BY DEF Init, WrittenOut
<1>2. WrittenOut /\ [Next]_vars => WrittenOut'
  <2> SUFFICES ASSUME WrittenOut, [Next]_vars
               PROVE  WrittenOut'
    OBVIOUS
  <2>1. CASE NormalizeKeys
    BY <2>1 DEF NormalizeKeys, WrittenOut
  <2>2. CASE ReadTyped
    BY <2>2 DEF ReadTyped, WrittenOut
  <2>3. CASE WriteReference
    BY <2>3 DEF WriteReference, WrittenOut
  <2>4. CASE UNCHANGED vars
    BY <2>4 DEF vars, WrittenOut
  <2> QED
    BY <2>1, <2>2, <2>3, <2>4 DEF Next
<1>3. WrittenOut => ReferenceRoundTrip
  BY EveryReferenceReadsBack DEF WrittenOut, ReferenceRoundTrip
<1> QED
  BY <1>1, <1>2, <1>3, PTL DEF Spec

-----------------------------------------------------------------------------
(* The keys of a map *)

\* Why a map is refused, whatever the order of its keys.
Ambiguous(entries) ==
  \E e1, e2 \in entries : e1.key # e2.key /\ e1.key.text = e2.key.text
                         /\ Coercible(e1.key) /\ Coercible(e2.key)
Refused(entries) == Ambiguous(entries) \/ \E e \in entries : ~Coercible(e.key) \/ ~e.sound

\* Where the iteration is: the entries it has left behind are sound, have keys
\* of their own, and are all there; it stops for a reason that any order finds.
Seen == given \ todo
KeysInv ==
  journey = "normalize" =>
    /\ given \in Documents /\ todo \subseteq given
    /\ made = [keys |-> made.keys, from |-> made.from, error |-> made.error]
    /\ made.error \in BOOLEAN
    /\ made.error => Refused(given)
    /\ ~made.error =>
         /\ \A e \in Seen : Coercible(e.key) /\ e.sound
         /\ \A e1, e2 \in Seen : e1.key.text = e2.key.text => e1.key = e2.key
         /\ made.keys = {e.key.text : e \in Seen}

LEMMA KeysInit == Init => KeysInv
<1> SUFFICES ASSUME Init, journey = "normalize"
             PROVE  KeysInv
  BY DEF KeysInv
<1>1. /\ given \in Documents /\ todo = given
      /\ made = [keys |-> {}, from |-> {}, error |-> FALSE]
  BY DEF Init
<1>2. Seen = {}
  BY <1>1 DEF Seen
<1> QED
  BY <1>1, <1>2 DEF KeysInv

LEMMA KeysNext == KeysInv /\ [Next]_vars => KeysInv'
<1> SUFFICES ASSUME KeysInv, [Next]_vars
             PROVE  KeysInv'
  OBVIOUS
<1>1. CASE NormalizeKeys
  <2> PICK e \in todo : /\ made' = NormalizeKey(made, e.key, e.sound)
                        /\ todo' = todo \ {e}
    BY <1>1 DEF NormalizeKeys
  <2>1. /\ journey = "normalize" /\ journey' = journey /\ given' = given /\ ~made.error
        /\ given \in Documents /\ todo \subseteq given /\ e \in given
        /\ made = [keys |-> made.keys, from |-> made.from, error |-> made.error]
    BY <1>1 DEF NormalizeKeys, KeysInv
  <2>2. /\ \A s \in Seen : Coercible(s.key) /\ s.sound
        /\ \A e1, e2 \in Seen : e1.key.text = e2.key.text => e1.key = e2.key
        /\ made.keys = {s.key.text : s \in Seen}
    BY <2>1 DEF KeysInv
  <2>3. Seen' = Seen \cup {e} /\ Seen \subseteq given
    BY <2>1 DEF Seen
  <2>4. \A s \in Seen : s.key # e.key
    BY <2>1, ValuesAssumption DEF Seen
  <2>5. CASE ~Coercible(e.key) \/ ~e.sound
    <3>1. made' = [keys |-> made.keys, from |-> made.from, error |-> TRUE]
      BY <2>1, <2>5 DEF NormalizeKey
    <3>2. Refused(given)
      BY <2>1, <2>5 DEF Refused
    <3> QED
      BY <2>1, <3>1, <3>2 DEF KeysInv
  <2>6. CASE Coercible(e.key) /\ e.sound /\ e.key.text \in made.keys
    <3>1. made' = [keys |-> made.keys, from |-> made.from, error |-> TRUE]
      BY <2>1, <2>6 DEF NormalizeKey
    <3>2. PICK s \in Seen : s.key.text = e.key.text
      BY <2>2, <2>6
    <3>3. Refused(given)
      BY <2>1, <2>2, <2>3, <2>4, <2>6, <3>2 DEF Refused, Ambiguous
    <3> QED
      BY <2>1, <3>1, <3>3 DEF KeysInv
  <2>7. CASE Coercible(e.key) /\ e.sound /\ e.key.text \notin made.keys
    <3>1. made' = [keys |-> made.keys \cup {e.key.text}, from |-> made.from \cup {e.key},
                   error |-> made.error]
      BY <2>1, <2>7 DEF NormalizeKey
    <3>2. made'.keys = made.keys \cup {e.key.text} /\ ~made'.error
          /\ made' = [keys |-> made'.keys, from |-> made'.from, error |-> made'.error]
          /\ made'.error = made.error
      BY <2>1, <3>1
    <3>3. made'.keys = {s.key.text : s \in Seen'}
      BY <2>2, <2>3, <3>2
    <3>4. \A s \in Seen' : Coercible(s.key) /\ s.sound
      BY <2>2, <2>3, <2>7
    <3>5. \A e1, e2 \in Seen' : e1.key.text = e2.key.text => e1.key = e2.key
      <4>1. \A s \in Seen : s.key.text # e.key.text
        BY <2>2, <2>7
      <4> QED
        BY <2>2, <2>3, <4>1
    <3>6. made'.error \in BOOLEAN /\ todo' \subseteq given'
      BY <2>1, <3>2 DEF KeysInv
    <3> QED
      BY <2>1, <3>2, <3>3, <3>4, <3>5, <3>6 DEF KeysInv
  <2> QED
    BY <2>5, <2>6, <2>7
<1>2. CASE ReadTyped
  BY <1>2 DEF ReadTyped, KeysInv
<1>3. CASE WriteReference
  BY <1>3 DEF WriteReference, KeysInv
<1>4. CASE UNCHANGED vars
  BY <1>4 DEF vars, KeysInv, Seen
<1> QED
  BY <1>1, <1>2, <1>3, <1>4 DEF Next

\* No order of the iteration changes whether the keys of a map are refused, or
\* loses one of them (internal/dictutil/normalize.go).
THEOREM KeysInAnyOrder == Spec => []KeysOrderFree
<1>1. KeysInv => KeysOrderFree
  <2> SUFFICES ASSUME KeysInv, journey = "normalize"
               PROVE  KeysOrderFree
    BY DEF KeysOrderFree
  <2>1. made.error => Refused(given)
    BY DEF KeysInv
  <2>2. ASSUME todo = {}, ~made.error
        PROVE  ~Refused(given) /\ made.keys = {e.key.text : e \in given}
    <3>1. Seen = given
      BY <2>2 DEF Seen
    <3> QED
      BY <2>2, <3>1 DEF KeysInv, Refused, Ambiguous
  <2> QED
    BY <2>1, <2>2 DEF KeysOrderFree, Refused, Ambiguous
<1> QED
  BY <1>1, KeysInit, KeysNext, PTL DEF Spec

-----------------------------------------------------------------------------
(* Numbers *)

LEMMA Quotients ==
  ASSUME NEW q \in Nat, q > 0
  PROVE  /\ 0 % q = 0 /\ 0 \div q = 0
         /\ (2*q) % q = 0 /\ (2*q) \div q = 2 /\ (-(2*q)) % q = 0
<1>1. 0 % q = 0 /\ 0 \div q = 0
  OBVIOUS
<1>2. (2*q) % q = 0
  OBVIOUS
<1>3. (2*q) \div q = 2
  OBVIOUS
<1>4. (-(2*q)) % q = 0
  OBVIOUS
<1> QED
  BY <1>1, <1>2, <1>3, <1>4

LEMMA FloatsAreIntegers == Floats \subseteq Int
<1> DEFINE top == 2^(Int64Bits + 2)
<1>1. top \in Int
  <2>1. Int64Bits + 2 \in 0..(Int64Bits + 2)
    BY NumbersAssumption
  <2> QED
    BY <2>1, NumbersAssumption
<1> HIDE DEF top
<1>2. -top..top \subseteq Int
  BY <1>1
<1> QED
  BY <1>2 DEF Floats, top

LEMMA ZeroIsFloat == 0 \in Floats
<1> DEFINE top == 2^(Int64Bits + 2)
           unit == 2^0
<1>1. 0 \in 0..(Int64Bits + 2) /\ Int64Bits + 2 \in 0..(Int64Bits + 2)
  BY NumbersAssumption
<1>2. top \in Nat /\ unit \in Nat /\ unit > 0 /\ 2^Mantissa > 2 /\ 2^Mantissa \in Int
  BY <1>1, NumbersAssumption
<1> HIDE DEF top, unit
<1>3. 0 % unit = 0 /\ Magnitude(0) \div unit < 2^Mantissa
  <2>1. Magnitude(0) = 0
    BY DEF Magnitude
  <2> QED
    BY <1>2, <2>1, Quotients
<1>4. 0 \in -top..top
  BY <1>2
<1> QED
  BY <1>1, <1>3, <1>4 DEF Floats, top, unit

\* The ends of the range of an int: the lower one is a power of two, and so is
\* the number after the upper one; both are floats.
LEMMA Ends ==
  ASSUME NEW b \in Platforms
  PROVE  \E p \in Nat : /\ p > 0 /\ MinOf(b) = -p /\ MaxOf(b) = p - 1
                        /\ 2*p \in Floats /\ -(2*p) \in Floats
<1> DEFINE p == 2^(b - 1)
           top == 2^(Int64Bits + 2)
           e == b - 1
<1>1. b \in 1..Int64Bits /\ Int64Bits \in Nat
  BY ValuesAssumption, NumbersAssumption
<1>2. e \in 0..(Int64Bits + 1) /\ e \in 0..(Int64Bits + 2) /\ e + 1 \in 0..(Int64Bits + 2)
      /\ Int64Bits + 2 \in 0..(Int64Bits + 2)
  BY <1>1
<1>3. p \in Nat /\ p > 0
  BY <1>2, NumbersAssumption
<1>4. 2*p <= top /\ top \in Nat
  <2>1. 2^(e + 1) = 2 * 2^e
    BY <1>2, NumbersAssumption
  <2>2. 2^(e + 1) <= top /\ top \in Nat
    BY <1>2, NumbersAssumption
  <2> QED
    BY <2>1, <2>2
<1>5. MinOf(b) = -p /\ MaxOf(b) = p - 1
  BY DEF MinOf, MaxOf
<1>6. 2^Mantissa \in Int /\ 2^Mantissa > 2
  BY NumbersAssumption
<1> HIDE DEF p, top
<1>7. Magnitude(2*p) = 2*p /\ Magnitude(-(2*p)) = 2*p
  BY <1>3 DEF Magnitude
<1>8. 2*p \in -top..top /\ -(2*p) \in -top..top
  BY <1>3, <1>4
<1>9. /\ (2*p) % p = 0 /\ (-(2*p)) % p = 0
      /\ Magnitude(2*p) \div p < 2^Mantissa /\ Magnitude(-(2*p)) \div p < 2^Mantissa
  BY <1>3, <1>6, <1>7, Quotients
<1>10. 2*p \in Floats /\ -(2*p) \in Floats
  BY <1>2, <1>8, <1>9 DEF Floats, p, top
<1> QED
  BY <1>3, <1>5, <1>10

\* A nonempty set of naturals has a least element.
LEMMA Least ==
  ASSUME NEW S, S \subseteq Nat, S # {}
  PROVE  \E d \in S : \A c \in S : d <= c
<1> DEFINE Less == {ss \in Nat \X Nat : ss[1] < ss[2]}
<1>1. IsWellFoundedOn(Less, Nat)
  <2>1. Less = OpToRel(<, Nat)
    BY Zenon DEF OpToRel
  <2> QED
    BY <2>1, NatLessThanWellFounded, Zenon
<1>2. PICK d \in S : \A c \in S : ~(<<c, d>> \in Less)
  <2> HIDE DEF Less
  <2> QED
    BY <1>1, WFMin
<1>3. ASSUME NEW c \in S PROVE d <= c
  <2>1. c \in Nat /\ d \in Nat
    OBVIOUS
  <2>2. <<c, d>> \notin Less
    BY <1>2, Zenon
  <2> QED
    BY <2>1, <2>2
<1> QED
  BY <1>3

\* Every integer has a float64 that is nearest, and of two as near the larger.
LEMMA Nearest ==
  ASSUME NEW n \in Int
  PROVE  /\ AsFloat(n) \in Floats
         /\ \A g \in Floats :
              \/ Magnitude(AsFloat(n) - 2*n) < Magnitude(g - 2*n)
              \/ Magnitude(AsFloat(n) - 2*n) = Magnitude(g - 2*n) /\ g <= AsFloat(n)
<1> DEFINE far(f) == Magnitude(f - 2*n)
           distances == {far(f) : f \in Floats}
           Best(f) == \A g \in Floats : far(f) < far(g) \/ (far(f) = far(g) /\ g <= f)
<1>1. \A f \in Floats : f \in Int /\ far(f) \in Nat
  BY FloatsAreIntegers DEF Magnitude
<1>2. distances \subseteq Nat /\ distances # {}
  BY <1>1, ZeroIsFloat
<1>3. PICK d \in distances : \A c \in distances : d <= c
  <2> HIDE DEF distances
  <2> QED
    BY <1>2, Least
<1>4. d \in Nat /\ \A g \in Floats : d <= far(g)
  BY <1>2, <1>3
<1>5. \A g \in Floats : far(g) = d => g = 2*n + d \/ g = 2*n - d
  BY <1>1, <1>4 DEF Magnitude
<1>6. \E f \in Floats : Best(f)
  <2>1. CASE 2*n + d \in Floats
    <3>1. far(2*n + d) = d
      BY <1>4 DEF Magnitude
    <3>2. \A g \in Floats : d < far(g) \/ (d = far(g) /\ g <= 2*n + d)
      <4> TAKE g \in Floats
      <4>1. g \in Int /\ far(g) \in Nat /\ d <= far(g)
        BY <1>1, <1>4
      <4>2. far(g) = d => g <= 2*n + d
        BY <1>4, <1>5, <4>1
      <4> QED
        BY <1>4, <4>1, <4>2
    <3> QED
      BY <2>1, <3>1, <3>2
  <2>2. CASE 2*n + d \notin Floats
    <3>1. PICK f \in Floats : far(f) = d
      BY <1>3
    <3>2. \A g \in Floats : far(g) = d => g = 2*n - d
      BY <1>5, <2>2
    <3>3. \A g \in Floats : d < far(g) \/ (d = far(g) /\ g <= f)
      <4> TAKE g \in Floats
      <4>1. g \in Int /\ far(g) \in Nat /\ d <= far(g) /\ f \in Int
        BY <1>1, <1>4
      <4>2. far(g) = d => g = f
        BY <3>1, <3>2
      <4> QED
        BY <1>4, <4>1, <4>2
    <3> QED
      BY <3>1, <3>3
  <2> QED
    BY <2>1, <2>2
<1>7. AsFloat(n) = CHOOSE f \in Floats : Best(f)
  BY DEF AsFloat
<1> HIDE DEF Best
<1>8. AsFloat(n) \in Floats /\ Best(AsFloat(n))
  BY <1>6, <1>7
<1> QED
  BY <1>8 DEF Best

\* A float that is an integer is the float nearest to that integer.
LEMMA ExactFloat ==
  ASSUME NEW half \in Floats, half % 2 = 0
  PROVE  AsFloat(half \div 2) = half
<1>1. half \in Int /\ half \div 2 \in Int /\ 2 * (half \div 2) = half
  BY FloatsAreIntegers
<1>2. /\ AsFloat(half \div 2) \in Floats
      /\ Magnitude(AsFloat(half \div 2) - half) <= Magnitude(half - half)
  <2>1. /\ AsFloat(half \div 2) \in Floats
        /\ \/ Magnitude(AsFloat(half \div 2) - half) < Magnitude(half - half)
           \/ Magnitude(AsFloat(half \div 2) - half) = Magnitude(half - half)
    BY <1>1, Nearest
  <2>2. AsFloat(half \div 2) \in Int
    BY <2>1, FloatsAreIntegers
  <2> QED
    BY <1>1, <2>1, <2>2 DEF Magnitude
<1>3. AsFloat(half \div 2) \in Int
  BY <1>2, FloatsAreIntegers
<1> QED
  BY <1>1, <1>2, <1>3 DEF Magnitude

\* The conversions of the ends of the range of an int: the lower one is exact,
\* and the upper one is the upper end, or a float above it by at most one.
LEMMA ConvertedEnds ==
  ASSUME NEW b \in Platforms
  PROVE  /\ MinOf(b) \in Int /\ MaxOf(b) \in Int
         /\ AsFloat(MinOf(b)) = 2 * MinOf(b)
         /\ AsFloat(MaxOf(b)) \in Int /\ AsFloat(MaxOf(b)) <= 2 * MaxOf(b) + 2
         /\ \A half \in Floats : half <= 2 * MaxOf(b) => half <= AsFloat(MaxOf(b))
<1> PICK p \in Nat : /\ p > 0 /\ MinOf(b) = -p /\ MaxOf(b) = p - 1
                     /\ 2*p \in Floats /\ -(2*p) \in Floats
  BY Ends
<1> DEFINE least == MinOf(b)
           greatest == MaxOf(b)
           upper == AsFloat(greatest)
<1>1. least \in Int /\ greatest \in Int /\ least = -p /\ greatest = p - 1
  OBVIOUS
<1>2. AsFloat(least) = 2 * least
  <2> HIDE DEF least
  <2>1. 2 * least \in Floats
    BY <1>1
  <2>2. (2 * least) % 2 = 0 /\ (2 * least) \div 2 = least
    BY <1>1
  <2> QED
    BY <2>1, <2>2, ExactFloat
<1> HIDE DEF least, greatest
<1>3. /\ upper \in Floats
      /\ \A g \in Floats :
           \/ Magnitude(upper - 2*greatest) < Magnitude(g - 2*greatest)
           \/ Magnitude(upper - 2*greatest) = Magnitude(g - 2*greatest) /\ g <= upper
  BY <1>1, Nearest
<1> HIDE DEF upper
<1>4. upper \in Int
  BY <1>3, FloatsAreIntegers
<1>5. upper <= 2*greatest + 2
  <2>1. Magnitude(upper - 2*greatest) <= Magnitude(2*p - 2*greatest)
    BY <1>1, <1>3, <1>4 DEF Magnitude
  <2>2. Magnitude(2*p - 2*greatest) = 2
    BY <1>1 DEF Magnitude
  <2> QED
    BY <1>1, <1>4, <2>1, <2>2 DEF Magnitude
<1>6. ASSUME NEW half \in Floats, half <= 2*greatest
      PROVE  half <= upper
  <2>1. half \in Int
    BY FloatsAreIntegers
  <2>2. \/ Magnitude(upper - 2*greatest) < Magnitude(half - 2*greatest)
        \/ half <= upper
    BY <1>3
  <2> QED
    BY <1>1, <1>4, <1>6, <2>1, <2>2 DEF Magnitude
<1> QED
  BY <1>1, <1>2, <1>4, <1>5, <1>6 DEF upper, least, greatest

\* What a scalar is, where a getter finds it.
IsScalar(v) ==
  /\ v.type \in {"bool", "int", "int64", "float64", "nonfinite", "string"} /\ v.half \in Int
  /\ v.type \in {"int", "int64"} => v.half % 2 = 0
  /\ v.type = "float64" => v.half \in Floats

\* An int that is read is the number of the scalar, unless that is the float
\* just above the range; an integer in the range is read; and nothing is read
\* from what is no number.
LEMMA IntExact ==
  ASSUME NEW b \in Platforms, NEW v, IsScalar(v), NEW int \in GetInt(b, v)
  PROVE  /\ int.ok => int.half = v.half \/ (v.half = AsFloat(MaxOf(b)) /\ v.half > 2 * MaxOf(b))
         /\ v.type \in {"int", "int64", "float64"} /\ v.half % 2 = 0 /\ InInt(b, v.half \div 2)
              => int.ok
         /\ v.type \notin {"int", "int64", "float64"} => ~int.ok
<1>1. v.half \in Int
  BY DEF IsScalar
<1>2. CASE v.type = "int"
  <2>1. int = Got(v.half)
    BY <1>2 DEF GetInt
  <2>2. int.ok = TRUE /\ int.half = v.half
    BY <2>1 DEF Got
  <2> QED
    BY <1>2, <2>2
<1>3. CASE v.type = "int64"
  <2>1. int = IF InInt(b, v.half \div 2) THEN Got(v.half) ELSE Failed
    BY <1>3 DEF GetInt
  <2>2. CASE InInt(b, v.half \div 2)
    <3>1. int.ok = TRUE /\ int.half = v.half
      BY <2>1, <2>2 DEF Got
    <3> QED
      BY <1>3, <3>1
  <2>3. CASE ~InInt(b, v.half \div 2)
    <3>1. int.ok = FALSE
      BY <2>1, <2>3 DEF Failed
    <3> QED
      BY <1>3, <2>3, <3>1
  <2> QED
    BY <2>2, <2>3
<1>4. CASE v.type = "float64"
  <2> DEFINE least == MinOf(b)
             greatest == MaxOf(b)
             upper == AsFloat(greatest)
  <2>1. /\ least \in Int /\ greatest \in Int /\ AsFloat(least) = 2 * least
        /\ upper \in Int /\ upper <= 2*greatest + 2
        /\ \A half \in Floats : half <= 2*greatest => half <= upper
    BY ConvertedEnds
  <2>2. v.half \in Floats
    BY <1>4 DEF IsScalar
  <2>3. InInt(b, v.half \div 2) <=> v.half \div 2 >= least /\ v.half \div 2 <= greatest
    BY <1>1, <2>1 DEF InInt
  <2> HIDE DEF least, greatest, upper
  <2>4. CASE v.half % 2 = 0 /\ v.half <= upper /\ v.half >= 2*least
    <3>1. int \in Narrow(b, v.half)
      BY <1>4, <2>1, <2>4 DEF GetInt, least, greatest, upper
    <3>2. CASE InInt(b, v.half \div 2)
      <4>1. int = Got(v.half)
        BY <3>1, <3>2 DEF Narrow
      <4>2. int.ok = TRUE /\ int.half = v.half
        BY <4>1 DEF Got
      <4> QED
        BY <1>4, <4>2
    <3>3. CASE ~InInt(b, v.half \div 2)
      <4>1. v.half = 2 * (v.half \div 2) /\ v.half \div 2 \in Int
        BY <1>1, <2>4
      <4>2. v.half \div 2 > greatest
        BY <2>1, <2>3, <2>4, <3>3, <4>1
      <4>3. v.half = upper /\ v.half > 2*greatest
        BY <1>1, <2>1, <2>4, <4>1, <4>2
      <4> QED
        BY <1>4, <3>3, <4>3 DEF upper, greatest
    <3> QED
      BY <3>2, <3>3
  <2>5. CASE ~(v.half % 2 = 0 /\ v.half <= upper /\ v.half >= 2*least)
    <3>1. int = Failed
      BY <1>4, <2>1, <2>5 DEF GetInt, least, greatest, upper
    <3>2. ~(v.half % 2 = 0 /\ InInt(b, v.half \div 2))
      <4> SUFFICES ASSUME v.half % 2 = 0, InInt(b, v.half \div 2)
                   PROVE  FALSE
        OBVIOUS
      <4>1. v.half = 2 * (v.half \div 2) /\ v.half \div 2 \in Int
        BY <1>1
      <4>2. v.half >= 2*least /\ v.half <= 2*greatest
        BY <2>1, <2>3, <4>1
      <4> QED
        BY <2>1, <2>2, <2>5, <4>2
    <3> QED
      BY <1>4, <3>1, <3>2 DEF Failed
  <2> QED
    BY <2>4, <2>5
<1>5. CASE v.type \notin {"int", "int64", "float64"}
  <2>1. int = Failed
    BY <1>5 DEF GetInt
  <2> QED
    BY <1>5, <2>1 DEF Failed
<1> QED
  BY <1>2, <1>3, <1>4, <1>5

-----------------------------------------------------------------------------
(* Typed reads *)

Cast(casting, b, v) == IF casting /\ v.type = "string" THEN ParseScalar(b, v.string) ELSE v

\* What a boolean getter returns does not depend on whether a string that it
\* can read was cast.
LEMMA CastKeepsBool ==
  ASSUME NEW b \in Platforms, NEW v \in Scalars, v.type = "string", GetBool(v).ok
  PROVE  GetBool(ParseScalar(b, v.string)) = GetBool(v)
<1> DEFINE s == v.string
           spelled == s.word = "number" /\ s.plain /\ ~s.mark /\ s.half \in {0, 2}
<1>1. GetBool(Str(s)) = GetBool(v)
  <2>1. Str(s).type = "string" /\ Str(s).string = s
    BY DEF Str
  <2> QED
    BY <2>1 DEF GetBool
<1>2. CASE s.word \in {"true", "false"}
  <2> DEFINE two == IF s.word = "true" THEN 2 ELSE 0
             became == Value("bool", two)
  <2>1. ParseScalar(b, s) = became
    BY <1>2 DEF ParseScalar
  <2>2. became.type = "bool" /\ became.half = two /\ two \in {0, 2}
    BY DEF Value
  <2>3. GetBool(v) = Got(two)
    BY <1>2 DEF GetBool
  <2>4. GetBool(became) = Got(two)
    BY <2>2 DEF GetBool
  <2> QED
    BY <2>1, <2>3, <2>4
<1>3. CASE s.word \notin {"true", "false"} /\ ParseScalar(b, s) = Str(s)
  BY <1>1, <1>3
<1>4. CASE s.word \notin {"true", "false"} /\ ParseScalar(b, s) # Str(s)
  <2>1. s.word = "number"
    BY <1>4 DEF ParseScalar
  <2>2. spelled
    BY <2>1 DEF GetBool, Failed
  <2>3. ParseScalar(b, s) = Value("int", s.half)
    BY <1>4, <2>2 DEF ParseScalar
  <2>4. GetBool(v) = Got(s.half)
    BY <2>2 DEF GetBool
  <2> DEFINE became == Value("int", s.half)
  <2>5. became.type = "int" /\ became.half = s.half
    BY DEF Value
  <2>6. GetBool(became) = Got(s.half)
    BY <2>2, <2>5 DEF GetBool
  <2> QED
    BY <2>3, <2>4, <2>6
<1> QED
  BY <1>2, <1>3, <1>4

\* A scalar as the getters find it: a number is still the number it was, and a
\* string has become a number for its point or exponent, or for plain digits.
LEMMA CastIs ==
  ASSUME NEW b \in Platforms, NEW v \in Scalars, NEW casting \in BOOLEAN
  PROVE  LET found == Cast(casting, b, v)
         IN /\ IsScalar(found)
            /\ found.type \in {"int", "int64", "float64", "nonfinite"} => found.half = Says(v)
            /\ v.type # "string" => found = v
            /\ v.type = "string" /\ found.type \in {"int", "int64", "float64"}
                 => v.string.plain \/ v.string.mark
            /\ GetBool(v).ok => GetBool(found) = GetBool(v)
<1> DEFINE found == Cast(casting, b, v)
           s == v.string
<1>1. /\ v.type \in {"bool", "int", "int64", "float64", "nonfinite", "string"} /\ v.half \in Int
      /\ s.half \in Int /\ s.mark \in BOOLEAN /\ s.plain \in BOOLEAN
  BY ValuesAssumption
<1>2. /\ v.type \in {"int", "int64"} => v.half % 2 = 0
      /\ v.type = "float64" => v.half \in Floats
      /\ v.type = "string" /\ s.word = "number" /\ ~s.mark => s.half % 2 = 0
      /\ v.type = "string" /\ s.word = "number" /\ s.mark => s.half \in Floats
  BY ValuesAssumption
<1>3. IsScalar(v)
  BY <1>1, <1>2 DEF IsScalar
<1>4. CASE ~(casting /\ v.type = "string")
  <2>1. found = v
    BY <1>4 DEF Cast
  <2>2. v.type \in {"int", "int64", "float64", "nonfinite"} => v.half = Says(v)
    BY DEF Says
  <2>3. v.type = "string" => v.type \notin {"int", "int64", "float64"}
    OBVIOUS
  <2> QED
    BY <1>3, <2>1, <2>2, <2>3
<1>5. CASE casting /\ v.type = "string"
  <2>1. found = ParseScalar(b, s) /\ Says(v) = s.half
    BY <1>5 DEF Cast, Says
  <2>2. GetBool(v).ok => GetBool(found) = GetBool(v)
    BY <1>5, <2>1, CastKeepsBool
  <2>3. CASE s.word \in {"true", "false"}
    <3>1. found = Value("bool", IF s.word = "true" THEN 2 ELSE 0)
      BY <2>1, <2>3 DEF ParseScalar
    <3>2. found.type = "bool" /\ found.half \in Int
      BY <3>1 DEF Value
    <3> QED
      BY <1>5, <2>2, <3>2 DEF IsScalar
  <2>4. CASE found = Str(s)
    <3>1. found.type = "string" /\ found.half \in Int
      BY <2>4 DEF Str
    <3> QED
      BY <1>5, <2>2, <3>1 DEF IsScalar
  <2>5. CASE s.word = "number" /\ ~s.padded /\ s.mark
    <3>1. found = Value("float64", s.half)
      BY <2>1, <2>5 DEF ParseScalar
    <3>2. found.type = "float64" /\ found.half = s.half
      BY <3>1 DEF Value
    <3> QED
      BY <1>1, <1>2, <1>5, <2>1, <2>2, <2>5, <3>2 DEF IsScalar
  <2>6. CASE s.word = "number" /\ ~s.padded /\ ~s.mark /\ found # Str(s)
    <3>1. found = Value("int", s.half) /\ s.plain
      BY <2>1, <2>6 DEF ParseScalar
    <3>2. found.type = "int" /\ found.half = s.half
      BY <3>1 DEF Value
    <3> QED
      BY <1>1, <1>2, <1>5, <2>1, <2>2, <2>6, <3>1, <3>2 DEF IsScalar
  <2>7. s.word \notin {"true", "false"} /\ (s.word # "number" \/ s.padded) => found = Str(s)
    BY <2>1 DEF ParseScalar
  <2> QED
    BY <1>1, <2>3, <2>4, <2>5, <2>6, <2>7
<1> QED
  BY <1>4, <1>5

\* What the getters have returned.
Returned ==
  /\ journey = "read" => given \in Scalars /\ bits \in Platforms
  /\ journey = "returned" =>
       /\ given \in Scalars /\ bits \in Platforms
       /\ \E casting \in BOOLEAN :
            LET found == Cast(casting, bits, given)
            IN /\ made.int \in GetInt(bits, found) /\ made.float64 = GetFloat64(found)
               /\ made.bool = GetBool(found)

LEMMA ReturnedNext == Returned /\ [Next]_vars => Returned'
<1> SUFFICES ASSUME Returned, [Next]_vars
             PROVE  Returned'
  OBVIOUS
<1>1. CASE NormalizeKeys
  BY <1>1 DEF NormalizeKeys, Returned
<1>2. CASE ReadTyped
  <2>1. /\ journey' = "returned" /\ given' = given /\ bits' = bits
        /\ given \in Scalars /\ bits \in Platforms
    BY <1>2 DEF ReadTyped, Returned
  <2> PICK casting \in BOOLEAN :
        LET v == Cast(casting, bits, given)
        IN \E int \in GetInt(bits, v) :
             made' = [int |-> int, float64 |-> GetFloat64(v), bool |-> GetBool(v), casting |-> casting]
    BY <1>2 DEF ReadTyped, Cast
  <2> DEFINE found == Cast(casting, bits, given)
  <2>2. PICK int \in GetInt(bits, found) :
          made' = [int |-> int, float64 |-> GetFloat64(found), bool |-> GetBool(found),
                   casting |-> casting]
    OBVIOUS
  <2>3. /\ made'.int \in GetInt(bits, found) /\ made'.float64 = GetFloat64(found)
        /\ made'.bool = GetBool(found)
    BY <2>2
  <2> QED
    BY <2>1, <2>3 DEF Returned
<1>3. CASE WriteReference
  BY <1>3 DEF WriteReference, Returned
<1>4. CASE UNCHANGED vars
  BY <1>4 DEF vars, Returned
<1> QED
  BY <1>1, <1>2, <1>3, <1>4 DEF Next

LEMMA ReturnedExact == Returned => TypedReadsExact
<1> SUFFICES ASSUME Returned, journey = "returned"
             PROVE  TypedReadsExact
  BY DEF TypedReadsExact
<1>1. given \in Scalars /\ bits \in Platforms
  BY DEF Returned
<1> PICK casting \in BOOLEAN :
      LET v == Cast(casting, bits, given)
      IN /\ made.int \in GetInt(bits, v) /\ made.float64 = GetFloat64(v)
         /\ made.bool = GetBool(v)
  BY DEF Returned
<1> DEFINE found == Cast(casting, bits, given)
           int == made.int
<1>2. int \in GetInt(bits, found) /\ made.float64 = GetFloat64(found) /\ made.bool = GetBool(found)
  OBVIOUS
<1>3. /\ IsScalar(found)
      /\ found.type \in {"int", "int64", "float64", "nonfinite"} => found.half = Says(given)
      /\ given.type # "string" => found = given
      /\ given.type = "string" /\ found.type \in {"int", "int64", "float64"}
           => given.string.plain \/ given.string.mark
      /\ GetBool(given).ok => GetBool(found) = GetBool(given)
  BY <1>1, CastIs
<1> HIDE DEF found, int
<1>4. /\ int.ok => found.half = int.half
                    \/ (found.half = AsFloat(MaxOf(bits)) /\ found.half > 2 * MaxOf(bits))
      /\ found.type \in {"int", "int64", "float64"} /\ found.half % 2 = 0
           /\ InInt(bits, found.half \div 2) => int.ok
      /\ found.type \notin {"int", "int64", "float64"} => ~int.ok
  BY <1>1, <1>2, <1>3, IntExact
<1>5. int.ok /\ ~AtTheEdge(given) => int.half = Says(given)
  BY <1>3, <1>4 DEF AtTheEdge
<1>6. Integral(given) /\ InInt(bits, given.half \div 2) => int.ok
  BY <1>3, <1>4 DEF Integral
<1>7. GetBool(given).ok => made.bool = GetBool(given)
  BY <1>2, <1>3
<1>8. made.float64.ok /\ Says(given) \in Floats => made.float64.half = Says(given)
  <2> SUFFICES ASSUME made.float64.ok, Says(given) \in Floats
               PROVE  made.float64.half = Says(given)
    OBVIOUS
  <2>1. CASE found.type \in {"float64", "nonfinite"}
    <3>1. made.float64 = Got(found.half)
      BY <1>2, <2>1 DEF GetFloat64
    <3> QED
      BY <1>3, <2>1, <3>1 DEF Got
  <2>2. CASE found.type \in {"int", "int64"}
    <3>1. made.float64 = Got(AsFloat(found.half \div 2))
      BY <1>2, <2>2 DEF GetFloat64
    <3>2. found.half = Says(given) /\ found.half % 2 = 0
      BY <1>3, <2>2 DEF IsScalar
    <3>3. AsFloat(found.half \div 2) = found.half
      BY <3>2, ExactFloat
    <3> QED
      BY <3>1, <3>2, <3>3 DEF Got
  <2>3. CASE found.type \notin {"float64", "nonfinite", "int", "int64"}
    <3>1. made.float64 = Failed
      BY <1>2, <2>3 DEF GetFloat64
    <3> QED
      BY <3>1 DEF Failed
  <2> QED
    BY <2>1, <2>2, <2>3
<1>9. given.type = "string" /\ ~given.string.plain => ~int.ok \/ given.string.mark
  BY <1>3, <1>4
<1> QED
  BY <1>5, <1>6, <1>7, <1>8, <1>9 DEF TypedReadsExact, int

\* A number that is read is the number that was written: an int unless it is
\* the float just above the range of int, a float64 whenever there is one that
\* is equal to it; an integer that fits is read; and casting changes no boolean
\* (config_access.go, internal/typecoerce/parse.go).
THEOREM ReadsExact == Spec => []TypedReadsExact
<1>1. Init => Returned
  BY DEF Init, Returned
<1> QED
  BY <1>1, ReturnedNext, ReturnedExact, PTL DEF Spec
=============================================================================
