----------------------------- MODULE References -----------------------------
(***************************************************************************)
(* The grammar of secret references (internal/secretref/reference.go):     *)
(*                                                                         *)
(*   ${secret[@provider]:key[:[field][:version]]}                          *)
(*                                                                         *)
(* A text is a sequence of tokens: "${secret" and "@" with its alias open  *)
(* a reference, ":" and "}" delimit, everything else is a word.  A         *)
(* component of a Reference is a text of its own, since one that is built  *)
(* by hand may hold any token.                                             *)
(***************************************************************************)
EXTENDS Integers, Sequences

CONSTANTS
  Token,          \* what a text is made of
  Alias           \* the aliases of providers that the grammar accepts

Delimiters == {":", "}"}
NoAlias == ""

ASSUME ReferenceAssumption ==
  /\ Delimiters \cup {"${secret", "@"} \subseteq Token
  /\ Alias \subseteq Token \ {":", "}", "@", NoAlias}

Aliases == Alias \cup {NoAlias}
Reference(provider, key, field, version) ==
  [provider |-> provider, key |-> key, field |-> field, version |-> version]

Unparsed == [ok |-> FALSE, ref |-> Reference(NoAlias, <<>>, <<>>, <<>>)]

Clean(component) == \A i \in DOMAIN component : component[i] \notin Delimiters

Validate(ref) ==
  /\ ref.provider \in Aliases
  /\ ref.key # <<>> /\ Clean(ref.key) /\ Clean(ref.field) /\ Clean(ref.version)

\* "${secret" with the alias of the provider, up to the colon before the key.
Opening(provider) ==
  IF provider = NoAlias THEN <<"${secret", ":">> ELSE <<"${secret", "@", provider, ":">>

\* The components are written out, whatever they hold.
WriteOut(ref) ==
  Opening(ref.provider) \o ref.key
  \o (IF ref.version # <<>> THEN <<":">> \o ref.field \o <<":">> \o ref.version
      ELSE IF ref.field # <<>> THEN <<":">> \o ref.field ELSE <<>>)
  \o <<"}">>

\* What cannot be represented is a diagnostic, which opens no reference.
String(ref) == IF Validate(ref) THEN WriteOut(ref) ELSE <<"%!secret(...)">>

(***************************************************************************)
(* Parsing: a component ends where the next delimiter is; a field and a    *)
(* version follow a colon each, a version is not empty, and the "}" after  *)
(* the last component ends the text.                                       *)
(***************************************************************************)
EndOf(text, i) ==
  CHOOSE j \in i..Len(text) :
    text[j] \in Delimiters /\ \A k \in i..(j - 1) : text[k] \notin Delimiters

Parse(text) ==
  LET n == Len(text)
      routed == n > 2 /\ text[2] = "@"
      provider == IF routed THEN text[3] ELSE NoAlias
      colon == IF routed THEN 4 ELSE 2
      key == EndOf(text, colon + 1)
      field == IF text[key] = ":" THEN EndOf(text, key + 1) ELSE key
      version == IF field > key /\ text[field] = ":" THEN EndOf(text, field + 1) ELSE field
  IN IF /\ n > colon /\ text[1] = "${secret" /\ text[colon] = ":" /\ text[n] = "}"
        /\ provider \in Aliases /\ (routed => provider # NoAlias)
        /\ key > colon + 1 /\ version # field + 1 /\ version = n
     THEN [ok |-> TRUE,
           ref |-> Reference(provider, SubSeq(text, colon + 1, key - 1),
                             SubSeq(text, key + 1, field - 1), SubSeq(text, field + 1, version - 1))]
     ELSE Unparsed
=============================================================================
