------------------------------ MODULE AnswerGate ------------------------------
(***************************************************************************)
(* The text of an answer: RefusalStreamGate holds back the beginning of a  *)
(* stream until it is known whether the model refuses to answer, and       *)
(* finalize_answer removes citation markers without a source.  A text is a *)
(* sequence of characters; a marker is found in it as the code's regular   *)
(* expression finds it, and removed as a string.                           *)
(***************************************************************************)
EXTENDS Naturals, Sequences, FiniteSets

CONSTANTS
  Chars,             \* characters
  Blanks,            \* those that lstrip removes
  Fold,              \* casefold, character by character
  RefusalPrefix,     \* the fixed sentence of a refusal
  Opening, Closing,  \* the brackets of a citation marker
  Digits,            \* what \d matches
  DigitOf,           \* digit -> its value
  Ascii,             \* the digits that a number is written with
  Sources,           \* the numbers of the sources in the prompt (citation_map)
  Answers            \* bound: the texts that the model may generate

ASSUME GateAssumption ==
  /\ Blanks \subseteq Chars /\ Digits \subseteq Chars /\ Ascii \subseteq Digits
  /\ Fold \in [Chars -> Chars]
  /\ RefusalPrefix \in Seq(Chars) /\ RefusalPrefix # <<>>
  /\ Opening \in Chars \ Digits /\ Closing \in Chars \ Digits /\ Opening # Closing
  /\ DigitOf \in [Digits -> 0..9] /\ Sources \subseteq Nat
  /\ \A d, e \in Ascii : DigitOf[d] = DigitOf[e] => d = e
  /\ Answers \subseteq Seq(Chars)
  \* An opening bracket is neither a blank nor, in any case, a character of the refusal.
  /\ Opening \notin Blanks
  /\ \A i \in DOMAIN RefusalPrefix : Fold[Opening] # Fold[RefusalPrefix[i]]

VARIABLES
  output,  \* what the model generates
  fed,     \* what the provider has sent of it
  mode,    \* the gate's _mode
  buffer,  \* the gate's _buffer
  shown,   \* what the client has got
  done,    \* has the stream ended?
  answer,  \* the text that is stored
  cited    \* the numbers of the citations that are stored

gate == <<mode, buffer>>
result == <<done, answer, cited>>
vars == <<output, fed, gate, shown, result>>

-----------------------------------------------------------------------------
(* Texts *)

\* lstrip removes the first k characters.
LeadingBlanks(s, k) ==
  /\ \A i \in 1..k : s[i] \in Blanks
  /\ k < Len(s) => s[k + 1] \notin Blanks

\* From position k + 1 on, s and the refusal agree in their first n characters.
Agrees(s, k, n) == \A i \in 1..n : Fold[s[k + i]] = Fold[RefusalPrefix[i]]

\* The text begins with the refusal ...
Refusing(s) ==
  \E k \in 0..Len(s) : /\ LeadingBlanks(s, k)
                       /\ Len(s) - k >= Len(RefusalPrefix)
                       /\ Agrees(s, k, Len(RefusalPrefix))
\* ... or is itself a beginning of it.
Undecided(s) ==
  \E k \in 0..Len(s) : /\ LeadingBlanks(s, k)
                       /\ Len(s) - k <= Len(RefusalPrefix)
                       /\ Agrees(s, k, Len(s) - k)

-----------------------------------------------------------------------------
(* finalize_answer *)

\* An opening bracket at i, and nothing but digits after it before j.
Opened(s, i, j) == s[i] = Opening /\ \A k \in (i + 1)..(j - 1) : s[k] \in Digits

\* The first and the last position of each match of \[(\d+)\].
Markers(s) ==
  {m \in (DOMAIN s) \X (DOMAIN s) :
     m[1] + 1 < m[2] /\ Opened(s, m[1], m[2]) /\ s[m[2]] = Closing}
WordOf(s, m) == [d \in 1..(m[2] - m[1] - 1) |-> s[m[1] + d]]

\* int() of a word of digits, and whether writing that number gives the word again.
Number(word) ==
  LET value[d \in 0..Len(word)] ==
        IF d = 0 THEN 0 ELSE 10 * value[d - 1] + DigitOf[word[d]]
  IN  value[Len(word)]
Plain(word) ==
  /\ \A d \in DOMAIN word : word[d] \in Ascii
  /\ Len(word) > 1 => DigitOf[word[1]] # 0

Seen(s) == {Number(WordOf(s, m)) : m \in Markers(s)}

\* A set of numbers in ascending order.
InOrder(S) ==
  [i \in 1..Cardinality(S) |-> CHOOSE n \in S : Cardinality({k \in S : k < n}) = i - 1]

\* Where "[n]" is spelled in the text; a number has one plain spelling.
Spelled(s, n) == {m \in Markers(s) : Plain(WordOf(s, m)) /\ Number(WordOf(s, m)) = n}
Without(s, removed) ==
  LET kept == InOrder({k \in DOMAIN s : \A m \in removed : k \notin m[1]..m[2]})
  IN  [i \in 1..Len(kept) |-> s[kept[i]]]

\* Mutant: replace() with a count of one.
RemovedOnce(s, n) ==
  Without(s, {m \in Spelled(s, n) : \A other \in Spelled(s, n) : m[1] <= other[1]})
Removed(s, n) == Without(s, Spelled(s, n))

\* The numbers without a source are those of the whole text; each is then looked for as a
\* string in what the ones before it left.
Cleaned(s) ==
  LET invalid == InOrder(Seen(s) \ Sources)
      left[k \in 0..Len(invalid)] == IF k = 0 THEN s ELSE Removed(left[k - 1], invalid[k])
  IN  left[Len(invalid)]

FinalAnswer(s) == IF Refusing(Cleaned(s)) THEN RefusalPrefix ELSE Cleaned(s)

\* Mutant: every marker is a citation.
EveryMarker(s) == IF Refusing(Cleaned(s)) THEN {} ELSE Seen(s)
FinalCitations(s) == IF Refusing(Cleaned(s)) THEN {} ELSE Seen(s) \cap Sources

-----------------------------------------------------------------------------
(* The stream *)

TypeOK ==
  /\ output \in Seq(Chars) /\ fed \in Seq(Chars)
  /\ shown \in Seq(Chars) /\ buffer \in Seq(Chars)
  /\ mode \in {"pending", "normal", "refusal"}
  /\ done \in BOOLEAN
  /\ answer \in Seq(Chars) /\ cited \subseteq Sources

Init ==
  /\ output \in Answers
  /\ fed = <<>> /\ shown = <<>>
  /\ mode = "pending" /\ buffer = <<>>
  /\ done = FALSE /\ answer = <<>> /\ cited = {}

\* Mutant: only the delta that just came is looked at.
DeltaOnly(delta) == delta
Buffered(delta) == buffer \o delta

Pending(text) ==
  /\ Undecided(text)
  /\ buffer' = text /\ UNCHANGED <<mode, shown>>
Refuse(text) ==
  /\ ~Undecided(text) /\ Refusing(text)
  /\ mode' = "refusal" /\ buffer' = <<>>
  /\ shown' = shown \o RefusalPrefix
Release(text) ==
  /\ ~Undecided(text) /\ ~Refusing(text)
  /\ mode' = "normal" /\ buffer' = <<>>
  /\ shown' = shown \o text

Feed(delta) ==
  /\ ~done
  /\ fed' = fed \o delta
  /\ \/ mode = "refusal" /\ UNCHANGED <<gate, shown>>
     \/ mode = "normal" /\ shown' = shown \o delta /\ UNCHANGED gate
     \/ /\ mode = "pending"
        /\ Pending(Buffered(delta)) \/ Refuse(Buffered(delta)) \/ Release(Buffered(delta))
  /\ UNCHANGED <<output, result>>

\* Mutant: what is still held back at the end is dropped.
Nothing == <<>>
HeldBack == IF mode = "pending" THEN buffer ELSE <<>>

\* The gate's finish, and the answer that is stored.
Finish ==
  /\ ~done /\ fed = output
  /\ done' = TRUE
  /\ mode' = IF mode = "pending" THEN "normal" ELSE mode
  /\ buffer' = <<>>
  /\ shown' = shown \o HeldBack
  /\ answer' = FinalAnswer(shown \o HeldBack)
  /\ cited' = FinalCitations(shown \o HeldBack)
  /\ UNCHANGED <<output, fed>>

\* A chunk without text is skipped.
Next ==
  \/ \E last \in (Len(fed) + 1)..Len(output) : Feed(SubSeq(output, Len(fed) + 1, last))
  \/ Finish

Spec == Init /\ [][Next]_vars

-----------------------------------------------------------------------------
(* Properties *)

Whole(s) == IF Refusing(s) /\ ~Undecided(s) THEN RefusalPrefix ELSE s

\* However the provider splits its answer, the client gets the same text: nothing while it
\* may become a refusal, then the fixed sentence and no guess after it, or every character.
SplitIndependent == shown = IF ~done /\ Undecided(fed) THEN <<>> ELSE Whole(fed)

\* A streamed answer is stored as POST /chat stores the same answer of the model.
StoredAsUnstreamed == done => answer = FinalAnswer(fed) /\ cited = FinalCitations(fed)

\* A bracket is opened among the digits of another one.
Nested(s) ==
  \E i, j \in DOMAIN s : i < j /\ Opened(s, i, j) /\ s[j] = Opening

\* A stored citation keeps its marker in the stored answer, whatever was removed around it.
\* A marker of the stored answer has its citation, if it is written plainly and the model
\* nested no brackets: of "[[7]1]" without a source 7 the answer keeps a "[1]" that was
\* never read as a marker, against docs/spec.md:63, and "[07]" is not looked for.
MarkersResolve ==
  done => /\ cited \subseteq Seen(answer)
          /\ ~Nested(output) =>
               \A m \in Markers(answer) :
                 Plain(WordOf(answer, m)) => Number(WordOf(answer, m)) \in cited
=============================================================================
