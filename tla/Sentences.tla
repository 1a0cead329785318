------------------------------ MODULE Sentences ------------------------------
(***************************************************************************)
(* The deterministic sentence splitter and the merging of sentences into   *)
(* chunks.  A text is a sequence of characters, each with the place in the *)
(* file it comes from (<<>> for one the program puts in) and its role.     *)
(***************************************************************************)
EXTENDS Integers, Sequences, FiniteSets, SequencesExt, FiniteSetsExt

CONSTANTS
  MaxChars,  \* max_chunk_chars
  MergeMax,  \* sentence_merge_num
  None       \* no value

ASSUME LimitsAssumption == MaxChars \in Nat \ {0} /\ MergeMax \in Nat \ {0}

Roles == {"word", "digit", "period", "stop", "semi", "comma", "blank", "newline"}
Char(at, role) == [at |-> at, role |-> role]
PutIn(role) == <<Char(<<>>, role)>>
IsBlank(c) == c.role \in {"blank", "newline"}
OnOneLine(c) == IF c.role = "newline" THEN [c EXCEPT !.role = "blank"] ELSE c

\* A function of the members of a sequence, and the members that pass a test, in order.
Each(s, f(_)) == [k \in DOMAIN s |-> f(s[k])]
Those(s, test(_)) == FlattenSeq([k \in DOMAIN s |-> IF test(s[k]) THEN <<s[k]>> ELSE <<>>])

\* str.strip()
Between(t, places) == IF places = {} THEN <<>> ELSE SubSeq(t, Min(places), Max(places))
Strip(t) == Between(t, {i \in DOMAIN t : ~IsBlank(t[i])})

\* The numbers of a set in order.
Ascending(S) ==
  [k \in 1..Cardinality(S) |-> CHOOSE n \in S : Cardinality({m \in S : m < n}) = k - 1]

\* Tuples of numbers in lexicographic order; a sequence in a stable order.
Precedes(p, q) ==
  \E k \in DOMAIN p : p[k] < q[k] /\ \A j \in 1..(k - 1) : p[j] = q[j]
Sorted(s, key(_)) ==
  LET before(i, j) == Precedes(Append(key(s[i]), i), Append(key(s[j]), j))
  IN  [k \in DOMAIN s |->
         s[CHOOSE i \in DOMAIN s : Cardinality({j \in DOMAIN s : before(j, i)}) = k - 1]]

\* The pieces of a text that end at the given places, stripped, without the empty ones.
IsFilled(t) == t # <<>>
Filled(texts) == Those(texts, IsFilled)
PiecesTo(t, e) ==
  [k \in DOMAIN e |-> Strip(SubSeq(t, IF k = 1 THEN 1 ELSE e[k - 1] + 1, e[k]))]
CutAfter(t, ends) == Filled(PiecesTo(t, Ascending(ends \cup {Len(t)})))

Places(t, role) == {i \in DOMAIN t : t[i].role = role}

\* re.split on the characters of a role, which are dropped.
Blanked(t, role) ==
  [i \in DOMAIN t |-> IF t[i].role = role THEN Char(<<>>, "newline") ELSE t[i]]
SplitOn(t, role) == CutAfter(Blanked(t, role), Places(t, role))

-----------------------------------------------------------------------------
(* split_sentences *)

\* A period between two digits belongs to a number.
InsideNumber(t, i) ==
  i > 1 /\ i < Len(t) /\ t[i - 1].role = "digit" /\ t[i + 1].role = "digit"
Terminator(t, i) ==
  t[i].role = "stop" \/ (t[i].role = "period" /\ ~InsideNumber(t, i))

\* The places where a sentence ends: a terminator with the blanks after it, or a line break.
SentenceEnds(t) ==
  {i \in DOMAIN t :
     \/ t[i].role = "newline"
     \/ /\ \E j \in 1..i : Terminator(t, j) /\ \A k \in (j + 1)..i : t[k].role = "blank"
        /\ i = Len(t) \/ t[i + 1].role # "blank"}

\* A sentence and whether it was cut at a fixed length.
Sentence(text, hard) == [text |-> text, hard |-> hard]

\* Mutant: the rest after the last full length is dropped.
HardCutFull(t) ==
  [k \in 1..(Len(t) \div MaxChars) |->
     Sentence(SubSeq(t, (k - 1) * MaxChars + 1, k * MaxChars), TRUE)]

HardCut(t) ==
  LET n == (Len(t) + MaxChars - 1) \div MaxChars
  IN  [k \in 1..n |->
         Sentence(SubSeq(t, (k - 1) * MaxChars + 1, Min({k * MaxChars, Len(t)})), TRUE)]

\* Parts are joined again as long as they fit; a part that does not fit alone is cut.
NothingCut == [out |-> <<>>, buf |-> <<>>]
FlushPart(a) == IF a.buf = <<>> THEN a.out ELSE Append(a.out, Sentence(a.buf, FALSE))
AddPart(a, part, sep) ==
  IF Len(a.buf) + Len(part) + (IF a.buf = <<>> THEN 0 ELSE 1) <= MaxChars
  THEN [out |-> a.out, buf |-> IF a.buf = <<>> THEN part ELSE a.buf \o PutIn(sep) \o part]
  ELSE IF Len(part) <= MaxChars
  THEN [out |-> FlushPart(a), buf |-> part]
  ELSE [out |-> FlushPart(a) \o HardCut(part), buf |-> <<>>]
MergeOrHardCut(parts, sep) ==
  LET after[k \in 0..Len(parts)] ==
        IF k = 0 THEN NothingCut ELSE AddPart(after[k - 1], parts[k], sep)
  IN  FlushPart(after[Len(parts)])

\* At semicolons, else at commas, else at blanks.
SplitOverlong(t) ==
  LET found == {r \in 1..3 : Places(t, <<"semi", "comma", "blank">>[r]) # {}}
      role == <<"semi", "comma", "blank">>[Min(found)]
  IN  IF found = {} THEN HardCut(t) ELSE MergeOrHardCut(SplitOn(t, role), role)

Fitting(line) == IF Len(line) <= MaxChars THEN <<Sentence(line, FALSE)>> ELSE SplitOverlong(line)
SplitSentences(t) == FlattenSeq(Each(CutAfter(t, SentenceEnds(t)), Fitting))

-----------------------------------------------------------------------------
(* _add_text_chunks *)

\* Mutant: only the number of sentences is limited.
MergeByNumber(sentences) ==
  [k \in 1..((Len(sentences) + MergeMax - 1) \div MergeMax) |->
     Sentence(FoldLeft(LAMBDA t, s : t \o s.text, <<>>,
                       SubSeq(sentences, MergeMax * (k - 1) + 1,
                              Min({MergeMax * k, Len(sentences)}))), FALSE)]

\* The length that is compared with the limit leaves out the blank that joins two sentences.
NothingMerged == [out |-> <<>>, buf |-> <<>>, n |-> 0, hard |-> FALSE]
FlushMerged(a) == IF a.buf = <<>> THEN a.out ELSE Append(a.out, Sentence(a.buf, a.hard))
AddSentence(a, s) ==
  IF a.n >= MergeMax \/ Len(a.buf) + Len(s.text) > MaxChars
  THEN [out |-> FlushMerged(a), buf |-> s.text, n |-> 1, hard |-> s.hard]
  ELSE [out |-> a.out, buf |-> IF a.buf = <<>> THEN s.text ELSE a.buf \o PutIn("blank") \o s.text,
        n |-> a.n + 1, hard |-> a.hard \/ s.hard]
MergeSentences(sentences) ==
  LET after[k \in 0..Len(sentences)] ==
        IF k = 0 THEN NothingMerged ELSE AddSentence(after[k - 1], sentences[k])
  IN  FlushMerged(after[Len(sentences)])

StrippedText(s) == Strip(s.text)
TextPieces(t) == Filled(Each(MergeSentences(SplitSentences(t)), StrippedText))
=============================================================================
