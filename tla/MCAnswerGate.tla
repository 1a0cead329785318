----------------------------- MODULE MCAnswerGate -----------------------------
(***************************************************************************)
(* An instance of AnswerGate for TLC: the refusal has two letters, of      *)
(* which one has two cases; 1 has a source, 7 has none, and "seven" is a   *)
(* digit that is not ASCII.  The answers are all short texts of letters,   *)
(* brackets and digits, in which markers touch, repeat and nest, and       *)
(* longer ones of whole markers, refusals and blanks.                      *)
(***************************************************************************)
EXTENDS AnswerGate, SequencesExt

MCBlanks == {" "}
MCDigits == {"0", "1", "7", "seven"}
MCChars == {"I", "i", "n", "[", "]"} \cup MCBlanks \cup MCDigits
MCFold == [c \in MCChars |-> IF c = "I" THEN "i" ELSE c]
MCRefusalPrefix == <<"I", "n">>
MCDigitOf == ("0" :> 0 @@ "1" :> 1 @@ "7" :> 7 @@ "seven" :> 7)

TextsOf(chars, longest) == UNION {[1..n -> chars] : n \in 0..longest}
Pieces == {<<"I", "n">>, <<" ">>, <<"[", "1", "]">>, <<"[", "7", "]">>, <<"[", "0", "1", "]">>}

MCAnswers ==
  TextsOf({"I", "i", "n", " ", "[", "7", "]"}, 5) \cup TextsOf({"[", "]", "1", "7"}, 7)
  \cup TextsOf({"[", "]", "0", "1", "7"}, 5) \cup TextsOf({"[", "]", "7", "seven"}, 5)
  \cup {FlattenSeq(pieces) : pieces \in TextsOf(Pieces, 4)}
=============================================================================
