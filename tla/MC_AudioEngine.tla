--------------------------- MODULE MC_AudioEngine ---------------------------
(* A text without code, a mark between two blanks, and two words, with two *)
(* marks of one character, and behind them a character that has no code.   *)
EXTENDS AudioEngine, TLC

MCLetters == {"E", "i", "t", "#"}

MCEntries ==
  {[chr |-> "e", ditDah |-> <<"DIT">>], [chr |-> "t", ditDah |-> <<"DAH">>],
   [chr |-> "i", ditDah |-> <<"DIT", "DIT">>]}

MCToLower == "E" :> "e"

INSTANCE Encoder WITH Entries <- MCEntries, ToLower <- MCToLower

Encoded(chars) == [chars |-> chars, elements |-> Encode(chars)]

MCTexts ==
  {Encoded(t) : t \in {<< >>, <<" ", "E", " ">>, <<"i", "t", " ", "E", "#">>}}

\* What the proof that the echo follows its text asks of table and texts.
ASSUME TextsSpelled ==
  TableOfMarks /\ \A t \in MCTexts : CodelessLast(t.chars)

=============================================================================
