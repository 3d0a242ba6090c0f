------------------------------- MODULE Encoder -------------------------------
(***************************************************************************)
(* The encoder: what MorseEncoder::encode() makes of a text, for any table *)
(* of characters.                                                          *)
(***************************************************************************)
EXTENDS SequencesExt

CONSTANTS
  Entries,   \* the table: records of a character and its dits and dahs
  ToLower    \* tolower(), where it changes a character

\* Each code of the table is made of dits and dahs.
TableOfMarks == \A e \in Entries : e.ditDah \in Seq({"DIT", "DAH"})

Lower(c) == IF c \in DOMAIN ToLower THEN ToLower[c] ELSE c

\* morseFromChar(): the code of a character, or none.
MorseFromChar(c) ==
  LET named == {e \in Entries : e.chr = Lower(c)}
  IN IF named = {} THEN << >> ELSE (CHOOSE e \in named : TRUE).ditDah

\* The marks of one character follow each other; the space behind them is
\* written unless the text ends there or a blank follows.
ElementsOf(text, i) ==
  LET code == MorseFromChar(text[i])
      joined == i < Len(text) /\ text[i + 1] # " "
  IN IF text[i] = " " THEN <<"WORD_SPACE">>
     ELSE IF code = << >> THEN << >>
     ELSE code \o IF joined THEN <<"CHAR_SPACE">> ELSE << >>

\* A character without a code comes behind all that have one, and not behind
\* a blank.
CodelessLast(text) ==
  \A i \in 1 .. Len(text) :
    ElementsOf(text, i) = << >> =>
      /\ \A j \in i .. Len(text) : ElementsOf(text, j) = << >>
      /\ i > 1 => text[i - 1] # " "

Encode(text) == FlattenSeq([i \in 1 .. Len(text) |-> ElementsOf(text, i)])

=============================================================================
