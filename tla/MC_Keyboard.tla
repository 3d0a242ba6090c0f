------------------------------ MODULE MC_Keyboard ------------------------------
(* The keys one at a time, and Enter with Esc: a key held when another acts.  *)
EXTENDS Keyboard

MCChords == {{}} \union {{k} : k \in {"W", "M", "K", "C", "A", "N", "P", "0", ".", "x",
                              "enter", "esc", "bs", "left", "btnA"}} \union {{"enter", "esc"}}

MCTop == [s \in Settings |-> IF s = "keying" THEN 1 ELSE 0]

=============================================================================
