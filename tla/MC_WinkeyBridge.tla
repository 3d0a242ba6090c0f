--------------------------- MODULE MC_WinkeyBridge ---------------------------
(* A command of every kind, the letter A as text, and as parameters zero   *)
(* and a speed beyond the keyer's range; "#" (35) has no Morse code.        *)
EXTENDS WinkeyBridge

MCHostBytes ==
  [p \in Parses |->
     CASE p = "idle"   -> {0, 1, 2, 5, 7, 8, 10, 11, 19, 21, 65}
       [] p = "admin"  -> {1, 2, 3, 7, 11}
       [] p = "params" -> {0, 60}]
MCMemories == {<<65, 35>>}
MCUnkeyable == {35}

=============================================================================
