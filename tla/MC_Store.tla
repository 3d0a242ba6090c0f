-------------------------------- MODULE MC_Store --------------------------------
(* Two texts, two networks, and numbers on both sides of the model's limits. *)
EXTENDS Store

MCSlotKeys == <<"m0", "m1">>
MCTexts == {"", "cq"}
MCSsids == {"home", "away"}
MCPasses == {"", "secret"}
MCNumbers == {1, 3, 9}

=============================================================================
