--------------------------- MODULE MC_KeyEventBus ---------------------------
(* Two cores, a producer on each that only it drives, and a third producer *)
(* on the audio task, so that holds of one task overlap too.               *)
EXTENDS KeyEventBus

CONSTANTS audio, loop, paddle, player, kkey

MCTasks == {audio, loop}
MCProducers == {paddle, player, kkey}
MCRunsOn == [p \in MCProducers |-> IF p = kkey THEN loop ELSE audio]
MCControllers == {loop}

=============================================================================
