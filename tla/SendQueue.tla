------------------------------ MODULE SendQueue ------------------------------
(***************************************************************************)
(* What the host of a WinKeyer may rely on for the text it sends: a        *)
(* bounded queue in front of one player.  Text enters at the back, only    *)
(* its newest character can be taken back, and it leaves the queue whole,  *)
(* in order, when the player is free.  WinkeyBridge implements this.       *)
(***************************************************************************)
EXTENDS Naturals, Sequences

CONSTANTS
  Chars,      \* what a queue is made of
  Capacity    \* WinkeyBuffer::kCapacity

VARIABLES
  queue,      \* text not yet handed to the player
  playing,    \* MorseGenerator::isPlaying()
  keyed       \* the text of the queue that is being played

player == <<playing, keyed>>
vars == <<queue, player>>

Init == queue = <<>> /\ playing = FALSE /\ keyed = <<>>

Silent == playing' = FALSE /\ keyed' = <<>>

Older(q) == SubSeq(q, 1, Len(q) - 1)

Accept ==
  /\ Len(queue) < Capacity
  /\ queue' \in Seq(Chars)
  /\ queue' # <<>> /\ Older(queue') = queue
  /\ UNCHANGED player

TakeBack ==
  /\ queue # <<>>
  /\ queue' = Older(queue)
  /\ UNCHANGED player

\* A clear also stops the player, a reset lets it finish what it has.
Discard ==
  /\ queue' = <<>>
  /\ Silent \/ UNCHANGED player

\* The whole queue at once; text without a Morse code makes no sound.
HandOver ==
  /\ ~playing
  /\ queue # <<>>
  /\ queue' = <<>>
  /\ \/ playing' = TRUE /\ keyed' = queue
     \/ UNCHANGED player

\* The practice text, or a memory played without a host.
PlayOther ==
  /\ ~playing
  /\ playing' = TRUE
  /\ UNCHANGED <<queue, keyed>>

\* The end of the text, a paddle or a key press.
Finish ==
  /\ playing
  /\ Silent
  /\ UNCHANGED queue

Next == Accept \/ TakeBack \/ Discard \/ HandOver \/ PlayOther \/ Finish

Spec == Init /\ [][Next]_vars

=============================================================================
