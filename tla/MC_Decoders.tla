------------------------------ MODULE MC_Decoders ------------------------------
(* Four marks of each kind of keyer, after silences within a letter, between *)
(* letters and between words.                                                *)
EXTENDS Decoders

MCSilences == {1, 2, 3, 7}

MCKinds == {"straight", "paddle"}

=============================================================================
