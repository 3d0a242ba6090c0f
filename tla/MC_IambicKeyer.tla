--------------------------- MODULE MC_IambicKeyer ---------------------------
(* Two speeds a step apart (25 % slower), as a    *)
(* WinKeyer host or the web page may ask for.                              *)
EXTENDS IambicKeyer

MCGentleDits == {3, 4}

ASSUME MCGentle == \A d, e \in MCGentleDits : 3 * e <= 4 * d

=============================================================================
