--------------------------- MODULE MCGalvoEngine ---------------------------
(* GalvoEngine for TLC: a pattern shorter than the two buffers together,   *)
(* and one longer.                                                         *)
EXTENDS GalvoEngine, TLC

CONSTANTS circle, square

MCTotal == circle :> 4 @@ square :> 7
=============================================================================
