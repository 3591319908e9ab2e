---------------------------- MODULE MCTeensyNode ----------------------------
(* TeensyNode for TLC: a grid of four cells of four counts, two tables cut *)
(* into two chunks of which the first could be the other's, scales that    *)
(* take the outermost coordinates past the field, and offsets of both      *)
(* signs.                                                                  *)
EXTENDS TeensyNode, TLC

CONSTANTS barrel, tilt

MCOffset ==
  barrel :> <<<<1, -2>>, <<0, 3>>, <<-1, 2>>,
              <<2, 0>>, <<0, 0>>, <<-2, 1>>,
              <<1, 2>>, <<0, -3>>, <<-1, -2>>>>
  @@ tilt :> <<<<3, 1>>, <<3, 0>>, <<3, -1>>,
               <<0, 1>>, <<0, 0>>, <<0, -1>>,
               <<-3, 1>>, <<-3, 0>>, <<-3, -1>>>>

MCScale == barrel :> 3 @@ tilt :> 4

MCMapped == {<<-3, 1>>, <<0, 0>>, <<1, -1>>, <<3, 3>>}
=============================================================================
