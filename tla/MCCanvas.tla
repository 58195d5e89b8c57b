------------------------------ MODULE MCCanvas ------------------------------
(* A canvas of four by four: the new panel takes a quarter of its width and  *)
(* height twice, as many steps as there are places for it.                   *)
EXTENDS Canvas

MCCentre == [fx |-> 1, fy |-> 1, fw |-> 3, fh |-> 3]
F(x, y, w, h) == [fx |-> x, fy |-> y, fw |-> w, fh |-> h]
(* An empty screen, a saved one, and one of an older version.                *)
MCConfigs == { << >>, <<F(0, 0, 2, 4), F(2, 1, 2, 2)>>, <<F(0, 0, 1, 1), NoFrame, NoFrame>> }
=============================================================================
