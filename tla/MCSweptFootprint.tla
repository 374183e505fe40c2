-------------------------- MODULE MCSweptFootprint --------------------------
(***************************************************************************)
(* SweptFootprint on a small map with the shapes that tell its rules       *)
(* apart: single cells, pairs that touch at a side, at a corner or not at  *)
(* all, straight walls, corners and a diagonal; with an unknown corner of  *)
(* the map or without.                                                     *)
(***************************************************************************)
EXTENDS SweptFootprint

MCObstacles ==
  {{}, {<<2, 2>>}, {<<4, 2>>},
   {<<2, 2>>, <<2, 1>>}, {<<2, 2>>, <<3, 1>>}, {<<4, 1>>, <<4, 3>>}, {<<1, 2>>, <<4, 4>>},
   {4} \X (0 .. 4), ({4} \X (0 .. 4)) \cup {<<3, 2>>},
   ({4} \X (0 .. 4)) \cup ((0 .. 4) \X {4}), {<<4, 1>>, <<3, 2>>, <<2, 3>>, <<1, 4>>}}

MCMaps ==
  {[c \in Cells |-> IF c \in lethal THEN "lethal"
                    ELSE IF c \in unknown THEN "unknown" ELSE "free"] :
     lethal \in MCObstacles, unknown \in {{}, {<<0, 0>>}}}

\* Poses in contact with the obstacles, clear of them or in them, and one whose
\* padding is not inside the map.
MCStarts == ({3, 5, 6} \X {3, 5}) \cup {<<8, 3>>, <<7, 4>>, <<1, 1>>}
=============================================================================
