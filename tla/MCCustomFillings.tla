-------------------------- MODULE MCCustomFillings --------------------------
EXTENDS CustomFillings

CONSTANTS f1, f2, unfilled, outOfRange

(* Lists of one entry per k-point, in both orders, and two entries on one *)
(* k-point, one of them below the lowest band.                             *)
MCLists ==
    { << <<0, 0, f1>>, <<1, 0, f2>> >>,
      << <<1, 0, f1>>, <<0, 1, f2>> >>,
      << <<0, -1, f1>>, <<0, 0, f2>> >> }
=============================================================================
