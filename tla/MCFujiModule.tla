--------------------------- MODULE MCFujiModule ---------------------------
(* EXIF data for model checking: a thumbnail that is within the first part   *)
(* of the file, one that has to be fetched after it is known, and files      *)
(* without one, whose directories end before or after the first part.        *)
EXTENDS FujiModule

MCLayouts ==
    {[needs |-> <<1, 2, 9>>, knownAt |-> 2, thumb |-> TRUE],
     [needs |-> <<1, 14, 20>>, knownAt |-> 2, thumb |-> TRUE],
     [needs |-> <<1, 18>>, knownAt |-> 2, thumb |-> FALSE]}
=============================================================================
