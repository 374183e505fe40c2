----------------------- MODULE MCHomotopyClassPlanner -----------------------
(* Small instances of HomotopyClassPlanner.  The signatures are model        *)
(* values; which of them are valid and similar follows from their values by  *)
(* the comparisons of h_signature.h.  In the second set c is similar to b    *)
(* and b to a, but c is not similar to a; nan is not valid, and similar to   *)
(* all of them.                                                              *)
EXTENDS HomotopyClassPlanner

CONSTANTS a, b, c, nan, plusnan, minusnan

H == INSTANCE HSignatures
       WITH Threshold <- 2, PositiveNotFinite <- plusnan, NegativeNotFinite <- minusnan

\* The values of complex signatures, b of a class of its own.
Apart == [s \in Sigs |->
  CASE s = a -> [real |-> 0, imag |-> 0] [] s = b -> [real |-> 1, imag |-> 3]
    [] OTHER -> [real |-> plusnan, imag |-> 0]]

\* Signatures with respect to two obstacles: left of both, far from the first,
\* right of the first, and one whose part of the second is NaN.
Sides == [s \in Sigs |->
  CASE s = a -> <<5, 5>> [] s = b -> <<1, 5>> [] s = c -> <<-5, 5>>
    [] OTHER -> <<1, plusnan>>]

MCValidApart == {s \in Sigs : H!IsValid(Apart[s])}
MCSimilarApart == {p \in Sigs \X Sigs : H!IsEqual(Apart[p[1]], Apart[p[2]])}
MCValidSides == {s \in Sigs : H!IsValid(Sides[s])}
MCSimilarSides == {p \in Sigs \X Sigs : H!IsEqual3d(Sides[p[1]], Sides[p[2]])}
MCWeight == [plain |-> 4, last |-> 3, initial |-> 3]
=============================================================================
