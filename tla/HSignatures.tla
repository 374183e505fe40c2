---------------------------- MODULE HSignatures ----------------------------
(* h_signature.h: when two H-signatures name the same homotopy class.      *)
(* A signature is given by its value: for HSignature the real and the      *)
(* imaginary part of the complex sum, for HSignature3d one number per      *)
(* obstacle, all in the unit of Threshold.  The computation of the value   *)
(* from a band and its obstacles is not modelled, only that it may fail.   *)
EXTENDS Integers, Sequences

CONSTANTS
  Threshold,           \* cfg.hcp.h_signature_threshold
  PositiveNotFinite,   \* a part that is NaN or infinite, without the sign bit
  NegativeNotFinite    \* and one with it

NotFinite == {PositiveNotFinite, NegativeNotFinite}

Magnitude(x) == IF x < 0 THEN -x ELSE x

\* boost::math::sign() looks at the sign bit, a NaN's too.
Sign(x) ==
  CASE x = PositiveNotFinite -> 1
    [] x = NegativeNotFinite -> -1
    [] OTHER -> IF x > 0 THEN 1 ELSE IF x < 0 THEN -1 ELSE 0

\* HSignature::isValid() and HSignature3d::isValid(), over the parts.
IsValid(sig) == \A part \in DOMAIN sig : sig[part] \notin NotFinite

\* HSignature::isEqual(): a comparison with NaN is false, and an infinite part
\* differs by infinity or by NaN.
IsEqual(sig, other) ==
  /\ IsValid(sig) /\ IsValid(other)
  /\ \A part \in DOMAIN sig : Magnitude(other[part] - sig[part]) <= Threshold

\* An obstacle of no influence on the trajectory; |NaN| and infinity are not
\* below the threshold.
FarAway(value) == value \notin NotFinite /\ Magnitude(value) < Threshold

\* HSignature3d::isEqual(): the obstacles that matter to both lie on the same
\* side of both.  Unlike HSignature::isEqual() it may accept a signature that
\* is not valid.
IsEqual3d(sig, other) ==
  /\ Len(sig) = Len(other)
  /\ \A l \in DOMAIN sig :
       FarAway(other[l]) \/ FarAway(sig[l]) \/ Sign(other[l]) = Sign(sig[l])
=============================================================================
