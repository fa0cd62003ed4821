----------------------------- MODULE MCDelivery -----------------------------
(* Small instances of Delivery for TLC.                                    *)
EXTENDS DeliveryInv, DeliveryRefinement, TLC

CONSTANTS b1, b2, c1, c2

\* Backends are interchangeable.
NodeSymmetry == Permutations(Backends)
=============================================================================
