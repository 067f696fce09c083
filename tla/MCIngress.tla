------------------------------ MODULE MCIngress ------------------------------
(***************************************************************************)
(* Instances of Ingress for TLC. Contents a and b are non-idempotent       *)
(* actions of one author that carry the same nonce; a and c claim the same *)
(* nullifier; c is content-addressed; b stays on this node.  The balance    *)
(* pays for a and c, or for b and c, never for a and b.                    *)
(***************************************************************************)
EXTENDS IngressProps, TLC

CONSTANTS a, b, c, p, q, r1, r2, r3, nonceA, nonceC, nullA, alice

MCNonceOf == [x \in Content |-> IF x = c THEN nonceC ELSE nonceA]
MCNullifierOf == [x \in Content |-> IF x = b THEN NoNullifier ELSE nullA]
MCSubjectOf == [x \in Content |-> alice]
MCCostOf == [x \in Content |-> IF x = c THEN 1 ELSE 2]
MCIdempotent == Content \cap {c}
MCFederated == Content \ {b}

=============================================================================
