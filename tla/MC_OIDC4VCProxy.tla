------------------------- MODULE MC_OIDC4VCProxy -------------------------
(* Model-checking instance of OIDC4VCProxy: a model value for the wallet  *)
(* and the sentinels, and the bounds of the runs.                         *)
EXTENDS OIDC4VCProxy, TLC

CONSTANTS w1

(* op_states share no state in the proxy, the store or the engine, so one
   wallet already exhibits every interleaving of its own requests. *)
MCOneWallet == {w1}
=============================================================================
