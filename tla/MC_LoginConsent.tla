--------------------------- MODULE MC_LoginConsent ---------------------------
EXTENDS LoginConsent, TLC

CONSTANTS b1, b2, f1, f2

MCBrowsers == {b1, b2}
MCFlows == {f1, f2}

(* Each flow in its own browser. *)
MCOwnerApart == (f1 :> b1) @@ (f2 :> b2)

(* Both flows in one browser, as two tabs. *)
MCOwnerShared == (f1 :> b1) @@ (f2 :> b1)
=============================================================================
