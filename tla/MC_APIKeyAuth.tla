--------------------------- MODULE MC_APIKeyAuth ---------------------------
(* The middleware with a configured key, over every path of up to three
   segments drawn from the words of its exemption constants, their case and
   prefix variants, and one unrelated word. *)
EXTENDS APIKeyAuth, TLC

CONSTANTS tok, other

MCWords == {"", "x", "oidc", "OIDC", "authorize", "authorizex", "redirect",
            "token", "tokenx", "healthcheck", "credentials", "status",
            "request-object", "verifier", "interactions",
            "authorization-response"}

MCHeaders == {tok, other, NoToken}
=============================================================================
