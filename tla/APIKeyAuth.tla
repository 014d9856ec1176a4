----------------------------- MODULE APIKeyAuth -----------------------------
(***************************************************************************)
(* The X-API-Key middleware (mw.APIKeyAuth) and its installation in        *)
(* buildEchoHandler.  A request path is a sequence of segments: the       *)
(* string "/a/b" is <<"a", "b">> and a trailing slash is an empty last    *)
(* segment.  The middleware's string tests on the lower-cased path are    *)
(* translated to tests on segments; the words are chosen so that a        *)
(* string prefix of a segment only arises where WordPrefixes says so.     *)
(***************************************************************************)
EXTENDS Naturals, Sequences, SequencesExt

CONSTANTS
    Words,          \* path segments, including "" and upper-case variants
    MaxSegments,    \* longest path considered
    Token,          \* the configured API key (startup parameter token)
    NoToken,        \* the empty token: no API key configured
    Headers         \* X-API-Key header values a client may send

ASSUME Token \in Headers /\ NoToken \in Headers

VARIABLES
    path,       \* the path of the last request, as segments
    header,     \* its X-API-Key header
    outcome     \* "none" (idle), "next" (handed to the route) or "unauthorized"

vars == <<path, header, outcome>>

Paths == {p \in SeqOf(Words, MaxSegments) : Len(p) >= 1}

(* strings.ToLower on one segment. *)
Lower(w) == IF w = "OIDC" THEN "oidc" ELSE w

(* Pairs <<w, p>> where the string p is a proper prefix of the string w. *)
WordPrefixes == {<<"authorizex", "authorize">>, <<"tokenx", "token">>}

StartsWith(w, p) == w = p \/ <<w, p>> \in WordPrefixes

(* Mutant: the exemption list without "/oidc/redirect". *)
ExemptNoRedirect(p) ==
    LET l == [i \in DOMAIN p |-> Lower(p[i])]
        n == Len(l)
    IN \/ l[n] = "healthcheck"
       \/ n >= 2 /\ l[1] = "request-object"
       \/ \E i \in 1..(n - 2) : l[i] = "credentials" /\ l[i + 1] = "status"
       \/ n >= 3 /\ l[1] = "verifier" /\ l[2] = "interactions"
                 /\ StartsWith(l[3], "authorization-response")
       \/ n >= 2 /\ l[1] = "oidc"
                 /\ \E e \in {"authorize", "token"} : StartsWith(l[2], e)

(* The exemptions of APIKeyAuth, each a string test on the lower-cased path:
   HasSuffix "/healthcheck", HasPrefix "/request-object/", Contains
   "/credentials/status/", HasPrefix "/verifier/interactions/authorization-
   response", HasPrefix "/oidc/authorize", "/oidc/redirect", "/oidc/token". *)
Exempt(p) ==
    LET l == [i \in DOMAIN p |-> Lower(p[i])]
        n == Len(l)
    IN \/ l[n] = "healthcheck"
       \/ n >= 2 /\ l[1] = "request-object"
       \/ \E i \in 1..(n - 2) : l[i] = "credentials" /\ l[i + 1] = "status"
       \/ n >= 3 /\ l[1] = "verifier" /\ l[2] = "interactions"
                 /\ StartsWith(l[3], "authorization-response")
       \/ n >= 2 /\ l[1] = "oidc"
                 /\ \E e \in {"authorize", "redirect", "token"} : StartsWith(l[2], e)

(* subtle.ConstantTimeCompare(header, apiKey) = 1: equal byte strings. *)
KeyMatches(h) == h = Token

(* buildEchoHandler installs the middleware only for a non-empty token. *)
GateInstalled == Token # NoToken

(* One request through the middleware chain. *)
HandleRequest(p, h) ==
    /\ outcome = "none"
    /\ path' = p
    /\ header' = h
    /\ outcome' = IF ~GateInstalled \/ Exempt(p) \/ KeyMatches(h)
                  THEN "next" ELSE "unauthorized"

TypeOK ==
    /\ path \in Paths \cup {<<>>}
    /\ header \in Headers
    /\ outcome \in {"none", "next", "unauthorized"}

Init ==
    /\ path = <<>>
    /\ header = NoToken
    /\ outcome = "none"

(* The response is written; the server takes the next request. *)
Respond ==
    /\ outcome # "none"
    /\ path' = <<>>
    /\ header' = NoToken
    /\ outcome' = "none"

Next == (\E p \in Paths, h \in Headers : HandleRequest(p, h)) \/ Respond

Spec == Init /\ [][Next]_vars

-----------------------------------------------------------------------------
(* The public endpoints of spec section 6, as routes: the health check, the
   four OIDC endpoints (PAR shares /oidc/authorize), a request object by id,
   a credential status list by id, and the verifier's authorization
   response. *)
PublicEndpoint(p) ==
    LET n == Len(p) IN
    \/ p = <<"healthcheck">>
    \/ p \in {<<"oidc", e>> : e \in {"authorize", "redirect", "token"}}
    \/ n = 2 /\ p[1] = "request-object" /\ p[2] # ""
    \/ n >= 3 /\ p[n - 2] = "credentials" /\ p[n - 1] = "status" /\ p[n] # ""
    \/ p = <<"verifier", "interactions", "authorization-response">>

(* Wallets and identity providers reach every public endpoint without an
   API key: APIKeyAuth lets each of them through whatever header is sent. *)
PublicEndpointsOpen ==
    (outcome # "none" /\ PublicEndpoint(path)) => outcome = "next"

(* Only the public endpoints of spec section 6 are exempt: with a key
   configured, a request to any other path without the key gets a 401. *)
OthersNeedKey ==
    (outcome # "none" /\ GateInstalled /\ ~PublicEndpoint(path)
        /\ ~KeyMatches(header)) => outcome = "unauthorized"
=============================================================================
