--------------------------- MODULE OIDC4VCProxy ---------------------------
(***************************************************************************)
(* The OIDC4VC authorization proxy (oidc4vc.Controller): the Authorize,   *)
(* Redirect and Token handlers that correlate a wallet's authorization    *)
(* with the Issuer backend through the op_state kept in the authorize    *)
(* state store, together with the parts of the embedded OAuth2 engine    *)
(* (fosite) and of the Issuer that these handlers observe.               *)
(*                                                                         *)
(* Every wallet owns one op_state, written here as the wallet itself, and *)
(* one registered redirect URI, also written as the wallet.  Authorize is *)
(* one atomic step: nothing else can observe its flow before its 303.    *)
(* Redirect and Token run as several steps, one per blocking call, so     *)
(* that replayed callbacks, concurrent token requests and expiries        *)
(* interleave with them.  An Issuer call ends either with the Issuer's    *)
(* answer, which nothing obliges the Issuer to give, or with the HTTP     *)
(* client's timeout.  The engine is fosite over the storage.MemoryStore   *)
(* of the end-to-end test: each store call is atomic on its own, but the  *)
(* store is not Transactional, so the calls of one token request are not *)
(* atomic together.                                                       *)
(***************************************************************************)
EXTENDS Naturals, FiniteSets

CONSTANTS
    Wallets,        \* wallets; each one is also its op_state and its redirect URI
    MaxAttempts,    \* Authorize requests a wallet may make for its op_state
    MaxRequests,    \* Redirect callbacks and token requests per op_state
    NoState,        \* GetAuthorizeState finds no entry
    NoCode          \* a request that carries no proxy code

ASSUME MaxAttempts \in Nat \ {0} /\ MaxRequests \in Nat \ {0}

VARIABLES
    store,      \* authorize state store: op_state -> AuthorizeState or NoState
    codes,      \* engine: status of every proxy authorization code
    issuer,     \* Issuer: what it has been told about each op_state
    received,   \* proxy codes each wallet's callback endpoint has received
    tokens,     \* access tokens the engine issued, per proxy code
    attempts,   \* Authorize requests made per op_state
    parSent,    \* has the wallet sent its pushed authorization request
    req         \* in-flight Redirect and Token handler invocations

vars == <<store, codes, issuer, received, tokens, attempts, parSent, req>>

(* A proxy code is created by NewAuthorizeResponse of one Authorize attempt. *)
Codes == Wallets \X (1..MaxAttempts)
CodeStatus == {"none", "valid", "used", "expired"}

(* The state saved by Authorize: the wallet's redirect URI and the authorize
   response built by the engine (which carries the proxy code). *)
AuthorizeState == [redirectURI : Wallets, code : Codes]

(* Outcomes of one call to the Issuer interaction client. *)
IssuerOutcomes == {"ok", "transport_error", "status_error"}

ReqIds == {"redirect", "token"} \X Wallets \X (1..MaxRequests)
RedirectPCs == {"get", "store", "write"}
TokenPCs == {"access_request", "exchange", "get_session", "invalidate"}
PCs == {"unsent", "done"} \cup RedirectPCs \cup TokenPCs

Req == [pc : PCs, st : AuthorizeState \cup {NoState},
        code : Codes \cup {NoCode}]

(* Each Redirect request calls the Issuer at most once. *)
IssuerRecord == [pushed : BOOLEAN, prepared : BOOLEAN,
                 storeCalls : 0..MaxRequests, codeStored : BOOLEAN,
                 exchanged : BOOLEAN]

Unsent == [pc |-> "unsent", st |-> NoState, code |-> NoCode]

TypeOK ==
    /\ store \in [Wallets -> AuthorizeState \cup {NoState}]
    /\ codes \in [Codes -> CodeStatus]
    /\ issuer \in [Wallets -> IssuerRecord]
    /\ received \in [Wallets -> SUBSET Codes]
    /\ tokens \in [Codes -> Nat]
    /\ attempts \in [Wallets -> 0..MaxAttempts]
    /\ parSent \in [Wallets -> BOOLEAN]
    /\ req \in [ReqIds -> Req]

Init ==
    /\ store = [o \in Wallets |-> NoState]
    /\ codes = [c \in Codes |-> "none"]
    /\ issuer = [o \in Wallets |-> [pushed |-> FALSE, prepared |-> FALSE, storeCalls |-> 0,
                    codeStored |-> FALSE, exchanged |-> FALSE]]
    /\ received = [w \in Wallets |-> {}]
    /\ tokens = [c \in Codes |-> 0]
    /\ attempts = [w \in Wallets |-> 0]
    /\ parSent = [w \in Wallets |-> FALSE]
    /\ req = [id \in ReqIds |-> Unsent]

-----------------------------------------------------------------------------
(* The state store (StateStore interface, in-memory implementation). *)

GetAuthorizeState(o) == store[o]

SaveAuthorizeState(o, s) == store' = [store EXCEPT ![o] = s]

(* The points at which each handler can fail, one per error path of its
   unit tests. *)
AuthorizeFailures ==
    {"new_authorize_request", "prepare_transport", "prepare_status",
     "new_authorize_response", "save_state"}

(* Does the handler carry on after this Issuer outcome?  Store and Exchange
   only fail on a transport error: their status code is not checked. *)
StatusUnchecked(outcome) == outcome # "transport_error"

(* The authorization_details parameter of a PAR: well-formed with type
   "openid_credential", not JSON, or JSON of another type. *)
AuthorizationDetails == {"valid", "bad_json", "bad_type"}

ParFailures ==
    {"new_pushed_authorize_request", "push_transport", "push_status",
     "new_pushed_authorize_response"}

-----------------------------------------------------------------------------
(* OidcPushedAuthorizationRequest: NewPushedAuthorizeRequest, decoding and
   validating authorization_details, PushAuthorizationDetails at the Issuer
   (status checked), NewPushedAuthorizeResponse and its write.  The Issuer
   is contacted only when the engine and the validation accept the request. *)
OidcPushedAuthorizationRequest(w) ==
    /\ ~parSent[w]
    /\ parSent' = [parSent EXCEPT ![w] = TRUE]
    /\ \E details \in AuthorizationDetails, f \in ParFailures \cup {"none"} :
          LET pushed == /\ details = "valid"
                        /\ f \notin {"new_pushed_authorize_request",
                                     "push_transport", "push_status"}
          IN issuer' = IF pushed THEN [issuer EXCEPT ![w].pushed = TRUE]
                                 ELSE issuer
    /\ UNCHANGED <<store, codes, received, tokens, attempts, req>>

-----------------------------------------------------------------------------
(* OidcAuthorize: NewAuthorizeRequest, PrepareAuthorizationRequest at the
   Issuer (status checked), NewAuthorizeResponse (the engine creates the
   proxy code), SaveAuthorizeState, then a 303 to the Issuer's endpoint.
   A failure keeps the side effects of the steps before it. *)
OidcAuthorize(w) ==
    LET n == attempts[w] + 1
        c == <<w, n>>
        prepared(f) == f \notin {"new_authorize_request", "prepare_transport",
                                 "prepare_status"}
        responded(f) == f = "save_state"
    IN
    /\ attempts[w] < MaxAttempts
    /\ attempts' = [attempts EXCEPT ![w] = n]
    /\ \/ \* success: the state is saved before the user agent is redirected
          /\ issuer' = [issuer EXCEPT ![w].prepared = TRUE]
          /\ codes' = [codes EXCEPT ![c] = "valid"]
          /\ SaveAuthorizeState(w, [redirectURI |-> w, code |-> c])
       \/ \E f \in AuthorizeFailures :
          /\ issuer' = IF prepared(f) THEN [issuer EXCEPT ![w].prepared = TRUE]
                                      ELSE issuer
          /\ codes' = IF responded(f) THEN [codes EXCEPT ![c] = "valid"]
                                      ELSE codes
          /\ UNCHANGED store
    /\ UNCHANGED <<received, tokens, parSent, req>>

-----------------------------------------------------------------------------
(* The identity provider, or anyone holding the URL, calls the public
   /oidc/redirect endpoint with (code, state = op_state).  The fake IdP of
   the end-to-end test echoes the state of the authorize request it got;
   the endpoint is API-key exempt, so a replayed or stale callback for any
   op_state is also possible.  The lowest unsent slot is used. *)
FirstUnsent(kind, o) ==
    {n \in 1..MaxRequests : /\ req[<<kind, o, n>>].pc = "unsent"
                            /\ \A m \in 1..(n - 1) : req[<<kind, o, m>>].pc # "unsent"}

IdPRedirect(o) ==
    /\ \E n \in FirstUnsent("redirect", o) :
          req' = [req EXCEPT ![<<"redirect", o, n>>].pc = "get"]
    /\ UNCHANGED <<store, codes, issuer, received, tokens, attempts, parSent>>

(* Mutant: the handler goes on to the Issuer without checking that an
   authorize state was found. *)
OidcRedirectGetStateNoCheck(id) ==
    LET o == id[2] IN
    /\ id[1] = "redirect"
    /\ req[id].pc = "get"
    /\ req' = [req EXCEPT ![id].pc = "store", ![id].st = GetAuthorizeState(o)]
    /\ UNCHANGED <<store, codes, issuer, received, tokens, attempts, parSent>>

(* OidcRedirect, step 1: GetAuthorizeState(state).  A missing entry or a
   store error ends the handler before any call to the Issuer. *)
OidcRedirectGetState(id) ==
    LET o == id[2] IN
    /\ id[1] = "redirect"
    /\ req[id].pc = "get"
    /\ \/ /\ GetAuthorizeState(o) # NoState
          /\ req' = [req EXCEPT ![id].pc = "store", ![id].st = GetAuthorizeState(o)]
       \/ req' = [req EXCEPT ![id].pc = "done"]
    /\ UNCHANGED <<store, codes, issuer, received, tokens, attempts, parSent>>

(* OidcRedirect, step 2: StoreAuthorizationCodeRequest{code, op_state}
   returns with the Issuer's answer. *)
OidcRedirectStoreCode(id) ==
    LET o == id[2] IN
    /\ id[1] = "redirect"
    /\ req[id].pc = "store"
    /\ \E outcome \in IssuerOutcomes :
          /\ issuer' = [issuer EXCEPT ![o].storeCalls = @ + 1,
                                      ![o].codeStored = @ \/ outcome = "ok"]
          /\ req' = [req EXCEPT ![id].pc = IF StatusUnchecked(outcome)
                                           THEN "write" ELSE "done"]
    /\ UNCHANGED <<store, codes, received, tokens, attempts, parSent>>

(* OidcRedirect, step 3: WriteAuthorizeResponse to the redirect URI read in
   step 1, carrying the proxy code of the saved authorize response.  The
   client callback of the wallet receives it. *)
OidcRedirectWriteResponse(id) ==
    LET s == req[id].st IN
    /\ id[1] = "redirect"
    /\ req[id].pc = "write"
    /\ received' = [received EXCEPT ![s.redirectURI] = @ \cup {s.code}]
    /\ req' = [req EXCEPT ![id].pc = "done"]
    /\ UNCHANGED <<store, codes, issuer, tokens, attempts, parSent>>

-----------------------------------------------------------------------------
(* The wallet exchanges a proxy code it received at its callback (also a
   retry, or a concurrent second request, with the same code). *)
WalletTokenRequest(w) ==
    /\ \E c \in received[w], n \in FirstUnsent("token", w) :
          req' = [req EXCEPT ![<<"token", w, n>>] =
                      [pc |-> "access_request", st |-> NoState, code |-> c]]
    /\ UNCHANGED <<store, codes, issuer, received, tokens, attempts, parSent>>

(* OidcToken, step 1: NewAccessRequest.  The engine looks the code up and
   checks PKCE and the client; a protocol error ends the handler before any
   Issuer call.  The session it returns carries the op_state. *)
OidcTokenNewAccessRequest(id) ==
    LET c == req[id].code IN
    /\ id[1] = "token"
    /\ req[id].pc = "access_request"
    /\ \/ /\ codes[c] = "valid"
          /\ req' = [req EXCEPT ![id].pc = "exchange"]
       \/ req' = [req EXCEPT ![id].pc = "done"]
    /\ UNCHANGED <<store, codes, issuer, received, tokens, attempts, parSent>>

(* OidcToken, step 2: ExchangeAuthorizationCodeRequest{op_state} with the
   op_state taken from the session extras returns with the Issuer's answer;
   then NewAccessResponse. *)
OidcTokenExchange(id) ==
    LET o == req[id].code[1] IN
    /\ id[1] = "token"
    /\ req[id].pc = "exchange"
    /\ \E outcome \in IssuerOutcomes :
          /\ issuer' = [issuer EXCEPT ![o].exchanged = @ \/ outcome = "ok"]
          /\ req' = [req EXCEPT ![id].pc = IF StatusUnchecked(outcome)
                                           THEN "get_session" ELSE "done"]
    /\ UNCHANGED <<store, codes, received, tokens, attempts, parSent>>

(* OidcToken, step 3: NewAccessResponse runs the authorize-code handler's
   PopulateTokenEndpointResponse, which first fetches the code session
   again (GetAuthorizeCodeSession, refused once the code is invalidated)
   and checks its lifespan.  A code used or expired since step 1 ends the
   handler with an error. *)
OidcTokenGetCodeSession(id) ==
    /\ id[1] = "token"
    /\ req[id].pc = "get_session"
    /\ req' = [req EXCEPT ![id].pc = IF codes[req[id].code] = "valid"
                                     THEN "invalidate" ELSE "done"]
    /\ UNCHANGED <<store, codes, issuer, received, tokens, attempts, parSent>>

(* OidcToken, step 4: InvalidateAuthorizeCodeSession, a separate call on
   the store that marks the code inactive without checking that it still
   was, then the access token is created and WriteAccessResponse sends it. *)
OidcTokenInvalidateCode(id) ==
    LET c == req[id].code IN
    /\ id[1] = "token"
    /\ req[id].pc = "invalidate"
    /\ codes' = [codes EXCEPT ![c] = "used"]
    /\ tokens' = [tokens EXCEPT ![c] = @ + 1]
    /\ req' = [req EXCEPT ![id].pc = "done"]
    /\ UNCHANGED <<store, issuer, received, attempts, parSent>>

(* Mutant: an Issuer client without a timeout, like the KMS's
   http.DefaultClient. *)
IssuerCallNoTimeout(id) == FALSE

(* The Issuer interaction client's http.Client has Timeout: time.Minute: a
   Store or Exchange call the Issuer has not answered ends with a timeout
   error, which ends the handler.  The Issuer may have applied the call
   all the same. *)
IssuerCallTimeout(id) ==
    LET o == id[2] IN
    /\ req[id].pc \in {"store", "exchange"}
    /\ \E applied \in BOOLEAN :
          issuer' = IF req[id].pc = "store"
                    THEN [issuer EXCEPT ![o].storeCalls = @ + 1,
                                        ![o].codeStored = @ \/ applied]
                    ELSE [issuer EXCEPT ![o].exchanged = @ \/ applied]
    /\ req' = [req EXCEPT ![id].pc = "done"]
    /\ UNCHANGED <<store, codes, received, tokens, attempts, parSent>>

-----------------------------------------------------------------------------
(* Lifetimes: a saved authorize state is removed by the store's TTL, a
   proxy code by the engine's AuthorizeCodeLifespan. *)
StateExpires(o) ==
    /\ store[o] # NoState
    /\ store' = [store EXCEPT ![o] = NoState]
    /\ UNCHANGED <<codes, issuer, received, tokens, attempts, parSent, req>>

CodeExpires(c) ==
    /\ codes[c] = "valid"
    /\ codes' = [codes EXCEPT ![c] = "expired"]
    /\ UNCHANGED <<store, issuer, received, tokens, attempts, parSent, req>>

(* The steps a handler takes on its own: the store and the engine are in
   memory, and an unanswered Issuer call ends at the client's timeout. *)
HandlerStep(id) ==
    \/ OidcRedirectGetState(id)
    \/ OidcRedirectWriteResponse(id)
    \/ OidcTokenNewAccessRequest(id)
    \/ OidcTokenGetCodeSession(id)
    \/ OidcTokenInvalidateCode(id)
    \/ IssuerCallTimeout(id)

(* The Issuer answering a pending call. *)
IssuerAnswers(id) == OidcRedirectStoreCode(id) \/ OidcTokenExchange(id)

Next ==
    \/ \E w \in Wallets : OidcPushedAuthorizationRequest(w)
    \/ \E w \in Wallets : OidcAuthorize(w) \/ IdPRedirect(w) \/ WalletTokenRequest(w)
    \/ \E id \in ReqIds : HandlerStep(id) \/ IssuerAnswers(id)
    \/ \E o \in Wallets : StateExpires(o)
    \/ \E c \in Codes : CodeExpires(c)

(* A handler's own steps are not starved.  The Issuer, the wallets, the IdP
   and expiry are not obliged to act: only the client timeout bounds an
   Issuer call. *)
Fairness == \A id \in ReqIds : WF_vars(HandlerStep(id))

Spec == Init /\ [][Next]_vars /\ Fairness

-----------------------------------------------------------------------------
(* Properties *)

TokensFor(o) == {c \in Codes : c[1] = o /\ tokens[c] > 0}

(* The Issuer is asked to store an identity-provider code only for an
   op_state whose authorization it prepared: OidcRedirect must stop on a
   missing authorize state before StoreAuthorizationCodeRequest, even for a
   callback replayed or forged on the public redirect endpoint. *)
StoreOnlyForPrepared ==
    \A o \in Wallets : issuer[o].storeCalls > 0 => issuer[o].prepared

(* RFC 6749 section 4.1.2: an authorization code is used once.  A proxy
   code yields at most one access token, even when the wallet sends two
   token requests with it concurrently. *)
AtMostOneTokenPerCode ==
    \A c \in Codes : tokens[c] <= 1

(* An access token is issued only for a transaction whose Issuer accepted
   both the identity-provider code and the exchange (spec section 6: a
   non-2xx answer of any Issuer operation is an error). *)
TokenOnlyForAcceptedTransaction ==
    \A o \in Wallets :
        TokensFor(o) # {} => issuer[o].codeStored /\ issuer[o].exchanged

(* Every Redirect or Token request that reaches the proxy is answered, even
   when the Issuer never answers its call: the client timeout ends it. *)
RequestsComplete ==
    \A id \in ReqIds :
        req[id].pc \notin {"unsent", "done"} ~> req[id].pc = "done"

=============================================================================
