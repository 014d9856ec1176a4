------------------------------ MODULE Startup ------------------------------
(***************************************************************************)
(* The vc-rest start command: RunE, buildEchoHandler and startServer.     *)
(* Start-up is one goroutine running a fixed sequence of steps; a step    *)
(* that returns an error ends RunE with that error, and the steps after   *)
(* it never run.  A step either adds a middleware to the Echo chain,      *)
(* registers a group of routes, starts a server, or only constructs a     *)
(* collaborator (which may fail).  Optional steps run only when their     *)
(* configuration condition holds.                                         *)
(*                                                                         *)
(* The cobra command object outlives an execution: GetStartCmd captures   *)
(* the caller's StartOpts in the RunE closure, and every execution that   *)
(* gets to startServer first appends WithHTTPHandler(e) to that captured  *)
(* slice.  startServer applies the options in order to an empty startOpts *)
(* and falls back to an http.Server over o.handler when no server was     *)
(* given.  When ListenAndServe or RunE returns, the same command may be   *)
(* executed again with the same flags.  The Echo handler execution n      *)
(* builds is the number n.                                                *)
(***************************************************************************)
EXTENDS Naturals, Sequences, SequencesExt

CONSTANTS
    CallerOpts,     \* the option slices a caller may pass to GetStartCmd
    MaxRuns,        \* executions of the command
    None

VARIABLES
    conf,       \* the startup parameters that steer the sequence
    pc,         \* index of the next step
    status,     \* "running", "serving" (ListenAndServe blocks) or "exited"
    chain,      \* middlewares of the main Echo instance, in order
    routes,     \* route groups registered on it
    servers,    \* servers listening: "metrics", "http" or "https"
    err,        \* the step whose error RunE returned, or "none"
    opts,       \* the StartOpts slice captured by RunE
    runs,       \* the execution of RunE under way
    served      \* per execution that started a server: the server and handler

vars == <<conf, pc, status, chain, routes, servers, err, opts, runs, served>>

(* The parameters buildEchoHandler and startServer branch on. *)
Configs == [token : BOOLEAN, oauthClientsFile : BOOLEAN, devMode : BOOLEAN,
            prometheus : BOOLEAN, tlsCert : BOOLEAN, tlsKey : BOOLEAN]

(* A step: its kind, whether it returns an error, and what it adds. *)
S(name, kind, fallible, what) ==
    [name |-> name, kind |-> kind, fallible |-> fallible, what |-> what]

(* RunE before buildEchoHandler. *)
CommandSteps ==
    << S("getStartupParameters", "construct", TRUE, "none"),
       S("prepareConfiguration", "construct", TRUE, "none") >>

(* createEcho's middlewares, NewMetrics (which never fails), the API-key
   gate, the OpenAPI document and its validator, and the health check. *)
EchoSteps ==
    << S("createEcho", "use", FALSE, <<"Logger", "Recover", "CORS">>),
       S("NewMetrics", "construct", FALSE, "none"),
       S("APIKeyAuth", "use", FALSE, <<"APIKeyAuth">>),
       S("GetSwagger", "construct", TRUE, "none"),
       S("OapiRequestValidator", "use", FALSE, <<"OapiRequestValidator">>),
       S("healthcheck", "route", FALSE, "healthcheck") >>

(* getOAuth2Clients: os.Open of the clients file, then a JSON decode;
   either may fail. *)
OAuthClientsStep == S("getOAuth2Clients", "construct", TRUE, "none")

(* The KMS, the MongoDB client, the event service, the issuer profiles,
   the OIDC4VC stores and service, the Issuer interaction client with its
   API-key provider, the OAuth clients file, the fosite provider, and the
   OIDC4VC and issuer routes. *)
IssuerSteps ==
    << S("NewAriesKeyManager", "construct", TRUE, "none"),
       S("mongodb.New", "connect", TRUE, "none"),
       S("event.Initialize", "construct", TRUE, "none"),
       S("NewIssuerReader", "construct", TRUE, "none"),
       S("oidc4vcstore.New", "construct", TRUE, "none"),
       S("oidc4vc.NewService", "construct", TRUE, "none"),
       S("oidc4vcstatestore.New", "construct", TRUE, "none"),
       S("NewSecurityProviderApiKey", "construct", TRUE, "none"),
       S("issuerv1.NewClient", "construct", TRUE, "none"),
       OAuthClientsStep,
       S("bootstrapOAuthProvider", "construct", TRUE, "none"),
       S("oidc4vc.RegisterHandlers", "route", FALSE, "oidc4vc"),
       S("issuerv1.RegisterHandlers", "route", FALSE, "issuer") >>

(* The verifier profiles, the nonce store, the verifier routes, and the
   development API when devMode is set. *)
VerifierSteps ==
    << S("NewVerifierReader", "construct", TRUE, "none"),
       S("oidcnoncestore.New", "construct", TRUE, "none"),
       S("verifierv1.RegisterHandlers", "route", FALSE, "verifier"),
       S("devapi.RegisterHandlers", "route", FALSE, "devapi") >>

(* NewMetricsProvider (never fails) and, for prometheus, its Create. *)
MetricsSteps ==
    << S("metricsProvider.Create", "serve", TRUE, "metrics") >>

Steps == CommandSteps \o EchoSteps \o IssuerSteps \o VerifierSteps
             \o MetricsSteps \o << S("startServer", "listen", TRUE, "none") >>

(* Mutant: the development API registered whatever devMode says. *)
AppliesIgnoringDevMode(st, c) ==
    CASE st.name = "APIKeyAuth"             -> c.token
      [] st.name = "getOAuth2Clients"       -> c.oauthClientsFile
      [] st.name = "metricsProvider.Create" -> c.prometheus
      [] OTHER                              -> TRUE

(* The condition under which a step runs at all. *)
Applies(st, c) ==
    CASE st.name = "APIKeyAuth"             -> c.token
      [] st.name = "getOAuth2Clients"       -> c.oauthClientsFile
      [] st.name = "devapi.RegisterHandlers" -> c.devMode
      [] st.name = "metricsProvider.Create" -> c.prometheus
      [] OTHER                              -> TRUE

(* WithHTTPServer and WithHTTPHandler: an option sets one field of
   startOpts. *)
WithHTTPServer(s) == [field |-> "server", v |-> s]
WithHTTPHandler(h) == [field |-> "handler", v |-> h]

(* opt(o) *)
ApplyOpt(o, opt) == [o EXCEPT ![opt.field] = opt.v]

(* startServer: the options applied in order to an empty startOpts; with
   no server, an http.Server whose Handler is o.handler. *)
StartServer(os) ==
    LET o == FoldLeft(ApplyOpt, [server |-> None, handler |-> None], os)
    IN [server |-> IF o.server = None THEN "http.Server" ELSE o.server,
        handler |-> o.handler]

(* Mutant: the handler option put in front of the captured ones. *)
RunEOptsPrepended(n) == <<WithHTTPHandler(n)>> \o opts

(* RunE: opts = append(opts, WithHTTPHandler(e)). *)
RunEOpts(n) == Append(opts, WithHTTPHandler(n))

(* At the startServer step RunE has appended its handler, whether or not
   ListenAndServe then fails; other steps leave the options alone. *)
Listen(st) ==
    IF st.kind = "listen"
    THEN /\ opts' = RunEOpts(runs)
         /\ served' = served \cup {[run |-> runs] @@ StartServer(RunEOpts(runs))}
    ELSE UNCHANGED <<opts, served>>

(* startServer serves TLS only when both the key and the cert path are set. *)
ListenScheme(c) == IF c.tlsKey /\ c.tlsCert THEN "https" ELSE "http"

TypeOK ==
    /\ conf \in Configs
    /\ pc \in 1..(Len(Steps) + 1)
    /\ status \in {"running", "serving", "exited"}
    /\ chain \in Seq(STRING)
    /\ routes \subseteq {"healthcheck", "oidc4vc", "issuer", "verifier", "devapi"}
    /\ servers \subseteq {"metrics", "http", "https"}
    /\ err \in {"none"} \cup {Steps[i].name : i \in 1..Len(Steps)}
    /\ runs \in 1..MaxRuns
    /\ \A s \in served : s.run \in 1..runs

Init ==
    /\ conf \in Configs
    /\ pc = 1
    /\ status = "running"
    /\ chain = <<>>
    /\ routes = {}
    /\ servers = {}
    /\ err = "none"
    /\ opts \in CallerOpts
    /\ runs = 1
    /\ served = {}

(* The next step of the sequence: skipped when its condition does not
   hold, ended by its error, or done. *)
RunStep ==
    LET st == Steps[pc]
        after == IF pc = Len(Steps) THEN "serving" ELSE "running"
    IN /\ status = "running"
       /\ \/ /\ ~Applies(st, conf)
             /\ pc' = pc + 1
             /\ status' = after
             /\ UNCHANGED <<chain, routes, servers, err, opts, served>>
          \/ /\ Applies(st, conf)
             /\ st.fallible
             /\ status' = "exited"
             /\ err' = st.name
             /\ Listen(st)
             /\ UNCHANGED <<pc, chain, routes, servers>>
          \/ /\ Applies(st, conf)
             /\ pc' = pc + 1
             /\ status' = after
             /\ chain' = IF st.kind = "use" THEN chain \o st.what ELSE chain
             /\ routes' = IF st.kind = "route" THEN routes \cup {st.what} ELSE routes
             /\ servers' = CASE st.kind = "serve"  -> servers \cup {st.what}
                             [] st.kind = "listen" -> servers \cup {ListenScheme(conf)}
                             [] OTHER              -> servers
             /\ Listen(st)
             /\ UNCHANGED err
       /\ UNCHANGED <<conf, runs>>

(* ListenAndServe returned, or RunE returned its error, and the same
   command is executed again with the same flags: a fresh Echo instance
   and servers, the captured options as the last execution left them. *)
Reexecute ==
    /\ status \in {"serving", "exited"}
    /\ runs < MaxRuns
    /\ runs' = runs + 1
    /\ pc' = 1
    /\ status' = "running"
    /\ chain' = <<>>
    /\ routes' = {}
    /\ servers' = {}
    /\ err' = "none"
    /\ UNCHANGED <<conf, opts, served>>

Next == RunStep \/ Reexecute

Spec == Init /\ [][Next]_vars

-----------------------------------------------------------------------------
(* Spec section 6: the API key guards the service when one is configured.
   Whenever vc-rest serves, every registered route (the OIDC4VC proxy and
   the issuer and verifier APIs; the development API only in devMode) sits
   behind Logger, Recover, CORS, then the API-key gate exactly when a token
   is set, then the OpenAPI validator; and the Prometheus server runs
   only when that provider was chosen. *)
ServingMatchesConfiguration ==
    status = "serving" =>
        /\ chain = <<"Logger", "Recover", "CORS">>
                   \o (IF conf.token THEN <<"APIKeyAuth">> ELSE <<>>)
                   \o <<"OapiRequestValidator">>
        /\ routes = {"healthcheck", "oidc4vc", "issuer", "verifier"}
                    \cup (IF conf.devMode THEN {"devapi"} ELSE {})
        /\ "metrics" \in servers <=> conf.prometheus

(* Whatever options the caller passed and however often the command ran
   before, the default http.Server an execution of RunE starts serves the
   Echo handler that execution built, never a caller's handler or one that
   an earlier execution left in the captured slice. *)
ServesOwnHandler ==
    \A s \in served : s.server = "http.Server" => s.handler = s.run
=============================================================================
