---------------------------- MODULE LoginConsent ----------------------------
(***************************************************************************)
(* The mock login/consent provider of the BDD tests (loginconsent server) *)
(* between browsers and Hydra.  Hydra starts a flow by redirecting the    *)
(* browser to GET /login with the flow's login challenge; after the login *)
(* is accepted it redirects to GET /consent with the consent challenge.  *)
(* The server keeps the challenges in browser cookies and the test config *)
(* of each subject in a store.  A browser may have several requests in    *)
(* flight; each carries the cookies the browser held when it was sent,    *)
(* and the Set-Cookie headers of its response apply when it is handled.   *)
(* A flow's login and consent challenge are both written as the flow.     *)
(***************************************************************************)
EXTENDS Naturals

CONSTANTS
    Browsers,       \* cookie jars (test clients)
    Flows,          \* OAuth flows Hydra runs
    Owner,          \* Flows -> Browsers: the browser Hydra sends a flow to
    MaxLogins,      \* subjects (uuid.New) handed out
    MaxRequests,    \* requests per browser
    None,
    HydraFaults,    \* whether Hydra admin calls may fail
    StoreFaults     \* whether store.Put may fail

VARIABLES
    hydra,          \* per flow: login, consent status and the subject
    jar,            \* per browser: login, consent and skipConsent cookies
    store,          \* subject -> test config or None
    nextSub,        \* next subject uuid
    net,            \* requests in flight
    sent,           \* requests sent per browser
    loginShown,     \* flows whose login UI a browser was shown
    toConsent,      \* per browser: consent challenges Hydra redirected it to
    accepts,        \* [f: flow whose form was submitted, ch: login accepted]
    lastAuth,       \* outcome of the last POST /authenticate
    consentUI       \* skipConsent values of requests answered with the consent UI

vars == <<hydra, jar, store, nextSub, net, sent, loginShown, toConsent,
          accepts, lastAuth, consentUI>>

Subjects == 1..MaxLogins

Kinds == {"getLogin", "postLogin", "postAuthenticate", "getConsent", "postAuthorize"}

Cookies == [login : Flows \cup {None}, consent : Flows \cup {None},
            skip : {None, "true", ""}]

Req == [b : Browsers, f : Flows \cup {None}, kind : Kinds,
        ch : Flows \cup {None}, ck : Cookies, body : {"ok", "fail", None}]

TypeOK ==
    /\ hydra \in [Flows -> [login : {"pending", "accepted", "rejected"},
                            consent : {"none", "pending", "accepted", "rejected"},
                            sub : Subjects \cup {None}]]
    /\ jar \in [Browsers -> Cookies]
    /\ store \in [Subjects -> {"config", None}]
    /\ nextSub \in 1..(MaxLogins + 1)
    /\ net \subseteq Req
    /\ sent \in [Browsers -> 0..MaxRequests]
    /\ loginShown \subseteq Flows
    /\ toConsent \in [Browsers -> SUBSET Flows]
    /\ accepts \subseteq [f : Flows, ch : Flows]
    /\ lastAuth \in {"none", "decode_error"}
    /\ consentUI \subseteq {"true", ""}

Init ==
    /\ hydra = [f \in Flows |-> [login |-> "pending", consent |-> "none", sub |-> None]]
    /\ jar = [b \in Browsers |-> [login |-> None, consent |-> None, skip |-> None]]
    /\ store = [s \in Subjects |-> None]
    /\ nextSub = 1
    /\ net = {}
    /\ sent = [b \in Browsers |-> 0]
    /\ loginShown = {}
    /\ toConsent = [b \in Browsers |-> {}]
    /\ accepts = {}
    /\ lastAuth = "none"
    /\ consentUI = {}

(* The browser sends a request with the cookies it holds now. *)
Send(b, f, kind, ch, body) ==
    /\ sent[b] < MaxRequests
    /\ net' = net \cup {[b |-> b, f |-> f, kind |-> kind, ch |-> ch,
                         ck |-> jar[b], body |-> body]}
    /\ sent' = [sent EXCEPT ![b] = @ + 1]
    /\ UNCHANGED <<hydra, jar, store, nextSub, loginShown, toConsent, accepts, lastAuth, consentUI>>

(* What the test driver of browser b can do: follow Hydra's redirect to the
   login page of one of its flows, submit that page's form or post to
   /authenticate, follow a redirect to a consent page, post to /authorize. *)
Drive(b) ==
    \/ \E f \in Flows : Owner[f] = b /\ hydra[f].login = "pending"
                        /\ Send(b, f, "getLogin", f, None)
    \/ \E f \in loginShown : Owner[f] = b /\ Send(b, f, "postLogin", None, None)
    \/ \E f \in loginShown : Owner[f] = b /\ Send(b, f, "postAuthenticate", None, "ok")
    \/ \E g \in toConsent[b] : Send(b, None, "getConsent", g, None)
    \/ \E g \in toConsent[b], body \in {"ok", "fail"} :
            Send(b, None, "postAuthorize", None, body)

(* loginHandler: store login_challenge in a cookie and render the form. *)
GetLogin(r) ==
    /\ r.kind = "getLogin"
    /\ jar' = [jar EXCEPT ![r.b].login = r.ch]
    /\ loginShown' = loginShown \cup {r.f}
    /\ UNCHANGED <<hydra, store, nextSub, toConsent, accepts, lastAuth, consentUI>>

(* Mutant: completeLogin accepts the login at Hydra before it saves the
   test config, so a failed Put leaves a logged-in subject unconfigured. *)
CompleteLoginAcceptFirst(r) ==
    LET c == r.ck.login
        s == nextSub
    IN /\ c # None
       /\ nextSub <= MaxLogins
       /\ nextSub' = nextSub + 1
       /\ hydra[c].login = "pending"
       /\ hydra' = [hydra EXCEPT ![c] = [login |-> "accepted", consent |-> "pending",
                                         sub |-> s]]
       /\ \/ store' = [store EXCEPT ![s] = "config"]
          \/ StoreFaults /\ UNCHANGED store
       /\ accepts' = accepts \cup {[f |-> r.f, ch |-> c]}
       /\ toConsent' = [toConsent EXCEPT ![r.b] = @ \cup {c}]

(* completeLogin for a request that is not a failure injection (its only
   caller with Fail set, /authenticate, never gets this far): the login
   challenge comes from the cookie; the subject's test config is Put, then
   Hydra's AcceptLoginRequest redirects the browser to the flow's consent.
   A missing cookie, a failed Put or a failed Hydra call ends the request
   with an empty page. *)
CompleteLogin(r) ==
    LET c == r.ck.login
        s == nextSub
    IN IF c = None THEN UNCHANGED <<hydra, store, nextSub, accepts, toConsent>>
       ELSE /\ nextSub <= MaxLogins
            /\ nextSub' = nextSub + 1
            /\ \/ /\ StoreFaults
                  /\ UNCHANGED <<hydra, store, accepts, toConsent>>
               \/ /\ store' = [store EXCEPT ![s] = "config"]
                  /\ \/ /\ HydraFaults \/ hydra[c].login # "pending"
                        /\ UNCHANGED <<hydra, accepts, toConsent>>
                     \/ /\ hydra[c].login = "pending"
                        /\ hydra' = [hydra EXCEPT ![c] = [login |-> "accepted",
                                                 consent |-> "pending", sub |-> s]]
                        /\ accepts' = accepts \cup {[f |-> r.f, ch |-> c]}
                        /\ toConsent' = [toConsent EXCEPT ![r.b] = @ \cup {c}]

(* postLoginHandler: set skipConsent=true, then completeLogin for a new
   subject. *)
PostLogin(r) ==
    /\ r.kind = "postLogin"
    /\ jar' = [jar EXCEPT ![r.b].skip = "true"]
    /\ CompleteLogin(r)
    /\ UNCHANGED <<loginShown, lastAuth, consentUI>>

(* userAuthenticationHandler decodes the body into a nil *AuthConfigRequest:
   json.Decode always fails and the handler returns an empty page. *)
PostAuthenticate(r) ==
    /\ r.kind = "postAuthenticate"
    /\ lastAuth' = "decode_error"
    /\ UNCHANGED <<hydra, jar, store, nextSub, loginShown, toConsent, accepts, consentUI>>

(* completeConsent: GetConsentRequest, the subject's test config from the
   store, then Reject- or AcceptConsentRequest and a redirect (committed).
   Any failure returns without writing anything. *)
CompleteConsent(ch, fail, committed) ==
    LET ok == hydra[ch].consent = "pending" /\ store[hydra[ch].sub] # None
    IN IF committed
       THEN /\ ok
            /\ hydra' = [hydra EXCEPT ![ch].consent =
                                       IF fail THEN "rejected" ELSE "accepted"]
       ELSE /\ ~ok \/ HydraFaults
            /\ UNCHANGED hydra

(* consentHandler: without a skipConsent cookie, nothing.  With "true" it
   calls completeConsent and does not return: it then sets the consent
   cookie and writes the consent page.  If completeConsent already wrote the
   redirect, the cookie is dropped and the page goes into the redirect's
   body, which the browser does not show; otherwise the browser gets the
   consent UI. *)
GetConsent(r) ==
    /\ r.kind = "getConsent"
    /\ IF r.ck.skip = None
       THEN UNCHANGED <<hydra, jar, consentUI>>
       ELSE \E committed \in BOOLEAN :
              /\ IF r.ck.skip = "true" THEN CompleteConsent(r.ch, FALSE, committed)
                                       ELSE ~committed /\ UNCHANGED hydra
              /\ jar' = IF committed THEN jar
                                     ELSE [jar EXCEPT ![r.b].consent = r.ch]
              /\ consentUI' = IF committed THEN consentUI
                                          ELSE consentUI \cup {r.ck.skip}
    /\ UNCHANGED <<store, nextSub, loginShown, toConsent, accepts, lastAuth>>

(* userAuthorizationHandler: the consent challenge from its cookie, the
   body decoded into a ConsentConfigRequest, then completeConsent. *)
PostAuthorize(r) ==
    /\ r.kind = "postAuthorize"
    /\ IF r.ck.consent = None
       THEN UNCHANGED hydra
       ELSE \E committed \in BOOLEAN :
              CompleteConsent(r.ck.consent, r.body = "fail", committed)
    /\ UNCHANGED <<jar, store, nextSub, loginShown, toConsent, accepts, lastAuth, consentUI>>

Handle(r) ==
    /\ r \in net
    /\ net' = net \ {r}
    /\ sent' = sent
    /\ \/ GetLogin(r) \/ PostLogin(r) \/ PostAuthenticate(r)
       \/ GetConsent(r) \/ PostAuthorize(r)

Next == (\E b \in Browsers : Drive(b)) \/ (\E r \in net : Handle(r))

Spec == Init /\ [][Next]_vars

-----------------------------------------------------------------------------
(* consentHandler looks the subject Hydra logged in up in the store, so
   completeLogin must have saved the subject's test config before Hydra
   accepted the login: every subject Hydra holds a login for is in the
   store, whatever Put or Hydra call failed. *)
LoggedInSubjectsConfigured ==
    \A f \in Flows : hydra[f].login = "accepted" => store[hydra[f].sub] = "config"

(* The login form a browser submits completes the login it was rendered for:
   a POST /login from the page of flow f accepts f's login challenge, not the
   challenge of another flow whose page the same browser loaded later. *)
LoginAcceptsSubmittedFlow == \A a \in accepts : a.f = a.ch

(* postLoginHandler sets skipConsent=true so that consentHandler completes
   the consent itself: a browser holding skipConsent=true is never answered
   with the consent UI, whether completeConsent succeeds or fails. *)
SkippedConsentHasNoUI == "true" \notin consentUI
=============================================================================
