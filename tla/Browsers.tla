------------------------------- MODULE Browsers -------------------------------
(***************************************************************************)
(* Browsers, the cookies AuthLab leaves in them (app/security.py for the   *)
(* session cookie, app/auth/flowstate.py for the flow cookies), the logins *)
(* they begin at the identity providers, and the requests the service is   *)
(* serving for them.  OidcSignIn and SamlSignIn add the handlers.          *)
(*                                                                         *)
(* A login stands for the secrets drawn when it begins: state, nonce and   *)
(* PKCE verifier for OIDC, the AuthnRequest ID for SAML.                   *)
(***************************************************************************)
EXTENDS SessionStore

CONSTANTS
    Browser,        \* the browsers people use
    Slug,           \* the connections
    Protocol,       \* oidc or saml
    Enabled,        \* the connections that are turned on
    Login,          \* the secrets of one login
    Person,         \* people with an account at the identity providers
    Identity,       \* what a connection's mapping makes of a person's claims
    Request,        \* requests being served at the same time
    None            \* no cookie, no login, no session

ASSUME BrowserAssumption ==
    /\ Protocol \in [Slug -> {"oidc", "saml"}]
    /\ Enabled \subseteq Slug
    /\ Identity \in [Slug -> [Person -> [subject: Name, email: Name, nameId: Name]]]
    /\ None \notin Login \cup SessionId \cup Person \cup Slug \cup Browser

VARIABLES
    jar,        \* the cookies of each browser
    latest,     \* the login a browser has last begun at a connection
    answers,    \* which connection a login was begun at, who has answered it
    spent,      \* logins whose authorization code the provider has redeemed
    details,    \* columns of a session row beside those of SessionStore
    received,   \* logins whose success has reached the browser
    req         \* what each request holds in memory

vars == <<sessions, jar, latest, answers, spent, details, received, req>>

-----------------------------------------------------------------------------

Cookies == [session: SessionId \cup {None},
            flow: [Slug -> Login \cup {None}],
            slo: [Slug -> SessionId \cup {None}]]

Details == [browser: Browser \cup {None}, slug: Slug \cup {None}, nameId: Name]

RequestState ==
    [kind: {"idle", "oidc_login", "callback", "redeemed", "acs", "logout", "sls"},
     browser: Browser \cup {None},
     slug: Slug \cup {None},
     login: Login \cup {None},      \* the login the provider's message answers
     person: Person \cup {None},    \* whom it names
     flow: Login \cup {None},       \* the flow cookie as read
     newest: BOOLEAN,               \* that login was the browser's latest by then
     late: BOOLEAN,                 \* its success had reached the browser by then
     session: SessionId \cup {None}]    \* the session loaded

BrowsersTypeOK ==
    /\ SessionsTypeOK
    /\ jar \in [Browser -> Cookies]
    /\ latest \in [Browser -> [Slug -> Login \cup {None}]]
    /\ answers \in [Login -> [at: Slug \cup {None}, by: Person \cup {None}]]
    /\ spent \subseteq Login
    /\ details \in [SessionId -> Details]
    /\ received \subseteq Login
    /\ req \in [Request -> RequestState]

Idle == [kind |-> "idle", browser |-> None, slug |-> None, login |-> None,
         person |-> None, flow |-> None, newest |-> FALSE, late |-> FALSE,
         session |-> None]

NoDetails == [browser |-> None, slug |-> None, nameId |-> NoName]

BrowsersInit ==
    /\ SessionsInit
    /\ jar = [b \in Browser |-> [session |-> None,
                                 flow |-> [c \in Slug |-> None],
                                 slo |-> [c \in Slug |-> None]]]
    /\ latest = [b \in Browser |-> [c \in Slug |-> None]]
    /\ answers = [n \in Login |-> [at |-> None, by |-> None]]
    /\ spent = {}
    /\ details = [s \in SessionId |-> NoDetails]
    /\ received = {}
    /\ req = [r \in Request |-> Idle]

-----------------------------------------------------------------------------

\* read_flow: the cookie, or nothing once it is past its max_age.  A cookie the
\* browser does not send along is read as nothing too.
ReadFlow(cookie) == {cookie, None}

\* A request that delivers a person's answer to a login, with the flow cookie as read.
Delivery(kind, b, c, n, p, flow) ==
    [kind |-> kind, browser |-> b, slug |-> c, login |-> n, person |-> p, flow |-> flow,
     newest |-> n = latest[b][c], late |-> n \in received, session |-> None]

Begin(r, request) == req[r].kind = "idle" /\ req' = [req EXCEPT ![r] = request]

End(r) == req' = [req EXCEPT ![r] = Idle]

\* The handler answers with an error page, or dies, before its commit: it has
\* at most written an event, and every cookie stays.
Refused(r) ==
    /\ req[r].kind # "idle"
    /\ End(r)
    /\ UNCHANGED <<sessions, jar, latest, answers, spent, details, received>>

\* current_session: the row the session cookie names, if it still authenticates.
CurrentSession(b) ==
    IF jar[b].session # None /\ Authenticates(jar[b].session) THEN jar[b].session ELSE None

\* The redirect to the provider reaches the browser, with the flow cookie of a
\* login whose secrets have just been drawn.
Redirect(b, c, n) ==
    /\ answers[n].at = None
    /\ answers' = [answers EXCEPT ![n] = [at |-> c, by |-> None]]
    /\ latest' = [latest EXCEPT ![b][c] = n]
    /\ jar' = [jar EXCEPT ![b].flow[c] = n]
    /\ UNCHANGED <<sessions, spent, details, received>>

\* The provider signs someone in and sends the browser back with the answer.
\* The browser keeps it: a reload or the back button delivers it again.
AnswerLogin(n, p) ==
    /\ answers[n].at # None /\ answers[n].by = None
    /\ answers' = [answers EXCEPT ![n].by = p]
    /\ UNCHANGED <<sessions, jar, latest, spent, details, received, req>>

\* Variant of SignedInCookies: clear_flow is forgotten.
KeepFlow(b, c, s) == [jar EXCEPT ![b].session = s]

\* The cookies of a browser that receives the success of a sign-in.
SignedInCookies(b, c, s) == [jar EXCEPT ![b].session = s, ![b].flow[c] = None]

\* The last step of a sign-in: create_session commits the row, and the answer
\* with the cookies reaches the browser or is lost.
SignIn(r, s, nameId) ==
    LET q == req[r]  who == Identity[q.slug][q.person]
    IN  /\ CreateSession(s, who.subject, who.email)
        /\ details' = [details EXCEPT ![s] =
                          [browser |-> q.browser, slug |-> q.slug, nameId |-> nameId]]
        /\ End(r)
        /\ \/ /\ jar' = SignedInCookies(q.browser, q.slug, s)
              /\ received' = received \cup ({q.login} \ {None})
           \/ UNCHANGED <<jar, received>>
        /\ UNCHANGED <<latest, answers, spent>>

=============================================================================
