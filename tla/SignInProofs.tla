----------------------------- MODULE SignInProofs -----------------------------
(***************************************************************************)
(* The properties of SignIn for any number of browsers, connections,       *)
(* logins, sessions and concurrent requests.                               *)
(***************************************************************************)
EXTENDS SignIn, TLAPS

\* A flow cookie is that of the login its browser has begun last.
HeldIsLatest ==
    \A b \in Browser, c \in Slug : jar[b].flow[c] \in {None, latest[b][c]}

\* A login belongs to one connection and to one browser.
LatestIsOwn ==
    \A b \in Browser, c \in Slug : latest[b][c] # None =>
        /\ answers[latest[b][c]].at = c
        /\ \A b2 \in Browser : latest[b2][c] = latest[b][c] => b2 = b

\* The cookie of a login is gone once its success has been received.
ReceivedIsGone ==
    /\ \A n \in received : answers[n].at # None
    /\ \A b \in Browser, c \in Slug : jar[b].flow[c] \in received => c \in AllowUnsolicited

\* A session cookie only ever reaches the browser its session was opened in.
CookieIsOwn ==
    \A b \in Browser : jar[b].session # None =>
        /\ details[jar[b].session].browser = b
        /\ details[jar[b].session].slug \in Slug
        /\ sessions[jar[b].session].status # "none"

SigningIn == {"callback", "redeemed", "acs"}

\* What a request that has passed its checks may rely on.
Sound(q) ==
    /\ q.kind # "idle" => q.browser \in Browser
    /\ q.kind \in SigningIn \cup {"oidc_login", "sls"} => q.slug \in Slug
    /\ q.kind \in SigningIn =>
          /\ q.person \in Person
          /\ q.login # None => answers[q.login].at = q.slug
          /\ q.late => q.slug \in AllowUnsolicited
          /\ q.login # None /\ q.slug \notin AllowUnsolicited =>
                /\ q.newest
                /\ \A b \in Browser : latest[b][q.slug] = q.login => b = q.browser
    /\ q.kind = "callback" => q.login # None
    /\ q.kind = "logout" => q.session # None
    /\ q.kind \in {"logout", "sls"} /\ q.session # None =>
          /\ details[q.session].browser = q.browser
          /\ details[q.session].slug \in Slug
          /\ sessions[q.session].status # "none"

RequestsSound == \A r \in Request : Sound(req[r])

IInv ==
    /\ TypeOK
    /\ HeldIsLatest
    /\ LatestIsOwn
    /\ ReceivedIsGone
    /\ CookieIsOwn
    /\ RequestsSound

-----------------------------------------------------------------------------

LEMMA IdleIsSound == Idle \in RequestState /\ Sound(Idle)
<1>1. Idle \in RequestState
  BY DEF Idle, RequestState
<1>2. Sound(Idle)
  BY DEF Idle, Sound, SigningIn
<1> QED  BY <1>1, <1>2

\* The initial state.
LEMMA InitSound == Init => IInv
<1> SUFFICES ASSUME Init PROVE IInv
  OBVIOUS
<1> USE DEF Init, BrowsersInit, SessionsInit
<1>1. TypeOK
  <2>1. sessions \in [SessionId -> SessionRow]
    BY NameAssumption DEF NoSession, SessionRow
  <2>2. jar \in [Browser -> Cookies]
    BY DEF Cookies
  <2>3. details \in [SessionId -> Details]
    BY NameAssumption DEF NoDetails, Details
  <2>4. req \in [Request -> RequestState]
    BY IdleIsSound
  <2> QED  BY <2>1, <2>2, <2>3, <2>4 DEF TypeOK, BrowsersTypeOK, SessionsTypeOK
<1>2. HeldIsLatest /\ LatestIsOwn
  BY DEF HeldIsLatest, LatestIsOwn
<1>3. ReceivedIsGone /\ CookieIsOwn
  BY DEF ReceivedIsGone, CookieIsOwn
<1>4. RequestsSound
  BY IdleIsSound DEF RequestsSound
<1> QED  BY <1>1, <1>2, <1>3, <1>4 DEF IInv

\* A step that only changes what one request holds, to something sound.
LEMMA RequestStep ==
    ASSUME IInv, NEW r \in Request, NEW x \in RequestState, Sound(x),
           req' = [req EXCEPT ![r] = x], spent' \subseteq Login,
           UNCHANGED <<sessions, jar, latest, answers, details, received>>
    PROVE  IInv'
<1> USE DEF IInv
<1>1. TypeOK'
  BY DEF TypeOK, BrowsersTypeOK, SessionsTypeOK
<1>2. HeldIsLatest' /\ LatestIsOwn' /\ ReceivedIsGone' /\ CookieIsOwn'
  BY DEF HeldIsLatest, LatestIsOwn, ReceivedIsGone, CookieIsOwn
<1>3. RequestsSound'
  <2> SUFFICES ASSUME NEW t \in Request PROVE Sound(req[t])'
    BY DEF RequestsSound
  <2>1. Sound(req'[t])
    BY DEF RequestsSound, TypeOK, BrowsersTypeOK
  <2> QED  BY <2>1 DEF Sound
<1> QED  BY <1>1, <1>2, <1>3

\* A request that delivers an answer is well typed.
LEMMA DeliveryIsTyped ==
    ASSUME NEW kind \in {"callback", "acs"}, NEW b \in Browser, NEW c \in Slug,
           NEW n \in Login \cup {None}, NEW p \in Person, NEW flow \in Login \cup {None}
    PROVE  Delivery(kind, b, c, n, p, flow) \in RequestState
<1>1. (n = latest[b][c]) \in BOOLEAN /\ (n \in received) \in BOOLEAN
  OBVIOUS
<1> QED  BY <1>1 DEF Delivery, RequestState

\* The answer to a login is accepted only with that login's flow cookie.
LEMMA AcceptedIsSound ==
    ASSUME IInv, NEW b \in Browser, NEW c \in Slug, NEW n \in Login, NEW p \in Person,
           NEW kind \in SigningIn, NEW flow,
           c \notin AllowUnsolicited => n = jar[b].flow[c],
           answers[n].at = c
    PROVE  Sound(Delivery(kind, b, c, n, p, flow))
<1> DEFINE x == Delivery(kind, b, c, n, p, flow)
<1>1. /\ x.kind = kind /\ x.browser = b /\ x.slug = c /\ x.login = n /\ x.person = p
      /\ x.newest = (n = latest[b][c]) /\ x.late = (n \in received)
  BY DEF Delivery
<1> HIDE DEF x
<1>2. n # None
  BY BrowserAssumption
<1>3. c \notin AllowUnsolicited => n = latest[b][c] /\ n \notin received
  BY <1>2 DEF IInv, HeldIsLatest, ReceivedIsGone
<1>4. c \notin AllowUnsolicited =>
        \A b2 \in Browser : latest[b2][c] = n => b2 = b
  BY <1>2, <1>3 DEF IInv, LatestIsOwn
<1>5. kind \notin {"idle", "logout", "sls"}
  BY DEF SigningIn
<1>6. Sound(x)
  BY <1>1, <1>2, <1>3, <1>4, <1>5 DEF Sound
<1> QED  BY <1>6 DEF x

-----------------------------------------------------------------------------

\* One cookie of one browser set or cleared.
WithFlow(j, b, c, n) == [j EXCEPT ![b].flow[c] = n]

WithSession(j, b, s) == [j EXCEPT ![b].session = s]

WithSlo(j, b, c, s) == [j EXCEPT ![b].slo[c] = s]

\* Setting one flow cookie of one browser.
LEMMA FlowCookieSet ==
    ASSUME NEW j \in [Browser -> Cookies], NEW b \in Browser, NEW c \in Slug,
           NEW n \in Login \cup {None}
    PROVE  /\ WithFlow(j, b, c, n) \in [Browser -> Cookies]
           /\ \A b2 \in Browser :
                 /\ WithFlow(j, b, c, n)[b2].session = j[b2].session
                 /\ \A c2 \in Slug :
                       WithFlow(j, b, c, n)[b2].flow[c2] = IF b2 = b /\ c2 = c THEN n ELSE j[b2].flow[c2]
<1> DEFINE k == WithFlow(j, b, c, n)
<1>1. j[b] \in Cookies /\ j[b].flow \in [Slug -> Login \cup {None}]
  BY DEF Cookies
<1> DEFINE f == [j[b].flow EXCEPT ![c] = n]
<1>2. f \in [Slug -> Login \cup {None}] /\ \A c2 \in Slug : f[c2] = IF c2 = c THEN n ELSE j[b].flow[c2]
  BY <1>1
<1>3. k = [j EXCEPT ![b].flow = f]
  BY DEF WithFlow
<1> HIDE DEF k
<1> HIDE DEF f
<1>4. [j[b] EXCEPT !.flow = f] \in Cookies
  BY <1>1, <1>2 DEF Cookies
<1>5. [j EXCEPT ![b].flow = f] = [j EXCEPT ![b] = [j[b] EXCEPT !.flow = f]]
  OBVIOUS
<1>6. [j EXCEPT ![b].flow = f] \in [Browser -> Cookies]
  BY <1>4, <1>5
<1>7. \A b2 \in Browser : [j EXCEPT ![b].flow = f][b2] = IF b2 = b THEN [j[b] EXCEPT !.flow = f] ELSE j[b2]
  BY <1>1
<1>8. [j[b] EXCEPT !.flow = f].session = j[b].session /\ [j[b] EXCEPT !.flow = f].flow = f
  BY <1>1 DEF Cookies
<1>9. k \in [Browser -> Cookies] /\ k[b] = [j[b] EXCEPT !.flow = f]
      /\ \A b2 \in Browser : b2 # b => k[b2] = j[b2]
  BY <1>3, <1>6, <1>7
<1>10. k[b].session = j[b].session /\ k[b].flow = f
  BY <1>8, <1>9
<1>11. \A b2 \in Browser :
          /\ k[b2].session = j[b2].session
          /\ \A c2 \in Slug :
                k[b2].flow[c2] = IF b2 = b /\ c2 = c THEN n ELSE j[b2].flow[c2]
  BY <1>2, <1>9, <1>10
<1> QED  BY <1>9, <1>11 DEF k

\* Setting the session cookie of one browser.
LEMMA SessionCookieSet ==
    ASSUME NEW j \in [Browser -> Cookies], NEW b \in Browser, NEW s \in SessionId \cup {None}
    PROVE  /\ WithSession(j, b, s) \in [Browser -> Cookies]
           /\ \A b2 \in Browser : /\ WithSession(j, b, s)[b2].session = IF b2 = b THEN s ELSE j[b2].session
                                  /\ WithSession(j, b, s)[b2].flow = j[b2].flow
<1> DEFINE k == WithSession(j, b, s)
<1>1. j[b] \in Cookies /\ [j[b] EXCEPT !.session = s] \in Cookies
  BY DEF Cookies
<1>2. k = [j EXCEPT ![b] = [j[b] EXCEPT !.session = s]]
  BY DEF WithSession
<1> HIDE DEF k
<1>3. k \in [Browser -> Cookies] /\ k[b] = [j[b] EXCEPT !.session = s]
      /\ \A b2 \in Browser : b2 # b => k[b2] = j[b2]
  BY <1>1, <1>2
<1>4. k[b].session = s /\ k[b].flow = j[b].flow
  BY <1>1, <1>3 DEF Cookies
<1>5. \A b2 \in Browser : /\ k[b2].session = IF b2 = b THEN s ELSE j[b2].session
                          /\ k[b2].flow = j[b2].flow
  BY <1>3, <1>4
<1> QED  BY <1>3, <1>5 DEF k

\* Setting one single-logout cookie of one browser.
LEMMA SloCookieSet ==
    ASSUME NEW j \in [Browser -> Cookies], NEW b \in Browser, NEW c \in Slug,
           NEW s \in SessionId \cup {None}
    PROVE  /\ WithSlo(j, b, c, s) \in [Browser -> Cookies]
           /\ \A b2 \in Browser : /\ WithSlo(j, b, c, s)[b2].session = j[b2].session
                                  /\ WithSlo(j, b, c, s)[b2].flow = j[b2].flow
<1> DEFINE k == WithSlo(j, b, c, s)
<1>1. j[b] \in Cookies /\ j[b].slo \in [Slug -> SessionId \cup {None}]
  BY DEF Cookies
<1> DEFINE f == [j[b].slo EXCEPT ![c] = s]
<1>2. f \in [Slug -> SessionId \cup {None}]
  BY <1>1
<1>3. k = [j EXCEPT ![b] = [j[b] EXCEPT !.slo = f]]
  BY DEF WithSlo
<1> HIDE DEF k
<1> HIDE DEF f
<1>4. [j[b] EXCEPT !.slo = f] \in Cookies
  BY <1>1, <1>2 DEF Cookies
<1>5. k \in [Browser -> Cookies] /\ k[b] = [j[b] EXCEPT !.slo = f]
      /\ \A b2 \in Browser : b2 # b => k[b2] = j[b2]
  BY <1>3, <1>4
<1>6. k[b].session = j[b].session /\ k[b].flow = j[b].flow
  BY <1>1, <1>5 DEF Cookies
<1>7. \A b2 \in Browser : k[b2].session = j[b2].session /\ k[b2].flow = j[b2].flow
  BY <1>5, <1>6
<1> QED  BY <1>5, <1>7 DEF k

\* A new login: its number is nobody's yet.
LEMMA RedirectStep ==
    ASSUME IInv, NEW b \in Browser, NEW c \in Slug, NEW n \in Login, Redirect(b, c, n),
           req' = req \/ \E r \in Request : req' = [req EXCEPT ![r] = Idle]
    PROVE  IInv'
<1> USE DEF IInv
<1>1. /\ answers[n].at = None
      /\ answers' = [answers EXCEPT ![n] = [at |-> c, by |-> None]]
      /\ latest' = [latest EXCEPT ![b][c] = n]
      /\ jar' = [jar EXCEPT ![b].flow[c] = n]
      /\ UNCHANGED <<sessions, spent, details, received>>
      /\ n # None /\ None \notin Slug
  BY BrowserAssumption DEF Redirect
<1> DEFINE Typed == /\ latest \in [Browser -> [Slug -> Login \cup {None}]]
                    /\ jar \in [Browser -> Cookies]
                    /\ answers \in [Login -> [at: Slug \cup {None}, by: Person \cup {None}]]
                    /\ req \in [Request -> RequestState]
                    /\ received \subseteq Login
<1>2. Typed
  BY DEF TypeOK, BrowsersTypeOK
<1>20. jar' = WithFlow(jar, b, c, n) /\ n \in Login \cup {None}
  BY <1>1 DEF WithFlow
<1>3. Typed'
  <2>1. latest' \in [Browser -> [Slug -> Login \cup {None}]]
    BY <1>1, <1>2
  <2>2. jar' \in [Browser -> Cookies]
    BY <1>2, <1>20, FlowCookieSet
  <2>3. answers' \in [Login -> [at: Slug \cup {None}, by: Person \cup {None}]]
    BY <1>1, <1>2
  <2>4. req' \in [Request -> RequestState]
    BY <1>2, IdleIsSound
  <2> QED  BY <1>1, <1>2, <2>1, <2>2, <2>3, <2>4
<1>4. TypeOK'
  BY <1>1, <1>3 DEF TypeOK, BrowsersTypeOK, SessionsTypeOK
<1>5. \A b2 \in Browser, c2 \in Slug :
         /\ latest'[b2][c2] = IF b2 = b /\ c2 = c THEN n ELSE latest[b2][c2]
         /\ jar'[b2].flow[c2] = IF b2 = b /\ c2 = c THEN n ELSE jar[b2].flow[c2]
         /\ jar'[b2].session = jar[b2].session
  <2>1. \A b2 \in Browser, c2 \in Slug :
           latest'[b2][c2] = IF b2 = b /\ c2 = c THEN n ELSE latest[b2][c2]
    BY <1>1, <1>2
  <2>2. \A b2 \in Browser :
           /\ jar'[b2].session = jar[b2].session
           /\ \A c2 \in Slug :
                 jar'[b2].flow[c2] = IF b2 = b /\ c2 = c THEN n ELSE jar[b2].flow[c2]
    BY <1>2, <1>20, FlowCookieSet
  <2> QED  BY <2>1, <2>2
<1>6. \A m \in Login : /\ m # n => answers'[m] = answers[m]
                       /\ answers'[n].at = c
  BY <1>1, <1>2
<1>7. \A b2 \in Browser, c2 \in Slug : latest[b2][c2] # n /\ latest[b2][c2] \in Login \cup {None}
  BY <1>1, <1>2 DEF LatestIsOwn
<1>8. HeldIsLatest'
  BY <1>5 DEF HeldIsLatest
<1>9. LatestIsOwn'
  <2> SUFFICES ASSUME NEW b2 \in Browser, NEW c2 \in Slug, latest'[b2][c2] # None
               PROVE  /\ answers'[latest'[b2][c2]].at = c2
                      /\ \A b3 \in Browser : latest'[b3][c2] = latest'[b2][c2] => b3 = b2
    BY DEF LatestIsOwn
  <2>1. CASE b2 = b /\ c2 = c
    BY <2>1, <1>5, <1>6, <1>7
  <2>2. CASE ~(b2 = b /\ c2 = c)
    BY <2>2, <1>5, <1>6, <1>7 DEF LatestIsOwn
  <2> QED  BY <2>1, <2>2
<1>10. ReceivedIsGone'
  <2>1. n \notin received
    BY <1>1 DEF ReceivedIsGone
  <2>2. \A m \in received : answers'[m].at # None
    BY <2>1, <1>2, <1>6 DEF ReceivedIsGone
  <2> QED  BY <2>1, <2>2, <1>1, <1>5 DEF ReceivedIsGone
<1>11. CookieIsOwn'
  BY <1>1, <1>5 DEF CookieIsOwn
<1>12. RequestsSound'
  <2> SUFFICES ASSUME NEW t \in Request PROVE Sound(req[t])'
    BY DEF RequestsSound
  <2>1. Sound(req[t]) /\ req[t] \in RequestState
    BY <1>2 DEF RequestsSound
  <2>2. CASE req'[t] = req[t]
    <3>1. req[t].kind \in SigningIn /\ req[t].login # None => req[t].login # n /\ req[t].login \in Login /\ req[t].slug \in Slug
      BY <1>1, <2>1 DEF Sound, RequestState
    <3>2. req[t].kind \in SigningIn /\ req[t].login # None =>
             /\ answers'[req[t].login].at = req[t].slug
             /\ \A b2 \in Browser : latest'[b2][req[t].slug] = req[t].login => latest[b2][req[t].slug] = req[t].login
      BY <3>1, <1>5, <1>6, <2>1 DEF Sound
    <3> QED  BY <1>1, <2>1, <2>2, <3>2 DEF Sound
  <2>3. CASE req'[t] = Idle
    BY <2>3 DEF Sound, SigningIn, Idle
  <2> QED  BY <1>2, <2>2, <2>3
<1> QED  BY <1>4, <1>8, <1>9, <1>10, <1>11, <1>12

\* The provider answers.
LEMMA AnswerStep ==
    ASSUME IInv, NEW n \in Login, NEW p \in Person, AnswerLogin(n, p)
    PROVE  IInv'
<1> USE DEF IInv
<1>1. /\ answers' = [answers EXCEPT ![n].by = p]
      /\ UNCHANGED <<sessions, jar, latest, spent, details, received, req>>
  BY DEF AnswerLogin
<1>2. /\ answers \in [Login -> [at: Slug \cup {None}, by: Person \cup {None}]]
      /\ latest \in [Browser -> [Slug -> Login \cup {None}]]
      /\ received \subseteq Login
      /\ req \in [Request -> RequestState]
  BY DEF TypeOK, BrowsersTypeOK
<1>3. \A m \in Login : answers'[m].at = answers[m].at
  BY <1>1, <1>2
<1>4. TypeOK'
  <2>1. answers' \in [Login -> [at: Slug \cup {None}, by: Person \cup {None}]]
    BY <1>1, <1>2
  <2> QED  BY <1>1, <2>1 DEF TypeOK, BrowsersTypeOK, SessionsTypeOK
<1>5. HeldIsLatest' /\ CookieIsOwn'
  BY <1>1 DEF HeldIsLatest, CookieIsOwn
<1>6. LatestIsOwn'
  BY <1>1, <1>2, <1>3 DEF LatestIsOwn
<1>7. ReceivedIsGone'
  BY <1>1, <1>2, <1>3 DEF ReceivedIsGone
<1>8. RequestsSound'
  <2> SUFFICES ASSUME NEW t \in Request PROVE Sound(req[t])'
    BY DEF RequestsSound
  <2>1. Sound(req[t]) /\ req[t].login \in Login \cup {None} /\ req'[t] = req[t]
    BY <1>1, <1>2 DEF RequestsSound, RequestState
  <2> QED  BY <1>1, <1>3, <2>1 DEF Sound
<1> QED  BY <1>4, <1>5, <1>6, <1>7, <1>8

\* A session is opened, and its cookie may reach the browser that asked.
LEMMA SignInStep ==
    ASSUME IInv, NEW r \in Request, NEW s \in SessionId, NEW nameId \in Name,
           req[r].kind \in SigningIn, SignIn(r, s, nameId)
    PROVE  IInv'
<1> USE DEF IInv
<1> DEFINE b == req[r].browser
           c == req[r].slug
           n == req[r].login
           who == Identity[c][req[r].person]
<1>1. /\ req[r] \in RequestState /\ Sound(req[r])
      /\ details \in [SessionId -> Details] /\ sessions \in [SessionId -> SessionRow]
      /\ jar \in [Browser -> Cookies] /\ req \in [Request -> RequestState]
      /\ latest \in [Browser -> [Slug -> Login \cup {None}]]
      /\ received \subseteq Login
  BY DEF TypeOK, BrowsersTypeOK, SessionsTypeOK, RequestsSound
<1>2. /\ b \in Browser /\ c \in Slug /\ n \in Login \cup {None}
      /\ req[r].person \in Person
      /\ None \notin Slug \cup SessionId \cup Login \cup Browser
  BY <1>1, BrowserAssumption DEF Sound, RequestState, SigningIn
<1>3. /\ sessions[s].status = "none"
      /\ sessions' = [sessions EXCEPT ![s] = [status |-> "live", expired |-> FALSE,
                                              subject |-> who.subject, email |-> who.email]]
      /\ details' = [details EXCEPT ![s] = [browser |-> b, slug |-> c, nameId |-> nameId]]
      /\ req' = [req EXCEPT ![r] = Idle]
      /\ UNCHANGED <<latest, answers, spent>>
      /\ \/ /\ jar' = [jar EXCEPT ![b].session = s, ![b].flow[c] = None]
            /\ received' = received \cup ({n} \ {None})
         \/ UNCHANGED <<jar, received>>
  BY DEF SignIn, CreateSession, End, SignedInCookies
<1>4. who.subject \in Name /\ who.email \in Name
  BY <1>2, BrowserAssumption
<1> HIDE DEF b, c, n, who
<1>5. /\ \A b2 \in Browser, c2 \in Slug :
            \/ jar'[b2].flow[c2] = jar[b2].flow[c2]
            \/ jar'[b2].flow[c2] = None
      /\ \A b2 \in Browser : \/ jar'[b2].session = jar[b2].session
                             \/ (b2 = b /\ jar'[b2].session = s)
      /\ received' # received =>
            /\ received' = received \cup {n} /\ n # None
            /\ jar'[b].flow[c] = None
      /\ jar' \in [Browser -> Cookies]
  <2>1. CASE UNCHANGED <<jar, received>>
    <3>1. jar' = jar /\ received' = received
      BY <2>1
    <3> QED  BY <1>1, <3>1
  <2>2. CASE /\ jar' = [jar EXCEPT ![b].session = s, ![b].flow[c] = None]
             /\ received' = received \cup ({n} \ {None})
    <3> DEFINE k == WithSession(jar, b, s)
    <3>1. /\ k \in [Browser -> Cookies]
          /\ \A b2 \in Browser : /\ k[b2].session = IF b2 = b THEN s ELSE jar[b2].session
                                 /\ k[b2].flow = jar[b2].flow
      BY <1>1, <1>2, SessionCookieSet
    <3>2. jar' = WithFlow(k, b, c, None)
      BY <2>2 DEF WithFlow, WithSession
    <3> HIDE DEF k
    <3>3. /\ jar' \in [Browser -> Cookies]
          /\ \A b2 \in Browser :
               /\ jar'[b2].session = k[b2].session
               /\ \A c2 \in Slug : jar'[b2].flow[c2] = IF b2 = b /\ c2 = c THEN None ELSE k[b2].flow[c2]
      BY <1>2, <3>1, <3>2, FlowCookieSet
    <3>4. /\ \A b2 \in Browser, c2 \in Slug :
               jar'[b2].flow[c2] = IF b2 = b /\ c2 = c THEN None ELSE jar[b2].flow[c2]
          /\ \A b2 \in Browser : jar'[b2].session = IF b2 = b THEN s ELSE jar[b2].session
      BY <3>1, <3>3
    <3>5. received' # received => received' = received \cup {n} /\ n # None
      BY <2>2
    <3> QED  BY <1>2, <3>3, <3>4, <3>5
  <2> QED  BY <1>3, <2>1, <2>2
<1>6. TypeOK'
  <2>1. sessions' \in [SessionId -> SessionRow]
    BY <1>1, <1>3, <1>4 DEF SessionRow
  <2>2. details' \in [SessionId -> Details]
    BY <1>1, <1>2, <1>3 DEF Details
  <2>3. jar' \in [Browser -> Cookies]
    BY <1>5
  <2>4. req' \in [Request -> RequestState]
    BY <1>1, <1>3, IdleIsSound
  <2>5. received' \subseteq Login
    BY <1>1, <1>2, <1>3
  <2> QED  BY <1>3, <2>1, <2>2, <2>3, <2>4, <2>5 DEF TypeOK, BrowsersTypeOK, SessionsTypeOK
<1>7. HeldIsLatest' /\ LatestIsOwn'
  BY <1>3, <1>5 DEF HeldIsLatest, LatestIsOwn
<1>8. ReceivedIsGone'
  <2>1. CASE received' = received
    BY <1>1, <1>2, <1>3, <1>5, <2>1 DEF ReceivedIsGone
  <2>2. CASE received' # received
    <3>1. answers[n].at = c /\ n # None
      BY <1>1, <1>5, <2>2 DEF Sound, b, c, n
    <3>2. \A m \in received' : answers'[m].at # None
      BY <1>2, <1>3, <1>5, <2>2, <3>1 DEF ReceivedIsGone
    <3>3. ASSUME NEW b2 \in Browser, NEW c2 \in Slug, jar'[b2].flow[c2] = n,
                 c2 \notin AllowUnsolicited
          PROVE  FALSE
      <4>1. jar[b2].flow[c2] = n /\ latest[b2][c2] = n
        BY <3>1, <3>3, <1>5 DEF HeldIsLatest
      <4>2. c2 = c
        BY <3>1, <4>1 DEF LatestIsOwn
      <4>3. b2 = b
        BY <1>1, <3>1, <3>3, <4>1, <4>2 DEF Sound, b, c, n
      <4> QED  BY <1>5, <2>2, <3>1, <3>3, <4>2, <4>3
    <3>4. \A b2 \in Browser, c2 \in Slug : jar'[b2].flow[c2] \in received' => c2 \in AllowUnsolicited
      <4> SUFFICES ASSUME NEW b2 \in Browser, NEW c2 \in Slug, jar'[b2].flow[c2] \in received'
                   PROVE  c2 \in AllowUnsolicited
        OBVIOUS
      <4>1. CASE jar'[b2].flow[c2] = n
        BY <3>3, <4>1
      <4>2. CASE jar'[b2].flow[c2] # n
        <5>1. jar'[b2].flow[c2] \in received /\ jar'[b2].flow[c2] # None
          BY <1>1, <1>2, <1>5, <2>2, <4>2
        <5> QED  BY <1>5, <5>1 DEF ReceivedIsGone
      <4> QED  BY <4>1, <4>2
    <3> QED  BY <3>2, <3>4 DEF ReceivedIsGone
  <2> QED  BY <2>1, <2>2
<1>9. \A t \in SessionId : sessions[t].status # "none" =>
         details'[t] = details[t] /\ sessions'[t] = sessions[t]
  BY <1>1, <1>3
<1>10. CookieIsOwn'
  <2>1. details'[s].browser = b /\ details'[s].slug \in Slug /\ sessions'[s].status # "none"
    BY <1>1, <1>2, <1>3
  <2>2. \A b2 \in Browser : jar[b2].session # None => jar[b2].session \in SessionId
    BY <1>1 DEF Cookies
  <2> QED  BY <1>5, <1>9, <2>1, <2>2 DEF CookieIsOwn
<1>11. RequestsSound'
  <2> SUFFICES ASSUME NEW t \in Request PROVE Sound(req[t])'
    BY DEF RequestsSound
  <2>1. Sound(req[t]) /\ req[t] \in RequestState
    BY <1>1 DEF RequestsSound
  <2>2. CASE t = r
    BY <1>1, <1>3, <2>2 DEF Sound, SigningIn, Idle
  <2>3. CASE t # r
    <3>1. req'[t] = req[t]
      BY <1>1, <1>3, <2>3
    <3>2. req[t].session # None => req[t].session \in SessionId
      BY <2>1 DEF RequestState
    <3> QED  BY <1>3, <1>9, <2>1, <3>1, <3>2 DEF Sound
  <2> QED  BY <2>2, <2>3
<1> QED  BY <1>6, <1>7, <1>8, <1>10, <1>11

\* Sessions are revoked, and the browser may lose its session cookie.
LEMMA SignOutStep ==
    ASSUME IInv, NEW r \in Request, NEW S \in SUBSET SessionId, NEW b \in Browser,
           NEW newjar,
           \/ newjar = [jar EXCEPT ![b].session = None]
           \/ \E c \in Slug, slo \in SessionId \cup {None} :
                 newjar = [jar EXCEPT ![b].session = None, ![b].slo[c] = slo],
           SignOut(r, S, newjar)
    PROVE  IInv'
<1> USE DEF IInv
<1>1. /\ details \in [SessionId -> Details] /\ sessions \in [SessionId -> SessionRow]
      /\ jar \in [Browser -> Cookies] /\ req \in [Request -> RequestState]
  BY DEF TypeOK, BrowsersTypeOK, SessionsTypeOK
<1>2. /\ sessions' = [t \in SessionId |-> IF t \in S THEN [sessions[t] EXCEPT !.status = "revoked"]
                                                      ELSE sessions[t]]
      /\ req' = [req EXCEPT ![r] = Idle]
      /\ jar' \in {jar, newjar}
      /\ UNCHANGED <<latest, answers, spent, details, received>>
  BY DEF SignOut, StampRevoked, End
<1>3. /\ jar' \in [Browser -> Cookies]
      /\ \A b2 \in Browser : /\ jar'[b2].flow = jar[b2].flow
                             /\ jar'[b2].session \in {jar[b2].session, None}
  <2>1. CASE jar' = jar
    BY <1>1, <2>1
  <2> DEFINE k == WithSession(jar, b, None)
  <2>4. /\ k \in [Browser -> Cookies]
        /\ \A b2 \in Browser : /\ k[b2].session = IF b2 = b THEN None ELSE jar[b2].session
                               /\ k[b2].flow = jar[b2].flow
    BY <1>1, SessionCookieSet
  <2>2. CASE jar' = k
    BY <2>2, <2>4
  <2>3. ASSUME NEW c \in Slug, NEW slo \in SessionId \cup {None},
               jar' = [jar EXCEPT ![b].session = None, ![b].slo[c] = slo]
        PROVE  /\ jar' \in [Browser -> Cookies]
               /\ \A b2 \in Browser : /\ jar'[b2].flow = jar[b2].flow
                                      /\ jar'[b2].session \in {jar[b2].session, None}
    <3>1. jar' = WithSlo(k, b, c, slo)
      BY <2>3 DEF WithSlo, WithSession
    <3> HIDE DEF k
    <3> QED  BY <2>4, <3>1, SloCookieSet
  <2> QED  BY <1>2, <2>1, <2>2, <2>3 DEF WithSession
<1>4. TypeOK'
  <2>1. sessions' \in [SessionId -> SessionRow]
    BY <1>1, <1>2 DEF SessionRow
  <2>2. req' \in [Request -> RequestState]
    BY <1>1, <1>2, IdleIsSound
  <2> QED  BY <1>2, <1>3, <2>1, <2>2 DEF TypeOK, BrowsersTypeOK, SessionsTypeOK
<1>5. HeldIsLatest' /\ LatestIsOwn' /\ ReceivedIsGone'
  BY <1>2, <1>3 DEF HeldIsLatest, LatestIsOwn, ReceivedIsGone
<1>6. \A t \in SessionId : sessions[t].status # "none" => sessions'[t].status # "none"
  BY <1>1, <1>2 DEF SessionRow
<1>7. CookieIsOwn'
  <2>1. \A b2 \in Browser : jar[b2].session # None => jar[b2].session \in SessionId
    BY <1>1 DEF Cookies
  <2> QED  BY <1>2, <1>3, <1>6, <2>1 DEF CookieIsOwn
<1>8. RequestsSound'
  <2> SUFFICES ASSUME NEW t \in Request PROVE Sound(req[t])'
    BY DEF RequestsSound
  <2>1. Sound(req[t]) /\ req[t] \in RequestState
    BY <1>1 DEF RequestsSound
  <2>2. CASE t = r
    BY <1>1, <1>2, <2>2 DEF Sound, SigningIn, Idle
  <2>3. CASE t # r
    <3>1. req'[t] = req[t]
      BY <1>1, <1>2, <2>3
    <3>2. req[t].session # None => req[t].session \in SessionId
      BY <2>1 DEF RequestState
    <3> QED  BY <1>2, <1>6, <2>1, <3>1, <3>2 DEF Sound
  <2> QED  BY <2>2, <2>3
<1> QED  BY <1>4, <1>5, <1>7, <1>8

-----------------------------------------------------------------------------

LEMMA CurrentSessionIsOwn ==
    ASSUME IInv, NEW b \in Browser, CurrentSession(b) # None
    PROVE  /\ CurrentSession(b) \in SessionId
           /\ details[CurrentSession(b)].browser = b
           /\ details[CurrentSession(b)].slug \in Slug
           /\ sessions[CurrentSession(b)].status # "none"
<1>1. CurrentSession(b) = jar[b].session /\ jar[b] \in Cookies
  BY DEF CurrentSession, IInv, TypeOK, BrowsersTypeOK
<1> QED  BY <1>1 DEF IInv, CookieIsOwn, Cookies

\* Every step keeps the invariant.
LEMMA StepKeepsInvariant == IInv /\ [Next]_vars => IInv'
<1> SUFFICES ASSUME IInv, [Next]_vars PROVE IInv'
  OBVIOUS
<1>0. spent \subseteq Login /\ req \in [Request -> RequestState] /\ sessions \in [SessionId -> SessionRow]
  BY DEF IInv, TypeOK, BrowsersTypeOK, SessionsTypeOK
<1>1. ASSUME NEW r \in Request, NEW b \in Browser, NEW c \in Slug, OidcLogin(r, b, c)
      PROVE  IInv'
  <2> DEFINE x == [Idle EXCEPT !.kind = "oidc_login", !.browser = b, !.slug = c]
  <2>1. x \in RequestState
    BY DEF Idle, RequestState
  <2>2. Sound(x)
    BY DEF Sound, SigningIn, Idle
  <2>3. req' = [req EXCEPT ![r] = x] /\ UNCHANGED <<sessions, jar, latest, answers, spent, details, received>>
    BY <1>1 DEF OidcLogin, Begin
  <2> HIDE DEF x
  <2> QED  BY <1>0, <2>1, <2>2, <2>3, RequestStep
<1>2. ASSUME NEW r \in Request, NEW n \in Login, OidcRedirect(r, n)
      PROVE  IInv'
  <2>1. req[r].browser \in Browser /\ req[r].slug \in Slug
    BY <1>2 DEF OidcRedirect, IInv, RequestsSound, Sound
  <2>2. Redirect(req[r].browser, req[r].slug, n) /\ req' = [req EXCEPT ![r] = Idle]
    BY <1>2 DEF OidcRedirect, End
  <2> QED  BY <2>1, <2>2, RedirectStep
<1>3. ASSUME NEW r \in Request, NEW b \in Browser, NEW c \in Slug, NEW n \in Login,
             OidcCallback(r, b, c, n)
      PROVE  IInv'
  <2> DEFINE p == answers[n].by
             x(f) == Delivery("callback", b, c, n, p, f)
  <2>1. PICK flow \in {jar[b].flow[c], None} :
            /\ flow # None /\ n = flow
            /\ req' = [req EXCEPT ![r] = x(flow)]
    BY <1>3 DEF OidcCallback, ReadFlow, StateMatches, Begin
  <2>2. /\ answers[n].at = c /\ p # None
        /\ UNCHANGED <<sessions, jar, latest, answers, spent, details, received>>
    BY <1>3 DEF OidcCallback
  <2>3. p \in Person
    BY <2>2 DEF IInv, TypeOK, BrowsersTypeOK
  <2> HIDE DEF p
  <2>4. x(flow) \in RequestState
    <3>1. "callback" \in {"callback", "acs"} /\ flow \in Login \cup {None} /\ n \in Login \cup {None}
      BY <2>1
    <3> QED  BY <2>3, <3>1, DeliveryIsTyped
  <2>5. "callback" \in SigningIn /\ n = jar[b].flow[c]
    BY <2>1 DEF SigningIn
  <2>6. Sound(x(flow))
    BY <2>2, <2>3, <2>5, AcceptedIsSound
  <2> HIDE DEF x
  <2> QED  BY <1>0, <2>1, <2>2, <2>4, <2>6, RequestStep
<1>4. ASSUME NEW r \in Request, ExchangeCode(r)
      PROVE  IInv'
  <2> DEFINE q == req[r]
             x == [q EXCEPT !.kind = "redeemed"]
  <2>1. q \in RequestState /\ Sound(q) /\ q.kind = "callback" /\ q.login \in Login \cup {None}
    BY <1>0, <1>4 DEF ExchangeCode, IInv, RequestsSound, RequestState
  <2>2. /\ req' = [req EXCEPT ![r] = x]
        /\ spent' = spent \cup {q.login}
        /\ UNCHANGED <<sessions, jar, latest, answers, details, received>>
    BY <1>4 DEF ExchangeCode
  <2>3. q.login # None /\ q.kind # "idle"
    BY <2>1 DEF Sound
  <2>4. x \in RequestState
    BY <2>1 DEF RequestState
  <2>5. /\ x.kind = "redeemed" /\ x.browser = q.browser /\ x.slug = q.slug /\ x.login = q.login
        /\ x.person = q.person /\ x.newest = q.newest /\ x.late = q.late
    BY <2>1 DEF RequestState
  <2> HIDE DEF x, q
  <2>6. Sound(x)
    BY <2>1, <2>3, <2>5 DEF Sound, SigningIn
  <2> QED  BY <1>0, <2>1, <2>2, <2>3, <2>4, <2>6, RequestStep
<1>5. ASSUME NEW r \in Request, NEW s \in SessionId, OidcSignedIn(r, s)
      PROVE  IInv'
  <2>1. req[r].kind \in SigningIn /\ SignIn(r, s, NoName) /\ NoName \in Name
    BY <1>5, NameAssumption DEF OidcSignedIn, SigningIn
  <2> QED  BY <2>1, SignInStep
<1>6. ASSUME NEW r \in Request, NEW b \in Browser, NEW c \in Slug, NEW n \in Login \cup {None},
             NEW p \in Person, SamlAcs(r, b, c, n, p)
      PROVE  IInv'
  <2> DEFINE x(f) == Delivery("acs", b, c, n, p, f)
  <2>1. PICK flow \in {jar[b].flow[c], None} :
            /\ Accepts(c, flow, n)
            /\ req' = [req EXCEPT ![r] = x(flow)]
    BY <1>6 DEF SamlAcs, ReadFlow, Begin
  <2>2. /\ n # None => answers[n].at = c
        /\ UNCHANGED <<sessions, jar, latest, answers, spent, details, received>>
    BY <1>6 DEF SamlAcs
  <2>3. x(flow) \in RequestState
    <3>1. jar[b].flow[c] \in Login \cup {None}
      BY DEF IInv, TypeOK, BrowsersTypeOK, Cookies
    <3>2. "acs" \in {"callback", "acs"} /\ flow \in Login \cup {None}
      BY <2>1, <3>1
    <3> QED  BY <3>2, DeliveryIsTyped
  <2>4. "acs" \in SigningIn
    BY DEF SigningIn
  <2>5. CASE n # None
    <3>1. n \in Login /\ answers[n].at = c
      BY <2>2, <2>5
    <3>2. c \notin AllowUnsolicited => n = flow
      BY <2>1, <2>5 DEF Accepts, ToolkitAccepts
    <3>3. c \notin AllowUnsolicited => n = jar[b].flow[c]
      BY <2>1, <2>5, <3>2
    <3>4. Sound(x(flow))
      BY <2>4, <3>1, <3>3, AcceptedIsSound
    <3> HIDE DEF x
    <3> QED  BY <1>0, <2>1, <2>2, <2>3, <3>4, RequestStep
  <2>6. CASE n = None
    <3>1. /\ x(flow).kind = "acs" /\ x(flow).browser = b /\ x(flow).slug = c
          /\ x(flow).login = None /\ x(flow).person = p /\ x(flow).late = (n \in received)
      BY <2>6 DEF Delivery
    <3>2. n \notin received
      BY <2>6, BrowserAssumption DEF IInv, TypeOK, BrowsersTypeOK
    <3> HIDE DEF x
    <3>3. Sound(x(flow))
      BY <3>1, <3>2 DEF Sound, SigningIn
    <3> QED  BY <1>0, <2>1, <2>2, <2>3, <3>3, RequestStep
  <2> QED  BY <2>5, <2>6
<1>7. ASSUME NEW r \in Request, NEW s \in SessionId, SamlSignedIn(r, s)
      PROVE  IInv'
  <2>1. req[r].kind \in SigningIn /\ SignIn(r, s, Identity[req[r].slug][req[r].person].nameId)
    BY <1>7 DEF SamlSignedIn, SigningIn
  <2>2. Identity[req[r].slug][req[r].person].nameId \in Name
    BY <2>1, BrowserAssumption DEF IInv, RequestsSound, Sound
  <2> QED  BY <2>1, <2>2, SignInStep
<1>8. ASSUME NEW r \in Request, NEW b \in Browser, Logout(r, b)
      PROVE  IInv'
  <2> DEFINE s == CurrentSession(b)
             x == [Idle EXCEPT !.kind = "logout", !.browser = b, !.session = s]
  <2>1. /\ s # None
        /\ req' = [req EXCEPT ![r] = x]
        /\ UNCHANGED <<sessions, jar, latest, answers, spent, details, received>>
    BY <1>8 DEF Logout, Begin
  <2>2. /\ s \in SessionId /\ sessions[s].status # "none"
        /\ details[s].browser = b /\ details[s].slug \in Slug
    BY <2>1, CurrentSessionIsOwn
  <2> HIDE DEF s
  <2>3. x \in RequestState
    BY <2>2 DEF Idle, RequestState
  <2>4. Sound(x)
    BY <2>1, <2>2 DEF Sound, SigningIn, Idle
  <2> HIDE DEF x
  <2> QED  BY <1>0, <2>1, <2>3, <2>4, RequestStep
<1>9. ASSUME NEW r \in Request, LogoutDone(r)
      PROVE  IInv'
  <2> DEFINE b == req[r].browser
             s == req[r].session
             c == details[s].slug
  <2>1. b \in Browser /\ s \in SessionId /\ {s} \in SUBSET SessionId /\ s \in SessionId \cup {None}
    BY <1>0, <1>9 DEF LogoutDone, IInv, RequestsSound, Sound, RequestState
  <2>2. c \in Slug
    BY <1>9, <2>1 DEF LogoutDone, IInv, RequestsSound, Sound
  <2>3. PICK newjar :
            /\ \/ newjar = [jar EXCEPT ![b].session = None]
               \/ newjar = [jar EXCEPT ![b].session = None, ![b].slo[c] = s]
            /\ SignOut(r, {s}, newjar)
    BY <1>9 DEF LogoutDone
  <2> HIDE DEF b, s, c
  <2> QED  BY <2>1, <2>2, <2>3, SignOutStep
<1>10. ASSUME NEW r \in Request, NEW b \in Browser, NEW c \in Slug,
              NEW s \in SessionId \cup {None}, NEW p \in Person \cup {None}, SamlSls(r, b, c, s, p)
       PROVE  IInv'
  <2>1. PICK session \in {CurrentSession(b), None} :
            req' = [req EXCEPT ![r] = [Idle EXCEPT !.kind = "sls", !.browser = b, !.slug = c,
                                                   !.person = p, !.session = session]]
    BY <1>10 DEF SamlSls, Begin
  <2> DEFINE x == [Idle EXCEPT !.kind = "sls", !.browser = b, !.slug = c,
                               !.person = p, !.session = session]
  <2>2. session # None =>
            /\ session \in SessionId /\ sessions[session].status # "none"
            /\ details[session].browser = b /\ details[session].slug \in Slug
    BY <2>1, CurrentSessionIsOwn
  <2>3. x \in RequestState
    BY <2>2 DEF Idle, RequestState
  <2>4. Sound(x)
    BY <2>2 DEF Sound, SigningIn, Idle
  <2>5. /\ req' = [req EXCEPT ![r] = x]
        /\ UNCHANGED <<sessions, jar, latest, answers, spent, details, received>>
    BY <1>10, <2>1 DEF SamlSls
  <2> HIDE DEF x
  <2> QED  BY <1>0, <2>3, <2>4, <2>5, RequestStep
<1>11. ASSUME NEW r \in Request, SamlSlsDone(r)
       PROVE  IInv'
  <2> DEFINE b == req[r].browser
             c == req[r].slug
             S == ({req[r].session} \ {None}) \cup Named(c, req[r].person)
             newjar == [jar EXCEPT ![b].session = None, ![b].slo[c] = None]
  <2>1. b \in Browser /\ c \in Slug /\ SignOut(r, S, newjar)
    BY <1>11 DEF SamlSlsDone, IInv, RequestsSound, Sound, SigningIn
  <2>2. S \in SUBSET SessionId
    BY <1>0 DEF Named, Revocable, RequestState
  <2>3. \E c2 \in Slug, slo \in SessionId \cup {None} :
           newjar = [jar EXCEPT ![b].session = None, ![b].slo[c2] = slo]
    BY <2>1
  <2> HIDE DEF b, c, S, newjar
  <2> QED  BY <2>1, <2>2, <2>3, SignOutStep
<1>12. ASSUME NEW r \in Request, Refused(r)
       PROVE  IInv'
  <2>1. /\ req' = [req EXCEPT ![r] = Idle]
        /\ UNCHANGED <<sessions, jar, latest, answers, spent, details, received>>
    BY <1>12 DEF Refused, End
  <2> QED  BY <1>0, <2>1, IdleIsSound, RequestStep
<1>13. ASSUME NEW b \in Browser, NEW c \in Slug, NEW n \in Login, SamlLogin(b, c, n)
       PROVE  IInv'
  BY <1>13, RedirectStep DEF SamlLogin
<1>14. ASSUME NEW n \in Login, NEW p \in Person, AnswerLogin(n, p)
       PROVE  IInv'
  BY <1>14, AnswerStep
<1>15. CASE UNCHANGED vars
  BY <1>15 DEF vars, IInv, TypeOK, BrowsersTypeOK, SessionsTypeOK, HeldIsLatest, LatestIsOwn,
               ReceivedIsGone, CookieIsOwn, RequestsSound, Sound
<1> QED
  BY <1>1, <1>2, <1>3, <1>4, <1>5, <1>6, <1>7, <1>8, <1>9, <1>10, <1>11, <1>12, <1>13, <1>14, <1>15
     DEF Next, OidcStep, SamlStep

LEMMA InvariantHolds == Spec => []IInv
<1> QED  BY InitSound, StepKeepsInvariant, PTL DEF Spec

-----------------------------------------------------------------------------

\* Every reachable state of the sign-in handlers is well typed.
THEOREM TypeCorrect == Spec => []TypeOK
<1>1. IInv => TypeOK
  BY DEF IInv
<1> QED  BY <1>1, InvariantHolds, PTL

\* An older tab's answer, or one to another browser's login, signs nobody in,
\* at any connection that does not accept unsolicited responses.
THEOREM OnlyLatestLogin == Spec => LatestLoginWins
<1>1. IInv /\ [Next]_vars =>
        [\A r \in Request, s \in SessionId :
            Opens(r, s) /\ req[r].login # None /\ req[r].slug \notin AllowUnsolicited =>
               req[r].newest]_vars
  BY DEF IInv, RequestsSound, Sound, SigningIn, Opens
<1> QED  BY <1>1, InvariantHolds, PTL DEF Spec, LatestLoginWins

\* An answer whose success has reached the browser opens nothing more.
THEOREM NoReplay == Spec => ReplayOpensNothing
<1>1. IInv /\ [Next]_vars =>
        [\A r \in Request, s \in SessionId :
            Opens(r, s) /\ req[r].late => req[r].slug \in AllowUnsolicited]_vars
  BY DEF IInv, RequestsSound, Sound, SigningIn, Opens
<1> QED  BY <1>1, InvariantHolds, PTL DEF Spec, ReplayOpensNothing

\* A session ends only at the wish of its own browser or by its name.
THEOREM EndsForCause == Spec => EndedForCause
<1> DEFINE Asked(r, s) ==
        /\ req[r].kind \in {"logout", "sls"} /\ req'[r].kind = "idle"
        /\ \/ req[r].browser = details[s].browser
           \/ /\ req[r].person # None
              /\ PyLower[Strip[Identity[req[r].slug][req[r].person].nameId]]
                    \in {DbLower[sessions[s].subject], DbLower[sessions[s].email]}
<1>1. ASSUME IInv, Next, NEW s \in SessionId, Live(s), Revoked(s)'
      PROVE  \E r \in Request : Asked(r, s)
  <2>0. sessions \in [SessionId -> SessionRow] /\ req \in [Request -> RequestState]
    BY <1>1 DEF IInv, TypeOK, BrowsersTypeOK, SessionsTypeOK
  <2>1. sessions'[s] # sessions[s] /\ sessions'[s].status = "revoked" /\ sessions[s].status = "live"
    BY <1>1 DEF Live, Revoked
  <2>2. ASSUME NEW r \in Request, NEW t \in SessionId, NEW nameId, SignIn(r, t, nameId)
        PROVE  FALSE
    BY <2>0, <2>1, <2>2 DEF SignIn, CreateSession
  <2>3. \E r \in Request : LogoutDone(r) \/ SamlSlsDone(r)
    BY <1>1, <2>1, <2>2 DEF Next, OidcStep, SamlStep, OidcLogin, OidcRedirect, Redirect, OidcCallback,
       ExchangeCode, OidcSignedIn, SamlAcs, SamlSignedIn, Logout, SamlSls, Refused, SamlLogin, AnswerLogin
  <2>4. PICK r \in Request : LogoutDone(r) \/ SamlSlsDone(r)
    BY <2>3
  <2>5. Sound(req[r])
    BY <1>1 DEF IInv, RequestsSound
  <2>6. req[r].kind \in {"logout", "sls"} /\ req'[r] = Idle
    BY <2>0, <2>4 DEF LogoutDone, SamlSlsDone, SignOut, End
  <2>7. req'[r].kind = "idle"
    BY <2>6 DEF Idle
  <2>8. CASE LogoutDone(r)
    <3>1. s = req[r].session /\ req[r].session # None
      BY <2>0, <2>1, <2>5, <2>8 DEF LogoutDone, SignOut, StampRevoked, Sound
    <3>2. req[r].browser = details[s].browser
      BY <2>5, <2>6, <3>1 DEF Sound
    <3> QED  BY <2>6, <2>7, <3>2
  <2>9. CASE SamlSlsDone(r)
    <3>1. s \in ({req[r].session} \ {None}) \cup Named(req[r].slug, req[r].person)
      BY <2>0, <2>1, <2>9 DEF SamlSlsDone, SignOut, StampRevoked
    <3>2. CASE s = req[r].session /\ s # None
      <4>1. req[r].browser = details[s].browser
        BY <2>5, <2>6, <3>2 DEF Sound
      <4> QED  BY <2>6, <2>7, <4>1
    <3>3. CASE s \in Named(req[r].slug, req[r].person)
      <4>1. /\ req[r].person # None
            /\ {DbLower[sessions[s].subject], DbLower[sessions[s].email]}
                  \cap Wanted({Identity[req[r].slug][req[r].person].nameId}) # {}
        BY <3>3 DEF Named, Revocable
      <4>2. PyLower[Strip[Identity[req[r].slug][req[r].person].nameId]]
               \in {DbLower[sessions[s].subject], DbLower[sessions[s].email]}
        BY <4>1 DEF Wanted
      <4> QED  BY <2>6, <2>7, <4>1, <4>2
    <3> QED  BY <3>1, <3>2, <3>3
  <2> QED  BY <2>4, <2>8, <2>9
<1>2. IInv /\ [Next]_vars =>
        [\A s \in SessionId : Live(s) /\ Revoked(s)' => \E r \in Request : Asked(r, s)]_vars
  BY <1>1
<1> QED  BY <1>2, InvariantHolds, PTL DEF Spec, EndedForCause

=============================================================================
