-------------------------- MODULE TokenRefreshProofs --------------------------
(***************************************************************************)
(* Theorems about TokenRefresh, for every number of requests and tokens.   *)
(*                                                                         *)
(* The argument of both invariants is that the tokens of a rotating        *)
(* provider are a baton: as long as a reply with the one token it honours  *)
(* is under way, no row and no request holds that token, so the provider   *)
(* cannot grant again before the reply has been stored, and what is        *)
(* stored under one baton is committed before the next reply's is stored,  *)
(* because the event loop is not given up in between.                      *)
(***************************************************************************)
EXTENDS TokenRefresh, TLAPS

Replied(p) == req[p].pc = "replied"

Committing(p) == req[p].pc = "commit"

\* Nobody holds a token or claims that are still to be issued.
Issued ==
    /\ session.token <= provider.issued
    /\ session.claims <= provider.issued
    /\ \A t \in provider.honoured : t <= provider.issued
    /\ \A p \in Proc : /\ req[p].snap.token <= provider.issued
                       /\ req[p].token <= provider.issued
                       /\ req[p].claims <= provider.issued

\* A provider that replaces tokens honours one, and it travels alone.
Baton ==
    /\ \A t, u \in provider.honoured : t = u
    /\ \A p, q \in Proc : Replied(p) /\ Replied(q) => p = q
    /\ \A p \in Proc : Replied(p) =>
          /\ req[p].token # None
          /\ provider.honoured \subseteq {req[p].token}
          /\ session.token # req[p].token
          /\ \A q \in Proc : req[q].snap.token # req[p].token
    /\ (/\ StoreRotated /\ dropped = {} /\ provider.honoured # {}
        /\ \A p \in Proc : ~Replied(p)) => session.token \in provider.honoured

\* One that does not honours the token of the sign-in, which everyone has.
OneToken ==
    /\ provider.honoured \subseteq {session.token}
    /\ \A p \in Proc : /\ req[p].snap.token = session.token
                       /\ req[p].token \in {None, session.token}

TokenInv == TypeOK /\ Issued /\ IF Rotates THEN Baton ELSE OneToken

\* Claims are stored in the order in which they were issued.
ClaimsInv ==
    /\ \A p, q \in Proc : Committing(p) /\ Committing(q) => p = q
    /\ \A p \in Proc : (Replied(p) \/ Committing(p)) /\ req[p].claims # None =>
          session.claims < req[p].claims
    /\ \A p, q \in Proc : Committing(p) /\ Replied(q) /\ req[q].claims # None =>
          req[p].claims < req[q].claims

-----------------------------------------------------------------------------
(* Types                                                                   *)

\* A request that only moves on keeps its type and what it holds.
LEMMA GoToHolds ==
    ASSUME TypeOK, NEW p \in Proc,
           NEW pc \in {"idle", "loaded", "sent", "resent", "replied", "commit"},
           GoTo(p, pc)
    PROVE  /\ req' \in [Proc -> Request]
           /\ req'[p].pc = pc
           /\ \A q \in Proc : /\ q # p => req'[q] = req[q]
                              /\ req'[q].snap = req[q].snap
                              /\ req'[q].token = req[q].token
                              /\ req'[q].claims = req[q].claims
  BY DEF TypeOK, GoTo, Request

\* What the provider's answer leaves behind.
LEMMA GrantHolds ==
    ASSUME TypeOK, NEW p \in Proc, Grant(p)
    PROVE  /\ req' \in [Proc -> Request]
           /\ req'[p].pc = "replied"
           /\ req'[p].token \in IF Rotates THEN {provider.issued + 1}
                                ELSE {None, req[p].snap.token}
           /\ req'[p].claims \in {None, provider.issued + 1}
           /\ \A q \in Proc : /\ q # p => req'[q] = req[q]
                              /\ req'[q].snap = req[q].snap
           /\ provider'.issued = provider.issued + 1
           /\ provider'.issued \in Number
           /\ provider'.honoured = IF Rotates
                 THEN (provider.honoured \ {req[p].snap.token}) \cup {provider.issued + 1}
                 ELSE provider.honoured
  <1>1. provider.issued + 1 \in Number /\ None \in Number /\ req[p].snap.token \in Number
    BY RefreshAssumption DEF Grant, TypeOK, Number, None, Request, Session
  <1>2. PICK token \in IF Rotates THEN {provider.issued + 1} ELSE {None, req[p].snap.token},
             claims \in {None, provider.issued + 1} :
               req' = [req EXCEPT ![p].pc = "replied", ![p].token = token,
                                  ![p].claims = claims]
    BY DEF Grant
  <1>3. token \in Number /\ claims \in Number
    BY <1>1, <1>2
  <1>4. /\ req' \in [Proc -> Request]
        /\ req'[p].pc = "replied"
        /\ req'[p].token = token
        /\ req'[p].claims = claims
        /\ \A q \in Proc : /\ q # p => req'[q] = req[q]
                           /\ req'[q].snap = req[q].snap
    BY <1>2, <1>3 DEF TypeOK, Request
  <1>5. /\ provider'.issued = provider.issued + 1
        /\ provider'.honoured = IF Rotates
              THEN (provider.honoured \ {req[p].snap.token}) \cup {provider.issued + 1}
              ELSE provider.honoured
    BY DEF Grant
  <1>6. QED
    BY <1>1, <1>2, <1>4, <1>5

\* What a click on the button leaves behind.
LEMMA LoadHolds ==
    ASSUME TypeOK, NEW p \in Proc, LoadSession(p)
    PROVE  /\ req' \in [Proc -> Request]
           /\ req'[p] = [pc |-> "loaded", snap |-> session, token |-> None, claims |-> None]
           /\ \A q \in Proc : q # p => req'[q] = req[q]
  BY RefreshAssumption DEF TypeOK, LoadSession, Request, Number, None

\* What the two commits leave in the row.
LEMMA StoreHolds ==
    ASSUME TypeOK, NEW p \in Proc, StoreToken(p)
    PROVE  /\ session' \in Session
           /\ session'.token = IF req[p].token # None /\ StoreRotated
                               THEN req[p].token ELSE session.token
           /\ session'.claims = session.claims
  BY DEF TypeOK, StoreToken, Session, Request

LEMMA CommitHolds ==
    ASSUME TypeOK, NEW p \in Proc, CommitClaims(p)
    PROVE  /\ session' \in Session
           /\ session'.token = session.token
           /\ session'.claims = IF req[p].claims # None THEN req[p].claims ELSE session.claims
  <1>1. req[p].snap.count + 1 \in Nat
    BY DEF TypeOK, Request, Session
  <1>2. req[p].claims \in Number
    BY DEF TypeOK, Request
  <1>3. QED
    BY <1>1, <1>2 DEF TypeOK, CommitClaims, Session

LEMMA InitType == Init => TypeOK
  <1> SUFFICES ASSUME Init PROVE TypeOK
    OBVIOUS
  <1>1. PICK first \in {None, 1} :
           LET signedIn == [token |-> first, claims |-> 1, count |-> 0]
           IN  /\ session = signedIn
               /\ req = [p \in Proc |-> [pc |-> "idle", snap |-> signedIn,
                                         token |-> None, claims |-> None]]
               /\ provider = [honoured |-> {first} \ {None}, issued |-> 1]
               /\ refreshes = 0
               /\ dropped = {}
    BY DEF Init
  <1>2. first \in Number /\ 1 \in Number \ {None} /\ None \in Number
    BY RefreshAssumption DEF Number, None
  <1>3. [token |-> first, claims |-> 1, count |-> 0] \in Session
    BY <1>2 DEF Session
  <1>4. QED
    BY <1>1, <1>2, <1>3 DEF TypeOK, Request

LEMMA TypeStep == TypeOK /\ [Next]_vars => TypeOK'
  <1> SUFFICES ASSUME TypeOK, [Next]_vars PROVE TypeOK'
    OBVIOUS
  <1>1. ASSUME NEW p \in Proc, LoadSession(p) PROVE TypeOK'
    BY <1>1, LoadHolds DEF LoadSession, TypeOK
  <1>2. ASSUME NEW p \in Proc, Send(p) PROVE TypeOK'
    BY <1>2, GoToHolds DEF Send, TypeOK
  <1>3. ASSUME NEW p \in Proc, SendWithNonce(p) PROVE TypeOK'
    BY <1>3, GoToHolds DEF SendWithNonce, TypeOK
  <1>4. ASSUME NEW p \in Proc, NEW fault \in Faults, Drop(p, fault) PROVE TypeOK'
    BY <1>4, GoToHolds DEF Drop, TypeOK
  <1>5. ASSUME NEW p \in Proc, StoreToken(p) PROVE TypeOK'
    BY <1>5, GoToHolds, StoreHolds DEF StoreToken, TypeOK
  <1>6. ASSUME NEW p \in Proc, CommitClaims(p) PROVE TypeOK'
    <2>1. session' \in Session
      BY <1>6, CommitHolds
    <2>2. req' \in [Proc -> Request]
      BY <1>6, GoToHolds DEF CommitClaims
    <2>3. refreshes' \in Nat /\ UNCHANGED <<provider, dropped>>
      BY <1>6 DEF CommitClaims, TypeOK
    <2>4. QED
      BY <2>1, <2>2, <2>3 DEF TypeOK
  <1>7. ASSUME NEW p \in Proc, Grant(p) PROVE TypeOK'
    <2>1. req' \in [Proc -> Request] /\ provider.issued + 1 \in Number
      BY <1>7, GrantHolds
    <2>2. provider' \in [honoured: SUBSET Number, issued: Number]
      BY <1>7, <2>1 DEF Grant, TypeOK
    <2>3. QED
      BY <1>7, <2>1, <2>2 DEF Grant, TypeOK
  <1>8. ASSUME NEW p \in Proc, Refuse(p) PROVE TypeOK'
    BY <1>8, GoToHolds DEF Refuse, GiveUp, TypeOK
  <1>9. CASE Withdraw
    BY <1>9 DEF Withdraw, TypeOK
  <1>10. CASE UNCHANGED vars
    BY <1>10 DEF vars, TypeOK
  <1>11. QED
    BY <1>1, <1>2, <1>3, <1>4, <1>5, <1>6, <1>7, <1>8, <1>9, <1>10 DEF Next, Handle

\* Every reachable state is well typed: in particular a session always has
\* claims, and no reply hands out a token the provider has not issued.
THEOREM TypeCorrect == Spec => []TypeOK
  BY InitType, TypeStep, PTL DEF Spec

-----------------------------------------------------------------------------
(* The token                                                               *)

LEMMA InitToken == Init => TokenInv
  <1> SUFFICES ASSUME Init PROVE TokenInv
    OBVIOUS
  <1>1. TypeOK
    BY InitType
  <1>2. PICK first \in {None, 1} :
           LET signedIn == [token |-> first, claims |-> 1, count |-> 0]
           IN  /\ session = signedIn
               /\ req = [p \in Proc |-> [pc |-> "idle", snap |-> signedIn,
                                         token |-> None, claims |-> None]]
               /\ provider = [honoured |-> {first} \ {None}, issued |-> 1]
               /\ dropped = {}
    BY DEF Init
  <1>3. Issued
    BY <1>2 DEF Issued, None
  <1>4. Baton
    BY <1>2 DEF Baton, Replied
  <1>5. OneToken
    BY <1>2 DEF OneToken
  <1>6. QED
    BY <1>1, <1>3, <1>4, <1>5 DEF TokenInv

\* A step that moves one request to a state in which it holds no reply, and
\* leaves the row and the provider alone, keeps the invariant if a replacement
\* token that goes missing is noted.
LEMMA MoveKeepsToken ==
    ASSUME TokenInv, TypeOK', NEW p \in Proc,
           UNCHANGED <<session, provider>>,
           dropped \subseteq dropped',
           Replied(p) /\ req[p].token # None => dropped' # {},
           \A q \in Proc : q # p => req'[q] = req[q],
           req'[p].pc # "replied",
           req'[p].snap \in {req[p].snap, session},
           req'[p].token \in {req[p].token, None},
           req'[p].claims \in {req[p].claims, None}
    PROVE  TokenInv'
  <1>1. \A q \in Proc : /\ req'[q].snap \in {req[q].snap, session}
                        /\ req'[q].token \in {req[q].token, None}
                        /\ req'[q].claims \in {req[q].claims, None}
                        /\ Replied(q)' => req'[q] = req[q] /\ Replied(q)
    BY DEF Replied
  <1>2. Issued'
    <2>1. provider.issued \in Nat /\ None <= provider.issued
      BY RefreshAssumption DEF TokenInv, TypeOK, Number, None
    <2>2. QED
      BY <1>1, <2>1 DEF TokenInv, Issued
  <1>3. CASE Rotates
    <2>1. Baton
      BY <1>3 DEF TokenInv
    <2>2. ASSUME StoreRotated, dropped' = {}, provider'.honoured # {},
                 \A q \in Proc : ~Replied(q)'
          PROVE  session'.token \in provider'.honoured
      <3>1. ~Replied(p)
        BY <2>1, <2>2 DEF Baton
      <3>2. \A q \in Proc : ~Replied(q)
        BY <2>2, <3>1 DEF Replied
      <3>3. QED
        BY <2>1, <2>2, <3>2 DEF Baton
    <2>3. Baton'
      BY <1>1, <2>1, <2>2 DEF Baton
    <2>4. QED
      BY <1>2, <1>3, <2>3 DEF TokenInv
  <1>4. CASE ~Rotates
    <2>1. OneToken'
      BY <1>1, <1>4 DEF TokenInv, OneToken
    <2>2. QED
      BY <1>2, <1>4, <2>1 DEF TokenInv
  <1>5. QED
    BY <1>3, <1>4

\* The provider never grants while a reply is under way ...
LEMMA GrantAlone ==
    ASSUME TokenInv, Rotates, NEW p \in Proc, Grant(p)
    PROVE  \A q \in Proc : ~Replied(q)
  <1> SUFFICES ASSUME NEW q \in Proc, Replied(q) PROVE FALSE
    OBVIOUS
  <1>1. req[p].snap.token \in provider.honoured
    BY DEF Grant
  <1>2. provider.honoured \subseteq {req[q].token} /\ req[p].snap.token # req[q].token
    BY DEF TokenInv, Baton
  <1>3. QED
    BY <1>1, <1>2

\* ... and what it grants is new to everyone.
LEMMA GrantKeepsToken ==
    ASSUME TokenInv, TypeOK', NEW p \in Proc, Grant(p)
    PROVE  TokenInv'
  <1> DEFINE next == provider.issued + 1
             old == req[p].snap.token
  <1>1. TypeOK /\ Issued
    BY DEF TokenInv
  <1>2. provider.issued \in Nat /\ next \in Nat /\ None < next
    BY <1>1, RefreshAssumption DEF TypeOK, Number, None
  <1>3. /\ req'[p].pc = "replied"
        /\ req'[p].token \in IF Rotates THEN {next} ELSE {None, old}
        /\ req'[p].claims \in {None, next}
        /\ \A q \in Proc : /\ q # p => req'[q] = req[q]
                           /\ req'[q].snap = req[q].snap
        /\ provider'.issued = next
        /\ provider'.honoured = IF Rotates THEN (provider.honoured \ {old}) \cup {next}
                                ELSE provider.honoured
    BY <1>1, GrantHolds
  <1>4. UNCHANGED <<session, dropped>> /\ old \in provider.honoured
    BY DEF Grant
  <1>5. /\ session.token < next
        /\ session.claims < next
        /\ \A t \in provider.honoured : t < next
        /\ \A q \in Proc : /\ req[q].snap.token < next
                           /\ req[q].token < next
                           /\ req[q].claims < next
    <2>1. /\ session.token \in Nat /\ session.claims \in Nat
          /\ \A t \in provider.honoured : t \in Nat
          /\ \A q \in Proc : /\ req[q].snap.token \in Nat
                             /\ req[q].token \in Nat
                             /\ req[q].claims \in Nat
      BY <1>1, RefreshAssumption DEF TypeOK, Session, Request, Number, None
    <2>2. QED
      BY <1>1, <1>2, <2>1 DEF Issued
  <1>6. Issued'
    <2>1. \A q \in Proc : /\ req'[q].snap.token <= next
                          /\ req'[q].token <= next
                          /\ req'[q].claims <= next
      <3> SUFFICES ASSUME NEW q \in Proc
                   PROVE  /\ req'[q].snap.token <= next
                          /\ req'[q].token <= next
                          /\ req'[q].claims <= next
        OBVIOUS
      <3>1. CASE q # p
        BY <1>2, <1>3, <1>5, <3>1, <1>1, RefreshAssumption
           DEF TypeOK, Session, Request, Number, None
      <3>2. CASE q = p
        <4>1. req[p].snap.token \in Nat
          BY <1>1, RefreshAssumption DEF TypeOK, Session, Request, Number, None
        <4>2. req'[p].token \in {None, next, old}
          BY <1>3
        <4>3. QED
          BY <1>2, <1>3, <1>5, <3>2, <4>1, <4>2 DEF None
      <3>3. QED
        BY <3>1, <3>2
    <2>2. \A t \in provider'.honoured : t <= next
      BY <1>1, <1>2, <1>3, <1>5, RefreshAssumption DEF TypeOK, Number, None
    <2>3. session'.token <= next /\ session'.claims <= next
      BY <1>1, <1>2, <1>4, <1>5, RefreshAssumption DEF TypeOK, Session, Number, None
    <2>4. QED
      BY <1>3, <2>1, <2>2, <2>3 DEF Issued
  <1>7. CASE Rotates
    <2>1. \A q \in Proc : ~Replied(q)
      BY <1>7, GrantAlone
    <2>2. \A q \in Proc : Replied(q)' => q = p
      BY <1>3, <2>1 DEF Replied
    <2>3. provider.honoured \subseteq {old}
      BY <1>4, <1>7 DEF TokenInv, Baton
    <2>4. provider'.honoured = {next}
      BY <1>3, <1>7, <2>3
    <2>5. req'[p].token = next /\ Replied(p)'
      BY <1>3, <1>7 DEF Replied
    <2>6. session'.token # next /\ \A q \in Proc : req'[q].snap.token # next
      BY <1>2, <1>3, <1>4, <1>5
    <2>7. next # None
      BY <1>2 DEF None
    <2>8. Baton'
      BY <2>2, <2>4, <2>5, <2>6, <2>7 DEF Baton
    <2>9. QED
      BY <1>6, <1>7, <2>8 DEF TokenInv
  <1>8. CASE ~Rotates
    <2>1. OneToken'
      BY <1>3, <1>4, <1>8 DEF TokenInv, OneToken
    <2>2. QED
      BY <1>6, <1>8, <2>1 DEF TokenInv
  <1>9. QED
    BY <1>7, <1>8

\* Storing the token of the reply hands the baton over to the row.
LEMMA StoreKeepsToken ==
    ASSUME TokenInv, TypeOK', NEW p \in Proc, StoreToken(p)
    PROVE  TokenInv'
  <1> DEFINE stored == IF req[p].token # None /\ StoreRotated
                       THEN req[p].token ELSE session.token
  <1>1. TypeOK /\ Issued
    BY DEF TokenInv
  <1>2. session'.token = stored /\ session'.claims = session.claims
    BY <1>1, StoreHolds
  <1>3. /\ Replied(p)
        /\ ~Replied(p)'
        /\ \A q \in Proc : /\ q # p => req'[q] = req[q]
                           /\ req'[q].snap = req[q].snap
                           /\ req'[q].token = req[q].token
                           /\ req'[q].claims = req[q].claims
    BY <1>1, GoToHolds DEF StoreToken, Replied
  <1>4. UNCHANGED <<provider, dropped>>
    BY DEF StoreToken
  <1>5. Issued'
    BY <1>1, <1>2, <1>3, <1>4 DEF Issued
  <1>6. CASE Rotates
    <2>1. Baton
      BY <1>6 DEF TokenInv
    <2>2. \A q \in Proc : ~Replied(q)'
      BY <1>3, <2>1 DEF Baton, Replied
    <2>3. StoreRotated /\ provider'.honoured # {} => session'.token \in provider'.honoured
      BY <1>2, <1>3, <1>4, <2>1 DEF Baton
    <2>4. Baton'
      BY <1>4, <2>1, <2>2, <2>3 DEF Baton
    <2>5. QED
      BY <1>5, <1>6, <2>4 DEF TokenInv
  <1>7. CASE ~Rotates
    <2>1. OneToken'
      BY <1>2, <1>3, <1>4, <1>7 DEF TokenInv, OneToken
    <2>2. QED
      BY <1>5, <1>7, <2>1 DEF TokenInv
  <1>8. QED
    BY <1>6, <1>7

LEMMA CommitKeepsToken ==
    ASSUME TokenInv, TypeOK', NEW p \in Proc, CommitClaims(p)
    PROVE  TokenInv'
  <1>1. TypeOK /\ Issued
    BY DEF TokenInv
  <1>2. /\ session'.token = session.token
        /\ session'.claims \in {session.claims, req[p].claims}
    BY <1>1, CommitHolds
  <1>3. /\ ~Replied(p)
        /\ ~Replied(p)'
        /\ \A q \in Proc : /\ q # p => req'[q] = req[q]
                           /\ req'[q].snap = req[q].snap
                           /\ req'[q].token = req[q].token
                           /\ req'[q].claims = req[q].claims
    BY <1>1, GoToHolds DEF CommitClaims, Replied
  <1>4. UNCHANGED <<provider, dropped>>
    BY DEF CommitClaims
  <1>5. Issued'
    BY <1>1, <1>2, <1>3, <1>4 DEF Issued
  <1>6. \A q \in Proc : Replied(q)' <=> Replied(q)
    BY <1>3 DEF Replied
  <1>7. Baton => Baton'
    BY <1>2, <1>3, <1>4, <1>6 DEF Baton
  <1>8. OneToken => OneToken'
    BY <1>2, <1>3, <1>4 DEF OneToken
  <1>9. QED
    BY <1>5, <1>7, <1>8 DEF TokenInv

LEMMA WithdrawKeepsToken ==
    ASSUME TokenInv, TypeOK', Withdraw
    PROVE  TokenInv'
  <1>1. /\ provider'.honoured = {}
        /\ provider'.issued = provider.issued
        /\ UNCHANGED <<session, req, dropped>>
    BY DEF Withdraw, TokenInv, TypeOK
  <1>2. Issued'
    BY <1>1 DEF TokenInv, Issued
  <1>3. Baton => Baton'
    BY <1>1 DEF Baton, Replied
  <1>4. OneToken => OneToken'
    BY <1>1 DEF OneToken
  <1>5. QED
    BY <1>2, <1>3, <1>4 DEF TokenInv

LEMMA TokenStep == TokenInv /\ [Next]_vars => TokenInv'
  <1> SUFFICES ASSUME TokenInv, [Next]_vars PROVE TokenInv'
    OBVIOUS
  <1>1. TypeOK /\ TypeOK'
    BY TypeStep DEF TokenInv
  <1>2. ASSUME NEW p \in Proc, LoadSession(p) PROVE TokenInv'
    <2>1. /\ req'[p] = [pc |-> "loaded", snap |-> session, token |-> None, claims |-> None]
          /\ \A q \in Proc : q # p => req'[q] = req[q]
      BY <1>1, <1>2, LoadHolds
    <2>2. ~Replied(p) /\ UNCHANGED <<session, provider, dropped>>
      BY <1>2 DEF LoadSession, Replied
    <2>3. QED
      BY <1>1, <2>1, <2>2, MoveKeepsToken
  <1>3. ASSUME NEW p \in Proc, NEW pc \in {"idle", "sent", "resent"}, ~Replied(p),
               GoTo(p, pc), UNCHANGED <<session, provider, dropped>>
        PROVE  TokenInv'
    <2>1. /\ req'[p].pc = pc
          /\ req'[p].snap = req[p].snap
          /\ req'[p].token = req[p].token
          /\ req'[p].claims = req[p].claims
          /\ \A q \in Proc : q # p => req'[q] = req[q]
      BY <1>1, <1>3, GoToHolds
    <2>2. QED
      BY <1>1, <1>3, <2>1, MoveKeepsToken
  <1>4. ASSUME NEW p \in Proc, Send(p) PROVE TokenInv'
    BY <1>3, <1>4 DEF Send, Replied
  <1>5. ASSUME NEW p \in Proc, SendWithNonce(p) PROVE TokenInv'
    BY <1>3, <1>5 DEF SendWithNonce, Replied
  <1>6. ASSUME NEW p \in Proc, Refuse(p) PROVE TokenInv'
    BY <1>3, <1>6 DEF Refuse, Presented, GiveUp, Replied
  <1>7. ASSUME NEW p \in Proc, NEW fault \in Faults, Drop(p, fault) PROVE TokenInv'
    <2>1. GoTo(p, "idle") /\ UNCHANGED <<session, provider>>
      BY <1>7 DEF Drop
    <2>2. /\ req'[p].pc = "idle"
          /\ req'[p].snap = req[p].snap
          /\ req'[p].token = req[p].token
          /\ req'[p].claims = req[p].claims
          /\ \A q \in Proc : q # p => req'[q] = req[q]
      BY <1>1, <2>1, GoToHolds
    <2>3. /\ dropped \subseteq dropped'
          /\ req[p].token # None => dropped' # {}
      BY <1>7 DEF Drop
    <2>4. QED
      BY <1>1, <2>1, <2>2, <2>3, MoveKeepsToken
  <1>8. ASSUME NEW p \in Proc, StoreToken(p) PROVE TokenInv'
    BY <1>1, <1>8, StoreKeepsToken
  <1>9. ASSUME NEW p \in Proc, CommitClaims(p) PROVE TokenInv'
    BY <1>1, <1>9, CommitKeepsToken
  <1>10. ASSUME NEW p \in Proc, Grant(p) PROVE TokenInv'
    BY <1>1, <1>10, GrantKeepsToken
  <1>11. CASE Withdraw
    BY <1>1, <1>11, WithdrawKeepsToken
  <1>12. CASE UNCHANGED vars
    BY <1>1, <1>12 DEF vars, TokenInv, Issued, Baton, OneToken, Replied
  <1>13. QED
    BY <1>2, <1>4, <1>5, <1>6, <1>7, <1>8, <1>9, <1>10, <1>11, <1>12 DEF Next, Handle

LEMMA TokenInvariant == Spec => []TokenInv
  BY InitToken, TokenStep, PTL DEF Spec

\* However many refreshes overlap, and whether or not the provider rotates its
\* tokens: as long as no replacement went missing with a reply, a session whose
\* provider honours any token of it holds one that is honoured.
THEOREM TokenIsKept == Spec => []TokenKeptUnlessDropped
  <1>1. TokenInv => TokenKeptUnlessDropped
    <2> SUFFICES ASSUME TokenInv, dropped = {}, StoreRotated, provider.honoured # {},
                        \A p \in Proc : ~Replied(p)
                 PROVE  session.token \in provider.honoured
      BY DEF TokenKeptUnlessDropped, HoldsHonoured, Replied
    <2>1. CASE Rotates
      BY <2>1 DEF TokenInv, Baton
    <2>2. CASE ~Rotates
      BY <2>2 DEF TokenInv, OneToken
    <2>3. QED
      BY <2>1, <2>2
  <1>2. QED
    BY <1>1, TokenInvariant, PTL

-----------------------------------------------------------------------------
(* The claims                                                              *)

LEMMA InitClaims == Init => ClaimsInv
  <1> SUFFICES ASSUME Init PROVE ClaimsInv
    OBVIOUS
  <1>1. PICK first \in {None, 1} :
           req = [p \in Proc |->
                    [pc |-> "idle", snap |-> [token |-> first, claims |-> 1, count |-> 0],
                     token |-> None, claims |-> None]]
    BY DEF Init
  <1>2. QED
    BY <1>1 DEF ClaimsInv, Replied, Committing

\* A request that goes to a state in which it holds no reply leaves the order
\* of the others' claims as it is.
LEMMA MoveKeepsClaims ==
    ASSUME ClaimsInv, NEW p \in Proc, UNCHANGED session,
           \A q \in Proc : q # p => req'[q] = req[q],
           req'[p].pc \notin {"replied", "commit"}
    PROVE  ClaimsInv'
  <1>1. \A q \in Proc : Replied(q)' => req'[q] = req[q] /\ Replied(q)
    BY DEF Replied
  <1>2. \A q \in Proc : Committing(q)' => req'[q] = req[q] /\ Committing(q)
    BY DEF Committing
  <1>3. QED
    BY <1>1, <1>2 DEF ClaimsInv

LEMMA ClaimsStep ==
    ASSUME Rotates
    PROVE  TokenInv /\ ClaimsInv /\ [Next]_vars => ClaimsInv'
  <1> SUFFICES ASSUME TokenInv, ClaimsInv, [Next]_vars PROVE ClaimsInv'
    OBVIOUS
  <1>1. TypeOK /\ Issued /\ Baton
    BY DEF TokenInv
  <1>2. /\ session.claims \in Nat
        /\ provider.issued \in Nat
        /\ \A p \in Proc : req[p].claims \in Nat
    BY <1>1, RefreshAssumption DEF TypeOK, Session, Request, Number, None
  <1>3. ASSUME NEW p \in Proc, LoadSession(p) PROVE ClaimsInv'
    <2>1. req'[p].pc = "loaded" /\ \A q \in Proc : q # p => req'[q] = req[q]
      BY <1>1, <1>3, LoadHolds
    <2>2. UNCHANGED session
      BY <1>3 DEF LoadSession
    <2>3. QED
      BY <2>1, <2>2, MoveKeepsClaims
  <1>4. ASSUME NEW p \in Proc, NEW pc \in {"idle", "sent", "resent"},
               GoTo(p, pc), UNCHANGED session
        PROVE  ClaimsInv'
    <2>1. req'[p].pc = pc /\ \A q \in Proc : q # p => req'[q] = req[q]
      BY <1>1, <1>4, GoToHolds
    <2>2. QED
      BY <1>4, <2>1, MoveKeepsClaims
  <1>5. ASSUME NEW p \in Proc, \/ Send(p) \/ SendWithNonce(p) \/ Refuse(p)
                               \/ \E fault \in Faults : Drop(p, fault)
        PROVE  ClaimsInv'
    BY <1>4, <1>5 DEF Send, SendWithNonce, Refuse, GiveUp, Drop
  <1>6. ASSUME NEW p \in Proc, Grant(p) PROVE ClaimsInv'
    <2>1. \A q \in Proc : ~Replied(q)
      BY <1>6, GrantAlone
    <2>2. /\ req'[p].pc = "replied"
          /\ req'[p].claims \in {None, provider.issued + 1}
          /\ \A q \in Proc : q # p => req'[q] = req[q]
      BY <1>1, <1>6, GrantHolds
    <2>3. UNCHANGED session
      BY <1>6 DEF Grant
    <2>4. \A q \in Proc : Replied(q)' => q = p
      BY <2>1, <2>2 DEF Replied
    <2>5. \A q \in Proc : Committing(q)' => req'[q] = req[q] /\ Committing(q)
      BY <2>2 DEF Committing
    <2>6. /\ session.claims < provider.issued + 1
          /\ \A q \in Proc : req[q].claims < provider.issued + 1
      BY <1>1, <1>2 DEF Issued
    <2>7. \A q, t \in Proc : Committing(q)' /\ Committing(t)' => q = t
      BY <2>5 DEF ClaimsInv
    <2>8. \A q \in Proc : (Replied(q)' \/ Committing(q)') /\ req'[q].claims # None =>
             session'.claims < req'[q].claims
      BY <2>2, <2>3, <2>4, <2>5, <2>6 DEF ClaimsInv
    <2>9. \A q, t \in Proc : Committing(q)' /\ Replied(t)' /\ req'[t].claims # None =>
             req'[q].claims < req'[t].claims
      BY <2>2, <2>4, <2>5, <2>6
    <2>10. QED
      BY <2>7, <2>8, <2>9 DEF ClaimsInv
  <1>7. ASSUME NEW p \in Proc, StoreToken(p) PROVE ClaimsInv'
    <2>1. Replied(p) /\ \A q \in Proc : ~Committing(q)
      BY <1>7 DEF StoreToken, LoopFree, Replied, Committing
    <2>2. /\ req'[p].pc = "commit"
          /\ \A q \in Proc : q # p => req'[q] = req[q]
          /\ \A q \in Proc : req'[q].claims = req[q].claims
      BY <1>1, <1>7, GoToHolds DEF StoreToken
    <2>3. session'.claims = session.claims
      BY <1>1, <1>7, StoreHolds
    <2>4. \A q \in Proc : ~Replied(q)'
      BY <1>1, <2>1, <2>2 DEF Baton, Replied
    <2>5. \A q \in Proc : Committing(q)' => q = p
      BY <2>1, <2>2 DEF Committing
    <2>6. QED
      BY <2>1, <2>2, <2>3, <2>4, <2>5 DEF ClaimsInv
  <1>8. ASSUME NEW p \in Proc, CommitClaims(p) PROVE ClaimsInv'
    <2>1. Committing(p) /\ GoTo(p, "idle")
      BY <1>8 DEF CommitClaims, Committing
    <2>2. /\ req'[p].pc = "idle"
          /\ \A q \in Proc : q # p => req'[q] = req[q]
      BY <1>1, <2>1, GoToHolds
    <2>3. session'.claims = IF req[p].claims # None THEN req[p].claims ELSE session.claims
      BY <1>1, <1>8, CommitHolds
    <2>4. \A q \in Proc : ~Committing(q)'
      BY <2>1, <2>2 DEF ClaimsInv, Committing
    <2>5. \A q \in Proc : Replied(q)' => req'[q] = req[q] /\ Replied(q)
      BY <2>2 DEF Replied
    <2>6. QED
      BY <2>1, <2>3, <2>4, <2>5 DEF ClaimsInv
  <1>9. CASE Withdraw
    BY <1>9 DEF Withdraw, ClaimsInv, Replied, Committing
  <1>10. CASE UNCHANGED vars
    BY <1>10 DEF vars, ClaimsInv, Replied, Committing
  <1>11. QED
    BY <1>3, <1>5, <1>6, <1>7, <1>8, <1>9, <1>10 DEF Next, Handle

\* With a provider that rotates its tokens the claims a session shows are never
\* replaced by older ones, though the row is read before three awaits and
\* written after them.  (With one that does not, two replies can be under way
\* at once and be stored in either order.)
THEOREM ClaimsMoveForward ==
    ASSUME Rotates
    PROVE  Spec => ClaimsNeverOlder
  <1>1. Init => TokenInv /\ ClaimsInv
    BY InitToken, InitClaims
  <1>2. TokenInv /\ ClaimsInv /\ [Next]_vars => (TokenInv /\ ClaimsInv)'
    BY TokenStep, ClaimsStep
  <1>3. TokenInv /\ ClaimsInv /\ [Next]_vars => [session'.claims >= session.claims]_vars
    <2> SUFFICES ASSUME TokenInv, ClaimsInv, Next
                 PROVE  session'.claims >= session.claims
      OBVIOUS
    <2>1. TypeOK /\ session.claims \in Nat /\ \A p \in Proc : req[p].claims \in Nat
      BY RefreshAssumption DEF TokenInv, TypeOK, Session, Request, Number, None
    <2>2. CASE UNCHANGED session
      BY <2>1, <2>2
    <2>3. ASSUME NEW p \in Proc, StoreToken(p)
          PROVE  session'.claims = session.claims
      BY <2>1, <2>3, StoreHolds
    <2>4. ASSUME NEW p \in Proc, CommitClaims(p)
          PROVE  session'.claims >= session.claims
      <3>1. session'.claims = IF req[p].claims # None THEN req[p].claims ELSE session.claims
        BY <2>1, <2>4, CommitHolds
      <3>2. Committing(p)
        BY <2>4 DEF CommitClaims, Committing
      <3>3. req[p].claims # None => session.claims < req[p].claims
        BY <3>2 DEF ClaimsInv
      <3>4. QED
        BY <2>1, <3>1, <3>3
    <2>5. \/ UNCHANGED session
          \/ \E p \in Proc : StoreToken(p) \/ CommitClaims(p)
      BY DEF Next, Handle, LoadSession, Send, SendWithNonce, Grant, Refuse, GiveUp, Drop,
             Withdraw
    <2>6. QED
      BY <2>1, <2>2, <2>3, <2>4, <2>5
  <1>4. QED
    BY <1>1, <1>2, <1>3, PTL DEF Spec, ClaimsNeverOlder

=============================================================================
