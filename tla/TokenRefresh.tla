----------------------------- MODULE TokenRefresh -----------------------------
(***************************************************************************)
(* Refreshing the tokens of one OIDC session: oidc_refresh                 *)
(* (app/auth/router.py) and refresh_tokens (app/auth/oidc.py), against the *)
(* token endpoint as the code uses it.                                     *)
(*                                                                         *)
(* A request loads the session row in a worker thread and then runs on the *)
(* event loop, giving way at each await, so two clicks on the button       *)
(* overlap.  Tokens and claims are numbered in the order the provider      *)
(* issues them.                                                            *)
(***************************************************************************)
EXTENDS Naturals

CONSTANTS
    Proc,           \* refresh requests being served
    Rotates,        \* whether the provider replaces a refresh token on use
    StoreRotated,   \* the connection's store_rotated_refresh_token
    UseDpop,        \* the connection's use_dpop
    Faults,         \* what may go wrong: "validation", "lost"
    MaxIssued       \* bound: tokens the provider issues

ASSUME RefreshAssumption ==
    /\ Rotates \in BOOLEAN /\ StoreRotated \in BOOLEAN /\ UseDpop \in BOOLEAN
    /\ Faults \subseteq {"validation", "lost"}
    /\ MaxIssued \in Nat \ {0}

VARIABLES
    session,    \* the user_sessions row
    req,        \* what each request holds in memory
    provider,   \* the refresh tokens the provider honours, and how often it issued
    refreshes,  \* history: refreshes that succeeded
    dropped     \* history: the faults in which a replacement token went missing

vars == <<session, req, provider, refreshes, dropped>>

None == 0
Number == 0..MaxIssued

Session == [token: Number, claims: Number \ {None}, count: Nat]
Request ==
    [pc: {"idle", "loaded", "sent", "resent", "replied", "commit"},
     snap: Session,
     token: Number,     \* the refresh token in the reply, if any
     claims: Number]    \* the claims of the ID token in the reply, if any

TypeOK ==
    /\ session \in Session
    /\ req \in [Proc -> Request]
    /\ provider \in [honoured: SUBSET Number, issued: Number]
    /\ refreshes \in Nat
    /\ dropped \subseteq Faults

\* The sign-in stored the first token, if offline access was requested.
Init ==
    \E first \in {None, 1} :
        LET signedIn == [token |-> first, claims |-> 1, count |-> 0]
        IN  /\ session = signedIn
            /\ req = [p \in Proc |-> [pc |-> "idle", snap |-> signedIn,
                                      token |-> None, claims |-> None]]
            /\ provider = [honoured |-> {first} \ {None}, issued |-> 1]
            /\ refreshes = 0
            /\ dropped = {}

GoTo(p, pc) == req' = [req EXCEPT ![p].pc = pc]

\* A request that fails says so and changes nothing.
GiveUp(p) == GoTo(p, "idle") /\ UNCHANGED <<session, provider, refreshes, dropped>>

\* The event loop is taken from the storing of a token to the commit of the
\* claims: there is no await in between.
LoopFree == \A p \in Proc : req[p].pc # "commit"

-----------------------------------------------------------------------------
(* The handler.                                                            *)

\* require_login.
LoadSession(p) ==
    /\ req[p].pc = "idle"
    /\ req' = [req EXCEPT ![p] = [pc |-> "loaded", snap |-> session,
                                  token |-> None, claims |-> None]]
    /\ UNCHANGED <<session, provider, refreshes, dropped>>

\* refresh_tokens sends the token of the row as loaded, if there is one.
Send(p) ==
    /\ req[p].pc = "loaded"
    /\ LoopFree
    /\ GoTo(p, IF req[p].snap.token = None THEN "idle" ELSE "sent")
    /\ UNCHANGED <<session, provider, refreshes, dropped>>

\* As if a proof were sent again whenever a nonce is asked for.
SendWithEveryNonce(p) ==
    /\ UseDpop
    /\ req[p].pc \in {"sent", "resent"}
    /\ GoTo(p, IF req[p].pc = "sent" THEN "resent" ELSE "sent")
    /\ UNCHANGED <<session, provider, refreshes, dropped>>

\* The provider wants a nonce in the DPoP proof: _post_token_request sends
\* again once, and fails when it is asked a second time.
SendWithNonce(p) ==
    /\ UseDpop
    /\ req[p].pc \in {"sent", "resent"}
    /\ GoTo(p, IF req[p].pc = "sent" THEN "resent" ELSE "idle")
    /\ UNCHANGED <<session, provider, refreshes, dropped>>

\* The reply never arrives, or its ID token does not validate: the handler
\* ends before it looks for a replacement token.
Drop(p, fault) ==
    /\ req[p].pc = "replied"
    /\ fault = "validation" => req[p].claims # None
    /\ GoTo(p, "idle")
    /\ dropped' = IF req[p].token # None THEN dropped \cup {fault} ELSE dropped
    /\ UNCHANGED <<session, provider, refreshes>>

\* As if a rotated token were dropped.
ForgetToken(p) ==
    /\ req[p].pc = "replied"
    /\ LoopFree
    /\ GoTo(p, "commit")
    /\ UNCHANGED <<session, provider, refreshes, dropped>>

\* The reply is good: a token that came with it is committed at once.
StoreToken(p) ==
    /\ req[p].pc = "replied"
    /\ LoopFree
    /\ session' = [session EXCEPT !.token =
                      IF req[p].token # None /\ StoreRotated THEN req[p].token ELSE @]
    /\ GoTo(p, "commit")
    /\ UNCHANGED <<provider, refreshes, dropped>>

\* As if a reply without an ID token left the session without claims.
CommitNoClaims(p) ==
    /\ req[p].pc = "commit"
    /\ session' = [session EXCEPT !.claims = req[p].claims, !.count = req[p].snap.count + 1]
    /\ refreshes' = refreshes + 1
    /\ GoTo(p, "idle")
    /\ UNCHANGED <<provider, dropped>>

\* As if a reply without an ID token wrote back the claims as loaded.
CommitLoadedClaims(p) ==
    /\ req[p].pc = "commit"
    /\ session' = [session EXCEPT !.claims = IF req[p].claims # None THEN req[p].claims
                                             ELSE req[p].snap.claims,
                                  !.count = req[p].snap.count + 1]
    /\ refreshes' = refreshes + 1
    /\ GoTo(p, "idle")
    /\ UNCHANGED <<provider, dropped>>

\* The claims of a new ID token replace the session's; the count is that of
\* the row as loaded, plus one.
CommitClaims(p) ==
    /\ req[p].pc = "commit"
    /\ session' = [session EXCEPT !.claims = IF req[p].claims # None THEN req[p].claims ELSE @,
                                  !.count = req[p].snap.count + 1]
    /\ refreshes' = refreshes + 1
    /\ GoTo(p, "idle")
    /\ UNCHANGED <<provider, dropped>>

-----------------------------------------------------------------------------
(* The provider.                                                           *)

Presented(p) == req[p].pc \in {"sent", "resent"}

\* It answers with a token when it rotates them or sees fit to repeat the
\* one presented, and with an ID token or without.
Grant(p) ==
    LET next == provider.issued + 1
        old == req[p].snap.token
    IN  /\ Presented(p)
        /\ old \in provider.honoured
        /\ provider.issued < MaxIssued
        /\ provider' = [honoured |-> IF Rotates THEN (provider.honoured \ {old}) \cup {next}
                                     ELSE provider.honoured,
                        issued |-> next]
        /\ \E token \in IF Rotates THEN {next} ELSE {None, old}, claims \in {None, next} :
              req' = [req EXCEPT ![p].pc = "replied", ![p].token = token, ![p].claims = claims]
        /\ UNCHANGED <<session, refreshes, dropped>>

\* It refuses a token it no longer honours, or as its policy has it.
Refuse(p) == Presented(p) /\ GiveUp(p)

\* It withdraws every token: the account was disabled or the grant revoked.
Withdraw ==
    /\ provider.honoured # {}
    /\ provider' = [provider EXCEPT !.honoured = {}]
    /\ UNCHANGED <<session, req, refreshes, dropped>>

Handle(p) ==
    \/ Send(p) \/ SendWithNonce(p) \/ StoreToken(p) \/ CommitClaims(p)
    \/ Grant(p) \/ Refuse(p)
    \/ \E fault \in Faults : Drop(p, fault)

Next == Withdraw \/ \E p \in Proc : LoadSession(p) \/ Handle(p)

Spec == Init /\ [][Next]_vars

\* The event loop runs what is ready, and the provider answers or the
\* client's timeout (REQUEST_TIMEOUT) does; which answer is not fair.
FairSpec == Spec /\ \A p \in Proc : WF_vars(Handle(p))

-----------------------------------------------------------------------------
(* Properties.                                                             *)

HoldsHonoured ==
    (StoreRotated /\ provider.honoured # {} /\ \A p \in Proc : req[p].pc # "replied")
    => session.token \in provider.honoured

\* However requests overlap, while the provider honours any token of the
\* session and no reply is under way, the session holds one that is honoured,
\* unless a replacement was dropped with a reply that was lost or refused.
TokenKeptUnlessDropped == dropped = {} => HoldsHonoured

\* Dropping a replacement token breaks the next refresh: only a reply that
\* never arrived may cost the session its refresh token.
TokenKept == "lost" \notin dropped => HoldsHonoured

\* After a refresh the session shows what the provider asserts now: claims
\* are never replaced by claims the provider issued earlier.
ClaimsNeverOlder == [][session'.claims >= session.claims]_vars

\* refresh_count says how often the session's tokens have been refreshed.
CountExact == session.count = refreshes

\* A refresh ends, however often the provider asks for another nonce.
RefreshEnds == \A p \in Proc : (req[p].pc = "loaded") ~> (req[p].pc = "idle")
=============================================================================
