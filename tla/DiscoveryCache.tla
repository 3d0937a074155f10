---------------------------- MODULE DiscoveryCache ----------------------------
(***************************************************************************)
(* The process-wide cache of discovery documents (app/auth/oidc.py) and    *)
(* the handlers that fetch one: the sign-in redirect, the callback, the    *)
(* refresh, the token inspector, and the connection tests, which force a   *)
(* fetch.  A handler uses the settings of the connection as it loaded it,  *)
(* and other handlers run while it awaits the provider.  fetch_jwks and    *)
(* its cache follow the same pattern without the https rule.               *)
(***************************************************************************)
EXTENDS ConnectionRows

VARIABLES
    cache,      \* what the document cached for an issuer advertises as issuer
    excused     \* issuers whose entry an unfinished or overtaken request explains

vars == <<conns, req, cache, excused>>

CacheTypeOK ==
    /\ cache \in [Issuer -> {"none", "https", "http"}]
    /\ excused \subseteq Issuer

CacheInit ==
    /\ cache = [i \in Issuer |-> "none"]
    /\ excused = {}

-----------------------------------------------------------------------------

\* A handler loads its connection; it will fetch if the cache has no entry then.
LoadForFetch(r, c) ==
    /\ req[r].kind = "idle"
    /\ Exists(c)
    /\ req' = [req EXCEPT ![r] = [Idle EXCEPT !.kind = "fetch", !.slug = c, !.loaded = conns[c]]]
    /\ UNCHANGED <<conns, cache, excused>>

\* A document without an https issuer is refused unless the connection allows it.
Usable(row, document) == document = "https" \/ row.insecure

\* fetch_discovery stores the provider's answer, which it asked for at any time
\* since the connection was loaded.
FetchDiscovery(r, document) ==
    LET q == req[r]  i == q.loaded.issuer
    IN  /\ q.kind = "fetch"
        /\ Usable(q.loaded, document)
        /\ cache' = [cache EXCEPT ![i] = document]
        /\ excused' = IF q.old THEN excused \cup {i} ELSE excused \ {i}
        /\ req' = [req EXCEPT ![r] = Idle]
        /\ UNCHANGED conns

\* An entry is past its hour, or the process restarts.
Expire(i) ==
    /\ cache[i] # "none"
    /\ cache' = [cache EXCEPT ![i] = "none"]
    /\ excused' = excused \ {i}
    /\ UNCHANGED <<conns, req>>

\* Variant of InvalidateCache: only the issuer now configured is dropped.
InvalidateIssuer(issuers) == [i \in Issuer |-> IF i \in issuers THEN "none" ELSE cache[i]]

\* invalidate_cache() as the handlers call it, whatever issuers they configured.
InvalidateCache(issuers) == [i \in Issuer |-> "none"]

Sweep(issuers) ==
    /\ cache' = InvalidateCache(issuers)
    /\ excused' = {}

=============================================================================
