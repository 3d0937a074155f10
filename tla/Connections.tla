----------------------------- MODULE Connections -----------------------------
(***************************************************************************)
(* Connections while administrators and pipelines change them: creating,   *)
(* editing and deleting in the console (app/routes/admin.py), importing    *)
(* from the console or over the API (app/routes/api.py), and the sign-ins  *)
(* and tests that use discovery documents meanwhile.  The console's edit   *)
(* is a coroutine: it loads the row, awaits the form, and then commits and *)
(* empties the caches without a break.  Deletion and the API's import run  *)
(* in worker threads, and others run between their commit and the sweep.   *)
(***************************************************************************)
EXTENDS DiscoveryCache

Init == RowsInit /\ CacheInit

-----------------------------------------------------------------------------

Create(c, form, id, k) ==
    /\ ~Exists(c)
    /\ form.valid
    /\ id \in FreshIds /\ k \in FreshKeys
    /\ conns' = [conns EXCEPT ![c] = StoreSettings([NoRow EXCEPT !.id = id], form, k)]
    /\ req' = [r \in Request |-> IF req[r].slug = c THEN [req[r] EXCEPT !.old = TRUE] ELSE req[r]]
    /\ UNCHANGED <<cache, excused>>

LoadForUpdate(r, c, form) ==
    /\ req[r].kind = "idle"
    /\ Exists(c)
    /\ form.valid
    /\ req' = [req EXCEPT ![r] = [Idle EXCEPT !.kind = "update", !.slug = c, !.form = form,
                                              !.loaded = conns[c]]]
    /\ UNCHANGED <<conns, cache, excused>>

Update(r, k) ==
    /\ req[r].kind = "update"
    /\ k \in FreshKeys
    /\ Commit(r, StoreSettings(req[r].loaded, req[r].form, k), Idle)
    /\ Sweep({req[r].form.issuer})

\* The row goes; the caches are emptied after that.
Delete(r, c) ==
    /\ req[r].kind = "idle"
    /\ Exists(c)
    /\ conns' = [conns EXCEPT ![c] = NoRow]
    /\ req' = Overtaken(r, c, [Idle EXCEPT !.kind = "sweep"])
    /\ excused' = excused \cup {conns[c].issuer}
    /\ UNCHANGED cache

-----------------------------------------------------------------------------

StartImport(r, payload) ==
    /\ req[r].kind = "idle"
    /\ req' = [req EXCEPT ![r] = [Idle EXCEPT !.kind = "next", !.rest = payload]]
    /\ UNCHANGED <<conns, cache, excused>>

\* An invalid definition ends the import: the ones before it stay applied, and
\* the caches are not emptied (Refused).
LoadForImport(r) ==
    LET d == Head(req[r].rest)
    IN  /\ req[r].kind = "next" /\ req[r].rest # <<>>
        /\ d.form.valid
        /\ req' = [req EXCEPT ![r] = [kind |-> "import", slug |-> d.slug, form |-> d.form,
                                      loaded |-> conns[d.slug], rest |-> Tail(@.rest),
                                      old |-> FALSE]]
        /\ UNCHANGED <<conns, cache, excused>>

\* import_connection: the row loaded, or a new one, with the settings of the
\* definition.
ImportConnection(r, id, k) ==
    LET q == req[r]
        row == IF q.loaded.id = None THEN [NoRow EXCEPT !.id = id] ELSE q.loaded
    IN  /\ q.kind = "import"
        /\ id \in FreshIds /\ k \in FreshKeys
        /\ Commit(r, StoreSettings(row, q.form, k), [Idle EXCEPT !.kind = "next", !.rest = q.rest])
        /\ excused' = IF conns' = conns \/ q.loaded.id = None THEN excused
                     ELSE excused \cup {conns[q.slug].issuer}
        /\ UNCHANGED cache

\* The end of an import or of a deletion.
SweepAtEnd(r) ==
    /\ req[r].kind = "sweep" \/ (req[r].kind = "next" /\ req[r].rest = <<>>)
    /\ req' = [req EXCEPT ![r] = Idle]
    /\ Sweep({})
    /\ UNCHANGED conns

\* A handler ends in an error before its next commit, or the client goes away
\* while it awaits: what it committed stays, what it loaded is dropped.
Refused(r) ==
    /\ req[r].kind # "idle"
    /\ req' = [req EXCEPT ![r] = Idle]
    /\ UNCHANGED <<conns, cache, excused>>

Next ==
    \/ \E c \in Slug, form \in Form, id \in RowId, k \in Key : Create(c, form, id, k)
    \/ \E r \in Request, c \in Slug, form \in Form : LoadForUpdate(r, c, form)
    \/ \E r \in Request, k \in Key : Update(r, k)
    \/ \E r \in Request, c \in Slug : Delete(r, c)
    \/ \E r \in Request, payload \in Payload : StartImport(r, payload)
    \/ \E r \in Request : LoadForImport(r)
    \/ \E r \in Request, id \in RowId, k \in Key : ImportConnection(r, id, k)
    \/ \E r \in Request : SweepAtEnd(r)
    \/ \E r \in Request, c \in Slug : LoadForFetch(r, c)
    \/ \E r \in Request, document \in {"https", "http"} : FetchDiscovery(r, document)
    \/ \E i \in Issuer : Expire(i)
    \/ \E r \in Request : Refused(r)

Spec == Init /\ [][Next]_vars

-----------------------------------------------------------------------------

\* Every variable keeps the shape the table, the cache and the handlers have,
\* and a connection that uses DPoP has its key.
TypeOK == RowsTypeOK /\ CacheTypeOK

\* A document without an https issuer stays cached only while a connection to
\* that issuer allows it.  What can keep one longer, for that issuer: a fetch
\* whose connection was changed after it was loaded, and a deletion or import
\* that has committed a change of its connection and has not emptied the caches,
\* or never does because a later definition is refused.
HttpIssuerAllowed ==
    \A i \in Issuer : cache[i] = "http" =>
        i \in excused \/ \E c \in Slug : conns[c].issuer = i /\ conns[c].insecure

\* Nothing was lost, or what came in its place.
Kept(before, after, submitted) == after = before \/ (after = submitted /\ submitted # None)

\* The client secret and the private key of a row change only to what the form
\* or definition of a request carries, or by a request that had loaded the
\* connection before it was last written: blank fields and switching DPoP off
\* and on keep both, so the key's thumbprint is stable across edits.
StoredSecretsKept ==
    [][\A c \in Slug : Exists(c) /\ conns'[c].id = conns[c].id =>
          \/ conns'[c].secret = conns[c].secret /\ conns[c].key \in {None, conns'[c].key}
          \/ \E r \in Request :
                LET q == req[r]
                IN  /\ q.slug = c /\ q.kind \in {"update", "import"} /\ req'[r] # q
                    /\ \/ q.old
                       \/ /\ Kept(conns[c].secret, conns'[c].secret, q.form.secret)
                          /\ conns[c].key = None \/ Kept(conns[c].key, conns'[c].key, q.form.key)]_vars

\* A slug changes hands only through its deletion, and a deleted connection
\* does not come back: an edit that loaded it changes nothing, and an import
\* that found the slug free does not take over a connection created meanwhile.
DeletedStaysGone ==
    [][\A c \in Slug : conns'[c].id # conns[c].id =>
          IF Exists(c) THEN conns'[c] = NoRow ELSE conns'[c].id \in FreshIds]_vars

=============================================================================
