---------------------------- MODULE ConnectionRows ----------------------------
(***************************************************************************)
(* The idp_connections table (IdpConnection of app/models.py), the         *)
(* settings stored in it (app/auth/connections.py), and the requests that  *)
(* hold a connection they have loaded.  An OIDC connection is modelled by  *)
(* the settings that relate to something outside its form: the issuer,     *)
(* allow_insecure_http, the client secret, and use_dpop with the private   *)
(* key AuthLab generates for it unless one was submitted before            *)
(* (accept_encrypted_id_token and its key, and the SAML key, are stored by *)
(* the same rules).                                                        *)
(***************************************************************************)
EXTENDS Naturals, Sequences

CONSTANTS
    Slug,           \* the slugs connections are known by
    Issuer,         \* the issuer URLs, without a trailing slash
    Secret,         \* client secrets
    Key,            \* private keys
    RowId,          \* primary keys
    Form,           \* what a form or definition may ask for
    Payload,        \* the definitions of one import: sequences of [slug, form]
    Request,        \* requests being served at the same time
    None            \* no row, no secret, no key

\* A secret or key of None stands for a blank field or the placeholder; an
\* invalid form does not pass the settings' validators.
FormType == [issuer: Issuer, insecure: BOOLEAN, secret: Secret \cup {None},
             dpop: BOOLEAN, key: Key \cup {None}, valid: BOOLEAN]

ASSUME FormAssumption ==
    /\ Form \subseteq FormType
    /\ Payload \subseteq Seq([slug: Slug, form: Form])
    /\ None \notin Secret \cup Key \cup RowId

VARIABLES
    conns,      \* the row of each slug
    req         \* what each request holds in memory

-----------------------------------------------------------------------------

Row == [id: RowId \cup {None}, issuer: Issuer \cup {None}, insecure: BOOLEAN,
        secret: Secret \cup {None}, dpop: BOOLEAN, key: Key \cup {None}]

NoRow == [id |-> None, issuer |-> None, insecure |-> FALSE, secret |-> None,
          dpop |-> FALSE, key |-> None]

NoForm == [issuer |-> None, insecure |-> FALSE, secret |-> None, dpop |-> FALSE,
           key |-> None, valid |-> FALSE]

Definition == [slug: Slug, form: Form]

\* An import holds one definition and has the rest still to do.
RequestState ==
    [kind: {"idle", "update", "next", "import", "fetch", "sweep"},
     slug: Slug \cup {None},
     form: Form \cup {NoForm},
     loaded: Row,           \* the connection as loaded
     rest: Seq(Definition),
     old: BOOLEAN]          \* it has been written since

RowsTypeOK ==
    /\ conns \in [Slug -> Row]
    /\ \A c \in Slug : conns[c].dpop => conns[c].key # None
    /\ req \in [Request -> RequestState]

Idle == [kind |-> "idle", slug |-> None, form |-> NoForm, loaded |-> NoRow,
         rest |-> <<>>, old |-> FALSE]

RowsInit ==
    /\ conns = [c \in Slug |-> NoRow]
    /\ req = [r \in Request |-> Idle]

Exists(c) == conns[c].id # None

-----------------------------------------------------------------------------

\* Primary keys and private keys are drawn at random: never one in use.
FreshIds == RowId \ ({conns[c].id : c \in Slug} \cup {req[r].loaded.id : r \in Request})

FreshKeys ==
    Key \ ({conns[c].key : c \in Slug} \cup {req[r].loaded.key : r \in Request}
            \cup {form.key : form \in Form})

Merged(stored, submitted) == IF submitted = None THEN stored ELSE submitted

\* Variant of StoreSettings: a blank secret is stored as it was submitted.
StoreSubmitted(row, form, k) ==
    [row EXCEPT !.issuer = form.issuer, !.insecure = form.insecure, !.dpop = form.dpop,
                !.secret = form.secret,
                !.key = IF form.dpop /\ row.key = None THEN k ELSE Merged(row.key, form.key)]

\* Variant of StoreSettings: no key is generated.
StoreWithoutKey(row, form, k) ==
    [row EXCEPT !.issuer = form.issuer, !.insecure = form.insecure, !.dpop = form.dpop,
                !.secret = Merged(row.secret, form.secret),
                !.key = Merged(row.key, form.key)]

\* store_settings: a blank field keeps what the loaded row holds, and a key is
\* generated when the feature is on and the loaded row has none, even over one
\* submitted.
StoreSettings(row, form, k) ==
    [row EXCEPT !.issuer = form.issuer, !.insecure = form.insecure, !.dpop = form.dpop,
                !.secret = Merged(row.secret, form.secret),
                !.key = IF form.dpop /\ row.key = None THEN k ELSE Merged(row.key, form.key)]

\* The unit of work writes a configuration that changed.  Secrets are encrypted
\* anew each time, so one that holds a secret always did.
Writes(loaded, new) == new # loaded \/ new.secret # None \/ new.key # None

\* Variant of Finds: the statement goes by the slug and replaces what is there.
FindsSlug(q) == TRUE

\* The row is still there for the UPDATE, or the slug still free for the INSERT.
Finds(q) == conns[q.slug].id = q.loaded.id

\* The requests once r has written connection c and goes on as next: whoever
\* holds c holds an old row.
Overtaken(r, c, next) ==
    [q \in Request |->
        IF q = r THEN next
        ELSE IF req[q].slug = c THEN [req[q] EXCEPT !.old = TRUE] ELSE req[q]]

\* The commit of a request.  One that finds no row ends in an error (Refused).
Commit(r, new, next) ==
    \/ /\ Writes(req[r].loaded, new)
       /\ Finds(req[r])
       /\ conns' = [conns EXCEPT ![req[r].slug] = new]
       /\ req' = Overtaken(r, req[r].slug, next)
    \/ /\ ~Writes(req[r].loaded, new)
       /\ req' = [req EXCEPT ![r] = next]
       /\ UNCHANGED conns

=============================================================================
