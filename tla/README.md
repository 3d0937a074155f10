# AuthLab: specification and verification

AuthLab is a FastAPI application for testing identity providers: it signs
people in through OIDC, SAML or local passwords, accepts SCIM provisioning, and
shows what each protocol delivered. These modules model its stateful core in
TLA+. TLC checks them on small instances; TLAPS proves the results named below
for every value of the constants. `PROJECT.json` lists every run, the source
lines behind each definition (`map`), the hazards and the findings.

## How the program runs

- `def` handlers run in worker threads; `async def` handlers share one event
  loop and give way only at an `await`.
- Each request has one SQLAlchemy session (`app/db.py`). A row is loaded once,
  changed in memory and written at `db.commit()`; `expire_on_commit=False`, so
  what was loaded stays as it was. An UPDATE writes only the columns that
  differ from the row as loaded. A request that dies rolls back what it had not
  committed, and nothing more.
- No handler takes a lock across statements; only `app/ratelimit.py` locks.

So an action of the modules is what a handler does between two points at which
another one can run: a read, a commit, an `await`. A request in progress is a
record with a program counter `pc` and the row it holds (`snap` as loaded,
`row` as modified).

## Inventory

| Component | State | Operations | Interacts with | What makes it correct |
|---|---|---|---|---|
| SCIM users (`scim/router.py`) | `scim_users` | create, replace, patch, delete | Sessions (revocation), Groups | a deactivation or delete ends every session it owes; no stale write revives a user; names stay unique |
| SCIM groups | `scim_groups`, membership | create, replace, patch, delete | Users, Role mapping | members exist; concurrent patches lose nothing |
| SCIM filters | none | parse, compile, paginate | Users, Groups | filters mean what RFC 7644 says, missing attributes included |
| Sessions (`security.py`, `deps.py`) | `user_sessions` | create, read, revoke, revoke by user | every sign-in, SCIM, logout | a revoked session never authenticates again |
| Local accounts (`auth/router.py`, `routes/admin.py`, `routes/account.py`) | `local_users` | reconcile at start, create, toggle, change and reset password, sign in | environment, Schema | one can always get in; the announced password works; chosen passwords survive |
| Program start (`main.py`, `schema_sync.py`) | database schema | create tables, add and fill columns | Local accounts | an upgraded row means what the code expects |
| Sign-in throttle (`ratelimit.py`) | failures per key | check, record_failure, reset | Local sign-in | guesses per window bounded; the announced wait suffices |
| OIDC refresh (`auth/router.py`, `auth/oidc.py`) | tokens and claims of a session | refresh | provider, Sessions | the session keeps an honoured token; claims never go back |
| OIDC sign-in (`auth/oidc.py`, `auth/flowstate.py`) | flow cookie | login, callback | provider, caches | one state, nonce and verifier per flow |
| Discovery and key caches (`auth/oidc.py`) | two caches | fetch, invalidate | Connections | nothing stale after an edit |
| SAML (`auth/saml.py`) | flow cookie | login, ACS, logout in both directions | provider, Sessions | responses match requests; logout ends the right sessions |
| Connections (`auth/connections.py`) | `idp_connections` | create, edit, delete, import, test | caches, all sign-ins | edits lose no secret; app-owned keys stay |
| Role mapping (`auth/rolemap.py`, `expectations.py`) | none | resolve, evaluate | Groups, Sessions | one role per claims and rules, everywhere |
| Access control (`deps.py`, `routes/api.py`) | API and SCIM tokens | require_* | everything | only the credentialled, only while the credential stands |
| Event log, crypto, DPoP, lifetimes, help, pages | log rows | append, encode, render | all | no decision depends on them |

Hard behaviours: handlers that read, wait and commit (users, accounts,
refresh, connections); two transactions where a promise spans both (user change
and revocation; token and claims); a provider that acts on a request whose
reply is lost; restarts with another environment or an older database; limits
that several threads test before any of them counts.

## Modules

| Module | Models |
|---|---|
| `SessionStore` | The session table and the operations of `security.py`. No next-state relation of its own: a module that extends it says who runs the operations. |
| `Deprovisioning` | The abstract promise of SCIM deprovisioning: taking a user's standing away makes the sessions held under the user's identifiers due, and what is due is ended. |
| `ScimUsers` | The `/Users` endpoints over `SessionStore`, refining `Deprovisioning`. |
| `ScimUsersProofs` | Theorems about `ScimUsers`, and that it keeps the safety part of `Deprovisioning`. |
| `LocalAccounts` | The local accounts over starts, requests and replicas. |
| `LocalAccountsProofs` | Theorems about `LocalAccounts`. |
| `TokenRefresh` | The refresh of one session's tokens against the token endpoint. |
| `TokenRefreshProofs` | Theorems about `TokenRefresh`. |
| `RateLimit` | The throttle for one key, with time. |
| `RateLimitProofs` | Theorems about `RateLimit`. |
| `ScimGroups` | The `/Groups` endpoints, the membership table, and the deletion of users as far as it touches that table. |
| `ScimGroupsProofs` | Theorems about `ScimGroups`. |
| `Browsers` | Browsers, their cookies, the logins they begin and the requests they send, over `SessionStore`. |
| `OidcSignIn`, `SamlSignIn` | The handlers of either protocol over `Browsers`; sign-out and single logout are in `SamlSignIn`. |
| `SignIn` | Their composition: both serve the same browsers over one table of sessions. |
| `SignInProofs` | Theorems about `SignIn`. |
| `ConnectionRows` | The table of connections, what is kept when settings are stored, and what a commit finds. |
| `DiscoveryCache` | The cache of discovery documents, fetches and their invalidation, over `ConnectionRows`. |
| `Connections` | Their composition: the console, the import and the sign-ins on one table and one cache. |
| `ConnectionsProofs` | Theorems about `Connections`. |
| `ScimTexts`, `ScimFilter`, `ScimPages`, `ClaimRules`, `AccessChecks` | Pure functions: text comparisons and LIKE; the filter parser; pages; claims, roles, expectations and step-up; who may call what. |
| `Decisions` | One question at a time to these functions, and independent definitions of the answers. |
| `FilterDecisions` | The questions about filters: the parser beside an independent definition of what a filter means. |
| `DecisionsProofs` | Theorems about `Decisions` and `FilterDecisions`. |
| `MC*` | Values of constants for TLC, symmetry sets. |

Which composes which: `ScimUsers` and `Browsers` extend `SessionStore`; `SignIn`
extends `OidcSignIn` and `SamlSignIn`; `Connections` extends `DiscoveryCache`, which
extends `ConnectionRows`; `ScimUsers` instantiates `Deprovisioning`; `FilterDecisions` extends
`Decisions` and `ScimFilter`, both of which extend `ScimTexts`.

Definitions introduced by "As if" or "Variant of" stand beside the definition
they deviate from, the way a bug would; no specification uses them.

### ScimUsers and SessionStore

A user's row keeps its three identifiers and `active`; the remaining columns
are one value no property tells apart. In a body `active` is what it says: a word
that means true or false, one that means neither, or nothing. `Refuse` is the 400 for a
body that does not parse, before any handler runs; `asked` keeps what an accepted one
says of `active`. `LoadFor...` is a handler's read, `ApplyOperation` one PATCH operation in memory, `CommitWrite` and
`CommitDelete` the commit, `SelectSessions` and `StampSessions` the two halves
of `revoke_sessions_for_user`. `Fail` is a request that dies. `Strip`, `PyLower` and
`DbLower` are the string functions the code and the database apply;
`owed` is history: the sessions live under a user's identifiers when the user was
deactivated or deleted, `asWritten` under those of the row the commit leaves (or removes),
`asLoaded` under those the request had loaded. The code revokes by neither but by the row in
memory (`Revoking`). `CommitDelete` may always answer 500: whether a membership loaded with the user has
gone meanwhile is modelled in `ScimGroups`.

### LocalAccounts

`Start` is a new process: without replicas it ends all others. `SyncSchema`,
`FindAdmin`, `CreateAdmin`, `Reconcile` and `PrintBanner` are the steps of
`lifespan`; the other actions are requests. A hash is the password it verifies
and whether it is outdated; a newly computed hash always differs from
the stored one and is always written. Four variables are history: `announced`
is the password a start last gave the operator for an account, configured or printed, and is
`Unprinted` when the process ended between storing one and printing it; `setter`
is who set the current password; `raced` records that one administrator was
disabled while another toggle had passed its check; `shut` is the accounts an administrator disabled
and no toggle or start has enabled since. Accounts are never deleted
and roles never change, as in the code.

### TokenRefresh

Tokens and claims are numbered in the order the provider issues them. From the
storing of a token to the commit of the claims there is no `await`, so no
other handler runs on the loop (`LoopFree`); `require_login` runs in a thread
and can. `dropped` is history: the faults, a lost reply or an ID token that does
not validate, in which a replacement token went missing. The provider (`Grant`, `Refuse`, `Withdraw`) is external, as the code
uses it.

### RateLimit

Failures are kept as ages, which stop at the window, so time needs no bound.
`Tick` divides a second because `check` truncates to whole seconds. `_prune` and the count of
the last window are one recursive function, `Recent`.

### ScimGroups

A request loads a group with its members (`LoadForReplace`, `LoadForPatch`,
`LoadForDelete`), applies its operations to the collection in memory
(`ApplyOperation`) and commits once (`CommitGroup`, `CommitDrop`). SQLAlchemy writes
the difference between the collection as loaded and as left, a row at a time:
`Gained` and `Lost`. A row to insert that exists, or one to delete that is
gone, fails the commit (`Refused`, status 500), as does a foreign key.
`LoadUser` and `CommitLeave` are the deletion of a user; it too may answer 500 when
a membership went in the meantime. `alone` is history: nothing was committed
since the request loaded its group.

### SignIn

A `Login` stands for the secrets drawn when a login begins: state, nonce and
verifier, or the request ID. A handler is split where it awaits the provider or
the toolkit. `Delivery` is an answer that arrives, `SignIn` the commit of the session
with the cookies that reach the browser or are lost; `ReadFlow` returns the
cookie or nothing, because a cookie expires and a `SameSite=Lax` cookie does not
travel with a POST from another site. `newest`, `late`, `latest` and `received` are
history. Connections are constants here (`Connections` changes them); a
connection that is disabled begins no login but still accepts answers, as in the
code. Requests that are refused when they arrive change nothing and are no
step. Sessions do not expire here (they do in `ScimUsers`). The toolkit is modelled from the
settings `saml.py` gives it; what it does with a response that has no
`InResponseTo` is left open. `clear_flow` goes by name, so a success may delete the
cookie of a newer login; that login is then refused, which is safe.

### Connections

Every request carries `old`: the row it holds was written since. `excused` is
history: the issuers whose cached document an unfinished or overtaken request
explains, each for its own connection's issuer only. A form or definition may bring a
private key of its own, which replaces the stored one, or leave the field blank. A console edit loads the row, awaits its form, commits and empties the
cache without a break; a deletion and the API import run in worker threads and
others run between the commit and the sweep. Encrypting a secret gives another
ciphertext each time, so an edit of a connection with a secret always
writes its configuration (`Writes`). The slugs in one import differ. A changed
`APP_SECRET_KEY`, under which `decrypt` answers nothing and the next edit drops
the secret, is not modelled.

### Decisions

Filters are sequences of words, a comparison being one word; the parser's
functions keep its names and order. A condition has a truth value per row, in the three-valued
logic of SQL. Texts are sequences of letters, because LIKE looks into them;
folding and order are those of ASCII. Regular expressions are literals or malformed.
`Decisions` asks one question per behaviour; the state it leaves is the question, and
an invariant compares the functions' answer with a definition that does not use
them: `FilterIsExact` with the grammar and the meaning of RFC 7644 rather than a
descent (the empty filter, which `build_filter` takes for none, leaves every row), `RoleIsFirstMatch` with the earliest pair of source and rule.
The parser is a recursive function of the position: what each of `parse_or`, `parse_and` and
`parse_unary` understands from there on. LIKE is one of the position in the pattern, the definition
of a filter's meaning one of the span of words; walking a claim, the loops over the
rules and reading page after page are recursive functions too. No module has a
RECURSIVE operator, so that TLAPS can reason about all of them.

## Runs

Bounds are the constants of each `.cfg`.

| Run | Result | Shows |
|---|---|---|
| `scim_users_promise` | holds | two overlapping requests on one user, two sessions: what is owed is revoked or about to be, only matching sessions are selected; under fairness owed sessions end, and `ScimUsers` implements `Deprovisioning` |
| `scim_users_rows` | holds | two users, two requests, one failure: no stale write undoes a deactivation or a delete, and only a body that asks for it enables a user |
| `accounts_serving` | holds | one request at a time, three starts with any environment, which may cut a request short: the announced password is the one stored and its account active unless it was disabled since; some active administrator can sign in after every start; a chosen password survives |
| `accounts_columns` | holds | two replicas and an upgraded table: a late commit never enables a disabled account; an active administrator remains unless two were being disabled at once |
| `accounts_toggles` | violated | two concurrent toggles disable both administrators |
| `token_refresh` | holds | a rotating provider that asks for nonces, replies lost or not validating: token kept unless a reply was dropped, claims never older, every refresh ends |
| `rate_limit` | holds | failures per window are at most 3(MaxAttempts + overlap) - 1, where overlap is the attempts besides one; whoever comes back after the announced wait is let in or has one failure less to wait for |
| `scim_groups` | holds | two users, two groups, two overlapping requests: no membership without its user and group; memberships change only as a request asked; an undisturbed request does exactly what its operations say |
| `sign_in` | holds | two browsers, an OIDC and a SAML connection, two logins, two sessions, two requests at a time, answers late, twice or at the other browser: the latest login signs in, a delivered answer opens nothing, sessions end for cause |
| `slo_by_name` | violated | a LogoutRequest whose NameID is neither subject nor email ends no session |
| `connections` | holds | two connections and issuers, two overlapping requests: secrets and keys change only to what is submitted, deleted connections stay gone, plain-http documents stay only where allowed or by a stale fetch, or an unswept deletion or import, of that issuer's connection |
| `decisions` | holds | the empty filter, every filter of up to four words and those of five and six of the words that make longer ones; texts of up to two letters, wildcards included, and some of three; pages of up to five rows; up to two rules and two expectations; credentials and access tokens: each decision equals its independent definition |

A violated run checks one sentence of the repository's documentation, comments
or tests; `findings` in `PROJECT.json` quotes it.

Why the bounds are enough: the properties relate one user (account, session) to
at most two requests, and every conflict of the code is between two requests or
a request and a start. A second user (account) is there where names collide or
another administrator matters. `MaxStarts` is 3 where starts follow one another: a
first one, one with another environment, one after that; it is 2 with replicas.
`MaxIssued` is 4: a first token and three refreshes, enough for two
overlapping and one after them. In `RateLimit` the window is three seconds of two
ticks and MaxAttempts is 3, so that three lockouts fit a window; the bound
found is exact, and was the same formula for one, two and three attempts at a time.
In `SignIn` two logins are an older and a newer tab, or one at each browser; two sessions
are one to replay into. In `Connections` three keys and row identifiers are
enough for two rows and one that was deleted. The two SCIM user runs divide the
inputs: `scim_users_promise` keeps identifiers, because the abstract promise
takes a user's names as given while a request runs, and with overlapping renames what it
checks is false (Other disagreements); `scim_users_rows` has renames, failures and unreadable bodies, and no
sessions. Renames by one request at a time are in the theorem `OwedIsAccountedFor`, overlapping
ones in `KeepsThePromiseSafely` and `DeletedIsFinal`, which hold with them.

### Other disagreements

These are also false of the code. Each is seen by changing constants of a
configuration, so that no run of their own is kept for them:

| False | Shown by | Code |
|---|---|---|
| `OwedAccountedFor` if a request may die | `scim_users_promise` with `MaxFailures = 1` | the deactivation is committed (`scim/router.py:456`, `:482`) before the sessions are revoked; README.md:381 says "revokes their live sessions immediately". Repeating the request does not help: `was_active` is then False |
| `OwedAccountedFor` if requests rename a user behind each other's back | `scim_users_promise` with `CreateBody <- BobAlone`, `PatchBody <- RenamesOrTurnsOff` | a request that deactivates commits `active` beside a name another one has stored meanwhile, and revokes by the name it had loaded (`scim/router.py:482`, `:613`) |
| `LoadedAccountedFor` | `scim_users_promise` with `PatchBody <- RenamesAndTurnsOff` and this invariant | one request that renames and deactivates revokes by the new identifiers (`scim/router.py:613`); the comment at `:610` says "Every identifier the session could have been recorded under" |
| `RecoveryEnables` in `LocalAccounts` | `accounts_serving` with this property | a configured password that already matches returns before the account is enabled (`auth/router.py:999`); README.md:100 says "That also re-enables the account if it had been disabled" |
| `TokenKept` in `TokenRefresh` | `token_refresh` with this invariant | an ID token that does not validate drops the rotated refresh token beside it (`auth/router.py:1077`); `:1100` says "dropping the replacement silently breaks the next refresh" |
| `UserNamesDifferBeyondCase` in `ScimUsers` | `scim_users_rows` with `PatchBody <- Renames` and this invariant | create refuses a name taken in another case (`scim/router.py:405`), a rename is not checked (`:448`) |
| `OwedAccountedFor` for names SQLite does not fold | `scim_users_promise` with `CreateBody <- OneEve`, `Identity <- EveOnly` | `security.py:227` compares `lower()` of the database with `str.lower()` |
| `AdminCanSignIn` after an upgrade | `accounts_serving` with `Upgraded = TRUE` | `schema_sync.py:107` fills `password_source` with the model default "user"; `models.py:96` and `tests/test_admin_password.py:264` expect it empty on older rows, so the inference of `_effective_source` never runs |
| `ChosenSurvives` with a rolling start | `accounts_serving` with `Replicated = TRUE` and two processes | `auth/router.py:1022` decides from the row loaded before; the docstring at line 950 says a chosen password is left alone |
| `ClaimsNeverOlder` for a provider that keeps tokens | `token_refresh` with `Rotates = FALSE` | two replies are committed in the order they arrive (`auth/router.py:1107`), though the claims are to be "what the provider asserts now" (line 1055) |
| `CountExact` | `token_refresh` with this invariant | the count is that of the row loaded before the awaits plus one (`auth/router.py:1111`) |
| `RetryTimeKept` without its second disjunct | `rate_limit` | overlapping attempts record more failures than a lockout counts, and the younger ones keep it locked beyond the time announced (`ratelimit.py:37`, `auth/router.py:188`) |

Others were seen while the modules were written, and follow from their actions:

- Two connections with one issuer share its cached document, though `oidc.py:88` speaks of
  "this connection only": one that does not allow plain http uses what the other fetched.
  `HttpIssuerAllowed` therefore asks for some connection that allows it.
- Two overlapping edits, each switching DPoP on, generate two keys, of which the
  later commit stays; and an edit with a blank secret undoes a secret typed in
  an overlapping one. `connections.py:58` wants keys to "stay stable across edits" and `:38` a
  blank secret to mean "unchanged". `StoredSecretsKept` excepts requests that hold an old row.
- A `LogoutResponse` also ends the session the browser has by then, which may be newer
  than the one the LogoutRequest was for.
- `api.py:64` says "an administrator can already do all of this through the console"; an
  administrator who must change the password first is kept out of the console and not out of the API.
- `eq` ignores case, `gt` and `ge` do not; `ne` and `not` leave out rows without the attribute.
- Where two provisioned users match a sign-in, either one's groups may decide the role, and a
  deactivated one's groups count (`scimlink.py`).

`sync_local_admin` also looks the configured address up whatever its role, so
that a start may reconcile and announce an ordinary account; `AdminCanSignIn` holds all the same, because
the administrators there are keep a password that a person chose or an earlier start announced.
A start that ends after storing a generated password and before printing it loses it until the
next start that issues one; `AdminCanSignIn` excepts that (`Unprinted`).

### Fairness

`ScimUsers!FairSpec`: a worker thread that has begun a request goes on (weak
fairness of `Step`); nobody has to send a request, and `Fail` is not fair.
`TokenRefresh!FairSpec`: the event loop runs what is ready, and the token
endpoint answers or the client's timeout does; which answer comes is
not fair, so a provider may ask for nonces for ever.

All runs check for deadlock: requests and sign-ins may always be refused, so
none of the systems stops.

## Proofs

Every property the passing runs check is proved for all values of the
constants, except the liveness properties. Each theorem rests on an
inductive invariant: the property itself is one seldom, and what has to be added is
named below. The step lemma has one case per action. Assumptions are those of
the modules (`ScimUsersAssumption` and the like), which say of what sort the
constants are, and the few named here. None of the latter can be dropped: TLC finds a
counterexample to each theorem without its assumption, by the changes of constants in
Other disagreements or the ones given here.

`ScimUsersProofs`:

- `TypeCorrect`: `Spec => []TypeOK`. `TypeOK` is inductive.
- `OwedIsAccountedFor`: `Spec => []OwedAccountedFor`, assuming that names fold
  alike (`FoldsAgree`), that no request dies (`MaxFailures = 0`) and that names are settled
  (`NamesSettled`: requests keep identifiers, `KeepsIdentifiers`, or come one at a time,
  `OneAtATime`). A session is owed by the row the commit leaves, while the handler looks for the
  identifiers it holds: with settled names the two are the same (`PromiseInv`). It enters `owed` in the
  step that puts its request into "select" with identifiers under which the
  session is `Revocable`; a session stays revocable until it is revoked; the
  selection carries it to the stamp. `PromiseInv` needs no assumption: it says that a request about to
  commit is for a user who was there (`UserLoaded`), that the row it loaded has the
  identifiers stored if names are settled (`LoadedIsStored`, `HeldIsLoaded`), and that what is owed
  exists (`OwedExist`).
- `FormerNamesAreAccountedFor`: `Spec => []LoadedAccountedFor`, with `KeepsIdentifiers` added to these
  assumptions. Without it the property fails (Other disagreements); the theorem shows that
  the rename is all there is to that: what is owed to the identifiers found is owed to those
  written (`LoadedIsOwed`).
- `OnlyMatchingSelected`: `Spec => []SelectionMatches`, for any folding. `SelInv` adds that no
  request looks for the empty name and that what is selected was a session.
- `ReactivationAsked` and `DeletedIsFinal`, the two action properties, by the lemma on the ways in
  which a commit changes a row. The former also takes `AskedInv`: a row held in memory is
  active where the loaded one was not only if the body asked for it.
- `KeepsThePromiseSafely`: `Spec => Promise!Init /\ [][Promise!Next]_(Promise!vars)`, the safety part
  of the refinement of `Deprovisioning`, for any bodies and any overlapping requests, renames and failures
  included: what the promise makes due is what the commit owes, by the identifiers in the table.
  Whether what is due is ended is its liveness part.

`LocalAccountsProofs`:

- `TypeCorrect`: `Spec => []TypeOK`.
- `AnAdminRemains`: `Spec => []AdminRemainsUnlessRaced`, replicas, upgrades and
  any number of requests included. `AdminInv`
  adds that a process about to disable an administrator still has another
  active one to count on (`AnotherRemains`), and that the role it holds in
  memory is the stored one (`RolesHeld`). Every step but such a commit loses no
  administrator (`NoAdminLost`); the commit either leaves the one counted on
  or finds a second process past the check, which is what `raced` records.
- `ChosenIsKept`: `Spec => ChosenSurvives`, assuming `~Replicated`. `ChoiceInv` says that the column records a person's choice
  (`ChoiceRecorded`), that nothing goes on beside a start (`StartsAlone`), that
  the row a start decides upon is therefore the stored one (`RowCurrent`), and
  that a stale row in memory cannot make a commit leave the column as it was
  when it should say "user" (`SourceNotMissed`): an UPDATE skips
  a column that did not change in memory.
- `DisabledIsKept`: `Spec => DisabledStaysDisabled`, replicas and stale rows included: an UPDATE writes
  `active` only where the request changed it.
- `AnnouncementHolds`: `Spec => []AnnouncedWorks`, assuming `~Replicated` (false in `accounts_serving` with two
  processes that replicate, and so is `AdminCanSignIn`). `AnnounceInv`: what a banner will name is stored
  (`BannerTrue`), a hash computed anew is of the stored password (`RehashSame`), a start
  creates or reconciles according to what is stored (`AccountFound`), a disabled account is in
  `shut` (`ShutTrue`), and so what was announced is stored until a person changes it
  (`AnnouncedStored`).
- `SomebodyCanSignIn`: `Spec => []AdminCanSignIn`, assuming `~Replicated` and `~Upgraded`. `KnownInv` adds that the
  password of every account but the one a start is about to print was chosen by a person or announced
  (`KnownAll`) and that there is an administrator once a start is over (`Peopled`); that an active one remains is
  `AnAdminRemains`.

`TokenRefreshProofs`:

- `TypeCorrect`: `Spec => []TypeOK`.
- `TokenIsKept`: `Spec => []TokenKeptUnlessDropped`, whether or not the provider rotates. If it does, an honoured
  token is in the session or in the reply of one request, and moves from one to
  the other like a baton (`Baton`); if not, there is one token (`OneToken`). `Issued` bounds all
  numbers by what the provider issued.
- `ClaimsMoveForward`: `Spec => ClaimsNeverOlder`, assuming `Rotates`: only the holder of the baton can bring
  claims, and none are newer (`ClaimsInv`).

`RateLimitProofs`: `Recent` is recursive, so its facts are proved by the least counterexample over the
length.

- `RetryTimeHolds`: `Spec => []RetryTimeKept`. After the time announced the oldest failure counted has left the
  window. If that was one of MaxAttempts, the rest do not lock; if overlapping attempts had recorded
  more, there is one less.
- `GuessesAreBounded`: `Spec => []GuessesBounded`, assuming `Seconds > 1` (the code has 300; a window of
  one second is all rounding: `rate_limit` with `Seconds = 1` and `Tick = 3` exceeds the bound). `BoundInv` cuts `guesses` into the shares of three
  lockouts, the last being what `attempts` counts. A share has at most
  MaxAttempts and the overlapping attempts; a later lockout begins `Long`, the
  window less the second lost to rounding, after an earlier one; so a
  fourth share has no room in the window, nor has the whole of the first.

`ScimGroupsProofs`:

- `TypeCorrect`: `Spec => []TypeOK`.
- `MembersExist`: `Spec => []NoDanglingMember`, inductive with `TypeOK` and `Prepared`: a
  request that creates or changes a group has a display name for it, and one
  that creates it starts without members.
- `OnlyAskedMemberships` (`MembershipIsAsked`), `DeletedGroupsStay` (`GroupStaysDeleted`) and
  `UndisturbedRequestsAreExact` (`UndisturbedIsExact`). `MemberInv` adds `RequestsSound`: every
  difference between the members a request loaded and those it holds was asked
  for in its body or is a deleted user, and a request that is still alone
  holds what is stored, changed as the last of its operations about each user says.

`SignInProofs`: `TypeCorrect`, `OnlyLatestLogin`, `NoReplay` and `EndsForCause`, from
the inductive invariant `IInv`: besides `TypeOK`, a flow cookie holds the login its
browser began last (`HeldIsLatest`), a login belongs to one browser and
connection (`LatestIsOwn`), no cookie holds a login whose success was received
(`ReceivedIsGone`), a session cookie names a session of its own browser
(`CookieIsOwn`), and what a request holds agrees with these (`RequestsSound`).
The three properties are about one step; each follows from `IInv` in the state before.

`ConnectionsProofs`: `TypeCorrect`, `OnlyAllowedHttp`, `SecretsKept` and `DeletedIsGone`. The inductive
invariant adds to `TypeOK` and `HttpIssuerAllowed` that a slug without a row holds
nothing (`Sound`), and that a request whose row was not written since holds the
row of the table (`Holding`). `RowChanges` then says in which three ways a
row changes, and both action properties follow from it.

`DecisionsProofs`: `FiltersAreExact`, `ValuesAreLiteral`, `PagesAreAPartition`, `RoleIsTheFirstMatch`, `OperatorsAgree`,
`CredentialsAloneDecide` and
`VerdictsAreExplained`. What is proved is about the functions: for any number of rows, rules,
expectations and tokens, and any claims. Reading page after page (`WalkPages`) and the loops over
sources and rules (`FirstMatch`) are recursive functions; each gets a closed form, the rest of
the listing and the first attempt that fires, which is shown to solve the
recursive equation and to be its only solution. `DecisionsAssumption` says that values of claims, rules
and expectations are texts, as `extract_claim` makes them with `str()`, and that Null is no number and
JSON null no truth value.

`ValuesAreLiteral` follows LIKE through the pattern of an escaped value. An escaped text, folded
to lower case, is the concatenation of a piece per character (`EscapedSpreads`, `SpreadLower`),
and each piece reads exactly that character (`MatchingIs`); the percent signs around it then leave the
start, the end or both open.

`FiltersAreExact` compares two readings of a filter that have nothing in common: the descent, which
takes words from the left, and the division at the first connective outside parentheses. For each
position, what `parse_unary`, `parse_and` and `parse_or` understand from there is a span as deep in
parentheses at its end as at its start, which means what the division answers and
which no connective that binds less tightly divides, and `parse_and` and `parse_or` stop
only where no connective of theirs goes on (soundness: `SoundUnary`, `SoundAnd`, `SoundOr`);
and each span that the division answers is understood, if what follows cannot go
on (completeness: `CompleteUnary`, `CompleteAnd`, `CompleteOr`). Both at all later positions give
both here (`ExactStep`), so they hold from the last word to the first (`ExactEverywhere`).
`DepthNext` and `LevelGroup` count the parentheses between. `FiltersAssumption` says that filters are
sequences of words, that no comparison is written like a connective or a parenthesis, and
that `active` is never NULL (`nullable=False` in `models.py`).

Model-checked only: the liveness properties (`OwedEnd` and `RefreshEnds`, both
under fairness) and with them the liveness part of `Deprovisioning`, which TLAPS's
temporal reasoning does not reach. Every other property of a passing run is a theorem.

## Plan

1. The key cache beside the discovery cache, with a provider that rotates its keys.
2. Schema reconciliation by itself: the crash between ALTER and back-fill, two replicas.
3. `SignIn` over `Connections`: a connection edited, disabled or deleted between the
   redirect and the callback, with role and expectations of a session as it was opened.
4. A credential withdrawn while its request runs; issuing and revoking tokens.
5. The theorems of what the items above add.

## Not modelled

- Templates, static files, provider guides (`providers.py`), help pages, the display of lifetimes and the
  weather proxy keep no state that others read. SCIM
  discovery documents are constants. Listings, exports and event searches of
  the console and the API read and render.
- Argon2, HMAC, Fernet, JOSE and XML signatures are taken as the functions they
  implement; what an ID token or an assertion is checked for beyond nonce and
  `InResponseTo` is one verdict. The event log is written and never read by
  a decision.
- The tokenizer of filters, dotted paths, and regular expressions beyond literals and
  malformed ones.
- The key cache (`fetch_jwks`): a rotated key is refused until the cached set expires, and
  transport errors surface as status 500.
- `sync_schema` other than as one step of a start; the `client_credentials` request.
