--------------------------- MODULE ConnectionsProofs ---------------------------
(***************************************************************************)
(* Theorems about Connections, for any connections, issuers, secrets, keys *)
(* and any number of overlapping requests.                                 *)
(***************************************************************************)
EXTENDS Connections, TLAPS

Asking == {"update", "import", "fetch"}

\* A slug without a row holds nothing, one with a row has its issuer.
Sound(row) == IF row.id = None THEN row = NoRow ELSE row.issuer \in Issuer

\* A request that holds a connection got it from the table, and unless the
\* row was written since it still is the one there.
Holding(q) ==
    /\ q.kind \in {"update", "import"} => q.form \in Form
    /\ q.kind \in Asking =>
          /\ q.slug \in Slug
          /\ Sound(q.loaded)
          /\ ~q.old => q.loaded = conns[q.slug]
    /\ q.kind \in {"update", "fetch"} => q.loaded.id # None

IInv ==
    /\ TypeOK
    /\ \A c \in Slug : Sound(conns[c])
    /\ \A r \in Request : Holding(req[r])
    /\ HttpIssuerAllowed

-----------------------------------------------------------------------------
(* What the helpers return.                                                *)

LEMMA NothingHeld ==
    /\ NoRow \in Row /\ Sound(NoRow) /\ ~NoRow.dpop /\ ~NoRow.insecure
    /\ Idle \in RequestState /\ Idle.kind = "idle"
  <1>1. NoRow \in Row /\ Sound(NoRow) /\ ~NoRow.dpop /\ ~NoRow.insecure
    BY DEF NoRow, Row, Sound
  <1>2. <<>> \in Seq(Definition)
    OBVIOUS
  <1>3. Idle \in RequestState /\ Idle.kind = "idle"
    BY <1>1, <1>2 DEF Idle, RequestState
  <1> QED  BY <1>1, <1>3

LEMMA FormTyped ==
    ASSUME NEW form \in Form
    PROVE  /\ form.issuer \in Issuer /\ form.insecure \in BOOLEAN
           /\ form.secret \in Secret \cup {None} /\ form.key \in Key \cup {None}
           /\ form.dpop \in BOOLEAN
  BY FormAssumption DEF FormType

\* store_settings keeps the row's identity, and its secret and its key when the
\* field is blank.
LEMMA Stored ==
    ASSUME NEW row \in Row, row.id # None, NEW form \in Form, NEW k \in Key
    PROVE  LET new == StoreSettings(row, form, k)
           IN  /\ new \in Row /\ Sound(new)
               /\ new.dpop => new.key # None
               /\ new.id = row.id
               /\ row.key = None \/ Kept(row.key, new.key, form.key)
               /\ Kept(row.secret, new.secret, form.secret)
               /\ new.issuer = form.issuer /\ new.insecure = form.insecure
  BY FormTyped, FormAssumption DEF StoreSettings, Merged, Kept, Row, Sound

\* A request between its load and its end, seen by another that commits.
LEMMA StillHolding ==
    ASSUME IInv, NEW r \in Request, NEW q \in Request, q # r, NEW c \in Slug,
           NEW new \in Row, NEW next,
           conns' = [conns EXCEPT ![c] = new],
           req' = Overtaken(r, c, next)
    PROVE  Holding(req[q])' /\ req'[q] \in RequestState
  <1> DEFINE p == req[q]
  <1>1. p \in RequestState /\ conns \in [Slug -> Row]
    BY DEF IInv, TypeOK, RowsTypeOK
  <1>2. Holding(p)
    BY DEF IInv
  <1>3. req'[q] = IF p.slug = c THEN [p EXCEPT !.old = TRUE] ELSE p
    BY DEF Overtaken
  <1>4. CASE p.slug = c
    <2>1. /\ req'[q] \in RequestState /\ req'[q].kind = p.kind /\ req'[q].slug = p.slug
          /\ req'[q].form = p.form /\ req'[q].loaded = p.loaded /\ req'[q].old
      BY <1>1, <1>3, <1>4 DEF RequestState
    <2> QED  BY <2>1, <1>2 DEF Holding, Sound
  <1>5. CASE p.slug # c
    <2>1. req'[q] = p
      BY <1>3, <1>5
    <2>2. p.slug \in Slug => conns'[p.slug] = conns[p.slug]
      BY <1>1, <1>5
    <2> QED  BY <2>1, <2>2, <1>1, <1>2 DEF Holding, Sound
  <1> QED  BY <1>4, <1>5

\* The table after one row was written.
LEMMA RowWritten ==
    ASSUME IInv, NEW c \in Slug, NEW new \in Row, Sound(new), new.dpop => new.key # None,
           conns' = [conns EXCEPT ![c] = new]
    PROVE  /\ conns' \in [Slug -> Row]
           /\ \A d \in Slug : conns'[d].dpop => conns'[d].key # None
           /\ \A d \in Slug : Sound(conns'[d])
           /\ conns'[c] = new /\ \A d \in Slug \ {c} : conns'[d] = conns[d]
  BY DEF IInv, TypeOK, RowsTypeOK

\* What one step of one request does to the requests.
LEMMA OneRequest ==
    ASSUME IInv, NEW r \in Request, NEW next \in RequestState,
           req' = [req EXCEPT ![r] = next], UNCHANGED conns, Holding(next)
    PROVE  req' \in [Request -> RequestState] /\ \A q \in Request : Holding(req[q])'
  <1>1. req \in [Request -> RequestState] /\ \A q \in Request : Holding(req[q])
    BY DEF IInv, TypeOK, RowsTypeOK
  <1>2. \A q \in Request : req'[q] = IF q = r THEN next ELSE req[q]
    BY <1>1
  <1> QED  BY <1>1, <1>2 DEF Holding, Sound

LEMMA Commits ==
    ASSUME IInv, NEW r \in Request, NEW c \in Slug, NEW new \in Row, Sound(new),
           new.dpop => new.key # None, NEW next \in RequestState, next.kind \notin Asking,
           conns' = [conns EXCEPT ![c] = new],
           req' = Overtaken(r, c, next)
    PROVE  RowsTypeOK' /\ (\A d \in Slug : Sound(conns'[d])) /\ \A q \in Request : Holding(req[q])'
  <1>1. conns' \in [Slug -> Row] /\ \A d \in Slug : Sound(conns'[d]) /\ (conns'[d].dpop => conns'[d].key # None)
    BY RowWritten
  <1>2. req'[r] = next
    BY DEF Overtaken
  <1>3. Holding(req[r])'
    BY <1>2 DEF Holding, Asking
  <1>4. \A q \in Request : Holding(req[q])' /\ req'[q] \in RequestState
    BY <1>2, <1>3, StillHolding
  <1>5. req' \in [Request -> RequestState]
    BY <1>4 DEF Overtaken
  <1> QED  BY <1>1, <1>4, <1>5 DEF RowsTypeOK

-----------------------------------------------------------------------------
(* Each action keeps the invariant.                                        *)

LEMMA InitKeeps == Init => IInv
  <1> SUFFICES ASSUME Init PROVE IInv
    OBVIOUS
  <1>1. RowsTypeOK
    BY NothingHeld DEF Init, RowsInit, RowsTypeOK
  <1>2. CacheTypeOK /\ HttpIssuerAllowed
    BY DEF Init, CacheInit, CacheTypeOK, HttpIssuerAllowed
  <1>3. \A c \in Slug : Sound(conns[c])
    BY NothingHeld DEF Init, RowsInit
  <1>4. \A r \in Request : Holding(req[r])
    BY NothingHeld DEF Init, RowsInit, Holding, Asking
  <1> QED  BY <1>1, <1>2, <1>3, <1>4 DEF IInv, TypeOK

LEMMA CreateKeeps ==
    ASSUME IInv, NEW c \in Slug, NEW form \in Form, NEW id \in RowId, NEW k \in Key,
           Create(c, form, id, k)
    PROVE  IInv' /\ ~Exists(c) /\ conns'[c].id \in FreshIds /\ \A d \in Slug \ {c} : conns'[d] = conns[d]
  <1> DEFINE row == [NoRow EXCEPT !.id = id]
  <1>1. row \in Row /\ row.id = id /\ row.id # None
    BY FormAssumption DEF NoRow, Row
  <1> HIDE DEF row
  <1> DEFINE new == StoreSettings(row, form, k)
  <1>2. /\ new \in Row /\ Sound(new) /\ new.id = id
        /\ new.dpop => new.key # None
    BY <1>1, Stored
  <1> HIDE DEF new
  <1>3. /\ conns' = [conns EXCEPT ![c] = new] /\ ~Exists(c) /\ id \in FreshIds
        /\ req' = [r \in Request |-> IF req[r].slug = c THEN [req[r] EXCEPT !.old = TRUE] ELSE req[r]]
        /\ UNCHANGED <<cache, excused>>
    BY DEF Create, row, new
  <1>4. /\ conns' \in [Slug -> Row]
        /\ \A d \in Slug : Sound(conns'[d]) /\ (conns'[d].dpop => conns'[d].key # None)
        /\ conns'[c] = new /\ \A d \in Slug \ {c} : conns'[d] = conns[d]
    BY <1>2, <1>3, RowWritten
  <1>5. \A q \in Request : Holding(req[q])' /\ req'[q] \in RequestState
    <2> SUFFICES ASSUME NEW q \in Request PROVE Holding(req[q])' /\ req'[q] \in RequestState
      OBVIOUS
    <2>1. req[q] \in RequestState /\ Holding(req[q])
      BY DEF IInv, TypeOK, RowsTypeOK
    <2>2. CASE req[q].slug = c
      <3>1. req'[q] = [req[q] EXCEPT !.old = TRUE]
        BY <1>3, <2>2
      <3>2. /\ req'[q] \in RequestState /\ req'[q].kind = req[q].kind /\ req'[q].slug = req[q].slug
            /\ req'[q].form = req[q].form /\ req'[q].loaded = req[q].loaded /\ req'[q].old
        BY <2>1, <3>1 DEF RequestState
      <3> QED  BY <2>1, <3>2 DEF Holding, Sound
    <2>3. CASE req[q].slug # c
      <3>1. req'[q] = req[q]
        BY <1>3, <2>3
      <3>2. req[q].slug \in Slug => conns'[req[q].slug] = conns[req[q].slug]
        BY <1>4, <2>3
      <3> QED  BY <2>1, <3>1, <3>2 DEF Holding, Sound
    <2> QED  BY <2>2, <2>3
  <1>6. RowsTypeOK'
    BY <1>3, <1>4, <1>5 DEF RowsTypeOK
  <1>7. conns[c] = NoRow
    BY <1>3 DEF IInv, Sound, Exists
  <1>8. HttpIssuerAllowed' /\ CacheTypeOK'
    BY <1>3, <1>4, <1>7, NothingHeld DEF IInv, TypeOK, CacheTypeOK, HttpIssuerAllowed
  <1> QED  BY <1>2, <1>3, <1>4, <1>5, <1>6, <1>8 DEF IInv, TypeOK

\* Steps that load or drop something and leave table and cache alone.
LEMMA QuietKeeps ==
    ASSUME IInv, NEW r \in Request, NEW next \in RequestState, Holding(next),
           req' = [req EXCEPT ![r] = next], UNCHANGED <<conns, cache, excused>>
    PROVE  IInv'
  <1>1. req' \in [Request -> RequestState] /\ \A q \in Request : Holding(req[q])'
    BY OneRequest
  <1>2. RowsTypeOK' /\ CacheTypeOK'
    BY <1>1 DEF IInv, TypeOK, RowsTypeOK, CacheTypeOK
  <1>3. HttpIssuerAllowed' /\ \A c \in Slug : Sound(conns'[c])
    BY DEF IInv, HttpIssuerAllowed
  <1> QED  BY <1>1, <1>2, <1>3 DEF IInv, TypeOK, Sound

LEMMA LoadsKeep ==
    ASSUME IInv, NEW r \in Request,
           \/ \E c \in Slug, form \in Form : LoadForUpdate(r, c, form)
           \/ \E c \in Slug : LoadForFetch(r, c)
           \/ \E payload \in Payload : StartImport(r, payload)
           \/ LoadForImport(r)
           \/ Refused(r)
    PROVE  IInv'
  <1>1. /\ req[r] \in RequestState /\ conns \in [Slug -> Row]
        /\ \A c \in Slug : Sound(conns[c])
    BY DEF IInv, TypeOK, RowsTypeOK
  <1>2. CASE \E c \in Slug, form \in Form : LoadForUpdate(r, c, form)
    <2>1. PICK c \in Slug, form \in Form : LoadForUpdate(r, c, form)
      BY <1>2
    <2> DEFINE next == [Idle EXCEPT !.kind = "update", !.slug = c, !.form = form, !.loaded = conns[c]]
    <2>2. /\ next \in RequestState /\ next.kind = "update" /\ next.slug = c
          /\ next.form = form /\ next.loaded = conns[c]
      BY <1>1, NothingHeld DEF RequestState, Idle
    <2>3. Holding(next)
      BY <1>1, <2>1, <2>2 DEF Holding, Asking, LoadForUpdate, Exists
    <2> QED  BY <2>1, <2>2, <2>3, QuietKeeps DEF LoadForUpdate
  <1>3. CASE \E c \in Slug : LoadForFetch(r, c)
    <2>1. PICK c \in Slug : LoadForFetch(r, c)
      BY <1>3
    <2> DEFINE next == [Idle EXCEPT !.kind = "fetch", !.slug = c, !.loaded = conns[c]]
    <2>2. next \in RequestState /\ next.kind = "fetch" /\ next.slug = c /\ next.loaded = conns[c]
      BY <1>1, NothingHeld DEF RequestState, Idle
    <2>3. Holding(next)
      BY <1>1, <2>1, <2>2 DEF Holding, Asking, LoadForFetch, Exists
    <2> QED  BY <2>1, <2>2, <2>3, QuietKeeps DEF LoadForFetch
  <1>4. CASE \E payload \in Payload : StartImport(r, payload)
    <2>1. PICK payload \in Payload : StartImport(r, payload)
      BY <1>4
    <2> DEFINE next == [Idle EXCEPT !.kind = "next", !.rest = payload]
    <2>2. payload \in Seq(Definition)
      BY FormAssumption DEF Definition
    <2>3. next \in RequestState /\ next.kind = "next"
      BY <2>2, NothingHeld DEF RequestState, Idle
    <2>4. Holding(next)
      BY <2>3 DEF Holding, Asking
    <2> QED  BY <2>1, <2>3, <2>4, QuietKeeps DEF StartImport
  <1>5. CASE LoadForImport(r)
    <2> DEFINE d == Head(req[r].rest)
               next == [kind |-> "import", slug |-> d.slug, form |-> d.form,
                        loaded |-> conns[d.slug], rest |-> Tail(req[r].rest), old |-> FALSE]
    <2>1. /\ req[r].rest # <<>> /\ req' = [req EXCEPT ![r] = next]
          /\ UNCHANGED <<conns, cache, excused>>
      BY <1>5 DEF LoadForImport
    <2>2. req[r].rest \in Seq(Definition)
      BY <1>1 DEF RequestState
    <2>3. d \in Definition /\ Tail(req[r].rest) \in Seq(Definition)
      BY <2>1, <2>2
    <2>4. d.slug \in Slug /\ d.form \in Form
      BY <2>3 DEF Definition
    <2>5. next \in RequestState
      BY <1>1, <2>3, <2>4 DEF RequestState
    <2>6. Holding(next)
      BY <1>1, <2>4 DEF Holding, Asking
    <2> QED  BY <2>1, <2>5, <2>6, QuietKeeps
  <1>6. CASE Refused(r)
    <2>1. Holding(Idle)
      BY NothingHeld DEF Holding, Asking
    <2> QED  BY <1>6, <2>1, NothingHeld, QuietKeeps DEF Refused
  <1> QED  BY <1>2, <1>3, <1>4, <1>5, <1>6

\* The commit of an edit or import: row is what the request started from, new
\* what it writes.
LEMMA CommitKeeps ==
    ASSUME IInv, NEW r \in Request, NEW next \in RequestState, next.kind \notin Asking,
           req[r].slug \in Slug,
           NEW new \in Row, Sound(new), new.dpop => new.key # None,
           Commit(r, new, next)
    PROVE  RowsTypeOK' /\ (\A d \in Slug : Sound(conns'[d])) /\ \A q \in Request : Holding(req[q])'
  <1>1. CASE Finds(req[r]) /\ conns' = [conns EXCEPT ![req[r].slug] = new]
             /\ req' = Overtaken(r, req[r].slug, next)
    BY <1>1, Commits
  <1>2. CASE req' = [req EXCEPT ![r] = next] /\ UNCHANGED conns
    <2>1. Holding(next)
      BY DEF Holding, Asking
    <2> QED  BY <1>2, <2>1, OneRequest DEF IInv, TypeOK, RowsTypeOK, Sound
  <1> QED  BY <1>1, <1>2 DEF Commit

LEMMA UpdateKeeps ==
    ASSUME IInv, NEW r \in Request, NEW k \in Key, Update(r, k)
    PROVE  IInv'
  <1>1. /\ req[r] \in RequestState /\ req[r].kind = "update" /\ req[r].form \in Form
        /\ req[r].slug \in Slug /\ req[r].loaded \in Row /\ req[r].loaded.id # None
    BY DEF IInv, TypeOK, RowsTypeOK, RequestState, Update, Holding, Asking
  <1> DEFINE new == StoreSettings(req[r].loaded, req[r].form, k)
  <1>2. new \in Row /\ Sound(new) /\ (new.dpop => new.key # None)
    BY <1>1, Stored
  <1>3. Commit(r, new, Idle) /\ Sweep({req[r].form.issuer})
    BY DEF Update
  <1> HIDE DEF new
  <1>4. RowsTypeOK' /\ (\A d \in Slug : Sound(conns'[d])) /\ \A q \in Request : Holding(req[q])'
    BY <1>1, <1>2, <1>3, NothingHeld, CommitKeeps DEF Asking
  <1>5. CacheTypeOK' /\ HttpIssuerAllowed'
    BY <1>3 DEF Sweep, InvalidateCache, CacheTypeOK, HttpIssuerAllowed
  <1> QED  BY <1>4, <1>5 DEF IInv, TypeOK, Sound

LEMMA DeleteKeeps ==
    ASSUME IInv, NEW r \in Request, NEW c \in Slug, Delete(r, c)
    PROVE  IInv'
  <1> DEFINE next == [Idle EXCEPT !.kind = "sweep"]
  <1>1. next \in RequestState /\ next.kind \notin Asking
    BY NothingHeld DEF RequestState, Asking, Idle
  <1>2. /\ conns' = [conns EXCEPT ![c] = NoRow] /\ req' = Overtaken(r, c, next)
        /\ excused' = excused \cup {conns[c].issuer} /\ UNCHANGED cache /\ Exists(c)
    BY DEF Delete
  <1> HIDE DEF next
  <1>3. RowsTypeOK' /\ (\A d \in Slug : Sound(conns'[d])) /\ \A q \in Request : Holding(req[q])'
    BY <1>1, <1>2, NothingHeld, Commits
  <1>4. CacheTypeOK' /\ HttpIssuerAllowed'
    <2>1. conns[c].issuer \in Issuer
      BY <1>2 DEF IInv, Sound, Exists
    <2>2. \A d \in Slug \ {c} : conns'[d] = conns[d]
      BY <1>2 DEF IInv, TypeOK, RowsTypeOK
    <2> QED  BY <1>2, <2>1, <2>2 DEF IInv, TypeOK, CacheTypeOK, HttpIssuerAllowed
  <1> QED  BY <1>3, <1>4 DEF IInv, TypeOK, Sound

\* What an import writes.
ImportedRow(q, id) == IF q.loaded.id = None THEN [NoRow EXCEPT !.id = id] ELSE q.loaded

LEMMA Imported ==
    ASSUME IInv, NEW r \in Request, NEW id \in RowId, NEW k \in Key, ImportConnection(r, id, k)
    PROVE  LET q == req[r]
               next == [Idle EXCEPT !.kind = "next", !.rest = q.rest]
               new == StoreSettings(ImportedRow(q, id), q.form, k)
           IN  /\ q.kind = "import" /\ q.form \in Form /\ q.slug \in Slug /\ q.loaded \in Row
               /\ Sound(q.loaded)
               /\ next \in RequestState /\ next.kind = "next"
               /\ ImportedRow(q, id) \in Row
               /\ ImportedRow(q, id).id = IF q.loaded.id = None THEN id ELSE q.loaded.id
               /\ ImportedRow(q, id).id # None
               /\ Commit(r, new, next)
  <1> DEFINE q == req[r]
  <1>1. /\ q \in RequestState /\ q.kind = "import" /\ q.form \in Form
        /\ q.slug \in Slug /\ q.loaded \in Row /\ Sound(q.loaded)
    BY DEF IInv, TypeOK, RowsTypeOK, RequestState, ImportConnection, Holding, Asking
  <1>2. q.rest \in Seq(Definition)
    BY <1>1 DEF RequestState
  <1>3. /\ [Idle EXCEPT !.kind = "next", !.rest = q.rest] \in RequestState
        /\ [Idle EXCEPT !.kind = "next", !.rest = q.rest].kind = "next"
    BY <1>2, NothingHeld DEF RequestState, Idle
  <1>4. /\ ImportedRow(q, id) \in Row
        /\ ImportedRow(q, id).id = IF q.loaded.id = None THEN id ELSE q.loaded.id
        /\ ImportedRow(q, id).id # None
    BY <1>1, FormAssumption DEF ImportedRow, NoRow, Row
  <1>5. Commit(r, StoreSettings(ImportedRow(q, id), q.form, k), [Idle EXCEPT !.kind = "next", !.rest = q.rest])
    BY DEF ImportConnection, ImportedRow
  <1> QED  BY <1>1, <1>3, <1>4, <1>5

LEMMA ImportKeeps ==
    ASSUME IInv, NEW r \in Request, NEW id \in RowId, NEW k \in Key, ImportConnection(r, id, k)
    PROVE  IInv'
  <1> DEFINE q == req[r]
             next == [Idle EXCEPT !.kind = "next", !.rest = q.rest]
             row == ImportedRow(q, id)
  <1>1. /\ q.slug \in Slug /\ q.form \in Form /\ next \in RequestState /\ next.kind \notin Asking
        /\ row \in Row /\ row.id # None
        /\ Commit(r, StoreSettings(row, q.form, k), next)
    BY Imported DEF Asking
  <1> HIDE DEF next, row
  <1> DEFINE new == StoreSettings(row, q.form, k)
  <1>2. new \in Row /\ Sound(new) /\ (new.dpop => new.key # None)
    BY <1>1, Stored
  <1>3. Commit(r, new, next)
    BY <1>1
  <1> HIDE DEF new
  <1>4. RowsTypeOK' /\ (\A d \in Slug : Sound(conns'[d])) /\ \A p \in Request : Holding(req[p])'
    BY <1>1, <1>2, <1>3, CommitKeeps
  <1>5. /\ excused' = IF conns' = conns \/ q.loaded.id = None THEN excused
                    ELSE excused \cup {conns[q.slug].issuer}
        /\ UNCHANGED cache
    BY DEF ImportConnection
  <1>6. CASE conns' # conns /\ q.loaded.id # None
    <2>1. Finds(q) /\ conns' = [conns EXCEPT ![q.slug] = new]
      BY <1>3, <1>6 DEF Commit
    <2>2. conns[q.slug].issuer \in Issuer
      BY <1>1, <1>6, <2>1 DEF Finds, IInv, Sound
    <2>3. \A d \in Slug \ {q.slug} : conns'[d] = conns[d]
      BY <2>1 DEF IInv, TypeOK, RowsTypeOK
    <2>4. CacheTypeOK' /\ HttpIssuerAllowed'
      BY <1>1, <1>5, <1>6, <2>2, <2>3 DEF IInv, TypeOK, CacheTypeOK, HttpIssuerAllowed
    <2> QED  BY <1>4, <2>4 DEF IInv, TypeOK, Sound
  <1>7. CASE conns' = conns \/ q.loaded.id = None
    <2>1. excused' = excused /\ cache' = cache
      BY <1>5, <1>7
    <2>2. \A d \in Slug : conns[d].insecure => conns'[d] = conns[d]
      <3>1. CASE conns' = conns
        BY <3>1
      <3>2. CASE conns' # conns
        <4>1. Finds(q) /\ conns' = [conns EXCEPT ![q.slug] = new]
          BY <1>3, <3>2 DEF Commit
        <4>2. conns[q.slug] = NoRow
          BY <1>1, <1>7, <3>2, <4>1 DEF Finds, IInv, Sound
        <4>3. \A d \in Slug \ {q.slug} : conns'[d] = conns[d]
          BY <4>1 DEF IInv, TypeOK, RowsTypeOK
        <4> QED  BY <4>2, <4>3, NothingHeld
      <3> QED  BY <3>1, <3>2
    <2>3. CacheTypeOK' /\ HttpIssuerAllowed'
      BY <2>1, <2>2 DEF IInv, TypeOK, CacheTypeOK, HttpIssuerAllowed
    <2> QED  BY <1>4, <2>3 DEF IInv, TypeOK, Sound
  <1> QED  BY <1>6, <1>7

LEMMA CacheStepsKeep ==
    ASSUME IInv,
           \/ \E r \in Request : SweepAtEnd(r)
           \/ \E r \in Request, document \in {"https", "http"} : FetchDiscovery(r, document)
           \/ \E i \in Issuer : Expire(i)
    PROVE  IInv'
  <1>1. Holding(Idle) /\ Idle \in RequestState
    BY NothingHeld DEF Holding, Asking
  <1>2. CASE \E r \in Request : SweepAtEnd(r)
    <2>1. PICK r \in Request : SweepAtEnd(r)
      BY <1>2
    <2>2. req' \in [Request -> RequestState] /\ \A q \in Request : Holding(req[q])'
      BY <1>1, <2>1, OneRequest DEF SweepAtEnd
    <2>3. CacheTypeOK' /\ HttpIssuerAllowed' /\ conns' = conns
      BY <2>1 DEF SweepAtEnd, Sweep, InvalidateCache, CacheTypeOK, HttpIssuerAllowed
    <2> QED  BY <2>2, <2>3 DEF IInv, TypeOK, RowsTypeOK, Sound
  <1>3. CASE \E r \in Request, document \in {"https", "http"} : FetchDiscovery(r, document)
    <2>1. PICK r \in Request, document \in {"https", "http"} : FetchDiscovery(r, document)
      BY <1>3
    <2> DEFINE q == req[r]  i == q.loaded.issuer
    <2>2. /\ q.kind = "fetch" /\ Usable(q.loaded, document)
          /\ cache' = [cache EXCEPT ![i] = document]
          /\ excused' = IF q.old THEN excused \cup {i} ELSE excused \ {i}
          /\ req' = [req EXCEPT ![r] = Idle] /\ UNCHANGED conns
      BY <2>1 DEF FetchDiscovery
    <2>3. /\ q.slug \in Slug /\ i \in Issuer
          /\ ~q.old => q.loaded = conns[q.slug]
      BY <2>2 DEF IInv, Holding, Asking, Sound
    <2>4. req' \in [Request -> RequestState] /\ \A p \in Request : Holding(req[p])'
      BY <1>1, <2>2, OneRequest
    <2>5. CacheTypeOK'
      BY <2>2, <2>3 DEF IInv, TypeOK, CacheTypeOK
    <2>6. HttpIssuerAllowed'
      <3> SUFFICES ASSUME NEW j \in Issuer, cache'[j] = "http"
                   PROVE  j \in excused' \/ \E c \in Slug : conns'[c].issuer = j /\ conns'[c].insecure
        BY DEF HttpIssuerAllowed
      <3>1. CASE j = i
        <4>1. document = "http"
          BY <2>2, <2>3, <3>1 DEF IInv, TypeOK, CacheTypeOK
        <4>2. q.loaded.insecure
          BY <2>2, <4>1 DEF Usable
        <4> QED  BY <2>2, <2>3, <3>1, <4>2
      <3>2. CASE j # i
        BY <2>2, <3>2 DEF IInv, TypeOK, CacheTypeOK, HttpIssuerAllowed
      <3> QED  BY <3>1, <3>2
    <2> QED  BY <2>2, <2>4, <2>5, <2>6 DEF IInv, TypeOK, RowsTypeOK, Sound
  <1>4. CASE \E i \in Issuer : Expire(i)
    <2>1. PICK i \in Issuer : Expire(i)
      BY <1>4
    <2>2. CacheTypeOK' /\ HttpIssuerAllowed'
      BY <2>1 DEF Expire, IInv, TypeOK, CacheTypeOK, HttpIssuerAllowed
    <2>3. UNCHANGED <<conns, req>>
      BY <2>1 DEF Expire
    <2> QED  BY <2>2, <2>3 DEF IInv, TypeOK, RowsTypeOK, Sound, Holding
  <1> QED  BY <1>2, <1>3, <1>4

LEMMA NextKeeps == IInv /\ [Next]_vars => IInv'
  <1> SUFFICES ASSUME IInv, [Next]_vars PROVE IInv'
    OBVIOUS
  <1>1. CASE UNCHANGED vars
    BY <1>1 DEF vars, IInv, TypeOK, RowsTypeOK, CacheTypeOK, HttpIssuerAllowed, Sound, Holding
  <1>2. CASE Next
    BY <1>2, CreateKeeps, LoadsKeep, UpdateKeeps, DeleteKeeps, ImportKeeps, CacheStepsKeep DEF Next
  <1> QED  BY <1>1, <1>2

LEMMA InvariantHolds == Spec => []IInv
  BY InitKeeps, NextKeeps, PTL DEF Spec

\* Every reachable state is well typed, and a connection that uses DPoP has
\* its key.
THEOREM TypeCorrect == Spec => []TypeOK
  <1>1. IInv => TypeOK
    BY DEF IInv
  <1> QED  BY <1>1, InvariantHolds, PTL

\* A document without an https issuer outlives its permission only through the
\* requests named in the property, however edits, deletions, imports and
\* fetches interleave.
THEOREM OnlyAllowedHttp == Spec => []HttpIssuerAllowed
  <1>1. IInv => HttpIssuerAllowed
    BY DEF IInv
  <1> QED  BY <1>1, InvariantHolds, PTL

-----------------------------------------------------------------------------
(* How a row changes.                                                      *)

\* What request r starts from: the row it loaded, or a new one.
StartsFrom(q, row) ==
    IF q.loaded.id = None THEN row.id \in FreshIds ELSE row = q.loaded

\* Request r writes connection c.
Writing(r, c) ==
    LET q == req[r]
    IN  /\ q.kind \in {"update", "import"} /\ q.slug = c /\ req'[r] # q
        /\ q.form \in Form
        /\ ~q.old => q.loaded = conns[c]
        /\ conns[c].id = q.loaded.id
        /\ \E row \in Row, k \in Key :
              row.id # None /\ StartsFrom(q, row) /\ conns'[c] = StoreSettings(row, q.form, k)

\* A commit changes the one row its request holds.
LEMMA CommitWrites ==
    ASSUME IInv, NEW r \in Request, NEW c \in Slug, NEW new \in Row, NEW next \in RequestState,
           req[r].kind \in {"update", "import"}, next.kind \notin Asking,
           Commit(r, new, next), conns'[c] # conns[c]
    PROVE  /\ req[r].slug = c /\ conns[c].id = req[r].loaded.id
           /\ conns'[c] = new /\ req'[r] # req[r]
  <1>1. Finds(req[r]) /\ conns' = [conns EXCEPT ![req[r].slug] = new]
        /\ req' = Overtaken(r, req[r].slug, next)
    BY DEF Commit
  <1>2. req'[r] = next
    BY <1>1 DEF Overtaken
  <1>3. req[r].slug = c /\ conns'[c] = new
    BY <1>1 DEF IInv, TypeOK, RowsTypeOK
  <1> QED  BY <1>1, <1>2, <1>3 DEF Finds, Asking

LEMMA UpdateWrites ==
    ASSUME IInv, NEW r \in Request, NEW k \in Key, Update(r, k),
           NEW c \in Slug, conns'[c] # conns[c]
    PROVE  Writing(r, c)
  <1> DEFINE q == req[r]
             new == StoreSettings(q.loaded, q.form, k)
  <1>1. /\ q.kind = "update" /\ q.form \in Form /\ q.loaded \in Row /\ q.loaded.id # None
        /\ ~q.old => q.loaded = conns[q.slug]
    BY DEF IInv, TypeOK, RowsTypeOK, RequestState, Update, Holding, Asking
  <1>2. new \in Row /\ Commit(r, new, Idle)
    BY <1>1, Stored DEF Update
  <1> HIDE DEF new
  <1>3. q.slug = c /\ conns[c].id = q.loaded.id /\ conns'[c] = new /\ req'[r] # q
    BY <1>1, <1>2, NothingHeld, CommitWrites DEF Asking
  <1>4. StartsFrom(q, q.loaded)
    BY <1>1 DEF StartsFrom
  <1> QED  BY <1>1, <1>3, <1>4 DEF Writing, new

LEMMA ImportWrites ==
    ASSUME IInv, NEW r \in Request, NEW id \in RowId, NEW k \in Key, ImportConnection(r, id, k),
           NEW c \in Slug, conns'[c] # conns[c]
    PROVE  Writing(r, c)
  <1> DEFINE q == req[r]
             row == ImportedRow(q, id)
             next == [Idle EXCEPT !.kind = "next", !.rest = q.rest]
  <1>1. /\ q.kind = "import" /\ q.form \in Form
        /\ next \in RequestState /\ next.kind \notin Asking
        /\ row \in Row /\ row.id # None
        /\ Commit(r, StoreSettings(row, q.form, k), next)
    BY Imported DEF Asking
  <1>2. StartsFrom(q, row)
    BY Imported DEF StartsFrom, ImportConnection, ImportedRow
  <1>3. ~q.old => q.loaded = conns[q.slug]
    BY <1>1 DEF IInv, Holding, Asking
  <1> HIDE DEF row, next
  <1> DEFINE new == StoreSettings(row, q.form, k)
  <1>4. new \in Row /\ Commit(r, new, next)
    BY <1>1, Stored
  <1> HIDE DEF new
  <1>5. q.slug = c /\ conns[c].id = q.loaded.id /\ conns'[c] = new /\ req'[r] # q
    BY <1>1, <1>4, CommitWrites
  <1> QED  BY <1>1, <1>2, <1>3, <1>5 DEF Writing, new

\* A row changes when its slug is taken, when it is deleted, or when a request
\* that loaded it writes it.
LEMMA RowChanges ==
    ASSUME IInv, [Next]_vars, NEW c \in Slug, conns'[c] # conns[c]
    PROVE  \/ ~Exists(c) /\ conns'[c].id \in FreshIds
           \/ conns'[c] = NoRow
           \/ \E r \in Request : Writing(r, c)
  <1>1. CASE \E d \in Slug, form \in Form, id \in RowId, k \in Key : Create(d, form, id, k)
    <2>1. PICK d \in Slug, form \in Form, id \in RowId, k \in Key : Create(d, form, id, k)
      BY <1>1
    <2> QED  BY <2>1, CreateKeeps
  <1>2. CASE \E r \in Request, k \in Key : Update(r, k)
    BY <1>2, UpdateWrites
  <1>3. CASE \E r \in Request, d \in Slug : Delete(r, d)
    <2>1. PICK r \in Request, d \in Slug : Delete(r, d)
      BY <1>3
    <2>2. conns' = [conns EXCEPT ![d] = NoRow]
      BY <2>1 DEF Delete
    <2> QED  BY <2>2 DEF IInv, TypeOK, RowsTypeOK
  <1>4. CASE \E r \in Request, id \in RowId, k \in Key : ImportConnection(r, id, k)
    BY <1>4, ImportWrites
  <1>5. ASSUME UNCHANGED conns PROVE FALSE
    BY <1>5
  <1>6. CASE UNCHANGED vars
    BY <1>5, <1>6 DEF vars
  <1> QED
    BY <1>1, <1>2, <1>3, <1>4, <1>5, <1>6
       DEF Next, LoadForUpdate, StartImport, LoadForImport, SweepAtEnd, LoadForFetch,
           FetchDiscovery, Expire, Refused

\* The client secret and the private key of a stored connection change only to
\* what the request that writes them carries, or by a request that held an old
\* row: store_settings (app/auth/connections.py) loses neither to a blank field
\* or to a feature switched off and on.
THEOREM SecretsKept == Spec => StoredSecretsKept
  <1> DEFINE KeptIn(c) ==
               \/ conns'[c].secret = conns[c].secret /\ conns[c].key \in {None, conns'[c].key}
               \/ \E r \in Request :
                     LET q == req[r]
                     IN  /\ q.slug = c /\ q.kind \in {"update", "import"} /\ req'[r] # q
                         /\ \/ q.old
                            \/ /\ Kept(conns[c].secret, conns'[c].secret, q.form.secret)
                               /\ conns[c].key = None \/ Kept(conns[c].key, conns'[c].key, q.form.key)
  <1>1. ASSUME IInv, [Next]_vars, NEW c \in Slug, Exists(c), conns'[c].id = conns[c].id
        PROVE  KeptIn(c)
    <2>1. CASE conns'[c] = conns[c]
      BY <2>1
    <2>2. CASE conns'[c] # conns[c]
      <3>1. conns'[c] # NoRow
        BY <1>1 DEF Exists, NoRow
      <3>2. PICK r \in Request : Writing(r, c)
        BY <1>1, <2>2, <3>1, RowChanges
      <3>3. CASE req[r].old
        BY <3>2, <3>3 DEF Writing
      <3>4. CASE ~req[r].old
        <4>1. PICK row \in Row, k \in Key :
                row.id # None /\ StartsFrom(req[r], row) /\ conns'[c] = StoreSettings(row, req[r].form, k)
          BY <3>2 DEF Writing
        <4>2. row = conns[c] /\ req[r].form \in Form
          BY <1>1, <3>2, <3>4, <4>1 DEF Writing, StartsFrom, Exists
        <4>3. /\ Kept(conns[c].secret, conns'[c].secret, req[r].form.secret)
              /\ conns[c].key = None \/ Kept(conns[c].key, conns'[c].key, req[r].form.key)
          BY <4>1, <4>2, Stored
        <4> QED  BY <3>2, <4>3 DEF Writing
      <3> QED  BY <3>3, <3>4
    <2> QED  BY <2>1, <2>2
  <1>2. IInv /\ [Next]_vars =>
          [\A c \in Slug : Exists(c) /\ conns'[c].id = conns[c].id => KeptIn(c)]_vars
    BY <1>1
  <1> QED  BY <1>2, InvariantHolds, PTL DEF Spec, StoredSecretsKept

\* A slug changes hands only through its deletion, and a deleted connection
\* does not come back.
THEOREM DeletedIsGone == Spec => DeletedStaysGone
  <1>1. ASSUME IInv, [Next]_vars, NEW c \in Slug, conns'[c].id # conns[c].id
        PROVE  IF Exists(c) THEN conns'[c] = NoRow ELSE conns'[c].id \in FreshIds
    <2>1. CASE \E r \in Request : Writing(r, c)
      <3>1. PICK r \in Request : Writing(r, c)
        BY <2>1
      <3>2. PICK row \in Row, k \in Key :
              row.id # None /\ StartsFrom(req[r], row) /\ conns'[c] = StoreSettings(row, req[r].form, k)
        BY <3>1 DEF Writing
      <3>3. conns'[c].id = row.id /\ conns[c].id = req[r].loaded.id
        BY <3>1, <3>2, Stored DEF Writing
      <3> QED  BY <1>1, <3>2, <3>3 DEF StartsFrom, Exists
    <2>2. CASE conns'[c] = NoRow
      BY <1>1, <2>2 DEF Exists, NoRow
    <2> QED  BY <1>1, <2>1, <2>2, RowChanges
  <1>2. IInv /\ [Next]_vars =>
          [\A c \in Slug : conns'[c].id # conns[c].id =>
             IF Exists(c) THEN conns'[c] = NoRow ELSE conns'[c].id \in FreshIds]_vars
    BY <1>1
  <1> QED  BY <1>2, InvariantHolds, PTL DEF Spec, DeletedStaysGone

=============================================================================
