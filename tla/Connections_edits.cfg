CONSTANTS
    a = a  b = b
    i1 = i1  i2 = i2
    s1 = s1
    k0 = k0  k1 = k1  k2 = k2  k3 = k3
    d1 = d1  d2 = d2  d3 = d3
    r1 = r1  r2 = r2
    Slug = {a, b}
    Issuer = {i1, i2}
    Secret = {s1}
    Key = {k0, k1, k2, k3}
    RowId = {d1, d2, d3}
    Form <- Forms
    Payload <- Payloads
    Request = {r1, r2}
    None = None
SPECIFICATION Spec
SYMMETRY Symmetry
INVARIANTS TypeOK HttpIssuerAllowed
PROPERTIES StoredSecretsKept DeletedStaysGone
