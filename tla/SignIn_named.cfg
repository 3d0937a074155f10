\* A NameID that is neither the subject nor the email address: two browsers, two logins of one person, two sessions, two requests at a time.
CONSTANTS
    b1 = b1  b2 = b2  n1 = n1  n2 = n2  s1 = s1  s2 = s2  r1 = r1  r2 = r2
    Browser = {b1, b2}
    Slug = {"oidc", "saml"}
    Protocol <- Protocols
    Enabled = {"oidc", "saml"}
    Login = {n1, n2}
    Person = {"ann"}
    Identity <- Opaque
    Request = {r1, r2}
    None = None
    SessionId = {s1, s2}
    Name <- Names
    NoName = ""
    Strip <- Keep
    PyLower <- Lower
    DbLower <- Lower
    UsesPkce = {"oidc"}
    AllowUnsolicited = {}
    HasSloUrl = {"saml"}
SPECIFICATION Spec
SYMMETRY Symmetry
PROPERTIES
    NamedSessionsEnd
