------------------------------- MODULE MCSignIn -------------------------------
(***************************************************************************)
(* Small instances of SignIn: one OIDC and one SAML connection.            *)
(***************************************************************************)
EXTENDS SignIn, TLC

CONSTANTS b1, b2, n1, n2, s1, s2, r1, r2

Names == {"", "ann", "Ann@x", "ann@x", "a1", "p7"}

Keep == [n \in Names |-> n]

Lower == [n \in Names |-> IF n = "Ann@x" THEN "ann@x" ELSE n]

Protocols == [c \in {"oidc", "saml"} |-> c]

ByOidc == [subject |-> "a1", email |-> "", nameId |-> ""]

BySaml(nameId) == [subject |-> "ann", email |-> "Ann@x", nameId |-> nameId]

Claims(nameId) ==
    [c \in {"oidc", "saml"} |-> [p \in {"ann"} |-> IF c = "oidc" THEN ByOidc ELSE BySaml(nameId)]]

\* The NameID is the email address, in another case.
ByEmail == Claims("ann@x")

\* The NameID is an opaque identifier, and the connection's subject_claim and
\* email_claim name attributes.
Opaque == Claims("p7")

Symmetry == Permutations({b1, b2}) \cup Permutations({n1, n2})
               \cup Permutations({s1, s2}) \cup Permutations({r1, r2})

=============================================================================
