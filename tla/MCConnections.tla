----------------------------- MODULE MCConnections -----------------------------
(***************************************************************************)
(* Small instances of Connections: two slugs, two issuers, two overlapping *)
(* requests.  OpenForm brings a private key of its own, MovedForm leaves   *)
(* the field blank: its key is the one generated, or the one brought.      *)
(***************************************************************************)
EXTENDS Connections, TLC

CONSTANTS a, b, i1, i2, s1, k0, k1, k2, k3, d1, d2, d3, r1, r2

OpenForm == [issuer |-> i1, insecure |-> TRUE, secret |-> None, dpop |-> FALSE,
             key |-> k0, valid |-> TRUE]

MovedForm == [issuer |-> i2, insecure |-> FALSE, secret |-> s1, dpop |-> TRUE,
              key |-> None, valid |-> TRUE]

BadForm == [MovedForm EXCEPT !.valid = FALSE]

Forms == {OpenForm, MovedForm, BadForm}

Of(slug, form) == [slug |-> slug, form |-> form]

Payloads == {<<Of(a, MovedForm), Of(b, OpenForm)>>, <<Of(a, MovedForm), Of(b, BadForm)>>}

Symmetry == Permutations({k1, k2, k3}) \cup Permutations({d1, d2, d3}) \cup Permutations({r1, r2})

=============================================================================
