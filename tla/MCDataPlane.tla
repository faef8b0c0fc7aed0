---------------------------- MODULE MCDataPlane ----------------------------
(***************************************************************************)
(* Instances of DataPlane for TLC.  Two users, one registration and two    *)
(* configuration documents: the bootstrap, and one that disables one user, *)
(* enables the other and requires MFA.  Applying the bootstrap again is a  *)
(* change of nothing that is security-sensitive.                           *)
(***************************************************************************)
EXTENDS DataPlane, TLC

CONSTANTS u1, u2, c1

MCUsers == {u1, u2}
MCClients == {c1}

Document1 == [users |-> {u1}, clients |-> {c1}, preConsent |-> {c1},
              mode |-> "never", protocols |-> Protocols, roster |-> 0, aux |-> 0]
Document2 == [Document1 EXCEPT !.users = {u2}, !.mode = "always"]

MCDocs == {Document1, Document2}

\* Bound: one row runs out, or else consent is forced for a while.
FewLapses == Cardinality(expired) <= IF forceConsent THEN 0 ELSE 1

Symmetry == Permutations(Requests)
=============================================================================
