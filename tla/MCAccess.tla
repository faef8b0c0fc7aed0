------------------------------ MODULE MCAccess ------------------------------
(***************************************************************************)
(* Instances of Access for TLC: one user, at first in as many groups as    *)
(* the cap lets a token list.  Documents that drop the user; lower the cap *)
(* (the token points to the Graph endpoint); drop the user and OIDC; and   *)
(* change vendor and memberships (okta fails, a generic vendor cuts).      *)
(***************************************************************************)
EXTENDS Access, TLC

CONSTANTS u1, c1

MCUsers == {u1}
MCClients == {c1}

Document1 == [users |-> {u1}, clients |-> {c1}, preConsent |-> {c1},
              mode |-> "never", protocols |-> Protocols, roster |-> 0, aux |-> 0]
Document2 == [Document1 EXCEPT !.users = {}]
Document3 == [Document1 EXCEPT !.aux = 1]
Document4 == [Document2 EXCEPT !.protocols = {"saml"}]
Document5 == [Document1 EXCEPT !.roster = 1, !.aux = 1]
Document6 == [Document1 EXCEPT !.roster = 2, !.aux = 1]
MCDocs == {Document1, Document2, Document3, Document4, Document5, Document6}
MCRosters == [i \in 0..2 |->
    [vendor |-> <<"entra", "okta", "generic">>[i + 1],
     groups |-> [u \in MCUsers |-> <<2, 1, 3>>[i + 1]]]]
MCOverages == [i \in {0, 1} |->
    [OktaFailAt |-> 2 - i, GenericCap |-> 2 - i, EntraGraphStub |-> TRUE]]
\* Bound: at most one tunable is on at a time.
FewTunables == Cardinality({k \in 1..4 : tunables[k]}) <= 1
Symmetry == Permutations(Callers)
=============================================================================
