--------------------------- MODULE MCManagement ---------------------------
(***************************************************************************)
(* Instances of Management for TLC: one client, singletons whose typed     *)
(* field has two values, and a bootstrap file that an operator may edit.   *)
(***************************************************************************)
EXTENDS Management, TLC

CONSTANTS c1, a1, a2

Plain == [knob |-> 0, rest |-> 1]
MCBoot == [clients |-> <<>>, single |-> [s \in Singletons |-> Plain], listen |-> a1]
AddClient == [op |-> "add", kind |-> "client", id |-> c1, value |-> [id |-> c1, uris |-> 1]]
RemoveClient == [op |-> "remove", kind |-> "client", id |-> c1, value |-> [id |-> c1, uris |-> 1]]
UpdateClient == [op |-> "update", kind |-> "client", id |-> c1, value |-> [id |-> c1, uris |-> 2]]
ClearAuth == [op |-> "remove", kind |-> "auth", value |-> Plain]
Rebind == [op |-> "update", kind |-> "listeners", value |-> a2]

WithClient == [MCBoot EXCEPT !.clients = <<[id |-> c1, uris |-> 1]>>]
Rebound == [MCBoot EXCEPT !.listen = a2]

MCIDs == {c1}
MCAddresses == {a1, a2}
\* One change and its inverse, a list whose second operation fails, a change
\* of two singletons, and one that needs a restart.
MCChanges == {<<AddClient>>, <<RemoveClient>>, <<RemoveClient, UpdateClient>>,
              <<ClearAuth>>, <<Rebind>>}
OneChange == {<<AddClient>>}
Symmetry == Permutations(Keys)
MCEdits == {WithClient, Rebound}
=============================================================================
