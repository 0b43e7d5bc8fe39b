--------------------------- MODULE MCCsiProvider ---------------------------
(* Model-checking instances of CsiProvider: two concurrent Mounts, two     *)
(* roles and two secret objects at two KV paths.                           *)
EXTENDS CsiProvider

CONSTANTS q1, q2, ra, rb, pa, pb

MCRequests == {q1, q2}
MCRoles == {ra, rb}
ObjA == [name |-> "db-creds", path |-> pa]
ObjB == [name |-> "api-key", path |-> pb]
MCObjects == {ObjA, ObjB}
MCObjectLists == {<<ObjA>>, <<ObjB, ObjA>>}

(* Role ra and the provider's own token may read both paths; role rb     *)
(* only pb.                                                                *)
MCCanRead(a, path) == a \in {ra, ProviderToken} \/ path = pb

(* Both roles bind the provider's service account; the driver's           *)
(* serviceAccount.tokens value is a JSON map, not a JWT, and no role       *)
(* admits it.                                                              *)
MCAccepts(role, jwt) == jwt = "providerSA"

(* A supported method of each kind, and one the provider does not know.   *)
AllMethods == {"kubernetes", "token", "userpass"}
K8sOnly == {"kubernetes"}

(* The mount parameters the run's SecretProviderClasses give: every role  *)
(* and objects list with kubernetes auth, role rb with the token method,   *)
(* and role ra with an unsupported method.                                 *)
MCParams ==
  [role : MCRoles \cup {NoRole}, method : {"kubernetes"}, objects : MCObjectLists]
  \cup {[role |-> rb, method |-> "token", objects |-> <<ObjA>>],
        [role |-> ra, method |-> "userpass", objects |-> <<ObjB, ObjA>>]}
=============================================================================
