---------------------------- MODULE MCKmsService ----------------------------
(* Model-checking instances of KmsService: the health-check loop and one   *)
(* Encrypt handler sharing the plugin's OpenBao client.                    *)
EXTENDS KmsService

CONSTANTS c1, c2

MCCallers == {c1, c2}

(* The plugin's OpenBao configurations that behave differently: a static *)
(* token, Kubernetes auth, both (the token wins), no address, and no       *)
(* authentication method.                                                  *)
MCConfigs ==
  { [address |-> TRUE,  token |-> TRUE,  k8s |-> FALSE, env |-> FALSE],
    [address |-> TRUE,  token |-> FALSE, k8s |-> TRUE,  env |-> FALSE],
    [address |-> TRUE,  token |-> TRUE,  k8s |-> TRUE,  env |-> FALSE],
    [address |-> FALSE, token |-> FALSE, k8s |-> TRUE,  env |-> FALSE],
    [address |-> TRUE,  token |-> FALSE, k8s |-> FALSE, env |-> FALSE] }
=============================================================================
