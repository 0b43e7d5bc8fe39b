---------------------------- MODULE MCSecretPath ----------------------------
(* Paths of up to four segments over the KV mounts, "data", a database     *)
(* engine mount and one secret name.                                       *)
EXTENDS SecretPath

MCEngineMounts == {"database"}
MCNames == {"app"}
=============================================================================
