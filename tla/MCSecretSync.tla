---------------------------- MODULE MCSecretSync ----------------------------
(* Model-checking instances of SecretSync: two BaoSecrets, each with its   *)
(* own target Secret, and two OpenBao values.                              *)
EXTENDS SecretSync

CONSTANTS r1, r2, t1, t2, v1, v2

MCResources == {r1, r2}
OneResource == {r1}
MCTargets == {t1, t2}
MCValues == {v1, v2}
MCTargetOf(r) == IF r = r1 THEN t1 ELSE t2

(* Targets in the BaoSecret's namespace, default or Owner policy. *)
OwnedSpecs(r) ==
  [target : {MCTargetOf(r)}, ns : {"same"}, policy : {"", "Owner"}, suspend : BOOLEAN]

(* The user may switch an Owner BaoSecret to the Orphan policy. *)
OrphanSpecs(r) ==
  [target : {MCTargetOf(r)}, ns : {"same"}, policy : {"Owner", "Orphan"}, suspend : {FALSE}]

(* Both BaoSecrets write the same Secret, each with Owner or Orphan. *)
SharedSpecs(r) ==
  [target : {t1}, ns : {"same"}, policy : {"Owner", "Orphan"}, suspend : {FALSE}]

(* The target lives in another namespace. *)
CrossNamespaceSpecs(r) ==
  [target : {MCTargetOf(r)}, ns : {"other"}, policy : {"Owner"}, suspend : {FALSE}]
=============================================================================
