----------------------------- MODULE KmsPlugin -----------------------------
(***************************************************************************)
(* The KMS v2 plugin (src/unnamed/part_006, src/internal/kms/transit.go,   *)
(* src/internal/openbao/client.go TransitGetKeyInfo).                      *)
(*                                                                         *)
(* A Server holds keyID and healthy under one RWMutex.  Status, Encrypt   *)
(* and Decrypt only read them under the read lock; the health-check loop  *)
(* fetches key metadata without the lock and applies it under the write   *)
(* lock.  OpenBao rotates the key and goes up and down out of band.       *)
(*                                                                         *)
(* A keyID "name:v<n>" is represented by n: the key name is fixed and      *)
(* Sprintf is injective in n.                                              *)
(***************************************************************************)
EXTENDS Naturals, FiniteSets

CONSTANTS
  JsonNumber,   \* TRUE: the api client decodes numbers as json.Number
  None,
  MaxVersion,   \* bound on backend key rotations
  MaxOutages    \* bound on the backend becoming unreachable

VARIABLES
  create,       \* config.CreateKeyIfNotExists
  exists,       \* the transit key exists in OpenBao
  latest,       \* its latest_version in OpenBao
  up,           \* OpenBao answers requests
  outages,
  phase,        \* "Init", "Serving" or "Exited" (NewServer failed)
  keyID,        \* Server.keyID, as the version it names
  healthy,      \* Server.healthy
  hpc,          \* health check: "Idle" or "Fetched"
  fetched,      \* the GetKeyInfo result read before taking the lock
  authorized    \* OpenBao accepts the token the plugin's client sends

vars == <<create, exists, latest, up, outages, phase, keyID, healthy,
          hpc, fetched, authorized>>

Versions == 0..MaxVersion

TypeOK ==
  /\ create \in BOOLEAN /\ exists \in BOOLEAN /\ up \in BOOLEAN
  /\ latest \in Versions /\ outages \in 0..MaxOutages
  /\ phase \in {"Init", "Serving", "Exited"}
  /\ keyID \in Versions \cup {None} /\ healthy \in BOOLEAN
  /\ phase = "Serving" => keyID \in Versions
  /\ hpc \in {"Idle", "Fetched"}
  /\ fetched \in Versions \cup {None}
  /\ authorized \in BOOLEAN

(* On its own the plugin's client holds a static token, which OpenBao     *)
(* accepts for good or rejects for good (revoked, mistyped); KmsService   *)
(* composes the plugin with the real session.                              *)
Init ==
  /\ create \in BOOLEAN
  /\ exists \in BOOLEAN
  /\ latest = IF exists THEN 1 ELSE 0
  /\ up \in BOOLEAN
  /\ outages = 0
  /\ phase = "Init"
  /\ keyID = None
  /\ healthy = FALSE
  /\ hpc = "Idle"
  /\ fetched = None
  /\ authorized \in BOOLEAN

(* TransitGetKeyInfo: `secret.Data["latest_version"].(float64)`.  When    *)
(* the client decodes JSON with UseNumber the assertion fails, and         *)
(* LatestVersion keeps its zero value.                                     *)
LatestVersion(v) == IF JsonNumber THEN 0 ELSE v

(* GetKeyInfo succeeds when OpenBao answers, accepts the client's token   *)
(* and the key exists.                                                     *)
KeyInfoOk == up /\ authorized /\ exists

(* TransitCreateKey: a write to transit/keys/<name> with the key type.   *)
(* OpenBao creates the key at version 1; a key that already exists is     *)
(* left as it is, and ok says whether the write got through.              *)
CreateKey(ok) ==
  /\ exists' = (exists \/ ok)
  /\ latest' = IF exists THEN latest ELSE IF ok THEN 1 ELSE 0

(* NewServer -> initialize: GetKeyInfo; on any error, CreateKey if        *)
(* allowed and GetKeyInfo again; then keyID and healthy under the lock.   *)
(* Any other outcome makes NewServer fail and the process exit.  The      *)
(* second and third calls may fail independently of the first (OpenBao    *)
(* may recover or fail in between); CreateKey of an existing transit key  *)
(* succeeds and leaves it unchanged.                                      *)
Initialize ==
  /\ phase = "Init"
  /\ \/ /\ KeyInfoOk
        /\ phase' = "Serving"
        /\ keyID' = LatestVersion(latest)
        /\ healthy' = TRUE
        /\ UNCHANGED <<exists, latest>>
     \/ /\ ~KeyInfoOk /\ ~create
        /\ phase' = "Exited"
        /\ UNCHANGED <<exists, latest, keyID, healthy>>
     \/ /\ ~KeyInfoOk /\ create
        /\ \E createOk, reGetOk \in BOOLEAN :
             /\ CreateKey(createOk)
             /\ IF createOk /\ reGetOk
                  THEN /\ phase' = "Serving"
                       /\ keyID' = LatestVersion(latest')
                       /\ healthy' = TRUE
                  ELSE /\ phase' = "Exited"
                       /\ UNCHANGED <<keyID, healthy>>
  /\ UNCHANGED <<authorized, create, up, outages, hpc, fetched>>

(* performHealthCheck, before the lock: GetKeyInfo.                        *)
HealthFetch ==
  /\ phase = "Serving" /\ hpc = "Idle"
  /\ hpc' = "Fetched"
  /\ fetched' = IF KeyInfoOk THEN LatestVersion(latest) ELSE None
  /\ UNCHANGED <<authorized, create, exists, latest, up, outages, phase, keyID, healthy>>

(* A bug where healthy is set only when the keyID changed.                 *)
HealthApplyOnlyOnChange ==
  /\ hpc = "Fetched"
  /\ IF fetched = None
       THEN healthy' = FALSE /\ UNCHANGED keyID
       ELSE /\ keyID' = fetched
            /\ healthy' = IF fetched # keyID THEN TRUE ELSE healthy
  /\ hpc' = "Idle" /\ fetched' = None
  /\ UNCHANGED <<authorized, create, exists, latest, up, outages, phase>>

(* performHealthCheck, under the write lock: on error mark unhealthy and  *)
(* keep keyID; otherwise take the new keyID if it differs, mark healthy.  *)
HealthApply ==
  /\ hpc = "Fetched"
  /\ IF fetched = None
       THEN healthy' = FALSE /\ UNCHANGED keyID
       ELSE keyID' = fetched /\ healthy' = TRUE
  /\ hpc' = "Idle" /\ fetched' = None
  /\ UNCHANGED <<authorized, create, exists, latest, up, outages, phase>>

(* OpenBao rotates the key (transit/keys/<name>/rotate).                  *)
Rotate ==
  /\ exists /\ latest < MaxVersion
  /\ latest' = latest + 1
  /\ UNCHANGED <<authorized, create, exists, up, outages, phase, keyID, healthy,
                 hpc, fetched>>

(* OpenBao becomes unreachable, or comes back.                            *)
GoDown ==
  /\ up /\ outages < MaxOutages
  /\ up' = FALSE /\ outages' = outages + 1
  /\ UNCHANGED <<authorized, create, exists, latest, phase, keyID, healthy,
                 hpc, fetched>>

ComeUp ==
  /\ ~up
  /\ up' = TRUE
  /\ UNCHANGED <<authorized, create, exists, latest, outages, phase, keyID, healthy,
                 hpc, fetched>>

Next ==
  \/ Initialize
  \/ HealthFetch \/ HealthApply
  \/ Rotate \/ GoDown \/ ComeUp

(* Start-up and the health-check ticker run until they finish; an        *)
(* unreachable OpenBao comes back (outages are bounded).  Rotations are   *)
(* not fair.                                                              *)
Fairness ==
  /\ WF_vars(Initialize)
  /\ WF_vars(HealthFetch) /\ WF_vars(HealthApply)
  /\ WF_vars(ComeUp)

Spec == Init /\ [][Next]_vars /\ Fairness

-----------------------------------------------------------------------------
(* Properties *)

(* The health flag reported by Status settles on the truth: once OpenBao  *)
(* stays up or down, the polling loop eventually reports it so.           *)
HealthSettles ==
  (phase = "Serving") ~> [](healthy = KeyInfoOk)

(* Rotation detection (spec 5): after OpenBao rotates the key and stops,  *)
(* the keyID reported by Status and Encrypt names the latest version.     *)
RotationDetected ==
  (phase = "Serving") ~> <>[](keyID = latest)

=============================================================================
