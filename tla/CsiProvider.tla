---------------------------- MODULE CsiProvider ----------------------------
(***************************************************************************)
(* The secrets-store CSI provider: Provider.Mount (src/unnamed/part_007)   *)
(* and the SecretsFetcher with its TTL cache (src/internal/csi/secrets.go  *)
(* lines 1-273).                                                           *)
(*                                                                         *)
(* Mount calls are gRPC handlers running concurrently; the only state they *)
(* share is the secrets cache (guarded by its RWMutex, so get and set are  *)
(* atomic) and OpenBao.  A Mount is a sequence of steps: parse, log in,    *)
(* then for each object a cache lookup or an OpenBao read followed by a    *)
(* cache set, then the response.  Time advances in ticks; a cache entry    *)
(* records its age, and time.Now().After(expiresAt) is age > TTL.          *)
(***************************************************************************)
EXTENDS Naturals, Sequences, FiniteSets

CONSTANTS
  Requests,       \* concurrent Mount calls (one per pod volume)
  Roles,          \* OpenBao roles named by roleName
  Objects,        \* secret objects: records [name, path]
  ObjectLists,    \* the objects lists a SecretProviderClass may give
  Methods,        \* authMethod values a SecretProviderClass may give
  CanRead(_, _),  \* CanRead(a, path): the policy of role or token a allows the read
  Accepts(_, _),  \* Accepts(role, jwt): OpenBao's auth/kubernetes role admits the JWT
  PodTokens,      \* the driver passes csi.storage.k8s.io/serviceAccount.tokens
  EnvToken,       \* OPENBAO_TOKEN or VAULT_TOKEN is set in the provider's environment
  DefaultAddress, \* config.OpenBao.Address is set
  ProviderToken,  \* the provider's own OpenBao token (authMethod "token")
  NoRole,         \* roleName missing or attributes malformed
  None,
  TTL,            \* cacheTTL, in ticks
  MaxVersion,     \* bound on KV versions of a path
  MaxFailures     \* bound on failed logins and OpenBao calls

Paths == {o.path : o \in Objects}
ASSUME /\ TTL \in Nat /\ MaxVersion \in Nat /\ MaxFailures \in Nat
       /\ ObjectLists \subseteq Seq(Objects)

(* Mount parameters after attribute parsing.  Attributes that are not      *)
(* JSON, objects that are neither YAML nor JSON, and a missing roleName    *)
(* take the same path (InvalidArgument before any call), so all appear as *)
(* role NoRole; an empty objects list is its own case.  roleName and      *)
(* authMethod fall back to the CSI Config's DefaultRole and                *)
(* DefaultAuthMethod ("kubernetes" unless configured), and authMountPath   *)
(* to "kubernetes".                                                        *)
Params == [role : Roles \cup {NoRole}, method : Methods, objects : ObjectLists]

Codes == {"None", "InvalidArgument", "PermissionDenied", "Internal"}
File == [obj : Objects, version : 1..MaxVersion]

VARIABLES
  kv,         \* kv[path]: current KV version at path; 0 when there is none
  cache,      \* cache[obj]: [version, age] or None (key path:key:objectName)
  st,         \* st[q]: "Idle" | "Parsed" | "Fetching" | "Storing" | "Done"
  par,        \* par[q]: the Mount's parameters
  i,          \* i[q]: index of the object being fetched
  pending,    \* pending[q]: version read from OpenBao, not yet cached
  files,      \* files[q]: FetchedSecrets so far
  errs,       \* errs[q]: objects whose fetch failed
  resp,       \* resp[q]: the last MountResponse [code, files]
  failures

vars == <<kv, cache, st, par, i, pending, files, errs, resp, failures>>

Entry == [version : 1..MaxVersion, age : 0..TTL + 1]

TypeOK ==
  /\ kv \in [Paths -> 0..MaxVersion]
  /\ cache \in [Objects -> Entry \cup {None}]
  /\ st \in [Requests -> {"Idle", "Parsed", "Fetching", "Storing", "Done"}]
  /\ par \in [Requests -> Params \cup {None}]
  /\ i \in [Requests -> Nat]
  /\ pending \in [Requests -> 1..MaxVersion \cup {None}]
  /\ files \in [Requests -> Seq(File)]
  /\ errs \in [Requests -> SUBSET Objects]
  /\ resp \in [Requests -> [code : Codes, files : Seq(File)] \cup {None}]
  /\ failures \in 0..MaxFailures

Init ==
  /\ kv \in [Paths -> 0..1]
  /\ cache = [o \in Objects |-> None]
  /\ st = [q \in Requests |-> "Idle"]
  /\ par = [q \in Requests |-> None]
  /\ i = [q \in Requests |-> 1]
  /\ pending = [q \in Requests |-> None]
  /\ files = [q \in Requests |-> <<>>]
  /\ errs = [q \in Requests |-> {}]
  /\ resp = [q \in Requests |-> None]
  /\ failures = 0

CanFail == failures < MaxFailures

(* The object the request is fetching. *)
Current(q) == par[q].objects[i[q]]

(* Mount: unmarshal the attributes and parseMountParams.  Malformed        *)
(* attributes, a missing roleName or an empty objects list answer          *)
(* InvalidArgument.                                                        *)
MountParse(q) ==
  /\ st[q] = "Idle"
  /\ \E prm \in Params :
       /\ IF prm.role = NoRole \/ prm.objects = <<>>
            THEN /\ par' = [par EXCEPT ![q] = None]
                 /\ resp' = [resp EXCEPT ![q] = [code |-> "InvalidArgument", files |-> <<>>]]
                 /\ st' = [st EXCEPT ![q] = "Done"]
            ELSE /\ par' = [par EXCEPT ![q] = prm]
                 /\ resp' = [resp EXCEPT ![q] = None]
                 /\ st' = [st EXCEPT ![q] = "Parsed"]
  /\ i' = [i EXCEPT ![q] = 1]
  /\ files' = [files EXCEPT ![q] = <<>>]
  /\ errs' = [errs EXCEPT ![q] = {}]
  /\ UNCHANGED <<kv, cache, pending, failures>>

(* authenticate: the JWT is the driver's serviceAccount.tokens value when *)
(* the mount carries one, otherwise the provider's own service-account     *)
(* token file (authenticateKubernetes reads the same file again when it is *)
(* empty).  The file is always there in the provider's pod.                *)
Jwt == IF PodTokens THEN "podTokens" ELSE "providerSA"

(* AuthenticatedClient.authenticate: kubernetes and jwt post {role, jwt}   *)
(* to auth/<authMountPath>/login, which parseMountParams has already set   *)
(* to "kubernetes", so authenticateJWT's "jwt" default never applies;      *)
(* token takes the provider's environment token without a call; any other  *)
(* method is unsupported.                                                   *)
JwtMethods == {"kubernetes", "jwt"}
Contacts(prm) == DefaultAddress /\ prm.method \in JwtMethods
SignsIn(prm) ==
  \/ prm.method \in JwtMethods /\ Accepts(prm.role, Jwt)
  \/ prm.method = "token" /\ EnvToken

(* ReadSecret and WriteSecret run RefreshToken first, which renews the     *)
(* token or logs in again with the same configuration (an error is only    *)
(* logged), so every read of the Mount carries the authority of the login: *)
(* the role's policies, or the provider's own token.                        *)
Authority(prm) == IF prm.method = "token" THEN ProviderToken ELSE prm.role

(* NewAuthenticatedClient: a client of its own for this Mount.  An empty   *)
(* address, a rejected or impossible login, or a transport error on the    *)
(* login call fails it.                                                     *)
NewAuthenticatedClient(q) ==
  LET Denied == /\ resp' = [resp EXCEPT ![q] = [code |-> "PermissionDenied", files |-> <<>>]]
                /\ st' = [st EXCEPT ![q] = "Done"]
  IN
  \/ /\ DefaultAddress /\ SignsIn(par[q])
     /\ st' = [st EXCEPT ![q] = "Fetching"]
     /\ UNCHANGED <<resp, failures>>
  \/ /\ ~(DefaultAddress /\ SignsIn(par[q]))
     /\ Denied /\ UNCHANGED failures
  \/ /\ Contacts(par[q]) /\ CanFail /\ failures' = failures + 1
     /\ Denied

(* Provider.authenticate, then NewAuthenticatedClient; an error answers    *)
(* PermissionDenied.  Only a kubernetes or jwt login contacts OpenBao.     *)
Login(q) ==
  /\ st[q] = "Parsed"
  /\ NewAuthenticatedClient(q)
  /\ UNCHANGED <<kv, cache, par, i, pending, files, errs>>

(* Mutant: the expiry check is missing. *)
CacheHitNoExpiry(o) == cache[o] # None
(* secretsCache.get: a miss, or an entry past expiresAt, is nil. *)
CacheHit(o) == cache[o] # None /\ cache[o].age <= TTL

(* Mutant: a nil response (no secret at the path) is not checked for. *)
ReadableNoNilCheck(q, o) == CanRead(Authority(par[q]), o.path)
(* readFromOpenBao's read succeeds: the Mount's token may read the path and *)
(* a secret is there (resp == nil || resp.Data == nil is an error).        *)
Readable(q, o) == CanRead(Authority(par[q]), o.path) /\ kv[o.path] > 0

(* fetchSecret: a cache hit is returned as is; on a miss readFromOpenBao   *)
(* reads the path with the request's token.  A denied read, a missing      *)
(* secret or a transport error is recorded and FetchSecrets moves on.      *)
Lookup(q) ==
  /\ st[q] = "Fetching" /\ i[q] <= Len(par[q].objects)
  /\ LET o == Current(q) IN
       \/ /\ CacheHit(o)
          /\ files' = [files EXCEPT ![q] = Append(@, [obj |-> o, version |-> cache[o].version])]
          /\ i' = [i EXCEPT ![q] = @ + 1]
          /\ UNCHANGED <<st, pending, errs, failures>>
       \/ /\ ~CacheHit(o) /\ Readable(q, o)
          /\ pending' = [pending EXCEPT ![q] = kv[o.path]]
          /\ st' = [st EXCEPT ![q] = "Storing"]
          /\ UNCHANGED <<files, i, errs, failures>>
       \/ /\ ~CacheHit(o)
          /\ \/ ~Readable(q, o) /\ UNCHANGED failures
             \/ CanFail /\ failures' = failures + 1
          /\ errs' = [errs EXCEPT ![q] = @ \cup {o}]
          /\ i' = [i EXCEPT ![q] = @ + 1]
          /\ UNCHANGED <<st, pending, files>>
  /\ UNCHANGED <<kv, cache, par, resp>>

(* fetchSecret after the read: secretsCache.set with expiresAt = now+TTL.  *)
Store(q) ==
  /\ st[q] = "Storing"
  /\ LET o == Current(q) IN
       /\ cache' = [cache EXCEPT ![o] = [version |-> pending[q], age |-> 0]]
       /\ files' = [files EXCEPT ![q] = Append(@, [obj |-> o, version |-> pending[q]])]
  /\ i' = [i EXCEPT ![q] = @ + 1]
  /\ pending' = [pending EXCEPT ![q] = None]
  /\ st' = [st EXCEPT ![q] = "Fetching"]
  /\ UNCHANGED <<kv, par, errs, resp, failures>>

(* Mount after FetchSecrets: any fetch error answers Internal with no      *)
(* files; otherwise one file per fetched object.                           *)
Respond(q) ==
  /\ st[q] = "Fetching" /\ i[q] > Len(par[q].objects)
  /\ resp' = [resp EXCEPT ![q] = IF errs[q] # {} THEN [code |-> "Internal", files |-> <<>>]
                                                ELSE [code |-> "None", files |-> files[q]]]
  /\ st' = [st EXCEPT ![q] = "Done"]
  /\ files' = [files EXCEPT ![q] = <<>>]
  /\ errs' = [errs EXCEPT ![q] = {}]
  /\ i' = [i EXCEPT ![q] = 1]
  /\ UNCHANGED <<kv, cache, par, pending, failures>>

(* The CSI driver mounts again (rotation poll or a new pod). *)
Remount(q) ==
  /\ st[q] = "Done"
  /\ st' = [st EXCEPT ![q] = "Idle"]
  /\ UNCHANGED <<kv, cache, par, i, pending, files, errs, resp, failures>>

(* Time passes: every cache entry ages, up to "expired". *)
Tick ==
  /\ \E o \in Objects : cache[o] # None /\ cache[o].age <= TTL
  /\ cache' = [o \in Objects |->
                 IF cache[o] = None \/ cache[o].age > TTL THEN cache[o]
                 ELSE [cache[o] EXCEPT !.age = @ + 1]]
  /\ UNCHANGED <<kv, st, par, i, pending, files, errs, resp, failures>>

(* A new version is written to a KV path in OpenBao. *)
BackendWrite(pth) ==
  /\ kv[pth] < MaxVersion
  /\ kv' = [kv EXCEPT ![pth] = @ + 1]
  /\ UNCHANGED <<cache, st, par, i, pending, files, errs, resp, failures>>

Handler(q) == MountParse(q) \/ Login(q) \/ Lookup(q) \/ Store(q) \/ Respond(q)

Next ==
  \/ \E q \in Requests : Handler(q) \/ Remount(q)
  \/ Tick
  \/ \E pth \in Paths : BackendWrite(pth)

(* Handlers run to completion, the clock advances, and the CSI driver      *)
(* keeps remounting (secret rotation); OpenBao writers are not fair.       *)
Fairness ==
  /\ \A q \in Requests : WF_vars(Handler(q)) /\ WF_vars(Remount(q))
  /\ WF_vars(Tick)

Spec == Init /\ [][Next]_vars /\ Fairness

-----------------------------------------------------------------------------
(* Properties *)

(* Cache expiry bounds staleness: once OpenBao stops changing, every       *)
(* successful Mount serves the current version of every object.            *)
ServesCurrent ==
  <>[](\A q \in Requests :
         resp[q] # None /\ resp[q].code = "None"
           => \A k \in DOMAIN resp[q].files :
                resp[q].files[k].version = kv[resp[q].files[k].obj.path])

(* Each Mount runs with the pod's own identity: a successful Mount only    *)
(* returns secrets its role may read.                                      *)
RoleIsolation ==
  \A q \in Requests :
    resp[q] # None /\ resp[q].code = "None"
      => \A k \in DOMAIN resp[q].files : CanRead(par[q].role, resp[q].files[k].obj.path)

=============================================================================
