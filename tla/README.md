# TLA+ models of kubebao

kubebao connects Kubernetes to OpenBao. These modules model its stateful parts
for the TLC model checker. Every definition is translated from the Go source.
`PROJECT.json` maps each definition to the lines it models.

## The system

| Part | Source | What it does |
|---|---|---|
| BaoSecret reconciler | `src/internal/csi/secrets.go` 782-1182 (bundled `baosecret_controller.go`) | Copies an OpenBao KV secret into a Kubernetes Secret. Handles the finalizer, suspend, RequeueAfter refresh and ownership-based cleanup. |
| BaoPolicy reconciler | `secrets.go` 560-781, `src/unnamed/part_010` (ToHCL) | Renders an ACL policy, hashes it, and writes it to `sys/policies/acl/<name>` unless the hash is unchanged. |
| CSI provider | `src/unnamed/part_007` (Mount), `secrets.go` 1-273 (fetcher and cache), `src/internal/csi/auth.go` | Validates mount attributes, logs in for this Mount (kubernetes/jwt with a service-account token, or the provider's token), fetches every object through a TTL cache and returns files. |
| KMS v2 plugin | `src/unnamed/part_006`, `src/internal/kms/transit.go` | Encrypts and decrypts through Transit. A health-check loop maintains `keyID` and the healthy flag. |
| OpenBao client | `src/internal/openbao/client.go` | Authentication, token refresh and renewal, and Transit/KV calls. One long-lived client is shared by the KMS plugin's goroutines. |
| Config, mains, scripts | `part_001`, `part_002`, `part_008`, `csi/config.go`, scripts, Dockerfile | Wiring and parsing only. Not modelled. |

How the parts interact:
- The two reconcilers are driven by controller-runtime:
  - One reconcile per key runs at a time; distinct keys run in parallel.
  - The workqueue deduplicates keys.
  - An error requeues the key with rate limiting, and `RequeueAfter` arms a timer.
  - The BaoSecret controller watches `For(BaoSecret)` and `Owns(Secret)`.
- The API server uses optimistic concurrency: an Update from a stale copy fails with a conflict.
- The garbage collector deletes a Secret whose controller owner is gone.
- OpenBao is shared by everything and changes out of band.

## Modules

### SecretSync (BaoSecret reconciler)

`SecretSync.tla` has one worker per BaoSecret key. `pc[r]` marks where the reconcile
is between its API-server and OpenBao calls: Idle, Got, Finalized, Read,
Written, Failed. Users, OpenBao writers and the garbage collector act between any
two of these calls.

| Action | Code |
|---|---|
| `Get` | `Reconcile` 846-860: the Get, a missing object, a transient error |
| `HandleDeletion` | `handleDeletion` 1031-1055: Orphan only logs; the finalizer is removed |
| `EnsureFinalizer` | 862-868: AddFinalizer and Update |
| `SuspendSync` | 870-879: Ready=False/SyncSuspended, no requeue |
| `ReadSecret` | `syncSecret` 916-957: KVRead, key extraction, template |
| `WriteTarget` | `syncSecret` 959-1028: CreateOrUpdate with labels, data and the conditional SetControllerReference |
| `ReportSuccess` / `ReportFailure` | 881-912: status Update, then RequeueAfter(refresh) or 30s |
| `TimerFires`, `Touched`, `Woken` | The workqueue and the watches of `SetupWithManager` |
| `SetCondition` | `setCondition` 1145-1175: the condition of that type is updated in place or appended. Its LastTransitionTime moves only with its status, so it never changes the stored object on its own. |
| `Restart` | The operator process restarts (eviction, OOM, rollout), bounded by `MaxRestarts`. The workqueue, the RequeueAfter timers and the reconcile in flight are lost; the API server, OpenBao and the GC keep their state. On start, the informer of `SetupWithManager` 1177-1182 lists every stored BaoSecret and enqueues it. |
| `GarbageCollect` | The cascade that `handleDeletion` relies on |

Data is abstracted:
- An OpenBao secret is one of a few model values.
- `calculateVersion` is injective.
- A spec is its target name, namespace ("same"/"other"), creation policy and suspend flag.

`resourceVersion` is abstracted too:
- `stale[r]` records that someone else wrote r since the reconcile's Get.
- Only the fact "changed since the Get" decides whether an Update conflicts.
- A counter would make the state space infinite, because every status write bumps it.

Each status write with `Success` may or may not change the stored object. That
depends on whether the wall clock moved past a second since the last
`LastSyncTime`, and the model chooses it nondeterministically.

Fairness:
- Every worker step, timer and the garbage collector are weakly fair. controller-runtime's workqueue and timers and the Kubernetes GC justify this.
- Users, OpenBao writers and restarts are not fair.
- Failures are bounded by `MaxFailures`, so retries eventually succeed.
- `CHECK_DEADLOCK FALSE`: an idle controller with nothing queued is a legitimate end state.

Runs and bounds:

| Run | Expect | What it shows |
|---|---|---|
| `secretsync` (`SecretSync.cfg`) | pass | One BaoSecret with policy Owner or "". Up to 3 user edits, 2 OpenBao writes, 2 failed calls and 1 operator restart. `FinalizerGuardsTarget`: a Secret written for an existing BaoSecret implies the finalizer is present. `Converges`: once the environment stops, the target holds the OpenBao data and status is Ready with the matching version. `TargetsCollected`: a deleted BaoSecret's target is eventually removed. |
| `secretsync_shared` | pass | Two BaoSecrets writing the same Secret with Owner or Orphan. `RefusalReported`: a BaoSecret that asks to own a Secret the other existing BaoSecret controls is refused by `SetControllerReference` on every pass (the AlreadyOwned path). Once users and OpenBao stop, its status is Ready=False for good, through status conflicts and 30s retries, and no Ready=True from an earlier sync under the Orphan policy is left standing. |
| `secretsync_orphan` | violation | `OrphanTargetsKept` fails. After Owner→Orphan the ownerReference stays and the GC deletes the Secret. |

Why these bounds are enough:
- One BaoSecret suffices for `secretsync`. With distinct targets, BaoSecrets share no state: only the shared-target run couples them, and it uses two.
- Three user edits allow create, edit and delete, or a suspend/unsuspend pair.
- Two OpenBao writes let the secret disappear and return.
- Two failures put an error in two different steps of one reconcile.
- One restart can land between any two steps, for example between the target write and the status Update. A second restart only repeats the relist. The other SecretSync runs set `MaxRestarts = 0`: restarts do not bear on their questions.

### PolicySync (BaoPolicy reconciler)

`PolicySync.tla` has the same per-key worker shell as SecretSync. The steps are `Get`,
`HandleDeletion` (only logs the backend delete, as spec 4.4 accepts),
`EnsureFinalizer`, `RenderPolicy` and `WritePolicy`, then `ReportSuccess` or
`ReportFailure`. Together they cover Reconcile 615-665, syncPolicy 668-712 and
handleDeletion 715-744.

- `RenderPolicy` is ToHCL, the sha256 version, and the gate `Status.PolicyVersion == version`.
- `WritePolicy` is WriteSecret to `sys/policies/acl/<name>`, followed by PolicyVersion in memory.
- `SetCondition` is `setCondition` 746-775 on the Ready condition.
- `Restart` is an operator restart, as in SecretSync. It loses the queue, the 5-minute timer and the reconcile in flight, possibly between the OpenBao write and the status Update. The informer of `SetupWithManager` 777-781 then relists every BaoPolicy. It is bounded by `MaxRestarts` and is not fair.

ToHCL is abstracted to what decides the hash:
- A rule list is a model value with its set of allowedParameters keys.
- A rendering is the rule list together with one order of those keys.
- Go randomises map iteration order, so `ToHCL(rs)` is the set of all orders (`SetToSeqs`).

`bao[p]` is the document OpenBao holds. `DriftPolicy` is an operator editing it
out of band. `written` is a history of the documents reconciles wrote.

| Run | Expect | What it shows |
|---|---|---|
| `policysync` | pass | One BaoPolicy, rule lists rsA (no parameters) and rsB (two keys). 3 edits, 1 drift, 2 failures, 1 restart. `FinalizerBeforeWrite`: OpenBao is written only behind a persisted finalizer. `VersionWasWritten`: PolicyVersion only names documents that were written. `StatusSettles`: once edits stop, status is Ready with a version of the current rules. |
| `policysync_revert` | violation | `BackendConverges` fails. A failed status Update after the write, followed by a revert of the rules, leaves OpenBao with the wrong policy and status Ready. |

### CsiProvider (CSI provider Mount and the secret cache)

`CsiProvider.tla` has one Mount per request `q`. These Mounts share a cache and the
KV store of OpenBao. `st[q]` records the stage of the handler: Idle, Parsed, Fetching,
Storing, Done.

| Action | Code |
|---|---|
| `MountParse` | `part_007` Mount 112-140 and `parseMountParams` 73-98. Decodes the attributes and rejects a missing role or an empty object list with InvalidArgument. |
| `Login`, `NewAuthenticatedClient` | `part_007` `authenticate` 249-280 and `auth.go` 77-245. Builds a client of its own for the Mount. An empty address, a rejected or impossible login, or a transport error on the login call answers PermissionDenied. |
| `Jwt`, `JwtMethods`, `SignsIn`, `Contacts` | How the login goes. The JWT is the driver's `serviceAccount.tokens` value if the mount carries one, else the provider's own service-account token (`part_007` 263-275). kubernetes and jwt post role and JWT to `auth/<authMountPath>/login`; `parseMountParams` has already set that path to `kubernetes` (187-191), so jwt never reaches a `jwt/` mount. token takes the provider's environment token without a call; any other method fails (`auth.go` 131-245). Only the kubernetes and jwt logins contact OpenBao. |
| `Authority` | `auth.go` 248-287. `ReadSecret` runs `RefreshToken` first, which renews or logs in again with the same configuration, so the Mount's reads carry the login's authority: the role, or `ProviderToken` for the token method. |
| `Lookup` | `SecretFetcher.FetchSecret` (`secrets.go` 66-107). Cache lookup (`cache.Get` 247-261, which checks expiry), then KVRead. A nil secret or a transient error is recorded in `errs`. |
| `Store` | `secrets.go` 108-122. `cache.Set` for the fetched version. |
| `Respond` | `part_007` 152-184. With any error, returns Internal and no files; otherwise returns the files. |
| `Remount`, `Tick`, `BackendWrite` | kubelet remounting, time passing, and OpenBao writers. |

Abstractions:
- The cache key is the object's path, as in the code. The role is not part of the key.
- `CanRead(a, path)` stands for the OpenBao policy of a role, or of the provider's own token.
- The login environment is constant in a run: `PodTokens` (the driver passes service-account tokens), `EnvToken` (the provider has `OPENBAO_TOKEN` or `VAULT_TOKEN`), `DefaultAddress` (the CSI config names OpenBao). `Accepts(role, jwt)` stands for OpenBao's Kubernetes auth roles. In both runs `PodTokens` is FALSE and both roles bind the provider's service account. The pod tokens value is a JSON map that no role would accept, so with pod tokens every login fails.
- `roleName` and `authMethod` fall back to `DefaultRole` and `DefaultAuthMethod` of the CSI `Config` (`config.go`). `Params` is the parsed result, so the defaults are folded into it. The `openbaoAddr`, `authMountPath` and `namespace` attributes are not modelled.
- On a parse error the code's `params` is nil, so `par[q]` becomes None.
- Time is kept as each entry's age, capped at `TTL+1`. An entry is expired once its age exceeds TTL, so `Tick` can run forever within a finite state space.
- `NoRole` stands for every malformed attribute set.

Fairness: each handler step, `Remount` and `Tick` are weakly fair. `BackendWrite` is bounded by `MaxVersion`.

| Run | Expect | What it shows |
|---|---|---|
| `csiprovider` | pass | Two requests, two roles, two objects. Role ra and the provider's token read both; rb reads only pb. TTL 1, versions 1..2, 1 failure. The mount parameters (`MCParams`) are every role and objects list with kubernetes auth, rb with the token method, and ra with an unsupported method. 1.27M states, about 2 minutes. `ServesCurrent`: once OpenBao stops changing, every successful Mount serves current versions. |
| `csiprovider_roleleak` | violation | `RoleIsolation` fails. A request with role ra caches `pa`. A request with role rb is then served `pa` from the cache without OpenBao checking rb. Only kubernetes auth is enumerated here. With the token method, `RoleIsolation` fails in five steps without the cache: rb reads `pa` with the provider's token. |

### KmsPlugin (KMS v2 plugin server)

`KmsPlugin.tla` models the Server of `part_006`:
- `keyID` and `healthy` are guarded by one RWMutex. Status, Encrypt and Decrypt only read them under the read lock, so they change no state and are not actions.
- OpenBao rotates the key (`Rotate`) and goes down and up (`GoDown`, `ComeUp`).
- A keyID `name:v<n>` is represented by `n`.
- `authorized` says whether OpenBao accepts the token the plugin's client sends. `KeyInfoOk` requires it. On its own the plugin holds a static token that is accepted or rejected for good; in `KmsService` it is the session's token being live.

| Action | Code |
|---|---|
| `Initialize` | `initialize` 84-115. GetKeyInfo; on any error, CreateKey if allowed, then GetKeyInfo again. Each call may fail; a failure makes NewServer fail and the process exit. |
| `CreateKey` | `TransitCreateKey` (client.go 378-398). A write to `transit/keys/<name>` creates the key at version 1 and leaves an existing key unchanged. |
| `HealthFetch` / `HealthApply` | `performHealthCheck` 254-275. GetKeyInfo without the lock, then the write lock: on error unhealthy with keyID kept, otherwise the new keyID and healthy. |
| `LatestVersion` | `TransitGetKeyInfo`'s `.(float64)` assertion. With `JsonNumber = TRUE`, as the OpenBao api client decodes responses (`secrets.go:179` asserts `json.Number` on the same client), it always yields 0. |

Fairness: the health loop's steps, the start-up and OpenBao coming back are weakly fair. `CHECK_DEADLOCK FALSE`: a failed start-up is a final state.

| Run | Expect | What it shows |
|---|---|---|
| `kmsplugin_rotation` | violation | `RotationDetected` fails: keyID stays `name:v0` through every rotation (spec 5). |

### OpenBaoClient (the OpenBao session: authentication and token refresh)

`OpenBaoClient.tla` models the long-lived `Client` of `openbao/client.go` that the KMS
plugin shares between its gRPC handlers and its health-check loop. Each goroutine
`c` in `Callers` runs operations whose steps are `pc[c]`.

| Action | Code |
|---|---|
| `Start` | `NewClient` 93-160. Rejects a config without address, then `authenticate` (`AuthMethod`, 163-188): the static token, Kubernetes login, or the environment token, in that order; no method is an error. |
| `KubernetesLogin`, `ExpiryAfterLogin` | `authenticateKubernetes` 191-234. OpenBao issues a new token with the role's TTL; `SetToken`; `tokenExpiry` only if the lease is positive. |
| `Check` | `RefreshToken` 244-252. Reads `tokenExpiry` under the read lock; skips if it is zero or more than the threshold away. |
| `Renew`, `RenewWrite` | 256-263. `RenewSelf` extends a live token by its TTL, capped at its max TTL; `tokenExpiry` is written under the write lock in a later step. |
| `Login`, `LoginWrite` | 266-268 and 227-240. A failed renewal falls back to `authenticate`. SetToken and the expiry write are separate steps, and other goroutines run between them. A failed login is returned, logged by the caller, and the call goes on. |
| `Request` | `TransitEncrypt` 272-298, standing for every call that starts with `RefreshToken` (Transit, KV, generic read/write). It sends the current token. |
| `Tick`, `GoDown`, `ComeUp` | Time passing, and OpenBao becoming unreachable and coming back. |

Abstractions:
- **Time.** `now` is a discrete clock bounded by `MaxTime`. One tick is about one call's latency, and `Window` ticks stand for the 5-minute threshold.
- **Call latency.** Ticks may happen while a call is in flight, at most `MaxLatency` per operation. The api client's `Timeout` (30 s by default) is what bounds this in the code. No tick falls between a response and the lock-protected write that uses it: no I/O lies between them.
- **Tokens.** Tokens are numbered in issue order. Token 0 is the static token, which never expires. `exp[k]` and `maxEnd[k]` are OpenBao's view of token k.

Fairness: `Start`, every in-progress goroutine step and `ComeUp` are weakly fair. The health-check loop (`Poller`) starts an operation on every tick of its ticker, so its `Check` is weakly fair too. gRPC callers and the clock are not fair. `CHECK_DEADLOCK FALSE`: a failed `NewClient` ends the process.

The client's properties are checked with the client composed into the KMS plugin, in the `kmsservice` run below: its goroutines are the plugin's callers.

### KmsService (the KMS plugin over its OpenBao session)

`KmsService.tla` composes `KmsPlugin` and `OpenBaoClient` as the plugin process runs them. `NewServer` builds a `TransitClient`, whose `NewClient` is the session, and every Transit call (`GetKeyInfo`, `Encrypt`, `Decrypt`) starts with `RefreshToken`. The two modules are instances (`C`, `K`) and share `up` and `outages`. `authorized` is kept equal to `C!Valid(token)` by every client step, and the plugin reads it in `KeyInfoOk`.

| Action | Code |
|---|---|
| `StartClient`, `ClientFailed` | `NewTransitClient` (`transit.go` 43-57) and `NewServer` 62-66: a failed `NewClient` ends the process. |
| `Initialize` | `NewServer` 68-81: `initialize` once the client is built. |
| `Check`, `Refresh`, `Call` | `Encrypt` / `Decrypt` (`transit.go` 59-84) through `RefreshToken`. The health loop's own `Check` waits for its previous check to finish. |
| `HealthFetch` | `GetKeyInfo` (`transit.go` 87-99): the Poller's request and the plugin's fetch are one step, so the fetch's outcome depends on the token sent at that moment. |
| `HealthApply`, `Rotate`, `GoDown`, `ComeUp` | The components' actions. Outages are one step of both. |
| `Tick` | Time passes while the plugin serves. Start-up takes no tick, and an exited process has no session. |

Fairness is the union of the components' fairness.

| Run | Expect | What it shows |
|---|---|---|
| `kmsservice` | pass | Five client configurations: a static token, Kubernetes auth, both (the token wins), no address, and no method. A role TTL of 0 or 3 ticks with a max TTL of 4, a window of 2, a latency of 1. Two callers (the health loop and an Encrypt handler), one outage, one rotation, 5 ticks, and the real decoding. `TypeOK` includes the keyID being set once serving. `ExpiryNotOptimistic`: the recorded `tokenExpiry` never exceeds OpenBao's expiry of the token actually in use, although concurrent refreshes write it from different tokens. `RequestAuthorized`: a call whose refresh returned nil reaches a reachable OpenBao with a live token, unless that token's max TTL ended while the call was in flight. `SessionEventuallyValid`: a serving plugin's session always regains a live token. `HealthSettles`: the health flag eventually matches whether GetKeyInfo succeeds with the session's token. About 450,000 states in a minute and a half. |

The bounds are enough for the cases that matter:
- A max TTL of 4 with a TTL of 3 makes the second renewal capped.
- A window of 2 with a latency of 1 lets a call start just outside the threshold and finish after a tick.
- Five ticks outlive a token's max TTL, so the expiry-then-re-login path is taken.
- Two goroutines let a renewal of the old token interleave with a login of a new one.

### SecretTemplate (applyTemplate / replaceAll)

`SecretTemplate.tla` runs applyTemplate's loops step by step for one template value.
- **Strings.** A string is a sequence over a small alphabet. `"{"`, a key letter and `"}"` stand for the placeholder `{{ .Data.<key> }}`.
- **Steps.** `Replace` is one changing iteration of replaceAll (the first match of `indexOf`, spliced out). `NextKey` is the iteration with `newS == s` that breaks out of the loop, moving the `range` on to the next key.
- **Key order.** The order is any permutation of the source keys, since Go map iteration is random.
- **Reference.** The reference `Subst` is the literal, one-pass substitution that spec 4.4 describes, defined as a RECURSIVE operator.
- **Bound.** A string that would outgrow `MaxValueLen` stands for a loop that never ends.

| Run | Expect | What it shows |
|---|---|---|
| `secrettemplate` | pass | Every template of up to 5 characters over `{`, `}`, `x`, `a`, `b`. Values of up to two `x`. Every subset of keys and every order. It terminates and agrees with `Subst`. |
| `secrettemplate_selfref` | violation | A value `x{{ .Data.a }}` for field `a` makes replaceAll loop forever. |

### SecretPath (the OpenBao request for one CSI secret object)

`SecretPath.tla` translates the first half of `readFromOpenBao` (`secrets.go` 124-163) into operators. A path is the sequence of its `/`-separated segments, and each segment is a word from a small set. At that granularity the string tests become tests on segments:
- `HasPrefix(path, "secret/")` means the first of at least two segments is `secret`.
- `Contains(path, "/data/")` means some inner segment is `data`.
- `SplitN(path, "/", 2)` splits off the first segment.

| Definition | Code |
|---|---|
| `Objects` | `SecretObject` (`part_007` 84-91): the path, and whether `secretArgs` is non-empty. |
| `NormalizePath`, `HasMountPrefix`, `HasDataSegment` | 124-139: the KV v2 normalisation. |
| `BackendRequest` | 141-163: `WriteSecret` for an object with `secretArgs`, else `ReadSecret`, on the normalised path. |

The reference `SpecPath` is spec 4.3 step 4. A missing mount prefix becomes `secret/data/`. A KV path (`secret/`, `kv/`) gets `data` right after its mount. A path under another engine's mount is that engine's own endpoint. The model has one variable, the object, taken from every object whose path has up to four segments over `secret`, `kv`, `data`, `database` (a dynamic-secrets engine) and `app`.

| Run | Expect | What it shows |
|---|---|---|
| `secretpath` | violation | `RequestsDeclaredPath` fails on the object with path `database/secret`. It is read from `secret/data/database/secret` in the KV engine, not from the database engine. Every dynamic-credentials request under its engine's mount goes to the KV engine the same way. |

## Observations without a run, and what is not modelled

Found while modelling, and recorded as hazards in `PROJECT.json` without a run:
- **Self-triggered reads.** The reconciler's own finalizer and status Updates re-enqueue the BaoSecret (no GenerationChangedPredicate), so it reads OpenBao again with nothing due. SecretSync keeps this re-enqueue (`Touched`).
- **Hash gate and map order.** ToHCL iterates a map, so equal BaoPolicy rules can hash differently and be written again.
- **Drift is not healed.** An out-of-band change to a policy in OpenBao is never healed, because the 5-minute pass is hash-gated on the status alone.
- **Partial mounts.** Mount returns no files when one object fails, while spec 4.3 returns the fetched subset with the error.
- **Cross-namespace targets.** With the Owner policy and a target in another namespace, no ownerReference is set and handleDeletion deletes nothing. With `CrossNamespaceSpecs` (in `MCSecretSync.tla`) as `SpecsOf`, TLC finds `TargetsCollected` violated. The spec does not say how such a target is cleaned up.
- **Renewals under the threshold.** Near a token's max TTL, a renewal returns a lease shorter than the threshold and `RefreshToken` accepts it instead of logging in again. A call in flight when the max TTL ends is refused. `RequestAuthorized` exempts exactly this case.
- **Refresh errors are only logged.** The call then goes to OpenBao with the expired token.
- **Encrypt's keyID read.** Encrypt reads keyID after the Transit call. Once versions decode, a rotation observed in between would label a v1 ciphertext v2.
- **The token method.** Any SecretProviderClass may set `authMethod: token`, and its Mount then reads with the provider's own environment token, whatever `roleName` says. `RoleIsolation` fails with it in five steps (`csiprovider_roleleak` enumerates only kubernetes auth, to show the cache leak).
- **The jwt mount path.** `parseMountParams` presets `authMountPath` to `kubernetes`, so `authMethod: jwt` logs in at `auth/kubernetes/login` unless the attribute is given.
- **The provider's identity.** Without pod tokens in the mount, every Mount logs in with the provider's own service-account token; only `roleName` tells pods apart.
- **Rescanned substitutions.** replaceAll rescans substituted text, so `{{ .Data.{{ .Data.a }} }}` with `a = "a"` renders as `a`.

Not modelled at all:

- **The skew of client time.** The client computes `tokenExpiry` from its own clock at the response, while OpenBao counts from when it served the request. The model serves and responds in one step, so this skew of one request's latency is not represented.
- **CSI key extraction, encodings and the version token** (`extractContent`, `secrets.go` 166-238): data conversions with no state. The cache key leaves out the encoding and `secretArgs`, so two objects that differ only in those share an entry (recorded as a hazard).
- **Configuration loading** (`config.go`, `part_008`): a file or environment is converted into a `Config` once at start, with no state to check. Its results enter the models as constants: `TTL`, the defaults folded into `Params`, `DefaultAddress` and `EnvToken`. No main under `src/` calls the CSI loaders. `LoadConfigFromEnv` skips `setDefaults` and `Validate`, so `KUBEBAO_CSI_CACHE_TTL=0s` yields a cache whose entries expire at once. Its socket default (`/var/run/kubebao/csi.sock`) also differs from `setDefaults`' (`/provider/kubebao.sock`).
- **The mains, generated protobuf code, scripts**: wiring and I/O.
