---------------------------- MODULE OpenBaoClient ----------------------------
(***************************************************************************)
(* The long-lived OpenBao session of src/internal/openbao/client.go, as    *)
(* used by the KMS plugin: NewClient and its authentication chain, the    *)
(* Kubernetes login, RefreshToken and the API calls that each begin with  *)
(* RefreshToken.  Several goroutines (gRPC handlers, the health-check     *)
(* loop) call into one Client concurrently.  RefreshToken reads           *)
(* tokenExpiry under the read lock, then renews or logs in again and       *)
(* writes tokenExpiry under the write lock; SetToken is not under c.mu.   *)
(*                                                                         *)
(* Time is a discrete clock `now`; a tick is about one API call's latency *)
(* and Window ticks stand for the 5-minute threshold.  OpenBao issues     *)
(* tokens with the role's TTL, renews them up to the role's max TTL, and  *)
(* goes up and down.  Tokens are numbered in issue order; token 0 is a    *)
(* static token (config.Token or OPENBAO_TOKEN/VAULT_TOKEN).              *)
(***************************************************************************)
EXTENDS Naturals, FiniteSets

CONSTANTS
  Callers,      \* goroutines using the client
  Poller,       \* the health-check loop, which calls the client forever
  Configs,      \* the client configurations to start from
  TTLs,         \* the role's token_ttl, in ticks (0: no expiry)
  MaxTTL,       \* the role's token_max_ttl, in ticks
  Window,       \* the refresh threshold (5 minutes), in ticks
  MaxLatency,   \* bound on the ticks one API operation spans
  MaxTime,      \* bound on the clock
  MaxLogins,    \* bound on the tokens OpenBao issues
  MaxOutages    \* bound on OpenBao becoming unreachable

ASSUME Poller \in Callers /\ MaxLatency < Window

Tokens == 0..MaxLogins
Forever == MaxTime + MaxTTL + 1   \* the expiry of a token without TTL

VARIABLES
  cfg,      \* the Config given to NewClient
  ttl,      \* the role's token_ttl
  phase,    \* "Init", "Ready", or "Failed" (NewClient returned an error)
  up,       \* OpenBao answers requests
  outages,
  now,
  issued,   \* tokens issued so far
  exp,      \* exp[k]: when OpenBao considers token k expired (0: unknown)
  maxEnd,   \* maxEnd[k]: the end of token k's max TTL
  token,    \* the api client's token
  expiry,   \* Client.tokenExpiry (0: the zero time)
  pc,       \* pc[c]: where goroutine c is in an operation
  lease,    \* lease[c]: the LeaseDuration goroutine c got back
  err,      \* err[c]: RefreshToken's error for c's current operation
  lat       \* lat[c]: ticks since c's operation began

vars == <<cfg, ttl, phase, up, outages, now, issued, exp, maxEnd, token,
          expiry, pc, lease, err, lat>>

Valid(k) == exp[k] > now

(* authenticate: the first configured method wins.                        *)
AuthMethod(conf) ==
  IF conf.token THEN "Static"
  ELSE IF conf.k8s THEN "Kubernetes"
  ELSE IF conf.env THEN "Static"
  ELSE "None"

TypeOK ==
  /\ cfg \in Configs /\ ttl \in TTLs
  /\ phase \in {"Init", "Ready", "Failed"}
  /\ phase = "Ready" => cfg.address /\ AuthMethod(cfg) # "None"
  /\ up \in BOOLEAN /\ outages \in 0..MaxOutages
  /\ now \in 0..MaxTime /\ issued \in 0..MaxLogins
  /\ exp \in [Tokens -> 0..Forever] /\ maxEnd \in [Tokens -> 0..Forever]
  /\ token \in Tokens /\ expiry \in 0..(MaxTime + MaxTTL)
  /\ pc \in [Callers -> {"Idle", "Renew", "RenewDone", "Login",
                         "LoginDone", "Request"}]
  /\ lease \in [Callers -> 0..MaxTTL]
  /\ err \in [Callers -> BOOLEAN]
  /\ lat \in [Callers -> 0..MaxLatency]

Init ==
  /\ cfg \in Configs /\ ttl \in TTLs
  /\ phase = "Init"
  /\ up \in BOOLEAN /\ outages = 0
  /\ now = 0 /\ issued = 0
  /\ exp = [k \in Tokens |-> 0] /\ maxEnd = [k \in Tokens |-> 0]
  /\ token = 0 /\ expiry = 0
  /\ pc = [c \in Callers |-> "Idle"]
  /\ lease = [c \in Callers |-> 0]
  /\ err = [c \in Callers |-> FALSE]
  /\ lat = [c \in Callers |-> 0]

(* authenticateKubernetes up to SetToken: read the service-account token, *)
(* POST auth/<mount>/login; OpenBao issues a token with the role's TTL.    *)
KubernetesLogin ==
  /\ up /\ issued < MaxLogins
  /\ issued' = issued + 1
  /\ token' = issued + 1
  /\ exp' = [exp EXCEPT ![issued + 1] = IF ttl > 0 THEN now + ttl ELSE Forever]
  /\ maxEnd' = [maxEnd EXCEPT ![issued + 1] =
                  IF ttl > 0 THEN now + MaxTTL ELSE Forever]

(* authenticateKubernetes, after SetToken: tokenExpiry only for a lease.  *)
ExpiryAfterLogin(l) == IF l > 0 THEN now + l ELSE expiry

(* A bug where NewClient does not reject a config without address.       *)
StartNoAddressCheck ==
  /\ phase = "Init"
  /\ \/ /\ AuthMethod(cfg) = "Static"
        /\ phase' = "Ready"
        /\ exp' = [exp EXCEPT ![0] = Forever]
        /\ maxEnd' = [maxEnd EXCEPT ![0] = Forever]
        /\ UNCHANGED <<issued, token, expiry>>
     \/ /\ AuthMethod(cfg) = "Kubernetes"
        /\ KubernetesLogin
        /\ expiry' = IF ttl > 0 THEN now + ttl ELSE expiry
        /\ phase' = "Ready"
     \/ /\ \/ AuthMethod(cfg) = "None"
           \/ AuthMethod(cfg) = "Kubernetes" /\ ~up
        /\ phase' = "Failed"
        /\ UNCHANGED <<issued, exp, maxEnd, token, expiry>>
  /\ UNCHANGED <<cfg, ttl, up, outages, now, pc, lease, err, lat>>

(* NewClient: reject a config without address, apply the defaults, build *)
(* the api client and authenticate; any error makes NewClient fail.       *)
Start ==
  /\ phase = "Init"
  /\ \/ /\ cfg.address /\ AuthMethod(cfg) = "Static"
        /\ phase' = "Ready"
        /\ exp' = [exp EXCEPT ![0] = Forever]
        /\ maxEnd' = [maxEnd EXCEPT ![0] = Forever]
        /\ UNCHANGED <<issued, token, expiry>>
     \/ /\ cfg.address /\ AuthMethod(cfg) = "Kubernetes"
        /\ KubernetesLogin
        /\ expiry' = IF ttl > 0 THEN now + ttl ELSE expiry
        /\ phase' = "Ready"
     \/ /\ \/ ~cfg.address
           \/ AuthMethod(cfg) = "None"
           \/ AuthMethod(cfg) = "Kubernetes" /\ ~up
        /\ phase' = "Failed"
        /\ UNCHANGED <<issued, exp, maxEnd, token, expiry>>
  /\ UNCHANGED <<cfg, ttl, up, outages, now, pc, lease, err, lat>>

-----------------------------------------------------------------------------
(* A bug where RefreshToken skips until the token has expired.           *)
CheckNoMargin(c) ==
  /\ phase = "Ready" /\ pc[c] = "Idle"
  /\ pc' = [pc EXCEPT ![c] =
              IF expiry = 0 \/ expiry > now THEN "Request" ELSE "Renew"]
  /\ err' = [err EXCEPT ![c] = FALSE]
  /\ lat' = [lat EXCEPT ![c] = 0]
  /\ UNCHANGED <<cfg, ttl, phase, up, outages, now, issued, exp, maxEnd,
                 token, expiry, lease>>

(* RefreshToken, under the read lock: skip unless tokenExpiry is set and  *)
(* at most the threshold away; otherwise go renew.                        *)
Check(c) ==
  /\ phase = "Ready" /\ pc[c] = "Idle"
  /\ pc' = [pc EXCEPT ![c] =
              IF expiry = 0 \/ expiry - now > Window THEN "Request" ELSE "Renew"]
  /\ err' = [err EXCEPT ![c] = FALSE]
  /\ lat' = [lat EXCEPT ![c] = 0]
  /\ UNCHANGED <<cfg, ttl, phase, up, outages, now, issued, exp, maxEnd,
                 token, expiry, lease>>

(* A bug where a failed renewal is returned without re-authenticating.   *)
RenewNoFallback(c) ==
  /\ pc[c] = "Renew"
  /\ IF up /\ Valid(token)
       THEN LET l == IF ttl < maxEnd[token] - now THEN ttl
                     ELSE maxEnd[token] - now
            IN /\ lease' = [lease EXCEPT ![c] = l]
               /\ exp' = [exp EXCEPT ![token] = now + l]
               /\ pc' = [pc EXCEPT ![c] = "RenewDone"]
               /\ UNCHANGED err
       ELSE /\ pc' = [pc EXCEPT ![c] = "Request"]
            /\ err' = [err EXCEPT ![c] = TRUE]
            /\ UNCHANGED <<lease, exp>>
  /\ UNCHANGED <<cfg, ttl, phase, up, outages, now, issued, maxEnd, token,
                 expiry, lat>>

(* RenewSelf with increment 0: OpenBao extends a live token by its TTL,  *)
(* capped at its max TTL.  On any failure, re-authenticate.               *)
Renew(c) ==
  /\ pc[c] = "Renew"
  /\ IF up /\ Valid(token)
       THEN LET l == IF ttl < maxEnd[token] - now THEN ttl
                     ELSE maxEnd[token] - now
            IN /\ lease' = [lease EXCEPT ![c] = l]
               /\ exp' = [exp EXCEPT ![token] = now + l]
               /\ pc' = [pc EXCEPT ![c] = "RenewDone"]
       ELSE /\ pc' = [pc EXCEPT ![c] = "Login"]
            /\ UNCHANGED <<lease, exp>>
  /\ UNCHANGED <<cfg, ttl, phase, up, outages, now, issued, maxEnd, token,
                 expiry, err, lat>>

(* A bug where tokenExpiry is computed from the role's TTL rather than   *)
(* the LeaseDuration OpenBao returned.                                     *)
RenewWriteRoleTTL(c) ==
  /\ pc[c] = "RenewDone"
  /\ expiry' = now + ttl
  /\ pc' = [pc EXCEPT ![c] = "Request"]
  /\ UNCHANGED <<cfg, ttl, phase, up, outages, now, issued, exp, maxEnd,
                 token, lease, err, lat>>

(* Renewal succeeded: tokenExpiry = now + LeaseDuration under the lock.  *)
RenewWrite(c) ==
  /\ pc[c] = "RenewDone"
  /\ expiry' = now + lease[c]
  /\ pc' = [pc EXCEPT ![c] = "Request"]
  /\ UNCHANGED <<cfg, ttl, phase, up, outages, now, issued, exp, maxEnd,
                 token, lease, err, lat>>

(* authenticate() from RefreshToken.  Only a Kubernetes session has a    *)
(* tokenExpiry, so this is authenticateKubernetes; its error is returned  *)
(* by RefreshToken, logged by the caller, and the call goes on.           *)
Login(c) ==
  /\ pc[c] = "Login"
  /\ \/ /\ KubernetesLogin
        /\ lease' = [lease EXCEPT ![c] = ttl]
        /\ pc' = [pc EXCEPT ![c] = "LoginDone"]
        /\ UNCHANGED err
     \/ /\ ~up
        /\ err' = [err EXCEPT ![c] = TRUE]
        /\ pc' = [pc EXCEPT ![c] = "Request"]
        /\ UNCHANGED <<issued, exp, maxEnd, token, lease>>
  /\ UNCHANGED <<cfg, ttl, phase, up, outages, now, expiry, lat>>

LoginWrite(c) ==
  /\ pc[c] = "LoginDone"
  /\ expiry' = ExpiryAfterLogin(lease[c])
  /\ pc' = [pc EXCEPT ![c] = "Request"]
  /\ UNCHANGED <<cfg, ttl, phase, up, outages, now, issued, exp, maxEnd,
                 token, lease, err, lat>>

(* The API call itself (TransitEncrypt, TransitGetKeyInfo, KVRead, ...):  *)
(* sent with the current token; OpenBao refuses an expired one.           *)
Request(c) ==
  /\ pc[c] = "Request"
  /\ pc' = [pc EXCEPT ![c] = "Idle"]
  /\ UNCHANGED <<cfg, ttl, phase, up, outages, now, issued, exp, maxEnd,
                 token, expiry, lease, err, lat>>

-----------------------------------------------------------------------------
(* Time passes while calls are in flight, never between a response and   *)
(* the lock-protected write that uses it.                                 *)
Tick ==
  /\ now < MaxTime
  /\ \A c \in Callers : pc[c] \notin {"RenewDone", "LoginDone"}
  /\ \A c \in Callers : pc[c] # "Idle" => lat[c] < MaxLatency
  /\ now' = now + 1
  /\ lat' = [c \in Callers |-> IF pc[c] = "Idle" THEN 0 ELSE lat[c] + 1]
  /\ UNCHANGED <<cfg, ttl, phase, up, outages, issued, exp, maxEnd, token,
                 expiry, pc, lease, err>>

GoDown ==
  /\ up /\ outages < MaxOutages
  /\ up' = FALSE /\ outages' = outages + 1
  /\ UNCHANGED <<cfg, ttl, phase, now, issued, exp, maxEnd, token, expiry,
                 pc, lease, err, lat>>

ComeUp ==
  /\ ~up /\ up' = TRUE
  /\ UNCHANGED <<cfg, ttl, phase, outages, now, issued, exp, maxEnd, token,
                 expiry, pc, lease, err, lat>>

Step(c) == Renew(c) \/ RenewWrite(c) \/ Login(c) \/ LoginWrite(c) \/ Request(c)

Next ==
  \/ Start
  \/ \E c \in Callers : Check(c) \/ Step(c)
  \/ Tick \/ GoDown \/ ComeUp

(* A goroutine runs its operation to the end; the health-check loop      *)
(* starts one on every tick of its ticker; OpenBao comes back.  Other    *)
(* callers and the clock are not fair.                                    *)
Fairness ==
  /\ WF_vars(Start)
  /\ \A c \in Callers : WF_vars(Step(c))
  /\ WF_vars(Check(Poller))
  /\ WF_vars(ComeUp)

Spec == Init /\ [][Next]_vars /\ Fairness

-----------------------------------------------------------------------------
(* Properties *)

(* The expiry RefreshToken decides on never promises more than OpenBao    *)
(* grants the token the api client actually sends: concurrent refreshes   *)
(* write tokenExpiry from renewals and logins of different tokens, and    *)
(* SetToken and the tokenExpiry write are separate steps.                 *)
ExpiryNotOptimistic == expiry # 0 => expiry <= exp[token]

(* An API call whose RefreshToken returned nil reaches a reachable        *)
(* OpenBao with a live token, unless that token's max TTL ran out while   *)
(* the call was in flight: the threshold covers a call's latency.         *)
RequestAuthorized ==
  [][\A c \in Callers :
       (pc[c] = "Request" /\ pc'[c] = "Idle" /\ up /\ ~err[c])
         => (Valid(token) \/ exp[token] = maxEnd[token])]_vars

=============================================================================
