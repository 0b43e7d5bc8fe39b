----------------------------- MODULE KmsService -----------------------------
(***************************************************************************)
(* The KMS plugin process: the Server of src/unnamed/part_006 over the     *)
(* TransitClient of src/internal/kms/transit.go, whose every call goes     *)
(* through one OpenBao Client (src/internal/openbao/client.go) and so      *)
(* begins with RefreshToken.                                               *)
(*                                                                         *)
(* KmsPlugin and OpenBaoClient are composed on their shared variables: up  *)
(* and outages are one OpenBao, and the plugin's `authorized` is the       *)
(* session's token being live.  The health-check loop is the client's      *)
(* Poller; the other callers are Encrypt and Decrypt handlers, which only  *)
(* read the Server's state.                                                *)
(***************************************************************************)
EXTENDS Naturals

CONSTANTS
  Callers, Poller, Configs, TTLs, MaxTTL, Window, MaxLatency, MaxTime,
  MaxLogins, MaxOutages, JsonNumber, None, MaxVersion

VARIABLES
  cfg, ttl, phase, up, outages, now, issued, exp, maxEnd, token, expiry,
  pc, lease, err, lat,                          \* the OpenBao session
  create, exists, latest, kphase, keyID, healthy,
  hpc, fetched,                                 \* the Server
  authorized      \* the session's token is live: C!Valid(token)

C == INSTANCE OpenBaoClient

K == INSTANCE KmsPlugin WITH phase <- kphase

cvars == <<cfg, ttl, phase, now, issued, exp, maxEnd, token, expiry, pc,
           lease, err, lat>>
kvars == <<create, exists, latest, kphase, keyID, healthy, hpc, fetched>>
vars == <<cvars, kvars, up, outages, authorized>>

(* authorized follows the session: every step of the client sets it.      *)
Authorize == authorized' = C!Valid(token)'

Init == C!Init /\ K!Init /\ authorized = C!Valid(token)

(* NewTransitClient: openbao.NewClient.  Its error makes NewServer fail.   *)
StartClient ==
  /\ kphase = "Init"
  /\ C!Start /\ Authorize
  /\ UNCHANGED kvars

ClientFailed ==
  /\ phase = "Failed" /\ kphase = "Init"
  /\ kphase' = "Exited"
  /\ UNCHANGED <<cvars, up, outages, create, exists, latest, keyID, healthy,
                 hpc, fetched, authorized>>

(* NewServer -> initialize, once the client is built. *)
Initialize ==
  /\ phase = "Ready"
  /\ K!Initialize
  /\ UNCHANGED cvars

(* A call into the client: the health check's GetKeyInfo (one at a time,  *)
(* from the loop) or a gRPC Encrypt/Decrypt, once the server is serving.   *)
Check(c) ==
  /\ kphase = "Serving"
  /\ c = Poller => hpc = "Idle"
  /\ C!Check(c) /\ Authorize
  /\ UNCHANGED kvars

Refresh(c) ==
  /\ C!Renew(c) \/ C!RenewWrite(c) \/ C!Login(c) \/ C!LoginWrite(c)
  /\ Authorize
  /\ UNCHANGED kvars

(* TransitEncrypt / TransitDecrypt: the result goes back to the caller.   *)
Call(c) ==
  /\ c # Poller
  /\ C!Request(c) /\ Authorize
  /\ UNCHANGED kvars

(* performHealthCheck's GetKeyInfo is the Poller's request: its outcome   *)
(* depends on the token the client sends at that moment.                   *)
HealthFetch ==
  /\ C!Request(Poller)
  /\ K!HealthFetch

HealthApply ==
  /\ K!HealthApply
  /\ UNCHANGED cvars

Rotate ==
  /\ K!Rotate
  /\ UNCHANGED cvars

(* Time passes while the plugin serves: start-up takes no tick, and an     *)
(* exited process has no session left.                                      *)
Tick ==
  /\ kphase = "Serving"
  /\ C!Tick /\ Authorize
  /\ UNCHANGED kvars

GoDown == C!GoDown /\ K!GoDown

ComeUp == C!ComeUp /\ K!ComeUp

Next ==
  \/ StartClient \/ ClientFailed \/ Initialize
  \/ \E c \in Callers : Check(c) \/ Refresh(c) \/ Call(c)
  \/ HealthFetch \/ HealthApply
  \/ Rotate \/ Tick \/ GoDown \/ ComeUp

(* As in the components: start-up, every started call and the health     *)
(* loop run on; OpenBao comes back; users, rotations and the clock are    *)
(* not fair.                                                               *)
Fairness ==
  /\ WF_vars(StartClient) /\ WF_vars(ClientFailed) /\ WF_vars(Initialize)
  /\ \A c \in Callers : WF_vars(Refresh(c)) /\ WF_vars(Call(c))
  /\ WF_vars(Check(Poller))
  /\ WF_vars(HealthFetch) /\ WF_vars(HealthApply)
  /\ WF_vars(ComeUp)

Spec == Init /\ [][Next]_vars /\ Fairness

-----------------------------------------------------------------------------
(* Properties *)

TypeOK == C!TypeOK /\ K!TypeOK

(* The session's tokenExpiry never promises more than OpenBao grants the   *)
(* token the client sends, with Encrypt handlers and the health loop       *)
(* refreshing concurrently.                                                *)
ExpiryNotOptimistic == C!ExpiryNotOptimistic

(* An Encrypt, Decrypt or GetKeyInfo whose RefreshToken returned nil      *)
(* reaches a reachable OpenBao with a live token, unless its max TTL ran   *)
(* out while the call was in flight.                                       *)
RequestAuthorized == C!RequestAuthorized

(* The health loop keeps the session alive: a serving plugin's client     *)
(* eventually holds a live token for good.                                 *)
SessionEventuallyValid == <>[](kphase = "Serving" => C!Valid(token))

(* Status reports the truth in the end: once OpenBao stays up or down, the *)
(* health flag settles on whether GetKeyInfo succeeds with the session's   *)
(* token, through token expiries, renewals and re-logins.                  *)
HealthSettles == K!HealthSettles

=============================================================================
