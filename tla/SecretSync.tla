----------------------------- MODULE SecretSync -----------------------------
(***************************************************************************)
(* The BaoSecret reconciler (internal/controller/baosecret_controller.go,  *)
(* bundled in src/internal/csi/secrets.go lines 798-1182).                 *)
(*                                                                         *)
(* One worker per BaoSecret key: controller-runtime never runs two         *)
(* reconciles of the same key at once, but runs distinct keys in parallel. *)
(* Every API-server or OpenBao call of Reconcile is one step, so users,    *)
(* the OpenBao backend and the garbage collector interleave with it.       *)
(* Optimistic concurrency (resourceVersion) is kept as one bit per key:    *)
(* "the stored object changed since this reconcile's Get".                 *)
(***************************************************************************)
EXTENDS Naturals, FiniteSets

CONSTANTS
  Resources,      \* BaoSecret names (one namespace)
  Targets,        \* names of target Kubernetes Secrets
  Values,         \* contents of the OpenBao KV secret at a resource's path
  SpecsOf(_),     \* SpecsOf(r): the BaoSecret specs a user may give r
  None,           \* sentinel: no owner, no data, no version
  MaxEdits,       \* bound on user create/edit/delete steps
  MaxBackendWrites, \* bound on out-of-band writes to OpenBao
  MaxFailures,    \* bound on failed API-server / OpenBao calls
  MaxRestarts     \* bound on operator process restarts

ASSUME MaxEdits \in Nat /\ MaxBackendWrites \in Nat /\ MaxFailures \in Nat
       /\ MaxRestarts \in Nat

(* The creation policies the code distinguishes (Merge behaves as Orphan). *)
Policies == {"", "Owner", "Orphan", "Merge"}
(* Namespaces of a target: the BaoSecret's own, or another one.           *)
Namespaces == {"same", "other"}

Spec_ == [target : Targets, ns : Namespaces, policy : Policies, suspend : BOOLEAN]
ASSUME \A r \in Resources : SpecsOf(r) \subseteq Spec_ /\ SpecsOf(r) # {}

(* calculateVersion: sha256 of the JSON data, truncated.  Distinct data    *)
(* give distinct versions (collisions of 64-bit digests are ignored).      *)
Hash(d) == <<"sha256", d>>

NoSecret == "NotFound"   \* KVRead: nil secret, nil Data or no "data" map

VARIABLES
  life,       \* life[r]: "Absent" | "Live" | "Deleting" (deletionTimestamp) | "Gone"
  finalizer,  \* finalizer[r]: kubebao.io/finalizer is in the stored object
  spec,       \* spec[r]: the stored spec
  status,     \* status[r]: the stored status (Ready, Synced, SecretVersion)
  stale,      \* stale[r]: stored object changed by someone else since the Get
  queued,     \* queued[r]: key is in the workqueue
  timer,      \* timer[r]: a RequeueAfter is pending
  pc,         \* pc[r]: where r's reconcile is
  snap,       \* snap[r]: the reconcile's in-memory copy of the BaoSecret
  data,       \* data[r]: the secret data syncSecret read
  kv,         \* kv[r]: OpenBao KV content at r's secretPath
  tgt,        \* tgt[<<t, ns>>]: the target Secret in the API server
  edits, bwrites, failures,
  restarts    \* operator process restarts so far

vars == <<life, finalizer, spec, status, stale, queued, timer, pc, snap, data,
          kv, tgt, edits, bwrites, failures, restarts>>

TargetIds == Targets \X Namespaces
TargetId(s) == <<s.target, s.ns>>

NoStatus == [ready |-> "None", synced |-> "None", reason |-> "None", version |-> None]
NoTarget == [exists |-> FALSE, data |-> None, owner |-> None, managedBy |-> None,
             version |-> None]
Status_ == [ready : {"None", "True", "False"}, synced : {"None", "True", "False"},
            reason : {"None", "Success", "Failed", "SyncSuspended"}, version : {Hash(v) : v \in Values} \cup {None}]
Target_ == [exists : BOOLEAN, data : Values \cup {None}, owner : Resources \cup {None},
            managedBy : Resources \cup {None}, version : {Hash(v) : v \in Values} \cup {None}]
Snap_ == [life : {"Live", "Deleting"}, finalizer : BOOLEAN, spec : Spec_]

TypeOK ==
  /\ life \in [Resources -> {"Absent", "Live", "Deleting", "Gone"}]
  /\ finalizer \in [Resources -> BOOLEAN]
  /\ spec \in [Resources -> Spec_]
  /\ status \in [Resources -> Status_]
  /\ stale \in [Resources -> BOOLEAN]
  /\ queued \in [Resources -> BOOLEAN]
  /\ timer \in [Resources -> BOOLEAN]
  /\ pc \in [Resources -> {"Idle", "Got", "Finalized", "Read", "Written", "Failed"}]
  /\ \A r \in Resources : pc[r] # "Idle" => snap[r] \in Snap_
  /\ data \in [Resources -> Values \cup {None}]
  /\ kv \in [Resources -> Values \cup {NoSecret}]
  /\ tgt \in [TargetIds -> Target_]
  /\ restarts \in 0..MaxRestarts

Init ==
  /\ life = [r \in Resources |-> "Absent"]
  /\ finalizer = [r \in Resources |-> FALSE]
  /\ spec \in {f \in [Resources -> Spec_] : \A r \in Resources : f[r] \in SpecsOf(r)}
  /\ status = [r \in Resources |-> NoStatus]
  /\ stale = [r \in Resources |-> FALSE]
  /\ queued = [r \in Resources |-> FALSE]
  /\ timer = [r \in Resources |-> FALSE]
  /\ pc = [r \in Resources |-> "Idle"]
  /\ snap = [r \in Resources |-> None]
  /\ data = [r \in Resources |-> None]
  /\ kv \in [Resources -> Values]
  /\ tgt = [id \in TargetIds |-> NoTarget]
  /\ edits = 0 /\ bwrites = 0 /\ failures = 0 /\ restarts = 0

(* A write to the stored BaoSecret: the informer sees a new resourceVersion *)
(* and For(&BaoSecret{}) enqueues the key again.                           *)
Touched(r) == queued' = [queued EXCEPT ![r] = TRUE]
(* An enqueue by a user change, a RequeueAfter timer, an error retry or   *)
(* another writer of r's target.                                           *)
Woken(r) == queued' = [queued EXCEPT ![r] = TRUE]

(* A call to the API server or OpenBao may fail (bounded).                 *)
CanFail == failures < MaxFailures
Fail == failures' = failures + 1

Return(r) == pc' = [pc EXCEPT ![r] = "Idle"]
(* Reconcile returned an error: controller-runtime requeues rate-limited.  *)
ReturnErr(r) == Return(r) /\ Woken(r)

-----------------------------------------------------------------------------
(* Environment: users, OpenBao, and the garbage collector.                 *)

CreateResource(r) ==
  /\ edits < MaxEdits /\ life[r] = "Absent"
  /\ \E s \in SpecsOf(r) :
       /\ life' = [life EXCEPT ![r] = "Live"]
       /\ spec' = [spec EXCEPT ![r] = s]
  /\ Woken(r) /\ edits' = edits + 1
  /\ UNCHANGED <<finalizer, status, stale, timer, pc, snap, data, kv, tgt, bwrites, failures, restarts>>

EditSpec(r) ==
  /\ edits < MaxEdits /\ life[r] = "Live"
  /\ \E s \in SpecsOf(r) \ {spec[r]} : spec' = [spec EXCEPT ![r] = s]
  /\ stale' = [stale EXCEPT ![r] = TRUE]
  /\ Woken(r) /\ edits' = edits + 1
  /\ UNCHANGED <<life, finalizer, status, timer, pc, snap, data, kv, tgt, bwrites, failures, restarts>>

(* kubectl delete: with a finalizer the object only gets a deletion        *)
(* timestamp; without one the API server removes it at once.               *)
DeleteResource(r) ==
  /\ edits < MaxEdits /\ life[r] = "Live"
  /\ life' = [life EXCEPT ![r] = IF finalizer[r] THEN "Deleting" ELSE "Gone"]
  /\ stale' = [stale EXCEPT ![r] = TRUE]
  /\ Woken(r) /\ edits' = edits + 1
  /\ UNCHANGED <<finalizer, spec, status, timer, pc, snap, data, kv, tgt, bwrites, failures, restarts>>

BackendWrite(r) ==
  /\ bwrites < MaxBackendWrites
  /\ \E v \in (Values \cup {NoSecret}) \ {kv[r]} : kv' = [kv EXCEPT ![r] = v]
  /\ bwrites' = bwrites + 1
  /\ UNCHANGED <<life, finalizer, spec, status, stale, queued, timer, pc, snap, data,
                 tgt, edits, failures, restarts>>

(* Kubernetes garbage collection of a Secret whose controller owner is gone. *)
GarbageCollect(id) ==
  /\ tgt[id].exists /\ tgt[id].owner \in Resources
  /\ life[tgt[id].owner] = "Gone"
  /\ tgt' = [tgt EXCEPT ![id] = NoTarget]
  /\ UNCHANGED <<life, finalizer, spec, status, stale, queued, timer, pc, snap, data, kv,
                 edits, bwrites, failures, restarts>>

(* The operator process restarts (eviction, OOM kill, rollout) at any     *)
(* point: the workqueue, the RequeueAfter timers and the reconcile in      *)
(* flight are lost; the API server, OpenBao and the garbage collector keep *)
(* theirs.  On start the BaoSecret informer lists every stored BaoSecret   *)
(* and For(&BaoSecret{}) enqueues it (a key whose object is gone is a      *)
(* NotFound Get, which changes nothing).                                   *)
Restart ==
  /\ restarts < MaxRestarts
  /\ restarts' = restarts + 1
  /\ pc' = [r \in Resources |-> "Idle"]
  /\ queued' = [r \in Resources |-> life[r] \in {"Live", "Deleting"}]
  /\ timer' = [r \in Resources |-> FALSE]
  /\ UNCHANGED <<life, finalizer, spec, status, stale, snap, data, kv, tgt, edits,
                 bwrites, failures>>

(* A RequeueAfter delay elapses. *)
TimerFires(r) ==
  /\ timer[r]
  /\ timer' = [timer EXCEPT ![r] = FALSE]
  /\ Woken(r)
  /\ UNCHANGED <<life, finalizer, spec, status, stale, pc, snap, data, kv, tgt, edits,
                 bwrites, failures, restarts>>

-----------------------------------------------------------------------------
(* BaoSecretReconciler.Reconcile, one step per API-server or OpenBao call. *)

(* Never changed by the reconciler. *)
env == <<spec, kv, edits, bwrites, restarts>>

(* An Update or Status().Update of r succeeds only if nobody else wrote r  *)
(* since the Get (resourceVersion); it may also fail for other reasons.    *)
ApiOk(r) == ~stale[r]
ApiErr(r) == \/ stale[r] /\ UNCHANGED failures
             \/ ~stale[r] /\ CanFail /\ Fail

(* r.Get: a missing object is a deletion already processed (Result{});   *)
(* another error is returned, and the key is requeued rate-limited.        *)
Get(r) ==
  /\ pc[r] = "Idle" /\ queued[r]
  /\ \/ /\ CanFail /\ Fail /\ Woken(r)
        /\ UNCHANGED <<snap, stale, pc>>
     \/ /\ queued' = [queued EXCEPT ![r] = FALSE]
        /\ UNCHANGED failures
        /\ IF life[r] \in {"Live", "Deleting"}
             THEN /\ snap' = [snap EXCEPT ![r] = [life |-> life[r], finalizer |-> finalizer[r],
                                                  spec |-> spec[r]]]
                  /\ stale' = [stale EXCEPT ![r] = FALSE]
                  /\ pc' = [pc EXCEPT ![r] = "Got"]
             ELSE UNCHANGED <<snap, stale, pc>>
  /\ UNCHANGED <<life, finalizer, status, timer, data, tgt>> /\ UNCHANGED env

(* handleDeletion: the Orphan branch only logs; the finalizer is removed   *)
(* and, being the only one, the API server then deletes the object.  A     *)
(* deleting object always holds the finalizer (else it would be gone).     *)
HandleDeletion(r) ==
  /\ pc[r] = "Got" /\ snap[r].life = "Deleting"
  /\ \/ /\ ApiOk(r)
        /\ finalizer' = [finalizer EXCEPT ![r] = FALSE]
        /\ life' = [life EXCEPT ![r] = "Gone"]
        /\ Return(r)
        /\ UNCHANGED <<queued, failures>>
     \/ /\ ApiErr(r) /\ ReturnErr(r)
        /\ UNCHANGED <<life, finalizer>>
  /\ UNCHANGED <<status, stale, timer, snap, data, tgt>> /\ UNCHANGED env

(* Mutant: the finalizer is added to the in-memory object only. *)
EnsureFinalizerNotPersisted(r) ==
  /\ pc[r] = "Got" /\ snap[r].life = "Live"
  /\ snap' = [snap EXCEPT ![r].finalizer = TRUE]
  /\ pc' = [pc EXCEPT ![r] = "Finalized"]
  /\ UNCHANGED <<life, finalizer, status, stale, queued, timer, data, tgt, failures>>
  /\ UNCHANGED env

(* AddFinalizer + r.Update before any OpenBao call. *)
EnsureFinalizer(r) ==
  /\ pc[r] = "Got" /\ snap[r].life = "Live"
  /\ \/ /\ snap[r].finalizer
        /\ pc' = [pc EXCEPT ![r] = "Finalized"]
        /\ UNCHANGED <<finalizer, snap, queued, failures>>
     \/ /\ ~snap[r].finalizer /\ ApiOk(r)
        /\ finalizer' = [finalizer EXCEPT ![r] = TRUE]
        /\ snap' = [snap EXCEPT ![r].finalizer = TRUE]
        /\ Touched(r)
        /\ pc' = [pc EXCEPT ![r] = "Finalized"]
        /\ UNCHANGED <<failures>>
     \/ /\ ~snap[r].finalizer /\ ApiErr(r) /\ ReturnErr(r)
        /\ UNCHANGED <<finalizer, snap>>
  /\ UNCHANGED <<life, status, stale, timer, data, tgt>> /\ UNCHANGED env

(* Status().Update of r's status to new.  Status updates change the stored *)
(* object, so the informer enqueues r again when the object changed.       *)
WriteStatus(r, new, changed) ==
  /\ status' = [status EXCEPT ![r] = new]
  /\ queued' = IF changed THEN [queued EXCEPT ![r] = TRUE] ELSE queued

(* setCondition: the condition of that type is updated in place, or       *)
(* appended the first time; the record keeps each condition's status and  *)
(* the last reason.  LastTransitionTime moves only with the status, so it *)
(* never changes the stored object on its own.                            *)
SetCondition(s, type, val, reason) == [s EXCEPT ![type] = val, !.reason = reason]

(* SuspendSync: Ready=False/SyncSuspended, Result{} (no requeue). *)
SuspendSync(r) ==
  /\ pc[r] = "Finalized" /\ snap[r].spec.suspend
  /\ LET new == SetCondition(status[r], "ready", "False", "SyncSuspended") IN
       \/ /\ ApiOk(r) /\ WriteStatus(r, new, new # status[r]) /\ Return(r)
          /\ UNCHANGED <<failures>>
       \/ /\ ApiErr(r) /\ ReturnErr(r) /\ UNCHANGED status
  /\ UNCHANGED <<life, finalizer, stale, timer, snap, data, tgt>> /\ UNCHANGED env

(* Mutant: a "secret not found" answer is taken as the secret's content. *)
ReadSecretIgnoringNotFound(r) ==
  /\ pc[r] = "Finalized" /\ ~snap[r].spec.suspend
  /\ data' = [data EXCEPT ![r] = kv[r]]
  /\ pc' = [pc EXCEPT ![r] = "Read"]
  /\ UNCHANGED <<life, finalizer, status, stale, queued, timer, snap, tgt, failures>>
  /\ UNCHANGED env

(* syncSecret up to the template: KVRead, field extraction and template    *)
(* substitution.  A missing secret, a missing field or a transport error   *)
(* all make syncSecret return an error.                                    *)
ReadSecret(r) ==
  /\ pc[r] = "Finalized" /\ ~snap[r].spec.suspend
  /\ \/ /\ kv[r] # NoSecret
        /\ data' = [data EXCEPT ![r] = kv[r]]
        /\ pc' = [pc EXCEPT ![r] = "Read"]
        /\ UNCHANGED failures
     \/ /\ kv[r] = NoSecret
        /\ pc' = [pc EXCEPT ![r] = "Failed"]
        /\ UNCHANGED <<data, failures>>
     \/ /\ kv[r] # NoSecret /\ CanFail /\ Fail
        /\ pc' = [pc EXCEPT ![r] = "Failed"]
        /\ UNCHANGED data
  /\ UNCHANGED <<life, finalizer, status, stale, queued, timer, snap, tgt>>
  /\ UNCHANGED env

(* Mutant: the empty (default) policy is not treated as Owner. *)
SetsOwnerExplicitOnly(s) == s.policy = "Owner" /\ s.ns = "same"
(* Whether syncSecret sets a controller reference on the target. *)
SetsOwner(s) == s.policy \in {"Owner", ""} /\ s.ns = "same"

(* SetControllerReference refuses (AlreadyOwnedError) a Secret whose      *)
(* controller reference names another BaoSecret.                          *)
AlreadyOwned(s, cur, r) == SetsOwner(s) /\ cur.owner \notin {None, r}

(* controllerutil.CreateOrUpdate of the target Secret.  The mutate function *)
(* overwrites labels, annotations, type and data, and calls               *)
(* SetControllerReference only when SetsOwner; an ownerReference set by an *)
(* earlier sync is never removed.  SetControllerReference fails when       *)
(* another BaoSecret already controls the Secret.  An unchanged object is  *)
(* not written.  Owns(&Secret{}) enqueues the Secret's controller.         *)
WriteTarget(r) ==
  /\ pc[r] = "Read"
  /\ LET s   == snap[r].spec
         id  == TargetId(s)
         cur == tgt[id]
         new == [exists |-> TRUE, data |-> data[r], managedBy |-> r,
                 version |-> Hash(data[r]),
                 owner |-> IF SetsOwner(s) THEN r ELSE cur.owner]
     IN \/ /\ AlreadyOwned(s, cur, r)
           /\ pc' = [pc EXCEPT ![r] = "Failed"]
           /\ UNCHANGED <<tgt, queued, failures>>
        \/ /\ ~AlreadyOwned(s, cur, r)
           /\ tgt' = [tgt EXCEPT ![id] = new]
           /\ queued' = IF new # cur /\ new.owner \in Resources
                          THEN [queued EXCEPT ![new.owner] = TRUE] ELSE queued
           /\ pc' = [pc EXCEPT ![r] = "Written"]
           /\ UNCHANGED failures
        \/ /\ CanFail /\ Fail
           /\ pc' = [pc EXCEPT ![r] = "Failed"]
           /\ UNCHANGED <<tgt, queued>>
  /\ UNCHANGED <<life, finalizer, status, stale, timer, snap, data>> /\ UNCHANGED env

(* Mutant: success returns Result{} instead of RequeueAfter(refresh). *)
ReportSuccessNoRequeue(r) ==
  /\ pc[r] = "Written"
  /\ LET new == [ready |-> "True", synced |-> "True", reason |-> "Success",
                 version |-> Hash(data[r])] IN
       \/ /\ ApiOk(r)
          /\ \E clockMoved \in BOOLEAN : WriteStatus(r, new, new # status[r] \/ clockMoved)
          /\ Return(r)
          /\ UNCHANGED <<timer, failures>>
       \/ /\ ApiErr(r) /\ ReturnErr(r) /\ UNCHANGED <<status, timer>>
  /\ UNCHANGED <<life, finalizer, stale, snap, data, tgt>> /\ UNCHANGED env

(* Success: Synced=True, Ready=True, SecretVersion, LastSyncTime = now,    *)
(* then RequeueAfter(parseRefreshInterval).  LastSyncTime has whole-second *)
(* resolution, so the status write changes the object whenever the clock  *)
(* moved on since the last one.                                            *)
ReportSuccess(r) ==
  /\ pc[r] = "Written"
  /\ LET synced == SetCondition(status[r], "synced", "True", "Success")
         new == [SetCondition(synced, "ready", "True", "Success") EXCEPT !.version = Hash(data[r])]
     IN
       \/ /\ ApiOk(r)
          /\ \E clockMoved \in BOOLEAN : WriteStatus(r, new, new # status[r] \/ clockMoved)
          /\ timer' = [timer EXCEPT ![r] = TRUE]
          /\ Return(r)
          /\ UNCHANGED <<failures>>
       \/ /\ ApiErr(r) /\ ReturnErr(r) /\ UNCHANGED <<status, timer>>
  /\ UNCHANGED <<life, finalizer, stale, snap, data, tgt>> /\ UNCHANGED env

(* Mutant: only the Synced condition is set on failure. *)
ReportFailureReadyKept(r) ==
  /\ pc[r] = "Failed"
  /\ LET new == SetCondition(status[r], "synced", "False", "Failed") IN
       \/ /\ ApiOk(r)
          /\ WriteStatus(r, new, new # status[r])
          /\ timer' = [timer EXCEPT ![r] = TRUE]
          /\ Return(r)
          /\ UNCHANGED <<failures>>
       \/ /\ ApiErr(r) /\ ReturnErr(r) /\ UNCHANGED <<status, timer>>
  /\ UNCHANGED <<life, finalizer, stale, snap, data, tgt>> /\ UNCHANGED env

(* Failure: Synced=False, Ready=False, RequeueAfter(30s). *)
ReportFailure(r) ==
  /\ pc[r] = "Failed"
  /\ LET new == SetCondition(SetCondition(status[r], "synced", "False", "Failed"),
                              "ready", "False", "Failed") IN
       \/ /\ ApiOk(r)
          /\ WriteStatus(r, new, new # status[r])
          /\ timer' = [timer EXCEPT ![r] = TRUE]
          /\ Return(r)
          /\ UNCHANGED <<failures>>
       \/ /\ ApiErr(r) /\ ReturnErr(r) /\ UNCHANGED <<status, timer>>
  /\ UNCHANGED <<life, finalizer, stale, snap, data, tgt>> /\ UNCHANGED env

-----------------------------------------------------------------------------

Worker(r) ==
  \/ Get(r) \/ HandleDeletion(r) \/ EnsureFinalizer(r) \/ SuspendSync(r)
  \/ ReadSecret(r) \/ WriteTarget(r) \/ ReportSuccess(r) \/ ReportFailure(r)

Environment ==
  \/ \E r \in Resources :
       CreateResource(r) \/ EditSpec(r) \/ DeleteResource(r) \/ BackendWrite(r)
  \/ \E id \in TargetIds : GarbageCollect(id)
  \/ Restart

Next ==
  \/ Environment
  \/ \E r \in Resources : Worker(r) \/ TimerFires(r)

(* The workqueue hands every queued key to a worker, RequeueAfter timers   *)
(* fire, and the garbage collector runs: all weakly fair.  Users, OpenBao  *)
(* writers and restarts are not obliged to happen.                         *)
Fairness ==
  /\ \A r \in Resources : WF_vars(Worker(r)) /\ WF_vars(TimerFires(r))
  /\ \A id \in TargetIds : WF_vars(GarbageCollect(id))

Spec == Init /\ [][Next]_vars /\ Fairness

-----------------------------------------------------------------------------
(* Properties *)

(* Two-phase delete (spec 9, "finalizer-based deletion ordering"): a       *)
(* target Secret written for a BaoSecret that still exists in the API      *)
(* server implies that BaoSecret holds kubebao.io/finalizer, so its        *)
(* deletion runs handleDeletion before the object disappears.             *)
FinalizerGuardsTarget ==
  \A id \in TargetIds :
    (tgt[id].exists /\ tgt[id].managedBy \in Resources
       /\ life[tgt[id].managedBy] \in {"Live", "Deleting"})
      => finalizer[tgt[id].managedBy]

(* Reconcile converges: once users and OpenBao stop changing things, every *)
(* live, unsuspended BaoSecret whose secret exists ends with a target      *)
(* holding the OpenBao data, Ready=True and SecretVersion = its hash.      *)
SyncWanted(r) == life[r] = "Live" /\ ~spec[r].suspend /\ kv[r] # NoSecret
InSync(r) ==
  LET t == tgt[TargetId(spec[r])] IN
    /\ t.exists /\ t.data = kv[r]
    /\ status[r].ready = "True" /\ status[r].version = Hash(kv[r])
Converges == <>[](\A r \in Resources : SyncWanted(r) => InSync(r))

(* Cascade: a target written by a BaoSecret that is then deleted is        *)
(* eventually removed (the ownerReference makes the garbage collector      *)
(* delete it; handleDeletion relies on this and deletes nothing itself).   *)
ManagedBy(id, r) == tgt[id].exists /\ tgt[id].managedBy = r
TargetsCollected ==
  \A r \in Resources, id \in TargetIds :
    (life[r] = "Gone" /\ ManagedBy(id, r)) ~> ~ManagedBy(id, r)

(* The Orphan (and Merge) policy keeps the target: the garbage collector   *)
(* never removes a Secret whose BaoSecret was deleted under that policy.  *)
OrphanTargetsKept ==
  [][\A id \in TargetIds :
       (tgt[id].exists /\ ~tgt'[id].exists /\ tgt[id].owner \in Resources)
         => spec[tgt[id].owner].policy \in {"", "Owner"}]_tgt

(* A BaoSecret that asks to own a Secret which another existing          *)
(* BaoSecret controls is refused by SetControllerReference on every pass  *)
(* (secrets.go:1010).  Once users and OpenBao stop, the refusal must show *)
(* in its status, through conflicting Updates and 30s retries: Ready=False *)
(* for good, never a Ready=True left over from an earlier sync.           *)
Contested(r) ==
  LET owner == tgt[TargetId(spec[r])].owner IN
    /\ life[r] = "Live" /\ ~spec[r].suspend /\ SetsOwner(spec[r])
    /\ owner \in Resources \ {r} /\ life[owner] # "Gone"
RefusalReported ==
  <>[](\A r \in Resources : Contested(r) => status[r].ready = "False")

=============================================================================
