----------------------------- MODULE PolicySync -----------------------------
(***************************************************************************)
(* The BaoPolicy reconciler (internal/controller/baopolicy_controller.go,  *)
(* bundled in src/internal/csi/secrets.go lines 560-781) and the rendering *)
(* of its rules (BaoPolicy.ToHCL, src/unnamed/part_010).                   *)
(*                                                                         *)
(* One worker per BaoPolicy key, each API-server or OpenBao call a step.   *)
(* OpenBao holds one ACL document per policy name; the policy name is the  *)
(* BaoPolicy's name (GetPolicyName with spec.policyName unset).            *)
(***************************************************************************)
EXTENDS Naturals, FiniteSets
LOCAL INSTANCE SequencesExt

CONSTANTS
  BaoPolicies,    \* BaoPolicy names
  RuleSets,       \* the rule lists a user may write
  AllowedKeys(_), \* AllowedKeys(rs): keys of rs's allowedParameters maps
  None,
  MaxEdits,       \* bound on user create/edit/delete steps
  MaxDrifts,      \* bound on out-of-band writes to sys/policies/acl
  MaxFailures,    \* bound on failed API-server / OpenBao calls
  MaxRestarts     \* bound on operator process restarts

ASSUME MaxEdits \in Nat /\ MaxDrifts \in Nat /\ MaxFailures \in Nat /\ MaxRestarts \in Nat

(* ToHCL: the rendered documents of a rule list.  The allowed_parameters   *)
(* entries come out in Go map-iteration order, which is randomised, so a   *)
(* rule list has one rendering per order of its keys.                      *)
ToHCL(rs) == {[rules |-> rs, order |-> o] : o \in SetToSeqs(AllowedKeys(rs))}
Docs == UNION {ToHCL(rs) : rs \in RuleSets}

(* The policy version: hex of the first 8 bytes of sha256 of the document. *)
(* Distinct documents give distinct versions.                              *)
Hash(doc) == <<"sha256", doc>>
Versions == {Hash(d) : d \in Docs}

VARIABLES
  life,       \* life[p]: "Absent" | "Live" | "Deleting" | "Gone"
  finalizer,  \* finalizer[p]: kubebao.io/policy-finalizer is stored
  spec,       \* spec[p]: the stored rule list
  status,     \* status[p]: stored Ready condition and PolicyVersion
  stale,      \* stale[p]: stored object changed by someone else since the Get
  queued,     \* queued[p]: key is in the workqueue
  timer,      \* timer[p]: a RequeueAfter is pending
  pc,         \* pc[p]: where p's reconcile is
  snap,       \* snap[p]: the reconcile's in-memory copy of the BaoPolicy
  doc,        \* doc[p]: the document syncPolicy rendered
  bao,        \* bao[p]: the ACL document OpenBao stores under p's name
  written,    \* history: every document a reconcile wrote to OpenBao
  edits, drifts, failures,
  restarts    \* operator process restarts so far

vars == <<life, finalizer, spec, status, stale, queued, timer, pc, snap, doc, bao,
          written, edits, drifts, failures, restarts>>

NoStatus == [ready |-> "None", version |-> None]
Snap_ == [life : {"Live", "Deleting"}, finalizer : BOOLEAN, spec : RuleSets,
          status : [ready : {"None", "True", "False"}, version : Versions \cup {None}]]

TypeOK ==
  /\ life \in [BaoPolicies -> {"Absent", "Live", "Deleting", "Gone"}]
  /\ finalizer \in [BaoPolicies -> BOOLEAN]
  /\ spec \in [BaoPolicies -> RuleSets]
  /\ status \in [BaoPolicies -> [ready : {"None", "True", "False"},
                                 version : Versions \cup {None}]]
  /\ stale \in [BaoPolicies -> BOOLEAN]
  /\ queued \in [BaoPolicies -> BOOLEAN]
  /\ timer \in [BaoPolicies -> BOOLEAN]
  /\ pc \in [BaoPolicies -> {"Idle", "Got", "Finalized", "Rendered", "Synced", "Failed"}]
  /\ \A p \in BaoPolicies : pc[p] # "Idle" => snap[p] \in Snap_
  /\ doc \in [BaoPolicies -> Docs \cup {None}]
  /\ bao \in [BaoPolicies -> Docs \cup {None}]
  /\ written \subseteq Docs
  /\ restarts \in 0..MaxRestarts

Init ==
  /\ life = [p \in BaoPolicies |-> "Absent"]
  /\ finalizer = [p \in BaoPolicies |-> FALSE]
  /\ spec \in [BaoPolicies -> RuleSets]
  /\ status = [p \in BaoPolicies |-> NoStatus]
  /\ stale = [p \in BaoPolicies |-> FALSE]
  /\ queued = [p \in BaoPolicies |-> FALSE]
  /\ timer = [p \in BaoPolicies |-> FALSE]
  /\ pc = [p \in BaoPolicies |-> "Idle"]
  /\ snap = [p \in BaoPolicies |-> None]
  /\ doc = [p \in BaoPolicies |-> None]
  /\ bao = [p \in BaoPolicies |-> None]
  /\ written = {}
  /\ edits = 0 /\ drifts = 0 /\ failures = 0 /\ restarts = 0

(* For(&BaoPolicy{}): any write to the stored object enqueues its key. *)
Enqueue(p) == queued' = [queued EXCEPT ![p] = TRUE]

CanFail == failures < MaxFailures
Fail == failures' = failures + 1

Return(p) == pc' = [pc EXCEPT ![p] = "Idle"]
(* Reconcile returned an error: requeued rate-limited. *)
ReturnErr(p) == Return(p) /\ Enqueue(p)

(* Update / Status().Update: a conflict if the object changed since the Get. *)
ApiOk(p) == ~stale[p]
ApiErr(p) == \/ stale[p] /\ UNCHANGED failures
             \/ ~stale[p] /\ CanFail /\ Fail

-----------------------------------------------------------------------------
(* Environment: users and other OpenBao writers. *)

CreatePolicy(p) ==
  /\ edits < MaxEdits /\ life[p] = "Absent"
  /\ \E rs \in RuleSets : spec' = [spec EXCEPT ![p] = rs]
  /\ life' = [life EXCEPT ![p] = "Live"]
  /\ Enqueue(p) /\ edits' = edits + 1
  /\ UNCHANGED <<finalizer, status, stale, timer, pc, snap, doc, bao, written, drifts, failures, restarts>>

EditRules(p) ==
  /\ edits < MaxEdits /\ life[p] = "Live"
  /\ \E rs \in RuleSets \ {spec[p]} : spec' = [spec EXCEPT ![p] = rs]
  /\ stale' = [stale EXCEPT ![p] = TRUE]
  /\ Enqueue(p) /\ edits' = edits + 1
  /\ UNCHANGED <<life, finalizer, status, timer, pc, snap, doc, bao, written, drifts, failures, restarts>>

DeletePolicy(p) ==
  /\ edits < MaxEdits /\ life[p] = "Live"
  /\ life' = [life EXCEPT ![p] = IF finalizer[p] THEN "Deleting" ELSE "Gone"]
  /\ stale' = [stale EXCEPT ![p] = TRUE]
  /\ Enqueue(p) /\ edits' = edits + 1
  /\ UNCHANGED <<finalizer, spec, status, timer, pc, snap, doc, bao, written, drifts, failures, restarts>>

(* An operator edits sys/policies/acl/<name> directly in OpenBao. *)
DriftPolicy(p) ==
  /\ drifts < MaxDrifts /\ bao[p] # None
  /\ \E d \in Docs \ {bao[p]} : bao' = [bao EXCEPT ![p] = d]
  /\ drifts' = drifts + 1
  /\ UNCHANGED <<life, finalizer, spec, status, stale, queued, timer, pc, snap, doc,
                 written, edits, failures, restarts>>

TimerFires(p) ==
  /\ timer[p]
  /\ timer' = [timer EXCEPT ![p] = FALSE]
  /\ Enqueue(p)
  /\ UNCHANGED <<life, finalizer, spec, status, stale, pc, snap, doc, bao, written,
                 edits, drifts, failures, restarts>>

(* The operator process restarts at any point: the workqueue, RequeueAfter *)
(* timers and the reconcile in flight are lost, possibly between the      *)
(* OpenBao write and the status Update.  On start the informer lists      *)
(* every stored BaoPolicy and For(&BaoPolicy{}) enqueues it.               *)
Restart ==
  /\ restarts < MaxRestarts
  /\ restarts' = restarts + 1
  /\ pc' = [p \in BaoPolicies |-> "Idle"]
  /\ queued' = [p \in BaoPolicies |-> life[p] \in {"Live", "Deleting"}]
  /\ timer' = [p \in BaoPolicies |-> FALSE]
  /\ UNCHANGED <<life, finalizer, spec, status, stale, snap, doc, bao, written,
                 edits, drifts, failures>>

-----------------------------------------------------------------------------
(* BaoPolicyReconciler.Reconcile, one step per API-server or OpenBao call. *)

env == <<spec, edits, drifts, restarts>>

(* Mutant: the IsNotFound early return is missing; an empty object is     *)
(* reconciled.                                                             *)
GetIgnoringNotFound(p) ==
  /\ pc[p] = "Idle" /\ queued[p]
  /\ queued' = [queued EXCEPT ![p] = FALSE]
  /\ snap' = [snap EXCEPT ![p] = [life |-> life[p], finalizer |-> finalizer[p],
                                   spec |-> spec[p], status |-> status[p]]]
  /\ stale' = [stale EXCEPT ![p] = FALSE]
  /\ pc' = [pc EXCEPT ![p] = "Got"]
  /\ UNCHANGED <<life, finalizer, status, timer, doc, bao, written, failures>>
  /\ UNCHANGED env

(* r.Get; NotFound ends the reconcile, another error is returned. *)
Get(p) ==
  /\ pc[p] = "Idle" /\ queued[p]
  /\ \/ /\ CanFail /\ Fail
        /\ UNCHANGED <<queued, snap, stale, pc>>
     \/ /\ queued' = [queued EXCEPT ![p] = FALSE]
        /\ UNCHANGED failures
        /\ IF life[p] \in {"Live", "Deleting"}
             THEN /\ snap' = [snap EXCEPT ![p] = [life |-> life[p], finalizer |-> finalizer[p],
                                                  spec |-> spec[p], status |-> status[p]]]
                  /\ stale' = [stale EXCEPT ![p] = FALSE]
                  /\ pc' = [pc EXCEPT ![p] = "Got"]
             ELSE UNCHANGED <<snap, stale, pc>>
  /\ UNCHANGED <<life, finalizer, status, timer, doc, bao, written>> /\ UNCHANGED env

(* handleDeletion: the backend delete is only logged; the finalizer is     *)
(* removed and the object goes away.                                       *)
HandleDeletion(p) ==
  /\ pc[p] = "Got" /\ snap[p].life = "Deleting"
  /\ \/ /\ ApiOk(p)
        /\ finalizer' = [finalizer EXCEPT ![p] = FALSE]
        /\ life' = [life EXCEPT ![p] = "Gone"]
        /\ Return(p)
        /\ UNCHANGED <<queued, failures>>
     \/ /\ ApiErr(p) /\ ReturnErr(p) /\ UNCHANGED <<life, finalizer>>
  /\ UNCHANGED <<status, stale, timer, snap, doc, bao, written>> /\ UNCHANGED env

(* Mutant: the finalizer is added in memory but the Update is skipped. *)
EnsureFinalizerNotPersisted(p) ==
  /\ pc[p] = "Got" /\ snap[p].life = "Live"
  /\ snap' = [snap EXCEPT ![p].finalizer = TRUE]
  /\ pc' = [pc EXCEPT ![p] = "Finalized"]
  /\ UNCHANGED <<life, finalizer, status, stale, queued, timer, doc, bao, written, failures>>
  /\ UNCHANGED env

EnsureFinalizer(p) ==
  /\ pc[p] = "Got" /\ snap[p].life = "Live"
  /\ \/ /\ snap[p].finalizer
        /\ pc' = [pc EXCEPT ![p] = "Finalized"]
        /\ UNCHANGED <<finalizer, snap, queued, failures>>
     \/ /\ ~snap[p].finalizer /\ ApiOk(p)
        /\ finalizer' = [finalizer EXCEPT ![p] = TRUE]
        /\ snap' = [snap EXCEPT ![p].finalizer = TRUE]
        /\ Enqueue(p)
        /\ pc' = [pc EXCEPT ![p] = "Finalized"]
        /\ UNCHANGED failures
     \/ /\ ~snap[p].finalizer /\ ApiErr(p) /\ ReturnErr(p)
        /\ UNCHANGED <<finalizer, snap>>
  /\ UNCHANGED <<life, status, stale, timer, doc, bao, written>> /\ UNCHANGED env

(* syncPolicy: ToHCL, the hash, and the gate on Status.PolicyVersion.      *)
RenderPolicy(p) ==
  /\ pc[p] = "Finalized"
  /\ \E d \in ToHCL(snap[p].spec) :
       /\ doc' = [doc EXCEPT ![p] = d]
       /\ pc' = [pc EXCEPT ![p] = IF snap[p].status.version = Hash(d) THEN "Synced"
                                                                      ELSE "Rendered"]
  /\ UNCHANGED <<life, finalizer, status, stale, queued, timer, snap, bao, written, failures>>
  /\ UNCHANGED env

(* Mutant: PolicyVersion is recorded before the OpenBao write. *)
WritePolicyVersionFirst(p) ==
  /\ pc[p] = "Rendered"
  /\ snap' = [snap EXCEPT ![p].status.version = Hash(doc[p])]
  /\ \/ /\ bao' = [bao EXCEPT ![p] = doc[p]]
        /\ written' = written \cup {doc[p]}
        /\ pc' = [pc EXCEPT ![p] = "Synced"]
        /\ UNCHANGED failures
     \/ /\ CanFail /\ Fail
        /\ pc' = [pc EXCEPT ![p] = "Failed"]
        /\ UNCHANGED <<bao, written>>
  /\ UNCHANGED <<life, finalizer, status, stale, queued, timer, doc>> /\ UNCHANGED env

(* WriteSecret(sys/policies/acl/<name>), then PolicyVersion and           *)
(* AppliedPolicyName are set in memory.                                    *)
WritePolicy(p) ==
  /\ pc[p] = "Rendered"
  /\ \/ /\ bao' = [bao EXCEPT ![p] = doc[p]]
        /\ written' = written \cup {doc[p]}
        /\ snap' = [snap EXCEPT ![p].status.version = Hash(doc[p])]
        /\ pc' = [pc EXCEPT ![p] = "Synced"]
        /\ UNCHANGED failures
     \/ /\ CanFail /\ Fail
        /\ pc' = [pc EXCEPT ![p] = "Failed"]
        /\ UNCHANGED <<bao, written, snap>>
  /\ UNCHANGED <<life, finalizer, status, stale, queued, timer, doc>> /\ UNCHANGED env

(* Status().Update of the in-memory status, which enqueues p if it changed. *)
(* LastSyncTime (whole seconds) changes whenever the clock moved on.       *)
PutStatus(p, new, changed) ==
  /\ status' = [status EXCEPT ![p] = new]
  /\ queued' = IF changed THEN [queued EXCEPT ![p] = TRUE] ELSE queued

(* setCondition: the Ready condition is updated in place or appended;     *)
(* LastTransitionTime moves only with its status.                         *)
SetCondition(s, type, val) == [s EXCEPT ![type] = val]

(* Success: Ready=True, RequeueAfter(5m). *)
ReportSuccess(p) ==
  /\ pc[p] = "Synced"
  /\ LET new == SetCondition(snap[p].status, "ready", "True") IN
       \/ /\ ApiOk(p)
          /\ \E clockMoved \in BOOLEAN : PutStatus(p, new, new # status[p] \/ clockMoved)
          /\ timer' = [timer EXCEPT ![p] = TRUE]
          /\ Return(p) /\ UNCHANGED failures
       \/ /\ ApiErr(p) /\ ReturnErr(p) /\ UNCHANGED <<status, timer>>
  /\ UNCHANGED <<life, finalizer, stale, snap, doc, bao, written>> /\ UNCHANGED env

(* Mutant: a failed sync returns Result{} instead of RequeueAfter(30s). *)
ReportFailureNoRetry(p) ==
  /\ pc[p] = "Failed"
  /\ LET new == [snap[p].status EXCEPT !.ready = "False"] IN
       \/ /\ ApiOk(p) /\ PutStatus(p, new, new # status[p])
          /\ Return(p) /\ UNCHANGED <<timer, failures>>
       \/ /\ ApiErr(p) /\ ReturnErr(p) /\ UNCHANGED <<status, timer>>
  /\ UNCHANGED <<life, finalizer, stale, snap, doc, bao, written>> /\ UNCHANGED env

(* Failure: Ready=False, RequeueAfter(30s).  The whole in-memory status is *)
(* written, PolicyVersion included.                                        *)
ReportFailure(p) ==
  /\ pc[p] = "Failed"
  /\ LET new == SetCondition(snap[p].status, "ready", "False") IN
       \/ /\ ApiOk(p) /\ PutStatus(p, new, new # status[p])
          /\ timer' = [timer EXCEPT ![p] = TRUE]
          /\ Return(p) /\ UNCHANGED failures
       \/ /\ ApiErr(p) /\ ReturnErr(p) /\ UNCHANGED <<status, timer>>
  /\ UNCHANGED <<life, finalizer, stale, snap, doc, bao, written>> /\ UNCHANGED env

-----------------------------------------------------------------------------

Worker(p) ==
  \/ Get(p) \/ HandleDeletion(p) \/ EnsureFinalizer(p) \/ RenderPolicy(p)
  \/ WritePolicy(p) \/ ReportSuccess(p) \/ ReportFailure(p)

Next ==
  \/ \E p \in BaoPolicies :
       \/ CreatePolicy(p) \/ EditRules(p) \/ DeletePolicy(p) \/ DriftPolicy(p)
       \/ Worker(p) \/ TimerFires(p)
  \/ Restart

(* The workqueue and RequeueAfter timers are fair; users, OpenBao         *)
(* operators and restarts are not.                                         *)
Fairness == \A p \in BaoPolicies : WF_vars(Worker(p)) /\ WF_vars(TimerFires(p))

Spec == Init /\ [][Next]_vars /\ Fairness

-----------------------------------------------------------------------------
(* Properties *)

(* Two-phase delete: syncPolicy writes to OpenBao only for a BaoPolicy     *)
(* whose finalizer is persisted, so its deletion always passes through     *)
(* handleDeletion.                                                         *)
FinalizerBeforeWrite ==
  [][\A p \in BaoPolicies : bao'[p] # bao[p] /\ pc[p] = "Rendered" => finalizer[p]]_vars

(* The stored PolicyVersion only ever names a document a reconcile really  *)
(* wrote to OpenBao (a failed write must not leave a version behind).      *)
VersionWasWritten ==
  \A p \in BaoPolicies : status[p].version # None
     => \E d \in written : status[p].version = Hash(d)

(* Status settles on the rules: once users stop editing, every live        *)
(* BaoPolicy ends Ready=True with a PolicyVersion rendered from its rules. *)
StatusSettles ==
  <>[](\A p \in BaoPolicies :
         life[p] = "Live"
           => /\ status[p].ready = "True"
              /\ \E d \in ToHCL(spec[p]) : status[p].version = Hash(d))

(* Self-heal (spec 4.4): once users and operators stop, OpenBao holds a    *)
(* rendering of every live BaoPolicy's rules.                              *)
BackendConverges ==
  <>[](\A p \in BaoPolicies : life[p] = "Live" => bao[p] \in ToHCL(spec[p]))

=============================================================================
