----------------------------- MODULE SecretPath -----------------------------
(***************************************************************************)
(* The OpenBao request the CSI provider sends for one secret object: the   *)
(* KV v2 path normalisation and the read/write choice of readFromOpenBao   *)
(* (src/internal/csi/secrets.go).                                          *)
(*                                                                         *)
(* A path is the sequence of its "/"-separated segments, each a word from  *)
(* a small set; segments are non-empty.  At that granularity               *)
(*   strings.HasPrefix(path, "secret/")  is  Len(p) >= 2 /\ p[1] = "secret" *)
(*   strings.Contains(path, "/data/")    is  "data" as an inner segment    *)
(*   strings.SplitN(path, "/", 2)        is  <<p[1]>>, Tail(p)             *)
(***************************************************************************)
EXTENDS Naturals, Sequences
LOCAL INSTANCE SequencesExt

CONSTANTS
  EngineMounts,  \* mounts of non-KV engines (database, pki, ...)
  Names,         \* other path segments
  MaxSegments    \* bound on the segments of a path

KVMounts == {"secret", "kv"}
Segments == KVMounts \cup {"data"} \cup EngineMounts \cup Names

(* The SecretObjects a SecretProviderClass may declare: secretPath, and    *)
(* whether secretArgs is non-empty.                                        *)
Objects == [path : SeqOf(Segments, MaxSegments) \ {<<>>}, args : BOOLEAN]

HasMountPrefix(p, m) == Len(p) >= 2 /\ p[1] = m

HasDataSegment(p) == \E i \in 2..Len(p) - 1 : p[i] = "data"

(* readFromOpenBao, before the request: a path outside secret/ and kv/    *)
(* goes under secret/data/; a path under them without /data/ gets "data"  *)
(* after its mount.                                                        *)
NormalizePath(p) ==
  IF ~HasMountPrefix(p, "secret") /\ ~HasMountPrefix(p, "kv")
    THEN <<"secret", "data">> \o p
  ELSE IF ~HasDataSegment(p) THEN <<p[1], "data">> \o Tail(p)
  ELSE p

(* A non-empty secretArgs makes the request a WriteSecret (dynamic        *)
(* secrets), otherwise a ReadSecret, on the normalised path.              *)
BackendRequest(o) ==
  [op |-> IF o.args THEN "write" ELSE "read", path |-> NormalizePath(o.path)]

(* Spec 4.3 step 4: a missing mount prefix becomes the default KV engine  *)
(* and its data sub-path; a KV path gets "data" right after its mount;    *)
(* a path under another engine's mount is that engine's own endpoint.     *)
SpecPath(p) ==
  IF Len(p) >= 2 /\ p[1] \in KVMounts
    THEN IF Len(p) >= 3 /\ p[2] = "data" THEN p
         ELSE <<p[1], "data">> \o Tail(p)
  ELSE IF Len(p) >= 2 /\ p[1] \in EngineMounts THEN p
  ELSE <<"secret", "data">> \o p

SpecRequest(o) ==
  [op |-> IF o.args THEN "write" ELSE "read", path |-> SpecPath(o.path)]

VARIABLE obj

Init == obj \in Objects

Spec == Init /\ [][UNCHANGED obj]_obj

-----------------------------------------------------------------------------
(* Properties *)

(* Every SecretObject is fetched from the backend endpoint spec 4.3       *)
(* names: the request readFromOpenBao sends has the operation and the path *)
(* of SpecRequest.                                                         *)
RequestsDeclaredPath == BackendRequest(obj) = SpecRequest(obj)

=============================================================================
