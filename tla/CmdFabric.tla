------------------------------ MODULE CmdFabric ------------------------------
(***************************************************************************)
(* The path of a load or store of the core to a register of the system:    *)
(*   - the memory stage of the core (Core/rv32i_mcu/MemoryStage.hpp), which *)
(*     holds its request until it is answered, and drops it in that cycle;  *)
(*   - Core/CmdFabric.hpp, which routes it: at once to a register of its    *)
(*     own, through a registered request to a device or, for the broadcast  *)
(*     window, to one cluster after the other, and through wires to a       *)
(*     single cluster (the fast path);                                     *)
(*   - the command port of every cluster (ComputeCluster.hpp).             *)
(*                                                                         *)
(* A step is a rising clock edge; comb_fastpath and the memory stage's      *)
(* request are definitions over the state.  Addresses and data are reduced  *)
(* to the register kind they decode to; an access carries a one-bit name,   *)
(* which its requests and answers carry too.  A cluster's AHB port is not   *)
(* connected in HybridAcc.hpp, and power_enable does not change.           *)
(***************************************************************************)
EXTENDS Integers, FiniteSets

CONSTANTS
  NUM_CLUSTERS,
  Device,      \* DMA, PLIC and TIMER: devices that answer a request at its edge
  Masks        \* the values software writes to CLUSTER_MASK

Clusters == 0 .. NUM_CLUSTERS - 1
NoCluster == NUM_CLUSTERS

ASSUME ClustersAssumption == NUM_CLUSTERS \in Nat \ {0}
ASSUME DevicesAssumption == Device \cap Int = {}
ASSUME MasksAssumption == Masks \subseteq SUBSET Nat /\ Masks # {}

VARIABLES
  access, active,           \* the instruction of the memory stage, if it is an access
  memory_state, done,       \* memory_state_reg, mem_access_done_reg
  state,                    \* the fabric
  cluster_mask, err,        \* CLUSTER_MASK, MMIO_ERR_STATUS
  last_target, bcast, fast_inflight, fast_target,
  slow_req, dev_req, slow_answer,    \* registered wires: sets of at most one
  pending, cl_answer,       \* a cluster's read in hand, and its answer on the wires
  dev_answer,
  power,                    \* the clusters that have power
  hits, refused             \* history: who got the access; an error nobody cleared

core == <<access, active, memory_state, done>>
fabric == <<state, cluster_mask, err, last_target, bcast, fast_inflight, fast_target,
            slow_req, dev_req, slow_answer>>
vars == <<core, fabric, pending, cl_answer, dev_answer, power, hits, refused>>

Ids == {0, 1}
Kinds == {"mask", "clear", "local", "device", "cluster", "bcast", "fault"}
Access == [kind : Kinds, id : Ids, to : Clusters \cup Device \cup {NoCluster},
           mask : Masks, write : BOOLEAN, bad : BOOLEAN]
Answer == [id : Ids, err : BOOLEAN]
Request == [to : Clusters, id : Ids, write : BOOLEAN, bad : BOOLEAN]
States == {"IDLE", "WAIT_DEVICE", "WAIT_CLUSTER", "BCAST_SEQ"}

Ask(k, i, t, m, w, b) == [kind |-> k, id |-> i, to |-> t, mask |-> m, write |-> w, bad |-> b]

\* What does not matter for a kind of access is fixed.
NoMask == CHOOSE m \in Masks : TRUE
Plain(k, i) == Ask(k, i, NoCluster, NoMask, FALSE, FALSE)

\* The accesses software makes.  A cluster that is not there stands for all of those.
Accesses(i) ==
  {Plain(k, i) : k \in {"clear", "local", "fault", "cluster"}}
  \cup {Ask("mask", i, NoCluster, m, FALSE, FALSE) : m \in Masks}
  \cup {Ask("device", i, d, NoMask, FALSE, FALSE) : d \in Device}
  \cup {Ask("cluster", i, c, NoMask, w, b) : c \in Clusters, w \in BOOLEAN, b \in BOOLEAN}
  \cup {Ask("bcast", i, NoCluster, NoMask, w, b) : w \in BOOLEAN, b \in BOOLEAN}

Bcast == [idx : 0 .. NUM_CLUSTERS, write : BOOLEAN, bad : BOOLEAN, id : Ids,
          any_error : BOOLEAN, active : BOOLEAN]

TypeOK ==
  /\ access \in Access /\ active \in BOOLEAN
  /\ memory_state \in BOOLEAN /\ done \in BOOLEAN
  /\ state \in States /\ cluster_mask \in Masks \cup {{}}
  /\ err \subseteq {"decode", "broadcast_read", "target"}
  /\ last_target \in Clusters /\ bcast \in Bcast
  /\ fast_inflight \in BOOLEAN /\ fast_target \in Clusters
  /\ slow_req \subseteq Request
  /\ dev_req \subseteq [to : Device, id : Ids]
  /\ slow_answer \subseteq Ids
  /\ pending \in [Clusters -> SUBSET Answer] /\ cl_answer \in [Clusters -> SUBSET Answer]
  /\ dev_answer \in [Device -> SUBSET Ids]
  /\ power \subseteq Clusters
  /\ hits \in [Clusters \cup Device -> 0 .. 2] /\ refused \in BOOLEAN

NoHits == [t \in Clusters \cup Device |-> 0]

Init ==
  /\ access = Plain("local", 0) /\ active = FALSE /\ memory_state = FALSE /\ done = FALSE
  /\ state = "IDLE" /\ cluster_mask = {} /\ err = {}
  /\ last_target = 0
  /\ bcast = [idx |-> 0, write |-> FALSE, bad |-> FALSE, id |-> 0,
              any_error |-> FALSE, active |-> FALSE]
  /\ fast_inflight = FALSE /\ fast_target = 0
  /\ slow_req = {} /\ dev_req = {} /\ slow_answer = {}
  /\ pending = [c \in Clusters |-> {}] /\ cl_answer = [c \in Clusters |-> {}]
  /\ dev_answer = [d \in Device |-> {}]
  /\ power \in SUBSET Clusters
  /\ hits = NoHits /\ refused = FALSE

-----------------------------------------------------------------------------
(* Wires.                                                                  *)

\* Defect: a cluster's answer to a broadcast shows on the core's wires as well.
core_answer_ungated ==
  IF cl_answer[last_target] # {}
  THEN {a.id : a \in cl_answer[last_target]} ELSE slow_answer

\* mmio_resp_valid, with the name of the access that is answered.
core_answer ==
  IF fast_inflight /\ cl_answer[fast_target] # {}
  THEN {a.id : a \in cl_answer[fast_target]} ELSE slow_answer

dm_valid == core_answer # {}

\* Defect: an access that is answered but held in the stage is requested again.
req_valid_while_held == active /\ ~dm_valid

req_valid == active /\ ~done /\ ~dm_valid

DM_stall == (memory_state \/ active) /\ ~done /\ ~dm_valid

req_ready(c) == c \in power /\ pending[c] = {}

\* The request on the wires of a cluster: a registered one, or the core's own.
cl_req(c) ==
  {r \in slow_req : r.to = c}
  \cup (IF /\ state = "IDLE" /\ ~fast_inflight /\ req_valid
           /\ access.kind = "cluster" /\ access.to = c
        THEN {[to |-> c, id |-> access.id, write |-> access.write, bad |-> access.bad]}
        ELSE {})

fires(c) == IF req_ready(c) THEN cl_req(c) ELSE {}

-----------------------------------------------------------------------------
(* The core.  stall is what the other stages ask for; next what comes into  *)
(* the stage when it moves: an access, or something else.                  *)

MemoryStage(stall, next) ==
  /\ memory_state' = IF memory_state THEN ~dm_valid ELSE active /\ ~done
  /\ done' = \/ dm_valid /\ stall
             \/ done /\ (stall \/ DM_stall)
  /\ IF stall \/ DM_stall THEN UNCHANGED <<access, active>>
     ELSE active' = (next # {}) /\ access' \in (IF next = {} THEN {access} ELSE next)

\* What has been delivered for the access the stage holds.
History ==
  LET reached == {r.to : r \in (UNION {fires(c) : c \in Clusters}) \cup dev_req}
  IN  hits' = IF access' # access THEN NoHits
              ELSE [t \in Clusters \cup Device |->
                      IF t \in reached /\ hits[t] < 2 THEN hits[t] + 1 ELSE hits[t]]

-----------------------------------------------------------------------------
(* The targets.                                                            *)

Answered(requests) == {[id |-> r.id, err |-> r.bad] : r \in requests}

\* A write is done at the edge that takes it, a read is answered an edge later.
ClusterPorts ==
  /\ pending' = [c \in Clusters |->
       IF c \notin power THEN {} ELSE Answered({r \in fires(c) : ~r.write})]
  /\ cl_answer' = [c \in Clusters |->
       IF c \notin power THEN {}
       ELSE pending[c] \cup Answered({r \in fires(c) : r.write})]

Devices ==
  dev_answer' = [d \in Device |-> {r.id : r \in {q \in dev_req : q.to = d}}]

-----------------------------------------------------------------------------
(* The fabric.                                                             *)

\* Defect: an error of a fast access is not recorded.
FastErrorsDropped == {}

\* The errors that the end of a fast access brings.
FastErrors ==
  IF fast_inflight /\ \E a \in cl_answer[fast_target] : a.err THEN {"target"} ELSE {}

\* Defect: an answer with an error does not end the fast path.
fast_over_if_ok == fast_inflight /\ \E a \in cl_answer[fast_target] : ~a.err

\* The fast path ends with the cluster's answer.
fast_over == fast_inflight /\ cl_answer[fast_target] # {}

NoRequest == slow_req' = {} /\ dev_req' = {}
Answers(ids) == slow_answer' = ids
KeepFast == fast_inflight' = (fast_inflight /\ ~fast_over) /\ UNCHANGED fast_target
Record(errors) == err' = err \cup FastErrors \cup errors

\* No access waits, or the cluster it is for is not ready, or has it.
Rest ==
  /\ state = "IDLE"
  /\ req_valid =>
       \/ /\ access.kind = "cluster" /\ access.to \in Clusters
          /\ fast_inflight \/ ~req_ready(access.to)
       \/ /\ access.kind = "bcast" /\ ~access.write
          /\ \E c \in Clusters : cluster_mask \cap Clusters = {c} /\ ~req_ready(c)
  /\ NoRequest /\ Answers({}) /\ Record({}) /\ KeepFast
  /\ UNCHANGED <<state, cluster_mask, last_target, bcast, refused>>

Routed(kind) == state = "IDLE" /\ req_valid /\ access.kind = kind

WriteMask ==
  /\ Routed("mask") /\ cluster_mask' = access.mask
  /\ NoRequest /\ Answers({access.id}) /\ Record({}) /\ KeepFast
  /\ UNCHANGED <<state, last_target, bcast, refused>>

\* A write of ones to MMIO_ERR_STATUS.
ClearErrors ==
  /\ Routed("clear") /\ err' = {} /\ refused' = FALSE
  /\ NoRequest /\ Answers({access.id}) /\ KeepFast
  /\ UNCHANGED <<state, cluster_mask, last_target, bcast>>

OtherLocal ==
  /\ Routed("local")
  /\ NoRequest /\ Answers({access.id}) /\ Record({}) /\ KeepFast
  /\ UNCHANGED <<state, cluster_mask, last_target, bcast, refused>>

\* An address of nothing, of a cluster that is not there, and a read of several.
Fault ==
  /\ \/ /\ Routed("fault") \/ (Routed("cluster") /\ access.to = NoCluster)
        /\ Record({"decode"})
     \/ /\ Routed("bcast") /\ ~access.write /\ cluster_mask # {}
        /\ Cardinality(cluster_mask \cap Clusters) # 1
        /\ Record({"broadcast_read"})
  /\ NoRequest /\ Answers({access.id}) /\ KeepFast
  /\ UNCHANGED <<state, cluster_mask, last_target, bcast, refused>>

ToDevice ==
  /\ Routed("device") /\ state' = "WAIT_DEVICE"
  /\ dev_req' = {[to |-> access.to, id |-> access.id]} /\ slow_req' = {}
  /\ Answers({}) /\ Record({}) /\ KeepFast
  /\ UNCHANGED <<cluster_mask, last_target, bcast, refused>>

\* The cluster takes the request from the wires at this edge.
ToCluster ==
  /\ Routed("cluster") /\ ~fast_inflight
  /\ access.to \in Clusters /\ req_ready(access.to)
  /\ fast_inflight' = TRUE /\ fast_target' = access.to /\ last_target' = access.to
  /\ refused' = (refused \/ access.bad)
  /\ NoRequest /\ Answers({}) /\ Record({})
  /\ UNCHANGED <<state, cluster_mask, bcast>>

\* A broadcast with no bit in the mask is over at once.
ToNobody ==
  /\ Routed("bcast") /\ cluster_mask = {}
  /\ NoRequest /\ Answers({access.id}) /\ Record({}) /\ KeepFast
  /\ UNCHANGED <<state, cluster_mask, last_target, bcast, refused>>

\* A broadcast read with one bit in the mask is a read of that cluster.
ReadThroughMask ==
  /\ Routed("bcast") /\ ~access.write
  /\ \E c \in Clusters :
       /\ cluster_mask \cap Clusters = {c} /\ req_ready(c)
       /\ slow_req' = {[to |-> c, id |-> access.id, write |-> FALSE, bad |-> access.bad]}
       /\ last_target' = c
  /\ state' = "WAIT_CLUSTER" /\ dev_req' = {}
  /\ Answers({}) /\ Record({}) /\ KeepFast
  /\ UNCHANGED <<cluster_mask, bcast, refused>>

BeginBroadcast ==
  /\ Routed("bcast") /\ access.write /\ cluster_mask # {}
  /\ bcast' = [idx |-> 0, write |-> TRUE, bad |-> access.bad, id |-> access.id,
               any_error |-> FALSE, active |-> TRUE]
  /\ state' = "BCAST_SEQ" /\ NoRequest /\ Answers({}) /\ Record({}) /\ KeepFast
  /\ UNCHANGED <<cluster_mask, last_target, refused>>

\* The clusters of the mask the broadcast has not come to.
ahead == {c \in cluster_mask \cap Clusters : c >= bcast.idx}

NextTarget ==
  /\ state = "BCAST_SEQ"
  /\ \E c \in ahead :
       /\ \A d \in ahead : c <= d
       /\ req_ready(c)
       /\ slow_req' = {[to |-> c, id |-> bcast.id, write |-> bcast.write, bad |-> bcast.bad]}
       /\ last_target' = c /\ bcast' = [bcast EXCEPT !.idx = c]
  /\ state' = "WAIT_CLUSTER" /\ dev_req' = {}
  /\ Answers({}) /\ Record({}) /\ KeepFast
  /\ UNCHANGED <<cluster_mask, refused>>

Blocked ==
  /\ state = "BCAST_SEQ" /\ ahead # {}
  /\ \A c \in ahead : (\A d \in ahead : c <= d) => ~req_ready(c)
  /\ NoRequest /\ Answers({}) /\ Record({}) /\ KeepFast
  /\ UNCHANGED <<state, cluster_mask, last_target, bcast, refused>>

EndBroadcast ==
  /\ state = "BCAST_SEQ" /\ ahead = {}
  /\ bcast' = [bcast EXCEPT !.active = FALSE] /\ state' = "IDLE"
  /\ Record(IF bcast.any_error THEN {"target"} ELSE {})
  /\ NoRequest /\ Answers({bcast.id}) /\ KeepFast
  /\ UNCHANGED <<cluster_mask, last_target, refused>>

\* The cluster a broadcast goes on from.
resume_at == last_target + 1

\* WAIT_CLUSTER, with the answer of the target or without.
WaitCluster ==
  /\ state = "WAIT_CLUSTER"
  /\ LET answer == cl_answer[last_target]
         failed == \E a \in answer : a.err
     IN  /\ Record(IF failed THEN {"target"} ELSE {})
         /\ IF answer = {} THEN UNCHANGED <<state, bcast>> /\ Answers({})
            ELSE IF bcast.active
            THEN /\ bcast' = [bcast EXCEPT !.idx = resume_at, !.any_error = @ \/ failed]
                 /\ state' = "BCAST_SEQ" /\ Answers({})
            ELSE /\ UNCHANGED bcast /\ state' = "IDLE" /\ Answers({a.id : a \in answer})
  /\ refused' = (refused \/ \E r \in slow_req : r.bad /\ r \in fires(r.to))
  /\ NoRequest /\ KeepFast
  /\ UNCHANGED <<cluster_mask, last_target>>

WaitDevice ==
  /\ state = "WAIT_DEVICE"
  /\ LET ids == UNION {dev_answer[d] : d \in Device}
     IN  Answers(ids) /\ state' = IF ids = {} THEN "WAIT_DEVICE" ELSE "IDLE"
  /\ NoRequest /\ Record({}) /\ KeepFast
  /\ UNCHANGED <<cluster_mask, last_target, bcast, refused>>

Fabric ==
  \/ Rest \/ WriteMask \/ ClearErrors \/ OtherLocal \/ Fault \/ ToDevice \/ ToCluster
  \/ ToNobody \/ ReadThroughMask \/ BeginBroadcast \/ NextTarget \/ Blocked
  \/ EndBroadcast \/ WaitCluster \/ WaitDevice

Next ==
  /\ \E stall \in BOOLEAN : \E next \in {{}, Accesses(1 - access.id)} : MemoryStage(stall, next)
  /\ Fabric /\ ClusterPorts /\ Devices /\ History
  /\ UNCHANGED power

Spec == Init /\ [][Next]_vars

\* The clock runs.
FairSpec == Spec /\ WF_vars(Next)

-----------------------------------------------------------------------------
(* Properties.                                                             *)

\* Who has to get the access that the stage holds.
Targets ==
  CASE access.kind \in {"cluster", "device"} -> {access.to} \ {NoCluster}
    [] access.kind = "bcast" /\ (access.write \/ Cardinality(cluster_mask \cap Clusters) = 1) ->
         cluster_mask \cap Clusters
    [] OTHER -> {}

\* Every register access reaches each of its targets exactly once and reaches
\* nothing else: not twice while the stage is held after the answer, not twice
\* when a broadcast goes on, and never after the answer
\* (MemoryStage::compute_comb and CmdFabric::seq_process, BCAST_SEQ).
OncePerTarget ==
  \A t \in Clusters \cup Device :
    /\ hits[t] <= (IF t \in Targets THEN 1 ELSE 0)
    /\ dm_valid \/ done => (t \in Targets => hits[t] = 1)

\* What reaches the memory stage is the answer to the access that waits in it,
\* never one that is left over from an earlier access (CmdFabric::comb_fastpath
\* and the slow_core_resp registers).
AnswerIsMine ==
  dm_valid => active /\ ~done /\ core_answer = {access.id}

\* When the fabric is at rest, a cluster's refusal that software has not
\* cleared can be read in MMIO_ERR_STATUS, whichever way the access took
\* (CmdFabric::seq_process: fast path, WAIT_CLUSTER, end of BCAST_SEQ).
ErrorTold ==
  state = "IDLE" /\ ~fast_inflight /\ refused => "target" \in err

\* An access to clusters that have power is answered
\* (MemoryStage::compute_comb, CmdFabric::seq_process).
EveryAccessAnswered ==
  (active /\ Targets \ Device \subseteq power) ~> (dm_valid \/ done)
=============================================================================
