--------------------------- MODULE CmdFabric_proofs ---------------------------
(***************************************************************************)
(* CmdFabric for any number of clusters and devices, any masks and any     *)
(* stalls.  An access is in one place at a time: the stage, a registered   *)
(* request, a target's hand, the wires of its answer.  The invariant says  *)
(* in which, state by state of the fabric, and whom it has reached so far. *)
(***************************************************************************)
EXTENDS CmdFabric, FiniteSetTheorems, TLAPS

Waiting == active /\ ~done

\* The targets in S have got the access, once.
Got(S) == [t \in Clusters \cup Device |-> IF t \in S THEN 1 ELSE 0]

\* What the clusters have if c has S and the others nothing.
Only(c, S) == [d \in Clusters |-> IF d = c THEN S ELSE {}]
Nothing == [c \in Clusters |-> {}]
ClustersIdle == pending = Nothing /\ cl_answer = Nothing
DevicesIdle == dev_req = {} /\ dev_answer = [d \in Device |-> {}]

\* The cluster c has the access in hand, or answers it, and no other has anything.
MyAnswer == [id : {access.id}, err : BOOLEAN]
InHand(c) == \E a \in MyAnswer : pending = Only(c, {a}) /\ cl_answer = Nothing
OnWires(c) == \E a \in MyAnswer : pending = Nothing /\ cl_answer = Only(c, {a})
OneAnswer(c) == c \in power /\ (InHand(c) \/ OnWires(c))

AtRest ==
  state = "IDLE" /\ ~fast_inflight =>
    /\ slow_req = {} /\ ClustersIdle /\ DevicesIdle
    /\ slow_answer # {} => Waiting /\ slow_answer = {access.id}
    /\ hits = Got(IF Waiting /\ slow_answer = {} THEN {} ELSE Targets)

OnFastPath ==
  state = "IDLE" /\ fast_inflight =>
    /\ slow_req = {} /\ slow_answer = {} /\ DevicesIdle
    /\ Waiting /\ access.kind = "cluster" /\ access.to = fast_target
    /\ OneAnswer(fast_target) /\ hits = Got(Targets)

AtDevice ==
  state = "WAIT_DEVICE" =>
    /\ slow_req = {} /\ slow_answer = {} /\ ClustersIdle
    /\ Waiting /\ access.kind = "device" /\ access.to \in Device
    /\ \/ /\ dev_req = {[to |-> access.to, id |-> access.id]}
          /\ dev_answer = [d \in Device |-> {}] /\ hits = Got({})
       \/ /\ dev_req = {} /\ hits = Got(Targets)
          /\ dev_answer = [d \in Device |-> IF d = access.to THEN {access.id} ELSE {}]

\* A broadcast has reached the targets before the one it is at.
InBroadcast ==
  state \in {"WAIT_CLUSTER", "BCAST_SEQ"} =>
    /\ slow_answer = {} /\ DevicesIdle /\ Waiting /\ access.kind = "bcast"
    /\ bcast.active => access.write /\ bcast.id = access.id

BetweenTargets ==
  state = "BCAST_SEQ" =>
    /\ bcast.active /\ slow_req = {} /\ ClustersIdle
    /\ hits = Got({t \in Targets : t < bcast.idx})

MyRequest(c) == [to : {c}, id : {access.id}, write : BOOLEAN, bad : BOOLEAN]

AtTarget ==
  state = "WAIT_CLUSTER" =>
    /\ last_target \in Targets /\ (~bcast.active => Targets = {last_target})
    /\ \/ /\ \E r \in MyRequest(last_target) : slow_req = {r}
          /\ last_target \in power /\ ClustersIdle
          /\ hits = Got({t \in Targets : t < last_target})
       \/ /\ slow_req = {} /\ OneAnswer(last_target)
          /\ hits = Got({t \in Targets : t <= last_target})

\* Only an access that is under way to a target leaves the state IDLE.
Modes ==
  /\ done => active
  /\ fast_inflight => state = "IDLE"
  /\ bcast.active => state \in {"WAIT_CLUSTER", "BCAST_SEQ"}

\* A refusal is recorded, or it is on its way to the record.
Told ==
  refused => \/ "target" \in err
             \/ \E c \in Clusters : \E a \in pending[c] \cup cl_answer[c] : a.err

\* The types of what the rest of the invariant says nothing about.
Registers ==
  /\ access \in Access /\ active \in BOOLEAN
  /\ access.kind = "device" => access.to \in Device
  /\ memory_state \in BOOLEAN /\ done \in BOOLEAN
  /\ state \in States /\ cluster_mask \in Masks \cup {{}}
  /\ err \subseteq {"decode", "broadcast_read", "target"}
  /\ last_target \in Clusters /\ bcast \in Bcast
  /\ fast_inflight \in BOOLEAN /\ fast_target \in Clusters
  /\ power \subseteq Clusters /\ refused \in BOOLEAN

Place == AtRest /\ OnFastPath /\ AtDevice /\ InBroadcast /\ BetweenTargets /\ AtTarget

IInv == Registers /\ Modes /\ Place /\ Told

-----------------------------------------------------------------------------
(* Types.                                                                  *)

LEMMA ClustersTyped ==
  /\ 0 \in Clusters /\ Clusters \subseteq Int /\ NUM_CLUSTERS \notin Clusters
  /\ \A c \in Clusters : c \in Int /\ ~(c < 0)
BY ClustersAssumption DEF Clusters

\* What software asks for are accesses.
LEMMA AccessesTyped ==
  /\ \A i \in Ids, k \in Kinds : Plain(k, i) \in Access
  /\ \A i \in Ids : \A x \in Accesses(i) :
       x \in Access /\ x.id = i /\ (x.kind = "device" => x.to \in Device)
<1>1. /\ NoMask \in Masks /\ NoCluster \in Clusters \cup Device \cup {NoCluster}
      /\ Clusters \cup Device \subseteq Clusters \cup Device \cup {NoCluster}
  BY MasksAssumption DEF NoMask
<1>2. \A i \in Ids, k \in Kinds, t \in Clusters \cup Device \cup {NoCluster}, m \in Masks,
         w \in BOOLEAN, b \in BOOLEAN : Ask(k, i, t, m, w, b) \in Access
  BY DEF Ask, Access
<1>3. \A i, k, t, m, w, b : LET a == Ask(k, i, t, m, w, b)
                              IN  a.id = i /\ a.kind = k /\ a.to = t
  BY DEF Ask
<1>4. ASSUME NEW i \in Ids, NEW x \in Accesses(i)
      PROVE  \E k \in Kinds, t \in Clusters \cup Device \cup {NoCluster}, m \in Masks,
                w \in BOOLEAN, b \in BOOLEAN :
                  x = Ask(k, i, t, m, w, b) /\ (k = "device" => t \in Device)
  <2> DEFINE P == {Plain(k, i) : k \in {"clear", "local", "fault", "cluster"}}
             M == {Ask("mask", i, NoCluster, m, FALSE, FALSE) : m \in Masks}
             D == {Ask("device", i, d, NoMask, FALSE, FALSE) : d \in Device}
             C == {Ask("cluster", i, c, NoMask, w, b) : c \in Clusters, w \in BOOLEAN, b \in BOOLEAN}
             B == {Ask("bcast", i, NoCluster, NoMask, w, b) : w \in BOOLEAN, b \in BOOLEAN}
             Goal == \E k \in Kinds, t \in Clusters \cup Device \cup {NoCluster}, m \in Masks,
                        w \in BOOLEAN, b \in BOOLEAN :
                          x = Ask(k, i, t, m, w, b) /\ (k = "device" => t \in Device)
  <2>1. x \in P => Goal
    BY <1>1 DEF Plain, Kinds
  <2>2. x \in M => Goal
    BY <1>1 DEF Kinds
  <2>3. x \in D => Goal
    BY <1>1 DEF Kinds
  <2>4. x \in C => Goal
    BY <1>1 DEF Kinds
  <2>5. x \in B => Goal
    BY <1>1 DEF Kinds
  <2>6. Accesses(i) = P \cup M \cup D \cup C \cup B
    BY DEF Accesses
  <2> HIDE DEF P, M, D, C, B
  <2>7. x \in P \/ x \in M \/ x \in D \/ x \in C \/ x \in B
    BY <2>6
  <2> QED
    BY <2>1, <2>2, <2>3, <2>4, <2>5, <2>7
<1>5. \A i \in Ids, k \in Kinds : Plain(k, i) \in Access
  BY <1>1, <1>2 DEF Plain
<1>6. \A i \in Ids : \A x \in Accesses(i) :
        x \in Access /\ x.id = i /\ (x.kind = "device" => x.to \in Device)
  BY <1>2, <1>3, <1>4
<1> QED
  BY <1>5, <1>6

\* The places that the invariant names are of the right types.
LEMMA PlacesTyped == IInv => TypeOK
<1> SUFFICES ASSUME IInv PROVE TypeOK
  OBVIOUS
<1> USE DEF IInv, Registers, Place
<1>1. access.id \in Ids /\ access.to \in Clusters \cup Device \cup {NoCluster}
  BY DEF Access
<1>2. /\ Nothing \in [Clusters -> SUBSET Answer]
      /\ \A c : \A a \in MyAnswer : Only(c, {a}) \in [Clusters -> SUBSET Answer]
  BY <1>1 DEF Nothing, Only, MyAnswer, Answer
<1>3. ASSUME NEW c, OneAnswer(c)
      PROVE  pending \in [Clusters -> SUBSET Answer] /\ cl_answer \in [Clusters -> SUBSET Answer]
  <2>1. PICK a \in MyAnswer : \/ pending = Only(c, {a}) /\ cl_answer = Nothing
                              \/ pending = Nothing /\ cl_answer = Only(c, {a})
    BY <1>3 DEF OneAnswer, InHand, OnWires
  <2> QED
    BY <1>2, <2>1
<1>4. /\ pending \in [Clusters -> SUBSET Answer]
      /\ cl_answer \in [Clusters -> SUBSET Answer]
  BY <1>2, <1>3 DEF AtRest, OnFastPath, AtDevice, BetweenTargets, AtTarget, ClustersIdle, States
<1>5. slow_req \subseteq Request
  <2>1. \A r \in MyRequest(last_target) : r \in Request
    BY <1>1 DEF MyRequest, Request
  <2> QED
    BY <2>1 DEF AtRest, OnFastPath, AtDevice, BetweenTargets, AtTarget, States
<1>6. dev_req \subseteq [to : Device, id : Ids] /\ dev_answer \in [Device -> SUBSET Ids]
  BY <1>1 DEF AtRest, OnFastPath, AtDevice, InBroadcast, DevicesIdle, States
<1>7. slow_answer \subseteq Ids
  BY <1>1 DEF AtRest, OnFastPath, AtDevice, InBroadcast, States
<1>8. \A S : Got(S) \in [Clusters \cup Device -> 0 .. 2]
  BY DEF Got
<1>9. hits \in [Clusters \cup Device -> 0 .. 2]
  BY <1>8 DEF AtRest, OnFastPath, AtDevice, BetweenTargets, AtTarget, States
<1> QED
  BY <1>4, <1>5, <1>6, <1>7, <1>9 DEF TypeOK

LEMMA InitIInv == Init => IInv
<1> SUFFICES ASSUME Init PROVE IInv
  OBVIOUS
<1>1. Registers
  <2>1. access \in Access /\ access.kind # "device"
    BY AccessesTyped DEF Init, Ids, Kinds, Plain, Ask
  <2>2. bcast \in Bcast
    BY ClustersAssumption DEF Init, Bcast, Ids
  <2> QED
    BY <2>1, <2>2, ClustersTyped DEF Init, Registers, States
<1>2. Targets = {}
  BY DEF Init, Targets, Plain, Ask
<1>3. AtRest
  BY <1>2 DEF Init, AtRest, ClustersIdle, DevicesIdle, Nothing, NoHits, Got, Waiting
<1> QED
  BY <1>1, <1>3 DEF Init, IInv, Place, Modes, Told, OnFastPath, AtDevice, InBroadcast,
                    BetweenTargets, AtTarget

-----------------------------------------------------------------------------
(* What an edge does to the stage, the wires and the targets.              *)

Step(stall, next) ==
  /\ next \in {{}, Accesses(1 - access.id)}
  /\ MemoryStage(stall, next) /\ ClusterPorts /\ Devices /\ History
  /\ UNCHANGED power

\* An access that has no answer stays in the stage.
LEMMA Held ==
  ASSUME Waiting, ~dm_valid, NEW stall \in BOOLEAN, NEW next, Step(stall, next)
  PROVE  access' = access /\ Waiting'
BY DEF Step, MemoryStage, Waiting, DM_stall

\* Else it is held, with its answer seen, or leaves; another one comes fresh.
LEMMA Freed ==
  ASSUME Registers, Modes, ~(Waiting /\ ~dm_valid), dm_valid => Waiting,
         NEW stall \in BOOLEAN, NEW next, Step(stall, next)
  PROVE  /\ done' => active'
         /\ \/ access' = access /\ ~Waiting'
            \/ access' # access /\ Waiting'
<1>1. access.id \in Ids
  BY DEF Registers, Access
<1>2. 1 - access.id \in Ids /\ 1 - access.id # access.id
  BY <1>1 DEF Ids
<1>3. \A x \in Accesses(1 - access.id) : x.id = 1 - access.id
  BY <1>2, AccessesTyped
<1>4. CASE stall \/ DM_stall
  BY <1>4 DEF Step, MemoryStage, Waiting, DM_stall, Modes, Registers
<1>5. CASE ~(stall \/ DM_stall)
  <2>1. done' = FALSE /\ active' = (next # {}) /\ access' \in (IF next = {} THEN {access} ELSE next)
    BY <1>5 DEF Step, MemoryStage, Waiting, DM_stall, Modes
  <2> QED
    BY <1>2, <1>3, <2>1 DEF Step, Waiting
<1> QED
  BY <1>4, <1>5

\* Who gets a request at this edge.
Reached == {r.to : r \in (UNION {fires(c) : c \in Clusters}) \cup dev_req}

\* The account of who has got the access.
LEMMA Account ==
  ASSUME NEW stall, NEW next, Step(stall, next), NEW S, hits = Got(S),
         Reached \cap S = {}
  PROVE  hits' = IF access' # access THEN Got({}) ELSE Got(S \cup Reached)
<1>1. hits' = IF access' # access THEN NoHits
              ELSE [t \in Clusters \cup Device |->
                      IF t \in Reached /\ hits[t] < 2 THEN hits[t] + 1 ELSE hits[t]]
  BY DEF Step, History, Reached
<1>2. NoHits = Got({})
  BY DEF NoHits, Got
<1>3. \A t \in Clusters \cup Device :
        (IF t \in Reached /\ hits[t] < 2 THEN hits[t] + 1 ELSE hits[t])
          = (IF t \in S \cup Reached THEN 1 ELSE 0)
  BY DEF Got
<1> HIDE DEF Reached
<1>4. [t \in Clusters \cup Device |->
         IF t \in Reached /\ hits[t] < 2 THEN hits[t] + 1 ELSE hits[t]] = Got(S \cup Reached)
  BY <1>3 DEF Got
<1> QED
  BY <1>1, <1>2, <1>4

\* The core drives a cluster's wires.
CoreDrives ==
  /\ state = "IDLE" /\ ~fast_inflight /\ req_valid
  /\ access.kind = "cluster" /\ access.to \in Clusters

\* With no request on the wires, or one that is not taken, nothing fires.
LEMMA NoFire ==
  ASSUME slow_req = {}, CoreDrives => ~req_ready(access.to)
  PROVE  \A c \in Clusters : fires(c) = {}
BY DEF fires, cl_req, CoreDrives

LEMMA NobodyReached ==
  ASSUME \A c \in Clusters : fires(c) = {}, dev_req = {}
  PROVE  Reached = {}
BY DEF Reached

\* Targets that have nothing get nothing.
LEMMA ClustersStayIdle ==
  ASSUME NEW stall, NEW next, Step(stall, next), ClustersIdle, \A c \in Clusters : fires(c) = {}
  PROVE  ClustersIdle'
<1>1. \A c \in Clusters : Answered({r \in fires(c) : r.write}) = {}
                          /\ Answered({r \in fires(c) : ~r.write}) = {}
  BY DEF Answered
<1> QED
  BY <1>1 DEF Step, ClusterPorts, ClustersIdle, Nothing

LEMMA DevicesStayIdle ==
  ASSUME NEW stall, NEW next, Step(stall, next), dev_req = {}, dev_req' = {}
  PROVE  DevicesIdle'
BY DEF Step, Devices, DevicesIdle

\* A request that is taken is in the cluster's hand (a read) or answered (a write).
LEMMA Taken ==
  ASSUME NEW stall, NEW next, Step(stall, next), access' = access, ClustersIdle,
         NEW c \in Clusters, NEW r \in MyRequest(c), c \in power,
         fires(c) = {r}, \A d \in Clusters \ {c} : fires(d) = {}
  PROVE  /\ OneAnswer(c)'
         /\ r.bad => \E a \in pending'[c] \cup cl_answer'[c] : a.err
<1> DEFINE a == [id |-> r.id, err |-> r.bad]
<1>1. a \in MyAnswer /\ MyAnswer' = MyAnswer
  BY DEF MyAnswer, MyRequest
<1>2. \A d \in Clusters \ {c} : Answered({q \in fires(d) : q.write}) = {}
                                /\ Answered({q \in fires(d) : ~q.write}) = {}
  BY DEF Answered
<1>3. CASE r.write
  <2>1. Answered({q \in fires(c) : q.write}) = {a} /\ Answered({q \in fires(c) : ~q.write}) = {}
    BY <1>3 DEF Answered
  <2>2. pending' = Nothing /\ cl_answer' = Only(c, {a})
    BY <1>2, <2>1 DEF Step, ClusterPorts, ClustersIdle, Nothing, Only
  <2>3. OnWires(c)'
    BY <1>1, <2>2 DEF OnWires
  <2>4. cl_answer'[c] = {a} /\ a.err = r.bad
    BY <2>2 DEF Only
  <2>5. OneAnswer(c)'
    BY <2>3 DEF OneAnswer, Step
  <2> QED
    BY <2>4, <2>5
<1>4. CASE ~r.write
  <2>1. Answered({q \in fires(c) : ~q.write}) = {a} /\ Answered({q \in fires(c) : q.write}) = {}
    BY <1>4 DEF Answered
  <2>2. pending' = Only(c, {a})
    BY <1>2, <2>1 DEF Step, ClusterPorts, Only
  <2>3. cl_answer' = Nothing
    BY <1>2, <2>1 DEF Step, ClusterPorts, ClustersIdle, Nothing
  <2>4. InHand(c)'
    BY <1>1, <2>2, <2>3 DEF InHand
  <2>5. pending'[c] = {a} /\ a.err = r.bad
    BY <2>2 DEF Only
  <2>6. OneAnswer(c)'
    BY <2>4 DEF OneAnswer, Step
  <2> QED
    BY <2>5, <2>6
<1> QED
  BY <1>3, <1>4

\* A read in hand is answered at the next edge, and an answer is over after one.
LEMMA Passes ==
  ASSUME NEW stall, NEW next, Step(stall, next), NEW c \in Clusters, c \in power,
         \A d \in Clusters : fires(d) = {}
  PROVE  /\ InHand(c) /\ access' = access =>
              /\ OneAnswer(c)' /\ pending[c] = cl_answer'[c] /\ cl_answer[c] = {}
         /\ OnWires(c) => ClustersIdle' /\ cl_answer[c] # {}
<1>1. \A d \in Clusters : Answered({q \in fires(d) : q.write}) = {}
                          /\ Answered({q \in fires(d) : ~q.write}) = {}
  BY DEF Answered
<1>2. /\ pending' = Nothing
      /\ cl_answer' = [d \in Clusters |-> IF d \notin power THEN {} ELSE pending[d]]
  BY <1>1 DEF Step, ClusterPorts, Nothing
<1>3. ASSUME InHand(c), access' = access
      PROVE  OneAnswer(c)' /\ pending[c] = cl_answer'[c] /\ cl_answer[c] = {}
  <2>1. PICK a \in MyAnswer : pending = Only(c, {a}) /\ cl_answer = Nothing
    BY <1>3 DEF InHand
  <2>2. cl_answer' = Only(c, {a})
    BY <1>2, <2>1 DEF Only
  <2>3. a \in MyAnswer' /\ power' = power
    BY <1>3 DEF MyAnswer, Step
  <2> QED
    BY <1>2, <2>1, <2>2, <2>3 DEF OneAnswer, OnWires, Only, Nothing
<1>4. ASSUME OnWires(c) PROVE ClustersIdle' /\ cl_answer[c] # {}
  <2>1. PICK a \in MyAnswer : pending = Nothing /\ cl_answer = Only(c, {a})
    BY <1>4 DEF OnWires
  <2> QED
    BY <1>2, <2>1 DEF ClustersIdle, Only, Nothing
<1> QED
  BY <1>3, <1>4

-----------------------------------------------------------------------------
(* Who has to get an access.                                               *)

LEMMA TargetsOf ==
  ASSUME Registers
  PROVE  /\ access.kind = "cluster" /\ access.to \in Clusters => Targets = {access.to}
         /\ access.kind = "cluster" /\ access.to = NoCluster => Targets = {}
         /\ access.kind = "device" /\ access.to \in Device => Targets = {access.to}
         /\ access.kind \notin {"cluster", "device", "bcast"} => Targets = {}
         /\ access.kind = "bcast" /\ access.write => Targets = cluster_mask \cap Clusters
         /\ access.kind = "bcast" => Targets \subseteq Clusters
         /\ access.kind = "bcast" /\ cluster_mask = {} => Targets = {}
         /\ access.kind = "bcast" /\ ~access.write
              /\ Cardinality(cluster_mask \cap Clusters) # 1 => Targets = {}
         /\ \A c \in Clusters :
              access.kind = "bcast" /\ cluster_mask \cap Clusters = {c} => Targets = {c}
<1>1. /\ access.kind = "cluster" /\ access.to \in Clusters => Targets = {access.to}
      /\ access.kind = "cluster" /\ access.to = NoCluster => Targets = {}
  BY ClustersTyped DEF Targets, NoCluster
<1>2. access.kind = "device" /\ access.to \in Device => Targets = {access.to}
  BY DevicesAssumption, ClustersAssumption DEF Targets, NoCluster
<1>3. access.kind \notin {"cluster", "device", "bcast"} => Targets = {}
  BY DEF Targets
<1>4. access.kind = "bcast" =>
        Targets = IF access.write \/ Cardinality(cluster_mask \cap Clusters) = 1
                  THEN cluster_mask \cap Clusters ELSE {}
  BY DEF Targets
<1>5. \A c \in Clusters : Cardinality({c}) = 1
  BY FS_Singleton
<1> QED
  BY <1>1, <1>2, <1>3, <1>4, <1>5

LEMMA TargetsStay ==
  ASSUME access' = access, access.kind = "bcast" => cluster_mask' = cluster_mask
  PROVE  Targets' = Targets
<1>1. CASE access.kind = "bcast"
  BY <1>1 DEF Targets
<1>2. CASE access.kind # "bcast"
  BY <1>2 DEF Targets
<1> QED
  BY <1>1, <1>2

\* A request from the wires: only the cluster it names can take it.
LEMMA OneFires ==
  ASSUME NEW c \in Clusters, req_ready(c), NEW r,
         \/ CoreDrives /\ access.to = c /\ slow_req = {}
              /\ r = [to |-> c, id |-> access.id, write |-> access.write, bad |-> access.bad]
         \/ state # "IDLE" /\ slow_req = {r} /\ r.to = c
  PROVE  fires(c) = {r} /\ \A d \in Clusters \ {c} : fires(d) = {}
<1>1. CASE /\ CoreDrives /\ access.to = c /\ slow_req = {}
           /\ r = [to |-> c, id |-> access.id, write |-> access.write, bad |-> access.bad]
  BY <1>1 DEF fires, cl_req, CoreDrives
<1>2. CASE state # "IDLE" /\ slow_req = {r} /\ r.to = c
  <2>1. \A d \in Clusters : cl_req(d) = {q \in slow_req : q.to = d}
    BY <1>2 DEF cl_req
  <2>2. cl_req(c) = {r} /\ \A d \in Clusters \ {c} : cl_req(d) = {}
    BY <1>2, <2>1
  <2> QED
    BY <2>2 DEF fires
<1> QED
  BY <1>1, <1>2

LEMMA OneReached ==
  ASSUME NEW c \in Clusters, NEW r, r.to = c, dev_req = {},
         fires(c) = {r}, \A d \in Clusters \ {c} : fires(d) = {}
  PROVE  Reached = {c}
<1>1. UNION {fires(d) : d \in Clusters} = {r}
  OBVIOUS
<1> QED
  BY <1>1 DEF Reached

-----------------------------------------------------------------------------
(* The invariant is kept, state by state.                                  *)

\* Nothing waits for the fabric, or it is answered: the stage moves or holds.
LEMMA StepAtEase ==
  ASSUME IInv, NEW stall \in BOOLEAN, NEW next, Step(stall, next), Fabric,
         state = "IDLE", ~fast_inflight, ~req_valid
  PROVE  Place' /\ Told' /\ (done' => active')
<1>1. Rest
  BY DEF Fabric, WriteMask, ClearErrors, OtherLocal, Fault, ToDevice, ToCluster, ToNobody,
         ReadThroughMask, BeginBroadcast, NextTarget, Blocked, EndBroadcast, WaitCluster,
         WaitDevice, Routed
<1>2. /\ state' = "IDLE" /\ ~fast_inflight' /\ slow_req' = {} /\ dev_req' = {}
      /\ slow_answer' = {} /\ cluster_mask' = cluster_mask /\ err \subseteq err'
      /\ refused' = refused
  BY <1>1 DEF Rest, NoRequest, Answers, Record, KeepFast
<1>3. /\ slow_req = {} /\ ClustersIdle /\ dev_req = {}
      /\ slow_answer # {} => Waiting
      /\ hits = Got(IF Waiting /\ slow_answer = {} THEN {} ELSE Targets)
  BY DEF IInv, Place, AtRest, DevicesIdle
<1>4. dm_valid = (slow_answer # {})
  BY DEF dm_valid, core_answer
<1>5. ~(Waiting /\ ~dm_valid) /\ (dm_valid => Waiting)
  BY <1>3, <1>4 DEF req_valid, Waiting
<1>6. /\ done' => active'
      /\ (access' = access /\ ~Waiting') \/ (access' # access /\ Waiting')
  BY <1>5, Freed DEF IInv
<1>7. \A c \in Clusters : fires(c) = {}
  BY <1>3, NoFire DEF CoreDrives
<1>8. Reached = {}
  BY <1>3, <1>7, NobodyReached
<1>9. hits' = IF access' # access THEN Got({}) ELSE Got(Targets)
  <2>1. hits = Got(Targets)
    BY <1>3, <1>4, <1>5
  <2>2. hits' = IF access' # access THEN Got({}) ELSE Got(Targets \cup Reached)
    BY <2>1, <1>8, Account
  <2> QED
    BY <2>2, <1>8
<1>10. ClustersIdle' /\ DevicesIdle'
  BY <1>2, <1>3, <1>7, ClustersStayIdle, DevicesStayIdle
<1>11. AtRest'
  <2>1. access' = access => Targets' = Targets
    BY <1>2, TargetsStay
  <2> QED
    BY <1>2, <1>6, <1>9, <1>10, <2>1 DEF AtRest
<1>12. Told'
  BY <1>2, <1>3 DEF IInv, Told, ClustersIdle, Nothing
<1> QED
  BY <1>2, <1>6, <1>11, <1>12 DEF Place, OnFastPath, AtDevice, InBroadcast, BetweenTargets, AtTarget

\* The stage waits: the fabric answers by itself, sends the access on, or lets it wait.
LEMMA StepRequested ==
  ASSUME IInv, NEW stall \in BOOLEAN, NEW next, Step(stall, next), Fabric,
         state = "IDLE", ~fast_inflight, req_valid
  PROVE  Place' /\ Told' /\ (done' => active')
<1>1. /\ slow_req = {} /\ ClustersIdle /\ dev_req = {} /\ DevicesIdle
      /\ slow_answer = {} /\ ~dm_valid /\ Waiting /\ hits = Got({})
  <2>1. dm_valid = (slow_answer # {})
    BY DEF dm_valid, core_answer
  <2> QED
    BY <2>1 DEF IInv, Place, AtRest, DevicesIdle, req_valid, Waiting
<1>2. access' = access /\ Waiting' /\ (done' => active')
  BY <1>1, Held DEF Waiting
<1>3. refused => "target" \in err
  BY <1>1 DEF IInv, Told, ClustersIdle, Nothing
<1>4. power' = power /\ DevicesIdle' = (dev_req' = {} /\ dev_answer' = [d \in Device |-> {}])
  BY DEF Step, DevicesIdle
<1>5. ~bcast.active
  BY DEF IInv, Modes
<1>6. \A S : Got(S \cup {}) = Got(S)
  BY DEF Got
<1> DEFINE Quiet == /\ ClustersIdle' /\ hits' = Got({})
                    /\ dev_req' = {} => DevicesIdle'
                    /\ dev_answer' = [d \in Device |-> {}]
<1>7. (CoreDrives => ~req_ready(access.to)) => Quiet
  <2> SUFFICES ASSUME CoreDrives => ~req_ready(access.to) PROVE Quiet
    OBVIOUS
  <2>1. \A c \in Clusters : fires(c) = {}
    BY <1>1, NoFire
  <2>2. Reached = {}
    BY <1>1, <2>1, NobodyReached
  <2>3. hits' = Got({})
    BY <1>1, <1>2, <1>6, <2>2, Account
  <2>4. dev_answer' = [d \in Device |-> {}]
    BY <1>1 DEF Step, Devices
  <2> QED
    BY <1>1, <2>1, <2>3, <2>4, ClustersStayIdle DEF DevicesIdle
<1> HIDE DEF Quiet
<1>8. ASSUME CoreDrives => ~req_ready(access.to), Targets' = {},
             state' = "IDLE", ~fast_inflight', slow_req' = {}, dev_req' = {},
             slow_answer' = {access.id}, refused' => refused /\ err \subseteq err'
      PROVE  Place' /\ Told'
  <2>1. AtRest'
    BY <1>2, <1>7, <1>8 DEF AtRest, Quiet
  <2> QED
    BY <1>3, <1>8, <2>1 DEF Place, OnFastPath, AtDevice, InBroadcast, BetweenTargets,
                            AtTarget, Told
<1>9. CASE WriteMask
  <2>1. access.kind = "mask" /\ ~CoreDrives
    BY <1>9 DEF WriteMask, Routed, CoreDrives
  <2>2. Targets' = {}
    BY <1>2, <2>1 DEF Targets
  <2> QED
    BY <1>1, <1>2, <1>8, <1>9, <2>1, <2>2 DEF WriteMask, NoRequest, Answers, Record, KeepFast
<1>10. CASE ClearErrors \/ OtherLocal
  <2>1. access.kind \in {"clear", "local"} /\ ~CoreDrives
    BY <1>10 DEF ClearErrors, OtherLocal, Routed, CoreDrives
  <2>2. Targets' = {}
    BY <1>2, <2>1 DEF Targets
  <2>3. refused' => refused /\ err \subseteq err'
    BY <1>10 DEF ClearErrors, OtherLocal, Record
  <2>4. /\ state' = "IDLE" /\ ~fast_inflight' /\ slow_req' = {} /\ dev_req' = {}
        /\ slow_answer' = {access.id}
    BY <1>10 DEF ClearErrors, OtherLocal, NoRequest, Answers, KeepFast, Routed
  <2> QED
    BY <1>2, <1>8, <2>1, <2>2, <2>3, <2>4
<1>11. CASE Fault \/ ToNobody
  <2>1. ~CoreDrives
    BY <1>11, ClustersTyped DEF Fault, ToNobody, Routed, CoreDrives, NoCluster
  <2>2. cluster_mask' = cluster_mask
    BY <1>11 DEF Fault, ToNobody
  <2>3. Targets = {}
    <3>1. CASE ToNobody
      BY <3>1, TargetsOf DEF ToNobody, Routed, IInv
    <3>2. CASE Fault
      BY <3>2, TargetsOf DEF Fault, Routed, IInv
    <3> QED
      BY <1>11, <3>1, <3>2
  <2>4. Targets' = {}
    BY <1>2, <2>2, <2>3, TargetsStay
  <2>5. refused' => refused /\ err \subseteq err'
    BY <1>11 DEF Fault, ToNobody, Record
  <2>6. /\ state' = "IDLE" /\ ~fast_inflight' /\ slow_req' = {} /\ dev_req' = {}
        /\ slow_answer' = {access.id}
    BY <1>11 DEF Fault, ToNobody, NoRequest, Answers, KeepFast, Routed
  <2> QED
    BY <1>2, <1>8, <2>1, <2>4, <2>5, <2>6
<1>12. CASE Rest
  <2>1. CoreDrives => ~req_ready(access.to)
    BY <1>12 DEF Rest, CoreDrives
  <2>2. /\ state' = "IDLE" /\ ~fast_inflight' /\ slow_req' = {} /\ dev_req' = {}
        /\ slow_answer' = {} /\ err \subseteq err' /\ refused' = refused
    BY <1>12 DEF Rest, NoRequest, Answers, Record, KeepFast
  <2>3. AtRest'
    BY <1>2, <1>7, <2>1, <2>2 DEF AtRest, Quiet
  <2> QED
    BY <1>2, <1>3, <2>2, <2>3 DEF Place, OnFastPath, AtDevice, InBroadcast, BetweenTargets,
                                  AtTarget, Told
<1>13. CASE ToDevice
  <2>1. access.kind = "device" /\ ~CoreDrives
    BY <1>13 DEF ToDevice, Routed, CoreDrives
  <2>2. access.to \in Device
    BY <2>1 DEF IInv, Registers
  <2>3. /\ state' = "WAIT_DEVICE" /\ slow_req' = {} /\ slow_answer' = {}
        /\ dev_req' = {[to |-> access.to, id |-> access.id]}
        /\ err \subseteq err' /\ refused' = refused
    BY <1>13 DEF ToDevice, Answers, Record
  <2>4. AtDevice'
    BY <1>2, <1>7, <2>1, <2>2, <2>3 DEF AtDevice, Quiet
  <2> QED
    BY <1>2, <1>3, <2>3, <2>4 DEF Place, AtRest, OnFastPath, InBroadcast, BetweenTargets,
                                  AtTarget, Told
<1>14. CASE ToCluster
  <2>0. PICK c \in Clusters : c = access.to
    BY <1>14 DEF ToCluster
  <2>r. PICK r : r = [to |-> c, id |-> access.id, write |-> access.write, bad |-> access.bad]
    OBVIOUS
  <2>1. /\ CoreDrives /\ req_ready(c) /\ Targets = {c}
        /\ access.kind = "cluster" /\ access.bad \in BOOLEAN
    BY <1>14, <2>0, TargetsOf DEF ToCluster, Routed, CoreDrives, IInv, Registers, Access
  <2>2. /\ state' = "IDLE" /\ fast_inflight' /\ fast_target' = c
        /\ slow_req' = {} /\ dev_req' = {} /\ slow_answer' = {}
        /\ err \subseteq err' /\ refused' = (refused \/ access.bad)
    BY <1>14, <2>0 DEF ToCluster, NoRequest, Answers, Record
  <2>3. r \in MyRequest(c) /\ r.to = c /\ r.bad = access.bad
    BY <2>r DEF MyRequest, IInv, Registers, Access
  <2>4. fires(c) = {r} /\ \A d \in Clusters \ {c} : fires(d) = {}
    BY <1>1, <2>0, <2>r, <2>1, OneFires
  <2>4a. c \in power /\ DevicesIdle'
    BY <1>1, <2>1, <2>2, DevicesStayIdle DEF req_ready
  <2>5. /\ OneAnswer(c)'
        /\ r.bad => \E a \in pending'[c] \cup cl_answer'[c] : a.err
    BY <1>1, <1>2, <2>1, <2>3, <2>4, <2>4a, Taken
  <2>6. hits' = Got({c})
    <3>1. Reached = {c}
      BY <1>1, <2>1, <2>3, <2>4, OneReached
    <3>2. hits' = Got({} \cup Reached)
      BY <1>1, <1>2, Account
    <3> QED
      BY <3>1, <3>2
  <2>7. Targets' = {c}
    BY <1>2, <2>1, TargetsStay
  <2>8. OnFastPath'
    BY <1>2, <2>0, <2>1, <2>2, <2>4a, <2>5, <2>6, <2>7 DEF OnFastPath
  <2>9. Told'
    BY <1>3, <2>1, <2>2, <2>3, <2>5 DEF Told
  <2> QED
    BY <1>2, <2>2, <2>8, <2>9 DEF Place, AtRest, AtDevice, InBroadcast, BetweenTargets, AtTarget
<1>15. CASE ReadThroughMask
  <2>1. access.kind = "bcast" /\ ~CoreDrives /\ cluster_mask' = cluster_mask /\ bcast' = bcast
    BY <1>15 DEF ReadThroughMask, Routed, CoreDrives
  <2>2. PICK c \in Clusters :
          /\ cluster_mask \cap Clusters = {c} /\ req_ready(c)
          /\ slow_req' = {[to |-> c, id |-> access.id, write |-> FALSE, bad |-> access.bad]}
          /\ last_target' = c
    BY <1>15 DEF ReadThroughMask
  <2>3. /\ state' = "WAIT_CLUSTER" /\ dev_req' = {} /\ slow_answer' = {}
        /\ err \subseteq err' /\ refused' = refused
    BY <1>15 DEF ReadThroughMask, Answers, Record
  <2>4. Targets' = {c}
    BY <1>2, <2>1, <2>2, TargetsOf, TargetsStay DEF IInv
  <2>5. \E r \in MyRequest(c)' : slow_req' = {r}
    BY <1>2, <2>2 DEF MyRequest, IInv, Registers, Access
  <2>6. {t \in Targets' : t < c} = {}
    BY <2>4, ClustersTyped
  <2>7. InBroadcast'
    BY <1>2, <1>5, <1>7, <2>1, <2>3 DEF InBroadcast, Quiet
  <2>8. AtTarget'
    BY <1>2, <1>4, <1>5, <1>7, <2>1, <2>2, <2>3, <2>4, <2>5, <2>6 DEF AtTarget, Quiet, req_ready
  <2> QED
    BY <1>2, <1>3, <2>3, <2>7, <2>8 DEF Place, AtRest, OnFastPath, AtDevice, BetweenTargets, Told
<1>16. CASE BeginBroadcast
  <2>1. /\ access.kind = "bcast" /\ ~CoreDrives /\ access.write
        /\ cluster_mask' = cluster_mask
    BY <1>16 DEF BeginBroadcast, Routed, CoreDrives
  <2>2. /\ state' = "BCAST_SEQ" /\ slow_req' = {} /\ dev_req' = {} /\ slow_answer' = {}
        /\ err \subseteq err' /\ refused' = refused
        /\ bcast'.active /\ bcast'.id = access.id /\ bcast'.idx = 0
    BY <1>16 DEF BeginBroadcast, NoRequest, Answers, Record
  <2>3. {t \in Targets' : t < 0} = {}
    <3>1. Targets' \subseteq Clusters
      BY <1>2, <2>1, TargetsOf, TargetsStay DEF IInv
    <3> QED
      BY <3>1, ClustersTyped
  <2>4. InBroadcast'
    BY <1>2, <1>7, <2>1, <2>2 DEF InBroadcast, Quiet
  <2>5. BetweenTargets'
    BY <1>7, <2>1, <2>2, <2>3 DEF BetweenTargets, Quiet
  <2> QED
    BY <1>2, <1>3, <2>2, <2>4, <2>5 DEF Place, AtRest, OnFastPath, AtDevice, AtTarget, Told
<1> QED
  BY <1>9, <1>10, <1>11, <1>12, <1>13, <1>14, <1>15, <1>16
     DEF Fabric, NextTarget, Blocked, EndBroadcast, WaitCluster, WaitDevice

\* A fast access waits for its cluster, and goes with the cluster's answer.
LEMMA StepFast ==
  ASSUME IInv, NEW stall \in BOOLEAN, NEW next, Step(stall, next), Fabric,
         state = "IDLE", fast_inflight
  PROVE  Rest /\ Place' /\ Told' /\ (done' => active')
<1>0. PICK c \in Clusters : c = fast_target
  BY DEF IInv, Registers
<1>1. /\ slow_req = {} /\ slow_answer = {} /\ DevicesIdle /\ dev_req = {}
      /\ Waiting /\ access.kind = "cluster" /\ access.to = c
      /\ OneAnswer(c) /\ hits = Got(Targets) /\ c \in power
  BY <1>0 DEF IInv, Place, OnFastPath, DevicesIdle, Registers, OneAnswer
<1>2. Rest
  <2>1. access.to # NoCluster
    BY <1>1, ClustersTyped DEF NoCluster
  <2> QED
    BY <1>1, <2>1
       DEF Fabric, WriteMask, ClearErrors, OtherLocal, Fault, ToDevice, ToCluster, ToNobody,
           ReadThroughMask, BeginBroadcast, NextTarget, Blocked, EndBroadcast, WaitCluster,
           WaitDevice, Routed
<1>3. /\ state' = "IDLE" /\ slow_req' = {} /\ dev_req' = {} /\ slow_answer' = {}
      /\ cluster_mask' = cluster_mask /\ err \subseteq err' /\ FastErrors \subseteq err'
      /\ refused' = refused /\ fast_target' = c
      /\ fast_inflight' = (cl_answer[c] = {})
  BY <1>0, <1>2 DEF Rest, NoRequest, Answers, Record, KeepFast, fast_over
<1>4. \A d \in Clusters : fires(d) = {}
  BY <1>1, NoFire DEF CoreDrives
<1>5. Reached = {}
  BY <1>1, <1>4, NobodyReached
<1>6. DevicesIdle'
  BY <1>1, <1>3, DevicesStayIdle
<1>7. hits' = IF access' # access THEN Got({}) ELSE Got(Targets)
  <2>1. hits' = IF access' # access THEN Got({}) ELSE Got(Targets \cup Reached)
    BY <1>1, <1>5, Account
  <2> QED
    BY <1>5, <2>1
<1>8. access' = access => Targets' = Targets
  BY <1>1, TargetsStay
<1>9. dm_valid = (cl_answer[c] # {})
  <2>1. \A S : S # {} => {a.id : a \in S} # {}
    OBVIOUS
  <2> QED
    BY <1>0, <1>1, <2>1 DEF dm_valid, core_answer
<1>10. CASE InHand(c)
  <2>1. cl_answer[c] = {}
    BY <1>1, <1>10 DEF InHand, Nothing
  <2>2. access' = access /\ Waiting' /\ (done' => active')
    BY <1>1, <1>9, <2>1, Held DEF Waiting
  <2>3. OneAnswer(c)' /\ pending[c] = cl_answer'[c]
    BY <1>1, <1>4, <1>10, <2>2, Passes
  <2>4. OnFastPath'
    BY <1>1, <1>3, <1>6, <1>7, <1>8, <2>1, <2>2, <2>3 DEF OnFastPath
  <2>5. Told'
    <3>1. \A d \in Clusters : pending[d] \cup cl_answer[d] \subseteq pending[c]
      BY <1>1, <1>10 DEF InHand, Only, Nothing
    <3> QED
      BY <1>1, <1>3, <2>3, <3>1 DEF IInv, Told
  <2> QED
    BY <1>2, <1>3, <2>1, <2>2, <2>4, <2>5
       DEF Place, AtRest, AtDevice, InBroadcast, BetweenTargets, AtTarget
<1>11. CASE OnWires(c)
  <2>1. ClustersIdle' /\ cl_answer[c] # {}
    BY <1>1, <1>4, <1>11, Passes
  <2>2. /\ done' => active'
        /\ (access' = access /\ ~Waiting') \/ (access' # access /\ Waiting')
    BY <1>1, <1>9, <2>1, Freed DEF IInv
  <2>3. AtRest'
    BY <1>3, <1>6, <1>7, <1>8, <2>1, <2>2 DEF AtRest
  <2>4. Told'
    <3>1. \A d \in Clusters : pending[d] \cup cl_answer[d] \subseteq cl_answer[c]
      BY <1>1, <1>11 DEF OnWires, Only, Nothing
    <3>2. (\E a \in cl_answer[c] : a.err) => "target" \in err'
      BY <1>0, <1>3 DEF FastErrors
    <3> QED
      BY <1>3, <3>1, <3>2 DEF IInv, Told
  <2> QED
    BY <1>2, <1>3, <2>1, <2>2, <2>3, <2>4
       DEF Place, OnFastPath, AtDevice, InBroadcast, BetweenTargets, AtTarget
<1> QED
  BY <1>1, <1>10, <1>11 DEF OneAnswer

\* A device has the request, or answers it.
LEMMA StepDevice ==
  ASSUME IInv, NEW stall \in BOOLEAN, NEW next, Step(stall, next), Fabric,
         state = "WAIT_DEVICE"
  PROVE  Place' /\ Told' /\ (done' => active')
<1>0. PICK d \in Device : d = access.to
  BY DEF IInv, Place, AtDevice
<1> DEFINE ids == UNION {dev_answer[e] : e \in Device}
           NoOne == [e \in Device |-> {}]
           ByD == [e \in Device |-> IF e = d THEN {access.id} ELSE {}]
<1>1. /\ slow_req = {} /\ slow_answer = {} /\ ClustersIdle /\ ~fast_inflight
      /\ Waiting /\ access.kind = "device" /\ d \in Device /\ Targets = {d}
  BY <1>0, TargetsOf DEF IInv, Place, AtDevice, Modes
<1>2. /\ slow_answer' = ids /\ state' = (IF ids = {} THEN "WAIT_DEVICE" ELSE "IDLE")
      /\ slow_req' = {} /\ dev_req' = {} /\ refused' = refused /\ err \subseteq err'
      /\ ~fast_inflight'
  BY <1>1 DEF Fabric, Rest, WriteMask, ClearErrors, OtherLocal, Fault, ToDevice, ToCluster,
         ToNobody, ReadThroughMask, BeginBroadcast, NextTarget, Blocked, EndBroadcast,
         WaitCluster, WaitDevice, Routed, NoRequest, Answers, Record, KeepFast
<1>3. access' = access /\ Waiting' /\ (done' => active')
  BY <1>1, Held DEF Waiting, dm_valid, core_answer
<1>4. \A c \in Clusters : fires(c) = {}
  BY <1>1, NoFire DEF CoreDrives
<1>5. ClustersIdle' /\ Targets' = {d}
  BY <1>1, <1>3, <1>4, ClustersStayIdle, TargetsStay
<1>6. UNION {fires(c) : c \in Clusters} = {}
  BY <1>4
<1>7. Told'
  BY <1>1, <1>2 DEF IInv, Told, ClustersIdle, Nothing
<1>8. dev_answer' = [e \in Device |-> {r.id : r \in {q \in dev_req : q.to = e}}]
  BY DEF Step, Devices
<1>9. CASE dev_req = {[to |-> d, id |-> access.id]} /\ dev_answer = NoOne /\ hits = Got({})
  <2>1. ids = {}
    BY <1>9
  <2>2. dev_answer' = ByD
    <3>1. \A e \in Device : {r.id : r \in {q \in dev_req : q.to = e}}
                              = IF e = d THEN {access.id} ELSE {}
      <4>1. \A e \in Device : {q \in dev_req : q.to = e} = IF e = d THEN dev_req ELSE {}
        BY <1>9
      <4>2. {r.id : r \in dev_req} = {access.id} /\ {r.id : r \in {}} = {}
        BY <1>9
      <4> QED
        BY <4>1, <4>2
    <3> QED
      BY <1>8, <3>1
  <2>3. Reached = {d}
    <3>1. (UNION {fires(c) : c \in Clusters}) \cup dev_req = {[to |-> d, id |-> access.id]}
      BY <1>6, <1>9
    <3>2. {r.to : r \in {[to |-> d, id |-> access.id]}} = {d}
      OBVIOUS
    <3> QED
      BY <3>1, <3>2 DEF Reached
  <2>4. hits' = Got({d})
    <3>1. hits' = Got({} \cup Reached)
      BY <1>3, <1>9, Account
    <3> QED
      BY <2>3, <3>1
  <2>5. AtDevice'
    BY <1>0, <1>1, <1>2, <1>3, <1>5, <2>1, <2>2, <2>4 DEF AtDevice
  <2> QED
    BY <1>2, <1>3, <1>7, <2>1, <2>5 DEF Place, AtRest, OnFastPath, InBroadcast,
                                        BetweenTargets, AtTarget
<1>10. CASE dev_req = {} /\ dev_answer = ByD /\ hits = Got(Targets)
  <2>1. ids = {access.id}
    BY <1>1, <1>10
  <2>2. Reached = {}
    BY <1>6, <1>10 DEF Reached
  <2>3. hits' = Got({d})
    <3>1. hits' = Got(Targets \cup Reached)
      BY <1>3, <1>10, <2>2, Account
    <3> QED
      BY <1>1, <2>2, <3>1
  <2>4. DevicesIdle'
    BY <1>2, <1>10, DevicesStayIdle
  <2>5. AtRest'
    BY <1>2, <1>3, <1>5, <2>1, <2>3, <2>4 DEF AtRest
  <2> QED
    BY <1>2, <1>3, <1>7, <2>1, <2>5 DEF Place, OnFastPath, AtDevice, InBroadcast,
                                        BetweenTargets, AtTarget
<1> QED
  BY <1>0, <1>9, <1>10 DEF IInv, Place, AtDevice

\* Between two targets of a broadcast write: the next one, or the end.
LEMMA StepBetween ==
  ASSUME IInv, NEW stall \in BOOLEAN, NEW next, Step(stall, next), Fabric,
         state = "BCAST_SEQ"
  PROVE  Place' /\ Told' /\ (done' => active')
<1>1. /\ slow_req = {} /\ slow_answer = {} /\ ClustersIdle /\ dev_req = {} /\ ~fast_inflight
      /\ Waiting /\ access.kind = "bcast" /\ access.write
      /\ bcast.active /\ bcast.id = access.id
      /\ hits = Got({t \in Targets : t < bcast.idx})
  BY DEF IInv, Place, InBroadcast, BetweenTargets, DevicesIdle, Modes
<1>2. /\ Targets = cluster_mask \cap Clusters
      /\ ahead = {t \in Targets : t >= bcast.idx}
  BY <1>1, TargetsOf DEF IInv, ahead
<1>3. bcast \in Bcast /\ bcast.idx \in Int /\ \A t \in Targets : t \in Int
  <2>1. bcast \in Bcast /\ 0 .. NUM_CLUSTERS \subseteq Int
    BY ClustersAssumption DEF IInv, Registers
  <2>2. bcast.idx \in Int
    BY <2>1 DEF Bcast
  <2> QED
    BY <1>2, <2>1, <2>2, ClustersTyped
<1>4. NextTarget \/ Blocked \/ EndBroadcast
  BY DEF Fabric, Rest, WriteMask, ClearErrors, OtherLocal, Fault, ToDevice, ToCluster,
         ToNobody, ReadThroughMask, BeginBroadcast, WaitCluster, WaitDevice, Routed
<1>5. /\ dev_req' = {} /\ cluster_mask' = cluster_mask /\ err \subseteq err'
      /\ refused' = refused /\ ~fast_inflight'
  BY <1>1, <1>4 DEF NextTarget, Blocked, EndBroadcast, NoRequest, Record, KeepFast
<1>6. access' = access /\ Waiting' /\ (done' => active')
  BY <1>1, Held DEF Waiting, dm_valid, core_answer
<1>7. \A c \in Clusters : fires(c) = {}
  BY <1>1, NoFire DEF CoreDrives
<1>8. ClustersIdle' /\ DevicesIdle' /\ Targets' = Targets /\ power' = power
  BY <1>1, <1>5, <1>6, <1>7, ClustersStayIdle, DevicesStayIdle, TargetsStay DEF Step
<1>9. hits' = hits
  <2>1. Reached = {}
    BY <1>1, <1>7, NobodyReached
  <2>2. hits' = Got({t \in Targets : t < bcast.idx} \cup Reached)
    BY <1>1, <1>6, <2>1, Account
  <2> QED
    BY <1>1, <2>1, <2>2
<1>10. Told'
  BY <1>1, <1>5 DEF IInv, Told, ClustersIdle, Nothing
<1>11. CASE NextTarget
  <2>1. PICK c \in ahead :
          /\ \A d \in ahead : c <= d
          /\ req_ready(c)
          /\ slow_req' = {[to |-> c, id |-> bcast.id, write |-> bcast.write, bad |-> bcast.bad]}
          /\ last_target' = c /\ bcast' = [bcast EXCEPT !.idx = c]
    BY <1>11 DEF NextTarget
  <2>2. state' = "WAIT_CLUSTER" /\ slow_answer' = {}
    BY <1>11 DEF NextTarget, Answers
  <2>3. bcast'.active /\ bcast'.id = access.id
    BY <1>1, <1>3, <2>1 DEF Bcast
  <2>4. \E r \in MyRequest(c)' : slow_req' = {r}
    BY <1>1, <1>3, <1>6, <2>1 DEF MyRequest, Bcast
  <2>5. {t \in Targets : t < bcast.idx} = {t \in Targets : t < c}
    BY <1>2, <1>3, <2>1
  <2>6. c \in Targets /\ c \in power
    BY <1>2, <2>1 DEF req_ready
  <2>7. InBroadcast'
    BY <1>1, <1>6, <1>8, <2>2, <2>3 DEF InBroadcast
  <2>8. AtTarget'
    BY <1>1, <1>8, <1>9, <2>1, <2>2, <2>3, <2>4, <2>5, <2>6 DEF AtTarget
  <2> QED
    BY <1>6, <1>10, <2>2, <2>7, <2>8 DEF Place, AtRest, OnFastPath, AtDevice, BetweenTargets
<1>12. CASE Blocked
  <2>1. /\ state' = "BCAST_SEQ" /\ slow_req' = {} /\ slow_answer' = {} /\ bcast' = bcast
    BY <1>12 DEF Blocked, NoRequest, Answers
  <2>2. InBroadcast' /\ BetweenTargets'
    BY <1>1, <1>6, <1>8, <1>9, <2>1 DEF InBroadcast, BetweenTargets
  <2> QED
    BY <1>6, <1>10, <2>1, <2>2 DEF Place, AtRest, OnFastPath, AtDevice, AtTarget
<1>13. CASE EndBroadcast
  <2>1. ahead = {} /\ state' = "IDLE" /\ slow_req' = {} /\ slow_answer' = {access.id}
    BY <1>1, <1>13 DEF EndBroadcast, NoRequest, Answers
  <2>2. {t \in Targets : t < bcast.idx} = Targets
    BY <1>2, <1>3, <2>1
  <2>3. AtRest'
    BY <1>1, <1>6, <1>8, <1>9, <2>1, <2>2 DEF AtRest
  <2> QED
    BY <1>5, <1>6, <1>10, <2>1, <2>3
       DEF Place, OnFastPath, AtDevice, InBroadcast, BetweenTargets, AtTarget
<1> QED
  BY <1>4, <1>11, <1>12, <1>13

\* At a target of a broadcast access: it takes the request, answers, and it goes on.
LEMMA StepAtTarget ==
  ASSUME IInv, NEW stall \in BOOLEAN, NEW next, Step(stall, next), Fabric,
         state = "WAIT_CLUSTER"
  PROVE  Place' /\ Told' /\ (done' => active')
<1>0. PICK c \in Clusters : c = last_target
  BY DEF IInv, Registers
<1>1. /\ slow_answer = {} /\ dev_req = {} /\ ~fast_inflight
      /\ Waiting /\ access.kind = "bcast" /\ c \in Targets
      /\ bcast.active => access.write /\ bcast.id = access.id
      /\ ~bcast.active => Targets = {c}
  BY <1>0 DEF IInv, Place, InBroadcast, AtTarget, DevicesIdle, Modes
<1>2. WaitCluster
  BY DEF Fabric, Rest, WriteMask, ClearErrors, OtherLocal, Fault, ToDevice, ToCluster,
         ToNobody, ReadThroughMask, BeginBroadcast, NextTarget, Blocked, EndBroadcast,
         WaitDevice, Routed
<1>3. /\ slow_req' = {} /\ dev_req' = {} /\ cluster_mask' = cluster_mask
      /\ err \subseteq err' /\ ~fast_inflight' /\ last_target' = c
      /\ refused' = (refused \/ \E r \in slow_req : r.bad /\ r \in fires(r.to))
      /\ (\E a \in cl_answer[c] : a.err) => "target" \in err'
  BY <1>0, <1>1, <1>2 DEF WaitCluster, NoRequest, Record, KeepFast
<1>4. access' = access /\ Waiting' /\ (done' => active')
  BY <1>1, Held DEF Waiting, dm_valid, core_answer
<1>5. DevicesIdle' /\ Targets' = Targets /\ power' = power
  BY <1>1, <1>3, <1>4, DevicesStayIdle, TargetsStay DEF Step
<1>6. bcast \in Bcast /\ \A t \in Targets : t \in Int
  BY <1>1, TargetsOf, ClustersTyped DEF IInv, Registers
<1>7. ASSUME cl_answer[c] = {}
      PROVE  /\ state' = "WAIT_CLUSTER" /\ bcast' = bcast /\ slow_answer' = {}
             /\ InBroadcast'
  <2>1. state' = "WAIT_CLUSTER" /\ bcast' = bcast /\ slow_answer' = {}
    BY <1>0, <1>2, <1>7 DEF WaitCluster, Answers
  <2> QED
    BY <1>1, <1>4, <1>5, <2>1 DEF InBroadcast
<1>8. CASE /\ \E r \in MyRequest(c) : slow_req = {r}
           /\ c \in power /\ ClustersIdle
           /\ hits = Got({t \in Targets : t < c})
  <2>1. PICK r \in MyRequest(c) : slow_req = {r}
    BY <1>8
  <2>2. req_ready(c) /\ cl_answer[c] = {} /\ r.to = c
    BY <1>8 DEF req_ready, ClustersIdle, Nothing, MyRequest
  <2>3. fires(c) = {r} /\ \A d \in Clusters \ {c} : fires(d) = {}
    BY <2>1, <2>2, OneFires
  <2>4. OneAnswer(c)' /\ (r.bad => \E a \in pending'[c] \cup cl_answer'[c] : a.err)
    BY <1>4, <1>8, <2>3, Taken
  <2>5. hits' = Got({t \in Targets : t <= c})
    <3>1. Reached = {c}
      BY <1>1, <2>2, <2>3, OneReached
    <3>2. {t \in Targets : t < c} \cap Reached = {}
      BY <3>1, <1>6, ClustersTyped
    <3>3. hits' = Got({t \in Targets : t < c} \cup Reached)
      BY <1>4, <1>8, <3>2, Account
    <3>4. \A t \in Targets : (t < c \/ t = c) = (t <= c)
      BY <1>6, ClustersTyped
    <3>5. {t \in Targets : t < c} \cup {c} = {t \in Targets : t <= c}
      BY <1>1, <3>4
    <3> QED
      BY <3>1, <3>3, <3>5
  <2>6. AtTarget'
    BY <1>1, <1>3, <1>5, <1>7, <2>2, <2>4, <2>5 DEF AtTarget
  <2>7. Told'
    <3>1. CASE refused
      BY <1>3, <1>8, <3>1 DEF IInv, Told, ClustersIdle, Nothing
    <3>2. CASE ~refused
      BY <1>3, <2>1, <2>4, <3>2 DEF Told
    <3> QED
      BY <3>1, <3>2
  <2> QED
    BY <1>4, <1>7, <2>2, <2>6, <2>7 DEF Place, AtRest, OnFastPath, AtDevice, BetweenTargets
<1>9. ASSUME slow_req = {}, OneAnswer(c), hits = Got({t \in Targets : t <= c})
      PROVE  /\ \A d \in Clusters : fires(d) = {}
             /\ hits' = Got({t \in Targets : t <= c}) /\ refused' = refused /\ c \in power
  <2>1. \A d \in Clusters : fires(d) = {}
    BY <1>9, NoFire DEF CoreDrives
  <2>2. Reached = {}
    BY <1>1, <2>1, NobodyReached
  <2>3. hits' = Got({t \in Targets : t <= c} \cup Reached)
    BY <1>4, <1>9, <2>2, Account
  <2>4. {t \in Targets : t <= c} \cup Reached = {t \in Targets : t <= c}
    BY <2>2
  <2>5. refused' = refused /\ c \in power
    BY <1>3, <1>9 DEF OneAnswer, IInv, Registers
  <2> QED
    BY <2>1, <2>3, <2>4, <2>5
<1>10. CASE slow_req = {} /\ OneAnswer(c) /\ InHand(c) /\ hits = Got({t \in Targets : t <= c})
  <2>1. cl_answer[c] = {}
    BY <1>10 DEF InHand, Nothing
  <2>2. OneAnswer(c)' /\ pending[c] = cl_answer'[c]
    BY <1>4, <1>9, <1>10, Passes
  <2>3. AtTarget'
    BY <1>1, <1>3, <1>5, <1>7, <1>9, <1>10, <2>1, <2>2 DEF AtTarget
  <2>4. Told'
    <3>1. \A d \in Clusters : pending[d] \cup cl_answer[d] \subseteq pending[c]
      BY <1>10 DEF InHand, Only, Nothing
    <3> QED
      BY <1>3, <1>9, <1>10, <2>2, <3>1 DEF IInv, Told
  <2> QED
    BY <1>4, <1>7, <2>1, <2>3, <2>4 DEF Place, AtRest, OnFastPath, AtDevice, BetweenTargets
<1>11. CASE slow_req = {} /\ OneAnswer(c) /\ OnWires(c) /\ hits = Got({t \in Targets : t <= c})
  <2>1. PICK a \in MyAnswer : cl_answer = Only(c, {a})
    BY <1>11 DEF OnWires
  <2>2. cl_answer[c] = {a} /\ a.id = access.id
    BY <2>1 DEF Only, MyAnswer
  <2>3. ClustersIdle'
    BY <1>9, <1>11, Passes
  <2>4. Told'
    <3>1. \A d \in Clusters : pending[d] \cup cl_answer[d] \subseteq cl_answer[c]
      BY <1>11 DEF OnWires, Only, Nothing
    <3> QED
      BY <1>3, <1>9, <1>11, <3>1 DEF IInv, Told
  <2>5. CASE bcast.active
    <3>1. /\ state' = "BCAST_SEQ" /\ slow_answer' = {}
          /\ bcast' = [bcast EXCEPT !.idx = resume_at,
                                    !.any_error = @ \/ \E x \in cl_answer[last_target] : x.err]
      BY <1>0, <1>2, <2>2, <2>5 DEF WaitCluster, Answers
    <3>2. bcast'.active /\ bcast'.id = access.id /\ bcast'.idx = c + 1
      BY <1>0, <1>1, <1>6, <2>5, <3>1 DEF Bcast, resume_at
    <3>3. {t \in Targets : t <= c} = {t \in Targets : t < c + 1}
      BY <1>6, ClustersTyped
    <3>4. InBroadcast'
      BY <1>1, <1>4, <1>5, <2>5, <3>1, <3>2 DEF InBroadcast
    <3>5. BetweenTargets'
      BY <1>3, <1>5, <1>9, <1>11, <2>3, <3>1, <3>2, <3>3 DEF BetweenTargets
    <3> QED
      BY <1>4, <2>4, <3>1, <3>4, <3>5 DEF Place, AtRest, OnFastPath, AtDevice, AtTarget
  <2>6. CASE ~bcast.active
    <3>1. state' = "IDLE" /\ slow_answer' = {access.id}
      BY <1>0, <1>2, <2>2, <2>6 DEF WaitCluster, Answers
    <3>2. {t \in Targets : t <= c} = Targets
      BY <1>1, <2>6, ClustersTyped
    <3>3. AtRest'
      BY <1>3, <1>4, <1>5, <1>9, <1>11, <2>3, <3>1, <3>2 DEF AtRest
    <3> QED
      BY <1>3, <1>4, <2>4, <3>1, <3>3
         DEF Place, OnFastPath, AtDevice, InBroadcast, BetweenTargets, AtTarget
  <2> QED
    BY <2>5, <2>6
<1> QED
  BY <1>0, <1>8, <1>10, <1>11 DEF IInv, Place, AtTarget, OneAnswer

\* The types of the registers, and what an access under way implies of the state.
LEMMA RegistersStep ==
  ASSUME IInv, NEW stall \in BOOLEAN, NEW next, Step(stall, next), Fabric
  PROVE  Registers'
<1> USE DEF IInv, Registers
<1>1. /\ access' \in Access /\ active' \in BOOLEAN
      /\ access'.kind = "device" => access'.to \in Device
  <2>1. access.id \in Ids /\ 1 - access.id \in Ids
    BY DEF Access, Ids
  <2>2. \A x \in Accesses(1 - access.id) : x \in Access /\ (x.kind = "device" => x.to \in Device)
    BY <2>1, AccessesTyped
  <2>3. \/ access' = access /\ active' = active
        \/ active' = (next # {}) /\ access' \in (IF next = {} THEN {access} ELSE next)
    BY DEF Step, MemoryStage
  <2> QED
    BY <2>2, <2>3 DEF Step
<1>2. memory_state' \in BOOLEAN /\ done' \in BOOLEAN
  <2>1. memory_state' = IF memory_state THEN ~dm_valid ELSE active /\ ~done
    BY DEF Step, MemoryStage
  <2>2. done' = ((dm_valid /\ stall) \/ (done /\ (stall \/ DM_stall)))
    BY DEF Step, MemoryStage
  <2> QED
    BY <2>1, <2>2
<1>3. bcast.idx \in 0 .. NUM_CLUSTERS /\ resume_at \in 0 .. NUM_CLUSTERS
  BY ClustersAssumption DEF Bcast, resume_at, Clusters
<1>4. access.mask \in Masks /\ access.write \in BOOLEAN /\ access.bad \in BOOLEAN
      /\ access.id \in Ids
  BY DEF Access
<1>5. power' \subseteq Clusters
  BY DEF Step
<1>6. ASSUME NEW E, E \subseteq {"decode", "broadcast_read", "target"}, Record(E)
      PROVE  err' \subseteq {"decode", "broadcast_read", "target"}
  BY <1>6 DEF Record, FastErrors
<1>7. KeepFast => fast_inflight' \in BOOLEAN /\ fast_target' \in Clusters
  BY DEF KeepFast
<1> DEFINE Rest7 == /\ state' \in States /\ cluster_mask' \in Masks \cup {{}}
                    /\ err' \subseteq {"decode", "broadcast_read", "target"}
                    /\ last_target' \in Clusters /\ bcast' \in Bcast
                    /\ fast_inflight' \in BOOLEAN /\ fast_target' \in Clusters
                    /\ refused' \in BOOLEAN
<1>8. Rest7
  <2>1. CASE Rest \/ WriteMask \/ OtherLocal \/ ToNobody
    BY <1>4, <1>6, <1>7, <2>1 DEF Rest, WriteMask, OtherLocal, ToNobody
  <2>2. CASE ClearErrors
    BY <1>7, <2>2 DEF ClearErrors
  <2>3. CASE Fault
    BY <1>6, <1>7, <2>3 DEF Fault
  <2>4. CASE ToDevice
    BY <1>6, <1>7, <2>4 DEF ToDevice, States
  <2>5. CASE ToCluster
    BY <1>4, <1>6, <2>5 DEF ToCluster
  <2>6. CASE ReadThroughMask
    BY <1>6, <1>7, <2>6 DEF ReadThroughMask, States
  <2>7. CASE BeginBroadcast
    <3>1. bcast' \in Bcast
      BY <1>4, <2>7, ClustersAssumption DEF BeginBroadcast, Bcast
    <3> QED
      BY <1>6, <1>7, <2>7, <3>1 DEF BeginBroadcast, States
  <2>8. CASE NextTarget
    <3>1. \E c \in Clusters : last_target' = c /\ bcast' = [bcast EXCEPT !.idx = c]
      BY <2>8 DEF NextTarget, ahead
    <3>2. Clusters \subseteq 0 .. NUM_CLUSTERS
      BY ClustersAssumption DEF Clusters
    <3>3. last_target' \in Clusters /\ bcast' \in Bcast
      BY <3>1, <3>2 DEF Bcast
    <3> QED
      BY <1>6, <1>7, <2>8, <3>3 DEF NextTarget, States
  <2>9. CASE Blocked
    BY <1>6, <1>7, <2>9 DEF Blocked
  <2>10. CASE EndBroadcast
    <3>1. bcast' \in Bcast
      BY <2>10 DEF EndBroadcast, Bcast
    <3> QED
      BY <1>6, <1>7, <2>10, <3>1 DEF EndBroadcast, States
  <2>11. CASE WaitCluster
    <3>1. bcast' \in Bcast
      BY <1>3, <2>11 DEF WaitCluster, Bcast
    <3>2. state' \in States
      BY <2>11 DEF WaitCluster, States
    <3>3. refused' \in BOOLEAN
      BY <2>11 DEF WaitCluster
    <3>4. \E E \in SUBSET {"target"} : Record(E)
      BY <2>11 DEF WaitCluster
    <3>5. KeepFast /\ UNCHANGED <<cluster_mask, last_target>>
      BY <2>11 DEF WaitCluster
    <3> QED
      BY <1>6, <1>7, <3>1, <3>2, <3>3, <3>4, <3>5
  <2>12. CASE WaitDevice
    BY <1>6, <1>7, <2>12 DEF WaitDevice, States
  <2> QED
    BY <2>1, <2>2, <2>3, <2>4, <2>5, <2>6, <2>7, <2>8, <2>9, <2>10, <2>11, <2>12 DEF Fabric
<1> QED
  BY <1>1, <1>2, <1>5, <1>8

LEMMA ModesStep ==
  ASSUME IInv, NEW stall \in BOOLEAN, NEW next, Step(stall, next), Fabric
  PROVE  /\ fast_inflight' => state' = "IDLE"
         /\ bcast'.active => state' \in {"WAIT_CLUSTER", "BCAST_SEQ"}
<1>1. Modes /\ bcast \in Bcast
  BY DEF IInv, Registers
<1>2. CASE fast_inflight
  <2>1. state = "IDLE" /\ ~bcast.active
    BY <1>1, <1>2 DEF Modes
  <2>2. Rest
    BY <1>2, <2>1, StepFast
  <2> QED
    BY <2>1, <2>2 DEF Rest
<1>3. CASE ~fast_inflight
  <2>1. KeepFast => ~fast_inflight'
    BY <1>3 DEF KeepFast
  <2>2. CASE \/ Rest \/ WriteMask \/ ClearErrors \/ OtherLocal \/ Fault \/ ToDevice \/ ToNobody
             \/ ReadThroughMask \/ Blocked \/ WaitDevice
    <3>1. KeepFast /\ bcast' = bcast
      BY <2>2 DEF Rest, WriteMask, ClearErrors, OtherLocal, Fault, ToDevice, ToNobody,
                  ReadThroughMask, Blocked, WaitDevice
    <3>2. \/ state \notin {"WAIT_CLUSTER", "BCAST_SEQ"}
          \/ state = "BCAST_SEQ" /\ state' = "BCAST_SEQ"
      BY <2>2 DEF Rest, WriteMask, ClearErrors, OtherLocal, Fault, ToDevice, ToNobody,
                  ReadThroughMask, Blocked, WaitDevice, Routed
    <3> QED
      BY <1>1, <2>1, <3>1, <3>2 DEF Modes
  <2>3. CASE ToCluster
    BY <1>1, <2>3 DEF ToCluster, Routed, Modes
  <2>4. CASE BeginBroadcast \/ NextTarget
    <3>1. KeepFast /\ state' \in {"WAIT_CLUSTER", "BCAST_SEQ"}
      BY <2>4 DEF BeginBroadcast, NextTarget
    <3> QED
      BY <2>1, <3>1
  <2>5. CASE EndBroadcast
    BY <1>1, <2>1, <2>5 DEF EndBroadcast, Bcast
  <2>6. CASE WaitCluster
    <3>1. KeepFast
      BY <2>6 DEF WaitCluster
    <3>2. \/ state' = "BCAST_SEQ" \/ (state' = "WAIT_CLUSTER" /\ bcast' = bcast)
          \/ (~bcast.active /\ bcast' = bcast)
      BY <2>6 DEF WaitCluster
    <3> QED
      BY <1>1, <2>1, <3>1, <3>2
  <2> QED
    BY <2>2, <2>3, <2>4, <2>5, <2>6 DEF Fabric
<1> QED
  BY <1>2, <1>3

LEMMA NextIInv == IInv /\ [Next]_vars => IInv'
<1> SUFFICES ASSUME IInv, [Next]_vars PROVE IInv'
  OBVIOUS
<1>1. CASE Next
  <2>1. Fabric /\ \E stall \in BOOLEAN : \E next : Step(stall, next)
    BY <1>1 DEF Next, Step
  <2>2. PICK stall \in BOOLEAN : \E next : Step(stall, next)
    BY <2>1
  <2>3. PICK next : Step(stall, next)
    BY <2>2
  <2>4. state \in States
    BY DEF IInv, Registers
  <2>5. Place' /\ Told' /\ (done' => active')
    BY <2>1, <2>3, <2>4, StepAtEase, StepRequested, StepFast, StepDevice, StepBetween,
       StepAtTarget DEF States
  <2> QED
    BY <2>1, <2>3, <2>5, RegistersStep, ModesStep DEF IInv, Modes
<1>2. CASE UNCHANGED vars
  <2>1. Registers' /\ Modes'
    BY <1>2 DEF vars, core, fabric, IInv, Registers, Modes
  <2>2. /\ Waiting' = Waiting /\ Targets' = Targets /\ MyAnswer' = MyAnswer
        /\ ClustersIdle' = ClustersIdle /\ DevicesIdle' = DevicesIdle
        /\ \A c : OneAnswer(c)' = OneAnswer(c) /\ MyRequest(c)' = MyRequest(c)
    BY <1>2 DEF vars, core, fabric, Waiting, Targets, MyAnswer, ClustersIdle, DevicesIdle,
                OneAnswer, InHand, OnWires, MyRequest
  <2>3. AtRest' /\ OnFastPath' /\ AtDevice' /\ InBroadcast' /\ BetweenTargets' /\ AtTarget'
    BY <1>2 DEF vars, core, fabric, IInv, Place, AtRest, OnFastPath, AtDevice, InBroadcast,
       BetweenTargets, AtTarget, Waiting, Targets, MyAnswer, ClustersIdle, DevicesIdle,
       OneAnswer, InHand, OnWires, MyRequest
  <2>4. Told'
    BY <1>2 DEF vars, core, fabric, IInv, Told
  <2> QED
    BY <2>1, <2>3, <2>4 DEF IInv, Place
<1> QED
  BY <1>1, <1>2

-----------------------------------------------------------------------------
(* What the invariant says of an access.                                   *)

LEMMA ReachesOnce == IInv => OncePerTarget
<1> SUFFICES ASSUME IInv PROVE OncePerTarget
  OBVIOUS
<1>1. \E S \in SUBSET Targets : hits = Got(S)
  BY DEF IInv, Registers, Place, States, AtRest, OnFastPath, AtDevice, BetweenTargets, AtTarget
<1>2. ASSUME dm_valid \/ done PROVE hits = Got(Targets)
  <2>1. CASE state = "IDLE" /\ ~fast_inflight
    BY <1>2, <2>1 DEF IInv, Place, AtRest, Waiting, dm_valid, core_answer
  <2>2. CASE state = "IDLE" /\ fast_inflight
    BY <1>2, <2>2 DEF IInv, Place, OnFastPath
  <2>3. CASE state # "IDLE"
    BY <1>2, <2>3 DEF IInv, Registers, States, Place, Modes, AtDevice, InBroadcast, Waiting,
                      dm_valid, core_answer
  <2> QED
    BY <2>1, <2>2, <2>3
<1> QED
  BY <1>1, <1>2 DEF OncePerTarget, Got

LEMMA AnswersOwn == IInv => AnswerIsMine
<1> SUFFICES ASSUME IInv, dm_valid PROVE active /\ ~done /\ core_answer = {access.id}
  BY DEF AnswerIsMine
<1>1. CASE state = "IDLE" /\ ~fast_inflight
  BY <1>1 DEF IInv, Place, AtRest, Waiting, dm_valid, core_answer
<1>2. CASE state = "IDLE" /\ fast_inflight
  <2>1. /\ slow_answer = {} /\ Waiting /\ fast_target \in Clusters
        /\ InHand(fast_target) \/ OnWires(fast_target)
    BY <1>2 DEF IInv, Registers, Place, OnFastPath, OneAnswer
  <2>2. CASE InHand(fast_target)
    BY <2>1, <2>2 DEF InHand, Nothing, dm_valid, core_answer
  <2>3. CASE OnWires(fast_target)
    <3>1. PICK a \in MyAnswer : cl_answer = Only(fast_target, {a})
      BY <2>3 DEF OnWires
    <3>2. cl_answer[fast_target] = {a} /\ a.id = access.id
      BY <2>1, <3>1 DEF Only, MyAnswer
    <3>3. core_answer = {access.id}
      BY <1>2, <3>2 DEF core_answer
    <3> QED
      BY <2>1, <3>3 DEF Waiting
  <2> QED
    BY <2>1, <2>2, <2>3
<1>3. CASE state # "IDLE"
  BY <1>3 DEF IInv, Registers, States, Place, Modes, AtDevice, InBroadcast, dm_valid, core_answer
<1> QED
  BY <1>1, <1>2, <1>3

LEMMA RefusalTold == IInv => ErrorTold
BY DEF IInv, Place, AtRest, Told, ClustersIdle, Nothing, ErrorTold

\* The state of the memory stage, the fabric and the ports is well typed
\* (MemoryStage.hpp, CmdFabric.hpp, the command port of ComputeCluster.hpp).
THEOREM Typing == Spec => []TypeOK
<1>1. Spec => []IInv
  BY InitIInv, NextIInv, PTL DEF Spec
<1> QED
  BY <1>1, PlacesTyped, PTL

\* Whatever the number of clusters, the mask, the stalls of the core and the
\* power of the clusters, every register access reaches each of its targets
\* exactly once and nothing else (CmdFabric::seq_process,
\* MemoryStage::compute_comb).
THEOREM OnceEach == Spec => []OncePerTarget
<1>1. Spec => []IInv
  BY InitIInv, NextIInv, PTL DEF Spec
<1> QED
  BY <1>1, ReachesOnce, PTL

\* What reaches the memory stage is the answer to the access that waits in it
\* (CmdFabric::comb_fastpath, the slow_core_resp registers).
THEOREM OwnAnswer == Spec => []AnswerIsMine
<1>1. Spec => []IInv
  BY InitIInv, NextIInv, PTL DEF Spec
<1> QED
  BY <1>1, AnswersOwn, PTL

\* A cluster's refusal that nobody cleared can be read in MMIO_ERR_STATUS once
\* the fabric is at rest (CmdFabric::seq_process).
THEOREM ErrorsTold == Spec => []ErrorTold
<1>1. Spec => []IInv
  BY InitIInv, NextIInv, PTL DEF Spec
<1> QED
  BY <1>1, RefusalTold, PTL
=============================================================================
