----------------------------- MODULE DataFabric -----------------------------
(***************************************************************************)
(* Core/ClusterDataFabric.hpp: the accesses of the DMA and of the NLU go   *)
(* to the clusters their addresses name.  A requester's access is taken,   *)
(* gets an entry of the requester's reorder buffer, and is arbitrated into *)
(* the queue of its cluster; the cluster's answer completes the entry, and *)
(* entries are answered from the head.                                     *)
(*                                                                         *)
(* A step is a rising clock edge.  Writes and reads have their own queues, *)
(* buffers and channels and never meet: direction says which of the two    *)
(* the model follows.  An address is its cluster; the data of an answer    *)
(* is the number of the access that the cluster answered.                  *)
(*                                                                         *)
(* Environment.  A requester r has at most Open[r] accesses open.  A cluster    *)
(* answers in order, any time after it has the address (and the data of a  *)
(* write); the clusters in Silent may leave what they have for ever, and   *)
(* the requesters in Careful do not go there.  Those in Together send the  *)
(* address and the data of a write at the same edge, as DmaEngine does.    *)
(***************************************************************************)
EXTENDS Naturals, Sequences, FiniteSets, FiniteSetsExt, SequencesExt

CONSTANTS
  NUM_CLUSTERS, kIngressDepth, kMaxOutstanding,
  Silent, Careful, Together,
  Open    \* bound: open accesses of each requester

Requester == {"DMA", "NLU"}
Cluster == 0 .. NUM_CLUSTERS - 1
Number == 0 .. Max({Open[r] : r \in Requester})

\* Bound: sequence numbers repeat after 2^32 in the code; one more than can be
\* open at once tells them apart.
SEQ(r) == Open[r] + 1

ASSUME SizeAssumption ==
  /\ {NUM_CLUSTERS, kIngressDepth, kMaxOutstanding} \subseteq Nat \ {0}
  /\ Open \in [Requester -> Nat \ {0}]
ASSUME SilentAssumption == Silent \subseteq Cluster /\ Careful \cup Together \subseteq Requester

VARIABLES
  direction,    \* "write" or "read"
  ingress,      \* per requester: address and data FIFOs, and what was ready
  req_fifo,     \* merged requests
  rob,          \* reorder buffers: the data of each entry, <<>> until it is complete
  seq, retire_head_seq,
  send,         \* the answer in the send register is valid
  rr_last_grant,
  issue_fifo, inflight,     \* per cluster
  aw_send, w_send,          \* per cluster: send registers (an AR is in aw_send)
  resp_ready,   \* per cluster: what was ready for answers
  taken         \* environment: what each cluster has taken and not answered

vars == <<direction, ingress, req_fifo, rob, seq, retire_head_seq, send, rr_last_grant,
          issue_fifo, inflight, aw_send, w_send, resp_ready, taken>>

Init ==
  /\ direction \in {"write", "read"}
  /\ ingress = [r \in Requester |-> [a |-> <<>>, w |-> 0, a_ready |-> FALSE, w_ready |-> FALSE]]
  /\ req_fifo = [r \in Requester |-> <<>>] /\ rob = [r \in Requester |-> <<>>]
  /\ seq = [r \in Requester |-> 0] /\ retire_head_seq = [r \in Requester |-> 0]
  /\ send = [r \in Requester |-> FALSE]
  /\ rr_last_grant = "NLU"
  /\ issue_fifo = [c \in Cluster |-> <<>>] /\ inflight = [c \in Cluster |-> <<>>]
  /\ aw_send = [c \in Cluster |-> <<>>] /\ w_send = [c \in Cluster |-> <<>>]
  /\ resp_ready = [c \in Cluster |-> FALSE]
  /\ taken = [c \in Cluster |-> [a |-> <<>>, w |-> <<>>]]

-----------------------------------------------------------------------------
(* A requester's side of an edge.  a is <<cluster>> when the requester     *)
(* sends an address at this edge, w says whether it sends data.            *)

\* capture_dma_ingress, capture_nlu_ingress: ready tells of the queue before the
\* edge, and is acted on at the next.
Captured(i, a, w) ==
  [a |-> i.a \o a, w |-> IF w THEN i.w + 1 ELSE i.w,
   a_ready |-> Len(i.a) < kIngressDepth, w_ready |-> i.w < kIngressDepth]

\* merge_dma_aw_w, merge_nlu_aw_w: what can become a request.
merges(r, i) ==
  /\ i.a # <<>> /\ Len(req_fifo[r]) < kIngressDepth
  /\ direction = "write" => i.w > 0

Merged(r, i) ==
  IF merges(r, i)
  THEN [ingress |-> [i EXCEPT !.a = Tail(@), !.w = IF direction = "write" THEN @ - 1 ELSE @],
        req_fifo |-> Append(req_fifo[r], [cluster |-> Head(i.a), seq |-> seq[r]]),
        rob |-> Append(rob[r], <<>>),
        seq |-> (seq[r] + 1) % SEQ(r)]
  ELSE [ingress |-> i, req_fifo |-> req_fifo[r], rob |-> rob[r], seq |-> seq[r]]

\* retire_*_resp: an answer that is taken leaves; the head follows when complete.
Retired(r, entries, sent, head, takes) ==
  LET rest == IF takes THEN Tail(entries) ELSE entries
  IN  [rob |-> rest,
       head |-> IF takes THEN (head + 1) % SEQ(r) ELSE head,
       send |-> (sent /\ ~takes) \/ (rest # <<>> /\ Head(rest) # <<>>)]

-----------------------------------------------------------------------------
(* Arbitration (rr_arbitrate_write, rr_arbitrate_read): of the requests at *)
(* the heads whose cluster has room, that of the requester not granted     *)
(* last.  merged is what the merges of this edge left.                     *)

\* Defect: a request to a full cluster keeps the other requester waiting too.
may_grant_blocking(merged) ==
  LET asks == {r \in Requester : merged[r].req_fifo # <<>>}
  IN  {r \in asks : /\ asks \ {rr_last_grant} \subseteq {r}
                    /\ Len(issue_fifo[Head(merged[r].req_fifo).cluster]) < kIngressDepth}

may_grant(merged) ==
  {r \in Requester :
     /\ merged[r].req_fifo # <<>>
     /\ Len(issue_fifo[Head(merged[r].req_fifo).cluster]) < kIngressDepth}

winner(merged) ==
  IF may_grant(merged) \ {rr_last_grant} # {} THEN may_grant(merged) \ {rr_last_grant}
  ELSE may_grant(merged)

\* What the queue of a cluster gets.
granted(merged, granting, c) ==
  LET here == {r \in granting : Head(merged[r].req_fifo).cluster = c}
  IN  SetToSeq({[owner |-> r, seq |-> Head(merged[r].req_fifo).seq] : r \in here})

-----------------------------------------------------------------------------
(* A cluster's side of an edge.                                            *)

\* Defect: answers complete the oldest open entry.
rob_index_oldest(entries, access) == Min({i \in DOMAIN entries : entries[i] = <<>>})

\* The entry of an access in its requester's buffer.
rob_index(entries, access) ==
  LET r == access.owner IN ((access.seq + SEQ(r) - retire_head_seq[r]) % SEQ(r)) + 1

\* collect_cluster_*_resp: the answers of an edge, each for the oldest in flight,
\* with the data of the access that the cluster answers.
Collected(r, entries, answering) ==
  LET filling(i) == {c \in answering : /\ Head(inflight[c]).owner = r
                                       /\ rob_index(entries, Head(inflight[c])) = i}
  IN  [i \in DOMAIN entries |->
         IF filling(i) = {} THEN entries[i]
         ELSE <<Head(taken[CHOOSE c \in filling(i) : TRUE].a).seq>>]

\* Defect: the next request is sent although the last one's data is still there.
slots_free_aw_only(aw, w) == aw = <<>>

slots_free(aw, w) == aw = <<>> /\ w = <<>>

may_issue(flying) == Len(flying) < kMaxOutstanding

\* issue_cluster_*: what is taken leaves the send registers; when both are free the
\* next request is sent, unless too many are in flight.
Issued(c, queue, flying, aw_ready, w_ready) ==
  LET aw == IF aw_ready THEN <<>> ELSE aw_send[c]
      w == IF w_ready THEN <<>> ELSE w_send[c]
  IN  IF queue # <<>> /\ slots_free(aw, w) /\ may_issue(flying)
      THEN [queue |-> Tail(queue), inflight |-> Append(flying, Head(queue)),
            aw |-> <<Head(queue)>>, w |-> IF direction = "write" THEN <<Head(queue)>> ELSE <<>>]
      ELSE [queue |-> queue, inflight |-> flying, aw |-> aw, w |-> w]

-----------------------------------------------------------------------------
(* One edge.                                                               *)

open(r) == Len(rob[r]) + Len(ingress[r].a)

\* The clusters a requester goes to.
Goal(r) == IF r \in Careful THEN Cluster \ Silent ELSE Cluster

\* What a requester sends: an address, and the data of a write not before it.
Sends(r) ==
  LET i == ingress[r]
      new == IF i.a_ready /\ open(r) < Open[r] THEN {<<c>> : c \in Goal(r)} ELSE {}
      owes == Len(i.a) - i.w
  IN  {s \in [a : {<<>>} \cup new, w : BOOLEAN] :
         /\ s.w => direction = "write" /\ i.w_ready /\ owes + Len(s.a) > 0
         /\ r \in Together /\ direction = "write" => s.w = (s.a # <<>>)}

\* A cluster has the whole of its oldest access.
complete_at(c) ==
  taken[c].a # <<>> /\ (direction = "write" => taken[c].w # <<>>)

\* What can happen at the clusters and where answers are taken.
Handshakes ==
  [aw : SUBSET {c \in Cluster : aw_send[c] # <<>>},
   w : SUBSET {c \in Cluster : w_send[c] # <<>>},
   answer : SUBSET {c \in Cluster : resp_ready[c] /\ complete_at(c)},
   takes : SUBSET {r \in Requester : send[r]}]

\* What the captures and merges of an edge leave.
AfterMerge(sends) ==
  [r \in Requester |-> Merged(r, Captured(ingress[r], sends[r].a, sends[r].w))]

Requesters(merged, granting, h) ==
  \E retired \in {[r \in Requester |->
                     Retired(r, Collected(r, merged[r].rob, h.answer), send[r], retire_head_seq[r],
                             r \in h.takes)]} :
    /\ ingress' = [r \in Requester |-> merged[r].ingress]
    /\ req_fifo' = [r \in Requester |->
                      IF r \in granting THEN Tail(merged[r].req_fifo) ELSE merged[r].req_fifo]
    /\ seq' = [r \in Requester |-> merged[r].seq]
    /\ rob' = [r \in Requester |-> retired[r].rob]
    /\ retire_head_seq' = [r \in Requester |-> retired[r].head]
    /\ send' = [r \in Requester |-> retired[r].send]
    /\ rr_last_grant' = IF granting = {} THEN rr_last_grant ELSE CHOOSE r \in granting : TRUE

Clusters(merged, granting, h) ==
  \E issued \in {[c \in Cluster |->
                    Issued(c, issue_fifo[c] \o granted(merged, granting, c),
                           IF c \in h.answer THEN Tail(inflight[c]) ELSE inflight[c],
                           c \in h.aw, c \in h.w)]} :
    /\ issue_fifo' = [c \in Cluster |-> issued[c].queue]
    /\ inflight' = [c \in Cluster |-> issued[c].inflight]
    /\ aw_send' = [c \in Cluster |-> issued[c].aw] /\ w_send' = [c \in Cluster |-> issued[c].w]
    /\ resp_ready' = [c \in Cluster |-> inflight[c] # <<>>]
    /\ taken' = [c \in Cluster |->
         LET rest(s) == IF c \in h.answer /\ s # <<>> THEN Tail(s) ELSE s
         IN  [a |-> rest(taken[c].a) \o (IF c \in h.aw THEN aw_send[c] ELSE <<>>),
              w |-> rest(taken[c].w) \o (IF c \in h.w THEN w_send[c] ELSE <<>>)]]

Clock(merged, granting, h) ==
  /\ Requesters(merged, granting, h) /\ Clusters(merged, granting, h)
  /\ UNCHANGED direction

Next ==
  \E dma \in Sends("DMA"), nlu \in Sends("NLU") :
    \E merged \in {AfterMerge([r \in Requester |-> IF r = "DMA" THEN dma ELSE nlu])} :
      \E granting \in {winner(merged)}, h \in Handshakes : Clock(merged, granting, h)

Spec == Init /\ [][Next]_vars

\* An edge at which the environment does nothing would change nothing.
Settled ==
  /\ \A r \in Requester :
       /\ ~merges(r, ingress[r])
       /\ ingress[r].a_ready = (Len(ingress[r].a) < kIngressDepth)
       /\ ingress[r].w_ready = (ingress[r].w < kIngressDepth)
       /\ ~send[r] => rob[r] = <<>> \/ Head(rob[r]) = <<>>
  /\ may_grant([r \in Requester |-> [req_fifo |-> req_fifo[r]]]) = {}
  /\ \A c \in Cluster :
       /\ issue_fifo[c] = <<>> \/ ~slots_free(aw_send[c], w_send[c]) \/ ~may_issue(inflight[c])
       /\ resp_ready[c] = (inflight[c] # <<>>)

\* The oldest access that the cluster has leaves it.
AnswersOne(c) ==
  taken[c].a # <<>> /\ (taken'[c].a = <<>> \/ Head(taken'[c].a) # Head(taken[c].a))

\* The clock runs as long as it changes something; a cluster that is not silent
\* takes and answers what it has, and a requester in Careful sends the data of its
\* writes and takes its answers; of the other one nothing is asked.
FairSpec ==
  /\ Spec
  /\ []<>Settled \/ []<><<TRUE>>_vars
  /\ \A c \in Cluster \ Silent :
       /\ []<>(aw_send[c] = <<>>) \/ []<><<aw_send[c]' # aw_send[c]>>_vars
       /\ []<>(w_send[c] = <<>>) \/ []<><<w_send[c]' # w_send[c]>>_vars
       /\ []<>(~resp_ready[c] \/ ~complete_at(c)) \/ []<><<AnswersOne(c)>>_vars
  /\ \A r \in Careful :
       /\ []<>(~send[r]) \/ []<><<retire_head_seq'[r] # retire_head_seq[r]>>_vars
       /\ []<>(direction = "read" \/ ~ingress[r].w_ready \/ ingress[r].w > 0 \/ ingress[r].a = <<>>)

-----------------------------------------------------------------------------
(* Properties.                                                             *)

\* A requester's open accesses, oldest first, by the data they get or will get.
inside(r) ==
  [i \in 1 .. Len(rob[r]) |->
     IF rob[r][i] # <<>> THEN rob[r][i][1] ELSE (retire_head_seq[r] + i - 1) % SEQ(r)]
  \o [i \in 1 .. Len(ingress[r].a) |-> (seq[r] + i - 1) % SEQ(r)]

Server == INSTANCE MemoryServer WITH
            Client <- Requester, Names <- [r \in Requester |-> SEQ(r)],
            outstanding <- [r \in Requester |-> inside(r)],
            next_id <- [r \in Requester |-> (seq[r] + Len(ingress[r].a)) % SEQ(r)]

\* Each requester gets the answers to its accesses in their order, each once and
\* each with its own data, although its accesses go to clusters that answer at
\* different times and share them with the other requester (merge_dma_aw_w,
\* collect_cluster_read_resp, retire_dma_read_resp).
ImplementsServer == Server!Spec

\* The address and the data of a write meet at the cluster.
WritesMeet ==
  \A c \in Cluster :
    \A i \in DOMAIN taken[c].a \cap DOMAIN taken[c].w : taken[c].a[i] = taken[c].w[i]

\* A requester that does not go to a cluster that is silent is answered again and
\* again as long as it has accesses open, however many of the other one wait there
\* (rr_arbitrate_write).
EveryAccessAnswered ==
  \A r \in Careful :
    []<>(inside(r) = <<>>) \/ []<><<retire_head_seq'[r] # retire_head_seq[r]>>_vars
=============================================================================
