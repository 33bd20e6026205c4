-------------------------- MODULE DataFabric_proofs --------------------------
(***************************************************************************)
(* The data fabric for any number of clusters, any depths and any bound on *)
(* what a requester has open: the address and the data of a write meet,    *)
(* and every requester gets the answers to its accesses in their order.    *)
(*                                                                         *)
(* The invariant has two parts that do not look at each other's variables. *)
(* At a cluster, what is in flight is what the cluster has and what is in  *)
(* its send registers, on both channels.  At a requester, the entries of   *)
(* the reorder buffer are numbered from the one to retire, and an entry    *)
(* that is complete holds its own number.  They meet where an answer       *)
(* completes an entry.                                                     *)
(***************************************************************************)
EXTENDS DataFabric, SequenceTheorems, FiniteSetTheorems, TLAPS

\* The names of a requester's accesses, and an access that has one.
Name(r) == 0 .. SEQ(r) - 1
Request(r) == [cluster : Cluster, seq : Name(r)]
Access == {x \in [owner : Requester, seq : Nat] : x.seq \in Name(x.owner)}

RequesterTyped(r) ==
  /\ ingress[r] \in [a : Seq(Cluster), w : Nat, a_ready : BOOLEAN, w_ready : BOOLEAN]
  /\ req_fifo[r] \in Seq(Request(r)) /\ rob[r] \in Seq(Seq(Nat))
  /\ seq[r] \in Name(r) /\ retire_head_seq[r] \in Name(r) /\ send[r] \in BOOLEAN

ClusterTyped(c) ==
  /\ {issue_fifo[c], inflight[c], aw_send[c], w_send[c]} \subseteq Seq(Access)
  /\ taken[c] \in [a : Seq(Access), w : Seq(Access)] /\ resp_ready[c] \in BOOLEAN

TypeOK ==
  /\ direction \in {"write", "read"} /\ rr_last_grant \in Requester
  /\ \A r \in Requester : RequesterTyped(r)
  /\ \A c \in Cluster : ClusterTyped(c)

\* What is in flight at a cluster is what it has and what is being sent to it.
Flying(c) ==
  /\ inflight[c] = taken[c].a \o aw_send[c]
  /\ direction = "write" => inflight[c] = taken[c].w \o w_send[c]
  /\ direction = "read" => taken[c].w = <<>> /\ w_send[c] = <<>>

\* The entries of a reorder buffer are numbered from the head; a complete one holds
\* its number; what is offered to the requester is the head, complete.
Numbered(r) ==
  /\ seq[r] = (retire_head_seq[r] + Len(rob[r])) % SEQ(r)
  /\ \A i \in 1 .. Len(rob[r]) :
       rob[r][i] # <<>> => rob[r][i] = <<(retire_head_seq[r] + i - 1) % SEQ(r)>>
  /\ send[r] => rob[r] # <<>> /\ rob[r][1] # <<>>
  /\ open(r) <= Open[r]

IInv ==
  /\ TypeOK
  /\ \A c \in Cluster : Flying(c)
  /\ \A r \in Requester : Numbered(r)

-----------------------------------------------------------------------------
(* Sequences and names.                                                    *)

\* Taking the head of a concatenation whose first part is not empty.
LEMMA TailOfConcat ==
  ASSUME NEW S, NEW s \in Seq(S), NEW t \in Seq(S), s # <<>>
  PROVE  /\ s \o t # <<>> /\ Head(s \o t) = Head(s)
         /\ Tail(s \o t) = Tail(s) \o t
<1>1. s \o t # <<>>
  BY ConcatEqualIffEmpty
<1>2. Head(s \o t) = Head(s)
  BY <1>1, ConcatProperties, LenProperties, EmptySeq
<1>3. Tail(s \o t) \in Seq(S) /\ Tail(s) \o t \in Seq(S)
  BY <1>1, ConcatProperties, HeadTailProperties
<1>4. Len(Tail(s \o t)) = Len(Tail(s) \o t)
  BY <1>1, ConcatProperties, HeadTailProperties, LenProperties
<1>5. ASSUME NEW i \in 1 .. Len(Tail(s \o t))
      PROVE  Tail(s \o t)[i] = (Tail(s) \o t)[i]
  <2>1. Tail(s) \in Seq(S) /\ Len(Tail(s)) = Len(s) - 1 /\ Len(s) \in Nat \ {0} /\ Len(t) \in Nat
    BY HeadTailProperties, LenProperties, EmptySeq
  <2>2. s \o t \in Seq(S) /\ Len(Tail(s \o t)) = Len(s) + Len(t) - 1
    BY <1>1, ConcatProperties, HeadTailProperties
  <2>3. Tail(s \o t)[i] = (s \o t)[i + 1]
    BY <1>1, <2>2, HeadTailProperties
  <2>4. i + 1 \in 1 .. Len(s) + Len(t) /\ i \in 1 .. Len(Tail(s)) + Len(t)
    BY <2>1, <2>2
  <2>5. (s \o t)[i + 1] = IF i + 1 <= Len(s) THEN s[i + 1] ELSE t[i + 1 - Len(s)]
    BY <2>4, ConcatProperties
  <2>6. (Tail(s) \o t)[i] = IF i <= Len(Tail(s)) THEN Tail(s)[i] ELSE t[i - Len(Tail(s))]
    BY <2>1, <2>4, ConcatProperties
  <2>7. i <= Len(Tail(s)) => Tail(s)[i] = s[i + 1]
    BY <2>1, HeadTailProperties
  <2> QED
    BY <2>1, <2>3, <2>5, <2>6, <2>7
<1> QED
  BY <1>1, <1>2, <1>3, <1>4, <1>5, SeqEqual

\* Two sequences of numbers joined: how long the result is.
LEMMA ConcatOfNats ==
  ASSUME NEW a \in Seq(Nat), NEW b \in Seq(Nat)
  PROVE  a \o b \in Seq(Nat) /\ Len(a \o b) = Len(a) + Len(b)
BY SMTT(60)

\* An element of a concatenation.
LEMMA ConcatAt ==
  ASSUME NEW S, NEW s \in Seq(S), NEW t \in Seq(S), NEW k, k = Len(s), NEW l, l = Len(t),
         NEW i \in 1 .. k + l
  PROVE  (s \o t)[i] = IF i <= k THEN s[i] ELSE t[i - k]
BY ConcatProperties

\* An element of the first part of a concatenation.
LEMMA FirstOfConcat ==
  ASSUME NEW S, NEW s \in Seq(S), NEW t \in Seq(S), NEW i \in 1 .. Len(s)
  PROVE  (s \o t)[i] = s[i]
<1>1. PICK k \in Nat, l \in Nat : k = Len(s) /\ l = Len(t)
  BY LenProperties
<1>2. i \in 1 .. k + l /\ i <= k
  BY <1>1
<1>3. (s \o t)[i] = IF i <= k THEN s[i] ELSE t[i - k]
  BY <1>1, <1>2, ConcatAt
<1> QED
  BY <1>2, <1>3

\* The constants are what they are assumed to be.
LEMMA Sizes ==
  /\ kIngressDepth \in Nat \ {0} /\ kMaxOutstanding \in Nat \ {0}
  /\ \A r \in Requester : Open[r] \in Nat \ {0} /\ SEQ(r) = Open[r] + 1 /\ SEQ(r) \in Nat \ {0, 1}
BY SizeAssumption DEF SEQ

\* A name and an offset of at most one turn wrap at most once.
LEMMA NameWraps ==
  ASSUME NEW n \in Nat \ {0}, NEW h \in 0 .. n - 1, NEW k \in 0 .. n
  PROVE  /\ (h + k) % n = IF h + k < n THEN h + k ELSE h + k - n
         /\ (h + k) % n \in 0 .. n - 1
BY SMTT(30)

\* Offsets add up.
LEMMA NamesAdd ==
  ASSUME NEW n \in Nat \ {0}, NEW h \in 0 .. n - 1, NEW k \in 0 .. n, NEW l \in 0 .. n,
         k + l <= n
  PROVE  (((h + k) % n) + l) % n = (h + (k + l)) % n
<1>1. (h + k) % n = IF h + k < n THEN h + k ELSE h + k - n
  BY NameWraps
<1>2. (h + k) % n \in 0 .. n - 1
  BY NameWraps
<1>3. (h + (k + l)) % n = IF h + (k + l) < n THEN h + (k + l) ELSE h + (k + l) - n
  <2>1. k + l \in 0 .. n
    OBVIOUS
  <2> QED
    BY <2>1, NameWraps
<1>4. CASE h + k < n
  <2>1. ((h + k) % n) + l = h + (k + l)
    BY <1>1, <1>4
  <2> QED
    BY <2>1
<1>5. CASE ~(h + k < n)
  <2>1. PICK x \in 0 .. n - 1 : x = (h + k) % n
    BY <1>2
  <2>2. x = h + k - n
    BY <2>1, <1>1, <1>5
  <2>3. x + l < n /\ x + l = h + (k + l) - n /\ ~(h + (k + l) < n)
    BY <2>2, <1>5
  <2>4. (x + l) % n = x + l
    BY <2>3, NameWraps
  <2>5. (x + l) % n = (h + (k + l)) % n
    BY <2>3, <2>4, <1>3
  <2> QED
    BY <2>1, <2>5
<1> QED
  BY <1>4, <1>5

\* The entry an access completes has the access's name (rob_index).
LEMMA IndexNames ==
  ASSUME NEW n \in Nat \ {0}, NEW h \in 0 .. n - 1, NEW s \in 0 .. n - 1
  PROVE  /\ ((s + n - h) % n) + 1 \in 1 .. n
         /\ (h + (((s + n - h) % n) + 1) - 1) % n = s
<1>1. (s + n - h) % n = IF s >= h THEN s - h ELSE s + n - h
  BY SMTT(30)
<1>2. (s + n - h) % n \in 0 .. n - 1
  BY <1>1
<1>3. PICK k \in 0 .. n - 1 : k = (s + n - h) % n
  BY <1>2
<1>4. (h + k) % n = IF h + k < n THEN h + k ELSE h + k - n
  <2>1. k \in 0 .. n
    OBVIOUS
  <2> QED
    BY <2>1, NameWraps
<1>5. (h + k) % n = s
  BY <1>1, <1>3, <1>4
<1>6. h + (k + 1) - 1 = h + k
  OBVIOUS
<1> QED
  BY <1>3, <1>5, <1>6

-----------------------------------------------------------------------------
(* A cluster's side of an edge.                                            *)

\* A finite set as a sequence.
LEMMA SetToSeqTyped ==
  ASSUME NEW S, IsFiniteSet(S)
  PROVE  SetToSeq(S) \in Seq(S)
<1>1. Cardinality(S) \in Nat /\ \E f \in [1 .. Cardinality(S) -> S] : IsInjective(f)
  BY FS_CardinalityType DEF ExistsBijection, Bijection, Injection
<1>2. SetToSeq(S) \in [1 .. Cardinality(S) -> S]
  BY <1>1 DEF SetToSeq
<1> QED
  BY <1>1, <1>2

\* What is granted are accesses.
LEMMA GrantedTyped ==
  ASSUME NEW merged, NEW granting \in SUBSET Requester, NEW c,
         \A r \in granting : merged[r].req_fifo \in Seq(Request(r)) /\ merged[r].req_fifo # <<>>
  PROVE  granted(merged, granting, c) \in Seq(Access)
<1> DEFINE here == {r \in granting : Head(merged[r].req_fifo).cluster = c}
           S == {[owner |-> r, seq |-> Head(merged[r].req_fifo).seq] : r \in here}
<1>1. ASSUME NEW r \in granting
      PROVE  [owner |-> r, seq |-> Head(merged[r].req_fifo).seq] \in Access
  <2>1. Head(merged[r].req_fifo) \in Request(r)
    BY HeadTailProperties
  <2> QED
    BY <2>1, Sizes DEF Request, Access, Name
<1>2. S \subseteq Access
  BY <1>1
<1>3. IsFiniteSet(S)
  <2>1. S \subseteq {[owner |-> "DMA", seq |-> Head(merged["DMA"].req_fifo).seq]}
                   \cup {[owner |-> "NLU", seq |-> Head(merged["NLU"].req_fifo).seq]}
    BY DEF Requester
  <2>2. IsFiniteSet({[owner |-> "DMA", seq |-> Head(merged["DMA"].req_fifo).seq]}
                     \cup {[owner |-> "NLU", seq |-> Head(merged["NLU"].req_fifo).seq]})
    BY FS_Singleton, FS_Union
  <2> QED
    BY <2>1, <2>2, FS_Subset
<1>4. SetToSeq(S) \in Seq(S)
  BY <1>3, SetToSeqTyped
<1>5. SetToSeq(S) \in Seq(Access)
  BY <1>2, <1>4, SeqMonotonic
<1> QED
  BY <1>5 DEF granted

\* What a cluster's edge leaves: i in the fabric, a and w in the cluster.
ClusterLeaves(i, a, w) ==
  /\ {i.queue, i.inflight, i.aw, i.w, a, w} \subseteq Seq(Access)
  /\ i.inflight = a \o i.aw
  /\ direction = "write" => i.inflight = w \o i.w
  /\ direction = "read" => w = <<>> /\ i.w = <<>>

\* One cluster through an edge: queue is what waits for it with what is granted.
LEMMA ClusterStep ==
  ASSUME NEW c \in Cluster, ClusterTyped(c), Flying(c), direction \in {"write", "read"},
         NEW queue \in Seq(Access), NEW answers \in BOOLEAN, NEW aw \in BOOLEAN, NEW w \in BOOLEAN,
         answers => complete_at(c),
         NEW flying, flying = IF answers THEN Tail(inflight[c]) ELSE inflight[c],
         NEW i, i = Issued(c, queue, flying, aw, w),
         NEW a1, a1 = (IF answers /\ taken[c].a # <<>> THEN Tail(taken[c].a) ELSE taken[c].a)
                        \o (IF aw THEN aw_send[c] ELSE <<>>),
         NEW w1, w1 = (IF answers /\ taken[c].w # <<>> THEN Tail(taken[c].w) ELSE taken[c].w)
                        \o (IF w THEN w_send[c] ELSE <<>>)
  PROVE  ClusterLeaves(i, a1, w1)
<1> SUFFICES
      /\ {i.queue, i.inflight, i.aw, i.w, a1, w1} \subseteq Seq(Access)
      /\ i.inflight = a1 \o i.aw
      /\ direction = "write" => i.inflight = w1 \o i.w
      /\ direction = "read" => w1 = <<>> /\ i.w = <<>>
  BY Zenon DEF ClusterLeaves
<1> DEFINE a0 == IF answers /\ taken[c].a # <<>> THEN Tail(taken[c].a) ELSE taken[c].a
           w0 == IF answers /\ taken[c].w # <<>> THEN Tail(taken[c].w) ELSE taken[c].w
           aw1 == IF aw THEN <<>> ELSE aw_send[c]
           ww1 == IF w THEN <<>> ELSE w_send[c]
<1>1. /\ inflight[c] \in Seq(Access) /\ aw_send[c] \in Seq(Access) /\ w_send[c] \in Seq(Access)
      /\ taken[c].a \in Seq(Access) /\ taken[c].w \in Seq(Access) /\ <<>> \in Seq(Access)
  BY EmptySeq DEF ClusterTyped
<1>2. a0 \in Seq(Access) /\ w0 \in Seq(Access) /\ aw1 \in Seq(Access) /\ ww1 \in Seq(Access)
  BY <1>1, HeadTailProperties
<1>3. flying = a0 \o aw_send[c] /\ (direction = "write" => flying = w0 \o w_send[c])
  <2>1. CASE ~answers
    BY <2>1 DEF Flying
  <2>2. CASE answers
    <3>1. taken[c].a # <<>> /\ (direction = "write" => taken[c].w # <<>>)
      BY <2>2 DEF complete_at
    <3>2. Tail(taken[c].a \o aw_send[c]) = Tail(taken[c].a) \o aw_send[c]
      BY <1>1, <3>1, TailOfConcat
    <3>3. direction = "write" => Tail(taken[c].w \o w_send[c]) = Tail(taken[c].w) \o w_send[c]
      BY <1>1, <3>1, TailOfConcat
    <3> QED
      BY <2>2, <3>1, <3>2, <3>3 DEF Flying
  <2> QED
    BY <2>1, <2>2
<1>4. direction = "write" => flying = w0 \o w_send[c]
  BY <1>3
<1>5. flying \in Seq(Access)
  <2>1. a0 \o aw_send[c] \in Seq(Access)
    BY <1>1, <1>2, ConcatProperties
  <2> QED
    BY <1>3, <2>1
<1>6. a1 \in Seq(Access) /\ w1 \in Seq(Access)
  BY <1>1, <1>2, ConcatProperties
<1>7. flying = a1 \o aw1
  BY <1>1, <1>2, <1>3, ConcatEmptySeq, ConcatProperties
<1>8. direction = "write" => flying = w1 \o ww1
  BY <1>1, <1>2, <1>4, ConcatEmptySeq, ConcatProperties
<1>9. direction = "read" => w1 = <<>> /\ ww1 = <<>>
  BY <1>1, ConcatEmptySeq DEF Flying
<1>10. CASE queue # <<>> /\ slots_free(aw1, ww1) /\ may_issue(flying)
  <2>1. /\ i.queue = Tail(queue) /\ i.inflight = Append(flying, Head(queue))
        /\ i.aw = <<Head(queue)>> /\ i.w = IF direction = "write" THEN <<Head(queue)>> ELSE <<>>
    BY <1>10 DEF Issued
  <2>2. Head(queue) \in Access /\ Tail(queue) \in Seq(Access) /\ <<Head(queue)>> \in Seq(Access)
    BY <1>10, HeadTailProperties
  <2>3. flying = a1 /\ (direction = "write" => flying = w1)
    BY <1>6, <1>7, <1>8, <1>10, ConcatEmptySeq DEF slots_free
  <2>4. Append(flying, Head(queue)) = flying \o <<Head(queue)>>
    BY <1>5, <2>2, AppendIsConcat
  <2>5. Append(flying, Head(queue)) \in Seq(Access)
    BY <1>5, <2>2, AppendProperties
  <2> QED
    BY <1>1, <1>6, <1>9, <2>1, <2>2, <2>3, <2>4, <2>5
<1>11. CASE ~(queue # <<>> /\ slots_free(aw1, ww1) /\ may_issue(flying))
  <2>1. i.queue = queue /\ i.inflight = flying /\ i.aw = aw1 /\ i.w = ww1
    BY <1>11 DEF Issued
  <2> QED
    BY <1>2, <1>5, <1>6, <1>7, <1>8, <1>9, <2>1
<1> QED
  BY <1>10, <1>11

-----------------------------------------------------------------------------
(* A requester's side of an edge.                                          *)

\* The entries of a buffer whose head has the name h.
EntriesNumbered(entries, h, n) ==
  \A i \in 1 .. Len(entries) : entries[i] # <<>> => entries[i] = <<(h + i - 1) % n>>

\* What captures and merges leave when the requester sends the address a.
MergeLeaves(r, a, m) ==
  /\ m.ingress \in [a : Seq(Cluster), w : Nat, a_ready : BOOLEAN, w_ready : BOOLEAN]
  /\ m.req_fifo \in Seq(Request(r)) /\ m.rob \in Seq(Seq(Nat)) /\ m.seq \in Name(r)
  /\ Len(a) \in {0, 1}
  /\ Len(m.rob) + Len(m.ingress.a) = open(r) + Len(a) /\ open(r) + Len(a) <= Open[r]
  /\ m.seq = (retire_head_seq[r] + Len(m.rob)) % SEQ(r)
  /\ Len(m.rob) >= Len(rob[r])
  /\ \A i \in 1 .. Len(m.rob) : m.rob[i] = IF i <= Len(rob[r]) THEN rob[r][i] ELSE <<>>

\* Captures and merges: an access moves on, or a new one comes, within the bound.
LEMMA MergeStep ==
  ASSUME NEW r \in Requester, RequesterTyped(r), Numbered(r), NEW s \in Sends(r),
         NEW m, m = Merged(r, Captured(ingress[r], s.a, s.w))
  PROVE  MergeLeaves(r, s.a, m)
<1> SUFFICES
      /\ m.ingress \in [a : Seq(Cluster), w : Nat, a_ready : BOOLEAN, w_ready : BOOLEAN]
      /\ m.req_fifo \in Seq(Request(r)) /\ m.rob \in Seq(Seq(Nat)) /\ m.seq \in Name(r)
      /\ Len(s.a) \in {0, 1}
      /\ Len(m.rob) + Len(m.ingress.a) = open(r) + Len(s.a) /\ open(r) + Len(s.a) <= Open[r]
      /\ m.seq = (retire_head_seq[r] + Len(m.rob)) % SEQ(r)
      /\ Len(m.rob) >= Len(rob[r])
      /\ \A i \in 1 .. Len(m.rob) : m.rob[i] = IF i <= Len(rob[r]) THEN rob[r][i] ELSE <<>>
  BY Zenon DEF MergeLeaves
<1> DEFINE i0 == Captured(ingress[r], s.a, s.w)
<1>1. /\ ingress[r].a \in Seq(Cluster) /\ ingress[r].w \in Nat /\ req_fifo[r] \in Seq(Request(r))
      /\ rob[r] \in Seq(Seq(Nat)) /\ seq[r] \in Name(r) /\ retire_head_seq[r] \in Name(r)
      /\ SEQ(r) \in Nat \ {0} /\ Open[r] \in Nat /\ SEQ(r) = Open[r] + 1
  BY Sizes DEF RequesterTyped
<1>2. PICK k \in Nat, l \in Nat : k = Len(rob[r]) /\ l = Len(ingress[r].a)
  BY <1>1, LenProperties
<1>3. open(r) = k + l
  BY <1>2, Zenon DEF open
<1>10. PICK N \in Nat \ {0} : SEQ(r) = N /\ Open[r] = N - 1 /\ Name(r) = 0 .. N - 1
  BY <1>1 DEF Name
<1>4. k + l <= Open[r]
  BY <1>3, Zenon DEF Numbered
<1>5. PICK d \in {0, 1} : /\ s.a \in Seq(Cluster) /\ s.w \in BOOLEAN
                          /\ d = Len(s.a) /\ k + l + d <= N - 1
  <2>1. s.w \in BOOLEAN /\ (s.a = <<>> \/ \E c \in Cluster : s.a = <<c>> /\ open(r) < Open[r])
    BY DEF Sends, Goal
  <2>2. CASE s.a = <<>>
    <3>1. s.a \in Seq(Cluster) /\ Len(s.a) = 0
      BY <2>2, EmptySeq
    <3> QED
      BY <1>4, <1>10, <2>1, <3>1
  <2>3. ASSUME NEW c \in Cluster, s.a = <<c>>, open(r) < Open[r]
        PROVE  s.a \in Seq(Cluster) /\ Len(s.a) = 1 /\ k + l + 1 <= N - 1
    BY <1>10, <1>3, <2>3
  <2> QED
    BY <2>1, <2>2, <2>3
<1>6. /\ i0 \in [a : Seq(Cluster), w : Nat, a_ready : BOOLEAN, w_ready : BOOLEAN]
      /\ i0.a \in Seq(Cluster) /\ Len(i0.a) = l + d
  <2>1. /\ ingress[r].a \o s.a \in Seq(Cluster)
        /\ Len(ingress[r].a \o s.a) = Len(ingress[r].a) + Len(s.a)
    BY <1>1, <1>5, ConcatProperties
  <2>2. Len(ingress[r].a \o s.a) = l + d
    BY <1>2, <1>5, <2>1, Zenon
  <2>3. i0 = [a |-> ingress[r].a \o s.a, w |-> IF s.w THEN ingress[r].w + 1 ELSE ingress[r].w,
              a_ready |-> Len(ingress[r].a) < kIngressDepth, w_ready |-> ingress[r].w < kIngressDepth]
    BY DEF Captured
  <2>4. PICK n \in Nat : n = IF s.w THEN ingress[r].w + 1 ELSE ingress[r].w
    BY <1>1, <1>5
  <2>5. (Len(ingress[r].a) < kIngressDepth) \in BOOLEAN /\ (ingress[r].w < kIngressDepth) \in BOOLEAN
    OBVIOUS
  <2>7. PICK x \in BOOLEAN : x = (Len(ingress[r].a) < kIngressDepth)
    BY <2>5, Zenon
  <2>8. PICK y \in BOOLEAN : y = (ingress[r].w < kIngressDepth)
    BY <2>5, Zenon
  <2>6. i0 = [a |-> ingress[r].a \o s.a, w |-> n, a_ready |-> x, w_ready |-> y]
    BY <2>3, <2>4, <2>7, <2>8, Zenon
  <2> HIDE DEF i0
  <2>9. i0.a = ingress[r].a \o s.a
    BY <2>6
  <2>10. i0 \in [a : Seq(Cluster), w : Nat, a_ready : BOOLEAN, w_ready : BOOLEAN]
    BY <2>1, <2>6
  <2> QED
    BY <2>1, <2>2, <2>9, <2>10, Zenon
<1>7. ASSUME NEW k1 \in Nat, NEW l1 \in Nat, k1 + l1 = k + l + d, Len(m.rob) = k1, Len(m.ingress.a) = l1,
             k1 >= k
      PROVE  /\ Len(m.rob) + Len(m.ingress.a) = open(r) + Len(s.a) /\ open(r) + Len(s.a) <= Open[r]
             /\ Len(m.rob) >= Len(rob[r])
  BY <1>2, <1>3, <1>5, <1>7, <1>10, Zenon
<1>8. CASE ~merges(r, i0)
  <2>1. m = [ingress |-> i0, req_fifo |-> req_fifo[r], rob |-> rob[r], seq |-> seq[r]]
    BY <1>8 DEF Merged
  <2>2. m.ingress = i0 /\ m.req_fifo = req_fifo[r] /\ m.rob = rob[r] /\ m.seq = seq[r]
    BY <2>1
  <2>3. \A i \in 1 .. Len(m.rob) : m.rob[i] = IF i <= Len(rob[r]) THEN rob[r][i] ELSE <<>>
    BY <1>2, <2>2
  <2>4. Len(m.rob) = k /\ Len(m.ingress.a) = l + d
    BY <1>2, <1>6, <2>2
  <2>6. l + d \in Nat /\ k + (l + d) = k + l + d /\ k >= k
    OBVIOUS
  <2>5. m.seq = (retire_head_seq[r] + Len(m.rob)) % SEQ(r)
    BY <2>2 DEF Numbered
  <2> QED
    BY <1>1, <1>5, <1>6, <1>7, <2>2, <2>3, <2>4, <2>5, <2>6
<1>9. CASE merges(r, i0)
  <2>1. i0.a # <<>> /\ (direction = "write" => i0.w > 0)
    BY <1>9 DEF merges
  <2>2. /\ Head(i0.a) \in Cluster /\ Tail(i0.a) \in Seq(Cluster)
        /\ l + d > 0 /\ Len(Tail(i0.a)) = l + d - 1
    BY <1>6, <2>1, HeadTailProperties, EmptySeq
  <2>3. /\ m.ingress = [i0 EXCEPT !.a = Tail(@), !.w = IF direction = "write" THEN @ - 1 ELSE @]
        /\ m.req_fifo = Append(req_fifo[r], [cluster |-> Head(i0.a), seq |-> seq[r]])
        /\ m.rob = Append(rob[r], <<>>) /\ m.seq = (seq[r] + 1) % SEQ(r)
    BY <1>9 DEF Merged
  <2>4. m.ingress \in [a : Seq(Cluster), w : Nat, a_ready : BOOLEAN, w_ready : BOOLEAN]
    <3>1. (IF direction = "write" THEN i0.w - 1 ELSE i0.w) \in Nat
      BY <1>6, <2>1
    <3>2. m.ingress = [a |-> Tail(i0.a), w |-> IF direction = "write" THEN i0.w - 1 ELSE i0.w,
                       a_ready |-> i0.a_ready, w_ready |-> i0.w_ready]
      BY <1>6, <2>3
    <3>3. i0.a_ready \in BOOLEAN /\ i0.w_ready \in BOOLEAN
      BY <1>6
    <3>4. PICK n \in Nat : n = IF direction = "write" THEN i0.w - 1 ELSE i0.w
      BY <3>1
    <3> QED
      BY <2>2, <3>2, <3>3, <3>4
  <2>5. m.ingress.a = Tail(i0.a)
    BY <1>6, <2>3
  <2>6. m.req_fifo \in Seq(Request(r))
    BY <1>1, <2>2, <2>3, AppendProperties DEF Request
  <2>7. /\ m.rob \in Seq(Seq(Nat)) /\ Len(m.rob) = k + 1
        /\ \A i \in 1 .. k : m.rob[i] = rob[r][i]
        /\ m.rob[k + 1] = <<>>
    <3>1. <<>> \in Seq(Nat)
      BY EmptySeq
    <3> QED
      BY <1>1, <1>2, <2>3, <3>1, AppendProperties
  <2>8. k + 1 <= N /\ k \in 0 .. N /\ 1 \in 0 .. N
    <3>1. l + d > 0
      BY <2>2
    <3>2. k + l + d <= N - 1
      BY <1>5
    <3> HIDE DEF i0
    <3> QED
      BY <3>1, <3>2
  <2>9. m.seq = (retire_head_seq[r] + (k + 1)) % SEQ(r) /\ m.seq \in Name(r)
    <3>1. m.seq = (((retire_head_seq[r] + k) % SEQ(r)) + 1) % SEQ(r)
      BY <1>2, <2>3, Zenon DEF Numbered
    <3>2. retire_head_seq[r] \in 0 .. N - 1 /\ seq[r] \in 0 .. N - 1
      BY <1>1, <1>10
    <3>3. m.seq = (retire_head_seq[r] + (k + 1)) % N
      BY <1>10, <2>8, <3>1, <3>2, NamesAdd
    <3>4. m.seq \in 0 .. N - 1
      BY <1>10, <2>3, <2>8, <3>2, NameWraps
    <3> QED
      BY <1>10, <3>3, <3>4
  <2>10. /\ Len(m.ingress.a) = l + d - 1 /\ l + d - 1 \in Nat /\ k + 1 \in Nat
         /\ (k + 1) + (l + d - 1) = k + l + d /\ k + 1 >= k
    BY <2>2, <2>5
  <2>11. \A i \in 1 .. Len(m.rob) : m.rob[i] = IF i <= Len(rob[r]) THEN rob[r][i] ELSE <<>>
    BY <1>2, <2>7
  <2>12. m.seq = (retire_head_seq[r] + Len(m.rob)) % SEQ(r)
    BY <2>7, <2>9
  <2> QED
    BY <1>5, <1>7, <2>4, <2>6, <2>7, <2>9, <2>10, <2>11, <2>12
<1> QED
  BY <1>8, <1>9

\* An answer completes the entry that has the name of its access.
LEMMA CollectStep ==
  ASSUME NEW r \in Requester, \A c \in Cluster : ClusterTyped(c) /\ Flying(c),
         NEW h \in Name(r), h = retire_head_seq[r],
         NEW entries \in Seq(Seq(Nat)), EntriesNumbered(entries, h, SEQ(r)),
         NEW answering \in SUBSET {c \in Cluster : complete_at(c)},
         NEW e, e = Collected(r, entries, answering)
  PROVE  /\ e \in Seq(Seq(Nat)) /\ Len(e) = Len(entries) /\ EntriesNumbered(e, h, SEQ(r))
         /\ \A i \in 1 .. Len(e) : entries[i] # <<>> => e[i] # <<>>
<1> DEFINE filling(i) == {c \in answering : /\ Head(inflight[c]).owner = r
                                             /\ rob_index(entries, Head(inflight[c])) = i}
<1>1. ASSUME NEW i, NEW c \in filling(i)
      PROVE  Head(taken[c].a).seq = (h + i - 1) % SEQ(r) /\ Head(taken[c].a).seq \in Nat
  <2>1. taken[c].a \in Seq(Access) /\ taken[c].a # <<>> /\ aw_send[c] \in Seq(Access)
    BY DEF ClusterTyped, complete_at
  <2>2. Head(inflight[c]) = Head(taken[c].a) /\ Head(taken[c].a) \in Access
    <3>1. Head(taken[c].a \o aw_send[c]) = Head(taken[c].a)
      BY <2>1, TailOfConcat
    <3>2. Head(taken[c].a) \in Access
      BY <2>1, HeadTailProperties
    <3> QED
      BY <3>1, <3>2 DEF Flying
  <2>3. PICK n \in Name(r) : n = Head(taken[c].a).seq
    BY <2>2 DEF Access
  <2>4. i = ((n + SEQ(r) - h) % SEQ(r)) + 1
    BY <2>2, <2>3 DEF rob_index
  <2>5. SEQ(r) \in Nat \ {0} /\ h \in 0 .. SEQ(r) - 1 /\ n \in 0 .. SEQ(r) - 1
    BY Sizes DEF Name
  <2>6. (h + (((n + SEQ(r) - h) % SEQ(r)) + 1) - 1) % SEQ(r) = n
    BY <2>5, IndexNames
  <2>7. (h + i - 1) % SEQ(r) = n
    BY <2>4, <2>6
  <2> QED
    BY <2>3, <2>7 DEF Name
<1>2. DOMAIN entries = 1 .. Len(entries) /\ Len(entries) \in Nat
  BY LenProperties
<1>3. e = [i \in 1 .. Len(entries) |->
             IF filling(i) = {} THEN entries[i]
             ELSE <<Head(taken[CHOOSE c \in filling(i) : TRUE].a).seq>>]
  BY <1>2 DEF Collected
<1>4. ASSUME NEW i \in 1 .. Len(entries)
      PROVE  /\ e[i] \in Seq(Nat)
             /\ e[i] # <<>> => e[i] = <<(h + i - 1) % SEQ(r)>>
             /\ entries[i] # <<>> => e[i] # <<>>
  <2>1. CASE filling(i) = {}
    BY <1>3, <2>1, ElementOfSeq DEF EntriesNumbered
  <2>2. CASE filling(i) # {}
    <3>1. PICK c \in filling(i) : e[i] = <<Head(taken[c].a).seq>>
      BY <1>3, <2>2
    <3>2. e[i] = <<(h + i - 1) % SEQ(r)>> /\ Head(taken[c].a).seq \in Nat
      BY <1>1, <3>1
    <3> QED
      BY <3>1, <3>2
  <2> QED
    BY <2>1, <2>2
<1>5. e \in [1 .. Len(entries) -> Seq(Nat)]
  BY <1>3, <1>4
<1>6. e \in Seq(Seq(Nat))
  <2>1. PICK n \in Nat : n = Len(entries)
    BY <1>2
  <2>2. e \in [1 .. n -> Seq(Nat)]
    BY <1>5, <2>1
  <2> QED
    BY <2>2
<1>7. Len(e) = Len(entries)
  BY <1>2, <1>5, <1>6, LenProperties
<1> QED
  BY <1>4, <1>6, <1>7 DEF EntriesNumbered

\* What a retirement leaves of the entries e, the first of which has the name h.
RetireLeaves(r, e, h, takes, t) ==
  /\ t.rob \in Seq(Seq(Nat)) /\ t.head \in Name(r) /\ t.send \in BOOLEAN
  /\ EntriesNumbered(t.rob, t.head, SEQ(r))
  /\ t.send => t.rob # <<>> /\ t.rob[1] # <<>>
  /\ ~takes => t.rob = e /\ t.head = h
  /\ takes => Len(t.rob) = Len(e) - 1 /\ t.head = (h + 1) % SEQ(r) /\ Len(e) > 0

\* An answer that is taken leaves the buffer, and all entries keep their names.
LEMMA RetireStep ==
  ASSUME NEW r \in Requester, NEW h \in Name(r),
         NEW e \in Seq(Seq(Nat)), EntriesNumbered(e, h, SEQ(r)), Len(e) <= Open[r],
         NEW sent \in BOOLEAN, sent => e # <<>> /\ e[1] # <<>>,
         NEW takes \in BOOLEAN, takes => sent,
         NEW t, t = Retired(r, e, sent, h, takes)
  PROVE  RetireLeaves(r, e, h, takes, t)
<1> SUFFICES
      /\ t.rob \in Seq(Seq(Nat)) /\ t.head \in Name(r) /\ t.send \in BOOLEAN
      /\ EntriesNumbered(t.rob, t.head, SEQ(r))
      /\ t.send => t.rob # <<>> /\ t.rob[1] # <<>>
      /\ ~takes => t.rob = e /\ t.head = h
      /\ takes => Len(t.rob) = Len(e) - 1 /\ t.head = (h + 1) % SEQ(r) /\ Len(e) > 0
  BY Zenon DEF RetireLeaves
<1>1. SEQ(r) \in Nat \ {0} /\ Open[r] \in Nat /\ SEQ(r) = Open[r] + 1 /\ Len(e) \in Nat
  BY Sizes, LenProperties
<1>2. CASE ~takes
  <2>1. t.rob = e /\ t.head = h /\ t.send = (sent \/ (e # <<>> /\ Head(e) # <<>>))
    BY <1>2 DEF Retired
  <2>2. Head(e) = e[1]
    OBVIOUS
  <2> QED
    BY <1>2, <2>1, <2>2
<1>3. CASE takes
  <2>1. t.rob = Tail(e) /\ t.head = (h + 1) % SEQ(r)
        /\ t.send = (Tail(e) # <<>> /\ Head(Tail(e)) # <<>>)
    BY <1>3 DEF Retired
  <2>2. /\ Tail(e) \in Seq(Seq(Nat)) /\ Len(Tail(e)) = Len(e) - 1
        /\ \A i \in 1 .. Len(Tail(e)) : Tail(e)[i] = e[i + 1]
    BY <1>3, HeadTailProperties
  <2>3. Len(e) > 0
    BY <1>1, <1>3, EmptySeq
  <2>4. (h + 1) % SEQ(r) \in Name(r)
    <3>1. 1 \in 0 .. SEQ(r)
      BY <1>1
    <3> QED
      BY <1>1, <3>1, NameWraps DEF Name
  <2>5. ASSUME NEW i \in 1 .. Len(Tail(e)), Tail(e)[i] # <<>>
        PROVE  Tail(e)[i] = <<(((h + 1) % SEQ(r)) + i - 1) % SEQ(r)>>
    <3>1. i + 1 \in 1 .. Len(e) /\ Tail(e)[i] = e[i + 1]
      BY <1>1, <2>2
    <3>2. e[i + 1] = <<(h + (i + 1) - 1) % SEQ(r)>>
      BY <2>5, <3>1 DEF EntriesNumbered
    <3>3. i - 1 \in 0 .. SEQ(r) /\ 1 \in 0 .. SEQ(r) /\ 1 + (i - 1) <= SEQ(r)
      BY <1>1, <3>1
    <3>4. (((h + 1) % SEQ(r)) + (i - 1)) % SEQ(r) = (h + (1 + (i - 1))) % SEQ(r)
      BY <1>1, <3>3, NamesAdd DEF Name
    <3>5. PICK k \in Name(r) : k = (h + 1) % SEQ(r)
      BY <2>4
    <3>6. k + (i - 1) = k + i - 1 /\ h + (1 + (i - 1)) = h + (i + 1) - 1
      BY <1>1 DEF Name
    <3> QED
      BY <3>1, <3>2, <3>4, <3>5, <3>6
  <2>6. Tail(e) # <<>> => Head(Tail(e)) = Tail(e)[1]
    BY <2>2
  <2> QED
    BY <1>3, <2>1, <2>2, <2>3, <2>4, <2>5, <2>6 DEF EntriesNumbered
<1> QED
  BY <1>2, <1>3

\* What is granted was asked for.
LEMMA WinnerAsks ==
  ASSUME NEW merged, NEW r \in winner(merged)
  PROVE  r \in Requester /\ merged[r].req_fifo # <<>>
BY DEF winner, may_grant

\* The lengths of a requester's queues after an edge: d accesses came, x left.
Passed(r, d, x) ==
  /\ open(r)' = open(r) + d - x /\ x <= open(r)
  /\ retire_head_seq'[r] = IF x = 1 THEN (retire_head_seq[r] + 1) % SEQ(r) ELSE retire_head_seq[r]

\* A requester through an edge.
LEMMA RequesterEdge ==
  ASSUME IInv, NEW r \in Requester, NEW s \in Sends(r),
         NEW merged, NEW granting, NEW h \in Handshakes,
         merged[r] = Merged(r, Captured(ingress[r], s.a, s.w)),
         granting = winner(merged), Requesters(merged, granting, h)
  PROVE  /\ RequesterTyped(r)' /\ Numbered(r)'
         /\ \E d \in {0, 1}, x \in {0, 1} : Passed(r, d, x)
<1>1. RequesterTyped(r) /\ Numbered(r) /\ \A c \in Cluster : ClusterTyped(c) /\ Flying(c)
  BY DEF IInv, TypeOK
<1>2. PICK m : m = merged[r] /\ m = Merged(r, Captured(ingress[r], s.a, s.w))
  OBVIOUS
<1>3. /\ m.ingress \in [a : Seq(Cluster), w : Nat, a_ready : BOOLEAN, w_ready : BOOLEAN]
      /\ m.req_fifo \in Seq(Request(r)) /\ m.rob \in Seq(Seq(Nat)) /\ m.seq \in Name(r)
      /\ Len(s.a) \in {0, 1}
      /\ Len(m.rob) + Len(m.ingress.a) = open(r) + Len(s.a) /\ open(r) + Len(s.a) <= Open[r]
      /\ m.seq = (retire_head_seq[r] + Len(m.rob)) % SEQ(r)
      /\ Len(m.rob) >= Len(rob[r])
      /\ \A i \in 1 .. Len(m.rob) : m.rob[i] = IF i <= Len(rob[r]) THEN rob[r][i] ELSE <<>>
  <2>1. m = Merged(r, Captured(ingress[r], s.a, s.w))
    BY <1>2
  <2>2. MergeLeaves(r, s.a, m)
    BY <1>1, <2>1, MergeStep, Zenon
  <2> QED
    BY <2>2, Zenon DEF MergeLeaves
<1>4. PICK H \in Name(r), sent \in BOOLEAN : H = retire_head_seq[r] /\ sent = send[r]
  BY <1>1 DEF RequesterTyped
<1>6. PICK k0 \in Nat, l0 \in Nat : k0 = Len(rob[r]) /\ l0 = Len(ingress[r].a)
  <2>1. PICK k0 \in Nat : k0 = Len(rob[r])
    BY <1>1, LenProperties DEF RequesterTyped
  <2>2. PICK l0 \in Nat : l0 = Len(ingress[r].a)
    BY <1>1, LenProperties DEF RequesterTyped
  <2> QED
    BY <2>1, <2>2
<1>7. PICK N \in Nat \ {0} : SEQ(r) = N /\ Open[r] = N - 1 /\ Name(r) = 0 .. N - 1
  BY Sizes DEF Name
<1>5. PICK k \in Nat, l \in Nat, d \in {0, 1} :
        /\ k = Len(m.rob) /\ l = Len(m.ingress.a) /\ d = Len(s.a)
        /\ k + l = k0 + l0 + d /\ k0 + l0 + d <= N - 1 /\ k0 <= k
  <2>1. PICK k \in Nat : k = Len(m.rob)
    BY <1>3, LenProperties
  <2>2. PICK l \in Nat : l = Len(m.ingress.a)
    BY <1>3, LenProperties
  <2>3. PICK d \in {0, 1} : d = Len(s.a)
    BY <1>3
  <2>4. open(r) = k0 + l0
    BY <1>6, Zenon DEF open
  <2>5. k + l = k0 + l0 + d
    BY <1>3, <2>1, <2>2, <2>3, <2>4, Zenon
  <2>6. k0 + l0 + d <= N - 1
    BY <1>3, <1>7, <2>3, <2>4, Zenon
  <2>7. k >= k0
    BY <1>3, <1>6, <2>1, Zenon
  <2>8. k0 <= k
    BY <2>7
  <2> QED
    BY <2>1, <2>2, <2>3, <2>5, <2>6, <2>8, Zenon
<1>22. k + l = k0 + l0 + d /\ k0 + l0 + d <= N - 1 /\ k0 <= k
  BY <1>5, Zenon
<1>8. EntriesNumbered(m.rob, H, SEQ(r))
  <2>1. \A i \in 1 .. k0 : rob[r][i] # <<>> => rob[r][i] = <<(H + i - 1) % SEQ(r)>>
    BY <1>1, <1>4, <1>6 DEF Numbered
  <2>2. \A i \in 1 .. k : m.rob[i] = IF i <= k0 THEN rob[r][i] ELSE <<>>
    BY <1>3, <1>5, <1>6
  <2>3. \A i \in 1 .. k : m.rob[i] # <<>> => i \in 1 .. k0 /\ m.rob[i] = rob[r][i]
    BY <2>2
  <2> QED
    BY <1>5, <2>1, <2>3, Zenon DEF EntriesNumbered
<1>9. PICK e : e = Collected(r, m.rob, h.answer)
  OBVIOUS
<1>10. /\ e \in Seq(Seq(Nat)) /\ Len(e) = k /\ EntriesNumbered(e, H, SEQ(r))
       /\ \A i \in 1 .. Len(e) : m.rob[i] # <<>> => e[i] # <<>>
  <2>1. h.answer \in SUBSET {c \in Cluster : complete_at(c)}
    BY DEF Handshakes
  <2> QED
    BY <1>1, <1>3, <1>4, <1>5, <1>8, <1>9, <2>1, CollectStep
<1>11. sent => e # <<>> /\ e[1] # <<>> /\ k >= 1
  <2>1. sent => rob[r] # <<>> /\ rob[r][1] # <<>>
    BY <1>1, <1>4 DEF Numbered
  <2>2. rob[r] # <<>> => k0 >= 1
    BY <1>1, <1>6, EmptySeq DEF RequesterTyped
  <2>3. \A i \in 1 .. k : m.rob[i] = IF i <= k0 THEN rob[r][i] ELSE <<>>
    BY <1>3, <1>5, <1>6, Zenon
  <2>4. ASSUME sent PROVE 1 \in 1 .. k /\ 1 <= k0
    <3>1. k0 >= 1
      BY <2>1, <2>2, <2>4
    <3> QED
      BY <1>22, <3>1
  <2>5. ASSUME sent PROVE m.rob[1] = rob[r][1]
    <3>1. m.rob[1] = IF 1 <= k0 THEN rob[r][1] ELSE <<>>
      BY <2>3, <2>4, <2>5, Zenon
    <3> QED
      BY <2>4, <2>5, <3>1, Zenon
  <2>6. ASSUME sent PROVE e # <<>> /\ k >= 1
    BY <1>10, <2>4, <2>6
  <2>7. ASSUME sent PROVE e[1] # <<>>
    <3>1. m.rob[1] # <<>> /\ 1 \in 1 .. Len(e)
      BY <1>10, <2>1, <2>4, <2>5, <2>7
    <3> QED
      BY <1>10, <3>1, Zenon
  <2> QED
    BY <2>6, <2>7
<1>12. PICK takes \in BOOLEAN : takes = (r \in h.takes) /\ (takes => sent)
  <2>1. r \in h.takes => sent
    BY <1>4 DEF Handshakes
  <2>2. (r \in h.takes) \in BOOLEAN
    OBVIOUS
  <2> QED
    BY <2>1, <2>2, Zenon
<1>13. PICK t : t = Retired(r, e, sent, H, takes)
  OBVIOUS
<1>14. /\ t.rob \in Seq(Seq(Nat)) /\ t.head \in Name(r) /\ t.send \in BOOLEAN
       /\ EntriesNumbered(t.rob, t.head, SEQ(r))
       /\ t.send => t.rob # <<>> /\ t.rob[1] # <<>>
       /\ ~takes => t.rob = e /\ t.head = H
       /\ takes => Len(t.rob) = Len(e) - 1 /\ t.head = (H + 1) % SEQ(r) /\ Len(e) > 0
  <2>1. k <= N - 1
    BY <1>22
  <2>2. Len(e) <= Open[r]
    BY <1>7, <1>10, <2>1, Zenon
  <2>3. e \in Seq(Seq(Nat)) /\ EntriesNumbered(e, H, SEQ(r))
    BY <1>10
  <2>4. (sent => e # <<>> /\ e[1] # <<>>) /\ (takes => sent)
    BY <1>11, <1>12
  <2>5. RetireLeaves(r, e, H, takes, t)
    BY <1>13, <2>2, <2>3, <2>4, RetireStep, Zenon
  <2> QED
    BY <2>5, Zenon DEF RetireLeaves
<1>15. /\ ingress'[r] = m.ingress /\ seq'[r] = m.seq
       /\ req_fifo'[r] = IF r \in granting THEN Tail(m.req_fifo) ELSE m.req_fifo
       /\ rob'[r] = t.rob /\ retire_head_seq'[r] = t.head /\ send'[r] = t.send
  <2>1. PICK retired : /\ retired[r] = t
                       /\ ingress' = [q \in Requester |-> merged[q].ingress]
                       /\ req_fifo' = [q \in Requester |->
                            IF q \in granting THEN Tail(merged[q].req_fifo) ELSE merged[q].req_fifo]
                       /\ seq' = [q \in Requester |-> merged[q].seq]
                       /\ rob' = [q \in Requester |-> retired[q].rob]
                       /\ retire_head_seq' = [q \in Requester |-> retired[q].head]
                       /\ send' = [q \in Requester |-> retired[q].send]
    BY <1>2, <1>4, <1>9, <1>12, <1>13 DEF Requesters
  <2> QED
    BY <1>2, <2>1
<1>16. RequesterTyped(r)'
  <2>1. r \in granting => m.req_fifo # <<>>
    BY <1>2, WinnerAsks
  <2>2. req_fifo'[r] \in Seq(Request(r))
    BY <1>3, <1>15, <2>1, HeadTailProperties
  <2> QED
    BY <1>3, <1>14, <1>15, <2>2 DEF RequesterTyped
<1>17. PICK x \in {0, 1}, k1 \in Nat : /\ k1 = Len(t.rob) /\ k1 = k - x /\ x <= k0
                                      /\ t.head = IF x = 1 THEN (H + 1) % N ELSE H
  <2>1. CASE ~takes
    BY <1>7, <1>10, <1>14, <2>1
  <2>2. CASE takes
    <3>1. rob[r] # <<>>
      BY <1>1, <1>4, <1>12, <2>2 DEF Numbered
    <3>2. k0 >= 1
      BY <1>1, <1>6, <3>1, EmptySeq DEF RequesterTyped
    <3>3. PICK k1 : k1 = Len(t.rob)
      OBVIOUS
    <3>4. k1 = k - 1 /\ k > 0 /\ k1 \in Nat
      BY <1>10, <1>14, <2>2, <3>3
    <3> QED
      BY <1>7, <1>14, <2>2, <3>2, <3>3, <3>4
  <2> QED
    BY <2>1, <2>2
<1>23. k1 = k - x /\ x <= k0
  BY <1>17, Zenon
<1>18. open(r)' = k1 + l
  BY <1>5, <1>15, <1>17, Zenon DEF open
<1>19. Passed(r, d, x)
  <2>2. k1 + l = k0 + l0 + d - x /\ x <= k0 + l0
    BY <1>22, <1>23
  <2>1. open(r)' = open(r) + d - x /\ x <= open(r)
    BY <1>6, <1>18, <2>2, Zenon DEF open
  <2> QED
    BY <1>4, <1>7, <1>15, <1>17, <2>1 DEF Passed
<1>20. m.seq = (t.head + k1) % N
  <2>1. m.seq = (H + k) % N /\ H \in 0 .. N - 1
    BY <1>3, <1>4, <1>5, <1>7
  <2>2. CASE x = 0
    BY <1>17, <2>1, <2>2
  <2>3. CASE x = 1
    <3>1. k1 \in 0 .. N /\ 1 \in 0 .. N /\ 1 + k1 <= N /\ 1 + k1 = k
      BY <1>22, <1>23, <2>3
    <3>2. (((H + 1) % N) + k1) % N = (H + (1 + k1)) % N
      BY <2>1, <3>1, NamesAdd
    <3> QED
      BY <1>17, <2>1, <2>3, <3>1, <3>2
  <2> QED
    BY <2>2, <2>3
<1>21. Numbered(r)'
  <2>1. seq'[r] = (retire_head_seq'[r] + Len(rob'[r])) % SEQ(r)
    BY <1>7, <1>15, <1>17, <1>20
  <2>3. k1 + l <= N - 1
    BY <1>22, <1>23
  <2>2. open(r)' <= Open[r]
    BY <1>7, <1>18, <2>3, Zenon
  <2> QED
    BY <1>14, <1>15, <2>1, <2>2 DEF Numbered, EntriesNumbered
<1> QED
  BY <1>16, <1>19, <1>21

\* A cluster through an edge.
LEMMA ClustersEdge ==
  ASSUME IInv, NEW merged, NEW granting \in SUBSET Requester, NEW h \in Handshakes,
         \A r \in granting : merged[r].req_fifo \in Seq(Request(r)) /\ merged[r].req_fifo # <<>>,
         Clusters(merged, granting, h), direction' = direction, NEW c \in Cluster
  PROVE  ClusterTyped(c)' /\ Flying(c)'
<1>1. ClusterTyped(c) /\ Flying(c) /\ direction \in {"write", "read"}
  BY DEF IInv, TypeOK
<1>2. PICK answers \in BOOLEAN, aw \in BOOLEAN, w \in BOOLEAN :
        /\ answers = (c \in h.answer) /\ aw = (c \in h.aw) /\ w = (c \in h.w)
  <2>1. (c \in h.answer) \in BOOLEAN /\ (c \in h.aw) \in BOOLEAN /\ (c \in h.w) \in BOOLEAN
    OBVIOUS
  <2> QED
    BY <2>1, Zenon
<1>3. answers => complete_at(c)
  BY <1>2 DEF Handshakes
<1>4. PICK queue \in Seq(Access) : queue = issue_fifo[c] \o granted(merged, granting, c)
  <2>1. granted(merged, granting, c) \in Seq(Access)
    BY GrantedTyped
  <2> QED
    BY <1>1, <2>1, ConcatProperties DEF ClusterTyped
<1>5. PICK flying : flying = IF answers THEN Tail(inflight[c]) ELSE inflight[c]
  OBVIOUS
<1>6. PICK i : i = Issued(c, queue, flying, aw, w)
  OBVIOUS
<1>7. PICK a1, w1 :
        /\ a1 = (IF answers /\ taken[c].a # <<>> THEN Tail(taken[c].a) ELSE taken[c].a)
                  \o (IF aw THEN aw_send[c] ELSE <<>>)
        /\ w1 = (IF answers /\ taken[c].w # <<>> THEN Tail(taken[c].w) ELSE taken[c].w)
                  \o (IF w THEN w_send[c] ELSE <<>>)
  OBVIOUS
<1>8. /\ {i.queue, i.inflight, i.aw, i.w, a1, w1} \subseteq Seq(Access)
      /\ i.inflight = a1 \o i.aw
      /\ direction = "write" => i.inflight = w1 \o i.w
      /\ direction = "read" => w1 = <<>> /\ i.w = <<>>
  <2>1. ClusterLeaves(i, a1, w1)
    BY <1>1, <1>3, <1>5, <1>6, <1>7, ClusterStep, Zenon
  <2> QED
    BY <2>1 DEF ClusterLeaves
<1>9. /\ issue_fifo'[c] = i.queue /\ inflight'[c] = i.inflight
      /\ aw_send'[c] = i.aw /\ w_send'[c] = i.w
  <2>1. PICK issued :
          /\ issued = [q \in Cluster |->
                         Issued(q, issue_fifo[q] \o granted(merged, granting, q),
                                IF q \in h.answer THEN Tail(inflight[q]) ELSE inflight[q],
                                q \in h.aw, q \in h.w)]
          /\ issue_fifo' = [q \in Cluster |-> issued[q].queue]
          /\ inflight' = [q \in Cluster |-> issued[q].inflight]
          /\ aw_send' = [q \in Cluster |-> issued[q].aw]
          /\ w_send' = [q \in Cluster |-> issued[q].w]
    BY DEF Clusters
  <2>2. issued[c] = Issued(c, issue_fifo[c] \o granted(merged, granting, c),
                           IF c \in h.answer THEN Tail(inflight[c]) ELSE inflight[c],
                           c \in h.aw, c \in h.w)
    BY <2>1
  <2>3. issued[c] = i
    BY <1>2, <1>4, <1>5, <1>6, <2>2, Zenon
  <2> QED
    BY <2>1, <2>3
<1>10. taken'[c] = [a |-> a1, w |-> w1]
  <2>1. taken' = [q \in Cluster |->
          LET rest(s) == IF q \in h.answer /\ s # <<>> THEN Tail(s) ELSE s
          IN  [a |-> rest(taken[q].a) \o (IF q \in h.aw THEN aw_send[q] ELSE <<>>),
               w |-> rest(taken[q].w) \o (IF q \in h.w THEN w_send[q] ELSE <<>>)]]
    BY DEF Clusters
  <2>2. taken'[c] =
          [a |-> (IF c \in h.answer /\ taken[c].a # <<>> THEN Tail(taken[c].a) ELSE taken[c].a)
                   \o (IF c \in h.aw THEN aw_send[c] ELSE <<>>),
           w |-> (IF c \in h.answer /\ taken[c].w # <<>> THEN Tail(taken[c].w) ELSE taken[c].w)
                   \o (IF c \in h.w THEN w_send[c] ELSE <<>>)]
    BY <2>1
  <2> QED
    BY <1>2, <1>7, <2>2, Zenon
<1>11. resp_ready'[c] \in BOOLEAN
  BY DEF Clusters
<1>12. ClusterTyped(c)'
  BY <1>8, <1>9, <1>10, <1>11 DEF ClusterTyped
<1>13. Flying(c)'
  <2>1. taken'[c].a = a1 /\ taken'[c].w = w1
    BY <1>10
  <2> QED
    BY <1>8, <1>9, <2>1, Zenon DEF Flying
<1> QED
  BY <1>12, <1>13

-----------------------------------------------------------------------------
(* The invariant.                                                          *)

\* At reset nothing is open and nothing in flight.
LEMMA InitIInv == Init => IInv
<1> SUFFICES ASSUME Init PROVE IInv
  OBVIOUS
<1>1. ASSUME NEW r \in Requester PROVE RequesterTyped(r) /\ Numbered(r)
  <2>1. /\ ingress[r] = [a |-> <<>>, w |-> 0, a_ready |-> FALSE, w_ready |-> FALSE]
        /\ req_fifo[r] = <<>> /\ rob[r] = <<>> /\ seq[r] = 0 /\ retire_head_seq[r] = 0
        /\ send[r] = FALSE
    BY DEF Init
  <2>2. SEQ(r) \in Nat \ {0} /\ 0 \in Name(r) /\ Open[r] \in Nat
    BY Sizes DEF Name
  <2>3. RequesterTyped(r)
    <3>1. <<>> \in Seq(Cluster) /\ <<>> \in Seq(Request(r)) /\ <<>> \in Seq(Seq(Nat))
      BY EmptySeq
    <3>2. ingress[r] \in [a : Seq(Cluster), w : Nat, a_ready : BOOLEAN, w_ready : BOOLEAN]
      BY <2>1, <3>1
    <3> QED
      BY <2>1, <2>2, <3>1, <3>2, Zenon DEF RequesterTyped
  <2>4. open(r) = 0
    BY <2>1 DEF open
  <2>5. (0 + 0) % SEQ(r) = 0
    BY <2>2
  <2>6. Numbered(r)
    <3>1. Len(rob[r]) = 0
      BY <2>1
    <3>2. seq[r] = (retire_head_seq[r] + Len(rob[r])) % SEQ(r)
      BY <2>1, <2>5, <3>1, Zenon
    <3>3. open(r) <= Open[r]
      BY <2>2, <2>4
    <3> QED
      BY <2>1, <3>1, <3>2, <3>3 DEF Numbered
  <2> QED
    BY <2>3, <2>6
<1>2. ASSUME NEW c \in Cluster PROVE ClusterTyped(c) /\ Flying(c)
  BY EmptySeq, ConcatEmptySeq DEF Init, ClusterTyped, Flying
<1>3. direction \in {"write", "read"} /\ rr_last_grant \in Requester
  BY DEF Init, Requester
<1> QED
  BY <1>1, <1>2, <1>3 DEF IInv, TypeOK

\* An edge keeps the invariant, and at each requester at most one access comes and
\* at most one leaves.
LEMMA EdgeIInv ==
  ASSUME IInv, Next
  PROVE  /\ IInv'
         /\ \A r \in Requester : \E d \in {0, 1}, x \in {0, 1} : Passed(r, d, x)
<1>9. PICK dma \in Sends("DMA"), nlu \in Sends("NLU") :
        \E merged \in {AfterMerge([r \in Requester |-> IF r = "DMA" THEN dma ELSE nlu])} :
          \E granting \in {winner(merged)}, h \in Handshakes : Clock(merged, granting, h)
  BY Zenon DEF Next
<1>10. PICK merged \in {AfterMerge([r \in Requester |-> IF r = "DMA" THEN dma ELSE nlu])} :
         \E granting \in {winner(merged)}, h \in Handshakes : Clock(merged, granting, h)
  BY <1>9, Zenon
<1>11. PICK granting \in {winner(merged)}, h \in Handshakes : Clock(merged, granting, h)
  BY <1>10, Zenon
<1>1. /\ merged = AfterMerge([r \in Requester |-> IF r = "DMA" THEN dma ELSE nlu])
      /\ granting = winner(merged) /\ Clock(merged, granting, h)
  BY <1>10, <1>11, Zenon
<1>2. /\ Requesters(merged, granting, h) /\ Clusters(merged, granting, h)
      /\ direction' = direction
  BY <1>1 DEF Clock
<1>3. ASSUME NEW r \in Requester
      PROVE  \E s \in Sends(r) : merged[r] = Merged(r, Captured(ingress[r], s.a, s.w))
  <2>1. merged[r] = Merged(r, Captured(ingress[r], (IF r = "DMA" THEN dma ELSE nlu).a,
                                       (IF r = "DMA" THEN dma ELSE nlu).w))
    BY <1>1 DEF AfterMerge
  <2> QED
    BY <2>1 DEF Requester
<1>4. ASSUME NEW r \in Requester
      PROVE  /\ RequesterTyped(r)' /\ Numbered(r)'
             /\ \E d \in {0, 1}, x \in {0, 1} : Passed(r, d, x)
  <2>1. PICK s \in Sends(r) : merged[r] = Merged(r, Captured(ingress[r], s.a, s.w))
    BY <1>3
  <2> QED
    BY <1>1, <1>2, <2>1, RequesterEdge
<1>5. ASSUME NEW r \in granting
      PROVE  r \in Requester /\ merged[r].req_fifo \in Seq(Request(r)) /\ merged[r].req_fifo # <<>>
  <2>1. r \in Requester /\ merged[r].req_fifo # <<>>
    BY <1>1, WinnerAsks
  <2>2. PICK s \in Sends(r) : merged[r] = Merged(r, Captured(ingress[r], s.a, s.w))
    BY <1>3, <2>1
  <2>3. RequesterTyped(r) /\ Numbered(r)
    BY <2>1 DEF IInv, TypeOK
  <2>4. MergeLeaves(r, s.a, merged[r])
    BY <2>1, <2>2, <2>3, MergeStep, Zenon
  <2> QED
    BY <2>1, <2>4 DEF MergeLeaves
<1>6. ASSUME NEW c \in Cluster PROVE ClusterTyped(c)' /\ Flying(c)'
  <2>1. granting \in SUBSET Requester
    BY <1>5
  <2> QED
    BY <1>1, <1>2, <1>5, <2>1, ClustersEdge
<1>7. direction' \in {"write", "read"} /\ rr_last_grant' \in Requester
  <2>1. rr_last_grant' = IF granting = {} THEN rr_last_grant ELSE CHOOSE r \in granting : TRUE
    BY <1>2 DEF Requesters
  <2>2. granting # {} => (CHOOSE r \in granting : TRUE) \in granting
    OBVIOUS
  <2> QED
    BY <1>2, <1>5, <2>1, <2>2 DEF IInv, TypeOK
<1>8. IInv'
  BY <1>4, <1>6, <1>7 DEF IInv, TypeOK
<1> QED
  BY <1>4, <1>8

\* The invariant holds in every state.
THEOREM Invariance == Spec => []IInv
<1>1. IInv /\ [Next]_vars => IInv'
  <2>1. IInv /\ Next => IInv'
    BY EdgeIInv
  <2>2. IInv /\ UNCHANGED vars => IInv'
    <3> SUFFICES ASSUME IInv, UNCHANGED vars PROVE IInv'
      OBVIOUS
    <3>1. ASSUME NEW r \in Requester PROVE RequesterTyped(r)' /\ Numbered(r)'
      <4>1. open(r)' = open(r)
        BY Zenon DEF vars, open
      <4>2. RequesterTyped(r) /\ Numbered(r)
        BY DEF IInv, TypeOK
      <4> QED
        BY <4>1, <4>2, Zenon DEF vars, RequesterTyped, Numbered
    <3>2. ASSUME NEW c \in Cluster PROVE ClusterTyped(c)' /\ Flying(c)'
      BY Zenon DEF IInv, TypeOK, vars, ClusterTyped, Flying
    <3> QED
      BY <3>1, <3>2, Zenon DEF IInv, TypeOK, vars
  <2> QED
    BY <2>1, <2>2
<1> QED
  BY <1>1, InitIInv, PTL DEF Spec

\* At a cluster, the accesses whose address and whose data it has are the first ones
\* in flight on both channels.
LEMMA FlyingMeets ==
  ASSUME IInv
  PROVE  WritesMeet
<1> SUFFICES ASSUME NEW c \in Cluster, NEW i \in DOMAIN taken[c].a \cap DOMAIN taken[c].w
             PROVE  taken[c].a[i] = taken[c].w[i]
  BY DEF WritesMeet
<1>1. /\ taken[c].a \in Seq(Access) /\ taken[c].w \in Seq(Access)
      /\ aw_send[c] \in Seq(Access) /\ w_send[c] \in Seq(Access)
      /\ Flying(c) /\ direction \in {"write", "read"}
  BY DEF IInv, TypeOK, ClusterTyped
<1>2. CASE direction = "read"
  BY <1>1, <1>2 DEF Flying
<1>3. CASE direction = "write"
  <2>1. taken[c].a \o aw_send[c] = taken[c].w \o w_send[c]
    BY <1>1, <1>3 DEF Flying
  <2>2. i \in 1 .. Len(taken[c].a) /\ i \in 1 .. Len(taken[c].w)
    BY <1>1, LenProperties
  <2>3. (taken[c].a \o aw_send[c])[i] = taken[c].a[i]
    BY <1>1, <2>2, FirstOfConcat
  <2>4. (taken[c].w \o w_send[c])[i] = taken[c].w[i]
    BY <1>1, <2>2, FirstOfConcat
  <2> QED
    BY <2>1, <2>3, <2>4
<1> QED
  BY <1>1, <1>2, <1>3

\* The address and the data of a write meet at the cluster.
THEOREM Meeting == Spec => []WritesMeet
BY Invariance, FlyingMeets, PTL

-----------------------------------------------------------------------------
(* The refinement.  A requester's open accesses have the names from that   *)
(* of the head on, in their order.                                         *)

\* k names, from h on.
Run(h, k, n) == [i \in 1 .. k |-> (h + i - 1) % n]

\* A run and what follows it.
LEMMA RunAppend ==
  ASSUME NEW n \in Nat \ {0}, NEW h \in 0 .. n - 1, NEW k \in 0 .. n - 1
  PROVE  Append(Run(h, k, n), (h + k) % n) = Run(h, k + 1, n)
<1>1. PICK y \in Nat : y = (h + k) % n
  BY NameWraps
<1>2. Run(h, k, n) \in Seq(Nat) /\ Len(Run(h, k, n)) = k
  <2>1. ASSUME NEW i \in 1 .. k PROVE (h + i - 1) % n \in Nat
    OBVIOUS
  <2>2. Run(h, k, n) \in [1 .. k -> Nat]
    BY <2>1 DEF Run
  <2> QED
    BY <2>2
<1>3. Run(h, k + 1, n) \in Seq(Nat) /\ Len(Run(h, k + 1, n)) = k + 1
  <2>1. ASSUME NEW i \in 1 .. k + 1 PROVE (h + i - 1) % n \in Nat
    OBVIOUS
  <2>2. Run(h, k + 1, n) \in [1 .. k + 1 -> Nat]
    BY <2>1 DEF Run
  <2> QED
    BY <2>2
<1>4. /\ Append(Run(h, k, n), y) \in Seq(Nat) /\ Len(Append(Run(h, k, n), y)) = k + 1
      /\ \A i \in 1 .. k : Append(Run(h, k, n), y)[i] = Run(h, k, n)[i]
      /\ Append(Run(h, k, n), y)[k + 1] = y
  BY <1>1, <1>2, AppendProperties
<1>5. ASSUME NEW i \in 1 .. k + 1 PROVE Append(Run(h, k, n), y)[i] = Run(h, k + 1, n)[i]
  <2>1. Run(h, k + 1, n)[i] = (h + i - 1) % n
    BY Zenon DEF Run
  <2>2. CASE i \in 1 .. k
    <3>1. Run(h, k, n)[i] = (h + i - 1) % n
      BY <2>2, Zenon DEF Run
    <3> QED
      BY <1>4, <2>1, <2>2, <3>1, Zenon
  <2>3. CASE i \notin 1 .. k
    <3>1. i = k + 1
      BY <2>3
    <3>2. h + i - 1 = h + k
      BY <3>1
    <3> QED
      BY <1>1, <1>4, <2>1, <3>1, <3>2, Zenon
  <2> QED
    BY <2>2, <2>3
<1>6. Append(Run(h, k, n), y) = Run(h, k + 1, n)
  BY <1>3, <1>4, <1>5, SeqEqual
<1> QED
  BY <1>1, <1>6

\* A run without its first name.
LEMMA RunTail ==
  ASSUME NEW n \in Nat \ {0}, NEW h \in 0 .. n - 1, NEW k \in 1 .. n
  PROVE  /\ Run(h, k, n) # <<>>
         /\ Tail(Run(h, k, n)) = Run((h + 1) % n, k - 1, n)
<1>1. PICK g \in 0 .. n - 1 : g = (h + 1) % n
  <2>1. 1 \in 0 .. n
    OBVIOUS
  <2> QED
    BY <2>1, NameWraps
<1>2. Run(h, k, n) \in Seq(Nat) /\ Len(Run(h, k, n)) = k
  <2>1. ASSUME NEW i \in 1 .. k PROVE (h + i - 1) % n \in Nat
    OBVIOUS
  <2>2. Run(h, k, n) \in [1 .. k -> Nat]
    BY <2>1 DEF Run
  <2> QED
    BY <2>2
<1>3. Run(g, k - 1, n) \in Seq(Nat) /\ Len(Run(g, k - 1, n)) = k - 1
  <2>1. ASSUME NEW i \in 1 .. k - 1 PROVE (g + i - 1) % n \in Nat
    OBVIOUS
  <2>2. Run(g, k - 1, n) \in [1 .. k - 1 -> Nat]
    BY <2>1 DEF Run
  <2> QED
    BY <2>2
<1>4. Run(h, k, n) # <<>>
  BY <1>2
<1>5. /\ Tail(Run(h, k, n)) \in Seq(Nat) /\ Len(Tail(Run(h, k, n))) = k - 1
      /\ \A i \in 1 .. k - 1 : Tail(Run(h, k, n))[i] = Run(h, k, n)[i + 1]
  BY <1>2, <1>4, HeadTailProperties
<1>6. ASSUME NEW i \in 1 .. k - 1 PROVE Tail(Run(h, k, n))[i] = Run(g, k - 1, n)[i]
  <2>1. i + 1 \in 1 .. k /\ h + (i + 1) - 1 = h + (1 + (i - 1)) /\ g + i - 1 = g + (i - 1)
    OBVIOUS
  <2>2. Run(h, k, n)[i + 1] = (h + (i + 1) - 1) % n /\ Run(g, k - 1, n)[i] = (g + i - 1) % n
    BY <2>1, Zenon DEF Run
  <2>3. (g + (i - 1)) % n = (h + (1 + (i - 1))) % n
    <3>1. 1 \in 0 .. n /\ i - 1 \in 0 .. n /\ 1 + (i - 1) <= n
      OBVIOUS
    <3> QED
      BY <1>1, <3>1, NamesAdd
  <2> QED
    BY <1>5, <2>1, <2>2, <2>3, Zenon
<1>7. Tail(Run(h, k, n)) = Run(g, k - 1, n)
  BY <1>3, <1>5, <1>6, SeqEqual
<1> QED
  BY <1>1, <1>4, <1>7

\* A run of k names, when d names come at its end and x leave at its head, moves as
\* the accesses of a client of the server do.
LEMMA RunMoves ==
  ASSUME NEW n \in Nat \ {0}, NEW h \in 0 .. n - 1, NEW k \in 0 .. n - 1,
         NEW d \in {0, 1}, NEW x \in {0, 1}, x <= k, k + d - x <= n - 1,
         NEW g, g = IF x = 1 THEN (h + 1) % n ELSE h
  PROVE  <<Run(g, k + d - x, n), (g + (k + d - x)) % n>>
           \in Server!Moves(Run(h, k, n), (h + k) % n, n)
<1>1. (h + (k + 1)) % n = (((h + k) % n) + 1) % n
  <2>1. k \in 0 .. n /\ 1 \in 0 .. n /\ k + 1 <= n
    OBVIOUS
  <2> QED
    BY <2>1, NamesAdd
<1>2. CASE x = 0 /\ d = 0
  <2>1. g = h /\ k + d - x = k
    BY <1>2
  <2> QED
    BY <2>1, Zenon DEF Server!Moves
<1>3. CASE x = 0 /\ d = 1
  <2>1. g = h /\ k + d - x = k + 1
    BY <1>3
  <2>2. Run(h, k + 1, n) = Append(Run(h, k, n), (h + k) % n)
    BY RunAppend
  <2> QED
    BY <1>1, <2>1, <2>2, Zenon DEF Server!Moves
<1>4. CASE x = 1
  <2>1. k \in 1 .. n /\ k - 1 \in 0 .. n - 1
    BY <1>4
  <2>2. Run(h, k, n) # <<>> /\ Tail(Run(h, k, n)) = Run(g, k - 1, n)
    BY <1>4, <2>1, RunTail
  <2>3. (g + (k - 1)) % n = (h + k) % n /\ g \in 0 .. n - 1
    <3>1. 1 \in 0 .. n /\ k - 1 \in 0 .. n /\ 1 + (k - 1) <= n /\ 1 + (k - 1) = k
      BY <2>1
    <3>2. g = (h + 1) % n
      BY <1>4
    <3>3. (g + (k - 1)) % n = (h + (1 + (k - 1))) % n
      <4>1. PICK j \in 0 .. n : j = k - 1 /\ 1 + j <= n
        BY <3>1
      <4>2. 1 \in 0 .. n
        OBVIOUS
      <4>3. (((h + 1) % n) + j) % n = (h + (1 + j)) % n
        BY <4>1, <4>2, NamesAdd
      <4> QED
        BY <3>2, <4>1, <4>3, Zenon
    <3>4. g \in 0 .. n - 1
      BY <3>1, <3>2, NameWraps
    <3> QED
      BY <3>1, <3>3, <3>4, Zenon
  <2>4. CASE d = 0
    <3>1. k + d - x = k - 1
      BY <1>4, <2>4
    <3> QED
      BY <2>2, <2>3, <3>1, Zenon DEF Server!Moves
  <2>5. CASE d = 1
    <3>1. k + d - x = k
      BY <1>4, <2>5
    <3>2. Run(g, (k - 1) + 1, n) = Append(Run(g, k - 1, n), (g + (k - 1)) % n)
      BY <2>1, <2>3, RunAppend
    <3>3. (k - 1) + 1 = k
      OBVIOUS
    <3>4. (g + k) % n = (((g + (k - 1)) % n) + 1) % n
      <4>1. k - 1 \in 0 .. n /\ 1 \in 0 .. n /\ (k - 1) + 1 <= n
        BY <2>1
      <4>2. (g + ((k - 1) + 1)) % n = (((g + (k - 1)) % n) + 1) % n
        BY <2>3, <4>1, NamesAdd
      <4> QED
        BY <3>3, <4>2, Zenon
    <3> QED
      BY <2>2, <2>3, <3>1, <3>2, <3>3, <3>4, Zenon DEF Server!Moves
  <2> QED
    BY <2>4, <2>5
<1> QED
  BY <1>2, <1>3, <1>4

\* What a requester has open is a run of names from that of the head on, and the next
\* name follows it.
LEMMA InsideIsRun ==
  ASSUME IInv, NEW r \in Requester
  PROVE  /\ inside(r) = Run(retire_head_seq[r], open(r), SEQ(r))
         /\ (seq[r] + Len(ingress[r].a)) % SEQ(r) = (retire_head_seq[r] + open(r)) % SEQ(r)
         /\ open(r) \in 0 .. SEQ(r) - 1
<1>1. /\ ingress[r].a \in Seq(Cluster) /\ rob[r] \in Seq(Seq(Nat))
      /\ seq[r] \in Name(r) /\ retire_head_seq[r] \in Name(r)
      /\ Numbered(r)
  BY DEF IInv, TypeOK, RequesterTyped
<1>2. PICK k \in Nat : k = Len(rob[r])
  BY <1>1, LenProperties
<1>3. PICK l \in Nat : l = Len(ingress[r].a)
  BY <1>1, LenProperties
<1>4. open(r) = k + l
  BY <1>2, <1>3, Zenon DEF open
<1>5. PICK N \in Nat \ {0} : SEQ(r) = N /\ Open[r] = N - 1 /\ Name(r) = 0 .. N - 1
  BY Sizes DEF Name
<1>6. PICK h \in 0 .. N - 1, s \in 0 .. N - 1 : h = retire_head_seq[r] /\ s = seq[r]
  BY <1>1, <1>5
<1>7. k + l <= N - 1
  BY <1>1, <1>4, <1>5, Zenon DEF Numbered
<1>8. s = (h + k) % N
  BY <1>1, <1>2, <1>5, <1>6, Zenon DEF Numbered
<1>9. (s + l) % N = (h + (k + l)) % N
  <2>1. k \in 0 .. N /\ l \in 0 .. N /\ k + l <= N
    BY <1>7
  <2> QED
    BY <1>8, <2>1, NamesAdd
<1>10. ASSUME NEW i \in 1 .. k
       PROVE  (IF rob[r][i] # <<>> THEN rob[r][i][1] ELSE (h + i - 1) % N) = (h + i - 1) % N
  <2>1. rob[r][i] # <<>> => rob[r][i] = <<(h + i - 1) % N>>
    BY <1>1, <1>2, <1>5, <1>6, Zenon DEF Numbered
  <2>2. PICK y \in Nat : y = (h + i - 1) % N
    OBVIOUS
  <2> QED
    BY <2>1, <2>2
<1>11. inside(r) = Run(h, k, N) \o [i \in 1 .. l |-> (s + i - 1) % N]
  <2>1. [i \in 1 .. k |-> IF rob[r][i] # <<>> THEN rob[r][i][1] ELSE (h + i - 1) % N]
          = Run(h, k, N)
    BY <1>10, Zenon DEF Run
  <2>2. inside(r) = [i \in 1 .. k |-> IF rob[r][i] # <<>> THEN rob[r][i][1] ELSE (h + i - 1) % N]
                      \o [i \in 1 .. l |-> (s + i - 1) % N]
    BY <1>2, <1>3, <1>5, <1>6, Zenon DEF inside
  <2> QED
    BY <2>1, <2>2
<1>12. Run(h, k, N) \in Seq(Nat) /\ Len(Run(h, k, N)) = k
  <2>1. ASSUME NEW i \in 1 .. k PROVE (h + i - 1) % N \in Nat
    OBVIOUS
  <2>2. Run(h, k, N) \in [1 .. k -> Nat]
    BY <2>1 DEF Run
  <2> QED
    BY <2>2
<1>13. PICK t \in Seq(Nat) : t = [i \in 1 .. l |-> (s + i - 1) % N] /\ Len(t) = l /\ DOMAIN t = 1 .. l
  <2>1. ASSUME NEW i \in 1 .. l PROVE (s + i - 1) % N \in Nat
    OBVIOUS
  <2>4. [i \in 1 .. l |-> (s + i - 1) % N] \in [1 .. l -> Nat]
    BY <2>1
  <2>2. PICK t \in [1 .. l -> Nat] : t = [i \in 1 .. l |-> (s + i - 1) % N]
    BY <2>4, Zenon
  <2>3. t \in Seq(Nat) /\ Len(t) = l /\ DOMAIN t = 1 .. l
    BY <2>2
  <2> QED
    BY <2>2, <2>3, Zenon
<1>14. PICK m \in Nat : m = k + l
  OBVIOUS
<1>15. Run(h, m, N) \in Seq(Nat) /\ Len(Run(h, m, N)) = m
  <2>1. ASSUME NEW i \in 1 .. m PROVE (h + i - 1) % N \in Nat
    OBVIOUS
  <2>2. Run(h, m, N) \in [1 .. m -> Nat]
    BY <2>1 DEF Run
  <2> QED
    BY <2>2
<1>16. Run(h, k, N) \o t \in Seq(Nat) /\ Len(Run(h, k, N) \o t) = m
  <2>1. Run(h, k, N) \o t \in Seq(Nat) /\ Len(Run(h, k, N) \o t) = Len(Run(h, k, N)) + Len(t)
    BY <1>12, <1>13, ConcatOfNats, Zenon
  <2> QED
    BY <1>12, <1>13, <1>14, <2>1, Zenon
<1>17. ASSUME NEW i \in 1 .. m PROVE (Run(h, k, N) \o t)[i] = Run(h, m, N)[i]
  <2>1. (Run(h, k, N) \o t)[i] = IF i <= k THEN Run(h, k, N)[i] ELSE t[i - k]
    <3>1. PICK u \in Seq(Nat) : u = Run(h, k, N) /\ k = Len(u)
      BY <1>12, Zenon
    <3>4. t \in Seq(Nat) /\ l = Len(t)
      BY <1>13, Zenon
    <3>2. i \in 1 .. k + l
      BY <1>14
    <3>3. (u \o t)[i] = IF i <= k THEN u[i] ELSE t[i - k]
      <4>1. k = Len(u)
        BY <3>1
      <4> QED
        BY <3>2, <3>4, <4>1, ConcatAt
    <3> QED
      BY <3>1, <3>3, Zenon
  <2>2. Run(h, m, N)[i] = (h + i - 1) % N
    BY Zenon DEF Run
  <2>3. CASE i <= k
    <3>1. i \in 1 .. k
      BY <2>3
    <3>2. Run(h, k, N)[i] = (h + i - 1) % N
      BY <3>1, Zenon DEF Run
    <3> QED
      BY <2>1, <2>2, <2>3, <3>2, Zenon
  <2>4. CASE ~(i <= k)
    <3>1. i - k \in 1 .. l /\ s + (i - k) - 1 = s + (i - k - 1) /\ h + (k + (i - k - 1)) = h + i - 1
      BY <1>14, <2>4
    <3>2. t[i - k] = (s + (i - k) - 1) % N
      BY <1>13, <3>1, Zenon
    <3>3. k \in 0 .. N /\ i - k - 1 \in 0 .. N /\ k + (i - k - 1) <= N
      BY <1>7, <1>14, <2>4
    <3>4. (s + (i - k - 1)) % N = (h + (k + (i - k - 1))) % N
      BY <1>8, <3>3, NamesAdd
    <3> QED
      BY <2>1, <2>2, <2>4, <3>1, <3>2, <3>4, Zenon
  <2> QED
    BY <2>3, <2>4
<1>18. Run(h, k, N) \o t = Run(h, m, N)
  BY <1>15, <1>16, <1>17, SeqEqual
<1>19. m \in 0 .. N - 1
  BY <1>7, <1>14
<1> QED
  BY <1>3, <1>4, <1>5, <1>6, <1>9, <1>11, <1>13, <1>14, <1>18, <1>19, Zenon

\* An edge is a step of the server.
LEMMA EdgeServes ==
  ASSUME IInv, Next
  PROVE  Server!Next
<1>1. IInv' /\ \A r \in Requester : \E d \in {0, 1}, x \in {0, 1} : Passed(r, d, x)
  BY EdgeIInv
<1>2. ASSUME NEW r \in Requester
      PROVE  <<inside(r)', ((seq[r] + Len(ingress[r].a)) % SEQ(r))'>>
               \in Server!Moves(inside(r), (seq[r] + Len(ingress[r].a)) % SEQ(r), SEQ(r))
  <2>1. PICK d \in {0, 1}, x \in {0, 1} : Passed(r, d, x)
    BY <1>1
  <2>2. PICK N \in Nat \ {0} : SEQ(r) = N /\ Name(r) = 0 .. N - 1
    BY Sizes DEF Name
  <2>3. PICK h \in 0 .. N - 1 : h = retire_head_seq[r]
    BY <2>2 DEF IInv, TypeOK, RequesterTyped
  <2>4. PICK k \in 0 .. N - 1 : k = open(r)
    BY <2>2, InsideIsRun
  <2>5. PICK g, o : g = retire_head_seq'[r] /\ o = open(r)'
    OBVIOUS
  <2>6. o = k + d - x /\ x <= k /\ g = IF x = 1 THEN (h + 1) % N ELSE h
    BY <2>1, <2>2, <2>3, <2>4, <2>5, Zenon DEF Passed
  <2>7. /\ inside(r) = Run(h, k, N) /\ (seq[r] + Len(ingress[r].a)) % SEQ(r) = (h + k) % N
    BY <2>2, <2>3, <2>4, InsideIsRun, Zenon
  <2>8. /\ inside(r)' = Run(g, o, N) /\ ((seq[r] + Len(ingress[r].a)) % SEQ(r))' = (g + o) % N
        /\ o \in 0 .. N - 1
    <3>1. (IInv => /\ inside(r) = Run(retire_head_seq[r], open(r), SEQ(r))
                   /\ (seq[r] + Len(ingress[r].a)) % SEQ(r) = (retire_head_seq[r] + open(r)) % SEQ(r)
                   /\ open(r) \in 0 .. SEQ(r) - 1)'
      BY InsideIsRun, PTL
    <3> QED
      BY <1>1, <2>2, <2>5, <3>1
  <2>9. <<Run(g, o, N), (g + o) % N>> \in Server!Moves(Run(h, k, N), (h + k) % N, N)
    <3>1. k + d - x <= N - 1
      BY <2>6, <2>8
    <3> QED
      BY <2>6, <3>1, RunMoves
  <2> QED
    BY <2>2, <2>7, <2>8, <2>9, Zenon
<1> QED
  BY <1>2 DEF Server!Next

\* Each requester gets the answers to its accesses in their order, each once and each
\* with its own data: every run of the fabric is a run of a memory server.
THEOREM Serving == Spec => ImplementsServer
<1>1. Init => Server!Init
  <2> SUFFICES ASSUME Init PROVE Server!Init
    OBVIOUS
  <2>1. ASSUME NEW r \in Requester
        PROVE  inside(r) = <<>> /\ (seq[r] + Len(ingress[r].a)) % SEQ(r) = 0
    <3>1. rob[r] = <<>> /\ ingress[r].a = <<>> /\ seq[r] = 0
      BY DEF Init
    <3>2. SEQ(r) \in Nat \ {0}
      BY Sizes
    <3> QED
      BY <3>1, <3>2 DEF inside
  <2> QED
    BY <2>1 DEF Server!Init
<1>2. IInv /\ [Next]_vars => [Server!Next]_<<[r \in Requester |-> inside(r)],
        [r \in Requester |-> (seq[r] + Len(ingress[r].a)) % SEQ(r)]>>
  <2>1. UNCHANGED vars => UNCHANGED <<[r \in Requester |-> inside(r)],
          [r \in Requester |-> (seq[r] + Len(ingress[r].a)) % SEQ(r)]>>
    BY DEF vars, inside
  <2> QED
    BY <2>1, EdgeServes
<1> QED
  BY <1>1, <1>2, Invariance, PTL DEF Spec, ImplementsServer, Server!Spec
=============================================================================
