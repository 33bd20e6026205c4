--------------------------------- MODULE Spm ---------------------------------
(***************************************************************************)
(* Cluster/ScratchpadMemory.hpp with its SRAM banks (Utils/SRAM.hpp).      *)
(* Ports of the delivery unit and the DMA's AXI port share groups of       *)
(* banks: a request of a port takes one bank of the port's group (linear)  *)
(* or all of them (parallel).  A group hands its answers out in the order  *)
(* of its metadata FIFO, when the banks the oldest entry needs have them.  *)
(*                                                                         *)
(* A step is a rising clock edge; every comb_* process is a definition     *)
(* over the state and the inputs of the edge.  Requesters are numbered in  *)
(* the order of the arbiter: the ports, the DMA's writes, its reads.       *)
(*                                                                         *)
(* Data are the names of the requests they answer: a bank that reads for   *)
(* request <<c, i>> has <<c, i>> on its output.  The id in a metadata      *)
(* entry is a name too, for the reader only: the code pairs entry and data *)
(* by position, and so does the model.                                     *)
(*                                                                         *)
(* Environment.  A port only reads or only writes, as the planes of the    *)
(* delivery unit do.  Its writing port and the data fabric take a write's  *)
(* answer at once, and the fabric drives a write's address and data in the *)
(* same cycle.  The memory itself lets its map be changed and itself be    *)
(* reset at any edge.  Its users do the one while no port has a request    *)
(* inside (between two waves), and the other while nothing at all is, and  *)
(* bring nothing until the queues are cleared, an edge after the reset.    *)
(* The DMA reads one group at a time.                                      *)
(* drop_noc_resp_i is never set by ComputeCluster.                         *)
(***************************************************************************)
EXTENDS QueueOps, FiniteSets, SequencesExt

CONSTANTS
  NUM_NOC_PORTS, BANKS_PER_GROUP, MAX_OUTSTANDING, DMA_MAX_OUTSTANDING,
  Writers,     \* the ports that write
  Shapes,      \* the sets of banks a port asks for
  DmaWrites,   \* the banks the DMA writes
  DmaReads,    \* the banks it reads
  Names        \* bound: how many names the requests of a requester have

Port == 0 .. NUM_NOC_PORTS - 1
Group == Port
Bank == Group \X (0 .. BANKS_PER_GROUP - 1)
DMA_WRITE == NUM_NOC_PORTS
DMA_READ == NUM_NOC_PORTS + 1
Requester == 0 .. DMA_READ
Readers == (Port \ Writers) \cup {DMA_READ}

ASSUME SizeAssumption ==
  /\ {NUM_NOC_PORTS, BANKS_PER_GROUP, MAX_OUTSTANDING, DMA_MAX_OUTSTANDING} \subseteq Nat \ {0}
  /\ Writers \subseteq Port
  /\ Shapes \in [Port -> SUBSET SUBSET (0 .. BANKS_PER_GROUP - 1)]
  /\ DmaWrites \subseteq Bank /\ DmaReads \subseteq Bank
  /\ Names \in [Requester -> Nat \ {0}]

VARIABLES
  skid,          \* skid_valid_reg and skid_data_reg
  credit_cnt, active_map,
  bank,          \* every SRAM: the request in its pipeline, and its output register
  group_meta, port_resp,
  dma_aw, dma_w, dma_write_req, dma_read_req, dma_read_resp,
  dma_b_pending, dma_rd_inflight,
  fifo_clear,    \* the clear wires of all FIFOs
  next_id        \* the name of a requester's next request

ports == <<skid, credit_cnt, active_map, port_resp>>
dma == <<dma_aw, dma_w, dma_write_req, dma_read_req, dma_read_resp,
         dma_b_pending, dma_rd_inflight>>
vars == <<ports, bank, group_meta, dma, fifo_clear, next_id>>

META_DEPTH == MAX_OUTSTANDING
PORT_RESP_DEPTH == MAX_OUTSTANDING + 2

Ids == 0 .. Max({Names[c] : c \in Requester}) - 1

Init ==
  /\ skid = [p \in Port |-> {}]
  /\ credit_cnt = [p \in Port |-> MAX_OUTSTANDING]
  /\ active_map = [p \in Port |-> p]
  /\ bank = [b \in Bank |-> [pipe |-> {}, out |-> {}]]
  /\ group_meta = [g \in Group |-> <<>>]
  /\ port_resp = [p \in Port |-> <<>>]
  /\ dma_aw = <<>> /\ dma_w = 0 /\ dma_write_req = <<>>
  /\ dma_read_req = <<>> /\ dma_read_resp = <<>>
  /\ dma_b_pending = 0 /\ dma_rd_inflight = 0 /\ fifo_clear = FALSE
  /\ next_id = [c \in Requester |-> 0]

-----------------------------------------------------------------------------
(* The arbiter (comb_bank_req_arb).                                        *)

req_ready(b) == bank[b].pipe = {}

\* The request that a requester puts to the arbiter, if any.
wants(c, incoming) ==
  CASE c \in Port ->
         {[who |-> c, group |-> active_map[c], banks |-> r.banks, id |-> r.id] :
            r \in IF skid[c] # {} THEN skid[c] ELSE incoming[c]}
    [] c = DMA_WRITE ->
         {[who |-> c, group |-> b[1], banks |-> {b[2]}, id |-> 0] :
            b \in IF dma_write_req # <<>> /\ dma_b_pending < DMA_MAX_OUTSTANDING
                  THEN {Head(dma_write_req)} ELSE {}}
    [] c = DMA_READ ->
         {[who |-> c, group |-> q[1][1], banks |-> {q[1][2]}, id |-> q[2]] :
            q \in IF /\ dma_read_req # <<>>
                     /\ Len(dma_read_resp) < DMA_MAX_OUTSTANDING
                     /\ dma_rd_inflight < DMA_MAX_OUTSTANDING
                  THEN {Head(dma_read_req)} ELSE {}}

\* Two requests of an edge need the same bank.
collide(r, q) == r.group = q.group /\ r.banks \cap q.banks # {}

has_credit(c) == c \in Port => credit_cnt[c] > 0

\* The group has room for a read's metadata, and its banks can take it.
banks_ready(r) ==
  /\ Len(group_meta[r.group]) < META_DEPTH
  /\ \A k \in r.banks : req_ready(<<r.group, k>>)

\* The requests that fire: in the order of the requesters, each that meets no
\* earlier one.  A group takes one read in an edge.
fires(incoming) ==
  LET grant(earlier, c) ==
        earlier \cup
          {r \in wants(c, incoming) :
             /\ \A q \in earlier : ~collide(r, q)
             /\ c \in Readers =>
                  /\ has_credit(c) /\ banks_ready(r)
                  /\ \A q \in earlier : q.who \in Readers => q.group # r.group}
  IN  FoldLeft(grant, {}, [i \in 1 .. DMA_READ + 1 |-> i - 1])

\* Those of one requester, and the reads among all.
of(c, fire) == {r \in fire : r.who = c}
reads(fire) == {r \in fire : r.who \in Readers}

-----------------------------------------------------------------------------
(* Answers (comb_resp_merge, comb_bank_resp_ready).                        *)

room(c) ==
  IF c = DMA_READ THEN Len(dma_read_resp) < DMA_MAX_OUTSTANDING
  ELSE Len(port_resp[c]) < PORT_RESP_DEPTH

available(g, m) == \A k \in m.banks : bank[<<g, k>>].out # {}

\* The groups whose oldest read is answered at this edge.
merges ==
  {g \in Group : /\ group_meta[g] # <<>>
                 /\ LET m == Head(group_meta[g]) IN available(g, m) /\ room(m.who)}

\* The answer pushed for a requester: of several groups, the last one's.
rd_resp(c, merged) ==
  LET gs == {g \in merged : Head(group_meta[g]).who = c}
  IN  IF gs = {} THEN {}
      ELSE {UNION {bank[<<Max(gs), k>>].out : k \in Head(group_meta[Max(gs)]).banks}}

resp_ready(b, merged) == b[1] \in merged /\ b[2] \in Head(group_meta[b[1]]).banks

-----------------------------------------------------------------------------
(* One edge.                                                               *)

Push(s, depth, xs, pop) ==
  AfterEdge(s, depth, fifo_clear, xs # {}, pop, CHOOSE x \in xs : TRUE)

\* A bank: its request moves to the output register when that is free.
Banks(fire, merged) ==
  bank' = [b \in Bank |->
    LET reading == {<<r.who, r.id>> : r \in {q \in reads(fire) : q.group = b[1] /\ b[2] \in q.banks}}
        do_pop == bank[b].pipe # {} /\ (bank[b].out = {} \/ resp_ready(b, merged))
        do_push == reading # {} /\ (bank[b].pipe = {} \/ do_pop)
    IN  [pipe |-> IF do_push THEN reading ELSE IF do_pop THEN {} ELSE bank[b].pipe,
         out |-> IF do_pop THEN bank[b].pipe
                 ELSE IF resp_ready(b, merged) THEN {} ELSE bank[b].out]]

\* The metadata of the read that fires in a group.
GroupMeta(fire, merged) ==
  group_meta' = [g \in Group |->
    Push(group_meta[g], META_DEPTH,
         {[who |-> r.who, banks |-> r.banks, id |-> r.id] : r \in {q \in reads(fire) : q.group = g}},
         g \in merged)]

\* Defect: a request that stalls is not kept.
skid_next_drops(p, incoming, fire) == IF of(p, fire) # {} THEN {} ELSE skid[p]

\* A request that came and did not fire is kept until it does.
skid_next(p, incoming, fire) ==
  IF of(p, fire) # {} THEN {} ELSE IF skid[p] # {} THEN skid[p] ELSE incoming[p]

\* Defect: a credit does not come back.
credit_next_kept(p, fire, merged) == credit_cnt[p] - Cardinality(of(p, reads(fire)))

\* A read takes a credit until its answer is in the port's FIFO.
credit_next(p, fire, merged) ==
  credit_cnt[p] - Cardinality(of(p, reads(fire))) + Cardinality(rd_resp(p, merged))

\* A port: a write is answered at once, a read when its group merges it.
Ports(incoming, fire, merged, taken, resets) ==
  /\ skid' = [p \in Port |-> IF resets THEN {} ELSE skid_next(p, incoming, fire)]
  /\ credit_cnt' = [p \in Port |->
       IF resets THEN MAX_OUTSTANDING ELSE credit_next(p, fire, merged)]
  /\ port_resp' = [p \in Port |->
       LET wr_resp == IF p \in Writers THEN {{<<p, r.id>>} : r \in of(p, fire)} ELSE {}
       IN  Push(port_resp[p], PORT_RESP_DEPTH,
                IF wr_resp # {} THEN wr_resp ELSE rd_resp(p, merged), p \in taken)]

ar_ready ==
  /\ Len(dma_read_req) < DMA_MAX_OUTSTANDING
  /\ Len(dma_read_resp) < DMA_MAX_OUTSTANDING
  /\ dma_rd_inflight < DMA_MAX_OUTSTANDING

\* The AXI port: address and data of a write are paired, then it waits for its
\* bank, then for its answer to be taken.  aw and ar are addresses.
DmaChannels(aw, ar, fire, merged, taken, resets) ==
  LET merge == dma_aw # <<>> /\ dma_w > 0 /\ Len(dma_write_req) < DMA_MAX_OUTSTANDING
      wr_fire == Cardinality(of(DMA_WRITE, fire))
      b_fire == IF DMA_WRITE \in taken THEN 1 ELSE 0
  IN  /\ dma_aw' = Push(dma_aw, DMA_MAX_OUTSTANDING, aw, merge)
      /\ dma_w' = IF fifo_clear THEN 0
                  ELSE dma_w + Cardinality(aw) - (IF merge THEN 1 ELSE 0)
      /\ dma_write_req' = Push(dma_write_req, DMA_MAX_OUTSTANDING,
                               IF merge THEN {Head(dma_aw)} ELSE {}, wr_fire = 1)
      /\ dma_b_pending' = IF resets THEN 0 ELSE dma_b_pending + wr_fire - b_fire
      /\ dma_read_req' = Push(dma_read_req, DMA_MAX_OUTSTANDING,
                              {<<b, next_id[DMA_READ]>> : b \in ar}, of(DMA_READ, fire) # {})
      /\ dma_read_resp' = Push(dma_read_resp, DMA_MAX_OUTSTANDING, rd_resp(DMA_READ, merged),
                               DMA_READ \in taken)
      /\ dma_rd_inflight' =
           IF resets THEN 0
           ELSE dma_rd_inflight + Cardinality(of(DMA_READ, fire))
                                - Cardinality(rd_resp(DMA_READ, merged))

NextIds(incoming, ar) ==
  next_id' = [c \in Requester |->
    IF (c \in Port /\ incoming[c] # {}) \/ (c = DMA_READ /\ ar # {})
    THEN (next_id[c] + 1) % Names[c] ELSE next_id[c]]

\* A reset takes the skid buffers and the counters now and the FIFOs at the next
\* edge; the banks are not reset.
Edge(incoming, aw, ar, taken, resets) ==
  LET fire == fires(incoming)
      merged == merges
  IN  /\ Banks(fire, merged) /\ GroupMeta(fire, merged)
      /\ Ports(incoming, fire, merged, taken, resets)
      /\ DmaChannels(aw, ar, fire, merged, taken, resets)
      /\ fifo_clear' = resets
      /\ NextIds(incoming, ar)

Clock(incoming, aw, ar, taken) ==
  Edge(incoming, aw, ar, taken, FALSE) /\ UNCHANGED active_map

\* A map that gives two ports one group is not taken.
Remap(incoming, aw, ar, taken) ==
  /\ Edge(incoming, aw, ar, taken, FALSE)
  /\ active_map' \in {f \in [Port -> Group] : \A p, q \in Port : f[p] = f[q] => p = q}

\* The map is kept.
SoftReset(incoming, aw, ar, taken) ==
  Edge(incoming, aw, ar, taken, TRUE) /\ UNCHANGED active_map

-----------------------------------------------------------------------------
(* The environment.                                                        *)

\* The requests a port may bring; its valid is not looked at while it has one here.
Incoming ==
  LET brings(p) == {{}} \cup {{[banks |-> s, id |-> next_id[p]]} :
                                 s \in {t \in Shapes[p] : skid[p] = {} /\ ~fifo_clear}}
  IN  {f \in [Port -> UNION {brings(p) : p \in Port}] : \A p \in Port : f[p] \in brings(p)}

None == [p \in Port |-> {}]

\* The groups in which the DMA has reads.
dma_groups ==
  {q[1][1] : q \in {dma_read_req[i] : i \in DOMAIN dma_read_req}}
  \cup {g \in Group : \E i \in DOMAIN group_meta[g] : group_meta[g][i].who = DMA_READ}

WriteAddresses ==
  {{}} \cup {{b} : b \in {a \in DmaWrites : ~fifo_clear /\ Len(dma_aw) < DMA_MAX_OUTSTANDING
                                         /\ dma_w < DMA_MAX_OUTSTANDING}}
ReadAddresses ==
  {{}} \cup {{b} : b \in {a \in DmaReads : ~fifo_clear /\ ar_ready /\ dma_groups \subseteq {a[1]}}}

\* The answers that wait at a requester's side of the memory.
answered ==
  {p \in Port : port_resp[p] # <<>>}
  \cup (IF dma_b_pending > 0 THEN {DMA_WRITE} ELSE {})
  \cup (IF dma_read_resp # <<>> THEN {DMA_READ} ELSE {})

\* The answers that an edge may take from the memory.
Takings == {t \in SUBSET answered : (Writers \cup {DMA_WRITE}) \cap answered \subseteq t}

\* No port has a request inside; nobody has.
noc_side_quiesced ==
  /\ \A p \in Port : skid[p] = {} /\ port_resp[p] = <<>>
  /\ \A g \in Group : \A i \in DOMAIN group_meta[g] : group_meta[g][i].who = DMA_READ

quiesced ==
  /\ noc_side_quiesced /\ \A g \in Group : group_meta[g] = <<>>
  /\ dma_aw = <<>> /\ dma_w = 0 /\ dma_write_req = <<>> /\ dma_read_req = <<>>
  /\ dma_read_resp = <<>> /\ dma_b_pending = 0 /\ dma_rd_inflight = 0

Next ==
  \/ \E taken \in Takings, incoming \in Incoming, aw \in WriteAddresses, ar \in ReadAddresses :
       Clock(incoming, aw, ar, taken)
  \/ noc_side_quiesced /\ \E taken \in Takings : Remap(None, {}, {}, taken)
  \/ quiesced /\ SoftReset(None, {}, {}, {})

Spec == Init /\ [][Next]_vars

\* A reader takes the oldest answer that waits for it: names tell it from the next.
answers(c) == IF c = DMA_READ THEN dma_read_resp ELSE port_resp[c]
Takes(c) == answers(c) # <<>> /\ ~IsPrefix(answers(c), answers(c)')

\* The clock runs (there is always an edge that changes something: the writing
\* port may write), and a reader does not leave its answers for ever.
FairSpec ==
  /\ Spec /\ []<><<TRUE>>_vars
  /\ \A c \in Readers : []<>(answers(c) = <<>>) \/ []<><<Takes(c)>>_vars

-----------------------------------------------------------------------------
(* Properties.                                                             *)

\* The name of the access that an answer answers, if it is one and c's own.
Named(c, answer) ==
  IF \E i \in Ids : answer = {<<c, i>>} THEN CHOOSE i \in Ids : answer = {<<c, i>>} ELSE Names[c]

\* c's reads in the banks, oldest first.
in_banks(c) ==
  LET mine(g) == SelectSeq(group_meta[g], LAMBDA m : m.who = c)
      part[g \in Group] ==
        [i \in 1 .. Len(mine(g)) |-> mine(g)[i].id] \o (IF g = 0 THEN <<>> ELSE part[g - 1])
  IN  part[NUM_NOC_PORTS - 1]

\* What the memory has taken from c and not answered.
inside(c) ==
  CASE c \in Port ->
         [i \in 1 .. Len(port_resp[c]) |-> Named(c, port_resp[c][i])]
           \o in_banks(c) \o (IF skid[c] = {} THEN <<>> ELSE <<(CHOOSE r \in skid[c] : TRUE).id>>)
    [] c = DMA_READ ->
         [i \in 1 .. Len(dma_read_resp) |-> Named(c, dma_read_resp[i])]
           \o in_banks(c) \o [i \in 1 .. Len(dma_read_req) |-> dma_read_req[i][2]]
    [] c = DMA_WRITE ->
         LET n == Len(dma_aw) + Len(dma_write_req) + dma_b_pending
         IN  [i \in 1 .. n |-> 0]

Server == INSTANCE MemoryServer WITH
            Client <- Requester,
            outstanding <- [c \in Requester |-> inside(c)]

\* Every port and the DMA get the answers to their accesses in the order of the
\* accesses, each once and each with the data of the banks it asked for,
\* whatever the banks, the other requesters and the takers of answers do
\* (comb_bank_req_arb, comb_resp_merge, SRAM::seq_process).
ImplementsServer == Server!Spec

\* A port's read is answered: a permutation of groups to ports keeps other
\* ports out of its way, and the DMA's reads in its group do not block it for
\* ever (comb_bank_req_arb, comb_resp_merge).
EveryReadAnswered ==
  \A p \in Port \ Writers : \A i \in Ids :
    (inside(p) # <<>> /\ Head(inside(p)) = i)
      ~> (inside(p) = <<>> \/ Head(inside(p)) # i)
=============================================================================
