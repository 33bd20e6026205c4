------------------------------- MODULE NocData -------------------------------
(***************************************************************************)
(* The data path of the network on chip: NoC/NoCRouter.hpp with one FIFO   *)
(* per channel, an NoC/MBUS.hpp per port that finds a request's rows by    *)
(* its tag, the queues of every PE's router (PE/PErouter.hpp), the local   *)
(* links (LN) that carry partial sums from port to port, and the scan      *)
(* chain that gives every PE its tags and its route.                       *)
(*                                                                         *)
(* Channels: ps, pd and pli send words to the PEs, plo reads partial sums  *)
(* back.  A request goes to all ports at once: its one word (broadcast) or *)
(* a word for each port (ultra).  A word is named by its request's number  *)
(* and its lane.                                                           *)
(*                                                                         *)
(* A step is a rising clock edge of the network, or a move of its users    *)
(* between two edges: the delivery unit offers a request or takes an       *)
(* answer, a PE's core takes a word.  A move at an edge is the same move   *)
(* just before it or just after it.                                        *)
(*                                                                         *)
(* Environment.  The PEs run: the commands that start and stop them are in *)
(* ClusterControl.  A core turns each partial sum it takes into one it     *)
(* gives, by the same name.  The delivery unit keeps at most Window reads  *)
(* open.  Rows from active_pe_count on shadow row 0 (a tail wave).         *)
(***************************************************************************)
EXTENDS QueueOps, FiniteSets, SequencesExt

CONSTANTS
  NUM_PORTS, NUM_PES,   \* ports, and rows of PEs on a port
  Depth,                \* noc_fifo_depth
  PeDepth,              \* the depth of a PE router's queues
  Chunks,               \* the PD chunks in a word
  Window,               \* reads the delivery unit keeps open
  Workloads             \* what is run: [topology, active, script]

Port == 0 .. NUM_PORTS - 1
Row == 0 .. NUM_PES - 1
PE == Port \X Row
Send == {"ps", "pd", "pli"}
Channel == Send \cup {"plo"}

Config == [enable : BOOLEAN, id : [Channel -> Nat], from_bus : BOOLEAN, to_bus : BOOLEAN]
NoConfig == [enable |-> FALSE, id |-> [c \in Channel |-> 0],
             from_bus |-> FALSE, to_bus |-> FALSE]
Request == [tag : Nat, ultra : BOOLEAN, mask : SUBSET (1 .. Chunks)]

\* Every chain of local links has its two ends: a PE that takes its sums from
\* the link has a PE below that gives them to it, and the other way round
\* (build_gemm_tail_scan_chain, detect_chained_conv_topology).
Chained(topology) ==
  \A q \in PE : topology[q].enable =>
    /\ ~topology[q].to_bus => /\ q[1] + 1 \in Port
                              /\ topology[<<q[1] + 1, q[2]>>].enable
                              /\ ~topology[<<q[1] + 1, q[2]>>].from_bus
    /\ ~topology[q].from_bus => /\ q[1] > 0
                                /\ topology[<<q[1] - 1, q[2]>>].enable
                                /\ ~topology[<<q[1] - 1, q[2]>>].to_bus

ASSUME NocAssumption ==
  /\ {NUM_PORTS, NUM_PES, Depth, PeDepth, Chunks, Window} \subseteq Nat \ {0}
  /\ \A w \in Workloads :
       /\ w.topology \in [PE -> Config] /\ Chained(w.topology)
       /\ w.active \in 1 .. NUM_PES
       /\ \A c \in Channel : w.script[c] \in Seq(Request)

VARIABLES
  workload,
  commands,          \* scan words still to be sent
  scan,              \* scan_chain_enable_reg and scan_chain_data_reg
  chain,             \* the pe_scan_chain_signals_reg of all MBUSes, port 0's first
  fifo, resp_fifo,   \* the router's queues
  pending,           \* pending_read_reg and pending_read_ultra_reg
  rx_mask,           \* per MBUS: the rows whose answer may pass
  pe,                \* the queues of the PE routers, and their answer register
  offered, answers,  \* requests made so far, answers taken
  taken              \* history: what each core has taken

configuration == <<workload, commands, scan, chain>>
router == <<fifo, resp_fifo, pending, rx_mask>>
vars == <<configuration, router, pe, offered, answers, taken>>

active == workload.active
script == workload.script
Lane == Port
Word == Nat \X Lane
NumPes == NUM_PORTS * NUM_PES
Index(q) == q[1] * NUM_PES + q[2] + 1
PeAt(i) == <<(i - 1) \div NUM_PES, (i - 1) % NUM_PES>>

\* The firmware sends the last PE's word first (pe_payload.py).
ScanWords(topology) ==
  [i \in 1 .. NumPes |-> topology[PeAt(NumPes + 1 - i)]]

Init ==
  /\ workload \in Workloads
  /\ commands = ScanWords(workload.topology)
  /\ scan = [enable |-> FALSE, data |-> NoConfig]
  /\ chain = [i \in 1 .. NumPes |-> NoConfig]
  /\ fifo = [c \in Channel |-> <<>>] /\ resp_fifo = <<>>
  /\ pending = [read |-> FALSE, ultra |-> FALSE]
  /\ rx_mask = [p \in Port |-> {}]
  /\ pe = [q \in PE |-> [ps |-> <<>>, pd |-> <<>>, pli |-> <<>>, plo |-> <<>>,
                         resp |-> <<>>, waits |-> FALSE]]
  /\ offered = [c \in Channel |-> 0] /\ answers = <<>>
  /\ taken = [q \in PE |-> [ps |-> <<>>, pd |-> <<>>, pli |-> <<>>]]

-----------------------------------------------------------------------------
(* MBUS: the rows of a request.                                            *)

config(q) == chain[Index(q)]

\* calculate_target_pe_mask of a request that is not a command.
Targets(c, tag, p) ==
  {r \in Row : /\ config(<<p, r>>).enable
               /\ r < active
               /\ config(<<p, r>>).id[c] = tag}

\* What row 0 is sent, the rows of the tail are sent too.
expand_shadow_row_mask(rows, p) ==
  IF active >= NUM_PES \/ 0 \notin rows THEN rows
  ELSE rows \cup {r \in active .. NUM_PES - 1 : config(<<p, r>>).enable}

Receivers(c, p) == expand_shadow_row_mask(Targets(c, Head(fifo[c]).tag, p), p)

-----------------------------------------------------------------------------
(* PE router: what it can take at an edge, in a PE that is enabled.        *)

has_room(q, c) ==
  IF c = "pd" THEN Len(pe[q].pd) <= PeDepth * Chunks - Chunks
  ELSE Len(pe[q][c]) < PeDepth

accepts_from_bus(q, c) ==
  /\ config(q).enable
  /\ CASE c = "plo" -> config(q).to_bus /\ ~pe[q].waits /\ pe[q].plo # <<>>
       [] c = "pli" -> config(q).from_bus /\ has_room(q, c)
       [] OTHER -> has_room(q, c)

\* The local link: port p - 1's sums go to port p of the same row.
LinkValid(q) ==
  config(q).enable /\ ~config(q).to_bus /\ ~pe[q].waits /\ pe[q].plo # <<>>

LinkReady(q) == config(q).enable /\ ~config(q).from_bus /\ has_room(q, "pli")

\* Defect: a sum leaves its queue whether the next PE takes it or not.
LinkPops_unready(q) == LinkValid(q)

LinkPops(q) ==
  /\ LinkValid(q)
  /\ q[1] + 1 \in Port /\ LinkReady(<<q[1] + 1, q[2]>>)

\* What the queue of a PE gets at this edge from its link.
FromLink(q) ==
  LET from == <<q[1] - 1, q[2]>>
  IN  IF q[1] > 0 /\ LinkValid(from) /\ LinkReady(q) THEN <<Head(pe[from].plo)>> ELSE <<>>

-----------------------------------------------------------------------------
(* Router: sending.                                                        *)

\* Defect: a row that cannot take the word is passed over.
mbus_ready_any(c, p) ==
  /\ ~scan.enable
  /\ Receivers(c, p) = {} \/ \E r \in Receivers(c, p) : accepts_from_bus(<<p, r>>, c)

mbus_ready(c, p) ==
  /\ ~scan.enable
  /\ \A r \in Receivers(c, p) : accepts_from_bus(<<p, r>>, c)

\* The head of a channel leaves when every port takes it.
Fires(c) == fifo[c] # <<>> /\ \A p \in Port : mbus_ready(c, p)

Word_of(request, p) == <<request.id, IF request.ultra THEN p ELSE 0>>

\* Whether PE q takes the head of the channel from its bus.
Delivered(q, c) ==
  Fires(c) /\ q[2] \in Receivers(c, q[1]) /\ accepts_from_bus(q, c)

\* What the queue of a PE gets at this edge from the bus.
FromBus(q, c) ==
  IF Delivered(q, c) THEN <<Word_of(Head(fifo[c]), q[1])>> ELSE <<>>

\* The chunks of a mask, in their order.
in_order(mask) ==
  CHOOSE s \in [1 .. Cardinality(mask) -> mask] :
    \A i, j \in 1 .. Cardinality(mask) : i < j => s[i] < s[j]

\* The chunks of a PD word that are stored: those of its mask.
Pieces(word, mask) == [i \in 1 .. Cardinality(mask) |-> <<word, in_order(mask)[i]>>]

PdFromBus(q) ==
  IF Delivered(q, "pd")
  THEN Pieces(Word_of(Head(fifo["pd"]), q[1]), Head(fifo["pd"]).mask) ELSE <<>>

-----------------------------------------------------------------------------
(* Router: reading.                                                        *)

Answering(p) == {r \in rx_mask[p] : pe[<<p, r>>].resp # <<>>}

\* The last row that answers, and of a broadcast the last port, is the one seen.
bus_answer(p) == Head(pe[<<p, Max(Answering(p))>>].resp)

all_valid ==
  IF pending.ultra THEN \A p \in Port : Answering(p) # {}
  ELSE \E p \in Port : Answering(p) # {}

\* Defect: an ultra read is given the word of one port.
answer_broadcast == <<bus_answer(Max({p \in Port : Answering(p) # {}}))>>

answer ==
  IF pending.ultra THEN [i \in 1 .. NUM_PORTS |-> bus_answer(i - 1)]
  ELSE <<bus_answer(Max({p \in Port : Answering(p) # {}}))>>

Collects == pending.read /\ all_valid /\ ~IsFull(resp_fifo, Depth)

rx_stall == pending.read /\ ~Collects

Reads == ~rx_stall /\ Fires("plo")

\* Defect: a row of the tail keeps its answer until it is asked for.
answer_taken_asked(q) == Collects /\ q[2] \in rx_mask[q[1]] /\ Answering(q[1]) # {}

\* comb_pe_response_ready: an answer of a row of the tail is thrown away.
answer_taken(q) ==
  \/ q[2] >= active
  \/ Collects /\ q[2] \in rx_mask[q[1]] /\ Answering(q[1]) # {}

-----------------------------------------------------------------------------
(* The edge.                                                               *)

\* One shift for each edge with the chain enabled; the tail of a bus feeds the next.
Shift == chain' = IF scan.enable THEN <<scan.data>> \o Front(chain) ELSE chain

RouterEdge ==
  /\ fifo' = [c \in Channel |->
       IF (c \in Send /\ Fires(c)) \/ (c = "plo" /\ Reads) THEN Tail(fifo[c]) ELSE fifo[c]]
  /\ resp_fifo' = IF Collects THEN Append(resp_fifo, answer) ELSE resp_fifo
  /\ pending' = IF rx_stall THEN pending
                ELSE [read |-> Reads, ultra |-> Reads /\ Head(fifo["plo"]).ultra]
  /\ rx_mask' = [p \in Port |-> IF Reads THEN Targets("plo", Head(fifo["plo"]).tag, p) ELSE {}]

\* A router answers a read with its oldest sum one edge later, and holds the
\* answer until it is taken.
PeEdge(q) ==
  LET read == Reads /\ q[2] \in Receivers("plo", q[1]) /\ accepts_from_bus(q, "plo")
      held == pe[q].resp # <<>> /\ ~answer_taken(q)
  IN  [ps |-> pe[q].ps \o FromBus(q, "ps"),
       pd |-> pe[q].pd \o PdFromBus(q),
       pli |-> pe[q].pli \o FromBus(q, "pli") \o FromLink(q),
       plo |-> IF read \/ LinkPops(q) THEN Tail(pe[q].plo) ELSE pe[q].plo,
       resp |-> IF read THEN <<Head(pe[q].plo)>>
                ELSE IF held THEN pe[q].resp ELSE <<>>,
       waits |-> held]

Datapath ==
  /\ Shift /\ RouterEdge
  /\ pe' = [q \in PE |-> PeEdge(q)]
  /\ UNCHANGED <<workload, offered, answers, taken>>

\* An edge with a CMD_NOC_SCAN_CHAIN on the command port.
ScanCommand ==
  /\ commands # <<>>
  /\ scan' = [enable |-> TRUE, data |-> Head(commands)]
  /\ commands' = Tail(commands)
  /\ Datapath

Edge ==
  /\ scan' = [scan EXCEPT !.enable = FALSE]
  /\ UNCHANGED commands
  /\ Datapath

-----------------------------------------------------------------------------
(* The users.                                                              *)

Numbered(request, n) ==
  [id |-> n, tag |-> request.tag, ultra |-> request.ultra, mask |-> request.mask]

\* The delivery unit starts after the chain is loaded.
Offer(c) ==
  /\ commands = <<>> /\ ~scan.enable
  /\ offered[c] < Len(script[c]) /\ ~IsFull(fifo[c], Depth)
  /\ c = "plo" => offered["plo"] - Len(answers) < Window
  /\ offered' = [offered EXCEPT ![c] = @ + 1]
  /\ fifo' = [fifo EXCEPT ![c] =
       Append(@, Numbered(script[c][offered[c] + 1], offered[c] + 1))]
  /\ UNCHANGED <<configuration, resp_fifo, pending, rx_mask, pe, answers, taken>>

TakeAnswer ==
  /\ resp_fifo # <<>>
  /\ answers' = Append(answers, Head(resp_fifo))
  /\ resp_fifo' = Tail(resp_fifo)
  /\ UNCHANGED <<configuration, fifo, pending, rx_mask, pe, offered, taken>>

\* The core takes n entries of a channel.
Pop(q, c, n) ==
  /\ Len(pe[q][c]) >= n
  /\ taken' = [taken EXCEPT ![q][c] = @ \o SubSeq(pe[q][c], 1, n)]
  /\ UNCHANGED <<configuration, router, offered, answers>>

TakePs(q) ==
  Pop(q, "ps", 1) /\ pe' = [pe EXCEPT ![q].ps = Tail(@)]

\* A core takes PD by the chunk or by the word.
TakePd(q, n) ==
  Pop(q, "pd", n) /\ pe' = [pe EXCEPT ![q].pd = SubSeq(@, n + 1, Len(@))]

\* A partial sum in, a partial sum out, if the router has room for it.
Sum(q) ==
  /\ Pop(q, "pli", 1)
  /\ has_room(q, "plo")
  /\ pe' = [pe EXCEPT ![q].pli = Tail(@), ![q].plo = Append(@, Head(pe[q].pli))]

Core(q) == TakePs(q) \/ TakePd(q, 1) \/ TakePd(q, Chunks) \/ Sum(q)

Next ==
  \/ ScanCommand
  \/ Edge
  \/ \E c \in Channel : Offer(c)
  \/ TakeAnswer
  \/ \E q \in PE : Core(q)

Spec == Init /\ [][Next]_vars

\* The clock runs, the firmware and the delivery unit go on, and every core
\* takes what it is given.
Fairness ==
  /\ WF_vars(ScanCommand) /\ WF_vars(Edge)
  /\ \A c \in Channel : WF_vars(Offer(c))
  /\ WF_vars(TakeAnswer)
  /\ \A q \in PE : WF_vars(TakePs(q)) /\ WF_vars(TakePd(q, 1)) /\ WF_vars(Sum(q))

FairSpec == Spec /\ Fairness

-----------------------------------------------------------------------------
(* Properties.                                                             *)

\* The row whose words a PE is to have.
role(q) == IF q[2] < active THEN q ELSE <<q[1], 0>>

\* Request i of a channel is for PE q, and brings it this word.
Meant(c, q, i) ==
  /\ workload.topology[q].enable /\ workload.topology[role(q)].enable
  /\ workload.topology[role(q)].id[c] = script[c][i].tag

WordMeant(c, q, i) == <<i, IF script[c][i].ultra THEN q[1] ELSE 0>>

\* What the requests 1 .. n of a channel bring to PE q.
RequestsMeant(c, q, n) == {i \in 1 .. n : Meant(c, q, i)}
WordsMeant(c, q, n) == {WordMeant(c, q, i) : i \in RequestsMeant(c, q, n)}
ChunksMeant(q, n) ==
  UNION {{WordMeant("pd", q, i)} \X script["pd"][i].mask : i \in RequestsMeant("pd", q, n)}

\* s has each of the words once, in the order of their requests.
Lists(s, words) ==
  /\ {s[i] : i \in DOMAIN s} = words
  /\ \A i, j \in DOMAIN s : i < j => s[i][1] < s[j][1]

\* s has each of the chunks once, in the order of their words and places.
ListsChunks(s, chunks) ==
  /\ {s[i] : i \in DOMAIN s} = chunks
  /\ \A i, j \in DOMAIN s : i < j =>
       \/ s[i][1][1] < s[j][1][1]
       \/ s[i][1] = s[j][1] /\ s[i][2] < s[j][2]

Sent(c) == offered[c] - Len(fifo[c])

\* A word reaches all the PEs it is meant for at the edge it leaves the router,
\* those of the tail with row 0, and no other: no PE is a word ahead of or
\* behind another (MBUS::comb_ps_routing, comb_pd_routing, comb_pli_routing).
Multicast ==
  \A q \in PE :
    /\ Lists(taken[q].ps \o pe[q].ps, WordsMeant("ps", q, Sent("ps")))
    /\ ListsChunks(taken[q].pd \o pe[q].pd, ChunksMeant(q, Sent("pd")))
    /\ workload.topology[q].from_bus =>
         Lists(taken[q].pli \o pe[q].pli, WordsMeant("pli", q, Sent("pli")))

\* The partial sums of a row pass from port to port without loss, and in order
\* (PErouter::comb_noc_pli, comb_output_and_state).
SumsPassedOn ==
  \A q \in PE :
    LET to == <<q[1] + 1, q[2]>>
    IN  workload.topology[q].enable /\ ~workload.topology[q].to_bus =>
          taken[to].pli \o pe[to].pli \o pe[q].plo = taken[q].pli

\* The PE from which the sums of q come, by way of the local links.
Source(q) == <<Max({p \in 0 .. q[1] : workload.topology[<<p, q[2]>>].from_bus}), q[2]>>

\* The rows of port p that read k is for, and the PE whose answer is the port's.
Readers(k, p) == {r \in 0 .. active - 1 : Meant("plo", <<p, r>>, k)}
Reader(k, p) == <<p, Max(Readers(k, p))>>

\* A sum that PE q gives as its answer to read k: as many reads of q came
\* before it as sums were sent to q before this one.
IsSum(sum, k, q) ==
  \E i \in RequestsMeant("pli", Source(q), Len(script["pli"])) :
    /\ sum = WordMeant("pli", Source(q), i)
    /\ Cardinality(RequestsMeant("pli", Source(q), i)) = Cardinality(RequestsMeant("plo", q, k))

\* Answers come in the order of their reads, one for each, and each holds the
\* sums of its own row, of every port if the read is ultra: the delivery unit
\* pairs answers and addresses by position (NoCRouter::process_responses_plo).
AnswersMatchReads ==
  \A k \in 1 .. Len(answers) + Len(resp_fifo) :
    LET words == (answers \o resp_fifo)[k]
    IN  IF script["plo"][k].ultra
        THEN /\ Len(words) = NUM_PORTS
             /\ \A p \in Port : IsSum(words[p + 1], k, Reader(k, p))
        ELSE /\ Len(words) = 1
             /\ IsSum(words[1], k, Reader(k, Max({p \in Port : Readers(k, p) # {}})))

\* All requests are delivered, and all reads answered.
all_served ==
  /\ \A c \in Channel : offered[c] = Len(script[c]) /\ fifo[c] = <<>>
  /\ Len(answers) = Len(script["plo"])

\* Every request is delivered, and every read answered, also one whose answer
\* finds the router's queue full: "We keep ready_out low, so MBUS holds the data"
\* (NoCRouter.hpp:730).  The MBUS holds it, but forgets whom it had asked.
EverythingServed == <>[]all_served

\* No more reads are open than the router has room for answers.
answers_have_room == offered["plo"] - Len(answers) <= Depth

\* Every request is delivered, and every read answered, while there is room for
\* the answers: no multicast and no read waits for ever for a PE
\* (MBUS::comb_pe_response_ready, NoCRouter::process_responses_plo).
ServedWithRoom == []answers_have_room => <>[]all_served
=============================================================================
