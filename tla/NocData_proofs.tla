---------------------------- MODULE NocData_proofs ----------------------------
(***************************************************************************)
(* The NoC's data path, for every size of the PE array, every depth of its *)
(* queues and every workload: a request reaches the PEs it is meant for    *)
(* and no other, each once and in the order of the requests; a sum that    *)
(* one PE gives is what the next one takes; and an answer holds the sums   *)
(* of the PEs that its read was meant for.                                 *)
(*                                                                         *)
(* Until the scan chain has been loaded nothing moves; that it is loaded   *)
(* rightly is an invariant of the shifts that are still to come.  From     *)
(* then on each part of Working says what one kind of queue holds, as a    *)
(* function of how many requests of each channel the bus has passed.  A    *)
(* step is shown to keep the parts one by one, under "what a step has to   *)
(* show": QueuedNext to StandingNext.                                      *)
(*                                                                         *)
(* The last part is about the ring buffer of Utils/FIFO.hpp, which every   *)
(* queue of the data path is an instance of: for every depth and every set *)
(* of data it stays within its types, its count, pointers and flags agree, *)
(* data_out shows the head if there are at least two slots, and what the   *)
(* storage holds between the pointers behaves as a bounded queue.          *)
(***************************************************************************)
EXTENDS NocData, Fifo, SequenceTheorems, FiniteSetTheorems, TLAPS

Loaded == commands = <<>> /\ ~scan.enable

\* The shifts that are still to come.
ToShift == Len(commands) + (IF scan.enable THEN 1 ELSE 0)

Topology(t) == t \in [PE -> Config]

\* The words that are in the chain are on their way to their PEs.
Loading ==
  /\ Len(commands) <= NumPes
  /\ \A i \in 1 .. Len(commands) : commands[i] = workload.topology[PeAt(Len(commands) + 1 - i)]
  /\ scan.enable => /\ Len(commands) < NumPes
                    /\ scan.data = workload.topology[PeAt(Len(commands) + 1)]
  /\ Len(chain) = NumPes
  /\ \A i \in 1 .. NumPes - ToShift : chain[i] = workload.topology[PeAt(i + ToShift)]

Configured ==
  /\ workload \in Workloads
  /\ commands \in Seq(Config) /\ chain \in Seq(Config)
  /\ scan \in [enable : BOOLEAN, data : Config]
  /\ Loading

\* What a workload is.
LEMMA WorkloadIs ==
  ASSUME NEW w \in Workloads
  PROVE  /\ w.topology \in [PE -> Config] /\ Chained(w.topology)
         /\ w.active \in 1 .. NUM_PES
         /\ \A c \in Channel : w.script[c] \in Seq(Request)
BY NocAssumption

\* A position in a chain of n PEs a port.
LEMMA Division ==
  ASSUME NEW n \in Nat \ {0}, NEW a \in Nat, NEW b \in 0 .. n - 1
  PROVE  (a * n + b) \div n = a /\ (a * n + b) % n = b
<1>1. PICK x \in Nat : x = a * n + b
  OBVIOUS
<1>2. PICK d \in Nat, m \in 0 .. n - 1 : d = x \div n /\ m = x % n /\ x = d * n + m
  BY SMT
<1>3. ASSUME d > a PROVE FALSE
  <2>1. PICK e \in Nat : d = a + 1 + e
    <3>1. d - a - 1 \in Nat /\ d = a + 1 + (d - a - 1)
      BY <1>3
    <3> QED
      BY <3>1
  <2>2. d * n = a * n + n + e * n
    BY <2>1
  <2>3. e * n \in Nat /\ a * n \in Nat /\ d * n \in Nat
    OBVIOUS
  <2> QED
    BY <1>1, <1>2, <2>2, <2>3
<1>4. ASSUME d < a PROVE FALSE
  <2>1. PICK e \in Nat : a = d + 1 + e
    <3>1. a - d - 1 \in Nat /\ a = d + 1 + (a - d - 1)
      BY <1>4
    <3> QED
      BY <3>1
  <2>2. a * n = d * n + n + e * n
    BY <2>1
  <2>3. e * n \in Nat /\ a * n \in Nat /\ d * n \in Nat
    OBVIOUS
  <2> QED
    BY <1>1, <1>2, <2>2, <2>3
<1>5. d = a
  BY <1>3, <1>4
<1>6. a * n \in Nat
  OBVIOUS
<1> QED
  BY <1>1, <1>2, <1>5, <1>6

\* Every PE has its place in the chain.
LEMMA PlaceOfPe ==
  ASSUME NEW q \in PE
  PROVE  Index(q) \in 1 .. NumPes /\ PeAt(Index(q)) = q
<1>1. PICK m \in Nat \ {0}, n \in Nat \ {0} : m = NUM_PORTS /\ n = NUM_PES
  BY NocAssumption
<1>2. PICK a \in 0 .. m - 1, b \in 0 .. n - 1 : q = <<a, b>>
  BY <1>1 DEF PE, Port, Row
<1>3. Index(q) = a * n + b + 1
  BY <1>1, <1>2 DEF Index
<1>4. a * n \in Nat /\ a * n + b + 1 \in Nat /\ (a * n + b + 1) - 1 = a * n + b
  OBVIOUS
<1>5. a * n + b + 1 <= m * n
  <2>1. PICK e \in Nat : m = a + 1 + e
    <3>1. m - a - 1 \in Nat /\ m = a + 1 + (m - a - 1)
      OBVIOUS
    <3> QED
      BY <3>1
  <2>2. m * n = a * n + n + e * n /\ e * n \in Nat
    BY <2>1
  <2> QED
    BY <1>4, <2>2
<1>6. PeAt(Index(q)) = <<a, b>>
  <2>1. (a * n + b) \div n = a /\ (a * n + b) % n = b
    BY Division
  <2> QED
    BY <1>1, <1>3, <1>4, <2>1 DEF PeAt
<1> QED
  BY <1>1, <1>2, <1>3, <1>4, <1>5, <1>6 DEF NumPes

\* Every place in the chain has its PE.
LEMMA PeOfPlace ==
  ASSUME NEW i \in 1 .. NumPes
  PROVE  PeAt(i) \in PE
<1>1. PICK m \in Nat \ {0}, n \in Nat \ {0} : m = NUM_PORTS /\ n = NUM_PES
  BY NocAssumption
<1>2. m * n \in Nat /\ i \in 1 .. m * n
  BY <1>1 DEF NumPes
<1>3. PICK x \in Nat : x = i - 1 /\ x < m * n
  BY <1>2
<1>4. PICK d \in Nat, r \in 0 .. n - 1 : d = x \div n /\ r = x % n /\ x = d * n + r
  BY SMT
<1>5. ASSUME d >= m PROVE FALSE
  <2>1. PICK e \in Nat : d = m + e
    <3>1. d - m \in Nat /\ d = m + (d - m)
      BY <1>5
    <3> QED
      BY <3>1
  <2>2. d * n = m * n + e * n /\ e * n \in Nat
    BY <2>1
  <2> QED
    BY <1>2, <1>3, <1>4, <2>2
<1>6. d \in 0 .. m - 1
  BY <1>5
<1> QED
  BY <1>1, <1>3, <1>4, <1>6 DEF PeAt, PE, Port, Row

\* The number of PEs.
LEMMA SomePes == NumPes \in Nat \ {0}
<1>1. PICK m \in Nat \ {0}, n \in Nat \ {0} : m = NUM_PORTS /\ n = NUM_PES
  BY NocAssumption
<1>2. m * n \in Nat \ {0}
  OBVIOUS
<1> QED
  BY <1>1, <1>2 DEF NumPes

\* With the chain loaded, every PE has the configuration of the topology.
LEMMA ConfigLoaded ==
  ASSUME Configured, Loaded, NEW q \in PE
  PROVE  config(q) = workload.topology[q]
<1>1. Index(q) \in 1 .. NumPes /\ PeAt(Index(q)) = q
  BY PlaceOfPe
<1>2. ToShift = 0
  BY EmptySeq DEF Loaded, ToShift
<1>3. Index(q) \in 1 .. NumPes - ToShift /\ Index(q) + ToShift = Index(q)
  BY <1>1, <1>2, SomePes
<1> QED
  BY <1>1, <1>3 DEF Configured, Loading, config

\* At the start the firmware has all words to send.
LEMMA ConfiguredFirst == Init => Configured
<1> SUFFICES ASSUME Init PROVE Configured
  OBVIOUS
<1>1. workload \in Workloads /\ Topology(workload.topology)
  BY WorkloadIs DEF Init, Topology
<1>2. PICK n \in Nat \ {0} : n = NumPes
  BY SomePes
<1>3. PICK s : s = ScanWords(workload.topology)
  OBVIOUS
<1>4. s = [i \in 1 .. n |-> workload.topology[PeAt(n + 1 - i)]]
  BY <1>2, <1>3 DEF ScanWords
<1>5. ASSUME NEW i \in 1 .. n PROVE n + 1 - i \in 1 .. n
      /\ workload.topology[PeAt(n + 1 - i)] \in Config
  <2>1. n + 1 - i \in 1 .. n
    OBVIOUS
  <2> QED
    BY <1>1, <1>2, <2>1, PeOfPlace DEF Topology
<1>6. s \in Seq(Config) /\ Len(s) = n
      /\ \A i \in 1 .. n : s[i] = workload.topology[PeAt(n + 1 - i)]
  BY <1>4, <1>5
<1>7. NoConfig \in Config
  BY DEF NoConfig, Config
<1>8. chain \in Seq(Config) /\ Len(chain) = n
  BY <1>2, <1>7 DEF Init
<1>9. commands = s /\ scan = [enable |-> FALSE, data |-> NoConfig]
  BY <1>3 DEF Init
<1>10. ToShift = n
  BY <1>6, <1>9 DEF ToShift
<1> QED
  BY <1>1, <1>2, <1>6, <1>7, <1>8, <1>9, <1>10 DEF Configured, Loading

\* One shift of the chain.
LEMMA Shifted ==
  ASSUME Configured, Shift
  PROVE  /\ chain' \in Seq(Config) /\ Len(chain') = NumPes
         /\ ~scan.enable => chain' = chain
         /\ scan.enable => /\ chain'[1] = scan.data
                           /\ \A i \in 2 .. NumPes : chain'[i] = chain[i - 1]
<1>1. PICK n \in Nat \ {0} : n = NumPes
  BY SomePes
<1>2. chain \in Seq(Config) /\ Len(chain) = n /\ scan.data \in Config
  BY <1>1 DEF Configured, Loading
<1>3. CASE ~scan.enable
  BY <1>1, <1>2, <1>3 DEF Shift
<1>4. CASE scan.enable
  <2>1. chain' = <<scan.data>> \o Front(chain)
    BY <1>4 DEF Shift
  <2>2. PICK f : f = Front(chain)
    OBVIOUS
  <2>3. f = SubSeq(chain, 1, n - 1)
    BY <1>2, <2>2 DEF Front
  <2>4. f \in Seq(Config) /\ Len(f) = n - 1 /\ \A i \in 1 .. n - 1 : f[i] = chain[i]
    BY <1>2, <2>3, SubSeqProperties
  <2>5. <<scan.data>> \in Seq(Config) /\ Len(<<scan.data>>) = 1 /\ <<scan.data>>[1] = scan.data
    BY <1>2
  <2>6. PICK e \in Seq(Config) : e = <<scan.data>>
    BY <2>5
  <2>7. /\ chain' \in Seq(Config) /\ Len(chain') = 1 + (n - 1)
        /\ \A i \in 1 .. 1 + (n - 1) : chain'[i] = IF i <= 1 THEN e[i] ELSE f[i - 1]
    BY <2>1, <2>2, <2>4, <2>5, <2>6, ConcatProperties
  <2>8. ASSUME NEW i \in 2 .. n PROVE chain'[i] = chain[i - 1]
    <3>1. i \in 1 .. 1 + (n - 1) /\ i - 1 \in 1 .. n - 1 /\ ~(i <= 1)
      OBVIOUS
    <3> QED
      BY <2>4, <2>7, <3>1
  <2>9. 1 \in 1 .. 1 + (n - 1) /\ 1 + (n - 1) = n
    OBVIOUS
  <2> QED
    BY <1>1, <1>4, <2>5, <2>6, <2>7, <2>8, <2>9
<1> QED
  BY <1>3, <1>4

\* After a shift, the words of the chain stand one place nearer to their PEs.
LEMMA ShiftLoads ==
  ASSUME Configured, Shift, NEW i \in 1 .. NumPes - Len(commands)
  PROVE  chain'[i] = workload.topology[PeAt(i + Len(commands))]
<1>1. PICK n \in Nat \ {0} : n = NumPes
  BY SomePes
<1>2. PICK t : t = workload.topology
  OBVIOUS
<1>3. PICK l \in Nat : l = Len(commands)
  BY DEF Configured
<1>4. CASE ~scan.enable
  <2>1. ToShift = l
    BY <1>3, <1>4 DEF ToShift
  <2>2. chain' = chain
    BY <1>4, Shifted
  <2> QED
    BY <1>1, <1>2, <1>3, <2>1, <2>2 DEF Configured, Loading
<1>5. CASE scan.enable
  <2>1. ToShift = l + 1
    BY <1>3, <1>5 DEF ToShift
  <2>2. l < n /\ scan.data = t[PeAt(l + 1)]
    BY <1>1, <1>2, <1>3, <1>5 DEF Configured, Loading
  <2>3. \A j \in 1 .. n - (l + 1) : chain[j] = t[PeAt(j + (l + 1))]
    BY <1>1, <1>2, <2>1 DEF Configured, Loading
  <2>4. chain'[1] = scan.data /\ \A j \in 2 .. n : chain'[j] = chain[j - 1]
    BY <1>1, <1>5, Shifted
  <2>5. CASE i = 1
    BY <1>2, <1>3, <2>2, <2>4, <2>5
  <2>6. CASE i # 1
    <3>1. i \in 2 .. n /\ i - 1 \in 1 .. n - (l + 1) /\ (i - 1) + (l + 1) = i + l
      BY <1>1, <1>3, <2>2, <2>6
    <3> QED
      BY <1>2, <1>3, <2>3, <2>4, <3>1
  <2> QED
    BY <2>5, <2>6
<1> QED
  BY <1>4, <1>5

\* An edge with a scan command.
LEMMA ScanLoads ==
  ASSUME Configured, ScanCommand
  PROVE  Configured'
<1>1. PICK n \in Nat \ {0} : n = NumPes
  BY SomePes
<1>2. PICK t : t = workload.topology /\ t = workload'.topology /\ Topology(t)
  BY WorkloadIs DEF Configured, ScanCommand, Datapath, Topology
<1>3. PICK l \in Nat \ {0} : l = Len(commands) /\ commands \in Seq(Config)
  BY EmptySeq DEF Configured, ScanCommand
<1>4. PICK c \in Seq(Config) : /\ c = commands' /\ Len(c) = l - 1
                               /\ \A i \in 1 .. l - 1 : c[i] = commands[i + 1]
  BY <1>3, HeadTailProperties, SMTT(30) DEF ScanCommand
<1>5. scan' = [enable |-> TRUE, data |-> commands[1]] /\ commands[1] \in Config
  BY <1>3, HeadTailProperties DEF ScanCommand
<1>6. l <= n /\ \A i \in 1 .. l : commands[i] = t[PeAt(l + 1 - i)]
  BY <1>1, <1>2, <1>3 DEF Configured, Loading
<1>7. scan'.enable /\ scan'.data = t[PeAt(l)] /\ scan' \in [enable : BOOLEAN, data : Config]
  <2>1. 1 \in 1 .. l /\ l + 1 - 1 = l
    OBVIOUS
  <2> QED
    BY <1>5, <1>6, <2>1
<1>8. \A i \in 1 .. l - 1 : c[i] = t[PeAt((l - 1) + 1 - i)]
  <2>1. ASSUME NEW i \in 1 .. l - 1 PROVE c[i] = t[PeAt((l - 1) + 1 - i)]
    <3>1. i + 1 \in 1 .. l /\ l + 1 - (i + 1) = (l - 1) + 1 - i
      OBVIOUS
    <3> QED
      BY <1>4, <1>6, <3>1
  <2> QED
    BY <2>1
<1>9. ToShift' = l /\ l - 1 \in Nat /\ (l - 1) + 1 = l
  BY <1>4, <1>7 DEF ToShift
<1>10. \A i \in 1 .. n - l : chain'[i] = t[PeAt(i + l)]
  BY <1>1, <1>2, <1>3, ShiftLoads DEF ScanCommand, Datapath
<1>11. workload' \in Workloads /\ chain' \in Seq(Config) /\ Len(chain') = n
  BY <1>1, Shifted DEF Configured, ScanCommand, Datapath
<1>12. l - 1 <= n /\ l - 1 < n
  BY <1>6
<1> QED
  BY <1>1, <1>2, <1>4, <1>7, <1>8, <1>9, <1>10, <1>11, <1>12 DEF Configured, Loading

\* An edge without one.
LEMMA EdgeLoads ==
  ASSUME Configured, Edge
  PROVE  Configured'
<1>1. PICK n \in Nat \ {0} : n = NumPes
  BY SomePes
<1>2. PICK t : t = workload.topology /\ t = workload'.topology /\ Topology(t)
  BY WorkloadIs DEF Configured, Edge, Datapath, Topology
<1>3. PICK l \in Nat : l = Len(commands) /\ l = Len(commands') /\ l <= n
  BY <1>1 DEF Configured, Edge, Loading
<1>4. commands' = commands /\ workload' \in Workloads /\ ~scan'.enable
      /\ scan' \in [enable : BOOLEAN, data : Config]
  BY DEF Configured, Edge, Datapath
<1>5. chain' \in Seq(Config) /\ Len(chain') = n
  BY <1>1, Shifted DEF Edge, Datapath
<1>6. ToShift' = l
  BY <1>3, <1>4 DEF ToShift
<1>7. \A i \in 1 .. n - l : chain'[i] = t[PeAt(i + l)]
  BY <1>1, <1>2, <1>3, ShiftLoads DEF Edge, Datapath
<1>8. chain \in Seq(Config) /\ commands \in Seq(Config)
      /\ \A i \in 1 .. l : commands[i] = t[PeAt(l + 1 - i)]
  BY <1>2, <1>3 DEF Configured, Loading
<1> QED
  BY <1>1, <1>2, <1>3, <1>4, <1>5, <1>6, <1>7, <1>8 DEF Configured, Loading

-----------------------------------------------------------------------------
(* Before the chain is loaded nothing moves.                               *)

Chunk == Word \X (1 .. Chunks)
NumberedRequest == [id : Nat, tag : Nat, ultra : BOOLEAN, mask : SUBSET (1 .. Chunks)]
Queues == [ps : Seq(Word), pd : Seq(Chunk), pli : Seq(Word), plo : Seq(Word),
           resp : Seq(Word), waits : BOOLEAN]
History == [ps : Seq(Word), pd : Seq(Chunk), pli : Seq(Word)]
NoWords == [ps |-> <<>>, pd |-> <<>>, pli |-> <<>>, plo |-> <<>>, resp |-> <<>>, waits |-> FALSE]

Quiet ==
  /\ offered = [c \in Channel |-> 0] /\ fifo = [c \in Channel |-> <<>>]
  /\ resp_fifo = <<>> /\ answers = <<>>
  /\ pending = [read |-> FALSE, ultra |-> FALSE]
  /\ rx_mask = [p \in Port |-> {}]
  /\ pe = [q \in PE |-> NoWords]
  /\ taken = [q \in PE |-> [ps |-> <<>>, pd |-> <<>>, pli |-> <<>>]]

\* An edge with no words anywhere.
LEMMA QuietEdge ==
  ASSUME Quiet, Datapath
  PROVE  Quiet'
<1>1. \A c \in Channel : fifo[c] = <<>> /\ ~Fires(c)
  BY DEF Quiet, Fires
<1>2. ~Reads /\ ~Collects /\ ~rx_stall
  BY <1>1 DEF Quiet, Reads, Collects, rx_stall, Channel
<1>3. fifo' = fifo
  <2>1. fifo' = [c \in Channel |-> fifo[c]]
    BY <1>1, <1>2 DEF Datapath, RouterEdge
  <2> QED
    BY <2>1 DEF Quiet
<1>4. resp_fifo' = resp_fifo /\ pending' = [read |-> FALSE, ultra |-> FALSE]
      /\ rx_mask' = [p \in Port |-> {}]
  <2>1. Reads = FALSE /\ (Reads /\ Head(fifo["plo"]).ultra) = FALSE
    BY <1>2, Zenon DEF Reads
  <2>2. pending' = [read |-> Reads, ultra |-> (Reads /\ Head(fifo["plo"]).ultra)]
    BY <1>2, Zenon DEF Datapath, RouterEdge
  <2>3. pending' = [read |-> FALSE, ultra |-> FALSE]
    BY <2>1, <2>2, Zenon
  <2>4. resp_fifo' = resp_fifo /\ rx_mask' = [p \in Port |-> {}]
    BY <1>2 DEF Datapath, RouterEdge
  <2> QED
    BY <2>3, <2>4
<1>5. ASSUME NEW q \in PE PROVE PeEdge(q) = NoWords
  <2>1. pe[q] = NoWords
    BY DEF Quiet
  <2>2. ~LinkValid(q) /\ ~LinkPops(q)
    BY <2>1 DEF LinkValid, LinkPops, NoWords
  <2>3. FromLink(q) = <<>>
    <3>1. CASE q[1] > 0
      <4>1. <<q[1] - 1, q[2]>> \in PE
        BY <3>1, NocAssumption DEF PE, Port, Row
      <4>2. ~LinkValid(<<q[1] - 1, q[2]>>)
        BY <4>1 DEF LinkValid, NoWords, Quiet
      <4> QED
        BY <4>2 DEF FromLink
    <3>2. CASE ~(q[1] > 0)
      BY <3>2 DEF FromLink
    <3> QED
      BY <3>1, <3>2
  <2>4. FromBus(q, "ps") = <<>> /\ FromBus(q, "pli") = <<>> /\ PdFromBus(q) = <<>>
    BY <1>1 DEF FromBus, PdFromBus, Delivered, Channel, Send
  <2>5. <<>> \o <<>> = <<>>
    BY ConcatEmptySeq, EmptySeq
  <2>6. /\ pe[q].ps = <<>> /\ pe[q].pd = <<>> /\ pe[q].pli = <<>> /\ pe[q].plo = <<>>
        /\ pe[q].resp = <<>>
    BY <2>1 DEF NoWords
  <2> QED
    BY <1>2, <2>2, <2>3, <2>4, <2>5, <2>6 DEF PeEdge, NoWords
<1>6. pe' = [q \in PE |-> NoWords]
  BY <1>5 DEF Datapath
<1>7. offered' = offered /\ answers' = answers /\ taken' = taken
  BY DEF Datapath
<1> QED
  BY <1>3, <1>4, <1>6, <1>7 DEF Quiet

\* Until the chain is loaded only edges happen.
LEMMA QuietStep ==
  ASSUME Quiet, ~Loaded, [Next]_vars
  PROVE  Quiet'
<1>1. CASE ScanCommand \/ Edge
  BY <1>1, QuietEdge DEF ScanCommand, Edge
<1>2. ASSUME NEW c \in Channel, Offer(c) PROVE FALSE
  BY <1>2 DEF Offer, Loaded
<1>3. CASE TakeAnswer
  BY <1>3 DEF TakeAnswer, Quiet
<1>4. ASSUME NEW q \in PE, Core(q) PROVE FALSE
  <2>1. /\ pe[q]["ps"] = <<>> /\ pe[q]["pd"] = <<>> /\ pe[q]["pli"] = <<>>
    BY DEF Quiet, NoWords
  <2>2. ~Pop(q, "ps", 1) /\ ~Pop(q, "pli", 1) /\ ~Pop(q, "pd", 1) /\ ~Pop(q, "pd", Chunks)
    BY <2>1, EmptySeq, NocAssumption DEF Pop
  <2> QED
    BY <1>4, <2>2 DEF Core, TakePs, TakePd, Sum
<1>5. CASE UNCHANGED vars
  BY <1>5 DEF vars, configuration, router, Quiet
<1> QED
  BY <1>1, <1>2, <1>3, <1>4, <1>5 DEF Next

-----------------------------------------------------------------------------
(* Numbers, sequences and lists.                                           *)

\* The pairs of numbers of which the first is the less.
Below == {p \in Nat \X Nat : p[1] < p[2]}

\* Numbers that are not none have a least.
LEMMA LeastOf ==
  ASSUME NEW S, S \subseteq Nat, S # {}
  PROVE  \E m \in S : \A x \in S : m <= x
<1>1. IsWellFoundedOn(Below, Nat)
  BY NatLessThanWellFounded DEF OpToRel, Below
<1>2. PICK m \in S : \A y \in S : ~ (<<y, m>> \in Below)
  BY <1>1, WFMin
<1>3. ASSUME NEW y \in S PROVE m <= y
  <2>1. ~ (y < m)
    BY <1>2 DEF Below
  <2> QED
    BY <2>1
<1> QED
  BY <1>3

\* Numbers below a bound that are not none have a greatest.
LEMMA MaxOf ==
  ASSUME NEW n \in Nat, NEW S, S \subseteq 0 .. n, S # {}
  PROVE  Max(S) \in S /\ \A x \in S : x <= Max(S)
<1>1. PICK D : D = {d \in 0 .. n : n - d \in S}
  OBVIOUS
<1>2. D \subseteq Nat /\ D # {}
  <2>1. PICK x \in S : x \in 0 .. n
    OBVIOUS
  <2>2. n - x \in 0 .. n /\ n - (n - x) = x
    BY <2>1
  <2> QED
    BY <1>1, <2>1, <2>2
<1>3. PICK d \in D : \A e \in D : d <= e
  BY <1>2, LeastOf
<1>4. n - d \in S /\ d \in 0 .. n
  BY <1>1, <1>3
<1>5. ASSUME NEW x \in S PROVE n - d >= x
  <2>1. n - x \in D
    <3>1. x \in 0 .. n
      OBVIOUS
    <3>2. n - x \in 0 .. n /\ n - (n - x) = x
      BY <3>1
    <3> QED
      BY <1>1, <3>2
  <2> QED
    BY <1>3, <1>4, <2>1
<1>6. \E m \in S : \A x \in S : m >= x
  BY <1>4, <1>5
<1> QED
  BY <1>6 DEF Max

\* What has a function s that increases.
Increases(s, n) == \A i, j \in 1 .. n : i < j => s[i] < s[j]

\* Every mask can be put in order.
LEMMA Orders ==
  ASSUME NEW n \in Nat
  PROVE  \A mask \in SUBSET (1 .. n) :
           \E s \in [1 .. Cardinality(mask) -> mask] : Increases(s, Cardinality(mask))
<1> DEFINE Fine(k) == \A mask \in SUBSET (1 .. k) :
                        \E s \in [1 .. Cardinality(mask) -> mask] :
                          Increases(s, Cardinality(mask))
<1> SUFFICES ASSUME ~Fine(n) PROVE FALSE
  OBVIOUS
<1>1. PICK k \in Nat : ~Fine(k) /\ \A j \in Nat : ~Fine(j) => k <= j
  <2>1. PICK S : S = {j \in Nat : ~Fine(j)}
    OBVIOUS
  <2>2. S \subseteq Nat /\ n \in S
    BY <2>1
  <2>3. PICK k \in S : \A x \in S : k <= x
    BY <2>2, LeastOf
  <2> QED
    BY <2>1, <2>3
<1>2. PICK mask \in SUBSET (1 .. k) :
        ~ \E s \in [1 .. Cardinality(mask) -> mask] : Increases(s, Cardinality(mask))
  BY <1>1
<1>3. k # 0
  <2>1. SUFFICES ASSUME k = 0 PROVE FALSE
    OBVIOUS
  <2>2. 1 .. 0 = {}
    OBVIOUS
  <2>3. mask = {} /\ Cardinality(mask) = 0
    BY <2>1, <2>2, FS_EmptySet
  <2>4. [i \in 1 .. 0 |-> i] \in [1 .. 0 -> {}] /\ Increases([i \in 1 .. 0 |-> i], 0)
    BY DEF Increases
  <2> QED
    BY <1>2, <2>3, <2>4
<1>4. Fine(k - 1)
  <2>1. k - 1 \in Nat /\ ~(k <= k - 1)
    BY <1>3
  <2> QED
    BY <1>1, <2>1
<1>5. k \in mask
  <2>1. SUFFICES ASSUME k \notin mask PROVE FALSE
    OBVIOUS
  <2>2. mask \in SUBSET (1 .. k - 1)
    BY <1>3, <2>1
  <2> QED
    BY <1>2, <1>4, <2>2
<1>6. PICK rest \in SUBSET (1 .. k - 1) : rest = mask \ {k}
  <2>1. ASSUME NEW x \in mask \ {k} PROVE x \in 1 .. k - 1
    BY <1>3
  <2> QED
    BY <2>1
<1>7. IsFiniteSet(mask)
  <2>1. IsFiniteSet(1 .. k)
    BY FS_Interval
  <2> QED
    BY <2>1, FS_Subset
<1>8. PICK c \in Nat : c = Cardinality(rest) /\ Cardinality(mask) = c + 1
  <2>1. IsFiniteSet(rest) /\ Cardinality(rest) = Cardinality(mask) - 1
    BY <1>5, <1>6, <1>7, FS_RemoveElement
  <2>2. Cardinality(rest) \in Nat /\ Cardinality(mask) \in Nat
    BY <1>7, <2>1, FS_CardinalityType
  <2> QED
    BY <2>1, <2>2
<1>9. PICK t \in [1 .. c -> rest] : Increases(t, c)
  BY <1>4, <1>8
<1>10. PICK s : s = [i \in 1 .. c + 1 |-> IF i = c + 1 THEN k ELSE t[i]]
  OBVIOUS
<1>11. s \in [1 .. c + 1 -> mask]
  <2>1. ASSUME NEW i \in 1 .. c + 1 PROVE s[i] \in mask
    <3>1. CASE i = c + 1
      BY <1>5, <1>10, <3>1
    <3>2. CASE i # c + 1
      <4>1. i \in 1 .. c
        BY <3>2
      <4>2. t[i] \in rest
        BY <1>9, <4>1
      <4> QED
        BY <1>6, <1>10, <3>2, <4>2
    <3> QED
      BY <3>1, <3>2
  <2> QED
    BY <1>10, <2>1
<1>12. Increases(s, c + 1)
  <2>1. ASSUME NEW i \in 1 .. c + 1, NEW j \in 1 .. c + 1, i < j PROVE s[i] < s[j]
    <3>1. i \in 1 .. c /\ i # c + 1
      BY <2>1
    <3>2. s[i] = t[i] /\ t[i] \in rest
      BY <1>9, <1>10, <3>1
    <3>3. CASE j = c + 1
      <4>1. s[j] = k
        BY <1>10, <3>3
      <4>2. t[i] \in 1 .. k - 1
        BY <1>6, <3>2
      <4> QED
        BY <1>3, <3>2, <4>1, <4>2
    <3>4. CASE j # c + 1
      <4>1. j \in 1 .. c /\ s[j] = t[j]
        BY <1>10, <3>4
      <4> QED
        BY <1>9, <2>1, <3>1, <3>2, <4>1 DEF Increases
    <3> QED
      BY <3>3, <3>4
  <2> QED
    BY <2>1 DEF Increases
<1> QED
  BY <1>2, <1>8, <1>11, <1>12

\* The chunks of a mask, each once and in their order.
LEMMA InOrderIs ==
  ASSUME NEW mask \in SUBSET (1 .. Chunks)
  PROVE  /\ Cardinality(mask) \in Nat
         /\ in_order(mask) \in [1 .. Cardinality(mask) -> mask]
         /\ \A i, j \in 1 .. Cardinality(mask) : i < j => in_order(mask)[i] < in_order(mask)[j]
         /\ \A k \in mask : \E i \in 1 .. Cardinality(mask) : in_order(mask)[i] = k
<1>1. Chunks \in Nat \ {0}
  BY NocAssumption
<1>2. IsFiniteSet(mask) /\ mask \subseteq Nat
  <2>1. IsFiniteSet(1 .. Chunks)
    BY <1>1, FS_Interval
  <2>2. \A x \in mask : x \in Nat
    BY <1>1
  <2> QED
    BY <2>1, <2>2, FS_Subset
<1>3. PICK n \in Nat : n = Cardinality(mask)
  BY <1>2, FS_CardinalityType
<1>4. \E s \in [1 .. n -> mask] : \A i, j \in 1 .. n : i < j => s[i] < s[j]
  BY <1>1, <1>3, Orders DEF Increases
<1>5. PICK s \in [1 .. n -> mask] : s = in_order(mask)
      /\ \A i, j \in 1 .. n : i < j => s[i] < s[j]
  BY <1>3, <1>4 DEF in_order
<1>6. s \in Injection(1 .. n, mask)
  <2>1. ASSUME NEW i \in 1 .. n, NEW j \in 1 .. n, s[i] = s[j] PROVE i = j
    <3>1. s[i] \in Nat /\ s[j] \in Nat
      BY <1>2, <1>5
    <3>2. ~(i < j) /\ ~(j < i)
      BY <1>5, <2>1, <3>1
    <3> QED
      BY <3>2
  <2> QED
    BY <1>5, <2>1 DEF Injection, IsInjective
<1>7. Cardinality(1 .. n) = n
  BY FS_Interval
<1>8. s \in Surjection(1 .. n, mask)
  BY <1>2, <1>3, <1>6, <1>7, FS_Injection
<1> QED
  BY <1>3, <1>5, <1>8 DEF Surjection

\* One request more.
LEMMA RequestsNext ==
  ASSUME NEW c, NEW q, NEW n \in Nat
  PROVE  /\ Meant(c, q, n + 1) => RequestsMeant(c, q, n + 1) = RequestsMeant(c, q, n) \cup {n + 1}
         /\ ~Meant(c, q, n + 1) => RequestsMeant(c, q, n + 1) = RequestsMeant(c, q, n)
         /\ n + 1 \notin RequestsMeant(c, q, n)
<1>1. \A i : i \in 1 .. n + 1 <=> i \in 1 .. n \/ i = n + 1
  OBVIOUS
<1>2. n + 1 \notin 1 .. n
  OBVIOUS
<1> QED
  BY <1>1, <1>2 DEF RequestsMeant

\* How many requests of a channel are for a PE.
LEMMA RequestsCount ==
  ASSUME NEW c, NEW q, NEW n \in Nat
  PROVE  /\ IsFiniteSet(RequestsMeant(c, q, n))
         /\ Cardinality(RequestsMeant(c, q, n)) \in Nat
         /\ Meant(c, q, n + 1) =>
              Cardinality(RequestsMeant(c, q, n + 1)) = Cardinality(RequestsMeant(c, q, n)) + 1
<1>1. IsFiniteSet(RequestsMeant(c, q, n))
  <2>1. IsFiniteSet(1 .. n)
    BY FS_Interval
  <2>2. RequestsMeant(c, q, n) \in SUBSET (1 .. n)
    BY DEF RequestsMeant
  <2> QED
    BY <2>1, <2>2, FS_Subset
<1>2. Cardinality(RequestsMeant(c, q, n)) \in Nat
  BY <1>1, FS_CardinalityType
<1>3. Cardinality(RequestsMeant(c, q, n) \cup {n + 1}) = Cardinality(RequestsMeant(c, q, n)) + 1
  BY <1>1, FS_AddElement, RequestsNext
<1> QED
  BY <1>1, <1>2, <1>3, RequestsNext

\* No requests.
LEMMA RequestsNone ==
  ASSUME NEW c, NEW q
  PROVE  /\ RequestsMeant(c, q, 0) = {} /\ Cardinality(RequestsMeant(c, q, 0)) = 0
         /\ WordsMeant(c, q, 0) = {} /\ ChunksMeant(q, 0) = {}
<1>1. 1 .. 0 = {}
  OBVIOUS
<1>2. \A d : RequestsMeant(d, q, 0) = {}
  BY <1>1 DEF RequestsMeant
<1> QED
  BY <1>2, FS_EmptySet DEF WordsMeant, ChunksMeant

\* The elements of a list are those that it lists.
LEMMA Listed ==
  ASSUME NEW S, NEW s \in Seq(S), NEW words, Lists(s, words)
  PROVE  /\ \A i \in 1 .. Len(s) : s[i] \in words
         /\ \A w \in words : \E i \in 1 .. Len(s) : s[i] = w
         /\ \A i, j \in 1 .. Len(s) : i < j => s[i][1] < s[j][1]
<1>1. DOMAIN s = 1 .. Len(s)
  BY LenProperties
<1> QED
  BY <1>1 DEF Lists

\* What makes a list.
LEMMA ListOf ==
  ASSUME NEW S, NEW s \in Seq(S), NEW words,
         \A i \in 1 .. Len(s) : s[i] \in words,
         \A w \in words : \E i \in 1 .. Len(s) : s[i] = w,
         \A i, j \in 1 .. Len(s) : i < j => s[i][1] < s[j][1]
  PROVE  Lists(s, words)
<1>1. DOMAIN s = 1 .. Len(s)
  BY LenProperties
<1> QED
  BY <1>1 DEF Lists

\* The word of a request.
LEMMA WordIs ==
  ASSUME NEW c \in Channel, NEW q \in PE, NEW i \in Nat
  PROVE  WordMeant(c, q, i) \in Word /\ WordMeant(c, q, i)[1] = i
<1>1. q[1] \in Port /\ 0 \in Port
  BY NocAssumption DEF PE, Port
<1> QED
  BY <1>1 DEF WordMeant, Word, Lane

\* A word that comes to a PE.
LEMMA ListsMore ==
  ASSUME NEW c \in Channel, NEW q \in PE, NEW n \in Nat, NEW s \in Seq(Word),
         Lists(s, WordsMeant(c, q, n)), Meant(c, q, n + 1)
  PROVE  Lists(Append(s, WordMeant(c, q, n + 1)), WordsMeant(c, q, n + 1))
<1>1. PICK w \in Word : w = WordMeant(c, q, n + 1) /\ w[1] = n + 1
  BY WordIs
<1>2. PICK k \in Nat : k = Len(s)
  BY LenProperties
<1>3. PICK r \in Seq(Word) : /\ r = Append(s, w) /\ Len(r) = k + 1
                             /\ (\A i \in 1 .. k : r[i] = s[i]) /\ r[k + 1] = w
  BY <1>2, AppendProperties
<1>4. /\ \A i \in 1 .. k : s[i] \in WordsMeant(c, q, n)
      /\ \A x \in WordsMeant(c, q, n) : \E i \in 1 .. k : s[i] = x
      /\ \A i, j \in 1 .. k : i < j => s[i][1] < s[j][1]
  BY <1>2, Listed
<1>5. WordsMeant(c, q, n + 1) = WordsMeant(c, q, n) \cup {w}
  BY <1>1, RequestsNext DEF WordsMeant
<1>6. ASSUME NEW i \in 1 .. k PROVE s[i][1] \in 1 .. n
  <2>1. PICK j \in 1 .. n : s[i] = WordMeant(c, q, j)
    BY <1>4 DEF WordsMeant, RequestsMeant
  <2> QED
    BY <2>1, WordIs
<1>7. \A i \in 1 .. k + 1 : i \in 1 .. k \/ i = k + 1
  OBVIOUS
<1>8. \A i \in 1 .. k + 1 : r[i] \in WordsMeant(c, q, n) \cup {w}
  BY <1>3, <1>4, <1>7
<1>9. \A x \in WordsMeant(c, q, n) \cup {w} : \E i \in 1 .. k + 1 : r[i] = x
  <2>1. ASSUME NEW x \in WordsMeant(c, q, n) PROVE \E i \in 1 .. k + 1 : r[i] = x
    <3>1. PICK i \in 1 .. k : s[i] = x
      BY <1>4
    <3>2. i \in 1 .. k + 1 /\ r[i] = x
      BY <1>3, <3>1
    <3> QED
      BY <3>2
  <2>2. k + 1 \in 1 .. k + 1
    OBVIOUS
  <2> QED
    BY <1>3, <2>1, <2>2
<1>10. ASSUME NEW i \in 1 .. k + 1, NEW j \in 1 .. k + 1, i < j PROVE r[i][1] < r[j][1]
  <2>1. i \in 1 .. k
    BY <1>10
  <2>2. CASE j = k + 1
    <3>1. r[i][1] \in 1 .. n /\ r[j][1] = n + 1
      BY <1>1, <1>3, <1>6, <2>1, <2>2
    <3> QED
      BY <3>1
  <2>3. CASE j # k + 1
    <3>1. j \in 1 .. k
      BY <2>3
    <3> QED
      BY <1>3, <1>4, <1>10, <2>1, <3>1
  <2> QED
    BY <2>2, <2>3
<1> QED
  BY <1>1, <1>3, <1>5, <1>8, <1>9, <1>10, ListOf

\* A word that does not.
LEMMA WordsSame ==
  ASSUME NEW c, NEW q, NEW n \in Nat, ~Meant(c, q, n + 1)
  PROVE  WordsMeant(c, q, n + 1) = WordsMeant(c, q, n)
BY RequestsNext DEF WordsMeant

\* Chunks that do not come.
LEMMA ChunksSame ==
  ASSUME NEW q, NEW n \in Nat, ~Meant("pd", q, n + 1)
  PROVE  ChunksMeant(q, n + 1) = ChunksMeant(q, n)
BY RequestsNext DEF ChunksMeant

\* The pieces of a word.
LEMMA PiecesAre ==
  ASSUME NEW w \in Word, NEW mask \in SUBSET (1 .. Chunks), NEW x, x = Pieces(w, mask)
  PROVE  /\ x \in Seq(Chunk)
         /\ \A i \in 1 .. Len(x) : x[i][1] = w /\ x[i][2] \in mask /\ x[i] \in {w} \X mask
         /\ \A y \in {w} \X mask : \E i \in 1 .. Len(x) : x[i] = y
         /\ \A i, j \in 1 .. Len(x) : i < j => x[i][2] < x[j][2]
<1>1. PICK n \in Nat : n = Cardinality(mask)
  BY InOrderIs
<1>2. PICK f \in [1 .. n -> mask] :
        /\ f = in_order(mask) /\ \A i, j \in 1 .. n : i < j => f[i] < f[j]
        /\ \A k \in mask : \E i \in 1 .. n : f[i] = k
  BY <1>1, InOrderIs
<1>3. x = [i \in 1 .. n |-> <<w, f[i]>>]
  BY <1>1, <1>2 DEF Pieces
<1>4. x \in Seq(Chunk) /\ Len(x) = n
  <2>1. \A i \in 1 .. n : <<w, f[i]>> \in Chunk
    BY <1>2 DEF Chunk
  <2> QED
    BY <1>3, <2>1
<1>5. \A i \in 1 .. n : x[i] = <<w, f[i]>> /\ x[i][1] = w /\ x[i][2] = f[i] /\ f[i] \in mask
  BY <1>2, <1>3
<1>6. ASSUME NEW y \in {w} \X mask PROVE \E i \in 1 .. n : x[i] = y
  <2>1. PICK k \in mask : y = <<w, k>>
    <3>1. y = <<y[1], y[2]>> /\ y[1] = w /\ y[2] \in mask
      OBVIOUS
    <3> QED
      BY <3>1
  <2>2. PICK i \in 1 .. n : f[i] = k
    BY <1>2
  <2> QED
    BY <1>5, <2>1, <2>2
<1>7. ASSUME NEW i \in 1 .. n PROVE x[i] \in {w} \X mask
  <2>1. PICK k \in mask : k = f[i]
    BY <1>2
  <2>2. <<w, k>> \in {w} \X mask
    OBVIOUS
  <2> QED
    BY <1>3, <2>1, <2>2
<1> QED
  BY <1>2, <1>4, <1>5, <1>6, <1>7

\* A word of which a PE gets some chunks.
LEMMA ChunksMore ==
  ASSUME NEW q \in PE, NEW n \in Nat, NEW s \in Seq(Chunk),
         ListsChunks(s, ChunksMeant(q, n)), Meant("pd", q, n + 1),
         NEW mask \in SUBSET (1 .. Chunks), mask = script["pd"][n + 1].mask,
         NEW x, x = Pieces(WordMeant("pd", q, n + 1), mask)
  PROVE  /\ x \in Seq(Chunk)
         /\ ListsChunks(s \o x, ChunksMeant(q, n + 1))
<1>1. PICK w \in Word : w = WordMeant("pd", q, n + 1) /\ w[1] = n + 1
  BY WordIs DEF Channel, Send
<1>2. PICK k \in Nat : k = Len(s) /\ DOMAIN s = 1 .. k
  BY LenProperties
<1>3. /\ x \in Seq(Chunk)
      /\ \A i \in 1 .. Len(x) : x[i][1] = w /\ x[i][2] \in mask /\ x[i] \in {w} \X mask
      /\ \A y \in {w} \X mask : \E i \in 1 .. Len(x) : x[i] = y
      /\ \A i, j \in 1 .. Len(x) : i < j => x[i][2] < x[j][2]
  BY <1>1, PiecesAre
<1>4. PICK l \in Nat : l = Len(x)
  BY <1>3, LenProperties
<1>5. PICK r \in Seq(Chunk) : /\ r = s \o x /\ Len(r) = k + l
                              /\ \A i \in 1 .. k + l : r[i] = IF i <= k THEN s[i] ELSE x[i - k]
  <2>1. x \in Seq(Chunk)
    BY <1>3
  <2>2. /\ s \o x \in Seq(Chunk) /\ Len(s \o x) = k + l
        /\ \A i \in 1 .. k + l : (s \o x)[i] = IF i <= k THEN s[i] ELSE x[i - k]
    BY <1>2, <1>4, <2>1, ConcatProperties
  <2> QED
    BY <2>2
<1>6. DOMAIN r = 1 .. k + l
  BY <1>5, LenProperties
<1>7. /\ \A i \in 1 .. k : s[i] \in ChunksMeant(q, n)
      /\ \A y \in ChunksMeant(q, n) : \E i \in 1 .. k : s[i] = y
      /\ \A i, j \in 1 .. k : i < j => \/ s[i][1][1] < s[j][1][1]
                                       \/ s[i][1] = s[j][1] /\ s[i][2] < s[j][2]
  <2>1. {s[i] : i \in 1 .. k} = ChunksMeant(q, n)
    BY <1>2 DEF ListsChunks
  <2>2. \A i, j \in 1 .. k : i < j => \/ s[i][1][1] < s[j][1][1]
                                      \/ s[i][1] = s[j][1] /\ s[i][2] < s[j][2]
    BY <1>2, Zenon DEF ListsChunks
  <2>3. \A i \in 1 .. k : s[i] \in ChunksMeant(q, n)
    BY <2>1
  <2>4. \A y \in ChunksMeant(q, n) : \E i \in 1 .. k : s[i] = y
    BY <2>1
  <2> QED
    BY <2>2, <2>3, <2>4
<1>8. ChunksMeant(q, n + 1) = ChunksMeant(q, n) \cup ({w} \X mask)
  <2>1. RequestsMeant("pd", q, n + 1) = RequestsMeant("pd", q, n) \cup {n + 1}
    BY RequestsNext
  <2> QED
    BY <1>1, <2>1 DEF ChunksMeant
<1>9. ASSUME NEW i \in 1 .. k PROVE s[i][1][1] \in 1 .. n
  <2>1. PICK j \in 1 .. n : s[i] \in {WordMeant("pd", q, j)} \X script["pd"][j].mask
    <3>1. s[i] \in ChunksMeant(q, n)
      BY <1>7
    <3> QED
      BY <3>1 DEF ChunksMeant, RequestsMeant
  <2>2. s[i][1] = WordMeant("pd", q, j)
    BY <2>1
  <2> QED
    BY <2>2, WordIs DEF Channel, Send
<1>10. ASSUME NEW i \in 1 .. k + l
       PROVE  \/ i \in 1 .. k /\ r[i] = s[i]
              \/ i - k \in 1 .. l /\ r[i] = x[i - k]
  BY <1>5
<1>11. ASSUME NEW i \in 1 .. k + l PROVE r[i] \in ChunksMeant(q, n + 1)
  BY <1>3, <1>4, <1>7, <1>8, <1>10
<1>12. ASSUME NEW y \in ChunksMeant(q, n + 1) PROVE \E i \in 1 .. k + l : r[i] = y
  <2>1. CASE y \in ChunksMeant(q, n)
    <3>1. PICK i \in 1 .. k : s[i] = y
      BY <1>7, <2>1
    <3>2. i \in 1 .. k + l /\ r[i] = y
      BY <1>5, <3>1
    <3> QED
      BY <3>2
  <2>2. CASE y \in {w} \X mask
    <3>1. PICK i \in 1 .. l : x[i] = y
      BY <1>3, <1>4, <2>2
    <3>2. k + i \in 1 .. k + l /\ ~(k + i <= k) /\ (k + i) - k = i
      OBVIOUS
    <3>3. r[k + i] = y
      BY <1>5, <3>1, <3>2
    <3> QED
      BY <3>2, <3>3
  <2> QED
    BY <1>8, <2>1, <2>2
<1>13. ASSUME NEW i \in 1 .. k + l, NEW j \in 1 .. k + l, i < j
       PROVE  \/ r[i][1][1] < r[j][1][1]
              \/ r[i][1] = r[j][1] /\ r[i][2] < r[j][2]
  <2>1. CASE j \in 1 .. k
    <3>1. i \in 1 .. k /\ r[i] = s[i] /\ r[j] = s[j]
      BY <1>5, <1>13, <2>1
    <3> QED
      BY <1>7, <1>13, <2>1, <3>1, SMTT(30)
  <2>2. CASE ~(j \in 1 .. k) /\ i \in 1 .. k
    <3>1. r[i] = s[i] /\ j - k \in 1 .. l /\ r[j] = x[j - k]
      BY <1>5, <2>2
    <3>2. r[j][1][1] = n + 1
      BY <1>1, <1>3, <1>4, <3>1
    <3>3. r[i][1][1] \in 1 .. n
      BY <1>9, <2>2, <3>1
    <3> QED
      BY <3>2, <3>3
  <2>3. CASE ~(j \in 1 .. k) /\ ~(i \in 1 .. k)
    <3>1. i - k \in 1 .. l /\ j - k \in 1 .. l /\ i - k < j - k
      BY <1>13, <2>3
    <3>2. r[i] = x[i - k] /\ r[j] = x[j - k]
      BY <1>10, <2>3
    <3>3. x[i - k][1] = w /\ x[j - k][1] = w /\ x[i - k][2] < x[j - k][2]
      BY <1>3, <1>4, <3>1
    <3>4. r[i][1] = r[j][1] /\ r[i][2] < r[j][2]
      BY <3>2, <3>3
    <3> QED
      BY <3>4
  <2> QED
    BY <2>1, <2>2, <2>3
<1>14. {r[i] : i \in DOMAIN r} = ChunksMeant(q, n + 1)
  BY <1>6, <1>11, <1>12
<1>15. \A i, j \in DOMAIN r : i < j => \/ r[i][1][1] < r[j][1][1]
                                       \/ r[i][1] = r[j][1] /\ r[i][2] < r[j][2]
  BY <1>6, <1>13, Zenon
<1> QED
  <2>1. ListsChunks(r, ChunksMeant(q, n + 1))
    BY <1>14, <1>15, Zenon DEF ListsChunks
  <2> QED
    BY <1>3, <1>5, <2>1


\* Three sequences in a row.
LEMMA Regrouped ==
  ASSUME NEW S, NEW t \in Seq(S), NEW a \in Seq(S), NEW b \in Seq(S), NEW s, s = a \o b
  PROVE  (t \o a) \o b = t \o s
<1>1. (t \o a) \o b = t \o (a \o b)
  BY ONLY ConcatAssociative, t \in Seq(S), a \in Seq(S), b \in Seq(S)
<1> QED
  BY <1>1

\* The first n elements of a queue, and the others.
FirstOf(s, n) == SubSeq(s, 1, n)
RestOf(s, n) == SubSeq(s, n + 1, Len(s))

\* The first n elements of a queue pass to the end of another sequence.
LEMMA HandOver ==
  ASSUME NEW S, NEW t \in Seq(S), NEW s \in Seq(S), NEW n \in Nat, n <= Len(s)
  PROVE  /\ FirstOf(s, n) \in Seq(S) /\ RestOf(s, n) \in Seq(S)
         /\ (t \o FirstOf(s, n)) \o RestOf(s, n) = t \o s
<1>1. PICK l \in Nat : l = Len(s)
  BY LenProperties
<1>2. \A i \in 1 .. l : s[i] \in S
  BY <1>1, ElementOfSeq
<1>3. SubSeq(s, 1, n) \in Seq(S)
  BY <1>1, <1>2, SubSeqProperties
<1>4. SubSeq(s, n + 1, l) \in Seq(S)
  BY <1>1, <1>2, SubSeqProperties
<1>5. SubSeq(s, 1, n) \o SubSeq(s, n + 1, l) = s
  <2>1. 1 \in 1 .. Len(s) + 1 /\ n \in 1 - 1 .. Len(s) /\ Len(s) \in n .. Len(s)
    BY <1>1
  <2>2. SubSeq(s, 1, n) \o SubSeq(s, n + 1, Len(s)) = SubSeq(s, 1, Len(s))
    BY <2>1, ConcatAdjacentSubSeq
  <2> QED
    BY <1>1, <2>2, SubSeqFull
<1>6. /\ FirstOf(s, n) \in Seq(S) /\ RestOf(s, n) \in Seq(S)
      /\ s = FirstOf(s, n) \o RestOf(s, n)
  BY <1>1, <1>3, <1>4, <1>5 DEF FirstOf, RestOf
<1>7. PICK a, b : a = FirstOf(s, n) /\ b = RestOf(s, n)
  OBVIOUS
<1>8. a \in Seq(S) /\ b \in Seq(S)
  BY <1>6, <1>7, Zenon
<1>9. s = a \o b
  BY <1>6, <1>7, Zenon
<1>10. (t \o a) \o b = t \o s
  BY ONLY <1>8, <1>9, Regrouped, t \in Seq(S)
<1> QED
  BY <1>7, <1>8, <1>10, Zenon

\* The oldest element of a queue passes.
LEMMA HandOne ==
  ASSUME NEW S, NEW t \in Seq(S), NEW s \in Seq(S), s # <<>>
  PROVE  /\ SubSeq(s, 1, 1) = <<Head(s)>> /\ Head(s) \in S /\ Tail(s) \in Seq(S)
         /\ Append(t, Head(s)) \o Tail(s) = t \o s
         /\ t \o SubSeq(s, 1, 1) = Append(t, Head(s))
<1>1. Len(s) \in Nat \ {0} /\ 1 <= Len(s)
  BY EmptySeq
<1>2. Head(s) \in S /\ Tail(s) \in Seq(S) /\ Tail(s) = SubSeq(s, 2, Len(s))
  BY HeadTailProperties, TailIsSubSeq
<1>3. SubSeq(s, 1, 1) = <<Head(s)>>
  <2>1. Head(s) = s[1] /\ s[1] \in S
    BY <1>1, <1>2
  <2>2. SubSeq(s, 1, 1) = [i \in 1 .. 1 |-> s[i]]
    BY <1>1
  <2>3. <<s[1]>> = [i \in 1 .. 1 |-> s[1]]
    OBVIOUS
  <2>4. [i \in 1 .. 1 |-> s[i]] = [i \in 1 .. 1 |-> s[1]]
    OBVIOUS
  <2> QED
    BY <2>1, <2>2, <2>3, <2>4
<1>4. FirstOf(s, 1) = <<Head(s)>> /\ RestOf(s, 1) = Tail(s)
  <2>1. 1 + 1 = 2
    OBVIOUS
  <2> QED
    BY <1>2, <1>3, <2>1, Zenon DEF FirstOf, RestOf
<1>5. (t \o FirstOf(s, 1)) \o RestOf(s, 1) = t \o s
  BY <1>1, HandOver
<1>6. Append(t, Head(s)) = t \o <<Head(s)>>
  BY <1>2, AppendIsConcat
<1> QED
  BY <1>2, <1>3, <1>4, <1>5, <1>6, Zenon

-----------------------------------------------------------------------------
(* The network at work.                                                    *)

Typed ==
  /\ offered \in [Channel -> Nat] /\ fifo \in [Channel -> Seq(NumberedRequest)]
  /\ pe \in [PE -> Queues] /\ taken \in [PE -> History]
  /\ pending \in [read : BOOLEAN, ultra : BOOLEAN] /\ rx_mask \in [Port -> SUBSET Row]
  /\ resp_fifo \in Seq(Seq(Word)) /\ answers \in Seq(Seq(Word))

\* What is in a channel are the last of the requests made, in their order.
Queued ==
  \A c \in Channel :
    /\ offered[c] <= Len(script[c]) /\ Len(fifo[c]) <= offered[c]
    /\ \A i \in 1 .. Len(fifo[c]) :
         fifo[c][i] = Numbered(script[c][Sent(c) + i], Sent(c) + i)

\* The reads that have come to a PE.
ReadsOf(q) == Cardinality(RequestsMeant("plo", q, Sent("plo")))

\* A PE whose sums the bus reads has given one for each read.
Kept ==
  \A q \in PE : workload.topology[q].enable /\ workload.topology[q].to_bus =>
    /\ ReadsOf(q) <= Len(taken[q].pli)
    /\ pe[q].plo = SubSeq(taken[q].pli, ReadsOf(q) + 1, Len(taken[q].pli))

\* The answers to the pending read stand at the PEs that were asked.
Standing ==
  /\ \A p \in Port : rx_mask[p] = IF pending.read THEN Readers(Sent("plo"), p) ELSE {}
  /\ pending.read => (pending.ultra <=> script["plo"][Sent("plo")].ultra)
  /\ \A q \in PE : q[2] < active /\ q[2] \notin rx_mask[q[1]] => pe[q].resp = <<>>
  /\ \A q \in PE : q[2] < active /\ q[2] \in rx_mask[q[1]] =>
       /\ workload.topology[q].enable /\ workload.topology[q].to_bus
       /\ ReadsOf(q) \in 1 .. Len(taken[q].pli)
       /\ pe[q].resp = <<taken[q].pli[ReadsOf(q)]>>

\* They passed while the response FIFO was full, or one never came: the read
\* stays for ever.
Stuck == pending.read /\ \A p \in Port : rx_mask[p] = {}

Numbering == Sent("plo") = Len(answers) + Len(resp_fifo) + IF pending.read THEN 1 ELSE 0

\* A word is the sum that PE q, which read k asks, took for it: t is what has
\* been taken.
GivenBy(t, word, k, q) ==
  LET n == Cardinality(RequestsMeant("plo", q, k))
  IN  /\ q \in PE /\ q[2] < active /\ Meant("plo", q, k) /\ workload.topology[q].to_bus
      /\ n \in 1 .. Len(t[q].pli) /\ word = t[q].pli[n]

\* The words of the answer to read k.
Answers(t, words, k) ==
  /\ script["plo"][k].ultra =>
       /\ Len(words) = NUM_PORTS
       /\ \A p \in Port : GivenBy(t, words[p + 1], k, Reader(k, p))
  /\ ~script["plo"][k].ultra =>
       /\ Len(words) = 1
       /\ GivenBy(t, words[1], k, Reader(k, Max({p \in Port : Readers(k, p) # {}})))

Answered ==
  \A k \in 1 .. Len(answers) + Len(resp_fifo) : Answers(taken, (answers \o resp_fifo)[k], k)

Working ==
  /\ Typed /\ Queued /\ Multicast /\ SumsPassedOn /\ Kept
  /\ Standing \/ Stuck
  /\ Numbering /\ Answered

IInv == Configured /\ (~Loaded => Quiet) /\ Working

\* What follows says of each part what a step has to show for it.
LEMMA QueuedNext ==
  ASSUME workload' = workload,
         \A c \in Channel :
           /\ offered'[c] <= Len(script[c]) /\ Len(fifo'[c]) <= offered'[c]
           /\ \A i \in 1 .. Len(fifo'[c]) :
                fifo'[c][i] = Numbered(script[c][offered'[c] - Len(fifo'[c]) + i],
                                       offered'[c] - Len(fifo'[c]) + i)
  PROVE  Queued'
<1>1. script' = script
  BY DEF script
<1> QED
  BY <1>1 DEF Queued, Sent, Numbered

\* What each PE has to hold of the requests, by how many the bus has passed.
LEMMA MulticastNext ==
  ASSUME workload' = workload,
         NEW n, \A c \in Channel : offered'[c] - Len(fifo'[c]) = n[c],
         \A q \in PE :
           /\ Lists(taken'[q].ps \o pe'[q].ps, WordsMeant("ps", q, n["ps"]))
           /\ ListsChunks(taken'[q].pd \o pe'[q].pd, ChunksMeant(q, n["pd"]))
           /\ workload.topology[q].from_bus =>
                Lists(taken'[q].pli \o pe'[q].pli, WordsMeant("pli", q, n["pli"]))
  PROVE  Multicast'
<1>1. Sent("ps")' = n["ps"] /\ Sent("pd")' = n["pd"] /\ Sent("pli")' = n["pli"]
  BY DEF Sent, Channel, Send
<1>2. ASSUME NEW q \in PE
      PROVE  /\ WordsMeant("ps", q, Sent("ps"))' = WordsMeant("ps", q, n["ps"])
             /\ WordsMeant("pli", q, Sent("pli"))' = WordsMeant("pli", q, n["pli"])
             /\ ChunksMeant(q, Sent("pd"))' = ChunksMeant(q, n["pd"])
  <2>1. WordsMeant("ps", q, Sent("ps"))' = WordsMeant("ps", q, n["ps"])
    BY <1>1 DEF WordsMeant, RequestsMeant, Meant, WordMeant, role, active, script
  <2>2. WordsMeant("pli", q, Sent("pli"))' = WordsMeant("pli", q, n["pli"])
    BY <1>1 DEF WordsMeant, RequestsMeant, Meant, WordMeant, role, active, script
  <2>3. ChunksMeant(q, Sent("pd"))' = ChunksMeant(q, n["pd"])
    BY <1>1 DEF ChunksMeant, RequestsMeant, Meant, WordMeant, role, active, script
  <2> QED
    BY <2>1, <2>2, <2>3
<1> QED
  BY <1>2, Zenon DEF Multicast

\* Which sums a PE has to hold for the reads that are still to come.
LEMMA KeptNext ==
  ASSUME workload' = workload,
         NEW n, offered'["plo"] - Len(fifo'["plo"]) = n,
         \A q \in PE : workload.topology[q].enable /\ workload.topology[q].to_bus =>
           LET m == Cardinality(RequestsMeant("plo", q, n))
           IN  /\ m <= Len(taken'[q].pli)
               /\ pe'[q].plo = SubSeq(taken'[q].pli, m + 1, Len(taken'[q].pli))
  PROVE  Kept'
<1>1. Sent("plo")' = n
  BY DEF Sent
<1>2. ASSUME NEW q \in PE
      PROVE  ReadsOf(q)' = Cardinality(RequestsMeant("plo", q, n))
  BY <1>1 DEF ReadsOf, RequestsMeant, Meant, role, active, script
<1> QED
  BY <1>2 DEF Kept

\* What each answer has to hold.
LEMMA AnsweredNext ==
  ASSUME workload' = workload,
         \A k \in 1 .. Len(answers') + Len(resp_fifo') :
           Answers(taken', (answers' \o resp_fifo')[k], k)
  PROVE  Answered'
<1>1. \A c, q, k : Meant(c, q, k)' <=> Meant(c, q, k)
  BY DEF Meant, role, active, script
<1>2. \A c, q, k : RequestsMeant(c, q, k)' = RequestsMeant(c, q, k)
  BY <1>1, Zenon DEF RequestsMeant
<1>3. active' = active /\ script' = script
  BY DEF active, script
<1>4. \A k, p : Readers(k, p)' = Readers(k, p)
  BY <1>1, <1>3, Zenon DEF Readers
<1>5. \A k, p : Reader(k, p)' = Reader(k, p)
  BY <1>4, Zenon DEF Reader
<1>6. ASSUME NEW k \in 1 .. Len(answers') + Len(resp_fifo')
      PROVE  Answers(taken, (answers \o resp_fifo)[k], k)'
  <2>1. Answers(taken', (answers' \o resp_fifo')[k], k)
    OBVIOUS
  <2> QED
    BY <1>1, <1>2, <1>3, <1>4, <1>5, <2>1, Zenon DEF Answers, GivenBy
<1> QED
  BY <1>6, Zenon DEF Answered

\* What has to be where while a read is collected.
LEMMA StandingNext ==
  ASSUME workload' = workload,
         NEW n, offered'["plo"] - Len(fifo'["plo"]) = n,
         \A p \in Port : rx_mask'[p] = IF pending'.read THEN Readers(n, p) ELSE {},
         pending'.read => (pending'.ultra <=> script["plo"][n].ultra),
         \A q \in PE : q[2] < active /\ q[2] \notin rx_mask'[q[1]] => pe'[q].resp = <<>>,
         \A q \in PE : q[2] < active /\ q[2] \in rx_mask'[q[1]] =>
           LET m == Cardinality(RequestsMeant("plo", q, n))
           IN  /\ workload.topology[q].enable /\ workload.topology[q].to_bus
               /\ m \in 1 .. Len(taken'[q].pli)
               /\ pe'[q].resp = <<taken'[q].pli[m]>>
  PROVE  Standing'
<1>1. \A c, q, k : Meant(c, q, k)' <=> Meant(c, q, k)
  BY DEF Meant, role, active, script
<1>2. \A c, q, k : RequestsMeant(c, q, k)' = RequestsMeant(c, q, k)
  BY <1>1, Zenon DEF RequestsMeant
<1>3. active' = active /\ script' = script
  BY DEF active, script
<1>4. \A k, p : Readers(k, p)' = Readers(k, p)
  BY <1>1, <1>3, Zenon DEF Readers
<1>5. Sent("plo")' = n
  BY DEF Sent
<1>6. \A q : ReadsOf(q)' = Cardinality(RequestsMeant("plo", q, n))
  BY <1>2, <1>5, Zenon DEF ReadsOf
<1> QED
  BY <1>3, <1>4, <1>5, <1>6, Zenon DEF Standing

\* What runs: the chain of a network that is not loaded may be anything.
LEMMA WorkloadRuns ==
  ASSUME Configured
  PROVE  /\ workload.topology \in [PE -> Config] /\ Chained(workload.topology)
         /\ active \in 1 .. NUM_PES /\ NUM_PES \in Nat \ {0}
         /\ \A c \in Channel : script[c] \in Seq(Request)
BY WorkloadIs, NocAssumption DEF Configured, active, script

\* The PE that gets the sums of q from the link.
LEMMA LinkedTo ==
  ASSUME Configured, NEW q \in PE, workload.topology[q].enable
  PROVE  /\ ~workload.topology[q].to_bus =>
              /\ q[1] + 1 \in Port /\ <<q[1] + 1, q[2]>> \in PE
              /\ workload.topology[<<q[1] + 1, q[2]>>].enable
              /\ ~workload.topology[<<q[1] + 1, q[2]>>].from_bus
         /\ ~workload.topology[q].from_bus =>
              /\ q[1] > 0 /\ <<q[1] - 1, q[2]>> \in PE
              /\ workload.topology[<<q[1] - 1, q[2]>>].enable
              /\ ~workload.topology[<<q[1] - 1, q[2]>>].to_bus
<1>1. Chained(workload.topology)
  BY WorkloadRuns
<1>2. q[1] \in Port /\ q[2] \in Row /\ NUM_PORTS \in Nat
  BY NocAssumption DEF PE
<1>3. q[1] + 1 \in Port => <<q[1] + 1, q[2]>> \in PE
  BY <1>2 DEF PE
<1>4. q[1] > 0 => <<q[1] - 1, q[2]>> \in PE
  BY <1>2 DEF PE, Port
<1> QED
  BY <1>1, <1>3, <1>4, Zenon DEF Chained

\* A network in which nothing has happened works.
LEMMA QuietWorks ==
  ASSUME Configured, Quiet
  PROVE  Working
<1>1. \A c \in Channel : offered[c] = 0 /\ fifo[c] = <<>> /\ Sent(c) = 0
  BY DEF Quiet, Sent
<1>2. ASSUME NEW q \in PE
      PROVE  /\ pe[q].ps = <<>> /\ pe[q].pd = <<>> /\ pe[q].pli = <<>> /\ pe[q].plo = <<>>
             /\ pe[q].resp = <<>>
             /\ taken[q].ps = <<>> /\ taken[q].pd = <<>> /\ taken[q].pli = <<>>
  BY DEF Quiet, NoWords
<1>3. <<>> \o <<>> = <<>>
  BY ConcatEmptySeq, EmptySeq
<1>4. Typed
  <2>1. pe \in [PE -> Queues]
    <3>1. NoWords \in Queues
      BY DEF NoWords, Queues
    <3> QED
      BY <3>1 DEF Quiet
  <2>2. taken \in [PE -> History]
    <3>1. [ps |-> <<>>, pd |-> <<>>, pli |-> <<>>] \in History
      BY DEF History
    <3> QED
      BY <3>1 DEF Quiet
  <2>3. offered \in [Channel -> Nat] /\ fifo \in [Channel -> Seq(NumberedRequest)]
    BY DEF Quiet
  <2>4. /\ pending \in [read : BOOLEAN, ultra : BOOLEAN] /\ rx_mask \in [Port -> SUBSET Row]
        /\ resp_fifo \in Seq(Seq(Word)) /\ answers \in Seq(Seq(Word))
    BY DEF Quiet
  <2> QED
    BY <2>1, <2>2, <2>3, <2>4 DEF Typed
<1>5. Queued
  BY <1>1, WorkloadRuns DEF Queued
<1>6. Multicast
  <2>1. \A q \in PE : Lists(<<>>, {}) /\ ListsChunks(<<>>, {})
    BY DEF Lists, ListsChunks
  <2> QED
    BY <1>1, <1>2, <1>3, <2>1, RequestsNone DEF Multicast, Channel, Send
<1>7. SumsPassedOn
  BY <1>2, <1>3, LinkedTo DEF SumsPassedOn
<1>8. ASSUME NEW q \in PE PROVE ReadsOf(q) = 0
  BY <1>1, RequestsNone DEF ReadsOf, Channel
<1>9. Kept
  <2>1. SubSeq(<<>>, 0 + 1, Len(<<>>)) = <<>> /\ 0 <= Len(<<>>)
    OBVIOUS
  <2>2. ASSUME NEW q \in PE
        PROVE  /\ ReadsOf(q) <= Len(taken[q].pli)
               /\ pe[q].plo = SubSeq(taken[q].pli, ReadsOf(q) + 1, Len(taken[q].pli))
    <3>1. ReadsOf(q) = 0 /\ taken[q].pli = <<>> /\ pe[q].plo = <<>>
      BY <1>2, <1>8
    <3> QED
      BY <2>1, <3>1, Zenon
  <2> QED
    BY <2>2 DEF Kept
<1>10. ~pending.read /\ \A p \in Port : rx_mask[p] = {}
  BY DEF Quiet
<1>11. Standing
  <2>1. \A q \in PE : q[1] \in Port
    BY DEF PE
  <2> QED
    BY <1>2, <1>10, <2>1 DEF Standing
<1>12. Len(answers) = 0 /\ Len(resp_fifo) = 0
  BY DEF Quiet
<1>13. Numbering
  BY <1>1, <1>10, <1>12 DEF Numbering, Channel
<1>14. Answered
  BY <1>12 DEF Answered
<1> QED
  BY <1>4, <1>5, <1>6, <1>7, <1>9, <1>11, <1>13, <1>14 DEF Working

-----------------------------------------------------------------------------
(* An edge.                                                                *)

\* A request at the head of its channel goes to the PEs that are meant.
LEMMA ReceiversAre ==
  ASSUME Configured, Loaded, Typed, Queued, NEW c \in Channel, fifo[c] # <<>>
  PROVE  /\ Sent(c) \in Nat /\ Sent(c) + 1 \in 1 .. Len(script[c])
         /\ script[c][Sent(c) + 1] \in Request
         /\ Head(fifo[c]) = Numbered(script[c][Sent(c) + 1], Sent(c) + 1)
         /\ \A q \in PE : q[2] \in Receivers(c, q[1]) <=> Meant(c, q, Sent(c) + 1)
         /\ \A q \in PE : Word_of(Head(fifo[c]), q[1]) = WordMeant(c, q, Sent(c) + 1)
<1>1. PICK l \in Nat \ {0} : l = Len(fifo[c]) /\ fifo[c] \in Seq(NumberedRequest)
  BY EmptySeq DEF Typed
<1>2. PICK n \in Nat : n = offered[c] /\ l <= n /\ n <= Len(script[c])
  BY <1>1 DEF Typed, Queued
<1>3. PICK s \in Nat : s = Sent(c) /\ s = n - l
  BY <1>1, <1>2 DEF Sent
<1>4. s + 1 \in 1 .. Len(script[c]) /\ script[c] \in Seq(Request)
  <2>1. script[c] \in Seq(Request)
    BY WorkloadRuns
  <2> QED
    BY <1>1, <1>2, <1>3, <2>1
<1>5. PICK r \in Request : r = script[c][s + 1]
  BY <1>4, ElementOfSeq
<1>6. PICK h : h = Head(fifo[c]) /\ h = Numbered(r, s + 1)
  <2>1. fifo[c][1] = Numbered(script[c][s + 1], s + 1)
    <3>1. 1 \in 1 .. Len(fifo[c])
      BY <1>1
    <3>2. fifo[c][1] = Numbered(script[c][Sent(c) + 1], Sent(c) + 1)
      BY <3>1, Zenon DEF Queued
    <3> QED
      BY <1>3, <3>2, Zenon
  <2>2. Head(fifo[c]) = fifo[c][1]
    BY <1>1, HeadTailProperties
  <2> QED
    BY <1>5, <2>1, <2>2, Zenon
<1>7. h.id = s + 1 /\ h.tag = r.tag /\ h.ultra = r.ultra
  BY <1>6 DEF Numbered
<1>8. ASSUME NEW q \in PE PROVE Word_of(h, q[1]) = WordMeant(c, q, s + 1)
  BY <1>5, <1>7 DEF Word_of, WordMeant
<1>9. PICK m \in Nat : m = NUM_PES /\ active \in 1 .. m
  BY WorkloadRuns
<1>10. ASSUME NEW q \in PE PROVE q[2] \in Receivers(c, q[1]) <=> Meant(c, q, s + 1)
  <2>1. PICK p \in Port, b \in Row : q = <<p, b>>
    BY DEF PE
  <2>2. PICK w : w = workload.topology
    OBVIOUS
  <2>3. \A a \in Row : <<p, a>> \in PE /\ config(<<p, a>>) = w[<<p, a>>]
    <3>1. \A a \in Row : <<p, a>> \in PE
      BY DEF PE
    <3> QED
      BY <2>2, <3>1, ConfigLoaded
  <2>4. \A a \in Row : a \in Targets(c, h.tag, p) <=>
          w[<<p, a>>].enable /\ a < active /\ w[<<p, a>>].id[c] = r.tag
    BY <1>7, <2>3 DEF Targets
  <2>5. 0 \in Row /\ b \in 0 .. m - 1
    BY <1>9 DEF Row
  <2>6. Receivers(c, p) = expand_shadow_row_mask(Targets(c, h.tag, p), p)
    BY <1>6 DEF Receivers
  <2>7. CASE b < active
    <3>1. b \in Receivers(c, p) <=> b \in Targets(c, h.tag, p)
      BY <1>9, <2>5, <2>6, <2>7 DEF expand_shadow_row_mask
    <3>2. role(q) = q
      BY <2>1, <2>7 DEF role
    <3> QED
      BY <1>5, <2>1, <2>2, <2>4, <2>7, <3>1, <3>2 DEF Meant
  <2>8. CASE ~(b < active)
    <3>1. ~(active >= NUM_PES) /\ b \in active .. NUM_PES - 1 /\ 0 < active
      BY <1>9, <2>5, <2>8
    <3>2. b \notin Targets(c, h.tag, p)
      BY <2>4, <2>8
    <3>3. b \in Receivers(c, p) <=> 0 \in Targets(c, h.tag, p) /\ w[<<p, b>>].enable
      BY <2>3, <2>6, <3>1, <3>2 DEF expand_shadow_row_mask
    <3>4. role(q) = <<p, 0>>
      BY <2>1, <2>8 DEF role
    <3> QED
      BY <1>5, <2>1, <2>2, <2>4, <2>5, <3>1, <3>3, <3>4 DEF Meant
  <2> QED
    BY <2>1, <2>7, <2>8
<1> QED
  BY <1>3, <1>4, <1>5, <1>6, <1>8, <1>10

\* A channel of which a request leaves at this edge.
Leaves(c) == (c \in Send /\ Fires(c)) \/ (c = "plo" /\ Reads)

\* The requests that have left after the edge.
SentNext(c) == IF Leaves(c) THEN Sent(c) + 1 ELSE Sent(c)

\* What the bus gives a PE of a request that leaves.
LEMMA DeliveredIs ==
  ASSUME Configured, Loaded, Typed, Queued, NEW c \in Channel, NEW q \in PE, Fires(c)
  PROVE  /\ Meant(c, q, Sent(c) + 1) => accepts_from_bus(q, c)
         /\ Delivered(q, c) <=> Meant(c, q, Sent(c) + 1)
         /\ FromBus(q, c) = IF Meant(c, q, Sent(c) + 1)
                            THEN <<WordMeant(c, q, Sent(c) + 1)>> ELSE <<>>
<1>1. fifo[c] # <<>> /\ q[1] \in Port /\ q = <<q[1], q[2]>>
  BY DEF Fires, PE
<1>2. q[2] \in Receivers(c, q[1]) <=> Meant(c, q, Sent(c) + 1)
  BY <1>1, ReceiversAre
<1>3. Word_of(Head(fifo[c]), q[1]) = WordMeant(c, q, Sent(c) + 1)
  BY <1>1, ReceiversAre
<1>4. ASSUME Meant(c, q, Sent(c) + 1) PROVE accepts_from_bus(q, c)
  <2>1. mbus_ready(c, q[1])
    BY <1>1 DEF Fires
  <2>2. accepts_from_bus(<<q[1], q[2]>>, c)
    BY <1>2, <1>4, <2>1 DEF mbus_ready
  <2> QED
    BY <1>1, <2>2
<1> QED
  BY <1>2, <1>3, <1>4 DEF Delivered, FromBus

\* Where the requests stand after an edge.
LEMMA EdgeQueues ==
  ASSUME Configured, Loaded, Typed, Queued, Datapath
  PROVE  /\ Queued'
         /\ offered' \in [Channel -> Nat] /\ fifo' \in [Channel -> Seq(NumberedRequest)]
         /\ \A c \in Channel : offered'[c] - Len(fifo'[c]) = SentNext(c)
<1>1. workload' = workload /\ offered' = offered
  BY DEF Datapath
<1>2. fifo' = [c \in Channel |-> IF Leaves(c) THEN Tail(fifo[c]) ELSE fifo[c]]
  BY Zenon DEF Datapath, RouterEdge, Leaves
<1>3. ASSUME NEW c \in Channel, Leaves(c) PROVE fifo[c] # <<>>
  BY <1>3 DEF Leaves, Fires, Reads
<1>4. ASSUME NEW c \in Channel
      PROVE  /\ fifo'[c] \in Seq(NumberedRequest)
             /\ offered'[c] - Len(fifo'[c]) = SentNext(c)
             /\ offered'[c] <= Len(script[c]) /\ Len(fifo'[c]) <= offered'[c]
             /\ \A i \in 1 .. Len(fifo'[c]) :
                  fifo'[c][i] = Numbered(script[c][offered'[c] - Len(fifo'[c]) + i],
                                         offered'[c] - Len(fifo'[c]) + i)
  <2>1. PICK l \in Nat : l = Len(fifo[c]) /\ fifo[c] \in Seq(NumberedRequest)
    BY DEF Typed
  <2>2. PICK n \in Nat : n = offered[c] /\ l <= n /\ n <= Len(script[c])
    BY <2>1 DEF Typed, Queued
  <2>3. PICK s \in Nat : s = Sent(c) /\ s = n - l
    BY <2>1, <2>2 DEF Sent
  <2>4. \A i \in 1 .. l : fifo[c][i] = Numbered(script[c][s + i], s + i)
    <3>1. \A i \in 1 .. l : fifo[c][i] = Numbered(script[c][Sent(c) + i], Sent(c) + i)
      BY <2>1, Zenon DEF Queued
    <3> QED
      BY <2>3, <3>1, Zenon
  <2>5. CASE ~Leaves(c)
    <3>1. fifo'[c] = fifo[c] /\ offered'[c] = n /\ SentNext(c) = s
      BY <1>1, <1>2, <2>2, <2>3, <2>5 DEF SentNext
    <3>2. offered'[c] - Len(fifo'[c]) = s
      BY <2>1, <2>3, <3>1
    <3>3. \A i \in 1 .. Len(fifo'[c]) :
            fifo'[c][i] = Numbered(script[c][offered'[c] - Len(fifo'[c]) + i],
                                   offered'[c] - Len(fifo'[c]) + i)
      BY <2>1, <2>4, <3>1, <3>2, Zenon
    <3> QED
      BY <2>1, <2>2, <3>1, <3>2, <3>3
  <2>6. CASE Leaves(c)
    <3>1. fifo[c] # <<>>
      BY <1>3, <2>6
    <3>2. PICK f \in Seq(NumberedRequest) :
            /\ f = fifo'[c] /\ Len(f) = l - 1 /\ \A i \in 1 .. l - 1 : f[i] = fifo[c][i + 1]
      <4>1. fifo'[c] = Tail(fifo[c])
        BY <1>2, <2>6
      <4>2. /\ Tail(fifo[c]) \in Seq(NumberedRequest) /\ Len(Tail(fifo[c])) = l - 1
            /\ \A i \in 1 .. l - 1 : Tail(fifo[c])[i] = fifo[c][i + 1]
        BY <2>1, <3>1, HeadTailProperties
      <4> QED
        BY <4>1, <4>2, Zenon
    <3>3. l - 1 \in Nat /\ l # 0
      BY <2>1, <3>1, EmptySeq
    <3>4. offered'[c] - Len(fifo'[c]) = s + 1 /\ SentNext(c) = s + 1
      BY <1>1, <2>2, <2>3, <2>6, <3>2, <3>3 DEF SentNext
    <3>5. ASSUME NEW i \in 1 .. l - 1
          PROVE  f[i] = Numbered(script[c][(s + 1) + i], (s + 1) + i)
      <4>1. i + 1 \in 1 .. l /\ s + (i + 1) = (s + 1) + i
        BY <3>3
      <4>2. fifo[c][i + 1] = Numbered(script[c][s + (i + 1)], s + (i + 1))
        BY <2>4, <4>1, Zenon
      <4> QED
        BY <3>2, <4>1, <4>2
    <3>6. \A i \in 1 .. Len(fifo'[c]) :
            fifo'[c][i] = Numbered(script[c][offered'[c] - Len(fifo'[c]) + i],
                                   offered'[c] - Len(fifo'[c]) + i)
      BY <3>2, <3>4, <3>5, Zenon
    <3> QED
      BY <1>1, <2>2, <3>2, <3>3, <3>4, <3>6
  <2> QED
    BY <2>5, <2>6
<1>5. Queued'
  BY <1>1, <1>4, QueuedNext, Zenon
<1>6. fifo' \in [Channel -> Seq(NumberedRequest)]
  BY <1>2, <1>4
<1> QED
  BY <1>1, <1>4, <1>5, <1>6 DEF Typed

\* A sequence that gets a word at its end, or none.
LEMMA GetsOne ==
  ASSUME NEW S, NEW t \in Seq(S), NEW s \in Seq(S), NEW w \in S
  PROVE  t \o (s \o <<w>>) = Append(t \o s, w) /\ t \o (s \o <<>>) = t \o s
         /\ t \o s \in Seq(S) /\ s \o <<w>> \in Seq(S) /\ s \o <<>> = s
<1>1. <<w>> \in Seq(S)
  OBVIOUS
<1>2. t \o s \in Seq(S) /\ s \o <<w>> \in Seq(S) /\ s \o <<>> = s
  BY <1>1, ConcatProperties, ConcatEmptySeq
<1>3. (t \o s) \o <<w>> = t \o (s \o <<w>>)
  BY <1>1, ConcatAssociative
<1>4. Append(t \o s, w) = (t \o s) \o <<w>>
  BY <1>2, AppendIsConcat
<1> QED
  BY <1>2, <1>3, <1>4, Zenon

\* What an edge gives each PE.
LEMMA EdgePe ==
  ASSUME Datapath, NEW q \in PE
  PROVE  /\ taken'[q] = taken[q]
         /\ pe'[q].ps = pe[q].ps \o FromBus(q, "ps")
         /\ pe'[q].pd = pe[q].pd \o PdFromBus(q)
         /\ pe'[q].pli = pe[q].pli \o FromBus(q, "pli") \o FromLink(q)
<1>1. pe'[q] = PeEdge(q) /\ taken' = taken
  BY DEF Datapath
<1> QED
  BY <1>1 DEF PeEdge

\* The words of a channel of which nothing but whole words are kept.
LEMMA EdgeLists ==
  ASSUME Configured, Loaded, Typed, Queued,
         NEW c \in Send, NEW q \in PE, NEW t \in Seq(Word), NEW s \in Seq(Word),
         Lists(t \o s, WordsMeant(c, q, Sent(c)))
  PROVE  Lists(t \o (s \o FromBus(q, c)), WordsMeant(c, q, SentNext(c)))
<1>1. PICK k \in Nat : k = Sent(c)
  BY DEF Sent, Typed, Queued, Channel
<1>2. PICK w \in Word : w = WordMeant(c, q, k + 1)
  BY <1>1, WordIs DEF Channel
<1>3. /\ t \o (s \o <<w>>) = Append(t \o s, w) /\ t \o (s \o <<>>) = t \o s
      /\ t \o s \in Seq(Word)
  BY GetsOne
<1>4. c \in Channel /\ c # "plo"
  BY DEF Channel, Send
<1>5. CASE ~Fires(c)
  <2>1. SentNext(c) = k /\ FromBus(q, c) = <<>>
    BY <1>1, <1>4, <1>5 DEF SentNext, Leaves, FromBus, Delivered
  <2> QED
    BY <1>1, <1>3, <2>1
<1>6. CASE Fires(c)
  <2>1. SentNext(c) = k + 1
    BY <1>1, <1>6 DEF SentNext, Leaves
  <2>2. CASE Meant(c, q, k + 1)
    <3>1. FromBus(q, c) = <<w>>
      BY <1>1, <1>2, <1>4, <1>6, <2>2, DeliveredIs
    <3>2. Lists(Append(t \o s, w), WordsMeant(c, q, k + 1))
      BY <1>1, <1>2, <1>3, <1>4, <2>2, ListsMore
    <3> QED
      BY <1>3, <2>1, <3>1, <3>2, Zenon
  <2>3. CASE ~Meant(c, q, k + 1)
    <3>1. FromBus(q, c) = <<>>
      BY <1>1, <1>4, <1>6, <2>3, DeliveredIs
    <3>2. WordsMeant(c, q, k + 1) = WordsMeant(c, q, k)
      BY <1>1, <2>3, WordsSame
    <3> QED
      BY <1>1, <1>3, <2>1, <3>1, <3>2, Zenon
  <2> QED
    BY <2>2, <2>3
<1> QED
  BY <1>5, <1>6

\* The chunks of PD.
LEMMA EdgeChunks ==
  ASSUME Configured, Loaded, Typed, Queued,
         NEW q \in PE, NEW t \in Seq(Chunk), NEW s \in Seq(Chunk),
         ListsChunks(t \o s, ChunksMeant(q, Sent("pd")))
  PROVE  /\ s \o PdFromBus(q) \in Seq(Chunk)
         /\ ListsChunks(t \o (s \o PdFromBus(q)), ChunksMeant(q, SentNext("pd")))
<1>1. "pd" \in Channel /\ "pd" \in Send
  BY DEF Channel, Send
<1>2. PICK k \in Nat : k = Sent("pd")
  BY <1>1 DEF Sent, Typed, Queued
<1>3. s \o <<>> = s /\ t \o s \in Seq(Chunk)
  BY ConcatEmptySeq, ConcatProperties
<1>4. CASE ~Fires("pd")
  <2>1. SentNext("pd") = k /\ PdFromBus(q) = <<>>
    BY <1>2, <1>4 DEF SentNext, Leaves, PdFromBus, Delivered
  <2> QED
    BY <1>2, <1>3, <2>1
<1>5. CASE Fires("pd")
  <2>1. SentNext("pd") = k + 1
    BY <1>1, <1>2, <1>5 DEF SentNext, Leaves
  <2>2. fifo["pd"] # <<>>
    BY <1>5 DEF Fires
  <2>3. CASE Meant("pd", q, k + 1)
    <3>1. Delivered(q, "pd")
      BY <1>1, <1>2, <1>5, <2>3, DeliveredIs
    <3>2. /\ Word_of(Head(fifo["pd"]), q[1]) = WordMeant("pd", q, k + 1)
          /\ Head(fifo["pd"]) = Numbered(script["pd"][k + 1], k + 1)
          /\ script["pd"][k + 1] \in Request
      BY <1>1, <1>2, <2>2, ReceiversAre
    <3>3. PICK mask \in SUBSET (1 .. Chunks) : mask = script["pd"][k + 1].mask
      BY <3>2 DEF Request
    <3>4. Head(fifo["pd"]).mask = mask
      BY <3>2, <3>3 DEF Numbered
    <3>5. PICK x : x = Pieces(WordMeant("pd", q, k + 1), mask)
      OBVIOUS
    <3>6. PdFromBus(q) = x
      BY <3>1, <3>2, <3>4, <3>5, Zenon DEF PdFromBus
    <3>7. x \in Seq(Chunk) /\ ListsChunks((t \o s) \o x, ChunksMeant(q, k + 1))
      <4>1. PICK r \in Seq(Chunk) : r = t \o s
        BY <1>3
      <4>2. ListsChunks(r, ChunksMeant(q, k))
        BY <1>2, <4>1, Zenon
      <4>3. x \in Seq(Chunk) /\ ListsChunks(r \o x, ChunksMeant(q, k + 1))
        BY <2>3, <3>3, <3>5, <4>2, ChunksMore
      <4> QED
        BY <4>1, <4>3, Zenon
    <3>8. (t \o s) \o x = t \o (s \o x) /\ s \o x \in Seq(Chunk)
      <4>1. x \in Seq(Chunk)
        BY <3>7
      <4> QED
        BY ONLY <4>1, t \in Seq(Chunk), s \in Seq(Chunk), ConcatAssociative, ConcatProperties
    <3> QED
      BY <2>1, <3>6, <3>7, <3>8, Zenon
  <2>4. CASE ~Meant("pd", q, k + 1)
    <3>1. ~Delivered(q, "pd")
      BY <1>1, <1>2, <1>5, <2>4, DeliveredIs
    <3>2. PdFromBus(q) = <<>> /\ ChunksMeant(q, k + 1) = ChunksMeant(q, k)
      BY <1>2, <2>4, <3>1, ChunksSame DEF PdFromBus
    <3> QED
      BY <1>2, <1>3, <2>1, <3>2, Zenon
  <2> QED
    BY <2>3, <2>4
<1> QED
  BY <1>4, <1>5

\* The link gives nothing to a PE that takes its sums from the bus.
LEMMA EdgeMulticast ==
  ASSUME Configured, Loaded, Typed, Queued, Multicast, Datapath
  PROVE  Multicast'
<1>1. workload' = workload
  BY DEF Datapath
<1>2. PICK n : n = [c \in Channel |-> SentNext(c)]
  OBVIOUS
<1>3. \A c \in Channel : offered'[c] - Len(fifo'[c]) = n[c]
  BY <1>2, EdgeQueues
<1>4. n["ps"] = SentNext("ps") /\ n["pd"] = SentNext("pd") /\ n["pli"] = SentNext("pli")
  BY <1>2 DEF Channel, Send
<1>5. ASSUME NEW q \in PE
      PROVE  /\ Lists(taken'[q].ps \o pe'[q].ps, WordsMeant("ps", q, n["ps"]))
             /\ ListsChunks(taken'[q].pd \o pe'[q].pd, ChunksMeant(q, n["pd"]))
             /\ workload.topology[q].from_bus =>
                  Lists(taken'[q].pli \o pe'[q].pli, WordsMeant("pli", q, n["pli"]))
  <2>1. /\ taken[q].ps \in Seq(Word) /\ taken[q].pd \in Seq(Chunk) /\ taken[q].pli \in Seq(Word)
        /\ pe[q].ps \in Seq(Word) /\ pe[q].pd \in Seq(Chunk) /\ pe[q].pli \in Seq(Word)
    BY DEF Typed, History, Queues
  <2>2. /\ taken'[q] = taken[q]
        /\ pe'[q].ps = pe[q].ps \o FromBus(q, "ps")
        /\ pe'[q].pd = pe[q].pd \o PdFromBus(q)
        /\ pe'[q].pli = pe[q].pli \o FromBus(q, "pli") \o FromLink(q)
    BY EdgePe
  <2>3. Lists(taken'[q].ps \o pe'[q].ps, WordsMeant("ps", q, n["ps"]))
    <3>1. Lists(taken[q].ps \o pe[q].ps, WordsMeant("ps", q, Sent("ps")))
      BY DEF Multicast
    <3>2. Lists(taken[q].ps \o (pe[q].ps \o FromBus(q, "ps")),
                WordsMeant("ps", q, SentNext("ps")))
      BY <2>1, <3>1, EdgeLists DEF Send
    <3> QED
      BY <1>4, <2>2, <3>2, Zenon
  <2>4. ListsChunks(taken'[q].pd \o pe'[q].pd, ChunksMeant(q, n["pd"]))
    <3>1. ListsChunks(taken[q].pd \o pe[q].pd, ChunksMeant(q, Sent("pd")))
      BY DEF Multicast
    <3>2. ListsChunks(taken[q].pd \o (pe[q].pd \o PdFromBus(q)), ChunksMeant(q, SentNext("pd")))
      BY <2>1, <3>1, EdgeChunks
    <3> QED
      BY <1>4, <2>2, <3>2, Zenon
  <2>5. ASSUME workload.topology[q].from_bus
        PROVE  Lists(taken'[q].pli \o pe'[q].pli, WordsMeant("pli", q, n["pli"]))
    <3>1. Lists(taken[q].pli \o pe[q].pli, WordsMeant("pli", q, Sent("pli")))
      BY <2>5, Zenon DEF Multicast
    <3>2. Lists(taken[q].pli \o (pe[q].pli \o FromBus(q, "pli")),
                WordsMeant("pli", q, SentNext("pli")))
      BY <2>1, <3>1, EdgeLists DEF Send
    <3>3. FromLink(q) = <<>>
      <4>1. config(q) = workload.topology[q]
        BY ConfigLoaded
      <4> QED
        BY <2>5, <4>1 DEF FromLink, LinkReady
    <3>4. (pe[q].pli \o FromBus(q, "pli")) \o FromLink(q) = pe[q].pli \o FromBus(q, "pli")
      <4>1. FromBus(q, "pli") \in Seq(Word)
        <5>1. CASE Fires("pli")
          <6>1. Sent("pli") + 1 \in Nat
            BY DEF Sent, Typed, Queued, Channel, Send
          <6>2. WordMeant("pli", q, Sent("pli") + 1) \in Word
            BY <6>1, WordIs DEF Channel, Send
          <6>3. PICK w \in Word : w = WordMeant("pli", q, Sent("pli") + 1)
            BY <6>2
          <6>4. FromBus(q, "pli") = IF Meant("pli", q, Sent("pli") + 1) THEN <<w>> ELSE <<>>
            <7>1. "pli" \in Channel
              BY DEF Channel, Send
            <7>2. FromBus(q, "pli") = IF Meant("pli", q, Sent("pli") + 1)
                                      THEN <<WordMeant("pli", q, Sent("pli") + 1)>> ELSE <<>>
              BY <5>1, <7>1, DeliveredIs
            <7> QED
              BY <6>3, <7>2, Zenon
          <6>5. <<w>> \in Seq(Word) /\ <<>> \in Seq(Word)
            OBVIOUS
          <6> QED
            BY <6>4, <6>5, Zenon
        <5>2. CASE ~Fires("pli")
          BY <5>2 DEF FromBus, Delivered
        <5> QED
          BY <5>1, <5>2
      <4>2. PICK b \in Seq(Word) : b = pe[q].pli \o FromBus(q, "pli")
        BY <2>1, <4>1, ConcatProperties
      <4> QED
        BY <3>3, <4>2, ConcatEmptySeq
    <3> QED
      BY <1>4, <2>2, <3>2, <3>4, Zenon
  <2> QED
    BY <2>3, <2>4, <2>5
<1> QED
  BY <1>1, <1>3, <1>5, MulticastNext, Zenon

\* A PE that is read at this edge, and one that holds its answer.
ReadFrom(q) == Reads /\ q[2] \in Receivers("plo", q[1]) /\ accepts_from_bus(q, "plo")
Holds(q) == pe[q].resp # <<>> /\ ~answer_taken(q)

\* What an edge does to the sums and the answer of a PE.
LEMMA EdgeSumsOf ==
  ASSUME Datapath, NEW q \in PE
  PROVE  /\ pe'[q].plo = IF ReadFrom(q) \/ LinkPops(q) THEN Tail(pe[q].plo) ELSE pe[q].plo
         /\ pe'[q].resp = IF ReadFrom(q) THEN <<Head(pe[q].plo)>>
                          ELSE IF Holds(q) THEN pe[q].resp ELSE <<>>
         /\ pe'[q].waits = Holds(q)
<1>1. pe'[q] = PeEdge(q)
  BY DEF Datapath
<1>2. PICK reads \in BOOLEAN : reads = ReadFrom(q)
  BY DEF ReadFrom
<1>3. PICK holds \in BOOLEAN : holds = Holds(q)
  BY DEF Holds
<1>4. PeEdge(q) = [ps |-> pe[q].ps \o FromBus(q, "ps"),
                   pd |-> pe[q].pd \o PdFromBus(q),
                   pli |-> pe[q].pli \o FromBus(q, "pli") \o FromLink(q),
                   plo |-> IF reads \/ LinkPops(q) THEN Tail(pe[q].plo) ELSE pe[q].plo,
                   resp |-> IF reads THEN <<Head(pe[q].plo)>>
                            ELSE IF holds THEN pe[q].resp ELSE <<>>,
                   waits |-> holds]
  BY <1>2, <1>3, Zenon DEF PeEdge, ReadFrom, Holds
<1>5. /\ PeEdge(q).plo = IF reads \/ LinkPops(q) THEN Tail(pe[q].plo) ELSE pe[q].plo
      /\ PeEdge(q).resp = IF reads THEN <<Head(pe[q].plo)>>
                          ELSE IF holds THEN pe[q].resp ELSE <<>>
      /\ PeEdge(q).waits = holds
  BY <1>4
<1> QED
  BY <1>1, <1>2, <1>3, <1>5, Zenon

\* The PEs that are read are those that are meant.
LEMMA ReadFromIs ==
  ASSUME Configured, Loaded, Typed, Queued, NEW q \in PE
  PROVE  /\ ReadFrom(q) <=> Reads /\ Meant("plo", q, Sent("plo") + 1)
         /\ ReadFrom(q) => /\ workload.topology[q].enable /\ workload.topology[q].to_bus
                           /\ pe[q].plo # <<>>
<1>1. "plo" \in Channel /\ config(q) = workload.topology[q] /\ q[1] \in Port
  BY ConfigLoaded DEF Channel, PE
<1>2. CASE ~Reads
  BY <1>2 DEF ReadFrom
<1>3. CASE Reads
  <2>1. Fires("plo") /\ fifo["plo"] # <<>>
    BY <1>3 DEF Reads, Fires
  <2>2. q[2] \in Receivers("plo", q[1]) <=> Meant("plo", q, Sent("plo") + 1)
    BY <1>1, <2>1, ReceiversAre
  <2>3. Meant("plo", q, Sent("plo") + 1) => accepts_from_bus(q, "plo")
    BY <1>1, <2>1, DeliveredIs
  <2>4. accepts_from_bus(q, "plo") =>
          /\ workload.topology[q].enable /\ workload.topology[q].to_bus /\ pe[q].plo # <<>>
    BY <1>1 DEF accepts_from_bus
  <2> QED
    BY <1>3, <2>2, <2>3, <2>4 DEF ReadFrom
<1> QED
  BY <1>2, <1>3

\* The chunks that come to a PE are chunks.
LEMMA PdTyped ==
  ASSUME Configured, Loaded, Typed, Queued, NEW q \in PE, NEW s \in Seq(Chunk)
  PROVE  s \o PdFromBus(q) \in Seq(Chunk)
<1>1. "pd" \in Channel
  BY DEF Channel, Send
<1>2. CASE Delivered(q, "pd")
  <2>1. fifo["pd"] # <<>>
    BY <1>2 DEF Delivered, Fires
  <2>2. PICK k \in Nat : k = Sent("pd") + 1
    BY <1>1, <2>1, ReceiversAre
  <2>3. /\ Word_of(Head(fifo["pd"]), q[1]) = WordMeant("pd", q, k)
        /\ Head(fifo["pd"]) = Numbered(script["pd"][k], k) /\ script["pd"][k] \in Request
    BY <1>1, <2>1, <2>2, ReceiversAre
  <2>4. PICK mask \in SUBSET (1 .. Chunks) : mask = script["pd"][k].mask
    BY <2>3 DEF Request
  <2>5. PICK w \in Word : w = WordMeant("pd", q, k)
    BY <1>1, WordIs
  <2>6. PICK x : x = Pieces(w, mask)
    OBVIOUS
  <2>7. x \in Seq(Chunk)
    BY <2>6, PiecesAre
  <2>8. PdFromBus(q) = x
    <3>1. Head(fifo["pd"]).mask = mask
      BY <2>3, <2>4 DEF Numbered
    <3> QED
      BY <1>2, <2>3, <2>5, <2>6, <3>1, Zenon DEF PdFromBus
  <2> QED
    BY <2>7, <2>8, ConcatProperties
<1>3. CASE ~Delivered(q, "pd")
  <2>1. PdFromBus(q) = <<>>
    BY <1>3 DEF PdFromBus
  <2> QED
    BY <2>1, ConcatEmptySeq
<1> QED
  BY <1>2, <1>3

\* The types of what an edge changes.
LEMMA EdgeTyped ==
  ASSUME Configured, Loaded, Typed, Queued, Datapath, NEW q \in PE
  PROVE  pe'[q] \in Queues
<1>1. /\ pe[q].ps \in Seq(Word) /\ pe[q].pd \in Seq(Chunk) /\ pe[q].pli \in Seq(Word)
      /\ pe[q].plo \in Seq(Word) /\ pe[q].resp \in Seq(Word)
  BY DEF Typed, Queues
<1>2. ASSUME NEW c \in Send PROVE FromBus(q, c) \in Seq(Word)
  <2>1. c \in Channel /\ Sent(c) + 1 \in Nat
    BY DEF Sent, Typed, Queued, Channel
  <2>2. PICK w \in Word : w = WordMeant(c, q, Sent(c) + 1)
    BY <2>1, WordIs
  <2>3. FromBus(q, c) = <<>> \/ FromBus(q, c) = <<w>>
    <3>1. CASE Fires(c)
      BY <2>1, <2>2, <3>1, DeliveredIs
    <3>2. CASE ~Fires(c)
      BY <3>2 DEF FromBus, Delivered
    <3> QED
      BY <3>1, <3>2
  <2>4. <<w>> \in Seq(Word) /\ <<>> \in Seq(Word)
    OBVIOUS
  <2> QED
    BY <2>3, <2>4, Zenon
<1>3. FromLink(q) \in Seq(Word)
  <2>1. CASE q[1] > 0 /\ LinkValid(<<q[1] - 1, q[2]>>) /\ LinkReady(q)
    <3>1. PICK r \in PE : r = <<q[1] - 1, q[2]>>
      BY <2>1, NocAssumption DEF PE, Port
    <3>2. pe[r].plo \in Seq(Word) /\ pe[r].plo # <<>>
      BY <2>1, <3>1 DEF LinkValid, Typed, Queues
    <3>3. FromLink(q) = <<Head(pe[r].plo)>>
      BY <2>1, <3>1 DEF FromLink
    <3> QED
      BY <3>2, <3>3, HeadTailProperties
  <2>2. CASE ~(q[1] > 0 /\ LinkValid(<<q[1] - 1, q[2]>>) /\ LinkReady(q))
    BY <2>2 DEF FromLink
  <2> QED
    BY <2>1, <2>2
<1>4. "ps" \in Send /\ "pli" \in Send
  BY DEF Send
<1>5. pe[q].ps \o FromBus(q, "ps") \in Seq(Word)
  BY <1>1, <1>2, <1>4, ConcatProperties
<1>6. pe[q].pli \o FromBus(q, "pli") \o FromLink(q) \in Seq(Word)
  <2>1. PICK a \in Seq(Word) : a = pe[q].pli \o FromBus(q, "pli")
    BY <1>1, <1>2, <1>4, ConcatProperties
  <2> QED
    BY <1>3, <2>1, ConcatProperties
<1>7. pe[q].pd \o PdFromBus(q) \in Seq(Chunk)
  BY <1>1, PdTyped
<1>8. (ReadFrom(q) \/ LinkPops(q)) => pe[q].plo # <<>>
  BY ReadFromIs DEF LinkPops, LinkValid
<1>9. pe[q].plo # <<>> => Tail(pe[q].plo) \in Seq(Word) /\ <<Head(pe[q].plo)>> \in Seq(Word)
  BY <1>1, HeadTailProperties
<1>10. pe'[q].plo \in Seq(Word) /\ pe'[q].resp \in Seq(Word) /\ pe'[q].waits \in BOOLEAN
  <2>1. <<>> \in Seq(Word)
    OBVIOUS
  <2>2. pe'[q].plo \in Seq(Word)
    BY <1>1, <1>8, <1>9, EdgeSumsOf, Zenon
  <2>3. pe'[q].resp \in Seq(Word)
    BY <1>1, <1>8, <1>9, <2>1, EdgeSumsOf, Zenon
  <2>4. pe'[q].waits = Holds(q) /\ Holds(q) \in BOOLEAN
    BY EdgeSumsOf DEF Holds
  <2> QED
    BY <2>2, <2>3, <2>4
<1>11. /\ pe'[q].ps \in Seq(Word) /\ pe'[q].pd \in Seq(Chunk) /\ pe'[q].pli \in Seq(Word)
  BY <1>5, <1>6, <1>7, EdgePe, Zenon
<1>12. pe'[q] = [ps |-> pe'[q].ps, pd |-> pe'[q].pd, pli |-> pe'[q].pli, plo |-> pe'[q].plo,
                 resp |-> pe'[q].resp, waits |-> pe'[q].waits]
  BY DEF Datapath, PeEdge
<1> QED
  BY <1>10, <1>11, <1>12 DEF Queues

\* The sums that pass from port to port at an edge.
LEMMA EdgeSums ==
  ASSUME Configured, Loaded, Typed, Queued, SumsPassedOn, Datapath
  PROVE  SumsPassedOn'
<1>1. workload' = workload
  BY DEF Datapath
<1>2. ASSUME NEW q \in PE, workload.topology[q].enable, ~workload.topology[q].to_bus,
             NEW to, to = <<q[1] + 1, q[2]>>
      PROVE  taken'[to].pli \o pe'[to].pli \o pe'[q].plo = taken'[q].pli
  <2>1. /\ to \in PE /\ q[1] + 1 \in Port /\ workload.topology[to].enable
        /\ ~workload.topology[to].from_bus
    BY <1>2, LinkedTo
  <2>2. config(q) = workload.topology[q] /\ config(to) = workload.topology[to]
    BY <2>1, ConfigLoaded
  <2>3. <<to[1] - 1, to[2]>> = q /\ to[1] > 0
    <3>1. q[1] \in Nat /\ q = <<q[1], q[2]>>
      BY NocAssumption DEF PE, Port
    <3> QED
      BY <1>2, <3>1
  <2>4. PICK t \in Seq(Word), u \in Seq(Word), s \in Seq(Word) :
          t = taken[to].pli /\ u = pe[to].pli /\ s = pe[q].plo
    BY <2>1 DEF Typed, History, Queues
  <2>5. t \o u \o s = taken[q].pli
    BY <1>2, <2>4 DEF SumsPassedOn
  <2>6. FromBus(to, "pli") = <<>>
    BY <2>2, <2>1 DEF FromBus, Delivered, accepts_from_bus
  <2>7. ~ReadFrom(q)
    BY <1>2, ReadFromIs
  <2>8. LinkPops(q) <=> LinkValid(q) /\ LinkReady(to)
    BY <1>2, <2>1 DEF LinkPops
  <2>9. taken'[to] = taken[to] /\ taken'[q] = taken[q]
    BY <2>1, EdgePe
  <2>10. /\ pe'[to].pli = pe[to].pli \o FromBus(to, "pli") \o FromLink(to)
         /\ pe'[q].plo = IF ReadFrom(q) \/ LinkPops(q) THEN Tail(pe[q].plo) ELSE pe[q].plo
    BY <2>1, EdgePe, EdgeSumsOf
  <2>11. u \o <<>> = u
    BY ConcatEmptySeq
  <2>12. CASE LinkPops(q)
    <3>1. s # <<>> /\ FromLink(to) = <<Head(s)>>
      BY <2>3, <2>4, <2>8, <2>12 DEF FromLink, LinkValid
    <3>2. PICK w \in Word, r \in Seq(Word) : w = Head(s) /\ r = Tail(s)
      BY <3>1, HeadTailProperties
    <3>3. pe'[to].pli = u \o <<w>> /\ pe'[q].plo = r
      BY <2>4, <2>6, <2>10, <2>11, <2>12, <3>1, <3>2, Zenon
    <3>4. t \o (u \o <<w>>) = Append(t \o u, w) /\ t \o u \in Seq(Word)
      BY GetsOne
    <3>5. Append(t \o u, Head(s)) \o Tail(s) = (t \o u) \o s
      <4>1. PICK v \in Seq(Word) : v = t \o u
        BY <3>4
      <4>2. Append(v, Head(s)) \o Tail(s) = v \o s
        BY <3>1, HandOne
      <4> QED
        BY <4>1, <4>2, Zenon
    <3> QED
      BY <2>4, <2>5, <2>9, <3>2, <3>3, <3>4, <3>5, Zenon
  <2>13. CASE ~LinkPops(q)
    <3>1. FromLink(to) = <<>>
      BY <2>3, <2>8, <2>13, Zenon DEF FromLink
    <3>2. pe'[to].pli = u /\ pe'[q].plo = s
      BY <2>4, <2>6, <2>7, <2>10, <2>11, <2>13, <3>1, Zenon
    <3> QED
      BY <2>4, <2>5, <2>9, <3>2, Zenon
  <2> QED
    BY <2>12, <2>13
<1> QED
  BY <1>1, <1>2, Zenon DEF SumsPassedOn

\* The reads of a PE after an edge.
LEMMA EdgeReads ==
  ASSUME Configured, Loaded, Typed, Queued, NEW q \in PE
  PROVE  /\ ReadsOf(q) \in Nat
         /\ Cardinality(RequestsMeant("plo", q, SentNext("plo"))) =
              IF ReadFrom(q) THEN ReadsOf(q) + 1 ELSE ReadsOf(q)
<1>1. PICK k \in Nat : k = Sent("plo")
  BY DEF Sent, Typed, Queued, Channel
<1>2. ReadsOf(q) \in Nat
  BY <1>1, RequestsCount DEF ReadsOf
<1>3. CASE Reads
  <2>1. SentNext("plo") = k + 1
    BY <1>1, <1>3 DEF SentNext, Leaves
  <2>2. ReadFrom(q) <=> Meant("plo", q, k + 1)
    BY <1>1, <1>3, ReadFromIs
  <2>3. Meant("plo", q, k + 1) => Cardinality(RequestsMeant("plo", q, k + 1)) =
                                  Cardinality(RequestsMeant("plo", q, k)) + 1
    BY <1>1, RequestsCount
  <2>4. ~Meant("plo", q, k + 1) => RequestsMeant("plo", q, k + 1) = RequestsMeant("plo", q, k)
    BY <1>1, RequestsNext
  <2> QED
    BY <1>1, <1>2, <2>1, <2>2, <2>3, <2>4, Zenon DEF ReadsOf
<1>4. CASE ~Reads
  <2>1. SentNext("plo") = k /\ ~ReadFrom(q)
    BY <1>1, <1>4 DEF SentNext, Leaves, Send, ReadFrom
  <2> QED
    BY <1>1, <1>2, <2>1 DEF ReadsOf
<1> QED
  BY <1>3, <1>4

\* What is left of a sequence.
LEMMA LeftOf ==
  ASSUME NEW S, NEW t \in Seq(S), NEW n \in Nat, n <= Len(t),
         NEW s, s = SubSeq(t, n + 1, Len(t)), s # <<>>
  PROVE  /\ n + 1 \in 1 .. Len(t) /\ Head(s) = t[n + 1]
         /\ Tail(s) = SubSeq(t, (n + 1) + 1, Len(t))
<1>1. PICK l \in Nat : l = Len(t) /\ n <= l
  BY LenProperties
<1>2. \A i \in n + 1 .. l : t[i] \in S
  BY <1>1, ElementOfSeq
<1>3. /\ s \in Seq(S) /\ Len(s) = l - n
      /\ \A i \in 1 .. l - n : s[i] = t[n + i]
  <2>1. s = [i \in 1 .. l - n |-> t[n + i]]
    BY <1>1
  <2>2. \A i \in 1 .. l - n : n + i \in n + 1 .. l
    BY <1>1
  <2>3. \A i \in 1 .. l - n : t[n + i] \in S
    BY <1>2, <2>2
  <2>4. l - n \in Nat
    BY <1>1
  <2> QED
    BY <2>1, <2>3, <2>4
<1>4. l - n # 0 /\ l - n \in Nat
  BY <1>1, <1>3, EmptySeq
<1>5. n + 1 \in 1 .. l /\ Head(s) = t[n + 1]
  <2>1. 1 \in 1 .. l - n /\ s[1] = t[n + 1]
    BY <1>3, <1>4
  <2> QED
    BY <1>1, <1>3, <1>4, <2>1, HeadTailProperties
<1>6. PICK u \in Seq(S) : u = Tail(s) /\ Len(u) = (l - n) - 1
                          /\ \A i \in 1 .. (l - n) - 1 : u[i] = s[i + 1]
  <2>1. /\ Tail(s) \in Seq(S) /\ Len(Tail(s)) = (l - n) - 1
        /\ \A i \in 1 .. (l - n) - 1 : Tail(s)[i] = s[i + 1]
    BY <1>3, <1>4, HeadTailProperties
  <2> QED
    BY <2>1
<1>7. u = [i \in 1 .. (l - n) - 1 |-> t[(n + 1) + i]]
  <2>1. u = [i \in 1 .. (l - n) - 1 |-> u[i]]
    BY <1>6, SMTT(30)
  <2>2. ASSUME NEW i \in 1 .. (l - n) - 1 PROVE u[i] = t[(n + 1) + i]
    <3>1. i + 1 \in 1 .. l - n /\ n + (i + 1) = (n + 1) + i
      BY <1>4
    <3> QED
      BY <1>3, <1>6, <3>1
  <2> QED
    BY <2>1, <2>2, Zenon
<1>8. SubSeq(t, (n + 1) + 1, l) = [i \in 1 .. (l - n) - 1 |-> t[(n + 1) + i]]
  <2>1. 1 .. (l - ((n + 1) + 1)) + 1 = 1 .. (l - n) - 1
    BY <1>1
  <2>2. \A i \in 1 .. (l - n) - 1 : ((n + 1) + 1 + i) - 1 = (n + 1) + i
    OBVIOUS
  <2> QED
    BY <1>1, <1>4, <2>1, <2>2
<1> QED
  BY <1>1, <1>5, <1>6, <1>7, <1>8

\* A sum that is read, or not.
LEMMA EdgeKept ==
  ASSUME Configured, Loaded, Typed, Queued, Kept, Datapath
  PROVE  Kept'
<1>1. workload' = workload /\ offered'["plo"] - Len(fifo'["plo"]) = SentNext("plo")
  BY EdgeQueues DEF Datapath, Channel
<1>2. ASSUME NEW q \in PE, workload.topology[q].enable, workload.topology[q].to_bus,
             NEW m, m = Cardinality(RequestsMeant("plo", q, SentNext("plo")))
      PROVE  /\ m <= Len(taken'[q].pli)
             /\ pe'[q].plo = SubSeq(taken'[q].pli, m + 1, Len(taken'[q].pli))
  <2>1. PICK t \in Seq(Word), s \in Seq(Word) : t = taken[q].pli /\ s = pe[q].plo
    BY DEF Typed, History, Queues
  <2>2. PICK n \in Nat : n = ReadsOf(q) /\ m = IF ReadFrom(q) THEN n + 1 ELSE n
    BY <1>2, EdgeReads
  <2>3. n <= Len(t) /\ s = SubSeq(t, n + 1, Len(t))
    BY <1>2, <2>1, <2>2 DEF Kept
  <2>4. ~LinkPops(q)
    BY <1>2, ConfigLoaded DEF LinkPops, LinkValid
  <2>5. taken'[q].pli = t /\ pe'[q].plo = IF ReadFrom(q) THEN Tail(s) ELSE s
    BY <2>1, <2>4, EdgePe, EdgeSumsOf
  <2>6. CASE ReadFrom(q)
    <3>1. s # <<>>
      BY <2>1, <2>6, ReadFromIs
    <3>2. n + 1 \in 1 .. Len(t) /\ Tail(s) = SubSeq(t, (n + 1) + 1, Len(t))
      BY <2>3, <3>1, LeftOf
    <3>3. n + 1 <= Len(t)
      BY <3>2
    <3> QED
      BY <2>2, <2>5, <2>6, <3>2, <3>3, Zenon
  <2>7. CASE ~ReadFrom(q)
    BY <2>2, <2>3, <2>5, <2>7, Zenon
  <2> QED
    BY <2>6, <2>7
<1> QED
  BY <1>1, <1>2, KeptNext, Zenon

\* The rows that are asked are those whose answer may pass.
LEMMA TargetsAre ==
  ASSUME Configured, Loaded, Typed, Queued, Reads, NEW p \in Port
  PROVE  Targets("plo", Head(fifo["plo"]).tag, p) = Readers(Sent("plo") + 1, p)
<1>1. fifo["plo"] # <<>> /\ "plo" \in Channel
  BY DEF Reads, Fires, Channel
<1>2. PICK k : k = Sent("plo") + 1 /\ script["plo"][k] \in Request
  BY <1>1, ReceiversAre
<1>3. Head(fifo["plo"]).tag = script["plo"][k].tag
  <2>1. Head(fifo["plo"]) = Numbered(script["plo"][k], k)
    BY <1>1, <1>2, ReceiversAre
  <2> QED
    BY <2>1 DEF Numbered
<1>4. PICK m \in Nat : m = NUM_PES /\ active \in 1 .. m
  BY WorkloadRuns
<1>5. ASSUME NEW r
      PROVE  r \in Targets("plo", Head(fifo["plo"]).tag, p) <=> r \in Readers(k, p)
  <2>1. r \in Row /\ r < active <=> r \in 0 .. active - 1
    BY <1>4 DEF Row
  <2>2. ASSUME r \in 0 .. active - 1
        PROVE  (config(<<p, r>>).enable /\ config(<<p, r>>).id["plo"] = script["plo"][k].tag)
               <=> Meant("plo", <<p, r>>, k)
    <3>1. <<p, r>> \in PE /\ r < active
      BY <2>1, <2>2 DEF PE
    <3>2. config(<<p, r>>) = workload.topology[<<p, r>>]
      BY <3>1, ConfigLoaded
    <3>3. role(<<p, r>>) = <<p, r>>
      BY <3>1 DEF role
    <3> QED
      BY <3>2, <3>3 DEF Meant
  <2> QED
    BY <1>3, <2>1, <2>2 DEF Targets, Readers
<1> QED
  BY <1>2, <1>5, Zenon

\* What answers, when the answers stand.
LEMMA AnsweringIs ==
  ASSUME Configured, Standing, pending.read, NEW p \in Port
  PROVE  /\ Answering(p) = Readers(Sent("plo"), p) /\ rx_mask[p] = Readers(Sent("plo"), p)
         /\ \A r \in Readers(Sent("plo"), p) :
              /\ <<p, r>> \in PE /\ r < active /\ r \in 0 .. NUM_PES
              /\ Meant("plo", <<p, r>>, Sent("plo"))
              /\ workload.topology[<<p, r>>].to_bus
              /\ ReadsOf(<<p, r>>) \in 1 .. Len(taken[<<p, r>>].pli)
              /\ pe[<<p, r>>].resp = <<taken[<<p, r>>].pli[ReadsOf(<<p, r>>)]>>
<1>1. rx_mask[p] = Readers(Sent("plo"), p)
  BY DEF Standing
<1>2. ASSUME NEW r \in Readers(Sent("plo"), p)
      PROVE  /\ <<p, r>> \in PE /\ r < active /\ r \in 0 .. NUM_PES
             /\ Meant("plo", <<p, r>>, Sent("plo"))
             /\ workload.topology[<<p, r>>].to_bus
             /\ ReadsOf(<<p, r>>) \in 1 .. Len(taken[<<p, r>>].pli)
             /\ pe[<<p, r>>].resp = <<taken[<<p, r>>].pli[ReadsOf(<<p, r>>)]>>
  <2>1. r \in 0 .. active - 1 /\ Meant("plo", <<p, r>>, Sent("plo"))
    BY DEF Readers
  <2>2. PICK m \in Nat : m = NUM_PES /\ active \in 1 .. m
    BY WorkloadRuns
  <2>3. <<p, r>> \in PE /\ r < active /\ r \in 0 .. NUM_PES
    BY <2>1, <2>2 DEF PE, Row
  <2>4. PICK q \in PE : q = <<p, r>> /\ q[1] = p /\ q[2] = r
    BY <2>3
  <2>5. /\ workload.topology[q].to_bus /\ ReadsOf(q) \in 1 .. Len(taken[q].pli)
        /\ pe[q].resp = <<taken[q].pli[ReadsOf(q)]>>
    BY <1>1, <2>3, <2>4, Zenon DEF Standing
  <2> QED
    BY <2>1, <2>3, <2>4, <2>5
<1>3. Answering(p) = Readers(Sent("plo"), p)
  <2>1. ASSUME NEW r \in Readers(Sent("plo"), p) PROVE pe[<<p, r>>].resp # <<>>
    <3>1. PICK w : pe[<<p, r>>].resp = <<w>>
      BY <1>2
    <3>2. <<w>> # <<>>
      OBVIOUS
    <3> QED
      BY <3>1, <3>2, Zenon
  <2> QED
    BY <1>1, <2>1, Zenon DEF Answering
<1> QED
  BY <1>1, <1>2, <1>3

\* An answer is collected only when the answers stand.
LEMMA CollectsStanding ==
  ASSUME Standing \/ Stuck, Collects
  PROVE  Standing
<1>1. PICK p \in Port : Answering(p) # {}
  <2>1. 0 \in Port
    BY NocAssumption DEF Port
  <2> QED
    BY <2>1 DEF Collects, all_valid
<1>2. rx_mask[p] # {}
  BY <1>1 DEF Answering
<1> QED
  BY <1>2 DEF Stuck

\* The answers stand for one edge, or for ever.
LEMMA EdgeStanding ==
  ASSUME Configured, Loaded, Typed, Queued, Kept, Standing \/ Stuck, Datapath
  PROVE  (Standing \/ Stuck)'
<1>1. workload' = workload /\ offered'["plo"] - Len(fifo'["plo"]) = SentNext("plo")
  BY EdgeQueues DEF Datapath, Channel
<1>2. /\ pending' = IF rx_stall THEN pending
                    ELSE [read |-> Reads, ultra |-> Reads /\ Head(fifo["plo"]).ultra]
      /\ rx_mask' = [p \in Port |->
                       IF Reads THEN Targets("plo", Head(fifo["plo"]).tag, p) ELSE {}]
  BY Zenon DEF Datapath, RouterEdge
<1>3. CASE rx_stall
  <2>1. ~Reads /\ pending.read
    BY <1>3 DEF Reads, rx_stall
  <2> QED
    BY <1>2, <1>3, <2>1 DEF Stuck
<1>4. CASE ~rx_stall
  <2>1. PICK reads \in BOOLEAN : reads = Reads
    BY DEF Reads
  <2>2. PICK n : n = SentNext("plo") /\ n = IF reads THEN Sent("plo") + 1 ELSE Sent("plo")
    BY <2>1, Zenon DEF SentNext, Leaves, Send
  <2>3. pending'.read = reads /\ (pending'.ultra <=> reads /\ Head(fifo["plo"]).ultra)
    <3>1. PICK ultra \in BOOLEAN : ultra = (Reads /\ Head(fifo["plo"]).ultra)
      OBVIOUS
    <3>2. pending' = [read |-> reads, ultra |-> ultra]
      BY <1>2, <1>4, <2>1, <3>1, Zenon
    <3> QED
      BY <2>1, <3>1, <3>2
  <2>4. ASSUME NEW p \in Port
        PROVE  rx_mask'[p] = IF reads THEN Readers(n, p) ELSE {}
    BY <1>2, <2>1, <2>2, TargetsAre
  <2>5. ASSUME reads PROVE Head(fifo["plo"]).ultra <=> script["plo"][n].ultra
    <3>1. fifo["plo"] # <<>> /\ "plo" \in Channel
      BY <2>1, <2>5 DEF Reads, Fires, Channel
    <3>2. Head(fifo["plo"]) = Numbered(script["plo"][n], n)
      BY <2>2, <2>5, <3>1, ReceiversAre
    <3> QED
      BY <3>2 DEF Numbered
  <2>6. ASSUME NEW q \in PE, q[2] < active
        PROVE  q[2] \in rx_mask'[q[1]] <=> ReadFrom(q)
    <3>1. q[1] \in Port /\ q[2] \in Row /\ q = <<q[1], q[2]>>
      BY DEF PE
    <3>2. q[2] \in 0 .. active - 1
      BY <2>6, <3>1, WorkloadRuns DEF Row
    <3>3. q[2] \in Readers(n, q[1]) <=> Meant("plo", q, n)
      BY <3>1, <3>2 DEF Readers
    <3>4. ReadFrom(q) <=> reads /\ Meant("plo", q, n)
      BY <2>1, <2>2, ReadFromIs
    <3> QED
      BY <2>4, <3>1, <3>3, <3>4
  <2>7. ASSUME NEW q \in PE, q[2] < active, Holds(q) PROVE FALSE
    <3>1. q[1] \in Port /\ q = <<q[1], q[2]>> /\ pe[q].resp # <<>> /\ ~answer_taken(q)
      BY <2>7 DEF PE, Holds
    <3>2. CASE Standing
      <4>1. q[2] \in rx_mask[q[1]]
        BY <2>7, <3>1, <3>2, Zenon DEF Standing
      <4>2. Answering(q[1]) # {}
        BY <3>1, <4>1 DEF Answering
      <4>3. pending.read
        BY <3>1, <3>2, <4>1 DEF Standing
      <4>4. Collects
        BY <1>4, <4>3 DEF rx_stall
      <4> QED
        BY <3>1, <4>1, <4>2, <4>4 DEF answer_taken
    <3>3. CASE Stuck
      <4>1. Collects
        BY <1>4, <3>3 DEF rx_stall, Stuck
      <4> QED
        BY <3>2, <4>1, CollectsStanding
    <3> QED
      BY <3>2, <3>3
  <2>8. ASSUME NEW q \in PE, q[2] < active, q[2] \notin rx_mask'[q[1]]
        PROVE  pe'[q].resp = <<>>
    <3>1. ~ReadFrom(q) /\ ~Holds(q)
      BY <2>6, <2>7, <2>8
    <3> QED
      BY <3>1, EdgeSumsOf, Zenon
  <2>9. ASSUME NEW q \in PE, q[2] < active, q[2] \in rx_mask'[q[1]],
               NEW m, m = Cardinality(RequestsMeant("plo", q, n))
        PROVE  /\ workload.topology[q].enable /\ workload.topology[q].to_bus
               /\ m \in 1 .. Len(taken'[q].pli)
               /\ pe'[q].resp = <<taken'[q].pli[m]>>
    <3>1. ReadFrom(q)
      BY <2>6, <2>9
    <3>2. workload.topology[q].enable /\ workload.topology[q].to_bus /\ pe[q].plo # <<>>
      BY <3>1, ReadFromIs
    <3>3. PICK t \in Seq(Word), s \in Seq(Word) : t = taken[q].pli /\ s = pe[q].plo
      BY DEF Typed, History, Queues
    <3>4. PICK k \in Nat : k = ReadsOf(q) /\ m = k + 1
      BY <2>2, <2>9, <3>1, EdgeReads
    <3>5. k <= Len(t) /\ s = SubSeq(t, k + 1, Len(t))
      BY <3>2, <3>3, <3>4 DEF Kept
    <3>6. m \in 1 .. Len(t) /\ Head(s) = t[m]
      BY <3>2, <3>3, <3>4, <3>5, LeftOf
    <3>7. taken'[q].pli = t /\ pe'[q].resp = <<Head(s)>>
      BY <3>1, <3>3, EdgePe, EdgeSumsOf
    <3> QED
      BY <3>2, <3>6, <3>7
  <2>10. Standing'
    <3>1. \A p \in Port : rx_mask'[p] = IF pending'.read THEN Readers(n, p) ELSE {}
      BY <2>3, <2>4
    <3>2. pending'.read => (pending'.ultra <=> script["plo"][n].ultra)
      BY <2>3, <2>5
    <3>3. \A q \in PE : q[2] < active /\ q[2] \notin rx_mask'[q[1]] => pe'[q].resp = <<>>
      BY <2>8
    <3>4. \A q \in PE : q[2] < active /\ q[2] \in rx_mask'[q[1]] =>
            LET m == Cardinality(RequestsMeant("plo", q, n))
            IN  /\ workload.topology[q].enable /\ workload.topology[q].to_bus
                /\ m \in 1 .. Len(taken'[q].pli)
                /\ pe'[q].resp = <<taken'[q].pli[m]>>
      BY <2>9, Zenon
    <3>5. offered'["plo"] - Len(fifo'["plo"]) = n
      BY <1>1, <2>2
    <3> QED
      BY <1>1, <3>1, <3>2, <3>3, <3>4, <3>5, StandingNext
  <2> QED
    BY <2>10
<1> QED
  BY <1>3, <1>4

\* The answer of a port is the sum of the row that read.
LEMMA BusAnswer ==
  ASSUME Configured, Typed, Standing, pending.read, NEW p \in Port, Answering(p) # {}
  PROVE  /\ bus_answer(p) \in Word
         /\ GivenBy(taken, bus_answer(p), Sent("plo"), Reader(Sent("plo"), p))
<1>1. PICK k : k = Sent("plo")
  OBVIOUS
<1>2. Answering(p) = Readers(k, p)
  BY <1>1, AnsweringIs
<1>3. PICK r : r = Max(Readers(k, p))
  OBVIOUS
<1>4. r \in Readers(k, p)
  <2>1. \A x \in Readers(k, p) : x \in 0 .. NUM_PES
    BY <1>1, AnsweringIs
  <2>2. NUM_PES \in Nat
    BY NocAssumption
  <2>3. Readers(k, p) \subseteq 0 .. NUM_PES /\ Readers(k, p) # {}
    BY <1>2, <2>1
  <2> QED
    BY <1>3, <2>2, <2>3, MaxOf
<1>5. PICK q \in PE : q = <<p, r>> /\ q[2] = r
  BY <1>1, <1>4, AnsweringIs
<1>6. /\ q[2] < active /\ Meant("plo", q, k) /\ workload.topology[q].to_bus
      /\ ReadsOf(q) \in 1 .. Len(taken[q].pli)
      /\ pe[q].resp = <<taken[q].pli[ReadsOf(q)]>>
  BY <1>1, <1>4, <1>5, AnsweringIs
<1>7. PICK w \in Word : w = taken[q].pli[ReadsOf(q)]
  <2>1. taken[q].pli \in Seq(Word)
    BY DEF Typed, History
  <2> QED
    BY <1>6, <2>1, ElementOfSeq
<1>8. bus_answer(p) = w
  <2>1. bus_answer(p) = Head(pe[q].resp)
    BY <1>2, <1>3, <1>5, Zenon DEF bus_answer
  <2>2. Head(<<w>>) = w
    OBVIOUS
  <2> QED
    BY <1>6, <1>7, <2>1, <2>2, Zenon
<1>9. Reader(k, p) = q
  BY <1>3, <1>5 DEF Reader
<1>10. GivenBy(taken, w, k, q)
  BY <1>1, <1>6, <1>7, Zenon DEF GivenBy, ReadsOf
<1> QED
  BY <1>1, <1>8, <1>9, <1>10, Zenon

\* What is collected is the answer to the pending read.
LEMMA AnswerIs ==
  ASSUME Configured, Typed, Standing, Collects
  PROVE  answer \in Seq(Word) /\ Answers(taken, answer, Sent("plo"))
<1>1. PICK k : k = Sent("plo")
  OBVIOUS
<1>2. pending.read /\ all_valid /\ (pending.ultra <=> script["plo"][k].ultra)
  BY <1>1 DEF Collects, Standing
<1>3. PICK n \in Nat \ {0} : n = NUM_PORTS /\ Port = 0 .. n - 1
  BY NocAssumption DEF Port
<1>4. ASSUME NEW p \in Port, Answering(p) # {}
      PROVE  bus_answer(p) \in Word /\ GivenBy(taken, bus_answer(p), k, Reader(k, p))
  BY <1>1, <1>2, <1>4, BusAnswer
<1>5. CASE pending.ultra
  <2>1. PICK a : a = [i \in 1 .. n |-> bus_answer(i - 1)]
    OBVIOUS
  <2>2. answer = a
    BY <1>3, <1>5, <2>1 DEF answer
  <2>3. \A p \in Port : Answering(p) # {}
    BY <1>2, <1>5 DEF all_valid
  <2>4. ASSUME NEW i \in 1 .. n PROVE bus_answer(i - 1) \in Word
    <3>1. i - 1 \in Port
      BY <1>3
    <3> QED
      BY <1>4, <2>3, <3>1
  <2>5. a \in Seq(Word) /\ Len(a) = n
    BY <2>1, <2>4
  <2>6. ASSUME NEW p \in Port PROVE GivenBy(taken, a[p + 1], k, Reader(k, p))
    <3>1. p + 1 \in 1 .. n /\ (p + 1) - 1 = p
      BY <1>3
    <3>2. a[p + 1] = bus_answer(p)
      BY <2>1, <3>1
    <3> QED
      BY <1>4, <2>3, <3>2
  <2> QED
    BY <1>1, <1>2, <1>3, <1>5, <2>2, <2>5, <2>6 DEF Answers
<1>6. CASE ~pending.ultra
  <2>1. PICK P \in SUBSET Port : P = {p \in Port : Answering(p) # {}} /\ P # {}
    BY <1>2, <1>6 DEF all_valid
  <2>2. P = {p \in Port : Readers(k, p) # {}}
    <3>1. \A p \in Port : Answering(p) = Readers(k, p)
      BY <1>1, <1>2, AnsweringIs
    <3> QED
      BY <2>1, <3>1
  <2>3. PICK p \in Port : p = Max(P) /\ Answering(p) # {}
    <3>1. P \subseteq 0 .. n - 1 /\ n - 1 \in Nat
      BY <1>3
    <3>2. Max(P) \in P
      BY <2>1, <3>1, MaxOf
    <3> QED
      BY <2>1, <3>2
  <2>4. PICK w \in Word : w = bus_answer(p) /\ GivenBy(taken, w, k, Reader(k, p))
    BY <1>4, <2>3
  <2>5. answer = <<w>>
    BY <1>6, <2>1, <2>3, <2>4, Zenon DEF answer
  <2>6. <<w>> \in Seq(Word) /\ Len(<<w>>) = 1 /\ <<w>>[1] = w
    OBVIOUS
  <2>7. GivenBy(taken, <<w>>[1], k, Reader(k, Max({x \in Port : Readers(k, x) # {}})))
    BY <2>2, <2>3, <2>4, <2>6, Zenon
  <2>8. Answers(taken, <<w>>, k)
    BY <1>2, <1>6, <2>6, <2>7, Zenon DEF Answers
  <2> QED
    BY <1>1, <2>5, <2>6, <2>8, Zenon
<1> QED
  BY <1>5, <1>6

\* An answer more, or none.
LEMMA EdgeAnswered ==
  ASSUME Configured, Loaded, Typed, Queued, Standing \/ Stuck, Numbering, Answered, Datapath
  PROVE  Answered' /\ Numbering' /\ resp_fifo' \in Seq(Seq(Word))
<1>1. /\ workload' = workload /\ answers' = answers /\ taken' = taken
      /\ offered'["plo"] - Len(fifo'["plo"]) = SentNext("plo")
  BY EdgeQueues DEF Datapath, Channel
<1>2. PICK a \in Nat, r \in Nat : a = Len(answers) /\ r = Len(resp_fifo)
  BY DEF Typed
<1>3. PICK k \in Nat : k = Sent("plo") /\ k = a + r + IF pending.read THEN 1 ELSE 0
  BY <1>2 DEF Numbering
<1>4. resp_fifo' = IF Collects THEN Append(resp_fifo, answer) ELSE resp_fifo
  BY Zenon DEF Datapath, RouterEdge
<1>5. pending'.read = IF rx_stall THEN TRUE ELSE Reads
  <2>1. pending' = IF rx_stall THEN pending
                   ELSE [read |-> Reads, ultra |-> Reads /\ Head(fifo["plo"]).ultra]
    BY Zenon DEF Datapath, RouterEdge
  <2>2. CASE rx_stall
    BY <2>1, <2>2 DEF rx_stall, Typed
  <2>3. CASE ~rx_stall
    <3>1. PICK reads \in BOOLEAN : reads = Reads
      BY DEF Reads
    <3>2. PICK ultra : ultra = (Reads /\ Head(fifo["plo"]).ultra)
      OBVIOUS
    <3>3. pending' = [read |-> reads, ultra |-> ultra]
      BY <2>1, <2>3, <3>1, <3>2, Zenon
    <3>4. pending'.read = reads
      BY <3>3
    <3> QED
      BY <2>3, <3>1, <3>4, Zenon
  <2> QED
    BY <2>2, <2>3
<1>6. rx_stall => ~Reads /\ pending.read /\ ~Collects
  BY DEF rx_stall, Reads
<1>7. ~rx_stall => (Collects <=> pending.read)
  BY DEF rx_stall, Collects
<1>8. SentNext("plo") = IF Reads THEN k + 1 ELSE k
  BY <1>3 DEF SentNext, Leaves, Send
<1>9. answers \in Seq(Seq(Word)) /\ resp_fifo \in Seq(Seq(Word))
  BY DEF Typed
<1>10. CASE ~Collects
  <2>1. resp_fifo' = resp_fifo
    BY <1>4, <1>10
  <2>2. Answered'
    <3>1. \A j \in 1 .. Len(answers') + Len(resp_fifo') :
            Answers(taken', (answers' \o resp_fifo')[j], j)
      BY <1>1, <2>1, Zenon DEF Answered
    <3> QED
      BY <1>1, <3>1, AnsweredNext
  <2>3. Numbering'
    <3>1. Sent("plo")' = Len(answers') + Len(resp_fifo') + IF pending'.read THEN 1 ELSE 0
      <4>1. Sent("plo")' = SentNext("plo") /\ Len(answers') = a /\ Len(resp_fifo') = r
        BY <1>1, <1>2, <2>1 DEF Sent
      <4> QED
        BY <1>3, <1>5, <1>6, <1>7, <1>8, <1>10, <4>1
    <3> QED
      BY <3>1 DEF Numbering
  <2> QED
    BY <1>9, <2>1, <2>2, <2>3
<1>11. CASE Collects
  <2>1. pending.read /\ ~rx_stall /\ k = a + r + 1
    BY <1>3, <1>11 DEF Collects, rx_stall
  <2>2. PICK w \in Seq(Word) : w = answer /\ Answers(taken, w, k)
    <3>1. Standing
      BY <1>11, CollectsStanding
    <3> QED
      BY <1>3, <1>11, <3>1, AnswerIs
  <2>3. PICK f \in Seq(Seq(Word)) : /\ f = resp_fifo' /\ f = Append(resp_fifo, w)
                                    /\ Len(f) = r + 1
    <3>1. Append(resp_fifo, w) \in Seq(Seq(Word)) /\ Len(Append(resp_fifo, w)) = r + 1
      BY <1>2, <1>9, AppendProperties
    <3> QED
      BY <1>4, <1>11, <2>2, <3>1, Zenon
  <2>4. Numbering'
    <3>1. Sent("plo")' = SentNext("plo") /\ Len(answers') = a /\ Len(resp_fifo') = r + 1
      BY <1>1, <1>2, <2>3 DEF Sent
    <3>2. SentNext("plo") = a + (r + 1) + IF pending'.read THEN 1 ELSE 0
      <4>1. CASE Reads
        <5>1. pending'.read
          BY <1>5, <4>1, Zenon
        <5> QED
          BY <1>8, <2>1, <4>1, <5>1
      <4>2. CASE ~Reads
        <5>1. ~pending'.read
          BY <1>5, <2>1, <4>2, Zenon
        <5> QED
          BY <1>8, <2>1, <4>2, <5>1
      <4> QED
        BY <4>1, <4>2
    <3> QED
      BY <3>1, <3>2, Zenon DEF Numbering
  <2>5. PICK g \in Seq(Seq(Word)) : /\ g = answers \o resp_fifo /\ Len(g) = a + r
                                    /\ answers \o f = Append(g, w)
    <3>1. f = resp_fifo \o <<w>> /\ <<w>> \in Seq(Seq(Word))
      BY <1>9, <2>3, AppendIsConcat
    <3>2. answers \o (resp_fifo \o <<w>>) = Append(answers \o resp_fifo, w)
          /\ answers \o resp_fifo \in Seq(Seq(Word))
      BY <1>9, GetsOne
    <3>3. Len(answers \o resp_fifo) = a + r
      BY <1>2, <1>9, ConcatProperties
    <3> QED
      BY <3>1, <3>2, <3>3, Zenon
  <2>6. /\ \A i \in 1 .. a + r : Append(g, w)[i] = g[i]
        /\ Append(g, w)[(a + r) + 1] = w
    BY <2>5, AppendProperties
  <2>7. ASSUME NEW j \in 1 .. a + (r + 1) PROVE Answers(taken, Append(g, w)[j], j)
    <3>1. CASE j = k
      BY <2>1, <2>2, <2>6, <3>1
    <3>2. CASE j # k
      <4>1. j \in 1 .. a + r
        BY <2>1, <3>2
      <4>2. Answers(taken, g[j], j)
        BY <1>2, <2>5, <4>1, Zenon DEF Answered
      <4> QED
        BY <2>6, <4>1, <4>2, Zenon
    <3> QED
      BY <3>1, <3>2
  <2>8. Answered'
    <3>1. \A j \in 1 .. Len(answers') + Len(resp_fifo') :
            Answers(taken', (answers' \o resp_fifo')[j], j)
      BY <1>1, <1>2, <2>3, <2>5, <2>7, Zenon
    <3> QED
      BY <1>1, <3>1, AnsweredNext
  <2> QED
    BY <2>3, <2>4, <2>8
<1> QED
  BY <1>10, <1>11

\* An edge of a network at work.
LEMMA EdgeWorks ==
  ASSUME Configured, Loaded, Working, Datapath
  PROVE  Working'
<1>1. Typed /\ Queued /\ Multicast /\ SumsPassedOn /\ Kept /\ Numbering /\ Answered
  BY DEF Working
<1>2. Standing \/ Stuck
  BY DEF Working
<1>3. Queued' /\ Multicast' /\ SumsPassedOn' /\ Kept'
  BY <1>1, EdgeQueues, EdgeMulticast, EdgeSums, EdgeKept
<1>4. Answered' /\ Numbering' /\ resp_fifo' \in Seq(Seq(Word))
  BY <1>1, <1>2, EdgeAnswered
<1>5. (Standing \/ Stuck)'
  BY <1>1, <1>2, EdgeStanding
<1>6. Typed'
  <2>1. offered' \in [Channel -> Nat] /\ fifo' \in [Channel -> Seq(NumberedRequest)]
    BY <1>1, EdgeQueues
  <2>2. pe' \in [PE -> Queues]
    <3>1. pe' = [q \in PE |-> PeEdge(q)]
      BY DEF Datapath
    <3>2. \A q \in PE : pe'[q] \in Queues
      BY <1>1, EdgeTyped
    <3> QED
      BY <3>1, <3>2
  <2>3. taken' \in [PE -> History] /\ answers' \in Seq(Seq(Word))
    BY <1>1 DEF Datapath, Typed
  <2>4. pending' \in [read : BOOLEAN, ultra : BOOLEAN]
    <3>1. pending' = IF rx_stall THEN pending
                     ELSE [read |-> Reads, ultra |-> Reads /\ Head(fifo["plo"]).ultra]
      BY Zenon DEF Datapath, RouterEdge
    <3>2. PICK reads \in BOOLEAN : reads = Reads
      BY DEF Reads
    <3>3. PICK ultra \in BOOLEAN : ultra = (Reads /\ Head(fifo["plo"]).ultra)
      OBVIOUS
    <3>4. pending' = pending \/ pending' = [read |-> reads, ultra |-> ultra]
      BY <3>1, <3>2, <3>3, Zenon
    <3>5. [read |-> reads, ultra |-> ultra] \in [read : BOOLEAN, ultra : BOOLEAN]
      OBVIOUS
    <3> QED
      BY <1>1, <3>4, <3>5, Zenon DEF Typed
  <2>5. rx_mask' \in [Port -> SUBSET Row]
    <3>1. rx_mask' = [p \in Port |->
                        IF Reads THEN Targets("plo", Head(fifo["plo"]).tag, p) ELSE {}]
      BY Zenon DEF Datapath, RouterEdge
    <3>2. \A p \in Port : Targets("plo", Head(fifo["plo"]).tag, p) \in SUBSET Row
      BY DEF Targets
    <3> QED
      BY <3>1, <3>2
  <2> QED
    BY <1>4, <2>1, <2>2, <2>3, <2>4, <2>5 DEF Typed
<1> QED
  BY <1>3, <1>4, <1>5, <1>6, Zenon DEF Working

-----------------------------------------------------------------------------
(* The users.                                                              *)

\* What is left of a sequence that gets more at its end.
LEMMA LeftGrows ==
  ASSUME NEW S, NEW t \in Seq(S), NEW x \in Seq(S), NEW n \in Nat, n <= Len(t)
  PROVE  SubSeq(t \o x, n + 1, Len(t \o x)) = SubSeq(t, n + 1, Len(t)) \o x
<1>1. PICK l \in Nat, k \in Nat : l = Len(t) /\ k = Len(x)
  BY LenProperties
<1>2. PICK u \in Seq(S) : /\ u = t \o x /\ Len(u) = l + k
                          /\ \A i \in 1 .. l + k : u[i] = IF i <= l THEN t[i] ELSE x[i - l]
  <2>1. /\ t \o x \in Seq(S) /\ Len(t \o x) = l + k
        /\ \A i \in 1 .. l + k : (t \o x)[i] = IF i <= l THEN t[i] ELSE x[i - l]
    BY <1>1, ConcatProperties
  <2> QED
    BY <2>1
<1>3. PICK s : s = SubSeq(t, n + 1, l)
  OBVIOUS
<1>4. s \in Seq(S) /\ Len(s) = l - n /\ \A i \in 1 .. l - n : s[i] = t[n + i]
  <2>1. \A i \in n + 1 .. l : t[i] \in S
    BY <1>1, ElementOfSeq
  <2>2. s = [i \in 1 .. l - n |-> t[n + i]]
    BY <1>1, <1>3
  <2>3. \A i \in 1 .. l - n : t[n + i] \in S
    <3>1. \A i \in 1 .. l - n : n + i \in n + 1 .. l
      BY <1>1
    <3> QED
      BY <2>1, <3>1
  <2>4. l - n \in Nat
    BY <1>1
  <2> QED
    BY <2>2, <2>3, <2>4
<1>5. PICK r \in Seq(S) : /\ r = s \o x /\ Len(r) = (l - n) + k
                          /\ \A i \in 1 .. (l - n) + k :
                               r[i] = IF i <= l - n THEN s[i] ELSE x[i - (l - n)]
  <2>1. /\ s \o x \in Seq(S) /\ Len(s \o x) = (l - n) + k
        /\ \A i \in 1 .. (l - n) + k : (s \o x)[i] = IF i <= l - n THEN s[i] ELSE x[i - (l - n)]
    <3>1. PICK j \in Nat : j = l - n
      <4>1. l - n \in Nat
        BY <1>1
      <4> QED
        BY <4>1
    <3>2. Len(s) = j
      BY <1>4, <3>1
    <3>3. s \in Seq(S) /\ Len(x) = k
      BY <1>1, <1>4
    <3>4. /\ s \o x \in Seq(S) /\ Len(s \o x) = j + k
          /\ \A i \in 1 .. j + k : (s \o x)[i] = IF i <= j THEN s[i] ELSE x[i - j]
      BY ONLY <3>2, <3>3, x \in Seq(S), ConcatProperties
    <3> QED
      BY <3>1, <3>4, Zenon
  <2> QED
    BY <2>1
<1>6. PICK v : v = SubSeq(u, n + 1, l + k)
  OBVIOUS
<1>7. v \in Seq(S) /\ Len(v) = (l - n) + k /\ \A i \in 1 .. (l - n) + k : v[i] = u[n + i]
  <2>1. n + 1 \in Nat /\ l + k \in Nat /\ n <= l + k /\ ((l + k) - (n + 1)) + 1 = (l - n) + k
    BY <1>1
  <2>2. v = [i \in 1 .. (l - n) + k |-> u[n + i]]
    BY <1>2, <1>6, <2>1
  <2>3. \A i \in 1 .. (l - n) + k : u[n + i] \in S
    <3>1. \A i \in 1 .. (l - n) + k : n + i \in 1 .. l + k
      BY <1>1
    <3>2. \A i \in 1 .. l + k : u[i] \in S
      BY <1>2, ElementOfSeq
    <3> QED
      BY <3>1, <3>2
  <2>4. (l - n) + k \in Nat
    BY <1>1
  <2> QED
    BY <2>2, <2>3, <2>4
<1>8. ASSUME NEW i \in 1 .. (l - n) + k PROVE r[i] = u[n + i]
  <2>1. n + i \in 1 .. l + k /\ (n + i <= l <=> i <= l - n) /\ (n + i) - l = i - (l - n)
    BY <1>1
  <2>2. CASE i <= l - n
    <3>1. i \in 1 .. l - n
      BY <1>1, <2>2
    <3> QED
      BY <1>2, <1>5, <1>4, <2>1, <2>2, <3>1
  <2>3. CASE ~(i <= l - n)
    <3>1. r[i] = x[i - (l - n)]
      BY <1>5, <2>3
    <3>2. u[n + i] = x[(n + i) - l]
      BY <1>2, <2>1, <2>3
    <3> QED
      BY <2>1, <3>1, <3>2
  <2> QED
    BY <2>2, <2>3
<1>9. v = r
  BY <1>5, <1>7, <1>8, SeqEqual
<1> QED
  BY <1>1, <1>2, <1>3, <1>5, <1>6, <1>9, Zenon

\* What the delivery unit does changes nothing at the PEs.
LEMMA UnitWorks ==
  ASSUME Working, workload' = workload, UNCHANGED <<pending, rx_mask, pe, taken>>,
         \A c \in Channel : offered'[c] - Len(fifo'[c]) = Sent(c)
  PROVE  Multicast' /\ SumsPassedOn' /\ Kept' /\ (Standing \/ Stuck)'
<1>1. Typed /\ Multicast /\ SumsPassedOn /\ Kept /\ (Standing \/ Stuck)
  BY Zenon DEF Working
<1>2. "ps" \in Channel /\ "pd" \in Channel /\ "pli" \in Channel /\ "plo" \in Channel
  BY DEF Channel, Send
<1>3. Multicast'
  <2>1. PICK n : n = [c \in Channel |-> Sent(c)]
    OBVIOUS
  <2>2. \A c \in Channel : offered'[c] - Len(fifo'[c]) = n[c]
    BY <2>1
  <2>3. n["ps"] = Sent("ps") /\ n["pd"] = Sent("pd") /\ n["pli"] = Sent("pli")
    BY <1>2, <2>1
  <2>4. \A q \in PE :
          /\ Lists(taken'[q].ps \o pe'[q].ps, WordsMeant("ps", q, n["ps"]))
          /\ ListsChunks(taken'[q].pd \o pe'[q].pd, ChunksMeant(q, n["pd"]))
          /\ workload.topology[q].from_bus =>
               Lists(taken'[q].pli \o pe'[q].pli, WordsMeant("pli", q, n["pli"]))
    BY <1>1, <2>3, Zenon DEF Multicast
  <2> QED
    BY <2>2, <2>4, MulticastNext
<1>4. SumsPassedOn'
  BY <1>1 DEF SumsPassedOn
<1>5. Kept'
  <2>1. \A q \in PE : workload.topology[q].enable /\ workload.topology[q].to_bus =>
          LET m == Cardinality(RequestsMeant("plo", q, Sent("plo")))
          IN  /\ m <= Len(taken'[q].pli)
              /\ pe'[q].plo = SubSeq(taken'[q].pli, m + 1, Len(taken'[q].pli))
    BY <1>1, Zenon DEF Kept, ReadsOf
  <2>2. offered'["plo"] - Len(fifo'["plo"]) = Sent("plo")
    BY <1>2
  <2> QED
    BY <2>1, <2>2, KeptNext, Zenon
<1>6. ASSUME Stuck PROVE Stuck'
  BY <1>6 DEF Stuck
<1>7. ASSUME Standing PROVE Standing'
  <2>1. \A p \in Port : rx_mask'[p] = IF pending'.read THEN Readers(Sent("plo"), p) ELSE {}
    BY <1>7, Zenon DEF Standing
  <2>2. pending'.read => (pending'.ultra <=> script["plo"][Sent("plo")].ultra)
    BY <1>7, Zenon DEF Standing
  <2>3. \A q \in PE : q[2] < active /\ q[2] \notin rx_mask'[q[1]] => pe'[q].resp = <<>>
    BY <1>7, Zenon DEF Standing
  <2>4. \A q \in PE : q[2] < active /\ q[2] \in rx_mask'[q[1]] =>
          LET m == Cardinality(RequestsMeant("plo", q, Sent("plo")))
          IN  /\ workload.topology[q].enable /\ workload.topology[q].to_bus
              /\ m \in 1 .. Len(taken'[q].pli)
              /\ pe'[q].resp = <<taken'[q].pli[m]>>
    BY <1>7, Zenon DEF Standing, ReadsOf
  <2>5. offered'["plo"] - Len(fifo'["plo"]) = Sent("plo")
    BY <1>2
  <2>6. Standing'
    BY <2>1, <2>2, <2>3, <2>4, <2>5, StandingNext, Zenon
  <2> QED
    BY <2>6
<1> QED
  BY <1>1, <1>3, <1>4, <1>5, <1>6, <1>7

\* A request is offered.
LEMMA OfferWorks ==
  ASSUME Configured, Loaded, Working, NEW c \in Channel, Offer(c)
  PROVE  Working'
<1>1. Typed /\ Queued /\ Numbering /\ Answered
  BY DEF Working
<1>2. /\ workload' = workload /\ UNCHANGED <<resp_fifo, pending, rx_mask, pe, answers, taken>>
      /\ offered[c] < Len(script[c])
  BY DEF Offer, configuration
<1>3. PICK n \in Nat : n = offered[c]
  BY <1>1 DEF Typed
<1>4. PICK r : r = Numbered(script[c][n + 1], n + 1)
  OBVIOUS
<1>5. /\ offered' = [offered EXCEPT ![c] = n + 1]
      /\ fifo' = [fifo EXCEPT ![c] = Append(fifo[c], r)]
  BY <1>3, <1>4 DEF Offer
<1>6. r \in NumberedRequest
  <2>1. n + 1 \in 1 .. Len(script[c]) /\ script[c] \in Seq(Request)
    BY <1>2, <1>3, WorkloadRuns
  <2>2. PICK x \in Request : x = script[c][n + 1]
    BY <2>1, ElementOfSeq
  <2> QED
    BY <1>4, <2>2 DEF Numbered, Request, NumberedRequest
<1>7. PICK l \in Nat : l = Len(fifo[c]) /\ l <= n /\ fifo[c] \in Seq(NumberedRequest)
  BY <1>1, <1>3 DEF Typed, Queued
<1>8. PICK f \in Seq(NumberedRequest) :
        /\ f = fifo'[c] /\ Len(f) = l + 1 /\ f[l + 1] = r
        /\ \A i \in 1 .. l : f[i] = fifo[c][i]
  <2>1. /\ Append(fifo[c], r) \in Seq(NumberedRequest) /\ Len(Append(fifo[c], r)) = l + 1
        /\ Append(fifo[c], r)[l + 1] = r
        /\ \A i \in 1 .. l : Append(fifo[c], r)[i] = fifo[c][i]
    BY <1>6, <1>7, AppendProperties
  <2>2. fifo'[c] = Append(fifo[c], r)
    BY <1>1, <1>5 DEF Typed
  <2> QED
    BY <2>1, <2>2, Zenon
<1>9. ASSUME NEW d \in Channel, d # c PROVE offered'[d] = offered[d] /\ fifo'[d] = fifo[d]
  BY <1>1, <1>5, <1>9 DEF Typed
<1>10. offered'[c] = n + 1
  BY <1>1, <1>5 DEF Typed
<1>11. ASSUME NEW d \in Channel PROVE offered'[d] - Len(fifo'[d]) = Sent(d)
  <2>1. CASE d = c
    <3>1. Sent(c) = n - l /\ (n + 1) - (l + 1) = n - l
      BY <1>3, <1>7 DEF Sent
    <3>2. offered'[c] - Len(fifo'[c]) = (n + 1) - (l + 1)
      BY <1>8, <1>10, Zenon
    <3> QED
      BY <2>1, <3>1, <3>2
  <2>2. CASE d # c
    BY <1>9, <2>2 DEF Sent
  <2> QED
    BY <2>1, <2>2
<1>12. Queued'
  <2>1. ASSUME NEW d \in Channel
        PROVE  /\ offered'[d] <= Len(script[d]) /\ Len(fifo'[d]) <= offered'[d]
               /\ \A i \in 1 .. Len(fifo'[d]) :
                    fifo'[d][i] = Numbered(script[d][offered'[d] - Len(fifo'[d]) + i],
                                           offered'[d] - Len(fifo'[d]) + i)
    <3>1. CASE d # c
      <4>1. /\ offered[d] <= Len(script[d]) /\ Len(fifo[d]) <= offered[d]
            /\ \A i \in 1 .. Len(fifo[d]) :
                 fifo[d][i] = Numbered(script[d][Sent(d) + i], Sent(d) + i)
        BY <1>1, Zenon DEF Queued
      <4> QED
        BY <1>9, <1>11, <3>1, <4>1, Zenon
    <3>2. CASE d = c
      <4>1. PICK s \in Nat : s = Sent(c) /\ s = n - l
        BY <1>3, <1>7 DEF Sent
      <4>2. n + 1 <= Len(script[c]) /\ l + 1 <= n + 1
        BY <1>2, <1>3, <1>7, WorkloadRuns
      <4>3. ASSUME NEW i \in 1 .. l + 1 PROVE f[i] = Numbered(script[c][s + i], s + i)
        <5>1. CASE i = l + 1
          <6>1. s + i = n + 1
            <7>1. \A x, y, z \in Nat : y <= x => (x - y) + (y + 1) = x + 1
              OBVIOUS
            <7> QED
              BY <1>7, <4>1, <5>1, <7>1
          <6> QED
            BY <1>4, <1>8, <5>1, <6>1
        <5>2. CASE i # l + 1
          <6>1. i \in 1 .. l
            BY <5>2
          <6>2. fifo[c][i] = Numbered(script[c][Sent(c) + i], Sent(c) + i)
            BY <1>1, <1>7, <6>1, Zenon DEF Queued
          <6> QED
            BY <1>8, <4>1, <6>1, <6>2, Zenon
        <5> QED
          BY <5>1, <5>2
      <4>4. offered'[c] - Len(fifo'[c]) = s
        BY <1>11, <4>1
      <4> QED
        BY <1>8, <1>10, <3>2, <4>2, <4>3, <4>4, Zenon
    <3> QED
      BY <3>1, <3>2
  <2> QED
    BY <1>2, <2>1, QueuedNext
<1>13. Typed'
  <2>1. offered' \in [Channel -> Nat]
    BY <1>1, <1>3, <1>5 DEF Typed
  <2>2. fifo' \in [Channel -> Seq(NumberedRequest)]
    <3>1. Append(fifo[c], r) \in Seq(NumberedRequest)
      BY <1>6, <1>7, AppendProperties
    <3> QED
      BY <1>1, <1>5, <3>1 DEF Typed
  <2> QED
    BY <1>1, <1>2, <2>1, <2>2 DEF Typed
<1>14. Multicast' /\ SumsPassedOn' /\ Kept' /\ (Standing \/ Stuck)'
  BY <1>2, <1>11, UnitWorks
<1>15. Numbering'
  <2>1. offered'["plo"] - Len(fifo'["plo"]) = Sent("plo")
    BY <1>11 DEF Channel
  <2>2. Sent("plo")' = Sent("plo")
    BY <2>1 DEF Sent
  <2> QED
    BY <1>1, <1>2, <2>2, Zenon DEF Numbering
<1>16. Answered'
  <2>1. \A k \in 1 .. Len(answers') + Len(resp_fifo') :
          Answers(taken', (answers' \o resp_fifo')[k], k)
    BY <1>1, <1>2, Zenon DEF Answered
  <2> QED
    BY <1>2, <2>1, AnsweredNext
<1> QED
  BY <1>12, <1>13, <1>14, <1>15, <1>16, Zenon DEF Working

\* An answer is taken.
LEMMA TakeAnswerWorks ==
  ASSUME Configured, Working, TakeAnswer
  PROVE  Working'
<1>1. Typed /\ Queued /\ Numbering /\ Answered
  BY DEF Working
<1>2. /\ workload' = workload /\ UNCHANGED <<fifo, pending, rx_mask, pe, offered, taken>>
      /\ answers' = Append(answers, Head(resp_fifo)) /\ resp_fifo' = Tail(resp_fifo)
      /\ resp_fifo # <<>>
  BY DEF TakeAnswer, configuration
<1>3. answers \in Seq(Seq(Word)) /\ resp_fifo \in Seq(Seq(Word))
  BY <1>1 DEF Typed
<1>4. /\ Head(resp_fifo) \in Seq(Word) /\ Tail(resp_fifo) \in Seq(Seq(Word))
      /\ Append(answers, Head(resp_fifo)) \o Tail(resp_fifo) = answers \o resp_fifo
  BY <1>2, <1>3, HandOne
<1>5. PICK a \in Nat, r \in Nat : a = Len(answers) /\ r = Len(resp_fifo) /\ r # 0
  BY <1>2, <1>3, EmptySeq
<1>6. /\ answers' \in Seq(Seq(Word)) /\ Len(answers') = a + 1
      /\ resp_fifo' \in Seq(Seq(Word)) /\ Len(resp_fifo') = r - 1
  <2>1. /\ Append(answers, Head(resp_fifo)) \in Seq(Seq(Word))
        /\ Len(Append(answers, Head(resp_fifo))) = a + 1
    BY <1>3, <1>4, <1>5, AppendProperties
  <2>2. Len(Tail(resp_fifo)) = r - 1
    BY <1>2, <1>3, <1>5, HeadTailProperties
  <2> QED
    BY <1>2, <1>4, <2>1, <2>2, Zenon
<1>7. answers' \o resp_fifo' = answers \o resp_fifo
  BY <1>2, <1>4, Zenon
<1>8. Len(answers') + Len(resp_fifo') = a + r
  BY <1>5, <1>6
<1>9. Typed'
  BY <1>1, <1>2, <1>6, Zenon DEF Typed
<1>10. Queued'
  <2>1. \A c \in Channel :
          /\ offered'[c] <= Len(script[c]) /\ Len(fifo'[c]) <= offered'[c]
          /\ \A i \in 1 .. Len(fifo'[c]) :
               fifo'[c][i] = Numbered(script[c][offered'[c] - Len(fifo'[c]) + i],
                                      offered'[c] - Len(fifo'[c]) + i)
    BY <1>1, <1>2, Zenon DEF Queued, Sent
  <2> QED
    BY <1>2, <2>1, QueuedNext
<1>11. Multicast' /\ SumsPassedOn' /\ Kept' /\ (Standing \/ Stuck)'
  <2>1. \A c \in Channel : offered'[c] - Len(fifo'[c]) = Sent(c)
    BY <1>2 DEF Sent
  <2> QED
    BY <1>2, <2>1, UnitWorks
<1>12. Numbering'
  <2>1. Sent("plo") = a + r + IF pending.read THEN 1 ELSE 0
    BY <1>1, <1>5 DEF Numbering
  <2>2. Sent("plo")' = Sent("plo") /\ pending' = pending
    BY <1>2 DEF Sent
  <2> QED
    BY <1>8, <2>1, <2>2, Zenon DEF Numbering
<1>13. Answered'
  <2>1. \A k \in 1 .. Len(answers') + Len(resp_fifo') :
          Answers(taken', (answers' \o resp_fifo')[k], k)
    BY <1>1, <1>2, <1>5, <1>7, <1>8, Zenon DEF Answered
  <2> QED
    BY <1>2, <2>1, AnsweredNext
<1> QED
  BY <1>9, <1>10, <1>11, <1>12, <1>13, Zenon DEF Working

\* Sums that a PE took stay where they were.
LEMMA GivenStays ==
  ASSUME NEW t, NEW u, NEW word, NEW k, NEW q,
         \A p \in PE : t[p].pli \in Seq(Word) /\ \E x \in Seq(Word) : u[p].pli = t[p].pli \o x,
         GivenBy(t, word, k, q)
  PROVE  GivenBy(u, word, k, q)
<1>1. q \in PE
  BY Zenon DEF GivenBy
<1>2. PICK s \in Seq(Word), x \in Seq(Word) : s = t[q].pli /\ u[q].pli = s \o x
  BY <1>1
<1>3. PICK n : n = Cardinality(RequestsMeant("plo", q, k))
  OBVIOUS
<1>4. /\ q[2] < active /\ Meant("plo", q, k) /\ workload.topology[q].to_bus
      /\ n \in 1 .. Len(s) /\ word = s[n]
  BY <1>2, <1>3, Zenon DEF GivenBy
<1>5. n \in 1 .. Len(s \o x) /\ (s \o x)[n] = s[n]
  <2>1. PICK j \in Nat, l \in Nat : j = Len(s) /\ l = Len(x)
    BY LenProperties
  <2>2. Len(s \o x) = j + l
        /\ \A i \in 1 .. j + l : (s \o x)[i] = IF i <= j THEN s[i] ELSE x[i - j]
    BY <2>1, ConcatProperties
  <2> QED
    BY <1>4, <2>1, <2>2
<1> QED
  BY <1>1, <1>2, <1>3, <1>4, <1>5, Zenon DEF GivenBy

\* What a core does: it moves entries from a queue to those it has taken, and
\* gives a sum for each sum it takes.
LEMMA CoreWorks ==
  ASSUME Configured, Working, UNCHANGED <<configuration, router, offered, answers>>,
         pe' \in [PE -> Queues], taken' \in [PE -> History],
         \A q \in PE :
           /\ pe'[q].resp = pe[q].resp
           /\ taken'[q].ps \o pe'[q].ps = taken[q].ps \o pe[q].ps
           /\ taken'[q].pd \o pe'[q].pd = taken[q].pd \o pe[q].pd
           /\ taken'[q].pli \o pe'[q].pli = taken[q].pli \o pe[q].pli
           /\ \E x \in Seq(Word) : /\ taken'[q].pli = taken[q].pli \o x
                                   /\ pe'[q].plo = pe[q].plo \o x
  PROVE  Working'
<1>1. /\ Typed /\ Queued /\ Multicast /\ SumsPassedOn /\ Kept /\ (Standing \/ Stuck)
      /\ Numbering /\ Answered
  BY Zenon DEF Working
<1>2. /\ workload' = workload
      /\ UNCHANGED <<fifo, resp_fifo, pending, rx_mask, offered, answers>>
  BY DEF configuration, router
<1>3. \A c \in Channel : offered'[c] - Len(fifo'[c]) = Sent(c)
  BY <1>2 DEF Sent
<1>4. ASSUME NEW q \in PE PROVE taken[q].pli \in Seq(Word) /\ pe[q].plo \in Seq(Word)
  BY <1>1 DEF Typed, History, Queues
<1>5. Typed'
  BY <1>1, <1>2, Zenon DEF Typed
<1>6. Queued'
  <2>1. \A c \in Channel :
          /\ offered'[c] <= Len(script[c]) /\ Len(fifo'[c]) <= offered'[c]
          /\ \A i \in 1 .. Len(fifo'[c]) :
               fifo'[c][i] = Numbered(script[c][offered'[c] - Len(fifo'[c]) + i],
                                      offered'[c] - Len(fifo'[c]) + i)
    BY <1>1, <1>2, Zenon DEF Queued, Sent
  <2> QED
    BY <1>2, <2>1, QueuedNext
<1>7. Multicast'
  <2>1. PICK n : n = [c \in Channel |-> Sent(c)]
    OBVIOUS
  <2>2. \A c \in Channel : offered'[c] - Len(fifo'[c]) = n[c]
    BY <1>3, <2>1
  <2>3. n["ps"] = Sent("ps") /\ n["pd"] = Sent("pd") /\ n["pli"] = Sent("pli")
    BY <2>1 DEF Channel, Send
  <2>4. \A q \in PE :
          /\ Lists(taken'[q].ps \o pe'[q].ps, WordsMeant("ps", q, n["ps"]))
          /\ ListsChunks(taken'[q].pd \o pe'[q].pd, ChunksMeant(q, n["pd"]))
          /\ workload.topology[q].from_bus =>
               Lists(taken'[q].pli \o pe'[q].pli, WordsMeant("pli", q, n["pli"]))
    BY <1>1, <2>3, Zenon DEF Multicast
  <2> QED
    BY <1>2, <2>2, <2>4, MulticastNext
<1>8. SumsPassedOn'
  <2>1. ASSUME NEW q \in PE, workload.topology[q].enable, ~workload.topology[q].to_bus,
               NEW to, to = <<q[1] + 1, q[2]>>
        PROVE  taken'[to].pli \o pe'[to].pli \o pe'[q].plo = taken'[q].pli
    <3>1. to \in PE
      BY <2>1, LinkedTo
    <3>2. PICK b \in Seq(Word) : b = taken[to].pli \o pe[to].pli
      <4>1. taken[to].pli \in Seq(Word) /\ pe[to].pli \in Seq(Word)
        BY <1>1, <3>1 DEF Typed, History, Queues
      <4> QED
        BY <4>1, ConcatProperties
    <3>3. PICK s \in Seq(Word) : s = pe[q].plo
      BY <1>4
    <3>4. b \o s = taken[q].pli
      BY <1>1, <2>1, <3>2, <3>3, Zenon DEF SumsPassedOn
    <3>5. PICK x \in Seq(Word) : taken'[q].pli = taken[q].pli \o x /\ pe'[q].plo = s \o x
      BY <3>3, Zenon
    <3>6. (b \o s) \o x = b \o (s \o x)
      BY ONLY b \in Seq(Word), s \in Seq(Word), x \in Seq(Word), ConcatAssociative
    <3>7. taken'[to].pli \o pe'[to].pli = b
      BY <3>1, <3>2, Zenon
    <3> QED
      BY <3>4, <3>5, <3>6, <3>7, Zenon
  <2> QED
    BY <1>2, <2>1, Zenon DEF SumsPassedOn
<1>9. Kept'
  <2>1. ASSUME NEW q \in PE, workload.topology[q].enable, workload.topology[q].to_bus,
               NEW m, m = Cardinality(RequestsMeant("plo", q, Sent("plo")))
        PROVE  /\ m <= Len(taken'[q].pli)
               /\ pe'[q].plo = SubSeq(taken'[q].pli, m + 1, Len(taken'[q].pli))
    <3>1. PICK t \in Seq(Word), s \in Seq(Word) : t = taken[q].pli /\ s = pe[q].plo
      BY <1>4
    <3>2. PICK x \in Seq(Word) : taken'[q].pli = t \o x /\ pe'[q].plo = s \o x
      BY <3>1, Zenon
    <3>3. m \in Nat
      <4>1. Sent("plo") \in Nat
        BY <1>1 DEF Sent, Typed, Queued, Channel
      <4> QED
        BY <2>1, <4>1, RequestsCount
    <3>4. m <= Len(t) /\ s = SubSeq(t, m + 1, Len(t))
      BY <1>1, <2>1, <3>1, Zenon DEF Kept, ReadsOf
    <3>5. SubSeq(t \o x, m + 1, Len(t \o x)) = s \o x
      BY <3>3, <3>4, LeftGrows
    <3>6. m <= Len(t \o x)
      <4>1. Len(t \o x) = Len(t) + Len(x) /\ Len(t) \in Nat /\ Len(x) \in Nat
        BY ConcatProperties, LenProperties
      <4> QED
        BY <3>3, <3>4, <4>1
    <3> QED
      BY <3>2, <3>5, <3>6, Zenon
  <2>2. offered'["plo"] - Len(fifo'["plo"]) = Sent("plo")
    BY <1>3 DEF Channel
  <2> QED
    BY <1>2, <2>1, <2>2, KeptNext, Zenon
<1>10. ASSUME Stuck PROVE Stuck'
  BY <1>2, <1>10 DEF Stuck
<1>11. ASSUME Standing PROVE Standing'
  <2>1. \A p \in Port : rx_mask'[p] = IF pending'.read THEN Readers(Sent("plo"), p) ELSE {}
    BY <1>2, <1>11, Zenon DEF Standing
  <2>2. pending'.read => (pending'.ultra <=> script["plo"][Sent("plo")].ultra)
    BY <1>2, <1>11, Zenon DEF Standing
  <2>3. \A q \in PE : q[2] < active /\ q[2] \notin rx_mask'[q[1]] => pe'[q].resp = <<>>
    BY <1>2, <1>11, Zenon DEF Standing
  <2>4. ASSUME NEW q \in PE, q[2] < active, q[2] \in rx_mask'[q[1]],
               NEW m, m = Cardinality(RequestsMeant("plo", q, Sent("plo")))
        PROVE  /\ workload.topology[q].enable /\ workload.topology[q].to_bus
               /\ m \in 1 .. Len(taken'[q].pli)
               /\ pe'[q].resp = <<taken'[q].pli[m]>>
    <3>1. PICK t \in Seq(Word) : t = taken[q].pli
      BY <1>4
    <3>2. PICK x \in Seq(Word) : taken'[q].pli = t \o x
      BY <3>1, Zenon
    <3>3. /\ workload.topology[q].enable /\ workload.topology[q].to_bus
          /\ m \in 1 .. Len(t) /\ pe[q].resp = <<t[m]>>
      BY <1>2, <1>11, <2>4, <3>1, Zenon DEF Standing, ReadsOf
    <3>4. m \in 1 .. Len(t \o x) /\ (t \o x)[m] = t[m]
      <4>1. PICK j \in Nat, l \in Nat : j = Len(t) /\ l = Len(x)
        BY LenProperties
      <4>2. /\ Len(t \o x) = j + l
            /\ \A i \in 1 .. j + l : (t \o x)[i] = IF i <= j THEN t[i] ELSE x[i - j]
        BY <4>1, ConcatProperties
      <4> QED
        BY <3>3, <4>1, <4>2
    <3> QED
      BY <3>2, <3>3, <3>4, Zenon
  <2>5. offered'["plo"] - Len(fifo'["plo"]) = Sent("plo")
    BY <1>3 DEF Channel
  <2>6. \A q \in PE : q[2] < active /\ q[2] \in rx_mask'[q[1]] =>
          LET m == Cardinality(RequestsMeant("plo", q, Sent("plo")))
          IN  /\ workload.topology[q].enable /\ workload.topology[q].to_bus
              /\ m \in 1 .. Len(taken'[q].pli)
              /\ pe'[q].resp = <<taken'[q].pli[m]>>
    BY <2>4, Zenon
  <2> QED
    BY <1>2, <2>1, <2>2, <2>3, <2>5, <2>6, StandingNext
<1>12. Numbering'
  <2>1. Sent("plo")' = Sent("plo")
    BY <1>2 DEF Sent
  <2> QED
    BY <1>1, <1>2, <2>1, Zenon DEF Numbering
<1>13. Answered'
  <2>1. \A p \in PE : /\ taken[p].pli \in Seq(Word)
                      /\ \E x \in Seq(Word) : taken'[p].pli = taken[p].pli \o x
    BY <1>4, Zenon
  <2>2. \A word, k, q : GivenBy(taken, word, k, q) => GivenBy(taken', word, k, q)
    BY <2>1, GivenStays
  <2>3. ASSUME NEW k \in 1 .. Len(answers') + Len(resp_fifo')
        PROVE  Answers(taken', (answers' \o resp_fifo')[k], k)
    <3>1. Answers(taken, (answers \o resp_fifo)[k], k)
      BY <1>1, <1>2, Zenon DEF Answered
    <3> QED
      BY <1>2, <2>2, <3>1, Zenon DEF Answers
  <2> QED
    BY <1>2, <2>3, AnsweredNext
<1> QED
  BY <1>1, <1>5, <1>6, <1>7, <1>8, <1>9, <1>10, <1>11, <1>12, <1>13, Zenon DEF Working

\* What a core leaves as it is.
LEMMA CoreOther ==
  ASSUME Typed, NEW q \in PE
  PROVE  /\ pe[q] \in Queues /\ taken[q] \in History
         /\ \E x \in Seq(Word) : /\ taken[q].pli = taken[q].pli \o x
                                 /\ pe[q].plo = pe[q].plo \o x
<1>1. pe[q] \in Queues /\ taken[q] \in History
  BY DEF Typed
<1>2. taken[q].pli \in Seq(Word) /\ pe[q].plo \in Seq(Word)
  BY <1>1 DEF Queues, History
<1>3. taken[q].pli \o <<>> = taken[q].pli /\ pe[q].plo \o <<>> = pe[q].plo /\ <<>> \in Seq(Word)
  BY <1>2, ConcatEmptySeq
<1> QED
  BY <1>1, <1>3

\* A core takes a word.
LEMMA TakePsWorks ==
  ASSUME Configured, Working, NEW q \in PE, TakePs(q)
  PROVE  Working'
<1>1. Typed
  BY DEF Working
<1>2. PICK t \in Seq(Word), s \in Seq(Word) : t = taken[q].ps /\ s = pe[q].ps
  BY <1>1 DEF Typed, History, Queues
<1>3. /\ taken' = [taken EXCEPT ![q]["ps"] = @ \o SubSeq(pe[q]["ps"], 1, 1)]
      /\ pe' = [pe EXCEPT ![q].ps = Tail(@)] /\ Len(s) >= 1
      /\ UNCHANGED <<configuration, router, offered, answers>>
  BY <1>2, Zenon DEF TakePs, Pop
<1>4. s # <<>>
  BY <1>3, EmptySeq
<1>5. /\ SubSeq(s, 1, 1) = <<Head(s)>> /\ Head(s) \in Word /\ Tail(s) \in Seq(Word)
      /\ Append(t, Head(s)) \o Tail(s) = t \o s /\ t \o SubSeq(s, 1, 1) = Append(t, Head(s))
  BY <1>4, HandOne
<1>6. PICK a : a = t \o SubSeq(s, 1, 1) /\ a = Append(t, Head(s)) /\ a \in Seq(Word)
  BY <1>5, AppendProperties
<1>7. PICK b \in Seq(Word) : b = Tail(s)
  BY <1>5
<1>8. taken' = [taken EXCEPT ![q] = [taken[q] EXCEPT !.ps = a]]
  BY <1>1, <1>2, <1>3, <1>6 DEF Typed, History
<1>9. pe' = [pe EXCEPT ![q] = [pe[q] EXCEPT !.ps = b]]
  BY <1>1, <1>2, <1>3, <1>7 DEF Typed, Queues
<1>10. taken' \in [PE -> History]
  BY <1>1, <1>6, <1>8 DEF Typed, History
<1>11. pe' \in [PE -> Queues]
  BY <1>1, <1>7, <1>9 DEF Typed, Queues
<1>12. ASSUME NEW o \in PE
       PROVE  /\ pe'[o].resp = pe[o].resp
              /\ taken'[o].ps \o pe'[o].ps = taken[o].ps \o pe[o].ps
              /\ taken'[o].pd = taken[o].pd /\ pe'[o].pd = pe[o].pd
              /\ taken'[o].pli = taken[o].pli /\ pe'[o].pli = pe[o].pli
              /\ pe'[o].plo = pe[o].plo
  <2>1. CASE o # q
    <3>1. taken'[o] = taken[o] /\ pe'[o] = pe[o]
      BY <1>1, <1>8, <1>9, <2>1 DEF Typed
    <3> QED
      BY <3>1
  <2>2. CASE o = q
    <3>1. taken'[q] = [taken[q] EXCEPT !.ps = a] /\ pe'[q] = [pe[q] EXCEPT !.ps = b]
      BY <1>1, <1>8, <1>9 DEF Typed
    <3>2. taken[q] \in History /\ pe[q] \in Queues
      BY <1>1 DEF Typed
    <3>3. taken'[q].ps = a /\ taken'[q].pd = taken[q].pd /\ taken'[q].pli = taken[q].pli
      BY <3>1, <3>2 DEF History
    <3>4. /\ pe'[q].ps = b /\ pe'[q].pd = pe[q].pd /\ pe'[q].pli = pe[q].pli
          /\ pe'[q].plo = pe[q].plo /\ pe'[q].resp = pe[q].resp
      BY <3>1, <3>2 DEF Queues
    <3>5. a \o b = t \o s
      BY <1>5, <1>6, <1>7, Zenon
    <3> QED
      BY <1>2, <2>2, <3>3, <3>4, <3>5, Zenon
  <2> QED
    BY <2>1, <2>2
<1>13. \A o \in PE :
         /\ pe'[o].resp = pe[o].resp
         /\ taken'[o].ps \o pe'[o].ps = taken[o].ps \o pe[o].ps
         /\ taken'[o].pd \o pe'[o].pd = taken[o].pd \o pe[o].pd
         /\ taken'[o].pli \o pe'[o].pli = taken[o].pli \o pe[o].pli
         /\ \E x \in Seq(Word) : /\ taken'[o].pli = taken[o].pli \o x
                                 /\ pe'[o].plo = pe[o].plo \o x
  BY <1>1, <1>12, CoreOther, ZenonT(60)
<1> QED
  BY <1>3, <1>10, <1>11, <1>13, CoreWorks, Zenon

\* A core takes n chunks.
LEMMA TakePdWorks ==
  ASSUME Configured, Working, NEW q \in PE, NEW n \in Nat, TakePd(q, n)
  PROVE  Working'
<1>1. Typed
  BY DEF Working
<1>2. PICK t \in Seq(Chunk), s \in Seq(Chunk) : t = taken[q].pd /\ s = pe[q].pd
  BY <1>1 DEF Typed, History, Queues
<1>3. /\ taken' = [taken EXCEPT ![q]["pd"] = @ \o SubSeq(pe[q]["pd"], 1, n)]
      /\ pe' = [pe EXCEPT ![q].pd = SubSeq(@, n + 1, Len(@))] /\ Len(s) >= n
      /\ UNCHANGED <<configuration, router, offered, answers>>
  BY <1>2, Zenon DEF TakePd, Pop
<1>4. n <= Len(s)
  BY <1>3
<1>5. /\ FirstOf(s, n) \in Seq(Chunk) /\ RestOf(s, n) \in Seq(Chunk)
      /\ (t \o FirstOf(s, n)) \o RestOf(s, n) = t \o s
  BY <1>4, HandOver, SMTT(30)
<1>6. PICK a : a = t \o FirstOf(s, n) /\ a \in Seq(Chunk)
  BY <1>5, ConcatProperties
<1>7. PICK b \in Seq(Chunk) : b = RestOf(s, n)
  BY <1>5
<1>8. taken' = [taken EXCEPT ![q] = [taken[q] EXCEPT !.pd = a]]
  <2>1. a = taken[q]["pd"] \o SubSeq(pe[q]["pd"], 1, n)
    BY <1>2, <1>6, Zenon DEF FirstOf
  <2> QED
    BY <1>1, <1>3, <2>1 DEF Typed, History
<1>9. pe' = [pe EXCEPT ![q] = [pe[q] EXCEPT !.pd = b]]
  <2>1. b = SubSeq(pe[q].pd, n + 1, Len(pe[q].pd))
    BY <1>2, <1>7, Zenon DEF RestOf
  <2> QED
    BY <1>1, <1>3, <2>1 DEF Typed, Queues
<1>10. taken' \in [PE -> History]
  BY <1>1, <1>6, <1>8 DEF Typed, History
<1>11. pe' \in [PE -> Queues]
  BY <1>1, <1>7, <1>9 DEF Typed, Queues
<1>12. ASSUME NEW o \in PE
       PROVE  /\ pe'[o].resp = pe[o].resp
              /\ taken'[o].ps = taken[o].ps /\ pe'[o].ps = pe[o].ps
              /\ taken'[o].pd \o pe'[o].pd = taken[o].pd \o pe[o].pd
              /\ taken'[o].pli = taken[o].pli /\ pe'[o].pli = pe[o].pli
              /\ pe'[o].plo = pe[o].plo
  <2>1. CASE o # q
    <3>1. taken'[o] = taken[o] /\ pe'[o] = pe[o]
      BY <1>1, <1>8, <1>9, <2>1 DEF Typed
    <3> QED
      BY <3>1
  <2>2. CASE o = q
    <3>1. taken'[q] = [taken[q] EXCEPT !.pd = a] /\ pe'[q] = [pe[q] EXCEPT !.pd = b]
      BY <1>1, <1>8, <1>9 DEF Typed
    <3>2. taken[q] \in History /\ pe[q] \in Queues
      BY <1>1 DEF Typed
    <3>3. taken'[q].pd = a /\ taken'[q].ps = taken[q].ps /\ taken'[q].pli = taken[q].pli
      BY <3>1, <3>2 DEF History
    <3>4. /\ pe'[q].pd = b /\ pe'[q].ps = pe[q].ps /\ pe'[q].pli = pe[q].pli
          /\ pe'[q].plo = pe[q].plo /\ pe'[q].resp = pe[q].resp
      BY <3>1, <3>2 DEF Queues
    <3>5. a \o b = t \o s
      BY <1>5, <1>6, <1>7, Zenon
    <3> QED
      BY <1>2, <2>2, <3>3, <3>4, <3>5, Zenon
  <2> QED
    BY <2>1, <2>2
<1>13. \A o \in PE :
         /\ pe'[o].resp = pe[o].resp
         /\ taken'[o].ps \o pe'[o].ps = taken[o].ps \o pe[o].ps
         /\ taken'[o].pd \o pe'[o].pd = taken[o].pd \o pe[o].pd
         /\ taken'[o].pli \o pe'[o].pli = taken[o].pli \o pe[o].pli
         /\ \E x \in Seq(Word) : /\ taken'[o].pli = taken[o].pli \o x
                                 /\ pe'[o].plo = pe[o].plo \o x
  BY <1>1, <1>12, CoreOther, ZenonT(60)
<1> QED
  BY <1>3, <1>10, <1>11, <1>13, CoreWorks, Zenon

\* A core takes a sum and gives one.
LEMMA SumWorks ==
  ASSUME Configured, Working, NEW q \in PE, Sum(q)
  PROVE  Working'
<1>1. Typed
  BY DEF Working
<1>2. PICK t \in Seq(Word), s \in Seq(Word), l \in Seq(Word) :
        t = taken[q].pli /\ s = pe[q].pli /\ l = pe[q].plo
  BY <1>1 DEF Typed, History, Queues
<1>3. /\ taken' = [taken EXCEPT ![q]["pli"] = @ \o SubSeq(pe[q]["pli"], 1, 1)]
      /\ pe' = [pe EXCEPT ![q].pli = Tail(@), ![q].plo = Append(@, Head(pe[q].pli))]
      /\ Len(s) >= 1
      /\ UNCHANGED <<configuration, router, offered, answers>>
  BY <1>2, Zenon DEF Sum, Pop
<1>4. s # <<>>
  BY <1>3, EmptySeq
<1>5. /\ SubSeq(s, 1, 1) = <<Head(s)>> /\ Head(s) \in Word /\ Tail(s) \in Seq(Word)
      /\ Append(t, Head(s)) \o Tail(s) = t \o s /\ t \o SubSeq(s, 1, 1) = Append(t, Head(s))
  BY <1>4, HandOne
<1>6. PICK a : a = t \o SubSeq(s, 1, 1) /\ a = Append(t, Head(s)) /\ a \in Seq(Word)
  BY <1>5, AppendProperties
<1>7. PICK b \in Seq(Word) : b = Tail(s)
  BY <1>5
<1>8. PICK c \in Seq(Word) : c = Append(l, Head(s))
  BY <1>5, AppendProperties
<1>9. taken' = [taken EXCEPT ![q] = [taken[q] EXCEPT !.pli = a]]
  BY <1>1, <1>2, <1>3, <1>6 DEF Typed, History
<1>10. pe' = [pe EXCEPT ![q] = [pe[q] EXCEPT !.pli = b, !.plo = c]]
  BY <1>1, <1>2, <1>3, <1>7, <1>8 DEF Typed, Queues
<1>11. taken' \in [PE -> History]
  BY <1>1, <1>6, <1>9 DEF Typed, History
<1>12. pe' \in [PE -> Queues]
  BY <1>1, <1>7, <1>8, <1>10, ZenonT(60) DEF Typed, Queues
<1>13. ASSUME NEW o \in PE, o # q PROVE taken'[o] = taken[o] /\ pe'[o] = pe[o]
  BY <1>1, <1>9, <1>10, <1>13 DEF Typed
<1>14. /\ pe'[q].resp = pe[q].resp
       /\ taken'[q].ps = taken[q].ps /\ pe'[q].ps = pe[q].ps
       /\ taken'[q].pd = taken[q].pd /\ pe'[q].pd = pe[q].pd
       /\ taken'[q].pli = a /\ pe'[q].pli = b /\ pe'[q].plo = c
  <2>1. taken'[q] = [taken[q] EXCEPT !.pli = a] /\ pe'[q] = [pe[q] EXCEPT !.pli = b, !.plo = c]
    BY <1>1, <1>9, <1>10 DEF Typed
  <2>2. taken[q] \in History /\ pe[q] \in Queues
    BY <1>1 DEF Typed
  <2>3. taken'[q].pli = a /\ taken'[q].ps = taken[q].ps /\ taken'[q].pd = taken[q].pd
    BY <2>1, <2>2 DEF History
  <2>4. /\ pe'[q].pli = b /\ pe'[q].ps = pe[q].ps /\ pe'[q].pd = pe[q].pd
        /\ pe'[q].plo = c /\ pe'[q].resp = pe[q].resp
    BY <2>1, <2>2 DEF Queues
  <2> QED
    BY <2>3, <2>4
<1>15. PICK w \in Word, x \in Seq(Word) : w = Head(s) /\ x = <<w>>
  <2>1. <<Head(s)>> \in Seq(Word)
    BY <1>5
  <2> QED
    BY <1>5, <2>1
<1>16. a = t \o x /\ c = l \o x /\ a \o b = t \o s
  <2>1. Append(t, w) = t \o <<w>> /\ Append(l, w) = l \o <<w>>
    BY AppendIsConcat
  <2> QED
    BY <1>5, <1>6, <1>7, <1>8, <1>15, <2>1, Zenon
<1>17. ASSUME NEW o \in PE
       PROVE  /\ pe'[o].resp = pe[o].resp
              /\ taken'[o].ps \o pe'[o].ps = taken[o].ps \o pe[o].ps
              /\ taken'[o].pd \o pe'[o].pd = taken[o].pd \o pe[o].pd
              /\ taken'[o].pli \o pe'[o].pli = taken[o].pli \o pe[o].pli
              /\ \E y \in Seq(Word) : /\ taken'[o].pli = taken[o].pli \o y
                                      /\ pe'[o].plo = pe[o].plo \o y
  <2>1. CASE o # q
    BY <1>1, <1>13, <2>1, CoreOther, Zenon
  <2>2. CASE o = q
    BY <1>2, <1>14, <1>16, <2>2, Zenon
  <2> QED
    BY <2>1, <2>2
<1> QED
  BY <1>3, <1>11, <1>12, <1>17, CoreWorks, Zenon

-----------------------------------------------------------------------------
(* The invariant.                                                          *)

\* Every step of a loaded network.
LEMMA StepWorks ==
  ASSUME Configured, Loaded, Working, [Next]_vars
  PROVE  Working'
<1>1. CASE ScanCommand \/ Edge
  BY <1>1, EdgeWorks DEF ScanCommand, Edge
<1>2. ASSUME NEW c \in Channel, Offer(c) PROVE Working'
  BY <1>2, OfferWorks
<1>3. CASE TakeAnswer
  BY <1>3, TakeAnswerWorks
<1>4. ASSUME NEW q \in PE, Core(q) PROVE Working'
  <2>1. Chunks \in Nat /\ 1 \in Nat
    BY NocAssumption
  <2> QED
    BY <1>4, <2>1, TakePsWorks, TakePdWorks, SumWorks, Zenon DEF Core
<1>5. CASE UNCHANGED vars
  <2>1. /\ UNCHANGED <<configuration, router, offered, answers>> /\ pe' = pe /\ taken' = taken
    BY <1>5 DEF vars
  <2>2. Typed /\ pe' \in [PE -> Queues] /\ taken' \in [PE -> History]
    BY <2>1 DEF Working, Typed
  <2>3. \A q \in PE :
           /\ pe'[q].resp = pe[q].resp
           /\ taken'[q].ps \o pe'[q].ps = taken[q].ps \o pe[q].ps
           /\ taken'[q].pd \o pe'[q].pd = taken[q].pd \o pe[q].pd
           /\ taken'[q].pli \o pe'[q].pli = taken[q].pli \o pe[q].pli
           /\ \E x \in Seq(Word) : /\ taken'[q].pli = taken[q].pli \o x
                                   /\ pe'[q].plo = pe[q].plo \o x
    BY <2>1, <2>2, CoreOther, Zenon
  <2> QED
    BY <2>1, <2>2, <2>3, CoreWorks, Zenon
<1> QED
  BY <1>1, <1>2, <1>3, <1>4, <1>5 DEF Next

\* The chain stays configured.
LEMMA StepConfigured ==
  ASSUME Configured, [Next]_vars
  PROVE  Configured' /\ (Loaded => Loaded')
<1>1. CASE ScanCommand
  BY <1>1, ScanLoads DEF ScanCommand, Loaded
<1>2. CASE Edge
  BY <1>2, EdgeLoads DEF Edge, Loaded
<1>3. CASE UNCHANGED configuration
  BY <1>3 DEF configuration, Configured, Loading, ToShift, Loaded
<1>4. ~ScanCommand /\ ~Edge => UNCHANGED configuration
  BY DEF Next, vars, Offer, TakeAnswer, Core, TakePs, TakePd, Sum, Pop
<1> QED
  BY <1>1, <1>2, <1>3, <1>4

\* IInv is inductive.
LEMMA Inductive == Spec => []IInv
<1>1. Init => IInv
  <2>1. SUFFICES ASSUME Init PROVE IInv
    OBVIOUS
  <2>2. Configured
    BY <2>1, ConfiguredFirst
  <2>3. Quiet
    BY <2>1 DEF Init, Quiet, NoWords
  <2> QED
    BY <2>2, <2>3, QuietWorks DEF IInv
<1>2. IInv /\ [Next]_vars => IInv'
  <2>1. SUFFICES ASSUME IInv, [Next]_vars PROVE IInv'
    OBVIOUS
  <2>2. Configured /\ Configured' /\ (Loaded => Loaded')
    BY <2>1, StepConfigured DEF IInv
  <2>3. CASE Loaded
    BY <2>1, <2>2, <2>3, StepWorks DEF IInv
  <2>4. CASE ~Loaded
    <3>1. Quiet'
      BY <2>1, <2>4, QuietStep DEF IInv
    <3>2. (Configured /\ Quiet => Working)'
      BY QuietWorks, PTL
    <3> QED
      BY <2>2, <3>1, <3>2 DEF IInv
  <2> QED
    BY <2>3, <2>4
<1> QED
  BY <1>1, <1>2, PTL DEF Spec

-----------------------------------------------------------------------------
(* What follows from it.                                                   *)

\* A word reaches all the PEs it is meant for at the edge it leaves the router.
THEOREM WordsReachAll == Spec => []Multicast
<1>1. IInv => Multicast
  BY DEF IInv, Working
<1> QED
  BY <1>1, Inductive, PTL

\* The partial sums of a row pass from port to port without loss, in order.
THEOREM SumsArePassedOn == Spec => []SumsPassedOn
<1>1. IInv => SumsPassedOn
  BY DEF IInv, Working
<1> QED
  BY <1>1, Inductive, PTL

\* The sums of a PE came by way of the links from a PE that took them from the
\* bus.
LEMMA FromSource ==
  ASSUME Configured, Typed, SumsPassedOn, NEW q \in PE, workload.topology[q].enable,
         NEW n \in Nat, n \in 1 .. Len(taken[q].pli)
  PROVE  /\ Source(q) \in PE /\ workload.topology[Source(q)].from_bus
         /\ n \in 1 .. Len(taken[Source(q)].pli)
         /\ taken[Source(q)].pli[n] = taken[q].pli[n]
<1>1. PICK w : w = workload.topology
  OBVIOUS
<1>2. PICK y \in Nat, z \in Row : q = <<y, z>> /\ y \in Port
  BY NocAssumption DEF PE, Port
<1>3. PICK m \in Nat \ {0} : Port = 0 .. m - 1
  BY NocAssumption DEF Port
<1>4. \A p \in 0 .. y : p \in Port /\ <<p, z>> \in PE
  BY <1>2, <1>3 DEF PE
<1> DEFINE Fine(p) == /\ w[<<p, z>>].enable /\ n \in 1 .. Len(taken[<<p, z>>].pli)
                      /\ taken[<<p, z>>].pli[n] = taken[q].pli[n]
                      /\ \A x \in p + 1 .. y : ~w[<<x, z>>].from_bus
<1>5. PICK P : P = {p \in 0 .. y : Fine(p)}
  OBVIOUS
<1>6. y \in P
  <2>1. \A x \in y + 1 .. y : FALSE
    BY <1>2
  <2>2. Fine(y)
    BY <1>1, <1>2, <2>1
  <2> QED
    BY <1>2, <1>5, <2>2
<1>7. PICK s \in P : \A x \in P : s <= x
  <2>1. P \subseteq Nat /\ P # {}
    BY <1>5, <1>6
  <2> QED
    BY <2>1, LeastOf
<1>8. s \in 0 .. y /\ Fine(s)
  BY <1>5, <1>7
<1>9. PICK o \in PE : o = <<s, z>> /\ o[1] = s /\ o[2] = z
  BY <1>4, <1>8
<1>10. w[o].from_bus
  <2>1. SUFFICES ASSUME ~w[o].from_bus PROVE FALSE
    OBVIOUS
  <2>2. PICK u \in PE : u = <<s - 1, z>> /\ w[u].enable /\ ~w[u].to_bus /\ s > 0
    BY <1>1, <1>8, <1>9, <2>1, LinkedTo
  <2>3. <<u[1] + 1, u[2]>> = o
    BY <1>8, <1>9, <2>2
  <2>4. PICK a \in Seq(Word), b \in Seq(Word), c \in Seq(Word) :
          a = taken[o].pli /\ b = pe[o].pli /\ c = pe[u].plo
    BY DEF Typed, History, Queues
  <2>5. taken[u].pli = a \o b \o c
    BY <1>1, <2>2, <2>3, <2>4, Zenon DEF SumsPassedOn
  <2>6. n \in 1 .. Len(a \o b \o c) /\ (a \o b \o c)[n] = a[n]
    <3>1. n \in 1 .. Len(a)
      BY <1>8, <1>9, <2>4
    <3>2. PICK j \in Nat, k \in Nat, l \in Nat : j = Len(a) /\ k = Len(b) /\ l = Len(c)
      BY LenProperties
    <3>3. /\ a \o b \in Seq(Word) /\ Len(a \o b) = j + k
          /\ \A i \in 1 .. j + k : (a \o b)[i] = IF i <= j THEN a[i] ELSE b[i - j]
      BY <3>2, ConcatProperties
    <3>4. PICK d \in Seq(Word) :
            /\ d = a \o b /\ Len(d) = j + k
            /\ \A i \in 1 .. j + k : d[i] = IF i <= j THEN a[i] ELSE b[i - j]
      BY <3>3
    <3>5. /\ Len(d \o c) = (j + k) + l
          /\ \A i \in 1 .. (j + k) + l : (d \o c)[i] = IF i <= j + k THEN d[i] ELSE c[i - (j + k)]
      BY <3>2, <3>4, ConcatProperties
    <3>6. n \in 1 .. j + k /\ n \in 1 .. (j + k) + l /\ n <= j /\ n <= j + k
      BY <3>1, <3>2
    <3>7. n \in 1 .. Len(d \o c) /\ (d \o c)[n] = a[n]
      BY <3>4, <3>5, <3>6
    <3> QED
      BY <3>4, <3>7, Zenon
  <2>7. Fine(s - 1)
    <3>1. n \in 1 .. Len(taken[<<s - 1, z>>].pli) /\ taken[<<s - 1, z>>].pli[n] = taken[q].pli[n]
      BY <1>8, <1>9, <2>2, <2>4, <2>5, <2>6, Zenon
    <3>2. ASSUME NEW x \in (s - 1) + 1 .. y PROVE ~w[<<x, z>>].from_bus
      <4>1. x = s \/ x \in s + 1 .. y
        BY <1>8
      <4> QED
        BY <1>8, <1>9, <2>1, <4>1
    <3> QED
      BY <2>2, <3>1, <3>2
  <2>8. s - 1 \in 0 .. y /\ ~(s <= s - 1)
    BY <1>8, <2>2
  <2> QED
    BY <1>5, <1>7, <2>7, <2>8
<1>11. Max({p \in 0 .. y : w[<<p, z>>].from_bus}) = s
  <2>1. PICK Q : Q = {p \in 0 .. y : w[<<p, z>>].from_bus}
    OBVIOUS
  <2>2. Q \subseteq 0 .. y /\ s \in Q
    BY <1>8, <1>9, <1>10, <2>1
  <2>3. Max(Q) \in Q /\ \A x \in Q : x <= Max(Q)
    BY <1>2, <2>2, MaxOf
  <2>4. PICK g \in 0 .. y : g = Max(Q) /\ w[<<g, z>>].from_bus /\ s <= g
    BY <2>1, <2>2, <2>3
  <2>5. g \notin s + 1 .. y
    BY <1>8, <2>4
  <2>6. g = s
    BY <1>8, <2>4, <2>5
  <2> QED
    BY <2>1, <2>4, <2>6
<1>12. Source(q) = o
  BY <1>1, <1>2, <1>9, <1>11 DEF Source
<1> QED
  BY <1>1, <1>8, <1>9, <1>10, <1>12

\* A word of a list: as many words of the list come before it as requests that
\* are meant.
LEMMA PlaceOf ==
  ASSUME NEW c \in Channel, NEW q \in PE, NEW m \in Nat, NEW s \in Seq(Word),
         Lists(s, WordsMeant(c, q, m)), NEW n \in 1 .. Len(s)
  PROVE  \E i \in RequestsMeant(c, q, m) :
           s[n] = WordMeant(c, q, i) /\ Cardinality(RequestsMeant(c, q, i)) = n
<1>1. PICK l \in Nat : l = Len(s) /\ n \in 1 .. l
  BY LenProperties
<1>2. /\ \A j \in 1 .. l : s[j] \in WordsMeant(c, q, m)
      /\ \A x \in WordsMeant(c, q, m) : \E j \in 1 .. l : s[j] = x
      /\ \A j, k \in 1 .. l : j < k => s[j][1] < s[k][1]
  BY <1>1, Listed
<1>3. ASSUME NEW j \in 1 .. l
      PROVE  s[j][1] \in RequestsMeant(c, q, m) /\ s[j] = WordMeant(c, q, s[j][1])
             /\ s[j][1] \in Nat
  <2>1. PICK i \in RequestsMeant(c, q, m) : s[j] = WordMeant(c, q, i)
    BY <1>2 DEF WordsMeant
  <2>2. i \in Nat
    BY DEF RequestsMeant
  <2>3. s[j][1] = i
    BY <2>1, <2>2, WordIs
  <2> QED
    BY <2>1, <2>2, <2>3
<1>4. PICK i \in RequestsMeant(c, q, m) : i = s[n][1] /\ s[n] = WordMeant(c, q, i) /\ i \in 1 .. m
  BY <1>1, <1>3 DEF RequestsMeant
<1>5. PICK R : R = RequestsMeant(c, q, i)
  OBVIOUS
<1>6. \A x : x \in R <=> x \in RequestsMeant(c, q, m) /\ x <= i
  <2>1. ASSUME NEW x PROVE x \in 1 .. i <=> x \in 1 .. m /\ x <= i
    BY <1>4
  <2>2. \A x : x \in R <=> x \in 1 .. i /\ Meant(c, q, x)
    BY <1>5, Zenon DEF RequestsMeant
  <2>3. \A x : x \in RequestsMeant(c, q, m) <=> x \in 1 .. m /\ Meant(c, q, x)
    BY Zenon DEF RequestsMeant
  <2> QED
    BY <2>1, <2>2, <2>3, Zenon
<1>7. PICK f : f = [j \in 1 .. n |-> s[j][1]]
  OBVIOUS
<1>8. n \in Nat /\ 1 .. n \subseteq 1 .. l
  BY <1>1
<1>9. f \in Bijection(1 .. n, R)
  <2>1. ASSUME NEW j \in 1 .. n PROVE f[j] \in R
    <3>1. j \in 1 .. l /\ (j < n \/ j = n)
      BY <1>8
    <3>2. s[j][1] <= i
      BY <1>1, <1>2, <1>3, <1>4, <3>1
    <3> QED
      BY <1>3, <1>6, <1>7, <3>1, <3>2
  <2>2. ASSUME NEW j \in 1 .. n, NEW k \in 1 .. n, f[j] = f[k] PROVE j = k
    <3>1. j \in 1 .. l /\ k \in 1 .. l /\ s[j][1] = s[k][1]
      BY <1>7, <1>8, <2>2
    <3>2. ~(j < k) /\ ~(k < j)
      BY <1>2, <1>3, <3>1
    <3> QED
      BY <3>2
  <2>3. ASSUME NEW x \in R PROVE \E j \in 1 .. n : f[j] = x
    <3>1. x \in RequestsMeant(c, q, m) /\ x <= i /\ x \in Nat
      BY <1>6 DEF RequestsMeant
    <3>2. PICK j \in 1 .. l : s[j] = WordMeant(c, q, x)
      BY <1>2, <3>1 DEF WordsMeant
    <3>3. s[j][1] = x
      BY <3>1, <3>2, WordIs
    <3>4. ~(n < j)
      <4>1. SUFFICES ASSUME n < j PROVE FALSE
        OBVIOUS
      <4>2. s[n][1] < s[j][1]
        BY <1>1, <1>2, <4>1
      <4> QED
        BY <1>4, <3>1, <3>3, <4>2
    <3>5. j \in 1 .. n
      BY <1>1, <3>4
    <3> QED
      BY <1>7, <3>3, <3>5
  <2>4. f \in [1 .. n -> R]
    BY <1>7, <2>1
  <2> QED
    BY <2>2, <2>3, <2>4 DEF Bijection, Injection, Surjection, IsInjective
<1>10. Cardinality(R) = n
  <2>1. IsFiniteSet(1 .. n) /\ Cardinality(1 .. n) = n
    BY <1>8, FS_Interval
  <2>2. IsFiniteSet(R) /\ Cardinality(1 .. n) = Cardinality(R)
    BY <1>9, <2>1, FS_Bijection DEF ExistsBijection
  <2> QED
    BY <2>1, <2>2
<1> QED
  BY <1>4, <1>5, <1>10

\* What a PE gave is the sum that was sent for the read.
LEMMA GivenIsSum ==
  ASSUME Configured, Working, NEW word, NEW k, NEW q, GivenBy(taken, word, k, q)
  PROVE  IsSum(word, k, q)
<1>1. Typed /\ Queued /\ Multicast /\ SumsPassedOn
  BY DEF Working
<1>2. PICK n : n = Cardinality(RequestsMeant("plo", q, k))
  OBVIOUS
<1>3. /\ q \in PE /\ Meant("plo", q, k) /\ n \in 1 .. Len(taken[q].pli)
      /\ word = taken[q].pli[n]
  BY <1>2, Zenon DEF GivenBy
<1>4. workload.topology[q].enable /\ n \in Nat
  BY <1>3 DEF Meant
<1>5. PICK o \in PE : /\ o = Source(q) /\ workload.topology[o].from_bus
                      /\ n \in 1 .. Len(taken[o].pli) /\ taken[o].pli[n] = word
  BY <1>1, <1>3, <1>4, FromSource
<1>6. PICK t \in Seq(Word), s \in Seq(Word) : t = taken[o].pli /\ s = pe[o].pli
  BY <1>1 DEF Typed, History, Queues
<1>7. PICK u \in Seq(Word) : u = t \o s /\ n \in 1 .. Len(u) /\ u[n] = t[n]
  <2>1. PICK j \in Nat, l \in Nat : j = Len(t) /\ l = Len(s)
    BY LenProperties
  <2>2. /\ t \o s \in Seq(Word) /\ Len(t \o s) = j + l
        /\ \A i \in 1 .. j + l : (t \o s)[i] = IF i <= j THEN t[i] ELSE s[i - j]
    BY <2>1, ConcatProperties
  <2>3. n \in 1 .. j
    BY <1>5, <1>6, <2>1
  <2>4. n \in 1 .. Len(t \o s) /\ (t \o s)[n] = t[n]
    BY <2>1, <2>2, <2>3
  <2> QED
    BY <2>2, <2>4
<1>8. PICK m \in Nat : m = Sent("pli") /\ m <= Len(script["pli"])
  BY <1>1, WorkloadRuns, SMTT(30) DEF Sent, Typed, Queued, Channel, Send
<1>9. Lists(u, WordsMeant("pli", o, m))
  BY <1>1, <1>5, <1>6, <1>7, <1>8, Zenon DEF Multicast
<1>10. PICK i \in RequestsMeant("pli", o, m) :
         u[n] = WordMeant("pli", o, i) /\ Cardinality(RequestsMeant("pli", o, i)) = n
  <2>1. "pli" \in Channel
    BY DEF Channel, Send
  <2>2. \A z \in Seq(Word) : Lists(z, WordsMeant("pli", o, m)) =>
          \A j \in 1 .. Len(z) : \E i \in RequestsMeant("pli", o, m) :
            z[j] = WordMeant("pli", o, i) /\ Cardinality(RequestsMeant("pli", o, i)) = j
    BY <2>1, PlaceOf, Zenon
  <2>3. u \in Seq(Word) /\ n \in 1 .. Len(u)
    BY <1>7
  <2> QED
    BY <1>9, <2>2, <2>3, Zenon
<1>11. i \in RequestsMeant("pli", o, Len(script["pli"]))
  <2>1. Len(script["pli"]) \in Nat
    BY WorkloadRuns DEF Channel, Send
  <2> QED
    BY <1>8, <1>10, <2>1 DEF RequestsMeant
<1> QED
  BY <1>2, <1>5, <1>6, <1>7, <1>10, <1>11, Zenon DEF IsSum

\* Answers come in the order of their reads, and each holds the sums of its own
\* row.
THEOREM AnswersAreRight == Spec => []AnswersMatchReads
<1>1. IInv => AnswersMatchReads
  <2>1. SUFFICES ASSUME IInv, NEW k \in 1 .. Len(answers) + Len(resp_fifo),
                        NEW words, words = (answers \o resp_fifo)[k]
                 PROVE  IF script["plo"][k].ultra
                        THEN /\ Len(words) = NUM_PORTS
                             /\ \A p \in Port : IsSum(words[p + 1], k, Reader(k, p))
                        ELSE /\ Len(words) = 1
                             /\ IsSum(words[1], k,
                                      Reader(k, Max({p \in Port : Readers(k, p) # {}})))
    BY Zenon DEF AnswersMatchReads
  <2>2. Configured /\ Working /\ Answered
    BY <2>1 DEF IInv, Working
  <2>3. Answers(taken, words, k)
    BY <2>1, <2>2, Zenon DEF Answered
  <2>4. \A word, q : GivenBy(taken, word, k, q) => IsSum(word, k, q)
    BY <2>2, GivenIsSum
  <2> QED
    BY <2>3, <2>4, Zenon DEF Answers
<1> QED
  BY <1>1, Inductive, PTL

-----------------------------------------------------------------------------
(* The ring buffer.                                                        *)

\* A slot and an offset of at most one turn wrap at most once.
LEMMA ModWrap ==
  ASSUME fifo_depth \in Nat \ {0}, NEW r \in Slots, NEW k \in 0 .. fifo_depth
  PROVE  (r + k) % fifo_depth = IF r + k < fifo_depth THEN r + k ELSE r + k - fifo_depth
BY SMTT(30) DEF Slots

\* The next slot.
LEMMA Next1Slot ==
  ASSUME fifo_depth \in Nat \ {0}, NEW p \in Slots
  PROVE  /\ Next1(p) = IF p + 1 = fifo_depth THEN 0 ELSE p + 1
         /\ Next1(p) \in Slots
<1>1. 1 \in 0 .. fifo_depth
  OBVIOUS
<1>2. (p + 1) % fifo_depth = IF p + 1 < fifo_depth THEN p + 1 ELSE p + 1 - fifo_depth
  BY <1>1, ModWrap
<1> QED
  BY <1>2 DEF Slots, Next1

\* An edge keeps every register in its type.
LEMMA RingTypingStep ==
  ASSUME fifo_depth \in Nat \ {0}
  PROVE  RingTypeOK /\ [RingNext]_ringVars => RingTypeOK'
<1> SUFFICES ASSUME RingTypeOK, [RingNext]_ringVars PROVE RingTypeOK'
  OBVIOUS
<1>1. CASE Clear
  BY <1>1 DEF RingTypeOK, Clear, DriveFlags, DriveDataOut, Slots, regs
<1>2. ASSUME NEW push \in BOOLEAN, NEW pop \in BOOLEAN, NEW d \in Data,
             Transfer(push, pop, d)
      PROVE  RingTypeOK'
  <2>1. /\ Next1(read_ptr_reg) \in Slots
        /\ Next1(write_ptr_reg) \in Slots
    BY Next1Slot DEF RingTypeOK
  <2>2. /\ write_ptr_reg' \in Slots
        /\ read_ptr_reg' \in Slots
        /\ storage' \in [Slots -> Data \cup {NoData}]
    BY <2>1, <1>2 DEF RingTypeOK, Transfer
  <2>3. count_reg' \in 0 .. fifo_depth
    BY <1>2 DEF RingTypeOK, Transfer, DoPush, DoPop
  <2>4. /\ empty' \in BOOLEAN
        /\ full' \in BOOLEAN
    BY <1>2 DEF Transfer, DriveFlags
  <2>5. data_out' \in Data \cup {NoData}
    BY <1>2, <2>2 DEF RingTypeOK, Transfer, DriveDataOut
  <2> QED
    BY <2>2, <2>3, <2>4, <2>5 DEF RingTypeOK
<1>3. CASE UNCHANGED ringVars
  BY <1>3 DEF RingTypeOK, ringVars
<1> QED
  BY <1>1, <1>2, <1>3 DEF RingNext

\* The pointers stay within the storage and the count within the depth, whatever
\* the owner of the queue requests.
THEOREM RingTyping ==
  ASSUME fifo_depth \in Nat \ {0}
  PROVE  RingSpec => []RingTypeOK
<1>1. RingInit => RingTypeOK
  <2>1. 0 \in Slots /\ 0 \in 0 .. fifo_depth
    BY DEF Slots
  <2> QED
    BY <2>1 DEF RingInit, RingTypeOK
<1> QED
  BY <1>1, RingTypingStep, PTL DEF RingSpec

\* An edge keeps the count, the pointers and the flags in agreement: a push and a
\* pop of the same edge, at the wrap and at either limit included.
LEMMA CoherentStep ==
  ASSUME fifo_depth \in Nat \ {0}
  PROVE  RingTypeOK /\ Coherent /\ [RingNext]_ringVars => Coherent'
<1> SUFFICES ASSUME RingTypeOK, Coherent, [RingNext]_ringVars PROVE Coherent'
  OBVIOUS
<1>1. CASE Clear
  <2>1. 0 \in Slots /\ 0 \in 0 .. fifo_depth
    BY DEF Slots
  <2>2. (0 + 0) % fifo_depth = 0
    BY <2>1, ModWrap
  <2> QED
    BY <1>1, <2>2 DEF Clear, DriveFlags, Coherent
<1>2. ASSUME NEW push \in BOOLEAN, NEW pop \in BOOLEAN, NEW d \in Data,
             Transfer(push, pop, d)
      PROVE  Coherent'
  <2>1. /\ read_ptr_reg \in Slots /\ write_ptr_reg \in Slots
        /\ count_reg \in 0 .. fifo_depth /\ count_reg' \in 0 .. fifo_depth
    BY <1>2 DEF RingTypeOK, Transfer, DoPush, DoPop
  <2>2. /\ read_ptr_reg' \in Slots
        /\ read_ptr_reg' = IF DoPop(pop)
                           THEN IF read_ptr_reg + 1 = fifo_depth THEN 0 ELSE read_ptr_reg + 1
                           ELSE read_ptr_reg
    BY <1>2, <2>1, Next1Slot DEF Transfer
  <2>3. write_ptr_reg' = IF DoPush(push, pop)
                         THEN IF write_ptr_reg + 1 = fifo_depth THEN 0 ELSE write_ptr_reg + 1
                         ELSE write_ptr_reg
    BY <1>2, <2>1, Next1Slot DEF Transfer
  <2>4. write_ptr_reg = IF read_ptr_reg + count_reg < fifo_depth
                        THEN read_ptr_reg + count_reg
                        ELSE read_ptr_reg + count_reg - fifo_depth
    BY <2>1, ModWrap DEF Coherent
  <2>5. (read_ptr_reg' + count_reg') % fifo_depth
          = IF read_ptr_reg' + count_reg' < fifo_depth
            THEN read_ptr_reg' + count_reg'
            ELSE read_ptr_reg' + count_reg' - fifo_depth
    BY <2>1, <2>2, ModWrap
  <2>6. write_ptr_reg' = (read_ptr_reg' + count_reg') % fifo_depth
    <3>1. count_reg' = count_reg - (IF DoPop(pop) THEN 1 ELSE 0)
                       + (IF DoPush(push, pop) THEN 1 ELSE 0)
      BY <1>2 DEF Transfer
    <3> QED
      BY <2>1, <2>2, <2>3, <2>4, <2>5, <3>1, SMTT(60) DEF Slots
  <2>7. (count_reg' >= fifo_depth) = (count_reg' = fifo_depth)
    BY <2>1
  <2>8. /\ empty' = (count_reg' = 0)
        /\ full' = (count_reg' >= fifo_depth)
    BY <1>2 DEF Transfer, DriveFlags
  <2> QED
    BY <2>6, <2>7, <2>8, Zenon DEF Coherent
<1>3. CASE UNCHANGED ringVars
  BY <1>3 DEF Coherent, ringVars
<1> QED
  BY <1>1, <1>2, <1>3 DEF RingNext

\* The count is always the distance between the pointers, and empty and full are
\* what the count says.
THEOREM Coherence ==
  ASSUME fifo_depth \in Nat \ {0}
  PROVE  RingSpec => []Coherent
<1>1. RingInit => Coherent
  <2>1. 0 \in Slots /\ 0 \in 0 .. fifo_depth
    BY DEF Slots
  <2>2. (0 + 0) % fifo_depth = 0
    BY <2>1, ModWrap
  <2> QED
    BY <2>2 DEF RingInit, Coherent
<1> QED
  BY <1>1, CoherentStep, RingTyping, PTL DEF RingSpec

\* With two slots or more, an edge that moves neither pointer leaves the slot that
\* data_out shows alone.
LEMMA DataOutStep ==
  ASSUME fifo_depth \in Nat \ {0}, fifo_depth > 1
  PROVE  RingTypeOK /\ DataOutIsHead /\ [RingNext]_ringVars => DataOutIsHead'
<1> SUFFICES ASSUME RingTypeOK, DataOutIsHead, [RingNext]_ringVars PROVE DataOutIsHead'
  OBVIOUS
<1>1. CASE Clear
  BY <1>1 DEF Clear, DataOutIsHead
<1>2. ASSUME NEW push \in BOOLEAN, NEW pop \in BOOLEAN, NEW d \in Data,
             Transfer(push, pop, d)
      PROVE  DataOutIsHead'
  <2>1. CASE regs' # regs
    BY <1>2, <2>1 DEF Transfer, DriveDataOut, DataOutIsHead
  <2>2. CASE regs' = regs
    <3>1. /\ Next1(read_ptr_reg) # read_ptr_reg
          /\ Next1(write_ptr_reg) # write_ptr_reg
      BY Next1Slot, SMTT(30) DEF RingTypeOK, Slots
    <3>2. ~DoPush(push, pop)
      BY <1>2, <2>2, <3>1 DEF Transfer, regs
    <3>3. storage' = storage
      BY <1>2, <3>2 DEF Transfer
    <3> QED
      BY <1>2, <2>2, <3>3 DEF Transfer, DriveDataOut, DataOutIsHead, regs
  <2> QED
    BY <2>1, <2>2
<1>3. CASE UNCHANGED ringVars
  BY <1>3 DEF DataOutIsHead, ringVars
<1> QED
  BY <1>1, <1>2, <1>3 DEF RingNext

\* data_out shows the head of the queue, or T() when there is none, although the
\* method that drives it runs only when a register changes; with one slot it is
\* false.
THEOREM HeadVisible ==
  ASSUME fifo_depth \in Nat \ {0}, fifo_depth > 1
  PROVE  RingSpec => []DataOutIsHead
<1>1. RingInit => DataOutIsHead
  BY DEF RingInit, DataOutIsHead
<1>2. RingTypeOK /\ DataOutIsHead /\ [RingNext]_ringVars => DataOutIsHead'
  BY DataOutStep
<1> QED
  BY <1>1, <1>2, RingTyping, PTL DEF RingSpec

-----------------------------------------------------------------------------
(* The refinement: every edge is a step of the bounded queue or a stutter. *)

PlaceFrom(r, i) == (r + i - 1) % fifo_depth
ContentsFrom(st, r, c) == [i \in 1 .. c |-> st[PlaceFrom(r, i)]]

\* Where the i-th entry behind r is.
LEMMA PlaceSlot ==
  ASSUME fifo_depth \in Nat \ {0}, NEW r \in Slots, NEW c \in 0 .. fifo_depth, NEW i \in 1 .. c
  PROVE  /\ PlaceFrom(r, i) \in Slots
         /\ PlaceFrom(r, i) = IF r + i - 1 < fifo_depth THEN r + i - 1 ELSE r + i - 1 - fifo_depth
<1>1. /\ i - 1 \in 0 .. fifo_depth
      /\ i - 1 < fifo_depth
      /\ r + (i - 1) = r + i - 1
  BY DEF Slots
<1>2. (r + (i - 1)) % fifo_depth
        = IF r + (i - 1) < fifo_depth THEN r + (i - 1) ELSE r + (i - 1) - fifo_depth
  BY <1>1, ModWrap
<1> QED
  BY <1>1, <1>2 DEF PlaceFrom, Slots

\* The entries between the pointers form a sequence.
LEMMA ContentsSeq ==
  ASSUME fifo_depth \in Nat \ {0}, NEW st \in [Slots -> Data \cup {NoData}],
         NEW r \in Slots, NEW c \in 0 .. fifo_depth
  PROVE  /\ ContentsFrom(st, r, c) \in Seq(Data \cup {NoData})
         /\ Len(ContentsFrom(st, r, c)) = c
         /\ \A i \in 1 .. c : ContentsFrom(st, r, c)[i] = st[PlaceFrom(r, i)]
<1>1. c \in Nat
  OBVIOUS
<1>2. \A i \in 1 .. c : st[PlaceFrom(r, i)] \in Data \cup {NoData}
  BY PlaceSlot
<1> QED
  BY <1>1, <1>2 DEF ContentsFrom

\* Two sequences are equal if their lengths and entries are.
LEMMA SequencesEqual ==
  ASSUME NEW S, NEW s \in Seq(S), NEW t \in Seq(S), Len(s) = Len(t),
         \A i \in 1 .. Len(s) : s[i] = t[i]
  PROVE  s = t
OBVIOUS

\* An edge of the ring buffer is a step of the bounded queue or leaves it alone.
LEMMA RingRefinementStep ==
  ASSUME fifo_depth \in Nat \ {0}
  PROVE  RingTypeOK /\ Coherent /\ [RingNext]_ringVars => [Queue!Next]_Contents
<1> SUFFICES ASSUME RingTypeOK, Coherent, [RingNext]_ringVars PROVE [Queue!Next]_Contents
  OBVIOUS
<1> DEFINE E == Data \cup {NoData}
<1>1. RingTypeOK'
  BY RingTypingStep
<1>2. /\ Contents = ContentsFrom(storage, read_ptr_reg, count_reg)
      /\ Contents' = ContentsFrom(storage', read_ptr_reg', count_reg')
  BY DEF Contents, ContentsFrom, PlaceFrom
<1>3. /\ Contents \in Seq(E)
      /\ Len(Contents) = count_reg
      /\ \A i \in 1 .. count_reg :
            Contents[i] = storage[PlaceFrom(read_ptr_reg, i)]
  BY <1>2, ContentsSeq DEF RingTypeOK
<1>4. /\ Contents' \in Seq(E)
      /\ Len(Contents') = count_reg'
      /\ \A i \in 1 .. count_reg' :
            Contents'[i] = storage'[PlaceFrom(read_ptr_reg', i)]
  BY <1>2, <1>1, ContentsSeq DEF RingTypeOK
<1>5. CASE Clear
  <2>1. count_reg' = 0
    BY <1>5 DEF Clear
  <2>2. Contents' = <<>>
    BY <1>4, <2>1
  <2> QED
    BY <2>2 DEF Queue!Next, Queue!Clear
<1>6. ASSUME NEW push \in BOOLEAN, NEW pop \in BOOLEAN, NEW d \in Data,
             Transfer(push, pop, d)
      PROVE  [Queue!Next]_Contents
  <2> DEFINE P == DoPop(pop)
             Q == DoPush(push, pop)
             shift == IF P THEN 1 ELSE 0
  <2>1. /\ read_ptr_reg \in Slots /\ write_ptr_reg \in Slots
        /\ read_ptr_reg' \in Slots
        /\ count_reg \in 0 .. fifo_depth /\ count_reg' \in 0 .. fifo_depth
        /\ storage \in [Slots -> E]
        /\ fifo_depth \in Nat /\ fifo_depth > 0
    BY <1>1 DEF RingTypeOK
  <2>2. /\ count_reg' = count_reg - shift + (IF Q THEN 1 ELSE 0)
        /\ P => count_reg > 0
        /\ Q /\ ~P => count_reg < fifo_depth
    BY <1>6, <2>1 DEF Transfer, DoPop, DoPush
  <2>3. /\ read_ptr_reg' = IF P THEN IF read_ptr_reg + 1 = fifo_depth THEN 0 ELSE read_ptr_reg + 1
                           ELSE read_ptr_reg
        /\ storage' = IF Q THEN [storage EXCEPT ![write_ptr_reg] = d] ELSE storage
    BY <1>6, <2>1, Next1Slot DEF Transfer
  <2>4. write_ptr_reg = IF read_ptr_reg + count_reg < fifo_depth
                        THEN read_ptr_reg + count_reg
                        ELSE read_ptr_reg + count_reg - fifo_depth
    BY <2>1, ModWrap DEF Coherent
  <2>5. ASSUME NEW i \in 1 .. count_reg', i + shift <= count_reg
        PROVE  Contents'[i] = Contents[i + shift]
    <3>1. i + shift \in 1 .. count_reg
      BY <2>1, <2>5
    <3>2. /\ PlaceFrom(read_ptr_reg, i + shift) \in Slots
          /\ PlaceFrom(read_ptr_reg, i + shift)
               = IF read_ptr_reg + (i + shift) - 1 < fifo_depth
                 THEN read_ptr_reg + (i + shift) - 1
                 ELSE read_ptr_reg + (i + shift) - 1 - fifo_depth
      BY <3>1, <2>1, PlaceSlot
    <3>3. PlaceFrom(read_ptr_reg', i)
               = IF read_ptr_reg' + i - 1 < fifo_depth
                 THEN read_ptr_reg' + i - 1
                 ELSE read_ptr_reg' + i - 1 - fifo_depth
      BY <2>1, PlaceSlot
    <3>4. PlaceFrom(read_ptr_reg', i) = PlaceFrom(read_ptr_reg, i + shift)
      BY <3>1, <3>2, <3>3, <2>1, <2>3, SMTT(30) DEF Slots
    <3>5. Q => PlaceFrom(read_ptr_reg, i + shift) # write_ptr_reg
      BY <3>1, <3>2, <2>1, <2>2, <2>4, SMTT(30) DEF Slots
    <3>6. storage'[PlaceFrom(read_ptr_reg, i + shift)]
            = storage[PlaceFrom(read_ptr_reg, i + shift)]
      BY <3>2, <3>5, <2>1, <2>3, SMTT(30)
    <3> QED
      BY <1>3, <1>4, <3>1, <3>4, <3>6
  <2>6. ASSUME NEW i \in 1 .. count_reg', i + shift > count_reg
        PROVE  Contents'[i] = d
    <3>1. Q /\ i = count_reg + 1 - shift
      BY <2>1, <2>2, <2>6
    <3>2. PlaceFrom(read_ptr_reg', i)
               = IF read_ptr_reg' + i - 1 < fifo_depth
                 THEN read_ptr_reg' + i - 1
                 ELSE read_ptr_reg' + i - 1 - fifo_depth
      BY <2>1, PlaceSlot
    <3>3. PlaceFrom(read_ptr_reg', i) = write_ptr_reg
      BY <3>1, <3>2, <2>1, <2>2, <2>3, <2>4, SMTT(30) DEF Slots
    <3>4. storage'[write_ptr_reg] = d
      BY <3>1, <2>1, <2>3
    <3> QED
      BY <1>4, <3>3, <3>4
  <2>7. CASE ~P /\ ~Q
    <3>1. count_reg' = count_reg
      BY <2>1, <2>2, <2>7
    <3>2. \A i \in 1 .. Len(Contents') : Contents'[i] = Contents[i]
      BY <1>4, <2>1, <2>5, <2>7, <3>1
    <3>3. Contents' = Contents
      BY <1>3, <1>4, <3>1, <3>2, SequencesEqual
    <3> QED
      BY <3>3
  <2>8. CASE ~P /\ Q
    <3>1. count_reg' = count_reg + 1 /\ count_reg < fifo_depth
      BY <2>1, <2>2, <2>8
    <3>2. /\ Append(Contents, d) \in Seq(E)
          /\ Len(Append(Contents, d)) = count_reg + 1
          /\ \A i \in 1 .. count_reg : Append(Contents, d)[i] = Contents[i]
          /\ Append(Contents, d)[count_reg + 1] = d
      BY <1>3, <2>1
    <3>3. \A i \in 1 .. Len(Contents') : Contents'[i] = Append(Contents, d)[i]
      BY <1>4, <2>1, <2>5, <2>6, <2>8, <3>1, <3>2
    <3>4. Contents' = Append(Contents, d)
      BY <1>4, <3>1, <3>2, <3>3, SequencesEqual
    <3> QED
      BY <1>3, <3>1, <3>4 DEF Queue!Next, Queue!Put
  <2>9. CASE P
    <3>1. /\ Tail(Contents) \in Seq(E)
          /\ Len(Tail(Contents)) = count_reg - 1
          /\ \A i \in 1 .. count_reg - 1 : Tail(Contents)[i] = Contents[i + 1]
          /\ Contents # <<>>
      BY <1>3, <2>1, <2>2, <2>9
    <3>2. CASE ~Q
      <4>1. count_reg' = count_reg - 1
        BY <2>1, <2>2, <2>9, <3>2
      <4>2. \A i \in 1 .. Len(Contents') : Contents'[i] = Tail(Contents)[i]
        BY <1>4, <2>1, <2>5, <2>9, <3>1, <4>1
      <4>3. Contents' = Tail(Contents)
        BY <1>4, <3>1, <4>1, <4>2, SequencesEqual
      <4> QED
        BY <3>1, <4>3 DEF Queue!Next, Queue!Get
    <3>3. CASE Q
      <4> DEFINE T == Append(Tail(Contents), d)
      <4>1. count_reg' = count_reg
        BY <2>1, <2>2, <2>9, <3>3
      <4>2. /\ T \in Seq(E)
            /\ Len(T) = count_reg
            /\ \A i \in 1 .. count_reg - 1 : T[i] = Contents[i + 1]
            /\ T[count_reg] = d
        BY <3>1, <2>1, <2>2, <2>9
      <4>3. \A i \in 1 .. Len(Contents') : Contents'[i] = T[i]
        BY <1>4, <2>1, <2>5, <2>6, <2>9, <4>1, <4>2
      <4>4. Contents' = T
        BY <1>4, <4>1, <4>2, <4>3, SequencesEqual
      <4> QED
        BY <3>1, <4>4 DEF Queue!Next, Queue!Exchange
    <3> QED
      BY <3>2, <3>3
  <2> QED
    BY <2>7, <2>8, <2>9
<1>7. CASE UNCHANGED ringVars
  BY <1>7 DEF ringVars, Contents
<1> QED
  BY <1>5, <1>6, <1>7 DEF RingNext

\* The ring buffer implements the bounded queue: nothing is lost, duplicated or
\* reordered, and pushes into a full queue are refused.
THEOREM RingRefinement ==
  ASSUME fifo_depth \in Nat \ {0}
  PROVE  RingSpec => ImplementsQueue
<1>1. RingInit => Queue!Init
  BY DEF RingInit, Queue!Init, Contents
<1> QED
  BY <1>1, RingRefinementStep, RingTyping, Coherence, PTL
     DEF RingSpec, Queue!Spec, ImplementsQueue
=============================================================================
