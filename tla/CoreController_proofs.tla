------------------------ MODULE CoreController_proofs ------------------------
(***************************************************************************)
(* The core controller's two parts, each for every value of its constants. *)
(*                                                                         *)
(* The boot: whatever the manifest, the DRAM's delays and errors and the   *)
(* driver's pauses, the memories hold what the loader has copied, the core *)
(* does not run before the loader has ended, and every register write of   *)
(* the driver's is one write of the interface.  An edge moves the driver,  *)
(* the interface, the loader and the DRAM together; the invariant says     *)
(* where each is in the others' protocol.  The loader's place in the image *)
(* is the one thing that the memories follow: a step of the loader either  *)
(* leaves it, passes one word, or passes from one section to the next.     *)
(*                                                                         *)
(* The interrupt controller: no interrupt is lost whatever software does,  *)
(* and under the firmware MEIP never goes stale, although nothing computes *)
(* it when a priority changes.                                             *)
(***************************************************************************)
EXTENDS Boot, PlicFirmware, FiniteSetTheorems, TLAPS

-----------------------------------------------------------------------------
(* The loader, by its place.                                               *)

Address == {"entry", "payload"} \X Nat \X Nat
LdErrors == {"LD_OK", "LD_ERR_AXI", "LD_ERR_MANIFEST_SIZE", "LD_ERR_BAD_SECTION_KIND",
             "LD_ERR_LOCAL_ADDR_OOB", "LD_ERR_SIZE_OOB"}
Put == [at : BOOLEAN \X Nat, word : Nat \X Nat, strb : SUBSET Int]

LoaderType ==
  [state : {"LD_IDLE", "LD_FETCH", "LD_ROUTE", "LD_WRITE_LOCAL", "LD_VERIFY", "LD_DONE", "LD_ERR"},
   pc : {"top", "ar", "r", "word"}, entry_idx : Nat, total_entries : Nat, beat : Nat,
   cur_entry : Entry, at : Nat, data : Address, ar : Seq(Address), r_ready : BOOLEAN,
   wr : Seq(Put), load_phase : BOOLEAN, busy : BOOLEAN, done : BOOLEAN, err : LdErrors]

\* What the loader asks for, and the word that it writes, at its place.
Asked(l) ==
  IF l.state = "LD_FETCH" THEN <<"entry", l.entry_idx, l.beat>>
  ELSE <<"payload", l.entry_idx, l.at>>

PutOf(e, i, a) ==
  [at |-> <<in_isram(e), e.local + a>>, word |-> <<i, a>>, strb |-> strb(e, a)]
PutAt(l) == PutOf(l.cur_entry, l.entry_idx, l.at)

\* Its outputs are those of where it waits.
Outputs(l) ==
  /\ l.ar = IF l.pc = "ar" THEN <<Asked(l)>> ELSE <<>>
  /\ l.r_ready <=> l.pc \in {"ar", "r"}
  /\ l.wr = IF l.pc = "word" THEN <<PutAt(l)>> ELSE <<>>
  /\ l.load_phase <=> l.busy
  /\ l.pc = "word" => l.beat <= l.at /\ l.data = <<"payload", l.entry_idx, l.at - l.beat>>
  /\ l.pc \in {"ar", "r"} /\ l.state = "LD_WRITE_LOCAL" => l.beat = 0
  /\ l.pc \in {"ar", "r"} => l.state \in {"LD_FETCH", "LD_WRITE_LOCAL"}
  /\ l.pc = "word" => l.state = "LD_WRITE_LOCAL"

\* It is in the words of an entry of m.
InEntry(l, m) == l.entry_idx < Len(m.entries) /\ l.cur_entry = m.entries[l.entry_idx + 1]

\* Where it is in the manifest m, state by state.
AtPlace(l, m) ==
  /\ l.state = "LD_IDLE" =>
       ~l.busy /\ ~l.done /\ l.err = "LD_OK" /\ l.entry_idx = 0 /\ l.at = 0
       /\ l.cur_entry.size = 0
  /\ l.state \in {"LD_FETCH", "LD_ROUTE", "LD_WRITE_LOCAL", "LD_VERIFY"} =>
       l.busy /\ ~l.done /\ l.err = "LD_OK" /\ l.total_entries = Len(m.entries)
  /\ l.state = "LD_FETCH" =>
       /\ l.entry_idx <= Len(m.entries) /\ l.at = l.cur_entry.size
       /\ l.pc # "top" => l.entry_idx < Len(m.entries)
  /\ l.state = "LD_ROUTE" => InEntry(l, m) /\ l.at = 0
  /\ l.state = "LD_WRITE_LOCAL" =>
       InEntry(l, m) /\ l.at <= l.cur_entry.size /\ (l.pc # "top" => l.at < l.cur_entry.size)
  /\ l.state = "LD_VERIFY" => InEntry(l, m) /\ l.at = l.cur_entry.size
  /\ l.state = "LD_DONE" => l.entry_idx = Len(m.entries) /\ l.err = "LD_OK"
  /\ l.state = "LD_ERR" =>
       /\ l.err # "LD_OK" /\ ~l.done /\ l.entry_idx <= Len(m.entries)
       /\ l.err = "LD_ERR_AXI" /\ l.at < l.cur_entry.size => InEntry(l, m)

LoaderOk(l, m) == l \in LoaderType /\ Outputs(l) /\ AtPlace(l, m)

\* The loader has come to its end.
Ended(l) == l.done \/ l.err # "LD_OK"

\* within_entry and Copied of a loader l.
Within(l) ==
  \/ l.state \in {"LD_WRITE_LOCAL", "LD_VERIFY"}
  \/ l.state = "LD_ERR" /\ l.err = "LD_ERR_AXI" /\ l.at < l.cur_entry.size

Place(l) == <<l.entry_idx, IF Within(l) THEN l.at ELSE 0>>

\* The step from l to k changes neither the place nor the end.
Keeps(l, k, m) ==
  /\ LoaderOk(k, m)
  /\ Ended(l) => Ended(k)
  /\ l.state # "LD_IDLE" => k.state # "LD_IDLE"

\* What the loader starts from at the head of its loop.
Cleared(l) == [l EXCEPT !.ar = <<>>, !.r_ready = FALSE, !.wr = <<>>]

ManifestType == [aligned : BOOLEAN, entries : Seq(Entry)]

\* At the head of the loop nothing is driven.
LEMMA ClearedIsSame ==
  ASSUME NEW m, NEW l, LoaderOk(l, m), l.pc = "top"
  PROVE  Cleared(l) = l
<1>1. l.ar = <<>> /\ l.r_ready = FALSE /\ l.wr = <<>>
  BY DEF LoaderOk, Outputs, LoaderType
<1> QED
  BY <1>1 DEF Cleared, LoaderOk, LoaderType

\* The errors of a bad entry are not the DRAM's.
LEMMA ErrorsOfEntry ==
  ASSUME NEW e \in Entry
  PROVE  validate_entry(e) \in LdErrors \ {"LD_ERR_AXI"}
BY DEF validate_entry, LdErrors

\* A write to a memory.
LEMMA PutTyped ==
  ASSUME NEW e \in Entry, NEW i \in Nat, NEW a \in Nat
  PROVE  <<PutOf(e, i, a)>> \in Seq(Put)
<1>1. in_isram(e) \in BOOLEAN
  BY Zenon DEF in_isram
<1>2. e.local + a \in Nat
  BY DEF Entry
<1>3. PICK s \in SUBSET Int : s = strb(e, a)
  BY DEF strb
<1>4. PutOf(e, i, a) = [at |-> <<in_isram(e), e.local + a>>, word |-> <<i, a>>, strb |-> s]
  BY <1>3 DEF PutOf
<1>5. PutOf(e, i, a) \in Put
  BY <1>1, <1>2, <1>4 DEF Put
<1> QED
  BY <1>5

\* LD_IDLE.
LEMMA IdleStep ==
  ASSUME NEW m \in ManifestType, NEW l, LoaderOk(l, m),
         NEW g \in ManifestType, l.pc = "top", l.state = "LD_IDLE",
         NEW kick \in BOOLEAN, kick => g.entries = m.entries
  PROVE  /\ Keeps(l, Idle(l, kick, g), m) /\ Place(Idle(l, kick, g)) = Place(l)
         /\ Idle(l, kick, g).pc = "top"
         /\ ~kick => Idle(l, kick, g).state = "LD_IDLE"
<1>1. CASE ~kick
  <2>1. PICK k : k = Idle(l, kick, g)
    OBVIOUS
  <2>2. l \in LoaderType
    BY DEF LoaderOk
  <2>3. k = [l EXCEPT !.load_phase = FALSE, !.busy = FALSE]
    BY <1>1, <2>1 DEF Idle
  <2>4. k \in LoaderType
    BY <2>2, <2>3, <1>1 DEF LoaderType, LdErrors, Address, Put, Entry, NoData, ManifestType
  <2>5. /\ k.state = l.state /\ k.pc = l.pc /\ k.entry_idx = l.entry_idx
        /\ k.total_entries = l.total_entries /\ k.beat = l.beat
        /\ k.cur_entry = l.cur_entry /\ k.at = l.at /\ k.data = l.data /\ k.ar = l.ar
        /\ k.r_ready = l.r_ready /\ k.wr = l.wr /\ k.load_phase = FALSE /\ k.busy = FALSE
        /\ k.done = l.done /\ k.err = l.err
    BY <2>2, <2>3 DEF LoaderType
  <2>6. Outputs(k)
    BY <2>2, <2>5, <1>1 DEF Outputs, LoaderOk, LoaderType, Asked, PutAt
  <2>7. AtPlace(k, m)
    BY <2>2, <2>5, <1>1 DEF AtPlace, InEntry, LoaderOk, LoaderType, ManifestType, Entry, Outputs
  <2>8. Keeps(l, k, m)
    BY <2>2, <2>4, <2>5, <2>6, <2>7, <1>1 DEF Keeps, LoaderOk, Ended, AtPlace, LoaderType
  <2>9. Place(k) = Place(l)
    BY <2>2, <2>5, <1>1 DEF Place, Within, LoaderOk, AtPlace, LoaderType, Entry
  <2> QED
    BY <1>1, <2>1, <2>5, <2>8, <2>9
<1>2. CASE kick /\ ~g.aligned
  <2>1. PICK k : k = Idle(l, kick, g)
    OBVIOUS
  <2>2. l \in LoaderType
    BY DEF LoaderOk
  <2>3. k = [l EXCEPT !.load_phase = FALSE, !.busy = FALSE, !.err = "LD_ERR_MANIFEST_SIZE",
                      !.state = "LD_ERR"]
    BY <1>2, <2>1 DEF Idle
  <2>4. k \in LoaderType
    BY <2>2, <2>3 DEF LoaderType, LdErrors, Address, Put, Entry, NoData, ManifestType
  <2>5. /\ k.state = "LD_ERR" /\ k.pc = l.pc /\ k.entry_idx = l.entry_idx
        /\ k.total_entries = l.total_entries /\ k.beat = l.beat
        /\ k.cur_entry = l.cur_entry /\ k.at = l.at /\ k.data = l.data /\ k.ar = l.ar
        /\ k.r_ready = l.r_ready /\ k.wr = l.wr /\ k.load_phase = FALSE /\ k.busy = FALSE
        /\ k.done = l.done /\ k.err = "LD_ERR_MANIFEST_SIZE"
    BY <2>2, <2>3 DEF LoaderType
  <2>6. Outputs(k)
    BY <2>2, <2>5 DEF Outputs, LoaderOk, LoaderType, Asked, PutAt
  <2>7. AtPlace(k, m)
    BY <2>2, <2>5 DEF AtPlace, InEntry, LoaderOk, LoaderType, ManifestType, Entry, Outputs
  <2>8. Keeps(l, k, m)
    BY <2>2, <2>4, <2>5, <2>6, <2>7 DEF Keeps, LoaderOk, Ended, AtPlace, LoaderType
  <2>9. Place(k) = Place(l)
    BY <2>2, <2>5 DEF Place, Within, LoaderOk, AtPlace, LoaderType, Entry
  <2> QED
    BY <1>2, <2>1, <2>5, <2>8, <2>9
<1>3. CASE kick /\ g.aligned
  <2>1. PICK k : k = Idle(l, kick, g)
    OBVIOUS
  <2>2. l \in LoaderType
    BY DEF LoaderOk
  <2>3. k = [l EXCEPT !.load_phase = TRUE, !.busy = TRUE, !.err = "LD_OK",
                      !.state = "LD_FETCH", !.entry_idx = 0, !.total_entries = Len(g.entries)]
    BY <1>3, <2>1 DEF Idle
  <2>4. Len(g.entries) \in Nat
    BY DEF ManifestType
  <2>5. k \in LoaderType
    BY <2>4, <2>2, <2>3, <1>3 DEF LoaderType, LdErrors
  <2>6. /\ k.state = "LD_FETCH" /\ k.pc = l.pc /\ k.entry_idx = 0
        /\ k.total_entries = Len(g.entries) /\ k.beat = l.beat
        /\ k.cur_entry = l.cur_entry /\ k.at = l.at /\ k.data = l.data /\ k.ar = l.ar
        /\ k.r_ready = l.r_ready /\ k.wr = l.wr /\ k.load_phase = TRUE /\ k.busy = TRUE
        /\ k.done = l.done /\ k.err = "LD_OK"
    BY <2>2, <2>3 DEF LoaderType
  <2>7. Outputs(k)
    BY <2>2, <2>6, <1>3 DEF Outputs, LoaderOk, LoaderType, Asked, PutAt
  <2>8. AtPlace(k, m)
    BY <2>2, <2>6, <1>3 DEF AtPlace, InEntry, LoaderOk, LoaderType, ManifestType, Entry, Outputs
  <2>9. Keeps(l, k, m)
    BY <2>2, <2>5, <2>6, <2>7, <2>8, <1>3 DEF Keeps, LoaderOk, Ended, AtPlace, LoaderType
  <2>10. Place(k) = Place(l)
    BY <2>2, <2>6, <1>3 DEF Place, Within, LoaderOk, AtPlace, LoaderType, Entry
  <2> QED
    BY <1>3, <2>1, <2>6, <2>9, <2>10
<1> QED
  BY <1>1, <1>2, <1>3

\* LD_FETCH.
LEMMA FetchStep ==
  ASSUME NEW m \in ManifestType, NEW l, LoaderOk(l, m),
         l.pc = "top", l.state = "LD_FETCH"
  PROVE  /\ Keeps(l, Fetch(l), m) /\ Place(Fetch(l)) = Place(l)
         /\ Fetch(l).pc \in {"top", "ar"}
<1>1. CASE l.entry_idx >= l.total_entries
  <2>1. PICK k : k = Fetch(l)
    OBVIOUS
  <2>2. l \in LoaderType
    BY DEF LoaderOk
  <2>3. k = [l EXCEPT !.state = "LD_DONE"]
    BY <1>1, <2>1 DEF Fetch
  <2>4. k \in LoaderType
    BY <2>2, <2>3, <1>1 DEF LoaderType, LdErrors, Address, Put, Entry, NoData, ManifestType
  <2>5. /\ k.state = "LD_DONE" /\ k.pc = l.pc /\ k.entry_idx = l.entry_idx
        /\ k.total_entries = l.total_entries /\ k.beat = l.beat
        /\ k.cur_entry = l.cur_entry /\ k.at = l.at /\ k.data = l.data /\ k.ar = l.ar
        /\ k.r_ready = l.r_ready /\ k.wr = l.wr /\ k.load_phase = l.load_phase
        /\ k.busy = l.busy /\ k.done = l.done /\ k.err = l.err
    BY <2>2, <2>3 DEF LoaderType
  <2>6. Outputs(k)
    BY <2>2, <2>5, <1>1 DEF Outputs, LoaderOk, LoaderType, Asked, PutAt
  <2>7. AtPlace(k, m)
    BY <2>2, <2>5, <1>1 DEF AtPlace, InEntry, LoaderOk, LoaderType, ManifestType, Entry, Outputs
  <2>8. Keeps(l, k, m)
    BY <2>2, <2>4, <2>5, <2>6, <2>7, <1>1 DEF Keeps, LoaderOk, Ended, AtPlace, LoaderType
  <2>9. Place(k) = Place(l)
    BY <2>2, <2>5, <1>1 DEF Place, Within, LoaderOk, AtPlace, LoaderType, Entry
  <2> QED
    BY <2>1, <2>5, <2>8, <2>9
<1>2. CASE ~(l.entry_idx >= l.total_entries)
  <2>1. PICK k : k = Fetch(l)
    OBVIOUS
  <2>2. l \in LoaderType
    BY DEF LoaderOk
  <2>3. k = [l EXCEPT !.beat = 0, !.pc = "ar", !.ar = <<<<"entry", l.entry_idx, 0>>>>,
                      !.r_ready = TRUE]
    BY <1>2, <2>1 DEF Fetch, AskBeat, LoaderOk, LoaderType
  <2>4. <<<<"entry", l.entry_idx, 0>>>> \in Seq(Address)
    BY <2>2 DEF LoaderType, Address
  <2>5. k \in LoaderType
    BY <2>4, <2>2, <2>3, <1>2 DEF LoaderType, LdErrors
  <2>6. /\ k.state = l.state /\ k.pc = "ar" /\ k.entry_idx = l.entry_idx
        /\ k.total_entries = l.total_entries /\ k.beat = 0 /\ k.cur_entry = l.cur_entry
        /\ k.at = l.at /\ k.data = l.data /\ k.ar = <<<<"entry", l.entry_idx, 0>>>>
        /\ k.r_ready = TRUE /\ k.wr = l.wr /\ k.load_phase = l.load_phase
        /\ k.busy = l.busy /\ k.done = l.done /\ k.err = l.err
    BY <2>2, <2>3 DEF LoaderType
  <2>7. Outputs(k)
    BY <2>2, <2>6, <1>2 DEF Outputs, LoaderOk, LoaderType, Asked, PutAt
  <2>8. AtPlace(k, m)
    BY <2>2, <2>6, <1>2 DEF AtPlace, InEntry, LoaderOk, LoaderType, ManifestType, Entry, Outputs
  <2>9. Keeps(l, k, m)
    BY <2>2, <2>5, <2>6, <2>7, <2>8, <1>2 DEF Keeps, LoaderOk, Ended, AtPlace, LoaderType
  <2>10. Place(k) = Place(l)
    BY <2>2, <2>6, <1>2 DEF Place, Within, LoaderOk, AtPlace, LoaderType, Entry
  <2> QED
    BY <2>1, <2>6, <2>9, <2>10
<1> QED
  BY <1>1, <1>2

\* LD_ROUTE.
LEMMA RouteStep ==
  ASSUME NEW m \in ManifestType, NEW l, LoaderOk(l, m),
         l.pc = "top", l.state = "LD_ROUTE"
  PROVE  /\ Keeps(l, Route(l), m) /\ Place(Route(l)) = Place(l)
         /\ Route(l).pc = "top"
<1>1. CASE validate_entry(l.cur_entry) # "LD_OK"
  <2>1. PICK k : k = Route(l)
    OBVIOUS
  <2>2. l \in LoaderType
    BY DEF LoaderOk
  <2>3. k = [l EXCEPT !.err = validate_entry(l.cur_entry), !.state = "LD_ERR", !.pc = "top",
                      !.r_ready = FALSE]
    BY <1>1, <2>1 DEF Route, Fail
  <2>4. k \in LoaderType
    BY <2>2, <2>3, <1>1, ErrorsOfEntry
       DEF LoaderType, LdErrors, Address, Put, Entry, NoData, ManifestType
  <2>5. /\ k.state = "LD_ERR" /\ k.pc = "top" /\ k.entry_idx = l.entry_idx
        /\ k.total_entries = l.total_entries /\ k.beat = l.beat
        /\ k.cur_entry = l.cur_entry /\ k.at = l.at /\ k.data = l.data /\ k.ar = l.ar
        /\ k.r_ready = FALSE /\ k.wr = l.wr /\ k.load_phase = l.load_phase
        /\ k.busy = l.busy /\ k.done = l.done /\ k.err = validate_entry(l.cur_entry)
    BY <2>2, <2>3 DEF LoaderType
  <2>6. Outputs(k)
    BY <2>2, <2>5, <1>1, ErrorsOfEntry DEF Outputs, LoaderOk, LoaderType, Asked, PutAt
  <2>7. AtPlace(k, m)
    BY <2>2, <2>5, <1>1, ErrorsOfEntry
       DEF AtPlace, InEntry, LoaderOk, LoaderType, ManifestType, Entry, Outputs
  <2>8. Keeps(l, k, m)
    BY <2>2, <2>4, <2>5, <2>6, <2>7, <1>1, ErrorsOfEntry
       DEF Keeps, LoaderOk, Ended, AtPlace, LoaderType
  <2>9. Place(k) = Place(l)
    BY <2>2, <2>5, <1>1, ErrorsOfEntry DEF Place, Within, LoaderOk, AtPlace, LoaderType, Entry
  <2> QED
    BY <2>1, <2>5, <2>8, <2>9
<1>2. CASE validate_entry(l.cur_entry) = "LD_OK"
  <2>1. PICK k : k = Route(l)
    OBVIOUS
  <2>2. l \in LoaderType
    BY DEF LoaderOk
  <2>3. k = [l EXCEPT !.at = 0, !.state = "LD_WRITE_LOCAL"]
    BY <1>2, <2>1 DEF Route
  <2>4. k \in LoaderType
    BY <2>2, <2>3, <1>2 DEF LoaderType, LdErrors, Address, Put, Entry, NoData, ManifestType
  <2>5. /\ k.state = "LD_WRITE_LOCAL" /\ k.pc = l.pc /\ k.entry_idx = l.entry_idx
        /\ k.total_entries = l.total_entries /\ k.beat = l.beat
        /\ k.cur_entry = l.cur_entry /\ k.at = 0 /\ k.data = l.data /\ k.ar = l.ar
        /\ k.r_ready = l.r_ready /\ k.wr = l.wr /\ k.load_phase = l.load_phase
        /\ k.busy = l.busy /\ k.done = l.done /\ k.err = l.err
    BY <2>2, <2>3 DEF LoaderType
  <2>6. Outputs(k)
    BY <2>2, <2>5, <1>2 DEF Outputs, LoaderOk, LoaderType, Asked, PutAt
  <2>7. AtPlace(k, m)
    BY <2>2, <2>5, <1>2 DEF AtPlace, InEntry, LoaderOk, LoaderType, ManifestType, Entry, Outputs
  <2>8. Keeps(l, k, m)
    BY <2>2, <2>4, <2>5, <2>6, <2>7, <1>2 DEF Keeps, LoaderOk, Ended, AtPlace, LoaderType
  <2>9. Place(k) = Place(l)
    BY <2>2, <2>5, <1>2 DEF Place, Within, LoaderOk, AtPlace, LoaderType, Entry
  <2> QED
    BY <2>1, <2>5, <2>8, <2>9
<1> QED
  BY <1>1, <1>2

\* LD_WRITE_LOCAL, up to the beat.
LEMMA WriteLocalStep ==
  ASSUME NEW m \in ManifestType, NEW l, LoaderOk(l, m),
         l.pc = "top", l.state = "LD_WRITE_LOCAL"
  PROVE  /\ Keeps(l, WriteLocal(l), m) /\ Place(WriteLocal(l)) = Place(l)
         /\ WriteLocal(l).pc \in {"top", "ar"}
<1>1. CASE l.at = l.cur_entry.size
  <2>1. PICK k : k = WriteLocal(l)
    OBVIOUS
  <2>2. l \in LoaderType
    BY DEF LoaderOk
  <2>3. k = [l EXCEPT !.state = "LD_VERIFY"]
    BY <1>1, <2>1 DEF WriteLocal
  <2>4. k \in LoaderType
    BY <2>2, <2>3, <1>1 DEF LoaderType, LdErrors, Address, Put, Entry, NoData, ManifestType
  <2>5. /\ k.state = "LD_VERIFY" /\ k.pc = l.pc /\ k.entry_idx = l.entry_idx
        /\ k.total_entries = l.total_entries /\ k.beat = l.beat
        /\ k.cur_entry = l.cur_entry /\ k.at = l.at /\ k.data = l.data /\ k.ar = l.ar
        /\ k.r_ready = l.r_ready /\ k.wr = l.wr /\ k.load_phase = l.load_phase
        /\ k.busy = l.busy /\ k.done = l.done /\ k.err = l.err
    BY <2>2, <2>3 DEF LoaderType
  <2>6. Outputs(k)
    BY <2>2, <2>5, <1>1 DEF Outputs, LoaderOk, LoaderType, Asked, PutAt
  <2>7. AtPlace(k, m)
    BY <2>2, <2>5, <1>1 DEF AtPlace, InEntry, LoaderOk, LoaderType, ManifestType, Entry, Outputs
  <2>8. Keeps(l, k, m)
    BY <2>2, <2>4, <2>5, <2>6, <2>7, <1>1 DEF Keeps, LoaderOk, Ended, AtPlace, LoaderType
  <2>9. Place(k) = Place(l)
    BY <2>2, <2>5, <1>1 DEF Place, Within, LoaderOk, AtPlace, LoaderType, Entry
  <2> QED
    BY <2>1, <2>5, <2>8, <2>9
<1>2. CASE l.at # l.cur_entry.size
  <2>1. PICK k : k = WriteLocal(l)
    OBVIOUS
  <2>2. l \in LoaderType
    BY DEF LoaderOk
  <2>3. k = [l EXCEPT !.beat = 0, !.pc = "ar", !.ar = <<<<"payload", l.entry_idx, l.at>>>>,
                      !.r_ready = TRUE]
    BY <1>2, <2>1 DEF WriteLocal, AskBeat, LoaderOk, LoaderType
  <2>4. <<<<"payload", l.entry_idx, l.at>>>> \in Seq(Address)
    BY <2>2 DEF LoaderType, Address
  <2>5. k \in LoaderType
    BY <2>4, <2>2, <2>3, <1>2 DEF LoaderType, LdErrors
  <2>6. /\ k.state = l.state /\ k.pc = "ar" /\ k.entry_idx = l.entry_idx
        /\ k.total_entries = l.total_entries /\ k.beat = 0 /\ k.cur_entry = l.cur_entry
        /\ k.at = l.at /\ k.data = l.data /\ k.ar = <<<<"payload", l.entry_idx, l.at>>>>
        /\ k.r_ready = TRUE /\ k.wr = l.wr /\ k.load_phase = l.load_phase
        /\ k.busy = l.busy /\ k.done = l.done /\ k.err = l.err
    BY <2>2, <2>3 DEF LoaderType
  <2>7. Outputs(k)
    BY <2>2, <2>6, <1>2 DEF Outputs, LoaderOk, LoaderType, Asked, PutAt
  <2>8. AtPlace(k, m)
    BY <2>2, <2>6, <1>2 DEF AtPlace, InEntry, LoaderOk, LoaderType, ManifestType, Entry, Outputs
  <2>9. Keeps(l, k, m)
    BY <2>2, <2>5, <2>6, <2>7, <2>8, <1>2 DEF Keeps, LoaderOk, Ended, AtPlace, LoaderType
  <2>10. Place(k) = Place(l)
    BY <2>2, <2>6, <1>2 DEF Place, Within, LoaderOk, AtPlace, LoaderType, Entry
  <2> QED
    BY <2>1, <2>6, <2>9, <2>10
<1> QED
  BY <1>1, <1>2

\* LD_VERIFY: the place goes on to the next entry.
LEMMA VerifyStep ==
  ASSUME NEW m \in ManifestType, NEW l, LoaderOk(l, m),
         l.pc = "top", l.state = "LD_VERIFY",
         NEW k, k = [l EXCEPT !.entry_idx = @ + 1, !.state = "LD_FETCH"]
  PROVE  /\ Keeps(l, k, m) /\ k.pc = "top"
         /\ Place(l) = <<l.entry_idx, m.entries[l.entry_idx + 1].size>>
         /\ Place(k) = <<l.entry_idx + 1, 0>>
<1>1. l \in LoaderType
  BY DEF LoaderOk
<1>2. k = [l EXCEPT !.entry_idx = l.entry_idx + 1, !.state = "LD_FETCH"]
  OBVIOUS
<1>3. l.entry_idx + 1 \in Nat
  BY <1>1 DEF LoaderType
<1>4. k \in LoaderType
  BY <1>3, <1>1, <1>2 DEF LoaderType, LdErrors
<1>5. /\ k.state = "LD_FETCH" /\ k.pc = l.pc /\ k.entry_idx = l.entry_idx + 1
      /\ k.total_entries = l.total_entries /\ k.beat = l.beat
      /\ k.cur_entry = l.cur_entry /\ k.at = l.at /\ k.data = l.data /\ k.ar = l.ar
      /\ k.r_ready = l.r_ready /\ k.wr = l.wr /\ k.load_phase = l.load_phase
      /\ k.busy = l.busy /\ k.done = l.done /\ k.err = l.err
  BY <1>1, <1>2 DEF LoaderType
<1>6. Outputs(k)
  BY <1>1, <1>5 DEF Outputs, LoaderOk, LoaderType, Asked, PutAt
<1>7. AtPlace(k, m)
  BY <1>1, <1>5 DEF AtPlace, InEntry, LoaderOk, LoaderType, ManifestType, Entry, Outputs
<1>8. Keeps(l, k, m)
  BY <1>1, <1>4, <1>5, <1>6, <1>7 DEF Keeps, LoaderOk, Ended, AtPlace, LoaderType
<1>9. Place(l) = <<l.entry_idx, m.entries[l.entry_idx + 1].size>>
  BY <1>1 DEF Place, Within, LoaderOk, AtPlace, InEntry
<1>10. Place(k) = <<l.entry_idx + 1, 0>>
  BY <1>1, <1>5 DEF Place, Within, LoaderOk, AtPlace
<1> QED
  BY <1>1, <1>5, <1>8, <1>9, <1>10

\* LD_DONE and LD_ERR, without a kick.
LEMMA EndStep ==
  ASSUME NEW m \in ManifestType, NEW l, LoaderOk(l, m),
         l.pc = "top"
  PROVE  /\ l.state = "LD_DONE" =>
              Keeps(l, Done(l, FALSE), m) /\ Place(Done(l, FALSE)) = Place(l)
              /\ Done(l, FALSE).pc = "top"
         /\ l.state = "LD_ERR" =>
              Keeps(l, Err(l, FALSE), m) /\ Place(Err(l, FALSE)) = Place(l)
              /\ Err(l, FALSE).pc = "top"
<1>1. CASE l.state = "LD_DONE"
  <2>1. PICK k : k = Done(l, FALSE)
    OBVIOUS
  <2>2. l \in LoaderType
    BY DEF LoaderOk
  <2>3. k = [l EXCEPT !.load_phase = FALSE, !.busy = FALSE, !.done = TRUE]
    BY <2>1 DEF Done, LoaderOk, LoaderType
  <2>4. k \in LoaderType
    BY <2>2, <2>3, <1>1 DEF LoaderType, LdErrors, Address, Put, Entry, NoData, ManifestType
  <2>5. /\ k.state = l.state /\ k.pc = l.pc /\ k.entry_idx = l.entry_idx
        /\ k.total_entries = l.total_entries /\ k.beat = l.beat
        /\ k.cur_entry = l.cur_entry /\ k.at = l.at /\ k.data = l.data /\ k.ar = l.ar
        /\ k.r_ready = l.r_ready /\ k.wr = l.wr /\ k.load_phase = FALSE /\ k.busy = FALSE
        /\ k.done = TRUE /\ k.err = l.err
    BY <2>2, <2>3 DEF LoaderType
  <2>6. Outputs(k)
    BY <2>2, <2>5, <1>1 DEF Outputs, LoaderOk, LoaderType, Asked, PutAt
  <2>7. AtPlace(k, m)
    BY <2>2, <2>5, <1>1 DEF AtPlace, InEntry, LoaderOk, LoaderType, ManifestType, Entry, Outputs
  <2>8. Keeps(l, k, m)
    BY <2>2, <2>4, <2>5, <2>6, <2>7, <1>1 DEF Keeps, LoaderOk, Ended, AtPlace, LoaderType
  <2>9. Place(k) = Place(l)
    BY <2>2, <2>5, <1>1 DEF Place, Within, LoaderOk, AtPlace, LoaderType, Entry
  <2> QED
    BY <2>1, <2>5, <2>8, <2>9, <1>1
<1>2. CASE l.state = "LD_ERR"
  <2>1. PICK k : k = Err(l, FALSE)
    OBVIOUS
  <2>2. l \in LoaderType
    BY DEF LoaderOk
  <2>3. k = [l EXCEPT !.load_phase = FALSE, !.busy = FALSE]
    BY <2>1 DEF Err, LoaderOk, LoaderType
  <2>4. k \in LoaderType
    BY <2>2, <2>3, <1>2 DEF LoaderType, LdErrors, Address, Put, Entry, NoData, ManifestType
  <2>5. /\ k.state = l.state /\ k.pc = l.pc /\ k.entry_idx = l.entry_idx
        /\ k.total_entries = l.total_entries /\ k.beat = l.beat
        /\ k.cur_entry = l.cur_entry /\ k.at = l.at /\ k.data = l.data /\ k.ar = l.ar
        /\ k.r_ready = l.r_ready /\ k.wr = l.wr /\ k.load_phase = FALSE /\ k.busy = FALSE
        /\ k.done = l.done /\ k.err = l.err
    BY <2>2, <2>3 DEF LoaderType
  <2>6. Outputs(k)
    BY <2>2, <2>5, <1>2 DEF Outputs, LoaderOk, LoaderType, Asked, PutAt
  <2>7. AtPlace(k, m)
    BY <2>2, <2>5, <1>2 DEF AtPlace, InEntry, LoaderOk, LoaderType, ManifestType, Entry, Outputs
  <2>8. Keeps(l, k, m)
    BY <2>2, <2>4, <2>5, <2>6, <2>7, <1>2 DEF Keeps, LoaderOk, Ended, AtPlace, LoaderType
  <2>9. Place(k) = Place(l)
    BY <2>2, <2>5, <1>2 DEF Place, Within, LoaderOk, AtPlace, LoaderType, Entry
  <2> QED
    BY <2>1, <2>5, <2>8, <2>9, <1>2
<1> QED
  BY <1>1, <1>2

\* The DRAM has taken the address.
Accepted(l) == [l EXCEPT !.ar = <<>>, !.pc = "r"]

\* The loader waits for the beat it asked for.
LEMMA AcceptedStep ==
  ASSUME NEW m \in ManifestType, NEW l, LoaderOk(l, m), l.pc = "ar",
         NEW k, k = Accepted(l)
  PROVE  Keeps(l, k, m) /\ Place(k) = Place(l) /\ k.pc = "r" /\ Asked(k) = Asked(l)
<1>1. l \in LoaderType
  BY DEF LoaderOk
<1>2. k = [l EXCEPT !.ar = <<>>, !.pc = "r"]
  BY DEF Accepted
<1>3. <<>> \in Seq(Address)
  OBVIOUS
<1>4. k \in LoaderType
  BY <1>3, <1>1, <1>2 DEF LoaderType
<1>5. /\ k.state = l.state /\ k.pc = "r" /\ k.entry_idx = l.entry_idx
      /\ k.total_entries = l.total_entries /\ k.beat = l.beat
      /\ k.cur_entry = l.cur_entry /\ k.at = l.at /\ k.data = l.data /\ k.ar = <<>>
      /\ k.r_ready = l.r_ready /\ k.wr = l.wr /\ k.load_phase = l.load_phase
      /\ k.busy = l.busy /\ k.done = l.done /\ k.err = l.err
  BY <1>1, <1>2 DEF LoaderType
<1>6. Outputs(k)
  BY <1>1, <1>5 DEF Outputs, LoaderOk, LoaderType, Asked, PutAt
<1>7. AtPlace(k, m)
  BY <1>1, <1>5 DEF AtPlace, InEntry, LoaderOk, LoaderType, ManifestType, Entry, Outputs
<1>8. Keeps(l, k, m)
  BY <1>1, <1>4, <1>5, <1>6, <1>7 DEF Keeps, LoaderOk, Ended, AtPlace, LoaderType
<1>9. Place(k) = Place(l)
  BY <1>1, <1>5 DEF Place, Within, LoaderOk, AtPlace, LoaderType, Entry
<1>10. Asked(k) = Asked(l)
  BY <1>5 DEF Asked
<1> QED
  BY <1>10, <1>5, <1>8, <1>9

\* A beat arrives: an error, the next beat of an entry, its last, or words.
LEMMA BeatStep ==
  ASSUME NEW m \in ManifestType, NEW l, LoaderOk(l, m),
         NEW g \in ManifestType, g.entries = m.entries, l.pc = "r",
         NEW r, r.address = Asked(l), r.ok \in BOOLEAN
  PROVE  /\ Keeps(l, Beat(l, r, g), m) /\ Place(Beat(l, r, g)) = Place(l)
         /\ Beat(l, r, g).pc \in {"top", "ar", "word"}
<1>1. CASE ~r.ok
  <2>1. PICK k : k = Beat(l, r, g)
    OBVIOUS
  <2>2. l \in LoaderType
    BY DEF LoaderOk
  <2>3. k = [l EXCEPT !.err = "LD_ERR_AXI", !.state = "LD_ERR", !.pc = "top", !.r_ready = FALSE]
    BY <1>1, <2>1 DEF Beat, Fail
  <2>4. k \in LoaderType
    BY <2>2, <2>3 DEF LoaderType, LdErrors, Address, Put, Entry, NoData, ManifestType
  <2>5. /\ k.state = "LD_ERR" /\ k.pc = "top" /\ k.entry_idx = l.entry_idx
        /\ k.total_entries = l.total_entries /\ k.beat = l.beat
        /\ k.cur_entry = l.cur_entry /\ k.at = l.at /\ k.data = l.data /\ k.ar = l.ar
        /\ k.r_ready = FALSE /\ k.wr = l.wr /\ k.load_phase = l.load_phase
        /\ k.busy = l.busy /\ k.done = l.done /\ k.err = "LD_ERR_AXI"
    BY <2>2, <2>3 DEF LoaderType
  <2>6. Outputs(k)
    BY <2>2, <2>5 DEF Outputs, LoaderOk, LoaderType, Asked, PutAt
  <2>7. AtPlace(k, m)
    BY <2>2, <2>5 DEF AtPlace, InEntry, LoaderOk, LoaderType, ManifestType, Entry, Outputs
  <2>8. Keeps(l, k, m)
    BY <2>4, <2>5, <2>6, <2>7 DEF Keeps, LoaderOk, Ended
  <2>9. Place(k) = Place(l)
    BY <2>2, <2>5 DEF Place, Within, LoaderOk, AtPlace, LoaderType, Entry, Outputs
  <2> QED
    BY <2>1, <2>5, <2>8, <2>9
<1>2. CASE r.ok /\ l.state = "LD_FETCH" /\ l.beat + 1 < EntryBeats
  <2>1. PICK k : k = Beat(l, r, g)
    OBVIOUS
  <2>2. l \in LoaderType
    BY DEF LoaderOk
  <2>3. k = [l EXCEPT !.beat = l.beat + 1, !.pc = "ar",
                      !.ar = <<<<"entry", l.entry_idx, l.beat + 1>>>>, !.r_ready = TRUE]
    BY <1>2, <2>1, <2>2 DEF Beat, AskBeat, LoaderType
  <2>4. l.beat + 1 \in Nat /\ <<<<"entry", l.entry_idx, l.beat + 1>>>> \in Seq(Address)
    BY <2>2 DEF LoaderType, Address
  <2>5. k \in LoaderType
    BY <2>4, <2>2, <2>3, <1>2 DEF LoaderType, LdErrors
  <2>6. /\ k.state = l.state /\ k.pc = "ar" /\ k.entry_idx = l.entry_idx
        /\ k.total_entries = l.total_entries /\ k.beat = l.beat + 1
        /\ k.cur_entry = l.cur_entry /\ k.at = l.at /\ k.data = l.data
        /\ k.ar = <<<<"entry", l.entry_idx, l.beat + 1>>>> /\ k.r_ready = TRUE
        /\ k.wr = l.wr /\ k.load_phase = l.load_phase /\ k.busy = l.busy
        /\ k.done = l.done /\ k.err = l.err
    BY <2>2, <2>3 DEF LoaderType
  <2>7. Outputs(k)
    BY <2>2, <2>6, <1>2 DEF Outputs, LoaderOk, LoaderType, Asked, PutAt
  <2>8. AtPlace(k, m)
    BY <2>2, <2>6, <1>2 DEF AtPlace, InEntry, LoaderOk, LoaderType, ManifestType, Entry, Outputs
  <2>9. Keeps(l, k, m)
    BY <2>2, <2>5, <2>6, <2>7, <2>8, <1>2 DEF Keeps, LoaderOk, Ended, AtPlace, LoaderType
  <2>10. Place(k) = Place(l)
    BY <2>2, <2>6, <1>2 DEF Place, Within, LoaderOk, AtPlace, LoaderType, Entry
  <2> QED
    BY <2>1, <2>6, <2>9, <2>10
<1>3. CASE r.ok /\ l.state = "LD_FETCH" /\ ~(l.beat + 1 < EntryBeats)
  <2>1. PICK k : k = Beat(l, r, g)
    OBVIOUS
  <2>2. l \in LoaderType
    BY DEF LoaderOk
  <2>3. k = [l EXCEPT !.cur_entry = m.entries[l.entry_idx + 1], !.at = 0,
                      !.state = "LD_ROUTE", !.pc = "top", !.r_ready = FALSE]
    BY <1>3, <2>1, <2>2 DEF Beat, Asked, LoaderType
  <2>4. m.entries[l.entry_idx + 1] \in Entry
    BY <1>3, <2>2 DEF LoaderOk, AtPlace, LoaderType, ManifestType
  <2>5. k \in LoaderType
    BY <2>4, <2>2, <2>3, <1>3 DEF LoaderType, LdErrors
  <2>6. /\ k.state = "LD_ROUTE" /\ k.pc = "top" /\ k.entry_idx = l.entry_idx
        /\ k.total_entries = l.total_entries /\ k.beat = l.beat
        /\ k.cur_entry = m.entries[l.entry_idx + 1] /\ k.at = 0 /\ k.data = l.data
        /\ k.ar = l.ar /\ k.r_ready = FALSE /\ k.wr = l.wr /\ k.load_phase = l.load_phase
        /\ k.busy = l.busy /\ k.done = l.done /\ k.err = l.err
    BY <2>2, <2>3 DEF LoaderType
  <2>7. Outputs(k)
    BY <2>2, <2>6, <1>3 DEF Outputs, LoaderOk, LoaderType, Asked, PutAt
  <2>8. AtPlace(k, m)
    BY <2>2, <2>6, <1>3 DEF AtPlace, InEntry, LoaderOk, LoaderType, ManifestType, Entry, Outputs
  <2>9. Keeps(l, k, m)
    BY <2>2, <2>5, <2>6, <2>7, <2>8, <1>3 DEF Keeps, LoaderOk, Ended, AtPlace, LoaderType
  <2>10. Place(k) = Place(l)
    BY <2>2, <2>6, <1>3 DEF Place, Within, LoaderOk, AtPlace, LoaderType, Entry
  <2> QED
    BY <2>1, <2>6, <2>9, <2>10
<1>4. CASE r.ok /\ l.state = "LD_WRITE_LOCAL"
  <2>1. PICK k : k = Beat(l, r, g)
    OBVIOUS
  <2>2. l \in LoaderType
    BY DEF LoaderOk
  <2>3. l.beat = 0 /\ r.address = <<"payload", l.entry_idx, l.at>> /\ l.entry_idx \in Nat
        /\ l.at \in Nat
    BY <1>4, <2>2 DEF LoaderOk, Outputs, Asked, LoaderType
  <2>4. PICK p : p = [l EXCEPT !.data = r.address]
    OBVIOUS
  <2>5. k = PutWord(p)
    BY <1>4, <2>1, <2>4 DEF Beat
  <2>6. /\ p.cur_entry = l.cur_entry /\ p.at = l.at /\ p.beat = 0
        /\ p.data = <<"payload", l.entry_idx, l.at>>
    BY <2>2, <2>3, <2>4 DEF LoaderType
  <2>7. p.data[2] = l.entry_idx /\ p.data[3] + p.beat = l.at
    BY <2>3, <2>6
  <2>8. k = [p EXCEPT !.pc = "word", !.r_ready = FALSE,
                      !.wr = <<PutOf(l.cur_entry, l.entry_idx, l.at)>>]
    BY <2>5, <2>6, <2>7, Zenon DEF PutWord, PutOf
  <2>9. k = [l EXCEPT !.data = <<"payload", l.entry_idx, l.at>>, !.pc = "word",
                      !.r_ready = FALSE, !.wr = <<PutOf(l.cur_entry, l.entry_idx, l.at)>>]
    BY <2>2, <2>3, <2>4, <2>8 DEF LoaderType
  <2>10. <<"payload", l.entry_idx, l.at>> \in Address
         /\ <<PutOf(l.cur_entry, l.entry_idx, l.at)>> \in Seq(Put)
    BY <2>2, PutTyped DEF LoaderType, Address
  <2>11. k \in LoaderType
    BY <2>10, <2>2, <2>9, <1>4 DEF LoaderType, LdErrors
  <2>12. /\ k.state = l.state /\ k.pc = "word" /\ k.entry_idx = l.entry_idx
        /\ k.total_entries = l.total_entries /\ k.beat = l.beat
        /\ k.cur_entry = l.cur_entry /\ k.at = l.at
        /\ k.data = <<"payload", l.entry_idx, l.at>> /\ k.ar = l.ar /\ k.r_ready = FALSE
        /\ k.wr = <<PutOf(l.cur_entry, l.entry_idx, l.at)>> /\ k.load_phase = l.load_phase
        /\ k.busy = l.busy /\ k.done = l.done /\ k.err = l.err
    BY <2>2, <2>9 DEF LoaderType
  <2>13. Outputs(k)
    BY <2>2, <2>12, <1>4 DEF Outputs, LoaderOk, LoaderType, Asked, PutAt
  <2>14. AtPlace(k, m)
    BY <2>2, <2>12, <1>4 DEF AtPlace, InEntry, LoaderOk, LoaderType, ManifestType, Entry, Outputs
  <2>15. Keeps(l, k, m)
    BY <2>2, <2>11, <2>12, <2>13, <2>14, <1>4 DEF Keeps, LoaderOk, Ended, AtPlace, LoaderType
  <2>16. Place(k) = Place(l)
    BY <2>2, <2>12, <1>4 DEF Place, Within, LoaderOk, AtPlace, LoaderType, Entry
  <2> QED
    BY <2>1, <2>12, <2>15, <2>16
<1> QED
  BY <1>1, <1>2, <1>3, <1>4 DEF LoaderOk, Outputs

\* A word has been written: the place goes on by one.
LEMMA WordStep ==
  ASSUME NEW m \in ManifestType, NEW l, LoaderOk(l, m), l.pc = "word"
  PROVE  /\ Keeps(l, Word(l), m) /\ Word(l).pc \in {"top", "word"}
         /\ Place(l) = <<l.entry_idx, l.at>> /\ Place(Word(l)) = <<l.entry_idx, l.at + 1>>
<1>1. /\ l.state = "LD_WRITE_LOCAL" /\ InEntry(l, m) /\ l.at < l.cur_entry.size
      /\ l.busy /\ ~l.done /\ l.err = "LD_OK" /\ l.total_entries = Len(m.entries)
      /\ l.at \in Nat /\ l.cur_entry.size \in Nat
  BY DEF LoaderOk, Outputs, AtPlace, LoaderType, Entry
<1>2. CASE more_words([l EXCEPT !.at = @ + 1, !.beat = @ + 1, !.wr = <<>>])
  <2>1. PICK k : k = Word(l)
    OBVIOUS
  <2>2. l \in LoaderType
    BY DEF LoaderOk
  <2>3. k = [l EXCEPT !.at = l.at + 1, !.beat = l.beat + 1, !.pc = "word", !.r_ready = FALSE,
                      !.wr = <<PutOf(l.cur_entry, l.entry_idx, l.at + 1)>>]
    <3>1. PICK p : p = [l EXCEPT !.at = @ + 1, !.beat = @ + 1, !.wr = <<>>]
      OBVIOUS
    <3>2. k = PutWord(p)
      BY <1>2, <2>1, <3>1 DEF Word
    <3>3. /\ l.at \in Nat /\ l.beat \in Nat /\ l.entry_idx \in Nat /\ l.beat <= l.at
          /\ l.data = <<"payload", l.entry_idx, l.at - l.beat>>
      BY <2>2 DEF LoaderOk, Outputs, LoaderType
    <3>4. /\ p.cur_entry = l.cur_entry /\ p.at = l.at + 1 /\ p.beat = l.beat + 1
             /\ p.data = l.data
      BY <2>2, <3>1 DEF LoaderType
    <3>5. p.data[2] = l.entry_idx /\ p.data[3] + p.beat = l.at + 1
      BY <3>3, <3>4
    <3>6. k = [p EXCEPT !.pc = "word", !.r_ready = FALSE,
                        !.wr = <<PutOf(l.cur_entry, l.entry_idx, l.at + 1)>>]
      BY <3>2, <3>4, <3>5, Zenon DEF PutWord, PutOf
    <3> QED
      BY <2>2, <3>1, <3>6 DEF LoaderType
  <2>4. /\ l.at + 1 \in Nat /\ l.beat + 1 \in Nat /\ l.at + 1 < l.cur_entry.size
        /\ <<PutOf(l.cur_entry, l.entry_idx, l.at + 1)>> \in Seq(Put)
    BY <1>2, <2>2, PutTyped DEF LoaderType, more_words
  <2>5. k \in LoaderType
    BY <2>4, <2>2, <2>3 DEF LoaderType, LdErrors
  <2>6. /\ k.state = l.state /\ k.pc = "word" /\ k.entry_idx = l.entry_idx
        /\ k.total_entries = l.total_entries /\ k.beat = l.beat + 1
        /\ k.cur_entry = l.cur_entry /\ k.at = l.at + 1 /\ k.data = l.data /\ k.ar = l.ar
        /\ k.r_ready = FALSE /\ k.wr = <<PutOf(l.cur_entry, l.entry_idx, l.at + 1)>>
        /\ k.load_phase = l.load_phase /\ k.busy = l.busy /\ k.done = l.done
        /\ k.err = l.err
    BY <2>2, <2>3 DEF LoaderType
  <2>7. Outputs(k)
    BY <2>2, <2>6 DEF Outputs, LoaderOk, LoaderType, Asked, PutAt
  <2>8. AtPlace(k, m)
    BY <1>1, <2>4, <2>6 DEF AtPlace, InEntry
  <2>9. Keeps(l, k, m)
    BY <2>5, <2>6, <2>7, <2>8 DEF Keeps, LoaderOk, Ended
  <2>10. Place(l) = <<l.entry_idx, l.at>> /\ Place(k) = <<l.entry_idx, l.at + 1>>
    BY <2>2, <2>6 DEF Place, Within, LoaderOk, Outputs
  <2> QED
    BY <2>1, <2>6, <2>9, <2>10
<1>3. CASE ~more_words([l EXCEPT !.at = @ + 1, !.beat = @ + 1, !.wr = <<>>])
  <2>1. PICK k : k = Word(l)
    OBVIOUS
  <2>2. l \in LoaderType
    BY DEF LoaderOk
  <2>3. k = [l EXCEPT !.at = l.at + 1, !.beat = l.beat + 1, !.pc = "top", !.wr = <<>>]
    BY <1>3, <2>1, <2>2 DEF Word, LoaderType
  <2>4. l.at + 1 \in Nat /\ l.beat + 1 \in Nat /\ <<>> \in Seq(Put)
    BY <2>2 DEF LoaderType
  <2>5. k \in LoaderType
    BY <2>4, <2>2, <2>3 DEF LoaderType, LdErrors
  <2>6. /\ k.state = l.state /\ k.pc = "top" /\ k.entry_idx = l.entry_idx
        /\ k.total_entries = l.total_entries /\ k.beat = l.beat + 1
        /\ k.cur_entry = l.cur_entry /\ k.at = l.at + 1 /\ k.data = l.data /\ k.ar = l.ar
        /\ k.r_ready = l.r_ready /\ k.wr = <<>> /\ k.load_phase = l.load_phase
        /\ k.busy = l.busy /\ k.done = l.done /\ k.err = l.err
    BY <2>2, <2>3 DEF LoaderType
  <2>7. Outputs(k)
    BY <2>2, <2>6 DEF Outputs, LoaderOk, LoaderType, Asked, PutAt
  <2>8. AtPlace(k, m)
    BY <1>1, <2>4, <2>6 DEF AtPlace, InEntry
  <2>9. Keeps(l, k, m)
    BY <2>5, <2>6, <2>7, <2>8 DEF Keeps, LoaderOk, Ended
  <2>10. Place(l) = <<l.entry_idx, l.at>> /\ Place(k) = <<l.entry_idx, l.at + 1>>
    BY <2>2, <2>6 DEF Place, Within, LoaderOk, Outputs
  <2> QED
    BY <2>1, <2>6, <2>9, <2>10
<1> QED
  BY <1>2, <1>3

\* How the place moves in a step: over a word, over the end of an entry, or not.
Moves(l, k, m) ==
  IF l.pc = "word"
  THEN Place(l) = <<l.entry_idx, l.at>> /\ Place(k) = <<l.entry_idx, l.at + 1>>
  ELSE IF l.pc = "top" /\ l.state = "LD_VERIFY"
  THEN /\ Place(l) = <<l.entry_idx, m.entries[l.entry_idx + 1].size>>
       /\ Place(k) = <<l.entry_idx + 1, 0>>
  ELSE Place(k) = Place(l)

\* The head of the loop.
LEMMA TopStep ==
  ASSUME NEW m \in ManifestType, NEW g \in ManifestType, NEW l, LoaderOk(l, m), l.pc = "top",
         NEW kick \in BOOLEAN, kick => l.state = "LD_IDLE" /\ g.entries = m.entries,
         NEW k, k = Top(Cleared(l), kick, g)
  PROVE  /\ Keeps(l, k, m) /\ Moves(l, k, m) /\ k.pc \in {"top", "ar"}
         /\ l.state = "LD_IDLE" /\ ~kick => k.state = "LD_IDLE"
<1>1. k = Top(l, kick, g)
  BY ClearedIsSame, Zenon
<1>2. l.state \in {"LD_IDLE", "LD_FETCH", "LD_ROUTE", "LD_WRITE_LOCAL", "LD_VERIFY", "LD_DONE",
                   "LD_ERR"}
  BY DEF LoaderOk, LoaderType
<1>3. CASE l.state = "LD_IDLE"
  <2>1. k = Idle(l, kick, g)
    BY <1>1, <1>3 DEF Top
  <2> QED
    BY <1>3, <2>1, IdleStep DEF Moves
<1>4. CASE l.state = "LD_FETCH"
  <2>1. k = Fetch(l)
    BY <1>1, <1>4 DEF Top
  <2> QED
    BY <1>4, <2>1, FetchStep DEF Moves
<1>5. CASE l.state = "LD_ROUTE"
  <2>1. k = Route(l)
    BY <1>1, <1>5 DEF Top
  <2> QED
    BY <1>5, <2>1, RouteStep DEF Moves
<1>6. CASE l.state = "LD_WRITE_LOCAL"
  <2>1. k = WriteLocal(l)
    BY <1>1, <1>6 DEF Top
  <2> QED
    BY <1>6, <2>1, WriteLocalStep DEF Moves
<1>7. CASE l.state = "LD_VERIFY"
  <2>1. k = [l EXCEPT !.entry_idx = @ + 1, !.state = "LD_FETCH"]
    BY <1>1, <1>7 DEF Top
  <2> QED
    BY <1>7, <2>1, VerifyStep DEF Moves
<1>8. CASE l.state = "LD_DONE"
  <2>1. k = Done(l, FALSE)
    BY <1>1, <1>8 DEF Top
  <2> QED
    BY <1>8, <2>1, EndStep DEF Moves
<1>9. CASE l.state = "LD_ERR"
  <2>1. k = Err(l, FALSE)
    BY <1>1, <1>9 DEF Top
  <2> QED
    BY <1>9, <2>1, EndStep DEF Moves
<1> QED
  BY <1>2, <1>3, <1>4, <1>5, <1>6, <1>7, <1>8, <1>9

-----------------------------------------------------------------------------
(* The loader and the DRAM.                                                *)

Answer == [address : Address, ok : BOOLEAN]
DramType == [ar_ready : BOOLEAN, queue : Seq(Address), r : Seq(Answer)]

\* The DRAM has what the loader waits for, and nothing else.
DramHas ==
  IF ld.pc = "r"
  THEN /\ hif.load_phase
       /\ \/ dram.queue = <<Asked(ld)>> /\ dram.r = <<>>
          \/ /\ dram.queue = <<>>
             /\ \E ok \in BOOLEAN : dram.r = <<[address |-> Asked(ld), ok |-> ok]>>
  ELSE dram.queue = <<>> /\ dram.r = <<>>

\* What the loader and the DRAM do at an edge.
LEMMA LoaderEdge ==
  ASSUME manifest \in ManifestType, given_manifest \in ManifestType, LoaderOk(ld, manifest),
         dram \in DramType, DramHas, hif.kick \in BOOLEAN, hif.load_phase \in BOOLEAN,
         hif.kick => ld.state = "LD_IDLE",
         hif.kick \/ ld.state # "LD_IDLE" => given_manifest.entries = manifest.entries,
         NEW serves \in BOOLEAN, NEW ok \in BOOLEAN,
         ld' = Loader(ld, hif.kick, given_manifest, loader_ar_ready, loader_r),
         DramEdge(port_ar, port_r_ready, serves, ok), hif'.load_phase = ld.busy
  PROVE  /\ Keeps(ld, ld', manifest) /\ Moves(ld, ld', manifest) /\ dram' \in DramType /\ DramHas'
         /\ ld.state = "LD_IDLE" /\ ~hif.kick => ld'.state = "LD_IDLE"
<1>1. /\ ld.pc \in {"top", "ar", "r", "word"} /\ ld \in LoaderType
      /\ Outputs(ld) /\ AtPlace(ld, manifest)
  BY DEF LoaderOk, LoaderType
<1>2. /\ dram.queue \in Seq(Address) /\ dram.r \in Seq(Answer) /\ dram.ar_ready \in BOOLEAN
  BY DEF DramType
<1>3. Keeps(ld, ld, manifest)
  BY DEF Keeps
<1>4. ld.busy \in BOOLEAN /\ (ld.pc # "top" => ld.busy /\ ld.state # "LD_IDLE")
  BY <1>1 DEF Outputs, AtPlace, LoaderType
<1>5. Asked(ld) \in Address
  BY <1>1 DEF Asked, Address, LoaderType
<1>6. dram'.ar_ready \in BOOLEAN
  BY DEF DramEdge
<1>7. ASSUME ld.pc \in {"top", "word"}
      PROVE  dram'.queue = <<>> /\ dram'.r = <<>> /\ dram' \in DramType
  <2>1. ld.ar = <<>> /\ dram.queue = <<>> /\ dram.r = <<>>
    BY <1>1, <1>7 DEF Outputs, DramHas
  <2>2. port_ar = <<>>
    BY <2>1 DEF port_ar
  <2>3. dram' = [ar_ready |-> TRUE, queue |-> <<>> \o <<>>, r |-> <<>>]
    BY <2>1, <2>2, Zenon DEF DramEdge
  <2>4. <<>> \o <<>> = <<>> /\ <<>> \in Seq(Address) /\ <<>> \in Seq(Answer)
    OBVIOUS
  <2> QED
    BY <2>3, <2>4 DEF DramType
<1>8. CASE ld.pc = "top"
  <2>1. ld' = Top(Cleared(ld), hif.kick, given_manifest)
    BY <1>8 DEF Loader, Cleared
  <2>2. /\ Keeps(ld, ld', manifest) /\ Moves(ld, ld', manifest) /\ ld'.pc \in {"top", "ar"}
        /\ ld.state = "LD_IDLE" /\ ~hif.kick => ld'.state = "LD_IDLE"
    BY <1>8, <2>1, TopStep
  <2> QED
    BY <1>7, <1>8, <2>2 DEF DramHas
<1>9. CASE ld.pc = "word"
  <2>1. ld' = Word(ld)
    BY <1>9 DEF Loader
  <2>2. Keeps(ld, ld', manifest) /\ Moves(ld, ld', manifest) /\ ld'.pc \in {"top", "word"}
    BY <1>9, <2>1, WordStep DEF Moves
  <2> QED
    BY <1>4, <1>7, <1>9, <2>2 DEF DramHas
<1>10. CASE ld.pc = "ar"
  <2>1. ld.ar = <<Asked(ld)>> /\ dram.queue = <<>> /\ dram.r = <<>>
    BY <1>1, <1>10 DEF Outputs, DramHas
  <2>2. loader_r = <<>>
    BY <2>1 DEF loader_r
  <2>3. CASE hif.load_phase /\ dram.ar_ready
    <3>1. loader_ar_ready /\ port_ar = <<Asked(ld)>>
      BY <2>1, <2>3 DEF loader_ar_ready, port_ar
    <3>2. ld' = Accepted(ld)
      BY <1>10, <2>2, <3>1 DEF Loader, Accepted
    <3>3. Keeps(ld, ld', manifest) /\ Place(ld') = Place(ld) /\ ld'.pc = "r"
          /\ Asked(ld') = Asked(ld)
      BY <1>10, <3>2, AcceptedStep
    <3>4. dram' = [ar_ready |-> TRUE, queue |-> <<>> \o <<Asked(ld)>>, r |-> <<>>]
      BY <2>1, <2>3, <3>1, Zenon DEF DramEdge
    <3>5. /\ <<>> \o <<Asked(ld)>> = <<Asked(ld)>> /\ <<Asked(ld)>> \in Seq(Address)
          /\ <<>> \in Seq(Answer)
      BY <1>5
    <3>6. dram'.queue = <<Asked(ld')>> /\ dram'.r = <<>> /\ dram' \in DramType
      BY <3>3, <3>4, <3>5 DEF DramType
    <3>7. hif'.load_phase
      BY <1>4, <1>10
    <3>8. DramHas'
      BY <3>3, <3>6, <3>7 DEF DramHas, Asked
    <3> QED
      BY <1>4, <1>10, <3>3, <3>6, <3>8 DEF Moves
  <2>4. CASE ~(hif.load_phase /\ dram.ar_ready)
    <3>1. ~loader_ar_ready /\ (IF dram.ar_ready THEN port_ar ELSE <<>>) = <<>>
      BY <2>1, <2>4 DEF loader_ar_ready, port_ar
    <3>2. ld' = ld
      BY <1>10, <3>1 DEF Loader
    <3>3. dram' = [ar_ready |-> TRUE, queue |-> <<>> \o <<>>, r |-> <<>>]
      BY <2>1, <3>1, Zenon DEF DramEdge
    <3>4. <<>> \o <<>> = <<>> /\ <<>> \in Seq(Address) /\ <<>> \in Seq(Answer)
      OBVIOUS
    <3>5. dram'.queue = <<>> /\ dram'.r = <<>> /\ dram' \in DramType
      BY <3>3, <3>4 DEF DramType
    <3> QED
      BY <1>3, <1>10, <3>2, <3>5 DEF Moves, DramHas
  <2> QED
    BY <2>3, <2>4
<1>11. CASE ld.pc = "r"
  <2>1. ld.r_ready /\ ld.ar = <<>> /\ hif.load_phase
    BY <1>1, <1>11 DEF Outputs, DramHas
  <2>2. port_r_ready /\ loader_r = dram.r /\ (IF dram.ar_ready THEN port_ar ELSE <<>>) = <<>>
    BY <2>1 DEF port_r_ready, loader_r, port_ar
  <2>3. hif'.load_phase
    BY <1>4, <1>11
  <2>4. CASE dram.queue = <<Asked(ld)>> /\ dram.r = <<>>
    <3>1. ld' = ld
      BY <1>11, <2>2, <2>4 DEF Loader
    <3>2. /\ dram.queue # <<>> /\ Tail(dram.queue) = <<>> /\ Head(dram.queue) = Asked(ld)
          /\ <<>> \o <<>> = <<>> /\ dram.queue \o <<>> = dram.queue
      BY <1>2, <2>4
    <3>3. dram' = IF serves
                  THEN [ar_ready |-> TRUE, queue |-> <<>>, r |-> <<[address |-> Asked(ld), ok |-> ok]>>]
                  ELSE [ar_ready |-> TRUE, queue |-> dram.queue, r |-> <<>>]
      BY <2>2, <2>4, <3>2, Zenon DEF DramEdge
    <3>4. dram' \in DramType
      <4>1. [address |-> Asked(ld), ok |-> ok] \in Answer
        BY <1>5 DEF Answer
      <4>2. <<[address |-> Asked(ld), ok |-> ok]>> \in Seq(Answer) /\ <<>> \in Seq(Answer)
            /\ <<>> \in Seq(Address)
        BY <4>1
      <4> QED
        BY <1>2, <3>3, <4>2 DEF DramType
    <3>5. DramHas'
      BY <1>11, <2>3, <2>4, <3>1, <3>3 DEF DramHas, Asked
    <3> QED
      BY <1>3, <1>11, <3>1, <3>4, <3>5 DEF Moves
  <2>5. CASE dram.queue = <<>>
        /\ \E b \in BOOLEAN : dram.r = <<[address |-> Asked(ld), ok |-> b]>>
    <3>1. PICK b \in BOOLEAN : dram.r = <<[address |-> Asked(ld), ok |-> b]>>
      BY <2>5
    <3>2. PICK a : a = [address |-> Asked(ld), ok |-> b]
      OBVIOUS
    <3>3. loader_r = <<a>> /\ a.address = Asked(ld) /\ a.ok \in BOOLEAN
      BY <2>2, <3>1, <3>2
    <3>4. loader_r # <<>> /\ loader_r[1] = a
      BY <3>3
    <3>5. ld' = Beat(ld, a, given_manifest)
      BY <1>11, <3>4, Zenon DEF Loader
    <3>6. Keeps(ld, ld', manifest) /\ Place(ld') = Place(ld) /\ ld'.pc \in {"top", "ar", "word"}
      BY <1>4, <1>11, <3>3, <3>5, BeatStep
    <3>7. dram' = [ar_ready |-> TRUE, queue |-> <<>> \o <<>>, r |-> <<>>]
      BY <2>2, <2>5, Zenon DEF DramEdge
    <3>8. <<>> \o <<>> = <<>> /\ <<>> \in Seq(Address) /\ <<>> \in Seq(Answer)
      OBVIOUS
    <3>9. dram'.queue = <<>> /\ dram'.r = <<>> /\ dram' \in DramType
      BY <3>7, <3>8 DEF DramType
    <3> QED
      BY <1>4, <1>11, <3>6, <3>9 DEF Moves, DramHas
  <2> QED
    BY <1>11, <2>4, <2>5 DEF DramHas
<1> QED
  BY <1>1, <1>8, <1>9, <1>10, <1>11

-----------------------------------------------------------------------------
(* The memories.                                                           *)

\* The words before a place.
Before(p) == {w \in ImageWords : Precedes(w, p)}

\* The entries of a manifest are typed.
LEMMA EntryTyped ==
  ASSUME NEW m \in ManifestType, NEW i \in Nat, i < Len(m.entries)
  PROVE  m.entries[i + 1] \in Entry /\ m.entries[i + 1].size \in Nat
<1>1. PICK s \in Seq(Entry) : s = m.entries
  BY DEF ManifestType
<1>2. i + 1 \in 1 .. Len(s)
  BY <1>1
<1>3. s[i + 1] \in Entry
  BY <1>2
<1> QED
  BY <1>1, <1>3 DEF Entry

\* A word is the j-th of the section i.
LEMMA WordIs ==
  ASSUME manifest \in ManifestType, NEW w
  PROVE  w \in ImageWords <=>
           \E i \in 0 .. Len(manifest.entries) - 1 :
             \E j \in 0 .. manifest.entries[i + 1].size - 1 : w = <<i, j>>
<1>1. PICK n \in Nat : n = Len(manifest.entries) /\ DOMAIN manifest.entries = 1 .. n
  BY DEF ManifestType
<1>2. ASSUME w \in ImageWords
      PROVE  \E i \in 0 .. n - 1 : \E j \in 0 .. manifest.entries[i + 1].size - 1 : w = <<i, j>>
  <2>1. PICK e \in 1 .. n : w \in {e - 1} \X (0 .. manifest.entries[e].size - 1)
    BY <1>1, <1>2 DEF ImageWords
  <2>2. PICK j \in 0 .. manifest.entries[e].size - 1 : w = <<e - 1, j>>
    BY <2>1
  <2>3. e - 1 \in 0 .. n - 1 /\ (e - 1) + 1 = e
    OBVIOUS
  <2> QED
    BY <2>2, <2>3
<1>3. ASSUME NEW i \in 0 .. n - 1, NEW j \in 0 .. manifest.entries[i + 1].size - 1, w = <<i, j>>
      PROVE  w \in ImageWords
  <2>1. i + 1 \in 1 .. n /\ (i + 1) - 1 = i
    OBVIOUS
  <2>2. PICK e \in 1 .. n : e = i + 1 /\ e - 1 = i
    BY <2>1
  <2>3. w \in {e - 1} \X (0 .. manifest.entries[e].size - 1)
    BY <1>3, <2>2
  <2> QED
    BY <1>1, <2>3 DEF ImageWords
<1> QED
  BY <1>1, <1>2, <1>3

\* The next word is one more, after all that are there.
LEMMA NextWord ==
  ASSUME manifest \in ManifestType, NEW i \in Nat, i < Len(manifest.entries),
         NEW a \in Nat, a < manifest.entries[i + 1].size
  PROVE  /\ Before(<<i, a + 1>>) = Before(<<i, a>>) \cup {<<i, a>>}
         /\ \A v \in Before(<<i, a>>) : Precedes(v, <<i, a>>) /\ ~Precedes(<<i, a>>, v)
<1>1. PICK n \in Nat : n = Len(manifest.entries) /\ i \in 0 .. n - 1
  BY DEF ManifestType
<1>2. manifest.entries[i + 1].size \in Nat
  BY <1>1, EntryTyped
<1>3. <<i, a>> \in ImageWords
  BY <1>1, <1>2, WordIs
<1>4. ASSUME NEW w \in ImageWords
      PROVE  /\ Precedes(w, <<i, a + 1>>) <=> Precedes(w, <<i, a>>) \/ w = <<i, a>>
             /\ Precedes(w, <<i, a>>) => ~Precedes(<<i, a>>, w)
  <2>1. PICK k \in 0 .. n - 1 : \E j \in 0 .. manifest.entries[k + 1].size - 1 : w = <<k, j>>
    BY <1>1, <1>4, WordIs
  <2>2. manifest.entries[k + 1].size \in Nat
    <3>1. k \in Nat /\ k < Len(manifest.entries)
      BY <1>1
    <3> QED
      BY <3>1, EntryTyped
  <2>3. PICK j \in Nat : w = <<k, j>>
    BY <2>1, <2>2
  <2> QED
    BY <2>3 DEF Precedes
<1> QED
  BY <1>3, <1>4 DEF Before

\* What is before the end of an entry is what is before the next entry.
LEMMA NextEntry ==
  ASSUME manifest \in ManifestType, NEW i \in Nat, i < Len(manifest.entries)
  PROVE  Before(<<i, manifest.entries[i + 1].size>>) = Before(<<i + 1, 0>>)
<1>1. PICK n \in Nat : n = Len(manifest.entries) /\ i \in 0 .. n - 1
  BY DEF ManifestType
<1>2. PICK s \in Nat : manifest.entries[i + 1].size = s
  BY <1>1, EntryTyped
<1>3. ASSUME NEW w \in ImageWords
      PROVE  Precedes(w, <<i, s>>) <=> Precedes(w, <<i + 1, 0>>)
  <2>1. PICK k \in 0 .. n - 1 : \E j \in 0 .. manifest.entries[k + 1].size - 1 : w = <<k, j>>
    BY <1>1, <1>3, WordIs
  <2>2. PICK j \in 0 .. manifest.entries[k + 1].size - 1 : w = <<k, j>>
    BY <2>1
  <2>3. manifest.entries[k + 1].size \in Nat
    <3>1. k \in Nat /\ k < Len(manifest.entries)
      BY <1>1
    <3> QED
      BY <3>1, EntryTyped
  <2>4. CASE k = i
    BY <1>2, <2>2, <2>4 DEF Precedes
  <2>5. CASE k # i
    BY <2>2, <2>3, <2>5 DEF Precedes
  <2> QED
    BY <2>4, <2>5
<1> QED
  BY <1>2, <1>3 DEF Before

\* Before the first place there is nothing, before the last one everything.
LEMMA FirstAndLast ==
  ASSUME manifest \in ManifestType
  PROVE  Before(<<0, 0>>) = {} /\ Before(<<Len(manifest.entries), 0>>) = ImageWords
<1>1. PICK n \in Nat : n = Len(manifest.entries)
  BY DEF ManifestType
<1>2. ASSUME NEW w \in ImageWords
      PROVE  Precedes(w, <<n, 0>>) /\ ~Precedes(w, <<0, 0>>)
  <2>1. PICK k \in 0 .. n - 1 : \E j \in 0 .. manifest.entries[k + 1].size - 1 : w = <<k, j>>
    BY <1>1, <1>2, WordIs
  <2>2. manifest.entries[k + 1].size \in Nat
    <3>1. k \in Nat /\ k < Len(manifest.entries)
      BY <1>1
    <3> QED
      BY <3>1, EntryTyped
  <2>3. PICK j \in Nat : w = <<k, j>>
    BY <2>1, <2>2
  <2> QED
    BY <2>3 DEF Precedes
<1> QED
  BY <1>1, <1>2 DEF Before

\* A word that comes after those that are there is the last for its place.
LEMMA HoldsMore ==
  ASSUME NEW S, NEW T, NEW w, Holds(S), T = S \cup {w},
         \A v \in S : Precedes(v, w) /\ ~Precedes(w, v), ~Precedes(w, w), manifest' = manifest,
         NEW new, new = Bytes(w),
         ram' = [b \in DOMAIN ram \cup new |-> IF b \in new THEN w ELSE ram[b]]
  PROVE  Holds(T)'
<1>1. \A v : Bytes(v)' = Bytes(v)
  BY DEF Bytes, Target
<1>2. DOMAIN ram = UNION {Bytes(v) : v \in S}
  BY DEF Holds
<1>3. DOMAIN ram' = DOMAIN ram \cup new
  OBVIOUS
<1>4. DOMAIN ram' = UNION {Bytes(v) : v \in T}
  <2>1. UNION {Bytes(v) : v \in T} = (UNION {Bytes(v) : v \in S}) \cup Bytes(w)
    OBVIOUS
  <2> QED
    BY <1>2, <1>3, <2>1
<1>5. (DOMAIN ram = UNION {Bytes(v) : v \in T})'
  BY <1>1, <1>4
<1>6. ASSUME NEW a \in DOMAIN ram'
      PROVE  /\ ram'[a] \in T /\ a \in Bytes(ram'[a])
             /\ \A v \in T : a \in Bytes(v) => ~Precedes(ram'[a], v)
  <2>1. ram'[a] = IF a \in new THEN w ELSE ram[a]
    BY <1>3, <1>6
  <2>2. CASE a \in new
    BY <2>1, <2>2
  <2>3. CASE a \notin new
    <3>1. a \in DOMAIN ram /\ ram'[a] = ram[a]
      BY <1>3, <1>6, <2>1, <2>3
    <3>2. /\ ram[a] \in S /\ a \in Bytes(ram[a])
          /\ \A v \in S : a \in Bytes(v) => ~Precedes(ram[a], v)
      BY <3>1 DEF Holds
    <3>3. \A v \in T : a \in Bytes(v) => v \in S
      BY <2>3
    <3> QED
      BY <3>1, <3>2, <3>3
  <2> QED
    BY <2>2, <2>3
<1>7. (\A a \in DOMAIN ram :
         /\ ram[a] \in T /\ a \in Bytes(ram[a])
         /\ \A v \in T : a \in Bytes(v) => ~Precedes(ram[a], v))'
  BY <1>1, <1>6
<1> QED
  BY <1>5, <1>7, Zenon DEF Holds

\* Memories that are left alone hold the same.
LEMMA HoldsStill ==
  ASSUME NEW S, Holds(S), ram' = ram, manifest' = manifest
  PROVE  Holds(S)'
BY DEF Holds, Bytes, Target

\* The memories hold what is before the loader's place, if they hold that set.
LEMMA CopiedIs ==
  ASSUME NEW T, manifest' = manifest, T = Before(Place(ld')), Holds(T)'
  PROVE  CopiedSoFar'
<1>1. Copied' = Before(Place(ld'))
  BY DEF Copied, Before, Place, Within, within_entry, ImageWords
<1> QED
  BY <1>1, Zenon DEF CopiedSoFar, Holds

\* The loader strobes the bytes that belong to the section.
LEMMA StrobeIs ==
  ASSUME NEW e \in Entry, NEW i \in Nat
  PROVE  strb(e, i) = SectionBytes(e, i)
<1>1. WordBytes \in Nat /\ e.size \in Nat /\ e.last \in 1 .. WordBytes
  BY LoaderAssumption DEF Entry
<1>2. PICK n \in Nat, m \in Nat, k \in Nat : n = WordBytes /\ m = e.size /\ k = e.last /\ k <= n
  BY <1>1
<1>3. CASE i + 1 = m
  <2>1. strb(e, i) = 0 .. k - 1
    BY <1>2, <1>3 DEF strb
  <2>2. SectionBytes(e, i) = {b \in 0 .. n - 1 : b < k}
    BY <1>2, <1>3 DEF SectionBytes
  <2> QED
    BY <1>2, <2>1, <2>2
<1>4. CASE i + 1 # m
  <2>1. strb(e, i) = 0 .. n - 1
    BY <1>2, <1>4 DEF strb
  <2>2. SectionBytes(e, i) = 0 .. n - 1
    BY <1>2, <1>4 DEF SectionBytes
  <2> QED
    BY <2>1, <2>2
<1> QED
  BY <1>3, <1>4

\* The memories follow the loader's place.
LEMMA CopiedEdge ==
  ASSUME manifest \in ManifestType, manifest' = manifest, LoaderOk(ld, manifest),
         Moves(ld, ld', manifest), CopiedSoFar, RamEdge
  PROVE  CopiedSoFar'
<1>1. /\ Outputs(ld) /\ AtPlace(ld, manifest) /\ ld \in LoaderType
  BY DEF LoaderOk
<1>2. Copied = Before(Place(ld)) /\ Copied' = Before(Place(ld'))
  BY DEF Copied, Before, Place, Within, within_entry, ImageWords
<1>3. PICK S : S = Before(Place(ld))
  OBVIOUS
<1>4. Holds(S)
  BY <1>2, <1>3 DEF CopiedSoFar
<1>5. CASE ld.pc = "word"
  <2>1. /\ ld.wr = <<PutAt(ld)>> /\ ld.load_phase /\ InEntry(ld, manifest)
        /\ ld.at < ld.cur_entry.size /\ ld.entry_idx \in Nat /\ ld.at \in Nat
    BY <1>1, <1>5 DEF Outputs, AtPlace, LoaderType
  <2>2. PICK i \in Nat, a \in Nat : i = ld.entry_idx /\ a = ld.at
    BY <2>1
  <2>3. PICK w : w = <<i, a>>
    OBVIOUS
  <2>4. Place(ld) = w /\ Place(ld') = <<i, a + 1>>
    BY <1>5, <2>2, <2>3 DEF Moves
  <2>5. PICK new : new = Bytes(w)
    OBVIOUS
  <2>6. /\ Target(w) = <<in_isram(ld.cur_entry), ld.cur_entry.local + a>>
        /\ SectionBytes(manifest.entries[w[1] + 1], w[2]) = strb(ld.cur_entry, a)
    <3>1. ld.cur_entry \in Entry
      BY <1>1 DEF LoaderType
    <3>2. strb(ld.cur_entry, a) = SectionBytes(ld.cur_entry, a)
      BY <2>2, <3>1, StrobeIs
    <3> QED
      BY <2>1, <2>2, <2>3, <3>2 DEF Target, InEntry
  <2>7. ld.wr # <<>> /\ BytesOf(ld.wr[1]) = new /\ ld.wr[1].word = w
    BY <2>1, <2>2, <2>3, <2>5, <2>6 DEF PutAt, PutOf, BytesOf, Bytes
  <2>8. ram' = [b \in DOMAIN ram \cup new |-> IF b \in new THEN w ELSE ram[b]]
    BY <2>1, <2>7, Zenon DEF RamEdge
  <2>9. /\ Before(<<i, a + 1>>) = S \cup {w}
        /\ \A v \in S : Precedes(v, w) /\ ~Precedes(w, v)
    BY <1>3, <2>1, <2>2, <2>3, <2>4, NextWord DEF InEntry
  <2>10. ~Precedes(w, w)
    BY <2>3 DEF Precedes
  <2>11. PICK T : T = S \cup {w}
    OBVIOUS
  <2>12. Holds(T)'
    BY <1>4, <2>5, <2>8, <2>9, <2>10, <2>11, HoldsMore
  <2> QED
    BY <2>4, <2>9, <2>11, <2>12, CopiedIs
<1>6. CASE ld.pc # "word"
  <2>1. ld.wr = <<>>
    BY <1>1, <1>6 DEF Outputs
  <2>2. Holds(S)'
    BY <1>4, <2>1, HoldsStill DEF RamEdge
  <2>3. CASE ld.pc = "top" /\ ld.state = "LD_VERIFY"
    <3>1. InEntry(ld, manifest) /\ ld.entry_idx \in Nat
      BY <1>1, <2>3 DEF AtPlace, LoaderType
    <3>2. Before(Place(ld)) = Before(Place(ld'))
      BY <1>6, <2>3, <3>1, NextEntry DEF Moves, InEntry
    <3> QED
      BY <1>3, <2>2, <3>2, CopiedIs
  <2>4. CASE ~(ld.pc = "top" /\ ld.state = "LD_VERIFY")
    <3>1. Place(ld) = Place(ld')
      BY <1>6, <2>4 DEF Moves
    <3> QED
      BY <1>3, <2>2, <3>1, CopiedIs
  <2> QED
    BY <2>3, <2>4
<1> QED
  BY <1>5, <1>6

-----------------------------------------------------------------------------
(* The driver and the interface.                                           *)

Bits == {"loader_done", "loader_error", "core_fault", "core_halted"}
Names ==
  {"", "CORE_BOOT_ADDR", "MANIFEST_ADDR_LO", "MANIFEST_ADDR_HI", "MANIFEST_SIZE", "MANIFEST_KICK",
   "IRQ_FORCE_ACK", "HACC_CTRL", "IRQ_SUMMARY"}
Out == [aw : BOOLEAN, w : BOOLEAN, b_ready : BOOLEAN, ar : BOOLEAN, r_ready : BOOLEAN]
HostType ==
  [op : 1 .. 11, pc : {"next", "return", "aw", "w", "b", "ar", "r"}, irq : SUBSET Bits, out : Out]
HifType ==
  [axi_state : {"IDLE", "WR_DATA", "WR_RESP", "RD_RESP"}, wr_addr : Names,
   rd_rdata : SUBSET Bits, csr : SUBSET Names, kick : BOOLEAN, aw_ready : BOOLEAN,
   w_ready : BOOLEAN, b_valid : BOOLEAN, ar_ready : BOOLEAN, r_valid : BOOLEAN,
   load_phase : BOOLEAN, core_enable : BOOLEAN, irq : BOOLEAN]

WriteOp == {1, 2, 3, 4, 5, 8, 9}
ReadOp == {7, 10}
Offering == [NothingDriven EXCEPT !.aw = TRUE, !.w = TRUE]
OfferingData == [NothingDriven EXCEPT !.w = TRUE]
TakingB == [NothingDriven EXCEPT !.b_ready = TRUE]
Asking == [NothingDriven EXCEPT !.ar = TRUE]
TakingR == [NothingDriven EXCEPT !.r_ready = TRUE]

\* The driver and the interface go through a call together.
Resting ==
  host.pc \in {"next", "return"} /\ hif.axi_state = "IDLE" /\ host.out = NothingDriven
WriteOffered ==
  host.pc = "aw" /\ host.op \in WriteOp /\ hif.axi_state = "IDLE" /\ host.out = Offering
  /\ ~hif.aw_ready
WriteTaken ==
  host.pc = "aw" /\ host.op \in WriteOp /\ hif.axi_state = "WR_DATA" /\ host.out = Offering
  /\ hif.aw_ready /\ ~hif.w_ready /\ hif.wr_addr = operation[2]
DataTaken ==
  host.pc = "w" /\ host.op \in WriteOp /\ hif.axi_state = "WR_RESP" /\ host.out = OfferingData
  /\ hif.w_ready /\ ~hif.b_valid
WriteAnswered ==
  host.pc = "b" /\ host.op \in WriteOp /\ hif.axi_state = "WR_RESP" /\ host.out = TakingB
  /\ hif.b_valid
ReadOffered ==
  host.pc = "ar" /\ host.op \in ReadOp /\ hif.axi_state = "IDLE" /\ host.out = Asking
  /\ ~hif.ar_ready
ReadTaken ==
  host.pc = "ar" /\ host.op \in ReadOp /\ hif.axi_state = "RD_RESP" /\ host.out = Asking
  /\ hif.ar_ready /\ ~hif.r_valid
ReadAnswered ==
  host.pc = "r" /\ host.op \in ReadOp /\ hif.axi_state = "RD_RESP" /\ host.out = TakingR
  /\ hif.r_valid

Handshake ==
  \/ Resting \/ WriteOffered \/ WriteTaken \/ DataTaken \/ WriteAnswered
  \/ ReadOffered \/ ReadTaken \/ ReadAnswered

\* The operations performed so far, and the writes among the first n.
PerformedBy(h) == IF h.pc \in {"w", "b", "return"} THEN h.op ELSE h.op - 1
Performed == PerformedBy(host)
Registers ==
  <<"CORE_BOOT_ADDR", "MANIFEST_ADDR_LO", "MANIFEST_ADDR_HI", "MANIFEST_SIZE", "MANIFEST_KICK",
    "IRQ_FORCE_ACK", "HACC_CTRL">>
WrittenBy(n) == IF n <= 5 THEN n ELSE IF n <= 7 THEN 5 ELSE IF n = 8 THEN 6 ELSE 7

\* What the operations of the program are.
LEMMA ProgramIs ==
  ASSUME NEW o \in 1 .. 11
  PROVE  /\ o \in WriteOp => Program[o][1] = "write" /\ Program[o][2] = Registers[WrittenBy(o)]
                             /\ WrittenBy(o) = WrittenBy(o - 1) + 1
         /\ o \in ReadOp => Program[o][1] \in {"read", "poll"} /\ WrittenBy(o) = WrittenBy(o - 1)
         /\ o = 6 => Program[o][1] = "wait_irq" /\ WrittenBy(o) = WrittenBy(o - 1)
         /\ o = 11 => Program[o][1] = "end"
         /\ o = 10 <=> Program[o][1] = "poll"
         /\ o \in WriteOp \cup ReadOp \cup {6, 11}
         /\ WrittenBy(o) \in 0 .. 7 /\ WrittenBy(o - 1) \in 0 .. 7
<1>1. /\ Program[1][1] = "write" /\ Program[2][1] = "write" /\ Program[3][1] = "write"
      /\ Program[4][1] = "write" /\ Program[5][1] = "write" /\ Program[6][1] = "wait_irq"
      /\ Program[7][1] = "read" /\ Program[8][1] = "write" /\ Program[9][1] = "write"
      /\ Program[10][1] = "poll" /\ Program[11][1] = "end"
      /\ Program[1][2] = "CORE_BOOT_ADDR"
      /\ Program[2][2] = "MANIFEST_ADDR_LO"
      /\ Program[3][2] = "MANIFEST_ADDR_HI"
      /\ Program[4][2] = "MANIFEST_SIZE"
      /\ Program[5][2] = "MANIFEST_KICK"
      /\ Program[8][2] = "IRQ_FORCE_ACK"
      /\ Program[9][2] = "HACC_CTRL"
  BY DEF Program, Write, Read
<1>2. /\ Registers[1] = "CORE_BOOT_ADDR" /\ Registers[2] = "MANIFEST_ADDR_LO"
      /\ Registers[3] = "MANIFEST_ADDR_HI" /\ Registers[4] = "MANIFEST_SIZE"
      /\ Registers[5] = "MANIFEST_KICK" /\ Registers[6] = "IRQ_FORCE_ACK"
      /\ Registers[7] = "HACC_CTRL"
  BY DEF Registers
<1>3. o \in {1, 2, 3, 4, 5, 6, 7, 8, 9, 10, 11}
  OBVIOUS
<1>4. WrittenBy(o) \in 0 .. 7 /\ WrittenBy(o - 1) \in 0 .. 7
  BY DEF WrittenBy
<1>5. /\ o \in WriteOp => WrittenBy(o) = WrittenBy(o - 1) + 1
      /\ o \notin WriteOp => WrittenBy(o) = WrittenBy(o - 1)
      /\ o \in WriteOp \cup ReadOp \cup {6, 11}
      /\ 6 \notin WriteOp
  BY <1>3 DEF WrittenBy, WriteOp, ReadOp
<1>6. o \in ReadOp => o \notin WriteOp
  BY DEF WriteOp, ReadOp
<1>7. /\ WrittenBy(1) = 1 /\ WrittenBy(2) = 2 /\ WrittenBy(3) = 3 /\ WrittenBy(4) = 4
      /\ WrittenBy(5) = 5 /\ WrittenBy(8) = 6 /\ WrittenBy(9) = 7
  BY DEF WrittenBy
<1>8. o \in WriteOp => Program[o][1] = "write" /\ Program[o][2] = Registers[WrittenBy(o)]
  BY <1>1, <1>2, <1>7 DEF WriteOp
<1>9. /\ o \in ReadOp => Program[o][1] \in {"read", "poll"}
      /\ o = 6 => Program[o][1] = "wait_irq"
      /\ o = 11 => Program[o][1] = "end"
      /\ o = 10 <=> Program[o][1] = "poll"
  BY <1>1, <1>3 DEF ReadOp
<1> QED
  BY <1>4, <1>5, <1>6, <1>8, <1>9

\* Where a driver k is after it has, perhaps, started the next operation.
Began(k) ==
  \/ k.pc = "next" /\ k.out = NothingDriven
  \/ k.pc = "aw" /\ k.op \in WriteOp /\ k.out = Offering
  \/ k.pc = "ar" /\ k.op \in ReadOp /\ k.out = Asking

\* What an operation starts with.
LEMMA StartOf ==
  ASSUME NEW h \in HostType, NEW o
  PROVE  /\ o[1] = "write" => Start(h, o) = [At(h, "aw") EXCEPT !.out.aw = TRUE, !.out.w = TRUE]
         /\ o[1] \in {"read", "poll"} => Start(h, o) = [At(h, "ar") EXCEPT !.out.ar = TRUE]
         /\ o[1] = "wait_irq" =>
              Start(h, o) = IF hif.irq THEN [At(h, "next") EXCEPT !.op = @ + 1] ELSE h
         /\ o[1] = "end" => Start(h, o) = h
BY DEF Start

\* Where the thread waits changes nothing else.
LEMMA AtIs ==
  ASSUME NEW h \in HostType, NEW p \in {"next", "return", "aw", "w", "b", "ar", "r"}
  PROVE  /\ At(h, p) \in HostType /\ At(h, p).pc = p /\ At(h, p).op = h.op
         /\ At(h, p).irq = h.irq /\ At(h, p).out = h.out
BY DEF At, HostType

\* A driver a that offers a write, or a read.
LEMMA OfferIs ==
  ASSUME NEW a \in HostType, a.out = NothingDriven
  PROVE  /\ \A k : k = [a EXCEPT !.out.aw = TRUE, !.out.w = TRUE] =>
              k \in HostType /\ k.pc = a.pc /\ k.op = a.op /\ k.out = Offering
         /\ \A k : k = [a EXCEPT !.out.ar = TRUE] =>
              k \in HostType /\ k.pc = a.pc /\ k.op = a.op /\ k.out = Asking
<1>1. Offering \in Out /\ Asking \in Out
  BY DEF Offering, Asking, NothingDriven, Out
<1>2. ASSUME NEW k, k = [a EXCEPT !.out.aw = TRUE, !.out.w = TRUE]
      PROVE  k \in HostType /\ k.pc = a.pc /\ k.op = a.op /\ k.out = Offering
  <2>1. k = [[a EXCEPT !.out.aw = TRUE] EXCEPT !.out.w = TRUE]
    BY <1>2, Zenon
  <2>2. PICK b : b = [a EXCEPT !.out.aw = TRUE]
    OBVIOUS
  <2>3. b.out = [NothingDriven EXCEPT !.aw = TRUE] /\ b.pc = a.pc /\ b.op = a.op /\ b.irq = a.irq
    BY <2>2 DEF HostType
  <2>4. b \in HostType
    BY <2>2 DEF HostType, Out
  <2>5. k = [b EXCEPT !.out.w = TRUE]
    BY <2>1, <2>2
  <2>6. k.out = [b.out EXCEPT !.w = TRUE] /\ k.pc = b.pc /\ k.op = b.op
    BY <2>4, <2>5 DEF HostType
  <2>7. k \in HostType
    BY <2>4, <2>5 DEF HostType, Out
  <2>8. k.out = Offering
    BY <2>3, <2>6 DEF Offering, NothingDriven
  <2> QED
    BY <2>3, <2>6, <2>7, <2>8
<1>3. ASSUME NEW k, k = [a EXCEPT !.out.ar = TRUE]
      PROVE  k \in HostType /\ k.pc = a.pc /\ k.op = a.op /\ k.out = Asking
  <2>1. k.out = [a.out EXCEPT !.ar = TRUE] /\ k.pc = a.pc /\ k.op = a.op
    BY <1>3 DEF HostType
  <2>2. k \in HostType
    BY <1>3 DEF HostType, Out
  <2> QED
    BY <2>1, <2>2 DEF Asking
<1> QED
  BY <1>2, <1>3

\* The next operation starts, or is waited for.
LEMMA StartIs ==
  ASSUME NEW h \in HostType, h.pc = "next", h.out = NothingDriven,
         NEW k, k = Start(h, Program[h.op])
  PROVE  /\ k \in HostType /\ Began(k) /\ WrittenBy(k.op - 1) = WrittenBy(h.op - 1)
         /\ k.op > 6 => h.op > 6 \/ hif.irq
<1>1. h.op \in 1 .. 11
  BY DEF HostType
<1>2. PICK o : o = Program[h.op]
  OBVIOUS
<1>3. /\ h.op \in WriteOp => o[1] = "write"
      /\ h.op \in ReadOp => o[1] \in {"read", "poll"}
      /\ h.op = 6 => o[1] = "wait_irq"
      /\ h.op = 11 => o[1] = "end"
      /\ h.op \in WriteOp \cup ReadOp \cup {6, 11}
  BY <1>1, <1>2, ProgramIs
<1>4. CASE h.op \in WriteOp
  <2>1. PICK a : a = At(h, "aw")
    OBVIOUS
  <2>2. a \in HostType /\ a.pc = "aw" /\ a.op = h.op /\ a.out = NothingDriven
    BY <2>1, AtIs
  <2>3. k = [a EXCEPT !.out.aw = TRUE, !.out.w = TRUE]
    <3>1. Start(h, o) = [At(h, "aw") EXCEPT !.out.aw = TRUE, !.out.w = TRUE]
      BY <1>3, <1>4, StartOf
    <3> QED
      BY <1>2, <2>1, <3>1
  <2>4. k \in HostType /\ k.pc = "aw" /\ k.op = h.op /\ k.out = Offering
    BY <2>2, <2>3, OfferIs
  <2> QED
    BY <1>4, <2>4 DEF Began
<1>5. CASE h.op \in ReadOp
  <2>1. PICK a : a = At(h, "ar")
    OBVIOUS
  <2>2. a \in HostType /\ a.pc = "ar" /\ a.op = h.op /\ a.out = NothingDriven
    BY <2>1, AtIs
  <2>3. k = [a EXCEPT !.out.ar = TRUE]
    BY <1>2, <1>3, <1>5, <2>1, StartOf, Zenon
  <2>4. k \in HostType /\ k.pc = "ar" /\ k.op = h.op /\ k.out = Asking
    BY <2>2, <2>3, OfferIs
  <2> QED
    BY <1>5, <2>4 DEF Began
<1>6. CASE h.op = 6 /\ hif.irq
  <2>1. PICK a : a = At(h, "next")
    OBVIOUS
  <2>2. a \in HostType /\ a.pc = "next" /\ a.op = 6 /\ a.out = NothingDriven
    BY <1>6, <2>1, AtIs
  <2>3. k = [a EXCEPT !.op = @ + 1]
    <3>1. Start(h, o) = [At(h, "next") EXCEPT !.op = @ + 1]
      BY <1>3, <1>6, StartOf
    <3> QED
      BY <1>2, <2>1, <3>1
  <2>4. k \in HostType /\ k.pc = "next" /\ k.op = 7 /\ k.out = NothingDriven
    BY <2>2, <2>3 DEF HostType
  <2>5. WrittenBy(7 - 1) = WrittenBy(6 - 1)
    BY DEF WrittenBy
  <2> QED
    BY <1>6, <2>4, <2>5 DEF Began
<1>7. CASE h.op = 11 \/ (h.op = 6 /\ ~hif.irq)
  <2>1. k = h
    BY <1>2, <1>3, <1>7, StartOf, Zenon
  <2> QED
    BY <2>1 DEF Began
<1> QED
  BY <1>3, <1>4, <1>5, <1>6, <1>7

\* Between two calls the driver goes on in its program, or rests.
LEMMA DriverAtRest ==
  ASSUME host \in HostType, Resting, host.pc = "return" => host.op \in WriteOp \cup ReadOp,
         NEW rests \in BOOLEAN, NEW k, k = Driver(rests)
  PROVE  /\ k \in HostType /\ Began(k) /\ WrittenBy(k.op - 1) = WrittenBy(Performed)
         /\ k.op > 6 => host.op > 6 \/ hif.irq
<1>1. host.op \in 1 .. 11
  BY DEF HostType
<1>2. CASE host.pc = "next"
  <2>1. Performed = host.op - 1
    BY <1>2 DEF Performed, PerformedBy
  <2>2. CASE rests
    <3>1. k = host
      BY <1>2, <2>2 DEF Driver
    <3> QED
      BY <1>2, <2>1, <3>1 DEF Began, Resting
  <2>3. CASE ~rests
    <3>1. k = Start(host, Program[host.op])
      BY <1>2, <2>3 DEF Driver, operation
    <3> QED
      BY <1>2, <2>1, <3>1, StartIs DEF Resting
  <2> QED
    BY <2>2, <2>3
<1>3. CASE host.pc = "return"
  <2>1. Performed = host.op /\ host.op \in WriteOp \cup ReadOp
    BY <1>3 DEF Performed, PerformedBy
  <2>2. PICK h : h = Returned(host)
    OBVIOUS
  <2>3. /\ h \in HostType /\ h.pc = "next" /\ h.out = NothingDriven
        /\ WrittenBy(h.op - 1) = WrittenBy(host.op) /\ (h.op > 6 => host.op > 6)
    <3>1. CASE host.op = 10 /\ "core_halted" \notin host.irq
      <4>1. h = [host EXCEPT !.pc = "next"]
        BY <2>2, <3>1, ProgramIs DEF Returned, operation, At
      <4>2. h \in HostType /\ h.pc = "next" /\ h.out = NothingDriven /\ h.op = host.op
        BY <4>1 DEF HostType, Resting
      <4> QED
        BY <3>1, <4>2 DEF WrittenBy
    <3>2. CASE ~(host.op = 10 /\ "core_halted" \notin host.irq)
      <4>1. h = [host EXCEPT !.pc = "next", !.op = host.op + 1]
        BY <1>1, <2>2, <3>2, ProgramIs DEF Returned, operation, At, HostType
      <4>2. host.op + 1 \in 1 .. 11 /\ host.op # 6 /\ (host.op + 1) - 1 = host.op
        BY <1>1, <2>1 DEF WriteOp, ReadOp
      <4>3. h \in HostType /\ h.pc = "next" /\ h.out = NothingDriven /\ h.op = host.op + 1
        BY <4>1, <4>2 DEF HostType, Resting
      <4> QED
        BY <1>1, <4>2, <4>3
    <3> QED
      BY <3>1, <3>2
  <2>4. CASE rests
    <3>1. k = h
      BY <1>3, <2>2, <2>4 DEF Driver
    <3> QED
      BY <2>1, <2>3, <3>1 DEF Began
  <2>5. CASE ~rests
    <3>1. k = Start(h, Program[h.op])
      BY <1>3, <2>2, <2>5 DEF Driver
    <3> QED
      BY <2>1, <2>3, <3>1, StartIs
  <2> QED
    BY <2>4, <2>5
<1> QED
  BY <1>2, <1>3 DEF Resting

\* The interface's registers after an edge but for its outputs: i is AxiState's.
Edge(i) ==
  /\ i \in HifType
  /\ hif.axi_state = "IDLE" =>
       /\ i.csr = hif.csr /\ ~i.kick /\ ~i.w_ready /\ ~i.b_valid /\ ~i.r_valid
       /\ host.out.aw => i.axi_state = "WR_DATA" /\ i.aw_ready /\ i.wr_addr = operation[2]
       /\ ~host.out.aw => ~i.aw_ready /\ i.ar_ready = host.out.ar
       /\ ~host.out.aw => i.axi_state = IF host.out.ar THEN "RD_RESP" ELSE "IDLE"
  /\ hif.axi_state = "WR_DATA" /\ host.out.w =>
       /\ i.csr = hif.csr \cup {hif.wr_addr} /\ i.kick = (hif.wr_addr = "MANIFEST_KICK")
       /\ i.axi_state = "WR_RESP" /\ i.w_ready /\ ~i.b_valid
  /\ hif.axi_state = "WR_RESP" =>
       /\ i.csr = hif.csr /\ ~i.kick /\ i.b_valid
       /\ i.axi_state = IF host.out.b_ready THEN "IDLE" ELSE "WR_RESP"
  /\ hif.axi_state = "RD_RESP" =>
       /\ i.csr = hif.csr /\ ~i.kick /\ i.r_valid
       /\ i.axi_state = IF host.out.r_ready THEN "IDLE" ELSE "RD_RESP"

\* The name of an operation's register.
LEMMA OperationTyped ==
  ASSUME host \in HostType
  PROVE  operation[2] \in Names /\ irq_summary \in SUBSET Bits
<1>1. host.op \in 1 .. 11
  BY DEF HostType
<1>2. Program[host.op][2] \in Names
  <2>1. host.op \in {1, 2, 3, 4, 5, 6, 7, 8, 9, 10, 11}
    BY <1>1
  <2>2. /\ Program[1][2] = "CORE_BOOT_ADDR" /\ Program[2][2] = "MANIFEST_ADDR_LO"
        /\ Program[3][2] = "MANIFEST_ADDR_HI" /\ Program[4][2] = "MANIFEST_SIZE"
        /\ Program[5][2] = "MANIFEST_KICK" /\ Program[6][2] = ""
        /\ Program[7][2] = "IRQ_SUMMARY" /\ Program[8][2] = "IRQ_FORCE_ACK"
        /\ Program[9][2] = "HACC_CTRL" /\ Program[10][2] = "IRQ_SUMMARY" /\ Program[11][2] = ""
    BY DEF Program, Write, Read
  <2> QED
    BY <2>1, <2>2 DEF Names
<1>3. irq_summary \in SUBSET Bits
  BY Zenon DEF irq_summary, Bits
<1> QED
  BY <1>2, <1>3 DEF operation

\* The interface's registers by its state and what the driver offers.
LEMMA AxiIs ==
  ASSUME hif \in HifType, host \in HostType
  PROVE  Edge(AxiState(Quiet(hif)))
<1>1. PICK q : q = Quiet(hif)
  OBVIOUS
<1>2. /\ q \in HifType /\ q.axi_state = hif.axi_state /\ q.wr_addr = hif.wr_addr
         /\ q.csr = hif.csr
      /\ ~q.kick /\ ~q.aw_ready /\ ~q.w_ready /\ ~q.b_valid /\ ~q.ar_ready /\ ~q.r_valid
  BY <1>1 DEF Quiet, HifType
<1>3. PICK i : i = AxiState(q)
  OBVIOUS
<1>4. PICK d : d = operation[2]
  OBVIOUS
<1>5. PICK s : s = irq_summary
  OBVIOUS
<1>6. d \in Names /\ s \in SUBSET Bits
  BY <1>4, <1>5, OperationTyped
<1>7. hif.axi_state \in {"IDLE", "WR_DATA", "WR_RESP", "RD_RESP"} /\ host.out \in Out
  BY DEF HifType, HostType
<1>8. CASE hif.axi_state = "IDLE" /\ host.out.aw
  <2>1. i = [q EXCEPT !.wr_addr = d, !.aw_ready = TRUE, !.axi_state = "WR_DATA"]
    BY <1>2, <1>3, <1>4, <1>8 DEF AxiState
  <2>2. i \in HifType
    BY <1>2, <1>6, <2>1 DEF HifType
  <2>3. /\ i.csr = hif.csr /\ ~i.kick /\ ~i.w_ready /\ ~i.b_valid /\ ~i.r_valid
        /\ i.axi_state = "WR_DATA" /\ i.aw_ready /\ i.wr_addr = d
    BY <1>2, <2>1 DEF HifType
  <2> QED
    BY <1>1, <1>2, <1>3, <1>4, <2>2, <2>3, <1>8 DEF Edge
<1>9. CASE hif.axi_state = "IDLE" /\ ~host.out.aw /\ host.out.ar
  <2>1. i = [q EXCEPT !.rd_rdata = s, !.ar_ready = TRUE, !.axi_state = "RD_RESP"]
    BY <1>2, <1>3, <1>5, <1>9 DEF AxiState
  <2>2. i \in HifType
    BY <1>2, <1>6, <2>1 DEF HifType
  <2>3. /\ i.csr = hif.csr /\ ~i.kick /\ ~i.w_ready /\ ~i.b_valid /\ ~i.r_valid
        /\ i.axi_state = "RD_RESP" /\ ~i.aw_ready /\ i.ar_ready
    BY <1>2, <2>1 DEF HifType
  <2> QED
    BY <1>1, <1>2, <1>3, <1>4, <2>2, <2>3, <1>9 DEF Edge
<1>10. CASE hif.axi_state = "IDLE" /\ ~host.out.aw /\ ~host.out.ar
  <2>1. i = q
    BY <1>2, <1>3, <1>10 DEF AxiState
  <2> QED
    BY <1>1, <1>2, <1>3, <1>10, <2>1, <1>7 DEF Edge, HifType, Out
<1>11. CASE hif.axi_state = "WR_DATA"
  <2>1. CASE host.out.w
    <3>1. i = [q EXCEPT !.w_ready = TRUE, !.axi_state = "WR_RESP", !.csr = q.csr \cup {q.wr_addr},
                        !.kick = (q.wr_addr = "MANIFEST_KICK")]
      BY <1>2, <1>3, <1>11, <2>1 DEF AxiState, HifType
    <3>2. /\ i.csr = hif.csr \cup {hif.wr_addr} /\ i.axi_state = "WR_RESP" /\ i.w_ready
             /\ ~i.b_valid
          /\ i.kick = (hif.wr_addr = "MANIFEST_KICK")
      BY <1>2, <3>1 DEF HifType
    <3>3. q.csr \cup {q.wr_addr} \in SUBSET Names
      BY <1>2 DEF HifType
    <3>4. i \in HifType
      BY <1>2, <3>1, <3>3 DEF HifType
    <3> QED
      BY <1>1, <1>3, <1>11, <3>2, <3>4 DEF Edge
  <2>2. CASE ~host.out.w
    <3>1. i = [q EXCEPT !.w_ready = TRUE]
      BY <1>2, <1>3, <1>11, <2>2 DEF AxiState, HifType
    <3>2. i \in HifType
      BY <1>2, <1>6, <3>1 DEF HifType
    <3>3. TRUE
      BY <1>2, <3>1 DEF HifType
    <3> QED
      BY <1>1, <1>2, <1>3, <1>4, <3>2, <3>3, <1>11, <2>2 DEF Edge
  <2> QED
    BY <2>1, <2>2
<1>12. CASE hif.axi_state = "WR_RESP"
  <2>1. i = [q EXCEPT !.b_valid = TRUE,
                      !.axi_state = IF host.out.b_ready THEN "IDLE" ELSE "WR_RESP"]
    BY <1>2, <1>3, <1>12 DEF AxiState, HifType
  <2>2. i \in HifType
    BY <1>2, <1>6, <2>1 DEF HifType
  <2>3. /\ i.csr = hif.csr /\ ~i.kick /\ i.b_valid
        /\ i.axi_state = IF host.out.b_ready THEN "IDLE" ELSE "WR_RESP"
    BY <1>2, <2>1 DEF HifType
  <2> QED
    BY <1>1, <1>2, <1>3, <1>4, <2>2, <2>3, <1>12 DEF Edge
<1>13. CASE hif.axi_state = "RD_RESP"
  <2>1. i = [q EXCEPT !.r_valid = TRUE,
                      !.axi_state = IF host.out.r_ready THEN "IDLE" ELSE "RD_RESP"]
    BY <1>2, <1>3, <1>13 DEF AxiState, HifType
  <2>2. i \in HifType
    BY <1>2, <1>6, <2>1 DEF HifType
  <2>3. /\ i.csr = hif.csr /\ ~i.kick /\ i.r_valid
        /\ i.axi_state = IF host.out.r_ready THEN "IDLE" ELSE "RD_RESP"
    BY <1>2, <2>1 DEF HifType
  <2> QED
    BY <1>1, <1>2, <1>3, <1>4, <2>2, <2>3, <1>13 DEF Edge
<1> QED
  BY <1>7, <1>8, <1>9, <1>10, <1>11, <1>12, <1>13 DEF Out

\* The interface's outputs follow its registers and the loader.
LEMMA InterfaceIs ==
  ASSUME hif \in HifType, host \in HostType, ld.busy \in BOOLEAN, hif' = Interface
  PROVE  /\ Edge(hif') /\ hif'.load_phase = ld.busy /\ hif'.irq = (irq_summary # {})
         /\ hif'.core_enable = ("HACC_CTRL" \in hif'.csr)
<1>1. PICK i : i = AxiState(Quiet(hif))
  OBVIOUS
<1>2. Edge(i) /\ i \in HifType
  BY <1>1, AxiIs DEF Edge
<1>3. hif' = [i EXCEPT !.core_enable = ("HACC_CTRL" \in i.csr), !.load_phase = ld.busy,
                       !.irq = (irq_summary # {})]
  BY <1>1 DEF Interface, port_is_loaders
<1>4. /\ hif'.axi_state = i.axi_state /\ hif'.wr_addr = i.wr_addr /\ hif'.csr = i.csr
      /\ hif'.kick = i.kick /\ hif'.aw_ready = i.aw_ready /\ hif'.w_ready = i.w_ready
      /\ hif'.b_valid = i.b_valid /\ hif'.ar_ready = i.ar_ready /\ hif'.r_valid = i.r_valid
      /\ hif'.load_phase = ld.busy /\ hif'.irq = (irq_summary # {})
      /\ hif'.core_enable = ("HACC_CTRL" \in i.csr)
  BY <1>2, <1>3 DEF HifType
<1>5. hif' \in HifType
  <2>1. PICK c : c = ("HACC_CTRL" \in i.csr)
    OBVIOUS
  <2>2. PICK q : q = (irq_summary # {})
    OBVIOUS
  <2>3. hif' = [i EXCEPT !.core_enable = c, !.load_phase = ld.busy, !.irq = q]
    BY <1>3, <2>1, <2>2
  <2>4. c \in BOOLEAN /\ q \in BOOLEAN
    BY <2>1, <2>2
  <2> QED
    BY <1>2, <2>3, <2>4 DEF HifType
<1>6. Edge(hif')
  BY <1>2, <1>4, <1>5 DEF Edge
<1> QED
  BY <1>4, <1>6

\* A call returns.
LEMMA ReturnIs ==
  ASSUME NEW h \in HostType
  PROVE  /\ Return(h) \in HostType /\ Return(h).pc = "return" /\ Return(h).op = h.op
         /\ Return(h).out = [h.out EXCEPT !.b_ready = FALSE, !.r_ready = FALSE]
<1>1. PICK a : a = At(h, "return")
  OBVIOUS
<1>2. a \in HostType /\ a.pc = "return" /\ a.op = h.op /\ a.out = h.out
  BY <1>1, AtIs
<1>3. PICK b : b = [a EXCEPT !.out.b_ready = FALSE]
  OBVIOUS
<1>4. b \in HostType
  BY <1>2, <1>3 DEF HostType, Out
<1>5. b.pc = a.pc /\ b.op = a.op /\ b.out = [a.out EXCEPT !.b_ready = FALSE]
  BY <1>2, <1>3 DEF HostType
<1>6. Return(h) = [[At(h, "return") EXCEPT !.out.b_ready = FALSE] EXCEPT !.out.r_ready = FALSE]
  BY Zenon DEF Return
<1>7. Return(h) = [b EXCEPT !.out.r_ready = FALSE]
  BY <1>1, <1>3, <1>6
<1>8. PICK k : k = [b EXCEPT !.out.r_ready = FALSE]
  OBVIOUS
<1>9. k \in HostType
  BY <1>4, <1>8 DEF HostType, Out
<1>10. k.pc = b.pc /\ k.op = b.op /\ k.out = [b.out EXCEPT !.r_ready = FALSE]
  BY <1>4, <1>8 DEF HostType
<1>11. k.out = [[h.out EXCEPT !.b_ready = FALSE] EXCEPT !.r_ready = FALSE]
  BY <1>2, <1>5, <1>10
<1> QED
  BY <1>2, <1>5, <1>7, <1>8, <1>9, <1>10, <1>11

\* Two outputs that agree are the same.
LEMMA SameOutputs ==
  ASSUME NEW u \in Out, NEW v \in Out, u.aw <=> v.aw, u.w <=> v.w, u.b_ready <=> v.b_ready,
         u.ar <=> v.ar, u.r_ready <=> v.r_ready
  PROVE  u = v
BY DEF Out

\* What the driver drives in each stage of a call.
LEMMA OutputsOf ==
  /\ NothingDriven \in Out /\ ~NothingDriven.aw /\ ~NothingDriven.w /\ ~NothingDriven.b_ready
     /\ ~NothingDriven.ar /\ ~NothingDriven.r_ready
  /\ Offering \in Out /\ Offering.aw /\ Offering.w /\ ~Offering.b_ready /\ ~Offering.ar
     /\ ~Offering.r_ready
  /\ OfferingData \in Out /\ ~OfferingData.aw /\ OfferingData.w /\ ~OfferingData.b_ready
     /\ ~OfferingData.ar /\ ~OfferingData.r_ready
  /\ TakingB \in Out /\ ~TakingB.aw /\ ~TakingB.w /\ TakingB.b_ready /\ ~TakingB.ar
     /\ ~TakingB.r_ready
  /\ Asking \in Out /\ ~Asking.aw /\ ~Asking.w /\ ~Asking.b_ready /\ Asking.ar /\ ~Asking.r_ready
  /\ TakingR \in Out /\ ~TakingR.aw /\ ~TakingR.w /\ ~TakingR.b_ready /\ ~TakingR.ar
     /\ TakingR.r_ready
<1>1. PICK n : n = NothingDriven
  OBVIOUS
<1>2. n \in Out /\ ~n.aw /\ ~n.w /\ ~n.b_ready /\ ~n.ar /\ ~n.r_ready
  BY <1>1 DEF NothingDriven, Out
<1>3. Offering \in Out /\ Offering.aw /\ Offering.w /\ ~Offering.b_ready /\ ~Offering.ar
      /\ ~Offering.r_ready
  <2>1. PICK o : o = [n EXCEPT !.aw = TRUE, !.w = TRUE]
    OBVIOUS
  <2>2. o \in Out /\ o.aw /\ o.w /\ ~o.b_ready /\ ~o.ar /\ ~o.r_ready
    BY <1>2, <2>1 DEF Out
  <2> QED
    BY <1>1, <2>1, <2>2 DEF Offering
<1>4. OfferingData \in Out /\ ~OfferingData.aw /\ OfferingData.w /\ ~OfferingData.b_ready
      /\ ~OfferingData.ar /\ ~OfferingData.r_ready
  <2>1. PICK o : o = [n EXCEPT !.w = TRUE]
    OBVIOUS
  <2>2. o \in Out /\ ~o.aw /\ o.w /\ ~o.b_ready /\ ~o.ar /\ ~o.r_ready
    BY <1>2, <2>1 DEF Out
  <2> QED
    BY <1>1, <2>1, <2>2 DEF OfferingData
<1>5. TakingB \in Out /\ ~TakingB.aw /\ ~TakingB.w /\ TakingB.b_ready /\ ~TakingB.ar
      /\ ~TakingB.r_ready
  <2>1. PICK o : o = [n EXCEPT !.b_ready = TRUE]
    OBVIOUS
  <2>2. o \in Out /\ ~o.aw /\ ~o.w /\ o.b_ready /\ ~o.ar /\ ~o.r_ready
    BY <1>2, <2>1 DEF Out
  <2> QED
    BY <1>1, <2>1, <2>2 DEF TakingB
<1>6. Asking \in Out /\ ~Asking.aw /\ ~Asking.w /\ ~Asking.b_ready /\ Asking.ar /\ ~Asking.r_ready
  <2>1. PICK o : o = [n EXCEPT !.ar = TRUE]
    OBVIOUS
  <2>2. o \in Out /\ ~o.aw /\ ~o.w /\ ~o.b_ready /\ o.ar /\ ~o.r_ready
    BY <1>2, <2>1 DEF Out
  <2> QED
    BY <1>1, <2>1, <2>2 DEF Asking
<1>7. TakingR \in Out /\ ~TakingR.aw /\ ~TakingR.w /\ ~TakingR.b_ready /\ ~TakingR.ar
      /\ TakingR.r_ready
  <2>1. PICK o : o = [n EXCEPT !.r_ready = TRUE]
    OBVIOUS
  <2>2. o \in Out /\ ~o.aw /\ ~o.w /\ ~o.b_ready /\ ~o.ar /\ o.r_ready
    BY <1>2, <2>1 DEF Out
  <2> QED
    BY <1>1, <2>1, <2>2 DEF TakingR
<1> QED
  BY <1>1, <1>2, <1>3, <1>4, <1>5, <1>6, <1>7

\* The driver's outputs, stage after stage of a call.
LEMMA OutputsAre ==
  /\ [Offering EXCEPT !.aw = FALSE] = OfferingData
  /\ [[OfferingData EXCEPT !.w = FALSE] EXCEPT !.b_ready = TRUE] = TakingB
  /\ [TakingB EXCEPT !.b_ready = FALSE, !.r_ready = FALSE] = NothingDriven
  /\ [[Asking EXCEPT !.ar = FALSE] EXCEPT !.r_ready = TRUE] = TakingR
  /\ [TakingR EXCEPT !.b_ready = FALSE, !.r_ready = FALSE] = NothingDriven
<1>1. [Offering EXCEPT !.aw = FALSE] = OfferingData
  <2>1. PICK o : o = Offering
    OBVIOUS
  <2>2. o \in Out /\ o.aw /\ o.w /\ ~o.b_ready /\ ~o.ar /\ ~o.r_ready
    BY <2>1, OutputsOf
  <2>3. PICK p : p = [o EXCEPT !.aw = FALSE]
    OBVIOUS
  <2>4. p \in Out /\ ~p.aw /\ p.w /\ ~p.b_ready /\ ~p.ar /\ ~p.r_ready
    BY <2>2, <2>3 DEF Out
  <2>5. p = OfferingData
    BY <2>4, OutputsOf, SameOutputs
  <2> QED
    BY <2>1, <2>3, <2>5
<1>2. [[OfferingData EXCEPT !.w = FALSE] EXCEPT !.b_ready = TRUE] = TakingB
  <2>1. PICK o : o = OfferingData
    OBVIOUS
  <2>2. o \in Out /\ ~o.aw /\ o.w /\ ~o.b_ready /\ ~o.ar /\ ~o.r_ready
    BY <2>1, OutputsOf
  <2>3. PICK p : p = [o EXCEPT !.w = FALSE]
    OBVIOUS
  <2>4. p \in Out /\ ~p.aw /\ ~p.w /\ ~p.b_ready /\ ~p.ar /\ ~p.r_ready
    BY <2>2, <2>3 DEF Out
  <2>5. PICK q : q = [p EXCEPT !.b_ready = TRUE]
    OBVIOUS
  <2>6. q \in Out /\ ~q.aw /\ ~q.w /\ q.b_ready /\ ~q.ar /\ ~q.r_ready
    BY <2>4, <2>5 DEF Out
  <2>7. q = TakingB
    BY <2>6, OutputsOf, SameOutputs
  <2> QED
    BY <2>1, <2>3, <2>5, <2>7
<1>3. [TakingB EXCEPT !.b_ready = FALSE, !.r_ready = FALSE] = NothingDriven
  <2>1. PICK o : o = TakingB
    OBVIOUS
  <2>2. o \in Out /\ ~o.aw /\ ~o.w /\ o.b_ready /\ ~o.ar /\ ~o.r_ready
    BY <2>1, OutputsOf
  <2>3. PICK p : p = [o EXCEPT !.b_ready = FALSE, !.r_ready = FALSE]
    OBVIOUS
  <2>4. p \in Out /\ ~p.aw /\ ~p.w /\ ~p.b_ready /\ ~p.ar /\ ~p.r_ready
    BY <2>2, <2>3 DEF Out
  <2>5. p = NothingDriven
    BY <2>4, OutputsOf, SameOutputs
  <2> QED
    BY <2>1, <2>3, <2>5
<1>4. [[Asking EXCEPT !.ar = FALSE] EXCEPT !.r_ready = TRUE] = TakingR
  <2>1. PICK o : o = Asking
    OBVIOUS
  <2>2. o \in Out /\ ~o.aw /\ ~o.w /\ ~o.b_ready /\ o.ar /\ ~o.r_ready
    BY <2>1, OutputsOf
  <2>3. PICK p : p = [o EXCEPT !.ar = FALSE]
    OBVIOUS
  <2>4. p \in Out /\ ~p.aw /\ ~p.w /\ ~p.b_ready /\ ~p.ar /\ ~p.r_ready
    BY <2>2, <2>3 DEF Out
  <2>5. PICK q : q = [p EXCEPT !.r_ready = TRUE]
    OBVIOUS
  <2>6. q \in Out /\ ~q.aw /\ ~q.w /\ ~q.b_ready /\ ~q.ar /\ q.r_ready
    BY <2>4, <2>5 DEF Out
  <2>7. q = TakingR
    BY <2>6, OutputsOf, SameOutputs
  <2> QED
    BY <2>1, <2>3, <2>5, <2>7
<1>5. [TakingR EXCEPT !.b_ready = FALSE, !.r_ready = FALSE] = NothingDriven
  <2>1. PICK o : o = TakingR
    OBVIOUS
  <2>2. o \in Out /\ ~o.aw /\ ~o.w /\ ~o.b_ready /\ ~o.ar /\ o.r_ready
    BY <2>1, OutputsOf
  <2>3. PICK p : p = [o EXCEPT !.b_ready = FALSE, !.r_ready = FALSE]
    OBVIOUS
  <2>4. p \in Out /\ ~p.aw /\ ~p.w /\ ~p.b_ready /\ ~p.ar /\ ~p.r_ready
    BY <2>2, <2>3 DEF Out
  <2>5. p = NothingDriven
    BY <2>4, OutputsOf, SameOutputs
  <2> QED
    BY <2>1, <2>3, <2>5
<1> QED
  BY <1>1, <1>2, <1>3, <1>4, <1>5

\* How many registers have been written.
Count == WrittenBy(Performed)

\* No register is written at this edge, or the next one is.
WritesNone == Written = <<>> /\ Count' = Count /\ hif'.csr = hif.csr /\ ~hif'.kick
WritesNext ==
  /\ WriteTaken /\ Count + 1 \in 1 .. 7 /\ Count' = Count + 1
  /\ Written = <<Registers[Count + 1]>> /\ hif'.csr = hif.csr \cup {Registers[Count + 1]}
  /\ hif'.kick = (Registers[Count + 1] = "MANIFEST_KICK") /\ DataTaken' /\ host'.op = host.op

\* What the driver and the interface do at an edge.
CallGoesOn ==
  /\ host' \in HostType /\ Handshake'
  /\ host'.pc = "return" => host'.op \in WriteOp \cup ReadOp
  /\ host'.op > 6 => host.op > 6 \/ hif.irq
  /\ WritesNone \/ WritesNext

\* Between two calls.
LEMMA RestingEdge ==
  ASSUME host \in HostType, hif \in HifType, Resting,
         host.pc = "return" => host.op \in WriteOp \cup ReadOp,
         NEW rests \in BOOLEAN, host' = Driver(rests), Edge(hif')
  PROVE  CallGoesOn
<1>1. /\ host' \in HostType /\ Began(host') /\ WrittenBy(host'.op - 1) = Count
      /\ host'.op > 6 => host.op > 6 \/ hif.irq
  <2>1. PICK k : k = Driver(rests)
    OBVIOUS
  <2>2. /\ k \in HostType /\ Began(k) /\ WrittenBy(k.op - 1) = WrittenBy(Performed)
        /\ k.op > 6 => host.op > 6 \/ hif.irq
    BY <2>1, DriverAtRest
  <2> QED
    BY <2>1, <2>2 DEF Count
<1>2. /\ hif'.csr = hif.csr /\ ~hif'.kick /\ hif'.axi_state = "IDLE"
      /\ ~hif'.aw_ready /\ ~hif'.ar_ready /\ Written = <<>>
  BY OutputsOf DEF Edge, Resting, Written
<1>3. host'.pc \in {"next", "aw", "ar"}
  BY <1>1 DEF Began
<1>4. Count' = Count
  BY <1>1, <1>3 DEF Count, Performed, PerformedBy
<1>5. Handshake'
  BY <1>1, <1>2 DEF Began, Handshake, Resting, WriteOffered, ReadOffered
<1> QED
  BY <1>1, <1>2, <1>3, <1>4, <1>5 DEF CallGoesOn, WritesNone

\* A write: its address is taken, its data, and it is answered.
LEMMA WriteEdge ==
  ASSUME host \in HostType, hif \in HifType,
         WriteOffered \/ WriteTaken \/ DataTaken \/ WriteAnswered,
         NEW rests \in BOOLEAN, host' = Driver(rests), Edge(hif')
  PROVE  CallGoesOn
<1>1. /\ host.op \in 1 .. 11 /\ host.op \in WriteOp
  BY DEF HostType, WriteOffered, WriteTaken, DataTaken, WriteAnswered
<1>2. /\ operation[2] = Registers[WrittenBy(host.op)]
         /\ WrittenBy(host.op) = WrittenBy(host.op - 1) + 1
      /\ WrittenBy(host.op) \in 0 .. 7 /\ WrittenBy(host.op - 1) \in 0 .. 7
  BY <1>1, ProgramIs DEF operation
<1>3. CASE WriteOffered
  <2>1. host' = At(host, "aw")
    BY <1>3 DEF WriteOffered, Driver, AwaitAw
  <2>2. host' \in HostType /\ host'.pc = "aw" /\ host'.op = host.op /\ host'.out = host.out
    BY <2>1, AtIs
  <2>3. /\ hif'.csr = hif.csr /\ ~hif'.kick /\ hif'.axi_state = "WR_DATA" /\ hif'.aw_ready
        /\ ~hif'.w_ready /\ hif'.wr_addr = operation[2] /\ Written = <<>>
    BY <1>3, OutputsOf DEF Edge, WriteOffered, Written
  <2>4. WriteTaken'
    BY <1>3, <2>2, <2>3 DEF WriteOffered, WriteTaken, operation
  <2>5. Count' = Count
    BY <1>3, <2>2 DEF Count, Performed, PerformedBy, WriteOffered
  <2> QED
    BY <2>2, <2>3, <2>4, <2>5 DEF CallGoesOn, Handshake, WritesNone
<1>4. CASE WriteTaken
  <2>1. PICK a : a = [host EXCEPT !.out.aw = FALSE]
    OBVIOUS
  <2>2. a \in HostType /\ a.op = host.op /\ a.out = OfferingData
    <3>1. a.out = [host.out EXCEPT !.aw = FALSE] /\ a.op = host.op
      BY <2>1 DEF HostType
    <3>2. a \in HostType
      BY <2>1 DEF HostType, Out
    <3> QED
      BY <1>4, <3>1, <3>2, OutputsAre DEF WriteTaken
  <2>3. host' = At(a, "w")
    BY <1>4, <2>1 DEF WriteTaken, Driver, AwaitAw, AwaitW
  <2>4. host' \in HostType /\ host'.pc = "w" /\ host'.op = host.op /\ host'.out = OfferingData
    BY <2>2, <2>3, AtIs
  <2>5. /\ hif'.csr = hif.csr \cup {operation[2]} /\ hif'.kick = (operation[2] = "MANIFEST_KICK")
        /\ hif'.axi_state = "WR_RESP" /\ hif'.w_ready /\ ~hif'.b_valid
           /\ Written = <<operation[2]>>
    BY <1>4, OutputsOf DEF Edge, WriteTaken, Written
  <2>6. DataTaken'
    BY <1>1, <2>4, <2>5 DEF DataTaken
  <2>7. Count = WrittenBy(host.op - 1) /\ Count' = WrittenBy(host.op)
    BY <1>4, <2>4 DEF Count, Performed, PerformedBy, WriteTaken
  <2>8. WritesNext
    BY <1>2, <1>4, <2>4, <2>5, <2>6, <2>7 DEF WritesNext
  <2> QED
    BY <1>4, <2>4, <2>6, <2>8 DEF CallGoesOn, Handshake
<1>5. CASE DataTaken
  <2>1. PICK a : a = [host EXCEPT !.out.w = FALSE, !.out.b_ready = TRUE]
    OBVIOUS
  <2>2. a \in HostType /\ a.op = host.op /\ a.out = TakingB
    <3>1. PICK b : b = [host EXCEPT !.out.w = FALSE]
      OBVIOUS
    <3>2. b \in HostType
      BY <3>1 DEF HostType, Out
    <3>3. b.op = host.op /\ b.out = [host.out EXCEPT !.w = FALSE]
      BY <3>1 DEF HostType
    <3>4. a = [[host EXCEPT !.out.w = FALSE] EXCEPT !.out.b_ready = TRUE]
      BY <2>1, Zenon
    <3>5. a = [b EXCEPT !.out.b_ready = TRUE]
      BY <3>1, <3>4
    <3>6. a.op = b.op /\ a.out = [b.out EXCEPT !.b_ready = TRUE]
      BY <3>2, <3>5 DEF HostType
    <3>7. a \in HostType
      BY <3>2, <3>5 DEF HostType, Out
    <3>8. a.out = TakingB
      BY <1>5, <3>3, <3>6, OutputsAre DEF DataTaken
    <3> QED
      BY <3>3, <3>6, <3>7, <3>8
  <2>3. host' = At(a, "b")
    BY <1>5, <2>1 DEF DataTaken, Driver, AwaitW, AwaitB
  <2>4. host' \in HostType /\ host'.pc = "b" /\ host'.op = host.op /\ host'.out = TakingB
    BY <2>2, <2>3, AtIs
  <2>5. /\ hif'.csr = hif.csr /\ ~hif'.kick /\ hif'.axi_state = "WR_RESP" /\ hif'.b_valid
        /\ Written = <<>>
    BY <1>5, OutputsOf DEF Edge, DataTaken, Written
  <2>6. WriteAnswered'
    BY <1>1, <2>4, <2>5 DEF WriteAnswered
  <2>7. Count' = Count
    BY <1>5, <2>4 DEF Count, Performed, PerformedBy, DataTaken
  <2> QED
    BY <1>5, <2>4, <2>5, <2>6, <2>7 DEF CallGoesOn, Handshake, WritesNone
<1>6. CASE WriteAnswered
  <2>1. host' = Return(host)
    BY <1>6 DEF WriteAnswered, Driver, AwaitB
  <2>2. host' \in HostType /\ host'.pc = "return" /\ host'.op = host.op
        /\ host'.out = NothingDriven
    <3>1. host.out = TakingB
      BY <1>6 DEF WriteAnswered
    <3>2. /\ Return(host) \in HostType /\ Return(host).pc = "return" /\ Return(host).op = host.op
          /\ Return(host).out = [TakingB EXCEPT !.b_ready = FALSE, !.r_ready = FALSE]
      BY <3>1, ReturnIs
    <3> QED
      BY <2>1, <3>2, OutputsAre, Zenon
  <2>3. /\ hif'.csr = hif.csr /\ ~hif'.kick /\ hif'.axi_state = "IDLE" /\ Written = <<>>
    BY <1>6, OutputsOf DEF Edge, WriteAnswered, Written
  <2>4. Count' = Count
    BY <1>6, <2>2 DEF Count, Performed, PerformedBy, WriteAnswered
  <2>5. Resting'
    BY <2>2, <2>3 DEF Resting
  <2> QED
    BY <1>1, <2>2, <2>3, <2>4, <2>5 DEF CallGoesOn, Handshake, WritesNone
<1> QED
  BY <1>3, <1>4, <1>5, <1>6

\* A read: its address is taken, and it is answered.
LEMMA ReadEdge ==
  ASSUME host \in HostType, hif \in HifType, ReadOffered \/ ReadTaken \/ ReadAnswered,
         NEW rests \in BOOLEAN, host' = Driver(rests), Edge(hif')
  PROVE  CallGoesOn
<1>1. /\ host.op \in 1 .. 11 /\ host.op \in ReadOp
  BY DEF HostType, ReadOffered, ReadTaken, ReadAnswered
<1>2. WrittenBy(host.op) = WrittenBy(host.op - 1)
  BY <1>1, ProgramIs
<1>3. CASE ReadOffered
  <2>1. host' = At(host, "ar")
    BY <1>3 DEF ReadOffered, Driver, AwaitAr
  <2>2. host' \in HostType /\ host'.pc = "ar" /\ host'.op = host.op /\ host'.out = host.out
    BY <2>1, AtIs
  <2>3. /\ hif'.csr = hif.csr /\ ~hif'.kick /\ hif'.axi_state = "RD_RESP" /\ hif'.ar_ready
        /\ ~hif'.r_valid /\ Written = <<>>
    BY <1>3, OutputsOf DEF Edge, ReadOffered, Written
  <2>4. ReadTaken'
    BY <1>3, <2>2, <2>3 DEF ReadOffered, ReadTaken
  <2>5. Count' = Count
    BY <1>3, <2>2 DEF Count, Performed, PerformedBy, ReadOffered
  <2> QED
    BY <2>2, <2>3, <2>4, <2>5 DEF CallGoesOn, Handshake, WritesNone
<1>4. CASE ReadTaken
  <2>1. PICK a : a = [host EXCEPT !.out.ar = FALSE, !.out.r_ready = TRUE]
    OBVIOUS
  <2>2. a \in HostType /\ a.op = host.op /\ a.out = TakingR
    <3>1. PICK b : b = [host EXCEPT !.out.ar = FALSE]
      OBVIOUS
    <3>2. b \in HostType
      BY <3>1 DEF HostType, Out
    <3>3. b.op = host.op /\ b.out = [host.out EXCEPT !.ar = FALSE]
      BY <3>1 DEF HostType
    <3>4. a = [[host EXCEPT !.out.ar = FALSE] EXCEPT !.out.r_ready = TRUE]
      BY <2>1, Zenon
    <3>5. a = [b EXCEPT !.out.r_ready = TRUE]
      BY <3>1, <3>4
    <3>6. a.op = b.op /\ a.out = [b.out EXCEPT !.r_ready = TRUE]
      BY <3>2, <3>5 DEF HostType
    <3>7. a \in HostType
      BY <3>2, <3>5 DEF HostType, Out
    <3>8. a.out = TakingR
      BY <1>4, <3>3, <3>6, OutputsAre DEF ReadTaken
    <3> QED
      BY <3>3, <3>6, <3>7, <3>8
  <2>3. host' = At(a, "r")
    BY <1>4, <2>1 DEF ReadTaken, Driver, AwaitAr, AwaitR
  <2>4. host' \in HostType /\ host'.pc = "r" /\ host'.op = host.op /\ host'.out = TakingR
    BY <2>2, <2>3, AtIs
  <2>5. /\ hif'.csr = hif.csr /\ ~hif'.kick /\ hif'.axi_state = "RD_RESP" /\ hif'.r_valid
        /\ Written = <<>>
    BY <1>4, OutputsOf DEF Edge, ReadTaken, Written
  <2>6. ReadAnswered'
    BY <1>1, <2>4, <2>5 DEF ReadAnswered
  <2>7. Count' = Count
    BY <1>4, <2>4 DEF Count, Performed, PerformedBy, ReadTaken
  <2> QED
    BY <1>4, <2>4, <2>5, <2>6, <2>7 DEF CallGoesOn, Handshake, WritesNone
<1>5. CASE ReadAnswered
  <2>1. PICK a : a = [host EXCEPT !.irq = hif.rd_rdata]
    OBVIOUS
  <2>2. a \in HostType /\ a.op = host.op /\ a.out = TakingR
    BY <1>5, <2>1 DEF HostType, HifType, ReadAnswered
  <2>3. host' = Return(a)
    BY <1>5, <2>1 DEF ReadAnswered, Driver, AwaitR
  <2>4. host' \in HostType /\ host'.pc = "return" /\ host'.op = host.op
        /\ host'.out = NothingDriven
    <3>1. /\ Return(a) \in HostType /\ Return(a).pc = "return" /\ Return(a).op = host.op
          /\ Return(a).out = [TakingR EXCEPT !.b_ready = FALSE, !.r_ready = FALSE]
      BY <2>2, ReturnIs
    <3> QED
      BY <2>3, <3>1, OutputsAre, Zenon
  <2>5. /\ hif'.csr = hif.csr /\ ~hif'.kick /\ hif'.axi_state = "IDLE" /\ Written = <<>>
    BY <1>5, OutputsOf DEF Edge, ReadAnswered, Written
  <2>6. Count' = Count
    BY <1>2, <1>5, <2>4 DEF Count, Performed, PerformedBy, ReadAnswered
  <2>7. Resting'
    BY <2>4, <2>5 DEF Resting
  <2> QED
    BY <1>1, <2>4, <2>5, <2>6, <2>7 DEF CallGoesOn, Handshake, WritesNone
<1> QED
  BY <1>3, <1>4, <1>5

\* Together: a call goes on by one stage at an edge.
LEMMA HostEdge ==
  ASSUME host \in HostType, hif \in HifType, Handshake,
         host.pc = "return" => host.op \in WriteOp \cup ReadOp,
         NEW rests \in BOOLEAN, host' = Driver(rests), Edge(hif')
  PROVE  CallGoesOn
BY RestingEdge, WriteEdge, ReadEdge DEF Handshake

-----------------------------------------------------------------------------
(* The inductive invariant.                                                *)

Typed ==
  /\ manifest \in ManifestType /\ host \in HostType /\ hif \in HifType /\ dram \in DramType
  /\ core \in {"stopped", "runs", "halted"} /\ log \in Seq(Names)

\* The registers that have been written are the first of the program's, in order.
RegistersWritten ==
  /\ Len(log) = Count
  /\ \A i \in 1 .. Count : log[i] = Registers[i]
  /\ hif.csr = {Registers[i] : i \in 1 .. Count}

\* The loader is kicked by the fifth write, and only once.
KickedOnce ==
  /\ hif.kick => DataTaken /\ Count = 5 /\ ld.state = "LD_IDLE"
  /\ ld.state # "LD_IDLE" => Count >= 5

\* The host goes on, and the core is enabled, when the loader has ended.
WaitsForLoader ==
  /\ hif.irq \/ host.op > 6 => Ended(ld)
  /\ core # "stopped" \/ hif.core_enable => "HACC_CTRL" \in hif.csr

CallsReturn == host.pc = "return" => host.op \in WriteOp \cup ReadOp

IInv ==
  /\ Typed /\ LoaderOk(ld, manifest) /\ DramHas /\ CopiedSoFar
  /\ Handshake /\ CallsReturn /\ RegistersWritten /\ KickedOnce /\ WaitsForLoader

\* The registers written are those of a number, and only the last is HACC_CTRL.
LEMMA RegistersAre ==
  ASSUME NEW n \in 0 .. 7, NEW S, S = {Registers[i] : i \in 1 .. n}
  PROVE  /\ "HACC_CTRL" \in S => n = 7
         /\ n >= 4 => {"MANIFEST_ADDR_LO", "MANIFEST_SIZE"} \subseteq S
         /\ n < 7 => {Registers[i] : i \in 1 .. n + 1} = S \cup {Registers[n + 1]}
         /\ n < 7 => Registers[n + 1] \in Names
         /\ n < 7 /\ Registers[n + 1] = "MANIFEST_KICK" => n = 4
<1>1. /\ Registers[1] = "CORE_BOOT_ADDR" /\ Registers[2] = "MANIFEST_ADDR_LO"
      /\ Registers[3] = "MANIFEST_ADDR_HI" /\ Registers[4] = "MANIFEST_SIZE"
      /\ Registers[5] = "MANIFEST_KICK" /\ Registers[6] = "IRQ_FORCE_ACK"
      /\ Registers[7] = "HACC_CTRL"
  BY DEF Registers
<1>2. \A i \in 1 .. 7 : i \in {1, 2, 3, 4, 5, 6, 7}
  OBVIOUS
<1>3. ASSUME "HACC_CTRL" \in S PROVE n = 7
  <2>1. PICK i \in 1 .. n : Registers[i] = "HACC_CTRL"
    BY <1>3
  <2>2. i \in {1, 2, 3, 4, 5, 6, 7}
    BY <1>2
  <2>3. i = 7
    BY <1>1, <2>1, <2>2
  <2> QED
    BY <2>3
<1>4. ASSUME n >= 4 PROVE {"MANIFEST_ADDR_LO", "MANIFEST_SIZE"} \subseteq S
  <2>1. 2 \in 1 .. n /\ 4 \in 1 .. n
    BY <1>4
  <2>2. Registers[2] \in S /\ Registers[4] \in S
    BY <2>1
  <2> QED
    BY <1>1, <2>2
<1>5. ASSUME n < 7 PROVE {Registers[i] : i \in 1 .. n + 1} = S \cup {Registers[n + 1]}
  <2>1. 1 .. n + 1 = (1 .. n) \cup {n + 1}
    OBVIOUS
  <2> QED
    BY <2>1
<1>6. ASSUME n < 7
      PROVE  Registers[n + 1] \in Names /\ (Registers[n + 1] = "MANIFEST_KICK" => n = 4)
  <2>1. n \in {0, 1, 2, 3, 4, 5, 6}
    BY <1>6
  <2>2. /\ Registers[0 + 1] = "CORE_BOOT_ADDR" /\ Registers[1 + 1] = "MANIFEST_ADDR_LO"
        /\ Registers[2 + 1] = "MANIFEST_ADDR_HI" /\ Registers[3 + 1] = "MANIFEST_SIZE"
        /\ Registers[4 + 1] = "MANIFEST_KICK" /\ Registers[5 + 1] = "IRQ_FORCE_ACK"
        /\ Registers[6 + 1] = "HACC_CTRL"
    BY <1>1
  <2> QED
    BY <2>1, <2>2 DEF Names
<1> QED
  BY <1>3, <1>4, <1>5, <1>6

\* What the invariant says of the numbers of operations and writes.
LEMMA CountIs ==
  ASSUME Typed, Handshake, CallsReturn
  PROVE  Count \in 0 .. 7 /\ (Count = 7 => host.op > 6)
<1>1. host.op \in 1 .. 11 /\ Performed \in {host.op, host.op - 1}
  BY DEF Typed, HostType, Performed, PerformedBy
<1>2. WrittenBy(host.op) \in 0 .. 7 /\ WrittenBy(host.op - 1) \in 0 .. 7
  BY <1>1, ProgramIs
<1>3. \A n \in 0 .. 11 : WrittenBy(n) = 7 => n >= 9
  BY DEF WrittenBy
<1>4. Performed \in 0 .. 11
  BY <1>1
<1> QED
  BY <1>1, <1>2, <1>3, <1>4 DEF Count

\* When the core may run, the loader has ended.
LEMMA EnabledIsLate ==
  ASSUME IInv, core # "stopped" \/ hif.core_enable
  PROVE  Ended(ld)
<1>1. Typed /\ Handshake /\ CallsReturn /\ RegistersWritten /\ WaitsForLoader
  BY DEF IInv
<1>2. "HACC_CTRL" \in hif.csr
  BY <1>1 DEF WaitsForLoader
<1>3. Count \in 0 .. 7 /\ (Count = 7 => host.op > 6)
  BY <1>1, CountIs
<1>4. hif.csr = {Registers[i] : i \in 1 .. Count}
  BY <1>1 DEF RegistersWritten
<1>5. Count = 7
  BY <1>2, <1>3, <1>4, RegistersAre
<1> QED
  BY <1>1, <1>3, <1>5 DEF WaitsForLoader

\* The invariant at the start.
LEMMA InitIInv == Init => IInv
<1> SUFFICES ASSUME Init PROVE IInv
  OBVIOUS
<1>1. manifest \in ManifestType
  BY LoaderAssumption DEF Init, LoaderInit, ManifestType
<1>2. NoData \in Address /\ NoEntry \in Entry /\ <<>> \in Seq(Address) /\ <<>> \in Seq(Put)
      /\ <<>> \in Seq(Answer) /\ <<>> \in Seq(Names)
  <2>1. 1 \in 1 .. WordBytes
    BY LoaderAssumption
  <2> QED
    BY <2>1 DEF NoData, NoEntry, Address, Entry
<1>3. ld \in LoaderType
  BY <1>2 DEF Init, LoaderInit, LoaderType, LdErrors
<1>4. /\ ld.state = "LD_IDLE" /\ ld.pc = "top" /\ ld.entry_idx = 0 /\ ld.at = 0
      /\ ld.cur_entry = NoEntry /\ ld.ar = <<>> /\ ld.r_ready = FALSE /\ ld.wr = <<>>
      /\ ld.load_phase = FALSE /\ ld.busy = FALSE /\ ld.done = FALSE /\ ld.err = "LD_OK"
  BY DEF Init, LoaderInit
<1>5. Outputs(ld)
  BY <1>4 DEF Outputs
<1>6. AtPlace(ld, manifest)
  BY <1>4 DEF AtPlace, NoEntry
<1>7. dram \in DramType /\ dram.queue = <<>> /\ dram.r = <<>>
  BY <1>2 DEF Init, LoaderInit, DramType
<1>8. DramHas
  BY <1>4, <1>7 DEF DramHas
<1>9. CopiedSoFar
  <2>1. Place(ld) = <<0, 0>>
    BY <1>4 DEF Place, Within
  <2>2. Copied = Before(Place(ld))
    BY DEF Copied, Before, Place, Within, within_entry
  <2>3. Copied = {}
    BY <1>1, <2>1, <2>2, FirstAndLast
  <2>4. DOMAIN ram = {}
    BY DEF Init, LoaderInit
  <2> QED
    BY <2>3, <2>4 DEF CopiedSoFar, Holds
<1>10. /\ host.op = 1 /\ host.pc = "next" /\ host.out = NothingDriven /\ host \in HostType
  <2>1. NothingDriven \in Out
    BY OutputsOf
  <2>2. PICK h : h = host
    OBVIOUS
  <2>3. h = [op |-> 1, pc |-> "next", irq |-> {}, out |-> NothingDriven]
    BY <2>2 DEF Init
  <2>4. h \in HostType /\ h.op = 1 /\ h.pc = "next" /\ h.out = NothingDriven
    BY <2>1, <2>3 DEF HostType
  <2> QED
    BY <2>2, <2>4
<1>11. /\ hif.axi_state = "IDLE" /\ hif.csr = {} /\ hif.kick = FALSE /\ hif.core_enable = FALSE
       /\ hif.irq = FALSE
  BY DEF Init
<1>12. hif \in HifType
  BY DEF Init, HifType, Names
<1>13. Handshake /\ CallsReturn
  BY <1>10, <1>11 DEF Handshake, Resting, CallsReturn
<1>14. Count = 0
  BY <1>10 DEF Count, Performed, PerformedBy, WrittenBy
<1>15. RegistersWritten
  <2>1. Len(log) = 0
    BY DEF Init
  <2>2. \A i \in 1 .. 0 : FALSE
    OBVIOUS
  <2>3. {Registers[i] : i \in 1 .. 0} = {}
    BY <2>2
  <2> QED
    BY <1>11, <1>14, <2>1, <2>2, <2>3 DEF RegistersWritten
<1>16. KickedOnce /\ WaitsForLoader
  <2>1. core = "stopped"
    BY DEF Init
  <2>2. ~(host.op > 6)
    BY <1>10
  <2> QED
    BY <1>4, <1>11, <2>1, <2>2 DEF KickedOnce, WaitsForLoader
<1>17. Typed
  BY <1>1, <1>2, <1>7, <1>10, <1>12 DEF Typed, Init
<1> QED
  BY <1>3, <1>5, <1>6, <1>8, <1>9, <1>13, <1>15, <1>16, <1>17 DEF IInv, LoaderOk

\* The registers written stay the first of the program's.
LEMMA RegistersEdge ==
  ASSUME Typed, Handshake, CallsReturn, RegistersWritten, CallGoesOn, log' = log \o Written
  PROVE  RegistersWritten' /\ log' \in Seq(Names) /\ hif.csr \subseteq hif'.csr
<1>1. log \in Seq(Names) /\ Len(log) = Count /\ Count \in 0 .. 7
  BY CountIs DEF Typed, RegistersWritten
<1>2. CASE WritesNone
  <2>1. log' = log
    BY <1>1, <1>2 DEF WritesNone
  <2> QED
    BY <1>1, <1>2, <2>1 DEF WritesNone, RegistersWritten
<1>3. CASE WritesNext
  <2>1. PICK n : n = Count
    OBVIOUS
  <2>2. PICK r : r = Registers[n + 1]
    OBVIOUS
  <2>3. n \in 0 .. 7 /\ n < 7 /\ Count' = n + 1 /\ Written = <<r>> /\ hif'.csr = hif.csr \cup {r}
    BY <1>1, <1>3, <2>1, <2>2 DEF WritesNext
  <2>4. hif.csr = {Registers[i] : i \in 1 .. n}
    BY <2>1 DEF RegistersWritten
  <2>5. r \in Names /\ {Registers[i] : i \in 1 .. n + 1} = hif.csr \cup {r}
    BY <2>2, <2>3, <2>4, RegistersAre
  <2>6. log' = Append(log, r)
    BY <1>1, <2>3
  <2>7. /\ log' \in Seq(Names) /\ Len(log') = n + 1 /\ log'[n + 1] = r
        /\ \A i \in 1 .. n : log'[i] = log[i]
    BY <1>1, <2>1, <2>3, <2>5, <2>6
  <2>8. \A i \in 1 .. n : log[i] = Registers[i]
    BY <2>1 DEF RegistersWritten
  <2>9. \A i \in 1 .. n + 1 : log'[i] = Registers[i]
    <3> TAKE i \in 1 .. n + 1
    <3>1. i \in 1 .. n \/ i = n + 1
      BY <2>3
    <3> QED
      BY <2>2, <2>7, <2>8, <3>1
  <2>10. RegistersWritten'
    BY <2>3, <2>5, <2>7, <2>9 DEF RegistersWritten
  <2> QED
    BY <2>3, <2>7, <2>10
<1> QED
  BY <1>2, <1>3 DEF CallGoesOn

\* A step of the loader and the DRAM.
LEMMA LoadEdge ==
  ASSUME IInv, manifest' = manifest, NEW serves \in BOOLEAN, NEW ok \in BOOLEAN,
         ld' = Loader(ld, hif.kick, given_manifest, loader_ar_ready, loader_r),
         DramEdge(port_ar, port_r_ready, serves, ok), hif'.load_phase = ld.busy
  PROVE  /\ Keeps(ld, ld', manifest) /\ Moves(ld, ld', manifest) /\ dram' \in DramType /\ DramHas'
         /\ ld.state = "LD_IDLE" /\ ~hif.kick => ld'.state = "LD_IDLE"
<1>1. /\ manifest \in ManifestType /\ LoaderOk(ld, manifest) /\ dram \in DramType /\ DramHas
      /\ hif.kick \in BOOLEAN /\ hif.load_phase \in BOOLEAN
      /\ hif.kick => ld.state = "LD_IDLE"
  BY DEF IInv, Typed, HifType, KickedOnce
<1>2. Count \in 0 .. 7 /\ hif.csr = {Registers[i] : i \in 1 .. Count}
  BY CountIs DEF IInv, RegistersWritten
<1>3. ASSUME hif.kick \/ ld.state # "LD_IDLE"
      PROVE  given_manifest.entries = manifest.entries
  <2>1. Count >= 4
    BY <1>2, <1>3 DEF IInv, KickedOnce
  <2>2. {"MANIFEST_ADDR_LO", "MANIFEST_SIZE"} \subseteq hif.csr
    BY <1>2, <2>1, RegistersAre
  <2> QED
    BY <2>2 DEF given_manifest
<1>4. given_manifest \in ManifestType
  <2>1. manifest.aligned \in BOOLEAN /\ manifest.entries \in Seq(Entry) /\ <<>> \in Seq(Entry)
    BY <1>1 DEF ManifestType
  <2> QED
    BY <2>1 DEF given_manifest, ManifestType
<1> QED
  BY <1>1, <1>3, <1>4, LoaderEdge

\* The loader is kicked only once.
LEMMA KickEdge ==
  ASSUME IInv, CallGoesOn, ld.state = "LD_IDLE" /\ ~hif.kick => ld'.state = "LD_IDLE"
  PROVE  KickedOnce'
<1>1. Count \in 0 .. 7 /\ hif.kick \in BOOLEAN
  BY CountIs DEF IInv, Typed, HifType
<1>2. CASE WritesNone
  <2>1. ~hif'.kick /\ Count' = Count
    BY <1>2 DEF WritesNone
  <2>2. ld'.state # "LD_IDLE" => Count >= 5
    BY <1>1 DEF IInv, KickedOnce
  <2> QED
    BY <2>1, <2>2 DEF KickedOnce
<1>3. CASE WritesNext
  <2>1. ~hif.kick
    BY <1>3 DEF IInv, KickedOnce, DataTaken, WritesNext, WriteTaken
  <2>2. PICK n : n = Count
    OBVIOUS
  <2>3. PICK r : r = Registers[n + 1]
    OBVIOUS
  <2>4. n \in 0 .. 7 /\ n < 7 /\ Count' = n + 1 /\ hif'.kick = (r = "MANIFEST_KICK") /\ DataTaken'
    BY <1>1, <1>3, <2>2, <2>3 DEF WritesNext
  <2>5. r = "MANIFEST_KICK" => n = 4
    <3>1. PICK S : S = {Registers[i] : i \in 1 .. n}
      OBVIOUS
    <3> QED
      BY <2>3, <2>4, <3>1, RegistersAre
  <2>6. ld'.state # "LD_IDLE" => n >= 5
    BY <2>1, <2>2 DEF IInv, KickedOnce
  <2>7. ASSUME hif'.kick
        PROVE  DataTaken' /\ Count' = 5 /\ ld'.state = "LD_IDLE"
    <3>1. n = 4
      BY <2>4, <2>5, <2>7
    <3> QED
      BY <2>4, <2>6, <3>1
  <2>8. ld'.state # "LD_IDLE" => Count' >= 5
    BY <2>4, <2>6
  <2> QED
    BY <2>7, <2>8 DEF KickedOnce
<1> QED
  BY <1>2, <1>3 DEF CallGoesOn

\* What waits for the loader still does.
LEMMA WaitsEdge ==
  ASSUME IInv, CallGoesOn, Ended(ld) => Ended(ld'), hif'.irq = (irq_summary # {}),
         hif'.core_enable = ("HACC_CTRL" \in hif'.csr), hif.csr \subseteq hif'.csr,
         core' # "stopped" => core # "stopped" \/ hif.core_enable
  PROVE  WaitsForLoader'
<1>1. ASSUME hif'.irq \/ host'.op > 6
      PROVE  Ended(ld')
  <2>1. CASE hif'.irq
    <3>1. ld.done \/ ld.err # "LD_OK" \/ core = "halted"
      BY <2>1 DEF irq_summary
    <3>2. core = "halted" => Ended(ld)
      BY EnabledIsLate
    <3> QED
      BY <3>1, <3>2 DEF Ended
  <2>2. CASE host'.op > 6
    <3>1. host.op > 6 \/ hif.irq
      BY <2>2 DEF CallGoesOn
    <3> QED
      BY <3>1 DEF IInv, WaitsForLoader
  <2> QED
    BY <1>1, <2>1, <2>2
<1>2. ASSUME core' # "stopped" \/ hif'.core_enable
      PROVE  "HACC_CTRL" \in hif'.csr
  BY <1>2 DEF IInv, WaitsForLoader
<1> QED
  BY <1>1, <1>2 DEF WaitsForLoader

\* An edge keeps the invariant.
LEMMA NextIInv == IInv /\ [Next]_vars => IInv'
<1> SUFFICES ASSUME IInv, [Next]_vars PROVE IInv'
  OBVIOUS
<1>1. ASSUME NEW rests \in BOOLEAN, NEW serves \in BOOLEAN, NEW ok \in BOOLEAN,
             NEW halts \in BOOLEAN, Clock(rests, serves, ok, halts)
      PROVE  IInv'
  <2>1. /\ manifest' = manifest /\ host' = Driver(rests) /\ hif' = Interface /\ RamEdge
        /\ ld' = Loader(ld, hif.kick, given_manifest, loader_ar_ready, loader_r)
        /\ DramEdge(port_ar, port_r_ready, serves, ok) /\ log' = log \o Written
    BY <1>1 DEF Clock
  <2>2. /\ Typed /\ LoaderOk(ld, manifest) /\ CopiedSoFar /\ Handshake /\ CallsReturn
        /\ RegistersWritten /\ manifest \in ManifestType /\ host \in HostType /\ hif \in HifType
        /\ ld \in LoaderType
    BY DEF IInv, Typed, LoaderOk
  <2>3. /\ Edge(hif') /\ hif'.load_phase = ld.busy /\ hif'.irq = (irq_summary # {})
        /\ hif'.core_enable = ("HACC_CTRL" \in hif'.csr)
    BY <2>1, <2>2, InterfaceIs DEF LoaderType
  <2>4. CallGoesOn
    BY <2>1, <2>2, <2>3, HostEdge DEF CallsReturn
  <2>5. RegistersWritten' /\ log' \in Seq(Names) /\ hif.csr \subseteq hif'.csr
    BY <2>1, <2>2, <2>4, RegistersEdge
  <2>6. /\ Keeps(ld, ld', manifest) /\ Moves(ld, ld', manifest) /\ dram' \in DramType /\ DramHas'
        /\ ld.state = "LD_IDLE" /\ ~hif.kick => ld'.state = "LD_IDLE"
    BY <2>1, <2>3, LoadEdge
  <2>7. CopiedSoFar'
    BY <2>1, <2>2, <2>6, CopiedEdge
  <2>8. KickedOnce'
    BY <2>4, <2>6, KickEdge
  <2>9. /\ core' \in {"stopped", "runs", "halted"}
        /\ core' # "stopped" => core # "stopped" \/ hif.core_enable
    <3>1. core' = IF ~hif.core_enable THEN core
                  ELSE IF halts \/ core = "halted" THEN "halted" ELSE "runs"
      BY <1>1 DEF Clock
    <3>2. core \in {"stopped", "runs", "halted"}
      BY <2>2 DEF Typed
    <3> QED
      BY <3>1, <3>2
  <2>10. WaitsForLoader'
    BY <2>3, <2>4, <2>5, <2>6, <2>9, WaitsEdge DEF Keeps
  <2>11. Typed'
    BY <2>1, <2>2, <2>3, <2>4, <2>5, <2>6, <2>9 DEF Typed, CallGoesOn, Edge
  <2>12. LoaderOk(ld, manifest)'
    BY <2>1, <2>6 DEF Keeps
  <2>13. Handshake' /\ CallsReturn'
    BY <2>4 DEF CallGoesOn, CallsReturn
  <2> QED
    BY <2>5, <2>6, <2>7, <2>8, <2>10, <2>11, <2>12, <2>13 DEF IInv
<1>2. CASE Next
  <2>1. MayFail \in BOOLEAN
    BY LoaderAssumption
  <2>2. PICK rests \in BOOLEAN, serves \in BOOLEAN, ok \in {TRUE, ~MayFail}, halts \in BOOLEAN :
          Clock(rests, serves, ok, halts)
    BY <1>2 DEF Next
  <2>3. ok \in BOOLEAN
    BY <2>1
  <2> QED
    BY <1>1, <2>2, <2>3
<1>3. CASE UNCHANGED vars
  <2>1. /\ manifest' = manifest /\ ld' = ld /\ ram' = ram /\ dram' = dram /\ host' = host
        /\ hif' = hif /\ log' = log /\ core' = core
    BY <1>3 DEF vars
  <2>2. Typed' /\ LoaderOk(ld, manifest)' /\ DramHas'
    BY <2>1 DEF IInv, Typed, DramHas
  <2>3. CopiedSoFar'
    <3>1. Copied' = Copied
      BY <2>1 DEF Copied, ImageWords, within_entry
    <3>2. PICK S : S = Copied
      OBVIOUS
    <3>3. Holds(S)
      BY <3>2 DEF IInv, CopiedSoFar
    <3>4. Holds(S)'
      BY <2>1, <3>3, HoldsStill
    <3> QED
      BY <3>1, <3>2, <3>4, Zenon DEF CopiedSoFar, Holds
  <2>4. Handshake' /\ DataTaken' = DataTaken /\ CallsReturn' /\ Count' = Count
    BY <2>1 DEF IInv, Handshake, Resting, WriteOffered, WriteTaken, DataTaken, WriteAnswered,
                ReadOffered, ReadTaken, ReadAnswered, operation, CallsReturn, Count, Performed
  <2>5. RegistersWritten' /\ KickedOnce' /\ WaitsForLoader'
    BY <2>1, <2>4 DEF IInv, RegistersWritten, KickedOnce, WaitsForLoader
  <2> QED
    BY <2>2, <2>3, <2>4, <2>5 DEF IInv
<1> QED
  BY <1>2, <1>3

\* The invariant always holds.
THEOREM Invariance == Spec => []IInv
BY InitIInv, NextIInv, PTL DEF Spec

\* Whatever the DRAM's delays and wherever the loader stops, the memories hold the
\* sections' words up to its place and nothing else.
THEOREM MemoriesFollow == Spec => []CopiedSoFar
<1>1. IInv => CopiedSoFar
  BY DEF IInv
<1> QED
  BY <1>1, Invariance, PTL

\* The core does not run before the loader has come to its end.
THEOREM CoreWaits == Spec => []RunsAfterEnd
<1>1. IInv => RunsAfterEnd
  <2> SUFFICES ASSUME IInv, hif.core_enable, ld.err = "LD_OK"
               PROVE  ld.done /\ Holds(ImageWords)
    BY DEF RunsAfterEnd
  <2>1. ld.done
    BY EnabledIsLate DEF Ended
  <2>2. manifest \in ManifestType /\ LoaderOk(ld, manifest) /\ CopiedSoFar
    BY DEF IInv, Typed
  <2>3. ld.state = "LD_DONE" /\ ld.entry_idx = Len(manifest.entries)
    BY <2>1, <2>2 DEF LoaderOk, LoaderType, AtPlace
  <2>4. Place(ld) = <<Len(manifest.entries), 0>>
    BY <2>3 DEF Place, Within
  <2>5. Copied = Before(Place(ld))
    BY DEF Copied, Before, Place, Within, within_entry
  <2>6. Copied = ImageWords
    BY <2>2, <2>4, <2>5, FirstAndLast
  <2> QED
    BY <2>1, <2>2, <2>6 DEF CopiedSoFar
<1> QED
  BY <1>1, Invariance, PTL

\* The writes of the program's first n operations: one more after a write.
LEMMA WritesStep ==
  ASSUME NEW n \in 1 .. 11, IsFiniteSet(WritesUpTo(n - 1)),
         Cardinality(WritesUpTo(n - 1)) = WrittenBy(n - 1)
  PROVE  IsFiniteSet(WritesUpTo(n)) /\ Cardinality(WritesUpTo(n)) = WrittenBy(n)
<1>1. n - 1 \in Nat /\ n \notin 1 .. n - 1 /\ 1 .. n = (1 .. n - 1) \cup {n}
  OBVIOUS
<1>2. CASE n \in WriteOp
  <2>1. Program[n][1] = "write" /\ WrittenBy(n) = WrittenBy(n - 1) + 1
    BY <1>2, ProgramIs
  <2>2. WritesUpTo(n) = WritesUpTo(n - 1) \cup {n} /\ n \notin WritesUpTo(n - 1)
    BY <1>1, <2>1 DEF WritesUpTo
  <2>3. /\ IsFiniteSet(WritesUpTo(n - 1) \cup {n})
        /\ Cardinality(WritesUpTo(n - 1) \cup {n}) = Cardinality(WritesUpTo(n - 1)) + 1
    BY <2>2, FS_AddElement
  <2> QED
    BY <2>1, <2>2, <2>3
<1>3. CASE n \notin WriteOp
  <2>1. n \in ReadOp \cup {6, 11} /\ WrittenBy(n) = WrittenBy(n - 1)
    BY <1>3, ProgramIs DEF WrittenBy, ReadOp
  <2>2. Program[n][1] # "write"
    BY <2>1, ProgramIs
  <2>3. WritesUpTo(n) = WritesUpTo(n - 1)
    BY <1>1, <2>2 DEF WritesUpTo
  <2> QED
    BY <2>1, <2>3
<1> QED
  BY <1>2, <1>3

\* How many writes there are among the program's first operations.
LEMMA WritesAre ==
  \A n \in 0 .. 11 : Cardinality(WritesUpTo(n)) = WrittenBy(n)
<1> DEFINE Good(n) == IsFiniteSet(WritesUpTo(n)) /\ Cardinality(WritesUpTo(n)) = WrittenBy(n)
<1>1. Good(0)
  <2>1. WritesUpTo(0) = {}
    BY DEF WritesUpTo
  <2>2. WrittenBy(0) = 0
    BY DEF WrittenBy
  <2> QED
    BY <2>1, <2>2, FS_EmptySet
<1>2. \A n \in 1 .. 11 : Good(n - 1) => Good(n)
  BY WritesStep
<1> HIDE DEF Good
<1>3. \A k \in 0 .. 10 : Good(k) => Good(k + 1)
  <2> TAKE k \in 0 .. 10
  <2>1. k + 1 \in 1 .. 11 /\ (k + 1) - 1 = k
    OBVIOUS
  <2> QED
    BY <1>2, <2>1
<1>4. Good(1) /\ Good(2) /\ Good(3) /\ Good(4) /\ Good(5) /\ Good(6)
  BY <1>1, <1>3
<1>5. Good(7) /\ Good(8) /\ Good(9) /\ Good(10) /\ Good(11)
  BY <1>3, <1>4
<1> QED
  <2> SUFFICES ASSUME NEW n \in 0 .. 11 PROVE Cardinality(WritesUpTo(n)) = WrittenBy(n)
    OBVIOUS
  <2>1. n \in {0, 1, 2, 3, 4, 5, 6, 7, 8, 9, 10, 11}
    OBVIOUS
  <2>2. Good(n)
    BY <1>1, <1>4, <1>5, <2>1
  <2> QED
    BY <2>2 DEF Good

\* When a call returns the registers of the program so far have been written, once
\* each and in order.
THEOREM WritesHappenOnce == Spec => []WritesOnce
<1>1. IInv => WritesOnce
  <2> SUFFICES ASSUME IInv, host.pc \in {"next", "return"}
               PROVE  /\ Len(log) = Cardinality(WritesUpTo(Performed))
                      /\ \A o \in WritesUpTo(Performed) :
                           log[Cardinality(WritesUpTo(o))] = Program[o][2]
    BY DEF WritesOnce, Performed, PerformedBy
  <2>1. RegistersWritten /\ host.op \in 1 .. 11 /\ Performed \in 0 .. 11
    BY DEF IInv, Typed, HostType, Performed, PerformedBy
  <2>2. Len(log) = Cardinality(WritesUpTo(Performed))
    BY <2>1, WritesAre DEF RegistersWritten, Count
  <2>3. ASSUME NEW o \in WritesUpTo(Performed)
        PROVE  log[Cardinality(WritesUpTo(o))] = Program[o][2]
    <3>1. o \in 1 .. 11 /\ o <= Performed /\ Program[o][1] = "write"
      BY <2>1, <2>3 DEF WritesUpTo
    <3>2. o \in WriteOp
      BY <3>1, ProgramIs DEF ReadOp
    <3>3. Program[o][2] = Registers[WrittenBy(o)] /\ Cardinality(WritesUpTo(o)) = WrittenBy(o)
      BY <3>1, <3>2, ProgramIs, WritesAre
    <3>4. WrittenBy(o) \in 1 .. WrittenBy(Performed)
      BY <2>1, <3>1 DEF WrittenBy
    <3> QED
      BY <2>1, <3>3, <3>4 DEF RegistersWritten, Count
  <2> QED
    BY <2>2, <2>3
<1> QED
  BY <1>1, Invariance, PTL

-----------------------------------------------------------------------------
(* The interrupt controller.                                               *)

\* Every edge keeps what is owed pending: each action samples the lines, and only a
\* claim takes a source out of both.
LEMMA OwedStep == NoInterruptLost /\ [PlicNext]_plic_vars => NoInterruptLost'
<1> SUFFICES ASSUME NoInterruptLost, [PlicNext]_plic_vars PROVE NoInterruptLost'
  OBVIOUS
<1>1. CASE UNCHANGED plic_vars
  BY <1>1 DEF plic_vars, NoInterruptLost
<1>2. CASE pending' = Sampled /\ owed' = owed \cup irq
  BY <1>2 DEF NoInterruptLost, Sampled
<1>3. CASE Claim
  BY <1>3 DEF NoInterruptLost, Sampled, Claim
<1> QED
  BY <1>1, <1>2, <1>3
     DEF PlicNext, NoAccess, WritePriority, WriteEnable, WriteThreshold, Complete

\* A source that came up stays pending until it is claimed, for any number of
\* sources and any software: also while its last claim is not completed.
THEOREM NothingLost == PlicSpec => []NoInterruptLost
<1>1. PlicInit => NoInterruptLost
  BY DEF PlicInit, NoInterruptLost
<1> QED
  BY <1>1, OwedStep, PTL DEF PlicSpec

-----------------------------------------------------------------------------
(* MEIP.                                                                   *)

\* Between two edges MEIP is right when something it is sensitive to changed, and
\* stays right when nothing it depends on did.
LEMMA MeipDriven ==
  ASSUME MeipMeansClaim, DriveMeip, priority' = priority \/ enable' = {}
  PROVE  MeipMeansClaim'
<1>1. Asserted <=> \E s \in Sources : Claimable(pending, s)'
  BY DEF Asserted, Claimable
<1>2. CASE Sensitive
  BY <1>1, <1>2 DEF DriveMeip, MeipMeansClaim
<1>3. CASE ~Sensitive
  <2>1. meip' = meip /\ pending' = pending /\ enable' = enable /\ threshold' = threshold
    BY <1>3 DEF DriveMeip, Sensitive
  <2>2. CASE priority' = priority
    BY <2>1, <2>2 DEF MeipMeansClaim, Claimable
  <2>3. CASE enable' = {}
    BY <2>1, <2>3 DEF MeipMeansClaim, Claimable
  <2> QED
    BY <2>2, <2>3
<1> QED
  BY <1>2, <1>3

\* Every source has a priority.
PrioritiesTyped == priority \in [Sources -> Levels]

\* Every step of the firmware keeps the priorities typed.
LEMMA PrioritiesStep == PrioritiesTyped /\ [FwNext]_fvars => PrioritiesTyped'
BY DEF PrioritiesTyped, FwNext, fvars, plic_vars, SetPriority, SetThreshold, Enable, Elsewhere,
   Trap,
       ClaimOne, CompleteOne, NoAccess, WritePriority, WriteThreshold, WriteEnable, Claim,
       Complete

\* The firmware changes a priority only while nothing is enabled, so every step of it
\* keeps MEIP right.
LEMMA MeipStep ==
  PrioritiesTyped /\ MeipMeansClaim /\ [FwNext]_fvars => MeipMeansClaim'
<1> SUFFICES ASSUME PrioritiesTyped, MeipMeansClaim, [FwNext]_fvars PROVE MeipMeansClaim'
  OBVIOUS
<1>1. CASE UNCHANGED fvars
  BY <1>1 DEF fvars, plic_vars, MeipMeansClaim, Claimable
<1>2. ASSUME NEW s \in Sources, NEW level \in Levels, SetPriority(s, level)
      PROVE  MeipMeansClaim'
  <2>1. priority' = priority \/ enable' = {}
    BY <1>2 DEF SetPriority, WritePriority, PrioritiesTyped
  <2> QED
    BY <1>2, <2>1, MeipDriven DEF SetPriority, WritePriority
<1>3. ASSUME NEW level \in Levels, SetThreshold(level) PROVE MeipMeansClaim'
  BY <1>3, MeipDriven DEF SetThreshold, WriteThreshold
<1>4. ASSUME NEW sources \in SUBSET Sources, Enable(sources) PROVE MeipMeansClaim'
  BY <1>4, MeipDriven DEF Enable, WriteEnable
<1>5. CASE Elsewhere \/ Trap
  BY <1>5, MeipDriven DEF Elsewhere, Trap, NoAccess
<1>6. CASE ClaimOne
  BY <1>6, MeipDriven DEF ClaimOne, Claim
<1>7. CASE CompleteOne
  BY <1>7, MeipDriven DEF CompleteOne, Complete
<1> QED
  BY <1>1, <1>2, <1>3, <1>4, <1>5, <1>6, <1>7 DEF FwNext

\* Under the firmware MEIP is up exactly when a claim would return a source, for any
\* number of sources and priorities.
THEOREM MeipTells == FwSpec => []MeipMeansClaim
<1>1. FwInit => PrioritiesTyped /\ MeipMeansClaim
  <2>1. FwInit => PrioritiesTyped
    <3>1. 1 \in Levels
      BY SourcesAssumption DEF Levels
    <3> QED
      BY <3>1 DEF FwInit, PlicInit, PrioritiesTyped
  <2> QED
    BY <2>1 DEF FwInit, PlicInit, MeipMeansClaim, Claimable
<1> QED
  BY <1>1, PrioritiesStep, MeipStep, PTL DEF FwSpec
=============================================================================
