---------------------------- MODULE SectionLoader ----------------------------
(***************************************************************************)
(* Core/SectionLoader.hpp: copies the sections that a manifest lists from  *)
(* the DRAM to the core's instruction and data memories (Core/Isram.hpp,   *)
(* Core/DataSram.hpp), and the read side of the simulator's DRAM           *)
(* (SimUtils.hpp).                                                         *)
(*                                                                         *)
(* The loader is one thread that waits for clock edges in several places:  *)
(* pc says in which.  What it does between two edges is one application of *)
(* Loader.  Addresses and sizes count words, the bytes of the last of them *)
(* apart; the DRAM address of a word is <<section, i>>, and the word is    *)
(* named by it.  The three counters that the code advances together (both  *)
(* addresses, the rest) are one, at.                                       *)
(***************************************************************************)
EXTENDS Naturals, Sequences, SequencesExt

CONSTANTS
  ISRAM_WORDS, DSRAM_WORDS,
  EntryBeats, BeatWords, WordBytes,   \* beats of a manifest entry, words of a beat, bytes of a word
  Manifests,               \* what the host may ask for
  MayFail                  \* the DRAM may answer with an error

\* ManifestEntry, without the section's address: that is its number.  The section
\* is of WordBytes * (size - 1) + last bytes.
Entry == [kind : {"CORE", "JOB", "UNKNOWN"}, local : Nat, size : Nat, last : 1 .. WordBytes]

ASSUME LoaderAssumption ==
  /\ {ISRAM_WORDS, DSRAM_WORDS, EntryBeats, BeatWords, WordBytes} \subseteq Nat \ {0}
  /\ Manifests \subseteq [aligned : BOOLEAN, entries : Seq(Entry)]
  /\ MayFail \in BOOLEAN

VARIABLES
  manifest,   \* what is in the DRAM
  ld,         \* the loader's registers and outputs
  ram,        \* instruction and data memory: the word that each byte was written with
  dram        \* the DRAM's request queue and outputs

NoEntry == [kind |-> "UNKNOWN", local |-> 0, size |-> 0, last |-> 1]
NoData == <<"payload", 0, 0>>

LoaderInit ==
  /\ manifest \in Manifests
  /\ ld = [state |-> "LD_IDLE", pc |-> "top", entry_idx |-> 0, total_entries |-> 0, beat |-> 0,
           cur_entry |-> NoEntry, at |-> 0, data |-> NoData, ar |-> <<>>, r_ready |-> FALSE, wr |-> <<>>,
           load_phase |-> FALSE, busy |-> FALSE, done |-> FALSE, err |-> "LD_OK"]
  /\ ram = [a \in {} |-> {}]
  /\ dram = [queue |-> <<>>, ar_ready |-> FALSE, r |-> <<>>]

-----------------------------------------------------------------------------
(* The loader's thread.                                                    *)

\* axi_read_beat, up to its first wait.
AskBeat(l, address) == [l EXCEPT !.pc = "ar", !.ar = <<address>>, !.r_ready = TRUE]

Fail(l, error) == [l EXCEPT !.err = error, !.state = "LD_ERR", !.pc = "top", !.r_ready = FALSE]

in_isram(e) == e.kind = "CORE"

validate_entry(e) ==
  CASE e.kind = "UNKNOWN" -> "LD_ERR_BAD_SECTION_KIND"
    [] in_isram(e) /\ e.local + e.size > ISRAM_WORDS -> "LD_ERR_LOCAL_ADDR_OOB"
    [] ~in_isram(e) /\ e.local + e.size > DSRAM_WORDS -> "LD_ERR_SIZE_OOB"
    [] e.size = 0 -> "LD_ERR_SIZE_OOB"
    [] OTHER -> "LD_OK"

\* LD_IDLE.  m is the manifest as the host interface's registers give it.
Idle(l, kick, m) ==
  IF ~kick THEN [l EXCEPT !.load_phase = FALSE, !.busy = FALSE]
  ELSE IF ~m.aligned
  THEN [l EXCEPT !.load_phase = FALSE, !.busy = FALSE,
                 !.err = "LD_ERR_MANIFEST_SIZE", !.state = "LD_ERR"]
  ELSE [l EXCEPT !.load_phase = TRUE, !.busy = TRUE, !.err = "LD_OK", !.state = "LD_FETCH",
                 !.entry_idx = 0, !.total_entries = Len(m.entries)]

\* LD_FETCH, up to the first beat.
Fetch(l) ==
  IF l.entry_idx >= l.total_entries THEN [l EXCEPT !.state = "LD_DONE"]
  ELSE AskBeat([l EXCEPT !.beat = 0], <<"entry", l.entry_idx, 0>>)

Route(l) ==
  IF validate_entry(l.cur_entry) # "LD_OK" THEN Fail(l, validate_entry(l.cur_entry))
  ELSE [l EXCEPT !.at = 0, !.state = "LD_WRITE_LOCAL"]

\* LD_WRITE_LOCAL, up to the beat.
WriteLocal(l) ==
  IF l.at = l.cur_entry.size THEN [l EXCEPT !.state = "LD_VERIFY"]
  ELSE AskBeat([l EXCEPT !.beat = 0], <<"payload", l.entry_idx, l.at>>)

Done(l, kick) ==
  [l EXCEPT !.load_phase = FALSE, !.busy = FALSE, !.done = ~kick,
            !.state = IF kick THEN "LD_IDLE" ELSE @]

Err(l, kick) ==
  [l EXCEPT !.load_phase = FALSE, !.busy = FALSE,
            !.err = IF kick THEN "LD_OK" ELSE @, !.state = IF kick THEN "LD_IDLE" ELSE @]

\* The head of the loop.
Top(l, kick, m) ==
  CASE l.state = "LD_IDLE" -> Idle(l, kick, m)
    [] l.state = "LD_FETCH" -> Fetch(l)
    [] l.state = "LD_ROUTE" -> Route(l)
    [] l.state = "LD_WRITE_LOCAL" -> WriteLocal(l)
    [] l.state = "LD_VERIFY" -> [l EXCEPT !.entry_idx = @ + 1, !.state = "LD_FETCH"]
    [] l.state = "LD_DONE" -> Done(l, kick)
    [] l.state = "LD_ERR" -> Err(l, kick)

\* Defect: all the bytes of the last word are written.
strb_full(e, i) == 0 .. WordBytes - 1

\* The bytes of the i-th word that belong to the section.
strb(e, i) == 0 .. (IF i + 1 = e.size THEN e.last ELSE WordBytes) - 1

\* A word of the beat, data, goes to the write port of its memory.
PutWord(l) ==
  [l EXCEPT !.pc = "word", !.r_ready = FALSE,
            !.wr = <<[at |-> <<in_isram(l.cur_entry), l.cur_entry.local + l.at>>,
                      word |-> <<l.data[2], l.data[3] + l.beat>>,
                      strb |-> strb(l.cur_entry, l.at)]>>]

\* axi_read_beat returns: r is the answer, its address and whether it is an error.
Beat(l, r, m) ==
  CASE ~r.ok -> Fail(l, "LD_ERR_AXI")
    [] r.ok /\ l.state = "LD_FETCH" ->
         IF l.beat + 1 < EntryBeats
         THEN AskBeat([l EXCEPT !.beat = @ + 1], <<"entry", l.entry_idx, l.beat + 1>>)
         ELSE [l EXCEPT !.cur_entry = m.entries[r.address[2] + 1], !.at = 0,
                        !.state = "LD_ROUTE", !.pc = "top", !.r_ready = FALSE]
    [] r.ok /\ l.state = "LD_WRITE_LOCAL" -> PutWord([l EXCEPT !.data = r.address])

\* Defect: all the words of a beat are written, past the end of the section.
more_words_all(l) == l.beat < BeatWords

more_words(l) == l.beat < BeatWords /\ l.at < l.cur_entry.size

\* A word has been written.
Word(l) ==
  LET next == [l EXCEPT !.at = @ + 1, !.beat = @ + 1, !.wr = <<>>]
  IN  IF more_words(next) THEN PutWord(next) ELSE [next EXCEPT !.pc = "top"]

\* What the thread does at an edge; r is the answer on its port, if any.
Loader(l, kick, m, ar_ready, r) ==
  LET accepted == [l EXCEPT !.ar = <<>>, !.pc = "r"]
  IN  CASE l.pc = "top" ->
             Top([l EXCEPT !.ar = <<>>, !.r_ready = FALSE, !.wr = <<>>], kick, m)
        [] l.pc = "ar" ->
             IF ~ar_ready THEN l ELSE IF r = <<>> THEN accepted ELSE Beat(accepted, r[1], m)
        [] l.pc = "r" -> IF r = <<>> THEN l ELSE Beat(l, r[1], m)
        [] l.pc = "word" -> Word(l)

-----------------------------------------------------------------------------
(* The DRAM's read side (FakeDram::read_proc) and the memories' write port.*)

\* serves: the oldest request is ready; ok: it is not answered with an error.
DramEdge(ar, r_ready, serves, ok) ==
  LET held == IF r_ready THEN <<>> ELSE dram.r
      served == held = <<>> /\ serves /\ dram.queue # <<>>
  IN  dram' = [ar_ready |-> TRUE,
               queue |-> (IF served THEN Tail(dram.queue) ELSE dram.queue)
                         \o (IF dram.ar_ready THEN ar ELSE <<>>),
               r |-> IF served THEN <<[address |-> Head(dram.queue), ok |-> ok]>> ELSE held]

\* The bytes that a write changes.
BytesOf(put) == {put.at} \X put.strb

\* comb_write_bridge: the memories take the loader's words in the load phase.
RamEdge ==
  ram' = IF ld.load_phase /\ ld.wr # <<>>
         THEN [b \in DOMAIN ram \cup BytesOf(ld.wr[1]) |->
                 IF b \in BytesOf(ld.wr[1]) THEN ld.wr[1].word ELSE ram[b]]
         ELSE ram
=============================================================================
