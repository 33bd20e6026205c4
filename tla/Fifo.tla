-------------------------------- MODULE Fifo --------------------------------
(***************************************************************************)
(* Utils/FIFO.hpp: the ring buffer every queue of the simulator is an      *)
(* instance of.  A step is a rising clock edge at which the owner drives   *)
(* clear, push, pop and data_in as it likes; the owner is the environment. *)
(*                                                                         *)
(* data_out is the output of a SystemC method, which runs only when one of *)
(* the three registers it is sensitive to changes value: it is therefore a *)
(* variable here and keeps its value when none of them does.               *)
(***************************************************************************)
EXTENDS Naturals, Sequences

CONSTANTS
  Data,        \* the values that are queued
  fifo_depth,  \* the slots, 1 or more
  NoData       \* the default value T()

VARIABLES storage, write_ptr_reg, read_ptr_reg, count_reg, empty, full, data_out

regs == <<write_ptr_reg, read_ptr_reg, count_reg>>
ringVars == <<storage, write_ptr_reg, read_ptr_reg, count_reg, empty, full, data_out>>

Slots == 0 .. fifo_depth - 1

RingTypeOK ==
  /\ storage \in [Slots -> Data \cup {NoData}]
  /\ write_ptr_reg \in Slots
  /\ read_ptr_reg \in Slots
  /\ count_reg \in 0 .. fifo_depth
  /\ empty \in BOOLEAN
  /\ full \in BOOLEAN
  /\ data_out \in Data \cup {NoData}

RingInit ==
  /\ storage = [i \in Slots |-> NoData]
  /\ write_ptr_reg = 0
  /\ read_ptr_reg = 0
  /\ count_reg = 0
  /\ empty = TRUE
  /\ full = FALSE
  /\ data_out = NoData

-----------------------------------------------------------------------------

\* combinational_process: the head entry, or T() when there is none; it is
\* evaluated again only if a register in its sensitivity list changed.
DriveDataOut ==
  data_out' = IF regs' = regs THEN data_out
              ELSE IF count_reg' > 0 THEN storage'[read_ptr_reg'] ELSE NoData

DriveFlags ==
  /\ empty' = (count_reg' = 0)
  /\ full' = (count_reg' >= fifo_depth)

DoPop(pop) == pop /\ count_reg > 0
DoPush(push, pop) == push /\ (count_reg < fifo_depth \/ pop)

Next1(ptr) == (ptr + 1) % fifo_depth

Clear ==
  /\ write_ptr_reg' = 0
  /\ read_ptr_reg' = 0
  /\ count_reg' = 0
  /\ DriveFlags
  /\ DriveDataOut
  /\ UNCHANGED storage

\* An edge without clear: pop first, then push.
Transfer(push, pop, data_in) ==
  /\ read_ptr_reg' = IF DoPop(pop) THEN Next1(read_ptr_reg) ELSE read_ptr_reg
  /\ IF DoPush(push, pop)
     THEN /\ storage' = [storage EXCEPT ![write_ptr_reg] = data_in]
          /\ write_ptr_reg' = Next1(write_ptr_reg)
     ELSE UNCHANGED <<storage, write_ptr_reg>>
  /\ count_reg' = count_reg - (IF DoPop(pop) THEN 1 ELSE 0)
                            + (IF DoPush(push, pop) THEN 1 ELSE 0)
  /\ DriveFlags
  /\ DriveDataOut

RingNext ==
  \/ Clear
  \/ \E push, pop \in BOOLEAN, d \in Data : Transfer(push, pop, d)

RingSpec == RingInit /\ [][RingNext]_ringVars

-----------------------------------------------------------------------------

\* The queued entries, oldest first.
Contents == [i \in 1 .. count_reg |-> storage[(read_ptr_reg + i - 1) % fifo_depth]]

\* The pointers, the count and the registered flags agree: the write pointer is
\* count places after the read pointer, and the flags are those of the count.
Coherent ==
  /\ write_ptr_reg = (read_ptr_reg + count_reg) % fifo_depth
  /\ empty = (count_reg = 0)
  /\ full = (count_reg = fifo_depth)

\* data_out shows the oldest entry whenever there is one ("Support for
\* simultaneous push and pop in the same cycle"): an owner that reads data_out
\* under ~empty never takes a stale value.
DataOutIsHead == count_reg > 0 => data_out = storage[read_ptr_reg]

\* The ring buffer implements the bounded queue: nothing is lost, duplicated or
\* reordered across pointer wrap, simultaneous push and pop, and clear.
Queue == INSTANCE BoundedQueue WITH Depth <- fifo_depth, queue <- Contents
ImplementsQueue == Queue!Spec
=============================================================================
