------------------------------ MODULE Agu_proofs ------------------------------
(***************************************************************************)
(* The address generation unit for any loop bounds and any commands: what  *)
(* it offers is the loop nest, in order and without a gap, and it behaves  *)
(* as the stream that the delivery unit's module composes.                 *)
(*                                                                         *)
(* The invariant numbers the descriptors of a run from 0.  Going from the  *)
(* output back, the stages that are not empty hold consecutive numbers     *)
(* from sent on, each marked last exactly when its number is the run's     *)
(* last, and the counters stand at the number that follows.                *)
(***************************************************************************)
EXTENDS Agu, SequenceTheorems, FiniteSetTheorems, WellFoundedInduction, TLAPS

\* The position of a loop index in the run, and the length of the run, for the
\* loop bounds it.
PositionIn(it, idx) == idx[0] + it[0] * (idx[1] + it[1] * (idx[2] + it[2] * idx[3]))
TotalOf(it) == it[0] * it[1] * it[2] * it[3]

Bounds == [Levels -> Nat \ {0}]
Within(it) == {idx \in [Levels -> Nat] : \A l \in Levels : idx[l] < it[l]}
Stage == [valid : BOOLEAN, idx : [Levels -> Nat], last : BOOLEAN]

\* The number of a descriptor, when it is marked last as it should.
Marked(it, stage) == stage.last = (PositionIn(it, stage.idx) + 1 = TotalOf(it))

One(b) == IF b THEN 1 ELSE 0

\* How many descriptors are between a stage's own and the output.
before_n0_s1 == One(s2.valid)
before_n0_s0 == before_n0_s1 + One(n0_s1.valid)
before_s1 == before_n0_s0 + One(n0_s0.valid)
before_s0 == before_s1 + One(s1.valid)
held == before_s0 + One(s0.valid)

\* A stage is empty or holds the descriptor with the number n.
Holds(it, stage, n) == stage.valid => Marked(it, stage) /\ PositionIn(it, stage.idx) = n

Flows(it) ==
  /\ Holds(it, s2, sent) /\ Holds(it, n0_s1, sent + before_n0_s1)
  /\ Holds(it, n0_s0, sent + before_n0_s0) /\ Holds(it, s1, sent + before_s1)
  /\ Holds(it, s0, sent + before_s0)
  /\ IF run_last_issued THEN sent + held = TotalOf(it)
     ELSE idx_now \in Within(it) /\ PositionIn(it, idx_now) = sent + held

TypeOK ==
  /\ iter_reg \in [Levels -> Iters] /\ state_reg \in {"IDLE", "RUN", "DONE"}
  /\ {idx_reg, idx_next_reg} \subseteq [Levels -> Nat]
  /\ {idx_update_pending, run_last_issued, busy_reg, busy, done_reg, stalled_reg} \subseteq BOOLEAN
  /\ {s0, s1, n0_s0, n0_s1, s2} \subseteq Stage
  /\ sent \in Nat

IInv ==
  /\ TypeOK
  /\ state_reg = "RUN" => Flows(iter_reg)
  /\ state_reg # "RUN" => s2.valid = FALSE

-----------------------------------------------------------------------------
(* The loop nest.                                                          *)

\* Iteration counts are positive, there are finitely many.
LEMMA ItersPositive == Iters \subseteq Nat \ {0} /\ IsFiniteSet(Iters) /\ [Levels -> Iters] \subseteq Bounds
<1>1. Iters \subseteq Nat \ {0}
  <2>1. ASSUME NEW v \in RawIter PROVE normalize_iter(v) \in Nat \ {0}
    BY RawIterAssumption DEF normalize_iter
  <2> QED
    BY <2>1 DEF Iters
<1>2. IsFiniteSet({normalize_iter(v) : v \in RawIter})
  <2> DEFINE f == [v \in RawIter |-> normalize_iter(v)]
  <2>1. f \in Surjection(RawIter, {normalize_iter(v) : v \in RawIter})
    BY DEF Surjection
  <2> QED
    BY <2>1, RawIterAssumption, FS_Surjection, Zenon
<1>3. IsFiniteSet(Iters)
  BY <1>2, FS_Singleton, FS_Union DEF Iters
<1> QED
  BY <1>1, <1>3 DEF Bounds

\* A digit and a number make a longer number.
LEMMA Digit ==
  ASSUME NEW a \in Nat \ {0}, NEW m \in Nat \ {0}, NEW i \in 0 .. a - 1, NEW x \in 0 .. m - 1
  PROVE  /\ a * m \in Nat \ {0} /\ i + a * x \in 0 .. a * m - 1
         /\ (i + a * x + 1 = a * m) <=> (i = a - 1 /\ x = m - 1)
         /\ i = a - 1 => 0 + a * (x + 1) = i + a * x + 1
<1>1. PICK y \in Nat : m = x + 1 + y
  <2>1. m - 1 - x \in Nat /\ m = x + 1 + (m - 1 - x)
    OBVIOUS
  <2> QED
    BY <2>1
<1>2. a * m = a * x + a + a * y /\ a * (x + 1) = a * x + a
  BY <1>1
<1>3. PICK p \in Nat, q \in Nat : p = a * x /\ q = a * y
  BY <1>1
<1>4. y = 0 => q = 0
  BY <1>3
<1>5. y # 0 => q >= a
  BY <1>1, <1>3
<1>6. a * m = p + a + q /\ a * (x + 1) = p + a
  BY <1>2, <1>3
<1>7. x = m - 1 <=> y = 0
  BY <1>1
<1> QED
  BY <1>3, <1>4, <1>5, <1>6, <1>7

\* The least of some levels.
LEMMA MinIs ==
  ASSUME NEW S \in SUBSET Levels, NEW m \in S, \A y \in S : m <= y
  PROVE  Min(S) = m
<1>1. ASSUME NEW n \in S, \A y \in S : n <= y
      PROVE  n = m
  <2>1. n <= m /\ m <= n /\ n \in Nat /\ m \in Nat
    BY <1>1 DEF Levels
  <2> QED
    BY <2>1
<1>2. \A y \in S : m =< y
  OBVIOUS
<1> QED
  BY <1>1, <1>2, Zenon DEF Min

\* The loop after an index of the run is the next position, up to the last.
LEMMA NextLoop ==
  ASSUME iter_reg \in Bounds, NEW idx \in Within(iter_reg)
  PROVE  /\ all_done(idx) <=> PositionIn(iter_reg, idx) + 1 = TotalOf(iter_reg)
         /\ PositionIn(iter_reg, idx) \in Nat /\ TotalOf(iter_reg) \in Nat \ {0}
         /\ PositionIn(iter_reg, idx) + 1 <= TotalOf(iter_reg)
         /\ ~all_done(idx) =>
              /\ compute_next_loop(idx) \in Within(iter_reg)
              /\ PositionIn(iter_reg, compute_next_loop(idx)) = PositionIn(iter_reg, idx) + 1
<1>1. PICK a \in Nat \ {0}, b \in Nat \ {0}, c \in Nat \ {0}, d \in Nat \ {0} :
        a = iter_reg[0] /\ b = iter_reg[1] /\ c = iter_reg[2] /\ d = iter_reg[3]
  BY DEF Bounds, Levels
<1>2. PICK i \in 0 .. a - 1, j \in 0 .. b - 1, k \in 0 .. c - 1, l \in 0 .. d - 1 :
        i = idx[0] /\ j = idx[1] /\ k = idx[2] /\ l = idx[3]
  <2>1. \A e \in 0 .. 3 : idx[e] \in Nat /\ idx[e] < iter_reg[e]
    BY DEF Within, Levels
  <2> QED
    BY <1>1, <2>1
<1>3. PICK cd \in Nat \ {0} : cd = c * d
  BY Digit
<1>31. PICK y \in 0 .. cd - 1 :
         /\ y = k + c * l
         /\ (y + 1 = cd) <=> (k = c - 1 /\ l = d - 1)
         /\ k = c - 1 => 0 + c * (l + 1) = y + 1
  BY <1>3, Digit
<1>4. PICK bcd \in Nat \ {0} : bcd = b * cd
  BY Digit
<1>41. PICK x \in 0 .. bcd - 1 :
         /\ x = j + b * y
         /\ (x + 1 = bcd) <=> (j = b - 1 /\ y = cd - 1)
         /\ j = b - 1 => 0 + b * (y + 1) = x + 1
  BY <1>4, Digit
<1>5. PICK abcd \in Nat \ {0} : abcd = a * bcd
  BY Digit
<1>51. PICK n \in 0 .. abcd - 1 :
         /\ n = i + a * x
         /\ (n + 1 = abcd) <=> (i = a - 1 /\ x = bcd - 1)
         /\ i = a - 1 => 0 + a * (x + 1) = n + 1
  BY <1>5, Digit
<1>6. PositionIn(iter_reg, idx) = n
  BY <1>1, <1>2, <1>31, <1>41, <1>51, Zenon DEF PositionIn
<1>7. TotalOf(iter_reg) = abcd
  <2>1. ((a * b) * c) * d = a * (b * (c * d))
    OBVIOUS
  <2> QED
    BY <1>1, <1>3, <1>4, <1>5, <2>1, Zenon DEF TotalOf
<1>8. /\ Advancing(idx) \subseteq Levels
      /\ 0 \in Advancing(idx) <=> i # a - 1
      /\ 1 \in Advancing(idx) <=> j # b - 1
      /\ 2 \in Advancing(idx) <=> k # c - 1
      /\ 3 \in Advancing(idx) <=> l # d - 1
  BY <1>1, <1>2 DEF Advancing, Levels
<1>9. all_done(idx) <=> (i = a - 1 /\ j = b - 1 /\ k = c - 1 /\ l = d - 1)
  BY <1>8 DEF all_done, Levels
<1>10. all_done(idx) <=> n + 1 = abcd
  <2>1. (y + 1 = cd) <=> (k = c - 1 /\ l = d - 1)
    BY <1>31, Zenon
  <2>2. (x + 1 = bcd) <=> (j = b - 1 /\ y = cd - 1)
    BY <1>41, Zenon
  <2>3. (n + 1 = abcd) <=> (i = a - 1 /\ x = bcd - 1)
    BY <1>51, Zenon
  <2> QED
    BY <1>9, <2>1, <2>2, <2>3
<1>11. ASSUME NEW i1 \in 0 .. a - 1, NEW j1 \in 0 .. b - 1, NEW k1 \in 0 .. c - 1, NEW l1 \in 0 .. d - 1,
              NEW next, next = [e \in Levels |-> IF e = 0 THEN i1 ELSE IF e = 1 THEN j1
                                                 ELSE IF e = 2 THEN k1 ELSE l1]
       PROVE  next \in Within(iter_reg)
  <2>1. next[0] = i1 /\ next[1] = j1 /\ next[2] = k1 /\ next[3] = l1
    BY <1>11 DEF Levels
  <2>2. next \in [Levels -> Nat]
    BY <1>11
  <2>3. \A e \in 0 .. 3 : next[e] < iter_reg[e]
    BY <1>1, <2>1
  <2> QED
    BY <2>2, <2>3 DEF Within, Levels
<1>12. ASSUME ~all_done(idx)
       PROVE  /\ compute_next_loop(idx) \in Within(iter_reg)
              /\ PositionIn(iter_reg, compute_next_loop(idx)) = n + 1
  <2>1. PICK m : m = Min(Advancing(idx))
    OBVIOUS
  <2>2. compute_next_loop(idx) = [e \in Levels |-> IF e < m THEN 0
                                                   ELSE IF e = m THEN idx[e] + 1 ELSE idx[e]]
    BY <1>12, <2>1 DEF compute_next_loop
  <2>3. CASE i # a - 1
    <3>1. m = 0
      BY <1>8, <2>1, <2>3, MinIs DEF Levels
    <3>2. compute_next_loop(idx) = [e \in Levels |-> IF e = 0 THEN i + 1 ELSE IF e = 1 THEN j
                                                     ELSE IF e = 2 THEN k ELSE l]
      BY <1>2, <2>2, <3>1 DEF Levels
    <3>3. i + 1 \in 0 .. a - 1 /\ (i + 1) + a * x = (i + a * x) + 1
      BY <2>3
    <3>35. compute_next_loop(idx)[0] = i + 1 /\ compute_next_loop(idx)[1] = j
           /\ compute_next_loop(idx)[2] = k /\ compute_next_loop(idx)[3] = l
      BY <3>2 DEF Levels
    <3>4. PositionIn(iter_reg, compute_next_loop(idx)) = (i + 1) + a * (j + b * (k + c * l))
      BY <1>1, <3>35, Zenon DEF PositionIn
    <3>5. compute_next_loop(idx) \in Within(iter_reg)
      BY <1>11, <3>2, <3>3
    <3> QED
      BY <1>31, <1>41, <1>51, <3>3, <3>4, <3>5, Zenon
  <2>4. CASE i = a - 1 /\ j # b - 1
    <3>1. m = 1
      BY <1>8, <2>1, <2>4, MinIs DEF Levels
    <3>2. compute_next_loop(idx) = [e \in Levels |-> IF e = 0 THEN 0 ELSE IF e = 1 THEN j + 1
                                                     ELSE IF e = 2 THEN k ELSE l]
      BY <1>2, <2>2, <3>1 DEF Levels
    <3>3. j + 1 \in 0 .. b - 1 /\ 0 \in 0 .. a - 1 /\ (j + 1) + b * y = (j + b * y) + 1
      BY <2>4
    <3>35. compute_next_loop(idx)[0] = 0 /\ compute_next_loop(idx)[1] = j + 1
           /\ compute_next_loop(idx)[2] = k /\ compute_next_loop(idx)[3] = l
      BY <3>2 DEF Levels
    <3>4. PositionIn(iter_reg, compute_next_loop(idx)) = 0 + a * ((j + 1) + b * (k + c * l))
      BY <1>1, <3>35, Zenon DEF PositionIn
    <3>5. compute_next_loop(idx) \in Within(iter_reg)
      BY <1>11, <3>2, <3>3
    <3> QED
      BY <1>31, <1>41, <1>51, <2>4, <3>3, <3>4, <3>5, Zenon
  <2>5. CASE i = a - 1 /\ j = b - 1 /\ k # c - 1
    <3>1. m = 2
      BY <1>8, <2>1, <2>5, MinIs DEF Levels
    <3>2. compute_next_loop(idx) = [e \in Levels |-> IF e = 0 THEN 0 ELSE IF e = 1 THEN 0
                                                     ELSE IF e = 2 THEN k + 1 ELSE l]
      BY <1>2, <2>2, <3>1 DEF Levels
    <3>3. k + 1 \in 0 .. c - 1 /\ 0 \in 0 .. a - 1 /\ 0 \in 0 .. b - 1
          /\ (k + 1) + c * l = (k + c * l) + 1
      BY <2>5
    <3>35. compute_next_loop(idx)[0] = 0 /\ compute_next_loop(idx)[1] = 0
           /\ compute_next_loop(idx)[2] = k + 1 /\ compute_next_loop(idx)[3] = l
      BY <3>2 DEF Levels
    <3>4. PositionIn(iter_reg, compute_next_loop(idx)) = 0 + a * (0 + b * ((k + 1) + c * l))
      BY <1>1, <3>35, Zenon DEF PositionIn
    <3>5. compute_next_loop(idx) \in Within(iter_reg)
      BY <1>11, <3>2, <3>3
    <3> QED
      BY <1>31, <1>41, <1>51, <2>5, <3>3, <3>4, <3>5, Zenon
  <2>6. CASE i = a - 1 /\ j = b - 1 /\ k = c - 1
    <3>1. m = 3 /\ l # d - 1
      BY <1>8, <1>9, <1>12, <2>1, <2>6, MinIs DEF Levels
    <3>2. compute_next_loop(idx) = [e \in Levels |-> IF e = 0 THEN 0 ELSE IF e = 1 THEN 0
                                                     ELSE IF e = 2 THEN 0 ELSE l + 1]
      BY <1>2, <2>2, <3>1 DEF Levels
    <3>3. l + 1 \in 0 .. d - 1 /\ 0 \in 0 .. a - 1 /\ 0 \in 0 .. b - 1 /\ 0 \in 0 .. c - 1
      BY <3>1
    <3>35. compute_next_loop(idx)[0] = 0 /\ compute_next_loop(idx)[1] = 0
           /\ compute_next_loop(idx)[2] = 0 /\ compute_next_loop(idx)[3] = l + 1
      BY <3>2 DEF Levels
    <3>4. PositionIn(iter_reg, compute_next_loop(idx)) = 0 + a * (0 + b * (0 + c * (l + 1)))
      BY <1>1, <3>35, Zenon DEF PositionIn
    <3>5. compute_next_loop(idx) \in Within(iter_reg)
      BY <1>11, <3>2, <3>3
    <3> QED
      BY <1>31, <1>41, <1>51, <2>6, <3>4, <3>5, Zenon
  <2> QED
    BY <2>3, <2>4, <2>5, <2>6
<1>13. n \in Nat /\ n + 1 <= abcd
  OBVIOUS
<1> QED
  BY <1>6, <1>7, <1>10, <1>12, <1>13

-----------------------------------------------------------------------------
(* The pipeline.                                                           *)

\* The descriptors stay in order while the ready chain moves them.
LEMMA StagesMove ==
  ASSUME NEW it, TypeOK, Flows(it), NEW ready \in BOOLEAN, MovePipeline(ready),
         sent' = IF out_fire(ready) THEN sent + 1 ELSE sent,
         issue_new(ready) => Holds(it, issue_payload, sent + held)
  PROVE  /\ Holds(it, s2', sent') /\ Holds(it, n0_s1', sent' + before_n0_s1')
         /\ Holds(it, n0_s0', sent' + before_n0_s0') /\ Holds(it, s1', sent' + before_s1')
         /\ Holds(it, s0', sent' + before_s0')
         /\ sent' + held' = sent + held + One(issue_new(ready))
<1>1. {s2.valid, n0_s1.valid, n0_s0.valid, s1.valid, s0.valid} \subseteq BOOLEAN
  BY DEF TypeOK, Stage
<1>2. PICK n \in Nat : n = sent
  BY DEF TypeOK
<1>3. issue_payload.valid = TRUE /\ Empty.valid = FALSE
  BY DEF issue_payload, Empty
<1>4. \A m : Holds(it, Empty, m)
  BY <1>3, Zenon DEF Holds
<1>5. Holds(it, s2', sent')
  BY <1>1, <1>2, <1>4 DEF Flows, MovePipeline, s2_ready, out_fire, bypass_s1_to_s2,
     before_n0_s1, before_n0_s0, before_s1, One
<1>6. Holds(it, n0_s1', sent' + before_n0_s1')
  BY <1>1, <1>2, <1>3, <1>4 DEF Flows, MovePipeline, s2_ready, n0_s1_ready, n0_s0_ready, s1_ready, s0_ready,
     out_fire, bypass_s1_to_s2, issue_new, before_n0_s1, before_n0_s0, before_s1, before_s0, held, One
<1>7. Holds(it, n0_s0', sent' + before_n0_s0')
  BY <1>1, <1>2, <1>3, <1>4 DEF Flows, MovePipeline, s2_ready, n0_s1_ready, n0_s0_ready, s1_ready, s0_ready,
     out_fire, bypass_s1_to_s2, issue_new, before_n0_s1, before_n0_s0, before_s1, before_s0, held, One
<1>8. Holds(it, s1', sent' + before_s1')
  BY <1>1, <1>2, <1>3, <1>4, SMTT(60) DEF Flows, MovePipeline, s2_ready, n0_s1_ready, n0_s0_ready, s1_ready, s0_ready,
     out_fire, bypass_s1_to_s2, issue_new, before_n0_s1, before_n0_s0, before_s1, before_s0, held, One
<1>9. Holds(it, s0', sent' + before_s0')
  BY <1>1, <1>2, <1>3, <1>4, SMTT(60) DEF Flows, MovePipeline, s2_ready, n0_s1_ready, n0_s0_ready, s1_ready, s0_ready,
     out_fire, bypass_s1_to_s2, issue_new, before_n0_s1, before_n0_s0, before_s1, before_s0, held, One
<1>10. sent' + held' = sent + held + One(issue_new(ready))
  BY <1>1, <1>2, <1>3, SMTT(60) DEF Flows, MovePipeline, s2_ready, n0_s1_ready, n0_s0_ready, s1_ready, s0_ready,
     out_fire, bypass_s1_to_s2, issue_new, before_n0_s1, before_n0_s0, before_s1, before_s0, held, One
<1> QED
  BY <1>5, <1>6, <1>7, <1>8, <1>9, <1>10, Zenon

\* The loop index that follows is one.
LEMMA NextIn ==
  ASSUME NEW idx \in [Levels -> Nat]
  PROVE  compute_next_loop(idx) \in [Levels -> Nat]
<1>1. \A level : [l \in Levels |-> IF l < level THEN 0 ELSE IF l = level THEN idx[l] + 1 ELSE idx[l]]
                   \in [Levels -> Nat]
  OBVIOUS
<1>2. Zero \in [Levels -> Nat]
  BY DEF Zero
<1> QED
  BY <1>1, <1>2, Zenon DEF compute_next_loop

\* A run starts at position 0.
LEMMA ZeroIs ==
  ASSUME iter_reg \in Bounds
  PROVE  Zero \in Within(iter_reg) /\ PositionIn(iter_reg, Zero) = 0
<1>1. Zero \in [Levels -> Nat] /\ \A l \in Levels : Zero[l] = 0
  BY DEF Zero
<1>2. Zero[0] = 0 /\ Zero[1] = 0 /\ Zero[2] = 0 /\ Zero[3] = 0
  BY <1>1 DEF Levels
<1>3. Zero \in Within(iter_reg)
  BY <1>1 DEF Within, Bounds
<1>4. \A a \in Nat, b \in Nat, c \in Nat : 0 + a * (0 + b * (0 + c * 0)) = 0
  OBVIOUS
<1>5. iter_reg[0] \in Nat /\ iter_reg[1] \in Nat /\ iter_reg[2] \in Nat
  BY DEF Bounds, Levels
<1>6. PositionIn(iter_reg, Zero) = 0 + iter_reg[0] * (0 + iter_reg[1] * (0 + iter_reg[2] * 0))
  BY <1>2, Zenon DEF PositionIn
<1> QED
  BY <1>3, <1>4, <1>5, <1>6

\* The counters an edge works with.
LEMMA NowIn ==
  ASSUME TypeOK
  PROVE  idx_now \in [Levels -> Nat] /\ iter_reg \in Bounds
BY ItersPositive DEF TypeOK, idx_now

\* A running edge keeps the descriptors in order.
LEMMA RunFlows ==
  ASSUME TypeOK, Flows(iter_reg), NEW ready \in BOOLEAN, Run(ready), iter_reg' = iter_reg
  PROVE  Flows(iter_reg)'
<1>1. iter_reg \in Bounds /\ idx_now \in [Levels -> Nat]
  BY NowIn
<1>2. sent' = IF out_fire(ready) THEN sent + 1 ELSE sent
  BY DEF Run
<1>3. MovePipeline(ready) /\ MoveCounters(ready)
  BY DEF Run
<1>4. ASSUME issue_new(ready) PROVE Holds(iter_reg, issue_payload, sent + held)
  <2>1. idx_now \in Within(iter_reg) /\ PositionIn(iter_reg, idx_now) = sent + held
    BY <1>4, Zenon DEF Flows, issue_new
  <2>2. issue_payload.idx = idx_now /\ issue_payload.last = all_done(idx_now)
    BY DEF issue_payload
  <2>3. all_done(idx_now) <=> PositionIn(iter_reg, idx_now) + 1 = TotalOf(iter_reg)
    BY <1>1, <2>1, NextLoop
  <2>4. all_done(idx_now) = (PositionIn(iter_reg, idx_now) + 1 = TotalOf(iter_reg))
    BY <2>3, Zenon DEF all_done
  <2>5. Marked(iter_reg, issue_payload)
    BY <2>2, <2>4, Zenon DEF Marked
  <2> QED
    BY <2>1, <2>2, <2>5, Zenon DEF Holds
<1>5. /\ Holds(iter_reg, s2', sent') /\ Holds(iter_reg, n0_s1', sent' + before_n0_s1')
      /\ Holds(iter_reg, n0_s0', sent' + before_n0_s0') /\ Holds(iter_reg, s1', sent' + before_s1')
      /\ Holds(iter_reg, s0', sent' + before_s0')
      /\ sent' + held' = sent + held + One(issue_new(ready))
  BY <1>2, <1>3, <1>4, StagesMove, Zenon
<1>6. PICK n \in Nat : n = sent + held
  <2>1. sent \in Nat /\ held \in Nat
    BY DEF TypeOK, held, before_s0, before_s1, before_n0_s0, before_n0_s1, One
  <2> QED
    BY <2>1
<1>7. idx_now' = IF issue_new(ready) THEN compute_next_loop(idx_now) ELSE idx_now
  BY <1>3, Zenon DEF idx_now, MoveCounters
<1>8. run_last_issued' <=> run_last_issued \/ (issue_new(ready) /\ all_done(idx_now))
  BY <1>3, Zenon DEF MovePipeline
<1>9. IF run_last_issued' THEN sent' + held' = TotalOf(iter_reg)
      ELSE idx_now' \in Within(iter_reg) /\ PositionIn(iter_reg, idx_now') = sent' + held'
  <2>1. CASE run_last_issued
    <3>1. n = TotalOf(iter_reg) /\ ~issue_new(ready)
      BY <1>6, <2>1, Zenon DEF Flows, issue_new
    <3>2. sent' + held' = n
      BY <1>5, <1>6, <3>1 DEF One
    <3> QED
      BY <1>8, <2>1, <3>1, <3>2, Zenon
  <2>2. CASE ~run_last_issued /\ ~issue_new(ready)
    <3>1. sent' + held' = n
      BY <1>5, <1>6, <2>2 DEF One
    <3>2. ~run_last_issued'
      BY <1>8, <2>2, Zenon
    <3>3. idx_now \in Within(iter_reg) /\ PositionIn(iter_reg, idx_now) = n
      BY <1>6, <2>2, Zenon DEF Flows
    <3> QED
      BY <1>7, <2>2, <3>1, <3>2, <3>3, Zenon
  <2>3. CASE ~run_last_issued /\ issue_new(ready)
    <3>1. sent' + held' = n + 1
      BY <1>5, <1>6, <2>3 DEF One
    <3>2. idx_now \in Within(iter_reg) /\ PositionIn(iter_reg, idx_now) = n
      BY <1>6, <2>3, Zenon DEF Flows
    <3>3. /\ all_done(idx_now) <=> PositionIn(iter_reg, idx_now) + 1 = TotalOf(iter_reg)
          /\ ~all_done(idx_now) =>
               /\ compute_next_loop(idx_now) \in Within(iter_reg)
               /\ PositionIn(iter_reg, compute_next_loop(idx_now)) = PositionIn(iter_reg, idx_now) + 1
      BY <1>1, <3>2, NextLoop
    <3> QED
      BY <1>7, <1>8, <2>3, <3>1, <3>2, <3>3, Zenon
  <2> QED
    BY <2>1, <2>2, <2>3
<1> QED
  BY <1>5, <1>9, Zenon DEF Flows

\* When the descriptor marked last is taken, nothing is left behind it.
LEMMA LastLeavesNothing ==
  ASSUME TypeOK, Flows(iter_reg), NEW ready \in BOOLEAN, Run(ready), iter_reg' = iter_reg,
         TypeOK', out_fire(ready), s2.last
  PROVE  s2'.valid = FALSE
<1>1. Flows(iter_reg)'
  BY RunFlows, Zenon
<1>2. s2.valid /\ sent' = sent + 1
  BY DEF out_fire, Run
<1>3. sent + 1 = TotalOf(iter_reg)
  <2>1. Holds(iter_reg, s2, sent)
    BY Zenon DEF Flows
  <2>2. Marked(iter_reg, s2) /\ PositionIn(iter_reg, s2.idx) = sent
    BY <1>2, <2>1, Zenon DEF Holds
  <2> QED
    BY <2>2 DEF Marked
<1>4. PICK n \in Nat : n = sent'
  BY DEF TypeOK
<1>5. TotalOf(iter_reg') = n
  BY <1>2, <1>3, <1>4, Zenon
<1>6. held' \in Nat /\ (held' = 0 => s2'.valid = FALSE)
  <2>1. s2'.valid \in BOOLEAN
    BY DEF TypeOK, Stage
  <2> QED
    BY <2>1 DEF held, before_s0, before_s1, before_n0_s0, before_n0_s1, One
<1>7. PICK h \in Nat : h = held'
  BY <1>6
<1>8. CASE run_last_issued'
  <2>1. n + h = n
    BY <1>1, <1>4, <1>5, <1>7, <1>8, Zenon DEF Flows
  <2>2. h = 0
    BY <2>1
  <2> QED
    BY <1>6, <1>7, <2>2, Zenon
<1>9. CASE ~run_last_issued'
  <2>1. idx_now' \in Within(iter_reg') /\ PositionIn(iter_reg', idx_now') = n + h
    BY <1>1, <1>4, <1>7, <1>9, Zenon DEF Flows
  <2>2. iter_reg \in Bounds /\ iter_reg' = iter_reg
    BY NowIn
  <2>3. idx_now' \in Within(iter_reg)
    BY <2>1, <2>2, Zenon
  <2>4. PositionIn(iter_reg, idx_now') + 1 <= TotalOf(iter_reg)
    BY <2>2, <2>3, NextLoop
  <2>5. (n + h) + 1 <= n
    BY <1>5, <2>1, <2>2, <2>4, Zenon
  <2> QED
    BY <2>5
<1> QED
  BY <1>8, <1>9

-----------------------------------------------------------------------------
(* The invariant.                                                          *)

\* The registers keep their types at every edge.
LEMMA EdgeTypes ==
  ASSUME TypeOK, iter_reg' \in [Levels -> Iters], NEW start, NEW stop, NEW written, NEW ready \in BOOLEAN,
         Edge(start, stop, written, ready)
  PROVE  TypeOK'
<1>1. idx_now \in [Levels -> Nat] /\ Zero \in [Levels -> Nat]
  BY NowIn DEF Zero
<1>2. Empty \in Stage /\ \A b \in BOOLEAN : [valid |-> TRUE, idx |-> idx_now, last |-> b] \in Stage
                         /\ [valid |-> TRUE, idx |-> Zero, last |-> b] \in Stage
  BY <1>1 DEF Empty, Stage, NoIdx
<1>3. compute_next_loop(idx_now) \in [Levels -> Nat] /\ compute_next_loop(Zero) \in [Levels -> Nat]
  BY <1>1, NextIn
<1>4. /\ all_done(idx_now) \in BOOLEAN /\ all_done(Zero) \in BOOLEAN
      /\ issue_new(ready) \in BOOLEAN /\ (s2.valid /\ ~ready) \in BOOLEAN
  BY Zenon DEF all_done, issue_new
<1>5. busy' \in BOOLEAN
  BY Zenon DEF Edge, TypeOK
<1>6. CASE Begin
  <2>1. [valid |-> TRUE, idx |-> Zero, last |-> all_done(Zero)] \in Stage
    BY <1>2, <1>4, Zenon
  <2>2. {s0', s1', n0_s0', n0_s1', s2'} \subseteq Stage
    BY <1>2, <1>6, <2>1 DEF Begin
  <2>3. {idx_update_pending', run_last_issued', busy_reg', busy', done_reg', stalled_reg'} \subseteq BOOLEAN
    BY <1>4, <1>5, <1>6, Zenon DEF Begin
  <2>4. state_reg' \in {"IDLE", "RUN", "DONE"} /\ {idx_reg', idx_next_reg'} \subseteq [Levels -> Nat]
        /\ sent' \in Nat
    BY <1>1, <1>3, <1>6 DEF Begin
  <2> QED
    BY <2>2, <2>3, <2>4, Zenon DEF TypeOK
<1>7. ASSUME Halt \/ Rest PROVE TypeOK'
  <2>1. {s0', s1', n0_s0', n0_s1', s2'} \subseteq Stage
    BY <1>2, <1>7 DEF Halt, Rest, ClearPipeline
  <2>2. {idx_update_pending', run_last_issued', busy_reg', busy', done_reg', stalled_reg'} \subseteq BOOLEAN
    BY <1>5, <1>7 DEF Halt, Rest, ClearPipeline, TypeOK
  <2>3. state_reg' \in {"IDLE", "RUN", "DONE"} /\ sent' \in Nat
    BY <1>7 DEF Halt, Rest, TypeOK
  <2>4. {idx_reg', idx_next_reg'} \subseteq [Levels -> Nat]
    BY <1>1, <1>7 DEF Halt, Rest, TypeOK
  <2> QED
    BY <2>1, <2>2, <2>3, <2>4, Zenon DEF TypeOK
<1>8. CASE Run(ready)
  <2>1. issue_payload \in Stage
    BY <1>2, <1>4, Zenon DEF issue_payload
  <2>2. MovePipeline(ready) /\ MoveCounters(ready)
    BY <1>8 DEF Run
  <2>3. {s0', s1', n0_s0', n0_s1', s2'} \subseteq Stage
    BY <1>2, <2>1, <2>2 DEF MovePipeline, TypeOK
  <2>4. run_last_issued' \in BOOLEAN /\ idx_update_pending' \in BOOLEAN /\ stalled_reg' \in BOOLEAN
    BY <1>4, <1>8, <2>2, Zenon DEF MovePipeline, MoveCounters, Run
  <2>5. busy_reg' \in BOOLEAN /\ done_reg' \in BOOLEAN /\ state_reg' \in {"IDLE", "RUN", "DONE"}
    BY <1>8 DEF Run, TypeOK
  <2>6. sent' \in Nat
    BY <1>8 DEF Run, TypeOK
  <2>7. {idx_reg', idx_next_reg'} \subseteq [Levels -> Nat]
    BY <1>1, <1>3, <2>2 DEF MoveCounters, TypeOK
  <2>8. {idx_update_pending', run_last_issued', busy_reg', busy', done_reg', stalled_reg'} \subseteq BOOLEAN
    BY <1>5, <2>4, <2>5, Zenon
  <2> QED
    BY <2>3, <2>5, <2>6, <2>7, <2>8, Zenon DEF TypeOK
<1> QED
  BY <1>6, <1>7, <1>8, Zenon DEF Edge

\* A run begins with its first descriptor in s1.
LEMMA BeginFlows ==
  ASSUME TypeOK, Begin, iter_reg' = iter_reg
  PROVE  Flows(iter_reg)' /\ s2'.valid = FALSE
<1>1. iter_reg \in Bounds
  BY NowIn
<1>2. Zero \in Within(iter_reg) /\ PositionIn(iter_reg, Zero) = 0
  BY <1>1, ZeroIs
<1>3. /\ all_done(Zero) <=> 0 + 1 = TotalOf(iter_reg)
      /\ ~all_done(Zero) => /\ compute_next_loop(Zero) \in Within(iter_reg)
                            /\ PositionIn(iter_reg, compute_next_loop(Zero)) = 0 + 1
  BY <1>1, <1>2, NextLoop
<1>4. /\ s0'.valid = FALSE /\ n0_s0'.valid = FALSE /\ n0_s1'.valid = FALSE /\ s2'.valid = FALSE
      /\ s1'.valid = TRUE /\ s1'.idx = Zero /\ s1'.last = all_done(Zero) /\ sent' = 0
  BY DEF Begin, Empty
<1>5. before_n0_s1' = 0 /\ before_n0_s0' = 0 /\ before_s1' = 0 /\ before_s0' = 1 /\ held' = 1
  BY <1>4 DEF held, before_s0, before_s1, before_n0_s0, before_n0_s1, One
<1>6. all_done(Zero) = (PositionIn(iter_reg, Zero) + 1 = TotalOf(iter_reg))
  BY <1>2, <1>3, Zenon DEF all_done
<1>7. Holds(iter_reg, s1', sent' + before_s1')
  <2>1. Marked(iter_reg, s1')
    BY <1>4, <1>6, Zenon DEF Marked
  <2>2. PositionIn(iter_reg, s1'.idx) = sent' + before_s1'
    BY <1>2, <1>4, <1>5
  <2> QED
    BY <2>1, <2>2, Zenon DEF Holds
<1>8. /\ Holds(iter_reg, s2', sent') /\ Holds(iter_reg, n0_s1', sent' + before_n0_s1')
      /\ Holds(iter_reg, n0_s0', sent' + before_n0_s0') /\ Holds(iter_reg, s0', sent' + before_s0')
  BY <1>4, Zenon DEF Holds
<1>9. sent' + held' = 0 + 1
  BY <1>4, <1>5
<1>10. /\ run_last_issued' <=> all_done(Zero)
       /\ idx_now' = compute_next_loop(Zero)
  BY DEF Begin, idx_now
<1> QED
  BY <1>3, <1>4, <1>7, <1>8, <1>9, <1>10, Zenon DEF Flows

\* Every edge keeps the invariant; the loop bounds change at an edge that neither
\* runs nor begins a run.
LEMMA EdgeKeeps ==
  ASSUME IInv, iter_reg' \in [Levels -> Iters], NEW start, NEW stop, NEW written, NEW ready \in BOOLEAN,
         Edge(start, stop, written, ready),
         iter_reg' = iter_reg \/ (state_reg # "RUN" /\ ~Begins(start, stop))
  PROVE  IInv'
<1>1. TypeOK /\ TypeOK'
  BY EdgeTypes DEF IInv
<1>2. CASE Begins(start, stop) /\ Begin
  <2>1. iter_reg' = iter_reg /\ state_reg' = "RUN"
    BY <1>2 DEF Begin
  <2>2. Flows(iter_reg)'
    BY <1>1, <1>2, <2>1, BeginFlows
  <2> QED
    BY <1>1, <2>1, <2>2, Zenon DEF IInv
<1>3. CASE Halt \/ Rest
  <2>1. state_reg' = "IDLE" /\ s2'.valid = FALSE
    BY <1>3 DEF Halt, Rest, ClearPipeline, Empty
  <2> QED
    BY <1>1, <2>1 DEF IInv
<1>4. CASE Runs(stop) /\ Run(ready)
  <2>1. state_reg = "RUN" /\ iter_reg' = iter_reg /\ Flows(iter_reg)
    BY <1>4 DEF Runs, IInv
  <2>2. Flows(iter_reg)'
    BY <1>1, <1>4, <2>1, RunFlows
  <2>3. CASE out_fire(ready) /\ s2.last
    <3>1. s2'.valid = FALSE /\ state_reg' # "RUN"
      BY <1>1, <1>4, <2>1, <2>3, LastLeavesNothing DEF Run
    <3> QED
      BY <1>1, <3>1, Zenon DEF IInv
  <2>4. CASE ~(out_fire(ready) /\ s2.last)
    <3>1. state_reg' = "RUN"
      BY <1>4, <2>1, <2>4 DEF Run
    <3> QED
      BY <1>1, <2>2, <3>1, Zenon DEF IInv
  <2> QED
    BY <2>3, <2>4
<1> QED
  BY <1>2, <1>3, <1>4, Zenon DEF Edge

\* The bounds that WriteIter leaves.
LEMMA NewBounds ==
  ASSUME iter_reg \in [Levels -> Iters], NEW half \in {0, 1}, NEW lo \in RawIter, NEW hi \in RawIter
  PROVE  [iter_reg EXCEPT ![2 * half] = normalize_iter(lo),
                          ![2 * half + 1] = normalize_iter(hi)] \in [Levels -> Iters]
<1>1. normalize_iter(lo) \in Iters /\ normalize_iter(hi) \in Iters
  BY DEF Iters
<1> QED
  BY <1>1

\* No START is seen at an edge without a START write, in a state without one pending.
LEMMA NoBegin ==
  ASSUME "start" \notin ctrl_reg
  PROVE  ~Begins(FALSE, FALSE)
BY Zenon DEF Begins, start_req

\* Every step keeps the invariant.
LEMMA Step ==
  ASSUME IInv, [Next]_vars
  PROVE  IInv'
<1>1. iter_reg \in [Levels -> Iters]
  BY DEF IInv, TypeOK
<1>2. CASE Next
  <2>1. PICK ready \in BOOLEAN :
          \/ Quiet(ready) \/ GlobalStart(ready) \/ GlobalStop(ready)
          \/ \E w \in CtrlWrites : WriteCtrl(w, ready)
          \/ \E half \in {0, 1}, lo, hi \in RawIter : WriteIter(half, lo, hi, ready)
    BY <1>2, Zenon DEF Next
  <2>2. CASE Quiet(ready)
    <3>1. Edge(FALSE, FALSE, ctrl_reg, ready) /\ iter_reg' = iter_reg
      BY <2>2, Zenon DEF Quiet
    <3> QED
      BY <1>1, <3>1, EdgeKeeps, Zenon
  <2>3. CASE GlobalStart(ready)
    <3>1. Edge(TRUE, FALSE, ctrl_reg, ready) /\ iter_reg' = iter_reg
      BY <2>3, Zenon DEF GlobalStart
    <3> QED
      BY <1>1, <3>1, EdgeKeeps, Zenon
  <2>4. CASE GlobalStop(ready)
    <3>1. Edge(FALSE, TRUE, ctrl_reg, ready) /\ iter_reg' = iter_reg
      BY <2>4, Zenon DEF GlobalStop
    <3> QED
      BY <1>1, <3>1, EdgeKeeps, Zenon
  <2>5. ASSUME NEW w \in CtrlWrites, WriteCtrl(w, ready) PROVE IInv'
    <3>1. Edge("start" \in w, "stop" \in w, w, ready) /\ iter_reg' = iter_reg
      BY <2>5, Zenon DEF WriteCtrl
    <3> QED
      BY <1>1, <3>1, EdgeKeeps, Zenon
  <2>6. ASSUME NEW half \in {0, 1}, NEW lo \in RawIter, NEW hi \in RawIter, WriteIter(half, lo, hi, ready)
        PROVE  IInv'
    <3>1. Edge(FALSE, FALSE, ctrl_reg, ready) /\ state_reg # "RUN" /\ ~Begins(FALSE, FALSE)
      BY <2>6, NoBegin, Zenon DEF WriteIter
    <3>2. iter_reg' \in [Levels -> Iters]
      BY <1>1, <2>6, NewBounds, Zenon DEF WriteIter
    <3> QED
      BY <3>1, <3>2, EdgeKeeps, Zenon
  <2> QED
    BY <2>1, <2>2, <2>3, <2>4, <2>5, <2>6, Zenon
<1>3. CASE UNCHANGED vars
  <2>1. /\ UNCHANGED <<iter_reg, idx_reg, idx_next_reg, idx_update_pending, state_reg, busy_reg, busy>>
        /\ UNCHANGED <<done_reg, stalled_reg, s0, s1, n0_s0, n0_s1, s2, run_last_issued, sent>>
    BY <1>3, Zenon DEF vars, counters, pipeline
  <2>2. TypeOK' <=> TypeOK
    BY <2>1, Zenon DEF TypeOK
  <2>3. Flows(iter_reg)' <=> Flows(iter_reg)
    BY <2>1 DEF Flows, Holds, idx_now, held, before_s0, before_s1, before_n0_s0, before_n0_s1
  <2> QED
    BY <2>1, <2>2, <2>3, Zenon DEF IInv
<1> QED
  BY <1>2, <1>3

\* The initial state.
LEMMA Start ==
  ASSUME Init
  PROVE  IInv
<1>1. Empty \in Stage /\ Empty.valid = FALSE /\ Zero \in [Levels -> Nat]
  BY DEF Empty, Stage, NoIdx, Zero
<1>2. iter_reg \in [Levels -> Iters]
  BY DEF Init, Iters
<1>3. TypeOK
  BY <1>1, <1>2 DEF Init, TypeOK
<1> QED
  BY <1>1, <1>3 DEF Init, IInv

\* Whatever the commands and the ready input, the descriptors a running unit
\* holds and the counters behind them stay in the order of the loop nest.
THEOREM InOrder == Spec => []IInv
<1>1. Init => IInv
  BY Start, Zenon
<1>2. IInv /\ [Next]_vars => IInv'
  BY Step, Zenon
<1> QED
  BY <1>1, <1>2, PTL DEF Spec

-----------------------------------------------------------------------------
(* The pipeline as a sequence.                                             *)

\* Descriptors with consecutive numbers from n.
Numbered(it, q, n) ==
  \A i \in 1 .. Len(q) : PositionIn(it, q[i].idx) = n + i - 1 /\ q[i].last = (n + i = TotalOf(it))

\* A sequence of descriptors with the numbers from n up to m.
UpTo(it, q, n, m) == q \in Seq(Stage) /\ Numbered(it, q, n) /\ m = n + Len(q)

\* A stage behind a sequence goes on with the numbers.
LEMMA OneMore ==
  ASSUME NEW it, NEW n \in Nat, NEW m \in Nat, NEW q, UpTo(it, q, n, m),
         NEW stage \in Stage, Holds(it, stage, m)
  PROVE  UpTo(it, q \o in_stage(stage), n, m + One(stage.valid))
<1>0. q \in Seq(Stage) /\ Numbered(it, q, n) /\ m = n + Len(q)
  BY Zenon DEF UpTo
<1>1. PICK k \in Nat : k = Len(q)
  BY <1>0, LenProperties
<1>2. CASE stage.valid
  <2>1. in_stage(stage) = <<stage>>
    BY <1>2, Zenon DEF in_stage
  <2>2. q \o <<stage>> \in Seq(Stage) /\ Len(q \o <<stage>>) = k + 1 /\ (q \o <<stage>>)[k + 1] = stage
        /\ \A i \in 1 .. k : (q \o <<stage>>)[i] = q[i]
    BY <1>0, <1>1
  <2>3. stage.last = (m + 1 = TotalOf(it)) /\ PositionIn(it, stage.idx) = m
    BY <1>2 DEF Holds, Marked
  <2>4. ASSUME NEW i \in 1 .. k + 1
        PROVE  /\ PositionIn(it, (q \o <<stage>>)[i].idx) = n + i - 1
               /\ (q \o <<stage>>)[i].last = (n + i = TotalOf(it))
    <3>1. CASE i \in 1 .. k
      BY <1>0, <1>1, <2>2, <3>1, Zenon DEF Numbered
    <3>2. CASE i = k + 1
      <4>1. n + i - 1 = m /\ n + i = m + 1
        BY <1>0, <1>1, <3>2
      <4>2. (q \o <<stage>>)[i] = stage
        BY <2>2, <3>2, Zenon
      <4>3. PositionIn(it, (q \o <<stage>>)[i].idx) = n + i - 1
        BY <2>3, <4>1, <4>2
      <4>4. stage.last = (n + i = TotalOf(it))
        BY <2>3, <4>1, Zenon
      <4>5. (q \o <<stage>>)[i].last = (n + i = TotalOf(it))
        BY <4>2, <4>4, Zenon
      <4> QED
        BY <4>3, <4>5, Zenon
    <3>3. i \in 1 .. k \/ i = k + 1
      OBVIOUS
    <3> QED
      BY <3>1, <3>2, <3>3, Zenon
  <2>5. n + (k + 1) = m + 1
    BY <1>0, <1>1
  <2> QED
    BY <1>2, <2>1, <2>2, <2>4, <2>5, Zenon DEF Numbered, One, UpTo
<1>3. CASE ~stage.valid
  <2>1. in_stage(stage) = <<>> /\ q \o <<>> = q
    BY <1>0, <1>3 DEF in_stage
  <2>2. m + 0 = m
    OBVIOUS
  <2> QED
    BY <1>3, <2>1, <2>2, Zenon DEF One
<1> QED
  BY <1>2, <1>3

\* The stages in order make a sequence in order.
LEMMA HeldIs ==
  ASSUME TypeOK, Flows(iter_reg)
  PROVE  Numbered(iter_reg, Held, sent) /\ sent + Len(Held) = sent + held
<1>1. /\ s2 \in Stage /\ n0_s1 \in Stage /\ n0_s0 \in Stage /\ s1 \in Stage /\ s0 \in Stage
      /\ sent \in Nat
  BY DEF TypeOK
<1>2. PICK m2 \in Nat, m3 \in Nat, m4 \in Nat, m5 \in Nat :
        m2 = sent + before_n0_s1 /\ m3 = sent + before_n0_s0 /\ m4 = sent + before_s1 /\ m5 = sent + before_s0
  BY <1>1 DEF before_s0, before_s1, before_n0_s0, before_n0_s1, One
<1>3. /\ m2 = sent + One(s2.valid) /\ m3 = m2 + One(n0_s1.valid) /\ m4 = m3 + One(n0_s0.valid)
      /\ m5 = m4 + One(s1.valid) /\ sent + held = m5 + One(s0.valid)
  BY <1>1, <1>2 DEF held, before_s0, before_s1, before_n0_s0, before_n0_s1, One
<1>4. /\ Holds(iter_reg, s2, sent) /\ Holds(iter_reg, n0_s1, m2) /\ Holds(iter_reg, n0_s0, m3)
      /\ Holds(iter_reg, s1, m4) /\ Holds(iter_reg, s0, m5)
  BY <1>2, Zenon DEF Flows
<1>5. UpTo(iter_reg, in_stage(s2), sent, m2)
  <2>1. UpTo(iter_reg, <<>>, sent, sent)
    BY <1>1 DEF Numbered, UpTo
  <2>2. <<>> \o in_stage(s2) = in_stage(s2)
    BY <1>1 DEF in_stage
  <2> QED
    BY <1>1, <1>3, <1>4, <2>1, <2>2, OneMore
<1>6. UpTo(iter_reg, in_stage(s2) \o in_stage(n0_s1), sent, m3)
  BY <1>1, <1>3, <1>4, <1>5, OneMore
<1>7. UpTo(iter_reg, in_stage(s2) \o in_stage(n0_s1) \o in_stage(n0_s0), sent, m4)
  BY <1>1, <1>3, <1>4, <1>6, OneMore
<1>8. UpTo(iter_reg, in_stage(s2) \o in_stage(n0_s1) \o in_stage(n0_s0) \o in_stage(s1), sent, m5)
  BY <1>1, <1>3, <1>4, <1>7, OneMore
<1>9. UpTo(iter_reg, Held, sent, sent + held)
  BY <1>1, <1>3, <1>4, <1>8, OneMore DEF Held
<1> QED
  BY <1>9, Zenon DEF UpTo

\* While a unit runs, its pipeline holds the descriptors that come next, in order
\* and without a gap, and the final one alone is marked last.
THEOREM Ordered == Spec => []StreamIntact
<1>1. IInv => StreamIntact
  <2> SUFFICES ASSUME IInv, state_reg = "RUN"
               PROVE  /\ \A i \in 1 .. Len(Held) :
                           /\ Position(Held[i].idx) = sent + i - 1
                           /\ Held[i].last = (sent + i = total)
                      /\ IF run_last_issued THEN sent + Len(Held) = total
                         ELSE Position(idx_now) = sent + Len(Held)
    BY Zenon DEF StreamIntact
  <2>1. TypeOK /\ Flows(iter_reg)
    BY DEF IInv
  <2>2. Numbered(iter_reg, Held, sent) /\ sent + Len(Held) = sent + held
    BY <2>1, HeldIs
  <2>3. total = TotalOf(iter_reg) /\ \A idx : Position(idx) = PositionIn(iter_reg, idx)
    BY Zenon DEF total, TotalOf, Position, PositionIn
  <2>4. IF run_last_issued THEN sent + held = TotalOf(iter_reg)
        ELSE PositionIn(iter_reg, idx_now) = sent + held
    BY <2>1, Zenon DEF Flows
  <2> QED
    BY <2>2, <2>3, <2>4, Zenon DEF Numbered
<1> QED
  BY <1>1, InOrder, PTL

-----------------------------------------------------------------------------
(* The longest run.                                                        *)

\* A set of naturals that is not empty has a least element.
LEMMA LeastNat ==
  ASSUME NEW T \in SUBSET Nat, T # {}
  PROVE  \E x \in T : \A y \in T : x <= y
<1>1. PICK R : R = {ss \in Nat \X Nat : ss[1] < ss[2]}
  OBVIOUS
<1>2. IsWellFoundedOn(R, Nat)
  BY <1>1, NatLessThanWellFounded, Zenon DEF OpToRel
<1>3. PICK x \in T : \A y \in T : ~ (<<y, x>> \in R)
  BY <1>2, WFMin, Zenon
<1>4. ASSUME NEW y \in T PROVE x <= y
  <2>1. ~(y < x) /\ x \in Nat /\ y \in Nat
    BY <1>1, <1>3
  <2> QED
    BY <2>1
<1> QED
  BY <1>4, Zenon

\* A finite set of naturals that is not empty has a greatest element.
LEMMA MaxIs ==
  ASSUME NEW S \in SUBSET Nat, IsFiniteSet(S), S # {}
  PROVE  Max(S) \in S /\ \A x \in S : x <= Max(S)
<1>1. PICK n \in Nat : ExistsBijection(1 .. n, S)
  BY FS_NatBijection
<1>2. PICK f : f \in Bijection(1 .. n, S)
  BY <1>1 DEF ExistsBijection
<1>3. f \in [1 .. n -> S] /\ \A x \in S : \E i \in 1 .. n : f[i] = x
  BY <1>2 DEF Bijection, Surjection
<1> DEFINE Unbounded == {k \in Nat : k <= n /\ \A u \in Nat : \E i \in 1 .. k : f[i] > u}
<1>4. Unbounded = {}
  <2> SUFFICES ASSUME Unbounded # {} PROVE FALSE
    OBVIOUS
  <2>1. PICK k \in Unbounded : \A j \in Unbounded : k <= j
    <3>1. Unbounded \in SUBSET Nat
      OBVIOUS
    <3> QED
      BY <3>1, LeastNat, Zenon
  <2>2. k \in Nat /\ k <= n /\ \A v \in Nat : \E i \in 1 .. k : f[i] > v
    BY <2>1, Zenon
  <2>3. k # 0
    BY <2>2
  <2>4. k - 1 \in Nat /\ k - 1 <= n /\ ~(k <= k - 1)
    BY <2>2, <2>3
  <2>5. k - 1 \notin Unbounded
    BY <2>1, <2>4, Zenon
  <2>6. PICK u \in Nat : ~\E i \in 1 .. k - 1 : f[i] > u
    BY <2>4, <2>5, Zenon
  <2>7. f[k] \in Nat
    <3>1. k \in 1 .. n
      BY <2>2, <2>3
    <3> QED
      BY <1>3, <3>1
  <2>8. PICK w \in Nat : w >= u /\ w >= f[k]
    <3>1. PICK e \in Nat : e = f[k]
      BY <2>7
    <3>2. u + e \in Nat /\ u + e >= u /\ u + e >= e
      OBVIOUS
    <3> QED
      BY <3>1, <3>2, Zenon
  <2>9. PICK i \in 1 .. k : f[i] > w
    BY <2>2, Zenon
  <2>10. CASE i = k
    BY <2>7, <2>8, <2>9, <2>10
  <2>11. CASE i \in 1 .. k - 1
    <3>1. f[i] \in Nat
      <4>1. i \in 1 .. n
        BY <2>2, <2>3, <2>11
      <4> QED
        BY <1>3, <4>1
    <3>2. f[i] > u
      BY <2>8, <2>9, <3>1
    <3> QED
      BY <2>6, <2>11, <3>2, Zenon
  <2> QED
    BY <2>2, <2>10, <2>11
<1>5. PICK u \in Nat : ~\E i \in 1 .. n : f[i] > u
  <2>1. n <= n
    OBVIOUS
  <2> QED
    BY <1>4, <2>1, Zenon
<1> DEFINE Upper == {b \in Nat : \A x \in S : x <= b}
<1>6. u \in Upper
  BY <1>3, <1>5
<1>7. PICK m \in Upper : \A b \in Upper : m <= b
  BY <1>6, LeastNat
<1>8. m \in S
  <2> SUFFICES ASSUME m \notin S PROVE FALSE
    OBVIOUS
  <2>1. \A x \in S : x < m
    BY <1>7
  <2>2. m - 1 \in Upper
    <3>1. m \in Nat /\ \A x \in S : x <= m - 1
      BY <2>1
    <3>2. PICK x \in S : x < m
      BY <2>1
    <3>3. m - 1 \in Nat
      BY <3>1, <3>2
    <3> QED
      BY <3>1, <3>3
  <2> QED
    BY <1>7, <2>2
<1>9. \E x \in S : \A y \in S : x >= y
  BY <1>7, <1>8
<1> QED
  BY <1>9 DEF Max

\* A product grows with its factors.
LEMMA ProductGrows ==
  ASSUME NEW a \in Nat \ {0}, NEW b \in Nat \ {0}, NEW c \in Nat, NEW d \in Nat, a <= c, b <= d
  PROVE  a * b \in Nat \ {0} /\ c * d \in Nat /\ a * b <= c * d
<1>1. PICK x \in Nat : c = a + x
  <2>1. c - a \in Nat /\ c = a + (c - a)
    OBVIOUS
  <2> QED
    BY <2>1
<1>2. PICK y \in Nat : d = b + y
  <2>1. d - b \in Nat /\ d = b + (d - b)
    OBVIOUS
  <2> QED
    BY <2>1
<1>3. (a + x) * (b + y) = a * b + a * y + x * b + x * y
  OBVIOUS
<1>4. a * b \in Nat \ {0} /\ a * y \in Nat /\ x * b \in Nat /\ x * y \in Nat
  OBVIOUS
<1>5. PICK p \in Nat \ {0}, q \in Nat, r \in Nat, s \in Nat :
        p = a * b /\ q = a * y /\ r = x * b /\ s = x * y
  BY <1>4
<1>6. c * d = p + q + r + s
  BY <1>1, <1>2, <1>3, <1>5
<1> QED
  BY <1>5, <1>6

\* No run is longer than the loop bounds allow.
LEMMA TotalIs ==
  ASSUME NEW it \in [Levels -> Iters]
  PROVE  TotalOf(it) \in 1 .. Max(Iters) * Max(Iters) * Max(Iters) * Max(Iters)
<1>1. PICK u \in Nat : u = Max(Iters) /\ \A x \in Iters : x <= u
  <2>1. Iters \in SUBSET Nat /\ Iters # {}
    BY ItersPositive DEF Iters
  <2> QED
    BY <2>1, ItersPositive, MaxIs
<1>2. PICK a \in Nat \ {0}, b \in Nat \ {0}, c \in Nat \ {0}, d \in Nat \ {0} :
        /\ a = it[0] /\ b = it[1] /\ c = it[2] /\ d = it[3]
        /\ a <= u /\ b <= u /\ c <= u /\ d <= u
  <2>1. \A l \in 0 .. 3 : it[l] \in Iters
    BY DEF Levels
  <2>2. \A l \in 0 .. 3 : it[l] \in Nat \ {0} /\ it[l] <= u
    BY <1>1, <2>1, ItersPositive, Zenon
  <2> QED
    BY <2>2
<1>3. a * b \in Nat \ {0} /\ u * u \in Nat /\ a * b <= u * u
  BY <1>2, ProductGrows
<1>4. (a * b) * c \in Nat \ {0} /\ (u * u) * u \in Nat /\ (a * b) * c <= (u * u) * u
  BY <1>2, <1>3, ProductGrows, Zenon
<1>5. ((a * b) * c) * d \in Nat \ {0} /\ ((u * u) * u) * u \in Nat
      /\ ((a * b) * c) * d <= ((u * u) * u) * u
  BY <1>2, <1>4, ProductGrows, Zenon
<1>6. PICK n \in Nat \ {0}, m \in Nat : n = ((a * b) * c) * d /\ m = ((u * u) * u) * u /\ n <= m
  BY <1>5, Zenon
<1>7. n \in 1 .. m
  BY <1>6
<1> QED
  BY <1>1, <1>2, <1>6, <1>7, Zenon DEF TotalOf

-----------------------------------------------------------------------------
(* The unit seen from outside.                                             *)

\* The unit's record for a run of n descriptors.
Seen(n) == [state |-> state_reg, busy_reg |-> busy_reg, busy |-> busy,
            valid |-> s2.valid, sent |-> sent, total |-> n]

\* What a running edge makes of the record.
LEMMA RunSeen ==
  ASSUME IInv, TypeOK', iter_reg' = iter_reg, NEW ready \in BOOLEAN, Run(ready), state_reg = "RUN",
         busy' = busy_reg, NEW n, n = total
  PROVE  Seen(n)' = Stream!RunEdge(Seen(n), ready, s2'.valid)
<1>1. TypeOK /\ Flows(iter_reg)
  BY DEF IInv
<1>2. total = TotalOf(iter_reg)
  BY Zenon DEF total, TotalOf
<1>3. s2.valid => (s2.last <=> sent + 1 = total)
  <2> SUFFICES ASSUME s2.valid PROVE s2.last <=> sent + 1 = total
    OBVIOUS
  <2>1. Marked(iter_reg, s2) /\ PositionIn(iter_reg, s2.idx) = sent
    BY <1>1, Zenon DEF Flows, Holds
  <2> QED
    BY <1>2, <2>1, Zenon DEF Marked
<1>4. s2.valid \in BOOLEAN /\ s2'.valid \in BOOLEAN
  BY <1>1 DEF TypeOK, Stage
<1>5. CASE s2.valid /\ ~ready
  <2>1. s2' = s2
    BY <1>5 DEF Run, MovePipeline, s2_ready, bypass_s1_to_s2
  <2>2. state_reg' = state_reg /\ busy_reg' = busy_reg /\ sent' = sent
    BY <1>5 DEF Run, out_fire
  <2> QED
    BY <1>4, <1>5, <2>1, <2>2 DEF Stream!RunEdge, Stream!Running, Stream!After, Seen
<1>6. CASE ~s2.valid
  <2>1. state_reg' = state_reg /\ busy_reg' = busy_reg /\ sent' = sent
    BY <1>6 DEF Run, out_fire
  <2> QED
    BY <1>6, <2>1 DEF Stream!RunEdge, Stream!Running, Stream!After, Seen
<1>7. CASE s2.valid /\ ready /\ sent + 1 = total
  <2>1. out_fire(ready) /\ s2.last
    BY <1>3, <1>7 DEF out_fire
  <2>2. s2'.valid = FALSE
    BY <1>1, <2>1, LastLeavesNothing
  <2>3. state_reg' = "DONE" /\ busy_reg' = FALSE /\ sent' = sent + 1
    BY <2>1 DEF Run
  <2> QED
    BY <1>7, <2>2, <2>3 DEF Stream!RunEdge, Stream!Finished, Stream!After, Seen
<1>8. CASE s2.valid /\ ready /\ sent + 1 # total
  <2>1. out_fire(ready) /\ ~s2.last
    BY <1>3, <1>8 DEF out_fire
  <2>2. state_reg' = state_reg /\ busy_reg' = busy_reg /\ sent' = sent + 1
    BY <2>1 DEF Run
  <2> QED
    BY <1>8, <2>2 DEF Stream!RunEdge, Stream!Running, Stream!After, Seen
<1> QED
  BY <1>4, <1>5, <1>6, <1>7, <1>8

\* What an edge makes of the record.
LEMMA EdgeSeen ==
  ASSUME IInv, TypeOK', NEW start, NEW stop, NEW written, NEW ready \in BOOLEAN,
         Edge(start, stop, written, ready),
         iter_reg' = iter_reg \/ (state_reg # "RUN" /\ ~Begins(start, stop)), NEW n, n = total
  PROVE  Seen(n)' = Stream!Edge(Seen(n), start_req(start), stop_req(stop), soft_reset, ready, s2'.valid)
<1>1. busy' = busy_reg
  BY Zenon DEF Edge
<1>2. Seen(n).state = state_reg
  BY DEF Seen
<1>3. Stream!Begins(Seen(n), start_req(start), stop_req(stop), soft_reset) <=> Begins(start, stop)
  BY <1>2, Zenon DEF Stream!Begins, Begins
<1>4. CASE Begins(start, stop) /\ Begin
  <2>1. /\ state_reg' = "RUN" /\ busy_reg' = TRUE /\ sent' = 0 /\ s2'.valid = FALSE
    BY <1>4 DEF Begin, Empty
  <2>2. Seen(n)' = Stream!Begun(Seen(n))
    BY <1>1, <2>1 DEF Seen, Stream!Begun, Stream!After
  <2> QED
    BY <1>3, <1>4, <2>2, Zenon DEF Stream!Edge
<1>5. CASE ~Begins(start, stop) /\ (stop_req(stop) \/ soft_reset) /\ Halt
  <2>1. /\ state_reg' = "IDLE" /\ busy_reg' = FALSE /\ sent' = sent /\ s2'.valid = FALSE
    BY <1>5 DEF Halt, ClearPipeline, Empty
  <2>2. Seen(n)' = Stream!Halted(Seen(n))
    BY <1>1, <2>1 DEF Seen, Stream!Halted, Stream!After
  <2> QED
    BY <1>3, <1>5, <2>2, Zenon DEF Stream!Edge
<1>6. CASE Runs(stop) /\ Run(ready)
  <2>1. state_reg = "RUN" /\ ~stop_req(stop) /\ ~soft_reset
    BY <1>6, Zenon DEF Runs
  <2>2. iter_reg' = iter_reg
    BY <2>1
  <2>3. ~Begins(start, stop)
    BY <2>1 DEF Begins
  <2>4. Seen(n)' = Stream!RunEdge(Seen(n), ready, s2'.valid)
    BY <1>1, <1>6, <2>1, <2>2, RunSeen, Zenon
  <2> QED
    BY <1>2, <1>3, <2>1, <2>3, <2>4, Zenon DEF Stream!Edge
<1>7. CASE ~Begins(start, stop) /\ ~stop_req(stop) /\ ~soft_reset /\ state_reg # "RUN" /\ Rest
  <2>1. /\ state_reg' = "IDLE" /\ busy_reg' = busy_reg /\ sent' = sent /\ s2'.valid = FALSE
    BY <1>7 DEF Rest, ClearPipeline, Empty
  <2>2. s2.valid = FALSE
    BY <1>7 DEF IInv
  <2>3. Seen(n)' = Stream!After(Seen(n), "IDLE", Seen(n).busy_reg, Seen(n).valid, Seen(n).sent)
    BY <1>1, <2>1, <2>2 DEF Seen, Stream!After
  <2> QED
    BY <1>2, <1>3, <1>7, <2>3, Zenon DEF Stream!Edge
<1> QED
  BY <1>4, <1>5, <1>6, <1>7, Zenon DEF Edge

\* An edge with its commands is a step of the stream.
LEMMA EdgeIsStep ==
  ASSUME IInv, TypeOK', NEW start, NEW stop, NEW written, NEW ready \in BOOLEAN,
         Edge(start, stop, written, ready), iter_reg' = iter_reg
  PROVE  Stream!Next
<1>1. PICK n : n = total
  OBVIOUS
<1>2. total' = n
  BY <1>1, Zenon DEF total
<1>3. Seen(n)' = Stream!Edge(Seen(n), start_req(start), stop_req(stop), soft_reset, ready, s2'.valid)
  BY <1>1, EdgeSeen
<1>4. Seen(n) = [state |-> state_reg, busy_reg |-> busy_reg, busy |-> busy,
                 valid |-> s2.valid, sent |-> sent, total |-> total]
  BY <1>1, Zenon DEF Seen
<1>5. Seen(n)' = [state |-> state_reg, busy_reg |-> busy_reg, busy |-> busy,
                  valid |-> s2.valid, sent |-> sent, total |-> total]'
  BY <1>2 DEF Seen
<1>6. PICK b1 \in BOOLEAN, b2 \in BOOLEAN, b3 \in BOOLEAN, b4 \in BOOLEAN :
        Seen(n)' = Stream!Edge(Seen(n), b1, b2, b3, ready, b4)
  <2>1. start_req(start) \in BOOLEAN /\ stop_req(stop) \in BOOLEAN /\ soft_reset \in BOOLEAN
    <3>1. start_req(start) \in BOOLEAN
      BY Zenon DEF start_req
    <3>2. stop_req(stop) \in BOOLEAN
      BY Zenon DEF stop_req
    <3>3. soft_reset \in BOOLEAN
      BY DEF soft_reset
    <3> QED
      BY <3>1, <3>2, <3>3
  <2>2. s2'.valid \in BOOLEAN
    BY DEF TypeOK, Stage
  <2> QED
    BY <1>3, <2>1, <2>2, Zenon
<1> QED
  BY <1>4, <1>5, <1>6, Zenon DEF Stream!Next, Stream!Step

\* Programming the loop bounds is programming the length of the run.
LEMMA WriteIsProgram ==
  ASSUME IInv, IInv', NEW ready \in BOOLEAN, Edge(FALSE, FALSE, ctrl_reg, ready),
         state_reg # "RUN", "start" \notin ctrl_reg
  PROVE  Stream!Next
<1>1. PICK n : n = total
  OBVIOUS
<1>2. PICK m \in 1 .. Max(Iters) * Max(Iters) * Max(Iters) * Max(Iters) : m = total'
  BY TotalIs DEF IInv, TypeOK, total, TotalOf
<1>3. ~Begins(FALSE, FALSE) /\ start_req(FALSE) = FALSE
  BY Zenon DEF Begins, start_req
<1>4. Seen(n)' = Stream!Edge(Seen(n), start_req(FALSE), stop_req(FALSE), soft_reset, ready, s2'.valid)
  BY <1>1, <1>3, EdgeSeen DEF IInv
<1>5. Seen(n).state # "RUN"
  BY DEF Seen
<1>6. \A b2, b3 : Stream!Edge(Seen(n), FALSE, b2, b3, ready, s2'.valid)
                    = Stream!Edge(Seen(n), FALSE, b2, b3, FALSE, FALSE)
  BY <1>5, Zenon DEF Stream!Edge
<1>7. PICK b2 \in BOOLEAN, b3 \in BOOLEAN : Seen(n)' = Stream!Edge(Seen(n), FALSE, b2, b3, FALSE, FALSE)
  <2>1. stop_req(FALSE) \in BOOLEAN /\ soft_reset \in BOOLEAN
    <3>1. stop_req(FALSE) \in BOOLEAN
      BY Zenon DEF stop_req
    <3>2. soft_reset \in BOOLEAN
      BY DEF soft_reset
    <3> QED
      BY <3>1, <3>2
  <2> QED
    BY <1>3, <1>4, <1>6, <2>1, Zenon
<1>8. Seen(n) = [state |-> state_reg, busy_reg |-> busy_reg, busy |-> busy,
                 valid |-> s2.valid, sent |-> sent, total |-> total]
  BY <1>1, Zenon DEF Seen
<1>9. [Seen(n)' EXCEPT !.total = m] = [state |-> state_reg, busy_reg |-> busy_reg, busy |-> busy,
                                       valid |-> s2.valid, sent |-> sent, total |-> total]'
  BY <1>2 DEF Seen
<1>10. Stream!Program
  BY <1>2, <1>5, <1>7, <1>8, <1>9, Zenon DEF Stream!Program
<1> QED
  BY <1>10, Zenon DEF Stream!Next

\* Whatever the pipeline does, the unit behaves as a stream of as many descriptors
\* as its loop bounds say: the last handshake or a command ends the run, a START
\* outside IDLE is dropped and an offered descriptor stays until it is taken.
THEOREM Streaming == Spec => ImplementsStream
<1>1. ASSUME Init PROVE Stream!Init
  <2>1. iter_reg[0] = 1 /\ iter_reg[1] = 1 /\ iter_reg[2] = 1 /\ iter_reg[3] = 1
    BY <1>1 DEF Init, Levels
  <2>2. total = 1
    BY <2>1 DEF total
  <2>3. state_reg = "IDLE" /\ busy_reg = FALSE /\ busy = FALSE /\ s2.valid = FALSE /\ sent = 0
    BY <1>1 DEF Init, Empty
  <2> QED
    BY <2>2, <2>3 DEF Stream!Init, Stream!AtReset
<1>2. ASSUME IInv, IInv', [Next]_vars
      PROVE  Stream!Next \/ UNCHANGED [state |-> state_reg, busy_reg |-> busy_reg, busy |-> busy,
                                       valid |-> s2.valid, sent |-> sent, total |-> total]
  <2>1. TypeOK /\ TypeOK'
    BY <1>2, Zenon DEF IInv
  <2>2. CASE Next
    <3>1. PICK ready \in BOOLEAN :
            \/ Quiet(ready) \/ GlobalStart(ready) \/ GlobalStop(ready)
            \/ \E w \in CtrlWrites : WriteCtrl(w, ready)
            \/ \E half \in {0, 1}, lo, hi \in RawIter : WriteIter(half, lo, hi, ready)
      BY <2>2, Zenon DEF Next
    <3>2. CASE Quiet(ready) \/ GlobalStart(ready) \/ GlobalStop(ready)
               \/ \E w \in CtrlWrites : WriteCtrl(w, ready)
      <4>1. PICK start, stop, written : Edge(start, stop, written, ready) /\ iter_reg' = iter_reg
        BY <3>2, Zenon DEF Quiet, GlobalStart, GlobalStop, WriteCtrl
      <4> QED
        BY <1>2, <2>1, <4>1, EdgeIsStep, Zenon
    <3>3. CASE \E half \in {0, 1}, lo, hi \in RawIter : WriteIter(half, lo, hi, ready)
      <4>1. Edge(FALSE, FALSE, ctrl_reg, ready) /\ state_reg # "RUN" /\ "start" \notin ctrl_reg
        BY <3>3, Zenon DEF WriteIter
      <4> QED
        BY <1>2, <4>1, WriteIsProgram, Zenon
    <3> QED
      BY <3>1, <3>2, <3>3, Zenon
  <2>3. CASE UNCHANGED vars
    <3>1. UNCHANGED <<iter_reg, state_reg, busy_reg, busy, s2, sent>>
      BY <2>3, Zenon DEF vars, pipeline
    <3> QED
      BY <3>1 DEF total
  <2> QED
    BY <1>2, <2>2, <2>3
<1> QED
  BY <1>1, <1>2, InOrder, PTL DEF Spec, ImplementsStream, Stream!Spec
=============================================================================
