-------------------------- MODULE DmaEngine_proofs --------------------------
(***************************************************************************)
(* The DMA engine for any commands, any depths and any number of tags: who *)
(* waits for a tag does not go on before its command is reported, and the  *)
(* engine is a copier: every beat of a command lands once, at its place    *)
(* and in order, and a command is reported only when all of its beats      *)
(* have.                                                                   *)
(*                                                                         *)
(* The invariant of the tags counts from the tag reported last.  The tags  *)
(* of the commands in the engine lie ahead of it, in their order, and the  *)
(* next tag lies ahead of them all and at most one past half of the tags:  *)
(* that a submit which finds the queue full uses up a tag as well, and     *)
(* that tags are reported while others are given, changes nothing of this. *)
(*                                                                         *)
(* The invariant of the copy says where each beat of the active command    *)
(* is.  The first n are in the destination; then come, without a gap, the  *)
(* data that are sent, those in the buffer, those in resp, and those of    *)
(* the bursts in flight, up to the last that was issued; and the addresses *)
(* that are next in each generator are those of the beats not issued.  The *)
(* write bursts in flight cover the beats after the first n, so that data  *)
(* and addresses meet, and a run is over only when n is all beats.         *)
(***************************************************************************)
EXTENDS DmaEngine, SequenceTheorems, FiniteSetTheorems, TLAPS

\* A command that was submitted.
Submission == [what : Commands, tag : Tag]

\* The tags up to which dma_wait_tag takes a tag to be still to come.
Half == TAGS - (TAGS \div 2)

\* How far a tag is ahead of the one reported last; that tag itself is a whole turn.
ahead(tag, done) == IF tag = done THEN TAGS ELSE (tag + TAGS - done) % TAGS

\* The tags of some commands are ahead in the order of the commands, below the next.
InOrder(commands, done, next) ==
  /\ commands \in Seq(Submission) /\ done \in Tag /\ next \in Tag
  /\ ahead(next, done) <= Half + 1
  /\ \A i \in 1 .. Len(commands) :
       /\ ahead(commands[i].tag, done) < ahead(next, done)
       /\ \A j \in 1 .. i - 1 : ahead(commands[j].tag, done) < ahead(commands[i].tag, done)

\* One command is active, but in IDLE none.
IInv ==
  /\ InOrder(live, mmio_done_tag_reg, next_tag)
  /\ cmd_fifo_reg \in Seq(Submission)
  /\ \/ state_reg = "IDLE" /\ active_cmd_reg = <<>>
     \/ /\ state_reg \in {"VALIDATE", "RUN", "DONE", "ERROR"}
        /\ \E a \in Submission : active_cmd_reg = <<a>>

-----------------------------------------------------------------------------
(* Tags.                                                                   *)

\* There are at least two tags, so half of them are some.
LEMMA Halves == TAGS \in Nat \ {0, 1} /\ TAGS \div 2 \in 1 .. TAGS - 1 /\ Half \in 1 .. TAGS - 1
<1>1. TAGS \in Nat \ {0, 1}
  BY SizeAssumption
<1>2. TAGS \div 2 \in 1 .. TAGS - 1
  BY <1>1
<1> QED
  BY <1>1, <1>2 DEF Half

\* The distance of two tags, without the remainder.
LEMMA AheadIs ==
  ASSUME NEW t \in Tag, NEW d \in Tag
  PROVE  /\ ahead(t, d) = IF t > d THEN t - d ELSE t - d + TAGS
         /\ ahead(t, d) \in 1 .. TAGS
<1>1. PICK N \in Nat \ {0, 1} : N = TAGS
  BY Halves
<1>2. t \in 0 .. N - 1 /\ d \in 0 .. N - 1
  BY <1>1 DEF Tag
<1>3. t # d => (t + N - d) % N = IF t > d THEN t - d ELSE t - d + N
  BY <1>2
<1>4. ahead(t, d) = IF t = d THEN N ELSE (t + N - d) % N
  BY <1>1 DEF ahead
<1>5. ahead(t, d) = IF t > d THEN t - d ELSE t - d + N
  BY <1>2, <1>3, <1>4
<1> QED
  BY <1>1, <1>2, <1>5

\* A tag is still to come when it is at most half of the tags ahead.
LEMMA BehindIs ==
  ASSUME NEW t \in Tag, NEW d \in Tag
  PROVE  behind(d, t) <=> ahead(t, d) <= Half
<1>1. PICK N \in Nat \ {0, 1} : N = TAGS
  BY Halves
<1>2. PICK m \in 1 .. N - 1 : m = TAGS \div 2
  BY <1>1, Halves
<1>3. t \in 0 .. N - 1 /\ d \in 0 .. N - 1
  BY <1>1 DEF Tag
<1>4. (d + N - t) % N = IF d >= t THEN d - t ELSE d - t + N
  BY <1>3
<1>5. ahead(t, d) = IF t > d THEN t - d ELSE t - d + N
  BY <1>1, AheadIs
<1>6. Half = N - m
  BY <1>1, <1>2 DEF Half
<1>7. behind(d, t) <=> (d + N - t) % N >= m
  BY <1>1, <1>2, Zenon DEF behind
<1>8. PICK x \in Nat : x = (d + N - t) % N
  BY <1>3, <1>4
<1> QED
  BY <1>1, <1>3, <1>4, <1>5, <1>6, <1>7, <1>8

\* The tag after one that is still to come is one further ahead.
LEMMA NextIsAhead ==
  ASSUME NEW t \in Tag, NEW d \in Tag, ahead(t, d) <= Half
  PROVE  (t + 1) % TAGS \in Tag /\ ahead((t + 1) % TAGS, d) = ahead(t, d) + 1
<1>1. PICK N \in Nat \ {0, 1} : N = TAGS
  BY Halves
<1>2. PICK h \in 1 .. N - 1 : h = Half
  BY <1>1, Halves
<1>3. t \in 0 .. N - 1 /\ d \in 0 .. N - 1
  BY <1>1 DEF Tag
<1>4. PICK u \in 0 .. N - 1 : u = (t + 1) % N
  BY <1>3
<1>5. u = IF t + 1 = N THEN 0 ELSE t + 1
  BY <1>3, <1>4
<1>6. u \in Tag
  BY <1>1 DEF Tag
<1>7. ahead(t, d) = IF t > d THEN t - d ELSE t - d + N
  BY <1>1, AheadIs
<1>8. ahead(u, d) = IF u > d THEN u - d ELSE u - d + N
  BY <1>1, <1>6, AheadIs
<1>9. ahead(u, d) = ahead(t, d) + 1
  BY <1>3, <1>5, <1>7, <1>8, <1>2
<1> QED
  BY <1>1, <1>4, <1>6, <1>9

\* Counting from a tag further on.
LEMMA AheadFrom ==
  ASSUME NEW t \in Tag, NEW d \in Tag, NEW h \in Tag, ahead(h, d) < ahead(t, d)
  PROVE  ahead(t, h) = ahead(t, d) - ahead(h, d)
<1>1. PICK N \in Nat \ {0, 1} : N = TAGS
  BY Halves
<1>2. t \in 0 .. N - 1 /\ d \in 0 .. N - 1 /\ h \in 0 .. N - 1
  BY <1>1 DEF Tag
<1>3. ahead(t, d) = IF t > d THEN t - d ELSE t - d + N
  BY <1>1, AheadIs
<1>4. ahead(h, d) = IF h > d THEN h - d ELSE h - d + N
  BY <1>1, AheadIs
<1>5. ahead(t, h) = IF t > h THEN t - h ELSE t - h + N
  BY <1>1, AheadIs
<1> QED
  BY <1>2, <1>3, <1>4, <1>5

-----------------------------------------------------------------------------
(* Commands come and are reported.                                         *)

\* A submit uses up the next tag, whether the command is taken or dropped.
LEMMA Submitted ==
  ASSUME NEW s, NEW d, NEW n, InOrder(s, d, n), NEW c \in Commands, behind(d, n)
  PROVE  /\ InOrder(s, d, (n + 1) % TAGS)
         /\ InOrder(Append(s, [what |-> c, tag |-> n]), d, (n + 1) % TAGS)
<1>1. s \in Seq(Submission) /\ d \in Tag /\ n \in Tag
  BY DEF InOrder
<1>2. PICK u \in Tag : u = (n + 1) % TAGS /\ ahead(u, d) = ahead(n, d) + 1
  <2>1. ahead(n, d) <= Half
    BY <1>1, BehindIs
  <2> QED
    BY <1>1, <2>1, NextIsAhead
<1>3. PICK a \in 1 .. TAGS : a = ahead(n, d) /\ a <= Half
  BY <1>1, BehindIs, AheadIs
<1>4. PICK k \in Nat : k = Len(s)
  BY <1>1, LenProperties
<1>5. ASSUME NEW i \in 1 .. k
      PROVE  /\ s[i].tag \in Tag /\ ahead(s[i].tag, d) < a /\ ahead(s[i].tag, d) \in Nat
             /\ \A j \in 1 .. i - 1 : ahead(s[j].tag, d) < ahead(s[i].tag, d)
  <2>1. s[i] \in Submission
    BY <1>1, <1>4, ElementOfSeq
  <2>2. s[i].tag \in Tag
    BY <2>1 DEF Submission
  <2>3. ahead(s[i].tag, d) \in 1 .. TAGS
    BY <1>1, <2>2, AheadIs
  <2> QED
    BY <1>3, <1>4, <2>2, <2>3, Halves DEF InOrder
<1>6. ahead(u, d) = a + 1 /\ a + 1 <= Half + 1 /\ a \in Nat
  BY <1>2, <1>3, Halves
<1>7. InOrder(s, d, u)
  <2>1. ASSUME NEW i \in 1 .. k
        PROVE  /\ ahead(s[i].tag, d) < ahead(u, d)
               /\ \A j \in 1 .. i - 1 : ahead(s[j].tag, d) < ahead(s[i].tag, d)
    <3>1. PICK x \in Nat : x = ahead(s[i].tag, d)
      BY <1>5
    <3>2. x < a + 1
      BY <1>5, <1>6, <3>1
    <3> QED
      BY <1>5, <1>6, <3>1, <3>2
  <2> QED
    BY <1>1, <1>4, <1>6, <2>1 DEF InOrder
<1>8. PICK e \in Submission : e = [what |-> c, tag |-> n] /\ e.tag = n
  <2>1. [what |-> c, tag |-> n] \in Submission
    BY <1>1 DEF Submission
  <2> QED
    BY <2>1
<1>9. PICK r : r = Append(s, e)
  OBVIOUS
<1>10. /\ r \in Seq(Submission) /\ Len(r) = k + 1
       /\ \A i \in 1 .. k : r[i] = s[i]
       /\ r[k + 1] = e
  BY <1>1, <1>4, <1>8, <1>9, AppendProperties
<1>11. ASSUME NEW i \in 1 .. k + 1
       PROVE  /\ ahead(r[i].tag, d) < ahead(u, d)
              /\ \A j \in 1 .. i - 1 : ahead(r[j].tag, d) < ahead(r[i].tag, d)
  <2>1. CASE i \in 1 .. k
    <3>1. r[i] = s[i] /\ \A j \in 1 .. i - 1 : r[j] = s[j]
      BY <1>10, <2>1
    <3>2. ahead(s[i].tag, d) < ahead(u, d)
      BY <1>4, <1>7, <2>1, Zenon DEF InOrder
    <3>3. \A j \in 1 .. i - 1 : ahead(s[j].tag, d) < ahead(s[i].tag, d)
      BY <1>5, <2>1
    <3> QED
      BY <3>1, <3>2, <3>3
  <2>2. CASE i = k + 1
    <3>1. ahead(r[i].tag, d) = a
      BY <1>3, <1>8, <1>10, <2>2
    <3>2. ASSUME NEW j \in 1 .. k PROVE ahead(r[j].tag, d) < a
      BY <1>5, <1>10
    <3>3. i - 1 = k /\ a < a + 1
      BY <1>6, <2>2
    <3> QED
      BY <1>6, <3>1, <3>2, <3>3
  <2> QED
    BY <2>1, <2>2
<1>12. InOrder(r, d, u)
  BY <1>1, <1>6, <1>10, <1>11 DEF InOrder
<1> QED
  BY <1>2, <1>7, <1>8, <1>9, <1>12

\* The oldest command is reported: its tag is the one to count from.
LEMMA Reported ==
  ASSUME NEW s, NEW d, NEW n, InOrder(s, d, n), s # <<>>
  PROVE  InOrder(Tail(s), s[1].tag, n)
<1>1. s \in Seq(Submission) /\ d \in Tag /\ n \in Tag
  BY DEF InOrder
<1>2. PICK k \in Nat : k = Len(s)
  BY <1>1, LenProperties
<1>3. 1 \in 1 .. k
  BY <1>1, <1>2, EmptySeq
<1>4. PICK t : t = Tail(s)
  OBVIOUS
<1>5. /\ t \in Seq(Submission) /\ Len(t) = k - 1
      /\ \A i \in 1 .. k - 1 : t[i] = s[i + 1]
  BY <1>1, <1>2, <1>4, HeadTailProperties
<1>6. ASSUME NEW i \in 1 .. k
      PROVE  s[i].tag \in Tag /\ ahead(s[i].tag, d) \in 1 .. TAGS
  <2>1. s[i] \in Submission
    BY <1>1, <1>2, ElementOfSeq
  <2>2. s[i].tag \in Tag
    BY <2>1 DEF Submission
  <2> QED
    BY <1>1, <2>2, AheadIs
<1>7. ASSUME NEW i \in 1 .. k
      PROVE  /\ ahead(s[i].tag, d) < ahead(n, d)
             /\ \A j \in 1 .. i - 1 : ahead(s[j].tag, d) < ahead(s[i].tag, d)
  BY <1>2 DEF InOrder
<1>8. PICK h \in Tag, b \in 1 .. TAGS : h = s[1].tag /\ b = ahead(h, d)
  BY <1>3, <1>6
<1>9. PICK a \in 1 .. TAGS : a = ahead(n, d) /\ a <= Half + 1 /\ b < a
  BY <1>1, <1>3, <1>7, <1>8, AheadIs DEF InOrder
<1>10. ahead(n, h) = a - b
  BY <1>1, <1>8, <1>9, AheadFrom
<1>11. ASSUME NEW i \in 1 .. k - 1
       PROVE  ahead(t[i].tag, h) = ahead(s[i + 1].tag, d) - b
  <2>1. i + 1 \in 1 .. k /\ 1 \in 1 .. (i + 1) - 1 /\ t[i] = s[i + 1]
    BY <1>5
  <2>2. s[i + 1].tag \in Tag /\ ahead(h, d) < ahead(s[i + 1].tag, d)
    BY <1>6, <1>7, <1>8, <2>1
  <2> QED
    BY <1>1, <1>8, <2>1, <2>2, AheadFrom
<1>12. ASSUME NEW i \in 1 .. k - 1
       PROVE  /\ ahead(t[i].tag, h) < ahead(n, h)
              /\ \A j \in 1 .. i - 1 : ahead(t[j].tag, h) < ahead(t[i].tag, h)
  <2>1. i + 1 \in 1 .. k
    BY <1>5
  <2>2. PICK x \in Nat : x = ahead(s[i + 1].tag, d) /\ x < a
    BY <1>6, <1>7, <1>9, <2>1
  <2>3. ahead(t[i].tag, h) = x - b
    BY <1>11, <2>2
  <2>4. ahead(t[i].tag, h) < ahead(n, h)
    BY <1>10, <2>2, <2>3, Halves
  <2>5. ASSUME NEW j \in 1 .. i - 1 PROVE ahead(t[j].tag, h) < ahead(t[i].tag, h)
    <3>1. j \in 1 .. k - 1 /\ j + 1 \in 1 .. k /\ j + 1 \in 1 .. (i + 1) - 1
      BY <2>1
    <3>2. PICK y \in Nat : y = ahead(s[j + 1].tag, d) /\ y < x
      BY <1>6, <1>7, <2>1, <2>2, <3>1
    <3>3. ahead(t[j].tag, h) = y - b
      BY <1>11, <3>1, <3>2
    <3> QED
      BY <2>2, <2>3, <3>2, <3>3, Halves
  <2> QED
    BY <2>4, <2>5
<1>13. a - b <= Half + 1
  BY <1>9, Halves
<1>14. InOrder(t, h, n)
  BY <1>1, <1>5, <1>10, <1>12, <1>13 DEF InOrder
<1> QED
  BY <1>4, <1>8, <1>14

\* Who waits for the tag of a command in the engine waits on.
LEMMA OrderWaits == IInv => WaitIsRight
<1> SUFFICES ASSUME IInv, NEW i \in DOMAIN live
             PROVE  behind(mmio_done_tag_reg, live[i].tag)
  BY DEF WaitIsRight
<1>1. /\ live \in Seq(Submission)
      /\ mmio_done_tag_reg \in Tag /\ next_tag \in Tag
  BY DEF IInv, InOrder
<1>2. i \in 1 .. Len(live)
  BY <1>1, LenProperties
<1>3. live[i] \in Submission
  BY <1>1, <1>2, ElementOfSeq
<1>4. PICK t \in Tag : t = live[i].tag
  BY <1>3 DEF Submission
<1>5. PICK x \in 1 .. TAGS, a \in 1 .. TAGS :
        x = ahead(t, mmio_done_tag_reg) /\ a = ahead(next_tag, mmio_done_tag_reg)
  BY <1>1, AheadIs
<1>6. x < a /\ a <= Half + 1
  BY <1>2, <1>4, <1>5, Zenon DEF IInv, InOrder
<1>7. x <= Half
  BY <1>6, Halves
<1> QED
  BY <1>1, <1>4, <1>5, <1>7, BehindIs

-----------------------------------------------------------------------------
(* The engine.                                                             *)

\* The first element of a sequence, and what follows it.
LEMMA FirstAndRest ==
  ASSUME NEW S, NEW f \in Seq(S)
  PROVE  /\ f # <<>> => <<Head(f)>> \o Tail(f) = f /\ Head(f) \in S /\ Tail(f) \in Seq(S)
         /\ \A a \in S : /\ <<a>> \o f # <<>> /\ Tail(<<a>> \o f) = f
                         /\ (<<a>> \o f)[1] = a /\ <<a>> \o f \in Seq(S)
<1>1. ASSUME NEW a \in S
      PROVE  /\ <<a>> \o f # <<>> /\ Tail(<<a>> \o f) = f
             /\ (<<a>> \o f)[1] = a /\ <<a>> \o f \in Seq(S)
  <2>1. <<a>> \in Seq(S) /\ Len(<<a>>) = 1 /\ <<a>> # <<>>
    OBVIOUS
  <2>2. PICK s \in Seq(S) : s = <<a>> \o f
    BY <2>1, ConcatProperties
  <2>3. PICK k \in Nat : k = Len(f)
    BY LenProperties
  <2>4. /\ Len(s) = k + 1
        /\ \A i \in 1 .. k + 1 : s[i] = IF i <= 1 THEN <<a>>[i] ELSE f[i - 1]
    BY <2>1, <2>2, <2>3, ConcatProperties
  <2>5. s[1] = a /\ s # <<>>
    BY <2>3, <2>4, EmptySeq
  <2>6. /\ Tail(s) \in Seq(S) /\ Len(Tail(s)) = k
        /\ \A i \in 1 .. k : Tail(s)[i] = s[i + 1]
    BY <2>3, <2>4, <2>5, HeadTailProperties
  <2>7. ASSUME NEW i \in 1 .. k PROVE Tail(s)[i] = f[i]
    BY <2>4, <2>6
  <2>8. Tail(s) = f
    BY <2>3, <2>6, <2>7, SeqEqual
  <2> QED
    BY <2>2, <2>5, <2>8
<1>2. ASSUME f # <<>>
      PROVE  <<Head(f)>> \o Tail(f) = f /\ Head(f) \in S /\ Tail(f) \in Seq(S)
  <2>1. /\ Head(f) \in S /\ Tail(f) \in Seq(S) /\ Len(Tail(f)) = Len(f) - 1
        /\ \A i \in 1 .. Len(Tail(f)) : Tail(f)[i] = f[i + 1]
    BY <1>2, HeadTailProperties
  <2>2. PICK a \in S, t \in Seq(S) : a = Head(f) /\ t = Tail(f)
    BY <2>1
  <2>3. PICK k \in Nat : k = Len(f)
    BY LenProperties
  <2>4. Len(t) = k - 1 /\ k > 0 /\ \A i \in 1 .. k - 1 : t[i] = f[i + 1]
    BY <1>2, <2>1, <2>2, <2>3, EmptySeq
  <2>5. <<a>> \in Seq(S) /\ Len(<<a>>) = 1
    OBVIOUS
  <2>6. PICK s \in Seq(S) : s = <<a>> \o t
    BY <2>5, ConcatProperties
  <2>7. /\ Len(s) = k
        /\ \A i \in 1 .. k : s[i] = IF i <= 1 THEN <<a>>[i] ELSE t[i - 1]
    BY <2>4, <2>5, <2>6, ConcatProperties
  <2>8. ASSUME NEW i \in 1 .. k PROVE s[i] = f[i]
    BY <2>2, <2>4, <2>7
  <2>9. s = f
    BY <2>3, <2>7, <2>8, SeqEqual
  <2> QED
    BY <2>1, <2>2, <2>6, <2>9
<1> QED
  BY <1>1, <1>2

\* After a submit the commands and the command that may have come are in order.
LEMMA SubmitStep ==
  ASSUME NEW submitted \in Submits, NextTag(submitted),
         NEW active0 \in Seq(Submission), cmd_fifo_reg \in Seq(Submission),
         InOrder(active0 \o cmd_fifo_reg, mmio_done_tag_reg, next_tag)
  PROVE  /\ fifo_with(submitted) \in Seq(Submission)
         /\ InOrder(active0 \o fifo_with(submitted), mmio_done_tag_reg, next_tag')
<1> DEFINE q == cmd_fifo_reg
           f == fifo_with(submitted)
<1>1. next_tag \in Tag
  BY DEF InOrder
<1>2. CASE submitted = <<>>
  <2>1. f = q
    BY <1>2, ConcatEmptySeq DEF fifo_with
  <2>2. next_tag' = next_tag
    BY <1>2 DEF NextTag
  <2> QED
    BY <2>1, <2>2
<1>3. ASSUME NEW c \in Commands, submitted = <<[what |-> c, tag |-> next_tag]>>,
             behind(mmio_done_tag_reg, next_tag)
      PROVE  f \in Seq(Submission) /\ InOrder(active0 \o f, mmio_done_tag_reg, next_tag')
  <2>1. next_tag' = (next_tag + 1) % TAGS
    BY <1>3 DEF NextTag
  <2>2. /\ InOrder(active0 \o q, mmio_done_tag_reg, next_tag')
        /\ InOrder(Append(active0 \o q, [what |-> c, tag |-> next_tag]), mmio_done_tag_reg, next_tag')
    BY <1>3, <2>1, Submitted
  <2>3. CASE queue_full
    BY <2>2, <2>3 DEF fifo_with
  <2>4. CASE ~queue_full
    <3>1. PICK e \in Submission : e = [what |-> c, tag |-> next_tag]
      BY <1>1 DEF Submission
    <3>2. <<e>> \in Seq(Submission)
      OBVIOUS
    <3>3. f = q \o <<e>>
      BY <1>3, <2>4, <3>1 DEF fifo_with
    <3>4. active0 \o q \in Seq(Submission) /\ q \o <<e>> \in Seq(Submission)
      BY <3>2, ConcatProperties
    <3>5. Append(active0 \o q, e) = (active0 \o q) \o <<e>>
      BY <3>4, AppendIsConcat
    <3>6. (active0 \o q) \o <<e>> = active0 \o (q \o <<e>>)
      BY <3>2, ConcatAssociative
    <3> QED
      BY <2>2, <3>1, <3>3, <3>4, <3>5, <3>6, Zenon
  <2> QED
    BY <2>3, <2>4
<1>4. submitted = <<>> \/ \E c \in Commands : /\ submitted = <<[what |-> c, tag |-> next_tag]>>
                                             /\ behind(mmio_done_tag_reg, next_tag)
  BY DEF Submits
<1> QED
  BY <1>2, <1>3, <1>4

\* At reset nothing is in the engine and the next tag is one ahead.
LEMMA InitIInv == Init => IInv
<1> SUFFICES ASSUME Init PROVE IInv
  OBVIOUS
<1>1. live = <<>> /\ mmio_done_tag_reg = 0 /\ next_tag = 1
  BY DEF Init, live
<1>2. 0 \in Tag /\ 1 \in Tag
  BY Halves DEF Tag
<1>3. ahead(1, 0) = 1
  BY <1>2, AheadIs
<1>4. 1 <= Half + 1
  BY Halves
<1>5. InOrder(<<>>, 0, 1)
  BY <1>2, <1>3, <1>4 DEF InOrder
<1> QED
  BY <1>1, <1>5 DEF IInv, Init

\* An edge keeps the invariant.
LEMMA EdgeIInv == IInv /\ Next => IInv'
<1> SUFFICES ASSUME IInv, Next PROVE IInv'
  OBVIOUS
<1>1. PICK submitted \in Submits, h \in Handshakes : Clock(submitted, h)
  BY DEF Next
<1>2. NextTag(submitted)
  BY <1>1 DEF Clock
<1>3. PICK f : f = fifo_with(submitted)
  OBVIOUS
<1>4. active_cmd_reg \in Seq(Submission) /\ cmd_fifo_reg \in Seq(Submission)
  <2>1. active_cmd_reg = <<>> \/ \E a \in Submission : active_cmd_reg = <<a>>
    BY DEF IInv
  <2>2. active_cmd_reg \in Seq(Submission)
    <3>1. CASE active_cmd_reg = <<>>
      BY <3>1, EmptySeq
    <3>2. ASSUME NEW a \in Submission, active_cmd_reg = <<a>> PROVE active_cmd_reg \in Seq(Submission)
      BY <3>2
    <3> QED
      BY <2>1, <3>1, <3>2
  <2> QED
    BY <2>2 DEF IInv
<1>5. f \in Seq(Submission) /\ InOrder(active_cmd_reg \o f, mmio_done_tag_reg, next_tag')
  BY <1>2, <1>3, <1>4, SubmitStep DEF IInv, live
<1>6. CASE IDLE(submitted)
  <2>1. state_reg = "IDLE" /\ active_cmd_reg = <<>> /\ mmio_done_tag_reg' = mmio_done_tag_reg
    BY <1>6 DEF IDLE, IInv
  <2>2. InOrder(f, mmio_done_tag_reg, next_tag')
    <3>1. active_cmd_reg \o f = f
      BY <1>5, <2>1, ConcatEmptySeq
    <3> QED
      BY <1>5, <3>1
  <2>3. CASE f = <<>>
    <3>1. /\ state_reg' = state_reg /\ active_cmd_reg' = active_cmd_reg
          /\ cmd_fifo_reg' = cmd_fifo_reg
      BY <1>3, <1>6, <2>3 DEF IDLE
    <3>2. cmd_fifo_reg = f
      <4>1. submitted = <<>> \/ \E e \in Submission : submitted = <<e>>
        BY DEF Submits, Submission, IInv, InOrder
      <4>2. submitted \in Seq(Submission)
        <5>1. CASE submitted = <<>>
          BY <5>1, EmptySeq
        <5>2. ASSUME NEW e \in Submission, submitted = <<e>> PROVE submitted \in Seq(Submission)
          BY <5>2
        <5> QED
          BY <4>1, <5>1, <5>2
      <4> QED
        BY <1>3, <1>4, <2>3, <4>2, ConcatEqualIffEmpty, ZenonT(60) DEF fifo_with
    <3>3. live' = f
      BY <1>5, <2>1, <3>1, <3>2, ConcatEmptySeq DEF live
    <3> QED
      BY <1>4, <2>1, <2>2, <3>1, <3>3 DEF IInv
  <2>4. CASE f # <<>>
    <3>1. /\ active_cmd_reg' = <<Head(f)>> /\ cmd_fifo_reg' = Tail(f) /\ state_reg' = "VALIDATE"
      BY <1>3, <1>6, <2>4 DEF IDLE
    <3>2. live' = f /\ Head(f) \in Submission /\ Tail(f) \in Seq(Submission)
      BY <1>5, <2>4, <3>1, FirstAndRest DEF live
    <3> QED
      BY <2>1, <2>2, <3>1, <3>2 DEF IInv
  <2> QED
    BY <2>3, <2>4
<1>7. CASE VALIDATE(submitted) \/ RUN(submitted, h)
  <2>1. /\ state_reg \in {"VALIDATE", "RUN"} /\ state_reg' \in {"RUN", "ERROR", "DONE"}
        /\ active_cmd_reg' = active_cmd_reg /\ mmio_done_tag_reg' = mmio_done_tag_reg
        /\ cmd_fifo_reg' = f
    BY <1>3, <1>7 DEF VALIDATE, RUN, Run
  <2>2. live' = active_cmd_reg \o f
    BY <2>1 DEF live
  <2>3. \E a \in Submission : active_cmd_reg' = <<a>>
    BY <2>1 DEF IInv
  <2> QED
    BY <1>5, <2>1, <2>2, <2>3 DEF IInv
<1>8. CASE Report(submitted)
  <2>1. /\ state_reg \in {"DONE", "ERROR"} /\ state_reg' = "IDLE" /\ active_cmd_reg' = <<>>
        /\ mmio_done_tag_reg' = Head(active_cmd_reg).tag /\ cmd_fifo_reg' = f
    BY <1>3, <1>8 DEF Report, reported_tag
  <2>2. PICK a \in Submission : active_cmd_reg = <<a>>
    BY <2>1 DEF IInv
  <2>3. mmio_done_tag_reg' = a.tag
    BY <2>1, <2>2
  <2>4. /\ <<a>> \o f # <<>> /\ Tail(<<a>> \o f) = f /\ (<<a>> \o f)[1] = a
    BY <1>5, FirstAndRest
  <2>5. InOrder(f, a.tag, next_tag')
    <3>1. InOrder(<<a>> \o f, mmio_done_tag_reg, next_tag')
      BY <1>5, <2>2
    <3>2. InOrder(Tail(<<a>> \o f), (<<a>> \o f)[1].tag, next_tag')
      BY <2>4, <3>1, Reported
    <3> QED
      BY <2>4, <3>2
  <2>6. live' = f
    BY <1>5, <2>1, ConcatEmptySeq DEF live
  <2> QED
    BY <1>5, <2>1, <2>3, <2>5, <2>6 DEF IInv
<1> QED
  BY <1>1, <1>6, <1>7, <1>8 DEF Clock

\* The invariant holds in every state.
THEOREM TagsInOrder == Spec => []IInv
<1>1. IInv /\ UNCHANGED vars => IInv'
  BY DEF IInv, InOrder, live, vars
<1> QED
  BY <1>1, InitIInv, EdgeIInv, PTL DEF Spec

\* What waits for a tag does not go on before its command is reported, whatever the
\* number of tags and however often they have been used before.
THEOREM Waiting == Spec => []WaitIsRight
BY TagsInOrder, OrderWaits, PTL

-----------------------------------------------------------------------------
(* The invariant of the copy.                                              *)

\* A burst: its first beat and how many it has.
Burst == [first : Nat \ {0}, beats : Nat \ {0}]

\* What a write channel carries: the data and whether it ends a burst.
Datum == [data : Nat, last : BOOLEAN]

\* The beat after a burst.
over(burst) == burst.first + burst.beats

\* Bursts in order, one after the other, from a beat up to another, not with it.
Covers(bursts, from, to) ==
  /\ bursts \in Seq(Burst)
  /\ \A i \in 1 .. Len(bursts) : from <= bursts[i].first /\ over(bursts[i]) <= to
  /\ \A i \in 1 .. Len(bursts), j \in 1 .. Len(bursts) :
       /\ i < j => over(bursts[i]) <= bursts[j].first
       /\ j = i + 1 => bursts[j].first = over(bursts[i])
  /\ IF bursts = <<>> THEN from = to
     ELSE bursts[1].first = from /\ over(bursts[Len(bursts)]) = to

\* The data of the beats after the first n of a command.
Follow(data, n) == data \in Seq(Nat) /\ \A i \in 1 .. Len(data) : data[i] = n + i

\* A stage of an address generator is empty, or holds the address of beat m.
stage(n, m) == IF m = n THEN 0 ELSE m

\* An address generator of which n addresses were taken: the next ones are in its
\* FIFO, the ones after them in its stages, and no stage is empty in between.
Generates(agu, n) ==
  /\ agu.fifo \in Seq(Nat) /\ \A i \in 1 .. Len(agu.fifo) : agu.fifo[i] = n + i
  /\ \E d \in Nat, c \in Nat, b \in Nat :
       /\ d = n + Len(agu.fifo) /\ c \in {d, d + 1} /\ b \in {c, c + 1}
       /\ agu.queued \in {b, b + 1}
       /\ agu.pipe = <<stage(b, agu.queued), stage(c, b), stage(d, c)>>
  /\ agu.queued <= active.beats
  /\ agu.queued = 0 \/ agu.pipe[1] # 0 \/ agu.queued = active.beats

Agu == [queued : Nat, pipe : Nat \X Nat \X Nat, fifo : Seq(Nat)]

Src == [agu : Agu, issued : Nat, skip : Nat, ar : Seq(Burst), txn : Seq(Nat),
        inflight : Nat, resp : Seq(Nat), r_ready : BOOLEAN]

Dst == [agu : Agu, issued : Nat, retired : Nat, skip : Nat, aw : Seq(Burst),
        w : Seq(Datum), w_beats_left : Nat, txn : Seq(Nat), b_ready : BOOLEAN]

\* What an address generator gives next: the beats of the bursts issued before are
\* dropped as they come.
Addressed(side) == side.skip <= side.issued /\ Generates(side.agu, side.issued - side.skip)

\* The read side: after the first n beats come those in the buffer, those in resp, and
\* those of the bursts in flight.
Reads(s, buf, bursts, n) ==
  /\ s \in Src /\ n \in Nat
  /\ Follow(buf, n) /\ Follow(s.resp, n + Len(buf))
  /\ Covers(bursts, n + Len(buf) + Len(s.resp) + 1, s.issued + 1)
  /\ s.inflight + n + Len(buf) + Len(s.resp) = s.issued
  /\ Len(s.txn) = Len(bursts) /\ \A i \in 1 .. Len(bursts) : s.txn[i] = bursts[i].beats
  /\ ~direct_load_pad_active => Addressed(s)

\* One of some bursts ends before a beat.
Ends(bursts, beat) == \E j \in 1 .. Len(bursts) : over(bursts[j]) = beat

\* The write side: the first n beats are in the destination, the data sent are of the
\* beats after them, and of the last burst sent the rest is in the buffer.
Writes(d, buffered, bursts, data, answers, n) ==
  /\ d \in Dst /\ n \in Nat /\ answers \in Nat
  /\ d.issued <= active.beats /\ Covers(bursts, n + 1, d.issued + 1)
  /\ data \in Seq(Datum)
  /\ \A i \in 1 .. Len(data) :
       /\ data[i].data = n + i
       /\ data[i].last <=> Ends(bursts, n + i + 1)
  /\ Len(data) + d.w_beats_left + n = d.issued /\ d.w_beats_left <= buffered
  /\ bursts # <<>> => bursts[Len(bursts)].first <= n + Len(data)
  /\ Len(d.txn) = answers + Len(bursts)
  /\ Addressed(d)

\* The first n beats are in the destination, and no others.
Landed(n) == n \in Nat /\ landed = {<<b, b>> : b \in 1 .. n}

\* What the two sides, the buffer and the memories hold of the beats after the first n.
Going(s, d, buf, m, n) ==
  /\ {m.rd, m.aw} \subseteq Seq(Burst) /\ m.w \in Seq(Datum)
  /\ Reads(s, buf, m.rd \o s.ar, n + (Len(m.w) + Len(d.w)))
  /\ Writes(d, Len(buf), m.aw \o d.aw, m.w \o d.w, m.b, n)

\* The first beats are in the destination and the others on their way to it.
Running == \E n \in Nat : Landed(n) /\ Going(src, dst, buffer, memory, n)

\* The commands that have beats, the active one of a run among them.
Runnable == {c \in Commands : c.beats # 0}

\* Between runs nothing is on its way, and what is written is of the active command.
CopyInv ==
  /\ Len(cmd_fifo_reg) <= kDmaCmdFifoDepth
  /\ state_reg \in {"IDLE", "VALIDATE", "ERROR"} => memory = Idle /\ Landed(0)
  /\ state_reg = "ERROR" => ~accepted
  /\ state_reg = "DONE" => memory = Idle /\ Landed(active.beats)
  /\ state_reg = "RUN" => accepted /\ Running

-----------------------------------------------------------------------------
(* Bursts.                                                                 *)

\* A burst ends after it begins.
LEMMA BurstIs ==
  ASSUME NEW b \in Burst
  PROVE  /\ b.first \in Nat \ {0} /\ b.beats \in Nat \ {0}
         /\ over(b) = b.first + b.beats /\ over(b) \in Nat /\ over(b) > b.first
BY DEF Burst, over

\* Bursts that cover no beats are none, and others end after they begin.
LEMMA CoversSome ==
  ASSUME NEW s, NEW f \in Nat, NEW t \in Nat, Covers(s, f, t)
  PROVE  /\ s = <<>> <=> f = t
         /\ f <= t
         /\ s # <<>> => s[1] \in Burst /\ s[1].first = f /\ over(s[1]) <= t
<1>1. s \in Seq(Burst)
  BY DEF Covers
<1>2. CASE s = <<>>
  BY <1>2 DEF Covers
<1>3. CASE s # <<>>
  <2>1. Len(s) \in Nat \ {0}
    BY <1>1, <1>3, EmptySeq
  <2>2. 1 \in 1 .. Len(s)
    BY <2>1
  <2>3. s[1] \in Burst
    BY <1>1, <2>2, ElementOfSeq
  <2>4. s[1].first = f /\ over(s[1]) <= t
    BY <1>3, <2>2 DEF Covers
  <2> QED
    BY <1>3, <2>3, <2>4, BurstIs
<1> QED
  BY <1>2, <1>3

\* One burst more.
LEMMA CoversMore ==
  ASSUME NEW s, NEW f \in Nat, NEW t \in Nat \ {0}, Covers(s, f, t), NEW n \in Nat \ {0},
         NEW e, e = [first |-> t, beats |-> n]
  PROVE  Covers(s \o <<e>>, f, t + n)
<1>1. s \in Seq(Burst) /\ f <= t
  BY CoversSome DEF Covers
<1>2. e \in Burst /\ e.first = t /\ over(e) = t + n
  BY DEF Burst, over
<1>3. <<e>> \in Seq(Burst) /\ Len(<<e>>) = 1 /\ <<e>>[1] = e
  BY <1>2
<1>4. PICK r \in Seq(Burst) : r = s \o <<e>>
  BY <1>1, <1>3, ConcatProperties
<1>5. PICK k \in Nat : k = Len(s)
  BY <1>1, LenProperties
<1>6. Len(r) = k + 1 /\ (\A i \in 1 .. k : r[i] = s[i]) /\ r[k + 1] = e /\ r # <<>>
  <2>1. Len(r) = k + 1 /\ \A i \in 1 .. k + 1 : r[i] = IF i <= k THEN s[i] ELSE <<e>>[i - k]
    BY <1>1, <1>3, <1>4, <1>5, ConcatProperties
  <2>2. \A i \in 1 .. k : r[i] = s[i]
    BY <2>1
  <2>3. r[k + 1] = e
    BY <1>3, <2>1
  <2>4. r # <<>>
    BY <2>1, EmptySeq
  <2> QED
    BY <2>1, <2>2, <2>3, <2>4
<1>7. ASSUME NEW i \in 1 .. k
      PROVE  /\ s[i] \in Burst /\ f <= s[i].first /\ over(s[i]) <= t
             /\ \A j \in 1 .. k : /\ i < j => over(s[i]) <= s[j].first
                                  /\ j = i + 1 => s[j].first = over(s[i])
  BY <1>1, <1>5, ElementOfSeq DEF Covers
<1>8. ASSUME NEW i \in 1 .. k + 1 PROVE f <= r[i].first /\ over(r[i]) <= t + n
  <2>1. CASE i \in 1 .. k
    BY <1>6, <1>7, <2>1, BurstIs, SMTT(30)
  <2>2. CASE i = k + 1
    BY <1>1, <1>2, <1>6, <2>2
  <2> QED
    BY <2>1, <2>2
<1>9. ASSUME NEW i \in 1 .. k + 1, NEW j \in 1 .. k + 1
      PROVE  /\ i < j => over(r[i]) <= r[j].first
             /\ j = i + 1 => r[j].first = over(r[i])
  <2>1. CASE i \in 1 .. k /\ j \in 1 .. k
    BY <1>6, <1>7, <2>1
  <2>2. CASE i \in 1 .. k /\ j = k + 1
    <3>1. over(r[i]) <= r[j].first
      BY <1>2, <1>6, <1>7, <2>2
    <3>2. ASSUME j = i + 1 PROVE over(r[i]) = t
      <4>1. i = k /\ s # <<>>
        BY <1>5, <2>2, <3>2, EmptySeq
      <4> QED
        BY <1>5, <1>6, <2>2, <4>1 DEF Covers
    <3> QED
      BY <1>2, <1>6, <2>2, <3>1, <3>2
  <2>3. CASE i = k + 1
    BY <2>3
  <2> QED
    BY <2>1, <2>2, <2>3
<1>10. r[1].first = f /\ over(r[Len(r)]) = t + n
  <2>1. CASE s = <<>>
    <3>1. k = 0 /\ f = t
      BY <1>5, <2>1, CoversSome
    <3> QED
      BY <1>2, <1>6, <3>1
  <2>2. CASE s # <<>>
    <3>1. 1 \in 1 .. k
      BY <1>1, <1>5, <2>2, EmptySeq
    <3> QED
      BY <1>2, <1>6, <2>2, <3>1, CoversSome, ZenonT(60)
  <2> QED
    BY <2>1, <2>2
<1>11. Covers(r, f, t + n)
  BY <1>4, <1>6, <1>8, <1>9, <1>10 DEF Covers
<1> QED
  BY <1>4, <1>11

\* Without the first burst.
LEMMA CoversRest ==
  ASSUME NEW s, NEW f \in Nat, NEW t \in Nat, Covers(s, f, t), s # <<>>
  PROVE  Covers(Tail(s), over(s[1]), t)
<1>1. s \in Seq(Burst) /\ s[1] \in Burst /\ over(s[1]) <= t /\ over(s[1]) \in Nat
  BY CoversSome, BurstIs DEF Covers
<1>2. PICK k \in Nat \ {0} : k = Len(s)
  BY <1>1, EmptySeq
<1>3. PICK r \in Seq(Burst) : /\ r = Tail(s) /\ Len(r) = k - 1
                              /\ \A i \in 1 .. k - 1 : r[i] = s[i + 1]
  BY <1>1, <1>2, HeadTailProperties, ZenonT(60)
<1>4. ASSUME NEW i \in 1 .. k
      PROVE  /\ s[i] \in Burst /\ f <= s[i].first /\ over(s[i]) <= t
             /\ \A j \in 1 .. k : /\ i < j => over(s[i]) <= s[j].first
                                  /\ j = i + 1 => s[j].first = over(s[i])
  BY <1>1, <1>2, ElementOfSeq DEF Covers
<1>5. ASSUME NEW i \in 1 .. k - 1 PROVE over(s[1]) <= r[i].first /\ over(r[i]) <= t
  <2>1. i + 1 \in 1 .. k /\ 1 \in 1 .. k /\ 1 < i + 1 /\ r[i] = s[i + 1]
    BY <1>3
  <2> QED
    BY <1>4, <2>1
<1>6. ASSUME NEW i \in 1 .. k - 1, NEW j \in 1 .. k - 1
      PROVE  /\ i < j => over(r[i]) <= r[j].first
             /\ j = i + 1 => r[j].first = over(r[i])
  <2>1. i + 1 \in 1 .. k /\ j + 1 \in 1 .. k /\ r[i] = s[i + 1] /\ r[j] = s[j + 1]
    BY <1>3
  <2> QED
    BY <1>4, <2>1
<1>7. IF r = <<>> THEN over(s[1]) = t
      ELSE r[1].first = over(s[1]) /\ over(r[Len(r)]) = t
  <2>1. over(s[k]) = t
    BY <1>2 DEF Covers
  <2>2. CASE r = <<>>
    <3>1. Len(r) = 0
      BY <2>2
    <3>2. k = 1
      BY <1>3, <3>1
    <3> QED
      BY <2>1, <2>2, <3>2
  <2>3. CASE r # <<>>
    <3>1. k - 1 \in Nat \ {0}
      BY <1>3, <2>3, EmptySeq
    <3>2. 1 \in 1 .. k /\ 2 \in 1 .. k /\ r[1] = s[2] /\ r[k - 1] = s[k]
      BY <1>3, <3>1
    <3> QED
      BY <1>3, <1>4, <2>1, <2>3, <3>2
  <2> QED
    BY <2>2, <2>3
<1>8. Covers(r, over(s[1]), t)
  BY <1>3, <1>5, <1>6, <1>7 DEF Covers
<1> QED
  BY <1>3, <1>8

\* Without the first beat of the first burst.
LEMMA CoversLess ==
  ASSUME NEW s, NEW f \in Nat, NEW t \in Nat, Covers(s, f, t), s # <<>>, s[1].beats # 1,
         NEW e, e = [first |-> s[1].first + 1, beats |-> s[1].beats - 1]
  PROVE  /\ Covers(<<e>> \o Tail(s), f + 1, t)
         /\ <<e>> \o Tail(s) = [s EXCEPT ![1] = e]
<1>1. s \in Seq(Burst) /\ s[1] \in Burst /\ s[1].first = f /\ over(s[1]) <= t
  BY CoversSome DEF Covers
<1>2. e \in Burst /\ e.first = f + 1 /\ over(e) = over(s[1]) /\ over(e) \in Nat /\ over(e) > f + 1
  <2>1. PICK n \in Nat \ {0} : n = s[1].beats /\ n # 1 /\ f # 0 /\ over(s[1]) = f + n
    BY <1>1, BurstIs
  <2>2. e = [first |-> f + 1, beats |-> n - 1]
    BY <1>1, <2>1
  <2>3. e \in Burst /\ e.first = f + 1 /\ e.beats = n - 1
    BY <2>1, <2>2 DEF Burst
  <2> QED
    BY <2>1, <2>3 DEF over
<1>3. PICK k \in Nat \ {0} : k = Len(s)
  BY <1>1, EmptySeq
<1>4. PICK q \in Seq(Burst) : /\ q = Tail(s) /\ Len(q) = k - 1
                              /\ \A i \in 1 .. k - 1 : q[i] = s[i + 1]
  <2>1. /\ Tail(s) \in Seq(Burst) /\ Len(Tail(s)) = Len(s) - 1
        /\ \A i \in 1 .. Len(Tail(s)) : Tail(s)[i] = s[i + 1]
    BY <1>1, HeadTailProperties
  <2> QED
    BY <1>3, <2>1
<1>5. <<e>> \in Seq(Burst) /\ Len(<<e>>) = 1 /\ <<e>>[1] = e
  BY <1>2
<1>6. PICK r \in Seq(Burst) : /\ r = <<e>> \o q /\ Len(r) = k
                              /\ r[1] = e /\ \A i \in 2 .. k : r[i] = s[i]
  <2>1. PICK r \in Seq(Burst) : r = <<e>> \o q
    BY <1>5, ConcatProperties
  <2>2. /\ Len(r) = k
        /\ \A i \in 1 .. k : r[i] = IF i <= 1 THEN <<e>>[i] ELSE q[i - 1]
    BY <1>4, <1>5, <2>1, ConcatProperties
  <2>3. ASSUME NEW i \in 2 .. k PROVE r[i] = s[i]
    BY <1>4, <2>2
  <2>4. r[1] = e
    BY <1>5, <2>2
  <2> QED
    BY <2>1, <2>2, <2>3, <2>4
<1>7. ASSUME NEW i \in 1 .. k
      PROVE  /\ s[i] \in Burst /\ f <= s[i].first /\ over(s[i]) <= t
             /\ \A j \in 1 .. k : /\ i < j => over(s[i]) <= s[j].first
                                  /\ j = i + 1 => s[j].first = over(s[i])
  BY <1>1, <1>3, ElementOfSeq DEF Covers
<1>8. ASSUME NEW i \in 1 .. k PROVE over(r[i]) = over(s[i])
  BY <1>2, <1>6
<1>9. ASSUME NEW i \in 2 .. k PROVE r[i].first = s[i].first /\ r[i].first > f + 1
  <2>1. 1 \in 1 .. k /\ i \in 1 .. k /\ 1 < i
    OBVIOUS
  <2>2. over(s[1]) <= s[i].first /\ s[i].first \in Nat
    BY <1>7, <2>1, BurstIs
  <2>3. r[i] = s[i]
    BY <1>6
  <2> QED
    BY <1>2, <2>2, <2>3
<1>10. ASSUME NEW i \in 1 .. k PROVE f + 1 <= r[i].first /\ over(r[i]) <= t
  <2>1. over(r[i]) <= t
    BY <1>7, <1>8
  <2>2. CASE i = 1
    BY <1>2, <1>6, <2>1, <2>2
  <2>3. CASE i \in 2 .. k
    <3>1. s[i].first \in Nat
      BY <1>7, BurstIs
    <3> QED
      BY <1>9, <2>1, <2>3, <3>1
  <2> QED
    BY <2>2, <2>3
<1>11. ASSUME NEW i \in 1 .. k, NEW j \in 1 .. k
       PROVE  /\ i < j => over(r[i]) <= r[j].first
              /\ j = i + 1 => r[j].first = over(r[i])
  <2>1. i < j \/ j = i + 1 => j \in 2 .. k
    OBVIOUS
  <2> QED
    BY <1>7, <1>8, <1>9, <2>1
<1>12. over(r[k]) = t /\ r # <<>>
  BY <1>3, <1>6, <1>8, EmptySeq DEF Covers
<1>13. Covers(r, f + 1, t)
  BY <1>2, <1>6, <1>10, <1>11, <1>12 DEF Covers
<1>14. r = [s EXCEPT ![1] = e]
  <2>1. PICK x \in Seq(Burst) : /\ x = [s EXCEPT ![1] = e] /\ Len(x) = k
                                /\ \A j \in 1 .. k : x[j] = IF j = 1 THEN e ELSE s[j]
    <3>1. 1 \in 1 .. Len(s)
      BY <1>3
    <3>2. /\ [s EXCEPT ![1] = e] \in Seq(Burst)
          /\ Len([s EXCEPT ![1] = e]) = Len(s)
          /\ \A j \in 1 .. Len(s) : [s EXCEPT ![1] = e][j] = IF j = 1 THEN e ELSE s[j]
      BY <1>1, <1>2, <3>1, ExceptSeq
    <3> QED
      BY <1>3, <3>2
  <2>2. ASSUME NEW j \in 1 .. k PROVE r[j] = x[j]
    BY <1>6, <2>1
  <2> QED
    BY <1>6, <2>1, <2>2, SeqEqual
<1> QED
  BY <1>4, <1>6, <1>13, <1>14

-----------------------------------------------------------------------------
(* Where a burst ends, and which addresses come next.                      *)

\* The pairs of numbers of which the first is the less.
Below == {p \in Nat \X Nat : p[1] < p[2]}

\* Numbers that are not none have a least.
LEMMA Least ==
  ASSUME NEW S, S \subseteq Nat, S # {}
  PROVE  Min(S) \in S /\ \A x \in S : Min(S) <= x
<1>1. IsWellFoundedOn(Below, Nat)
  BY NatLessThanWellFounded DEF OpToRel, Below
<1>2. PICK m \in S : \A y \in S : ~ (<<y, m>> \in Below)
  BY <1>1, WFMin
<1>3. ASSUME NEW y \in S PROVE m <= y
  <2>1. ~ (y < m)
    BY <1>2 DEF Below
  <2> QED
    BY <2>1
<1> QED
  BY <1>3 DEF Min

\* A burst has beats, and none past the last of its command.
LEMMA BurstBeats ==
  ASSUME active \in Runnable, NEW first \in Nat, first <= active.beats,
         NEW cuts, cuts \subseteq Nat
  PROVE  /\ active.beats \in Nat \ {0}
         /\ burst_beats(first, cuts) \in Nat \ {0}
         /\ first + burst_beats(first, cuts) <= active.beats + 1
<1>1. active.beats \in Nat \ {0}
  BY CommandAssumption DEF Runnable
<1>2. PICK N \in Nat : N = active.beats + 1 /\ first < N
  BY <1>1
<1>3. PICK S : S = {p \in cuts \cup {N} : p > first}
  OBVIOUS
<1>4. S \subseteq Nat /\ N \in S
  BY <1>2, <1>3
<1>5. Min(S) \in S /\ Min(S) <= N
  BY <1>4, Least
<1>6. PICK m \in Nat : m = Min(S) /\ m > first /\ m <= N
  BY <1>3, <1>4, <1>5
<1>7. burst_beats(first, cuts) = m - first
  <2>1. {p \in cuts \cup {active.beats + 1} : p > first} = S
    BY <1>2, <1>3
  <2> QED
    BY <1>6, <2>1, Zenon DEF burst_beats
<1> QED
  BY <1>1, <1>2, <1>6, <1>7

\* The cuts of a command are beats of it.
LEMMA CutsAre ==
  ASSUME active \in Runnable
  PROVE  /\ active.src_cuts \subseteq Nat /\ active.dst_cuts \subseteq Nat
         /\ active.fills # {} => active.pad
BY CommandAssumption DEF Runnable

\* An address generator by its parts.
LEMMA AguOf ==
  ASSUME NEW q \in Nat, NEW p \in Nat \X Nat \X Nat, NEW f \in Seq(Nat),
         NEW x, x = [queued |-> q, pipe |-> p, fifo |-> f]
  PROVE  x \in Agu /\ x.queued = q /\ x.pipe = p /\ x.fifo = f
BY DEF Agu

\* An edge of an address generator.
LEMMA AguStep ==
  ASSUME active \in Runnable, NEW agu \in Agu, NEW n \in Nat, Generates(agu, n)
  PROVE  AguEdge(agu) \in Agu /\ Generates(AguEdge(agu), n) /\ AguEdge(agu).queued # 0
<1>1. PICK B \in Nat \ {0} : B = active.beats
  BY CommandAssumption DEF Runnable
<1>2. PICK q \in Nat, p \in Nat \X Nat \X Nat, f \in Seq(Nat) :
        q = agu.queued /\ p = agu.pipe /\ f = agu.fifo
        /\ agu = [queued |-> q, pipe |-> p, fifo |-> f]
  BY DEF Agu
<1>3. PICK k \in Nat : k = Len(f)
  BY LenProperties
<1>4. PICK d \in Nat, c \in Nat, b \in Nat :
        /\ d = n + k /\ c \in {d, d + 1} /\ b \in {c, c + 1} /\ q \in {b, b + 1}
        /\ p = <<stage(b, q), stage(c, b), stage(d, c)>>
  BY <1>2, <1>3 DEF Generates
<1>5. /\ q <= B /\ (q = 0 \/ p[1] # 0 \/ q = B)
      /\ \A i \in 1 .. k : f[i] = n + i
  BY <1>1, <1>2, <1>3 DEF Generates
<1>6. CASE Len(agu.fifo) >= ADDR_FIFO_DEPTH
  <2>1. AguEdge(agu) = agu
    BY <1>6 DEF AguEdge
  <2>2. k >= 1
    BY <1>2, <1>3, <1>6, SizeAssumption
  <2> QED
    BY <1>2, <1>4, <2>1, <2>2
<1>7. CASE ~(Len(agu.fifo) >= ADDR_FIFO_DEPTH)
  <2> DEFINE u == IF q < B THEN q + 1 ELSE q
             g == f \o (IF p[3] = 0 THEN <<>> ELSE <<p[3]>>)
             x == [queued |-> u, pipe |-> <<stage(q, u), p[1], p[2]>>, fifo |-> g]
  <2>1. stage(q, u) = IF q < B THEN q + 1 ELSE 0
    BY <1>5 DEF stage
  <2>2. AguEdge(agu) = x
    <3>1. (IF q < B THEN q + 1 ELSE 0) = stage(q, u)
      BY <2>1
    <3>2. AguEdge(agu) = [queued |-> IF q < B THEN q + 1 ELSE q,
                          pipe |-> <<IF q < B THEN q + 1 ELSE 0, p[1], p[2]>>,
                          fifo |-> f \o (IF p[3] = 0 THEN <<>> ELSE <<p[3]>>)]
      BY <1>1, <1>2, <1>7 DEF AguEdge
    <3> QED
      BY <3>1, <3>2, Zenon
  <2>3. u \in Nat /\ u \in {q, q + 1} /\ u <= B /\ u # 0 /\ (stage(q, u) # 0 \/ u = B)
    BY <1>5, <2>1
  <2>4. /\ p[1] = stage(b, q) /\ p[2] = stage(c, b) /\ p[3] = stage(d, c)
        /\ p[1] \in Nat /\ p[2] \in Nat /\ p[3] \in Nat
    BY <1>4
  <2>5. /\ g \in Seq(Nat) /\ Len(g) = c - n
        /\ \A i \in 1 .. c - n : g[i] = n + i
    <3>1. CASE c = d
      <4>1. g = f \o <<>>
        BY <2>4, <3>1 DEF stage
      <4>2. g = f
        BY <4>1, ConcatEmptySeq
      <4> QED
        BY <1>3, <1>4, <1>5, <3>1, <4>2
    <3>2. CASE c = d + 1
      <4>1. p[3] = d + 1 /\ d + 1 # 0
        BY <2>4, <3>2 DEF stage
      <4> PICK e \in Nat : e = d + 1
        OBVIOUS
      <4>2. g = Append(f, e)
        <5>1. g = f \o <<e>>
          BY <4>1
        <5> QED
          BY <5>1, AppendIsConcat
      <4> HIDE DEF g
      <4>3. g \in Seq(Nat) /\ Len(g) = k + 1 /\ (\A i \in 1 .. k : g[i] = f[i]) /\ g[k + 1] = e
        BY <1>3, <4>2, AppendProperties
      <4>4. ASSUME NEW i \in 1 .. k + 1 PROVE g[i] = n + i
        BY <1>4, <1>5, <4>3, SMTT(30)
      <4>5. c - n = k + 1
        BY <1>4, <3>2
      <4> QED
        BY <4>3, <4>4, <4>5
    <3> QED
      BY <1>4, <3>1, <3>2
  <2>6. x \in Agu
    <3>1. <<stage(q, u), p[1], p[2]>> \in Nat \X Nat \X Nat
      BY <2>1, <2>4
    <3> HIDE DEF u, g
    <3> QED
      BY <2>3, <2>5, <3>1 DEF Agu
  <2>7. x.queued = u /\ x.pipe = <<stage(q, u), stage(b, q), stage(c, b)>> /\ x.fifo = g
    BY <2>4
  <2>8. x.pipe[1] = stage(q, u)
    BY <2>7
  <2>9. c = n + Len(g)
    BY <1>4, <2>5
  <2>10. Generates(x, n)
    <3> HIDE DEF x, u, g
    <3>1. /\ c = n + Len(x.fifo) /\ b \in {c, c + 1} /\ q \in {b, b + 1}
          /\ x.queued \in {q, q + 1}
          /\ x.pipe = <<stage(q, x.queued), stage(b, q), stage(c, b)>>
      BY <1>4, <2>3, <2>7, <2>9
    <3>2. x.queued <= active.beats /\ (x.pipe[1] # 0 \/ x.queued = active.beats)
      BY <1>1, <2>3, <2>7, <2>8
    <3>3. x.fifo \in Seq(Nat) /\ \A i \in 1 .. Len(x.fifo) : x.fifo[i] = n + i
      BY <2>5, <2>7
    <3> QED
      BY <3>1, <3>2, <3>3, ZenonT(60) DEF Generates
  <2> QED
    BY <2>2, <2>3, <2>6, <2>7, <2>10, Zenon
<1> QED
  BY <1>6, <1>7

\* A sequence without its first elements.
LEMMA Dropped ==
  ASSUME NEW S, NEW f \in Seq(S), NEW m \in Nat, m <= Len(f),
         NEW g, g = SubSeq(f, m + 1, Len(f))
  PROVE  /\ g \in Seq(S) /\ Len(g) = Len(f) - m
         /\ \A i \in 1 .. Len(f) - m : g[i] = f[m + i]
<1>1. PICK k \in Nat : k = Len(f)
  BY LenProperties
<1>2. PICK j \in Nat : j = m + 1
  OBVIOUS
<1>3. \A i \in j .. k : f[i] \in S
  BY <1>1, <1>2, ElementOfSeq
<1>4. g = SubSeq(f, j, k)
  BY <1>1, <1>2
<1>5. /\ SubSeq(f, j, k) \in Seq(S)
      /\ Len(SubSeq(f, j, k)) = IF j <= k THEN k - j + 1 ELSE 0
      /\ \A i \in 1 .. k - j + 1 : SubSeq(f, j, k)[i] = f[j + i - 1]
  <2>1. j \in Int /\ k \in Int
    OBVIOUS
  <2> QED
    BY <1>3, <2>1, SubSeqProperties
<1> QED
  BY <1>1, <1>2, <1>4, <1>5

\* Some of the addresses are taken.
LEMMA AguTake ==
  ASSUME active \in Runnable, NEW agu \in Agu, NEW n \in Nat, Generates(agu, n),
         NEW m \in Nat, m <= Len(agu.fifo), NEW x \in Agu,
         x.queued = agu.queued, x.pipe = agu.pipe,
         x.fifo = SubSeq(agu.fifo, m + 1, Len(agu.fifo))
  PROVE  Generates(x, n + m) /\ Len(x.fifo) = Len(agu.fifo) - m
<1>1. PICK q \in Nat, f \in Seq(Nat), g \in Seq(Nat) :
        q = agu.queued /\ f = agu.fifo /\ g = x.fifo
  BY DEF Agu
<1>2. PICK k \in Nat : k = Len(f) /\ m <= k
  BY <1>1, LenProperties
<1>3. PICK d \in Nat, c \in Nat, b \in Nat :
        /\ d = n + k /\ c \in {d, d + 1} /\ b \in {c, c + 1} /\ q \in {b, b + 1}
        /\ agu.pipe = <<stage(b, q), stage(c, b), stage(d, c)>>
  BY <1>1, <1>2 DEF Generates
<1>4. /\ q <= active.beats /\ (q = 0 \/ agu.pipe[1] # 0 \/ q = active.beats)
      /\ \A i \in 1 .. k : f[i] = n + i
  BY <1>1, <1>2 DEF Generates
<1>5. /\ Len(g) = k - m
      /\ \A i \in 1 .. k - m : g[i] = f[m + i]
  <2>1. g = SubSeq(f, m + 1, Len(f)) /\ m <= Len(f)
    BY <1>1, <1>2
  <2> QED
    BY <1>2, <2>1, Dropped
<1>6. ASSUME NEW i \in 1 .. Len(g) PROVE g[i] = (n + m) + i
  <2>1. i \in 1 .. k - m /\ m + i \in 1 .. k
    BY <1>2, <1>5
  <2>2. g[i] = f[m + i] /\ f[m + i] = n + (m + i)
    BY <1>4, <1>5, <2>1
  <2> QED
    BY <2>1, <2>2
<1>7. d = (n + m) + Len(g)
  BY <1>2, <1>3, <1>5
<1>8. Generates(x, n + m)
  <2>1. /\ d = (n + m) + Len(x.fifo) /\ c \in {d, d + 1} /\ b \in {c, c + 1}
        /\ x.queued \in {b, b + 1}
        /\ x.pipe = <<stage(b, x.queued), stage(c, b), stage(d, c)>>
    BY <1>1, <1>3, <1>7
  <2>2. /\ x.queued <= active.beats
        /\ x.queued = 0 \/ x.pipe[1] # 0 \/ x.queued = active.beats
    BY <1>1, <1>4
  <2>3. x.fifo \in Seq(Nat) /\ \A i \in 1 .. Len(x.fifo) : x.fifo[i] = (n + m) + i
    BY <1>1, <1>6
  <2> QED
    BY <2>1, <2>2, <2>3, Zenon DEF Generates
<1> QED
  BY <1>1, <1>2, <1>5, <1>8

\* The next address is taken.
LEMMA AguNext ==
  ASSUME active \in Runnable, NEW agu \in Agu, NEW n \in Nat, Generates(agu, n), agu.fifo # <<>>,
         NEW x \in Agu, x.queued = agu.queued, x.pipe = agu.pipe, x.fifo = Tail(agu.fifo)
  PROVE  Generates(x, n + 1) /\ Head(agu.fifo) = n + 1
<1>1. agu.fifo \in Seq(Nat)
  BY DEF Agu
<1>2. Len(agu.fifo) \in Nat \ {0}
  BY <1>1, EmptySeq
<1>3. Tail(agu.fifo) = SubSeq(agu.fifo, 1 + 1, Len(agu.fifo))
  BY <1>1, TailIsSubSeq
<1>4. Head(agu.fifo) = n + 1
  <2>1. agu.fifo[1] = n + 1
    BY <1>2 DEF Generates
  <2> QED
    BY <1>1, <2>1
<1>5. 1 <= Len(agu.fifo) /\ 1 \in Nat
  BY <1>2
<1>6. x.fifo = SubSeq(agu.fifo, 1 + 1, Len(agu.fifo))
  BY <1>3, Zenon
<1>7. Generates(x, n + 1)
  BY <1>5, <1>6, AguTake, Zenon
<1> QED
  BY <1>4, <1>7

\* When it is empty it has given all addresses.
LEMMA AguOver ==
  ASSUME active \in Runnable, NEW agu \in Agu, NEW n \in Nat, Generates(agu, n),
         agu.queued # 0, agu.fifo = <<>>, agu.pipe = <<0, 0, 0>>
  PROVE  n = active.beats
<1>1. PICK d \in Nat, c \in Nat, b \in Nat :
        /\ d = n + Len(agu.fifo) /\ c \in {d, d + 1} /\ b \in {c, c + 1}
        /\ agu.queued \in {b, b + 1}
        /\ agu.pipe = <<stage(b, agu.queued), stage(c, b), stage(d, c)>>
  BY DEF Generates
<1>2. stage(b, agu.queued) = 0 /\ stage(c, b) = 0 /\ stage(d, c) = 0
  BY <1>1
<1>3. d = n /\ c = d /\ b = c /\ agu.queued = b
  BY <1>1, <1>2 DEF stage
<1>4. agu.queued = active.beats
  BY DEF Generates
<1> QED
  BY <1>3, <1>4

-----------------------------------------------------------------------------
(* The read side.                                                          *)

\* An address generator with another FIFO.
LEMMA AguFifo ==
  ASSUME NEW a \in Agu, NEW g \in Seq(Nat)
  PROVE  LET x == [a EXCEPT !.fifo = g]
         IN  x \in Agu /\ x.queued = a.queued /\ x.pipe = a.pipe /\ x.fifo = g
BY DEF Agu

\* The read side with another address generator, other addresses to drop or other data.
WithAgu(s, x) == [s EXCEPT !.agu = x]
WithSkip(s, x, j) == [s EXCEPT !.skip = j, !.agu = x]
WithResp(s, g) == [s EXCEPT !.resp = g]

\* The rest is as it was.
LEMMA SrcAgu ==
  ASSUME NEW s \in Src, NEW x \in Agu
  PROVE  /\ WithAgu(s, x) \in Src /\ WithAgu(s, x).agu = x
         /\ WithAgu(s, x).issued = s.issued /\ WithAgu(s, x).skip = s.skip
         /\ WithAgu(s, x).ar = s.ar /\ WithAgu(s, x).txn = s.txn
         /\ WithAgu(s, x).inflight = s.inflight /\ WithAgu(s, x).resp = s.resp
         /\ WithAgu(s, x).r_ready = s.r_ready
BY DEF Src, WithAgu

\* The rest is as it was.
LEMMA SrcSkip ==
  ASSUME NEW s \in Src, NEW x \in Agu, NEW j \in Nat
  PROVE  /\ WithSkip(s, x, j) \in Src /\ WithSkip(s, x, j).agu = x
         /\ WithSkip(s, x, j).issued = s.issued /\ WithSkip(s, x, j).skip = j
         /\ WithSkip(s, x, j).ar = s.ar /\ WithSkip(s, x, j).txn = s.txn
         /\ WithSkip(s, x, j).inflight = s.inflight /\ WithSkip(s, x, j).resp = s.resp
         /\ WithSkip(s, x, j).r_ready = s.r_ready
BY DEF Src, WithSkip

\* The rest is as it was.
LEMMA SrcResp ==
  ASSUME NEW s \in Src, NEW g \in Seq(Nat)
  PROVE  /\ WithResp(s, g) \in Src /\ WithResp(s, g).resp = g
         /\ WithResp(s, g).issued = s.issued /\ WithResp(s, g).skip = s.skip
         /\ WithResp(s, g).ar = s.ar /\ WithResp(s, g).txn = s.txn
         /\ WithResp(s, g).inflight = s.inflight /\ WithResp(s, g).agu = s.agu
         /\ WithResp(s, g).r_ready = s.r_ready
BY DEF Src, WithResp

\* How many addresses are dropped: no more than there are, nor more than to drop.
LEMMA Drops ==
  ASSUME NEW a \in Nat, NEW b \in Nat
  PROVE  Min({a, b}) \in Nat /\ Min({a, b}) <= a /\ Min({a, b}) <= b
<1>1. {a, b} \subseteq Nat /\ {a, b} # {}
  OBVIOUS
<1> QED
  BY <1>1, Least

\* Addresses of beats that were issued are dropped, and no others.
LEMMA SkipSrc ==
  ASSUME active \in Runnable, NEW s \in Src, Addressed(s)
  PROVE  \E t \in Src :
           /\ t = SkipBurst(s) /\ Addressed(t)
           /\ t.issued = s.issued /\ t.ar = s.ar /\ t.txn = s.txn /\ t.inflight = s.inflight
           /\ t.resp = s.resp
<1>1. s.agu \in Agu /\ s.skip \in Nat /\ s.issued \in Nat
  BY DEF Src
<1>2. s.agu.fifo \in Seq(Nat) /\ Len(s.agu.fifo) \in Nat
  <2>1. s.agu.fifo \in Seq(Nat)
    BY <1>1 DEF Agu
  <2> QED
    BY <2>1, LenProperties
<1>3. PICK k \in Nat : k = Min({s.skip, Len(s.agu.fifo)}) /\ k <= s.skip /\ k <= Len(s.agu.fifo)
  BY <1>1, <1>2, Drops
<1>4. PICK g \in Seq(Nat) : g = SubSeq(s.agu.fifo, k + 1, Len(s.agu.fifo))
  BY <1>2, <1>3, Dropped
<1>5. PICK x \in Agu : /\ x = [s.agu EXCEPT !.fifo = g]
                       /\ x.queued = s.agu.queued /\ x.pipe = s.agu.pipe /\ x.fifo = g
  BY <1>1, AguFifo
<1>6. PICK j \in Nat : j = s.skip - k
  BY <1>1, <1>3
<1>7. SkipBurst(s) = WithSkip(s, x, j)
  BY <1>3, <1>4, <1>5, <1>6 DEF SkipBurst, WithSkip, Src
<1>8. PICK t \in Src : /\ t = SkipBurst(s) /\ t.agu = x /\ t.skip = j
                       /\ t.issued = s.issued /\ t.ar = s.ar /\ t.txn = s.txn
                       /\ t.inflight = s.inflight /\ t.resp = s.resp
  BY <1>7, SrcSkip
<1>9. PICK n \in Nat : n = s.issued - s.skip /\ s.skip <= s.issued /\ Generates(s.agu, n)
  BY <1>1 DEF Addressed
<1>10. Generates(x, n + k)
  BY <1>1, <1>3, <1>4, <1>5, <1>9, AguTake, ZenonT(60)
<1>11. n + k = t.issued - t.skip /\ t.skip <= t.issued
  BY <1>1, <1>3, <1>6, <1>8, <1>9
<1>12. Addressed(t)
  BY <1>8, <1>10, <1>11 DEF Addressed
<1> QED
  BY <1>8, <1>12

\* What of the read side the next beats are told by.
LEMMA ReadsSame ==
  ASSUME NEW s \in Src, NEW buf, NEW q, NEW n \in Nat, Reads(s, buf, q, n), NEW t \in Src,
         t.issued = s.issued, t.txn = s.txn, t.inflight = s.inflight, t.resp = s.resp,
         direct_load_pad_active \/ Addressed(t)
  PROVE  Reads(t, buf, q, n)
BY DEF Reads

\* The read side in numbers: of the beats after the first n, k are in the buffer, m in
\* resp and f to come of the e issued.
ReadsAt(s, buf, q, n, k, m, e, f) ==
  /\ k = Len(buf) /\ m = Len(s.resp) /\ e = s.issued /\ f = s.inflight
  /\ \A i \in 1 .. k : buf[i] = n + i
  /\ \A i \in 1 .. m : s.resp[i] = n + k + i
  /\ Covers(q, n + k + m + 1, e + 1)
  /\ f + n + k + m = e
  /\ Len(s.txn) = Len(q) /\ \A i \in 1 .. Len(q) : s.txn[i] = q[i].beats
  /\ direct_load_pad_active \/ Addressed(s)

\* The read side has such numbers.
LEMMA ReadsIs ==
  ASSUME NEW s \in Src, NEW buf, NEW q, NEW n \in Nat, Reads(s, buf, q, n)
  PROVE  /\ buf \in Seq(Nat) /\ s.resp \in Seq(Nat)
         /\ \E k \in Nat, m \in Nat, e \in Nat, f \in Nat : ReadsAt(s, buf, q, n, k, m, e, f)
<1>1. s.issued \in Nat /\ s.inflight \in Nat /\ s.resp \in Seq(Nat)
  BY DEF Src
<1>2. buf \in Seq(Nat)
  BY DEF Reads, Follow
<1>3. Len(s.resp) \in Nat /\ Len(buf) \in Nat
  BY <1>1, <1>2, LenProperties
<1>4. ReadsAt(s, buf, q, n, Len(buf), Len(s.resp), s.issued, s.inflight)
  BY <1>1, <1>2, <1>3 DEF Reads, Follow, ReadsAt
<1> QED
  BY <1>1, <1>2, <1>3, <1>4

\* A state of the read side with these numbers.
LEMMA ReadsFrom ==
  ASSUME NEW s \in Src, NEW buf \in Seq(Nat), NEW q, NEW n \in Nat,
         NEW k \in Nat, NEW m \in Nat, NEW e \in Nat, NEW f \in Nat,
         ReadsAt(s, buf, q, n, k, m, e, f)
  PROVE  Reads(s, buf, q, n)
<1>1. s.resp \in Seq(Nat)
  BY DEF Src
<1>2. Follow(buf, n) /\ Follow(s.resp, n + Len(buf))
  BY <1>1 DEF Follow, ReadsAt
<1> QED
  BY <1>2 DEF Reads, ReadsAt

\* The first beat of the buffer is the one after the n beats that came before.
LEMMA ReadsFirst ==
  ASSUME NEW s \in Src, NEW buf, NEW q, NEW n \in Nat, Reads(s, buf, q, n), buf # <<>>
  PROVE  Head(buf) = n + 1 /\ Reads(s, Tail(buf), q, n + 1) /\ Len(Tail(buf)) = Len(buf) - 1
<1>1. PICK k \in Nat, m \in Nat, e \in Nat, f \in Nat : ReadsAt(s, buf, q, n, k, m, e, f)
  BY ReadsIs
<1>2. /\ buf \in Seq(Nat) /\ s.resp \in Seq(Nat) /\ k = Len(buf) /\ m = Len(s.resp)
      /\ e = s.issued /\ f = s.inflight
      /\ \A i \in 1 .. k : buf[i] = n + i
      /\ \A i \in 1 .. m : s.resp[i] = n + k + i
      /\ Covers(q, n + k + m + 1, e + 1)
      /\ f + n + k + m = e
      /\ Len(s.txn) = Len(q) /\ \A i \in 1 .. Len(q) : s.txn[i] = q[i].beats
      /\ direct_load_pad_active \/ Addressed(s)
  BY <1>1, ReadsIs DEF ReadsAt
<1>3. k # 0
  BY <1>2, EmptySeq
<1>4. Head(buf) = n + 1
  <2>1. buf[1] = n + 1
    BY <1>2, <1>3
  <2> QED
    BY <1>2, <2>1
<1>5. PICK r \in Seq(Nat) : /\ r = Tail(buf) /\ Len(r) = k - 1
                            /\ \A i \in 1 .. k - 1 : r[i] = buf[i + 1]
  <2>1. /\ Tail(buf) \in Seq(Nat) /\ Len(Tail(buf)) = Len(buf) - 1
        /\ \A i \in 1 .. Len(Tail(buf)) : Tail(buf)[i] = buf[i + 1]
    BY <1>2, HeadTailProperties
  <2> QED
    BY <1>2, <2>1
<1>6. PICK j \in Nat, p \in Nat : j = k - 1 /\ p = n + 1
  BY <1>3
<1>7. ASSUME NEW i \in 1 .. j PROVE r[i] = p + i
  <2>1. i + 1 \in 1 .. k /\ i \in 1 .. k - 1
    BY <1>6
  <2> QED
    BY <1>2, <1>5, <1>6, <2>1
<1>8. p + j = n + k
  BY <1>6
<1>9. Reads(s, r, q, p)
  <2>1. j = Len(r) /\ f + p + j + m = e
    <3>1. f + n + k + m = e
      BY <1>2
    <3> QED
      BY <1>5, <1>6, <3>1
  <2>2. Covers(q, p + j + m + 1, e + 1) /\ \A i \in 1 .. m : s.resp[i] = p + j + i
    BY <1>2, <1>8
  <2>3. /\ m = Len(s.resp) /\ e = s.issued /\ f = s.inflight /\ Len(s.txn) = Len(q)
        /\ \A i \in 1 .. Len(q) : s.txn[i] = q[i].beats
        /\ direct_load_pad_active \/ Addressed(s)
    BY <1>2
  <2> QED
    <3>1. ReadsAt(s, r, q, p, j, m, e, f)
      BY <1>7, <2>1, <2>2, <2>3 DEF ReadsAt
    <3> QED
      BY <3>1, ReadsFrom
<1> QED
  BY <1>2, <1>4, <1>5, <1>6, <1>9

\* A beat goes from resp to the buffer, or none.
LEMMA Moves ==
  ASSUME NEW s \in Src, NEW buf, NEW q, NEW n \in Nat, Reads(s, buf, q, n)
  PROVE  \E t \in Src :
           /\ t = WithResp(s, SubSeq(s.resp, Len(to_buffer(s, buf)) + 1, Len(s.resp)))
           /\ t.ar = s.ar /\ Reads(t, buf \o to_buffer(s, buf), q, n)
           /\ Len(buf \o to_buffer(s, buf)) >= Len(buf)
<1>1. PICK k \in Nat, m \in Nat, e \in Nat, f \in Nat : ReadsAt(s, buf, q, n, k, m, e, f)
  BY ReadsIs
<1>2. /\ buf \in Seq(Nat) /\ s.resp \in Seq(Nat) /\ k = Len(buf) /\ m = Len(s.resp)
      /\ e = s.issued /\ f = s.inflight
      /\ \A i \in 1 .. k : buf[i] = n + i
      /\ \A i \in 1 .. m : s.resp[i] = n + k + i
      /\ Covers(q, n + k + m + 1, e + 1)
      /\ f + n + k + m = e
      /\ Len(s.txn) = Len(q) /\ \A i \in 1 .. Len(q) : s.txn[i] = q[i].beats
      /\ direct_load_pad_active \/ Addressed(s)
  BY <1>1, ReadsIs DEF ReadsAt
<1>3. PICK moved : moved = to_buffer(s, buf)
  OBVIOUS
<1>4. PICK o \in Nat, b2 \in Seq(Nat) :
        /\ o <= m /\ o <= 1 /\ Len(moved) = o
        /\ b2 = buf \o moved /\ Len(b2) = k + o /\ \A i \in 1 .. k + o : b2[i] = n + i
  <2>1. CASE moved = <<>>
    <3>1. buf \o moved = buf /\ Len(moved) = 0
      BY <1>2, <2>1, ConcatEmptySeq
    <3> QED
      BY <1>2, <3>1
  <2>2. CASE moved # <<>>
    <3>1. s.resp # <<>> /\ moved = <<Head(s.resp)>>
      BY <1>3, <2>2 DEF to_buffer
    <3>2. m \in Nat \ {0}
      BY <1>2, <3>1, EmptySeq
    <3>3. PICK d \in Nat : d = n + k + 1
      OBVIOUS
    <3>4. Head(s.resp) = d
      <4>1. s.resp[1] = d
        BY <1>2, <3>2, <3>3
      <4> QED
        BY <1>2, <3>1, <4>1
    <3>5. moved = <<d>> /\ Len(moved) = 1
      BY <3>1, <3>4
    <3>6. buf \o moved = Append(buf, d)
      BY <1>2, <3>5, AppendIsConcat
    <3>7. PICK b2 \in Seq(Nat) :
            /\ b2 = buf \o moved /\ Len(b2) = k + 1
            /\ \A i \in 1 .. k : b2[i] = buf[i]
            /\ b2[k + 1] = d
      <4>1. buf \in Seq(Nat) /\ Len(buf) = k
        BY <1>2
      <4> QED
        BY <3>6, <4>1, AppendProperties
    <3>8. ASSUME NEW i \in 1 .. k + 1 PROVE b2[i] = n + i
      <4>1. CASE i \in 1 .. k
        BY <1>2, <3>7, <4>1
      <4>2. CASE i = k + 1
        BY <3>3, <3>7, <4>2
      <4> QED
        BY <4>1, <4>2
    <3>9. 1 \in Nat /\ 1 <= m /\ 1 <= 1
      BY <3>2
    <3>10. \A i \in 1 .. k + 1 : b2[i] = n + i
      BY <3>8
    <3> QED
      BY <3>5, <3>7, <3>9, <3>10, Zenon
  <2> QED
    BY <2>1, <2>2
<1>5. PICK j \in Nat : j = m - o
  BY <1>4
<1>6. PICK g \in Seq(Nat) : /\ g = SubSeq(s.resp, o + 1, Len(s.resp)) /\ Len(g) = j
                            /\ \A i \in 1 .. j : g[i] = s.resp[o + i]
  <2>1. PICK h \in Seq(Nat) : h = s.resp /\ Len(h) = m
    BY <1>2
  <2>2. o \in Nat /\ o <= Len(h) /\ Len(h) - o = j
    BY <1>4, <1>5, <2>1
  <2>3. \A g : g = SubSeq(h, o + 1, Len(h)) =>
                 /\ g \in Seq(Nat) /\ Len(g) = Len(h) - o
                 /\ \A i \in 1 .. Len(h) - o : g[i] = h[o + i]
    BY <2>2, Dropped, SMTT(30)
  <2> QED
    BY <2>1, <2>2, <2>3, ZenonT(60)
<1>7. PICK x \in Nat : x = k + o
  BY <1>4
<1>8. ASSUME NEW i \in 1 .. j PROVE g[i] = n + x + i
  <2>1. o + i \in 1 .. m
    BY <1>4, <1>5
  <2>2. g[i] = s.resp[o + i] /\ s.resp[o + i] = n + k + (o + i)
    BY <1>2, <1>6, <2>1
  <2> QED
    BY <1>4, <1>7, <2>2
<1>9. PICK t \in Src : /\ t = WithResp(s, g) /\ t.resp = g
                       /\ t.issued = s.issued /\ t.ar = s.ar /\ t.txn = s.txn
                       /\ t.inflight = s.inflight /\ t.agu = s.agu /\ t.skip = s.skip
  BY SrcResp
<1>10. n + x + j + 1 = n + k + m + 1 /\ f + n + x + j = f + n + k + m
  BY <1>4, <1>5, <1>7
<1>11. direct_load_pad_active \/ Addressed(t)
  BY <1>2, <1>9 DEF Addressed
<1>12. Reads(t, b2, q, n)
  <2>1. x = Len(b2) /\ j = Len(t.resp) /\ e = t.issued /\ f = t.inflight
    BY <1>2, <1>4, <1>6, <1>7, <1>9
  <2>2. (\A i \in 1 .. x : b2[i] = n + i) /\ \A i \in 1 .. j : t.resp[i] = n + x + i
    BY <1>4, <1>7, <1>8, <1>9
  <2>3. Covers(q, n + x + j + 1, e + 1) /\ f + n + x + j = e
    BY <1>2, <1>10
  <2>4. Len(t.txn) = Len(q) /\ \A i \in 1 .. Len(q) : t.txn[i] = q[i].beats
    BY <1>2, <1>9
  <2> QED
    <3>1. ReadsAt(t, b2, q, n, x, j, e, f)
      BY <1>11, <2>1, <2>2, <2>3, <2>4 DEF ReadsAt
    <3> QED
      BY <3>1, ReadsFrom
<1>13. t = WithResp(s, SubSeq(s.resp, Len(to_buffer(s, buf)) + 1, Len(s.resp)))
  BY <1>3, <1>4, <1>6, <1>9
<1>14. Len(b2) >= Len(buf)
  BY <1>2, <1>4
<1> QED
  BY <1>3, <1>4, <1>9, <1>12, <1>13, <1>14, Zenon

\* The read side with other flags or another beat received.
WithReady(s, r) == [s EXCEPT !.r_ready = r]
WithTaken(s, r, txn, inflight, resp) ==
  [s EXCEPT !.r_ready = r, !.txn = txn, !.inflight = inflight, !.resp = resp]

\* The rest is as it was.
LEMMA SrcReady ==
  ASSUME NEW s \in Src, NEW r \in BOOLEAN
  PROVE  /\ WithReady(s, r) \in Src /\ WithReady(s, r).agu = s.agu
         /\ WithReady(s, r).issued = s.issued /\ WithReady(s, r).skip = s.skip
         /\ WithReady(s, r).ar = s.ar /\ WithReady(s, r).txn = s.txn
         /\ WithReady(s, r).inflight = s.inflight /\ WithReady(s, r).resp = s.resp
BY DEF Src, WithReady

\* What taking a beat does to the read side.
LEMMA TakeReadIs ==
  ASSUME NEW s \in Src, s.r_ready, NEW y \in Seq(Nat), y = txn_after(s.txn),
         NEW j \in Nat, j = s.inflight - 1,
         NEW g \in Seq(Nat), g = Append(s.resp, Head(memory.rd).first)
  PROVE  /\ TakeRead(s, TRUE) \in Src /\ TakeRead(s, TRUE).agu = s.agu
         /\ TakeRead(s, TRUE).issued = s.issued /\ TakeRead(s, TRUE).skip = s.skip
         /\ TakeRead(s, TRUE).ar = s.ar /\ TakeRead(s, TRUE).txn = y
         /\ TakeRead(s, TRUE).inflight = j /\ TakeRead(s, TRUE).resp = g
<1>1. TakeRead(s, TRUE) = WithTaken(s, ready_to_read(s), y, j, g)
  BY DEF TakeRead, WithTaken, Src
<1>2. ready_to_read(s) \in BOOLEAN
  BY DEF ready_to_read
<1> QED
  BY <1>1, <1>2 DEF WithTaken, Src

\* Two sequences as one.
LEMMA ConcatAt ==
  ASSUME NEW S, NEW a \in Seq(S), NEW b \in Seq(S), NEW k \in Nat, NEW l \in Nat,
         k = Len(a), l = Len(b)
  PROVE  /\ a \o b \in Seq(S) /\ Len(a \o b) = k + l
         /\ \A i \in 1 .. k : (a \o b)[i] = a[i]
         /\ \A i \in 1 .. l : (a \o b)[k + i] = b[i]
<1>1. PICK c : c = a \o b
  OBVIOUS
<1>2. /\ c \in Seq(S) /\ Len(c) = Len(a) + Len(b)
      /\ \A i \in 1 .. Len(a) + Len(b) : c[i] = IF i <= Len(a) THEN a[i] ELSE b[i - Len(a)]
  BY <1>1, ConcatProperties
<1>3. \A i \in 1 .. k + l : c[i] = IF i <= k THEN a[i] ELSE b[i - k]
  BY <1>2
<1>4. ASSUME NEW i \in 1 .. k PROVE c[i] = a[i]
  BY <1>3
<1>5. ASSUME NEW i \in 1 .. l PROVE c[k + i] = b[i]
  <2>1. k + i \in 1 .. k + l /\ ~(k + i <= k) /\ k + i - k = i
    OBVIOUS
  <2> QED
    BY <1>3, <2>1
<1> QED
  BY <1>1, <1>2, <1>4, <1>5

\* A sequence without its first element.
LEMMA TailAt ==
  ASSUME NEW S, NEW a \in Seq(S), NEW k \in Nat, Len(a) = k + 1
  PROVE  /\ a # <<>> /\ Tail(a) \in Seq(S) /\ Len(Tail(a)) = k
         /\ \A i \in 1 .. k : Tail(a)[i] = a[i + 1]
         /\ Head(a) = a[1] /\ a[1] \in S
<1>1. a # <<>>
  BY EmptySeq
<1>2. PICK t : t = Tail(a)
  OBVIOUS
<1>3. t \in Seq(S) /\ Len(t) = Len(a) - 1 /\ \A i \in 1 .. Len(t) : t[i] = a[i + 1]
  BY <1>1, <1>2, HeadTailProperties
<1>4. 1 \in 1 .. Len(a)
  OBVIOUS
<1>5. a[1] \in S
  BY <1>4, ElementOfSeq
<1> QED
  BY <1>1, <1>2, <1>3, <1>5

\* The first of two sequences gives the first element and what follows it.
LEMMA TailConcat ==
  ASSUME NEW S, NEW a \in Seq(S), NEW b \in Seq(S), a # <<>>
  PROVE  /\ a \o b \in Seq(S) /\ a \o b # <<>>
         /\ Tail(a \o b) = Tail(a) \o b /\ (a \o b)[1] = a[1] /\ a[1] = Head(a)
<1>1. PICK k \in Nat, l \in Nat : Len(a) = k + 1 /\ Len(b) = l
  <2>1. Len(a) \in Nat \ {0} /\ Len(b) \in Nat
    BY LenProperties, EmptySeq
  <2>2. Len(a) - 1 \in Nat /\ Len(a) = (Len(a) - 1) + 1
    BY <2>1
  <2> QED
    BY <2>1, <2>2
<1>2. PICK j \in Nat, n \in Nat : j = k + 1 /\ n = k + l
  OBVIOUS
<1>3. PICK c \in Seq(S) : /\ c = a \o b /\ Len(c) = j + l
                          /\ \A i \in 1 .. j : c[i] = a[i]
                          /\ \A i \in 1 .. l : c[j + i] = b[i]
  <2>1. j = Len(a) /\ l = Len(b)
    BY <1>1, <1>2
  <2>2. /\ a \o b \in Seq(S) /\ Len(a \o b) = j + l
        /\ \A i \in 1 .. j : (a \o b)[i] = a[i]
        /\ \A i \in 1 .. l : (a \o b)[j + i] = b[i]
    BY <2>1, ConcatAt
  <2> QED
    BY <2>2
<1>4. PICK t \in Seq(S) : /\ t = Tail(c) /\ Len(t) = n /\ c # <<>>
                          /\ \A i \in 1 .. n : t[i] = c[i + 1]
  <2>1. Len(c) = n + 1
    BY <1>2, <1>3
  <2>2. /\ c # <<>> /\ Tail(c) \in Seq(S) /\ Len(Tail(c)) = n
        /\ \A i \in 1 .. n : Tail(c)[i] = c[i + 1]
    BY <2>1, TailAt
  <2> QED
    BY <2>2
<1>5. PICK u \in Seq(S) : /\ u = Tail(a) /\ Len(u) = k /\ Head(a) = a[1]
                          /\ \A i \in 1 .. k : u[i] = a[i + 1]
  <2>1. /\ Tail(a) \in Seq(S) /\ Len(Tail(a)) = k /\ Head(a) = a[1]
        /\ \A i \in 1 .. k : Tail(a)[i] = a[i + 1]
    BY <1>1, TailAt
  <2> QED
    BY <2>1
<1>6. PICK v \in Seq(S) : /\ v = u \o b /\ Len(v) = k + l
                          /\ \A i \in 1 .. k : v[i] = u[i]
                          /\ \A i \in 1 .. l : v[k + i] = b[i]
  <2>1. k = Len(u) /\ l = Len(b)
    BY <1>1, <1>5
  <2>2. /\ u \o b \in Seq(S) /\ Len(u \o b) = k + l
        /\ \A i \in 1 .. k : (u \o b)[i] = u[i]
        /\ \A i \in 1 .. l : (u \o b)[k + i] = b[i]
    BY <2>1, ConcatAt
  <2> QED
    BY <2>2
<1>7. ASSUME NEW i \in 1 .. n PROVE t[i] = v[i]
  <2>1. CASE i \in 1 .. k
    <3>1. i + 1 \in 1 .. j
      BY <1>2, <2>1
    <3> QED
      BY <1>3, <1>4, <1>5, <1>6, <2>1, <3>1
  <2>2. CASE ~(i \in 1 .. k)
    <3>1. PICK m \in 1 .. l : i = k + m
      <4>1. i - k \in 1 .. l /\ i = k + (i - k)
        BY <1>2, <2>2
      <4> QED
        BY <4>1
    <3>2. i + 1 = j + m
      BY <1>2, <3>1
    <3> QED
      BY <1>3, <1>4, <1>6, <3>1, <3>2, ZenonT(60)
  <2> QED
    BY <2>1, <2>2
<1>8. t = v
  <2>1. Len(t) = Len(v) /\ \A i \in 1 .. Len(t) : t[i] = v[i]
    BY <1>2, <1>4, <1>6, <1>7
  <2> QED
    BY <1>4, <1>6, <2>1, SeqEqual
<1>9. 1 \in 1 .. j
  BY <1>2
<1> QED
  BY <1>3, <1>4, <1>5, <1>6, <1>8, <1>9

\* A burst by its parts.
LEMMA BurstOf ==
  ASSUME NEW a \in Nat \ {0}, NEW b \in Nat \ {0}
  PROVE  /\ [first |-> a, beats |-> b] \in Burst
         /\ [first |-> a, beats |-> b].first = a /\ [first |-> a, beats |-> b].beats = b
BY DEF Burst

\* Some bursts after a beat of the first was taken.
bursts_after(q) ==
  IF q[1].beats = 1 THEN Tail(q)
  ELSE [q EXCEPT ![1] = [first |-> q[1].first + 1, beats |-> q[1].beats - 1]]

\* What a memory gives of the oldest burst is the first of all beats to come.
LEMMA Gives ==
  ASSUME NEW rd \in Seq(Burst), NEW p \in Seq(Burst), rd # <<>>,
         NEW f \in Nat, NEW t \in Nat, Covers(rd \o p, f, t)
  PROVE  /\ Given(rd) \in Seq(Burst) /\ Covers(Given(rd) \o p, f + 1, t)
         /\ Head(rd).first = f /\ (rd \o p)[1] \in Burst /\ rd \o p # <<>>
         /\ Given(rd) \o p = bursts_after(rd \o p)
<1>1. PICK q \in Seq(Burst) : /\ q = rd \o p /\ q # <<>> /\ Tail(q) = Tail(rd) \o p
                              /\ q[1] = rd[1] /\ rd[1] = Head(rd)
  BY TailConcat
<1>2. q[1] \in Burst /\ q[1].first = f
  BY <1>1, CoversSome
<1>3. Head(rd) = q[1]
  BY <1>1
<1>4. Tail(rd) \in Seq(Burst)
  BY HeadTailProperties
<1>5. CASE q[1].beats = 1
  <2>1. Given(rd) = Tail(rd)
    BY <1>3, <1>5 DEF Given
  <2>2. Covers(Tail(q), over(q[1]), t)
    BY <1>1, CoversRest
  <2>3. over(q[1]) = f + 1
    BY <1>2, <1>5, BurstIs
  <2> QED
    BY <1>1, <1>2, <1>3, <1>4, <1>5, <2>1, <2>2, <2>3 DEF bursts_after
<1>6. CASE q[1].beats # 1
  <2> DEFINE e == [first |-> q[1].first + 1, beats |-> q[1].beats - 1]
  <2>1. Given(rd) = <<e>> \o Tail(rd)
    BY <1>3, <1>6 DEF Given
  <2>2. e \in Burst
    <3>1. PICK c \in Nat \ {0} : c = q[1].beats /\ c # 1
      BY <1>2, <1>6, BurstIs
    <3>2. f + 1 \in Nat \ {0} /\ c - 1 \in Nat \ {0}
      BY <3>1
    <3> QED
      BY <1>2, <3>1, <3>2 DEF Burst
  <2>3. /\ Covers(<<e>> \o Tail(q), f + 1, t)
        /\ <<e>> \o Tail(q) = [q EXCEPT ![1] = e]
    BY <1>1, <1>6, CoversLess, ZenonT(60)
  <2>4. <<e>> \in Seq(Burst)
    BY <2>2
  <2> HIDE DEF e
  <2>5. Given(rd) \in Seq(Burst) /\ Given(rd) \o p = <<e>> \o Tail(q)
    <3>1. (<<e>> \o Tail(rd)) \o p = <<e>> \o (Tail(rd) \o p)
      BY <1>4, <2>4, ConcatAssociative
    <3>2. <<e>> \o Tail(rd) \in Seq(Burst)
      BY <1>4, <2>4, ConcatProperties
    <3> QED
      BY <1>1, <2>1, <3>1, <3>2
  <2>6. Given(rd) \o p = bursts_after(q)
    BY <1>6, <2>3, <2>5, Zenon DEF bursts_after, e
  <2> QED
    BY <1>1, <1>2, <1>3, <1>6, <2>3, <2>5, <2>6, Zenon
<1> QED
  BY <1>5, <1>6

\* The bursts to come after a beat of the first was taken.
LEMMA TakesOne ==
  ASSUME NEW x \in Seq(Nat), NEW q \in Seq(Burst), q # <<>>, NEW f \in Nat, NEW t \in Nat,
         Covers(q, f, t), Len(x) = Len(q), \A i \in 1 .. Len(q) : x[i] = q[i].beats
  PROVE  /\ txn_after(x) \in Seq(Nat) /\ Len(txn_after(x)) = Len(bursts_after(q))
         /\ \A i \in 1 .. Len(bursts_after(q)) : txn_after(x)[i] = bursts_after(q)[i].beats
<1>1. PICK y, p : y = txn_after(x) /\ p = bursts_after(q)
  OBVIOUS
<1>2. PICK k \in Nat : Len(q) = k + 1
  <2>1. Len(q) \in Nat \ {0}
    BY EmptySeq
  <2>2. Len(q) - 1 \in Nat /\ Len(q) = (Len(q) - 1) + 1
    BY <2>1
  <2> QED
    BY <2>2
<1>3. \A i \in 1 .. k + 1 : x[i] = q[i].beats
  BY <1>2
<1>4. PICK b \in Nat \ {0} : b = q[1].beats /\ b = x[1]
  <2>1. q[1] \in Burst
    BY CoversSome
  <2>2. 1 \in 1 .. k + 1
    OBVIOUS
  <2> QED
    BY <1>3, <2>1, <2>2, BurstIs
<1>5. Len(x) = k + 1
  BY <1>2
<1>6. Head(x) = x[1]
  BY <1>5, TailAt
<1>7. CASE b = 1
  <2>1. y = Tail(x) /\ p = Tail(q)
    BY <1>1, <1>4, <1>6, <1>7 DEF txn_after, bursts_after
  <2>2. /\ Tail(x) \in Seq(Nat) /\ Len(Tail(x)) = k
        /\ \A i \in 1 .. k : Tail(x)[i] = x[i + 1]
    BY <1>5, TailAt
  <2>3. Len(Tail(q)) = k /\ \A i \in 1 .. k : Tail(q)[i] = q[i + 1]
    BY <1>2, TailAt
  <2>4. ASSUME NEW i \in 1 .. k PROVE Tail(x)[i] = Tail(q)[i].beats
    BY <1>3, <2>2, <2>3
  <2> QED
    BY <1>1, <2>1, <2>2, <2>3, <2>4
<1>8. CASE b # 1
  <2>1. PICK d \in Nat \ {0} : d = b - 1
    BY <1>8
  <2>2. PICK e \in Burst : e = [first |-> q[1].first + 1, beats |-> d] /\ e.beats = d
    <3>1. q[1].first = f
      BY CoversSome
    <3>2. q[1].first + 1 \in Nat \ {0}
      BY <3>1
    <3> QED
      BY <3>2, BurstOf, ZenonT(60)
  <2>3. y = [x EXCEPT ![1] = d]
    <3>1. x[1] - 1 = d /\ Head(x) # 1
      BY <1>4, <1>6, <1>8, <2>1
    <3> QED
      BY <1>1, <3>1, Zenon DEF txn_after
  <2>4. p = [q EXCEPT ![1] = e]
    <3>1. q[1].beats - 1 = d /\ q[1].beats # 1
      BY <1>4, <1>8, <2>1
    <3> QED
      BY <1>1, <2>2, <3>1, Zenon DEF bursts_after
  <2>5. 1 \in 1 .. Len(x) /\ 1 \in 1 .. Len(q)
    BY <1>2, <1>5
  <2>6. /\ [x EXCEPT ![1] = d] \in Seq(Nat) /\ Len([x EXCEPT ![1] = d]) = Len(x)
        /\ \A j \in 1 .. Len(x) : [x EXCEPT ![1] = d][j] = IF j = 1 THEN d ELSE x[j]
    BY <2>5, ExceptSeq
  <2>7. /\ Len([q EXCEPT ![1] = e]) = Len(q)
        /\ \A j \in 1 .. Len(q) : [q EXCEPT ![1] = e][j] = IF j = 1 THEN e ELSE q[j]
    BY <2>5, ExceptSeq
  <2>8. y \in Seq(Nat) /\ Len(y) = k + 1 /\ \A j \in 1 .. k + 1 : y[j] = IF j = 1 THEN d ELSE x[j]
    BY <1>5, <2>3, <2>6
  <2>9. Len(p) = k + 1 /\ \A j \in 1 .. k + 1 : p[j] = IF j = 1 THEN e ELSE q[j]
    BY <1>2, <2>4, <2>7
  <2>10. ASSUME NEW i \in 1 .. k + 1 PROVE y[i] = p[i].beats
    BY <1>3, <2>2, <2>8, <2>9
  <2> QED
    BY <1>1, <2>8, <2>9, <2>10
<1> QED
  BY <1>1, <1>7, <1>8

\* A beat of a burst in flight is taken, or none.
LEMMA Takes ==
  ASSUME NEW s \in Src, NEW buf, NEW n \in Nat, memory.rd \in Seq(Burst), NEW p \in Seq(Burst),
         Reads(s, buf, memory.rd \o p, n), NEW r \in BOOLEAN,
         r => s.r_ready /\ memory.rd # <<>>
  PROVE  /\ (IF r THEN Given(memory.rd) ELSE memory.rd) \in Seq(Burst)
         /\ \E t \in Src :
              /\ t = TakeRead(s, r) /\ t.ar = s.ar
              /\ Reads(t, buf, (IF r THEN Given(memory.rd) ELSE memory.rd) \o p, n)
<1>1. PICK k \in Nat, m \in Nat, e \in Nat, f \in Nat :
        ReadsAt(s, buf, memory.rd \o p, n, k, m, e, f)
  BY ReadsIs
<1>2. buf \in Seq(Nat) /\ s.resp \in Seq(Nat) /\ s.txn \in Seq(Nat)
  BY ReadsIs DEF Src
<1>3. ready_to_read(s) \in BOOLEAN
  BY DEF ready_to_read
<1>4. CASE ~r
  <2>1. PICK t \in Src : /\ t = TakeRead(s, r) /\ t.ar = s.ar /\ t.agu = s.agu
                         /\ t.issued = s.issued /\ t.skip = s.skip /\ t.txn = s.txn
                         /\ t.inflight = s.inflight /\ t.resp = s.resp
    <3>1. TakeRead(s, r) = WithReady(s, ready_to_read(s))
      BY <1>4 DEF TakeRead, WithReady
    <3> QED
      BY <1>3, <3>1, SrcReady
  <2>2. direct_load_pad_active \/ Addressed(s)
    BY <1>1 DEF ReadsAt
  <2>3. direct_load_pad_active \/ Addressed(t)
    BY <2>1, <2>2 DEF Addressed
  <2>4. Reads(t, buf, memory.rd \o p, n)
    BY <2>1, <2>3, ReadsSame
  <2> QED
    BY <1>4, <2>1, <2>4
<1>5. CASE r
  <2>1. PICK q \in Seq(Burst), to \in Nat, from \in Nat :
          /\ q = memory.rd \o p /\ from = n + k + m + 1 /\ to = e + 1
          /\ Covers(q, from, to) /\ Len(s.txn) = Len(q)
          /\ \A i \in 1 .. Len(q) : s.txn[i] = q[i].beats
    <3>1. /\ Covers(memory.rd \o p, n + k + m + 1, e + 1) /\ Len(s.txn) = Len(memory.rd \o p)
          /\ \A i \in 1 .. Len(memory.rd \o p) : s.txn[i] = (memory.rd \o p)[i].beats
      BY <1>1 DEF ReadsAt
    <3>2. memory.rd \o p \in Seq(Burst) /\ n + k + m + 1 \in Nat /\ e + 1 \in Nat
      BY ConcatProperties
    <3> QED
      BY <3>1, <3>2
  <2>2. /\ Given(memory.rd) \in Seq(Burst) /\ Covers(Given(memory.rd) \o p, from + 1, to)
        /\ Head(memory.rd).first = from /\ q[1] \in Burst /\ q # <<>>
        /\ Given(memory.rd) \o p = bursts_after(q)
    <3>1. memory.rd # <<>> /\ Covers(memory.rd \o p, from, to)
      BY <1>5, <2>1
    <3>2. /\ Given(memory.rd) \in Seq(Burst) /\ Covers(Given(memory.rd) \o p, from + 1, to)
          /\ Head(memory.rd).first = from /\ (memory.rd \o p)[1] \in Burst
          /\ memory.rd \o p # <<>> /\ Given(memory.rd) \o p = bursts_after(memory.rd \o p)
      BY <3>1, Gives
    <3> QED
      BY <2>1, <3>2
  <2> DEFINE y == txn_after(s.txn)
             g == Append(s.resp, Head(memory.rd).first)
             o == Given(memory.rd) \o p
  <2>3. y \in Seq(Nat) /\ Len(y) = Len(o) /\ \A i \in 1 .. Len(o) : y[i] = o[i].beats
    <3>1. s.txn \in Seq(Nat) /\ q # <<>>
      BY <1>2, <2>2
    <3>2. /\ txn_after(s.txn) \in Seq(Nat) /\ Len(txn_after(s.txn)) = Len(bursts_after(q))
          /\ \A i \in 1 .. Len(bursts_after(q)) : txn_after(s.txn)[i] = bursts_after(q)[i].beats
      BY <2>1, <3>1, TakesOne
    <3>3. o = bursts_after(q)
      BY <2>2
    <3> QED
      BY <3>2, <3>3
  <2>4. PICK j \in Nat : f = j + 1
    <3>1. from # to
      BY <2>1, <2>2, CoversSome
    <3>2. f + n + k + m = e
      BY <1>1 DEF ReadsAt
    <3>3. f # 0
      BY <2>1, <3>1, <3>2
    <3>4. f - 1 \in Nat /\ f = (f - 1) + 1
      BY <3>3
    <3> QED
      BY <3>4
  <2>5. /\ g \in Seq(Nat) /\ Len(g) = m + 1 /\ (\A i \in 1 .. m : g[i] = s.resp[i])
        /\ g[m + 1] = from
    <3>1. g = Append(s.resp, from) /\ Len(s.resp) = m
      BY <1>1, <2>2 DEF ReadsAt
    <3> HIDE DEF g
    <3> QED
      BY <1>2, <3>1, AppendProperties
  <2> HIDE DEF y, g
  <2>6. PICK t \in Src : /\ t = TakeRead(s, r) /\ t.ar = s.ar /\ t.agu = s.agu
                         /\ t.issued = s.issued /\ t.skip = s.skip /\ t.txn = y
                         /\ t.inflight = j /\ t.resp = g
    <3>1. s.inflight - 1 = j
      BY <1>1, <2>4 DEF ReadsAt
    <3>2. s.txn # <<>> /\ Head(s.txn) = s.txn[1]
      <4>1. Len(s.txn) # 0
        BY <2>1, <2>2, EmptySeq
      <4> QED
        BY <1>2, <4>1, EmptySeq
    <3>3. y = txn_after(s.txn) /\ g = Append(s.resp, Head(memory.rd).first)
      BY DEF y, g
    <3>4. y \in Seq(Nat) /\ g \in Seq(Nat)
      BY <2>3, <2>5
    <3>5. /\ TakeRead(s, TRUE) \in Src /\ TakeRead(s, TRUE).agu = s.agu
          /\ TakeRead(s, TRUE).issued = s.issued /\ TakeRead(s, TRUE).skip = s.skip
          /\ TakeRead(s, TRUE).ar = s.ar /\ TakeRead(s, TRUE).txn = y
          /\ TakeRead(s, TRUE).inflight = j /\ TakeRead(s, TRUE).resp = g
      <4>1. s.r_ready
        BY <1>5
      <4> QED
        BY <3>1, <3>3, <3>4, <4>1, TakeReadIs, ZenonT(60)
    <3>6. r = TRUE
      BY <1>5
    <3> QED
      BY <3>5, <3>6
  <2>7. ReadsAt(t, buf, o, n, k, m + 1, e, j)
    <3>1. k = Len(buf) /\ m + 1 = Len(t.resp) /\ e = t.issued /\ j = t.inflight
      BY <1>1, <2>5, <2>6 DEF ReadsAt
    <3>2. \A i \in 1 .. k : buf[i] = n + i
      BY <1>1 DEF ReadsAt
    <3>3. ASSUME NEW i \in 1 .. m + 1 PROVE t.resp[i] = n + k + i
      <4>1. CASE i \in 1 .. m
        BY <1>1, <2>5, <2>6, <4>1 DEF ReadsAt
      <4>2. CASE i = m + 1
        BY <2>1, <2>5, <2>6, <4>2
      <4> QED
        BY <4>1, <4>2
    <3>4. Covers(o, n + k + (m + 1) + 1, e + 1)
      <4>1. n + k + (m + 1) + 1 = from + 1
        BY <2>1
      <4> QED
        BY <2>1, <2>2, <4>1
    <3>5. j + n + k + (m + 1) = e
      <4>1. f + n + k + m = e
        BY <1>1 DEF ReadsAt
      <4> QED
        BY <2>4, <4>1
    <3>6. Len(t.txn) = Len(o) /\ \A i \in 1 .. Len(o) : t.txn[i] = o[i].beats
      BY <2>3, <2>6
    <3>7. direct_load_pad_active \/ Addressed(t)
      BY <1>1, <2>6 DEF Addressed, ReadsAt
    <3> QED
      BY <3>1, <3>2, <3>3, <3>4, <3>5, <3>6, <3>7 DEF ReadsAt
  <2>8. Reads(t, buf, o, n)
    <3>1. m + 1 \in Nat
      OBVIOUS
    <3> QED
      BY <1>2, <2>7, <3>1, ReadsFrom
  <2> QED
    BY <1>5, <2>2, <2>6, <2>8
<1> QED
  BY <1>4, <1>5

\* What is left to send of an address when it may have been taken.
Freed(s, a) == [s EXCEPT !.ar = IF a THEN <<>> ELSE @]

\* The read side after a fill, and after a burst of n beats is asked for.
Filled(s) == [s EXCEPT !.issued = @ + 1]
Asked(s, n) ==
  [s EXCEPT !.issued = @ + n, !.txn = Append(@, n), !.inflight = @ + n,
            !.ar = <<[first |-> IF direct_load_pad_active THEN s.issued + 1 ELSE Head(s.agu.fifo),
                      beats |-> n]>>,
            !.agu.fifo = IF direct_load_pad_active THEN @ ELSE Tail(@),
            !.skip = IF direct_load_pad_active THEN @ ELSE n - 1]
WithAsked(s, e, y, f, ar, x, j) ==
  [s EXCEPT !.issued = e, !.txn = y, !.inflight = f, !.ar = ar, !.agu = x, !.skip = j]

IsAsked(t, s, e, y, f, ar, x, j) ==
  /\ t \in Src /\ t.issued = e /\ t.txn = y /\ t.inflight = f
  /\ t.ar = ar /\ t.agu = x /\ t.skip = j /\ t.resp = s.resp

\* Whether a fill, or a burst, is the next and may be issued.
fills(s, buf) ==
  /\ s.ar = <<>> /\ s.issued < active.beats /\ decode_load_pad_request(s.issued + 1)
  /\ can_issue_fill(s, buf)
asks(s, buf) ==
  /\ s.ar = <<>> /\ s.issued < active.beats /\ ~decode_load_pad_request(s.issued + 1)
  /\ direct_load_pad_active \/ (s.skip = 0 /\ s.agu.fifo # <<>>)
  /\ can_issue_read(s, buf, burst_beats(s.issued + 1, active.src_cuts))

\* A fill, a burst or nothing is issued.
LEMMA SrcIssueIs ==
  ASSUME NEW s0, NEW buf, NEW a, NEW s,
         s = Freed(IF direct_load_pad_active THEN s0 ELSE SkipBurst(s0), a)
  PROVE  /\ fills(s, buf) =>
              SrcIssue(s0, buf, a) = [side |-> Filled(s), buffer |-> Append(buf, s.issued + 1)]
         /\ asks(s, buf) =>
              SrcIssue(s0, buf, a) =
                [side |-> Asked(s, burst_beats(s.issued + 1, active.src_cuts)), buffer |-> buf]
         /\ ~fills(s, buf) /\ ~asks(s, buf) =>
              SrcIssue(s0, buf, a) = [side |-> s, buffer |-> buf]
BY DEF SrcIssue, Freed, Filled, Asked, fills, asks

\* The rest is as it was.
LEMMA SrcFreed ==
  ASSUME NEW s \in Src, NEW a
  PROVE  /\ Freed(s, a) \in Src /\ Freed(s, a).agu = s.agu
         /\ Freed(s, a).issued = s.issued /\ Freed(s, a).skip = s.skip
         /\ Freed(s, a).txn = s.txn /\ Freed(s, a).inflight = s.inflight
         /\ Freed(s, a).resp = s.resp /\ Freed(s, a).ar = IF a THEN <<>> ELSE s.ar
<1>1. (IF a THEN <<>> ELSE s.ar) \in Seq(Burst)
  BY DEF Src
<1> QED
  BY <1>1 DEF Src, Freed

\* The rest is as it was.
LEMMA SrcFilled ==
  ASSUME NEW s \in Src
  PROVE  /\ Filled(s) \in Src /\ Filled(s).agu = s.agu
         /\ Filled(s).issued = s.issued + 1 /\ Filled(s).skip = s.skip /\ Filled(s).ar = s.ar
         /\ Filled(s).txn = s.txn /\ Filled(s).inflight = s.inflight /\ Filled(s).resp = s.resp
<1>1. PICK e \in Nat : e = s.issued + 1
  BY DEF Src
<1>2. Filled(s) = [s EXCEPT !.issued = e]
  BY <1>1 DEF Filled
<1>3. /\ [s EXCEPT !.issued = e] \in Src /\ [s EXCEPT !.issued = e].agu = s.agu
      /\ [s EXCEPT !.issued = e].issued = e /\ [s EXCEPT !.issued = e].skip = s.skip
      /\ [s EXCEPT !.issued = e].ar = s.ar /\ [s EXCEPT !.issued = e].txn = s.txn
      /\ [s EXCEPT !.issued = e].inflight = s.inflight /\ [s EXCEPT !.issued = e].resp = s.resp
  BY DEF Src
<1> QED
  BY <1>1, <1>2, <1>3

\* The rest is as it was.
LEMMA SrcAsked ==
  ASSUME NEW s \in Src, NEW e \in Nat, NEW y \in Seq(Nat), NEW f \in Nat,
         NEW ar \in Seq(Burst), NEW x \in Agu, NEW j \in Nat
  PROVE  IsAsked(WithAsked(s, e, y, f, ar, x, j), s, e, y, f, ar, x, j)
BY DEF Src, WithAsked, IsAsked

\* An address is taken or stays.
LEMMA Frees ==
  ASSUME NEW s \in Src, NEW buf, NEW p \in Seq(Burst), NEW n \in Nat,
         Reads(s, buf, p \o s.ar, n), NEW a \in BOOLEAN
  PROVE  LET t == Freed(s, a)
             b == p \o (IF a THEN s.ar ELSE <<>>)
         IN  b \in Seq(Burst) /\ t \in Src /\ Reads(t, buf, b \o t.ar, n)
<1> DEFINE b == p \o (IF a THEN s.ar ELSE <<>>)
<1>1. s.ar \in Seq(Burst)
  BY DEF Src
<1>2. PICK t \in Src : /\ t = Freed(s, a) /\ t.agu = s.agu /\ t.issued = s.issued
                       /\ t.skip = s.skip /\ t.txn = s.txn /\ t.inflight = s.inflight
                       /\ t.resp = s.resp /\ t.ar = IF a THEN <<>> ELSE s.ar
  BY SrcFreed
<1>3. b \in Seq(Burst) /\ b \o t.ar = p \o s.ar
  <2>1. CASE a
    <3>1. b = p \o s.ar /\ t.ar = <<>>
      BY <1>2, <2>1
    <3>2. p \o s.ar \in Seq(Burst)
      BY <1>1, ConcatProperties
    <3> HIDE DEF b
    <3> QED
      BY <3>1, <3>2, ConcatEmptySeq
  <2>2. CASE ~a
    <3>1. b = p \o <<>> /\ t.ar = s.ar
      BY <1>2, <2>2
    <3> HIDE DEF b
    <3> QED
      BY <3>1, ConcatEmptySeq
  <2> QED
    BY <2>1, <2>2
<1> HIDE DEF b
<1>4. direct_load_pad_active \/ Addressed(t)
  BY <1>2 DEF Reads, Addressed
<1>5. Reads(t, buf, p \o s.ar, n)
  BY <1>2, <1>4, ReadsSame
<1>6. Reads(t, buf, b \o t.ar, n)
  BY <1>3, <1>5
<1> QED
  BY <1>2, <1>3, <1>6 DEF b

\* A fill goes to the buffer when nothing of the source is on its way.
LEMMA Fills ==
  ASSUME active \in Runnable, NEW s \in Src, NEW buf, NEW p, NEW n \in Nat,
         Reads(s, buf, p \o s.ar, n), p \in Seq(Burst), fills(s, buf)
  PROVE  /\ Filled(s) \in Src
         /\ Reads(Filled(s), Append(buf, s.issued + 1), p \o Filled(s).ar, n)
         /\ buf \in Seq(Nat) /\ Len(Append(buf, s.issued + 1)) = Len(buf) + 1
<1>1. PICK k \in Nat, m \in Nat, e \in Nat, f \in Nat : ReadsAt(s, buf, p \o s.ar, n, k, m, e, f)
  BY ReadsIs
<1>2. direct_load_pad_active
  BY CutsAre DEF fills, decode_load_pad_request, direct_load_pad_active
<1>3. m = 0 /\ f = 0 /\ e = n + k /\ e = s.issued
  BY <1>1 DEF fills, can_issue_fill, ReadsAt
<1>4. PICK q \in Seq(Burst) : q = p \o s.ar /\ q = <<>> /\ Len(s.txn) = Len(q)
  <2>1. p \o s.ar \in Seq(Burst) /\ Covers(p \o s.ar, e + 1, e + 1)
    <3>1. n + k + m + 1 = e + 1
      BY <1>3
    <3>2. Covers(p \o s.ar, n + k + m + 1, e + 1)
      BY <1>1 DEF ReadsAt
    <3> QED
      BY <3>1, <3>2, Zenon DEF Covers
  <2>2. e + 1 \in Nat
    OBVIOUS
  <2>3. p \o s.ar = <<>>
    BY <2>1, <2>2, CoversSome
  <2> QED
    BY <1>1, <2>1, <2>3 DEF ReadsAt
<1>5. PICK x \in Nat : x = e + 1
  OBVIOUS
<1>6. PICK t \in Src : /\ t = Filled(s) /\ t.ar = s.ar /\ t.issued = x /\ t.txn = s.txn
                       /\ t.inflight = 0 /\ t.resp = s.resp
  <2>1. s.issued + 1 = x /\ s.inflight = 0
    BY <1>1, <1>3, <1>5 DEF ReadsAt
  <2>2. /\ Filled(s) \in Src /\ Filled(s).issued = s.issued + 1 /\ Filled(s).ar = s.ar
        /\ Filled(s).txn = s.txn /\ Filled(s).inflight = s.inflight /\ Filled(s).resp = s.resp
    BY SrcFilled
  <2> QED
    BY <2>1, <2>2
<1>7. buf \in Seq(Nat) /\ Len(buf) = k
  BY <1>1, ReadsIs DEF ReadsAt
<1>8. PICK g \in Seq(Nat) : /\ g = Append(buf, x) /\ Len(g) = k + 1 /\ g[k + 1] = x
                            /\ \A i \in 1 .. k : g[i] = buf[i]
  <2>1. /\ Append(buf, x) \in Seq(Nat) /\ Len(Append(buf, x)) = Len(buf) + 1
        /\ Append(buf, x)[Len(buf) + 1] = x
        /\ \A i \in 1 .. Len(buf) : Append(buf, x)[i] = buf[i]
    BY <1>7, AppendProperties
  <2> QED
    BY <1>7, <2>1
<1>9. PICK j \in Nat : j = k + 1
  OBVIOUS
<1>10. ReadsAt(t, g, q, n, j, 0, x, 0)
  <2>1. ASSUME NEW i \in 1 .. j PROVE g[i] = n + i
    <3>1. CASE i \in 1 .. k
      BY <1>1, <1>8, <3>1 DEF ReadsAt
    <3>2. CASE i = k + 1
      BY <1>3, <1>5, <1>8, <3>2
    <3> QED
      BY <1>9, <3>1, <3>2
  <2>2. Covers(q, n + j + 0 + 1, x + 1)
    <3>1. n + j + 0 + 1 = x + 1
      BY <1>3, <1>5, <1>9
    <3>2. Covers(<<>>, x + 1, x + 1)
      BY DEF Covers
    <3> QED
      BY <1>4, <3>1, <3>2
  <2>3. 0 = Len(t.resp)
    BY <1>1, <1>3, <1>6 DEF ReadsAt
  <2>4. 0 + n + j + 0 = x
    BY <1>3, <1>5, <1>9
  <2>5. Len(t.txn) = Len(q) /\ \A i \in 1 .. Len(q) : t.txn[i] = q[i].beats
    BY <1>4, <1>6
  <2> QED
    BY <1>2, <1>6, <1>8, <1>9, <2>1, <2>2, <2>3, <2>4, <2>5 DEF ReadsAt
<1>11. Reads(t, g, q, n)
  BY <1>10, ReadsFrom
<1> QED
  BY <1>3, <1>4, <1>5, <1>6, <1>7, <1>8, <1>11

\* One element more.
LEMMA OneMore ==
  ASSUME NEW S, NEW p \in Seq(S), NEW c \in S
  PROVE  /\ <<c>> \in Seq(S) /\ p \o <<c>> \in Seq(S) /\ Len(p \o <<c>>) = Len(p) + 1
         /\ (p \o <<c>>)[Len(p) + 1] = c
         /\ \A i \in 1 .. Len(p) : (p \o <<c>>)[i] = p[i]
<1>1. PICK l \in Nat, o \in Nat : l = Len(p) /\ o = 1
  BY LenProperties
<1>2. <<c>> \in Seq(S) /\ Len(<<c>>) = o /\ <<c>>[o] = c
  BY <1>1
<1>3. /\ p \o <<c>> \in Seq(S) /\ Len(p \o <<c>>) = l + o
      /\ \A i \in 1 .. l : (p \o <<c>>)[i] = p[i]
      /\ \A i \in 1 .. o : (p \o <<c>>)[l + i] = <<c>>[i]
  BY <1>1, <1>2, ConcatAt
<1>4. (p \o <<c>>)[l + o] = c
  <2>1. o \in 1 .. o
    BY <1>1
  <2> QED
    BY <1>2, <1>3, <2>1
<1> QED
  BY <1>1, <1>2, <1>3, <1>4

\* Sums of the beats of the read side.
LEMMA Sums ==
  ASSUME NEW f \in Nat, NEW n \in Nat, NEW k \in Nat, NEW m \in Nat, NEW b \in Nat
  PROVE  (f + b) + n + k + m = (f + n + k + m) + b
OBVIOUS

\* A burst is asked for: the one after all that were.
LEMMA Asks ==
  ASSUME active \in Runnable, NEW s \in Src, NEW buf, NEW p, NEW n \in Nat,
         Reads(s, buf, p \o s.ar, n), p \in Seq(Burst), asks(s, buf),
         NEW b \in Nat, b = burst_beats(s.issued + 1, active.src_cuts)
  PROVE  Asked(s, b) \in Src /\ Reads(Asked(s, b), buf, p \o Asked(s, b).ar, n)
<1>1. PICK k \in Nat, m \in Nat, e \in Nat, f \in Nat : ReadsAt(s, buf, p \o s.ar, n, k, m, e, f)
  BY ReadsIs
<1>2. e = s.issued /\ f = s.inflight /\ s.ar = <<>>
  BY <1>1 DEF ReadsAt, asks
<1>3. PICK x \in Nat \ {0} : x = e + 1
  OBVIOUS
<1>4. b \in Nat \ {0}
  <2>1. x <= active.beats
    <3>1. s.issued < active.beats /\ active.beats \in Nat
      BY CommandAssumption DEF asks, Runnable
    <3> QED
      BY <1>2, <1>3, <3>1
  <2>2. b = burst_beats(x, active.src_cuts)
    BY <1>2, <1>3
  <2>3. active.src_cuts \subseteq Nat
    BY CutsAre
  <2> QED
    BY <2>1, <2>2, <2>3, BurstBeats
<1>5. p \o s.ar = p
  BY <1>2, ConcatEmptySeq
<1>6. PICK y \in Seq(Nat) : /\ y = Append(s.txn, b) /\ Len(y) = Len(p) + 1
                            /\ y[Len(p) + 1] = b /\ \A i \in 1 .. Len(p) : y[i] = p[i].beats
  <2>1. s.txn \in Seq(Nat) /\ Len(s.txn) = Len(p) /\ \A i \in 1 .. Len(p) : s.txn[i] = p[i].beats
    BY <1>1, <1>5 DEF ReadsAt, Src
  <2>2. /\ Append(s.txn, b) \in Seq(Nat) /\ Len(Append(s.txn, b)) = Len(s.txn) + 1
        /\ Append(s.txn, b)[Len(s.txn) + 1] = b
        /\ \A i \in 1 .. Len(s.txn) : Append(s.txn, b)[i] = s.txn[i]
    BY <2>1, AppendProperties
  <2> QED
    BY <2>1, <2>2
<1>7. PICK c \in Burst : c = [first |-> x, beats |-> b] /\ c.first = x /\ c.beats = b
  BY <1>4, BurstOf, ZenonT(60)
<1>8. PICK z \in Nat, h \in Nat : z = e + b /\ h = f + b
  OBVIOUS
<1>9. PICK g \in Agu, j \in Nat :
        /\ g = [s.agu EXCEPT !.fifo = IF direct_load_pad_active THEN s.agu.fifo
                                      ELSE Tail(s.agu.fifo)]
        /\ j = IF direct_load_pad_active THEN s.skip ELSE b - 1
        /\ ~direct_load_pad_active =>
             Head(s.agu.fifo) = x /\ j <= z /\ Generates(g, z - j)
  <2>1. s.agu \in Agu /\ s.agu.fifo \in Seq(Nat) /\ s.skip \in Nat
    BY DEF Agu, Src
  <2>2. CASE direct_load_pad_active
    <3>1. [s.agu EXCEPT !.fifo = s.agu.fifo] \in Agu
      BY <2>1, AguFifo
    <3> QED
      BY <2>1, <2>2, <3>1
  <2>3. CASE ~direct_load_pad_active
    <3>1. s.skip = 0 /\ s.agu.fifo # <<>> /\ Generates(s.agu, e)
      <4>1. s.skip = 0 /\ s.agu.fifo # <<>> /\ Generates(s.agu, s.issued - s.skip)
        BY <1>1, <2>3 DEF ReadsAt, Addressed, asks
      <4>2. s.issued - s.skip = e
        BY <1>2, <4>1
      <4> QED
        BY <4>1, <4>2
    <3>2. Tail(s.agu.fifo) \in Seq(Nat)
      BY <2>1, <3>1, HeadTailProperties
    <3>3. PICK g \in Agu : /\ g = [s.agu EXCEPT !.fifo = Tail(s.agu.fifo)]
                           /\ g.queued = s.agu.queued /\ g.pipe = s.agu.pipe
                           /\ g.fifo = Tail(s.agu.fifo)
      BY <2>1, <3>2, AguFifo
    <3>4. Generates(g, e + 1) /\ Head(s.agu.fifo) = e + 1
      BY <2>1, <3>1, <3>3, AguNext
    <3>5. PICK j \in Nat : j = b - 1
      BY <1>4
    <3>6. j <= z /\ z - j = e + 1
      BY <1>8, <3>5, SMTT(30)
    <3>7. Generates(g, z - j)
      BY <3>4, <3>6
    <3> QED
      BY <1>3, <2>3, <3>3, <3>4, <3>5, <3>6, <3>7
  <2> QED
    BY <2>2, <2>3
<1>10. PICK ar \in Seq(Burst) : ar = <<c>>
  BY OneMore
<1>11. Asked(s, b) = WithAsked(s, z, y, h, ar, g, j)
  <2>1. /\ s.issued + b = z /\ Append(s.txn, b) = y /\ s.inflight + b = h
        /\ (IF direct_load_pad_active THEN s.issued + 1 ELSE Head(s.agu.fifo)) = x
    BY <1>2, <1>3, <1>6, <1>8, <1>9
  <2>2. ar = <<[first |-> IF direct_load_pad_active THEN s.issued + 1 ELSE Head(s.agu.fifo),
                beats |-> b]>>
    BY <1>7, <1>10, <2>1
  <2>3. j = IF direct_load_pad_active THEN s.skip ELSE b - 1
    BY <1>9
  <2>4. g = [s.agu EXCEPT !.fifo = IF direct_load_pad_active THEN s.agu.fifo
                                   ELSE Tail(s.agu.fifo)]
    BY <1>9
  <2> QED
    BY <2>1, <2>2, <2>3, <2>4 DEF Asked, WithAsked, Src
<1>12. PICK t \in Src : /\ t = Asked(s, b) /\ t.issued = z /\ t.txn = y /\ t.inflight = h
                        /\ t.ar = ar /\ t.agu = g /\ t.skip = j /\ t.resp = s.resp
  <2>1. IsAsked(WithAsked(s, z, y, h, ar, g, j), s, z, y, h, ar, g, j)
    BY SrcAsked
  <2> QED
    BY <1>11, <2>1 DEF IsAsked
<1>13. PICK q \in Seq(Burst) : /\ q = p \o ar /\ Len(q) = Len(p) + 1 /\ q[Len(p) + 1] = c
                               /\ \A i \in 1 .. Len(p) : q[i] = p[i]
  <2>1. /\ p \o <<c>> \in Seq(Burst) /\ Len(p \o <<c>>) = Len(p) + 1
        /\ (p \o <<c>>)[Len(p) + 1] = c
        /\ \A i \in 1 .. Len(p) : (p \o <<c>>)[i] = p[i]
    BY OneMore
  <2> QED
    BY <1>10, <2>1
<1>14. ReadsAt(t, buf, q, n, k, m, z, h)
  <2>1. Covers(q, n + k + m + 1, z + 1)
    <3>1. Covers(p, n + k + m + 1, x)
      BY <1>1, <1>3, <1>5 DEF ReadsAt
    <3>2. PICK u \in Nat : u = n + k + m + 1
      OBVIOUS
    <3>3. Covers(p \o <<c>>, u, x + b)
      BY <1>4, <1>7, <3>1, <3>2, CoversMore
    <3>4. x + b = z + 1
      BY <1>3, <1>8
    <3> QED
      BY <1>10, <1>13, <3>2, <3>3, <3>4
  <2>2. h + n + k + m = z
    <3>1. f + n + k + m = e
      BY <1>1 DEF ReadsAt
    <3>2. h = f + b /\ z = e + b
      BY <1>8
    <3>3. (f + b) + n + k + m = (f + n + k + m) + b
      BY Sums
    <3> QED
      BY <3>1, <3>2, <3>3, Zenon
  <2>3. Len(t.txn) = Len(q) /\ \A i \in 1 .. Len(q) : t.txn[i] = q[i].beats
    <3>1. Len(p) \in Nat
      BY LenProperties
    <3>2. ASSUME NEW i \in 1 .. Len(p) + 1 PROVE y[i] = q[i].beats
      <4>1. CASE i = Len(p) + 1
        BY <1>6, <1>7, <1>13, <4>1
      <4>2. CASE i \in 1 .. Len(p)
        BY <1>6, <1>13, <4>2
      <4> QED
        BY <3>1, <4>1, <4>2
    <3> QED
      BY <1>6, <1>12, <1>13, <3>2, ZenonT(60)
  <2>4. direct_load_pad_active \/ Addressed(t)
    <3>1. CASE ~direct_load_pad_active
      <4>1. t.skip <= t.issued /\ Generates(t.agu, t.issued - t.skip)
        BY <1>9, <1>12, <3>1
      <4> QED
        BY <4>1 DEF Addressed
    <3> QED
      BY <3>1
  <2>5. /\ k = Len(buf) /\ m = Len(t.resp) /\ z = t.issued /\ h = t.inflight
        /\ (\A i \in 1 .. k : buf[i] = n + i)
        /\ (\A i \in 1 .. m : t.resp[i] = n + k + i)
    BY <1>1, <1>12 DEF ReadsAt
  <2> QED
    BY <2>1, <2>2, <2>3, <2>4, <2>5 DEF ReadsAt
<1>15. Reads(t, buf, q, n)
  <2>1. buf \in Seq(Nat)
    BY ReadsIs
  <2> QED
    BY <1>14, <2>1, ReadsFrom
<1> QED
  BY <1>12, <1>13, <1>15

\* What the read side and the buffer are after an edge.
ReadsOn(i, b, buf, n) ==
  i.side \in Src /\ Reads(i.side, i.buffer, b \o i.side.ar, n) /\ Len(i.buffer) >= Len(buf)

\* The next fill, or the next burst, or none is issued.
LEMMA Issues ==
  ASSUME active \in Runnable, NEW s \in Src, NEW buf, NEW p \in Seq(Burst), NEW n \in Nat,
         Reads(s, buf, p \o s.ar, n), NEW a \in BOOLEAN,
         NEW b, b = p \o (IF a THEN s.ar ELSE <<>>)
  PROVE  b \in Seq(Burst) /\ ReadsOn(SrcIssue(s, buf, a), b, buf, n)
<1>1. PICK t \in Src :
        /\ t = IF direct_load_pad_active THEN s ELSE SkipBurst(s)
        /\ t.ar = s.ar /\ Reads(t, buf, p \o s.ar, n)
  <2>1. CASE direct_load_pad_active
    BY <2>1
  <2>2. CASE ~direct_load_pad_active
    <3>1. Addressed(s)
      BY <2>2 DEF Reads
    <3>2. PICK t \in Src :
            /\ t = SkipBurst(s) /\ Addressed(t)
            /\ t.issued = s.issued /\ t.ar = s.ar /\ t.txn = s.txn /\ t.inflight = s.inflight
            /\ t.resp = s.resp
      BY <3>1, SkipSrc
    <3>3. Reads(t, buf, p \o s.ar, n)
      BY <3>2, ReadsSame
    <3> QED
      BY <2>2, <3>2, <3>3
  <2> QED
    BY <2>1, <2>2
<1>2. /\ b \in Seq(Burst) /\ Freed(t, a) \in Src
      /\ Reads(Freed(t, a), buf, b \o Freed(t, a).ar, n)
  <2>1. Reads(t, buf, p \o t.ar, n)
    BY <1>1
  <2>2. b = p \o (IF a THEN t.ar ELSE <<>>)
    BY <1>1
  <2>3. /\ p \o (IF a THEN t.ar ELSE <<>>) \in Seq(Burst) /\ Freed(t, a) \in Src
        /\ Reads(Freed(t, a), buf, (p \o (IF a THEN t.ar ELSE <<>>)) \o Freed(t, a).ar, n)
    BY <2>1, Frees, Zenon
  <2> QED
    BY <2>2, <2>3, Zenon
<1>3. PICK u \in Src : u = Freed(t, a) /\ Reads(u, buf, b \o u.ar, n)
  BY <1>2
<1>4. u = Freed(IF direct_load_pad_active THEN s ELSE SkipBurst(s), a)
  BY <1>1, <1>3
<1>5. Len(buf) \in Nat
  <2>1. buf \in Seq(Nat)
    BY <1>3, ReadsIs
  <2> QED
    BY <2>1, LenProperties
<1>6. CASE fills(u, buf)
  <2>1. SrcIssue(s, buf, a) = [side |-> Filled(u), buffer |-> Append(buf, u.issued + 1)]
    BY <1>4, <1>6, SrcIssueIs
  <2>2. /\ Filled(u) \in Src
        /\ Reads(Filled(u), Append(buf, u.issued + 1), b \o Filled(u).ar, n)
        /\ Len(Append(buf, u.issued + 1)) = Len(buf) + 1
    BY <1>2, <1>3, <1>6, Fills
  <2>3. Len(Append(buf, u.issued + 1)) >= Len(buf)
    BY <1>5, <2>2
  <2> QED
    BY <1>2, <2>1, <2>2, <2>3 DEF ReadsOn
<1>7. CASE asks(u, buf)
  <2>1. PICK m \in Nat : m = burst_beats(u.issued + 1, active.src_cuts)
    <3>1. u.issued \in Nat /\ u.issued < active.beats /\ active.beats \in Nat
      BY <1>7, CommandAssumption DEF asks, Src, Runnable
    <3>2. u.issued + 1 \in Nat /\ u.issued + 1 <= active.beats
      BY <3>1
    <3>3. burst_beats(u.issued + 1, active.src_cuts) \in Nat \ {0}
      BY <3>2, CutsAre, BurstBeats
    <3> QED
      BY <3>3
  <2>2. SrcIssue(s, buf, a) = [side |-> Asked(u, m), buffer |-> buf]
    BY <1>4, <1>7, <2>1, SrcIssueIs
  <2>3. Asked(u, m) \in Src /\ Reads(Asked(u, m), buf, b \o Asked(u, m).ar, n)
    BY <1>2, <1>3, <1>7, <2>1, Asks
  <2> QED
    BY <1>2, <1>5, <2>2, <2>3 DEF ReadsOn
<1>8. CASE ~fills(u, buf) /\ ~asks(u, buf)
  <2>1. SrcIssue(s, buf, a) = [side |-> u, buffer |-> buf]
    BY <1>4, <1>8, SrcIssueIs
  <2> QED
    BY <1>2, <1>3, <1>5, <2>1 DEF ReadsOn
<1> QED
  BY <1>6, <1>7, <1>8

\* The read side of an edge: what it gives to SrcIssue, and what comes of it.
taken(r) == TakeRead([src EXCEPT !.agu = IF direct_load_pad_active THEN @ ELSE AguEdge(@)], r)
read(r, a) ==
  SrcIssue(WithResp(taken(r), SubSeq(taken(r).resp, Len(to_buffer(taken(r), buffer)) + 1,
                                     Len(taken(r).resp))),
           buffer \o to_buffer(taken(r), buffer), a)

\* The bursts that the memory has, after an edge.
rd_after(r, a) ==
  (IF r THEN Given(memory.rd) ELSE memory.rd) \o (IF a THEN src.ar ELSE <<>>)

\* The read side of an edge keeps its beats in order.
LEMMA SrcEdge ==
  ASSUME active \in Runnable, NEW n \in Nat, memory.rd \in Seq(Burst),
         Reads(src, buffer, memory.rd \o src.ar, n), NEW a \in BOOLEAN, NEW r \in BOOLEAN,
         r => src.r_ready /\ memory.rd # <<>>
  PROVE  rd_after(r, a) \in Seq(Burst) /\ ReadsOn(read(r, a), rd_after(r, a), buffer, n)
<1>1. src \in Src /\ src.ar \in Seq(Burst) /\ src.agu \in Agu
  BY DEF Reads, Src
<1>2. PICK s \in Src :
        /\ s = [src EXCEPT !.agu = IF direct_load_pad_active THEN @ ELSE AguEdge(@)]
        /\ s.ar = src.ar /\ s.r_ready = src.r_ready /\ Reads(s, buffer, memory.rd \o src.ar, n)
  <2>1. PICK x \in Agu :
          /\ x = IF direct_load_pad_active THEN src.agu ELSE AguEdge(src.agu)
          /\ ~direct_load_pad_active =>
               src.skip <= src.issued /\ Generates(x, src.issued - src.skip)
    <3>1. CASE direct_load_pad_active
      BY <1>1, <3>1
    <3>2. CASE ~direct_load_pad_active
      <4>1. src.skip <= src.issued /\ Generates(src.agu, src.issued - src.skip)
        BY <3>2 DEF Reads, Addressed
      <4>2. PICK i \in Nat : i = src.issued - src.skip
        BY <1>1, <4>1 DEF Src
      <4>3. AguEdge(src.agu) \in Agu /\ Generates(AguEdge(src.agu), i)
        BY <1>1, <4>1, <4>2, AguStep
      <4> QED
        BY <3>2, <4>1, <4>2, <4>3
    <3> QED
      BY <3>1, <3>2
  <2>2. WithAgu(src, x) = [src EXCEPT !.agu = IF direct_load_pad_active THEN @ ELSE AguEdge(@)]
    BY <2>1 DEF WithAgu
  <2>3. PICK s \in Src :
          /\ s = WithAgu(src, x) /\ s.agu = x /\ s.issued = src.issued /\ s.skip = src.skip
          /\ s.ar = src.ar /\ s.txn = src.txn /\ s.inflight = src.inflight /\ s.resp = src.resp
          /\ s.r_ready = src.r_ready
    BY <1>1, SrcAgu
  <2>4. direct_load_pad_active \/ Addressed(s)
    BY <2>1, <2>3 DEF Addressed
  <2>5. Reads(s, buffer, memory.rd \o src.ar, n)
    BY <1>1, <2>3, <2>4, ReadsSame
  <2> QED
    BY <2>2, <2>3, <2>5
<1> DEFINE g == IF r THEN Given(memory.rd) ELSE memory.rd
<1>3. PICK t \in Src : /\ g \in Seq(Burst) /\ t = taken(r) /\ t.ar = src.ar
                       /\ Reads(t, buffer, g \o src.ar, n)
  <2>1. r => s.r_ready /\ memory.rd # <<>>
    BY <1>2
  <2>2. /\ (IF r THEN Given(memory.rd) ELSE memory.rd) \in Seq(Burst)
        /\ \E t \in Src :
             /\ t = TakeRead(s, r) /\ t.ar = s.ar
             /\ Reads(t, buffer, (IF r THEN Given(memory.rd) ELSE memory.rd) \o src.ar, n)
    BY <1>1, <1>2, <2>1, Takes, ZenonT(60)
  <2> QED
    BY <1>2, <2>2 DEF taken
<1> HIDE DEF g
<1>4. PICK u \in Src :
        /\ u = WithResp(t, SubSeq(t.resp, Len(to_buffer(t, buffer)) + 1, Len(t.resp)))
        /\ u.ar = src.ar /\ Reads(u, buffer \o to_buffer(t, buffer), g \o src.ar, n)
        /\ Len(buffer \o to_buffer(t, buffer)) >= Len(buffer)
  <2>1. PICK q : q = g \o src.ar /\ Reads(t, buffer, q, n)
    BY <1>3
  <2>2. \E u \in Src :
          /\ u = WithResp(t, SubSeq(t.resp, Len(to_buffer(t, buffer)) + 1, Len(t.resp)))
          /\ u.ar = t.ar /\ Reads(u, buffer \o to_buffer(t, buffer), q, n)
          /\ Len(buffer \o to_buffer(t, buffer)) >= Len(buffer)
    BY <2>1, Moves
  <2> QED
    BY <1>3, <2>1, <2>2
<1>5. PICK buf : buf = buffer \o to_buffer(t, buffer)
  OBVIOUS
<1>6. /\ rd_after(r, a) \in Seq(Burst)
      /\ ReadsOn(SrcIssue(u, buf, a), rd_after(r, a), buf, n)
  <2>1. Reads(u, buf, g \o u.ar, n)
    BY <1>4, <1>5
  <2>2. rd_after(r, a) = g \o (IF a THEN u.ar ELSE <<>>)
    BY <1>4 DEF g, rd_after
  <2> QED
    BY <1>3, <2>1, <2>2, Issues
<1>7. SrcIssue(u, buf, a) = read(r, a)
  BY <1>3, <1>4, <1>5 DEF read
<1>8. /\ Len(buffer) \in Nat /\ Len(buf) \in Nat /\ Len(buf) >= Len(buffer)
      /\ Len(SrcIssue(u, buf, a).buffer) \in Nat
  <2>1. buffer \in Seq(Nat) /\ buf \in Seq(Nat) /\ SrcIssue(u, buf, a).buffer \in Seq(Nat)
    BY <1>4, <1>5, <1>6 DEF ReadsOn, Reads, Follow
  <2> QED
    BY <1>4, <1>5, <2>1, LenProperties
<1>9. Len(SrcIssue(u, buf, a).buffer) >= Len(buffer)
  BY <1>6, <1>8 DEF ReadsOn
<1> QED
  BY <1>6, <1>7, <1>9 DEF ReadsOn

-----------------------------------------------------------------------------
(* The write side.                                                         *)

\* The ends of some bursts and one more.
LEMMA EndsMore ==
  ASSUME NEW s \in Seq(Burst), NEW e \in Burst, NEW q
  PROVE  Ends(s \o <<e>>, q) <=> Ends(s, q) \/ over(e) = q
<1>1. PICK l \in Nat : l = Len(s)
  BY LenProperties
<1>2. PICK b : b = s \o <<e>> /\ Len(b) = l + 1 /\ b[l + 1] = e /\ \A i \in 1 .. l : b[i] = s[i]
  <2>1. /\ Len(s \o <<e>>) = Len(s) + 1 /\ (s \o <<e>>)[Len(s) + 1] = e
        /\ \A i \in 1 .. Len(s) : (s \o <<e>>)[i] = s[i]
    BY OneMore
  <2> QED
    BY <1>1, <2>1
<1>3. ASSUME Ends(b, q) PROVE Ends(s, q) \/ over(e) = q
  <2>1. PICK j \in 1 .. l + 1 : over(b[j]) = q
    BY <1>2, <1>3 DEF Ends
  <2>2. CASE j = l + 1
    BY <1>2, <2>1, <2>2
  <2>3. CASE j \in 1 .. l
    BY <1>1, <1>2, <2>1, <2>3 DEF Ends
  <2> QED
    BY <2>2, <2>3
<1>4. ASSUME Ends(s, q) PROVE Ends(b, q)
  <2>1. PICK j \in 1 .. l : over(s[j]) = q
    BY <1>1, <1>4 DEF Ends
  <2>2. j \in 1 .. l + 1 /\ over(b[j]) = q
    BY <1>2, <2>1
  <2> QED
    BY <1>2, <2>2 DEF Ends
<1>5. ASSUME over(e) = q PROVE Ends(b, q)
  <2>1. l + 1 \in 1 .. l + 1 /\ over(b[l + 1]) = q
    BY <1>2, <1>5
  <2> QED
    BY <1>2, <2>1 DEF Ends
<1> QED
  BY <1>2, <1>3, <1>4, <1>5

\* Where the last of some bursts ends, and that no other ends after its first beat.
LEMMA EndsLast ==
  ASSUME NEW s, NEW f \in Nat, NEW t \in Nat, Covers(s, f, t), NEW q \in Nat
  PROVE  /\ q > t => ~Ends(s, q)
         /\ s # <<>> => Ends(s, t)
         /\ s # <<>> /\ s[Len(s)].first < q /\ q # t => ~Ends(s, q)
<1>1. s \in Seq(Burst)
  BY DEF Covers
<1>2. PICK l \in Nat : l = Len(s)
  BY <1>1, LenProperties
<1>3. \A i \in 1 .. l : s[i] \in Burst /\ over(s[i]) \in Nat /\ over(s[i]) <= t
  <2>1. ASSUME NEW i \in 1 .. l PROVE s[i] \in Burst /\ over(s[i]) \in Nat /\ over(s[i]) <= t
    <3>1. s[i] \in Burst
      BY <1>1, <1>2, ElementOfSeq
    <3>2. over(s[i]) <= t
      BY <1>2 DEF Covers
    <3> QED
      BY <3>1, <3>2, BurstIs
  <2> QED
    BY <2>1
<1>4. ASSUME q > t PROVE ~Ends(s, q)
  BY <1>2, <1>3, <1>4 DEF Ends
<1>5. ASSUME s # <<>> PROVE l \in 1 .. l /\ over(s[l]) = t
  <2>1. l # 0
    BY <1>1, <1>2, <1>5, EmptySeq
  <2> QED
    BY <1>2, <1>5, <2>1 DEF Covers
<1>6. ASSUME s # <<>>, s[Len(s)].first < q, q # t PROVE ~Ends(s, q)
  <2>1. ASSUME NEW i \in 1 .. l PROVE over(s[i]) # q
    <3>1. CASE i = l
      BY <1>5, <1>6, <3>1
    <3>2. CASE i # l
      <4>1. i < l /\ l \in 1 .. l
        BY <3>2
      <4>2. over(s[i]) <= s[l].first
        BY <1>2, <4>1 DEF Covers
      <4>3. s[l].first < q /\ s[l].first \in Nat
        BY <1>2, <1>3, <1>6, <4>1, BurstIs
      <4> QED
        BY <1>3, <4>2, <4>3
    <3> QED
      BY <3>1, <3>2
  <2> QED
    BY <1>2, <2>1 DEF Ends
<1>7. ASSUME s # <<>> PROVE Ends(s, t)
  BY <1>2, <1>5, <1>7 DEF Ends
<1> QED
  BY <1>4, <1>6, <1>7

\* Where the first of some bursts ends, and that all others end after it.
LEMMA EndsRest ==
  ASSUME NEW s, NEW f \in Nat, NEW t \in Nat, Covers(s, f, t), s # <<>>, NEW q \in Nat
  PROVE  /\ Ends(s, over(s[1]))
         /\ q < over(s[1]) => ~Ends(s, q)
         /\ q > over(s[1]) => (Ends(Tail(s), q) <=> Ends(s, q))
<1>1. s \in Seq(Burst)
  BY DEF Covers
<1>2. PICK l \in Nat : Len(s) = l + 1
  <2>1. Len(s) \in Nat \ {0}
    BY <1>1, EmptySeq
  <2>2. Len(s) - 1 \in Nat /\ Len(s) = (Len(s) - 1) + 1
    BY <2>1
  <2> QED
    BY <2>2
<1>3. PICK r : r = Tail(s) /\ Len(r) = l /\ \A i \in 1 .. l : r[i] = s[i + 1]
  BY <1>1, <1>2, TailAt, ZenonT(60)
<1>4. \A i \in 1 .. l + 1 : s[i] \in Burst /\ over(s[i]) \in Nat /\ over(s[i]) > s[i].first
  BY <1>1, <1>2, ElementOfSeq, BurstIs
<1>5. 1 \in 1 .. l + 1
  OBVIOUS
<1>6. Ends(s, over(s[1]))
  BY <1>2, <1>5 DEF Ends
<1>7. ASSUME NEW i \in 1 .. l + 1, i # 1 PROVE over(s[i]) > over(s[1])
  <2>1. 1 < i
    BY <1>7
  <2>2. over(s[1]) <= s[i].first
    BY <1>2, <1>5, <2>1 DEF Covers
  <2>3. s[i].first \in Nat
    BY <1>4, BurstIs
  <2> QED
    BY <1>4, <1>5, <2>2, <2>3
<1>8. ASSUME q < over(s[1]) PROVE ~Ends(s, q)
  <2>1. ASSUME NEW i \in 1 .. l + 1 PROVE over(s[i]) # q
    BY <1>4, <1>5, <1>7, <1>8
  <2> QED
    BY <1>2, <2>1 DEF Ends
<1>9. ASSUME q > over(s[1]), Ends(s, q) PROVE Ends(r, q)
  <2>1. PICK i \in 1 .. l + 1 : over(s[i]) = q
    BY <1>2, <1>9 DEF Ends
  <2>2. i # 1
    BY <1>4, <1>5, <1>9, <2>1
  <2>3. PICK j \in 1 .. l : i = j + 1
    <3>1. i - 1 \in 1 .. l /\ i = (i - 1) + 1
      BY <2>2
    <3> QED
      BY <3>1
  <2> QED
    BY <1>3, <2>1, <2>3 DEF Ends
<1>10. ASSUME Ends(r, q) PROVE Ends(s, q)
  <2>1. PICK j \in 1 .. l : over(r[j]) = q
    BY <1>3, <1>10 DEF Ends
  <2>2. j + 1 \in 1 .. l + 1 /\ over(s[j + 1]) = q
    BY <1>3, <2>1
  <2> QED
    BY <1>2, <2>2 DEF Ends
<1> QED
  BY <1>3, <1>6, <1>8, <1>9, <1>10

\* The write side when addresses and data were taken.
Sent(d, a, w) == [d EXCEPT !.aw = IF a THEN <<>> ELSE @, !.w = IF w THEN <<>> ELSE @]

\* The rest is as it was.
LEMMA DstAgu ==
  ASSUME NEW d \in Dst, NEW x \in Agu
  PROVE  /\ WithAgu(d, x) \in Dst /\ WithAgu(d, x).agu = x
         /\ WithAgu(d, x).issued = d.issued /\ WithAgu(d, x).skip = d.skip
         /\ WithAgu(d, x).aw = d.aw /\ WithAgu(d, x).w = d.w
         /\ WithAgu(d, x).w_beats_left = d.w_beats_left /\ WithAgu(d, x).txn = d.txn
         /\ WithAgu(d, x).b_ready = d.b_ready
BY DEF Dst, WithAgu

\* The rest is as it was.
LEMMA DstSkip ==
  ASSUME NEW d \in Dst, NEW x \in Agu, NEW j \in Nat
  PROVE  /\ WithSkip(d, x, j) \in Dst /\ WithSkip(d, x, j).agu = x
         /\ WithSkip(d, x, j).issued = d.issued /\ WithSkip(d, x, j).skip = j
         /\ WithSkip(d, x, j).aw = d.aw /\ WithSkip(d, x, j).w = d.w
         /\ WithSkip(d, x, j).w_beats_left = d.w_beats_left /\ WithSkip(d, x, j).txn = d.txn
         /\ WithSkip(d, x, j).b_ready = d.b_ready
BY DEF Dst, WithSkip

\* The rest is as it was.
LEMMA DstSent ==
  ASSUME NEW d \in Dst, NEW a, NEW w
  PROVE  /\ Sent(d, a, w) \in Dst /\ Sent(d, a, w).agu = d.agu
         /\ Sent(d, a, w).issued = d.issued /\ Sent(d, a, w).skip = d.skip
         /\ Sent(d, a, w).w_beats_left = d.w_beats_left /\ Sent(d, a, w).txn = d.txn
         /\ Sent(d, a, w).aw = (IF a THEN <<>> ELSE d.aw)
         /\ Sent(d, a, w).w = (IF w THEN <<>> ELSE d.w)
<1>1. (IF a THEN <<>> ELSE d.aw) \in Seq(Burst) /\ (IF w THEN <<>> ELSE d.w) \in Seq(Datum)
  BY DEF Dst
<1> QED
  BY <1>1 DEF Dst, Sent

\* What of the write side the beats that follow are told by.
LEMMA WritesSame ==
  ASSUME NEW d \in Dst, NEW bf, NEW q, NEW data, NEW answers, NEW n \in Nat,
         Writes(d, bf, q, data, answers, n), NEW t \in Dst,
         t.issued = d.issued, t.w_beats_left = d.w_beats_left, t.txn = d.txn, Addressed(t)
  PROVE  Writes(t, bf, q, data, answers, n)
BY DEF Writes

\* An edge of the address generator.
LEMMA DstClocks ==
  ASSUME active \in Runnable, NEW d \in Dst, NEW bf, NEW q, NEW data, NEW answers, NEW n \in Nat,
         Writes(d, bf, q, data, answers, n)
  PROVE  \E t \in Dst :
           /\ t = [d EXCEPT !.agu = AguEdge(@)]
           /\ Writes(t, bf, q, data, answers, n) /\ t.agu.queued # 0
           /\ t.aw = d.aw /\ t.w = d.w /\ t.txn = d.txn /\ t.b_ready = d.b_ready
<1>1. d.agu \in Agu /\ d.skip <= d.issued /\ Generates(d.agu, d.issued - d.skip)
  BY DEF Writes, Addressed, Dst
<1>2. PICK i \in Nat : i = d.issued - d.skip
  BY <1>1 DEF Dst
<1>3. AguEdge(d.agu) \in Agu /\ Generates(AguEdge(d.agu), i) /\ AguEdge(d.agu).queued # 0
  BY <1>1, <1>2, AguStep
<1>4. PICK x \in Agu : x = AguEdge(d.agu) /\ Generates(x, i) /\ x.queued # 0
  BY <1>3
<1>5. PICK t \in Dst :
        /\ t = WithAgu(d, x) /\ t.agu = x /\ t.issued = d.issued /\ t.skip = d.skip
        /\ t.aw = d.aw /\ t.w = d.w /\ t.w_beats_left = d.w_beats_left /\ t.txn = d.txn
        /\ t.b_ready = d.b_ready
  BY DstAgu
<1>6. Addressed(t)
  BY <1>1, <1>2, <1>4, <1>5 DEF Addressed
<1>7. Writes(t, bf, q, data, answers, n)
  BY <1>5, <1>6, WritesSame
<1>8. t = [d EXCEPT !.agu = AguEdge(@)]
  BY <1>4, <1>5 DEF WithAgu
<1> QED
  BY <1>4, <1>5, <1>7, <1>8

\* Addresses of beats that were issued are dropped, and no others.
LEMMA SkipDst ==
  ASSUME active \in Runnable, NEW d \in Dst, Addressed(d)
  PROVE  \E t \in Dst :
           /\ t = SkipBurst(d) /\ Addressed(t) /\ t.agu.queued = d.agu.queued
           /\ t.issued = d.issued /\ t.aw = d.aw /\ t.w = d.w
           /\ t.w_beats_left = d.w_beats_left /\ t.txn = d.txn
<1>1. d.agu \in Agu /\ d.skip \in Nat /\ d.issued \in Nat
  BY DEF Dst
<1>2. d.agu.fifo \in Seq(Nat) /\ Len(d.agu.fifo) \in Nat
  <2>1. d.agu.fifo \in Seq(Nat)
    BY <1>1 DEF Agu
  <2> QED
    BY <2>1, LenProperties
<1>3. PICK k \in Nat : k = Min({d.skip, Len(d.agu.fifo)}) /\ k <= d.skip /\ k <= Len(d.agu.fifo)
  BY <1>1, <1>2, Drops
<1>4. PICK g \in Seq(Nat) : g = SubSeq(d.agu.fifo, k + 1, Len(d.agu.fifo))
  BY <1>2, <1>3, Dropped
<1>5. PICK x \in Agu : /\ x = [d.agu EXCEPT !.fifo = g]
                       /\ x.queued = d.agu.queued /\ x.pipe = d.agu.pipe /\ x.fifo = g
  BY <1>1, AguFifo
<1>6. PICK j \in Nat : j = d.skip - k
  BY <1>1, <1>3
<1>7. SkipBurst(d) = WithSkip(d, x, j)
  BY <1>3, <1>4, <1>5, <1>6 DEF SkipBurst, WithSkip, Dst
<1>8. PICK t \in Dst : /\ t = SkipBurst(d) /\ t.agu = x /\ t.skip = j
                       /\ t.issued = d.issued /\ t.aw = d.aw /\ t.w = d.w
                       /\ t.w_beats_left = d.w_beats_left /\ t.txn = d.txn
  BY <1>7, DstSkip
<1>9. PICK n \in Nat : n = d.issued - d.skip /\ d.skip <= d.issued /\ Generates(d.agu, n)
  BY <1>1 DEF Addressed
<1>10. Generates(x, n + k)
  BY <1>1, <1>3, <1>4, <1>5, <1>9, AguTake, ZenonT(60)
<1>11. n + k = t.issued - t.skip /\ t.skip <= t.issued
  BY <1>1, <1>3, <1>6, <1>8, <1>9, SMTT(30)
<1>12. Addressed(t)
  BY <1>8, <1>10, <1>11 DEF Addressed
<1> QED
  BY <1>5, <1>8, <1>12

\* What retiring a burst does to the write side.
LEMMA RetireIs ==
  ASSUME NEW d \in Dst, NEW b \in BOOLEAN, b => d.b_ready /\ d.txn # <<>>
  PROVE  /\ Retire(d, b) \in Dst /\ Retire(d, b).agu = d.agu
         /\ Retire(d, b).issued = d.issued /\ Retire(d, b).skip = d.skip
         /\ Retire(d, b).aw = d.aw /\ Retire(d, b).w = d.w
         /\ Retire(d, b).w_beats_left = d.w_beats_left
         /\ Retire(d, b).txn = IF b THEN Tail(d.txn) ELSE d.txn
<1>1. (d.txn # <<>>) \in BOOLEAN /\ d.txn \in Seq(Nat) /\ d.retired \in Nat
  BY DEF Dst
<1>2. CASE b
  <2>1. b /\ d.b_ready /\ d.txn # <<>>
    BY <1>2
  <2>2. PICK y \in Seq(Nat), m \in Nat : y = Tail(d.txn) /\ m = d.retired + Head(d.txn)
    <3>1. Tail(d.txn) \in Seq(Nat) /\ Head(d.txn) \in Nat
      BY <1>1, <2>1, HeadTailProperties
    <3>2. d.retired + Head(d.txn) \in Nat
      BY <1>1, <3>1
    <3> QED
      BY <3>1, <3>2, Zenon
  <2>3. Retire(d, b) = [d EXCEPT !.b_ready = d.txn # <<>>, !.retired = m, !.txn = y]
    BY <2>1, <2>2 DEF Retire, Dst
  <2> QED
    BY <1>1, <1>2, <2>2, <2>3 DEF Dst
<1>3. CASE ~b
  <2>1. Retire(d, b) = [d EXCEPT !.b_ready = d.txn # <<>>]
    BY <1>3 DEF Retire, Dst
  <2> QED
    BY <1>1, <1>3, <2>1 DEF Dst
<1> QED
  BY <1>2, <1>3

\* An answer retires a burst.
LEMMA Retires ==
  ASSUME NEW d \in Dst, NEW bf, NEW q, NEW data, NEW answers \in Nat, NEW n \in Nat,
         Writes(d, bf, q, data, answers, n), NEW b \in BOOLEAN, b => d.b_ready /\ answers > 0,
         NEW left \in Nat, answers = left + IF b THEN 1 ELSE 0
  PROVE  \E t \in Dst :
           /\ t = Retire(d, b) /\ Writes(t, bf, q, data, left, n)
           /\ t.agu = d.agu /\ t.aw = d.aw /\ t.w = d.w
<1>1. PICK y \in Seq(Nat), l \in Nat :
        y = d.txn /\ l = Len(q) /\ Len(y) = answers + l
  <2>1. q \in Seq(Burst) /\ d.txn \in Seq(Nat) /\ Len(d.txn) = answers + Len(q)
    BY DEF Writes, Covers, Dst
  <2> QED
    BY <2>1, LenProperties
<1>2. b => d.txn # <<>>
  <2>1. ASSUME b PROVE y # <<>>
    <3>1. Len(y) # 0
      BY <1>1, <2>1
    <3> QED
      BY <3>1, EmptySeq
  <2> QED
    BY <1>1, <2>1
<1>3. PICK t \in Dst :
        /\ t = Retire(d, b) /\ t.agu = d.agu /\ t.issued = d.issued /\ t.skip = d.skip
        /\ t.aw = d.aw /\ t.w = d.w /\ t.w_beats_left = d.w_beats_left
        /\ t.txn = IF b THEN Tail(d.txn) ELSE d.txn
  BY <1>2, RetireIs
<1>4. Len(t.txn) = left + Len(q)
  <2>1. CASE b
    <3>1. Len(y) = (left + l) + 1
      BY <1>1, <2>1
    <3>2. PICK k \in Nat : k = left + l
      BY <1>1
    <3>3. Len(Tail(y)) = k
      BY <3>1, <3>2, TailAt
    <3> QED
      BY <1>1, <1>3, <2>1, <3>2, <3>3
  <2>2. CASE ~b
    BY <1>1, <1>3, <2>2
  <2> QED
    BY <2>1, <2>2
<1>5. Addressed(t)
  BY <1>3 DEF Writes, Addressed
<1>6. Writes(t, bf, q, data, left, n)
  BY <1>3, <1>4, <1>5 DEF Writes
<1> QED
  BY <1>3, <1>6

\* The write side after the next beat of a burst, and after the first of one of n beats.
GoesOn(d, buf) ==
  [d EXCEPT !.w_beats_left = @ - 1,
            !.w = <<[data |-> Head(buf), last |-> d.w_beats_left = 1]>>]
Begun(d, buf, n) ==
  [d EXCEPT !.aw = <<[first |-> Head(d.agu.fifo), beats |-> n]>>,
            !.w = <<[data |-> Head(buf), last |-> n = 1]>>,
            !.w_beats_left = n - 1, !.issued = @ + n,
            !.txn = Append(@, n), !.agu.fifo = Tail(@), !.skip = n - 1]
WithBegun(d, aw, w, l, e, y, x, j) ==
  [d EXCEPT !.aw = aw, !.w = w, !.w_beats_left = l, !.issued = e, !.txn = y, !.agu = x,
            !.skip = j]
IsBegun(t, aw, w, l, e, y, x, j) ==
  /\ t \in Dst /\ t.aw = aw /\ t.w = w /\ t.w_beats_left = l /\ t.issued = e
  /\ t.txn = y /\ t.agu = x /\ t.skip = j

\* Whether a burst goes on, or one begins.
goes_on(d) == d.w = <<>> /\ d.w_beats_left > 0
begins(d, buf) ==
  /\ d.aw = <<>> /\ d.w = <<>> /\ d.w_beats_left = 0
  /\ d.issued < active.beats /\ Len(d.txn) < kDmaMaxOutstanding
  /\ d.skip = 0 /\ d.agu.fifo # <<>>
  /\ has_burst(buf, burst_beats(d.issued + 1, active.dst_cuts))

\* A beat of the data written, by its parts.
LEMMA DatumOf ==
  ASSUME NEW a \in Nat, NEW b \in BOOLEAN
  PROVE  /\ [data |-> a, last |-> b] \in Datum
         /\ [data |-> a, last |-> b].data = a /\ [data |-> a, last |-> b].last = b
BY DEF Datum

\* The rest is as it was.
LEMMA DstGoesOn ==
  ASSUME NEW d \in Dst, d.w_beats_left > 0, NEW buf, Head(buf) \in Nat
  PROVE  /\ GoesOn(d, buf) \in Dst /\ GoesOn(d, buf).agu = d.agu
         /\ GoesOn(d, buf).issued = d.issued /\ GoesOn(d, buf).skip = d.skip
         /\ GoesOn(d, buf).aw = d.aw /\ GoesOn(d, buf).txn = d.txn
         /\ GoesOn(d, buf).w_beats_left = d.w_beats_left - 1
         /\ GoesOn(d, buf).w = <<[data |-> Head(buf), last |-> d.w_beats_left = 1]>>
<1>1. PICK l \in Nat : l = d.w_beats_left - 1
  BY DEF Dst
<1>2. PICK x \in Datum : x = [data |-> Head(buf), last |-> d.w_beats_left = 1]
  <2>1. [data |-> Head(buf), last |-> d.w_beats_left = 1] \in Datum
    BY DEF Datum
  <2> QED
    BY <2>1, Zenon
<1>3. PICK w \in Seq(Datum) : w = <<x>>
  <2>1. <<x>> \in Seq(Datum)
    OBVIOUS
  <2> QED
    BY <2>1
<1>4. GoesOn(d, buf) = [d EXCEPT !.w_beats_left = l, !.w = w]
  BY <1>1, <1>2, <1>3 DEF GoesOn
<1>5. PICK t : t = [d EXCEPT !.w_beats_left = l, !.w = w]
  OBVIOUS
<1>6. /\ t \in Dst /\ t.agu = d.agu /\ t.issued = d.issued /\ t.skip = d.skip
      /\ t.aw = d.aw /\ t.txn = d.txn /\ t.w_beats_left = l /\ t.w = w
  BY <1>5 DEF Dst
<1> QED
  BY <1>1, <1>2, <1>3, <1>4, <1>5, <1>6

\* The rest is as it was.
LEMMA DstBegun ==
  ASSUME NEW d \in Dst, NEW aw \in Seq(Burst), NEW w \in Seq(Datum), NEW l \in Nat,
         NEW e \in Nat, NEW y \in Seq(Nat), NEW x \in Agu, NEW j \in Nat
  PROVE  IsBegun(WithBegun(d, aw, w, l, e, y, x, j), aw, w, l, e, y, x, j)
BY DEF Dst, WithBegun, IsBegun

\* What comes of the write side and the buffer: a burst goes on, or one begins, or
\* nothing is sent.
Sending(i, d, buf) ==
  /\ goes_on(d) => i = [side |-> GoesOn(d, buf), buffer |-> Tail(buf)]
  /\ begins(d, buf) =>
       i = [side |-> Begun(d, buf, burst_beats(d.issued + 1, active.dst_cuts)),
            buffer |-> Tail(buf)]
  /\ ~goes_on(d) /\ ~begins(d, buf) => i = [side |-> d, buffer |-> buf]

\* It is one of these.
LEMMA DstIssueIs ==
  ASSUME NEW d0, NEW buf, NEW a, NEW w, NEW d \in Dst, d = Sent(SkipBurst(d0), a, w)
  PROVE  Sending(DstIssue(d0, buf, a, w), d, buf)
<1>1. [SkipBurst(d0) EXCEPT !.aw = IF a THEN <<>> ELSE @, !.w = IF w THEN <<>> ELSE @] = d
  BY DEF Sent
<1>2. CASE goes_on(d)
  <2>1. ~(GoesOn(d, buf).w = <<>>)
    BY DEF GoesOn, Dst
  <2>2. d.w = <<>> /\ d.w_beats_left > 0 /\ ~begins(d, buf)
    BY <1>2 DEF goes_on, begins, Dst
  <2>3. [d EXCEPT !.w_beats_left = @ - 1,
                  !.w = <<[data |-> Head(buf), last |-> d.w_beats_left = 1]>>] = GoesOn(d, buf)
    BY DEF GoesOn
  <2> QED
    BY <1>1, <1>2, <2>1, <2>2, <2>3, Zenon DEF DstIssue, Sending
<1>3. CASE ~goes_on(d)
  BY <1>1, <1>3, Zenon DEF DstIssue, Sending, goes_on, begins, Begun
<1> QED
  BY <1>2, <1>3

\* A beat of the data is that of its place, and says whether it ends a burst.
Carries(x, bursts, beat) == x.data = beat /\ (x.last <=> Ends(bursts, beat + 1))

\* The write side in numbers: of the e beats issued the first n are in the destination,
\* k more are sent, and l are left of the last burst.
WritesAt(d, q, data, n, k, e, l) ==
  /\ k = Len(data) /\ e = d.issued /\ l = d.w_beats_left
  /\ k + l + n = e /\ e <= active.beats /\ Covers(q, n + 1, e + 1)
  /\ \A i \in 1 .. k : Carries(data[i], q, n + i)
  /\ q # <<>> => q[Len(q)].first <= n + k

\* The write side has such numbers.
LEMMA WritesIs ==
  ASSUME NEW d, NEW bf, NEW q, NEW data, NEW answers, NEW n,
         Writes(d, bf, q, data, answers, n)
  PROVE  /\ d \in Dst /\ q \in Seq(Burst) /\ data \in Seq(Datum) /\ answers \in Nat /\ n \in Nat
         /\ d.w_beats_left <= bf /\ Len(d.txn) = answers + Len(q) /\ Addressed(d)
         /\ \E k \in Nat, e \in Nat, l \in Nat : WritesAt(d, q, data, n, k, e, l)
<1>1. d \in Dst /\ q \in Seq(Burst) /\ data \in Seq(Datum)
  BY DEF Writes, Covers
<1>2. Len(data) \in Nat /\ d.issued \in Nat /\ d.w_beats_left \in Nat
  BY <1>1, LenProperties DEF Dst
<1>3. WritesAt(d, q, data, n, Len(data), d.issued, d.w_beats_left)
  BY <1>2 DEF Writes, WritesAt, Carries
<1> QED
  BY <1>1, <1>2, <1>3 DEF Writes

\* A state of the write side with these numbers.
LEMMA WritesFrom ==
  ASSUME NEW d \in Dst, NEW bf, NEW q, NEW data \in Seq(Datum), NEW answers \in Nat,
         NEW n \in Nat,
         NEW k \in Nat, NEW e \in Nat, NEW l \in Nat, WritesAt(d, q, data, n, k, e, l),
         d.w_beats_left <= bf, Len(d.txn) = answers + Len(q), Addressed(d)
  PROVE  Writes(d, bf, q, data, answers, n)
BY DEF Writes, WritesAt, Carries

\* The write side with one beat of the data more, of the last burst or of a new one.
ContinuesOn(t, d, bf, q, data, answers, n) ==
  /\ t \in Dst /\ Writes(t, bf, q, data \o t.w, answers, n)
  /\ t.agu = d.agu /\ t.aw = d.aw /\ t.w \in Seq(Datum) /\ Len(t.w) = 1
BeginsOn(t, d, bf, q, data, answers, n) ==
  /\ t \in Dst /\ Writes(t, bf, q \o t.aw, data \o t.w, answers, n)
  /\ t.agu.queued = d.agu.queued /\ t.w \in Seq(Datum) /\ Len(t.w) = 1

\* The next beat of a burst is sent.
LEMMA Continues ==
  ASSUME NEW d \in Dst, NEW bf \in Nat, NEW q, NEW data, NEW answers, NEW n,
         Writes(d, bf + 1, q, data, answers, n), goes_on(d),
         NEW buf, Head(buf) = n + Len(data) + 1
  PROVE  ContinuesOn(GoesOn(d, buf), d, bf, q, data, answers, n)
<1>1. /\ q \in Seq(Burst) /\ data \in Seq(Datum) /\ answers \in Nat /\ n \in Nat
      /\ d.w_beats_left <= bf + 1 /\ Len(d.txn) = answers + Len(q) /\ Addressed(d)
  BY WritesIs
<1>2. PICK k \in Nat, e \in Nat, l \in Nat : WritesAt(d, q, data, n, k, e, l)
  BY WritesIs
<1>3. PICK m \in Nat : l = m + 1 /\ m <= bf
  <2>1. l > 0 /\ l <= bf + 1
    BY <1>1, <1>2 DEF goes_on, WritesAt
  <2>2. l - 1 \in Nat /\ l = (l - 1) + 1 /\ l - 1 <= bf
    BY <2>1
  <2> QED
    BY <2>2
<1>4. PICK j \in Nat : j = n + k + 1 /\ j = Head(buf) /\ j = n + (k + 1)
  BY <1>1, <1>2, SMTT(30) DEF WritesAt
<1>5. PICK x \in Datum : /\ x = [data |-> Head(buf), last |-> d.w_beats_left = 1]
                         /\ x.data = j /\ (x.last <=> m = 0)
  <2>1. /\ [data |-> j, last |-> d.w_beats_left = 1] \in Datum
        /\ [data |-> j, last |-> d.w_beats_left = 1].data = j
        /\ [data |-> j, last |-> d.w_beats_left = 1].last = (d.w_beats_left = 1)
    BY DatumOf
  <2>2. d.w_beats_left = 1 <=> m = 0
    BY <1>2, <1>3 DEF WritesAt
  <2> QED
    BY <1>4, <2>1, <2>2
<1>6. PICK t \in Dst : /\ t = GoesOn(d, buf) /\ t.agu = d.agu /\ t.issued = d.issued
                       /\ t.skip = d.skip /\ t.aw = d.aw /\ t.txn = d.txn
                       /\ t.w_beats_left = m /\ t.w = <<x>>
  <2>1. d.w_beats_left > 0 /\ Head(buf) \in Nat /\ d.w_beats_left - 1 = m
    BY <1>2, <1>3, <1>4 DEF WritesAt
  <2> QED
    BY <1>5, <2>1, DstGoesOn
<1>7. PICK data2 \in Seq(Datum) :
        /\ data2 = data \o t.w /\ Len(data2) = k + 1 /\ data2[k + 1] = x
        /\ \A i \in 1 .. k : data2[i] = data[i]
  <2>1. /\ data \o <<x>> \in Seq(Datum) /\ Len(data \o <<x>>) = Len(data) + 1
        /\ (data \o <<x>>)[Len(data) + 1] = x
        /\ \A i \in 1 .. Len(data) : (data \o <<x>>)[i] = data[i]
    BY <1>1, OneMore
  <2>2. k = Len(data)
    BY <1>2 DEF WritesAt
  <2> QED
    BY <1>6, <2>1, <2>2
<1>8. q # <<>> => q[Len(q)].first <= n + k /\ q[Len(q)].first \in Nat
  <2>1. q # <<>> => q[Len(q)] \in Burst
    <3>1. ASSUME q # <<>> PROVE Len(q) \in 1 .. Len(q)
      BY <1>1, <3>1, EmptySeq, LenProperties
    <3> QED
      BY <1>1, <3>1, ElementOfSeq
  <2> QED
    BY <1>2, <2>1, BurstIs DEF WritesAt
<1>9. PICK f \in Nat, u \in Nat, v \in Nat :
        f = n + 1 /\ u = e + 1 /\ v = j + 1 /\ f < u /\ Covers(q, f, u) /\ q # <<>> /\ v = u - m
  <2>1. Covers(q, n + 1, e + 1) /\ k + l + n = e
    BY <1>2 DEF WritesAt
  <2>2. PICK f \in Nat, u \in Nat, v \in Nat : f = n + 1 /\ u = e + 1 /\ v = j + 1
    BY <1>1
  <2>3. f < u /\ v = u - m
    BY <1>1, <1>3, <1>4, <2>1, <2>2
  <2>4. Covers(q, f, u)
    BY <2>1, <2>2
  <2>5. q # <<>>
    <3>1. q = <<>> <=> f = u
      BY <2>4, CoversSome
    <3>2. f # u
      BY <2>3
    <3> QED
      BY <3>1, <3>2
  <2> QED
    BY <2>2, <2>3, <2>4, <2>5
<1>10. Carries(x, q, j)
  <2>1. CASE m = 0
    <3>1. v = u
      BY <1>9, <2>1
    <3>2. Ends(q, u)
      BY <1>9, EndsLast
    <3> QED
      BY <1>5, <1>9, <2>1, <3>1, <3>2 DEF Carries
  <2>2. CASE m # 0
    <3>1. v # u
      BY <1>9, <2>2
    <3>2. q[Len(q)].first < v
      <4>1. PICK w \in Nat : w = q[Len(q)].first /\ w <= n + k
        BY <1>8, <1>9
      <4>2. w < v
        BY <1>1, <1>4, <1>9, <4>1, SMTT(30)
      <4> QED
        BY <4>1, <4>2
    <3>3. ~Ends(q, v)
      BY <1>9, <3>1, <3>2, EndsLast
    <3> QED
      BY <1>5, <1>9, <2>2, <3>3 DEF Carries
  <2> QED
    BY <2>1, <2>2
<1>11. PICK k2 \in Nat : k2 = k + 1
  OBVIOUS
<1>12. WritesAt(t, q, data2, n, k2, e, m)
  <2>1. k2 = Len(data2) /\ e = t.issued /\ m = t.w_beats_left
    BY <1>2, <1>6, <1>7, <1>11 DEF WritesAt
  <2>2. k2 + m + n = e
    <3>1. k + l + n = e
      BY <1>2 DEF WritesAt
    <3> QED
      BY <1>1, <1>3, <1>11, <3>1
  <2>3. e <= active.beats /\ Covers(q, n + 1, e + 1)
    BY <1>2 DEF WritesAt
  <2>4. ASSUME NEW i \in 1 .. k2 PROVE Carries(data2[i], q, n + i)
    <3>1. CASE i = k + 1
      BY <1>4, <1>7, <1>10, <3>1
    <3>2. CASE i \in 1 .. k
      BY <1>2, <1>7, <3>2 DEF WritesAt
    <3> QED
      BY <1>11, <3>1, <3>2
  <2>5. q # <<>> => q[Len(q)].first <= n + k2
    BY <1>1, <1>8, <1>11
  <2> QED
    BY <2>1, <2>2, <2>3, <2>4, <2>5 DEF WritesAt
<1>13. Addressed(t)
  BY <1>1, <1>6 DEF Addressed
<1>14. Writes(t, bf, q, data2, answers, n)
  <2>1. t.w_beats_left <= bf /\ Len(t.txn) = answers + Len(q)
    BY <1>1, <1>3, <1>6
  <2> QED
    BY <1>1, <1>12, <1>13, <2>1, WritesFrom
<1>15. t.w \in Seq(Datum) /\ Len(t.w) = 1
  BY <1>6
<1> QED
  BY <1>6, <1>7, <1>14, <1>15 DEF ContinuesOn

\* The first address is taken from an address generator with none to drop.
LEMMA NextAddress ==
  ASSUME active \in Runnable, NEW d \in Dst, Addressed(d), d.skip = 0, d.agu.fifo # <<>>,
         NEW e \in Nat, e = d.issued
  PROVE  /\ Head(d.agu.fifo) = e + 1
         /\ \E x \in Agu : /\ x = [d.agu EXCEPT !.fifo = Tail(d.agu.fifo)]
                           /\ Generates(x, e + 1) /\ x.queued = d.agu.queued
<1>1. d.agu \in Agu /\ d.agu.fifo \in Seq(Nat)
  BY DEF Dst, Agu
<1>2. Generates(d.agu, e)
  <2>1. Generates(d.agu, d.issued - d.skip) /\ d.issued - d.skip = e
    BY DEF Addressed
  <2> QED
    BY <2>1, Zenon
<1>3. Tail(d.agu.fifo) \in Seq(Nat)
  BY <1>1, HeadTailProperties
<1>4. PICK x \in Agu : /\ x = [d.agu EXCEPT !.fifo = Tail(d.agu.fifo)]
                       /\ x.queued = d.agu.queued /\ x.pipe = d.agu.pipe
                       /\ x.fifo = Tail(d.agu.fifo)
  BY <1>1, <1>3, AguFifo
<1>5. Generates(x, e + 1) /\ Head(d.agu.fifo) = e + 1
  BY <1>1, <1>2, <1>4, AguNext
<1> QED
  BY <1>4, <1>5

\* A burst of b beats has begun at the beat after the first e.
Starts(d, buf, b, e) ==
  \E t \in Dst, c \in Burst, x \in Datum :
    /\ t = Begun(d, buf, b) /\ t.aw = <<c>> /\ t.w = <<x>>
    /\ c.first = e + 1 /\ c.beats = b /\ x.data = e + 1 /\ (x.last <=> b = 1)
    /\ t.w_beats_left = b - 1 /\ t.issued = e + b /\ t.txn = Append(d.txn, b)
    /\ Addressed(t) /\ t.agu.queued = d.agu.queued

\* What a burst that begins makes of the write side.
LEMMA BegunIs ==
  ASSUME active \in Runnable, NEW d \in Dst, Addressed(d), d.skip = 0, d.agu.fifo # <<>>,
         NEW e \in Nat, e = d.issued, NEW b \in Nat \ {0}, NEW buf, Head(buf) = e + 1
  PROVE  Starts(d, buf, b, e)
<1>1. PICK g \in Agu : /\ g = [d.agu EXCEPT !.fifo = Tail(d.agu.fifo)]
                       /\ Generates(g, e + 1) /\ g.queued = d.agu.queued
  BY NextAddress
<1>2. PICK f \in Nat \ {0} : f = e + 1 /\ Head(d.agu.fifo) = f /\ Head(buf) = f
  BY NextAddress
<1>3. PICK c \in Burst : c = [first |-> f, beats |-> b] /\ c.first = f /\ c.beats = b
  <2>1. /\ [first |-> f, beats |-> b] \in Burst
        /\ [first |-> f, beats |-> b].first = f /\ [first |-> f, beats |-> b].beats = b
    BY BurstOf
  <2> QED
    BY <2>1
<1>4. PICK x \in Datum : x = [data |-> f, last |-> b = 1] /\ x.data = f /\ (x.last <=> b = 1)
  <2>1. /\ [data |-> f, last |-> b = 1] \in Datum /\ [data |-> f, last |-> b = 1].data = f
        /\ [data |-> f, last |-> b = 1].last = (b = 1)
    BY DatumOf
  <2> QED
    BY <2>1
<1>5. PICK j \in Nat, z \in Nat : j = b - 1 /\ z = e + b /\ j <= z /\ z - j = e + 1
  <2>1. b - 1 \in Nat /\ e + b \in Nat /\ b - 1 <= e + b /\ (e + b) - (b - 1) = e + 1
    OBVIOUS
  <2> QED
    BY <2>1
<1>6. PICK y \in Seq(Nat) : y = Append(d.txn, b)
  <2>1. d.txn \in Seq(Nat)
    BY DEF Dst
  <2>2. Append(d.txn, b) \in Seq(Nat)
    BY <2>1, AppendProperties
  <2> QED
    BY <2>2
<1>7. PICK aw \in Seq(Burst), w \in Seq(Datum) : aw = <<c>> /\ w = <<x>>
  <2>1. <<c>> \in Seq(Burst) /\ <<x>> \in Seq(Datum)
    OBVIOUS
  <2> QED
    BY <2>1
<1>8. Begun(d, buf, b) = WithBegun(d, aw, w, j, z, y, g, j)
  <2>1. /\ aw = <<[first |-> Head(d.agu.fifo), beats |-> b]>>
        /\ w = <<[data |-> Head(buf), last |-> b = 1]>>
    BY <1>2, <1>3, <1>4, <1>7
  <2>2. j = b - 1 /\ z = d.issued + b
    BY <1>5
  <2> QED
    BY <1>1, <1>6, <2>1, <2>2 DEF Begun, WithBegun, Dst
<1>9. PICK t : t = WithBegun(d, aw, w, j, z, y, g, j) /\ IsBegun(t, aw, w, j, z, y, g, j)
  <2>1. IsBegun(WithBegun(d, aw, w, j, z, y, g, j), aw, w, j, z, y, g, j)
    BY DstBegun
  <2> QED
    BY <2>1
<1>10. /\ t \in Dst /\ t.aw = aw /\ t.w = w /\ t.w_beats_left = j /\ t.issued = z
       /\ t.txn = y /\ t.agu = g /\ t.skip = j
  BY <1>9 DEF IsBegun
<1>11. Addressed(t)
  <2>1. t.skip <= t.issued /\ t.issued - t.skip = e + 1
    BY <1>5, <1>10
  <2>2. Generates(t.agu, t.issued - t.skip)
    BY <1>1, <1>10, <2>1
  <2> QED
    BY <2>1, <2>2 DEF Addressed
<1>12. t = Begun(d, buf, b) /\ t.aw = <<c>> /\ t.w = <<x>> /\ t.agu.queued = d.agu.queued
  BY <1>1, <1>7, <1>8, <1>9, <1>10
<1>13. c.first = e + 1 /\ c.beats = b /\ x.data = e + 1 /\ (x.last <=> b = 1)
  BY <1>2, <1>3, <1>4
<1>14. t.w_beats_left = b - 1 /\ t.issued = e + b /\ t.txn = Append(d.txn, b)
  BY <1>5, <1>6, <1>10
<1> QED
  BY <1>10, <1>11, <1>12, <1>13, <1>14 DEF Starts

\* Sums of the beats of the write side when a burst of b beats begins.
LEMMA BegunSums ==
  ASSUME NEW n \in Nat, NEW k \in Nat, NEW b \in Nat \ {0}
  PROVE  /\ (k + 1) + (b - 1) + n = (n + k) + b /\ n + (k + 1) = (n + k) + 1
         /\ \A i \in 1 .. k : n + i + 1 \in Nat /\ n + i + 1 # ((n + k) + b) + 1
OBVIOUS

\* A burst begins: its address and its first beat are sent.
LEMMA Begins ==
  ASSUME active \in Runnable, NEW d \in Dst, NEW bf \in Nat, NEW q \in Seq(Burst), NEW data,
         NEW answers \in Nat, NEW n \in Nat, Writes(d, bf + 1, q \o d.aw, data, answers, n),
         NEW buf, begins(d, buf), Len(buf) = bf + 1, Head(buf) = n + Len(data) + 1,
         NEW b, b = burst_beats(d.issued + 1, active.dst_cuts)
  PROVE  BeginsOn(Begun(d, buf, b), d, bf, q, data, answers, n)
<1>1. q \o d.aw = q
  <2>1. d.aw = <<>>
    BY DEF begins
  <2> QED
    BY <2>1, ConcatEmptySeq
<1>2. /\ data \in Seq(Datum) /\ answers \in Nat /\ n \in Nat
      /\ Len(d.txn) = answers + Len(q) /\ Addressed(d)
      /\ \E k \in Nat, e \in Nat, l \in Nat : WritesAt(d, q, data, n, k, e, l)
  <2>1. Writes(d, bf + 1, q, data, answers, n)
    BY <1>1
  <2> QED
    BY <2>1, WritesIs
<1>3. PICK k \in Nat, e \in Nat, l \in Nat : WritesAt(d, q, data, n, k, e, l)
  BY <1>2
<1>4. k = Len(data) /\ e = d.issued /\ n + k = e
  BY <1>2, <1>3 DEF WritesAt, begins
<1>5. b \in Nat \ {0} /\ e + b <= active.beats
  <2>1. PICK f \in Nat, N \in Nat : f = e + 1 /\ N = active.beats /\ f <= N
    BY <1>4, CommandAssumption DEF begins, Runnable
  <2>2. b = burst_beats(f, active.dst_cuts)
    BY <1>4, <2>1
  <2>3. b \in Nat \ {0} /\ f + b <= active.beats + 1
    BY <2>1, <2>2, CutsAre, BurstBeats
  <2> QED
    BY <2>1, <2>3
<1>6. b <= bf + 1
  BY DEF begins, has_burst
<1>7. Head(buf) = e + 1
  BY <1>2, <1>4
<1>8. PICK t \in Dst, c \in Burst, x \in Datum :
        /\ t = Begun(d, buf, b) /\ t.aw = <<c>> /\ t.w = <<x>>
        /\ c.first = e + 1 /\ c.beats = b /\ x.data = e + 1 /\ (x.last <=> b = 1)
        /\ t.w_beats_left = b - 1 /\ t.issued = e + b /\ t.txn = Append(d.txn, b)
        /\ Addressed(t) /\ t.agu.queued = d.agu.queued
  <2>1. Addressed(d) /\ d.skip = 0 /\ d.agu.fifo # <<>>
    BY <1>2 DEF begins
  <2>2. e = d.issued /\ b \in Nat \ {0}
    BY <1>4, <1>5
  <2>3. Starts(d, buf, b, e)
    BY <1>7, <2>1, <2>2, BegunIs
  <2> QED
    BY <2>3 DEF Starts
<1>9. PICK m \in Nat, z \in Nat, u \in Nat \ {0} :
        m = b - 1 /\ z = e + b /\ u = e + 1 /\ m <= bf /\ z <= active.beats /\ u + b = z + 1
  BY <1>5, <1>6
<1>10. PICK q2 \in Seq(Burst) : /\ q2 = q \o t.aw /\ Len(q2) = Len(q) + 1 /\ q2[Len(q2)] = c
  <2>1. /\ q \o <<c>> \in Seq(Burst) /\ Len(q \o <<c>>) = Len(q) + 1
        /\ (q \o <<c>>)[Len(q) + 1] = c
    BY OneMore
  <2> QED
    BY <1>8, <2>1
<1>11. PICK data2 \in Seq(Datum) :
        /\ data2 = data \o t.w /\ Len(data2) = k + 1 /\ data2[k + 1] = x
        /\ \A i \in 1 .. k : data2[i] = data[i]
  <2>1. /\ data \o <<x>> \in Seq(Datum) /\ Len(data \o <<x>>) = Len(data) + 1
        /\ (data \o <<x>>)[Len(data) + 1] = x
        /\ \A i \in 1 .. Len(data) : (data \o <<x>>)[i] = data[i]
    BY <1>2, OneMore
  <2> QED
    BY <1>4, <1>8, <2>1
<1>12. Covers(q, n + 1, u) /\ n + 1 \in Nat
  BY <1>2, <1>3, <1>9 DEF WritesAt
<1>13. Covers(q2, n + 1, z + 1)
  <2>1. c = [first |-> u, beats |-> b]
    BY <1>8, <1>9 DEF Burst
  <2>2. Covers(q \o <<c>>, n + 1, u + b)
    BY <1>5, <1>12, <2>1, CoversMore
  <2> QED
    BY <1>8, <1>9, <1>10, <2>2
<1>14. over(c) = z + 1
  BY <1>8, <1>9 DEF over
<1>15. \A p \in Nat : Ends(q2, p) <=> Ends(q, p) \/ p = z + 1
  <2>1. ASSUME NEW p \in Nat PROVE Ends(q2, p) <=> Ends(q, p) \/ p = z + 1
    <3>1. Ends(q \o <<c>>, p) <=> Ends(q, p) \/ over(c) = p
      BY EndsMore
    <3> QED
      BY <1>8, <1>10, <1>14, <3>1
  <2> QED
    BY <2>1
<1>16. Carries(x, q2, u)
  <2>1. PICK p \in Nat : p = u + 1 /\ p > u
    OBVIOUS
  <2>2. ~Ends(q, p)
    BY <1>12, <2>1, EndsLast
  <2>3. p = z + 1 <=> b = 1
    <3>1. p = z + 1 <=> u + 1 = u + b
      BY <1>9, <2>1
    <3>2. u + 1 = u + b <=> b = 1
      BY <1>5, SMTT(30)
    <3> QED
      BY <3>1, <3>2
  <2>4. Ends(q2, p) <=> b = 1
    BY <1>15, <2>2, <2>3
  <2> QED
    BY <1>8, <1>9, <2>1, <2>4 DEF Carries
<1>17. PICK k2 \in Nat : k2 = k + 1
  OBVIOUS
<1>18. WritesAt(t, q2, data2, n, k2, z, m)
  <2>1. k2 = Len(data2) /\ z = t.issued /\ m = t.w_beats_left
    BY <1>8, <1>9, <1>11, <1>17
  <2>2. k2 + m + n = z
    <3>1. (k + 1) + (b - 1) + n = (n + k) + b
      BY <1>5, BegunSums
    <3> QED
      BY <1>4, <1>9, <1>17, <3>1, Zenon
  <2>3. ASSUME NEW i \in 1 .. k2 PROVE Carries(data2[i], q2, n + i)
    <3>1. CASE i = k + 1
      <4>1. n + i = u
        <5>1. n + (k + 1) = (n + k) + 1
          BY <1>5, BegunSums
        <5> QED
          BY <1>4, <1>9, <3>1, <5>1, Zenon
      <4> QED
        BY <1>11, <1>16, <3>1, <4>1
    <3>2. CASE i \in 1 .. k
      <4>1. PICK p \in Nat : p = n + i + 1 /\ p # z + 1
        <5>1. n + i + 1 \in Nat /\ n + i + 1 # ((n + k) + b) + 1
          BY <1>5, <3>2, BegunSums, SMTT(30)
        <5>2. ((n + k) + b) + 1 = z + 1
          BY <1>4, <1>9, Zenon
        <5> QED
          BY <5>1, <5>2, Zenon
      <4>2. Ends(q2, p) <=> Ends(q, p)
        BY <1>15, <4>1
      <4>3. Carries(data[i], q, n + i)
        BY <1>3, <3>2 DEF WritesAt
      <4> QED
        BY <1>11, <3>2, <4>1, <4>2, <4>3 DEF Carries
    <3> QED
      BY <1>17, <3>1, <3>2
  <2>4. q2[Len(q2)].first <= n + k2
    BY <1>4, <1>8, <1>10, <1>17
  <2> QED
    BY <1>9, <1>13, <2>1, <2>2, <2>3, <2>4 DEF WritesAt
<1>19. Len(t.txn) = answers + Len(q2)
  <2>1. Len(t.txn) = Len(d.txn) + 1
    <3>1. d.txn \in Seq(Nat)
      BY DEF Dst
    <3>2. Len(Append(d.txn, b)) = Len(d.txn) + 1
      BY <1>5, <3>1, AppendProperties
    <3> QED
      BY <1>8, <3>2
  <2>2. Len(q) \in Nat
    BY LenProperties
  <2> QED
    BY <1>2, <1>10, <2>1, <2>2
<1>20. Writes(t, bf, q2, data2, answers, n)
  <2>1. t.w_beats_left <= bf /\ Addressed(t)
    BY <1>8, <1>9
  <2> QED
    BY <1>2, <1>18, <1>19, <2>1, WritesFrom
<1>21. t.w \in Seq(Datum) /\ Len(t.w) = 1
  <2>1. t.w = <<x>>
    BY <1>8
  <2>2. <<x>> \in Seq(Datum) /\ Len(<<x>>) = 1
    OBVIOUS
  <2> QED
    BY <2>1, <2>2
<1> QED
  BY <1>8, <1>10, <1>11, <1>20, <1>21 DEF BeginsOn

\* What a memory has when it may have taken what is sent, and what is left to send.
Passed(had, sent, a) == had \o (IF a THEN sent ELSE <<>>)
SendsOn(t, d, bf, aw, w, answers, n) ==
  /\ aw \in Seq(Burst) /\ w \in Seq(Datum) /\ t \in Dst /\ t.agu = d.agu
  /\ Writes(t, bf, aw \o t.aw, w \o t.w, answers, n)

\* What is sent may have been taken.
LEMMA Sends ==
  ASSUME NEW d \in Dst, NEW bf, NEW aw \in Seq(Burst), NEW w \in Seq(Datum), NEW answers,
         NEW n \in Nat,
         Writes(d, bf, aw \o d.aw, w \o d.w, answers, n), NEW a, NEW v
  PROVE  SendsOn(Sent(d, a, v), d, bf, Passed(aw, d.aw, a), Passed(w, d.w, v), answers, n)
<1>1. PICK aw2, w2 : aw2 = Passed(aw, d.aw, a) /\ w2 = Passed(w, d.w, v)
  OBVIOUS
<1>2. d.aw \in Seq(Burst) /\ d.w \in Seq(Datum) /\ Addressed(d)
  BY DEF Dst, Writes
<1>3. PICK t \in Dst :
        /\ t = Sent(d, a, v) /\ t.agu = d.agu /\ t.issued = d.issued /\ t.skip = d.skip
        /\ t.w_beats_left = d.w_beats_left /\ t.txn = d.txn
        /\ t.aw = (IF a THEN <<>> ELSE d.aw) /\ t.w = (IF v THEN <<>> ELSE d.w)
  BY DstSent
<1>4. aw2 \in Seq(Burst) /\ aw2 \o t.aw = aw \o d.aw
  <2>1. CASE a
    <3>1. aw2 = aw \o d.aw /\ t.aw = <<>>
      BY <1>1, <1>3, <2>1 DEF Passed
    <3>2. aw \o d.aw \in Seq(Burst)
      BY <1>2, ConcatProperties
    <3> QED
      BY <3>1, <3>2, ConcatEmptySeq
  <2>2. CASE ~a
    <3>1. aw2 = aw \o <<>> /\ t.aw = d.aw
      BY <1>1, <1>3, <2>2 DEF Passed
    <3> QED
      BY <3>1, ConcatEmptySeq
  <2> QED
    BY <2>1, <2>2
<1>5. w2 \in Seq(Datum) /\ w2 \o t.w = w \o d.w
  <2>1. CASE v
    <3>1. w2 = w \o d.w /\ t.w = <<>>
      BY <1>1, <1>3, <2>1 DEF Passed
    <3>2. w \o d.w \in Seq(Datum)
      BY <1>2, ConcatProperties
    <3> QED
      BY <3>1, <3>2, ConcatEmptySeq
  <2>2. CASE ~v
    <3>1. w2 = w \o <<>> /\ t.w = d.w
      BY <1>1, <1>3, <2>2 DEF Passed
    <3> QED
      BY <3>1, ConcatEmptySeq
  <2> QED
    BY <2>1, <2>2
<1>6. Addressed(t)
  BY <1>2, <1>3 DEF Addressed
<1>7. PICK q, data : q = aw \o d.aw /\ data = w \o d.w /\ Writes(d, bf, q, data, answers, n)
  OBVIOUS
<1>8. Writes(t, bf, q, data, answers, n)
  BY <1>3, <1>6, <1>7, WritesSame
<1>9. Writes(t, bf, aw2 \o t.aw, w2 \o t.w, answers, n)
  BY <1>4, <1>5, <1>7, <1>8
<1>10. SendsOn(t, d, bf, aw2, w2, answers, n)
  BY <1>3, <1>4, <1>5, <1>9 DEF SendsOn
<1> QED
  BY <1>1, <1>3, <1>10

\* What the write side and the buffer are after an edge: the data sent are sent more, and
\* as many beats are left of the buffer.
WritesOn(i, aw, w, answers, n, buf, sent) ==
  /\ aw \in Seq(Burst) /\ w \in Seq(Datum) /\ i.side \in Dst /\ i.side.agu.queued # 0
  /\ Writes(i.side, Len(i.buffer), aw \o i.side.aw, w \o i.side.w, answers, n)
  /\ \/ i.buffer = buf /\ Len(w) + Len(i.side.w) = sent
     \/ buf # <<>> /\ i.buffer = Tail(buf) /\ Len(w) + Len(i.side.w) = sent + 1

\* The next beat of a burst is sent, or the first of the next one, or none.
LEMMA DstIssues ==
  ASSUME active \in Runnable, NEW d \in Dst, NEW buf \in Seq(Nat), NEW aw \in Seq(Burst),
         NEW w \in Seq(Datum), NEW answers \in Nat, NEW n \in Nat,
         Writes(d, Len(buf), aw \o d.aw, w \o d.w, answers, n), d.agu.queued # 0,
         buf # <<>> => Head(buf) = n + (Len(w) + Len(d.w)) + 1, NEW a, NEW v
  PROVE  WritesOn(DstIssue(d, buf, a, v), Passed(aw, d.aw, a), Passed(w, d.w, v), answers, n,
                  buf, Len(w) + Len(d.w))
<1>1. PICK aw2, w2 : aw2 = Passed(aw, d.aw, a) /\ w2 = Passed(w, d.w, v)
  OBVIOUS
<1>2. Addressed(d) /\ d.w \in Seq(Datum) /\ d.aw \in Seq(Burst)
  BY DEF Writes, Dst
<1>3. PICK s \in Dst :
        /\ s = SkipBurst(d) /\ Addressed(s) /\ s.agu.queued = d.agu.queued
        /\ s.issued = d.issued /\ s.aw = d.aw /\ s.w = d.w
        /\ s.w_beats_left = d.w_beats_left /\ s.txn = d.txn
  BY <1>2, SkipDst
<1>4. Writes(s, Len(buf), aw \o s.aw, w \o s.w, answers, n)
  <2>1. PICK q, data : q = aw \o d.aw /\ data = w \o d.w
        /\ Writes(d, Len(buf), q, data, answers, n)
    OBVIOUS
  <2>2. Writes(s, Len(buf), q, data, answers, n)
    BY <1>3, <2>1, WritesSame
  <2> QED
    BY <1>3, <2>1, <2>2
<1>5. /\ aw2 \in Seq(Burst) /\ w2 \in Seq(Datum)
      /\ Sent(s, a, v) \in Dst /\ Sent(s, a, v).agu = s.agu
      /\ Writes(Sent(s, a, v), Len(buf), aw2 \o Sent(s, a, v).aw, w2 \o Sent(s, a, v).w,
                answers, n)
  <2>1. aw2 = Passed(aw, s.aw, a) /\ w2 = Passed(w, s.w, v)
    BY <1>1, <1>3
  <2>2. SendsOn(Sent(s, a, v), s, Len(buf), Passed(aw, s.aw, a), Passed(w, s.w, v), answers, n)
    BY <1>4, Sends
  <2>3. SendsOn(Sent(s, a, v), s, Len(buf), aw2, w2, answers, n)
    BY <2>1, <2>2
  <2> QED
    BY <2>3 DEF SendsOn
<1>6. PICK t \in Dst : /\ t = Sent(SkipBurst(d), a, v) /\ t.agu.queued # 0
                       /\ t = Sent(s, a, v)
                       /\ Writes(t, Len(buf), aw2 \o t.aw, w2 \o t.w, answers, n)
  BY <1>3, <1>5
<1>7. PICK data : data = w2 \o t.w /\ data \in Seq(Datum) /\ Len(data) = Len(w) + Len(d.w)
                  /\ Len(data) = Len(w2) + Len(t.w)
  <2>1. t.w \in Seq(Datum)
    BY DEF Dst
  <2>2. w2 \o t.w \in Seq(Datum) /\ Len(w2 \o t.w) = Len(w2) + Len(t.w)
    BY <1>5, <2>1, ConcatProperties
  <2>3. Len(w2) + Len(t.w) = Len(w) + Len(d.w)
    <3>1. t.w = IF v THEN <<>> ELSE d.w
      BY <1>3, <1>6, DstSent
    <3>2. CASE v
      <4>1. Len(w2) = Len(w) + Len(d.w) /\ Len(t.w) = 0
        BY <1>1, <1>2, <3>1, <3>2, ConcatProperties DEF Passed
      <4> QED
        BY <1>2, <4>1, LenProperties
    <3>3. CASE ~v
      <4>1. w2 = w \o <<>> /\ t.w = d.w
        BY <1>1, <3>1, <3>3 DEF Passed
      <4> QED
        BY <4>1, ConcatEmptySeq
    <3> QED
      BY <3>2, <3>3
  <2> QED
    BY <2>2, <2>3
<1>8. Writes(t, Len(buf), aw2 \o t.aw, data, answers, n)
  BY <1>6, <1>7
<1>9. PICK i : i = DstIssue(d, buf, a, v) /\ Sending(i, t, buf)
  <2>1. Sending(DstIssue(d, buf, a, v), t, buf)
    BY <1>6, DstIssueIs
  <2> QED
    BY <2>1
<1>10. ASSUME t.w = <<>>
      PROVE  data = w2
  BY <1>5, <1>7, <1>10, ConcatEmptySeq
<1>11. CASE goes_on(t)
  <2>1. i = [side |-> GoesOn(t, buf), buffer |-> Tail(buf)]
    BY <1>9, <1>11 DEF Sending
  <2>2. data = w2
    BY <1>10, <1>11 DEF goes_on
  <2>3. PICK bf \in Nat : Len(buf) = bf + 1
    <3>1. t.w_beats_left > 0 /\ t.w_beats_left \in Nat /\ t.w_beats_left <= Len(buf)
      BY <1>8, <1>11, WritesIs DEF goes_on, Dst
    <3>2. Len(buf) - 1 \in Nat /\ Len(buf) = (Len(buf) - 1) + 1
      BY <3>1, LenProperties
    <3> QED
      BY <3>2
  <2>4. buf # <<>> /\ Len(Tail(buf)) = bf
    BY <2>3, TailAt
  <2>5. Head(buf) = n + Len(data) + 1
    BY <1>7, <2>4
  <2>6. PICK u \in Dst :
          /\ u = GoesOn(t, buf) /\ Writes(u, bf, aw2 \o t.aw, data \o u.w, answers, n)
          /\ u.agu = t.agu /\ u.aw = t.aw /\ u.w \in Seq(Datum) /\ Len(u.w) = 1
    <3>1. PICK q : q = aw2 \o t.aw /\ Writes(t, bf + 1, q, data, answers, n)
      BY <1>8, <2>3
    <3>2. PICK u : u = GoesOn(t, buf)
      OBVIOUS
    <3>3. /\ u \in Dst /\ Writes(u, bf, q, data \o u.w, answers, n)
          /\ u.agu = t.agu /\ u.aw = t.aw /\ u.w \in Seq(Datum) /\ Len(u.w) = 1
      <4>1. ContinuesOn(GoesOn(t, buf), t, bf, q, data, answers, n)
        BY <1>11, <2>5, <3>1, Continues
      <4> QED
        BY <3>2, <4>1 DEF ContinuesOn
    <3> QED
      BY <3>1, <3>2, <3>3
  <2>7. Writes(u, Len(i.buffer), aw2 \o u.aw, w2 \o u.w, answers, n)
    BY <2>1, <2>2, <2>4, <2>6
  <2>8. Len(w2) + Len(u.w) = (Len(w) + Len(d.w)) + 1
    BY <1>7, <2>2, <2>6
  <2>9. i.side = u /\ i.buffer = Tail(buf) /\ u.agu.queued # 0
    BY <1>6, <2>1, <2>6
  <2> QED
    BY <1>1, <1>5, <1>9, <2>4, <2>7, <2>8, <2>9 DEF WritesOn
<1>12. CASE begins(t, buf)
  <2>1. PICK b : /\ b = burst_beats(t.issued + 1, active.dst_cuts)
                 /\ i = [side |-> Begun(t, buf, b), buffer |-> Tail(buf)]
    BY <1>9, <1>12 DEF Sending
  <2>2. data = w2
    BY <1>10, <1>12 DEF begins
  <2>3. PICK bf \in Nat : Len(buf) = bf + 1
    <3>1. b \in Nat \ {0} /\ Len(buf) >= b
      <4>1. PICK e \in Nat : e = t.issued + 1 /\ e <= active.beats
        <5>1. t.issued \in Nat /\ t.issued < active.beats /\ active.beats \in Nat
          BY <1>12, CommandAssumption DEF begins, Dst, Runnable
        <5>2. t.issued + 1 \in Nat /\ t.issued + 1 <= active.beats
          BY <5>1
        <5> QED
          BY <5>2
      <4>2. burst_beats(e, active.dst_cuts) \in Nat \ {0}
        BY <4>1, CutsAre, BurstBeats
      <4> QED
        BY <1>12, <2>1, <4>1, <4>2 DEF begins, has_burst
    <3>2. Len(buf) - 1 \in Nat /\ Len(buf) = (Len(buf) - 1) + 1
      BY <3>1, LenProperties
    <3> QED
      BY <3>2
  <2>4. buf # <<>> /\ Len(Tail(buf)) = bf
    BY <2>3, TailAt
  <2>5. Head(buf) = n + Len(data) + 1
    BY <1>7, <2>4
  <2>6. PICK u \in Dst :
          /\ u = Begun(t, buf, b) /\ Writes(u, bf, aw2 \o u.aw, data \o u.w, answers, n)
          /\ u.agu.queued = t.agu.queued /\ u.w \in Seq(Datum) /\ Len(u.w) = 1
    <3>1. Writes(t, bf + 1, aw2 \o t.aw, data, answers, n)
      BY <1>8, <2>3
    <3>2. PICK u : u = Begun(t, buf, b)
      OBVIOUS
    <3>3. /\ u \in Dst /\ Writes(u, bf, aw2 \o u.aw, data \o u.w, answers, n)
          /\ u.agu.queued = t.agu.queued /\ u.w \in Seq(Datum) /\ Len(u.w) = 1
      <4>1. BeginsOn(Begun(t, buf, b), t, bf, aw2, data, answers, n)
        BY <1>5, <1>12, <2>1, <2>3, <2>5, <3>1, Begins
      <4> QED
        BY <3>2, <4>1 DEF BeginsOn
    <3> QED
      BY <3>2, <3>3
  <2>7. Writes(u, Len(i.buffer), aw2 \o u.aw, w2 \o u.w, answers, n)
    BY <2>1, <2>2, <2>4, <2>6
  <2>8. Len(w2) + Len(u.w) = (Len(w) + Len(d.w)) + 1
    BY <1>7, <2>2, <2>6
  <2>9. i.side = u /\ i.buffer = Tail(buf) /\ u.agu.queued # 0
    BY <1>6, <2>1, <2>6
  <2> QED
    BY <1>1, <1>5, <1>9, <2>4, <2>7, <2>8, <2>9 DEF WritesOn
<1>13. CASE ~goes_on(t) /\ ~begins(t, buf)
  <2>1. i = [side |-> t, buffer |-> buf]
    BY <1>9, <1>13 DEF Sending
  <2>2. Len(w2) + Len(t.w) = Len(w) + Len(d.w)
    BY <1>7
  <2>3. i.side = t /\ i.buffer = buf
    BY <2>1
  <2> QED
    BY <1>1, <1>5, <1>6, <1>9, <2>2, <2>3 DEF WritesOn
<1> QED
  BY <1>11, <1>12, <1>13

\* Data of length k and l one after the other.
Joined(a, b, k, l) ==
  /\ a \o b \in Seq(Datum) /\ Len(a \o b) = k + l
  /\ \A i \in 1 .. k : (a \o b)[i] = a[i]
  /\ \A i \in 1 .. l : (a \o b)[k + i] = b[i]

\* Data are joined at the end of the first.
LEMMA JoinedAs ==
  ASSUME NEW a \in Seq(Datum), NEW b \in Seq(Datum)
  PROVE  Joined(a, b, Len(a), Len(b))
<1>1. Len(a) \in Nat /\ Len(b) \in Nat
  BY LenProperties
<1> QED
  BY <1>1, ConcatAt DEF Joined

\* Data c \o b are a \o b without the first m.
WithoutFirst(S, a, c, b, m, j) ==
  /\ c \in Seq(S) /\ Len(c) = Len(a) - m
  /\ c \o b \in Seq(S) /\ Len(c \o b) = j /\ \A i \in 1 .. j : (c \o b)[i] = (a \o b)[m + i]

\* Data without those of the burst that lands.
LEMMA DropsData ==
  ASSUME NEW a \in Seq(Datum), NEW b \in Seq(Datum), NEW m \in Nat, NEW k \in Nat, NEW j \in Nat,
         m <= Len(a), k = Len(a \o b), k = m + j
  PROVE  WithoutFirst(Datum, a, SubSeq(a, m + 1, Len(a)), b, m, j)
<1>1. PICK u \in Nat, v \in Nat : u = Len(a) /\ v = Len(b)
  BY LenProperties
<1>2. PICK x \in Nat : x = u - m /\ u = m + x
  <2>1. m <= u
    BY <1>1
  <2>2. u - m \in Nat /\ u = m + (u - m)
    BY <2>1
  <2> QED
    BY <2>2
<1>3. PICK s \in Seq(Datum) : /\ s = SubSeq(a, m + 1, Len(a)) /\ Len(s) = x
                          /\ \A i \in 1 .. x : s[i] = a[m + i]
  <2>1. PICK s : s = SubSeq(a, m + 1, Len(a))
    OBVIOUS
  <2>2. s \in Seq(Datum) /\ Len(s) = Len(a) - m /\ \A i \in 1 .. Len(a) - m : s[i] = a[m + i]
    BY <2>1, Dropped
  <2> QED
    BY <1>1, <1>2, <2>1, <2>2
<1>4. /\ a \o b \in Seq(Datum) /\ Len(a \o b) = u + v
      /\ \A i \in 1 .. u : (a \o b)[i] = a[i]
      /\ \A i \in 1 .. v : (a \o b)[u + i] = b[i]
  BY <1>1, JoinedAs, Zenon DEF Joined
<1>5. /\ s \o b \in Seq(Datum) /\ Len(s \o b) = x + v
      /\ \A i \in 1 .. x : (s \o b)[i] = s[i]
      /\ \A i \in 1 .. v : (s \o b)[x + i] = b[i]
  BY <1>1, <1>3, JoinedAs, Zenon DEF Joined
<1>6. x + v = j
  <2>1. m + j = u + v
    BY <1>4
  <2>2. u = m + x
    BY <1>2
  <2> QED
    BY <2>1, <2>2
<1>7. ASSUME NEW i \in 1 .. j PROVE (s \o b)[i] = (a \o b)[m + i]
  <2>1. CASE i \in 1 .. x
    <3>1. m + i \in 1 .. u
      BY <1>1, <1>2, <2>1
    <3> QED
      BY <1>3, <1>4, <1>5, <2>1, <3>1
  <2>2. CASE ~(i \in 1 .. x)
    <3>1. PICK y \in 1 .. v : i = x + y
      <4>1. i - x \in 1 .. v /\ i = x + (i - x)
        BY <1>6, <2>2
      <4> QED
        BY <4>1
    <3>2. m + i = u + y
      BY <1>1, <1>2, <3>1
    <3> QED
      BY <1>4, <1>5, <3>1, <3>2
  <2> QED
    BY <2>1, <2>2
<1>8. s \in Seq(Datum) /\ Len(s) = Len(a) - m
  BY <1>1, <1>2, <1>3
<1>9. s \o b \in Seq(Datum) /\ Len(s \o b) = j
  BY <1>5, <1>6
<1>10. WithoutFirst(Datum, a, s, b, m, j)
  BY <1>7, <1>8, <1>9 DEF WithoutFirst
<1> QED
  BY <1>3, <1>10

\* A burst lands: its beats, and no others.
LEMMA Lands ==
  ASSUME NEW d, NEW bf, NEW aw \in Seq(Burst), NEW w \in Seq(Datum), NEW answers \in Nat,
         NEW n \in Nat, Writes(d, bf, aw \o d.aw, w \o d.w, answers, n),
         aw # <<>>, Len(w) >= Head(aw).beats
  PROVE  \E m \in Nat :
           /\ m = Head(aw).beats /\ Written(aw, w) = {<<b, b>> : b \in n + 1 .. n + m}
           /\ Tail(aw) \in Seq(Burst) /\ SubSeq(w, m + 1, Len(w)) \in Seq(Datum)
           /\ Len(SubSeq(w, m + 1, Len(w))) = Len(w) - m /\ m <= Len(w)
           /\ Writes(d, bf, Tail(aw) \o d.aw, SubSeq(w, m + 1, Len(w)) \o d.w, answers + 1, n + m)
<1>1. d \in Dst /\ d.aw \in Seq(Burst) /\ d.w \in Seq(Datum)
  BY DEF Writes, Dst
<1>2. PICK q \in Seq(Burst) : /\ q = aw \o d.aw /\ q # <<>> /\ Tail(q) = Tail(aw) \o d.aw
                              /\ q[1] = Head(aw) /\ Tail(aw) \in Seq(Burst)
  <2>1. PICK b \in Seq(Burst) : b = d.aw
    BY <1>1
  <2>2. /\ aw \o b \in Seq(Burst) /\ aw \o b # <<>>
        /\ Tail(aw \o b) = Tail(aw) \o b /\ (aw \o b)[1] = aw[1] /\ aw[1] = Head(aw)
    BY TailConcat, Zenon
  <2>3. Tail(aw) \in Seq(Burst)
    BY HeadTailProperties
  <2> QED
    BY <2>1, <2>2, <2>3
<1>3. PICK data \in Seq(Datum) : data = w \o d.w
  <2>1. w \o d.w \in Seq(Datum)
    BY <1>1, ConcatProperties
  <2> QED
    BY <2>1
<1>4. Writes(d, bf, q, data, answers, n)
  BY <1>2, <1>3
<1>5. /\ d.w_beats_left <= bf /\ Len(d.txn) = answers + Len(q) /\ Addressed(d)
      /\ \E k \in Nat, e \in Nat, l \in Nat : WritesAt(d, q, data, n, k, e, l)
  BY <1>4, WritesIs
<1>6. PICK k \in Nat, e \in Nat, l \in Nat : WritesAt(d, q, data, n, k, e, l)
  BY <1>5
<1>7. PICK f \in Nat, u \in Nat : f = n + 1 /\ u = e + 1 /\ Covers(q, f, u)
  <2>1. Covers(q, n + 1, e + 1)
    BY <1>6 DEF WritesAt
  <2>2. n + 1 \in Nat /\ e + 1 \in Nat
    OBVIOUS
  <2>3. PICK f \in Nat : f = n + 1
    BY <2>2
  <2>4. PICK u \in Nat : u = e + 1
    BY <2>2
  <2> QED
    BY <2>1, <2>3, <2>4
<1>8. PICK m \in Nat \ {0}, o \in Nat :
        /\ m = Head(aw).beats /\ o = over(q[1]) /\ o = n + m + 1 /\ q[1].first = f
        /\ m <= Len(w)
  <2>1. q[1] \in Burst /\ q[1].first = f
    BY <1>2, <1>7, CoversSome
  <2>2. PICK m \in Nat \ {0}, o \in Nat : m = q[1].beats /\ o = over(q[1]) /\ o = f + m
    BY <2>1, BurstIs
  <2>3. o = n + m + 1
    <3>1. o = (n + 1) + m
      BY <1>7, <2>2
    <3>2. (n + 1) + m = n + m + 1
      OBVIOUS
    <3> QED
      BY <3>1, <3>2, Zenon
  <2>4. m = Head(aw).beats /\ m <= Len(w)
    BY <1>2, <2>2
  <2> QED
    BY <2>1, <2>2, <2>3, <2>4
<1>9. PICK v \in Nat : v = Len(w) /\ m <= v
  BY <1>8, LenProperties
<1>10. \A i \in 1 .. v : data[i] = w[i]
  BY <1>1, <1>3, <1>9, ConcatProperties
<1>11. v <= k
  <2>1. Len(data) = Len(w) + Len(d.w) /\ Len(d.w) \in Nat
    BY <1>1, <1>3, ConcatProperties, LenProperties
  <2>2. k = Len(data)
    BY <1>6 DEF WritesAt
  <2> QED
    BY <1>9, <2>1, <2>2
<1>12. ASSUME NEW i \in 1 .. m PROVE w[i].data = n + i /\ (w[i].last <=> i = m)
  <2>1. Carries(w[i], q, n + i)
    <3>1. i \in 1 .. k /\ i \in 1 .. v
      BY <1>9, <1>11
    <3>2. Carries(data[i], q, n + i)
      BY <1>6, <3>1 DEF WritesAt
    <3> QED
      BY <1>10, <3>1, <3>2
  <2>2. PICK p \in Nat : p = n + i + 1
    <3>1. n + i + 1 \in Nat
      OBVIOUS
    <3> QED
      BY <3>1
  <2>3. Ends(q, p) <=> i = m
    <3>1. CASE i = m
      <4>1. p = o
        BY <1>8, <2>2, <3>1
      <4>2. Ends(q, over(q[1]))
        BY <1>2, <1>7, EndsRest
      <4> QED
        BY <1>8, <3>1, <4>1, <4>2
    <3>2. CASE i # m
      <4>1. p < o
        <5>1. i < m
          BY <3>2
        <5>2. n + i + 1 < n + m + 1
          BY <5>1
        <5> QED
          BY <1>8, <2>2, <5>2
      <4>2. p < over(q[1]) => ~Ends(q, p)
        BY <1>2, <1>7, EndsRest
      <4>3. ~Ends(q, p)
        BY <1>8, <4>1, <4>2
      <4> QED
        BY <3>2, <4>3
    <3> QED
      BY <3>1, <3>2
  <2> QED
    BY <2>1, <2>2, <2>3 DEF Carries
<1>13. Written(aw, w) = {<<b, b>> : b \in n + 1 .. n + m}
  <2> DEFINE W(i) == <<Head(aw).first + i - 1,
                       IF w[i].last = (i = Head(aw).beats) THEN w[i].data ELSE 1>>
  <2>1. ASSUME NEW i \in 1 .. m PROVE W(i) = <<n + i, n + i>>
    <3>1. Head(aw).first + i - 1 = n + i
      <4>1. f + i - 1 = n + i
        BY <1>7
      <4> QED
        BY <1>2, <1>8, <4>1
    <3>2. w[i].last \in BOOLEAN
      <4>1. w[i] \in Datum
        BY <1>9, ElementOfSeq
      <4> QED
        BY <4>1 DEF Datum
    <3>3. w[i].last = (i = Head(aw).beats)
      BY <1>8, <1>12, <3>2
    <3> QED
      BY <1>12, <3>1, <3>3
  <2>2. Written(aw, w) = {W(i) : i \in 1 .. m}
    BY <1>8 DEF Written
  <2> HIDE DEF W
  <2>3. {W(i) : i \in 1 .. m} = {<<n + i, n + i>> : i \in 1 .. m}
    BY <2>1
  <2>4. {<<n + i, n + i>> : i \in 1 .. m} = {<<b, b>> : b \in n + 1 .. n + m}
    <3>1. ASSUME NEW i \in 1 .. m PROVE n + i \in n + 1 .. n + m
      OBVIOUS
    <3>2. ASSUME NEW b \in n + 1 .. n + m PROVE \E i \in 1 .. m : b = n + i
      <4>1. b - n \in 1 .. m /\ b = n + (b - n)
        OBVIOUS
      <4> QED
        BY <4>1
    <3> QED
      BY <3>1, <3>2
  <2> QED
    BY <2>2, <2>3, <2>4
<1>14. PICK j \in Nat : k = m + j
  <2>1. k - m \in Nat /\ k = m + (k - m)
    BY <1>9, <1>11
  <2> QED
    BY <2>1
<1>15. PICK s \in Seq(Datum), data2 \in Seq(Datum) :
         /\ s = SubSeq(w, m + 1, Len(w)) /\ Len(s) = v - m
         /\ data2 = s \o d.w /\ Len(data2) = j /\ \A i \in 1 .. j : data2[i] = data[m + i]
  <2>1. k = Len(w \o d.w) /\ m <= Len(w)
    BY <1>3, <1>6, <1>9 DEF WritesAt
  <2>2. PICK s : s = SubSeq(w, m + 1, Len(w))
    OBVIOUS
  <2>3. WithoutFirst(Datum, w, s, d.w, m, j)
    BY <1>1, <1>14, <2>1, <2>2, DropsData
  <2>4. /\ s \in Seq(Datum) /\ Len(s) = Len(w) - m /\ s \o d.w \in Seq(Datum)
        /\ Len(s \o d.w) = j /\ \A i \in 1 .. j : (s \o d.w)[i] = (w \o d.w)[m + i]
    BY <2>3 DEF WithoutFirst
  <2> QED
    BY <1>3, <1>9, <2>2, <2>4
<1>16. PICK r \in Seq(Burst), g \in Nat :
         /\ r = Tail(q) /\ g = Len(r) /\ Len(q) = g + 1 /\ \A i \in 1 .. g : r[i] = q[i + 1]
  <2>1. PICK g \in Nat : Len(q) = g + 1
    <3>1. Len(q) \in Nat \ {0}
      BY <1>2, EmptySeq
    <3>2. Len(q) - 1 \in Nat /\ Len(q) = (Len(q) - 1) + 1
      BY <3>1
    <3> QED
      BY <3>2
  <2>2. Tail(q) \in Seq(Burst) /\ Len(Tail(q)) = g /\ \A i \in 1 .. g : Tail(q)[i] = q[i + 1]
    BY <2>1, TailAt
  <2> QED
    BY <2>1, <2>2
<1>17. PICK z \in Nat : z = n + m
  OBVIOUS
<1>18. Covers(r, z + 1, e + 1)
  <2>1. Covers(Tail(q), over(q[1]), u)
    BY <1>2, <1>7, CoversRest
  <2>2. over(q[1]) = z + 1
    BY <1>8, <1>17
  <2> QED
    BY <1>7, <1>16, <2>1, <2>2
<1>19. ASSUME NEW i \in 1 .. j PROVE Carries(data2[i], r, z + i)
  <2>1. m + i \in 1 .. k /\ n + (m + i) = z + i
    BY <1>14, <1>17
  <2>2. Carries(data[m + i], q, z + i)
    BY <1>6, <2>1 DEF WritesAt
  <2>3. PICK p \in Nat : p = z + i + 1 /\ p > o
    <3>1. z + i + 1 \in Nat /\ z + i + 1 > z + 1
      OBVIOUS
    <3>2. o = z + 1
      BY <1>8, <1>17
    <3> QED
      BY <3>1, <3>2
  <2>4. Ends(r, p) <=> Ends(q, p)
    <3>1. p > over(q[1]) => (Ends(Tail(q), p) <=> Ends(q, p))
      BY <1>2, <1>7, EndsRest
    <3> QED
      BY <1>8, <1>16, <2>3, <3>1
  <2> QED
    BY <1>15, <2>2, <2>3, <2>4 DEF Carries
<1>20. WritesAt(d, r, data2, z, j, e, l)
  <2>1. j + l + z = e
    <3>1. k + l + n = e
      BY <1>6 DEF WritesAt
    <3>2. (m + j) + l + n = j + l + (n + m)
      OBVIOUS
    <3> QED
      BY <1>14, <1>17, <3>1, <3>2, Zenon
  <2>2. r # <<>> => r[Len(r)].first <= z + j
    <3>1. ASSUME r # <<>> PROVE r[Len(r)].first <= z + j
      <4>1. g \in 1 .. g
        BY <1>16, <3>1, EmptySeq
      <4>2. r[g] = q[g + 1] /\ q[Len(q)].first <= n + k
        BY <1>2, <1>6, <1>16, <4>1 DEF WritesAt
      <4>3. n + k = z + j
        BY <1>14, <1>17
      <4> QED
        BY <1>16, <4>2, <4>3
    <3> QED
      BY <3>1
  <2>3. e = d.issued /\ l = d.w_beats_left /\ e <= active.beats
    BY <1>6 DEF WritesAt
  <2> QED
    BY <1>15, <1>18, <1>19, <2>1, <2>2, <2>3 DEF WritesAt
<1>21. Writes(d, bf, r, data2, answers + 1, z)
  <2>1. Len(d.txn) = (answers + 1) + Len(r)
    BY <1>5, <1>16
  <2>2. answers + 1 \in Nat
    OBVIOUS
  <2> QED
    BY <1>1, <1>5, <1>20, <2>1, <2>2, WritesFrom
<1>22. /\ m = Head(aw).beats /\ Tail(aw) \in Seq(Burst) /\ SubSeq(w, m + 1, Len(w)) \in Seq(Datum)
       /\ Len(SubSeq(w, m + 1, Len(w))) = Len(w) - m /\ m <= Len(w)
  BY <1>2, <1>8, <1>9, <1>15
<1>23. Writes(d, bf, Tail(aw) \o d.aw, SubSeq(w, m + 1, Len(w)) \o d.w, answers + 1, n + m)
  BY <1>2, <1>15, <1>16, <1>17, <1>21
<1> QED
  BY <1>13, <1>22, <1>23

-----------------------------------------------------------------------------
(* A run.                                                                  *)

\* The write side of an edge.
wrote(a, r, aw, w, b) ==
  DstIssue(Retire([dst EXCEPT !.agu = AguEdge(@)], b), read(r, a).buffer, aw, w)

\* The memories after the handshakes of an edge, before a burst lands.
passed(a, r, aw, w, left) ==
  [rd |-> rd_after(r, a), aw |-> Passed(memory.aw, dst.aw, aw),
   w |-> Passed(memory.w, dst.w, w), b |-> left]

\* An edge of a run is an edge of the read side and one of the write side.
LEMMA EdgeIs ==
  ASSUME NEW a, NEW r, NEW aw, NEW w, NEW b
  PROVE  RunEdge(a, r, aw, w, b) =
           [src |-> read(r, a).side, dst |-> wrote(a, r, aw, w, b).side,
            buffer |-> wrote(a, r, aw, w, b).buffer]
BY DEF RunEdge, read, taken, wrote, WithResp

\* Two sequences that are none together are none.
LEMMA NoMore ==
  ASSUME NEW S, NEW a \in Seq(S), NEW b \in Seq(S), Len(a \o b) = 0
  PROVE  a = <<>> /\ Len(a) = 0
<1>1. Len(a \o b) = Len(a) + Len(b) /\ Len(a) \in Nat /\ Len(b) \in Nat
  BY ConcatProperties, LenProperties
<1>2. Len(a) = 0
  BY <1>1
<1> QED
  BY <1>2, EmptySeq

\* How many data there are in two places.
LEMMA BothLengths ==
  ASSUME NEW a \in Seq(Datum), NEW b \in Seq(Datum), NEW n \in Nat
  PROVE  \E k \in Nat, o \in Nat : k = Len(a) + Len(b) /\ o = n + k
<1>1. PICK x \in Nat : x = Len(a)
  BY LenProperties
<1>2. PICK y \in Nat : y = Len(b)
  BY LenProperties
<1>3. x + y \in Nat /\ n + (x + y) \in Nat
  OBVIOUS
<1> QED
  BY <1>1, <1>2, <1>3

\* The write side with more in the buffer.
LEMMA WritesRoom ==
  ASSUME NEW d, NEW bf \in Nat, NEW bg \in Nat, bf <= bg, NEW q, NEW data, NEW answers, NEW n,
         Writes(d, bf, q, data, answers, n)
  PROVE  Writes(d, bg, q, data, answers, n)
<1>1. d.w_beats_left \in Nat /\ d.w_beats_left <= bf
  BY DEF Writes, Dst
<1>2. d.w_beats_left <= bg
  BY <1>1
<1> QED
  BY <1>2 DEF Writes

\* What the write side takes is what the read side has given.
LEMMA EdgeGoes ==
  ASSUME active \in Runnable, NEW n \in Nat, Going(src, dst, buffer, memory, n),
         NEW a \in BOOLEAN, NEW r \in BOOLEAN, NEW aw, NEW w, NEW b \in BOOLEAN,
         r => src.r_ready /\ memory.rd # <<>>, b => dst.b_ready /\ memory.b > 0,
         NEW left \in Nat, memory.b = left + IF b THEN 1 ELSE 0
  PROVE  /\ wrote(a, r, aw, w, b).side.agu.queued # 0
         /\ Going(read(r, a).side, wrote(a, r, aw, w, b).side, wrote(a, r, aw, w, b).buffer,
                  passed(a, r, aw, w, left), n)
<1>1. /\ memory.rd \in Seq(Burst) /\ memory.aw \in Seq(Burst) /\ memory.w \in Seq(Datum)
      /\ Reads(src, buffer, memory.rd \o src.ar, n + (Len(memory.w) + Len(dst.w)))
      /\ Writes(dst, Len(buffer), memory.aw \o dst.aw, memory.w \o dst.w, memory.b, n)
  BY DEF Going
<1>2. dst \in Dst /\ memory.b \in Nat /\ dst.w \in Seq(Datum)
  BY <1>1 DEF Writes, Dst
<1>3. PICK k \in Nat, o \in Nat : k = Len(memory.w) + Len(dst.w) /\ o = n + k
  BY <1>1, <1>2, BothLengths
<1>4. rd_after(r, a) \in Seq(Burst) /\ ReadsOn(read(r, a), rd_after(r, a), buffer, o)
  <2>1. Reads(src, buffer, memory.rd \o src.ar, o)
    BY <1>1, <1>3
  <2> QED
    BY <1>1, <2>1, SrcEdge
<1>5. PICK i, q : i = read(r, a) /\ q = rd_after(r, a)
  OBVIOUS
<1>6. /\ i.side \in Src /\ Reads(i.side, i.buffer, q \o i.side.ar, o)
      /\ Len(i.buffer) >= Len(buffer) /\ q \in Seq(Burst)
  BY <1>4, <1>5 DEF ReadsOn
<1>7. /\ i.buffer \in Seq(Nat)
      /\ i.buffer # <<>> => /\ Head(i.buffer) = o + 1
                            /\ Reads(i.side, Tail(i.buffer), q \o i.side.ar, o + 1)
  <2>1. PICK s, bf, p : s = i.side /\ bf = i.buffer /\ p = q \o i.side.ar
    OBVIOUS
  <2>2. s \in Src /\ Reads(s, bf, p, o)
    BY <1>6, <2>1
  <2>3. bf \in Seq(Nat)
    BY <2>2 DEF Reads, Follow
  <2>4. bf # <<>> => Head(bf) = o + 1 /\ Reads(s, Tail(bf), p, o + 1)
    BY <2>2, ReadsFirst
  <2> QED
    BY <2>1, <2>3, <2>4
<1>8. PICK c \in Dst :
        /\ c = [dst EXCEPT !.agu = AguEdge(@)] /\ c.agu.queued # 0
        /\ Writes(c, Len(buffer), memory.aw \o dst.aw, memory.w \o dst.w, memory.b, n)
        /\ c.aw = dst.aw /\ c.w = dst.w /\ c.b_ready = dst.b_ready
  BY <1>1, <1>2, DstClocks
<1>9. PICK d \in Dst :
        /\ d = Retire(c, b) /\ d.agu = c.agu /\ d.aw = dst.aw /\ d.w = dst.w
        /\ Writes(d, Len(buffer), memory.aw \o dst.aw, memory.w \o dst.w, left, n)
  <2>1. PICK answers \in Nat : answers = memory.b
    BY <1>2
  <2>2. PICK bf, p, data :
          /\ bf = Len(buffer)
          /\ p = memory.aw \o dst.aw /\ data = memory.w \o dst.w
    OBVIOUS
  <2>3. (b => c.b_ready /\ answers > 0) /\ answers = left + IF b THEN 1 ELSE 0
    BY <1>8, <2>1
  <2>4. Writes(c, bf, p, data, answers, n)
    BY <1>8, <2>1, <2>2
  <2>5. \E t \in Dst :
           /\ t = Retire(c, b) /\ Writes(t, bf, p, data, left, n)
           /\ t.agu = c.agu /\ t.aw = c.aw /\ t.w = c.w
    BY <2>3, <2>4, Retires
  <2> QED
    BY <1>8, <2>1, <2>2, <2>5
<1>10. Writes(d, Len(i.buffer), memory.aw \o d.aw, memory.w \o d.w, left, n)
  <2>1. PICK y \in Nat, z \in Nat : y = Len(buffer) /\ z = Len(i.buffer) /\ y <= z
    <3>1. buffer \in Seq(Nat)
      BY <1>1 DEF Reads, Follow
    <3> QED
      BY <1>6, <1>7, <3>1, LenProperties
  <2>2. Writes(d, y, memory.aw \o d.aw, memory.w \o d.w, left, n)
    BY <1>9, <2>1
  <2>3. Writes(d, z, memory.aw \o d.aw, memory.w \o d.w, left, n)
    BY <2>1, <2>2, WritesRoom
  <2> QED
    BY <2>1, <2>3
<1>11. PICK aw2, w2 : aw2 = Passed(memory.aw, dst.aw, aw) /\ w2 = Passed(memory.w, dst.w, w)
  OBVIOUS
<1>12. PICK j : j = wrote(a, r, aw, w, b)
  OBVIOUS
<1>13. WritesOn(j, aw2, w2, left, n, i.buffer, k)
  <2>1. j = DstIssue(d, i.buffer, aw, w)
    BY <1>5, <1>8, <1>9, <1>12 DEF wrote
  <2>2. i.buffer # <<>> => Head(i.buffer) = n + (Len(memory.w) + Len(d.w)) + 1
    BY <1>3, <1>7, <1>9
  <2>3. d.agu.queued # 0
    BY <1>8, <1>9
  <2>4. WritesOn(DstIssue(d, i.buffer, aw, w), Passed(memory.aw, d.aw, aw),
                 Passed(memory.w, d.w, w), left, n, i.buffer, Len(memory.w) + Len(d.w))
    BY <1>1, <1>7, <1>10, <2>2, <2>3, DstIssues
  <2> QED
    BY <1>3, <1>9, <1>11, <2>1, <2>4
<1>14. /\ aw2 \in Seq(Burst) /\ w2 \in Seq(Datum) /\ j.side.agu.queued # 0
       /\ Writes(j.side, Len(j.buffer), aw2 \o j.side.aw, w2 \o j.side.w, left, n)
  BY <1>13 DEF WritesOn
<1>15. Reads(i.side, j.buffer, q \o i.side.ar, n + (Len(w2) + Len(j.side.w)))
  <2>1. CASE j.buffer = i.buffer /\ Len(w2) + Len(j.side.w) = k
    BY <1>3, <1>6, <2>1
  <2>2. CASE i.buffer # <<>> /\ j.buffer = Tail(i.buffer) /\ Len(w2) + Len(j.side.w) = k + 1
    <3>1. Reads(i.side, Tail(i.buffer), q \o i.side.ar, o + 1)
      BY <1>7, <2>2
    <3>2. n + (k + 1) = (n + k) + 1
      OBVIOUS
    <3>3. n + (k + 1) = o + 1
      BY <1>3, <3>2, Zenon
    <3> QED
      BY <2>2, <3>1, <3>3
  <2> QED
    BY <1>13, <2>1, <2>2 DEF WritesOn
<1>16. PICK m : m = passed(a, r, aw, w, left)
  OBVIOUS
<1>17. m.rd = q /\ m.aw = aw2 /\ m.w = w2 /\ m.b = left
  BY <1>5, <1>11, <1>16 DEF passed
<1>18. Going(i.side, j.side, j.buffer, m, n)
  BY <1>6, <1>14, <1>15, <1>17 DEF Going
<1> QED
  BY <1>5, <1>12, <1>14, <1>16, <1>18

\* A burst lands: the beats of it are no longer among those to come.
LEMMA BurstLands ==
  ASSUME NEW s, NEW d, NEW buf, NEW m, NEW n \in Nat, Going(s, d, buf, m, n),
         m.aw # <<>>, Len(m.w) >= Head(m.aw).beats, NEW after, after.rd = m.rd,
         after.aw = Tail(m.aw), after.w = SubSeq(m.w, Head(m.aw).beats + 1, Len(m.w)),
         after.b = m.b + 1
  PROVE  \E k \in Nat :
           /\ Written(m.aw, m.w) = {<<b, b>> : b \in n + 1 .. n + k}
           /\ Going(s, d, buf, after, n + k)
<1>1. /\ m.rd \in Seq(Burst) /\ m.aw \in Seq(Burst) /\ m.w \in Seq(Datum)
      /\ Reads(s, buf, m.rd \o s.ar, n + (Len(m.w) + Len(d.w)))
      /\ Writes(d, Len(buf), m.aw \o d.aw, m.w \o d.w, m.b, n)
  BY DEF Going
<1>2. m.b \in Nat /\ d.w \in Seq(Datum)
  BY <1>1 DEF Writes, Dst
<1>3. PICK k \in Nat :
        /\ k = Head(m.aw).beats /\ Written(m.aw, m.w) = {<<b, b>> : b \in n + 1 .. n + k}
        /\ Tail(m.aw) \in Seq(Burst) /\ SubSeq(m.w, k + 1, Len(m.w)) \in Seq(Datum)
        /\ Len(SubSeq(m.w, k + 1, Len(m.w))) = Len(m.w) - k /\ k <= Len(m.w)
        /\ Writes(d, Len(buf), Tail(m.aw) \o d.aw, SubSeq(m.w, k + 1, Len(m.w)) \o d.w,
                  m.b + 1, n + k)
  BY <1>1, <1>2, Lands
<1>4. after.aw = Tail(m.aw) /\ after.w = SubSeq(m.w, k + 1, Len(m.w))
  BY <1>3
<1>5. (n + k) + (Len(after.w) + Len(d.w)) = n + (Len(m.w) + Len(d.w))
  <2>1. PICK x \in Nat : x = Len(m.w)
    BY <1>1, LenProperties
  <2>2. PICK y \in Nat : y = Len(d.w)
    BY <1>2, LenProperties
  <2>3. Len(after.w) = x - k /\ k <= x
    BY <1>3, <1>4, <2>1
  <2>4. (n + k) + ((x - k) + y) = n + (x + y)
    BY <2>3
  <2> QED
    BY <2>1, <2>2, <2>3, <2>4
<1>6. Going(s, d, buf, after, n + k)
  BY <1>1, <1>3, <1>4, <1>5 DEF Going
<1> QED
  BY <1>3, <1>6

\* A run that is over has written all beats, and the memories have nothing left to do.
LEMMA OverIs ==
  ASSUME active \in Runnable, NEW s, NEW d, NEW buf, NEW m, NEW n \in Nat,
         Going(s, d, buf, m, n), d.agu.queued # 0, run_over(s, d, buf)
  PROVE  n = active.beats /\ m.rd = <<>> /\ m.aw = <<>> /\ m.w = <<>> /\ m.b = 0
<1>1. /\ m.rd \in Seq(Burst) /\ m.aw \in Seq(Burst) /\ m.w \in Seq(Datum)
      /\ Reads(s, buf, m.rd \o s.ar, n + (Len(m.w) + Len(d.w)))
      /\ Writes(d, Len(buf), m.aw \o d.aw, m.w \o d.w, m.b, n)
  BY DEF Going
<1>2. s.txn = <<>> /\ d.txn = <<>> /\ d.agu.fifo = <<>> /\ d.agu.pipe = <<0, 0, 0>> /\ d.skip = 0
  BY DEF run_over, AguEmpty
<1>3. /\ s.ar \in Seq(Burst) /\ d.aw \in Seq(Burst) /\ d.w \in Seq(Datum) /\ d.agu \in Agu
      /\ d.issued \in Nat /\ d.w_beats_left \in Nat /\ m.b \in Nat
  BY <1>1 DEF Reads, Writes, Src, Dst
<1>4. m.rd = <<>>
  <2>1. Len(m.rd \o s.ar) = 0
    BY <1>1, <1>2 DEF Reads
  <2> QED
    BY <1>1, <1>3, <2>1, NoMore
<1>5. PICK q \in Seq(Burst), data \in Seq(Datum) : q = m.aw \o d.aw /\ data = m.w \o d.w
  BY <1>1, <1>3, ConcatProperties
<1>6. /\ Len(d.txn) = m.b + Len(q) /\ Len(q) \in Nat /\ Covers(q, n + 1, d.issued + 1)
      /\ Len(data) + d.w_beats_left + n = d.issued /\ Addressed(d)
  BY <1>1, <1>5, LenProperties DEF Writes
<1>7. m.b = 0 /\ Len(q) = 0
  BY <1>2, <1>3, <1>6
<1>8. m.aw = <<>> /\ q = <<>>
  <2>1. m.aw = <<>>
    BY <1>1, <1>3, <1>5, <1>7, NoMore
  <2> QED
    BY <1>7, <2>1, EmptySeq
<1>9. n = d.issued
  <2>1. n + 1 = d.issued + 1
    BY <1>6, <1>8 DEF Covers
  <2> QED
    BY <1>3, <2>1
<1>10. m.w = <<>>
  <2>1. PICK k \in Nat, l \in Nat : k = Len(data) /\ l = d.w_beats_left
    BY <1>3, LenProperties
  <2>2. k + l + n = n
    BY <1>6, <1>9, <2>1
  <2>3. k = 0
    BY <2>2
  <2> QED
    BY <1>1, <1>3, <1>5, <2>1, <2>3, NoMore
<1>11. d.issued = active.beats
  <2>1. Generates(d.agu, d.issued)
    <3>1. d.issued - 0 = d.issued
      BY <1>3
    <3> QED
      BY <1>2, <1>6, <3>1 DEF Addressed
  <2> QED
    BY <1>2, <1>3, <2>1, AguOver
<1> QED
  BY <1>4, <1>7, <1>8, <1>9, <1>10, <1>11

\* Beats at their places, one after the other, with some more.
LEMMA MoreLanded ==
  ASSUME NEW n \in Nat, NEW k \in Nat
  PROVE  {<<b, b>> : b \in 1 .. n} \cup {<<b, b>> : b \in n + 1 .. n + k}
           = {<<b, b>> : b \in 1 .. n + k}
<1>1. 1 .. n + k = (1 .. n) \cup (n + 1 .. n + k)
  OBVIOUS
<1>2. PICK x, y, z : x = 1 .. n /\ y = n + 1 .. n + k /\ z = 1 .. n + k
  OBVIOUS
<1>3. z = x \cup y
  BY <1>1, <1>2
<1>4. {<<b, b>> : b \in x} \cup {<<b, b>> : b \in y} = {<<b, b>> : b \in z}
  BY <1>3
<1> QED
  BY <1>2, <1>4

\* What a run may do at an edge.
RunGoes(n, k, s, d, buf, m, l) ==
  /\ l = {<<b, b>> : b \in 1 .. n + k} /\ Going(s, d, buf, m, n + k) /\ d.agu.queued # 0

\* An edge of a run keeps what is in the two sides, the buffer and the memories.
LEMMA RunStep ==
  ASSUME active \in Runnable, NEW n \in Nat, Landed(n), Going(src, dst, buffer, memory, n),
         NEW h \in Handshakes, NEW edge, edge = RunEdge(h.ar, h.r, h.aw, h.w, h.b),
         Run(edge), Memories(h.ar, h.r, h.aw, h.w, h.b)
  PROVE  \E k \in Nat : RunGoes(n, k, src', dst', buffer', memory', landed')
<1>1. /\ h.ar \in BOOLEAN /\ h.r \in BOOLEAN /\ h.b \in BOOLEAN
      /\ h.r => src.r_ready /\ memory.rd # <<>>
      /\ h.b => dst.b_ready /\ memory.b > 0
  BY DEF Handshakes
<1>2. PICK a, r, aw, w, b : a = h.ar /\ r = h.r /\ aw = h.aw /\ w = h.w /\ b = h.b
  OBVIOUS
<1>3. /\ a = h.ar /\ r = h.r /\ aw = h.aw /\ w = h.w /\ b = h.b
      /\ a \in BOOLEAN /\ r \in BOOLEAN /\ b \in BOOLEAN
      /\ r => src.r_ready /\ memory.rd # <<>>
      /\ b => dst.b_ready /\ memory.b > 0
  BY <1>1, <1>2
<1>4. memory.b \in Nat
  BY DEF Going, Writes
<1>5. PICK left \in Nat : memory.b = left + IF b THEN 1 ELSE 0
  <2>1. CASE b
    <3>1. memory.b - 1 \in Nat /\ memory.b = (memory.b - 1) + 1
      BY <1>3, <1>4, <2>1
    <3> QED
      BY <2>1, <3>1
  <2>2. CASE ~b
    <3>1. memory.b = memory.b + 0
      BY <1>4
    <3> QED
      BY <1>4, <2>2, <3>1
  <2> QED
    BY <2>1, <2>2
<1>6. PICK m : m = passed(a, r, aw, w, left)
  OBVIOUS
<1>7. /\ src' = read(r, a).side /\ dst' = wrote(a, r, aw, w, b).side
      /\ buffer' = wrote(a, r, aw, w, b).buffer
  BY <1>3, EdgeIs DEF Run
<1>8. dst'.agu.queued # 0 /\ Going(src', dst', buffer', m, n)
  <2>1. /\ wrote(a, r, aw, w, b).side.agu.queued # 0
        /\ Going(read(r, a).side, wrote(a, r, aw, w, b).side, wrote(a, r, aw, w, b).buffer,
                 passed(a, r, aw, w, left), n)
    BY <1>3, <1>5, EdgeGoes
  <2> QED
    BY <1>6, <1>7, <2>1
<1>9. m.rd = rd_after(r, a) /\ m.aw = Passed(memory.aw, dst.aw, aw)
      /\ m.w = Passed(memory.w, dst.w, w) /\ m.b = left
  BY <1>6 DEF passed
<1>10. landed = {<<c, c>> : c \in 1 .. n}
  BY DEF Landed
<1>11. CASE m.aw # <<>> /\ Len(m.w) >= Head(m.aw).beats
  <2>1. /\ memory'.rd = m.rd /\ memory'.aw = Tail(m.aw)
        /\ memory'.w = SubSeq(m.w, Head(m.aw).beats + 1, Len(m.w))
        /\ memory'.b = memory.b + 1 - (IF b THEN 1 ELSE 0)
        /\ landed' = landed \cup Written(m.aw, m.w)
    BY <1>3, <1>9, <1>11 DEF Memories, Passed, rd_after
  <2>2. memory'.b = m.b + 1
    <3>1. memory'.b = left + 1
      BY <1>3, <1>5, <2>1
    <3> QED
      BY <1>9, <3>1
  <2>3. PICK k \in Nat :
          /\ Written(m.aw, m.w) = {<<c, c>> : c \in n + 1 .. n + k}
          /\ Going(src', dst', buffer', memory', n + k)
    BY <1>8, <1>11, <2>1, <2>2, BurstLands
  <2>4. landed' = {<<c, c>> : c \in 1 .. n + k}
    BY <1>10, <2>1, <2>3, MoreLanded
  <2>5. RunGoes(n, k, src', dst', buffer', memory', landed')
    BY <1>8, <2>3, <2>4 DEF RunGoes
  <2> QED
    BY <2>5
<1>12. CASE ~(m.aw # <<>> /\ Len(m.w) >= Head(m.aw).beats)
  <2>1. /\ memory'.rd = m.rd /\ memory'.aw = m.aw /\ memory'.w = m.w
        /\ memory'.b = memory.b + 0 - (IF b THEN 1 ELSE 0) /\ landed' = landed
    BY <1>3, <1>9, <1>12 DEF Memories, Passed, rd_after
  <2>2. memory'.b = m.b
    <3>1. memory'.b = left
      BY <1>3, <1>5, <2>1
    <3> QED
      BY <1>9, <3>1
  <2>3. Going(src', dst', buffer', memory', n)
    BY <1>8, <2>1, <2>2 DEF Going
  <2>4. n + 0 = n
    OBVIOUS
  <2>5. RunGoes(n, 0, src', dst', buffer', memory', landed')
    BY <1>8, <1>10, <2>1, <2>3, <2>4 DEF RunGoes
  <2> QED
    BY <2>5
<1> QED
  BY <1>11, <1>12

\* At the beginning of a run nothing is anywhere.
LEMMA RunBegins ==
  ASSUME active \in Runnable
  PROVE  Going(SrcReset, DstReset, <<>>, Idle, 0)
<1>1. active.beats \in Nat \ {0}
  BY CommandAssumption DEF Runnable
<1>2. NoAgu \in Agu
  BY DEF NoAgu, Agu
<1>3. SrcReset \in Src /\ DstReset \in Dst
  BY <1>2 DEF SrcReset, DstReset, Src, Dst
<1>4. Generates(NoAgu, 0)
  <2>1. /\ NoAgu.fifo = <<>> /\ Len(NoAgu.fifo) = 0 /\ NoAgu.fifo \in Seq(Nat)
        /\ NoAgu.queued = 0 /\ NoAgu.pipe = <<0, 0, 0>>
    BY DEF NoAgu
  <2>2. \A i \in 1 .. Len(NoAgu.fifo) : NoAgu.fifo[i] = 0 + i
    BY <2>1
  <2>3. NoAgu.pipe = <<stage(0, NoAgu.queued), stage(0, 0), stage(0, 0)>>
    BY <2>1 DEF stage
  <2>4. \E d \in Nat, c \in Nat, b \in Nat :
          /\ d = 0 + Len(NoAgu.fifo) /\ c \in {d, d + 1} /\ b \in {c, c + 1}
          /\ NoAgu.queued \in {b, b + 1}
          /\ NoAgu.pipe = <<stage(b, NoAgu.queued), stage(c, b), stage(d, c)>>
    BY <2>1, <2>3
  <2> QED
    BY <1>1, <2>1, <2>2, <2>4 DEF Generates
<1>5. Addressed(SrcReset) /\ Addressed(DstReset)
  <2>1. 0 - 0 = 0 /\ 0 <= 0
    OBVIOUS
  <2> QED
    BY <1>4, <2>1 DEF Addressed, SrcReset, DstReset
<1>6. Covers(<<>>, 1, 1) /\ Len(<<>>) = 0 /\ <<>> \o <<>> = <<>>
  <2>1. <<>> \in Seq(Burst) /\ Len(<<>>) = 0 /\ <<>> \o <<>> = <<>>
    BY EmptySeq, ConcatEmptySeq
  <2> QED
    BY <2>1 DEF Covers
<1>7. Follow(<<>>, 0)
  BY DEF Follow
<1>8. Reads(SrcReset, <<>>, <<>>, 0)
  <2>1. /\ SrcReset.resp = <<>> /\ SrcReset.issued = 0 /\ SrcReset.inflight = 0
        /\ SrcReset.txn = <<>>
    BY DEF SrcReset
  <2>2. 0 + 0 + 0 + 1 = 1 /\ 0 + 1 = 1 /\ 0 + 0 + 0 + 0 = 0 /\ 0 + 0 = 0
    OBVIOUS
  <2> QED
    BY <1>3, <1>5, <1>6, <1>7, <2>1, <2>2 DEF Reads
<1>9. Writes(DstReset, 0, <<>>, <<>>, 0, 0)
  <2>1. /\ DstReset.issued = 0 /\ DstReset.w_beats_left = 0 /\ DstReset.txn = <<>>
    BY DEF DstReset
  <2>2. 0 + 1 = 1 /\ 0 + 0 + 0 = 0 /\ 0 <= active.beats /\ 0 + 0 = 0
    BY <1>1
  <2> QED
    BY <1>3, <1>5, <1>6, <2>1, <2>2 DEF Writes
<1> QED
  <2>1. /\ Idle.rd = <<>> /\ Idle.aw = <<>> /\ Idle.w = <<>> /\ Idle.b = 0
        /\ SrcReset.ar = <<>> /\ DstReset.aw = <<>> /\ DstReset.w = <<>>
    BY DEF Idle, SrcReset, DstReset
  <2>2. <<>> \in Seq(Burst) /\ <<>> \in Seq(Datum) /\ 0 + (0 + 0) = 0
    BY EmptySeq
  <2> QED
    BY <1>6, <1>8, <1>9, <2>1, <2>2 DEF Going

\* The same command is run on.
LEMMA SameCommand ==
  ASSUME active_cmd_reg' = active_cmd_reg, NEW n \in Nat,
         Going(src', dst', buffer', memory', n)
  PROVE  Going(src, dst, buffer, memory, n)'
<1>1. active' = active /\ (direct_load_pad_active <=> direct_load_pad_active')
  BY DEF active, direct_load_pad_active
<1>2. Addressed(src') => Addressed(src)'
  BY <1>1 DEF Addressed, Generates
<1>3. Addressed(dst') => Addressed(dst)'
  BY <1>1 DEF Addressed, Generates
<1>4. ASSUME NEW b, NEW k, Reads(src', buffer', b, k)
      PROVE  Reads(src, buffer, b, k)'
  BY <1>1, <1>2, <1>4 DEF Reads
<1>5. ASSUME NEW b, NEW w, Writes(dst', Len(buffer'), b, w, memory'.b, n)
      PROVE  Writes(dst, Len(buffer), b, w, memory.b, n)'
  BY <1>1, <1>3, <1>5 DEF Writes
<1> QED
  BY <1>4, <1>5 DEF Going

-----------------------------------------------------------------------------
(* The engine is a copier.                                                 *)

\* How many beats are copied when these were written.
Count(l) ==
  IF l = {<<b, b>> : b \in 1 .. Cardinality(l)} THEN Cardinality(l)
  ELSE 1 + Max({c.beats : c \in Commands})

\* The first n beats written are n beats copied.
LEMMA CountIs ==
  ASSUME NEW n \in Nat, NEW l, l = {<<b, b>> : b \in 1 .. n}
  PROVE  Count(l) = n
<1>1. PICK f : f = [b \in 1 .. n |-> <<b, b>>]
  OBVIOUS
<1>2. f \in Bijection(1 .. n, l)
  <2>1. f \in [1 .. n -> l]
    BY <1>1
  <2>2. ASSUME NEW x \in 1 .. n, NEW y \in 1 .. n, f[x] = f[y] PROVE x = y
    BY <1>1, <2>2
  <2>3. ASSUME NEW z \in l PROVE \E x \in 1 .. n : f[x] = z
    BY <1>1
  <2> QED
    BY <2>1, <2>2, <2>3 DEF Bijection, Injection, Surjection, IsInjective
<1>3. ExistsBijection(1 .. n, l)
  BY <1>2 DEF ExistsBijection
<1>4. Cardinality(l) = n
  BY <1>3, FS_CountingElements
<1> QED
  BY <1>4 DEF Count

\* What is copied is counted from what was written.
LEMMA CopiedIs == copied = Count(landed) /\ copied' = Count(landed')
BY DEF copied, Count

\* Beats in the destination are beats of the command.
LEMMA GoingFits ==
  ASSUME active \in Runnable, NEW s, NEW d, NEW buf, NEW m, NEW n \in Nat, Going(s, d, buf, m, n)
  PROVE  n <= active.beats
<1>1. /\ d.issued \in Nat /\ d.issued <= active.beats
      /\ Covers(m.aw \o d.aw, n + 1, d.issued + 1)
  BY DEF Going, Writes, Dst
<1>2. n + 1 <= d.issued + 1
  <2>1. n + 1 \in Nat
    OBVIOUS
  <2>2. PICK f \in Nat : f = n + 1
    BY <2>1
  <2>3. PICK q : q = m.aw \o d.aw /\ f = n + 1
    BY <2>2
  <2>4. PICK u \in Nat : u = d.issued + 1
    BY <1>1
  <2>5. Covers(q, f, u)
    BY <1>1, <2>3, <2>4
  <2>6. f <= u
    BY <2>5, CoversSome
  <2> QED
    BY <2>3, <2>4, <2>6
<1>3. active.beats \in Nat
  BY CommandAssumption DEF Runnable
<1> QED
  BY <1>1, <1>2, <1>3

\* A command that came, or none: what a queue is at the next edge.
Comes(rest, next) ==
  next = rest \/ (Len(rest) <= kDmaCmdFifoDepth /\ \E e \in Submission : next = rest \o <<e>>)

\* A command comes only when the FIFO is not full.
LEMMA SubmitComes ==
  ASSUME NEW submitted \in Submits, cmd_fifo_reg \in Seq(Submission),
         Len(cmd_fifo_reg) <= kDmaCmdFifoDepth, next_tag \in Tag
  PROVE  /\ Len(fifo_with(submitted)) <= kDmaCmdFifoDepth
         /\ Comes(cmd_fifo_reg, fifo_with(submitted))
         /\ \A a \in Submission : Comes(<<a>> \o cmd_fifo_reg, <<a>> \o fifo_with(submitted))
<1>1. PICK D \in Nat \ {0} : D = kDmaCmdFifoDepth
  BY SizeAssumption
<1>2. PICK k \in Nat : k = Len(cmd_fifo_reg) /\ k <= D
  BY <1>1, LenProperties
<1>3. CASE queue_full \/ submitted = <<>>
  <2>1. fifo_with(submitted) = cmd_fifo_reg
    BY <1>3, ConcatEmptySeq DEF fifo_with
  <2> QED
    BY <2>1 DEF Comes
<1>4. CASE ~(queue_full \/ submitted = <<>>)
  <2>1. PICK e \in Submission : submitted = <<e>>
    BY <1>4 DEF Submits, Submission
  <2>2. <<e>> \in Seq(Submission) /\ Len(<<e>>) = 1
    OBVIOUS
  <2>3. fifo_with(submitted) = cmd_fifo_reg \o <<e>>
    BY <1>4, <2>1 DEF fifo_with
  <2>4. k < D
    BY <1>1, <1>2, <1>4 DEF queue_full
  <2>5. Len(cmd_fifo_reg \o <<e>>) = k + 1
    BY <1>2, <2>2, ConcatProperties
  <2>6. k + 1 <= D
    BY <2>4
  <2>7. ASSUME NEW a \in Submission
        PROVE  Comes(<<a>> \o cmd_fifo_reg, <<a>> \o fifo_with(submitted))
    <3>1. <<a>> \in Seq(Submission) /\ Len(<<a>>) = 1
      OBVIOUS
    <3>2. <<a>> \o (cmd_fifo_reg \o <<e>>) = (<<a>> \o cmd_fifo_reg) \o <<e>>
      BY <2>2, <3>1, ConcatAssociative
    <3>3. Len(<<a>> \o cmd_fifo_reg) = 1 + k
      BY <1>2, <3>1, ConcatProperties
    <3>4. Len(<<a>> \o cmd_fifo_reg) <= D
      BY <2>6, <3>3
    <3> QED
      BY <1>1, <2>3, <3>2, <3>4 DEF Comes
  <2>8. Comes(cmd_fifo_reg, fifo_with(submitted))
    BY <1>1, <1>2, <2>3 DEF Comes
  <2> QED
    BY <1>1, <2>3, <2>5, <2>6, <2>7, <2>8
<1> QED
  BY <1>3, <1>4

\* Then the queue of the copier becomes what it may become.
LEMMA BecomesOf ==
  ASSUME NEW rest \in Seq(Submission), Len(rest) <= kDmaCmdFifoDepth + 1, Comes(rest, live')
  PROVE  Ideal!Becomes(rest)
<1>1. PICK D \in Nat \ {0} : D = kDmaCmdFifoDepth
  BY SizeAssumption
<1>2. PICK k \in Nat : k = Len(rest) /\ k <= D + 1
  BY <1>1, LenProperties
<1>3. CASE live' = rest
  <2>1. PICK q \in Seq(Submission) : q = live'
    BY <1>3
  <2>2. Len(q) = k /\ q = rest
    BY <1>2, <1>3, <2>1
  <2>3. SubSeq(q, 1, k) = rest
    BY <1>2, <2>2, SubSeqFull
  <2>4. k \in {k, k + 1} /\ ~(k > k)
    OBVIOUS
  <2> QED
    BY <1>1, <1>2, <2>1, <2>2, <2>3, <2>4 DEF Ideal!Becomes
<1>4. ASSUME NEW e \in Submission, live' = rest \o <<e>>, k <= D
      PROVE  Ideal!Becomes(rest)
  <2>1. <<e>> \in Seq(Submission) /\ Len(<<e>>) = 1
    OBVIOUS
  <2>2. PICK q \in Seq(Submission) : q = live'
    BY <1>4, <2>1, ConcatProperties
  <2>3. Len(q) = k + 1 /\ q[k + 1] = e /\ \A i \in 1 .. k : q[i] = rest[i]
    BY <1>2, <1>4, <2>2, OneMore
  <2>4. SubSeq(q, 1, k) = rest
    <3>1. PICK s : s = SubSeq(q, 1, k)
      OBVIOUS
    <3>2. s \in Seq(Submission) /\ Len(s) = k /\ \A i \in 1 .. k : s[i] = q[i]
      <4>1. 1 \in 1 .. k + 1 /\ k \in 0 .. k + 1
        OBVIOUS
      <4> QED
        BY <2>3, <3>1, <4>1, SubSeqProperties
    <3>3. s = rest
      BY <1>2, <2>3, <3>2, SeqEqual
    <3> QED
      BY <3>1, <3>3
  <2>5. k + 1 \in {k, k + 1} /\ k + 1 <= D + 1
    BY <1>4
  <2>6. e \in Ideal!Command
    BY DEF Submission, Ideal!Command
  <2> QED
    BY <1>1, <1>2, <2>2, <2>3, <2>4, <2>5, <2>6 DEF Ideal!Becomes
<1> QED
  BY <1>1, <1>2, <1>3, <1>4 DEF Comes

\* At reset nothing is copied.
LEMMA InitCopyInv == Init => CopyInv
<1> SUFFICES ASSUME Init PROVE CopyInv
  OBVIOUS
<1>1. Len(cmd_fifo_reg) <= kDmaCmdFifoDepth
  <2>1. kDmaCmdFifoDepth \in Nat
    BY SizeAssumption
  <2> QED
    BY <2>1 DEF Init
<1>2. Landed(0)
  <2>1. 1 .. 0 = {}
    OBVIOUS
  <2> QED
    BY <2>1 DEF Init, Landed
<1> QED
  BY <1>1, <1>2 DEF Init, CopyInv

\* The command that is active, and the tags.
LEMMA ActiveIs ==
  ASSUME IInv
  PROVE  /\ cmd_fifo_reg \in Seq(Submission) /\ next_tag \in Tag
         /\ state_reg \in {"IDLE", "VALIDATE", "RUN", "DONE", "ERROR"}
         /\ state_reg = "IDLE" => active_cmd_reg = <<>> /\ live = cmd_fifo_reg
         /\ state_reg # "IDLE" =>
              \E a \in Submission :
                /\ active_cmd_reg = <<a>> /\ active = a.what /\ active \in Commands
                /\ live = <<a>> \o cmd_fifo_reg /\ Head(live) = a /\ live # <<>>
                /\ Tail(live) = cmd_fifo_reg
<1>1. cmd_fifo_reg \in Seq(Submission) /\ next_tag \in Tag
  BY DEF IInv, InOrder
<1>2. CASE state_reg = "IDLE" /\ active_cmd_reg = <<>>
  <2>1. live = cmd_fifo_reg
    BY <1>1, <1>2, ConcatEmptySeq DEF live
  <2> QED
    BY <1>1, <1>2, <2>1
<1>3. ASSUME NEW a \in Submission, active_cmd_reg = <<a>>,
             state_reg \in {"VALIDATE", "RUN", "DONE", "ERROR"}
      PROVE  /\ active_cmd_reg = <<a>> /\ active = a.what /\ active \in Commands
             /\ live = <<a>> \o cmd_fifo_reg /\ Head(live) = a /\ live # <<>>
             /\ Tail(live) = cmd_fifo_reg
  <2>1. active = a.what /\ a.what \in Commands
    BY <1>3 DEF active, Submission
  <2>2. live = <<a>> \o cmd_fifo_reg
    BY <1>3 DEF live
  <2>3. live # <<>> /\ Tail(live) = cmd_fifo_reg /\ live[1] = a /\ live \in Seq(Submission)
    BY <1>1, <2>2, FirstAndRest
  <2>4. Head(live) = a
    BY <2>3
  <2> QED
    BY <1>3, <2>1, <2>2, <2>3, <2>4
<1> QED
  BY <1>1, <1>2, <1>3 DEF IInv

\* What a step is to the copier: the commands it leaves in the queue, and a command
\* more or none.
Leaves(rest) ==
  /\ rest \in Seq(Submission) /\ Len(rest) <= kDmaCmdFifoDepth + 1 /\ Comes(rest, live')
  /\ Len(cmd_fifo_reg') <= kDmaCmdFifoDepth

\* An edge leaves all commands, but the one that is reported.
LEMMA EdgeLeaves ==
  ASSUME IInv, CopyInv, NEW submitted \in Submits, NEW h \in Handshakes, Clock(submitted, h)
  PROVE  IF Report(submitted) THEN Leaves(Tail(live)) ELSE Leaves(live)
<1>1. /\ cmd_fifo_reg \in Seq(Submission) /\ next_tag \in Tag
      /\ Len(cmd_fifo_reg) <= kDmaCmdFifoDepth
  BY ActiveIs DEF CopyInv
<1>2. PICK f : f = fifo_with(submitted)
  OBVIOUS
<1>3. PICK q \in Seq(Submission) : f = fifo_with(submitted) /\ q = cmd_fifo_reg
  BY <1>1, <1>2
<1>4. /\ Len(f) <= kDmaCmdFifoDepth /\ Comes(q, f)
      /\ \A a \in Submission : Comes(<<a>> \o q, <<a>> \o f)
  BY <1>1, <1>3, SubmitComes
<1>5. f \in Seq(Submission)
  BY <1>3, <1>4, OneMore DEF Comes
<1>6. PICK D \in Nat \ {0} : D = kDmaCmdFifoDepth
  BY SizeAssumption
<1>7. PICK k \in Nat : k = Len(q) /\ k <= D
  BY <1>1, <1>3, <1>6, LenProperties
<1>8. k <= D + 1 /\ 1 + k <= D + 1
  BY <1>7
<1>9. CASE IDLE(submitted)
  <2>1. live = q /\ active_cmd_reg = <<>> /\ ~Report(submitted)
    BY <1>3, <1>9, ActiveIs DEF IDLE, Report
  <2>2. CASE f = <<>>
    <3>1. active_cmd_reg' = <<>> /\ cmd_fifo_reg' = q
      BY <1>3, <1>9, <2>1, <2>2 DEF IDLE
    <3>2. live' = q
      BY <3>1, ConcatEmptySeq DEF live
    <3> QED
      BY <1>1, <1>3, <1>6, <1>7, <1>8, <2>1, <3>1, <3>2 DEF Leaves, Comes
  <2>3. CASE f # <<>>
    <3>1. active_cmd_reg' = <<Head(f)>> /\ cmd_fifo_reg' = Tail(f)
      BY <1>3, <1>9, <2>3 DEF IDLE
    <3>2. live' = f
      BY <1>5, <2>3, <3>1, FirstAndRest DEF live
    <3>3. Len(Tail(f)) <= D
      <4>1. PICK j \in Nat : j = Len(f) /\ j <= D
        BY <1>4, <1>5, <1>6, LenProperties
      <4>2. Len(Tail(f)) = j - 1
        BY <1>5, <2>3, <4>1, HeadTailProperties
      <4> QED
        BY <4>1, <4>2
    <3> QED
      BY <1>4, <1>6, <1>7, <1>8, <2>1, <3>1, <3>2, <3>3 DEF Leaves
  <2> QED
    BY <2>2, <2>3
<1>10. CASE VALIDATE(submitted) \/ RUN(submitted, h)
  <2>1. /\ active_cmd_reg' = active_cmd_reg /\ cmd_fifo_reg' = f /\ state_reg # "IDLE"
        /\ ~Report(submitted)
    BY <1>3, <1>10 DEF VALIDATE, RUN, Run, Report
  <2>2. PICK a \in Submission : active_cmd_reg = <<a>> /\ live = <<a>> \o q
    BY <1>3, <2>1, ActiveIs
  <2>3. live' = <<a>> \o f
    BY <2>1, <2>2 DEF live
  <2>4. <<a>> \o q \in Seq(Submission) /\ Len(<<a>> \o q) = 1 + k
    <3>1. <<a>> \in Seq(Submission) /\ Len(<<a>>) = 1
      OBVIOUS
    <3> QED
      BY <1>7, <3>1, ConcatProperties
  <2> QED
    BY <1>4, <1>6, <1>8, <2>1, <2>2, <2>3, <2>4 DEF Leaves
<1>11. CASE Report(submitted)
  <2>1. active_cmd_reg' = <<>> /\ cmd_fifo_reg' = f /\ state_reg # "IDLE"
    BY <1>3, <1>11 DEF Report
  <2>2. Tail(live) = q
    BY <1>3, <2>1, ActiveIs
  <2>3. live' = f
    BY <1>5, <2>1, ConcatEmptySeq DEF live
  <2> QED
    BY <1>4, <1>6, <1>7, <1>8, <1>11, <2>1, <2>2, <2>3 DEF Leaves
<1> QED
  BY <1>9, <1>10, <1>11 DEF Clock

\* An edge of the engine as the copier sees it: what it leaves, and that it copies or
\* reports.
Copies == Leaves(live) /\ Ideal!Copy /\ CopyInv'
Reports == Leaves(Tail(live)) /\ Ideal!Report /\ CopyInv'

\* Commands wait or are begun.
LEMMA IdleCopies ==
  ASSUME IInv, CopyInv, NEW submitted, IDLE(submitted), Leaves(live)
  PROVE  Copies
<1>1. /\ state_reg' \in {"IDLE", "VALIDATE"} /\ memory' = memory /\ landed' = landed
      /\ mmio_done_tag_reg' = mmio_done_tag_reg /\ memory = Idle /\ Landed(0)
  BY DEF IDLE, Execution, CopyInv
<1>2. copied' = copied
  BY <1>1, CopiedIs
<1>3. Ideal!Copy
  BY <1>1, <1>2, BecomesOf DEF Ideal!Copy, Leaves
<1>4. CopyInv'
  <2>1. memory' = Idle' /\ Landed(0)'
    BY <1>1 DEF Idle, Landed
  <2> QED
    BY <1>1, <2>1 DEF CopyInv, Leaves
<1> QED
  BY <1>3, <1>4 DEF Copies

\* A command is refused, or its run begins.
LEMMA ValidateCopies ==
  ASSUME IInv, CopyInv, NEW submitted, VALIDATE(submitted), Leaves(live)
  PROVE  Copies
<1>1. /\ memory' = memory /\ landed' = landed /\ active_cmd_reg' = active_cmd_reg
      /\ mmio_done_tag_reg' = mmio_done_tag_reg /\ memory = Idle /\ Landed(0)
      /\ active \in Commands
  BY ActiveIs DEF VALIDATE, CopyInv
<1>2. copied' = copied
  BY <1>1, CopiedIs
<1>3. Ideal!Copy
  BY <1>1, <1>2, BecomesOf DEF Ideal!Copy, Leaves
<1>4. memory' = Idle' /\ Landed(0)'
  BY <1>1 DEF Idle, Landed
<1>5. accepted' <=> accepted
  BY <1>1 DEF accepted, total_beats, validate_transform_cfg, active
<1>6. CASE accepted
  <2>1. state_reg' = "RUN" /\ src' = SrcReset /\ dst' = DstReset /\ buffer' = <<>>
    BY <1>6 DEF VALIDATE
  <2>2. Going(SrcReset, DstReset, <<>>, Idle, 0)
    BY <1>1, <1>6, RunBegins DEF accepted, total_beats, Runnable
  <2>3. Going(src', dst', buffer', memory', 0)
    BY <1>1, <2>1, <2>2
  <2>4. Going(src, dst, buffer, memory, 0)'
    BY <1>1, <2>3, SameCommand
  <2>5. Running'
    BY <1>4, <2>4 DEF Running
  <2> QED
    BY <1>3, <1>5, <1>6, <2>1, <2>5 DEF Copies, CopyInv, Leaves
<1>7. CASE ~accepted
  <2>1. state_reg' = "ERROR"
    BY <1>7 DEF VALIDATE
  <2> QED
    BY <1>3, <1>4, <1>5, <1>7, <2>1 DEF Copies, CopyInv, Leaves
<1> QED
  BY <1>6, <1>7

\* Beats are read and written, and at the end all are there.
LEMMA RunCopies ==
  ASSUME IInv, CopyInv, NEW submitted, NEW h \in Handshakes, RUN(submitted, h), Leaves(live)
  PROVE  Copies
<1>1. /\ state_reg = "RUN" /\ accepted /\ Running
      /\ active_cmd_reg' = active_cmd_reg /\ mmio_done_tag_reg' = mmio_done_tag_reg
  BY DEF RUN, Run, CopyInv
<1>2. PICK a \in Submission :
        /\ active_cmd_reg = <<a>> /\ active = a.what /\ active \in Runnable
        /\ live # <<>> /\ Head(live) = a
  BY <1>1, ActiveIs DEF accepted, total_beats, Runnable
<1>3. PICK n \in Nat : Landed(n) /\ Going(src, dst, buffer, memory, n)
  BY <1>1 DEF Running
<1>4. PICK edge : edge = RunEdge(h.ar, h.r, h.aw, h.w, h.b)
  OBVIOUS
<1>5. Run(edge) /\ Memories(h.ar, h.r, h.aw, h.w, h.b)
  BY <1>4 DEF RUN
<1>6. PICK k \in Nat : RunGoes(n, k, src', dst', buffer', memory', landed')
  BY <1>2, <1>3, <1>4, <1>5, RunStep
<1>7. n + k \in Nat
  OBVIOUS
<1>8. PICK o \in Nat : o = n + k
  BY <1>7
<1>9. /\ landed' = {<<b, b>> : b \in 1 .. o} /\ Going(src', dst', buffer', memory', o)
      /\ dst'.agu.queued # 0
  BY <1>6, <1>8 DEF RunGoes
<1>10. o <= active.beats
  BY <1>2, <1>9, GoingFits
<1>11. copied = n /\ copied' = o
  <2>1. landed = {<<b, b>> : b \in 1 .. n}
    BY <1>3 DEF Landed
  <2>2. Count(landed) = n
    BY <2>1, CountIs
  <2>3. Count(landed') = o
    BY <1>9, CountIs
  <2> QED
    BY <2>2, <2>3, CopiedIs
<1>12. Ideal!Copy
  <2>1. copied' = copied \/ (copied' > copied /\ copied' <= a.what.beats)
    <3>1. o = n \/ o > n
      BY <1>8
    <3> QED
      BY <1>2, <1>10, <1>11, <3>1
  <2>2. a.what.valid
    BY <1>1, <1>2 DEF accepted, validate_transform_cfg
  <2>3. Ideal!Becomes(live)
    BY BecomesOf DEF Leaves
  <2> QED
    BY <1>1, <1>2, <2>1, <2>2, <2>3 DEF Ideal!Copy
<1>13. Going(src, dst, buffer, memory, o)'
  BY <1>1, <1>9, SameCommand
<1>14. Landed(o)'
  BY <1>9 DEF Landed
<1>15. (accepted <=> accepted') /\ active' = active
  BY <1>1 DEF accepted, total_beats, validate_transform_cfg, active
<1>16. CASE run_over(edge.src, edge.dst, edge.buffer)
  <2>1. state_reg' = "DONE" /\ run_over(src', dst', buffer')
    BY <1>5, <1>16 DEF Run
  <2>2. o = active.beats /\ memory'.rd = <<>> /\ memory'.aw = <<>> /\ memory'.w = <<>>
        /\ memory'.b = 0
    BY <1>2, <1>9, <2>1, OverIs
  <2>3. memory' = [rd |-> memory'.rd, aw |-> memory'.aw, w |-> memory'.w, b |-> memory'.b]
    BY <1>5 DEF Memories
  <2>4. memory' = Idle'
    BY <2>2, <2>3 DEF Idle
  <2>5. Landed(active.beats)'
    BY <1>9, <1>15, <2>2 DEF Landed
  <2> QED
    BY <1>12, <2>1, <2>4, <2>5 DEF Copies, CopyInv, Leaves
<1>17. CASE ~run_over(edge.src, edge.dst, edge.buffer)
  <2>1. state_reg' = "RUN"
    BY <1>5, <1>17 DEF Run
  <2>2. Running'
    BY <1>13, <1>14 DEF Running
  <2> QED
    BY <1>1, <1>12, <1>15, <2>1, <2>2 DEF Copies, CopyInv, Leaves
<1> QED
  BY <1>16, <1>17

\* A command is reported when all of it is written, or it was refused.
LEMMA ReportReports ==
  ASSUME IInv, CopyInv, NEW submitted, Report(submitted), Leaves(Tail(live))
  PROVE  Reports
<1>1. /\ state_reg \in {"DONE", "ERROR"} /\ memory' = memory /\ landed' = {} /\ memory = Idle
      /\ mmio_done_tag_reg' = Head(active_cmd_reg).tag /\ state_reg' = "IDLE"
      /\ state_reg = "ERROR" => ~accepted /\ Landed(0)
      /\ state_reg = "DONE" => Landed(active.beats)
  BY DEF Report, reported_tag, CopyInv
<1>2. PICK a \in Submission :
        /\ active_cmd_reg = <<a>> /\ active = a.what /\ active \in Commands
        /\ live # <<>> /\ Head(live) = a
  BY <1>1, ActiveIs
<1>3. copied' = 0
  <2>1. landed' = {<<b, b>> : b \in 1 .. 0}
    <3>1. 1 .. 0 = {}
      OBVIOUS
    <3> QED
      BY <1>1, <3>1
  <2> QED
    BY <2>1, CountIs, CopiedIs
<1>4. a.what.valid => copied = a.what.beats
  <2>1. CASE state_reg = "ERROR"
    <3>1. landed = {<<b, b>> : b \in 1 .. 0}
      BY <1>1, <2>1 DEF Landed
    <3>2. copied = 0
      BY <3>1, CountIs, CopiedIs
    <3> QED
      BY <1>1, <1>2, <2>1, <3>2 DEF accepted, total_beats, validate_transform_cfg
  <2>2. CASE state_reg = "DONE"
    <3>1. PICK n \in Nat : n = a.what.beats
      BY <1>2, CommandAssumption
    <3>2. landed = {<<b, b>> : b \in 1 .. n}
      BY <1>1, <1>2, <2>2, <3>1 DEF Landed
    <3> QED
      BY <3>1, <3>2, CountIs, CopiedIs
  <2> QED
    BY <1>1, <2>1, <2>2
<1>5. Ideal!Becomes(Tail(live))
  BY BecomesOf DEF Leaves
<1>6. mmio_done_tag_reg' = a.tag
  BY <1>1, <1>2
<1>7. Ideal!Report
  BY <1>2, <1>3, <1>4, <1>5, <1>6 DEF Ideal!Report
<1>8. CopyInv'
  <2>1. 1 .. 0 = {}
    OBVIOUS
  <2>2. memory' = Idle' /\ Landed(0)'
    BY <1>1, <2>1 DEF Idle, Landed
  <2> QED
    BY <1>1, <2>2 DEF CopyInv, Leaves
<1> QED
  BY <1>7, <1>8 DEF Reports

\* An edge keeps the invariant and is a step of the copier.
LEMMA EdgeCopies == IInv /\ CopyInv /\ Next => CopyInv' /\ Ideal!Next
<1> SUFFICES ASSUME IInv, CopyInv, Next PROVE CopyInv' /\ Ideal!Next
  OBVIOUS
<1>1. PICK submitted \in Submits, h \in Handshakes : Clock(submitted, h)
  BY DEF Next
<1>2. IF Report(submitted) THEN Leaves(Tail(live)) ELSE Leaves(live)
  BY <1>1, EdgeLeaves
<1>3. Report(submitted) => ~IDLE(submitted) /\ ~VALIDATE(submitted) /\ ~RUN(submitted, h)
  BY DEF Report, IDLE, VALIDATE, RUN
<1>4. Copies \/ Reports
  BY <1>1, <1>2, <1>3, IdleCopies, ValidateCopies, RunCopies, ReportReports DEF Clock
<1> QED
  BY <1>4 DEF Copies, Reports, Ideal!Next

\* Whatever the commands, the depths, the bursts on the two sides and the timing of
\* the memories are, every beat of a command that is accepted lands once, at its place
\* and in order, and the tag of a command is reported only when all of its beats have.
THEOREM Copying == Spec => ImplementsCopier
<1>1. Init => Ideal!Init
  <2> SUFFICES ASSUME Init PROVE Ideal!Init
    OBVIOUS
  <2>1. live = <<>> /\ mmio_done_tag_reg = 0 /\ landed = {}
    BY DEF Init, live
  <2>2. 1 .. 0 = {}
    OBVIOUS
  <2>3. landed = {<<b, b>> : b \in 1 .. 0}
    BY <2>1, <2>2
  <2>4. copied = 0
    BY <2>3, CountIs, CopiedIs
  <2> QED
    BY <2>1, <2>4 DEF Ideal!Init
<1>2. UNCHANGED vars /\ CopyInv => CopyInv' /\ UNCHANGED <<live, copied, mmio_done_tag_reg>>
  <2> SUFFICES ASSUME UNCHANGED vars, CopyInv
               PROVE  CopyInv' /\ UNCHANGED <<live, copied, mmio_done_tag_reg>>
    OBVIOUS
  <2>1. /\ cmd_fifo_reg' = cmd_fifo_reg /\ active_cmd_reg' = active_cmd_reg
        /\ state_reg' = state_reg /\ memory' = memory /\ landed' = landed
        /\ src' = src /\ dst' = dst /\ buffer' = buffer
        /\ mmio_done_tag_reg' = mmio_done_tag_reg
    BY DEF vars
  <2>2. live' = live /\ copied' = copied
    BY <2>1, CopiedIs DEF live
  <2>3. /\ active' = active /\ memory' = memory
        /\ (accepted <=> accepted')
        /\ (Landed(0) => Landed(0)') /\ (Landed(active.beats) => Landed(active.beats)')
    BY <2>1 DEF active, accepted, total_beats, validate_transform_cfg, Landed
  <2>4. Running => Running'
    <3>1. ASSUME NEW n \in Nat, Landed(n), Going(src, dst, buffer, memory, n)
          PROVE  Landed(n)' /\ Going(src, dst, buffer, memory, n)'
      <4>1. Going(src', dst', buffer', memory', n)
        BY <2>1, <3>1
      <4> QED
        BY <2>1, <3>1, <4>1, SameCommand DEF Landed
    <3> QED
      BY <3>1 DEF Running
  <2>5. Idle' = Idle
    BY DEF Idle
  <2>6. CopyInv'
    BY <2>1, <2>3, <2>4, <2>5 DEF CopyInv
  <2> QED
    BY <2>1, <2>2, <2>6
<1>3. Spec => []CopyInv
  <2>1. Init => CopyInv
    BY InitCopyInv
  <2>2. IInv /\ CopyInv /\ [Next]_vars => CopyInv'
    BY <1>2, EdgeCopies
  <2> QED
    BY <2>1, <2>2, TagsInOrder, PTL DEF Spec
<1>4. IInv /\ CopyInv /\ [Next]_vars => [Ideal!Next]_<<live, copied, mmio_done_tag_reg>>
  BY <1>2, EdgeCopies
<1> QED
  BY <1>1, <1>3, <1>4, TagsInOrder, PTL DEF Spec, ImplementsCopier, Ideal!Spec
=============================================================================
