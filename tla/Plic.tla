-------------------------------- MODULE Plic --------------------------------
(***************************************************************************)
(* Core/Plic.hpp: the interrupt controller between the clusters, the DMA   *)
(* engine, the fault lines and the core.                                   *)
(*                                                                         *)
(* A step is a rising clock edge: every source line is sampled into the    *)
(* pending bits, and at most one register is accessed.  MEIP is computed   *)
(* when one of the signals it is sensitive to changes; the priorities are  *)
(* plain members, not signals.                                             *)
(***************************************************************************)
EXTENDS Naturals

CONSTANTS
  kNumSources,    \* sources are 1 .. kNumSources
  MaxPriority     \* bound: the greatest priority or threshold software writes

ASSUME SourcesAssumption == kNumSources \in Nat /\ MaxPriority \in Nat \ {0}

VARIABLES
  irq,                        \* the source lines that are up
  priority, enable, threshold,
  pending, claimed,           \* claimed_mask
  meip,                       \* meip_o
  answer,                     \* what a claim returned at the last edge; 0: no claim
  owed                        \* history: sources that came up since their last claim

plic_vars == <<irq, priority, enable, threshold, pending, claimed, meip, answer, owed>>

Sources == 1 .. kNumSources
Levels == 0 .. MaxPriority

TypeOK ==
  /\ irq \subseteq Sources
  /\ priority \in [Sources -> Levels]
  /\ enable \subseteq Sources /\ threshold \in Levels
  /\ pending \subseteq Sources /\ claimed \subseteq Sources
  /\ meip \in BOOLEAN
  /\ answer \in 0 .. kNumSources
  /\ owed \subseteq Sources

PlicInit ==
  /\ irq = {} /\ priority = [s \in Sources |-> 1]
  /\ enable = {} /\ threshold = 0
  /\ pending = {} /\ claimed = {}
  /\ meip = FALSE /\ answer = 0 /\ owed = {}

-----------------------------------------------------------------------------
(* Claims.                                                                 *)

\* A claim can return s: is_pending, is_enabled, and above the threshold.
Claimable(pend, s) == s \in pend /\ s \in enable /\ priority[s] > threshold

\* The loop of claim() takes s over the best source before it.
Better(pend, s, best) ==
  Claimable(pend, s) /\ (best = 0 \/ priority[s] > priority[best])

\* claim(): the best of the sources up to s, 0 when there is none.
BestUpTo(pend) ==
  LET best[s \in 0 .. kNumSources] ==
        IF s = 0 THEN 0 ELSE IF Better(pend, s, best[s - 1]) THEN s ELSE best[s - 1]
  IN  best

claim(pend) == BestUpTo(pend)[kNumSources]

-----------------------------------------------------------------------------
(* Edges.                                                                  *)

\* Defect: a source that is claimed is not sampled before it is completed.
Sampled_gated == pending \cup (irq \ claimed)

\* The lines that are up become pending, and stay so.
Sampled == pending \cup irq

\* The source that a claim returns is marked, if there is one.
Marked(s) == claimed \cup ({s} \ {0})

\* Defect: MEIP follows the pending bits alone.
Sensitive_pending == pending' # pending

\* comb_meip runs when one of the signals it is sensitive to has changed.
Sensitive == pending' # pending \/ enable' # enable \/ threshold' # threshold

Asserted == \E s \in Sources :
  s \in pending' /\ s \in enable' /\ priority'[s] > threshold'

DriveMeip == meip' = IF Sensitive THEN Asserted ELSE meip

\* The source lines move freely between edges.
Lines == irq' \in SUBSET Sources

NoAccess ==
  /\ pending' = Sampled /\ answer' = 0 /\ owed' = owed \cup irq
  /\ UNCHANGED <<priority, enable, threshold, claimed>>
  /\ Lines /\ DriveMeip

WritePriority(s, level) ==
  /\ priority' = [priority EXCEPT ![s] = level]
  /\ pending' = Sampled /\ answer' = 0 /\ owed' = owed \cup irq
  /\ UNCHANGED <<enable, threshold, claimed>>
  /\ Lines /\ DriveMeip

WriteEnable(sources) ==
  /\ enable' = sources
  /\ pending' = Sampled /\ answer' = 0 /\ owed' = owed \cup irq
  /\ UNCHANGED <<priority, threshold, claimed>>
  /\ Lines /\ DriveMeip

WriteThreshold(level) ==
  /\ threshold' = level
  /\ pending' = Sampled /\ answer' = 0 /\ owed' = owed \cup irq
  /\ UNCHANGED <<priority, enable, claimed>>
  /\ Lines /\ DriveMeip

\* A read of CLAIM_COMPLETE: the claimed source leaves the pending bits, also when
\* its line is up at this edge.
Claim ==
  /\ answer' = claim(Sampled)
  /\ pending' = Sampled \ {answer'}
  /\ claimed' = Marked(answer')
  /\ owed' = (owed \cup irq) \ {answer'}
  /\ UNCHANGED <<priority, enable, threshold>>
  /\ Lines /\ DriveMeip

\* A write of CLAIM_COMPLETE; the line is looked at once more, which Sampled has
\* already done.
Complete(s) ==
  /\ claimed' = claimed \ {s}
  /\ pending' = Sampled /\ answer' = 0 /\ owed' = owed \cup irq
  /\ UNCHANGED <<priority, enable, threshold>>
  /\ Lines /\ DriveMeip

\* Any software; a completion of no source only gets a warning.
PlicNext ==
  \/ NoAccess
  \/ \E s \in Sources, level \in Levels : WritePriority(s, level)
  \/ \E sources \in SUBSET Sources : WriteEnable(sources)
  \/ \E level \in Levels : WriteThreshold(level)
  \/ Claim
  \/ \E s \in 0 .. kNumSources : Complete(s)

PlicSpec == PlicInit /\ [][PlicNext]_plic_vars

-----------------------------------------------------------------------------
(* Properties.                                                             *)

\* No interrupt is lost: a source that came up, if only for one edge as the DMA
\* engine's does, and also while its last claim is not completed, stays pending
\* until it is claimed.
NoInterruptLost == owed \subseteq pending

\* MEIP is up exactly when a claim would return a source.
MeipMeansClaim == meip <=> \E s \in Sources : Claimable(pending, s)
=============================================================================
