-------------------------------- MODULE MCBoot --------------------------------
(***************************************************************************)
(* TLC instance of Boot: manifests with sections that end within a beat or *)
(* a word, overlap, are empty or do not fit, and one that is not aligned.  *)
(***************************************************************************)
EXTENDS Boot

SectionOf(k, l, s, b) == [kind |-> k, local |-> l, size |-> s, last |-> b]

ManifestSet ==
  {[aligned |-> TRUE, entries |-> e] :
     e \in {<<>>,
            <<SectionOf("CORE", 0, 3, 1), SectionOf("JOB", 0, 2, 2)>>,
            <<SectionOf("CORE", 1, 3, 2), SectionOf("CORE", 0, 2, 1)>>,
            <<SectionOf("JOB", 0, 1, 1), SectionOf("JOB", 1, 3, 2)>>,
            <<SectionOf("CORE", 2, 3, 1)>>,
            <<SectionOf("CORE", 1, 2, 1), SectionOf("UNKNOWN", 0, 1, 1)>>,
            <<SectionOf("JOB", 0, 0, 2)>>}}
  \cup {[aligned |-> FALSE, entries |-> <<SectionOf("CORE", 0, 1, 2)>>]}
=============================================================================
