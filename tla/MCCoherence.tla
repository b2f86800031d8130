----------------------------- MODULE MCCoherence -----------------------------
(***************************************************************************)
(* Instances of Coherence for TLC.                                         *)
(***************************************************************************)
EXTENDS Coherence

\* A full map has room for every cache; so has a limitless directory.
FullMap(protocols, nucas, caches) ==
  [protocol : protocols, nuca : nucas, hw : {Cardinality(LLC)}, caches : {caches}]

\* Three caches with the richest protocol, two with the others and with NUCA.
FullMaps ==
  FullMap({"MESIF"}, {FALSE}, LLC) \cup FullMap({"MSI"}, {FALSE}, {0, 1})
    \cup FullMap({"MESI", "MESIF"}, {TRUE}, {0, 1})

\* directory_type = limited_no_broadcast with one sharer too few.
Limited ==
  [protocol : {"MSI"}, nuca : {FALSE}, hw : {Cardinality(LLC) - 1}, caches : {LLC}]
=============================================================================
