------------------------------ MODULE LineAccess ------------------------------
(***************************************************************************)
(* What the coherence protocol promises about one cache line: at any time  *)
(* either several caches may read it or one may read and write it.  How    *)
(* the permissions travel is left open.                                    *)
(***************************************************************************)
CONSTANT LLC         \* the caches

VARIABLE perm        \* what each cache may do with its copy

Init == perm = [c \in LLC |-> "none"]

\* A cache gets a copy to read while nobody may write.
GrantRead(c) ==
  /\ perm[c] = "none"
  /\ \A d \in LLC \ {c} : perm[d] # "write"
  /\ perm' = [perm EXCEPT ![c] = "read"]

\* A cache gets the right to write when nobody else has a copy.
GrantWrite(c) ==
  /\ perm[c] # "write"
  /\ \A d \in LLC \ {c} : perm[d] = "none"
  /\ perm' = [perm EXCEPT ![c] = "write"]

\* The writer becomes a reader.
Downgrade(c) ==
  /\ perm[c] = "write"
  /\ perm' = [perm EXCEPT ![c] = "read"]

\* A cache loses its copy.
Revoke(c) ==
  /\ perm[c] # "none"
  /\ perm' = [perm EXCEPT ![c] = "none"]

Next == \E c \in LLC : GrantRead(c) \/ GrantWrite(c) \/ Downgrade(c) \/ Revoke(c)

Spec == Init /\ [][Next]_perm

\* A cache that may write is the only one with a copy.
SingleWriter ==
  \A c, d \in LLC : c # d /\ perm[c] = "write" => perm[d] = "none"
=============================================================================
