------------------------------ MODULE Backups ------------------------------
(***************************************************************************)
(* What a repository promises to its users: a set of snapshots that can be *)
(* restored.  A snapshot appears with all its archives at once, never      *)
(* changes afterwards, and disappears only as a whole, when it is removed  *)
(* alone or together with the other snapshots of its volume.               *)
(***************************************************************************)
CONSTANTS Snapshots, Paths, Chunks

VARIABLE backups  \* snapshot -> archives (path -> chunks) that can be restored

Contents == UNION {[D -> SUBSET Chunks] : D \in SUBSET Paths}

Init == backups = [s \in {} |-> {}]

Add(s, archives) ==
  /\ s \notin DOMAIN backups
  /\ backups' = [t \in DOMAIN backups \cup {s} |->
                   IF t = s THEN archives ELSE backups[t]]

Remove(gone) ==
  /\ gone \subseteq DOMAIN backups
  /\ backups' = [t \in DOMAIN backups \ gone |-> backups[t]]

Next ==
  \/ \E s \in Snapshots, archives \in Contents : Add(s, archives)
  \/ \E gone \in SUBSET Snapshots : Remove(gone)

Spec == Init /\ [][Next]_backups
=============================================================================
