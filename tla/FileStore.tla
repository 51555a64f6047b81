------------------------------ MODULE FileStore ------------------------------
(***************************************************************************)
(* What the rest of knoxite takes for granted of a storage backend: files  *)
(* that are replaced and deleted at one instant, by a request that was     *)
(* made for them, and an answer that tells the truth.                      *)
(***************************************************************************)
CONSTANTS
  Documents, \* what files may hold
  None       \* no document

VARIABLES
  stored,    \* <<backend, file>> -> the document it holds, or None
  request    \* the request that is being served, or the last one and its outcome

storeVars == <<stored, request>>

-----------------------------------------------------------------------------
Init ==
  /\ \A x \in DOMAIN stored : stored[x] \in Documents \cup {None}
  /\ request.state = "none"

\* A request is made, or nobody waits for one any more.
Ask == request'.state \in {"none", "running"} /\ UNCHANGED stored

\* It has its effect.
Perform ==
  /\ request.state = "running" /\ request'.state = "running"
  /\ request.op \in {"save", "delete"}
  /\ stored' = [stored EXCEPT ![request.at] =
                  IF request.op = "save" THEN request.doc ELSE None]

\* It is said to have failed, which it may have after its effect.
Fail ==
  /\ request.state = "running" /\ request'.state \in {"failed", "exists"}
  /\ \/ UNCHANGED stored
     \/ request.op = "save"   /\ stored' = [stored EXCEPT ![request.at] = request.doc]
     \/ request.op = "delete" /\ stored' = [stored EXCEPT ![request.at] = None]

\* It is said to have succeeded, and it has.
Succeed ==
  /\ request.state = "running" /\ request'.state = "ok"
  /\ CASE request.op = "save"   -> stored[request.at] = request.doc
       [] request.op = "delete" -> stored[request.at] = None
       [] request.op = "load"   -> stored[request.at] = request.doc
       [] OTHER                 -> TRUE
  /\ UNCHANGED stored

Next == Ask \/ Perform \/ Fail \/ Succeed

Spec == Init /\ [][Next]_storeVars
=============================================================================
