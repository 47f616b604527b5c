---------------------------- MODULE AtomicUpload -----------------------------
(***************************************************************************)
(* What FilesystemSession.write promises: the destination changes from its *)
(* old content to the whole upload at once, and only a write whose upload  *)
(* is there returns.  A write that raises may have published its upload,   *)
(* before it or after it: its caller was cancelled or timed out.           *)
(***************************************************************************)
CONSTANT Writes

VARIABLES
  told,      \* told[w]: "pending", "ok" or "failed"
  content    \* content[w]: what is at the destination, "old" or "new"

vars == <<told, content>>

Init ==
  /\ told = [w \in Writes |-> "pending"]
  /\ content = [w \in Writes |-> "old"]

Publish(w) ==
  /\ content[w] = "old"
  /\ told[w] # "ok"
  /\ content' = [content EXCEPT ![w] = "new"]
  /\ UNCHANGED told

Return(w) ==
  /\ told[w] = "pending"
  /\ content[w] = "new"
  /\ told' = [told EXCEPT ![w] = "ok"]
  /\ UNCHANGED content

Raise(w) ==
  /\ told[w] = "pending"
  /\ told' = [told EXCEPT ![w] = "failed"]
  /\ UNCHANGED content

Next == \E w \in Writes : Publish(w) \/ Return(w) \/ Raise(w)

Spec == Init /\ [][Next]_vars
=============================================================================
