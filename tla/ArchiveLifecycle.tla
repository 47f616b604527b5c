-------------------------- MODULE ArchiveLifecycle --------------------------
(***************************************************************************)
(* What the staged ZIP service promises about one download job, whatever   *)
(* the event loop, the packing thread, concurrent requests and crashes of  *)
(* the service do: the life of a job record as its owner sees it.          *)
(*                                                                         *)
(*   absent --> packing --> ready ---> purged --> absent                   *)
(*                    \--> failed --/                                      *)
(*                                                                         *)
(* A record that has left "packing" never returns to it, a failed job      *)
(* never becomes ready, and only purging takes a ready job out of the      *)
(* list.  "Reappears" is the one weak spot of the code: a part request     *)
(* that passed its checks before the record was removed writes the record  *)
(* back, and a later start of the service lists it again, as purged.       *)
(***************************************************************************)
CONSTANT Jobs

VARIABLE stage       \* stage[j]: what the owner of job j is told about it

Stages == {"absent", "packing", "ready", "failed", "purged"}

Submitted  == <<"absent", "packing">>
Completed  == <<"packing", "ready">>
Failed     == <<"packing", "failed">>
Purged     == {"ready", "failed"} \X {"purged"}
Forgotten  == <<"purged", "absent">>
Reappears  == <<"absent", "purged">>

Moves == {Submitted, Completed, Failed, Forgotten, Reappears} \cup Purged

Init == stage = [j \in Jobs |-> "absent"]

(* A crash or a start of the service moves several jobs at once. *)
Next ==
  /\ stage' \in [Jobs -> Stages]
  /\ \A j \in Jobs : stage'[j] # stage[j] => <<stage[j], stage'[j]>> \in Moves

Spec == Init /\ [][Next]_stage
=============================================================================
