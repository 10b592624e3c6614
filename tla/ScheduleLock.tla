---------------------------- MODULE ScheduleLock ----------------------------
(***************************************************************************)
(* What the dispatcher promises about the shared schedule, without saying  *)
(* how: groups of handlers (one group per root operation) read or write    *)
(* it, and a group writes only while no other group does either.           *)
(* dispatcher.h:19: "multiple reads or one single write at a time".        *)
(***************************************************************************)
CONSTANT Group
VARIABLES readers, writers

vars == <<readers, writers>>

Init == readers = {} /\ writers = {}

With(S, g, in) == IF in THEN S \cup {g} ELSE S \ {g}

(* Group g goes on with or without handlers that read or write.             *)
Work(g, reads, writes) ==
  /\ reads  => writers \subseteq {g}
  /\ writes => readers \cup writers \subseteq {g}
  /\ readers' = With(readers, g, reads)
  /\ writers' = With(writers, g, writes)

Next == \E g \in Group : \E reads, writes \in BOOLEAN : Work(g, reads, writes)

Spec == Init /\ [][Next]_vars

(* A writing group is alone.                                                *)
WriterAlone == \A g \in writers : readers \cup writers \subseteq {g}
=============================================================================
