--------------------------- MODULE MCProcessBus ---------------------------
(* ProcessBus for TLC, and its fairness. *)
EXTENDS ProcessBus

\* Tasks that can go on are polled, a window asked for mounts, and events of a
\* window's bus are handled.  Nobody need close, focus or choose anything.
FairSpec ==
  /\ Spec /\ WF_vars(Pass) /\ WF_vars(Resume)
  /\ \A w \in Windows : WF_vars(Mount(w)) /\ WF_vars(Try(w)) /\ WF_vars(Handle(w))
=============================================================================
