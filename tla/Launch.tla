-------------------------------- MODULE Launch --------------------------------
(***************************************************************************)
(* What a call of spawn promises, on both platforms, with no lock, scan or *)
(* listing in sight: which process a launch names, and for how long.       *)
(*                                                                         *)
(* Everybody starts processes at any time.  A call names at most one, one  *)
(* that was started, before it returns, and never another; it returns a    *)
(* Child exactly when it has named one.  A launch that is sure of its      *)
(* process has named its own; two launches that are kept apart, even if    *)
(* not sure, do not name the same.                                         *)
(***************************************************************************)

CONSTANTS Launches, Others, \* whoever else starts processes
          Pids, NoPid, NoOwner,
          KeptApart         \* the pairs of launches that are kept apart

VARIABLES owner,   \* who started each process
          named,   \* the process each launch has named
          sure,    \* launches that know that the process is their own
          outcome  \* per launch: "pending", "child", "error"

vars == <<owner, named, sure, outcome>>

Init ==
  /\ owner \in [Pids -> Others \cup {NoOwner}]
  /\ named = [l \in Launches |-> NoPid]
  /\ sure = {}
  /\ outcome = [l \in Launches |-> "pending"]

Start(o, p) ==
  /\ owner[p] = NoOwner
  /\ owner' = [owner EXCEPT ![p] = o]
  /\ UNCHANGED <<named, sure, outcome>>

Name(l, p) ==
  /\ outcome[l] = "pending" /\ named[l] = NoPid
  /\ owner[p] # NoOwner
  /\ \A m \in Launches : <<l, m>> \in KeptApart => named[m] # p
  /\ named' = [named EXCEPT ![l] = p]
  /\ sure' = sure \/ (owner[p] = l /\ sure' = sure \cup {l})

NameOnly(l, p) == Name(l, p) /\ UNCHANGED <<owner, outcome>>

\* The call returns, perhaps in the step that names the process.
Return(l) ==
  /\ outcome[l] = "pending"
  /\ (\E p \in Pids : Name(l, p)) \/ UNCHANGED <<named, sure>>
  /\ outcome' = [outcome EXCEPT ![l] = IF named'[l] = NoPid THEN "error" ELSE "child"]
  /\ UNCHANGED owner

Next ==
  \/ \E o \in Launches \cup Others, p \in Pids : Start(o, p)
  \/ \E l \in Launches : Return(l) \/ \E p \in Pids : NameOnly(l, p)

Spec == Init /\ [][Next]_vars
===============================================================================
