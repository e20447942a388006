------------------------ MODULE WorkspaceReservation ------------------------
(***************************************************************************)
(* What the job table promises about a workspace, with no job left in it:  *)
(* a workspace is reserved for at most one job at a time, and a job holds  *)
(* the reservation of one workspace, once.  A job that has given its       *)
(* reservation back never indexes under it again.                          *)
(***************************************************************************)
CONSTANTS Workspaces, JobIds, None

VARIABLES
  holder,   \* the job a workspace is reserved for, or None
  spent     \* the jobs that held a reservation and gave it back

vars == <<holder, spent>>

Init ==
  /\ holder = [w \in Workspaces |-> None]
  /\ spent = {}

Reserve(w, j) ==
  /\ holder[w] = None
  /\ j \notin spent
  /\ \A other \in Workspaces : holder[other] # j
  /\ holder' = [holder EXCEPT ![w] = j]
  /\ UNCHANGED spent

Release(w) ==
  /\ holder[w] # None
  /\ spent' = spent \cup {holder[w]}
  /\ holder' = [holder EXCEPT ![w] = None]

Next ==
  \E w \in Workspaces : Release(w) \/ \E j \in JobIds : Reserve(w, j)

Spec == Init /\ [][Next]_vars
=============================================================================
