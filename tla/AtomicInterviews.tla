-------------------------- MODULE AtomicInterviews --------------------------
(***************************************************************************)
(* What the interview service promises (services/interview.py), whatever    *)
(* its requests overlap with: each takes effect at one moment, on one       *)
(* interview, in a workspace of the user.  An interview comes with exactly  *)
(* its criteria and with a workspace whose member is the user; a workspace  *)
(* never changes hands, an interview never moves or goes away.              *)
(*                                                                         *)
(* It is silent on which of the earlier criteria an update leaves, and on   *)
(* whether the interview is still a draft when an update or a cancellation  *)
(* is stored: that depends on what overlaps.                                *)
(***************************************************************************)
CONSTANTS Users, Workspaces, Interviews, Names, None

VARIABLES owner,     \* the member of each workspace
          status, home,
          criteria   \* the names of the criteria of each interview

vars == <<owner, status, home, criteria>>

Init ==
    /\ owner = [w \in Workspaces |-> None]
    /\ status = [i \in Interviews |-> "absent"]
    /\ home = [i \in Interviews |-> None]
    /\ criteria = [i \in Interviews |-> {}]

Create(u, w, i, N) ==
    /\ owner[w] \in {u, None}
    /\ status[i] = "absent"
    /\ owner'    = [owner    EXCEPT ![w] = u]
    /\ status'   = [status   EXCEPT ![i] = "draft"]
    /\ home'     = [home     EXCEPT ![i] = w]
    /\ criteria' = [criteria EXCEPT ![i] = N]

Update(i, N, rest) ==
    /\ status[i] # "absent"
    /\ rest \subseteq criteria[i]
    /\ criteria' = [criteria EXCEPT ![i] = N \cup rest]
    /\ UNCHANGED <<owner, status, home>>

Cancel(i) ==
    /\ status[i] # "absent"
    /\ status' = [status EXCEPT ![i] = "cancelled"]
    /\ UNCHANGED <<owner, home, criteria>>

Next ==
    \E i \in Interviews :
        \/ \E N \in SUBSET Names :
              \/ \E u \in Users, w \in Workspaces : Create(u, w, i, N)
              \/ \E rest \in SUBSET Names : Update(i, N, rest)
        \/ Cancel(i)

Spec == Init /\ [][Next]_vars
=============================================================================
