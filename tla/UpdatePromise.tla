--------------------------- MODULE UpdatePromise ---------------------------
(***************************************************************************)
(* What one updater run promises about the user's installation, with none  *)
(* of the steps it takes: a run looks, commits to a set of files that are  *)
(* not up to date, replaces them one after the other, and may end at any   *)
(* time.  It reports success only with everything it committed to in       *)
(* place, or when it committed to nothing.                                 *)
(***************************************************************************)
CONSTANT File

VARIABLES phase,   \* "idle", "looking" or "replacing"
          plan,    \* the files this run is replacing
          good,    \* the files that are up to date
          result   \* what the user was told last

promise == <<phase, plan, good, result>>

Results == {"none", "installed", "failed", "restart", "upToDate", "crashed"}

Init == phase = "idle" /\ plan = {} /\ good = {} /\ result = "none"

Begin == /\ phase = "idle" /\ phase' = "looking" /\ result' = "none"
         /\ UNCHANGED <<plan, good>>

\* The process that asked for elevation is not started again.
Decline == /\ phase = "idle" /\ result = "restart" /\ result' = "failed"
           /\ UNCHANGED <<phase, plan, good>>

Commit(P) == /\ phase = "looking" /\ phase' = "replacing"
             /\ P \cap good = {} /\ plan' = P
             /\ UNCHANGED <<good, result>>

Replace(f) == /\ phase = "replacing" /\ f \in plan \ good
              /\ good' = good \cup {f}
              /\ UNCHANGED <<phase, plan, result>>

Succeed == /\ phase # "idle" /\ plan \subseteq good
           /\ phase' = "idle" /\ plan' = {} /\ result' = "installed"
           /\ UNCHANGED good

GiveUp == /\ phase # "idle" /\ phase' = "idle" /\ plan' = {}
          /\ result' \in Results \ {"none", "installed"}
          /\ UNCHANGED good

Next == \/ Begin \/ Decline \/ Succeed \/ GiveUp
        \/ \E P \in SUBSET File : Commit(P)
        \/ \E f \in File : Replace(f)

Spec == Init /\ [][Next]_promise
=============================================================================
