--------------------------- MODULE MutationLedger ---------------------------
(***************************************************************************)
(* What the write path promises its callers, with no executor, store or    *)
(* network in sight: README section 7, "at-most-one mutation attempt per   *)
(* approved fingerprint, not an exactly-once claim".                       *)
(*                                                                         *)
(* For each approved action the ledger keeps a row, the attempts that were *)
(* made to mutate the platform, and the attempts that took effect.  A      *)
(* result may be recorded, and replaced, any number of times; the attempt  *)
(* may be made once and only after the row exists; an attempt takes effect *)
(* at most once.  Module WriteService implements this.                     *)
(***************************************************************************)
CONSTANTS Actions,    \* approved, frozen actions: one per fingerprint
          Attempts    \* identities of the executions that may attempt one

VARIABLES row,        \* action -> "absent", "open" or "answered"
          attempted,  \* action -> the attempts made to mutate the platform
          effects     \* action -> the attempts that changed the platform

vars == <<row, attempted, effects>>

RowStates == {"absent", "open", "answered"}

Init == /\ row = [a \in Actions |-> "absent"]
        /\ attempted = [a \in Actions |-> {}]
        /\ effects = [a \in Actions |-> {}]

Open(a) == /\ row[a] = "absent"
           /\ row' = [row EXCEPT ![a] = "open"]
           /\ UNCHANGED <<attempted, effects>>

Attempt(a, i) == /\ row[a] # "absent"
                 /\ attempted[a] = {}
                 /\ attempted' = [attempted EXCEPT ![a] = {i}]
                 /\ UNCHANGED <<row, effects>>

TakeEffect(a, i) == /\ i \in attempted[a]
                    /\ effects[a] = {}
                    /\ effects' = [effects EXCEPT ![a] = {i}]
                    /\ UNCHANGED <<row, attempted>>

Answer(a) == /\ row[a] # "absent"
             /\ row' = [row EXCEPT ![a] = "answered"]
             /\ UNCHANGED <<attempted, effects>>

Next == \E a \in Actions :
            \/ Open(a)
            \/ Answer(a)
            \/ \E i \in Attempts : Attempt(a, i) \/ TakeEffect(a, i)

Spec == Init /\ [][Next]_vars
=============================================================================
