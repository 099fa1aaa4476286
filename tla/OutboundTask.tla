---------------------------- MODULE OutboundTask ----------------------------
(***************************************************************************)
(* What Rails Core promises about one outbound side effect, whatever the   *)
(* service does to achieve it (docs/outbound-reliability-contract.md):     *)
(*                                                                         *)
(*   - the intent is durable before anything leaves the service,           *)
(*   - the dependency performs the side effect at most once per task,      *)
(*   - a caller is told the task succeeded only after the side effect      *)
(*     happened, and the service records success under the same condition. *)
(*                                                                         *)
(* A task is named by its idempotency key.  Nothing here speaks of rows,   *)
(* leases, workers or replies: those belong to the implementations.        *)
(***************************************************************************)

CONSTANTS Tasks,      \* idempotency keys
          Payloads,   \* what a task may ask the dependency to do
          NoPayload   \* "the dependency has done nothing for this task"

VARIABLES accepted,   \* tasks whose intent is durable
          effect,     \* what the dependency did for each task
          confirmed   \* tasks some caller or record was told succeeded

vars == <<accepted, effect, confirmed>>

Init ==
    /\ accepted = {}
    /\ effect = [t \in Tasks |-> NoPayload]
    /\ confirmed = {}

(* The service makes a task durable.                                       *)
Accept(t) ==
    /\ accepted' = accepted \cup {t}
    /\ UNCHANGED <<effect, confirmed>>

(* The dependency performs the side effect of an accepted task, once.      *)
Perform(t, p) ==
    /\ t \in accepted
    /\ effect[t] = NoPayload
    /\ effect' = [effect EXCEPT ![t] = p]
    /\ UNCHANGED <<accepted, confirmed>>

(* Success is reported for a task whose side effect has happened.          *)
Confirm(t) ==
    /\ effect[t] # NoPayload
    /\ confirmed' = confirmed \cup {t}
    /\ UNCHANGED <<accepted, effect>>

Next ==
    \E t \in Tasks :
        \/ Accept(t)
        \/ \E p \in Payloads : Perform(t, p)
        \/ Confirm(t)

Spec == Init /\ [][Next]_vars
=============================================================================
