-------------------------- MODULE TrainingRegistry --------------------------
(***************************************************************************)
(* What the model registry promises to administrators and to those who are *)
(* recommended videos, without object store, leases, locks and tasks.  A   *)
(* training job is open until it has a result.  An open job may be         *)
(* published, at once and only once; a cancelled one never is and stays    *)
(* cancelled; completed is reported of published jobs only.  While every   *)
(* call of the store is answered, failed means not published, and each     *)
(* result is final.  A replica serves a published model or none.           *)
(***************************************************************************)
CONSTANTS Jobs, Replicas, NoJob

VARIABLES
    result,     \* job -> "none", "open", "completed", "failed" or "cancelled"
    published,  \* jobs whose model has been the active one
    active,     \* the active model
    serves,     \* replica -> the model it answers from, or NoJob
    calm        \* every call of the store has been answered

registryVars == <<result, published, active, serves, calm>>

Init ==
    /\ result = [j \in Jobs |-> "none"]
    /\ published = {} /\ active = NoJob
    /\ serves = [r \in Replicas |-> NoJob]
    /\ calm = TRUE

Submit(j) ==
    /\ result[j] = "none"
    /\ result' = [result EXCEPT ![j] = "open"]
    /\ UNCHANGED <<published, active, serves>>

Cancel(j) ==
    /\ result[j] \in {"none", "open"}
    /\ j \notin published
    /\ result' = [result EXCEPT ![j] = "cancelled"]
    /\ UNCHANGED <<published, active, serves>>

Publish(j) ==
    /\ result[j] = "open"
    /\ j \notin published
    /\ published' = published \cup {j}
    /\ active' = j
    /\ UNCHANGED <<result, serves>>

Report(j) ==
    /\ \/ result[j] = "open"
       \/ ~calm /\ result[j] \in {"completed", "failed"}
    /\ \/ j \in published /\ result' = [result EXCEPT ![j] = "completed"]
       \/ ~(calm /\ j \in published) /\ result' = [result EXCEPT ![j] = "failed"]
    /\ UNCHANGED <<published, active, serves>>

Serve(r) ==
    /\ \E m \in published \cup {NoJob} : serves' = [serves EXCEPT ![r] = m]
    /\ UNCHANGED <<result, published, active>>

Next ==
    /\ \/ \E j \in Jobs : Submit(j) \/ Cancel(j) \/ Publish(j) \/ Report(j)
       \/ \E r \in Replicas : Serve(r)
       \/ UNCHANGED <<result, published, active, serves>>
    /\ calm' \in {calm, FALSE}

Spec == Init /\ [][Next]_registryVars
=============================================================================
