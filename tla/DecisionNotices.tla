--------------------------- MODULE DecisionNotices ---------------------------
(***************************************************************************)
(* What the moderation pipeline promises to the people a decision concerns,*)
(* without outbox, broker, consumers or pages: each decision fixes who may *)
(* be told of it; they are told in any order, in any number of groups, and *)
(* never untold; the decision is closed only when everybody still owed a   *)
(* notice has one, and nothing happens to it afterwards.                   *)
(***************************************************************************)
CONSTANTS Events, Subs, Owner

VARIABLES
    decided,   \* events whose decision is committed
    audience,  \* event -> subscriptions the announcement is for
    owed,      \* event -> recipients entitled to it without a break since
    told,      \* event -> recipients that have the notification
    closed     \* events whose notices are complete

noticeVars == <<decided, audience, owed, told, closed>>

Init ==
    /\ decided = {} /\ closed = {}
    /\ audience = [e \in Events |-> {}]
    /\ owed = [e \in Events |-> {}]
    /\ told = [e \in Events |-> {}]

Decide(e) ==
    /\ e \notin decided
    /\ decided' = decided \cup {e}
    /\ \E A \in SUBSET Subs, O \in SUBSET (Subs \cup {Owner}) :
         /\ O \subseteq A \cup {Owner}
         /\ audience' = [audience EXCEPT ![e] = A]
         /\ owed' = [owed EXCEPT ![e] = O]
    /\ UNCHANGED <<told, closed>>

Tell(e) ==
    /\ e \in decided \ closed
    /\ \E R \in SUBSET (audience[e] \cup {Owner}) :
         told' = [told EXCEPT ![e] = @ \cup R]
    /\ \/ UNCHANGED closed
       \/ owed[e] \subseteq told'[e] /\ closed' = closed \cup {e}
    /\ UNCHANGED <<decided, audience, owed>>

(* A recipient, or the video, ceases to qualify before the notices are out. *)
Withdraw ==
    /\ owed' \in [Events -> SUBSET (Subs \cup {Owner})]
    /\ \A e \in Events :
         /\ owed'[e] \subseteq owed[e]
         /\ e \in closed => owed'[e] = owed[e]
    /\ UNCHANGED <<decided, audience, told, closed>>

Next == Withdraw \/ \E e \in Events : Decide(e) \/ Tell(e)

Spec == Init /\ [][Next]_noticeVars
=============================================================================
