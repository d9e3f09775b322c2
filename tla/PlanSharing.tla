---------------------------- MODULE PlanSharing ------------------------------
(***************************************************************************)
(* Family plans: PlanService (buying, inviting, accepting, removing and    *)
(* leaving) and PlanExpirationWorker.                                      *)
(*                                                                         *)
(* A history is a plan_histories row of the family plan.  Rows of the      *)
(* default plan differ in nothing but their user and are counted; that     *)
(* they end and are renewed by the worker changes nothing here.  A default *)
(* plan is configured: without one the worker logs an error and leaves the *)
(* history as it is.  Advisory locks: one per user ("plan-membership:"),   *)
(* one per history ("plan-allocation:").                                   *)
(***************************************************************************)
EXTENDS Naturals, FiniteSets

CONSTANTS
    Users,
    Histories,     \* family plan_histories rows that may come to exist
    Invitations,   \* plan_members rows that may come to exist
    Sessions,      \* requests under way
    Workers,       \* PlanExpirationWorker loops, one per API instance
    MaxMembers,    \* Plan.MaxMembers, the owner included
    MaxFaults,     \* bound: dead sessions, and worker passes beside another
    MaxLostSaves   \* bound: expirations whose transaction the database refuses

ASSUME SharingAssumption ==
    /\ IsFiniteSet(Users) /\ IsFiniteSet(Invitations)
    /\ Sessions \cap Workers = {}
    /\ MaxMembers \in Nat
    /\ MaxFaults \in Nat
    /\ MaxLostSaves \in Nat

NoOne == "noOne"
None  == "none"

ASSUME SharingNamesAssumption == NoOne \notin Users /\ None \notin Histories \cup Invitations

VARIABLES
    holder,    \* history -> user_id
    active,    \* histories with status active
    ended,     \* histories whose ended_at has passed
    defaults,  \* user -> active histories of the default plan
    plan,      \* user -> users.plan_id
    of,        \* invitation -> its history
    invitee,   \* invitation -> the user it is addressed to or accepted by
    state,     \* invitation -> status
    op,        \* request or worker -> what it is doing
    target,    \* request or worker -> history or invitation concerned
    party,     \* request or worker -> users concerned, as it read them
    carried,   \* worker -> users whose change to the default plan its DbContext still holds
    faults,    \* faults so far
    lostSaves  \* refused transactions so far

planVars    == <<holder, active, ended, defaults, plan>>
memberVars  == <<of, invitee, state>>
sessionVars == <<op, target, party>>
faultVars   == <<carried, faults, lostSaves>>
vars == <<planVars, memberVars, sessionVars, faultVars>>

Tasks == Sessions \cup Workers

TypeOK ==
    /\ holder \in [Histories -> Users \cup {NoOne}]
    /\ active \in SUBSET Histories
    /\ ended \in SUBSET Histories
    /\ defaults \in [Users -> Nat]
    /\ plan \in [Users -> {"default", "family"}]
    /\ of \in [Invitations -> Histories \cup {None}]
    /\ invitee \in [Invitations -> Users \cup {NoOne}]
    /\ state \in [Invitations -> {"none", "pending", "accepted", "revoked"}]
    /\ op \in [Tasks -> {"idle", "inviting", "inserting", "accepting", "expiring"}]
    /\ target \in [Tasks -> Histories \cup Invitations \cup {None}]
    /\ party \in [Tasks -> SUBSET Users]
    /\ \A t \in Tasks : op[t] = "idle" <=> target[t] = None
    /\ carried \in [Workers -> SUBSET Users]
    /\ faults \in 0..MaxFaults
    /\ lostSaves \in 0..MaxLostSaves

Init ==
    /\ holder = [h \in Histories |-> NoOne]
    /\ active = {}
    /\ ended = {}
    /\ defaults = [u \in Users |-> 1]
    /\ plan = [u \in Users |-> "default"]
    /\ of = [i \in Invitations |-> None]
    /\ invitee = [i \in Invitations |-> NoOne]
    /\ state = [i \in Invitations |-> "none"]
    /\ op = [s \in Tasks |-> "idle"]
    /\ target = [s \in Tasks |-> None]
    /\ party = [s \in Tasks |-> {}]
    /\ carried = [w \in Workers |-> {}]
    /\ faults = 0
    /\ lostSaves = 0

Running == active \ ended
Own(u)  == {h \in active : holder[h] = u}

(* GetActiveSharedPlanAsync                                                 *)
Memberships(u) == {i \in Invitations : state[i] = "accepted" /\ invitee[i] = u}
Sharing(u)     == \E i \in Memberships(u) : of[i] \in Running

(* plan-membership:<user> and plan-allocation:<history>                     *)
Locked(u)  == \E s \in Sessions :
                 \/ op[s] = "accepting" /\ u \in party[s]
                 \/ op[s] = "inserting" /\ u = holder[target[s]]
Settled(h) == \A s \in Sessions : ~(op[s] = "inserting" /\ target[s] = h)

Fault ==
    /\ faults < MaxFaults
    /\ faults' = faults + 1
    /\ UNCHANGED <<carried, lostSaves>>

Begin(s, what, which, whom) ==
    /\ op[s] = "idle"
    /\ op' = [op EXCEPT ![s] = what]
    /\ target' = [target EXCEPT ![s] = which]
    /\ party' = [party EXCEPT ![s] = whom]

End(s) ==
    /\ op' = [op EXCEPT ![s] = "idle"]
    /\ target' = [target EXCEPT ![s] = None]
    /\ party' = [party EXCEPT ![s] = {}]

-----------------------------------------------------------------------------
(* ActivatePaidPlanAsync, within the webhook's transaction and lock.        *)
Buy(u, h) ==
    /\ ~Locked(u)
    /\ ~Sharing(u)
    /\ holder[h] = NoOne
    /\ holder' = [holder EXCEPT ![h] = u]
    /\ active' = (active \ Own(u)) \cup {h}
    /\ defaults' = [defaults EXCEPT ![u] = 0]
    /\ plan' = [plan EXCEPT ![u] = "family"]
    /\ UNCHANGED <<ended, memberVars, sessionVars, faultVars>>

PlanEnds(h) ==              \* ended_at passes
    /\ h \in Running
    /\ ended' = ended \cup {h}
    /\ UNCHANGED <<holder, active, defaults, plan, memberVars, sessionVars, faultVars>>

-----------------------------------------------------------------------------
(* InviteMemberAsync: the history is read first, then come the locks.       *)

ReadPlan(s, h, v) ==
    /\ h \in Running
    /\ ~Sharing(holder[h])
    /\ plan[holder[h]] = "family"
    /\ MaxMembers > 1
    /\ Begin(s, "inviting", h, {v})
    /\ UNCHANGED <<planVars, memberVars, faultVars>>

Rows(h) == {i \in Invitations : of[i] = h /\ state[i] # "revoked"}

MayInvite(s) ==
    /\ ~Sharing(holder[target[s]])
    /\ Cardinality(Rows(target[s])) + 1 < MaxMembers
    /\ ~\E i \in Rows(target[s]) : invitee[i] \in party[s]
    /\ \E i \in Invitations : state[i] = "none"      \* bound

Proceed(s) ==
    /\ op' = [op EXCEPT ![s] = "inserting"]
    /\ UNCHANGED <<planVars, memberVars, target, party, faultVars>>

(* Mutant: the places are counted without the locks.                        *)
CheckPlacesUnlocked(s) == op[s] = "inviting" /\ MayInvite(s) /\ Proceed(s)

CheckPlaces(s) ==
    /\ op[s] = "inviting"
    /\ ~Locked(holder[target[s]])
    /\ Settled(target[s])
    /\ MayInvite(s)
    /\ Proceed(s)

RefuseInvitation(s) ==
    /\ op[s] = "inviting"
    /\ ~Locked(holder[target[s]])
    /\ Settled(target[s])
    /\ ~MayInvite(s)
    /\ End(s)
    /\ UNCHANGED <<planVars, memberVars, faultVars>>

InsertInvitation(s, i) ==
    /\ op[s] = "inserting"
    /\ state[i] = "none"
    /\ of' = [of EXCEPT ![i] = target[s]]
    /\ invitee' = [invitee EXCEPT ![i] = CHOOSE v \in party[s] : TRUE]
    /\ state' = [state EXCEPT ![i] = "pending"]
    /\ End(s)
    /\ UNCHANGED <<planVars, faultVars>>

-----------------------------------------------------------------------------
(* AcceptInvitationAsync: only the acceptor's membership is locked while    *)
(* the invitation, the owner's history and the other memberships are read.  *)

MayAccept(s, i) ==
    /\ state[i] = "pending"
    /\ of[i] \in Running
    /\ ~Sharing(invitee[i])
    /\ Begin(s, "accepting", i, {invitee[i]})
    /\ UNCHANGED <<planVars, memberVars, faultVars>>

(* Mutant: acceptance without the membership lock.                          *)
OpenInvitationUnlocked(s, i) == MayAccept(s, i)

OpenInvitation(s, i) == MayAccept(s, i) /\ ~Locked(invitee[i])

Settle(s, plans, count) ==
    /\ op[s] = "accepting"
    /\ Settled(of[target[s]])
    /\ active' = plans
    /\ defaults' = count
    /\ plan' = [plan EXCEPT ![invitee[target[s]]] = "family"]
    /\ state' = [state EXCEPT ![target[s]] = "accepted"]
    /\ End(s)
    /\ UNCHANGED <<holder, ended, of, invitee, faultVars>>

(* Mutant: the acceptor's own plans go on.                                  *)
AcceptBesideOwn(s) == Settle(s, active, defaults)

Accept(s) ==
    Settle(s, active \ Own(invitee[target[s]]),
           [defaults EXCEPT ![invitee[target[s]]] = 0])

-----------------------------------------------------------------------------
(* EndSharedMembershipAsync: the owner removes the invitation or member, or *)
(* the member leaves.  A member of no other running plan goes back to the   *)
(* default plan.                                                            *)
EndMembership(i) ==
    LET v == invitee[i]
    IN /\ state[i] \in {"pending", "accepted"}
       /\ ~Locked(v)
       /\ state' = [state EXCEPT ![i] = "revoked"]
       /\ IF state[i] = "accepted" /\ ~\E j \in Memberships(v) \ {i} : of[j] \in Running
          THEN /\ active' = active \ Own(v)
               /\ defaults' = [defaults EXCEPT ![v] = 1]
               /\ plan' = [plan EXCEPT ![v] = "default"]
          ELSE UNCHANGED <<active, defaults, plan>>
       /\ UNCHANGED <<holder, ended, of, invitee, sessionVars, faultVars>>

-----------------------------------------------------------------------------
(* PlanExpirationWorker.ExpireSubscriptionAsync.  The session lock admits   *)
(* one worker; should its connection be lost, another may work beside it.   *)

ReadMembers(s, h) ==
    /\ h \in active \cap ended
    /\ Begin(s, "expiring", h, {invitee[i] : i \in {j \in Invitations :
                                                of[j] = h /\ state[j] = "accepted"}})
    /\ IF \E other \in Workers : op[other] = "expiring" THEN Fault ELSE UNCHANGED faultVars
    /\ UNCHANGED <<planVars, memberVars>>

(* Who loses a plan with the history of s: users the DbContext has put on   *)
(* the default plan already do not.                                         *)
Affected(s) ==
    LET h == target[s]
    IN {u \in (party[s] \cup {holder[h]}) \ carried[s] :
          /\ plan[u] = "family"
          /\ u \in party[s] \/ (Own(u) \cap Running = {} /\ defaults[u] = 0)}

(* Who gets the default plan when s expires its history.                    *)
Moved(s) == {u \in Affected(s) : ~\E i \in Memberships(u) : of[i] \in Running \ {target[s]}}

Demote(s) ==
    LET saved == Moved(s) \cup carried[s]
        given == [u \in Users |-> IF u \in Affected(s) \cap party[s] THEN 0 ELSE defaults[u]]
    IN /\ active' = active \ ({target[s]} \cup UNION {Own(u) : u \in Affected(s) \cap party[s]})
       /\ defaults' = [u \in Users |-> given[u] + Cardinality({u} \cap saved)]
       /\ plan' = [u \in Users |-> IF u \in saved THEN "default" ELSE plan[u]]
       /\ carried' = [carried EXCEPT ![s] = {}]

Unlocked(s) == \A u \in party[s] \cup {holder[target[s]]} : ~Locked(u)

(* Mutants: the worker gives up a history without a commit; no conditional  *)
(* update, the history is expired once more.                                *)
ExpireUncommitted(s) ==
    /\ op[s] = "expiring"
    /\ Unlocked(s)
    /\ End(s)
    /\ UNCHANGED <<planVars, memberVars, faultVars>>

ExpireUnclaimed(s) ==
    /\ op[s] = "expiring"
    /\ Unlocked(s)
    /\ Demote(s)
    /\ End(s)
    /\ UNCHANGED <<holder, ended, memberVars, faults, lostSaves>>

Expire(s) ==
    /\ op[s] = "expiring"
    /\ Unlocked(s)
    /\ IF target[s] \in active THEN Demote(s) ELSE UNCHANGED <<active, defaults, plan, carried>>
    /\ End(s)
    /\ UNCHANGED <<holder, ended, memberVars, faults, lostSaves>>

(* The transaction is refused: it rolls back, but the users and the default *)
(* histories stay in the DbContext, which the rest of the batch goes on     *)
(* using.  The next batch has a context of its own.                         *)
SaveLost(s) ==
    /\ op[s] = "expiring"
    /\ Unlocked(s)
    /\ target[s] \in active
    /\ lostSaves < MaxLostSaves
    /\ lostSaves' = lostSaves + 1
    /\ carried' = [carried EXCEPT ![s] = @ \cup Moved(s)]
    /\ End(s)
    /\ UNCHANGED <<planVars, memberVars, faults>>

EndBatch(w) ==
    /\ op[w] = "idle"
    /\ carried[w] # {}
    /\ carried' = [carried EXCEPT ![w] = {}]
    /\ UNCHANGED <<planVars, memberVars, sessionVars, faults, lostSaves>>

(* A request is refused by a check, or its process dies.                    *)
Abandon(s) ==
    /\ op[s] # "idle"
    /\ Fault
    /\ End(s)
    /\ UNCHANGED <<planVars, memberVars>>

-----------------------------------------------------------------------------
ExpirationPass(w) == (\E h \in Histories : ReadMembers(w, h)) \/ Expire(w)

Finish(s) ==
    \/ CheckPlaces(s)
    \/ RefuseInvitation(s)
    \/ \E i \in Invitations : InsertInvitation(s, i)
    \/ Accept(s)

Next ==
    \/ \E u \in Users, h \in Histories : Buy(u, h)
    \/ \E h \in Histories : PlanEnds(h)
    \/ \E s \in Sessions :
         \/ \E h \in Histories, v \in Users : ReadPlan(s, h, v)
         \/ \E i \in Invitations : OpenInvitation(s, i)
         \/ Finish(s)
    \/ \E w \in Workers : ExpirationPass(w) \/ SaveLost(w) \/ EndBatch(w)
    \/ \E t \in Tasks : Abandon(t)
    \/ \E i \in Invitations : EndMembership(i)

Spec == Init /\ [][Next]_vars

(* A request under way ends, and with it the locks it holds; the worker     *)
(* wakes up every minute.                                                   *)
Fairness ==
    /\ \A s \in Sessions : WF_vars(Finish(s))
    /\ \A w \in Workers : WF_vars(ExpirationPass(w))

FairSpec == Spec /\ Fairness

-----------------------------------------------------------------------------
(* Properties                                                              *)

\* However invitations race, a family plan never has more people, invited ones included,
\* than the plan allows.
CapacityKept == \A h \in Histories : Cardinality(Rows(h)) + 1 <= MaxMembers \/ Rows(h) = {}

\* Accepting two invitations at once, one never shares two running plans.
OneShareAtATime ==
    \A u \in Users : Cardinality({i \in Memberships(u) : of[i] \in Running}) <= 1

\* Who shares a running plan has no plan of his own beside it.
NoPlanBesideShared ==
    \A u \in Users : Sharing(u) => Own(u) = {} /\ defaults[u] = 0

\* "no duplicate default history is added" (PlanExpirationWorker.ExpireSubscriptionAsync):
\* as long as the database refuses no transaction, a user never has two active plans of his
\* own, however many workers run.
OneOwnPlan == \A u \in Users : defaults[u] + Cardinality(Own(u)) <= 1

\* A plan that has ended is taken from its holder by a worker, whatever requests and dying
\* workers do meanwhile.
EndedPlansExpire == \A h \in Histories : h \in active \cap ended ~> h \notin active

\* "PlanExpirationWorker: owner/member subscription expired/renew ...: Effective entitlement/
\* storage/history đúng" (docs/BACKEND_TEST_SCENARIOS.md, B-WORKER.03): nobody is left without
\* an active plan, own or shared, unless a plan he has or shares waits for the worker.
NoOneStranded ==
    \A u \in Users :
        \/ defaults[u] > 0
        \/ Own(u) # {}
        \/ \E i \in Memberships(u) : of[i] \in active
        \/ \E i \in Memberships(u) : holder[of[i]] = u   \* nothing forbids to invite oneself

=============================================================================
