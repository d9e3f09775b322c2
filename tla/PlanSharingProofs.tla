--------------------------- MODULE PlanSharingProofs --------------------------
(***************************************************************************)
(* Theorems about PlanSharing for every set of users, histories,           *)
(* invitations, requests and workers.                                      *)
(***************************************************************************)
EXTENDS PlanSharing, FiniteSetTheorems, TLAPS

USE SharingAssumption, SharingNamesAssumption

-----------------------------------------------------------------------------
(* The invariant *)

\* An invitation that exists is one to a history that has been bought.
InvitationsFilled ==
    \A i \in Invitations :
        /\ state[i] = "none" => of[i] = None
        /\ state[i] # "none" => /\ of[i] \in Histories
                                /\ holder[of[i]] \in Users
                                /\ invitee[i] \in Users

ActiveHeld == \A h \in active : holder[h] \in Users

\* What a request or worker is about, by what it is doing.
Roles ==
    \A t \in Tasks :
        /\ op[t] \in {"inviting", "inserting"} =>
               /\ t \in Sessions /\ target[t] \in Histories
               /\ holder[target[t]] \in Users /\ party[t] # {}
        /\ op[t] = "accepting" =>
               /\ t \in Sessions /\ target[t] \in Invitations
               /\ state[target[t]] = "pending" /\ party[t] = {invitee[target[t]]}
        /\ op[t] = "expiring" => t \in Workers /\ target[t] \in ended

\* The place a request has found is still free when it inserts its row.
PlacesStand ==
    \A s \in Sessions : op[s] = "inserting" =>
        /\ Cardinality(Rows(target[s])) + 2 <= MaxMembers
        /\ \A x \in Sessions \ {s} : op[x] = "inserting" => target[x] # target[s]

\* Who accepts under his lock shares no plan until the request ends.
AcceptanceStands ==
    \A s \in Sessions : op[s] = "accepting" =>
        /\ ~Sharing(invitee[target[s]])
        /\ \A x \in Sessions \ {s} :
               op[x] = "accepting" => invitee[target[x]] # invitee[target[s]]

\* Invariant behind OneShareAtATime.
SharesOne ==
    \A u \in Users : \A i, j \in Memberships(u) :
        of[i] \in Running /\ of[j] \in Running => i = j

\* Invariant behind OneOwnPlan, while the database refuses no transaction.
OwnsOne ==
    \A u \in Users :
        /\ defaults[u] \in {0, 1}
        /\ \A g, h \in Own(u) : g = h
        /\ defaults[u] = 0 \/ Own(u) = {}

-----------------------------------------------------------------------------
(* Types and roles *)

TypeInv == TypeOK /\ InvitationsFilled /\ ActiveHeld /\ Roles

LEMMA InitTypes == Init => TypeInv
BY DEF Init, TypeInv, TypeOK, InvitationsFilled, ActiveHeld, Roles, Tasks

\* Other tasks stay in their roles when one begins something or ends.
LEMMA OthersKeepRoles ==
    ASSUME TypeInv, NEW s \in Tasks,
           \A t \in Tasks \ {s} : op'[t] = op[t] /\ target'[t] = target[t] /\ party'[t] = party[t],
           ended \subseteq ended',
           \A h \in Histories : holder[h] \in Users => holder'[h] \in Users,
           \A t \in Tasks \ {s} : op[t] = "accepting" =>
               /\ state'[target[t]] = state[target[t]]
               /\ invitee'[target[t]] = invitee[target[t]],
           op'[s] = "idle"
    PROVE  Roles'
BY DEF TypeInv, Roles, Tasks

LEMMA BeginTypes ==
    ASSUME TypeInv, NEW s \in Tasks,
           NEW what \in {"inviting", "accepting", "expiring"},
           NEW which \in Histories \cup Invitations,
           NEW whom \in SUBSET Users, Begin(s, what, which, whom)
    PROVE  /\ op' \in [Tasks -> {"idle", "inviting", "inserting", "accepting", "expiring"}]
           /\ target' \in [Tasks -> Histories \cup Invitations \cup {None}]
           /\ party' \in [Tasks -> SUBSET Users]
           /\ \A t \in Tasks : op'[t] = "idle" <=> target'[t] = None
           /\ op'[s] = what /\ target'[s] = which /\ party'[s] = whom
           /\ \A t \in Tasks \ {s} :
                  op'[t] = op[t] /\ target'[t] = target[t] /\ party'[t] = party[t]
BY DEF TypeInv, TypeOK, Begin

LEMMA EndTypes ==
    ASSUME TypeInv, NEW s \in Tasks, End(s)
    PROVE  /\ op' \in [Tasks -> {"idle", "inviting", "inserting", "accepting", "expiring"}]
           /\ target' \in [Tasks -> Histories \cup Invitations \cup {None}]
           /\ party' \in [Tasks -> SUBSET Users]
           /\ \A t \in Tasks : op'[t] = "idle" <=> target'[t] = None
           /\ op'[s] = "idle"
           /\ \A t \in Tasks \ {s} :
                  op'[t] = op[t] /\ target'[t] = target[t] /\ party'[t] = party[t]
BY DEF TypeInv, TypeOK, End

LEMMA BuyTypes ==
    ASSUME TypeInv, NEW u \in Users, NEW h \in Histories, Buy(u, h)
    PROVE  TypeInv'
<1>1. TypeOK' BY DEF TypeInv, TypeOK, Buy, Own, memberVars, sessionVars, faultVars
<1>2. \A g \in Histories : holder[g] \in Users => holder'[g] = holder[g]
  BY DEF TypeInv, TypeOK, Buy
<1>3. InvitationsFilled' BY <1>2 DEF TypeInv, InvitationsFilled, Buy, memberVars
<1>4. ActiveHeld' BY <1>2 DEF TypeInv, TypeOK, ActiveHeld, Buy
<1>5. Roles' BY <1>2 DEF TypeInv, Roles, Buy, memberVars, sessionVars
<1>6. QED BY <1>1, <1>3, <1>4, <1>5 DEF TypeInv

LEMMA PlanEndsTypes ==
    ASSUME TypeInv, NEW h \in Histories, PlanEnds(h)
    PROVE  TypeInv'
<1>1. TypeOK' BY DEF TypeInv, TypeOK, PlanEnds, memberVars, sessionVars, faultVars
<1>2. InvitationsFilled' /\ ActiveHeld'
  BY DEF TypeInv, InvitationsFilled, ActiveHeld, PlanEnds, memberVars
<1>3. Roles' BY DEF TypeInv, Roles, PlanEnds, memberVars, sessionVars
<1>4. QED BY <1>1, <1>2, <1>3 DEF TypeInv

\* A step that begins something and leaves plans and invitations alone.
LEMMA BeginsTypes ==
    ASSUME TypeInv, NEW s \in Tasks,
           NEW what \in {"inviting", "accepting", "expiring"},
           NEW which \in Histories \cup Invitations,
           NEW whom \in SUBSET Users, Begin(s, what, which, whom),
           UNCHANGED <<planVars, memberVars, carried, lostSaves>>, faults' \in 0..MaxFaults,
           what = "inviting" => /\ s \in Sessions /\ which \in Histories
                                /\ holder[which] \in Users /\ whom # {},
           what = "accepting" => /\ s \in Sessions /\ which \in Invitations
                                 /\ state[which] = "pending" /\ whom = {invitee[which]},
           what = "expiring" => s \in Workers /\ which \in ended
    PROVE  TypeInv'
<1>1. TypeOK' BY BeginTypes DEF TypeInv, TypeOK, planVars, memberVars
<1>2. InvitationsFilled' /\ ActiveHeld'
  BY DEF TypeInv, InvitationsFilled, ActiveHeld, planVars, memberVars
<1>3. Roles' BY BeginTypes DEF TypeInv, Roles, planVars, memberVars
<1>4. QED BY <1>1, <1>2, <1>3 DEF TypeInv

LEMMA ReadPlanTypes ==
    ASSUME TypeInv, NEW s \in Sessions, NEW h \in Histories, NEW v \in Users, ReadPlan(s, h, v)
    PROVE  TypeInv'
<1>1. s \in Tasks /\ Begin(s, "inviting", h, {v}) BY DEF Tasks, ReadPlan
<1>2. holder[h] \in Users BY DEF ReadPlan, Running, TypeInv, ActiveHeld
<1>3. UNCHANGED <<planVars, memberVars, carried, lostSaves, faults>>
  BY DEF ReadPlan, faultVars
<1>4. faults' \in 0..MaxFaults BY <1>3 DEF TypeInv, TypeOK
<1>5. QED BY <1>1, <1>2, <1>3, <1>4, BeginsTypes

LEMMA OpenInvitationTypes ==
    ASSUME TypeInv, NEW s \in Sessions, NEW i \in Invitations, OpenInvitation(s, i)
    PROVE  TypeInv'
<1>1. /\ s \in Tasks /\ Begin(s, "accepting", i, {invitee[i]}) /\ state[i] = "pending"
      /\ UNCHANGED <<planVars, memberVars, carried, lostSaves, faults>>
  BY DEF Tasks, OpenInvitation, MayAccept, faultVars
<1>2. invitee[i] \in Users BY <1>1 DEF TypeInv, InvitationsFilled
<1>3. faults' \in 0..MaxFaults BY <1>1 DEF TypeInv, TypeOK
<1>4. QED BY <1>1, <1>2, <1>3, BeginsTypes

LEMMA FaultTypes ==
    ASSUME TypeInv, Fault \/ UNCHANGED faultVars
    PROVE  /\ faults' \in 0..MaxFaults
           /\ UNCHANGED <<carried, lostSaves>>
BY DEF Fault, faultVars, TypeInv, TypeOK

LEMMA ReadMembersTypes ==
    ASSUME TypeInv, NEW w \in Workers, NEW h \in Histories, ReadMembers(w, h)
    PROVE  TypeInv'
<1> DEFINE read == {invitee[i] : i \in {j \in Invitations : of[j] = h /\ state[j] = "accepted"}}
<1>1. /\ w \in Tasks /\ Begin(w, "expiring", h, read) /\ h \in ended
      /\ UNCHANGED <<planVars, memberVars>> /\ (Fault \/ UNCHANGED faultVars)
  BY DEF Tasks, ReadMembers
<1>2. read \in SUBSET Users BY DEF TypeInv, InvitationsFilled
<1>3. QED BY <1>1, <1>2, FaultTypes, BeginsTypes

LEMMA CheckPlacesTypes ==
    ASSUME TypeInv, NEW s \in Sessions, CheckPlaces(s)
    PROVE  TypeInv'
<1>1. /\ op[s] = "inviting" /\ op' = [op EXCEPT ![s] = "inserting"]
      /\ UNCHANGED <<planVars, memberVars, target, party, faultVars>>
  BY DEF CheckPlaces, Proceed
<1>2. s \in Tasks BY DEF Tasks
<1>3. TypeOK' BY <1>1, <1>2 DEF TypeInv, TypeOK, planVars, memberVars, faultVars
<1>4. InvitationsFilled' /\ ActiveHeld'
  BY <1>1 DEF TypeInv, InvitationsFilled, ActiveHeld, planVars, memberVars
<1>5. Roles' BY <1>1, <1>2 DEF TypeInv, TypeOK, Roles, planVars, memberVars
<1>6. QED BY <1>3, <1>4, <1>5 DEF TypeInv

\* A step that ends something and leaves plans and invitations alone.
LEMMA EndsTypes ==
    ASSUME TypeInv, NEW s \in Tasks, End(s), UNCHANGED <<planVars, memberVars>>,
           carried' \in [Workers -> SUBSET Users], faults' \in 0..MaxFaults,
           lostSaves' \in 0..MaxLostSaves
    PROVE  TypeInv'
<1>1. TypeOK' BY EndTypes DEF TypeInv, TypeOK, planVars, memberVars
<1>2. InvitationsFilled' /\ ActiveHeld'
  BY DEF TypeInv, InvitationsFilled, ActiveHeld, planVars, memberVars
<1>3. Roles' BY EndTypes, OthersKeepRoles DEF planVars, memberVars
<1>4. QED BY <1>1, <1>2, <1>3 DEF TypeInv

LEMMA RefuseInvitationTypes ==
    ASSUME TypeInv, NEW s \in Sessions, RefuseInvitation(s)
    PROVE  TypeInv'
<1>1. /\ s \in Tasks /\ End(s) /\ UNCHANGED <<planVars, memberVars, carried, faults, lostSaves>>
  BY DEF Tasks, RefuseInvitation, faultVars
<1>2. QED BY <1>1, EndsTypes DEF TypeInv, TypeOK

LEMMA AbandonTypes ==
    ASSUME TypeInv, NEW s \in Tasks, Abandon(s)
    PROVE  TypeInv'
<1>1. End(s) /\ UNCHANGED <<planVars, memberVars>> /\ Fault BY DEF Abandon
<1>2. /\ carried' \in [Workers -> SUBSET Users] /\ faults' \in 0..MaxFaults
      /\ lostSaves' \in 0..MaxLostSaves
  BY <1>1, FaultTypes DEF TypeInv, TypeOK
<1>3. QED BY <1>1, <1>2, EndsTypes

LEMMA InsertInvitationTypes ==
    ASSUME TypeInv, NEW s \in Sessions, NEW i \in Invitations, InsertInvitation(s, i)
    PROVE  TypeInv'
<1> DEFINE v == CHOOSE v \in party[s] : TRUE
<1>1. /\ s \in Tasks /\ op[s] = "inserting" /\ state[i] = "none" /\ End(s)
      /\ of' = [of EXCEPT ![i] = target[s]] /\ invitee' = [invitee EXCEPT ![i] = v]
      /\ state' = [state EXCEPT ![i] = "pending"]
      /\ UNCHANGED <<planVars, faultVars>>
  BY DEF Tasks, InsertInvitation
<1>2. target[s] \in Histories /\ holder[target[s]] \in Users /\ party[s] # {}
  BY <1>1 DEF TypeInv, Roles
<1>3. v \in Users BY <1>1, <1>2 DEF TypeInv, TypeOK
<1> HIDE DEF v
<1>4. TypeOK' BY <1>1, <1>2, <1>3, EndTypes DEF TypeInv, TypeOK, planVars, faultVars
<1>5. InvitationsFilled' /\ ActiveHeld'
  BY <1>1, <1>2, <1>3 DEF TypeInv, TypeOK, InvitationsFilled, ActiveHeld, planVars
<1>6. \A t \in Tasks : op[t] = "accepting" => target[t] \in Invitations \ {i}
  BY <1>1 DEF TypeInv, Roles
<1>7. Roles' BY <1>1, <1>6, EndTypes, OthersKeepRoles DEF TypeInv, TypeOK, planVars
<1>8. QED BY <1>4, <1>5, <1>7 DEF TypeInv

LEMMA AcceptTypes ==
    ASSUME TypeInv, AcceptanceStands, NEW s \in Sessions, Accept(s)
    PROVE  TypeInv'
<1> DEFINE i == target[s]
           u == invitee[i]
<1>1. /\ s \in Tasks /\ op[s] = "accepting" /\ End(s)
      /\ active' = active \ Own(u) /\ defaults' = [defaults EXCEPT ![u] = 0]
      /\ plan' = [plan EXCEPT ![u] = "family"]
      /\ state' = [state EXCEPT ![i] = "accepted"]
      /\ UNCHANGED <<holder, ended, of, invitee, faultVars>>
  BY DEF Tasks, Accept, Settle
<1>2. i \in Invitations /\ state[i] = "pending" BY <1>1 DEF TypeInv, Roles
<1>3. u \in Users BY <1>2 DEF TypeInv, InvitationsFilled
<1>4. TypeOK' BY <1>1, <1>2, <1>3, EndTypes DEF TypeInv, TypeOK, faultVars
<1>5. InvitationsFilled' /\ ActiveHeld'
  BY <1>1, <1>2, <1>3 DEF TypeInv, TypeOK, InvitationsFilled, ActiveHeld
<1>6. \A t \in Tasks \ {s} : op[t] = "accepting" => target[t] \in Invitations \ {i}
  BY <1>1 DEF TypeInv, Roles, AcceptanceStands
<1>7. Roles'
  BY <1>1, <1>6, EndTypes, OthersKeepRoles DEF TypeInv, TypeOK
<1>8. QED BY <1>4, <1>5, <1>7 DEF TypeInv

LEMMA EndMembershipTypes ==
    ASSUME TypeInv, NEW i \in Invitations, EndMembership(i)
    PROVE  TypeInv'
<1> DEFINE v == invitee[i]
<1>1. /\ state[i] \in {"pending", "accepted"} /\ ~Locked(v)
      /\ state' = [state EXCEPT ![i] = "revoked"]
      /\ active' \subseteq active
      /\ \/ /\ defaults' = [defaults EXCEPT ![v] = 1]
            /\ plan' = [plan EXCEPT ![v] = "default"]
         \/ UNCHANGED <<defaults, plan>>
      /\ UNCHANGED <<holder, ended, of, invitee, sessionVars, faultVars>>
  BY DEF EndMembership
<1>2. v \in Users BY <1>1 DEF TypeInv, InvitationsFilled
<1>3. TypeOK'
  <2>1. defaults' \in [Users -> Nat] /\ plan' \in [Users -> {"default", "family"}]
    BY <1>1, <1>2 DEF TypeInv, TypeOK
  <2>2. QED BY <1>1, <2>1 DEF TypeInv, TypeOK, sessionVars, faultVars
<1>4. InvitationsFilled' /\ ActiveHeld'
  BY <1>1, <1>2 DEF TypeInv, TypeOK, InvitationsFilled, ActiveHeld
<1>5. \A t \in Tasks : op[t] = "accepting" => target[t] \in Invitations \ {i}
  BY <1>1 DEF TypeInv, Roles, Locked
<1>6. Roles' BY <1>1, <1>5 DEF TypeInv, TypeOK, Roles, sessionVars
<1>7. QED BY <1>3, <1>4, <1>6 DEF TypeInv

LEMMA DemoteTypes ==
    ASSUME TypeInv, NEW w \in Workers, Demote(w)
    PROVE  /\ active' \subseteq active
           /\ defaults' \in [Users -> Nat] /\ plan' \in [Users -> {"default", "family"}]
           /\ carried' \in [Workers -> SUBSET Users]
<1> DEFINE saved == Moved(w) \cup carried[w]
           given == [u \in Users |-> IF u \in Affected(w) \cap party[w] THEN 0 ELSE defaults[u]]
<1>1. /\ active' \subseteq active
      /\ defaults' = [u \in Users |-> given[u] + Cardinality({u} \cap saved)]
      /\ plan' = [u \in Users |-> IF u \in saved THEN "default" ELSE plan[u]]
      /\ carried' = [carried EXCEPT ![w] = {}]
  BY DEF Demote
<1>2. given \in [Users -> Nat] BY DEF TypeInv, TypeOK
<1> HIDE DEF given, saved
<1>3. \A u \in Users : Cardinality({u} \cap saved) \in Nat
  <2> TAKE u \in Users
  <2>1. IsFiniteSet({u} \cap saved) BY FS_Singleton, FS_Intersection
  <2>2. QED BY <2>1, FS_CardinalityType
<1>4. defaults' \in [Users -> Nat] BY <1>1, <1>2, <1>3
<1>5. plan' \in [Users -> {"default", "family"}] BY <1>1 DEF TypeInv, TypeOK
<1>6. carried' \in [Workers -> SUBSET Users] BY <1>1 DEF TypeInv, TypeOK
<1>7. QED BY <1>1, <1>4, <1>5, <1>6

LEMMA ExpireTypes ==
    ASSUME TypeInv, NEW w \in Workers, Expire(w)
    PROVE  TypeInv'
<1>1. /\ w \in Tasks /\ End(w) /\ UNCHANGED <<holder, ended, memberVars, faults, lostSaves>>
  BY DEF Tasks, Expire
<1>2. /\ active' \subseteq active
      /\ defaults' \in [Users -> Nat] /\ plan' \in [Users -> {"default", "family"}]
      /\ carried' \in [Workers -> SUBSET Users]
  BY DemoteTypes DEF Expire, TypeInv, TypeOK
<1>3. TypeOK' BY <1>1, <1>2, EndTypes DEF TypeInv, TypeOK, memberVars
<1>4. InvitationsFilled' /\ ActiveHeld'
  BY <1>1, <1>2 DEF TypeInv, InvitationsFilled, ActiveHeld, memberVars
<1>5. Roles' BY <1>1, EndTypes, OthersKeepRoles DEF memberVars
<1>6. QED BY <1>3, <1>4, <1>5 DEF TypeInv

LEMMA SaveLostTypes ==
    ASSUME TypeInv, NEW w \in Workers, SaveLost(w)
    PROVE  TypeInv'
<1>1. /\ w \in Tasks /\ End(w) /\ UNCHANGED <<planVars, memberVars, faults>>
      /\ lostSaves < MaxLostSaves /\ lostSaves' = lostSaves + 1
      /\ carried' = [carried EXCEPT ![w] = @ \cup Moved(w)]
      /\ op[w] = "expiring" /\ target[w] \in active
  BY DEF Tasks, SaveLost
<1>2. Moved(w) \subseteq Users
  BY <1>1 DEF Moved, Affected, TypeInv, TypeOK, ActiveHeld
<1>3. carried' \in [Workers -> SUBSET Users] BY <1>1, <1>2 DEF TypeInv, TypeOK
<1>4. faults' \in 0..MaxFaults /\ lostSaves' \in 0..MaxLostSaves
  BY <1>1 DEF TypeInv, TypeOK
<1>5. QED BY <1>1, <1>3, <1>4, EndsTypes

LEMMA EndBatchTypes ==
    ASSUME TypeInv, NEW w \in Workers, EndBatch(w)
    PROVE  TypeInv'
<1>1. TypeOK' BY DEF TypeInv, TypeOK, EndBatch, planVars, memberVars, sessionVars
<1>2. InvitationsFilled' /\ ActiveHeld'
  BY DEF TypeInv, InvitationsFilled, ActiveHeld, EndBatch, planVars, memberVars
<1>3. Roles' BY DEF TypeInv, Roles, EndBatch, planVars, memberVars, sessionVars
<1>4. QED BY <1>1, <1>2, <1>3 DEF TypeInv

-----------------------------------------------------------------------------
(* Places: rows of a family plan are counted under its allocation lock *)

RowsInv == PlacesStand /\ CapacityKept

LEMMA RowsFinite ==
    ASSUME NEW h \in Histories
    PROVE  IsFiniteSet(Rows(h)) /\ Cardinality(Rows(h)) \in Nat
<1>1. Rows(h) \subseteq Invitations BY DEF Rows
<1>2. IsFiniteSet(Rows(h)) BY <1>1, FS_Subset
<1>3. QED BY <1>2, FS_CardinalityType

LEMMA FewerRows ==
    ASSUME NEW h \in Histories, Rows(h)' \subseteq Rows(h)
    PROVE  Cardinality(Rows(h)') <= Cardinality(Rows(h)) /\ Cardinality(Rows(h)') \in Nat
<1>1. IsFiniteSet(Rows(h)) BY RowsFinite
<1>2. IsFiniteSet(Rows(h)') BY <1>1, FS_Subset
<1>3. QED BY <1>1, <1>2, FS_Subset, FS_CardinalityType

\* Steps that insert no row, and after which nobody new is about to.
LEMMA PlacesKept ==
    ASSUME TypeInv, RowsInv,
           \A i \in Invitations :
               of'[i] = of[i] /\ (state'[i] # "revoked" => state[i] # "revoked"),
           \A s \in Sessions : op'[s] = "inserting" =>
               op[s] = "inserting" /\ target'[s] = target[s]
    PROVE  RowsInv'
<1>1. \A h \in Histories : Rows(h)' \subseteq Rows(h) BY DEF Rows
<1>2. \A h \in Histories : /\ Cardinality(Rows(h)') <= Cardinality(Rows(h))
                           /\ Cardinality(Rows(h)') \in Nat /\ Cardinality(Rows(h)) \in Nat
  BY <1>1, FewerRows, RowsFinite
<1>3. CapacityKept'
  <2> SUFFICES ASSUME NEW h \in Histories
               PROVE  Cardinality(Rows(h)') + 1 <= MaxMembers \/ Rows(h)' = {}
    BY DEF CapacityKept
  <2>1. CASE Rows(h) = {} BY <2>1, <1>1
  <2>2. CASE Rows(h) # {} BY <2>2, <1>2 DEF RowsInv, CapacityKept
  <2>3. QED BY <2>1, <2>2
<1>4. PlacesStand'
  <2> SUFFICES ASSUME NEW s \in Sessions, op'[s] = "inserting"
               PROVE  /\ Cardinality(Rows(target[s])') + 2 <= MaxMembers
                      /\ \A x \in Sessions \ {s} : op'[x] = "inserting" => target'[x] # target'[s]
                      /\ target'[s] = target[s]
    BY DEF PlacesStand
  <2>1. op[s] = "inserting" /\ target'[s] = target[s] OBVIOUS
  <2>2. target[s] \in Histories BY <2>1 DEF TypeInv, Roles, Tasks
  <2>3. Cardinality(Rows(target[s])) + 2 <= MaxMembers BY <2>1 DEF RowsInv, PlacesStand
  <2>4. Cardinality(Rows(target[s])') + 2 <= MaxMembers BY <2>2, <2>3, <1>2
  <2>5. QED BY <2>1, <2>4 DEF RowsInv, PlacesStand
<1>5. QED BY <1>3, <1>4 DEF RowsInv

LEMMA CheckPlacesCounts ==
    ASSUME TypeInv, RowsInv, NEW s \in Sessions, CheckPlaces(s)
    PROVE  RowsInv'
<1>1. /\ op[s] = "inviting" /\ op' = [op EXCEPT ![s] = "inserting"] /\ Settled(target[s])
      /\ Cardinality(Rows(target[s])) + 1 < MaxMembers
      /\ UNCHANGED <<target, of, state>>
  BY DEF CheckPlaces, MayInvite, Proceed, memberVars
<1>2. target[s] \in Histories /\ s \in Tasks BY <1>1 DEF TypeInv, Roles, Tasks
<1>3. \A h \in Histories : Rows(h)' = Rows(h) BY <1>1 DEF Rows
<1>4. CapacityKept' BY <1>3 DEF RowsInv, CapacityKept
<1>5. Cardinality(Rows(target[s])) + 2 <= MaxMembers
  BY <1>1, <1>2, RowsFinite
<1>6. \A x \in Sessions : op'[x] = "inserting" =>
          /\ target[x] \in Histories /\ target'[x] = target[x]
          /\ Cardinality(Rows(target[x])) + 2 <= MaxMembers
          /\ \A y \in Sessions \ {x} : op'[y] = "inserting" => target[y] # target[x]
  BY <1>1, <1>2, <1>5 DEF TypeInv, TypeOK, Roles, Tasks, RowsInv, PlacesStand, Settled
<1>7. PlacesStand'
  <2> SUFFICES ASSUME NEW x \in Sessions, op'[x] = "inserting"
               PROVE  /\ Cardinality(Rows(target[x])') + 2 <= MaxMembers
                      /\ \A y \in Sessions \ {x} : op'[y] = "inserting" => target'[y] # target'[x]
                      /\ target'[x] = target[x]
    BY DEF PlacesStand
  <2> QED BY <1>1, <1>3, <1>6
<1>8. QED BY <1>4, <1>7 DEF RowsInv

LEMMA InsertInvitationCounts ==
    ASSUME TypeInv, RowsInv, NEW s \in Sessions, NEW i \in Invitations, InsertInvitation(s, i)
    PROVE  RowsInv'
<1>1. s \in Tasks /\ op[s] = "inserting" /\ state[i] = "none" /\ End(s)
  BY DEF Tasks, InsertInvitation
<1>2. PICK g \in Histories :
          /\ g = target[s]
          /\ of' = [of EXCEPT ![i] = g] /\ state' = [state EXCEPT ![i] = "pending"]
  BY <1>1 DEF InsertInvitation, TypeInv, Roles
<1>3. \A h \in Histories \ {g} : Rows(h)' \subseteq Rows(h)
  BY <1>1, <1>2 DEF Rows, TypeInv, TypeOK
<1>4. Rows(g)' \subseteq Rows(g) \cup {i}
  BY <1>1, <1>2 DEF Rows, TypeInv, TypeOK
<1>5. Cardinality(Rows(g)') + 1 <= MaxMembers
  <2>1. IsFiniteSet(Rows(g)) /\ Cardinality(Rows(g)) \in Nat BY <1>2, RowsFinite
  <2>2. /\ IsFiniteSet(Rows(g) \cup {i})
        /\ Cardinality(Rows(g) \cup {i}) <= Cardinality(Rows(g)) + 1
        /\ Cardinality(Rows(g) \cup {i}) \in Nat
    <3> DEFINE S == Rows(g)
    <3> HIDE DEF S
    <3>1. IsFiniteSet(S \cup {i}) /\ Cardinality(S \cup {i}) =
              IF i \in S THEN Cardinality(S) ELSE Cardinality(S) + 1
      BY <2>1, FS_AddElement DEF S
    <3>2. Cardinality(S) \in Nat BY <2>1 DEF S
    <3>3. QED BY <3>1, <3>2 DEF S
  <2>3. /\ Cardinality(Rows(g)') <= Cardinality(Rows(g) \cup {i})
        /\ Cardinality(Rows(g)') \in Nat
    BY <2>2, <1>4, FS_Subset, FS_CardinalityType
  <2>4. Cardinality(Rows(g)) + 2 <= MaxMembers BY <1>1, <1>2 DEF RowsInv, PlacesStand
  <2>5. QED BY <2>1, <2>2, <2>3, <2>4
<1>6. \A h \in Histories \ {g} : /\ Cardinality(Rows(h)') <= Cardinality(Rows(h))
                                 /\ Cardinality(Rows(h)') \in Nat /\ Cardinality(Rows(h)) \in Nat
  BY <1>3, FewerRows, RowsFinite
<1>7. CapacityKept'
  <2> SUFFICES ASSUME NEW h \in Histories \ {g}
               PROVE  Cardinality(Rows(h)') + 1 <= MaxMembers \/ Rows(h)' = {}
    BY <1>5 DEF CapacityKept
  <2>1. CASE Rows(h) = {} BY <2>1, <1>3
  <2>2. CASE Rows(h) # {} BY <2>2, <1>6 DEF RowsInv, CapacityKept
  <2>3. QED BY <2>1, <2>2
<1>8. PlacesStand'
  <2> SUFFICES ASSUME NEW x \in Sessions, op'[x] = "inserting"
               PROVE  /\ Cardinality(Rows(target[x])') + 2 <= MaxMembers
                      /\ \A y \in Sessions \ {x} : op'[y] = "inserting" => target'[y] # target'[x]
                      /\ target'[x] = target[x]
    BY DEF PlacesStand
  <2>1. x # s /\ op[x] = "inserting" /\ target'[x] = target[x]
    BY <1>1, EndTypes DEF Tasks
  <2>2. PICK h \in Histories \ {g} : h = target[x]
    BY <2>1, <1>1, <1>2 DEF TypeInv, Roles, Tasks, RowsInv, PlacesStand
  <2>3. Cardinality(Rows(h)) + 2 <= MaxMembers BY <2>1, <2>2 DEF RowsInv, PlacesStand
  <2>4. Cardinality(Rows(h)') + 2 <= MaxMembers BY <2>3, <1>6
  <2>5. \A y \in Sessions : op'[y] = "inserting" => op[y] = "inserting" /\ target'[y] = target[y]
    BY <1>1, EndTypes DEF Tasks
  <2>6. QED BY <2>1, <2>2, <2>4, <2>5 DEF RowsInv, PlacesStand
<1>9. QED BY <1>7, <1>8 DEF RowsInv

-----------------------------------------------------------------------------
(* Shares: a membership begins only under the lock of the one who accepts *)

ShareInv == AcceptanceStands /\ SharesOne

\* Nobody shares a running plan after the step who did not share it before.
NoNewShares ==
    \A i \in Invitations : state'[i] = "accepted" /\ of'[i] \in Running' =>
        /\ state[i] = "accepted" /\ of[i] \in Running
        /\ of'[i] = of[i] /\ invitee'[i] = invitee[i]

LEMMA NobodyNewShares ==
    ASSUME NoNewShares, NEW u
    PROVE  Sharing(u)' => Sharing(u)
BY DEF NoNewShares, Sharing, Memberships

LEMMA StillSharesOne ==
    ASSUME NoNewShares, SharesOne
    PROVE  SharesOne'
<1>1. \A u \in Users : \A i \in Memberships(u)' : of'[i] \in Running' =>
          i \in Memberships(u) /\ of[i] \in Running
  BY DEF NoNewShares, Memberships
<1>2. QED BY <1>1 DEF SharesOne

\* Steps that begin neither a membership nor an acceptance.
LEMMA SharesKept ==
    ASSUME TypeInv, ShareInv, NoNewShares,
           \A s \in Sessions : op'[s] = "accepting" =>
               /\ op[s] = "accepting" /\ target'[s] = target[s]
               /\ invitee'[target[s]] = invitee[target[s]]
    PROVE  ShareInv'
<1>1. AcceptanceStands'
  <2> SUFFICES ASSUME NEW s \in Sessions, op'[s] = "accepting"
               PROVE  /\ ~(Sharing(invitee[target[s]])')
                      /\ \A x \in Sessions \ {s} : op'[x] = "accepting" =>
                             invitee'[target'[x]] # invitee'[target'[s]]
    BY DEF AcceptanceStands
  <2>1. /\ op[s] = "accepting" /\ target'[s] = target[s]
        /\ invitee'[target[s]] = invitee[target[s]]
    OBVIOUS
  <2>2. PICK u : u = invitee[target[s]] OBVIOUS
  <2>3. ~Sharing(u) BY <2>1, <2>2 DEF ShareInv, AcceptanceStands
  <2>4. ~(Sharing(u)') BY <2>3, NobodyNewShares
  <2>5. u = invitee'[target'[s]] BY <2>1, <2>2
  <2>6. ~(Sharing(invitee[target[s]])')
    BY <2>4, <2>5 DEF Sharing, Memberships
  <2>7. QED BY <2>1, <2>6 DEF ShareInv, AcceptanceStands
<1>2. QED BY <1>1, StillSharesOne DEF ShareInv

LEMMA OpenInvitationShares ==
    ASSUME TypeInv, ShareInv, NEW s \in Sessions, NEW i \in Invitations, OpenInvitation(s, i)
    PROVE  ShareInv'
<1>1. /\ s \in Tasks /\ Begin(s, "accepting", i, {invitee[i]}) /\ state[i] = "pending"
      /\ ~Sharing(invitee[i]) /\ ~Locked(invitee[i])
      /\ UNCHANGED <<planVars, memberVars>>
  BY DEF Tasks, OpenInvitation, MayAccept
<1>2. invitee[i] \in Users BY <1>1 DEF TypeInv, InvitationsFilled
<1>3. NoNewShares BY <1>1 DEF NoNewShares, planVars, memberVars, Running
<1>4. /\ op'[s] = "accepting" /\ target'[s] = i
      /\ \A x \in Sessions \ {s} : op'[x] = op[x] /\ target'[x] = target[x]
  BY <1>1, <1>2, BeginTypes DEF Tasks
<1>5. \A x \in Sessions \ {s} : op[x] = "accepting" => invitee[target[x]] # invitee[i]
  BY <1>1 DEF Locked, TypeInv, Roles, Tasks
<1>6. \A u : Sharing(u)' => Sharing(u) BY <1>3, NobodyNewShares
<1>7. AcceptanceStands'
  <2> SUFFICES ASSUME NEW x \in Sessions, op'[x] = "accepting"
               PROVE  /\ ~(Sharing(invitee[target[x]])')
                      /\ \A y \in Sessions \ {x} : op'[y] = "accepting" =>
                             invitee'[target'[y]] # invitee'[target'[x]]
    BY DEF AcceptanceStands
  <2>1. PICK u : u = invitee'[target'[x]] OBVIOUS
  <2>2. ~Sharing(u) BY <2>1, <1>1, <1>4 DEF ShareInv, AcceptanceStands, memberVars
  <2>3. ~(Sharing(u)') BY <2>2, <1>6
  <2>4. ~(Sharing(invitee[target[x]])') BY <2>1, <2>3 DEF Sharing, Memberships
  <2>5. QED BY <2>4, <1>1, <1>4, <1>5 DEF ShareInv, AcceptanceStands, memberVars
<1>8. QED BY <1>3, <1>7, StillSharesOne DEF ShareInv

LEMMA AcceptShares ==
    ASSUME TypeInv, ShareInv, NEW s \in Sessions, Accept(s)
    PROVE  ShareInv'
<1>1. s \in Tasks /\ op[s] = "accepting" /\ End(s) BY DEF Tasks, Accept, Settle
<1>2. PICK i \in Invitations, u \in Users :
          i = target[s] /\ u = invitee[i] /\ state[i] = "pending"
  BY <1>1 DEF TypeInv, Roles, InvitationsFilled
<1>3. /\ active' \subseteq active /\ state' = [state EXCEPT ![i] = "accepted"]
      /\ UNCHANGED <<holder, ended, of, invitee>>
  BY <1>2 DEF Accept, Settle
<1>4. /\ ~Sharing(u)
      /\ \A x \in Sessions \ {s} : op[x] = "accepting" => invitee[target[x]] # u
  BY <1>1, <1>2 DEF ShareInv, AcceptanceStands
<1>5. Running' \subseteq Running BY <1>3 DEF Running
<1>6. \A v : Memberships(v)' \subseteq Memberships(v) \cup {i}
  BY <1>2, <1>3 DEF Memberships, TypeInv, TypeOK
<1>7. \A v : v # u => Memberships(v)' \subseteq Memberships(v)
  BY <1>2, <1>3 DEF Memberships, TypeInv, TypeOK
<1>8. \A v : v # u /\ ~Sharing(v) => ~(Sharing(v)')
  BY <1>3, <1>5, <1>7 DEF Sharing
<1>9. AcceptanceStands'
  <2> SUFFICES ASSUME NEW x \in Sessions, op'[x] = "accepting"
               PROVE  /\ ~(Sharing(invitee[target[x]])')
                      /\ \A y \in Sessions \ {x} : op'[y] = "accepting" =>
                             invitee'[target'[y]] # invitee'[target'[x]]
    BY DEF AcceptanceStands
  <2>1. x # s /\ op[x] = "accepting" /\ target'[x] = target[x]
    BY <1>1, EndTypes DEF Tasks
  <2>2. \A y \in Sessions : op'[y] = "accepting" => op[y] = "accepting" /\ target'[y] = target[y]
    BY <1>1, EndTypes DEF Tasks
  <2>3. PICK v : v = invitee'[target'[x]] OBVIOUS
  <2>4. ~Sharing(v) /\ v # u
    BY <2>1, <2>3, <1>3, <1>4 DEF ShareInv, AcceptanceStands
  <2>5. ~(Sharing(v)') BY <2>4, <1>8
  <2>6. ~(Sharing(invitee[target[x]])') BY <2>3, <2>5 DEF Sharing, Memberships
  <2>7. QED BY <2>1, <2>2, <2>6, <1>3 DEF ShareInv, AcceptanceStands
<1>10. SharesOne'
  <2> SUFFICES ASSUME NEW v \in Users, NEW k \in Memberships(v)', NEW j \in Memberships(v)',
                      of'[k] \in Running', of'[j] \in Running'
               PROVE  k = j
    BY DEF SharesOne
  <2>1. of[k] \in Running /\ of[j] \in Running BY <1>3, <1>5
  <2>2. CASE v = u
    <3>1. k \notin Memberships(u) /\ j \notin Memberships(u) BY <2>1, <1>4 DEF Sharing
    <3>2. QED BY <2>2, <3>1, <1>6
  <2>3. CASE v # u
    <3>1. k \in Memberships(v) /\ j \in Memberships(v) BY <2>3, <1>7
    <3>2. QED BY <2>1, <3>1 DEF ShareInv, SharesOne
  <2>4. QED BY <2>2, <2>3
<1>11. QED BY <1>9, <1>10 DEF ShareInv

\* Plans and invitations go on, but that plans end and memberships are revoked.
OnlyEnds ==
    /\ active' \subseteq active /\ ended \subseteq ended' /\ of' = of /\ invitee' = invitee
    /\ \A i \in Invitations : state'[i] = "accepted" => state[i] = "accepted"

LEMMA EndsShareNothingNew ==
    ASSUME OnlyEnds
    PROVE  NoNewShares
BY DEF OnlyEnds, NoNewShares, Running

\* A history that is bought is nobody's shared plan yet.
LEMMA BuySharesNothing ==
    ASSUME TypeInv, NEW u \in Users, NEW h \in Histories, Buy(u, h)
    PROVE  NoNewShares
<1>1. \A i \in Invitations : state[i] = "accepted" => of[i] # h
  BY DEF Buy, TypeInv, InvitationsFilled
<1>2. /\ active' \subseteq active \cup {h} /\ ended' = ended
      /\ UNCHANGED <<of, invitee, state>>
  BY DEF Buy, memberVars
<1>3. QED BY <1>1, <1>2 DEF NoNewShares, Running

LEMMA InsertionSharesNothing ==
    ASSUME TypeInv, NEW s \in Sessions, NEW i \in Invitations, InsertInvitation(s, i)
    PROVE  NoNewShares
BY DEF InsertInvitation, planVars, TypeInv, TypeOK, NoNewShares, Running

LEMMA PassSharesNothing ==
    ASSUME TypeInv, NEW w \in Workers, Expire(w)
    PROVE  OnlyEnds
BY DEF Expire, Demote, memberVars, OnlyEnds

LEMMA EndMembershipSharesNothing ==
    ASSUME TypeInv, NEW i \in Invitations, EndMembership(i)
    PROVE  /\ OnlyEnds
           /\ \A k \in Invitations : state'[k] # "revoked" => state[k] # "revoked"
BY DEF EndMembership, TypeInv, TypeOK, OnlyEnds

-----------------------------------------------------------------------------
(* Plans: one of one's own at most, and none beside a shared one *)

PlansInv == (\A w \in Workers : carried[w] = {}) /\ OwnsOne /\ NoPlanBesideShared

\* Steps that give nobody a plan.
LEMMA PlansKept ==
    ASSUME PlansInv, NoNewShares, defaults' = defaults, holder' = holder,
           active' \subseteq active, \A w \in Workers : carried'[w] = {}
    PROVE  PlansInv'
<1>1. \A u : Own(u)' \subseteq Own(u) BY DEF Own
<1>2. OwnsOne' BY <1>1 DEF PlansInv, OwnsOne
<1>3. NoPlanBesideShared'
  BY <1>1, NobodyNewShares DEF PlansInv, NoPlanBesideShared
<1>4. QED BY <1>2, <1>3 DEF PlansInv

\* Steps of one user: the others keep what they have, or lose it.
LEMMA OthersPlansKept ==
    ASSUME PlansInv, NEW u \in Users,
           \A v \in Users \ {u} :
               /\ defaults'[v] = defaults[v] /\ Own(v)' \subseteq Own(v)
               /\ Sharing(v)' => Sharing(v),
           \A w \in Workers : carried'[w] = {},
           defaults'[u] \in {0, 1}, \A g, h \in Own(u)' : g = h,
           defaults'[u] = 0 \/ Own(u)' = {},
           Sharing(u)' => Own(u)' = {} /\ defaults'[u] = 0
    PROVE  PlansInv'
<1>1. OwnsOne' BY DEF PlansInv, OwnsOne
<1>2. NoPlanBesideShared' BY DEF PlansInv, NoPlanBesideShared
<1>3. QED BY <1>1, <1>2 DEF PlansInv

LEMMA BuyPlans ==
    ASSUME TypeInv, PlansInv, NEW u \in Users, NEW h \in Histories, Buy(u, h)
    PROVE  PlansInv'
<1>1. /\ holder[h] = NoOne /\ holder' = [holder EXCEPT ![h] = u]
      /\ active' = (active \ Own(u)) \cup {h}
      /\ defaults' = [defaults EXCEPT ![u] = 0] /\ ~Sharing(u)
      /\ carried' = carried
  BY DEF Buy, faultVars
<1>2. \A v \in Users \ {u} : Own(v)' \subseteq Own(v) /\ defaults'[v] = defaults[v]
  BY <1>1 DEF Own, TypeInv, TypeOK
<1>3. Own(u)' \subseteq {h} /\ defaults'[u] = 0
  BY <1>1 DEF Own, TypeInv, TypeOK
<1>4. \A v : Sharing(v)' => Sharing(v) BY BuySharesNothing, NobodyNewShares
<1>5. QED BY <1>1, <1>2, <1>3, <1>4, OthersPlansKept DEF PlansInv

LEMMA AcceptPlans ==
    ASSUME TypeInv, PlansInv, NEW s \in Sessions, Accept(s)
    PROVE  PlansInv'
<1>1. op[s] = "accepting" /\ s \in Tasks BY DEF Accept, Settle, Tasks
<1>2. PICK i \in Invitations, u \in Users :
          i = target[s] /\ u = invitee[i] /\ state[i] = "pending"
  BY <1>1 DEF TypeInv, Roles, InvitationsFilled
<1>3. /\ active' = active \ Own(u) /\ defaults' = [defaults EXCEPT ![u] = 0]
      /\ state' = [state EXCEPT ![i] = "accepted"]
      /\ UNCHANGED <<holder, ended, of, invitee, carried>>
  BY <1>2 DEF Accept, Settle, faultVars
<1>4. \A v \in Users \ {u} : Own(v)' \subseteq Own(v) /\ defaults'[v] = defaults[v]
  BY <1>3 DEF Own, TypeInv, TypeOK
<1>5. Own(u)' = {} /\ defaults'[u] = 0 BY <1>3 DEF Own, TypeInv, TypeOK
<1>6. \A v : v # u => (Sharing(v)' => Sharing(v))
  BY <1>2, <1>3 DEF Sharing, Memberships, Running, TypeInv, TypeOK
<1>7. QED BY <1>3, <1>4, <1>5, <1>6, OthersPlansKept DEF PlansInv

LEMMA EndMembershipPlans ==
    ASSUME TypeInv, PlansInv, NEW i \in Invitations, EndMembership(i)
    PROVE  PlansInv'
<1>1. PICK u \in Users : u = invitee[i]
  BY DEF EndMembership, TypeInv, InvitationsFilled
<1>2. /\ UNCHANGED <<holder, ended, of, invitee, carried>>
      /\ state' = [state EXCEPT ![i] = "revoked"]
  BY DEF EndMembership, faultVars
<1>3. NoNewShares BY EndMembershipSharesNothing, EndsShareNothingNew
<1>4. CASE UNCHANGED <<active, defaults>>
  BY <1>2, <1>3, <1>4, PlansKept DEF PlansInv
<1>5. CASE /\ ~\E j \in Memberships(u) \ {i} : of[j] \in Running
           /\ active' = active \ Own(u) /\ defaults' = [defaults EXCEPT ![u] = 1]
  <2>1. \A v \in Users \ {u} : Own(v)' \subseteq Own(v) /\ defaults'[v] = defaults[v]
    BY <1>2, <1>5 DEF Own, TypeInv, TypeOK
  <2>2. Own(u)' = {} /\ defaults'[u] = 1 BY <1>2, <1>5 DEF Own, TypeInv, TypeOK
  <2>3. \A v : Sharing(v)' => Sharing(v) BY <1>3, NobodyNewShares
  <2>4. ~(Sharing(u)')
    BY <1>1, <1>2, <1>5 DEF Sharing, Memberships, Running, TypeInv, TypeOK
  <2>5. QED BY <1>2, <2>1, <2>2, <2>3, <2>4, OthersPlansKept DEF PlansInv
<1>6. QED BY <1>1, <1>4, <1>5 DEF EndMembership

LEMMA ExpirePlans ==
    ASSUME TypeInv, PlansInv, NEW w \in Workers, Expire(w)
    PROVE  PlansInv'
<1>1. /\ op[w] = "expiring" /\ w \in Tasks
      /\ UNCHANGED <<holder, ended, memberVars>>
  BY DEF Expire, Tasks
<1>2. PICK h \in ended : h = target[w] BY <1>1 DEF TypeInv, Roles
<1>3. NoNewShares BY PassSharesNothing, EndsShareNothingNew
<1>4. \A u : Sharing(u)' => Sharing(u) BY <1>3, NobodyNewShares
<1>5. CASE target[w] \notin active
  <2>1. UNCHANGED <<active, defaults, carried>> BY <1>5 DEF Expire
  <2>2. QED BY <1>1, <1>3, <2>1, PlansKept DEF PlansInv
<1>6. CASE target[w] \in active
  <2>1. Demote(w) /\ h \in active BY <1>2, <1>6 DEF Expire
  <2> DEFINE lost(u) == u \in Affected(w) \cap party[w]
             given == [u \in Users |-> IF lost(u) THEN 0 ELSE defaults[u]]
  <2>2. /\ active' = active \ ({h} \cup UNION {Own(u) : u \in Affected(w) \cap party[w]})
        /\ defaults' = [u \in Users |-> given[u] + Cardinality({u} \cap Moved(w))]
        /\ carried' = [carried EXCEPT ![w] = {}]
    <3>1. Moved(w) \cup carried[w] = Moved(w) BY DEF PlansInv
    <3>2. QED BY <1>2, <2>1, <3>1 DEF Demote
  <2>3. \A v \in Workers : carried'[v] = {} BY <2>2 DEF PlansInv, TypeInv, TypeOK
  <2>4. \A u \in Users : Own(u)' \subseteq Own(u) BY <1>1, <2>2 DEF Own
  <2>5. \A u \in Users : u \notin Moved(w) => defaults'[u] \in {0, defaults[u]}
    <3>1. TAKE u \in Users
    <3>2. HAVE u \notin Moved(w)
    <3>3. {u} \cap Moved(w) = {} BY <3>2
    <3>4. Cardinality({u} \cap Moved(w)) = 0 BY <3>3, FS_EmptySet
    <3>5. defaults[u] \in Nat /\ given[u] \in {0, defaults[u]} BY DEF TypeInv, TypeOK
    <3>6. QED BY <2>2, <3>4, <3>5
  <2>6. \A u \in Users : u \in Moved(w) =>
            ~Sharing(u) /\ defaults'[u] = 1 /\ Own(u)' = {}
    <3>1. TAKE u \in Users
    <3>2. HAVE u \in Moved(w)
    <3>3. /\ u \in party[w] \cup {holder[h]} /\ u \in Affected(w)
          /\ u \in party[w] \/ defaults[u] = 0
          /\ ~\E i \in Memberships(u) : of[i] \in Running \ {h}
      BY <1>2, <3>2 DEF Moved, Affected
    <3>4. ~Sharing(u) BY <1>2, <3>3 DEF Sharing, Running
    <3>5. given[u] = 0 BY <3>3
    <3>6. {u} \cap Moved(w) = {u} BY <3>2
    <3>7. Cardinality({u} \cap Moved(w)) = 1 BY <3>6, FS_Singleton
    <3>8. defaults'[u] = 1 BY <2>2, <3>5, <3>7
    <3>9. CASE u \in party[w]
      <4>1. u \in Affected(w) \cap party[w] BY <3>3, <3>9
      <4>2. Own(u) \cap active' = {} BY <2>2, <4>1
      <4>3. Own(u)' \subseteq active' BY DEF Own
      <4>4. Own(u)' = {} BY <2>4, <4>2, <4>3
      <4>5. QED BY <3>4, <3>8, <4>4
    <3>10. CASE u \notin party[w]
      <4>1. h \in Own(u) BY <2>1, <3>3, <3>10 DEF Own
      <4>2. Own(u) \subseteq {h} BY <4>1 DEF PlansInv, OwnsOne
      <4>3. h \notin active' BY <2>2
      <4>4. QED BY <2>4, <3>4, <3>8, <4>2, <4>3 DEF Own
    <3>11. QED BY <3>4, <3>8, <3>9, <3>10
  <2>7. OwnsOne'
    <3> SUFFICES ASSUME NEW u \in Users
                 PROVE  /\ defaults'[u] \in {0, 1}
                        /\ \A f, g \in Own(u)' : f = g
                        /\ defaults'[u] = 0 \/ Own(u)' = {}
      BY DEF OwnsOne
    <3>1. CASE u \in Moved(w) BY <2>6, <3>1
    <3>2. CASE u \notin Moved(w) BY <2>4, <2>5, <3>2 DEF PlansInv, OwnsOne
    <3>3. QED BY <3>1, <3>2
  <2>8. NoPlanBesideShared'
    <3> SUFFICES ASSUME NEW u \in Users, Sharing(u)'
                 PROVE  Own(u)' = {} /\ defaults'[u] = 0
      BY DEF NoPlanBesideShared
    <3>1. Sharing(u) BY <1>4
    <3>2. u \notin Moved(w) BY <2>6, <3>1
    <3>3. QED BY <2>4, <2>5, <3>1, <3>2 DEF PlansInv, NoPlanBesideShared
  <2>9. QED BY <2>3, <2>7, <2>8 DEF PlansInv
<1>7. QED BY <1>5, <1>6

-----------------------------------------------------------------------------
(* Every step *)

SharingInv == TypeInv /\ RowsInv /\ ShareInv

LEMMA InitInv == Init => SharingInv
<1> SUFFICES ASSUME Init PROVE SharingInv
  OBVIOUS
<1>1. TypeInv BY InitTypes
<1>2. \A h \in Histories : Rows(h) = {} BY DEF Init, Rows
<1>3. \A s \in Sessions : op[s] = "idle" BY DEF Init, Tasks
<1>4. RowsInv BY <1>2, <1>3 DEF RowsInv, PlacesStand, CapacityKept
<1>5. ShareInv BY <1>3 DEF Init, ShareInv, AcceptanceStands, SharesOne, Memberships
<1>6. QED BY <1>1, <1>4, <1>5 DEF SharingInv

\* Steps that begin or end nothing and insert nothing.
LEMMA QuietStep ==
    ASSUME SharingInv, TypeInv', NoNewShares, UNCHANGED <<of, invitee>>,
           \A i \in Invitations : state'[i] # "revoked" => state[i] # "revoked",
           \A s \in Sessions :
               op'[s] = "idle" \/ op'[s] = "inviting"
                   \/ (op'[s] = op[s] /\ target'[s] = target[s])
    PROVE  SharingInv'
<1>1. RowsInv' BY PlacesKept DEF SharingInv
<1>2. ShareInv' BY SharesKept DEF SharingInv
<1>3. QED BY <1>1, <1>2 DEF SharingInv

LEMMA NextInv ==
    ASSUME SharingInv, [Next]_vars
    PROVE  SharingInv'
<1> USE DEF SharingInv
<1>1. ASSUME NEW u \in Users, NEW h \in Histories, Buy(u, h) PROVE SharingInv'
  <2>1. TypeInv' /\ NoNewShares BY <1>1, BuyTypes, BuySharesNothing
  <2>2. UNCHANGED <<of, invitee, state, op, target>>
    BY <1>1 DEF Buy, memberVars, sessionVars
  <2>3. QED BY <2>1, <2>2, QuietStep
<1>2. ASSUME NEW h \in Histories, PlanEnds(h) PROVE SharingInv'
  <2>1. TypeInv' BY <1>2, PlanEndsTypes
  <2>2. UNCHANGED <<of, invitee, state, op, target>> /\ OnlyEnds
    BY <1>2 DEF PlanEnds, memberVars, sessionVars, OnlyEnds
  <2>3. QED BY <2>1, <2>2, QuietStep, EndsShareNothingNew
<1>3. ASSUME NEW s \in Sessions, NEW h \in Histories, NEW v \in Users, ReadPlan(s, h, v)
      PROVE  SharingInv'
  <2>1. TypeInv' BY <1>3, ReadPlanTypes
  <2>2. UNCHANGED <<of, invitee, state>> /\ OnlyEnds
    BY <1>3 DEF ReadPlan, planVars, memberVars, OnlyEnds
  <2>3. \A x \in Sessions : op'[x] = "inviting" \/ (op'[x] = op[x] /\ target'[x] = target[x])
    BY <1>3 DEF ReadPlan, Begin, TypeInv, TypeOK, Tasks
  <2>4. QED BY <2>1, <2>2, <2>3, QuietStep, EndsShareNothingNew
<1>4. ASSUME NEW s \in Sessions, NEW i \in Invitations, OpenInvitation(s, i)
      PROVE  SharingInv'
  <2>1. TypeInv' /\ ShareInv' BY <1>4, OpenInvitationTypes, OpenInvitationShares
  <2>2. /\ UNCHANGED <<of, state>>
        /\ \A x \in Sessions : op'[x] = "inserting" => op[x] = "inserting" /\ target'[x] = target[x]
    BY <1>4 DEF OpenInvitation, MayAccept, Begin, memberVars, TypeInv, TypeOK, Tasks
  <2>3. QED BY <2>1, <2>2, PlacesKept
<1>5. ASSUME NEW s \in Sessions, CheckPlaces(s) PROVE SharingInv'
  <2>1. TypeInv' /\ RowsInv' BY <1>5, CheckPlacesTypes, CheckPlacesCounts
  <2>2. /\ UNCHANGED <<planVars, memberVars, target>>
        /\ \A x \in Sessions : op'[x] = "accepting" => op[x] = "accepting"
    BY <1>5 DEF CheckPlaces, Proceed, TypeInv, TypeOK, Tasks
  <2>3. NoNewShares BY <2>2, EndsShareNothingNew DEF OnlyEnds, planVars, memberVars
  <2>4. ShareInv' BY <2>2, <2>3, SharesKept DEF memberVars
  <2>5. QED BY <2>1, <2>4
<1>6. ASSUME NEW s \in Sessions, RefuseInvitation(s) PROVE SharingInv'
  <2>1. TypeInv' BY <1>6, RefuseInvitationTypes
  <2>2. UNCHANGED <<of, invitee, state>> /\ OnlyEnds
    BY <1>6 DEF RefuseInvitation, planVars, memberVars, OnlyEnds
  <2>3. \A x \in Sessions : op'[x] = "idle" \/ (op'[x] = op[x] /\ target'[x] = target[x])
    BY <1>6, EndTypes DEF RefuseInvitation, Tasks
  <2>4. QED BY <2>1, <2>2, <2>3, QuietStep, EndsShareNothingNew
<1>7. ASSUME NEW s \in Sessions, NEW i \in Invitations, InsertInvitation(s, i)
      PROVE  SharingInv'
  <2>1. TypeInv' /\ RowsInv' /\ NoNewShares
    BY <1>7, InsertInvitationTypes, InsertInvitationCounts, InsertionSharesNothing
  <2>2. \A x \in Sessions : op'[x] = "accepting" =>
            op[x] = "accepting" /\ target'[x] = target[x] /\ target[x] # i
    BY <1>7, EndTypes DEF InsertInvitation, TypeInv, Roles, Tasks
  <2>3. \A k : k # i => invitee'[k] = invitee[k]
    BY <1>7 DEF InsertInvitation, TypeInv, TypeOK
  <2>4. ShareInv' BY <2>1, <2>2, <2>3, SharesKept
  <2>5. QED BY <2>1, <2>4
<1>8. ASSUME NEW s \in Sessions, Accept(s) PROVE SharingInv'
  <2>1. TypeInv' /\ ShareInv' BY <1>8, AcceptTypes, AcceptShares DEF ShareInv
  <2>2. op[s] = "accepting" /\ state[target[s]] = "pending" /\ target[s] \in Invitations
    BY <1>8 DEF Accept, Settle, TypeInv, Roles, Tasks
  <2>3. of' = of /\ \A i \in Invitations : state'[i] # "revoked" => state[i] # "revoked"
    BY <1>8, <2>2 DEF Accept, Settle, TypeInv, TypeOK
  <2>4. \A x \in Sessions : op'[x] = "inserting" => op[x] = "inserting" /\ target'[x] = target[x]
    BY <1>8, EndTypes DEF Accept, Settle, Tasks
  <2>5. QED BY <2>1, <2>3, <2>4, PlacesKept
<1>9. ASSUME NEW w \in Workers, NEW h \in Histories, ReadMembers(w, h) PROVE SharingInv'
  <2>1. TypeInv' BY <1>9, ReadMembersTypes
  <2>2. UNCHANGED <<of, invitee, state>> /\ OnlyEnds
    BY <1>9 DEF ReadMembers, planVars, memberVars, OnlyEnds
  <2>3. \A x \in Sessions : op'[x] = op[x] /\ target'[x] = target[x]
    BY <1>9 DEF ReadMembers, Begin, TypeInv, TypeOK, Tasks
  <2>4. QED BY <2>1, <2>2, <2>3, QuietStep, EndsShareNothingNew
<1>10. ASSUME NEW w \in Workers, Expire(w) PROVE SharingInv'
  <2>1. TypeInv' /\ NoNewShares
    BY <1>10, ExpireTypes, PassSharesNothing, EndsShareNothingNew
  <2>2. UNCHANGED <<of, invitee, state>> BY <1>10 DEF Expire, memberVars
  <2>3. \A x \in Sessions : op'[x] = "idle" \/ (op'[x] = op[x] /\ target'[x] = target[x])
    BY <1>10, EndTypes DEF Expire, Tasks
  <2>4. QED BY <2>1, <2>2, <2>3, QuietStep
<1>11. ASSUME NEW w \in Workers, SaveLost(w) PROVE SharingInv'
  <2>1. TypeInv' BY <1>11, SaveLostTypes
  <2>2. UNCHANGED <<of, invitee, state>> /\ OnlyEnds
    BY <1>11 DEF SaveLost, planVars, memberVars, OnlyEnds
  <2>3. \A x \in Sessions : op'[x] = "idle" \/ (op'[x] = op[x] /\ target'[x] = target[x])
    BY <1>11, EndTypes DEF SaveLost, Tasks
  <2>4. QED BY <2>1, <2>2, <2>3, QuietStep, EndsShareNothingNew
<1>12. ASSUME NEW w \in Workers, EndBatch(w) PROVE SharingInv'
  <2>1. TypeInv' BY <1>12, EndBatchTypes
  <2>2. UNCHANGED <<of, invitee, state, op, target>> /\ OnlyEnds
    BY <1>12 DEF EndBatch, planVars, memberVars, sessionVars, OnlyEnds
  <2>3. QED BY <2>1, <2>2, QuietStep, EndsShareNothingNew
<1>13. ASSUME NEW t \in Tasks, Abandon(t) PROVE SharingInv'
  <2>1. TypeInv' BY <1>13, AbandonTypes
  <2>2. UNCHANGED <<of, invitee, state>> /\ OnlyEnds
    BY <1>13 DEF Abandon, planVars, memberVars, OnlyEnds
  <2>3. \A x \in Sessions : op'[x] = "idle" \/ (op'[x] = op[x] /\ target'[x] = target[x])
    BY <1>13, EndTypes DEF Abandon, Tasks
  <2>4. QED BY <2>1, <2>2, <2>3, QuietStep, EndsShareNothingNew
<1>14. ASSUME NEW i \in Invitations, EndMembership(i) PROVE SharingInv'
  <2>1. TypeInv' /\ NoNewShares
        /\ \A k \in Invitations : state'[k] # "revoked" => state[k] # "revoked"
    BY <1>14, EndMembershipTypes, EndMembershipSharesNothing, EndsShareNothingNew
  <2>2. UNCHANGED <<of, invitee, op, target>> BY <1>14 DEF EndMembership, sessionVars
  <2>3. QED BY <2>1, <2>2, QuietStep
<1>15. CASE UNCHANGED vars
  <2>1. UNCHANGED <<planVars, memberVars, op, target>> /\ TypeInv'
    BY <1>15 DEF vars, planVars, memberVars, sessionVars, faultVars, TypeInv, TypeOK,
                 InvitationsFilled, ActiveHeld, Roles
  <2>2. OnlyEnds BY <2>1 DEF OnlyEnds, planVars, memberVars
  <2>3. QED BY <2>1, <2>2, QuietStep, EndsShareNothingNew DEF memberVars
<1>16. QED
  BY <1>1, <1>2, <1>3, <1>4, <1>5, <1>6, <1>7, <1>8, <1>9, <1>10, <1>11, <1>12, <1>13,
     <1>14, <1>15
  DEF Next, Finish, ExpirationPass

LEMMA Invariant == Spec => []SharingInv
<1>1. SharingInv /\ [Next]_vars => SharingInv' BY NextInv
<1>2. QED BY <1>1, InitInv, PTL DEF Spec

LEMMA InitPlans == Init => PlansInv
<1> SUFFICES ASSUME Init PROVE PlansInv
  OBVIOUS
<1>1. \A u \in Users : Own(u) = {} /\ defaults[u] = 1 /\ ~Sharing(u)
  BY DEF Init, Own, Sharing, Memberships
<1>2. QED BY <1>1 DEF Init, PlansInv, OwnsOne, NoPlanBesideShared

LEMMA NextPlans ==
    ASSUME MaxLostSaves = 0, SharingInv, PlansInv, [Next]_vars
    PROVE  PlansInv'
<1> USE DEF SharingInv
<1>1. ASSUME UNCHANGED <<planVars, memberVars>>, \A w \in Workers : carried'[w] = {}
      PROVE  PlansInv'
  BY <1>1, PlansKept, EndsShareNothingNew DEF OnlyEnds, planVars, memberVars
<1>2. ASSUME UNCHANGED <<planVars, memberVars, carried>> PROVE PlansInv'
  BY <1>1, <1>2 DEF PlansInv
<1>3. ASSUME NEW u \in Users, NEW h \in Histories, Buy(u, h) PROVE PlansInv'
  BY <1>3, BuyPlans
<1>4. ASSUME NEW h \in Histories, PlanEnds(h) PROVE PlansInv'
  BY <1>4, PlansKept, EndsShareNothingNew
  DEF PlanEnds, OnlyEnds, memberVars, faultVars, PlansInv
<1>5. ASSUME NEW s \in Sessions, NEW h \in Histories, NEW v \in Users, ReadPlan(s, h, v)
      PROVE  PlansInv'
  BY <1>2, <1>5 DEF ReadPlan, faultVars
<1>6. ASSUME NEW s \in Sessions, NEW i \in Invitations, OpenInvitation(s, i)
      PROVE  PlansInv'
  BY <1>2, <1>6 DEF OpenInvitation, MayAccept, faultVars
<1>7. ASSUME NEW s \in Sessions, CheckPlaces(s) \/ RefuseInvitation(s) PROVE PlansInv'
  BY <1>2, <1>7 DEF CheckPlaces, Proceed, RefuseInvitation, faultVars
<1>8. ASSUME NEW s \in Sessions, NEW i \in Invitations, InsertInvitation(s, i)
      PROVE  PlansInv'
  BY <1>8, InsertionSharesNothing, PlansKept
  DEF InsertInvitation, planVars, faultVars, PlansInv
<1>9. ASSUME NEW s \in Sessions, Accept(s) PROVE PlansInv'
  BY <1>9, AcceptPlans
<1>10. ASSUME NEW w \in Workers, NEW h \in Histories, ReadMembers(w, h) PROVE PlansInv'
  <2>1. UNCHANGED <<planVars, memberVars>> /\ (Fault \/ UNCHANGED faultVars)
    BY <1>10 DEF ReadMembers
  <2>2. QED BY <1>2, <2>1 DEF Fault, faultVars
<1>11. ASSUME NEW w \in Workers, Expire(w) PROVE PlansInv'
  BY <1>11, ExpirePlans
<1>12. ASSUME NEW w \in Workers, SaveLost(w) PROVE PlansInv'
  BY <1>12 DEF SaveLost, TypeInv, TypeOK
<1>13. ASSUME NEW w \in Workers, EndBatch(w) PROVE PlansInv'
  BY <1>13 DEF EndBatch, PlansInv
<1>14. ASSUME NEW t \in Tasks, Abandon(t) PROVE PlansInv'
  BY <1>2, <1>14 DEF Abandon, Fault
<1>15. ASSUME NEW i \in Invitations, EndMembership(i) PROVE PlansInv'
  BY <1>15, EndMembershipPlans
<1>16. CASE UNCHANGED vars BY <1>2, <1>16 DEF vars, faultVars
<1>17. QED
  BY <1>3, <1>4, <1>5, <1>6, <1>7, <1>8, <1>9, <1>10, <1>11, <1>12, <1>13, <1>14, <1>15, <1>16
  DEF Next, Finish, ExpirationPass

LEMMA PlansInvariant ==
    ASSUME MaxLostSaves = 0
    PROVE  Spec => []PlansInv
<1>1. SharingInv /\ PlansInv /\ [Next]_vars => PlansInv' BY NextPlans
<1>2. QED BY <1>1, InitPlans, Invariant, PTL DEF Spec

-----------------------------------------------------------------------------
(* Theorems *)

\* Types of plans, invitations, requests and workers, also when the database refuses the
\* worker's transactions.
THEOREM TypeCorrect == Spec => []TypeOK
<1>1. SharingInv => TypeOK BY DEF SharingInv, TypeInv
<1>2. QED BY <1>1, Invariant, PTL

\* A family plan never has more people than it allows, however invitations race.
THEOREM CapacityHolds == Spec => []CapacityKept
<1>1. SharingInv => CapacityKept BY DEF SharingInv, RowsInv
<1>2. QED BY <1>1, Invariant, PTL

\* Nobody shares two running plans, however he accepts and whoever renews.
THEOREM NeverTwoShares == Spec => []OneShareAtATime
<1>1. SharingInv => OneShareAtATime
  <2> SUFFICES ASSUME SharingInv, NEW u \in Users
               PROVE  Cardinality({i \in Memberships(u) : of[i] \in Running}) <= 1
    BY DEF OneShareAtATime
  <2> DEFINE shared == {i \in Memberships(u) : of[i] \in Running}
  <2>1. \A i, j \in shared : i = j BY DEF SharingInv, ShareInv, SharesOne
  <2> HIDE DEF shared
  <2>2. ASSUME shared # {} PROVE \E i : shared = {i}
    <3>1. PICK i \in shared : TRUE BY <2>2
    <3>2. shared = {i} BY <2>1, <3>1
    <3>3. QED BY <3>2
  <2>3. Cardinality(shared) \in {0, 1} BY <2>2, FS_EmptySet, FS_Singleton
  <2>4. QED BY <2>3 DEF shared
<1>2. QED BY <1>1, Invariant, PTL

\* While no transaction of the worker is refused, who shares a plan has none of his own.
THEOREM NoneBesideShared ==
    ASSUME MaxLostSaves = 0
    PROVE  Spec => []NoPlanBesideShared
<1>1. PlansInv => NoPlanBesideShared BY DEF PlansInv
<1>2. QED BY <1>1, PlansInvariant, PTL

\* While no transaction of the worker is refused, nobody has two active plans of his own.
THEOREM NeverTwoPlans ==
    ASSUME MaxLostSaves = 0
    PROVE  Spec => []OneOwnPlan
<1>1. PlansInv => OneOwnPlan
  <2> SUFFICES ASSUME PlansInv, NEW u \in Users
               PROVE  defaults[u] + Cardinality(Own(u)) <= 1
    BY DEF OneOwnPlan
  <2>1. Own(u) = {} \/ \E h : Own(u) = {h} BY DEF PlansInv, OwnsOne
  <2>2. Cardinality(Own(u)) \in {0, 1} /\ (Own(u) = {} => Cardinality(Own(u)) = 0)
    BY <2>1, FS_EmptySet, FS_Singleton
  <2>3. QED BY <2>2 DEF PlansInv, OwnsOne
<1>2. QED BY <1>1, PlansInvariant, PTL

=============================================================================
