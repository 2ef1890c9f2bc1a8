------------------------- MODULE StaleMattersProofs -------------------------
(***************************************************************************)
(* Theorems about the web application and the detection of stale matters,  *)
(* for any number of users, requests, matters and ticks.                   *)
(*                                                                         *)
(* The argument for the web application: one request at most is between    *)
(* its two store calls (OneRecords), and until it is through, the matter's *)
(* row holds the status it wants to tell of (RequestsKnow).                *)
(*                                                                         *)
(* The argument for a pass: a matter it has listed is active still, unless *)
(* something was told of it since the pass began, which makes it recent,   *)
(* or its status changed with nothing told (RowsStand); the date in a row  *)
(* it has listed, which decides on a matter without activities, is not     *)
(* before the creation of the matter (RowsDated).  So a matter found stale *)
(* is active and was silent for the threshold (LookStands), and remains so *)
(* until the nudge unless somebody does something.                         *)
(***************************************************************************)
EXTENDS StaleMatters, FiniteSetTheorems, SequenceTheorems, WellFoundedInduction, TLAPS

Bounded == Len(sessions) <= MaxSessions /\ Len(matters) <= MaxMatters

(* A request knows its session, and its matter from the first store call   *)
(* of update_status to the second.                                         *)
RequestsKnow ==
    \A r \in Requests :
        /\ pc[r] # "idle" => session[r] \in DOMAIN sessions
        /\ pc[r] = "record" =>
              subject[r] \in DOMAIN matters /\ matters[subject[r]].status = wanted[r]

OneRecords == \A r, q \in Requests : pc[r] = "record" /\ pc[q] = "record" => r = q

EndedGone == \A s \in ended : ~ sessions[s].stored

(* A row was created before its last change, and both have happened.       *)
Dated ==
    \A m \in DOMAIN matters : matters[m].created <= matters[m].updated /\ matters[m].updated <= clock

WebInv ==
    /\ WebTypeOK
    /\ Bounded
    /\ RequestsKnow
    /\ OneRecords
    /\ EndedGone
    /\ Dated
    /\ StatusIsTold

(* Where a pass has rows left, and what it knows of the time.              *)
PassShape ==
    /\ scan = "idle" => todo = <<>>
    /\ scan \in {"look", "nudge"} => todo # <<>>
    /\ now <= clock

(* What makes a matter a pass has listed fit for a nudge.                  *)
HeardSince(m) == activities[m] # <<>> /\ activities[m][Len(activities[m])].at >= now
Stands(m) == matters[m].status \in Active \/ Untold(m)

RowsStand == \A i \in DOMAIN todo : Stands(todo[i].id) \/ HeardSince(todo[i].id)

(* The date in a listed row is not before the creation of its matter.      *)
DatedRow(row) == matters[row.id].created <= row.updated

RowsDated == \A i \in DOMAIN todo : DatedRow(todo[i])

(* What was read of the matter to be nudged is old, its creation if there  *)
(* was nothing to read, and if nothing came since, it is active.           *)
LookStands ==
    scan = "nudge" =>
        /\ looked <= Len(activities[Matter1])
        /\ looked = 0 => matters[Matter1].created + Threshold <= now
        /\ looked > 0 => activities[Matter1][looked].at + Threshold <= now
        /\ Len(activities[Matter1]) > looked \/ Stands(Matter1)

IInv ==
    /\ TypeOK
    /\ WebInv
    /\ PassShape
    /\ RowsStand
    /\ RowsDated
    /\ LookStands
    /\ NudgesDeserved
-----------------------------------------------------------------------------
LEMMA BoundsAreNumbers ==
    /\ SessionTime \in Nat /\ MaxSessions \in Nat /\ MaxRequests \in Nat
    /\ MaxMatters \in Nat /\ MaxTime \in Nat /\ MaxFailures \in Nat
    /\ Threshold \in Nat /\ Threshold > 0 /\ "new" \in Statuses
BY WebAssumption, StaleAssumption

(* The rows by their numbers.                                              *)
LEMMA TablesType ==
    ASSUME WebTypeOK
    PROVE  /\ Len(matters) \in Nat /\ DOMAIN matters = 1..Len(matters)
           /\ DOMAIN activities = DOMAIN matters
           /\ \A m \in DOMAIN matters :
                 /\ matters[m] \in Matter /\ matters[m].status \in Statuses
                 /\ matters[m].created \in Nat /\ matters[m].updated \in Nat
                 /\ activities[m] \in Seq(Activity) /\ Len(activities[m]) \in Nat
                 /\ DOMAIN activities[m] = 1..Len(activities[m])
                 /\ \A k \in 1..Len(activities[m]) :
                       /\ activities[m][k] \in Activity
                       /\ activities[m][k].at \in 0..MaxTime /\ activities[m][k].status \in Statuses
           /\ clock \in Nat /\ clock <= MaxTime
<1>1. /\ matters \in Seq(Matter) /\ activities \in Seq(Seq(Activity))
      /\ Len(activities) = Len(matters)
    BY DEF WebTypeOK
<1>2. Len(matters) \in Nat /\ DOMAIN matters = 1..Len(matters) /\ DOMAIN activities = DOMAIN matters
    BY <1>1
<1>3. \A m \in DOMAIN matters : matters[m] \in Matter /\ activities[m] \in Seq(Activity)
    BY <1>1, <1>2
<1>4. \A m \in DOMAIN matters :
          matters[m].status \in Statuses /\ matters[m].created \in Nat /\ matters[m].updated \in Nat
    BY <1>3, BoundsAreNumbers DEF Matter
<1>5. \A m \in DOMAIN matters :
          Len(activities[m]) \in Nat /\ DOMAIN activities[m] = 1..Len(activities[m])
    BY <1>3
<1>6. \A m \in DOMAIN matters : \A k \in 1..Len(activities[m]) : activities[m][k] \in Activity
    BY <1>3
<1>7. \A a \in Activity : a.at \in 0..MaxTime /\ a.status \in Statuses
    BY DEF Activity
<1>8. clock \in Nat /\ clock <= MaxTime
    BY BoundsAreNumbers DEF WebTypeOK
<1> QED
    BY <1>2, <1>3, <1>4, <1>5, <1>6, <1>7, <1>8

(* add_activity adds one entry to one matter.                              *)
LEMMA AddsEffect ==
    ASSUME WebTypeOK, NEW m \in DOMAIN matters,
           NEW type \in {"comment", "status_change", "nudge"}, NEW actor \in Users \cup {Nobody},
           NEW status \in Statuses, Adds(m, type, actor, status)
    PROVE  /\ activities' \in Seq(Seq(Activity)) /\ Len(activities') = Len(matters)
           /\ \A i \in DOMAIN matters \ {m} : activities'[i] = activities[i]
           /\ activities'[m] \in Seq(Activity)
           /\ Len(activities'[m]) = Len(activities[m]) + 1
           /\ \A k \in 1..Len(activities[m]) : activities'[m][k] = activities[m][k]
           /\ activities'[m][Len(activities[m]) + 1].type = type
           /\ activities'[m][Len(activities[m]) + 1].at = clock
           /\ activities'[m][Len(activities[m]) + 1].status = status
<1> DEFINE e == [type |-> type, actor |-> actor, at |-> clock, status |-> status]
           more == Append(activities[m], e)
<1>1. e \in Activity /\ e.type = type /\ e.at = clock /\ e.status = status
    BY DEF Activity, WebTypeOK
<1>2. activities[m] \in Seq(Activity)
    BY TablesType
<1> HIDE DEF e
<1>3. /\ more \in Seq(Activity) /\ Len(more) = Len(activities[m]) + 1
      /\ \A k \in 1..Len(activities[m]) : more[k] = activities[m][k]
      /\ more[Len(activities[m]) + 1] = e
    BY <1>1, <1>2, AppendProperties
<1>4. activities' = [activities EXCEPT ![m] = more]
    BY DEF Adds, e
<1>5. /\ activities \in Seq(Seq(Activity)) /\ Len(activities) = Len(matters)
      /\ m \in 1..Len(activities) /\ DOMAIN matters = 1..Len(activities)
    BY TablesType DEF WebTypeOK
<1> HIDE DEF more
<1>6. /\ activities' \in Seq(Seq(Activity)) /\ Len(activities') = Len(activities)
      /\ \A i \in 1..Len(activities) : activities'[i] = IF i = m THEN more ELSE activities[i]
    BY <1>3, <1>4, <1>5, ExceptSeq
<1> QED
    BY <1>1, <1>3, <1>5, <1>6

(* create_matter adds one matter with nothing told of it.                  *)
LEMMA CreatesEffect ==
    ASSUME WebTypeOK, Bounded, NEW assignee \in Users \cup {Nobody}, Creates(assignee)
    PROVE  /\ matters' \in Seq(Matter) /\ activities' \in Seq(Seq(Activity))
           /\ Len(matters') = Len(matters) + 1 /\ Len(activities') = Len(matters')
           /\ Len(matters') <= MaxMatters
           /\ \A m \in DOMAIN matters :
                 matters'[m] = matters[m] /\ activities'[m] = activities[m]
           /\ matters'[Len(matters) + 1].status = "new"
           /\ matters'[Len(matters) + 1].created = clock
           /\ matters'[Len(matters) + 1].updated = clock
           /\ activities'[Len(matters) + 1] = <<>>
<1> DEFINE new == [status |-> "new", assignee |-> assignee, created |-> clock, updated |-> clock]
<1>1. /\ new \in Matter /\ <<>> \in Seq(Activity)
      /\ new.status = "new" /\ new.created = clock /\ new.updated = clock
    BY BoundsAreNumbers DEF Matter, WebTypeOK
<1>2. /\ matters \in Seq(Matter) /\ activities \in Seq(Seq(Activity))
      /\ Len(activities) = Len(matters) /\ Len(matters) \in Nat /\ DOMAIN matters = 1..Len(matters)
    BY TablesType DEF WebTypeOK
<1>3. matters' = Append(matters, new) /\ activities' = Append(activities, <<>>)
    BY DEF Creates
<1>4. Len(matters) < MaxMatters
    BY DEF Creates
<1> HIDE DEF new
<1>5. /\ matters' \in Seq(Matter) /\ Len(matters') = Len(matters) + 1
      /\ \A m \in 1..Len(matters) : matters'[m] = matters[m]
      /\ matters'[Len(matters) + 1] = new
    BY <1>1, <1>2, <1>3, AppendProperties
<1>6. /\ activities' \in Seq(Seq(Activity)) /\ Len(activities') = Len(activities) + 1
      /\ \A m \in 1..Len(activities) : activities'[m] = activities[m]
      /\ activities'[Len(activities) + 1] = <<>>
    BY <1>1, <1>2, <1>3, AppendProperties
<1>7. Len(matters') <= MaxMatters
    BY <1>2, <1>4, <1>5, BoundsAreNumbers
<1>8. \A m \in DOMAIN matters : matters'[m] = matters[m] /\ activities'[m] = activities[m]
    BY <1>2, <1>5, <1>6
<1> QED
    BY <1>1, <1>2, <1>5, <1>6, <1>7, <1>8

LEMMA MaxInRange ==
    ASSUME NEW n \in Nat, NEW S \in SUBSET (1..n), S # {}
    PROVE  Max(S) \in S
<1> DEFINE T == {n - x : x \in S}
<1>1. \A x \in S : x \in Nat /\ n - x \in Nat
    OBVIOUS
<1>2. T \subseteq Nat /\ T # {}
    <2>1. T \subseteq Nat
        BY <1>1
    <2>2. PICK x \in S : TRUE
        OBVIOUS
    <2> QED
        BY <2>1, <2>2
<1>3. PICK t \in T : \A u \in T : ~ (<<u, t>> \in OpToRel(<, Nat))
    <2> HIDE DEF T
    <2> QED
        BY <1>2, WFMin, NatLessThanWellFounded
<1>4. \A u \in T : ~ (u < t)
    BY <1>2, <1>3 DEF OpToRel
<1>5. PICK x \in S : t = n - x
    BY <1>3
<1>6. \A y \in S : ~ (n - y < n - x)
    BY <1>4, <1>5
<1>7. \A y \in S : x >= y
    BY <1>1, <1>6
<1> QED
    BY <1>7 DEF Max

(* An activity that is no status change leaves the status told as it was;  *)
(* a status change tells its own.                                          *)
LEMMA AddsTells ==
    ASSUME WebTypeOK, NEW m \in DOMAIN matters,
           NEW type \in {"comment", "status_change", "nudge"}, NEW actor \in Users \cup {Nobody},
           NEW status \in Statuses, Adds(m, type, actor, status)
    PROVE  /\ Told(m)' = IF type = "status_change" THEN status ELSE Told(m)
           /\ \A i \in DOMAIN matters \ {m} : Told(i)' = Told(i)
<1> DEFINE k == Len(activities[m])
           changes == {i \in DOMAIN activities[m] : activities[m][i].type = "status_change"}
           changes2 == {i \in DOMAIN activities'[m] : activities'[m][i].type = "status_change"}
<1>1. /\ k \in Nat /\ DOMAIN activities[m] = 1..k /\ DOMAIN activities'[m] = 1..(k + 1)
      /\ \A i \in 1..k : activities'[m][i] = activities[m][i]
      /\ activities'[m][k + 1].type = type
      /\ activities'[m][k + 1].status = status
    <2>1. k \in Nat /\ DOMAIN activities[m] = 1..k
        BY TablesType
    <2>2. /\ activities'[m] \in Seq(Activity) /\ Len(activities'[m]) = k + 1
          /\ \A i \in 1..k : activities'[m][i] = activities[m][i]
          /\ activities'[m][k + 1].type = type
          /\ activities'[m][k + 1].status = status
        BY AddsEffect
    <2>3. DOMAIN activities'[m] = 1..(k + 1)
        BY <2>2, LenProperties
    <2> QED
        BY <2>1, <2>2, <2>3
<1>2. Told(m) = IF changes = {} THEN "new" ELSE activities[m][Max(changes)].status
    BY DEF Told
<1>3. Told(m)' = IF changes2 = {} THEN "new" ELSE activities'[m][Max(changes2)].status
    BY DEF Told
<1> HIDE DEF k
<1>4. ASSUME type # "status_change" PROVE Told(m)' = Told(m)
    <2>1. changes2 = changes
        BY <1>1, <1>4
    <2>2. \A i \in changes : activities'[m][i] = activities[m][i]
        BY <1>1
    <2>3. changes # {} => Max(changes) \in changes
        <3>1. changes \in SUBSET (1..k)
            BY <1>1
        <3> HIDE DEF changes
        <3> QED
            BY <1>1, <3>1, MaxInRange
    <2> HIDE DEF changes, changes2
    <2> QED
        BY <1>2, <1>3, <1>4, <2>1, <2>2, <2>3
<1>5. ASSUME type = "status_change" PROVE Told(m)' = status
    <2>1. k + 1 \in changes2 /\ \A i \in changes2 : i \in Nat /\ i <= k + 1
        BY <1>1, <1>5
    <2> HIDE DEF changes2
    <2>2. Max(changes2) = k + 1
        BY <1>1, <2>1 DEF Max
    <2> QED
        BY <1>1, <1>3, <1>5, <2>1, <2>2
<1>6. \A i \in DOMAIN matters \ {m} : Told(i)' = Told(i)
    <2> SUFFICES ASSUME NEW i \in DOMAIN matters \ {m} PROVE Told(i)' = Told(i)
        OBVIOUS
    <2>1. activities'[i] = activities[i]
        BY AddsEffect
    <2> QED
        BY <2>1 DEF Told
<1> QED
    BY <1>4, <1>5, <1>6
-----------------------------------------------------------------------------
(* What a step of the web application or of another process does to the    *)
(* tables: it tells at most one thing more of a matter, in the present,    *)
(* and changes no status without leaving it untold.                        *)
Grows(m) ==
    /\ Len(activities'[m]) = Len(activities[m]) + 1
    /\ \A k \in 1..Len(activities[m]) : activities'[m][k] = activities[m][k]
    /\ activities'[m][Len(activities[m]) + 1].at = clock

WebMoves ==
    /\ clock' \in Nat /\ clock' >= clock
    /\ \A m \in DOMAIN matters :
          /\ m \in DOMAIN matters'
          /\ \/ activities'[m] = activities[m] /\ (Untold(m) => Untold(m)')
             \/ Grows(m) /\ activities'[m][Len(activities[m]) + 1].type # "nudge"
          /\ matters'[m].status = matters[m].status \/ Untold(m)'
          /\ matters'[m].created = matters[m].created
    /\ \A m \in DOMAIN matters' \ DOMAIN matters : activities'[m] = <<>>

LEMMA TablesKept ==
    ASSUME WebInv, UNCHANGED <<matters, activities>>, clock' \in Nat, clock' >= clock,
           \A m \in DOMAIN matters : Untold(m) => Untold(m)'
    PROVE  StatusIsTold' /\ Dated' /\ WebMoves
<1>1. \A m \in DOMAIN matters : Told(m)' = Told(m)
    BY DEF Told
<1>2. StatusIsTold'
    BY <1>1 DEF WebInv, StatusIsTold
<1>3. Dated'
    BY TablesType DEF WebInv, Dated
<1> QED
    BY <1>2, <1>3 DEF WebMoves

LEMMA EndsEffect ==
    ASSUME WebTypeOK, NEW r \in Requests, Ends(r)
    PROVE  /\ pc' \in [Requests -> {"idle", "handler", "record"}]
           /\ session' \in [Requests -> 0..MaxSessions]
           /\ subject' \in [Requests -> 0..MaxMatters]
           /\ wanted' \in [Requests -> Statuses]
           /\ pc'[r] = "idle"
           /\ \A q \in Requests \ {r} :
                 /\ pc'[q] = pc[q] /\ session'[q] = session[q]
                 /\ subject'[q] = subject[q] /\ wanted'[q] = wanted[q]
BY BoundsAreNumbers DEF WebTypeOK, Ends

LEMMA SessionsType ==
    ASSUME WebTypeOK
    PROVE  /\ Len(sessions) \in Nat /\ DOMAIN sessions = 1..Len(sessions)
           /\ \A s \in DOMAIN sessions : sessions[s] \in Session /\ sessions[s].user \in Users
<1>1. sessions \in Seq(Session)
    BY DEF WebTypeOK
<1>2. \A s \in DOMAIN sessions : sessions[s] \in Session
    BY <1>1
<1> QED
    BY <1>1, <1>2 DEF Session

(* The row of a session is deleted.                                        *)
LEMMA DropEffect ==
    ASSUME WebTypeOK, NEW s \in DOMAIN sessions, sessions' = [sessions EXCEPT ![s].stored = FALSE]
    PROVE  /\ sessions' \in Seq(Session) /\ Len(sessions') = Len(sessions)
           /\ DOMAIN sessions' = DOMAIN sessions
           /\ \A t \in DOMAIN sessions : sessions'[t].stored <=> sessions[t].stored /\ t # s
<1>1. /\ sessions \in Seq(Session) /\ s \in 1..Len(sessions) /\ DOMAIN sessions = 1..Len(sessions)
      /\ \A t \in DOMAIN sessions : sessions[t] \in Session
    BY SessionsType DEF WebTypeOK
<1> DEFINE row == [sessions[s] EXCEPT !.stored = FALSE]
<1>2. row \in Session /\ row.stored = FALSE
    BY <1>1 DEF Session
<1>3. sessions' = [sessions EXCEPT ![s] = row]
    OBVIOUS
<1> HIDE DEF row
<1>4. /\ sessions' \in Seq(Session) /\ Len(sessions') = Len(sessions)
      /\ \A t \in 1..Len(sessions) : sessions'[t] = IF t = s THEN row ELSE sessions[t]
    <2>1. /\ [sessions EXCEPT ![s] = row] \in Seq(Session)
          /\ Len([sessions EXCEPT ![s] = row]) = Len(sessions)
          /\ \A t \in 1..Len(sessions) :
                [sessions EXCEPT ![s] = row][t] = IF t = s THEN row ELSE sessions[t]
        BY <1>1, <1>2, ExceptSeq
    <2> QED
        BY <1>3, <2>1
<1>5. DOMAIN sessions' = DOMAIN sessions
    BY <1>1, <1>4, LenProperties
<1>6. ASSUME NEW t \in DOMAIN sessions
      PROVE  sessions'[t].stored <=> sessions[t].stored /\ t # s
    <2>1. CASE t = s
        BY <1>1, <1>2, <1>4, <2>1
    <2>2. CASE t # s
        <3>1. sessions'[t] = sessions[t]
            BY <1>1, <1>4, <2>2
        <3> QED
            BY <2>2, <3>1
    <2> QED
        BY <2>1, <2>2
<1> QED
    BY <1>4, <1>5, <1>6
-----------------------------------------------------------------------------
LEMMA InitWebInv == WebInit => WebInv
<1> SUFFICES ASSUME WebInit PROVE WebInv
    OBVIOUS
<1>1. WebTypeOK
    <2>1. /\ sessions \in Seq(Session) /\ matters \in Seq(Matter)
          /\ activities \in Seq(Seq(Activity)) /\ Len(activities) = Len(matters)
        BY EmptySeq DEF WebInit
    <2>2. clock \in 0..MaxTime /\ requests \in 0..MaxRequests /\ failures \in 0..MaxFailures
        BY BoundsAreNumbers DEF WebInit
    <2>3. /\ accounts \in [Users -> {"none", "present", "deleted"}]
          /\ pc \in [Requests -> {"idle", "handler", "record"}]
          /\ wanted \in [Requests -> Statuses]
        BY BoundsAreNumbers DEF WebInit
    <2>4. session \in [Requests -> 0..MaxSessions] /\ subject \in [Requests -> 0..MaxMatters]
        BY BoundsAreNumbers DEF WebInit
    <2>5. ended \subseteq DOMAIN sessions /\ unlogged \subseteq DOMAIN matters
        BY DEF WebInit
    <2> QED
        BY <2>1, <2>2, <2>3, <2>4, <2>5 DEF WebTypeOK
<1>2. Bounded
    BY EmptySeq, BoundsAreNumbers DEF WebInit, Bounded
<1>3. RequestsKnow /\ OneRecords /\ EndedGone
    BY DEF WebInit, RequestsKnow, OneRecords, EndedGone
<1>4. StatusIsTold /\ Dated
    BY DEF WebInit, StatusIsTold, Dated
<1> QED
    BY <1>1, <1>2, <1>3, <1>4 DEF WebInv

(* Steps that touch neither the tables of matters nor a request.           *)
LEMMA OutsideSteps ==
    ASSUME WebInv,
           Tick \/ \E u \in Users : CreateUser(u) \/ DeleteUser(u)
    PROVE  WebInv' /\ WebMoves
<1>1. /\ UNCHANGED <<matters, activities, failures, sessions, pc, session, subject, wanted,
                     requests, ended, unlogged>>
      /\ clock' \in 0..MaxTime /\ clock' >= clock
      /\ accounts' \in [Users -> {"none", "present", "deleted"}]
    <2>1. CASE Tick
        BY <2>1, BoundsAreNumbers DEF Tick, web, WebInv, WebTypeOK
    <2>2. ASSUME NEW u \in Users, CreateUser(u) \/ DeleteUser(u)
          PROVE  <1>1!:
        <3>1. UNCHANGED account
            BY <2>2 DEF CreateUser, DeleteUser
        <3>2. accounts' \in [Users -> {"none", "present", "deleted"}]
            BY <2>2 DEF CreateUser, DeleteUser, WebInv, WebTypeOK
        <3>3. clock \in 0..MaxTime /\ clock >= clock
            BY TablesType DEF WebInv, WebTypeOK
        <3> QED
            BY <3>1, <3>2, <3>3 DEF account
    <2> QED
        BY <2>1, <2>2
<1>2. WebTypeOK'
    BY <1>1 DEF WebInv, WebTypeOK
<1>3. StatusIsTold' /\ Dated' /\ WebMoves
    BY <1>1, TablesKept, BoundsAreNumbers DEF Untold
<1> QED
    BY <1>1, <1>2, <1>3 DEF WebInv, Bounded, RequestsKnow, OneRecords, EndedGone

LEMMA LoginStep ==
    ASSUME WebInv, NEW u \in Users, Login(u)
    PROVE  WebInv' /\ WebMoves
<1> DEFINE new == [user |-> u, expires |-> clock + SessionTime, stored |-> TRUE]
<1>1. new \in Session
    BY TablesType, BoundsAreNumbers DEF Session, WebInv
<1>2. sessions' = Append(sessions, new) /\ Len(sessions) < MaxSessions
    BY DEF Login
<1>3. /\ UNCHANGED <<clock, matters, activities, failures, accounts, pc, session, subject, wanted,
                     requests, ended, unlogged>>
    BY DEF Login
<1> HIDE DEF new
<1>4. /\ sessions' \in Seq(Session) /\ Len(sessions') = Len(sessions) + 1
      /\ DOMAIN sessions' = 1..(Len(sessions) + 1)
      /\ Len(sessions) \in Nat /\ DOMAIN sessions = 1..Len(sessions)
      /\ \A s \in DOMAIN sessions : s \in DOMAIN sessions' /\ sessions'[s] = sessions[s]
    BY <1>1, <1>2, SessionsType, AppendProperties, LenProperties DEF WebInv, WebTypeOK
<1>5. WebTypeOK'
    BY <1>3, <1>4 DEF WebInv, WebTypeOK
<1>6. StatusIsTold' /\ Dated' /\ WebMoves
    BY <1>3, TablesKept, TablesType DEF Untold, WebInv
<1>7. Bounded'
    BY <1>2, <1>3, <1>4, BoundsAreNumbers DEF WebInv, Bounded
<1>8. RequestsKnow' /\ OneRecords' /\ EndedGone'
    BY <1>3, <1>4 DEF WebInv, WebTypeOK, RequestsKnow, OneRecords, EndedGone
<1> QED
    BY <1>5, <1>6, <1>7, <1>8 DEF WebInv

LEMMA ArriveStep ==
    ASSUME WebInv, NEW r \in Requests, NEW s \in DOMAIN sessions, Arrive(r, s)
    PROVE  WebInv' /\ WebMoves
<1>1. /\ UNCHANGED <<clock, matters, activities, failures, accounts, sessions, subject,
                     wanted, ended, unlogged>>
      /\ pc[r] = "idle" /\ requests < MaxRequests /\ requests' = requests + 1
      /\ pc' = [pc EXCEPT ![r] = "handler"] /\ session' = [session EXCEPT ![r] = s]
    BY DEF Arrive
<1>2. s \in 0..MaxSessions
    BY SessionsType, BoundsAreNumbers DEF WebInv, Bounded
<1>3. WebTypeOK'
    <2>1. pc' \in [Requests -> {"idle", "handler", "record"}] /\ session' \in [Requests -> 0..MaxSessions]
        BY <1>1, <1>2 DEF WebInv, WebTypeOK
    <2>2. requests' \in 0..MaxRequests
        BY <1>1, BoundsAreNumbers DEF WebInv, WebTypeOK
    <2> QED
        BY <1>1, <2>1, <2>2 DEF WebInv, WebTypeOK
<1>4. /\ \A q \in Requests \ {r} : pc'[q] = pc[q] /\ session'[q] = session[q]
      /\ pc'[r] = "handler" /\ session'[r] = s
    BY <1>1 DEF WebInv, WebTypeOK
<1>5. StatusIsTold' /\ Dated' /\ WebMoves
    BY <1>1, <1>4, TablesKept, TablesType DEF Untold, WebInv
<1>6. RequestsKnow' /\ OneRecords' /\ EndedGone'
    BY <1>1, <1>4 DEF WebInv, RequestsKnow, OneRecords, EndedGone
<1> QED
    BY <1>1, <1>3, <1>5, <1>6 DEF WebInv, Bounded

LEMMA RefuseExpiredStep ==
    ASSUME WebInv, NEW s \in DOMAIN sessions, RefuseExpired(s)
    PROVE  WebInv' /\ WebMoves
<1>1. /\ UNCHANGED <<clock, matters, activities, failures, accounts, pc, session, subject, wanted,
                     requests, unlogged>>
      /\ ended' = ended \cup {s}
    BY DEF RefuseExpired
<1>2. /\ sessions' \in Seq(Session) /\ Len(sessions') = Len(sessions)
      /\ DOMAIN sessions' = DOMAIN sessions
      /\ \A t \in DOMAIN sessions : sessions'[t].stored <=> sessions[t].stored /\ t # s
    BY DropEffect DEF WebInv, RefuseExpired
<1>3. WebTypeOK'
    BY <1>1, <1>2 DEF WebInv, WebTypeOK
<1>4. StatusIsTold' /\ Dated' /\ WebMoves
    BY <1>1, TablesKept, TablesType DEF Untold, WebInv
<1>5. RequestsKnow' /\ OneRecords' /\ EndedGone'
    BY <1>1, <1>2 DEF WebInv, WebTypeOK, RequestsKnow, OneRecords, EndedGone
<1> QED
    BY <1>1, <1>2, <1>3, <1>4, <1>5 DEF WebInv, Bounded

(* A request ends and leaves the tables of matters alone: a status it has  *)
(* set and not told of remains untold.                                     *)
LEMMA EndedRequest ==
    ASSUME WebInv, NEW r \in Requests, Ends(r), pc[r] # "idle",
           UNCHANGED <<clock, matters, activities, accounts, requests>>,
           failures' \in 0..MaxFailures,
           unlogged' = IF pc[r] = "record" THEN unlogged \cup {subject[r]} ELSE unlogged,
           \/ UNCHANGED <<sessions, ended>>
           \/ /\ sessions' = [sessions EXCEPT ![session[r]].stored = FALSE]
              /\ ended' = ended \cup {session[r]}
    PROVE  WebInv' /\ WebMoves
<1>1. /\ pc' \in [Requests -> {"idle", "handler", "record"}]
      /\ session' \in [Requests -> 0..MaxSessions]
      /\ subject' \in [Requests -> 0..MaxMatters]
      /\ wanted' \in [Requests -> Statuses]
      /\ pc'[r] = "idle"
      /\ \A q \in Requests \ {r} :
            /\ pc'[q] = pc[q] /\ session'[q] = session[q]
            /\ subject'[q] = subject[q] /\ wanted'[q] = wanted[q]
    BY EndsEffect DEF WebInv
<1>2. session[r] \in DOMAIN sessions /\ (pc[r] = "record" => subject[r] \in DOMAIN matters)
    BY DEF WebInv, RequestsKnow
<1>3. /\ sessions' \in Seq(Session) /\ Len(sessions') = Len(sessions)
      /\ DOMAIN sessions' = DOMAIN sessions
      /\ \A t \in ended' : t \in DOMAIN sessions /\ ~ sessions'[t].stored
    <2>1. CASE UNCHANGED <<sessions, ended>>
        BY <2>1 DEF WebInv, WebTypeOK, EndedGone
    <2>2. CASE /\ sessions' = [sessions EXCEPT ![session[r]].stored = FALSE]
               /\ ended' = ended \cup {session[r]}
        BY <1>2, <2>2, DropEffect DEF WebInv, WebTypeOK, EndedGone
    <2> QED
        BY <2>1, <2>2
<1>4. WebTypeOK'
    <2>1. unlogged' \subseteq DOMAIN matters' /\ ended' \subseteq DOMAIN sessions'
        BY <1>2, <1>3 DEF WebInv, WebTypeOK
    <2> QED
        BY <1>1, <1>3, <2>1 DEF WebInv, WebTypeOK
<1>5. StatusIsTold' /\ Dated' /\ WebMoves
    <2>1. \A m \in DOMAIN matters : Untold(m) => Untold(m)'
        BY <1>1 DEF Untold
    <2> QED
        BY <2>1, TablesKept, TablesType DEF WebInv
<1>6. RequestsKnow' /\ OneRecords'
    <2>1. RequestsKnow'
        <3> SUFFICES ASSUME NEW q \in Requests, pc'[q] # "idle"
                     PROVE  /\ session'[q] \in DOMAIN sessions'
                            /\ pc'[q] = "record" => /\ subject'[q] \in DOMAIN matters'
                                                   /\ matters'[subject'[q]].status = wanted'[q]
            BY DEF RequestsKnow
        <3>1. q \in Requests \ {r}
            BY <1>1
        <3> QED
            BY <1>1, <1>3, <3>1 DEF WebInv, RequestsKnow
    <2>2. OneRecords'
        BY <1>1 DEF WebInv, OneRecords
    <2> QED
        BY <2>1, <2>2
<1> QED
    BY <1>3, <1>4, <1>5, <1>6 DEF WebInv, Bounded, EndedGone

LEMMA EndingSteps ==
    ASSUME WebInv, NEW r \in Requests, Logout(r) \/ UserMissing(r) \/ RequestRaises(r)
    PROVE  WebInv' /\ WebMoves
<1>1. failures \in 0..MaxFailures /\ MaxFailures \in Nat
    BY BoundsAreNumbers DEF WebInv, WebTypeOK
<1>2. CASE Logout(r)
    BY <1>1, <1>2, EndedRequest DEF Logout, Handles, others
<1>3. CASE UserMissing(r)
    BY <1>1, <1>3, EndedRequest DEF UserMissing, others
<1>4. CASE RequestRaises(r)
    BY <1>1, <1>4, EndedRequest DEF RequestRaises, Fail
<1> QED
    BY <1>2, <1>3, <1>4

LEMMA WebDiesStep ==
    ASSUME WebInv, WebDies
    PROVE  WebInv' /\ WebMoves
<1>1. /\ UNCHANGED <<clock, accounts, requests, sessions, matters, activities, ended>>
      /\ pc' = [r \in Requests |-> "idle"]
      /\ session' = [r \in Requests |-> 0] /\ subject' = session'
      /\ wanted' = [r \in Requests |-> "new"]
      /\ unlogged' = unlogged \cup {subject[r] : r \in {q \in Requests : pc[q] = "record"}}
    BY DEF WebDies
<1>2. failures' \in 0..MaxFailures
    BY BoundsAreNumbers DEF WebDies, Fail, WebInv, WebTypeOK
<1>3. WebTypeOK'
    <2>1. unlogged' \subseteq DOMAIN matters
        BY <1>1 DEF WebInv, WebTypeOK, RequestsKnow
    <2>2. /\ pc' \in [Requests -> {"idle", "handler", "record"}]
          /\ wanted' \in [Requests -> Statuses]
          /\ session' \in [Requests -> 0..MaxSessions] /\ subject' \in [Requests -> 0..MaxMatters]
        BY <1>1, BoundsAreNumbers
    <2> QED
        BY <1>1, <1>2, <2>1, <2>2 DEF WebInv, WebTypeOK
<1>4. StatusIsTold' /\ Dated' /\ WebMoves
    <2>1. \A m \in DOMAIN matters : Untold(m) => Untold(m)'
        BY <1>1 DEF Untold
    <2> QED
        BY <1>1, <2>1, TablesKept, TablesType DEF WebInv
<1>5. RequestsKnow' /\ OneRecords' /\ EndedGone' /\ Bounded'
    BY <1>1 DEF WebInv, RequestsKnow, OneRecords, EndedGone, Bounded
<1> QED
    BY <1>3, <1>4, <1>5 DEF WebInv

(* A matter comes in: nothing is told of it, and its status is new.        *)
LEMMA Created ==
    ASSUME WebInv, NEW assignee \in Users \cup {Nobody}, Creates(assignee),
           UNCHANGED <<clock, unlogged>>,
           \A r \in Requests : pc[r] = "record" => pc'[r] = "record" /\ subject'[r] = subject[r]
    PROVE  StatusIsTold' /\ Dated' /\ WebMoves
<1>1. /\ Len(matters') = Len(matters) + 1
      /\ matters' \in Seq(Matter) /\ activities' \in Seq(Seq(Activity))
      /\ \A m \in DOMAIN matters : matters'[m] = matters[m] /\ activities'[m] = activities[m]
      /\ matters'[Len(matters) + 1].status = "new"
      /\ matters'[Len(matters) + 1].created = clock
      /\ matters'[Len(matters) + 1].updated = clock
      /\ activities'[Len(matters) + 1] = <<>>
    BY CreatesEffect DEF WebInv
<1>2. /\ Len(matters) \in Nat /\ DOMAIN matters = 1..Len(matters)
      /\ DOMAIN matters' = 1..(Len(matters) + 1) /\ clock \in Nat
    BY <1>1, TablesType, LenProperties DEF WebInv
<1> PICK n \in Nat : n = Len(matters) + 1
    BY <1>2
<1>3. \A m \in DOMAIN matters : Untold(m) => Untold(m)'
    BY DEF Untold
<1>4. ASSUME NEW m \in DOMAIN matters PROVE Told(m)' = Told(m)
    <2>1. activities'[m] = activities[m]
        BY <1>1
    <2> QED
        BY <2>1 DEF Told
<1>5. Told(n)' = "new" /\ matters'[n].status = "new"
    <2>1. DOMAIN activities'[n] = {}
        BY <1>1
    <2>2. Told(n)' = "new"
        BY <2>1 DEF Told
    <2> QED
        BY <1>1, <2>2
<1>6. StatusIsTold'
    <2> SUFFICES ASSUME NEW m \in DOMAIN matters'
                 PROVE  matters'[m].status = Told(m)' \/ Untold(m)'
        BY DEF StatusIsTold
    <2>1. CASE m = n
        BY <1>5, <2>1
    <2>2. CASE m \in DOMAIN matters
        <3>1. matters[m].status = Told(m) \/ Untold(m)
            BY <2>2 DEF WebInv, StatusIsTold
        <3>2. matters'[m] = matters[m]
            BY <1>1, <2>2
        <3> QED
            BY <1>3, <1>4, <2>2, <3>1, <3>2
    <2> QED
        BY <1>2, <2>1, <2>2
<1>7. WebMoves
    <2>1. \A m \in DOMAIN matters' \ DOMAIN matters : m = Len(matters) + 1
        BY <1>2
    <2>2. \A m \in DOMAIN matters' \ DOMAIN matters : activities'[m] = <<>>
        BY <1>1, <2>1
    <2>3. clock' \in Nat /\ clock' >= clock /\ DOMAIN matters \subseteq DOMAIN matters'
        BY <1>2
    <2>4. \A m \in DOMAIN matters : matters'[m] = matters[m] /\ activities'[m] = activities[m]
        BY <1>1
    <2> QED
        BY <1>3, <2>2, <2>3, <2>4 DEF WebMoves
<1>8. Dated'
    <2> SUFFICES ASSUME NEW m \in DOMAIN matters'
                 PROVE  matters'[m].created <= matters'[m].updated /\ matters'[m].updated <= clock'
        BY DEF Dated
    <2>1. CASE m = n
        BY <1>1, <1>2, <2>1
    <2>2. CASE m \in DOMAIN matters
        <3>1. matters'[m] = matters[m] /\ clock' = clock
            BY <1>1, <2>2
        <3> QED
            BY <2>2, <3>1 DEF WebInv, Dated
    <2> QED
        BY <1>2, <2>1, <2>2
<1> QED
    BY <1>6, <1>7, <1>8

LEMMA CreateSteps ==
    ASSUME WebInv, MatterArrives \/ \E r \in Requests : CreateMatterSubmit(r)
    PROVE  WebInv' /\ WebMoves
<1>1. ASSUME NEW assignee \in Users \cup {Nobody}, Creates(assignee)
      PROVE  /\ matters' \in Seq(Matter) /\ activities' \in Seq(Seq(Activity))
             /\ Len(activities') = Len(matters') /\ Len(matters') <= MaxMatters
             /\ DOMAIN matters \subseteq DOMAIN matters'
             /\ \A m \in DOMAIN matters : matters'[m] = matters[m]
    <2>1. /\ matters' \in Seq(Matter) /\ activities' \in Seq(Seq(Activity))
          /\ Len(matters') = Len(matters) + 1
          /\ Len(activities') = Len(matters') /\ Len(matters') <= MaxMatters
          /\ \A m \in DOMAIN matters : matters'[m] = matters[m]
        BY <1>1, CreatesEffect DEF WebInv
    <2>2. /\ Len(matters) \in Nat /\ DOMAIN matters = 1..Len(matters)
          /\ DOMAIN matters' = 1..Len(matters')
        BY <2>1, TablesType, LenProperties DEF WebInv
    <2> QED
        BY <2>1, <2>2
<1>2. CASE MatterArrives
    <2>1. /\ Creates(Nobody)
          /\ UNCHANGED <<clock, failures, accounts, sessions, pc, session, subject, wanted,
                         requests, ended, unlogged>>
        BY <1>2 DEF MatterArrives, web
    <2>2. StatusIsTold' /\ Dated' /\ WebMoves
        BY <2>1, Created
    <2>3. WebTypeOK' /\ Bounded'
        BY <1>1, <2>1 DEF WebInv, WebTypeOK, Bounded
    <2>4. RequestsKnow' /\ OneRecords' /\ EndedGone'
        BY <1>1, <2>1 DEF WebInv, RequestsKnow, OneRecords, EndedGone
    <2> QED
        BY <2>2, <2>3, <2>4 DEF WebInv
<1>3. ASSUME NEW r \in Requests, CreateMatterSubmit(r) PROVE WebInv' /\ WebMoves
    <2>1. /\ Creates(User(r)) /\ Ends(r) /\ pc[r] = "handler"
          /\ UNCHANGED <<clock, failures, accounts, requests, sessions, ended, unlogged>>
        BY <1>3 DEF CreateMatterSubmit, Handles, others
    <2>2. User(r) \in Users \cup {Nobody}
        BY <2>1, SessionsType DEF User, WebInv, RequestsKnow
    <2>3. /\ pc' \in [Requests -> {"idle", "handler", "record"}]
          /\ session' \in [Requests -> 0..MaxSessions]
          /\ subject' \in [Requests -> 0..MaxMatters]
          /\ wanted' \in [Requests -> Statuses]
          /\ pc'[r] = "idle"
          /\ \A q \in Requests \ {r} :
                /\ pc'[q] = pc[q] /\ session'[q] = session[q]
                /\ subject'[q] = subject[q] /\ wanted'[q] = wanted[q]
        BY <2>1, EndsEffect DEF WebInv
    <2>4. StatusIsTold' /\ Dated' /\ WebMoves
        BY <2>1, <2>2, <2>3, Created
    <2>5. WebTypeOK' /\ Bounded'
        BY <1>1, <2>1, <2>2, <2>3 DEF WebInv, WebTypeOK, Bounded
    <2>6. \A q \in Requests : pc'[q] # "idle" => q # r
        BY <2>3
    <2>7. RequestsKnow'
        <3> SUFFICES ASSUME NEW q \in Requests, pc'[q] # "idle"
                     PROVE  /\ session'[q] \in DOMAIN sessions'
                            /\ pc'[q] = "record" => /\ subject'[q] \in DOMAIN matters'
                                                   /\ matters'[subject'[q]].status = wanted'[q]
            BY DEF RequestsKnow
        <3>1. /\ pc'[q] = pc[q] /\ session'[q] = session[q]
              /\ subject'[q] = subject[q] /\ wanted'[q] = wanted[q]
            BY <2>3, <2>6
        <3>2. /\ pc[q] # "idle" => session[q] \in DOMAIN sessions
              /\ pc[q] = "record" =>
                    subject[q] \in DOMAIN matters /\ matters[subject[q]].status = wanted[q]
            BY DEF WebInv, RequestsKnow
        <3>3. \A m \in DOMAIN matters : m \in DOMAIN matters' /\ matters'[m] = matters[m]
            BY <1>1, <2>1, <2>2
        <3> QED
            BY <2>1, <3>1, <3>2, <3>3
    <2>8. OneRecords' /\ EndedGone'
        BY <2>1, <2>3, <2>6 DEF WebInv, OneRecords, EndedGone
    <2> QED
        BY <2>4, <2>5, <2>7, <2>8 DEF WebInv
<1> QED
    BY <1>2, <1>3

LEMMA PostCommentStep ==
    ASSUME WebInv, NEW r \in Requests, NEW m \in DOMAIN matters, PostComment(r, m)
    PROVE  WebInv' /\ WebMoves
<1>1. /\ pc[r] = "handler" /\ Adds(m, "comment", User(r), matters[m].status) /\ Ends(r)
      /\ UNCHANGED <<clock, failures, accounts, requests, sessions, matters, ended, unlogged>>
    BY DEF PostComment, Handles, others
<1>2. User(r) \in Users \cup {Nobody} /\ matters[m].status \in Statuses
    BY <1>1, SessionsType, TablesType DEF User, WebInv, RequestsKnow
<1>3. /\ pc' \in [Requests -> {"idle", "handler", "record"}]
      /\ session' \in [Requests -> 0..MaxSessions]
      /\ subject' \in [Requests -> 0..MaxMatters]
      /\ wanted' \in [Requests -> Statuses]
      /\ pc'[r] = "idle"
      /\ \A q \in Requests \ {r} :
            /\ pc'[q] = pc[q] /\ session'[q] = session[q]
            /\ subject'[q] = subject[q] /\ wanted'[q] = wanted[q]
    BY <1>1, EndsEffect DEF WebInv
<1>4. /\ activities' \in Seq(Seq(Activity)) /\ Len(activities') = Len(matters)
      /\ \A i \in DOMAIN matters \ {m} : activities'[i] = activities[i]
      /\ Grows(m) /\ activities'[m][Len(activities[m]) + 1].type = "comment"
    BY <1>1, <1>2, AddsEffect DEF WebInv, Grows
<1>5. \A i \in DOMAIN matters : Told(i)' = Told(i)
    BY <1>1, <1>2, AddsTells DEF WebInv
<1>6. \A i \in DOMAIN matters : Untold(i) => Untold(i)'
    BY <1>1, <1>3 DEF Untold
<1>7. StatusIsTold' /\ Dated'
    BY <1>1, <1>5, <1>6 DEF WebInv, StatusIsTold, Dated
<1>8. WebMoves
    <2>1. clock' \in Nat /\ clock' >= clock
        BY <1>1, TablesType DEF WebInv
    <2>2. ASSUME NEW i \in DOMAIN matters, i # m
          PROVE  activities'[i] = activities[i] /\ (Untold(i) => Untold(i)')
        BY <1>4, <1>6, <2>2
    <2>3. Grows(m) /\ activities'[m][Len(activities[m]) + 1].type # "nudge"
        BY <1>4
    <2> QED
        BY <1>1, <2>1, <2>2, <2>3 DEF WebMoves
<1>9. WebTypeOK' /\ Bounded'
    BY <1>1, <1>3, <1>4 DEF WebInv, WebTypeOK, Bounded
<1>10. RequestsKnow'
    <2>1. \A q \in Requests : pc'[q] # "idle" => q # r
        BY <1>3
    <2> QED
        BY <1>1, <1>3, <2>1 DEF WebInv, RequestsKnow
<1>11. OneRecords' /\ EndedGone'
    BY <1>1, <1>3 DEF WebInv, OneRecords, EndedGone
<1> QED
    BY <1>7, <1>8, <1>9, <1>10, <1>11 DEF WebInv

LEMMA UpdateMatterStep ==
    ASSUME WebInv, NEW r \in Requests, NEW m \in DOMAIN matters, NEW status \in Statuses,
           UpdateMatter(r, m, status)
    PROVE  WebInv' /\ WebMoves
<1> DEFINE row == [matters[m] EXCEPT !.status = status, !.updated = clock]
<1>1. /\ LoopFree /\ pc[r] = "handler"
      /\ matters' = [matters EXCEPT ![m].status = status, ![m].updated = clock]
      /\ subject' = [subject EXCEPT ![r] = m] /\ wanted' = [wanted EXCEPT ![r] = status]
      /\ pc' = [pc EXCEPT ![r] = "record"]
      /\ UNCHANGED <<clock, failures, accounts, requests, sessions, activities, session,
                     ended, unlogged>>
    BY DEF UpdateMatter, Handles, others
<1>2. /\ row \in Matter /\ row.status = status
      /\ row.created = matters[m].created /\ row.updated = clock
    BY TablesType DEF WebInv, WebTypeOK, Matter
<1>3. matters' = [matters EXCEPT ![m] = row]
    BY <1>1, TablesType DEF WebInv
<1> HIDE DEF row
<1>4. /\ matters' \in Seq(Matter) /\ Len(matters') = Len(matters)
      /\ DOMAIN matters' = DOMAIN matters
      /\ \A i \in DOMAIN matters : matters'[i] = IF i = m THEN row ELSE matters[i]
    <2>1. /\ matters \in Seq(Matter) /\ m \in 1..Len(matters) /\ DOMAIN matters = 1..Len(matters)
        BY TablesType DEF WebInv, WebTypeOK
    <2>2. /\ matters' \in Seq(Matter) /\ Len(matters') = Len(matters)
          /\ \A i \in 1..Len(matters) : matters'[i] = IF i = m THEN row ELSE matters[i]
        BY <1>2, <1>3, <2>1, ExceptSeq
    <2> QED
        BY <2>1, <2>2, LenProperties
<1>5. /\ pc' \in [Requests -> {"idle", "handler", "record"}]
      /\ subject' \in [Requests -> 0..MaxMatters] /\ wanted' \in [Requests -> Statuses]
      /\ pc'[r] = "record" /\ subject'[r] = m /\ wanted'[r] = status
      /\ \A q \in Requests \ {r} :
            pc'[q] = pc[q] /\ subject'[q] = subject[q] /\ wanted'[q] = wanted[q]
    <2>1. m \in 0..MaxMatters
        BY TablesType, BoundsAreNumbers DEF WebInv, Bounded
    <2> QED
        BY <1>1, <2>1 DEF WebInv, WebTypeOK
<1>6. \A i \in DOMAIN matters : Told(i)' = Told(i)
    BY <1>1 DEF Told
<1>7. Untold(m)' /\ \A i \in DOMAIN matters : Untold(i) => Untold(i)'
    <2>1. \A q \in Requests : pc[q] # "record"
        BY <1>1 DEF LoopFree
    <2> QED
        BY <1>1, <1>5, <2>1 DEF Untold
<1>8. \A i \in DOMAIN matters : matters'[i].status = matters[i].status \/ Untold(i)'
    BY <1>4, <1>7
<1>9. StatusIsTold'
    BY <1>4, <1>6, <1>7, <1>8 DEF WebInv, StatusIsTold
<1>10. WebMoves
    BY <1>1, <1>2, <1>4, <1>7, <1>8, TablesType DEF WebMoves, WebInv
<1>13. Dated'
    <2>1. matters[m].created <= clock
        BY TablesType DEF WebInv, Dated
    <2>2. clock \in Nat /\ clock' = clock
        BY <1>1, TablesType DEF WebInv
    <2> QED
        BY <1>2, <1>4, <2>1, <2>2 DEF WebInv, Dated
<1>11. WebTypeOK' /\ Bounded'
    BY <1>1, <1>4, <1>5 DEF WebInv, WebTypeOK, Bounded
<1>12. RequestsKnow' /\ OneRecords' /\ EndedGone'
    <2>1. \A q \in Requests : pc'[q] = "record" => q = r
        BY <1>1, <1>5 DEF LoopFree
    <2>2. \A q \in Requests : pc'[q] # "idle" => pc[q] # "idle"
        BY <1>1, <1>5
    <2> QED
        BY <1>1, <1>2, <1>4, <1>5, <2>1, <2>2 DEF WebInv, RequestsKnow, OneRecords, EndedGone
<1> QED
    BY <1>9, <1>10, <1>11, <1>12, <1>13 DEF WebInv

LEMMA RecordStatusStep ==
    ASSUME WebInv, NEW r \in Requests, RecordStatus(r)
    PROVE  WebInv' /\ WebMoves
<1>a. subject[r] \in DOMAIN matters
    BY DEF RecordStatus, WebInv, RequestsKnow
<1> PICK m \in DOMAIN matters : m = subject[r]
    BY <1>a
<1>1. /\ pc[r] = "record" /\ Adds(m, "status_change", User(r), wanted[r]) /\ Ends(r)
      /\ unlogged' = unlogged \ {m}
      /\ UNCHANGED <<clock, failures, accounts, requests, sessions, matters, ended>>
    BY DEF RecordStatus, others
<1>2. /\ m \in DOMAIN matters /\ matters[m].status = wanted[r] /\ wanted[r] \in Statuses
      /\ session[r] \in DOMAIN sessions
    BY <1>1 DEF WebInv, WebTypeOK, RequestsKnow
<1>3. User(r) \in Users \cup {Nobody}
    BY <1>2, SessionsType DEF User, WebInv
<1>4. /\ pc' \in [Requests -> {"idle", "handler", "record"}]
      /\ session' \in [Requests -> 0..MaxSessions]
      /\ subject' \in [Requests -> 0..MaxMatters]
      /\ wanted' \in [Requests -> Statuses]
      /\ pc'[r] = "idle"
      /\ \A q \in Requests \ {r} :
            /\ pc'[q] = pc[q] /\ session'[q] = session[q]
            /\ subject'[q] = subject[q] /\ wanted'[q] = wanted[q]
    BY <1>1, EndsEffect DEF WebInv
<1>5. \A q \in Requests : pc[q] = "record" => q = r
    BY <1>1 DEF WebInv, OneRecords
<1>6. /\ activities' \in Seq(Seq(Activity)) /\ Len(activities') = Len(matters)
      /\ \A i \in DOMAIN matters \ {m} : activities'[i] = activities[i]
      /\ Grows(m) /\ activities'[m][Len(activities[m]) + 1].type = "status_change"
    BY <1>1, <1>2, <1>3, AddsEffect DEF WebInv, Grows
<1>7. /\ Told(m)' = wanted[r]
      /\ \A i \in DOMAIN matters \ {m} : Told(i)' = Told(i)
    BY <1>1, <1>2, <1>3, AddsTells DEF WebInv
<1>8. \A i \in DOMAIN matters \ {m} : Untold(i) => Untold(i)'
    BY <1>1, <1>4, <1>5 DEF Untold
<1>9. StatusIsTold' /\ Dated'
    BY <1>1, <1>2, <1>7, <1>8 DEF WebInv, StatusIsTold, Dated
<1>10. WebMoves
    <2>1. clock' \in Nat /\ clock' >= clock
        BY <1>1, TablesType DEF WebInv
    <2>2. ASSUME NEW i \in DOMAIN matters, i # m
          PROVE  activities'[i] = activities[i] /\ (Untold(i) => Untold(i)')
        BY <1>6, <1>8, <2>2
    <2>3. Grows(m) /\ activities'[m][Len(activities[m]) + 1].type # "nudge"
        BY <1>6
    <2> QED
        BY <1>1, <2>1, <2>2, <2>3 DEF WebMoves
<1>11. WebTypeOK' /\ Bounded'
    BY <1>1, <1>4, <1>6 DEF WebInv, WebTypeOK, Bounded
<1>12. RequestsKnow'
    <2>1. \A q \in Requests : pc'[q] # "idle" => q # r
        BY <1>4
    <2> QED
        BY <1>1, <1>4, <2>1 DEF WebInv, RequestsKnow
<1>13. OneRecords' /\ EndedGone'
    BY <1>1, <1>4 DEF WebInv, OneRecords, EndedGone
<1> QED
    BY <1>9, <1>10, <1>11, <1>12, <1>13 DEF WebInv

LEMMA WebStep == WebInv /\ WebNext => WebInv' /\ WebMoves
<1> SUFFICES ASSUME WebInv, WebNext PROVE WebInv' /\ WebMoves
    OBVIOUS
<1>1. CASE Tick \/ \E u \in Users : CreateUser(u) \/ DeleteUser(u)
    BY <1>1, OutsideSteps
<1>2. CASE MatterArrives \/ \E r \in Requests : CreateMatterSubmit(r)
    BY <1>2, CreateSteps
<1>3. CASE WebDies
    BY <1>3, WebDiesStep
<1>4. CASE \E u \in Users : Login(u)
    BY <1>4, LoginStep
<1>5. CASE \E s \in DOMAIN sessions : RefuseExpired(s) \/ \E r \in Requests : Arrive(r, s)
    BY <1>5, RefuseExpiredStep, ArriveStep
<1>6. CASE \E r \in Requests : Logout(r) \/ UserMissing(r) \/ RequestRaises(r)
    BY <1>6, EndingSteps
<1>7. CASE \E r \in Requests : RecordStatus(r)
    BY <1>7, RecordStatusStep
<1>8. CASE \E r \in Requests, m \in DOMAIN matters :
              PostComment(r, m) \/ \E status \in Statuses : UpdateMatter(r, m, status)
    BY <1>8, PostCommentStep, UpdateMatterStep
<1> QED
    BY <1>1, <1>2, <1>3, <1>4, <1>5, <1>6, <1>7, <1>8 DEF WebNext

-----------------------------------------------------------------------------
(***************************************************************************)
(* The pass                                                                *)
(***************************************************************************)
LEMMA ListedRows ==
    ASSUME WebTypeOK, Dated, NEW status, NEW rows \in Listed(status)
    PROVE  /\ rows \in Seq(Listing)
           /\ \A i \in DOMAIN rows :
                 /\ rows[i].id \in DOMAIN matters /\ matters[rows[i].id].status = status
                 /\ DatedRow(rows[i])
<1> DEFINE S == Newest(status)
           c == Cardinality(S)
<1>1. S \subseteq DOMAIN matters /\ \A m \in S : matters[m].status = status
    BY DEF Newest
<1>2. c \in Nat
    <2>1. IsFiniteSet(DOMAIN matters)
        BY TablesType, FS_Interval
    <2> QED
        BY <1>1, <2>1, FS_Subset, FS_CardinalityType
<1>3. PICK ids \in [1..c -> S] :
          rows = [i \in DOMAIN ids |-> [id |-> ids[i], updated |-> matters[ids[i]].updated]]
    BY DEF Listed
<1> HIDE DEF S, c
<1>4. \A m \in DOMAIN matters : matters[m].updated \in 0..MaxTime
    BY TablesType DEF Matter
<1>5. \A i \in 1..c : ids[i] \in DOMAIN matters /\ matters[ids[i]].status = status
    BY <1>1
<1>6. \A i \in 1..c : [id |-> ids[i], updated |-> matters[ids[i]].updated] \in Listing
    BY <1>4, <1>5 DEF Listing
<1>7. /\ rows \in [1..c -> Listing] /\ DOMAIN rows = 1..c
      /\ \A i \in 1..c : rows[i].id = ids[i] /\ rows[i].updated = matters[ids[i]].updated
    BY <1>3, <1>6
<1>8. \A i \in 1..c : DatedRow(rows[i])
    BY <1>5, <1>7 DEF Dated, DatedRow
<1> QED
    BY <1>2, <1>5, <1>7, <1>8

LEMMA TodoType ==
    ASSUME TypeOK
    PROVE  /\ todo \in Seq(Listing) /\ DOMAIN todo = 1..Len(todo) /\ Len(todo) \in Nat
           /\ \A i \in DOMAIN todo : todo[i].id \in DOMAIN matters
           /\ todo # <<>> =>
                 /\ 1 \in DOMAIN todo /\ Matter1 = todo[1].id /\ Matter1 \in DOMAIN matters
                 /\ Tail(todo) \in Seq(Listing)
                 /\ \A i \in DOMAIN Tail(todo) : i + 1 \in DOMAIN todo /\ Tail(todo)[i] = todo[i + 1]
<1>1. todo \in Seq(Listing)
    BY DEF TypeOK
<1>2. DOMAIN todo = 1..Len(todo) /\ Len(todo) \in Nat
    BY <1>1
<1>3. \A i \in DOMAIN todo : todo[i] \in Listing
    BY <1>1
<1>4. \A i \in DOMAIN todo : todo[i].id \in DOMAIN matters
    BY <1>3 DEF Listing
<1>5. ASSUME todo # <<>>
      PROVE  /\ 1 \in DOMAIN todo /\ Matter1 = todo[1].id
             /\ Tail(todo) \in Seq(Listing)
             /\ \A i \in DOMAIN Tail(todo) : i + 1 \in DOMAIN todo /\ Tail(todo)[i] = todo[i + 1]
    <2>1. 1 \in DOMAIN todo /\ Len(todo) > 0
        BY <1>1, <1>2, <1>5, EmptySeq
    <2>2. /\ Tail(todo) \in Seq(Listing) /\ Len(Tail(todo)) = Len(todo) - 1
          /\ \A i \in 1..Len(Tail(todo)) : Tail(todo)[i] = todo[i + 1]
        BY <1>1, <1>5, HeadTailProperties
    <2>3. DOMAIN Tail(todo) = 1..Len(Tail(todo))
        BY <2>2, LenProperties
    <2>4. Head(todo) = todo[1]
        BY <1>1, <1>5
    <2> QED
        BY <1>2, <2>1, <2>2, <2>3, <2>4 DEF Matter1
<1> QED
    BY <1>1, <1>2, <1>4, <1>5

(* The pass goes on with some of its rows or ends.                         *)
LEMMA ContinuesEffect ==
    ASSUME IInv, NEW rows \in Seq(Listing), Continues(rows), UNCHANGED <<clock, matters>>,
           \A i \in DOMAIN rows : DatedRow(rows[i])
    PROVE  /\ todo' \in Seq(Listing)' /\ scan' \in {"idle", "look"} /\ now' \in 0..MaxTime
           /\ PassShape' /\ RowsDated' /\ LookStands'
<1>1. /\ todo' = rows
      /\ scan' = IF rows = <<>> THEN "idle" ELSE "look"
      /\ now' = IF rows = <<>> THEN 0 ELSE now
    BY DEF Continues
<1>2. now \in 0..MaxTime /\ now <= clock /\ clock \in Nat /\ MaxTime \in Nat
    BY TablesType, BoundsAreNumbers DEF IInv, TypeOK, PassShape, WebInv
<1>3. Listing' = Listing
    BY DEF Listing
<1>4. PassShape' /\ RowsDated' /\ LookStands'
    BY <1>1, <1>2 DEF PassShape, RowsDated, DatedRow, LookStands
<1>5. now' \in 0..MaxTime
    BY <1>1, <1>2
<1> QED
    BY <1>1, <1>3, <1>4, <1>5

LEMMA InitIInv == Init => IInv
<1> SUFFICES ASSUME Init PROVE IInv
    OBVIOUS
<1>1. WebInv
    BY InitWebInv DEF Init
<1>2. /\ todo = <<>> /\ todo \in Seq(Listing) /\ scan = "idle" /\ now = 0 /\ looked = 0
      /\ overtaken = {} /\ unseen = {} /\ matters = <<>> /\ clock = 0
    BY EmptySeq DEF Init, WebInit
<1>3. TypeOK
    BY <1>1, <1>2, BoundsAreNumbers DEF TypeOK, WebInv
<1>4. PassShape /\ RowsStand /\ RowsDated /\ LookStands /\ NudgesDeserved
    BY <1>2 DEF PassShape, RowsStand, RowsDated, LookStands, NudgesDeserved
<1> QED
    BY <1>1, <1>3, <1>4 DEF IInv

(* While a pass is under way, others do what WebMoves says.                *)
LEMMA WebBesidePass ==
    ASSUME IInv, WebNext, UNCHANGED pass
    PROVE  IInv'
<1>1. WebInv' /\ WebMoves
    BY WebStep DEF IInv
<1>2. UNCHANGED <<scan, todo, now, looked, overtaken, unseen>>
    BY DEF pass
<1>3. /\ DOMAIN matters \subseteq DOMAIN matters' /\ clock' >= clock /\ clock' \in Nat
      /\ \A m \in DOMAIN matters :
            /\ activities[m] \in Seq(Activity) /\ Len(activities[m]) \in Nat
            /\ DOMAIN activities[m] = 1..Len(activities[m])
      /\ now \in Nat /\ now <= clock /\ clock \in Nat /\ looked \in Nat
    BY <1>1, TablesType, BoundsAreNumbers DEF IInv, WebInv, WebMoves, PassShape, TypeOK
<1>4. /\ todo # <<>> => 1 \in DOMAIN todo /\ Matter1 = todo[1].id /\ Matter1 \in DOMAIN matters
      /\ \A i \in DOMAIN todo : todo[i].id \in DOMAIN matters
      /\ Matter1' = Matter1
    BY <1>2, TodoType DEF IInv, Matter1
<1>5. TypeOK'
    <2>1. todo' \in Seq(Listing')
        <3>1. Listing \subseteq Listing'
            BY <1>3 DEF Listing
        <3>2. todo \in Seq(Listing) /\ todo' = todo
            BY <1>2 DEF IInv, TypeOK
        <3> QED
            BY <3>1, <3>2
    <2>2. overtaken' \subseteq (DOMAIN matters') \X Nat /\ unseen' \subseteq (DOMAIN matters') \X Nat
        BY <1>2, <1>3 DEF IInv, TypeOK
    <2> QED
        BY <1>1, <1>2, <2>1, <2>2 DEF IInv, TypeOK, WebInv
<1>6. \A m \in DOMAIN matters :
          \/ activities'[m] = activities[m] /\ (Stands(m) => Stands(m)')
          \/ /\ Grows(m) /\ activities'[m][Len(activities[m]) + 1].type # "nudge"
             /\ activities'[m] \in Seq(Activity)
    <2>1. \A m \in DOMAIN matters' : activities'[m] \in Seq(Activity)
        <3>1. activities' \in Seq(Seq(Activity)) /\ Len(activities') = Len(matters')
              /\ matters' \in Seq(Matter)
            BY <1>1 DEF WebInv, WebTypeOK
        <3> QED
            BY <3>1
    <2> QED
        BY <1>1, <1>3, <2>1 DEF WebMoves, Stands
<1>7. PassShape'
    BY <1>2, <1>3 DEF IInv, PassShape
<1>8. RowsStand'
    <2> SUFFICES ASSUME NEW m \in DOMAIN matters, Stands(m) \/ HeardSince(m)
                 PROVE  Stands(m)' \/ HeardSince(m)'
        BY <1>2, <1>4 DEF IInv, RowsStand
    <2>1. CASE activities'[m] = activities[m] /\ (Stands(m) => Stands(m)')
        BY <1>2, <2>1 DEF HeardSince
    <2>2. CASE Grows(m) /\ activities'[m] \in Seq(Activity)
        <3>1. activities'[m][Len(activities'[m])].at >= now
            BY <1>3, <2>2 DEF Grows
        <3>2. activities'[m] # <<>>
            BY <1>3, <2>2 DEF Grows
        <3> QED
            BY <1>2, <3>1, <3>2 DEF HeardSince
    <2> QED
        BY <1>6, <2>1, <2>2
<1>11. /\ RowsDated'
       /\ \A m \in DOMAIN matters : matters'[m].created = matters[m].created
    BY <1>1, <1>2, <1>4 DEF WebMoves, IInv, RowsDated, DatedRow
<1>9. LookStands'
    <2> SUFFICES ASSUME scan = "nudge"
                 PROVE  /\ looked <= Len(activities'[Matter1])
                        /\ looked = 0 => matters'[Matter1].created + Threshold <= now
                        /\ looked > 0 => activities'[Matter1][looked].at + Threshold <= now
                        /\ Len(activities'[Matter1]) > looked \/ Stands(Matter1)'
        BY <1>2, <1>4 DEF LookStands
    <2> PICK m \in DOMAIN matters : m = Matter1
        BY <1>4 DEF IInv, PassShape
    <2>1. /\ looked <= Len(activities[m])
          /\ looked = 0 => matters'[m].created + Threshold <= now
          /\ looked > 0 => activities[m][looked].at + Threshold <= now
          /\ Len(activities[m]) > looked \/ Stands(m)
        BY <1>11 DEF IInv, LookStands
    <2>2. Stands(Matter1)' <=> Stands(m)'
        BY <1>4 DEF Stands, Untold
    <2>3. CASE activities'[m] = activities[m] /\ (Stands(m) => Stands(m)')
        BY <2>1, <2>2, <2>3
    <2>4. CASE Grows(m)
        <3>1. Len(activities'[m]) = Len(activities[m]) + 1
            BY <2>4 DEF Grows
        <3>2. looked > 0 => activities'[m][looked] = activities[m][looked]
            BY <1>3, <2>1, <2>4 DEF Grows
        <3> QED
            BY <1>3, <2>1, <3>1, <3>2
    <2> QED
        BY <1>6, <2>3, <2>4
<1>10. NudgesDeserved'
    <2> SUFFICES ASSUME NEW m \in DOMAIN matters', NEW k \in DOMAIN activities'[m],
                        activities'[m][k].type = "nudge", <<m, k>> \notin overtaken
                 PROVE  /\ HeardBefore(m, k)' + Threshold <= activities'[m][k].at
                        /\ activities'[m][k].status \in Active \/ <<m, k>> \in unseen
        BY <1>2 DEF NudgesDeserved
    <2>1. m \in DOMAIN matters
        <3>1. ASSUME m \notin DOMAIN matters PROVE activities'[m] = <<>>
            BY <1>1, <3>1 DEF WebMoves
        <3> QED
            BY <3>1
    <2>2. /\ k \in DOMAIN activities[m] /\ activities'[m][k] = activities[m][k]
          /\ k > 1 => activities'[m][k - 1] = activities[m][k - 1]
          /\ k \in Nat /\ k > 0
        <3>1. CASE activities'[m] = activities[m]
            BY <1>3, <2>1, <3>1
        <3>2. CASE /\ Grows(m) /\ activities'[m][Len(activities[m]) + 1].type # "nudge"
                   /\ activities'[m] \in Seq(Activity)
            <4>1. k \in 1..(Len(activities[m]) + 1) /\ k # Len(activities[m]) + 1
                BY <3>2 DEF Grows
            <4>2. /\ k \in 1..Len(activities[m]) /\ k \in Nat /\ k > 0
                  /\ k > 1 => k - 1 \in 1..Len(activities[m])
                BY <1>3, <2>1, <4>1
            <4>3. \A j \in 1..Len(activities[m]) : activities'[m][j] = activities[m][j]
                BY <3>2 DEF Grows
            <4>4. DOMAIN activities[m] = 1..Len(activities[m])
                BY <1>3, <2>1
            <4> QED
                BY <4>2, <4>3, <4>4
        <3> QED
            BY <1>6, <2>1, <3>1, <3>2
    <2>3. HeardBefore(m, k)' = HeardBefore(m, k)
        BY <1>11, <2>1, <2>2 DEF HeardBefore
    <2> QED
        BY <2>1, <2>2, <2>3 DEF IInv, NudgesDeserved
<1> QED
    BY <1>1, <1>5, <1>7, <1>8, <1>9, <1>10, <1>11 DEF IInv

(* Steps of the pass that write nothing.                                   *)
LEMMA WebUntouched ==
    ASSUME IInv, UNCHANGED webVars
    PROVE  /\ WebInv' /\ Listing' = Listing /\ UNCHANGED <<clock, matters, activities>>
           /\ overtaken \subseteq (DOMAIN matters') \X Nat /\ unseen \subseteq (DOMAIN matters') \X Nat
           /\ \A m : (Stands(m)' <=> Stands(m)) /\ Told(m)' = Told(m)
           /\ UNCHANGED <<overtaken, unseen>> => NudgesDeserved'
<1> USE DEF webVars, web
<1>1. WebInv'
    <2>1. WebTypeOK' /\ Bounded'
        BY DEF IInv, WebInv, WebTypeOK, Bounded
    <2>2. RequestsKnow' /\ OneRecords' /\ EndedGone' /\ Dated'
        BY DEF IInv, WebInv, RequestsKnow, OneRecords, EndedGone, Dated
    <2>3. StatusIsTold'
        <3>1. \A m : Told(m)' = Told(m) /\ (Untold(m)' <=> Untold(m))
            BY DEF Told, Untold
        <3> QED
            BY <3>1 DEF IInv, WebInv, StatusIsTold
    <2> QED
        BY <2>1, <2>2, <2>3 DEF WebInv
<1>2. /\ Listing' = Listing /\ UNCHANGED <<clock, matters, activities>>
      /\ overtaken \subseteq (DOMAIN matters') \X Nat /\ unseen \subseteq (DOMAIN matters') \X Nat
    BY DEF Listing, IInv, TypeOK
<1>3. \A m : (Stands(m)' <=> Stands(m)) /\ Told(m)' = Told(m)
    BY DEF Stands, Untold, Told
<1>4. UNCHANGED <<overtaken, unseen>> => NudgesDeserved'
    BY DEF IInv, NudgesDeserved, HeardBefore
<1> QED
    BY <1>1, <1>2, <1>3, <1>4

LEMMA ListNewStep ==
    ASSUME IInv, ListNew
    PROVE  IInv'
<1>1. /\ UNCHANGED webVars /\ UNCHANGED <<looked, overtaken, unseen>>
      /\ now' = clock /\ scan' = "list" /\ todo' \in Listed("new")
    BY DEF ListNew
<1>2. /\ todo' \in Seq(Listing)
      /\ \A i \in DOMAIN todo' :
            /\ todo'[i].id \in DOMAIN matters /\ matters[todo'[i].id].status = "new"
            /\ DatedRow(todo'[i])
    BY <1>1, ListedRows DEF IInv, WebInv
<1>3. TypeOK'
    BY <1>1, <1>2, WebUntouched DEF IInv, TypeOK, WebInv, WebTypeOK, webVars
<1>4. clock' = clock /\ clock \in Nat
    BY <1>1, TablesType DEF webVars, IInv, WebInv
<1>5. PassShape' /\ LookStands'
    BY <1>1, <1>4 DEF PassShape, LookStands
<1>6. RowsStand'
    <2>1. \A i \in DOMAIN todo' : Stands(todo'[i].id)
        BY <1>2 DEF Stands, Active
    <2>2. \A m : Stands(m)' <=> Stands(m)
        BY <1>1, WebUntouched
    <2> QED
        BY <2>1, <2>2 DEF RowsStand
<1>7. RowsDated'
    BY <1>1, <1>2, WebUntouched DEF RowsDated, DatedRow
<1> QED
    BY <1>1, <1>3, <1>5, <1>6, <1>7, WebUntouched DEF IInv

(* The pass has done with a row, found nothing to do, or ended.            *)
LEMMA ContinuesStep ==
    ASSUME IInv, NEW rows \in Seq(Listing), Continues(rows),
           \A i \in DOMAIN rows :
              (Stands(rows[i].id) \/ HeardSince(rows[i].id)) /\ DatedRow(rows[i]),
           UNCHANGED webVars, UNCHANGED <<overtaken, unseen>>, looked' \in Nat
    PROVE  IInv'
<1>1. clock' = clock /\ matters' = matters /\ activities' = activities
    BY DEF webVars
<1>2. /\ todo' \in Seq(Listing)' /\ scan' \in {"idle", "look"} /\ now' \in 0..MaxTime
      /\ PassShape' /\ RowsDated' /\ LookStands'
    BY <1>1, ContinuesEffect
<1>3. TypeOK'
    BY <1>2, WebUntouched DEF IInv, TypeOK, WebInv
<1>4. RowsStand'
    <2>1. todo' = rows /\ (rows # <<>> => now' = now)
        BY DEF Continues
    <2>2. ASSUME NEW i \in DOMAIN rows PROVE Stands(rows[i].id)' \/ HeardSince(rows[i].id)'
        <3>1. now' = now
            BY <2>1
        <3> PICK m : m = rows[i].id
            OBVIOUS
        <3>2. Stands(m)' \/ HeardSince(m)'
            BY <1>1, <3>1, WebUntouched DEF HeardSince
        <3> QED
            BY <3>2
    <2> QED
        BY <2>1, <2>2 DEF RowsStand
<1> QED
    BY <1>2, <1>3, <1>4, WebUntouched DEF IInv

LEMMA ListInProgressStep ==
    ASSUME IInv, ListInProgress
    PROVE  IInv'
<1>1. PICK rows \in Listed("in_progress") : Continues(todo \o rows)
    BY DEF ListInProgress
<1>2. /\ rows \in Seq(Listing) /\ DOMAIN rows = 1..Len(rows) /\ Len(rows) \in Nat
      /\ \A i \in DOMAIN rows :
            /\ rows[i].id \in DOMAIN matters /\ matters[rows[i].id].status = "in_progress"
            /\ DatedRow(rows[i])
    BY ListedRows, LenProperties DEF IInv, WebInv
<1>3. todo \in Seq(Listing) /\ DOMAIN todo = 1..Len(todo) /\ Len(todo) \in Nat
    BY TodoType DEF IInv
<1>4. /\ todo \o rows \in Seq(Listing) /\ DOMAIN (todo \o rows) = 1..(Len(todo) + Len(rows))
      /\ \A i \in 1..(Len(todo) + Len(rows)) :
            (todo \o rows)[i] = IF i <= Len(todo) THEN todo[i] ELSE rows[i - Len(todo)]
    BY <1>2, <1>3, ConcatProperties, LenProperties
<1>5. ASSUME NEW i \in DOMAIN (todo \o rows)
      PROVE  /\ Stands((todo \o rows)[i].id) \/ HeardSince((todo \o rows)[i].id)
             /\ DatedRow((todo \o rows)[i])
    <2>1. CASE i <= Len(todo)
        <3>1. i \in DOMAIN todo /\ (todo \o rows)[i] = todo[i]
            BY <1>3, <1>4, <2>1
        <3> QED
            BY <3>1 DEF IInv, RowsStand, RowsDated
    <2>2. CASE ~ (i <= Len(todo))
        <3>1. i - Len(todo) \in DOMAIN rows /\ (todo \o rows)[i] = rows[i - Len(todo)]
            BY <1>2, <1>3, <1>4, <2>2
        <3> QED
            BY <1>2, <3>1 DEF Stands, Active
    <2> QED
        BY <2>1, <2>2
<1>6. UNCHANGED webVars /\ UNCHANGED <<overtaken, unseen>> /\ looked' \in Nat
    BY DEF ListInProgress, IInv, TypeOK
<1> QED
    BY <1>1, <1>4, <1>5, <1>6, ContinuesStep

LEMMA RestStands ==
    ASSUME IInv, todo # <<>>
    PROVE  /\ Tail(todo) \in Seq(Listing)
           /\ \A i \in DOMAIN Tail(todo) :
                 /\ Stands(Tail(todo)[i].id) \/ HeardSince(Tail(todo)[i].id)
                 /\ DatedRow(Tail(todo)[i])
BY TodoType DEF IInv, RowsStand, RowsDated

LEMMA SkipRecentStep ==
    ASSUME IInv, SkipRecent
    PROVE  IInv'
<1>1. Continues(Tail(todo)) /\ UNCHANGED webVars /\ UNCHANGED <<overtaken, unseen>> /\ looked' \in Nat
      /\ todo # <<>>
    BY DEF SkipRecent, IInv, TypeOK, PassShape
<1> QED
    BY <1>1, RestStands, ContinuesStep

LEMMA FindStaleStep ==
    ASSUME IInv, FindStale
    PROVE  IInv'
<1>1. /\ UNCHANGED webVars /\ UNCHANGED <<todo, now, overtaken, unseen>>
      /\ scan = "look" /\ Stale /\ scan' = "nudge" /\ looked' = Len(activities[Matter1])
    BY DEF FindStale
<1>2. /\ todo # <<>> /\ 1 \in DOMAIN todo /\ Matter1 = todo[1].id /\ Matter1 \in DOMAIN matters
      /\ Matter1' = Matter1
    BY <1>1, TodoType DEF IInv, PassShape, Matter1
<1> PICK m \in DOMAIN matters : m = Matter1
    BY <1>2
<1>3. /\ activities[m] \in Seq(Activity) /\ Len(activities[m]) \in Nat /\ now \in Nat
      /\ Threshold \in Nat /\ Threshold > 0 /\ MaxTime \in Nat
      /\ \A k \in 1..Len(activities[m]) : activities[m][k].at \in Nat
    BY TablesType, BoundsAreNumbers DEF IInv, WebInv, TypeOK
<1>4. TypeOK'
    BY <1>1, <1>3, WebUntouched DEF IInv, TypeOK, WebInv
<1>5. PassShape'
    BY <1>1 DEF IInv, PassShape, webVars
<1>6. RowsStand'
    <2>1. \A i \in DOMAIN todo : Stands(todo[i].id)' \/ HeardSince(todo[i].id)'
        <3> SUFFICES ASSUME NEW n, Stands(n) \/ HeardSince(n) PROVE Stands(n)' \/ HeardSince(n)'
            BY <1>1 DEF IInv, RowsStand
        <3> QED
            BY <1>1, WebUntouched DEF HeardSince, webVars
    <2> QED
        BY <1>1, <2>1 DEF RowsStand
<1>7. Len(activities[m]) > 0 => activities[m][Len(activities[m])].at + Threshold <= now
    <2> SUFFICES ASSUME Len(activities[m]) > 0
                 PROVE  activities[m][Len(activities[m])].at + Threshold <= now
        OBVIOUS
    <2>1. activities[m] # <<>> /\ Len(activities[m]) \in 1..Len(activities[m])
        BY <1>3, EmptySeq
    <2>2. activities[m][Len(activities[m])].at <= now - Threshold
        BY <1>1, <2>1 DEF Stale, LastDate, Last
    <2>3. activities[m][Len(activities[m])].at \in Nat
        BY <1>3, <2>1
    <2> QED
        BY <1>3, <2>2, <2>3
<1>10. Len(activities[m]) = 0 => matters[m].created + Threshold <= now
    <2> SUFFICES ASSUME Len(activities[m]) = 0
                 PROVE  matters[m].created + Threshold <= now
        OBVIOUS
    <2>1. activities[m] = <<>> /\ Head(todo) = todo[1] /\ todo[1] \in Listing
        BY <1>2, <1>3, TodoType, EmptySeq DEF IInv
    <2>2. todo[1].updated <= now - Threshold /\ todo[1].updated \in Nat
        BY <1>1, <2>1, BoundsAreNumbers DEF Stale, LastDate, Listing
    <2>3. matters[m].created <= todo[1].updated /\ matters[m].created \in Nat
        BY <1>2, TablesType DEF IInv, WebInv, RowsDated, DatedRow
    <2> QED
        BY <1>3, <2>2, <2>3
<1>11. RowsDated'
    BY <1>1, WebUntouched DEF IInv, RowsDated, DatedRow
<1>8. Stands(m)
    <2>1. ASSUME HeardSince(m) PROVE FALSE
        <3>1. Len(activities[m]) > 0 /\ Len(activities[m]) \in 1..Len(activities[m])
            BY <1>3, <2>1, EmptySeq DEF HeardSince
        <3>2. /\ activities[m][Len(activities[m])].at \in Nat
              /\ activities[m][Len(activities[m])].at >= now
              /\ activities[m][Len(activities[m])].at + Threshold <= now
            BY <1>3, <1>7, <2>1, <3>1 DEF HeardSince
        <3> QED
            BY <1>3, <3>2
    <2> QED
        BY <1>2, <2>1 DEF IInv, RowsStand
<1>9. LookStands'
    <2>1. Stands(m)'
        BY <1>1, <1>8, WebUntouched
    <2>2. Stands(Matter1)'
        BY <1>2, <2>1 DEF Stands, Untold
    <2>3. activities' = activities /\ matters' = matters /\ now' = now
        BY <1>1 DEF webVars
    <2> QED
        BY <1>1, <1>2, <1>3, <1>7, <1>10, <2>2, <2>3 DEF LookStands
<1> QED
    BY <1>1, <1>4, <1>5, <1>6, <1>9, <1>11, WebUntouched DEF IInv

LEMMA NudgeStep ==
    ASSUME IInv, Nudge
    PROVE  IInv'
<1>1. /\ scan = "nudge" /\ Adds(Matter1, "nudge", Nobody, matters[Matter1].status)
      /\ overtaken' = IF Len(activities[Matter1]) > looked
                      THEN overtaken \cup {<<Matter1, Len(activities[Matter1]) + 1>>}
                      ELSE overtaken
      /\ unseen' = IF Untold(Matter1)
                   THEN unseen \cup {<<Matter1, Len(activities[Matter1]) + 1>>}
                   ELSE unseen
      /\ looked' = 0 /\ Continues(Tail(todo))
      /\ UNCHANGED <<clock, matters, failures, accounts, sessions, pc, session, subject, wanted,
                     requests, ended, unlogged>>
    BY DEF Nudge, web
<1>2. todo # <<>> /\ Matter1 \in DOMAIN matters
    BY <1>1, TodoType DEF IInv, PassShape
<1> PICK m \in DOMAIN matters : m = Matter1
    BY <1>2
<1>3. /\ activities[m] \in Seq(Activity) /\ Len(activities[m]) \in Nat /\ clock \in Nat
      /\ now \in Nat /\ now <= clock /\ matters[m].status \in Statuses /\ looked \in Nat
      /\ DOMAIN activities = DOMAIN matters /\ Nobody \in Users \cup {Nobody}
      /\ Threshold \in Nat /\ matters[m].created \in Nat
      /\ \A k \in 1..Len(activities[m]) : activities[m][k].at \in Nat
    BY TablesType, BoundsAreNumbers DEF IInv, WebInv, TypeOK, PassShape
<1>4. /\ activities' \in Seq(Seq(Activity)) /\ Len(activities') = Len(matters)
      /\ \A i \in DOMAIN matters \ {m} : activities'[i] = activities[i]
      /\ activities'[m] \in Seq(Activity)
      /\ Grows(m)
      /\ activities'[m][Len(activities[m]) + 1].status = matters[m].status
    <2>1. WebTypeOK /\ Adds(m, "nudge", Nobody, matters[m].status)
        BY <1>1 DEF IInv, WebInv
    <2>2. /\ activities' \in Seq(Seq(Activity)) /\ Len(activities') = Len(matters)
          /\ \A i \in DOMAIN matters \ {m} : activities'[i] = activities[i]
          /\ activities'[m] \in Seq(Activity)
          /\ Len(activities'[m]) = Len(activities[m]) + 1
          /\ \A k \in 1..Len(activities[m]) : activities'[m][k] = activities[m][k]
          /\ activities'[m][Len(activities[m]) + 1].at = clock
          /\ activities'[m][Len(activities[m]) + 1].status = matters[m].status
        <3> PICK status \in Statuses : status = matters[m].status
            BY <1>3
        <3> PICK actor \in Users \cup {Nobody} : actor = Nobody
            BY <1>3
        <3> PICK type \in {"comment", "status_change", "nudge"} : type = "nudge"
            OBVIOUS
        <3>1. WebTypeOK /\ Adds(m, type, actor, status)
            BY <2>1
        <3>2. /\ activities' \in Seq(Seq(Activity)) /\ Len(activities') = Len(matters)
              /\ \A i \in DOMAIN matters \ {m} : activities'[i] = activities[i]
              /\ activities'[m] \in Seq(Activity)
              /\ Len(activities'[m]) = Len(activities[m]) + 1
              /\ \A k \in 1..Len(activities[m]) : activities'[m][k] = activities[m][k]
              /\ activities'[m][Len(activities[m]) + 1].type = type
              /\ activities'[m][Len(activities[m]) + 1].at = clock
              /\ activities'[m][Len(activities[m]) + 1].status = status
            BY ONLY <3>1, AddsEffect
        <3> QED
            BY <3>2
    <2> QED
        BY <2>2 DEF Grows
<1>5. \A i \in DOMAIN matters : Told(i)' = Told(i)
    BY <1>1, <1>3, AddsTells DEF IInv, WebInv
<1>6. \A i : (Untold(i)' <=> Untold(i)) /\ (Stands(i)' <=> Stands(i))
    BY <1>1 DEF Untold, Stands
<1>7. WebInv'
    <2>1. WebTypeOK' /\ Bounded'
        BY <1>1, <1>4 DEF IInv, WebInv, WebTypeOK, Bounded
    <2>2. RequestsKnow' /\ OneRecords' /\ EndedGone' /\ Dated'
        BY <1>1 DEF IInv, WebInv, RequestsKnow, OneRecords, EndedGone, Dated
    <2>3. StatusIsTold'
        BY <1>1, <1>5, <1>6 DEF IInv, WebInv, StatusIsTold
    <2> QED
        BY <2>1, <2>2, <2>3 DEF WebInv
<1>8. /\ todo' \in Seq(Listing)' /\ scan' \in {"idle", "look"} /\ now' \in 0..MaxTime
      /\ PassShape' /\ RowsDated' /\ LookStands'
    BY <1>1, <1>2, RestStands, ContinuesEffect
<1>9. TypeOK'
    <2>1. overtaken' \subseteq (DOMAIN matters') \X Nat /\ unseen' \subseteq (DOMAIN matters') \X Nat
        BY <1>1, <1>3 DEF IInv, TypeOK
    <2> QED
        BY <1>1, <1>7, <1>8, <2>1 DEF TypeOK, WebInv
<1>10. RowsStand'
    <2>1. todo' = Tail(todo) /\ (Tail(todo) # <<>> => now' = now)
        BY <1>1 DEF Continues
    <2> SUFFICES ASSUME NEW j \in DOMAIN Tail(todo), NEW i, i = Tail(todo)[j].id
                 PROVE  Stands(i)' \/ HeardSince(i)'
        BY <2>1 DEF RowsStand
    <2>2. now' = now
        BY <2>1
    <2>3. i \in DOMAIN matters /\ (Stands(i) \/ HeardSince(i))
        BY <1>2, TodoType, RestStands DEF IInv
    <2>4. CASE i = m
        <3>1. activities'[m][Len(activities'[m])].at >= now /\ activities'[m] # <<>>
            BY <1>3, <1>4 DEF Grows
        <3> QED
            BY <2>2, <2>4, <3>1 DEF HeardSince
    <2>5. CASE i # m
        <3>1. activities'[i] = activities[i]
            BY <1>4, <2>3, <2>5
        <3> QED
            BY <1>6, <2>2, <2>3, <3>1 DEF HeardSince
    <2> QED
        BY <2>4, <2>5
<1>11. NudgesDeserved'
    <2> SUFFICES ASSUME NEW i \in DOMAIN matters, NEW k \in DOMAIN activities'[i],
                        activities'[i][k].type = "nudge", <<i, k>> \notin overtaken'
                 PROVE  /\ HeardBefore(i, k)' + Threshold <= activities'[i][k].at
                        /\ activities'[i][k].status \in Active \/ <<i, k>> \in unseen'
        BY <1>1 DEF NudgesDeserved
    <2> DEFINE n == Len(activities[m])
    <2>1. <<i, k>> \notin overtaken
        BY <1>1
    <2>2. CASE i = m /\ k = n + 1
        <3>1. ~ (n > looked) /\ (Untold(m) => <<i, k>> \in unseen')
            BY <1>1, <2>2
        <3>2. /\ looked <= n
              /\ looked = 0 => matters[m].created + Threshold <= now
              /\ looked > 0 => activities[m][looked].at + Threshold <= now
              /\ Stands(m)
            BY <1>1, <3>1 DEF IInv, LookStands
        <3>3. activities'[m][k].status \in Active \/ <<i, k>> \in unseen'
            BY <1>4, <2>2, <3>1, <3>2 DEF Stands
        <3>4. ASSUME k # 1
              PROVE  HeardBefore(m, k)' + Threshold <= activities'[m][k].at
            <4>1. looked = n /\ n > 0 /\ n \in 1..n /\ k - 1 = n
                BY <1>3, <2>2, <3>1, <3>2, <3>4
            <4>2. activities'[m][n] = activities[m][n] /\ activities'[m][n + 1].at = clock
                BY <1>4, <4>1 DEF Grows
            <4>3. activities[m][n].at + Threshold <= now /\ activities[m][n].at \in Nat
                BY <1>3, <3>2, <4>1
            <4> QED
                BY <1>3, <2>2, <3>4, <4>1, <4>2, <4>3 DEF HeardBefore
        <3>5. ASSUME k = 1
              PROVE  HeardBefore(m, k)' + Threshold <= activities'[m][k].at
            <4>1. looked = 0 /\ n = 0
                BY <1>3, <2>2, <3>1, <3>2, <3>5
            <4>2. activities'[m][k].at = clock /\ HeardBefore(m, k)' = matters[m].created
                BY <1>1, <1>4, <2>2, <3>5 DEF Grows, HeardBefore
            <4> QED
                BY <1>3, <3>2, <4>1, <4>2
        <3> QED
            BY <2>2, <3>3, <3>4, <3>5
    <2>3. CASE ~ (i = m /\ k = n + 1)
        <3>1. /\ k \in DOMAIN activities[i] /\ activities'[i][k] = activities[i][k]
              /\ k > 1 => activities'[i][k - 1] = activities[i][k - 1]
              /\ k \in Nat /\ k > 0
            <4>1. CASE i # m
                <5>1. activities'[i] = activities[i]
                    BY <1>4, <4>1
                <5>2. k \in DOMAIN activities[i] /\ activities'[i][k] = activities[i][k]
                    BY <5>1
                <5>3. DOMAIN activities[i] = 1..Len(activities[i]) /\ Len(activities[i]) \in Nat
                    BY TablesType DEF IInv, WebInv
                <5>4. k \in Nat /\ k > 0
                    BY <5>2, <5>3
                <5> QED
                    BY <5>1, <5>2, <5>4
            <4>2. CASE i = m
                <5>1. k \in 1..(n + 1)
                    BY <1>3, <1>4, <4>2, LenProperties DEF Grows
                <5>2. k \in 1..n /\ (k > 1 => k - 1 \in 1..n)
                    BY <1>3, <2>3, <4>2, <5>1
                <5> QED
                    BY <1>3, <1>4, <4>2, <5>2 DEF Grows
            <4> QED
                BY <4>1, <4>2
        <3>2. HeardBefore(i, k)' = HeardBefore(i, k) /\ unseen \subseteq unseen'
            BY <1>1, <3>1 DEF HeardBefore
        <3> QED
            BY <2>1, <3>1, <3>2 DEF IInv, NudgesDeserved
    <2> QED
        BY <2>2, <2>3
<1> QED
    BY <1>7, <1>8, <1>9, <1>10, <1>11 DEF IInv

LEMMA PassEndsStep ==
    ASSUME IInv, PassEnds
    PROVE  IInv'
<1>1. /\ Continues(<<>>) /\ looked' = 0 /\ failures' \in 0..MaxFailures
      /\ UNCHANGED <<clock, matters, activities, accounts, sessions, pc, session, subject, wanted,
                     requests, ended, unlogged, overtaken, unseen>>
    BY BoundsAreNumbers DEF PassEnds, Fail, web, IInv, TypeOK, WebTypeOK
<1>2. WebInv'
    <2>1. WebTypeOK' /\ Bounded'
        BY <1>1 DEF IInv, WebInv, WebTypeOK, Bounded
    <2>2. RequestsKnow' /\ OneRecords' /\ EndedGone' /\ Dated'
        BY <1>1 DEF IInv, WebInv, RequestsKnow, OneRecords, EndedGone, Dated
    <2>3. StatusIsTold'
        <3>1. \A m : Told(m)' = Told(m) /\ (Untold(m)' <=> Untold(m))
            BY <1>1 DEF Told, Untold
        <3> QED
            BY <1>1, <3>1 DEF IInv, WebInv, StatusIsTold
    <2> QED
        BY <2>1, <2>2, <2>3 DEF WebInv
<1>3. /\ todo' \in Seq(Listing)' /\ scan' \in {"idle", "look"} /\ now' \in 0..MaxTime
      /\ PassShape' /\ RowsDated' /\ LookStands'
    <2>1. <<>> \in Seq(Listing) /\ DOMAIN <<>> = {}
        BY EmptySeq
    <2> QED
        BY <1>1, <2>1, ContinuesEffect
<1>4. TypeOK' /\ RowsStand' /\ NudgesDeserved'
    BY <1>1, <1>2, <1>3 DEF IInv, TypeOK, RowsStand, NudgesDeserved, HeardBefore, Continues, WebInv
<1> QED
    BY <1>2, <1>3, <1>4 DEF IInv

LEMMA NextStep == IInv /\ [Next]_vars => IInv'
<1> SUFFICES ASSUME IInv, [Next]_vars PROVE IInv'
    OBVIOUS
<1>1. CASE UNCHANGED vars
    <2>1. UNCHANGED webVars /\ UNCHANGED <<scan, todo, now, looked, overtaken, unseen>>
        BY <1>1 DEF vars, pass
    <2>2. activities' = activities /\ matters' = matters /\ clock' = clock
        BY <2>1 DEF webVars
    <2>3. TypeOK' /\ PassShape' /\ RowsDated'
        BY <2>1, <2>2, WebUntouched DEF IInv, TypeOK, WebInv, PassShape, RowsDated, DatedRow
    <2>4. RowsStand' /\ LookStands'
        <3>1. Matter1' = Matter1 /\ \A m : (Stands(m)' <=> Stands(m)) /\ (HeardSince(m)' <=> HeardSince(m))
            BY <2>1, <2>2, WebUntouched DEF Matter1, HeardSince
        <3>2. Stands(Matter1)' <=> Stands(Matter1)
            BY <2>1, <2>2 DEF Stands, Untold, Matter1, webVars, web
        <3>3. LookStands'
            BY <2>1, <2>2, <3>1, <3>2 DEF IInv, LookStands
        <3>4. \A i \in DOMAIN todo : Stands(todo[i].id)' \/ HeardSince(todo[i].id)'
            <4> SUFFICES ASSUME NEW i \in DOMAIN todo
                         PROVE  Stands(todo[i].id)' \/ HeardSince(todo[i].id)'
                OBVIOUS
            <4>1. Stands(todo[i].id) \/ HeardSince(todo[i].id)
                BY DEF IInv, RowsStand
            <4> QED
                BY <2>1, <2>2, <4>1 DEF Stands, Untold, HeardSince, webVars, web
        <3> QED
            BY <2>1, <3>3, <3>4 DEF RowsStand
    <2> QED
        BY <2>1, <2>3, <2>4, WebUntouched DEF IInv
<1>2. CASE WebNext /\ UNCHANGED pass
    BY <1>2, WebBesidePass
<1>3. CASE Detects
    BY <1>3, ListNewStep, ListInProgressStep, SkipRecentStep, FindStaleStep, NudgeStep DEF Detects
<1>4. CASE PassEnds
    BY <1>4, PassEndsStep
<1> QED
    BY <1>1, <1>2, <1>3, <1>4 DEF Next
-----------------------------------------------------------------------------
(* The strengthened invariant holds in every reachable state.              *)
THEOREM Invariance == Spec => []IInv
<1>1. Init => IInv
    BY InitIInv
<1>2. IInv /\ [Next]_vars => IInv'
    BY NextStep
<1> QED
    BY <1>1, <1>2, PTL DEF Spec

(* Every variable keeps its type.                                          *)
THEOREM TypeCorrect == Spec => []TypeOK
<1>1. IInv => TypeOK
    BY DEF IInv
<1> QED
    BY <1>1, Invariance, PTL

(* The activities of a matter tell the status in its row, whatever is      *)
(* requested at once, unless update_status was cut off between its two     *)
(* store calls or is between them.                                         *)
THEOREM StatusAlwaysTold == Spec => []StatusIsTold
<1>1. IInv => StatusIsTold
    BY DEF IInv, WebInv
<1> QED
    BY <1>1, Invariance, PTL

(* Every nudge was deserved when it was added, also one that is the first  *)
(* activity of its matter: detect_stale_matters works on rows it listed    *)
(* before, and others act between any two of its steps.                    *)
THEOREM NudgesAlwaysDeserved == Spec => []NudgesDeserved
<1>1. IInv => NudgesDeserved
    BY DEF IInv
<1> QED
    BY <1>1, Invariance, PTL

(* The middleware lets no request in with a session that was logged out or *)
(* refused as expired (resolve_session_user).                              *)
THEOREM SessionsStayEnded == Spec => EndedSessionsStayEnded
<1> DEFINE Lets == \A r \in Requests :
                       pc[r] = "idle" /\ pc'[r] = "handler" => session'[r] \notin ended
<1>1. IInv /\ [Next]_vars => [Lets]_webVars
    <2> SUFFICES ASSUME IInv, Next, NEW r \in Requests, pc[r] = "idle", pc'[r] = "handler"
                 PROVE  session'[r] \notin ended
        BY DEF vars
    <2>1. pc \in [Requests -> {"idle", "handler", "record"}]
          /\ session \in [Requests -> 0..MaxSessions]
        BY DEF IInv, TypeOK, WebTypeOK
    <2>2. PICK q \in Requests, s \in DOMAIN sessions : Arrive(q, s)
        <3>1. pc' # pc
            BY <2>1
        <3>2. ~ UNCHANGED web /\ WebNext
            BY <3>1 DEF Next, Detects, ListNew, ListInProgress, SkipRecent, FindStale, Nudge,
                        PassEnds, webVars, web
        <3>3. ~ Tick /\ ~ MatterArrives /\ ~ \E u \in Users : CreateUser(u) \/ DeleteUser(u) \/ Login(u)
            BY <3>1 DEF Tick, MatterArrives, CreateUser, DeleteUser, Login, account, web
        <3>4. ~ WebDies /\ ~ \E s \in DOMAIN sessions : RefuseExpired(s)
            BY <2>1, <3>1 DEF WebDies, RefuseExpired
        <3>5. ASSUME NEW q \in Requests,
                     \/ Logout(q) \/ CreateMatterSubmit(q) \/ RecordStatus(q)
                     \/ UserMissing(q) \/ RequestRaises(q)
                     \/ \E m \in DOMAIN matters :
                            PostComment(q, m) \/ \E status \in Statuses : UpdateMatter(q, m, status)
              PROVE  FALSE
            <4>1. pc' = [pc EXCEPT ![q] = "idle"] \/ pc' = [pc EXCEPT ![q] = "record"]
                BY <3>5 DEF Logout, CreateMatterSubmit, RecordStatus, UserMissing, RequestRaises,
                            PostComment, UpdateMatter, Ends
            <4> QED
                BY <2>1, <4>1
        <3> QED
            BY <3>2, <3>3, <3>4, <3>5 DEF WebNext
    <2>3. /\ sessions[s].stored
          /\ pc' = [pc EXCEPT ![q] = "handler"] /\ session' = [session EXCEPT ![q] = s]
        BY <2>2 DEF Arrive, Valid
    <2>4. q = r /\ session'[r] = s
        BY <2>1, <2>3
    <2> QED
        BY <2>3, <2>4 DEF IInv, WebInv, EndedGone
<1> QED
    BY <1>1, Invariance, PTL DEF Spec, EndedSessionsStayEnded
=============================================================================
