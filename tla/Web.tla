--------------------------------- MODULE Web ---------------------------------
(***************************************************************************)
(* The web application (matteros/web/app.py, auth.py) over the tables      *)
(* users (matteros/team/users.py), sessions, matters and activities        *)
(* (matteros/matters/store.py).                                            *)
(*                                                                         *)
(* The application is one process with one event loop.  A request passes   *)
(* the session middleware, waits for its form and is handled; the store    *)
(* calls of a handler follow each other without an await, so other         *)
(* requests come between the middleware and the handler only.  Other       *)
(* processes, which manage users and create matters, come between any two  *)
(* store calls, each of which is a transaction.                            *)
(*                                                                         *)
(* Pages that only read are left out, and so are roles: every valid one    *)
(* may do what is modelled.                                                *)
(***************************************************************************)
EXTENDS Integers, SequencesExt, FiniteSetsExt

CONSTANTS
    Users,
    Nobody,         \* actor_id or assignee_id is NULL
    Statuses,       \* valid_statuses
    Requests,       \* requests under way at a time
    SessionTime,    \* SESSION_DURATION_HOURS, in ticks
    MaxSessions,    \* bound on logins
    MaxRequests,    \* bound on requests that pass the middleware
    MaxMatters,     \* bound on the rows of matters
    MaxTime,        \* bound on the clock
    MaxFailures     \* bound on store calls that raise and on deaths

ASSUME WebAssumption ==
    /\ Nobody \notin Users
    /\ Statuses \subseteq {"new", "in_progress", "on_hold", "resolved"} /\ "new" \in Statuses
    /\ {SessionTime, MaxSessions, MaxRequests, MaxMatters, MaxTime, MaxFailures} \subseteq Nat

Matter == [status : Statuses, assignee : Users \cup {Nobody}, created : 0..MaxTime,
           updated : 0..MaxTime]
Session == [user : Users, expires : Nat, stored : BOOLEAN]

(* The status of an entry that is no status_change is history: the         *)
(* matter's at that moment.                                                *)
Activity == [type : {"comment", "status_change", "nudge"}, actor : Users \cup {Nobody},
             at : 0..MaxTime, status : Statuses]

VARIABLES
    clock,
    accounts,       \* accounts[u]: is there a row of users, is it deleted
    sessions,       \* sessions by id, with those whose row is deleted
    matters,        \* rows of matters, oldest first; the position of a row is its id
    activities,     \* activities[m]: those of matter m, oldest first
    pc,             \* pc[r]: what request r does next
    session,        \* session[r]: the session it came with
    subject,        \* subject[r]: the matter whose status it has updated
    wanted,         \* wanted[r]: the status it has set
    requests, failures,
    ended,          \* history: sessions logged out or refused as expired
    unlogged        \* history: matters with a status no activity tells of

web == <<accounts, sessions, pc, session, subject, wanted, requests, ended, unlogged>>
webVars == <<clock, matters, activities, failures, web>>

WebTypeOK ==
    /\ clock \in 0..MaxTime
    /\ accounts \in [Users -> {"none", "present", "deleted"}]
    /\ sessions \in Seq(Session)
    /\ matters \in Seq(Matter)
    /\ activities \in Seq(Seq(Activity)) /\ Len(activities) = Len(matters)
    /\ pc \in [Requests -> {"idle", "handler", "record"}]
    /\ session \in [Requests -> 0..MaxSessions]
    /\ subject \in [Requests -> 0..MaxMatters]
    /\ wanted \in [Requests -> Statuses]
    /\ requests \in 0..MaxRequests /\ failures \in 0..MaxFailures
    /\ ended \subseteq DOMAIN sessions /\ unlogged \subseteq DOMAIN matters

WebInit ==
    /\ clock = 0
    /\ accounts = [u \in Users |-> "none"]
    /\ sessions = <<>> /\ matters = <<>> /\ activities = <<>>
    /\ pc = [r \in Requests |-> "idle"]
    /\ session = [r \in Requests |-> 0] /\ subject = session
    /\ wanted = [r \in Requests |-> "new"]
    /\ requests = 0 /\ failures = 0
    /\ ended = {} /\ unlogged = {}

Fail == failures < MaxFailures /\ failures' = failures + 1

Tick ==
    /\ clock < MaxTime
    /\ clock' = clock + 1
    /\ UNCHANGED <<matters, activities, failures, web>>

(* MatterStore.add_activity.                                               *)
Adds(m, type, actor, status) ==
    activities' = [activities EXCEPT ![m] = Append(@,
        [type |-> type, actor |-> actor, at |-> clock, status |-> status])]

(* Mutation: a status the rest of the code does not know.                  *)
CreatesOpen(assignee) ==
    /\ Len(matters) < MaxMatters
    /\ matters' = Append(matters, [status |-> "open", assignee |-> assignee,
                                   created |-> clock, updated |-> clock])
    /\ activities' = Append(activities, <<>>)

(* MatterStore.create_matter.                                              *)
Creates(assignee) ==
    /\ Len(matters) < MaxMatters
    /\ matters' = Append(matters, [status |-> "new", assignee |-> assignee,
                                   created |-> clock, updated |-> clock])
    /\ activities' = Append(activities, <<>>)
-----------------------------------------------------------------------------
(***************************************************************************)
(* Other processes                                                         *)
(***************************************************************************)
account == <<clock, matters, activities, failures, sessions, pc, session, subject, wanted,
             requests, ended, unlogged>>

(* UserManager.create_user, with a role it accepts.                        *)
CreateUser(u) ==
    /\ accounts[u] = "none"
    /\ accounts' = [accounts EXCEPT ![u] = "present"]
    /\ UNCHANGED account

(* UserManager.delete_user.  Foreign keys are on: it raises while a        *)
(* session, a matter or an activity refers to the user.                    *)
DeleteUser(u) ==
    /\ accounts[u] = "present"
    /\ \A s \in DOMAIN sessions : sessions[s].stored => sessions[s].user # u
    /\ \A m \in DOMAIN matters :
           /\ matters[m].assignee # u
           /\ \A k \in DOMAIN activities[m] : activities[m][k].actor # u
    /\ accounts' = [accounts EXCEPT ![u] = "deleted"]
    /\ UNCHANGED account

(* A matter comes in by the intake, with no assignee.                      *)
MatterArrives ==
    /\ Creates(Nobody)
    /\ UNCHANGED <<clock, failures, web>>
-----------------------------------------------------------------------------
(***************************************************************************)
(* Requests                                                                *)
(***************************************************************************)
(* Mutation: handlers are plain functions, which run in a pool of threads. *)
InThreads == TRUE

(* A handler between two store calls keeps the event loop.                 *)
LoopFree == \A r \in Requests : pc[r] # "record"

(* login_submit with the right password: handle_login, create_session.     *)
Login(u) ==
    /\ LoopFree
    /\ accounts[u] = "present" /\ Len(sessions) < MaxSessions
    /\ sessions' = Append(sessions,
           [user |-> u, expires |-> clock + SessionTime, stored |-> TRUE])
    /\ UNCHANGED <<clock, matters, activities, failures, accounts, pc, session, subject, wanted,
                   requests, ended, unlogged>>

Valid(s) == sessions[s].stored /\ clock <= sessions[s].expires

(* _session_middleware lets the request through; it waits for its form.    *)
Arrive(r, s) ==
    /\ LoopFree
    /\ pc[r] = "idle" /\ requests < MaxRequests
    /\ Valid(s) /\ accounts[sessions[s].user] = "present"
    /\ pc' = [pc EXCEPT ![r] = "handler"]
    /\ session' = [session EXCEPT ![r] = s]
    /\ requests' = requests + 1
    /\ UNCHANGED <<clock, matters, activities, failures, accounts, sessions, subject,
                   wanted, ended, unlogged>>

(* resolve_session_user finds the session expired and deletes its row; the *)
(* request is sent to the login page.                                      *)
RefuseExpired(s) ==
    /\ LoopFree
    /\ sessions[s].stored /\ clock > sessions[s].expires
    /\ sessions' = [sessions EXCEPT ![s].stored = FALSE]
    /\ ended' = ended \cup {s}
    /\ UNCHANGED <<clock, matters, activities, failures, accounts, pc, session, subject, wanted,
                   requests, unlogged>>

(* The response is sent, or the error that takes its place.                *)
Ends(r) ==
    /\ pc' = [pc EXCEPT ![r] = "idle"]
    /\ session' = [session EXCEPT ![r] = 0]
    /\ subject' = [subject EXCEPT ![r] = 0]
    /\ wanted' = [wanted EXCEPT ![r] = "new"]

others == <<clock, failures, accounts, requests>>

Handles(r) == LoopFree /\ pc[r] = "handler"
User(r) == sessions[session[r]].user
ForeignKeyHolds(r) == accounts[User(r)] = "present"

(* Mutation: the cookie is deleted and the row is left to expire.          *)
LogoutCookieOnly(r) ==
    /\ Handles(r)
    /\ ended' = ended \cup {session[r]}
    /\ Ends(r)
    /\ UNCHANGED <<others, sessions, matters, activities, unlogged>>

Logout(r) ==
    /\ Handles(r)
    /\ sessions' = [sessions EXCEPT ![session[r]].stored = FALSE]
    /\ ended' = ended \cup {session[r]}
    /\ Ends(r)
    /\ UNCHANGED <<others, matters, activities, unlogged>>

CreateMatterSubmit(r) ==
    /\ Handles(r)
    /\ ForeignKeyHolds(r) /\ Creates(User(r))
    /\ Ends(r)
    /\ UNCHANGED <<others, sessions, ended, unlogged>>

PostComment(r, m) ==
    /\ Handles(r)
    /\ ForeignKeyHolds(r) /\ Adds(m, "comment", User(r), matters[m].status)
    /\ Ends(r)
    /\ UNCHANGED <<others, sessions, matters, ended, unlogged>>

(* update_status: update_matter, then add_activity.                        *)
UpdateMatter(r, m, status) ==
    /\ Handles(r)
    /\ matters' = [matters EXCEPT ![m].status = status, ![m].updated = clock]
    /\ subject' = [subject EXCEPT ![r] = m]
    /\ wanted' = [wanted EXCEPT ![r] = status]
    /\ pc' = [pc EXCEPT ![r] = "record"]
    /\ UNCHANGED <<others, sessions, activities, session, ended, unlogged>>

RecordStatus(r) ==
    /\ pc[r] = "record" /\ ForeignKeyHolds(r)
    /\ Adds(subject[r], "status_change", User(r), wanted[r])
    /\ unlogged' = unlogged \ {subject[r]}
    /\ Ends(r)
    /\ UNCHANGED <<others, sessions, matters, ended>>

(* A row of the user the request came with is gone, so the insert raises.  *)
UserMissing(r) ==
    /\ pc[r] \in {"handler", "record"} /\ ~ ForeignKeyHolds(r)
    /\ pc[r] = "handler" => LoopFree
    /\ unlogged' = IF pc[r] = "record" THEN unlogged \cup {subject[r]} ELSE unlogged
    /\ Ends(r)
    /\ UNCHANGED <<others, sessions, matters, activities, ended>>

(* The store raises (it is locked), or the client goes away.               *)
RequestRaises(r) ==
    /\ Fail
    /\ pc[r] # "idle"
    /\ pc[r] = "handler" => LoopFree
    /\ unlogged' = IF pc[r] = "record" THEN unlogged \cup {subject[r]} ELSE unlogged
    /\ Ends(r)
    /\ UNCHANGED <<clock, accounts, requests, sessions, matters, activities, ended>>

(* The process of the application dies with all its requests.              *)
WebDies ==
    /\ Fail
    /\ \E r \in Requests : pc[r] # "idle"
    /\ pc' = [r \in Requests |-> "idle"]
    /\ session' = [r \in Requests |-> 0] /\ subject' = session'
    /\ wanted' = [r \in Requests |-> "new"]
    /\ unlogged' = unlogged \cup {subject[r] : r \in {q \in Requests : pc[q] = "record"}}
    /\ UNCHANGED <<clock, accounts, requests, sessions, matters, activities, ended>>

WebNext ==
    \/ Tick \/ MatterArrives \/ WebDies
    \/ \E u \in Users : CreateUser(u) \/ DeleteUser(u) \/ Login(u)
    \/ \E s \in DOMAIN sessions : RefuseExpired(s) \/ \E r \in Requests : Arrive(r, s)
    \/ \E r \in Requests :
        \/ Logout(r) \/ CreateMatterSubmit(r)
        \/ RecordStatus(r) \/ UserMissing(r) \/ RequestRaises(r)
        \/ \E m \in DOMAIN matters :
               PostComment(r, m) \/ \E status \in Statuses : UpdateMatter(r, m, status)
-----------------------------------------------------------------------------
(* The status of matter m by what its activities say.                      *)
Told(m) ==
    LET changes == {i \in DOMAIN activities[m] : activities[m][i].type = "status_change"}
    IN  IF changes = {} THEN "new" ELSE activities[m][Max(changes)].status

(* A status change of matter m has no activity (yet): its request is       *)
(* between its two store calls or ended there.                             *)
Untold(m) == m \in unlogged \/ \E r \in Requests : pc[r] = "record" /\ subject[r] = m

(* The activities of a matter tell its status: the last status change of   *)
(* two at once is the one in the row.  Exceptions are a request between    *)
(* its two store calls and one that ended there (update_status).           *)
StatusIsTold == \A m \in DOMAIN matters : matters[m].status = Told(m) \/ Untold(m)

(* No request gets in with a session that was logged out or was refused    *)
(* before, though one that got in earlier is still handled.                *)
EndedSessionsStayEnded ==
    [][\A r \in Requests :
           pc[r] = "idle" /\ pc'[r] = "handler" => session'[r] \notin ended]_webVars
=============================================================================
