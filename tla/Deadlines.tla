------------------------------ MODULE Deadlines ------------------------------
(***************************************************************************)
(* Deadlines of matters: check_deadlines (matteros/automation/deadlines.py *)
(* with state.py and notify.py) over the deadlines, activities, matters    *)
(* and automation_state tables (matteros/matters/store.py), with people    *)
(* creating and completing deadlines meanwhile.                            *)
(*                                                                         *)
(* A pass of check_deadlines works on the list of pending deadlines it     *)
(* read at its start and on the clock it read then; every store call it    *)
(* makes is a transaction of its own.  A store call that raises ends the   *)
(* pass, as does a crash; AutomationEngine.run_once starts the next one.   *)
(*                                                                         *)
(* Time is counted in days.  A due_date is the rank of its text among the  *)
(* texts of the days 0..MaxDay: a text that is no date sorts before all of *)
(* them (-1) or after (MaxDay + 1).                                        *)
(***************************************************************************)
EXTENDS Integers, Sequences, FiniteSets

CONSTANTS
    Matters,        \* matter ids
    Windows,        \* alert_windows_days
    Missed,         \* the kind of the alert of a missed deadline
    Periods,        \* days between the occurrences of a recurring deadline
    MaxDay,         \* bound on the clock and on due dates
    MaxDeadlines,   \* bound on the rows of deadlines
    MaxAborts       \* bound on the passes that raise or crash

ASSUME WindowsAssumption == Windows \subseteq Nat /\ Missed \notin Windows

ASSUME BoundsAssumption ==
    {MaxDay, MaxDeadlines, MaxAborts} \subseteq Nat /\ Periods \subseteq Nat \ {0}

Days == 0..MaxDay
Parses(due) == due \in Days             \* date.fromisoformat does not raise
Kinds == Windows \cup {Missed}
Ids == 1..MaxDeadlines
Once == 0                               \* recurring is NULL

Deadline == [matter : Matters, due : -1..(MaxDay + 1), every : Periods \cup {Once},
             status : {"pending", "completed", "missed"}]

VARIABLES
    today,
    deadlines,      \* the rows by id; deleted never
    activities,     \* activities[d][k]: deadline_update activities of kind k for d
    keys,           \* automation_state: deadline_alert:{deadline}:{kind}
    pc,             \* where the pass is
    todo,           \* ids it has still to look at, the current one first
    now,            \* the day the pass started
    kind,           \* the alert it is about to make
    aborts,         \* passes that ended early
    unkeyed,        \* history: alerts recorded whose dedup key was never set
    unheard         \* history: deadlines marked missed by a pass that then ended

store == <<deadlines, activities, keys>>
pass == <<pc, todo, now, kind>>
history == <<aborts, unkeyed, unheard>>
vars == <<today, store, pass, history>>

TypeOK ==
    /\ today \in Days
    /\ deadlines \in Seq(Deadline)
    /\ activities \in [Ids -> [Kinds -> Nat]]
    /\ keys \subseteq Ids \X Kinds
    /\ pc \in {"idle", "next", "mark", "tell", "key"}
    /\ todo \in Seq(Ids)
    /\ now \in Days
    /\ kind \in Kinds
    /\ aborts \in 0..MaxAborts
    /\ unkeyed \in [Ids -> [Kinds -> Nat]]
    /\ unheard \subseteq Ids

Init ==
    /\ today = 0
    /\ deadlines = <<>>
    /\ activities = [d \in Ids |-> [k \in Kinds |-> 0]]
    /\ keys = {}
    /\ pc = "idle"
    /\ todo = <<>>
    /\ now = 0
    /\ kind = Missed
    /\ aborts = 0
    /\ unkeyed = activities
    /\ unheard = {}
-----------------------------------------------------------------------------
(***************************************************************************)
(* People and time                                                         *)
(***************************************************************************)
Tick ==
    /\ today < MaxDay
    /\ today' = today + 1
    /\ UNCHANGED <<store, pass, history>>

(* MatterStore.create_deadline: the due date is stored as it is given.     *)
CreateDeadline ==
    /\ Len(deadlines) < MaxDeadlines
    /\ \E m \in Matters, due \in -1..(MaxDay + 1), every \in Periods \cup {Once} :
           deadlines' = Append(deadlines,
               [matter |-> m, due |-> due, every |-> every, status |-> "pending"])
    /\ UNCHANGED <<today, activities, keys, pass, history>>

(* MatterStore.complete_deadline, whatever the status was; the next        *)
(* occurrence of a recurring deadline is inserted in the same transaction, *)
(* which _advance_date undoes by raising if the due date is no date.       *)
CompleteDeadline(d) ==
    LET row == deadlines[d]
        completed == [deadlines EXCEPT ![d].status = "completed"]
    IN  /\ \/ row.every = Once /\ deadlines' = completed
           \/ /\ row.every # Once /\ Parses(row.due)
              /\ Len(deadlines) < MaxDeadlines /\ row.due + row.every <= MaxDay
              /\ deadlines' = Append(completed,
                     [row EXCEPT !.due = @ + row.every, !.status = "pending"])
        /\ UNCHANGED <<today, activities, keys, pass, history>>
-----------------------------------------------------------------------------
(***************************************************************************)
(* A pass of check_deadlines                                               *)
(***************************************************************************)
Pending == {d \in DOMAIN deadlines : deadlines[d].status = "pending"}

(* list_all_pending_deadlines: ORDER BY due_date, which leaves open how     *)
(* rows due on the same day follow each other.                             *)
PendingByDue ==
    {ids \in [1..Cardinality(Pending) -> Pending] :
        \A i, j \in DOMAIN ids :
            i < j => ids[i] # ids[j] /\ deadlines[ids[i]].due <= deadlines[ids[j]].due}

StartPass ==
    /\ pc = "idle"
    /\ todo' \in PendingByDue
    /\ now' = today
    /\ pc' = "next"
    /\ UNCHANGED <<today, store, kind, history>>

Current == Head(todo)
Due == deadlines[Current].due

(* Mutation: the dedup key of any window is taken for that of Missed.      *)
OverdueUnlessAlerted == Due < now /\ \A w \in Windows : <<Current, w>> \notin keys

Overdue == Due < now

NextDeadline ==
    /\ todo' = Tail(todo)
    /\ pc' = "next"
    /\ kind' = Missed

(* check_deadlines is left; its local variables are gone.                  *)
Leave ==
    /\ pc' = "idle"
    /\ todo' = <<>>
    /\ now' = 0
    /\ kind' = Missed

(* The windows the deadline has entered and was not alerted for.           *)
DueWindows == {w \in Windows : Due - now <= w /\ <<Current, w>> \notin keys}

(* sorted(alert_windows_days, reverse=True), left at the first alert: the  *)
(* widest of the windows, if there is one.                                 *)
Widest(windows) == {w \in windows : \A v \in windows : v <= w}

Examine ==
    /\ pc = "next" /\ todo # <<>> /\ Parses(Due)
    /\ \/ /\ Overdue /\ <<Current, Missed>> \notin keys
          /\ kind' = Missed /\ pc' = "mark" /\ UNCHANGED todo
       \/ /\ ~ Overdue /\ DueWindows # {}
          /\ kind' \in Widest(DueWindows) /\ pc' = "tell" /\ UNCHANGED todo
       \/ /\ IF Overdue THEN <<Current, Missed>> \in keys ELSE DueWindows = {}
          /\ NextDeadline
    /\ UNCHANGED <<today, store, now, history>>

EndPass ==
    /\ pc = "next" /\ todo = <<>>
    /\ Leave
    /\ UNCHANGED <<today, store, history>>

(* Mutation: the status the design calls "overdue" is stored.              *)
MarkOverdue ==
    /\ pc = "mark"
    /\ deadlines' = [deadlines EXCEPT ![Current].status = "overdue"]
    /\ pc' = "tell"
    /\ UNCHANGED <<today, activities, keys, todo, now, kind, history>>

(* MatterStore.mark_deadline_missed: UPDATE ... WHERE id = ?, whatever the *)
(* status is by now.                                                       *)
MarkMissed ==
    /\ pc = "mark"
    /\ deadlines' = [deadlines EXCEPT ![Current].status = "missed"]
    /\ pc' = "tell"
    /\ UNCHANGED <<today, activities, keys, todo, now, kind, history>>

(* add_activity, and the Slack message after it, whose failure             *)
(* send_slack_alert swallows.                                              *)
AddActivity ==
    /\ pc = "tell"
    /\ activities' = [activities EXCEPT ![Current][kind] = @ + 1]
    /\ pc' = "key"
    /\ UNCHANGED <<today, deadlines, keys, todo, now, kind, history>>

(* Mutation: the dedup key does not name the window.                       *)
SetKeyOfDeadline ==
    /\ pc = "key"
    /\ keys' = keys \cup ({Current} \X Kinds)
    /\ NextDeadline
    /\ UNCHANGED <<today, deadlines, activities, now, history>>

(* AutomationState.set                                                     *)
SetKey ==
    /\ pc = "key"
    /\ keys' = keys \cup {<<Current, kind>>}
    /\ NextDeadline
    /\ UNCHANGED <<today, deadlines, activities, now, history>>

(* The pass ends at the exception of a store call, or the process dies.    *)
Abort ==
    /\ pc # "idle"
    /\ aborts < MaxAborts
    /\ aborts' = aborts + 1
    /\ unkeyed' = IF pc = "key"
                     THEN [unkeyed EXCEPT ![Current][kind] = @ + 1] ELSE unkeyed
    /\ unheard' = IF pc = "tell" /\ kind = Missed THEN unheard \cup {Current} ELSE unheard
    /\ Leave
    /\ UNCHANGED <<today, store>>

(* _parse_due raises on a due date that is no date, before anything is     *)
(* done about it or about the deadlines after it.                          *)
ParseRaises ==
    /\ pc = "next" /\ todo # <<>> /\ ~ Parses(Due)
    /\ Leave
    /\ UNCHANGED <<today, store, history>>

Check ==
    \/ StartPass  \/ Examine        \/ EndPass \/ ParseRaises
    \/ MarkMissed \/ AddActivity    \/ SetKey

Next ==
    \/ Tick \/ CreateDeadline \/ Check \/ Abort
    \/ \E d \in DOMAIN deadlines : CompleteDeadline(d)

(* Whoever runs the automation engine runs it again and again (the daemon, *)
(* docs/superpowers/specs/2026-04-05-automation-engine-design.md).         *)
Spec == Init /\ [][Next]_vars /\ WF_vars(Check)
-----------------------------------------------------------------------------
InFlight(d, k) == pc = "key" /\ Current = d /\ kind = k

One(condition) == IF condition THEN 1 ELSE 0

(* "Same alert is not repeated across poll cycles" (the design document),  *)
(* as far as the code keeps it: the log of the matter has one activity per *)
(* deadline and kind of alert that is keyed or being made, and one more    *)
(* for every pass that ended between the activity and its key; so no key   *)
(* ever suppresses an alert that was not recorded.                         *)
AlertsAccounted ==
    \A d \in Ids, k \in Kinds :
        activities[d][k] = One(<<d, k>> \in keys) + unkeyed[d][k] + One(InFlight(d, k))

(* A deadline that was alerted for some window had its alert for every     *)
(* wider one first, however late it was created and however passes ended.  *)
WidestWindowFirst ==
    \A d \in Ids, w \in Windows : activities[d][w] > 0 =>
        \A v \in Windows : v > w => <<d, v>> \in keys

(* A missed deadline is past its due date and its matter says so, once,    *)
(* except while the pass is about to add the activity or when a pass ended *)
(* just there: nobody looks at the deadline again, as it is not pending.   *)
MissedIsTold ==
    \A d \in DOMAIN deadlines : deadlines[d].status = "missed" =>
        /\ Parses(deadlines[d].due) /\ deadlines[d].due < today
        /\ \/ activities[d][Missed] = 1
           \/ activities[d][Missed] = 0 /\ d \in unheard
           \/ activities[d][Missed] = 0 /\ pc = "tell" /\ Current = d

(* The log of a matter accounts for its deadlines: every alert, in order,  *)
(* and every miss (check_deadlines).                                       *)
AlertsAndMissesTold == AlertsAccounted /\ WidestWindowFirst /\ MissedIsTold

(* A pending deadline whose due date has passed is marked or completed in  *)
(* the end, unless a pending one that sorts before it has a due date that  *)
(* is no date: that one ends every pass before it gets there.              *)
OverdueSettles ==
    \A d \in Ids :
        LET Is(e, status) == e \in DOMAIN deadlines /\ deadlines[e].status = status
            Blocked == \E e \in DOMAIN deadlines :
                /\ Is(e, "pending") /\ ~ Parses(deadlines[e].due)
                /\ deadlines[e].due < deadlines[d].due
        IN  Is(d, "pending") /\ Parses(deadlines[d].due) /\ deadlines[d].due < today
                ~> ~ Is(d, "pending") \/ Blocked
=============================================================================
