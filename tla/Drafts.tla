-------------------------------- MODULE Drafts --------------------------------
(***************************************************************************)
(* Drafts of time entries: DraftManager (matteros/drafts/manager.py) and   *)
(* FeedbackTracker (matteros/learning/feedback.py) under those who use     *)
(* them: the scheduler, which makes drafts of a run's suggestions and      *)
(* expires old ones (matteros/daemon/scheduler.py), and the CLI commands   *)
(* drafts approve, drafts reject and review (matteros/cli.py), each in a   *)
(* process of its own.                                                     *)
(*                                                                         *)
(* Every call of the manager or the tracker is a transaction; a command    *)
(* works on the rows it read at its start.  A call that raises ends the    *)
(* command, as does closing its terminal at a prompt.                      *)
(*                                                                         *)
(* Of an entry only two things are kept: whether its confidence reaches    *)
(* the threshold of --auto-approve, and who wrote it.                      *)
(***************************************************************************)
EXTENDS Integers, Sequences, FiniteSets

CONSTANTS
    Executions,     \* executions of the scheduler's jobs
    Clients,        \* terminals in which CLI commands are run
    Model,          \* the author of an entry no client has edited
    Limit,          \* review --limit
    MaxAge,         \* max_age_hours of the expiration loop, in ticks
    Suggestions,    \* what a run may suggest: for each entry, whether it is sure
    MaxDrafts,      \* bound on the rows of drafts
    MaxCommands,    \* bound on the commands run
    MaxTime,        \* bound on the clock
    MaxFailures     \* bound on calls that raise, deaths and cancellations

ASSUME BoundsAssumption ==
    /\ Limit \in Nat \ {0}
    /\ {MaxAge, MaxDrafts, MaxCommands, MaxTime, MaxFailures} \subseteq Nat
ASSUME EntriesAssumption == Model \notin Clients /\ Suggestions \subseteq Seq(BOOLEAN)

Entry == [sure : BOOLEAN, by : Clients \cup {Model}]
Status == {"pending", "approved", "rejected", "expired"}
Draft == [run : Executions, entry : Entry, status : Status, created : 0..MaxTime]
Actions == {"approved", "rejected", "edited"}

VARIABLES
    drafts,     \* the rows, oldest first; the position of a row is its id
    feedback,   \* feedback_log: its [draft, action] pairs
    run,        \* run[r]: where the scheduler is with execution r
    suggested,  \* suggested[r]: time_entry_suggestions of its summary
    pc,         \* pc[c]: what the command of client c does next
    todo,       \* todo[c]: ids it has still to go through, the current first
    read,       \* read[c]: the entries it read of them
    action,     \* action[c]: the feedback it is about to give
    auto,       \* auto[c]: review was called with --auto-approve
    clock,
    commands,
    failures,
    cut,        \* history: runs whose drafts were not all made
    unlogged,   \* history: drafts decided by a command that then ended
    halfEdited  \* history: drafts edited by a command that then ended

daemon == <<run, suggested, cut>>
command == <<pc, todo, read, action, auto, unlogged, halfEdited>>
vars == <<drafts, feedback, daemon, command, clock, commands, failures>>

TypeOK ==
    /\ drafts \in Seq(Draft)
    /\ feedback \subseteq [draft : DOMAIN drafts, action : Actions]
    /\ run \in [Executions -> {"executing", "creating", "ended"}]
    /\ suggested \in [Executions -> Suggestions \cup {<<>>}]
    /\ pc \in [Clients -> {"idle", "next", "edit", "decide", "log"}]
    /\ todo \in [Clients -> Seq(DOMAIN drafts)]
    /\ read \in [Clients -> Seq(Entry)] /\ \A c \in Clients : Len(read[c]) = Len(todo[c])
    /\ action \in [Clients -> Actions]
    /\ auto \in [Clients -> BOOLEAN]
    /\ clock \in 0..MaxTime /\ commands \in 0..MaxCommands /\ failures \in 0..MaxFailures
    /\ cut \subseteq Executions /\ unlogged \subseteq DOMAIN drafts /\ halfEdited \subseteq DOMAIN drafts

Init ==
    /\ drafts = <<>> /\ feedback = {}
    /\ run = [r \in Executions |-> "executing"]
    /\ suggested = [r \in Executions |-> <<>>]
    /\ pc = [c \in Clients |-> "idle"]
    /\ todo = [c \in Clients |-> <<>>] /\ read = todo
    /\ action = [c \in Clients |-> "approved"]
    /\ auto = [c \in Clients |-> FALSE]
    /\ clock = 0 /\ commands = 0 /\ failures = 0
    /\ cut = {} /\ unlogged = {} /\ halfEdited = {}

Fail == failures < MaxFailures /\ failures' = failures + 1

Tick ==
    /\ clock < MaxTime
    /\ clock' = clock + 1
    /\ UNCHANGED <<drafts, feedback, daemon, command, commands, failures>>
-----------------------------------------------------------------------------
(***************************************************************************)
(* The scheduler: _execute_job from the return of the run on               *)
(***************************************************************************)
(* The rows made of its suggestions so far.                                *)
Made(r) == {d \in DOMAIN drafts : drafts[d].run = r}

(* The run returns.  Drafts are made in one go of the event loop, so those *)
(* of two runs do not mix.                                                 *)
RunReturns(r) ==
    /\ run[r] = "executing" /\ \A q \in Executions : run[q] # "creating"
    /\ \E list \in Suggestions :
           /\ suggested' = [suggested EXCEPT ![r] = list]
           /\ run' = [run EXCEPT ![r] = IF list = <<>> THEN "ended" ELSE "creating"]
    /\ UNCHANGED <<drafts, feedback, cut, command, clock, commands, failures>>

(* remove_job or stop cancels the loop that awaits the run, which goes on  *)
(* in its thread and has its suggestions.                                  *)
RunAbandoned(r) ==
    /\ Fail
    /\ run[r] = "executing"
    /\ \E list \in Suggestions : suggested' = [suggested EXCEPT ![r] = list]
    /\ run' = [run EXCEPT ![r] = "ended"]
    /\ cut' = cut \cup {r}
    /\ UNCHANGED <<drafts, feedback, command, clock, commands>>

NextSuggestion(r) == suggested[r][Cardinality(Made(r)) + 1]

(* DraftManager.create_draft, for one suggestion after the other.          *)
CreateDraft(r) ==
    /\ run[r] = "creating" /\ Len(drafts) < MaxDrafts
    /\ drafts' = Append(drafts, [run |-> r, status |-> "pending", created |-> clock,
                                 entry |-> [sure |-> NextSuggestion(r), by |-> Model]])
    /\ run' = [run EXCEPT ![r] =
           IF Cardinality(Made(r)) + 1 = Len(suggested[r]) THEN "ended" ELSE "creating"]
    /\ UNCHANGED <<feedback, suggested, cut, command, clock, commands, failures>>

(* create_draft raises, which is logged, or the daemon dies: what is left  *)
(* of the suggestions gets no drafts.                                      *)
CreateRaises(r) ==
    /\ Fail
    /\ run[r] = "creating"
    /\ run' = [run EXCEPT ![r] = "ended"]
    /\ cut' = cut \cup {r}
    /\ UNCHANGED <<drafts, feedback, suggested, command, clock, commands>>

Old(d) == drafts[d].status = "pending" /\ drafts[d].created + MaxAge < clock

(* Mutation: whatever is old expires.                                      *)
ExpireAll ==
    /\ \E d \in DOMAIN drafts : Old(d)
    /\ drafts' = [d \in DOMAIN drafts |->
           IF drafts[d].created + MaxAge < clock
               THEN [drafts[d] EXCEPT !.status = "expired"] ELSE drafts[d]]
    /\ UNCHANGED <<feedback, daemon, command, clock, commands, failures>>

(* Mutation: one that somebody edited is left to that person.              *)
ExpireUnedited ==
    LET due == {d \in DOMAIN drafts : Old(d) /\ drafts[d].entry.by = Model} IN
    /\ due # {}
    /\ drafts' = [d \in DOMAIN drafts |->
           IF d \in due THEN [drafts[d] EXCEPT !.status = "expired"] ELSE drafts[d]]
    /\ UNCHANGED <<feedback, daemon, command, clock, commands, failures>>

(* expire_stale_drafts, one UPDATE.  When it raises nothing changes and    *)
(* the loop goes on.                                                       *)
Expire ==
    /\ \E d \in DOMAIN drafts : Old(d)
    /\ drafts' = [d \in DOMAIN drafts |->
           IF Old(d) THEN [drafts[d] EXCEPT !.status = "expired"] ELSE drafts[d]]
    /\ UNCHANGED <<feedback, daemon, command, clock, commands, failures>>
-----------------------------------------------------------------------------
(***************************************************************************)
(* The commands                                                            *)
(***************************************************************************)
others == <<clock, failures, daemon>>

Begins(c) ==
    /\ pc[c] = "idle"
    /\ commands < MaxCommands /\ commands' = commands + 1
    /\ UNCHANGED <<drafts, feedback, others, unlogged, halfEdited>>

Reads(c, ids) ==
    /\ todo' = [todo EXCEPT ![c] = ids]
    /\ read' = [read EXCEPT ![c] = [k \in DOMAIN ids |-> drafts[ids[k]].entry]]

Goto(c, label) == pc' = [pc EXCEPT ![c] = label]
Means(c, a) == action' = [action EXCEPT ![c] = a]

(* drafts approve: a draft that is not pending is refused.                 *)
DraftsApprove(c, d) ==
    /\ Begins(c)
    /\ drafts[d].status = "pending"
    /\ Reads(c, <<d>>) /\ Means(c, "approved") /\ Goto(c, "decide")
    /\ UNCHANGED auto

(* drafts reject does not look at the status.                              *)
DraftsReject(c, d) ==
    /\ Begins(c)
    /\ Reads(c, <<d>>) /\ Means(c, "rejected") /\ Goto(c, "decide")
    /\ UNCHANGED auto

(* list_drafts: ORDER BY created_at DESC LIMIT ?                           *)
Waiting == {d \in DOMAIN drafts : drafts[d].status = "pending"}

Newest == {d \in Waiting : Cardinality({e \in Waiting : e > d}) < Limit}

Listed ==
    {ids \in [1..Cardinality(Newest) -> Newest] :
        \A i, j \in DOMAIN ids : i < j => ids[i] > ids[j]}

Review(c) ==
    /\ Begins(c)
    /\ Waiting # {}
    /\ \E ids \in Listed : Reads(c, ids)
    /\ Goto(c, "next")
    /\ \E threshold \in BOOLEAN : auto' = [auto EXCEPT ![c] = threshold]
    /\ UNCHANGED action

Current(c) == Head(todo[c])
Seen(c) == Head(read[c])

(* The command is over; its local variables are gone.                      *)
Ends(c) ==
    /\ Goto(c, "idle") /\ Reads(c, <<>>) /\ Means(c, "approved")
    /\ auto' = [auto EXCEPT ![c] = FALSE]

Moves(c) ==
    IF Len(todo[c]) = 1 THEN Ends(c)
    ELSE /\ todo' = [todo EXCEPT ![c] = Tail(@)] /\ read' = [read EXCEPT ![c] = Tail(@)]
         /\ Goto(c, "next") /\ Means(c, "approved") /\ UNCHANGED auto

stored == <<drafts, feedback, commands, unlogged, halfEdited>>

AutoApprove(c) ==
    /\ pc[c] = "next"
    /\ auto[c] /\ Seen(c).sure
    /\ Means(c, "approved") /\ Goto(c, "decide")
    /\ UNCHANGED <<stored, others, todo, read, auto>>

(* What the reviewer answers at the prompt.                                *)
Answer(c) ==
    /\ pc[c] = "next"
    /\ ~ (auto[c] /\ Seen(c).sure)
    /\ \/ /\ \E a \in {"approved", "rejected"} : Means(c, a)
          /\ Goto(c, "decide") /\ UNCHANGED <<todo, read, auto>>
       \/ Means(c, "edited") /\ Goto(c, "edit") /\ UNCHANGED <<todo, read, auto>>
       \/ Moves(c)
       \/ Ends(c)
    /\ UNCHANGED <<stored, others>>

(* update_entry: the entry as it was read, with the edit, replaces the     *)
(* row's, whatever that is by now.                                         *)
UpdateEntry(c) ==
    /\ pc[c] = "edit"
    /\ drafts' = [drafts EXCEPT ![Current(c)].entry = [Seen(c) EXCEPT !.by = c]]
    /\ Goto(c, "decide")
    /\ UNCHANGED <<feedback, commands, unlogged, halfEdited, others, todo, read, action, auto>>

(* Mutation: the feedback's name of the decision is stored as the status.  *)
UpdateStatusToAction(c) ==
    /\ pc[c] = "decide"
    /\ drafts' = [drafts EXCEPT ![Current(c)].status = action[c]]
    /\ Goto(c, "log")
    /\ UNCHANGED <<feedback, commands, unlogged, halfEdited, others, todo, read, action, auto>>

(* approve_draft or reject_draft: UPDATE ... WHERE id = ?, whatever the    *)
(* status is by now.                                                       *)
UpdateStatus(c) ==
    /\ pc[c] = "decide"
    /\ drafts' = [drafts EXCEPT ![Current(c)].status =
                      IF action[c] = "rejected" THEN "rejected" ELSE "approved"]
    /\ Goto(c, "log")
    /\ UNCHANGED <<feedback, commands, unlogged, halfEdited, others, todo, read, action, auto>>

RecordFeedback(c) ==
    /\ pc[c] = "log"
    /\ feedback' = feedback \cup {[draft |-> Current(c), action |-> action[c]]}
    /\ Moves(c)
    /\ UNCHANGED <<drafts, commands, unlogged, halfEdited, others>>

(* A call raises, or the terminal is closed.                               *)
CommandDies(c) ==
    /\ Fail
    /\ pc[c] # "idle"
    /\ unlogged' = IF pc[c] = "log" THEN unlogged \cup {Current(c)} ELSE unlogged
    /\ halfEdited' = IF pc[c] = "decide" /\ action[c] = "edited"
                        THEN halfEdited \cup {Current(c)} ELSE halfEdited
    /\ Ends(c)
    /\ UNCHANGED <<drafts, feedback, commands, clock, daemon>>

Next ==
    \/ Tick \/ Expire
    \/ \E r \in Executions : RunReturns(r) \/ RunAbandoned(r) \/ CreateDraft(r) \/ CreateRaises(r)
    \/ \E c \in Clients :
        \/ \E d \in DOMAIN drafts : DraftsApprove(c, d) \/ DraftsReject(c, d)
        \/ Review(c)       \/ AutoApprove(c)    \/ Answer(c)   \/ UpdateEntry(c)
        \/ UpdateStatus(c) \/ RecordFeedback(c) \/ CommandDies(c)

(* Time goes by and the daemon expires drafts every hour; nobody has to    *)
(* review any.                                                             *)
Spec == Init /\ [][Next]_vars /\ WF_vars(Tick) /\ WF_vars(Expire)
-----------------------------------------------------------------------------
Given(d) == {f.action : f \in {g \in feedback : g.draft = d}}
At(d, labels) == {c \in Clients : pc[c] \in labels /\ Current(c) = d}

(* The drafts of a run are its suggestions, each once and in order, unless *)
(* the scheduler was interrupted; then they are the first of them          *)
(* (_create_drafts_from_run).                                              *)
DraftsOfRuns ==
    \A r \in Executions :
        /\ Cardinality(Made(r)) <= Len(suggested[r])
        /\ \A d \in Made(r) : drafts[d].entry.sure =
               suggested[r][Cardinality({e \in Made(r) : e <= d})]
        /\ run[r] = "ended" /\ r \notin cut => Cardinality(Made(r)) = Len(suggested[r])

(* The log explains the status: a draft that is approved or rejected has a *)
(* feedback saying so, or gets it next, or the command that decided it     *)
(* ended just before; concurrent decisions overwrite the status, never     *)
(* each other's feedback.  An edit that is in the log is in the draft.     *)
StatusExplained ==
    \A d \in DOMAIN drafts :
        LET Told(actions) == \/ Given(d) \cap actions # {}
                             \/ \E c \in At(d, {"log"}) : action[c] \in actions
                             \/ d \in unlogged
        IN  /\ drafts[d].status = "approved" => Told({"approved", "edited"})
            /\ drafts[d].status = "rejected" => Told({"rejected"})
            /\ "edited" \in Given(d) => drafts[d].entry.by # Model

(* A draft that waits or has expired was never decided: nothing learns     *)
(* from it, and its entry is the model's unless somebody is editing it or  *)
(* ended in the middle of that.                                            *)
UndecidedUntouched ==
    \A d \in DOMAIN drafts : drafts[d].status \in {"pending", "expired"} =>
        /\ Given(d) = {} /\ At(d, {"log"}) = {} /\ d \notin unlogged
        /\ \/ drafts[d].entry.by = Model
           \/ \E c \in At(d, {"decide"}) : action[c] = "edited"
           \/ d \in halfEdited

(* From its run to its end a draft's row tells what was suggested and what *)
(* was decided.                                                            *)
DraftsTell == DraftsOfRuns /\ StatusExplained /\ UndecidedUntouched

(* A draft nobody decides expires: it does not wait for ever.              *)
PendingEnds ==
    \A d \in 1..MaxDrafts :
        LET Waits == d \in DOMAIN drafts /\ drafts[d].status = "pending"
        IN  Waits /\ drafts[d].created + MaxAge < MaxTime ~> ~ Waits
=============================================================================
