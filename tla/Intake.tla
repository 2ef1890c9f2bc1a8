-------------------------------- MODULE Intake --------------------------------
(***************************************************************************)
(* Intake of matters from Jira and Slack: matteros/automation/intake.py,   *)
(* called in turn by AutomationEngine.run_once (automation/engine.py),     *)
(* over the matters, activities, contacts and automation_state tables      *)
(* (matters/store.py, automation/state.py).                                *)
(*                                                                         *)
(* A handler reads a batch from its source and works through it; every     *)
(* store call is a transaction of its own.  A call that raises ends the    *)
(* handler (the engine goes on with the next one), a crash ends them both; *)
(* either way the poll cursor stays where it was and the next poll begins  *)
(* with the same items.  Meanwhile issues are created and updated in Jira  *)
(* and messages are posted in the channel.                                 *)
(*                                                                         *)
(* The clock counts the moments that matter: every outside event has one   *)
(* of its own.  The source_ref of a matter is the issue or the message.    *)
(***************************************************************************)
EXTENDS Integers, Sequences, FiniteSets

CONSTANTS
    Issues,         \* issue keys of the Jira project
    Messages,       \* messages of the Slack channel
    Worded,         \* the issues with a description
    Humans,         \* the messages that are top-level ones of people
    Author,         \* item -> email of its reporter or author, or NoEmail
    NoEmail,
    JiraLimit,      \* max_results of the issues query (50)
    SlackLimit,     \* limit of the messages query (200)
    MaxTime,        \* bound on the clock
    MaxFailures     \* bound on calls that fail and crashes

Items == Issues \cup Messages

ASSUME ItemsAssumption ==
    /\ Issues \cap Messages = {} /\ IsFiniteSet(Items)
    /\ Worded \subseteq Issues /\ Humans \subseteq Messages
    /\ DOMAIN Author = Items

ASSUME LimitsAssumption ==
    {JiraLimit, SlackLimit} \subseteq Nat \ {0} /\ {MaxTime, MaxFailures} \subseteq Nat
Emails == {Author[i] : i \in Items} \ {NoEmail}

Sources == {"jira", "slack"}
Times == 0..MaxTime             \* 0: never

VARIABLES
    clock,
    touched,    \* touched[i]: when issue i was last updated, message i was posted
    matters,    \* matters[i]: how many matters have source_ref i
    texts,      \* texts[i]: how many activities hold the description or message
    contacts,   \* the emails that have a contact
    links,      \* matter_contacts, as <<item, email>>
    cursor,     \* automation_state: {jira,slack}_intake:last_poll
    source,     \* the handler that runs
    pc,         \* where it is
    todo,       \* its batch, the current item first
    latest,     \* latest_ts of handle_slack_intake
    failures,
    cut,        \* history: items the last query that matched them did not return
    late,       \* history: issues last updated while the Jira handler was working
    partial     \* history: items whose handling was left in the middle

outside == <<clock, touched>>
tables == <<matters, texts, contacts, links, cursor>>
handler == <<source, pc, todo, latest>>
history == <<failures, cut, late, partial>>
vars == <<outside, tables, handler, history>>

TypeOK ==
    /\ clock \in Times
    /\ touched \in [Items -> Times]
    /\ matters \in [Items -> Nat]
    /\ texts \in [Items -> Nat]
    /\ contacts \subseteq Emails
    /\ links \subseteq Items \X Emails
    /\ cursor \in [Sources -> Times]
    /\ source \in Sources
    /\ pc \in {"read", "item", "contact", "link", "text"}
    /\ todo \in Seq(Items)
    /\ latest \in Times
    /\ failures \in 0..MaxFailures
    /\ cut \subseteq Items /\ late \subseteq Issues /\ partial \subseteq Items

Init ==
    /\ clock = 0
    /\ touched = [i \in Items |-> 0]
    /\ matters = [i \in Items |-> 0]
    /\ texts = [i \in Items |-> 0]
    /\ contacts = {} /\ links = {}
    /\ cursor = [s \in Sources |-> 0]
    /\ source = "jira" /\ pc = "read" /\ todo = <<>> /\ latest = 0
    /\ failures = 0 /\ cut = {} /\ late = {} /\ partial = {}
-----------------------------------------------------------------------------
(***************************************************************************)
(* Jira, Slack and time                                                    *)
(***************************************************************************)
Elapse == clock < MaxTime /\ clock' = clock + 1

Tick == Elapse /\ UNCHANGED <<touched, tables, handler, history>>

(* An issue is created or updated.                                         *)
UpdateIssue(i) ==
    /\ Elapse
    /\ touched' = [touched EXCEPT ![i] = clock']
    /\ cut' = cut \ {i}
    /\ late' = IF source = "jira" /\ pc # "read" THEN late \cup {i} ELSE late \ {i}
    /\ UNCHANGED <<tables, handler, failures, partial>>

PostMessage(m) ==
    /\ touched[m] = 0
    /\ Elapse
    /\ touched' = [touched EXCEPT ![m] = clock']
    /\ UNCHANGED <<tables, handler, history>>

(* What the query of a source matches; Jira's bound is inclusive, Slack's  *)
(* "oldest" is not.                                                        *)
Matching(s) ==
    IF s = "jira" THEN {i \in Issues : touched[i] # 0 /\ touched[i] >= cursor.jira}
                  ELSE {m \in Messages : touched[m] > cursor.slack}

(* Both answer with the newest first, up to the limit.                     *)
Limit(s) == IF s = "jira" THEN JiraLimit ELSE SlackLimit

Newest(s) ==
    {i \in Matching(s) : Cardinality({j \in Matching(s) : touched[j] > touched[i]}) < Limit(s)}

Answers(s) ==
    {items \in [1..Cardinality(Newest(s)) -> Newest(s)] :
        \A i, j \in DOMAIN items : i < j => touched[items[i]] > touched[items[j]]}
-----------------------------------------------------------------------------
(***************************************************************************)
(* The handlers                                                            *)
(***************************************************************************)
Item == Head(todo)

(* AutomationEngine.run_once: Jira, then Slack, and again.                 *)
NextHandler ==
    /\ source' = IF source = "jira" THEN "slack" ELSE "jira"
    /\ pc' = "read" /\ todo' = <<>> /\ latest' = 0

(* Mutation: a cursor is required; a first poll only sets it.              *)
ReadFromCursorOnly ==
    /\ pc = "read"
    /\ IF cursor[source] = 0 THEN todo' = <<>> ELSE todo' \in Answers(source)
    /\ cut' = (cut \ Matching(source)) \cup (Matching(source) \ Newest(source))
    /\ latest' = IF source = "slack" THEN clock ELSE 0
    /\ pc' = "item"
    /\ UNCHANGED <<outside, tables, source, failures, late, partial>>

(* state.get and the query.                                                *)
Read ==
    /\ pc = "read"
    /\ todo' \in Answers(source)
    /\ cut' = (cut \ Matching(source)) \cup (Matching(source) \ Newest(source))
    /\ latest' = IF source = "slack" THEN cursor.slack ELSE 0
    /\ pc' = "item"
    /\ UNCHANGED <<outside, tables, source, failures, late, partial>>

(* Mutation: a contact without asking for an email.                        *)
StagesOfAnyone(i) ==
    CASE i \in Messages -> <<"text", "contact">>
      [] i \in Worded   -> <<"contact", "text">>
      [] OTHER          -> <<"contact">>

(* What is stored of a new item after its matter, in order.                *)
Stages(i) ==
    LET contact == IF Author[i] = NoEmail THEN <<>> ELSE <<"contact">>
    IN  CASE i \in Messages -> <<"text">> \o contact
          [] i \in Worded   -> contact \o <<"text">>
          [] OTHER          -> contact

NextItem == pc' = "item" /\ todo' = Tail(todo)

After(stage) ==
    LET stages == Stages(Item)
    IN  IF Len(stages) = 2 /\ stages[1] = stage
           THEN pc' = stages[2] /\ UNCHANGED todo
           ELSE NextItem

(* Mutation: a matter without its first activity is not taken for one.     *)
TrackedWithText(i) == matters[i] > 0 /\ (i \in Humans \cup Worded => texts[i] > 0)

Tracked(i) == matters[i] > 0            \* list_matters(source_ref)

SkipItem ==
    /\ pc = "item" /\ todo # <<>>
    /\ (Item \in Messages \ Humans \/ Tracked(Item))
    /\ latest' = IF source = "slack" /\ touched[Item] > latest THEN touched[Item] ELSE latest
    /\ NextItem
    /\ UNCHANGED <<outside, tables, source, history>>

CreateMatter ==
    /\ pc = "item" /\ todo # <<>>
    /\ Item \in Issues \cup Humans /\ ~ Tracked(Item)
    /\ latest' = IF source = "slack" /\ touched[Item] > latest THEN touched[Item] ELSE latest
    /\ matters' = [matters EXCEPT ![Item] = @ + 1]
    /\ IF Stages(Item) = <<>> THEN NextItem
                              ELSE pc' = Head(Stages(Item)) /\ UNCHANGED todo
    /\ UNCHANGED <<outside, texts, contacts, links, cursor, source, history>>

(* _ensure_contact: create_contact, or the contact that has the email.     *)
EnsureContact ==
    /\ pc = "contact"
    /\ contacts' = contacts \cup {Author[Item]}
    /\ pc' = "link"
    /\ UNCHANGED <<outside, matters, texts, links, cursor, source, todo, latest, history>>

LinkContact ==
    /\ pc = "link"
    /\ links' = links \cup {<<Item, Author[Item]>>}
    /\ After("contact")
    /\ UNCHANGED <<outside, matters, texts, contacts, cursor, source, latest, history>>

StoreText ==
    /\ pc = "text"
    /\ texts' = [texts EXCEPT ![Item] = @ + 1]
    /\ After("text")
    /\ UNCHANGED <<outside, matters, contacts, links, cursor, source, latest, history>>

(* The end of a handler: Jira's cursor is the time at which it ends,       *)
(* Slack's the newest timestamp it saw, if there is one.                   *)
SetCursor ==
    /\ pc = "item" /\ todo = <<>>
    /\ cursor' = [cursor EXCEPT ![source] = IF source = "jira" THEN clock ELSE latest]
    /\ NextHandler
    /\ UNCHANGED <<outside, matters, texts, contacts, links, history>>

Fail ==
    /\ failures < MaxFailures
    /\ failures' = failures + 1
    /\ partial' = IF pc \in {"contact", "link", "text"} THEN partial \cup {Item} ELSE partial

(* create_contact raises and there is no such contact, or link_contact     *)
(* raises: _ensure_contact returns all the same.                           *)
ContactSwallowed ==
    /\ \/ pc = "contact" /\ Author[Item] \notin contacts
       \/ pc = "link"
    /\ Fail
    /\ After("contact")
    /\ UNCHANGED <<outside, tables, source, latest, cut, late>>

(* Any other call raises: the engine logs it and goes on.                  *)
HandlerRaises ==
    /\ pc # "link"
    /\ Fail
    /\ NextHandler
    /\ UNCHANGED <<outside, tables, cut, late>>

Crash ==
    /\ Fail
    /\ source' = "jira" /\ pc' = "read" /\ todo' = <<>> /\ latest' = 0
    /\ UNCHANGED <<outside, tables, cut, late>>

Poll ==
    \/ Read          \/ SkipItem    \/ CreateMatter \/ EnsureContact
    \/ LinkContact   \/ StoreText   \/ SetCursor

Next ==
    \/ Tick
    \/ \E i \in Issues : UpdateIssue(i)
    \/ \E m \in Messages : PostMessage(m)
    \/ Poll \/ ContactSwallowed \/ HandlerRaises \/ Crash

(* The engine is run again and again; its calls have timeouts.             *)
Spec == Init /\ [][Next]_vars /\ WF_vars(Poll)
-----------------------------------------------------------------------------
(* "Polling the same issue twice is a no-op" (the design document,         *)
(* docs/superpowers/specs/2026-04-05-automation-engine-design.md): however *)
(* often an item is polled and wherever earlier polls ended, it has one    *)
(* matter at most, with one first activity at most.                        *)
OneMatterPerItem == \A i \in Items : matters[i] <= 1 /\ texts[i] <= matters[i]

(* A matter whose item was worked through to the end has what it came      *)
(* with: its text and its requestor.                                       *)
MattersWhole ==
    \A i \in Items :
        LET current == pc \in {"contact", "link", "text"} /\ Item = i IN
        matters[i] > 0 /\ i \notin partial /\ ~ current =>
            /\ i \in Humans \cup Worded => texts[i] = 1
            /\ Author[i] # NoEmail => <<i, Author[i]>> \in links

(* An item no later poll will return has its matter, unless it was beyond  *)
(* the limit of the query that matched it, or is an issue whose last       *)
(* update fell between the query of a poll and its end.                    *)
NothingPassedOver ==
    /\ \A i \in Issues : touched[i] # 0 /\ touched[i] < cursor.jira =>
           matters[i] > 0 \/ i \in cut \cup late
    /\ \A m \in Humans : touched[m] # 0 /\ touched[m] <= cursor.slack =>
           matters[m] > 0 \/ m \in cut

(* What has been polled is one matter per item, a whole one, and nothing   *)
(* between them is left out.                                               *)
ItemsAccounted == OneMatterPerItem /\ MattersWhole /\ NothingPassedOver

(* Every issue and every message of a person gets its matter in the end,   *)
(* with the same two exceptions.                                           *)
EventuallyTracked ==
    \A i \in Issues \cup Humans :
        touched[i] # 0 ~> matters[i] > 0 \/ i \in cut \cup late

(* "Query Jira for issues in the configured project updated since that     *)
(* timestamp", the last poll (the design document): none is passed over    *)
(* that one query could have returned.                                     *)
JiraNothingLost ==
    \A i \in Issues : touched[i] # 0 /\ touched[i] < cursor.jira =>
        matters[i] > 0 \/ i \in cut
=============================================================================
