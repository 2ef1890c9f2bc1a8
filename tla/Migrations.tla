------------------------------ MODULE Migrations -------------------------------
(***************************************************************************)
(* Opening the database: SQLiteStore._init_db (matteros/core/store.py) and *)
(* the migrations it applies (matteros/core/migrations/).  Every command,  *)
(* the daemon and the web application do it, maybe at once.                *)
(*                                                                         *)
(* Each statement is a step.  sqlite3 begins a transaction at an INSERT or *)
(* UPDATE, not at a CREATE or ALTER; these take effect at once, unless a   *)
(* transaction has begun.  executescript commits first.  So an upgrade is  *)
(* one transaction from its first UPDATE or version row on, to the end or  *)
(* the next executescript, whatever migrations lie between.                *)
(*                                                                         *)
(* A writer waits for another's transaction, for five seconds.             *)
(***************************************************************************)
EXTENDS Integers, FiniteSets, Sequences

CONSTANTS
    Processes,
    NoOne,
    Users       \* rows of the users table

ASSUME NoOneAssumption == NoOne \notin Processes

Latest == 6
Versions == 1..Latest
-----------------------------------------------------------------------------
(***************************************************************************)
(* The statements                                                          *)
(***************************************************************************)
Create(name) == <<"create", name>>
Check(column) == <<"check", column>>
Add(column) == <<"add", column>>
Update(old, new) == <<"update", old, new>>
RecordVersion(v) == <<"record", v>>
CommitFirst == <<"commit">>

BaseSchema ==
    <<CommitFirst, Create("runs"), Create("steps"), Create("approvals"),
      Create("audit_events"), Create("schema_version")>>

PatternsDrafts ==
    <<CommitFirst, Create("patterns"), Create("drafts"), Create("feedback_log")>>

UsersTable ==
    <<Create("users"),
      Check("runs.user_id"), Add("runs.user_id"),
      Check("steps.user_id"), Add("steps.user_id"),
      Check("approvals.user_id"), Add("approvals.user_id"),
      Check("drafts.user_id"), Add("drafts.user_id")>>

Sessions ==
    <<Create("sessions"), Update("admin", "dev"), Update("attorney", "solicitor"),
      Update("reviewer", "sr_solicitor")>>

MatterTables ==
    <<Create("matters"), Create("activities"), Create("contacts"), Create("matter_contacts"),
      Create("deadlines"), Create("matter_relationships"),
      Update("dev", "legal"), Update("partner_gc", "gc"), Update("sr_solicitor", "legal"),
      Update("solicitor", "legal"), Update("paralegal", "legal")>>

AutomationState == <<Create("automation_state")>>

Upgrade(v) ==
    CASE v = 1 -> <<>>
      [] v = 2 -> PatternsDrafts
      [] v = 3 -> UsersTable
      [] v = 4 -> Sessions
      [] v = 5 -> MatterTables
      [] v = 6 -> AutomationState

(* Mutation: the version is recorded before the upgrade.                   *)
MigrationRecordedFirst(v) ==
    IF v = 0 THEN BaseSchema ELSE <<RecordVersion(v)>> \o Upgrade(v)

(* The base schema, and then each version's upgrade and row.               *)
Migration(v) == IF v = 0 THEN BaseSchema ELSE Upgrade(v) \o <<RecordVersion(v)>>

Lines(v) == 1..Len(Migration(v))

(* The tables and columns that the migration of a version makes.           *)
Makes(v) == {Migration(v)[k][2] : k \in {l \in Lines(v) : Migration(v)[l][1] \in {"create", "add"}}}

Schema == UNION {Makes(v) : v \in 0..Latest}

(* The roles that the code of each version knows.                          *)
RolesAt(v) ==
    CASE v < 3 -> {"none"}
      [] v = 3 -> {"admin", "attorney", "reviewer"}
      [] v = 4 -> {"dev", "partner_gc", "sr_solicitor", "solicitor", "paralegal"}
      [] OTHER -> {"legal", "gc"}
-----------------------------------------------------------------------------
VARIABLES
    db,     \* what is committed
    work,   \* what the transaction under way has made of it
    lock,   \* the process whose transaction that is
    pc,     \* per process
    at,     \* per process: the version whose migration it applies
    line,   \* per process: and the statement of it that is next
    was,    \* history: the roles at first
    cut     \* history: a process died or gave up waiting

place == <<at, line>>
migrationsVars == <<db, work, lock, pc, place, was, cut>>

Roles == UNION {RolesAt(v) : v \in 0..Latest}

Database ==
    [objects : SUBSET Schema, versions : SUBSET Versions, roles : [Users -> Roles]]

AtWork(p) == pc[p] \in {"opening", "upgrading"}

Applies(p) == AtWork(p) /\ at[p] <= Latest /\ line[p] \in Lines(at[p])

MigrationsTypeOK ==
    /\ db \in Database /\ work \in Database
    /\ lock = NoOne \/ lock \in {p \in Processes : AtWork(p)}
    /\ pc \in [Processes -> {"closed", "opening", "upgrading", "open", "failed"}]
    /\ at \in [Processes -> 0..(Latest + 1)] /\ line \in [Processes -> Nat \ {0}]
    /\ \A p \in Processes : pc[p] = "upgrading" /\ at[p] <= Latest => Applies(p)
    /\ was \in [Users -> Roles]
    /\ cut \in BOOLEAN

(* A new file, or a database of any version.                               *)
MigrationsInit ==
    /\ \E v \in 0..Latest : \E roles \in [Users -> RolesAt(v)] :
           db = [objects |-> IF v = 0 THEN {}
                             ELSE UNION {Makes(u) : u \in 0..v},
                 versions |-> 1..v,
                 roles |-> roles]
    /\ work = db /\ lock = NoOne
    /\ pc = [p \in Processes |-> "closed"]
    /\ at = [p \in Processes |-> 0] /\ line = [p \in Processes |-> 1]
    /\ was = db.roles /\ cut = FALSE
-----------------------------------------------------------------------------
(***************************************************************************)
(* Transactions                                                            *)
(***************************************************************************)
Seen(p) == IF lock = p THEN work ELSE db

Free(p) == lock \in {p, NoOne}

(* An INSERT or UPDATE.                                                    *)
WriteInTransaction(p, data) == lock' = p /\ work' = data /\ UNCHANGED db

(* A CREATE or ALTER.                                                      *)
WriteAtOnce(p, data) ==
    /\ work' = data
    /\ db' = IF lock = p THEN db ELSE data
    /\ UNCHANGED lock

Commit(p) ==
    IF lock = p THEN db' = work /\ lock' = NoOne /\ UNCHANGED work
                ELSE UNCHANGED <<db, work, lock>>

(* Mutation: the connection is left with its transaction.                  *)
Unfinished(p) == UNCHANGED <<db, work, lock>>

Rollback(p) ==
    /\ work' = IF lock = p THEN db ELSE work
    /\ lock' = IF lock = p THEN NoOne ELSE lock
    /\ UNCHANGED db

Statement(p) == Migration(at[p])[line[p]]
Does(p, statement) == Applies(p) /\ Statement(p)[1] = statement

(* On by a number of statements, and after the last to the next migration. *)
Moves(p, count) ==
    /\ IF at[p] = 0 \/ line[p] + count \in Lines(at[p])
       THEN line' = [line EXCEPT ![p] = @ + count] /\ UNCHANGED at
       ELSE line' = [line EXCEPT ![p] = 1] /\ at' = [at EXCEPT ![p] = @ + 1]
    /\ UNCHANGED <<pc, was, cut>>

StepOn(p) == Moves(p, 1)

Ends(p, label) ==
    /\ pc' = [pc EXCEPT ![p] = label]
    /\ at' = [at EXCEPT ![p] = 0] /\ line' = [line EXCEPT ![p] = 1]

(* The exception leaves the with block.                                    *)
Raises(p) == Ends(p, "failed") /\ Rollback(p)
-----------------------------------------------------------------------------
Open(p) ==
    /\ ~ AtWork(p)
    /\ pc' = [pc EXCEPT ![p] = "opening"]
    /\ UNCHANGED <<db, work, lock, place, was, cut>>

Script(p) ==
    /\ Does(p, "commit")
    /\ Commit(p)
    /\ StepOn(p)

(* A new file cannot be switched to its journal while another process      *)
(* reads or writes it; this lock is not waited for.                        *)
JournalRefused(p) ==
    /\ Does(p, "commit") /\ pc[p] = "opening"
    /\ db.objects = {} /\ \E q \in Processes \ {p} : AtWork(q)
    /\ Raises(p)
    /\ UNCHANGED <<was, cut>>

CreateTable(p) ==
    /\ Does(p, "create")
    /\ LET name == Statement(p)[2] IN
       \/ name \in Seen(p).objects /\ UNCHANGED <<db, work, lock>>
       \/ /\ name \notin Seen(p).objects /\ Free(p)
          /\ WriteAtOnce(p, [Seen(p) EXCEPT !.objects = @ \cup {name}])
    /\ StepOn(p)

Current == CHOOSE v \in db.versions \cup {0} : \A u \in db.versions : u <= v

(* get_current_version, and on to the migrations after it.                 *)
ReadVersion(p) ==
    /\ pc[p] = "opening" /\ ~ Applies(p)
    /\ pc' = [pc EXCEPT ![p] = "upgrading"]
    /\ at' = [at EXCEPT ![p] = Current + 1] /\ line' = [line EXCEPT ![p] = 1]
    /\ UNCHANGED <<db, work, lock, was, cut>>

(* PRAGMA table_info; a column that is there is passed over.               *)
CheckColumn(p) ==
    /\ Does(p, "check")
    /\ Moves(p, IF Statement(p)[2] \in Seen(p).objects THEN 2 ELSE 1)
    /\ UNCHANGED <<db, work, lock>>

AddColumn(p) ==
    /\ Does(p, "add") /\ Free(p)
    /\ Statement(p)[2] \notin Seen(p).objects
    /\ WriteAtOnce(p, [Seen(p) EXCEPT !.objects = @ \cup {Statement(p)[2]}])
    /\ StepOn(p)

(* "duplicate column name": another process has added it since the check.  *)
AddColumnRaises(p) ==
    /\ Does(p, "add") /\ Free(p)
    /\ Statement(p)[2] \in Seen(p).objects
    /\ Raises(p)
    /\ UNCHANGED <<was, cut>>

UpdateRoles(p) ==
    /\ Does(p, "update") /\ Free(p)
    /\ WriteInTransaction(p, [Seen(p) EXCEPT !.roles =
           [u \in Users |-> IF @[u] = Statement(p)[2] THEN Statement(p)[3] ELSE @[u]]])
    /\ StepOn(p)

InsertVersion(p) ==
    /\ Does(p, "record") /\ Free(p)
    /\ Statement(p)[2] \notin Seen(p).versions
    /\ WriteInTransaction(p, [Seen(p) EXCEPT !.versions = @ \cup {Statement(p)[2]}])
    /\ StepOn(p)

(* The version is the primary key, and another process has recorded it.    *)
InsertVersionRaises(p) ==
    /\ Does(p, "record") /\ Free(p)
    /\ Statement(p)[2] \in Seen(p).versions
    /\ Raises(p)
    /\ UNCHANGED <<was, cut>>

(* The with block ends.                                                    *)
Opened(p) ==
    /\ pc[p] = "upgrading" /\ ~ Applies(p)
    /\ Commit(p)
    /\ Ends(p, "open")
    /\ UNCHANGED <<was, cut>>

(* "database is locked"                                                    *)
LockTimesOut(p) ==
    /\ Applies(p) /\ ~ Free(p)
    /\ \/ Statement(p)[1] \in {"add", "update", "record"}
       \/ Statement(p)[1] = "create" /\ Statement(p)[2] \notin db.objects
    /\ Raises(p)
    /\ cut' = TRUE /\ UNCHANGED was

DiesAtWork(p) ==
    /\ AtWork(p)
    /\ Ends(p, "closed") /\ Rollback(p)
    /\ cut' = TRUE /\ UNCHANGED was

MigrationsNext ==
    \E p \in Processes :
        \/ Open(p)      \/ Script(p)          \/ JournalRefused(p)
        \/ CreateTable(p) \/ ReadVersion(p)
        \/ CheckColumn(p) \/ AddColumn(p)     \/ AddColumnRaises(p)
        \/ UpdateRoles(p) \/ InsertVersion(p) \/ InsertVersionRaises(p)
        \/ Opened(p)    \/ LockTimesOut(p)    \/ DiesAtWork(p)

MigrationsSpec == MigrationsInit /\ [][MigrationsNext]_migrationsVars
-----------------------------------------------------------------------------
(* What the versions that are recorded say is true of the database, after  *)
(* a death at any statement and with any number of processes: no gap, no   *)
(* table or column missing, and roles of that version, the later ones made *)
(* from the earlier (apply_pending).                                       *)
VersionsTell ==
    LET n == Cardinality(db.versions)
    IN  /\ db.versions = 1..n
        /\ n > 0 => \A v \in 0..n : Makes(v) \subseteq db.objects
        /\ \A u \in Users : db.roles[u] \in RolesAt(n) \/ db.roles[u] = "none"
        /\ \A u \in Users : was[u] = "partner_gc" /\ n >= 5 => db.roles[u] = "gc"

(* A process that has opened the database has the whole of it; and a start *)
(* that fails leaves it whole, or to a process that is still at it, unless *)
(* one died or gave up.                                                    *)
SomeoneGetsThrough ==
    \A p \in Processes :
        /\ pc[p] = "open" => db.versions = Versions
        /\ pc[p] = "failed" =>
               \/ db.versions = Versions
               \/ cut
               \/ \E q \in Processes : AtWork(q)

UpgradesAreWhole == VersionsTell /\ SomeoneGetsThrough
===============================================================================
