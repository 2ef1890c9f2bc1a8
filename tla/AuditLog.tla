------------------------------ MODULE AuditLog ------------------------------
(***************************************************************************)
(* The audit log: matteros/core/audit.py (AuditLogger) over the            *)
(* audit_events table of matteros/core/store.py and the JSONL file.        *)
(*                                                                         *)
(* AuditLogger.append does three things, each visible to other processes   *)
(* before the next one starts: it reads the hash of the run's last event   *)
(* (one SQLite connection), inserts the new row (another connection, a     *)
(* transaction of its own) and appends a line to the JSONL file.  Between  *)
(* them other runs append, the call can raise (the database is locked, the *)
(* disk is full) and the process can die.  A call that raised returns to   *)
(* its caller, WorkflowRunner, which appends further events to the run.    *)
(*                                                                         *)
(* A run has one writer: its id is a fresh uuid4 and WorkflowRunner.run is *)
(* sequential, so the calls of one run never overlap; those of different   *)
(* runs do.                                                                *)
(***************************************************************************)
EXTENDS Integers, SequencesExt

CONSTANTS
    Runs,           \* run ids
    EventTypes,     \* event_type, with actor, step_id, data and timestamp folded in
    Torn,           \* a JSONL line json.loads rejects
    NoEvent,        \* a writer that holds no event
    MaxRows         \* bound on the rows of audit_events

(***************************************************************************)
(* A SHA-256 value is modelled by what it was computed from, so two        *)
(* different payloads have different hashes.  The hash covers prev_hash,   *)
(* so it stands for the whole history of the event: a sequence of (run,    *)
(* type) pairs.  prev_hash = null contributes the empty prefix.            *)
(***************************************************************************)
Core == Runs \X EventTypes
NoHash == <<>>
Hashes == Seq(Core)

ComputeEventHash(run, type, prev) == Append(prev, <<run, type>>)

Event == [seq : Nat, run : Runs, type : EventTypes, prev : Hashes, hash : Hashes]

ASSUME ConstantsAssumption ==
    /\ MaxRows \in Nat
    /\ Torn \notin Event
    /\ NoEvent \notin Event

VARIABLES
    db,         \* rows of audit_events in seq order: row i has seq = i
    jsonl,      \* lines of events.jsonl: an event or Torn
    tailOpen,   \* the last line of the file lacks its newline
    pc,         \* pc[r]: where the writer of run r is in append
    held        \* held[r]: the event append is building

vars == <<db, jsonl, tailOpen, pc, held>>

TypeOK ==
    /\ db \in Seq(Event)
    /\ jsonl \in Seq(Event \cup {Torn})
    /\ tailOpen \in BOOLEAN
    /\ pc \in [Runs -> {"idle", "hashed", "inserted", "dead"}]
    /\ held \in [Runs -> Event \cup {NoEvent}]

Init ==
    /\ db = <<>>
    /\ jsonl = <<>>
    /\ tailOpen = FALSE
    /\ pc = [r \in Runs |-> "idle"]
    /\ held = [r \in Runs |-> NoEvent]
-----------------------------------------------------------------------------
(* store.get_last_audit_hash: the newest row of the run, whoever appended  *)
(* to other runs since.                                                    *)
RowsOf(r) == {i \in DOMAIN db : db[i].run = r}

(* Mutation: WHERE run_id = ? forgotten.                                   *)
LastHashOfAnyRun(r) == IF db = <<>> THEN NoHash ELSE db[Len(db)].hash

GetLastAuditHash(r) ==
    IF RowsOf(r) = {} THEN NoHash ELSE db[Max(RowsOf(r))].hash

(* Text added to the end of the file.  It continues the last line if that  *)
(* line was left without its newline, and json.loads then rejects the line.*)
AddToFile(line, open) ==
    /\ jsonl' = IF tailOpen THEN [jsonl EXCEPT ![Len(jsonl)] = Torn]
                            ELSE Append(jsonl, line)
    /\ tailOpen' = open

Return(r) ==
    /\ pc' = [pc EXCEPT ![r] = "idle"]
    /\ held' = [held EXCEPT ![r] = NoEvent]

(***************************************************************************)
(* AuditLogger.append, one action per storage access.                      *)
(***************************************************************************)

(* Read the chain head and build the event.                                *)
BuildEvent(r, type) ==
    LET prev == GetLastAuditHash(r) IN
    /\ pc[r] = "idle"
    /\ Len(db) < MaxRows
    /\ held' = [held EXCEPT ![r] =
           [seq |-> 0, run |-> r, type |-> type, prev |-> prev,
            hash |-> ComputeEventHash(r, type, prev)]]
    /\ pc' = [pc EXCEPT ![r] = "hashed"]
    /\ UNCHANGED <<db, jsonl, tailOpen>>

(* Mutation: the INSERT is retried after a commit whose reply was lost.    *)
InsertTwice(r) ==
    LET row == [held[r] EXCEPT !.seq = Len(db) + 1] IN
    /\ pc[r] = "hashed"
    /\ db' = db \o <<row, [row EXCEPT !.seq = Len(db) + 2]>>
    /\ held' = [held EXCEPT ![r] = row]
    /\ pc' = [pc EXCEPT ![r] = "inserted"]
    /\ UNCHANGED <<jsonl, tailOpen>>

(* The INSERT commits; SQLite picks the next seq and append keeps it.      *)
InsertAuditEvent(r) ==
    LET row == [held[r] EXCEPT !.seq = Len(db) + 1] IN
    /\ pc[r] = "hashed"
    /\ db' = Append(db, row)
    /\ held' = [held EXCEPT ![r] = row]
    /\ pc' = [pc EXCEPT ![r] = "inserted"]
    /\ UNCHANGED <<jsonl, tailOpen>>

(* The INSERT raises: sqlite3.OperationalError, nothing committed.         *)
InsertRaises(r) ==
    /\ pc[r] = "hashed"
    /\ Return(r)
    /\ UNCHANGED <<db, jsonl, tailOpen>>

(* Mutation: a write that reached the file but did not return is retried.  *)
WriteLineRetried(r) ==
    /\ pc[r] = "inserted"
    /\ AddToFile(held[r], FALSE)
    /\ Return(r) \/ UNCHANGED <<pc, held>>
    /\ UNCHANGED db

(* The line and its newline reach the file and append returns.             *)
WriteLine(r) ==
    /\ pc[r] = "inserted"
    /\ AddToFile(held[r], FALSE)
    /\ Return(r)
    /\ UNCHANGED db

(* Mutation: the event is let go and the write tried again.                *)
WriteRetriedEmpty(r) ==
    /\ pc[r] = "inserted"
    /\ held' = [held EXCEPT ![r] = NoEvent]
    /\ UNCHANGED <<db, jsonl, tailOpen, pc>>

(* open or write raises (ENOSPC, EACCES): nothing, a piece of the line, or *)
(* all of it but the newline is in the file; the row stays in the table.   *)
WriteRaises(r) ==
    /\ pc[r] = "inserted"
    /\ \/ UNCHANGED <<jsonl, tailOpen>>
       \/ AddToFile(Torn, TRUE)
       \/ AddToFile(held[r], TRUE)
    /\ Return(r)
    /\ UNCHANGED db

(* The process of the run dies wherever it is; nobody resumes its run.     *)
Crash(r) ==
    /\ pc[r] # "dead"
    /\ pc' = [pc EXCEPT ![r] = "dead"]
    /\ held' = [held EXCEPT ![r] = NoEvent]
    /\ UNCHANGED <<db, jsonl, tailOpen>>

Next ==
    \E r \in Runs :
        \/ \E type \in EventTypes : BuildEvent(r, type)
        \/ InsertAuditEvent(r)
        \/ InsertRaises(r)
        \/ WriteLine(r)
        \/ WriteRaises(r)
        \/ Crash(r)

Spec == Init /\ [][Next]_vars
-----------------------------------------------------------------------------
(***************************************************************************)
(* Verification (AuditLogger.verify_run), as the reason it reports.  The   *)
(* checks of a record's shape cannot fail on what append writes and are    *)
(* left out.  A file without lines may not exist yet, and verify_run then  *)
(* raises FileNotFoundError instead of answering missing_event.            *)
(***************************************************************************)
Places(log, r) == {i \in DOMAIN log : log[i].run = r}

Nth(S, n) == CHOOSE i \in S : Cardinality({j \in S : j <= i}) = n

(* The events of a run in the order of the log.                            *)
EventsOf(log, r) ==
    LET at == Places(log, r) IN [n \in 1..Cardinality(at) |-> log[Nth(at, n)]]

LinkBroken(events, i) ==
    events[i].prev # (IF i = 1 THEN NoHash ELSE events[i - 1].hash)

HashWrong(events, i) ==
    events[i].hash # ComputeEventHash(events[i].run, events[i].type, events[i].prev)

VerifyEvents(events) ==
    LET bad == {i \in DOMAIN events : LinkBroken(events, i) \/ HashWrong(events, i)}
    IN  CASE events = <<>>                                  -> "missing_event"
          [] events # <<>> /\ bad = {}                      -> "ok"
          [] bad # {} /\ LinkBroken(events, Min(bad))       -> "prev_hash_mismatch"
          [] OTHER                                          -> "event_hash_mismatch"

Seqs(events) == {events[i].seq : i \in DOMAIN events}

(* Mutation: only the seqs both copies have are compared.                  *)
CompareCommon(rows, lines) ==
    IF \E i \in DOMAIN rows, j \in DOMAIN lines :
           rows[i].seq = lines[j].seq /\ rows[i].hash # lines[j].hash
    THEN "event_hash_mismatch" ELSE "ok"

(* Both copies by seq, in ascending order; the first difference decides.   *)
CompareSources(rows, lines) ==
    LET At(events, q) == {events[i].hash : i \in {j \in DOMAIN events : events[j].seq = q}}
        differ == {q \in Seqs(rows) \cup Seqs(lines) : At(rows, q) # At(lines, q)}
    IN  IF \E s \in {rows, lines} : Len(s) # Cardinality(Seqs(s)) THEN "parse_error"
        ELSE IF differ = {}                                         THEN "ok"
        ELSE IF Min(differ) \in Seqs(rows) \cap Seqs(lines)         THEN "event_hash_mismatch"
        ELSE "missing_event"

(* Any line that does not parse fails the verification of every run.       *)
VerifyJsonl(r) ==
    IF Torn \in Range(jsonl) THEN "parse_error" ELSE VerifyEvents(EventsOf(jsonl, r))

VerifyDb(r) == VerifyEvents(EventsOf(db, r))

VerifyBoth(r) ==
    CASE VerifyDb(r) # "ok"     -> VerifyDb(r)
      [] VerifyDb(r) = "ok" /\ VerifyJsonl(r) # "ok" -> VerifyJsonl(r)
      [] OTHER                  -> CompareSources(EventsOf(db, r), EventsOf(jsonl, r))
-----------------------------------------------------------------------------
(* Row i continues the chain of its run.                                   *)
Linked(i) ==
    LET before == {j \in RowsOf(db[i].run) : j < i} IN
    /\ db[i].hash = ComputeEventHash(db[i].run, db[i].type, db[i].prev)
    /\ db[i].prev = IF before = {} THEN NoHash ELSE db[Max(before)].hash

(* The rows chain: each row's hash is the digest of its payload and its    *)
(* prev_hash is the hash of the run's row just before it, or null if it is *)
(* the run's first, whatever was appended to other runs in between,        *)
(* whichever calls raised and wherever a process died (audit.append,       *)
(* docs/audit-schema.md "Chain linkage must hold").                        *)
ChainLinked == \A i \in DOMAIN db : Linked(i)

(* Every line that can be read is the row with its seq: the file never     *)
(* holds an event the table does not have, and never one under another     *)
(* seq, although other runs insert rows between a row and its line.        *)
LinesMirrorRows ==
    \A k \in DOMAIN jsonl :
        jsonl[k] # Torn => jsonl[k].seq \in DOMAIN db /\ jsonl[k] = db[jsonl[k].seq]

(* A run's lines stand in the file in ascending seq, each once: the order  *)
(* in which verify_run reads them without sorting ("Event order is         *)
(* ascending seq for both SQLite and JSONL", docs/audit-schema.md).        *)
LinesInSeqOrder ==
    \A k, m \in DOMAIN jsonl :
        k < m /\ jsonl[k] # Torn /\ jsonl[m] # Torn /\ jsonl[k].run = jsonl[m].run
            => jsonl[k].seq < jsonl[m].seq

(* The two together: the file is the table with lines missing or torn      *)
(* (audit.append, the row before the line).                                *)
JsonlFollowsTable == LinesMirrorRows /\ LinesInSeqOrder

Kept(r) == EventsOf(jsonl, r)

(* verify_run answers "ok" for both sources exactly when the file parses   *)
(* and has every row of the run, and the table alone always verifies: no   *)
(* crash or failed write is mistaken for tampering with the table.         *)
VerifyBothExact ==
    \A r \in Runs : RowsOf(r) # {} =>
        /\ VerifyDb(r) = "ok"
        /\ VerifyBoth(r) = "ok"
               <=> Torn \notin Range(jsonl) /\ Kept(r) = EventsOf(db, r)

(* What a lost line is reported as: a run whose newest lines are the ones  *)
(* lost is told missing_event, and only such a run; a line lost before one *)
(* that was written shows as prev_hash_mismatch.                           *)
LossReported ==
    \A r \in Runs : RowsOf(r) # {} /\ jsonl # <<>> /\ Torn \notin Range(jsonl) =>
        /\ VerifyBoth(r) = "missing_event"
               <=> IsStrictPrefix(Kept(r), EventsOf(db, r))
        /\ VerifyBoth(r) \in {"ok", "missing_event", "prev_hash_mismatch"}

(* What `matteros audit verify` says of a run is what became of its lines. *)
VerificationTells == VerifyBothExact /\ LossReported

(* The table is the run's trail: whatever the writers do, each step adds   *)
(* one event to the end of one trail or changes none (AuditTrail).         *)
Recorded(r) == LET at == RowsOf(r) IN [n \in 1..Cardinality(at) |-> db[Nth(at, n)].type]

Trail == INSTANCE AuditTrail WITH
             Events <- EventTypes,
             trail <- [r \in Runs |-> Recorded(r)]

ImplementsTrail == Trail!TrailSpec
=============================================================================
