--------------------------- MODULE AuditLogProofs ---------------------------
(***************************************************************************)
(* Theorems about AuditLog, for any number of runs, rows and event types.  *)
(*                                                                         *)
(* The argument: the only thing append relies on between its accesses is   *)
(* that nobody else appends to the same run.  So the hash it read is still *)
(* the run's newest one when it inserts (HeldChained), and the row it      *)
(* inserted is still the run's newest one when it writes the line          *)
(* (HeldNewest).  With the rows numbered by position (SeqIsPosition) these *)
(* make the properties inductive.                                          *)
(***************************************************************************)
EXTENDS AuditLog, FiniteSetTheorems, SequenceTheorems, WellFoundedInduction, TLAPS

(* Row i has seq = i.                                                      *)
SeqIsPosition == \A i \in DOMAIN db : db[i].seq = i

(* An event that is built and not inserted continues its run's chain.      *)
HeldChained ==
    \A r \in Runs : pc[r] = "hashed" =>
        /\ held[r] \in Event
        /\ held[r].run = r
        /\ held[r].prev = GetLastAuditHash(r)
        /\ held[r].hash = ComputeEventHash(r, held[r].type, held[r].prev)

(* An event that is inserted and has no line is a row of its run, and all  *)
(* the run's lines are older.                                              *)
HeldNewest ==
    \A r \in Runs : pc[r] = "inserted" =>
        /\ held[r] \in Event
        /\ held[r].run = r
        /\ held[r].seq \in DOMAIN db
        /\ db[held[r].seq] = held[r]
        /\ \A k \in DOMAIN jsonl :
              jsonl[k] # Torn /\ jsonl[k].run = r => jsonl[k].seq < held[r].seq

IInv ==
    /\ TypeOK
    /\ SeqIsPosition
    /\ ChainLinked
    /\ HeldChained
    /\ HeldNewest
    /\ LinesMirrorRows
    /\ LinesInSeqOrder
-----------------------------------------------------------------------------
(* A non-empty set of positions of a sequence has a greatest one, and Max  *)
(* returns it.                                                             *)
LEMMA MaxInSet ==
    ASSUME NEW n \in Nat, NEW S \in SUBSET (1..n), S # {}
    PROVE  Max(S) \in S /\ \A y \in S : Max(S) >= y
<1> DEFINE T == {n - x : x \in S}
<1>1. \A x \in S : x \in Nat /\ n - x \in Nat
    OBVIOUS
<1>2. T \subseteq Nat /\ T # {}
    <2>1. T \subseteq Nat
        BY <1>1
    <2>2. PICK x \in S : TRUE
        OBVIOUS
    <2>3. n - x \in T
        OBVIOUS
    <2> QED
        BY <2>1, <2>3
<1>3. PICK t \in T : \A u \in T : ~ (<<u, t>> \in OpToRel(<, Nat))
    <2> HIDE DEF T
    <2> QED
        BY <1>2, WFMin, NatLessThanWellFounded
<1>4. \A u \in T : ~ (u < t)
    BY <1>2, <1>3 DEF OpToRel
<1>5. PICK x \in S : t = n - x
    BY <1>3
<1>6. \A y \in S : ~ (n - y < n - x)
    BY <1>4, <1>5
<1>7. \A y \in S : x >= y
    BY <1>1, <1>6
<1> QED
    BY <1>7 DEF Max

(* get_last_audit_hash returns a hash, that of the run's newest row if it  *)
(* has one.                                                                *)
LEMMA NewestRow ==
    ASSUME db \in Seq(Event), NEW r \in Runs, RowsOf(r) # {}
    PROVE  /\ Max(RowsOf(r)) \in RowsOf(r)
           /\ \A i \in RowsOf(r) : Max(RowsOf(r)) >= i
<1>1. Len(db) \in Nat /\ RowsOf(r) \in SUBSET (1..Len(db))
    BY DEF RowsOf
<1> QED
    BY <1>1, MaxInSet

LEMMA LastHashType ==
    ASSUME db \in Seq(Event), NEW r \in Runs
    PROVE  GetLastAuditHash(r) \in Hashes
<1>1. CASE RowsOf(r) = {}
    BY <1>1 DEF GetLastAuditHash, NoHash, Hashes
<1>2. CASE RowsOf(r) # {}
    <2>1. Max(RowsOf(r)) \in DOMAIN db
        BY <1>2, NewestRow DEF RowsOf
    <2>2. db[Max(RowsOf(r))] \in Event
        BY <2>1
    <2> QED
        BY <1>2, <2>2 DEF GetLastAuditHash, Event
<1> QED
    BY <1>1, <1>2

LEMMA EventHashType ==
    ASSUME NEW r \in Runs, NEW type \in EventTypes, NEW prev \in Hashes
    PROVE  ComputeEventHash(r, type, prev) \in Hashes
BY DEF ComputeEventHash, Hashes, Core

(* The file keeps its type and gains no readable line but the one added.   *)
LEMMA AddToFileEffect ==
    ASSUME TypeOK, NEW line \in Event \cup {Torn}, NEW open \in BOOLEAN,
           AddToFile(line, open)
    PROVE  /\ jsonl' \in Seq(Event \cup {Torn})
           /\ tailOpen' \in BOOLEAN
           /\ \A k \in DOMAIN jsonl' :
                 \/ jsonl'[k] = Torn
                 \/ k \in DOMAIN jsonl /\ jsonl'[k] = jsonl[k]
                 \/ k = Len(jsonl) + 1 /\ DOMAIN jsonl = 1..(k - 1) /\ jsonl'[k] = line
<1>1. CASE tailOpen
    <2>1. jsonl' = [jsonl EXCEPT ![Len(jsonl)] = Torn] /\ tailOpen' = open
        BY <1>1 DEF AddToFile
    <2>2. jsonl \in Seq(Event \cup {Torn})
        BY DEF TypeOK
    <2>3. jsonl' \in Seq(Event \cup {Torn}) /\ DOMAIN jsonl' = DOMAIN jsonl
        <3>1. CASE Len(jsonl) \in 1..Len(jsonl)
            BY <2>1, <2>2, <3>1, ExceptSeq, Torn \in Event \cup {Torn}
        <3>2. CASE Len(jsonl) \notin 1..Len(jsonl)
            <4>1. jsonl = <<>>
                BY <2>2, <3>2, EmptySeq
            <4>2. jsonl' = <<>>
                BY <2>1, <4>1
            <4> QED
                BY <4>1, <4>2
        <3> QED
            BY <3>1, <3>2
    <2>4. \A k \in DOMAIN jsonl' : jsonl'[k] = Torn \/ jsonl'[k] = jsonl[k]
        BY <2>1
    <2> QED
        BY <2>1, <2>3, <2>4
<1>2. CASE ~ tailOpen
    <2>1. jsonl' = Append(jsonl, line) /\ tailOpen' = open
        BY <1>2 DEF AddToFile
    <2>2. jsonl \in Seq(Event \cup {Torn})
        BY DEF TypeOK
    <2> QED
        BY <2>1, <2>2
<1> QED
    BY <1>1, <1>2
-----------------------------------------------------------------------------
LEMMA InitIInv == Init => IInv
<1> SUFFICES ASSUME Init PROVE IInv
    OBVIOUS
<1>1. TypeOK
    <2>1. db \in Seq(Event) /\ jsonl \in Seq(Event \cup {Torn}) /\ tailOpen \in BOOLEAN
        BY EmptySeq DEF Init
    <2>2. pc \in [Runs -> {"idle", "hashed", "inserted", "dead"}]
        BY DEF Init
    <2>3. held \in [Runs -> Event \cup {NoEvent}]
        BY DEF Init
    <2> QED
        BY <2>1, <2>2, <2>3 DEF TypeOK
<1>2. SeqIsPosition /\ ChainLinked /\ LinesMirrorRows /\ LinesInSeqOrder
    BY DEF Init, SeqIsPosition, ChainLinked, LinesMirrorRows, LinesInSeqOrder
<1>3. HeldChained /\ HeldNewest
    BY DEF Init, HeldChained, HeldNewest
<1> QED
    BY <1>1, <1>2, <1>3 DEF IInv

(* A step that leaves the table alone keeps what is said of it.            *)
LEMMA TableKept ==
    ASSUME db' = db
    PROVE  /\ SeqIsPosition => SeqIsPosition'
           /\ ChainLinked => ChainLinked'
           /\ \A r \in Runs : GetLastAuditHash(r)' = GetLastAuditHash(r)
BY DEF SeqIsPosition, ChainLinked, Linked, GetLastAuditHash, RowsOf

LEMMA BuildEventStep ==
    ASSUME IInv, NEW r \in Runs, NEW type \in EventTypes, BuildEvent(r, type)
    PROVE  IInv'
<1> DEFINE prev == GetLastAuditHash(r)
           new == [seq |-> 0, run |-> r, type |-> type, prev |-> prev,
                   hash |-> ComputeEventHash(r, type, prev)]
<1> USE DEF IInv
<1>1. prev \in Hashes /\ ComputeEventHash(r, type, prev) \in Hashes
    BY LastHashType, EventHashType DEF TypeOK
<1>2. new \in Event
    BY <1>1 DEF Event
<1>3. /\ db' = db /\ jsonl' = jsonl /\ tailOpen' = tailOpen
      /\ held' = [held EXCEPT ![r] = new]
      /\ pc' = [pc EXCEPT ![r] = "hashed"]
    BY DEF BuildEvent
<1>4. TypeOK'
    BY <1>2, <1>3 DEF TypeOK
<1>5. SeqIsPosition' /\ ChainLinked'
    BY <1>3, TableKept
<1>6. HeldChained'
    <2> SUFFICES ASSUME NEW q \in Runs, pc'[q] = "hashed"
                 PROVE  /\ held'[q] \in Event
                        /\ held'[q].run = q
                        /\ held'[q].prev = GetLastAuditHash(q)
                        /\ held'[q].hash = ComputeEventHash(q, held'[q].type, held'[q].prev)
        BY <1>3, TableKept DEF HeldChained
    <2>1. CASE q = r
        BY <1>2, <1>3, <2>1 DEF TypeOK
    <2>2. CASE q # r
        BY <1>3, <2>2 DEF TypeOK, HeldChained
    <2> QED
        BY <2>1, <2>2
<1>7. HeldNewest'
    BY <1>3 DEF TypeOK, HeldNewest
<1>8. LinesMirrorRows' /\ LinesInSeqOrder'
    BY <1>3 DEF LinesMirrorRows, LinesInSeqOrder
<1> QED
    BY <1>4, <1>5, <1>6, <1>7, <1>8

(* The row that is inserted continues its run's chain, behind all others.  *)
LEMMA InsertRow ==
    ASSUME IInv, NEW r \in Runs, InsertAuditEvent(r)
    PROVE  LET n == Len(db)
               row == [held[r] EXCEPT !.seq = n + 1]
           IN  /\ /\ pc[r] = "hashed" /\ db' = Append(db, row)
                  /\ jsonl' = jsonl /\ tailOpen' = tailOpen
                  /\ held' = [held EXCEPT ![r] = row]
                  /\ pc' = [pc EXCEPT ![r] = "inserted"]
               /\ n \in Nat /\ DOMAIN db = 1..n /\ \A i \in 1..n : db[i] \in Event
               /\ /\ row \in Event /\ row.seq = n + 1 /\ row.run = r
                  /\ row.type = held[r].type
                  /\ row.prev = GetLastAuditHash(r)
                  /\ row.hash = ComputeEventHash(r, row.type, row.prev)
               /\ /\ db' \in Seq(Event)
                  /\ DOMAIN db' = 1..(n + 1)
                  /\ db'[n + 1] = row
                  /\ \A i \in 1..n : db'[i] = db[i]
               /\ \A q \in Runs :
                     RowsOf(q)' = IF q = r THEN RowsOf(q) \cup {n + 1} ELSE RowsOf(q)
<1> DEFINE n == Len(db)
           row == [held[r] EXCEPT !.seq = n + 1]
<1> USE DEF IInv
<1>1. /\ pc[r] = "hashed" /\ db' = Append(db, row)
      /\ jsonl' = jsonl /\ tailOpen' = tailOpen
      /\ held' = [held EXCEPT ![r] = row]
      /\ pc' = [pc EXCEPT ![r] = "inserted"]
    BY DEF InsertAuditEvent
<1>2. n \in Nat /\ DOMAIN db = 1..n /\ \A i \in 1..n : db[i] \in Event
    BY DEF TypeOK
<1>3. /\ held[r] \in Event
      /\ held[r].run = r
      /\ held[r].prev = GetLastAuditHash(r)
      /\ held[r].hash = ComputeEventHash(r, held[r].type, held[r].prev)
    BY <1>1 DEF HeldChained
<1>4. /\ row \in Event /\ row.seq = n + 1 /\ row.run = r
      /\ row.type = held[r].type
      /\ row.prev = GetLastAuditHash(r)
      /\ row.hash = ComputeEventHash(r, row.type, row.prev)
    BY <1>2, <1>3 DEF Event
<1> HIDE DEF row
<1>5. /\ db' \in Seq(Event)
      /\ DOMAIN db' = 1..(n + 1)
      /\ db'[n + 1] = row
      /\ \A i \in 1..n : db'[i] = db[i]
    BY <1>1, <1>2, <1>4 DEF TypeOK
<1>6. \A q \in Runs : RowsOf(q)' = IF q = r THEN RowsOf(q) \cup {n + 1} ELSE RowsOf(q)
    BY <1>2, <1>4, <1>5 DEF RowsOf
<1> QED
    BY <1>1, <1>2, <1>4, <1>5, <1>6 DEF row

LEMMA InsertAuditEventStep ==
    ASSUME IInv, NEW r \in Runs, InsertAuditEvent(r)
    PROVE  IInv'
<1> DEFINE n == Len(db)
           row == [held[r] EXCEPT !.seq = n + 1]
<1> USE DEF IInv
<1>1. /\ pc[r] = "hashed" /\ db' = Append(db, row)
      /\ jsonl' = jsonl /\ tailOpen' = tailOpen
      /\ held' = [held EXCEPT ![r] = row]
      /\ pc' = [pc EXCEPT ![r] = "inserted"]
    BY InsertRow
<1>2. n \in Nat /\ DOMAIN db = 1..n /\ \A i \in 1..n : db[i] \in Event
    BY InsertRow
<1>4. /\ row \in Event /\ row.seq = n + 1 /\ row.run = r
      /\ row.prev = GetLastAuditHash(r)
      /\ row.hash = ComputeEventHash(r, row.type, row.prev)
    BY InsertRow
<1>5. /\ db' \in Seq(Event)
      /\ DOMAIN db' = 1..(n + 1)
      /\ db'[n + 1] = row
      /\ \A i \in 1..n : db'[i] = db[i]
    BY InsertRow
<1>6. \A q \in Runs : RowsOf(q)' = IF q = r THEN RowsOf(q) \cup {n + 1} ELSE RowsOf(q)
    BY InsertRow
<1> HIDE DEF row
<1>7. \A q \in Runs \ {r} : GetLastAuditHash(q)' = GetLastAuditHash(q)
    <2> SUFFICES ASSUME NEW q \in Runs \ {r}
                 PROVE  GetLastAuditHash(q)' = GetLastAuditHash(q)
        OBVIOUS
    <2>1. RowsOf(q)' = RowsOf(q)
        BY <1>6
    <2>2. CASE RowsOf(q) = {}
        BY <2>1, <2>2 DEF GetLastAuditHash
    <2>3. CASE RowsOf(q) # {}
        <3>1. Max(RowsOf(q)) \in 1..n
            BY <1>2, <2>3, NewestRow DEF TypeOK, RowsOf
        <3>2. db'[Max(RowsOf(q))] = db[Max(RowsOf(q))]
            BY <1>5, <3>1
        <3> QED
            BY <2>1, <2>3, <3>2 DEF GetLastAuditHash
    <2> QED
        BY <2>2, <2>3
<1>8. TypeOK'
    BY <1>1, <1>4, <1>5 DEF TypeOK
<1>9. SeqIsPosition'
    BY <1>2, <1>4, <1>5 DEF SeqIsPosition
<1>10. ChainLinked'
    <2> SUFFICES ASSUME NEW i \in 1..(n + 1) PROVE Linked(i)'
        BY <1>5 DEF ChainLinked
    <2>1. CASE i = n + 1
        <3>1. db'[i] = row
            BY <1>5, <2>1
        <3>2. {j \in RowsOf(r)' : j < i} = RowsOf(r)
            BY <1>2, <1>6, <2>1 DEF RowsOf
        <3>3. {j \in RowsOf(db[i].run)' : j < i} = RowsOf(r)
            BY <1>4, <3>1, <3>2 DEF RowsOf
        <3>4. CASE RowsOf(r) = {}
            BY <1>4, <3>1, <3>3, <3>4 DEF GetLastAuditHash, Linked
        <3>5. CASE RowsOf(r) # {}
            <4>1. Max(RowsOf(r)) \in 1..n
                BY <1>2, <3>5, NewestRow DEF TypeOK, RowsOf
            <4>2. db'[Max(RowsOf(r))] = db[Max(RowsOf(r))]
                BY <1>5, <4>1
            <4> QED
                BY <1>4, <3>1, <3>3, <3>5, <4>2 DEF GetLastAuditHash, Linked
        <3> QED
            BY <3>4, <3>5
    <2>2. CASE i # n + 1
        <3> DEFINE q == db[i].run
                   older == {j \in RowsOf(q) : j < i}
        <3>1. i \in 1..n /\ db'[i] = db[i] /\ q \in Runs
            BY <1>2, <1>5, <2>2 DEF Event
        <3>2. {j \in RowsOf(db[i].run)' : j < i} = older
            BY <1>2, <1>5, <3>1 DEF RowsOf
        <3>3. /\ db[i].hash = ComputeEventHash(q, db[i].type, db[i].prev)
              /\ db[i].prev = IF older = {} THEN NoHash ELSE db[Max(older)].hash
            BY <1>2, <3>1 DEF ChainLinked, Linked
        <3>4. CASE older = {}
            BY <3>1, <3>2, <3>3, <3>4 DEF Linked
        <3>5. CASE older # {}
            <4>1. older \in SUBSET (1..n)
                BY <1>2 DEF RowsOf
            <4>2. Max(older) \in 1..n
                BY <1>2, <3>5, <4>1, MaxInSet
            <4>3. db'[Max(older)] = db[Max(older)]
                BY <1>5, <4>2
            <4> QED
                BY <3>1, <3>2, <3>3, <3>5, <4>3 DEF Linked
        <3> QED
            BY <3>4, <3>5
    <2> QED
        BY <2>1, <2>2
<1>11. HeldChained'
    <2> SUFFICES ASSUME NEW q \in Runs, pc'[q] = "hashed"
                 PROVE  /\ held'[q] \in Event
                        /\ held'[q].run = q
                        /\ held'[q].prev = GetLastAuditHash(q)'
                        /\ held'[q].hash = ComputeEventHash(q, held'[q].type, held'[q].prev)
        BY DEF HeldChained
    <2>1. q # r /\ pc[q] = "hashed" /\ held'[q] = held[q]
        BY <1>1 DEF TypeOK
    <2>2. GetLastAuditHash(q)' = GetLastAuditHash(q)
        BY <1>7, <2>1
    <2> QED
        BY <2>1, <2>2 DEF HeldChained
<1>12. HeldNewest'
    <2> SUFFICES ASSUME NEW q \in Runs, pc'[q] = "inserted"
                 PROVE  /\ held'[q] \in Event
                        /\ held'[q].run = q
                        /\ held'[q].seq \in DOMAIN db'
                        /\ db'[held'[q].seq] = held'[q]
                        /\ \A k \in DOMAIN jsonl' :
                              jsonl'[k] # Torn /\ jsonl'[k].run = q
                                  => jsonl'[k].seq < held'[q].seq
        BY DEF HeldNewest
    <2>1. CASE q = r
        <3>1. held'[q] = row
            BY <1>1, <2>1 DEF TypeOK
        <3>2. \A k \in DOMAIN jsonl : jsonl[k] # Torn => jsonl[k].seq \in 1..n
            BY <1>2 DEF LinesMirrorRows
        <3> QED
            BY <1>1, <1>2, <1>4, <1>5, <2>1, <3>1, <3>2
    <2>2. CASE q # r
        <3>1. held'[q] = held[q] /\ pc[q] = "inserted"
            BY <1>1, <2>2 DEF TypeOK
        <3>2. held[q].seq \in 1..n
            BY <1>2, <3>1 DEF HeldNewest
        <3> QED
            BY <1>1, <1>2, <1>5, <3>1, <3>2 DEF HeldNewest
    <2> QED
        BY <2>1, <2>2
<1>13. LinesMirrorRows'
    BY <1>1, <1>2, <1>5 DEF LinesMirrorRows
<1>14. LinesInSeqOrder'
    BY <1>1 DEF LinesInSeqOrder
<1> QED
    BY <1>8, <1>9, <1>10, <1>11, <1>12, <1>13, <1>14

(* A call ends without touching the table or the file.                     *)
LEMMA ReturnStep ==
    ASSUME IInv, NEW r \in Runs, NEW to \in {"idle", "dead"},
           pc' = [pc EXCEPT ![r] = to], held' = [held EXCEPT ![r] = NoEvent],
           UNCHANGED <<db, jsonl, tailOpen>>
    PROVE  IInv'
<1> USE DEF IInv
<1>1. TypeOK'
    BY DEF TypeOK
<1>2. SeqIsPosition' /\ ChainLinked' /\ \A q \in Runs : GetLastAuditHash(q)' = GetLastAuditHash(q)
    BY TableKept
<1>3. \A q \in Runs : pc'[q] \in {"hashed", "inserted"} => q # r /\ pc'[q] = pc[q] /\ held'[q] = held[q]
    BY DEF TypeOK
<1>4. HeldChained'
    BY <1>2, <1>3 DEF HeldChained
<1>5. HeldNewest'
    BY <1>3 DEF HeldNewest
<1>6. LinesMirrorRows' /\ LinesInSeqOrder'
    BY DEF LinesMirrorRows, LinesInSeqOrder
<1> QED
    BY <1>1, <1>2, <1>4, <1>5, <1>6

(* A call ends after adding its line, a piece of it, or the line without   *)
(* its newline to the file.                                                *)
LEMMA FileStep ==
    ASSUME IInv, NEW r \in Runs, pc[r] = "inserted",
           NEW line \in {held[r], Torn}, NEW open \in BOOLEAN,
           AddToFile(line, open), Return(r), UNCHANGED db
    PROVE  IInv'
<1> USE DEF IInv
<1>1. /\ held[r] \in Event /\ held[r].run = r
      /\ held[r].seq \in DOMAIN db /\ db[held[r].seq] = held[r]
      /\ \A k \in DOMAIN jsonl :
            jsonl[k] # Torn /\ jsonl[k].run = r => jsonl[k].seq < held[r].seq
    BY DEF HeldNewest
<1>2. /\ jsonl' \in Seq(Event \cup {Torn})
      /\ tailOpen' \in BOOLEAN
      /\ \A k \in DOMAIN jsonl' :
            \/ jsonl'[k] = Torn
            \/ k \in DOMAIN jsonl /\ jsonl'[k] = jsonl[k]
            \/ k = Len(jsonl) + 1 /\ DOMAIN jsonl = 1..(k - 1) /\ jsonl'[k] = line
    BY <1>1, AddToFileEffect
<1>3. /\ pc' = [pc EXCEPT ![r] = "idle"] /\ held' = [held EXCEPT ![r] = NoEvent]
      /\ db' = db
    BY DEF Return
<1>4. TypeOK'
    BY <1>2, <1>3 DEF TypeOK
<1>5. SeqIsPosition' /\ ChainLinked' /\ \A q \in Runs : GetLastAuditHash(q)' = GetLastAuditHash(q)
    BY <1>3, TableKept
<1>6. \A q \in Runs : pc'[q] \in {"hashed", "inserted"} => q # r /\ pc'[q] = pc[q] /\ held'[q] = held[q]
    BY <1>3 DEF TypeOK
<1>7. HeldChained'
    BY <1>5, <1>6 DEF HeldChained
<1>8. HeldNewest'
    <2> SUFFICES ASSUME NEW q \in Runs, pc'[q] = "inserted"
                 PROVE  /\ held'[q] \in Event
                        /\ held'[q].run = q
                        /\ held'[q].seq \in DOMAIN db'
                        /\ db'[held'[q].seq] = held'[q]
                        /\ \A k \in DOMAIN jsonl' :
                              jsonl'[k] # Torn /\ jsonl'[k].run = q
                                  => jsonl'[k].seq < held'[q].seq
        BY DEF HeldNewest
    <2>1. q # r /\ pc[q] = "inserted" /\ held'[q] = held[q]
        BY <1>6
    <2>2. /\ held[q] \in Event /\ held[q].run = q
          /\ held[q].seq \in DOMAIN db /\ db[held[q].seq] = held[q]
          /\ \A k \in DOMAIN jsonl :
                jsonl[k] # Torn /\ jsonl[k].run = q => jsonl[k].seq < held[q].seq
        BY <2>1 DEF HeldNewest
    <2> QED
        BY <1>1, <1>2, <1>3, <2>1, <2>2
<1>9. LinesMirrorRows'
    BY <1>1, <1>2, <1>3 DEF LinesMirrorRows
<1>10. LinesInSeqOrder'
    <2> SUFFICES ASSUME NEW k \in DOMAIN jsonl', NEW m \in DOMAIN jsonl', k < m,
                        jsonl'[k] # Torn, jsonl'[m] # Torn, jsonl'[k].run = jsonl'[m].run
                 PROVE  jsonl'[k].seq < jsonl'[m].seq
        BY DEF LinesInSeqOrder
    <2>1. k \in DOMAIN jsonl /\ jsonl'[k] = jsonl[k]
        <3>1. CASE m \in DOMAIN jsonl
            <4>1. DOMAIN jsonl = 1..Len(jsonl) /\ Len(jsonl) \in Nat
                BY DEF TypeOK
            <4>2. k # Len(jsonl) + 1
                BY <3>1, <4>1
            <4> QED
                BY <1>2, <4>2
        <3>2. CASE m \notin DOMAIN jsonl
            BY <1>2, <3>2
        <3> QED
            BY <3>1, <3>2
    <2>2. CASE m \in DOMAIN jsonl /\ jsonl'[m] = jsonl[m]
        BY <2>1, <2>2 DEF LinesInSeqOrder
    <2>3. CASE jsonl'[m] = line
        BY <1>1, <2>1, <2>3
    <2> QED
        BY <1>2, <2>2, <2>3
<1> QED
    BY <1>4, <1>5, <1>7, <1>8, <1>9, <1>10

LEMMA NextStep == IInv /\ [Next]_vars => IInv'
<1> SUFFICES ASSUME IInv, [Next]_vars PROVE IInv'
    OBVIOUS
<1>1. CASE UNCHANGED vars
    <2> USE <1>1 DEF vars, IInv
    <2>1. TypeOK' /\ LinesMirrorRows' /\ LinesInSeqOrder'
        BY DEF TypeOK, LinesMirrorRows, LinesInSeqOrder
    <2>2. SeqIsPosition' /\ ChainLinked' /\ \A q \in Runs : GetLastAuditHash(q)' = GetLastAuditHash(q)
        BY TableKept
    <2>3. HeldChained' /\ HeldNewest'
        BY <2>2 DEF HeldChained, HeldNewest
    <2> QED
        BY <2>1, <2>2, <2>3
<1>2. ASSUME NEW r \in Runs, NEW type \in EventTypes, BuildEvent(r, type) PROVE IInv'
    BY <1>2, BuildEventStep
<1>3. ASSUME NEW r \in Runs, InsertAuditEvent(r) PROVE IInv'
    BY <1>3, InsertAuditEventStep
<1>4. ASSUME NEW r \in Runs, InsertRaises(r) PROVE IInv'
    BY <1>4, ReturnStep DEF InsertRaises, Return
<1>5. ASSUME NEW r \in Runs, WriteLine(r) PROVE IInv'
    BY <1>5, FileStep DEF WriteLine
<1>6. ASSUME NEW r \in Runs, WriteRaises(r) PROVE IInv'
    <2>1. CASE UNCHANGED <<jsonl, tailOpen>>
        BY <1>6, <2>1, ReturnStep DEF WriteRaises, Return
    <2>2. CASE AddToFile(Torn, TRUE)
        BY <1>6, <2>2, FileStep DEF WriteRaises
    <2>3. CASE AddToFile(held[r], TRUE)
        BY <1>6, <2>3, FileStep DEF WriteRaises
    <2> QED
        BY <1>6, <2>1, <2>2, <2>3 DEF WriteRaises
<1>7. ASSUME NEW r \in Runs, Crash(r) PROVE IInv'
    BY <1>7, ReturnStep DEF Crash
<1> QED
    BY <1>1, <1>2, <1>3, <1>4, <1>5, <1>6, <1>7 DEF Next
-----------------------------------------------------------------------------
(* The strengthened invariant holds in every reachable state.              *)
THEOREM Invariance == Spec => []IInv
<1>1. Init => IInv
    BY InitIInv
<1>2. IInv /\ [Next]_vars => IInv'
    BY NextStep
<1> QED
    BY <1>1, <1>2, PTL DEF Spec

(* Every variable keeps its type.                                          *)
THEOREM TypeCorrect == Spec => []TypeOK
<1>1. IInv => TypeOK
    BY DEF IInv
<1> QED
    BY <1>1, Invariance, PTL

(* The SQLite rows of every run form one hash chain from null, for any     *)
(* number of concurrent runs, failed calls and crashes.                    *)
THEOREM ChainAlwaysLinked == Spec => []ChainLinked
<1>1. IInv => ChainLinked
    BY DEF IInv
<1> QED
    BY <1>1, Invariance, PTL

(* The JSONL file never holds an event the table does not hold, nor one    *)
(* under another seq, and keeps the events of a run in the table's order.  *)
THEOREM FileFollowsTable == Spec => []JsonlFollowsTable
<1>1. IInv => JsonlFollowsTable
    BY DEF IInv, JsonlFollowsTable
<1> QED
    BY <1>1, Invariance, PTL
-----------------------------------------------------------------------------
(***************************************************************************)
(* Places: the positions of a run's events in a log are a set of positive  *)
(* numbers, which Nth enumerates in ascending order.                       *)
(***************************************************************************)
Positions == UNION {SUBSET (1..n) : n \in Nat}

Upto(S, i) == {j \in S : j <= i}

Rank(S, i) == Cardinality(Upto(S, i))

LEMMA PositionsAreNumbers ==
    ASSUME NEW S \in Positions
    PROVE  /\ S \subseteq Nat /\ IsFiniteSet(S) /\ Cardinality(S) \in Nat
           /\ SUBSET S \subseteq Positions
           /\ S # {} => Max(S) \in S /\ \A y \in S : Max(S) >= y
<1>1. PICK n \in Nat : S \in SUBSET (1..n)
    BY DEF Positions
<1>2. IsFiniteSet(1..n)
    BY FS_Interval
<1>3. IsFiniteSet(S) /\ Cardinality(S) \in Nat
    BY <1>1, <1>2, FS_Subset, FS_CardinalityType
<1>4. S \subseteq Nat /\ SUBSET S \subseteq Positions
    BY <1>1 DEF Positions
<1>5. S # {} => Max(S) \in S /\ \A y \in S : Max(S) >= y
    BY <1>1, MaxInSet
<1> QED
    BY <1>3, <1>4, <1>5

LEMMA UptoIsPart ==
    ASSUME NEW S \in Positions, NEW i \in Nat
    PROVE  /\ Upto(S, i) \in SUBSET S /\ Upto(S, i) \in Positions
           /\ Rank(S, i) \in Nat /\ Rank(S, i) <= Cardinality(S)
<1>1. Upto(S, i) \in SUBSET S /\ Upto(S, i) \in Positions
    BY PositionsAreNumbers DEF Upto
<1>2. Rank(S, i) \in Nat
    BY <1>1, PositionsAreNumbers DEF Rank
<1>3. Cardinality(Upto(S, i)) <= Cardinality(S)
    BY <1>1, PositionsAreNumbers, FS_Subset
<1> QED
    BY <1>1, <1>2, <1>3 DEF Rank

LEMMA RankGrows ==
    ASSUME NEW S \in Positions, NEW i \in S, NEW j \in S, i < j
    PROVE  Rank(S, i) < Rank(S, j)
<1>1. i \in Nat /\ j \in Nat /\ \A x \in S : x \in Nat
    BY PositionsAreNumbers
<1>2. j \notin Upto(S, i) /\ Upto(S, i) \cup {j} \in SUBSET Upto(S, j)
    <2>1. j \notin Upto(S, i)
        BY <1>1 DEF Upto
    <2>2. j \in Upto(S, j)
        BY <1>1 DEF Upto
    <2>3. ASSUME NEW x \in Upto(S, i) PROVE x \in Upto(S, j)
        <3>1. x \in S /\ x \in Nat /\ x <= i
            BY <1>1 DEF Upto
        <3>2. x <= j
            BY <1>1, <3>1
        <3> QED
            BY <3>1, <3>2 DEF Upto
    <2> QED
        BY <2>1, <2>2, <2>3
<1>3. /\ IsFiniteSet(Upto(S, i)) /\ IsFiniteSet(Upto(S, j))
      /\ Rank(S, i) \in Nat /\ Rank(S, j) \in Nat
    BY <1>1, UptoIsPart, PositionsAreNumbers
<1>4. Cardinality(Upto(S, i) \cup {j}) = Cardinality(Upto(S, i)) + 1
    BY <1>2, <1>3, FS_AddElement
<1>5. Cardinality(Upto(S, i) \cup {j}) <= Cardinality(Upto(S, j))
    BY <1>2, <1>3, FS_Subset
<1> QED
    BY <1>3, <1>4, <1>5 DEF Rank

(* Every number up to that of the members is the rank of one.              *)
LEMMA RankReached ==
    ASSUME NEW S \in Positions, NEW k \in 1..Cardinality(S)
    PROVE  \E i \in S : Rank(S, i) = k
<1> DEFINE T == {i \in S : Rank(S, i) >= k}
<1>1. /\ Cardinality(S) \in Nat /\ S # {} /\ k \in Nat /\ k >= 1 /\ k <= Cardinality(S)
      /\ \A x \in S : x \in Nat /\ Rank(S, x) \in Nat
    <2>1. IsFiniteSet(S) /\ Cardinality(S) \in Nat /\ S \subseteq Nat
        BY PositionsAreNumbers
    <2>2. S # {}
        BY <2>1, FS_EmptySet
    <2>3. \A x \in S : x \in Nat /\ Rank(S, x) \in Nat
        BY <2>1, UptoIsPart
    <2> QED
        BY <2>1, <2>2, <2>3
<1>2. T \subseteq Nat /\ T # {}
    <2>1. Max(S) \in S /\ \A y \in S : Max(S) >= y
        BY <1>1, PositionsAreNumbers
    <2>2. Upto(S, Max(S)) = S
        BY <1>1, <2>1 DEF Upto
    <2>3. Max(S) \in T
        BY <1>1, <2>1, <2>2 DEF Rank
    <2> QED
        BY <1>1, <2>3
<1>3. PICK i \in T : \A y \in T : ~ (<<y, i>> \in OpToRel(<, Nat))
    <2> HIDE DEF T
    <2> QED
        BY <1>2, WFMin, NatLessThanWellFounded
<1>4. \A y \in T : ~ (y < i)
    BY <1>2, <1>3 DEF OpToRel
<1>5. i \in S /\ i \in Nat /\ Rank(S, i) >= k /\ Rank(S, i) \in Nat
    BY <1>1
<1> HIDE DEF T
<1>6. ASSUME Rank(S, i) # k PROVE FALSE
    <2> DEFINE U == Upto(S, i) \ {i}
    <2>1. i \in Upto(S, i) /\ Upto(S, i) \in Positions
        BY <1>5, UptoIsPart DEF Upto
    <2>2. Cardinality(U) = Rank(S, i) - 1
        BY <2>1, PositionsAreNumbers, FS_RemoveElement DEF Rank
    <2>3. Cardinality(U) \in Nat /\ Cardinality(U) >= k
        BY <1>1, <1>5, <1>6, <2>2
    <2>4. U \in Positions /\ U # {}
        <3>1. U \in Positions
            BY <2>1, PositionsAreNumbers
        <3>2. U # {}
            BY <1>1, <2>3, FS_EmptySet
        <3> QED
            BY <3>1, <3>2
    <2>5. \A x \in U : x \in S /\ x \in Nat /\ x < i
        BY <1>1, <1>5 DEF Upto
    <2> HIDE DEF U
    <2>6. Max(U) \in U /\ \A y \in U : Max(U) >= y
        BY <2>4, PositionsAreNumbers
    <2>7. Max(U) \in S /\ Max(U) \in Nat /\ Max(U) < i
        BY <2>5, <2>6
    <2>8. U \in SUBSET Upto(S, Max(U))
        BY <2>5, <2>6, <2>7 DEF Upto
    <2>9. Cardinality(U) <= Cardinality(Upto(S, Max(U)))
        BY <2>7, <2>8, UptoIsPart, PositionsAreNumbers, FS_Subset
    <2>10. Max(U) \in T
        BY <1>1, <2>3, <2>7, <2>9 DEF T, Rank
    <2> QED
        BY <1>4, <2>7, <2>10
<1> QED
    BY <1>5, <1>6

LEMMA NthInSet ==
    ASSUME NEW S \in Positions, NEW k \in 1..Cardinality(S)
    PROVE  Nth(S, k) \in S /\ Rank(S, Nth(S, k)) = k
BY RankReached DEF Nth, Rank, Upto

LEMMA NthOfRank ==
    ASSUME NEW S \in Positions, NEW i \in S
    PROVE  Rank(S, i) \in 1..Cardinality(S) /\ Nth(S, Rank(S, i)) = i
<1>1. i \in Nat /\ Cardinality(S) \in Nat /\ \A x \in S : x \in Nat
    BY PositionsAreNumbers
<1>2. i \in Upto(S, i)
    BY <1>1 DEF Upto
<1>3. Rank(S, i) \in 1..Cardinality(S)
    <2>1. IsFiniteSet(Upto(S, i)) /\ Rank(S, i) \in Nat /\ Rank(S, i) <= Cardinality(S)
        BY <1>1, UptoIsPart, PositionsAreNumbers
    <2>2. Rank(S, i) # 0
        BY <1>2, <2>1, FS_EmptySet DEF Rank
    <2> QED
        BY <1>1, <2>1, <2>2
<1> DEFINE k == Rank(S, i)
<1>4. Nth(S, k) \in S /\ Rank(S, Nth(S, k)) = k /\ k \in Nat
    BY <1>1, <1>3, NthInSet
<1> HIDE DEF k
<1>5. ~ (Nth(S, k) < i)
    BY <1>4, RankGrows DEF k
<1>6. ~ (i < Nth(S, k))
    BY <1>4, RankGrows DEF k
<1>7. Nth(S, k) = i
    <2>1. Nth(S, k) \in Nat /\ i \in Nat
        BY <1>1, <1>4
    <2> QED
        BY <1>5, <1>6, <2>1
<1> QED
    BY <1>3, <1>7 DEF k

LEMMA NthAscends ==
    ASSUME NEW S \in Positions,
           NEW k \in 1..Cardinality(S), NEW m \in 1..Cardinality(S), k < m
    PROVE  Nth(S, k) < Nth(S, m)
<1>1. /\ Nth(S, k) \in S /\ Rank(S, Nth(S, k)) = k
      /\ Nth(S, m) \in S /\ Rank(S, Nth(S, m)) = m
    BY NthInSet
<1>2. Nth(S, k) \in Nat /\ Nth(S, m) \in Nat /\ Cardinality(S) \in Nat
    BY <1>1, PositionsAreNumbers
<1>3. ~ (Nth(S, m) < Nth(S, k))
    <2> SUFFICES ASSUME Nth(S, m) < Nth(S, k) PROVE FALSE
        OBVIOUS
    <2>1. m < k
        BY <1>1, RankGrows
    <2> QED
        BY <1>2, <2>1
<1> QED
    BY <1>1, <1>2, <1>3

(* A greater number is enumerated last and changes nothing before.         *)
LEMMA NthOfMore ==
    ASSUME NEW n \in Nat, NEW S \in SUBSET (1..n)
    PROVE  /\ S \in Positions
           /\ Cardinality(S \cup {n + 1}) = Cardinality(S) + 1
           /\ \A k \in 1..Cardinality(S) : Nth(S \cup {n + 1}, k) = Nth(S, k)
           /\ Nth(S \cup {n + 1}, Cardinality(S) + 1) = n + 1
<1> DEFINE T == S \cup {n + 1}
<1>1. S \in Positions /\ T \in Positions /\ n + 1 \notin S /\ n + 1 \in Nat
    <2>1. T \in SUBSET (1..(n + 1)) /\ n + 1 \in Nat /\ n + 1 \notin S
        OBVIOUS
    <2> HIDE DEF T
    <2> QED
        BY <2>1 DEF Positions
<1>2. Cardinality(T) = Cardinality(S) + 1
    BY <1>1, PositionsAreNumbers, FS_AddElement
<1>3. \A x \in S : x \in Nat /\ x < n + 1
    OBVIOUS
<1>4. ASSUME NEW k \in 1..Cardinality(S) PROVE Nth(T, k) = Nth(S, k)
    <2>1. Nth(S, k) \in S /\ Rank(S, Nth(S, k)) = k
        BY <1>1, NthInSet
    <2>2. Upto(T, Nth(S, k)) = Upto(S, Nth(S, k))
        <3>1. Nth(S, k) \in Nat /\ Nth(S, k) < n + 1
            BY <1>3, <2>1
        <3>2. ~ (n + 1 <= Nth(S, k))
            BY <3>1
        <3> QED
            BY <3>2 DEF Upto
    <2>3. Rank(T, Nth(S, k)) = k /\ Nth(S, k) \in T
        BY <2>1, <2>2 DEF Rank
    <2> HIDE DEF T
    <2> QED
        BY <1>1, <2>3, NthOfRank
<1>5. Nth(T, Cardinality(S) + 1) = n + 1
    <2>1. Upto(T, n + 1) = T
        <3>1. \A x \in T : x <= n + 1
            BY <1>3
        <3> QED
            BY <3>1 DEF Upto
    <2>2. Rank(T, n + 1) = Cardinality(S) + 1 /\ n + 1 \in T
        BY <1>2, <2>1 DEF Rank
    <2> HIDE DEF T
    <2> QED
        BY <1>1, <2>2, NthOfRank
<1> QED
    BY <1>1, <1>2, <1>4, <1>5
-----------------------------------------------------------------------------
(***************************************************************************)
(* The table implements AuditTrail: a row is recorded when its INSERT      *)
(* commits, and no other step changes what is recorded of any run.         *)
(***************************************************************************)
LEMMA RowsArePositions ==
    ASSUME db \in Seq(Event), NEW r \in Runs
    PROVE  RowsOf(r) \in Positions /\ RowsOf(r) \in SUBSET (1..Len(db)) /\ Len(db) \in Nat
<1>1. RowsOf(r) \in SUBSET (1..Len(db)) /\ Len(db) \in Nat
    BY DEF RowsOf
<1> QED
    BY <1>1 DEF Positions

LEMMA RecordedType ==
    ASSUME db \in Seq(Event), NEW r \in Runs
    PROVE  /\ Recorded(r) \in Seq(EventTypes)
           /\ Cardinality(RowsOf(r)) \in Nat
           /\ Len(Recorded(r)) = Cardinality(RowsOf(r))
<1> DEFINE at == RowsOf(r)
<1>1. at \in Positions /\ Cardinality(at) \in Nat /\ at \subseteq DOMAIN db
    BY RowsArePositions, PositionsAreNumbers DEF RowsOf
<1>2. ASSUME NEW k \in 1..Cardinality(at) PROVE db[Nth(at, k)].type \in EventTypes
    <2>1. Nth(at, k) \in DOMAIN db
        BY <1>1, NthInSet
    <2>2. db[Nth(at, k)] \in Event
        BY <2>1
    <2> QED
        BY <2>2 DEF Event
<1>3. Recorded(r) = [k \in 1..Cardinality(at) |-> db[Nth(at, k)].type]
    BY DEF Recorded
<1> HIDE DEF at
<1>4. Recorded(r) \in Seq(EventTypes) /\ Len(Recorded(r)) = Cardinality(at)
    BY <1>1, <1>2, <1>3
<1> QED
    BY <1>1, <1>4 DEF at

LEMMA InsertRecords ==
    ASSUME IInv, NEW r \in Runs, InsertAuditEvent(r)
    PROVE  /\ held[r].type \in EventTypes
           /\ Recorded(r)' = Append(Recorded(r), held[r].type)
           /\ \A q \in Runs \ {r} : Recorded(q)' = Recorded(q)
<1> DEFINE n == Len(db)
           e == held[r].type
<1>1. /\ n \in Nat /\ db' \in Seq(Event) /\ DOMAIN db = 1..n
      /\ db'[n + 1].type = e /\ e \in EventTypes
      /\ \A i \in 1..n : db'[i] = db[i]
      /\ \A q \in Runs : RowsOf(q)' = IF q = r THEN RowsOf(q) \cup {n + 1} ELSE RowsOf(q)
    BY InsertRow DEF Event
<1>2. db \in Seq(Event)
    BY DEF IInv, TypeOK
<1>3. ASSUME NEW q \in Runs \ {r} PROVE Recorded(q)' = Recorded(q)
    <2>1. RowsOf(q)' = RowsOf(q) /\ RowsOf(q) \in Positions /\ RowsOf(q) \in SUBSET (1..n)
        BY <1>1, <1>2, RowsArePositions
    <2>2. \A k \in 1..Cardinality(RowsOf(q)) : db'[Nth(RowsOf(q), k)] = db[Nth(RowsOf(q), k)]
        BY <1>1, <2>1, NthInSet
    <2> QED
        BY <2>1, <2>2 DEF Recorded
<1>4. Recorded(r)' = Append(Recorded(r), e)
    <2> DEFINE S == RowsOf(r)
               c == Cardinality(S)
    <2>1. S \in SUBSET (1..n) /\ RowsOf(r)' = S \cup {n + 1}
        BY <1>1, <1>2, RowsArePositions
    <2>2. /\ S \in Positions /\ Cardinality(S \cup {n + 1}) = c + 1
          /\ \A k \in 1..c : Nth(S \cup {n + 1}, k) = Nth(S, k)
          /\ Nth(S \cup {n + 1}, c + 1) = n + 1
        BY <1>1, <2>1, NthOfMore
    <2>3. \A k \in 1..c : Nth(S, k) \in 1..n
        BY <2>1, <2>2, NthInSet
    <2>4. Recorded(r)' = [k \in 1..(c + 1) |-> db'[Nth(S \cup {n + 1}, k)].type]
        BY <2>1, <2>2 DEF Recorded
    <2>5. Recorded(r) = [k \in 1..c |-> db[Nth(S, k)].type]
        BY DEF Recorded
    <2>6. Recorded(r) \in Seq(EventTypes) /\ Len(Recorded(r)) = c /\ c \in Nat
        BY <1>2, RecordedType
    <2> HIDE DEF S, c, n, e
    <2>7. /\ Append(Recorded(r), e) \in Seq(EventTypes)
          /\ DOMAIN Append(Recorded(r), e) = 1..(c + 1)
          /\ Append(Recorded(r), e)[c + 1] = e
          /\ \A k \in 1..c : Append(Recorded(r), e)[k] = Recorded(r)[k]
        BY <1>1, <2>6, AppendProperties
    <2>8. ASSUME NEW k \in 1..(c + 1)
          PROVE  db'[Nth(S \cup {n + 1}, k)].type = Append(Recorded(r), e)[k]
        <3>1. CASE k = c + 1
            <4>1. Nth(S \cup {n + 1}, k) = n + 1 /\ Append(Recorded(r), e)[k] = e
                BY <2>2, <2>7, <3>1
            <4> QED
                BY <1>1, <4>1
        <3>2. CASE k \in 1..c
            <4>1. Nth(S \cup {n + 1}, k) = Nth(S, k) /\ Nth(S, k) \in 1..n
                BY <2>2, <2>3, <3>2
            <4>2. Append(Recorded(r), e)[k] = Recorded(r)[k]
                BY <2>7, <3>2
            <4>3. Recorded(r)[k] = db[Nth(S, k)].type
                BY <2>5, <3>2
            <4> QED
                BY <1>1, <4>1, <4>2, <4>3
        <3> QED
            BY <2>6, <3>1, <3>2
    <2>9. Append(Recorded(r), e) = [k \in 1..(c + 1) |-> Append(Recorded(r), e)[k]]
        <3>1. Append(Recorded(r), e) \in [1..(c + 1) -> EventTypes]
            BY <2>6, <2>7, LenProperties
        <3> QED
            BY <3>1
    <2> QED
        BY <2>4, <2>8, <2>9
<1> QED
    BY <1>1, <1>3, <1>4

(* Each step of the writers is a step of the trails or leaves them alone.  *)
LEMMA StepImplementsTrail ==
    IInv /\ [Next]_vars => [Trail!TrailNext]_[r \in Runs |-> Recorded(r)]
<1> SUFFICES ASSUME IInv, [Next]_vars
             PROVE  \/ Trail!TrailNext
                    \/ [r \in Runs |-> Recorded(r)]' = [r \in Runs |-> Recorded(r)]
    OBVIOUS
<1>1. ASSUME NEW r \in Runs, InsertAuditEvent(r) PROVE Trail!TrailNext
    <2> DEFINE e == held[r].type
    <2>1. /\ e \in EventTypes
          /\ Recorded(r)' = Append(Recorded(r), e)
          /\ \A q \in Runs \ {r} : Recorded(q)' = Recorded(q)
        BY <1>1, InsertRecords
    <2> HIDE DEF e
    <2>2. [q \in Runs |-> Recorded(q)]'
            = [[q \in Runs |-> Recorded(q)] EXCEPT ![r] = Append(@, e)]
        BY <2>1
    <2> QED
        BY <2>1, <2>2 DEF Trail!TrailNext, Trail!Record
<1>2. CASE ~ \E r \in Runs : InsertAuditEvent(r)
    <2>1. db' = db
        BY <1>2 DEF Next, vars, BuildEvent, InsertRaises, WriteLine, WriteRaises, Crash
    <2> QED
        BY <2>1 DEF Recorded, RowsOf
<1> QED
    BY <1>1, <1>2

(* The SQLite table with its writers is a set of trails: rows are only     *)
(* ever added, one at a time, at the end of the trail of their own run,    *)
(* for any number of runs, failed calls and crashes (AuditLogger.append).  *)
THEOREM TableImplementsTrail == Spec => ImplementsTrail
<1>1. Init => Trail!TrailInit
    <2> SUFFICES ASSUME Init, NEW r \in Runs PROVE Recorded(r) = <<>>
        BY DEF Trail!TrailInit
    <2>1. RowsOf(r) = {} /\ db \in Seq(Event)
        BY EmptySeq DEF Init, RowsOf
    <2>2. Recorded(r) \in Seq(EventTypes) /\ Len(Recorded(r)) = 0
        BY <2>1, RecordedType, FS_EmptySet
    <2> QED
        BY <2>2, EmptySeq
<1>2. IInv /\ [Next]_vars => [Trail!TrailNext]_[r \in Runs |-> Recorded(r)]
    BY StepImplementsTrail
<1> QED
    BY <1>1, <1>2, Invariance, PTL DEF Spec, ImplementsTrail, Trail!TrailSpec
-----------------------------------------------------------------------------
(***************************************************************************)
(* Verification.  A hash holds the whole history of its event, so the hash *)
(* of the n-th event of a linked trail has length n (LengthOfHash).  A row *)
(* is therefore told by its hash, and lines that are linked can only be a  *)
(* prefix of the rows (LinkedLinesArePrefix).                              *)
(***************************************************************************)
LEMMA MinInSet ==
    ASSUME NEW S \in SUBSET Nat, S # {}
    PROVE  Min(S) \in S
<1>1. PICK i \in S : \A y \in S : ~ (<<y, i>> \in OpToRel(<, Nat))
    BY WFMin, NatLessThanWellFounded
<1>2. \A y \in S : ~ (y < i)
    BY <1>1 DEF OpToRel
<1>3. \A y \in S : i <= y
    BY <1>2
<1> QED
    BY <1>3 DEF Min

LinkedEvents(s) == \A i \in DOMAIN s : ~ LinkBroken(s, i) /\ ~ HashWrong(s, i)

LEMMA LengthOfHash ==
    ASSUME NEW s \in Seq(Event), LinkedEvents(s), NEW k \in 1..Len(s)
    PROVE  Len(s[k].hash) = k
<1> DEFINE T == {i \in 1..Len(s) : Len(s[i].hash) # i}
<1>1. ASSUME T # {} PROVE FALSE
    <2>1. T \subseteq Nat
        OBVIOUS
    <2>2. PICK i \in T : \A y \in T : ~ (<<y, i>> \in OpToRel(<, Nat))
        <3> HIDE DEF T
        <3> QED
            BY <1>1, <2>1, WFMin, NatLessThanWellFounded
    <2>3. \A y \in T : ~ (y < i)
        BY <2>1, <2>2 DEF OpToRel
    <2>4. i \in 1..Len(s) /\ i \in Nat /\ Len(s[i].hash) # i /\ Len(s) \in Nat
        OBVIOUS
    <2>5. s[i] \in Event /\ s[i].prev \in Hashes
        <3>1. s[i] \in Event
            BY <2>4
        <3> QED
            BY <3>1 DEF Event
    <2>6. s[i].hash = Append(s[i].prev, <<s[i].run, s[i].type>>)
        BY <2>4 DEF LinkedEvents, HashWrong, ComputeEventHash
    <2>7. Len(s[i].hash) = Len(s[i].prev) + 1
        BY <2>5, <2>6 DEF Hashes, Core, Event
    <2>8. s[i].prev = IF i = 1 THEN NoHash ELSE s[i - 1].hash
        BY <2>4 DEF LinkedEvents, LinkBroken
    <2>9. CASE i = 1
        BY <2>4, <2>7, <2>8, <2>9 DEF NoHash
    <2>10. CASE i # 1
        <3>1. i - 1 \in 1..Len(s) /\ i - 1 < i
            BY <2>4, <2>10
        <3>2. Len(s[i - 1].hash) = i - 1
            BY <2>3, <3>1
        <3> QED
            BY <2>4, <2>7, <2>8, <2>10, <3>2
    <2> QED
        BY <2>9, <2>10
<1> QED
    BY <1>1

LEMMA EventsOfLog ==
    ASSUME NEW log \in Seq(Event), NEW r \in Runs
    PROVE  /\ Places(log, r) \in Positions
           /\ EventsOf(log, r) \in Seq(Event)
           /\ Len(EventsOf(log, r)) = Cardinality(Places(log, r))
           /\ Cardinality(Places(log, r)) \in Nat
           /\ \A k \in 1..Cardinality(Places(log, r)) :
                 /\ Nth(Places(log, r), k) \in Places(log, r)
                 /\ EventsOf(log, r)[k] = log[Nth(Places(log, r), k)]
<1> DEFINE at == Places(log, r)
<1>1. at \in SUBSET (1..Len(log)) /\ Len(log) \in Nat
    BY DEF Places
<1>2. at \in Positions
    BY <1>1 DEF Positions
<1>3. Cardinality(at) \in Nat
    BY <1>2, PositionsAreNumbers
<1>4. EventsOf(log, r) = [k \in 1..Cardinality(at) |-> log[Nth(at, k)]]
    BY DEF EventsOf
<1> HIDE DEF at
<1>5. \A k \in 1..Cardinality(at) : Nth(at, k) \in at /\ log[Nth(at, k)] \in Event
    <2>1. \A k \in 1..Cardinality(at) : Nth(at, k) \in at
        BY <1>2, NthInSet
    <2>2. \A i \in at : log[i] \in Event
        <3>1. \A i \in 1..Len(log) : log[i] \in Event
            OBVIOUS
        <3> QED
            BY <1>1, <3>1
    <2> QED
        BY <2>1, <2>2
<1>6. EventsOf(log, r) \in Seq(Event) /\ Len(EventsOf(log, r)) = Cardinality(at)
    BY <1>3, <1>4, <1>5
<1> QED
    BY <1>2, <1>3, <1>4, <1>5, <1>6 DEF at

(* The rows of a run, read in order, are linked and named by their seqs.   *)
LEMMA RowsLinked ==
    ASSUME IInv, NEW r \in Runs
    PROVE  /\ EventsOf(db, r) \in Seq(Event)
           /\ Places(db, r) = RowsOf(r) /\ RowsOf(r) \in Positions
           /\ Len(EventsOf(db, r)) = Cardinality(RowsOf(r))
           /\ \A k \in 1..Len(EventsOf(db, r)) : 
                 /\ EventsOf(db, r)[k].seq = Nth(RowsOf(r), k)
                 /\ EventsOf(db, r)[k] = db[Nth(RowsOf(r), k)]
           /\ LinkedEvents(EventsOf(db, r))
<1> DEFINE E == EventsOf(db, r)
           S == RowsOf(r)
<1>1. db \in Seq(Event) /\ Places(db, r) = S
    BY DEF IInv, TypeOK, Places, RowsOf
<1>2. /\ S \in Positions /\ E \in Seq(Event) /\ Len(E) = Cardinality(S) /\ Len(E) \in Nat
      /\ \A k \in 1..Len(E) : Nth(S, k) \in S /\ E[k] = db[Nth(S, k)]
    BY <1>1, EventsOfLog
<1>3. \A i \in S : i \in DOMAIN db /\ db[i].run = r /\ i \in Nat
    BY <1>1, <1>2, PositionsAreNumbers DEF RowsOf
<1>4. \A k \in 1..Len(E) : E[k].seq = Nth(S, k)
    BY <1>2, <1>3 DEF IInv, SeqIsPosition
<1>5. ASSUME NEW k \in 1..Len(E) PROVE ~ LinkBroken(E, k) /\ ~ HashWrong(E, k)
    <2> DEFINE i == Nth(S, k)
               before == {j \in S : j < i}
    <2>1. i \in S /\ i \in Nat /\ E[k] = db[i] /\ Rank(S, i) = k
        BY <1>2, <1>3, NthInSet
    <2>2. /\ db[i].hash = ComputeEventHash(db[i].run, db[i].type, db[i].prev)
          /\ db[i].prev = IF before = {} THEN NoHash ELSE db[Max(before)].hash
        BY <1>3, <2>1 DEF IInv, ChainLinked, Linked
    <2>3. CASE k = 1
        <3>1. ASSUME NEW j \in before PROVE FALSE
            <4>1. j \in S /\ Rank(S, j) \in 1..Cardinality(S)
                BY <1>2, NthOfRank
            <4>2. Rank(S, j) < 1
                BY <1>2, <2>1, <2>3, <4>1, RankGrows
            <4> QED
                BY <4>1, <4>2
        <3> QED
            BY <2>1, <2>2, <2>3, <3>1 DEF LinkBroken, HashWrong
    <2>4. CASE k # 1
        <3> DEFINE p == Nth(S, k - 1)
        <3>1. k - 1 \in 1..Len(E) /\ k - 1 < k
            BY <1>2, <2>4
        <3>2. p \in S /\ Rank(S, p) = k - 1 /\ E[k - 1] = db[p] /\ p < i
            BY <1>2, <3>1, NthInSet, NthAscends
        <3> HIDE DEF p, i
        <3>3. ASSUME NEW j \in before PROVE j <= p
            <4>1. j \in S /\ j < i /\ Rank(S, j) \in 1..Cardinality(S) /\ j \in Nat /\ p \in Nat
                BY <1>2, <1>3, <3>2, NthOfRank
            <4>2. Rank(S, j) < k
                BY <1>2, <2>1, <4>1, RankGrows
            <4>3. ASSUME p < j PROVE FALSE
                <5>1. k - 1 < Rank(S, j)
                    BY <1>2, <3>2, <4>1, <4>3, RankGrows
                <5> QED
                    BY <1>2, <4>1, <4>2, <5>1
            <4> QED
                BY <4>1, <4>3
        <3>4. p \in before /\ before \in Positions
            BY <1>2, <3>2, PositionsAreNumbers
        <3> HIDE DEF before
        <3>5. Max(before) \in before /\ Max(before) >= p
            BY <3>4, PositionsAreNumbers
        <3>6. Max(before) <= p /\ Max(before) \in Nat /\ p \in Nat
            BY <3>3, <3>4, <3>5, PositionsAreNumbers
        <3>7. Max(before) = p
            BY <3>5, <3>6
        <3> QED
            BY <2>1, <2>2, <2>4, <3>2, <3>4, <3>7 DEF LinkBroken, HashWrong
    <2> QED
        BY <2>3, <2>4
<1>6. LinkedEvents(E)
    BY <1>2, <1>5 DEF LinkedEvents
<1> QED
    BY <1>1, <1>2, <1>4, <1>6

(* A file that parses holds rows of the table: the lines of a run are rows *)
(* of that run, each further down the table than the line before it.       *)
LEMMA LinesAreRows ==
    ASSUME IInv, NEW r \in Runs, Torn \notin Range(jsonl)
    PROVE  /\ Kept(r) \in Seq(Event)
           /\ \A k \in 1..Len(Kept(r)) :
                 /\ Kept(r)[k].seq \in RowsOf(r)
                 /\ Kept(r)[k] = db[Kept(r)[k].seq]
                 /\ ~ HashWrong(Kept(r), k)
           /\ \A k, m \in 1..Len(Kept(r)) : k < m => Kept(r)[k].seq < Kept(r)[m].seq
<1> DEFINE K == Kept(r)
           P == Places(jsonl, r)
<1>1. jsonl \in Seq(Event) /\ \A k \in DOMAIN jsonl : jsonl[k] # Torn
    <2>1. jsonl \in Seq(Event \cup {Torn})
        BY DEF IInv, TypeOK
    <2>2. \A k \in DOMAIN jsonl : jsonl[k] # Torn
        BY DEF Range
    <2>3. \A k \in 1..Len(jsonl) : jsonl[k] \in Event
        BY <2>1, <2>2
    <2>4. Len(jsonl) \in Nat /\ jsonl = [k \in 1..Len(jsonl) |-> jsonl[k]]
        BY <2>1
    <2> QED
        BY <2>2, <2>3, <2>4
<1>2. /\ P \in Positions /\ K \in Seq(Event) /\ Len(K) = Cardinality(P) /\ Len(K) \in Nat
      /\ \A k \in 1..Len(K) : Nth(P, k) \in P /\ K[k] = jsonl[Nth(P, k)]
    BY <1>1, EventsOfLog DEF Kept
<1>3. \A i \in P : i \in DOMAIN jsonl /\ jsonl[i].run = r
    BY DEF Places
<1>4. \A k \in 1..Len(K) : K[k].run = r /\ K[k].seq \in DOMAIN db /\ K[k] = db[K[k].seq]
    BY <1>1, <1>2, <1>3 DEF IInv, LinesMirrorRows
<1>5. \A k \in 1..Len(K) : K[k].seq \in RowsOf(r)
    BY <1>4 DEF RowsOf
<1>6. \A k \in 1..Len(K) : ~ HashWrong(K, k)
    <2>1. \A i \in DOMAIN db : db[i].hash = ComputeEventHash(db[i].run, db[i].type, db[i].prev)
        BY DEF IInv, ChainLinked, Linked
    <2> QED
        BY <1>4, <2>1 DEF HashWrong
<1>7. ASSUME NEW k \in 1..Len(K), NEW m \in 1..Len(K), k < m
      PROVE  K[k].seq < K[m].seq
    <2>1. Nth(P, k) < Nth(P, m)
        BY <1>2, <1>7, NthAscends
    <2>2. /\ Nth(P, k) \in DOMAIN jsonl /\ Nth(P, m) \in DOMAIN jsonl
          /\ jsonl[Nth(P, k)].run = r /\ jsonl[Nth(P, m)].run = r
        BY <1>2, <1>3
    <2>3. jsonl[Nth(P, k)].seq < jsonl[Nth(P, m)].seq
        BY <1>1, <2>1, <2>2 DEF IInv, LinesInSeqOrder
    <2> QED
        BY <1>2, <2>3
<1> QED
    BY <1>2, <1>4, <1>5, <1>6, <1>7

(* Lines that are linked are the run's first rows.                         *)
LEMMA LinkedLinesArePrefix ==
    ASSUME IInv, NEW r \in Runs, Torn \notin Range(jsonl), LinkedEvents(Kept(r))
    PROVE  /\ Len(Kept(r)) <= Len(EventsOf(db, r))
           /\ \A k \in 1..Len(Kept(r)) : Kept(r)[k] = EventsOf(db, r)[k]
<1> DEFINE K == Kept(r)
           E == EventsOf(db, r)
           S == RowsOf(r)
<1>1. K \in Seq(Event) /\ Len(K) \in Nat
    BY LinesAreRows
<1>2. /\ E \in Seq(Event) /\ Len(E) \in Nat /\ Len(E) = Cardinality(S) /\ S \in Positions
      /\ \A k \in 1..Len(E) : E[k] = db[Nth(S, k)]
      /\ LinkedEvents(E)
    BY RowsLinked
<1>3. ASSUME NEW k \in 1..Len(K) PROVE k \in 1..Len(E) /\ K[k] = E[k]
    <2> DEFINE q == K[k].seq
               n == Rank(S, q)
    <2>1. q \in S /\ K[k] = db[q]
        BY LinesAreRows
    <2>2. n \in 1..Len(E) /\ Nth(S, n) = q
        BY <1>2, <2>1, NthOfRank
    <2>3. K[k] = E[n]
        BY <1>2, <2>1, <2>2
    <2>4. Len(E[n].hash) = n
        BY <1>2, <2>2, LengthOfHash
    <2>5. Len(K[k].hash) = k
        BY <1>1, LengthOfHash
    <2> QED
        BY <2>2, <2>3, <2>4, <2>5
<1>4. Len(K) <= Len(E)
    <2>1. CASE Len(K) = 0
        BY <1>2, <2>1
    <2>2. CASE Len(K) # 0
        <3>1. Len(K) \in 1..Len(K)
            BY <1>1, <2>2
        <3> QED
            BY <1>2, <1>3, <3>1
    <2> QED
        BY <2>1, <2>2
<1> QED
    BY <1>3, <1>4

(* VerifyEvents answers "ok" for linked events, and blames the link when   *)
(* every hash is right.                                                    *)
LEMMA VerifyEventsAnswers ==
    ASSUME NEW s \in Seq(Event), \A i \in 1..Len(s) : ~ HashWrong(s, i)
    PROVE  /\ s = <<>> => VerifyEvents(s) = "missing_event"
           /\ s # <<>> /\ LinkedEvents(s) => VerifyEvents(s) = "ok"
           /\ ~ LinkedEvents(s) => s # <<>> /\ VerifyEvents(s) = "prev_hash_mismatch"
<1> DEFINE bad == {i \in DOMAIN s : LinkBroken(s, i) \/ HashWrong(s, i)}
<1>1. DOMAIN s = 1..Len(s) /\ bad \in SUBSET Nat
    OBVIOUS
<1>2. LinkedEvents(s) <=> bad = {}
    BY DEF LinkedEvents
<1>3. ASSUME bad # {} PROVE LinkBroken(s, Min(bad)) /\ s # <<>>
    <2>1. Min(bad) \in bad
        <3> HIDE DEF bad
        <3> QED
            BY <1>1, <1>3, MinInSet
    <2>2. Min(bad) \in DOMAIN s /\ (LinkBroken(s, Min(bad)) \/ HashWrong(s, Min(bad)))
        BY <2>1
    <2> QED
        BY <1>1, <2>2
<1>4. VerifyEvents(s) = CASE s = <<>>                              -> "missing_event"
                          [] s # <<>> /\ bad = {}                  -> "ok"
                          [] bad # {} /\ LinkBroken(s, Min(bad))   -> "prev_hash_mismatch"
                          [] OTHER                                 -> "event_hash_mismatch"
    BY DEF VerifyEvents
<1>5. s = <<>> => bad = {}
    OBVIOUS
<1> HIDE DEF bad
<1> QED
    BY <1>2, <1>3, <1>4, <1>5

(* The rows against their first lines: the seqs the lines lack are those   *)
(* of the rows past them, and they alone differ.                           *)
LEMMA ComparePrefix ==
    ASSUME IInv, NEW r \in Runs, NEW K \in Seq(Event), K # <<>>,
           Len(K) <= Len(EventsOf(db, r)),
           \A k \in 1..Len(K) : K[k] = EventsOf(db, r)[k]
    PROVE  CompareSources(EventsOf(db, r), K)
               = IF Len(K) = Len(EventsOf(db, r)) THEN "ok" ELSE "missing_event"
<1> DEFINE E == EventsOf(db, r)
           S == RowsOf(r)
           n == Len(E)
           m == Len(K)
           At(events, q) == {events[i].hash : i \in {j \in DOMAIN events : events[j].seq = q}}
           differ == {q \in Seqs(E) \cup Seqs(K) : At(E, q) # At(K, q)}
<1>1. /\ n \in Nat /\ n = Cardinality(S) /\ S \in Positions
      /\ \A k \in 1..n : E[k].seq = Nth(S, k)
      /\ DOMAIN E = 1..n
    BY RowsLinked
<1>2. m \in 1..n /\ DOMAIN K = 1..m
    BY <1>1, EmptySeq
<1>3. \A k \in 1..n : Nth(S, k) \in S /\ Rank(S, Nth(S, k)) = k /\ Nth(S, k) \in Nat
    BY <1>1, NthInSet, PositionsAreNumbers
<1>4. \A k, l \in 1..n : E[k].seq = E[l].seq => k = l
    BY <1>1, <1>3
<1>5. \A i \in S : Rank(S, i) \in 1..n /\ Nth(S, Rank(S, i)) = i
    BY <1>1, NthOfRank
<1>6. Seqs(E) = S
    <2>1. Seqs(E) = {E[k].seq : k \in 1..n}
        BY <1>1 DEF Seqs
    <2> HIDE DEF E, S, n
    <2> QED
        BY <1>1, <1>3, <1>5, <2>1
<1>7. Seqs(K) = {E[k].seq : k \in 1..m}
    BY <1>2 DEF Seqs
<1>8. Seqs(K) = Upto(S, Nth(S, m))
    <2> HIDE DEF E, S, n, m
    <2>1. ASSUME NEW k \in 1..m PROVE E[k].seq \in Upto(S, Nth(S, m))
        <3>1. k \in 1..n /\ (k = m \/ k < m)
            BY <1>1, <1>2
        <3>2. Nth(S, k) <= Nth(S, m)
            <4>1. k < m => Nth(S, k) < Nth(S, m)
                BY <1>1, <1>2, <3>1, NthAscends
            <4>2. Nth(S, k) \in Nat /\ Nth(S, m) \in Nat
                BY <1>2, <1>3, <3>1
            <4> QED
                BY <3>1, <4>1, <4>2
        <3> QED
            BY <1>1, <1>3, <3>1, <3>2 DEF Upto
    <2>2. ASSUME NEW i \in Upto(S, Nth(S, m)) PROVE \E k \in 1..m : E[k].seq = i
        <3>1. i \in S /\ i <= Nth(S, m) /\ Rank(S, i) \in 1..n /\ i \in Nat
            BY <1>1, <1>5, PositionsAreNumbers DEF Upto
        <3>2. ~ (m < Rank(S, i))
            <4>1. m < Rank(S, i) => Nth(S, m) < i
                BY <1>1, <1>2, <1>5, <3>1, NthAscends
            <4> QED
                BY <1>2, <1>3, <3>1, <4>1
        <3>3. Rank(S, i) \in 1..m
            BY <1>1, <1>2, <3>1, <3>2
        <3> QED
            BY <1>1, <1>5, <3>1, <3>3
    <2> QED
        BY <1>7, <2>1, <2>2
<1>9. Cardinality(Seqs(E)) = n /\ Cardinality(Seqs(K)) = m
    BY <1>1, <1>2, <1>3, <1>6, <1>8 DEF Rank
<1>10. \A q \in Seqs(K) : At(E, q) = At(K, q)
    <2> SUFFICES ASSUME NEW q \in Seqs(K) PROVE At(E, q) = At(K, q)
        OBVIOUS
    <2>1. PICK k \in 1..m : E[k].seq = q
        BY <1>7
    <2>2. k \in 1..n /\ K[k] = E[k] /\ \A l \in 1..m : l \in 1..n /\ K[l] = E[l]
        BY <1>1, <1>2
    <2> HIDE DEF E, n, m
    <2>3. {j \in DOMAIN E : E[j].seq = q} = {k}
        BY <1>1, <1>4, <2>1, <2>2
    <2>4. {j \in DOMAIN K : K[j].seq = q} = {k}
        BY <1>2, <1>4, <2>1, <2>2
    <2> QED
        BY <2>2, <2>3, <2>4
<1>11. \A q \in Seqs(E) \ Seqs(K) : At(E, q) # At(K, q)
    <2> SUFFICES ASSUME NEW q \in Seqs(E), q \notin Seqs(K) PROVE At(E, q) # At(K, q)
        OBVIOUS
    <2>1. {j \in DOMAIN K : K[j].seq = q} = {}
        BY DEF Seqs
    <2>2. PICK k \in DOMAIN E : E[k].seq = q
        BY DEF Seqs
    <2>3. E[k].hash \in At(E, q)
        BY <2>2
    <2> QED
        BY <2>1, <2>3
<1>12. Seqs(K) \subseteq Seqs(E)
    BY <1>6, <1>8 DEF Upto
<1>13. differ = Seqs(E) \ Seqs(K)
    BY <1>10, <1>11, <1>12
<1>14. CompareSources(E, K)
         = IF \E s \in {E, K} : Len(s) # Cardinality(Seqs(s)) THEN "parse_error"
           ELSE IF differ = {}                                 THEN "ok"
           ELSE IF Min(differ) \in Seqs(E) \cap Seqs(K)        THEN "event_hash_mismatch"
           ELSE "missing_event"
    BY DEF CompareSources
<1>15. ~ \E s \in {E, K} : Len(s) # Cardinality(Seqs(s))
    BY <1>9
<1> HIDE DEF differ, At
<1>16. CASE m = n
    <2>1. Seqs(K) = Seqs(E)
        BY <1>1, <1>7, <1>16 DEF Seqs
    <2> QED
        BY <1>13, <1>14, <1>15, <1>16, <2>1
<1>17. CASE m # n
    <2>1. ASSUME differ = {} PROVE FALSE
        <3>1. Seqs(E) = Seqs(K)
            BY <1>12, <1>13, <2>1
        <3> QED
            BY <1>9, <1>17, <3>1
    <2>2. differ \in SUBSET Nat
        BY <1>1, <1>6, <1>13, PositionsAreNumbers
    <2>3. Min(differ) \in differ
        BY <2>1, <2>2, MinInSet
    <2>4. Min(differ) \notin Seqs(K)
        BY <1>13, <2>3
    <2> QED
        BY <1>14, <1>15, <1>17, <2>1, <2>4
<1> QED
    BY <1>16, <1>17

(* What `matteros audit verify` says of a run that has rows.               *)
LEMMA VerdictsTell == IInv => VerificationTells
<1> SUFFICES ASSUME IInv, NEW r \in Runs, RowsOf(r) # {}
             PROVE  /\ VerifyDb(r) = "ok"
                    /\ VerifyBoth(r) = "ok"
                          <=> Torn \notin Range(jsonl) /\ Kept(r) = EventsOf(db, r)
                    /\ jsonl # <<>> /\ Torn \notin Range(jsonl) =>
                          /\ VerifyBoth(r) = "missing_event"
                                <=> IsStrictPrefix(Kept(r), EventsOf(db, r))
                          /\ VerifyBoth(r) \in {"ok", "missing_event", "prev_hash_mismatch"}
    BY DEF VerificationTells, VerifyBothExact, LossReported
<1> DEFINE E == EventsOf(db, r)
           K == Kept(r)
<1>1. /\ E \in Seq(Event) /\ Len(E) \in Nat /\ LinkedEvents(E) /\ DOMAIN E = 1..Len(E)
      /\ E # <<>>
    <2>1. /\ E \in Seq(Event) /\ Len(E) = Cardinality(RowsOf(r)) /\ LinkedEvents(E)
          /\ RowsOf(r) \in Positions
        BY RowsLinked
    <2>2. Len(E) # 0
        BY <2>1, PositionsAreNumbers, FS_EmptySet
    <2> QED
        BY <2>1, <2>2, EmptySeq
<1>2. VerifyDb(r) = "ok"
    <2>1. \A i \in 1..Len(E) : ~ HashWrong(E, i)
        BY <1>1 DEF LinkedEvents
    <2> QED
        BY <1>1, <2>1, VerifyEventsAnswers DEF VerifyDb
<1>3. VerifyBoth(r) = IF VerifyJsonl(r) # "ok" THEN VerifyJsonl(r) ELSE CompareSources(E, K)
    BY <1>2 DEF VerifyBoth, Kept
<1> HIDE DEF E, K
<1>4. CASE Torn \in Range(jsonl)
    BY <1>2, <1>3, <1>4 DEF VerifyJsonl, E, K
<1>5. CASE Torn \notin Range(jsonl)
    <2>1. /\ K \in Seq(Event) /\ Len(K) \in Nat /\ DOMAIN K = 1..Len(K)
          /\ \A k \in 1..Len(K) : ~ HashWrong(K, k)
        BY <1>5, LinesAreRows DEF K
    <2>2. VerifyJsonl(r) = VerifyEvents(K)
        BY <1>5 DEF VerifyJsonl, K, Kept
    <2>3. CASE K = <<>>
        <3>1. VerifyBoth(r) = "missing_event"
            BY <1>3, <2>1, <2>2, <2>3, VerifyEventsAnswers
        <3>2. IsStrictPrefix(K, E)
            <4>1. Len(K) = 0 /\ SubSeq(K, 1, 0) = <<>> /\ SubSeq(E, 1, 0) = <<>>
                BY <1>1, <2>1, <2>3
            <4> QED
                BY <1>1, <2>3, <4>1 DEF IsStrictPrefix, IsPrefix
        <3> QED
            BY <1>1, <1>2, <2>3, <3>1, <3>2 DEF E, K
    <2>4. CASE K # <<>> /\ LinkedEvents(K)
        <3>1. Len(K) <= Len(E) /\ \A k \in 1..Len(K) : K[k] = E[k]
            BY <1>5, <2>4, LinkedLinesArePrefix DEF E, K
        <3>2. VerifyBoth(r) = IF Len(K) = Len(E) THEN "ok" ELSE "missing_event"
            <4>1. VerifyBoth(r) = CompareSources(E, K)
                BY <1>3, <2>1, <2>2, <2>4, VerifyEventsAnswers
            <4> QED
                BY <2>1, <2>4, <3>1, <4>1, ComparePrefix DEF E
        <3>3. K = E <=> Len(K) = Len(E)
            <4>1. K = [k \in 1..Len(K) |-> K[k]] /\ E = [k \in 1..Len(E) |-> E[k]]
                BY <1>1, <2>1
            <4>2. Len(K) = Len(E) => K = E
                BY <3>1, <4>1
            <4> QED
                BY <4>2
        <3>4. IsPrefix(K, E)
            <4>1. SubSeq(K, 1, Len(K)) = SubSeq(E, 1, Len(K))
                BY <1>1, <2>1, <3>1
            <4> QED
                BY <3>1, <4>1 DEF IsPrefix
        <3> QED
            BY <1>2, <1>5, <3>2, <3>3, <3>4 DEF IsStrictPrefix, E, K
    <2>5. CASE ~ LinkedEvents(K)
        <3>1. VerifyBoth(r) = "prev_hash_mismatch" /\ K # <<>>
            BY <1>3, <2>1, <2>2, <2>5, VerifyEventsAnswers
        <3>2. ~ IsPrefix(K, E)
            <4> SUFFICES ASSUME Len(K) <= Len(E),
                                SubSeq(K, 1, Len(K)) = SubSeq(E, 1, Len(K))
                         PROVE  LinkedEvents(K)
                BY <2>5 DEF IsPrefix
            <4>1. \A k \in 1..Len(K) : SubSeq(K, 1, Len(K))[k] = K[k]
                BY <2>1
            <4>2. \A k \in 1..Len(K) : SubSeq(E, 1, Len(K))[k] = E[k] /\ k \in DOMAIN E
                BY <1>1, <2>1
            <4>3. \A k \in 1..Len(K) : K[k] = E[k] /\ k \in DOMAIN E
                BY <4>1, <4>2
            <4>4. \A k \in 1..Len(K) : k # 1 => k - 1 \in 1..Len(K)
                BY <2>1
            <4> QED
                BY <1>1, <2>1, <4>3, <4>4 DEF LinkedEvents, LinkBroken
        <3>3. K # E
            BY <1>1, <2>5
        <3> QED
            BY <1>2, <1>5, <3>1, <3>2, <3>3 DEF IsStrictPrefix, E, K
    <2> QED
        BY <2>3, <2>4, <2>5
<1> QED
    BY <1>4, <1>5

(* verify_run answers "ok" exactly when the file parses and has every row  *)
(* of the run, never blames the table, and says missing_event exactly when *)
(* the newest lines are the ones lost, whatever crashed or failed before   *)
(* (AuditLogger.verify_run).                                               *)
THEOREM VerificationAlwaysTells == Spec => []VerificationTells
    BY Invariance, VerdictsTell, PTL
=============================================================================
