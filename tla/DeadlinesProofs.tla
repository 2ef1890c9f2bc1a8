--------------------------- MODULE DeadlinesProofs ---------------------------
(***************************************************************************)
(* Theorems about the deadline alerts, for any number of deadlines, days,  *)
(* windows and passes that end early.                                      *)
(*                                                                         *)
(* A pass works on a list that was true when it was read.  What stays true *)
(* of it, whatever people do meanwhile: no deadline is on it twice, each   *)
(* has kept its due date, and no miss was recorded of any that the pass    *)
(* has not come to (NotMissedYet), because it was pending at that time and *)
(* only the pass marks one missed.  Of the alert under way: it is not      *)
(* keyed, and every wider window is (AlertStands).                         *)
(***************************************************************************)
EXTENDS Deadlines, FiniteSetTheorems, SequenceTheorems, TLAPS

Bounded == Len(deadlines) <= MaxDeadlines

(* Where a pass has deadlines left, and what it knows of the time.         *)
PassShape ==
    /\ pc = "idle" => todo = <<>>
    /\ pc \in {"mark", "tell", "key"} => todo # <<>>
    /\ now <= today

ListedOnce ==
    /\ \A i \in DOMAIN todo : todo[i] \in DOMAIN deadlines
    /\ \A i, j \in DOMAIN todo : todo[i] = todo[j] => i = j

(* The alert under way was not made before, and is due.                    *)
AlertStands ==
    pc \in {"mark", "tell", "key"} =>
        /\ <<Current, kind>> \notin keys
        /\ kind \in Windows =>
              pc # "mark" /\ \A v \in Windows : v > kind => <<Current, v>> \in keys
        /\ kind = Missed => Parses(Due) /\ Due < now

Missing == pc \in {"tell", "key"} /\ kind = Missed

(* Who has no miss recorded: a deadline that does not exist yet, one that  *)
(* is pending, one the pass has still to look at, and the one it is about  *)
(* to record it of.                                                        *)
NotMissedYet ==
    /\ \A d \in Ids \ DOMAIN deadlines : activities[d][Missed] = 0
    /\ \A d \in DOMAIN deadlines :
          deadlines[d].status = "pending" => activities[d][Missed] = 0
    /\ \A i \in DOMAIN todo : i > 1 \/ ~ Missing =>
          activities[todo[i]][Missed] = 0 /\ deadlines[todo[i]].status # "missed"
    /\ pc = "tell" /\ kind = Missed =>
          activities[Current][Missed] = 0 /\ deadlines[Current].status # "pending"

IInv ==
    /\ TypeOK
    /\ Bounded
    /\ PassShape
    /\ ListedOnce
    /\ AlertStands
    /\ NotMissedYet
    /\ AlertsAccounted
    /\ WidestWindowFirst
    /\ MissedIsTold
-----------------------------------------------------------------------------
LEMMA BoundsAreNumbers ==
    /\ MaxDay \in Nat /\ MaxDeadlines \in Nat /\ MaxAborts \in Nat
    /\ \A every \in Periods \cup {Once} : every \in Nat
    /\ \A w \in Windows : w \in Nat /\ w # Missed
BY BoundsAssumption, WindowsAssumption DEF Once

(* The rows by their numbers.                                              *)
LEMMA RowsType ==
    ASSUME TypeOK, Bounded
    PROVE  /\ Len(deadlines) \in Nat /\ DOMAIN deadlines = 1..Len(deadlines)
           /\ \A d \in DOMAIN deadlines :
                 /\ d \in Ids /\ deadlines[d] \in Deadline
                 /\ deadlines[d].due \in -1..(MaxDay + 1)
                 /\ deadlines[d].every \in Periods \cup {Once}
                 /\ deadlines[d].status \in {"pending", "completed", "missed"}
<1>1. deadlines \in Seq(Deadline)
    BY DEF TypeOK
<1>2. Len(deadlines) \in Nat /\ DOMAIN deadlines = 1..Len(deadlines)
    BY <1>1
<1>3. \A d \in DOMAIN deadlines : deadlines[d] \in Deadline
    BY <1>1
<1>4. \A d \in DOMAIN deadlines : d \in Ids
    BY <1>2, BoundsAreNumbers DEF Bounded, Ids
<1> QED
    BY <1>2, <1>3, <1>4 DEF Deadline

(* The deadline a pass is at is the first of its list.                     *)
LEMMA CurrentIsFirst ==
    ASSUME TypeOK, ListedOnce, Bounded, todo # <<>>
    PROVE  /\ Len(todo) \in Nat /\ DOMAIN todo = 1..Len(todo) /\ 1 \in DOMAIN todo
           /\ Current = todo[1] /\ Current \in DOMAIN deadlines /\ Current \in Ids
<1>1. todo \in Seq(Ids) /\ todo # <<>>
    BY DEF TypeOK
<1>2. Len(todo) \in Nat /\ DOMAIN todo = 1..Len(todo) /\ Len(todo) > 0 /\ Current = todo[1]
    BY <1>1 DEF Current
<1>3. 1 \in DOMAIN todo
    BY <1>2
<1>4. Current \in DOMAIN deadlines
    BY <1>2, <1>3 DEF ListedOnce
<1> QED
    BY <1>2, <1>3, <1>4, RowsType

(* The rest of the list, after its first deadline.                         *)
LEMMA RestOfList ==
    ASSUME TypeOK, ListedOnce, Bounded, todo # <<>>
    PROVE  /\ Tail(todo) \in Seq(Ids)
           /\ \A i \in DOMAIN Tail(todo) :
                 i + 1 \in DOMAIN todo /\ i + 1 > 1 /\ Tail(todo)[i] = todo[i + 1]
                 /\ todo[i + 1] # Current
           /\ \A i, j \in DOMAIN Tail(todo) : Tail(todo)[i] = Tail(todo)[j] => i = j
<1>1. todo \in Seq(Ids) /\ todo # <<>> /\ Len(todo) \in Nat /\ DOMAIN todo = 1..Len(todo)
      /\ 1 \in DOMAIN todo /\ Current = todo[1]
    BY CurrentIsFirst DEF TypeOK
<1>2. /\ Tail(todo) \in Seq(Ids) /\ Len(Tail(todo)) = Len(todo) - 1
      /\ \A i \in 1..Len(Tail(todo)) : Tail(todo)[i] = todo[i + 1]
    BY <1>1, HeadTailProperties
<1>3. DOMAIN Tail(todo) = 1..(Len(todo) - 1)
    BY <1>2, LenProperties
<1>4. \A i \in DOMAIN Tail(todo) : i \in Nat /\ i + 1 \in DOMAIN todo /\ i + 1 > 1 /\ i + 1 # 1
    BY <1>1, <1>3
<1>5. \A i \in DOMAIN Tail(todo) : Tail(todo)[i] = todo[i + 1]
    BY <1>2, <1>3
<1>6. \A i \in DOMAIN Tail(todo) : todo[i + 1] # Current
    BY <1>1, <1>4 DEF ListedOnce
<1>7. \A i, j \in DOMAIN Tail(todo) : Tail(todo)[i] = Tail(todo)[j] => i + 1 = j + 1
    BY <1>4, <1>5 DEF ListedOnce
<1>8. \A i, j \in DOMAIN Tail(todo) : Tail(todo)[i] = Tail(todo)[j] => i = j
    BY <1>4, <1>7
<1> QED
    BY <1>2, <1>4, <1>5, <1>6, <1>8
-----------------------------------------------------------------------------
(* What people and time do: they move a due date of no deadline, and the   *)
(* status of none but to completed.                                        *)
PeopleMove ==
    /\ today' \in Days /\ today' >= today
    /\ deadlines' \in Seq(Deadline)
    /\ Len(deadlines) <= Len(deadlines') /\ Len(deadlines') <= MaxDeadlines
    /\ \A d \in DOMAIN deadlines :
          /\ deadlines'[d].due = deadlines[d].due
          /\ deadlines'[d].status \in {deadlines[d].status, "completed"}
    /\ \A d \in DOMAIN deadlines' \ DOMAIN deadlines : deadlines'[d].status = "pending"
    /\ UNCHANGED <<activities, keys, pass, history>>

LEMMA TickMoves ==
    ASSUME IInv, Tick
    PROVE  PeopleMove
<1>1. today' \in Days /\ today' >= today
    BY BoundsAreNumbers DEF IInv, TypeOK, Tick, Days
<1> QED
    BY <1>1, RowsType DEF IInv, TypeOK, Bounded, Tick, PeopleMove, store

(* A row is appended.                                                      *)
LEMMA AppendRow ==
    ASSUME NEW s \in Seq(Deadline), NEW row \in Deadline
    PROVE  /\ Append(s, row) \in Seq(Deadline) /\ Len(Append(s, row)) = Len(s) + 1
           /\ DOMAIN Append(s, row) = 1..(Len(s) + 1) /\ DOMAIN s = 1..Len(s) /\ Len(s) \in Nat
           /\ \A d \in 1..Len(s) : Append(s, row)[d] = s[d]
           /\ Append(s, row)[Len(s) + 1] = row
<1>1. /\ Append(s, row) \in Seq(Deadline) /\ Len(Append(s, row)) = Len(s) + 1
      /\ \A d \in 1..Len(s) : Append(s, row)[d] = s[d]
      /\ Append(s, row)[Len(s) + 1] = row
    BY AppendProperties
<1> QED
    BY <1>1, LenProperties

(* A row changes its status.                                               *)
LEMMA StatusOfRow ==
    ASSUME TypeOK, Bounded, NEW d \in DOMAIN deadlines,
           NEW status \in {"pending", "completed", "missed"}
    PROVE  /\ [deadlines EXCEPT ![d].status = status] \in Seq(Deadline)
           /\ Len([deadlines EXCEPT ![d].status = status]) = Len(deadlines)
           /\ DOMAIN [deadlines EXCEPT ![d].status = status] = DOMAIN deadlines
           /\ \A e \in DOMAIN deadlines :
                 /\ [deadlines EXCEPT ![d].status = status][e].due = deadlines[e].due
                 /\ [deadlines EXCEPT ![d].status = status][e].status
                        = IF e = d THEN status ELSE deadlines[e].status
<1> DEFINE row == [deadlines[d] EXCEPT !.status = status]
<1>1. deadlines[d] \in Deadline
    BY RowsType
<1>2. row \in Deadline /\ row.status = status /\ row.due = deadlines[d].due
    BY <1>1 DEF Deadline
<1>3. deadlines \in Seq(Deadline) /\ d \in 1..Len(deadlines) /\ DOMAIN deadlines = 1..Len(deadlines)
    BY RowsType DEF TypeOK
<1>4. [deadlines EXCEPT ![d].status = status] = [deadlines EXCEPT ![d] = row]
    OBVIOUS
<1> HIDE DEF row
<1>5. /\ [deadlines EXCEPT ![d] = row] \in Seq(Deadline)
      /\ Len([deadlines EXCEPT ![d] = row]) = Len(deadlines)
      /\ \A e \in 1..Len(deadlines) :
            [deadlines EXCEPT ![d] = row][e] = IF e = d THEN row ELSE deadlines[e]
    BY <1>2, <1>3, ExceptSeq
<1>6. DOMAIN [deadlines EXCEPT ![d] = row] = DOMAIN deadlines
    OBVIOUS
<1> QED
    BY <1>2, <1>3, <1>4, <1>5, <1>6

LEMMA CreateMoves ==
    ASSUME IInv, CreateDeadline
    PROVE  PeopleMove
<1>1. PICK m \in Matters, due \in -1..(MaxDay + 1), every \in Periods \cup {Once} :
          deadlines' = Append(deadlines,
              [matter |-> m, due |-> due, every |-> every, status |-> "pending"])
    BY DEF CreateDeadline
<1> DEFINE row == [matter |-> m, due |-> due, every |-> every, status |-> "pending"]
<1>2. row \in Deadline /\ row.status = "pending"
    BY DEF Deadline
<1>3. deadlines' = Append(deadlines, row) /\ deadlines \in Seq(Deadline)
    BY <1>1 DEF IInv, TypeOK
<1> HIDE DEF row
<1>4. /\ deadlines' \in Seq(Deadline) /\ Len(deadlines') = Len(deadlines) + 1
      /\ DOMAIN deadlines' = 1..(Len(deadlines) + 1)
      /\ DOMAIN deadlines = 1..Len(deadlines) /\ Len(deadlines) \in Nat
      /\ \A d \in 1..Len(deadlines) : deadlines'[d] = deadlines[d]
      /\ deadlines'[Len(deadlines) + 1] = row
    BY <1>2, <1>3, AppendRow
<1>5. /\ Len(deadlines) <= Len(deadlines') /\ Len(deadlines') <= MaxDeadlines
      /\ DOMAIN deadlines' \ DOMAIN deadlines = {Len(deadlines) + 1}
    BY <1>4, BoundsAreNumbers DEF CreateDeadline
<1>6. today' = today /\ today \in Days /\ today \in Nat /\ UNCHANGED <<activities, keys, pass, history>>
    BY BoundsAreNumbers DEF CreateDeadline, IInv, TypeOK, Days
<1> QED
    BY <1>2, <1>4, <1>5, <1>6 DEF PeopleMove

LEMMA CompleteMoves ==
    ASSUME IInv, NEW d \in DOMAIN deadlines, CompleteDeadline(d)
    PROVE  PeopleMove
<1> DEFINE completed == [deadlines EXCEPT ![d].status = "completed"]
           row == [deadlines[d] EXCEPT !.due = @ + deadlines[d].every, !.status = "pending"]
<1>1. /\ completed \in Seq(Deadline) /\ Len(completed) = Len(deadlines)
      /\ DOMAIN completed = DOMAIN deadlines
      /\ \A e \in DOMAIN deadlines :
            /\ completed[e].due = deadlines[e].due
            /\ completed[e].status \in {deadlines[e].status, "completed"}
    <2>1. TypeOK /\ Bounded /\ "completed" \in {"pending", "completed", "missed"}
        BY DEF IInv
    <2>2. /\ completed \in Seq(Deadline) /\ Len(completed) = Len(deadlines)
          /\ DOMAIN completed = DOMAIN deadlines
          /\ \A e \in DOMAIN deadlines :
                /\ completed[e].due = deadlines[e].due
                /\ completed[e].status = IF e = d THEN "completed" ELSE deadlines[e].status
        BY <2>1, StatusOfRow
    <2> HIDE DEF completed
    <2> QED
        BY <2>2
<1>2. /\ today' = today /\ today \in Days /\ today \in Nat
      /\ UNCHANGED <<activities, keys, pass, history>>
    BY BoundsAreNumbers DEF CompleteDeadline, IInv, TypeOK, Days
<1>3. Len(deadlines) \in Nat /\ DOMAIN deadlines = 1..Len(deadlines) /\ Len(deadlines) <= MaxDeadlines
    BY RowsType DEF IInv, Bounded
<1>4. CASE deadlines' = completed
    <2> HIDE DEF completed
    <2> QED
        BY <1>1, <1>2, <1>3, <1>4 DEF PeopleMove
<1>5. CASE /\ deadlines[d].every # Once /\ Parses(deadlines[d].due)
           /\ Len(deadlines) < MaxDeadlines /\ deadlines[d].due + deadlines[d].every <= MaxDay
           /\ deadlines' = Append(completed, row)
    <2>1. deadlines[d] \in Deadline /\ deadlines[d].every \in Nat /\ deadlines[d].due \in Nat
        BY <1>5, RowsType, BoundsAreNumbers DEF IInv, Parses, Days
    <2>2. deadlines[d].due + deadlines[d].every \in -1..(MaxDay + 1)
        BY <1>5, <2>1, BoundsAreNumbers
    <2>3. row \in Deadline /\ row.status = "pending"
        BY <2>1, <2>2 DEF Deadline
    <2> HIDE DEF completed, row
    <2>4. /\ deadlines' \in Seq(Deadline) /\ Len(deadlines') = Len(completed) + 1
          /\ DOMAIN deadlines' = 1..(Len(completed) + 1) /\ DOMAIN completed = 1..Len(completed)
          /\ \A e \in 1..Len(completed) : deadlines'[e] = completed[e]
          /\ deadlines'[Len(completed) + 1] = row
        BY <1>1, <1>5, <2>3, AppendRow
    <2>5. /\ Len(deadlines) <= Len(deadlines') /\ Len(deadlines') <= MaxDeadlines
          /\ DOMAIN deadlines' \ DOMAIN deadlines = {Len(deadlines) + 1}
        BY <1>1, <1>3, <1>5, <2>4, BoundsAreNumbers
    <2>6. \A e \in DOMAIN deadlines : deadlines'[e] = completed[e]
        BY <1>1, <2>4
    <2>7. \A e \in DOMAIN deadlines' \ DOMAIN deadlines : deadlines'[e].status = "pending"
        BY <1>1, <2>3, <2>4, <2>5
    <2> QED
        BY <1>1, <1>2, <2>4, <2>5, <2>6, <2>7 DEF PeopleMove
<1> QED
    BY <1>4, <1>5 DEF CompleteDeadline

LEMMA PeopleKeep ==
    ASSUME IInv, PeopleMove
    PROVE  IInv'
<1>1. /\ activities' = activities /\ keys' = keys /\ pc' = pc /\ todo' = todo /\ now' = now
      /\ kind' = kind /\ aborts' = aborts /\ unkeyed' = unkeyed /\ unheard' = unheard
    BY DEF PeopleMove, pass, history
<1>2. TypeOK'
    BY <1>1 DEF IInv, TypeOK, PeopleMove
<1>3. Bounded'
    BY DEF PeopleMove, Bounded
<1>4. /\ Len(deadlines) \in Nat /\ DOMAIN deadlines = 1..Len(deadlines)
      /\ Len(deadlines') \in Nat /\ DOMAIN deadlines' = 1..Len(deadlines')
      /\ DOMAIN deadlines' \subseteq Ids
    <2>1. deadlines \in Seq(Deadline) /\ deadlines' \in Seq(Deadline)
        BY <1>2 DEF IInv, TypeOK
    <2>2. /\ Len(deadlines) \in Nat /\ DOMAIN deadlines = 1..Len(deadlines)
          /\ Len(deadlines') \in Nat /\ DOMAIN deadlines' = 1..Len(deadlines')
        BY <2>1
    <2> QED
        BY <1>3, <2>2, BoundsAreNumbers DEF Bounded, Ids
<1>5. DOMAIN deadlines \subseteq DOMAIN deadlines'
    BY <1>4 DEF PeopleMove
<1>6. /\ today \in Nat /\ today' \in Nat /\ now \in Nat /\ now <= today' /\ today <= today'
    BY BoundsAreNumbers DEF IInv, TypeOK, PassShape, PeopleMove, Days
<1>7. PassShape'
    BY <1>1, <1>6 DEF IInv, PassShape
<1>8. ListedOnce'
    BY <1>1, <1>5 DEF IInv, ListedOnce
<1>9. pc \in {"mark", "tell", "key"} =>
          /\ Current' = Current /\ Current \in DOMAIN deadlines
          /\ Due' = Due
    BY <1>1, CurrentIsFirst DEF IInv, PassShape, PeopleMove, Current, Due
<1>10. AlertStands'
    BY <1>1, <1>9 DEF IInv, AlertStands
<1>11. NotMissedYet'
    <2>1. \A d \in Ids \ DOMAIN deadlines' : activities'[d][Missed] = 0
        BY <1>1, <1>5 DEF IInv, NotMissedYet
    <2>2. ASSUME NEW d \in DOMAIN deadlines', deadlines'[d].status = "pending"
          PROVE  activities'[d][Missed] = 0
        <3>1. CASE d \in DOMAIN deadlines
            BY <1>1, <2>2, <3>1 DEF IInv, NotMissedYet, PeopleMove
        <3>2. CASE d \notin DOMAIN deadlines
            BY <1>1, <1>4, <3>2 DEF IInv, NotMissedYet
        <3> QED
            BY <3>1, <3>2
    <2>3. ASSUME NEW i \in DOMAIN todo, i > 1 \/ ~ Missing
          PROVE  activities'[todo[i]][Missed] = 0 /\ deadlines'[todo[i]].status # "missed"
        <3>1. todo[i] \in DOMAIN deadlines
            BY DEF IInv, ListedOnce
        <3>2. activities[todo[i]][Missed] = 0 /\ deadlines[todo[i]].status # "missed"
            BY <2>3 DEF IInv, NotMissedYet
        <3> QED
            BY <1>1, <3>1, <3>2 DEF PeopleMove
    <2>4. ASSUME pc = "tell", kind = Missed
          PROVE  activities'[Current][Missed] = 0 /\ deadlines'[Current].status # "pending"
        <3>1. activities[Current][Missed] = 0 /\ deadlines[Current].status # "pending"
            BY <2>4 DEF IInv, NotMissedYet
        <3> QED
            BY <1>1, <1>9, <2>4, <3>1 DEF PeopleMove
    <2>5. Missing' = Missing
        BY <1>1 DEF Missing
    <2> QED
        BY <1>1, <1>9, <2>1, <2>2, <2>3, <2>4, <2>5 DEF NotMissedYet
<1>12. AlertsAccounted' /\ WidestWindowFirst'
    BY <1>1 DEF IInv, AlertsAccounted, WidestWindowFirst, InFlight, One, Current
<1>13. MissedIsTold'
    <2> SUFFICES ASSUME NEW d \in DOMAIN deadlines', deadlines'[d].status = "missed"
                 PROVE  /\ Parses(deadlines'[d].due) /\ deadlines'[d].due < today'
                        /\ \/ activities'[d][Missed] = 1
                           \/ activities'[d][Missed] = 0 /\ d \in unheard'
                           \/ activities'[d][Missed] = 0 /\ pc' = "tell" /\ Current' = d
        BY DEF MissedIsTold, Parses
    <2>1. d \in DOMAIN deadlines /\ deadlines[d].status = "missed" /\ deadlines'[d].due = deadlines[d].due
        BY DEF PeopleMove
    <2>2. /\ Parses(deadlines[d].due) /\ deadlines[d].due < today
          /\ \/ activities[d][Missed] = 1
             \/ activities[d][Missed] = 0 /\ d \in unheard
             \/ activities[d][Missed] = 0 /\ pc = "tell" /\ Current = d
        BY <2>1 DEF IInv, MissedIsTold
    <2>3. deadlines[d].due \in Nat
        BY <2>2, BoundsAreNumbers DEF Parses, Days
    <2>4. deadlines'[d].due < today'
        BY <1>6, <2>1, <2>2, <2>3
    <2> QED
        BY <1>1, <2>1, <2>2, <2>4 DEF Current
<1> QED
    BY <1>2, <1>3, <1>7, <1>8, <1>10, <1>11, <1>12, <1>13 DEF IInv
-----------------------------------------------------------------------------
(* A pass begins with deadlines that are pending.                          *)
LEMMA StartPassKeeps ==
    ASSUME IInv, StartPass
    PROVE  IInv'
<1> DEFINE n == Cardinality(Pending)
<1>1. /\ pc = "idle" /\ pc' = "next" /\ now' = today /\ today' = today /\ kind' = kind
      /\ UNCHANGED <<deadlines, activities, keys, aborts, unkeyed, unheard>>
    BY DEF StartPass, store, history
<1>2. DOMAIN deadlines \subseteq Ids /\ Pending \subseteq DOMAIN deadlines
    BY RowsType DEF IInv, Pending
<1>3. n \in Nat
    <2>1. IsFiniteSet(Ids)
        BY BoundsAreNumbers, FS_Interval DEF Ids
    <2>2. IsFiniteSet(Pending)
        BY <1>2, <2>1, FS_Subset
    <2> QED
        BY <2>2, FS_CardinalityType
<1>4. /\ todo' \in [1..n -> Pending]
      /\ \A i, j \in DOMAIN todo' : i < j => todo'[i] # todo'[j]
    BY DEF StartPass, PendingByDue
<1> HIDE DEF n
<1>5. DOMAIN todo' = 1..n /\ \A i \in DOMAIN todo' : todo'[i] \in Pending
    BY <1>4
<1>6. todo' \in Seq(Ids)
    <2>1. todo' \in [1..n -> Ids]
        BY <1>2, <1>4
    <2> QED
        BY <1>3, <2>1
<1>7. TypeOK'
    BY <1>1, <1>6 DEF IInv, TypeOK
<1>8. Bounded' /\ PassShape'
    BY <1>1, BoundsAreNumbers DEF IInv, TypeOK, Bounded, PassShape, Days
<1>9. ListedOnce'
    <2>1. \A i \in DOMAIN todo' : todo'[i] \in DOMAIN deadlines'
        BY <1>1, <1>2, <1>5
    <2>2. ASSUME NEW i \in DOMAIN todo', NEW j \in DOMAIN todo', todo'[i] = todo'[j]
          PROVE  i = j
        <3>1. ~ (i < j) /\ ~ (j < i)
            BY <1>4, <2>2
        <3>2. i \in Int /\ j \in Int
            BY <1>3, <1>5
        <3> QED
            BY <3>1, <3>2
    <2> QED
        BY <2>1, <2>2 DEF ListedOnce
<1>10. AlertStands'
    BY <1>1 DEF AlertStands
<1>11. NotMissedYet'
    <2>1. \A i \in DOMAIN todo' :
              activities[todo'[i]][Missed] = 0 /\ deadlines[todo'[i]].status # "missed"
        BY <1>2, <1>5 DEF Pending, IInv, NotMissedYet
    <2> QED
        BY <1>1, <2>1 DEF IInv, NotMissedYet
<1>12. AlertsAccounted' /\ WidestWindowFirst'
    BY <1>1 DEF IInv, AlertsAccounted, WidestWindowFirst, InFlight, One
<1>13. MissedIsTold'
    BY <1>1 DEF IInv, MissedIsTold
<1> QED
    BY <1>7, <1>8, <1>9, <1>10, <1>11, <1>12, <1>13 DEF IInv

(* A pass that is left has no list; what an early end leaves undone is in  *)
(* the history.                                                            *)
LEMMA LeaveKeeps ==
    ASSUME IInv, Leave, today' = today, deadlines' = deadlines, activities' = activities,
           keys' = keys, aborts' \in 0..MaxAborts,
           unkeyed' = IF pc = "key"
                         THEN [unkeyed EXCEPT ![Current][kind] = @ + 1] ELSE unkeyed,
           unheard' = IF pc = "tell" /\ kind = Missed THEN unheard \cup {Current} ELSE unheard
    PROVE  IInv'
<1>1. pc' = "idle" /\ todo' = <<>> /\ now' = 0 /\ kind' = Missed
    BY DEF Leave
<1>2. pc \in {"mark", "tell", "key"} => Current \in Ids
    BY CurrentIsFirst DEF IInv, PassShape
<1>3. unkeyed \in [Ids -> [Kinds -> Nat]] /\ kind \in Kinds
    BY DEF IInv, TypeOK
<1>4. TypeOK'
    <2>1. unkeyed' \in [Ids -> [Kinds -> Nat]]
        BY <1>2, <1>3
    <2>2. unheard' \subseteq Ids
        BY <1>2 DEF IInv, TypeOK
    <2>3. todo' \in Seq(Ids) /\ now' \in Days /\ kind' \in Kinds
        BY <1>1, BoundsAreNumbers DEF Days, Kinds
    <2> QED
        BY <1>1, <2>1, <2>2, <2>3 DEF IInv, TypeOK
<1>5. Bounded' /\ PassShape' /\ ListedOnce' /\ AlertStands' /\ WidestWindowFirst'
    <2>1. now' <= today'
        BY <1>1, BoundsAreNumbers DEF IInv, TypeOK, Days
    <2> QED
        BY <1>1, <2>1 DEF IInv, Bounded, PassShape, ListedOnce, AlertStands, WidestWindowFirst
<1>6. NotMissedYet'
    BY <1>1 DEF IInv, NotMissedYet
<1>7. AlertsAccounted'
    <2> SUFFICES ASSUME NEW d \in Ids, NEW k \in Kinds
                 PROVE  activities[d][k] = One(<<d, k>> \in keys) + unkeyed'[d][k] + 0
        BY <1>1 DEF AlertsAccounted, InFlight, One
    <2>1. activities[d][k] = One(<<d, k>> \in keys) + unkeyed[d][k] + One(InFlight(d, k))
        BY DEF IInv, AlertsAccounted
    <2>2. unkeyed[d][k] \in Nat
        BY <1>3
    <2>3. unkeyed'[d][k] = unkeyed[d][k] + One(InFlight(d, k))
        <3>1. CASE InFlight(d, k)
            BY <1>2, <1>3, <2>2, <3>1 DEF InFlight, One
        <3>2. CASE ~ InFlight(d, k)
            <4>1. unkeyed'[d][k] = unkeyed[d][k]
                BY <1>2, <1>3, <2>2, <3>2 DEF InFlight
            <4> QED
                BY <2>2, <3>2, <4>1 DEF One
        <3> QED
            BY <3>1, <3>2
    <2> QED
        BY <2>1, <2>2, <2>3 DEF One
<1>8. MissedIsTold'
    <2> SUFFICES ASSUME NEW d \in DOMAIN deadlines, deadlines[d].status = "missed"
                 PROVE  /\ Parses(deadlines[d].due) /\ deadlines[d].due < today
                        /\ \/ activities[d][Missed] = 1
                           \/ activities[d][Missed] = 0 /\ d \in unheard'
        BY <1>1 DEF MissedIsTold
    <2>1. /\ Parses(deadlines[d].due) /\ deadlines[d].due < today
          /\ \/ activities[d][Missed] = 1
             \/ activities[d][Missed] = 0 /\ d \in unheard
             \/ activities[d][Missed] = 0 /\ pc = "tell" /\ Current = d
        BY DEF IInv, MissedIsTold
    <2>2. pc = "tell" /\ Current = d => kind = Missed
        BY CurrentIsFirst DEF IInv, PassShape, NotMissedYet, Missing
    <2> QED
        BY <2>1, <2>2
<1> QED
    BY <1>4, <1>5, <1>6, <1>7, <1>8 DEF IInv

(* The pass goes on to the next deadline.                                  *)
LEMMA NextDeadlineKeeps ==
    ASSUME IInv, todo # <<>>, NextDeadline
    PROVE  /\ todo' \in Seq(Ids) /\ kind' \in Kinds
           /\ \A i \in DOMAIN todo' : todo'[i] \in DOMAIN deadlines /\ todo'[i] # Current
           /\ \A i, j \in DOMAIN todo' : todo'[i] = todo'[j] => i = j
           /\ \A i \in DOMAIN todo' :
                 activities[todo'[i]][Missed] = 0 /\ deadlines[todo'[i]].status # "missed"
<1>1. todo' = Tail(todo) /\ kind' = Missed
    BY DEF NextDeadline
<1>2. /\ todo' \in Seq(Ids)
      /\ \A i \in DOMAIN todo' : i + 1 \in DOMAIN todo /\ i + 1 > 1
                                 /\ todo'[i] = todo[i + 1] /\ todo[i + 1] # Current
      /\ \A i, j \in DOMAIN todo' : todo'[i] = todo'[j] => i = j
    BY <1>1, RestOfList DEF IInv
<1>3. \A i \in DOMAIN todo' : todo[i + 1] \in DOMAIN deadlines
    BY <1>2 DEF IInv, ListedOnce
<1>4. \A i \in DOMAIN todo' :
          activities[todo[i + 1]][Missed] = 0 /\ deadlines[todo[i + 1]].status # "missed"
    BY <1>2 DEF IInv, NotMissedYet
<1> QED
    BY <1>1, <1>2, <1>3, <1>4 DEF Kinds

LEMMA ExamineKeeps ==
    ASSUME IInv, Examine
    PROVE  IInv'
<1>1. /\ pc = "next" /\ todo # <<>> /\ Parses(Due) /\ today' = today /\ now' = now
      /\ UNCHANGED <<deadlines, activities, keys, aborts, unkeyed, unheard>>
    BY DEF Examine, store, history
<1>2. Current = todo[1] /\ 1 \in DOMAIN todo /\ Current \in DOMAIN deadlines /\ Current \in Ids
    BY <1>1, CurrentIsFirst DEF IInv
<1>3. CASE /\ Overdue /\ <<Current, Missed>> \notin keys
           /\ kind' = Missed /\ pc' = "mark" /\ todo' = todo
    <2>1. Current' = Current /\ Due' = Due
        BY <1>1, <1>3 DEF Current, Due
    <2>2. TypeOK' /\ Bounded' /\ PassShape' /\ ListedOnce'
        BY <1>1, <1>3 DEF IInv, TypeOK, Bounded, PassShape, ListedOnce, Kinds
    <2>3. AlertStands'
        BY <1>1, <1>3, <2>1, BoundsAreNumbers DEF AlertStands, Overdue, Parses
    <2>4. NotMissedYet'
        BY <1>1, <1>3 DEF IInv, NotMissedYet, Missing
    <2>5. AlertsAccounted' /\ WidestWindowFirst' /\ MissedIsTold'
        BY <1>1, <1>3 DEF IInv, AlertsAccounted, WidestWindowFirst, MissedIsTold, InFlight, One
    <2> QED
        BY <2>2, <2>3, <2>4, <2>5 DEF IInv
<1>4. CASE /\ ~ Overdue /\ kind' \in Widest(DueWindows) /\ pc' = "tell" /\ todo' = todo
    <2>1. Current' = Current /\ Due' = Due
        BY <1>1, <1>4 DEF Current, Due
    <2>2. /\ kind' \in Windows /\ kind' \in Nat /\ kind' # Missed /\ <<Current, kind'>> \notin keys
          /\ Due - now <= kind'
        BY <1>4, BoundsAreNumbers DEF Widest, DueWindows
    <2>3. TypeOK' /\ Bounded' /\ PassShape' /\ ListedOnce'
        BY <1>1, <1>4, <2>2 DEF IInv, TypeOK, Bounded, PassShape, ListedOnce, Kinds
    <2>4. ASSUME NEW v \in Windows, v > kind'
          PROVE  <<Current, v>> \in keys
        <3>1. v \in Nat /\ ~ (v <= kind')
            BY <2>2, <2>4, BoundsAreNumbers
        <3>2. v \notin DueWindows
            BY <1>4, <3>1 DEF Widest
        <3>3. Due - now <= v
            BY <2>2, <2>4, <3>1, <1>1, BoundsAreNumbers DEF IInv, TypeOK, Parses, Days
        <3> QED
            BY <3>2, <3>3 DEF DueWindows
    <2>5. AlertStands'
        BY <1>1, <1>4, <2>1, <2>2, <2>4 DEF AlertStands
    <2>6. NotMissedYet'
        BY <1>1, <1>4, <2>2 DEF IInv, NotMissedYet, Missing
    <2>7. AlertsAccounted' /\ WidestWindowFirst' /\ MissedIsTold'
        BY <1>1, <1>4 DEF IInv, AlertsAccounted, WidestWindowFirst, MissedIsTold, InFlight, One
    <2> QED
        BY <2>3, <2>5, <2>6, <2>7 DEF IInv
<1>5. CASE NextDeadline
    <2>1. pc' = "next"
        BY <1>5 DEF NextDeadline
    <2>2. /\ todo' \in Seq(Ids) /\ kind' \in Kinds
          /\ \A i \in DOMAIN todo' : todo'[i] \in DOMAIN deadlines /\ todo'[i] # Current
          /\ \A i, j \in DOMAIN todo' : todo'[i] = todo'[j] => i = j
          /\ \A i \in DOMAIN todo' :
                activities[todo'[i]][Missed] = 0 /\ deadlines[todo'[i]].status # "missed"
        BY <1>1, <1>5, NextDeadlineKeeps
    <2>3. TypeOK' /\ Bounded' /\ PassShape' /\ ListedOnce' /\ AlertStands'
        BY <1>1, <2>1, <2>2 DEF IInv, TypeOK, Bounded, PassShape, ListedOnce, AlertStands
    <2>4. NotMissedYet'
        BY <1>1, <2>1, <2>2 DEF IInv, NotMissedYet
    <2>5. AlertsAccounted' /\ WidestWindowFirst' /\ MissedIsTold'
        BY <1>1, <2>1 DEF IInv, AlertsAccounted, WidestWindowFirst, MissedIsTold, InFlight, One
    <2> QED
        BY <2>3, <2>4, <2>5 DEF IInv
<1> QED
    BY <1>3, <1>4, <1>5 DEF Examine

LEMMA MarkMissedKeeps ==
    ASSUME IInv, MarkMissed
    PROVE  IInv'
<1>1. /\ pc = "mark" /\ pc' = "tell" /\ todo # <<>> /\ today' = today /\ now' = now
      /\ todo' = todo /\ kind' = kind
      /\ UNCHANGED <<activities, keys, aborts, unkeyed, unheard>>
    BY DEF MarkMissed, history, IInv, PassShape
<1>2. Current = todo[1] /\ 1 \in DOMAIN todo /\ Current \in DOMAIN deadlines
    BY <1>1, CurrentIsFirst DEF IInv
<1>3. kind = Missed /\ Parses(Due) /\ Due < now
    BY <1>1 DEF IInv, TypeOK, AlertStands, Kinds
<1>4. /\ deadlines' \in Seq(Deadline) /\ Len(deadlines') = Len(deadlines)
      /\ DOMAIN deadlines' = DOMAIN deadlines
      /\ \A e \in DOMAIN deadlines :
            /\ deadlines'[e].due = deadlines[e].due
            /\ deadlines'[e].status = IF e = Current THEN "missed" ELSE deadlines[e].status
    <2>1. TypeOK /\ Bounded /\ "missed" \in {"pending", "completed", "missed"}
        BY DEF IInv
    <2>2. deadlines' = [deadlines EXCEPT ![Current].status = "missed"]
        BY DEF MarkMissed
    <2> QED
        BY <1>2, <2>1, <2>2, StatusOfRow
<1>5. Current' = Current /\ Due' = Due
    BY <1>1, <1>2, <1>4 DEF Current, Due
<1>6. TypeOK' /\ Bounded' /\ PassShape' /\ ListedOnce'
    BY <1>1, <1>4 DEF IInv, TypeOK, Bounded, PassShape, ListedOnce
<1>7. AlertStands'
    BY <1>1, <1>5 DEF IInv, AlertStands
<1>8. activities[Current][Missed] = 0
    BY <1>1, <1>2 DEF IInv, NotMissedYet, Missing
<1>9. NotMissedYet'
    <2>1. \A i \in DOMAIN todo : i > 1 =>
              activities[todo[i]][Missed] = 0 /\ deadlines'[todo[i]].status # "missed"
        <3> SUFFICES ASSUME NEW i \in DOMAIN todo, i > 1
                     PROVE  activities[todo[i]][Missed] = 0 /\ deadlines'[todo[i]].status # "missed"
            OBVIOUS
        <3>1. activities[todo[i]][Missed] = 0 /\ deadlines[todo[i]].status # "missed"
            BY DEF IInv, NotMissedYet
        <3>2. todo[i] \in DOMAIN deadlines /\ todo[i] # Current
            BY <1>2 DEF IInv, ListedOnce
        <3> QED
            BY <1>4, <3>1, <3>2
    <2>2. \A d \in DOMAIN deadlines' :
              deadlines'[d].status = "pending" => activities[d][Missed] = 0
        BY <1>4 DEF IInv, NotMissedYet
    <2>3. \A d \in Ids \ DOMAIN deadlines' : activities[d][Missed] = 0
        BY <1>4 DEF IInv, NotMissedYet
    <2>4. Missing'
        BY <1>1, <1>3 DEF Missing
    <2>5. activities[Current][Missed] = 0 /\ deadlines'[Current].status # "pending"
        BY <1>2, <1>4, <1>8
    <2> QED
        BY <1>1, <1>5, <2>1, <2>2, <2>3, <2>4, <2>5 DEF NotMissedYet
<1>10. AlertsAccounted' /\ WidestWindowFirst'
    BY <1>1 DEF IInv, AlertsAccounted, WidestWindowFirst, InFlight, One
<1>11. MissedIsTold'
    <2> SUFFICES ASSUME NEW d \in DOMAIN deadlines, deadlines'[d].status = "missed"
                 PROVE  /\ Parses(deadlines[d].due) /\ deadlines[d].due < today
                        /\ \/ activities[d][Missed] = 1
                           \/ activities[d][Missed] = 0 /\ d \in unheard
                           \/ activities[d][Missed] = 0 /\ Current = d
        BY <1>1, <1>4, <1>5 DEF MissedIsTold, Parses
    <2>1. CASE d = Current
        <3>1. Due < today
            BY <1>3, BoundsAreNumbers DEF IInv, TypeOK, PassShape, Parses, Days
        <3> QED
            BY <1>3, <1>8, <2>1, <3>1 DEF Due
    <2>2. CASE d # Current
        BY <1>1, <1>4, <2>2 DEF IInv, MissedIsTold
    <2> QED
        BY <2>1, <2>2
<1> QED
    BY <1>6, <1>7, <1>9, <1>10, <1>11 DEF IInv

LEMMA AddActivityKeeps ==
    ASSUME IInv, AddActivity
    PROVE  IInv'
<1>1. /\ pc = "tell" /\ pc' = "key" /\ todo # <<>> /\ today' = today /\ now' = now
      /\ todo' = todo /\ kind' = kind
      /\ UNCHANGED <<deadlines, keys, aborts, unkeyed, unheard>>
    BY DEF AddActivity, history, IInv, PassShape
<1>2. Current = todo[1] /\ 1 \in DOMAIN todo /\ Current \in DOMAIN deadlines /\ Current \in Ids
    BY <1>1, CurrentIsFirst DEF IInv
<1>3. /\ activities' \in [Ids -> [Kinds -> Nat]]
      /\ \A d \in Ids, k \in Kinds :
            activities'[d][k] = IF d = Current /\ k = kind
                                   THEN activities[d][k] + 1 ELSE activities[d][k]
    <2>1. activities \in [Ids -> [Kinds -> Nat]] /\ kind \in Kinds
        BY DEF IInv, TypeOK
    <2> QED
        BY <1>2, <2>1 DEF AddActivity
<1>4. Current' = Current /\ Due' = Due
    BY <1>1 DEF Current, Due
<1>5. TypeOK' /\ Bounded' /\ PassShape' /\ ListedOnce'
    BY <1>1, <1>3 DEF IInv, TypeOK, Bounded, PassShape, ListedOnce
<1>6. AlertStands'
    BY <1>1, <1>4 DEF IInv, AlertStands
<1>7. Missed \in Kinds /\ DOMAIN deadlines \subseteq Ids
    BY RowsType DEF Kinds, IInv
<1>8. NotMissedYet'
    <2>1. \A d \in Ids : d # Current \/ kind # Missed => activities'[d][Missed] = activities[d][Missed]
        BY <1>3, <1>7
    <2>2. \A d \in Ids \ DOMAIN deadlines : activities'[d][Missed] = 0
        BY <1>2, <2>1 DEF IInv, NotMissedYet
    <2>3. ASSUME NEW d \in DOMAIN deadlines, deadlines[d].status = "pending"
          PROVE  activities'[d][Missed] = 0
        <3>1. d # Current \/ kind # Missed
            BY <1>1, <2>3 DEF IInv, NotMissedYet
        <3> QED
            BY <1>7, <2>1, <2>3, <3>1 DEF IInv, NotMissedYet
    <2>4. ASSUME NEW i \in DOMAIN todo, i > 1 \/ kind # Missed
          PROVE  activities'[todo[i]][Missed] = 0 /\ deadlines[todo[i]].status # "missed"
        <3>1. activities[todo[i]][Missed] = 0 /\ deadlines[todo[i]].status # "missed"
            BY <2>4 DEF IInv, NotMissedYet, Missing
        <3>2. todo[i] \in Ids /\ (i > 1 => todo[i] # Current)
            BY <1>2, <1>7 DEF IInv, ListedOnce
        <3> QED
            BY <2>1, <2>4, <3>1, <3>2
    <2> QED
        BY <1>1, <2>2, <2>3, <2>4 DEF NotMissedYet, Missing
<1>9. AlertsAccounted'
    <2> SUFFICES ASSUME NEW d \in Ids, NEW k \in Kinds
                 PROVE  activities'[d][k] = One(<<d, k>> \in keys) + unkeyed[d][k]
                                            + One(Current = d /\ kind = k)
        BY <1>1, <1>4 DEF AlertsAccounted, InFlight
    <2>1. activities[d][k] = One(<<d, k>> \in keys) + unkeyed[d][k] + 0
        BY <1>1 DEF IInv, AlertsAccounted, InFlight, One
    <2>2. unkeyed[d][k] \in Nat
        BY DEF IInv, TypeOK
    <2>3. CASE Current = d /\ kind = k
        BY <1>3, <2>1, <2>2, <2>3 DEF One
    <2>4. CASE ~ (Current = d /\ kind = k)
        BY <1>3, <2>1, <2>2, <2>4 DEF One
    <2> QED
        BY <2>3, <2>4
<1>10. WidestWindowFirst'
    <2> SUFFICES ASSUME NEW d \in Ids, NEW w \in Windows, activities'[d][w] > 0,
                        NEW v \in Windows, v > w
                 PROVE  <<d, v>> \in keys
        BY <1>1 DEF WidestWindowFirst
    <2>1. CASE d = Current /\ w = kind
        BY <1>1, <2>1 DEF IInv, AlertStands
    <2>2. CASE ~ (d = Current /\ w = kind)
        <3>1. activities[d][w] > 0
            BY <1>3, <2>2 DEF Kinds
        <3> QED
            BY <3>1 DEF IInv, WidestWindowFirst
    <2> QED
        BY <2>1, <2>2
<1>11. MissedIsTold'
    <2> SUFFICES ASSUME NEW d \in DOMAIN deadlines, deadlines[d].status = "missed"
                 PROVE  /\ Parses(deadlines[d].due) /\ deadlines[d].due < today
                        /\ \/ activities'[d][Missed] = 1
                           \/ activities'[d][Missed] = 0 /\ d \in unheard
        BY <1>1 DEF MissedIsTold
    <2>1. /\ Parses(deadlines[d].due) /\ deadlines[d].due < today
          /\ \/ activities[d][Missed] = 1
             \/ activities[d][Missed] = 0 /\ d \in unheard
             \/ activities[d][Missed] = 0 /\ Current = d
        BY DEF IInv, MissedIsTold
    <2>2. d \in Ids
        BY <1>7
    <2>3. CASE d = Current
        <3>1. kind = Missed
            BY <1>1, <1>2, <2>3 DEF IInv, NotMissedYet, Missing
        <3>2. activities[d][Missed] = 0
            BY <1>1, <2>3, <3>1 DEF IInv, NotMissedYet
        <3> QED
            BY <1>3, <1>7, <2>1, <2>2, <2>3, <3>1, <3>2
    <2>4. CASE d # Current
        BY <1>3, <1>7, <2>1, <2>2, <2>4
    <2> QED
        BY <2>3, <2>4
<1> QED
    BY <1>5, <1>6, <1>8, <1>9, <1>10, <1>11 DEF IInv

LEMMA SetKeyKeeps ==
    ASSUME IInv, SetKey
    PROVE  IInv'
<1>1. /\ pc = "key" /\ todo # <<>> /\ today' = today /\ now' = now /\ NextDeadline /\ pc' = "next"
      /\ keys' = keys \cup {<<Current, kind>>}
      /\ UNCHANGED <<deadlines, activities, aborts, unkeyed, unheard>>
    BY DEF SetKey, history, IInv, PassShape, NextDeadline
<1>2. Current \in Ids /\ kind \in Kinds
    BY <1>1, CurrentIsFirst DEF IInv, TypeOK
<1>3. /\ todo' \in Seq(Ids) /\ kind' \in Kinds
      /\ \A i \in DOMAIN todo' : todo'[i] \in DOMAIN deadlines /\ todo'[i] # Current
      /\ \A i, j \in DOMAIN todo' : todo'[i] = todo'[j] => i = j
      /\ \A i \in DOMAIN todo' :
            activities[todo'[i]][Missed] = 0 /\ deadlines[todo'[i]].status # "missed"
    BY <1>1, NextDeadlineKeeps
<1>4. TypeOK' /\ Bounded' /\ PassShape' /\ ListedOnce' /\ AlertStands'
    <2>1. keys' \subseteq Ids \X Kinds
        BY <1>1, <1>2 DEF IInv, TypeOK
    <2>2. TypeOK'
        BY <1>1, <1>3, <2>1 DEF IInv, TypeOK
    <2> QED
        BY <1>1, <1>3, <2>2 DEF IInv, Bounded, PassShape, ListedOnce, AlertStands
<1>5. NotMissedYet'
    BY <1>1, <1>3 DEF IInv, NotMissedYet
<1>6. AlertsAccounted'
    <2> SUFFICES ASSUME NEW d \in Ids, NEW k \in Kinds
                 PROVE  activities[d][k] = One(<<d, k>> \in keys') + unkeyed[d][k] + 0
        BY <1>1 DEF AlertsAccounted, InFlight, One
    <2>1. activities[d][k] = One(<<d, k>> \in keys) + unkeyed[d][k] + One(InFlight(d, k))
        BY DEF IInv, AlertsAccounted
    <2>2. unkeyed[d][k] \in Nat
        BY DEF IInv, TypeOK
    <2>3. CASE InFlight(d, k)
        <3>1. <<d, k>> \notin keys /\ <<d, k>> \in keys'
            BY <1>1, <2>3 DEF IInv, AlertStands, InFlight
        <3> QED
            BY <2>1, <2>2, <2>3, <3>1 DEF One
    <2>4. CASE ~ InFlight(d, k)
        <3>1. <<d, k>> \in keys' <=> <<d, k>> \in keys
            BY <1>1, <2>4 DEF InFlight
        <3> QED
            BY <2>1, <2>2, <2>4, <3>1 DEF One
    <2> QED
        BY <2>3, <2>4
<1>7. WidestWindowFirst' /\ MissedIsTold'
    BY <1>1 DEF IInv, WidestWindowFirst, MissedIsTold
<1> QED
    BY <1>4, <1>5, <1>6, <1>7 DEF IInv

LEMMA AbortKeeps ==
    ASSUME IInv, Abort
    PROVE  IInv'
<1>1. aborts' \in 0..MaxAborts
    BY BoundsAreNumbers DEF IInv, TypeOK, Abort
<1> QED
    BY <1>1, LeaveKeeps DEF Abort, store

(* A pass that comes to its end, or to a date it cannot read, has no alert *)
(* under way.                                                              *)
LEMMA EndKeeps ==
    ASSUME IInv, EndPass \/ ParseRaises
    PROVE  IInv'
<1>1. /\ pc = "next" /\ Leave /\ UNCHANGED <<today, store, history>>
    BY DEF EndPass, ParseRaises
<1>2. aborts' \in 0..MaxAborts
    BY <1>1 DEF IInv, TypeOK, history
<1> QED
    BY <1>1, <1>2, LeaveKeeps DEF store, history
-----------------------------------------------------------------------------
LEMMA Initially == Init => IInv
<1> SUFFICES ASSUME Init PROVE IInv
    OBVIOUS
<1>1. /\ deadlines = <<>> /\ todo = <<>> /\ pc = "idle" /\ keys = {} /\ unheard = {}
      /\ today = 0 /\ now = 0 /\ kind = Missed /\ aborts = 0 /\ unkeyed = activities
      /\ activities = [d \in Ids |-> [k \in Kinds |-> 0]]
    BY DEF Init
<1>2. Missed \in Kinds /\ \A d \in Ids, k \in Kinds : activities[d][k] = 0
    BY <1>1 DEF Kinds
<1>3. TypeOK
    <2>1. activities \in [Ids -> [Kinds -> Nat]] /\ unkeyed \in [Ids -> [Kinds -> Nat]]
        BY <1>1
    <2>2. deadlines \in Seq(Deadline) /\ todo \in Seq(Ids)
        BY <1>1
    <2>3. today \in Days /\ now \in Days /\ aborts \in 0..MaxAborts /\ kind \in Kinds
        BY <1>1, <1>2, BoundsAreNumbers DEF Days
    <2> QED
        BY <1>1, <2>1, <2>2, <2>3 DEF TypeOK
<1>4. Bounded /\ PassShape /\ ListedOnce /\ AlertStands
    BY <1>1, BoundsAreNumbers DEF Bounded, PassShape, ListedOnce, AlertStands
<1>5. NotMissedYet /\ MissedIsTold
    BY <1>1, <1>2 DEF NotMissedYet, MissedIsTold
<1>6. AlertsAccounted /\ WidestWindowFirst
    BY <1>1, <1>2 DEF AlertsAccounted, WidestWindowFirst, One, InFlight, Kinds
<1> QED
    BY <1>3, <1>4, <1>5, <1>6 DEF IInv

LEMMA StepKeeps == IInv /\ [Next]_vars => IInv'
<1> SUFFICES ASSUME IInv, [Next]_vars PROVE IInv'
    OBVIOUS
<1>1. CASE Tick
    BY <1>1, TickMoves, PeopleKeep
<1>2. CASE CreateDeadline
    BY <1>2, CreateMoves, PeopleKeep
<1>3. ASSUME NEW d \in DOMAIN deadlines, CompleteDeadline(d) PROVE IInv'
    BY <1>3, CompleteMoves, PeopleKeep
<1>4. CASE StartPass
    BY <1>4, StartPassKeeps
<1>5. CASE Examine
    BY <1>5, ExamineKeeps
<1>6. CASE EndPass \/ ParseRaises
    BY <1>6, EndKeeps
<1>7. CASE MarkMissed
    BY <1>7, MarkMissedKeeps
<1>8. CASE AddActivity
    BY <1>8, AddActivityKeeps
<1>9. CASE SetKey
    BY <1>9, SetKeyKeeps
<1>10. CASE Abort
    BY <1>10, AbortKeeps
<1>11. CASE UNCHANGED vars
    <2>1. PeopleMove
        BY <1>11, RowsType, BoundsAreNumbers
           DEF IInv, TypeOK, Bounded, PeopleMove, vars, store, Days
    <2> QED
        BY <2>1, PeopleKeep
<1> QED
    BY <1>1, <1>2, <1>3, <1>4, <1>5, <1>6, <1>7, <1>8, <1>9, <1>10, <1>11 DEF Next, Check

(* What every reachable state satisfies.                                   *)
THEOREM Invariance == Spec => []IInv
<1>1. Init => IInv
    BY Initially
<1>2. IInv /\ [Next]_vars => IInv'
    BY StepKeeps
<1> QED
    BY <1>1, <1>2, PTL DEF Spec

(* Every row of deadlines, and every list of a pass, is what its table and *)
(* its code say it is.                                                     *)
THEOREM TypeCorrect == Spec => []TypeOK
<1>1. IInv => TypeOK
    BY DEF IInv
<1> QED
    BY <1>1, Invariance, PTL

(* The log of a matter accounts for its deadlines, whoever completes one   *)
(* while a pass has it on its list and wherever passes end: one activity   *)
(* for every alert and one more for every key never set, the widest window *)
(* first, and every miss told unless a pass ended right before it.         *)
THEOREM AlertsAndMissesAlwaysTold == Spec => []AlertsAndMissesTold
<1>1. IInv => AlertsAndMissesTold
    BY DEF IInv, AlertsAndMissesTold
<1> QED
    BY <1>1, Invariance, PTL
=============================================================================
