---------------------------- MODULE FeedbackProofs ----------------------------
(***************************************************************************)
(* Theorems about Drafts and Learning, for any clients, executions, runs,  *)
(* learners and bounds.                                                    *)
(*                                                                         *)
(* The argument for the drafts: a row is approved or rejected by a command *)
(* that then logs it, and nothing returns a row to pending or expired.  So *)
(* a row that is approved or rejected has its entry in the log, or a       *)
(* command that is about to write it, or is remembered as one whose        *)
(* command failed between the two; and one that is not has neither         *)
(* (RowsTell).  What a command has read of a draft may be stale, but not   *)
(* the suggestion it decides by (CommandsInProgress).  A run has as many   *)
(* rows as suggestions, less those still to be made (RunsInProgress).      *)
(*                                                                         *)
(* The argument for the rules: decisions are only added, each for an item  *)
(* of its own, so what bore a rule out when a learner computed it bears it *)
(* out when the rule is written, and ever after (LearnersBorneOut); that   *)
(* needs the counts of two moments compared, which is what most of the     *)
(* lemmas are about.  A row keeps its kind, so a learner that found one    *)
(* updates a row of its rule (FoundRows); one that found none inserts, and *)
(* as long as no two learn at once there still is none (LearnersApart).    *)
(***************************************************************************)
EXTENDS Drafts, Learning, FiniteSetTheorems, SequenceTheorems, WellFoundedInduction, TLAPS

LEMMA LeastOf ==
    ASSUME NEW S \in SUBSET Nat, S # {}
    PROVE  \E x \in S : \A y \in S : x <= y
<1>1. PICK x \in S : \A y \in S : ~ (<<y, x>> \in OpToRel(<, Nat))
    BY WFMin, NatLessThanWellFounded
<1>2. \A y \in S : ~ (y < x)
    BY <1>1 DEF OpToRel
<1>3. \A y \in S : y \in Nat /\ x \in Nat
    OBVIOUS
<1> QED
    BY <1>2, <1>3

LEMMA GreatestOf ==
    ASSUME NEW S \in SUBSET Nat, S # {}, NEW b \in Nat, \A x \in S : x <= b
    PROVE  \E x \in S : \A y \in S : y <= x
<1> DEFINE B == {n \in Nat : \A x \in S : x <= n}
<1>1. B \in SUBSET Nat /\ B # {}
    OBVIOUS
<1>2. PICK n \in B : \A m \in B : n <= m
    BY <1>1, LeastOf
<1>3. n \in Nat /\ \A x \in S : x \in Nat /\ x <= n
    OBVIOUS
<1>4. n \in S
    <2> SUFFICES ASSUME n \notin S PROVE FALSE
        OBVIOUS
    <2>1. \A x \in S : x < n
        BY <1>3
    <2>2. n # 0
        <3>1. PICK x \in S : TRUE
            OBVIOUS
        <3> QED
            BY <1>3, <2>1, <3>1
    <2>3. n - 1 \in B
        BY <1>3, <2>1, <2>2
    <2> QED
        BY <1>2, <1>3, <2>3
<1> QED
    BY <1>3, <1>4

LEMMA TwoMembers ==
    ASSUME NEW S, IsFiniteSet(S), Cardinality(S) >= 2
    PROVE  \E x, y \in S : x # y
<1>1. Cardinality(S) \in Nat /\ Cardinality(S) # 0 /\ Cardinality(S) # 1
    BY FS_CardinalityType
<1>2. PICK x : x \in S
    BY <1>1, FS_EmptySet
<1>3. S # {x}
    BY <1>1, FS_Singleton
<1> QED
    BY <1>2, <1>3

LEMMA ImageFinite ==
    ASSUME NEW S, IsFiniteSet(S), NEW f
    PROVE  IsFiniteSet({f[x] : x \in S})
<1> DEFINE g == [x \in S |-> f[x]]
           T == {f[x] : x \in S}
<1>1. g \in Surjection(S, T)
    BY DEF Surjection
<1> QED
    BY <1>1, FS_Surjection
-----------------------------------------------------------------------------
(***************************************************************************)
(* Drafts                                                                  *)
(***************************************************************************)
(* Where the scheduler is with a run, told by the rows it has made.        *)
RunsInProgress ==
    \A r \in Executions :
        /\ run[r] = "executing" => Made(r) = {} /\ suggested[r] = <<>>
        /\ run[r] = "creating" => Cardinality(Made(r)) < Len(suggested[r])

(* A command at work has a draft before it, whose entry it has read; no    *)
(* step of another changes in it what the command decides by.              *)
CommandsInProgress ==
    \A c \in Clients :
        /\ pc[c] # "idle" => todo[c] # <<>>
        /\ \A k \in DOMAIN todo[c] : read[c][k].sure = drafts[todo[c][k]].entry.sure
        /\ pc[c] = "edit" => action[c] = "edited"
        /\ pc[c] \in {"decide", "log"} /\ action[c] = "edited" =>
               drafts[Current(c)].entry.by # Model

LoggedAs(d, a) == [draft |-> d, action |-> a] \in feedback

(* StatusExplained and UndecidedUntouched, one row and one entry of the    *)
(* log at a time.                                                          *)
ToldOf(d, actions) ==
    \/ \E a \in actions : LoggedAs(d, a)
    \/ \E c \in Clients : pc[c] = "log" /\ Current(c) = d /\ action[c] \in actions
    \/ d \in unlogged

Explained(d) ==
    /\ drafts[d].status = "approved" => ToldOf(d, {"approved", "edited"})
    /\ drafts[d].status = "rejected" => ToldOf(d, {"rejected"})
    /\ LoggedAs(d, "edited") => drafts[d].entry.by # Model

Undecided(d) ==
    drafts[d].status \in {"pending", "expired"} =>
        /\ \A a \in Actions : ~ LoggedAs(d, a)
        /\ \A c \in Clients : ~ (pc[c] = "log" /\ Current(c) = d)
        /\ d \notin unlogged
        /\ \/ drafts[d].entry.by = Model
           \/ \E c \in Clients : pc[c] = "decide" /\ Current(c) = d /\ action[c] = "edited"
           \/ d \in halfEdited

RowsTell == \A d \in DOMAIN drafts : Explained(d) /\ Undecided(d)

DraftsIInv == TypeOK /\ RunsInProgress /\ DraftsOfRuns /\ CommandsInProgress /\ RowsTell
-----------------------------------------------------------------------------
LEMMA RowsAndLog ==
    ASSUME TypeOK
    PROVE  RowsTell => StatusExplained /\ UndecidedUntouched
<1> SUFFICES ASSUME RowsTell PROVE StatusExplained /\ UndecidedUntouched
    OBVIOUS
<1>1. \A d \in DOMAIN drafts, a \in Actions : a \in Given(d) <=> LoggedAs(d, a)
    <2>1. \A g \in feedback : g = [draft |-> g.draft, action |-> g.action]
        BY DEF TypeOK
    <2> QED
        BY <2>1 DEF Given, LoggedAs
<1>2. \A d \in DOMAIN drafts : Given(d) \subseteq Actions
    BY DEF Given, TypeOK
<1>3. StatusExplained
    <2> SUFFICES ASSUME NEW d \in DOMAIN drafts
                 PROVE  /\ drafts[d].status = "approved" =>
                            \/ Given(d) \cap {"approved", "edited"} # {}
                            \/ \E c \in At(d, {"log"}) : action[c] \in {"approved", "edited"}
                            \/ d \in unlogged
                        /\ drafts[d].status = "rejected" =>
                            \/ Given(d) \cap {"rejected"} # {}
                            \/ \E c \in At(d, {"log"}) : action[c] \in {"rejected"}
                            \/ d \in unlogged
                        /\ "edited" \in Given(d) => drafts[d].entry.by # Model
        BY DEF StatusExplained
    <2>1. Explained(d)
        BY DEF RowsTell
    <2>2. ASSUME NEW actions \in SUBSET Actions, ToldOf(d, actions)
          PROVE  \/ Given(d) \cap actions # {}
                 \/ \E c \in At(d, {"log"}) : action[c] \in actions
                 \/ d \in unlogged
        BY <1>1, <2>2 DEF ToldOf, At
    <2> QED
        BY <1>1, <2>1, <2>2 DEF Explained, Actions
<1>4. UndecidedUntouched
    <2> SUFFICES ASSUME NEW d \in DOMAIN drafts, drafts[d].status \in {"pending", "expired"}
                 PROVE  /\ Given(d) = {} /\ At(d, {"log"}) = {} /\ d \notin unlogged
                        /\ \/ drafts[d].entry.by = Model
                           \/ \E c \in At(d, {"decide"}) : action[c] = "edited"
                           \/ d \in halfEdited
        BY DEF UndecidedUntouched
    <2>1. Undecided(d)
        BY DEF RowsTell
    <2> QED
        BY <1>1, <1>2, <2>1 DEF Undecided, At
<1> QED
    BY <1>3, <1>4

LEMMA RowsFinite ==
    ASSUME TypeOK
    PROVE  /\ DOMAIN drafts = 1..Len(drafts) /\ Len(drafts) \in Nat
           /\ \A S \in SUBSET DOMAIN drafts : IsFiniteSet(S) /\ Cardinality(S) \in Nat
<1>1. DOMAIN drafts = 1..Len(drafts) /\ Len(drafts) \in Nat
    BY DEF TypeOK
<1>2. IsFiniteSet(DOMAIN drafts)
    BY <1>1, FS_Interval
<1> QED
    BY <1>1, <1>2, FS_Subset, FS_CardinalityType

LEMMA RowTyped ==
    ASSUME TypeOK, NEW d \in DOMAIN drafts
    PROVE  /\ drafts[d] \in Draft /\ drafts[d].entry \in Entry
           /\ drafts[d].status \in Status /\ drafts[d].entry.sure \in BOOLEAN
<1>1. drafts[d] \in Draft
    BY RowsFinite DEF TypeOK
<1> QED
    BY <1>1 DEF Draft, Entry

LEMMA DraftsInit == Init => DraftsIInv
<1> SUFFICES ASSUME Init PROVE DraftsIInv
    OBVIOUS
<1> USE DEF Init
<1>1. \A r \in Executions : Made(r) = {}
    BY DEF Made
<1>2. TypeOK
    BY BoundsAssumption DEF TypeOK, Actions
<1>3. DraftsOfRuns
    <2>1. \A r \in Executions : Cardinality(Made(r)) = 0 /\ Len(suggested[r]) = 0
        BY <1>1, FS_EmptySet
    <2> QED
        BY <1>1, <2>1 DEF DraftsOfRuns
<1> QED
    BY <1>1, <1>2, <1>3 DEF DraftsIInv, RunsInProgress, CommandsInProgress, RowsTell
-----------------------------------------------------------------------------
(* Status and author of rows change, nothing else of them.                 *)
SameRows ==
    /\ drafts' \in Seq(Draft) /\ Len(drafts') = Len(drafts)
    /\ \A d \in DOMAIN drafts :
           /\ drafts'[d].run = drafts[d].run
           /\ drafts'[d].entry.sure = drafts[d].entry.sure

LEMMA SameRowsRuns ==
    ASSUME DraftsIInv, SameRows, UNCHANGED daemon
    PROVE  DOMAIN drafts' = DOMAIN drafts /\ RunsInProgress' /\ DraftsOfRuns'
<1>1. DOMAIN drafts' = DOMAIN drafts
    BY DEF SameRows, DraftsIInv, TypeOK
<1>2. \A r \in Executions : Made(r)' = Made(r)
    BY <1>1 DEF SameRows, Made
<1>3. \A r \in Executions : \A d \in Made(r) : drafts'[d].entry.sure = drafts[d].entry.sure
    BY DEF SameRows, Made
<1>4. RunsInProgress'
    BY <1>2 DEF DraftsIInv, RunsInProgress, daemon
<1>5. DraftsOfRuns'
    BY <1>2, <1>3 DEF DraftsIInv, DraftsOfRuns, daemon
<1> QED
    BY <1>1, <1>4, <1>5
-----------------------------------------------------------------------------
(***************************************************************************)
(* Commands                                                                *)
(***************************************************************************)
(* The variables of the other clients' commands stay.                      *)
Elsewhere(c) ==
    \A k \in Clients \ {c} :
        pc'[k] = pc[k] /\ todo'[k] = todo[k] /\ read'[k] = read[k] /\ action'[k] = action[k]

(* What c goes on with are rows, of which it has read the entries.         *)
GoesOnWith(c, ids, entries) ==
    /\ ids \in Seq(DOMAIN drafts) /\ entries \in Seq(Entry) /\ Len(ids) = Len(entries)
    /\ \A k \in DOMAIN ids : entries[k].sure = drafts[ids[k]].entry.sure
    /\ todo' = [todo EXCEPT ![c] = ids] /\ read' = [read EXCEPT ![c] = entries]

LEMMA ReadsEffect ==
    ASSUME TypeOK, NEW c \in Clients, NEW ids \in Seq(DOMAIN drafts), Reads(c, ids)
    PROVE  \E entries : GoesOnWith(c, ids, entries)
<1> DEFINE entries == [k \in DOMAIN ids |-> drafts[ids[k]].entry]
<1>1. DOMAIN ids = 1..Len(ids) /\ Len(ids) \in Nat
    OBVIOUS
<1>2. \A k \in DOMAIN ids : ids[k] \in DOMAIN drafts
    BY <1>1
<1>3. \A k \in DOMAIN ids : drafts[ids[k]].entry \in Entry
    BY <1>2, RowTyped
<1>4. entries \in [1..Len(ids) -> Entry]
    BY <1>1, <1>3
<1>5. entries \in Seq(Entry) /\ Len(entries) = Len(ids)
    BY <1>1, <1>4
<1>6. GoesOnWith(c, ids, entries)
    BY <1>5 DEF GoesOnWith, Reads
<1> QED
    BY <1>6

(* The command of c goes to label, without having edited what comes next.  *)
Goes(c, label, a, ids, entries) ==
    /\ label \in {"idle", "next", "edit", "decide"} /\ a \in Actions
    /\ pc' = [pc EXCEPT ![c] = label] /\ action' = [action EXCEPT ![c] = a]
    /\ GoesOnWith(c, ids, entries)
    /\ label # "idle" => ids # <<>>
    /\ label = "edit" => a = "edited"
    /\ label = "decide" => a # "edited"
    /\ auto' \in [Clients -> BOOLEAN]

(* Who had decided a draft has told the log, or is remembered as gone; who *)
(* had edited one likewise.                                                *)
Remembered(c) ==
    /\ \/ feedback' = feedback
       \/ /\ pc[c] = "log"
          /\ feedback' = feedback \cup {[draft |-> Current(c), action |-> action[c]]}
    /\ \/ unlogged' = unlogged
       \/ pc[c] = "log" /\ unlogged' = unlogged \cup {Current(c)}
    /\ pc[c] = "log" => \/ [draft |-> Current(c), action |-> action[c]] \in feedback'
                        \/ Current(c) \in unlogged'
    /\ halfEdited \subseteq halfEdited' /\ halfEdited' \subseteq DOMAIN drafts
    /\ pc[c] = "decide" /\ action[c] = "edited" => Current(c) \in halfEdited'

Bounded == clock' \in 0..MaxTime /\ commands' \in 0..MaxCommands /\ failures' \in 0..MaxFailures

(* A step of a command that changes no row.                                *)
LEMMA CommandStep ==
    ASSUME DraftsIInv, NEW c \in Clients, UNCHANGED <<drafts, daemon>>, Bounded, Remembered(c),
           NEW label, NEW a, NEW ids, NEW entries, Goes(c, label, a, ids, entries)
    PROVE  DraftsIInv'
<1>10. RunsInProgress' /\ DraftsOfRuns'
    <2>1. SameRows
        BY DEF SameRows, DraftsIInv, TypeOK
    <2> QED
        BY <2>1, SameRowsRuns
<1> USE DEF DraftsIInv, daemon, Goes, Remembered, Bounded
<1>1. pc[c] # "idle" => Current(c) \in DOMAIN drafts
    <2>1. todo[c] \in Seq(DOMAIN drafts)
        BY DEF TypeOK
    <2> QED
        BY <2>1 DEF CommandsInProgress, Current
<1>2. /\ pc' \in [Clients -> {"idle", "next", "edit", "decide", "log"}] /\ pc'[c] = label
      /\ action' \in [Clients -> Actions] /\ action'[c] = a
      /\ todo' \in [Clients -> Seq(DOMAIN drafts)] /\ todo'[c] = ids
      /\ read' \in [Clients -> Seq(Entry)] /\ read'[c] = entries
    BY DEF TypeOK, GoesOnWith
<1>3. Elsewhere(c)
    BY DEF TypeOK, GoesOnWith, Elsewhere
<1>4. feedback \subseteq feedback' /\ unlogged \subseteq unlogged'
    OBVIOUS
<1>5. /\ feedback' \subseteq [draft : DOMAIN drafts, action : Actions]
      /\ unlogged' \subseteq DOMAIN drafts
    BY <1>1 DEF TypeOK
<1>6. \A k \in Clients : Len(read'[k]) = Len(todo'[k])
    BY <1>2, <1>3 DEF TypeOK, Elsewhere, GoesOnWith
<1>7. TypeOK'
    BY <1>2, <1>5, <1>6 DEF TypeOK
<1>8. CommandsInProgress'
    <2> SUFFICES ASSUME NEW k \in Clients
                 PROVE  /\ pc'[k] # "idle" => todo'[k] # <<>>
                        /\ \A i \in DOMAIN todo'[k] :
                               read'[k][i].sure = drafts[todo'[k][i]].entry.sure
                        /\ pc'[k] = "edit" => action'[k] = "edited"
                        /\ pc'[k] \in {"decide", "log"} /\ action'[k] = "edited" =>
                               drafts[Head(todo'[k])].entry.by # Model
        BY DEF CommandsInProgress, Current
    <2>1. CASE k = c
        BY <1>2, <2>1 DEF GoesOnWith
    <2>2. CASE k # c
        BY <1>3, <2>2 DEF Elsewhere, CommandsInProgress, Current
    <2> QED
        BY <2>1, <2>2
<1>9. RowsTell'
    <2> SUFFICES ASSUME NEW d \in DOMAIN drafts PROVE Explained(d)' /\ Undecided(d)'
        BY DEF RowsTell
    <2>1. Explained(d) /\ Undecided(d)
        BY DEF RowsTell
    <2>2. ASSUME NEW actions, ToldOf(d, actions)
          PROVE  \/ \E b \in actions : [draft |-> d, action |-> b] \in feedback'
                 \/ \E k \in Clients : /\ pc'[k] = "log" /\ Head(todo'[k]) = d
                                       /\ action'[k] \in actions
                 \/ d \in unlogged'
        <3>1. CASE d \in unlogged \/ \E b \in actions : LoggedAs(d, b)
            BY <1>4, <3>1 DEF LoggedAs
        <3>2. CASE \E k \in Clients : pc[k] = "log" /\ Current(k) = d /\ action[k] \in actions
            <4>1. PICK k \in Clients : pc[k] = "log" /\ Current(k) = d /\ action[k] \in actions
                BY <3>2
            <4>2. CASE k = c
                BY <4>1, <4>2
            <4>3. CASE k # c
                BY <1>3, <4>1, <4>3 DEF Elsewhere, Current
            <4> QED
                BY <4>2, <4>3
        <3> QED
            BY <2>2, <3>1, <3>2 DEF ToldOf
    <2>3. [draft |-> d, action |-> "edited"] \in feedback' => drafts[d].entry.by # Model
        BY <2>1 DEF Explained, LoggedAs, CommandsInProgress
    <2>4. Explained(d)'
        BY <2>1, <2>2, <2>3 DEF Explained, ToldOf, LoggedAs, Current
    <2>5. Undecided(d)'
        <3> SUFFICES ASSUME drafts[d].status \in {"pending", "expired"}
                     PROVE  /\ \A b \in Actions : [draft |-> d, action |-> b] \notin feedback'
                            /\ \A k \in Clients : ~ (pc'[k] = "log" /\ Head(todo'[k]) = d)
                            /\ d \notin unlogged'
                            /\ \/ drafts[d].entry.by = Model
                               \/ \E k \in Clients : /\ pc'[k] = "decide"
                                                     /\ Head(todo'[k]) = d
                                                     /\ action'[k] = "edited"
                               \/ d \in halfEdited'
            BY DEF Undecided, LoggedAs, Current
        <3>1. /\ \A b \in Actions : ~ LoggedAs(d, b)
              /\ \A k \in Clients : ~ (pc[k] = "log" /\ Current(k) = d)
              /\ d \notin unlogged
              /\ \/ drafts[d].entry.by = Model
                 \/ \E k \in Clients : pc[k] = "decide" /\ Current(k) = d /\ action[k] = "edited"
                 \/ d \in halfEdited
            BY <2>1 DEF Undecided
        <3>2. \A b \in Actions : [draft |-> d, action |-> b] \notin feedback'
            BY <3>1 DEF LoggedAs
        <3>3. ASSUME NEW k \in Clients PROVE ~ (pc'[k] = "log" /\ Head(todo'[k]) = d)
            <4>1. CASE k = c
                BY <1>2, <4>1
            <4>2. CASE k # c
                BY <1>3, <3>1, <4>2 DEF Elsewhere, Current
            <4> QED
                BY <4>1, <4>2
        <3>4. \/ drafts[d].entry.by = Model
              \/ \E k \in Clients :
                    pc'[k] = "decide" /\ Head(todo'[k]) = d /\ action'[k] = "edited"
              \/ d \in halfEdited'
            <4>1. ASSUME NEW k \in Clients, pc[k] = "decide", Current(k) = d, action[k] = "edited"
                  PROVE  \/ \E q \in Clients :
                              pc'[q] = "decide" /\ Head(todo'[q]) = d /\ action'[q] = "edited"
                         \/ d \in halfEdited'
                BY <1>3, <4>1 DEF Elsewhere, Current
            <4> QED
                BY <3>1, <4>1
        <3> QED
            BY <3>1, <3>2, <3>3, <3>4
    <2> QED
        BY <2>4, <2>5
<1> QED
    BY <1>7, <1>8, <1>9, <1>10

(* What a command that is at work has before it.                           *)
LEMMA AtWork ==
    ASSUME DraftsIInv, NEW c \in Clients, pc[c] # "idle"
    PROVE  /\ todo[c] \in Seq(DOMAIN drafts) /\ todo[c] # <<>> /\ read[c] \in Seq(Entry)
           /\ Len(todo[c]) \in Nat \ {0} /\ Len(read[c]) = Len(todo[c])
           /\ Current(c) \in DOMAIN drafts /\ Seen(c) \in Entry
           /\ Seen(c).sure = drafts[Current(c)].entry.sure
<1> USE DEF DraftsIInv
<1>1. todo[c] \in Seq(DOMAIN drafts) /\ read[c] \in Seq(Entry) /\ Len(read[c]) = Len(todo[c])
    BY DEF TypeOK
<1>2. todo[c] # <<>> /\ Len(todo[c]) \in Nat \ {0} /\ 1 \in DOMAIN todo[c]
    BY <1>1 DEF CommandsInProgress
<1>3. Current(c) = todo[c][1] /\ Seen(c) = read[c][1] /\ Seen(c) \in Entry
    BY <1>1, <1>2 DEF Current, Seen
<1>4. Seen(c).sure = drafts[Current(c)].entry.sure
    BY <1>2, <1>3 DEF CommandsInProgress
<1> QED
    BY <1>1, <1>2, <1>3, <1>4

LEMMA StaysOn ==
    ASSUME DraftsIInv, NEW c \in Clients, UNCHANGED <<todo, read>>
    PROVE  GoesOnWith(c, todo[c], read[c])
BY DEF DraftsIInv, TypeOK, CommandsInProgress, GoesOnWith

LEMMA EndsEffect ==
    ASSUME TypeOK, NEW c \in Clients, Ends(c)
    PROVE  \E entries : Goes(c, "idle", "approved", <<>>, entries)
<1>1. <<>> \in Seq(DOMAIN drafts)
    OBVIOUS
<1>2. PICK entries : GoesOnWith(c, <<>>, entries)
    BY <1>1, ReadsEffect DEF Ends
<1>3. auto' \in [Clients -> BOOLEAN]
    BY DEF Ends, TypeOK
<1>4. Goes(c, "idle", "approved", <<>>, entries)
    BY <1>2, <1>3 DEF Goes, Ends, Goto, Means, Actions
<1> QED
    BY <1>4

LEMMA MovesEffect ==
    ASSUME DraftsIInv, NEW c \in Clients, pc[c] # "idle", Moves(c)
    PROVE  \E label, ids, entries : Goes(c, label, "approved", ids, entries)
<1>1. CASE Len(todo[c]) = 1
    BY <1>1, EndsEffect DEF Moves, DraftsIInv
<1>2. CASE Len(todo[c]) # 1
    <2> DEFINE ids == Tail(todo[c])
               entries == Tail(read[c])
    <2>1. /\ todo[c] \in Seq(DOMAIN drafts) /\ todo[c] # <<>> /\ read[c] \in Seq(Entry)
          /\ Len(todo[c]) \in Nat \ {0} /\ Len(read[c]) = Len(todo[c]) /\ read[c] # <<>>
        BY AtWork
    <2>2. /\ ids \in Seq(DOMAIN drafts) /\ Len(ids) = Len(todo[c]) - 1
          /\ \A k \in 1..Len(ids) : ids[k] = todo[c][k + 1]
        BY <2>1, HeadTailProperties
    <2>3. /\ entries \in Seq(Entry) /\ Len(entries) = Len(ids)
          /\ \A k \in 1..Len(ids) : entries[k] = read[c][k + 1]
        BY <2>1, <2>2, HeadTailProperties
    <2>4. ids # <<>> /\ DOMAIN ids = 1..Len(ids) /\ \A k \in DOMAIN ids : k + 1 \in DOMAIN todo[c]
        <3> HIDE DEF ids
        <3>1. Len(ids) \in Nat \ {0}
            BY <1>2, <2>1, <2>2
        <3>2. DOMAIN ids = 1..Len(ids) /\ DOMAIN todo[c] = 1..Len(todo[c])
            BY <2>1, <2>2
        <3>3. ids # <<>>
            BY <3>1
        <3>4. \A k \in DOMAIN ids : k + 1 \in DOMAIN todo[c]
            BY <2>1, <2>2, <3>1, <3>2
        <3> QED
            BY <3>2, <3>3, <3>4
    <2>5. \A k \in DOMAIN ids : entries[k].sure = drafts[ids[k]].entry.sure
        BY <2>2, <2>3, <2>4 DEF DraftsIInv, CommandsInProgress
    <2>6. /\ todo' = [todo EXCEPT ![c] = ids] /\ read' = [read EXCEPT ![c] = entries]
          /\ pc' = [pc EXCEPT ![c] = "next"] /\ action' = [action EXCEPT ![c] = "approved"]
          /\ auto' \in [Clients -> BOOLEAN]
        BY <1>2 DEF Moves, Goto, Means, DraftsIInv, TypeOK
    <2> HIDE DEF ids, entries
    <2>7. Goes(c, "next", "approved", ids, entries)
        BY <2>2, <2>3, <2>4, <2>5, <2>6 DEF Goes, GoesOnWith, Actions
    <2> QED
        BY <2>7
<1> QED
    BY <1>1, <1>2

LEMMA NothingToldStep ==
    ASSUME TypeOK, NEW c \in Clients, pc[c] \in {"idle", "next"}, UNCHANGED drafts,
           UNCHANGED <<feedback, unlogged, halfEdited>>
    PROVE  Remembered(c)
<1>1. halfEdited \subseteq DOMAIN drafts
    BY DEF TypeOK
<1> QED
    BY <1>1 DEF Remembered

LEMMA BeginStep ==
    ASSUME DraftsIInv, NEW c \in Clients, Begins(c), NEW ids \in Seq(DOMAIN drafts), ids # <<>>,
           Reads(c, ids), NEW a \in Actions, action' = [action EXCEPT ![c] = a],
           NEW label \in {"next", "decide"}, Goto(c, label), label = "decide" => a # "edited",
           auto' \in [Clients -> BOOLEAN]
    PROVE  DraftsIInv'
<1>1. PICK entries : GoesOnWith(c, ids, entries)
    BY ReadsEffect DEF DraftsIInv
<1>2. Bounded /\ UNCHANGED <<drafts, daemon>>
    BY BoundsAssumption DEF Bounded, Begins, others, DraftsIInv, TypeOK
<1>3. Remembered(c)
    <2>1. pc[c] = "idle" /\ UNCHANGED <<feedback, unlogged, halfEdited>>
        BY DEF Begins
    <2> QED
        BY <1>2, <2>1, NothingToldStep DEF DraftsIInv
<1>4. Goes(c, label, a, ids, entries)
    BY <1>1 DEF Goes, Goto
<1> QED
    BY <1>1, <1>2, <1>3, <1>4, CommandStep

(* The newest of the drafts that wait is among those listed.               *)
LEMMA ListedRows ==
    ASSUME TypeOK, Waiting # {}, NEW ids \in Listed
    PROVE  ids \in Seq(DOMAIN drafts) /\ ids # <<>>
<1>1. Waiting \in SUBSET Nat /\ Len(drafts) \in Nat /\ \A d \in Waiting : d <= Len(drafts)
    BY RowsFinite DEF Waiting
<1>2. PICK n \in Waiting : \A e \in Waiting : e <= n
    BY <1>1, GreatestOf
<1>6. {e \in Waiting : e > n} = {}
    <2>1. \A e \in Waiting : e \in Nat /\ n \in Nat /\ e <= n
        BY <1>1, <1>2
    <2> QED
        BY <2>1
<1>7. n \in Newest
    <2>1. Cardinality({e \in Waiting : e > n}) = 0
        BY <1>6, FS_EmptySet
    <2> QED
        BY <2>1, BoundsAssumption DEF Newest
<1>8. Newest \subseteq DOMAIN drafts
    BY DEF Newest, Waiting
<1>9. Cardinality(Newest) \in Nat /\ Cardinality(Newest) # 0
    <2>1. IsFiniteSet(Newest) /\ Cardinality(Newest) \in Nat
        BY <1>8, RowsFinite
    <2> QED
        BY <1>7, <2>1, FS_EmptySet
<1>10. ids \in [1..Cardinality(Newest) -> DOMAIN drafts]
    BY <1>8 DEF Listed
<1> QED
    BY <1>9, <1>10

LEMMA BeginSteps ==
    ASSUME DraftsIInv, NEW c \in Clients,
           Review(c) \/ \E d \in DOMAIN drafts : DraftsApprove(c, d) \/ DraftsReject(c, d)
    PROVE  DraftsIInv'
<1>1. ASSUME NEW d \in DOMAIN drafts, DraftsApprove(c, d) \/ DraftsReject(c, d)
      PROVE  DraftsIInv'
    <2>1. <<d>> \in Seq(DOMAIN drafts) /\ <<d>> # <<>>
        OBVIOUS
    <2>2. auto' \in [Clients -> BOOLEAN]
        BY <1>1 DEF DraftsApprove, DraftsReject, DraftsIInv, TypeOK
    <2> QED
        BY <1>1, <2>1, <2>2, BeginStep DEF DraftsApprove, DraftsReject, Means, Actions
<1>2. ASSUME Review(c)
      PROVE  DraftsIInv'
    <2>1. PICK ids \in Listed : Reads(c, ids)
        BY <1>2 DEF Review
    <2>2. ids \in Seq(DOMAIN drafts) /\ ids # <<>>
        BY <1>2, ListedRows DEF Review, DraftsIInv
    <2>3. auto' \in [Clients -> BOOLEAN]
        BY <1>2 DEF Review, DraftsIInv, TypeOK
    <2>4. pc[c] = "idle" /\ action' = [action EXCEPT ![c] = action[c]] /\ action[c] \in Actions
        BY <1>2 DEF Review, Begins, DraftsIInv, TypeOK
    <2> QED
        BY <1>2, <2>1, <2>2, <2>3, <2>4, BeginStep DEF Review
<1> QED
    BY <1>1, <1>2

LEMMA AnswerSteps ==
    ASSUME DraftsIInv, NEW c \in Clients, AutoApprove(c) \/ Answer(c)
    PROVE  DraftsIInv'
<1>1. pc[c] = "next" /\ UNCHANGED <<drafts, daemon>>
    BY DEF AutoApprove, Answer, stored, others
<1>2. Bounded /\ Remembered(c)
    <2>1. UNCHANGED <<feedback, unlogged, halfEdited, clock, commands, failures>>
        BY DEF AutoApprove, Answer, stored, others
    <2> QED
        BY <1>1, <2>1, NothingToldStep DEF Bounded, DraftsIInv, TypeOK
<1>3. ASSUME UNCHANGED <<todo, read, auto>>, NEW label \in {"edit", "decide"}, Goto(c, label),
             NEW a \in Actions, Means(c, a), label = "edit" <=> a = "edited"
      PROVE  DraftsIInv'
    <2>1. GoesOnWith(c, todo[c], read[c]) /\ todo[c] # <<>>
        BY <1>1, <1>3, StaysOn, AtWork
    <2>2. auto' \in [Clients -> BOOLEAN]
        BY <1>3 DEF DraftsIInv, TypeOK
    <2>3. Goes(c, label, a, todo[c], read[c])
        BY <1>3, <2>1, <2>2 DEF Goes, Goto, Means
    <2> QED
        BY <1>1, <1>2, <2>3, CommandStep
<1>4. CASE Moves(c)
    BY <1>1, <1>2, <1>4, MovesEffect, CommandStep
<1>5. CASE Ends(c)
    BY <1>1, <1>2, <1>5, EndsEffect, CommandStep DEF DraftsIInv
<1> QED
    BY <1>3, <1>4, <1>5 DEF AutoApprove, Answer, Actions

(* The feedback is in the log before the command turns to the next draft.  *)
LEMMA RecordFeedbackStep ==
    ASSUME DraftsIInv, NEW c \in Clients, RecordFeedback(c)
    PROVE  DraftsIInv'
<1>1. pc[c] = "log" /\ UNCHANGED <<drafts, daemon>> /\ Moves(c)
    BY DEF RecordFeedback, others
<1>2. Bounded
    BY DEF RecordFeedback, others, Bounded, DraftsIInv, TypeOK
<1>3. Remembered(c)
    <2>1. /\ UNCHANGED <<unlogged, halfEdited>> /\ halfEdited \subseteq DOMAIN drafts
          /\ feedback' = feedback \cup {[draft |-> Current(c), action |-> action[c]]}
        BY DEF RecordFeedback, DraftsIInv, TypeOK
    <2> QED
        BY <1>1, <2>1 DEF Remembered
<1> QED
    BY <1>1, <1>2, <1>3, MovesEffect, CommandStep

LEMMA FailEffect ==
    ASSUME TypeOK, Fail
    PROVE  failures' \in 0..MaxFailures
BY BoundsAssumption DEF TypeOK, Fail

(* A command that ends between its two writes leaves its name in one of    *)
(* the histories.                                                          *)
LEMMA CommandDiesStep ==
    ASSUME DraftsIInv, NEW c \in Clients, CommandDies(c)
    PROVE  DraftsIInv'
<1>1. pc[c] # "idle" /\ UNCHANGED <<drafts, daemon>> /\ Ends(c)
    BY DEF CommandDies
<1>2. Bounded
    BY FailEffect DEF CommandDies, Bounded, DraftsIInv, TypeOK
<1>3. Remembered(c)
    <2>1. Current(c) \in DOMAIN drafts
        BY <1>1, AtWork
    <2>2. halfEdited \subseteq DOMAIN drafts
        BY DEF DraftsIInv, TypeOK
    <2>3. /\ feedback' = feedback
          /\ unlogged' = IF pc[c] = "log" THEN unlogged \cup {Current(c)} ELSE unlogged
          /\ halfEdited' = IF pc[c] = "decide" /\ action[c] = "edited"
                              THEN halfEdited \cup {Current(c)} ELSE halfEdited
        BY DEF CommandDies
    <2>4. halfEdited \subseteq halfEdited' /\ halfEdited' \subseteq DOMAIN drafts
        BY <2>1, <2>2, <2>3
    <2>5. pc[c] = "log" => Current(c) \in unlogged'
        BY <2>3
    <2> QED
        BY <2>3, <2>4, <2>5 DEF Remembered
<1> QED
    BY <1>1, <1>2, <1>3, EndsEffect, CommandStep DEF DraftsIInv
-----------------------------------------------------------------------------
(***************************************************************************)
(* Steps that change rows                                                  *)
(***************************************************************************)
(* Old drafts that wait expire: nothing else is told of them.              *)
LEMMA ExpireStep ==
    ASSUME DraftsIInv, Expire
    PROVE  DraftsIInv'
<1> USE DEF DraftsIInv
<1>1. /\ UNCHANGED daemon /\ UNCHANGED <<feedback, pc, todo, read, action, auto>>
      /\ UNCHANGED <<unlogged, halfEdited, clock, commands, failures>>
    BY DEF Expire, command
<1>2. DOMAIN drafts = 1..Len(drafts) /\ Len(drafts) \in Nat
    BY RowsFinite
<1>3. \A d \in DOMAIN drafts :
          /\ drafts'[d] \in Draft
          /\ drafts'[d].run = drafts[d].run /\ drafts'[d].entry = drafts[d].entry
          /\ drafts'[d].status = IF Old(d) THEN "expired" ELSE drafts[d].status
    <2> SUFFICES ASSUME NEW d \in DOMAIN drafts
                 PROVE  /\ drafts'[d] \in Draft
                        /\ drafts'[d].run = drafts[d].run /\ drafts'[d].entry = drafts[d].entry
                        /\ drafts'[d].status = IF Old(d) THEN "expired" ELSE drafts[d].status
        OBVIOUS
    <2>1. drafts'[d] = IF Old(d) THEN [drafts[d] EXCEPT !.status = "expired"] ELSE drafts[d]
        BY DEF Expire
    <2>2. drafts[d] \in Draft
        BY RowTyped
    <2> QED
        BY <2>1, <2>2 DEF Draft, Status
<1>4. drafts' \in Seq(Draft) /\ Len(drafts') = Len(drafts)
    <2>1. DOMAIN drafts' = 1..Len(drafts) /\ drafts' = [d \in 1..Len(drafts) |-> drafts'[d]]
        BY <1>2 DEF Expire
    <2>2. drafts' \in [1..Len(drafts) -> Draft]
        BY <1>2, <1>3, <2>1
    <2> QED
        BY <1>2, <2>2
<1>5. SameRows
    BY <1>3, <1>4 DEF SameRows
<1>6. DOMAIN drafts' = DOMAIN drafts /\ RunsInProgress' /\ DraftsOfRuns'
    BY <1>1, <1>5, SameRowsRuns
<1>7. TypeOK'
    BY <1>1, <1>4, <1>6 DEF TypeOK, daemon
<1>8. CommandsInProgress'
    <2>1. \A k \in Clients : \A i \in DOMAIN todo[k] : todo[k][i] \in DOMAIN drafts
        BY DEF TypeOK
    <2>2. \A k \in Clients : pc[k] # "idle" => Current(k) \in DOMAIN drafts
        BY AtWork
    <2> QED
        BY <1>1, <1>3, <2>1, <2>2 DEF CommandsInProgress, Current
<1>9. RowsTell'
    <2> SUFFICES ASSUME NEW d \in DOMAIN drafts PROVE Explained(d)' /\ Undecided(d)'
        BY <1>6 DEF RowsTell
    <2>1. Explained(d) /\ Undecided(d)
        BY DEF RowsTell
    <2>2. Explained(d)'
        BY <1>1, <1>3, <2>1 DEF Explained, ToldOf, LoggedAs, Current
    <2>3. Undecided(d)'
        BY <1>1, <1>3, <2>1 DEF Undecided, LoggedAs, Current, Old
    <2> QED
        BY <2>2, <2>3
<1> QED
    BY <1>6, <1>7, <1>8, <1>9

LEMMA UpdateEntryStep ==
    ASSUME DraftsIInv, NEW c \in Clients, UpdateEntry(c)
    PROVE  DraftsIInv'
<1> USE DEF DraftsIInv
<1> DEFINE n == Current(c)
<1>1. /\ UNCHANGED daemon /\ UNCHANGED <<feedback, todo, read, action, auto>>
      /\ UNCHANGED <<unlogged, halfEdited, clock, commands, failures>>
    BY DEF UpdateEntry, others
<1>2. /\ pc[c] = "edit" /\ pc' = [pc EXCEPT ![c] = "decide"]
      /\ drafts' = [drafts EXCEPT ![n].entry = [Seen(c) EXCEPT !.by = c]]
    BY DEF UpdateEntry, Goto
<1>3. /\ DOMAIN drafts = 1..Len(drafts) /\ Len(drafts) \in Nat /\ n \in DOMAIN drafts
      /\ Seen(c) \in Entry /\ Seen(c).sure = drafts[n].entry.sure
    BY <1>2, RowsFinite, AtWork
<1>4. /\ pc' \in [Clients -> {"idle", "next", "edit", "decide", "log"}] /\ pc'[c] = "decide"
      /\ \A k \in Clients \ {c} : pc'[k] = pc[k]
      /\ \A k \in Clients : Current(k)' = Current(k)
    BY <1>1, <1>2 DEF TypeOK, Current
<1>5. /\ drafts'[n] \in Draft /\ drafts'[n].run = drafts[n].run
      /\ drafts'[n].status = drafts[n].status
      /\ drafts'[n].entry.sure = drafts[n].entry.sure /\ drafts'[n].entry.by # Model
    <2> DEFINE e == [Seen(c) EXCEPT !.by = c]
    <2>1. e \in Entry /\ e.sure = drafts[n].entry.sure /\ e.by = c
        BY <1>3 DEF Entry
    <2>2. drafts[n] \in Draft
        BY <1>3, RowTyped
    <2> HIDE DEF e
    <2>3. drafts'[n] = [drafts[n] EXCEPT !.entry = e]
        BY <1>2, <1>3 DEF e
    <2>4. /\ drafts'[n] \in Draft /\ drafts'[n].run = drafts[n].run
          /\ drafts'[n].status = drafts[n].status /\ drafts'[n].entry = e
        BY <2>1, <2>2, <2>3 DEF Draft
    <2> QED
        BY <2>1, <2>4, EntriesAssumption
<1>6. \A d \in DOMAIN drafts : d # n => drafts'[d] = drafts[d]
    BY <1>2, <1>3
<1>7. drafts' \in Seq(Draft) /\ Len(drafts') = Len(drafts)
    BY <1>2, <1>3, <1>5, ExceptSeq DEF TypeOK
<1>8. SameRows
    BY <1>5, <1>6, <1>7 DEF SameRows
<1>9. DOMAIN drafts' = DOMAIN drafts /\ RunsInProgress' /\ DraftsOfRuns'
    BY <1>1, <1>8, SameRowsRuns
<1>10. TypeOK'
    BY <1>1, <1>4, <1>7, <1>9 DEF TypeOK, daemon
<1>11. CommandsInProgress'
    <2> SUFFICES ASSUME NEW k \in Clients
                 PROVE  /\ pc'[k] # "idle" => todo[k] # <<>>
                        /\ \A i \in DOMAIN todo[k] :
                               read[k][i].sure = drafts'[todo[k][i]].entry.sure
                        /\ pc'[k] = "edit" => action[k] = "edited"
                        /\ pc'[k] \in {"decide", "log"} /\ action[k] = "edited" =>
                               drafts'[Current(k)].entry.by # Model
        BY <1>1, <1>4 DEF CommandsInProgress
    <2>1. \A i \in DOMAIN todo[k] : todo[k][i] \in DOMAIN drafts
        BY DEF TypeOK
    <2>2. \A i \in DOMAIN todo[k] : read[k][i].sure = drafts'[todo[k][i]].entry.sure
        BY <1>8, <2>1 DEF SameRows, CommandsInProgress
    <2>3. pc'[k] # "idle" => todo[k] # <<>> /\ Current(k) \in DOMAIN drafts
        BY <1>2, <1>4, AtWork
    <2>4. ASSUME pc'[k] \in {"decide", "log"}, action[k] = "edited"
          PROVE  drafts'[Current(k)].entry.by # Model
        <3>1. CASE Current(k) = n
            BY <1>5, <3>1
        <3>2. CASE Current(k) # n
            BY <1>4, <1>6, <2>3, <2>4, <3>2 DEF CommandsInProgress
        <3> QED
            BY <3>1, <3>2
    <2> QED
        BY <1>4, <2>2, <2>3, <2>4 DEF CommandsInProgress
<1>12. RowsTell'
    <2> SUFFICES ASSUME NEW d \in DOMAIN drafts PROVE Explained(d)' /\ Undecided(d)'
        BY <1>9 DEF RowsTell
    <2>1. Explained(d) /\ Undecided(d) /\ drafts'[d].status = drafts[d].status
        BY <1>5, <1>6 DEF RowsTell
    <2>2. Explained(d)'
        <3>1. \A actions : ToldOf(d, actions) => ToldOf(d, actions)'
            BY <1>1, <1>2, <1>4 DEF ToldOf, LoggedAs
        <3>2. drafts[d].entry.by # Model => drafts'[d].entry.by # Model
            BY <1>5, <1>6
        <3> QED
            BY <1>1, <2>1, <3>1, <3>2 DEF Explained, LoggedAs
    <2>3. Undecided(d)'
        <3>1. d = n => \E k \in Clients : /\ pc'[k] = "decide" /\ Current(k) = d
                                         /\ action[k] = "edited"
            BY <1>2, <1>4 DEF CommandsInProgress
        <3>2. d # n => \A k \in Clients :
                  pc[k] = "decide" /\ Current(k) = d /\ action[k] = "edited" => pc'[k] = "decide"
            BY <1>4
        <3>3. \A k \in Clients : pc'[k] = "log" => pc[k] = "log"
            BY <1>4
        <3> QED
            BY <1>1, <1>4, <1>6, <2>1, <3>1, <3>2, <3>3 DEF Undecided, LoggedAs
    <2> QED
        BY <2>2, <2>3
<1> QED
    BY <1>9, <1>10, <1>11, <1>12

(* The decision is in the row before it is in the log; until then it is    *)
(* the command that tells it.                                              *)
LEMMA UpdateStatusStep ==
    ASSUME DraftsIInv, NEW c \in Clients, UpdateStatus(c)
    PROVE  DraftsIInv'
<1> USE DEF DraftsIInv
<1> DEFINE n == Current(c)
           status == IF action[c] = "rejected" THEN "rejected" ELSE "approved"
<1>1. /\ UNCHANGED daemon /\ UNCHANGED <<feedback, todo, read, action, auto>>
      /\ UNCHANGED <<unlogged, halfEdited, clock, commands, failures>>
    BY DEF UpdateStatus, others
<1>2. /\ pc[c] = "decide" /\ pc' = [pc EXCEPT ![c] = "log"]
      /\ drafts' = [drafts EXCEPT ![n].status = status]
    BY DEF UpdateStatus, Goto
<1>3. /\ DOMAIN drafts = 1..Len(drafts) /\ Len(drafts) \in Nat /\ n \in DOMAIN drafts
      /\ action[c] \in Actions
    BY <1>2, RowsFinite, AtWork DEF TypeOK
<1>4. /\ pc' \in [Clients -> {"idle", "next", "edit", "decide", "log"}] /\ pc'[c] = "log"
      /\ \A k \in Clients \ {c} : pc'[k] = pc[k]
      /\ \A k \in Clients : Current(k)' = Current(k)
    BY <1>1, <1>2 DEF TypeOK, Current
<1>5. /\ drafts'[n] \in Draft /\ drafts'[n].run = drafts[n].run
      /\ drafts'[n].status = status /\ drafts'[n].entry = drafts[n].entry
    <2>1. drafts[n] \in Draft
        BY <1>3, RowTyped
    <2>2. drafts'[n] = [drafts[n] EXCEPT !.status = status]
        BY <1>2, <1>3
    <2> QED
        BY <2>1, <2>2 DEF Draft, Status
<1>6. \A d \in DOMAIN drafts : d # n => drafts'[d] = drafts[d]
    BY <1>2, <1>3
<1>7. drafts' \in Seq(Draft) /\ Len(drafts') = Len(drafts)
    BY <1>2, <1>3, <1>5, ExceptSeq DEF TypeOK
<1>8. SameRows
    BY <1>5, <1>6, <1>7 DEF SameRows
<1>9. DOMAIN drafts' = DOMAIN drafts /\ RunsInProgress' /\ DraftsOfRuns'
    BY <1>1, <1>8, SameRowsRuns
<1>10. TypeOK'
    BY <1>1, <1>4, <1>7, <1>9 DEF TypeOK, daemon
<1>11. CommandsInProgress'
    <2> SUFFICES ASSUME NEW k \in Clients
                 PROVE  /\ pc'[k] # "idle" => todo[k] # <<>>
                        /\ \A i \in DOMAIN todo[k] :
                               read[k][i].sure = drafts'[todo[k][i]].entry.sure
                        /\ pc'[k] = "edit" => action[k] = "edited"
                        /\ pc'[k] \in {"decide", "log"} /\ action[k] = "edited" =>
                               drafts'[Current(k)].entry.by # Model
        BY <1>1, <1>4 DEF CommandsInProgress
    <2>1. \A i \in DOMAIN todo[k] : todo[k][i] \in DOMAIN drafts
        BY DEF TypeOK
    <2>2. pc'[k] # "idle" => todo[k] # <<>> /\ Current(k) \in DOMAIN drafts
        BY <1>2, <1>4, AtWork
    <2>3. \A d \in DOMAIN drafts : drafts'[d].entry = drafts[d].entry
        BY <1>5, <1>6
    <2>4. pc'[k] \in {"decide", "log"} => pc[k] \in {"decide", "log"}
        BY <1>2, <1>4
    <2> QED
        BY <1>4, <2>1, <2>2, <2>3, <2>4 DEF CommandsInProgress
<1>12. RowsTell'
    <2> SUFFICES ASSUME NEW d \in DOMAIN drafts PROVE Explained(d)' /\ Undecided(d)'
        BY <1>9 DEF RowsTell
    <2>1. Explained(d) /\ Undecided(d) /\ drafts'[d].entry = drafts[d].entry
        BY <1>5, <1>6 DEF RowsTell
    <2>2. CASE d = n
        <3>1. /\ pc'[c] = "log" /\ Current(c)' = d /\ action'[c] = action[c]
              /\ drafts'[d].status = status
            BY <1>1, <1>4, <1>5, <2>2
        <3>2. Explained(d)'
            BY <1>1, <1>3, <2>1, <3>1 DEF Explained, ToldOf, LoggedAs, Actions
        <3>3. drafts'[d].status \notin {"pending", "expired"}
            BY <3>1
        <3> QED
            BY <3>2, <3>3 DEF Undecided
    <2>3. CASE d # n
        <3>1. drafts'[d] = drafts[d]
            BY <1>6, <2>3
        <3>2. \A k \in Clients : Current(k) = d => pc'[k] = pc[k]
            BY <1>4, <2>3
        <3>3. \A actions : ToldOf(d, actions) => ToldOf(d, actions)'
            BY <1>1, <1>4, <3>2 DEF ToldOf, LoggedAs
        <3>4. Explained(d)'
            BY <1>1, <2>1, <3>1, <3>3 DEF Explained, LoggedAs
        <3>5. Undecided(d)'
            BY <1>1, <1>4, <2>1, <3>1, <3>2 DEF Undecided, LoggedAs
        <3> QED
            BY <3>4, <3>5
    <2> QED
        BY <2>2, <2>3
<1> QED
    BY <1>9, <1>10, <1>11, <1>12
-----------------------------------------------------------------------------
(***************************************************************************)
(* The scheduler                                                           *)
(***************************************************************************)
(* Steps of the scheduler that make no draft.                              *)
LEMMA RunSteps ==
    ASSUME DraftsIInv, NEW r \in Executions,
           RunReturns(r) \/ RunAbandoned(r) \/ CreateRaises(r)
    PROVE  DraftsIInv'
<1> USE DEF DraftsIInv
<1>1. UNCHANGED <<drafts, feedback, command, clock, commands>> /\ failures' \in 0..MaxFailures
    BY FailEffect DEF RunReturns, RunAbandoned, CreateRaises, TypeOK
<1>2. /\ UNCHANGED <<pc, todo, read, action, auto, unlogged, halfEdited>>
      /\ \A k \in Clients : Current(k)' = Current(k)
    BY <1>1 DEF command, Current
<1>3. CommandsInProgress' /\ RowsTell'
    <2>1. CommandsInProgress'
        BY <1>1, <1>2 DEF CommandsInProgress
    <2>2. \A d : LoggedAs(d, "edited")' = LoggedAs(d, "edited")
        BY <1>1 DEF LoggedAs
    <2>3. \A d, actions : ToldOf(d, actions) => ToldOf(d, actions)'
        BY <1>1, <1>2 DEF ToldOf, LoggedAs
    <2>4. \A d \in DOMAIN drafts : Explained(d)'
        BY <1>1, <2>2, <2>3 DEF RowsTell, Explained
    <2>5. ASSUME NEW d \in DOMAIN drafts PROVE Undecided(d)'
        <3>1. Undecided(d)
            BY DEF RowsTell
        <3>2. \A a \in Actions : LoggedAs(d, a)' = LoggedAs(d, a)
            BY <1>1 DEF LoggedAs
        <3> QED
            BY <1>1, <1>2, <3>1, <3>2 DEF Undecided
    <2> QED
        BY <1>1, <2>1, <2>4, <2>5 DEF RowsTell
<1>4. \A q \in Executions : Made(q)' = Made(q)
    BY <1>1 DEF Made
<1>5. /\ run' \in [Executions -> {"executing", "creating", "ended"}]
      /\ suggested' \in [Executions -> Suggestions \cup {<<>>}] /\ cut' \subseteq Executions
      /\ \A q \in Executions \ {r} :
            run'[q] = run[q] /\ suggested'[q] = suggested[q] /\ (q \in cut' <=> q \in cut)
    <2>1. /\ run \in [Executions -> {"executing", "creating", "ended"}]
          /\ suggested \in [Executions -> Suggestions \cup {<<>>}] /\ cut \subseteq Executions
        BY DEF TypeOK
    <2> HIDE DEF DraftsIInv
    <2>2. CASE RunReturns(r)
        BY <2>1, <2>2 DEF RunReturns
    <2>3. CASE RunAbandoned(r)
        BY <2>1, <2>3 DEF RunAbandoned
    <2>4. CASE CreateRaises(r)
        BY <2>1, <2>4 DEF CreateRaises
    <2> QED
        BY <2>2, <2>3, <2>4
<1>6. TypeOK'
    BY <1>1, <1>2, <1>5 DEF TypeOK
<1>7. /\ run[r] = "executing" => Made(r) = {} /\ Cardinality(Made(r)) = 0
      /\ run[r] = "creating" => suggested'[r] = suggested[r]
      /\ suggested'[r] \in Seq(BOOLEAN)
    <2>1. run[r] = "executing" => Made(r) = {} /\ Cardinality(Made(r)) = 0
        BY FS_EmptySet DEF RunsInProgress
    <2>2. <<>> \in Seq(BOOLEAN)
        OBVIOUS
    <2> QED
        BY <1>5, <2>1, <2>2, EntriesAssumption DEF RunReturns, RunAbandoned, CreateRaises
<1>8. run'[r] # "executing" /\ (run'[r] = "creating" => Cardinality(Made(r)) < Len(suggested'[r]))
    <2>1. CASE RunReturns(r)
        <3>1. run'[r] = IF suggested'[r] = <<>> THEN "ended" ELSE "creating"
            BY <2>1 DEF RunReturns, TypeOK
        <3>2. suggested'[r] # <<>> => 0 < Len(suggested'[r])
            BY <1>7
        <3> QED
            BY <1>7, <2>1, <3>1, <3>2 DEF RunReturns
    <2>2. CASE RunAbandoned(r) \/ CreateRaises(r)
        BY <2>2 DEF RunAbandoned, CreateRaises, TypeOK
    <2> QED
        BY <2>1, <2>2
<1>9. /\ Cardinality(Made(r)) <= Len(suggested'[r])
      /\ \A d \in Made(r) : drafts[d].entry.sure =
            suggested'[r][Cardinality({e \in Made(r) : e <= d})]
      /\ run'[r] = "ended" /\ r \notin cut' => Cardinality(Made(r)) = Len(suggested'[r])
    <2>1. CASE RunReturns(r)
        <3>1. run[r] = "executing" /\ Len(suggested'[r]) \in Nat
            BY <1>7, <2>1 DEF RunReturns
        <3>2. run'[r] = "ended" => suggested'[r] = <<>>
            BY <2>1 DEF RunReturns, TypeOK
        <3>3. Len(<<>>) = 0
            OBVIOUS
        <3> QED
            BY <1>7, <3>1, <3>2, <3>3
    <2>2. CASE RunAbandoned(r)
        <3>1. run[r] = "executing" /\ r \in cut' /\ Len(suggested'[r]) \in Nat
            BY <1>7, <2>2 DEF RunAbandoned
        <3> QED
            BY <1>7, <3>1
    <2>3. CASE CreateRaises(r)
        <3>1. r \in cut' /\ suggested'[r] = suggested[r]
            BY <2>3 DEF CreateRaises
        <3> QED
            BY <3>1 DEF DraftsOfRuns
    <2> QED
        BY <2>1, <2>2, <2>3
<1>10. RunsInProgress'
    BY <1>4, <1>5, <1>8 DEF RunsInProgress
<1>11. DraftsOfRuns'
    <2> SUFFICES ASSUME NEW q \in Executions
                 PROVE  /\ Cardinality(Made(q)') <= Len(suggested'[q])
                        /\ \A d \in Made(q)' : drafts'[d].entry.sure =
                              suggested'[q][Cardinality({e \in Made(q)' : e <= d})]
                        /\ run'[q] = "ended" /\ q \notin cut' =>
                              Cardinality(Made(q)') = Len(suggested'[q])
        BY DEF DraftsOfRuns
    <2>1. /\ Cardinality(Made(q)) <= Len(suggested'[q])
          /\ \A d \in Made(q) : drafts[d].entry.sure =
                suggested'[q][Cardinality({e \in Made(q) : e <= d})]
          /\ run'[q] = "ended" /\ q \notin cut' => Cardinality(Made(q)) = Len(suggested'[q])
        <3>1. CASE q = r
            BY <1>9, <3>1
        <3>2. CASE q # r
            BY <1>5, <3>2 DEF DraftsOfRuns
        <3> QED
            BY <3>1, <3>2
    <2>2. Made(q)' = Made(q) /\ drafts' = drafts
        BY <1>1, <1>4
    <2> QED
        BY <2>1, <2>2
<1> QED
    BY <1>3, <1>6, <1>10, <1>11

(* A new row is its run's next suggestion: it ranks last among the run's   *)
(* rows, and leaves the ranks of the others.                               *)
LEMMA CreateDraftStep ==
    ASSUME DraftsIInv, NEW r \in Executions, CreateDraft(r)
    PROVE  DraftsIInv'
<1> USE DEF DraftsIInv
<1> DEFINE n == Len(drafts) + 1
           row == [run |-> r, status |-> "pending", created |-> clock,
                   entry |-> [sure |-> NextSuggestion(r), by |-> Model]]
<1>1. /\ run[r] = "creating" /\ drafts' = Append(drafts, row)
      /\ run' = [run EXCEPT ![r] =
             IF Cardinality(Made(r)) + 1 = Len(suggested[r]) THEN "ended" ELSE "creating"]
      /\ UNCHANGED <<suggested, cut, feedback, pc, todo, read, action, auto>>
      /\ UNCHANGED <<unlogged, halfEdited, clock, commands, failures>>
    BY DEF CreateDraft, command
<1>2. DOMAIN drafts = 1..Len(drafts) /\ Len(drafts) \in Nat /\ n \notin DOMAIN drafts
    BY RowsFinite
<1>3. /\ suggested[r] \in Seq(BOOLEAN) /\ Cardinality(Made(r)) \in Nat
      /\ Cardinality(Made(r)) + 1 \in 1..Len(suggested[r])
    <2>1. <<>> \in Seq(BOOLEAN)
        OBVIOUS
    <2>2. suggested[r] \in Seq(BOOLEAN)
        BY <2>1, EntriesAssumption DEF TypeOK
    <2>3. Cardinality(Made(r)) \in Nat
        BY RowsFinite DEF Made
    <2> QED
        BY <1>1, <2>2, <2>3 DEF RunsInProgress
<1>4. row \in Draft
    <2>1. NextSuggestion(r) \in BOOLEAN
        BY <1>3 DEF NextSuggestion
    <2>2. clock \in 0..MaxTime
        BY DEF TypeOK
    <2> QED
        BY <2>1, <2>2 DEF Draft, Entry, Status
<1>5. /\ row.run = r /\ row.status = "pending"
      /\ row.entry.sure = NextSuggestion(r) /\ row.entry.by = Model
    OBVIOUS
<1> HIDE DEF row
<1>6. /\ drafts' \in Seq(Draft) /\ Len(drafts') = n /\ DOMAIN drafts' = DOMAIN drafts \cup {n}
      /\ drafts'[n] = row /\ \A d \in DOMAIN drafts : drafts'[d] = drafts[d]
    <2>1. /\ drafts' \in Seq(Draft) /\ Len(drafts') = n
          /\ drafts'[n] = row /\ \A d \in 1..Len(drafts) : drafts'[d] = drafts[d]
        BY <1>1, <1>4, AppendProperties DEF TypeOK
    <2> QED
        BY <1>2, <2>1
<1>7. /\ \A q \in Executions \ {r} : Made(q)' = Made(q)
      /\ Made(r)' = Made(r) \cup {n}
    BY <1>5, <1>6 DEF Made
<1>8. \A q \in Executions : Made(q) \in SUBSET DOMAIN drafts /\ IsFiniteSet(Made(q))
    BY RowsFinite DEF Made
<1>9. Cardinality(Made(r)') = Cardinality(Made(r)) + 1
    <2>1. n \notin Made(r) /\ IsFiniteSet(Made(r))
        BY <1>2, <1>8
    <2>2. Cardinality(Made(r) \cup {n}) = Cardinality(Made(r)) + 1
        BY <2>1, FS_AddElement
    <2> QED
        BY <1>7, <2>2
<1>10. TypeOK'
    <2>1. DOMAIN drafts \subseteq DOMAIN drafts'
        BY <1>6
    <2>2. todo' \in [Clients -> Seq(DOMAIN drafts')]
        <3>1. \A c \in Clients : todo[c] \in Seq(DOMAIN drafts')
            BY <2>1, SeqMonotonic DEF TypeOK
        <3> QED
            BY <1>1, <3>1 DEF TypeOK
    <2>3. run' \in [Executions -> {"executing", "creating", "ended"}]
        BY <1>1 DEF TypeOK
    <2> QED
        BY <1>1, <1>6, <2>1, <2>2, <2>3 DEF TypeOK
<1>11. RunsInProgress'
    <2> SUFFICES ASSUME NEW q \in Executions
                 PROVE  /\ run'[q] = "executing" => Made(q)' = {} /\ suggested[q] = <<>>
                        /\ run'[q] = "creating" => Cardinality(Made(q)') < Len(suggested[q])
        BY <1>1 DEF RunsInProgress
    <2>1. CASE q = r
        <3>1. run'[r] = IF Cardinality(Made(r)) + 1 = Len(suggested[r]) THEN "ended" ELSE "creating"
            BY <1>1 DEF TypeOK
        <3> QED
            BY <1>3, <1>9, <2>1, <3>1
    <2>2. CASE q # r
        BY <1>1, <1>7, <2>2 DEF RunsInProgress, TypeOK
    <2> QED
        BY <2>1, <2>2
<1>12. DraftsOfRuns'
    <2> SUFFICES ASSUME NEW q \in Executions
                 PROVE  /\ Cardinality(Made(q)') <= Len(suggested[q])
                        /\ \A d \in Made(q)' : drafts'[d].entry.sure =
                              suggested[q][Cardinality({e \in Made(q)' : e <= d})]
                        /\ run'[q] = "ended" /\ q \notin cut =>
                              Cardinality(Made(q)') = Len(suggested[q])
        BY <1>1 DEF DraftsOfRuns
    <2>1. /\ Cardinality(Made(q)) <= Len(suggested[q])
          /\ \A d \in Made(q) : drafts[d].entry.sure =
                suggested[q][Cardinality({e \in Made(q) : e <= d})]
          /\ run[q] = "ended" /\ q \notin cut => Cardinality(Made(q)) = Len(suggested[q])
        BY DEF DraftsOfRuns
    <2>2. CASE q = r
        <3>1. run'[r] = IF Cardinality(Made(r)) + 1 = Len(suggested[r]) THEN "ended" ELSE "creating"
            BY <1>1 DEF TypeOK
        <3>2. ASSUME NEW d \in Made(r)
              PROVE  drafts'[d].entry.sure = suggested[r][Cardinality({e \in Made(r)' : e <= d})]
            <4>1. d \in DOMAIN drafts /\ drafts'[d] = drafts[d]
                BY <1>6, <1>8
            <4>2. {e \in Made(r)' : e <= d} = {e \in Made(r) : e <= d}
                BY <1>2, <1>7, <4>1
            <4> QED
                BY <2>1, <2>2, <4>1, <4>2
        <3>3. drafts'[n].entry.sure = suggested[r][Cardinality({e \in Made(r)' : e <= n})]
            <4>1. {e \in Made(r)' : e <= n} = Made(r)'
                BY <1>2, <1>7, <1>8
            <4> QED
                BY <1>5, <1>6, <1>9, <4>1 DEF NextSuggestion
        <3>4. \A d \in Made(r)' : drafts'[d].entry.sure =
                  suggested[r][Cardinality({e \in Made(r)' : e <= d})]
            BY <1>7, <3>2, <3>3
        <3>5. /\ Cardinality(Made(r)') <= Len(suggested[r])
              /\ run'[r] = "ended" => Cardinality(Made(r)') = Len(suggested[r])
            BY <1>3, <1>9, <3>1
        <3> QED
            BY <2>2, <3>4, <3>5
    <2>3. CASE q # r
        <3>1. Made(q)' = Made(q) /\ run'[q] = run[q]
            BY <1>1, <1>7, <2>3 DEF TypeOK
        <3>2. \A d \in Made(q) : drafts'[d] = drafts[d]
            BY <1>6, <1>8
        <3> QED
            BY <2>1, <3>1, <3>2
    <2> QED
        BY <2>2, <2>3
<1>13. CommandsInProgress'
    <2>1. \A c \in Clients : \A k \in DOMAIN todo[c] : todo[c][k] \in DOMAIN drafts
        BY DEF TypeOK
    <2>2. \A c \in Clients : pc[c] # "idle" => Current(c) \in DOMAIN drafts
        BY AtWork
    <2> QED
        BY <1>1, <1>6, <2>1, <2>2 DEF CommandsInProgress, Current
<1>14. RowsTell'
    <2> SUFFICES ASSUME NEW d \in DOMAIN drafts' PROVE Explained(d)' /\ Undecided(d)'
        BY DEF RowsTell
    <2>1. \A c \in Clients : Current(c)' = Current(c)
        BY <1>1 DEF Current
    <2>2. CASE d \in DOMAIN drafts
        <3>1. drafts'[d] = drafts[d] /\ Explained(d) /\ Undecided(d)
            BY <1>6, <2>2 DEF RowsTell
        <3>2. Explained(d)'
            BY <1>1, <2>1, <3>1 DEF Explained, ToldOf, LoggedAs
        <3>3. Undecided(d)'
            BY <1>1, <2>1, <3>1 DEF Undecided, LoggedAs
        <3> QED
            BY <3>2, <3>3
    <2>3. CASE d = n
        <3>1. drafts'[d].status = "pending" /\ drafts'[d].entry.by = Model
            BY <1>5, <1>6, <2>3
        <3>2. \A a : [draft |-> d, action |-> a] \notin feedback
            BY <1>2, <2>3 DEF TypeOK
        <3>3. d \notin unlogged
            BY <1>2, <2>3 DEF TypeOK
        <3>4. \A c \in Clients : ~ (pc[c] = "log" /\ Current(c) = d)
            BY <1>2, <2>3, AtWork
        <3>5. Explained(d)'
            BY <1>1, <3>1, <3>2 DEF Explained, LoggedAs
        <3>6. Undecided(d)'
            BY <1>1, <2>1, <3>1, <3>2, <3>3, <3>4 DEF Undecided, LoggedAs
        <3> QED
            BY <3>5, <3>6
    <2> QED
        BY <1>6, <2>2, <2>3
<1> QED
    BY <1>10, <1>11, <1>12, <1>13, <1>14

(* Time goes by, or nothing happens.                                       *)
LEMMA TickStep ==
    ASSUME DraftsIInv, Tick \/ UNCHANGED vars
    PROVE  DraftsIInv'
<1>1. /\ UNCHANGED <<drafts, feedback, daemon, command, commands, failures>>
      /\ clock' \in 0..MaxTime
    BY BoundsAssumption DEF Tick, vars, DraftsIInv, TypeOK
<1>2. SameRows
    BY <1>1 DEF SameRows, DraftsIInv, TypeOK
<1>3. RunsInProgress' /\ DraftsOfRuns'
    BY <1>1, <1>2, SameRowsRuns
<1>4. TypeOK'
    BY <1>1 DEF DraftsIInv, TypeOK, daemon, command
<1>5. CommandsInProgress'
    BY <1>1 DEF DraftsIInv, CommandsInProgress, command, Current
<1>6. RowsTell'
    <2>1. UNCHANGED <<drafts, feedback, pc, todo, action, unlogged, halfEdited>>
        BY <1>1 DEF command
    <2>2. \A d \in DOMAIN drafts : Explained(d)'
        BY <2>1 DEF DraftsIInv, RowsTell, Explained, ToldOf, LoggedAs, Current
    <2>3. \A d \in DOMAIN drafts : Undecided(d)'
        BY <2>1 DEF DraftsIInv, RowsTell, Undecided, LoggedAs, Current
    <2> QED
        BY <2>1, <2>2, <2>3 DEF RowsTell
<1> QED
    BY <1>3, <1>4, <1>5, <1>6 DEF DraftsIInv

LEMMA DraftsNextStep == DraftsIInv /\ [Next]_vars => DraftsIInv'
<1> SUFFICES ASSUME DraftsIInv, [Next]_vars PROVE DraftsIInv'
    OBVIOUS
<1>1. CASE Tick \/ UNCHANGED vars
    BY <1>1, TickStep
<1>2. CASE Expire
    BY <1>2, ExpireStep
<1>3. ASSUME NEW r \in Executions,
             RunReturns(r) \/ RunAbandoned(r) \/ CreateDraft(r) \/ CreateRaises(r)
      PROVE  DraftsIInv'
    BY <1>3, RunSteps, CreateDraftStep
<1>4. ASSUME NEW c \in Clients,
             \/ Review(c)
             \/ \E d \in DOMAIN drafts : DraftsApprove(c, d) \/ DraftsReject(c, d)
      PROVE  DraftsIInv'
    BY <1>4, BeginSteps
<1>5. ASSUME NEW c \in Clients, AutoApprove(c) \/ Answer(c)
      PROVE  DraftsIInv'
    BY <1>5, AnswerSteps
<1>6. ASSUME NEW c \in Clients, UpdateEntry(c) \/ UpdateStatus(c)
      PROVE  DraftsIInv'
    BY <1>6, UpdateEntryStep, UpdateStatusStep
<1>7. ASSUME NEW c \in Clients, RecordFeedback(c) \/ CommandDies(c)
      PROVE  DraftsIInv'
    BY <1>7, RecordFeedbackStep, CommandDiesStep
<1> QED
    BY <1>1, <1>2, <1>3, <1>4, <1>5, <1>6, <1>7 DEF Next
-----------------------------------------------------------------------------
(* The strengthened invariant holds in every reachable state.              *)
THEOREM DraftsInvariance == Spec => []DraftsIInv
<1>1. Init => DraftsIInv
    BY DraftsInit
<1>2. DraftsIInv /\ [Next]_vars => DraftsIInv'
    BY DraftsNextStep
<1> QED
    BY <1>1, <1>2, PTL DEF Spec

(* Every variable keeps its type: what a command has before it are drafts  *)
(* that exist, each with an entry it has read, and the log speaks of no    *)
(* other draft.                                                            *)
THEOREM DraftsTypeCorrect == Spec => []TypeOK
<1>1. DraftsIInv => TypeOK
    BY DEF DraftsIInv
<1> QED
    BY <1>1, DraftsInvariance, PTL

(* From its run to its end a draft's row tells what was suggested and what *)
(* was decided, for any number of executions, of commands at once and of   *)
(* calls that raise in between.                                            *)
THEOREM DraftsAlwaysTell == Spec => []DraftsTell
<1>1. DraftsIInv => DraftsTell
    BY RowsAndLog DEF DraftsIInv, DraftsTell
<1> QED
    BY <1>1, DraftsInvariance, PTL
-----------------------------------------------------------------------------
(***************************************************************************)
(* Learning                                                                *)
(***************************************************************************)
(* A rejection is recorded without an entry.                               *)
RejectionsBlank == \A a \in approvals : a.decision = "reject" => a.entry = Nothing

(* A run records no decision before its review, and none beyond what it    *)
(* has shown.                                                              *)
ItemsBounded ==
    /\ IsFiniteSet(approvals)
    /\ \A r \in Runs :
        /\ stage[r] = "waiting" => Loaded(r) = {}
        /\ Cardinality(Loaded(r)) + Len(shown[r]) <= MaxItems

(* The evidence of a rule is there from when it is learned.                *)
LearnersBorneOut ==
    \A l \in Learners :
        /\ \A rule \in rules[l] : BorneOut(rule)
        /\ found[l] # Idle => BorneOut(found[l].rule)

(* The row a learner has found stays one of its rule's kind.               *)
FoundRows ==
    \A l \in Learners :
        found[l] # Idle /\ found[l].row # NoRow => SameRow(patterns[found[l].row], found[l].rule)

(* Until two learn at once, one is at work, and when it found no row there *)
(* is none.                                                                *)
LearnersApart ==
    together \/ /\ \A k, l \in Learners : Working(k) /\ Working(l) => k = l
                /\ \A l \in Learners : found[l] # Idle /\ found[l].row = NoRow =>
                       \A i \in DOMAIN patterns : ~ SameRow(patterns[i], found[l].rule)

LearningIInv ==
    /\ LearningTypeOK /\ RejectionsBlank /\ ItemsBounded
    /\ RulesBorneOut /\ LearnersBorneOut
    /\ FoundRows /\ LearnersApart /\ OneRowPerRule
-----------------------------------------------------------------------------
LEMMA LearningInitIInv == LearningInit => LearningIInv
<1> SUFFICES ASSUME LearningInit PROVE LearningIInv
    OBVIOUS
<1> USE DEF LearningInit
<1>1. LearningTypeOK
    <2>1. <<>> \in Seq(AnyEntry) /\ <<>> \in Seq(AnyRule)
        OBVIOUS
    <2> QED
        BY <2>1 DEF LearningTypeOK
<1>2. ItemsBounded
    <2>1. IsFiniteSet(approvals) /\ \A r \in Runs : Loaded(r) = {}
        BY FS_EmptySet DEF Loaded
    <2>2. \A r \in Runs : Cardinality(Loaded(r)) = 0 /\ Len(shown[r]) = 0
        BY <2>1, FS_EmptySet
    <2> QED
        BY <2>1, <2>2, SuggestionsAssumption DEF ItemsBounded
<1>3. RejectionsBlank /\ RulesBorneOut /\ LearnersBorneOut /\ FoundRows /\ OneRowPerRule
    BY DEF RejectionsBlank, RulesBorneOut, LearnersBorneOut, FoundRows, OneRowPerRule
<1>4. LearnersApart
    BY DEF LearnersApart, Working
<1> QED
    BY <1>1, <1>2, <1>3, <1>4 DEF LearningIInv
-----------------------------------------------------------------------------
(* The longest common prefix of some texts is a text, and a prefix of each.*)
LEMMA CommonPrefix ==
    ASSUME NEW S \in SUBSET Text, S # {}
    PROVE  /\ LongestCommonPrefix(S) \in Text
           /\ \A t \in S : IsPrefix(LongestCommonPrefix(S), t)
<1> DEFINE CP == CommonPrefixes(S)
           lengths == {Len(p) : p \in CP}
<1>1. PICK s \in S : TRUE
    OBVIOUS
<1>2. <<>> \in CP
    <2>1. \A t \in Text : SubSeq(t, 1, 0) = <<>> /\ Len(t) \in Nat
        BY SubSeqEmpty DEF Text
    <2>2. <<>> \in Prefixes(s)
        BY <2>1 DEF Prefixes
    <2>3. \A t \in S : IsPrefix(<<>>, t)
        <3>1. SubSeq(<<>>, 1, 0) = <<>> /\ Len(<<>>) = 0
            BY SubSeqEmpty
        <3> QED
            BY <2>1, <3>1 DEF IsPrefix
    <2> QED
        BY <2>2, <2>3 DEF CommonPrefixes
<1>3. CP \subseteq Text
    <2>1. ASSUME NEW t \in Text, NEW l \in 0..Len(t)
          PROVE  SubSeq(t, 1, l) \in Text
        <3>1. \A i \in 1..l : t[i] \in Words
            BY <2>1 DEF Text
        <3> QED
            BY <2>1, <3>1, SubSeqProperties DEF Text
    <2>2. ASSUME NEW p \in CP
          PROVE  \E t \in S : \E l \in 0..Len(t) : p = SubSeq(t, 1, l)
        BY DEF CommonPrefixes, Prefixes
    <2>3. ASSUME NEW p \in CP PROVE p \in Text
        <3>1. PICK t \in S : \E l \in 0..Len(t) : p = SubSeq(t, 1, l)
            BY <2>2
        <3>2. t \in Text
            OBVIOUS
        <3> QED
            BY <2>1, <3>1, <3>2
    <2> QED
        BY <2>3
<1>4. \A p \in CP : IsPrefix(p, s)
    BY DEF CommonPrefixes
<1>5. \A p \in CP : Len(p) \in Nat /\ Len(p) <= Len(s)
    BY <1>3, <1>4 DEF IsPrefix, Text
<1>6. lengths \in SUBSET Nat /\ lengths # {} /\ Len(s) \in Nat /\ \A n \in lengths : n <= Len(s)
    <2>1. Len(s) \in Nat
        BY DEF Text
    <2> QED
        BY <1>2, <1>5, <2>1
<1> HIDE DEF lengths
<1>7. PICK n \in lengths : \A m \in lengths : m <= n
    BY <1>6, GreatestOf
<1>8. PICK p \in CP : Len(p) = n
    BY DEF lengths
<1>9. \A q \in CP : Len(q) <= Len(p)
    BY <1>7, <1>8 DEF lengths
<1> HIDE DEF CP
<1>10. LongestCommonPrefix(S) \in CP
    BY <1>8, <1>9 DEF LongestCommonPrefix, CP
<1> QED
    BY <1>3, <1>10 DEF CP, CommonPrefixes

(* Of several matters' rules, or rows, the one that is chosen is one.      *)
LEMMA AssignMatterType ==
    ASSUME LearningTypeOK, NEW s \in AnyEntry
    PROVE  AssignMatter(s) \in AnyEntry
<1> DEFINE hits == {i \in Rows("matter_assignment") : Contains(s.narrative, patterns[i].text[1])}
           Beats(i, j) ==
               \/ Confidence(patterns[i]) > Confidence(patterns[j])
               \/ Confidence(patterns[i]) = Confidence(patterns[j]) /\ i <= j
           best == CHOOSE i \in hits : \A j \in hits : Beats(i, j)
<1>1. hits \subseteq DOMAIN patterns /\ DOMAIN patterns \subseteq Nat
    BY DEF Rows, LearningTypeOK
<1>2. \A i \in DOMAIN patterns : patterns[i] \in AnyRule
    BY DEF LearningTypeOK
<1>3. \A i \in DOMAIN patterns : Confidence(patterns[i]) \in Nat /\ Confidence(patterns[i]) <= 95
    <2> SUFFICES ASSUME NEW rule \in AnyRule
                 PROVE  Confidence(rule) \in Nat /\ Confidence(rule) <= 95
        BY <1>2
    <2>1. rule.count \in Nat
        BY DEF AnyRule
    <2> QED
        BY <2>1 DEF Confidence
<1>4. ASSUME hits # {}
      PROVE  best \in hits
    <2> DEFINE C == {Confidence(patterns[i]) : i \in hits}
    <2>1. C \in SUBSET Nat /\ C # {} /\ \A x \in C : x <= 95
        BY <1>1, <1>3, <1>4
    <2> HIDE DEF C
    <2>2. PICK c \in C : \A x \in C : x <= c
        BY <2>1, GreatestOf
    <2> DEFINE I == {i \in hits : Confidence(patterns[i]) = c}
    <2>3. I \in SUBSET Nat /\ I # {}
        BY <1>1, <2>2 DEF C
    <2> HIDE DEF I
    <2>4. PICK i \in I : \A j \in I : i <= j
        BY <2>3, LeastOf
    <2>5. i \in hits /\ Confidence(patterns[i]) = c
        BY DEF I
    <2>6. ASSUME NEW j \in hits
          PROVE  Beats(i, j)
        <3>1. Confidence(patterns[j]) \in Nat /\ Confidence(patterns[j]) <= c
            BY <1>1, <1>3, <2>2 DEF C
        <3>2. c \in Nat
            BY <2>1, <2>2
        <3>3. CASE Confidence(patterns[j]) = c
            BY <2>4, <2>5, <3>3 DEF I
        <3>4. CASE Confidence(patterns[j]) # c
            BY <2>5, <3>1, <3>2, <3>4
        <3> QED
            BY <3>3, <3>4
    <2> HIDE DEF hits, Beats
    <2> QED
        BY <2>5, <2>6
<1>5. CASE s.matter # UNASSIGNED \/ hits = {}
    BY <1>5 DEF AssignMatter
<1>6. CASE ~ (s.matter # UNASSIGNED \/ hits = {})
    <2>1. AssignMatter(s) = [s EXCEPT !.matter = patterns[best].matter]
        BY <1>6 DEF AssignMatter
    <2>2. best \in DOMAIN patterns
        BY <1>1, <1>4, <1>6
    <2> HIDE DEF best
    <2>3. patterns[best].matter \in Matters \cup {UNASSIGNED}
        BY <1>2, <2>2 DEF AnyRule
    <2> QED
        BY <2>1, <2>3 DEF AnyEntry
<1> QED
    BY <1>5, <1>6

LEMMA PreferNarrativeType ==
    ASSUME LearningTypeOK, NEW s \in AnyEntry
    PROVE  PreferNarrative(s) \in AnyEntry
<1> DEFINE rows == {i \in Rows("narrative_preference") : patterns[i].matter = s.matter}
           oldest == CHOOSE i \in rows : \A j \in rows : i <= j
<1>1. rows \in SUBSET DOMAIN patterns /\ rows \in SUBSET Nat
    BY DEF Rows, LearningTypeOK
<1>2. CASE rows = {} \/ IsPrefix(patterns[oldest].text, s.narrative)
    BY <1>2 DEF PreferNarrative
<1>3. CASE ~ (rows = {} \/ IsPrefix(patterns[oldest].text, s.narrative))
    <2>1. PreferNarrative(s) = [s EXCEPT !.narrative = patterns[oldest].text \o s.narrative]
        BY <1>3 DEF PreferNarrative
    <2>2. oldest \in rows
        <3>1. \E i \in rows : \A j \in rows : i <= j
            BY <1>1, <1>3, LeastOf
        <3> HIDE DEF rows
        <3> QED
            BY <3>1
    <2>3. patterns[oldest] \in AnyRule
        BY <1>1, <2>2 DEF LearningTypeOK
    <2> HIDE DEF oldest
    <2>4. patterns[oldest].text \o s.narrative \in Text
        BY <2>3 DEF AnyRule, AnyEntry, Text
    <2> QED
        BY <2>1, <2>4 DEF AnyEntry
<1> QED
    BY <1>2, <1>3

LEMMA EntriesTyped == Entries \subseteq AnyEntry
BY SuggestionsAssumption, NarrativesAssumption DEF Entries, AnyEntry

LEMMA ApplyPatternsType ==
    ASSUME LearningTypeOK, NEW s \in Entries
    PROVE  ApplyPatterns(s) \in AnyEntry
BY EntriesTyped, AssignMatterType, PreferNarrativeType DEF ApplyPatterns
-----------------------------------------------------------------------------
(* A rule that is borne out stays so, whatever else is recorded.           *)
LEMMA EvidenceStays ==
    ASSUME IsFiniteSet(approvals'), approvals \subseteq approvals', NEW rule, BorneOut(rule)
    PROVE  BorneOut(rule)'
<1> DEFINE A(r) == {a \in approvals : /\ a.run = r /\ a.decision = "approve"
                                      /\ a.entry.matter = rule.matter}
           B(r) == {a \in approvals' : /\ a.run = r /\ a.decision = "approve"
                                       /\ a.entry.matter = rule.matter}
<1>1. PICK r \in Runs :
          /\ rule.count \in 1..Cardinality(A(r))
          /\ \/ /\ rule.type = "matter_assignment" /\ rule.matter # UNASSIGNED
                /\ \E x, y \in A(r) :
                     \E i \in DOMAIN x.entry.narrative, j \in DOMAIN y.entry.narrative :
                      /\ <<x, i>> # <<y, j>>
                      /\ x.entry.narrative[i] = rule.text[1] /\ y.entry.narrative[j] = rule.text[1]
             \/ /\ rule.type = "narrative_preference" /\ rule.text # <<>>
                /\ \E x, y \in A(r) : x # y /\ IsPrefix(rule.text, x.entry.narrative)
                                            /\ IsPrefix(rule.text, y.entry.narrative)
    BY DEF BorneOut, Approved
<1>2. A(r) \subseteq B(r) /\ IsFiniteSet(B(r))
    <2>1. B(r) \in SUBSET approvals'
        OBVIOUS
    <2> QED
        BY <2>1, FS_Subset
<1>3. /\ Cardinality(A(r)) \in Nat /\ Cardinality(B(r)) \in Nat
      /\ Cardinality(A(r)) <= Cardinality(B(r))
    BY <1>2, FS_Subset, FS_CardinalityType
<1>4. rule.count \in 1..Cardinality(B(r))
    BY <1>1, <1>3
<1>5. \/ /\ rule.type = "matter_assignment" /\ rule.matter # UNASSIGNED
         /\ \E x, y \in B(r) : \E i \in DOMAIN x.entry.narrative, j \in DOMAIN y.entry.narrative :
               /\ <<x, i>> # <<y, j>>
               /\ x.entry.narrative[i] = rule.text[1] /\ y.entry.narrative[j] = rule.text[1]
      \/ /\ rule.type = "narrative_preference" /\ rule.text # <<>>
         /\ \E x, y \in B(r) : x # y /\ IsPrefix(rule.text, x.entry.narrative)
                                     /\ IsPrefix(rule.text, y.entry.narrative)
    <2> HIDE DEF A, B
    <2> QED
        BY <1>1, <1>2
<1>6. Approved(r, rule.matter)' = B(r)
    BY DEF Approved
<1> HIDE DEF B
<1> QED
    BY <1>4, <1>5, <1>6 DEF BorneOut
-----------------------------------------------------------------------------
(***************************************************************************)
(* What a learner learns of the approvals of one run                       *)
(***************************************************************************)
(* The places of a word in some approvals are finitely many.               *)
Places(w, S) ==
    UNION {{<<a.item, i>> : i \in {j \in DOMAIN a.entry.narrative :
                                      a.entry.narrative[j] = w}} : a \in S}

LEMMA PlacesFinite ==
    ASSUME LearningTypeOK, IsFiniteSet(approvals), NEW S \in SUBSET approvals, NEW w
    PROVE  IsFiniteSet(Places(w, S))
<1> DEFINE P(a) == {<<a.item, i>> : i \in {j \in DOMAIN a.entry.narrative :
                                              a.entry.narrative[j] = w}}
           f == [a \in S |-> P(a)]
           T == {f[a] : a \in S}
<1>1. IsFiniteSet(S)
    BY FS_Subset
<1>2. ASSUME NEW a \in S
      PROVE  IsFiniteSet(P(a))
    <2> DEFINE D == {j \in DOMAIN a.entry.narrative : a.entry.narrative[j] = w}
               g == [i \in D |-> <<a.item, i>>]
    <2>1. a.entry.narrative \in Text
        BY DEF LearningTypeOK, AnyEntry
    <2>2. DOMAIN a.entry.narrative = 1..Len(a.entry.narrative) /\ Len(a.entry.narrative) \in Nat
        BY <2>1 DEF Text
    <2>3. IsFiniteSet(D)
        <3>1. D \in SUBSET (1..Len(a.entry.narrative))
            BY <2>2
        <3> HIDE DEF D
        <3>2. IsFiniteSet(1..Len(a.entry.narrative))
            BY <2>2, FS_Interval
        <3> QED
            BY <3>1, <3>2, FS_Subset
    <2>4. IsFiniteSet({g[i] : i \in D})
        <3> HIDE DEF D, g
        <3> QED
            BY <2>3, ImageFinite
    <2>5. P(a) = {g[i] : i \in D}
        OBVIOUS
    <2> QED
        BY <2>4, <2>5
<1>3. IsFiniteSet(T)
    <2> HIDE DEF f
    <2> QED
        BY <1>1, ImageFinite
<1>4. \A U \in T : IsFiniteSet(U)
    BY <1>2
<1>5. IsFiniteSet(UNION T)
    <2> HIDE DEF T
    <2> QED
        BY <1>3, <1>4, FS_UNION
<1>6. UNION T = Places(w, S)
    BY DEF Places
<1> QED
    BY <1>5, <1>6

LEMMA MatterRulesBorneOut ==
    ASSUME LearningTypeOK, IsFiniteSet(approvals), NEW r \in Runs,
           NEW approved, approved = {a \in Loaded(r) : a.decision = "approve"},
           NEW rule \in MatterRules(approved)
    PROVE  rule \in AnyRule /\ BorneOut(rule)
<1>1. PICK m \in Matters : \E w \in Keywords(Of(approved, m)) :
          rule = Rule("matter_assignment", m, <<w>>, 0, Of(approved, m))
    BY DEF MatterRules
<1> DEFINE S == Of(approved, m)
<1>2. PICK w \in Keywords(S) : rule = Rule("matter_assignment", m, <<w>>, 0, S)
    BY <1>1
<1>3. S = Approved(r, m) /\ S \in SUBSET approvals
    BY DEF Of, Loaded, Approved
<1>4. IsFiniteSet(S) /\ Cardinality(S) \in Nat
    BY <1>3, FS_Subset, FS_CardinalityType
<1> DEFINE P == Places(w, S)
<1>5. IsFiniteSet(P) /\ Cardinality(P) >= 2
    <2>1. IsFiniteSet(P)
        <3> HIDE DEF S
        <3> QED
            BY <1>3, PlacesFinite
    <2>2. Cardinality(P) >= Threshold(S) /\ Cardinality(P) \in Nat
        BY <2>1, FS_CardinalityType DEF Keywords, Count, Places
    <2>3. Threshold(S) \in Nat /\ Threshold(S) >= 2
        <3> HIDE DEF S
        <3> QED
            BY <1>4 DEF Threshold
    <2> HIDE DEF P, S
    <2> QED
        BY <2>1, <2>2, <2>3
<1>6. PICK p \in P, q \in P : p # q
    <2> HIDE DEF P
    <2> QED
        BY <1>5, TwoMembers
<1>7. \A u \in P : \E a \in S : \E i \in DOMAIN a.entry.narrative :
          a.entry.narrative[i] = w /\ u = <<a.item, i>>
    BY DEF Places
<1>8. PICK x \in S : \E i \in DOMAIN x.entry.narrative :
          x.entry.narrative[i] = w /\ p = <<x.item, i>>
    BY <1>6, <1>7
<1>9. PICK i \in DOMAIN x.entry.narrative : x.entry.narrative[i] = w /\ p = <<x.item, i>>
    BY <1>8
<1>10. PICK y \in S : \E j \in DOMAIN y.entry.narrative :
           y.entry.narrative[j] = w /\ q = <<y.item, j>>
    BY <1>6, <1>7
<1>11. PICK j \in DOMAIN y.entry.narrative : y.entry.narrative[j] = w /\ q = <<y.item, j>>
    BY <1>10
<1>12. <<x, i>> # <<y, j>>
    BY <1>6, <1>9, <1>11
<1> HIDE DEF S, P
<1>13. Cardinality(S) \in 1..Cardinality(S)
    <2>1. Cardinality(S) # 0
        BY <1>4, <1>8, FS_EmptySet
    <2> QED
        BY <1>4, <2>1
<1>14. /\ rule.type = "matter_assignment" /\ rule.matter = m /\ rule.text = <<w>>
       /\ rule.longest = 0 /\ rule.count = Cardinality(S)
    BY <1>2 DEF Rule
<1>15. rule \in AnyRule
    <2>1. w \in Words
        BY <1>2 DEF Keywords
    <2>2. <<w>> \in Text
        BY <2>1 DEF Text
    <2> QED
        BY <1>2, <1>4, <2>2, SuggestionsAssumption DEF AnyRule, Types, Rule
<1>16. BorneOut(rule)
    <2>1. rule.matter # UNASSIGNED
        BY <1>14, SuggestionsAssumption
    <2>2. rule.text[1] = w
        BY <1>14
    <2>3. Approved(r, rule.matter) = S
        BY <1>3, <1>14
    <2> QED
        BY <1>8, <1>9, <1>10, <1>11, <1>12, <1>13, <1>14, <2>1, <2>2, <2>3 DEF BorneOut
<1> QED
    BY <1>15, <1>16

LEMMA NarrativeRulesBorneOut ==
    ASSUME LearningTypeOK, IsFiniteSet(approvals), NEW r \in Runs,
           NEW approved, approved = {a \in Loaded(r) : a.decision = "approve"},
           NEW rule \in NarrativeRules(approved)
    PROVE  rule \in AnyRule /\ BorneOut(rule)
<1> DEFINE told(m) == {a \in Of(approved, m) : a.entry.narrative # <<>>}
<1>1. PICK m \in Matters \cup {UNASSIGNED} :
          /\ Cardinality(told(m)) >= 2 /\ Prefix(told(m)) # <<>>
          /\ rule = Rule("narrative_preference", m, Prefix(told(m)), 0, told(m))
    BY DEF NarrativeRules
<1> DEFINE S == told(m)
           said == {a.entry.narrative : a \in S}
<1>2. S \in SUBSET Approved(r, m) /\ S \in SUBSET approvals /\ Approved(r, m) \in SUBSET approvals
    BY DEF Of, Loaded, Approved
<1>3. /\ IsFiniteSet(S) /\ Cardinality(S) \in Nat /\ Cardinality(Approved(r, m)) \in Nat
      /\ Cardinality(S) <= Cardinality(Approved(r, m))
    BY <1>2, FS_Subset, FS_CardinalityType
<1>4. PICK x \in S, y \in S : x # y
    <2> HIDE DEF told
    <2> QED
        BY <1>1, <1>3, TwoMembers
<1>5. said \in SUBSET Text /\ said # {}
    <2>1. \A a \in approvals : a.entry.narrative \in Text
        BY DEF LearningTypeOK, AnyEntry
    <2> HIDE DEF told
    <2> QED
        BY <1>2, <1>4, <2>1
<1> HIDE DEF told
<1>6. Prefix(S) \in Text /\ \A a \in S : IsPrefix(Prefix(S), a.entry.narrative)
    <2>1. Prefix(S) = LongestCommonPrefix(said) /\ \A a \in S : a.entry.narrative \in said
        BY DEF Prefix
    <2> HIDE DEF said
    <2> QED
        BY <1>5, <2>1, CommonPrefix
<1>7. /\ rule.type = "narrative_preference" /\ rule.matter = m /\ rule.text = Prefix(S)
      /\ rule.longest = 0 /\ rule.count = Cardinality(S)
    BY <1>1 DEF Rule
<1>8. rule \in AnyRule
    BY <1>1, <1>3, <1>6 DEF AnyRule, Types, Rule
<1>9. Cardinality(S) \in 1..Cardinality(Approved(r, m))
    BY <1>1, <1>3
<1>10. BorneOut(rule)
    BY <1>1, <1>2, <1>4, <1>6, <1>7, <1>9 DEF BorneOut
<1> QED
    BY <1>8, <1>10

(* Rejections have no entry, and none of them lasted up to six minutes.    *)
LEMMA NoRejectionRules ==
    ASSUME LearningTypeOK, IsFiniteSet(approvals), RejectionsBlank, NEW r \in Runs,
           NEW rejected, rejected \subseteq {a \in Loaded(r) : a.decision # "approve"}
    PROVE  RejectionRules(rejected) = {}
<1> DEFINE Durs(m) == {a.entry.duration : a \in Of(rejected, m)}
           Longest(m) == CHOOSE d \in Durs(m) : \A e \in Durs(m) : d >= e
           several == {m \in Matters \cup {UNASSIGNED} : Cardinality(Of(rejected, m)) >= 2}
<1>1. ASSUME NEW m \in several
      PROVE  Longest(m) = 0
    <2>1. Of(rejected, m) \in SUBSET approvals
        BY DEF Of, Loaded
    <2>2. PICK x \in Of(rejected, m) : TRUE
        <3>1. IsFiniteSet(Of(rejected, m)) /\ Cardinality(Of(rejected, m)) >= 2
            BY <2>1, FS_Subset
        <3> QED
            BY <3>1, TwoMembers
    <2>3. \A a \in Of(rejected, m) : a.entry.duration = 0
        BY DEF Of, Loaded, LearningTypeOK, RejectionsBlank, Nothing
    <2>4. Durs(m) = {0}
        BY <2>2, <2>3
    <2> HIDE DEF Durs
    <2> QED
        BY <2>4
<1>2. {m \in several : Longest(m) \in 1..6} = {}
    <2> HIDE DEF several, Longest
    <2> QED
        BY <1>1
<1> QED
    BY <1>2 DEF RejectionRules

LEMMA LearnedBorneOut ==
    ASSUME LearningIInv, NEW r \in Runs, NEW rule \in Learned(Loaded(r))
    PROVE  rule \in AnyRule /\ BorneOut(rule)
<1> DEFINE approved == {a \in Loaded(r) : a.decision = "approve"}
<1>1. LearningTypeOK /\ IsFiniteSet(approvals) /\ RejectionsBlank
    BY DEF LearningIInv, ItemsBounded
<1>2. Loaded(r) \ approved \subseteq {a \in Loaded(r) : a.decision # "approve"}
    OBVIOUS
<1> HIDE DEF approved
<1>3. RejectionRules(Loaded(r) \ approved) = {}
    BY <1>1, <1>2, NoRejectionRules
<1>4. rule \in MatterRules(approved) \cup NarrativeRules(approved)
    BY <1>3 DEF Learned, Corrections, approved
<1> QED
    BY <1>1, <1>4, MatterRulesBorneOut, NarrativeRulesBorneOut DEF approved
-----------------------------------------------------------------------------
(***************************************************************************)
(* The steps                                                               *)
(***************************************************************************)
patternVars == <<patterns, learners, together>>

(* A run goes on: what is learned, and the learners, stay.                 *)
LEMMA RunStep ==
    ASSUME LearningIInv, UNCHANGED patternVars,
           stage' \in [Runs -> {"waiting", "reviewing", "over"}],
           shown' \in [Runs -> Seq(AnyEntry)],
           approvals \subseteq approvals',
           approvals' \subseteq [run : Runs, item : 1..MaxItems, decision : {"approve", "reject"},
                                 entry : AnyEntry],
           RejectionsBlank', ItemsBounded'
    PROVE  LearningIInv'
<1> USE DEF LearningIInv, patternVars, learners
<1>1. LearningTypeOK'
    BY DEF LearningTypeOK
<1>2. \A rule : BorneOut(rule) => BorneOut(rule)'
    BY EvidenceStays DEF ItemsBounded
<1>3. RulesBorneOut' /\ LearnersBorneOut'
    BY <1>2 DEF RulesBorneOut, LearnersBorneOut
<1>4. FoundRows' /\ OneRowPerRule'
    BY DEF FoundRows, OneRowPerRule
<1>5. LearnersApart'
    BY DEF LearnersApart, Working
<1> QED
    BY <1>1, <1>3, <1>4, <1>5

LEMMA SuggestStep ==
    ASSUME LearningIInv, NEW r \in Runs, Suggest(r)
    PROVE  LearningIInv'
<1>1. PICK n \in 1..MaxItems : \E suggestions \in [1..n -> Entries] :
          \/ shown' = [shown EXCEPT ![r] = [i \in 1..n |-> ApplyPatterns(suggestions[i])]]
          \/ shown' = [shown EXCEPT ![r] = suggestions]
    BY DEF Suggest
<1>2. PICK list \in [1..n -> AnyEntry] : shown' = [shown EXCEPT ![r] = list]
    <2>1. PICK suggestions \in [1..n -> Entries] :
              \/ shown' = [shown EXCEPT ![r] = [i \in 1..n |-> ApplyPatterns(suggestions[i])]]
              \/ shown' = [shown EXCEPT ![r] = suggestions]
        BY <1>1
    <2>2. [i \in 1..n |-> ApplyPatterns(suggestions[i])] \in [1..n -> AnyEntry]
        BY ApplyPatternsType DEF LearningIInv
    <2>3. suggestions \in [1..n -> AnyEntry]
        BY EntriesTyped
    <2> QED
        BY <2>1, <2>2, <2>3
<1>3. n \in Nat /\ n <= MaxItems
    BY SuggestionsAssumption
<1>4. list \in Seq(AnyEntry) /\ Len(list) = n
    BY <1>2, <1>3
<1>5. /\ shown' \in [Runs -> Seq(AnyEntry)] /\ shown'[r] = list
      /\ \A q \in Runs \ {r} : shown'[q] = shown[q]
    BY <1>2, <1>4 DEF LearningIInv, LearningTypeOK
<1>6. /\ stage[r] = "waiting" /\ UNCHANGED <<approvals, patternVars>>
      /\ stage' = [stage EXCEPT ![r] = "reviewing"]
    BY DEF Suggest, patternVars
<1>7. /\ stage' \in [Runs -> {"waiting", "reviewing", "over"}] /\ stage'[r] = "reviewing"
      /\ \A q \in Runs \ {r} : stage'[q] = stage[q]
    BY <1>6 DEF LearningIInv, LearningTypeOK
<1>8. ItemsBounded'
    <2>1. \A q \in Runs : Loaded(q)' = Loaded(q)
        BY <1>6 DEF Loaded
    <2>2. Cardinality(Loaded(r)) = 0
        BY <1>6, FS_EmptySet DEF LearningIInv, ItemsBounded
    <2>3. Cardinality(Loaded(r)) + Len(shown'[r]) <= MaxItems
        BY <1>3, <1>4, <1>5, <2>2
    <2> QED
        BY <1>5, <1>6, <1>7, <2>1, <2>3 DEF LearningIInv, ItemsBounded
<1>9. RejectionsBlank'
    BY <1>6 DEF LearningIInv, RejectionsBlank
<1>10. approvals \subseteq approvals' /\ approvals' = approvals
    BY <1>6
<1> QED
    BY <1>5, <1>6, <1>7, <1>8, <1>9, <1>10, RunStep DEF LearningIInv, LearningTypeOK

(* What a run has recorded and what it still shows add up to no more than  *)
(* it has shown.                                                           *)
LEMMA DecideStep ==
    ASSUME LearningIInv, NEW r \in Runs, Decide(r)
    PROVE  LearningIInv'
<1>1. /\ stage[r] = "reviewing" /\ shown[r] # <<>> /\ UNCHANGED <<stage, patternVars>>
      /\ shown' = [shown EXCEPT ![r] = Tail(@)]
    BY DEF Decide, patternVars
<1>2. PICK decision \in {"approve", "reject"} :
      \E entry \in {Head(shown[r])} \cup (IF decision = "approve" THEN Entries ELSE {}) :
          approvals' = approvals \cup
              {[run |-> r, decision |-> decision, entry |-> Payload(decision, entry),
                item |-> 1 + Cardinality({a \in approvals : a.run = r})]}
    BY DEF Decide
<1>3. PICK entry \in {Head(shown[r])} \cup (IF decision = "approve" THEN Entries ELSE {}) :
          approvals' = approvals \cup
              {[run |-> r, decision |-> decision, entry |-> Payload(decision, entry),
                item |-> 1 + Cardinality({a \in approvals : a.run = r})]}
    BY <1>2
<1> DEFINE new == [run |-> r, decision |-> decision, entry |-> Payload(decision, entry),
                   item |-> 1 + Cardinality(Loaded(r))]
<1>4. approvals' = approvals \cup {new}
    BY <1>3 DEF Loaded
<1>5. shown[r] \in Seq(AnyEntry) /\ Len(shown[r]) \in Nat \ {0}
    BY <1>1 DEF LearningIInv, LearningTypeOK
<1>6. /\ Head(shown[r]) \in AnyEntry /\ Tail(shown[r]) \in Seq(AnyEntry)
      /\ Len(Tail(shown[r])) = Len(shown[r]) - 1
    BY <1>1, <1>5
<1>7. /\ IsFiniteSet(Loaded(r)) /\ Cardinality(Loaded(r)) \in Nat /\ IsFiniteSet(approvals)
      /\ Cardinality(Loaded(r)) + Len(shown[r]) <= MaxItems
    <2>1. Loaded(r) \in SUBSET approvals
        BY DEF Loaded
    <2> QED
        BY <2>1, FS_Subset, FS_CardinalityType DEF LearningIInv, ItemsBounded
<1>8. Payload(decision, entry) \in AnyEntry
    <2>1. entry \in AnyEntry
        BY <1>6, EntriesTyped
    <2>2. Nothing \in AnyEntry
        BY DEF Nothing, AnyEntry, Text
    <2> QED
        BY <2>1, <2>2 DEF Payload
<1>9. new \in [run : Runs, item : 1..MaxItems, decision : {"approve", "reject"}, entry : AnyEntry]
    BY <1>5, <1>7, <1>8, SuggestionsAssumption
<1>10. decision = "reject" => new.entry = Nothing
    BY DEF Payload
<1>11. new.run = r /\ new.decision = decision
    OBVIOUS
<1> HIDE DEF new
<1>12. /\ shown' \in [Runs -> Seq(AnyEntry)] /\ shown'[r] = Tail(shown[r])
       /\ \A q \in Runs \ {r} : shown'[q] = shown[q]
    BY <1>1, <1>6 DEF LearningIInv, LearningTypeOK
<1>13. ItemsBounded'
    <2>1. IsFiniteSet(approvals')
        BY <1>4, <1>7, FS_AddElement
    <2>2. Loaded(r)' = Loaded(r) \cup {new} /\ \A q \in Runs \ {r} : Loaded(q)' = Loaded(q)
        BY <1>4, <1>11 DEF Loaded
    <2>3. /\ Cardinality(Loaded(r) \cup {new}) \in Nat
          /\ Cardinality(Loaded(r) \cup {new}) <= Cardinality(Loaded(r)) + 1
        <3>1. Cardinality(Loaded(r) \cup {new}) =
                  IF new \in Loaded(r) THEN Cardinality(Loaded(r)) ELSE Cardinality(Loaded(r)) + 1
            BY <1>7, FS_AddElement
        <3> QED
            BY <1>7, <3>1
    <2>4. Cardinality(Loaded(r)') + Len(shown'[r]) <= MaxItems
        BY <1>5, <1>6, <1>7, <1>12, <2>2, <2>3, SuggestionsAssumption
    <2> QED
        BY <1>1, <1>12, <2>1, <2>2, <2>4 DEF LearningIInv, ItemsBounded
<1>14. RejectionsBlank'
    BY <1>4, <1>10, <1>11 DEF LearningIInv, RejectionsBlank
<1>15. /\ approvals \subseteq approvals'
       /\ approvals' \subseteq [run : Runs, item : 1..MaxItems, decision : {"approve", "reject"},
                                entry : AnyEntry]
    BY <1>4, <1>9 DEF LearningIInv, LearningTypeOK
<1>16. stage' \in [Runs -> {"waiting", "reviewing", "over"}]
    BY <1>1 DEF LearningIInv, LearningTypeOK
<1> QED
    BY <1>1, <1>12, <1>13, <1>14, <1>15, <1>16, RunStep

LEMMA EndReviewStep ==
    ASSUME LearningIInv, NEW r \in Runs, EndReview(r)
    PROVE  LearningIInv'
<1>1. /\ stage[r] = "reviewing" /\ UNCHANGED <<approvals, patternVars>>
      /\ stage' = [stage EXCEPT ![r] = "over"] /\ shown' = [shown EXCEPT ![r] = <<>>]
    BY DEF EndReview, patternVars
<1>2. <<>> \in Seq(AnyEntry) /\ Len(<<>>) = 0
    OBVIOUS
<1>3. /\ stage' \in [Runs -> {"waiting", "reviewing", "over"}] /\ shown' \in [Runs -> Seq(AnyEntry)]
      /\ stage'[r] = "over" /\ shown'[r] = <<>>
      /\ \A q \in Runs \ {r} : stage'[q] = stage[q] /\ shown'[q] = shown[q]
    BY <1>1, <1>2 DEF LearningIInv, LearningTypeOK
<1>4. ItemsBounded'
    <2>1. \A q \in Runs : Loaded(q)' = Loaded(q)
        BY <1>1 DEF Loaded
    <2>2. Len(shown[r]) \in Nat
        BY DEF LearningIInv, LearningTypeOK
    <2>3. Cardinality(Loaded(r)) \in Nat
        <3>1. Loaded(r) \in SUBSET approvals
            BY DEF Loaded
        <3> QED
            BY <3>1, FS_Subset, FS_CardinalityType DEF LearningIInv, ItemsBounded
    <2>4. Cardinality(Loaded(r)) + Len(shown'[r]) <= MaxItems
        BY <1>2, <1>3, <2>2, <2>3, SuggestionsAssumption DEF LearningIInv, ItemsBounded
    <2> QED
        BY <1>1, <1>3, <2>1, <2>4 DEF LearningIInv, ItemsBounded
<1>5. RejectionsBlank' /\ approvals' = approvals
    BY <1>1 DEF LearningIInv, RejectionsBlank
<1> QED
    BY <1>1, <1>3, <1>4, <1>5, RunStep DEF LearningIInv, LearningTypeOK

(* A learner goes on without writing: the rows and the evidence stay.      *)
LEMMA LearnerStep ==
    ASSUME LearningIInv, UNCHANGED <<stage, shown, approvals, patterns>>,
           given' \subseteq Learners, queue' \in [Learners -> SUBSET Runs],
           rules' \in [Learners -> SUBSET AnyRule],
           found' \in [Learners -> [rule : AnyRule, row : 0..Len(patterns)] \cup {Idle}],
           together' \in BOOLEAN, together => together',
           LearnersBorneOut', FoundRows', LearnersApart'
    PROVE  LearningIInv'
<1> USE DEF LearningIInv
<1>1. LearningTypeOK'
    BY DEF LearningTypeOK
<1>2. RejectionsBlank' /\ RulesBorneOut' /\ OneRowPerRule'
    <2>1. ASSUME NEW rule, BorneOut(rule) PROVE BorneOut(rule)'
        <3>1. \A q, m : Approved(q, m)' = Approved(q, m)
            BY DEF Approved
        <3> HIDE DEF LearningIInv
        <3> QED
            BY <2>1, <3>1 DEF BorneOut
    <2>2. RulesBorneOut'
        BY <2>1 DEF RulesBorneOut
    <2> QED
        BY <2>2 DEF RejectionsBlank, OneRowPerRule
<1>3. ItemsBounded'
    <2>1. \A r \in Runs : Loaded(r)' = Loaded(r)
        BY DEF Loaded
    <2> QED
        BY <2>1 DEF ItemsBounded
<1> QED
    BY <1>1, <1>2, <1>3

LEMMA EvidenceUntouched ==
    ASSUME UNCHANGED approvals, NEW rule, BorneOut(rule)
    PROVE  BorneOut(rule)'
BY DEF BorneOut, Approved

LEMMA LearnStep ==
    ASSUME LearningIInv, NEW l \in Learners, Learn(l)
    PROVE  LearningIInv'
<1>1. /\ UNCHANGED <<stage, shown, approvals, patterns, rules, found>>
      /\ given' = given \cup {l}
      /\ together' = (together \/ \E k \in Learners : Working(k))
    BY DEF Learn
<1>2. PICK runs \in SUBSET Runs : queue' = [queue EXCEPT ![l] = runs]
    <2>1. PICK runs \in {{r} : r \in Runs} \cup {{a.run : a \in approvals}} :
              queue' = [queue EXCEPT ![l] = runs]
        BY DEF Learn
    <2>2. {a.run : a \in approvals} \in SUBSET Runs
        BY DEF LearningIInv, LearningTypeOK
    <2>3. runs \in SUBSET Runs
        BY <2>1, <2>2
    <2> QED
        BY <2>1, <2>3
<1>3. /\ given' \subseteq Learners /\ queue' \in [Learners -> SUBSET Runs] /\ together' \in BOOLEAN
      /\ \A k \in Learners \ {l} : queue'[k] = queue[k]
    BY <1>1, <1>2 DEF LearningIInv, LearningTypeOK
<1>4. LearnersBorneOut' /\ FoundRows'
    <2>1. \A rule : BorneOut(rule) => BorneOut(rule)'
        BY <1>1, EvidenceUntouched
    <2> QED
        BY <1>1, <2>1 DEF LearningIInv, LearnersBorneOut, FoundRows
<1>5. LearnersApart'
    <2> SUFFICES ASSUME ~ together'
                 PROVE  /\ \A k, j \in Learners : Working(k)' /\ Working(j)' => k = j
                        /\ \A k \in Learners : found'[k] = Idle
        BY DEF LearnersApart
    <2>1. \A k \in Learners : ~ Working(k)
        BY <1>1
    <2>2. \A k \in Learners \ {l} : ~ Working(k)'
        BY <1>1, <1>3, <2>1 DEF Working
    <2> QED
        BY <1>1, <2>1, <2>2 DEF Working
<1> QED
    BY <1>1, <1>3, <1>4, <1>5, LearnerStep DEF LearningIInv, LearningTypeOK

LEMMA LearnFromApprovalsStep ==
    ASSUME LearningIInv, NEW l \in Learners, LearnFromApprovals(l)
    PROVE  LearningIInv'
<1> USE DEF LearningIInv
<1>1. PICK r \in queue[l] : /\ queue' = [queue EXCEPT ![l] = @ \ {r}]
                            /\ rules' = [rules EXCEPT ![l] = Learned(Loaded(r))]
    BY DEF LearnFromApprovals
<1>2. /\ UNCHANGED <<stage, shown, approvals, patterns, given, found, together>>
      /\ found[l] = Idle
    BY DEF LearnFromApprovals
<1>3. r \in Runs
    BY <1>1 DEF LearningTypeOK
<1>4. Learned(Loaded(r)) \in SUBSET AnyRule /\ \A rule \in Learned(Loaded(r)) : BorneOut(rule)
    BY <1>3, LearnedBorneOut
<1>5. /\ queue' \in [Learners -> SUBSET Runs] /\ rules' \in [Learners -> SUBSET AnyRule]
      /\ rules'[l] = Learned(Loaded(r))
      /\ \A k \in Learners \ {l} : queue'[k] = queue[k] /\ rules'[k] = rules[k]
    BY <1>1, <1>4 DEF LearningTypeOK
<1>6. LearnersBorneOut' /\ FoundRows'
    <2>1. \A rule : BorneOut(rule) => BorneOut(rule)'
        BY <1>2, EvidenceUntouched
    <2>2. LearnersBorneOut'
        BY <1>2, <1>4, <1>5, <2>1 DEF LearnersBorneOut
    <2> QED
        BY <1>2, <2>2 DEF FoundRows
<1>7. LearnersApart'
    <2>1. \A k \in Learners : Working(k)' => Working(k)
        BY <1>1, <1>2, <1>5 DEF Working
    <2> QED
        BY <1>2, <2>1 DEF LearnersApart
<1> QED
    BY <1>2, <1>5, <1>6, <1>7, LearnerStep DEF LearningTypeOK

LEMMA FindRowStep ==
    ASSUME LearningIInv, NEW l \in Learners, FindRow(l)
    PROVE  LearningIInv'
<1> USE DEF LearningIInv
<1>1. PICK rule \in rules[l] :
          /\ LET rows == {i \in DOMAIN patterns : SameRow(patterns[i], rule)}
             IN  \E row \in IF rows = {} THEN {NoRow} ELSE rows :
                     found' = [found EXCEPT ![l] = [rule |-> rule, row |-> row]]
          /\ rules' = [rules EXCEPT ![l] = @ \ {rule}]
    BY DEF FindRow
<1>2. /\ UNCHANGED <<stage, shown, approvals, patterns, given, queue, together>>
      /\ found[l] = Idle
    BY DEF FindRow
<1> DEFINE rows == {i \in DOMAIN patterns : SameRow(patterns[i], rule)}
<1>3. PICK row \in IF rows = {} THEN {NoRow} ELSE rows :
          found' = [found EXCEPT ![l] = [rule |-> rule, row |-> row]]
    BY <1>1
<1>4. DOMAIN patterns = 1..Len(patterns) /\ Len(patterns) \in Nat /\ rule \in AnyRule
    BY DEF LearningTypeOK
<1>5. /\ row \in 0..Len(patterns)
      /\ row = NoRow => \A i \in DOMAIN patterns : ~ SameRow(patterns[i], rule)
      /\ row # NoRow => row \in DOMAIN patterns /\ SameRow(patterns[row], rule)
    BY <1>3, <1>4 DEF NoRow
<1> DEFINE new == [rule |-> rule, row |-> row]
<1>6. new \in [rule : AnyRule, row : 0..Len(patterns)] /\ new.rule = rule /\ new.row = row
    BY <1>4, <1>5
<1>7. found' = [found EXCEPT ![l] = new]
    BY <1>3
<1> HIDE DEF new, rows
<1>8. /\ found' \in [Learners -> [rule : AnyRule, row : 0..Len(patterns)] \cup {Idle}]
      /\ found'[l] = new /\ \A k \in Learners \ {l} : found'[k] = found[k]
    BY <1>6, <1>7 DEF LearningTypeOK
<1>9. /\ rules' \in [Learners -> SUBSET AnyRule]
      /\ \A k \in Learners : rules'[k] \subseteq rules[k]
    BY <1>1 DEF LearningTypeOK
<1>10. LearnersBorneOut'
    <2>1. \A r : BorneOut(r) => BorneOut(r)'
        BY <1>2, EvidenceUntouched
    <2>2. BorneOut(rule)
        BY <1>1 DEF LearnersBorneOut
    <2> QED
        BY <1>6, <1>8, <1>9, <2>1, <2>2 DEF LearnersBorneOut
<1>11. FoundRows'
    BY <1>2, <1>5, <1>6, <1>8 DEF FoundRows
<1>12. LearnersApart'
    <2>1. \A k \in Learners : Working(k)' => Working(k)
        BY <1>1, <1>2, <1>8, <1>9 DEF Working
    <2> QED
        BY <1>2, <1>5, <1>6, <1>8, <2>1 DEF LearnersApart
<1> QED
    BY <1>2, <1>8, <1>9, <1>10, <1>11, <1>12, LearnerStep DEF LearningTypeOK

LEMMA LearnerStopsStep ==
    ASSUME LearningIInv, NEW l \in Learners, LearnerStops(l)
    PROVE  LearningIInv'
<1> USE DEF LearningIInv
<1>1. /\ UNCHANGED <<stage, shown, approvals, patterns, given, together>>
      /\ queue' = [queue EXCEPT ![l] = {}] /\ rules' = [rules EXCEPT ![l] = {}]
      /\ found' = [found EXCEPT ![l] = Idle]
    BY DEF LearnerStops
<1>2. /\ queue' \in [Learners -> SUBSET Runs] /\ rules' \in [Learners -> SUBSET AnyRule]
      /\ found' \in [Learners -> [rule : AnyRule, row : 0..Len(patterns)] \cup {Idle}]
      /\ queue'[l] = {} /\ rules'[l] = {} /\ found'[l] = Idle
      /\ \A k \in Learners \ {l} :
             queue'[k] = queue[k] /\ rules'[k] = rules[k] /\ found'[k] = found[k]
    BY <1>1 DEF LearningTypeOK
<1>3. LearnersBorneOut' /\ FoundRows'
    <2>1. \A rule : BorneOut(rule) => BorneOut(rule)'
        BY <1>1, EvidenceUntouched
    <2>2. LearnersBorneOut'
        BY <1>2, <2>1 DEF LearnersBorneOut
    <2> QED
        BY <1>1, <1>2, <2>2 DEF FoundRows
<1>4. LearnersApart'
    <2>1. \A k \in Learners : Working(k)' => Working(k)
        BY <1>2 DEF Working
    <2> QED
        BY <1>1, <1>2, <2>1 DEF LearnersApart
<1> QED
    BY <1>1, <1>2, <1>3, <1>4, LearnerStep DEF LearningTypeOK

(* The row that is written stays of its kind, or there was none of it.     *)
LEMMA WriteRowStep ==
    ASSUME LearningIInv, NEW l \in Learners, WriteRow(l)
    PROVE  LearningIInv'
<1> USE DEF LearningIInv
<1> DEFINE new == found[l].rule
           row == found[l].row
           n == Len(patterns)
<1>1. /\ UNCHANGED <<stage, shown, approvals, given, queue, rules, together>>
      /\ found[l] # Idle /\ found' = [found EXCEPT ![l] = Idle]
      /\ patterns' = IF row = NoRow THEN Append(patterns, new) ELSE [patterns EXCEPT ![row] = new]
    BY DEF WriteRow
<1>2. /\ new \in AnyRule /\ row \in 0..n /\ n \in Nat
      /\ DOMAIN patterns = 1..n /\ patterns \in Seq(AnyRule)
      /\ BorneOut(new)
    BY <1>1 DEF LearningTypeOK, LearnersBorneOut
<1>3. PICK at \in {n + 1} \cup (1..n) :
          /\ at = IF row = NoRow THEN n + 1 ELSE row
          /\ patterns' \in Seq(AnyRule) /\ DOMAIN patterns' = (1..n) \cup {at}
          /\ Len(patterns') >= n
          /\ patterns'[at] = new /\ \A i \in (1..n) \ {at} : patterns'[i] = patterns[i]
    <2> HIDE DEF new
    <2>1. CASE row = NoRow
        <3>1. /\ patterns' \in Seq(AnyRule) /\ Len(patterns') = n + 1
              /\ patterns'[n + 1] = new /\ \A i \in 1..n : patterns'[i] = patterns[i]
            BY <1>1, <1>2, <2>1, AppendProperties
        <3>2. DOMAIN patterns' = (1..n) \cup {n + 1}
            BY <1>2, <3>1
        <3> QED
            BY <1>2, <2>1, <3>1, <3>2
    <2>2. CASE row # NoRow
        <3>1. row \in 1..n
            BY <1>2, <2>2 DEF NoRow
        <3>2. /\ patterns' \in Seq(AnyRule) /\ Len(patterns') = n
              /\ \A i \in 1..n : patterns'[i] = IF i = row THEN new ELSE patterns[i]
            BY <1>1, <1>2, <2>2, <3>1, ExceptSeq
        <3>3. DOMAIN patterns' = (1..n) \cup {row}
            <4>1. DOMAIN patterns' = 1..n
                BY <3>2
            <4> QED
                BY <3>1, <4>1
        <3> QED
            BY <1>2, <2>2, <3>1, <3>2, <3>3
    <2> QED
        BY <2>1, <2>2
<1>4. /\ found' \in [Learners -> [rule : AnyRule, row : 0..Len(patterns)] \cup {Idle}]
      /\ found'[l] = Idle /\ \A k \in Learners \ {l} : found'[k] = found[k]
    BY <1>1 DEF LearningTypeOK
<1>5. \A i \in 1..n : SameRow(patterns'[i], patterns[i])
    <2> SUFFICES ASSUME NEW i \in 1..n PROVE SameRow(patterns'[i], patterns[i])
        OBVIOUS
    <2>1. CASE i # at
        BY <1>3, <2>1 DEF SameRow
    <2>2. CASE i = at
        <3>1. row # NoRow /\ row = at
            BY <1>2, <1>3, <2>2
        <3> QED
            BY <1>1, <1>3, <2>2, <3>1 DEF FoundRows, SameRow
    <2> QED
        BY <2>1, <2>2
<1> HIDE DEF new, row
<1>6. LearningTypeOK'
    <2>1. Len(patterns') \in Nat /\ 0..n \subseteq 0..Len(patterns')
        BY <1>2, <1>3
    <2>2. found' \in [Learners -> [rule : AnyRule, row : 0..Len(patterns')] \cup {Idle}]
        <3>1. \A k \in Learners :
                  found'[k] \in [rule : AnyRule, row : 0..Len(patterns')] \cup {Idle}
            BY <1>4, <2>1
        <3> QED
            BY <1>4, <3>1
    <2> QED
        BY <1>1, <1>3, <2>2 DEF LearningTypeOK
<1>7. RejectionsBlank' /\ ItemsBounded'
    <2>1. \A r \in Runs : Loaded(r)' = Loaded(r)
        BY <1>1 DEF Loaded
    <2>2. ItemsBounded'
        BY <1>1, <2>1 DEF ItemsBounded
    <2> QED
        BY <1>1, <2>2 DEF RejectionsBlank
<1>8. RulesBorneOut' /\ LearnersBorneOut'
    <2>1. \A rule : BorneOut(rule) => BorneOut(rule)'
        BY <1>1, EvidenceUntouched
    <2>2. \A i \in DOMAIN patterns' : BorneOut(patterns'[i])
        <3>1. \A i \in 1..n : BorneOut(patterns[i])
            BY <1>2 DEF RulesBorneOut
        <3> QED
            BY <1>2, <1>3, <3>1
    <2>3. RulesBorneOut'
        BY <2>1, <2>2 DEF RulesBorneOut
    <2>4. LearnersBorneOut'
        BY <1>1, <1>4, <2>1 DEF LearnersBorneOut
    <2> QED
        BY <2>3, <2>4
<1>9. FoundRows'
    <2> SUFFICES ASSUME NEW k \in Learners, found'[k] # Idle, found'[k].row # NoRow
                 PROVE  SameRow(patterns'[found'[k].row], found'[k].rule)
        BY DEF FoundRows
    <2>1. found'[k] = found[k] /\ found[k].row \in 1..n
        BY <1>2, <1>4 DEF LearningTypeOK, NoRow
    <2> QED
        BY <1>5, <2>1 DEF FoundRows, SameRow
<1>10. ASSUME ~ together
       PROVE  /\ \A k \in Learners \ {l} : ~ Working(k) /\ found[k] = Idle
              /\ row = NoRow => \A i \in 1..n : ~ SameRow(patterns[i], new)
    BY <1>1, <1>2, <1>10 DEF LearnersApart, Working, row, new
<1>11. LearnersApart'
    <2>1. \A k \in Learners : Working(k)' => Working(k)
        BY <1>1, <1>4 DEF Working
    <2>2. ~ together => \A k \in Learners : found'[k] = Idle
        BY <1>4, <1>10
    <2> QED
        BY <1>1, <2>1, <2>2 DEF LearnersApart
<1>12. OneRowPerRule'
    <2> SUFFICES ASSUME ~ together, NEW i \in DOMAIN patterns', NEW j \in DOMAIN patterns',
                        SameRow(patterns'[i], patterns'[j])
                 PROVE  i = j
        BY <1>1 DEF OneRowPerRule, SameRow
    <2>1. CASE i \in 1..n /\ j \in 1..n
        <3>1. SameRow(patterns[i], patterns[j])
            BY <1>5, <2>1 DEF SameRow
        <3> QED
            BY <1>2, <2>1, <3>1 DEF OneRowPerRule, SameRow
    <2>2. CASE i = at /\ j = at
        BY <2>2
    <2>3. CASE at \notin 1..n /\ ((i = at /\ j \in 1..n) \/ (j = at /\ i \in 1..n))
        <3>1. row = NoRow
            BY <1>2, <1>3, <2>3 DEF NoRow
        <3>2. \A k \in 1..n : ~ SameRow(patterns[k], new)
            BY <1>10, <3>1
        <3>3. \A k \in 1..n : ~ SameRow(patterns'[k], patterns'[at])
            BY <1>3, <1>5, <3>2 DEF SameRow
        <3> QED
            BY <2>3, <3>3 DEF SameRow
    <2>4. i \in (1..n) \cup {at} /\ j \in (1..n) \cup {at}
        BY <1>3
    <2> QED
        BY <2>1, <2>2, <2>3, <2>4
<1> QED
    BY <1>6, <1>7, <1>8, <1>9, <1>11, <1>12
-----------------------------------------------------------------------------
LEMMA LearningNextStep == LearningIInv /\ [LearningNext]_learningVars => LearningIInv'
<1> SUFFICES ASSUME LearningIInv, [LearningNext]_learningVars PROVE LearningIInv'
    OBVIOUS
<1>1. ASSUME NEW r \in Runs, Suggest(r) \/ Decide(r) \/ EndReview(r)
      PROVE  LearningIInv'
    BY <1>1, SuggestStep, DecideStep, EndReviewStep
<1>2. ASSUME NEW l \in Learners,
             \/ Learn(l) \/ LearnFromApprovals(l) \/ FindRow(l) \/ WriteRow(l) \/ LearnerStops(l)
      PROVE  LearningIInv'
    BY <1>2, LearnStep, LearnFromApprovalsStep, FindRowStep, WriteRowStep, LearnerStopsStep
<1>3. CASE UNCHANGED learningVars
    <2>1. /\ UNCHANGED <<stage, shown, approvals, patternVars>>
          /\ \A r \in Runs : Loaded(r)' = Loaded(r)
        BY <1>3 DEF learningVars, patternVars, Loaded
    <2>2. ItemsBounded' /\ RejectionsBlank'
        BY <2>1 DEF LearningIInv, ItemsBounded, RejectionsBlank
    <2> QED
        BY <2>1, <2>2, RunStep DEF LearningIInv, LearningTypeOK
<1> QED
    BY <1>1, <1>2, <1>3 DEF LearningNext

(* The strengthened invariant holds in every reachable state.              *)
THEOREM LearningInvariance == LearningSpec => []LearningIInv
<1>1. LearningInit => LearningIInv
    BY LearningInitIInv
<1>2. LearningIInv /\ [LearningNext]_learningVars => LearningIInv'
    BY LearningNextStep
<1> QED
    BY <1>1, <1>2, PTL DEF LearningSpec

(* Every variable keeps its type: what is suggested after the rules are    *)
(* applied is an entry, and no rule of another kind is ever stored.        *)
THEOREM LearningTypeCorrect == LearningSpec => []LearningTypeOK
<1>1. LearningIInv => LearningTypeOK
    BY DEF LearningIInv
<1> QED
    BY <1>1, LearningInvariance, PTL

(* Every stored rule has its evidence in what was approved, and one row as *)
(* long as no two commands learn at once, for any runs, narratives and     *)
(* learners.                                                               *)
THEOREM RulesAlwaysStand == LearningSpec => []LearnedRulesStand
<1>1. LearningIInv => LearnedRulesStand
    BY DEF LearningIInv, LearnedRulesStand
<1> QED
    BY <1>1, LearningInvariance, PTL
=============================================================================
