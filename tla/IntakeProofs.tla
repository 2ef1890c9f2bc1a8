----------------------------- MODULE IntakeProofs -----------------------------
(***************************************************************************)
(* Theorems about the intake, for any number of issues and messages, any   *)
(* limits of the queries, and any number of failures and crashes.          *)
(*                                                                         *)
(* That an item has one whole matter at most follows from where a handler  *)
(* is with it (StageStands).  That none is passed over follows from what a *)
(* handler owes while it runs: an issue that was touched has its matter,   *)
(* or is still on the list, or beyond the limit, or touched since the list *)
(* was read (JiraOwes); a message likewise, but one posted since is newer  *)
(* than any on the list, so the cursor will not reach it (SlackOwes).      *)
(***************************************************************************)
EXTENDS Intake, FunctionTheorems, FiniteSetTheorems,
        SequenceTheorems, TLAPS

(* Nothing the handlers know is of a time to come.                         *)
NothingAhead ==
    /\ \A i \in Items : touched[i] <= clock
    /\ \A s \in Sources : cursor[s] <= clock
    /\ latest <= clock

InStages == pc \in {"contact", "link", "text"}

(* The item being stored has its matter, and what the stages before this   *)
(* one stored, and no more.                                                *)
StageStands ==
    InStages =>
        /\ todo # <<>>
        /\ matters[Item] = 1
        /\ pc # "text" =>
              /\ Author[Item] # NoEmail
              /\ texts[Item] = IF Item \in Messages THEN 1 ELSE 0
        /\ pc = "text" =>
              /\ Item \in Messages \cup Worded
              /\ texts[Item] = 0
              /\ Item \in Issues /\ Author[Item] # NoEmail =>
                    <<Item, Author[Item]>> \in links \/ Item \in partial

(* The batch holds items of the handler's source that exist.               *)
BatchStands ==
    \A k \in DOMAIN todo :
        /\ touched[todo[k]] # 0
        /\ todo[k] \in IF source = "jira" THEN Issues ELSE Messages

Listed(i) == \E k \in DOMAIN todo : todo[k] = i

JiraOwes ==
    source = "jira" /\ pc # "read" =>
        \A i \in Issues : touched[i] # 0 =>
            matters[i] > 0 \/ i \in cut \cup late \/ Listed(i)

PostedSince(m) ==
    touched[m] > latest /\ \A k \in DOMAIN todo : touched[m] > touched[todo[k]]

SlackOwes ==
    source = "slack" /\ pc # "read" =>
        \A m \in Humans : touched[m] # 0 =>
            matters[m] > 0 \/ m \in cut \/ Listed(m) \/ PostedSince(m)

IInv ==
    /\ TypeOK
    /\ NothingAhead
    /\ StageStands
    /\ BatchStands
    /\ OneMatterPerItem
    /\ MattersWhole
    /\ JiraOwes
    /\ SlackOwes
    /\ NothingPassedOver
-----------------------------------------------------------------------------
LEMMA BoundsAreNumbers ==
    MaxTime \in Nat /\ MaxFailures \in Nat /\ JiraLimit \in Nat /\ SlackLimit \in Nat
BY LimitsAssumption

LEMMA Kinds ==
    /\ Issues \subseteq Items /\ Messages \subseteq Items /\ Worded \subseteq Issues
    /\ Humans \subseteq Messages /\ Issues \cap Messages = {}
    /\ \A i \in Items : i \in Issues \/ i \in Messages
    /\ \A i \in Items : Author[i] # NoEmail => Author[i] \in Emails
BY ItemsAssumption DEF Items, Emails

(* The item a handler is at is the first of its batch.                     *)
LEMMA ItemIsFirst ==
    ASSUME TypeOK, todo # <<>>
    PROVE  /\ Len(todo) \in Nat /\ DOMAIN todo = 1..Len(todo) /\ 1 \in DOMAIN todo
           /\ Item = todo[1] /\ Item \in Items
           /\ Tail(todo) \in Seq(Items)
           /\ \A k \in DOMAIN Tail(todo) : k + 1 \in DOMAIN todo /\ Tail(todo)[k] = todo[k + 1]
           /\ \A k \in DOMAIN todo : k = 1 \/ (k - 1 \in DOMAIN Tail(todo)
                                               /\ Tail(todo)[k - 1] = todo[k])
<1>1. todo \in Seq(Items) /\ todo # <<>>
    BY DEF TypeOK
<1>2. /\ Len(todo) \in Nat /\ DOMAIN todo = 1..Len(todo) /\ Len(todo) > 0 /\ Item = todo[1]
      /\ Item \in Items
    BY <1>1 DEF Item
<1>3. /\ Tail(todo) \in Seq(Items) /\ Len(Tail(todo)) = Len(todo) - 1
      /\ \A k \in 1..Len(Tail(todo)) : Tail(todo)[k] = todo[k + 1]
    BY <1>1, HeadTailProperties
<1>4. DOMAIN Tail(todo) = 1..(Len(todo) - 1)
    BY <1>3, LenProperties
<1>5. \A k \in DOMAIN Tail(todo) : k + 1 \in DOMAIN todo /\ Tail(todo)[k] = todo[k + 1]
    BY <1>2, <1>3, <1>4
<1>6. \A k \in DOMAIN todo : k = 1 \/ k - 1 \in DOMAIN Tail(todo)
    BY <1>2, <1>4
<1>7. \A k \in DOMAIN todo : k \in Nat /\ (k - 1) + 1 = k
    BY <1>2
<1>8. \A k \in DOMAIN todo : k = 1 \/ (k - 1 \in DOMAIN Tail(todo) /\ Tail(todo)[k - 1] = todo[k])
    BY <1>5, <1>6, <1>7
<1> QED
    BY <1>2, <1>3, <1>5, <1>8

LEMMA Numbers ==
    ASSUME TypeOK
    PROVE  /\ latest \in Times /\ latest \in Nat /\ latest >= latest /\ clock \in Nat
           /\ \A i \in Items : touched[i] \in Times /\ touched[i] \in Nat
<1>1. \A t \in Times : t \in Nat
    BY BoundsAreNumbers DEF Times
<1> QED
    BY <1>1 DEF TypeOK

(* An answer holds what is newest, all of it.                              *)
LEMMA AnswerHasNewest ==
    ASSUME TypeOK, NEW s \in Sources, NEW answer \in Answers(s)
    PROVE  /\ answer \in Seq(Items)
           /\ \A k \in DOMAIN answer : answer[k] \in Newest(s)
           /\ \A i \in Newest(s) : \E k \in DOMAIN answer : answer[k] = i
<1> DEFINE n == Cardinality(Newest(s))
<1>1. Newest(s) \subseteq Items
    BY Kinds DEF Newest, Matching
<1>2. IsFiniteSet(Newest(s)) /\ n \in Nat
    BY <1>1, ItemsAssumption, FS_Subset, FS_CardinalityType
<1>3. /\ answer \in [1..n -> Newest(s)]
      /\ \A i, j \in DOMAIN answer : i < j => touched[answer[i]] > touched[answer[j]]
    BY DEF Answers
<1>4. ASSUME NEW i \in 1..n, NEW j \in 1..n, answer[i] = answer[j]
      PROVE  i = j
    <2>1. touched[answer[i]] \in Nat /\ touched[answer[j]] \in Nat
        <3>1. answer[i] \in Items /\ answer[j] \in Items
            BY <1>1, <1>3
        <3>2. \A k \in Items : touched[k] \in Nat
            BY BoundsAreNumbers DEF TypeOK, Times
        <3> QED
            BY <3>1, <3>2
    <2>2. ~ (i < j) /\ ~ (j < i)
        BY <1>3, <1>4, <2>1
    <2> QED
        BY <1>2, <2>2
<1> HIDE DEF n
<1>5. answer \in Injection(1..n, Newest(s))
    BY <1>3, <1>4, Fun_IsInj
<1>6. Cardinality(1..n) = n
    BY <1>2, FS_Interval
<1>7. answer \in Surjection(1..n, Newest(s))
    BY <1>2, <1>5, <1>6, FS_Injection DEF n
<1>8. \A i \in Newest(s) : \E k \in 1..n : answer[k] = i
    BY <1>7 DEF Surjection
<1>9. answer \in Seq(Items)
    <2>1. answer \in [1..n -> Items]
        BY <1>1, <1>3
    <2> QED
        BY <1>2, <2>1
<1> QED
    BY <1>3, <1>8, <1>9

(* Two stages put one after the other are a list of two.                   *)
LEMMA TwoStages ==
    ASSUME NEW a \in {"text", "contact"}, NEW b \in {"text", "contact"}
    PROVE  <<a>> \o <<b>> = <<a, b>>
<1> DEFINE S == {"text", "contact"}
<1>1. <<a>> \in Seq(S) /\ b \in S /\ <<a, b>> \in Seq(S)
    OBVIOUS
<1>2. Len(<<a>>) = 1 /\ <<a>>[1] = a
    OBVIOUS
<1> HIDE DEF S
<1>3. /\ Append(<<a>>, b) \in Seq(S) /\ Len(Append(<<a>>, b)) = Len(<<a>>) + 1
      /\ \A i \in 1..Len(<<a>>) : Append(<<a>>, b)[i] = <<a>>[i]
      /\ Append(<<a>>, b)[Len(<<a>>) + 1] = b
    BY <1>1, AppendProperties
<1>4. /\ Len(Append(<<a>>, b)) = 2 /\ Append(<<a>>, b)[1] = a /\ Append(<<a>>, b)[2] = b
    BY <1>2, <1>3
<1>5. Len(<<a, b>>) = 2 /\ <<a, b>>[1] = a /\ <<a, b>>[2] = b
    OBVIOUS
<1>6. Append(<<a>>, b) = <<a, b>>
    <2>1. Len(Append(<<a>>, b)) = Len(<<a, b>>)
        BY <1>4, <1>5
    <2>2. \A i \in 1..Len(Append(<<a>>, b)) : Append(<<a>>, b)[i] = <<a, b>>[i]
        BY <1>4, <1>5
    <2> QED
        BY <1>1, <1>3, <2>1, <2>2, SeqEqual
<1>7. <<a>> \o <<b>> = Append(<<a>>, b)
    BY <1>1, AppendIsConcat
<1> QED
    BY <1>6, <1>7

(* The stages of an item, one by one.                                      *)
LEMMA StagesAre ==
    ASSUME NEW i \in Items
    PROVE  /\ i \in Messages /\ Author[i] = NoEmail => Stages(i) = <<"text">>
           /\ i \in Messages /\ Author[i] # NoEmail => Stages(i) = <<"text", "contact">>
           /\ i \in Worded /\ Author[i] = NoEmail => Stages(i) = <<"text">>
           /\ i \in Worded /\ Author[i] # NoEmail => Stages(i) = <<"contact", "text">>
           /\ i \in Issues \ Worded /\ Author[i] = NoEmail => Stages(i) = <<>>
           /\ i \in Issues \ Worded /\ Author[i] # NoEmail => Stages(i) = <<"contact">>
<1>1. /\ <<"text">> \o <<>> = <<"text">> /\ <<>> \o <<"text">> = <<"text">>
      /\ <<"text">> \o <<"contact">> = <<"text", "contact">>
      /\ <<"contact">> \o <<"text">> = <<"contact", "text">>
    <2>1. /\ <<"text">> \in Seq({"text", "contact"}) /\ <<"contact">> \in Seq({"text", "contact"})
        OBVIOUS
    <2>2. <<"text">> \o <<>> = <<"text">> /\ <<>> \o <<"text">> = <<"text">>
        BY <2>1, ConcatEmptySeq
    <2>3. /\ <<"text">> \o <<"contact">> = <<"text", "contact">>
          /\ <<"contact">> \o <<"text">> = <<"contact", "text">>
        BY TwoStages
    <2> QED
        BY <2>2, <2>3
<1>2. i \in Worded => i \notin Messages
    BY Kinds
<1>3. i \in Issues \ Worded => i \notin Messages /\ i \notin Worded
    BY Kinds
<1> QED
    BY <1>1, <1>2, <1>3 DEF Stages

LEMMA AfterContact ==
    ASSUME IInv, pc \in {"contact", "link"}, After("contact")
    PROVE  /\ todo # <<>> /\ Item \in Items /\ Author[Item] # NoEmail
           /\ \/ Item \in Worded /\ pc' = "text" /\ todo' = todo
              \/ Item \notin Worded /\ NextItem
<1>1. todo # <<>> /\ Item \in Items /\ Author[Item] # NoEmail
    BY ItemIsFirst DEF IInv, StageStands, InStages
<1> DEFINE stages == Stages(Item)
<1>2. IF Len(stages) = 2 /\ stages[1] = "contact"
         THEN pc' = stages[2] /\ todo' = todo ELSE NextItem
    BY DEF After
<1>3. CASE Item \in Messages
    <2>1. stages = <<"text", "contact">> /\ Item \notin Worded
        BY <1>1, <1>3, StagesAre, Kinds
    <2> HIDE DEF stages
    <2> QED
        BY <1>1, <1>2, <2>1
<1>4. CASE Item \in Worded
    <2>1. stages = <<"contact", "text">>
        BY <1>1, <1>4, StagesAre
    <2> HIDE DEF stages
    <2> QED
        BY <1>1, <1>2, <1>4, <2>1
<1>5. CASE Item \in Issues \ Worded
    <2>1. stages = <<"contact">>
        BY <1>1, <1>5, StagesAre
    <2> HIDE DEF stages
    <2> QED
        BY <1>1, <1>2, <1>5, <2>1
<1> QED
    BY <1>1, <1>3, <1>4, <1>5, Kinds

LEMMA AfterText ==
    ASSUME IInv, pc = "text", After("text")
    PROVE  /\ todo # <<>> /\ Item \in Items
           /\ \/ Item \in Messages /\ Author[Item] # NoEmail /\ pc' = "contact" /\ todo' = todo
              \/ (Item \in Issues \/ Author[Item] = NoEmail) /\ NextItem
<1>1. todo # <<>> /\ Item \in Items /\ Item \in Messages \cup Worded
    BY ItemIsFirst DEF IInv, StageStands, InStages
<1> DEFINE stages == Stages(Item)
<1>2. IF Len(stages) = 2 /\ stages[1] = "text"
         THEN pc' = stages[2] /\ todo' = todo ELSE NextItem
    BY DEF After
<1>3. CASE Author[Item] = NoEmail
    <2>1. stages = <<"text">>
        BY <1>1, <1>3, StagesAre
    <2> HIDE DEF stages
    <2> QED
        BY <1>1, <1>2, <1>3, <2>1
<1>4. CASE Author[Item] # NoEmail /\ Item \in Messages
    <2>1. stages = <<"text", "contact">>
        BY <1>1, <1>4, StagesAre
    <2> HIDE DEF stages
    <2> QED
        BY <1>1, <1>2, <1>4, <2>1
<1>5. CASE Author[Item] # NoEmail /\ Item \in Worded
    <2>1. stages = <<"contact", "text">> /\ Item \in Issues
        BY <1>1, <1>5, StagesAre, Kinds
    <2> HIDE DEF stages
    <2> QED
        BY <1>1, <1>2, <2>1
<1> QED
    BY <1>1, <1>3, <1>4, <1>5
-----------------------------------------------------------------------------
(* What a step of a handler between its query and its end owes still: it   *)
(* gives up nothing of its batch but the item it is at, once that has its  *)
(* matter or gets none, and knows no time but that of this item.           *)
Works ==
    /\ UNCHANGED <<clock, touched, cursor, source, cut, late>>
    /\ pc # "read" /\ pc' # "read"
    /\ \A i \in Items : matters[i] > 0 => matters'[i] > 0
    /\ latest' = latest \/ (todo # <<>> /\ latest' = touched[Item])
    /\ \/ todo' = todo
       \/ /\ todo # <<>> /\ todo' = Tail(todo)
          /\ matters'[Item] > 0 \/ Item \notin Issues \cup Humans
    /\ latest' >= latest

LEMMA WorkOwes ==
    ASSUME IInv, Works
    PROVE  /\ NothingAhead' /\ BatchStands' /\ JiraOwes' /\ SlackOwes' /\ NothingPassedOver'
<1>1. /\ clock' = clock /\ touched' = touched /\ cursor' = cursor /\ source' = source
      /\ cut' = cut /\ late' = late
    BY DEF Works
<1>2. clock \in Nat /\ latest \in Nat /\ \A i \in Items : touched[i] \in Nat
    BY BoundsAreNumbers DEF IInv, TypeOK, Times
<1>3. NothingAhead'
    <2>1. latest' <= clock
        BY ItemIsFirst DEF Works, IInv, NothingAhead
    <2> QED
        BY <1>1, <2>1 DEF IInv, NothingAhead
<1>4. \A k \in DOMAIN todo' : \E j \in DOMAIN todo : todo'[k] = todo[j]
    BY ItemIsFirst DEF Works, IInv
<1>5. BatchStands'
    BY <1>1, <1>4 DEF IInv, BatchStands
<1>6. ASSUME NEW i \in Items, i \in Issues \cup Humans, Listed(i)
      PROVE  matters'[i] > 0 \/ Listed(i)'
    <2>1. PICK k \in DOMAIN todo : todo[k] = i
        BY <1>6 DEF Listed
    <2>2. CASE todo' = todo
        BY <2>1, <2>2 DEF Listed
    <2>3. CASE /\ todo # <<>> /\ todo' = Tail(todo)
               /\ matters'[Item] > 0 \/ Item \notin Issues \cup Humans
        <3>1. Item = todo[1]
            BY <2>3, ItemIsFirst DEF IInv
        <3>2. CASE k = 1
            BY <1>6, <2>1, <2>3, <3>1, <3>2
        <3>3. CASE k # 1
            <4>1. k - 1 \in DOMAIN Tail(todo) /\ Tail(todo)[k - 1] = todo[k]
                BY <2>1, <2>3, <3>3, ItemIsFirst DEF IInv
            <4> QED
                BY <2>1, <2>3, <4>1 DEF Listed
        <3> QED
            BY <3>2, <3>3
    <2> QED
        BY <2>2, <2>3 DEF Works
<1>7. JiraOwes'
    <2> SUFFICES ASSUME source = "jira", NEW i \in Issues, touched[i] # 0
                 PROVE  matters'[i] > 0 \/ i \in cut \cup late \/ Listed(i)'
        BY <1>1 DEF JiraOwes, Listed
    <2>1. matters[i] > 0 \/ i \in cut \cup late \/ Listed(i)
        BY DEF IInv, JiraOwes, Works
    <2> QED
        BY <1>6, <2>1, Kinds DEF Works
<1>8. SlackOwes'
    <2> SUFFICES ASSUME source = "slack", NEW m \in Humans, touched[m] # 0
                 PROVE  matters'[m] > 0 \/ m \in cut \/ Listed(m)' \/ PostedSince(m)'
        BY <1>1 DEF SlackOwes, Listed, PostedSince
    <2>1. m \in Items /\ touched[m] \in Nat
        BY <1>2, Kinds
    <2>2. matters[m] > 0 \/ m \in cut \/ Listed(m) \/ PostedSince(m)
        BY DEF IInv, SlackOwes, Works
    <2>3. PostedSince(m) => PostedSince(m)'
        <3> SUFFICES ASSUME PostedSince(m)
                     PROVE  touched[m] > latest' /\ \A k \in DOMAIN todo' : touched[m] > touched[todo'[k]]
            BY <1>1 DEF PostedSince
        <3>1. \A k \in DOMAIN todo' : touched[m] > touched[todo'[k]]
            BY <1>4 DEF PostedSince
        <3>2. touched[m] > latest'
            BY ItemIsFirst DEF PostedSince, Works, IInv
        <3> QED
            BY <3>1, <3>2
    <2> QED
        BY <1>6, <2>1, <2>2, <2>3 DEF Works
<1>9. NothingPassedOver'
    BY <1>1, Kinds DEF IInv, NothingPassedOver, Works
<1> QED
    BY <1>3, <1>5, <1>7, <1>8, <1>9

(* An item leaves the hands of a handler whole, or known as partial.       *)
Whole(i) ==
    /\ i \in Humans \cup Worded => texts[i] = 1
    /\ Author[i] # NoEmail => <<i, Author[i]>> \in links

LEMMA WholeMeans ==
    MattersWhole <=>
        \A i \in Items : matters[i] > 0 /\ i \notin partial /\ ~ (InStages /\ Item = i) => Whole(i)
BY DEF MattersWhole, Whole, InStages

(* What a step leaves as it was about all items but one.                   *)
LEMMA OthersWhole ==
    ASSUME IInv, NEW j \in Items,
           \A i \in Items \ {j} : matters'[i] = matters[i] /\ texts'[i] = texts[i],
           links \subseteq links', partial \subseteq partial',
           InStages => Item = j,
           matters'[j] > 0 /\ j \notin partial' /\ ~ (InStages' /\ Item' = j) => Whole(j)'
    PROVE  MattersWhole'
<1> SUFFICES ASSUME NEW i \in Items, matters'[i] > 0, i \notin partial',
                    ~ (InStages' /\ Item' = i)
             PROVE  Whole(i)'
    BY WholeMeans DEF MattersWhole, Whole, InStages
<1>1. CASE i = j
    BY <1>1 DEF Whole
<1>2. CASE i # j
    <2>1. Whole(i)
        BY <1>2, WholeMeans DEF IInv
    <2> QED
        BY <1>2, <2>1 DEF Whole
<1> QED
    BY <1>1, <1>2
-----------------------------------------------------------------------------
(* The steps of a handler with an item.                                    *)

LEMMA SkipKeeps ==
    ASSUME IInv, SkipItem
    PROVE  IInv'
<1>1. /\ pc = "item" /\ todo # <<>> /\ pc' = "item" /\ todo' = Tail(todo)
      /\ UNCHANGED <<clock, touched, matters, texts, contacts, links, cursor, source,
                     failures, cut, late, partial>>
    BY DEF SkipItem, NextItem, outside, tables, history
<1>2. /\ Item \in Items /\ touched[Item] \in Times /\ latest \in Times
      /\ touched[Item] \in Nat /\ latest \in Nat /\ todo' \in Seq(Items)
    BY <1>1, ItemIsFirst, Numbers DEF IInv
<1>3. (latest' = latest \/ latest' = touched[Item]) /\ latest' >= latest
    BY <1>2 DEF SkipItem
<1>4. matters[Item] > 0 \/ Item \notin Issues \cup Humans
    BY Kinds DEF SkipItem, Tracked
<1>5. Works
    BY <1>1, <1>3, <1>4 DEF Works
<1>6. TypeOK'
    BY <1>1, <1>2, <1>3 DEF IInv, TypeOK
<1>7. StageStands' /\ OneMatterPerItem' /\ MattersWhole'
    BY <1>1 DEF IInv, StageStands, InStages, OneMatterPerItem, MattersWhole
<1> QED
    BY <1>5, <1>6, <1>7, WorkOwes DEF IInv

LEMMA CreateKeeps ==
    ASSUME IInv, CreateMatter
    PROVE  IInv'
<1> DEFINE stages == Stages(Item)
<1>1. /\ pc = "item" /\ todo # <<>> /\ Item \in Issues \cup Humans /\ ~ Tracked(Item)
      /\ matters' = [matters EXCEPT ![Item] = @ + 1]
      /\ UNCHANGED <<clock, touched, texts, contacts, links, cursor, source,
                     failures, cut, late, partial>>
    BY DEF CreateMatter, outside, history
<1>2. /\ Item \in Items /\ touched[Item] \in Times /\ latest \in Times
      /\ touched[Item] \in Nat /\ latest \in Nat /\ Tail(todo) \in Seq(Items)
    BY <1>1, ItemIsFirst, Numbers DEF IInv
<1>3. (latest' = latest \/ latest' = touched[Item]) /\ latest' >= latest
    BY <1>2 DEF CreateMatter
<1>4. /\ matters \in [Items -> Nat] /\ matters[Item] = 0 /\ texts[Item] = 0
      /\ \A i \in Items : texts[i] \in Nat
    BY <1>1, <1>2 DEF IInv, TypeOK, Tracked, OneMatterPerItem
<1>5. /\ matters' \in [Items -> Nat] /\ matters'[Item] = 1
      /\ \A i \in Items \ {Item} : matters'[i] = matters[i]
    BY <1>1, <1>2, <1>4
<1>6. \/ /\ Item \in Issues \ Worded /\ Author[Item] = NoEmail /\ NextItem
      \/ /\ todo' = todo /\ pc' = "contact" /\ Author[Item] # NoEmail /\ Item \in Issues
      \/ /\ todo' = todo /\ pc' = "text"
         /\ Item \in Messages \cup Worded /\ (Item \in Issues => Author[Item] = NoEmail)
    <2>1. IF stages = <<>> THEN NextItem ELSE pc' = Head(stages) /\ todo' = todo
        BY DEF CreateMatter
    <2>2. CASE Item \in Messages
        <3>1. stages # <<>> /\ Head(stages) = "text" /\ Item \notin Issues
            <4>1. stages \in {<<"text">>, <<"text", "contact">>}
                BY <1>2, <2>2, StagesAre
            <4> HIDE DEF stages
            <4> QED
                BY <2>2, <4>1, Kinds
        <3> HIDE DEF stages
        <3> QED
            BY <2>1, <2>2, <3>1
    <2>3. CASE Item \in Issues /\ Author[Item] # NoEmail
        <3>1. stages # <<>> /\ Head(stages) = "contact"
            <4>1. stages \in {<<"contact">>, <<"contact", "text">>}
                BY <1>2, <2>3, StagesAre
            <4> HIDE DEF stages
            <4> QED
                BY <4>1
        <3> HIDE DEF stages
        <3> QED
            BY <2>1, <2>3, <3>1
    <2>4. CASE Item \in Worded /\ Author[Item] = NoEmail
        <3>1. stages = <<"text">>
            BY <1>2, <2>4, StagesAre
        <3> HIDE DEF stages
        <3> QED
            BY <2>1, <2>4, <3>1
    <2>5. CASE Item \in Issues \ Worded /\ Author[Item] = NoEmail
        <3>1. stages = <<>>
            BY <1>2, <2>5, StagesAre
        <3> HIDE DEF stages
        <3> QED
            BY <2>1, <2>5, <3>1
    <2> QED
        BY <1>1, <2>2, <2>3, <2>4, <2>5, Kinds
<1>7. pc' \in {"item", "contact", "text"} /\ (todo' = todo \/ todo' = Tail(todo))
    BY <1>6 DEF NextItem
<1>8. Works
    <2>1. \A i \in Items : matters[i] > 0 => matters'[i] > 0
        BY <1>4, <1>5
    <2> QED
        BY <1>1, <1>3, <1>5, <1>7, <2>1 DEF Works
<1>9. TypeOK'
    BY <1>1, <1>2, <1>3, <1>5, <1>7 DEF IInv, TypeOK
<1>10. StageStands'
    BY <1>1, <1>4, <1>5, <1>6, Kinds DEF StageStands, InStages, NextItem, Item
<1>11. OneMatterPerItem'
    BY <1>1, <1>4, <1>5 DEF IInv, OneMatterPerItem
<1>12. MattersWhole'
    <2>1. PICK j \in Items : j = Item
        BY <1>2
    <2>2. (InStages' /\ Item' = j) \/ Whole(j)'
        <3>1. CASE Item \in Issues \ Worded /\ Author[Item] = NoEmail
            BY <2>1, <3>1, Kinds DEF Whole
        <3>2. CASE todo' = todo /\ pc' \in {"contact", "text"}
            BY <2>1, <3>2 DEF InStages, Item
        <3> QED
            BY <1>6, <3>1, <3>2
    <2>3. ASSUME NEW i \in Items \ {j}, matters'[i] > 0, i \notin partial'
          PROVE  Whole(i)'
        <3>1. matters[i] > 0 /\ i \notin partial /\ ~ InStages
            BY <1>1, <1>5, <2>1, <2>3 DEF InStages
        <3>2. Whole(i)
            BY <3>1, WholeMeans DEF IInv
        <3> QED
            BY <1>1, <3>2 DEF Whole
    <2>4. \A i \in Items : matters'[i] > 0 /\ i \notin partial' /\ ~ (InStages' /\ Item' = i)
                               => Whole(i)'
        <3> SUFFICES ASSUME NEW i \in Items, matters'[i] > 0, i \notin partial',
                            ~ (InStages' /\ Item' = i)
                     PROVE  Whole(i)'
            OBVIOUS
        <3>1. CASE i = j
            BY <2>2, <3>1 DEF Whole
        <3>2. CASE i # j
            BY <2>3, <3>2
        <3> QED
            BY <3>1, <3>2
    <2> QED
        BY <2>4 DEF MattersWhole, Whole, InStages
<1> QED
    BY <1>8, <1>9, <1>10, <1>11, <1>12, WorkOwes DEF IInv

LEMMA EnsureKeeps ==
    ASSUME IInv, EnsureContact
    PROVE  IInv'
<1>1. /\ pc = "contact" /\ pc' = "link" /\ todo' = todo /\ latest' = latest
      /\ contacts' = contacts \cup {Author[Item]}
      /\ UNCHANGED <<clock, touched, matters, texts, links, cursor, source,
                     failures, cut, late, partial>>
    BY DEF EnsureContact, outside, history
<1>2. Author[Item] \in Emails
    BY <1>1, ItemIsFirst, Kinds DEF IInv, StageStands, InStages
<1>3. Works
    BY <1>1, Numbers DEF Works, IInv
<1>4. TypeOK'
    BY <1>1, <1>2 DEF IInv, TypeOK
<1>5. Item' = Item
    BY <1>1 DEF Item
<1>6. StageStands' /\ OneMatterPerItem' /\ MattersWhole'
    BY <1>1, <1>5 DEF IInv, StageStands, InStages, OneMatterPerItem, MattersWhole
<1> QED
    BY <1>3, <1>4, <1>6, WorkOwes DEF IInv

(* The contact of the item is done with, by a link or by giving up on it.  *)
LEMMA ContactDoneKeeps ==
    ASSUME IInv, pc \in {"contact", "link"}, After("contact"),
           UNCHANGED <<clock, touched, matters, texts, contacts, cursor, source, latest,
                       cut, late>>,
           failures' \in 0..MaxFailures,
           links \subseteq links', links' \subseteq Items \X Emails,
           partial \subseteq partial', partial' \subseteq Items,
           <<Item, Author[Item]>> \in links' \/ Item \in partial'
    PROVE  IInv'
<1>1. /\ todo # <<>> /\ Item \in Items /\ Author[Item] # NoEmail
      /\ \/ Item \in Worded /\ pc' = "text" /\ todo' = todo
         \/ Item \notin Worded /\ pc' = "item" /\ todo' = Tail(todo)
    BY AfterContact DEF NextItem
<1>2. matters[Item] = 1 /\ texts[Item] = IF Item \in Messages THEN 1 ELSE 0
    BY DEF IInv, StageStands, InStages
<1>3. todo' \in Seq(Items)
    BY <1>1, ItemIsFirst DEF IInv, TypeOK
<1>4. Works
    BY <1>1, <1>2, Numbers DEF Works, IInv
<1>5. TypeOK'
    BY <1>1, <1>3 DEF IInv, TypeOK
<1>6. StageStands'
    BY <1>1, <1>2, Kinds DEF StageStands, InStages, Item
<1>7. OneMatterPerItem'
    BY DEF IInv, OneMatterPerItem
<1>8. MattersWhole'
    <2>1. matters'[Item] > 0 /\ Item \notin partial'
              => (InStages' /\ Item' = Item) \/
                 /\ Item \in Humans \cup Worded => texts'[Item] = 1
                 /\ Author[Item] # NoEmail => <<Item, Author[Item]>> \in links'
        BY <1>1, <1>2, Kinds DEF InStages, Item
    <2>2. PICK j \in Items : j = Item
        BY <1>1
    <2>3. matters'[j] > 0 /\ j \notin partial' /\ ~ (InStages' /\ Item' = j) => Whole(j)'
        BY <2>1, <2>2 DEF Whole
    <2> QED
        BY <2>2, <2>3, OthersWhole
<1> QED
    BY <1>4, <1>5, <1>6, <1>7, <1>8, WorkOwes DEF IInv

LEMMA LinkKeeps ==
    ASSUME IInv, LinkContact
    PROVE  IInv'
<1>1. Item \in Items /\ Author[Item] \in Emails
    BY ItemIsFirst, Kinds DEF LinkContact, IInv, StageStands, InStages
<1>2. links' = links \cup {<<Item, Author[Item]>>}
    BY DEF LinkContact
<1>3. links' \subseteq Items \X Emails
    BY <1>1, <1>2 DEF IInv, TypeOK
<1>4. /\ pc = "link" /\ After("contact") /\ failures' = failures /\ partial' = partial
      /\ UNCHANGED <<clock, touched, matters, texts, contacts, cursor, source, latest, cut, late>>
    BY DEF LinkContact, outside, history
<1>5. failures' \in 0..MaxFailures /\ partial' \subseteq Items
    BY <1>4 DEF IInv, TypeOK
<1> QED
    BY <1>2, <1>3, <1>4, <1>5, ContactDoneKeeps

(* A failure leaves the item it hits partial.                              *)
LEMMA FailEffect ==
    ASSUME IInv, Fail
    PROVE  /\ failures' \in 0..MaxFailures /\ partial \subseteq partial' /\ partial' \subseteq Items
           /\ InStages => Item \in partial'
<1>1. failures' \in 0..MaxFailures
    BY BoundsAreNumbers DEF Fail, IInv, TypeOK
<1>2. InStages => Item \in Items
    BY ItemIsFirst DEF IInv, StageStands
<1> QED
    BY <1>1, <1>2 DEF Fail, InStages, IInv, TypeOK

LEMMA SwallowedKeeps ==
    ASSUME IInv, ContactSwallowed
    PROVE  IInv'
<1>1. /\ pc \in {"contact", "link"} /\ After("contact") /\ Fail
      /\ UNCHANGED <<clock, touched, matters, texts, contacts, links, cursor, source, latest,
                     cut, late>>
    BY DEF ContactSwallowed, outside, tables
<1>2. links' \subseteq Items \X Emails
    BY <1>1 DEF IInv, TypeOK
<1>3. InStages
    BY <1>1 DEF InStages
<1>4. /\ failures' \in 0..MaxFailures /\ partial \subseteq partial' /\ partial' \subseteq Items
      /\ Item \in partial'
    BY <1>1, <1>3, FailEffect
<1> QED
    BY <1>1, <1>2, <1>4, ContactDoneKeeps

LEMMA TextKeeps ==
    ASSUME IInv, StoreText
    PROVE  IInv'
<1>1. /\ pc = "text" /\ After("text") /\ texts' = [texts EXCEPT ![Item] = @ + 1]
      /\ UNCHANGED <<clock, touched, matters, contacts, links, cursor, source, latest,
                     failures, cut, late, partial>>
    BY DEF StoreText, outside, history
<1>2. /\ todo # <<>> /\ Item \in Items
      /\ \/ Item \in Messages /\ Author[Item] # NoEmail /\ pc' = "contact" /\ todo' = todo
         \/ (Item \in Issues \/ Author[Item] = NoEmail) /\ pc' = "item" /\ todo' = Tail(todo)
    BY <1>1, AfterText DEF NextItem
<1>3. /\ matters[Item] = 1 /\ texts[Item] = 0
      /\ Item \in Issues /\ Author[Item] # NoEmail =>
            <<Item, Author[Item]>> \in links \/ Item \in partial
    BY <1>1 DEF IInv, StageStands, InStages
<1>4. /\ texts' \in [Items -> Nat] /\ texts'[Item] = 1
      /\ \A i \in Items \ {Item} : texts'[i] = texts[i]
    BY <1>1, <1>2, <1>3 DEF IInv, TypeOK
<1>5. todo' \in Seq(Items)
    BY <1>2, ItemIsFirst DEF IInv, TypeOK
<1>6. Works
    BY <1>1, <1>2, <1>3, Numbers DEF Works, IInv
<1>7. TypeOK'
    BY <1>1, <1>2, <1>4, <1>5 DEF IInv, TypeOK
<1>8. StageStands'
    BY <1>1, <1>2, <1>3, <1>4 DEF StageStands, InStages, Item
<1>9. OneMatterPerItem'
    BY <1>1, <1>3, <1>4 DEF IInv, OneMatterPerItem
<1>10. MattersWhole'
    <2>1. matters'[Item] > 0 /\ Item \notin partial'
              => (InStages' /\ Item' = Item) \/
                 /\ Item \in Humans \cup Worded => texts'[Item] = 1
                 /\ Author[Item] # NoEmail => <<Item, Author[Item]>> \in links'
        BY <1>1, <1>2, <1>3, <1>4 DEF InStages, Item
    <2>2. PICK j \in Items : j = Item
        BY <1>2
    <2>3. matters'[j] > 0 /\ j \notin partial' /\ ~ (InStages' /\ Item' = j) => Whole(j)'
        BY <2>1, <2>2 DEF Whole
    <2> QED
        BY <1>1, <1>4, <2>2, <2>3, OthersWhole
<1> QED
    BY <1>6, <1>7, <1>8, <1>9, <1>10, WorkOwes DEF IInv
-----------------------------------------------------------------------------
(* The beginning and the end of a handler.                                 *)

(* A query gives what it matches to the batch or to the cut; what it does  *)
(* not match was owed before.                                              *)
LEMMA ReadKeeps ==
    ASSUME IInv, Read
    PROVE  IInv'
<1>1. /\ pc = "read" /\ pc' = "item" /\ todo' \in Answers(source)
      /\ cut' = (cut \ Matching(source)) \cup (Matching(source) \ Newest(source))
      /\ latest' = IF source = "slack" THEN cursor.slack ELSE 0
      /\ UNCHANGED <<clock, touched, matters, texts, contacts, links, cursor, source,
                     failures, late, partial>>
    BY DEF Read, outside, tables
<1>2. source \in Sources /\ (source = "jira" \/ source = "slack")
    BY DEF IInv, TypeOK, Sources
<1>3. /\ todo' \in Seq(Items)
      /\ \A k \in DOMAIN todo' : todo'[k] \in Newest(source)
      /\ \A i \in Newest(source) : Listed(i)'
    BY <1>1, <1>2, AnswerHasNewest DEF IInv, Listed
<1>4. /\ cursor["slack"] \in Times /\ cursor["jira"] \in Times /\ cursor["slack"] <= clock
      /\ cursor["slack"] \in Nat /\ cursor["jira"] \in Nat /\ clock \in Nat /\ 0 \in Times
    BY BoundsAreNumbers DEF IInv, TypeOK, NothingAhead, Sources, Times
<1>5. /\ Newest(source) \subseteq Matching(source) /\ Matching(source) \subseteq Items
      /\ \A i \in Matching(source) :
            touched[i] # 0 /\ i \in IF source = "jira" THEN Issues ELSE Messages
    <2>1. \A i \in Items : touched[i] \in Nat
        BY Numbers DEF IInv
    <2>2. Newest(source) \subseteq Matching(source)
        BY DEF Newest
    <2>3. CASE source = "jira"
        BY <2>2, <2>3, Kinds DEF Matching
    <2>4. CASE source = "slack"
        <3>1. Matching(source) = {m \in Messages : touched[m] > cursor["slack"]}
            BY <2>4 DEF Matching
        <3>2. \A m \in Matching(source) : m \in Items /\ m \in Messages /\ touched[m] # 0
            BY <1>4, <2>1, <3>1, Kinds
        <3> QED
            BY <2>2, <2>4, <3>2
    <2> QED
        BY <1>2, <2>3, <2>4
<1>6. TypeOK'
    <2>1. cut' \subseteq Items
        BY <1>1, <1>5 DEF IInv, TypeOK
    <2>2. latest' \in Times
        BY <1>1, <1>4
    <2> QED
        BY <1>1, <1>3, <2>1, <2>2 DEF IInv, TypeOK
<1>7. NothingAhead'
    BY <1>1, <1>4 DEF IInv, NothingAhead
<1>8. StageStands' /\ OneMatterPerItem' /\ MattersWhole'
    BY <1>1 DEF IInv, StageStands, InStages, OneMatterPerItem, MattersWhole
<1>9. BatchStands'
    BY <1>1, <1>3, <1>5 DEF BatchStands
<1>10. JiraOwes'
    <2> SUFFICES ASSUME source = "jira", NEW i \in Issues, touched[i] # 0
                 PROVE  matters[i] > 0 \/ i \in cut' \cup late \/ Listed(i)'
        BY <1>1 DEF JiraOwes, Listed
    <2>1. CASE i \in Matching(source)
        BY <1>1, <1>3, <2>1
    <2>2. CASE i \notin Matching(source)
        <3>1. touched[i] \in Nat /\ ~ (touched[i] >= cursor["jira"])
            BY <2>2, Kinds, Numbers DEF Matching, IInv
        <3>2. touched[i] < cursor["jira"]
            BY <1>4, <3>1
        <3>3. matters[i] > 0 \/ i \in cut \cup late
            BY <3>2 DEF IInv, NothingPassedOver
        <3> QED
            BY <1>1, <2>2, <3>3
    <2> QED
        BY <2>1, <2>2
<1>11. SlackOwes'
    <2> SUFFICES ASSUME source = "slack", NEW m \in Humans, touched[m] # 0
                 PROVE  matters[m] > 0 \/ m \in cut' \/ Listed(m)'
        BY <1>1 DEF SlackOwes, Listed
    <2>1. CASE m \in Matching(source)
        BY <1>1, <1>3, <2>1
    <2>2. CASE m \notin Matching(source)
        <3>1. m \in Messages /\ m \in Items
            BY Kinds
        <3>2. touched[m] \in Nat /\ ~ (touched[m] > cursor["slack"])
            BY <2>2, <3>1, Numbers DEF Matching, IInv
        <3>3. touched[m] <= cursor["slack"]
            BY <1>4, <3>2
        <3>4. matters[m] > 0 \/ m \in cut
            BY <3>3 DEF IInv, NothingPassedOver
        <3> QED
            BY <1>1, <2>2, <3>4
    <2> QED
        BY <2>1, <2>2
<1>12. NothingPassedOver'
    <2>1. ASSUME NEW i \in Issues, touched[i] # 0, touched[i] < cursor["jira"]
          PROVE  matters[i] > 0 \/ i \in cut' \cup late
        <3>1. matters[i] > 0 \/ i \in cut \cup late
            BY <2>1 DEF IInv, NothingPassedOver
        <3>2. i \notin Matching(source)
            <4>1. CASE source = "jira"
                <5>1. touched[i] \in Nat /\ ~ (touched[i] >= cursor["jira"])
                    BY <1>4, <2>1, Kinds, Numbers DEF IInv
                <5> QED
                    BY <4>1, <5>1 DEF Matching
            <4>2. CASE source = "slack"
                BY <1>5, <4>2, Kinds
            <4> QED
                BY <1>2, <4>1, <4>2
        <3> QED
            BY <1>1, <3>1, <3>2
    <2>2. ASSUME NEW m \in Humans, touched[m] # 0, touched[m] <= cursor["slack"]
          PROVE  matters[m] > 0 \/ m \in cut'
        <3>1. matters[m] > 0 \/ m \in cut
            BY <2>2 DEF IInv, NothingPassedOver
        <3>2. m \notin Matching(source)
            <4>1. CASE source = "slack"
                <5>1. m \in Items /\ touched[m] \in Nat /\ ~ (touched[m] > cursor["slack"])
                    BY <1>4, <2>2, Kinds, Numbers DEF IInv
                <5> QED
                    BY <4>1, <5>1 DEF Matching
            <4>2. CASE source = "jira"
                BY <1>5, <4>2, Kinds
            <4> QED
                BY <1>2, <4>1, <4>2
        <3> QED
            BY <1>1, <3>1, <3>2
    <2> QED
        BY <1>1, <2>1, <2>2 DEF NothingPassedOver
<1> QED
    BY <1>6, <1>7, <1>8, <1>9, <1>10, <1>11, <1>12 DEF IInv

(* A handler that is left, wherever it is, with its cursor as it was.      *)
LEMMA LeftKeeps ==
    ASSUME IInv, pc' = "read", todo' = <<>>, latest' = 0, source' \in Sources,
           UNCHANGED <<clock, touched, matters, texts, contacts, links, cursor, cut, late>>,
           Fail
    PROVE  IInv'
<1>1. /\ failures' \in 0..MaxFailures /\ partial \subseteq partial' /\ partial' \subseteq Items
      /\ InStages => Item \in partial'
    BY FailEffect
<1>2. todo' \in Seq(Items) /\ DOMAIN todo' = {} /\ latest' \in Times
    BY BoundsAreNumbers DEF Times
<1>3. TypeOK'
    BY <1>1, <1>2 DEF IInv, TypeOK
<1>4. NothingAhead'
    BY Numbers, BoundsAreNumbers DEF IInv, NothingAhead, TypeOK, Times
<1>5. StageStands' /\ BatchStands' /\ OneMatterPerItem' /\ JiraOwes' /\ SlackOwes'
    BY <1>2 DEF IInv, StageStands, BatchStands, InStages, OneMatterPerItem, JiraOwes, SlackOwes
<1>6. MattersWhole'
    <2> SUFFICES ASSUME NEW i \in Items, matters[i] > 0, i \notin partial'
                 PROVE  Whole(i)'
        BY DEF MattersWhole, Whole
    <2>1. i \notin partial /\ ~ (InStages /\ Item = i)
        BY <1>1
    <2>2. Whole(i)
        BY <2>1, WholeMeans DEF IInv
    <2> QED
        BY <2>2 DEF Whole
<1>7. NothingPassedOver'
    BY DEF IInv, NothingPassedOver
<1> QED
    BY <1>3, <1>4, <1>5, <1>6, <1>7 DEF IInv

LEMMA RaisesKeeps ==
    ASSUME IInv, HandlerRaises
    PROVE  IInv'
BY LeftKeeps DEF HandlerRaises, NextHandler, Sources, outside, tables

LEMMA CrashKeeps ==
    ASSUME IInv, Crash
    PROVE  IInv'
BY LeftKeeps DEF Crash, Sources, outside, tables

(* A batch that is worked off leaves nothing owed up to the new cursor.    *)
LEMMA SetCursorKeeps ==
    ASSUME IInv, SetCursor
    PROVE  IInv'
<1>1. /\ pc = "item" /\ todo = <<>> /\ pc' = "read" /\ todo' = <<>> /\ latest' = 0
      /\ cursor' = [cursor EXCEPT ![source] = IF source = "jira" THEN clock ELSE latest]
      /\ source' \in Sources
      /\ UNCHANGED <<clock, touched, matters, texts, contacts, links, failures, cut, late, partial>>
    BY DEF SetCursor, NextHandler, Sources, outside, history
<1>2. source \in Sources /\ (source = "jira" \/ source = "slack")
    BY DEF IInv, TypeOK, Sources
<1>3. latest \in Times /\ latest \in Nat /\ latest <= clock /\ clock \in Nat /\ clock \in Times
    BY Numbers DEF IInv, NothingAhead, TypeOK
<1>4. cursor \in [Sources -> Times] /\ "jira" \in Sources /\ "slack" \in Sources
    BY DEF IInv, TypeOK, Sources
<1>5. /\ cursor' \in [Sources -> Times]
      /\ \A s \in Sources : cursor'[s] <= clock
      /\ source = "jira" => cursor'["jira"] = clock /\ cursor'["slack"] = cursor["slack"]
      /\ source = "slack" => cursor'["jira"] = cursor["jira"] /\ cursor'["slack"] = latest
    <2>1. \A s \in Sources : cursor[s] <= clock
        BY DEF IInv, NothingAhead
    <2>2. clock <= clock
        BY <1>3
    <2> QED
        BY <1>1, <1>2, <1>3, <1>4, <2>1, <2>2
<1>6. DOMAIN todo = {} /\ DOMAIN todo' = {} /\ todo' \in Seq(Items) /\ latest' \in Times
    BY <1>1, BoundsAreNumbers DEF Times
<1>7. TypeOK'
    BY <1>1, <1>5, <1>6 DEF IInv, TypeOK
<1>8. NothingAhead'
    BY <1>1, <1>3, <1>5 DEF IInv, NothingAhead
<1>9. StageStands' /\ BatchStands' /\ OneMatterPerItem' /\ JiraOwes' /\ SlackOwes' /\ MattersWhole'
    BY <1>1, <1>6 DEF IInv, StageStands, BatchStands, InStages, OneMatterPerItem, JiraOwes,
                      SlackOwes, MattersWhole
<1>10. NothingPassedOver'
    <2>1. ASSUME NEW i \in Issues, touched[i] # 0, touched[i] < cursor'["jira"]
          PROVE  matters[i] > 0 \/ i \in cut \cup late
        <3>1. CASE source = "jira"
            BY <1>1, <1>6, <2>1, <3>1 DEF IInv, JiraOwes, Listed
        <3>2. CASE source = "slack"
            BY <1>5, <2>1, <3>2 DEF IInv, NothingPassedOver
        <3> QED
            BY <1>2, <3>1, <3>2
    <2>2. ASSUME NEW m \in Humans, touched[m] # 0, touched[m] <= cursor'["slack"]
          PROVE  matters[m] > 0 \/ m \in cut
        <3>1. CASE source = "slack"
            <4>1. touched[m] \in Nat
                BY Kinds, Numbers DEF IInv
            <4>2. ~ (touched[m] > latest)
                BY <1>3, <1>5, <2>2, <3>1, <4>1
            <4>3. ~ PostedSince(m) /\ ~ Listed(m)
                BY <1>6, <4>2 DEF PostedSince, Listed
            <4> QED
                BY <1>1, <2>2, <3>1, <4>3 DEF IInv, SlackOwes
        <3>2. CASE source = "jira"
            BY <1>5, <2>2, <3>2 DEF IInv, NothingPassedOver
        <3> QED
            BY <1>2, <3>1, <3>2
    <2> QED
        BY <1>1, <2>1, <2>2 DEF NothingPassedOver
<1> QED
    BY <1>7, <1>8, <1>9, <1>10 DEF IInv
-----------------------------------------------------------------------------
(* Jira, Slack and time.                                                   *)

LEMMA ElapseEffect ==
    ASSUME IInv, Elapse
    PROVE  /\ clock' \in Times /\ clock' \in Nat /\ clock' = clock + 1 /\ clock \in Nat
           /\ \A i \in Items : touched[i] \in Nat /\ touched[i] < clock'
           /\ \A s \in Sources : cursor[s] \in Nat /\ cursor[s] < clock'
           /\ latest \in Nat /\ latest < clock'
<1>1. clock \in Nat /\ latest \in Nat /\ \A i \in Items : touched[i] \in Nat
    BY Numbers DEF IInv
<1>2. \A s \in Sources : cursor[s] \in Nat
    BY BoundsAreNumbers DEF IInv, TypeOK, Times
<1>3. clock' \in Times /\ clock' = clock + 1
    BY <1>1, BoundsAreNumbers DEF Elapse, Times
<1> QED
    BY <1>1, <1>2, <1>3 DEF IInv, NothingAhead

LEMMA TickKeeps ==
    ASSUME IInv, Tick
    PROVE  IInv'
<1>1. /\ Elapse
      /\ UNCHANGED <<touched, matters, texts, contacts, links, cursor, source, pc, todo, latest,
                     failures, cut, late, partial>>
    BY DEF Tick, tables, handler, history
<1>2. TypeOK' /\ NothingAhead'
    <2>1. /\ clock' \in Times /\ clock' \in Nat
          /\ \A i \in Items : touched[i] \in Nat /\ touched[i] < clock'
          /\ \A s \in Sources : cursor[s] \in Nat /\ cursor[s] < clock'
          /\ latest \in Nat /\ latest < clock'
        BY <1>1, ElapseEffect
    <2>2. TypeOK'
        BY <1>1, <2>1 DEF IInv, TypeOK
    <2>3. /\ \A i \in Items : touched[i] <= clock'
          /\ \A s \in Sources : cursor[s] <= clock'
          /\ latest <= clock'
        BY <2>1
    <2> QED
        BY <1>1, <2>2, <2>3 DEF NothingAhead
<1>3. StageStands' /\ BatchStands' /\ OneMatterPerItem' /\ MattersWhole'
    BY <1>1 DEF IInv, StageStands, BatchStands, InStages, OneMatterPerItem, MattersWhole, Item
<1>4. JiraOwes' /\ SlackOwes' /\ NothingPassedOver'
    BY <1>1 DEF IInv, JiraOwes, SlackOwes, NothingPassedOver, Listed, PostedSince
<1> QED
    BY <1>2, <1>3, <1>4 DEF IInv

(* An update of an issue moves it past the cursor, or makes it late.       *)
LEMMA UpdateKeeps ==
    ASSUME IInv, NEW i \in Issues, UpdateIssue(i)
    PROVE  IInv'
<1>1. /\ Elapse
      /\ touched' = [touched EXCEPT ![i] = clock']
      /\ cut' = cut \ {i}
      /\ late' = IF source = "jira" /\ pc # "read" THEN late \cup {i} ELSE late \ {i}
      /\ UNCHANGED <<matters, texts, contacts, links, cursor, source, pc, todo, latest,
                     failures, partial>>
    BY DEF UpdateIssue, tables, handler
<1>2. /\ clock' \in Times /\ clock' \in Nat /\ clock' = clock + 1 /\ clock \in Nat
      /\ \A j \in Items : touched[j] \in Nat /\ touched[j] < clock'
      /\ \A s \in Sources : cursor[s] \in Nat /\ cursor[s] < clock'
      /\ latest \in Nat /\ latest < clock'
    BY <1>1, ElapseEffect
<1>3. /\ touched' \in [Items -> Times] /\ touched'[i] = clock'
      /\ \A j \in Items \ {i} : touched'[j] = touched[j]
    BY <1>1, <1>2, Kinds DEF IInv, TypeOK
<1>4. TypeOK'
    BY <1>1, <1>2, <1>3 DEF IInv, TypeOK
<1>5. NothingAhead'
    <2>1. \A j \in Items : touched'[j] <= clock'
        BY <1>2, <1>3
    <2>2. \A s \in Sources : cursor[s] <= clock'
        BY <1>2
    <2> QED
        BY <1>1, <1>2, <2>1, <2>2 DEF NothingAhead
<1>6. StageStands' /\ OneMatterPerItem' /\ MattersWhole'
    BY <1>1 DEF IInv, StageStands, InStages, OneMatterPerItem, MattersWhole, Item
<1>7. BatchStands'
    <2> SUFFICES ASSUME NEW k \in DOMAIN todo
                 PROVE  touched'[todo[k]] # 0
        BY <1>1 DEF IInv, BatchStands
    <2>1. touched[todo[k]] # 0 /\ todo[k] \in Items
        BY Kinds DEF IInv, BatchStands
    <2>2. CASE todo[k] = i
        BY <1>2, <1>3, <2>2
    <2>3. CASE todo[k] # i
        BY <1>3, <2>1, <2>3
    <2> QED
        BY <2>2, <2>3
<1>8. JiraOwes'
    <2> SUFFICES ASSUME source = "jira", pc # "read", NEW j \in Issues, touched'[j] # 0
                 PROVE  matters[j] > 0 \/ j \in cut' \cup late' \/ Listed(j)
        BY <1>1 DEF JiraOwes, Listed
    <2>1. CASE j = i
        BY <1>1, <2>1
    <2>2. CASE j # i
        <3>1. touched[j] # 0
            BY <1>3, <2>2, Kinds
        <3>2. matters[j] > 0 \/ j \in cut \cup late \/ Listed(j)
            BY <3>1 DEF IInv, JiraOwes
        <3> QED
            BY <1>1, <2>2, <3>2
    <2> QED
        BY <2>1, <2>2
<1>9. SlackOwes'
    <2> SUFFICES ASSUME source = "slack", pc # "read", NEW m \in Humans, touched'[m] # 0
                 PROVE  \/ matters[m] > 0 \/ m \in cut' \/ Listed(m)
                        \/ /\ touched'[m] > latest
                           /\ \A k \in DOMAIN todo : touched'[m] > touched'[todo[k]]
        BY <1>1 DEF SlackOwes, Listed, PostedSince
    <2>1. m # i /\ m \in Items
        BY Kinds
    <2>2. touched'[m] = touched[m]
        BY <1>3, <2>1
    <2>3. matters[m] > 0 \/ m \in cut \/ Listed(m) \/ PostedSince(m)
        BY <2>2 DEF IInv, SlackOwes
    <2>4. \A k \in DOMAIN todo : todo[k] \in Messages
        BY DEF IInv, BatchStands
    <2>5. \A k \in DOMAIN todo : touched'[todo[k]] = touched[todo[k]]
        BY <1>3, <2>4, Kinds
    <2> QED
        BY <1>1, <2>1, <2>2, <2>3, <2>5 DEF PostedSince
<1>10. NothingPassedOver'
    <2>1. ASSUME NEW j \in Issues, touched'[j] # 0, touched'[j] < cursor["jira"]
          PROVE  matters[j] > 0 \/ j \in cut' \cup late'
        <3>1. j # i
            BY <1>2, <1>3, <2>1 DEF Sources
        <3>2. touched'[j] = touched[j]
            BY <1>3, <3>1, Kinds
        <3>3. matters[j] > 0 \/ j \in cut \cup late
            BY <2>1, <3>2 DEF IInv, NothingPassedOver
        <3> QED
            BY <1>1, <3>1, <3>3
    <2>2. ASSUME NEW m \in Humans, touched'[m] # 0, touched'[m] <= cursor["slack"]
          PROVE  matters[m] > 0 \/ m \in cut'
        <3>1. m # i /\ m \in Items
            BY Kinds
        <3>2. touched'[m] = touched[m]
            BY <1>3, <3>1
        <3>3. matters[m] > 0 \/ m \in cut
            BY <2>2, <3>2 DEF IInv, NothingPassedOver
        <3> QED
            BY <1>1, <3>1, <3>3
    <2> QED
        BY <1>1, <2>1, <2>2 DEF NothingPassedOver
<1> QED
    BY <1>4, <1>5, <1>6, <1>7, <1>8, <1>9, <1>10 DEF IInv

(* A message that is posted is newer than whatever a handler has seen.     *)
LEMMA PostKeeps ==
    ASSUME IInv, NEW p \in Messages, PostMessage(p)
    PROVE  IInv'
<1>1. /\ Elapse /\ touched[p] = 0
      /\ touched' = [touched EXCEPT ![p] = clock']
      /\ UNCHANGED <<matters, texts, contacts, links, cursor, source, pc, todo, latest,
                     failures, cut, late, partial>>
    BY DEF PostMessage, tables, handler, history
<1>2. /\ clock' \in Times /\ clock' \in Nat /\ clock' = clock + 1 /\ clock \in Nat
      /\ \A j \in Items : touched[j] \in Nat /\ touched[j] < clock'
      /\ \A s \in Sources : cursor[s] \in Nat /\ cursor[s] < clock'
      /\ latest \in Nat /\ latest < clock'
    BY <1>1, ElapseEffect
<1>3. /\ touched' \in [Items -> Times] /\ touched'[p] = clock'
      /\ \A j \in Items \ {p} : touched'[j] = touched[j]
    BY <1>1, <1>2, Kinds DEF IInv, TypeOK
<1>4. TypeOK'
    BY <1>1, <1>2, <1>3 DEF IInv, TypeOK
<1>5. NothingAhead'
    <2>1. \A j \in Items : touched'[j] <= clock'
        BY <1>2, <1>3
    <2>2. \A s \in Sources : cursor[s] <= clock'
        BY <1>2
    <2> QED
        BY <1>1, <1>2, <2>1, <2>2 DEF NothingAhead
<1>6. StageStands' /\ OneMatterPerItem' /\ MattersWhole'
    BY <1>1 DEF IInv, StageStands, InStages, OneMatterPerItem, MattersWhole, Item
<1>7. \A k \in DOMAIN todo : /\ todo[k] \in Items /\ todo[k] # p /\ touched[todo[k]] # 0
                             /\ touched'[todo[k]] = touched[todo[k]]
    BY <1>1, <1>3, Kinds DEF IInv, BatchStands
<1>8. BatchStands'
    BY <1>1, <1>7 DEF IInv, BatchStands
<1>9. JiraOwes'
    <2> SUFFICES ASSUME source = "jira", pc # "read", NEW j \in Issues, touched'[j] # 0
                 PROVE  matters[j] > 0 \/ j \in cut \cup late \/ Listed(j)
        BY <1>1 DEF JiraOwes, Listed
    <2>1. j # p /\ j \in Items
        BY Kinds
    <2>2. touched[j] # 0
        BY <1>3, <2>1
    <2> QED
        BY <2>2 DEF IInv, JiraOwes
<1>10. SlackOwes'
    <2> SUFFICES ASSUME source = "slack", pc # "read", NEW m \in Humans, touched'[m] # 0
                 PROVE  \/ matters[m] > 0 \/ m \in cut \/ Listed(m)
                        \/ /\ touched'[m] > latest
                           /\ \A k \in DOMAIN todo : touched'[m] > touched'[todo[k]]
        BY <1>1 DEF SlackOwes, Listed, PostedSince
    <2>1. CASE m = p
        <3>1. touched'[m] > latest
            BY <1>2, <1>3, <2>1
        <3>2. \A k \in DOMAIN todo : touched'[m] > touched[todo[k]]
            BY <1>2, <1>3, <1>7, <2>1
        <3> QED
            BY <1>7, <3>1, <3>2
    <2>2. CASE m # p
        <3>1. touched'[m] = touched[m]
            BY <1>3, <2>2, Kinds
        <3>2. matters[m] > 0 \/ m \in cut \/ Listed(m) \/ PostedSince(m)
            BY <3>1 DEF IInv, SlackOwes
        <3> QED
            BY <1>7, <3>1, <3>2 DEF PostedSince
    <2> QED
        BY <2>1, <2>2
<1>11. NothingPassedOver'
    <2>1. ASSUME NEW j \in Issues, touched'[j] # 0, touched'[j] < cursor["jira"]
          PROVE  matters[j] > 0 \/ j \in cut \cup late
        <3>1. touched'[j] = touched[j]
            BY <1>3, Kinds
        <3> QED
            BY <2>1, <3>1 DEF IInv, NothingPassedOver
    <2>2. ASSUME NEW m \in Humans, touched'[m] # 0, touched'[m] <= cursor["slack"]
          PROVE  matters[m] > 0 \/ m \in cut
        <3>1. m # p
            BY <1>2, <1>3, <2>2 DEF Sources
        <3>2. touched'[m] = touched[m]
            BY <1>3, <3>1, Kinds
        <3> QED
            BY <2>2, <3>2 DEF IInv, NothingPassedOver
    <2> QED
        BY <1>1, <2>1, <2>2 DEF NothingPassedOver
<1> QED
    BY <1>4, <1>5, <1>6, <1>8, <1>9, <1>10, <1>11 DEF IInv
-----------------------------------------------------------------------------
LEMMA Initially == Init => IInv
<1> SUFFICES ASSUME Init PROVE IInv
    OBVIOUS
<1>1. /\ clock = 0 /\ touched = [i \in Items |-> 0] /\ matters = [i \in Items |-> 0]
      /\ texts = [i \in Items |-> 0] /\ contacts = {} /\ links = {}
      /\ cursor = [s \in Sources |-> 0] /\ source = "jira" /\ pc = "read" /\ todo = <<>>
      /\ latest = 0 /\ failures = 0 /\ cut = {} /\ late = {} /\ partial = {}
    BY DEF Init
<1>2. 0 \in Times /\ 0 \in 0..MaxFailures
    BY BoundsAreNumbers DEF Times
<1>3. TypeOK
    <2>1. /\ touched \in [Items -> Times] /\ matters \in [Items -> Nat]
          /\ texts \in [Items -> Nat] /\ cursor \in [Sources -> Times]
        BY <1>1, <1>2
    <2>2. todo \in Seq(Items) /\ source \in Sources
        BY <1>1 DEF Sources
    <2> QED
        BY <1>1, <1>2, <2>1, <2>2 DEF TypeOK
<1>4. /\ \A i \in Items : touched[i] = 0 /\ matters[i] = 0 /\ texts[i] = 0
      /\ \A s \in Sources : cursor[s] = 0
      /\ DOMAIN todo = {}
    BY <1>1
<1>5. NothingAhead /\ OneMatterPerItem
    BY <1>1, <1>4 DEF NothingAhead, OneMatterPerItem
<1>6. StageStands /\ BatchStands /\ JiraOwes /\ SlackOwes
    BY <1>1, <1>4 DEF StageStands, InStages, BatchStands, JiraOwes, SlackOwes
<1>7. MattersWhole /\ NothingPassedOver
    BY <1>4, Kinds DEF MattersWhole, NothingPassedOver
<1> QED
    BY <1>3, <1>5, <1>6, <1>7 DEF IInv

LEMMA StutterKeeps ==
    ASSUME IInv, UNCHANGED vars
    PROVE  IInv'
<1>1. UNCHANGED <<clock, touched, matters, texts, contacts, links, cursor, source, pc, todo,
                  latest, failures, cut, late, partial>>
    BY DEF vars, outside, tables, handler, history
<1>2. TypeOK' /\ NothingAhead' /\ StageStands' /\ BatchStands'
    BY <1>1 DEF IInv, TypeOK, NothingAhead, StageStands, InStages, BatchStands, Item
<1>3. OneMatterPerItem' /\ MattersWhole' /\ NothingPassedOver'
    BY <1>1 DEF IInv, OneMatterPerItem, MattersWhole, NothingPassedOver, Item
<1>4. JiraOwes' /\ SlackOwes'
    BY <1>1 DEF IInv, JiraOwes, SlackOwes, Listed, PostedSince
<1> QED
    BY <1>2, <1>3, <1>4 DEF IInv

LEMMA StepKeeps == IInv /\ [Next]_vars => IInv'
<1> SUFFICES ASSUME IInv, [Next]_vars PROVE IInv'
    OBVIOUS
<1>1. CASE Tick
    BY <1>1, TickKeeps
<1>2. ASSUME NEW i \in Issues, UpdateIssue(i) PROVE IInv'
    BY <1>2, UpdateKeeps
<1>3. ASSUME NEW m \in Messages, PostMessage(m) PROVE IInv'
    BY <1>3, PostKeeps
<1>4. CASE Read
    BY <1>4, ReadKeeps
<1>5. CASE SkipItem
    BY <1>5, SkipKeeps
<1>6. CASE CreateMatter
    BY <1>6, CreateKeeps
<1>7. CASE EnsureContact
    BY <1>7, EnsureKeeps
<1>8. CASE LinkContact
    BY <1>8, LinkKeeps
<1>9. CASE StoreText
    BY <1>9, TextKeeps
<1>10. CASE SetCursor
    BY <1>10, SetCursorKeeps
<1>11. CASE ContactSwallowed
    BY <1>11, SwallowedKeeps
<1>12. CASE HandlerRaises
    BY <1>12, RaisesKeeps
<1>13. CASE Crash
    BY <1>13, CrashKeeps
<1>14. CASE UNCHANGED vars
    BY <1>14, StutterKeeps
<1> QED
    BY <1>1, <1>2, <1>3, <1>4, <1>5, <1>6, <1>7, <1>8, <1>9, <1>10, <1>11, <1>12, <1>13, <1>14
       DEF Next, Poll

(* What every reachable state satisfies.                                   *)
THEOREM Invariance == Spec => []IInv
<1>1. Init => IInv
    BY Initially
<1>2. IInv /\ [Next]_vars => IInv'
    BY StepKeeps
<1> QED
    BY <1>1, <1>2, PTL DEF Spec

(* A contact that is stored or linked has an email, and every batch is one *)
(* of items (handle_jira_intake, handle_slack_intake, _ensure_contact).    *)
THEOREM TypeCorrect == Spec => []TypeOK
<1>1. IInv => TypeOK
    BY DEF IInv
<1> QED
    BY <1>1, Invariance, PTL

(* However polls, failures, crashes and new items interleave, an item has  *)
(* one matter at most, a whole one unless its handling was cut short, and  *)
(* no item is passed over but for the limit of a query or an update during *)
(* a Jira poll.                                                            *)
THEOREM ItemsAlwaysAccounted == Spec => []ItemsAccounted
<1>1. IInv => ItemsAccounted
    BY DEF IInv, ItemsAccounted
<1> QED
    BY <1>1, Invariance, PTL
=============================================================================
