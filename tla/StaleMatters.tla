---------------------------- MODULE StaleMatters -----------------------------
(***************************************************************************)
(* Stale matters: detect_stale_matters (matteros/automation/stale.py),     *)
(* called by one automation engine, beside the web application that works  *)
(* on the same matters.                                                    *)
(*                                                                         *)
(* A pass lists the new matters, then those in progress, and for each one  *)
(* it listed reads the activities and adds a nudge if the last is too old; *)
(* every list, read and insert is a transaction of its own.  The message   *)
(* to Slack after a nudge cannot raise and changes nothing here.           *)
(***************************************************************************)
EXTENDS Web

CONSTANTS
    Threshold,      \* days of silence after which a matter is stale, in ticks
    Limit           \* list_matters' limit

ASSUME StaleAssumption == Threshold \in Nat \ {0} /\ Limit \in Nat \ {0}

VARIABLES
    scan,           \* what the pass does next
    todo,           \* the rows it has listed and not yet looked at: [id, updated]
    now,            \* the time it started
    looked,         \* how many activities it read of the matter it nudges
    overtaken,      \* history: nudges added after something the look did not see
    unseen          \* history: nudges added to a matter with a status not told of

pass == <<scan, todo, now, looked, overtaken, unseen>>
vars == <<webVars, pass>>

Listing == [id : DOMAIN matters, updated : 0..MaxTime]

TypeOK ==
    /\ WebTypeOK
    /\ scan \in {"idle", "list", "look", "nudge"}
    /\ todo \in Seq(Listing)
    /\ now \in 0..MaxTime
    /\ looked \in Nat
    /\ overtaken \subseteq (DOMAIN matters) \X Nat
    /\ unseen \subseteq (DOMAIN matters) \X Nat

Init ==
    /\ WebInit
    /\ scan = "idle" /\ todo = <<>> /\ now = 0 /\ looked = 0
    /\ overtaken = {} /\ unseen = {}

(* list_matters(status=...): ORDER BY created_at DESC LIMIT ?              *)
Newest(status) ==
    LET found == {m \in DOMAIN matters : matters[m].status = status}
    IN  {m \in found : Cardinality({n \in found : n > m}) < Limit}

Listed(status) ==
    {[i \in DOMAIN ids |-> [id |-> ids[i], updated |-> matters[ids[i]].updated]] :
        ids \in {f \in [1..Cardinality(Newest(status)) -> Newest(status)] :
                    \A i, j \in DOMAIN f : i < j => f[i] > f[j]}}

ListNew ==
    /\ scan = "idle"
    /\ now' = clock
    /\ todo' \in Listed("new")
    /\ scan' = "list"
    /\ UNCHANGED <<webVars, looked, overtaken, unseen>>

(* Where the pass goes with the rows it still has; it ends without any.    *)
Continues(rows) ==
    /\ todo' = rows
    /\ scan' = IF rows = <<>> THEN "idle" ELSE "look"
    /\ now' = IF rows = <<>> THEN 0 ELSE now

ListInProgress ==
    /\ scan = "list"
    /\ \E rows \in Listed("in_progress") : Continues(todo \o rows)
    /\ UNCHANGED <<webVars, looked, overtaken, unseen>>

Matter1 == Head(todo).id

(* Mutation: a matter without activities was last heard of never.          *)
LastDateOfActivities ==
    IF activities[Matter1] # <<>> THEN Last(activities[Matter1]).at ELSE now - Threshold

LastDate ==
    IF activities[Matter1] # <<>> THEN Last(activities[Matter1]).at ELSE Head(todo).updated

Stale == LastDate <= now - Threshold

(* Mutation: the pass ends at the first matter that is not stale.          *)
StopAtRecent ==
    /\ scan = "look"
    /\ ~ Stale
    /\ Continues(<<>>)
    /\ UNCHANGED <<webVars, looked, overtaken, unseen>>

SkipRecent ==
    /\ scan = "look"
    /\ ~ Stale
    /\ Continues(Tail(todo))
    /\ UNCHANGED <<webVars, looked, overtaken, unseen>>

FindStale ==
    /\ scan = "look"
    /\ Stale
    /\ scan' = "nudge"
    /\ looked' = Len(activities[Matter1])
    /\ UNCHANGED <<webVars, todo, now, overtaken, unseen>>

Nudge ==
    /\ scan = "nudge"
    /\ Adds(Matter1, "nudge", Nobody, matters[Matter1].status)
    /\ LET nudge == {<<Matter1, Len(activities[Matter1]) + 1>>} IN
       /\ overtaken' = IF Len(activities[Matter1]) > looked THEN overtaken \cup nudge
                                                           ELSE overtaken
       /\ unseen' = IF Untold(Matter1) THEN unseen \cup nudge ELSE unseen
    /\ looked' = 0
    /\ Continues(Tail(todo))
    /\ UNCHANGED <<clock, matters, failures, web>>

(* A store call raises, which the engine logs, or the engine dies.         *)
PassEnds ==
    /\ Fail
    /\ scan # "idle"
    /\ Continues(<<>>)
    /\ looked' = 0
    /\ UNCHANGED <<clock, matters, activities, web, overtaken, unseen>>

Detects == ListNew \/ ListInProgress \/ SkipRecent \/ FindStale \/ Nudge

Next ==
    \/ WebNext /\ UNCHANGED pass
    \/ Detects \/ PassEnds

(* The engine polls for ever and time goes by; nobody has to do anything.  *)
Spec == Init /\ [][Next]_vars /\ WF_vars(Tick /\ UNCHANGED pass) /\ WF_vars(Detects)
-----------------------------------------------------------------------------
Active == {"new", "in_progress"}

LastHeard(m) ==
    IF activities[m] # <<>> THEN Last(activities[m]).at ELSE matters[m].updated

(* When matter m was heard of before its k-th activity: that is the one    *)
(* before, or the creation of the matter if there is none.                 *)
HeardBefore(m, k) == IF k = 1 THEN matters[m].created ELSE activities[m][k - 1].at

(* A nudge is deserved, although the pass works on old rows: what was last *)
(* heard of the matter, the last nudge or its creation included, is at     *)
(* least the threshold ago, and the matter is new or in progress when it   *)
(* is nudged.  Exceptions: somebody does something between the look and    *)
(* the nudge, and, for the status, a change of it that has no activity     *)
(* (yet), so that no look could see it.                                    *)
NudgesDeserved ==
    \A m \in DOMAIN matters : \A k \in DOMAIN activities[m] :
        activities[m][k].type = "nudge" /\ <<m, k>> \notin overtaken =>
            /\ HeardBefore(m, k) + Threshold <= activities[m][k].at
            /\ activities[m][k].status \in Active \/ <<m, k>> \in unseen

(* Newer matters of the same status fill the list.                         *)
Crowded(m) ==
    Cardinality({n \in DOMAIN matters : n > m /\ matters[n].status = matters[m].status}) >= Limit

(* An active matter that has been silent since t is heard of again, from a *)
(* person or by a nudge, unless the newest matters hide it from the pass.  *)
SilenceEnds ==
    \A m \in 1..MaxMatters, t \in 0..(MaxTime - Threshold) :
        LET Silent == /\ m \in DOMAIN matters
                      /\ matters[m].status \in Active /\ LastHeard(m) = t /\ ~ Crowded(m)
        IN  Silent ~> ~ Silent
=============================================================================
