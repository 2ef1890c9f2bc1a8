------------------------------- MODULE Learning --------------------------------
(***************************************************************************)
(* Pattern learning: PatternEngine (matteros/learning/patterns.py), the    *)
(* `matteros learn` command (cli.py), and the two places of a run that     *)
(* meet it (core/runner.py): the LLM step, which applies the stored rules  *)
(* to what the model suggests, and the approve step, which records one     *)
(* decision at a time.                                                     *)
(*                                                                         *)
(* Runs and learn commands are processes of their own.  A command reads    *)
(* the approvals of a run at once; then it looks for the row of each rule  *)
(* and writes it, in two transactions.                                     *)
(*                                                                         *)
(* A narrative is a sequence of words.  A word has at least eight letters, *)
(* so it can be a keyword and a preferred prefix; no word contains another *)
(* or begins with the same letter, so the common prefix of two narratives  *)
(* ends with a word.                                                       *)
(***************************************************************************)
EXTENDS Integers, SequencesExt

CONSTANTS
    Runs,
    Learners,       \* learn commands; each is given once
    Matters,
    UNASSIGNED,     \* the matter_id of a suggestion without a matter
    Durations,      \* minutes a suggestion may have
    Narratives,     \* what the model, or a reviewer who edits, writes
    MaxItems        \* bound on the suggestions of a run

ASSUME SuggestionsAssumption ==
    /\ UNASSIGNED \notin Matters
    /\ Durations \subseteq Nat \ {0}
    /\ MaxItems \in Nat

Nothing == [matter |-> UNASSIGNED, duration |-> 0, narrative |-> <<>>]

Entries ==
    [matter : Matters \cup {UNASSIGNED}, duration : Durations, narrative : Narratives]

VARIABLES
    stage,      \* per run: before its LLM step, under review, or over
    shown,      \* per run: the suggestions still to be reviewed
    approvals,  \* the approvals table
    patterns,   \* the patterns table, in the order of insertion
    given,      \* the learn commands given so far
    queue,      \* per learner: the runs it still has to learn from
    rules,      \* per learner: the rules of the present run not stored yet
    found,      \* per learner: the rule it is storing, with the row it found
    together    \* history: two learners were at work at once

learners == <<given, queue, rules, found>>
learningVars == <<stage, shown, approvals, patterns, learners, together>>

Types == {"matter_assignment", "narrative_preference", "rejection_rule"}

NoRow == 0
NoRule == [type |-> "none", matter |-> UNASSIGNED, text |-> <<>>, longest |-> 0, count |-> 0]
Idle == [rule |-> NoRule, row |-> NoRow]

Words == UNION {{n[i] : i \in DOMAIN n} : n \in Narratives}
Text == Seq(Words)

ASSUME NarrativesAssumption == Narratives \subseteq Text \ {<<>>}

AnyEntry == [matter : Matters \cup {UNASSIGNED}, duration : Nat, narrative : Text]

(* A keyword speaks for a matter; the others may be about entries without. *)
AnyRule ==
    {rule \in [type : Types, matter : Matters \cup {UNASSIGNED}, text : Text,
               longest : Nat, count : Nat] :
        rule.type = "matter_assignment" => rule.matter # UNASSIGNED}

LearningTypeOK ==
    /\ stage \in [Runs -> {"waiting", "reviewing", "over"}]
    /\ shown \in [Runs -> Seq(AnyEntry)]
    /\ approvals \subseteq [run : Runs, item : 1..MaxItems, decision : {"approve", "reject"},
                            entry : AnyEntry]
    /\ patterns \in Seq(AnyRule)
    /\ given \subseteq Learners
    /\ queue \in [Learners -> SUBSET Runs]
    /\ rules \in [Learners -> SUBSET AnyRule]
    /\ found \in [Learners -> [rule : AnyRule, row : 0..Len(patterns)] \cup {Idle}]
    /\ together \in BOOLEAN

LearningInit ==
    /\ stage = [r \in Runs |-> "waiting"]
    /\ shown = [r \in Runs |-> <<>>]
    /\ approvals = {} /\ patterns = <<>>
    /\ given = {}
    /\ queue = [l \in Learners |-> {}]
    /\ rules = [l \in Learners |-> {}]
    /\ found = [l \in Learners |-> Idle]
    /\ together = FALSE
-----------------------------------------------------------------------------
(***************************************************************************)
(* Applying the rules to a suggestion                                      *)
(***************************************************************************)
(* Percent.                                                                *)
Confidence(rule) ==
    LET cap == IF rule.type = "matter_assignment" THEN 95 ELSE 90
        c   == 50 + 10 * rule.count
    IN  IF c < cap THEN c ELSE cap

Rows(type) == {i \in DOMAIN patterns : patterns[i].type = type}

(* Only a suggestion without a matter gets one: from the rule with the     *)
(* highest confidence whose keyword it has, the oldest of these.           *)
AssignMatter(s) ==
    LET hits == {i \in Rows("matter_assignment") : Contains(s.narrative, patterns[i].text[1])}
        Beats(i, j) ==
            \/ Confidence(patterns[i]) > Confidence(patterns[j])
            \/ Confidence(patterns[i]) = Confidence(patterns[j]) /\ i <= j
    IN  IF s.matter # UNASSIGNED \/ hits = {} THEN s
        ELSE [s EXCEPT !.matter = patterns[CHOOSE i \in hits : \A j \in hits : Beats(i, j)].matter]

(* The oldest preference of the matter counts.                             *)
PreferNarrative(s) ==
    LET rows == {i \in Rows("narrative_preference") : patterns[i].matter = s.matter}
        prefix == patterns[CHOOSE i \in rows : \A j \in rows : i <= j].text
    IN  IF rows = {} \/ IsPrefix(prefix, s.narrative) THEN s
        ELSE [s EXCEPT !.narrative = prefix \o s.narrative]

(* Duration corrections are never learned (see Corrections), and a         *)
(* rejection rule only marks a suggestion and lowers its confidence.       *)
ApplyPatterns(s) == PreferNarrative(AssignMatter(s))
-----------------------------------------------------------------------------
(***************************************************************************)
(* A run                                                                   *)
(***************************************************************************)
(* The LLM step.  When applying fails, the run goes on with what the model *)
(* suggested.                                                              *)
Suggest(r) ==
    /\ stage[r] = "waiting"
    /\ stage' = [stage EXCEPT ![r] = "reviewing"]
    /\ \E n \in 1..MaxItems : \E suggestions \in [1..n -> Entries] :
           \/ shown' = [shown EXCEPT ![r] = [i \in 1..n |-> ApplyPatterns(suggestions[i])]]
           \/ shown' = [shown EXCEPT ![r] = suggestions]
    /\ UNCHANGED <<approvals, patterns, learners, together>>

(* Without an entry, the learner reads one with default values.            *)
Payload(decision, entry) == IF decision = "approve" THEN entry ELSE Nothing

(* One turn of the approve step: the next suggestion, as it is or edited.  *)
Decide(r) ==
    /\ stage[r] = "reviewing" /\ shown[r] # <<>>
    /\ \E decision \in {"approve", "reject"} :
       \E entry \in {Head(shown[r])} \cup (IF decision = "approve" THEN Entries ELSE {}) :
           approvals' = approvals \cup
               {[run |-> r, decision |-> decision, entry |-> Payload(decision, entry),
                 item |-> 1 + Cardinality({a \in approvals : a.run = r})]}
    /\ shown' = [shown EXCEPT ![r] = Tail(@)]
    /\ UNCHANGED <<stage, patterns, learners, together>>

(* All suggestions are decided, or the handler raises before the next one; *)
(* the decisions made stay recorded.                                       *)
EndReview(r) ==
    /\ stage[r] = "reviewing"
    /\ stage' = [stage EXCEPT ![r] = "over"]
    /\ shown' = [shown EXCEPT ![r] = <<>>]
    /\ UNCHANGED <<approvals, patterns, learners, together>>
-----------------------------------------------------------------------------
(***************************************************************************)
(* Analyzing the approvals of a run                                        *)
(***************************************************************************)
Of(records, m) == {a \in records : a.entry.matter = m}

Count(w, records) ==
    Cardinality(UNION {{<<a.item, i>> : i \in {j \in DOMAIN a.entry.narrative :
                                                  a.entry.narrative[j] = w}} : a \in records})

(* A keyword occurs twice, or in half of the entries when these are more;  *)
(* twice in one entry will do.                                             *)
Threshold(records) == IF Cardinality(records) \div 2 > 2 THEN Cardinality(records) \div 2 ELSE 2

Keywords(records) == {w \in Words : Count(w, records) >= Threshold(records)}

Rule(type, m, text, longest, records) ==
    [type |-> type, matter |-> m, text |-> text, longest |-> longest,
     count |-> Cardinality(records)]

(* Mutation: entries without a matter are grouped too.                     *)
RulesOfAll(approved) ==
    UNION {{Rule("matter_assignment", m, <<kw>>, 0, Of(approved, m)) :
               kw \in Keywords(Of(approved, m))} : m \in Matters \cup {UNASSIGNED}}

MatterRules(approved) ==
    UNION {{Rule("matter_assignment", m, <<kw>>, 0, Of(approved, m)) :
               kw \in Keywords(Of(approved, m))} : m \in Matters}

(* An entry that a run records has no original_duration_minutes, so there  *)
(* is no pair of durations to compare.                                     *)
Corrections(approved) == {}

Prefix(records) == LongestCommonPrefix({a.entry.narrative : a \in records})

NarrativeRules(approved) ==
    LET told(m) == {a \in Of(approved, m) : a.entry.narrative # <<>>}
        several == {m \in Matters \cup {UNASSIGNED} : Cardinality(told(m)) >= 2}
    IN  {Rule("narrative_preference", m, Prefix(told(m)), 0, told(m)) :
            m \in {m \in several : Prefix(told(m)) # <<>>}}

(* Entries of at most six minutes.                                         *)
RejectionRules(rejected) ==
    LET Durs(m) == {a.entry.duration : a \in Of(rejected, m)}
        Longest(m) == CHOOSE d \in Durs(m) : \A e \in Durs(m) : d >= e
        several == {m \in Matters \cup {UNASSIGNED} : Cardinality(Of(rejected, m)) >= 2}
    IN  {Rule("rejection_rule", m, <<>>, Longest(m), Of(rejected, m)) :
            m \in {m \in several : Longest(m) \in 1..6}}

(* Mutation: the query forgets the run.                                    *)
LoadedOfAll(r) == approvals

Loaded(r) == {a \in approvals : a.run = r}

Learned(records) ==
    LET approved == {a \in records : a.decision = "approve"}
    IN  MatterRules(approved) \cup Corrections(approved) \cup NarrativeRules(approved)
            \cup RejectionRules(records \ approved)
-----------------------------------------------------------------------------
(***************************************************************************)
(* The learn command                                                       *)
(***************************************************************************)
Working(l) == queue[l] # {} \/ rules[l] # {} \/ found[l] # Idle

(* learn --run-id r, or --all: the runs that have approvals by now.        *)
Learn(l) ==
    /\ l \notin given
    /\ given' = given \cup {l}
    /\ \E runs \in {{r} : r \in Runs} \cup {{a.run : a \in approvals}} :
           queue' = [queue EXCEPT ![l] = runs]
    /\ together' = (together \/ \E k \in Learners : Working(k))
    /\ UNCHANGED <<stage, shown, approvals, patterns, rules, found>>

LearnFromApprovals(l) ==
    /\ rules[l] = {} /\ found[l] = Idle
    /\ \E r \in queue[l] :
           /\ queue' = [queue EXCEPT ![l] = @ \ {r}]
           /\ rules' = [rules EXCEPT ![l] = Learned(Loaded(r))]
    /\ UNCHANGED <<stage, shown, approvals, patterns, given, found, together>>

SameRow(row, rule) == row.type = rule.type /\ row.matter = rule.matter

(* _store_pattern, its SELECT.  The rules come type by type; the order     *)
(* among the keywords is that of the rows, which the query leaves open.    *)
FindRow(l) ==
    /\ found[l] = Idle
    /\ \E rule \in rules[l] :
           /\ \A other \in rules[l] :
                  other.type = "matter_assignment" => rule.type = "matter_assignment"
           /\ \A other \in rules[l] :
                  rule.type = "rejection_rule" => other.type = "rejection_rule"
           /\ LET rows == {i \in DOMAIN patterns : SameRow(patterns[i], rule)}
              IN  \E row \in IF rows = {} THEN {NoRow} ELSE rows :
                      found' = [found EXCEPT ![l] = [rule |-> rule, row |-> row]]
           /\ rules' = [rules EXCEPT ![l] = @ \ {rule}]
    /\ UNCHANGED <<stage, shown, approvals, patterns, given, queue, together>>

(* Its UPDATE or INSERT: the rule stored last is the one that stays.       *)
WriteRow(l) ==
    /\ found[l] # Idle
    /\ patterns' = IF found[l].row = NoRow
                   THEN Append(patterns, found[l].rule)
                   ELSE [patterns EXCEPT ![found[l].row] = found[l].rule]
    /\ found' = [found EXCEPT ![l] = Idle]
    /\ UNCHANGED <<stage, shown, approvals, given, queue, rules, together>>

(* The command ends, or a statement raises: what is stored stays.          *)
LearnerStops(l) ==
    /\ Working(l)
    /\ queue' = [queue EXCEPT ![l] = {}]
    /\ rules' = [rules EXCEPT ![l] = {}]
    /\ found' = [found EXCEPT ![l] = Idle]
    /\ UNCHANGED <<stage, shown, approvals, patterns, given, together>>

LearningNext ==
    \/ \E r \in Runs : Suggest(r) \/ Decide(r) \/ EndReview(r)
    \/ \E l \in Learners :
        \/ Learn(l) \/ LearnFromApprovals(l) \/ FindRow(l) \/ WriteRow(l) \/ LearnerStops(l)

LearningSpec == LearningInit /\ [][LearningNext]_learningVars
-----------------------------------------------------------------------------
Approved(r, m) ==
    {a \in approvals : a.run = r /\ a.decision = "approve" /\ a.entry.matter = m}

(* What a reviewer approved, as it was shown or edited, in one run and for *)
(* the rule's own matter bears it out: its keyword stands there twice, or  *)
(* two narratives begin with its prefix.  Rejections teach nothing.        *)
BorneOut(rule) ==
    \E r \in Runs : LET a == Approved(r, rule.matter) IN
        /\ rule.count \in 1..Cardinality(a)
        /\ \/ /\ rule.type = "matter_assignment" /\ rule.matter # UNASSIGNED
              /\ \E x, y \in a : \E i \in DOMAIN x.entry.narrative, j \in DOMAIN y.entry.narrative :
                    /\ <<x, i>> # <<y, j>>
                    /\ x.entry.narrative[i] = rule.text[1] /\ y.entry.narrative[j] = rule.text[1]
           \/ /\ rule.type = "narrative_preference" /\ rule.text # <<>>
              /\ \E x, y \in a : x # y /\ IsPrefix(rule.text, x.entry.narrative)
                                       /\ IsPrefix(rule.text, y.entry.narrative)

RulesBorneOut == \A i \in DOMAIN patterns : BorneOut(patterns[i])

(* "Dedup: update existing pattern with same type + matter_id": so it is   *)
(* when no two commands learn at once.                                     *)
OneRowPerRule ==
    together \/ \A i, j \in DOMAIN patterns :
                    patterns[i].type = patterns[j].type /\ patterns[i].matter = patterns[j].matter
                        => i = j

(* Whatever is stored when, every rule that changes later suggestions has  *)
(* its evidence, in reviewed entries and not in its own effects alone; and *)
(* no matter has two of a kind (learn_from_approvals, _store_pattern).     *)
LearnedRulesStand == RulesBorneOut /\ OneRowPerRule
===============================================================================
