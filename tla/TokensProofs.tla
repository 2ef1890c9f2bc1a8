---------------------------- MODULE TokensProofs ------------------------------
(***************************************************************************)
(* Theorems about Tokens, for any number of callers, any life of tokens    *)
(* and codes, and both providers.                                          *)
(*                                                                         *)
(* The argument: while nobody is excused there is one call at a time       *)
(* (OneCall), and a call that is alone when Microsoft answers ends the     *)
(* excuse.  From the moment it has its answer it holds the newest refresh  *)
(* token and the file is empty under its hands (OpenIsTorn), so what it    *)
(* writes is whole and new; a Google manager never has another refresh     *)
(* token than the newest (ManagersCurrent).  After a logout nobody has the *)
(* file open, and who still waits for an answer began before it            *)
(* (QuietAfterLogout): the next one to write is a login or one of those.   *)
(***************************************************************************)
EXTENDS Tokens, TLAPS

(* Nobody logs in to Google or out of it, and no answer of its counts as   *)
(* one without a refresh token.                                            *)
GoogleIsProvided ==
    provider = "google" => ~ out /\ ~ omitted /\ \A c \in Callers : pc[c] # "polling"

(* Who has the file open is writing it.                                    *)
AttachedWrites == \A c \in attached : pc[c] = "writing"

OnlyWholeFilesTell == cache.state # "whole" => cache.refresh = NoToken

(* After a logout no file is open, and who refreshes began before it.      *)
QuietAfterLogout ==
    out /\ ~ revived =>
        /\ cache.state = "none" /\ attached = {}
        /\ \A c \in Callers : pc[c] = "refreshing" => c \in early

(* The refresh token a whole file has to hold.                             *)
Newest == IF omitted THEN NoToken ELSE issued

OneCall == ~ excused => \A c, d \in Busy : c = d

(* The file is empty while it is open, and will hold the newest token.     *)
OpenIsTorn ==
    ~ excused => \A c \in attached : cache.state = "torn" /\ held[c].refresh = Newest

(* A Google manager has the newest refresh token or none.                  *)
ManagersCurrent ==
    ~ excused /\ provider = "google" => \A c \in Callers :
        /\ pc[c] # "gone" => held[c].refresh \in {NoToken, issued}
        /\ pc[c] \in {"refreshing", "writing"} => held[c].refresh = issued

IInv ==
    /\ TypeOK
    /\ GoogleIsProvided
    /\ AttachedWrites
    /\ OnlyWholeFilesTell
    /\ QuietAfterLogout
    /\ OneCall
    /\ OpenIsTorn
    /\ ManagersCurrent
    /\ RefreshTokenKept
-----------------------------------------------------------------------------
LEMMA Constants ==
    /\ NoToken \in RefreshTokens
    /\ 0 \in Times /\ 0 \in 0..MaxTime
    /\ \A t \in 0..MaxTime : t \in Times /\ t + Life \in Times /\ t + CodeLife \in Times
BY BoundsAssumption DEF NoToken, RefreshTokens, Times

LEMMA Records ==
    /\ Blank \in Held /\ Blank.refresh = NoToken
    /\ NoFile \in File /\ NoFile.state = "none" /\ NoFile.refresh = NoToken
    /\ TornFile \in File /\ TornFile.state = "torn" /\ TornFile.refresh = NoToken
    /\ \A data \in Held : /\ Whole(data) \in File /\ Whole(data).state = "whole"
                          /\ Whole(data).refresh = data.refresh
BY Constants DEF Blank, NoFile, TornFile, Whole, File, Held

LEMMA InitIInv == Init => IInv
<1> SUFFICES ASSUME Init PROVE IInv
    OBVIOUS
<1> USE DEF Init
<1>1. TypeOK
    <2>1. pc \in [Callers -> {"gone", "idle", "refreshing", "polling", "writing"}]
        BY DEF AtRest
    <2>2. held \in [Callers -> Held] /\ cache \in File
        BY Records
    <2>3. clock \in 0..MaxTime /\ issued \in RefreshTokens /\ failures \in 0..MaxFailures
        BY Constants, BoundsAssumption DEF NoToken
    <2> QED
        BY <2>1, <2>2, <2>3 DEF TypeOK
<1>2. \A c \in Callers : pc[c] \in {"gone", "idle"} /\ held[c].refresh = NoToken
    BY Records DEF AtRest
<1>3. Busy = {}
    BY <1>2 DEF Busy
<1>4. cache.state = "none" /\ cache.refresh = NoToken
    BY Records
<1> QED
    BY <1>1, <1>2, <1>3, <1>4
    DEF IInv, GoogleIsProvided, AttachedWrites, OnlyWholeFilesTell, QuietAfterLogout, OneCall,
        OpenIsTorn, ManagersCurrent, RefreshTokenKept
-----------------------------------------------------------------------------
(* A call begins, or a Google manager is made.                             *)
LEMMA BeginStep ==
    ASSUME IInv, NEW c \in Callers, NEW label \in {"idle", "refreshing", "polling"},
           NEW data \in Held, Begin(c, label, data),
           pc[c] \in {"gone", "idle"},
           label = "polling" => provider = "microsoft",
           label = "refreshing" => ~ (out /\ ~ revived),
           ~ excused /\ provider = "google" =>
               /\ data.refresh \in {NoToken, issued}
               /\ label = "refreshing" => data.refresh = issued
    PROVE  IInv'
<1> USE DEF IInv
<1>1. /\ UNCHANGED <<provider, clock, issued, cache, attached, failures, omitted, out, revived>>
      /\ excused' = (excused \/ (label # "idle" /\ Busy # {})) /\ early' = early \ {c}
      /\ \A d \in Callers : /\ pc'[d] = IF d = c THEN label ELSE pc[d]
                            /\ held'[d] = IF d = c THEN data ELSE held[d]
    BY DEF Begin, TypeOK
<1>2. c \notin attached
    BY DEF AttachedWrites
<1>3. TypeOK'
    <2>1. excused' \in BOOLEAN /\ early' \subseteq Callers
        BY <1>1 DEF TypeOK
    <2>2. pc' \in [Callers -> {"gone", "idle", "refreshing", "polling", "writing"}]
        BY DEF Begin, TypeOK
    <2>3. held' \in [Callers -> Held]
        BY DEF Begin, TypeOK
    <2> QED
        BY <1>1, <2>1, <2>2, <2>3 DEF TypeOK
<1>4. attached \subseteq Callers
    BY DEF TypeOK
<1>5. GoogleIsProvided' /\ AttachedWrites' /\ OnlyWholeFilesTell'
    BY <1>1, <1>2, <1>4 DEF GoogleIsProvided, AttachedWrites, OnlyWholeFilesTell
<1>6. QuietAfterLogout'
    BY <1>1 DEF QuietAfterLogout
<1>7. OneCall'
    BY <1>1 DEF OneCall, Busy
<1>8. OpenIsTorn'
    BY <1>1, <1>2, <1>4 DEF OpenIsTorn, Newest
<1>9. ManagersCurrent'
    BY <1>1 DEF ManagersCurrent
<1>10. RefreshTokenKept'
    BY <1>1, <1>2, <1>4 DEF RefreshTokenKept
<1> QED
    BY <1>3, <1>5, <1>6, <1>7, <1>8, <1>9, <1>10

(* A call is over, or a manager goes, and the file stays as it is.         *)
LEMMA CallOver ==
    ASSUME IInv, NEW c \in Callers, NEW rest \in {"idle", "gone"}, NEW data \in Held,
           pc[c] # "gone",
           pc' = [pc EXCEPT ![c] = rest], held' = [held EXCEPT ![c] = data],
           data.refresh \in {NoToken, held[c].refresh},
           attached' = attached \ {c}, c \in attached => excused',
           excused' \in BOOLEAN, excused => excused',
           issued' \in RefreshTokens, issued' = issued \/ excused',
           failures' \in 0..MaxFailures,
           UNCHANGED <<provider, clock, cache, omitted, out, early, revived>>
    PROVE  IInv'
<1> USE DEF IInv
<1>1. \A d \in Callers : /\ pc'[d] = IF d = c THEN rest ELSE pc[d]
                         /\ held'[d] = IF d = c THEN data ELSE held[d]
    BY DEF TypeOK
<1>2. attached \subseteq Callers
    BY DEF TypeOK
<1>3. TypeOK'
    BY DEF TypeOK
<1>4. GoogleIsProvided' /\ AttachedWrites' /\ OnlyWholeFilesTell'
    BY <1>1, <1>2 DEF GoogleIsProvided, AttachedWrites, OnlyWholeFilesTell
<1>5. QuietAfterLogout'
    BY <1>1 DEF QuietAfterLogout
<1>6. OneCall'
    BY <1>1 DEF OneCall, Busy
<1>7. OpenIsTorn'
    BY <1>1, <1>2 DEF OpenIsTorn, Newest
<1>8. ManagersCurrent'
    BY <1>1 DEF ManagersCurrent
<1>9. RefreshTokenKept'
    BY <1>1, <1>2 DEF RefreshTokenKept
<1> QED
    BY <1>3, <1>4, <1>5, <1>6, <1>7, <1>8, <1>9

LEMMA RestsStep ==
    ASSUME IInv, NEW c \in Callers, Rests(c), pc[c] # "gone",
           attached' = attached \ {c}, c \notin attached,
           UNCHANGED <<provider, clock, issued, cache, failures, history>>
    PROVE  IInv'
<1> USE DEF IInv
<1> DEFINE data == IF provider = "google" THEN held[c] ELSE Blank
<1>1. data \in Held /\ data.refresh \in {NoToken, held[c].refresh}
    BY Records DEF TypeOK
<1>2. held' = [held EXCEPT ![c] = data]
    BY DEF Rests, TypeOK
<1>3. pc' = [pc EXCEPT ![c] = "idle"]
    BY DEF Rests
<1>4. excused' \in BOOLEAN /\ issued' \in RefreshTokens /\ failures' \in 0..MaxFailures
    BY DEF TypeOK, history
<1> HIDE DEF data
<1> QED
    BY <1>1, <1>2, <1>3, <1>4, CallOver DEF history

LEMMA EndsStep ==
    ASSUME IInv, NEW c \in Callers, Ends(c), pc[c] # "gone",
           c \in attached => excused', excused' \in BOOLEAN, excused => excused',
           issued' \in RefreshTokens, issued' = issued \/ excused',
           failures' \in 0..MaxFailures,
           UNCHANGED <<provider, clock, cache, omitted, out, early, revived>>
    PROVE  IInv'
<1>1. AtRest \in {"idle", "gone"}
    BY DEF AtRest
<1>2. pc' = [pc EXCEPT ![c] = AtRest] /\ held' = [held EXCEPT ![c] = Blank]
      /\ attached' = attached \ {c}
    BY DEF Ends
<1> QED
    BY <1>1, <1>2, Records, CallOver
-----------------------------------------------------------------------------
(* An answer arrives: its token is the newest, and the file is opened.     *)
LEMMA AnsweredStep ==
    ASSUME IInv, NEW c \in Callers, pc[c] \in {"refreshing", "polling"}, Answered(c)
    PROVE  IInv'
<1> USE DEF IInv
<1>1. PICK answer \in {NoToken, issued + 1} :
        /\ answer <= MaxIssued
        /\ answer # NoToken => provider = "microsoft"
        /\ issued' = IF answer = NoToken THEN issued ELSE answer
        /\ omitted' = (provider = "microsoft" /\ answer = NoToken)
        /\ \E life \in {Life} \cup (IF provider = "microsoft" THEN {0} ELSE {}) :
               held' = [held EXCEPT ![c] =
                           [refresh |-> Stored(c, answer), expires |-> clock + life]]
    BY DEF Answered
<1>2. PICK life \in {Life, 0} :
        held' = [held EXCEPT ![c] = [refresh |-> Stored(c, answer), expires |-> clock + life]]
    BY <1>1
<1>3. /\ pc' = [pc EXCEPT ![c] = "writing"] /\ cache' = TornFile
      /\ attached' = attached \cup {c}
      /\ revived' = (revived \/ c \in early)
      /\ out' = (out /\ (c \in early \/ pc[c] = "refreshing"))
      /\ excused' = (excused /\ (provider = "google" \/ Busy # {c}))
      /\ UNCHANGED <<provider, clock, failures, early>>
    BY <1>1 DEF Answered
<1> DEFINE data == [refresh |-> Stored(c, answer), expires |-> clock + life]
<1>4. answer \in RefreshTokens /\ issued' \in RefreshTokens
    <2>1. issued \in Nat
        BY BoundsAssumption DEF TypeOK, RefreshTokens
    <2> QED
        BY <1>1, <2>1, BoundsAssumption, Constants DEF RefreshTokens, NoToken, TypeOK
<1>5. data \in Held /\ data.refresh = Stored(c, answer)
    <2>1. Stored(c, answer) \in RefreshTokens
        BY <1>4 DEF Stored, TypeOK, Held
    <2>2. clock + life \in Times
        BY Constants, BoundsAssumption DEF TypeOK
    <2> QED
        BY <2>1, <2>2 DEF Held
<1>6. \A d \in Callers : /\ pc'[d] = IF d = c THEN "writing" ELSE pc[d]
                         /\ held'[d] = IF d = c THEN data ELSE held[d]
    BY <1>2, <1>3 DEF TypeOK
<1>7. attached \subseteq Callers /\ c \notin attached
    BY DEF TypeOK, AttachedWrites
<1>8. TypeOK'
    <2>1. held' \in [Callers -> Held]
        BY <1>2, <1>5 DEF TypeOK
    <2>2. pc' \in [Callers -> {"gone", "idle", "refreshing", "polling", "writing"}]
        BY <1>3 DEF TypeOK
    <2>3. {omitted', excused', out', revived'} \subseteq BOOLEAN
        BY <1>1, <1>3 DEF TypeOK
    <2> QED
        BY <1>3, <1>4, <1>7, <2>1, <2>2, <2>3, Records DEF TypeOK
<1>9. GoogleIsProvided'
    <2>1. provider = "google" => ~ out /\ \A d \in Callers : pc[d] # "polling"
        BY DEF GoogleIsProvided
    <2>2. provider = "google" => ~ out' /\ ~ omitted'
        BY <1>1, <1>3, <2>1
    <2> QED
        BY <1>3, <1>6, <2>1, <2>2 DEF GoogleIsProvided
<1>10. AttachedWrites' /\ OnlyWholeFilesTell'
    BY <1>3, <1>6, Records DEF AttachedWrites, OnlyWholeFilesTell
<1>11. QuietAfterLogout'
    BY <1>3 DEF QuietAfterLogout, TypeOK
<1>12. ~ excused' => \A d \in Busy : d = c
    <2>1. c \in Busy
        BY DEF Busy
    <2> QED
        BY <1>3, <2>1 DEF OneCall
<1>18. OneCall'
    <2>1. Busy' = Busy
        BY <1>6 DEF Busy
    <2> QED
        BY <1>12, <2>1 DEF OneCall
<1>13. ~ excused' => \A d \in attached' : d = c
    <2>1. \A d \in attached : d \in Busy
        BY <1>7 DEF Busy, AttachedWrites
    <2> QED
        BY <1>3, <1>12, <2>1
<1>14. ~ excused' => data.refresh = Newest'
    <2>1. CASE provider = "google"
        <3>1. pc[c] = "refreshing" /\ answer = NoToken
            BY <1>1, <2>1 DEF GoogleIsProvided
        <3>2. ~ excused' => held[c].refresh = issued
            BY <1>3, <2>1, <3>1 DEF ManagersCurrent
        <3> QED
            BY <1>1, <1>5, <2>1, <3>1, <3>2 DEF Stored, Newest
    <2>2. CASE provider # "google"
        BY <1>1, <1>5, <2>2 DEF Stored, Newest, TypeOK
    <2> QED
        BY <2>1, <2>2
<1> HIDE DEF data
<1>15. OpenIsTorn'
    BY <1>3, <1>6, <1>13, <1>14, Records DEF OpenIsTorn
<1>16. ManagersCurrent'
    <2> SUFFICES ASSUME ~ excused', provider = "google", NEW d \in Callers
                 PROVE  /\ pc'[d] # "gone" => held'[d].refresh \in {NoToken, issued'}
                        /\ pc'[d] \in {"refreshing", "writing"} => held'[d].refresh = issued'
        BY <1>3 DEF ManagersCurrent
    <2>1. issued' = issued /\ ~ omitted' /\ ~ excused
        BY <1>1, <1>9, <1>3 DEF GoogleIsProvided
    <2>2. data.refresh = issued'
        BY <1>14, <2>1 DEF Newest
    <2> QED
        BY <1>6, <2>1, <2>2 DEF ManagersCurrent
<1>17. RefreshTokenKept'
    BY <1>3, <1>6, Records DEF RefreshTokenKept
<1> QED
    BY <1>8, <1>9, <1>10, <1>11, <1>15, <1>16, <1>17, <1>18

(* The call that has the file open writes it and is over.                  *)
LEMMA WriteCacheStep ==
    ASSUME IInv, NEW c \in Callers, WriteCache(c)
    PROVE  IInv'
<1> USE DEF IInv, history
<1>1. CASE c \notin attached
    <2>1. /\ Rests(c) /\ pc[c] # "gone" /\ attached' = attached \ {c}
          /\ UNCHANGED <<provider, clock, issued, failures, history>>
        BY DEF WriteCache
    <2>2. UNCHANGED cache
        BY <1>1 DEF WriteCache, Written
    <2> QED
        BY <1>1, <2>1, <2>2, RestsStep
<1>2. CASE c \in attached
    <2>1. /\ UNCHANGED <<provider, clock, issued, failures, history>>
          /\ attached' = attached \ {c} /\ pc[c] = "writing"
          /\ cache' \in {Whole(held[c]), TornFile}
          /\ cache.state = "torn" => cache' = Whole(held[c])
        BY <1>2 DEF WriteCache, Written
    <2>2. /\ held[c] \in Held /\ attached \subseteq Callers
          /\ Whole(held[c]) \in File /\ Whole(held[c]).state = "whole"
          /\ Whole(held[c]).refresh = held[c].refresh
        BY Records DEF TypeOK
    <2>3. /\ pc' \in [Callers -> {"gone", "idle", "refreshing", "polling", "writing"}]
          /\ held' \in [Callers -> Held]
          /\ \A d \in Callers :
                /\ pc'[d] = IF d = c THEN "idle" ELSE pc[d]
                /\ d # c \/ provider = "google" => held'[d] = held[d]
        BY Records DEF WriteCache, Rests, TypeOK
    <2>4. TypeOK'
        BY <2>1, <2>2, <2>3, Records DEF TypeOK
    <2>5. GoogleIsProvided' /\ AttachedWrites' /\ OnlyWholeFilesTell'
        BY <2>1, <2>2, <2>3, Records DEF GoogleIsProvided, AttachedWrites, OnlyWholeFilesTell
    <2>6. QuietAfterLogout'
        BY <1>2, <2>1 DEF QuietAfterLogout
    <2>7. OneCall'
        BY <2>1, <2>3 DEF OneCall, Busy
    <2>8. ~ excused => attached' = {}
        BY <2>1, <2>2 DEF OneCall, Busy, AttachedWrites
    <2>9. OpenIsTorn'
        BY <2>1, <2>8 DEF OpenIsTorn
    <2>10. ManagersCurrent'
        BY <2>1, <2>3 DEF ManagersCurrent
    <2>11. RefreshTokenKept'
        BY <1>2, <2>1, <2>2 DEF RefreshTokenKept, OpenIsTorn, Newest
    <2> QED
        BY <2>4, <2>5, <2>6, <2>7, <2>9, <2>10, <2>11
<1> QED
    BY <1>1, <1>2

(* The user provides the Google cache, under the managers that are there.  *)
LEMMA ProvideStep ==
    ASSUME IInv, Provide
    PROVE  IInv'
<1> USE DEF IInv
<1> DEFINE data == [refresh |-> issued + 1, expires |-> clock + Life]
<1>1. /\ provider = "google" /\ issued' = issued + 1 /\ cache' = Whole(data)
      /\ excused' = \E c \in Callers : pc[c] # "gone"
      /\ UNCHANGED <<provider, clock, pc, held, attached, failures, omitted, out, early, revived>>
    BY DEF Provide
<1>2. issued' \in RefreshTokens
    BY BoundsAssumption DEF Provide, TypeOK, RefreshTokens
<1>3. data \in Held /\ data.refresh = issued'
    BY <1>1, <1>2, Constants DEF Held, TypeOK
<1> HIDE DEF data
<1>4. /\ cache' \in File /\ cache'.state = "whole" /\ cache'.refresh = issued'
      /\ excused' \in BOOLEAN
    BY <1>1, <1>3, Records
<1>5. TypeOK'
    BY <1>1, <1>2, <1>4 DEF TypeOK
<1>6. ~ excused' => attached = {} /\ \A c \in Callers : pc[c] = "gone"
    BY <1>1 DEF AttachedWrites, TypeOK
<1>7. GoogleIsProvided' /\ AttachedWrites' /\ OnlyWholeFilesTell'
    BY <1>1, <1>4 DEF GoogleIsProvided, AttachedWrites, OnlyWholeFilesTell
<1>8. QuietAfterLogout'
    BY <1>1 DEF QuietAfterLogout, GoogleIsProvided
<1>9. OneCall' /\ OpenIsTorn' /\ ManagersCurrent'
    BY <1>1, <1>6 DEF OneCall, Busy, OpenIsTorn, ManagersCurrent
<1>10. RefreshTokenKept'
    BY <1>1, <1>4 DEF RefreshTokenKept, GoogleIsProvided
<1> QED
    BY <1>5, <1>7, <1>8, <1>9, <1>10

LEMMA LogoutStep ==
    ASSUME IInv, Logout
    PROVE  IInv'
<1> USE DEF IInv
<1>1. /\ cache' = NoFile /\ attached' = {} /\ out' = TRUE /\ early' = Busy /\ revived' = FALSE
      /\ provider = "microsoft"
      /\ UNCHANGED <<provider, clock, issued, pc, held, failures, omitted, excused>>
    BY DEF Logout, Removed
<1>2. TypeOK'
    BY <1>1, Records DEF TypeOK, Busy
<1>3. QuietAfterLogout'
    BY <1>1, Records DEF QuietAfterLogout, Busy
<1>4. GoogleIsProvided' /\ AttachedWrites' /\ OnlyWholeFilesTell'
    BY <1>1, Records DEF GoogleIsProvided, AttachedWrites, OnlyWholeFilesTell
<1>5. OneCall' /\ OpenIsTorn' /\ ManagersCurrent' /\ RefreshTokenKept'
    BY <1>1, Records DEF OneCall, Busy, OpenIsTorn, ManagersCurrent, RefreshTokenKept
<1> QED
    BY <1>2, <1>3, <1>4, <1>5

LEMMA ClockStep ==
    ASSUME IInv, clock' \in 0..MaxTime,
           UNCHANGED <<provider, issued, cache, pc, held, attached, failures, history>>
    PROVE  IInv'
<1> USE DEF IInv, history
<1>1. TypeOK'
    BY DEF TypeOK
<1> QED
    BY <1>1 DEF GoogleIsProvided, AttachedWrites, OnlyWholeFilesTell, QuietAfterLogout, OneCall,
        Busy, OpenIsTorn, Newest, ManagersCurrent, RefreshTokenKept
-----------------------------------------------------------------------------
LEMMA BeginSteps ==
    ASSUME IInv, NEW c \in Callers,
           GetAccessToken(c) \/ Login(c) \/ MakeManager(c) \/ GetToken(c)
    PROVE  IInv'
<1> USE DEF IInv
<1>1. /\ cache.refresh \in RefreshTokens /\ cache.expires \in Times
      /\ held[c] \in Held /\ provider \in {"microsoft", "google"}
    BY DEF TypeOK, File
<1>2. CASE GetAccessToken(c)
    <2> DEFINE data == [Blank EXCEPT !.refresh = cache.refresh]
    <2>1. data \in Held
        BY <1>1, Records DEF Held
    <2>2. ~ (out /\ ~ revived) /\ provider # "google" /\ pc[c] = "idle"
        BY <1>2 DEF GetAccessToken, QuietAfterLogout
    <2>3. Begin(c, "refreshing", data)
        BY <1>2 DEF GetAccessToken
    <2> HIDE DEF data
    <2> QED
        BY <2>1, <2>2, <2>3, BeginStep
<1>3. CASE Login(c)
    <2> DEFINE data == [Blank EXCEPT !.expires = clock + CodeLife]
    <2>1. data \in Held
        BY Records, Constants DEF Held, TypeOK
    <2>2. Begin(c, "polling", data) /\ provider = "microsoft" /\ pc[c] = "idle"
        BY <1>3 DEF Login
    <2> HIDE DEF data
    <2> QED
        BY <2>1, <2>2, BeginStep
<1>4. CASE MakeManager(c)
    <2> DEFINE data == [refresh |-> cache.refresh, expires |-> cache.expires]
    <2>1. data \in Held /\ data.refresh = cache.refresh
        BY <1>1 DEF Held
    <2>2. Begin(c, "idle", data) /\ provider = "google" /\ pc[c] = "gone"
        BY <1>4 DEF MakeManager
    <2>3. ~ excused => data.refresh \in {NoToken, issued}
        BY <2>1, <2>2 DEF RefreshTokenKept, OnlyWholeFilesTell, GoogleIsProvided
    <2> HIDE DEF data
    <2> QED
        BY <2>1, <2>2, <2>3, BeginStep
<1>5. CASE GetToken(c)
    <2>1. Begin(c, "refreshing", held[c]) /\ provider = "google" /\ pc[c] = "idle"
          /\ held[c].refresh # NoToken
        BY <1>5 DEF GetToken
    <2>2. ~ out /\ (~ excused => held[c].refresh = issued)
        BY <2>1 DEF GoogleIsProvided, ManagersCurrent
    <2> QED
        BY <1>1, <2>1, <2>2, BeginStep
<1> QED
    BY <1>2, <1>3, <1>4, <1>5

LEMMA EndSteps ==
    ASSUME IInv, NEW c \in Callers,
           Refused(c) \/ LoginTimesOut(c) \/ DropManager(c) \/ AnswerLost(c) \/ CallerDies(c)
    PROVE  IInv'
<1> USE DEF IInv, history
<1>1. /\ excused \in BOOLEAN /\ issued \in RefreshTokens /\ failures \in 0..MaxFailures
      /\ (c \in attached => pc[c] = "writing")
    BY DEF TypeOK, AttachedWrites
<1>2. CASE Refused(c)
    <2>1. c \notin attached /\ attached' = attached \ {c}
        BY <1>1, <1>2 DEF Refused
    <2> QED
        BY <1>2, <2>1, RestsStep DEF Refused
<1>3. CASE LoginTimesOut(c) \/ DropManager(c)
    BY <1>1, <1>3, EndsStep DEF LoginTimesOut, DropManager
<1>4. ASSUME Fail PROVE failures' \in 0..MaxFailures
    BY <1>1, <1>4, BoundsAssumption DEF Fail
<1>5. CASE AnswerLost(c)
    <2>1. issued' \in RefreshTokens
        BY <1>1, <1>5, BoundsAssumption DEF AnswerLost, RefreshTokens
    <2> QED
        BY <1>4, <1>5, <2>1, EndsStep DEF AnswerLost
<1>6. CASE CallerDies(c)
    BY <1>1, <1>4, <1>6, EndsStep DEF CallerDies
<1> QED
    BY <1>2, <1>3, <1>5, <1>6

LEMMA NextStep == IInv /\ [Next]_vars => IInv'
<1> SUFFICES ASSUME IInv, [Next]_vars PROVE IInv'
    OBVIOUS
<1>1. CASE UNCHANGED vars
    BY <1>1, ClockStep DEF vars, IInv, TypeOK
<1>2. CASE Tick
    BY <1>2, ClockStep, BoundsAssumption DEF Tick, IInv, TypeOK
<1>3. CASE Provide \/ Logout
    BY <1>3, ProvideStep, LogoutStep
<1>4. ASSUME NEW c \in Callers,
             GetAccessToken(c) \/ Login(c) \/ MakeManager(c) \/ GetToken(c)
      PROVE  IInv'
    BY <1>4, BeginSteps
<1>5. ASSUME NEW c \in Callers, RefreshAnswered(c) \/ LoginAnswered(c) \/ WriteCache(c)
      PROVE  IInv'
    BY <1>5, AnsweredStep, WriteCacheStep DEF RefreshAnswered, LoginAnswered
<1>6. ASSUME NEW c \in Callers,
             Refused(c) \/ LoginTimesOut(c) \/ DropManager(c) \/ AnswerLost(c) \/ CallerDies(c)
      PROVE  IInv'
    BY <1>6, EndSteps
<1> QED
    BY <1>1, <1>2, <1>3, <1>4, <1>5, <1>6 DEF Next, Returns
-----------------------------------------------------------------------------
(* The strengthened invariant holds in every reachable state.              *)
THEOREM Invariance == Spec => []IInv
<1>1. Init => IInv
    BY InitIInv
<1>2. IInv /\ [Next]_vars => IInv'
    BY NextStep
<1> QED
    BY <1>1, <1>2, PTL DEF Spec

(* Every variable keeps its type.                                          *)
THEOREM TypeCorrect == Spec => []TypeOK
<1>1. IInv => TypeOK
    BY DEF IInv
<1> QED
    BY <1>1, Invariance, PTL

(* The cache keeps the refresh token issued last, whatever calls begin,    *)
(* are refused, time out or die, unless calls overlapped, one died while   *)
(* it wrote, an answer was lost or the user replaced the cache, and no     *)
(* Microsoft answer has come since to a call that was alone.               *)
THEOREM RefreshTokenIsKept == Spec => []RefreshTokenKept
<1>1. IInv => RefreshTokenKept
    BY DEF IInv
<1> QED
    BY <1>1, Invariance, PTL

(* A token removed by auth logout stays removed until somebody logs in or  *)
(* a call that was under way stores its answer.                            *)
THEOREM LogoutAlwaysHolds == Spec => []LogoutHolds
<1>1. IInv => LogoutHolds
    BY DEF IInv, QuietAfterLogout, LogoutHolds
<1> QED
    BY <1>1, Invariance, PTL
=============================================================================
