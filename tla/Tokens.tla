-------------------------------- MODULE Tokens ---------------------------------
(***************************************************************************)
(* The OAuth token caches: MicrosoftGraphTokenManager with `matteros auth  *)
(* login` and `logout` (matteros/connectors/ms_graph_auth.py, cli.py), and *)
(* GoogleTokenManager (matteros/connectors/google_auth.py).  Each provider *)
(* has a file of its own, so a behaviour has one of the two.               *)
(*                                                                         *)
(* Runs in the daemon and commands are callers that share the file and     *)
(* nothing else: the Microsoft manager reads it in every call, the Google  *)
(* manager when it is made.  write_text opens the file, which empties it,  *)
(* and then writes, which is two steps; a file that was unlinked in        *)
(* between is written, but no longer under its name.                       *)
(*                                                                         *)
(* Refresh tokens are numbered as the server issues them.  A call that     *)
(* finds a usable token, or nothing to refresh, ends at once; such calls   *)
(* are no steps.  So is the environment variable that overrides the cache. *)
(***************************************************************************)
EXTENDS Integers, FiniteSets

CONSTANTS
    Callers,
    SafetyMargin,   \* 120 seconds
    Life,           \* expires_in of an access token
    CodeLife,       \* expires_in of a device code
    MaxTime,        \* bound on the clock
    MaxIssued,      \* bound on refresh tokens
    MaxFailures     \* bound on lost answers and deaths

ASSUME BoundsAssumption ==
    {SafetyMargin, Life, CodeLife, MaxTime, MaxIssued, MaxFailures} \subseteq Nat

NoToken == 0
RefreshTokens == 0..MaxIssued
Times == 0..(MaxTime + Life + CodeLife)

VARIABLES
    provider,
    clock,
    issued,     \* the number of the refresh token issued last
    cache,      \* the file: whether it is there and parses, and what it says
    pc,         \* per caller
    held,       \* per caller: what a Google manager has in memory, the token a
                \* refresh sends and then the answer, the deadline of a login
    attached,   \* the writers whose open file is the one under the name
    failures,
    omitted,    \* history: the answer stored last had no refresh token
    excused,    \* history: calls overlapped, or an answer was lost, and no
                \* call that was alone has had a Microsoft answer since
    out,        \* history: nobody logged in since the last logout
    early,      \* history: calls under way at the last logout
    revived     \* history: one of them stored its answer after it

history == <<omitted, excused, out, early, revived>>
vars == <<provider, clock, issued, cache, pc, held, attached, failures, history>>

File == [state : {"none", "torn", "whole"}, refresh : RefreshTokens, expires : Times]
Held == [refresh : RefreshTokens, expires : Times]

TypeOK ==
    /\ provider \in {"microsoft", "google"}
    /\ clock \in 0..MaxTime
    /\ issued \in RefreshTokens
    /\ cache \in File
    /\ pc \in [Callers -> {"gone", "idle", "refreshing", "polling", "writing"}]
    /\ held \in [Callers -> Held]
    /\ attached \subseteq Callers
    /\ failures \in 0..MaxFailures
    /\ {omitted, excused, out, revived} \subseteq BOOLEAN
    /\ early \subseteq Callers
-----------------------------------------------------------------------------
Blank == [refresh |-> NoToken, expires |-> 0]

NoFile == [state |-> "none", refresh |-> NoToken, expires |-> 0]
TornFile == [NoFile EXCEPT !.state = "torn"]
Whole(data) == [state |-> "whole", refresh |-> data.refresh, expires |-> data.expires]

(* A Microsoft token is taken for expired a little early, a Google one not.*)
Valid(data) ==
    data.expires > clock + (IF provider = "microsoft" THEN SafetyMargin ELSE 0)

Busy == {c \in Callers : pc[c] \in {"refreshing", "polling", "writing"}}

(* A manager lives for a run; the Microsoft one keeps nothing between      *)
(* calls, so it is always there.                                           *)
AtRest == IF provider = "google" THEN "gone" ELSE "idle"

Ends(c) ==
    /\ pc' = [pc EXCEPT ![c] = AtRest]
    /\ held' = [held EXCEPT ![c] = Blank]
    /\ attached' = attached \ {c}

(* The call is over and the manager is there for the next.                 *)
Rests(c) ==
    /\ pc' = [pc EXCEPT ![c] = "idle"]
    /\ held' = IF provider = "google" THEN held ELSE [held EXCEPT ![c] = Blank]

Fail == failures < MaxFailures /\ failures' = failures + 1

Init ==
    /\ provider \in {"microsoft", "google"}
    /\ clock = 0 /\ issued = 0
    /\ cache = NoFile
    /\ pc = [c \in Callers |-> AtRest]
    /\ held = [c \in Callers |-> Blank]
    /\ attached = {}
    /\ failures = 0
    /\ omitted = FALSE /\ excused = FALSE
    /\ out = FALSE /\ early = {} /\ revived = FALSE

Tick ==
    /\ clock < MaxTime
    /\ clock' = clock + 1
    /\ UNCHANGED <<provider, issued, cache, pc, held, attached, failures, history>>
-----------------------------------------------------------------------------
(***************************************************************************)
(* What starts a call                                                      *)
(***************************************************************************)
Begin(c, label, data) ==
    /\ pc' = [pc EXCEPT ![c] = label]
    /\ held' = [held EXCEPT ![c] = data]
    /\ excused' = (excused \/ (label # "idle" /\ Busy # {}))
    /\ early' = early \ {c}
    /\ UNCHANGED <<provider, clock, issued, cache, attached, failures, omitted, out, revived>>

(* get_access_token: the cached token is no longer good.                   *)
GetAccessToken(c) ==
    /\ provider = "microsoft" /\ pc[c] = "idle"
    /\ cache.state = "whole" /\ ~ Valid(cache) /\ cache.refresh # NoToken
    /\ Begin(c, "refreshing", [Blank EXCEPT !.refresh = cache.refresh])

(* login_device_code: polls until the code expires.                        *)
Login(c) ==
    /\ provider = "microsoft" /\ pc[c] = "idle"
    /\ clock + CodeLife <= MaxTime
    /\ Begin(c, "polling", [Blank EXCEPT !.expires = clock + CodeLife])

(* A Google manager is made; a file that does not parse is as good as none.*)
MakeManager(c) ==
    /\ provider = "google" /\ pc[c] = "gone"
    /\ Begin(c, "idle", [refresh |-> cache.refresh, expires |-> cache.expires])

(* get_token                                                               *)
GetToken(c) ==
    /\ provider = "google" /\ pc[c] = "idle"
    /\ ~ Valid(held[c]) /\ held[c].refresh # NoToken
    /\ Begin(c, "refreshing", held[c])

(* Nothing in matteros writes the first Google cache: the user does, and   *)
(* then again.  Managers that are there keep what they read.               *)
Provide ==
    /\ provider = "google"
    /\ issued < MaxIssued
    /\ issued' = issued + 1
    /\ cache' = Whole([refresh |-> issued + 1, expires |-> clock + Life])
    /\ excused' = \E c \in Callers : pc[c] # "gone"
    /\ UNCHANGED <<provider, clock, pc, held, attached, failures, omitted, out, early, revived>>
-----------------------------------------------------------------------------
(***************************************************************************)
(* The answer                                                              *)
(***************************************************************************)
(* Mutation: the refresh token that was sent is stored again.              *)
StoredSent(c, answer) == held[c].refresh

(* Mutation: str() of the missing token is stored, which no server issued. *)
StoredText(c, answer) == IF answer = NoToken THEN MaxIssued + 1 ELSE answer

(* save_cache stores what the answer has; _refresh keeps what it has.      *)
Stored(c, answer) == IF provider = "google" THEN held[c].refresh ELSE answer

(* The server answers with an access token, and a refresh token or none;   *)
(* the file is opened to be written.  expires_in may be missing, which is  *)
(* 0 for Microsoft and an hour for Google.                                 *)
Answered(c) ==
    \E answer \in {NoToken, issued + 1} :
        /\ answer <= MaxIssued
        /\ answer # NoToken => provider = "microsoft"
        /\ issued' = IF answer = NoToken THEN issued ELSE answer
        /\ omitted' = (provider = "microsoft" /\ answer = NoToken)
        /\ \E life \in {Life} \cup (IF provider = "microsoft" THEN {0} ELSE {}) :
               held' = [held EXCEPT ![c] =
                           [refresh |-> Stored(c, answer), expires |-> clock + life]]
        /\ pc' = [pc EXCEPT ![c] = "writing"]
        /\ cache' = TornFile
        /\ attached' = attached \cup {c}
        /\ revived' = (revived \/ c \in early)
        /\ out' = (out /\ (c \in early \/ pc[c] = "refreshing"))
        /\ excused' = (excused /\ (provider = "google" \/ Busy # {c}))
        /\ UNCHANGED <<provider, clock, failures, early>>

RefreshAnswered(c) == pc[c] = "refreshing" /\ Answered(c)

(* The user has authorized the code in time.  While the answer is          *)
(* authorization_pending or slow_down nothing changes.                     *)
LoginAnswered(c) ==
    /\ pc[c] = "polling"
    /\ Answered(c)

(* Another error, or an answer without an access token.                    *)
Refused(c) ==
    /\ pc[c] \in {"refreshing", "polling"}
    /\ Rests(c)
    /\ UNCHANGED <<provider, clock, issued, cache, failures, attached, history>>

(* Mutation: the deadline is forgotten.                                    *)
NeverOver(c) == FALSE

CodeExpired(c) == clock >= held[c].expires

LoginTimesOut(c) ==
    /\ pc[c] = "polling" /\ CodeExpired(c)
    /\ Ends(c)
    /\ UNCHANGED <<provider, clock, issued, cache, failures, history>>

(* If another caller wrote between the opening and the writing, and wrote  *)
(* more, the end of its text remains.                                      *)
Written(c) ==
    IF c \notin attached THEN {cache}
    ELSE {Whole(held[c])} \cup (IF cache.state = "torn" THEN {} ELSE {TornFile})

WriteCache(c) ==
    /\ pc[c] = "writing"
    /\ cache' \in Written(c)
    /\ attached' = attached \ {c}
    /\ Rests(c)
    /\ UNCHANGED <<provider, clock, issued, failures, history>>
-----------------------------------------------------------------------------
(* A Google manager goes with its run.                                     *)
DropManager(c) ==
    /\ provider = "google" /\ pc[c] = "idle"
    /\ Ends(c)
    /\ UNCHANGED <<provider, clock, issued, cache, failures, history>>

(* Mutation: the file is emptied and left there.                           *)
EmptiedFile == TornFile

Removed == NoFile

(* auth logout                                                             *)
Logout ==
    /\ provider = "microsoft" /\ cache.state # "none"
    /\ cache' = Removed
    /\ attached' = {}
    /\ out' = TRUE /\ early' = Busy /\ revived' = FALSE
    /\ UNCHANGED <<provider, clock, issued, pc, held, failures, omitted, excused>>

(* The server has answered and the answer does not arrive.                 *)
AnswerLost(c) ==
    /\ Fail
    /\ pc[c] \in {"refreshing", "polling"}
    /\ provider = "microsoft" /\ issued < MaxIssued
    /\ issued' = issued + 1
    /\ excused' = TRUE
    /\ Ends(c)
    /\ UNCHANGED <<provider, clock, cache, omitted, out, early, revived>>

(* The process ends; a file that it was writing stays as it is.            *)
CallerDies(c) ==
    /\ Fail
    /\ pc[c] \in {"refreshing", "polling", "writing"}
    /\ excused' = (excused \/ pc[c] = "writing")
    /\ Ends(c)
    /\ UNCHANGED <<provider, clock, issued, cache, omitted, out, early, revived>>

Returns(c) == RefreshAnswered(c) \/ Refused(c) \/ LoginTimesOut(c) \/ WriteCache(c)

Next ==
    \/ Tick \/ Provide \/ Logout
    \/ \E c \in Callers :
        \/ GetAccessToken(c) \/ Login(c)       \/ MakeManager(c) \/ GetToken(c)
        \/ Returns(c)        \/ LoginAnswered(c) \/ DropManager(c)
        \/ AnswerLost(c)     \/ CallerDies(c)

(* Requests have timeouts and the clock goes on; nobody has to authorize a *)
(* code.                                                                   *)
Fairness ==
    /\ WF_vars(Tick)
    /\ \A c \in Callers :
        /\ WF_vars(pc[c] = "refreshing" /\ (Refused(c) \/ RefreshAnswered(c)))
        /\ WF_vars(LoginTimesOut(c)) /\ WF_vars(WriteCache(c))

Spec == Init /\ [][Next]_vars /\ Fairness
-----------------------------------------------------------------------------
(* The cache has the refresh token that was issued last, so an expired     *)
(* token can be refreshed, unless the last Microsoft answer had none;      *)
(* it parses, unless somebody is writing it.  Calls that overlap, an       *)
(* answer that was lost and a caller that died while it wrote excuse the   *)
(* file, until the next Microsoft answer to a call that is alone sets it   *)
(* right, or the user a Google one; so does a cache the user replaced      *)
(* under a manager (save_cache, _save_cache).                              *)
RefreshTokenKept ==
    \/ excused
    \/ cache.state = "none"
    \/ cache.state = "torn" /\ \E c \in attached : pc[c] = "writing"
    \/ /\ cache.state = "whole"
       /\ cache.refresh = (IF omitted THEN NoToken ELSE issued)

(* "Remove cached Microsoft Graph token" (auth logout): it stays removed,  *)
(* unless a call that was under way then stores its answer later.          *)
LogoutHolds == out /\ ~ revived => cache.state = "none"

(* Every call ends: a login that nobody authorizes when its code expires,  *)
(* however often the answer is authorization_pending or slow_down.         *)
CallsEnd == \A c \in Callers : c \in Busy ~> c \notin Busy
===============================================================================
