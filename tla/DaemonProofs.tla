---------------------------- MODULE DaemonProofs ------------------------------
(***************************************************************************)
(* Theorems about Daemon, for any process ids, commands and files; about   *)
(* Scheduler, for any set of job ids and any bounds; and about Migrations, *)
(* for any processes and users.                                            *)
(*                                                                         *)
(* The argument for the PID file: a daemon that started alone is the only  *)
(* process of the daemon there is, and every start command under way has   *)
(* read its id (SoleDaemon).  As long as it lives these commands are       *)
(* refused, so nobody truncates the file or writes another id to it, and   *)
(* nobody else is there to remove it.  The argument for the watcher: a     *)
(* file outside the window has been called back with the time of the last  *)
(* poll or a later one (WindowHoldsTheRest), and a daemon that closes has  *)
(* an empty window (ClosedAfterCallBack).                                  *)
(*                                                                         *)
(* The argument for the scheduler: the table, the registered tasks and the *)
(* loops are related through two histories.  A loop that is alive is       *)
(* either the registered one, and then serves the listed job, or one whose *)
(* entry add_job overwrote; such a loop is never registered again          *)
(* (ReplacedUnregistered), so nothing that is done to a registered task    *)
(* touches it.  The file is only ever written from the table, and what     *)
(* add_job and remove_job answered describes the table (AnswersListed):    *)
(* therefore it describes the file as well.                                *)
(*                                                                         *)
(* The argument for the migrations: what a process has executed is there   *)
(* for it to see (Executed), in its transaction if it holds one, and       *)
(* nobody upsets a transaction that is under way (HolderOf).  So the row   *)
(* of a version is written where its tables, its columns and its roles     *)
(* are; in the midst of an upgrade the roles are those of two versions,    *)
(* less the ones already replaced (RolesAtWork).  What dooms a process to  *)
(* raise is a statement of another that takes effect before its own; who   *)
(* has just executed that statement is not doomed (Undoomed), so one of    *)
(* those at work never is, until the last version is recorded (Survivor).  *)
(***************************************************************************)
EXTENDS Daemon, Scheduler, Migrations, FiniteSetTheorems, SequenceTheorems,
        WellFoundedInduction, TLAPS
-----------------------------------------------------------------------------
(***************************************************************************)
(* The daemon                                                              *)
(***************************************************************************)
(* A daemon that did not race is named, is alone, and is what every start  *)
(* under way has read.                                                     *)
SoleDaemon ==
    \A p \in Pids : proc[p] \in Daemons /\ p \notin raced =>
        /\ pidFile = p
        /\ \A q \in Pids \ {p} : proc[q] \notin Starting \cup Daemons
        /\ \A s \in Starts : start[s] \in {Idle, p}

(* What the last poll found is in the window or has been called back.      *)
WindowHoldsTheRest ==
    \A p \in Pids, f \in Files : f \notin pending[p] => told[p][f] >= known[p][f]

ClosedAfterCallBack == \A p \in Pids : proc[p] = "closing" => pending[p] = {}

IInv ==
    /\ TypeOK
    /\ SoleDaemon
    /\ NameIsDaemon
    /\ WindowHoldsTheRest
    /\ ClosedAfterCallBack
-----------------------------------------------------------------------------
LEMMA InitIInv == Init => IInv
<1> SUFFICES ASSUME Init PROVE IInv
    OBVIOUS
<1> USE DEF Init
<1>1. Nothing \in [Files -> Mtimes]
    BY ConstantsAssumption DEF Nothing, Mtimes
<1>2. TypeOK
    <2>1. start \in [Starts -> Pids \cup {NoPid, Idle}]
        OBVIOUS
    <2>2. proc \in [Pids -> Starting \cup Daemons \cup Others]
        BY DEF Others
    <2>3. known \in [Pids -> [Files -> Mtimes]] /\ told \in [Pids -> [Files -> Mtimes]]
        BY <1>1
    <2>4. pending \in [Pids -> SUBSET Files] /\ kills \in 0..MaxKills
        BY ConstantsAssumption
    <2> QED
        BY <2>1, <2>2, <2>3, <2>4 DEF TypeOK
<1>3. SoleDaemon /\ ClosedAfterCallBack
    BY DEF SoleDaemon, ClosedAfterCallBack, Daemons
<1>4. NameIsDaemon
    BY ConstantsAssumption DEF NameIsDaemon
<1>5. WindowHoldsTheRest
    BY <1>1 DEF WindowHoldsTheRest, Nothing
<1> QED
    BY <1>2, <1>3, <1>4, <1>5 DEF IInv

(* A process id in the file is what a command reads.                       *)
LEMMA ReadPidType == ReadPid \in Pids \cup {NoPid} /\ (pidFile \in Pids => ReadPid = pidFile)
BY DEF ReadPid
-----------------------------------------------------------------------------
(***************************************************************************)
(* The PID file: each lemma below says what a kind of step does to it.     *)
(***************************************************************************)
PidFileInv == SoleDaemon /\ NameIsDaemon

pidVars == <<pidFile, proc, start, raced, unclean>>

(* A process goes on without touching the file.                            *)
LEMMA MovesOn ==
    ASSUME TypeOK, PidFileInv, NEW p \in Pids, NEW state, Is(p, state),
           \/ state \in Daemons /\ proc[p] \in Daemons
           \/ state \in Others /\ proc[p] \in Others,
           UNCHANGED <<pidFile, start, raced, unclean>>
    PROVE  PidFileInv'
<1>1. \A q \in Pids : proc'[q] = IF q = p THEN state ELSE proc[q]
    BY DEF TypeOK, Is
<1>2. state \in Daemons <=> proc[p] \in Daemons
    BY DEF Daemons, Others
<1>3. proc[p] \notin Starting /\ state \notin Starting
    BY DEF Starting, Daemons, Others
<1> QED
    BY <1>1, <1>2, <1>3 DEF PidFileInv, SoleDaemon, NameIsDaemon

(* A process ends without its clean-up.                                    *)
LEMMA EndsAtOnce ==
    ASSUME TypeOK, PidFileInv, NEW p \in Pids, Dies(p), UNCHANGED start
    PROVE  PidFileInv'
<1>1. \A q \in Pids : proc'[q] = IF q = p THEN "free" ELSE proc[q]
    BY DEF TypeOK, Is, Dies
<1>2. "free" \notin Starting \cup Daemons
    BY DEF Starting, Daemons
<1>3. /\ raced' = raced \ {p} /\ pidFile' = pidFile
      /\ unclean' = IF proc[p] \in Daemons THEN unclean \cup {p} ELSE unclean
    BY DEF Dies
<1> QED
    BY <1>1, <1>2, <1>3 DEF PidFileInv, SoleDaemon, NameIsDaemon

LEMMA StartReadsPid ==
    ASSUME TypeOK, PidFileInv, NEW s \in Starts, StartReads(s)
    PROVE  PidFileInv'
<1>1. /\ UNCHANGED <<pidFile, proc, raced, unclean>>
      /\ \A t \in Starts : start'[t] = IF t = s THEN ReadPid ELSE start[t]
    BY DEF StartReads, TypeOK, history
<1> QED
    BY <1>1, ReadPidType DEF PidFileInv, SoleDaemon, NameIsDaemon

LEMMA StartRefusedPid ==
    ASSUME TypeOK, PidFileInv, NEW s \in Starts, StartRefused(s)
    PROVE  PidFileInv'
<1>1. /\ UNCHANGED <<pidFile, proc, raced, unclean>>
      /\ \A t \in Starts : start'[t] = IF t = s THEN Idle ELSE start[t]
    BY DEF StartRefused, TypeOK, history
<1> QED
    BY <1>1 DEF PidFileInv, SoleDaemon, NameIsDaemon

(* A start forks only while no daemon that started alone is alive: what it *)
(* read would be the id of that daemon.                                    *)
LEMMA ForkPid ==
    ASSUME TypeOK, PidFileInv, NEW s \in Starts, NEW p \in Pids, Fork(s, p)
    PROVE  PidFileInv'
<1>1. /\ UNCHANGED <<pidFile, raced, unclean>>
      /\ \A t \in Starts : start'[t] = IF t = s THEN Idle ELSE start[t]
      /\ \A q \in Pids : proc'[q] = IF q = p THEN "forked" ELSE proc[q]
    BY DEF Fork, TypeOK, history, Is
<1>2. ~ \E q \in Pids : proc[q] \in Daemons /\ q \notin raced
    <2> SUFFICES ASSUME NEW q \in Pids, proc[q] \in Daemons, q \notin raced
                 PROVE  FALSE
        OBVIOUS
    <2>1. start[s] = q
        BY DEF PidFileInv, SoleDaemon, Fork
    <2>2. q # NoPid /\ Alive(q)
        BY ConstantsAssumption DEF Alive, Daemons
    <2> QED
        BY <2>1, <2>2 DEF Fork, IsRunning
<1>3. proc[p] = "free" /\ "forked" \notin Daemons /\ "free" \notin Daemons
    BY DEF Fork, Daemons
<1>4. SoleDaemon'
    BY <1>1, <1>2, <1>3 DEF SoleDaemon
<1>5. NameIsDaemon'
    BY <1>1, <1>3 DEF PidFileInv, NameIsDaemon
<1> QED
    BY <1>4, <1>5 DEF PidFileInv

LEMMA TruncatePid ==
    ASSUME TypeOK, PidFileInv, NEW p \in Pids, TruncatePidFile(p)
    PROVE  PidFileInv'
<1>1. /\ UNCHANGED <<start, raced, unclean>> /\ pidFile' = Empty
      /\ \A q \in Pids : proc'[q] = IF q = p THEN "writing" ELSE proc[q]
    BY DEF TruncatePidFile, TypeOK, history, commands, Is
<1>2. proc[p] \in Starting /\ proc[p] \notin Daemons /\ "writing" \notin Daemons
    BY DEF TruncatePidFile, Starting, Daemons
<1>3. ~ \E q \in Pids : proc'[q] \in Daemons /\ q \notin raced'
    BY <1>1, <1>2 DEF PidFileInv, SoleDaemon
<1> QED
    BY <1>1, <1>3, ConstantsAssumption DEF PidFileInv, SoleDaemon, NameIsDaemon

(* Who writes its id while nobody else starts and no racer lives is alone. *)
LEMMA WritePidPid ==
    ASSUME TypeOK, PidFileInv, NEW p \in Pids, WritePid(p)
    PROVE  PidFileInv'
<1>1. /\ UNCHANGED start /\ pidFile' = p /\ unclean' = unclean \ {p}
      /\ raced' = IF Races(p) THEN raced \cup {p} ELSE raced \ {p}
      /\ \A q \in Pids : proc'[q] = IF q = p THEN "named" ELSE proc[q]
    BY DEF WritePid, TypeOK, commands, Is
<1>2. proc[p] \in Starting /\ "named" \in Daemons /\ proc[p] \notin Daemons
    BY DEF WritePid, Starting, Daemons
<1>3. \A q \in Pids : proc[q] \in Daemons => q \in raced /\ q # p
    BY <1>2 DEF PidFileInv, SoleDaemon
<1>4. CASE Races(p)
    BY <1>1, <1>2, <1>3, <1>4 DEF PidFileInv, SoleDaemon, NameIsDaemon
<1>5. CASE ~ Races(p)
    <2>1. \A s \in Starts : start'[s] = Idle
        BY <1>1, <1>5 DEF Races
    <2>2. \A q \in Pids \ {p} : proc[q] \notin Starting \cup Daemons
        BY <1>3, <1>5 DEF Races
    <2> QED
        BY <1>1, <1>2, <2>1, <2>2 DEF PidFileInv, SoleDaemon, NameIsDaemon
<1> QED
    BY <1>4, <1>5

(* The daemon that removes the file is the one it names, or none is.       *)
LEMMA StopSchedulerPid ==
    ASSUME TypeOK, PidFileInv, NEW p \in Pids, StopScheduler(p)
    PROVE  PidFileInv'
<1>1. /\ UNCHANGED <<start, unclean>> /\ pidFile' = NoPid /\ raced' = raced \ {p}
      /\ \A q \in Pids : proc'[q] = IF q = p THEN "exiting" ELSE proc[q]
    BY DEF StopScheduler, RemovePid, TypeOK, commands, Is
<1>2. proc[p] \in Daemons /\ "exiting" \notin Daemons
    BY DEF StopScheduler, Daemons
<1>3. ~ \E q \in Pids : proc'[q] \in Daemons /\ q \notin raced'
    BY <1>1, <1>2 DEF PidFileInv, SoleDaemon
<1> QED
    BY <1>1, <1>3, ConstantsAssumption DEF PidFileInv, SoleDaemon, NameIsDaemon

LEMMA PidFileStep == TypeOK /\ PidFileInv /\ [Next]_vars => PidFileInv'
<1> SUFFICES ASSUME TypeOK, PidFileInv, [Next]_vars PROVE PidFileInv'
    OBVIOUS
<1> USE DEF commands, history
<1>1. ASSUME UNCHANGED pidVars PROVE PidFileInv'
    BY <1>1 DEF pidVars, PidFileInv, SoleDaemon, NameIsDaemon
<1>2. ASSUME NEW s \in Starts, StartReads(s) \/ StartRefused(s) \/ \E p \in Pids : Fork(s, p)
      PROVE  PidFileInv'
    BY <1>2, StartReadsPid, StartRefusedPid, ForkPid
<1>3. ASSUME NEW p \in Pids, Proceed(p) PROVE PidFileInv'
    <2>1. CASE Prepare(p) \/ Serve(p)
        BY <2>1, MovesOn DEF Prepare, Serve, Preparing, Daemons
    <2>2. CASE StopWatcher(p)
        BY <2>2, MovesOn DEF StopWatcher, Daemons
    <2>3. CASE Exit(p)
        BY <2>3, MovesOn DEF Exit, Others
    <2> QED
        BY <1>3, <2>1, <2>2, <2>3, TruncatePid, WritePidPid, StopSchedulerPid DEF Proceed
<1>4. ASSUME NEW p \in Pids,
             StartWatcher(p) \/ Poll(p) \/ Flush(p) \/ SignalIgnored(p)
      PROVE  PidFileInv'
    BY <1>1, <1>4 DEF StartWatcher, Poll, Flush, SignalIgnored, Done, pidVars
<1>5. ASSUME NEW p \in Pids, Killed(p) \/ SignalEndsProcess(p) \/ SignalEndsCleanup(p)
      PROVE  PidFileInv'
    BY <1>5, EndsAtOnce DEF Killed, SignalEndsProcess, SignalEndsCleanup, Done
<1>6. ASSUME NEW p \in Pids,
             OtherProgramStarts(p) \/ OtherProgramEnds(p) \/ SignalStopsLoop(p)
      PROVE  PidFileInv'
    <2>1. CASE OtherProgramStarts(p)
        BY <2>1, MovesOn DEF OtherProgramStarts, Others
    <2>2. CASE OtherProgramEnds(p)
        BY <2>2, MovesOn DEF OtherProgramEnds, Others
    <2>3. CASE SignalStopsLoop(p)
        BY <2>3, MovesOn DEF SignalStopsLoop, Done, Daemons
    <2> QED
        BY <1>6, <2>1, <2>2, <2>3
<1>7. CASE \/ StopReads \/ StopReadsAgain \/ StopFindsRunning \/ StopRefused
           \/ (\E f \in Files : FileChanges(f)) \/ UNCHANGED vars
    BY <1>1, <1>7 DEF StopReads, StopReadsAgain, StopFindsRunning, StopRefused, Done,
                      FileChanges, vars, pidVars
<1> QED
    BY <1>2, <1>3, <1>4, <1>5, <1>6, <1>7 DEF Next
-----------------------------------------------------------------------------
(***************************************************************************)
(* The watcher                                                             *)
(***************************************************************************)
WatcherInv == WindowHoldsTheRest /\ ClosedAfterCallBack

(* The callback gets the window with the times of the last poll.           *)
LEMMA CallBackEffect ==
    ASSUME TypeOK, WatcherInv, NEW p \in Pids, CallBack(p), UNCHANGED known
    PROVE  /\ WindowHoldsTheRest'
           /\ \A q \in Pids : pending'[q] = IF q = p THEN {} ELSE pending[q]
<1>1. \A q \in Pids : pending'[q] = IF q = p THEN {} ELSE pending[q]
    BY DEF CallBack, TypeOK
<1>2. \A q \in Pids, f \in Files :
        told'[q][f] = IF q = p /\ f \in pending[p] THEN known[p][f] ELSE told[q][f]
    BY DEF CallBack, TypeOK
<1>3. \A q \in Pids, f \in Files : known[q][f] \in Mtimes
    BY DEF TypeOK
<1> QED
    BY <1>1, <1>2, <1>3 DEF WatcherInv, WindowHoldsTheRest, Mtimes

LEMMA ForgetEffect ==
    ASSUME TypeOK, WatcherInv, NEW p \in Pids, Forget(p), NEW state, Is(p, state),
           state # "closing"
    PROVE  WatcherInv'
<1>1. \A q \in Pids : proc'[q] = IF q = p THEN state ELSE proc[q]
    BY DEF TypeOK, Is
<1>2. \A q \in Pids : /\ known'[q] = IF q = p THEN Nothing ELSE known[q]
                      /\ told'[q] = IF q = p THEN Nothing ELSE told[q]
                      /\ pending'[q] = IF q = p THEN {} ELSE pending[q]
    BY DEF Forget, TypeOK
<1> QED
    BY <1>1, <1>2 DEF WatcherInv, WindowHoldsTheRest, ClosedAfterCallBack, Nothing

(* Steps that are not the watcher's: no process begins to close.           *)
LEMMA WatcherUntouched ==
    ASSUME TypeOK, WatcherInv, UNCHANGED <<known, pending, told>>,
           \A q \in Pids : proc'[q] = "closing" => proc[q] = "closing"
    PROVE  WatcherInv'
BY DEF WatcherInv, WindowHoldsTheRest, ClosedAfterCallBack

(* A process goes on to a state other than closing.                        *)
LEMMA NotClosing ==
    ASSUME TypeOK, NEW p \in Pids, NEW state, Is(p, state), state # "closing"
    PROVE  \A q \in Pids : proc'[q] = "closing" => proc[q] = "closing"
BY DEF TypeOK, Is

LEMMA StartWatcherStep ==
    ASSUME TypeOK, WatcherInv, NEW p \in Pids, StartWatcher(p)
    PROVE  WatcherInv'
<1>1. \A q \in Pids : /\ known'[q] = IF q = p THEN mtime ELSE known[q]
                      /\ told'[q] = IF q = p THEN mtime ELSE told[q]
    BY DEF StartWatcher, TypeOK
<1>2. UNCHANGED <<proc, pending>> /\ \A f \in Files : mtime[f] \in Int
    BY DEF StartWatcher, TypeOK, Mtimes
<1> QED
    BY <1>1, <1>2 DEF WatcherInv, WindowHoldsTheRest, ClosedAfterCallBack

(* What a poll leaves out of the window is not newer than at the last poll.*)
LEMMA PollStep ==
    ASSUME TypeOK, WatcherInv, NEW p \in Pids, Poll(p)
    PROVE  WatcherInv'
<1>1. \A q \in Pids : /\ known'[q] = IF q = p THEN mtime ELSE known[q]
                      /\ pending'[q] = IF q = p THEN pending[p] \cup Changed(p) ELSE pending[q]
    BY DEF Poll, TypeOK
<1>2. UNCHANGED <<proc, told>> /\ proc[p] = "serving"
    BY DEF Poll
<1>3. \A f \in Files : mtime[f] \in Int /\ known[p][f] \in Int /\ told[p][f] \in Int
    BY DEF TypeOK, Mtimes
<1>4. ASSUME NEW f \in Files, f \notin pending'[p]
      PROVE  told'[p][f] >= known'[p][f]
    <2>1. f \notin pending[p] /\ ~ (mtime[f] > known[p][f])
        BY <1>1, <1>4 DEF Changed
    <2>2. told[p][f] >= known[p][f]
        BY <2>1 DEF WatcherInv, WindowHoldsTheRest
    <2> QED
        BY <1>1, <1>2, <1>3, <2>1, <2>2
<1> QED
    BY <1>1, <1>2, <1>4 DEF WatcherInv, WindowHoldsTheRest, ClosedAfterCallBack

LEMMA WatcherStep == TypeOK /\ WatcherInv /\ [Next]_vars => WatcherInv'
<1> SUFFICES ASSUME TypeOK, WatcherInv, [Next]_vars PROVE WatcherInv'
    OBVIOUS
<1>1. ASSUME UNCHANGED watcher, UNCHANGED proc PROVE WatcherInv'
    BY <1>1, WatcherUntouched DEF watcher
<1>2. ASSUME UNCHANGED watcher, NEW p \in Pids, NEW state, Is(p, state), state # "closing"
      PROVE  WatcherInv'
    BY <1>2, WatcherUntouched, NotClosing DEF watcher
<1>3. ASSUME NEW s \in Starts, StartReads(s) \/ StartRefused(s) \/ \E p \in Pids : Fork(s, p)
      PROVE  WatcherInv'
    BY <1>1, <1>2, <1>3 DEF StartReads, StartRefused, Fork
<1>4. ASSUME NEW p \in Pids, Proceed(p) PROVE WatcherInv'
    <2>1. CASE TruncatePidFile(p) \/ WritePid(p) \/ Prepare(p) \/ Serve(p) \/ Exit(p)
        BY <1>2, <2>1 DEF TruncatePidFile, WritePid, Prepare, Serve, Exit
    <2>2. CASE StopWatcher(p)
        <3>1. \A q \in Pids : proc'[q] = IF q = p THEN "closing" ELSE proc[q]
            BY <2>2 DEF StopWatcher, Is, TypeOK
        <3> QED
            BY <2>2, <3>1, CallBackEffect DEF StopWatcher, WatcherInv, ClosedAfterCallBack
    <2>3. CASE StopScheduler(p)
        BY <2>3, ForgetEffect DEF StopScheduler
    <2> QED
        BY <1>4, <2>1, <2>2, <2>3 DEF Proceed
<1>5. ASSUME NEW p \in Pids, Flush(p) PROVE WatcherInv'
    <2>1. UNCHANGED proc
        BY <1>5 DEF Flush
    <2> QED
        BY <1>5, <2>1, CallBackEffect DEF Flush, WatcherInv, ClosedAfterCallBack
<1>6. ASSUME NEW p \in Pids, Killed(p) \/ SignalEndsProcess(p) \/ SignalEndsCleanup(p)
      PROVE  WatcherInv'
    BY <1>6, ForgetEffect DEF Killed, SignalEndsProcess, SignalEndsCleanup, Dies
<1>7. ASSUME NEW p \in Pids,
             \/ OtherProgramStarts(p) \/ OtherProgramEnds(p)
             \/ SignalStopsLoop(p) \/ SignalIgnored(p)
      PROVE  WatcherInv'
    BY <1>1, <1>2, <1>7
    DEF OtherProgramStarts, OtherProgramEnds, SignalStopsLoop, SignalIgnored
<1>8. CASE \/ StopReads \/ StopReadsAgain \/ StopFindsRunning \/ StopRefused
           \/ (\E f \in Files : FileChanges(f)) \/ UNCHANGED vars
    BY <1>1, <1>8 DEF StopReads, StopReadsAgain, StopFindsRunning, StopRefused, FileChanges, vars
<1> QED
    BY <1>3, <1>4, <1>5, <1>6, <1>7, <1>8, StartWatcherStep, PollStep DEF Next
-----------------------------------------------------------------------------
(***************************************************************************)
(* Types                                                                   *)
(***************************************************************************)
LEMMA ForgetTypes ==
    ASSUME TypeOK, NEW p \in Pids, Forget(p)
    PROVE  /\ watching' \subseteq Pids
           /\ known' \in [Pids -> [Files -> Mtimes]]
           /\ told' \in [Pids -> [Files -> Mtimes]]
           /\ pending' \in [Pids -> SUBSET Files]
<1>1. Nothing \in [Files -> Mtimes]
    BY ConstantsAssumption DEF Nothing, Mtimes
<1> QED
    BY <1>1 DEF Forget, TypeOK

LEMMA CallBackTypes ==
    ASSUME TypeOK, NEW p \in Pids, CallBack(p)
    PROVE  /\ told' \in [Pids -> [Files -> Mtimes]]
           /\ pending' \in [Pids -> SUBSET Files]
<1>1. [f \in Files |-> IF f \in pending[p] THEN known[p][f] ELSE told[p][f]]
            \in [Files -> Mtimes]
    BY DEF TypeOK
<1>2. told' = [told EXCEPT ![p] =
                  [f \in Files |-> IF f \in pending[p] THEN known[p][f] ELSE told[p][f]]]
    BY DEF CallBack, TypeOK
<1>3. pending' \in [Pids -> SUBSET Files]
    BY DEF CallBack, TypeOK
<1> QED
    BY <1>1, <1>2, <1>3 DEF TypeOK

LEMMA IsType ==
    ASSUME TypeOK, NEW p \in Pids, NEW state \in Starting \cup Daemons \cup Others, Is(p, state)
    PROVE  proc' \in [Pids -> Starting \cup Daemons \cup Others]
BY DEF TypeOK, Is

LEMMA DiesTypes ==
    ASSUME TypeOK, NEW p \in Pids, Dies(p), UNCHANGED start,
           kills' \in 0..MaxKills, stop' \in Pids \cup {Idle},
           asked' \in Pids \cup {NoPid, Idle}, found' \in BOOLEAN
    PROVE  TypeOK'
<1>1. proc' \in [Pids -> Starting \cup Daemons \cup Others]
    BY IsType DEF Dies, Others
<1>2. raced' \subseteq Pids /\ unclean' \subseteq Pids /\ UNCHANGED <<pidFile, mtime>>
    BY DEF Dies, TypeOK
<1> QED
    BY <1>1, <1>2, ForgetTypes DEF Dies, TypeOK

LEMMA TypeStep == TypeOK /\ [Next]_vars => TypeOK'
<1> SUFFICES ASSUME TypeOK, [Next]_vars PROVE TypeOK'
    OBVIOUS
<1> USE DEF commands, stopCommand, watcher, history
<1>1. ASSUME NEW s \in Starts, StartReads(s) \/ StartRefused(s)
      PROVE  TypeOK'
    BY <1>1, ReadPidType DEF StartReads, StartRefused, TypeOK
<1>2. ASSUME NEW s \in Starts, NEW p \in Pids, Fork(s, p)
      PROVE  TypeOK'
    BY <1>2, IsType DEF Fork, TypeOK, Starting
<1>3. ASSUME NEW p \in Pids, Proceed(p) PROVE TypeOK'
    <2>1. CASE TruncatePidFile(p)
        BY <2>1, IsType DEF TruncatePidFile, TypeOK, Starting
    <2>2. CASE WritePid(p)
        BY <2>2, IsType DEF WritePid, TypeOK, Daemons
    <2>3. CASE Prepare(p) \/ Serve(p)
        BY <2>3, IsType DEF Prepare, Serve, TypeOK, Daemons
    <2>4. CASE StopWatcher(p)
        <3>1. proc' \in [Pids -> Starting \cup Daemons \cup Others]
            BY <2>4, IsType DEF StopWatcher, Daemons
        <3> QED
            BY <2>4, <3>1, CallBackTypes DEF StopWatcher, TypeOK
    <2>5. CASE StopScheduler(p)
        <3>1. proc' \in [Pids -> Starting \cup Daemons \cup Others]
            BY <2>5, IsType DEF StopScheduler, Others
        <3> QED
            BY <2>5, <3>1, ForgetTypes DEF StopScheduler, RemovePid, TypeOK
    <2>6. CASE Exit(p)
        BY <2>6, IsType DEF Exit, TypeOK, Others
    <2> QED
        BY <1>3, <2>1, <2>2, <2>3, <2>4, <2>5, <2>6 DEF Proceed
<1>4. ASSUME NEW p \in Pids, StartWatcher(p) PROVE TypeOK'
    BY <1>4 DEF StartWatcher, TypeOK
<1>5. ASSUME NEW p \in Pids, Poll(p) PROVE TypeOK'
    BY <1>5 DEF Poll, Changed, TypeOK
<1>6. ASSUME NEW p \in Pids, Flush(p) PROVE TypeOK'
    BY <1>6, CallBackTypes DEF Flush, TypeOK
<1>7. ASSUME NEW p \in Pids, Killed(p) PROVE TypeOK'
    <2>1. kills' \in 0..MaxKills
        BY <1>7, ConstantsAssumption DEF Killed, TypeOK
    <2>2. /\ stop' \in Pids \cup {Idle}
          /\ asked' \in Pids \cup {NoPid, Idle} /\ found' \in BOOLEAN
        BY <1>7 DEF Killed, TypeOK
    <2> QED
        BY <1>7, <2>1, <2>2, DiesTypes DEF Killed
<1>8. ASSUME NEW p \in Pids, SignalEndsProcess(p) \/ SignalEndsCleanup(p)
      PROVE  TypeOK'
    <2>1. /\ Dies(p) /\ UNCHANGED start
          /\ kills' \in 0..MaxKills /\ stop' \in Pids \cup {Idle}
          /\ asked' \in Pids \cup {NoPid, Idle} /\ found' \in BOOLEAN
        BY <1>8 DEF SignalEndsProcess, SignalEndsCleanup, Done, TypeOK
    <2> QED
        BY <2>1, DiesTypes
<1>9. ASSUME NEW p \in Pids, SignalStopsLoop(p) PROVE TypeOK'
    <2>1. proc' \in [Pids -> Starting \cup Daemons \cup Others]
        BY <1>9, IsType DEF SignalStopsLoop, Daemons
    <2> QED
        BY <1>9, <2>1 DEF SignalStopsLoop, Done, TypeOK
<1>10. ASSUME NEW p \in Pids, SignalIgnored(p) PROVE TypeOK'
    BY <1>10 DEF SignalIgnored, Done, TypeOK
<1>11. ASSUME NEW p \in Pids, OtherProgramStarts(p) PROVE TypeOK'
    BY <1>11, IsType DEF OtherProgramStarts, TypeOK, Others
<1>12. ASSUME NEW p \in Pids, OtherProgramEnds(p) PROVE TypeOK'
    BY <1>12, IsType DEF OtherProgramEnds, TypeOK, Others
<1>13. ASSUME NEW f \in Files, FileChanges(f) PROVE TypeOK'
    BY <1>13 DEF FileChanges, TypeOK
<1>14. CASE StopReads \/ StopReadsAgain \/ StopFindsRunning \/ StopRefused
    BY <1>14, ReadPidType DEF StopReads, StopReadsAgain, StopFindsRunning, StopRefused, Done, TypeOK
<1>15. CASE UNCHANGED vars
    BY <1>15 DEF vars, TypeOK
<1> QED
    BY <1>1, <1>2, <1>3, <1>4, <1>5, <1>6, <1>7, <1>8, <1>9, <1>10, <1>11, <1>12, <1>13,
        <1>14, <1>15 DEF Next
-----------------------------------------------------------------------------
(* The strengthened invariant holds in every reachable state.              *)
THEOREM Invariance == Spec => []IInv
<1>1. Init => IInv
    BY InitIInv
<1>2. IInv /\ [Next]_vars => IInv'
    BY TypeStep, PidFileStep, WatcherStep DEF IInv, PidFileInv, WatcherInv
<1> QED
    BY <1>1, <1>2, PTL DEF Spec

(* Every variable keeps its type.                                          *)
THEOREM TypeCorrect == Spec => []TypeOK
<1>1. IInv => TypeOK
    BY DEF IInv
<1> QED
    BY <1>1, Invariance, PTL

(* A daemon that did not race with another start is the one the PID file   *)
(* names, and the file names no process but a daemon or one that ended     *)
(* without its clean-up: for any number of starts, reuses of ids, signals  *)
(* and kills.                                                              *)
THEOREM PidFileAlwaysTells == Spec => []PidFileTells
<1>1. IInv => PidFileTells
    BY DEF IInv, SoleDaemon, PidFileTells, DaemonIsNamed
<1> QED
    BY <1>1, Invariance, PTL

(* A change the callback was not told of is in the window or is found by   *)
(* the next poll, however files change, and a daemon that closes has told  *)
(* of all its polls found.                                                 *)
THEOREM NoChangeIsLost == Spec => []ChangesAccounted
<1>1. ASSUME IInv PROVE ChangesAccounted
    <2> SUFFICES ASSUME NEW p \in watching, NEW f \in Files
                 PROVE  /\ mtime[f] > told[p][f] => f \in pending[p] \/ mtime[f] > known[p][f]
                        /\ proc[p] = "closing" => pending[p] = {} /\ told[p][f] >= known[p][f]
        BY DEF ChangesAccounted
    <2>1. p \in Pids /\ mtime[f] \in Int /\ told[p][f] \in Int /\ known[p][f] \in Int
        BY <1>1 DEF IInv, TypeOK, Mtimes
    <2>2. f \notin pending[p] => told[p][f] >= known[p][f]
        BY <1>1, <2>1 DEF IInv, WindowHoldsTheRest
    <2>3. proc[p] = "closing" => pending[p] = {}
        BY <1>1, <2>1 DEF IInv, ClosedAfterCallBack
    <2> QED
        BY <2>1, <2>2, <2>3
<1> QED
    BY <1>1, Invariance, PTL
-----------------------------------------------------------------------------
(***************************************************************************)
(* The scheduler                                                           *)
(***************************************************************************)
(* The owner does not start a scheduler that is being stopped.             *)
StartsAfterStop == ~ (running /\ stopping)

(* A loop whose entry was overwritten is registered nowhere.               *)
ReplacedUnregistered == \A i \in Ids, n \in Tasks : <<i, n>> \in replaced => tasks[i] # n

(* What was answered last for an id is true of the table.                  *)
AnswersListed ==
    \A i \in Ids : /\ answered[i] = "listed" => jobs[i] # None
                   /\ answered[i] = "unlisted" => jobs[i] = None

SchedulerIInv ==
    /\ SchedulerTypeOK
    /\ StartsAfterStop
    /\ ListedJobsHaveTheirLoop
    /\ LoopsAccountedFor
    /\ ReplacedUnregistered
    /\ AnswersListed
    /\ AnswersSurvive
-----------------------------------------------------------------------------
(* Least picks a member of every non-empty set of positive numbers.        *)
LEMMA LeastInSet ==
    ASSUME NEW n \in Nat, NEW S \in SUBSET (1..n), S # {}
    PROVE  Least(S) \in S
<1>1. S \subseteq Nat
    OBVIOUS
<1>2. PICK x \in S : \A y \in S : ~ (<<y, x>> \in OpToRel(<, Nat))
    BY <1>1, WFMin, NatLessThanWellFounded
<1>3. \A y \in S : ~ (y < x)
    BY <1>1, <1>2 DEF OpToRel
<1>4. \A y \in S : x <= y
    BY <1>1, <1>3
<1> QED
    BY <1>4 DEF Least

LEMMA FreeObject ==
    ASSUME SchedulerTypeOK, NEW i \in Ids, FreeObjects(i) # {}
    PROVE  Least(FreeObjects(i)) \in FreeObjects(i)
BY LeastInSet, BoundsAssumption DEF FreeObjects, Objects

LEMMA FreeTask ==
    ASSUME SchedulerTypeOK, NEW i \in Ids, FreeTasks(i) # {}
    PROVE  Least(FreeTasks(i)) \in FreeTasks(i)
BY LeastInSet, BoundsAssumption DEF FreeTasks, Tasks

(* No task and no object has the number that stands for none.              *)
LEMMA NoneIsNone == None \notin Objects /\ None \notin Tasks /\ 1 \in Objects
BY BoundsAssumption DEF None, Objects, Tasks

LEMMA CanFailEffect ==
    ASSUME SchedulerTypeOK, CanFail
    PROVE  failures' \in 0..MaxFailures /\ failures' > 0
BY BoundsAssumption DEF SchedulerTypeOK, CanFail

LEMMA SchedulerInitially == SchedulerInit => SchedulerIInv
<1> SUFFICES ASSUME SchedulerInit PROVE SchedulerIInv
    OBVIOUS
<1> USE DEF SchedulerInit
<1>1. SchedulerTypeOK
    <2>1. jobs \in [Ids -> Objects \cup {None}] /\ tasks \in [Ids -> Tasks \cup {None}]
        OBVIOUS
    <2>2. task \in [Ids -> [Tasks -> Task]]
        BY NoneIsNone DEF Task, Blank
    <2>3. failures \in 0..MaxFailures
        BY BoundsAssumption
    <2> QED
        BY <2>1, <2>2, <2>3 DEF SchedulerTypeOK
<1>2. LoopsAccountedFor
    BY DEF LoopsAccountedFor, IsLive, Live, Blank
<1> QED
    BY <1>1, <1>2 DEF SchedulerIInv, StartsAfterStop, ListedJobsHaveTheirLoop, ReplacedUnregistered,
        AnswersListed, AnswersSurvive, None
-----------------------------------------------------------------------------
(* Saving the table, or failing to, keeps what the answers say of the file.*)
LEMMA SavedAnswers ==
    ASSUME SchedulerIInv, UNCHANGED <<jobs, answered>>, disk' \in {disk, Listed(jobs)}
    PROVE  AnswersSurvive' /\ AnswersListed' /\ disk' \subseteq Ids
BY DEF SchedulerIInv, SchedulerTypeOK, AnswersSurvive, AnswersListed, Listed

(* A loop goes on, ends because the scheduler was stopped, or dies of a    *)
(* failure; the table may be saved on the way.                             *)
LEMMA LoopMoves ==
    ASSUME SchedulerIInv, NEW i \in Ids, NEW n \in Tasks, IsLive(i, n),
           NEW to \in {"asleep", "executing", "ended", "died"}, GoTo(i, n, to),
           to = "ended" => ~ running, to = "died" => failures' > 0,
           disk' \in {disk, Listed(jobs)},
           failures' \in 0..MaxFailures, failures > 0 => failures' > 0,
           UNCHANGED <<table, answers>>
    PROVE  SchedulerIInv'
<1> USE DEF SchedulerIInv, table, answers
<1>1. /\ task' \in [Ids -> [Tasks -> Task]]
      /\ \A j \in Ids, m \in Tasks : <<j, m>> # <<i, n>> => task'[j][m] = task[j][m]
      /\ IF to = "ended" THEN task'[i][n] = Blank
         ELSE task'[i][n].job = task[i][n].job /\ task'[i][n].pc = to
    <2> DEFINE t == IF to = "ended" THEN Blank ELSE [task[i][n] EXCEPT !.pc = to]
    <2>1. task[i][n] \in Task
        BY DEF SchedulerTypeOK
    <2>2. t \in Task
        BY <2>1, NoneIsNone DEF Task, Blank
    <2>3. to # "ended" => t.job = task[i][n].job /\ t.pc = to
        BY <2>1 DEF Task
    <2>4. task' = [task EXCEPT ![i][n] = t]
        BY DEF GoTo
    <2>5. task \in [Ids -> [Tasks -> Task]]
        BY DEF SchedulerTypeOK
    <2> HIDE DEF t
    <2>6. /\ task' \in [Ids -> [Tasks -> Task]] /\ task'[i][n] = t
          /\ \A j \in Ids, m \in Tasks : <<j, m>> # <<i, n>> => task'[j][m] = task[j][m]
        BY <2>2, <2>4, <2>5
    <2> QED
        BY <2>3, <2>6 DEF t
<1>2. SchedulerTypeOK'
    BY <1>1, SavedAnswers DEF SchedulerTypeOK
<1>3. ListedJobsHaveTheirLoop'
    <2>1. ASSUME running, NEW j \in Ids, jobs[j] # None, j \notin unstarted
          PROVE  /\ tasks[j] # None /\ task'[j][tasks[j]].job = jobs[j]
                 /\ \/ task'[j][tasks[j]].pc \in Live
                    \/ task'[j][tasks[j]].pc = "died" /\ failures' > 0
        <3>1. /\ tasks[j] # None /\ tasks[j] \in Tasks /\ task[j][tasks[j]].job = jobs[j]
              /\ \/ task[j][tasks[j]].pc \in Live
                 \/ task[j][tasks[j]].pc = "died" /\ failures > 0
            BY <2>1 DEF SchedulerTypeOK, ListedJobsHaveTheirLoop
        <3>2. CASE <<j, tasks[j]>> # <<i, n>>
            BY <1>1, <3>1, <3>2
        <3>3. CASE j = i /\ tasks[j] = n
            BY <1>1, <2>1, <3>1, <3>3 DEF Live
        <3> QED
            BY <3>2, <3>3
    <2> QED
        BY <2>1 DEF ListedJobsHaveTheirLoop
<1>4. LoopsAccountedFor'
    BY <1>1 DEF LoopsAccountedFor, IsLive, Live, Blank
<1> QED
    BY <1>2, <1>3, <1>4, SavedAnswers DEF StartsAfterStop, ReplacedUnregistered

(* Steps that concern no loop, no job and nobody's answer.                 *)
LEMMA TableUntouched ==
    ASSUME SchedulerIInv, UNCHANGED <<running, jobs, tasks, task, answers>>,
           stopping' => stopping, once' \in BOOLEAN, resized' \in BOOLEAN, stopping' \in BOOLEAN,
           disk' \in {disk, Listed(jobs)},
           failures' \in 0..MaxFailures, failures > 0 => failures' > 0
    PROVE  SchedulerIInv'
<1> USE DEF SchedulerIInv, answers
<1>1. SchedulerTypeOK'
    BY SavedAnswers DEF SchedulerTypeOK
<1>2. ListedJobsHaveTheirLoop' /\ LoopsAccountedFor'
    BY DEF ListedJobsHaveTheirLoop, LoopsAccountedFor, IsLive
<1> QED
    BY <1>1, <1>2, SavedAnswers DEF StartsAfterStop, ReplacedUnregistered

LEMMA RunOnceSteps ==
    ASSUME SchedulerIInv, RunOnceEnds \/ \E i \in Ids : RunOnce(i)
    PROVE  SchedulerIInv'
<1>1. SchedulerTypeOK
    BY DEF SchedulerIInv
<1>2. CASE \E i \in Ids : RunOnce(i)
    BY <1>1, <1>2, TableUntouched DEF RunOnce, SchedulerTypeOK, answers
<1>3. CASE RunOnceEnds
    BY <1>1, <1>3, TableUntouched, CanFailEffect DEF RunOnceEnds, SchedulerTypeOK, answers
<1> QED
    BY <1>2, <1>3
-----------------------------------------------------------------------------
(* add_job lists another object under the id.                              *)
LEMMA PutJobEffect ==
    ASSUME SchedulerTypeOK, NEW i \in Ids, PutJob(i)
    PROVE  /\ jobs' \in [Ids -> Objects \cup {None}]
           /\ jobs'[i] \in Objects
           /\ \A j \in Ids \ {i} : jobs'[j] = jobs[j]
           /\ jobs'[i] # jobs[i]
           /\ \A n \in Tasks : IsLive(i, n) => task[i][n].job # jobs'[i]
<1> DEFINE o == Least(FreeObjects(i))
<1>1. o \in FreeObjects(i) /\ jobs' = [jobs EXCEPT ![i] = o]
    BY FreeObject DEF PutJob
<1>2. jobs \in [Ids -> Objects \cup {None}]
    BY DEF SchedulerTypeOK
<1> HIDE DEF o
<1>3. o \in Objects /\ o # jobs[i] /\ \A n \in Tasks : IsLive(i, n) => task[i][n].job # o
    BY <1>1 DEF FreeObjects
<1> QED
    BY <1>1, <1>2, <1>3

LEMMA AddJobRaisesStep ==
    ASSUME SchedulerIInv, NEW i \in Ids, AddJobRaises(i)
    PROVE  SchedulerIInv'
<1> USE DEF SchedulerIInv
<1>1. UNCHANGED <<running, stopping, resized, tasks, task, once, disk, replaced>>
    BY DEF AddJobRaises
<1>2. /\ jobs' \in [Ids -> Objects \cup {None}] /\ jobs'[i] # None
      /\ \A j \in Ids \ {i} : jobs'[j] = jobs[j]
    BY PutJobEffect, NoneIsNone DEF AddJobRaises
<1>3. /\ answered' \in [Ids -> {"listed", "unlisted", "unknown"}] /\ answered'[i] = "unknown"
      /\ \A j \in Ids \ {i} : answered'[j] = answered[j]
    BY DEF AddJobRaises, SchedulerTypeOK
<1>4. unstarted' = unstarted \cup {i} /\ failures' \in 0..MaxFailures /\ failures' > 0
    BY CanFailEffect DEF AddJobRaises
<1>5. SchedulerTypeOK'
    BY <1>1, <1>2, <1>3, <1>4 DEF SchedulerTypeOK
<1>6. ListedJobsHaveTheirLoop'
    BY <1>1, <1>2, <1>4 DEF ListedJobsHaveTheirLoop
<1>7. LoopsAccountedFor'
    BY <1>1, <1>2, <1>4 DEF LoopsAccountedFor, IsLive
<1>8. AnswersListed' /\ AnswersSurvive'
    BY <1>1, <1>2, <1>3 DEF AnswersListed, AnswersSurvive
<1> QED
    BY <1>1, <1>5, <1>6, <1>7, <1>8 DEF StartsAfterStop, ReplacedUnregistered

LEMMA AddJobStep ==
    ASSUME SchedulerIInv, NEW i \in Ids, AddJob(i)
    PROVE  SchedulerIInv'
<1> USE DEF SchedulerIInv
<1>1. UNCHANGED <<running, stopping, resized, once, failures>>
    BY DEF AddJob
<1>2. /\ jobs' \in [Ids -> Objects \cup {None}] /\ jobs'[i] \in Objects /\ jobs'[i] # None
      /\ \A j \in Ids \ {i} : jobs'[j] = jobs[j]
    BY PutJobEffect, NoneIsNone DEF AddJob
<1>3. /\ answered' \in [Ids -> {"listed", "unlisted", "unknown"}] /\ answered'[i] = "listed"
      /\ \A j \in Ids \ {i} : answered'[j] = answered[j]
    BY DEF AddJob, SchedulerTypeOK
<1>4. unstarted' = unstarted \ {i} /\ disk' = {j \in Ids : jobs'[j] # None}
    BY DEF AddJob, Listed
<1>5. AnswersListed' /\ AnswersSurvive'
    BY <1>2, <1>3, <1>4 DEF AnswersListed, AnswersSurvive
<1>6. CASE ~ running
    <2>1. UNCHANGED <<task, tasks, replaced>>
        BY <1>6 DEF AddJob
    <2>2. SchedulerTypeOK'
        BY <1>1, <1>2, <1>3, <1>4, <2>1 DEF SchedulerTypeOK
    <2>3. ListedJobsHaveTheirLoop' /\ LoopsAccountedFor'
        BY <1>1, <1>6, <2>1 DEF ListedJobsHaveTheirLoop, LoopsAccountedFor, IsLive
    <2> QED
        BY <1>1, <1>5, <2>1, <2>2, <2>3 DEF StartsAfterStop, ReplacedUnregistered
<1>7. CASE running
    <2> DEFINE n == Least(FreeTasks(i))
    <2>1. n \in FreeTasks(i)
        BY <1>7, FreeTask DEF AddJob
    <2>2. /\ task' = [task EXCEPT ![i][n] = NewLoop(jobs'[i])]
          /\ tasks' = [tasks EXCEPT ![i] = n]
          /\ replaced' = IF tasks[i] # None /\ IsLive(i, tasks[i])
                         THEN (replaced \ {<<i, n>>}) \cup {<<i, tasks[i]>>}
                         ELSE replaced \ {<<i, n>>}
        BY <1>7 DEF AddJob
    <2> HIDE DEF n
    <2>3. n \in Tasks /\ ~ IsLive(i, n) /\ n # tasks[i]
        BY <2>1 DEF FreeTasks, Gone
    <2>4. /\ task' \in [Ids -> [Tasks -> Task]] /\ task'[i][n] = NewLoop(jobs'[i])
          /\ \A j \in Ids, m \in Tasks : <<j, m>> # <<i, n>> => task'[j][m] = task[j][m]
        <3>1. NewLoop(jobs'[i]) \in Task
            BY <1>2 DEF NewLoop, Task
        <3> QED
            BY <2>2, <2>3, <3>1 DEF SchedulerTypeOK
    <2>5. /\ tasks' \in [Ids -> Tasks \cup {None}] /\ tasks'[i] = n
          /\ \A j \in Ids \ {i} : tasks'[j] = tasks[j]
        BY <2>2, <2>3 DEF SchedulerTypeOK
    <2>6. /\ <<i, n>> \notin replaced'
          /\ \A j \in Ids, m \in Tasks : <<j, m>> # <<i, n>> =>
                (<<j, m>> \in replaced' <=>
                    \/ <<j, m>> \in replaced
                    \/ j = i /\ m = tasks[i] /\ IsLive(i, m))
          /\ replaced' \subseteq Ids \X Tasks
        BY <2>2, <2>3, NoneIsNone DEF SchedulerTypeOK
    <2>7. SchedulerTypeOK'
        BY <1>1, <1>2, <1>3, <1>4, <2>4, <2>5, <2>6 DEF SchedulerTypeOK
    <2>8. ListedJobsHaveTheirLoop'
        BY <1>1, <1>2, <1>4, <2>3, <2>4, <2>5, NoneIsNone
        DEF ListedJobsHaveTheirLoop, NewLoop, Live, SchedulerTypeOK
    <2>9. LoopsAccountedFor'
        BY <1>1, <1>2, <1>4, <1>7, <2>3, <2>4, <2>5, <2>6
        DEF LoopsAccountedFor, IsLive, NewLoop
    <2>10. ReplacedUnregistered'
        BY <2>3, <2>5, <2>6 DEF ReplacedUnregistered
    <2> QED
        BY <1>1, <1>5, <2>7, <2>8, <2>9, <2>10 DEF StartsAfterStop
<1> QED
    BY <1>6, <1>7

(* remove_job forgets the job and cancels the registered task, whether or  *)
(* not it can save the table.                                              *)
LEMMA TakeJobStep ==
    ASSUME SchedulerIInv, NEW i \in Ids, TakeJob(i),
           \/ disk' = Listed(jobs') /\ answered' = [answered EXCEPT ![i] = "unlisted"]
           \/ disk' = disk /\ answered' = [answered EXCEPT ![i] = "unknown"],
           failures' \in 0..MaxFailures, failures > 0 => failures' > 0
    PROVE  SchedulerIInv'
<1> USE DEF SchedulerIInv
<1>1. UNCHANGED <<running, stopping, once, replaced>>
    BY DEF TakeJob
<1>2. /\ jobs' \in [Ids -> Objects \cup {None}] /\ jobs'[i] = None
      /\ \A j \in Ids \ {i} : jobs'[j] = jobs[j]
      /\ tasks' \in [Ids -> Tasks \cup {None}] /\ tasks'[i] = None
      /\ \A j \in Ids \ {i} : tasks'[j] = tasks[j]
    BY DEF TakeJob, SchedulerTypeOK
<1>3. unstarted' = unstarted \ {i} /\ resized' \in BOOLEAN
    BY DEF TakeJob
<1>4. /\ task' \in [Ids -> [Tasks -> Task]]
      /\ \A j \in Ids \ {i} : task'[j] = task[j]
      /\ \A n \in Tasks : IF n = tasks[i] /\ IsLive(i, n) THEN task'[i][n] = Blank
                          ELSE task'[i][n] = task[i][n]
    <2>1. Blank \in Task
        BY NoneIsNone DEF Blank, Task
    <2>2. CASE tasks[i] # None /\ IsLive(i, tasks[i])
        <3>1. tasks[i] \in Tasks /\ task' = [task EXCEPT ![i][tasks[i]] = Blank]
            BY <2>2 DEF TakeJob, SchedulerTypeOK
        <3> QED
            BY <2>1, <2>2, <3>1 DEF SchedulerTypeOK
    <2>3. CASE ~ (tasks[i] # None /\ IsLive(i, tasks[i]))
        BY <2>3, NoneIsNone DEF TakeJob, SchedulerTypeOK
    <2> QED
        BY <2>2, <2>3
<1>5. /\ answered' \in [Ids -> {"listed", "unlisted", "unknown"}] /\ answered'[i] # "listed"
      /\ disk' \subseteq Ids
    BY DEF SchedulerTypeOK, Listed
<1>6. SchedulerTypeOK'
    BY <1>1, <1>2, <1>3, <1>4, <1>5 DEF SchedulerTypeOK
<1>7. ListedJobsHaveTheirLoop'
    BY <1>1, <1>2, <1>3, <1>4, NoneIsNone DEF ListedJobsHaveTheirLoop
<1>8. LoopsAccountedFor'
    BY <1>1, <1>2, <1>3, <1>4 DEF LoopsAccountedFor, IsLive, Live, Blank
<1>9. ReplacedUnregistered'
    BY <1>1, <1>2, NoneIsNone DEF ReplacedUnregistered
<1>10. AnswersListed'
    BY <1>2, <1>5 DEF AnswersListed, SchedulerTypeOK
<1>11. AnswersSurvive'
    BY <1>2, <1>5 DEF AnswersSurvive, AnswersListed, SchedulerTypeOK, Listed
<1> QED
    BY <1>1, <1>6, <1>7, <1>8, <1>9, <1>10, <1>11 DEF StartsAfterStop
-----------------------------------------------------------------------------
LEMMA StartStep ==
    ASSUME SchedulerIInv, Start
    PROVE  SchedulerIInv'
<1> USE DEF SchedulerIInv
<1>1. /\ UNCHANGED <<stopping, resized, jobs, once, disk, failures, answered>>
      /\ running' /\ ~ stopping'
      /\ running' \in BOOLEAN /\ ~ running /\ unstarted' = {}
    BY DEF Start
<1> DEFINE new(i) == Least(FreeTasks(i))
<1>2. ASSUME NEW i \in Ids, jobs[i] # None
      PROVE  new(i) \in Tasks /\ ~ IsLive(i, new(i)) /\ new(i) # tasks[i]
    BY <1>2, FreeTask DEF Start, Listed, FreeTasks, Gone
<1>3. /\ tasks' = [i \in Ids |-> IF jobs[i] = None THEN tasks[i] ELSE new(i)]
      /\ task' = [i \in Ids |-> IF jobs[i] = None THEN task[i]
                                ELSE [task[i] EXCEPT ![tasks'[i]] = NewLoop(jobs[i])]]
      /\ replaced' = replaced \ {<<i, tasks'[i]>> : i \in Ids}
    BY DEF Start
<1> HIDE DEF new
<1>4. tasks' \in [Ids -> Tasks \cup {None}]
    BY <1>2, <1>3 DEF SchedulerTypeOK
<1>5. \A i \in Ids : tasks'[i] = IF jobs[i] = None THEN tasks[i] ELSE new(i)
    BY <1>3
<1>6. /\ task' \in [Ids -> [Tasks -> Task]]
      /\ \A i \in Ids, n \in Tasks : task'[i][n] =
            IF jobs[i] # None /\ n = tasks'[i] THEN NewLoop(jobs[i]) ELSE task[i][n]
    <2>1. \A i \in Ids : jobs[i] # None => NewLoop(jobs[i]) \in Task
        BY DEF SchedulerTypeOK, NewLoop, Task
    <2>2. ASSUME NEW i \in Ids
          PROVE  /\ task'[i] \in [Tasks -> Task]
                 /\ \A n \in Tasks : task'[i][n] =
                      IF jobs[i] # None /\ n = tasks'[i] THEN NewLoop(jobs[i]) ELSE task[i][n]
        <3>1. task[i] \in [Tasks -> Task]
            BY DEF SchedulerTypeOK
        <3>2. task'[i] = IF jobs[i] = None THEN task[i]
                         ELSE [task[i] EXCEPT ![tasks'[i]] = NewLoop(jobs[i])]
            BY <1>3
        <3>3. CASE jobs[i] = None
            BY <3>1, <3>2, <3>3
        <3>4. CASE jobs[i] # None
            BY <2>1, <3>1, <3>2, <3>4
        <3> QED
            BY <3>3, <3>4
    <2> QED
        BY <1>3, <2>2
<1>7. SchedulerTypeOK'
    BY <1>1, <1>3, <1>4, <1>6 DEF SchedulerTypeOK
<1>8. ListedJobsHaveTheirLoop'
    <2> SUFFICES ASSUME NEW i \in Ids, jobs[i] # None
                 PROVE  /\ tasks'[i] # None
                        /\ task'[i][tasks'[i]].job = jobs'[i]
                        /\ task'[i][tasks'[i]].pc \in Live
        BY <1>1 DEF ListedJobsHaveTheirLoop
    <2>1. tasks'[i] \in Tasks
        BY <1>2, <1>5
    <2>2. task'[i][tasks'[i]] = NewLoop(jobs[i])
        BY <1>6, <2>1
    <2> QED
        BY <1>1, <2>1, <2>2, NoneIsNone DEF NewLoop, Live
<1>9. LoopsAccountedFor'
    <2> SUFFICES ASSUME NEW i \in Ids, NEW n \in Tasks, IsLive(i, n)', <<i, n>> \notin replaced'
                 PROVE  tasks'[i] = n /\ jobs'[i] = task'[i][n].job
        BY <1>1 DEF LoopsAccountedFor
    <2>1. CASE jobs[i] # None /\ n = tasks'[i]
        <3>1. task'[i][n] = NewLoop(jobs[i])
            BY <1>6, <2>1
        <3> QED
            BY <1>1, <2>1, <3>1 DEF NewLoop
    <2>2. CASE ~ (jobs[i] # None /\ n = tasks'[i])
        <3>1. IsLive(i, n)
            BY <1>6, <2>2 DEF IsLive
        <3>2. <<i, n>> \in replaced
            BY <1>1, <3>1 DEF LoopsAccountedFor
        <3>3. PICK j \in Ids : <<i, n>> = <<j, tasks'[j]>>
            BY <1>3, <3>2
        <3>4. n = tasks'[i] /\ jobs[i] = None
            BY <2>2, <3>3
        <3>5. tasks[i] = n
            BY <1>5, <3>4
        <3> QED
            BY <3>2, <3>5 DEF ReplacedUnregistered
    <2> QED
        BY <2>1, <2>2
<1>10. ReplacedUnregistered'
    BY <1>3 DEF ReplacedUnregistered
<1>11. AnswersListed' /\ AnswersSurvive'
    BY <1>1 DEF AnswersListed, AnswersSurvive
<1> QED
    BY <1>1, <1>7, <1>8, <1>9, <1>10, <1>11 DEF StartsAfterStop

LEMMA StopStep ==
    ASSUME SchedulerIInv, Stop
    PROVE  SchedulerIInv'
<1> USE DEF SchedulerIInv, answers
<1>1. /\ running /\ ~ running' /\ running' \in BOOLEAN
      /\ stopping' \in BOOLEAN /\ resized' \in BOOLEAN
      /\ UNCHANGED <<jobs, tasks, once, disk, failures, answers>>
    BY DEF Stop
<1>2. task' = [i \in Ids |-> IF tasks[i] # None /\ IsLive(i, tasks[i])
                             THEN [task[i] EXCEPT ![tasks[i]] = Blank] ELSE task[i]]
    BY DEF Stop
<1>3. ASSUME NEW i \in Ids
      PROVE  /\ task'[i] \in [Tasks -> Task]
             /\ \A n \in Tasks : task'[i][n] =
                  IF n = tasks[i] /\ IsLive(i, n) THEN Blank ELSE task[i][n]
    <2>1. task[i] \in [Tasks -> Task] /\ Blank \in Task
        BY NoneIsNone DEF SchedulerTypeOK, Blank, Task
    <2>2. task'[i] = IF tasks[i] # None /\ IsLive(i, tasks[i])
                     THEN [task[i] EXCEPT ![tasks[i]] = Blank] ELSE task[i]
        BY <1>2
    <2> QED
        BY <2>1, <2>2, NoneIsNone
<1>4. task' \in [Ids -> [Tasks -> Task]]
    BY <1>2, <1>3
<1>5. SchedulerTypeOK'
    BY <1>1, <1>4 DEF SchedulerTypeOK
<1>6. LoopsAccountedFor'
    <2> SUFFICES ASSUME NEW i \in Ids, NEW n \in Tasks, IsLive(i, n)', <<i, n>> \notin replaced'
                 PROVE  FALSE
        BY DEF LoopsAccountedFor
    <2>1. IsLive(i, n) /\ n # tasks[i]
        BY <1>3 DEF IsLive, Live, Blank
    <2> QED
        BY <1>1, <2>1 DEF LoopsAccountedFor
<1>7. StartsAfterStop' /\ ListedJobsHaveTheirLoop'
    BY <1>1 DEF StartsAfterStop, ListedJobsHaveTheirLoop
<1> QED
    BY <1>1, <1>5, <1>6, <1>7 DEF ReplacedUnregistered, AnswersListed, AnswersSurvive

(* stop forgets the tasks it awaited.                                      *)
LEMMA StopForgets ==
    ASSUME SchedulerIInv, stopping, stopping' = FALSE, tasks' = [i \in Ids |-> None],
           UNCHANGED <<running, resized, jobs, task, once, answers>>,
           disk' \in {disk, Listed(jobs)},
           failures' \in 0..MaxFailures, failures > 0 => failures' > 0
    PROVE  SchedulerIInv'
<1> USE DEF SchedulerIInv, answers
<1>1. ~ running' /\ tasks' \in [Ids -> Tasks \cup {None}]
    BY DEF StartsAfterStop
<1>2. SchedulerTypeOK'
    BY <1>1, SavedAnswers DEF SchedulerTypeOK
<1>3. LoopsAccountedFor'
    BY <1>1 DEF LoopsAccountedFor, IsLive
<1>4. ListedJobsHaveTheirLoop' /\ StartsAfterStop' /\ ReplacedUnregistered'
    BY <1>1, NoneIsNone DEF ListedJobsHaveTheirLoop, StartsAfterStop, ReplacedUnregistered
<1> QED
    BY <1>2, <1>3, <1>4, SavedAnswers

LEMMA StopSteps ==
    ASSUME SchedulerIInv, Stop \/ StopReturns \/ StopUnsaved \/ StopRaises
    PROVE  SchedulerIInv'
<1>1. SchedulerTypeOK
    BY DEF SchedulerIInv
<1>2. CASE Stop
    BY <1>2, StopStep
<1>3. CASE StopReturns
    BY <1>1, <1>3, StopForgets DEF StopReturns, SchedulerTypeOK, answers
<1>4. CASE StopUnsaved
    BY <1>1, <1>4, StopForgets, CanFailEffect DEF StopUnsaved, answers
<1>5. CASE StopRaises
    BY <1>1, <1>5, TableUntouched DEF StopRaises, SchedulerTypeOK, answers
<1> QED
    BY <1>2, <1>3, <1>4, <1>5

(* A new process lists what the file does, or nothing; then nobody knows.  *)
LEMMA NewProcessStep ==
    ASSUME SchedulerIInv, NEW listed \in SUBSET Ids, NewProcess(listed),
           \/ listed = disk /\ answered' = answered
           \/ answered' = [i \in Ids |-> "unknown"],
           failures' \in 0..MaxFailures
    PROVE  SchedulerIInv'
<1> USE DEF SchedulerIInv
<1>1. /\ ~ running' /\ {running', stopping', resized', once'} \subseteq BOOLEAN
      /\ tasks' = [i \in Ids |-> None]
      /\ jobs' = [i \in Ids |-> IF i \in listed THEN 1 ELSE None]
      /\ task' = [i \in Ids |-> [n \in Tasks |-> Blank]]
      /\ replaced' = {} /\ unstarted' = {} /\ disk' = disk
    BY DEF NewProcess
<1>2. tasks' \in [Ids -> Tasks \cup {None}] /\ jobs' \in [Ids -> Objects \cup {None}]
    BY <1>1, NoneIsNone
<1>3. task' \in [Ids -> [Tasks -> Task]]
    BY <1>1, NoneIsNone DEF Blank, Task
<1>4. answered' \in [Ids -> {"listed", "unlisted", "unknown"}]
    BY DEF SchedulerTypeOK
<1>5. SchedulerTypeOK'
    BY <1>1, <1>2, <1>3, <1>4 DEF SchedulerTypeOK
<1>6. LoopsAccountedFor'
    BY <1>1 DEF LoopsAccountedFor, IsLive, Live, Blank
<1>7. ListedJobsHaveTheirLoop' /\ StartsAfterStop' /\ ReplacedUnregistered'
    BY <1>1 DEF ListedJobsHaveTheirLoop, StartsAfterStop, ReplacedUnregistered
<1>8. AnswersSurvive'
    BY <1>1 DEF AnswersSurvive
<1>9. AnswersListed'
    BY <1>1, NoneIsNone DEF AnswersListed, AnswersSurvive
<1> QED
    BY <1>5, <1>6, <1>7, <1>8, <1>9

LEMMA RestartSteps ==
    ASSUME SchedulerIInv, Restart \/ CrashAndRestart \/ RestartUnreadable
    PROVE  SchedulerIInv'
<1>1. disk \in SUBSET Ids /\ {} \in SUBSET Ids /\ failures \in 0..MaxFailures
    BY DEF SchedulerIInv, SchedulerTypeOK
<1>2. CASE Restart
    BY <1>1, <1>2, NewProcessStep DEF Restart
<1>3. CASE CrashAndRestart
    BY <1>1, <1>3, NewProcessStep, CanFailEffect DEF CrashAndRestart, SchedulerIInv
<1>4. CASE RestartUnreadable
    BY <1>1, <1>4, NewProcessStep, CanFailEffect DEF RestartUnreadable, SchedulerIInv
<1> QED
    BY <1>2, <1>3, <1>4
-----------------------------------------------------------------------------
LEMMA LoopSteps ==
    ASSUME SchedulerIInv, NEW i \in Ids, NEW n \in Tasks,
           Step(i, n) \/ ErrorUnsaved(i, n) \/ LoopDies(i, n)
    PROVE  SchedulerIInv'
<1>1. SchedulerTypeOK /\ failures \in 0..MaxFailures
    BY DEF SchedulerIInv, SchedulerTypeOK
<1> USE DEF IsLive, Live, LoopTop, table
<1>2. CASE LoopStarts(i, n)
    BY <1>1, <1>2, LoopMoves DEF LoopStarts
<1>3. CASE LoopExecutes(i, n)
    BY <1>1, <1>3, LoopMoves DEF LoopExecutes
<1>4. CASE RunEnds(i, n)
    BY <1>1, <1>4, LoopMoves DEF RunEnds
<1>5. CASE ErrorUnsaved(i, n)
    BY <1>1, <1>5, LoopMoves, CanFailEffect DEF ErrorUnsaved
<1>6. CASE LoopDies(i, n)
    BY <1>1, <1>6, LoopMoves, CanFailEffect DEF LoopDies
<1> QED
    BY <1>2, <1>3, <1>4, <1>5, <1>6 DEF Step

LEMMA RemoveSteps ==
    ASSUME SchedulerIInv, NEW i \in Ids, RemoveJob(i) \/ RemoveJobRaises(i)
    PROVE  SchedulerIInv'
<1>1. SchedulerTypeOK /\ failures \in 0..MaxFailures
    BY DEF SchedulerIInv, SchedulerTypeOK
<1>2. CASE RemoveJob(i)
    BY <1>1, <1>2, TakeJobStep DEF RemoveJob
<1>3. CASE RemoveJobRaises(i)
    BY <1>1, <1>3, TakeJobStep, CanFailEffect DEF RemoveJobRaises
<1> QED
    BY <1>2, <1>3

LEMMA SchedulerStep == SchedulerIInv /\ [SchedulerNext]_schedulerVars => SchedulerIInv'
<1> SUFFICES ASSUME SchedulerIInv, [SchedulerNext]_schedulerVars PROVE SchedulerIInv'
    OBVIOUS
<1>1. CASE UNCHANGED schedulerVars
    BY <1>1, TableUntouched DEF schedulerVars, memory, SchedulerIInv, SchedulerTypeOK
<1>2. ASSUME NEW i \in Ids,
             AddJob(i) \/ AddJobRaises(i) \/ RemoveJob(i) \/ RemoveJobRaises(i) \/ RunOnce(i)
      PROVE  SchedulerIInv'
    BY <1>2, AddJobStep, AddJobRaisesStep, RemoveSteps, RunOnceSteps
<1>3. ASSUME NEW i \in Ids, NEW n \in Tasks,
             Step(i, n) \/ ErrorUnsaved(i, n) \/ LoopDies(i, n)
      PROVE  SchedulerIInv'
    BY <1>3, LoopSteps
<1>4. CASE RunOnceEnds
    BY <1>4, RunOnceSteps
<1>5. CASE Start
    BY <1>5, StartStep
<1>6. CASE Stop \/ StopReturns \/ StopUnsaved \/ StopRaises
    BY <1>6, StopSteps
<1>7. CASE Restart \/ CrashAndRestart \/ RestartUnreadable
    BY <1>7, RestartSteps
<1> QED
    BY <1>1, <1>2, <1>3, <1>4, <1>5, <1>6, <1>7 DEF SchedulerNext
-----------------------------------------------------------------------------
(* The strengthened invariant holds in every reachable state.              *)
THEOREM SchedulerInvariance == SchedulerSpec => []SchedulerIInv
<1>1. SchedulerInit => SchedulerIInv
    BY SchedulerInitially
<1>2. SchedulerIInv /\ [SchedulerNext]_schedulerVars => SchedulerIInv'
    BY SchedulerStep
<1> QED
    BY <1>1, <1>2, PTL DEF SchedulerSpec

(* Every variable keeps its type.                                          *)
THEOREM SchedulerTypeCorrect == SchedulerSpec => []SchedulerTypeOK
<1>1. SchedulerIInv => SchedulerTypeOK
    BY DEF SchedulerIInv
<1> QED
    BY <1>1, SchedulerInvariance, PTL

(* While the scheduler runs, the task registered for a listed job is a     *)
(* loop over that very job, and a loop that is alive is the registered one *)
(* or one whose entry add_job overwrote, whatever jobs are added, removed  *)
(* and run, and however often the scheduler is stopped, started or killed. *)
THEOREM JobsAndLoopsInStep == SchedulerSpec => []LoopsMatchJobs
<1>1. SchedulerIInv => LoopsMatchJobs
    BY DEF SchedulerIInv, LoopsMatchJobs
<1> QED
    BY <1>1, SchedulerInvariance, PTL

(* What add_job and remove_job answered last is what jobs.json says, for   *)
(* any number of jobs, processes and failed writes.                        *)
THEOREM AnswersAlwaysSurvive == SchedulerSpec => []AnswersSurvive
<1>1. SchedulerIInv => AnswersSurvive
    BY DEF SchedulerIInv
<1> QED
    BY <1>1, SchedulerInvariance, PTL
-----------------------------------------------------------------------------
(***************************************************************************)
(* The migrations                                                          *)
(***************************************************************************)
(* Which versions are recorded, and what that says of tables and columns.  *)
Recorded(data) == Cardinality(data.versions)

Whole(data) ==
    /\ Recorded(data) \in 0..Latest /\ data.versions = 1..Recorded(data)
    /\ Recorded(data) > 0 => \A v \in 0..Recorded(data) : Makes(v) \subseteq data.objects

(* A role of the version recorded last, or of no version.                  *)
RolesOf(v) == RolesAt(v) \cup {"none"}

(* No update before line k of the migration of version v is of this role.  *)
NotUpdated(v, k, role) ==
    \A l \in Lines(v) : l < k /\ Migration(v)[l][1] = "update" => Migration(v)[l][2] # role

(* p is at the migration after the ones recorded.                          *)
Midway(p) == at[p] = Recorded(work) + 1 /\ at[p] <= Latest

TransactionAdds ==
    /\ lock = NoOne => work = db
    /\ db.objects \subseteq work.objects /\ db.versions \subseteq work.versions

(* A user that was a general counsel partner is never taken for another.   *)
GcStands ==
    \A u \in Users : was[u] = "partner_gc" =>
        db.roles[u] \in {"partner_gc", "gc"} /\ work.roles[u] \in {"partner_gc", "gc"}

DataStands ==
    /\ Whole(db) /\ Whole(work)
    /\ TransactionAdds
    /\ \A u \in Users : db.roles[u] \in RolesOf(Recorded(db))
    /\ GcStands

PlaceOf(p) ==
    /\ ~ AtWork(p) => at[p] = 0 /\ line[p] = 1
    /\ pc[p] = "opening" => at[p] = 0 /\ lock # p
    /\ pc[p] = "upgrading" => at[p] > 0 /\ Makes(0) \subseteq db.objects

(* What a process has executed is there for it to see.                     *)
Executed(p) ==
    /\ 1..(at[p] - 1) \subseteq Seen(p).versions
    /\ at[p] <= Latest => \A k \in Lines(at[p]) : k < line[p] =>
           /\ Migration(at[p])[k][1] \in {"create", "add"} =>
                  Migration(at[p])[k][2] \in Seen(p).objects
           /\ Migration(at[p])[k][1] = "update" => lock = p

AtAdd(p) == at[p] <= Latest /\ line[p] \in Lines(at[p]) /\ Statement(p)[1] = "add"

(* A transaction is upset by nobody else.                                  *)
HolderOf(p) ==
    lock = p => /\ at[p] \notin {4, 5} => at[p] \notin work.versions
                /\ AtAdd(p) => Statement(p)[2] \notin work.objects

(* The roles in its transaction are those of the version recorded last or, *)
(* in the midst of an upgrade, of the next, and no updated one is left.    *)
RolesAtWork(p) ==
    lock = p => \A u \in Users :
        IF Midway(p) THEN /\ work.roles[u] \in RolesOf(Recorded(work)) \cup RolesOf(at[p])
                          /\ NotUpdated(at[p], line[p], work.roles[u])
                     ELSE work.roles[u] \in RolesOf(Recorded(work))

ProcessStands(p) == PlaceOf(p) /\ Executed(p) /\ HolderOf(p) /\ RolesAtWork(p)

(* Nothing has come before a process that would make it raise.             *)
Undoomed(p) ==
    /\ AtWork(p)
    /\ pc[p] = "upgrading" => /\ at[p] \notin Seen(p).versions
                              /\ AtAdd(p) => Statement(p)[2] \notin Seen(p).objects

Survivor ==
    \/ cut
    \/ \A p \in Processes : pc[p] = "closed"
    \/ db.versions = Versions
    \/ \E p \in Processes : Undoomed(p)

OpenWhole == \A p \in Processes : pc[p] = "open" => db.versions = Versions

MigrationsIInv ==
    /\ MigrationsTypeOK
    /\ DataStands
    /\ \A p \in Processes : ProcessStands(p)
    /\ Survivor
    /\ OpenWhole
-----------------------------------------------------------------------------
-----------------------------------------------------------------------------
(***************************************************************************)
(* The statements                                                          *)
(***************************************************************************)
LEMMA FollowedBy ==
    ASSUME NEW S, NEW s \in Seq(S), NEW e
    PROVE  /\ Len(s \o <<e>>) = Len(s) + 1
           /\ \A k \in 1..Len(s) : (s \o <<e>>)[k] = s[k]
           /\ (s \o <<e>>)[Len(s) + 1] = e
<1>1. s \in Seq(S \cup {e}) /\ <<e>> \in Seq(S \cup {e})
  OBVIOUS
<1> QED
  BY <1>1, ConcatProperties

(* What an upgrade is made of.                                             *)
UpgradeShape(s, v) ==
    /\ Len(s) \in Nat
    /\ \E S : s \in Seq(S)
    /\ \A k \in 1..Len(s) :
           /\ s[k][1] \in {"commit", "create", "check", "add", "update"}
           /\ s[k][1] = "commit" => k = 1 /\ v \in {0, 2}
           /\ s[k][1] = "check" => v = 3 /\ k + 1 \in 1..Len(s) /\ s[k + 1] = <<"add", s[k][2]>>
           /\ s[k][1] = "add" => v = 3 /\ k - 1 \in 1..Len(s) /\ s[k - 1][1] = "check"
           /\ s[k][1] = "update" =>
                  /\ v \in {4, 5}
                  /\ s[k][2] \in RolesAt(v - 1) /\ s[k][3] \in RolesAt(v)
                  /\ s[k][2] # "gc" /\ (s[k][2] = "partner_gc" => s[k][3] = "gc")

(* Each role of the version before is replaced by an upgrade of roles.     *)
Replaces(s, v) ==
    \A role \in RolesAt(v - 1) : \E k \in 1..Len(s) : s[k][1] = "update" /\ s[k][2] = role

LEMMA UpgradeStatements ==
    /\ UpgradeShape(BaseSchema, 0)
    /\ \A v \in Versions : UpgradeShape(Upgrade(v), v)
    /\ \A v \in {4, 5} : Replaces(Upgrade(v), v)
<1> USE DEF Create, CommitFirst, Update, Check, Add
<1>0. UpgradeShape(BaseSchema, 0)
  <2> DEFINE s == BaseSchema
  <2>1. Len(s) = 6 /\ s \in Seq({s[k] : k \in 1..6})
    BY DEF BaseSchema
  <2>4. \A k \in 1..6 :
           /\ s[k][1] \in {"commit", "create", "check", "add", "update"}
           /\ s[k][1] = "commit" => k = 1 /\ TRUE
           /\ s[k][1] # "check" /\ s[k][1] # "add"
           /\ s[k][1] = "update" => FALSE
    BY DEF BaseSchema
  <2>7. BaseSchema = s
    OBVIOUS
  <2> HIDE DEF s
  <2>8. \E S : s \in Seq(S)
    BY <2>1
  <2>9. ASSUME NEW k \in 1..Len(s)
        PROVE  /\ s[k][1] \in {"commit", "create", "check", "add", "update"}
               /\ s[k][1] = "commit" => k = 1 /\ 0 \in {0, 2}
               /\ s[k][1] = "check" => 0 = 3 /\ k + 1 \in 1..Len(s) /\ s[k + 1] = <<"add", s[k][2]>>
               /\ s[k][1] = "add" => 0 = 3 /\ k - 1 \in 1..Len(s) /\ s[k - 1][1] = "check"
               /\ s[k][1] = "update" =>
                      /\ 0 \in {4, 5}
                      /\ s[k][2] \in RolesAt(0 - 1) /\ s[k][3] \in RolesAt(0)
                      /\ s[k][2] # "gc" /\ (s[k][2] = "partner_gc" => s[k][3] = "gc")
    BY <2>1, <2>4
  <2>10. Len(s) \in Nat
    BY <2>1
  <2>11. UpgradeShape(s, 0)
    BY <2>8, <2>9, <2>10 DEF UpgradeShape
  <2> QED
    BY <2>7, <2>11
<1>1. UpgradeShape(Upgrade(1), 1)
  <2> DEFINE s == <<>>
  <2>1. Len(s) = 0 /\ s \in Seq({})
    OBVIOUS
  <2>7. Upgrade(1) = s
    BY DEF Upgrade
  <2> HIDE DEF s
  <2>8. \E S : s \in Seq(S)
    BY <2>1
  <2>9. ASSUME NEW k \in 1..Len(s)
        PROVE  /\ s[k][1] \in {"commit", "create", "check", "add", "update"}
               /\ s[k][1] = "commit" => k = 1 /\ 1 \in {0, 2}
               /\ s[k][1] = "check" => 1 = 3 /\ k + 1 \in 1..Len(s) /\ s[k + 1] = <<"add", s[k][2]>>
               /\ s[k][1] = "add" => 1 = 3 /\ k - 1 \in 1..Len(s) /\ s[k - 1][1] = "check"
               /\ s[k][1] = "update" =>
                      /\ 1 \in {4, 5}
                      /\ s[k][2] \in RolesAt(1 - 1) /\ s[k][3] \in RolesAt(1)
                      /\ s[k][2] # "gc" /\ (s[k][2] = "partner_gc" => s[k][3] = "gc")
    BY <2>1
  <2>10. Len(s) \in Nat
    BY <2>1
  <2>11. UpgradeShape(s, 1)
    BY <2>8, <2>9, <2>10 DEF UpgradeShape
  <2> QED
    BY <2>7, <2>11
<1>2. UpgradeShape(Upgrade(2), 2)
  <2> DEFINE s == PatternsDrafts
  <2>1. Len(s) = 4 /\ s \in Seq({s[k] : k \in 1..4})
    BY DEF PatternsDrafts
  <2>4. \A k \in 1..4 :
           /\ s[k][1] \in {"commit", "create", "check", "add", "update"}
           /\ s[k][1] = "commit" => k = 1 /\ TRUE
           /\ s[k][1] # "check" /\ s[k][1] # "add"
           /\ s[k][1] = "update" => FALSE
    BY DEF PatternsDrafts
  <2>7. Upgrade(2) = s
    BY DEF Upgrade
  <2> HIDE DEF s
  <2>8. \E S : s \in Seq(S)
    BY <2>1
  <2>9. ASSUME NEW k \in 1..Len(s)
        PROVE  /\ s[k][1] \in {"commit", "create", "check", "add", "update"}
               /\ s[k][1] = "commit" => k = 1 /\ 2 \in {0, 2}
               /\ s[k][1] = "check" => 2 = 3 /\ k + 1 \in 1..Len(s) /\ s[k + 1] = <<"add", s[k][2]>>
               /\ s[k][1] = "add" => 2 = 3 /\ k - 1 \in 1..Len(s) /\ s[k - 1][1] = "check"
               /\ s[k][1] = "update" =>
                      /\ 2 \in {4, 5}
                      /\ s[k][2] \in RolesAt(2 - 1) /\ s[k][3] \in RolesAt(2)
                      /\ s[k][2] # "gc" /\ (s[k][2] = "partner_gc" => s[k][3] = "gc")
    BY <2>1, <2>4
  <2>10. Len(s) \in Nat
    BY <2>1
  <2>11. UpgradeShape(s, 2)
    BY <2>8, <2>9, <2>10 DEF UpgradeShape
  <2> QED
    BY <2>7, <2>11
<1>3. UpgradeShape(Upgrade(3), 3)
  <2> DEFINE s == UsersTable
  <2>1. Len(s) = 9 /\ s \in Seq({s[k] : k \in 1..9})
    BY DEF UsersTable
  <2>4. \A k \in 1..9 :
           /\ s[k][1] \in {"commit", "create", "check", "add", "update"}
           /\ s[k][1] = "commit" => k = 1 /\ FALSE
           /\ s[k][1] = "check" => k + 1 \in 1..9 /\ s[k + 1] = <<"add", s[k][2]>>
           /\ s[k][1] = "add" => k - 1 \in 1..9 /\ s[k - 1][1] = "check"
           /\ s[k][1] = "update" => FALSE
    BY DEF UsersTable
  <2>7. Upgrade(3) = s
    BY DEF Upgrade
  <2> HIDE DEF s
  <2>8. \E S : s \in Seq(S)
    BY <2>1
  <2>9. ASSUME NEW k \in 1..Len(s)
        PROVE  /\ s[k][1] \in {"commit", "create", "check", "add", "update"}
               /\ s[k][1] = "commit" => k = 1 /\ 3 \in {0, 2}
               /\ s[k][1] = "check" => 3 = 3 /\ k + 1 \in 1..Len(s) /\ s[k + 1] = <<"add", s[k][2]>>
               /\ s[k][1] = "add" => 3 = 3 /\ k - 1 \in 1..Len(s) /\ s[k - 1][1] = "check"
               /\ s[k][1] = "update" =>
                      /\ 3 \in {4, 5}
                      /\ s[k][2] \in RolesAt(3 - 1) /\ s[k][3] \in RolesAt(3)
                      /\ s[k][2] # "gc" /\ (s[k][2] = "partner_gc" => s[k][3] = "gc")
    BY <2>1, <2>4
  <2>10. Len(s) \in Nat
    BY <2>1
  <2>11. UpgradeShape(s, 3)
    BY <2>8, <2>9, <2>10 DEF UpgradeShape
  <2> QED
    BY <2>7, <2>11
<1>4. UpgradeShape(Upgrade(4), 4) /\ Replaces(Upgrade(4), 4)
  <2> DEFINE s == Sessions
  <2>1. Len(s) = 4 /\ s \in Seq({s[k] : k \in 1..4})
    BY DEF Sessions
  <2>2. RolesAt(3) = {"admin", "attorney", "reviewer"}
    BY DEF RolesAt
  <2>3. RolesAt(4) = {"dev", "partner_gc", "sr_solicitor", "solicitor", "paralegal"}
    BY DEF RolesAt
  <2>4. \A k \in 1..4 :
           /\ s[k][1] \in {"commit", "create", "check", "add", "update"}
           /\ s[k][1] = "commit" => k = 1 /\ FALSE
           /\ s[k][1] # "check" /\ s[k][1] # "add"
           /\ s[k][1] = "update" => TRUE
    BY DEF Sessions
  <2>5. \A k \in 1..4 : s[k][1] = "update" =>
           /\ s[k][2] \in RolesAt(3) /\ s[k][3] \in RolesAt(4)
           /\ s[k][2] # "gc" /\ (s[k][2] = "partner_gc" => s[k][3] = "gc")
    BY <2>2, <2>3 DEF Sessions
  <2>6. \A role \in RolesAt(3) : \E k \in 1..4 : s[k][1] = "update" /\ s[k][2] = role
    BY <2>2 DEF Sessions
  <2>7. Upgrade(4) = s
    BY DEF Upgrade
  <2> HIDE DEF s
  <2>8. \E S : s \in Seq(S)
    BY <2>1
  <2>9. ASSUME NEW k \in 1..Len(s)
        PROVE  /\ s[k][1] \in {"commit", "create", "check", "add", "update"}
               /\ s[k][1] = "commit" => k = 1 /\ 4 \in {0, 2}
               /\ s[k][1] = "check" => 4 = 3 /\ k + 1 \in 1..Len(s) /\ s[k + 1] = <<"add", s[k][2]>>
               /\ s[k][1] = "add" => 4 = 3 /\ k - 1 \in 1..Len(s) /\ s[k - 1][1] = "check"
               /\ s[k][1] = "update" =>
                      /\ 4 \in {4, 5}
                      /\ s[k][2] \in RolesAt(4 - 1) /\ s[k][3] \in RolesAt(4)
                      /\ s[k][2] # "gc" /\ (s[k][2] = "partner_gc" => s[k][3] = "gc")
    BY <2>1, <2>4, <2>5, 4 - 1 = 3
  <2>10. Len(s) \in Nat
    BY <2>1
  <2>11. UpgradeShape(s, 4)
    BY <2>8, <2>9, <2>10 DEF UpgradeShape
  <2>12. Replaces(s, 4)
    BY <2>1, <2>6, 4 - 1 = 3 DEF Replaces
  <2> QED
    BY <2>7, <2>11, <2>12
<1>5. UpgradeShape(Upgrade(5), 5) /\ Replaces(Upgrade(5), 5)
  <2> DEFINE s == MatterTables
  <2>1. Len(s) = 11 /\ s \in Seq({s[k] : k \in 1..11})
    BY DEF MatterTables
  <2>2. RolesAt(4) = {"dev", "partner_gc", "sr_solicitor", "solicitor", "paralegal"}
    BY DEF RolesAt
  <2>3. RolesAt(5) = {"legal", "gc"}
    BY DEF RolesAt
  <2>4. \A k \in 1..11 :
           /\ s[k][1] \in {"commit", "create", "check", "add", "update"}
           /\ s[k][1] = "commit" => k = 1 /\ FALSE
           /\ s[k][1] # "check" /\ s[k][1] # "add"
           /\ s[k][1] = "update" => TRUE
    BY DEF MatterTables
  <2>5. \A k \in 1..11 : s[k][1] = "update" =>
           /\ s[k][2] \in RolesAt(4) /\ s[k][3] \in RolesAt(5)
           /\ s[k][2] # "gc" /\ (s[k][2] = "partner_gc" => s[k][3] = "gc")
    BY <2>2, <2>3 DEF MatterTables
  <2>6. \A role \in RolesAt(4) : \E k \in 1..11 : s[k][1] = "update" /\ s[k][2] = role
    BY <2>2 DEF MatterTables
  <2>7. Upgrade(5) = s
    BY DEF Upgrade
  <2> HIDE DEF s
  <2>8. \E S : s \in Seq(S)
    BY <2>1
  <2>9. ASSUME NEW k \in 1..Len(s)
        PROVE  /\ s[k][1] \in {"commit", "create", "check", "add", "update"}
               /\ s[k][1] = "commit" => k = 1 /\ 5 \in {0, 2}
               /\ s[k][1] = "check" => 5 = 3 /\ k + 1 \in 1..Len(s) /\ s[k + 1] = <<"add", s[k][2]>>
               /\ s[k][1] = "add" => 5 = 3 /\ k - 1 \in 1..Len(s) /\ s[k - 1][1] = "check"
               /\ s[k][1] = "update" =>
                      /\ 5 \in {4, 5}
                      /\ s[k][2] \in RolesAt(5 - 1) /\ s[k][3] \in RolesAt(5)
                      /\ s[k][2] # "gc" /\ (s[k][2] = "partner_gc" => s[k][3] = "gc")
    BY <2>1, <2>4, <2>5, 5 - 1 = 4
  <2>10. Len(s) \in Nat
    BY <2>1
  <2>11. UpgradeShape(s, 5)
    BY <2>8, <2>9, <2>10 DEF UpgradeShape
  <2>12. Replaces(s, 5)
    BY <2>1, <2>6, 5 - 1 = 4 DEF Replaces
  <2> QED
    BY <2>7, <2>11, <2>12
<1>6. UpgradeShape(Upgrade(6), 6)
  <2> DEFINE s == AutomationState
  <2>1. Len(s) = 1 /\ s \in Seq({s[k] : k \in 1..1})
    BY DEF AutomationState
  <2>4. \A k \in 1..1 :
           /\ s[k][1] \in {"commit", "create", "check", "add", "update"}
           /\ s[k][1] = "commit" => k = 1 /\ FALSE
           /\ s[k][1] # "check" /\ s[k][1] # "add"
           /\ s[k][1] = "update" => FALSE
    BY DEF AutomationState
  <2>7. Upgrade(6) = s
    BY DEF Upgrade
  <2> HIDE DEF s
  <2>8. \E S : s \in Seq(S)
    BY <2>1
  <2>9. ASSUME NEW k \in 1..Len(s)
        PROVE  /\ s[k][1] \in {"commit", "create", "check", "add", "update"}
               /\ s[k][1] = "commit" => k = 1 /\ 6 \in {0, 2}
               /\ s[k][1] = "check" => 6 = 3 /\ k + 1 \in 1..Len(s) /\ s[k + 1] = <<"add", s[k][2]>>
               /\ s[k][1] = "add" => 6 = 3 /\ k - 1 \in 1..Len(s) /\ s[k - 1][1] = "check"
               /\ s[k][1] = "update" =>
                      /\ 6 \in {4, 5}
                      /\ s[k][2] \in RolesAt(6 - 1) /\ s[k][3] \in RolesAt(6)
                      /\ s[k][2] # "gc" /\ (s[k][2] = "partner_gc" => s[k][3] = "gc")
    BY <2>1, <2>4
  <2>10. Len(s) \in Nat
    BY <2>1
  <2>11. UpgradeShape(s, 6)
    BY <2>8, <2>9, <2>10 DEF UpgradeShape
  <2> QED
    BY <2>7, <2>11
<1> QED
  BY <1>0, <1>1, <1>2, <1>3, <1>4, <1>5, <1>6 DEF Versions, Latest

(* What a process finds at a line of a migration, and where it is then.    *)
LEMMA Statements ==
    ASSUME NEW v \in 0..Latest
    PROVE  /\ Len(Migration(v)) \in Nat /\ Len(Migration(v)) > 0
           /\ Migration(v)[1][1] # "add"
           /\ \A k \in Lines(v) :
                  LET s == Migration(v)[k] IN
                  /\ s[1] = "commit" => k = 1 /\ v \in {0, 2}
                  /\ s[1] = "check" => /\ v = 3 /\ k + 1 \in Lines(v) /\ k + 2 \in Lines(v)
                                       /\ Migration(v)[k + 1] = <<"add", s[2]>>
                  /\ s[1] = "add" => v = 3 /\ k - 1 \in Lines(v) /\ Migration(v)[k - 1][1] = "check"
                  /\ s[1] = "record" <=> v > 0 /\ k + 1 \notin Lines(v)
                  /\ s[1] = "record" => s[2] = v
                  /\ s[1] = "update" =>
                         /\ v \in {4, 5}
                         /\ s[2] \in RolesAt(v - 1) /\ s[3] \in RolesAt(v)
                         /\ s[2] # "gc" /\ (s[2] = "partner_gc" => s[3] = "gc")
           /\ v \in {4, 5} => Replaces(Migration(v), v)
<1>1. CASE v = 0
  <2>1. Migration(v) = BaseSchema
    BY <1>1 DEF Migration
  <2>2. UpgradeShape(BaseSchema, 0)
    BY UpgradeStatements
  <2>3. Len(BaseSchema) = 6 /\ BaseSchema[1][1] = "commit"
    BY DEF BaseSchema, CommitFirst, Create
  <2> QED
    BY <1>1, <2>1, <2>2, <2>3 DEF UpgradeShape, Lines
<1>2. CASE v # 0
  <2> DEFINE up == Upgrade(v)
             n == Len(up)
  <2>1. UpgradeShape(up, v) /\ v \in Versions /\ v > 0
    BY <1>2, UpgradeStatements DEF Versions, Latest
  <2>2. n \in Nat
    BY <2>1 DEF UpgradeShape
  <2>3. Migration(v) = up \o <<<<"record", v>>>>
    BY <1>2 DEF Migration, RecordVersion
  <2>4. /\ Len(Migration(v)) = n + 1
        /\ \A k \in 1..n : Migration(v)[k] = up[k]
        /\ Migration(v)[n + 1] = <<"record", v>>
    BY <2>1, <2>3, FollowedBy DEF UpgradeShape
  <2>5. Lines(v) = 1..(n + 1)
    BY <2>4 DEF Lines
  <2> HIDE DEF up, n
  <2>6. ASSUME NEW k \in 1..n
        PROVE  /\ up[k][1] \in {"commit", "create", "check", "add", "update"}
               /\ up[k][1] = "commit" => k = 1 /\ v \in {0, 2}
               /\ up[k][1] = "check" => v = 3 /\ k + 1 \in 1..n /\ up[k + 1] = <<"add", up[k][2]>>
               /\ up[k][1] = "add" => v = 3 /\ k - 1 \in 1..n /\ up[k - 1][1] = "check"
               /\ up[k][1] = "update" =>
                      /\ v \in {4, 5}
                      /\ up[k][2] \in RolesAt(v - 1) /\ up[k][3] \in RolesAt(v)
                      /\ up[k][2] # "gc" /\ (up[k][2] = "partner_gc" => up[k][3] = "gc")
    BY <2>1 DEF UpgradeShape, n
  <2>7. Migration(v)[1][1] # "add"
    <3>1. CASE n = 0
      BY <3>1, <2>4
    <3>2. CASE n # 0
      <4>1. 1 \in 1..n /\ 1 - 1 \notin 1..n
        BY <3>2, <2>2
      <4> QED
        BY <4>1, <2>4, <2>6
    <3> QED
      BY <3>1, <3>2
  <2>8. ASSUME NEW k \in Lines(v), NEW s, s = Migration(v)[k]
        PROVE  /\ s[1] = "commit" => k = 1 /\ v \in {0, 2}
               /\ s[1] = "check" => /\ v = 3 /\ k + 1 \in Lines(v) /\ k + 2 \in Lines(v)
                                    /\ Migration(v)[k + 1] = <<"add", s[2]>>
               /\ s[1] = "add" => v = 3 /\ k - 1 \in Lines(v) /\ Migration(v)[k - 1][1] = "check"
               /\ s[1] = "record" <=> v > 0 /\ k + 1 \notin Lines(v)
               /\ s[1] = "record" => s[2] = v
               /\ s[1] = "update" =>
                      /\ v \in {4, 5}
                      /\ s[2] \in RolesAt(v - 1) /\ s[3] \in RolesAt(v)
                      /\ s[2] # "gc" /\ (s[2] = "partner_gc" => s[3] = "gc")
    <3>1. CASE k = n + 1
      BY <3>1, <2>1, <2>2, <2>4, <2>5, <2>8
    <3>2. CASE k # n + 1
      <4>1. k \in 1..n /\ s = up[k] /\ k + 1 \in Lines(v)
        BY <3>2, <2>2, <2>4, <2>5, <2>8
      <4>2. s[1] = "check" => /\ k + 1 \in 1..n /\ k + 2 \in Lines(v)
                              /\ Migration(v)[k + 1] = <<"add", s[2]>>
        BY <4>1, <2>2, <2>4, <2>5, <2>6
      <4>3. s[1] = "add" => k - 1 \in Lines(v) /\ Migration(v)[k - 1][1] = "check"
        BY <4>1, <2>2, <2>4, <2>5, <2>6
      <4> QED
        BY <4>1, <4>2, <4>3, <2>6
    <3> QED
      BY <3>1, <3>2
  <2>9. v \in {4, 5} => Replaces(Migration(v), v)
    <3> SUFFICES ASSUME v \in {4, 5}, NEW role \in RolesAt(v - 1)
                 PROVE  \E k \in 1..Len(Migration(v)) :
                            Migration(v)[k][1] = "update" /\ Migration(v)[k][2] = role
      BY DEF Replaces
    <3>1. PICK k \in 1..n : up[k][1] = "update" /\ up[k][2] = role
      BY UpgradeStatements DEF Replaces, up, n
    <3> QED
      BY <3>1, <2>2, <2>4
  <2> QED
    BY <2>2, <2>4, <2>7, <2>8, <2>9
<1> QED
  BY <1>1, <1>2
LEMMA CheckThenAdd ==
    ASSUME NEW p, at[p] \in 0..Latest, line[p] \in Lines(at[p]), Statement(p)[1] = "check"
    PROVE  Migration(at[p])[line[p] + 1] = <<"add", Statement(p)[2]>>
<1> DEFINE v == at[p]
           k == line[p]
<1>1. v \in 0..Latest /\ k \in Lines(v) /\ Migration(v)[k][1] = "check"
  BY DEF Statement
<1> HIDE DEF v, k
<1>2. Migration(v)[k + 1] = <<"add", Migration(v)[k][2]>>
  BY <1>1, Statements
<1> QED
  BY <1>2 DEF Statement, v, k

(* What is done to the roles between one version and the next.             *)
LEMMA RolesFollow ==
    /\ \A v \in 0..Latest : RolesOf(v) \subseteq Roles
    /\ \A v \in {1, 2, 3, 6} : RolesOf(v - 1) \subseteq RolesOf(v)
    /\ RolesOf(2) = RolesOf(1)
    /\ \A v \in {4, 5}, n \in 0..Latest : v <= n => RolesAt(v - 1) \cap RolesOf(n) = {}
    /\ \A v \in {4, 5} : RolesAt(v - 1) \cap RolesAt(v) = {}
    /\ \A n \in 0..Latest : n >= 5 => "partner_gc" \notin RolesOf(n)
<1>1. RolesAt(0) = {"none"} /\ RolesAt(1) = {"none"} /\ RolesAt(2) = {"none"}
  BY DEF RolesAt
<1>2. RolesAt(3) = {"admin", "attorney", "reviewer"}
  BY DEF RolesAt
<1>3. RolesAt(4) = {"dev", "partner_gc", "sr_solicitor", "solicitor", "paralegal"}
  BY DEF RolesAt
<1>4. RolesAt(5) = {"legal", "gc"} /\ RolesAt(6) = {"legal", "gc"}
  BY DEF RolesAt
<1>5. 0..Latest = {0, 1, 2, 3, 4, 5, 6}
  BY DEF Latest
<1>6. \A v \in 0..Latest : RolesAt(v) \subseteq Roles
  BY DEF Roles
<1>7. "none" \in Roles
  BY <1>1, <1>5, <1>6
<1>8. \A v \in 0..Latest : RolesOf(v) \subseteq Roles
  BY <1>6, <1>7 DEF RolesOf
<1>9. \A v \in {1, 2, 3, 6} : RolesOf(v - 1) \subseteq RolesOf(v)
  <2>1. 1 - 1 = 0 /\ 2 - 1 = 1 /\ 3 - 1 = 2 /\ 6 - 1 = 5
    OBVIOUS
  <2> QED
    BY <2>1, <1>1, <1>2, <1>4 DEF RolesOf
<1>10. RolesOf(2) = RolesOf(1)
  BY <1>1 DEF RolesOf
<1>11. \A v \in {4, 5}, n \in 0..Latest : v <= n => RolesAt(v - 1) \cap RolesOf(n) = {}
  <2>1. 4 - 1 = 3 /\ 5 - 1 = 4
    OBVIOUS
  <2>2. /\ RolesAt(3) \cap RolesOf(4) = {} /\ RolesAt(3) \cap RolesOf(5) = {}
        /\ RolesAt(3) \cap RolesOf(6) = {}
    BY <1>2, <1>3, <1>4 DEF RolesOf
  <2>3. RolesAt(4) \cap RolesOf(5) = {} /\ RolesAt(4) \cap RolesOf(6) = {}
    BY <1>3, <1>4 DEF RolesOf
  <2> QED
    BY <1>5, <2>1, <2>2, <2>3
<1>12. \A v \in {4, 5} : RolesAt(v - 1) \cap RolesAt(v) = {}
  <2>1. 4 - 1 = 3 /\ 5 - 1 = 4
    OBVIOUS
  <2> QED
    BY <2>1, <1>2, <1>3, <1>4
<1>13. \A n \in 0..Latest : n >= 5 => "partner_gc" \notin RolesOf(n)
  BY <1>4, <1>5 DEF RolesOf
<1> QED
  BY <1>8, <1>9, <1>10, <1>11, <1>12, <1>13

LEMMA RolesReplaced ==
    ASSUME NEW v \in {4, 5}, NEW role \in RolesOf(v - 1) \cup RolesOf(v),
           \A k \in Lines(v) : Migration(v)[k][1] = "update" => Migration(v)[k][2] # role
    PROVE  role \in RolesOf(v)
<1>1. v \in 0..Latest
  BY DEF Latest
<1>2. Replaces(Migration(v), v)
  BY <1>1, Statements
<1>3. role \notin RolesAt(v - 1)
  BY <1>2 DEF Replaces, Lines
<1> QED
  BY <1>3 DEF RolesOf

LEMMA RecordedOf ==
    ASSUME NEW data, NEW n \in Nat, data.versions = 1..n
    PROVE  Recorded(data) = n
  BY FS_Interval DEF Recorded

(* The version recorded last is the one that is read.                      *)
LEMMA CurrentRecorded ==
    ASSUME Whole(db)
    PROVE  Current = Recorded(db) /\ Recorded(db) \in 0..Latest
<1> DEFINE n == Recorded(db)
           P(v) == v \in db.versions \cup {0} /\ \A u \in db.versions : u <= v
<1>1. n \in 0..6 /\ db.versions = 1..n
  BY DEF Whole, Latest
<1> HIDE DEF n
<1>2. P(n)
  BY <1>1
<1>3. P(Current)
  <2>1. Current = CHOOSE v \in db.versions \cup {0} : \A u \in db.versions : u <= v
    BY DEF Current
  <2>2. n \in db.versions \cup {0} /\ \A u \in db.versions : u <= n
    BY <1>2
  <2> HIDE DEF P
  <2>3. \E v \in db.versions \cup {0} : \A u \in db.versions : u <= v
    BY <2>2
  <2>4. /\ Current \in db.versions \cup {0}
        /\ \A u \in db.versions : u <= Current
    BY <2>1, <2>3
  <2> QED
    BY <2>4 DEF P
<1>4. Current = n
  BY <1>1, <1>2, <1>3
<1> QED
  BY <1>1, <1>4 DEF n, Latest

-----------------------------------------------------------------------------
(***************************************************************************)
(* What a step of a process leaves to the others                           *)
(***************************************************************************)
Elsewhere(p) ==
    /\ \A q \in Processes \ {p} :
           /\ at'[q] = at[q] /\ line'[q] = line[q] /\ pc'[q] = pc[q]
           /\ (lock' = q <=> lock = q) /\ (lock = q => work' = work)
    /\ db.objects \subseteq db'.objects /\ db.versions \subseteq db'.versions

LEMMA OthersStand ==
    ASSUME NEW p \in Processes, Elsewhere(p), NEW q \in Processes \ {p}, ProcessStands(q)
    PROVE  ProcessStands(q)'
<1>1. /\ at'[q] = at[q] /\ line'[q] = line[q] /\ pc'[q] = pc[q]
      /\ (lock' = q <=> lock = q) /\ (lock = q => work' = work)
      /\ db.objects \subseteq db'.objects /\ db.versions \subseteq db'.versions
  BY DEF Elsewhere
<1>2. PlaceOf(q)'
  BY <1>1 DEF ProcessStands, PlaceOf, AtWork
<1>3. Seen(q).versions \subseteq Seen(q)'.versions /\ Seen(q).objects \subseteq Seen(q)'.objects
  BY <1>1 DEF Seen
<1>4. Executed(q)'
  <2>1. Executed(q)
    BY DEF ProcessStands
  <2> QED
    BY <1>1, <1>3, <2>1 DEF Executed
<1>5. HolderOf(q)'
  BY <1>1 DEF ProcessStands, HolderOf, AtAdd, Statement
<1>6. RolesAtWork(q)'
  BY <1>1 DEF ProcessStands, RolesAtWork, Midway, Recorded
<1> QED
  BY <1>2, <1>4, <1>5, <1>6 DEF ProcessStands

(* A process that is not doomed stays so while what is committed does not  *)
(* change.                                                                 *)
LEMMA OthersUndoomed ==
    ASSUME NEW p \in Processes, Elsewhere(p), db' = db,
           NEW q \in Processes \ {p}, Undoomed(q)
    PROVE  Undoomed(q)'
<1>1. /\ at'[q] = at[q] /\ line'[q] = line[q] /\ pc'[q] = pc[q]
      /\ (lock' = q <=> lock = q) /\ (lock = q => work' = work)
  BY DEF Elsewhere
<1>2. Seen(q)' = Seen(q)
  BY <1>1 DEF Seen
<1> QED
  BY <1>1, <1>2 DEF Undoomed, AtWork, AtAdd, Statement

(* Where a process is after a statement.                                   *)
LEMMA MovesPlace ==
    ASSUME MigrationsTypeOK, \A q \in Processes : PlaceOf(q),
           NEW p \in Processes, Applies(p), NEW count \in {1, 2},
           count = 2 => Statement(p)[1] = "check", Moves(p, count)
    PROVE  /\ at' \in [Processes -> 0..(Latest + 1)] /\ line' \in [Processes -> Nat \ {0}]
           /\ \A q \in Processes : pc'[q] = "upgrading" /\ at'[q] <= Latest => Applies(q)'
           /\ \A q \in Processes \ {p} : at'[q] = at[q] /\ line'[q] = line[q]
           /\ pc' = pc /\ was' = was /\ cut' = cut
           /\ IF Statement(p)[1] = "record"
              THEN at[p] > 0 /\ at'[p] = at[p] + 1 /\ line'[p] = 1
              ELSE at'[p] = at[p] /\ line'[p] = line[p] + count
           /\ AtAdd(p)' => Statement(p)[1] = "check" /\ count = 1
<1> DEFINE v == at[p]
           k == line[p]
<1>1. v \in 0..Latest /\ k \in Lines(v) /\ AtWork(p) /\ v \in Nat /\ k \in Nat \ {0}
  <2>1. v \in 0..(Latest + 1) /\ k \in Nat \ {0}
    BY DEF MigrationsTypeOK
  <2>2. AtWork(p) /\ v <= Latest /\ k \in Lines(v)
    BY DEF Applies
  <2> QED
    BY <2>1, <2>2 DEF Latest
<1>2. /\ pc' = pc /\ was' = was /\ cut' = cut
      /\ IF v = 0 \/ k + count \in Lines(v)
         THEN line' = [line EXCEPT ![p] = k + count] /\ at' = at
         ELSE line' = [line EXCEPT ![p] = 1] /\ at' = [at EXCEPT ![p] = v + 1]
  BY DEF Moves
<1>3. /\ at \in [Processes -> 0..(Latest + 1)] /\ line \in [Processes -> Nat \ {0}]
      /\ \A q \in Processes : pc[q] = "upgrading" /\ at[q] <= Latest => Applies(q)
  BY DEF MigrationsTypeOK
<1>4. /\ Statement(p)[1] = "record" <=> v > 0 /\ k + 1 \notin Lines(v)
      /\ Statement(p)[1] = "check" => /\ k + 2 \in Lines(v)
                                      /\ Migration(v)[k + 1] = <<"add", Statement(p)[2]>>
  <2>1. Statement(p) = Migration(v)[k]
    BY DEF Statement
  <2> HIDE DEF v, k
  <2>2. v \in 0..Latest /\ k \in Lines(v)
    BY <1>1
  <2>3. /\ Migration(v)[k][1] = "record" <=> v > 0 /\ k + 1 \notin Lines(v)
        /\ Migration(v)[k][1] = "check" => /\ k + 2 \in Lines(v)
                                           /\ Migration(v)[k + 1] = <<"add", Migration(v)[k][2]>>
    BY <2>2, Statements
  <2> QED
    BY <2>1, <2>3
<1>5. IF Statement(p)[1] = "record"
      THEN v > 0 /\ at' = [at EXCEPT ![p] = v + 1] /\ line' = [line EXCEPT ![p] = 1]
      ELSE /\ at' = at /\ line' = [line EXCEPT ![p] = k + count]
           /\ v > 0 => k + count \in Lines(v)
  BY <1>1, <1>2, <1>4
<1>6. at' \in [Processes -> 0..(Latest + 1)] /\ line' \in [Processes -> Nat \ {0}]
  BY <1>1, <1>3, <1>5 DEF Latest
<1>7. \A q \in Processes \ {p} : at'[q] = at[q] /\ line'[q] = line[q]
  BY <1>3, <1>5
<1>8. IF Statement(p)[1] = "record"
      THEN v > 0 /\ at'[p] = v + 1 /\ line'[p] = 1
      ELSE at'[p] = v /\ line'[p] = k + count /\ (v > 0 => k + count \in Lines(v))
  BY <1>3, <1>5
<1>9. ASSUME NEW q \in Processes, pc'[q] = "upgrading", at'[q] <= Latest
      PROVE  Applies(q)'
  <2>1. CASE q # p
    BY <2>1, <1>2, <1>3, <1>7, <1>9 DEF Applies, AtWork, Lines
  <2>2. CASE q = p
    <3>1. at'[p] \in 0..Latest
      BY <1>6, <1>9, <2>2 DEF Latest
    <3>2. 1 \in Lines(at'[p])
      BY <3>1, Statements DEF Lines
    <3>3. v > 0
      BY <1>1, <1>2, <1>9, <2>2 DEF PlaceOf
    <3>4. line'[p] \in Lines(at'[p])
      BY <1>8, <3>2, <3>3
    <3> QED
      BY <2>2, <1>9, <3>4 DEF Applies, AtWork, Lines
  <2> QED
    BY <2>1, <2>2
<1>10. ASSUME AtAdd(p)'
       PROVE  Statement(p)[1] = "check" /\ count = 1
  <2>1. at'[p] <= Latest /\ line'[p] \in Lines(at'[p]) /\ Migration(at'[p])[line'[p]][1] = "add"
    BY <1>10 DEF AtAdd, Statement, Lines
  <2>2. at'[p] \in 0..Latest
    BY <2>1, <1>6 DEF Latest
  <2>3. Statement(p)[1] # "record"
    BY <1>8, <2>1, <2>2, Statements
  <2>4. at'[p] = v /\ line'[p] = k + count
    BY <1>8, <2>3
  <2> DEFINE l == k + count
  <2>8. l \in Lines(v) /\ Migration(v)[l][1] = "add"
    BY <2>1, <2>4
  <2> HIDE DEF l
  <2>9. l - 1 \in Lines(v) /\ Migration(v)[l - 1][1] = "check"
    BY <1>1, <2>8, Statements
  <2>5. l = k + count
    BY DEF l
  <2>6. count = 1
    <3>1. SUFFICES ASSUME count = 2
                   PROVE  FALSE
      OBVIOUS
    <3>2. Migration(v)[k + 1][1] = "add"
      BY <1>4, <3>1
    <3> QED
      BY <1>1, <2>5, <2>9, <3>1, <3>2
  <2>7. Migration(v)[k][1] = "check"
    BY <1>1, <2>5, <2>6, <2>9
  <2> QED
    BY <2>6, <2>7 DEF Statement
<1> QED
  BY <1>2, <1>6, <1>7, <1>8, <1>9, <1>10

(* What a process has executed with the statement of this step.            *)
LEMMA MovesExecuted ==
    ASSUME MigrationsTypeOK, \A q \in Processes : PlaceOf(q),
           NEW p \in Processes, Applies(p), NEW count \in {1, 2},
           count = 2 => Statement(p)[1] = "check",
           count = 2 => Statement(p)[2] \in Seen(p)'.objects,
           Moves(p, count), Executed(p),
           Seen(p).versions \subseteq Seen(p)'.versions,
           Seen(p).objects \subseteq Seen(p)'.objects,
           Statement(p)[1] \in {"create", "add"} => Statement(p)[2] \in Seen(p)'.objects,
           Statement(p)[1] = "update" => lock' = p,
           Statement(p)[1] = "record" => Statement(p)[2] \in Seen(p)'.versions,
           lock = p => lock' = p \/ Statement(p)[1] = "commit"
    PROVE  Executed(p)'
<1> DEFINE v == at[p]
           k == line[p]
<1>1. v \in 0..Latest /\ k \in Lines(v) /\ v \in Nat /\ k \in Nat \ {0} /\ Latest \in Nat
  BY DEF Applies, MigrationsTypeOK, Latest
<1>3. IF Statement(p)[1] = "record"
      THEN v > 0 /\ at'[p] = v + 1 /\ line'[p] = 1
      ELSE at'[p] = v /\ line'[p] = k + count
  BY MovesPlace
<1>4. /\ 1..(v - 1) \subseteq Seen(p).versions
      /\ \A l \in Lines(v) : l < k =>
             /\ Migration(v)[l][1] \in {"create", "add"} => Migration(v)[l][2] \in Seen(p).objects
             /\ Migration(v)[l][1] = "update" => lock = p
  BY <1>1 DEF Executed
<1>7. Statement(p)[1] = "check" => Migration(v)[k + 1] = <<"add", Statement(p)[2]>>
  BY <1>1, CheckThenAdd
<1>5. CASE Statement(p)[1] = "record"
  <2>1. Statement(p)[2] = v
    BY <1>1, <1>5, Statements DEF Statement
  <2>2. 1..(at'[p] - 1) \subseteq Seen(p)'.versions
    <3>1. v \in Seen(p)'.versions
      BY <1>5, <2>1
    <3>2. \A u \in 1..v : u = v \/ u \in 1..(v - 1)
      BY <1>1
    <3>3. 1..v \subseteq Seen(p)'.versions
      BY <1>4, <3>1, <3>2
    <3>4. at'[p] - 1 = v
      BY <1>1, <1>3, <1>5
    <3> QED
      BY <3>3, <3>4
  <2>3. ~ \E l \in Lines(at'[p]) : l < line'[p]
    BY <1>3, <1>5 DEF Lines
  <2> QED
    BY <2>2, <2>3 DEF Executed, Lines
<1>6. CASE Statement(p)[1] # "record"
  <2>1. at'[p] = v /\ line'[p] = k + count
    BY <1>3, <1>6
  <2>2. 1..(v - 1) \subseteq Seen(p)'.versions
    BY <1>4
  <2>3. ASSUME NEW l \in Lines(v), l < k + count
        PROVE  /\ Migration(v)[l][1] \in {"create", "add"} =>
                      Migration(v)[l][2] \in Seen(p)'.objects
               /\ Migration(v)[l][1] = "update" => lock' = p
    <3>1. CASE l < k
      <4>1. lock = p => lock' = p \/ k = 1
        BY <1>1, Statements DEF Statement
      <4>2. k # 1
        BY <1>1, <3>1 DEF Lines
      <4> QED
        BY <1>4, <3>1, <4>1, <4>2
    <3>2. CASE l = k
      BY <3>2 DEF Statement
    <3>3. CASE l > k
      <4>1. count = 2 /\ l = k + 1
        BY <1>1, <2>3, <3>3 DEF Lines
      <4>2. Migration(v)[k + 1] = <<"add", Statement(p)[2]>>
        BY <1>7, <4>1
      <4> QED
        BY <4>1, <4>2
    <3> QED
      BY <1>1, <3>1, <3>2, <3>3 DEF Lines
  <2> QED
    BY <1>1, <2>1, <2>2, <2>3 DEF Executed, Lines
<1> QED
  BY <1>5, <1>6

LEMMA StatementOf ==
    ASSUME MigrationsTypeOK, NEW p \in Processes, Applies(p)
    PROVE  /\ at[p] \in 0..Latest /\ line[p] \in Lines(at[p]) /\ AtWork(p)
           /\ Statement(p)[1] = "commit" => line[p] = 1 /\ at[p] \in {0, 2}
           /\ Statement(p)[1] \in {"check", "add"} => at[p] = 3
           /\ Statement(p)[1] = "record" =>
                  /\ at[p] > 0 /\ Statement(p)[2] = at[p]
                  /\ \A k \in Lines(at[p]) : k < line[p] \/ k = line[p]
           /\ Statement(p)[1] = "update" =>
                  /\ at[p] \in {4, 5}
                  /\ Statement(p)[2] \in RolesAt(at[p] - 1) /\ Statement(p)[3] \in RolesAt(at[p])
                  /\ Statement(p)[2] # "gc"
                  /\ Statement(p)[2] = "partner_gc" => Statement(p)[3] = "gc"
           /\ Statement(p)[1] \in {"create", "add"} => Statement(p)[2] \in Makes(at[p])
<1> DEFINE v == at[p]
           k == line[p]
<1>1. v \in 0..Latest /\ k \in Lines(v) /\ AtWork(p)
  BY DEF Applies, MigrationsTypeOK, Latest
<1>2. Statement(p) = Migration(v)[k]
  BY DEF Statement
<1> HIDE DEF v, k
<1> DEFINE s == Migration(v)[k]
<1>3. /\ s[1] = "commit" => k = 1 /\ v \in {0, 2}
      /\ s[1] = "check" => v = 3
      /\ s[1] = "add" => v = 3
      /\ s[1] = "record" <=> v > 0 /\ k + 1 \notin Lines(v)
      /\ s[1] = "record" => s[2] = v
  BY <1>1, Statements
<1>4. s[1] = "update" => /\ v \in {4, 5}
                         /\ s[2] \in RolesAt(v - 1) /\ s[3] \in RolesAt(v)
                         /\ s[2] # "gc" /\ (s[2] = "partner_gc" => s[3] = "gc")
  BY <1>1, Statements
<1>5. s[1] \in {"create", "add"} => s[2] \in Makes(v)
  BY <1>1 DEF Makes
<1> HIDE DEF s
<1>6. s[1] = "record" => \A l \in Lines(v) : l < k \/ l = k
  <2>1. Len(Migration(v)) \in Nat
    BY <1>1, Statements
  <2> QED
    BY <1>1, <1>3, <2>1 DEF Lines
<1>7. Statement(p) = s
  BY <1>2 DEF s
<1> QED
  BY <1>1, <1>3, <1>4, <1>5, <1>6, <1>7 DEF v, k

LEMMA NotUpdatedOn ==
    ASSUME NEW v \in 0..Latest, NEW k \in Lines(v), NEW count \in {1, 2}, NEW role,
           count = 2 => Migration(v)[k][1] = "check",
           NotUpdated(v, k, role),
           Migration(v)[k][1] = "update" => Migration(v)[k][2] # role
    PROVE  NotUpdated(v, k + count, role)
<1> SUFFICES ASSUME NEW l \in Lines(v), l < k + count, Migration(v)[l][1] = "update"
             PROVE  Migration(v)[l][2] # role
  BY DEF NotUpdated
<1>1. k \in Nat /\ l \in Nat
  BY DEF Lines
<1>2. CASE l < k
  BY <1>2 DEF NotUpdated
<1>3. CASE l = k
  BY <1>3
<1>4. CASE l > k
  <2>1. count = 2 /\ l = k + 1
    BY <1>1, <1>4
  <2>2. Migration(v)[k + 1] = <<"add", Migration(v)[k][2]>>
    BY <2>1, Statements
  <2> QED
    BY <2>1, <2>2
<1> QED
  BY <1>1, <1>2, <1>3, <1>4

-----------------------------------------------------------------------------
(***************************************************************************)
(* The steps                                                               *)
(***************************************************************************)
(* A statement that finds nothing to do.                                   *)
LEMMA LookStands ==
    ASSUME MigrationsIInv, NEW p \in Processes, Applies(p), NEW count \in {1, 2},
           Statement(p)[1] \in {"commit", "create", "check"},
           Statement(p)[1] = "commit" => lock # p,
           Statement(p)[1] = "create" => Statement(p)[2] \in Seen(p).objects,
           count = 2 => Statement(p)[1] = "check",
           count = 2 => Statement(p)[2] \in Seen(p).objects,
           Statement(p)[1] = "check" /\ count = 1 => Statement(p)[2] \notin Seen(p).objects,
           Moves(p, count), UNCHANGED <<db, work, lock>>
    PROVE  MigrationsIInv'
<1>1. /\ MigrationsTypeOK /\ DataStands /\ \A q \in Processes : ProcessStands(q)
      /\ Survivor /\ OpenWhole
  BY DEF MigrationsIInv
<1>2. \A q \in Processes : PlaceOf(q)
  BY <1>1 DEF ProcessStands
<1>3. /\ at[p] \in 0..Latest /\ line[p] \in Lines(at[p]) /\ AtWork(p)
      /\ Statement(p)[1] = "check" => at[p] = 3
  BY <1>1, StatementOf
<1>4. /\ at' \in [Processes -> 0..(Latest + 1)] /\ line' \in [Processes -> Nat \ {0}]
      /\ \A q \in Processes : pc'[q] = "upgrading" /\ at'[q] <= Latest => Applies(q)'
      /\ \A q \in Processes \ {p} : at'[q] = at[q] /\ line'[q] = line[q]
      /\ pc' = pc /\ was' = was /\ cut' = cut
      /\ at'[p] = at[p] /\ line'[p] = line[p] + count
      /\ AtAdd(p)' => Statement(p)[1] = "check" /\ count = 1
  BY <1>1, <1>2, MovesPlace
<1>5. Seen(p)' = Seen(p)
  BY DEF Seen
<1>6. MigrationsTypeOK'
  BY <1>1, <1>4 DEF MigrationsTypeOK, AtWork
<1>7. DataStands'
  BY <1>1, <1>4 DEF DataStands, Whole, Recorded, TransactionAdds, GcStands
<1>8. Elsewhere(p)
  BY <1>4 DEF Elsewhere
<1>9. AtAdd(p)' => Statement(p)'[2] \notin Seen(p).objects
  <2>1. SUFFICES ASSUME AtAdd(p)'
                 PROVE  Statement(p)'[2] \notin Seen(p).objects
    OBVIOUS
  <2>2. Statement(p)[1] = "check" /\ count = 1
    BY <1>4, <2>1
  <2>3. Migration(at[p])[line[p] + 1] = <<"add", Statement(p)[2]>>
    BY <1>3, <2>2, CheckThenAdd
  <2>4. Statement(p)' = <<"add", Statement(p)[2]>>
    BY <1>4, <2>2, <2>3 DEF Statement
  <2> QED
    BY <2>2, <2>4
<1>10. ProcessStands(p)'
  <2>1. PlaceOf(p)'
    BY <1>2, <1>3, <1>4 DEF PlaceOf, AtWork
  <2>2. Executed(p)'
    <3>1. Executed(p)
      BY <1>1 DEF ProcessStands
    <3> QED
      BY <1>1, <1>2, <1>5, <3>1, MovesExecuted
  <2>3. HolderOf(p)'
    BY <1>1, <1>4, <1>9 DEF ProcessStands, HolderOf, Seen
  <2>4. RolesAtWork(p)'
    <3>1. SUFFICES ASSUME lock = p, NEW u \in Users
                   PROVE  IF Midway(p)
                          THEN /\ work.roles[u] \in RolesOf(Recorded(work)) \cup RolesOf(at[p])
                               /\ NotUpdated(at[p], line'[p], work.roles[u])
                          ELSE work.roles[u] \in RolesOf(Recorded(work))
      BY <1>4 DEF RolesAtWork, Midway, Recorded
    <3>2. RolesAtWork(p)
      BY <1>1 DEF ProcessStands
    <3>3. NotUpdated(at[p], line[p], work.roles[u]) =>
              NotUpdated(at[p], line[p] + count, work.roles[u])
      BY <1>3, NotUpdatedOn DEF Statement
    <3> QED
      BY <1>4, <3>1, <3>2, <3>3 DEF RolesAtWork
  <2> QED
    BY <2>1, <2>2, <2>3, <2>4 DEF ProcessStands
<1>11. \A q \in Processes : ProcessStands(q)'
  BY <1>1, <1>8, <1>10, OthersStand
<1>12. Survivor'
  <2>1. ASSUME NEW q \in Processes, Undoomed(q)
        PROVE  Undoomed(q)'
    <3>1. CASE q # p
      BY <3>1, <2>1, <1>8, OthersUndoomed
    <3>2. CASE q = p
      BY <3>2, <2>1, <1>4, <1>5, <1>9 DEF Undoomed, AtWork
    <3> QED
      BY <3>1, <3>2
  <2>2. ~ \A q \in Processes : pc[q] = "closed"
    BY <1>3 DEF AtWork
  <2> QED
    BY <1>1, <1>4, <2>1, <2>2 DEF Survivor
<1>13. OpenWhole'
  BY <1>1, <1>4 DEF OpenWhole
<1> QED
  BY <1>6, <1>7, <1>11, <1>12, <1>13 DEF MigrationsIInv

(* A CREATE or ALTER of what is not there.                                 *)
LEMMA AddsStand ==
    ASSUME MigrationsIInv, NEW p \in Processes, Applies(p), Free(p),
           Statement(p)[1] \in {"create", "add"}, Statement(p)[2] \notin Seen(p).objects,
           WriteAtOnce(p, [Seen(p) EXCEPT !.objects = @ \cup {Statement(p)[2]}]),
           Moves(p, 1)
    PROVE  MigrationsIInv'
<1> DEFINE c == Statement(p)[2]
<1>1. /\ MigrationsTypeOK /\ DataStands /\ \A q \in Processes : ProcessStands(q)
      /\ Survivor /\ OpenWhole
  BY DEF MigrationsIInv
<1>2. \A q \in Processes : PlaceOf(q)
  BY <1>1 DEF ProcessStands
<1>3. /\ at[p] \in 0..Latest /\ line[p] \in Lines(at[p]) /\ AtWork(p)
      /\ c \in Makes(at[p])
  BY <1>1, StatementOf
<1>4. /\ at' \in [Processes -> 0..(Latest + 1)] /\ line' \in [Processes -> Nat \ {0}]
      /\ \A q \in Processes : pc'[q] = "upgrading" /\ at'[q] <= Latest => Applies(q)'
      /\ \A q \in Processes \ {p} : at'[q] = at[q] /\ line'[q] = line[q]
      /\ pc' = pc /\ was' = was /\ cut' = cut
      /\ at'[p] = at[p] /\ line'[p] = line[p] + 1
      /\ ~ AtAdd(p)'
  BY <1>1, <1>2, MovesPlace
<1>5. c \in Schema
  BY <1>3 DEF Schema
<1>6. lock \in {p, NoOne} /\ p # NoOne /\ (lock = NoOne => work = db) /\ lock' = lock
  BY <1>1, NoOneAssumption DEF Free, DataStands, TransactionAdds, WriteAtOnce
<1>7. db \in Database /\ work \in Database
  BY <1>1 DEF MigrationsTypeOK
<1>8. Seen(p) = work
  BY <1>6 DEF Seen
<1>9. /\ work' = [work EXCEPT !.objects = @ \cup {c}]
      /\ IF lock = p THEN db' = db ELSE db = work /\ db' = work'
  BY <1>6, <1>8 DEF WriteAtOnce
<1>10. /\ work' \in Database /\ work'.versions = work.versions /\ work'.roles = work.roles
       /\ work'.objects = work.objects \cup {c}
  BY <1>5, <1>7, <1>9 DEF Database
<1>11. /\ db' \in Database /\ db'.versions = db.versions /\ db'.roles = db.roles
       /\ db.objects \subseteq db'.objects /\ db'.objects \subseteq work'.objects
  <2>1. db.objects \subseteq work.objects
    BY <1>1 DEF DataStands, TransactionAdds
  <2> QED
    BY <1>7, <1>9, <1>10, <2>1
<1> HIDE DEF c
<1>12. MigrationsTypeOK'
  BY <1>1, <1>4, <1>6, <1>10, <1>11 DEF MigrationsTypeOK, AtWork
<1>13. DataStands'
  <2>1. Whole(db)' /\ Whole(work)'
    BY <1>1, <1>10, <1>11 DEF DataStands, Whole, Recorded
  <2>2. TransactionAdds'
    BY <1>1, <1>6, <1>9, <1>10, <1>11 DEF DataStands, TransactionAdds
  <2> QED
    BY <1>1, <1>4, <1>10, <1>11, <2>1, <2>2 DEF DataStands, Recorded, GcStands
<1>14. Elsewhere(p)
  <2>1. \A q \in Processes \ {p} : lock # q
    BY <1>6, NoOneAssumption
  <2>2. db.versions \subseteq db'.versions
    BY <1>11
  <2> QED
    BY <1>4, <1>6, <1>11, <2>1, <2>2 DEF Elsewhere
<1>15. Seen(p)' = work'
  BY <1>6, <1>9 DEF Seen
<1>16. ProcessStands(p)'
  <2>1. PlaceOf(p)'
    BY <1>2, <1>3, <1>4, <1>6, <1>11 DEF PlaceOf, AtWork
  <2>2. Executed(p)'
    <3>1. Executed(p)
      BY <1>1 DEF ProcessStands
    <3>2. Statement(p)[2] \in Seen(p)'.objects
      BY <1>10, <1>15 DEF c
    <3>3. Seen(p).versions \subseteq Seen(p)'.versions /\ Seen(p).objects \subseteq Seen(p)'.objects
      BY <1>8, <1>10, <1>15
    <3> QED
      BY <1>1, <1>2, <1>6, <3>1, <3>2, <3>3, MovesExecuted
  <2>3. HolderOf(p)'
    BY <1>1, <1>4, <1>6, <1>10 DEF ProcessStands, HolderOf
  <2>4. RolesAtWork(p)'
    <3>1. SUFFICES ASSUME lock = p, NEW u \in Users
                   PROVE  IF Midway(p)
                          THEN /\ work.roles[u] \in RolesOf(Recorded(work)) \cup RolesOf(at[p])
                               /\ NotUpdated(at[p], line'[p], work.roles[u])
                          ELSE work.roles[u] \in RolesOf(Recorded(work))
      BY <1>4, <1>6, <1>10 DEF RolesAtWork, Midway, Recorded
    <3>2. RolesAtWork(p)
      BY <1>1 DEF ProcessStands
    <3>3. NotUpdated(at[p], line[p], work.roles[u]) => NotUpdated(at[p], line[p] + 1, work.roles[u])
      BY <1>3, NotUpdatedOn DEF Statement
    <3> QED
      BY <1>4, <3>1, <3>2, <3>3 DEF RolesAtWork
  <2> QED
    BY <2>1, <2>2, <2>3, <2>4 DEF ProcessStands
<1>17. \A q \in Processes : ProcessStands(q)'
  BY <1>1, <1>14, <1>16, OthersStand
<1>18. Survivor'
  <2>1. ~ \A q \in Processes : pc[q] = "closed"
    BY <1>3 DEF AtWork
  <2>2. CASE lock = p
    <3>1. ASSUME NEW q \in Processes, Undoomed(q)
          PROVE  Undoomed(q)'
      <4>1. CASE q # p
        BY <4>1, <3>1, <2>2, <1>9, <1>14, OthersUndoomed
      <4>2. CASE q = p
        BY <4>2, <3>1, <1>4, <1>8, <1>10, <1>15 DEF Undoomed, AtWork
      <4> QED
        BY <4>1, <4>2
    <3> QED
      BY <1>1, <1>4, <1>11, <2>1, <3>1 DEF Survivor
  <2>3. CASE lock # p
    <3>1. db = work
      BY <1>9, <2>3
    <3>2. pc[p] = "upgrading" => at[p] \notin db.versions
      <4>1. SUFFICES ASSUME pc[p] = "upgrading", at[p] \in db.versions
                     PROVE  FALSE
        OBVIOUS
      <4>2. Makes(at[p]) \subseteq db.objects
        <5>1. Recorded(db) \in Nat /\ db.versions = 1..Recorded(db)
          BY <1>1 DEF DataStands, Whole, Latest
        <5> QED
          BY <1>1, <5>1, <4>1 DEF DataStands, Whole
      <4> QED
        BY <1>3, <1>8, <3>1, <4>2 DEF c
    <3>3. Undoomed(p)'
      BY <1>3, <1>4, <1>10, <1>15, <3>1, <3>2 DEF Undoomed, AtWork
    <3> QED
      BY <3>3 DEF Survivor
  <2> QED
    BY <2>2, <2>3
<1>19. OpenWhole'
  BY <1>1, <1>4, <1>11 DEF OpenWhole
<1> QED
  BY <1>12, <1>13, <1>17, <1>18, <1>19 DEF MigrationsIInv

(* What a process that may write finds.                                    *)
LEMMA BeforeWrite ==
    ASSUME MigrationsIInv, NEW p \in Processes, Applies(p), Free(p)
    PROVE  /\ Seen(p) = work /\ lock \in {p, NoOne} /\ (lock # p => work = db)
           /\ \A q \in Processes \ {p} : lock # q
           /\ Recorded(work) \in 0..Latest /\ work.versions = 1..Recorded(work)
           /\ at[p] \in 0..Latest /\ at[p] - 1 <= Recorded(work)
           /\ \A u \in Users :
                  IF Midway(p)
                  THEN /\ work.roles[u] \in RolesOf(Recorded(work)) \cup RolesOf(at[p])
                       /\ NotUpdated(at[p], line[p], work.roles[u])
                  ELSE work.roles[u] \in RolesOf(Recorded(work))
<1>1. /\ MigrationsTypeOK /\ DataStands /\ ProcessStands(p)
  BY DEF MigrationsIInv
<1>2. lock \in {p, NoOne} /\ p # NoOne /\ (lock = NoOne => work = db)
  BY <1>1, NoOneAssumption DEF Free, DataStands, TransactionAdds
<1>3. Seen(p) = work /\ (lock # p => work = db)
  BY <1>2 DEF Seen
<1>4. \A q \in Processes \ {p} : lock # q
  BY <1>2, NoOneAssumption
<1>5. Recorded(work) \in 0..Latest /\ work.versions = 1..Recorded(work)
  BY <1>1 DEF DataStands, Whole
<1>6. at[p] \in 0..Latest
  BY <1>1, StatementOf
<1>7. at[p] - 1 <= Recorded(work)
  <2>1. 1..(at[p] - 1) \subseteq 1..Recorded(work)
    BY <1>1, <1>3, <1>5 DEF ProcessStands, Executed
  <2> QED
    BY <1>5, <1>6, <2>1 DEF Latest
<1>8. ASSUME NEW u \in Users
      PROVE  IF Midway(p)
             THEN /\ work.roles[u] \in RolesOf(Recorded(work)) \cup RolesOf(at[p])
                  /\ NotUpdated(at[p], line[p], work.roles[u])
             ELSE work.roles[u] \in RolesOf(Recorded(work))
  <2>1. CASE lock = p
    BY <1>1, <2>1 DEF ProcessStands, RolesAtWork
  <2>2. CASE lock # p
    <3>1. work.roles[u] \in RolesOf(Recorded(work))
      BY <1>1, <1>3, <2>2 DEF DataStands
    <3>2. NotUpdated(at[p], line[p], work.roles[u])
      <4>1. at[p] <= Latest
        BY <1>6 DEF Latest
      <4> QED
        BY <1>1, <2>2, <4>1 DEF ProcessStands, Executed, NotUpdated
    <3> QED
      BY <3>1, <3>2
  <2> QED
    BY <2>1, <2>2
<1> QED
  BY <1>2, <1>3, <1>4, <1>5, <1>6, <1>7, <1>8

LEMMA UpdateRolesStands ==
    ASSUME MigrationsIInv, NEW p \in Processes, UpdateRoles(p)
    PROVE  MigrationsIInv'
<1> DEFINE v == at[p]
           old == Statement(p)[2]
           new == Statement(p)[3]
           n == Recorded(work)
<1>1. /\ MigrationsTypeOK /\ DataStands /\ \A q \in Processes : ProcessStands(q)
      /\ Survivor /\ OpenWhole
  BY DEF MigrationsIInv
<1>2. \A q \in Processes : PlaceOf(q)
  BY <1>1 DEF ProcessStands
<1>3. Applies(p) /\ Statement(p)[1] = "update" /\ Free(p) /\ Moves(p, 1)
  BY DEF UpdateRoles, Does, StepOn
<1>4. /\ v \in 0..Latest /\ line[p] \in Lines(v) /\ AtWork(p)
      /\ v \in {4, 5} /\ old \in RolesAt(v - 1) /\ new \in RolesAt(v)
      /\ old # "gc" /\ (old = "partner_gc" => new = "gc")
  BY <1>1, <1>3, StatementOf
<1>5. /\ at' \in [Processes -> 0..(Latest + 1)] /\ line' \in [Processes -> Nat \ {0}]
      /\ \A q \in Processes : pc'[q] = "upgrading" /\ at'[q] <= Latest => Applies(q)'
      /\ \A q \in Processes \ {p} : at'[q] = at[q] /\ line'[q] = line[q]
      /\ pc' = pc /\ was' = was /\ cut' = cut
      /\ at'[p] = v /\ line'[p] = line[p] + 1
      /\ ~ AtAdd(p)'
  BY <1>1, <1>2, <1>3, MovesPlace
<1>6. /\ Seen(p) = work /\ lock \in {p, NoOne} /\ (lock # p => work = db)
      /\ \A q \in Processes \ {p} : lock # q
      /\ n \in 0..Latest /\ work.versions = 1..n
      /\ v - 1 <= n
      /\ \A u \in Users :
             IF Midway(p)
             THEN /\ work.roles[u] \in RolesOf(n) \cup RolesOf(v)
                  /\ NotUpdated(v, line[p], work.roles[u])
             ELSE work.roles[u] \in RolesOf(n)
  BY <1>3, BeforeWrite
<1>7. db \in Database /\ work \in Database
  BY <1>1 DEF MigrationsTypeOK
<1>8. /\ lock' = p /\ db' = db
      /\ work' = [work EXCEPT !.roles =
                     [u \in Users |-> IF work.roles[u] = old THEN new ELSE work.roles[u]]]
  BY <1>6 DEF UpdateRoles, WriteInTransaction
<1>9. new \in Roles
  BY <1>4, RolesFollow DEF RolesOf
<1>10. /\ work' \in Database /\ work'.versions = work.versions /\ work'.objects = work.objects
       /\ \A u \in Users : work'.roles[u] = IF work.roles[u] = old THEN new ELSE work.roles[u]
  BY <1>7, <1>8, <1>9 DEF Database
<1> HIDE DEF old, new, n
<1>11. MigrationsTypeOK'
  BY <1>1, <1>4, <1>5, <1>8, <1>10 DEF MigrationsTypeOK, AtWork
<1>12. DataStands'
  <2>1. Whole(db)' /\ Whole(work)'
    BY <1>1, <1>8, <1>10 DEF DataStands, Whole, Recorded
  <2>2. TransactionAdds'
    BY <1>1, <1>8, <1>10, NoOneAssumption DEF DataStands, TransactionAdds
  <2>3. GcStands'
    BY <1>1, <1>4, <1>5, <1>8, <1>10 DEF DataStands, GcStands
  <2> QED
    BY <1>1, <1>8, <2>1, <2>2, <2>3 DEF DataStands, Recorded
<1>13. Elsewhere(p)
  <2>1. \A q \in Processes \ {p} : lock # q /\ lock' # q
    BY <1>6, <1>8
  <2> QED
    BY <1>5, <1>8, <2>1 DEF Elsewhere
<1>14. Seen(p)' = work'
  BY <1>8 DEF Seen
<1>15. ProcessStands(p)'
  <2>1. PlaceOf(p)'
    <3>1. pc[p] # "opening"
      BY <1>2, <1>4 DEF PlaceOf
    <3> QED
      BY <1>2, <1>4, <1>5, <1>8, <3>1 DEF PlaceOf, AtWork
  <2>2. Executed(p)'
    <3>1. Executed(p)
      BY <1>1 DEF ProcessStands
    <3>2. Seen(p).versions \subseteq Seen(p)'.versions /\ Seen(p).objects \subseteq Seen(p)'.objects
      BY <1>6, <1>10, <1>14
    <3> QED
      BY <1>1, <1>2, <1>3, <1>8, <3>1, <3>2, MovesExecuted
  <2>3. HolderOf(p)'
    BY <1>4, <1>5 DEF HolderOf
  <2>4. RolesAtWork(p)'
    <3>1. SUFFICES ASSUME NEW u \in Users
                   PROVE  IF Midway(p)
                          THEN /\ work'.roles[u] \in RolesOf(n) \cup RolesOf(v)
                               /\ NotUpdated(v, line[p] + 1, work'.roles[u])
                          ELSE work'.roles[u] \in RolesOf(n)
      BY <1>5, <1>10 DEF RolesAtWork, Midway, Recorded, n
    <3>2. CASE work.roles[u] # old
      <4>1. work'.roles[u] = work.roles[u]
        BY <1>10, <3>2
      <4>2. NotUpdated(v, line[p], work.roles[u]) => NotUpdated(v, line[p] + 1, work.roles[u])
        BY <1>3, <1>4, <3>2, NotUpdatedOn DEF Statement, old
      <4> QED
        BY <1>6, <4>1, <4>2
    <3>3. CASE work.roles[u] = old
      <4>1. work'.roles[u] = new /\ new \in RolesOf(v)
        BY <1>4, <1>10, <3>3 DEF RolesOf
      <4>2. Midway(p)
        <5>1. SUFFICES ASSUME ~ Midway(p)
                       PROVE  FALSE
          OBVIOUS
        <5>2. v <= n
          BY <1>4, <1>6, <5>1 DEF Midway, Latest, n
        <5>3. old \notin RolesOf(n)
          BY <1>4, <1>6, <5>2, RolesFollow
        <5> QED
          BY <1>6, <3>3, <5>1, <5>3
      <4>3. NotUpdated(v, line[p] + 1, new)
        <5>1. SUFFICES ASSUME NEW l \in Lines(v), Migration(v)[l][1] = "update"
                       PROVE  Migration(v)[l][2] # new
          BY DEF NotUpdated
        <5>2. Migration(v)[l][2] \in RolesAt(v - 1)
          BY <1>4, <5>1, Statements
        <5> QED
          BY <1>4, <5>2, RolesFollow
      <4> QED
        BY <4>1, <4>2, <4>3
    <3> QED
      BY <3>2, <3>3
  <2> QED
    BY <2>1, <2>2, <2>3, <2>4 DEF ProcessStands
<1>16. \A q \in Processes : ProcessStands(q)'
  BY <1>1, <1>13, <1>15, OthersStand
<1>17. Survivor'
  <2>1. ~ \A q \in Processes : pc[q] = "closed"
    BY <1>4 DEF AtWork
  <2>2. ASSUME NEW q \in Processes, Undoomed(q)
        PROVE  Undoomed(q)'
    <3>1. CASE q # p
      BY <3>1, <2>2, <1>8, <1>13, OthersUndoomed
    <3>2. CASE q = p
      BY <3>2, <2>2, <1>5, <1>6, <1>10, <1>14 DEF Undoomed, AtWork
    <3> QED
      BY <3>1, <3>2
  <2> QED
    BY <1>1, <1>5, <1>8, <2>1, <2>2 DEF Survivor
<1>18. OpenWhole'
  BY <1>1, <1>5, <1>8 DEF OpenWhole
<1> QED
  BY <1>11, <1>12, <1>16, <1>17, <1>18 DEF MigrationsIInv

LEMMA InsertVersionStands ==
    ASSUME MigrationsIInv, NEW p \in Processes, InsertVersion(p)
    PROVE  MigrationsIInv'
<1> DEFINE v == at[p]
           n == Recorded(work)
<1>1. /\ MigrationsTypeOK /\ DataStands /\ \A q \in Processes : ProcessStands(q)
      /\ Survivor /\ OpenWhole
  BY DEF MigrationsIInv
<1>2. \A q \in Processes : PlaceOf(q)
  BY <1>1 DEF ProcessStands
<1>3. Applies(p) /\ Statement(p)[1] = "record" /\ Free(p) /\ Moves(p, 1)
  BY DEF InsertVersion, Does, StepOn
<1>4. /\ v \in 0..Latest /\ line[p] \in Lines(v) /\ AtWork(p)
      /\ v > 0 /\ Statement(p)[2] = v
      /\ \A k \in Lines(v) : k < line[p] \/ k = line[p]
  BY <1>1, <1>3, StatementOf
<1>5. /\ at' \in [Processes -> 0..(Latest + 1)] /\ line' \in [Processes -> Nat \ {0}]
      /\ \A q \in Processes : pc'[q] = "upgrading" /\ at'[q] <= Latest => Applies(q)'
      /\ \A q \in Processes \ {p} : at'[q] = at[q] /\ line'[q] = line[q]
      /\ pc' = pc /\ was' = was /\ cut' = cut
      /\ at'[p] = v + 1 /\ line'[p] = 1
      /\ ~ AtAdd(p)'
  BY <1>1, <1>2, <1>3, MovesPlace
<1>6. /\ Seen(p) = work /\ lock \in {p, NoOne} /\ (lock # p => work = db)
      /\ \A q \in Processes \ {p} : lock # q
      /\ n \in 0..Latest /\ work.versions = 1..n
      /\ v - 1 <= n
      /\ \A u \in Users :
             IF Midway(p)
             THEN /\ work.roles[u] \in RolesOf(n) \cup RolesOf(v)
                  /\ NotUpdated(v, line[p], work.roles[u])
             ELSE work.roles[u] \in RolesOf(n)
  BY <1>3, BeforeWrite
<1>7. v \notin work.versions
  BY <1>4, <1>6 DEF InsertVersion
<1>8. n = v - 1 /\ n \in Nat /\ v \in Versions
  BY <1>4, <1>6, <1>7 DEF Latest, Versions
<1>9. db \in Database /\ work \in Database
  BY <1>1 DEF MigrationsTypeOK
<1>10. lock' = p /\ db' = db /\ work' = [work EXCEPT !.versions = @ \cup {v}]
  BY <1>4, <1>6 DEF InsertVersion, WriteInTransaction
<1>11. /\ work' \in Database /\ work'.versions = work.versions \cup {v}
       /\ work'.objects = work.objects /\ work'.roles = work.roles
  BY <1>8, <1>9, <1>10 DEF Database
<1>12. work'.versions = 1..v
  <2>1. ASSUME NEW m \in Nat \ {0}
        PROVE  1..m = (1..(m - 1)) \cup {m}
    OBVIOUS
  <2>2. v \in Nat \ {0}
    BY <1>8 DEF Versions
  <2>3. 1..v = (1..(v - 1)) \cup {v}
    BY <2>1, <2>2
  <2> QED
    BY <1>6, <1>8, <1>11, <2>3
<1>13. Recorded(work') = v
  BY <1>8, <1>12, RecordedOf DEF Versions
<1>14. pc[p] = "upgrading"
  BY <1>2, <1>4 DEF PlaceOf, AtWork
<1>15. \A u \in Users : work.roles[u] \in RolesOf(v)
  <2> SUFFICES ASSUME NEW u \in Users
               PROVE  work.roles[u] \in RolesOf(v)
    OBVIOUS
  <2>1. Midway(p)
    BY <1>4, <1>8 DEF Midway, Latest
  <2>2. work.roles[u] \in RolesOf(v - 1) \cup RolesOf(v) /\ NotUpdated(v, line[p], work.roles[u])
    BY <1>6, <1>8, <2>1
  <2>3. CASE v \in {4, 5}
    <3>1. \A k \in Lines(v) : Migration(v)[k][1] = "update" => Migration(v)[k][2] # work.roles[u]
      <4> SUFFICES ASSUME NEW k \in Lines(v), Migration(v)[k][1] = "update"
                   PROVE  Migration(v)[k][2] # work.roles[u]
        OBVIOUS
      <4>1. k # line[p]
        BY <1>3 DEF Statement
      <4>2. k < line[p]
        BY <1>4, <4>1
      <4> QED
        BY <2>2, <4>2 DEF NotUpdated
    <3> QED
      BY <2>2, <2>3, <3>1, RolesReplaced
  <2>4. CASE v \notin {4, 5}
    <3>1. v \in {1, 2, 3, 6}
      BY <1>8, <2>4 DEF Versions, Latest
    <3> QED
      BY <2>2, <3>1, RolesFollow
  <2> QED
    BY <2>3, <2>4
<1> HIDE DEF v, n
<1>16. MigrationsTypeOK'
  BY <1>1, <1>4, <1>5, <1>10, <1>11 DEF MigrationsTypeOK, AtWork
<1>17. Whole(work')
  <2>1. Makes(v) \subseteq work.objects
    <3> SUFFICES ASSUME NEW k \in Lines(v), Migration(v)[k][1] \in {"create", "add"}
                 PROVE  Migration(v)[k][2] \in work.objects
      BY DEF Makes
    <3>1. k # line[p]
      BY <1>3 DEF Statement, v
    <3>2. k < line[p]
      BY <1>4, <3>1
    <3>3. at[p] <= Latest
      BY <1>4 DEF v, Latest
    <3> QED
      BY <1>1, <1>6, <3>2, <3>3 DEF ProcessStands, Executed, v
  <2>2. ASSUME NEW u \in 0..v
        PROVE  Makes(u) \subseteq work.objects
    <3>1. CASE u = v
      BY <2>1, <3>1
    <3>2. CASE u # v /\ n = 0
      <4>1. u = 0
        BY <1>8, <3>2 DEF Versions, Latest
      <4>2. Makes(0) \subseteq db.objects
        BY <1>2, <1>14 DEF PlaceOf
      <4> QED
        BY <1>1, <4>1, <4>2 DEF DataStands, TransactionAdds
    <3>3. CASE u # v /\ n # 0
      <4>1. u \in 0..n /\ n > 0
        BY <1>8, <3>3 DEF Versions, Latest
      <4> QED
        BY <1>1, <4>1 DEF DataStands, Whole, n
    <3> QED
      BY <3>1, <3>2, <3>3
  <2>3. v \in 0..Latest
    BY <1>4
  <2> QED
    BY <1>11, <1>12, <1>13, <2>2, <2>3 DEF Whole
<1>18. DataStands'
  <2>1. Whole(db)' /\ Whole(work)'
    <3>1. Whole(db')
      BY <1>1, <1>10 DEF DataStands
    <3> QED
      BY <1>17, <3>1 DEF Whole, Recorded
  <2>2. TransactionAdds'
    BY <1>1, <1>10, <1>11, NoOneAssumption DEF DataStands, TransactionAdds
  <2>3. GcStands'
    BY <1>1, <1>5, <1>10, <1>11 DEF DataStands, GcStands
  <2> QED
    BY <1>1, <1>10, <2>1, <2>2, <2>3 DEF DataStands, Recorded
<1>19. Elsewhere(p)
  <2>1. \A q \in Processes \ {p} : lock # q /\ lock' # q
    BY <1>6, <1>10
  <2> QED
    BY <1>5, <1>10, <2>1 DEF Elsewhere
<1>20. Seen(p)' = work'
  BY <1>10 DEF Seen
<1>21. v + 1 \notin work'.versions
  BY <1>8, <1>12 DEF Versions, Latest
<1>22. ProcessStands(p)'
  <2>1. PlaceOf(p)'
    BY <1>2, <1>5, <1>8, <1>10, <1>14 DEF PlaceOf, AtWork, Versions, Latest
  <2>2. Executed(p)'
    <3>1. Executed(p)
      BY <1>1 DEF ProcessStands
    <3>2. Seen(p).versions \subseteq Seen(p)'.versions /\ Seen(p).objects \subseteq Seen(p)'.objects
      BY <1>6, <1>11, <1>20
    <3>3. Statement(p)[2] \in Seen(p)'.versions
      BY <1>4, <1>11, <1>20
    <3> QED
      BY <1>1, <1>2, <1>3, <1>10, <3>1, <3>2, <3>3, MovesExecuted
  <2>3. HolderOf(p)'
    BY <1>5, <1>21 DEF HolderOf
  <2>4. RolesAtWork(p)'
    <3>1. SUFFICES ASSUME NEW u \in Users
                   PROVE  /\ work'.roles[u] \in RolesOf(v)
                          /\ NotUpdated(v + 1, 1, work'.roles[u])
      BY <1>5, <1>13 DEF RolesAtWork, Midway, Recorded
    <3>2. NotUpdated(v + 1, 1, work'.roles[u])
      BY DEF NotUpdated, Lines
    <3> QED
      BY <1>11, <1>15, <3>2
  <2> QED
    BY <2>1, <2>2, <2>3, <2>4 DEF ProcessStands
<1>23. \A q \in Processes : ProcessStands(q)'
  BY <1>1, <1>19, <1>22, OthersStand
<1>24. Survivor'
  <2>1. ~ \A q \in Processes : pc[q] = "closed"
    BY <1>4 DEF AtWork
  <2>2. ASSUME NEW q \in Processes, Undoomed(q)
        PROVE  Undoomed(q)'
    <3>1. CASE q # p
      BY <3>1, <2>2, <1>10, <1>19, OthersUndoomed
    <3>2. CASE q = p
      BY <3>2, <1>4, <1>5, <1>20, <1>21 DEF Undoomed, AtWork
    <3> QED
      BY <3>1, <3>2
  <2> QED
    BY <1>1, <1>5, <1>10, <2>1, <2>2 DEF Survivor
<1>25. OpenWhole'
  BY <1>1, <1>5, <1>10 DEF OpenWhole
<1> QED
  BY <1>16, <1>18, <1>23, <1>24, <1>25 DEF MigrationsIInv

(* executescript commits what the upgrades before it have done.            *)
LEMMA CommitStands ==
    ASSUME MigrationsIInv, NEW p \in Processes, Applies(p), Statement(p)[1] = "commit",
           lock = p, Commit(p), Moves(p, 1)
    PROVE  MigrationsIInv'
<1> DEFINE n == Recorded(work)
<1>1. /\ MigrationsTypeOK /\ DataStands /\ \A q \in Processes : ProcessStands(q)
      /\ Survivor /\ OpenWhole
  BY DEF MigrationsIInv
<1>2. \A q \in Processes : PlaceOf(q)
  BY <1>1 DEF ProcessStands
<1>3. AtWork(p) /\ at[p] = 2 /\ line[p] = 1 /\ pc[p] = "upgrading"
  <2>1. AtWork(p) /\ line[p] = 1 /\ at[p] \in {0, 2}
    BY <1>1, StatementOf
  <2>2. pc[p] = "upgrading"
    BY <1>2, <2>1 DEF PlaceOf, AtWork
  <2> QED
    BY <1>2, <2>1, <2>2 DEF PlaceOf
<1>4. /\ at' \in [Processes -> 0..(Latest + 1)] /\ line' \in [Processes -> Nat \ {0}]
      /\ \A q \in Processes : pc'[q] = "upgrading" /\ at'[q] <= Latest => Applies(q)'
      /\ \A q \in Processes \ {p} : at'[q] = at[q] /\ line'[q] = line[q]
      /\ pc' = pc /\ was' = was /\ cut' = cut
      /\ at'[p] = at[p] /\ line'[p] = line[p] + 1
      /\ ~ AtAdd(p)'
  BY <1>1, <1>2, MovesPlace
<1>5. db' = work /\ work' = work /\ lock' = NoOne
  BY DEF Commit
<1>6. db.objects \subseteq db'.objects /\ db.versions \subseteq db'.versions
  BY <1>1, <1>5 DEF DataStands, TransactionAdds
<1>7. Seen(p) = work /\ Seen(p)' = work
  BY <1>5, NoOneAssumption DEF Seen
<1>8. p # NoOne
  BY NoOneAssumption
<1>9. MigrationsTypeOK'
  BY <1>1, <1>4, <1>5 DEF MigrationsTypeOK, AtWork
<1>10. \A u \in Users : work.roles[u] \in RolesOf(n)
  <2> SUFFICES ASSUME NEW u \in Users
               PROVE  work.roles[u] \in RolesOf(n)
    OBVIOUS
  <2>1. RolesAtWork(p) /\ n \in Nat
    BY <1>1 DEF ProcessStands, DataStands, Whole, Latest
  <2>2. CASE Midway(p)
    <3>1. n = 1
      BY <1>3, <2>1, <2>2 DEF Midway
    <3> QED
      BY <1>3, <2>1, <2>2, <3>1, RolesFollow DEF RolesAtWork
  <2>3. CASE ~ Midway(p)
    BY <2>1, <2>3 DEF RolesAtWork
  <2> QED
    BY <2>2, <2>3
<1>11. DataStands'
  <2>1. Whole(db)' /\ Whole(work)'
    BY <1>1, <1>5 DEF DataStands, Whole, Recorded
  <2>2. TransactionAdds' /\ GcStands'
    BY <1>1, <1>4, <1>5 DEF DataStands, TransactionAdds, GcStands
  <2> QED
    BY <1>5, <1>10, <2>1, <2>2 DEF DataStands, Recorded
<1>12. Elsewhere(p)
  <2>1. \A q \in Processes \ {p} : lock # q /\ lock' # q
    BY <1>5, NoOneAssumption
  <2> QED
    BY <1>4, <1>6, <2>1 DEF Elsewhere
<1>13. ProcessStands(p)'
  <2>1. PlaceOf(p)'
    BY <1>2, <1>3, <1>4, <1>6 DEF PlaceOf, AtWork
  <2>2. Executed(p)'
    <3>1. Executed(p)
      BY <1>1 DEF ProcessStands
    <3> QED
      BY <1>1, <1>2, <1>7, <3>1, MovesExecuted
  <2>3. HolderOf(p)' /\ RolesAtWork(p)'
    BY <1>5, <1>8 DEF HolderOf, RolesAtWork
  <2> QED
    BY <2>1, <2>2, <2>3 DEF ProcessStands
<1>14. \A q \in Processes : ProcessStands(q)'
  BY <1>1, <1>12, <1>13, OthersStand
<1>15. Survivor'
  <2>1. 2 \notin work.versions
    BY <1>1, <1>3 DEF ProcessStands, HolderOf
  <2>2. Undoomed(p)'
    BY <1>3, <1>4, <1>7, <2>1 DEF Undoomed, AtWork
  <2> QED
    BY <2>2 DEF Survivor
<1>16. OpenWhole'
  <2>1. db.versions = Versions => db'.versions = Versions
    <3>1. work.versions \subseteq Versions
      BY <1>1 DEF MigrationsTypeOK, Database
    <3> QED
      BY <1>5, <1>6, <3>1
  <2> QED
    BY <1>1, <1>4, <2>1 DEF OpenWhole
<1> QED
  BY <1>9, <1>11, <1>14, <1>15, <1>16 DEF MigrationsIInv

(* A start that dies, or leaves with an exception, leaves nothing behind.  *)
Leaves(p, label) == Ends(p, label) /\ Rollback(p)

LEMMA LeavesStands ==
    ASSUME MigrationsIInv, NEW p \in Processes, AtWork(p),
           NEW label \in {"closed", "failed"}, Leaves(p, label), was' = was, cut' \in BOOLEAN,
           cut \/ Undoomed(p) => \/ cut'
                                 \/ \E q \in Processes \ {p} : Undoomed(q)
    PROVE  MigrationsIInv'
<1>1. /\ MigrationsTypeOK /\ DataStands /\ \A q \in Processes : ProcessStands(q)
      /\ Survivor /\ OpenWhole
  BY DEF MigrationsIInv
<1>2. /\ pc' = [pc EXCEPT ![p] = label]
      /\ at' = [at EXCEPT ![p] = 0] /\ line' = [line EXCEPT ![p] = 1]
      /\ work' = (IF lock = p THEN db ELSE work) /\ lock' = (IF lock = p THEN NoOne ELSE lock)
      /\ db' = db
  BY DEF Leaves, Ends, Rollback
<1>3. /\ db \in Database /\ work \in Database
      /\ pc \in [Processes -> {"closed", "opening", "upgrading", "open", "failed"}]
      /\ at \in [Processes -> 0..(Latest + 1)] /\ line \in [Processes -> Nat \ {0}]
      /\ \A q \in Processes : pc[q] = "upgrading" /\ at[q] <= Latest => Applies(q)
      /\ lock = NoOne \/ lock \in {q \in Processes : AtWork(q)}
  BY <1>1 DEF MigrationsTypeOK
<1>4. /\ pc'[p] = label /\ at'[p] = 0 /\ line'[p] = 1 /\ lock' # p
      /\ \A q \in Processes \ {p} : pc'[q] = pc[q] /\ at'[q] = at[q] /\ line'[q] = line[q]
  BY <1>2, <1>3, NoOneAssumption
<1>5. MigrationsTypeOK'
  <2>1. /\ db' \in Database /\ work' \in Database
        /\ pc' \in [Processes -> {"closed", "opening", "upgrading", "open", "failed"}]
        /\ at' \in [Processes -> 0..(Latest + 1)] /\ line' \in [Processes -> Nat \ {0}]
    BY <1>2, <1>3 DEF Latest
  <2>2. \A q \in Processes : pc'[q] = "upgrading" /\ at'[q] <= Latest => Applies(q)'
    BY <1>3, <1>4 DEF Applies, AtWork, Lines
  <2>3. lock' = NoOne \/ lock' \in {q \in Processes : AtWork(q)'}
    BY <1>2, <1>3, <1>4 DEF AtWork
  <2> QED
    BY <1>1, <2>1, <2>2, <2>3 DEF MigrationsTypeOK
<1>6. DataStands'
  <2>1. Whole(db)' /\ Whole(work)'
    BY <1>1, <1>2 DEF DataStands, Whole, Recorded
  <2>2. TransactionAdds' /\ GcStands'
    BY <1>1, <1>2 DEF DataStands, TransactionAdds, GcStands
  <2> QED
    BY <1>1, <1>2, <2>1, <2>2 DEF DataStands, Recorded
<1>7. Elsewhere(p)
  <2>1. \A q \in Processes \ {p} : (lock' = q <=> lock = q) /\ (lock = q => work' = work)
    BY <1>2, NoOneAssumption
  <2> QED
    BY <1>2, <1>4, <2>1 DEF Elsewhere
<1>8. ProcessStands(p)'
  <2>1. PlaceOf(p)'
    BY <1>4 DEF PlaceOf, AtWork
  <2>2. Executed(p)'
    <3>1. 1..(at'[p] - 1) = {}
      BY <1>4
    <3>2. ~ \E k \in Lines(at'[p]) : k < line'[p]
      BY <1>4 DEF Lines
    <3> QED
      BY <3>1, <3>2 DEF Executed, Lines
  <2>3. HolderOf(p)' /\ RolesAtWork(p)'
    BY <1>4 DEF HolderOf, RolesAtWork
  <2> QED
    BY <2>1, <2>2, <2>3 DEF ProcessStands
<1>9. \A q \in Processes : ProcessStands(q)'
  BY <1>1, <1>7, <1>8, OthersStand
<1>10. Survivor'
  <2>1. ~ \A q \in Processes : pc[q] = "closed"
    BY DEF AtWork
  <2>2. \A q \in Processes \ {p} : Undoomed(q) => Undoomed(q)'
    BY <1>2, <1>7, OthersUndoomed
  <2>3. cut' \/ db.versions = Versions \/ \E q \in Processes \ {p} : Undoomed(q)
    BY <1>1, <2>1 DEF Survivor
  <2> QED
    BY <1>2, <2>2, <2>3 DEF Survivor
<1>11. OpenWhole'
  BY <1>1, <1>2, <1>4 DEF OpenWhole
<1> QED
  BY <1>5, <1>6, <1>9, <1>10, <1>11 DEF MigrationsIInv

(* The end of the with block: everything is there, and is committed.       *)
LEMMA OpenedStands ==
    ASSUME MigrationsIInv, NEW p \in Processes, Opened(p)
    PROVE  MigrationsIInv'
<1>1. /\ MigrationsTypeOK /\ DataStands /\ \A q \in Processes : ProcessStands(q)
      /\ Survivor /\ OpenWhole
  BY DEF MigrationsIInv
<1>2. /\ db \in Database /\ work \in Database
      /\ pc \in [Processes -> {"closed", "opening", "upgrading", "open", "failed"}]
      /\ at \in [Processes -> 0..(Latest + 1)] /\ line \in [Processes -> Nat \ {0}]
      /\ \A q \in Processes : pc[q] = "upgrading" /\ at[q] <= Latest => Applies(q)
      /\ lock = NoOne \/ lock \in {q \in Processes : AtWork(q)}
  BY <1>1 DEF MigrationsTypeOK
<1>3. pc[p] = "upgrading" /\ at[p] = 7
  <2>1. pc[p] = "upgrading" /\ ~ Applies(p)
    BY DEF Opened
  <2> QED
    BY <1>2, <2>1 DEF Latest
<1>4. /\ pc' = [pc EXCEPT ![p] = "open"]
      /\ at' = [at EXCEPT ![p] = 0] /\ line' = [line EXCEPT ![p] = 1]
      /\ was' = was /\ cut' = cut
      /\ work' = work
      /\ IF lock = p THEN db' = work /\ lock' = NoOne ELSE db' = db /\ lock' = lock
  BY DEF Opened, Ends, Commit
<1>5. /\ pc'[p] = "open" /\ at'[p] = 0 /\ line'[p] = 1 /\ lock' # p
      /\ \A q \in Processes \ {p} : pc'[q] = pc[q] /\ at'[q] = at[q] /\ line'[q] = line[q]
  BY <1>2, <1>4, NoOneAssumption
<1>6. db'.versions = Versions
  <2>1. 1..6 \subseteq Seen(p).versions
    BY <1>1, <1>3 DEF ProcessStands, Executed
  <2>2. db' = Seen(p)
    BY <1>4 DEF Seen
  <2>3. db'.versions \subseteq Versions
    BY <1>2, <1>4 DEF Database
  <2> QED
    BY <2>1, <2>2, <2>3 DEF Versions, Latest
<1>7. db.objects \subseteq db'.objects /\ db.versions \subseteq db'.versions
  BY <1>1, <1>4 DEF DataStands, TransactionAdds
<1>8. MigrationsTypeOK'
  <2>1. /\ db' \in Database /\ work' \in Database
        /\ pc' \in [Processes -> {"closed", "opening", "upgrading", "open", "failed"}]
        /\ at' \in [Processes -> 0..(Latest + 1)] /\ line' \in [Processes -> Nat \ {0}]
    BY <1>2, <1>4 DEF Latest
  <2>2. \A q \in Processes : pc'[q] = "upgrading" /\ at'[q] <= Latest => Applies(q)'
    BY <1>2, <1>5 DEF Applies, AtWork, Lines
  <2>3. lock' = NoOne \/ lock' \in {q \in Processes : AtWork(q)'}
    BY <1>2, <1>4, <1>5 DEF AtWork
  <2> QED
    BY <1>1, <1>4, <2>1, <2>2, <2>3 DEF MigrationsTypeOK
<1>9. lock = p => \A u \in Users : work.roles[u] \in RolesOf(Recorded(work))
  BY <1>1, <1>3 DEF ProcessStands, RolesAtWork, Midway, Latest
<1>10. DataStands'
  <2>1. Whole(db)' /\ Whole(work)'
    BY <1>1, <1>4 DEF DataStands, Whole, Recorded
  <2>2. TransactionAdds' /\ GcStands'
    BY <1>1, <1>4 DEF DataStands, TransactionAdds, GcStands
  <2>3. \A u \in Users : db'.roles[u] \in RolesOf(Recorded(db'))
    BY <1>1, <1>4, <1>9 DEF DataStands
  <2> QED
    BY <2>1, <2>2, <2>3 DEF DataStands, Recorded
<1>11. Elsewhere(p)
  <2>1. \A q \in Processes \ {p} : (lock' = q <=> lock = q) /\ (lock = q => work' = work)
    BY <1>4, NoOneAssumption
  <2> QED
    BY <1>5, <1>7, <2>1 DEF Elsewhere
<1>12. ProcessStands(p)'
  <2>1. PlaceOf(p)'
    BY <1>5 DEF PlaceOf, AtWork
  <2>2. Executed(p)'
    <3>1. 1..(at'[p] - 1) = {}
      BY <1>5
    <3>2. ~ \E k \in Lines(at'[p]) : k < line'[p]
      BY <1>5 DEF Lines
    <3> QED
      BY <3>1, <3>2 DEF Executed, Lines
  <2>3. HolderOf(p)' /\ RolesAtWork(p)'
    BY <1>5 DEF HolderOf, RolesAtWork
  <2> QED
    BY <2>1, <2>2, <2>3 DEF ProcessStands
<1>13. \A q \in Processes : ProcessStands(q)'
  BY <1>1, <1>11, <1>12, OthersStand
<1>14. Survivor' /\ OpenWhole'
  BY <1>6 DEF Survivor, OpenWhole
<1> QED
  BY <1>8, <1>10, <1>13, <1>14 DEF MigrationsIInv

LEMMA OpenStands ==
    ASSUME MigrationsIInv, NEW p \in Processes, Open(p)
    PROVE  MigrationsIInv'
<1>1. /\ MigrationsTypeOK /\ DataStands /\ \A q \in Processes : ProcessStands(q) /\ OpenWhole
  BY DEF MigrationsIInv
<1>2. /\ ~ AtWork(p) /\ pc' = [pc EXCEPT ![p] = "opening"]
      /\ db' = db /\ work' = work /\ lock' = lock /\ at' = at /\ line' = line
      /\ was' = was /\ cut' = cut
  BY DEF Open, place
<1>3. /\ pc'[p] = "opening" /\ \A q \in Processes \ {p} : pc'[q] = pc[q]
      /\ lock # p /\ at[p] = 0 /\ line[p] = 1
  BY <1>1, <1>2, NoOneAssumption DEF MigrationsTypeOK, ProcessStands, PlaceOf
<1>4. MigrationsTypeOK'
  <2>1. pc' \in [Processes -> {"closed", "opening", "upgrading", "open", "failed"}]
    BY <1>1, <1>2 DEF MigrationsTypeOK
  <2>2. \A q \in Processes : pc'[q] = "upgrading" /\ at'[q] <= Latest => Applies(q)'
    BY <1>1, <1>2, <1>3 DEF MigrationsTypeOK, Applies, AtWork, Lines
  <2>3. lock' = NoOne \/ lock' \in {q \in Processes : AtWork(q)'}
    BY <1>1, <1>2, <1>3 DEF MigrationsTypeOK, AtWork
  <2> QED
    BY <1>1, <1>2, <2>1, <2>2, <2>3 DEF MigrationsTypeOK
<1>5. DataStands'
  BY <1>1, <1>2 DEF DataStands, Whole, Recorded, TransactionAdds, GcStands
<1>6. Elsewhere(p)
  BY <1>2, <1>3 DEF Elsewhere
<1>7. ProcessStands(p)'
  <2>1. PlaceOf(p)'
    BY <1>2, <1>3 DEF PlaceOf, AtWork
  <2>2. Executed(p)'
    <3>1. Executed(p)
      BY <1>1 DEF ProcessStands
    <3> QED
      BY <1>2, <3>1 DEF Executed, Seen
  <2>3. HolderOf(p)' /\ RolesAtWork(p)'
    BY <1>2, <1>3 DEF HolderOf, RolesAtWork
  <2> QED
    BY <2>1, <2>2, <2>3 DEF ProcessStands
<1>8. \A q \in Processes : ProcessStands(q)'
  BY <1>1, <1>6, <1>7, OthersStand
<1>9. Undoomed(p)'
  BY <1>3 DEF Undoomed, AtWork
<1>10. Survivor' /\ OpenWhole'
  BY <1>1, <1>2, <1>3, <1>9 DEF Survivor, OpenWhole
<1> QED
  BY <1>4, <1>5, <1>8, <1>10 DEF MigrationsIInv

LEMMA ReadVersionStands ==
    ASSUME MigrationsIInv, NEW p \in Processes, ReadVersion(p)
    PROVE  MigrationsIInv'
<1> DEFINE n == Recorded(db)
<1>1. /\ MigrationsTypeOK /\ DataStands /\ \A q \in Processes : ProcessStands(q) /\ OpenWhole
  BY DEF MigrationsIInv
<1>2. n \in 0..6 /\ db.versions = 1..n /\ Current = n
  BY <1>1, CurrentRecorded DEF DataStands, Whole, Latest
<1>3. /\ pc[p] = "opening" /\ ~ Applies(p) /\ pc' = [pc EXCEPT ![p] = "upgrading"]
      /\ at' = [at EXCEPT ![p] = n + 1] /\ line' = [line EXCEPT ![p] = 1]
      /\ db' = db /\ work' = work /\ lock' = lock /\ was' = was /\ cut' = cut
  BY <1>2 DEF ReadVersion
<1> HIDE DEF n
<1>4. /\ pc'[p] = "upgrading" /\ at'[p] = n + 1 /\ line'[p] = 1
      /\ \A q \in Processes \ {p} : pc'[q] = pc[q] /\ at'[q] = at[q] /\ line'[q] = line[q]
      /\ lock # p /\ at[p] = 0
  BY <1>1, <1>3 DEF MigrationsTypeOK, ProcessStands, PlaceOf
<1>5. n + 1 \notin db.versions /\ n + 1 > 0
  BY <1>2
<1>6. n + 1 <= Latest => n + 1 \in 0..Latest /\ 1 \in Lines(n + 1) /\ Migration(n + 1)[1][1] # "add"
  <2> SUFFICES ASSUME n + 1 <= Latest
               PROVE  n + 1 \in 0..Latest /\ 1 \in Lines(n + 1) /\ Migration(n + 1)[1][1] # "add"
    OBVIOUS
  <2>1. n + 1 \in 0..Latest
    BY <1>2 DEF Latest
  <2> QED
    BY <2>1, Statements DEF Lines
<1>7. MigrationsTypeOK'
  <2>1. /\ pc' \in [Processes -> {"closed", "opening", "upgrading", "open", "failed"}]
        /\ at' \in [Processes -> 0..(Latest + 1)] /\ line' \in [Processes -> Nat \ {0}]
    BY <1>1, <1>2, <1>3 DEF MigrationsTypeOK, Latest
  <2>2. ASSUME NEW q \in Processes, pc'[q] = "upgrading", at'[q] <= Latest
        PROVE  Applies(q)'
    <3>1. CASE q # p
      BY <3>1, <2>2, <1>1, <1>4 DEF MigrationsTypeOK, Applies, AtWork, Lines
    <3>2. CASE q = p
      BY <3>2, <2>2, <1>4, <1>6 DEF Applies, AtWork, Lines
    <3> QED
      BY <3>1, <3>2
  <2>3. lock' = NoOne \/ lock' \in {q \in Processes : AtWork(q)'}
    BY <1>1, <1>3, <1>4 DEF MigrationsTypeOK, AtWork
  <2> QED
    BY <1>1, <1>3, <2>1, <2>2, <2>3 DEF MigrationsTypeOK
<1>8. DataStands'
  BY <1>1, <1>3 DEF DataStands, Whole, Recorded, TransactionAdds, GcStands
<1>9. Elsewhere(p)
  BY <1>3, <1>4 DEF Elsewhere
<1>10. Seen(p)' = db
  BY <1>3, <1>4 DEF Seen
<1>11. ProcessStands(p)'
  <2>1. Makes(0) \subseteq db.objects
    <3> SUFFICES ASSUME NEW k \in Lines(0), Migration(0)[k][1] \in {"create", "add"}
                 PROVE  Migration(0)[k][2] \in db.objects
      BY DEF Makes
    <3>1. line[p] \notin Lines(0) /\ line[p] \in Nat \ {0}
      BY <1>1, <1>3, <1>4 DEF MigrationsTypeOK, Applies, AtWork, Latest
    <3>2. Len(Migration(0)) \in Nat
      BY Statements DEF Latest
    <3>3. k < line[p]
      BY <3>1, <3>2 DEF Lines
    <3>4. Seen(p) = db
      BY <1>4 DEF Seen
    <3> QED
      BY <1>1, <1>4, <3>3, <3>4 DEF ProcessStands, Executed, Latest
  <2>2. PlaceOf(p)'
    BY <1>3, <1>4, <1>5, <2>1 DEF PlaceOf, AtWork
  <2>3. Executed(p)'
    <3>1. 1..(at'[p] - 1) \subseteq db.versions
      BY <1>2, <1>4
    <3>2. ~ \E k \in Lines(at'[p]) : k < line'[p]
      BY <1>4 DEF Lines
    <3> QED
      BY <1>10, <3>1, <3>2 DEF Executed, Lines
  <2>4. HolderOf(p)' /\ RolesAtWork(p)'
    BY <1>3, <1>4 DEF HolderOf, RolesAtWork
  <2> QED
    BY <2>2, <2>3, <2>4 DEF ProcessStands
<1>12. \A q \in Processes : ProcessStands(q)'
  BY <1>1, <1>9, <1>11, OthersStand
<1>13. Undoomed(p)'
  <2>1. ~ AtAdd(p)'
    BY <1>4, <1>6 DEF AtAdd, Statement, Lines
  <2> QED
    BY <1>4, <1>5, <1>10, <2>1 DEF Undoomed, AtWork
<1>14. Survivor' /\ OpenWhole'
  BY <1>1, <1>3, <1>4, <1>13 DEF Survivor, OpenWhole
<1> QED
  BY <1>7, <1>8, <1>12, <1>14 DEF MigrationsIInv

LEMMA MigrationsInitially == MigrationsInit => MigrationsIInv
<1> SUFFICES ASSUME MigrationsInit
             PROVE  MigrationsIInv
  OBVIOUS
<1>0. PICK n \in 0..Latest : \E roles \in [Users -> RolesAt(n)] :
          db = [objects |-> IF n = 0 THEN {} ELSE UNION {Makes(u) : u \in 0..n},
                versions |-> 1..n, roles |-> roles]
  BY DEF MigrationsInit
<1>1. PICK roles \in [Users -> RolesAt(n)] :
          db = [objects |-> IF n = 0 THEN {} ELSE UNION {Makes(u) : u \in 0..n},
                versions |-> 1..n, roles |-> roles]
  BY <1>0
<1>2. /\ work = db /\ lock = NoOne /\ was = db.roles /\ cut = FALSE
      /\ pc = [p \in Processes |-> "closed"]
      /\ at = [p \in Processes |-> 0] /\ line = [p \in Processes |-> 1]
  BY DEF MigrationsInit
<1>3. n \in 0..6
  BY DEF Latest
<1>4. db.versions = 1..n /\ db.roles = roles
      /\ db.objects = IF n = 0 THEN {} ELSE UNION {Makes(u) : u \in 0..n}
  BY <1>1
<1>5. Recorded(db) = n
  <2>1. n \in Nat /\ db.versions = 1..n
    BY <1>3, <1>4
  <2> QED
    BY <2>1, RecordedOf
<1>6. \A u \in Users : roles[u] \in RolesAt(n)
  OBVIOUS
<1>7. roles \in [Users -> Roles]
  BY <1>6, RolesFollow DEF RolesOf
<1>8. db \in Database
  <2>1. db.objects \subseteq Schema
    BY <1>3, <1>4 DEF Schema, Latest
  <2>2. db.versions \subseteq Versions
    BY <1>3, <1>4 DEF Versions, Latest
  <2> QED
    BY <1>1, <1>4, <1>7, <2>1, <2>2 DEF Database
<1>9. MigrationsTypeOK
  <2>1. \A p \in Processes : pc[p] = "closed"
    BY <1>2
  <2>2. /\ pc \in [Processes -> {"closed", "opening", "upgrading", "open", "failed"}]
        /\ at \in [Processes -> 0..(Latest + 1)] /\ line \in [Processes -> Nat \ {0}]
    BY <1>2 DEF Latest
  <2>3. was \in [Users -> Roles] /\ cut \in BOOLEAN
    BY <1>2, <1>4, <1>7
  <2> QED
    BY <1>2, <1>8, <2>1, <2>2, <2>3 DEF MigrationsTypeOK
<1>10. DataStands
  <2>1. Whole(db)
    BY <1>3, <1>4, <1>5 DEF Whole, Latest
  <2>2. ASSUME NEW u \in Users
        PROVE  roles[u] \in RolesOf(n)
    BY <1>6 DEF RolesOf
  <2> QED
    BY <1>2, <1>4, <1>5, <2>1, <2>2 DEF DataStands, TransactionAdds, GcStands
<1>11. ASSUME NEW p \in Processes
       PROVE  ProcessStands(p)
  <2>1. pc[p] = "closed" /\ at[p] = 0 /\ line[p] = 1 /\ lock # p
    BY <1>2, NoOneAssumption
  <2>2. Executed(p)
    <3>1. 1..(at[p] - 1) = {} /\ ~ \E k \in Lines(at[p]) : k < line[p]
      BY <2>1 DEF Lines
    <3> QED
      BY <3>1 DEF Executed
  <2> QED
    BY <2>1, <2>2 DEF ProcessStands, PlaceOf, HolderOf, RolesAtWork, AtWork
<1>12. Survivor /\ OpenWhole
  BY <1>2 DEF Survivor, OpenWhole
<1> QED
  BY <1>9, <1>10, <1>11, <1>12 DEF MigrationsIInv

LEMMA MigrationsStep == MigrationsIInv /\ [MigrationsNext]_migrationsVars => MigrationsIInv'
<1> SUFFICES ASSUME MigrationsIInv, [MigrationsNext]_migrationsVars
             PROVE  MigrationsIInv'
  OBVIOUS
<1>1. /\ MigrationsTypeOK /\ DataStands /\ \A q \in Processes : ProcessStands(q)
  BY DEF MigrationsIInv
<1>2. ASSUME NEW p \in Processes, Script(p)
      PROVE  MigrationsIInv'
  <2>1. Applies(p) /\ Statement(p)[1] = "commit" /\ Commit(p) /\ Moves(p, 1)
    BY <1>2 DEF Script, Does, StepOn
  <2>2. CASE lock = p
    BY <2>1, <2>2, CommitStands
  <2>3. CASE lock # p
    <3>1. UNCHANGED <<db, work, lock>>
      BY <2>1, <2>3 DEF Commit
    <3> QED
      BY <2>1, <2>3, <3>1, LookStands
  <2> QED
    BY <2>2, <2>3
<1>3. ASSUME NEW p \in Processes, CreateTable(p)
      PROVE  MigrationsIInv'
  <2>1. Applies(p) /\ Statement(p)[1] = "create" /\ Moves(p, 1)
    BY <1>3 DEF CreateTable, Does, StepOn
  <2>2. CASE Statement(p)[2] \in Seen(p).objects
    <3>1. UNCHANGED <<db, work, lock>>
      BY <1>3, <2>2 DEF CreateTable
    <3> QED
      BY <2>1, <2>2, <3>1, LookStands
  <2>3. CASE Statement(p)[2] \notin Seen(p).objects
    <3>1. Free(p) /\ WriteAtOnce(p, [Seen(p) EXCEPT !.objects = @ \cup {Statement(p)[2]}])
      BY <1>3, <2>3 DEF CreateTable
    <3> QED
      BY <2>1, <2>3, <3>1, AddsStand
  <2> QED
    BY <2>2, <2>3
<1>4. ASSUME NEW p \in Processes, CheckColumn(p)
      PROVE  MigrationsIInv'
  <2>1. Applies(p) /\ Statement(p)[1] = "check" /\ UNCHANGED <<db, work, lock>>
    BY <1>4 DEF CheckColumn, Does
  <2>2. CASE Statement(p)[2] \in Seen(p).objects
    <3>1. Moves(p, 2)
      BY <1>4, <2>2 DEF CheckColumn
    <3> QED
      BY <2>1, <2>2, <3>1, LookStands
  <2>3. CASE Statement(p)[2] \notin Seen(p).objects
    <3>1. Moves(p, 1)
      BY <1>4, <2>3 DEF CheckColumn
    <3> QED
      BY <2>1, <2>3, <3>1, LookStands
  <2> QED
    BY <2>2, <2>3
<1>5. ASSUME NEW p \in Processes, AddColumn(p)
      PROVE  MigrationsIInv'
  <2>1. /\ Applies(p) /\ Statement(p)[1] = "add" /\ Moves(p, 1) /\ Free(p)
        /\ Statement(p)[2] \notin Seen(p).objects
        /\ WriteAtOnce(p, [Seen(p) EXCEPT !.objects = @ \cup {Statement(p)[2]}])
    BY <1>5 DEF AddColumn, Does, StepOn
  <2> QED
    BY <2>1, AddsStand
<1>6. ASSUME NEW p \in Processes, JournalRefused(p)
      PROVE  MigrationsIInv'
  <2>1. /\ AtWork(p) /\ Leaves(p, "failed") /\ was' = was /\ cut' = cut
        /\ db.objects = {} /\ \E q \in Processes \ {p} : AtWork(q)
    BY <1>6 DEF JournalRefused, Does, Applies, Raises, Leaves
  <2>2. PICK q \in Processes \ {p} : AtWork(q)
    BY <2>1
  <2>3. pc[q] # "upgrading"
    <3>1. SUFFICES ASSUME pc[q] = "upgrading"
                   PROVE  FALSE
      OBVIOUS
    <3>2. Makes(0) \subseteq db.objects
      BY <1>1, <3>1 DEF ProcessStands, PlaceOf
    <3>3. "runs" \in Makes(0)
      <4>1. Migration(0) = BaseSchema
        BY DEF Migration
      <4>2. Len(BaseSchema) = 6 /\ BaseSchema[2] = <<"create", "runs">>
        BY DEF BaseSchema, CommitFirst, Create
      <4> QED
        BY <4>1, <4>2 DEF Makes, Lines
    <3> QED
      BY <2>1, <3>2, <3>3
  <2>4. Undoomed(q)
    BY <2>2, <2>3 DEF Undoomed
  <2>5. cut' \in BOOLEAN
    BY <1>1, <2>1 DEF MigrationsTypeOK
  <2> QED
    BY <2>1, <2>4, <2>5, LeavesStands
<1>7. ASSUME NEW p \in Processes, AddColumnRaises(p) \/ InsertVersionRaises(p)
      PROVE  MigrationsIInv'
  <2>1. /\ Applies(p) /\ AtWork(p) /\ Leaves(p, "failed") /\ was' = was /\ cut' = cut
        /\ \/ Statement(p)[1] = "add" /\ Statement(p)[2] \in Seen(p).objects
           \/ Statement(p)[1] = "record" /\ Statement(p)[2] \in Seen(p).versions
    BY <1>7 DEF AddColumnRaises, InsertVersionRaises, Does, Applies, Raises, Leaves
  <2>2. ~ Undoomed(p)
    <3>1. at[p] > 0
      BY <1>1, <2>1, StatementOf
    <3>2. pc[p] = "upgrading"
      BY <1>1, <2>1, <3>1 DEF ProcessStands, PlaceOf, AtWork
    <3>3. Statement(p)[1] = "record" => Statement(p)[2] = at[p]
      BY <1>1, <2>1, StatementOf
    <3>4. Statement(p)[1] = "add" => AtAdd(p)
      BY <2>1 DEF AtAdd, Applies
    <3> QED
      BY <2>1, <3>2, <3>3, <3>4 DEF Undoomed
  <2>3. cut' \in BOOLEAN
    BY <1>1, <2>1 DEF MigrationsTypeOK
  <2> QED
    BY <2>1, <2>2, <2>3, LeavesStands
<1>8. ASSUME NEW p \in Processes, LockTimesOut(p)
      PROVE  MigrationsIInv'
  <2>1. AtWork(p) /\ Leaves(p, "failed") /\ was' = was /\ cut' = TRUE
    BY <1>8 DEF LockTimesOut, Applies, Raises, Leaves
  <2> QED
    BY <2>1, LeavesStands
<1>9. ASSUME NEW p \in Processes, DiesAtWork(p)
      PROVE  MigrationsIInv'
  <2>1. AtWork(p) /\ Leaves(p, "closed") /\ was' = was /\ cut' = TRUE
    BY <1>9 DEF DiesAtWork, Leaves
  <2> QED
    BY <2>1, LeavesStands
<1>10. CASE UNCHANGED migrationsVars
  <2>1. /\ db' = db /\ work' = work /\ lock' = lock /\ pc' = pc /\ at' = at /\ line' = line
        /\ was' = was /\ cut' = cut
    BY <1>10 DEF migrationsVars, place
  <2>2. MigrationsTypeOK'
    BY <1>1, <2>1 DEF MigrationsTypeOK, Applies, AtWork, Lines
  <2>3. DataStands'
    BY <1>1, <2>1 DEF DataStands, Whole, Recorded, TransactionAdds, GcStands
  <2>4. ASSUME NEW q \in Processes
        PROVE  ProcessStands(q)'
    <3>1. PlaceOf(q) /\ Executed(q) /\ HolderOf(q) /\ RolesAtWork(q)
      BY <1>1 DEF ProcessStands
    <3>2. PlaceOf(q)' /\ Executed(q)'
      BY <2>1, <3>1 DEF PlaceOf, Executed, AtWork, Seen
    <3>3. HolderOf(q)' /\ RolesAtWork(q)'
      BY <2>1, <3>1 DEF HolderOf, AtAdd, Statement, RolesAtWork, Midway, Recorded
    <3> QED
      BY <3>2, <3>3 DEF ProcessStands
  <2>5. Survivor' /\ OpenWhole'
    BY <2>1 DEF MigrationsIInv, Survivor, OpenWhole, Undoomed, AtWork, AtAdd, Statement, Seen
  <2> QED
    BY <2>2, <2>3, <2>4, <2>5 DEF MigrationsIInv
<1> QED
  BY <1>2, <1>3, <1>4, <1>5, <1>6, <1>7, <1>8, <1>9, <1>10, OpenStands, ReadVersionStands,
     UpdateRolesStands, InsertVersionStands, OpenedStands DEF MigrationsNext

(* Every reachable state of the upgrades satisfies the invariant.          *)
THEOREM MigrationsInvariance == MigrationsSpec => []MigrationsIInv
<1> QED
  BY MigrationsInitially, MigrationsStep, PTL DEF MigrationsSpec

(* Any number of processes that open a database, die and give up waiting   *)
(* keep the types, and a transaction belongs to a process that is at work. *)
THEOREM MigrationsTypeCorrect == MigrationsSpec => []MigrationsTypeOK
<1>1. MigrationsIInv => MigrationsTypeOK
  BY DEF MigrationsIInv
<1> QED
  BY <1>1, MigrationsInvariance, PTL

(* Whatever opens the database at once, and whatever dies or gives up at   *)
(* any statement: the versions recorded tell what is there, each user's    *)
(* role is one of theirs, and while none dies or gives up one of those     *)
(* that begin gets through.                                                *)
THEOREM UpgradesAlwaysWhole == MigrationsSpec => []UpgradesAreWhole
<1>1. MigrationsIInv => UpgradesAreWhole
  <2> SUFFICES ASSUME MigrationsIInv
               PROVE  UpgradesAreWhole
    OBVIOUS
  <2> DEFINE n == Cardinality(db.versions)
  <2>1. /\ MigrationsTypeOK /\ DataStands /\ Survivor /\ OpenWhole
    BY DEF MigrationsIInv
  <2>2. /\ n \in 0..Latest /\ db.versions = 1..n
        /\ n > 0 => \A v \in 0..n : Makes(v) \subseteq db.objects
    BY <2>1 DEF DataStands, Whole, Recorded
  <2>3. \A u \in Users : db.roles[u] \in RolesAt(n) \/ db.roles[u] = "none"
    BY <2>1 DEF DataStands, Recorded, RolesOf
  <2>4. ASSUME NEW u \in Users, was[u] = "partner_gc", n >= 5
        PROVE  db.roles[u] = "gc"
    <3>1. db.roles[u] \in {"partner_gc", "gc"} /\ db.roles[u] \in RolesOf(n)
      BY <2>1, <2>4 DEF DataStands, GcStands, Recorded
    <3> QED
      BY <2>2, <2>4, <3>1, RolesFollow
  <2>5. VersionsTell
    BY <2>2, <2>3, <2>4 DEF VersionsTell
  <2>6. SomeoneGetsThrough
    <3> SUFFICES ASSUME NEW p \in Processes
                 PROVE  /\ pc[p] = "open" => db.versions = Versions
                        /\ pc[p] = "failed" => \/ db.versions = Versions
                                               \/ cut
                                               \/ \E q \in Processes : AtWork(q)
      BY DEF SomeoneGetsThrough
    <3>1. pc[p] = "failed" => ~ \A q \in Processes : pc[q] = "closed"
      OBVIOUS
    <3>2. \A q \in Processes : Undoomed(q) => AtWork(q)
      BY DEF Undoomed
    <3> QED
      BY <2>1, <3>1, <3>2 DEF Survivor, OpenWhole
  <2> QED
    BY <2>5, <2>6 DEF UpgradesAreWhole
<1> QED
  BY <1>1, MigrationsInvariance, PTL
===============================================================================
