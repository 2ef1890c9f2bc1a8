------------------------------- MODULE Daemon ---------------------------------
(***************************************************************************)
(* The daemon as processes: `matteros daemon start`, `stop` and `status`   *)
(* (matteros/cli.py), the PID file that connects them                      *)
(* (matteros/daemon/process.py), and in each daemon the watcher of the     *)
(* workspace (matteros/daemon/watcher.py).                                 *)
(*                                                                         *)
(* The system gives out process ids, also those of processes that are      *)
(* gone, and other programs get them too.  Commands and daemons are        *)
(* processes of their own: each access to the PID file and each signal is  *)
(* a step.  The scheduler inside a daemon is the module Scheduler; here it *)
(* only starts and stops, and may leave a run in its thread at the end.    *)
(*                                                                         *)
(* A modification time is a number and 0 stands for a file that does not   *)
(* exist.                                                                  *)
(***************************************************************************)
EXTENDS Integers, FiniteSets

CONSTANTS
    Pids,       \* process ids; their number bounds the processes at a time
    NoPid,      \* no PID file, or none that can be read
    Empty,      \* a PID file that was opened for writing
    Idle,       \* no command under way
    Starts,     \* `daemon start` commands under way at a time
    Files,      \* files in the workspace
    MaxMtime,   \* bound on modification times
    MaxWatching, \* bound on the watchers at a time
    MaxKills    \* bound on daemons that end without a chance to clean up

ASSUME ConstantsAssumption ==
    /\ {MaxMtime, MaxWatching, MaxKills} \subseteq Nat
    /\ {NoPid, Empty, Idle} \cap Pids = {} /\ Idle # NoPid

Mtimes == 0..MaxMtime

VARIABLES
    pidFile,    \* the process id in matteros.pid, Empty, or NoPid without the file
    proc,       \* what runs under a process id
    start,      \* per start command: Idle, or the process id it read, or NoPid
    stop,       \* the stop command: Idle, or the process id it read
    asked,      \* Idle, or the process id is_running read for it, or NoPid
    found,      \* has is_running said yes
    mtime,      \* the workspace
    watching,   \* the daemons whose watcher was started
    known,      \* per daemon: _mtimes
    pending,    \* per daemon: _pending
    kills,
    told,       \* history: per daemon and file, the newest change called back
    raced,      \* history: daemons that started while another start was under way
    unclean     \* history: process ids whose daemon ended without remove_pid

stopCommand == <<stop, asked, found>>
commands == <<start, stopCommand>>
watcher == <<watching, known, pending, told>>
history == <<raced, unclean>>
vars == <<pidFile, proc, commands, mtime, watcher, kills, history>>

(* A child of `start` before it wrote its PID, and a daemon after: until   *)
(* its handlers are there, while it starts its parts, and from then on.    *)
Starting == {"forked", "writing"}
Preparing == {"preparing", "signalled"}
Daemons == {"named", "preparing", "signalled", "serving", "stopping", "closing"}
Others == {"free", "foreign", "exiting"}

TypeOK ==
    /\ pidFile \in Pids \cup {NoPid, Empty}
    /\ proc \in [Pids -> Starting \cup Daemons \cup Others]
    /\ start \in [Starts -> Pids \cup {NoPid, Idle}]
    /\ stop \in Pids \cup {Idle}
    /\ asked \in Pids \cup {NoPid, Idle} /\ found \in BOOLEAN
    /\ mtime \in [Files -> Mtimes]
    /\ watching \subseteq Pids
    /\ known \in [Pids -> [Files -> Mtimes]]
    /\ pending \in [Pids -> SUBSET Files]
    /\ told \in [Pids -> [Files -> Mtimes]]
    /\ kills \in 0..MaxKills
    /\ raced \subseteq Pids
    /\ unclean \subseteq Pids
-----------------------------------------------------------------------------
Nothing == [f \in Files |-> 0]

(* os.kill(pid, 0): any process of that id will do, and one of another     *)
(* user answers with PermissionError.                                      *)
Alive(p) == proc[p] # "free"

(* Mutation: an empty file is not told from one with a PID.                *)
ReadPidUnparsed == pidFile

(* An empty file is a daemon that is about to write its PID.               *)
ReadPid == IF pidFile \in Pids THEN pidFile ELSE NoPid

IsRunning(p) == p # NoPid /\ Alive(p)

Is(p, state) == proc' = [proc EXCEPT ![p] = state]

(* The process is gone, and its watcher with it.                           *)
Forget(p) ==
    /\ watching' = watching \ {p}
    /\ known' = [known EXCEPT ![p] = Nothing]
    /\ pending' = [pending EXCEPT ![p] = {}]
    /\ told' = [told EXCEPT ![p] = Nothing]

Init ==
    /\ pidFile = NoPid
    /\ proc = [p \in Pids |-> "free"]
    /\ start = [s \in Starts |-> Idle]
    /\ stop = Idle /\ asked = Idle /\ found = FALSE
    /\ mtime \in [Files -> Mtimes]
    /\ watching = {}
    /\ known = [p \in Pids |-> Nothing]
    /\ pending = [p \in Pids |-> {}]
    /\ told = [p \in Pids |-> Nothing]
    /\ kills = 0
    /\ raced = {} /\ unclean = {}
-----------------------------------------------------------------------------
(***************************************************************************)
(* daemon start                                                            *)
(***************************************************************************)
StartReads(s) ==
    /\ start[s] = Idle
    /\ start' = [start EXCEPT ![s] = ReadPid]
    /\ UNCHANGED <<pidFile, proc, stopCommand, mtime, watcher, kills, history>>

StartRefused(s) ==
    /\ start[s] # Idle /\ IsRunning(start[s])
    /\ start' = [start EXCEPT ![s] = Idle]
    /\ UNCHANGED <<pidFile, proc, stopCommand, mtime, watcher, kills, history>>

(* The check is passed and the command forks and returns.                  *)
Fork(s, p) ==
    /\ start[s] # Idle /\ ~ IsRunning(start[s])
    /\ proc[p] = "free"
    /\ start' = [start EXCEPT ![s] = Idle]
    /\ Is(p, "forked")
    /\ UNCHANGED <<pidFile, stopCommand, mtime, watcher, kills, history>>

TruncatePidFile(p) ==
    /\ proc[p] = "forked"
    /\ Is(p, "writing")
    /\ pidFile' = Empty
    /\ UNCHANGED <<commands, mtime, watcher, kills, history>>

(* Another start is under way, or a daemon that raced with one is alive.   *)
Races(p) ==
    \/ \E s \in Starts : start[s] # Idle
    \/ \E q \in Pids \ {p} : proc[q] \in Starting \/ (proc[q] \in Daemons /\ q \in raced)

WritePid(p) ==
    /\ proc[p] = "writing"
    /\ Is(p, "named")
    /\ pidFile' = p
    /\ raced' = IF Races(p) THEN raced \cup {p} ELSE raced \ {p}
    /\ unclean' = unclean \ {p}
    /\ UNCHANGED <<commands, mtime, watcher, kills>>

(* The signal handlers are installed; the scheduler and the watcher are    *)
(* started, each by a run_until_complete.                                  *)
Prepare(p) ==
    /\ proc[p] = "named"
    /\ Is(p, "preparing")
    /\ UNCHANGED <<pidFile, commands, mtime, watcher, kills, history>>

(* There may be no workspace, or a configuration that does not load.       *)
StartWatcher(p) ==
    /\ proc[p] \in Preparing /\ p \notin watching
    /\ Cardinality(watching) < MaxWatching
    /\ watching' = watching \cup {p}
    /\ known' = [known EXCEPT ![p] = mtime]
    /\ told' = [told EXCEPT ![p] = mtime]
    /\ UNCHANGED <<pidFile, proc, commands, mtime, pending, kills, history>>

(* run_forever, which ends at once if a loop.stop is waiting for it.       *)
Serve(p) ==
    /\ proc[p] \in Preparing
    /\ Is(p, IF proc[p] = "signalled" THEN "stopping" ELSE "serving")
    /\ UNCHANGED <<pidFile, commands, mtime, watcher, kills, history>>
-----------------------------------------------------------------------------
(***************************************************************************)
(* The watcher                                                             *)
(***************************************************************************)
(* Mutation: only files that were there at the last poll count.            *)
ChangedKnown(p) == {f \in Files : known[p][f] # 0 /\ mtime[f] > known[p][f]}

Changed(p) == {f \in Files : mtime[f] > known[p][f]}

Poll(p) ==
    /\ proc[p] = "serving" /\ p \in watching
    /\ known' = [known EXCEPT ![p] = mtime]
    /\ pending' = [pending EXCEPT ![p] = @ \cup Changed(p)]
    /\ UNCHANGED <<pidFile, proc, commands, mtime, watching, told, kills, history>>

(* _flush: the batch is the callback's, which runs every job once.         *)
CallBack(p) ==
    /\ pending' = [pending EXCEPT ![p] = {}]
    /\ told' = [told EXCEPT ![p] = [f \in Files |->
                    IF f \in pending[p] THEN known[p][f] ELSE @[f]]]

Flush(p) ==
    /\ proc[p] = "serving" /\ p \in watching
    /\ pending[p] # {}
    /\ CallBack(p)
    /\ UNCHANGED <<pidFile, proc, commands, mtime, watching, known, kills, history>>

(* Files are created, written, replaced by older ones and removed.         *)
FileChanges(f) ==
    /\ mtime' \in {[mtime EXCEPT ![f] = t] : t \in Mtimes \ {mtime[f]}}
    /\ UNCHANGED <<pidFile, proc, commands, watcher, kills, history>>
-----------------------------------------------------------------------------
(***************************************************************************)
(* The end of a daemon                                                     *)
(***************************************************************************)
(* loop.stop has ended run_forever: the leftovers are delivered.           *)
StopWatcher(p) ==
    /\ proc[p] = "stopping"
    /\ Is(p, "closing")
    /\ CallBack(p)
    /\ UNCHANGED <<pidFile, commands, mtime, watching, known, kills, history>>

(* Mutation: the file is left where it is.                                 *)
KeepPid(p) == pidFile

(* The file goes, whichever daemon it names.                               *)
RemovePid(p) == NoPid

StopScheduler(p) ==
    /\ proc[p] = "closing"
    /\ Is(p, "exiting")
    /\ pidFile' = RemovePid(p)
    /\ Forget(p)
    /\ raced' = raced \ {p}
    /\ UNCHANGED <<commands, mtime, kills, unclean>>

(* The interpreter waits for a run in the executor's thread.               *)
Exit(p) ==
    /\ proc[p] = "exiting"
    /\ Is(p, "free")
    /\ UNCHANGED <<pidFile, commands, mtime, watcher, kills, history>>

(* The process ends at once.                                               *)
Dies(p) ==
    /\ Is(p, "free")
    /\ Forget(p)
    /\ raced' = raced \ {p}
    /\ unclean' = IF proc[p] \in Daemons THEN unclean \cup {p} ELSE unclean
    /\ UNCHANGED <<pidFile, mtime>>

Killed(p) ==
    /\ kills < MaxKills
    /\ kills' = kills + 1
    /\ proc[p] \in Starting \cup Daemons
    /\ Dies(p)
    /\ UNCHANGED commands
-----------------------------------------------------------------------------
(***************************************************************************)
(* daemon stop                                                             *)
(***************************************************************************)
(* read_pid, and is_running, which reads the file again.  Which process is *)
(* signalled is what the first reading said, whatever the second one says  *)
(* and whatever became of that process since.                              *)
StopReads ==
    /\ stop = Idle
    /\ ReadPid # NoPid
    /\ stop' = ReadPid
    /\ UNCHANGED <<pidFile, proc, start, asked, found, mtime, watcher, kills, history>>

StopReadsAgain ==
    /\ stop # Idle /\ asked = Idle /\ ~ found
    /\ asked' = ReadPid
    /\ UNCHANGED <<pidFile, proc, start, stop, found, mtime, watcher, kills, history>>

StopFindsRunning ==
    /\ asked # Idle /\ IsRunning(asked)
    /\ asked' = Idle /\ found' = TRUE
    /\ UNCHANGED <<pidFile, proc, start, stop, mtime, watcher, kills, history>>

Done == stop' = Idle /\ asked' = Idle /\ found' = FALSE /\ UNCHANGED <<start, kills>>

StopRefused ==
    /\ asked # Idle /\ ~ IsRunning(asked)
    /\ Done
    /\ UNCHANGED <<pidFile, proc, mtime, watcher, history>>

Signals(p) == stop = p /\ found

(* Without a handler, a child's or another program's, the process ends.    *)
SignalEndsProcess(p) ==
    /\ Signals(p)
    /\ proc[p] \in Starting \cup {"named", "foreign"}
    /\ Dies(p)
    /\ Done

(* The handler stops the loop, now or when run_forever runs it.            *)
SignalStopsLoop(p) ==
    /\ Signals(p)
    /\ proc[p] \in {"preparing", "serving"}
    /\ Is(p, IF proc[p] = "preparing" THEN "signalled" ELSE "stopping")
    /\ Done
    /\ UNCHANGED <<pidFile, mtime, watcher, history>>

(* A daemon that is stopping is stopped again: loop.stop ends the          *)
(* run_until_complete of the finally block, or the loop is closed; either  *)
(* raises and the rest of the block is not executed.                       *)
SignalEndsCleanup(p) ==
    /\ Signals(p)
    /\ proc[p] \in {"stopping", "closing"}
    /\ Dies(p)
    /\ Done

(* The loop.stop is consumed with the end of the run_until_complete that   *)
(* runs (scheduler.start, watcher.start), there is one already, what it    *)
(* ends had just ended, there is no such process, or it ends.              *)
SignalIgnored(p) ==
    /\ Signals(p)
    /\ proc[p] \in Preparing \cup {"stopping", "closing", "exiting", "free"}
    /\ Done
    /\ UNCHANGED <<pidFile, proc, mtime, watcher, history>>
-----------------------------------------------------------------------------
(* Bound: only ids that the file or a command holds.                       *)
OtherProgramStarts(p) ==
    /\ proc[p] = "free"
    /\ p \in {pidFile, stop, asked} \cup {start[s] : s \in Starts}
    /\ Is(p, "foreign")
    /\ UNCHANGED <<pidFile, commands, mtime, watcher, kills, history>>

OtherProgramEnds(p) ==
    /\ proc[p] = "foreign"
    /\ Is(p, "free")
    /\ UNCHANGED <<pidFile, commands, mtime, watcher, kills, history>>

Proceed(p) ==
    \/ TruncatePidFile(p) \/ WritePid(p)      \/ Prepare(p) \/ Serve(p)
    \/ StopWatcher(p)     \/ StopScheduler(p) \/ Exit(p)

Next ==
    \/ \E s \in Starts : StartReads(s) \/ StartRefused(s) \/ \E p \in Pids : Fork(s, p)
    \/ \E p \in Pids :
        \/ Proceed(p)        \/ StartWatcher(p)      \/ Poll(p)  \/ Flush(p)
        \/ Killed(p)         \/ OtherProgramStarts(p) \/ OtherProgramEnds(p)
        \/ SignalEndsProcess(p) \/ SignalStopsLoop(p)
        \/ SignalEndsCleanup(p) \/ SignalIgnored(p)
    \/ \E f \in Files : FileChanges(f)
    \/ StopReads \/ StopReadsAgain \/ StopFindsRunning \/ StopRefused

Spec == Init /\ [][Next]_vars
-----------------------------------------------------------------------------
(* A daemon is the one the PID file names, so no second one is accepted    *)
(* and stop finds it, unless it started while another start was under way  *)
(* or a daemon of such a start is alive (ensure_not_running, write_pid).   *)
DaemonIsNamed ==
    \A p \in Pids : proc[p] \in Daemons /\ p \notin raced => pidFile = p

(* Whatever the file names is a daemon, or was one that ended without its  *)
(* clean-up: by a kill, a signal before the handlers, or a second stop.    *)
NameIsDaemon ==
    pidFile \in Pids => proc[pidFile] \in Daemons \/ pidFile \in unclean

PidFileTells == DaemonIsNamed /\ NameIsDaemon

(* "Detected changes are collected into a window of debounce_seconds and   *)
(* delivered as a batch to callback" (ActivityWatcher): whatever is newer  *)
(* than what the callback was told of is in the window or is found by the  *)
(* next poll; what the last poll found before the end is delivered.        *)
ChangesAccounted ==
    \A p \in watching, f \in Files :
        /\ mtime[f] > told[p][f] => f \in pending[p] \/ mtime[f] > known[p][f]
        /\ proc[p] = "closing" => pending[p] = {} /\ told[p][f] >= known[p][f]
===============================================================================
