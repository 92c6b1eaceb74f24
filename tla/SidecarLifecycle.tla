-------------------------- MODULE SidecarLifecycle --------------------------
(***************************************************************************)
(* How the extension installs, starts, restarts and recovers the sidecar   *)
(* process (utilities/setupSidecarBinary.ts).                               *)
(*                                                                          *)
(* A task is one asynchronous call: the setup at activation, the update     *)
(* check it leaves behind, a tick of the recovery interval, a restart the   *)
(* user asked for.  A task is at the await its pc names.  Tasks share the   *)
(* flag isRestarting, the files (one zip, one binary), the port and the     *)
(* status shown to the user.                                                *)
(*                                                                          *)
(* The process, the network and the disk are external.  What may go wrong   *)
(* with them is a set of mishaps with a budget.  Not modelled: the mode in  *)
(* which the user runs the sidecar, the WSL tunnel, version strings.        *)
(***************************************************************************)
EXTENDS Integers, FiniteSets

CONSTANTS
    Tasks,        \* bound: names of the calls that can be under way together
    Mishaps,      \* which things may go wrong
    MaxMishaps,   \* bound: how often
    MaxRestarts,  \* bound: restarts the user asks for
    MaxExits      \* bound: exit events not yet delivered when a call begins

MishapKinds ==
    {"crash", "sick", "kill", "slow", "missing", "download", "hang", "unzip",
     "update"}

ASSUME SidecarAssumptions ==
    /\ Tasks # {}
    /\ Mishaps \subseteq MishapKinds
    /\ {MaxMishaps, MaxRestarts, MaxExits} \subseteq Nat

VARIABLES
    isRestarting,
    runningStatus,  \* as setRunningStatus left it
    zip,            \* the file at zipDestination
    binary,         \* the file at webserverPath exists
    server,         \* what answers on the sidecar's port
    booting,        \* spawned processes that have not bound the port yet
    exits,          \* exit and error events of spawned processes under way
    setup,          \* setupSidecar: has it registered the interval?
    tasks,          \* the calls under way
    mishaps,        \* mishaps so far
    restarts        \* user restarts so far

files == <<zip, binary>>
process == <<server, booting, exits>>
budgets == <<mishaps, restarts>>
vars == <<isRestarting, runningStatus, files, process, setup, tasks, budgets>>

Kinds == {"none", "setup", "update", "recovery", "user"}
Places ==
    {"none", "check", "killing", "unzip", "extracting", "waiting",
     "rechecking", "version", "requesting", "writing", "hung"}

\* second: in the second try of a recovery; source: what an extraction reads.
Task ==
    [kind: Kinds, pc: Places, second: BOOLEAN,
     source: {"good", "rewritten", "bad"}]

At(kind, pc) == [kind |-> kind, pc |-> pc, second |-> FALSE, source |-> "bad"]
Idle == At("none", "none")

\* The sidecar of another window may run already; it was installed then.
Init ==
    /\ isRestarting = FALSE
    /\ runningStatus = "Unavailable"
    /\ zip = "none"
    /\ binary \in BOOLEAN
    /\ server \in {"none", "foreign"}
    /\ server = "foreign" => binary
    /\ booting = 0
    /\ exits = 0
    /\ setup = "running"
    /\ \E t \in Tasks :
        tasks = [u \in Tasks |->
                   IF u = t
                   THEN At("setup", IF binary THEN "check" ELSE "requesting")
                   ELSE Idle]
    /\ mishaps = 0
    /\ restarts = 0

-----------------------------------------------------------------------------

Goto(t, pc) == tasks' = [tasks EXCEPT ![t].pc = pc]
Ends(t) == tasks' = [tasks EXCEPT ![t] = Idle]
Is(t, kind, pc) == tasks[t].kind = kind /\ tasks[t].pc = pc
InRestart(t) ==
    /\ tasks[t].kind \in {"recovery", "user"}
    /\ ~tasks[t].second
    /\ tasks[t].pc \in {"killing", "unzip", "extracting", "waiting"}

Mishap(kind) ==
    /\ kind \in Mishaps
    /\ mishaps < MaxMishaps
    /\ mishaps' = mishaps + 1
    /\ UNCHANGED restarts

Healthy == server \in {"foreign", "ok"}

\* Fault: an answer does not count as a connection.
healthCheckOnly == Healthy /\ UNCHANGED runningStatus

\* healthCheck succeeds.
healthCheck == Healthy /\ runningStatus' = "Connected"

\* Fault: the attempts are not counted.
NeverGivesUp == FALSE /\ UNCHANGED budgets

\* retryHealthCheck gives up: no process is about to come up any more, or it
\* takes longer than the attempts.
GivesUp ==
    /\ ~Healthy
    /\ \/ booting = 0 /\ UNCHANGED budgets
       \/ booting > 0 /\ Mishap("slow")

\* bringSidecarUp up to the health checks; without a binary the spawn ends in
\* an error event.
spawn(t, exists) ==
    /\ Goto(t, "waiting")
    /\ \/ exists /\ booting' = booting + 1 /\ UNCHANGED exits
       \/ ~exists /\ exits' = exits + 1 /\ UNCHANGED booting
    /\ UNCHANGED server
    /\ runningStatus' = "Connecting"

-----------------------------------------------------------------------------
(* Files *)

\* downloadUsingURL: the answer arrived and the file is truncated.
downloadStarts(t) ==
    /\ tasks[t].pc = "requesting"
    /\ zip' = IF \E u \in Tasks : tasks[u].pc = "writing"
              THEN "garbled" ELSE "writing"
    /\ tasks' = [u \in Tasks |->
                   CASE u = t -> [tasks[u] EXCEPT !.pc = "writing"]
                     [] tasks[u].pc = "extracting"
                          -> [tasks[u] EXCEPT !.source = "rewritten"]
                     [] OTHER -> tasks[u]]
    /\ UNCHANGED <<isRestarting, runningStatus, binary, process, setup,
                   budgets>>

\* The setup is over: the interval and the restart command are registered, the
\* update check goes on by itself.
Registers(t) ==
    /\ setup' = "registered"
    /\ tasks' = [tasks EXCEPT ![t] = At("update", "version")]

\* The file is complete.  The second try of a recovery starts the binary at
\* once, an update waits for the next restart.
downloadDone(t) ==
    /\ tasks[t].pc = "writing"
    /\ zip' = IF zip = "writing" THEN "good" ELSE zip
    /\ \/ /\ tasks[t].kind = "setup"
          /\ Goto(t, "unzip")
          /\ UNCHANGED <<runningStatus, process>>
       \/ /\ tasks[t].kind = "recovery"
          /\ spawn(t, binary)
       \/ /\ tasks[t].kind = "update"
          /\ Ends(t)
          /\ UNCHANGED <<runningStatus, process>>
    /\ UNCHANGED <<isRestarting, binary, setup, budgets>>

\* Fault: the setup goes on after an exception.
ThrowsAndGoesOn(t) ==
    \/ /\ tasks[t].kind = "setup"
       /\ Goto(t, "check")
       /\ UNCHANGED <<runningStatus, setup>>
    \/ /\ tasks[t].kind # "setup"
       /\ Ends(t)
       /\ UNCHANGED <<runningStatus, setup>>

\* What an exception does.  isRestarting keeps its value.
Throws(t) ==
    \/ /\ tasks[t].kind = "setup"
       /\ setup' = "failed"
       /\ runningStatus' = "Unavailable"
       /\ Ends(t)
    \/ /\ tasks[t].kind = "recovery"
       /\ ~tasks[t].second
       /\ tasks' = [tasks EXCEPT ![t].pc = "killing", ![t].second = TRUE]
       /\ runningStatus' = "Restarting"
       /\ UNCHANGED setup
    \/ /\ tasks[t].kind = "recovery"
       /\ tasks[t].second
       /\ runningStatus' = "Unavailable"
       /\ Ends(t)
       /\ UNCHANGED setup
    \/ /\ tasks[t].kind \in {"update", "user"}
       /\ Ends(t)
       /\ UNCHANGED <<runningStatus, setup>>

downloadFails(t) ==
    /\ tasks[t].pc = "requesting"
    /\ Mishap("download")
    /\ Throws(t)
    /\ UNCHANGED <<isRestarting, files, process>>

\* The connection breaks in the middle: pipe passes no error on, so the promise
\* is never settled.
downloadHangs(t) ==
    /\ tasks[t].pc = "writing"
    /\ Mishap("hang")
    /\ zip' = IF zip = "none" THEN zip ELSE "garbled"
    /\ Goto(t, "hung")
    /\ UNCHANGED <<isRestarting, runningStatus, binary, process, setup>>

\* What follows unzipSidecarArchive.
Unzipped(t, exists) ==
    \/ /\ tasks[t].kind = "setup"
       /\ Goto(t, "check")
       /\ UNCHANGED <<runningStatus, process>>
    \/ /\ tasks[t].kind \in {"recovery", "user"}
       /\ spawn(t, exists)

\* unzipSidecarArchive: without a zip there is nothing to do.
unzipSidecarArchive(t) ==
    /\ tasks[t].pc = "unzip"
    /\ \/ /\ zip = "none"
          /\ Unzipped(t, binary)
       \/ /\ zip # "none"
          /\ tasks' = [tasks EXCEPT
                         ![t].pc = "extracting",
                         ![t].source = IF zip = "good" THEN "good" ELSE "bad"]
          /\ UNCHANGED <<runningStatus, process>>
    /\ UNCHANGED <<isRestarting, files, setup, budgets>>

\* Extracted: the zip at that path is deleted, whichever it is by now.
extracted(t) ==
    /\ tasks[t].pc = "extracting"
    /\ tasks[t].source # "bad"
    /\ binary' = TRUE
    /\ zip' = "none"
    /\ Unzipped(t, TRUE)
    /\ UNCHANGED <<isRestarting, setup, budgets>>

extractFails(t) ==
    /\ tasks[t].pc = "extracting"
    /\ \/ tasks[t].source # "good" /\ UNCHANGED budgets
       \/ tasks[t].source = "good" /\ Mishap("unzip")
    /\ Throws(t)
    /\ UNCHANGED <<isRestarting, files, process>>

-----------------------------------------------------------------------------
(* Starting and restarting *)

\* One of the attempts of retryHealthCheck gets an answer that is not healthy:
\* healthCheck shows Connected all the same.
attempt(t) ==
    /\ tasks[t].pc \in {"waiting", "rechecking"}
    /\ server = "sick"
    /\ runningStatus' = "Connected"
    /\ UNCHANGED <<isRestarting, files, process, setup, tasks, budgets>>

\* startSidecarBinary: the process answers, or the attempts are used up, which
\* it reports by the status only.
WaitEnds ==
    \/ healthCheck /\ UNCHANGED budgets
    \/ GivesUp /\ runningStatus' = "Unavailable"

\* The end of restartSidecarBinary; a recovery checks the result.
restartSidecarBinaryEnds(t) ==
    /\ InRestart(t) /\ tasks[t].pc = "waiting"
    /\ WaitEnds
    /\ isRestarting' = FALSE
    /\ \/ tasks[t].kind = "user" /\ Ends(t)
       \/ tasks[t].kind = "recovery" /\ Goto(t, "rechecking")
    /\ UNCHANGED <<files, process, setup>>

\* The other callers of startSidecarBinary.
startSidecarBinaryEnds(t) ==
    /\ tasks[t].pc = "waiting" /\ ~InRestart(t)
    /\ WaitEnds
    /\ \/ tasks[t].kind = "setup" /\ Registers(t)
       \/ tasks[t].kind = "recovery" /\ Goto(t, "rechecking") /\ UNCHANGED setup
    /\ UNCHANGED <<isRestarting, files, process>>

\* Fault: the flag is not set.
restartUnflagged ==
    /\ runningStatus' = "Restarting"
    /\ UNCHANGED isRestarting

\* The first steps of restartSidecarBinary, up to the kill.
restartSidecarBinary ==
    /\ isRestarting' = TRUE
    /\ runningStatus' = "Restarting"

\* What follows killSidecar; in the second try the status stays.
Killed(t, status) ==
    \/ /\ ~tasks[t].second
       /\ runningStatus' = "Starting"
       /\ Goto(t, "unzip")
    \/ /\ tasks[t].second
       /\ runningStatus' = status
       /\ Goto(t, "requesting")

\* killSidecar: whatever listened on the port is gone.
killSidecar(t) ==
    /\ tasks[t].pc = "killing"
    /\ server' = "none"
    /\ exits' = IF server \in {"ok", "sick"} THEN exits + 1 ELSE exits
    /\ Killed(t, runningStatus)
    /\ UNCHANGED <<isRestarting, files, booting, setup, budgets>>

\* Killing fails, which is swallowed.
killSidecarFails(t) ==
    /\ tasks[t].pc = "killing"
    /\ server # "none"
    /\ Mishap("kill")
    /\ Killed(t, "Unavailable")
    /\ UNCHANGED <<isRestarting, files, process, setup>>

\* vscode.sidecar.onDidTriggerSidecarRestart
userRestarts(t) ==
    /\ setup = "registered"
    /\ tasks[t] = Idle
    /\ restarts < MaxRestarts
    /\ exits < MaxExits
    /\ restartSidecarBinary
    /\ tasks' = [tasks EXCEPT ![t] = At("user", "killing")]
    /\ restarts' = restarts + 1
    /\ UNCHANGED <<files, process, setup, mishaps>>

-----------------------------------------------------------------------------
(* setupSidecar, checkForUpdates and the recovery interval *)

setupSidecar(t) ==
    /\ Is(t, "setup", "check")
    /\ \/ /\ healthCheck
          /\ Registers(t)
          /\ UNCHANGED process
       \/ /\ ~Healthy
          /\ spawn(t, binary)
          /\ UNCHANGED setup
    /\ UNCHANGED <<isRestarting, files, budgets>>

\* A newer version is downloaded and left for the next restart.
checkForUpdates(t) ==
    /\ Is(t, "update", "version")
    /\ \/ Ends(t) /\ UNCHANGED budgets
       \/ server # "none" /\ Mishap("update") /\ Goto(t, "requesting")
    /\ UNCHANGED <<isRestarting, runningStatus, files, process, setup>>

\* The interval fires; during a restart it does nothing.
tick(t) ==
    /\ setup = "registered"
    /\ tasks[t] = Idle
    /\ exits < MaxExits
    /\ ~isRestarting
    /\ tasks' = [tasks EXCEPT ![t] = At("recovery", "check")]
    /\ UNCHANGED <<isRestarting, runningStatus, files, process, setup, budgets>>

\* The health check of a tick ends.
recover(t) ==
    /\ Is(t, "recovery", "check")
    /\ \/ /\ healthCheck
          /\ Ends(t)
          /\ UNCHANGED isRestarting
       \/ /\ ~Healthy
          /\ restartSidecarBinary
          /\ Goto(t, "killing")
    /\ UNCHANGED <<files, process, setup, budgets>>

\* The health checks after a try: a second try follows the first.
recheck(t) ==
    /\ tasks[t].pc = "rechecking"
    /\ \/ /\ healthCheck
          /\ Ends(t)
          /\ UNCHANGED <<setup, budgets>>
       \/ GivesUp /\ Throws(t)
    /\ UNCHANGED <<isRestarting, files, process>>

-----------------------------------------------------------------------------
(* The sidecar process (external) *)

\* A spawned process takes the port, or finds it taken and exits.
bind ==
    /\ booting > 0
    /\ booting' = booting - 1
    /\ \/ server = "none" /\ server' = "ok" /\ UNCHANGED exits
       \/ server # "none" /\ exits' = exits + 1 /\ UNCHANGED server
    /\ UNCHANGED <<isRestarting, runningStatus, files, setup, tasks, budgets>>

crash ==
    /\ server # "none"
    /\ Mishap("crash")
    /\ server' = "none"
    /\ exits' = IF server = "foreign" THEN exits ELSE exits + 1
    /\ UNCHANGED <<isRestarting, runningStatus, files, booting, setup, tasks>>

\* It answers, but not with status 200.
fallSick ==
    /\ server = "ok"
    /\ Mishap("sick")
    /\ server' = "sick"
    /\ UNCHANGED <<isRestarting, runningStatus, files, booting, exits, setup,
                   tasks>>

\* The binary disappears from the disk.
goMissing ==
    /\ binary
    /\ Mishap("missing")
    /\ binary' = FALSE
    /\ UNCHANGED <<isRestarting, runningStatus, zip, process, setup,
                   tasks>>

\* Fault: the error and the exit of one process count as two events.
exitEventTwice ==
    /\ exits > 0
    /\ exits' = exits - 2
    /\ runningStatus' = "Unavailable"
    /\ UNCHANGED <<isRestarting, files, server, booting, setup, tasks, budgets>>

\* The exit and error listeners of bringSidecarUp, whichever process it was.
exitEvent ==
    /\ exits > 0
    /\ exits' = exits - 1
    /\ runningStatus' = "Unavailable"
    /\ UNCHANGED <<isRestarting, files, server, booting, setup, tasks, budgets>>

-----------------------------------------------------------------------------
(* Specification *)

Step(t) ==
    \/ downloadStarts(t) \/ downloadDone(t)
    \/ unzipSidecarArchive(t) \/ extracted(t) \/ extractFails(t)
    \/ restartSidecarBinaryEnds(t) \/ startSidecarBinaryEnds(t)
    \/ killSidecar(t)
    \/ setupSidecar(t) \/ checkForUpdates(t) \/ recover(t) \/ recheck(t)

Next ==
    \/ \E t \in Tasks :
        \/ Step(t)
        \/ downloadFails(t) \/ downloadHangs(t) \/ killSidecarFails(t)
        \/ attempt(t)
        \/ tick(t) \/ userRestarts(t)
    \/ bind \/ crash \/ fallSick \/ goMissing \/ exitEvent

\* Awaits end (the attempts of a health check are bounded; a hung download is
\* no step), the interval fires, a spawned process comes up and its events are
\* delivered.
Fairness ==
    /\ \A t \in Tasks : SF_vars(Step(t))
    /\ WF_vars(\E t \in Tasks : tick(t))
    /\ WF_vars(bind)
    /\ WF_vars(exitEvent)

Spec == Init /\ [][Next]_vars
FairSpec == Spec /\ Fairness

-----------------------------------------------------------------------------
(* Properties *)

TypeOK ==
    /\ isRestarting \in BOOLEAN
    /\ runningStatus \in {"Unavailable", "Starting", "Restarting",
                          "Connecting", "Connected"}
    /\ zip \in {"none", "writing", "good", "garbled"}
    /\ binary \in BOOLEAN
    /\ server \in {"none", "foreign", "sick", "ok"}
    /\ booting \in Nat
    /\ exits \in Nat
    /\ setup \in {"running", "registered", "failed"}
    /\ tasks \in [Tasks -> Task]
    /\ mishaps \in 0..MaxMishaps
    /\ restarts \in 0..MaxRestarts

\* Unless the installation failed at activation, which nothing retries, the
\* sidecar never stays away: it is healthy and shown as connected again and
\* again, whatever tasks were interrupted or overlapped.
SidecarReturns ==
    \/ <>(setup = "failed")
    \/ []<>(Healthy /\ runningStatus = "Connected")

\* "Skip health check if we're in the middle of a restart": the flag that makes
\* ticks skip is set exactly while a restart is under way.
FlagTracksRestart == isRestarting <=> \E t \in Tasks : InRestart(t)

\* The interval is registered only with a binary on the disk.
InstalledBeforeRegistered == setup = "registered" => binary

\* No call waits for ever, unless its download hangs.
TasksEnd ==
    \A t \in Tasks :
        tasks[t] # Idle ~> (tasks[t] = Idle \/ tasks[t].pc = "hung")
=============================================================================
