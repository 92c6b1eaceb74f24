------------------------------ MODULE Terminals ------------------------------
(***************************************************************************)
(* The terminals in which the sidecar runs commands:                       *)
(* executeTerminalCommand and the TerminalManager it makes for each call   *)
(* (terminal/TerminalManager.ts), the TerminalRegistry all calls share and *)
(* the TerminalProcess of one command.                                     *)
(*                                                                         *)
(* A command runs through the terminal's shell integration, whose stream   *)
(* tells its end.  A new terminal has none at first; when it takes more    *)
(* than four seconds the command is typed in and nobody learns its end.    *)
(* Shell integration may still come up later, commands may leave the       *)
(* terminal in another directory, and the user may close it.               *)
(***************************************************************************)
EXTENDS Naturals

CONSTANTS
    Calls,          \* calls of executeTerminalCommand
    MaxTerminals    \* bound: terminals ever created

ASSUME TerminalsAssumption == MaxTerminals \in Nat

Terminal == 1 .. MaxTerminals
NoTerminal == 0

VARIABLES
    terminals,  \* ids in TerminalRegistry.terminals; a list, oldest and so
                \* smallest id first
    created,    \* nextTerminalId - 1
    busy,       \* terminals with the busy flag
    closed,     \* terminals with an exit status
    integrated, \* terminals with shellIntegration
    elsewhere,  \* terminals whose cwd is not the workspace's
    terminal,   \* [Calls -> terminal of the call]
    process,    \* [Calls -> state of its TerminalProcess]
    waits,      \* [Calls -> wait_for_exit]
    answered,   \* calls that have returned
    shell       \* [Terminal -> calls whose command the shell is running]

registryVars == <<terminals, created, busy>>
windowVars == <<closed, integrated, elsewhere>>
callVars == <<terminal, process, waits, answered>>
vars == <<registryVars, windowVars, callVars, shell>>

Init ==
    /\ terminals = {}
    /\ created = 0
    /\ busy = {}
    /\ closed = {}
    /\ integrated = {}
    /\ elsewhere = {}
    /\ terminal = [c \in Calls |-> NoTerminal]
    /\ process = [c \in Calls |-> "none"]
    /\ waits \in [Calls -> BOOLEAN]
    /\ answered = {}
    /\ shell = [t \in Terminal |-> {}]

-----------------------------------------------------------------------------
(* Calls *)

\* getAllTerminals drops the closed ones.
Open == terminals \ closed

\* Not busy, and shell integration says it is in the workspace.
Available(t) == t \notin busy /\ t \in integrated /\ t \notin elsewhere

\* Command c is given to the terminal's shell integration.  In a closed
\* terminal it does not run, and its stream never ends.
RunIn(c, t) ==
    IF t \in closed
    THEN process' = [process EXCEPT ![c] = "lost"] /\ UNCHANGED shell
    ELSE /\ process' = [process EXCEPT ![c] = "reading"]
         /\ shell' = [shell EXCEPT ![t] = @ \cup {c}]

\* runCommand: the flag is set, a terminal without integration is waited for,
\* and a call that does not wait returns.
runCommand(c, t) ==
    /\ terminal' = [terminal EXCEPT ![c] = t]
    /\ busy' = busy \cup {t}
    /\ IF t \in integrated
       THEN RunIn(c, t)
       ELSE /\ process' = [process EXCEPT ![c] = "waiting"]
            /\ UNCHANGED shell
    /\ answered' = IF waits[c] THEN answered ELSE answered \cup {c}

\* getOrCreateTerminal finds the first terminal that is available.
executeInAvailable(c) ==
    /\ process[c] = "none"
    /\ \E t \in Open :
        /\ Available(t)
        /\ \A u \in Open : Available(u) => t <= u
        /\ runCommand(c, t)
    /\ terminals' = Open
    /\ UNCHANGED <<created, windowVars, waits>>

\* Fault: the id is taken before it is counted up.
executeInNewEarlyId(c) ==
    /\ process[c] = "none"
    /\ \A t \in Open : ~Available(t)
    /\ created < MaxTerminals
    /\ created' = created + 1
    /\ terminals' = Open \cup {created}
    /\ runCommand(c, created)
    /\ UNCHANGED <<windowVars, waits>>

\* There is none: a new one is created.
executeInNew(c) ==
    /\ process[c] = "none"
    /\ \A t \in Open : ~Available(t)
    /\ created < MaxTerminals
    /\ created' = created + 1
    /\ terminals' = Open \cup {created + 1}
    /\ runCommand(c, created + 1)
    /\ UNCHANGED <<windowVars, waits>>

\* pWaitFor sees the integration.
integrationSeen(c) ==
    /\ process[c] = "waiting" /\ terminal[c] \in integrated
    /\ RunIn(c, terminal[c])
    /\ UNCHANGED <<registryVars, windowVars, terminal, waits, answered>>

\* Fault: the terminal stays in the registry.
integrationTimesOutKept(c) ==
    /\ process[c] = "waiting" /\ terminal[c] \notin integrated
    /\ process' = [process EXCEPT ![c] = "completed"]
    /\ shell' = IF terminal[c] \in closed THEN shell
                ELSE [shell EXCEPT ![terminal[c]] = @ \cup {c}]
    /\ busy' = busy \ {terminal[c]}
    /\ answered' = answered \cup {c}
    /\ UNCHANGED <<terminals, created, windowVars, terminal, waits>>

\* Fault: only the no_shell_integration event is emitted.
integrationTimesOutSilently(c) ==
    /\ process[c] = "waiting" /\ terminal[c] \notin integrated
    /\ process' = [process EXCEPT ![c] = "completed"]
    /\ shell' = IF terminal[c] \in closed THEN shell
                ELSE [shell EXCEPT ![terminal[c]] = @ \cup {c}]
    /\ terminals' = terminals \ {terminal[c]}
    /\ UNCHANGED <<created, busy, windowVars, terminal, waits, answered>>

\* Four seconds are over: the command is typed in, the process completes at
\* once and the terminal is removed, not to be used again.
integrationTimesOut(c) ==
    /\ process[c] = "waiting" /\ terminal[c] \notin integrated
    /\ process' = [process EXCEPT ![c] = "completed"]
    /\ shell' = IF terminal[c] \in closed THEN shell
                ELSE [shell EXCEPT ![terminal[c]] = @ \cup {c}]
    /\ busy' = busy \ {terminal[c]}
    /\ answered' = answered \cup {c}
    /\ terminals' = terminals \ {terminal[c]}
    /\ UNCHANGED <<created, windowVars, terminal, waits>>

\* The stream of a command that has ended: completed and continue.
streamEnds(c) ==
    /\ process[c] = "reading" /\ c \notin shell[terminal[c]]
    /\ process' = [process EXCEPT ![c] = "completed"]
    /\ busy' = busy \ {terminal[c]}
    /\ answered' = answered \cup {c}
    /\ UNCHANGED <<terminals, created, windowVars, terminal, waits, shell>>

-----------------------------------------------------------------------------
(* The shell and the user (external) *)

integrationActivates(t) ==
    /\ t <= created /\ t \notin closed \cup integrated
    /\ integrated' = integrated \cup {t}
    /\ UNCHANGED <<registryVars, closed, elsewhere, callVars, shell>>

\* A command ends, in whichever directory.
commandEnds(t, c) ==
    /\ c \in shell[t]
    /\ shell' = [shell EXCEPT ![t] = @ \ {c}]
    /\ elsewhere' \in {elsewhere \cup {t}, elsewhere \ {t}}
    /\ UNCHANGED <<registryVars, closed, integrated, callVars>>

\* The terminal is closed.  The stream of a running command never ends then.
closeTerminal(t) ==
    /\ t <= created /\ t \notin closed
    /\ closed' = closed \cup {t}
    /\ process' = [c \in Calls |->
            IF process[c] = "reading" /\ c \in shell[t] THEN "lost" ELSE process[c]]
    /\ shell' = [shell EXCEPT ![t] = {}]
    /\ UNCHANGED <<registryVars, integrated, elsewhere, terminal, waits,
                   answered>>

-----------------------------------------------------------------------------
(* Specification *)

Next ==
    \/ \E c \in Calls :
        \/ executeInAvailable(c) \/ executeInNew(c)
        \/ integrationSeen(c) \/ integrationTimesOut(c) \/ streamEnds(c)
    \/ \E t \in Terminal :
        \/ integrationActivates(t)
        \/ \E c \in Calls : commandEnds(t, c)
        \/ closeTerminal(t)

\* Timers fire and the end of a stream is delivered.  Nothing makes a command
\* end or the integration come up.
Fairness ==
    \A c \in Calls :
        /\ WF_vars(integrationSeen(c) \/ integrationTimesOut(c))
        /\ WF_vars(streamEnds(c))

Spec == Init /\ [][Next]_vars
FairSpec == Spec /\ Fairness

-----------------------------------------------------------------------------
(* Properties *)

TypeOK ==
    /\ terminals \subseteq Terminal
    /\ created \in 0 .. MaxTerminals
    /\ busy \subseteq Terminal
    /\ closed \subseteq Terminal
    /\ integrated \subseteq Terminal
    /\ elsewhere \subseteq Terminal
    /\ terminal \in [Calls -> Terminal \cup {NoTerminal}]
    /\ process \in [Calls -> {"none", "waiting", "reading", "completed", "lost"}]
    /\ waits \in [Calls -> BOOLEAN]
    /\ answered \subseteq Calls
    /\ shell \in [Terminal -> SUBSET Calls]

\* "remove terminal so it does not get reused as it may be running a
\* long-running process": no two commands of the sidecar ever run in one
\* terminal, also when its integration comes up late, a command leaves the
\* workspace and returns, or a call does not wait for its command.
NeverShared == \A t \in Terminal : \A c, d \in shell[t] : c = d

Running(c) == \E t \in Terminal : c \in shell[t]

\* A call whose command is not running yet, or no longer, goes on: its command
\* starts or the call returns - unless the terminal is closed under the
\* command, whose call waits for ever.
CallsGoOn ==
    \A c \in Calls :
        /\ process[c] # "none" /\ c \notin answered
        /\ ~Running(c) /\ process[c] # "lost"
        ~> c \in answered \/ process[c] = "lost" \/ Running(c)
=============================================================================
