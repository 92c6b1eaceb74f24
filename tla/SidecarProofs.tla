---------------------------- MODULE SidecarProofs ----------------------------
(***************************************************************************)
(* The recovery interval and the restart command are registered only with  *)
(* a binary on the disk, for any number of calls under way together and    *)
(* any number of mishaps, provided that nobody deletes the binary.         *)
(*                                                                         *)
(* That is a fact about the files at the end of the setup, so the          *)
(* inductive invariant follows the setup through its steps.  The setup     *)
(* goes on to the health check without a binary if it finds no archive to  *)
(* extract; that another call has extracted and deleted it meanwhile is    *)
(* excluded because there is no other call before the registration.        *)
(*                                                                         *)
(* With one call at a time the flag isRestarting follows the restarts.     *)
(***************************************************************************)
EXTENDS SidecarLifecycle, TLAPS

\* t is the setup call.
Setup(t) == tasks[t].kind = "setup"

\* The setup is alone.
SetupAlone == \A t \in Tasks : Setup(t) =>
    /\ setup = "running"
    /\ \A u \in Tasks : u # t => tasks[u] = Idle

\* The archive is there from the download of the setup to its extraction, and
\* the binary from then on.
SetupFiles == \A t \in Tasks : Setup(t) =>
    /\ tasks[t].pc \in {"check", "unzip", "extracting", "waiting", "requesting",
                        "writing", "hung"}
    /\ tasks[t].pc \in {"writing", "unzip"} => zip # "none"
    /\ tasks[t].pc \in {"check", "waiting"} => binary

\* Inductive together with TypeOK, if the binary never goes missing.
SetupInv == SetupAlone /\ SetupFiles /\ InstalledBeforeRegistered

-----------------------------------------------------------------------------

LEMMA InitInv == Init => TypeOK /\ SetupInv
<1> SUFFICES ASSUME Init PROVE TypeOK /\ SetupInv
  OBVIOUS
<1>1. PICK t \in Tasks :
        tasks = [u \in Tasks |->
                   IF u = t THEN At("setup", IF binary THEN "check" ELSE "requesting")
                   ELSE Idle]
  BY DEF Init
<1>2. \A pc \in Places, kind \in Kinds : At(kind, pc) \in Task
  BY DEF At, Task
<1>3. Idle \in Task /\ Idle.kind = "none"
  BY <1>2 DEF Idle, At, Places, Kinds
<1>4. tasks[t] = At("setup", IF binary THEN "check" ELSE "requesting")
  BY <1>1
<1>5. \A u \in Tasks : u # t => tasks[u] = Idle
  BY <1>1
<1>6. TypeOK
  <2>1. At("setup", "check") \in Task /\ At("setup", "requesting") \in Task
    BY <1>2 DEF Places, Kinds
  <2>2. tasks \in [Tasks -> Task]
    <3>1. CASE binary
      BY <1>1, <1>3, <2>1, <3>1
    <3>2. CASE ~binary
      BY <1>1, <1>3, <2>1, <3>2
    <3> QED
      BY <3>1, <3>2
  <2>3. mishaps \in 0 .. MaxMishaps /\ restarts \in 0 .. MaxRestarts
    BY SidecarAssumptions DEF Init
  <2>4. /\ isRestarting \in BOOLEAN /\ binary \in BOOLEAN
        /\ booting \in Nat /\ exits \in Nat
        /\ server \in {"none", "foreign", "sick", "ok"}
        /\ setup \in {"running", "registered", "failed"}
        /\ zip \in {"none", "writing", "good", "garbled"}
        /\ runningStatus = "Unavailable"
    BY Zenon DEF Init
  <2> QED
    BY <2>2, <2>3, <2>4 DEF TypeOK
<1>7. SetupAlone
  BY <1>3, <1>5 DEF SetupAlone, Setup, Init
<1>8. SetupFiles
  BY <1>3, <1>4, <1>5 DEF SetupFiles, Setup, Init, At
<1> QED
  BY <1>6, <1>7, <1>8 DEF SetupInv, InstalledBeforeRegistered, Init

\* Records of calls.
LEMMA TaskFacts ==
  ASSUME TypeOK
  PROVE  /\ tasks \in [Tasks -> Task]
         /\ \A kind \in Kinds, pc \in Places : At(kind, pc) \in Task
         /\ Idle \in Task /\ Idle.kind = "none" /\ Idle.pc = "none"
         /\ \A t \in Tasks, pc \in Places :
              LET T == [tasks EXCEPT ![t].pc = pc]
              IN  /\ T \in [Tasks -> Task]
                  /\ T[t].kind = tasks[t].kind /\ T[t].pc = pc
                  /\ \A u \in Tasks : u # t => T[u] = tasks[u]
         /\ \A t \in Tasks, x \in Task :
              LET T == [tasks EXCEPT ![t] = x]
              IN  /\ T \in [Tasks -> Task]
                  /\ T[t] = x
                  /\ \A u \in Tasks : u # t => T[u] = tasks[u]
<1>1. tasks \in [Tasks -> Task]
  BY DEF TypeOK
<1>2. \A kind \in Kinds, pc \in Places : At(kind, pc) \in Task
  BY DEF At, Task
<1>3. Idle \in Task /\ Idle.kind = "none" /\ Idle.pc = "none"
  BY <1>2 DEF Idle, At, Places, Kinds
<1>4. ASSUME NEW t \in Tasks, NEW pc \in Places
      PROVE LET T == [tasks EXCEPT ![t].pc = pc]
            IN  /\ T \in [Tasks -> Task]
                /\ T[t].kind = tasks[t].kind /\ T[t].pc = pc
                /\ \A u \in Tasks : u # t => T[u] = tasks[u]
  BY <1>1 DEF Task
<1>5. ASSUME NEW t \in Tasks, NEW x \in Task
      PROVE LET T == [tasks EXCEPT ![t] = x]
            IN  /\ T \in [Tasks -> Task]
                /\ T[t] = x
                /\ \A u \in Tasks : u # t => T[u] = tasks[u]
  BY <1>1
<1> QED
  BY <1>1, <1>2, <1>3, <1>4, <1>5

\* Where the calls of the model go.
\* A task may change its place and one more field at once.
LEMMA TwoFieldsType ==
  ASSUME NEW T \in [Tasks -> Task], NEW t \in Tasks, NEW pc \in Places
  PROVE  /\ \A b \in BOOLEAN :
               [T EXCEPT ![t].pc = pc, ![t].second = b] \in [Tasks -> Task]
         /\ \A x \in {"good", "rewritten", "bad"} :
               [T EXCEPT ![t].pc = pc, ![t].source = x] \in [Tasks -> Task]
<1>1. \A u \in Task :
        /\ [u EXCEPT !.pc = pc] \in Task
        /\ \A b \in BOOLEAN : [u EXCEPT !.second = b] \in Task
        /\ \A x \in {"good", "rewritten", "bad"} : [u EXCEPT !.source = x] \in Task
  BY DEF Task
<1>2. [T EXCEPT ![t].pc = pc] \in [Tasks -> Task]
  BY <1>1, Zenon
<1>3. PICK U \in [Tasks -> Task] : U = [T EXCEPT ![t].pc = pc]
  BY <1>2, Zenon
<1>4. \A b \in BOOLEAN : [U EXCEPT ![t].second = b] \in [Tasks -> Task]
  BY <1>1, Zenon
<1>5. \A x \in {"good", "rewritten", "bad"} : [U EXCEPT ![t].source = x] \in [Tasks -> Task]
  BY <1>1, Zenon
<1> QED
  BY <1>3, <1>4, <1>5, Zenon

LEMMA GotoType ==
  ASSUME TypeOK, NEW t \in Tasks, NEW pc \in Places, Goto(t, pc)
  PROVE  tasks' \in [Tasks -> Task]
  BY TaskFacts DEF Goto

LEMMA EndsType ==
  ASSUME TypeOK, NEW t \in Tasks, Ends(t)
  PROVE  tasks' \in [Tasks -> Task]
  BY TaskFacts DEF Ends

Statuses == {"Unavailable", "Starting", "Restarting", "Connecting", "Connected"}

LEMMA MishapType ==
  ASSUME TypeOK, NEW kind, Mishap(kind)
  PROVE  mishaps' \in 0 .. MaxMishaps /\ restarts' \in 0 .. MaxRestarts
  BY SidecarAssumptions DEF Mishap, TypeOK

LEMMA BudgetsType ==
  ASSUME TypeOK, UNCHANGED budgets
  PROVE  mishaps' \in 0 .. MaxMishaps /\ restarts' \in 0 .. MaxRestarts
  BY DEF budgets, TypeOK

LEMMA GivesUpType ==
  ASSUME TypeOK, GivesUp
  PROVE  mishaps' \in 0 .. MaxMishaps /\ restarts' \in 0 .. MaxRestarts
  BY MishapType, BudgetsType DEF GivesUp

LEMMA SpawnType ==
  ASSUME TypeOK, NEW t \in Tasks, NEW exists, spawn(t, exists)
  PROVE  /\ tasks' \in [Tasks -> Task]
         /\ server' = server /\ booting' \in Nat /\ exits' \in Nat
         /\ runningStatus' \in Statuses
<1>1. tasks' \in [Tasks -> Task]
  <2>1. Goto(t, "waiting") /\ "waiting" \in Places
    BY DEF spawn, Places
  <2> QED
    BY <2>1, GotoType
<1>2. booting' \in Nat /\ exits' \in Nat
  BY DEF spawn, TypeOK
<1> QED
  BY <1>1, <1>2 DEF spawn, Statuses

LEMMA ThrowsType ==
  ASSUME TypeOK, NEW t \in Tasks, Throws(t)
  PROVE  /\ tasks' \in [Tasks -> Task] /\ runningStatus' \in Statuses
         /\ setup' \in {"running", "registered", "failed"}
<1>1. CASE Ends(t)
  BY <1>1, EndsType DEF Throws, TypeOK, Statuses
<1>2. CASE tasks' = [tasks EXCEPT ![t].pc = "killing", ![t].second = TRUE]
  <2>1. tasks' \in [Tasks -> Task]
    <3>1. tasks \in [Tasks -> Task] /\ "killing" \in Places
      BY DEF TypeOK, Places
    <3> QED
      BY <1>2, <3>1, TwoFieldsType, Zenon
  <2> QED
    BY <2>1 DEF Throws, TypeOK, Statuses
<1> QED
  BY <1>1, <1>2 DEF Throws

LEMMA UnzippedType ==
  ASSUME TypeOK, NEW t \in Tasks, NEW exists, Unzipped(t, exists)
  PROVE  /\ tasks' \in [Tasks -> Task]
         /\ server' = server /\ booting' \in Nat /\ exits' \in Nat
         /\ runningStatus' \in Statuses
<1>1. CASE Goto(t, "check") /\ UNCHANGED <<runningStatus, process>>
  <2>1. "check" \in Places
    BY DEF Places
  <2>2. tasks' \in [Tasks -> Task]
    BY <1>1, <2>1, GotoType
  <2> QED
    BY <1>1, <2>2 DEF TypeOK, process, Statuses
<1>2. CASE spawn(t, exists)
  BY <1>2, SpawnType
<1> QED
  BY <1>1, <1>2 DEF Unzipped

LEMMA WaitEndsType ==
  ASSUME TypeOK, WaitEnds
  PROVE  /\ runningStatus' \in Statuses
         /\ mishaps' \in 0 .. MaxMishaps /\ restarts' \in 0 .. MaxRestarts
  BY GivesUpType, BudgetsType DEF WaitEnds, healthCheck, Statuses

LEMMA RegistersType ==
  ASSUME TypeOK, NEW t \in Tasks, Registers(t)
  PROVE  tasks' \in [Tasks -> Task] /\ setup' = "registered"
<1>1. At("update", "version") \in Task
  BY TaskFacts DEF Kinds, Places
<1> QED
  BY <1>1, TaskFacts DEF Registers

LEMMA KilledType ==
  ASSUME TypeOK, NEW t \in Tasks, NEW status \in Statuses, Killed(t, status)
  PROVE  tasks' \in [Tasks -> Task] /\ runningStatus' \in Statuses
<1>1. "unzip" \in Places /\ "requesting" \in Places
  BY DEF Places
<1>2. tasks' \in [Tasks -> Task]
  BY <1>1, GotoType DEF Killed
<1> QED
  BY <1>2 DEF Killed, Statuses

LEMMA NextType == TypeOK /\ [Next]_vars => TypeOK'
<1> SUFFICES ASSUME TypeOK, [Next]_vars PROVE TypeOK'
  OBVIOUS
<1>P. /\ {"waiting", "check", "unzip", "extracting", "rechecking", "requesting",
         "writing", "hung", "killing"} \subseteq Places
  BY DEF Places
<1>S. runningStatus \in Statuses
  BY DEF TypeOK, Statuses
<1>T. \A kind \in Kinds, pc \in Places : At(kind, pc) \in Task
  BY TaskFacts
<1>1. ASSUME NEW t \in Tasks, downloadStarts(t) PROVE TypeOK'
  <2>1. tasks' \in [Tasks -> Task]
    BY <1>1, <1>P DEF downloadStarts, TypeOK, Task
  <2> QED
    BY <1>1, <2>1, BudgetsType DEF downloadStarts, TypeOK, process
<1>2. ASSUME NEW t \in Tasks, downloadDone(t) PROVE TypeOK'
  <2>1. /\ tasks' \in [Tasks -> Task]
        /\ server' = server /\ booting' \in Nat /\ exits' \in Nat
        /\ runningStatus' \in Statuses
    <3>1. CASE spawn(t, binary)
      BY <3>1, SpawnType
    <3>2. CASE Goto(t, "unzip") /\ UNCHANGED <<runningStatus, process>>
      BY <3>2, <1>P, <1>S, GotoType DEF process, TypeOK
    <3>3. CASE Ends(t) /\ UNCHANGED <<runningStatus, process>>
      BY <3>3, <1>S, EndsType DEF process, TypeOK
    <3> QED
      BY <1>2, <3>1, <3>2, <3>3 DEF downloadDone
  <2>2. zip' \in {"none", "writing", "good", "garbled"} /\ UNCHANGED <<isRestarting, binary, setup>>
    BY <1>2 DEF downloadDone, TypeOK
  <2>3. UNCHANGED budgets
    BY <1>2 DEF downloadDone
  <2> QED
    BY <2>1, <2>2, <2>3, BudgetsType DEF TypeOK, Statuses
<1>3. ASSUME NEW t \in Tasks, downloadFails(t) PROVE TypeOK'
  <2>1. Mishap("download") /\ Throws(t) /\ UNCHANGED <<isRestarting, files, process>>
    BY <1>3 DEF downloadFails
  <2> QED
    BY <2>1, MishapType, ThrowsType DEF TypeOK, Statuses, files, process
<1>4. ASSUME NEW t \in Tasks, downloadHangs(t) PROVE TypeOK'
  <2>1. Mishap("hang") /\ Goto(t, "hung")
    BY <1>4 DEF downloadHangs
  <2>2. tasks' \in [Tasks -> Task]
    BY <2>1, <1>P, GotoType
  <2> QED
    BY <1>4, <2>1, <2>2, MishapType DEF downloadHangs, TypeOK, process
<1>5. ASSUME NEW t \in Tasks, unzipSidecarArchive(t) PROVE TypeOK'
  <2>1. /\ tasks' \in [Tasks -> Task]
        /\ server' = server /\ booting' \in Nat /\ exits' \in Nat
        /\ runningStatus' \in Statuses
    <3>1. CASE Unzipped(t, binary)
      BY <3>1, UnzippedType
    <3>2. CASE /\ tasks' = [tasks EXCEPT ![t].pc = "extracting",
                            ![t].source = IF zip = "good" THEN "good" ELSE "bad"]
               /\ UNCHANGED <<runningStatus, process>>
      <4>1. tasks' \in [Tasks -> Task]
        <5>1. /\ tasks \in [Tasks -> Task] /\ "extracting" \in Places
              /\ (IF zip = "good" THEN "good" ELSE "bad") \in {"good", "rewritten", "bad"}
          BY DEF TypeOK, Places
        <5> QED
          BY <3>2, <5>1, TwoFieldsType, Zenon
      <4> QED
        BY <3>2, <4>1, <1>S DEF TypeOK, process
    <3> QED
      BY <1>5, <3>1, <3>2 DEF unzipSidecarArchive
  <2>2. UNCHANGED <<isRestarting, files, setup, budgets>>
    BY <1>5 DEF unzipSidecarArchive
  <2> QED
    BY <2>1, <2>2, BudgetsType DEF TypeOK, Statuses, files
<1>6. ASSUME NEW t \in Tasks, extracted(t) PROVE TypeOK'
  <2>1. Unzipped(t, TRUE)
    BY <1>6, Zenon DEF extracted
  <2>2. binary' = TRUE /\ zip' = "none" /\ UNCHANGED <<isRestarting, setup, budgets>>
    BY <1>6 DEF extracted
  <2> QED
    BY <2>1, <2>2, UnzippedType, BudgetsType, Zenon DEF TypeOK, Statuses
<1>7. ASSUME NEW t \in Tasks, extractFails(t) PROVE TypeOK'
  <2>1. Throws(t) /\ UNCHANGED <<isRestarting, files, process>>
    BY <1>7 DEF extractFails
  <2>2. mishaps' \in 0 .. MaxMishaps /\ restarts' \in 0 .. MaxRestarts
    BY <1>7, MishapType, BudgetsType DEF extractFails
  <2> QED
    BY <2>1, <2>2, ThrowsType DEF TypeOK, Statuses, files, process
<1>8. ASSUME NEW t \in Tasks, attempt(t) PROVE TypeOK'
  BY <1>8, BudgetsType DEF attempt, TypeOK, files, process
<1>9. ASSUME NEW t \in Tasks, restartSidecarBinaryEnds(t) PROVE TypeOK'
  <2>1. tasks' \in [Tasks -> Task]
    BY <1>9, <1>P, GotoType, EndsType DEF restartSidecarBinaryEnds
  <2>2. WaitEnds /\ isRestarting' = FALSE /\ UNCHANGED <<files, process, setup>>
    BY <1>9 DEF restartSidecarBinaryEnds
  <2> QED
    BY <2>1, <2>2, WaitEndsType, Zenon DEF TypeOK, Statuses, files, process
<1>10. ASSUME NEW t \in Tasks, startSidecarBinaryEnds(t) PROVE TypeOK'
  <2>1. tasks' \in [Tasks -> Task] /\ setup' \in {"running", "registered", "failed"}
    <3>1. CASE Registers(t)
      BY <3>1, RegistersType
    <3>2. CASE Goto(t, "rechecking") /\ UNCHANGED setup
      BY <3>2, <1>P, GotoType DEF TypeOK
    <3> QED
      BY <1>10, <3>1, <3>2 DEF startSidecarBinaryEnds
  <2>2. WaitEnds /\ UNCHANGED <<isRestarting, files, process>>
    BY <1>10 DEF startSidecarBinaryEnds
  <2> QED
    BY <2>1, <2>2, WaitEndsType DEF TypeOK, Statuses, files, process
<1>11. ASSUME NEW t \in Tasks, killSidecar(t) PROVE TypeOK'
  <2>1. Killed(t, runningStatus)
    BY <1>11 DEF killSidecar
  <2>2. tasks' \in [Tasks -> Task] /\ runningStatus' \in Statuses
    BY <2>1, <1>S, KilledType
  <2> QED
    BY <1>11, <2>2, BudgetsType DEF killSidecar, TypeOK, Statuses, files
<1>12. ASSUME NEW t \in Tasks, killSidecarFails(t) PROVE TypeOK'
  <2>1. Killed(t, "Unavailable") /\ Mishap("kill") /\ UNCHANGED <<isRestarting, files, process, setup>>
    BY <1>12 DEF killSidecarFails
  <2>2. tasks' \in [Tasks -> Task] /\ runningStatus' \in Statuses
    BY <2>1, KilledType DEF Statuses
  <2> QED
    BY <2>1, <2>2, MishapType DEF TypeOK, Statuses, files, process
<1>13. ASSUME NEW t \in Tasks, userRestarts(t) PROVE TypeOK'
  <2>1. tasks' \in [Tasks -> Task]
    <3>1. At("user", "killing") \in Task
      BY <1>T DEF Kinds, Places
    <3> QED
      BY <1>13, <3>1, TaskFacts DEF userRestarts
  <2>2. restarts' \in 0 .. MaxRestarts
    BY <1>13, SidecarAssumptions DEF userRestarts, TypeOK
  <2> QED
    BY <1>13, <2>1, <2>2 DEF userRestarts, restartSidecarBinary, TypeOK, files, process
<1>14. ASSUME NEW t \in Tasks, setupSidecar(t) PROVE TypeOK'
  <2>1. /\ tasks' \in [Tasks -> Task] /\ setup' \in {"running", "registered", "failed"}
        /\ server' = server /\ booting' \in Nat /\ exits' \in Nat
        /\ runningStatus' \in Statuses
    <3>1. CASE healthCheck /\ Registers(t) /\ UNCHANGED process
      BY <3>1, RegistersType DEF healthCheck, Statuses, process, TypeOK
    <3>2. CASE spawn(t, binary) /\ UNCHANGED setup
      BY <3>2, SpawnType DEF TypeOK
    <3> QED
      BY <1>14, <3>1, <3>2 DEF setupSidecar
  <2>2. UNCHANGED <<isRestarting, files, budgets>>
    BY <1>14 DEF setupSidecar
  <2> QED
    BY <2>1, <2>2, BudgetsType DEF TypeOK, Statuses, files
<1>15. ASSUME NEW t \in Tasks, checkForUpdates(t) PROVE TypeOK'
  <2>1. tasks' \in [Tasks -> Task]
    BY <1>15, <1>P, GotoType, EndsType DEF checkForUpdates
  <2>2. mishaps' \in 0 .. MaxMishaps /\ restarts' \in 0 .. MaxRestarts
    BY <1>15, MishapType, BudgetsType DEF checkForUpdates
  <2> QED
    BY <1>15, <2>1, <2>2 DEF checkForUpdates, TypeOK, files, process
<1>16. ASSUME NEW t \in Tasks, tick(t) PROVE TypeOK'
  <2>1. At("recovery", "check") \in Task
    BY <1>T DEF Kinds, Places
  <2>2. tasks' \in [Tasks -> Task]
    BY <1>16, <2>1, TaskFacts DEF tick
  <2> QED
    BY <1>16, <2>2, BudgetsType DEF tick, TypeOK, files, process
<1>17. ASSUME NEW t \in Tasks, recover(t) PROVE TypeOK'
  <2>1. tasks' \in [Tasks -> Task]
    BY <1>17, <1>P, GotoType, EndsType DEF recover
  <2>2. isRestarting' \in BOOLEAN /\ runningStatus' \in Statuses
    BY <1>17, Zenon DEF recover, healthCheck, restartSidecarBinary, TypeOK, Statuses
  <2> QED
    BY <1>17, <2>1, <2>2, BudgetsType DEF recover, TypeOK, Statuses, files, process
<1>18. ASSUME NEW t \in Tasks, recheck(t) PROVE TypeOK'
  <2>1. /\ tasks' \in [Tasks -> Task] /\ runningStatus' \in Statuses
        /\ setup' \in {"running", "registered", "failed"}
        /\ mishaps' \in 0 .. MaxMishaps /\ restarts' \in 0 .. MaxRestarts
    <3>1. CASE healthCheck /\ Ends(t) /\ UNCHANGED <<setup, budgets>>
      BY <3>1, EndsType, BudgetsType DEF healthCheck, Statuses, TypeOK
    <3>2. CASE GivesUp /\ Throws(t)
      BY <3>2, GivesUpType, ThrowsType
    <3> QED
      BY <1>18, <3>1, <3>2 DEF recheck
  <2>2. UNCHANGED <<isRestarting, files, process>>
    BY <1>18 DEF recheck
  <2> QED
    BY <2>1, <2>2 DEF TypeOK, Statuses, files, process
<1>19. CASE bind \/ exitEvent
  BY <1>19, BudgetsType DEF bind, exitEvent, TypeOK, files
<1>20. CASE crash
  <2>1. Mishap("crash")
    BY <1>20 DEF crash
  <2> QED
    BY <1>20, <2>1, MishapType DEF crash, TypeOK, files
<1>21. CASE fallSick
  <2>1. Mishap("sick")
    BY <1>21 DEF fallSick
  <2> QED
    BY <1>21, <2>1, MishapType DEF fallSick, TypeOK, files
<1>22. CASE goMissing
  <2>1. Mishap("missing")
    BY <1>22 DEF goMissing
  <2> QED
    BY <1>22, <2>1, MishapType, Zenon DEF goMissing, TypeOK, process
<1>23. CASE UNCHANGED vars
  BY <1>23 DEF vars, files, process, budgets, TypeOK
<1> QED
  BY <1>1, <1>2, <1>3, <1>4, <1>5, <1>6, <1>7, <1>8, <1>9, <1>10, <1>11, <1>12,
     <1>13, <1>14, <1>15, <1>16, <1>17, <1>18, <1>19, <1>20, <1>21, <1>22, <1>23
     DEF Next, Step

-----------------------------------------------------------------------------

\* What SetupFiles asks of the setup at pc.
FilesAt(pc) ==
    /\ pc \in {"check", "unzip", "extracting", "waiting", "requesting",
               "writing", "hung"}
    /\ pc \in {"writing", "unzip"} => zip # "none"
    /\ pc \in {"check", "waiting"} => binary

\* A step of call t alone, which does not become the setup, keeps SetupInv if
\* it leaves the binary in place.
LEMMA CallMoves ==
  ASSUME SetupInv, NEW t \in Tasks,
         \A u \in Tasks : u # t => /\ ~Setup(u) /\ ~Setup(u)'
                                   /\ tasks[u] = Idle => tasks'[u] = Idle,
         Setup(t)' => /\ Setup(t) /\ setup' = setup
                      /\ FilesAt(tasks[t].pc)' ,
         setup' = "registered" => binary'
  PROVE  SetupInv'
<1>1. \A u \in Tasks : Setup(u)' => u = t /\ Setup(t)
  BY DEF Setup
<1>2. SetupAlone'
  BY <1>1 DEF SetupInv, SetupAlone, Idle, At
<1>3. SetupFiles'
  BY <1>1 DEF SetupFiles, FilesAt
<1> QED
  BY <1>2, <1>3 DEF SetupInv, InstalledBeforeRegistered

\* Only one call is under way while the setup is.
LEMMA OthersAreNoSetup ==
  ASSUME SetupInv, NEW t \in Tasks, tasks[t] # Idle \/ setup # "running"
  PROVE  \A u \in Tasks : u # t => ~Setup(u)
  BY DEF SetupInv, SetupAlone

\* Goto and Ends move one call.
LEMMA GotoMoves ==
  ASSUME TypeOK, NEW t \in Tasks, NEW pc \in Places, Goto(t, pc)
  PROVE  /\ tasks'[t].kind = tasks[t].kind /\ tasks'[t].pc = pc
         /\ \A u \in Tasks : u # t => tasks'[u] = tasks[u]
  BY TaskFacts DEF Goto

LEMMA EndsMoves ==
  ASSUME TypeOK, NEW t \in Tasks, Ends(t)
  PROVE  /\ ~Setup(t)'
         /\ \A u \in Tasks : u # t => tasks'[u] = tasks[u]
  BY TaskFacts DEF Ends, Setup

\* Another kind of call takes the place of t.
LEMMA BecomesMoves ==
  ASSUME TypeOK, NEW t \in Tasks, NEW kind \in Kinds \ {"setup"}, NEW pc \in Places,
         tasks' = [tasks EXCEPT ![t] = At(kind, pc)]
  PROVE  /\ ~Setup(t)'
         /\ \A u \in Tasks : u # t => tasks'[u] = tasks[u]
<1>1. At(kind, pc) \in Task
  BY TaskFacts
<1>2. tasks'[t] = At(kind, pc) /\ \A u \in Tasks : u # t => tasks'[u] = tasks[u]
  BY <1>1, TaskFacts
<1> QED
  BY <1>2 DEF At, Setup

\* An exception ends the setup.
LEMMA ThrowsMoves ==
  ASSUME TypeOK, SetupInv, NEW t \in Tasks, Throws(t), UNCHANGED files,
         \A u \in Tasks : u # t => ~Setup(u)
  PROVE  SetupInv'
<1>1. ~Setup(t)' /\ \A u \in Tasks : u # t => tasks'[u] = tasks[u]
  <2>1. CASE Ends(t)
    BY <2>1, EndsMoves
  <2>2. CASE /\ tasks[t].kind = "recovery"
             /\ tasks' = [tasks EXCEPT ![t].pc = "killing", ![t].second = TRUE]
    BY <2>2 DEF TypeOK, Task, Setup
  <2> QED
    BY <2>1, <2>2 DEF Throws
<1>2. setup' = "registered" => setup = "registered"
  BY DEF Throws
<1>3. setup' = "registered" => binary'
  BY <1>2 DEF SetupInv, InstalledBeforeRegistered, files
<1>4. \A u \in Tasks : u # t => ~Setup(u)'
  BY <1>1 DEF Setup
<1> QED
  BY <1>1, <1>3, <1>4, CallMoves

\* Any other step of one call that moves it by Goto or Ends and keeps the
\* registration as it is.
LEMMA StepMoves ==
  ASSUME TypeOK, SetupInv, NEW t \in Tasks, tasks[t] # Idle,
         \/ Ends(t)
         \/ \E pc \in Places : /\ Goto(t, pc)
                               /\ Setup(t) => FilesAt(pc)',
         setup' = setup, binary => binary'
  PROVE  SetupInv'
<1>1. \A u \in Tasks : u # t => ~Setup(u)
  BY OthersAreNoSetup
<1>2. setup' = "registered" => binary'
  BY DEF SetupInv, InstalledBeforeRegistered
<1>3. CASE Ends(t)
  <2>1. ~Setup(t)' /\ \A u \in Tasks : u # t => tasks'[u] = tasks[u]
    BY <1>3, EndsMoves
  <2>2. \A u \in Tasks : u # t => ~Setup(u)'
    BY <2>1, <1>1 DEF Setup
  <2> QED
    BY <2>1, <2>2, <1>1, <1>2, CallMoves
<1>4. ASSUME NEW pc \in Places, Goto(t, pc), Setup(t) => FilesAt(pc)' PROVE SetupInv'
  <2>1. /\ tasks'[t].kind = tasks[t].kind /\ tasks'[t].pc = pc
        /\ \A u \in Tasks : u # t => tasks'[u] = tasks[u]
    BY <1>4, GotoMoves
  <2>2. \A u \in Tasks : u # t => ~Setup(u)'
    BY <2>1, <1>1 DEF Setup
  <2>3. Setup(t)' => Setup(t)
    BY <2>1 DEF Setup
  <2>4. Setup(t)' => FilesAt(tasks[t].pc)'
    BY <2>1, <2>3, <1>4 DEF FilesAt
  <2> QED
    BY <2>1, <2>2, <2>3, <2>4, <1>1, <1>2, CallMoves
<1> QED
  BY <1>3, <1>4

\* A call that is somewhere is not idle, and the setup is where it can be.
LEMMA Somewhere ==
  ASSUME SetupInv, NEW t \in Tasks
  PROVE  /\ tasks[t].pc # "none" => tasks[t] # Idle
         /\ Setup(t) => FilesAt(tasks[t].pc) /\ setup = "running"
  BY DEF SetupInv, SetupAlone, SetupFiles, FilesAt, Idle, At

\* The steps of the calls.
LEMMA StepSetup ==
  ASSUME TypeOK, SetupInv, NEW t \in Tasks, Step(t)
  PROVE  SetupInv'
<1>P. /\ {"waiting", "check", "unzip", "extracting", "rechecking", "requesting",
         "writing", "hung", "killing"} \subseteq Places
  BY DEF Places
<1>S. Setup(t) => FilesAt(tasks[t].pc) /\ setup = "running"
  BY Somewhere
<1>N. tasks[t].pc # "none" => /\ tasks[t] # Idle
                              /\ \A u \in Tasks : u # t => ~Setup(u)
  BY Somewhere, OthersAreNoSetup
<1>R. setup = "registered" => binary
  BY DEF SetupInv, InstalledBeforeRegistered
<1>1. CASE downloadStarts(t)
  <2>1. \A u \in Tasks : tasks'[u].kind = tasks[u].kind
    BY <1>1 DEF downloadStarts, TypeOK, Task
  <2>2. tasks'[t].pc = "writing" /\ tasks[t].pc = "requesting"
    BY <1>1 DEF downloadStarts, TypeOK, Task
  <2>3. \A u \in Tasks : u # t /\ tasks[u] = Idle => tasks'[u] = Idle
    BY <1>1 DEF downloadStarts, Idle, At
  <2>4. zip' # "none" /\ binary' = binary /\ setup' = setup
    BY <1>1 DEF downloadStarts
  <2>5. \A u \in Tasks : Setup(u)' <=> Setup(u)
    BY <2>1 DEF Setup
  <2>6. FilesAt(tasks[t].pc)'
    BY <2>2, <2>4 DEF FilesAt
  <2> QED
    BY <2>2, <2>3, <2>4, <2>5, <2>6, <1>N, <1>R, CallMoves
<1>2. CASE downloadDone(t)
  <2>1. tasks[t].pc = "writing" /\ UNCHANGED <<binary, setup>>
    BY <1>2 DEF downloadDone
  <2>2. Setup(t) => zip' # "none"
    BY <1>2, <1>S DEF downloadDone, FilesAt
  <2>3. \/ Ends(t)
        \/ Goto(t, "unzip")
        \/ Goto(t, "waiting") /\ ~Setup(t)
    BY <1>2 DEF downloadDone, spawn, Setup
  <2>4. Setup(t) => FilesAt("unzip")'
    BY <2>2 DEF FilesAt
  <2> QED
    BY <2>1, <2>3, <2>4, <1>N, <1>P, StepMoves
<1>3. CASE unzipSidecarArchive(t)
  <2>1. tasks[t].pc = "unzip" /\ UNCHANGED <<zip, binary, setup>>
    BY <1>3 DEF unzipSidecarArchive, files
  <2>2. CASE Unzipped(t, binary) /\ zip = "none"
    <3>1. ~Setup(t)
      BY <2>1, <2>2, <1>S DEF FilesAt
    <3>2. Goto(t, "waiting")
      BY <2>2, <3>1 DEF Unzipped, spawn, Setup
    <3> QED
      BY <2>1, <3>1, <3>2, <1>N, <1>P, StepMoves
  <2>3. CASE tasks' = [tasks EXCEPT ![t].pc = "extracting",
                       ![t].source = IF zip = "good" THEN "good" ELSE "bad"]
    <3>1. /\ tasks'[t].kind = tasks[t].kind /\ tasks'[t].pc = "extracting"
          /\ \A u \in Tasks : u # t => tasks'[u] = tasks[u]
      BY <2>3 DEF TypeOK, Task
    <3>2. \A u \in Tasks : Setup(u)' <=> Setup(u)
      BY <3>1 DEF Setup
    <3>3. FilesAt(tasks[t].pc)'
      BY <3>1 DEF FilesAt
    <3> QED
      BY <2>1, <3>1, <3>2, <3>3, <1>N, <1>R, CallMoves
  <2> QED
    BY <1>3, <2>2, <2>3 DEF unzipSidecarArchive
<1>4. CASE extracted(t)
  <2>1. tasks[t].pc = "extracting" /\ setup' = setup /\ binary' = TRUE
    BY <1>4 DEF extracted
  <2>2. Goto(t, "check") \/ Goto(t, "waiting")
    BY <1>4 DEF extracted, Unzipped, spawn
  <2>3. FilesAt("check")' /\ FilesAt("waiting")'
    BY <2>1 DEF FilesAt
  <2> QED
    BY <2>1, <2>2, <2>3, <1>N, <1>P, StepMoves
<1>5. CASE extractFails(t)
  <2>1. tasks[t].pc = "extracting" /\ Throws(t) /\ UNCHANGED files
    BY <1>5 DEF extractFails
  <2> QED
    BY <2>1, <1>N, ThrowsMoves
<1>6. CASE restartSidecarBinaryEnds(t)
  <2>1. /\ tasks[t].pc = "waiting" /\ ~Setup(t) /\ UNCHANGED <<setup, binary>>
        /\ Ends(t) \/ Goto(t, "rechecking")
    BY <1>6 DEF restartSidecarBinaryEnds, InRestart, Setup, files
  <2> QED
    BY <2>1, <1>N, <1>P, StepMoves
<1>7. CASE startSidecarBinaryEnds(t)
  <2>1. tasks[t].pc = "waiting" /\ binary' = binary
    BY <1>7 DEF startSidecarBinaryEnds, files
  <2>2. CASE Setup(t) /\ Registers(t)
    <3>1. binary'
      BY <2>1, <2>2, <1>S, SMTT(60) DEF FilesAt
    <3>2. ~Setup(t)' /\ \A u \in Tasks : u # t => tasks'[u] = tasks[u]
      BY <2>2, BecomesMoves, Zenon DEF Registers, Kinds, Places
    <3>3. \A u \in Tasks : u # t => ~Setup(u)'
      BY <3>2, <2>1, <1>N DEF Setup
    <3> QED
      BY <2>1, <3>1, <3>2, <3>3, <1>N, CallMoves
  <2>3. CASE ~Setup(t) /\ Goto(t, "rechecking") /\ UNCHANGED setup
    BY <2>1, <2>3, <1>N, <1>P, StepMoves
  <2> QED
    BY <1>7, <2>2, <2>3 DEF startSidecarBinaryEnds, Setup
<1>8. CASE killSidecar(t)
  <2>1. /\ tasks[t].pc = "killing" /\ UNCHANGED <<setup, binary>>
        /\ Goto(t, "unzip") \/ Goto(t, "requesting")
    BY <1>8 DEF killSidecar, Killed, files
  <2>2. ~Setup(t)
    BY <2>1, <1>S DEF FilesAt
  <2> QED
    BY <2>1, <2>2, <1>N, <1>P, StepMoves
<1>9. CASE setupSidecar(t)
  <2>1. tasks[t].pc = "check" /\ UNCHANGED <<zip, binary>> /\ Setup(t)
    BY <1>9 DEF setupSidecar, Is, files, Setup
  <2>2. binary'
    BY <2>1, <1>S DEF FilesAt
  <2>3. CASE Registers(t)
    <3>2. ~Setup(t)' /\ \A u \in Tasks : u # t => tasks'[u] = tasks[u]
      BY <2>3, BecomesMoves, Zenon DEF Registers, Kinds, Places
    <3>3. \A u \in Tasks : u # t => ~Setup(u)'
      BY <3>2, <2>1, <1>N DEF Setup
    <3> QED
      BY <2>1, <2>2, <3>2, <3>3, <1>N, CallMoves, SMTT(60)
  <2>4. CASE spawn(t, binary) /\ UNCHANGED setup
    <3>1. Goto(t, "waiting") /\ FilesAt("waiting")'
      BY <2>4, <2>2 DEF spawn, FilesAt
    <3> QED
      BY <2>1, <2>2, <2>4, <3>1, <1>N, <1>P, StepMoves
  <2> QED
    BY <1>9, <2>3, <2>4 DEF setupSidecar
<1>10. CASE checkForUpdates(t)
  <2>1. /\ tasks[t].pc = "version" /\ ~Setup(t) /\ UNCHANGED <<setup, binary>>
        /\ Ends(t) \/ Goto(t, "requesting")
    BY <1>10 DEF checkForUpdates, Is, Setup, files
  <2> QED
    BY <2>1, <1>N, <1>P, StepMoves
<1>11. CASE recover(t)
  <2>1. /\ tasks[t].pc = "check" /\ ~Setup(t) /\ UNCHANGED <<setup, binary>>
        /\ Ends(t) \/ Goto(t, "killing")
    BY <1>11 DEF recover, Is, Setup, files
  <2> QED
    BY <2>1, <1>N, <1>P, StepMoves
<1>12. CASE recheck(t)
  <2>1. tasks[t].pc = "rechecking" /\ UNCHANGED files
    BY <1>12 DEF recheck
  <2>2. CASE Ends(t) /\ UNCHANGED setup
    BY <2>1, <2>2, <1>N, StepMoves DEF files
  <2>3. CASE Throws(t)
    BY <2>1, <2>3, <1>N, ThrowsMoves
  <2> QED
    BY <1>12, <2>2, <2>3 DEF recheck
<1> QED
  BY <1>1, <1>2, <1>3, <1>4, <1>5, <1>6, <1>7, <1>8, <1>9, <1>10, <1>11, <1>12 DEF Step

\* A step that touches neither calls nor files nor the registration.
LEMMA ElsewhereSetup ==
  ASSUME SetupInv, UNCHANGED <<tasks, setup, files>>
  PROVE  SetupInv'
  BY DEF SetupInv, SetupAlone, SetupFiles, InstalledBeforeRegistered, Setup, files, Idle, At

LEMMA NextSetup ==
  ASSUME "missing" \notin Mishaps, TypeOK, SetupInv, [Next]_vars
  PROVE  SetupInv'
<1>P. /\ {"check", "unzip", "requesting", "hung", "killing"} \subseteq Places
  BY DEF Places
<1>1. ASSUME NEW t \in Tasks, Step(t) PROVE SetupInv'
  BY <1>1, StepSetup
<1>2. ASSUME NEW t \in Tasks, downloadFails(t) PROVE SetupInv'
  <2>1. tasks[t].pc = "requesting" /\ Throws(t) /\ UNCHANGED files
    BY <1>2 DEF downloadFails
  <2> QED
    BY <2>1, Somewhere, OthersAreNoSetup, ThrowsMoves
<1>3. ASSUME NEW t \in Tasks, downloadHangs(t) PROVE SetupInv'
  <2>1. tasks[t].pc = "writing" /\ Goto(t, "hung") /\ UNCHANGED <<setup, binary>>
    BY <1>3 DEF downloadHangs
  <2>2. FilesAt("hung")'
    BY DEF FilesAt
  <2> QED
    BY <2>1, <2>2, <1>P, Somewhere, StepMoves
<1>4. ASSUME NEW t \in Tasks, killSidecarFails(t) PROVE SetupInv'
  <2>1. /\ tasks[t].pc = "killing" /\ UNCHANGED <<setup, binary>>
        /\ Goto(t, "unzip") \/ Goto(t, "requesting")
    BY <1>4 DEF killSidecarFails, Killed, files
  <2>2. ~Setup(t)
    BY <2>1, Somewhere DEF FilesAt
  <2> QED
    BY <2>1, <2>2, <1>P, Somewhere, StepMoves
<1>5. ASSUME NEW t \in Tasks, attempt(t) PROVE SetupInv'
  BY <1>5, ElsewhereSetup DEF attempt
<1>6. ASSUME NEW t \in Tasks, tick(t) \/ userRestarts(t) PROVE SetupInv'
  <2>1. setup = "registered" /\ UNCHANGED <<setup, binary>>
    BY <1>6 DEF tick, userRestarts, files
  <2>2. ~Setup(t)' /\ \A u \in Tasks : u # t => tasks'[u] = tasks[u]
    <3>1. \/ tasks' = [tasks EXCEPT ![t] = At("recovery", "check")]
          \/ tasks' = [tasks EXCEPT ![t] = At("user", "killing")]
      BY <1>6 DEF tick, userRestarts
    <3> QED
      BY <3>1, BecomesMoves DEF Kinds, Places
  <2>3. \A u \in Tasks : u # t => ~Setup(u)
    BY <2>1, OthersAreNoSetup
  <2>4. \A u \in Tasks : u # t => ~Setup(u)'
    BY <2>2, <2>3 DEF Setup
  <2>5. binary'
    BY <2>1 DEF SetupInv, InstalledBeforeRegistered
  <2> QED
    BY <2>2, <2>3, <2>4, <2>5, CallMoves
<1>7. CASE bind \/ crash \/ fallSick \/ exitEvent
  BY <1>7, ElsewhereSetup DEF bind, crash, fallSick, exitEvent
<1>8. ~goMissing
  BY DEF goMissing, Mishap
<1>9. CASE UNCHANGED vars
  BY <1>9, ElsewhereSetup DEF vars
<1> QED
  BY <1>1, <1>2, <1>3, <1>4, <1>5, <1>6, <1>7, <1>8, <1>9 DEF Next

\* The state of the recovery code is well typed, for any number of calls that
\* overlap and any mishaps.
THEOREM SidecarTypes == Spec => []TypeOK
<1>1. Init => TypeOK
  BY InitInv
<1> QED
  BY <1>1, NextType, PTL DEF Spec

\* setupSidecar registers the interval and the restart command only once the
\* binary is on the disk, and it is there ever after, however downloads,
\* extractions and processes fail: as long as nobody deletes it.
THEOREM SidecarInstalled ==
  ASSUME "missing" \notin Mishaps
  PROVE  Spec => []InstalledBeforeRegistered
<1>1. Init => TypeOK /\ SetupInv
  BY InitInv
<1>2. (TypeOK /\ SetupInv) /\ [Next]_vars => (TypeOK /\ SetupInv)'
  BY NextType, NextSetup
<1>3. SetupInv => InstalledBeforeRegistered
  BY DEF SetupInv
<1> QED
  BY <1>1, <1>2, <1>3, PTL DEF Spec
-----------------------------------------------------------------------------
(* The flag of a window with one call at a time. *)

\* What holds of the only call t of a window.
RestartInv(t) ==
    /\ isRestarting <=> InRestart(t)
    /\ tasks[t].pc = "extracting" => tasks[t].source = "good"
    /\ tasks[t].pc = "writing" => zip = "writing"
    /\ tasks[t].pc \notin {"writing", "hung"} => zip \in {"none", "good"}
    /\ (/\ tasks[t].kind \in {"recovery", "user"}
        /\ tasks[t].pc \in {"requesting", "writing"}) => tasks[t].second
    /\ tasks[t].kind = "recovery" /\ tasks[t].pc = "check" => ~tasks[t].second

\* A step that changes neither the call nor the flag nor the archive.
LEMMA ElsewhereRestart ==
  ASSUME NEW t, RestartInv(t), UNCHANGED <<tasks, isRestarting, zip>>
  PROVE  RestartInv(t)'
  BY DEF RestartInv, InRestart

\* Goto moves the call and keeps the rest of it.
LEMMA GotoCall ==
  ASSUME TypeOK, NEW t \in Tasks, NEW pc \in Places, Goto(t, pc)
  PROVE  /\ tasks'[t].kind = tasks[t].kind /\ tasks'[t].pc = pc
         /\ tasks'[t].second = tasks[t].second
         /\ tasks'[t].source = tasks[t].source
  BY TaskFacts DEF Goto

LEMMA EndsCall ==
  ASSUME TypeOK, NEW t \in Tasks, Ends(t)
  PROVE  tasks'[t].kind = "none" /\ tasks'[t].pc = "none"
  BY DEF Ends, Idle, At, TypeOK

LEMMA BecomesCall ==
  ASSUME TypeOK, NEW t \in Tasks, NEW kind, NEW pc,
         tasks' = [tasks EXCEPT ![t] = At(kind, pc)]
  PROVE  tasks'[t].kind = kind /\ tasks'[t].pc = pc /\ tasks'[t].second = FALSE
  BY DEF At, TypeOK

LEMMA RegistersCall ==
  ASSUME TypeOK, NEW t \in Tasks, Registers(t)
  PROVE  tasks'[t].kind = "update" /\ tasks'[t].pc = "version"
  BY DEF Registers, At, TypeOK

\* An exception outside a restart leaves no restart behind.
LEMMA ThrowsRestart ==
  ASSUME TypeOK, NEW t \in Tasks, RestartInv(t), ~InRestart(t), Throws(t),
         tasks[t].pc \notin {"writing", "hung"},
         UNCHANGED <<isRestarting, zip>>
  PROVE  RestartInv(t)'
<1>1. CASE Ends(t)
  <2>1. ~InRestart(t)'
    BY <1>1, EndsCall DEF InRestart
  <2> QED
    BY <1>1, <2>1, EndsCall DEF RestartInv
<1>2. CASE tasks' = [tasks EXCEPT ![t].pc = "killing", ![t].second = TRUE]
  <2>1. tasks'[t].pc = "killing" /\ tasks'[t].second = TRUE
    BY <1>2 DEF TypeOK, Task
  <2>2. ~InRestart(t)'
    BY <2>1 DEF InRestart
  <2> QED
    BY <2>1, <2>2 DEF RestartInv
<1> QED
  BY <1>1, <1>2 DEF Throws

\* Killing goes on with the restart, or with the download of the second try.
LEMMA KilledRestart ==
  ASSUME TypeOK, NEW t \in Tasks, RestartInv(t), tasks[t].pc = "killing",
         NEW status, Killed(t, status), UNCHANGED <<isRestarting, zip>>
  PROVE  RestartInv(t)'
<1>P. {"unzip", "requesting"} \subseteq Places
  BY DEF Places
<1>1. CASE ~tasks[t].second /\ Goto(t, "unzip")
  <2>1. InRestart(t) <=> InRestart(t)'
    BY <1>P, <1>1, GotoCall DEF InRestart
  <2> QED
    BY <1>P, <1>1, <2>1, GotoCall DEF RestartInv
<1>2. CASE tasks[t].second /\ Goto(t, "requesting")
  <2>1. ~InRestart(t) /\ ~InRestart(t)'
    BY <1>P, <1>2, GotoCall DEF InRestart
  <2> QED
    BY <1>P, <1>2, <2>1, GotoCall DEF RestartInv
<1> QED
  BY <1>1, <1>2 DEF Killed

\* The steps of the only call.
LEMMA StepRestart ==
  ASSUME TypeOK, NEW t, Tasks = {t}, "unzip" \notin Mishaps, RestartInv(t),
         Step(t)
  PROVE  RestartInv(t)'
<1>T. t \in Tasks
  OBVIOUS
<1>P. /\ {"waiting", "check", "unzip", "extracting", "rechecking", "requesting",
         "writing", "hung", "killing"} \subseteq Places
  BY DEF Places
<1>1. CASE downloadStarts(t)
  <2>1. /\ tasks[t].pc = "requesting" /\ UNCHANGED isRestarting
        /\ zip' = "writing"
    BY <1>1, <1>T DEF downloadStarts
  <2>2. tasks'[t] = [tasks[t] EXCEPT !.pc = "writing"]
    BY <1>1, <1>T DEF downloadStarts
  <2>3. /\ tasks'[t].kind = tasks[t].kind /\ tasks'[t].pc = "writing"
        /\ tasks'[t].second = tasks[t].second
    BY <1>T, <2>2 DEF TypeOK, Task
  <2>4. ~InRestart(t) /\ ~InRestart(t)'
    BY <2>1, <2>3 DEF InRestart
  <2> QED
    BY <2>1, <2>3, <2>4 DEF RestartInv
<1>2. CASE downloadDone(t)
  <2>1. /\ tasks[t].pc = "writing" /\ UNCHANGED isRestarting
        /\ zip = "writing" /\ zip' = "good"
    BY <1>2 DEF downloadDone, RestartInv
  <2>2. ~InRestart(t)
    BY <2>1 DEF InRestart
  <2>3. CASE Goto(t, "unzip") /\ tasks[t].kind = "setup"
    <3>1. ~InRestart(t)'
      BY <1>T, <1>P, <2>3, GotoCall DEF InRestart
    <3> QED
      BY <1>T, <1>P, <2>1, <2>2, <2>3, <3>1, GotoCall DEF RestartInv
  <2>4. CASE Goto(t, "waiting") /\ tasks[t].kind = "recovery"
    <3>1. tasks[t].second
      BY <2>1, <2>4 DEF RestartInv
    <3>2. ~InRestart(t)'
      BY <1>T, <1>P, <2>4, <3>1, GotoCall DEF InRestart
    <3> QED
      BY <1>T, <1>P, <2>1, <2>2, <2>4, <3>2, GotoCall DEF RestartInv
  <2>5. CASE Ends(t)
    <3>1. ~InRestart(t)'
      BY <1>T, <2>5, EndsCall DEF InRestart
    <3> QED
      BY <1>T, <2>1, <2>2, <2>5, <3>1, EndsCall DEF RestartInv
  <2> QED
    BY <1>2, <2>3, <2>4, <2>5 DEF downloadDone, spawn
<1>3. CASE unzipSidecarArchive(t) \/ extracted(t)
  <2>1. /\ tasks[t].pc \in {"unzip", "extracting"} /\ UNCHANGED isRestarting
        /\ zip' \in {zip, "none"} /\ zip \in {"none", "good"}
    BY <1>3, Zenon DEF unzipSidecarArchive, extracted, RestartInv, files
  <2>2. CASE Goto(t, "check") /\ tasks[t].kind = "setup"
    <3>1. ~InRestart(t) /\ ~InRestart(t)'
      BY <1>T, <1>P, <2>2, GotoCall DEF InRestart
    <3> QED
      BY <1>T, <1>P, <2>1, <2>2, <3>1, GotoCall DEF RestartInv
  <2>3. CASE Goto(t, "waiting")
    <3>1. InRestart(t) <=> InRestart(t)'
      BY <1>T, <1>P, <2>1, <2>3, GotoCall DEF InRestart
    <3> QED
      BY <1>T, <1>P, <2>1, <2>3, <3>1, GotoCall DEF RestartInv
  <2>4. CASE /\ zip # "none"
             /\ tasks' = [tasks EXCEPT ![t].pc = "extracting",
                       ![t].source = IF zip = "good" THEN "good" ELSE "bad"]
    <3>1. /\ tasks'[t].kind = tasks[t].kind /\ tasks'[t].pc = "extracting"
          /\ tasks'[t].second = tasks[t].second /\ tasks'[t].source = "good"
      BY <1>T, <2>1, <2>4 DEF TypeOK, Task
    <3>2. InRestart(t) <=> InRestart(t)'
      BY <2>1, <3>1 DEF InRestart
    <3> QED
      BY <2>1, <3>1, <3>2 DEF RestartInv
  <2> QED
    BY <1>3, <2>2, <2>3, <2>4 DEF unzipSidecarArchive, extracted, Unzipped, spawn
<1>4. ~extractFails(t)
  BY DEF extractFails, Mishap, RestartInv
<1>5. CASE restartSidecarBinaryEnds(t)
  <2>1. /\ tasks[t].pc = "waiting" /\ isRestarting' = FALSE /\ zip' = zip
        /\ Ends(t) \/ Goto(t, "rechecking")
    BY <1>5 DEF restartSidecarBinaryEnds, files
  <2>2. tasks'[t].pc \in {"none", "rechecking"}
    BY <1>T, <1>P, <2>1, GotoCall, EndsCall
  <2>3. ~InRestart(t)'
    BY <2>2 DEF InRestart
  <2> QED
    BY <2>1, <2>2, <2>3 DEF RestartInv
<1>6. CASE startSidecarBinaryEnds(t)
  <2>1. /\ tasks[t].pc = "waiting" /\ ~InRestart(t)
        /\ UNCHANGED <<isRestarting, zip>>
        /\ Registers(t) \/ Goto(t, "rechecking")
    BY <1>6 DEF startSidecarBinaryEnds, files
  <2>2. tasks'[t].pc \in {"version", "rechecking"}
    BY <1>T, <1>P, <2>1, GotoCall, RegistersCall
  <2>3. ~InRestart(t)'
    BY <2>2 DEF InRestart
  <2> QED
    BY <2>1, <2>2, <2>3 DEF RestartInv
<1>7. CASE killSidecar(t)
  <2>1. /\ tasks[t].pc = "killing"
        /\ UNCHANGED <<isRestarting, zip>>
        /\ Killed(t, runningStatus)
    BY <1>7 DEF killSidecar, files
  <2> QED
    BY <1>T, <2>1, KilledRestart
<1>8. CASE setupSidecar(t)
  <2>1. /\ tasks[t].kind = "setup" /\ tasks[t].pc = "check"
        /\ UNCHANGED <<isRestarting, zip>>
        /\ Registers(t) \/ Goto(t, "waiting")
    BY <1>8 DEF setupSidecar, Is, files, spawn
  <2>2. /\ tasks'[t].pc \in {"version", "waiting"}
        /\ tasks'[t].kind \in {"setup", "update"}
    BY <1>T, <1>P, <2>1, GotoCall, RegistersCall
  <2>3. ~InRestart(t) /\ ~InRestart(t)'
    BY <2>1, <2>2 DEF InRestart
  <2> QED
    BY <2>1, <2>2, <2>3 DEF RestartInv
<1>9. CASE checkForUpdates(t)
  <2>1. /\ tasks[t].kind = "update" /\ tasks[t].pc = "version"
        /\ UNCHANGED <<isRestarting, zip>>
        /\ Ends(t) \/ Goto(t, "requesting")
    BY <1>9 DEF checkForUpdates, Is, files
  <2>2. /\ tasks'[t].pc \in {"none", "requesting"}
        /\ tasks'[t].kind \in {"none", "update"}
    BY <1>T, <1>P, <2>1, GotoCall, EndsCall
  <2>3. ~InRestart(t) /\ ~InRestart(t)'
    BY <2>1, <2>2 DEF InRestart
  <2> QED
    BY <2>1, <2>2, <2>3 DEF RestartInv
<1>10. CASE recover(t)
  <2>1. /\ tasks[t].kind = "recovery" /\ tasks[t].pc = "check" /\ zip' = zip
        /\ \/ Ends(t) /\ UNCHANGED isRestarting
           \/ Goto(t, "killing") /\ isRestarting' = TRUE
    BY <1>10 DEF recover, Is, files, restartSidecarBinary
  <2>2. ~tasks[t].second /\ ~InRestart(t)
    BY <2>1 DEF RestartInv, InRestart
  <2>3. CASE Ends(t) /\ UNCHANGED isRestarting
    <3>1. ~InRestart(t)'
      BY <1>T, <2>3, EndsCall DEF InRestart
    <3> QED
      BY <1>T, <2>1, <2>2, <2>3, <3>1, EndsCall DEF RestartInv
  <2>4. CASE Goto(t, "killing") /\ isRestarting' = TRUE
    <3>1. /\ tasks'[t].kind = "recovery" /\ tasks'[t].pc = "killing"
          /\ ~tasks'[t].second
      BY <1>T, <1>P, <2>1, <2>2, <2>4, GotoCall
    <3>2. InRestart(t)'
      BY <3>1 DEF InRestart
    <3> QED
      BY <2>1, <2>4, <3>1, <3>2 DEF RestartInv
  <2> QED
    BY <2>1, <2>3, <2>4, Zenon
<1>11. CASE recheck(t)
  <2>1. /\ tasks[t].pc = "rechecking"
        /\ UNCHANGED <<isRestarting, zip>>
        /\ Ends(t) \/ Throws(t)
    BY <1>11 DEF recheck, files
  <2>2. ~InRestart(t)
    BY <2>1 DEF InRestart
  <2>3. CASE Ends(t)
    <3>1. ~InRestart(t)'
      BY <1>T, <2>3, EndsCall DEF InRestart
    <3> QED
      BY <1>T, <2>1, <2>2, <2>3, <3>1, EndsCall DEF RestartInv
  <2> QED
    BY <1>T, <2>1, <2>2, <2>3, ThrowsRestart
<1> QED
  BY <1>1, <1>2, <1>3, <1>4, <1>5, <1>6, <1>7, <1>8, <1>9, <1>10, <1>11 DEF Step

LEMMA NextRestart ==
  ASSUME TypeOK, NEW t, Tasks = {t}, "unzip" \notin Mishaps, RestartInv(t),
         [Next]_vars
  PROVE  RestartInv(t)'
<1>T. t \in Tasks /\ {"hung"} \subseteq Places
  BY DEF Places
<1>1. CASE Step(t)
  BY <1>1, StepRestart
<1>2. CASE downloadFails(t)
  <2>1. /\ tasks[t].pc = "requesting"
        /\ UNCHANGED <<isRestarting, zip>>
        /\ Throws(t)
    BY <1>2 DEF downloadFails, files
  <2>2. ~InRestart(t)
    BY <2>1 DEF InRestart
  <2> QED
    BY <1>T, <2>1, <2>2, ThrowsRestart
<1>3. CASE downloadHangs(t)
  <2>1. /\ tasks[t].pc = "writing" /\ UNCHANGED isRestarting /\ Goto(t, "hung")
    BY <1>3 DEF downloadHangs
  <2>2. tasks'[t].pc = "hung"
    BY <1>T, <2>1, GotoCall
  <2>3. ~InRestart(t) /\ ~InRestart(t)'
    BY <2>1, <2>2 DEF InRestart
  <2> QED
    BY <2>1, <2>2, <2>3 DEF RestartInv
<1>4. CASE killSidecarFails(t)
  <2>1. /\ tasks[t].pc = "killing"
        /\ UNCHANGED <<isRestarting, zip>>
        /\ Killed(t, "Unavailable")
    BY <1>4 DEF killSidecarFails, files
  <2> QED
    BY <1>T, <2>1, KilledRestart
<1>5. CASE attempt(t)
  BY <1>5, ElsewhereRestart DEF attempt, files
<1>6. CASE tick(t)
  <2>1. /\ tasks[t] = Idle /\ ~isRestarting /\ UNCHANGED <<isRestarting, zip>>
        /\ tasks' = [tasks EXCEPT ![t] = At("recovery", "check")]
    BY <1>6 DEF tick, files
  <2>2. /\ tasks'[t].kind = "recovery" /\ tasks'[t].pc = "check"
        /\ tasks'[t].second = FALSE
    BY <1>T, <2>1, BecomesCall, Zenon
  <2>3. ~InRestart(t)' /\ tasks[t].pc = "none"
    BY <2>1, <2>2 DEF InRestart, Idle, At
  <2> QED
    BY <2>1, <2>2, <2>3 DEF RestartInv
<1>7. CASE userRestarts(t)
  <2>1. /\ tasks[t] = Idle /\ isRestarting' = TRUE /\ zip' = zip
        /\ tasks' = [tasks EXCEPT ![t] = At("user", "killing")]
    BY <1>7 DEF userRestarts, restartSidecarBinary, files
  <2>2. /\ tasks'[t].kind = "user" /\ tasks'[t].pc = "killing"
        /\ tasks'[t].second = FALSE
    BY <1>T, <2>1, BecomesCall, Zenon
  <2>3. InRestart(t)' /\ tasks[t].pc = "none"
    BY <2>1, <2>2 DEF InRestart, Idle, At
  <2> QED
    BY <2>1, <2>2, <2>3 DEF RestartInv
<1>8. CASE bind \/ crash \/ fallSick \/ goMissing \/ exitEvent
  BY <1>8, ElsewhereRestart DEF bind, crash, fallSick, goMissing, exitEvent, files
<1>9. CASE UNCHANGED vars
  BY <1>9, ElsewhereRestart DEF vars, files
<1> QED
  BY <1>1, <1>2, <1>3, <1>4, <1>5, <1>6, <1>7, <1>8, <1>9 DEF Next

\* With one call at a time and archives that extract, the flag by which a tick
\* of the interval skips its health check is set exactly while a restart is
\* under way.  An exception in restartSidecarBinary would leave the flag set;
\* what fails in a restart that is alone is only reported by the status.
THEOREM SingleCallFlag ==
  ASSUME NEW t, Tasks = {t}, "unzip" \notin Mishaps
  PROVE  Spec => []FlagTracksRestart
<1>1. Init => TypeOK /\ RestartInv(t)
  <2> SUFFICES ASSUME Init PROVE RestartInv(t)
    BY InitInv
  <2>1. tasks[t] = At("setup", IF binary THEN "check" ELSE "requesting")
    BY DEF Init
  <2>2. tasks[t].kind = "setup" /\ tasks[t].pc \in {"check", "requesting"}
    BY <2>1 DEF At
  <2>3. ~InRestart(t)
    BY <2>2 DEF InRestart
  <2> QED
    BY <2>2, <2>3 DEF Init, RestartInv
<1>2. (TypeOK /\ RestartInv(t)) /\ [Next]_vars => (TypeOK /\ RestartInv(t))'
  BY NextType, NextRestart
<1>3. RestartInv(t) => FlagTracksRestart
  BY DEF RestartInv, FlagTracksRestart
<1> QED
  BY <1>1, <1>2, <1>3, PTL DEF Spec
=============================================================================
