--------------------------- MODULE TerminalsProofs ---------------------------
(***************************************************************************)
(* No two commands of the sidecar ever run in one terminal, for any number *)
(* of calls and terminals.                                                 *)
(*                                                                         *)
(* That shells run one command each is not inductive: the registry hands   *)
(* out a terminal on the busy flag alone.  Inv says what the flag means.  A *)
(* call holds its terminal while it waits for shell integration, reads its *)
(* stream or has a command in the shell; two calls never hold the same     *)
(* one, and a terminal somebody holds is busy or out of the registry.      *)
(***************************************************************************)
EXTENDS Terminals, TLAPS

\* c uses its terminal, or its command still does.
Holds(c) ==
    \/ process[c] \in {"waiting", "reading"}
    \/ \E t \in Terminal : c \in shell[t]

\* Terminals are numbered as they are created, a call that has begun has one
\* of them, and a shell runs only commands that were given to it.
CallsPlaced ==
    /\ terminals \subseteq 1 .. created
    /\ \A c \in Calls : process[c] # "none" => terminal[c] \in 1 .. created
    /\ \A t \in Terminal : \A c \in shell[t] :
        terminal[c] = t /\ process[c] # "none"

\* No two calls hold one terminal.
HeldApart ==
    \A c, d \in Calls :
        Holds(c) /\ Holds(d) /\ terminal[c] = terminal[d] => c = d

\* The registry does not offer a terminal that is held.
HeldNotOffered ==
    \A c \in Calls :
        Holds(c) => terminal[c] \in busy \/ terminal[c] \notin terminals

Inv == TypeOK /\ CallsPlaced /\ HeldApart /\ HeldNotOffered

-----------------------------------------------------------------------------

LEMMA InitInv == Init => Inv
  BY TerminalsAssumption DEF Init, Inv, TypeOK, CallsPlaced, HeldApart, HeldNotOffered, Holds,
     NoTerminal, Terminal

\* runCommand keeps types.
LEMMA RunCommandType ==
  ASSUME TypeOK, NEW c \in Calls, NEW t \in Terminal, runCommand(c, t)
  PROVE  /\ busy' \subseteq Terminal
         /\ terminal' \in [Calls -> Terminal \cup {NoTerminal}]
         /\ process' \in [Calls -> {"none", "waiting", "reading", "completed", "lost"}]
         /\ answered' \subseteq Calls
         /\ shell' \in [Terminal -> SUBSET Calls]
  BY DEF TypeOK, runCommand, RunIn

LEMMA NextType == TypeOK /\ [Next]_vars => TypeOK'
<1> SUFFICES ASSUME TypeOK, [Next]_vars PROVE TypeOK'
  OBVIOUS
<1> USE TerminalsAssumption
<1>1. ASSUME NEW c \in Calls, executeInAvailable(c) PROVE TypeOK'
  <2>1. PICK t \in Open : runCommand(c, t)
    BY <1>1 DEF executeInAvailable
  <2>2. t \in Terminal
    BY DEF Open, TypeOK
  <2>3. UNCHANGED <<created, closed, integrated, elsewhere, waits>> /\ terminals' = Open
    BY <1>1 DEF executeInAvailable, windowVars
  <2> QED
    BY <2>1, <2>2, <2>3, RunCommandType DEF TypeOK, Open
<1>2. ASSUME NEW c \in Calls, executeInNew(c) PROVE TypeOK'
  <2>1. created + 1 \in Terminal /\ created' \in 0 .. MaxTerminals
    BY <1>2 DEF executeInNew, TypeOK, Terminal
  <2>2. UNCHANGED <<closed, integrated, elsewhere, waits>>
    BY <1>2 DEF executeInNew, windowVars
  <2>3. terminals' \subseteq Terminal
    BY <1>2, <2>1 DEF executeInNew, TypeOK, Open
  <2>4. runCommand(c, created + 1)
    BY <1>2 DEF executeInNew
  <2> QED
    BY <2>1, <2>2, <2>3, <2>4, RunCommandType DEF TypeOK
<1>3. ASSUME NEW c \in Calls, integrationSeen(c) PROVE TypeOK'
  BY <1>3 DEF integrationSeen, RunIn, TypeOK, registryVars, windowVars
<1>4. ASSUME NEW c \in Calls, integrationTimesOut(c) PROVE TypeOK'
  BY <1>4, Zenon DEF integrationTimesOut, TypeOK, windowVars
<1>5. ASSUME NEW c \in Calls, streamEnds(c) PROVE TypeOK'
  BY <1>5 DEF streamEnds, TypeOK, windowVars
<1>6. ASSUME NEW t \in Terminal, integrationActivates(t) PROVE TypeOK'
  BY <1>6 DEF integrationActivates, TypeOK, registryVars, callVars
<1>7. ASSUME NEW t \in Terminal, NEW c \in Calls, commandEnds(t, c) PROVE TypeOK'
  BY <1>7 DEF commandEnds, TypeOK, registryVars, callVars
<1>8. ASSUME NEW t \in Terminal, closeTerminal(t) PROVE TypeOK'
  BY <1>8 DEF closeTerminal, TypeOK, registryVars
<1>9. CASE UNCHANGED vars
  BY <1>9 DEF vars, registryVars, windowVars, callVars, TypeOK
<1> QED
  BY <1>1, <1>2, <1>3, <1>4, <1>5, <1>6, <1>7, <1>8, <1>9 DEF Next

-----------------------------------------------------------------------------

\* A call that starts in a terminal nobody holds keeps the calls apart, if the
\* registry gains no other terminal.
LEMMA RunCommandApart ==
  ASSUME Inv, NEW c \in Calls, NEW t \in Terminal, runCommand(c, t),
         process[c] = "none", t \in 1 .. created', created' \in Nat,
         created <= created', terminals' \subseteq terminals \cup {t},
         \A d \in Calls : Holds(d) => terminal[d] # t
  PROVE  CallsPlaced' /\ HeldApart' /\ HeldNotOffered'
<1> USE DEF Inv
<1>1. /\ terminal' = [terminal EXCEPT ![c] = t]
      /\ busy' = busy \cup {t}
      /\ terminal \in [Calls -> Terminal \cup {NoTerminal}]
      /\ process \in [Calls -> {"none", "waiting", "reading", "completed", "lost"}]
      /\ shell \in [Terminal -> SUBSET Calls]
      /\ created \in Nat
  BY TerminalsAssumption DEF runCommand, TypeOK
<1>2. \E p \in {"waiting", "reading", "lost"} : process' = [process EXCEPT ![c] = p]
  BY DEF runCommand, RunIn
<1>3. shell' = shell \/ shell' = [shell EXCEPT ![t] = @ \cup {c}]
  BY DEF runCommand, RunIn
<1>4. terminal'[c] = t /\ process'[c] # "none"
  BY <1>1, <1>2
<1>5. ASSUME NEW d \in Calls, d # c
      PROVE  /\ terminal'[d] = terminal[d] /\ process'[d] = process[d]
             /\ \A u \in Terminal : d \in shell'[u] => d \in shell[u]
  BY <1>1, <1>2, <1>3, <1>5
<1>6. \A u \in Terminal : c \in shell'[u] => u = t
  BY <1>1, <1>3 DEF CallsPlaced
<1>7. ASSUME NEW d \in Calls, d # c, Holds(d)' PROVE Holds(d)
  BY <1>5, <1>7 DEF Holds, Terminal
<1>8. CallsPlaced'
  <2>1. ASSUME NEW d \in Calls, process'[d] # "none" PROVE terminal'[d] \in 1 .. created'
    <3>1. CASE d = c
      BY <3>1, <1>4
    <3>2. CASE d # c
      <4>1. terminal[d] \in 1 .. created
        BY <3>2, <2>1, <1>5 DEF CallsPlaced
      <4> QED
        BY <4>1, <3>2, <1>5, <1>1
    <3> QED
      BY <3>1, <3>2
  <2>2. ASSUME NEW u \in Terminal, NEW d \in shell'[u]
        PROVE  terminal'[d] = u /\ process'[d] # "none"
    <3>1. d \in Calls
      BY <1>1, <1>3
    <3>2. CASE d = c
      BY <3>2, <1>4, <1>6, Zenon
    <3>3. CASE d # c
      BY <3>1, <3>3, <1>5 DEF CallsPlaced
    <3> QED
      BY <3>2, <3>3
  <2>3. terminals' \subseteq 1 .. created'
    BY <1>1 DEF CallsPlaced
  <2> QED
    BY <2>1, <2>2, <2>3 DEF CallsPlaced, Terminal
<1>9. HeldApart'
  <2> SUFFICES ASSUME NEW d \in Calls, NEW e \in Calls, Holds(d)', Holds(e)',
                      terminal'[d] = terminal'[e]
               PROVE  d = e
    BY DEF HeldApart
  <2>1. CASE d # c /\ e # c
    BY <2>1, <1>5, <1>7 DEF HeldApart
  <2>2. CASE d = c \/ e = c
    BY <2>2, <1>4, <1>5, <1>7
  <2> QED
    BY <2>1, <2>2
<1>10. HeldNotOffered'
  <2> SUFFICES ASSUME NEW d \in Calls, Holds(d)'
               PROVE  terminal'[d] \in busy' \/ terminal'[d] \notin terminals'
    BY DEF HeldNotOffered
  <2>1. CASE d = c
    BY <2>1, <1>1, <1>4
  <2>2. CASE d # c
    BY <2>2, <1>1, <1>5, <1>7 DEF HeldNotOffered
  <2> QED
    BY <2>1, <2>2
<1> QED
  BY <1>8, <1>9, <1>10

\* A step that moves no call to another terminal and starts no holder keeps
\* the calls apart.
LEMMA NoNewHolder ==
  ASSUME Inv, terminal' = terminal, \A c \in Calls : Holds(c)' => Holds(c)
  PROVE  HeldApart'
  BY DEF Inv, HeldApart

\* A call that waited for shell integration goes on, and its command may be in
\* the shell of its terminal: nobody holds a terminal who did not before.
LEMMA WaitingGoesOn ==
  ASSUME Inv, NEW c \in Calls, process[c] = "waiting",
         NEW p \in {"reading", "completed", "lost"},
         process' = [process EXCEPT ![c] = p],
         \/ shell' = shell
         \/ shell' = [shell EXCEPT ![terminal[c]] = @ \cup {c}],
         terminal' = terminal, created' = created, terminals' \subseteq terminals
  PROVE  CallsPlaced' /\ \A d \in Calls : Holds(d)' => Holds(d)
<1>1. /\ process \in [Calls -> {"none", "waiting", "reading", "completed", "lost"}]
      /\ shell \in [Terminal -> SUBSET Calls]
  BY DEF Inv, TypeOK
<1>2. terminal[c] \in Terminal
  BY TerminalsAssumption DEF Inv, CallsPlaced, TypeOK, Terminal
<1>3. ASSUME NEW t \in Terminal, NEW d \in shell'[t]
      PROVE  d \in Calls /\ (d \in shell[t] \/ (d = c /\ t = terminal[c]))
  BY <1>1, <1>2, <1>3
<1>4. \A d \in Calls : d # c => process'[d] = process[d]
  BY <1>1
<1>5. process'[c] = p
  BY <1>1
<1>6. CallsPlaced'
  <2>1. terminals' \subseteq 1 .. created'
    BY DEF Inv, CallsPlaced
  <2>2. \A d \in Calls : process'[d] # "none" => terminal'[d] \in 1 .. created'
    BY <1>4 DEF Inv, CallsPlaced
  <2>3. ASSUME NEW t \in Terminal, NEW d \in shell'[t]
        PROVE  terminal'[d] = t /\ process'[d] # "none"
    BY <1>3, <1>4, <1>5 DEF Inv, CallsPlaced
  <2> QED
    BY <2>1, <2>2, <2>3 DEF CallsPlaced, Terminal
<1>7. ASSUME NEW d \in Calls, Holds(d)' PROVE Holds(d)
  <2>1. CASE d = c
    BY <2>1 DEF Holds
  <2>2. CASE d # c
    <3>1. \A t \in Terminal : d \in shell'[t] => d \in shell[t]
      BY <2>2, <1>3
    <3> QED
      BY <2>2, <3>1, <1>4, <1>7 DEF Holds, Terminal
  <2> QED
    BY <2>1, <2>2
<1> QED
  BY <1>6, <1>7

LEMMA NextInv == Inv /\ [Next]_vars => Inv'
<1> SUFFICES ASSUME Inv, [Next]_vars PROVE Inv'
  OBVIOUS
<1>0. TypeOK' /\ TypeOK
  BY NextType DEF Inv
<1>T. /\ created \in Nat
      /\ process \in [Calls -> {"none", "waiting", "reading", "completed", "lost"}]
      /\ shell \in [Terminal -> SUBSET Calls]
      /\ terminals \subseteq Terminal
  BY <1>0, TerminalsAssumption DEF TypeOK
<1>1. ASSUME NEW c \in Calls, executeInAvailable(c) PROVE Inv'
  <2>1. PICK t \in Open : Available(t) /\ runCommand(c, t)
    BY <1>1 DEF executeInAvailable
  <2>2. t \in terminals /\ t \in Terminal /\ t \notin busy
    BY <2>1, <1>T DEF Open, Available
  <2>3. \A d \in Calls : Holds(d) => terminal[d] # t
    BY <2>2 DEF Inv, HeldNotOffered
  <2>4. terminals' \subseteq terminals /\ created' = created /\ process[c] = "none"
    BY <1>1 DEF executeInAvailable, Open
  <2>5. t \in 1 .. created
    BY <2>2 DEF Inv, CallsPlaced
  <2> QED
    BY <1>0, <1>T, <2>1, <2>2, <2>3, <2>4, <2>5, RunCommandApart DEF Inv
<1>2. ASSUME NEW c \in Calls, executeInNew(c) PROVE Inv'
  <2>1. /\ created' = created + 1 /\ process[c] = "none"
        /\ runCommand(c, created + 1) /\ terminals' \subseteq terminals \cup {created + 1}
    BY <1>2 DEF executeInNew, Open
  <2>2. created + 1 \in Terminal
    BY <1>2, <1>T, TerminalsAssumption DEF executeInNew, Terminal
  <2>3. ASSUME NEW d \in Calls, Holds(d) PROVE terminal[d] # created + 1
    <3>1. process[d] # "none"
      BY <2>3 DEF Holds, Inv, CallsPlaced
    <3> QED
      BY <3>1, <1>T DEF Inv, CallsPlaced
  <2> QED
    BY <1>0, <1>T, <2>1, <2>2, <2>3, RunCommandApart DEF Inv
<1>3. ASSUME NEW c \in Calls, integrationSeen(c) PROVE Inv'
  <2>1. /\ process[c] = "waiting" /\ RunIn(c, terminal[c])
        /\ UNCHANGED <<terminals, created, busy, terminal>>
    BY <1>3 DEF integrationSeen, registryVars
  <2>2. PICK p \in {"reading", "lost"} : process' = [process EXCEPT ![c] = p]
    BY <2>1 DEF RunIn
  <2>3. shell' = shell \/ shell' = [shell EXCEPT ![terminal[c]] = @ \cup {c}]
    BY <2>1 DEF RunIn
  <2>4. CallsPlaced' /\ \A d \in Calls : Holds(d)' => Holds(d)
    BY <2>1, <2>2, <2>3, WaitingGoesOn, Zenon
  <2>5. HeldNotOffered'
    BY <2>1, <2>4 DEF Inv, HeldNotOffered
  <2> QED
    BY <1>0, <2>1, <2>4, <2>5, NoNewHolder DEF Inv
<1>4. ASSUME NEW c \in Calls, integrationTimesOut(c) PROVE Inv'
  <2>1. /\ process[c] = "waiting" /\ process' = [process EXCEPT ![c] = "completed"]
        /\ busy' = busy \ {terminal[c]} /\ terminals' = terminals \ {terminal[c]}
        /\ UNCHANGED <<created, terminal>>
    BY <1>4 DEF integrationTimesOut
  <2>2. shell' = shell \/ shell' = [shell EXCEPT ![terminal[c]] = @ \cup {c}]
    BY <1>4 DEF integrationTimesOut
  <2>3. terminals' \subseteq terminals
    BY <2>1
  <2>4. CallsPlaced' /\ \A d \in Calls : Holds(d)' => Holds(d)
    BY <2>1, <2>2, <2>3, WaitingGoesOn, Zenon
  <2>5. HeldNotOffered'
    BY <2>1, <2>4 DEF Inv, HeldNotOffered
  <2> QED
    BY <1>0, <2>1, <2>4, <2>5, NoNewHolder DEF Inv
<1>5. ASSUME NEW c \in Calls, streamEnds(c) PROVE Inv'
  <2>1. /\ process[c] = "reading" /\ process' = [process EXCEPT ![c] = "completed"]
        /\ busy' = busy \ {terminal[c]} /\ c \notin shell[terminal[c]]
        /\ UNCHANGED <<terminals, created, terminal, shell>>
    BY <1>5 DEF streamEnds
  <2>2. ASSUME NEW d \in Calls, Holds(d)' PROVE Holds(d) /\ d # c
    <3>1. Holds(d)
      BY <1>T, <2>1, <2>2 DEF Holds, Terminal
    <3>2. ~Holds(c)'
      BY <1>T, <2>1 DEF Holds, Inv, CallsPlaced, Terminal
    <3> QED
      BY <3>1, <3>2, <2>2
  <2>3. CallsPlaced'
    BY <1>T, <2>1 DEF Inv, CallsPlaced, Terminal
  <2>4. Holds(c)
    BY <2>1 DEF Holds
  <2>5. HeldNotOffered'
    BY <2>1, <2>2, <2>4 DEF Inv, HeldNotOffered, HeldApart
  <2> QED
    BY <1>0, <2>1, <2>2, <2>3, <2>5, NoNewHolder DEF Inv
<1>6. ASSUME NEW t \in Terminal, integrationActivates(t) PROVE Inv'
  <2>1. UNCHANGED <<terminals, created, busy, terminal, process, shell>>
    BY <1>6 DEF integrationActivates, registryVars, callVars
  <2> QED
    BY <1>0, <2>1 DEF Inv, CallsPlaced, HeldApart, HeldNotOffered, Holds, Terminal
<1>7. ASSUME NEW t \in Terminal, NEW c \in Calls, commandEnds(t, c) PROVE Inv'
  <2>1. /\ UNCHANGED <<terminals, created, busy, terminal, process>>
        /\ shell' = [shell EXCEPT ![t] = @ \ {c}]
    BY <1>7 DEF commandEnds, registryVars, callVars
  <2>2. \A d \in Calls : Holds(d)' => Holds(d)
    BY <1>T, <2>1 DEF Holds, Terminal
  <2>3. CallsPlaced' /\ HeldNotOffered'
    BY <1>T, <2>1, <2>2 DEF Inv, CallsPlaced, HeldNotOffered, Terminal
  <2> QED
    BY <1>0, <2>1, <2>2, <2>3, NoNewHolder DEF Inv
<1>8. ASSUME NEW t \in Terminal, closeTerminal(t) PROVE Inv'
  <2>1. /\ UNCHANGED <<terminals, created, busy, terminal>>
        /\ shell' = [shell EXCEPT ![t] = {}]
    BY <1>8 DEF closeTerminal, registryVars
  <2>2. \A d \in Calls : process'[d] = process[d]
                         \/ (process[d] = "reading" /\ process'[d] = "lost")
    BY <1>8 DEF closeTerminal
  <2>3. \A d \in Calls : Holds(d)' => Holds(d)
    BY <1>T, <2>1, <2>2 DEF Holds, Terminal
  <2>4. CallsPlaced'
    BY <1>T, <2>1, <2>2 DEF Inv, CallsPlaced, Terminal
  <2>5. HeldNotOffered'
    BY <2>1, <2>3 DEF Inv, HeldNotOffered
  <2> QED
    BY <1>0, <2>1, <2>3, <2>4, <2>5, NoNewHolder DEF Inv
<1>9. CASE UNCHANGED vars
  <2>1. UNCHANGED <<terminals, created, busy, terminal, process, shell>>
    BY <1>9 DEF vars, registryVars, callVars
  <2> QED
    BY <1>0, <2>1 DEF Inv, CallsPlaced, HeldApart, HeldNotOffered, Holds, Terminal
<1> QED
  BY <1>1, <1>2, <1>3, <1>4, <1>5, <1>6, <1>7, <1>8, <1>9 DEF Next

\* The commands in one shell hold its terminal.
LEMMA InvShared == Inv => TypeOK /\ NeverShared
<1> SUFFICES ASSUME Inv, NEW t \in Terminal, NEW c \in shell[t], NEW d \in shell[t]
             PROVE  c = d
  BY DEF NeverShared, Inv
<1>1. c \in Calls /\ d \in Calls
  BY DEF Inv, TypeOK
<1>2. Holds(c) /\ Holds(d) /\ terminal[c] = t /\ terminal[d] = t
  BY DEF Holds, Inv, CallsPlaced
<1> QED
  BY <1>1, <1>2 DEF Inv, HeldApart

\* Whatever the number of calls and terminals: the state is well typed and no
\* two commands of the sidecar run in one terminal, which getOrCreateTerminal
\* (TerminalManager) promises though it looks at the busy flag only.
THEOREM TerminalsNeverShared == Spec => [](TypeOK /\ NeverShared)
<1>1. Init => Inv
  BY InitInv
<1>2. Inv /\ [Next]_vars => Inv'
  BY NextInv
<1>3. Inv => TypeOK /\ NeverShared
  BY InvShared
<1> QED
  BY <1>1, <1>2, <1>3, PTL DEF Spec

\* The state of the terminals and of the commands is well typed, for any
\* number of them.
THEOREM TerminalsTyped == Spec => []TypeOK
  BY TerminalsNeverShared, PTL
=============================================================================
