---------------------------- MODULE ExchangeLife ----------------------------
(***************************************************************************)
(* What the chat view relies on for the exchanges of all sessions, with no *)
(* processes, channels or sessions in sight.  An exchange is opened,       *)
(* collects text, may be finished any number of times (an agent may finish *)
(* a message and go on writing), and may be stopped by the user once.      *)
(* Stopping finishes it and makes its text final.                          *)
(***************************************************************************)
EXTENDS Integers, Sequences

VARIABLES
    text,       \* parts of content of each exchange, in order of opening
    finished,   \* exchanges shown as complete
    stopped     \* exchanges shown as cancelled

lifeVars == <<text, finished, stopped>>

LifeInit ==
    /\ text = <<>>
    /\ finished = {}
    /\ stopped = {}

Open ==
    /\ text' = Append(text, 0)
    /\ UNCHANGED <<finished, stopped>>

Write(r) ==
    /\ r \notin stopped
    /\ text' = [text EXCEPT ![r] = @ + 1]
    /\ UNCHANGED <<finished, stopped>>

Finish(r) ==
    /\ finished' = finished \cup {r}
    /\ UNCHANGED <<text, stopped>>

Stop(R) ==
    /\ R \cap stopped = {}
    /\ finished' = finished \cup R
    /\ stopped' = stopped \cup R
    /\ UNCHANGED text

LifeNext ==
    \/ Open
    \/ \E r \in DOMAIN text : Write(r) \/ Finish(r)
    \/ \E R \in SUBSET (DOMAIN text) : Stop(R)

LifeSpec == LifeInit /\ [][LifeNext]_lifeVars
=============================================================================
