------------------------------- MODULE SharedHub -------------------------------
(***************************************************************************)
(* What the web process promises to the browsers that share its hub, said  *)
(* without promises, timers and connections: the abstract specification    *)
(* SseHub implements.                                                      *)
(***************************************************************************)
CONSTANT Browsers

VARIABLES
    phase,      \* of the hub
    stopDue,    \* a stop of the hub is scheduled
    who         \* per browser, where it stands

Init ==
    /\ phase = "stopped" /\ stopDue = FALSE
    /\ who = [s \in Browsers |-> "out"]

Nobody(w) == \A s \in Browsers : w[s] = "out"

\* Who comes is in at once if the hub runs.  A hub that was stopped starts, and
\* no stop is due any more.
Come(s) ==
    /\ who[s] = "out"
    /\ who' = [who EXCEPT ![s] = IF phase = "running" THEN "in" ELSE "waiting"]
    /\ phase' = IF phase = "stopped" THEN "starting" ELSE phase
    /\ stopDue' = FALSE

\* Who goes away while it waits is still waited for.
GiveUp(s) ==
    /\ who[s] = "waiting"
    /\ who' = [who EXCEPT ![s] = "leaving"]
    /\ UNCHANGED <<phase, stopDue>>

\* The last one to go makes a stop due.
Leave(s) ==
    /\ who[s] = "in"
    /\ who' = [who EXCEPT ![s] = "out"]
    /\ stopDue' = Nobody(who')
    /\ UNCHANGED phase

\* A stop is over and somebody waits.
Begin ==
    /\ phase = "stopped" /\ ~Nobody(who)
    /\ phase' = "starting"
    /\ UNCHANGED <<stopDue, who>>

Waiting == {s \in Browsers : who[s] \in {"waiting", "leaving"}}

\* The hub runs and some no longer wait: in, unless they have gone away.
Admit ==
    /\ phase \in {"starting", "running"}
    /\ phase' = "running"
    /\ \E some \in SUBSET Waiting :
          who' = [s \in Browsers |-> IF s \notin some THEN who[s]
                                     ELSE IF who[s] = "waiting" THEN "in" ELSE "out"]
    /\ stopDue' = Nobody(who')

\* The hub did not start: some of those who wait are turned away.
Refuse ==
    /\ phase = "starting"
    /\ phase' = "stopped"
    /\ \E some \in SUBSET Waiting :
          who' = [s \in Browsers |-> IF s \in some THEN "out" ELSE who[s]]
    /\ UNCHANGED stopDue

\* Only a hub that nobody is in or waits for stops.
Stop ==
    /\ phase = "running" /\ stopDue /\ Nobody(who)
    /\ phase' = "stopping" /\ stopDue' = FALSE
    /\ UNCHANGED who

End ==
    /\ phase = "stopping"
    /\ phase' = "stopped"
    /\ UNCHANGED <<stopDue, who>>

Next ==
    \/ \E s \in Browsers : Come(s) \/ GiveUp(s) \/ Leave(s)
    \/ Begin \/ Admit \/ Refuse \/ Stop \/ End

Spec == Init /\ [][Next]_<<phase, stopDue, who>>
================================================================================
