------------------------------- MODULE MCPhone -------------------------------
(* A phone, in three parts that share no step: the material catalogue, with *)
(* the requests that change it and the weigh-ins that use it; the app's     *)
(* cached page and scripts; and the PWA's pairing and capture screens.      *)
EXTENDS CatalogueCopy, ServiceWorker, CaptureScreen, TLC

VARIABLE part

\* What is left to choose at the start is chosen for the part that moves.
MCInit ==
    /\ Init /\ ShellInit /\ ScreenInit
    /\ part \in {"catalogue", "shell", "screen"}
    /\ part # "catalogue" => materials = [c \in Code |-> "absent"]
    /\ part # "screen" => app = "pwa"

MCNext ==
    /\ \/ part = "catalogue" /\ Next /\ UNCHANGED <<shellVars, captureVars>>
       \/ part = "shell" /\ ShellNext /\ UNCHANGED <<vars, captureVars>>
       \/ part = "screen" /\ ScreenNext /\ UNCHANGED <<vars, shellVars>>
    /\ UNCHANGED part

MCSpec == MCInit /\ [][MCNext]_<<vars, shellVars, captureVars, part>>

\* The components are well typed.
MCTypeOK == TypeOK /\ ShellTypeOK /\ ScreenTypeOK

\* Requests, taps and collectors are interchangeable.
PhoneSymmetry == Permutations(Request) \cup Permutations(Attempt) \cup Permutations(Collector)

\* Bound: a weigh-in is explored on a phone whose hub list is settled, a hub
\* list that changes on a phone that has captured nothing, and either of them
\* once no attempt to pair is under way.
PairingOver == \A t \in Attempt : attempt[t].at \in {"idle", "over"}
OneThingAtATime ==
    /\ (shots = 0 /\ screen.weight = 0) \/ (directory = FirstHubs /\ pulls = {})
    /\ PairingOver \/ (shots = 0 /\ pulls = {} /\ ~OnScreen)
=============================================================================
