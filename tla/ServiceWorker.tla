---------------------------- MODULE ServiceWorker ----------------------------
(* How the PWA reaches a phone: apps/capture/public/sw.js between the page, *)
(* its cache and the file server.  A build is its index.html and a script   *)
(* whose name holds a hash of its content; deploying a build replaces the   *)
(* one before.  Asked for a file it does not have, the server answers with  *)
(* its index.html, and 200 (infra/caddy/Caddyfile, try_files).  The worker  *)
(* stores what it fetched some time after it has answered.                  *)
EXTENDS Naturals

CONSTANT MaxBuilds   \* bound

ASSUME ShellAssumption == MaxBuilds \in Nat \ {0}

VARIABLES
    deployed,   \* the build the server has
    signal,     \* the phone has a connection
    worker,     \* "none", "installed" or "active"
    shell,      \* the build whose page is cached as /index.html, or 0
    scripts,    \* what is cached under the name of each build's script
    puts,       \* answers still to be stored
    load        \* the app being opened

shellVars == <<deployed, signal, worker, shell, scripts, puts, load>>

Build == 1 .. MaxBuilds
Stored == {"nothing", "script", "page"}
\* current: there was a signal all along, and no deployment since it began.
Load == [at : {"closed", "page", "running", "broken"}, build : 0 .. MaxBuilds,
         current : BOOLEAN]
Closed == [at |-> "closed", build |-> 0, current |-> FALSE]

ShellTypeOK ==
    /\ deployed \in Build /\ signal \in BOOLEAN
    /\ worker \in {"none", "installed", "active"}
    /\ shell \in 0 .. deployed
    /\ scripts \in [Build -> Stored]
    /\ puts \subseteq [build : 0 .. deployed, as : {"shell", "script"}, got : Stored]
    /\ load \in Load
    /\ worker = "none" => shell = 0

ShellInit ==
    /\ deployed = 1 /\ signal = TRUE
    /\ worker = "none"
    /\ shell = 0 /\ scripts = [b \in Build |-> "nothing"] /\ puts = {}
    /\ load = Closed

Deploy ==
    /\ deployed < MaxBuilds
    /\ deployed' = deployed + 1
    /\ load' = [load EXCEPT !.current = FALSE]
    /\ UNCHANGED <<signal, worker, shell, scripts, puts>>

SignalChanges ==
    /\ signal' = ~signal
    /\ load' = [load EXCEPT !.current = FALSE]
    /\ UNCHANGED <<deployed, worker, shell, scripts, puts>>

\* The first page that runs registers the worker, whose install stores the
\* shell; activate takes over the pages that are open.
Install ==
    /\ worker = "none" /\ load.at = "running" /\ signal
    /\ worker' = "installed" /\ shell' = deployed
    /\ UNCHANGED <<deployed, signal, scripts, puts, load>>

Activate ==
    /\ worker = "installed"
    /\ worker' = "active"
    /\ UNCHANGED <<deployed, signal, shell, scripts, puts, load>>

Opened(b) ==
    load' = [at |-> IF b = 0 THEN "broken" ELSE "page", build |-> b, current |-> signal]

\* Faulty variant: the cached page comes first.
MutNavigate ==
    /\ worker = "active"
    /\ IF shell # 0 THEN Opened(shell) /\ UNCHANGED puts
       ELSE /\ Opened(IF signal THEN deployed ELSE 0)
            /\ puts' = IF signal THEN puts \cup {[build |-> deployed, as |-> "shell", got |-> "page"]}
                       ELSE puts
    /\ UNCHANGED <<deployed, signal, worker, shell, scripts>>

\* The page, network first; what the network gave is stored, and what is stored
\* is used only without it.
Navigate ==
    /\ worker = "active"
    /\ IF signal THEN /\ Opened(deployed)
                      /\ puts' = puts \cup {[build |-> deployed, as |-> "shell", got |-> "page"]}
       ELSE Opened(shell) /\ UNCHANGED puts
    /\ UNCHANGED <<deployed, signal, worker, shell, scripts>>

\* Before the worker is active the browser asks the server itself.
NavigateAlone ==
    /\ worker # "active"
    /\ Opened(IF signal THEN deployed ELSE 0)
    /\ UNCHANGED <<deployed, signal, worker, shell, scripts, puts>>

\* What the server answers when asked for a build's script.
Served(b) == IF b = deployed THEN "script" ELSE "page"

Ran(got) == load' = [load EXCEPT !.at = IF got = "script" THEN "running" ELSE "broken"]

\* The script, cache first; a first answer is stored for good.
FetchScript ==
    LET b == load.build
    IN  /\ load.at = "page"
        /\ IF worker = "active" /\ scripts[b] # "nothing"
           THEN Ran(scripts[b]) /\ UNCHANGED puts
           ELSE IF ~signal THEN Ran("nothing") /\ UNCHANGED puts
           ELSE /\ Ran(Served(b))
                /\ puts' = IF worker = "active"
                           THEN puts \cup {[build |-> b, as |-> "script", got |-> Served(b)]}
                           ELSE puts
        /\ UNCHANGED <<deployed, signal, worker, shell, scripts>>

\* Stores end in any order, also an older page after a newer.
Put(p) ==
    /\ p \in puts
    /\ puts' = puts \ {p}
    /\ IF p.as = "shell" THEN shell' = p.build /\ UNCHANGED scripts
       ELSE scripts' = [scripts EXCEPT ![p.build] = p.got] /\ UNCHANGED shell
    /\ UNCHANGED <<deployed, signal, worker, load>>

ShellNext ==
    \/ Deploy \/ SignalChanges \/ Install \/ Activate
    \/ Navigate \/ NavigateAlone \/ FetchScript
    \/ \E p \in puts : Put(p)

ShellSpec == ShellInit /\ [][ShellNext]_shellVars

-----------------------------------------------------------------------------
\* A deployment reaches a phone that has the app installed, and never bricks
\* it: opening the app with a signal, and with no deployment while it opens,
\* runs the newest build, whatever pages and scripts are cached and in whatever
\* order they were stored (sw.js:10-28, e2e/service-worker.mjs).
NewBuildReachesPhone ==
    load.current =>
        /\ load.at # "broken"
        /\ load.at # "closed" => load.build = deployed

\* What the code does not keep.  "A missing asset must surface as an error,
\* never as a fallback document" (sw.js:27): what is stored under a script's
\* name is that script.
AssetIsItself == \A b \in Build : scripts[b] # "page"
=============================================================================
