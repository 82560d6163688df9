------------------------------ MODULE Enrolment ------------------------------
(* Pairing a phone with the backend.  An operator signs in on the phone,    *)
(* picks a collector and a hub, and POST /devices enrols the public half of *)
(* the phone's key (EnrolScreen.tsx of the mobile app, wireProvision of the *)
(* PWA's main.ts, RegistryService.enrolDevice).  The phone saves what it    *)
(* was paired as only after the answer, so an answer can be lost between    *)
(* the two.  The key itself is made once and kept before it is ever used    *)
(* (loadOrCreateIdentity): one phone is one key.                            *)
EXTENDS Integers, FiniteSets

CONSTANTS
    Hub, Collector,
    FirstHubs,   \* hubs the backend has when the phone is first started
    Attempt,     \* taps on "Enrol this device"; each is used once (bound)
    NoHub, NoProvisioning, NoSelection

ASSUME EnrolmentAssumption ==
    /\ FirstHubs \subseteq Hub /\ FirstHubs # {}
    /\ NoHub \notin Hub
    /\ Collector # {}

Provisioning == [device : Attempt, collector : Collector, hub : Hub, hubs : SUBSET Hub]

ASSUME NotPairedAssumption == NoProvisioning \notin Provisioning

VARIABLES
    app,           \* which app runs on the phone: "pwa" or "mobile"
    directory,     \* hubs the backend lists
    devices,       \* device rows carrying the phone's public key
    provisioning,  \* what the phone saved: localStorage, or the secure store
    loaded,        \* hubs the pairing screen loaded with the operator's token
    picked,        \* the pairing screen's two selects
    attempt        \* Attempt -> what became of the tap

enrolVars == <<app, directory, devices, provisioning, loaded, picked, attempt>>

Selection == [collector : Collector, hub : Hub]
Device == [id : Attempt, collector : Collector]
Progress == [at : {"idle", "sent", "looked", "stored", "refused", "over"},
             sent : Selection \cup {NoSelection}, waits : BOOLEAN]

EnrolTypeOK ==
    /\ app \in {"pwa", "mobile"}
    /\ directory \subseteq Hub /\ FirstHubs \subseteq directory
    /\ devices \subseteq Device
    /\ provisioning \in Provisioning \cup {NoProvisioning}
    /\ loaded \subseteq Hub
    /\ picked \in Selection \cup {NoSelection}
    /\ attempt \in [Attempt -> Progress]

EnrolInit ==
    /\ app \in {"pwa", "mobile"}
    /\ directory = FirstHubs
    /\ devices = {}
    /\ provisioning = NoProvisioning
    /\ loaded = {}
    /\ picked = NoSelection
    /\ attempt = [t \in Attempt |-> [at |-> "idle", sent |-> NoSelection, waits |-> FALSE]]

-----------------------------------------------------------------------------
(* The phone.                                                               *)

\* Sign in and fetch the collectors and the hubs.  Hubs are never removed.
SignIn ==
    /\ provisioning = NoProvisioning
    /\ loaded' = directory
    /\ \E c \in Collector, h \in directory : picked' = [collector |-> c, hub |-> h]
    /\ UNCHANGED <<app, directory, devices, provisioning, attempt>>

\* The operator changes a select, also while an attempt waits for its answer.
Pick ==
    /\ provisioning = NoProvisioning /\ loaded # {}
    /\ \E c \in Collector, h \in loaded : picked' = [collector |-> c, hub |-> h]
    /\ UNCHANGED <<app, directory, devices, provisioning, loaded, attempt>>

\* The PWA draws the pairing screen again (its 60 s timer, the offline event):
\* what was loaded, and the token, are gone.  Under a waiting attempt a redraw
\* only leaves the handler with selects nobody touches any more.
ForgetLoaded ==
    /\ app = "pwa" /\ provisioning = NoProvisioning /\ loaded # {}
    /\ \A t \in Attempt : ~attempt[t].waits
    /\ loaded' = {} /\ picked' = NoSelection
    /\ UNCHANGED <<app, directory, devices, provisioning, attempt>>

\* The button sends the selection.  The mobile app disables it while an
\* attempt waits; the PWA does not.
TapEnrol(t) ==
    /\ provisioning = NoProvisioning /\ loaded # {}
    /\ attempt[t].at = "idle"
    /\ app = "mobile" => \A u \in Attempt : ~attempt[u].waits
    /\ attempt' = [attempt EXCEPT ![t] = [at |-> "sent", sent |-> picked, waits |-> TRUE]]
    /\ UNCHANGED <<app, directory, devices, provisioning, loaded, picked>>

Over(t) == [attempt EXCEPT ![t] = [at |-> "over", sent |-> NoSelection, waits |-> FALSE]]

\* The answer arrives and the phone saves what it is paired as.  The mobile
\* app saves the selection it sent; the PWA reads its selects again.
SavedSelection(t) == IF app = "mobile" THEN attempt[t].sent ELSE picked

SaveProvisioning(t) ==
    /\ attempt[t].at = "stored" /\ attempt[t].waits
    /\ provisioning' =
         [device |-> t, collector |-> SavedSelection(t).collector,
          hub |-> SavedSelection(t).hub, hubs |-> loaded]
    /\ attempt' = Over(t)
    /\ loaded' = {} /\ picked' = NoSelection
    /\ UNCHANGED <<app, directory, devices>>

\* 409 or 500: the phone shows the error.
Refused(t) ==
    /\ attempt[t].at = "refused" /\ attempt[t].waits
    /\ attempt' = Over(t)
    /\ UNCHANGED <<app, directory, devices, provisioning, loaded, picked>>

Unheard(t) ==
    IF attempt[t].at \in {"sent", "looked"} THEN [attempt EXCEPT ![t].waits = FALSE]
    ELSE Over(t)

\* The answer is lost, or the app is ended while it waits; the request itself
\* is still served.
GiveUp(t) ==
    /\ attempt[t].waits
    /\ attempt' = Unheard(t)
    /\ UNCHANGED <<app, directory, devices, provisioning, loaded, picked>>

-----------------------------------------------------------------------------
(* The backend.                                                             *)

\* An answer nobody waits for changes nothing.
Answered(t, at) ==
    IF attempt[t].waits THEN [attempt EXCEPT ![t].at = at] ELSE Over(t)

\* RegistryService.enrolDevice looks for a row with the key...
LookForKey(t) ==
    /\ attempt[t].at = "sent"
    /\ attempt' = IF devices = {} THEN [attempt EXCEPT ![t].at = "looked"]
                  ELSE Answered(t, "refused")
    /\ UNCHANGED <<app, directory, devices, provisioning, loaded, picked>>

\* Faulty variant: no unique index on the key.
MutStoreDevice(t) ==
    /\ attempt[t].at = "looked"
    /\ devices' = devices \cup {[id |-> t, collector |-> attempt[t].sent.collector]}
    /\ attempt' = Answered(t, "stored")
    /\ UNCHANGED <<app, directory, provisioning, loaded, picked>>

\* ... and saves one afterwards; the unique index refuses a second.
StoreDevice(t) ==
    /\ attempt[t].at = "looked"
    /\ IF devices = {}
       THEN /\ devices' = {[id |-> t, collector |-> attempt[t].sent.collector]}
            /\ attempt' = Answered(t, "stored")
       ELSE /\ attempt' = Answered(t, "refused")
            /\ UNCHANGED devices
    /\ UNCHANGED <<app, directory, provisioning, loaded, picked>>

\* An admin adds a hub (createHub refuses a code in use).
CreateHub ==
    /\ \E h \in Hub \ directory : directory' = directory \cup {h}
    /\ UNCHANGED <<app, devices, provisioning, loaded, picked, attempt>>

EnrolStep ==
    \/ SignIn \/ Pick \/ ForgetLoaded \/ CreateHub
    \/ \E t \in Attempt :
         TapEnrol(t) \/ Refused(t) \/ GiveUp(t) \/ LookForKey(t) \/ StoreDevice(t)

-----------------------------------------------------------------------------
\* A phone that saved a pairing is the only device row with its key, whatever
\* taps and answers overlapped, and what it will sign is checked against that
\* row (registry.service.ts:48-71).  On the mobile app the row is the saved
\* collector's; on the PWA it is if the selects still show what was sent when
\* the answer is handled (EnrolScreen.tsx:70-99, main.ts:667-702).
EnrolledAsSaved ==
    /\ [](provisioning # NoProvisioning =>
            \E d \in devices :
                /\ devices = {d}
                /\ d.id = provisioning.device
                /\ app = "mobile" => d.collector = provisioning.collector)
    /\ [][\A t \in Attempt :
            SaveProvisioning(t) /\ picked = attempt[t].sent =>
                \A d \in devices : d.collector = provisioning'.collector]_enrolVars

\* What the code does not keep.  The phone signs as the collector it is enrolled
\* to.  The PWA reads its selects again after the answer (main.ts:675-683), so it
\* may save another collector than the one it sent, and ingest quarantines
\* whatever it then signs.
CollectorAsEnrolled ==
    provisioning # NoProvisioning => \A d \in devices : d.collector = provisioning.collector
=============================================================================
