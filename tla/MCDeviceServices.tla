--------------------------- MODULE MCDeviceServices ---------------------------
(***************************************************************************)
(* The services of the device on small instances: installed packages, the  *)
(* media session, the intent queue and the prompts of appd, first-boot     *)
(* setup (provisiond) and paired computers (devd).                         *)
(* They share no state, so each runs in behaviours of its own; the         *)
(* variable `scenario' says which.  Packages have two scenarios, one with  *)
(* every version and one with two contents of a version; the prompts have  *)
(* three, each with its bounds on the identifiers that one run of appd     *)
(* hands out.                                                              *)
(***************************************************************************)
EXTENDS PackageInstall

CONSTANTS
    OtherVersion, OtherContent,
    MediaApps, Actions, MaxActions, None,
    MaxLaunches,            \* launches in a behaviour of the media session
    IntentApps, MaxIntents,
    MaxMessages,            \* bounds the messages sent
    PromptApps, Permissions, Documents,
    Owners, Regions, Passwords,
    Hosts, DeveloperKeys, MaxPaired, WindowTicks, Unpaired

VARIABLES
    scenario,
    task, process, sessions, foreground, next_token, session, control, caller, ended, action_taken,
    pending, next_id, broker, installed, running, accepted, taken,
    store, permission_disk, allow_once, prompt, next_prompt_id, document, prompt_broker, dialog,
    prompt_running, exited, acked, answered,
    setup_disk, sshd, refresh, job, consent,
    paired, authorized, trust, window, developer_mode, serving, todo

Media == INSTANCE MediaSession
    WITH Apps <- MediaApps, MaxPending <- MaxActions, broker <- caller, taken <- action_taken
Intents == INSTANCE IntentQueue
    WITH Apps <- IntentApps, MaxPending <- MaxIntents, U64Max <- MaxMessages
Dialogs == INSTANCE Prompts
    WITH Apps <- PromptApps, disk <- permission_disk, pending <- prompt, broker <- prompt_broker,
         running <- prompt_running
Setup == INSTANCE Provisioning WITH disk <- setup_disk
Pairing == INSTANCE DeveloperAccess WITH Keys <- DeveloperKeys

ASSUME IntentsAssumption == Intents!ConstantsSound

mediaVars == <<task, process, sessions, foreground, next_token, session, control, caller, ended,
               action_taken>>
intentVars == <<pending, next_id, broker, installed, running, accepted, taken>>
promptVars == <<store, permission_disk, allow_once, prompt, next_prompt_id, document,
                prompt_broker, dialog, prompt_running, exited, acked, answered>>
setupVars == <<setup_disk, sshd, refresh, job, consent>>
pairingVars == <<paired, authorized, trust, window, developer_mode, serving, todo>>
mcvars == <<vars, mediaVars, intentVars, promptVars, setupVars, pairingVars, scenario>>

\* The prompts of permissions and of documents that one run of appd raises.
PromptBounds == [permissions |-> <<2, 0>>, documents |-> <<0, 2>>, dialogs |-> <<1, 1>>]

\* The state of a service in the behaviours of the others.
MediaOff ==
    /\ task = 0 /\ process = 0 /\ sessions = 0 /\ foreground = 0 /\ next_token = 0
    /\ session = 0 /\ control = 0 /\ caller = 0 /\ ended = 0 /\ action_taken = 0
IntentsOff ==
    /\ pending = 0 /\ next_id = 0 /\ broker = 0 /\ installed = 0 /\ running = 0
    /\ accepted = 0 /\ taken = 0
DialogsOff ==
    /\ store = 0 /\ permission_disk = 0 /\ allow_once = 0 /\ prompt = 0 /\ next_prompt_id = 0
    /\ document = 0 /\ prompt_broker = 0 /\ dialog = 0 /\ prompt_running = 0 /\ exited = 0
    /\ acked = 0 /\ answered = 0
SetupOff == setup_disk = 0 /\ sshd = 0 /\ refresh = 0 /\ job = 0 /\ consent = 0
PairingOff ==
    /\ paired = 0 /\ authorized = 0 /\ trust = 0 /\ window = 0 /\ developer_mode = 0
    /\ serving = 0 /\ todo = 0

MCInit ==
    /\ scenario \in {"versions", "contents", "media", "intents", "setup", "pairing"}
                      \cup DOMAIN PromptBounds
    /\ Init
    /\ IF scenario = "media" THEN Media!Init ELSE MediaOff
    /\ IF scenario = "intents" THEN Intents!Init ELSE IntentsOff
    /\ IF scenario \in DOMAIN PromptBounds THEN Dialogs!Init ELSE DialogsOff
    /\ IF scenario = "setup" THEN Setup!Init ELSE SetupOff
    /\ IF scenario = "pairing" THEN Pairing!Init ELSE PairingOff

MCNext ==
    /\ \/ /\ scenario = "versions" /\ Next
          /\ \A a \in Apps, v \in Versions : dirs'[a][v] # OtherContent
          /\ UNCHANGED <<mediaVars, intentVars, promptVars, setupVars, pairingVars>>
       \/ /\ scenario = "contents" /\ Next
          /\ \A a \in Apps : dirs'[a][OtherVersion] = 0
          /\ UNCHANGED <<mediaVars, intentVars, promptVars, setupVars, pairingVars>>
       \/ /\ scenario = "media" /\ Media!Next
          /\ next_token' <= MaxLaunches + 1
          /\ UNCHANGED <<vars, intentVars, promptVars, setupVars, pairingVars>>
       \/ /\ scenario = "intents" /\ Intents!Next
          /\ UNCHANGED <<vars, mediaVars, promptVars, setupVars, pairingVars>>
       \/ /\ scenario \in DOMAIN PromptBounds /\ Dialogs!Next
          /\ next_prompt_id' <= PromptBounds[scenario][1] + 1
          /\ document'.next_prompt_id <= PromptBounds[scenario][2]
          /\ UNCHANGED <<vars, mediaVars, intentVars, setupVars, pairingVars>>
       \/ /\ scenario = "setup" /\ Setup!Next
          /\ UNCHANGED <<vars, mediaVars, intentVars, promptVars, pairingVars>>
       \/ /\ scenario = "pairing" /\ Pairing!Next
          /\ UNCHANGED <<vars, mediaVars, intentVars, promptVars, setupVars>>
    /\ UNCHANGED scenario

MCSpec == MCInit /\ [][MCNext]_mcvars

Symmetry == Permutations(Apps)

----------------------------------------------------------------------------
(* The properties of the instances; each is about its own scenario.        *)

\* A key reaches only the process that had the foreground when the key was
\* pressed, although the broker thread compares nothing but the application.
TakenByItsRuntime == scenario = "media" => Media!TypeOK /\ Media!TakenByItsRuntime

\* Exactly the messages whose acknowledgement reached the sender are delivered,
\* each once and in the order they were sent.
IntentsDelivered == scenario = "intents" => Intents!TypeOK /\ Intents!IntentsDelivered

\* An answer of the user is applied to the request that the dialog showed, and
\* what appd acknowledged is what it enforces and what a restart brings back.
DecisionsSound == scenario \in DOMAIN PromptBounds => Dialogs!DecisionsSound

\* poll hands a document only to the app for which the user chose it.
DocumentGoesToItsApp ==
    [][(scenario \in DOMAIN PromptBounds) => Dialogs!HandedToItsApp]_mcvars

\* What first-boot setup leaves behind at every crash point and every failed
\* write can be recovered, names one owner and opens Home only when complete;
\* and sshd runs only on a completed device whose owner asked for it.
SetupSound == scenario = "setup" => Setup!SetupSound

\* A computer that can log in can be seen and revoked, and its key is whole.
PairingSound == scenario = "pairing" => Pairing!TypeOK /\ Pairing!PairingSound

===============================================================================
