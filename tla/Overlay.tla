------------------------------- MODULE Overlay --------------------------------
(***************************************************************************)
(* The life of overlays, one after another, and of the sysmod they talk    *)
(* to: the overlay that reads its language and tries for two seconds to    *)
(* open a session on "seng", its main screen or the "sysmod missing" one,  *)
(* the choice of a language, the session it keeps until it is closed or    *)
(* killed, and the sessions of killed overlays, which count against the    *)
(* port until the server reaps them.                                       *)
(***************************************************************************)
EXTENDS Language

CONSTANTS
    MaxSlices,              \* attempts in kSengConnectMaxNs, kSliceNs apart
    kPortMaxSessions

ASSUME OverlayAssumption ==
    MaxSlices \in Nat \ {0} /\ kPortMaxSessions \in Nat \ {0}

VARIABLES
    sysmod,                 \* "off", "starting", "serving", or "stuck" unregistered
    leftover,               \* sessions of overlays that are gone, not yet reaped
    overlay,                \* "closed", "connecting", "main", "missing"
    waited,
    g_initialized,
    g_srv,                  \* the session: "none", "open", "dead" with its server
    handles                 \* session handles the overlay's process holds

sysmodVars == <<sysmod, leftover>>
clientVars == <<g_initialized, g_srv, handles>>
vars == <<sysmodVars, overlay, waited, clientVars, languageVars>>

Init ==
    /\ sysmod = "starting" /\ leftover = 0
    /\ overlay = "closed" /\ waited = 0
    /\ g_initialized = FALSE /\ g_srv = "none" /\ handles = 0
    /\ LanguageInit

-----------------------------------------------------------------------------
(* The sysmod. *)

(* __appInit: any service it needs may be missing, and then it aborts. *)
AppInitFails ==
    /\ sysmod = "starting" /\ sysmod' = "off"
    /\ UNCHANGED <<leftover, overlay, waited, clientVars, languageVars>>

Register ==
    /\ sysmod = "starting" /\ sysmod' = "serving"
    /\ UNCHANGED <<leftover, overlay, waited, clientVars, languageVars>>

(* registerService fails: the process sleeps for ever. *)
RegisterFails ==
    /\ sysmod = "starting" /\ sysmod' = "stuck"
    /\ UNCHANGED <<leftover, overlay, waited, clientVars, languageVars>>

(* The exception handler, or the user stops it: the kernel closes its end of
   every session. *)
SysmodExits ==
    /\ sysmod \in {"serving", "stuck"} /\ sysmod' = "off"
    /\ leftover' = 0
    /\ g_srv' = IF g_srv = "open" THEN "dead" ELSE g_srv
    /\ UNCHANGED <<overlay, waited, g_initialized, handles, languageVars>>

SysmodStarts ==
    /\ sysmod = "off" /\ sysmod' = "starting"
    /\ UNCHANGED <<leftover, overlay, waited, clientVars, languageVars>>

(* runForever: a session whose client is gone is closed. *)
Reap ==
    /\ sysmod = "serving" /\ leftover > 0
    /\ leftover' = leftover - 1
    /\ UNCHANGED <<sysmod, overlay, waited, clientVars, languageVars>>

-----------------------------------------------------------------------------
(* The overlay. *)

(* smGetService: while the port takes another session. *)
CanConnect ==
    sysmod = "serving" /\ leftover + (IF g_srv = "open" THEN 1 ELSE 0) < kPortMaxSessions

(* One step: libnx also asks the server a question, and its answer waits for a
   scan that goes on.  A scan ends, and until then nothing here can change but
   that the overlay is killed or the sysmod exits, as it also can before. *)
connect ==
    /\ CanConnect
    /\ g_srv' = "open" /\ handles' = handles + 1

(* main and initServices, in a new process: the language first. *)
Launch ==
    /\ overlay = "closed" /\ overlay' = "connecting"
    /\ load /\ waited' = 0
    /\ UNCHANGED <<sysmodVars, clientVars>>

(* Mutant of ConnectInTime: the session is not noted. *)
ConnectUnnoted ==
    /\ overlay = "connecting" /\ waited < MaxSlices
    /\ connect
    /\ overlay' = "main"
    /\ UNCHANGED <<sysmodVars, waited, g_initialized, languageVars>>

(* initializeTimed connects, and loadInitialGui opens the main screen. *)
ConnectInTime ==
    /\ overlay = "connecting" /\ waited < MaxSlices
    /\ connect /\ g_initialized' = TRUE
    /\ overlay' = "main"
    /\ UNCHANGED <<sysmodVars, waited, languageVars>>

(* Mutant of TryAgain: the time spent is not counted. *)
TryForEver ==
    /\ overlay = "connecting" /\ waited < MaxSlices
    /\ ~CanConnect
    /\ UNCHANGED <<sysmodVars, overlay, waited, clientVars, languageVars>>

TryAgain ==
    /\ overlay = "connecting" /\ waited < MaxSlices
    /\ ~CanConnect
    /\ waited' = waited + 1
    /\ UNCHANGED <<sysmodVars, overlay, clientVars, languageVars>>

(* The two seconds are over: SysmodMissingGui. *)
GiveUp ==
    /\ overlay = "connecting" /\ waited = MaxSlices
    /\ overlay' = "missing"
    /\ UNCHANGED <<sysmodVars, waited, clientVars, languageVars>>

(* SengClient::initialize: nothing to do, or a session, or an error. *)
initialize ==
    IF ~g_initialized /\ CanConnect
    THEN connect /\ g_initialized' = TRUE
    ELSE UNCHANGED clientVars

(* A detection or a scan: initialize, then a request on the session. *)
Call ==
    /\ overlay = "main" /\ ~saving
    /\ initialize
    /\ UNCHANGED <<sysmodVars, overlay, waited, languageVars>>

(* LanguageGui, opened from the main screen. *)
ChooseLanguage ==
    /\ overlay = "main" /\ ~saving
    /\ selectAndExit
    /\ UNCHANGED <<sysmodVars, overlay, waited, clientVars>>

FinishSave ==
    /\ saving
    /\ save
    /\ UNCHANGED <<sysmodVars, overlay, waited, clientVars>>

(* exitServices: finalize closes what initialize opened; the process ends. *)
Exit ==
    /\ overlay \in {"main", "missing"} /\ ~saving
    /\ overlay' = "closed"
    /\ leftover' = IF g_initialized /\ g_srv = "open" THEN leftover + 1 ELSE leftover
    /\ g_srv' = IF g_initialized THEN "none" ELSE g_srv
    /\ handles' = IF g_initialized THEN handles - 1 ELSE handles
    /\ g_initialized' = FALSE
    /\ UNCHANGED <<sysmod, waited, languageVars>>

(* The process is killed, in the middle of a save or not: the kernel closes
   its handles. *)
Killed ==
    /\ overlay # "closed" /\ overlay' = "closed"
    /\ IF saving THEN CutSave ELSE UNCHANGED languageVars
    /\ leftover' = IF g_srv = "open" THEN leftover + 1 ELSE leftover
    /\ g_srv' = "none" /\ handles' = 0 /\ g_initialized' = FALSE
    /\ UNCHANGED <<sysmod, waited>>

StartUp == ConnectInTime \/ TryAgain \/ GiveUp

Next ==
    \/ AppInitFails \/ Register \/ RegisterFails \/ SysmodExits \/ SysmodStarts \/ Reap
    \/ Launch \/ StartUp \/ Call \/ ChooseLanguage \/ FinishSave \/ Exit \/ Killed

Spec == Init /\ [][Next]_vars /\ WF_vars(StartUp)

-----------------------------------------------------------------------------
(* Each variable has its type. *)
TypeOK ==
    /\ sysmod \in {"off", "starting", "serving", "stuck"}
    /\ leftover \in 0 .. kPortMaxSessions
    /\ overlay \in {"closed", "connecting", "main", "missing"}
    /\ waited \in 0 .. MaxSlices
    /\ g_initialized \in BOOLEAN /\ g_srv \in {"none", "open", "dead"}
    /\ handles \in Nat /\ LanguageTypeOK

(* g_initialized tells whether the process holds a session, which is one and
   no more, whatever attempt succeeded and whenever the sysmod came and went:
   no session is lost, none is closed twice, and the port is never overbooked.
   The main screen always has one. *)
OneSession ==
    /\ handles = IF g_initialized THEN 1 ELSE 0
    /\ g_initialized <=> g_srv # "none"
    /\ g_initialized <=> overlay = "main"
    /\ leftover + (IF g_srv = "open" THEN 1 ELSE 0) <= kPortMaxSessions

(* The screen comes up: an overlay that starts shows its main screen or says
   that the sysmod is missing, even while the sysmod comes and goes. *)
StartUpEnds == overlay = "connecting" ~> overlay # "connecting"

(* An overlay starts in the language last chosen and saved, if there is one;
   a save that was cut short or did not fit on the card brings back its own
   choice or the default, and never the language before it. *)
ChoiceKept ==
    [][Launch =>
          /\ pending # "none" => g_current' \in {pending, "En"}
          /\ pending = "none" /\ kept # "none" => g_current' = kept]_vars
=============================================================================
