---------------------------- MODULE OverlayProofs -----------------------------
(***************************************************************************)
(* The overlay's session and its language, for every number of attempts,   *)
(* every limit of the port and every length of config.ini.                 *)
(***************************************************************************)
EXTENDS Overlay, TLAPS

(* The session: OneSession needs no more than its variables' types. *)
SessionType ==
    /\ leftover \in Nat /\ handles \in Nat
    /\ g_initialized \in BOOLEAN /\ g_srv \in {"none", "open", "dead"}

SessionInv == SessionType /\ OneSession

(* The language: whose a save in progress is, and what lies on the card since
   the last one. *)
SaveOf == saving => overlay = "main" /\ pending = g_current

OnCard ==
    /\ g_current \in Lang
    /\ kept \in Lang \cup {"none"} /\ pending \in Lang \cup {"none"}
    /\ pending # "none" => config \in {<<>>, <<"other">>, <<"unknown">>, <<pending>>}
    /\ pending = "none" /\ kept # "none" => config = <<kept>>

LanguageInv == saving \in BOOLEAN /\ SaveOf /\ OnCard

(* A file of one line names the language of that line. *)
LEMMA OneLineNamed ==
    ASSUME NEW line \in Line, config = <<line>>
    PROVE  Named = {line} \cap Lang
<1>1. DOMAIN config = {1} /\ config[1] = line
  OBVIOUS
<1>2. config # NoFile
  <2>1. config \in [1 .. 1 -> Line] /\ 1 \in 0 .. MaxLines
    BY LanguageAssumption, SMT
  <2> QED
    BY <2>1, LanguageAssumption DEF Contents
<1> DEFINE deciding == {j \in DOMAIN config :
                          /\ config[j] # "other"
                          /\ \A n \in 1 .. j - 1 : config[n] = "other"}
<1>3. CASE line = "other"
  <2>1. deciding = {}
    BY <1>1, <1>3
  <2> QED
    BY <1>2, <1>3, <2>1 DEF Named, Lang
<1>4. CASE line # "other"
  <2>1. deciding = {1}
    BY <1>1, <1>4, SMT
  <2> HIDE DEF deciding
  <2>2. {config[k] : k \in deciding} = {line}
    BY <1>1, <2>1
  <2> QED
    BY <1>2, <2>2 DEF Named, deciding
<1> QED
  BY <1>3, <1>4

(* An empty file names none. *)
LEMMA EmptyNamed ==
    ASSUME config = <<>>
    PROVE  Named = {}
BY SMT DEF Named

-----------------------------------------------------------------------------
(* Every step keeps the session's part: a session is opened only by a process
   that holds none, and closed with it. *)
LEMMA SessionStep == SessionInv /\ [Next]_vars => SessionInv'
<1> SUFFICES ASSUME SessionInv, [Next]_vars PROVE SessionInv'
  OBVIOUS
<1> USE OverlayAssumption DEF SessionInv, SessionType, OneSession, sysmodVars, clientVars
<1>1. CASE AppInitFails \/ Register \/ RegisterFails \/ SysmodStarts
  BY <1>1, SMT DEF AppInitFails, Register, RegisterFails, SysmodStarts
<1>2. CASE SysmodExits
  BY <1>2, SMT DEF SysmodExits
<1>3. CASE Reap
  BY <1>3, SMT DEF Reap
<1>4. CASE Launch
  BY <1>4, SMT DEF Launch
<1>5. CASE ConnectInTime
  BY <1>5, SMT DEF ConnectInTime, connect, CanConnect
<1>6. CASE TryAgain \/ GiveUp
  BY <1>6, SMT DEF TryAgain, GiveUp
<1>7. CASE Call
  BY <1>7, SMT DEF Call, initialize
<1>8. CASE ChooseLanguage \/ FinishSave
  BY <1>8, SMT DEF ChooseLanguage, FinishSave
<1>9. CASE Exit \/ Killed
  <2>1. /\ g_initialized' = FALSE /\ g_srv' = "none" /\ overlay' = "closed"
    BY <1>9 DEF Exit, Killed
  <2>2. handles' = 0
    BY <1>9 DEF Exit, Killed
  <2>3. leftover' = IF g_srv = "open" THEN leftover + 1 ELSE leftover
    BY <1>9 DEF Exit, Killed
  <2>4. leftover' \in Nat /\ leftover' <= kPortMaxSessions
    BY <2>3, SMT
  <2>5. leftover' + (IF g_srv' = "open" THEN 1 ELSE 0) <= kPortMaxSessions
    <3>1. (IF g_srv' = "open" THEN 1 ELSE 0) = 0
      BY <2>1
    <3>2. \A n, m \in Nat : n <= kPortMaxSessions /\ m = 0 => n + m <= kPortMaxSessions
      BY SMT
    <3> QED
      BY <2>4, <3>1, <3>2, 0 \in Nat
  <2> QED
    BY <2>1, <2>2, <2>4, <2>5, 0 \in Nat
<1>10. CASE UNCHANGED vars
  BY <1>10, SMT DEF vars
<1> QED
  BY <1>1, <1>2, <1>3, <1>4, <1>5, <1>6, <1>7, <1>8, <1>9, <1>10
     DEF Next, StartUp

(* A process has one session or none, and g_initialized says which. *)
THEOREM OneSessionAlways == Spec => []OneSession
<1>1. Init => SessionInv
  <2> SUFFICES ASSUME Init PROVE SessionInv
    OBVIOUS
  <2>1. g_initialized = FALSE /\ g_srv = "none" /\ overlay = "closed" /\ handles = 0
    BY DEF Init
  <2>2. leftover = 0 /\ 0 <= kPortMaxSessions
    BY OverlayAssumption, SMT DEF Init
  <2>3. leftover + (IF g_srv = "open" THEN 1 ELSE 0) <= kPortMaxSessions
    BY <2>1, <2>2, OverlayAssumption, SMT
  <2> QED
    BY <2>1, <2>2, <2>3, 0 \in Nat DEF SessionInv, SessionType, OneSession
<1>2. SessionInv => OneSession
  BY DEF SessionInv
<1> QED
  BY <1>1, <1>2, SessionStep, PTL DEF Spec

-----------------------------------------------------------------------------
(* What a save that is cut leaves is empty, of one line that names no
   language, or whole. *)
LEMMA CutKeeps ==
    ASSUME LanguageInv, saving, CutSave
    PROVE  OnCard' /\ saving' = FALSE
<1>1. pending = g_current /\ pending # "none"
  BY DEF LanguageInv, SaveOf, OnCard, Lang
<1> QED
  BY <1>1 DEF LanguageInv, OnCard, CutSave

(* Every step keeps the language's part. *)
LEMMA LanguageStep == LanguageInv /\ [Next]_vars => LanguageInv'
<1> SUFFICES ASSUME LanguageInv, [Next]_vars PROVE LanguageInv'
  OBVIOUS
<1>1. CASE Launch
  <2>1. g_current' \in Lang
    BY <1>1 DEF Launch, load, Named, Lang
  <2>2. ~saving
    BY <1>1 DEF Launch, LanguageInv, SaveOf
  <2> QED
    BY <1>1, <2>1, <2>2 DEF Launch, load, LanguageInv, SaveOf, OnCard
<1>2. CASE ChooseLanguage
  <2>1. overlay = "main" /\ overlay' = "main" /\ ~saving /\ selectAndExit
    BY <1>2 DEF ChooseLanguage
  <2>2. CASE UNCHANGED <<config, saving, kept, pending>>
    BY <2>1, <2>2 DEF selectAndExit, LanguageInv, SaveOf, OnCard
  <2>3. CASE config' = <<>> /\ saving' = TRUE /\ pending' = g_current' /\ UNCHANGED kept
    <3>1. g_current' # "none"
      BY <2>1 DEF selectAndExit, Lang
    <3> QED
      BY <2>1, <2>3, <3>1 DEF selectAndExit, LanguageInv, SaveOf, OnCard
  <2> QED
    BY <2>1, <2>2, <2>3 DEF selectAndExit
<1>3. CASE FinishSave
  <2>1. saving /\ save /\ overlay' = overlay
    BY <1>3 DEF FinishSave
  <2>2. CASE CutSave
    BY <2>1, <2>2, CutKeeps DEF LanguageInv, SaveOf
  <2>3. CASE ~CutSave
    BY <2>1, <2>3 DEF save, LanguageInv, SaveOf, OnCard
  <2> QED
    BY <2>2, <2>3
<1>4. CASE Killed
  <2>1. CASE saving
    BY <1>4, <2>1, CutKeeps DEF Killed, LanguageInv, SaveOf
  <2>2. CASE ~saving
    BY <1>4, <2>2 DEF Killed, languageVars, LanguageInv, SaveOf, OnCard
  <2> QED
    BY <2>1, <2>2
<1>5. CASE Exit
  BY <1>5 DEF Exit, languageVars, LanguageInv, SaveOf, OnCard
<1>6. CASE StartUp
  <2>1. overlay = "connecting" /\ UNCHANGED languageVars
    BY <1>6 DEF StartUp, ConnectInTime, TryAgain, GiveUp
  <2> QED
    BY <2>1 DEF languageVars, LanguageInv, SaveOf, OnCard
<1>7. CASE UNCHANGED <<overlay, languageVars>>
  BY <1>7 DEF languageVars, LanguageInv, SaveOf, OnCard
<1>8. AppInitFails \/ Register \/ RegisterFails \/ SysmodExits \/ SysmodStarts \/ Reap
      \/ Call \/ UNCHANGED vars => UNCHANGED <<overlay, languageVars>>
  BY DEF AppInitFails, Register, RegisterFails, SysmodExits, SysmodStarts, Reap, Call, vars
<1> QED
  BY <1>1, <1>2, <1>3, <1>4, <1>5, <1>6, <1>7, <1>8 DEF Next

(* An overlay starts in the language last saved; after a save that was cut, in
   that save's or the default. *)
THEOREM ChoiceKeptAlways == Spec => ChoiceKept
<1> DEFINE Kept == Launch =>
                     /\ pending # "none" => g_current' \in {pending, "En"}
                     /\ pending = "none" /\ kept # "none" => g_current' = kept
<1>1. LanguageInv => Kept
  <2> SUFFICES ASSUME LanguageInv, Launch
               PROVE  /\ pending # "none" => g_current' \in {pending, "En"}
                      /\ pending = "none" /\ kept # "none" => g_current' = kept
    OBVIOUS
  <2>1. g_current' \in IF Named = {} THEN {"En"} ELSE Named
    BY DEF Launch, load
  <2>2. \A l \in Line : config = <<l>> => Named = {l} \cap Lang
    BY OneLineNamed
  <2>3. ASSUME pending # "none" PROVE g_current' \in {pending, "En"}
    <3>1. pending \in Lang /\ config \in {<<>>, <<"other">>, <<"unknown">>, <<pending>>}
      BY <2>3 DEF LanguageInv, OnCard
    <3>2. Named \subseteq {pending}
      BY <3>1, <2>2, EmptyNamed DEF Line, Lang
    <3> QED
      BY <2>1, <3>2
  <2>4. ASSUME pending = "none", kept # "none" PROVE g_current' = kept
    <3>1. kept \in Lang /\ config = <<kept>>
      BY <2>4 DEF LanguageInv, OnCard
    <3>2. Named = {kept}
      BY <3>1, <2>2 DEF Line
    <3> QED
      BY <2>1, <3>2
  <2> QED
    BY <2>3, <2>4
<1>2. Init => LanguageInv
  BY DEF Init, LanguageInit, LanguageInv, SaveOf, OnCard, Lang
<1>3. [][Kept]_vars => ChoiceKept
  BY PTL DEF ChoiceKept
<1> QED
  BY <1>1, <1>2, <1>3, LanguageStep, PTL DEF Spec
=============================================================================
