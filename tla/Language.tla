------------------------------- MODULE Language -------------------------------
(***************************************************************************)
(* The overlay's language (Language.cpp): read from config.ini when the    *)
(* overlay starts, chosen on LanguageGui and written at once, over the old *)
(* file, which is emptied first.  A library of actions of Overlay.         *)
(***************************************************************************)
EXTENDS Integers, Sequences

CONSTANTS
    NoFile,
    MaxLines                \* of a config.ini the user may have written

Lang == {"En", "PtBr"}

(* A line is lang= with a value read as a language, lang= with another value,
   or something else. *)
Line == Lang \cup {"unknown", "other"}

Contents == UNION {[1 .. n -> Line] : n \in 0 .. MaxLines}

ASSUME LanguageAssumption == MaxLines \in Nat \ {0} /\ NoFile \notin Contents

Configs == {NoFile} \cup Contents

VARIABLES
    g_current,
    config,                 \* the lines of config.ini, or NoFile
    saving,                 \* between save's fopen and its fclose
    kept,                   \* ghost: the last language saved in full, or "none"
    pending                 \* ghost: the language of a save begun since, or "none"

languageVars == <<g_current, config, saving, kept, pending>>

LanguageInit ==
    /\ g_current = "En" /\ config \in Configs
    /\ saving = FALSE /\ kept = "none" /\ pending = "none"

LanguageTypeOK ==
    /\ g_current \in Lang /\ config \in Configs
    /\ saving \in BOOLEAN
    /\ {kept, pending} \subseteq Lang \cup {"none"}

(* The language config.ini names, if it names one: the first line with lang=
   decides, when its value is a language. *)
Named ==
    IF config = NoFile THEN {}
    ELSE {config[k] : k \in {j \in DOMAIN config :
                               /\ config[j] # "other"
                               /\ \A n \in 1 .. j - 1 : config[n] = "other"}} \cap Lang

(* load, in a new process, whose g_current is En. *)
load ==
    /\ g_current' \in IF Named = {} THEN {"En"} ELSE Named
    /\ UNCHANGED <<config, saving, kept, pending>>

(* Mutant of selectAndExit: the file is saved before the choice is taken. *)
SaveThenSelect ==
    /\ pending' \in Lang
    /\ config' = <<>> /\ saving' = TRUE
    /\ UNCHANGED <<g_current, kept>>

(* setCurrent, then save up to its fopen, which fails or empties the file. *)
selectAndExit ==
    /\ g_current' \in Lang
    /\ \/ UNCHANGED <<config, saving, kept, pending>>
       \/ /\ config' = <<>> /\ saving' = TRUE
          /\ pending' = g_current' /\ UNCHANGED kept

(* A kill in the middle of the save, or a card that is full: the line has
   reached the card in full, in part, or not at all. *)
CutSave ==
    /\ config' \in {<<>>, <<"other">>, <<"unknown">>, <<g_current>>}
    /\ saving' = FALSE
    /\ UNCHANGED <<g_current, kept, pending>>

(* The rest of save: the line is written, or is not and nobody looks. *)
save ==
    \/ /\ config' = <<g_current>> /\ saving' = FALSE
       /\ kept' = pending /\ pending' = "none"
       /\ UNCHANGED g_current
    \/ CutSave
=============================================================================
