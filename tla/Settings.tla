------------------------------ MODULE Settings ------------------------------
(***************************************************************************)
(* settings/viper_config.go: sections of a configuration file, decoded     *)
(* into the program's structs, and decoded again when the file changes.    *)
(*                                                                         *)
(* Load reads the file and starts a goroutine that first has viper watch   *)
(* the file and then gives it the callback.  From then on viper's own      *)
(* goroutine reads the file and reloads the sections, while others call    *)
(* ReadSection.  Nothing is locked.  viper is external.                    *)
(***************************************************************************)
EXTENDS Naturals

CONSTANTS Key,       \* the keys of sections
          Pointer,   \* the structs that ReadSection is given
          KeyOf,     \* KeyOf[p]: the key p is given for
          MaxWrites, \* bound on the times the file is written
          Faulty,    \* bound: the versions that may be anything but whole, with
                     \* sections that all decode
          None       \* no struct registered, nothing decoded

\* What is assumed of the constants (SideBySide has it evaluated).
SettingsAssumption ==
  /\ KeyOf \in [Pointer -> Key] /\ MaxWrites \in Nat
  /\ None \notin Pointer /\ \A S \in SUBSET Key : S # None

VARIABLES
  file,      \* the file: its version, the keys it has no section for, and
             \* those whose section does not decode
  loaded,    \* vp: what viper last read
  watcher,   \* how far the watch goroutine is
  events,    \* the writes viper's goroutine has yet to notice
  reload,    \* the sections its reload has yet to decode, or None
  sections,  \* the struct that is reloaded for a key, or None
  value,     \* value[p]: the version p was decoded from last, or None as
             \* long as there is no such version, or after an error
  read,      \* the ReadSection calls, one for a struct at a time
  crashed,   \* the runtime found the map of sections used concurrently
  outcome,   \* history: how the handling of the latest event ended
  raced      \* history: keys that a ReadSection has since used older data of,
             \* or failed for

vars == <<file, loaded, watcher, events, reload, sections, value, read, crashed,
          outcome, raced>>

Contents == [version : 0..MaxWrites, whole : BOOLEAN, gone : SUBSET Key,
             bad : SUBSET Key]

TypeOK ==
  /\ file \in Contents /\ loaded \in Contents
  /\ watcher \in {"none", "starting", "watching", "on"}
  /\ events \in 0..MaxWrites
  /\ reload \in (SUBSET Key) \cup {None}
  /\ sections \in [Key -> Pointer \cup {None}]
  /\ value \in [Pointer -> 0..MaxWrites \cup {None}]
  /\ read \in [Pointer -> [pc : {"idle", "decode", "register"}, from : Contents]]
  /\ crashed \in BOOLEAN
  /\ outcome \in {"none", "unread", "unheard", "running", "cut", "complete"}
  /\ raced \in SUBSET Key

\* Load read the file without an error.
First == [version |-> 0, whole |-> TRUE, gone |-> {}, bad |-> {}]
NoRead == [pc |-> "idle", from |-> First]

\* The watch goroutine exists with WithWatchFile only.
Init ==
  /\ file = First /\ loaded = First
  /\ watcher \in {"none", "starting"}
  /\ events = 0
  /\ reload = None
  /\ sections = [k \in Key |-> None]
  /\ value = [p \in Pointer |-> None]
  /\ read = [p \in Pointer |-> NoRead]
  /\ crashed = FALSE
  /\ outcome = "none"
  /\ raced = {}

\* The struct that was as in old after the section for k was decoded into it:
\* without a section it is left alone, and no error is returned; with an error
\* the fields that decode are set, and the others left as they were.
Decoded(old, k, contents) ==
  IF k \in contents.gone THEN old
  ELSE IF k \in contents.bad THEN None ELSE contents.version

--------------------------------------------------------------------------
(* ReadSection                                                             *)

\* UnmarshalKey looks the key up in what viper has read.
BeginReadSection(p) ==
  /\ read[p].pc = "idle"
  /\ read' = [read EXCEPT ![p] = [pc |-> "decode", from |-> loaded]]
  /\ UNCHANGED <<file, loaded, watcher, events, reload, sections, value,
                 crashed, outcome, raced>>

Older(p) == IF read[p].from = loaded /\ KeyOf[p] \notin loaded.bad
            THEN raced ELSE raced \cup {KeyOf[p]}

\* An error is returned only at the end, after the struct was registered.
Decode(p) ==
  /\ read[p].pc = "decode"
  /\ value' = [value EXCEPT ![p] = Decoded(@, KeyOf[p], read[p].from)]
  /\ read' = [read EXCEPT ![p].pc = "register"]
  /\ raced' = Older(p)
  /\ UNCHANGED <<file, loaded, watcher, events, reload, sections, crashed, outcome>>

\* The first struct for a key is the one that is reloaded.  A reload that is
\* going on may come to the new section or not.
Register(p) ==
  LET k == KeyOf[p]
      new == sections[k] = None
  IN  /\ read[p].pc = "register"
      /\ sections' = IF new THEN [sections EXCEPT ![k] = p] ELSE sections
      /\ reload' \in {reload} \cup (IF new /\ reload # None THEN {reload \cup {k}}
                                    ELSE {})
      /\ read' = [read EXCEPT ![p] = NoRead]
      /\ raced' = Older(p)
      /\ UNCHANGED <<file, loaded, watcher, events, value, crashed, outcome>>

\* The map is written while a reload goes over it, or another call uses it.
MapRace(p) ==
  /\ read[p].pc = "register"
  /\ sections[KeyOf[p]] = None
  /\ reload # None \/ \E q \in Pointer \ {p} : read[q].pc = "register"
  /\ crashed' = TRUE
  /\ UNCHANGED <<file, loaded, watcher, events, reload, sections, value, read,
                 outcome, raced>>

--------------------------------------------------------------------------
(* watch, and viper's goroutine                                            *)

\* WatchConfig returns when viper watches the file.
WatchConfig ==
  /\ watcher = "starting"
  /\ watcher' = "watching"
  /\ UNCHANGED <<file, loaded, events, reload, sections, value, read, crashed,
                 outcome, raced>>

OnConfigChange ==
  /\ watcher = "watching"
  /\ watcher' = "on"
  /\ UNCHANGED <<file, loaded, events, reload, sections, value, read, crashed,
                 outcome, raced>>

\* viper reads the file, unless it is not whole, and calls back, if it has
\* been given the callback by then.
HandleEvent ==
  /\ events > 0
  /\ reload = None
  /\ events' = events - 1
  /\ loaded' = IF file.whole THEN file ELSE loaded
  /\ IF watcher = "on"
     THEN /\ reload' = {k \in Key : sections[k] # None}
          /\ outcome' = IF file.whole THEN "running" ELSE "unread"
     ELSE /\ UNCHANGED reload
          /\ outcome' = "unheard"
  /\ raced' = {}
  /\ UNCHANGED <<file, watcher, sections, value, read, crashed>>

\* Defect: the error of a section is logged and the loop goes on.
ReloadAnySection(k) ==
  /\ reload # None /\ k \in reload
  /\ value' = [value EXCEPT ![sections[k]] = Decoded(@, k, loaded)]
  /\ reload' = reload \ {k}
  /\ UNCHANGED <<file, loaded, watcher, events, sections, read, crashed, outcome,
                 raced>>

\* The sections are decoded in any order, until one does not decode.
ReloadSection(k) ==
  /\ reload # None /\ k \in reload
  /\ value' = [value EXCEPT ![sections[k]] = Decoded(@, k, loaded)]
  /\ IF k \in loaded.bad
     THEN reload' = None /\ outcome' = "cut"
     ELSE reload' = reload \ {k} /\ UNCHANGED outcome
  /\ UNCHANGED <<file, loaded, watcher, events, sections, read, crashed, raced>>

ReloadReturns ==
  /\ reload = {}
  /\ reload' = None
  /\ outcome' = IF outcome = "running" THEN "complete" ELSE outcome
  /\ UNCHANGED <<file, loaded, watcher, events, sections, value, read, crashed, raced>>

\* The file is written, perhaps not as a whole yet, so that viper gets nothing
\* from it.
WriteFile ==
  /\ file.version < MaxWrites
  /\ file' \in [version : {file.version + 1}, whole : BOOLEAN, gone : SUBSET Key,
                bad : SUBSET Key]
  /\ file'.gone \cap file'.bad = {}
  /\ ~file'.whole => file'.gone = {} /\ file'.bad = {}
  /\ file'.version \notin Faulty => file'.whole /\ file'.gone = {} /\ file'.bad = {}
  /\ events' = IF watcher \in {"watching", "on"} THEN events + 1 ELSE events
  /\ UNCHANGED <<loaded, watcher, reload, sections, value, read, crashed, outcome,
                 raced>>

Next ==
  /\ ~crashed
  /\ \/ \E p \in Pointer : BeginReadSection(p) \/ Decode(p) \/ Register(p) \/ MapRace(p)
     \/ WatchConfig \/ OnConfigChange \/ HandleEvent \/ ReloadReturns \/ WriteFile
     \/ \E k \in Key : ReloadSection(k)

Spec == Init /\ [][Next]_vars

--------------------------------------------------------------------------
(* Properties                                                              *)

(* When viper has noticed every write, and the latest reload went through, *)
(* the struct registered for a key was decoded from the file as it is, if  *)
(* that has the section (reload, lines 112 to 121): whatever failed, was   *)
(* missed or was decoded from an older file before, a reload that goes     *)
(* through puts right.  Until then it is not so when the file was not      *)
(* whole, some section did not decode, viper had no callback yet (watch,   *)
(* lines 126 and 127), or a ReadSection under way during the reload used   *)
(* what viper had read before (lines 99 to 101), or returned an error.     *)
QuietSectionsAreFresh ==
  (events = 0 /\ outcome = "complete") =>
    \A k \in Key \ (raced \cup file.gone) :
      sections[k] # None => value[sections[k]] = file.version

--------------------------------------------------------------------------
(* The inductive invariant behind it.                                       *)

\* A struct is registered for its own key, and a reload is of registered ones.
SectionInv ==
  /\ \A k \in Key : sections[k] # None => KeyOf[sections[k]] = k
  /\ reload # None => \A k \in reload : sections[k] # None

\* A call that is about to register a struct has decoded it.
ReadInv ==
  \A p \in Pointer :
    /\ read[p].pc = "register"
    /\ sections[KeyOf[p]] = None
    /\ KeyOf[p] \notin read[p].from.bad \cup read[p].from.gone
    => value[p] = read[p].from.version

\* The latest reload that viper's goroutine was called back for began with
\* the whole file, and it hears of the writes since.
HeardInv ==
  /\ events <= file.version
  /\ outcome = "complete" => reload = None
  /\ outcome \in {"running", "complete"} =>
       /\ watcher = "on"
       /\ events = 0 => loaded = file

\* What a reload is done with was decoded from what viper read.
DecodedInv ==
  outcome \in {"running", "complete"} =>
    \A k \in Key \ (raced \cup loaded.gone) :
      (sections[k] # None /\ ~(reload # None /\ k \in reload))
        => value[sections[k]] = loaded.version

IInv == TypeOK /\ SectionInv /\ ReadInv /\ HeardInv /\ DecodedInv
=============================================================================
