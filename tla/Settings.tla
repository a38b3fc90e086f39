------------------------------ MODULE Settings ------------------------------
(***************************************************************************)
(* The settings the dashboard may change (config.py): a JSON file on the   *)
(* agent's own volume, laid over the environment and read through a cache. *)
(*                                                                         *)
(* A request validates, reads, merges, writes <file>.tmp, renames it and   *)
(* sets the cache; no lock is held from the read to the write.  All        *)
(* requests write the same temporary file, so what matters of the file     *)
(* system is which of the two names the inode open in a request has.       *)
(*                                                                         *)
(* The table of settings is cut to one setting of each kind that has a     *)
(* rule of its own; values are the ones those rules tell apart.            *)
(***************************************************************************)
EXTENDS Integers

CONSTANTS
  Editors,      \* the threads that serve PUT /config
  SettingsCap   \* bound: requests, and likewise restarts of the agent

SettingsSane == SettingsCap \in Nat

Blank == "blank"         \* the empty text
Refused == "refused"     \* a ConfigError

Kind == [TERMINAL_ENABLED |-> "bool", BACKUP_INTERVAL_HOURS |-> "number",
         BACKUP_DIRS |-> "paths", AGENT_RUNTIME |-> "text"]
Live == {"TERMINAL_ENABLED", "BACKUP_INTERVAL_HOURS", "BACKUP_DIRS"}
Settings == DOMAIN Kind

\* What the process's environment says.
Environment == [k \in Settings |-> IF k = "BACKUP_INTERVAL_HOURS" THEN "12" ELSE Blank]

\* What a request may carry for each kind.
Raw == [bool |-> {"yes", "off"}, number |-> {"6.0", "six", Blank},
        paths |-> {"/mnt/b/", "/etc"}, text |-> {"docker"}]

(* _clean: the text the file will hold for a value, or Refused.            *)
CleanPath(raw) ==
  IF raw \in {"/mnt/b", "/mnt/b/"} THEN "/mnt/b" ELSE Refused
CleanNumber(raw) ==
  CASE raw = Blank -> Blank
    [] raw \in {"6", "6.0"} -> "6"
    [] raw \notin {Blank, "6", "6.0"} -> Refused
Clean(k, raw) ==
  CASE Kind[k] = "bool" -> IF raw \in {"1", "true", "yes", "on"} THEN "1" ELSE Blank
    [] Kind[k] = "number" -> CleanNumber(raw)
    [] Kind[k] = "paths" -> CleanPath(raw)
    [] Kind[k] = "text" -> raw

Values == {Blank, "1", "6", "/mnt/b"}

\* What the dictionary of a file holds: Blank for a key that is not there.
Stored == [Settings -> Values]
Empty == [k \in Settings |-> Blank]

NoFile == [is |-> "missing"]
Broken == [is |-> "broken"]   \* not JSON: empty, cut short, or two texts mixed
NotRead == [is |-> "unread"]

VARIABLES
  names,     \* what each of the two names leads to
  cache,    \* _cache
  edit,     \* where each request is
  changes,  \* its `cleaned`, a value for some of the keys
  merged,   \* its local `merged`
  open,     \* the name of the file it is writing
  asked, reboots,
  overlapped   \* history: two requests were between read and cache at once

settingVars == <<names, cache, edit, changes, merged, open, asked, reboots, overlapped>>

Quiet == [e \in Editors |-> "idle"]
Names == {"config.json", "config.json.tmp"}

Init ==
  /\ names = [n \in Names |-> NoFile]
  /\ cache = NotRead
  /\ edit = Quiet
  /\ changes = [e \in Editors |-> Empty]
  /\ merged = [e \in Editors |-> Empty]
  /\ open = [e \in Editors |-> "config.json.tmp"]
  /\ asked = 0
  /\ reboots = 0
  /\ overlapped = FALSE

-----------------------------------------------------------------------------
(* _load: a file that is missing or is not JSON counts as empty.           *)
Load == IF cache # NotRead THEN cache
        ELSE IF names["config.json"] \in {NoFile, Broken} THEN Empty
        ELSE names["config.json"]

(* get, current: the overlay first, then the environment.                  *)
Effective == [k \in Settings |-> IF Load[k] # Blank THEN Load[k] ELSE Environment[k]]

Read ==
  /\ cache = NotRead
  /\ cache' = Load
  /\ UNCHANGED <<names, edit, changes, merged, open, asked, reboots, overlapped>>

Goto(e, pc) == edit' = [edit EXCEPT ![e] = pc]

(* The checks of update: every key and every value, before anything else.  *)
Accepted(keys, raw) ==
  /\ keys \subseteq Live
  /\ \A k \in keys : Clean(k, raw[k]) # Refused

\* A value outside Values is never looked at: its key keeps "not asked".
Untouched == "untouched"
Cleaned(keys, raw) ==
  [k \in Settings |-> IF k \in keys THEN Clean(k, raw[k]) ELSE Untouched]

Ask(e) ==
  /\ edit[e] = "idle"
  /\ asked < SettingsCap
  /\ \E keys \in {{"TERMINAL_ENABLED"}, {"BACKUP_INTERVAL_HOURS", "BACKUP_DIRS"},
                  {"AGENT_RUNTIME"}} :
     \E raw \in {r \in [keys -> UNION {Raw[i] : i \in DOMAIN Raw}] :
                   \A k \in keys : r[k] \in Raw[Kind[k]]} :
       IF Accepted(keys, raw)
       THEN changes' = [changes EXCEPT ![e] = Cleaned(keys, raw)] /\ Goto(e, "read")
       ELSE UNCHANGED <<changes, edit>>
  /\ asked' = asked + 1
  /\ UNCHANGED <<names, cache, merged, open, reboots, overlapped>>

Named(e) == {k \in Settings : edit[e] # "idle" /\ changes[e][k] # Untouched}
Merge(before, new) == [k \in Settings |-> IF new[k] = Untouched THEN before[k] ELSE new[k]]

\* Between its read and the cache, which no lock protects.
InTheMiddle(e) == edit[e] \in {"open", "fill", "replace", "cache"}

(* `before = _load()` and what follows in memory; nothing to apply ends it. *)
ReadBefore(e) ==
  /\ edit[e] = "read"
  /\ cache' = Load
  /\ merged' = [merged EXCEPT ![e] = Merge(Load, changes[e])]
  /\ Goto(e, IF Merge(Load, changes[e]) = Load THEN "idle" ELSE "open")
  /\ overlapped' = (overlapped \/ \E other \in Editors \ {e} : InTheMiddle(other))
  /\ UNCHANGED <<names, changes, open, asked, reboots>>

(* write_text: opening truncates the file, or creates it.                  *)
Open_InPlace(e) ==
  /\ edit[e] = "open"
  /\ names' = [names EXCEPT !["config.json"] = Broken]
  /\ open' = [open EXCEPT ![e] = "config.json"]
  /\ Goto(e, "fill")
  /\ UNCHANGED <<cache, changes, merged, asked, reboots, overlapped>>
Open(e) ==
  /\ edit[e] = "open"
  /\ names' = [names EXCEPT !["config.json.tmp"] = Broken]
  /\ open' = [open EXCEPT ![e] = "config.json.tmp"]
  /\ Goto(e, "fill")
  /\ UNCHANGED <<cache, changes, merged, asked, reboots, overlapped>>

\* Over what another request has written in the same file, which may be longer.
Filled(old, new) == IF old = Broken THEN {new} ELSE {new, Broken}

Fill(e) ==
  /\ edit[e] = "fill"
  /\ \E text \in Filled(names[open[e]], merged[e]) : names' = [names EXCEPT ![open[e]] = text]
  /\ Goto(e, "replace")
  /\ UNCHANGED <<cache, changes, merged, open, asked, reboots, overlapped>>

(* A full disk: the request is refused, and the cache is left alone.       *)
FillFails(e) ==
  /\ edit[e] = "fill"
  /\ \E text \in {names[open[e]], Broken} : names' = [names EXCEPT ![open[e]] = text]
  /\ Goto(e, "idle")
  /\ UNCHANGED <<cache, changes, merged, open, asked, reboots, overlapped>>

(* The rename takes the file along for whoever else has it open; without a *)
(* file to rename the request is refused.                                  *)
Replace(e) ==
  /\ edit[e] = "replace"
  /\ IF names["config.json.tmp"] = NoFile
     THEN Goto(e, "idle") /\ UNCHANGED <<names, open>>
     ELSE /\ names' = [names EXCEPT !["config.json"] = names["config.json.tmp"],
                                  !["config.json.tmp"] = NoFile]
          /\ open' = [o \in Editors |->
                       IF edit[o] = "fill" /\ open[o] = "config.json.tmp"
                       THEN "config.json" ELSE open[o]]
          /\ Goto(e, "cache")
  /\ UNCHANGED <<cache, changes, merged, asked, reboots, overlapped>>

\* History: cache and file say the same, and nobody is about to change that.
SameAgain(e) == names["config.json"] = merged[e] /\ \A other \in Editors \ {e} : ~InTheMiddle(other)

(* _cache = merged.                                                        *)
SetCache(e) ==
  /\ edit[e] = "cache"
  /\ cache' = merged[e]
  /\ Goto(e, "idle")
  /\ overlapped' = (overlapped /\ ~SameAgain(e))
  /\ UNCHANGED <<names, changes, merged, open, asked, reboots>>

(* The agent restarts: requests and cache are gone.                        *)
AgentRestart ==
  /\ reboots < SettingsCap
  /\ cache' = NotRead
  /\ edit' = Quiet
  /\ reboots' = reboots + 1
  /\ UNCHANGED <<names, changes, merged, open, asked, overlapped>>

Request(e) == \/ ReadBefore(e) \/ Open(e) \/ Fill(e) \/ FillFails(e)
              \/ Replace(e) \/ SetCache(e)
Next == Read \/ AgentRestart \/ \E e \in Editors : Ask(e) \/ Request(e)

Spec == Init /\ [][Next]_settingVars

-----------------------------------------------------------------------------
(* Every variable has its type.                                            *)
TypeOK ==
  /\ names \in [Names -> Stored \cup {NoFile, Broken}]
  /\ cache \in Stored \cup {NotRead}
  /\ edit \in [Editors -> {"idle", "read", "open", "fill", "replace", "cache"}]
  /\ changes \in [Editors -> [Settings -> Values \cup {Untouched}]]
  /\ merged \in [Editors -> Stored]
  /\ open \in [Editors -> Names]
  /\ asked \in 0..SettingsCap
  /\ reboots \in 0..SettingsCap
  /\ overlapped \in BOOLEAN

(* What a setting is worth changes only by a request that named it and has *)
(* not been answered, whatever fails or restarts in the middle of it; only *)
(* requests that overlapped may take each other's changes or the file with *)
(* them, until file and cache have been made the same again.               *)
SettingKept ==
  \A k \in Settings :
    Effective'[k] # Effective[k] =>
      overlapped \/ overlapped' \/ \E e \in Editors : k \in Named(e)
SettingsKept == [][SettingKept]_settingVars

(* What keeps it true: a request in the middle has read, and as long as    *)
(* none overlapped it is the only one, the file says what the cache says   *)
(* until it is replaced, and what will replace it is what the request      *)
(* merged.                                                                 *)
Written == IF names["config.json"] \in {NoFile, Broken} THEN Empty ELSE names["config.json"]
Alone == \A e, other \in Editors : InTheMiddle(e) /\ InTheMiddle(other) => e = other
Agreed == \/ cache \in {NotRead, Written}
          \/ \E e \in Editors : edit[e] = "cache"
Follows(e) ==
  /\ InTheMiddle(e) => merged[e] = Merge(cache, changes[e])
  /\ edit[e] = "fill" => open[e] = "config.json.tmp" /\ names["config.json.tmp"] = Broken
  /\ edit[e] = "replace" => names["config.json.tmp"] = merged[e]
  /\ edit[e] = "cache" => names["config.json"] = merged[e]
Inductive ==
  /\ TypeOK
  /\ \A e \in Editors : InTheMiddle(e) => cache # NotRead
  /\ ~overlapped => Alone /\ Agreed /\ \A e \in Editors : Follows(e)
=============================================================================
