------------------------- MODULE WhatIsKept_proofs --------------------------
(***************************************************************************)
(* That a saved setting stays, a file request does what it was asked and   *)
(* to the text it found, an alert is not pushed out by less, a project     *)
(* runs what is written, a kept scan is true of the disk and a download is *)
(* complete, whatever the constants: for each of these components an       *)
(* invariant that its steps keep, and for the captures and sweeps of       *)
(* HostServices_proofs too.  The names below are those of its variables    *)
(* (HostServices gives them by number).                                    *)
(***************************************************************************)
EXTENDS HostServices, FiniteSetTheorems, SequenceTheorems, TLAPS

(* A step is one of the component that is at work.                         *)
LEMMA OneAtWork ==
  ASSUME [Next]_vars
  PROVE  /\ which' = which
         /\ \/ UNCHANGED vars
            \/ /\ which = "settings" => S!Next
               /\ which = "disk" => D!Next
               /\ which = "capture" => C!Next
               /\ which = "files" => H!Next
               /\ which = "detector" => W!Next
               /\ which = "terminal" => T!Next
               /\ which = "log" => L!Next
               /\ which = "folder" => F!Next
               /\ which = "projects" => P!Next
               /\ which = "lan" => N!Next
               /\ which = "cache" => A!Next
               /\ which = "health" => K!Next
               /\ which = "packets" => O!Next
               /\ which = "clock" => B!Next
               /\ which = "links" => G!Next
               /\ which = "stack" => Q!Next
               /\ which = "upgrade" => X!Next
               /\ which = "ping" => Y!Next
               /\ which = "bar" => U!Next
               /\ which = "connections" => V!Next
  BY DEF Next, SRest, DRest, CRest, HRest, WRest, TRest, LRest, FRest, PRest, NRest,
         ARest, KRest, ORest, BRest, GRest, QRest, XRest, YRest, URest, VRest, vars

-----------------------------------------------------------------------------
(* The settings (config.py).                                               *)
setNames == v1
setCache == v2
setEdit == v3
setChanges == v4
setMerged == v5
setOpen == v6
setAsked == v7
setReboots == v8
setOverlapped == v9
USE DEF setNames, setCache, setEdit, setChanges, setMerged, setOpen, setAsked,
        setReboots, setOverlapped

(* No dictionary of settings is one of the marks for what is not one.      *)
LEMMA SettingsMarksApart == {S!NoFile, S!Broken, S!NotRead} \cap S!Stored = {}
      /\ S!NoFile # S!Broken /\ S!Broken # S!NotRead /\ S!NoFile # S!NotRead
<1>1. \A f \in S!Stored : DOMAIN f = S!Settings /\ "is" \notin S!Settings
  BY DEF S!Stored, S!Settings, S!Kind
<1>2. DOMAIN S!NoFile = {"is"} /\ DOMAIN S!Broken = {"is"} /\ DOMAIN S!NotRead = {"is"}
  BY DEF S!NoFile, S!Broken, S!NotRead
<1>3. S!NoFile.is # S!Broken.is /\ S!Broken.is # S!NotRead.is /\ S!NoFile.is # S!NotRead.is
  BY DEF S!NoFile, S!Broken, S!NotRead
<1> QED  BY <1>1, <1>2, <1>3

(* The settings of a new installation.                                     *)
LEMMA SettingsEmptyStored == S!Empty \in S!Stored
  BY DEF S!Empty, S!Stored, S!Values, S!Blank

(* What load() returns, whatever is in the file.                           *)
LEMMA SettingsLoadStored == S!TypeOK => S!Load \in S!Stored
<1> USE SettingsEmptyStored
<1>1. "config.json" \in S!Names
  BY DEF S!Names
<1> QED  BY <1>1 DEF S!TypeOK, S!Load

(* A file with the changes of a request.                                   *)
LEMMA SettingsMergeStored ==
  ASSUME NEW before \in S!Stored, NEW new \in [S!Settings -> S!Values \cup {S!Untouched}]
  PROVE  S!Merge(before, new) \in S!Stored
  BY DEF S!Merge, S!Stored

(* What _clean returns for a setting that may change.                      *)
LEMMA SettingsCleanValue ==
  ASSUME NEW k \in S!Live, NEW raw
  PROVE  k \in S!Settings /\ S!Clean(k, raw) \in S!Values \cup {S!Refused}
<1>1. k \in S!Settings /\ S!Kind[k] \in {"bool", "number", "paths"}
  BY DEF S!Live, S!Settings, S!Kind
<1>2. CASE S!Kind[k] = "bool"
  BY <1>1, <1>2 DEF S!Clean, S!Values, S!Blank
<1>3. CASE S!Kind[k] = "number"
  BY <1>1, <1>3 DEF S!Clean, S!CleanNumber, S!Values, S!Blank
<1>4. CASE S!Kind[k] = "paths"
  BY <1>1, <1>4 DEF S!Clean, S!CleanPath, S!Values
<1> QED  BY <1>1, <1>2, <1>3, <1>4

(* What is left of a request whose settings are all accepted.              *)
LEMMA SettingsCleanedType ==
  ASSUME NEW keys, NEW raw, S!Accepted(keys, raw)
  PROVE  S!Cleaned(keys, raw) \in [S!Settings -> S!Values \cup {S!Untouched}]
  BY SettingsCleanValue DEF S!Accepted, S!Cleaned

(* At the start nothing has been saved.                                    *)
LEMMA SettingsInit == S!Init => S!Inductive
<1> SUFFICES ASSUME S!Init PROVE S!Inductive
  OBVIOUS
<1> USE DEF S!Init
<1>1. S!TypeOK
  <2>1. S!Empty \in [S!Settings -> S!Values \cup {S!Untouched}]
    BY SettingsEmptyStored DEF S!Stored
  <2>2. setNames \in [S!Names -> S!Stored \cup {S!NoFile, S!Broken}]
    OBVIOUS
  <2>3. setAsked \in 0..SettingsCap /\ setReboots \in 0..SettingsCap
    BY SettingsAssumption DEF S!SettingsSane
  <2>4. setOpen \in [Editors -> S!Names] /\ setOverlapped \in BOOLEAN
        /\ setCache \in S!Stored \cup {S!NotRead}
    BY DEF S!Names
  <2>5. setEdit \in [Editors -> {"idle", "read", "open", "fill", "replace", "cache"}]
    BY DEF S!Quiet
  <2>6. setMerged \in [Editors -> S!Stored]
    BY SettingsEmptyStored
  <2> QED  BY <2>1, <2>2, <2>3, <2>4, <2>5, <2>6 DEF S!TypeOK
<1>2. \A e \in Editors : ~S!InTheMiddle(e)
  BY DEF S!Quiet, S!InTheMiddle
<1>3. \A e \in Editors : S!Follows(e)
  BY <1>2 DEF S!Follows, S!InTheMiddle
<1> QED  BY <1>1, <1>2, <1>3 DEF S!Inductive, S!Alone, S!Agreed

(* A request is cleaned, and refused as a whole if one value is.           *)
LEMMA SettingsAskKeeps ==
  ASSUME S!Inductive, NEW e \in Editors, S!Ask(e)
  PROVE  S!Inductive' /\ S!SettingKept
<1> USE DEF S!Inductive
<1>1. /\ setEdit[e] = "idle" /\ setAsked' \in 0..SettingsCap
      /\ UNCHANGED <<setNames, setCache, setMerged, setOpen, setReboots, setOverlapped>>
  BY SettingsAssumption DEF S!Ask, S!TypeOK, S!SettingsSane
<1>2. CASE UNCHANGED <<setChanges, setEdit>>
  BY <1>1, <1>2 DEF S!TypeOK, S!InTheMiddle, S!Alone, S!Agreed, S!Follows, S!Written, S!Load,
           S!Effective, S!SettingKept
<1>3. CASE \E keys, raw : S!Accepted(keys, raw)
           /\ setChanges' = [setChanges EXCEPT ![e] = S!Cleaned(keys, raw)] /\ S!Goto(e, "read")
  <2>1. PICK keys, raw :
             S!Accepted(keys, raw)
             /\ setChanges' = [setChanges EXCEPT ![e] = S!Cleaned(keys, raw)] /\ S!Goto(e, "read")
    BY <1>3
  <2>2. setChanges' \in [Editors -> [S!Settings -> S!Values \cup {S!Untouched}]]
    BY <2>1, SettingsCleanedType DEF S!TypeOK
  <2>3. /\ setEdit' \in [Editors -> {"idle", "read", "open", "fill", "replace", "cache"}]
        /\ setEdit'[e] = "read"
        /\ \A x \in Editors \ {e} : setEdit'[x] = setEdit[x] /\ setChanges'[x] = setChanges[x]
    BY <2>1 DEF S!Goto, S!TypeOK
  <2>4. S!TypeOK'
    BY <1>1, <2>2, <2>3 DEF S!TypeOK
  <2>5. /\ \A x \in Editors : S!InTheMiddle(x)' <=> S!InTheMiddle(x)
        /\ \A x \in Editors : S!InTheMiddle(x)' => x # e
    BY <1>1, <2>3 DEF S!InTheMiddle
  <2>6. S!Agreed => S!Agreed'
    BY <1>1, <2>3 DEF S!Agreed, S!Written
  <2>7. \A x \in Editors : S!Follows(x) => S!Follows(x)'
    BY <1>1, <2>3, <2>5 DEF S!Follows
  <2> QED  BY <1>1, <2>4, <2>5, <2>6, <2>7 DEF S!Alone, S!Load, S!Effective, S!SettingKept
<1> QED  BY <1>2, <1>3 DEF S!Ask

(* Reading through the cache leaves what is read.                          *)
LEMMA SettingsSameLoad ==
  ASSUME S!TypeOK, UNCHANGED <<setNames>>, setCache' = S!Load
  PROVE  S!Load' = S!Load
  BY SettingsLoadStored, SettingsMarksApart DEF S!Load

(* The settings are read, from the cache or the file.                      *)
LEMMA SettingsReadKeeps ==
  ASSUME S!Inductive, S!Read
  PROVE  S!Inductive' /\ S!SettingKept
<1> USE DEF S!Inductive, S!Read
<1>1. S!Load \in S!Stored /\ S!Load = S!Written /\ S!Load' = S!Load
  BY SettingsLoadStored, SettingsSameLoad DEF S!Load, S!Written
<1>2. S!TypeOK'
  BY <1>1 DEF S!TypeOK
<1>3. \A e \in Editors : ~S!InTheMiddle(e) /\ ~S!InTheMiddle(e)' /\ S!Follows(e)'
  BY DEF S!InTheMiddle, S!Follows
<1> QED  BY <1>1, <1>2, <1>3 DEF S!Alone, S!Agreed, S!Written, S!Effective, S!SettingKept

(* A request reads what it merges its changes with.                        *)
LEMMA SettingsReadBeforeKeeps ==
  ASSUME S!Inductive, NEW e \in Editors, S!ReadBefore(e)
  PROVE  S!Inductive' /\ S!SettingKept
<1> USE DEF S!Inductive
<1>1. /\ setEdit[e] = "read" /\ setCache' = S!Load /\ S!Load \in S!Stored /\ S!Load' = S!Load
      /\ setMerged' = [setMerged EXCEPT ![e] = S!Merge(S!Load, setChanges[e])]
      /\ UNCHANGED <<setNames, setChanges, setOpen, setAsked, setReboots>>
  BY SettingsLoadStored, SettingsSameLoad DEF S!ReadBefore
<1>2. S!Merge(S!Load, setChanges[e]) \in S!Stored
  BY <1>1, SettingsMergeStored DEF S!TypeOK
<1>3. /\ setEdit' \in [Editors -> {"idle", "read", "open", "fill", "replace", "cache"}]
      /\ setEdit'[e] \in {"idle", "open"}
      /\ setMerged'[e] = S!Merge(S!Load, setChanges[e])
      /\ \A x \in Editors \ {e} : setEdit'[x] = setEdit[x] /\ setMerged'[x] = setMerged[x]
  BY <1>1 DEF S!ReadBefore, S!Goto, S!TypeOK
<1>4. setOverlapped' \in BOOLEAN
  BY DEF S!ReadBefore, S!TypeOK
<1>5. S!TypeOK'
  BY <1>1, <1>2, <1>3, <1>4 DEF S!TypeOK
<1>6. setCache' # S!NotRead
  BY <1>1, SettingsMarksApart
<1>7. ~setOverlapped' => ~setOverlapped /\ \A x \in Editors \ {e} : ~S!InTheMiddle(x)'
  BY <1>3 DEF S!ReadBefore, S!InTheMiddle
<1>8. ~setOverlapped' => S!Alone' /\ \A x \in Editors : S!Follows(x)'
  BY <1>1, <1>3, <1>7 DEF S!Alone, S!Follows, S!InTheMiddle
<1>9. ~setOverlapped' => S!Agreed'
  <2> SUFFICES ASSUME ~setOverlapped' PROVE setCache' = S!Written'
    BY DEF S!Agreed
  <2>1. S!Agreed /\ ~\E x \in Editors : setEdit[x] = "cache"
    BY <1>1, <1>3, <1>7 DEF S!InTheMiddle
  <2> QED  BY <1>1, <2>1 DEF S!Agreed, S!Load, S!Written
<1> QED  BY <1>1, <1>5, <1>6, <1>8, <1>9 DEF S!Effective, S!SettingKept

(* What a request does to the files, before it sets the cache.             *)
LEMMA SettingsFilesKeep ==
  ASSUME S!Inductive, NEW e \in Editors, S!InTheMiddle(e), UNCHANGED <<setCache, setChanges,
         setMerged, setAsked, setReboots, setOverlapped>>
  PROVE  S!SettingKept
  BY DEF S!Inductive, S!Load, S!Effective, S!SettingKept

(* The temporary file is opened.                                           *)
LEMMA SettingsOpenKeeps ==
  ASSUME S!Inductive, NEW e \in Editors, S!Open(e)
  PROVE  S!Inductive' /\ S!SettingKept
<1> USE DEF S!Inductive
<1>1. /\ setEdit[e] = "open" /\ S!InTheMiddle(e)
      /\ UNCHANGED <<setCache, setChanges, setMerged, setAsked, setReboots, setOverlapped>>
  BY DEF S!Open, S!InTheMiddle
<1>2. /\ S!TypeOK' /\ setNames'["config.json"] = setNames["config.json"]
      /\ setNames'["config.json.tmp"] = S!Broken
      /\ setEdit'[e] = "fill" /\ setOpen'[e] = "config.json.tmp"
      /\ \A x \in Editors \ {e} : setEdit'[x] = setEdit[x] /\ setOpen'[x] = setOpen[x]
  BY DEF S!Open, S!Goto, S!TypeOK, S!Names
<1>3. \A x \in Editors : S!InTheMiddle(x)' <=> S!InTheMiddle(x)
  BY <1>1, <1>2 DEF S!InTheMiddle
<1>4. S!Agreed => S!Agreed'
  BY <1>1, <1>2 DEF S!Agreed, S!Written
<1>5. ~setOverlapped => \A x \in Editors : S!Follows(x)'
  BY <1>1, <1>2, <1>3 DEF S!Alone, S!Follows, S!InTheMiddle
<1> QED  BY <1>1, <1>2, <1>3, <1>4, <1>5, SettingsFilesKeep DEF S!Alone

(* The settings are written to it.                                         *)
LEMMA SettingsFillKeeps ==
  ASSUME S!Inductive, NEW e \in Editors, S!Fill(e)
  PROVE  S!Inductive' /\ S!SettingKept
<1> USE DEF S!Inductive
<1>1. /\ setEdit[e] = "fill" /\ S!InTheMiddle(e)
      /\ UNCHANGED <<setCache, setChanges, setMerged, setOpen, setAsked, setReboots,
           setOverlapped>>
  BY DEF S!Fill, S!InTheMiddle
<1>2. PICK text \in S!Filled(setNames[setOpen[e]], setMerged[e]) :
           setNames' = [setNames EXCEPT ![setOpen[e]] = text]
  BY DEF S!Fill
<1>3. text \in S!Stored \cup {S!Broken}
      /\ (setNames[setOpen[e]] = S!Broken => text = setMerged[e])
  BY <1>2 DEF S!Filled, S!TypeOK
<1>4. /\ setEdit' \in [Editors -> {"idle", "read", "open", "fill", "replace", "cache"}]
      /\ setEdit'[e] = "replace"
      /\ \A x \in Editors \ {e} : setEdit'[x] = setEdit[x]
  BY DEF S!Fill, S!Goto, S!TypeOK
<1>5. S!TypeOK'
  BY <1>1, <1>2, <1>3, <1>4 DEF S!TypeOK
<1>6. \A x \in Editors : S!InTheMiddle(x)' <=> S!InTheMiddle(x)
  BY <1>1, <1>4 DEF S!InTheMiddle
<1>7. ~setOverlapped => setNames'["config.json.tmp"] = setMerged[e]
      /\ setNames'["config.json"] = setNames["config.json"]
  BY <1>1, <1>2, <1>3 DEF S!Follows, S!TypeOK, S!Names
<1>8. ~setOverlapped => S!Agreed'
  BY <1>1, <1>4, <1>7 DEF S!Agreed, S!Written
<1>9. ~setOverlapped => \A x \in Editors : S!Follows(x)'
  BY <1>1, <1>4, <1>6, <1>7 DEF S!Alone, S!Follows, S!InTheMiddle
<1> QED  BY <1>1, <1>5, <1>6, <1>8, <1>9, SettingsFilesKeep DEF S!Alone

(* They are not: the disk is full.                                         *)
LEMMA SettingsFillFailsKeeps ==
  ASSUME S!Inductive, NEW e \in Editors, S!FillFails(e)
  PROVE  S!Inductive' /\ S!SettingKept
<1> USE DEF S!Inductive
<1>1. /\ setEdit[e] = "fill" /\ S!InTheMiddle(e)
      /\ UNCHANGED <<setCache, setChanges, setMerged, setOpen, setAsked, setReboots,
           setOverlapped>>
  BY DEF S!FillFails, S!InTheMiddle
<1>2. PICK text \in {setNames[setOpen[e]], S!Broken} :
           setNames' = [setNames EXCEPT ![setOpen[e]] = text]
  BY DEF S!FillFails
<1>4. /\ setEdit' \in [Editors -> {"idle", "read", "open", "fill", "replace", "cache"}]
      /\ setEdit'[e] = "idle"
      /\ \A x \in Editors \ {e} : setEdit'[x] = setEdit[x]
  BY DEF S!FillFails, S!Goto, S!TypeOK
<1>5. S!TypeOK'
  BY <1>1, <1>2, <1>4 DEF S!TypeOK
<1>6. \A x \in Editors : S!InTheMiddle(x)' <=> S!InTheMiddle(x) /\ x # e
  BY <1>1, <1>4 DEF S!InTheMiddle
<1>7. ~setOverlapped => setNames'["config.json"] = setNames["config.json"]
  BY <1>1, <1>2 DEF S!Follows, S!TypeOK, S!Names
<1>8. ~setOverlapped => S!Agreed'
  BY <1>1, <1>4, <1>7 DEF S!Agreed, S!Written
<1>9. ~setOverlapped => \A x \in Editors : S!Follows(x)'
  BY <1>1, <1>4, <1>6 DEF S!Alone, S!Follows, S!InTheMiddle
<1> QED  BY <1>1, <1>5, <1>6, <1>8, <1>9, SettingsFilesKeep DEF S!Alone

(* The temporary file takes the place of the old one.                      *)
LEMMA SettingsReplaceKeeps ==
  ASSUME S!Inductive, NEW e \in Editors, S!Replace(e)
  PROVE  S!Inductive' /\ S!SettingKept
<1> USE DEF S!Inductive
<1>1. /\ setEdit[e] = "replace" /\ S!InTheMiddle(e)
      /\ UNCHANGED <<setCache, setChanges, setMerged, setAsked, setReboots, setOverlapped>>
  BY DEF S!Replace, S!InTheMiddle
<1>2. CASE setNames["config.json.tmp"] = S!NoFile
  <2>1. setOverlapped
    BY <1>1, <1>2, SettingsMarksApart DEF S!Follows, S!TypeOK
  <2>2. /\ setEdit' \in [Editors -> {"idle", "read", "open", "fill", "replace", "cache"}]
        /\ setEdit'[e] = "idle" /\ UNCHANGED <<setNames, setOpen>>
        /\ \A x \in Editors \ {e} : setEdit'[x] = setEdit[x]
    BY <1>2 DEF S!Replace, S!Goto, S!TypeOK
  <2> QED  BY <1>1, <2>1, <2>2, SettingsFilesKeep DEF S!TypeOK, S!InTheMiddle
<1>3. CASE setNames["config.json.tmp"] # S!NoFile
  <2>1. /\ setEdit' \in [Editors -> {"idle", "read", "open", "fill", "replace", "cache"}]
        /\ setEdit'[e] = "cache"
        /\ \A x \in Editors \ {e} : setEdit'[x] = setEdit[x]
    BY <1>3 DEF S!Replace, S!Goto, S!TypeOK
  <2>2. setNames' \in [S!Names -> S!Stored \cup {S!NoFile, S!Broken}]
        /\ setNames'["config.json"] = setNames["config.json.tmp"]
    BY <1>3 DEF S!Replace, S!TypeOK, S!Names
  <2>3. setOpen' \in [Editors -> S!Names]
    BY <1>3 DEF S!Replace, S!TypeOK, S!Names
  <2>4. S!TypeOK'
    BY <1>1, <2>1, <2>2, <2>3 DEF S!TypeOK
  <2>5. \A x \in Editors : S!InTheMiddle(x)' <=> S!InTheMiddle(x)
    BY <1>1, <2>1 DEF S!InTheMiddle
  <2>6. ~setOverlapped => \A x \in Editors : S!Follows(x)'
    BY <1>1, <2>1, <2>2, <2>5 DEF S!Alone, S!Follows, S!InTheMiddle
  <2> QED  BY <1>1, <2>1, <2>4, <2>5, <2>6, SettingsFilesKeep DEF S!Alone, S!Agreed
<1> QED  BY <1>2, <1>3

(* The cache gets what was saved.                                          *)
LEMMA SettingsSetCacheKeeps ==
  ASSUME S!Inductive, NEW e \in Editors, S!SetCache(e)
  PROVE  S!Inductive' /\ S!SettingKept
<1> USE DEF S!Inductive
<1>1. /\ setEdit[e] = "cache" /\ S!InTheMiddle(e) /\ setCache' = setMerged[e]
      /\ UNCHANGED <<setNames, setChanges, setMerged, setOpen, setAsked, setReboots>>
  BY DEF S!SetCache, S!InTheMiddle
<1>2. /\ setEdit' \in [Editors -> {"idle", "read", "open", "fill", "replace", "cache"}]
      /\ setEdit'[e] = "idle"
      /\ \A x \in Editors \ {e} : setEdit'[x] = setEdit[x]
  BY DEF S!SetCache, S!Goto, S!TypeOK
<1>3. setMerged[e] \in S!Stored /\ setMerged[e] # S!NotRead /\ setOverlapped' \in BOOLEAN
  BY SettingsMarksApart DEF S!TypeOK, S!SetCache
<1>4. S!TypeOK'
  BY <1>1, <1>2, <1>3 DEF S!TypeOK
<1>5. ~setOverlapped' => setNames["config.json"] = setMerged[e]
      /\ \A x \in Editors : ~S!InTheMiddle(x)'
  BY <1>1, <1>2 DEF S!SetCache, S!SameAgain, S!Alone, S!Follows, S!InTheMiddle
<1>6. ~setOverlapped' => S!Alone' /\ \A x \in Editors : S!Follows(x)'
  BY <1>5 DEF S!Alone, S!Follows, S!InTheMiddle
<1>7. ~setOverlapped' => S!Agreed'
  BY <1>1, <1>3, <1>5, SettingsMarksApart DEF S!Agreed, S!Written
<1>8. S!SettingKept
  <2> SUFFICES ASSUME ~setOverlapped, NEW k \in S!Settings, S!Effective'[k] # S!Effective[k]
               PROVE  k \in S!Named(e)
    BY DEF S!SettingKept
  <2>1. S!Load = setCache /\ S!Load' = setMerged[e]
    BY <1>1, <1>3 DEF S!Load
  <2>2. setMerged[e] = S!Merge(setCache, setChanges[e])
    BY <1>1 DEF S!Follows
  <2>3. S!Load'[k] # S!Load[k]
    BY DEF S!Effective
  <2>4. setChanges[e][k] # S!Untouched
    BY <2>1, <2>2, <2>3 DEF S!Merge
  <2> QED  BY <1>1, <2>4 DEF S!Named
<1> QED  BY <1>1, <1>3, <1>4, <1>6, <1>7, <1>8

(* The agent restarts, wherever the save was.                              *)
LEMMA SettingsRestartKeeps ==
  ASSUME S!Inductive, S!AgentRestart
  PROVE  S!Inductive' /\ S!SettingKept
<1> USE DEF S!Inductive
<1>1. S!TypeOK'
  BY SettingsAssumption DEF S!AgentRestart, S!TypeOK, S!Quiet, S!SettingsSane
<1>2. \A x \in Editors : ~S!InTheMiddle(x)' /\ S!Follows(x)'
  BY DEF S!AgentRestart, S!Quiet, S!InTheMiddle, S!Follows
<1>3. S!Agreed'
  BY DEF S!AgentRestart, S!Agreed
<1>4. S!SettingKept
  <2> SUFFICES ASSUME ~setOverlapped, NEW k \in S!Settings, S!Effective'[k] # S!Effective[k]
               PROVE  \E e \in Editors : k \in S!Named(e)
    BY DEF S!SettingKept
  <2>1. S!Load' = S!Written /\ S!Load'[k] # S!Load[k]
    BY DEF S!AgentRestart, S!Load, S!Written, S!Effective
  <2>2. setCache # S!NotRead /\ S!Load = setCache /\ setCache # S!Written
    BY <2>1 DEF S!Load, S!Written
  <2>3. PICK e \in Editors : setEdit[e] = "cache"
    BY <2>2 DEF S!Agreed
  <2>4. setNames["config.json"] = setMerged[e] /\ setMerged[e] = S!Merge(setCache, setChanges[e])
        /\ setMerged[e] \in S!Stored
    BY <2>3 DEF S!Follows, S!InTheMiddle, S!TypeOK
  <2>5. S!Written = setMerged[e]
    BY <2>4, SettingsMarksApart DEF S!Written
  <2>6. setChanges[e][k] # S!Untouched
    BY <2>1, <2>2, <2>4, <2>5 DEF S!Merge
  <2> QED  BY <2>3, <2>6 DEF S!Named
<1> QED  BY <1>1, <1>2, <1>3, <1>4 DEF S!Alone

(* No step breaks it, and none loses a saved value.                        *)
LEMMA SettingsStep == S!Inductive /\ [S!Next]_S!settingVars => S!Inductive' /\ S!SettingKept
<1> SUFFICES ASSUME S!Inductive, [S!Next]_S!settingVars PROVE S!Inductive' /\ S!SettingKept
  OBVIOUS
<1>1. CASE S!Next
  BY <1>1, SettingsAskKeeps, SettingsReadKeeps, SettingsReadBeforeKeeps, SettingsOpenKeeps,
           SettingsFillKeeps, SettingsFillFailsKeeps,
     SettingsReplaceKeeps, SettingsSetCacheKeeps, SettingsRestartKeeps DEF S!Next, S!Request
<1>2. CASE UNCHANGED S!settingVars
  BY <1>2 DEF S!settingVars, S!Inductive, S!TypeOK, S!InTheMiddle, S!Alone, S!Agreed, S!Follows,
            S!Written,
     S!Load, S!Effective, S!SettingKept
<1> QED  BY <1>1, <1>2

(* ... and so it is as long as this component is the one at work.          *)
LEMMA SettingsRuns == Spec => [](which = "settings" => S!Inductive)
<1>1. Init => (which = "settings" => S!Inductive)
  BY SettingsInit DEF Init
<1>2. (which = "settings" => S!Inductive) /\ [Next]_vars
      => (which = "settings" => S!Inductive)'
  <2> SUFFICES ASSUME which = "settings" => S!Inductive, [Next]_vars, which' = "settings"
               PROVE  S!Inductive'
    OBVIOUS
  <2>1. which = "settings" /\ (S!Next \/ UNCHANGED S!settingVars)
    BY OneAtWork DEF vars, S!settingVars
  <2> QED  BY <2>1, SettingsStep
<1> QED  BY <1>1, <1>2, PTL DEF Spec

-----------------------------------------------------------------------------
(* The file manager (files.py).                                            *)
filesFile == v1
filesTmp == v2
filesTexts == v3
filesOpened == v4
filesOp == v5
filesRequests == v6
filesHelperFaults == v7
filesOthers == v8
filesWriting == v9
USE DEF filesFile, filesTmp, filesTexts, filesOpened, filesOp, filesRequests,
        filesHelperFaults, filesOthers, filesWriting

(* A user who has asked for nothing.                                       *)
LEMMA FilesNoOpTyped == H!NoOp \in H!Ops
  BY DEF H!NoOp, H!Nowhere, H!Ops, H!Contents

(* A name that no file has.                                                *)
LEMMA FilesNowhereIsNoPath == H!Nowhere \notin Paths
  BY FilesAssumption DEF H!FilesSane

(* A text nobody has written yet.                                          *)
LEMMA FilesTextIsNew == ASSUME H!TypeOK, filesTexts < MaxTexts PROVE filesTexts + 1 \in H!TextIds
  BY FilesAssumption DEF H!TypeOK, H!TextIds, H!FilesSane

(* A request that is over.                                                 *)
LEMMA FilesEnded ==
  ASSUME H!Inductive, NEW u \in Users, H!End(u)
  PROVE  /\ filesOp' \in [Users -> H!Ops] /\ filesOp'[u] = H!NoOp
         /\ \A v \in Users \ {u} : filesOp'[v] = filesOp[v]
         /\ H!Checked(u)' /\ H!Staged(u)'
         /\ filesWriting'[u] = H!Nowhere => H!Alone(u)'
<1>1. /\ filesOp' \in [Users -> H!Ops] /\ filesOp'[u] = H!NoOp
      /\ \A v \in Users \ {u} : filesOp'[v] = filesOp[v]
  BY FilesNoOpTyped DEF H!End, H!Inductive, H!TypeOK
<1> QED  BY <1>1 DEF H!Checked, H!Staged, H!Alone, H!NoOp

(* A request that begins.                                                  *)
LEMMA FilesBegun ==
  ASSUME H!Inductive, NEW u \in Users, NEW r \in H!Ops, filesOp' = [filesOp EXCEPT ![u] = r]
  PROVE  /\ filesOp' \in [Users -> H!Ops] /\ filesOp'[u] = r
         /\ \A v \in Users \ {u} : filesOp'[v] = filesOp[v]
  BY DEF H!Inductive, H!TypeOK

(* Whether anybody is at its files then is noted for it alone.             *)
LEMMA FilesBegunOthers ==
  ASSUME H!Inductive, NEW u \in Users, NEW p, NEW q,
         filesOthers' = [filesOthers EXCEPT ![u] = \E v \in Users : filesWriting[v]
         \in Paths /\ filesWriting[v] \in {p, q}]
  PROVE  filesOthers' \in [Users -> BOOLEAN]
         /\ \A v \in Users \ {u} : filesOthers'[v] = filesOthers[v]
  BY DEF H!Inductive, H!TypeOK

(* A request goes on; what it was asked stays.                             *)
LEMMA FilesStepped ==
  ASSUME H!Inductive, NEW u \in Users, NEW pc \in {"place", "mv_tmp", "cat", "rm_tmp", "look"},
         H!Step(u, pc)
  PROVE  /\ filesOp' \in [Users -> H!Ops] /\ u \in DOMAIN filesOp'
         /\ \A v \in Users \ {u} : filesOp'[v] = filesOp[v]
         /\ filesOp'[u] # H!NoOp
         /\ filesOp'[u].pc = pc /\ filesOp'[u].kind = filesOp[u].kind
         /\ filesOp'[u].path = filesOp[u].path /\ filesOp'[u].dest = filesOp[u].dest
         /\ filesOp'[u].text = filesOp[u].text /\ filesOp'[u].expected = filesOp[u].expected
         /\ filesOp'[u].found = filesOp[u].found /\ filesOp'[u].inDest = filesOp[u].inDest
<1>1. filesOp[u] \in H!Ops
  BY DEF H!Inductive, H!TypeOK
<1>2. [filesOp[u] EXCEPT !.pc = pc] \in H!Ops
  BY <1>1 DEF H!Ops
<1>3. filesOp' = [filesOp EXCEPT ![u] = [filesOp[u] EXCEPT !.pc = pc]]
  BY DEF H!Step
<1> QED  BY <1>1, <1>2, <1>3 DEF H!Inductive, H!TypeOK, H!Ops, H!NoOp

(* The request of u has moved on, and the others are where they were; any  *)
(* whose files it was at knows of it.                                      *)
LEMMA FilesOthersKeep ==
  ASSUME H!Inductive, NEW u \in Users, H!TypeOK', H!Checked(u)', H!Staged(u)', H!Alone(u)',
         NEW p, NEW q, \A r \in Paths \ {p, q} : filesFile'[r] = filesFile[r],
         \A v \in Users \ {u} :
           /\ filesOp'[v] = filesOp[v] /\ filesTmp'[v] = filesTmp[v]
           /\ (filesOthers[v] => filesOthers'[v])
           /\ (H!Concerns(v, p) => filesOthers'[v]) /\ (H!Concerns(v, q) => filesOthers'[v])
           /\ (filesWriting'[v] # filesWriting[v] => filesWriting[v] \in {p, q} \cap Paths)
  PROVE  H!Inductive'
<1>1. ASSUME NEW v \in Users \ {u}
      PROVE  H!Checked(v)' /\ H!Staged(v)' /\ H!Alone(v)'
  <2>1. /\ filesOp'[v] = filesOp[v] /\ filesTmp'[v] = filesTmp[v]
        /\ (filesOthers[v] => filesOthers'[v])
        /\ H!Checked(v) /\ H!Staged(v) /\ H!Alone(v)
    BY DEF H!Inductive
  <2>2. H!Checked(v)' /\ H!Staged(v)'
    BY <2>1 DEF H!Checked, H!Staged
  <2>3. filesWriting'[v] # H!Nowhere => filesOp'[v].pc = "cat"
    BY <2>1, FilesNowhereIsNoPath DEF H!Alone
  <2>4. ASSUME ~filesOthers'[v]
        PROVE  /\ filesOp[v].path \in Paths
                    => filesFile'[filesOp[v].path] = filesFile[filesOp[v].path]
               /\ filesOp[v].dest \in Paths
                    => filesFile'[filesOp[v].dest] = filesFile[filesOp[v].dest]
               /\ filesWriting[v] = filesOp[v].path => filesWriting'[v] = filesWriting[v]
    BY <2>4 DEF H!Concerns
  <2>5. ~filesOthers'[v] =>
          /\ filesOp'[v].pc \in {"mv", "cp"} => filesFile'[filesOp'[v].path] = filesOp'[v].found
               /\ filesFile'[filesOp'[v].dest] = H!None
          /\ filesOp'[v].pc = "mv_tmp" => filesFile'[filesOp'[v].path] = H!None
          /\ filesOp'[v].pc = "cat" => filesWriting'[v] = filesOp'[v].path
          /\ filesOp'[v].pc = "rm_tmp" => filesFile'[filesOp'[v].path] = filesOp'[v].text
    BY <2>1, <2>4 DEF H!Alone, H!Staged
  <2>6. ASSUME ~filesOthers'[v], filesOp'[v].pc = "look" PROVE H!AsAsked(v)'
    <3>1. H!AsAsked(v) /\ filesOp[v].path \in Paths
          /\ filesFile'[filesOp[v].path] = filesFile[filesOp[v].path]
      BY <2>1, <2>4, <2>6 DEF H!Alone, H!Staged
    <3>2. filesOp[v].kind \in {"move", "copy"}
          => filesFile'[filesOp[v].dest] = filesFile[filesOp[v].dest]
      BY <2>1, <2>4, <2>6 DEF H!Staged
    <3> QED  BY <2>1, <3>1, <3>2 DEF H!AsAsked
  <2> QED  BY <2>2, <2>3, <2>5, <2>6 DEF H!Alone
<1> QED  BY <1>1 DEF H!Inductive

(* The same for a step that is at one file, or moves one.                  *)
LEMMA FilesOneFile ==
  ASSUME H!Inductive, NEW u \in Users, H!TypeOK', H!Checked(u)', H!Staged(u)', H!Alone(u)',
         NEW p \in Paths, \A r \in Paths \ {p} : filesFile'[r] = filesFile[r],
         H!Touch(u, p), \A v \in Users \ {u} : filesOp'[v] = filesOp[v]
         /\ filesTmp'[v] = filesTmp[v],
         \A v \in Users \ {u} : filesWriting'[v] # filesWriting[v] => filesWriting[v] = p
  PROVE  H!Inductive'
<1>1. \A v \in Users \ {u} : (filesOthers[v] => filesOthers'[v])
      /\ (H!Concerns(v, p) => filesOthers'[v])
  BY DEF H!Touch, H!Concerns
<1>2. \A v \in Users \ {u} :
        /\ filesOp'[v] = filesOp[v] /\ filesTmp'[v] = filesTmp[v]
        /\ (filesOthers[v] => filesOthers'[v])
        /\ (H!Concerns(v, p) => filesOthers'[v]) /\ (H!Concerns(v, p) => filesOthers'[v])
        /\ (filesWriting'[v] # filesWriting[v] => filesWriting[v] \in {p, p} \cap Paths)
  BY <1>1
<1>3. \A r \in Paths \ {p, p} : filesFile'[r] = filesFile[r]
  OBVIOUS
<1> QED  BY <1>2, <1>3, FilesOthersKeep

(* A step that changes no file.                                            *)
LEMMA FilesStay ==
  ASSUME H!Inductive, NEW u \in Users, H!TypeOK', H!Checked(u)', H!Staged(u)', H!Alone(u)',
         UNCHANGED filesFile,
         \A v \in Users \ {u} : /\ filesOp'[v] = filesOp[v] /\ filesTmp'[v] = filesTmp[v]
                                /\ filesOthers'[v] = filesOthers[v]
                                /\ filesWriting'[v] = filesWriting[v]
  PROVE  H!Inductive'
<1>1. ASSUME NEW v \in Users \ {u}
      PROVE  H!Checked(v)' /\ H!Staged(v)' /\ H!Alone(v)'
  BY DEF H!Inductive, H!Checked, H!Staged, H!Alone, H!AsAsked
<1> QED  BY <1>1 DEF H!Inductive

(* What the request of one user overwrites, it was asked to or has seen.   *)
LEMMA FilesTextOfOne ==
  ASSUME H!Inductive, NEW u \in Users, \A v \in Users \ {u} : filesOp'[v] = filesOp[v],
         \A p \in Paths : (filesOp[u] # H!NoOp /\ filesFile[p] > 0 /\ filesFile[p] = H!Found(u, p)
                                  /\ ~H!Kept(filesFile[p])) => H!AskedFor(u, p),
         (filesOp[u].pc \in {"place", "mv_tmp", "cat"} /\ filesOp'[u] = H!NoOp)
         => H!Kept(filesOp[u].text)
  PROVE  H!TextKept
<1>1. \A v \in Users : filesOp[v].pc \in {"place", "mv_tmp", "cat", "look"} => filesOp[v] # H!NoOp
  BY DEF H!NoOp
<1>2. \A v \in Users : (filesOp[v].pc = "look" /\ ~filesOthers[v]) => H!AsAsked(v)
  BY DEF H!Inductive, H!Alone
<1> QED  BY <1>1, <1>2 DEF H!TextKept

(* What lies in a path is kept ...                                         *)
LEMMA FilesKeptInPlace == ASSUME H!TypeOK, H!TypeOK', NEW p \in Paths PROVE H!Kept(filesFile'[p])
  BY DEF H!Kept, H!Range, H!TypeOK

(* ... and what lies beside one.                                           *)
LEMMA FilesKeptAside == ASSUME H!TypeOK, H!TypeOK', NEW u \in Users PROVE H!Kept(filesTmp'[u])
  BY DEF H!Kept, H!Range, H!TypeOK

(* At the start nobody is at work.                                         *)
LEMMA FilesInit == H!Init => H!Inductive
<1> SUFFICES ASSUME H!Init PROVE H!Inductive
  OBVIOUS
<1> USE FilesAssumption DEF H!Init
<1>1. 1 \in H!TextIds /\ H!First \in Paths
  BY DEF H!TextIds, H!First, H!FilesSane
<1>2. H!TypeOK
  <2>1. filesRequests \in 0..MaxRequests /\ filesHelperFaults \in 0..MaxHelperFaults
    BY DEF H!FilesSane
  <2> QED  BY <1>1, <2>1, FilesNoOpTyped DEF H!TypeOK
<1>3. \A u \in Users : H!Checked(u) /\ H!Staged(u) /\ H!Alone(u)
  BY DEF H!Checked, H!Staged, H!Alone, H!NoOp
<1> QED  BY <1>2, <1>3 DEF H!Inductive

(* Requests that begin change no file.                                     *)
LEMMA FilesUntouching ==
  ASSUME H!Inductive, H!TypeOK', NEW u \in Users, UNCHANGED <<filesFile>>,
         \A v \in Users \ {u} : filesOp'[v] = filesOp[v],
         filesOp[u].pc \in {"place", "mv_tmp", "cat"} /\ filesOp'[u] = H!NoOp
         => UNCHANGED <<filesTmp>>
  PROVE  H!TextKept
<1>1. \A p \in Paths : H!Kept(filesFile[p])
  BY FilesKeptInPlace DEF H!Inductive
<1>2. ASSUME filesOp[u].pc \in {"place", "mv_tmp", "cat"}, filesOp'[u] = H!NoOp
      PROVE  H!Kept(filesOp[u].text)
  BY <1>2, FilesKeptAside DEF H!Inductive, H!Staged
<1> QED  BY <1>1, <1>2, FilesTextOfOne

(* The files a request begins with are as its checks found them.           *)
LEMMA FilesBegunAlone ==
  ASSUME H!Inductive, NEW u \in Users, filesOp[u] = H!NoOp, UNCHANGED <<filesFile,
         filesWriting>>, u \in DOMAIN filesOp',
         filesOp'[u].pc \in {"put", "mv", "cp", "rm"},
         filesOp'[u].pc \in {"mv", "cp"} => filesFile[filesOp'[u].path] = filesOp'[u].found
         /\ filesFile[filesOp'[u].dest] = H!None
  PROVE  H!Alone(u)'
<1>1. filesWriting[u] = H!Nowhere
  BY DEF H!Inductive, H!Alone, H!NoOp
<1> QED  BY <1>1 DEF H!Alone

(* A user opens a file.                                                    *)
LEMMA FilesReadTextKeeps ==
  ASSUME H!Inductive, NEW u \in Users, H!ReadText(u)
  PROVE  H!Inductive' /\ H!TextKept
<1>1. PICK p \in Paths :
           H!Exists(p)
           /\ filesOpened' = [filesOpened EXCEPT ![u] = [path |-> p, text |-> filesFile[p]]]
  BY DEF H!ReadText
<1>2. [path |-> p, text |-> filesFile[p]] \in [path : Paths, text : H!TextIds \cup {H!Half}]
  BY <1>1 DEF H!Inductive, H!TypeOK, H!Exists
<1>3. H!TypeOK'
  BY <1>1, <1>2 DEF H!ReadText, H!Inductive, H!TypeOK
<1> QED  BY <1>3, FilesStay, FilesUntouching DEF H!ReadText, H!Inductive, H!Checked, H!Staged,
                  H!Alone, H!AsAsked

(* A save is accepted if the file is what the user had opened.             *)
LEMMA FilesSaveKeeps ==
  ASSUME H!Inductive, NEW u \in Users, H!Save(u)
  PROVE  H!Inductive' /\ H!TextKept
<1> USE FilesAssumption DEF H!Inductive
<1>1. /\ filesOp[u] = H!NoOp /\ filesTexts + 1 \in H!TextIds /\ filesRequests' \in 0..MaxRequests
      /\ filesOpened[u] \in [path : Paths, text : H!TextIds \cup {H!Half}]
      /\ filesOpened' \in [Users -> [path : Paths,
           text : H!TextIds \cup {H!Half}] \cup {H!Unread}]
      /\ UNCHANGED <<filesFile, filesTmp, filesHelperFaults, filesWriting>>
  BY FilesTextIsNew DEF H!Save, H!TypeOK, H!FilesSane
<1>2. filesOpened[u].path \in Paths /\ filesOpened[u].text \in H!Contents
  BY <1>1 DEF H!Contents
<1>3. CASE H!MaySave(filesOpened[u].path, filesOpened[u].text)
  <2>1. /\ H!Begin(u, "put", "save", filesOpened[u].path, H!Nowhere, filesTexts + 1,
             filesOpened[u].text)
        /\ filesTexts' = filesTexts + 1
    BY <1>3 DEF H!Save
  <2>2. /\ filesOp' \in [Users -> H!Ops]
        /\ \A v \in Users \ {u} : filesOp'[v] = filesOp[v] /\ filesOthers'[v] = filesOthers[v]
        /\ filesOthers' \in [Users -> BOOLEAN]
        /\ filesOp'[u].pc = "put" /\ filesOp'[u].kind = "save"
        /\ filesOp'[u].path = filesOpened[u].path
        /\ filesOp'[u].dest = H!Nowhere /\ filesOp'[u].text = filesTexts + 1
        /\ filesOp'[u].expected = filesOpened[u].text
        /\ filesOp'[u].found = filesFile[filesOpened[u].path] /\ filesOp'[u].inDest = H!None
    <3> DEFINE r == [pc |-> "put", kind |-> "save", path |-> filesOpened[u].path,
               dest |-> H!Nowhere, text |-> filesTexts + 1,
                 expected |-> filesOpened[u].text, found |-> filesFile[filesOpened[u].path],
                 inDest |-> H!None]
    <3>1. r \in H!Ops
      BY <1>1, <1>2 DEF H!Ops, H!TypeOK, H!Contents
    <3>2. filesOp' = [filesOp EXCEPT ![u] = r]
      BY <2>1 DEF H!Begin
    <3>3. filesOp' \in [Users -> H!Ops] /\ filesOp'[u] = r
          /\ \A v \in Users \ {u} : filesOp'[v] = filesOp[v]
      BY <3>1, <3>2, FilesBegun
    <3>4. filesOthers' \in [Users -> BOOLEAN]
          /\ \A v \in Users \ {u} : filesOthers'[v] = filesOthers[v]
      BY <2>1, FilesBegunOthers DEF H!Begin
    <3> QED  BY <3>3, <3>4
  <2>3. H!TypeOK'
    BY <1>1, <2>1, <2>2 DEF H!TypeOK
  <2>4. H!Checked(u)' /\ H!Staged(u)' /\ H!Alone(u)'
    BY <1>1, <1>2, <1>3, <2>2, FilesBegunAlone DEF H!Checked, H!Staged, H!MaySave, H!Exists
  <2> QED  BY <1>1, <2>2, <2>3, <2>4, FilesStay, FilesUntouching
<1>4. CASE ~H!MaySave(filesOpened[u].path, filesOpened[u].text)
  <2>1. UNCHANGED <<filesOp, filesTexts, filesOthers>>
    BY <1>4 DEF H!Save
  <2>2. H!TypeOK'
    BY <1>1, <2>1 DEF H!TypeOK
  <2> QED  BY <1>1, <2>1, <2>2, FilesStay, FilesUntouching DEF H!Checked, H!Staged, H!Alone,
                    H!AsAsked
<1> QED  BY <1>3, <1>4

(* An upload is accepted if the name is free or it may replace the file.   *)
LEMMA FilesUploadKeeps ==
  ASSUME H!Inductive, NEW u \in Users, H!Upload(u)
  PROVE  H!Inductive' /\ H!TextKept
<1> USE FilesAssumption DEF H!Inductive
<1>1. /\ filesOp[u] = H!NoOp /\ filesTexts + 1 \in H!TextIds /\ filesRequests' \in 0..MaxRequests
      /\ filesTexts' = filesTexts + 1
      /\ UNCHANGED <<filesFile, filesTmp, filesOpened, filesHelperFaults, filesWriting>>
  BY FilesTextIsNew DEF H!Upload, H!TypeOK, H!FilesSane
<1>2. PICK p \in Paths, overwrite \in BOOLEAN :
        /\ H!MayUpload(p, overwrite)
        /\ H!Begin(u, "put", IF overwrite THEN "upload" ELSE "new", p, H!Nowhere, filesTexts + 1,
             H!None)
  BY DEF H!Upload
<1>3. PICK kind \in {"upload", "new"} :
        /\ kind = "new" => ~H!Exists(p)
        /\ H!Begin(u, "put", kind, p, H!Nowhere, filesTexts + 1, H!None)
  BY <1>2 DEF H!MayUpload
<1>4. filesOthers' \in [Users -> BOOLEAN]
      /\ \A v \in Users \ {u} : filesOthers'[v] = filesOthers[v]
  BY <1>3, FilesBegunOthers DEF H!Begin
<1>5. /\ filesOp' \in [Users -> H!Ops]
      /\ \A v \in Users \ {u} : filesOp'[v] = filesOp[v]
      /\ filesOp'[u].pc = "put" /\ filesOp'[u].kind = kind /\ filesOp'[u].path = p
      /\ filesOp'[u].dest = H!Nowhere /\ filesOp'[u].text = filesTexts + 1
      /\ filesOp'[u].expected = H!None
      /\ filesOp'[u].found = filesFile[p] /\ filesOp'[u].inDest = H!None
  <2> DEFINE r == [pc |-> "put", kind |-> kind, path |-> p, dest |-> H!Nowhere,
             text |-> filesTexts + 1,
               expected |-> H!None, found |-> filesFile[p], inDest |-> H!None]
  <2>1. r \in H!Ops
    BY <1>1 DEF H!Ops, H!TypeOK, H!Contents
  <2>2. filesOp' = [filesOp EXCEPT ![u] = r]
    BY <1>3 DEF H!Begin
  <2>3. filesOp' \in [Users -> H!Ops] /\ filesOp'[u] = r
        /\ \A v \in Users \ {u} : filesOp'[v] = filesOp[v]
    BY <2>1, <2>2, FilesBegun
  <2> QED  BY <2>3
<1>6. H!TypeOK'
  BY <1>1, <1>4, <1>5 DEF H!TypeOK
<1>7. H!Checked(u)' /\ H!Staged(u)' /\ H!Alone(u)'
  BY <1>1, <1>3, <1>5, FilesBegunAlone DEF H!Checked, H!Staged, H!Exists
<1> QED  BY <1>1, <1>4, <1>5, <1>6, <1>7, FilesStay, FilesUntouching

(* A move or copy looks whether its destination is free.                   *)
LEMMA FilesTakeKeeps ==
  ASSUME H!Inductive, NEW u \in Users, H!Take(u)
  PROVE  H!Inductive' /\ H!TextKept
<1> USE FilesAssumption DEF H!Inductive
<1>1. /\ filesOp[u] = H!NoOp /\ filesRequests' \in 0..MaxRequests
      /\ UNCHANGED <<filesFile, filesTmp, filesTexts, filesOpened, filesHelperFaults,
           filesWriting>>
  BY DEF H!Take, H!TypeOK, H!FilesSane
<1>2. PICK p, q \in Paths, kind \in {"move", "copy"} :
        /\ H!MayTake(p, q)
        /\ H!Begin(u, IF kind = "move" THEN "mv" ELSE "cp", kind, p, q, H!None, H!None)
  BY DEF H!Take
<1>3. PICK pc \in {"mv", "cp"} :
        /\ pc = "mv" <=> kind = "move"
        /\ H!Begin(u, pc, kind, p, q, H!None, H!None)
  BY <1>2
<1>4. filesOthers' \in [Users -> BOOLEAN]
      /\ \A v \in Users \ {u} : filesOthers'[v] = filesOthers[v]
  BY <1>3, FilesBegunOthers DEF H!Begin
<1>5. /\ filesOp' \in [Users -> H!Ops]
      /\ \A v \in Users \ {u} : filesOp'[v] = filesOp[v]
      /\ filesOp'[u].pc = pc /\ filesOp'[u].kind = kind /\ filesOp'[u].path = p
      /\ filesOp'[u].dest = q /\ filesOp'[u].text = H!None /\ filesOp'[u].expected = H!None
      /\ filesOp'[u].found = filesFile[p]
      /\ filesOp'[u].inDest = (IF q = H!Nowhere THEN H!None ELSE filesFile[q])
  <2> DEFINE r == [pc |-> pc, kind |-> kind, path |-> p, dest |-> q, text |-> H!None,
               expected |-> H!None, found |-> filesFile[p],
               inDest |-> IF q = H!Nowhere THEN H!None ELSE filesFile[q]]
  <2>1. r \in H!Ops
    BY <1>1 DEF H!Ops, H!TypeOK, H!Contents
  <2>2. filesOp' = [filesOp EXCEPT ![u] = r]
    BY <1>3 DEF H!Begin
  <2>3. filesOp' \in [Users -> H!Ops] /\ filesOp'[u] = r
        /\ \A v \in Users \ {u} : filesOp'[v] = filesOp[v]
    BY <2>1, <2>2, FilesBegun
  <2> QED  BY <2>3
<1>6. H!TypeOK'
  BY <1>1, <1>4, <1>5 DEF H!TypeOK
<1>7. H!Checked(u)' /\ H!Staged(u)'
  BY <1>2, <1>3, <1>5 DEF H!Checked, H!Staged, H!Exists, H!MayTake
<1>8. H!Alone(u)'
  BY <1>1, <1>2, <1>5, FilesBegunAlone DEF H!Exists, H!MayTake
<1> QED  BY <1>1, <1>4, <1>5, <1>6, <1>7, <1>8, FilesStay, FilesUntouching

(* A delete is accepted.                                                   *)
LEMMA FilesDeleteKeeps ==
  ASSUME H!Inductive, NEW u \in Users, H!Delete(u)
  PROVE  H!Inductive' /\ H!TextKept
<1> USE FilesAssumption DEF H!Inductive
<1>1. /\ filesOp[u] = H!NoOp /\ filesRequests' \in 0..MaxRequests
      /\ UNCHANGED <<filesFile, filesTmp, filesTexts, filesOpened, filesHelperFaults,
           filesWriting>>
  BY DEF H!Delete, H!TypeOK, H!FilesSane
<1>2. PICK p \in Paths : H!Begin(u, "rm", "delete", p, H!Nowhere, H!None, H!None)
  BY DEF H!Delete
<1>4. filesOthers' \in [Users -> BOOLEAN]
      /\ \A v \in Users \ {u} : filesOthers'[v] = filesOthers[v]
  BY <1>2, FilesBegunOthers DEF H!Begin
<1>5. /\ filesOp' \in [Users -> H!Ops]
      /\ \A v \in Users \ {u} : filesOp'[v] = filesOp[v]
      /\ filesOp'[u].pc = "rm" /\ filesOp'[u].kind = "delete" /\ filesOp'[u].path = p
      /\ filesOp'[u].dest = H!Nowhere /\ filesOp'[u].text = H!None
      /\ filesOp'[u].expected = H!None
      /\ filesOp'[u].found = filesFile[p] /\ filesOp'[u].inDest = H!None
  <2> DEFINE r == [pc |-> "rm", kind |-> "delete", path |-> p, dest |-> H!Nowhere,
             text |-> H!None,
               expected |-> H!None, found |-> filesFile[p], inDest |-> H!None]
  <2>1. r \in H!Ops
    BY <1>1 DEF H!Ops, H!TypeOK, H!Contents
  <2>2. filesOp' = [filesOp EXCEPT ![u] = r]
    BY <1>2 DEF H!Begin
  <2>3. filesOp' \in [Users -> H!Ops] /\ filesOp'[u] = r
        /\ \A v \in Users \ {u} : filesOp'[v] = filesOp[v]
    BY <2>1, <2>2, FilesBegun
  <2> QED  BY <2>3
<1>6. H!TypeOK'
  BY <1>1, <1>4, <1>5 DEF H!TypeOK
<1>7. H!Checked(u)' /\ H!Staged(u)' /\ H!Alone(u)'
  BY <1>1, <1>5, FilesBegunAlone DEF H!Checked, H!Staged
<1> QED  BY <1>1, <1>4, <1>5, <1>6, <1>7, FilesStay, FilesUntouching

(* The text arrives beside its target, or half of it.                      *)
LEMMA FilesPutKeeps ==
  ASSUME H!Inductive, NEW u \in Users, H!Put(u)
  PROVE  H!Inductive' /\ H!TextKept
<1> USE FilesAssumption DEF H!Inductive
<1>1. /\ filesOp[u].pc = "put" /\ filesOp[u].text \in H!TextIds /\ filesWriting[u] = H!Nowhere
      /\ UNCHANGED <<filesFile, filesTexts, filesOpened, filesRequests, filesOthers,
           filesWriting>>
  BY DEF H!Put, H!Staged, H!Alone
<1>2. CASE H!Faultless /\ filesTmp' = [filesTmp EXCEPT ![u] = filesOp[u].text]
           /\ H!Step(u, "place")
  <2>1. H!TypeOK'
    BY <1>1, <1>2, FilesStepped DEF H!TypeOK, H!Faultless
  <2>2. filesTmp'[u] = filesOp[u].text /\ \A v \in Users \ {u} : filesTmp'[v] = filesTmp[v]
    BY <1>2 DEF H!TypeOK
  <2>3. H!Checked(u)' /\ H!Staged(u)' /\ H!Alone(u)'
    BY <1>1, <1>2, <2>2, FilesStepped DEF H!Checked, H!Staged, H!Alone
  <2> QED  BY <1>1, <1>2, <2>1, <2>2, <2>3, FilesStepped, FilesStay, FilesUntouching
<1>3. CASE H!Faulty /\ filesTmp' = [filesTmp EXCEPT ![u] = H!Half] /\ H!End(u)
  <2>1. H!TypeOK'
    BY <1>1, <1>3, FilesEnded DEF H!TypeOK, H!Faulty, H!FilesSane
  <2>2. \A v \in Users \ {u} : filesTmp'[v] = filesTmp[v]
    BY <1>3 DEF H!TypeOK
  <2> QED  BY <1>1, <1>3, <2>1, <2>2, FilesEnded, FilesStay, FilesUntouching
<1> QED  BY <1>2, <1>3 DEF H!Put

(* A text that is written over was to be replaced: a request that found    *)
(* nothing, or another text, has passed no check for it.                   *)
LEMMA FilesOverwriting ==
  ASSUME H!Inductive, NEW u \in Users, filesOp[u].pc \in {"place", "mv_tmp", "cat", "rm"},
         NEW p \in Paths, filesFile[p] > 0, filesFile[p] = H!Found(u, p)
  PROVE  H!AskedFor(u, p)
<1>1. p = filesOp[u].path /\ filesOp[u].found = filesFile[p]
  BY DEF H!Found, H!Inductive, H!Checked, H!None
<1>2. filesOp[u].kind \in {"save", "upload", "new", "delete"}
  BY DEF H!Inductive, H!Staged
<1> QED  BY <1>1, <1>2 DEF H!AskedFor, H!Inductive, H!Checked, H!None

(* A file somebody is at: who has a request about it knows.                *)
LEMMA FilesTouched ==
  ASSUME H!Inductive, NEW u, NEW p, H!Touch(u, p)
  PROVE  /\ filesOthers' \in [Users -> BOOLEAN]
         /\ u \in Users => filesOthers'[u] = filesOthers[u]
         /\ \A v \in Users \ {u} : (filesOthers[v] => filesOthers'[v])
              /\ (H!Concerns(v, p) => filesOthers'[v])
  BY DEF H!Touch, H!Inductive, H!TypeOK, H!Concerns

(* The name is free when the shell looks.                                  *)
LEMMA FilesPlaceNewKeeps ==
  ASSUME H!Inductive, NEW u \in Users, H!PlaceNew(u)
  PROVE  H!Inductive' /\ H!TextKept
<1> USE DEF H!Inductive
<1>1. /\ filesOp[u].pc = "place" /\ filesFile[filesOp[u].path] = H!None /\ H!Step(u, "mv_tmp")
      /\ filesWriting[u] = H!Nowhere
      /\ UNCHANGED <<filesFile, filesTmp, filesTexts, filesOpened, filesHelperFaults,
           filesRequests, filesOthers, filesWriting>>
  BY DEF H!PlaceNew, H!Exists, H!Alone
<1>2. H!TypeOK'
  BY <1>1, FilesStepped DEF H!TypeOK
<1>3. H!Checked(u)' /\ H!Staged(u)' /\ H!Alone(u)'
  BY <1>1, FilesStepped DEF H!Checked, H!Staged, H!Alone
<1> QED  BY <1>1, <1>2, <1>3, FilesStepped, FilesStay, FilesUntouching

(* The text is put in the place of a name that is free.                    *)
LEMMA FilesMoveTmpKeeps ==
  ASSUME H!Inductive, NEW u \in Users, H!MoveTmp(u)
  PROVE  H!Inductive' /\ H!TextKept
<1> USE DEF H!Inductive
<1>1. /\ filesOp[u].pc = "mv_tmp" /\ filesOp[u].path \in Paths /\ H!Step(u, "look")
      /\ filesTmp[u] = filesOp[u].text
      /\ filesOp[u].kind \in {"save", "upload", "new"} /\ filesOp[u].text \in H!TextIds
      /\ filesWriting[u] = H!Nowhere
      /\ UNCHANGED <<filesTexts, filesOpened, filesHelperFaults, filesRequests, filesWriting>>
  BY DEF H!MoveTmp, H!Staged, H!Alone
<1>2. CASE H!Exists(filesOp[u].path)
  <2>1. UNCHANGED <<filesFile, filesTmp, filesOthers>> /\ filesOthers[u]
    BY <1>1, <1>2 DEF H!MoveTmp, H!Alone, H!Exists
  <2>2. H!TypeOK'
    BY <1>1, <2>1, FilesStepped DEF H!TypeOK
  <2>3. H!Checked(u)' /\ H!Staged(u)' /\ H!Alone(u)'
    BY <1>1, <2>1, FilesStepped DEF H!Checked, H!Staged, H!Alone
  <2> QED  BY <1>1, <2>1, <2>2, <2>3, FilesStepped, FilesStay, FilesUntouching
<1>3. CASE ~H!Exists(filesOp[u].path)
  <2>1. /\ filesFile' \in [Paths -> H!TextIds \cup {H!None, H!Half}]
        /\ filesFile'[filesOp[u].path] = filesOp[u].text
        /\ \A p \in Paths \ {filesOp[u].path} : filesFile'[p] = filesFile[p]
        /\ filesTmp' \in [Users -> H!TextIds \cup {H!None, H!Half}]
        /\ \A v \in Users \ {u} : filesTmp'[v] = filesTmp[v]
        /\ H!Touch(u, filesOp[u].path)
    BY <1>1, <1>3 DEF H!MoveTmp, H!TypeOK
  <2>2. H!TypeOK'
    BY <1>1, <2>1, FilesStepped, FilesTouched DEF H!TypeOK
  <2>3. H!Checked(u)' /\ H!Staged(u)'
    BY <1>1, FilesStepped DEF H!Checked, H!Staged
  <2>4. H!Alone(u)'
    BY <1>1, <2>1, FilesStepped DEF H!Alone, H!AsAsked
  <2>5. H!Inductive'
    BY <1>1, <2>1, <2>2, <2>3, <2>4, FilesStepped, FilesOneFile
  <2> QED  BY <1>1, <2>1, <2>2, <2>5, FilesStepped, FilesTextOfOne, FilesOverwriting
<1> QED  BY <1>2, <1>3

(* A save empties the file before it fills it.                             *)
LEMMA FilesTruncateKeeps ==
  ASSUME H!Inductive, NEW u \in Users, H!Truncate(u)
  PROVE  H!Inductive' /\ H!TextKept
<1> USE DEF H!Inductive
<1>1. /\ filesOp[u].pc = "place" /\ filesOp[u].path \in Paths /\ H!Step(u, "cat")
      /\ H!Touch(u, filesOp[u].path)
      /\ UNCHANGED <<filesTmp, filesTexts, filesOpened, filesHelperFaults, filesRequests>>
  BY DEF H!Truncate, H!Staged
<1>2. /\ filesFile' \in [Paths -> H!TextIds \cup {H!None, H!Half}]
      /\ \A p \in Paths \ {filesOp[u].path} : filesFile'[p] = filesFile[p]
      /\ filesWriting' \in [Users -> Paths \cup {H!Nowhere}] /\ filesWriting'[u] = filesOp[u].path
      /\ \A v \in Users \ {u} : filesWriting'[v] = filesWriting[v]
  BY <1>1 DEF H!Truncate, H!TypeOK
<1>3. H!TypeOK'
  BY <1>1, <1>2, FilesStepped, FilesTouched DEF H!TypeOK
<1>4. H!Checked(u)' /\ H!Staged(u)' /\ H!Alone(u)'
  BY <1>1, <1>2, FilesStepped DEF H!Checked, H!Staged, H!Alone
<1>5. H!Inductive'
  BY <1>1, <1>2, <1>3, <1>4, FilesStepped, FilesOneFile
<1> QED  BY <1>1, <1>2, <1>3, <1>5, FilesStepped, FilesTextOfOne, FilesOverwriting

(* What is written where the file now lies was in nobody's way but there.  *)
LEMMA FilesCatIntoKeeps ==
  ASSUME H!Inductive, H!TypeOK', NEW u \in Users, NEW p \in Paths, filesOp[u].pc = "cat",
         H!Step(u, "rm_tmp"),
         filesWriting[u] = p, H!Touch(u, p), filesTmp' = filesTmp,
         \A q \in Paths \ {p} : filesFile'[q] = filesFile[q],
         \A v \in Users \ {u} : filesWriting'[v] = filesWriting[v],
         filesWriting'[u] = H!Nowhere, ~filesOthers[u] => filesFile'[p] = filesTmp[u]
  PROVE  H!Inductive'
<1> USE DEF H!Inductive
<1>1. H!Checked(u)' /\ H!Staged(u)'
  BY FilesStepped DEF H!Checked, H!Staged
<1>2. H!Alone(u)'
  BY FilesStepped, FilesTouched DEF H!Alone, H!Staged
<1> QED  BY <1>1, <1>2, FilesStepped, FilesOneFile

(* The text is copied into the file.                                       *)
LEMMA FilesCatKeeps ==
  ASSUME H!Inductive, NEW u \in Users, H!Cat(u)
  PROVE  H!Inductive' /\ H!TextKept
<1> USE DEF H!Inductive
<1>1. /\ filesOp[u].pc = "cat" /\ filesOp[u].path \in Paths /\ H!Step(u, "rm_tmp")
      /\ filesTmp' = filesTmp
      /\ filesWriting[u] \in Paths \cup {H!Nowhere} /\ ~filesOthers[u]
           => filesWriting[u] = filesOp[u].path
      /\ filesWriting' \in [Users -> Paths \cup {H!Nowhere}] /\ filesWriting'[u] = H!Nowhere
      /\ \A v \in Users \ {u} : filesWriting'[v] = filesWriting[v]
      /\ UNCHANGED <<filesTmp, filesTexts, filesOpened, filesHelperFaults, filesRequests>>
  BY DEF H!Cat, H!Staged, H!Alone, H!TypeOK
<1>2. H!Inductive'
  <2>1. CASE UNCHANGED <<filesFile, filesOthers>> /\ filesWriting[u] = H!Nowhere
    <3>1. H!TypeOK'
      BY <1>1, <2>1, FilesStepped DEF H!TypeOK
    <3>2. filesOthers[u] \/ filesOp[u].path = H!Nowhere
      BY <1>1, <2>1
    <3>3. H!Checked(u)' /\ H!Staged(u)'
      BY <1>1, FilesStepped DEF H!Checked, H!Staged
    <3>4. ~filesOthers[u] => filesFile[filesOp[u].path] = filesOp[u].text
      BY <1>1, <2>1, <3>2, FilesNowhereIsNoPath
    <3>5. H!Alone(u)'
      BY <1>1, <2>1, <3>4, FilesStepped DEF H!Alone
    <3> QED  BY <1>1, <2>1, <3>1, <3>3, <3>5, FilesStepped, FilesStay
  <2>2. ASSUME NEW text \in {filesTmp[u], H!Half}, filesWriting[u] # H!Nowhere, H!CatInto(u,
               filesWriting[u], text),
               ~filesOthers[u] => text = filesTmp[u]
        PROVE  H!Inductive'
    <3>1. /\ filesFile' \in [Paths -> H!TextIds \cup {H!None, H!Half}]
          /\ filesFile'[filesWriting[u]] = text
          /\ \A p \in Paths \ {filesWriting[u]} : filesFile'[p] = filesFile[p]
          /\ H!Touch(u, filesWriting[u]) /\ filesWriting[u] \in Paths
      BY <1>1, <2>2 DEF H!CatInto, H!TypeOK
    <3>2. H!TypeOK'
      BY <1>1, <3>1, FilesStepped, FilesTouched DEF H!TypeOK
    <3> QED  BY <1>1, <2>2, <3>1, <3>2, FilesCatIntoKeeps
  <2> QED  BY <2>1, <2>2 DEF H!Cat
<1> QED  BY <1>1, <1>2, FilesStepped, FilesTextOfOne, FilesOverwriting

(* The temporary file is removed.                                          *)
LEMMA FilesRemoveTmpKeeps ==
  ASSUME H!Inductive, NEW u \in Users, H!RemoveTmp(u)
  PROVE  H!Inductive' /\ H!TextKept
<1> USE DEF H!Inductive
<1>1. /\ filesOp[u].pc = "rm_tmp" /\ H!Step(u, "look") /\ filesWriting[u] = H!Nowhere
      /\ filesOp[u].kind \in {"save", "upload", "new"}
      /\ ~filesOthers[u] => filesFile[filesOp[u].path] = filesOp[u].text
      /\ UNCHANGED <<filesFile, filesTexts, filesOpened, filesHelperFaults, filesRequests,
           filesOthers, filesWriting>>
  BY DEF H!RemoveTmp, H!Staged, H!Alone
<1>2. H!TypeOK' /\ \A v \in Users \ {u} : filesTmp'[v] = filesTmp[v]
  BY <1>1, FilesStepped DEF H!RemoveTmp, H!TypeOK
<1>3. H!Checked(u)' /\ H!Staged(u)'
  BY <1>1, FilesStepped DEF H!Checked, H!Staged
<1>4. H!Alone(u)'
  BY <1>1, FilesStepped DEF H!Alone, H!AsAsked
<1> QED  BY <1>1, <1>2, <1>3, <1>4, FilesStepped, FilesStay, FilesUntouching

(* The agent looks whether there is a file.                                *)
LEMMA FilesLookKeeps ==
  ASSUME H!Inductive, NEW u \in Users, H!Look(u)
  PROVE  H!Inductive' /\ H!TextKept
<1> USE DEF H!Inductive
<1>1. filesOp[u].pc = "look" /\ filesWriting[u] = H!Nowhere
  BY DEF H!Look, H!Alone
<1>2. H!TypeOK'
  BY FilesEnded DEF H!Look, H!TypeOK
<1> QED  BY <1>1, <1>2, FilesEnded, FilesStay, FilesUntouching DEF H!Look

(* A helper container fails.                                               *)
LEMMA FilesHelperFailsKeeps ==
  ASSUME H!Inductive, NEW u \in Users, H!HelperFails(u)
  PROVE  H!Inductive' /\ H!TextKept
<1> USE DEF H!Inductive
<1>1. /\ H!End(u) /\ filesHelperFaults' \in 0..MaxHelperFaults
      /\ filesWriting' \in [Users -> Paths \cup {H!Nowhere}] /\ filesWriting'[u] = H!Nowhere
      /\ \A v \in Users \ {u} : filesWriting'[v] = filesWriting[v]
      /\ UNCHANGED <<filesTmp, filesTexts, filesOpened, filesRequests>>
  BY FilesAssumption DEF H!HelperFails, H!Failed, H!Faulty, H!TypeOK, H!FilesSane
<1>2. CASE UNCHANGED <<filesFile, filesOthers>>
  <2>1. H!TypeOK'
    BY <1>1, <1>2, FilesEnded DEF H!TypeOK
  <2> QED  BY <1>1, <1>2, <2>1, FilesEnded, FilesStay, FilesUntouching
<1>3. CASE H!CutShort(u) /\ filesFile' = [filesFile EXCEPT ![filesOp[u].dest] = H!Half]
           /\ H!Touch(u, filesOp[u].dest)
  <2>1. filesOp[u].pc = "cp" /\ filesOp[u].dest \in Paths \ {filesOp[u].path}
    BY <1>3 DEF H!CutShort, H!Staged
  <2>2. /\ filesFile' \in [Paths -> H!TextIds \cup {H!None, H!Half}]
        /\ \A p \in Paths \ {filesOp[u].dest} : filesFile'[p] = filesFile[p]
    BY <1>3, <2>1 DEF H!TypeOK
  <2>3. H!TypeOK'
    BY <1>1, <1>3, <2>2, FilesEnded, FilesTouched DEF H!TypeOK
  <2>4. H!Inductive'
    BY <1>1, <1>3, <2>2, <2>3, FilesEnded, FilesOneFile
  <2>5. ASSUME NEW p \in Paths, filesFile[p] > 0, filesFile[p] = H!Found(u, p)
        PROVE  H!Kept(filesFile[p])
    <3>1. p = filesOp[u].path
      BY <2>5 DEF H!Found, H!Checked, H!None
    <3> QED  BY <2>1, <2>2, <2>3, <3>1, FilesKeptInPlace
  <2> QED  BY <1>1, <2>1, <2>4, <2>5, FilesEnded, FilesTextOfOne
<1> QED  BY <1>2, <1>3 DEF H!HelperFails

(* What a helper was to take has gone.                                     *)
LEMMA FilesSourceGoneKeeps ==
  ASSUME H!Inductive, NEW u \in Users, H!SourceGone(u)
  PROVE  H!Inductive' /\ H!TextKept
<1> USE DEF H!Inductive
<1>1. filesOp[u].pc \in {"mv", "cp"} /\ filesWriting[u] = H!Nowhere
  BY DEF H!SourceGone, H!Alone
<1>2. H!TypeOK'
  BY FilesEnded DEF H!SourceGone, H!TypeOK
<1> QED  BY <1>1, <1>2, FilesEnded, FilesStay, FilesUntouching DEF H!SourceGone

(* A file is moved.                                                        *)
LEMMA FilesMoveKeeps ==
  ASSUME H!Inductive, NEW u \in Users, H!Move(u)
  PROVE  H!Inductive' /\ H!TextKept
<1> USE DEF H!Inductive
<1>1. /\ filesOp[u].pc = "mv" /\ filesOp[u].path \in Paths /\ H!Step(u, "look")
      /\ filesOp[u].kind = "move"
      /\ filesOp[u].dest \in Paths \ {filesOp[u].path} /\ filesWriting[u] = H!Nowhere
      /\ UNCHANGED <<filesTmp, filesTexts, filesOpened, filesHelperFaults, filesRequests>>
  BY DEF H!Move, H!Staged, H!Alone
<1>2. CASE H!Exists(filesOp[u].dest)
  <2>1. UNCHANGED <<filesFile, filesOthers, filesWriting>> /\ filesOthers[u]
    BY <1>1, <1>2 DEF H!Move, H!Alone, H!Exists
  <2>2. H!TypeOK'
    BY <1>1, <2>1, FilesStepped DEF H!TypeOK
  <2>3. H!Checked(u)' /\ H!Staged(u)' /\ H!Alone(u)'
    BY <1>1, <2>1, FilesStepped DEF H!Checked, H!Staged, H!Alone
  <2> QED  BY <1>1, <2>1, <2>2, <2>3, FilesStepped, FilesStay, FilesUntouching
<1>3. CASE ~H!Exists(filesOp[u].dest)
  <2> DEFINE p == filesOp[u].path
             q == filesOp[u].dest
  <2>1. /\ filesFile' = [filesFile EXCEPT ![q] = filesFile[p], ![p] = H!None]
        /\ filesOthers' = [v \in Users |-> filesOthers[v] \/ (v # u /\ (H!Concerns(v,
             p) \/ H!Concerns(v, q)))]
        /\ filesWriting' = [v \in Users |-> IF filesWriting[v] = p THEN q ELSE filesWriting[v]]
    BY <1>3 DEF H!Move
  <2>2. /\ filesFile' \in [Paths -> H!TextIds \cup {H!None, H!Half}]
        /\ \A r \in Paths \ {p, q} : filesFile'[r] = filesFile[r]
        /\ filesFile'[q] = filesFile[p] /\ filesFile'[p] = H!None
    BY <1>1, <2>1 DEF H!TypeOK
  <2>3. /\ filesOthers' \in [Users -> BOOLEAN] /\ filesOthers'[u] = filesOthers[u]
        /\ \A v \in Users \ {u} : (filesOthers[v] => filesOthers'[v])
                                  /\ \A r \in {p, q} : H!Concerns(v, r) => filesOthers'[v]
    BY <2>1 DEF H!TypeOK, H!Concerns
  <2>4. /\ filesWriting' \in [Users -> Paths \cup {H!Nowhere}] /\ filesWriting'[u] = H!Nowhere
        /\ \A v \in Users \ {u} : filesWriting'[v] # filesWriting[v]
             => filesWriting[v] \in {p, q} \cap Paths
    BY <1>1, <2>1, FilesNowhereIsNoPath DEF H!TypeOK
  <2>5. H!TypeOK'
    BY <1>1, <2>2, <2>3, <2>4, FilesStepped DEF H!TypeOK
  <2>6. H!Checked(u)' /\ H!Staged(u)'
    BY <1>1, FilesStepped DEF H!Checked, H!Staged
  <2>7. H!Alone(u)'
    BY <1>1, <2>2, <2>3, <2>4, FilesStepped DEF H!Alone, H!AsAsked
  <2>8. H!Inductive'
    <3>1. \A v \in Users \ {u} :
            /\ filesOp'[v] = filesOp[v] /\ filesTmp'[v] = filesTmp[v]
            /\ (filesOthers[v] => filesOthers'[v])
            /\ (H!Concerns(v, p) => filesOthers'[v]) /\ (H!Concerns(v, q) => filesOthers'[v])
            /\ (filesWriting'[v] # filesWriting[v] => filesWriting[v] \in {p, q} \cap Paths)
      BY <1>1, <2>3, <2>4, FilesStepped
    <3>2. \A r \in Paths \ {p, q} : filesFile'[r] = filesFile[r]
      BY <2>2
    <3> HIDE DEF p, q
    <3> QED  BY <2>5, <2>6, <2>7, <3>1, <3>2, FilesOthersKeep
  <2>9. ASSUME NEW r \in Paths, filesFile[r] > 0, filesFile[r] = H!Found(u, r)
        PROVE  H!Kept(filesFile[r])
    <3>1. r = p
      BY <2>9 DEF H!Found, H!Checked, H!None
    <3> QED  BY <1>1, <2>2, <2>5, <3>1, FilesKeptInPlace
  <2> QED  BY <1>1, <2>8, <2>9, FilesStepped, FilesTextOfOne
<1> QED  BY <1>2, <1>3

(* A file is copied.                                                       *)
LEMMA FilesCopyKeeps ==
  ASSUME H!Inductive, NEW u \in Users, H!Copy(u)
  PROVE  H!Inductive' /\ H!TextKept
<1> USE DEF H!Inductive
<1>1. /\ filesOp[u].pc = "cp" /\ filesOp[u].path \in Paths /\ H!Step(u, "look")
      /\ filesOp[u].kind = "copy"
      /\ filesOp[u].dest \in Paths \ {filesOp[u].path} /\ filesWriting[u] = H!Nowhere
      /\ H!Touch(u, filesOp[u].dest)
      /\ UNCHANGED <<filesTmp, filesTexts, filesOpened, filesHelperFaults, filesRequests,
           filesWriting>>
  BY DEF H!Copy, H!Staged, H!Alone
<1>2. /\ filesFile' \in [Paths -> H!TextIds \cup {H!None, H!Half}]
      /\ \A p \in Paths \ {filesOp[u].dest} : filesFile'[p] = filesFile[p]
      /\ filesFile'[filesOp[u].dest] = filesFile[filesOp[u].path]
  BY <1>1 DEF H!Copy, H!TypeOK
<1>3. H!TypeOK'
  BY <1>1, <1>2, FilesStepped, FilesTouched DEF H!TypeOK
<1>4. H!Checked(u)' /\ H!Staged(u)'
  BY <1>1, FilesStepped DEF H!Checked, H!Staged
<1>5. H!Alone(u)'
  BY <1>1, <1>2, FilesStepped, FilesTouched DEF H!Alone, H!AsAsked
<1>6. H!Inductive'
  BY <1>1, <1>2, <1>3, <1>4, <1>5, FilesStepped, FilesOneFile
<1>7. ASSUME NEW p \in Paths, filesFile[p] > 0, filesFile[p] = H!Found(u, p)
      PROVE  H!Kept(filesFile[p])
  <2>1. p = filesOp[u].path
    BY <1>7 DEF H!Found, H!Checked, H!None
  <2> QED  BY <1>1, <1>2, <1>3, <2>1, FilesKeptInPlace
<1> QED  BY <1>1, <1>6, <1>7, FilesStepped, FilesTextOfOne

(* A file is removed.                                                      *)
LEMMA FilesRemoveKeeps ==
  ASSUME H!Inductive, NEW u \in Users, H!Remove(u)
  PROVE  H!Inductive' /\ H!TextKept
<1> USE DEF H!Inductive
<1>1. /\ filesOp[u].pc = "rm" /\ filesOp[u].path \in Paths /\ H!End(u)
      /\ H!Touch(u, filesOp[u].path)
      /\ filesWriting[u] = H!Nowhere
      /\ UNCHANGED <<filesTmp, filesTexts, filesOpened, filesHelperFaults, filesRequests>>
  BY DEF H!Remove, H!Staged, H!Alone
<1>2. /\ filesFile' \in [Paths -> H!TextIds \cup {H!None, H!Half}]
      /\ \A p \in Paths \ {filesOp[u].path} : filesFile'[p] = filesFile[p]
  BY <1>1 DEF H!Remove, H!TypeOK
<1>3. /\ filesWriting' \in [Users -> Paths \cup {H!Nowhere}] /\ filesWriting'[u] = H!Nowhere
      /\ \A v \in Users \ {u} : filesWriting'[v] # filesWriting[v]
           => filesWriting[v] = filesOp[u].path
  BY <1>1 DEF H!Remove, H!TypeOK
<1>4. H!TypeOK'
  BY <1>1, <1>2, <1>3, FilesEnded, FilesTouched DEF H!TypeOK
<1>5. H!Inductive'
  BY <1>1, <1>2, <1>3, <1>4, FilesEnded, FilesOneFile
<1> QED  BY <1>1, <1>2, <1>5, FilesEnded, FilesTextOfOne, FilesOverwriting

(* Somebody else changes a file.                                           *)
LEMMA FilesOutsideKeeps ==
  ASSUME H!Inductive, H!Outside
  PROVE  H!Inductive' /\ H!TextKept
<1> USE DEF H!Inductive
<1>1. filesTexts + 1 \in H!TextIds
  BY FilesTextIsNew DEF H!Outside
<1>2. PICK p \in Paths :
        /\ filesFile' = [filesFile EXCEPT ![p] = filesTexts']
        /\ filesOthers' = [v \in Users |-> filesOthers[v] \/ H!Concerns(v, p)]
  BY DEF H!Outside
<1>3. /\ filesFile' \in [Paths -> H!TextIds \cup {H!None, H!Half}]
      /\ \A q \in Paths \ {p} : filesFile'[q] = filesFile[q]
      /\ UNCHANGED <<filesTmp, filesOpened, filesOp, filesHelperFaults, filesRequests,
           filesWriting>>
  BY <1>1, <1>2 DEF H!Outside, H!TypeOK
<1>4. H!TypeOK'
  BY <1>1, <1>2, <1>3 DEF H!Outside, H!TypeOK, H!Concerns
<1>5. ASSUME NEW u \in Users
      PROVE  H!Checked(u)' /\ H!Staged(u)' /\ H!Alone(u)'
  <2>1. H!Checked(u)' /\ H!Staged(u)'
    BY <1>3 DEF H!Checked, H!Staged
  <2>2. CASE filesOthers'[u]
    BY <1>3, <2>1, <2>2 DEF H!Inductive, H!Alone
  <2>3. CASE ~filesOthers'[u]
    <3>1. ~filesOthers[u] /\ filesOp[u].path # p /\ filesOp[u].dest # p
      BY <1>2, <2>3 DEF H!Concerns
    <3> QED  BY <1>3, <2>1, <3>1 DEF H!Alone, H!Staged, H!AsAsked
  <2> QED  BY <2>1, <2>2, <2>3
<1>6. H!Inductive'
  BY <1>4, <1>5
<1> QED  BY <1>3, <1>6 DEF H!TextKept, H!Staged, H!NoOp

(* No step breaks it, and every step keeps the texts.                      *)
LEMMA FilesStep == H!Inductive /\ [H!Next]_H!fileVars => H!Inductive' /\ H!TextKept
<1> SUFFICES ASSUME H!Inductive, [H!Next]_H!fileVars PROVE H!Inductive' /\ H!TextKept
  OBVIOUS
<1>1. CASE H!Next
  BY <1>1, FilesOutsideKeeps, FilesReadTextKeeps, FilesSaveKeeps, FilesUploadKeeps,
           FilesTakeKeeps, FilesDeleteKeeps, FilesPutKeeps,
     FilesPlaceNewKeeps, FilesMoveTmpKeeps, FilesTruncateKeeps, FilesCatKeeps,
     FilesRemoveTmpKeeps, FilesLookKeeps, FilesMoveKeeps,
     FilesCopyKeeps, FilesSourceGoneKeeps, FilesRemoveKeeps, FilesHelperFailsKeeps DEF H!Next
<1>2. CASE UNCHANGED H!fileVars
  BY <1>2 DEF H!fileVars, H!Inductive, H!TypeOK, H!Checked, H!Staged, H!Alone, H!AsAsked,
            H!TextKept, H!NoOp
<1> QED  BY <1>1, <1>2

(* ... and so it is as long as this component is the one at work.          *)
LEMMA FilesRuns == Spec => [](which = "files" => H!Inductive)
<1>1. Init => (which = "files" => H!Inductive)
  BY FilesInit DEF Init
<1>2. (which = "files" => H!Inductive) /\ [Next]_vars => (which = "files" => H!Inductive)'
  <2> SUFFICES ASSUME which = "files" => H!Inductive, [Next]_vars, which' = "files"
               PROVE  H!Inductive'
    OBVIOUS
  <2>1. which = "files" /\ (H!Next \/ UNCHANGED H!fileVars)
    BY OneAtWork DEF vars, H!fileVars
  <2> QED  BY <2>1, FilesStep
<1> QED  BY <1>1, <1>2, PTL DEF Spec

-----------------------------------------------------------------------------
(* The detector of the network watch (netwatch.py).                        *)
detNow == v1
detBindings == v2
detDevices == v3
detServers == v4
detFindings == v5
USE DEF detNow, detBindings, detDevices, detServers, detFindings

(* The component counts as this module does.                               *)
LEMMA DetectorFinite == \A set : W!IsFiniteSet(set) = IsFiniteSet(set)
  BY DEF IsFiniteSet, W!IsFiniteSet

(* ... and its sets have as many elements.                                 *)
LEMMA DetectorCount == \A set : W!Cardinality(set) = Cardinality(set)
  BY DetectorFinite DEF Cardinality, W!Cardinality

(* What is left when the excess is gone.                                   *)
LEMMA DetectorCutDown ==
  ASSUME NEW keys, IsFiniteSet(keys), NEW limit \in Nat,
         NEW gone \in SUBSET keys, Cardinality(gone) = W!Excess(keys, limit)
  PROVE  /\ IsFiniteSet(keys \ gone) /\ IsFiniteSet(gone)
         /\ Cardinality(keys \ gone) =< limit
         /\ gone # {} => Cardinality(keys \ gone) = limit
         /\ Cardinality(keys) =< limit => gone = {}
         /\ Cardinality(keys) = limit + 1 => Cardinality(gone) = 1
<1>1. /\ IsFiniteSet(gone) /\ IsFiniteSet(keys \ gone) /\ Cardinality(gone) \in Nat
      /\ Cardinality(keys) \in Nat
  BY FS_Subset, FS_CardinalityType
<1>2. Cardinality(keys \ gone) = Cardinality(keys) - Cardinality(keys \cap gone)
  BY FS_Difference
<1>3. keys \cap gone = gone
  OBVIOUS
<1>4. Cardinality(gone) = IF Cardinality(keys) > limit THEN Cardinality(keys) - limit ELSE 0
  BY DetectorCount DEF W!Excess
<1>5. Cardinality(gone) = 0 <=> gone = {}
  BY <1>1, FS_EmptySet
<1> DEFINE c == Cardinality(keys)
           g == Cardinality(gone)
           left == Cardinality(keys \ gone)
<1>6. /\ c \in Nat /\ g \in Nat /\ left = c - g
      /\ g = IF c > limit THEN c - limit ELSE 0
  BY <1>1, <1>2, <1>3, <1>4
<1>7. /\ left =< limit /\ (g # 0 => left = limit)
      /\ (c =< limit => g = 0) /\ (c = limit + 1 => g = 1)
  <2> HIDE DEF c, g, left
  <2> QED  BY <1>6
<1> QED  BY <1>1, <1>5, <1>7

(* From a list within its limit nothing goes.                              *)
LEMMA DetectorNoExcess ==
  ASSUME NEW keys, IsFiniteSet(keys), NEW limit \in Nat, Cardinality(keys) =< limit,
         NEW gone \in SUBSET keys, Cardinality(gone) = W!Excess(keys, limit)
  PROVE  gone = {}
  BY DetectorCutDown

(* From a list with one too many, one goes.                                *)
LEMMA DetectorOneTooMany ==
  ASSUME NEW keys, IsFiniteSet(keys), NEW limit \in Nat, Cardinality(keys) = limit + 1,
         NEW gone \in SUBSET keys, Cardinality(gone) = W!Excess(keys, limit)
  PROVE  gone # {} /\ Cardinality(keys \ gone) = limit
<1>1. Cardinality(gone) = 1
  BY DetectorCutDown
<1>2. gone # {}
  BY <1>1, FS_EmptySet
<1> QED  BY <1>2, DetectorCutDown

\* A list of findings, as seen at some time.
DetectorList(table, at) == /\ IsFiniteSet(DOMAIN table)
                           /\ \A k \in DOMAIN table : table[k] \in [severity : W!Severities,
                                last : 0..at]
\* ... within its limits.
DetectorShort(table) == /\ Cardinality(DOMAIN table) =< MaxFindings
                        /\ Cardinality(W!Infos(table)) =< MaxInfo

(* The entries of the lowest severity are some of all.                     *)
LEMMA DetectorInfosFinite ==
  ASSUME NEW at, NEW table, DetectorList(table, at)
  PROVE  W!Infos(table) \subseteq DOMAIN table /\ IsFiniteSet(W!Infos(table))
  BY FS_Subset DEF W!Infos, DetectorList

(* A list without some of its entries.                                     *)
LEMMA DetectorWithoutIs ==
  ASSUME NEW f, NEW gone
  PROVE  /\ DOMAIN W!Without(f, gone) = DOMAIN f \ gone
         /\ \A x \in DOMAIN f \ gone : W!Without(f, gone)[x] = f[x]
  BY DEF W!Without

(* A list with one more entry.                                             *)
LEMMA DetectorPutIs ==
  ASSUME NEW f, NEW x, NEW v
  PROVE  /\ DOMAIN W!Put(f, x, v) = DOMAIN f \cup {x}
         /\ W!Put(f, x, v)[x] = v
         /\ \A y \in DOMAIN f \ {x} : W!Put(f, x, v)[y] = f[y]
  BY DEF W!Put

(* An eviction, in its two parts.                                          *)
LEMMA DetectorEvictedIs ==
  ASSUME NEW at, NEW table, DetectorList(table, at), NEW new \in W!Evicted(table)
  PROVE  \E infos \in SUBSET W!Infos(table), gone \in SUBSET DOMAIN table :
           /\ gone \subseteq DOMAIN table \ infos
           /\ DOMAIN new = (DOMAIN table \ infos) \ gone
           /\ \A k \in DOMAIN new : new[k] = table[k]
           /\ Cardinality(infos) = W!Excess(W!Infos(table), MaxInfo)
           /\ Cardinality(gone) = W!Excess(DOMAIN table \ infos, MaxFindings)
           /\ \A g \in gone, k \in DOMAIN new : W!Before(table[g], table[k])
<1>1. PICK infos \in W!Lowest(table, W!Infos(table), W!Excess(W!Infos(table), MaxInfo)) :
        new \in {W!Without(W!Without(table, infos), gone) :
                   gone \in W!Lowest(W!Without(table, infos), DOMAIN W!Without(table, infos),
                                     W!Excess(DOMAIN W!Without(table, infos), MaxFindings))}
  BY DEF W!Evicted
<1> DEFINE rest == W!Without(table, infos)
<1>2. infos \in SUBSET W!Infos(table) /\ Cardinality(infos) = W!Excess(W!Infos(table), MaxInfo)
  BY <1>1, DetectorCount DEF W!Lowest
<1>3. PICK gone \in W!Lowest(rest, DOMAIN rest, W!Excess(DOMAIN rest, MaxFindings)) :
        new = W!Without(rest, gone)
  BY <1>1
<1>4. DOMAIN rest = DOMAIN table \ infos /\ \A k \in DOMAIN rest : rest[k] = table[k]
  <2>1. rest = [k \in DOMAIN table \ infos |-> table[k]]
    BY DEF W!Without
  <2> HIDE DEF rest
  <2> QED  BY <2>1
<1>5. /\ gone \in SUBSET DOMAIN rest /\ Cardinality(gone) = W!Excess(DOMAIN rest, MaxFindings)
      /\ \A g \in gone, k \in DOMAIN rest \ gone : W!Before(rest[g], rest[k])
  BY <1>3, DetectorCount DEF W!Lowest
<1>6. DOMAIN new = DOMAIN rest \ gone /\ \A k \in DOMAIN new : new[k] = rest[k]
  <2> HIDE DEF rest
  <2> QED  BY <1>3 DEF W!Without
<1>7. DOMAIN new = (DOMAIN table \ infos) \ gone /\ \A k \in DOMAIN new : new[k] = table[k]
  BY <1>4, <1>6
<1>8. \A g \in gone, k \in DOMAIN new : W!Before(table[g], table[k])
  BY <1>4, <1>5, <1>6
<1> HIDE DEF rest
<1> QED  BY <1>2, <1>4, <1>5, <1>7, <1>8

(* What is evicted before another is not more severe than it.              *)
LEMMA DetectorRanks ==
  ASSUME NEW at, NEW table, DetectorList(table, at), NEW k \in DOMAIN table
  PROVE  /\ W!Rank(table[k]) \in 0..2
         /\ W!Rank(table[k]) >= 1 <=> k \notin W!Infos(table)
         /\ \A g \in DOMAIN table : W!Before(table[g], table[k])
              => W!Rank(table[g]) =< W!Rank(table[k])
<1>1. \A g \in DOMAIN table : /\ table[g].severity \in W!Severities
                              /\ W!Rank(table[g]) \in 0..2
                              /\ W!Rank(table[g]) = 0 <=> table[g].severity = "info"
  BY DEF DetectorList, W!Severities, W!Rank
<1> QED  BY <1>1 DEF W!Before, W!Infos

(* A list that was cut down is short, and what it has lost was no alert,   *)
(* or the list is full and nothing in it ranks lower.                      *)
LEMMA DetectorEvictedKeeps ==
  ASSUME NEW at, NEW table, DetectorList(table, at), NEW new \in W!Evicted(table)
  PROVE  /\ DetectorList(new, at) /\ DetectorShort(new) /\ W!Kept(table, new)
         /\ DOMAIN new \subseteq DOMAIN table /\ \A k \in DOMAIN new : new[k] = table[k]
<1>1. PICK infos \in SUBSET W!Infos(table), gone \in SUBSET DOMAIN table :
        /\ gone \subseteq DOMAIN table \ infos
        /\ DOMAIN new = (DOMAIN table \ infos) \ gone
        /\ \A k \in DOMAIN new : new[k] = table[k]
        /\ Cardinality(infos) = W!Excess(W!Infos(table), MaxInfo)
        /\ Cardinality(gone) = W!Excess(DOMAIN table \ infos, MaxFindings)
        /\ \A g \in gone, k \in DOMAIN new : W!Before(table[g], table[k])
  BY DetectorEvictedIs
<1> DEFINE rest == DOMAIN table \ infos
<1>2. /\ DOMAIN new = rest \ gone /\ \A k \in DOMAIN new : new[k] = table[k]
      /\ Cardinality(gone) = W!Excess(rest, MaxFindings) /\ gone \in SUBSET rest
      /\ \A g \in gone, k \in rest \ gone : W!Before(table[g], table[k])
  BY <1>1
<1>3. /\ IsFiniteSet(W!Infos(table)) /\ W!Infos(table) \subseteq DOMAIN table
      /\ MaxInfo \in Nat /\ MaxFindings \in Nat
  BY DetectorInfosFinite, DetectorAssumption DEF W!DetectorSane
<1>4. IsFiniteSet(W!Infos(table) \ infos) /\ Cardinality(W!Infos(table) \ infos) =< MaxInfo
  BY <1>1, <1>3, DetectorCutDown
<1>5. IsFiniteSet(rest)
  BY FS_Subset DEF DetectorList
<1>6. /\ IsFiniteSet(rest \ gone) /\ Cardinality(rest \ gone) =< MaxFindings
      /\ gone # {} => Cardinality(rest \ gone) = MaxFindings
  <2> HIDE DEF rest
  <2> QED  BY <1>2, <1>3, <1>5, DetectorCutDown
<1>7. DetectorList(new, at)
  BY <1>2, <1>6 DEF DetectorList
<1>8. W!Infos(new) \in SUBSET (W!Infos(table) \ infos)
  BY <1>2 DEF W!Infos
<1>9. DetectorShort(new)
  <2>1. /\ Cardinality(W!Infos(new)) =< Cardinality(W!Infos(table) \ infos)
        /\ IsFiniteSet(W!Infos(new))
    BY <1>4, <1>8, FS_Subset
  <2>2. Cardinality(W!Infos(new)) \in Nat /\ Cardinality(W!Infos(table) \ infos) \in Nat
    BY <1>4, <2>1, FS_CardinalityType
  <2> QED  BY <1>2, <1>3, <1>4, <1>6, <2>1, <2>2 DEF DetectorShort
<1>10. W!Kept(table, new)
  <2> SUFFICES ASSUME NEW k \in W!Alerts(table) \ DOMAIN new PROVE W!FullOf(new, W!Rank(table[k]))
    BY DEF W!Kept
  <2>1. k \in DOMAIN table /\ k \notin W!Infos(table) /\ k \in gone
    BY <1>2 DEF W!Alerts, W!Infos
  <2>2. \A other \in DOMAIN new : W!Rank(new[other]) >= W!Rank(table[k])
    BY <1>2, <2>1, DetectorRanks
  <2>3. W!Infos(new) = {}
    BY <1>7, <2>1, <2>2, DetectorRanks DEF W!Infos
  <2> QED  BY <1>2, <1>6, <2>1, <2>2, <2>3, DetectorCount DEF W!FullOf
<1> QED  BY <1>2, <1>7, <1>9, <1>10

(* Raising a finding keeps the alerts that were there, and a list that was *)
(* full of a rank stays full of it.                                        *)
LEMMA DetectorRaisedKeeps ==
  ASSUME NEW at \in Nat, NEW table, DetectorList(table, at), DetectorShort(table),
         NEW key, NEW severity \in W!Severities, NEW new \in W!Raised(table, key, severity, at)
  PROVE  /\ DetectorList(new, at) /\ DetectorShort(new) /\ W!Kept(table, new)
         /\ \A k \in DOMAIN table \cap DOMAIN new : new[k].severity = table[k].severity
         /\ \A rank \in 1..2 : W!FullOf(table, rank) => W!FullOf(new, rank)
<1>1. CASE key \in DOMAIN table
  <2>1. new = [table EXCEPT ![key].last = at]
    BY <1>1 DEF W!Raised
  <2>2. DOMAIN new = DOMAIN table /\ \A k \in DOMAIN table : new[k].severity = table[k].severity
    BY <1>1, <2>1 DEF DetectorList
  <2>3. \A k \in DOMAIN table : new[k] \in [severity : W!Severities, last : 0..at]
    BY <1>1, <2>1 DEF DetectorList
  <2>4. W!Infos(new) = W!Infos(table)
    BY <2>2 DEF W!Infos
  <2>5. \A k \in DOMAIN table : W!Rank(new[k]) = W!Rank(table[k])
    BY <2>2 DEF W!Rank
  <2> QED  BY <2>2, <2>3, <2>4, <2>5 DEF DetectorList, DetectorShort, W!Kept, W!Alerts, W!FullOf
<1>2. CASE key \notin DOMAIN table
  <2> DEFINE more == W!Put(table, key, [severity |-> severity, last |-> at])
  <2>1. new \in W!Evicted(more)
    BY <1>2 DEF W!Raised
  <2>2. /\ DOMAIN more = DOMAIN table \cup {key}
        /\ more[key] = [severity |-> severity, last |-> at]
        /\ \A k \in DOMAIN table : more[k] = table[k]
    BY <1>2 DEF W!Put
  <2>3. DetectorList(more, at)
    <3>1. IsFiniteSet(DOMAIN more)
      BY <2>2, FS_AddElement DEF DetectorList
    <3> QED  BY <2>2, <3>1 DEF DetectorList
  <2> HIDE DEF more
  <2>4. /\ DetectorList(new, at) /\ DetectorShort(new) /\ W!Kept(more, new)
        /\ DOMAIN new \subseteq DOMAIN more /\ \A k \in DOMAIN new : new[k] = more[k]
    BY <2>1, <2>3, DetectorEvictedKeeps
  <2>5. W!Kept(table, new)
    BY <2>2, <2>4 DEF W!Kept, W!Alerts
  <2>6. ASSUME NEW rank \in 1..2, W!FullOf(table, rank)
        PROVE  W!FullOf(new, rank)
    <3>1. PICK infos \in SUBSET W!Infos(more), gone \in SUBSET DOMAIN more :
            /\ gone \subseteq DOMAIN more \ infos
            /\ DOMAIN new = (DOMAIN more \ infos) \ gone
            /\ \A k \in DOMAIN new : new[k] = more[k]
            /\ Cardinality(infos) = W!Excess(W!Infos(more), MaxInfo)
            /\ Cardinality(gone) = W!Excess(DOMAIN more \ infos, MaxFindings)
            /\ \A g \in gone, k \in DOMAIN new : W!Before(more[g], more[k])
      BY <2>1, <2>3, DetectorEvictedIs
    <3>2. infos \subseteq {key} /\ \A k \in DOMAIN table : W!Rank(more[k]) >= rank
      BY <2>2, <2>6 DEF W!FullOf, W!Infos
    <3>3. Cardinality(DOMAIN table) = MaxFindings /\ MaxFindings \in Nat
      BY <2>6, DetectorAssumption, DetectorCount DEF W!FullOf, W!DetectorSane
    <3>4. DOMAIN new = (DOMAIN more \ infos) \ gone
      BY <3>1
    <3>5. CASE key \in infos
      <4>1. DOMAIN more \ infos = DOMAIN table
        BY <1>2, <2>2, <3>2, <3>5
      <4>2. gone = {}
        <5>1. IsFiniteSet(DOMAIN table) /\ gone \in SUBSET DOMAIN table
              /\ Cardinality(DOMAIN table) =< MaxFindings
          BY <3>1, <3>3, <4>1 DEF DetectorList
        <5>2. Cardinality(gone) = W!Excess(DOMAIN table, MaxFindings)
          BY <3>1, <4>1
        <5> QED  BY <3>3, <5>1, <5>2, DetectorNoExcess
      <4>3. DOMAIN new = DOMAIN table
        BY <3>4, <4>1, <4>2
      <4> QED  BY <2>2, <2>4, <2>6, <3>3, <4>3 DEF W!FullOf, W!Infos
    <3>6. CASE key \notin infos
      <4>1. DOMAIN more \ infos = DOMAIN table \cup {key}
        BY <2>2, <3>2, <3>6
      <4>2. Cardinality(DOMAIN table \cup {key}) = MaxFindings + 1
            /\ IsFiniteSet(DOMAIN table \cup {key})
        BY <1>2, <3>3, FS_AddElement DEF DetectorList
      <4>3. gone \in SUBSET (DOMAIN table \cup {key})
        BY <3>1, <4>1
      <4>4. gone # {} /\ Cardinality(DOMAIN new) = MaxFindings
        <5>1. Cardinality(gone) = W!Excess(DOMAIN table \cup {key}, MaxFindings)
          BY <3>1, <4>1
        <5>2. gone # {} /\ Cardinality((DOMAIN table \cup {key}) \ gone) = MaxFindings
          BY <3>3, <4>2, <4>3, <5>1, DetectorOneTooMany
        <5> QED  BY <3>4, <4>1, <5>2
      <4>5. \A k \in DOMAIN new : W!Rank(new[k]) >= rank
        <5> TAKE k \in DOMAIN new
        <5>1. CASE k # key
          BY <2>2, <2>4, <3>2, <5>1
        <5>2. CASE k = key
          <6>1. PICK g \in gone : TRUE
            BY <4>4
          <6>2. g \in DOMAIN table /\ W!Before(more[g], more[k])
            BY <2>2, <3>1, <3>4, <4>1, <5>2, <6>1
          <6>3. W!Rank(more[g]) =< W!Rank(more[k]) /\ W!Rank(more[g]) >= rank
            BY <2>2, <2>3, <2>4, <3>2, <6>2, DetectorRanks
          <6>4. W!Rank(more[g]) \in 0..2 /\ W!Rank(more[k]) \in 0..2 /\ new[k] = more[k]
            BY <2>2, <2>3, <2>4, <6>2, DetectorRanks
          <6> QED  BY <6>3, <6>4
        <5> QED  BY <5>1, <5>2
      <4>6. W!Infos(new) = {}
        <5>1. \A k \in DOMAIN new : k \notin W!Infos(new)
          BY <2>4, <4>5, DetectorRanks
        <5> QED  BY <5>1 DEF W!Infos
      <4> QED  BY <4>4, <4>5, <4>6, DetectorCount DEF W!FullOf
    <3> QED  BY <3>5, <3>6
  <2> QED  BY <2>2, <2>4, <2>5, <2>6
<1> QED  BY <1>1, <1>2

(* Two findings may be raised by one event; what the first pushed out, the *)
(* second does not make wrong.                                             *)
LEMMA DetectorTwice ==
  ASSUME NEW at \in Nat, NEW table, NEW between, NEW new, DetectorList(table, at),
         DetectorList(between, at),
         W!Kept(table, between), W!Kept(between, new),
         \A k \in DOMAIN table \cap DOMAIN between : between[k].severity = table[k].severity,
         \A rank \in 1..2 : W!FullOf(between, rank) => W!FullOf(new, rank)
  PROVE  W!Kept(table, new)
<1> SUFFICES ASSUME NEW k \in W!Alerts(table) \ DOMAIN new PROVE W!FullOf(new, W!Rank(table[k]))
  BY DEF W!Kept
<1>1. k \in DOMAIN table /\ k \notin W!Infos(table) /\ W!Rank(table[k]) \in 1..2
  <2>1. k \in DOMAIN table /\ k \notin W!Infos(table)
    BY DEF W!Alerts, W!Infos
  <2> QED  BY <2>1, DetectorRanks
<1>2. CASE k \in DOMAIN between
  <2>1. between[k].severity = table[k].severity
    BY <1>1, <1>2
  <2>2. W!Rank(between[k]) = W!Rank(table[k])
    BY <2>1 DEF W!Rank
  <2>3. k \in W!Alerts(between)
    BY <1>2, <2>1 DEF W!Alerts
  <2> QED  BY <2>2, <2>3 DEF W!Kept
<1>3. CASE k \notin DOMAIN between
  BY <1>1, <1>3 DEF W!Kept
<1> QED  BY <1>2, <1>3

(* _trim leaves a table within its limit.                                  *)
LEMMA DetectorTrimmedKeeps ==
  ASSUME NEW table, NEW age, IsFiniteSet(DOMAIN table), NEW new \in W!Trimmed(table, age)
  PROVE  /\ IsFiniteSet(DOMAIN new) /\ Cardinality(DOMAIN new) =< MaxKnown
         /\ DOMAIN new \subseteq DOMAIN table /\ \A x \in DOMAIN new : new[x] = table[x]
<1>1. PICK g \in SUBSET DOMAIN table : /\ Cardinality(g) = W!Excess(DOMAIN table, MaxKnown)
                                       /\ new = W!Without(table, g)
  BY DetectorCount DEF W!Trimmed
<1>2. DOMAIN new = DOMAIN table \ g /\ \A x \in DOMAIN new : new[x] = table[x]
  BY <1>1 DEF W!Without
<1>3. IsFiniteSet(DOMAIN table \ g) /\ Cardinality(DOMAIN table \ g) =< MaxKnown
  BY <1>1, DetectorCutDown, DetectorAssumption DEF W!DetectorSane
<1> QED  BY <1>2, <1>3

(* At the start there are no findings.                                     *)
LEMMA DetectorInit == W!Init => W!Inductive
<1> SUFFICES ASSUME W!Init PROVE W!Inductive
  OBVIOUS
<1>1. /\ DOMAIN detBindings = {} /\ DOMAIN detDevices = {} /\ DOMAIN detFindings = {}
      /\ detServers = {} /\ detNow = 0
  BY DEF W!Init
<1>2. W!Infos(detFindings) = {}
  BY <1>1 DEF W!Infos
<1> QED  BY <1>1, <1>2, FS_EmptySet, DetectorAssumption, DetectorFinite, DetectorCount
         DEF W!Inductive, W!TypeOK, W!DetectorSane

(* The findings, as the lemmas above want them.                            *)
LEMMA DetectorFindingsNow ==
  ASSUME W!Inductive, NEW at \in detNow..LastMoment
  PROVE  DetectorList(detFindings, at) /\ DetectorShort(detFindings) /\ at \in Nat
         /\ detNow \in Nat
<1>1. detNow \in 0..LastMoment /\ LastMoment \in Nat
  BY DetectorAssumption DEF W!Inductive, W!TypeOK, W!DetectorSane
<1>2. 0..detNow \subseteq 0..at
  BY <1>1
<1>3. \A k \in DOMAIN detFindings : detFindings[k] \in [severity : W!Severities, last : 0..at]
  BY <1>2 DEF W!Inductive, W!TypeOK
<1> QED  BY <1>1, <1>3, DetectorFinite, DetectorCount DEF W!Inductive, W!TypeOK, DetectorList,
                  DetectorShort

(* What a list within its limits gives the invariant.                      *)
LEMMA DetectorFindingsKept ==
  ASSUME DetectorList(detFindings', detNow'), DetectorShort(detFindings')
  PROVE  /\ IsFiniteSet(DOMAIN detFindings') /\ Cardinality(DOMAIN detFindings') =< MaxFindings
         /\ Cardinality(W!Infos(detFindings)') =< MaxInfo
         /\ \A k \in DOMAIN detFindings' : detFindings'[k] \in [severity : W!Severities,
              last : 0..detNow']
  BY DEF DetectorList, DetectorShort, W!Infos

(* An ARP packet: a new device, or an address that has changed hands.      *)
LEMMA DetectorObserveArpKeeps ==
  ASSUME W!Inductive, detNow' \in detNow..LastMoment, NEW a \in Addresses, NEW mac \in Macs,
         W!ObserveArp(a, mac, detNow')
  PROVE  W!Inductive' /\ W!AlertKept
<1>1. DetectorList(detFindings, detNow') /\ DetectorShort(detFindings) /\ detNow' \in Nat
      /\ detNow \in Nat
  BY DetectorFindingsNow
<1>2. PICK table \in W!NewDevice(mac, detNow') :
           detFindings' \in W!Claimed(table, a, mac, detNow')
  BY DEF W!ObserveArp
<1>3. /\ DetectorList(table, detNow') /\ DetectorShort(table) /\ W!Kept(detFindings, table)
      /\ \A k \in DOMAIN detFindings \cap DOMAIN table : table[k].severity
           = detFindings[k].severity
  <2>1. CASE table = detFindings
    BY <1>1, <2>1 DEF W!Kept, W!Alerts
  <2>2. CASE table \in W!Raised(detFindings, <<"new", mac>>, "info", detNow')
    <3>1. "info" \in W!Severities
      BY DEF W!Severities
    <3> QED  BY <1>1, <2>2, <3>1, DetectorRaisedKeeps
  <2> QED  BY <1>2, <2>1, <2>2 DEF W!NewDevice
<1>4. /\ DetectorList(detFindings', detNow') /\ DetectorShort(detFindings')
      /\ W!Kept(table, detFindings')
      /\ \A rank \in 1..2 : W!FullOf(table, rank) => W!FullOf(detFindings', rank)
  <2>1. CASE detFindings' = table
    BY <1>3, <2>1 DEF W!Kept, W!Alerts
  <2>2. CASE detFindings' # table
    <3>1. detFindings' \in W!Changed(table, a, mac, detNow') /\ a \in DOMAIN detBindings
      BY <1>2, <2>2 DEF W!Claimed
    <3>2. detNow' - detBindings[a].last \in Int /\ IdleTime \in Int
      BY <1>1, <3>1, DetectorAssumption DEF W!Inductive, W!TypeOK, W!DetectorSane
    <3>3. PICK severity \in W!Severities :
               \E key : detFindings' \in W!Raised(table, key, severity, detNow')
      <4>1. CASE a = Gateway
        BY <3>1, <4>1 DEF W!Changed, W!Severities
      <4>2. CASE a # Gateway /\ detNow' - detBindings[a].last > IdleTime
        BY <3>1, <4>2 DEF W!Changed, W!Severities
      <4>3. CASE a # Gateway /\ detNow' - detBindings[a].last =< IdleTime
        <5>1. ~(detNow' - detBindings[a].last > IdleTime)
          BY <3>2, <4>3
        <5> QED  BY <3>1, <4>3, <5>1 DEF W!Changed, W!Severities
      <4> QED  BY <3>2, <4>1, <4>2, <4>3
    <3> QED  BY <1>1, <1>3, <3>3, DetectorRaisedKeeps
  <2> QED  BY <2>1, <2>2
<1>5. W!Kept(detFindings, detFindings')
  BY <1>1, <1>3, <1>4, DetectorTwice
<1>6. PICK first :
           /\ first = (IF mac \in DOMAIN detDevices THEN detDevices ELSE W!Put(detDevices, mac,
                detNow'))
           /\ detDevices' \in W!Trimmed(first, first)
  BY DEF W!ObserveArp
<1>7. DOMAIN first \subseteq Macs /\ IsFiniteSet(DOMAIN first)
  <2>1. DOMAIN first \in {DOMAIN detDevices, DOMAIN detDevices \cup {mac}}
    BY <1>6, DetectorPutIs
  <2>2. IsFiniteSet(DOMAIN detDevices) /\ DOMAIN detDevices \subseteq Macs
    BY DetectorFinite DEF W!Inductive, W!TypeOK
  <2> QED  BY <2>1, <2>2, FS_AddElement
<1>8. /\ DOMAIN detDevices' \subseteq Macs /\ IsFiniteSet(DOMAIN detDevices')
      /\ Cardinality(DOMAIN detDevices') =< MaxKnown
  BY <1>6, <1>7, DetectorTrimmedKeeps
<1>9. PICK held, age : /\ held = W!Put(detBindings, a, [mac |-> mac, last |-> detNow'])
                       /\ detBindings' \in W!Trimmed(held, age)
  BY DEF W!ObserveArp
<1>10. DOMAIN held \subseteq Addresses /\ IsFiniteSet(DOMAIN held)
  <2>1. DOMAIN held = DOMAIN detBindings \cup {a}
    BY <1>9, DetectorPutIs
  <2>2. IsFiniteSet(DOMAIN detBindings) /\ DOMAIN detBindings \subseteq Addresses
    BY DetectorFinite DEF W!Inductive, W!TypeOK
  <2> QED  BY <2>1, <2>2, FS_AddElement
<1>11. \A x \in DOMAIN held : held[x] \in [mac : Macs, last : 0..detNow']
  <2>1. 0..detNow \subseteq 0..detNow'
    BY <1>1
  <2>2. \A x \in DOMAIN held : held[x] = IF x = a THEN [mac |-> mac,
        last |-> detNow'] ELSE detBindings[x]
    BY <1>9 DEF W!Put
  <2>3. DOMAIN held = DOMAIN detBindings \cup {a}
    BY <1>9, DetectorPutIs
  <2> QED  BY <1>1, <2>1, <2>2, <2>3 DEF W!Inductive, W!TypeOK
<1>12. /\ DOMAIN detBindings' \subseteq Addresses /\ IsFiniteSet(DOMAIN detBindings')
       /\ Cardinality(DOMAIN detBindings') =< MaxKnown
       /\ \A x \in DOMAIN detBindings' : detBindings'[x] \in [mac : Macs, last : 0..detNow']
  BY <1>9, <1>10, <1>11, DetectorTrimmedKeeps
<1>13. detNow' \in 0..LastMoment /\ detServers' \subseteq Servers
  BY <1>1 DEF W!ObserveArp, W!Inductive, W!TypeOK
<1>14. W!TypeOK'
  BY <1>4, <1>8, <1>12, <1>13, DetectorFindingsKept, DetectorCount DEF W!TypeOK
<1> QED  BY <1>4, <1>5, <1>8, <1>12, <1>14, DetectorFindingsKept, DetectorFinite DEF W!Inductive,
                  W!AlertKept

(* A DHCP offer, perhaps of a server not seen before.                      *)
LEMMA DetectorObserveDhcpKeeps ==
  ASSUME W!Inductive, detNow' \in detNow..LastMoment, NEW s \in Servers, W!ObserveDhcp(s, detNow')
  PROVE  W!Inductive' /\ W!AlertKept
<1>1. DetectorList(detFindings, detNow') /\ DetectorShort(detFindings) /\ detNow' \in Nat
      /\ detNow \in Nat
  BY DetectorFindingsNow
<1>2. DetectorList(detFindings', detNow') /\ DetectorShort(detFindings')
      /\ W!Kept(detFindings, detFindings')
  <2>1. CASE detFindings' = detFindings
    BY <1>1, <2>1 DEF W!Kept, W!Alerts
  <2>2. CASE detFindings' \in W!Raised(detFindings, <<"dhcp", s>>, "warn", detNow')
    <3>1. "warn" \in W!Severities
      BY DEF W!Severities
    <3> QED  BY <1>1, <2>2, <3>1, DetectorRaisedKeeps
  <2> QED  BY <2>1, <2>2 DEF W!ObserveDhcp
<1>3. 0..detNow \subseteq 0..detNow' /\ detNow' \in 0..LastMoment
  BY <1>1
<1>4. UNCHANGED <<detBindings, detDevices>> /\ detServers' \subseteq Servers
  BY DEF W!ObserveDhcp, W!Inductive, W!TypeOK
<1>5. W!TypeOK'
  BY <1>2, <1>3, <1>4, DetectorFindingsKept, DetectorCount DEF W!Inductive, W!TypeOK
<1> QED  BY <1>2, <1>4, <1>5, DetectorFindingsKept, DetectorFinite DEF W!Inductive, W!AlertKept

(* No step breaks it, and none pushes out an alert that a lesser finding   *)
(* could.                                                                  *)
LEMMA DetectorStep == W!Inductive /\ [W!Next]_W!watchVars => W!Inductive' /\ W!AlertKept
<1> SUFFICES ASSUME W!Inductive, [W!Next]_W!watchVars PROVE W!Inductive' /\ W!AlertKept
  OBVIOUS
<1>1. CASE W!Next
  BY <1>1, DetectorObserveArpKeeps, DetectorObserveDhcpKeeps DEF W!Next
<1>2. CASE UNCHANGED W!watchVars
  BY <1>2 DEF W!watchVars, W!Inductive, W!TypeOK, W!Infos, W!AlertKept, W!Kept, W!Alerts
<1> QED  BY <1>1, <1>2

(* ... and so it is as long as this component is the one at work.          *)
LEMMA DetectorRuns == Spec => [](which = "detector" => W!Inductive)
<1>1. Init => (which = "detector" => W!Inductive)
  BY DetectorInit DEF Init
<1>2. (which = "detector" => W!Inductive) /\ [Next]_vars
      => (which = "detector" => W!Inductive)'
  <2> SUFFICES ASSUME which = "detector" => W!Inductive, [Next]_vars, which' = "detector"
               PROVE  W!Inductive'
    OBVIOUS
  <2>1. which = "detector" /\ (W!Next \/ UNCHANGED W!watchVars)
    BY OneAtWork DEF vars, W!watchVars
  <2> QED  BY <2>1, DetectorStep
<1> QED  BY <1>1, <1>2, PTL DEF Spec

-----------------------------------------------------------------------------
(* The updates and edits of projects (updates.py, compose_edit.py).        *)
projTag == v1
projImages == v2
projKept == v3
projText == v4
projRunning == v5
projUpdate == v6
projChange == v7
projUps == v8
projJobs == v9
projMishaps == v10
projExcused == v11
USE DEF projTag, projImages, projKept, projText, projRunning, projUpdate, projChange,
        projUps, projJobs, projMishaps, projExcused

(* Every project has an image.                                             *)
LEMMA ProjectNamed == \A p \in Projects : ImageOf[p] \in P!Refs
  BY DEF P!Refs

(* Excuses, and steps of the two kinds of job.                             *)
LEMMA ProjectExcuseIs ==
  ASSUME P!TypeOK, NEW ps, P!Excuse(ps)
  PROVE  /\ projExcused' \in [Projects -> BOOLEAN]
         /\ \A p \in Projects : projExcused'[p] <=> projExcused[p] \/ p \in ps
<1>1. projExcused \in [Projects -> BOOLEAN]
      /\ projExcused' = [p \in Projects |-> projExcused[p] \/ p \in ps]
  BY DEF P!TypeOK, P!Excuse
<1> QED  BY <1>1, Zenon

(* One mishap more, within the bound.                                      *)
LEMMA ProjectMishapIs == ASSUME P!TypeOK, P!Mishap PROVE projMishaps' \in 0..MaxMishaps
  BY ProjectsAssumption DEF P!TypeOK, P!Mishap, P!ProjectsSane

(* The update goes on; what it knows of the old image stays.               *)
LEMMA ProjectStepIs ==
  ASSUME P!TypeOK,
         NEW pc \in {"next", "pull", "up", "watch_up", "watch", "retag", "upback",
         "watch_upback", "untag",
                 "hung"},
         P!Step(pc)
  PROVE  /\ projUpdate' \in P!Updates /\ projUpdate'.pc = pc /\ projUpdate'.on = projUpdate.on
         /\ projUpdate'.old = projUpdate.old /\ projUpdate'.undone = projUpdate.undone
         /\ projUpdate'.was = projUpdate.was /\ projUpdate'.astray = projUpdate.astray
  BY DEF P!TypeOK, P!Updates, P!Step

(* An edit goes on; what it knows of the old file stays.                   *)
LEMMA ProjectGotoIs ==
  ASSUME P!TypeOK, NEW p \in Projects,
         NEW pc \in {"up", "watch_up", "watch", "restore", "upback", "watch_upback", "done"},
         P!Goto(p, pc)
  PROVE  /\ projChange' \in [Projects -> P!Changes]
         /\ projChange'[p].pc = pc /\ projChange'[p].new = projChange[p].new
         /\ projChange'[p].previous = projChange[p].previous
         /\ projChange'[p].undone = projChange[p].undone
         /\ \A q \in Projects \ {p} : projChange'[q] = projChange[q]
<1> DEFINE r == [projChange[p] EXCEPT !.pc = pc]
<1>1. projChange[p] \in P!Changes
  BY DEF P!TypeOK
<1>2. /\ r \in P!Changes /\ r.pc = pc /\ r.new = projChange[p].new
      /\ r.previous = projChange[p].previous /\ r.undone = projChange[p].undone
  BY <1>1 DEF P!Changes
<1>3. projChange' = [projChange EXCEPT ![p] = r]
  BY DEF P!Goto
<1>4. projChange' \in [Projects -> P!Changes] /\ projChange'[p] = r
      /\ \A q \in Projects \ {p} : projChange'[q] = projChange[q]
  <2> HIDE DEF r
  <2> QED  BY <1>2, <1>3 DEF P!TypeOK
<1> HIDE DEF r
<1> QED  BY <1>2, <1>4

(* No edit.                                                                *)
LEMMA ProjectNoChangeIs == P!NoChange \in P!Changes /\ P!NoChange.pc = "idle"
  BY ProjectsAssumption DEF P!NoChange, P!Changes, P!ProjectsSane

(* No update.                                                              *)
LEMMA ProjectNoUpdateIs ==
  /\ P!NoUpdate \in P!Updates /\ P!NoUpdate.pc = "idle" /\ ~P!NoUpdate.undone
  /\ P!NoUpdate.was = P!NoUpdate.old
  BY ProjectsAssumption DEF P!NoUpdate, P!Updates, P!ProjectsSane, P!Releases

(* An edit that is over.                                                   *)
LEMMA ProjectOverIs ==
  ASSUME P!TypeOK, NEW p \in Projects, P!Over(p)
  PROVE  /\ projChange' \in [Projects -> P!Changes] /\ projChange'[p].pc = "idle"
         /\ \A q \in Projects \ {p} : projChange'[q] = projChange[q]
<1>1. projChange' \in [Projects -> P!Changes] /\ projChange'[p] = P!NoChange
      /\ \A q \in Projects \ {p} : projChange'[q] = projChange[q]
  BY ProjectNoChangeIs DEF P!TypeOK, P!Over
<1> QED  BY <1>1, ProjectNoChangeIs

(* A helper that begins makes what file and tag say.                       *)
LEMMA ProjectBeginIs ==
  ASSUME P!TypeOK, NEW p \in Projects, NEW by \in {"update", "edit"}, P!Begin(p, by)
  PROVE  /\ projUps' \subseteq P!Helpers /\ projUps \subseteq projUps'
         /\ \E u \in projUps' : u.on = p /\ u.by = by
         /\ \A u \in projUps' \ projUps : u.on = p /\ u.makes = P!Now(p)
         /\ projExcused' \in [Projects -> BOOLEAN]
         /\ \A q \in Projects : ~projExcused'[q] => ~projExcused[q]
         /\ P!UpsOf(p)' # {}
         /\ ~projExcused'[p] => /\ \A u, v \in P!UpsOf(p)' : u = v
                                /\ \A u \in P!UpsOf(p)' : u.makes = P!Now(p)
         /\ \A q \in Projects \ {p} : P!UpsOf(q)' = P!UpsOf(q)
<1> DEFINE new == [on |-> p, by |-> by, makes |-> P!Now(p)]
<1>1. projUps' = projUps \cup {new}
  BY DEF P!Begin
<1>2. P!Now(p) \in P!Stacks
  BY ProjectNamed DEF P!TypeOK, P!Now, P!Stacks
<1>3. new \in P!Helpers /\ new.on = p /\ new.by = by /\ new.makes = P!Now(p)
  BY <1>2 DEF P!Helpers
<1>4. /\ projExcused' \in [Projects -> BOOLEAN]
      /\ \A q \in Projects : ~projExcused'[q] => ~projExcused[q]
      /\ ~projExcused'[p] => P!UpsOf(p) = {}
  <2>1. CASE P!UpsOf(p) = {}
    BY <2>1 DEF P!Begin, P!TypeOK
  <2>2. CASE P!UpsOf(p) # {}
    <3>1. P!Excuse({p})
      BY <2>2 DEF P!Begin
    <3> QED  BY <3>1, ProjectExcuseIs
  <2> QED  BY <2>1, <2>2
<1> HIDE DEF new
<1>5. P!UpsOf(p)' = P!UpsOf(p) \cup {new} /\ \A q \in Projects \ {p} : P!UpsOf(q)' = P!UpsOf(q)
  BY <1>1, <1>3 DEF P!UpsOf
<1>6. ~projExcused'[p] => /\ \A u, v \in P!UpsOf(p)' : u = v
                          /\ \A u \in P!UpsOf(p)' : u.makes = P!Now(p)
  BY <1>3, <1>4, <1>5
<1>7. projUps' \subseteq P!Helpers
  BY <1>1, <1>3 DEF P!TypeOK
<1> QED  BY <1>1, <1>3, <1>4, <1>5, <1>6, <1>7

(* When a helper has ended, its project has an excuse, or runs what file   *)
(* and tag say, or what that helper made.                                  *)
LEMMA ProjectEndedIs ==
  ASSUME P!Sound, NEW u \in projUps, NEW made \in BOOLEAN, NEW excuse \in BOOLEAN,
         P!Ended(u, made, excuse), UNCHANGED <<projTag, projText>>
  PROVE  /\ u.on \in Projects /\ projUps' = projUps \ {u}
         /\ projRunning' \in [Projects -> P!Stacks] /\ projExcused' \in [Projects -> BOOLEAN]
         /\ \A q \in Projects \ {u.on} :
              /\ projRunning'[q] = projRunning[q] /\ projExcused'[q] = projExcused[q]
              /\ P!UpsOf(q)' = P!UpsOf(q)
         /\ ~projExcused'[u.on] => P!UpsOf(u.on)' = {}
         /\ ~projExcused'[u.on] =>
              \/ /\ projRunning'[u.on].text = projText[u.on]
                 /\ projRunning'[u.on].image = projTag[ImageOf[u.on]]
              \/ /\ ~projExcused[u.on] /\ ~excuse
                 /\ projRunning'[u.on] = IF made THEN u.makes ELSE projRunning[u.on]
<1>1. u \in P!Helpers /\ u.on \in Projects /\ u.makes \in P!Stacks /\ u \in P!UpsOf(u.on)
  BY DEF P!Sound, P!TypeOK, P!Helpers, P!UpsOf
<1>2. projUps' = projUps \ {u}
      /\ projRunning' = [projRunning EXCEPT ![u.on] = IF made THEN u.makes ELSE @]
  BY DEF P!Ended
<1>3. /\ projRunning' \in [Projects -> P!Stacks]
      /\ projRunning'[u.on] = IF made THEN u.makes ELSE projRunning[u.on]
      /\ \A q \in Projects \ {u.on} : projRunning'[q] = projRunning[q]
  BY <1>1, <1>2 DEF P!Sound, P!TypeOK
<1>4. PICK settled \in BOOLEAN :
           settled <=> (projRunning'[u.on] = P!Now(u.on) /\ P!UpsOf(u.on) = {u})
  OBVIOUS
<1>5. /\ projExcused' \in [Projects -> BOOLEAN]
      /\ projExcused'[u.on] <=> ((projExcused[u.on] \/ excuse) /\ ~settled)
      /\ \A q \in Projects \ {u.on} : projExcused'[q] = projExcused[q]
  <2>1. projExcused' = [projExcused EXCEPT ![u.on] = (@ \/ excuse) /\ ~(projRunning'[u.on]
        = P!Now(u.on) /\ P!UpsOf(u.on) = {u})]
    BY DEF P!Ended
  <2>2. projExcused \in [Projects -> BOOLEAN]
    BY DEF P!Sound, P!TypeOK
  <2> QED  BY <1>1, <1>4, <2>1, <2>2, Zenon
<1>6. \A q \in Projects \ {u.on} : P!UpsOf(q)' = P!UpsOf(q)
  BY <1>2 DEF P!UpsOf
<1>7. P!UpsOf(u.on)' = P!UpsOf(u.on) \ {u}
  BY <1>2 DEF P!UpsOf
<1>8. ASSUME ~projExcused'[u.on]
      PROVE  /\ P!UpsOf(u.on)' = {}
             /\ \/ /\ projRunning'[u.on].text = projText[u.on]
                   /\ projRunning'[u.on].image = projTag[ImageOf[u.on]]
                \/ /\ ~projExcused[u.on] /\ ~excuse
                   /\ projRunning'[u.on] = IF made THEN u.makes ELSE projRunning[u.on]
  <2>1. CASE settled
    BY <1>4, <1>7, <2>1 DEF P!Now
  <2>2. CASE ~settled
    <3>1. ~projExcused[u.on] /\ ~excuse
      BY <1>5, <1>8, <2>2
    <3>2. P!UpsOf(u.on)' = {}
      BY <1>1, <1>7, <3>1 DEF P!Sound, P!Honest
    <3> QED  BY <1>3, <3>1, <3>2
  <2> QED  BY <2>1, <2>2
<1> QED  BY <1>1, <1>2, <1>3, <1>5, <1>6, <1>8

(* The project nothing has happened to.                                    *)
LEMMA ProjectUntouched ==
  ASSUME P!Sound, NEW p \in Projects, projUpdate' = projUpdate
         \/ (projUpdate.on # p /\ projUpdate'.on # p),
         projChange'[p] = projChange[p], projRunning'[p] = projRunning[p],
         P!UpsOf(p)' = P!UpsOf(p),
         projText'[p] = projText[p], projTag'[ImageOf[p]] = projTag[ImageOf[p]],
         ~projExcused'[p] => ~projExcused[p]
  PROVE  ~projExcused'[p] => P!Honest(p)'
  BY DEF P!Sound, P!Honest, P!Retagged, P!Rewritten, P!Undoing

(* At the start everything runs what is written.                           *)
LEMMA ProjectStartIsSound == P!Init => P!Sound
<1> SUFFICES ASSUME P!Init PROVE P!Sound
  OBVIOUS
<1> USE ProjectsAssumption, ProjectNoChangeIs, ProjectNoUpdateIs DEF P!Init
<1>1. P!FirstText \in Texts /\ 0 \in P!Releases
  BY DEF P!FirstText, P!ProjectsSane, P!Releases
<1>2. [text |-> P!FirstText, image |-> 0] \in P!Stacks
  BY <1>1 DEF P!Stacks
<1>3. P!TypeOK
  <2>1. /\ projTag \in [P!Refs -> P!Releases] /\ projImages \in [P!Refs -> SUBSET P!Releases]
        /\ projKept \in [P!Refs -> SUBSET P!Releases]
    BY <1>1
  <2>2. projText \in [Projects -> Texts] /\ projRunning \in [Projects -> P!Stacks]
    BY <1>1, <1>2
  <2>3. projJobs \in 0..MaxJobs /\ projMishaps \in 0..MaxMishaps
    BY DEF P!ProjectsSane
  <2>4. projUpdate \in P!Updates /\ projChange \in [Projects -> P!Changes]
        /\ projUps \subseteq P!Helpers
    OBVIOUS
  <2>5. projExcused \in [Projects -> BOOLEAN]
    OBVIOUS
  <2> QED  BY <2>1, <2>2, <2>3, <2>4, <2>5 DEF P!TypeOK
<1>4. P!UpdateSoFar
  BY DEF P!UpdateSoFar
<1>5. \A p \in Projects : projChange[p] = P!NoChange /\ P!UpsOf(p) = {} /\ ImageOf[p] \in P!Refs
  BY ProjectNamed DEF P!UpsOf
<1>6. \A p \in Projects : P!ChangeSoFar(p)
  BY <1>5 DEF P!ChangeSoFar
<1>7. \A p \in Projects : P!Honest(p)
  BY <1>5 DEF P!Honest
<1> QED  BY <1>3, <1>4, <1>6, <1>7 DEF P!Sound

(* A project that runs its text and its image.                             *)
LEMMA ProjectRunsNow ==
  ASSUME P!TypeOK, NEW p \in Projects, projRunning[p].text = projText[p],
         projRunning[p].image = projTag[ImageOf[p]]
  PROVE  projRunning[p] = P!Now(p)
<1>1. projRunning[p] \in P!Stacks
  BY DEF P!TypeOK
<1> QED  BY <1>1 DEF P!Stacks, P!Now

(* A project without an excuse, a job and a helper has nothing left but to *)
(* run what is written.                                                    *)
LEMMA ProjectHolds == P!Inductive => P!QuietIsApplied
<1> SUFFICES ASSUME P!Sound, P!RanTheTag PROVE P!QuietIsApplied
  BY DEF P!Inductive
<1>1. ASSUME NEW p \in Projects PROVE P!AtWork(p) \/ projExcused[p] \/ projRunning[p] = P!Now(p)
  <2> SUFFICES ASSUME ~P!AtWork(p), ~projExcused[p] PROVE projRunning[p] = P!Now(p)
    OBVIOUS
  <2>1. P!UpsOf(p) = {} /\ ~P!Retagged(p) /\ ~P!Rewritten(p) /\ ~P!Undoing(p)
    BY DEF P!AtWork, P!Retagged, P!Rewritten, P!Undoing
  <2> QED  BY <2>1, ProjectRunsNow DEF P!Sound, P!Honest
<1>2. (projUpdate.pc = "untag" /\ projUpdate.undone /\ ~projExcused[projUpdate.on])
      => projRunning[projUpdate.on].image = IF projUpdate.astray THEN projUpdate.old
      ELSE projUpdate.was
  BY DEF P!Sound, P!Honest, P!TypeOK, P!Updates, P!RanTheTag
<1>3. \A p \in Projects : (projChange[p].pc = "done" /\ projChange[p].undone /\ ~projExcused[p])
      =>
        projRunning[p].text = projChange[p].previous
  BY DEF P!Sound, P!Honest
<1>4. projUpdate.pc \in {"pull", "up", "watch_up", "watch", "retag"}
      => projUpdate.old \in projImages[ImageOf[projUpdate.on]]
  BY DEF P!Sound, P!UpdateSoFar
<1> QED  BY <1>1, <1>2, <1>3, <1>4 DEF P!QuietIsApplied

(* ---- somebody's hand, and a prune *)
LEMMA ProjectSaveByHandKeeps ==
  ASSUME P!Sound, NEW p \in Projects, P!SaveByHand(p)
  PROVE  P!Sound'
<1>1. /\ UNCHANGED <<projImages, projKept, projTag, projRunning, projUpdate, projUps, projJobs>>
      /\ P!Excuse({p}) /\ projMishaps' \in 0..MaxMishaps
      /\ projChange' = [projChange EXCEPT ![p].undone = FALSE]
  BY ProjectMishapIs DEF P!SaveByHand, P!Sound
<1>2. /\ projText' \in [Projects -> Texts] /\ \A q \in Projects \ {p} : projText'[q] = projText[q]
  BY DEF P!SaveByHand, P!Sound, P!TypeOK
<1>3. /\ projChange' \in [Projects -> P!Changes] /\ ~projChange'[p].undone
      /\ projChange'[p].pc = projChange[p].pc
      /\ \A q \in Projects \ {p} : projChange'[q] = projChange[q]
  BY <1>1 DEF P!Sound, P!TypeOK, P!Changes
<1>4. /\ projExcused' \in [Projects -> BOOLEAN] /\ projExcused'[p]
      /\ \A q \in Projects : ~projExcused'[q] => ~projExcused[q]
  BY <1>1, ProjectExcuseIs DEF P!Sound
<1>5. P!TypeOK' /\ P!UpdateSoFar'
  BY <1>1, <1>2, <1>3, <1>4 DEF P!Sound, P!TypeOK, P!UpdateSoFar
<1>6. \A q \in Projects : P!ChangeSoFar(q)'
  BY <1>1, <1>2, <1>3 DEF P!Sound, P!ChangeSoFar
<1>7. ASSUME NEW q \in Projects \ {p} PROVE ~projExcused'[q] => P!Honest(q)'
  BY <1>1, <1>2, <1>3, <1>4, ProjectUntouched DEF P!UpsOf
<1> QED  BY <1>4, <1>5, <1>6, <1>7 DEF P!Sound

(* A prune takes no image that has a roll-back tag.                        *)
LEMMA ProjectPruneKeeps ==
  ASSUME P!Sound, P!Prune
  PROVE  P!Sound'
<1>1. /\ UNCHANGED <<projTag, projKept, projText, projRunning, projUpdate, projChange, projUps,
           projExcused, projJobs, projMishaps>>
      /\ projImages' \in [P!Refs -> SUBSET P!Releases]
      /\ \A r \in P!Refs : projImages[r] \cap projKept[r] \subseteq projImages'[r]
  BY DEF P!Prune, P!Sound, P!TypeOK, P!Needed
<1>2. P!TypeOK'
  BY <1>1 DEF P!Sound, P!TypeOK
<1>3. projUpdate.on \in Projects
  BY DEF P!Sound, P!TypeOK, P!Updates
<1>4. P!UpdateSoFar'
  BY <1>1, <1>3, ProjectNamed DEF P!Sound, P!UpdateSoFar
<1>5. \A q \in Projects : P!ChangeSoFar(q)' /\ (~projExcused'[q] => P!Honest(q)')
  BY <1>1 DEF P!Sound, P!ChangeSoFar, P!Honest, P!UpsOf, P!Retagged, P!Rewritten, P!Undoing
<1> QED  BY <1>2, <1>4, <1>5 DEF P!Sound

(* ---- the update job *)

(* A step that changes nothing but the place of the update.                *)
LEMMA ProjectUpdateMoves ==
  ASSUME P!Sound, UNCHANGED <<projTag, projText, projRunning, projChange, projUps>>, P!TypeOK',
         P!UpdateSoFar',
         projUpdate.pc \notin {"up", "upback"},
         \A p \in Projects : ~projExcused'[p] => ~projExcused[p],
         projUpdate.pc = "retag" => projExcused'[projUpdate.on],
         projUpdate'.pc = "untag" => ~projUpdate'.undone
  PROVE  P!Sound'
<1>1. \A p \in Projects : P!ChangeSoFar(p)'
  BY DEF P!Sound, P!ChangeSoFar
<1>2. ASSUME NEW p \in Projects, ~projExcused'[p] PROVE P!Honest(p)'
  <2>1. P!Honest(p) /\ ~projExcused[p] /\ P!UpsOf(p)' = P!UpsOf(p)
    BY <1>2 DEF P!Sound, P!UpsOf
  <2>2. ~P!Retagged(p) /\ (P!Rewritten(p)' <=> P!Rewritten(p)) /\ (P!Undoing(p) => P!Undoing(p)')
    BY <1>2 DEF P!Retagged, P!Rewritten, P!Undoing
  <2> QED  BY <2>1, <2>2 DEF P!Honest
<1> QED  BY <1>1, <1>2 DEF P!Sound

(* An update is asked for.                                                 *)
LEMMA ProjectStartUpdateKeeps ==
  ASSUME P!Sound, P!StartUpdate
  PROVE  P!Sound'
<1>1. /\ UNCHANGED <<projImages, projKept, projTag, projText, projRunning, projChange, projUps,
           projExcused, projMishaps>>
      /\ projUpdate.pc = "idle" /\ projJobs' \in 0..MaxJobs
  BY ProjectsAssumption DEF P!StartUpdate, P!MayUpdate, P!Sound, P!TypeOK, P!ProjectsSane
<1>2. projUpdate' \in P!Updates /\ projUpdate'.pc = "next"
  <2>1. PICK ps \in SUBSET Projects : projUpdate' = [P!NoUpdate EXCEPT !.pc = "next", !.todo = ps]
    BY DEF P!StartUpdate
  <2> QED  BY <2>1, ProjectNoUpdateIs DEF P!Updates
<1>3. P!TypeOK' /\ P!UpdateSoFar'
  BY <1>1, <1>2 DEF P!Sound, P!TypeOK, P!UpdateSoFar
<1> QED  BY <1>1, <1>2, <1>3, ProjectUpdateMoves

(* It turns to its next project.                                           *)
LEMMA ProjectNextProjectKeeps ==
  ASSUME P!Sound, P!NextProject
  PROVE  P!Sound'
<1>1. /\ UNCHANGED <<projImages, projKept, projTag, projText, projRunning, projChange, projUps,
           projExcused, projJobs, projMishaps>>
      /\ projUpdate.pc = "next"
  BY DEF P!NextProject
<1>2. projUpdate' \in P!Updates /\ projUpdate'.pc \in {"idle", "tag"} /\ ~projUpdate'.undone
  <2>1. CASE projUpdate.todo = {}
    BY <2>1, ProjectNoUpdateIs DEF P!NextProject
  <2>2. CASE projUpdate.todo # {}
    <3>1. PICK p \in projUpdate.todo :
            projUpdate' = [projUpdate EXCEPT !.pc = "tag", !.on = p, !.todo = @ \ {p},
            !.undone = FALSE]
      BY <2>2 DEF P!NextProject
    <3> QED  BY <3>1 DEF P!Sound, P!TypeOK, P!Updates
  <2> QED  BY <2>1, <2>2
<1>3. P!TypeOK' /\ P!UpdateSoFar'
  BY <1>1, <1>2 DEF P!Sound, P!TypeOK, P!UpdateSoFar
<1> QED  BY <1>1, <1>2, <1>3, ProjectUpdateMoves

(* The old image gets its roll-back tag, from here to the end of the       *)
(* project.                                                                *)
LEMMA ProjectTagOldKeeps ==
  ASSUME P!Sound, P!TagOld
  PROVE  P!Sound'
<1> DEFINE r == ImageOf[projUpdate.on]
<1>1. /\ UNCHANGED <<projImages, projTag, projText, projRunning, projChange, projUps,
           projExcused, projJobs>>
      /\ projUpdate.pc = "tag" /\ ~projUpdate.undone /\ projUpdate.on \in Projects /\ r \in P!Refs
  BY ProjectNamed DEF P!TagOld, P!Sound, P!TypeOK, P!Updates, P!UpdateSoFar
<1>2. CASE /\ projTag[r] \in projImages[r]
           /\ projUpdate' = [projUpdate EXCEPT !.pc = "pull", !.old = projTag[r],
                                               !.was = projRunning[projUpdate.on].image,
                                               !.astray = P!Astray(projUpdate.on)]
           /\ P!Tagged(r) /\ UNCHANGED projMishaps
  <2>1. /\ projUpdate' \in P!Updates /\ projUpdate'.pc = "pull" /\ projUpdate'.on = projUpdate.on
        /\ projUpdate'.old = projTag[r] /\ ~projUpdate'.undone
    <3>1. /\ projTag[r] \in P!Releases /\ projRunning[projUpdate.on].image \in P!Releases
          /\ P!Astray(projUpdate.on) \in BOOLEAN
      BY <1>1 DEF P!Sound, P!TypeOK, P!Stacks, P!Astray
    <3> HIDE DEF r
    <3> QED  BY <1>1, <1>2, <3>1 DEF P!Sound, P!TypeOK, P!Updates
  <2>2. projKept' \in [P!Refs -> SUBSET P!Releases] /\ projKept'[r] = {projTag[r]}
    BY <1>1, <1>2 DEF P!Tagged, P!Sound, P!TypeOK
  <2>3. P!TypeOK'
    BY <1>1, <1>2, <2>1, <2>2 DEF P!Sound, P!TypeOK
  <2>4. P!UpdateSoFar'
    BY <1>1, <1>2, <2>1, <2>2 DEF P!UpdateSoFar
  <2> QED  BY <1>1, <2>1, <2>3, <2>4, ProjectUpdateMoves
<1>3. CASE P!Step("next") /\ P!Mishap /\ UNCHANGED projKept
  <2>1. P!TypeOK' /\ P!UpdateSoFar' /\ projUpdate'.pc = "next"
    BY <1>1, <1>3, ProjectStepIs, ProjectMishapIs DEF P!Sound, P!TypeOK, P!UpdateSoFar
  <2> QED  BY <1>1, <2>1, ProjectUpdateMoves
<1> QED  BY <1>2, <1>3 DEF P!TagOld

(* A name that is given to another image: its other projects are excused.  *)
LEMMA ProjectTagMoves ==
  ASSUME P!Sound, P!TypeOK', P!UpdateSoFar', UNCHANGED <<projText, projRunning, projChange,
         projUps>>,
         projUpdate.pc \in {"pull", "retag"}, projUpdate'.on = projUpdate.on,
         ~(projUpdate'.pc = "untag" /\ projUpdate'.undone),
         NEW ps \in SUBSET Projects, P!Excuse(ps),
         projUpdate.on \in ps \/ projUpdate'.pc \in {"up", "upback"},
         \A q \in Projects \ ({projUpdate.on} \cup ps) : projTag'[ImageOf[q]]
         = projTag[ImageOf[q]]
  PROVE  P!Sound'
<1>1. \A p \in Projects : P!ChangeSoFar(p)'
  BY DEF P!Sound, P!ChangeSoFar
<1>2. ASSUME NEW p \in Projects, ~projExcused'[p] PROVE P!Honest(p)'
  <2>1. P!Honest(p) /\ ~projExcused[p] /\ P!UpsOf(p)' = P!UpsOf(p) /\ p \notin ps
    BY <1>2, ProjectExcuseIs DEF P!Sound, P!UpsOf
  <2>2. ~P!Retagged(p) /\ (P!Rewritten(p)' <=> P!Rewritten(p))
    BY <1>2 DEF P!Retagged, P!Rewritten
  <2>3. CASE p = projUpdate.on
    <3>1. P!Retagged(p)' /\ projUpdate'.pc # "untag"
      BY <2>1, <2>3 DEF P!Retagged
    <3> QED  BY <2>1, <2>2, <3>1 DEF P!Honest
  <2>4. CASE p # projUpdate.on
    <3>1. projTag'[ImageOf[p]] = projTag[ImageOf[p]] /\ (P!Undoing(p) => P!Undoing(p)')
      BY <2>1, <2>4 DEF P!Undoing
    <3> QED  BY <2>1, <2>2, <2>4, <3>1 DEF P!Honest
  <2> QED  BY <2>3, <2>4
<1> QED  BY <1>1, <1>2 DEF P!Sound

(* The pull moves the tag, and the `up` is still to come.                  *)
LEMMA ProjectPullKeeps ==
  ASSUME P!Sound, P!Pull
  PROVE  P!Sound'
<1> DEFINE p == projUpdate.on
           r == ImageOf[p]
           moved == IF projTag[r] = Release THEN {} ELSE P!Others(p)
<1>1. /\ UNCHANGED <<projKept, projText, projRunning, projChange, projUps, projJobs>>
      /\ projUpdate.pc = "pull" /\ ~projUpdate.undone /\ p \in Projects /\ r \in P!Refs
      /\ moved \in SUBSET Projects
      /\ projUpdate.old \in projImages[r] \cap projKept[r]
  BY ProjectNamed DEF P!Pull, P!Sound, P!TypeOK, P!Updates, P!UpdateSoFar, P!Others
<1>2. ASSUME P!Pulled(r)
      PROVE  /\ projTag' \in [P!Refs -> P!Releases]
             /\ projImages' \in [P!Refs -> SUBSET P!Releases]
             /\ projUpdate.old \in projImages'[r] \cap projKept'[r]
             /\ \A q \in Projects \ ({p} \cup moved) : projTag'[ImageOf[q]] = projTag[ImageOf[q]]
  <2>1. Release \in P!Releases
    BY ProjectsAssumption DEF P!ProjectsSane, P!Releases
  <2>2. /\ projTag' = [projTag EXCEPT ![r] = Release]
        /\ projImages' = [projImages EXCEPT ![r] = @ \cup {Release}]
    BY <1>2 DEF P!Pulled
  <2>3. ASSUME NEW q \in Projects \ ({p} \cup moved)
        PROVE projTag'[ImageOf[q]] = projTag[ImageOf[q]]
    <3>1. CASE ImageOf[q] # r
      BY <2>2, <3>1, ProjectNamed DEF P!Sound, P!TypeOK
    <3>2. CASE ImageOf[q] = r
      <4>1. projTag[r] = Release
        BY <2>3, <3>2 DEF P!Others
      <4> QED  BY <1>1, <2>2, <3>2, <4>1 DEF P!Sound, P!TypeOK
    <3> QED  BY <3>1, <3>2
  <2> QED  BY <1>1, <2>1, <2>2, <2>3 DEF P!Sound, P!TypeOK
<1> HIDE DEF p, r, moved
<1>3. CASE P!Pulled(r) /\ P!Step("up") /\ P!Excuse(moved) /\ UNCHANGED projMishaps
  <2>1. /\ projUpdate' \in P!Updates /\ projUpdate'.pc = "up" /\ projUpdate'.on = p
        /\ projUpdate'.old = projUpdate.old
        /\ ~projUpdate'.undone /\ projUpdate.on = p
    BY <1>1, <1>3, ProjectStepIs DEF P!Sound, p
  <2>2. P!TypeOK'
    BY <1>1, <1>2, <1>3, <2>1, ProjectExcuseIs DEF P!Sound, P!TypeOK
  <2>3. P!UpdateSoFar'
    BY <1>2, <1>3, <2>1 DEF P!UpdateSoFar, r, p
  <2> QED  BY <1>1, <1>2, <1>3, <2>1, <2>2, <2>3, ProjectTagMoves
<1>4. ASSUME NEW pc \in {"untag", "hung"}, P!Pulled(r), P!Step(pc), P!Excuse({p} \cup moved),
             P!Mishap
      PROVE  P!Sound'
  <2>1. /\ projUpdate' \in P!Updates /\ projUpdate'.pc = pc /\ projUpdate'.on = p
        /\ ~projUpdate'.undone /\ projUpdate.on = p
    BY <1>1, <1>4, ProjectStepIs DEF P!Sound, p
  <2>2. P!TypeOK'
    BY <1>1, <1>2, <1>4, <2>1, ProjectExcuseIs, ProjectMishapIs DEF P!Sound, P!TypeOK
  <2>3. P!UpdateSoFar'
    BY <2>1 DEF P!UpdateSoFar
  <2>4. {p} \cup moved \in SUBSET Projects /\ p \in {p} \cup moved
    BY <1>1
  <2> QED  BY <1>1, <1>2, <1>4, <2>1, <2>2, <2>3, <2>4, ProjectTagMoves
<1>5. ASSUME NEW pc \in {"untag", "hung"}, P!Step(pc), P!Mishap, UNCHANGED <<projTag, projImages,
             projExcused>>
      PROVE  P!Sound'
  <2>1. /\ projUpdate' \in P!Updates /\ projUpdate'.pc = pc /\ ~projUpdate'.undone
    BY <1>1, <1>5, ProjectStepIs DEF P!Sound
  <2>2. P!TypeOK' /\ P!UpdateSoFar'
    BY <1>1, <1>5, <2>1, ProjectMishapIs DEF P!Sound, P!TypeOK, P!UpdateSoFar
  <2> QED  BY <1>1, <1>5, <2>1, <2>2, ProjectUpdateMoves
<1> QED  BY <1>3, <1>4, <1>5 DEF P!Pull, p, r, moved

(* The old image gets its name back, and the `up` is still to come.        *)
LEMMA ProjectRetagKeeps ==
  ASSUME P!Sound, P!Retag
  PROVE  P!Sound'
<1> DEFINE p == projUpdate.on
           r == ImageOf[p]
           moved == IF projUpdate.old = projTag[r] THEN {} ELSE P!Others(p)
<1>1. /\ UNCHANGED <<projImages, projKept, projText, projRunning, projChange, projUps, projJobs>>
      /\ projUpdate.pc = "retag" /\ ~projUpdate.undone /\ p \in Projects /\ r \in P!Refs
      /\ moved \in SUBSET Projects
      /\ projUpdate.old \in P!Releases
  BY ProjectNamed DEF P!Retag, P!Sound, P!TypeOK, P!Updates, P!UpdateSoFar, P!Others
<1>2. CASE /\ projUpdate.old \in projImages[r]
           /\ P!Back(r) /\ P!Excuse(moved)
           /\ projUpdate' = [projUpdate EXCEPT !.pc = "upback", !.undone = TRUE]
           /\ UNCHANGED projMishaps
  <2>1. projTag' \in [P!Refs -> P!Releases] /\ projTag'[r] = projUpdate.old
    BY <1>1, <1>2 DEF P!Back, P!Sound, P!TypeOK
  <2>2. ASSUME NEW q \in Projects \ ({p} \cup moved)
        PROVE projTag'[ImageOf[q]] = projTag[ImageOf[q]]
    <3>1. CASE ImageOf[q] # r
      BY <1>2, <3>1, ProjectNamed DEF P!Back, P!Sound, P!TypeOK
    <3>2. CASE ImageOf[q] = r
      <4>1. projUpdate.old = projTag[r]
        BY <2>2, <3>2 DEF P!Others
      <4> QED  BY <2>1, <3>2, <4>1
    <3> QED  BY <3>1, <3>2
  <2>3. /\ projUpdate' \in P!Updates /\ projUpdate'.pc = "upback" /\ projUpdate'.on = p
        /\ projUpdate'.old = projUpdate.old
    BY <1>2 DEF P!Sound, P!TypeOK, P!Updates
  <2>4. P!TypeOK'
    <3> HIDE DEF p, r, moved
    <3> QED  BY <1>1, <1>2, <2>1, <2>3, ProjectExcuseIs DEF P!Sound, P!TypeOK
  <2>5. P!UpdateSoFar'
    BY <2>1, <2>3 DEF P!UpdateSoFar
  <2>6. projUpdate.on = p
    OBVIOUS
  <2> HIDE DEF p, r, moved
  <2> QED  BY <1>1, <1>2, <2>2, <2>3, <2>4, <2>5, <2>6, ProjectTagMoves
<1>3. CASE P!Step("untag") /\ P!Mishap /\ P!Excuse({p}) /\ UNCHANGED projTag
  <2>1. /\ projUpdate' \in P!Updates /\ projUpdate'.pc = "untag" /\ ~projUpdate'.undone
    BY <1>1, <1>3, ProjectStepIs DEF P!Sound
  <2>2. /\ projExcused' \in [Projects -> BOOLEAN] /\ projExcused'[p]
        /\ \A q \in Projects : ~projExcused'[q] => ~projExcused[q]
    BY <1>1, <1>3, ProjectExcuseIs DEF P!Sound
  <2>3. P!TypeOK' /\ P!UpdateSoFar'
    BY <1>1, <1>3, <2>1, <2>2, ProjectMishapIs DEF P!Sound, P!TypeOK, P!UpdateSoFar
  <2> QED  BY <1>1, <1>3, <2>1, <2>2, <2>3, ProjectUpdateMoves
<1> QED  BY <1>2, <1>3 DEF P!Retag

(* The containers stay up, or not.                                         *)
LEMMA ProjectWatchKeeps ==
  ASSUME P!Sound, P!Watch
  PROVE  P!Sound'
<1>1. /\ UNCHANGED <<projImages, projKept, projTag, projText, projRunning, projChange, projUps,
           projExcused, projJobs>>
      /\ projUpdate.pc = "watch" /\ ~projUpdate.undone /\ projMishaps' \in 0..MaxMishaps
  BY ProjectMishapIs DEF P!Watch, P!Sound, P!UpdateSoFar, P!TypeOK
<1>2. projUpdate' \in P!Updates /\ projUpdate'.pc \in {"untag", "retag"}
      /\ projUpdate'.on = projUpdate.on /\ projUpdate'.old = projUpdate.old /\ ~projUpdate'.undone
  BY <1>1, ProjectStepIs DEF P!Watch, P!Sound
<1>3. P!TypeOK' /\ P!UpdateSoFar'
  BY <1>1, <1>2 DEF P!Sound, P!TypeOK, P!UpdateSoFar
<1> QED  BY <1>1, <1>2, <1>3, ProjectUpdateMoves

(* The roll-back tag is dropped.                                           *)
LEMMA ProjectUntagKeeps ==
  ASSUME P!Sound, P!Untag
  PROVE  P!Sound'
<1>1. /\ UNCHANGED <<projImages, projTag, projText, projRunning, projChange, projUps,
           projExcused, projJobs>>
      /\ projUpdate.pc = "untag" /\ projMishaps' \in 0..MaxMishaps
      /\ projKept' \in [P!Refs -> SUBSET P!Releases]
  BY ProjectMishapIs DEF P!Untag, P!Sound, P!TypeOK
<1>2. projUpdate' \in P!Updates /\ projUpdate'.pc = "next"
  BY <1>1, ProjectStepIs DEF P!Untag, P!Sound
<1>3. P!TypeOK' /\ P!UpdateSoFar'
  BY <1>1, <1>2 DEF P!Sound, P!TypeOK, P!UpdateSoFar
<1> QED  BY <1>1, <1>2, <1>3, ProjectUpdateMoves


(* A helper that begins: the job that began it no longer has to.           *)
LEMMA ProjectBegunIsHonest ==
  ASSUME P!Sound, NEW p \in Projects, NEW by \in {"update", "edit"}, P!Begin(p, by),
         UNCHANGED <<projTag, projText, projRunning>>, ~projExcused'[p],
         projUpdate'.on = p /\ projUpdate'.pc = "untag" => projUpdate' = projUpdate,
         projChange'[p].pc = "done" => projChange'[p] = projChange[p]
  PROVE  P!Honest(p)'
<1>1. /\ P!UpsOf(p)' # {} /\ \A u, v \in P!UpsOf(p)' : u = v
      /\ \A u \in P!UpsOf(p)' : u.makes = P!Now(p)
  BY ProjectBeginIs DEF P!Sound
<1>2. \A u \in P!UpsOf(p)' : u.makes.image = projTag[ImageOf[p]] /\ u.makes.text = projText[p]
  BY <1>1 DEF P!Now
<1>3. P!Honest(p)
  BY ProjectBeginIs DEF P!Sound
<1> QED  BY <1>1, <1>2, <1>3 DEF P!Honest

(* The update begins an `up`, of the file and the tag as they are.         *)
LEMMA ProjectBeginUpKeeps ==
  ASSUME P!Sound, P!BeginUp
  PROVE  P!Sound'
<1>0. PICK p \in Projects : p = projUpdate.on
  BY DEF P!Sound, P!TypeOK, P!Updates
<1>1. /\ UNCHANGED <<projImages, projKept, projTag, projText, projRunning, projChange, projJobs,
           projMishaps>>
      /\ projUpdate.pc \in {"up", "upback"} /\ P!Begin(p, "update")
  BY <1>0 DEF P!BeginUp
<1>2. /\ projUpdate' \in P!Updates
      /\ projUpdate'.pc = (IF projUpdate.pc = "up" THEN "watch_up" ELSE "watch_upback")
      /\ projUpdate'.on = p /\ projUpdate'.old = projUpdate.old
      /\ projUpdate'.undone = projUpdate.undone
  BY <1>0, <1>1, ProjectStepIs DEF P!BeginUp, P!Sound
<1>4. P!TypeOK'
  BY <1>1, <1>2, ProjectBeginIs DEF P!Sound, P!TypeOK
<1>5. P!UpdateSoFar'
  BY <1>1, <1>2, <1>0, ProjectBeginIs DEF P!Sound, P!UpdateSoFar
<1>6. \A q \in Projects : P!ChangeSoFar(q)'
  BY <1>1, ProjectBeginIs DEF P!Sound, P!ChangeSoFar
<1>7. ASSUME ~projExcused'[p] PROVE P!Honest(p)'
  <2>1. ~(projUpdate'.pc = "untag") /\ projChange'[p] = projChange[p]
    BY <1>1, <1>2
  <2> QED  BY <1>1, <1>7, <2>1, ProjectBegunIsHonest
<1>8. ASSUME NEW q \in Projects \ {p}, ~projExcused'[q] PROVE P!Honest(q)'
  <2>1. P!UpsOf(q)' = P!UpsOf(q) /\ ~projExcused[q]
    BY <1>1, <1>8, ProjectBeginIs DEF P!Sound
  <2> QED  BY <1>1, <1>2, <1>0, <1>8, <2>1, ProjectUntouched
<1> QED  BY <1>4, <1>5, <1>6, <1>7, <1>8 DEF P!Sound

(* A helper that ends: what it made, or the job that goes on, or what      *)
(* already runs.                                                           *)
LEMMA ProjectEndedIsHonest ==
  ASSUME P!Sound, NEW u \in projUps, NEW made \in BOOLEAN, NEW excuse \in BOOLEAN,
         P!Ended(u, made, excuse), UNCHANGED <<projTag, projText>>, ~projExcused'[u.on],
         P!UpdateSoFar', P!ChangeSoFar(u.on)',
         P!Retagged(u.on) => P!Retagged(u.on)', P!Rewritten(u.on) => P!Rewritten(u.on)',
         ~made /\ ~excuse =>
           /\ P!Undoing(u.on)'
           /\ projUpdate'.on = u.on /\ projUpdate'.pc = "untag" => projUpdate' = projUpdate
           /\ projChange'[u.on].pc = "done" => projChange'[u.on] = projChange[u.on]
  PROVE  P!Honest(u.on)'
<1> DEFINE p == u.on
<1>1. /\ p \in Projects /\ P!UpsOf(p)' = {} /\ u \in P!UpsOf(p)
      /\ \/ projRunning'[p].text = projText[p] /\ projRunning'[p].image = projTag[ImageOf[p]]
         \/ ~projExcused[p] /\ ~excuse
              /\ projRunning'[p] = IF made THEN u.makes ELSE projRunning[p]
  BY ProjectEndedIs DEF P!UpsOf
<1>2. /\ projUpdate'.on = p /\ projUpdate'.pc = "untag" /\ projUpdate'.undone
           => projTag[ImageOf[p]] = projUpdate'.old
      /\ projChange'[p].pc = "done" /\ projChange'[p].undone
           => projText[p] = projChange'[p].previous
  BY DEF P!UpdateSoFar, P!ChangeSoFar
<1>3. /\ projUpdate'.on = p /\ projUpdate'.pc = "untag" => ~P!Retagged(p)'
      /\ projChange'[p].pc = "done" => ~P!Rewritten(p)'
  BY DEF P!Retagged, P!Rewritten
<1>4. UNCHANGED <<projText, projTag>> /\ P!UpsOf(u.on)' = {}
  BY <1>1
<1>5. CASE projRunning'[p].text = projText[p] /\ projRunning'[p].image = projTag[ImageOf[p]]
  BY <1>2, <1>4, <1>5 DEF P!Honest
<1>6. CASE made /\ ~projExcused[p] /\ projRunning'[p] = u.makes
  <2>1. /\ u.makes.image = projTag[ImageOf[p]] \/ P!Retagged(p)
        /\ u.makes.text = projText[p] \/ P!Rewritten(p)
    BY <1>1, <1>6 DEF P!Sound, P!Honest
  <2>2. /\ projRunning'[p].image = projTag[ImageOf[p]] \/ P!Retagged(p)'
        /\ projRunning'[p].text = projText[p] \/ P!Rewritten(p)'
    BY <1>6, <2>1
  <2> QED  BY <1>2, <1>3, <1>4, <2>2 DEF P!Honest
<1>7. CASE ~made /\ ~excuse /\ ~projExcused[p] /\ projRunning'[p] = projRunning[p]
  <2>1. /\ projUpdate.on = p /\ projUpdate.pc = "untag" /\ projUpdate.undone
             => projRunning[p].image = projUpdate.old
        /\ projChange[p].pc = "done" /\ projChange[p].undone
             => projRunning[p].text = projChange[p].previous
    BY <1>1, <1>7 DEF P!Sound, P!Honest
  <2> QED  BY <1>4, <1>7, <2>1 DEF P!Honest
<1> QED  BY <1>1, <1>5, <1>6, <1>7

(* Its helper ends.                                                        *)
LEMMA ProjectEndUpKeeps ==
  ASSUME P!Sound, P!EndUp
  PROVE  P!Sound'
<1>0. PICK p \in Projects : p = projUpdate.on
  BY DEF P!Sound, P!TypeOK, P!Updates
<1> DEFINE back == projUpdate.pc = "watch_upback"
<1>1. /\ UNCHANGED <<projImages, projKept, projTag, projText, projChange, projJobs>>
      /\ projUpdate.pc \in {"watch_up", "watch_upback"} /\ projMishaps' \in 0..MaxMishaps
  BY ProjectMishapIs DEF P!EndUp, P!Sound, P!TypeOK, P!Updates
<1>2. PICK u \in projUps : u = P!Mine(p, "update") /\ u.on = p /\ u.by = "update"
  BY <1>0, <1>1 DEF P!Sound, P!UpdateSoFar, P!Mine
<1>3. PICK made \in BOOLEAN, excuse \in BOOLEAN :
        /\ P!Ended(u, made, excuse)
        /\ \/ made /\ P!Step(IF back THEN "untag" ELSE "watch")
           \/ excuse = back /\ P!Step(IF back THEN "untag" ELSE "retag")
           \/ excuse /\ P!Step("untag")
  BY <1>0, <1>2 DEF P!EndUp
<1>4. /\ projUpdate' \in P!Updates /\ projUpdate'.pc \in {"untag", "watch", "retag"}
      /\ projUpdate'.on = p /\ projUpdate'.old = projUpdate.old
      /\ projUpdate'.undone = projUpdate.undone
      /\ projUpdate.pc = "watch_up" => ~projUpdate.undone
      /\ projUpdate'.pc \in {"watch", "retag"} => projUpdate.pc = "watch_up"
      /\ ~made /\ ~excuse => projUpdate'.pc = "retag"
  BY <1>0, <1>1, <1>3, ProjectStepIs DEF P!Sound, P!UpdateSoFar
<1> HIDE DEF back
<1>6. /\ projUps' = projUps \ {u}
      /\ projRunning' \in [Projects -> P!Stacks] /\ projExcused' \in [Projects -> BOOLEAN]
      /\ \A q \in Projects \ {p} :
           /\ projRunning'[q] = projRunning[q] /\ projExcused'[q] = projExcused[q]
           /\ P!UpsOf(q)' = P!UpsOf(q)
  BY <1>1, <1>2, <1>3, ProjectEndedIs
<1>7. P!TypeOK'
  BY <1>1, <1>4, <1>6 DEF P!Sound, P!TypeOK
<1>8. P!UpdateSoFar'
  BY <1>1, <1>4, <1>0 DEF P!Sound, P!UpdateSoFar
<1>9. \A q \in Projects : P!ChangeSoFar(q)'
  BY <1>1, <1>2, <1>6 DEF P!Sound, P!ChangeSoFar
<1>10. ASSUME ~projExcused'[p] PROVE P!Honest(p)'
  <2>1. /\ ~P!Retagged(p) /\ (P!Rewritten(p) => P!Rewritten(p)')
        /\ projUpdate'.pc = "retag" => P!Undoing(p)'
    BY <1>0, <1>1, <1>4 DEF P!Retagged, P!Rewritten, P!Undoing
  <2>2. P!ChangeSoFar(u.on)'
    BY <1>1, <1>2, <1>9
  <2> QED  BY <1>1, <1>2, <1>3, <1>4, <1>8, <1>10, <2>1, <2>2, ProjectEndedIsHonest
<1>11. ASSUME NEW q \in Projects \ {p} PROVE ~projExcused'[q] => P!Honest(q)'
  BY <1>1, <1>4, <1>0, <1>6, ProjectUntouched
<1> QED  BY <1>7, <1>8, <1>9, <1>10, <1>11 DEF P!Sound

(* ---- the edit job *)
LEMMA ProjectEditMoves ==
  ASSUME P!Sound, NEW p \in Projects, UNCHANGED <<projTag, projImages, projKept, projRunning,
         projUpdate, projUps>>,
         P!TypeOK', P!ChangeSoFar(p)',
         \A q \in Projects \ {p} : projChange'[q] = projChange[q] /\ projText'[q] = projText[q],
         \A q \in Projects : ~projExcused'[q] => ~projExcused[q],
         \/ projExcused'[p] \/ P!Rewritten(p)'
         \/ projText'[p] = projText[p] /\ ~P!Rewritten(p) /\ projChange[p].pc # "restore",
         projChange'[p].pc = "done" => ~projChange'[p].undone
  PROVE  P!Sound'
<1>1. P!UpdateSoFar'
  BY DEF P!Sound, P!UpdateSoFar
<1>2. \A q \in Projects : P!ChangeSoFar(q)'
  BY DEF P!Sound, P!ChangeSoFar
<1>3. ASSUME NEW q \in Projects \ {p} PROVE ~projExcused'[q] => P!Honest(q)'
  BY <1>3, ProjectUntouched DEF P!UpsOf
<1>4. ASSUME ~projExcused'[p] PROVE P!Honest(p)'
  <2>1. P!Honest(p) /\ P!UpsOf(p)' = P!UpsOf(p) /\ (P!Retagged(p)' <=> P!Retagged(p))
    BY <1>4 DEF P!Sound, P!UpsOf, P!Retagged
  <2>2. CASE P!Rewritten(p)'
    <3>1. projChange'[p].pc # "done"
      BY <2>2 DEF P!Rewritten
    <3> QED  BY <2>1, <2>2, <3>1 DEF P!Honest
  <2>3. CASE projText'[p] = projText[p] /\ ~P!Rewritten(p) /\ projChange[p].pc # "restore"
    <3>1. P!Undoing(p) => P!Undoing(p)'
      BY <2>3 DEF P!Undoing
    <3> QED  BY <2>1, <2>3, <3>1 DEF P!Honest
  <2> QED  BY <1>4, <2>2, <2>3
<1> QED  BY <1>1, <1>2, <1>3, <1>4 DEF P!Sound

(* An edit is asked for.                                                   *)
LEMMA ProjectStartChangeKeeps ==
  ASSUME P!Sound, NEW p \in Projects, P!StartChange(p)
  PROVE  P!Sound'
<1>1. /\ UNCHANGED <<projImages, projKept, projTag, projText, projRunning, projUpdate, projUps,
           projExcused, projMishaps>>
      /\ projChange[p].pc = "idle" /\ projJobs' \in 0..MaxJobs
  BY ProjectsAssumption DEF P!StartChange, P!Sound, P!TypeOK, P!ProjectsSane
<1>2. PICK t \in Texts :
           projChange' = [projChange EXCEPT ![p] = [P!NoChange EXCEPT !.pc = "check", !.new = t]]
  BY DEF P!StartChange
<1> DEFINE r == [P!NoChange EXCEPT !.pc = "check", !.new = t]
<1>3. r \in P!Changes /\ r.pc = "check" /\ ~r.undone
  BY ProjectNoChangeIs DEF P!Changes, P!NoChange
<1> HIDE DEF r
<1>4. /\ projChange' \in [Projects -> P!Changes] /\ projChange'[p] = r
      /\ \A q \in Projects \ {p} : projChange'[q] = projChange[q]
  <2>1. projChange' = [projChange EXCEPT ![p] = r]
    BY <1>2 DEF r
  <2> QED  BY <1>3, <2>1 DEF P!Sound, P!TypeOK
<1>5. P!TypeOK'
  BY <1>1, <1>4 DEF P!Sound, P!TypeOK
<1>6. P!ChangeSoFar(p)' /\ ~P!Rewritten(p)
  BY <1>1, <1>3, <1>4 DEF P!ChangeSoFar, P!Rewritten
<1> QED  BY <1>1, <1>3, <1>4, <1>5, <1>6, ProjectEditMoves

(* The new text is checked and the old one read.                           *)
LEMMA ProjectCheckTextKeeps ==
  ASSUME P!Sound, NEW p \in Projects, P!CheckText(p)
  PROVE  P!Sound'
<1>1. /\ UNCHANGED <<projImages, projKept, projTag, projText, projRunning, projUpdate, projUps,
           projExcused, projJobs, projMishaps>>
      /\ projChange[p].pc = "check" /\ ~projChange[p].undone
  BY DEF P!CheckText, P!Sound, P!ChangeSoFar
<1> DEFINE r == [projChange[p] EXCEPT !.pc = "save", !.previous = projText[p]]
<1>2. r \in P!Changes /\ r.pc = "save" /\ ~r.undone
  BY <1>1 DEF P!Sound, P!TypeOK, P!Changes
<1>3. P!Over(p) \/ projChange' = [projChange EXCEPT ![p] = r]
  BY DEF P!CheckText
<1> HIDE DEF r
<1>4. /\ projChange' \in [Projects -> P!Changes] /\ projChange'[p].pc \in {"idle", "save"}
      /\ projChange'[p].pc = "save" => ~projChange'[p].undone
      /\ \A q \in Projects \ {p} : projChange'[q] = projChange[q]
  <2>1. CASE P!Over(p)
    BY <2>1, ProjectOverIs DEF P!Sound
  <2>2. CASE projChange' = [projChange EXCEPT ![p] = r]
    BY <1>2, <2>2 DEF P!Sound, P!TypeOK
  <2> QED  BY <1>3, <2>1, <2>2
<1>5. P!TypeOK' /\ P!ChangeSoFar(p)' /\ ~P!Rewritten(p)
  BY <1>1, <1>4 DEF P!Sound, P!TypeOK, P!ChangeSoFar, P!Rewritten
<1> QED  BY <1>1, <1>4, <1>5, ProjectEditMoves

(* The new text is written, and the `up` is still to come.                 *)
LEMMA ProjectSaveKeeps ==
  ASSUME P!Sound, NEW p \in Projects, P!Save(p)
  PROVE  P!Sound'
<1>1. /\ UNCHANGED <<projImages, projKept, projTag, projRunning, projUpdate, projUps, projJobs>>
      /\ projChange[p].pc = "save" /\ ~projChange[p].undone /\ ~P!Rewritten(p)
      /\ projMishaps' \in 0..MaxMishaps
  BY ProjectMishapIs DEF P!Save, P!Sound, P!TypeOK, P!ChangeSoFar, P!Rewritten
<1>2. projText' \in [Projects -> Texts] /\ \A q \in Projects \ {p} : projText'[q] = projText[q]
  BY DEF P!Save, P!Sound, P!TypeOK, P!Changes
<1>3. CASE P!Goto(p, "up") /\ UNCHANGED <<projExcused, projMishaps>>
  <2>1. /\ projChange' \in [Projects -> P!Changes] /\ projChange'[p].pc = "up"
        /\ ~projChange'[p].undone
        /\ \A q \in Projects \ {p} : projChange'[q] = projChange[q]
    BY <1>1, <1>3, ProjectGotoIs DEF P!Sound
  <2>2. P!TypeOK' /\ P!ChangeSoFar(p)' /\ P!Rewritten(p)'
    BY <1>1, <1>2, <1>3, <2>1 DEF P!Sound, P!TypeOK, P!ChangeSoFar, P!Rewritten
  <2> QED  BY <1>1, <1>2, <1>3, <2>1, <2>2, ProjectEditMoves
<1>4. CASE P!Over(p) /\ (P!Excuse({p}) \/ UNCHANGED <<projText, projExcused>>)
  <2>1. /\ projChange' \in [Projects -> P!Changes] /\ projChange'[p].pc = "idle"
        /\ \A q \in Projects \ {p} : projChange'[q] = projChange[q]
    BY <1>4, ProjectOverIs DEF P!Sound
  <2>2. /\ projExcused' \in [Projects -> BOOLEAN]
        /\ (projExcused'[p] \/ projText'[p] = projText[p])
        /\ \A q \in Projects : ~projExcused'[q] => ~projExcused[q]
    BY <1>4, ProjectExcuseIs DEF P!Sound, P!TypeOK
  <2>3. P!TypeOK' /\ P!ChangeSoFar(p)'
    BY <1>1, <1>2, <2>1, <2>2 DEF P!Sound, P!TypeOK, P!ChangeSoFar
  <2> QED  BY <1>1, <1>2, <2>1, <2>2, <2>3, ProjectEditMoves
<1> QED  BY <1>3, <1>4 DEF P!Save

(* The containers stay up, or not.                                         *)
LEMMA ProjectWatchTextKeeps ==
  ASSUME P!Sound, NEW p \in Projects, P!WatchText(p)
  PROVE  P!Sound'
<1>1. /\ UNCHANGED <<projImages, projKept, projTag, projText, projRunning, projUpdate, projUps,
           projExcused, projJobs>>
      /\ projChange[p].pc = "watch" /\ ~projChange[p].undone /\ ~P!Rewritten(p)
      /\ projMishaps' \in 0..MaxMishaps
  BY ProjectMishapIs DEF P!WatchText, P!Sound, P!TypeOK, P!ChangeSoFar, P!Rewritten
<1>2. /\ projChange' \in [Projects -> P!Changes]
      /\ projChange'[p].pc \in {"done", "restore", "idle"}
      /\ projChange'[p].pc \in {"done", "restore"} => ~projChange'[p].undone
      /\ \A q \in Projects \ {p} : projChange'[q] = projChange[q]
  <2>1. CASE P!Over(p)
    BY <2>1, ProjectOverIs DEF P!Sound
  <2>2. CASE P!Goto(p, "done") \/ P!Goto(p, "restore")
    BY <1>1, <2>2, ProjectGotoIs DEF P!Sound
  <2> QED  BY <2>1, <2>2 DEF P!WatchText
<1>3. P!TypeOK' /\ P!ChangeSoFar(p)'
  BY <1>1, <1>2 DEF P!Sound, P!TypeOK, P!ChangeSoFar
<1> QED  BY <1>1, <1>2, <1>3, ProjectEditMoves

(* The old text is written back, and the `up` is still to come.            *)
LEMMA ProjectRestoreKeeps ==
  ASSUME P!Sound, NEW p \in Projects, P!Restore(p)
  PROVE  P!Sound'
<1>1. /\ UNCHANGED <<projImages, projKept, projTag, projRunning, projUpdate, projUps, projJobs>>
      /\ projChange[p].pc = "restore" /\ projMishaps' \in 0..MaxMishaps
  BY ProjectMishapIs DEF P!Restore, P!Sound, P!TypeOK
<1>2. projText' \in [Projects -> Texts] /\ \A q \in Projects \ {p} : projText'[q] = projText[q]
  BY DEF P!Restore, P!Sound, P!TypeOK, P!Changes
<1> DEFINE r == [projChange[p] EXCEPT !.pc = "upback", !.undone = TRUE]
<1>3. r \in P!Changes /\ r.pc = "upback" /\ r.previous = projChange[p].previous
  BY DEF P!Sound, P!TypeOK, P!Changes
<1>4. CASE /\ projText' = [projText EXCEPT ![p] = projChange[p].previous]
           /\ projChange' = [projChange EXCEPT ![p].pc = "upback", ![p].undone = TRUE]
           /\ UNCHANGED <<projExcused, projMishaps>>
  <2>1. projChange' = [projChange EXCEPT ![p] = r]
    BY <1>4
  <2> HIDE DEF r
  <2>2. /\ projChange' \in [Projects -> P!Changes] /\ projChange'[p] = r
        /\ \A q \in Projects \ {p} : projChange'[q] = projChange[q]
    BY <1>3, <2>1 DEF P!Sound, P!TypeOK
  <2>3. projText'[p] = projChange[p].previous
    BY <1>4 DEF P!Sound, P!TypeOK
  <2>4. P!TypeOK' /\ P!ChangeSoFar(p)' /\ P!Rewritten(p)'
    BY <1>1, <1>2, <1>3, <1>4, <2>2, <2>3 DEF P!Sound, P!TypeOK, P!ChangeSoFar, P!Rewritten
  <2> QED  BY <1>1, <1>2, <1>3, <1>4, <2>2, <2>4, ProjectEditMoves
<1>5. CASE UNCHANGED projText /\ P!Over(p) /\ P!Excuse({p})
  <2>1. /\ projChange' \in [Projects -> P!Changes] /\ projChange'[p].pc = "idle"
        /\ \A q \in Projects \ {p} : projChange'[q] = projChange[q]
    BY <1>5, ProjectOverIs DEF P!Sound
  <2>2. /\ projExcused' \in [Projects -> BOOLEAN] /\ projExcused'[p]
        /\ \A q \in Projects : ~projExcused'[q] => ~projExcused[q]
    BY <1>5, ProjectExcuseIs DEF P!Sound
  <2>3. P!TypeOK' /\ P!ChangeSoFar(p)'
    BY <1>1, <1>2, <2>1, <2>2 DEF P!Sound, P!TypeOK, P!ChangeSoFar
  <2> QED  BY <1>1, <1>2, <2>1, <2>2, <2>3, ProjectEditMoves
<1> QED  BY <1>4, <1>5 DEF P!Restore

(* The edit ends.                                                          *)
LEMMA ProjectFinishKeeps ==
  ASSUME P!Sound, NEW p \in Projects, P!Finish(p)
  PROVE  P!Sound'
<1>1. /\ UNCHANGED <<projImages, projKept, projTag, projText, projRunning, projUpdate, projUps,
           projExcused, projJobs, projMishaps>>
      /\ projChange[p].pc = "done" /\ ~P!Rewritten(p)
  BY DEF P!Finish, P!Rewritten
<1>2. /\ projChange' \in [Projects -> P!Changes] /\ projChange'[p].pc = "idle"
      /\ \A q \in Projects \ {p} : projChange'[q] = projChange[q]
  BY ProjectOverIs DEF P!Finish, P!Sound
<1>3. P!TypeOK' /\ P!ChangeSoFar(p)'
  BY <1>1, <1>2 DEF P!Sound, P!TypeOK, P!ChangeSoFar
<1> QED  BY <1>1, <1>2, <1>3, ProjectEditMoves

(* The edit begins an `up`.                                                *)
LEMMA ProjectApplyTextKeeps ==
  ASSUME P!Sound, NEW p \in Projects, P!ApplyText(p)
  PROVE  P!Sound'
<1>1. /\ UNCHANGED <<projImages, projKept, projTag, projText, projRunning, projUpdate, projJobs,
           projMishaps>>
      /\ projChange[p].pc \in {"up", "upback"} /\ P!Begin(p, "edit")
  BY DEF P!ApplyText
<1>2. /\ projChange' \in [Projects -> P!Changes]
      /\ projChange'[p].pc = (IF projChange[p].pc = "up" THEN "watch_up" ELSE "watch_upback")
      /\ projChange'[p].previous = projChange[p].previous
      /\ projChange'[p].undone = projChange[p].undone
      /\ \A q \in Projects \ {p} : projChange'[q] = projChange[q]
  BY <1>1, ProjectGotoIs DEF P!ApplyText, P!Sound
<1>3. P!TypeOK'
  BY <1>1, <1>2, ProjectBeginIs DEF P!Sound, P!TypeOK
<1>4. P!UpdateSoFar'
  BY <1>1, ProjectBeginIs DEF P!Sound, P!UpdateSoFar
<1>5. ASSUME NEW q \in Projects PROVE P!ChangeSoFar(q)'
  <2>1. CASE q = p
    BY <1>1, <1>2, <2>1, ProjectBeginIs DEF P!Sound, P!ChangeSoFar
  <2>2. CASE q # p
    BY <1>1, <1>2, <2>2, ProjectBeginIs DEF P!Sound, P!ChangeSoFar
  <2> QED  BY <2>1, <2>2
<1>6. ASSUME ~projExcused'[p] PROVE P!Honest(p)'
  <2>1. projChange'[p].pc # "done" /\ projUpdate' = projUpdate
    BY <1>1, <1>2
  <2> QED  BY <1>1, <1>6, <2>1, ProjectBegunIsHonest
<1>7. ASSUME NEW q \in Projects \ {p}, ~projExcused'[q] PROVE P!Honest(q)'
  <2>1. P!UpsOf(q)' = P!UpsOf(q) /\ ~projExcused[q]
    BY <1>1, <1>7, ProjectBeginIs DEF P!Sound
  <2> QED  BY <1>1, <1>2, <1>7, <2>1, ProjectUntouched
<1> QED  BY <1>3, <1>4, <1>5, <1>6, <1>7 DEF P!Sound

(* Its helper ends.                                                        *)
LEMMA ProjectAppliedKeeps ==
  ASSUME P!Sound, NEW p \in Projects, P!Applied(p)
  PROVE  P!Sound'
<1> DEFINE back == projChange[p].pc = "watch_upback"
<1>1. /\ UNCHANGED <<projImages, projKept, projTag, projText, projUpdate, projJobs>>
      /\ projChange[p].pc \in {"watch_up", "watch_upback"} /\ projMishaps' \in 0..MaxMishaps
  BY ProjectMishapIs DEF P!Applied, P!Sound, P!TypeOK
<1>2. PICK u \in projUps : u = P!Mine(p, "edit") /\ u.on = p /\ u.by = "edit"
  BY <1>1 DEF P!Sound, P!ChangeSoFar, P!Mine
<1>3. PICK made \in BOOLEAN, excuse \in BOOLEAN :
        /\ P!Ended(u, made, excuse)
        /\ \/ made /\ P!Goto(p, IF back THEN "done" ELSE "watch")
           \/ excuse = back /\ P!Goto(p, IF back THEN "done" ELSE "restore")
           \/ excuse /\ P!Over(p)
  BY <1>2 DEF P!Applied
<1>4. /\ projChange' \in [Projects -> P!Changes]
      /\ projChange'[p].pc \in {"idle", "done", "watch", "restore"}
      /\ \A q \in Projects \ {p} : projChange'[q] = projChange[q]
      /\ projChange'[p].pc # "idle" =>
           projChange'[p].previous = projChange[p].previous
           /\ projChange'[p].undone = projChange[p].undone
      /\ projChange[p].pc = "watch_up" => ~projChange[p].undone
      /\ projChange'[p].pc \in {"watch", "restore"} => projChange[p].pc = "watch_up"
      /\ projChange'[p].pc = "done" => projChange[p].pc = "watch_upback"
      /\ ~made /\ ~excuse => projChange'[p].pc = "restore"
  <2>1. projChange[p].pc = "watch_up" => ~projChange[p].undone
    BY DEF P!Sound, P!ChangeSoFar
  <2>2. CASE made /\ P!Goto(p, IF back THEN "done" ELSE "watch")
    BY <1>1, <2>1, <2>2, ProjectGotoIs DEF P!Sound
  <2>3. CASE excuse = back /\ P!Goto(p, IF back THEN "done" ELSE "restore")
    BY <1>1, <2>1, <2>3, ProjectGotoIs DEF P!Sound
  <2>4. CASE excuse /\ P!Over(p)
    BY <2>1, <2>4, ProjectOverIs DEF P!Sound
  <2> QED  BY <1>3, <2>2, <2>3, <2>4
<1> HIDE DEF back
<1>5. /\ projUps' = projUps \ {u}
      /\ projRunning' \in [Projects -> P!Stacks] /\ projExcused' \in [Projects -> BOOLEAN]
      /\ \A q \in Projects \ {p} :
           /\ projRunning'[q] = projRunning[q] /\ projExcused'[q] = projExcused[q]
           /\ P!UpsOf(q)' = P!UpsOf(q)
  BY <1>1, <1>2, <1>3, ProjectEndedIs
<1>6. P!TypeOK'
  BY <1>1, <1>4, <1>5 DEF P!Sound, P!TypeOK
<1>7. P!UpdateSoFar'
  BY <1>1, <1>2, <1>5 DEF P!Sound, P!UpdateSoFar
<1>8. ASSUME NEW q \in Projects PROVE P!ChangeSoFar(q)'
  <2>1. CASE q = p
    BY <1>1, <1>4, <2>1 DEF P!Sound, P!ChangeSoFar
  <2>2. CASE q # p
    BY <1>1, <1>2, <1>4, <1>5, <2>2 DEF P!Sound, P!ChangeSoFar
  <2> QED  BY <2>1, <2>2
<1>9. ASSUME ~projExcused'[p] PROVE P!Honest(p)'
  <2>1. /\ ~P!Rewritten(p) /\ (P!Retagged(p) => P!Retagged(p)')
        /\ projChange'[p].pc = "restore" => P!Undoing(p)'
    BY <1>1, <1>4 DEF P!Retagged, P!Rewritten, P!Undoing
  <2>2. P!ChangeSoFar(u.on)'
    BY <1>2, <1>8
  <2> QED  BY <1>1, <1>2, <1>3, <1>4, <1>7, <1>9, <2>1, <2>2, ProjectEndedIsHonest
<1>10. ASSUME NEW q \in Projects \ {p} PROVE ~projExcused'[q] => P!Honest(q)'
  BY <1>1, <1>4, <1>5, ProjectUntouched
<1> QED  BY <1>6, <1>7, <1>8, <1>9, <1>10 DEF P!Sound

(* ---- the agent goes, and the helpers it leaves end *)
LEMMA ProjectAgentRestartKeeps ==
  ASSUME P!Sound, P!AgentRestart
  PROVE  P!Sound'
<1>1. /\ UNCHANGED <<projImages, projKept, projTag, projText, projRunning,
           projJobs>> /\ projMishaps' \in 0..MaxMishaps
      /\ projUpdate' = P!NoUpdate /\ projUpdate'.pc = "idle" /\ projUpdate' \in P!Updates
      /\ projUps' = {[u EXCEPT !.by = "nobody"] : u \in projUps}
  BY ProjectMishapIs, ProjectNoUpdateIs DEF P!AgentRestart, P!Sound
<1>2. projChange' \in [Projects -> P!Changes] /\ \A p \in Projects : projChange'[p].pc = "idle"
  BY ProjectNoChangeIs DEF P!AgentRestart
<1>3. /\ projExcused' \in [Projects -> BOOLEAN]
      /\ \A p \in Projects : projExcused'[p] <=> projExcused[p] \/ P!AtWork(p)
  <2> DEFINE busy == {p \in Projects : P!AtWork(p)}
  <2>1. P!Excuse(busy) /\ \A p \in Projects : p \in busy <=> P!AtWork(p)
    BY DEF P!AgentRestart
  <2> HIDE DEF busy
  <2> QED  BY <2>1, ProjectExcuseIs DEF P!Sound
<1>4. projUps' \subseteq P!Helpers
  BY <1>1 DEF P!Sound, P!TypeOK, P!Helpers
<1>5. P!TypeOK' /\ P!UpdateSoFar' /\ \A p \in Projects : P!ChangeSoFar(p)'
  BY <1>1, <1>2, <1>3, <1>4 DEF P!Sound, P!TypeOK, P!UpdateSoFar, P!ChangeSoFar
<1>6. ASSUME NEW p \in Projects, ~projExcused'[p] PROVE P!Honest(p)'
  <2>1. ~P!AtWork(p) /\ P!Honest(p)
    BY <1>3, <1>6 DEF P!Sound
  <2>2. P!UpsOf(p) = {} /\ ~P!Retagged(p) /\ ~P!Rewritten(p) /\ ~P!Undoing(p)
    BY <2>1 DEF P!AtWork, P!Retagged, P!Rewritten, P!Undoing
  <2>3. projRunning[p].text = projText[p] /\ projRunning[p].image = projTag[ImageOf[p]]
    BY <2>1, <2>2 DEF P!Honest
  <2>4. P!UpsOf(p)' = {}
    BY <1>1, <2>2 DEF P!UpsOf, P!Sound, P!TypeOK, P!Helpers
  <2> QED  BY <1>1, <1>2, <2>3, <2>4 DEF P!Honest
<1> QED  BY <1>5, <1>6 DEF P!Sound

(* A helper that nobody waits for any more ends.                           *)
LEMMA ProjectOrphanEndsKeeps ==
  ASSUME P!Sound, P!OrphanEnds
  PROVE  P!Sound'
<1>1. UNCHANGED <<projImages, projKept, projTag, projText, projUpdate, projChange, projJobs,
      projMishaps>>
  BY DEF P!OrphanEnds
<1>2. PICK u \in projUps, made \in BOOLEAN : u.by = "nobody" /\ P!Ended(u, made, TRUE)
  BY DEF P!OrphanEnds
<1>3. /\ u.on \in Projects /\ projUps' = projUps \ {u}
      /\ projRunning' \in [Projects -> P!Stacks] /\ projExcused' \in [Projects -> BOOLEAN]
      /\ \A q \in Projects \ {u.on} :
           /\ projRunning'[q] = projRunning[q] /\ projExcused'[q] = projExcused[q]
           /\ P!UpsOf(q)' = P!UpsOf(q)
  BY <1>1, <1>2, ProjectEndedIs
<1>4. P!TypeOK'
  BY <1>1, <1>3 DEF P!Sound, P!TypeOK
<1>5. P!UpdateSoFar' /\ \A q \in Projects : P!ChangeSoFar(q)'
  BY <1>1, <1>2, <1>3 DEF P!Sound, P!UpdateSoFar, P!ChangeSoFar
<1>6. ASSUME ~projExcused'[u.on] PROVE P!Honest(u.on)'
  <2>1. (P!Retagged(u.on) => P!Retagged(u.on)') /\ (P!Rewritten(u.on) => P!Rewritten(u.on)')
    BY <1>1 DEF P!Retagged, P!Rewritten
  <2>2. P!ChangeSoFar(u.on)'
    BY <1>3, <1>5
  <2> QED  BY <1>1, <1>2, <1>5, <1>6, <2>1, <2>2, ProjectEndedIsHonest
<1>7. ASSUME NEW q \in Projects \ {u.on} PROVE ~projExcused'[q] => P!Honest(q)'
  BY <1>1, <1>3, ProjectUntouched
<1> QED  BY <1>3, <1>4, <1>5, <1>6, <1>7 DEF P!Sound

(* No step breaks it.                                                      *)
LEMMA ProjectStepIsSound == P!Sound /\ [P!Next]_P!projectVars => P!Sound'
<1> SUFFICES ASSUME P!Sound, [P!Next]_P!projectVars PROVE P!Sound'
  OBVIOUS
<1>1. ASSUME UNCHANGED P!projectVars PROVE P!Sound'
  BY <1>1 DEF P!projectVars, P!Sound, P!TypeOK, P!UpdateSoFar, P!ChangeSoFar, P!Honest, P!UpsOf,
            P!Retagged,
              P!Rewritten, P!Undoing
<1>2. ASSUME NEW p \in Projects, P!SaveByHand(p) \/ P!StartChange(p) PROVE P!Sound'
  BY <1>2, ProjectSaveByHandKeeps, ProjectStartChangeKeeps
<1>3. ASSUME NEW p \in Projects, P!ChangeSteps(p) PROVE P!Sound'
  BY <1>3, ProjectCheckTextKeeps, ProjectSaveKeeps, ProjectApplyTextKeeps, ProjectAppliedKeeps,
           ProjectWatchTextKeeps, ProjectRestoreKeeps,
     ProjectFinishKeeps DEF P!ChangeSteps
<1>4. ASSUME P!UpdateSteps PROVE P!Sound'
  BY <1>4, ProjectNextProjectKeeps, ProjectTagOldKeeps, ProjectPullKeeps, ProjectBeginUpKeeps,
           ProjectEndUpKeeps, ProjectWatchKeeps,
     ProjectRetagKeeps, ProjectUntagKeeps DEF P!UpdateSteps
<1> QED  BY <1>1, <1>2, <1>3, <1>4, ProjectPruneKeeps, ProjectStartUpdateKeeps,
                  ProjectAgentRestartKeeps,
            ProjectOrphanEndsKeeps DEF P!Next

(* What the job noted when it came to a project that had not gone astray:  *)
(* the image it ran was the tag's.                                         *)
LEMMA ProjectRanTheTagKeeps ==
  ASSUME P!Sound, P!RanTheTag, [P!Next]_P!projectVars
  PROVE  P!RanTheTag'
<1>1. CASE UNCHANGED projUpdate
  BY <1>1 DEF P!RanTheTag
<1>2. CASE P!NextProject
  <2>1. CASE projUpdate.todo = {}
    BY <1>2, <2>1, ProjectNoUpdateIs DEF P!NextProject, P!RanTheTag
  <2>2. CASE projUpdate.todo # {}
    <3>1. PICK p \in projUpdate.todo :
            projUpdate' = [projUpdate EXCEPT !.pc = "tag", !.on = p, !.todo = @ \ {p},
            !.undone = FALSE]
      BY <1>2, <2>2 DEF P!NextProject
    <3> QED  BY <3>1 DEF P!RanTheTag, P!Sound, P!TypeOK, P!Updates
  <2> QED  BY <2>1, <2>2
<1>3. CASE P!TagOld
  <2> DEFINE p == projUpdate.on
             r == ImageOf[p]
  <2>1. CASE projUpdate' = [projUpdate EXCEPT !.pc = "pull", !.old = projTag[r],
                                              !.was = projRunning[p].image,
                                              !.astray = P!Astray(p)]
    <3>1. /\ projUpdate'.old = projTag[r] /\ projUpdate'.was = projRunning[p].image
          /\ projUpdate'.astray = P!Astray(p)
          /\ p \in Projects
      BY <2>1 DEF P!Sound, P!TypeOK, P!Updates
    <3>2. SUFFICES ASSUME ~P!Astray(p) PROVE projRunning[p].image = projTag[r]
      BY <3>1 DEF P!RanTheTag
    <3>3. P!Honest(p) /\ P!UpsOf(p) = {} /\ projChange[p].pc = "idle" /\ projUpdate.pc = "tag"
      BY <1>3, <3>1, <3>2 DEF P!Astray, P!Sound, P!TagOld
    <3> QED  BY <3>3 DEF P!Honest, P!Retagged, P!Rewritten, P!Undoing
  <2>2. CASE P!Step("next")
    BY <2>2, ProjectStepIs DEF P!Sound, P!RanTheTag
  <2> QED  BY <1>3, <2>1, <2>2 DEF P!TagOld
<1>4. CASE P!Retag
  <2>1. CASE projUpdate' = [projUpdate EXCEPT !.pc = "upback", !.undone = TRUE]
    BY <2>1 DEF P!RanTheTag, P!Sound, P!TypeOK, P!Updates
  <2>2. CASE P!Step("untag")
    BY <2>2, ProjectStepIs DEF P!Sound, P!RanTheTag
  <2> QED  BY <1>4, <2>1, <2>2 DEF P!Retag
<1>5. ASSUME NEW pc \in {"up", "watch_up", "watch", "retag", "watch_upback", "untag", "hung",
                     "next"}, P!Step(pc)
      PROVE  P!RanTheTag'
  BY <1>5, ProjectStepIs DEF P!Sound, P!RanTheTag
<1>6. CASE P!Pull \/ P!BeginUp \/ P!EndUp \/ P!Watch \/ P!Untag
  BY <1>5, <1>6 DEF P!Pull, P!BeginUp, P!EndUp, P!Watch, P!Untag
<1>7. CASE P!StartUpdate \/ P!AgentRestart
  <2>1. projUpdate'.was = projUpdate'.old
    BY <1>7, ProjectNoUpdateIs DEF P!StartUpdate, P!AgentRestart, P!Updates
  <2> QED  BY <2>1 DEF P!RanTheTag
<1>8. ASSUME NEW p \in Projects, P!SaveByHand(p) \/ P!StartChange(p) \/ P!ChangeSteps(p)
      PROVE  UNCHANGED projUpdate
  BY <1>8 DEF P!SaveByHand, P!StartChange, P!ChangeSteps, P!CheckText, P!Save, P!ApplyText,
            P!Applied, P!WatchText,
              P!Restore, P!Finish
<1>9. CASE P!Prune \/ P!OrphanEnds \/ UNCHANGED P!projectVars
  BY <1>1, <1>9 DEF P!Prune, P!OrphanEnds, P!projectVars
<1> QED  BY <1>1, <1>2, <1>3, <1>4, <1>6, <1>7, <1>8, <1>9 DEF P!Next, P!UpdateSteps

(* At the start everything runs what is written.                           *)
LEMMA ProjectInit == P!Init => P!Inductive
<1>1. P!Init => P!RanTheTag
  BY ProjectNoUpdateIs DEF P!Init, P!RanTheTag
<1> QED  BY <1>1, ProjectStartIsSound DEF P!Inductive

(* No step breaks it.                                                      *)
LEMMA ProjectStep == P!Inductive /\ [P!Next]_P!projectVars => P!Inductive'
  BY ProjectStepIsSound, ProjectRanTheTagKeeps DEF P!Inductive

(* ... and so it is as long as this component is the one at work.          *)
LEMMA ProjectRuns == Spec => [](which = "projects" => P!Inductive)
<1>1. Init => (which = "projects" => P!Inductive)
  BY ProjectInit DEF Init
<1>2. (which = "projects" => P!Inductive) /\ [Next]_vars
      => (which = "projects" => P!Inductive)'
  <2> SUFFICES ASSUME which = "projects" => P!Inductive, [Next]_vars, which' = "projects"
               PROVE  P!Inductive'
    OBVIOUS
  <2>1. which = "projects" /\ (P!Next \/ UNCHANGED P!projectVars)
    BY OneAtWork DEF vars, P!projectVars
  <2> QED  BY <2>1, ProjectStep
<1> QED  BY <1>1, <1>2, PTL DEF Spec

-----------------------------------------------------------------------------
(* The deployed stacks (stack_deploy.py).                                  *)
stackFolder == v1
stackRunning == v2
stackOp == v3
stackRequests == v4
stackFaults == v5
stackPromised == v6
USE DEF stackFolder, stackRunning, stackOp, stackRequests, stackFaults, stackPromised

(* A user who has asked for nothing.                                       *)
LEMMA StackNoOpTyped == Q!NoOp \in Q!Ops
  BY DEF Q!NoOp, Q!Ops, Q!Absent, Q!Stacks

(* The request of u goes on; the others stay where they are.               *)
LEMMA StackGone ==
  ASSUME Q!Inductive, NEW u \in Users, NEW r \in Q!Ops, stackOp' = [stackOp EXCEPT ![u] = r]
  PROVE  /\ stackOp' \in [Users -> Q!Ops] /\ stackOp'[u] = r
         /\ \A v \in Users \ {u} : stackOp'[v] = stackOp[v]
  BY DEF Q!Inductive, Q!TypeOK

(* A request that is over.                                                 *)
LEMMA StackEnded ==
  ASSUME Q!Inductive, NEW u \in Users, Q!End(u)
  PROVE  /\ stackOp' \in [Users -> Q!Ops] /\ ~Q!AtWork(u)'
         /\ \A v \in Users \ {u} : stackOp'[v] = stackOp[v]
<1>1. /\ stackOp' \in [Users -> Q!Ops] /\ stackOp'[u] = Q!NoOp
      /\ \A v \in Users \ {u} : stackOp'[v] = stackOp[v]
  BY StackNoOpTyped, StackGone DEF Q!End
<1> QED  BY <1>1 DEF Q!AtWork, Q!NoOp

(* A request goes on; what it was asked stays.                             *)
LEMMA StackWentTo ==
  ASSUME Q!Inductive, NEW u \in Users, Q!Goto(u, "text") \/ Q!Goto(u, "env") \/ Q!Goto(u, "up")
         \/ Q!Goto(u, "rmtree")
  PROVE  /\ stackOp' \in [Users -> Q!Ops]
         /\ stackOp'[u].text = stackOp[u].text /\ stackOp'[u].env = stackOp[u].env
         /\ stackOp'[u].alone = stackOp[u].alone
         /\ \A pc \in {"text", "env", "up", "rmtree"} : Q!Goto(u, pc) => stackOp'[u].pc = pc
         /\ \A v \in Users \ {u} : stackOp'[v] = stackOp[v]
<1>1. PICK pc \in {"text", "env", "up", "rmtree"} : Q!Goto(u, pc)
  OBVIOUS
<1>2. stackOp[u] \in Q!Ops
  BY DEF Q!Inductive, Q!TypeOK
<1> DEFINE r == [stackOp[u] EXCEPT !.pc = pc]
<1>3. r \in Q!Ops /\ r.text = stackOp[u].text /\ r.env = stackOp[u].env
      /\ r.alone = stackOp[u].alone /\ r.pc = pc
  BY <1>2 DEF Q!Ops
<1>4. stackOp' = [stackOp EXCEPT ![u] = r]
  BY <1>1 DEF Q!Goto
<1>5. stackOp'[u] = r
  BY <1>3, <1>4, StackGone
<1>6. \A other \in {"text", "env", "up", "rmtree"} : Q!Goto(u, other) => stackOp'[u].pc = other
  BY <1>2 DEF Q!Goto, Q!Inductive, Q!TypeOK, Q!Ops
<1> QED  BY <1>3, <1>4, <1>5, <1>6, StackGone

(* While u is at work, it is the only one that may be alone.               *)
LEMMA StackAlone ==
  ASSUME Q!Inductive, NEW u \in Users, Q!AtWork(u),
         \A v \in Users \ {u} : stackOp'[v] = stackOp[v],
         Q!TypeOK', stackPromised' = Q!Unknown
         \/ (~Q!AtWork(u)' /\ stackOp[u].alone), Q!StackAsAsked',
         Q!AtWork(u)' /\ stackOp'[u].alone => stackOp[u].alone /\ Q!SoFar(u)'
  PROVE  Q!Inductive'
<1>1. ASSUME NEW v \in Users, Q!AtWork(v)', stackOp'[v].alone
      PROVE  Q!SoFar(v)' /\ \A w \in Users \ {v} : ~Q!AtWork(w)'
  <2>1. CASE v = u
    BY <1>1, <2>1 DEF Q!Inductive, Q!AtWork
  <2>2. CASE v # u
    <3>1. Q!AtWork(v) /\ stackOp[v].alone
      BY <1>1, <2>2 DEF Q!AtWork
    <3> QED  BY <2>2, <3>1 DEF Q!Inductive
  <2> QED  BY <2>1, <2>2
<1>2. stackPromised' # Q!Unknown => \A v \in Users : ~Q!AtWork(v)'
  BY DEF Q!Inductive, Q!AtWork
<1> QED  BY <1>1, <1>2 DEF Q!Inductive

(* At the start there is no stack and nothing was promised.                *)
LEMMA StackInit == Q!Init => Q!Inductive
<1> SUFFICES ASSUME Q!Init PROVE Q!Inductive
  OBVIOUS
<1>1. Q!TypeOK
  BY StackNoOpTyped, StackAssumption DEF Q!Init, Q!TypeOK, Q!Absent, Q!Stacks, Q!StackSane
<1>2. \A u \in Users : ~Q!AtWork(u)
  BY DEF Q!Init, Q!AtWork, Q!NoOp
<1> QED  BY <1>1, <1>2 DEF Q!Init, Q!Inductive, Q!StackAsAsked

(* A request that begins.                                                  *)
LEMMA StackBeginKeeps ==
  ASSUME Q!Inductive, NEW u \in Users, NEW first \in Q!Ops, Q!Begin(u, first),
         first.pc \in {"mkdir", "down"}
  PROVE  Q!Inductive'
<1>1. stackOp' \in [Users -> Q!Ops]
  <2> SUFFICES ASSUME NEW v \in Users PROVE stackOp'[v] \in Q!Ops
    BY DEF Q!Begin
  <2>1. stackOp[v] \in Q!Ops
    BY DEF Q!Inductive, Q!TypeOK
  <2>2. stackOp'[v] = IF v = u THEN [first EXCEPT !.alone = {w \in Users : Q!AtWork(w)} = {}]
                      ELSE [stackOp[v] EXCEPT !.alone = FALSE]
    BY DEF Q!Begin
  <2>3. ASSUME NEW r \in Q!Ops, NEW b \in BOOLEAN PROVE [r EXCEPT !.alone = b] \in Q!Ops
    BY DEF Q!Ops
  <2>4. PICK b \in BOOLEAN : b = ({w \in Users : Q!AtWork(w)} = {})
    OBVIOUS
  <2> QED  BY <2>1, <2>2, <2>3, <2>4
<1>2. Q!TypeOK'
  BY <1>1, StackAssumption DEF Q!Begin, Q!Inductive, Q!TypeOK, Q!StackSane
<1>3. \A v \in Users : v # u => ~stackOp'[v].alone
  BY DEF Q!Begin, Q!Inductive, Q!TypeOK, Q!Ops
<1>4. stackOp'[u].alone => \A v \in Users \ {u} : ~Q!AtWork(v)'
  BY DEF Q!Begin, Q!Inductive, Q!TypeOK, Q!Ops, Q!AtWork
<1>5. stackOp'[u].pc \in {"mkdir", "down"}
  BY DEF Q!Begin, Q!Ops
<1>6. stackPromised' = Q!Unknown
  BY DEF Q!Begin
<1> QED  BY <1>2, <1>3, <1>4, <1>5, <1>6 DEF Q!Inductive, Q!StackAsAsked, Q!SoFar

(* A request arrives; it is alone if no other is at work.                  *)
LEMMA StackStartKeeps ==
  ASSUME Q!Inductive, NEW u \in Users, Q!Deploy(u) \/ Q!Remove(u)
  PROVE  Q!Inductive'
<1>1. CASE Q!Deploy(u)
  <2>1. PICK text \in Texts, env \in Envs \cup {Q!None} :
          Q!Begin(u, [Q!NoOp EXCEPT !.pc = "mkdir", !.text = text, !.env = env])
    BY <1>1 DEF Q!Deploy
  <2> DEFINE first == [Q!NoOp EXCEPT !.pc = "mkdir", !.text = text, !.env = env]
  <2>2. first \in Q!Ops /\ first.pc = "mkdir"
    BY StackNoOpTyped DEF Q!NoOp, Q!Ops
  <2> QED  BY <2>1, <2>2, StackBeginKeeps
<1>2. CASE Q!Remove(u)
  <2> DEFINE first == [Q!NoOp EXCEPT !.pc = "down"]
  <2>1. first \in Q!Ops /\ first.pc = "down"
    BY StackNoOpTyped DEF Q!NoOp, Q!Ops
  <2> QED  BY <1>2, <2>1, StackBeginKeeps DEF Q!Remove
<1> QED  BY <1>1, <1>2

(* The folder is made, or found.                                           *)
LEMMA StackMakeFolderKeeps ==
  ASSUME Q!Inductive, NEW u \in Users, Q!MakeFolder(u)
  PROVE  Q!Inductive'
<1>1. Q!AtWork(u) /\ stackPromised' = Q!Unknown
      /\ UNCHANGED <<stackRunning, stackRequests, stackFaults>>
  BY DEF Q!MakeFolder, Q!AtWork, Q!Inductive
<1>2. stackFolder' \in Q!Stacks /\ stackFolder'.there
  BY DEF Q!MakeFolder, Q!Inductive, Q!TypeOK, Q!Stacks
<1>3. Q!TypeOK' /\ stackOp'[u].pc = "text"
  BY <1>1, <1>2, StackWentTo DEF Q!MakeFolder, Q!Inductive, Q!TypeOK
<1>4. Q!SoFar(u)' /\ Q!StackAsAsked'
  BY <1>1, <1>2, <1>3 DEF Q!SoFar, Q!StackAsAsked
<1>5. stackOp'[u].alone = stackOp[u].alone /\ \A v \in Users \ {u} : stackOp'[v] = stackOp[v]
  BY StackWentTo DEF Q!MakeFolder
<1> QED  BY <1>1, <1>3, <1>4, <1>5, StackAlone

(* The compose file is written.                                            *)
LEMMA StackWriteTextKeeps ==
  ASSUME Q!Inductive, NEW u \in Users, Q!WriteText(u)
  PROVE  Q!Inductive'
<1>1. Q!AtWork(u) /\ stackPromised' = Q!Unknown
      /\ UNCHANGED <<stackRunning, stackRequests, stackFaults>> /\ stackOp[u] \in Q!Ops
  BY DEF Q!WriteText, Q!AtWork, Q!Inductive, Q!TypeOK
<1>2. CASE stackFolder.there
  <2>1. /\ stackFolder' = [stackFolder EXCEPT !.text = stackOp[u].text] /\ Q!Goto(u, "env")
        /\ stackOp[u].pc = "text"
    BY <1>2 DEF Q!WriteText
  <2>2. stackFolder' \in Q!Stacks /\ stackFolder'.there = stackFolder.there
        /\ stackFolder'.text = stackOp[u].text
    BY <1>1, <2>1 DEF Q!Inductive, Q!TypeOK, Q!Stacks, Q!Ops
  <2>3. Q!TypeOK' /\ stackOp'[u].pc = "env"
    BY <1>1, <2>1, <2>2, StackWentTo DEF Q!Inductive, Q!TypeOK
  <2>4. stackOp[u].alone => Q!SoFar(u)'
    BY <1>1, <1>2, <2>1, <2>2, <2>3, StackWentTo DEF Q!SoFar
  <2> QED  BY <1>1, <2>1, <2>3, <2>4, StackWentTo, StackAlone DEF Q!StackAsAsked
<1>3. CASE ~stackFolder.there
  <2>1. Q!End(u) /\ UNCHANGED stackFolder
    BY <1>3 DEF Q!WriteText
  <2>2. Q!TypeOK'
    BY <1>1, <2>1, StackEnded DEF Q!Inductive, Q!TypeOK
  <2> QED  BY <1>1, <2>1, <2>2, StackEnded, StackAlone DEF Q!StackAsAsked
<1> QED  BY <1>2, <1>3

(* The file with the environment is written, or removed.                   *)
LEMMA StackWriteEnvKeeps ==
  ASSUME Q!Inductive, NEW u \in Users, Q!WriteEnv(u)
  PROVE  Q!Inductive'
<1>1. Q!AtWork(u) /\ stackPromised' = Q!Unknown
      /\ UNCHANGED <<stackRunning, stackRequests,
           stackFaults>> /\ stackOp[u] \in Q!Ops /\ stackOp[u].pc = "env"
  BY DEF Q!WriteEnv, Q!AtWork, Q!Inductive, Q!TypeOK
<1>2. CASE stackFolder.there
  <2>1. stackFolder' = [stackFolder EXCEPT !.env = stackOp[u].env] /\ Q!Goto(u, "up")
    BY <1>2 DEF Q!WriteEnv, Q!EnvFile
  <2>2. stackFolder' \in Q!Stacks /\ stackFolder'.there = stackFolder.there
        /\ stackFolder'.text = stackFolder.text /\ stackFolder'.env = stackOp[u].env
    BY <1>1, <2>1 DEF Q!Inductive, Q!TypeOK, Q!Stacks, Q!Ops
  <2>3. Q!TypeOK' /\ stackOp'[u].pc = "up"
    BY <1>1, <2>1, <2>2, StackWentTo DEF Q!Inductive, Q!TypeOK
  <2>4. stackOp[u].alone => Q!SoFar(u)'
    BY <1>1, <1>2, <2>1, <2>2, <2>3, StackWentTo DEF Q!SoFar, Q!Inductive
  <2> QED  BY <1>1, <2>1, <2>3, <2>4, StackWentTo, StackAlone DEF Q!StackAsAsked
<1>3. CASE ~stackFolder.there /\ stackOp[u].env = Q!None
  <2>1. UNCHANGED stackFolder /\ Q!Goto(u, "up")
    BY <1>3 DEF Q!WriteEnv
  <2>2. Q!TypeOK'
    BY <1>1, <2>1, StackWentTo DEF Q!Inductive, Q!TypeOK
  <2>3. ~stackOp[u].alone
    BY <1>1, <1>3 DEF Q!Inductive, Q!SoFar
  <2> QED  BY <1>1, <2>1, <2>2, <2>3, StackWentTo, StackAlone DEF Q!StackAsAsked
<1>4. CASE ~stackFolder.there /\ stackOp[u].env # Q!None
  <2>1. UNCHANGED stackFolder /\ Q!End(u)
    BY <1>4 DEF Q!WriteEnv
  <2>2. Q!TypeOK'
    BY <1>1, <2>1, StackEnded DEF Q!Inductive, Q!TypeOK
  <2> QED  BY <1>1, <2>1, <2>2, StackEnded, StackAlone DEF Q!StackAsAsked
<1> QED  BY <1>2, <1>3, <1>4

(* The `up` reads both.                                                    *)
LEMMA StackStartUpKeeps ==
  ASSUME Q!Inductive, NEW u \in Users, Q!StartUp(u)
  PROVE  Q!Inductive'
<1>1. /\ Q!AtWork(u) /\ stackPromised' = Q!Unknown
      /\ UNCHANGED <<stackFolder, stackRunning, stackRequests, stackFaults>>
      /\ stackOp[u] \in Q!Ops /\ stackOp[u].pc = "up" /\ stackFolder \in Q!Stacks
  BY DEF Q!StartUp, Q!AtWork, Q!Inductive, Q!TypeOK
<1>2. CASE stackFolder.there /\ stackFolder.text # Q!None
  <2> DEFINE r == [stackOp[u] EXCEPT !.pc = "upping", !.makes = stackFolder]
  <2>1. r \in Q!Ops
    BY <1>1 DEF Q!Ops
  <2>2. stackOp' = [stackOp EXCEPT ![u] = r]
    BY <1>2 DEF Q!StartUp
  <2>3. /\ stackOp' \in [Users -> Q!Ops] /\ stackOp'[u] = r
        /\ \A v \in Users \ {u} : stackOp'[v] = stackOp[v]
    BY <2>1, <2>2, StackGone
  <2>4. /\ stackOp'[u].pc = "upping" /\ stackOp'[u].makes = stackFolder
        /\ stackOp'[u].text = stackOp[u].text
        /\ stackOp'[u].env = stackOp[u].env /\ stackOp'[u].alone = stackOp[u].alone
    BY <1>1, <2>3 DEF Q!Ops
  <2>5. Q!TypeOK'
    BY <1>1, <2>3 DEF Q!Inductive, Q!TypeOK
  <2>6. stackOp[u].alone => Q!SoFar(u)'
    BY <1>1, <2>4 DEF Q!Inductive, Q!SoFar
  <2> QED  BY <1>1, <2>3, <2>4, <2>5, <2>6, StackAlone DEF Q!StackAsAsked
<1>3. CASE ~(stackFolder.there /\ stackFolder.text # Q!None)
  <2>1. Q!End(u)
    BY <1>3 DEF Q!StartUp
  <2>2. Q!TypeOK'
    BY <1>1, <2>1, StackEnded DEF Q!Inductive, Q!TypeOK
  <2> QED  BY <1>1, <2>1, <2>2, StackEnded, StackAlone DEF Q!StackAsAsked
<1> QED  BY <1>2, <1>3

(* The `up` ends: what it made runs, or some of it, or it failed.          *)
LEMMA StackUppedKeeps ==
  ASSUME Q!Inductive, NEW u \in Users, Q!Upped(u)
  PROVE  Q!Inductive'
<1>1. /\ Q!AtWork(u) /\ stackPromised = Q!Unknown /\ UNCHANGED <<stackFolder, stackRequests>>
      /\ stackOp[u] \in Q!Ops /\ stackOp[u].pc = "upping" /\ stackFolder \in Q!Stacks /\ Q!End(u)
  BY DEF Q!Upped, Q!AtWork, Q!Inductive, Q!TypeOK
<1>2. stackRunning' \in Q!Stacks /\ stackFaults' \in 0..MaxFaults
  BY <1>1, StackAssumption DEF Q!Upped, Q!Faulty, Q!Inductive, Q!TypeOK, Q!Ops, Q!StackSane
<1>3. Q!TypeOK'
  BY <1>1, <1>2, StackEnded DEF Q!Inductive, Q!TypeOK
<1>4. CASE stackPromised' = Q!Unknown
  BY <1>1, <1>3, <1>4, StackEnded, StackAlone DEF Q!StackAsAsked
<1>5. CASE stackPromised' # Q!Unknown
  <2>1. /\ stackOp[u].alone /\ stackRunning' = stackOp[u].makes
        /\ stackPromised' = Q!Stack(stackOp[u].text, stackOp[u].env)
    BY <1>1, <1>5 DEF Q!Upped
  <2>2. stackFolder = Q!Stack(stackOp[u].text, stackOp[u].env) /\ stackOp[u].makes = stackFolder
    BY <1>1, <2>1 DEF Q!Inductive, Q!SoFar, Q!Stack, Q!Stacks
  <2>3. Q!StackAsAsked'
    BY <1>1, <2>1, <2>2 DEF Q!StackAsAsked
  <2> QED  BY <1>1, <1>3, <2>1, <2>3, StackEnded, StackAlone
<1> QED  BY <1>4, <1>5

(* A removal takes the stack down.                                         *)
LEMMA StackDownKeeps ==
  ASSUME Q!Inductive, NEW u \in Users, Q!Down(u)
  PROVE  Q!Inductive'
<1>1. /\ Q!AtWork(u) /\ stackPromised' = Q!Unknown /\ UNCHANGED <<stackFolder, stackRequests>>
      /\ stackOp[u] \in Q!Ops /\ stackOp[u].pc = "down"
  BY DEF Q!Down, Q!AtWork, Q!Inductive, Q!TypeOK
<1>2. stackRunning' \in Q!Stacks /\ stackFaults' \in 0..MaxFaults
  <2>1. Q!Absent \in Q!Stacks /\ MaxFaults \in Nat
    BY StackAssumption DEF Q!Absent, Q!Stacks, Q!StackSane
  <2> QED  BY <1>1, <2>1 DEF Q!Down, Q!Faulty, Q!Inductive, Q!TypeOK
<1>3. CASE stackRunning' = Q!Absent /\ Q!Goto(u, "rmtree")
  <2>1. Q!TypeOK' /\ stackOp'[u].pc = "rmtree"
    BY <1>1, <1>2, <1>3, StackWentTo DEF Q!Inductive, Q!TypeOK
  <2> QED  BY <1>1, <1>3, <2>1, StackWentTo, StackAlone DEF Q!StackAsAsked, Q!SoFar
<1>4. CASE stackOp' = [stackOp EXCEPT ![u].pc = "rmtree", ![u].alone = FALSE]
  <2> DEFINE r == [stackOp[u] EXCEPT !.pc = "rmtree", !.alone = FALSE]
  <2>1. r \in Q!Ops /\ ~r.alone
    BY <1>1 DEF Q!Ops
  <2>2. stackOp' = [stackOp EXCEPT ![u] = r]
    BY <1>4
  <2>3. /\ stackOp' \in [Users -> Q!Ops] /\ stackOp'[u] = r
        /\ \A v \in Users \ {u} : stackOp'[v] = stackOp[v]
    BY <2>1, <2>2, StackGone
  <2>4. Q!TypeOK'
    BY <1>1, <1>2, <2>3 DEF Q!Inductive, Q!TypeOK
  <2> QED  BY <1>1, <2>1, <2>3, <2>4, StackAlone DEF Q!StackAsAsked
<1>5. CASE Q!End(u)
  <2>1. Q!TypeOK'
    BY <1>1, <1>2, <1>5, StackEnded DEF Q!Inductive, Q!TypeOK
  <2> QED  BY <1>1, <1>5, <2>1, StackEnded, StackAlone DEF Q!StackAsAsked
<1> QED  BY <1>3, <1>4, <1>5 DEF Q!Down

(* ... and deletes its folder.                                             *)
LEMMA StackRemoveTreeKeeps ==
  ASSUME Q!Inductive, NEW u \in Users, Q!RemoveTree(u)
  PROVE  Q!Inductive'
<1>1. /\ Q!AtWork(u) /\ stackPromised = Q!Unknown
      /\ UNCHANGED <<stackRunning, stackRequests, stackFaults>>
      /\ stackOp[u].pc = "rmtree" /\ stackFolder' = Q!Absent /\ Q!End(u)
  BY DEF Q!RemoveTree, Q!AtWork, Q!Inductive
<1>2. Q!TypeOK'
  BY <1>1, StackEnded DEF Q!Inductive, Q!TypeOK, Q!Absent, Q!Stacks
<1>3. CASE ~stackOp[u].alone
  <2>1. stackPromised' = Q!Unknown
    BY <1>3 DEF Q!RemoveTree
  <2> QED  BY <1>1, <1>2, <2>1, StackEnded, StackAlone DEF Q!StackAsAsked
<1>4. CASE stackOp[u].alone
  <2>1. stackPromised' = Q!Absent /\ stackRunning = Q!Absent
    BY <1>1, <1>4 DEF Q!RemoveTree, Q!Inductive, Q!SoFar
  <2> QED  BY <1>1, <1>2, <1>4, <2>1, StackEnded, StackAlone DEF Q!StackAsAsked
<1> QED  BY <1>3, <1>4

(* The agent restarts.                                                     *)
LEMMA StackRestartKeeps ==
  ASSUME Q!Inductive, Q!AgentRestart
  PROVE  Q!Inductive'
<1>1. Q!TypeOK'
  BY StackNoOpTyped, StackAssumption DEF Q!AgentRestart, Q!Faulty, Q!Inductive, Q!TypeOK,
       Q!StackSane
<1>2. \A u \in Users : ~Q!AtWork(u)'
  BY DEF Q!AgentRestart, Q!AtWork, Q!NoOp
<1> QED  BY <1>1, <1>2 DEF Q!AgentRestart, Q!Inductive, Q!StackAsAsked

(* No step breaks it.                                                      *)
LEMMA StackStep == Q!Inductive /\ [Q!Next]_Q!stackVars => Q!Inductive'
<1> SUFFICES ASSUME Q!Inductive, [Q!Next]_Q!stackVars PROVE Q!Inductive'
  OBVIOUS
<1>1. CASE Q!Next
  BY <1>1, StackStartKeeps, StackMakeFolderKeeps, StackWriteTextKeeps, StackWriteEnvKeeps,
           StackStartUpKeeps, StackUppedKeeps,
     StackDownKeeps, StackRemoveTreeKeeps, StackRestartKeeps DEF Q!Next
<1>2. CASE UNCHANGED Q!stackVars
  BY <1>2 DEF Q!stackVars, Q!Inductive, Q!TypeOK, Q!AtWork, Q!SoFar, Q!StackAsAsked
<1> QED  BY <1>1, <1>2

(* The project runs what the last request sent, if nothing overlapped it.  *)
LEMMA StackHolds == Q!Inductive => Q!StackAsAsked
  BY DEF Q!Inductive

(* ... and so it is as long as this component is the one at work.          *)
LEMMA StackRuns == Spec => [](which = "stack" => Q!Inductive)
<1>1. Init => (which = "stack" => Q!Inductive)
  BY StackInit DEF Init
<1>2. (which = "stack" => Q!Inductive) /\ [Next]_vars => (which = "stack" => Q!Inductive)'
  <2> SUFFICES ASSUME which = "stack" => Q!Inductive, [Next]_vars, which' = "stack"
               PROVE  Q!Inductive'
    OBVIOUS
  <2>1. which = "stack" /\ (Q!Next \/ UNCHANGED Q!stackVars)
    BY OneAtWork DEF vars, Q!stackVars
  <2> QED  BY <2>1, StackStep
<1> QED  BY <1>1, <1>2, PTL DEF Spec

-----------------------------------------------------------------------------
(* The disk usage and deletions (disk_usage.py, disk_delete.py).           *)
diskDisk == v1
diskTable == v2
diskScan == v3
diskScans == v4
diskDelete == v5
diskCrossed == v6
USE DEF diskDisk, diskTable, diskScan, diskScans, diskDelete, diskCrossed

(* The sets of the model are finite, and counted, as everywhere.           *)
LEMMA DiskFinite == \A set : D!IsFiniteSet(set) = IsFiniteSet(set)
  BY DEF IsFiniteSet, D!IsFiniteSet

(* ... and counted alike.                                                  *)
LEMMA DiskCount == \A set : D!Cardinality(set) = Cardinality(set)
  BY DiskFinite DEF Cardinality, D!Cardinality

(* One path is under another if it begins with its names.                  *)
LEMMA DiskUnderIs ==
  ASSUME NEW a \in Seq(D!Names), NEW b \in Seq(D!Names)
  PROVE  D!Under(a, b) <=> Len(b) <= Len(a) /\ \A k \in 1..Len(b) : a[k] = b[k]
<1> SUFFICES ASSUME Len(b) <= Len(a)
             PROVE  SubSeq(a, 1, Len(b)) = b <=> \A k \in 1..Len(b) : a[k] = b[k]
  BY DEF D!Under
<1> DEFINE start == SubSeq(a, 1, Len(b))
<1>1. Len(a) \in Nat /\ Len(b) \in Nat
  OBVIOUS
<1>2. \A k \in 1..Len(b) : k \in 1..Len(a)
  BY <1>1
<1>3. \A k \in 1..Len(b) : a[k] \in D!Names
  BY <1>2, ElementOfSeq
<1>4. /\ start \in Seq(D!Names) /\ Len(start) = Len(b)
      /\ \A k \in 1..Len(b) : start[k] = a[k]
  BY <1>1, <1>3
<1> HIDE DEF start
<1>5. (\A k \in 1..Len(b) : a[k] = b[k]) => start = b
  <2> SUFFICES ASSUME \A k \in 1..Len(b) : a[k] = b[k] PROVE start = b
    OBVIOUS
  <2>1. \A k \in 1..Len(start) : start[k] = b[k]
    BY <1>4
  <2> QED  BY <1>4, <2>1, SeqEqual
<1>6. start = b => \A k \in 1..Len(b) : a[k] = b[k]
  BY <1>4
<1> QED  BY <1>5, <1>6 DEF start

(* Being under a path is an order, in which what is above a path is a      *)
(* chain.                                                                  *)
LEMMA DiskUnderOrder ==
  ASSUME NEW a \in Seq(D!Names), NEW b \in Seq(D!Names), NEW c \in Seq(D!Names)
  PROVE  /\ D!Under(a, a)
         /\ D!Under(a, b) /\ D!Under(b, c) => D!Under(a, c)
         /\ D!Under(a, b) /\ D!Under(b, a) => a = b
         /\ D!Under(a, b) /\ D!Under(a, c) => D!Under(b, c) \/ D!Under(c, b)
         /\ Len(a) \in Nat /\ (D!Under(a, b) => Len(b) <= Len(a))
         /\ D!Under(a, b) /\ Len(a) = Len(b) => a = b
<1>1. Len(a) \in Nat /\ Len(b) \in Nat /\ Len(c) \in Nat
  OBVIOUS
<1>2. D!Under(a, a)
  BY <1>1, DiskUnderIs
<1>3. D!Under(a, b) /\ D!Under(b, c) => D!Under(a, c)
  <2> SUFFICES ASSUME D!Under(a, b), D!Under(b, c) PROVE D!Under(a, c)
    OBVIOUS
  <2>1. /\ Len(b) <= Len(a) /\ \A k \in 1..Len(b) : a[k] = b[k]
        /\ Len(c) <= Len(b) /\ \A k \in 1..Len(c) : b[k] = c[k]
    BY DiskUnderIs
  <2>2. \A k \in 1..Len(c) : k \in 1..Len(b)
    BY <1>1, <2>1
  <2>3. Len(c) <= Len(a) /\ \A k \in 1..Len(c) : a[k] = c[k]
    BY <1>1, <2>1, <2>2
  <2> QED  BY <2>3, DiskUnderIs
<1>4. D!Under(a, b) /\ Len(a) = Len(b) => a = b
  <2> SUFFICES ASSUME D!Under(a, b), Len(a) = Len(b) PROVE a = b
    OBVIOUS
  <2>1. \A k \in 1..Len(a) : a[k] = b[k]
    BY DiskUnderIs
  <2> QED  BY <2>1, SeqEqual
<1>5. D!Under(a, b) => Len(b) <= Len(a)
  BY DiskUnderIs
<1>6. D!Under(a, b) /\ D!Under(b, a) => a = b
  <2> SUFFICES ASSUME D!Under(a, b), D!Under(b, a) PROVE a = b
    OBVIOUS
  <2>1. Len(b) <= Len(a) /\ Len(a) <= Len(b)
    BY DiskUnderIs
  <2>2. Len(a) = Len(b)
    BY <1>1, <2>1
  <2> QED  BY <1>4, <2>2
<1>7. D!Under(a, b) /\ D!Under(a, c) => D!Under(b, c) \/ D!Under(c, b)
  <2> SUFFICES ASSUME D!Under(a, b), D!Under(a, c) PROVE D!Under(b, c) \/ D!Under(c, b)
    OBVIOUS
  <2>1. (\A k \in 1..Len(b) : a[k] = b[k]) /\ (\A k \in 1..Len(c) : a[k] = c[k])
    BY DiskUnderIs
  <2>2. CASE Len(b) <= Len(c)
    <3>1. \A k \in 1..Len(b) : k \in 1..Len(c)
      BY <1>1, <2>2
    <3>2. \A k \in 1..Len(b) : c[k] = b[k]
      BY <2>1, <3>1
    <3> QED  BY <2>2, <3>2, DiskUnderIs
  <2>3. CASE Len(c) <= Len(b)
    <3>1. \A k \in 1..Len(c) : k \in 1..Len(b)
      BY <1>1, <2>3
    <3>2. \A k \in 1..Len(c) : b[k] = c[k]
      BY <2>1, <3>1
    <3> QED  BY <2>3, <3>2, DiskUnderIs
  <2> QED  BY <1>1, <2>2, <2>3
<1> QED  BY <1>1, <1>2, <1>3, <1>4, <1>5, <1>6, <1>7

(* A child is under its parent, and nothing is between the two.            *)
LEMMA DiskChildIs ==
  ASSUME NEW q \in Seq(D!Names), q # <<>>
  PROVE  /\ D!Parent(q) \in Seq(D!Names) /\ D!Under(q, D!Parent(q))
         /\ Len(q) = Len(D!Parent(q)) + 1
         /\ q # D!Parent(q)
         /\ \A p \in Seq(D!Names) : D!Under(q, p) /\ D!StrictlyUnder(p, D!Parent(q)) => p = q
<1> DEFINE p == D!Parent(q)
           n == Len(q)
<1>1. n \in Nat /\ n >= 1
  OBVIOUS
<1>2. \A k \in 1..(n - 1) : q[k] \in D!Names
  <2>1. \A k \in 1..(n - 1) : k \in 1..n
    BY <1>1
  <2> QED  BY <2>1, ElementOfSeq
<1>3. p \in Seq(D!Names) /\ Len(p) = n - 1 /\ \A k \in 1..(n - 1) : p[k] = q[k]
  <2> DEFINE m == n - 1
  <2>1. m \in Nat /\ p = SubSeq(q, 1, m) /\ \A k \in 1..m : q[k] \in D!Names
    BY <1>1, <1>2 DEF D!Parent
  <2> HIDE DEF m, p
  <2>2. /\ p \in Seq(D!Names) /\ Len(p) = IF 1 <= m THEN m - 1 + 1 ELSE 0
        /\ \A k \in 1..(m - 1 + 1) : p[k] = q[1 + k - 1]
    BY <2>1, SubSeqProperties
  <2>3. Len(p) = m /\ m - 1 + 1 = m /\ \A k \in 1..m : 1 + k - 1 = k
    BY <2>1, <2>2
  <2> QED  BY <2>2, <2>3 DEF m
<1> HIDE DEF p
<1>4. D!Under(q, p)
  BY <1>1, <1>3, DiskUnderIs
<1>5. ASSUME NEW x \in Seq(D!Names), D!Under(q, x), D!StrictlyUnder(x, p) PROVE x = q
  <2>1. D!Under(x, p) /\ x # p
    BY <1>5 DEF D!StrictlyUnder
  <2>2. Len(x) <= n /\ n - 1 <= Len(x) /\ Len(x) \in Nat /\ Len(x) # n - 1
    BY <1>3, <1>5, <2>1, DiskUnderOrder
  <2>3. Len(x) = n
    BY <1>1, <2>2
  <2> QED  BY <1>5, <2>3, DiskUnderOrder
<1>6. q # p /\ n = Len(p) + 1
  BY <1>1, <1>3
<1> QED  BY <1>3, <1>4, <1>5, <1>6 DEF p

(* What the constants and the types give.                                  *)
LEMMA DiskTreeIs ==
  /\ IsFiniteSet(Tree) /\ Cardinality(Tree) \in Nat /\ Tree \subseteq Seq(D!Names)
  /\ Folders \subseteq Tree /\ MaxScans \in Nat
  /\ D!Sizes = 0..Cardinality(Tree) /\ <<>> \in Seq(D!Names) /\ D!None \in Int /\ D!None < 0
  /\ D!Sizes \subseteq Nat
  BY DiskAssumption, FS_CardinalityType, DiskFinite, DiskCount DEF D!DiskSane, D!Sizes, D!None

(* What a path takes on the disk.                                          *)
LEMMA DiskTakenIs ==
  ASSUME diskDisk \subseteq Tree, NEW q \in Tree
  PROVE  /\ IsFiniteSet({x \in diskDisk : D!Under(x, q)})
         /\ D!Taken(q) \in D!Sizes
         /\ q \in diskDisk => D!Taken(q) >= 1
         /\ q \in diskDisk /\ q \notin Folders => D!Taken(q) = 1
<1> DEFINE here == {x \in diskDisk : D!Under(x, q)}
<1>1. here \subseteq Tree /\ D!Taken(q) = Cardinality(here)
  BY DiskCount DEF D!Taken
<1>2. IsFiniteSet(here) /\ Cardinality(here) \in Nat /\ Cardinality(here) <= Cardinality(Tree)
  BY <1>1, DiskTreeIs, FS_Subset, FS_CardinalityType
<1>3. q \in diskDisk => q \in here
  BY DiskTreeIs, DiskUnderOrder
<1>4. q \in diskDisk => Cardinality(here) >= 1
  <2>1. q \in diskDisk => Cardinality(here) # 0
    BY <1>2, <1>3, FS_EmptySet
  <2> QED  BY <1>2, <2>1
<1>5. ASSUME q \in diskDisk, q \notin Folders PROVE Cardinality(here) = 1
  <2>1. \A x \in here : x = q
    BY <1>5, DiskAssumption DEF D!DiskSane, D!StrictlyUnder
  <2>2. here = {q}
    BY <1>3, <1>5, <2>1
  <2> QED  BY <2>2, FS_Singleton
<1> QED  BY <1>1, <1>2, <1>4, <1>5, DiskTreeIs

(* What is not near a path does not change when something under that path  *)
(* goes.                                                                   *)
LEMMA DiskFarAway ==
  ASSUME diskDisk \subseteq Tree, diskDisk' \subseteq diskDisk, NEW path \in Tree,
         \A x \in diskDisk : x \notin diskDisk' => D!Under(x, path),
         NEW p \in Tree, ~D!Near(path, p)
  PROVE  /\ D!Children(p)' = D!Children(p)
         /\ \A q \in Tree : D!Under(q, p) => D!Taken(q)' = D!Taken(q)
<1>1. \A x \in diskDisk : D!Under(x, p) => x \in diskDisk'
  <2> SUFFICES ASSUME NEW x \in diskDisk, D!Under(x, p), x \notin diskDisk' PROVE FALSE
    OBVIOUS
  <2>1. D!Under(x, path) /\ x \in Seq(D!Names) /\ p \in Seq(D!Names) /\ path \in Seq(D!Names)
    BY DiskTreeIs
  <2> QED  BY <2>1, DiskUnderOrder DEF D!Near
<1>2. \A q \in diskDisk : q # <<>> /\ D!Parent(q) = p => D!Under(q, p)
  BY DiskTreeIs, DiskChildIs
<1>3. D!Children(p)' = D!Children(p)
  BY <1>1, <1>2 DEF D!Children
<1>4. ASSUME NEW q \in Tree, D!Under(q, p) PROVE D!Taken(q)' = D!Taken(q)
  <2>1. \A x \in diskDisk : D!Under(x, q) => D!Under(x, p)
    BY <1>4, DiskTreeIs, DiskUnderOrder
  <2>2. {x \in diskDisk' : D!Under(x, q)} = {x \in diskDisk : D!Under(x, q)}
    BY <1>1, <2>1
  <2> QED  BY <2>2 DEF D!Taken
<1> QED  BY <1>3, <1>4

(* What is above a path has less by what the path took when it goes.       *)
LEMMA DiskTakenAway ==
  ASSUME diskDisk \subseteq Tree, NEW path \in Tree, diskDisk' = {x \in diskDisk : ~D!Under(x,
         path)},
         NEW p \in Tree, D!StrictlyUnder(path, p)
  PROVE  /\ D!Children(p)' = D!Children(p) \ {path}
         /\ \A q \in D!Children(p) \ {path} :
              D!Taken(q) = D!Taken(q)' + (IF D!Under(path, q) THEN D!Taken(path) ELSE 0)
<1>1. \A q \in diskDisk : q # <<>> /\ D!Parent(q) = p /\ D!Under(q, path) => q = path
  BY DiskTreeIs, DiskChildIs
<1>2. D!Under(path, path)
  BY DiskTreeIs, DiskUnderOrder
<1>3. \A x \in Tree : D!Taken(x) \in Nat /\ IsFiniteSet({y \in diskDisk : D!Under(y, x)})
  <2>1. \A x \in Tree : D!Taken(x) \in D!Sizes /\ IsFiniteSet({y \in diskDisk : D!Under(y, x)})
    BY DiskTakenIs
  <2> QED  BY <2>1, DiskTreeIs
<1>4. D!Children(p)' = D!Children(p) \ {path}
  BY <1>1, <1>2 DEF D!Children
<1>5. ASSUME NEW q \in D!Children(p) \ {path}
      PROVE  D!Taken(q) = D!Taken(q)' + (IF D!Under(path, q) THEN D!Taken(path) ELSE 0)
  <2> DEFINE here == {x \in diskDisk : D!Under(x, q)}
             gone == {x \in diskDisk : D!Under(x, path)}
  <2>1. q \in diskDisk /\ q \in Tree /\ ~D!Under(q, path)
    BY <1>1, <1>5 DEF D!Children
  <2>2. {x \in diskDisk' : D!Under(x, q)} = here \ gone
    OBVIOUS
  <2>3. IsFiniteSet(here) /\ IsFiniteSet(gone) /\ D!Taken(q) \in Nat
    BY <1>3, <2>1
  <2>4. D!Taken(q)' = Cardinality(here) - Cardinality(here \cap gone)
    BY <2>2, <2>3, FS_Difference, DiskCount DEF D!Taken
  <2>5. D!Taken(q) = Cardinality(here) /\ D!Taken(path) = Cardinality(gone)
    BY DiskCount DEF D!Taken
  <2>6. CASE D!Under(path, q)
    <3>1. \A x \in gone : x \in here
      BY <2>1, <2>6, DiskTreeIs, DiskUnderOrder
    <3>2. here \cap gone = gone
      BY <3>1
    <3>3. D!Taken(path) \in Nat
      BY <1>3
    <3> QED  BY <2>3, <2>4, <2>5, <2>6, <3>2, <3>3
  <2>7. CASE ~D!Under(path, q)
    <3>1. \A x \in here : x \notin gone
      BY <2>1, <2>7, DiskTreeIs, DiskUnderOrder
    <3>2. Cardinality(here \cap gone) = 0
      <4>1. here \cap gone = {}
        BY <3>1
      <4> QED  BY <4>1, FS_EmptySet
    <3> QED  BY <2>3, <2>4, <2>5, <2>7, <3>2
  <2> QED  BY <2>6, <2>7
<1> QED  BY <1>4, <1>5

(* The rows of a scan as a function, and the fields of the records.        *)
DiskRows == UNION {[names -> [bytes : D!Sizes, pending : BOOLEAN]] : names \in SUBSET Tree}
DiskScans == [path : Folders \cup {<<>>}, state : D!Active \cup {"none", "done", "error"},
              rows : DiskRows, walking : Tree \cup {<<>>}, total : D!Sizes]
LEMMA DiskRowsAre ==
  ASSUME NEW rows
  PROVE  rows \in DiskRows <=> /\ DOMAIN rows \subseteq Tree
                               /\ rows \in [DOMAIN rows -> [bytes : D!Sizes, pending : BOOLEAN]]
<1>1. ASSUME rows \in DiskRows
      PROVE  /\ DOMAIN rows \subseteq Tree
             /\ rows \in [DOMAIN rows -> [bytes : D!Sizes, pending : BOOLEAN]]
  <2>1. PICK names \in SUBSET Tree : rows \in [names -> [bytes : D!Sizes, pending : BOOLEAN]]
    BY <1>1 DEF DiskRows
  <2> QED  BY <2>1
<1>2. ASSUME DOMAIN rows \subseteq Tree,
             rows \in [DOMAIN rows -> [bytes : D!Sizes, pending : BOOLEAN]]
      PROVE  rows \in DiskRows
  BY <1>2 DEF DiskRows
<1> QED  BY <1>1, <1>2

(* The types, with those of all scans as one set.                          *)
LEMMA DiskTypesAre ==
  /\ D!TypeOK <=>
       /\ diskDisk \subseteq Tree
       /\ diskScans \in 0..MaxScans
       /\ diskTable \in [Folders -> 0..diskScans]
       /\ diskScan \in [D!ScanIds -> DiskScans]
       /\ diskDelete \in [Deleters -> {D!NoDelete} \cup D!Deletes]
       /\ diskCrossed \subseteq D!ScanIds
  /\ D!TypeOK' <=>
       /\ diskDisk' \subseteq Tree
       /\ diskScans' \in 0..MaxScans
       /\ diskTable' \in [Folders -> 0..diskScans']
       /\ diskScan' \in [D!ScanIds -> DiskScans]
       /\ diskDelete' \in [Deleters -> {D!NoDelete} \cup D!Deletes]
       /\ diskCrossed' \subseteq D!ScanIds
<1>1. ASSUME NEW s
      PROVE  s \in DiskScans <=> DOMAIN s.rows \subseteq Tree /\ s \in D!ScansOf(DOMAIN s.rows)
  <2>1. ASSUME s \in DiskScans
        PROVE  DOMAIN s.rows \subseteq Tree /\ s \in D!ScansOf(DOMAIN s.rows)
    BY <2>1, DiskRowsAre DEF DiskScans, D!ScansOf
  <2>2. ASSUME DOMAIN s.rows \subseteq Tree, s \in D!ScansOf(DOMAIN s.rows)
        PROVE  s \in DiskScans
    <3>1. s.rows \in DiskRows
      BY <2>2, DiskRowsAre DEF D!ScansOf
    <3> QED  BY <2>2, <3>1 DEF DiskScans, D!ScansOf
  <2> QED  BY <2>1, <2>2
<1>2. ASSUME NEW kept
      PROVE  kept \in [D!ScanIds -> DiskScans] <=>
               /\ kept = [i \in D!ScanIds |-> kept[i]]
               /\ \A i \in D!ScanIds : kept[i] \in DiskScans
  OBVIOUS
<1>3. D!TypeOK <=>
        /\ diskDisk \subseteq Tree
        /\ diskScans \in 0..MaxScans
        /\ diskTable \in [Folders -> 0..diskScans]
        /\ diskScan \in [D!ScanIds -> DiskScans]
        /\ diskDelete \in [Deleters -> {D!NoDelete} \cup D!Deletes]
        /\ diskCrossed \subseteq D!ScanIds
  BY <1>1, <1>2 DEF D!TypeOK
<1>4. D!TypeOK' <=>
        /\ diskDisk' \subseteq Tree
        /\ diskScans' \in 0..MaxScans
        /\ diskTable' \in [Folders -> 0..diskScans']
        /\ diskScan' \in [D!ScanIds -> DiskScans]
        /\ diskDelete' \in [Deleters -> {D!NoDelete} \cup D!Deletes]
        /\ diskCrossed' \subseteq D!ScanIds
  BY <1>1, <1>2 DEF D!TypeOK
<1> QED  BY <1>3, <1>4

(* The statement about the kept scans.                                     *)
DiskKept == \A p \in Folders, i \in D!ScanIds : diskTable[p] = i =>
          /\ diskScan[i].path = p /\ diskScan[i].state # "none"
          /\ i \notin diskCrossed => D!KeptTrue(i, p)

(* A step that leaves the disk, the deletes and what was disturbed alone   *)
(* keeps what is said of a scan it does not touch.                         *)
LEMMA DiskSameScan ==
  ASSUME NEW i, NEW p, D!KeptTrue(i, p), diskScan'[i] = diskScan[i], UNCHANGED <<diskDisk,
         diskDelete>>
  PROVE  D!KeptTrue(i, p)'
<1>1. /\ \A q : D!Taken(q)' = D!Taken(q) /\ D!Children(q)' = D!Children(q)
      /\ D!Deleting(p)' = D!Deleting(p) /\ D!Pending(i)' = D!Pending(i)
  BY DEF D!Taken, D!Children, D!Deleting, D!Pending
<1>2. D!RowsTrue(i, p) => D!RowsTrue(i, p)'
  BY <1>1 DEF D!RowsTrue
<1>3. \A path, freed : D!RowsBehind(i, p, path, freed) => D!RowsBehind(i, p, path, freed)'
  BY <1>1 DEF D!RowsBehind
<1>4. \A d \in D!Deleting(p) : D!Owed(i, p, d) => D!Owed(i, p, d)'
  BY <1>1, <1>3 DEF D!Owed
<1> QED  BY <1>1, <1>2, <1>4 DEF D!KeptTrue

(* A new scan.                                                             *)
LEMMA DiskUsageKeeps ==
  ASSUME D!TypeOK, DiskKept, NEW p \in Folders, D!Usage(p)
  PROVE  D!TypeOK' /\ DiskKept'
<1> DEFINE new == [D!NoScan EXCEPT !.path = p, !.state = "waiting"]
<1>0. PICK n \in Int : n = diskScans + 1
  BY DiskTreeIs, DiskTypesAre
<1>1. /\ diskScans < MaxScans /\ diskScans' = n /\ diskTable' = [diskTable EXCEPT ![p] = n]
      /\ diskScan' = [diskScan EXCEPT ![n] = new]
      /\ diskCrossed' = IF D!Deleting(p) = {} THEN diskCrossed ELSE diskCrossed \cup {n}
      /\ UNCHANGED <<diskDisk, diskDelete>>
  BY <1>0 DEF D!Usage
<1>2. /\ n \in 1..MaxScans /\ n \in D!ScanIds /\ 0..diskScans \subseteq 0..n /\ n \in 0..n
      /\ n # 0 /\ \A q \in Folders : diskTable[q] # n
  <2>1. diskScans \in Nat /\ \A q \in Folders : diskTable[q] \in 0..diskScans
    BY DiskTreeIs, DiskTypesAre
  <2> QED  BY <1>0, <1>1, <2>1, DiskTreeIs, DiskTypesAre DEF D!ScanIds
<1>3. /\ new \in DiskScans /\ new.path = p /\ new.state = "waiting" /\ new.walking = <<>>
      /\ DOMAIN new.rows = {}
  <2>1. D!NoScan = [path |-> <<>>, state |-> "none", rows |-> D!NoRows, walking |-> <<>>,
                    total |-> 0]
    BY DEF D!NoScan
  <2>2. D!NoRows \in DiskRows
    <3>1. DOMAIN D!NoRows = {} /\ D!NoRows \in [{} -> [bytes : D!Sizes, pending : BOOLEAN]]
      BY DEF D!NoRows
    <3> QED  BY <3>1, DiskRowsAre
  <2>3. D!NoScan \in DiskScans
    <3>1. 0 \in D!Sizes
      BY DiskTreeIs
    <3> QED  BY <2>1, <2>2, <3>1 DEF DiskScans
  <2>4. new.path = p /\ new.state = "waiting" /\ new.walking = <<>> /\ new.rows = D!NoRows
    BY <2>1
  <2>5. "waiting" \in D!Active
    BY DEF D!Active
  <2>6. DOMAIN D!NoRows = {}
    BY DEF D!NoRows
  <2> QED  BY <2>3, <2>4, <2>5, <2>6 DEF DiskScans
<1> HIDE DEF new
<1>4. D!TypeOK'
  <2>1. diskScan' \in [D!ScanIds -> DiskScans]
    BY <1>1, <1>2, <1>3, DiskTypesAre
  <2>2. diskScans' \in 0..MaxScans
    BY <1>1, <1>2
  <2>3. diskTable' \in [Folders -> 0..diskScans']
    BY <1>1, <1>2, DiskTypesAre
  <2> QED  BY <1>1, <1>2, <2>1, <2>2, <2>3, DiskTypesAre
<1>5. ASSUME NEW q \in Folders, NEW i \in D!ScanIds, diskTable'[q] = i
      PROVE  /\ diskScan'[i].path = q /\ diskScan'[i].state # "none"
             /\ i \notin diskCrossed' => D!KeptTrue(i, q)'
  <2>1. CASE q = p
    <3>1. i = n /\ diskScan'[n] = new
      BY <1>1, <1>2, <1>5, <2>1, DiskTypesAre
    <3>2. n \notin diskCrossed' => D!Deleting(p)' = {}
      BY <1>1 DEF D!Deleting
    <3>3. n \notin diskCrossed' => D!KeptTrue(n, q)'
      BY <1>3, <2>1, <3>1, <3>2 DEF D!KeptTrue
    <3> QED  BY <1>3, <2>1, <3>1, <3>3
  <2>2. CASE q # p
    <3>1. diskTable[q] = i /\ i # n /\ diskScan'[i] = diskScan[i]
      BY <1>1, <1>2, <1>5, <2>2, DiskTypesAre DEF D!ScanIds
    <3>2. i \notin diskCrossed' => i \notin diskCrossed
      BY <1>1
    <3>3. i \notin diskCrossed' => D!KeptTrue(i, q)'
      BY <1>1, <3>1, <3>2, DiskSameScan DEF DiskKept
    <3> QED  BY <3>1, <3>3 DEF DiskKept
  <2> QED  BY <2>1, <2>2
<1> QED  BY <1>4, <1>5 DEF DiskKept

(* A step of one scan, which leaves the rest alone.                        *)
LEMMA DiskOneScan ==
  ASSUME D!TypeOK, DiskKept, NEW i \in D!ScanIds,
         diskScan' \in [D!ScanIds -> DiskScans],
         \A j \in D!ScanIds \ {i} : diskScan'[j] = diskScan[j],
         diskScan'[i].path = diskScan[i].path, diskScan'[i].state = "none"
         => diskScan[i].state = "none",
         UNCHANGED <<diskDisk, diskTable, diskScans, diskDelete, diskCrossed>>,
         \A p \in Folders : diskTable[p] = i /\ diskScan[i].path = p /\ D!KeptTrue(i, p)
         => D!KeptTrue(i, p)'
  PROVE  D!TypeOK' /\ DiskKept'
<1>1. D!TypeOK'
  BY DiskTypesAre
<1>2. ASSUME NEW p \in Folders, NEW j \in D!ScanIds, diskTable'[p] = j
      PROVE  /\ diskScan'[j].path = p /\ diskScan'[j].state # "none"
             /\ j \notin diskCrossed' => D!KeptTrue(j, p)'
  <2>1. /\ diskTable[p] = j /\ diskScan[j].path = p /\ diskScan[j].state # "none"
        /\ j \notin diskCrossed' => D!KeptTrue(j, p)
    BY <1>2 DEF DiskKept
  <2>2. CASE j = i
    BY <2>1, <2>2
  <2>3. CASE j # i
    <3>1. diskScan'[j] = diskScan[j]
      BY <2>3
    <3> QED  BY <2>1, <3>1, DiskSameScan
  <2> QED  BY <2>2, <2>3
<1> QED  BY <1>1, <1>2 DEF DiskKept

(* A scan takes its slot, lists its folder or ends.                        *)
LEMMA DiskTakeSlotKeeps ==
  ASSUME D!TypeOK, DiskKept, NEW i \in D!ScanIds, D!TakeSlot(i) \/ D!Finish(i)
  PROVE  D!TypeOK' /\ DiskKept'
<1>1. PICK state \in {"scanning", "done"} :
        /\ diskScan' = [diskScan EXCEPT ![i].state = state]
        /\ UNCHANGED <<diskDisk, diskTable, diskScans, diskDelete, diskCrossed>>
        /\ \/ state = "scanning" /\ diskScan[i].state = "waiting"
           \/ /\ state = "done" /\ diskScan[i].state = "walking" /\ diskScan[i].walking = <<>>
              /\ D!Pending(i) = {}
  BY DEF D!TakeSlot, D!Finish
<1>2. /\ diskScan' \in [D!ScanIds -> DiskScans]
      /\ \A j \in D!ScanIds \ {i} : diskScan'[j] = diskScan[j]
      /\ diskScan'[i].path = diskScan[i].path /\ diskScan'[i].state = state
      /\ diskScan'[i].rows = diskScan[i].rows /\ diskScan'[i].walking = diskScan[i].walking
  BY <1>1, DiskTypesAre DEF DiskScans, D!Active
<1>3. ASSUME NEW p \in Folders, D!KeptTrue(i, p) PROVE D!KeptTrue(i, p)'
  <2>1. /\ \A q : D!Taken(q)' = D!Taken(q) /\ D!Children(q)' = D!Children(q)
        /\ D!Deleting(p)' = D!Deleting(p) /\ D!Pending(i)' = D!Pending(i)
    BY <1>1, <1>2 DEF D!Taken, D!Children, D!Deleting, D!Pending
  <2>2. D!Deleting(p) = {} /\ diskScan[i].walking = <<>>
    BY <1>1, <1>3 DEF D!KeptTrue, D!Active
  <2>3. D!RowsTrue(i, p) => D!RowsTrue(i, p)'
    BY <1>2, <2>1 DEF D!RowsTrue
  <2>4. state = "done" => D!RowsTrue(i, p)
    BY <1>1, <1>3, <2>2 DEF D!KeptTrue
  <2>5. state = "scanning" => DOMAIN diskScan[i].rows = {}
    BY <1>1, <1>3 DEF D!KeptTrue
  <2> QED  BY <1>1, <1>2, <2>1, <2>2, <2>3, <2>4, <2>5 DEF D!KeptTrue
<1> QED  BY <1>1, <1>2, <1>3, DiskOneScan

(* A listing fills an empty scan with the rows of the children.            *)
LEMMA DiskListKeeps ==
  ASSUME D!TypeOK, DiskKept, NEW i \in D!ScanIds, D!List(i)
  PROVE  D!TypeOK' /\ DiskKept'
<1> DEFINE rows == [p \in D!Children(diskScan[i].path) |-> D!Row(p)]
<1>1. /\ diskScan[i].state = "scanning"
      /\ UNCHANGED <<diskDisk, diskTable, diskScans, diskDelete, diskCrossed>>
      /\ \/ diskScan' = [diskScan EXCEPT ![i].state = "walking", ![i].rows = rows]
         \/ diskScan' = [diskScan EXCEPT ![i].state = "error"]
  BY DEF D!List
<1>2. /\ diskDisk \subseteq Tree /\ diskScan \in [D!ScanIds -> DiskScans]
      /\ \A q \in D!Children(diskScan[i].path) : q \in diskDisk /\ q \in Tree
  BY DiskTypesAre DEF D!Children
<1>3. rows \in DiskRows
  <2>1. \A q \in D!Children(diskScan[i].path) : 1 \in D!Sizes
    <3> SUFFICES ASSUME NEW q \in D!Children(diskScan[i].path) PROVE 1 \in D!Sizes
      OBVIOUS
    <3>1. D!Taken(q) \in D!Sizes /\ D!Taken(q) >= 1
      BY <1>2, DiskTakenIs
    <3> QED  BY <3>1, DiskTreeIs
  <2>2. \A q \in D!Children(diskScan[i].path) : D!Row(q) \in [bytes : D!Sizes, pending : BOOLEAN]
    BY <2>1 DEF D!Row
  <2>3. DOMAIN rows = D!Children(diskScan[i].path) /\ DOMAIN rows \subseteq Tree
    BY <1>2
  <2>4. rows \in [DOMAIN rows -> [bytes : D!Sizes, pending : BOOLEAN]]
    BY <2>2
  <2> QED  BY <2>3, <2>4, DiskRowsAre
<1> HIDE DEF rows
<1>4. \/ /\ diskScan' \in [D!ScanIds -> DiskScans]
         /\ \A j \in D!ScanIds \ {i} : diskScan'[j] = diskScan[j]
         /\ diskScan'[i].path = diskScan[i].path /\ diskScan'[i].state = "walking"
         /\ diskScan'[i].rows = rows /\ diskScan'[i].walking = diskScan[i].walking
      \/ /\ diskScan' \in [D!ScanIds -> DiskScans]
         /\ \A j \in D!ScanIds \ {i} : diskScan'[j] = diskScan[j]
         /\ diskScan'[i].path = diskScan[i].path /\ diskScan'[i].state = "error"
         /\ diskScan'[i].rows = diskScan[i].rows /\ diskScan'[i].walking = diskScan[i].walking
  BY <1>1, <1>2, <1>3 DEF DiskScans, D!Active
<1>5. ASSUME NEW p \in Folders, diskScan[i].path = p, D!KeptTrue(i, p) PROVE D!KeptTrue(i, p)'
  <2>1. /\ \A q : D!Taken(q)' = D!Taken(q) /\ D!Children(q)' = D!Children(q)
        /\ D!Deleting(p)' = D!Deleting(p)
    BY <1>1 DEF D!Taken, D!Children, D!Deleting
  <2>2. D!Deleting(p) = {} /\ diskScan[i].walking = <<>>
    BY <1>1, <1>5 DEF D!KeptTrue, D!Active
  <2>3. diskScan'[i].state = "walking" => D!RowsTrue(i, p)'
    <3> SUFFICES ASSUME diskScan'[i].rows = rows PROVE D!RowsTrue(i, p)'
      BY <1>4
    <3>1. DOMAIN rows = D!Children(p) /\ \A q \in D!Children(p) : rows[q] = D!Row(q)
      BY <1>5 DEF rows
    <3>2. ASSUME NEW q \in D!Children(p), ~rows[q].pending PROVE rows[q].bytes = D!Taken(q)
      <4>1. q \notin Folders /\ rows[q].bytes = 1
        <5>1. rows[q] = D!Row(q)
          BY <3>1
        <5>2. D!Row(q).bytes = 1 /\ D!Row(q).pending = (q \in Folders)
          BY Zenon DEF D!Row
        <5> QED  BY <3>2, <5>1, <5>2
      <4> QED  BY <1>2, <1>5, <4>1, DiskTakenIs
    <3> QED  BY <2>1, <3>1, <3>2 DEF D!RowsTrue
  <2>4. DOMAIN diskScan[i].rows = {}
    BY <1>1, <1>5 DEF D!KeptTrue
  <2> QED  BY <1>4, <2>1, <2>2, <2>3, <2>4 DEF D!KeptTrue
<1> QED  BY <1>1, <1>4, <1>5, DiskOneScan

(* A scan walks a directory, and stores what it has added up.              *)
LEMMA DiskWalkKeeps ==
  ASSUME D!TypeOK, DiskKept, NEW i \in D!ScanIds, D!Walk(i)
  PROVE  D!TypeOK' /\ DiskKept'
<1>1. PICK q \in D!Pending(i) :
        diskScan' = [diskScan EXCEPT ![i].walking = q,
        ![i].total = IF D!Taken(q) = 0 THEN 1 ELSE D!Taken(q)]
  BY DEF D!Walk
<1>2. /\ diskScan[i].state = "walking" /\ diskScan[i].walking = <<>>
      /\ UNCHANGED <<diskDisk, diskTable, diskScans, diskDelete, diskCrossed>>
  BY DEF D!Walk
<1>3. /\ diskDisk \subseteq Tree /\ diskScan \in [D!ScanIds -> DiskScans]
      /\ DOMAIN diskScan[i].rows \subseteq Tree /\ q \in DOMAIN diskScan[i].rows
  BY <1>1, DiskRowsAre, DiskTypesAre DEF D!Pending, DiskScans
<1>4. (IF D!Taken(q) = 0 THEN 1 ELSE D!Taken(q)) \in D!Sizes
  <2>1. D!Taken(q) \in D!Sizes
    BY <1>3, DiskTakenIs
  <2>2. Cardinality(Tree) # 0
    BY <1>3, DiskTreeIs, FS_EmptySet
  <2>3. 1 \in D!Sizes
    BY <2>2, DiskTreeIs
  <2> QED  BY <2>1, <2>3
<1>5. /\ diskScan' \in [D!ScanIds -> DiskScans]
      /\ \A j \in D!ScanIds \ {i} : diskScan'[j] = diskScan[j]
      /\ diskScan'[i].path = diskScan[i].path /\ diskScan'[i].state = diskScan[i].state
      /\ diskScan'[i].rows = diskScan[i].rows /\ diskScan'[i].walking = q
      /\ diskScan'[i].total = IF D!Taken(q) = 0 THEN 1 ELSE D!Taken(q)
  BY <1>1, <1>3, <1>4 DEF DiskScans
<1>6. ASSUME NEW p \in Folders, D!KeptTrue(i, p) PROVE D!KeptTrue(i, p)'
  <2>1. /\ \A x : D!Taken(x)' = D!Taken(x) /\ D!Children(x)' = D!Children(x)
        /\ D!Deleting(p)' = D!Deleting(p) /\ D!Pending(i)' = D!Pending(i)
    BY <1>2, <1>5 DEF D!Taken, D!Children, D!Deleting, D!Pending
  <2>2. D!Deleting(p) = {} /\ D!RowsTrue(i, p)
    BY <1>2, <1>6 DEF D!KeptTrue, D!Active
  <2>3. q \in diskDisk
    BY <1>3, <2>2 DEF D!RowsTrue, D!Children
  <2>4. D!Taken(q) \in Nat /\ D!Taken(q) >= 1
    BY <1>3, <2>3, DiskTakenIs, DiskTreeIs
  <2>5. diskScan'[i].total = D!Taken(q)
    BY <1>5, <2>4
  <2>6. D!RowsTrue(i, p)'
    BY <1>5, <2>1, <2>2 DEF D!RowsTrue
  <2> QED  BY <1>1, <1>2, <1>5, <2>1, <2>2, <2>5, <2>6 DEF D!KeptTrue
<1> QED  BY <1>2, <1>5, <1>6, DiskOneScan DEF D!Active

(* A walk that has ended replaces the row of its child by its total.       *)
LEMMA DiskStoreKeeps ==
  ASSUME D!TypeOK, DiskKept, NEW i \in D!ScanIds, D!Store(i)
  PROVE  D!TypeOK' /\ DiskKept'
<1> DEFINE rows == [p \in DOMAIN diskScan[i].rows |->
                      IF p = diskScan[i].walking THEN [bytes |-> diskScan[i].total,
                      pending |-> FALSE]
                      ELSE diskScan[i].rows[p]]
<1>1. /\ diskScan' = [diskScan EXCEPT ![i].rows = rows, ![i].walking = <<>>]
      /\ UNCHANGED <<diskDisk, diskTable, diskScans, diskDelete,
           diskCrossed>> /\ diskScan[i].walking # <<>>
  BY DEF D!Store
<1>2. /\ diskScan \in [D!ScanIds -> DiskScans] /\ DOMAIN diskScan[i].rows \subseteq Tree
      /\ diskScan[i].rows \in [DOMAIN diskScan[i].rows -> [bytes : D!Sizes, pending : BOOLEAN]]
      /\ diskScan[i].total \in D!Sizes
  BY DiskRowsAre, DiskTypesAre DEF DiskScans
<1>3. rows \in DiskRows
  <2>1. [bytes |-> diskScan[i].total, pending |-> FALSE] \in [bytes : D!Sizes, pending : BOOLEAN]
    BY <1>2
  <2>2. /\ DOMAIN rows = DOMAIN diskScan[i].rows
        /\ rows \in [DOMAIN diskScan[i].rows -> [bytes : D!Sizes, pending : BOOLEAN]]
    BY <1>2, <2>1
  <2> QED  BY <1>2, <2>2, DiskRowsAre
<1>4. /\ DOMAIN rows = DOMAIN diskScan[i].rows
      /\ \A x \in DOMAIN rows :
           IF x = diskScan[i].walking
           THEN rows[x].bytes = diskScan[i].total /\ rows[x].pending = FALSE
           ELSE rows[x] = diskScan[i].rows[x]
  OBVIOUS
<1> HIDE DEF rows
<1>5. /\ diskScan' \in [D!ScanIds -> DiskScans]
      /\ \A j \in D!ScanIds \ {i} : diskScan'[j] = diskScan[j]
      /\ diskScan'[i].path = diskScan[i].path /\ diskScan'[i].state = diskScan[i].state
      /\ diskScan'[i].rows = rows /\ diskScan'[i].walking = <<>>
  BY <1>1, <1>2, <1>3 DEF DiskScans
<1>6. ASSUME NEW p \in Folders, D!KeptTrue(i, p)
      PROVE  D!KeptTrue(i, p)'
  <2>1. /\ \A x : D!Taken(x)' = D!Taken(x) /\ D!Children(x)' = D!Children(x)
        /\ D!Deleting(p)' = D!Deleting(p)
    BY <1>1 DEF D!Taken, D!Children, D!Deleting
  <2>2. PICK q \in D!Pending(i) : diskScan[i].walking = q /\ diskScan[i].total = D!Taken(q)
    BY <1>1, <1>6 DEF D!KeptTrue
  <2>3. diskScan[i].state = "walking" /\ D!Deleting(p) = {} /\ D!RowsTrue(i, p)
    BY <1>1, <1>6 DEF D!KeptTrue, D!Active
  <2>4. D!RowsTrue(i, p)'
    <3>1. DOMAIN rows = D!Children(p)
      BY <1>4, <2>3 DEF D!RowsTrue
    <3>2. ASSUME NEW x \in D!Children(p), ~rows[x].pending PROVE rows[x].bytes = D!Taken(x)
      <4>1. CASE x = q
        BY <1>4, <2>2, <3>1, <4>1
      <4>2. CASE x # q
        <5>1. rows[x] = diskScan[i].rows[x]
          BY <1>4, <2>2, <3>1, <4>2
        <5> QED  BY <2>3, <3>2, <5>1 DEF D!RowsTrue
      <4> QED  BY <4>1, <4>2
    <3> QED  BY <1>5, <2>1, <3>1, <3>2 DEF D!RowsTrue
  <2> QED  BY <1>5, <2>1, <2>3, <2>4 DEF D!KeptTrue
<1> QED  BY <1>1, <1>5, <1>6, DiskOneScan

(* A scan far from what a step does.                                       *)
LEMMA DiskFarScan ==
  ASSUME diskDisk \subseteq Tree, NEW i, NEW p \in Folders, D!KeptTrue(i, p),
         diskScan'[i] = diskScan[i],
         D!Deleting(p)' = D!Deleting(p), \A d \in D!Deleting(p) : diskDelete'[d] = diskDelete[d],
         D!Children(p)' = D!Children(p), \A q \in Tree : D!Under(q, p) => D!Taken(q)' = D!Taken(q)
  PROVE  D!KeptTrue(i, p)'
<1>1. \A q \in D!Children(p) : q \in Tree /\ D!Under(q, p) /\ D!Taken(q)' = D!Taken(q)
  BY DiskTreeIs, DiskChildIs DEF D!Children
<1>2. D!RowsTrue(i, p) => D!RowsTrue(i, p)'
  BY <1>1 DEF D!RowsTrue
<1>3. \A path, freed : D!RowsBehind(i, p, path, freed) => D!RowsBehind(i, p, path, freed)'
  BY <1>1 DEF D!RowsBehind
<1>4. \A d \in D!Deleting(p) : D!Owed(i, p, d) => D!Owed(i, p, d)'
  <2>1. \A path \in Tree : D!StrictlyUnder(path, p) => D!Taken(path)' = D!Taken(path)
    BY DEF D!StrictlyUnder
  <2> QED  BY <1>3, <2>1 DEF D!Owed
<1>5. D!Pending(i)' = D!Pending(i)
  BY DEF D!Pending
<1>6. \A q \in D!Pending(i) : D!RowsTrue(i, p) => D!Taken(q)' = D!Taken(q)
  BY <1>1 DEF D!RowsTrue, D!Pending
<1>7. diskScan[i].state = "walking" => D!RowsTrue(i, p)
  BY DEF D!KeptTrue, D!Active
<1> QED  BY <1>2, <1>4, <1>5, <1>6, <1>7 DEF D!KeptTrue

(* A scan near a delete at work has ended, and there is no other delete.   *)
LEMMA DiskOneDelete ==
  ASSUME NEW i, NEW p, D!KeptTrue(i, p), NEW d \in D!Deleting(p)
  PROVE  /\ D!Deleting(p) = {d} /\ diskScan[i].state \notin D!Active /\ diskScan[i].walking = <<>>
         /\ diskDelete[d].pc = "rm" /\ diskScan[i].state = "done" => D!RowsTrue(i, p)
         /\ diskScan[i].state = "done" => D!Pending(i) = {} /\ D!Owed(i, p, d)
<1>1. D!Deleting(p) = {d} /\ diskScan[i].state \notin D!Active
  BY DEF D!KeptTrue
<1> QED  BY <1>1 DEF D!KeptTrue, D!Active

(* What the parent's scan says of a path is what the path takes, if no     *)
(* delete has disturbed that scan and none is at work around it.           *)
LEMMA DiskKnownIs ==
  ASSUME D!TypeOK, DiskKept, NEW path \in Tree, Len(path) >= 2
  PROVE  /\ D!KnownBytes(path) \in D!Sizes \cup {D!None}
         /\ D!KnownBytes(path) \in D!Sizes /\ diskTable[D!Parent(path)] \notin diskCrossed
              /\ D!Deleting(D!Parent(path)) = {} => D!KnownBytes(path) = D!Taken(path)
<1> DEFINE p == D!Parent(path)
<1>1. p \in Folders
  BY DiskAssumption DEF D!DiskSane
<1>2. PICK i \in Int : i = diskTable[p]
  BY <1>1, DiskTreeIs, DiskTypesAre
<1>3. i = 0 \/ i \in D!ScanIds
  <2>1. diskScans \in 0..MaxScans /\ diskTable[p] \in 0..diskScans
    BY <1>1, DiskTypesAre
  <2> QED  BY <1>2, <2>1, DiskTreeIs DEF D!ScanIds
<1>4. CASE i = 0
  <2>1. D!ParentScan(path).rows = D!NoRows
    BY <1>2, <1>4 DEF D!ParentScan, D!NoScan
  <2>2. D!KnownBytes(path) = D!None
    BY <2>1 DEF D!KnownBytes, D!NoRows
  <2> QED  BY <2>2, DiskTreeIs
<1>5. CASE i \in D!ScanIds
  <2>1. D!ParentScan(path).rows = diskScan[i].rows
    BY <1>2, <1>5 DEF D!ParentScan, D!ScanIds
  <2>2. D!KnownBytes(path) = IF path \in DOMAIN diskScan[i].rows
        /\ ~diskScan[i].rows[path].pending
                             THEN diskScan[i].rows[path].bytes ELSE D!None
    BY <2>1 DEF D!KnownBytes
  <2>3. diskScan[i].rows \in DiskRows
    BY <1>5, DiskTypesAre DEF DiskScans
  <2>4. path \in DOMAIN diskScan[i].rows => diskScan[i].rows[path].bytes \in D!Sizes
    BY <2>3, DiskRowsAre
  <2>5. ASSUME D!KnownBytes(path) \in D!Sizes, i \notin diskCrossed, D!Deleting(p) = {}
        PROVE  D!KnownBytes(path) = D!Taken(path)
    <3>1. path \in DOMAIN diskScan[i].rows /\ ~diskScan[i].rows[path].pending
      <4>1. D!None \notin D!Sizes
        BY DiskTreeIs
      <4> QED  BY <2>2, <2>5, <4>1
    <3>2. D!KeptTrue(i, p)
      BY <1>1, <1>2, <1>5, <2>5 DEF DiskKept
    <3>3. D!RowsTrue(i, p)
      BY <2>5, <3>1, <3>2 DEF D!KeptTrue
    <3> QED  BY <2>2, <3>1, <3>3 DEF D!RowsTrue
  <2> QED  BY <1>2, <2>2, <2>4, <2>5
<1> QED  BY <1>3, <1>4, <1>5

(* What is near the parent of a path is near every folder above the path.  *)
LEMMA DiskNearAbove ==
  ASSUME NEW path \in Tree, Len(path) >= 2, NEW p \in Tree, D!StrictlyUnder(path, p),
         NEW q \in Tree, D!Near(q, D!Parent(path))
  PROVE  D!Near(q, p)
<1> DEFINE r == D!Parent(path)
<1>1. /\ path \in Seq(D!Names) /\ path # <<>> /\ p \in Seq(D!Names) /\ q \in Seq(D!Names)
      /\ r \in Seq(D!Names) /\ D!Under(path, p) /\ p # path
  BY DiskTreeIs, DiskChildIs DEF D!StrictlyUnder
<1>2. D!Under(path, r) /\ ~D!StrictlyUnder(p, r)
  BY <1>1, DiskChildIs
<1>3. D!Under(r, p)
  BY <1>1, <1>2, DiskUnderOrder DEF D!StrictlyUnder
<1>4. D!Under(q, r) \/ D!Under(r, q)
  BY DEF D!Near
<1> QED  BY <1>1, <1>3, <1>4, DiskUnderOrder DEF D!Near

(* A delete starts.                                                        *)
LEMMA DiskDeleteKeeps ==
  ASSUME D!TypeOK, DiskKept, NEW d \in Deleters, D!Delete(d)
  PROVE  D!TypeOK' /\ DiskKept'
<1> DEFINE New(path) == [pc |-> "rm", path |-> path, freed |-> D!KnownBytes(path),
                         doubtful |-> diskTable[D!Parent(path)] \in diskCrossed]
<1>1. PICK path \in Tree : /\ D!Check(path) /\ diskDelete' = [diskDelete EXCEPT ![d] = New(path)]
                           /\ diskCrossed' = diskCrossed \cup D!Disturbed(d, path)
  BY DEF D!Delete
<1>2. diskDelete[d].pc = "idle"
      /\ UNCHANGED <<diskDisk, diskTable, diskScan, diskScans>> /\ Len(path) >= 2
  BY <1>1 DEF D!Delete, D!Check
<1>3. /\ diskDelete'[d].pc = "rm" /\ diskDelete'[d].path = path
      /\ diskDelete'[d].freed = D!KnownBytes(path)
      /\ diskDelete'[d].doubtful = (diskTable[D!Parent(path)] \in diskCrossed)
      /\ \A e \in Deleters \ {d} : diskDelete'[e] = diskDelete[e]
  BY <1>1, DiskTypesAre
<1>4. D!TypeOK'
  <2>1. New(path) \in D!Deletes
    BY <1>2, DiskKnownIs DEF D!Deletes
  <2>2. D!Disturbed(d, path) \subseteq D!ScanIds
    BY DEF D!Disturbed, D!Reach
  <2> HIDE DEF New
  <2> QED  BY <1>1, <1>2, <2>1, <2>2, DiskTypesAre
<1>5. ASSUME NEW p \in Folders, NEW i \in D!ScanIds, diskTable'[p] = i
      PROVE  /\ diskScan'[i].path = p /\ diskScan'[i].state # "none"
             /\ i \notin diskCrossed' => D!KeptTrue(i, p)'
  <2>1. /\ diskScan'[i].path = p /\ diskScan'[i].state # "none"
        /\ i \notin diskCrossed => D!KeptTrue(i, p)
    BY <1>2, <1>5 DEF DiskKept
  <2> SUFFICES ASSUME i \notin diskCrossed' PROVE D!KeptTrue(i, p)'
    BY <2>1
  <2>2. D!KeptTrue(i, p) /\ i \notin D!Disturbed(d, path)
    BY <1>1, <2>1
  <2>3. /\ \A q : D!Taken(q)' = D!Taken(q) /\ D!Children(q)' = D!Children(q)
        /\ D!Pending(i)' = D!Pending(i) /\ diskScan'[i] = diskScan[i]
    BY <1>2 DEF D!Taken, D!Children, D!Pending
  <2>4. d \notin D!Deleting(p)
    BY <1>2 DEF D!Deleting
  <2>5. CASE D!Near(path, p)
    <3>1. i \in D!Reach(path)
      BY <1>2, <2>1, <2>5 DEF D!Reach, D!Near
    <3>2. diskScan[i].state \notin D!Active /\ D!Deleting(p) = {}
      BY <1>2, <2>1, <2>2, <2>4, <3>1 DEF D!Disturbed
    <3>3. \A e \in D!Deleting(p)' : e = d
      BY <1>3, <3>2 DEF D!Deleting
    <3>4. D!RowsTrue(i, p) => D!RowsTrue(i, p)'
      BY <2>3 DEF D!RowsTrue
    <3>5. diskScan[i].walking = <<>>
      BY <2>2, <3>2 DEF D!KeptTrue, D!Active
    <3>6. D!Owed(i, p, d)'
      <4> SUFFICES ASSUME D!KnownBytes(path) \in D!Sizes,
                          diskTable[D!Parent(path)] \notin diskCrossed,
                          D!StrictlyUnder(path, p)
                   PROVE  D!KnownBytes(path) = D!Taken(path)
        BY <1>3, <2>3 DEF D!Owed
      <4>1. D!Deleting(D!Parent(path)) = {}
        <5> SUFFICES ASSUME NEW e \in D!Deleting(D!Parent(path)) PROVE FALSE
          OBVIOUS
        <5>1. e \in Deleters /\ diskDelete[e].pc # "idle"
              /\ D!Near(diskDelete[e].path, D!Parent(path))
          BY DEF D!Deleting
        <5>2. diskDelete[e].path \in Tree
          BY <5>1, DiskTypesAre DEF D!NoDelete, D!Deletes
        <5>3. D!Near(diskDelete[e].path, p)
          BY <1>2, <5>1, <5>2, DiskNearAbove, DiskTreeIs
        <5> QED  BY <3>2, <5>1, <5>3 DEF D!Deleting
      <4> QED  BY <1>2, <4>1, DiskKnownIs
    <3> QED  BY <2>2, <2>3, <3>2, <3>3, <3>4, <3>5, <3>6 DEF D!KeptTrue
  <2>6. CASE ~D!Near(path, p)
    <3>1. D!Deleting(p)' = D!Deleting(p)
          /\ \A e \in D!Deleting(p) : diskDelete'[e] = diskDelete[e]
      BY <1>3, <2>4, <2>6 DEF D!Deleting
    <3>2. diskDisk \subseteq Tree
      BY DiskTypesAre
    <3> QED  BY <2>2, <2>3, <3>1, <3>2, DiskFarScan
  <2> QED  BY <2>5, <2>6
<1> QED  BY <1>4, <1>5 DEF DiskKept

(* The scans far from a delete do not notice what it removes.              *)
LEMMA DiskRemovedFar ==
  ASSUME D!TypeOK, NEW d \in Deleters, diskDelete[d].pc # "idle", UNCHANGED diskScan,
         diskDisk' \subseteq diskDisk, \A x \in diskDisk : x \notin diskDisk'
         => D!Under(x, diskDelete[d].path),
         \A e \in Deleters \ {d} : diskDelete'[e] = diskDelete[e],
         diskDelete'[d].pc # "idle" => diskDelete'[d].path = diskDelete[d].path,
         NEW p \in Folders, ~D!Near(diskDelete[d].path, p), NEW i, D!KeptTrue(i, p)
  PROVE  D!KeptTrue(i, p)'
<1>1. diskDelete[d].path \in Tree /\ diskDisk \subseteq Tree
  BY DiskTypesAre DEF D!NoDelete, D!Deletes
<1>2. PICK path \in Tree : path = diskDelete[d].path
  BY <1>1
<1>3. D!Children(p)' = D!Children(p) /\ \A q \in Tree : D!Under(q, p) => D!Taken(q)' = D!Taken(q)
  BY <1>1, <1>2, DiskFarAway, DiskTreeIs
<1>4. D!Deleting(p)' = D!Deleting(p) /\ \A e \in D!Deleting(p) : diskDelete'[e] = diskDelete[e]
  BY DEF D!Deleting
<1> QED  BY <1>1, <1>3, <1>4, DiskFarScan

(* The helper removes the path of a delete.                                *)
LEMMA DiskRemoveKeeps ==
  ASSUME D!TypeOK, DiskKept, NEW d \in Deleters, D!Remove(d)
  PROVE  D!TypeOK' /\ DiskKept'
<1>1. /\ diskDelete[d].pc = "rm" /\ diskDisk' = {x \in diskDisk : ~D!Under(x, diskDelete[d].path)}
      /\ diskDelete' = [diskDelete EXCEPT ![d].pc = "forget"]
      /\ UNCHANGED <<diskTable, diskScan, diskScans, diskCrossed>>
  BY DEF D!Remove
<1>2. diskDelete[d] \in D!Deletes
  BY <1>1, DiskTypesAre DEF D!NoDelete
<1>3. PICK path \in Tree : path = diskDelete[d].path
  BY <1>2 DEF D!Deletes
<1>4. /\ diskDelete'[d] \in D!Deletes /\ diskDelete'[d].pc = "forget"
      /\ diskDelete'[d].path = path
      /\ diskDelete'[d].freed = diskDelete[d].freed
      /\ diskDelete'[d].doubtful = diskDelete[d].doubtful
      /\ \A e \in Deleters \ {d} : diskDelete'[e] = diskDelete[e]
  BY <1>1, <1>2, <1>3, DiskTypesAre DEF D!Deletes
<1>5. D!TypeOK'
  <2>1. diskDelete' \in [Deleters -> {D!NoDelete} \cup D!Deletes]
    BY <1>1, <1>4, DiskTypesAre
  <2> QED  BY <1>1, <2>1, DiskTypesAre
<1>6. ASSUME NEW p \in Folders, NEW i \in D!ScanIds, diskTable'[p] = i
      PROVE  /\ diskScan'[i].path = p /\ diskScan'[i].state # "none"
             /\ i \notin diskCrossed' => D!KeptTrue(i, p)'
  <2>1. /\ diskScan'[i].path = p /\ diskScan'[i].state # "none"
        /\ i \notin diskCrossed => D!KeptTrue(i, p)
    BY <1>1, <1>6 DEF DiskKept
  <2> SUFFICES ASSUME D!KeptTrue(i, p) PROVE D!KeptTrue(i, p)'
    BY <1>1, <2>1
  <2>2. CASE D!Near(path, p)
    <3>1. d \in D!Deleting(p)
      BY <1>1, <1>3, <2>2 DEF D!Deleting
    <3>2. /\ D!Deleting(p) = {d} /\ diskScan[i].state \notin D!Active
          /\ diskScan[i].walking = <<>>
          /\ diskScan[i].state = "done" => D!RowsTrue(i, p) /\ D!Pending(i) = {}
               /\ D!Owed(i, p, d)
      BY <1>1, <3>1, DiskOneDelete
    <3>3. D!Deleting(p)' = {d}
      BY <1>3, <1>4, <2>2, <3>2 DEF D!Deleting
    <3>4. D!Pending(i)' = D!Pending(i) /\ diskScan'[i] = diskScan[i]
      BY <1>1 DEF D!Pending
    <3>5. diskScan[i].state = "done" => D!Owed(i, p, d)'
      <4> SUFFICES ASSUME diskScan[i].state = "done", NEW freed \in D!Sizes,
                          freed = diskDelete[d].freed,
                          ~diskDelete[d].doubtful, D!StrictlyUnder(path, p)
                   PROVE  D!RowsBehind(i, p, path, freed)'
        BY <1>3, <1>4 DEF D!Owed
      <4>1. D!RowsTrue(i, p) /\ D!Pending(i) = {} /\ freed = D!Taken(path)
        BY <1>1, <1>3, <3>2 DEF D!Owed
      <4>2. diskDisk \subseteq Tree /\ diskDisk' = {x \in diskDisk : ~D!Under(x, path)}
            /\ p \in Tree
        BY <1>1, <1>3, DiskTreeIs, DiskTypesAre
      <4>3. /\ D!Children(p)' = D!Children(p) \ {path}
            /\ \A q \in D!Children(p) \ {path} :
                 D!Taken(q) = D!Taken(q)' + (IF D!Under(path, q) THEN D!Taken(path) ELSE 0)
        BY <4>2, DiskTakenAway
      <4>4. \A q \in D!Children(p) : diskScan[i].rows[q].bytes = D!Taken(q)
        BY <4>1 DEF D!RowsTrue, D!Pending
      <4>5. DOMAIN diskScan[i].rows \ {path} = D!Children(p)'
        BY <4>1, <4>3 DEF D!RowsTrue
      <4> QED  BY <3>4, <4>1, <4>3, <4>4, <4>5 DEF D!RowsBehind
    <3>6. DOMAIN diskScan[i].rows # {} => diskScan[i].state \in {"walking", "done"}
      BY DEF D!KeptTrue
    <3> QED  BY <1>4, <3>2, <3>3, <3>4, <3>5, <3>6 DEF D!KeptTrue, D!Active
  <2>3. CASE ~D!Near(path, p)
    <3>1. \A x \in diskDisk : x \notin diskDisk' => D!Under(x, diskDelete[d].path)
      BY <1>1
    <3>2. diskDisk' \subseteq diskDisk
      BY <1>1
    <3> QED  BY <1>1, <1>3, <1>4, <2>3, <3>1, <3>2, DiskRemovedFar
  <2> QED  BY <2>2, <2>3
<1> QED  BY <1>5, <1>6 DEF DiskKept

(* It fails half way.                                                      *)
LEMMA DiskRemoveFailsKeeps ==
  ASSUME D!TypeOK, DiskKept, NEW d \in Deleters, D!RemoveFails(d)
  PROVE  D!TypeOK' /\ DiskKept'
<1>1. /\ diskDelete[d].pc = "rm" /\ diskDelete' = [diskDelete EXCEPT ![d] = D!NoDelete]
      /\ diskCrossed' = diskCrossed \cup D!Reach(diskDelete[d].path)
      /\ UNCHANGED <<diskTable, diskScan, diskScans>>
  BY DEF D!RemoveFails
<1>2. diskDisk' \subseteq diskDisk /\ \A x \in diskDisk : x \notin diskDisk'
      => D!Under(x, diskDelete[d].path)
  BY DEF D!RemoveFails
<1>3. diskDelete[d] \in D!Deletes
  BY <1>1, DiskTypesAre DEF D!NoDelete
<1>4. /\ diskDelete'[d] = D!NoDelete /\ diskDelete'[d].pc = "idle"
      /\ \A e \in Deleters \ {d} : diskDelete'[e] = diskDelete[e]
  BY <1>1, DiskTypesAre DEF D!NoDelete
<1>5. D!TypeOK'
  <2>1. diskDelete' \in [Deleters -> {D!NoDelete} \cup D!Deletes]
    BY <1>1, DiskTypesAre
  <2>2. diskCrossed' \subseteq D!ScanIds
    BY <1>1, DiskTypesAre DEF D!Reach
  <2> QED  BY <1>1, <1>2, <2>1, <2>2, DiskTypesAre
<1>6. ASSUME NEW p \in Folders, NEW i \in D!ScanIds, diskTable'[p] = i
      PROVE  /\ diskScan'[i].path = p /\ diskScan'[i].state # "none"
             /\ i \notin diskCrossed' => D!KeptTrue(i, p)'
  <2>1. /\ diskScan[i].path = p /\ diskScan[i].state # "none"
        /\ i \notin diskCrossed => D!KeptTrue(i, p)
    BY <1>1, <1>6 DEF DiskKept
  <2>2. ASSUME i \notin diskCrossed' PROVE D!KeptTrue(i, p)'
    <3>1. i \notin D!Reach(diskDelete[d].path) /\ D!KeptTrue(i, p)
      BY <1>1, <2>1, <2>2
    <3>2. ~D!Near(diskDelete[d].path, p)
      BY <2>1, <3>1 DEF D!Reach, D!Near
    <3> QED  BY <1>1, <1>2, <1>4, <3>1, <3>2, DiskRemovedFar
  <2> QED  BY <1>1, <2>1, <2>2
<1> QED  BY <1>5, <1>6 DEF DiskKept

(* The kept scans are corrected.                                           *)
LEMMA DiskCorrectedIs ==
  ASSUME NEW rows \in DiskRows, NEW path, NEW freed \in D!Sizes
  PROVE  LET new == D!Corrected(rows, path, freed)
         IN /\ new \in DiskRows /\ DOMAIN new = DOMAIN rows \ {path}
            /\ \A q \in DOMAIN new :
                 /\ new[q].pending = rows[q].pending
                 /\ new[q].bytes = IF D!StrictlyUnder(path,
                      q) THEN D!AtLeast0(rows[q].bytes - freed)
                                   ELSE rows[q].bytes
<1> DEFINE new == D!Corrected(rows, path, freed)
<1>1. /\ DOMAIN rows \subseteq Tree
      /\ rows \in [DOMAIN rows -> [bytes : D!Sizes, pending : BOOLEAN]]
  BY DiskRowsAre
<1>2. \A n \in D!Sizes : D!AtLeast0(n - freed) \in D!Sizes
  BY DiskTreeIs DEF D!AtLeast0
<1>3. /\ new = [q \in DOMAIN rows \ {path} |->
                  IF D!StrictlyUnder(path, q)
                  THEN [rows[q] EXCEPT !.bytes = D!AtLeast0(rows[q].bytes - freed)]
                  ELSE rows[q]]
  BY DEF D!Corrected
<1> HIDE DEF new
<1>4. DOMAIN new = DOMAIN rows \ {path}
  BY <1>3
<1>5. ASSUME NEW q \in DOMAIN new
      PROVE  /\ new[q] \in [bytes : D!Sizes, pending : BOOLEAN]
             /\ new[q].pending = rows[q].pending
             /\ new[q].bytes = IF D!StrictlyUnder(path, q) THEN D!AtLeast0(rows[q].bytes - freed)
                               ELSE rows[q].bytes
  <2>1. rows[q] \in [bytes : D!Sizes, pending : BOOLEAN] /\ rows[q].bytes \in D!Sizes
    BY <1>1, <1>4
  <2>2. D!AtLeast0(rows[q].bytes - freed) \in D!Sizes
    BY <1>2, <2>1
  <2>3. new[q] = IF D!StrictlyUnder(path, q)
                 THEN [rows[q] EXCEPT !.bytes = D!AtLeast0(rows[q].bytes - freed)]
                 ELSE rows[q]
    BY <1>3, <1>4
  <2> QED  BY <2>1, <2>2, <2>3
<1>6. new \in [DOMAIN new -> [bytes : D!Sizes, pending : BOOLEAN]]
  BY <1>3, <1>4, <1>5
<1>7. new \in DiskRows
  BY <1>1, <1>4, <1>6, DiskRowsAre
<1> QED  BY <1>4, <1>5, <1>7 DEF new

(* A deletion that is forgotten is taken off every scan it was counted in. *)
LEMMA DiskForgetKeeps ==
  ASSUME D!TypeOK, DiskKept, NEW d \in Deleters, D!ForgetPath(d)
  PROVE  D!TypeOK' /\ DiskKept'
<1>1. diskDelete[d].pc = "forget" /\ diskDelete[d] \in D!Deletes
  BY DiskTypesAre DEF D!ForgetPath, D!NoDelete
<1>2. PICK path \in Tree, freed \in D!Sizes \cup {D!None} :
        path = diskDelete[d].path /\ freed = diskDelete[d].freed
  BY <1>1 DEF D!Deletes
<1> DEFINE kept == {i \in D!ScanIds :
           /\ i \in {diskTable[p] : p \in Folders \ D!Dropped(path, freed)}
           /\ D!StrictlyUnder(path, diskScan[i].path)}
<1>3. /\ diskTable' = [p \in Folders |-> IF p \in D!Dropped(path, freed) THEN 0 ELSE diskTable[p]]
      /\ diskScan' = [i \in D!ScanIds |->
            IF i \in kept THEN [diskScan[i] EXCEPT !.rows = D!Corrected(@, path,
            freed)] ELSE diskScan[i]]
      /\ diskDelete' = [diskDelete EXCEPT ![d] = D!NoDelete]
      /\ diskCrossed' = IF diskDelete[d].doubtful THEN diskCrossed \cup D!Reach(path)
           ELSE diskCrossed
      /\ UNCHANGED <<diskDisk, diskScans>>
  BY <1>2 DEF D!ForgetPath
<1>4. \A p \in Folders : p \notin D!Dropped(path, freed) =>
        ~D!Under(p, path) /\ (D!StrictlyUnder(path, p) => freed \in D!Sizes)
  BY DEF D!Dropped
<1>5. ASSUME NEW i \in kept PROVE freed \in D!Sizes
  <2>1. PICK p \in Folders : p \notin D!Dropped(path, freed) /\ diskTable[p] = i
    BY <1>5
  <2>2. diskScan[i].path = p
    BY <1>5, <2>1 DEF DiskKept
  <2> QED  BY <1>4, <1>5, <2>1, <2>2
<1> DEFINE new(i) == D!Corrected(diskScan[i].rows, path, freed)
<1>6. ASSUME NEW i \in kept
      PROVE  /\ diskScan[i] \in DiskScans /\ diskScan[i].rows \in DiskRows /\ new(i) \in DiskRows
             /\ DOMAIN new(i) = DOMAIN diskScan[i].rows \ {path}
             /\ \A q \in DOMAIN new(i) :
                  /\ new(i)[q].pending = diskScan[i].rows[q].pending
                  /\ new(i)[q].bytes =
                       IF D!StrictlyUnder(path,
                       q) THEN D!AtLeast0(diskScan[i].rows[q].bytes - freed)
                       ELSE diskScan[i].rows[q].bytes
  <2>1. diskScan[i] \in DiskScans
    BY <1>6, DiskTypesAre
  <2>2. diskScan[i].rows \in DiskRows
    BY <2>1 DEF DiskScans
  <2>3. PICK rows \in DiskRows : rows = diskScan[i].rows
    BY <2>2
  <2> QED  BY <1>5, <1>6, <2>1, <2>2, <2>3, DiskCorrectedIs
<1> HIDE DEF new
<1>7. \A i \in D!ScanIds : IF i \in kept THEN diskScan'[i] = [diskScan[i] EXCEPT !.rows = new(i)]
                           ELSE diskScan'[i] = diskScan[i]
  BY <1>3 DEF new
<1> HIDE DEF kept
<1>8. \A i \in D!ScanIds :
        /\ diskScan'[i] \in DiskScans /\ diskScan'[i].path = diskScan[i].path
        /\ diskScan'[i].state = diskScan[i].state
        /\ diskScan'[i].walking = diskScan[i].walking
        /\ (i \in kept => diskScan'[i].rows = new(i))
  <2> SUFFICES ASSUME NEW i \in D!ScanIds
               PROVE  /\ diskScan'[i] \in DiskScans /\ diskScan'[i].path = diskScan[i].path
                      /\ diskScan'[i].state = diskScan[i].state
                      /\ diskScan'[i].walking = diskScan[i].walking
                      /\ (i \in kept => diskScan'[i].rows = new(i))
    OBVIOUS
  <2>1. diskScan[i] \in DiskScans
    BY DiskTypesAre
  <2>2. CASE i \in kept
    <3>1. new(i) \in DiskRows /\ diskScan'[i] = [diskScan[i] EXCEPT !.rows = new(i)]
      BY <1>6, <1>7, <2>2
    <3> QED  BY <2>1, <3>1 DEF DiskScans
  <2>3. CASE i \notin kept
    BY <1>7, <2>1, <2>3
  <2> QED  BY <2>2, <2>3
<1>9. diskDelete'[d].pc = "idle" /\ \A e \in Deleters \ {d} : diskDelete'[e] = diskDelete[e]
  BY <1>3, DiskTypesAre DEF D!NoDelete
<1>10. D!TypeOK'
  <2>1. diskScan' \in [D!ScanIds -> DiskScans]
    BY <1>3, <1>8
  <2>2. diskDelete' \in [Deleters -> {D!NoDelete} \cup D!Deletes]
    BY <1>3, DiskTypesAre
  <2>3. diskTable' \in [Folders -> 0..diskScans']
    <3>1. 0 \in 0..diskScans /\ diskTable \in [Folders -> 0..diskScans]
      BY DiskTreeIs, DiskTypesAre
    <3> QED  BY <1>3, <3>1
  <2>4. diskCrossed' \subseteq D!ScanIds
    BY <1>3, DiskTypesAre DEF D!Reach
  <2> QED  BY <1>3, <2>1, <2>2, <2>3, <2>4, DiskTypesAre
<1>11. ASSUME NEW p \in Folders, NEW i \in D!ScanIds, diskTable'[p] = i
       PROVE  /\ diskScan'[i].path = p /\ diskScan'[i].state # "none"
              /\ i \notin diskCrossed' => D!KeptTrue(i, p)'
  <2>1. p \notin D!Dropped(path, freed) /\ diskTable[p] = i
    <3>1. i # 0
      BY DEF D!ScanIds
    <3> QED  BY <1>3, <1>11, <3>1
  <2>2. /\ diskScan[i].path = p /\ diskScan[i].state # "none"
        /\ i \notin diskCrossed' => i \notin diskCrossed /\ D!KeptTrue(i, p)
    BY <1>3, <2>1 DEF DiskKept
  <2> SUFFICES ASSUME i \notin diskCrossed', D!KeptTrue(i, p) PROVE D!KeptTrue(i, p)'
    BY <1>8, <2>2
  <2>3. /\ \A q : D!Taken(q)' = D!Taken(q) /\ D!Children(q)' = D!Children(q)
    BY <1>3 DEF D!Taken, D!Children
  <2>4. CASE D!Near(path, p)
    <3>1. d \in D!Deleting(p)
      BY <1>1, <1>2, <2>4 DEF D!Deleting
    <3>2. /\ D!Deleting(p) = {d} /\ diskScan[i].state \notin D!Active
          /\ diskScan[i].walking = <<>>
          /\ diskScan[i].state = "done" => D!Pending(i) = {} /\ D!Owed(i, p, d)
      BY <3>1, DiskOneDelete
    <3>3. D!Deleting(p)' = {}
      BY <1>9, <3>2 DEF D!Deleting
    <3>4. D!StrictlyUnder(path, p) /\ freed \in D!Sizes
      <4>1. D!Under(path, p) /\ path # p
        <5>1. ~D!Under(p, path) /\ D!Under(path, path)
          BY <1>4, <2>1, DiskTreeIs, DiskUnderOrder
        <5> QED  BY <2>4, <5>1 DEF D!Near
      <4> QED  BY <1>4, <2>1, <4>1 DEF D!StrictlyUnder
    <3>5. ~diskDelete[d].doubtful
      <4>1. i \in D!Reach(path)
        BY <2>2, <2>4 DEF D!Reach, D!Near
      <4> QED  BY <1>3, <4>1
    <3>6. i \in kept
      BY <2>1, <2>2, <3>4 DEF kept
    <3>7. /\ diskScan'[i].rows = new(i) /\ DOMAIN new(i) = DOMAIN diskScan[i].rows \ {path}
          /\ \A q \in DOMAIN new(i) :
               /\ new(i)[q].pending = diskScan[i].rows[q].pending
               /\ new(i)[q].bytes =
                    IF D!StrictlyUnder(path, q) THEN D!AtLeast0(diskScan[i].rows[q].bytes - freed)
                    ELSE diskScan[i].rows[q].bytes
      BY <1>6, <1>8, <3>6
    <3>8. ASSUME diskScan[i].state = "done" PROVE D!Pending(i)' = {} /\ D!RowsTrue(i, p)'
      <4>1. D!Pending(i) = {} /\ D!RowsBehind(i, p, path, freed)
        BY <1>1, <1>2, <3>2, <3>4, <3>5, <3>8 DEF D!Owed
      <4>2. /\ DOMAIN new(i) = D!Children(p)
            /\ \A q \in D!Children(p) :
                 diskScan[i].rows[q].bytes = D!Taken(q) + (IF D!Under(path, q) THEN freed ELSE 0)
        BY <3>7, <4>1 DEF D!RowsBehind
      <4>3. D!Pending(i)' = {}
        BY <3>7, <4>1 DEF D!Pending
      <4>4. ASSUME NEW q \in D!Children(p) PROVE new(i)[q].bytes = D!Taken(q)
        <5>1. q # path /\ q \in Tree
          BY <3>7, <4>2, DiskTypesAre DEF D!Children
        <5>2. D!Taken(q) \in Nat /\ freed \in Nat
          BY <3>4, <5>1, DiskTakenIs, DiskTreeIs, DiskTypesAre
        <5>3. CASE D!Under(path, q)
          <6>1. D!StrictlyUnder(path, q)
            BY <5>1, <5>3 DEF D!StrictlyUnder
          <6>2. new(i)[q].bytes = D!AtLeast0(diskScan[i].rows[q].bytes - freed)
            BY <3>7, <4>2, <6>1
          <6>3. diskScan[i].rows[q].bytes - freed = D!Taken(q)
            <7>1. diskScan[i].rows[q].bytes = D!Taken(q) + freed
              BY <4>2, <5>3
            <7> QED  BY <5>2, <7>1
          <6>4. D!AtLeast0(D!Taken(q)) = D!Taken(q)
            BY <5>2 DEF D!AtLeast0
          <6> QED  BY <6>2, <6>3, <6>4
        <5>4. CASE ~D!Under(path, q)
          <6>1. ~D!StrictlyUnder(path, q)
            BY <5>4 DEF D!StrictlyUnder
          <6>2. new(i)[q].bytes = D!Taken(q) + 0
            BY <3>7, <4>2, <5>4, <6>1
          <6> QED  BY <5>2, <6>2
        <5> QED  BY <5>3, <5>4
      <4>5. D!RowsTrue(i, p)'
        BY <2>3, <3>7, <4>2, <4>4 DEF D!RowsTrue
      <4> QED  BY <4>3, <4>5
    <3>9. DOMAIN diskScan'[i].rows # {} => diskScan[i].state \in {"walking", "done"}
      BY <3>7 DEF D!KeptTrue
    <3> QED  BY <1>8, <3>2, <3>3, <3>8, <3>9 DEF D!KeptTrue, D!Active
  <2>5. CASE ~D!Near(path, p)
    <3>1. i \notin kept
      BY <2>2, <2>5 DEF kept, D!StrictlyUnder, D!Near
    <3>2. diskScan'[i] = diskScan[i]
      BY <1>7, <3>1
    <3>3. D!Deleting(p)' = D!Deleting(p)
          /\ \A e \in D!Deleting(p) : diskDelete'[e] = diskDelete[e]
      BY <1>2, <1>9, <2>5 DEF D!Deleting
    <3>4. diskDisk \subseteq Tree
      BY DiskTypesAre
    <3> QED  BY <2>3, <3>2, <3>3, <3>4, DiskFarScan
  <2> QED  BY <2>4, <2>5
<1> QED  BY <1>10, <1>11 DEF DiskKept

(* At the start nothing was scanned or deleted.                            *)
LEMMA DiskInit == D!Init => D!Inductive
<1> SUFFICES ASSUME D!Init PROVE D!Inductive
  OBVIOUS
<1>1. D!NoScan \in DiskScans
  <2>1. DOMAIN D!NoRows = {} /\ D!NoRows \in [{} -> [bytes : D!Sizes, pending : BOOLEAN]]
    BY DEF D!NoRows
  <2>2. D!NoRows \in DiskRows
    BY <2>1, DiskRowsAre
  <2>3. 0 \in D!Sizes
    BY DiskTreeIs
  <2> QED  BY <2>2, <2>3 DEF D!NoScan, DiskScans
<1>2. D!TypeOK
  <2>1. diskTable \in [Folders -> 0..diskScans] /\ diskScans \in 0..MaxScans
    BY DiskTreeIs DEF D!Init
  <2> QED  BY <1>1, <2>1, DiskTypesAre DEF D!Init
<1>3. DiskKept
  BY DEF D!Init, DiskKept, D!ScanIds
<1> QED  BY <1>2, <1>3 DEF D!Inductive, DiskKept

(* No step of a scan or of a delete breaks it.                             *)
LEMMA DiskStep == D!Inductive /\ [D!Next]_D!diskVars => D!Inductive'
<1> SUFFICES ASSUME D!Inductive, [D!Next]_D!diskVars PROVE D!Inductive'
  OBVIOUS
<1>1. D!TypeOK /\ DiskKept
  BY DEF D!Inductive, DiskKept
<1>2. CASE D!Next
  <2>1. D!TypeOK' /\ DiskKept'
    BY <1>1, <1>2, DiskUsageKeeps, DiskTakeSlotKeeps, DiskListKeeps, DiskWalkKeeps,
             DiskStoreKeeps, DiskDeleteKeeps,
       DiskRemoveKeeps, DiskRemoveFailsKeeps, DiskForgetKeeps DEF D!Next, D!Scan
  <2> QED  BY <2>1 DEF D!Inductive, DiskKept
<1>3. CASE UNCHANGED D!diskVars
  <2>1. D!TypeOK'
    BY <1>1, <1>3, DiskTypesAre DEF D!diskVars
  <2>2. DiskKept'
    BY <1>1, <1>3, DiskSameScan DEF D!diskVars, DiskKept
  <2> QED  BY <2>1, <2>2 DEF D!Inductive, DiskKept
<1> QED  BY <1>2, <1>3

(* A finished scan that is kept tells the truth about the disk.            *)
LEMMA DiskHolds == D!Inductive => D!TypeOK /\ D!ScanHonest
<1> SUFFICES ASSUME D!Inductive PROVE D!ScanHonest
  BY DEF D!Inductive
<1> SUFFICES ASSUME NEW p \in Folders, diskTable[p] # 0, diskTable[p] \notin diskCrossed,
                    D!Deleting(p) = {},
                    diskScan[diskTable[p]].state = "done"
             PROVE  /\ DOMAIN diskScan[diskTable[p]].rows = D!Children(p)
                    /\ \A q \in D!Children(p) : diskScan[diskTable[p]].rows[q].bytes = D!Taken(q)
  BY DEF D!ScanHonest
<1>1. diskTable[p] \in D!ScanIds
  <2>1. diskTable[p] \in 0..diskScans /\ diskScans \in 0..MaxScans
    BY DiskTypesAre DEF D!Inductive
  <2> QED  BY <2>1, DiskTreeIs DEF D!ScanIds
<1>2. PICK i \in D!ScanIds : i = diskTable[p]
  BY <1>1
<1>3. D!KeptTrue(i, p)
  BY <1>2 DEF D!Inductive
<1>4. D!RowsTrue(i, p) /\ D!Pending(i) = {}
  BY <1>2, <1>3 DEF D!KeptTrue
<1> QED  BY <1>2, <1>4 DEF D!RowsTrue, D!Pending

(* ... and so it is as long as this component is the one at work.          *)
LEMMA DiskRuns == Spec => [](which = "disk" => D!Inductive)
<1>1. Init => (which = "disk" => D!Inductive)
  BY DiskInit DEF Init
<1>2. (which = "disk" => D!Inductive) /\ [Next]_vars => (which = "disk" => D!Inductive)'
  <2> SUFFICES ASSUME which = "disk" => D!Inductive, [Next]_vars, which' = "disk"
               PROVE  D!Inductive'
    OBVIOUS
  <2>1. which = "disk" /\ (D!Next \/ UNCHANGED D!diskVars)
    BY OneAtWork DEF vars, D!diskVars
  <2> QED  BY <2>1, DiskStep
<1> QED  BY <1>1, <1>2, PTL DEF Spec

-----------------------------------------------------------------------------
(* The streams of logs (main.py).                                          *)
logPrinting == v1
logStream == v2
logPump == v3
logQueued == v4
logLast == v5
logSender == v6
logWatching == v7
USE DEF logPrinting, logStream, logPump, logQueued, logLast, logSender, logWatching

(* At the start the queue is empty.                                        *)
LEMMA LogInit == L!Init => L!TypeOK
<1> SUFFICES ASSUME L!Init PROVE L!TypeOK
  OBVIOUS
<1>1. logQueued \in 0..QueueSize
  BY LogAssumption DEF L!Init, L!LogSane
<1> QED  BY <1>1 DEF L!Init, L!TypeOK

(* A chunk is put into the queue only where there is room.                 *)
LEMMA LogStep == L!TypeOK /\ [L!Next]_L!logVars => L!TypeOK'
<1> SUFFICES ASSUME L!TypeOK, [L!Next]_L!logVars PROVE L!TypeOK'
  OBVIOUS
<1> USE LogAssumption DEF L!LogSane, L!TypeOK
<1>1. CASE L!Chunk
  BY <1>1 DEF L!Chunk
<1>2. CASE L!PumpSteps
  <2>1. CASE L!EndOfStream
    BY <2>1 DEF L!EndOfStream
  <2>2. CASE L!Put
    <3>1. logQueued' \in 0..QueueSize
      BY <2>2 DEF L!Put, L!Space
    <3> QED  BY <2>2, <3>1 DEF L!Put
  <2>3. CASE L!PutNone
    BY <2>3 DEF L!PutNone
  <2> QED  BY <1>2, <2>1, <2>2, <2>3 DEF L!PumpSteps
<1>3. CASE L!LogSteps
  <2>1. logQueued' \in 0..QueueSize
    BY <1>3 DEF L!LogSteps, L!Take, L!Send
  <2>3. logLast' \in BOOLEAN
    BY <1>3, Zenon DEF L!LogSteps, L!Take, L!Send
  <2>2. logSender' \in {"taking", "abandoned", "sending", "done", "gone"}
    BY <1>3 DEF L!LogSteps, L!Take, L!Send
  <2> QED  BY <1>3, <2>1, <2>2, <2>3 DEF L!LogSteps, L!Take, L!Send
<1>4. CASE L!Close
  BY <1>4 DEF L!Close
<1>5. CASE L!ContainerStops \/ L!ViewerLeaves
  BY <1>5 DEF L!ContainerStops, L!ViewerLeaves
<1>6. CASE UNCHANGED L!logVars
  BY <1>6 DEF L!logVars
<1> QED  BY <1>1, <1>2, <1>3, <1>4, <1>5, <1>6 DEF L!Next

(* ... and so it is as long as this component is the one at work.          *)
LEMMA LogRuns == Spec => [](which = "log" => L!TypeOK)
<1>1. Init => (which = "log" => L!TypeOK)
  BY LogInit DEF Init
<1>2. (which = "log" => L!TypeOK) /\ [Next]_vars => (which = "log" => L!TypeOK)'
  <2> SUFFICES ASSUME which = "log" => L!TypeOK, [Next]_vars, which' = "log"
               PROVE  L!TypeOK'
    OBVIOUS
  <2>1. which = "log" /\ (L!Next \/ UNCHANGED L!logVars)
    BY OneAtWork DEF vars, L!logVars
  <2> QED  BY <2>1, LogStep
<1> QED  BY <1>1, <1>2, PTL DEF Spec

-----------------------------------------------------------------------------
(* The downloads of folders (folder_archive.py).                           *)
folderProducer == v1
folderPacked == v2
folderFifo == v3
folderNone == v4
folderAborted == v5
folderGenerator == v6
folderTaken == v7
USE DEF folderProducer, folderPacked, folderFifo, folderNone, folderAborted,
        folderGenerator, folderTaken

(* At the start nothing is packed.                                         *)
LEMMA FolderInit == F!Init => F!Inductive
<1> SUFFICES ASSUME F!Init PROVE F!Inductive
  OBVIOUS
<1>1. folderPacked \in 0..MaxChunks /\ folderFifo \in 0..QueueLimit
      /\ folderTaken \in 0..MaxChunks /\ F!Conserved
  BY FolderAssumption DEF F!Init, F!FolderSane, F!Conserved
<1> QED  BY <1>1 DEF F!Init, F!Inductive, F!TypeOK, F!InOrder

(* The generator takes what the thread has packed, and the None last.      *)
LEMMA FolderStep == F!Inductive /\ [F!Next]_F!archiveVars => F!Inductive'
<1> SUFFICES ASSUME F!Inductive, [F!Next]_F!archiveVars PROVE F!Inductive'
  OBVIOUS
<1> USE FolderAssumption DEF F!FolderSane, F!Inductive, F!TypeOK, F!Conserved, F!InOrder
<1>1. CASE F!Pack
  BY <1>1 DEF F!Pack, F!HasRoom
<1>2. CASE F!ProducerSteps
  <2>1. /\ folderProducer' \in {"packing", "finally", "ended"} /\ folderNone' \in BOOLEAN
        /\ folderNone' => folderProducer' = "ended"
        /\ UNCHANGED <<folderPacked, folderFifo, folderAborted, folderGenerator, folderTaken>>
    <3>1. CASE F!GiveUp
      BY <3>1 DEF F!GiveUp
    <3>2. CASE F!Packed
      BY <3>2 DEF F!Packed
    <3>3. CASE F!PutEnd
      BY <3>3 DEF F!PutEnd
    <3> QED  BY <1>2, <3>1, <3>2, <3>3 DEF F!ProducerSteps
  <2> QED  BY <2>1
<1>3. CASE F!TakeChunk
  <2>1. UNCHANGED <<folderProducer, folderPacked>>
    BY <1>3 DEF F!TakeChunk
  <2>2. CASE folderFifo > 0 /\ folderFifo' = folderFifo - 1 /\ folderTaken' = folderTaken + 1
             /\ UNCHANGED <<folderNone, folderAborted>>
             /\ folderGenerator' = "running" /\ folderGenerator \in {"new", "running"}
    <3>1. folderFifo' \in 0..QueueLimit /\ folderTaken' \in 0..MaxChunks /\ F!Conserved'
      BY <2>1, <2>2
    <3> QED  BY <2>1, <2>2, <3>1
  <2>3. CASE folderFifo = 0 /\ folderNone /\ folderNone' = FALSE /\ folderGenerator' = "finished"
             /\ folderAborted' = TRUE
             /\ UNCHANGED <<folderFifo, folderTaken>>
    BY <2>1, <2>3
  <2> QED  BY <1>3, <2>2, <2>3 DEF F!TakeChunk
<1>4. CASE F!ClientLeaves
  BY <1>4 DEF F!ClientLeaves
<1>5. CASE UNCHANGED F!archiveVars
  BY <1>5 DEF F!archiveVars
<1> QED  BY <1>1, <1>2, <1>3, <1>4, <1>5 DEF F!Next

(* A download that finishes has sent all that was packed.                  *)
LEMMA FolderHolds == F!Inductive => F!AllSent
  BY DEF F!Inductive, F!TypeOK, F!Conserved, F!InOrder, F!AllSent

(* ... and so it is as long as this component is the one at work.          *)
LEMMA FolderRuns == Spec => [](which = "folder" => F!Inductive)
<1>1. Init => (which = "folder" => F!Inductive)
  BY FolderInit DEF Init
<1>2. (which = "folder" => F!Inductive) /\ [Next]_vars => (which = "folder" => F!Inductive)'
  <2> SUFFICES ASSUME which = "folder" => F!Inductive, [Next]_vars, which' = "folder"
               PROVE  F!Inductive'
    OBVIOUS
  <2>1. which = "folder" /\ (F!Next \/ UNCHANGED F!archiveVars)
    BY OneAtWork DEF vars, F!archiveVars
  <2> QED  BY <2>1, FolderStep
<1> QED  BY <1>1, <1>2, PTL DEF Spec

-----------------------------------------------------------------------------
(* The packet capture (capture.py).                                        *)
capJob == v1
capState == v2
capStarting == v3
capCaller == v4
capCaptures == v5
capSniffer == v6
capSaid == v7
capReader == v8
capDockerFaults == v9
capDeaths == v10
capLeftBehind == v11
USE DEF capJob, capState, capStarting, capCaller, capCaptures, capSniffer, capSaid,
        capReader, capDockerFaults, capDeaths, capLeftBehind

(* Where a request goes, it is, and the others stay where they are.        *)
LEMMA CaptureGoneTo ==
  ASSUME C!TypeOK, NEW v \in Viewers, NEW pc \in C!Stages, NEW on \in {0} \cup C!Captures,
         C!Goto(v, pc, on)
  PROVE  /\ capCaller' \in [Viewers -> [pc : C!Stages, on : {0} \cup C!Captures]]
         /\ capCaller'[v] = [pc |-> pc, on |-> on]
         /\ \A u \in Viewers \ {v} : capCaller'[u] = capCaller[u]
<1>1. capCaller' = [capCaller EXCEPT ![v] = [pc |-> pc, on |-> on]]
  BY DEF C!Goto
<1>2. capCaller \in [Viewers -> [pc : C!Stages, on : {0} \cup C!Captures]]
  BY DEF C!TypeOK
<1> QED  BY <1>1, <1>2

(* A request that is over.                                                 *)
LEMMA CaptureSetIdle ==
  ASSUME C!TypeOK, NEW v \in Viewers, capCaller' = [capCaller EXCEPT ![v] = C!Idle]
  PROVE  C!Goto(v, "idle", 0)
  BY DEF C!Goto, C!Idle

(* A step that moves no helper and keeps a request from create on apart.   *)
LEMMA CaptureApartKeeps ==
  ASSUME C!Inductive, UNCHANGED <<capCaptures, capSniffer, capLeftBehind>>,
         \A v \in Viewers : capCaller'[v].pc \in {"create", "launch", "publish"} =>
                              capCaller'[v] = capCaller[v]
  PROVE  C!Alone'
<1> USE CaptureAssumption DEF C!CaptureSane, C!Inductive
<1>1. C!There' = C!There /\ C!Running' = C!Running /\ capLeftBehind' = capLeftBehind
  BY DEF C!There, C!Running
<1>2. ASSUME ~capLeftBehind, NEW v \in Viewers
      PROVE  /\ capCaller'[v].pc = "create" => C!There = {}
             /\ capCaller'[v].pc \in {"launch", "publish"} => C!There \subseteq {capCaller'[v].on}
  BY <1>2 DEF C!Alone
<1> QED  BY <1>1, <1>2 DEF C!Alone

(* A request reserves the capture, if nobody has and none runs.            *)
LEMMA CaptureStartKeeps ==
  ASSUME C!Inductive, NEW v \in Viewers, C!Start(v)
  PROVE  C!Inductive'
<1> USE CaptureAssumption DEF C!CaptureSane, C!Inductive
<1>1. /\ capCaller[v] = C!Idle /\ C!MayStart /\ capStarting' = TRUE /\ C!Goto(v, "validate", 0)
      /\ UNCHANGED <<capJob, capState, capCaptures, capSniffer, capSaid, capReader,
           capDockerFaults, capDeaths, capLeftBehind>>
  BY DEF C!Start, C!helperVars
<1>2. /\ capCaller' \in [Viewers -> [pc : C!Stages, on : {0} \cup C!Captures]]
      /\ capCaller'[v] = [pc |-> "validate", on |-> 0]
      /\ \A u \in Viewers \ {v} : capCaller'[u] = capCaller[u]
  BY <1>1, CaptureGoneTo DEF C!Stages
<1>3. C!TypeOK'
  BY <1>1, <1>2 DEF C!TypeOK
<1>4. C!Reserved'
  BY <1>1, <1>2 DEF C!Reserved, C!Begins, C!MayStart
<1>5. C!OfAStart'
  BY <1>1, <1>2 DEF C!OfAStart
<1>6. C!Alone'
  BY <1>1, <1>2, CaptureApartKeeps
<1>7. C!Followed'
  BY <1>1, <1>2 DEF C!Followed, C!Capturing, C!Idle
<1> QED  BY <1>3, <1>4, <1>5, <1>6, <1>7

(* The arguments are refused, or the request goes on.                      *)
LEMMA CaptureValidateKeeps ==
  ASSUME C!Inductive, NEW v \in Viewers, C!Validate(v)
  PROVE  C!Inductive'
<1> USE CaptureAssumption DEF C!CaptureSane, C!Inductive
<1>1. /\ capCaller[v].pc = "validate"
      /\ UNCHANGED <<capJob, capState, capCaptures, capSniffer, capSaid, capReader,
           capDockerFaults, capDeaths, capLeftBehind>>
      /\ \/ C!Goto(v, "clear", 0) /\ capStarting' = capStarting
         \/ C!Goto(v, "idle", 0) /\ capStarting' = FALSE
  BY CaptureSetIdle DEF C!Validate, C!helperVars
<1>2. PICK pc \in {"clear", "idle"} :
           C!Goto(v, pc, 0) /\ (pc = "clear" => capStarting' = capStarting)
  BY <1>1 DEF C!TypeOK
<1>3. /\ capCaller' \in [Viewers -> [pc : C!Stages, on : {0} \cup C!Captures]]
      /\ capCaller'[v] = [pc |-> pc, on |-> 0]
      /\ \A u \in Viewers \ {v} : capCaller'[u] = capCaller[u]
  BY <1>1, <1>2, CaptureGoneTo DEF C!Stages
<1>4. C!TypeOK'
  BY <1>1, <1>2, <1>3 DEF C!TypeOK
<1>5. C!Reserved'
  BY <1>1, <1>2, <1>3 DEF C!Reserved, C!Begins
<1>6. C!OfAStart'
  BY <1>1, <1>3 DEF C!OfAStart
<1>7. C!Alone'
  BY <1>1, <1>3, CaptureApartKeeps
<1>8. C!Followed'
  BY <1>1, <1>3 DEF C!Followed, C!Capturing
<1> QED  BY <1>4, <1>5, <1>6, <1>7, <1>8

(* All helpers there are removed, or one is left behind.                   *)
LEMMA CaptureClearKeeps ==
  ASSUME C!Inductive, NEW v \in Viewers, C!ClearStale(v)
  PROVE  C!Inductive'
<1> USE CaptureAssumption DEF C!CaptureSane, C!Inductive
<1>1. /\ capCaller[v].pc = "clear" /\ C!Goto(v, "create", 0)
      /\ UNCHANGED <<capJob, capState, capStarting, capCaptures, capSaid, capReader, capDeaths>>
  BY DEF C!ClearStale
<1>2. /\ capCaller' \in [Viewers -> [pc : C!Stages, on : {0} \cup C!Captures]]
      /\ capCaller'[v] = [pc |-> "create", on |-> 0]
      /\ \A u \in Viewers \ {v} : capCaller'[u] = capCaller[u]
  BY <1>1, CaptureGoneTo DEF C!Stages
<1>3. \/ /\ capSniffer' = [i \in C!Captures |-> IF i \in C!There THEN "removed"
              ELSE capSniffer[i]]
         /\ UNCHANGED <<capDockerFaults, capLeftBehind>>
      \/ capLeftBehind' = TRUE /\ capSniffer' = capSniffer
           /\ capDockerFaults' \in 0..MaxDockerFaults
  BY DEF C!ClearStale, C!DockerWorks, C!DockerFails, C!TypeOK
<1>4. capSniffer' \in [C!Captures -> {"none", "created", "running", "exited", "removed"}]
      /\ capLeftBehind' \in BOOLEAN /\ capDockerFaults' \in 0..MaxDockerFaults
  BY <1>3 DEF C!TypeOK
<1>5. C!TypeOK'
  BY <1>1, <1>2, <1>4 DEF C!TypeOK
<1>6. C!Reserved'
  BY <1>1, <1>2 DEF C!Reserved, C!Begins
<1>7. C!OfAStart'
  BY <1>1, <1>2, <1>3 DEF C!OfAStart, C!There
<1>8. C!Alone'
  <2>1. CASE capLeftBehind'
    BY <2>1 DEF C!Alone
  <2>2. CASE ~capLeftBehind'
    <3>1. C!There' = {} /\ C!Running' = {}
      BY <1>3, <2>2 DEF C!There, C!Running, C!TypeOK
    <3> QED  BY <3>1 DEF C!Alone
  <2> QED  BY <2>1, <2>2
<1>9. C!Followed'
  BY <1>1, <1>2 DEF C!Followed, C!Capturing
<1> QED  BY <1>5, <1>6, <1>7, <1>8, <1>9

(* The helper is created; the earlier ones have been removed.              *)
LEMMA CaptureCreateKeeps ==
  ASSUME C!Inductive, NEW v \in Viewers, C!Create(v)
  PROVE  C!Inductive'
<1> USE CaptureAssumption DEF C!CaptureSane, C!Inductive
<1> DEFINE new == capCaptures + 1
<1>1. /\ capCaller[v].pc = "create" /\ C!Goto(v, "launch", new) /\ capCaptures' = new
      /\ capCaptures < MaxCaptures /\ capSniffer' = [capSniffer EXCEPT ![new] = "created"]
      /\ UNCHANGED <<capJob, capState, capStarting, capSaid, capReader, capDockerFaults,
           capDeaths, capLeftBehind>>
  BY DEF C!Create
<1>2. capCaptures \in Nat /\ new \in C!Captures
  BY <1>1 DEF C!TypeOK, C!Captures
<1>3. /\ capCaller' \in [Viewers -> [pc : C!Stages, on : {0} \cup C!Captures]]
      /\ capCaller'[v] = [pc |-> "launch", on |-> new]
      /\ \A u \in Viewers \ {v} : capCaller'[u] = capCaller[u]
  BY <1>1, <1>2, CaptureGoneTo DEF C!Stages
<1>4. \A i \in C!Captures : capSniffer'[i] = IF i = new THEN "created" ELSE capSniffer[i]
  BY <1>1, <1>2 DEF C!TypeOK
<1>5. C!TypeOK'
  <2>1. capSniffer' \in [C!Captures -> {"none", "created", "running", "exited", "removed"}]
    BY <1>1 DEF C!TypeOK
  <2>2. capCaptures' \in 0..MaxCaptures
    BY <1>1, <1>2 DEF C!TypeOK
  <2> QED  BY <1>1, <1>3, <2>1, <2>2 DEF C!TypeOK
<1>6. C!Reserved'
  BY <1>1, <1>3 DEF C!Reserved, C!Begins
<1>7. C!OfAStart'
  BY <1>1, <1>2, <1>3, <1>4 DEF C!OfAStart, C!Captures
<1>8. C!Alone'
  <2>1. SUFFICES ASSUME ~capLeftBehind PROVE C!Alone'
    BY <1>1 DEF C!Alone
  <2>2. C!There = {}
    BY <1>1, <2>1 DEF C!Alone
  <2>3. C!There' \subseteq {new} /\ C!Running' = {}
    BY <1>4, <2>2 DEF C!There, C!Running
  <2>4. \A u \in Viewers \ {v} : ~C!Begins(u)'
    BY <1>1, <1>3 DEF C!Reserved, C!Begins
  <2> QED  BY <1>3, <2>3, <2>4 DEF C!Alone, C!Begins
<1>9. C!Followed'
  BY <1>1, <1>3 DEF C!Followed, C!Capturing
<1> QED  BY <1>5, <1>6, <1>7, <1>8, <1>9

(* The helper starts, or fails to and is removed.                          *)
LEMMA CaptureLaunchKeeps ==
  ASSUME C!Inductive, NEW v \in Viewers, C!Launch(v)
  PROVE  C!Inductive'
<1> USE CaptureAssumption DEF C!CaptureSane, C!Inductive
<1> DEFINE i == capCaller[v].on
<1>1. /\ capCaller[v].pc = "launch"
      /\ UNCHANGED <<capJob, capState, capCaptures, capSaid, capReader, capDeaths, capLeftBehind>>
  BY DEF C!Launch
<1>2. i \in 1..capCaptures /\ capCaptures \in Nat /\ i \in C!Captures
  BY <1>1 DEF C!TypeOK, C!OfAStart, C!Captures
<1>3. PICK pc \in {"publish", "idle"}, to \in {"running", "removed", "created", "exited",
           "none"} :
        /\ C!Goto(v, pc, IF pc = "idle" THEN 0 ELSE i)
        /\ capSniffer' = [capSniffer EXCEPT ![i] = to]
        /\ pc = "publish" => capStarting' = capStarting
        /\ to # "removed" => to = capSniffer[i] \/ to = "running"
        /\ pc = "idle" => to = "removed"
        /\ to = "running" => capSniffer[i] \in {"created", "running"}
        /\ to = "created" => FALSE
  BY <1>2, CaptureSetIdle DEF C!Launch, C!TypeOK
<1>4. capDockerFaults' \in 0..MaxDockerFaults /\ capStarting' \in BOOLEAN
  <2>1. capDockerFaults' \in 0..MaxDockerFaults
    BY DEF C!Launch, C!DockerWorks, C!DockerFails, C!TypeOK
  <2>2. capStarting' = capStarting \/ capStarting' = FALSE
    BY DEF C!Launch
  <2> QED  BY <2>1, <2>2 DEF C!TypeOK
<1>5. /\ capCaller' \in [Viewers -> [pc : C!Stages, on : {0} \cup C!Captures]]
      /\ capCaller'[v] = [pc |-> pc, on |-> IF pc = "idle" THEN 0 ELSE i]
      /\ \A u \in Viewers \ {v} : capCaller'[u] = capCaller[u]
  BY <1>1, <1>2, <1>3, CaptureGoneTo DEF C!Stages
<1>6. \A k \in C!Captures : capSniffer'[k] = IF k = i THEN to ELSE capSniffer[k]
  BY <1>2, <1>3 DEF C!TypeOK
<1> HIDE DEF i
<1>7. C!TypeOK'
  BY <1>1, <1>3, <1>4, <1>5 DEF C!TypeOK
<1>8. C!Reserved'
  BY <1>1, <1>3, <1>5 DEF C!Reserved, C!Begins
<1>9. C!OfAStart'
  BY <1>1, <1>2, <1>5, <1>6 DEF C!OfAStart
<1>10. C!Alone'
  <2>1. SUFFICES ASSUME ~capLeftBehind PROVE C!Alone'
    BY <1>1 DEF C!Alone
  <2>2. C!There \subseteq {i}
    BY <1>1, <2>1 DEF C!Alone, i
  <2>3. C!There' \subseteq {i} /\ C!Running' \subseteq {i}
    BY <1>6, <2>2 DEF C!There, C!Running
  <2>4. \A u \in Viewers \ {v} : ~C!Begins(u)'
    BY <1>1, <1>5 DEF C!Reserved, C!Begins
  <2> QED  BY <1>5, <2>3, <2>4 DEF C!Alone, C!Begins
<1>11. C!Followed'
  BY <1>1, <1>5 DEF C!Followed, C!Capturing
<1> QED  BY <1>7, <1>8, <1>9, <1>10, <1>11

(* The job becomes the one everybody sees, and the reservation ends.       *)
LEMMA CapturePublishKeeps ==
  ASSUME C!Inductive, NEW v \in Viewers, C!Publish(v)
  PROVE  C!Inductive'
<1> USE CaptureAssumption DEF C!CaptureSane, C!Inductive
<1> DEFINE i == capCaller[v].on
<1>1. /\ capCaller[v].pc = "publish" /\ capJob' = i
      /\ capState' = [capState EXCEPT ![i] = "capturing"]
      /\ capStarting' = FALSE /\ C!Goto(v, "thread", i)
      /\ UNCHANGED <<capCaptures, capSniffer, capSaid, capReader, capDockerFaults, capDeaths,
           capLeftBehind>>
  BY DEF C!Publish, C!helperVars
<1>2. i \in 1..capCaptures /\ capCaptures \in Nat /\ i \in C!Captures
  BY <1>1 DEF C!TypeOK, C!OfAStart, C!Captures
<1>3. /\ capCaller' \in [Viewers -> [pc : C!Stages, on : {0} \cup C!Captures]]
      /\ capCaller'[v] = [pc |-> "thread", on |-> i]
      /\ \A u \in Viewers \ {v} : capCaller'[u] = capCaller[u]
  BY <1>1, <1>2, CaptureGoneTo DEF C!Stages
<1>4. C!TypeOK'
  BY <1>1, <1>2, <1>3 DEF C!TypeOK
<1>5. C!Reserved'
  BY <1>1, <1>3 DEF C!Reserved, C!Begins
<1>6. C!OfAStart'
  BY <1>1, <1>2, <1>3 DEF C!OfAStart
<1>7. C!Alone'
  BY <1>1, <1>3, CaptureApartKeeps
<1>8. C!Followed'
  BY <1>1, <1>3 DEF C!Followed
<1> QED  BY <1>4, <1>5, <1>6, <1>7, <1>8

(* A reader begins to follow the helper.                                   *)
LEMMA CaptureFollowKeeps ==
  ASSUME C!Inductive, NEW v \in Viewers, C!Follow(v)
  PROVE  C!Inductive'
<1> USE CaptureAssumption DEF C!CaptureSane, C!Inductive
<1> DEFINE i == capCaller[v].on
<1>1. /\ capCaller[v].pc = "thread" /\ capReader' = [capReader EXCEPT ![i] = "reading"]
      /\ C!Goto(v, "idle", 0)
      /\ UNCHANGED <<capJob, capState, capStarting, capCaptures, capSniffer, capSaid,
           capDockerFaults, capDeaths, capLeftBehind>>
  BY CaptureSetIdle DEF C!Follow, C!helperVars
<1>2. i \in 1..capCaptures /\ capCaptures \in Nat /\ i \in C!Captures
  BY <1>1 DEF C!TypeOK, C!OfAStart, C!Captures
<1>3. /\ capCaller' \in [Viewers -> [pc : C!Stages, on : {0} \cup C!Captures]]
      /\ capCaller'[v] = [pc |-> "idle", on |-> 0]
      /\ \A u \in Viewers \ {v} : capCaller'[u] = capCaller[u]
  BY <1>1, <1>2, CaptureGoneTo DEF C!Stages
<1>4. \A k \in C!Captures : capReader'[k] = IF k = i THEN "reading" ELSE capReader[k]
  BY <1>1, <1>2 DEF C!TypeOK
<1>5. C!TypeOK'
  BY <1>1, <1>3 DEF C!TypeOK
<1>6. C!Reserved'
  BY <1>1, <1>3 DEF C!Reserved, C!Begins
<1>7. C!OfAStart'
  BY <1>1, <1>2, <1>3 DEF C!OfAStart
<1>8. C!Alone'
  BY <1>1, <1>3, CaptureApartKeeps
<1>9. C!Followed'
  <2>1. SUFFICES ASSUME C!Capturing(capJob) PROVE C!Followed'
    BY <1>1 DEF C!Followed, C!Capturing
  <2>2. capJob \in C!Captures
    BY <1>2, <2>1 DEF C!TypeOK, C!Capturing, C!Captures
  <2>3. CASE capJob = i
    BY <1>1, <1>4, <2>2, <2>3 DEF C!Followed
  <2>4. CASE capJob # i
    <3>1. capReader[capJob] = "reading"
          \/ \E u \in Viewers \ {v} : capCaller[u] = [pc |-> "thread", on |-> capJob]
      BY <2>1, <2>4 DEF C!Followed
    <3> QED  BY <1>1, <1>3, <1>4, <2>2, <2>4, <3>1 DEF C!Followed
  <2> QED  BY <2>3, <2>4
<1> QED  BY <1>5, <1>6, <1>7, <1>8, <1>9

(* A stop, and the state it leaves.                                        *)
LEMMA CaptureStopKeeps ==
  ASSUME C!Inductive, NEW v \in Viewers, C!Stop(v) \/ C!Mark(v)
  PROVE  C!Inductive'
<1> USE CaptureAssumption DEF C!CaptureSane, C!Inductive
<1>1. /\ UNCHANGED <<capJob, capStarting, capCaptures, capSniffer, capSaid, capReader,
           capDockerFaults, capDeaths, capLeftBehind>>
      /\ capCaller[v].pc \in {"idle", "mark"}
  BY DEF C!Stop, C!Mark, C!helperVars, C!Idle
<1>2. PICK pc \in {"kill", "idle"}, on \in {0} \cup C!Captures :
        C!Goto(v, pc, on) /\ (pc = "kill" => on # 0)
  BY CaptureSetIdle DEF C!Stop, C!Mark, C!Capturing, C!TypeOK
<1>3. /\ capCaller' \in [Viewers -> [pc : C!Stages, on : {0} \cup C!Captures]]
      /\ capCaller'[v] = [pc |-> pc, on |-> on]
      /\ \A u \in Viewers \ {v} : capCaller'[u] = capCaller[u]
  BY <1>1, <1>2, CaptureGoneTo DEF C!Stages
<1>4. /\ capState' \in [C!Captures -> {"none", "capturing", "done", "stopped", "error"}]
      /\ \A k \in C!Captures : capState'[k] = "capturing" => capState[k] = "capturing"
  BY DEF C!Stop, C!Mark, C!Stopped, C!TypeOK
<1>5. C!TypeOK'
  BY <1>1, <1>3, <1>4 DEF C!TypeOK
<1>6. C!Reserved'
  BY <1>1, <1>2, <1>3 DEF C!Reserved, C!Begins
<1>7. C!OfAStart'
  BY <1>1, <1>2, <1>3 DEF C!OfAStart
<1>8. C!Alone'
  BY <1>1, <1>2, <1>3, CaptureApartKeeps
<1>9. C!Followed'
  <2>1. SUFFICES ASSUME C!Capturing(capJob)' PROVE C!Followed'
    BY DEF C!Followed
  <2>2. C!Capturing(capJob) /\ capJob \in C!Captures
    BY <1>1, <1>4, <2>1 DEF C!Capturing, C!TypeOK, C!Captures
  <2> QED  BY <1>1, <1>3, <2>2 DEF C!Followed
<1> QED  BY <1>5, <1>6, <1>7, <1>8, <1>9

(* A helper that ends, is killed or removed leaves fewer of them.          *)
LEMMA CaptureFewerKeep ==
  ASSUME C!Inductive, NEW i \in C!Captures, NEW to \in {"exited", "removed"},
         capSniffer' = [capSniffer EXCEPT ![i] = to],
         i <= capCaptures,
         to = "exited" => capSniffer[i] = "running",
         capLeftBehind' = capLeftBehind, capCaptures' = capCaptures,
         \A v \in Viewers : capCaller'[v].pc \in {"create", "launch", "publish"} =>
                              capCaller'[v] = capCaller[v]
  PROVE  C!Alone' /\ \A k \in C!Captures : k > capCaptures => capSniffer'[k] = "none"
<1> USE CaptureAssumption DEF C!CaptureSane, C!Inductive
<1>1. \A k \in C!Captures : capSniffer'[k] = IF k = i THEN to ELSE capSniffer[k]
  BY DEF C!TypeOK
<1>2. C!There' \subseteq C!There /\ C!Running' \subseteq C!Running
  BY <1>1 DEF C!There, C!Running
<1>3. C!Alone'
  BY <1>2 DEF C!Alone
<1>4. \A k \in C!Captures : k > capCaptures => capSniffer'[k] = "none"
  BY <1>1 DEF C!OfAStart, C!Captures, C!TypeOK
<1> QED  BY <1>3, <1>4

(* The helper is killed, which docker may refuse.                          *)
LEMMA CaptureKillKeeps ==
  ASSUME C!Inductive, NEW v \in Viewers, C!Kill(v)
  PROVE  C!Inductive'
<1> USE CaptureAssumption DEF C!CaptureSane, C!Inductive
<1> DEFINE i == capCaller[v].on
<1>1. /\ capCaller[v].pc = "kill" /\ C!Goto(v, "mark", i)
      /\ UNCHANGED <<capJob, capState, capStarting, capCaptures, capSaid, capReader, capDeaths,
           capLeftBehind>>
  BY DEF C!Kill
<1>2. i \in C!Captures
  BY <1>1 DEF C!TypeOK, C!OfAStart, C!Captures
<1>3. /\ capCaller' \in [Viewers -> [pc : C!Stages, on : {0} \cup C!Captures]]
      /\ capCaller'[v] = [pc |-> "mark", on |-> i]
      /\ \A u \in Viewers \ {v} : capCaller'[u] = capCaller[u]
  BY <1>1, <1>2, CaptureGoneTo DEF C!Stages
<1>4. \/ capSniffer' = capSniffer
      \/ capSniffer[i] = "running" /\ capSniffer' = [capSniffer EXCEPT ![i] = "exited"]
  BY <1>2 DEF C!Kill, C!TypeOK
<1>5. capDockerFaults' \in 0..MaxDockerFaults
  BY CaptureAssumption DEF C!Kill, C!DockerWorks, C!DockerFails, C!TypeOK, C!CaptureSane
<1>6. C!Alone' /\ \A k \in C!Captures : k > capCaptures => capSniffer'[k] = "none"
  <2> HIDE DEF i
  <2>1. CASE capSniffer' = capSniffer
    BY <1>1, <1>3, <2>1, CaptureApartKeeps DEF C!OfAStart
  <2>2. CASE capSniffer[i] = "running" /\ capSniffer' = [capSniffer EXCEPT ![i] = "exited"]
    <3>1. i <= capCaptures
      BY <1>2, <2>2 DEF C!OfAStart, C!Captures, C!TypeOK
    <3>2. \A u \in Viewers : capCaller'[u].pc \in {"create", "launch", "publish"} =>
                              capCaller'[u] = capCaller[u]
      BY <1>3
    <3> QED  BY <1>1, <1>2, <2>2, <3>1, <3>2, CaptureFewerKeep
  <2> QED  BY <1>4, <2>1, <2>2
<1>7. C!TypeOK'
  BY <1>1, <1>3, <1>4, <1>5 DEF C!TypeOK
<1>8. C!Reserved'
  BY <1>1, <1>3 DEF C!Reserved, C!Begins
<1>9. C!OfAStart'
  BY <1>1, <1>2, <1>3, <1>6 DEF C!OfAStart
<1>10. C!Followed'
  BY <1>1, <1>3 DEF C!Followed, C!Capturing
<1> QED  BY <1>6, <1>7, <1>8, <1>9, <1>10

(* What the helper does by itself.                                         *)
LEMMA CaptureHelperKeeps ==
  ASSUME C!Inductive, NEW i \in C!Captures, C!Ends(i)
  PROVE  C!Inductive'
<1> USE CaptureAssumption DEF C!CaptureSane, C!Inductive
<1>1. /\ capSniffer[i] = "running" /\ capSniffer' = [capSniffer EXCEPT ![i] = "exited"]
      /\ UNCHANGED <<capJob, capState, capStarting, capCaller, capCaptures, capReader,
           capDockerFaults, capDeaths, capLeftBehind>>
      /\ capSaid' \in [C!Captures -> {"nothing", "finished", "broken"}]
  BY DEF C!Ends, C!TypeOK
<1>2. i <= capCaptures
  BY <1>1 DEF C!OfAStart, C!Captures, C!TypeOK
<1>3. C!Alone' /\ \A k \in C!Captures : k > capCaptures => capSniffer'[k] = "none"
  BY <1>1, <1>2, CaptureFewerKeep
<1>4. C!TypeOK'
  BY <1>1 DEF C!TypeOK
<1>5. C!Reserved' /\ C!OfAStart' /\ C!Followed'
  BY <1>1, <1>3 DEF C!Reserved, C!Begins, C!OfAStart, C!Followed, C!Capturing
<1> QED  BY <1>3, <1>4, <1>5

(* A job that loses its reader is no longer shown as capturing.            *)
LEMMA CaptureReadKeeps ==
  ASSUME C!Inductive, NEW i \in C!Captures, C!TakeEnd(i) \/ C!StreamEnds(i)
  PROVE  C!Inductive'
<1> USE CaptureAssumption DEF C!CaptureSane, C!Inductive
<1>1. UNCHANGED <<capJob, capStarting, capCaller, capCaptures, capSniffer, capDeaths,
      capLeftBehind>>
  BY DEF C!TakeEnd, C!StreamEnds, C!helperVars
<1>2. /\ capState' \in [C!Captures -> {"none", "capturing", "done", "stopped", "error"}]
      /\ capSaid' \in [C!Captures -> {"nothing", "finished", "broken"}]
      /\ capReader' \in [C!Captures -> {"none", "reading", "removing", "gone"}]
      /\ capDockerFaults' \in 0..MaxDockerFaults
  <2>1. CASE C!TakeEnd(i)
    BY <2>1 DEF C!TakeEnd, C!EndState, C!TypeOK
  <2>2. CASE C!StreamEnds(i)
    BY <2>2, CaptureAssumption
       DEF C!StreamEnds, C!Lost, C!helperVars, C!TypeOK, C!DockerWorks, C!DockerFails,
       C!CaptureSane
  <2> QED  BY <2>1, <2>2
<1>3. C!TypeOK'
  BY <1>1, <1>2 DEF C!TypeOK
<1>4. C!Reserved' /\ C!OfAStart'
  <2>1. \A k \in C!Captures : k > capCaptures => capReader'[k] = "none"
    BY DEF C!TakeEnd, C!StreamEnds, C!OfAStart, C!TypeOK, C!Captures
  <2> QED  BY <1>1, <2>1 DEF C!Reserved, C!Begins, C!OfAStart
<1>5. C!Alone'
  BY <1>1, CaptureApartKeeps
<1>6. C!Followed'
  <2>1. CASE C!TakeEnd(i)
    <3>1. capState' = [capState EXCEPT ![i] = IF i = capJob THEN C!EndState(capSaid[i]) ELSE @]
          /\ capReader' = capReader
      BY <2>1 DEF C!TakeEnd
    <3>2. C!Capturing(capJob)' => C!Capturing(capJob)
      BY <1>1, <3>1 DEF C!Capturing, C!EndState, C!TypeOK, C!Captures
    <3> QED  BY <1>1, <3>1, <3>2 DEF C!Followed
  <2>2. CASE C!StreamEnds(i)
    <3>1. /\ capState' = [capState EXCEPT ![i] = C!Lost(i)]
          /\ capReader' = [capReader EXCEPT ![i] = "removing"]
      BY <2>2 DEF C!StreamEnds
    <3>2. C!Capturing(capJob)' => C!Capturing(capJob) /\ capJob # i /\ capJob \in C!Captures
      BY <1>1, <3>1 DEF C!Capturing, C!Lost, C!TypeOK, C!Captures
    <3>3. capJob # i /\ capJob \in C!Captures => capReader'[capJob] = capReader[capJob]
      BY <3>1 DEF C!TypeOK
    <3> QED  BY <1>1, <3>2, <3>3 DEF C!Followed
  <2> QED  BY <2>1, <2>2
<1> QED  BY <1>3, <1>4, <1>5, <1>6

(* The helper is removed by the reader.                                    *)
LEMMA CaptureRemoveKeeps ==
  ASSUME C!Inductive, NEW i \in C!Captures, C!RemoveHelper(i)
  PROVE  C!Inductive'
<1> USE CaptureAssumption DEF C!CaptureSane, C!Inductive
<1>1. /\ capReader[i] = "removing" /\ capReader' = [capReader EXCEPT ![i] = "gone"]
      /\ UNCHANGED <<capJob, capState, capStarting, capCaller, capCaptures, capSaid, capDeaths>>
  BY DEF C!RemoveHelper
<1>2. /\ \/ capSniffer' = [capSniffer EXCEPT ![i] = "removed"] /\ capLeftBehind' = capLeftBehind
         \/ capSniffer' = capSniffer /\ capLeftBehind' = TRUE
      /\ capDockerFaults' \in 0..MaxDockerFaults
  BY DEF C!RemoveHelper, C!DockerWorks, C!DockerFails, C!TypeOK
<1>3. C!TypeOK'
  BY <1>1, <1>2 DEF C!TypeOK
<1>4. C!Reserved'
  BY <1>1 DEF C!Reserved, C!Begins
<1>5. C!Alone' /\ C!OfAStart'
  <2>1. CASE capSniffer' = capSniffer /\ capLeftBehind' = TRUE
    <3>1. \A k \in C!Captures : k # i => capReader'[k] = capReader[k]
      BY <1>1 DEF C!TypeOK
    <3> QED  BY <1>1, <2>1, <3>1 DEF C!Alone, C!OfAStart
  <2>2. CASE capSniffer' = [capSniffer EXCEPT ![i] = "removed"] /\ capLeftBehind' = capLeftBehind
    <3>1. i <= capCaptures
      BY <1>1 DEF C!OfAStart, C!Captures, C!TypeOK
    <3>2. C!Alone' /\ \A k \in C!Captures : k > capCaptures => capSniffer'[k] = "none"
      BY <1>1, <2>2, <3>1, CaptureFewerKeep
    <3>3. \A k \in C!Captures : k # i => capReader'[k] = capReader[k]
      BY <1>1 DEF C!TypeOK
    <3> QED  BY <1>1, <3>1, <3>2, <3>3 DEF C!OfAStart
  <2> QED  BY <1>2, <2>1, <2>2
<1>6. C!Followed'
  BY <1>1 DEF C!Followed, C!Capturing, C!TypeOK, C!Captures
<1> QED  BY <1>3, <1>4, <1>5, <1>6

(* The agent restarts: the helper is left behind until it is removed.      *)
LEMMA CaptureRestartKeeps ==
  ASSUME C!Inductive, C!AgentRestart
  PROVE  C!Inductive'
<1> USE CaptureAssumption DEF C!CaptureSane, C!Inductive
<1>1. /\ capJob' = 0 /\ capStarting' = FALSE /\ capCaller' = [v \in Viewers |-> C!Idle]
      /\ capReader' = [i \in C!Captures |-> IF capReader[i] = "none" THEN "none" ELSE "gone"]
      /\ capDeaths' \in 0..MaxDeaths
      /\ UNCHANGED <<capState, capCaptures, capSniffer, capSaid, capDockerFaults, capLeftBehind>>
  BY DEF C!AgentRestart, C!helperVars, C!TypeOK
<1>2. \A v \in Viewers : capCaller'[v].pc = "idle"
  BY <1>1 DEF C!Idle
<1>3. capCaller' \in [Viewers -> [pc : C!Stages, on : {0} \cup C!Captures]]
  BY <1>1 DEF C!Idle, C!Stages, C!TypeOK
<1>4. capReader' \in [C!Captures -> {"none", "reading", "removing", "gone"}]
      /\ capJob' \in {0} \cup C!Captures
  BY <1>1 DEF C!TypeOK
<1>5. C!TypeOK'
  BY <1>1, <1>3, <1>4 DEF C!TypeOK
<1>6. C!Alone'
  BY <1>1, <1>2, CaptureApartKeeps
<1>7. C!Reserved' /\ C!OfAStart' /\ C!Followed'
  BY <1>1, <1>2 DEF C!Reserved, C!Begins, C!OfAStart, C!Followed, C!Capturing
<1> QED  BY <1>5, <1>6, <1>7

(* At the start there is no helper and nobody asks for one.                *)
LEMMA CaptureInit == C!Init => C!Inductive
<1> SUFFICES ASSUME C!Init PROVE C!Inductive
  OBVIOUS
<1> USE CaptureAssumption DEF C!CaptureSane, C!Init
<1>1. capCaller \in [Viewers -> [pc : C!Stages, on : {0} \cup C!Captures]]
  BY DEF C!Idle, C!Stages
<1>2. C!TypeOK
  <2>1. capCaptures \in 0..MaxCaptures
    OBVIOUS
  <2>2. capDockerFaults \in 0..MaxDockerFaults /\ capDeaths \in 0..MaxDeaths
    OBVIOUS
  <2> QED  BY <1>1, <2>1, <2>2 DEF C!TypeOK
<1>3. \A v \in Viewers : capCaller[v].pc = "idle"
  BY DEF C!Idle
<1>4. C!There = {} /\ C!Running = {}
  BY DEF C!There, C!Running
<1>5. C!Reserved /\ C!OfAStart /\ C!Alone /\ C!Followed
  BY <1>3, <1>4 DEF C!Reserved, C!Begins, C!OfAStart, C!Alone, C!Followed, C!Capturing
<1> QED  BY <1>2, <1>5 DEF C!Inductive

(* No step breaks it.                                                      *)
LEMMA CaptureStep == C!Inductive /\ [C!Next]_C!captureVars => C!Inductive'
<1> SUFFICES ASSUME C!Inductive, [C!Next]_C!captureVars PROVE C!Inductive'
  OBVIOUS
<1>1. CASE C!Next
  BY <1>1, CaptureStartKeeps, CaptureValidateKeeps, CaptureClearKeeps, CaptureCreateKeeps,
           CaptureLaunchKeeps, CapturePublishKeeps,
     CaptureFollowKeeps, CaptureStopKeeps, CaptureKillKeeps, CaptureHelperKeeps,
     CaptureReadKeeps, CaptureRemoveKeeps, CaptureRestartKeeps
     DEF C!Next, C!Starts, C!Stops, C!Reads
<1>2. CASE UNCHANGED C!captureVars
  BY <1>2 DEF C!captureVars, C!Inductive, C!TypeOK, C!Reserved, C!Begins, C!OfAStart, C!Alone,
            C!Running, C!There,
              C!Followed, C!Capturing
<1> QED  BY <1>1, <1>2

(* The component counts as this module does.                               *)
LEMMA CaptureFinite == \A set : C!IsFiniteSet(set) = IsFiniteSet(set)
  BY DEF IsFiniteSet, C!IsFiniteSet

(* ... and its sets have as many elements.                                 *)
LEMMA CaptureCount == \A set : C!Cardinality(set) = Cardinality(set)
  BY CaptureFinite DEF Cardinality, C!Cardinality

(* At most one helper sniffs, unless one was left behind.                  *)
LEMMA CaptureHolds == C!Inductive => C!OneSniffer
<1> SUFFICES ASSUME C!Inductive, ~capLeftBehind PROVE ~(Cardinality(C!Running) > 1)
  BY CaptureCount DEF C!OneSniffer, C!Inductive
<1>1. \A i, j \in C!Running : i = j
  BY DEF C!Inductive, C!Alone
<1>2. CASE C!Running = {}
  BY <1>2, FS_EmptySet
<1>3. CASE C!Running # {}
  <2>1. PICK i \in C!Running : TRUE
    BY <1>3
  <2>2. C!Running = {i} /\ Cardinality({i}) = 1
    BY <1>1, <2>1, FS_Singleton
  <2> QED  BY <2>2
<1> QED  BY <1>2, <1>3

(* ... and so it is as long as this component is the one at work.          *)
LEMMA CaptureRuns == Spec => [](which = "capture" => C!Inductive)
<1>1. Init => (which = "capture" => C!Inductive)
  BY CaptureInit DEF Init
<1>2. (which = "capture" => C!Inductive) /\ [Next]_vars => (which = "capture" => C!Inductive)'
  <2> SUFFICES ASSUME which = "capture" => C!Inductive, [Next]_vars, which' = "capture"
               PROVE  C!Inductive'
    OBVIOUS
  <2>1. which = "capture" /\ (C!Next \/ UNCHANGED C!captureVars)
    BY OneAtWork DEF vars, C!captureVars
  <2> QED  BY <2>1, CaptureStep
<1> QED  BY <1>1, <1>2, PTL DEF Spec

-----------------------------------------------------------------------------
(* The sweeps of the network (lan_scan.py).                                *)
lanNewest == v1
lanSweep == v2
lanSweeps == v3
lanAsker == v4
lanTied == v5
USE DEF lanNewest, lanSweep, lanSweeps, lanAsker, lanTied

(* A sweep's list of devices stays one after an upsert.                    *)
LEMMA LanIsVia ==
  ASSUME NEW found \in SUBSET Hosts, NEW via \in [found -> N!Ways]
  PROVE  via \in N!Vias
  BY DEF N!Vias

(* ... and says how each of its devices was found.                         *)
LEMMA LanViaIs ==
  ASSUME NEW via \in N!Vias
  PROVE  /\ DOMAIN via \in SUBSET Hosts
         /\ via \in [DOMAIN via -> N!Ways]
  BY DEF N!Vias

(* An upsert adds the devices it is told of and drops none.                *)
LEMMA LanUpsertAdds ==
  ASSUME NEW via \in N!Vias, NEW more \in SUBSET Hosts, NEW way \in N!Ways
  PROVE  /\ N!Found(via, more, way) \in N!Vias
         /\ DOMAIN N!Found(via, more, way) = DOMAIN via \cup more
<1>1. N!Found(via, more, way) \in [DOMAIN via \cup more -> N!Ways]
  BY LanViaIs DEF N!Found
<1>2. DOMAIN via \cup more \in SUBSET Hosts
  BY LanViaIs
<1>3. N!Found(via, more, way) \in N!Vias
  BY <1>1, <1>2, LanIsVia
<1> QED  BY <1>1, <1>3 DEF N!Found

(* The sweep adds the host itself, whatever else it has found.             *)
LEMMA LanOwnAdds ==
  ASSUME NEW via \in N!Vias
  PROVE  /\ N!WithOwn(via) \in N!Vias
         /\ DOMAIN N!WithOwn(via) = DOMAIN via \cup {Own}
         /\ \A h \in DOMAIN via \ {Own} : N!WithOwn(via)[h] = via[h]
<1>1. N!WithOwn(via) \in [DOMAIN via \cup {Own} -> N!Ways]
  BY LanViaIs DEF N!WithOwn, N!Ways
<1>2. DOMAIN via \cup {Own} \in SUBSET Hosts
  BY LanViaIs, NetworkAssumption DEF N!NetworkSane
<1>3. N!WithOwn(via) \in N!Vias
  BY <1>1, <1>2, LanIsVia
<1> QED  BY <1>1, <1>3 DEF N!WithOwn

(* A place no sweep has used yet.                                          *)
LEMMA LanNoSweepIsJob == N!NoSweep \in N!Jobs
<1>1. [h \in {} |-> "tcp"] \in N!Vias
  BY LanIsVia, {} \in SUBSET Hosts, [h \in {} |-> "tcp"] \in [{} -> N!Ways]
<1> QED  BY <1>1 DEF N!NoSweep, N!Jobs

(* The parts of a job.                                                     *)
LEMMA LanJobHasType ==
  ASSUME N!TypeOK, NEW i \in N!Sweeps
  PROVE  /\ lanSweep[i] \in N!Jobs
         /\ lanSweep[i].via \in N!Vias
         /\ DOMAIN lanSweep[i].via \in SUBSET Hosts
  BY LanViaIs DEF N!TypeOK, N!Jobs

(* A job that changes as its phase says leaves the rest of the invariant.  *)
LEMMA LanChangeKeeps ==
  ASSUME N!Inductive, NEW i \in N!Sweeps, NEW j \in N!Jobs, N!Busy(i), N!Change(i, j),
         UNCHANGED <<lanNewest, lanSweeps, lanAsker, lanTied>>,
         DOMAIN j.via = N!FoundSoFar(j), j.asked \subseteq DOMAIN j.via,
         \A h \in DOMAIN j.via : h \in Answers \ {Own} => j.via[h] = "tcp",
         j.state = "done" => j.phase = "done"
  PROVE  N!Inductive'
<1>1. lanSweep' = [lanSweep EXCEPT ![i] = j] /\ lanSweep \in [N!Sweeps -> N!Jobs]
  BY DEF N!Change, N!Inductive, N!TypeOK
<1>2. N!TypeOK'
  BY <1>1 DEF N!Inductive, N!TypeOK
<1>3. i <= lanSweeps
  BY DEF N!Inductive, N!TypeOK, N!JobsTrue, N!Busy, N!NoSweep, N!Sweeps
<1>4. \A k \in N!Sweeps : lanSweep'[k] = IF k = i THEN j ELSE lanSweep[k]
  BY <1>1
<1>5. N!JobsTrue'
  <2> SUFFICES ASSUME NEW k \in N!Sweeps
               PROVE  LET job == lanSweep'[k] IN
                        /\ k > lanSweeps' => job = N!NoSweep
                        /\ DOMAIN job.via = N!FoundSoFar(job)
                        /\ job.asked \subseteq DOMAIN job.via
                        /\ \A h \in DOMAIN job.via : h \in Answers \ {Own} => job.via[h] = "tcp"
                        /\ job.state = "done" => job.phase = "done"
    BY DEF N!JobsTrue, N!FoundSoFar
  <2>1. CASE k = i
    BY <1>3, <1>4, <2>1 DEF N!Sweeps, N!Inductive, N!TypeOK
  <2>2. CASE k # i
    BY <1>4, <2>2 DEF N!Inductive, N!JobsTrue
  <2> QED  BY <2>1, <2>2
<1>6. \A k \in N!Sweeps : N!Busy(k)' => N!Busy(k)
  BY <1>4 DEF N!Busy
<1>7. N!Apart'
  BY <1>6 DEF N!Inductive, N!Apart
<1> QED  BY <1>2, <1>5, <1>7 DEF N!Inductive

(* Each step of the thread of a sweep finds what its phase says            *)
(* (lan_scan.py).                                                          *)
LEMMA LanSweepStepKeeps ==
  ASSUME N!Inductive, NEW i \in N!Sweeps, N!SweepStep(i)
  PROVE  N!Inductive'
<1> DEFINE job == lanSweep[i]
<1> USE NetworkAssumption DEF N!NetworkSane, N!InPhase
<1>1. /\ job \in N!Jobs /\ DOMAIN job.via \in SUBSET Hosts /\ job.via \in N!Vias
      /\ DOMAIN job.via = N!FoundSoFar(job) /\ job.asked \subseteq DOMAIN job.via
      /\ \A h \in DOMAIN job.via : h \in Answers \ {Own} => job.via[h] = "tcp"
  BY LanJobHasType DEF N!Inductive, N!JobsTrue
<1> HIDE DEF job
<1>2. ASSUME NEW h \in Hosts, N!Probe(i, h) PROVE N!Inductive'
  <2> DEFINE via == IF h \in Answers THEN N!Found(job.via, {h}, "tcp") ELSE job.via
             next == [job EXCEPT !.scanned = @ \cup {h}, !.via = via]
  <2>1. /\ via \in N!Vias /\ DOMAIN via = DOMAIN job.via \cup ({h} \cap Answers)
        /\ \A g \in DOMAIN via : g \in Answers \ {Own} => via[g] = "tcp"
    <3>1. CASE h \in Answers
      <4>1. "tcp" \in N!Ways /\ {h} \in SUBSET Hosts
        BY DEF N!Ways
      <4>2. PICK found : found = N!Found(job.via, {h}, "tcp")
        OBVIOUS
      <4>3. /\ found \in N!Vias /\ DOMAIN found = DOMAIN job.via \cup {h}
            /\ \A g \in DOMAIN job.via : found[g] = job.via[g]
            /\ \A g \in {h} \ DOMAIN job.via : found[g] = "tcp"
        <5>1. found \in N!Vias /\ DOMAIN found = DOMAIN job.via \cup {h}
          <6> HIDE DEF via
          <6> QED  BY <1>1, <4>1, <4>2, LanUpsertAdds
        <5> QED  BY <4>2, <5>1 DEF N!Found
      <4> QED  BY <1>1, <3>1, <4>2, <4>3
    <3>2. CASE h \notin Answers
      BY <1>1, <3>2
    <3> QED  BY <3>1, <3>2
  <2>2. DOMAIN via = N!FoundSoFar(next)
    BY <1>1, <1>2, <2>1 DEF N!Probe, N!FoundSoFar, N!Jobs, job
  <2>3. next \in N!Jobs
    BY <1>1, <2>1 DEF N!Jobs
  <2>4. N!Change(i, next) /\ N!Busy(i) /\ UNCHANGED <<lanNewest, lanSweeps, lanAsker, lanTied>>
    BY <1>2 DEF N!Probe, job
  <2>5. next.asked \subseteq DOMAIN next.via /\ next.state # "done" /\ next.via = via
    BY <1>1, <2>1, <2>4 DEF N!Jobs, N!Busy, job
  <2> HIDE DEF via, next
  <2> QED  BY <2>1, <2>2, <2>3, <2>4, <2>5, LanChangeKeeps
<1>3. ASSUME N!Swept(i) PROVE N!Inductive'
  <2> DEFINE next == [job EXCEPT !.phase = "arp"]
  <2>1. next \in N!Jobs /\ next.asked \subseteq DOMAIN next.via /\ next.via = job.via
    BY <1>1 DEF N!Jobs
  <2>2. DOMAIN next.via = N!FoundSoFar(next)
    BY <1>1, <1>3, <2>1 DEF N!Swept, N!FoundSoFar, N!Jobs, job
  <2>3. N!Change(i, next) /\ N!Busy(i)
        /\ UNCHANGED <<lanNewest, lanSweeps, lanAsker, lanTied>> /\ next.state # "done"
    BY <1>1, <1>3 DEF N!Swept, job, N!Busy, N!Jobs
  <2> QED  BY <1>1, <2>1, <2>2, <2>3, LanChangeKeeps
<1>4. ASSUME N!ReadNeighbours(i) PROVE N!Inductive'
  <2> DEFINE others == N!Found(job.via, Neighbours, "arp")
             via == N!WithOwn(others)
             next == [job EXCEPT !.phase = "ports", !.macs = Neighbours, !.via = via]
  <2>1. DOMAIN job.via = Answers
    BY <1>1, <1>4 DEF N!ReadNeighbours, N!FoundSoFar, job
  <2>2. /\ others \in N!Vias /\ DOMAIN others = Answers \cup Neighbours
        /\ \A h \in Answers : others[h] = job.via[h]
    <3>1. "arp" \in N!Ways /\ Neighbours \in SUBSET Hosts
      BY DEF N!Ways
    <3> HIDE DEF via, next
    <3>2. job.via \in N!Vias
      BY <1>1
    <3>3. /\ others \in N!Vias /\ DOMAIN others = DOMAIN job.via \cup Neighbours
          /\ \A h \in DOMAIN job.via : others[h] = job.via[h]
      <4>1. others \in N!Vias /\ DOMAIN others = DOMAIN job.via \cup Neighbours
        BY <3>1, <3>2, LanUpsertAdds
      <4> QED  BY <4>1 DEF N!Found
    <3> QED  BY <2>1, <3>3
  <2>3. /\ via \in N!Vias /\ DOMAIN via = Answers \cup Neighbours \cup {Own}
        /\ \A h \in Answers \ {Own} : via[h] = job.via[h]
    <3> HIDE DEF others
    <3> QED  BY <2>2, LanOwnAdds
  <2> HIDE DEF via
  <2>4. next \in N!Jobs /\ next.via = via /\ next.asked \subseteq DOMAIN next.via
    BY <1>1, <2>1, <2>3 DEF N!Jobs
  <2>5. DOMAIN next.via = N!FoundSoFar(next)
    BY <1>1, <2>3, <2>4 DEF N!FoundSoFar, N!Jobs
  <2>6. N!Change(i, next) /\ N!Busy(i)
        /\ UNCHANGED <<lanNewest, lanSweeps, lanAsker, lanTied>> /\ next.state # "done"
    BY <1>1, <1>4 DEF N!ReadNeighbours, job, N!Busy, N!Jobs, via
  <2>7. \A h \in DOMAIN next.via : h \in Answers \ {Own} => next.via[h] = "tcp"
    BY <1>1, <2>1, <2>3, <2>4
  <2> HIDE DEF next
  <2> QED  BY <2>4, <2>5, <2>6, <2>7, LanChangeKeeps
<1>5. ASSUME NEW h \in Hosts, N!AskPorts(i, h) PROVE N!Inductive'
  <2> DEFINE next == [job EXCEPT !.asked = @ \cup {h}]
  <2>1. next \in N!Jobs /\ next.via = job.via /\ next.asked \subseteq DOMAIN next.via
    BY <1>1, <1>5 DEF N!Jobs, N!AskPorts, job
  <2>2. DOMAIN next.via = N!FoundSoFar(next)
    BY <1>1, <2>1 DEF N!FoundSoFar, N!Jobs
  <2>3. N!Change(i, next) /\ N!Busy(i)
        /\ UNCHANGED <<lanNewest, lanSweeps, lanAsker, lanTied>> /\ next.state # "done"
    BY <1>1, <1>5 DEF N!AskPorts, job, N!Busy, N!Jobs
  <2> QED  BY <1>1, <2>1, <2>2, <2>3, LanChangeKeeps
<1>6. ASSUME N!AllAsked(i) PROVE N!Inductive'
  <2> DEFINE next == [job EXCEPT !.state = "done", !.phase = "done"]
  <2>1. next \in N!Jobs /\ next.via = job.via /\ next.asked = job.asked /\ next.phase = "done"
    BY <1>1 DEF N!Jobs
  <2>2. DOMAIN next.via = N!FoundSoFar(next)
    BY <1>1, <1>6, <2>1 DEF N!FoundSoFar, N!Jobs, N!AllAsked, job
  <2>3. N!Change(i, next) /\ N!Busy(i) /\ UNCHANGED <<lanNewest, lanSweeps, lanAsker, lanTied>>
    BY <1>6 DEF N!AllAsked, job
  <2> QED  BY <1>1, <2>1, <2>2, <2>3, LanChangeKeeps
<1>7. ASSUME N!SweepFails(i) PROVE N!Inductive'
  <2> DEFINE next == [job EXCEPT !.state = "error"]
  <2>1. next \in N!Jobs /\ next.via = job.via /\ next.asked = job.asked /\ next.state # "done"
    BY <1>1 DEF N!Jobs
  <2>2. DOMAIN next.via = N!FoundSoFar(next)
    BY <1>1, <2>1 DEF N!FoundSoFar, N!Jobs
  <2>3. N!Change(i, next) /\ N!Busy(i) /\ UNCHANGED <<lanNewest, lanSweeps, lanAsker, lanTied>>
    BY <1>7 DEF N!SweepFails, job
  <2> QED  BY <1>1, <2>1, <2>2, <2>3, LanChangeKeeps
<1>8. ASSUME N!SweepHangs(i) PROVE N!Inductive'
  <2> DEFINE next == [job EXCEPT !.phase = "hung"]
  <2>1. next \in N!Jobs /\ next.asked \subseteq DOMAIN next.via /\ next.via = job.via
    BY <1>1 DEF N!Jobs
  <2>2. DOMAIN next.via = N!FoundSoFar(next)
    BY <1>1, <1>8, <2>1 DEF N!SweepHangs, N!FoundSoFar, N!Jobs, job
  <2>3. N!Change(i, next) /\ N!Busy(i)
        /\ UNCHANGED <<lanNewest, lanSweeps, lanAsker, lanTied>> /\ next.state # "done"
    BY <1>1, <1>8 DEF N!SweepHangs, job, N!Busy, N!Jobs
  <2> QED  BY <1>1, <2>1, <2>2, <2>3, LanChangeKeeps
<1> QED  BY <1>2, <1>3, <1>4, <1>5, <1>6, <1>7, <1>8 DEF N!SweepStep

(* So do the requests: only one of them gets past the lock.                *)
LEMMA LanAskerKeeps ==
  ASSUME N!Inductive, NEW a \in Askers, N!Ask(a) \/ N!ReadFails(a) \/ N!PublishJob(a)
  PROVE  N!Inductive'
<1> USE NetworkAssumption DEF N!NetworkSane
<1>0. lanAsker \in [Askers -> {"idle", "reading"}] /\ lanTied \in BOOLEAN
  BY DEF N!Inductive, N!TypeOK
<1>1. CASE N!Ask(a)
  <2>1. N!TypeOK' /\ N!JobsTrue'
    BY <1>1 DEF N!Ask, N!Inductive, N!TypeOK, N!JobsTrue, N!FoundSoFar
  <2>2. \A b \in Askers : lanAsker'[b] = IF b = a THEN "reading" ELSE lanAsker[b]
    BY <1>0, <1>1 DEF N!Ask
  <2>3. \A i \in N!Sweeps : N!Busy(i)' = N!Busy(i)
    BY <1>1 DEF N!Ask, N!Busy
  <2>4. ASSUME ~lanTied' PROVE \A i \in N!Sweeps : ~N!Busy(i)
    <3>1. ~lanTied /\ \A i \in N!Sweeps : N!Busy(i) => i = lanNewest
      BY <1>1, <2>4 DEF N!Ask, N!Inductive, N!Apart
    <3> QED  BY <1>1, <3>1 DEF N!Ask, N!MaySweep
  <2>5. ASSUME ~lanTied' PROVE \A b \in Askers \ {a} : lanAsker[b] = "idle"
    BY <1>1, <2>5 DEF N!Ask
  <2>6. N!Apart'
    BY <2>2, <2>3, <2>4, <2>5 DEF N!Apart
  <2> QED  BY <2>1, <2>6 DEF N!Inductive
<1>2. CASE N!ReadFails(a)
  <2>1. N!TypeOK' /\ N!JobsTrue'
    BY <1>2 DEF N!ReadFails, N!Inductive, N!TypeOK, N!JobsTrue, N!FoundSoFar
  <2>2. \A b \in Askers : lanAsker'[b] = IF b = a THEN "idle" ELSE lanAsker[b]
    BY <1>0, <1>2 DEF N!ReadFails
  <2>3. N!Apart'
    BY <1>2, <2>2 DEF N!ReadFails, N!Inductive, N!Apart, N!Busy
  <2> QED  BY <2>1, <2>3 DEF N!Inductive
<1>3. CASE N!PublishJob(a)
  <2> DEFINE new == lanSweeps + 1
  <2>1. new \in N!Sweeps /\ lanSweeps' = new /\ lanNewest' = new /\ lanSweep[new] = N!NoSweep
    BY <1>3 DEF N!PublishJob, N!Inductive, N!TypeOK, N!JobsTrue, N!Sweeps
  <2>2. lanSweep' = [lanSweep EXCEPT ![new].state = "scanning"]
        /\ lanSweep \in [N!Sweeps -> N!Jobs]
        /\ lanTied' = lanTied /\ lanAsker' = [lanAsker EXCEPT ![a] = "idle"]
    BY <1>3 DEF N!PublishJob, N!Inductive, N!TypeOK
  <2>3. lanSweep'[new] = [N!NoSweep EXCEPT !.state = "scanning"]
        /\ lanSweep' \in [N!Sweeps -> N!Jobs]
        /\ \A i \in N!Sweeps \ {new} : lanSweep'[i] = lanSweep[i]
    <3>1. [N!NoSweep EXCEPT !.state = "scanning"] \in N!Jobs
      BY LanNoSweepIsJob DEF N!Jobs
    <3> QED  BY <2>1, <2>2, <3>1
  <2>4. N!TypeOK'
    BY <1>0, <2>1, <2>2, <2>3 DEF N!Inductive, N!TypeOK, N!Sweeps
  <2>5. N!JobsTrue'
    <3> SUFFICES ASSUME NEW i \in N!Sweeps
                 PROVE  LET j == lanSweep'[i] IN
                          /\ i > lanSweeps' => j = N!NoSweep
                          /\ DOMAIN j.via = N!FoundSoFar(j)
                          /\ j.asked \subseteq DOMAIN j.via
                          /\ \A h \in DOMAIN j.via : h \in Answers \ {Own} => j.via[h] = "tcp"
                          /\ j.state = "done" => j.phase = "done"
      BY DEF N!JobsTrue, N!FoundSoFar
    <3>1. CASE i = new
      <4>1. /\ lanSweep'[i].via = [h \in {} |-> "tcp"] /\ lanSweep'[i].asked = {}
            /\ lanSweep'[i].state = "scanning" /\ N!FoundSoFar(lanSweep'[i]) = {}
        BY <2>3, <3>1 DEF N!NoSweep, N!FoundSoFar
      <4> QED  BY <2>1, <3>1, <4>1 DEF N!Sweeps
    <3>2. CASE i # new
      BY <2>1, <2>3, <3>2 DEF N!Inductive, N!JobsTrue, N!TypeOK, N!Sweeps
    <3> QED  BY <3>1, <3>2
  <2>6. N!Apart'
    <3>1. SUFFICES ASSUME ~lanTied PROVE N!Apart'
      BY <2>2 DEF N!Apart
    <3>2. \A b \in Askers : lanAsker'[b] = "idle"
      BY <1>0, <1>3, <2>2, <3>1 DEF N!PublishJob, N!Inductive, N!Apart
    <3>3. \A i \in N!Sweeps : N!Busy(i)' => i = new
      BY <1>3, <2>3, <3>1 DEF N!PublishJob, N!Inductive, N!Apart, N!Busy
    <3> QED  BY <2>1, <3>2, <3>3 DEF N!Apart
  <2> QED  BY <2>4, <2>5, <2>6 DEF N!Inductive
<1> QED  BY <1>1, <1>2, <1>3

(* At the start nobody has asked for a sweep.                              *)
LEMMA LanInit == N!Init => N!Inductive
<1> SUFFICES ASSUME N!Init PROVE N!Inductive
  OBVIOUS
<1> USE NetworkAssumption DEF N!NetworkSane
<1>2. N!TypeOK
  <2>1. lanNewest \in 0..lanSweeps /\ lanSweeps \in 0..MaxSweeps
    BY DEF N!Init
  <2>2. lanSweep \in [N!Sweeps -> N!Jobs]
    BY LanNoSweepIsJob DEF N!Init
  <2> QED  BY <2>1, <2>2 DEF N!Init, N!TypeOK
<1>3. N!JobsTrue
  BY DEF N!Init, N!JobsTrue, N!FoundSoFar, N!NoSweep
<1>4. N!Apart
  BY DEF N!Init, N!Apart, N!Busy, N!NoSweep
<1> QED  BY <1>2, <1>3, <1>4 DEF N!Inductive

(* No step breaks it.                                                      *)
LEMMA LanStep == N!Inductive /\ [N!Next]_N!lanVars => N!Inductive'
<1> SUFFICES ASSUME N!Inductive, [N!Next]_N!lanVars PROVE N!Inductive'
  OBVIOUS
<1>1. CASE N!Next
  BY <1>1, LanAskerKeeps, LanSweepStepKeeps DEF N!Next
<1>2. CASE UNCHANGED N!lanVars
  BY <1>2 DEF N!lanVars, N!Inductive, N!TypeOK, N!Apart, N!JobsTrue, N!Busy, N!FoundSoFar
<1> QED  BY <1>1, <1>2

(* At most one sweep is at work.                                           *)
LEMMA LanHolds == N!Inductive => N!OneSweep
<1> SUFFICES ASSUME N!Inductive PROVE N!OneSweep
  OBVIOUS
<1>1. \A i \in N!Sweeps : N!Busy(i) => i = lanNewest \/ lanTied
  BY DEF N!Inductive, N!Apart
<1>2. ASSUME NEW i \in N!Sweeps, lanSweep[i].state = "done"
      PROVE  /\ DOMAIN lanSweep[i].via = Answers \cup Neighbours \cup {Own}
             /\ \A h \in Hosts : h \in Answers \ {Own} => lanSweep[i].via[h] = "tcp"
  BY <1>2 DEF N!Inductive, N!JobsTrue, N!FoundSoFar
<1> QED  BY <1>1, <1>2 DEF N!OneSweep

(* ... and so it is as long as this component is the one at work.          *)
LEMMA LanRuns == Spec => [](which = "lan" => N!Inductive)
<1>1. Init => (which = "lan" => N!Inductive)
  BY LanInit DEF Init
<1>2. (which = "lan" => N!Inductive) /\ [Next]_vars => (which = "lan" => N!Inductive)'
  <2> SUFFICES ASSUME which = "lan" => N!Inductive, [Next]_vars, which' = "lan"
               PROVE  N!Inductive'
    OBVIOUS
  <2>1. which = "lan" /\ (N!Next \/ UNCHANGED N!lanVars)
    BY OneAtWork DEF vars, N!lanVars
  <2> QED  BY <2>1, LanStep
<1> QED  BY <1>1, <1>2, PTL DEF Spec

-----------------------------------------------------------------------------
(* What a setting is worth changes only by a request that named it, also   *)
(* across failures and restarts of the agent (config.update, _load).       *)
THEOREM SavedSettingsStay == Spec => SettingsKept
<1>1. (which = "settings" => S!Inductive) /\ [Next]_vars =>
       [which = "settings" => S!SettingKept]_vars
  <2> SUFFICES ASSUME S!Inductive, Next, ~UNCHANGED vars, which = "settings" PROVE S!SettingKept
    OBVIOUS
  <2>1. S!Next
    BY OneAtWork
  <2> QED  BY <2>1, SettingsStep
<1> QED  BY <1>1, SettingsRuns, PTL DEF Spec, SettingsKept

(* A request that is reported as done has left its files as it was to, if  *)
(* nobody else was at them since its checks; one that fails once its text  *)
(* was sent has that text still; and a text that was there at the checks   *)
(* goes only by a request that was to replace or remove it.  What comes    *)
(* between the checks and the helper (files.py:434 and 454) is not kept by *)
(* anything, and not by this (files.write_file, _PLACE, rename, copy).     *)
THEOREM TextsStay == Spec => TextsKept
<1>1. (which = "files" => H!Inductive) /\ [Next]_vars =>
       [which = "files" => H!TextKept]_vars
  <2> SUFFICES ASSUME H!Inductive, Next, ~UNCHANGED vars, which = "files" PROVE H!TextKept
    OBVIOUS
  <2>1. H!Next
    BY OneAtWork
  <2> QED  BY <2>1, FilesStep
<1> QED  BY <1>1, FilesRuns, PTL DEF Spec, TextsKept

(* An alert leaves the list of findings only when the list is full of      *)
(* findings that matter as much (netwatch._evict).                         *)
THEOREM AlertsStay == Spec => AlertsKept
<1>1. (which = "detector" => W!Inductive) /\ [Next]_vars =>
       [which = "detector" => W!AlertKept]_vars
  <2> SUFFICES ASSUME W!Inductive, Next, ~UNCHANGED vars, which = "detector" PROVE W!AlertKept
    OBVIOUS
  <2>1. W!Next
    BY OneAtWork
  <2> QED  BY <2>1, DetectorStep
<1> QED  BY <1>1, DetectorRuns, PTL DEF Spec, AlertsKept

(* A project that no job is at work on runs its file and its tag, unless   *)
(* it has an excuse; a roll-back that nothing disturbed has brought back   *)
(* the file, or the image the tag had when the job came to the project: what*)
(* the project ran before, unless an update of another project on the tag, *)
(* or whatever else excuses it, had come between; and a stack that the     *)
(* dashboard sent runs as it was sent (updates.py, compose_edit.py,        *)
(* stack_deploy.py).                                                       *)
THEOREM WhatIsWrittenRuns == Spec => []QuietIsApplied
<1>1. /\ which = "projects" => P!Inductive
      /\ which = "stack" => Q!Inductive
      => QuietIsApplied
  BY ProjectHolds, StackHolds DEF QuietIsApplied
<1> QED  BY <1>1, ProjectRuns, StackRuns, PTL

(* A finished scan that is kept is true of the disk, whatever was deleted  *)
(* since (disk_usage.py, disk_delete.forget_path).                         *)
THEOREM KeptScansAreTrue == Spec => []ScanHonest
<1>1. (which = "disk" => D!Inductive) => ScanHonest
  BY DiskHolds DEF ScanHonest
<1> QED  BY <1>1, DiskRuns, PTL

(* A download that was finished has sent every chunk of the folder         *)
(* (folder_archive.py).                                                    *)
THEOREM DownloadsAreWhole == Spec => [](which = "folder" => F!AllSent)
<1>1. (which = "folder" => F!Inductive) => (which = "folder" => F!AllSent)
  BY FolderHolds
<1> QED  BY <1>1, FolderRuns, PTL
=============================================================================
