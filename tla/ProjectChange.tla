--------------------------- MODULE ProjectChange ----------------------------
(***************************************************************************)
(* Changing what a Compose project runs: the image updates (updates.py)    *)
(* and the edits of a compose file (compose_edit.py).                      *)
(*                                                                         *)
(* Both work in a thread: change the file or the image a tag names, run    *)
(* `docker compose up -d` in a helper, watch the containers, and put the   *)
(* old file or image back if one of them does not stay up.  Each keeps its *)
(* own table of jobs, so that the two may be at work on one project.       *)
(*                                                                         *)
(* A project has one service and one compose file.  A file is known by its *)
(* text, an image by its release.  An `up` reads file and tag when it      *)
(* begins and changes the containers when it ends.  Left out: the figures  *)
(* and steps shown of a job, and the jobs that have ended.                 *)
(***************************************************************************)
EXTENDS Integers, FiniteSets

CONSTANTS
  Projects,
  ImageOf,    \* the name of the image each project's service uses
  Editable,   \* the projects whose file is edited
  Texts,      \* what a compose file may say
  Release,    \* the newest image of each name in its registry
  MaxJobs,    \* bound: updates and edits asked for
  MaxMishaps  \* bound: docker calls that raise, saves by hand, restarts

ProjectsSane == Projects # {} /\ Texts # {} /\ {Release, MaxJobs, MaxMishaps} \subseteq Nat

Refs == {ImageOf[p] : p \in Projects}
Releases == 0..Release

VARIABLES
  tag,       \* the image each name stands for on this host
  images,    \* the images this host has, of each name
  kept,      \* those that have a roll-back tag
  text,      \* the compose file of each project
  running,   \* the file and image its containers were made from
  update,    \* the update job
  change,    \* the edit job of each project
  ups,       \* the helpers that run `docker compose up -d`
  jobs, mishaps,
  excused    \* history: see Excuses

projectVars == <<tag, images, kept, text, running, update, change, ups, jobs, mishaps, excused>>
Mishap == mishaps < MaxMishaps /\ mishaps' = mishaps + 1

NoUpdate == [pc |-> "idle", on |-> CHOOSE p \in Projects : TRUE, todo |-> {}, old |-> 0,
             was |-> 0, astray |-> FALSE, undone |-> FALSE]
NoChange == [pc |-> "idle", new |-> CHOOSE t \in Texts : TRUE,
             previous |-> CHOOSE t \in Texts : TRUE, undone |-> FALSE]
FirstText == CHOOSE t \in Texts : TRUE

Init ==
  /\ tag = [r \in Refs |-> 0]
  /\ images = [r \in Refs |-> {0}]
  /\ kept = [r \in Refs |-> {}]
  /\ text = [p \in Projects |-> FirstText]
  /\ running = [p \in Projects |-> [text |-> FirstText, image |-> 0]]
  /\ update = NoUpdate
  /\ change = [p \in Projects |-> NoChange]
  /\ ups = {}
  /\ jobs = 0
  /\ mishaps = 0
  /\ excused = [p \in Projects |-> FALSE]

Now(p) == [text |-> text[p], image |-> tag[ImageOf[p]]]
UpsOf(p) == {u \in ups : u.on = p}

\* A job that has come to the project and not left it, or a helper.
AtWork(p) == \/ update.pc \notin {"idle", "next"} /\ update.on = p
             \/ change[p].pc # "idle"
             \/ UpsOf(p) # {}

-----------------------------------------------------------------------------
(* Excuses.  A project need not run its file and its tag if a job on it    *)
(* was told to have failed, if the `up` that puts things back failed, if   *)
(* two `up`s crossed, if the agent restarted in the middle, or if somebody *)
(* else changed the file or the tag; until it runs both again.             *)
Excuse(ps) == excused' = [p \in Projects |-> excused[p] \/ p \in ps]
Others(p) == {q \in Projects \ {p} : ImageOf[q] = ImageOf[p]}

-----------------------------------------------------------------------------
(* `up`: begun by a job; its helper outlives the job if the agent dies.    *)
Begin(p, by) ==
  /\ ups' = ups \cup {[on |-> p, by |-> by, makes |-> Now(p)]}
  /\ IF UpsOf(p) = {} THEN UNCHANGED excused ELSE Excuse({p})

Mine(p, by) == CHOOSE u \in ups : u.on = p /\ u.by = by

\* Its containers are made, or some of them before it failed, or none.
Ended(u, made, excuse) ==
  /\ ups' = ups \ {u}
  /\ running' = [running EXCEPT ![u.on] = IF made THEN u.makes ELSE @]
  /\ excused' = [excused EXCEPT ![u.on] =
       (@ \/ excuse) /\ ~(running'[u.on] = Now(u.on) /\ UpsOf(u.on) = {u})]

-----------------------------------------------------------------------------
(* Somebody saves a compose file in the browser.                           *)
SaveByHand(p) ==
  /\ p \in Editable /\ Mishap
  /\ \E t \in Texts \ {text[p]} : text' = [text EXCEPT ![p] = t]
  /\ Excuse({p})
  /\ change' = [change EXCEPT ![p].undone = FALSE]
  /\ UNCHANGED <<images, kept, tag, running, update, ups, jobs>>

(* A prune takes the images that no tag names and no container runs.       *)
Needed(r) == {tag[r]} \cup kept[r] \cup {running[p].image : p \in {q \in Projects : ImageOf[q] = r}}
Prune ==
  /\ images' = [r \in Refs |-> images[r] \cap Needed(r)]
  /\ UNCHANGED <<tag, kept, text, running, update, change, ups, excused, jobs, mishaps>>

-----------------------------------------------------------------------------
(* check_ref and for_container: there is an update if the registry has an  *)
(* image other than the one the container runs; what a check found for an  *)
(* image it no longer runs counts for nothing.                             *)
CanUpdate(p) == running[p].image # Release

(* plan and start: the projects that were named, or all that can be        *)
(* updated; one update at a time on this host.                             *)
MayUpdate == update.pc = "idle"

StartUpdate ==
  /\ MayUpdate
  /\ jobs < MaxJobs /\ jobs' = jobs + 1
  /\ \E ps \in SUBSET {p \in Projects : CanUpdate(p)} :
       ps # {} /\ update' = [NoUpdate EXCEPT !.pc = "next", !.todo = ps]
  /\ UNCHANGED <<images, kept, tag, text, running, change, ups, excused, mishaps>>

-----------------------------------------------------------------------------
(* _run and _update_project, one project after the other.                  *)
Step(pc) == update' = [update EXCEPT !.pc = pc]

NextProject ==
  /\ update.pc = "next"
  /\ IF update.todo = {} THEN update' = NoUpdate
     ELSE \E p \in update.todo :
            update' = [update EXCEPT !.pc = "tag", !.on = p, !.todo = @ \ {p}, !.undone = FALSE]
  /\ UNCHANGED <<images, kept, tag, text, running, change, ups, excused, jobs, mishaps>>

(* The image the tag names gets a roll-back tag, so that it stays: the     *)
(* roll-back goes to it, be it what the project runs or not.  It is not if *)
(* the project has gone astray: another one on its tag has had it moved,   *)
(* an edit is at work, or whatever else excuses it.                        *)
Tagged_Not(r) == UNCHANGED kept
Tagged(r) == kept' = [kept EXCEPT ![r] = {tag[r]}]

Astray(p) == excused[p] \/ change[p].pc # "idle" \/ UpsOf(p) # {}
TagOld ==
  LET r == ImageOf[update.on]
  IN /\ update.pc = "tag"
     /\ \/ /\ tag[r] \in images[r]
           /\ update' = [update EXCEPT !.pc = "pull", !.old = tag[r],
                                       !.was = running[update.on].image, !.astray = Astray(update.on)]
           /\ Tagged(r) /\ UNCHANGED mishaps
        \/ Step("next") /\ Mishap /\ UNCHANGED kept      \* docker refuses: the project has failed
     /\ UNCHANGED <<images, tag, text, running, change, ups, excused, jobs>>

(* The streamed pull, and Compose's if that fails.  A failed one may have  *)
(* moved the tag before.  The streamed one has no time limit: if the       *)
(* daemon says nothing more, the job hangs (updates.py:389).               *)
Pulled(r) ==
  /\ tag' = [tag EXCEPT ![r] = Release]
  /\ images' = [images EXCEPT ![r] = @ \cup {Release}]

Pull ==
  LET p == update.on
      r == ImageOf[p]
      moved == IF tag[r] = Release THEN {} ELSE Others(p)
  IN /\ update.pc = "pull"
     /\ \/ Pulled(r) /\ Step("up") /\ Excuse(moved) /\ UNCHANGED mishaps
        \/ \E pc \in {"untag", "hung"} : Pulled(r) /\ Step(pc) /\ Excuse({p} \cup moved) /\ Mishap
        \/ \E pc \in {"untag", "hung"} : Step(pc) /\ Mishap /\ UNCHANGED <<tag, images, excused>>
     /\ UNCHANGED <<kept, text, running, change, ups, jobs>>

BeginUp ==
  /\ update.pc \in {"up", "upback"}
  /\ Begin(update.on, "update")
  /\ Step(IF update.pc = "up" THEN "watch_up" ELSE "watch_upback")
  /\ UNCHANGED <<images, kept, tag, text, running, change, jobs, mishaps>>

(* `up` ends with 0, with another code, or the wait for it raises; after a *)
(* roll-back the code is not looked at.                                    *)
EndUp ==
  LET u == Mine(update.on, "update")
      back == update.pc = "watch_upback"
  IN /\ update.pc \in {"watch_up", "watch_upback"}
     /\ \/ Ended(u, TRUE, FALSE) /\ Step(IF back THEN "untag" ELSE "watch") /\ UNCHANGED mishaps
        \/ \E made \in BOOLEAN :
             /\ Ended(u, made, back)
             /\ Step(IF back THEN "untag" ELSE "retag")
             /\ UNCHANGED mishaps
        \/ \E made \in BOOLEAN :
             /\ Ended(u, made, TRUE)
             /\ Step("untag") /\ Mishap
     /\ UNCHANGED <<images, kept, tag, text, change, jobs>>

(* watch: all of them stay up, or one does not; docker may fail.           *)
Watch ==
  /\ update.pc = "watch"
  /\ \/ Step("untag") /\ UNCHANGED mishaps
     \/ Step("retag") /\ UNCHANGED mishaps
     \/ Step("untag") /\ Mishap
  /\ UNCHANGED <<images, kept, tag, text, running, change, ups, excused, jobs>>

(* The old image gets its name back; docker may refuse.                    *)
Back(r) == tag' = [tag EXCEPT ![r] = update.old]

Retag ==
  LET p == update.on
      r == ImageOf[p]
      moved == IF update.old = tag[r] THEN {} ELSE Others(p)
  IN /\ update.pc = "retag"
     /\ \/ /\ update.old \in images[r]
           /\ Back(r) /\ Excuse(moved)
           /\ update' = [update EXCEPT !.pc = "upback", !.undone = TRUE]
           /\ UNCHANGED mishaps
        \/ Step("untag") /\ Mishap /\ Excuse({p}) /\ UNCHANGED tag
     /\ UNCHANGED <<images, kept, text, running, change, ups, jobs>>

(* The roll-back tag is dropped whatever happened; docker may refuse that. *)
Untag ==
  LET r == ImageOf[update.on]
  IN /\ update.pc = "untag"
     /\ \/ kept' = [kept EXCEPT ![r] = {}] /\ UNCHANGED mishaps
        \/ UNCHANGED kept /\ Mishap
     /\ Step("next")
     /\ UNCHANGED <<images, tag, text, running, change, ups, excused, jobs>>

UpdateSteps == \/ NextProject \/ TagOld \/ Pull \/ BeginUp \/ EndUp \/ Watch \/ Retag \/ Untag

-----------------------------------------------------------------------------
(* compose_edit.start: one edit of a project at a time.                    *)
Goto(p, pc) == change' = [change EXCEPT ![p].pc = pc]
Over(p) == change' = [change EXCEPT ![p] = NoChange]

StartChange(p) ==
  /\ p \in Editable
  /\ change[p].pc = "idle"
  /\ jobs < MaxJobs /\ jobs' = jobs + 1
  /\ \E t \in Texts : change' = [change EXCEPT ![p] = [NoChange EXCEPT !.pc = "check", !.new = t]]
  /\ UNCHANGED <<images, kept, tag, text, running, update, ups, excused, mishaps>>

(* _check and _read: Compose rejects the text, or the old one is read.     *)
CheckText(p) ==
  /\ change[p].pc = "check"
  /\ \/ Over(p)
     \/ change' = [change EXCEPT ![p].pc = "save", ![p].previous = text[p]]
  /\ UNCHANGED <<images, kept, tag, text, running, update, ups, excused, jobs, mishaps>>

(* The file is written; or it is not, as the file was changed since it was *)
(* read or the write failed, after which it may be either.                 *)
Save(p) ==
  /\ change[p].pc = "save"
  /\ \/ text' = [text EXCEPT ![p] = change[p].new] /\ Goto(p, "up")
        /\ UNCHANGED <<excused, mishaps>>
     \/ text' = [text EXCEPT ![p] = change[p].new] /\ Over(p) /\ Excuse({p}) /\ Mishap
     \/ UNCHANGED <<text, excused, mishaps>> /\ Over(p)
  /\ UNCHANGED <<images, kept, tag, running, update, ups, jobs>>

ApplyText(p) ==
  /\ change[p].pc \in {"up", "upback"}
  /\ Begin(p, "edit")
  /\ Goto(p, IF change[p].pc = "up" THEN "watch_up" ELSE "watch_upback")
  /\ UNCHANGED <<images, kept, tag, text, running, update, jobs, mishaps>>

Applied(p) ==
  LET u == Mine(p, "edit")
      back == change[p].pc = "watch_upback"
  IN /\ change[p].pc \in {"watch_up", "watch_upback"}
     /\ \/ Ended(u, TRUE, FALSE) /\ Goto(p, IF back THEN "done" ELSE "watch") /\ UNCHANGED mishaps
        \/ \E made \in BOOLEAN :
             /\ Ended(u, made, back)
             /\ Goto(p, IF back THEN "done" ELSE "restore")
             /\ UNCHANGED mishaps
        \/ \E made \in BOOLEAN : Ended(u, made, TRUE) /\ Over(p) /\ Mishap
     /\ UNCHANGED <<images, kept, tag, text, update, jobs>>

WatchText(p) ==
  /\ change[p].pc = "watch"
  /\ \/ Goto(p, "done") /\ UNCHANGED mishaps
     \/ Goto(p, "restore") /\ UNCHANGED mishaps
     \/ Over(p) /\ Mishap
  /\ UNCHANGED <<images, kept, tag, text, running, update, ups, excused, jobs>>

(* The roll-back: the previous text is written over whatever is there.     *)
Restore(p) ==
  /\ change[p].pc = "restore"
  /\ \/ /\ text' = [text EXCEPT ![p] = change[p].previous]
        /\ change' = [change EXCEPT ![p].pc = "upback", ![p].undone = TRUE]
        /\ UNCHANGED <<excused, mishaps>>
     \/ UNCHANGED text /\ Over(p) /\ Excuse({p}) /\ Mishap
  /\ UNCHANGED <<images, kept, tag, running, update, ups, jobs>>

Finish(p) ==
  /\ change[p].pc = "done"
  /\ Over(p)
  /\ UNCHANGED <<images, kept, tag, text, running, update, ups, excused, jobs, mishaps>>

ChangeSteps(p) == \/ CheckText(p) \/ Save(p) \/ ApplyText(p) \/ Applied(p) \/ WatchText(p)
                  \/ Restore(p) \/ Finish(p)

-----------------------------------------------------------------------------
(* The agent restarts: its jobs and what it knew are gone, the helpers and *)
(* the roll-back tags are not.                                             *)
AgentRestart ==
  /\ Mishap
  /\ update' = NoUpdate
  /\ change' = [p \in Projects |-> NoChange]
  /\ ups' = {[u EXCEPT !.by = "nobody"] : u \in ups}
  /\ Excuse({p \in Projects : AtWork(p)})
  /\ UNCHANGED <<images, kept, tag, text, running, jobs>>

OrphanEnds ==
  /\ \E u \in ups : u.by = "nobody" /\ \E made \in BOOLEAN : Ended(u, made, TRUE)
  /\ UNCHANGED <<images, kept, tag, text, update, change, jobs, mishaps>>

Next ==
  \/ \E p \in Projects : SaveByHand(p) \/ StartChange(p) \/ ChangeSteps(p)
  \/ Prune \/ StartUpdate \/ UpdateSteps \/ AgentRestart \/ OrphanEnds

EditSteps == \E p \in Projects : ChangeSteps(p)
Spec == Init /\ [][Next]_projectVars
FairSpec == Spec /\ WF_projectVars(UpdateSteps) /\ WF_projectVars(EditSteps)

-----------------------------------------------------------------------------
(* Every variable has its type.                                            *)
Stacks == [text : Texts, image : Releases]
Updates == [pc : {"idle", "next", "tag", "pull", "up", "watch_up", "watch", "retag",
                  "upback", "watch_upback", "untag", "hung"},
            on : Projects, todo : SUBSET Projects, old : Releases, undone : BOOLEAN,
            was : Releases,    \* history: what the project ran when the job came to it
            astray : BOOLEAN]  \* history: see TagOld
Changes == [pc : {"idle", "check", "save", "up", "watch_up", "watch", "restore", "upback",
                  "watch_upback", "done"},
            new : Texts, previous : Texts, undone : BOOLEAN]
Helpers == [on : Projects, by : {"update", "edit", "nobody"}, makes : Stacks]
TypeOK ==
  /\ tag \in [Refs -> Releases]
  /\ images \in [Refs -> SUBSET Releases] /\ kept \in [Refs -> SUBSET Releases]
  /\ text \in [Projects -> Texts]
  /\ running \in [Projects -> Stacks]
  /\ update \in Updates
  /\ change \in [Projects -> Changes]
  /\ jobs \in 0..MaxJobs /\ mishaps \in 0..MaxMishaps
  /\ ups \subseteq Helpers
  /\ excused \in [Projects -> BOOLEAN]

(* A project no job is at work on runs the file its folder holds and the   *)
(* image its tag names, whatever updates, edits, roll-backs and restarts   *)
(* have crossed, unless it has an excuse.  A roll-back that was not        *)
(* disturbed has brought back the old file, or the image the tag named     *)
(* when the job came to the project, which is what the project ran before  *)
(* unless it had gone astray: the second project on a tag "goes back" to   *)
(* the image the update of the first one pulled.  The image to go back to  *)
(* has not been pruned.                                                    *)
QuietIsApplied ==
  /\ \A p \in Projects : AtWork(p) \/ excused[p] \/ running[p] = Now(p)
  /\ (update.pc = "untag" /\ update.undone /\ ~excused[update.on]) =>
       running[update.on].image = IF update.astray THEN update.old ELSE update.was
  /\ \A p \in Projects : (change[p].pc = "done" /\ change[p].undone /\ ~excused[p]) =>
       running[p].text = change[p].previous
  /\ update.pc \in {"pull", "up", "watch_up", "watch", "retag"} =>
       update.old \in images[ImageOf[update.on]]

(* What keeps it true.  A project without an excuse has at most one        *)
(* helper, which makes what file and tag say, and runs that itself, unless *)
(* a job is about to see to it; what a roll-back brings back stays.        *)
Retagged(p) == update.on = p /\ update.pc \in {"up", "upback"}
Rewritten(p) == change[p].pc \in {"up", "upback"}
Undoing(p) == change[p].pc = "restore" \/ (update.on = p /\ update.pc = "retag")
Honest(p) ==
  /\ \A u, v \in UpsOf(p) : u = v
  /\ \A u \in UpsOf(p) : /\ u.makes.image = tag[ImageOf[p]] \/ Retagged(p)
                         /\ u.makes.text = text[p] \/ Rewritten(p)
  /\ \/ running[p].text = text[p] /\ running[p].image = tag[ImageOf[p]]
     \/ UpsOf(p) # {} \/ Retagged(p) \/ Rewritten(p) \/ Undoing(p)
  /\ update.on = p /\ update.pc = "untag" /\ update.undone => running[p].image = update.old
  /\ change[p].pc = "done" /\ change[p].undone => running[p].text = change[p].previous
UpdateSoFar ==
  /\ update.pc \in {"tag", "pull", "up", "watch_up", "watch", "retag"} => ~update.undone
  /\ update.pc \in {"upback", "watch_upback", "untag"} /\ update.undone =>
       tag[ImageOf[update.on]] = update.old
  /\ update.pc \in {"pull", "up", "watch_up", "watch", "retag"} =>
       update.old \in images[ImageOf[update.on]] \cap kept[ImageOf[update.on]]
  /\ update.pc \in {"watch_up", "watch_upback"} =>
       \E u \in ups : u.on = update.on /\ u.by = "update"
ChangeSoFar(p) ==
  /\ change[p].pc \in {"check", "save", "up", "watch_up", "watch", "restore"} => ~change[p].undone
  /\ change[p].pc \in {"upback", "watch_upback", "done"} /\ change[p].undone =>
       text[p] = change[p].previous
  /\ change[p].pc \in {"watch_up", "watch_upback"} => \E u \in ups : u.on = p /\ u.by = "edit"
Sound == /\ TypeOK /\ UpdateSoFar
         /\ \A p \in Projects : ChangeSoFar(p) /\ (~excused[p] => Honest(p))
RanTheTag == update.astray \/ update.was = update.old
Inductive == Sound /\ RanTheTag

(* An update or an edit is at work, and refuses the next one: it has to    *)
(* end, unless it hangs in a pull; then only a restart helps.              *)
Updating == update.pc # "idle"
Hung == update.pc = "hung"
Editing == \E p \in Projects : change[p].pc # "idle"
=============================================================================
