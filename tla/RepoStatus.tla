----------------------------- MODULE RepoStatus -----------------------------
(***************************************************************************)
(* Is a checkout current with its remote?  (repo_status.py)                *)
(*                                                                         *)
(* The container snapshot calls lookup() and gets the last answer; a       *)
(* thread passes over the tracked checkouts, reading each one that is due  *)
(* and, less often, asking the remote.  A finished rebuild calls           *)
(* invalidate().  The thread reads git and the network without the lock.   *)
(*                                                                         *)
(* Commits are numbered along one branch: a checkout may have some that    *)
(* its remote lacks, or lack some, but not both.  Of a time stamp only     *)
(* this is kept: whether it is old enough for its entry to be due.         *)
(***************************************************************************)
EXTENDS Integers

CONSTANTS
  Paths,        \* the checkouts that containers of this host are built from
  OnGitHub,     \* those whose remote is on GitHub
  Urls,         \* remotes (with the branch: the keys of _remotes)
  UrlOf,        \* [Paths -> Urls]
  Nobody,       \* not a checkout: nothing is being refreshed
  MaxCommits,   \* bound: the newest commit a remote ever has
  MaxFailures   \* bound: git calls that fail in one behaviour

ASSUME OnGitHubAssumption == OnGitHub \subseteq Paths
ASSUME NobodyAssumption == Nobody \notin Paths
ASSUME UrlAssumption == UrlOf \in [Paths -> Urls]
ASSUME BoundsAssumption == MaxCommits \in Nat /\ MaxFailures \in Nat

VARIABLES
  head,       \* the commit each checkout is at
  upstream,   \* the commit each remote is at
  tracked,    \* the keys of _tracked
  localDue,   \* entries whose local_at is old enough
  remoteDue,  \* entries whose remote_at is old enough
  unseen,     \* entries nobody looked up for FORGET_AFTER seconds
  known,      \* _state: the answers (NoAnswer where there is none)
  tips,       \* _remotes: the last answer of each remote (NoTip before)
  guessed,    \* history: checkouts whose last comparison git could not make
  at,         \* where the thread is
  due,        \* locals of run_once: the checkouts left in this pass, ...
  withRemote, \* ... those whose remote is due as well, ...
  current,    \* ... and the one that is being refreshed
  info,       \* local of _refresh: the commit it read
  tip,        \* local of _refresh: what the remote is at
  failures    \* git calls that failed so far

gitVars == <<head, upstream>>
tables == <<tracked, localDue, remoteDue, unseen>>
answers == <<known, tips, guessed>>
pass == <<at, due, withRemote, current, info, tip>>
vars == <<gitVars, tables, answers, pass, failures>>

Commits == 0..MaxCommits
NoTip == -1     \* no entry in _remotes
Unreachable == -2   \* (None, why): the remote could not be asked
Tips == Commits \cup {NoTip, Unreachable}

NoAnswer == [head |-> 0, tip |-> NoTip, state |-> "none"]
Answers == [head : Commits, tip : Tips,
            state : {"none", "up_to_date", "behind", "ahead", "unknown"}]

Init ==
  /\ head \in [Paths -> Commits]
  /\ upstream \in [Urls -> Commits]
  /\ tracked = {}
  /\ localDue = {}
  /\ remoteDue = {}
  /\ unseen = {}
  /\ known = [p \in Paths |-> NoAnswer]
  /\ tips = [u \in Urls |-> NoTip]
  /\ guessed = {}
  /\ at = "sleeping"
  /\ due = {}
  /\ withRemote = {}
  /\ current = Nobody
  /\ info = 0
  /\ tip = NoTip
  /\ failures = 0

(***************************************************************************)
(* The callers, and what happens to the repositories meanwhile             *)
(***************************************************************************)

(* Somebody pushes to the remote; somebody pulls on the host.              *)
Push(u) ==
  /\ upstream[u] < MaxCommits
  /\ upstream' = [upstream EXCEPT ![u] = @ + 1]
  /\ UNCHANGED <<head, tables, answers, pass, failures>>

Pull(p) ==
  /\ head[p] < upstream[UrlOf[p]]
  /\ head' = [head EXCEPT ![p] = upstream[UrlOf[p]]]
  /\ UNCHANGED <<upstream, tables, answers, pass, failures>>

(* lookup(): a new entry is due at once (local_at and remote_at are 0.0).  *)
Lookup(p) ==
  /\ p \in OnGitHub
  /\ tracked' = tracked \cup {p}
  /\ localDue' = IF p \in tracked THEN localDue ELSE localDue \cup {p}
  /\ remoteDue' = IF p \in tracked THEN remoteDue ELSE remoteDue \cup {p}
  /\ unseen' = unseen \ {p}
  /\ UNCHANGED <<gitVars, answers, pass, failures>>

Invalidate(p) ==
  /\ localDue' = localDue \cup ({p} \cap tracked)
  /\ remoteDue' = remoteDue \cup ({p} \cap tracked)
  /\ UNCHANGED <<gitVars, tracked, unseen, answers, pass, failures>>

(* REPO_LOCAL_SECONDS or REPO_REMOTE_SECONDS have gone by.                 *)
LocalAges(p) ==
  /\ p \in tracked \ localDue
  /\ localDue' = localDue \cup {p}
  /\ UNCHANGED <<gitVars, tracked, remoteDue, unseen, answers, pass, failures>>

RemoteAges(p) ==
  /\ p \in tracked \ remoteDue
  /\ remoteDue' = remoteDue \cup {p}
  /\ UNCHANGED <<gitVars, tracked, localDue, unseen, answers, pass, failures>>

(* Nobody looked the entry up for FORGET_AFTER seconds.                    *)
SeenAges(p) ==
  /\ p \in tracked \ unseen
  /\ unseen' = unseen \cup {p}
  /\ UNCHANGED <<gitVars, tracked, localDue, remoteDue, answers, pass, failures>>

(***************************************************************************)
(* The thread: run_once, and _refresh for each checkout that is due        *)
(***************************************************************************)

(* What nobody asks about is forgotten, what has gone stale is taken up.   *)
StartPass ==
  /\ at = "sleeping"
  /\ tracked' = tracked \ unseen
  /\ localDue' = localDue \ unseen
  /\ remoteDue' = remoteDue \ unseen
  /\ known' = [p \in Paths |-> IF p \in unseen THEN NoAnswer ELSE known[p]]
  /\ unseen' = {}
  /\ due' = localDue'
  /\ withRemote' = localDue' \cap remoteDue'
  /\ at' = "next"
  /\ UNCHANGED <<gitVars, tips, guessed, current, info, tip, failures>>

EndPass ==
  /\ at = "next"
  /\ due = {}
  /\ at' = "sleeping"
  /\ withRemote' = {}
  /\ UNCHANGED <<gitVars, tables, answers, due, current, info, tip, failures>>

(* local_info                                                              *)
Read(p) ==
  /\ at = "next"
  /\ p \in due
  /\ current' = p
  /\ info' = head[p]
  /\ at' = "remote"
  /\ UNCHANGED <<gitVars, tables, answers, due, withRemote, tip, failures>>

(* git cannot read the checkout, and the answer goes; or _refresh raises,  *)
(* and the answer stays.                                                   *)
ReadFails(p) ==
  /\ at = "next"
  /\ p \in due
  /\ failures < MaxFailures
  /\ failures' = failures + 1
  /\ current' = p
  /\ known' \in {known, [known EXCEPT ![p] = NoAnswer]}
  /\ at' = "stamp"
  /\ UNCHANGED <<gitVars, tables, tips, guessed, due, withRemote, info, tip>>

(* Wrong variant: an answer is cached for good.                            *)
MustAsk_Once(p) == tips[UrlOf[p]] = NoTip

MustAsk(p) == p \in withRemote \/ tips[UrlOf[p]] = NoTip

(* remote_tip, or the answer that another checkout of the repository got.  *)
FindTip ==
  LET u == UrlOf[current] IN
    /\ at = "remote"
    /\ IF MustAsk(current)
         THEN \/ /\ tip' = upstream[u]
                 /\ UNCHANGED failures
              \/ /\ failures < MaxFailures
                 /\ failures' = failures + 1
                 /\ tip' = Unreachable
         ELSE tip' = tips[u] /\ UNCHANGED failures
    /\ tips' = [tips EXCEPT ![u] = tip']
    /\ at' = "compare"
    /\ UNCHANGED <<gitVars, tables, known, guessed, due, withRemote, current, info>>

(* Wrong variants: the answer says what lookup() says before the first one;*)
(* ancestry the wrong way round; equality is left to git.                  *)
Verdict_Checking(p, compared) == IF tip = Unreachable THEN "checking" ELSE "behind"
Verdict_Swapped(p, compared) ==
  IF tip = Unreachable THEN "unknown"
  ELSE IF tip = info THEN "up_to_date"
  ELSE IF compared /\ tip <= head[p] THEN "behind" ELSE "ahead"

(* compare(): equality with the commit that was read, ancestry with HEAD   *)
(* as it is now.  If git runs into its timeout or cannot be run, whatever  *)
(* is not equal is "behind".                                               *)
Verdict(p, compared) ==
  IF tip = Unreachable THEN "unknown"
  ELSE IF tip = info THEN "up_to_date"
  ELSE IF compared /\ tip <= head[p] THEN "ahead" ELSE "behind"

Answer ==
  /\ at = "compare"
  /\ \E compared \in BOOLEAN :
       /\ known' = [known EXCEPT ![current] =
                      [head |-> info, tip |-> tip, state |-> Verdict(current, compared)]]
       /\ IF compared
            THEN guessed' = guessed \ {current} /\ UNCHANGED failures
            ELSE /\ failures < MaxFailures
                 /\ guessed' = guessed \cup {current} /\ failures' = failures + 1
  /\ info' = 0 /\ tip' = NoTip
  /\ at' = "stamp"
  /\ UNCHANGED <<gitVars, tables, tips, due, withRemote, current>>

(* local_at, and remote_at with it, become the time the pass began.        *)
Stamp ==
  /\ at = "stamp"
  /\ localDue' = localDue \ {current}
  /\ remoteDue' = IF current \in withRemote THEN remoteDue \ {current} ELSE remoteDue
  /\ due' = due \ {current}
  /\ current' = Nobody
  /\ at' = "next"
  /\ UNCHANGED <<gitVars, tracked, unseen, answers, withRemote, info, tip, failures>>

PassSteps ==
  \/ StartPass \/ EndPass \/ FindTip \/ Answer \/ Stamp
  \/ \E p \in Paths : Read(p) \/ ReadFails(p)
Ageing == \E p \in Paths : LocalAges(p) \/ RemoteAges(p) \/ SeenAges(p)

Others ==
  \/ \E p \in Paths : Lookup(p) \/ Pull(p)
  \/ \E u \in Urls : Push(u)

Next ==
  \/ PassSteps
  \/ Ageing
  \/ Others
  \/ \E p \in Paths : Invalidate(p)

(* The thread sleeps a few seconds between passes, every git call has a    *)
(* timeout, and time stamps grow old.                                      *)
Fairness ==
  /\ WF_vars(PassSteps)
  /\ \A p \in Paths : WF_vars(LocalAges(p)) /\ WF_vars(RemoteAges(p))

Spec == Init /\ [][Next]_vars
FairSpec == Spec /\ Fairness

-----------------------------------------------------------------------------
(***************************************************************************)
(* Properties                                                              *)
(***************************************************************************)

(* Every variable has the type the code gives it.                          *)
TypeOK ==
  /\ head \in [Paths -> Commits]
  /\ upstream \in [Urls -> Commits]
  /\ tracked \subseteq Paths
  /\ localDue \subseteq tracked
  /\ remoteDue \subseteq tracked
  /\ unseen \subseteq tracked
  /\ known \in [Paths -> Answers]
  /\ tips \in [Urls -> Tips]
  /\ guessed \subseteq Paths
  /\ at \in {"sleeping", "next", "remote", "compare", "stamp"}
  /\ due \subseteq Paths
  /\ withRemote \subseteq Paths
  /\ current \in Paths \cup {Nobody}
  /\ info \in Commits
  /\ tip \in Tips
  /\ failures \in 0..MaxFailures

(* "behind: the remote has commits the checkout doesn't - a pull brings    *)
(* them": as long as git can compare, the dashboard never offers a pull of *)
(* what the checkout had when it was read, although git is asked again and *)
(* the tip may be an old one.  When git cannot, a checkout that is ahead   *)
(* is called behind (guessed), but never one that is at the tip.           *)
BehindIsBehind ==
  \A p \in Paths : known[p].state = "behind" =>
    /\ known[p].head # known[p].tip
    /\ p \notin guessed => known[p].head < known[p].tip

Truth(p) ==
  LET remote == upstream[UrlOf[p]] IN
    [head |-> head[p], tip |-> remote,
     state |-> IF head[p] = remote THEN "up_to_date"
               ELSE IF head[p] < remote THEN "behind" ELSE "ahead"]

(* Whatever was invalidated when, and whichever calls failed: an answer    *)
(* does not stay wrong.  Again and again the answer about a tracked        *)
(* checkout is the truth of that moment.                                   *)
TruthReturns ==
  \A p \in Paths :
    []<>(\/ p \notin tracked
         \/ known[p] = Truth(p))
-----------------------------------------------------------------------------
(***************************************************************************)
(* What BehindIsBehind rests on: the inductive invariant of                *)
(* RepoStatus_proofs                                                       *)
(***************************************************************************)

(* While one checkout is being refreshed its HEAD is no older than the     *)
(* commit that _refresh read: pulls only move it forward.                  *)
ReadIsOld ==
  /\ at \in {"remote", "compare", "stamp"} => current \in Paths
  /\ at \in {"remote", "compare"} => info <= head[current]

Inductive == TypeOK /\ ReadIsOld /\ BehindIsBehind
=============================================================================
