---------------------------- MODULE UpdateClock -----------------------------
(***************************************************************************)
(* The background loop of the image updates (updates.loop): it asks the    *)
(* registries every so often, and sooner when something wakes it, and      *)
(* starts the nightly update in the hour it is set for.  What it has       *)
(* started is remembered in the process only.                              *)
(*                                                                         *)
(* A moment is what the loop waits at most, a minute in the code; a check  *)
(* takes as long as it likes.  The host's clock may be put back an hour.   *)
(* Left out: what a check finds (ProjectChange) and what the update does.  *)
(***************************************************************************)
EXTENDS Integers

CONSTANTS
  HourLength,   \* moments in an hour
  DayLength,    \* moments in a day: a number of hours
  At,           \* AUTO_UPDATE_AT: a moment of the day
  CheckAfter,   \* CHECK_HOURS
  LastTime,     \* bound: moments since the agent was started first
  MaxWakes,     \* bound
  MaxFailures,  \* bound
  MaxBoots      \* bound

Never == -1

VARIABLES
  time,         \* time.time()
  back,         \* how far the clock of the host's zone has been put back
  pc,           \* where the loop is
  lastCheck,    \* last_check
  lastAutoDay,  \* last_auto_day
  wake,         \* _wake
  stale,        \* history: an update ended and no check has begun since
  nightly,      \* history: nightly updates of each day
  restarted,    \* history: restarts of the agent in the night of each day
  wakes, failures, boots   \* how many so far

clockVars == <<time, back, pc, lastCheck, lastAutoDay, wake, stale, nightly, wakes, failures,
                boots, restarted>>

LastDay == LastTime \div DayLength
Init ==
  /\ time = 0 /\ back = 0
  /\ pc = "top"
  /\ lastCheck = Never   \* 0.0: long ago
  /\ lastAutoDay = Never
  /\ wake = FALSE
  /\ stale = FALSE
  /\ nightly = [d \in 0..LastDay |-> 0] /\ restarted = [d \in 0..LastDay |-> 0]
  /\ wakes = 0 /\ failures = 0 /\ boots = 0

Pass ==
  /\ time < LastTime
  /\ time' = time + 1
  /\ UNCHANGED <<back, pc, lastCheck, lastAutoDay, wake, stale, nightly,
                 restarted, wakes, failures, boots>>
PutBack ==
  /\ back = 0 /\ time >= HourLength
  /\ back' = HourLength
  /\ UNCHANGED <<time, pc, lastCheck, lastAutoDay, wake, stale, nightly,
                 restarted, wakes, failures, boots>>

Today == (time - back) \div DayLength
TimeOfDay == (time - back) % DayLength
HourOf(moment) == moment \div HourLength
\* The hour that At is in, on a day, and that hour again if the clock is put back.
NightBegins(d) == d * DayLength + HourOf(At) * HourLength
NightOver(d) == time >= NightBegins(d) + 2 * HourLength
Night(d) == time >= NightBegins(d) /\ ~NightOver(d)
Due_EveryTime == TimeOfDay >= At /\ HourOf(TimeOfDay) = HourOf(At)
Due == lastAutoDay # Today /\ TimeOfDay >= At /\ HourOf(TimeOfDay) = HourOf(At)

-----------------------------------------------------------------------------
(* The loop.                                                               *)
CheckDue == lastCheck = Never \/ time - lastCheck >= CheckAfter \/ wake
AfterCheck_Cleared == FALSE   \* the wake is forgotten after the check instead
AfterCheck == wake
Top ==
  /\ pc = "top"
  /\ IF CheckDue
     THEN pc' = "checking" /\ wake' = FALSE /\ stale' = FALSE
     ELSE pc' = "clock" /\ UNCHANGED <<wake, stale>>
  /\ UNCHANGED <<time, back, lastCheck, lastAutoDay, nightly, restarted, wakes, failures,
                 boots>>
Checked ==
  /\ pc = "checking"
  /\ lastCheck' = time
  /\ wake' = AfterCheck
  /\ pc' = "clock"
  /\ UNCHANGED <<time, back, lastAutoDay, stale, nightly, restarted, wakes, failures,
                 boots>>

\* The nightly update has its own check first; its day is then used up.
Clock ==
  /\ pc = "clock"
  /\ \E on \in BOOLEAN :   \* whether it is set, and the host allows it
       IF on /\ Due THEN pc' = "nightly" /\ lastAutoDay' = Today
       ELSE pc' = "waiting" /\ UNCHANGED lastAutoDay
  /\ UNCHANGED <<time, back, lastCheck, wake, stale, nightly, restarted, wakes, failures,
                 boots>>
StartNightly ==
  /\ pc = "nightly"
  /\ \E starts \in {0, 1} :   \* start refuses: nothing to do, or one is running
       nightly' = [nightly EXCEPT ![lastAutoDay] = @ + starts]
  /\ pc' = "waiting"
  /\ UNCHANGED <<time, back, lastCheck, lastAutoDay, wake, stale, restarted, wakes, failures,
                 boots>>

CheckFails ==   \* Docker did not answer: the rest of the turn is skipped
  /\ pc \in {"checking", "nightly"} /\ failures < MaxFailures
  /\ failures' = failures + 1
  /\ pc' = "waiting"
  /\ UNCHANGED <<time, back, lastCheck, lastAutoDay, wake, stale, nightly, restarted, wakes,
                 boots>>
Wait ==   \* until it is woken or the moment is over
  /\ pc = "waiting"
  /\ pc' = "top"
  /\ UNCHANGED <<time, back, lastCheck, lastAutoDay, wake, stale, nightly,
                 restarted, wakes, failures, boots>>

-----------------------------------------------------------------------------
(* An update ends (_run), or a check is asked for (check_soon).            *)
Wake ==
  /\ wakes < MaxWakes
  /\ wakes' = wakes + 1
  /\ wake' = TRUE
  /\ stale' = TRUE
  /\ UNCHANGED <<time, back, pc, lastCheck, lastAutoDay, nightly, restarted, failures, boots>>

AgentRestart ==
  /\ boots < MaxBoots
  /\ boots' = boots + 1
  /\ pc' = "top"
  /\ lastCheck' = Never /\ lastAutoDay' = Never /\ wake' = FALSE
  /\ restarted' = [d \in 0..LastDay |-> IF Night(d) THEN restarted[d] + 1 ELSE restarted[d]]
  /\ UNCHANGED <<time, back, stale, nightly, wakes, failures>>

Next ==
  \/ Pass \/ PutBack \/ Wake \/ AgentRestart
  \/ Top \/ Checked \/ Clock \/ StartNightly \/ CheckFails \/ Wait
Spec == Init /\ [][Next]_clockVars

-----------------------------------------------------------------------------
TypeOK ==
  /\ time \in 0..LastTime /\ back \in {0, HourLength}
  /\ pc \in {"top", "checking", "clock", "nightly", "waiting"}
  /\ lastCheck \in {Never} \cup 0..LastTime /\ lastAutoDay \in {Never} \cup 0..LastDay
  /\ {wake, stale} \subseteq BOOLEAN
  /\ nightly \in [0..LastDay -> Nat] /\ restarted \in [0..LastDay -> Nat]
  /\ wakes \in 0..MaxWakes /\ failures \in 0..MaxFailures /\ boots \in 0..MaxBoots

(* The agent starts one nightly update a day, also when its check takes    *)
(* until the next day or the clock is put back; and one more only for      *)
(* every time it was restarted in the very hour, for the day of the last   *)
(* one is forgotten with the process (updates.py:508).                     *)
NightlyOnce == \A d \in DOMAIN nightly : nightly[d] <= 1 + restarted[d]

(* No wake is lost: while the loop waits, either a check has begun since   *)
(* the last update ended, or the next turn begins with one.                *)
WakeKept == pc = "waiting" /\ stale => CheckDue

(* What the loop needs of the calendar: an hour is not longer than half a  *)
(* day.                                                                    *)
ClockSane ==
  /\ HourLength \in Nat \ {0} /\ DayLength \in Nat \ {0} /\ 2 * HourLength <= DayLength
  /\ At \in 0..(DayLength - 1) /\ LastTime \in Nat
  /\ {MaxWakes, MaxFailures, MaxBoots} \subseteq Nat

(* What makes it so: a stale cache comes with a wake, or the process is    *)
(* new and has not begun its first check.                                  *)
WakeComes == stale => wake \/ (lastCheck = Never /\ pc # "checking")

(* The hour of the last nightly update has come, whatever the clock was    *)
(* put back by since.  A day that has had as many as it may is not later   *)
(* than the last one, or its hour is over; and it is not the one that is   *)
(* about to be started.                                                    *)
HourCame ==
  /\ back <= time
  /\ lastAutoDay # Never => time >= NightBegins(lastAutoDay)
UsedUp(d) == nightly[d] = 1 + restarted[d]
DaysUsed ==
  \A d \in DOMAIN nightly :
    /\ nightly[d] <= 1 + restarted[d]
    /\ nightly[d] > 0 => time >= NightBegins(d)
    /\ UsedUp(d) => d <= lastAutoDay \/ NightOver(d)
    /\ UsedUp(d) /\ pc = "nightly" => d # lastAutoDay
Inductive == TypeOK /\ WakeComes /\ HourCame /\ DaysUsed
=============================================================================
