--------------------------- MODULE UpdateProgress ---------------------------
(***************************************************************************)
(* The bar of an update (updates.py): the pull of each project's images is *)
(* followed layer by layer (PullProgress) and takes most of its share of   *)
(* the bar, recreating its containers and watching them the rest.          *)
(*                                                                         *)
(* Left out: what the bar says besides its percentage, the outcome of the  *)
(* projects (ProjectChange), and rounding.  Fractions are in Units of a    *)
(* project's share, which divides by every total of bytes there can be.    *)
(***************************************************************************)
EXTENDS Integers, FiniteSets, FiniteSetsExt

CONSTANTS
  Layers,    \* of a project's images: what tells (ref, id) apart
  Sizes,     \* bytes a layer may have
  Projects,  \* how many the job updates
  Units      \* in a pull: a multiple of every possible total

ProgressSane == Sizes \subseteq Nat /\ Projects \in Nat \ {0} /\ Units \in Nat \ {0}

PullShare == 17 * Units       \* PULL_SHARE and UP_SHARE, of 20 * Units
UpShare == 2 * Units
WholeProject == 20 * Units

VARIABLES
  layers,   \* PullProgress.layers: bytes of the layers that were announced
  peak,     \* PullProgress.peak
  stage,    \* what the job is doing
  index,    \* of the project it is at
  percent,  \* of the bar
  lowered   \* history: it went back although no streamed pull had failed

progressVars == <<layers, peak, stage, index, percent, lowered>>

NoLayers == [l \in {} |-> 0]
Init ==
  /\ layers = NoLayers
  /\ peak = 0
  /\ stage = "starting"
  /\ index = 0
  /\ percent = 0
  /\ lowered = FALSE

Show(within) ==   \* _progress
  LET shown == index * WholeProject + Min({within, WholeProject})
  IN /\ percent' = shown
     /\ lowered' = (lowered \/ shown < percent)

-----------------------------------------------------------------------------
(* PullProgress: one event of Docker's.                                    *)
Current(ls) == MapThenSumSet(LAMBDA l : ls[l].current, DOMAIN ls)
Total(ls) == MapThenSumSet(LAMBDA l : ls[l].total, DOMAIN ls)
Fed(l, status, current, total) ==
  LET entry == IF l \in DOMAIN layers THEN layers[l] ELSE [current |-> 0, total |-> 0]
      new == IF status = "Downloading" THEN [current |-> current, total |-> total]
             ELSE IF status = "complete" THEN [entry EXCEPT !.current = entry.total]
             ELSE entry
  IN [m \in DOMAIN layers \cup {l} |-> IF m = l THEN new ELSE layers[m]]

Fraction(ls) == IF Total(ls) = 0 THEN 0 ELSE Min({Units, (Units * Current(ls)) \div Total(ls)})
Peak_Latest(ls) == Fraction(ls)
Peak(ls) == Max({peak, Fraction(ls)})

\* "complete" stands for a download that is complete, extracting, a layer
\* that was there, and the pull's end of it; a download may start again.
Event ==
  /\ stage = "pulling"
  /\ \E l \in Layers, status \in {"announced", "Downloading", "complete"}, total \in Sizes :
       \E current \in 0..total : layers' = Fed(l, status, current, total)
  /\ UNCHANGED <<peak, stage, index, percent, lowered>>

\* Every half second, and when the pull of the next image begins.
Publish ==
  /\ stage = "pulling"
  /\ peak' = Peak(layers)
  /\ Show(17 * Peak(layers))
  /\ UNCHANGED <<layers, stage, index>>

-----------------------------------------------------------------------------
(* The stages of a project's update.                                       *)
BeginPull ==
  /\ stage = "starting"
  /\ stage' = "pulling"
  /\ layers' = NoLayers /\ peak' = 0
  /\ Show(0)
  /\ UNCHANGED index
Streamed ==
  /\ stage = "pulling"
  /\ stage' = "pulled"
  /\ Show(PullShare)
  /\ UNCHANGED <<layers, peak, index>>

\* The stream failed: Compose pulls, without figures, and the bar starts over.
Fallback ==
  /\ stage = "pulling"
  /\ stage' = "composing"
  /\ percent' = index * WholeProject
  /\ UNCHANGED <<layers, peak, index, lowered>>
Pulled ==   \* by Compose, or the stream's: recreating comes next
  /\ stage \in {"composing", "pulled"}
  /\ stage' = "recreating"
  /\ Show(PullShare)
  /\ UNCHANGED <<layers, peak, index>>
Recreated ==
  /\ stage = "recreating"
  /\ stage' = "watching"
  /\ Show(PullShare + UpShare)
  /\ UNCHANGED <<layers, peak, index>>

\* It came up, was rolled back, or failed anywhere: the next, or the end.
NextProject ==
  /\ stage \notin {"pulling", "over"}
  /\ stage' = IF index + 1 < Projects THEN "starting" ELSE "over"
  /\ index' = IF index + 1 < Projects THEN index + 1 ELSE index
  /\ percent' = IF index + 1 < Projects THEN percent ELSE Projects * WholeProject
  /\ lowered' = (lowered \/ percent' < percent)
  /\ UNCHANGED <<layers, peak>>

Next == Event \/ Publish \/ BeginPull \/ Streamed \/ Fallback \/ Pulled \/ Recreated \/ NextProject

-----------------------------------------------------------------------------
TypeOK ==
  /\ DOMAIN layers \subseteq Layers
  /\ \A l \in DOMAIN layers : layers[l] \in [current : Nat, total : Sizes \cup {0}]
                              /\ layers[l].current <= layers[l].total
  /\ peak \in 0..Units
  /\ stage \in {"starting", "pulling", "composing", "pulled", "recreating", "watching", "over"}
  /\ index \in 0..(Projects - 1) /\ percent \in 0..(Projects * WholeProject)
  /\ lowered \in BOOLEAN

(* The bar goes back only where a streamed pull has failed and Compose     *)
(* starts it over, whichever layers are announced late; it is full only    *)
(* when the job is over.                                                   *)
BarForward == ~lowered /\ (percent = Projects * WholeProject => stage = "over")

(* What makes it so: what the bar may show at each stage of a project.     *)
Begun == index * WholeProject
Inductive ==
  /\ TypeOK /\ ~lowered /\ IsFiniteSet(DOMAIN layers)
  /\ stage = "starting" => percent <= Begun
  /\ stage = "pulling" => percent <= Begun + 17 * peak
  /\ stage = "composing" => percent = Begun
  /\ stage \in {"pulled", "recreating"} => percent = Begun + PullShare
  /\ stage = "watching" => percent = Begun + PullShare + UpShare
=============================================================================
