------------------------- MODULE RepoStatus_proofs -------------------------
(***************************************************************************)
(* The safety theorems of RepoStatus, for any number of checkouts, remotes *)
(* and commits.  compare() asks git about the checkout as it is when it    *)
(* asks, not as it was read: an answer "behind" is right all the same,     *)
(* because a checkout only moves forward, and wrong only if git could not  *)
(* be asked.                                                               *)
(***************************************************************************)
EXTENDS RepoStatus, TLAPS

LEMMA VerdictStates ==
  ASSUME NEW p \in Paths, NEW compared \in BOOLEAN
  PROVE  Verdict(p, compared) \in {"up_to_date", "behind", "ahead", "unknown"}
  BY DEF Verdict

(* The verdict "behind" is about another commit than the one read, and     *)
(* about one that this lacks if git has compared them.                     *)
LEMMA VerdictBehind ==
  ASSUME TypeOK, NEW p \in Paths, NEW compared \in BOOLEAN, info <= head[p],
         Verdict(p, compared) = "behind"
  PROVE  info # tip /\ (compared => info < tip)
<1>1. tip \in Int /\ head[p] \in Int /\ info \in Int
  BY BoundsAssumption DEF TypeOK, Tips, Commits, NoTip, Unreachable
<1>2. tip # info /\ (compared => ~ (tip <= head[p]))
  BY DEF Verdict
<1> QED
  BY <1>1, <1>2

LEMMA InitInductive == Init => Inductive
  BY BoundsAssumption, UrlAssumption
  DEF Init, Inductive, TypeOK, ReadIsOld, BehindIsBehind, Commits, Tips, NoTip, NoAnswer, Answers

LEMMA NoAnswerType == NoAnswer \in Answers
  BY BoundsAssumption DEF NoAnswer, Answers, Commits, Tips

(* What the callers and other people do while the thread is anywhere.      *)
LEMMA OthersStep ==
  ASSUME Inductive, Others
  PROVE  Inductive'
<1> USE DEF Inductive
<1>1. ASSUME NEW p \in Paths, Lookup(p)
      PROVE  Inductive'
  BY <1>1 DEF Lookup, TypeOK, ReadIsOld, BehindIsBehind, gitVars, answers, pass
<1>2. ASSUME NEW p \in Paths, Pull(p)
      PROVE  Inductive'
  <2>1. upstream[UrlOf[p]] \in Commits
    BY UrlAssumption DEF TypeOK
  <2>2. TypeOK'
    BY <1>2, <2>1 DEF Pull, TypeOK, tables, answers, pass
  <2>3. ReadIsOld'
    <3>1. \A q \in Paths : head[q] \in Int /\ head[q] <= head'[q] /\ head'[q] \in Int
      BY <1>2, <2>1, BoundsAssumption DEF Pull, TypeOK, Commits
    <3>2. info \in Int
      BY BoundsAssumption DEF TypeOK, Commits
    <3> QED
      BY <1>2, <3>1, <3>2 DEF Pull, ReadIsOld, pass
  <2>4. BehindIsBehind'
    BY <1>2 DEF Pull, BehindIsBehind, answers
  <2> QED
    BY <2>2, <2>3, <2>4
<1>3. ASSUME NEW u \in Urls, Push(u)
      PROVE  Inductive'
  BY <1>3, BoundsAssumption
  DEF Push, TypeOK, ReadIsOld, BehindIsBehind, Commits, tables, answers, pass
<1> QED
  BY <1>1, <1>2, <1>3 DEF Others

LEMMA TimeStep ==
  ASSUME Inductive, NEW p \in Paths,
         LocalAges(p) \/ RemoteAges(p) \/ SeenAges(p) \/ Invalidate(p)
  PROVE  Inductive'
  BY DEF Inductive, TypeOK, ReadIsOld, BehindIsBehind, gitVars, answers, pass,
         LocalAges, RemoteAges, SeenAges, Invalidate

LEMMA StartPassStep ==
  ASSUME Inductive, StartPass
  PROVE  Inductive'
<1> USE DEF Inductive
<1>1. TypeOK'
  BY NoAnswerType DEF StartPass, TypeOK, gitVars
<1>2. ReadIsOld'
  BY DEF StartPass, ReadIsOld, gitVars
<1>3. BehindIsBehind'
  BY DEF StartPass, BehindIsBehind, NoAnswer
<1> QED
  BY <1>1, <1>2, <1>3

LEMMA ReadStep ==
  ASSUME Inductive, NEW p \in Paths, Read(p)
  PROVE  Inductive'
<1> USE DEF Inductive
<1>1. TypeOK'
  BY DEF Read, TypeOK, gitVars, tables, answers
<1>2. ReadIsOld'
  BY BoundsAssumption DEF Read, ReadIsOld, TypeOK, Commits, gitVars
<1>3. BehindIsBehind'
  BY DEF Read, BehindIsBehind, answers
<1> QED
  BY <1>1, <1>2, <1>3

LEMMA ReadFailsStep ==
  ASSUME Inductive, NEW p \in Paths, ReadFails(p)
  PROVE  Inductive'
<1> USE DEF Inductive
<1>1. TypeOK'
  BY NoAnswerType, BoundsAssumption DEF ReadFails, TypeOK, gitVars, tables
<1>2. ReadIsOld'
  BY DEF ReadFails, ReadIsOld, gitVars
<1>3. BehindIsBehind'
  BY DEF ReadFails, BehindIsBehind, NoAnswer, TypeOK
<1> QED
  BY <1>1, <1>2, <1>3

LEMMA FindTipStep ==
  ASSUME Inductive, FindTip
  PROVE  Inductive'
<1> USE DEF Inductive
<1>1. current \in Paths /\ UrlOf[current] \in Urls
  BY UrlAssumption DEF FindTip, ReadIsOld
<1>2. tip' \in Tips
  BY <1>1 DEF FindTip, TypeOK, Tips
<1>3. failures' \in 0..MaxFailures
  BY BoundsAssumption DEF FindTip, TypeOK
<1>4. TypeOK'
  BY <1>1, <1>2, <1>3 DEF FindTip, TypeOK, gitVars, tables
<1>5. ReadIsOld'
  BY DEF FindTip, ReadIsOld, gitVars
<1>6. BehindIsBehind'
  BY DEF FindTip, BehindIsBehind
<1> QED
  BY <1>4, <1>5, <1>6

LEMMA AnswerStep ==
  ASSUME Inductive, Answer
  PROVE  Inductive'
<1> USE DEF Inductive
<1>1. current \in Paths /\ info <= head[current]
  BY DEF Answer, ReadIsOld
<1>2. PICK compared \in BOOLEAN :
        /\ known' = [known EXCEPT ![current] =
                       [head |-> info, tip |-> tip, state |-> Verdict(current, compared)]]
        /\ IF compared
             THEN guessed' = guessed \ {current} /\ UNCHANGED failures
             ELSE /\ failures < MaxFailures
                  /\ guessed' = guessed \cup {current} /\ failures' = failures + 1
  BY DEF Answer
<1>3. [head |-> info, tip |-> tip, state |-> Verdict(current, compared)] \in Answers
  BY <1>1, VerdictStates DEF Answers, TypeOK
<1>4. failures' \in 0..MaxFailures /\ guessed' \subseteq Paths
  BY <1>1, <1>2, BoundsAssumption DEF TypeOK
<1>5. TypeOK'
  BY <1>1, <1>2, <1>3, <1>4, BoundsAssumption DEF Answer, TypeOK, Commits, Tips, gitVars, tables
<1>6. ReadIsOld'
  BY DEF Answer, ReadIsOld
<1>7. Verdict(current, compared) = "behind" => info # tip /\ (compared => info < tip)
  BY <1>1, VerdictBehind
<1>8. BehindIsBehind'
  BY <1>1, <1>2, <1>7 DEF BehindIsBehind, TypeOK
<1> QED
  BY <1>5, <1>6, <1>8

LEMMA PassEndsStep ==
  ASSUME Inductive, Stamp \/ EndPass
  PROVE  Inductive'
  BY DEF Inductive, TypeOK, ReadIsOld, BehindIsBehind, gitVars, tables, answers, Stamp, EndPass

LEMMA NextInductive == Inductive /\ [Next]_vars => Inductive'
<1> SUFFICES ASSUME Inductive, [Next]_vars PROVE Inductive'
  OBVIOUS
<1>1. CASE PassSteps
  BY <1>1, StartPassStep, PassEndsStep, FindTipStep, AnswerStep, ReadStep, ReadFailsStep
  DEF PassSteps
<1>2. CASE Ageing
  BY <1>2, TimeStep DEF Ageing
<1>3. CASE Others
  BY <1>3, OthersStep
<1>4. CASE \E p \in Paths : Invalidate(p)
  BY <1>4, TimeStep
<1>5. CASE UNCHANGED vars
  BY <1>5 DEF vars, gitVars, tables, answers, pass, Inductive, TypeOK, ReadIsOld, BehindIsBehind
<1> QED
  BY <1>1, <1>2, <1>3, <1>4, <1>5 DEF Next

(* The invariant that the theorems below are read off from.                *)
THEOREM InductiveInvariant == Spec => []Inductive
  BY InitInductive, NextInductive, PTL DEF Spec

(* The tables and locals of the repository status keep their types.        *)
THEOREM TypeCorrect == Spec => []TypeOK
<1>1. Inductive => TypeOK
  BY DEF Inductive
<1> QED
  BY <1>1, InductiveInvariant, PTL

(* "behind" is only said of a commit that is older than the tip it names,  *)
(* or, when git could not compare them, that is another one, whoever pulls *)
(* and pushes while the thread reads and compares.                         *)
THEOREM BehindIsRight == Spec => []BehindIsBehind
<1>1. Inductive => BehindIsBehind
  BY DEF Inductive
<1> QED
  BY <1>1, InductiveInvariant, PTL
=============================================================================
