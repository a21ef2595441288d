--------------------------- MODULE BurnLifecycle ---------------------------
(***************************************************************************)
(* What BurnEngine promises to the window that draws it: the life of one   *)
(* job as it can be read from successive calls of BurnEngine::Snapshot.    *)
(* There are no threads here: one job at a time, started only when the     *)
(* previous one has settled, moving through the stages in order, and       *)
(* settling exactly once.  BurnEngine.tla implements this specification.   *)
(***************************************************************************)
EXTENDS Naturals

CONSTANT FullProgress   \* the value that stands for progress = 1.0F, at least 2

VARIABLES stage, busy, writing, progress, session

lifecycleVars == <<stage, busy, writing, progress, session>>

Stages == {"Idle", "Preparing", "Ready", "BurningSession1",
           "BurningSession2", "Complete", "Failed"}

Burning == {"BurningSession1", "BurningSession2"}

\* 0.999F: what a running write may show at most
WriteCap == FullProgress - 1

Init ==
  /\ stage = "Idle"
  /\ busy = FALSE
  /\ writing = FALSE
  /\ progress = 0
  /\ session = 0

\* Start and StartBurnerMaxTest: only a settled engine takes a request.
Accept ==
  /\ ~busy
  /\ stage' = "Preparing"
  /\ busy' = TRUE
  /\ writing' = FALSE
  /\ progress' = 0
  /\ session' = 0

\* Reset
Forget ==
  /\ ~busy
  /\ stage' = "Idle"
  /\ writing' = FALSE
  /\ progress' = 0
  /\ session' = 0
  /\ UNCHANGED busy

\* Preparation may show any progress, and shows several bars in turn.
Prepare ==
  /\ stage = "Preparing"
  /\ progress' \in 0 .. FullProgress
  /\ writing' = FALSE
  /\ UNCHANGED <<stage, busy, session>>

\* A first session opens after preparation, with an empty progress bar, and
\* really writes or is a dry run; a second one only after a first that wrote.
OpenFirstSession ==
  /\ stage = "Preparing"
  /\ stage' = "BurningSession1"
  /\ session' = 1
  /\ progress' = 0
  /\ writing' \in BOOLEAN
  /\ UNCHANGED busy

OpenSecondSession ==
  /\ stage = "BurningSession1" /\ writing
  /\ stage' = "BurningSession2"
  /\ session' = 2
  /\ UNCHANGED <<busy, writing, progress>>

\* During a session the bar never moves back and never reads as finished.
Advance ==
  /\ stage \in Burning
  /\ progress' \in progress .. WriteCap
  /\ UNCHANGED <<stage, busy, writing, session>>

FinishBurn ==
  /\ stage \in Burning /\ writing
  /\ stage' = "Complete"
  /\ progress' = FullProgress
  /\ UNCHANGED session

FinishWithoutWriting ==
  /\ stage = "Preparing" \/ (stage \in Burning /\ ~writing)
  /\ stage' = "Ready"
  /\ progress' \in {0, progress, FullProgress}
  /\ UNCHANGED session

GiveUp ==
  /\ stage' = "Failed"
  /\ UNCHANGED <<progress, session>>

\* However a job ends, busy and writing fall in the same step.
Settle ==
  /\ busy
  /\ busy' = FALSE
  /\ writing' = FALSE
  /\ FinishBurn \/ FinishWithoutWriting \/ GiveUp

Next ==
  \/ Accept \/ Forget
  \/ Prepare
  \/ OpenFirstSession \/ OpenSecondSession
  \/ Advance
  \/ Settle

Spec == Init /\ [][Next]_lifecycleVars /\ WF_lifecycleVars(Settle)
============================================================================
