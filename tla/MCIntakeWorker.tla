--------------------------- MODULE MCIntakeWorker ---------------------------
(***************************************************************************)
(* Two parts of the intake worker, side by side: IntakeRun, a run that     *)
(* takes a checkout attempt as one step, and Checkout, such an attempt.    *)
(* They share no variable.  A behaviour stays in the part it begins in.    *)
(***************************************************************************)
EXTENDS IntakeRun

CONSTANTS New,   \* the repository that may be new: the others have checkout and board
          Onboarders, Nobody, MaxTip, MaxTouches

VARIABLES part, tip, managed, disk, co, lock, proc, touches

C == INSTANCE Checkout WITH Procs <- Onboarders

ASSUME OnboardersAssumption == C!CheckoutAssumption

checkoutVars == <<tip, managed, disk, co, lock, proc, touches>>
parts == <<part, vars, checkoutVars>>

PartsInit ==
  /\ part \in {"run", "checkout"} /\ Init /\ C!Init
  /\ \A r \in Repos : part # "run" \/ r # New => checkout[r] = "ok" /\ board[r] = "ok"
  /\ part # "checkout" => disk = "checkout" /\ ~co.shallow

Run(A) == part = "run" /\ A /\ UNCHANGED <<part, checkoutVars>>
Heals(A) == part = "checkout" /\ A /\ UNCHANGED <<part, vars>>

PartsNext == Run(Next) \/ Heals(C!Next)

Launches == \E p \in Procs : Claim(p, Full)
Acquires == \E p \in Onboarders : C!Acquire(p, "ensure")
Running == \E p \in Procs : Steps(p)
Advancing == \E p \in Onboarders : C!Advances(p)

\* In each part this is the part's own fairness, and nothing more.
PartsFairness ==
  /\ SF_parts(Run(Launches) \/ Heals(Acquires))
  /\ WF_parts(Run(Running) \/ Heals(Advancing))
  /\ WF_parts(Run(AskSweep)) /\ WF_parts(Run(Expire))

PartsSpec == PartsInit /\ [][PartsNext]_parts /\ PartsFairness

\* The operator's work in a checkout is never lost (Checkout, ReadRefs to Merge).
OperatorWorkKept == C!OperatorWorkKept

\* A checkout reported good has the commit it was to have (Checkout, Validate).
GoodHasTarget == C!GoodHasTarget

\* A sound checkout reaches the newest commit (Checkout, Fairness).
SoundCheckoutCatchesUp == C!SoundCheckoutCatchesUp
=============================================================================
