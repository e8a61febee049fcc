----------------------------- MODULE LabsSolve -----------------------------
(***************************************************************************)
(* The two least-squares solvers of the training site: calibrate, the      *)
(* camera calibration of src/training/js/ch/11-calibration.js, and pnp,    *)
(* the pose solve of src/training/js/ch/12-pose.js.  Both are              *)
(* Levenberg-Marquardt: a round builds the equations once, then tries      *)
(* steps under more and more damping until one lowers the cost.            *)
(*                                                                         *)
(* Which step the equations give is arithmetic that is left out: a step    *)
(* leads to any cost.  A cost that is not a finite number is the highest.  *)
(***************************************************************************)
EXTENDS Integers

CONSTANTS
    SolveCosts,  \* the costs a step may lead to, finite numbers
    NotFinite,   \* a cost that is not one
    SolveRounds, \* iters: rounds at most
    SolveTries   \* steps tried in a round, by solver

ASSUME SolveAssumption ==
    /\ SolveCosts \subseteq Nat /\ NotFinite \in Nat
    /\ \A c \in SolveCosts : c < NotFinite
    /\ SolveRounds \in Nat \ {0}
    /\ SolveTries \in [{"calibrate", "pnp"} -> Nat \ {0}]

VARIABLES
    soWho,   \* the solver
    soCost,  \* cur, cost: the cost of what is kept
    soKept,  \* p, pose: the step it came with, 0 the first guess
    soFits,  \* views, r0: the step that the views and the residuals are of
    soStep,  \* steps tried so far
    soRound, \* it
    soTry,   \* tries, t
    soDone,  \* the solver has returned
    soTried  \* history: every cost a step led to, the first guess's too

solveVars == <<soWho, soCost, soKept, soFits, soStep, soRound, soTry, soDone, soTried>>

MostSteps == SolveRounds * SolveTries[soWho]

SolveTypeOK ==
    /\ soWho \in {"calibrate", "pnp"}
    /\ soCost \in SolveCosts
    /\ soKept \in 0..MostSteps /\ soFits \in 0..MostSteps /\ soStep \in 0..MostSteps
    /\ soRound \in 0..SolveRounds
    /\ soTry \in 0..SolveTries[soWho]
    /\ soDone \in BOOLEAN
    /\ soTried \subseteq SolveCosts \cup {NotFinite}

SolveInit ==
    /\ soWho \in {"calibrate", "pnp"}
    /\ soCost \in SolveCosts
    /\ soKept = 0 /\ soFits = 0 /\ soStep = 0
    /\ soRound = 0 /\ soTry = 0 /\ soDone = FALSE
    /\ soTried = {soCost}

Working == ~soDone /\ soRound < SolveRounds

\* A step that lowers the cost is kept, whole, and the round is over.  pnp stops
\* when it lowered the cost by next to nothing.
Improves(c) ==
    /\ Working /\ soTry < SolveTries[soWho]
    /\ c < soCost
    /\ soCost' = c
    /\ soKept' = soStep + 1 /\ soFits' = soStep + 1 /\ soStep' = soStep + 1
    /\ soTried' = soTried \cup {c}
    /\ soTry' = 0
    /\ soRound' \in {soRound + 1} \cup (IF soWho = "pnp" THEN {SolveRounds} ELSE {})
    /\ UNCHANGED <<soWho, soDone>>

\* Mutant: the step tried is kept until a better one comes.
RejectKeeps(c) ==
    /\ Working /\ soTry < SolveTries[soWho]
    /\ c >= soCost
    /\ soTry' = soTry + 1 /\ soStep' = soStep + 1
    /\ soTried' = soTried \cup {c}
    /\ soKept' = soStep + 1
    /\ UNCHANGED <<soWho, soCost, soFits, soRound, soDone>>

\* Any other step is dropped; the next one is damped more.
Reject(c) ==
    /\ Working /\ soTry < SolveTries[soWho]
    /\ c >= soCost
    /\ soTry' = soTry + 1 /\ soStep' = soStep + 1
    /\ soTried' = soTried \cup {c}
    /\ UNCHANGED <<soWho, soCost, soKept, soFits, soRound, soDone>>

\* A round without a better step is the last, and so is the last round.
Return ==
    /\ ~soDone
    /\ soRound = SolveRounds \/ soTry = SolveTries[soWho]
    /\ soDone' = TRUE
    /\ UNCHANGED <<soWho, soCost, soKept, soFits, soStep, soRound, soTry, soTried>>

SolveNext ==
    \/ \E c \in SolveCosts : Improves(c)
    \/ \E c \in SolveCosts \cup {NotFinite} : Reject(c)
    \/ Return

SolveSpec == SolveInit /\ [][SolveNext]_solveVars

-----------------------------------------------------------------------------
\* What a solver returns is the best of all it tried, and its parts are of one
\* step: the parameters kept, and the views or residuals used with them.
SolverKeepsBest ==
    /\ soKept = soFits
    /\ soCost \in soTried /\ \A c \in soTried : soCost <= c

=============================================================================
