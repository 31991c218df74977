----------------------------- MODULE Boundaries -----------------------------
(***************************************************************************)
(* The parts of the system that guard something shared: the exact-one      *)
(* boundary the Effect target generates, the one the Gleam target          *)
(* generates, the bounded channel trace and the publication of files.      *)
(* They share no state; what each must keep is stated here in one place.   *)
(***************************************************************************)
EXTENDS Integers, Sequences, FiniteSets

CONSTANTS TraceSelections,                                   \* Channel's
          Realization, OtherJourneys,                        \* EffectBoundary's
          Rivals, RivalAmounts, MaxSent, MaxRestarts,        \* SupervisedEntity's
          TreePaths, Publishers, Request, Bytes, TornFile, NoFile  \* Publication's

VARIABLES
  selection, stage, traces, taken, ownerA, ownerB, handled, observed, mutations,
  report,         \* Channel's
  grantStates, implementationCalls, fibers, journey, phasesSeen,
  grantRuns,      \* EffectBoundary's
  exactOne, actor, mailbox, clients, script, heard, granted,
  operationRuns,  \* SupervisedEntity's
  tree, publishing, entry, custody, broken, priorTree  \* Publication's

Trace == INSTANCE Channel
Effect == INSTANCE EffectBoundary
Gleam == INSTANCE SupervisedEntity
Files == INSTANCE Publication
           WITH Paths <- TreePaths, Torn <- TornFile, files <- tree, before <- priorTree,
                pc <- publishing, index <- entry

ASSUME SelectionsAssumption == Trace!SelectionsAreDecoded
ASSUME JourneysAssumption == Effect!JourneysAreTyped
ASSUME AmountsAssumption == Gleam!AmountsAreIntegers
ASSUME RequestsAssumption == Files!RequestsAreSorted
-----------------------------------------------------------------------------
(* A reported trace says of each schedule what the schedule says, and no   *)
(* trace is refuted after it was executed: Channel.                        *)
VerdictsTellTheSchedules == Trace!VerdictsTellTheSchedules

(* Whatever is delivered, dropped or forced, the owners of the protocol    *)
(* move as Coordination allows: Channel.                                   *)
OwnersCoordinate == Trace!OwnersCoordinate

(* One grant, one run of the implementation, at both generated boundaries: *)
(* EffectBoundary, SupervisedEntity.                                       *)
GrantsBuyOneRun == Effect!GrantsBuyOneRun /\ Gleam!GrantsBuyOneRun

(* Both probes print what the evidence package demands, or nothing:        *)
(* EffectBoundary, SupervisedEntity.                                       *)
ProbesShowExactOne == Effect!ProbeShowsExactOne /\ Gleam!ProbeShowsExactOne

(* A publisher that nobody kills publishes every entry or restores every   *)
(* entry it can: Publication.                                              *)
AtomicUnlessKilled == Files!AtomicUnlessKilled

(* A killed one leaves a prefix of its entries: Publication.               *)
KilledLeavesPrefix == Files!KilledLeavesPrefix

(* What a publisher will restore is the tree it found: Publication.        *)
CustodyIsPrior == Files!CustodyIsPrior
=============================================================================
