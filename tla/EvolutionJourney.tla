--------------------------- MODULE EvolutionJourney ---------------------------
(***************************************************************************)
(* runM028CompatibleRuntimeJourney: the transfer journey, then the cutover *)
(* of the semantic version in the same file, then a transfer under the     *)
(* candidate plan and a comparison after the file is opened again.  It     *)
(* composes TransferJourney with VersionCutover: the journey's fiber is    *)
(* the only operator.                                                      *)
(***************************************************************************)
EXTENDS TransferJourney

CONSTANTS Service, OtherServices,                    \* rows of the metadata table
          BaselineDigest, CandidateDigest, OtherDigests,
          Rivals,        \* other operators on the same file
          PostAmount

VARIABLES exists, stored, vlock, vfresh, op, answer, done,  \* VersionCutover's
          versions   \* versionBeforeCutover, versionAfterCutover, reopenedVersion

Operators == {Driver} \cup Rivals
Services  == {Service} \cup OtherServices
Digests   == {BaselineDigest, CandidateDigest} \cup OtherDigests

V == INSTANCE VersionCutover WITH wlock <- vlock, fresh <- vfresh


versionVars == <<exists, stored, vlock, vfresh, op, answer, done>>
eVars == <<allVars, versionVars, versions>>

VersionOne == [service |-> Service, version |-> 1, digest |-> BaselineDigest]
VersionTwo == [service |-> Service, version |-> 2, digest |-> CandidateDigest]
Version(kind, name) == <<[op |-> kind, name |-> name]>>

(* What follows the transfer journey; it is the value of Continuation.     *)
(* "advance" compares with expectedAfterTransfer.                          *)
EvolutionScript ==
  Do("baseline")
    \o Version("initialize", "initialized") \o Version("read", "before") \o Version("cutover", "after")
    \o Each("query", "afterCutover") \o Compare("committed", "afterCutover")
    \o Move(PostAmount) \o Each("query", "afterTransfer") \o Do("advance") \o Do("close")
    \o Each("query", "afterReopen") \o Version("read", "reopened")
    \o Compare("afterTransfer", "afterReopen") \o Do("sameVersion")

ASSUME EvolutionAssumption ==
  /\ Continuation = EvolutionScript
  /\ Driver \notin Rivals /\ V!NoneIsApart
  /\ PostAmount \in Amounts

EInit == JInit /\ V!Init /\ versions = <<>>

JourneyStep == JNext /\ UNCHANGED <<versionVars, versions>>

(* A failed version operation ends the journey. *)
TakeVersion(reply_) ==
  IF reply_ = None THEN UNCHANGED <<at, ended, versions>>
  ELSE IF reply_.outcome = "ok"
  THEN Proceed /\ versions' = With(versions, Stmt.name, reply_.row)
  ELSE End("versionFailure") /\ UNCHANGED versions

VersionStep ==
  /\ Running
  /\ \/ IsOp("initialize") /\ V!Initialize(Driver, VersionOne)
     \/ IsOp("read") /\ V!StartRead(Driver, Service)
     \/ IsOp("cutover") /\ V!StartCutover(Driver, versions["before"], VersionTwo)
     \/ V!Proceeds(Driver)
     \/ V!Fails(Driver)
  /\ TakeVersion(answer')
  /\ UNCHANGED <<vars, queue, runs, got>>

(* Bound: other operators arrive when the transfer journey is over. *)
RivalsArrived == at > Len(FirstScope \o ReopenedScope)

(* Other operators initialize, read and cut over rows of the same table. *)
RivalStep ==
  /\ RivalsArrived
  /\ \E o \in Rivals :
       V!Starts(o) \/ V!Proceeds(o) \/ V!Fails(o) \/ V!DiesAfterCommit(o)
  /\ UNCHANGED <<allVars, versions>>

(* assertExpectedBaseline: both accounts hold 6 after the first transfer. *)
ExpectedBaseline ==
  /\ got[Slot("committed", Source)] = [balance |-> 6, revision |-> 1]
  /\ got[Slot("committed", Target)] = [balance |-> 6, revision |-> 1]
  /\ got[Slot("committed", TotalKey)] = [total |-> 12, revision |-> 1]
  /\ \A w \in Watchers : got[Slot("committed", w)] = got[Slot("reopened", w)]

ExpectedAfterTransfer ==
  LET before(w) == got[Slot("afterCutover", w)]
      after(w)  == got[Slot("afterTransfer", w)] IN
  /\ after(Source) = [balance |-> before(Source).balance - PostAmount,
                      revision |-> before(Source).revision + 1]
  /\ after(Target) = [balance |-> before(Target).balance + PostAmount,
                      revision |-> before(Target).revision + 1]
  /\ after(TotalKey) = [total |-> before(TotalKey).total,
                        revision |-> before(TotalKey).revision + 1]

(* sameStoredMetadata of the reopened and the committed version. *)
SameVersion == versions["reopened"] = versions["after"]

Judge ==
  /\ \/ IsOp("baseline") /\ IF ExpectedBaseline THEN Proceed ELSE End("observationFailure")
     \/ IsOp("advance")
          /\ IF ExpectedAfterTransfer THEN Proceed ELSE End("observationFailure")
     \/ IsOp("sameVersion") /\ IF SameVersion THEN Proceed ELSE End("parityFailure")
  /\ UNCHANGED <<vars, queue, runs, got, versionVars, versions>>

ENext == JourneyStep \/ VersionStep \/ RivalStep \/ Judge

ESpec == EInit /\ [][ENext]_eVars

(* The journey's own steps are taken when they can be: the fiber waits for *)
(* nobody but the connection and its three queues.                         *)
DriverStep ==
  \/ (Call \/ Serve \/ Collect \/ Take \/ Deadline \/ Count \/ Close \/ CompareSlots \/ Done)
       /\ UNCHANGED <<versionVars, versions>>
  \/ VersionStep \/ Judge
EFairSpec == ESpec /\ WF_eVars(DriverStep) /\ WF_eVars(Listen /\ UNCHANGED <<versionVars, versions>>)
-----------------------------------------------------------------------------
(* The evolution journey never fails a comparison of its own: the cutover  *)
(* changes no account and no total, the transfer after it is exact, and    *)
(* what is read after the file is opened again is what was committed.      *)
EvolutionChecksHold ==
  /\ ended \notin {"observationFailure", "parityFailure", "runsFailure", "acceptedOverdraft"}
  /\ SnapshotsAgree

(* Wherever the journey stops, and whatever other operators do to the      *)
(* version row, the file tells how far it came: money moves a second time  *)
(* only under the candidate version.                                       *)
VersionFollowsData ==
  LET moved_ == rows[Source] # NoRow /\ rows[Source].revision = 2 IN
  /\ moved_ => stored[Service] = VersionTwo
  /\ ended = "done" => moved_

(* The journey ends: no wait for the connection, a snapshot or a version   *)
(* operation lasts for ever, failures and rival operators included.        *)
JourneyEnds == <>(ended # None)

(* An advanced version row stays, with the journey as one of the operators:*)
(* VersionCutover.                                                         *)
CutoverIsFinal == V!CutoverIsFinal
=============================================================================
