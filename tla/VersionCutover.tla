---------------------------- MODULE VersionCutover ----------------------------
(***************************************************************************)
(* The M028 semantic-version metadata: one row per service beside the      *)
(* account tables.  Operators initialize it, read it and cut it over from  *)
(* version 1 to version 2 by a compare-and-update, each in a scope of its  *)
(* own on the same SQLite file; several may do so at a time.               *)
(*                                                                         *)
(* Artifact and normalized digest are compared together and only for       *)
(* equality: one value stands for the pair.                                *)
(***************************************************************************)
EXTENDS Integers, FiniteSets

CONSTANTS Operators, Services, Digests, None

Metadata == [service : Services, version : 1..2, digest : Digests]

VARIABLES
  exists,  \* whether the metadata table exists
  stored,  \* stored[s]: the row of service s, or None
  wlock,   \* the operator whose transaction holds the write lock
  fresh,   \* the transactions whose snapshot is the latest committed state
  op,      \* op[o]: the operation of o and where it is
  answer,  \* the answer the last step gave, or None
  done     \* history: the cutovers that were acknowledged

vars == <<exists, stored, wlock, fresh, op, answer, done>>

Idle == [kind |-> "idle"]
Operations == [kind : {"initialize"}, phase : {"insert", "commit"}, row : Metadata]
  \cup [kind : {"read"}, service : Services]
  \cup [kind : {"cutover"}, phase : {"read", "update", "commit"},
        expected : Metadata, next : Metadata]
Outcomes == {"ok", "sql", "missing-metadata", "service-id-mismatch",
             "version-mismatch", "digest-mismatch"}

(* What a composing module assumes of its parameters. *)
NoneIsApart == None \notin Operators \cup Metadata \cup Outcomes
-----------------------------------------------------------------------------
Init ==
  /\ exists = FALSE
  /\ stored = [s \in Services |-> None]
  /\ wlock = None /\ fresh = {}
  /\ op = [o \in Operators |-> Idle]
  /\ answer = None /\ done = {}

Answer(o, outcome, row) ==
  /\ answer' = [by |-> o, kind |-> op[o].kind, outcome |-> outcome, row |-> row]
  /\ op' = [op EXCEPT ![o] = Idle]

(* A failed operation ends its scope and with it its transaction. *)
Abort(o, outcome) ==
  /\ Answer(o, outcome, None)
  /\ wlock' = IF wlock = o THEN None ELSE wlock
  /\ fresh' = fresh \ {o}
  /\ UNCHANGED <<exists, stored, done>>

Begin(o, operation) ==
  /\ op[o] = Idle
  /\ op' = [op EXCEPT ![o] = operation]
  /\ answer' = None
  /\ UNCHANGED <<exists, stored, wlock, fresh, done>>

Rows == {s \in Services : stored[s] # None}

(* readMetadataWithSql: no table, no row at all, no row of this service.   *)
ReadFault(s) ==
  IF ~exists \/ Rows = {} THEN "missing-metadata"
  ELSE IF stored[s] = None THEN "service-id-mismatch" ELSE None
-----------------------------------------------------------------------------
(* initializeM028VersionMetadata: only version 1, in one transaction. *)
Initialize(o, m) ==
  /\ op[o] = Idle
  /\ IF m.version # 1
     THEN /\ answer' = [by |-> o, kind |-> "initialize", outcome |-> "version-mismatch", row |-> None]
          /\ UNCHANGED <<exists, stored, wlock, fresh, op, done>>
     ELSE Begin(o, [kind |-> "initialize", phase |-> "insert", row |-> m])

(* CREATE TABLE IF NOT EXISTS is the first write of the transaction: it    *)
(* takes the lock and the snapshot together.  The primary key refuses a    *)
(* second row of a service.                                                *)
Insert(o) ==
  /\ op[o].kind = "initialize" /\ op[o].phase = "insert"
  /\ IF wlock # None \/ stored[op[o].row.service] # None
     THEN Abort(o, "sql")
     ELSE /\ wlock' = o /\ fresh' = fresh \cup {o}
          /\ op' = [op EXCEPT ![o].phase = "commit"]
          /\ answer' = None
          /\ UNCHANGED <<exists, stored, done>>

Commit(o, row) ==
  /\ stored' = [stored EXCEPT ![row.service] = row]
  /\ exists' = TRUE
  /\ wlock' = None /\ fresh' = {}
  /\ Answer(o, "ok", row)

InitializeCommit(o) ==
  /\ op[o].kind = "initialize" /\ op[o].phase = "commit"
  /\ Commit(o, op[o].row)
  /\ UNCHANGED done

(* readM028VersionMetadata: one statement in a scope of its own. *)
StartRead(o, s) == Begin(o, [kind |-> "read", service |-> s])

Read(o) ==
  /\ op[o].kind = "read"
  /\ LET s == op[o].service IN
     IF ReadFault(s) # None THEN Answer(o, ReadFault(s), None)
                            ELSE Answer(o, "ok", stored[s])
  /\ UNCHANGED <<exists, stored, wlock, fresh, done>>

(* cutoverM028SemanticVersion: what it refuses before it reads anything. *)
InputFault(e, n) ==
  IF e.version # 1 \/ n.version # 2 THEN "version-mismatch"
  ELSE IF e.service # n.service THEN "service-id-mismatch" ELSE None

StartCutover(o, e, n) ==
  /\ op[o] = Idle
  /\ IF InputFault(e, n) # None
     THEN /\ answer' = [by |-> o, kind |-> "cutover", outcome |-> InputFault(e, n), row |-> None]
          /\ UNCHANGED <<exists, stored, wlock, fresh, op, done>>
     ELSE Begin(o, [kind |-> "cutover", phase |-> "read", expected |-> e, next |-> n])

(* metadataMismatch *)
Mismatch(e, current) ==
  IF current.version # e.version THEN "version-mismatch"
  ELSE IF current.digest # e.digest THEN "digest-mismatch" ELSE None

CutoverReadFault(e) ==
  IF ReadFault(e.service) # None THEN ReadFault(e.service)
  ELSE Mismatch(e, stored[e.service])

(* The read takes the transaction's snapshot. *)
CutoverRead(o) ==
  /\ op[o].kind = "cutover" /\ op[o].phase = "read"
  /\ LET fault == CutoverReadFault(op[o].expected) IN
     IF fault # None THEN Abort(o, fault)
     ELSE /\ fresh' = fresh \cup {o}
          /\ op' = [op EXCEPT ![o].phase = "update"]
          /\ answer' = None
          /\ UNCHANGED <<exists, stored, wlock, done>>

(* Faulty variant: the first write does not need a current snapshot, and   *)
(* the UPDATE matches the service alone.                                   *)
MayUpdateStale(o) == wlock = None

(* The UPDATE needs a current snapshot and the lock; the row it compares   *)
(* with is then the row that was read.                                     *)
MayUpdate(o) == /\ o \in fresh /\ wlock = None
                /\ stored[op[o].expected.service] = op[o].expected

CutoverUpdate(o) ==
  /\ op[o].kind = "cutover" /\ op[o].phase = "update"
  /\ IF ~MayUpdate(o) THEN Abort(o, "sql")
     ELSE /\ wlock' = o
          /\ op' = [op EXCEPT ![o].phase = "commit"]
          /\ answer' = None
          /\ UNCHANGED <<exists, stored, fresh, done>>

(* Faulty variant: the expected row is written back, with the new digest   *)
(* only.                                                                   *)
NextRowKeepsVersion(o) == [op[o].expected EXCEPT !.digest = op[o].next.digest]

NextRow(o) == op[o].next

CutoverCommit(o) ==
  /\ op[o].kind = "cutover" /\ op[o].phase = "commit"
  /\ Commit(o, NextRow(o))
  /\ done' = done \cup {[from |-> op[o].expected, to |-> op[o].next]}

(* Any statement may fail; a scope may die at any point.  COMMIT may have  *)
(* been the last thing it did: then the operator never learns of it.       *)
Fails(o) == op[o] # Idle /\ Abort(o, "sql")

DiesAfterCommit(o) ==
  /\ op[o].kind = "cutover" /\ op[o].phase = "commit"
  /\ stored' = [stored EXCEPT ![op[o].next.service] = NextRow(o)]
  /\ wlock' = None /\ fresh' = {}
  /\ op' = [op EXCEPT ![o] = Idle] /\ answer' = None
  /\ UNCHANGED <<exists, done>>
-----------------------------------------------------------------------------
Starts(o) ==
  \/ \E m \in Metadata : Initialize(o, m)
  \/ \E s \in Services : StartRead(o, s)
  \/ \E e, n \in Metadata : StartCutover(o, e, n)

Proceeds(o) ==
  \/ Insert(o) \/ InitializeCommit(o) \/ Read(o)
  \/ CutoverRead(o) \/ CutoverUpdate(o) \/ CutoverCommit(o)

Next == \E o \in Operators : Starts(o) \/ Proceeds(o) \/ Fails(o) \/ DiesAfterCommit(o)

Spec == Init /\ [][Next]_vars
-----------------------------------------------------------------------------
(* An acknowledged cutover is final and the only one of its service: two   *)
(* operators that race from version 1 to different candidates never both   *)
(* succeed, and what the winner installed is what every later reader gets. *)
CutoverIsFinal == \A c \in done :
  /\ stored[c.to.service] = c.to
  /\ \A d \in done : d.to.service = c.to.service => d = c

(* The row of a service appears at version 1, advances to version 2 at     *)
(* most once and never changes or disappears otherwise; no step touches    *)
(* the rows of two services.                                               *)
VersionsOnlyAdvance ==
  [][\A s \in Services : stored'[s] # stored[s] =>
       /\ stored'[s] # None
       /\ stored'[s].version = IF stored[s] = None THEN 1 ELSE stored[s].version + 1
       /\ \A t \in Services \ {s} : stored'[t] = stored[t]]_vars
=============================================================================
