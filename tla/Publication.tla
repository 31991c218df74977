----------------------------- MODULE Publication -----------------------------
(***************************************************************************)
(* publishAtomically: a publisher stages all its entries, takes custody of *)
(* the prior bytes of each path, renames the staged files into place one   *)
(* by one in path order and, when a rename fails, restores what it had     *)
(* renamed, last first.  Nothing locks the tree: several commands may      *)
(* publish into one repository at a time.  Effect.catch sees typed         *)
(* failures only: an interrupted or killed publisher rolls nothing back.   *)
(*                                                                         *)
(* The file system is external: rename is atomic, copyFile is not.         *)
(***************************************************************************)
EXTENDS Integers, Sequences, FiniteSets

CONSTANTS
  Paths,       \* repository-relative paths
  Publishers,  \* commands publishing into the same tree
  Request,     \* Request[p]: the entries of p, in localeCompare order
  Bytes,       \* file contents
  Torn,        \* the content of a file whose overwriting was cut short
  NoFile       \* the absence of a file

Entry == [path : Paths, bytes : Bytes]

VARIABLES
  files,     \* the tree: the content of each path
  pc,        \* the stage of each publisher
  index,     \* the entry a publisher works on
  custody,   \* custody[p][i]: prior bytes of p's entry i, NoFile if not prior
  broken,    \* broken[p]: the entries whose restore failed
  before     \* history: the tree before anybody published

vars == <<files, pc, index, custody, broken, before>>

Size(p)    == Len(Request[p])
Path(p, i) == Request[p][i].path
New(p, i)  == Request[p][i].bytes

Contents == Bytes \cup {NoFile, Torn}
Ended    == {"published", "failed", "rollback-failed", "killed"}
Stages   == Ended \cup {"entries", "stage", "inspect", "retain", "commit", "rollback"}
-----------------------------------------------------------------------------
Init ==
  /\ files   \in [Paths -> Bytes \cup {NoFile}]
  /\ pc      = [p \in Publishers |-> "entries"]
  /\ index   = [p \in Publishers |-> 1]
  /\ custody = [p \in Publishers |-> [i \in 1..Size(p) |-> NoFile]]
  /\ broken  = [p \in Publishers |-> {}]
  /\ before  = files

Goto(p, stage) == pc' = [pc EXCEPT ![p] = stage]

HasDuplicate(p) == \E i \in 2..Size(p) : Path(p, i - 1) = Path(p, i)

(* Entries are sorted by path, so equal paths are neighbours. *)
RequestsAreSorted ==
  /\ NoFile \notin Bytes /\ Torn \notin Bytes /\ Torn # NoFile
  /\ Request \in [Publishers -> Seq(Entry)]
  /\ \A p \in Publishers : \A i, j \in 1..Size(p) :
       i < j /\ Path(p, i) = Path(p, j) => HasDuplicate(p)

(* Duplicates fail before anything is written; making the temporary        *)
(* directory may fail too.                                                 *)
Enter(p) ==
  /\ pc[p] = "entries"
  /\ \/ Goto(p, "failed")
     \/ ~HasDuplicate(p) /\ Goto(p, IF Size(p) = 0 THEN "published" ELSE "stage")
  /\ UNCHANGED <<files, index, custody, broken, before>>

(* The bytes go to a staged file of the publisher's own. *)
Stage(p) ==
  /\ pc[p] = "stage"
  /\ Goto(p, "inspect") \/ Goto(p, "failed")
  /\ UNCHANGED <<files, index, custody, broken, before>>

(* Faulty variant: the last entry is not staged. *)
StageNextShort(p) ==
  IF index[p] < Size(p) - 1
  THEN index' = [index EXCEPT ![p] = @ + 1] /\ Goto(p, "stage")
  ELSE index' = [index EXCEPT ![p] = 1] /\ Goto(p, "commit")

(* On to the next entry, or to the renames after the last one. *)
StageNext(p) ==
  IF index[p] < Size(p)
  THEN index' = [index EXCEPT ![p] = @ + 1] /\ Goto(p, "stage")
  ELSE index' = [index EXCEPT ![p] = 1] /\ Goto(p, "commit")

(* exists(finalPath) *)
Inspect(p) ==
  /\ pc[p] = "inspect"
  /\ \/ Goto(p, "failed") /\ UNCHANGED index
     \/ files[Path(p, index[p])] # NoFile /\ Goto(p, "retain") /\ UNCHANGED index
     \/ files[Path(p, index[p])] = NoFile /\ StageNext(p)
  /\ UNCHANGED <<files, custody, broken, before>>

(* copyFile(finalPath, custodyPath): the file may be gone by now. *)
Retain(p) ==
  /\ pc[p] = "retain"
  /\ \/ Goto(p, "failed") /\ UNCHANGED <<index, custody>>
     \/ /\ files[Path(p, index[p])] # NoFile
        /\ custody' = [custody EXCEPT ![p][index[p]] = files[Path(p, index[p])]]
        /\ StageNext(p)
  /\ UNCHANGED <<files, broken, before>>

(* mkdir and rename; only a completed rename counts as committed. *)
Commit(p) ==
  /\ pc[p] = "commit"
  /\ files' = [files EXCEPT ![Path(p, index[p])] = New(p, index[p])]
  /\ index' = [index EXCEPT ![p] = @ + 1]
  /\ IF index[p] = Size(p) THEN Goto(p, "published") ELSE UNCHANGED pc
  /\ UNCHANGED <<custody, broken, before>>

(* The rollback starts at the last committed entry; with none committed    *)
(* there is nothing to restore.                                            *)
CommitFails(p) ==
  /\ pc[p] = "commit"
  /\ index' = [index EXCEPT ![p] = @ - 1]
  /\ IF index[p] = 1 THEN Goto(p, "failed") ELSE Goto(p, "rollback")
  /\ UNCHANGED <<files, custody, broken, before>>

(* Faulty variant: one step too many. *)
RestoreNextFar(p) ==
  /\ index' = [index EXCEPT ![p] = @ - 1]
  /\ IF index[p] = 0
     THEN Goto(p, IF broken'[p] = {} THEN "failed" ELSE "rollback-failed")
     ELSE UNCHANGED pc
  /\ UNCHANGED <<custody, before>>

RestoreNext(p) ==
  /\ index' = [index EXCEPT ![p] = @ - 1]
  /\ IF index[p] = 1
     THEN Goto(p, IF broken'[p] = {} THEN "failed" ELSE "rollback-failed")
     ELSE UNCHANGED pc
  /\ UNCHANGED <<custody, before>>

(* Faulty variant: every committed entry is removed. *)
RestoreRemoves(p) ==
  /\ pc[p] = "rollback"
  /\ files' = [files EXCEPT ![Path(p, index[p])] = NoFile]
  /\ UNCHANGED broken
  /\ RestoreNext(p)

(* Copy the prior bytes back, or remove the file that was not there. *)
Restore(p) ==
  /\ pc[p] = "rollback"
  /\ files' = [files EXCEPT ![Path(p, index[p])] = custody[p][index[p]]]
  /\ UNCHANGED broken
  /\ RestoreNext(p)

(* Faulty variant: the first failing restore ends the rollback. *)
RestoreFailsAborts(p) ==
  /\ pc[p] = "rollback"
  /\ broken' = [broken EXCEPT ![p] = @ \cup {index[p]}]
  /\ Goto(p, "rollback-failed")
  /\ UNCHANGED <<files, index, custody, before>>

(* A restore that fails is remembered and the others still run.  A failing *)
(* copyFile leaves its target alone or removes it.                         *)
RestoreFails(p) ==
  /\ pc[p] = "rollback"
  /\ \/ UNCHANGED files
     \/ /\ custody[p][index[p]] # NoFile
        /\ files' = [files EXCEPT ![Path(p, index[p])] = NoFile]
  /\ broken' = [broken EXCEPT ![p] = @ \cup {index[p]}]
  /\ RestoreNext(p)

(* The command is interrupted or killed between two of its steps, or in    *)
(* the middle of a copy back.  Its custody is of no use to a later run.    *)
Kill(p) ==
  /\ pc[p] \notin Ended
  /\ Goto(p, "killed")
  /\ \/ UNCHANGED files
     \/ /\ pc[p] = "rollback" /\ custody[p][index[p]] # NoFile
        /\ files' = [files EXCEPT ![Path(p, index[p])] = Torn]
  /\ UNCHANGED <<index, custody, broken, before>>

Work(p) == \/ Enter(p) \/ Stage(p) \/ Inspect(p) \/ Retain(p)
           \/ Commit(p) \/ CommitFails(p) \/ Restore(p) \/ RestoreFails(p)

(* Nobody is publishing any more. *)
Stopped == (\A p \in Publishers : pc[p] \in Ended) /\ UNCHANGED vars

Next == (\E p \in Publishers : Work(p) \/ Kill(p)) \/ Stopped

Spec == Init /\ [][Next]_vars
-----------------------------------------------------------------------------
(* A publisher keeps one custody slot per entry and works on an entry of   *)
(* its request while it has one to work on.                                *)
Sized(p) ==
  /\ custody[p] \in [1..Size(p) -> Contents]
  /\ broken[p] \subseteq 1..Size(p)
  /\ index[p] \in 0..(Size(p) + 1)
  /\ pc[p] = "entries" => index[p] = 1
  /\ pc[p] \in {"stage", "inspect", "retain", "commit", "rollback"}
       => index[p] \in 1..Size(p)

(* Type invariant. *)
TypeOK ==
  /\ files \in [Paths -> Contents]
  /\ before \in [Paths -> Bytes \cup {NoFile}]
  /\ pc \in [Publishers -> Stages]
  /\ index \in [Publishers -> Nat]
  /\ DOMAIN custody = Publishers /\ DOMAIN broken = Publishers
  /\ \A p \in Publishers : Sized(p)

(* No other publisher writes a path of p. *)
Alone(p) == \A q \in Publishers \ {p} :
  \A i \in 1..Size(p), j \in 1..Size(q) : Path(p, i) # Path(q, j)

Published(p, i) == files[Path(p, i)] = New(p, i)
Untouched(p, i) == files[Path(p, i)] = before[Path(p, i)]

(* A publisher that reaches its end, undisturbed on its own paths, has     *)
(* published every entry, or it reports a failure and every entry it could *)
(* restore has its prior bytes: none is skipped because another restore    *)
(* failed.  Publishers of other paths may fail, roll back or die meanwhile *)
(* (commit and rollback of publishAtomically).                             *)
AtomicUnlessKilled == \A p \in Publishers : Alone(p) =>
  /\ pc[p] = "published" => \A i \in 1..Size(p) : Published(p, i)
  /\ pc[p] = "failed" => \A i \in 1..Size(p) : Untouched(p, i)
  /\ pc[p] = "rollback-failed" =>
       /\ broken[p] # {}
       /\ \A i \in 1..Size(p) : i \notin broken[p] => Untouched(p, i)

(* A killed publisher leaves a prefix of its ordered entries published and *)
(* the others as they were, but for the file it was copying back and those *)
(* whose restore had failed.                                               *)
KilledLeavesPrefix == \A p \in Publishers : Alone(p) /\ pc[p] = "killed" =>
  \E k \in 0..Size(p) : \A i \in 1..Size(p) :
     \/ i \in broken[p]
     \/ i = index[p] /\ files[Path(p, i)] = Torn
     \/ IF i <= k THEN Published(p, i) ELSE Untouched(p, i)

(* Whatever a publisher will restore is what the tree held before: the     *)
(* custody of a publisher that renames or rolls back has the prior bytes   *)
(* of every entry, taken before its first rename.                          *)
CustodyIsPrior == \A p \in Publishers :
  Alone(p) /\ pc[p] \in {"commit", "rollback"} =>
    \A i \in 1..Size(p) : custody[p][i] = before[Path(p, i)]

(* docs/repository-map.md: one transaction publishes the closure "or       *)
(* restores all prior bytes".                                              *)
PublishesOrRestores == \A p \in Publishers : pc[p] \in Ended =>
  \/ \A i \in 1..Size(p) : Published(p, i)
  \/ \A i \in 1..Size(p) : Untouched(p, i)
=============================================================================
