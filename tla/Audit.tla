-------------------------------- MODULE Audit --------------------------------
(***************************************************************************)
(* What bang audit and the invalidation journey compute from a published   *)
(* closure: the recorded materials with the records citing them, the       *)
(* verdict of each against current bytes, and the records to retire.       *)
(*                                                                         *)
(* A citation is [path, role, sha, by], sha being {} or {digest}.  Bytes   *)
(* stand for their own digest.                                             *)
(***************************************************************************)
EXTENDS Naturals, Sequences, FiniteSets

Decoded == {"core-source", "theory-package"}
Derived == {"assembly-report", "plan-report", "qualification-report", "evidence-record",
            "semantic-artifact", "theory-lock"}

MaterialClassForRole(role) == CASE role \in Decoded -> "decoded"
                                [] role \in Derived -> "derived"
                                [] OTHER            -> "opaque"

(* collectAuditMaterials: one entry for each path.  The first citation of a*)
(* path fixes its role and recorded digest, later ones only add a citer.   *)
CollectMaterials(citations) ==
  LET all == 1..Len(citations)
      At(p) == {i \in all : citations[i].path = p}
      First(p) == citations[CHOOSE i \in At(p) : \A j \in At(p) : i <= j]
  IN [p \in {citations[i].path : i \in all} |->
        [role |-> First(p).role, class |-> MaterialClassForRole(First(p).role),
         sha |-> First(p).sha, citedBy |-> {citations[i].by : i \in At(p)}]]

(* verifyMaterialEntries, for one material with these bytes. *)
Status(material, bytes) == IF material.sha = {} THEN "deferred"
                           ELSE IF material.sha = {bytes} THEN "unchanged" ELSE "changed"

ClassifyBytesOnly(material, status, packageSame, coreSame) == status

(* classifyMaterialChanges: a changed decoded material that still means    *)
(* what the closure was built from is only a cosmetic change.              *)
ClassifyChange(material, status, packageSame, coreSame) ==
  IF status # "changed" \/ material.class = "opaque" THEN status
  ELSE IF material.role = "theory-package"
       THEN IF packageSame THEN "cosmetic" ELSE "changed"
       ELSE IF coreSame THEN "cosmetic" ELSE "changed"

(* resolveDerivedDrift: only the lock and the package have a cheap producer*)
(* to be compared with; other deferred members stay deferred.              *)
ResolveDrift(material, status, lockSame, packageSame) ==
  IF status # "deferred" THEN status
  ELSE CASE material.role = "theory-lock"    -> IF lockSame THEN "unchanged" ELSE "changed"
         [] material.role = "theory-package" -> IF packageSame THEN "cosmetic" ELSE "changed"
         [] OTHER                            -> "deferred"

(* Paths and records are strings in the code, told apart by their beginning.*)
PathName(path) == <<"path", path>>

(* recordBodyPath: what follows "evidence-record:", and any other name as  *)
(* it is.                                                                  *)
RecordBodyPath(record) ==
  IF record[1] = "evidence-record" THEN PathName(record[2]) ELSE record

DirectlyRetired(materials, verdict) ==
  UNION {materials[p].citedBy : p \in {q \in DOMAIN materials : verdict[q] = "changed"}}

(* closeRetirement: the records citing a changed material, then, until     *)
(* nothing is added, the records citing the body of a retired one.         *)
CloseRetirement(materials, verdict) ==
  LET everyone == UNION {materials[p].citedBy : p \in DOMAIN materials}
      Citing(r) == UNION {materials[p].citedBy :
                            p \in {q \in DOMAIN materials : PathName(q) = RecordBodyPath(r)}}
      grown[n \in 0..Cardinality(everyone)] ==
        IF n = 0 THEN DirectlyRetired(materials, verdict)
        ELSE grown[n - 1] \cup UNION {Citing(r) : r \in grown[n - 1]}
  IN grown[Cardinality(everyone)]

(* summarizeAudit, what bang audit prints: no decoding, no drift. *)
WouldRetire(materials, verdict) == Cardinality(DirectlyRetired(materials, verdict))

(* verifyClosureParity: staged records must equal the published ones.      *)
Parity(staged, published, records) ==
  \A p \in DOMAIN staged \cap records : published[p] = staged[p]
=============================================================================
