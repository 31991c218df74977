-------------------------- MODULE PublicationProofs --------------------------
(***************************************************************************)
(* Proofs about Publication for any number of publishers, any requests and *)
(* any prior tree, about the instance that Boundaries has of it.           *)
(***************************************************************************)
EXTENDS Boundaries, TLAPS

Staging == {"stage", "inspect", "retain"}

(* What publisher p relies on, as long as nobody else writes its paths:    *)
(* before its first rename its paths are untouched and its custody is      *)
(* complete up to the entry it works on; while renaming, exactly the       *)
(* entries before index are published; while rolling back, exactly those   *)
(* up to index still are, and the later ones are restored or broken.       *)
CustodyUpTo(p, n) == \A i \in 1..Files!Size(p) :
  custody[p][i] = IF i < n THEN priorTree[Files!Path(p, i)] ELSE NoFile
Prior(p)   == \A i \in 1..Files!Size(p) : custody[p][i] = priorTree[Files!Path(p, i)]
Intact(p)  == \A i \in 1..Files!Size(p) : Files!Untouched(p, i)
Renamed(p) == \A i \in 1..Files!Size(p) :
  IF i < entry[p] THEN Files!Published(p, i) ELSE Files!Untouched(p, i)
Restored(p) == \A i \in 1..Files!Size(p) :
  IF i <= entry[p] THEN Files!Published(p, i) ELSE i \in broken[p] \/ Files!Untouched(p, i)
Cut(p, k) == \A i \in 1..Files!Size(p) :
  \/ i \in broken[p]
  \/ i = entry[p] /\ tree[Files!Path(p, i)] = TornFile
  \/ IF i <= k THEN Files!Published(p, i) ELSE Files!Untouched(p, i)

Own(p) ==
  /\ publishing[p] \in Staging \cup {"commit", "rollback"} => ~Files!HasDuplicate(p)
  /\ publishing[p] \in Staging \cup {"entries"} =>
       CustodyUpTo(p, entry[p]) /\ Intact(p) /\ broken[p] = {}
  /\ publishing[p] = "commit" => Prior(p) /\ Renamed(p) /\ broken[p] = {}
  /\ publishing[p] = "rollback" => Prior(p) /\ Restored(p)
  /\ publishing[p] = "published" => \A i \in 1..Files!Size(p) : Files!Published(p, i)
  /\ publishing[p] = "failed" => Intact(p)
  /\ publishing[p] = "rollback-failed" =>
       broken[p] # {} /\ \A i \in 1..Files!Size(p) : i \in broken[p] \/ Files!Untouched(p, i)
  /\ publishing[p] = "killed" => \E k \in 0..Files!Size(p) : Cut(p, k)

IInv == Files!TypeOK /\ \A p \in Publishers : Files!Alone(p) => Own(p)

(* Requests are sequences of entries. *)
LEMMA Shape ==
  ASSUME Files!RequestsAreSorted, NEW p \in Publishers
  PROVE  /\ Files!Size(p) \in Nat
         /\ \A i \in 1..Files!Size(p) : Files!Path(p, i) \in TreePaths /\ Files!New(p, i) \in Bytes
  <1>1. Request[p] \in Seq(Files!Entry) BY DEF Files!RequestsAreSorted
  <1>2. Files!Size(p) \in Nat BY <1>1 DEF Files!Size
  <1>3. \A i \in 1..Files!Size(p) : Request[p][i] \in Files!Entry
    BY <1>1 DEF Files!Size
  <1> QED BY <1>2, <1>3 DEF Files!Path, Files!New, Files!Entry

(* The entries of a request without duplicates have different paths. *)
LEMMA Distinct ==
  ASSUME Files!RequestsAreSorted, NEW p \in Publishers, ~Files!HasDuplicate(p),
         NEW i \in 1..Files!Size(p), NEW j \in 1..Files!Size(p), i # j
  PROVE  Files!Path(p, i) # Files!Path(p, j)
  <1>1. Files!Size(p) \in Nat BY Shape
  <1>2. CASE i < j BY <1>1, <1>2 DEF Files!RequestsAreSorted
  <1>3. CASE j < i BY <1>1, <1>3 DEF Files!RequestsAreSorted
  <1> QED BY <1>1, <1>2, <1>3

(* The steps of a publisher change its own local state only. *)
LEMMA Local ==
  ASSUME Files!RequestsAreSorted, Files!TypeOK, NEW p \in Publishers,
         NEW q \in Publishers, p # q,
         Files!Work(q) \/ Files!Kill(q)
  PROVE  /\ publishing'[p] = publishing[p] /\ entry'[p] = entry[p] /\ priorTree' = priorTree
         /\ custody'[p] = custody[p] /\ broken'[p] = broken[p]
  BY DEF Files!TypeOK, Files!Work, Files!Enter, Files!Stage, Files!Inspect,
     Files!Retain, Files!Commit, Files!CommitFails,
     Files!Restore, Files!RestoreFails, Files!Kill, Files!StageNext,
     Files!RestoreNext, Files!Goto

(* Every stage of every publisher keeps the types. *)
LEMMA TypeStep ==
  ASSUME Files!RequestsAreSorted, Files!TypeOK, NEW p \in Publishers,
         Files!Work(p) \/ Files!Kill(p)
  PROVE  Files!TypeOK'
  <1>0. Files!Size(p) \in Nat /\ \A i \in 1..Files!Size(p) :
          Files!Path(p, i) \in TreePaths /\ Files!New(p, i) \in Bytes
    BY Shape
  <1>1. /\ tree \in [TreePaths -> Files!Contents]
        /\ priorTree \in [TreePaths -> Bytes \cup {NoFile}]
        /\ publishing \in [Publishers -> Files!Stages] /\ entry \in [Publishers -> Nat]
        /\ DOMAIN custody = Publishers /\ DOMAIN broken = Publishers
    BY DEF Files!TypeOK
  <1>2. /\ custody[p] \in [1..Files!Size(p) -> Files!Contents]
        /\ broken[p] \subseteq 1..Files!Size(p)
        /\ entry[p] \in 0..(Files!Size(p) + 1)
        /\ publishing[p] = "entries" => entry[p] = 1
        /\ publishing[p] \in {"stage", "inspect", "retain", "commit", "rollback"}
             => entry[p] \in 1..Files!Size(p)
    BY DEF Files!TypeOK, Files!Sized
  <1>3. /\ tree' \in [TreePaths -> Files!Contents]
        /\ priorTree' \in [TreePaths -> Bytes \cup {NoFile}]
        /\ DOMAIN custody' = Publishers /\ DOMAIN broken' = Publishers
    <2>1. CASE Files!Enter(p)
      BY <1>0, <1>1, <1>2, <2>1 DEF Files!Enter, Files!Contents
    <2>2. CASE Files!Stage(p)
      BY <1>0, <1>1, <1>2, <2>2 DEF Files!Stage, Files!Contents
    <2>3. CASE Files!Inspect(p)
      BY <1>0, <1>1, <1>2, <2>3 DEF Files!Inspect, Files!StageNext,
         Files!Contents
    <2>4. CASE Files!Retain(p)
      BY <1>0, <1>1, <1>2, <2>4 DEF Files!Retain, Files!StageNext,
         Files!Contents
    <2>5. CASE Files!Commit(p)
      BY <1>0, <1>1, <1>2, <2>5 DEF Files!Commit, Files!Contents
    <2>6. CASE Files!CommitFails(p)
      BY <1>0, <1>1, <1>2, <2>6 DEF Files!CommitFails, Files!Contents
    <2>7. CASE Files!Restore(p)
      BY <1>0, <1>1, <1>2, <2>7 DEF Files!Restore, Files!RestoreNext,
         Files!Contents
    <2>8. CASE Files!RestoreFails(p)
      BY <1>0, <1>1, <1>2, <2>8 DEF Files!RestoreFails, Files!RestoreNext,
         Files!Contents
    <2>9. CASE Files!Kill(p)
      BY <1>0, <1>1, <1>2, <2>9 DEF Files!Kill, Files!Contents
    <2> QED
      BY <2>1, <2>2, <2>3, <2>4, <2>5, <2>6, <2>7, <2>8, <2>9 DEF Files!Work
  <1>4. publishing' \in [Publishers -> Files!Stages]
    <2>1. \E place \in Files!Stages : Files!Goto(p, place) \/ UNCHANGED publishing
      <3>1. CASE Files!Enter(p)
        BY <3>1 DEF Files!Enter, Files!Stages, Files!Ended
      <3>2. CASE Files!Stage(p)
        BY <3>2 DEF Files!Stage, Files!Stages, Files!Ended
      <3>3. CASE Files!Inspect(p)
        BY <3>3 DEF Files!Inspect, Files!StageNext, Files!Stages, Files!Ended
      <3>4. CASE Files!Retain(p)
        BY <3>4 DEF Files!Retain, Files!StageNext, Files!Stages, Files!Ended
      <3>5. CASE Files!Commit(p)
        BY <3>5 DEF Files!Commit, Files!Stages, Files!Ended
      <3>6. CASE Files!CommitFails(p)
        BY <3>6 DEF Files!CommitFails, Files!Stages, Files!Ended
      <3>7. CASE Files!Restore(p)
        BY <3>7 DEF Files!Restore, Files!RestoreNext, Files!Stages, Files!Ended
      <3>8. CASE Files!RestoreFails(p)
        BY <3>8 DEF Files!RestoreFails, Files!RestoreNext, Files!Stages,
           Files!Ended
      <3>9. CASE Files!Kill(p) BY <3>9 DEF Files!Kill, Files!Stages, Files!Ended
      <3> QED
        BY <3>1, <3>2, <3>3, <3>4, <3>5, <3>6, <3>7, <3>8, <3>9 DEF Files!Work
    <2> QED BY <1>1, <2>1 DEF Files!Goto
  <1>a. entry' \in [Publishers -> Nat]
    <2>1. \/ UNCHANGED entry \/ entry' = [entry EXCEPT ![p] = 1]
          \/ entry' = [entry EXCEPT ![p] = @ + 1]
          \/ entry[p] > 0 /\ entry' = [entry EXCEPT ![p] = @ - 1]
      <3>1. CASE Files!Enter(p) BY <1>2, <3>1 DEF Files!Enter
      <3>2. CASE Files!Stage(p) BY <1>2, <3>2 DEF Files!Stage
      <3>3. CASE Files!Inspect(p)
        BY <1>2, <3>3 DEF Files!Inspect, Files!StageNext
      <3>4. CASE Files!Retain(p) BY <1>2, <3>4 DEF Files!Retain, Files!StageNext
      <3>5. CASE Files!Commit(p) BY <1>2, <3>5 DEF Files!Commit
      <3>6. CASE Files!CommitFails(p) BY <1>2, <3>6 DEF Files!CommitFails
      <3>7. CASE Files!Restore(p)
        BY <1>2, <3>7 DEF Files!Restore, Files!RestoreNext
      <3>8. CASE Files!RestoreFails(p)
        BY <1>2, <3>8 DEF Files!RestoreFails, Files!RestoreNext
      <3>9. CASE Files!Kill(p) BY <1>2, <3>9 DEF Files!Kill
      <3> QED
        BY <3>1, <3>2, <3>3, <3>4, <3>5, <3>6, <3>7, <3>8, <3>9 DEF Files!Work
    <2>2. entry[p] \in Nat BY <1>1
    <2> QED BY <1>1, <2>1, <2>2
  <1>5. /\ custody'[p] \in [1..Files!Size(p) -> Files!Contents]
        /\ broken'[p] \subseteq 1..Files!Size(p)
    <2>1. CASE Files!Enter(p)
      BY <1>0, <1>1, <1>2, <2>1 DEF Files!Enter, Files!Contents
    <2>2. CASE Files!Stage(p)
      BY <1>0, <1>1, <1>2, <2>2 DEF Files!Stage, Files!Contents
    <2>3. CASE Files!Inspect(p)
      BY <1>0, <1>1, <1>2, <2>3 DEF Files!Inspect, Files!StageNext,
         Files!Contents
    <2>4. CASE Files!Retain(p)
      BY <1>0, <1>1, <1>2, <2>4 DEF Files!Retain, Files!StageNext,
         Files!Contents
    <2>5. CASE Files!Commit(p)
      BY <1>0, <1>1, <1>2, <2>5 DEF Files!Commit, Files!Contents
    <2>6. CASE Files!CommitFails(p)
      BY <1>0, <1>1, <1>2, <2>6 DEF Files!CommitFails, Files!Contents
    <2>7. CASE Files!Restore(p)
      BY <1>0, <1>1, <1>2, <2>7 DEF Files!Restore, Files!RestoreNext,
         Files!Contents
    <2>8. CASE Files!RestoreFails(p)
      BY <1>0, <1>1, <1>2, <2>8 DEF Files!RestoreFails, Files!RestoreNext,
         Files!Contents
    <2>9. CASE Files!Kill(p)
      BY <1>0, <1>1, <1>2, <2>9 DEF Files!Kill, Files!Contents
    <2> QED
      BY <2>1, <2>2, <2>3, <2>4, <2>5, <2>6, <2>7, <2>8, <2>9 DEF Files!Work
  <1>6. /\ entry'[p] \in 0..(Files!Size(p) + 1)
        /\ publishing'[p] = "entries" => entry'[p] = 1
        /\ publishing'[p] \in {"stage", "inspect", "retain", "commit", "rollback"}
             => entry'[p] \in 1..Files!Size(p)
    <2>1. CASE Files!Enter(p)
      BY <1>0, <1>1, <1>2, <2>1 DEF Files!Enter, Files!Goto, Files!Stages,
         Files!Ended
    <2>2. CASE Files!Stage(p)
      BY <1>0, <1>1, <1>2, <2>2 DEF Files!Stage, Files!Goto, Files!Stages,
         Files!Ended
    <2>3. CASE Files!Inspect(p)
      BY <1>0, <1>1, <1>2, <2>3 DEF Files!Inspect, Files!StageNext, Files!Goto,
         Files!Stages, Files!Ended
    <2>4. CASE Files!Retain(p)
      BY <1>0, <1>1, <1>2, <2>4 DEF Files!Retain, Files!StageNext, Files!Goto,
         Files!Stages, Files!Ended
    <2>5. CASE Files!Commit(p)
      BY <1>0, <1>1, <1>2, <2>5 DEF Files!Commit, Files!Goto, Files!Stages,
         Files!Ended
    <2>6. CASE Files!CommitFails(p)
      BY <1>0, <1>1, <1>2, <2>6 DEF Files!CommitFails, Files!Goto, Files!Stages,
         Files!Ended
    <2>7. CASE Files!Restore(p)
      BY <1>0, <1>1, <1>2, <2>7 DEF Files!Restore, Files!RestoreNext,
         Files!Goto, Files!Stages, Files!Ended
    <2>8. CASE Files!RestoreFails(p)
      BY <1>0, <1>1, <1>2, <2>8 DEF Files!RestoreFails, Files!RestoreNext,
         Files!Goto, Files!Stages, Files!Ended
    <2>9. CASE Files!Kill(p)
      BY <1>0, <1>1, <1>2, <2>9 DEF Files!Kill, Files!Goto, Files!Stages,
         Files!Ended
    <2> QED
      BY <2>1, <2>2, <2>3, <2>4, <2>5, <2>6, <2>7, <2>8, <2>9 DEF Files!Work
  <1>8. Files!Sized(p)' BY <1>5, <1>6 DEF Files!Sized
  <1>7. ASSUME NEW q \in Publishers, q # p PROVE Files!Sized(q)'
    BY <1>7, Local DEF Files!TypeOK, Files!Sized
  <1> QED BY <1>3, <1>4, <1>a, <1>7, <1>8 DEF Files!TypeOK

(* A step of q changes nothing of p's, and no path of p's when p is alone. *)
LEMMA Frame ==
  ASSUME Files!RequestsAreSorted, Files!TypeOK, NEW p \in Publishers,
         NEW q \in Publishers, p # q,
         Files!Alone(p), Files!Work(q) \/ Files!Kill(q)
  PROVE  /\ publishing'[p] = publishing[p] /\ entry'[p] = entry[p] /\ priorTree' = priorTree
         /\ custody'[p] = custody[p] /\ broken'[p] = broken[p]
         /\ \A i \in 1..Files!Size(p) : tree'[Files!Path(p, i)] = tree[Files!Path(p, i)]
  <1>1. /\ publishing'[p] = publishing[p] /\ entry'[p] = entry[p] /\ priorTree' = priorTree
        /\ custody'[p] = custody[p] /\ broken'[p] = broken[p]
    BY Local
  <1>2. \/ UNCHANGED tree
        \/ /\ publishing[q] \in {"commit", "rollback"}
           /\ \E c \in Files!Contents :
                tree' = [tree EXCEPT ![Files!Path(q, entry[q])] = c]
    <2>1. Files!Size(q) \in Nat /\ \A i \in 1..Files!Size(q) : Files!New(q, i) \in Bytes
      BY Shape
    <2> QED
      BY <2>1 DEF Files!TypeOK, Files!Work, Files!Enter, Files!Stage,
         Files!Inspect, Files!Retain, Files!Commit,
         Files!CommitFails, Files!Restore, Files!RestoreFails, Files!Kill,
         Files!Contents, Files!Sized
  <1>3. CASE UNCHANGED tree BY <1>1, <1>3
  <1>4. CASE publishing[q] \in {"commit", "rollback"}
    <2>1. entry[q] \in 1..Files!Size(q) BY <1>4 DEF Files!TypeOK, Files!Sized
    <2>2. \A i \in 1..Files!Size(p) : Files!Path(p, i) # Files!Path(q, entry[q])
      BY <2>1 DEF Files!Alone
    <2>3. \A i \in 1..Files!Size(p) : Files!Path(p, i) \in TreePaths BY Shape
    <2> QED BY <1>1, <1>2, <2>2, <2>3 DEF Files!TypeOK
  <1> QED BY <1>1, <1>2, <1>3, <1>4

(* So what p relies on survives the steps of the others. *)
LEMMA OthersKeep ==
  ASSUME Files!RequestsAreSorted, Files!TypeOK, NEW p \in Publishers,
         NEW q \in Publishers, p # q,
         Files!Alone(p), Own(p), Files!Work(q) \/ Files!Kill(q)
  PROVE  Own(p)'
  <1>1. /\ publishing'[p] = publishing[p] /\ entry'[p] = entry[p] /\ priorTree' = priorTree
        /\ custody'[p] = custody[p] /\ broken'[p] = broken[p]
        /\ \A i \in 1..Files!Size(p) : tree'[Files!Path(p, i)] = tree[Files!Path(p, i)]
    BY Frame
  <1>2. \A i \in 1..Files!Size(p) : /\ Files!Published(p, i)' <=> Files!Published(p, i)
                              /\ Files!Untouched(p, i)' <=> Files!Untouched(p, i)
    BY <1>1 DEF Files!Published, Files!Untouched
  <1>3. CustodyUpTo(p, entry[p])' <=> CustodyUpTo(p, entry[p])
    BY <1>1 DEF CustodyUpTo
  <1>4. Prior(p)' <=> Prior(p)
    BY <1>1 DEF Prior
  <1>5. /\ Intact(p)' <=> Intact(p)
        /\ Renamed(p)' <=> Renamed(p)
        /\ Restored(p)' <=> Restored(p)
    BY <1>1, <1>2 DEF Intact, Renamed, Restored, Files!Size, Files!Path,
       Files!Published, Files!Untouched
  <1>6. \A k \in 0..Files!Size(p) : Cut(p, k)' <=> Cut(p, k)
    BY <1>1, <1>2 DEF Cut, Files!Size, Files!Path, Files!Published,
       Files!Untouched
  <1>7. Files!HasDuplicate(p)' <=> Files!HasDuplicate(p)
    BY DEF Files!HasDuplicate, Files!Path, Files!Size
  <1>8. Files!Size(p)' = Files!Size(p)
    BY DEF Files!Size
  <1>9. /\ (\A i \in 1..Files!Size(p) : Files!Published(p, i))'
             <=> \A i \in 1..Files!Size(p) : Files!Published(p, i)
        /\ (\A i \in 1..Files!Size(p) : i \in broken[p] \/ Files!Untouched(p, i))'
             <=> \A i \in 1..Files!Size(p) : i \in broken[p] \/ Files!Untouched(p, i)
        /\ (\E k \in 0..Files!Size(p) : Cut(p, k))'
             <=> \E k \in 0..Files!Size(p) : Cut(p, k)
    <2>1. 1..Files!Size(p)' = 1..Files!Size(p) /\ 0..Files!Size(p)' = 0..Files!Size(p)
      BY <1>8
    <2>2. (\A i \in 1..Files!Size(p) : Files!Published(p, i))'
             <=> \A i \in 1..Files!Size(p) : Files!Published(p, i)
      BY <1>1 DEF Files!Published, Files!Path, Files!Size
    <2>3. (\A i \in 1..Files!Size(p) : i \in broken[p] \/ Files!Untouched(p, i))'
             <=> \A i \in 1..Files!Size(p) : i \in broken[p] \/ Files!Untouched(p, i)
      BY <1>1 DEF Files!Untouched, Files!Path, Files!Size
    <2>4. (\E k \in 0..Files!Size(p) : Cut(p, k))'
             <=> \E k \in 0..Files!Size(p) : Cut(p, k)
      BY <1>6, <2>1
    <2> QED BY <2>2, <2>3, <2>4
  <1> QED BY <1>1, <1>3, <1>4, <1>5, <1>7, <1>9 DEF Own

(* Staging leaves the tree alone and completes the custody entry by entry. *)
LEMMA StagingKeeps ==
  ASSUME Files!RequestsAreSorted, Files!TypeOK, NEW p \in Publishers, Own(p),
         Files!Enter(p) \/ Files!Stage(p) \/ Files!Inspect(p) \/ Files!Retain(p)
  PROVE  Own(p)'
  <1>0. Files!Size(p) \in Nat BY Shape
  <1>1. /\ publishing \in [Publishers -> Files!Stages] /\ entry \in [Publishers -> Nat]
        /\ DOMAIN custody = Publishers
        /\ custody[p] \in [1..Files!Size(p) -> Files!Contents]
        /\ publishing[p] = "entries" => entry[p] = 1
        /\ publishing[p] \in Staging => entry[p] \in 1..Files!Size(p)
    BY DEF Files!TypeOK, Files!Sized, Staging
  <1>2. publishing[p] \in Staging \cup {"entries"}
    BY DEF Files!Enter, Files!Stage, Files!Inspect, Files!Retain, Staging
  <1>3. /\ CustodyUpTo(p, entry[p]) /\ Intact(p) /\ broken[p] = {}
        /\ publishing[p] \in Staging => ~Files!HasDuplicate(p)
    BY <1>2 DEF Own
  <1>4. UNCHANGED <<tree, broken, priorTree>>
    BY DEF Files!Enter, Files!Stage, Files!Inspect, Files!Retain
  <1>5. Intact(p)' /\ broken'[p] = {}
    BY <1>3, <1>4 DEF Intact, Files!Untouched
  <1>6. /\ publishing'[p] \in Staging \cup {"commit"} => ~Files!HasDuplicate(p)
        /\ publishing'[p] \in Staging => CustodyUpTo(p, entry[p])'
        /\ publishing'[p] = "commit" => entry'[p] = 1 /\ Prior(p)'
        /\ publishing'[p] \in Staging \cup {"commit", "published", "failed"}
        /\ publishing'[p] = "published" => Files!Size(p) = 0
    <2>1. CASE Files!Enter(p)
      BY <1>1, <1>3, <2>1 DEF Files!Enter, Files!Goto, Staging, CustodyUpTo
    <2>2. CASE Files!Stage(p)
      BY <1>1, <1>3, <2>2 DEF Files!Stage, Files!Goto, Staging, CustodyUpTo
    <2>3. CASE Files!Inspect(p) /\ ~Files!StageNext(p)
      BY <1>1, <1>3, <2>3 DEF Files!Inspect, Files!Goto, Staging, CustodyUpTo
    <2>4. CASE Files!Retain(p) /\ UNCHANGED custody
      BY <1>1, <1>3, <2>4 DEF Files!Retain, Files!Goto, Staging, CustodyUpTo
    <2>5. CASE (Files!Inspect(p) \/ Files!Retain(p)) /\ Files!StageNext(p)
      <3>1. publishing[p] \in Staging /\ priorTree' = priorTree
        BY <1>4, <2>5 DEF Files!Inspect, Files!Retain, Staging
      <3>2. \A i \in 1..Files!Size(p) : i < entry[p] + 1 =>
              custody'[p][i] = priorTree[Files!Path(p, i)]
        <4>1. \A i \in 1..Files!Size(p) : i < entry[p] =>
                custody'[p][i] = priorTree[Files!Path(p, i)]
          BY <1>0, <1>1, <1>3, <2>5, <3>1 DEF Files!Inspect, Files!Retain,
             CustodyUpTo
        <4>2. custody'[p][entry[p]] = tree[Files!Path(p, entry[p])]
          <5>1. CASE Files!Inspect(p)
            BY <1>1, <1>3, <3>1, <5>1, <2>5
               DEF Files!Inspect, CustodyUpTo, Files!StageNext, Files!Goto
          <5>2. CASE Files!Retain(p)
            BY <1>1, <3>1, <5>2, <2>5 DEF Files!Retain, Files!StageNext,
               Files!Goto
          <5> QED BY <2>5, <5>1, <5>2
        <4>3. tree[Files!Path(p, entry[p])] = priorTree[Files!Path(p, entry[p])]
          BY <1>1, <1>3, <3>1 DEF Intact, Files!Untouched
        <4> QED BY <1>0, <1>1, <3>1, <4>1, <4>2, <4>3
      <3>3. \A i \in 1..Files!Size(p) : i >= entry[p] + 1 => custody'[p][i] = NoFile
        BY <1>0, <1>1, <1>3, <2>5, <3>1 DEF Files!Inspect, Files!Retain,
           CustodyUpTo
      <3>4. CASE entry[p] < Files!Size(p)
        <4>1. entry'[p] = entry[p] + 1 /\ publishing'[p] = "stage"
          BY <1>1, <2>5, <3>4 DEF Files!StageNext, Files!Goto
        <4>2. CustodyUpTo(p, entry[p])'
          BY <1>0, <1>1, <3>1, <3>2, <3>3, <4>1 DEF CustodyUpTo
        <4> QED BY <1>3, <3>1, <4>1, <4>2 DEF Staging
      <3>5. CASE ~(entry[p] < Files!Size(p))
        <4>1. entry'[p] = 1 /\ publishing'[p] = "commit"
          BY <1>1, <2>5, <3>5 DEF Files!StageNext, Files!Goto
        <4>2. Prior(p)'
          BY <1>0, <1>1, <3>1, <3>2, <3>5 DEF Prior
        <4> QED BY <1>3, <3>1, <4>1, <4>2 DEF Staging
      <3> QED BY <3>4, <3>5
    <2> QED
      BY <2>1, <2>2, <2>3, <2>4, <2>5 DEF Files!Inspect, Files!Retain,
         Files!StageNext
  <1>7. publishing'[p] = "commit" => Renamed(p)'
    BY <1>0, <1>5, <1>6 DEF Renamed, Intact
  <1>8. publishing'[p] = "published" => \A i \in 1..Files!Size(p) : Files!Published(p, i)'
    BY <1>6
  <1> QED BY <1>5, <1>6, <1>7, <1>8 DEF Own, Staging

(* A rename publishes its entry and touches no other entry of p. *)
LEMMA CommitKeeps ==
  ASSUME Files!RequestsAreSorted, Files!TypeOK, NEW p \in Publishers, Own(p),
         Files!Commit(p)
  PROVE  Own(p)'
  <1>0. Files!Size(p) \in Nat /\ \A i \in 1..Files!Size(p) : Files!Path(p, i) \in TreePaths
    BY Shape
  <1>1. /\ tree \in [TreePaths -> Files!Contents] /\ publishing \in [Publishers -> Files!Stages]
        /\ entry \in [Publishers -> Nat] /\ entry[p] \in 1..Files!Size(p)
    BY DEF Files!TypeOK, Files!Sized, Files!Commit
  <1>2. /\ ~Files!HasDuplicate(p) /\ Prior(p) /\ Renamed(p) /\ broken[p] = {}
        /\ UNCHANGED <<custody, broken, priorTree>>
    BY DEF Own, Files!Commit
  <1>3. Prior(p)' /\ broken'[p] = {}
    BY <1>2 DEF Prior
  <1>4. entry'[p] = entry[p] + 1
    BY <1>1 DEF Files!Commit
  <1>5. \A i \in 1..Files!Size(p) :
          tree'[Files!Path(p, i)] = IF i = entry[p] THEN Files!New(p, i) ELSE tree[Files!Path(p, i)]
    BY <1>0, <1>1, <1>2, Distinct DEF Files!Commit
  <1>6. Renamed(p)'
    BY <1>0, <1>1, <1>2, <1>4, <1>5 DEF Renamed, Files!Published,
       Files!Untouched
  <1>7. CASE entry[p] = Files!Size(p)
    <2>1. publishing'[p] = "published"
      BY <1>1, <1>7 DEF Files!Commit, Files!Goto
    <2>2. \A i \in 1..Files!Size(p) : Files!Published(p, i)'
      BY <1>0, <1>4, <1>6, <1>7 DEF Renamed
    <2> QED BY <2>1, <2>2 DEF Own, Staging
  <1>8. CASE entry[p] # Files!Size(p)
    <2>1. publishing'[p] = "commit" BY <1>8 DEF Files!Commit
    <2> QED BY <1>2, <1>3, <1>6, <2>1 DEF Own, Staging
  <1> QED BY <1>7, <1>8

(* The rollback starts with exactly the committed entries. *)
LEMMA CommitFailsKeeps ==
  ASSUME Files!RequestsAreSorted, Files!TypeOK, NEW p \in Publishers, Own(p),
         Files!CommitFails(p)
  PROVE  Own(p)'
  <1>0. Files!Size(p) \in Nat BY Shape
  <1>1. /\ publishing \in [Publishers -> Files!Stages]
        /\ entry \in [Publishers -> Nat] /\ entry[p] \in 1..Files!Size(p)
    BY DEF Files!TypeOK, Files!Sized, Files!CommitFails
  <1>2. /\ ~Files!HasDuplicate(p) /\ Prior(p) /\ Renamed(p)
        /\ UNCHANGED <<tree, custody, broken, priorTree>>
    BY DEF Own, Files!CommitFails
  <1>3. entry'[p] = entry[p] - 1
    BY <1>1 DEF Files!CommitFails
  <1>4. CASE entry[p] = 1
    <2>1. publishing'[p] = "failed"
      BY <1>1, <1>4 DEF Files!CommitFails, Files!Goto
    <2>2. Intact(p)'
      BY <1>0, <1>2, <1>4 DEF Intact, Renamed, Files!Untouched
    <2> QED BY <2>1, <2>2 DEF Own, Staging
  <1>5. CASE entry[p] # 1
    <2>1. publishing'[p] = "rollback"
      BY <1>1, <1>5 DEF Files!CommitFails, Files!Goto
    <2>2. Prior(p)' BY <1>2 DEF Prior
    <2>3. Restored(p)'
      BY <1>0, <1>1, <1>2, <1>3 DEF Renamed, Restored, Files!Published,
         Files!Untouched
    <2> QED BY <1>2, <2>1, <2>2, <2>3 DEF Own, Staging
  <1> QED BY <1>4, <1>5

(* A restore, done or failed, disposes of its entry and of no other. *)
LEMMA RestoreKeeps ==
  ASSUME Files!RequestsAreSorted, Files!TypeOK, NEW p \in Publishers, Own(p),
         Files!Restore(p) \/ Files!RestoreFails(p)
  PROVE  Own(p)'
  <1>0. Files!Size(p) \in Nat /\ \A i \in 1..Files!Size(p) : Files!Path(p, i) \in TreePaths
    BY Shape
  <1>1. /\ tree \in [TreePaths -> Files!Contents] /\ publishing \in [Publishers -> Files!Stages]
        /\ entry \in [Publishers -> Nat] /\ entry[p] \in 1..Files!Size(p)
        /\ DOMAIN broken = Publishers /\ publishing[p] = "rollback"
    BY DEF Files!TypeOK, Files!Sized, Files!Restore, Files!RestoreFails
  <1>2. /\ ~Files!HasDuplicate(p) /\ Prior(p) /\ Restored(p)
        /\ UNCHANGED <<custody, priorTree>>
    BY <1>1 DEF Own, Files!Restore, Files!RestoreFails, Files!RestoreNext
  <1>3. Prior(p)' /\ entry'[p] = entry[p] - 1
    BY <1>1, <1>2 DEF Prior, Files!Restore, Files!RestoreFails,
       Files!RestoreNext
  <1>4. /\ \A i \in 1..Files!Size(p) : i # entry[p] =>
             tree'[Files!Path(p, i)] = tree[Files!Path(p, i)]
        /\ broken[p] \subseteq broken'[p]
        /\ \/ entry[p] \in broken'[p]
           \/ tree'[Files!Path(p, entry[p])] = priorTree[Files!Path(p, entry[p])]
    <2>1. \A i \in 1..Files!Size(p) : i # entry[p] => Files!Path(p, i) # Files!Path(p, entry[p])
      BY <1>1, <1>2, Distinct
    <2>2. custody[p][entry[p]] = priorTree[Files!Path(p, entry[p])]
      BY <1>1, <1>2 DEF Prior
    <2>3. CASE Files!Restore(p)
      BY <1>0, <1>1, <2>1, <2>2, <2>3 DEF Files!Restore
    <2>4. CASE Files!RestoreFails(p)
      <3>1. \A i \in 1..Files!Size(p) : i # entry[p] =>
              tree'[Files!Path(p, i)] = tree[Files!Path(p, i)]
        BY <1>0, <1>1, <2>1, <2>4 DEF Files!RestoreFails
      <3>2. broken'[p] = broken[p] \cup {entry[p]}
        BY <1>1, <2>4 DEF Files!RestoreFails
      <3> QED BY <3>1, <3>2
    <2> QED BY <2>3, <2>4
  <1>5. Restored(p)'
    BY <1>0, <1>1, <1>2, <1>3, <1>4 DEF Restored, Files!Published,
       Files!Untouched
  <1>6. CASE entry[p] = 1
    <2>1. publishing'[p] = IF broken'[p] = {} THEN "failed" ELSE "rollback-failed"
      BY <1>1, <1>6 DEF Files!Restore, Files!RestoreFails, Files!RestoreNext,
         Files!Goto
    <2>2. \A i \in 1..Files!Size(p) : i \in broken'[p] \/ Files!Untouched(p, i)'
      BY <1>0, <1>3, <1>5, <1>6 DEF Restored
    <2> QED BY <2>1, <2>2 DEF Own, Staging, Intact
  <1>7. CASE entry[p] # 1
    <2>1. publishing'[p] = "rollback"
      BY <1>1, <1>7 DEF Files!Restore, Files!RestoreFails, Files!RestoreNext
    <2> QED BY <1>2, <1>3, <1>5, <2>1 DEF Own, Staging
  <1> QED BY <1>6, <1>7

(* Death leaves what the stage had reached. *)
LEMMA KillKeeps ==
  ASSUME Files!RequestsAreSorted, Files!TypeOK, NEW p \in Publishers, Own(p),
         Files!Kill(p)
  PROVE  Own(p)'
  <1>0. Files!Size(p) \in Nat /\ \A i \in 1..Files!Size(p) : Files!Path(p, i) \in TreePaths
    BY Shape
  <1>1. /\ tree \in [TreePaths -> Files!Contents] /\ publishing \in [Publishers -> Files!Stages]
        /\ publishing[p] \in Staging \cup {"entries", "commit", "rollback"}
        /\ publishing[p] \in {"commit", "rollback"} => entry[p] \in 1..Files!Size(p)
    BY DEF Files!TypeOK, Files!Sized, Files!Kill, Files!Stages, Files!Ended,
       Staging
  <1>2. publishing'[p] = "killed" /\ UNCHANGED <<entry, custody, broken, priorTree>>
    BY <1>1 DEF Files!Kill, Files!Goto
  <1>3. CASE UNCHANGED tree
    <2>1. CASE publishing[p] \in Staging \cup {"entries"}
      <3>1. Intact(p) BY <2>1 DEF Own
      <3>2. Cut(p, 0)'
        BY <1>0, <1>2, <1>3, <3>1 DEF Cut, Intact, Files!Untouched
      <3> QED BY <1>0, <1>2, <3>2 DEF Own, Staging
    <2>2. CASE publishing[p] = "commit"
      <3>1. Renamed(p) BY <2>2 DEF Own
      <3>2. Cut(p, entry[p] - 1)'
        BY <1>0, <1>1, <1>2, <1>3, <2>2, <3>1
           DEF Cut, Renamed, Files!Published, Files!Untouched
      <3>3. entry[p] - 1 \in 0..Files!Size(p) BY <1>0, <1>1, <2>2
      <3> QED BY <1>2, <3>2, <3>3 DEF Own, Staging
    <2>3. CASE publishing[p] = "rollback"
      <3>1. Restored(p) BY <2>3 DEF Own
      <3>2. Cut(p, entry[p])'
        BY <1>0, <1>1, <1>2, <1>3, <2>3, <3>1
           DEF Cut, Restored, Files!Published, Files!Untouched
      <3>3. entry[p] \in 0..Files!Size(p) BY <1>0, <1>1, <2>3
      <3> QED BY <1>2, <3>2, <3>3 DEF Own, Staging
    <2> QED BY <1>1, <2>1, <2>2, <2>3
  <1>4. CASE /\ publishing[p] = "rollback"
             /\ tree' = [tree EXCEPT ![Files!Path(p, entry[p])] = TornFile]
    <2>1. Restored(p) /\ ~Files!HasDuplicate(p) BY <1>4 DEF Own
    <2>2. \A i \in 1..Files!Size(p) : tree'[Files!Path(p, i)] =
             IF i = entry[p] THEN TornFile ELSE tree[Files!Path(p, i)]
      BY <1>0, <1>1, <1>4, <2>1, Distinct
    <2>3. Cut(p, entry[p])'
      BY <1>0, <1>1, <1>2, <1>4, <2>1, <2>2
         DEF Cut, Restored, Files!Published, Files!Untouched
    <2>4. entry[p] \in 0..Files!Size(p) BY <1>0, <1>1, <1>4
    <2> QED BY <1>2, <2>3, <2>4 DEF Own, Staging
  <1> QED BY <1>3, <1>4 DEF Files!Kill

(* The invariant holds at first and is kept by every step. *)
LEMMA InitIInv == ASSUME Files!RequestsAreSorted PROVE Files!Init => IInv
  <1> SUFFICES ASSUME Files!Init PROVE IInv
    OBVIOUS
  <1>1. \A p \in Publishers : Files!Size(p) \in Nat BY Shape
  <1>2. Files!TypeOK
    BY <1>1 DEF Files!Init, Files!TypeOK, Files!Sized, Files!Stages,
       Files!Ended, Files!Contents
  <1>3. \A p \in Publishers : Own(p)
    BY <1>1 DEF Files!Init, Own, Staging, CustodyUpTo, Intact, Files!Untouched
  <1> QED BY <1>2, <1>3 DEF IInv

(* A step of one publisher keeps what each relies on: its own by the stage,*)
(* and that of another because it does not write its paths.                *)
LEMMA NextIInv == ASSUME Files!RequestsAreSorted PROVE IInv /\ [Files!Next]_(Files!vars) => IInv'
  <1> SUFFICES ASSUME IInv, [Files!Next]_(Files!vars) PROVE IInv'
    OBVIOUS
  <1>1. ASSUME NEW q \in Publishers, Files!Work(q) \/ Files!Kill(q) PROVE IInv'
    <2>1. Files!TypeOK' BY <1>1, TypeStep DEF IInv
    <2>2. ASSUME NEW p \in Publishers, Files!Alone(p) PROVE Own(p)'
      <3>1. Own(p) BY <2>2 DEF IInv
      <3>2. CASE p # q BY <1>1, <2>2, <3>1, <3>2, OthersKeep DEF IInv
      <3>3. CASE p = q
        BY <1>1, <3>1, <3>3, StagingKeeps, CommitKeeps, CommitFailsKeeps,
           RestoreKeeps, KillKeeps DEF IInv, Files!Work
      <3> QED BY <3>2, <3>3
    <2> QED BY <2>1, <2>2 DEF IInv, Files!Alone
  <1>2. CASE UNCHANGED Files!vars
    <2>1. Files!TypeOK' BY <1>2 DEF IInv, Files!vars, Files!TypeOK, Files!Sized
    <2>2. ASSUME NEW p \in Publishers, Files!Alone(p) PROVE Own(p)'
      BY <1>2, <2>2 DEF IInv, Files!vars, Own, CustodyUpTo, Prior, Intact,
         Renamed,
         Restored, Cut, Files!Published, Files!Untouched
    <2> QED BY <2>1, <2>2 DEF IInv, Files!Alone
  <1> QED BY <1>1, <1>2 DEF Files!Next, Files!Stopped

(* The invariant holds at every point.                                     *)
LEMMA Invariant ==
  ASSUME Files!RequestsAreSorted PROVE Files!Spec => []IInv
  BY InitIInv, NextIInv, PTL DEF Files!Spec

(* Every publisher keeps one custody slot per entry and works on an entry  *)
(* of its request (publishAtomically's loops).                             *)
THEOREM TypeCorrect == Files!Spec => []Files!TypeOK
  BY Invariant, RequestsAssumption, PTL DEF IInv

(* A publisher nobody disturbs publishes every entry or restores every     *)
(* entry it can, whatever publishers of other paths do meanwhile.          *)
THEOREM PublishedOrRestored == Files!Spec => []AtomicUnlessKilled
  <1>1. IInv => AtomicUnlessKilled
    BY DEF IInv, AtomicUnlessKilled, Files!AtomicUnlessKilled, Own, Intact
  <1> QED BY <1>1, Invariant, RequestsAssumption, PTL

(* A killed publisher leaves a prefix of its entries published.            *)
THEOREM KilledLeavesAPrefix == Files!Spec => []KilledLeavesPrefix
  <1>1. IInv => KilledLeavesPrefix
    BY DEF IInv, KilledLeavesPrefix, Files!KilledLeavesPrefix, Own, Cut
  <1> QED BY <1>1, Invariant, RequestsAssumption, PTL

(* What a rollback restores is the tree as it was before the publication.  *)
THEOREM CustodyIsThePriorTree == Files!Spec => []CustodyIsPrior
  <1>1. IInv => CustodyIsPrior
    BY DEF IInv, CustodyIsPrior, Files!CustodyIsPrior, Own, Prior
  <1> QED BY <1>1, Invariant, RequestsAssumption, PTL
=============================================================================
