------------------------------- MODULE MCBang -------------------------------
EXTENDS Bang, MCToolchain, MCProject

CONSTANTS oldBytes, newBytes

Message(op, parent) ==
  [id |-> op, operation |-> op, transaction |-> "t1", amount |-> op = "Prepare",
   sender |-> IF op = "Ack" THEN "owner-b" ELSE "owner-a",
   receiver |-> IF op = "Ack" THEN "owner-a" ELSE "owner-b", causalParent |-> parent]
Protocol ==
  [owners |-> <<"owner-a", "owner-b">>,
   messages |-> <<Message("Prepare", {}), Message("Commit", {"Prepare"}),
                  Message("Ack", {"Commit"})>>]

Moves == {[action |-> a, messageId |-> m] : a \in {"deliver", "drop"},
                                            m \in {"Prepare", "Commit", "Ack"}}
         \cup {[action |-> "complete", ownerId |-> "owner-a"]}
FewerMoves == {m \in Moves : m.action = "drop" => m.messageId = "Ack"}
Numbered(s) == [i \in DOMAIN s |->
  IF s[i].action = "complete" THEN s[i]
  ELSE [action |-> s[i].action, messageId |-> s[i].messageId, attemptId |-> i]]
Schedules(moves, n) == {Numbered(s) : s \in UNION {[1..k -> moves] : k \in 1..n}}

Select(p, ss) == [protocol |-> p, schedules |-> ss]
OneSchedule == <<Numbered(<<[action |-> "deliver", messageId |-> "Prepare"]>>)>>

(* Selections that must be refused. *)
Malformed ==
  {Select([Protocol EXCEPT !.messages[2].id = "Prepare"], OneSchedule),
   Select([Protocol EXCEPT !.messages[2].causalParent = {"Commit"}], OneSchedule),
   Select([Protocol EXCEPT !.messages[3].sender = "owner-a"], OneSchedule),
   Select([Protocol EXCEPT !.messages[3].transaction = "t2"], OneSchedule),
   Select([Protocol EXCEPT !.messages[2] = Message("Prepare", {})], OneSchedule),
   Select([Protocol EXCEPT !.owners[2] = "owner-a"], OneSchedule),
   Select(Protocol, <<>>), Select(Protocol, <<<<>>>>),
   Select(Protocol, <<<<OneSchedule[1][1], OneSchedule[1][1]>>>>),
   Select(Protocol, <<<<[action |-> "complete", ownerId |-> "owner-b"]>>>>)}

MCTraceSelections ==
  Malformed
  \cup {Select(Protocol, <<s>>) : s \in Schedules(Moves, 4)}
  \cup {Select(Protocol, <<s, t>>) : s \in Schedules(FewerMoves, 2), t \in Schedules(FewerMoves, 2)}

MCRewrites == RewritesOr(Garbled)

(* Two fibers on two grants, then one more on either. *)
Pay(back, destination, amount) ==
  [back |-> back, destination |-> destination, carries |-> FALSE, state |-> 3, amount |-> amount]
Racing(a, b, issues, c) ==
  <<[trace |-> "competing", layer |-> "any", issues |-> 2, calls |-> <<a, b>>],
    [trace |-> "stale", layer |-> "any", issues |-> issues, calls |-> <<c>>]>>
MCOtherJourneys ==
  {Racing(Pay(x, "account-1", 1), b, i, Pay(y, "account-1", 1)) :
     x, y \in {0, 1}, i \in {0, 1},
     b \in {Pay(0, "account-1", 1), Pay(0, "account-1", 5), Pay(0, "account-2", 1)}}

(* Commands that publish disjoint closures into one tree, paths numbered   *)
(* in localeCompare order; one request has a duplicate path.               *)
Put(x) == [path |-> x, bytes |-> newBytes]
MCRequest == "plan" :> <<Put(1), Put(2), Put(3)>> @@ "schemas" :> <<Put(4)>>
             @@ "twice" :> <<Put(5), Put(5)>>
=============================================================================
