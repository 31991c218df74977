--------------------------- MODULE ToolchainProofs ---------------------------
(***************************************************************************)
(* What holds of the bang commands for any texts, packages, probes and     *)
(* objectives, any number of commands and of edits.                        *)
(*                                                                         *)
(* The argument follows the stages.  A command's stages to go are a chain  *)
(* of links that lead to one of its last stages, so the stage at hand      *)
(* tells what the pipeline has read and checked: once `qualify` is done    *)
(* the work is good, which fixes every observation and one cited source.   *)
(* Everything published is computed from good work; without edits it is    *)
(* computed from the files as they are.  The citations of a closure that   *)
(* good work published are known one by one, so the audit's verdicts are.  *)
(***************************************************************************)
EXTENDS Toolchain, FiniteSums

Stages == {"package", "core", "writeLock", "writeArtifact", "manifest", "probeEffect",
           "probeGleam", "citeEffect", "citeGleam", "qualify", "plan", "toolchain",
           "build", "execute", "publish", "survive", "parity", "republish",
           "inventory", "digestCore", "digestNix", "summarize", "compare"}

Qualifies == {<<"package", "core">>, <<"core", "probeEffect">>, <<"probeEffect", "probeGleam">>,
              <<"probeGleam", "citeEffect">>, <<"citeEffect", "citeGleam">>,
              <<"citeGleam", "qualify">>}
Assembles == Qualifies \cup
             {<<"qualify", "plan">>, <<"plan", "toolchain">>, <<"toolchain", "build">>,
              <<"build", "execute">>, <<"execute", "publish">>}
Audits == {<<"inventory", "digestCore">>, <<"digestCore", "digestNix">>}

(* The stages of a command, which may follow which, and which may be last. *)
Links(name) ==
  CASE name = "explain"   -> {<<"package", "core">>, <<"core", "writeLock">>,
                              <<"writeLock", "writeArtifact">>}
    [] name = "classify1" -> {<<"package", "core">>, <<"core", "writeLock">>,
                              <<"writeLock", "writeArtifact">>, <<"writeArtifact", "manifest">>}
    [] name = "classify2" -> Qualifies \cup {<<"qualify", "publish">>}
    [] name = "plan"      -> Qualifies \cup {<<"qualify", "plan">>, <<"plan", "publish">>}
    [] name = "assemble"  -> Assembles
    [] name = "audit"     -> Audits \cup {<<"digestNix", "summarize">>}
    [] OTHER -> Audits \cup Assembles \cup
                {<<"digestNix", "compare">>, <<"plan", "survive">>, <<"survive", "package">>,
                 <<"publish", "parity">>, <<"parity", "republish">>}

Ends(name) ==
  CASE name = "explain"   -> {"writeArtifact"}
    [] name = "classify1" -> {"manifest"}
    [] name \in {"classify2", "plan", "assemble"} -> {"publish"}
    [] name = "audit"     -> {"summarize"}
    [] OTHER              -> {"compare", "republish"}

Script(name, s) == /\ s \in Seq(Stages)
                   /\ \A i \in 1..(Len(s) - 1) : <<s[i], s[i + 1]>> \in Links(name)
                   /\ s # <<>> => s[Len(s)] \in Ends(name)

(* What is left after the first stage of a script is a script, and follows it. *)
LEMMA ScriptRest ==
  ASSUME NEW name, NEW s, Script(name, s), s # <<>>
  PROVE  /\ Script(name, Tail(s))
         /\ Tail(s) # <<>> => <<Head(s), Head(Tail(s))>> \in Links(name)
         /\ Tail(s) = <<>> => Head(s) \in Ends(name)
  <1>1. PICK t \in Seq(Stages) : t = s /\ t # <<>>
    BY DEF Script
  <1>2. PICK n \in Nat : n = Len(t) - 1 /\ Len(t) = n + 1
    BY <1>1
  <1>3. Tail(t) \in Seq(Stages) /\ Len(Tail(t)) = n
    BY <1>1, <1>2
  <1>4. \A i \in 1..n : Tail(t)[i] = t[i + 1]
    BY <1>1, <1>2
  <1>5. \A i \in 1..n : <<t[i], t[i + 1]>> \in Links(name)
    BY <1>1, <1>2 DEF Script
  <1>6. t[n + 1] \in Ends(name)
    BY <1>1, <1>2 DEF Script
  <1>7. Script(name, Tail(t))
    <2>1. \A i \in 1..(n - 1) : <<Tail(t)[i], Tail(t)[i + 1]>> \in Links(name)
      <3> TAKE i \in 1..(n - 1)
      <3>1. i \in 1..n /\ i + 1 \in 1..n
        OBVIOUS
      <3> QED BY <1>4, <1>5, <3>1
    <2>2. Tail(t) # <<>> => Tail(t)[n] \in Ends(name)
      BY <1>3, <1>4, <1>6
    <2> QED BY <1>3, <2>1, <2>2 DEF Script
  <1>8. Tail(t) # <<>> => <<Head(t), Head(Tail(t))>> \in Links(name)
    <2>1. ASSUME Tail(t) # <<>> PROVE Head(Tail(t)) = t[2] /\ 1 \in 1..n
      <3>1. n # 0
        BY <1>3, <2>1
      <3>2. Head(Tail(t)) = Tail(t)[1]
        BY <1>3, <3>1
      <3>3. 1 \in 1..n
        BY <3>1
      <3>4. PICK k \in 1..n : k = 1 /\ k + 1 = 2
        BY <3>3
      <3>5. Tail(t)[k] = t[k + 1]
        BY <1>4
      <3> QED BY <3>2, <3>4, <3>5
    <2>2. Head(t) = t[1]
      BY <1>1
    <2> QED BY <1>5, <2>1, <2>2
  <1>9. Tail(t) = <<>> => Head(t) \in Ends(name)
    <2>1. Tail(t) = <<>> => n = 0
      BY <1>3
    <2>2. Head(t) = t[1]
      BY <1>1
    <2> QED BY <1>6, <2>1, <2>2
  <1> QED BY <1>1, <1>7, <1>8, <1>9

Linked(name, s) == /\ s \in Seq(Stages) /\ s # <<>>
                   /\ \A i \in 1..(Len(s) - 1) : <<s[i], s[i + 1]>> \in Links(name)

(* Chains of stages may be joined where a link does. *)
LEMMA ThenLinked ==
  ASSUME NEW name, NEW s, NEW t, Linked(name, s), Linked(name, t),
         <<s[Len(s)], Head(t)>> \in Links(name)
  PROVE  /\ Linked(name, s \o t) /\ Head(s \o t) = Head(s)
         /\ (s \o t)[Len(s \o t)] = t[Len(t)]
  <1>1. PICK a \in Seq(Stages), b \in Seq(Stages) : a = s /\ b = t
    BY DEF Linked
  <1>2. PICK m \in Nat, n \in Nat : m = Len(a) /\ n = Len(b)
    OBVIOUS
  <1>3. m > 0 /\ n > 0
    BY <1>1, <1>2 DEF Linked
  <1>4. PICK c : c = a \o b
    OBVIOUS
  <1>5. c \in Seq(Stages) /\ Len(c) = m + n
    BY <1>2, <1>4
  <1>6. \A i \in 1..(m + n) : c[i] = IF i <= m THEN a[i] ELSE b[i - m]
    BY <1>2, <1>4
  <1>7. \A i \in 1..(m + n - 1) : <<c[i], c[i + 1]>> \in Links(name)
    <2> TAKE i \in 1..(m + n - 1)
    <2>1. i \in 1..(m + n) /\ i + 1 \in 1..(m + n)
      BY <1>3
    <2>2. CASE i < m
      BY <1>1, <1>2, <1>6, <2>1, <2>2 DEF Linked
    <2>3. CASE i = m
      <3>1. c[i] = a[m] /\ c[i + 1] = b[1]
        BY <1>6, <2>1, <2>3
      <3>2. Head(b) = b[1]
        BY <1>1 DEF Linked
      <3> QED BY <1>1, <1>2, <3>1, <3>2
    <2>4. CASE i > m
      <3>1. c[i] = b[i - m] /\ c[i + 1] = b[i - m + 1] /\ i - m \in 1..(n - 1)
        BY <1>6, <2>1, <2>4
      <3> QED BY <1>1, <1>2, <3>1 DEF Linked
    <2> QED BY <2>2, <2>3, <2>4
  <1>8. c[m + n] = b[n]
    BY <1>3, <1>6
  <1>9. c # <<>> /\ Head(c) = a[1] /\ Head(a) = a[1]
    BY <1>1, <1>3, <1>5, <1>6 DEF Linked
  <1>10. Linked(name, c)
    BY <1>5, <1>7, <1>9 DEF Linked
  <1> QED BY <1>1, <1>2, <1>4, <1>5, <1>8, <1>9, <1>10

(* A stage alone is a chain. *)
LEMMA OneLinked ==
  ASSUME NEW name, NEW a \in Stages,
         NEW s, s = <<a>>
  PROVE  Linked(name, s) /\ Head(s) = a /\ s[Len(s)] = a
  <1>1. s \in Seq(Stages) /\ s # <<>>
    OBVIOUS
  <1>2. /\ Len(s) = 1 /\ Head(s) = a
        /\ s[1] = a
    OBVIOUS
  <1> QED BY <1>1, <1>2 DEF Linked

(* So are stages with a link between each and the next, up to five. *)
LEMMA TwoLinked ==
  ASSUME NEW name, NEW a \in Stages, NEW b \in Stages,
         <<a, b>> \in Links(name),
         NEW s, s = <<a, b>>
  PROVE  Linked(name, s) /\ Head(s) = a /\ s[Len(s)] = b
  <1>1. s \in Seq(Stages) /\ s # <<>>
    OBVIOUS
  <1>2. /\ Len(s) = 2 /\ Head(s) = a
        /\ s[1] = a /\ s[2] = b
    OBVIOUS
  <1>3. \A i \in 1..1 : i = 1
    OBVIOUS
  <1>4. \A i \in 1..1 : <<s[i], s[i + 1]>> \in Links(name)
    BY <1>2, <1>3
  <1> QED BY <1>1, <1>2, <1>3, <1>4 DEF Linked

(* The same of three. *)
LEMMA ThreeLinked ==
  ASSUME NEW name, NEW a \in Stages, NEW b \in Stages, NEW c \in Stages,
         <<a, b>> \in Links(name), <<b, c>> \in Links(name),
         NEW s, s = <<a, b, c>>
  PROVE  Linked(name, s) /\ Head(s) = a /\ s[Len(s)] = c
  <1>1. s \in Seq(Stages) /\ s # <<>>
    OBVIOUS
  <1>2. /\ Len(s) = 3 /\ Head(s) = a
        /\ s[1] = a /\ s[2] = b /\ s[3] = c
    OBVIOUS
  <1>3. \A i \in 1..2 : i = 1 \/ i = 2
    OBVIOUS
  <1>4. \A i \in 1..2 : <<s[i], s[i + 1]>> \in Links(name)
    BY <1>2, <1>3
  <1> QED BY <1>1, <1>2, <1>3, <1>4 DEF Linked

(* The same of four. *)
LEMMA FourLinked ==
  ASSUME NEW name, NEW a \in Stages, NEW b \in Stages, NEW c \in Stages, NEW d \in Stages,
         <<a, b>> \in Links(name), <<b, c>> \in Links(name), <<c, d>> \in Links(name),
         NEW s, s = <<a, b, c, d>>
  PROVE  Linked(name, s) /\ Head(s) = a /\ s[Len(s)] = d
  <1>1. s \in Seq(Stages) /\ s # <<>>
    OBVIOUS
  <1>2. /\ Len(s) = 4 /\ Head(s) = a
        /\ s[1] = a /\ s[2] = b /\ s[3] = c /\ s[4] = d
    OBVIOUS
  <1>3. \A i \in 1..3 : i = 1 \/ i = 2 \/ i = 3
    OBVIOUS
  <1>4. \A i \in 1..3 : <<s[i], s[i + 1]>> \in Links(name)
    BY <1>2, <1>3
  <1> QED BY <1>1, <1>2, <1>3, <1>4 DEF Linked

(* The same of five. *)
LEMMA FiveLinked ==
  ASSUME NEW name, NEW a \in Stages, NEW b \in Stages, NEW c \in Stages, NEW d \in Stages, NEW e \in Stages,
         <<a, b>> \in Links(name), <<b, c>> \in Links(name), <<c, d>> \in Links(name), <<d, e>> \in Links(name),
         NEW s, s = <<a, b, c, d, e>>
  PROVE  Linked(name, s) /\ Head(s) = a /\ s[Len(s)] = e
  <1>1. s \in Seq(Stages) /\ s # <<>>
    OBVIOUS
  <1>2. /\ Len(s) = 5 /\ Head(s) = a
        /\ s[1] = a /\ s[2] = b /\ s[3] = c /\ s[4] = d /\ s[5] = e
    OBVIOUS
  <1>3. \A i \in 1..4 : i = 1 \/ i = 2 \/ i = 3 \/ i = 4
    OBVIOUS
  <1>4. \A i \in 1..4 : <<s[i], s[i + 1]>> \in Links(name)
    BY <1>2, <1>3
  <1> QED BY <1>1, <1>2, <1>3, <1>4 DEF Linked

(* The parts the commands are built from are chains: explaining, *)
LEMMA ExplainingLinked ==
  ASSUME NEW name \in CommandNames, name # "audit"
  PROVE  Linked(name, Explaining) /\ Head(Explaining) = "package"
         /\ Explaining[Len(Explaining)] = "core"
  <1>1. <<"package", "core">> \in Links(name)
    BY DEF CommandNames, Links, Qualifies, Assembles
  <1>2. PICK a \in Stages, b \in Stages : a = "package" /\ b = "core"
    BY DEF Stages
  <1> QED BY <1>1, <1>2, TwoLinked DEF Explaining

(* qualifying, *)
LEMMA QualifyingLinked ==
  ASSUME NEW name \in {"classify2", "plan", "assemble", "invalidate"}
  PROVE  Linked(name, Qualifying) /\ Head(Qualifying) = "package"
         /\ Qualifying[Len(Qualifying)] = "qualify"
  <1>1. PICK t : t = <<"probeEffect", "probeGleam", "citeEffect", "citeGleam", "qualify">>
    OBVIOUS
  <1>2. /\ <<"core", "probeEffect">> \in Links(name)
        /\ <<"probeEffect", "probeGleam">> \in Links(name)
        /\ <<"probeGleam", "citeEffect">> \in Links(name)
        /\ <<"citeEffect", "citeGleam">> \in Links(name)
        /\ <<"citeGleam", "qualify">> \in Links(name)
    BY DEF Links, Qualifies, Assembles
  <1>3. PICK a \in Stages, b \in Stages, c \in Stages, d \in Stages, e \in Stages :
          a = "probeEffect" /\ b = "probeGleam" /\ c = "citeEffect" /\ d = "citeGleam"
          /\ e = "qualify"
    BY DEF Stages
  <1>4. Linked(name, t) /\ Head(t) = a /\ t[Len(t)] = e
    BY <1>1, <1>2, <1>3, FiveLinked
  <1>5. Linked(name, Explaining) /\ Head(Explaining) = "package"
         /\ Explaining[Len(Explaining)] = "core"
    BY ExplainingLinked DEF CommandNames
  <1> QED BY <1>1, <1>2, <1>3, <1>4, <1>5, ThenLinked DEF Qualifying

(* assembling, *)
LEMMA AssemblingLinked ==
  ASSUME NEW name \in {"assemble", "invalidate"}
  PROVE  Linked(name, Assembling) /\ Head(Assembling) = "package"
         /\ Assembling[Len(Assembling)] = "publish"
  <1>1. PICK t : t = <<"plan", "toolchain", "build", "execute", "publish">>
    OBVIOUS
  <1>2. /\ <<"qualify", "plan">> \in Links(name)
        /\ <<"plan", "toolchain">> \in Links(name)
        /\ <<"toolchain", "build">> \in Links(name)
        /\ <<"build", "execute">> \in Links(name)
        /\ <<"execute", "publish">> \in Links(name)
    BY DEF Links, Qualifies, Assembles
  <1>3. PICK a \in Stages, b \in Stages, c \in Stages, d \in Stages, e \in Stages :
          a = "plan" /\ b = "toolchain" /\ c = "build" /\ d = "execute" /\ e = "publish"
    BY DEF Stages
  <1>4. Linked(name, t) /\ Head(t) = a /\ t[Len(t)] = e
    BY <1>1, <1>2, <1>3, FiveLinked
  <1>5. Linked(name, Qualifying) /\ Head(Qualifying) = "package"
        /\ Qualifying[Len(Qualifying)] = "qualify"
    BY QualifyingLinked
  <1>6. <<Qualifying[Len(Qualifying)], Head(t)>> \in Links(name)
    BY <1>2, <1>3, <1>4, <1>5
  <1>7. PICK u : u = Qualifying \o t
    OBVIOUS
  <1>8. Linked(name, u) /\ Head(u) = Head(Qualifying) /\ u[Len(u)] = t[Len(t)]
    BY <1>4, <1>5, <1>6, <1>7, ThenLinked
  <1>9. u = Assembling
    BY <1>1, <1>7 DEF Assembling
  <1> QED BY <1>3, <1>4, <1>5, <1>8, <1>9

(* and the two pipelines of an invalidation. *)
LEMMA RequalifyingLinked ==
  /\ Linked("invalidate", Requalifying) /\ Head(Requalifying) = "package"
  /\ Requalifying[Len(Requalifying)] = "republish"
  /\ \E i \in 1..Len(Requalifying) : Requalifying[i] = "survive"
  <1>1. PICK t, u, a, b, c : /\ t = <<"plan", "survive">> /\ u = <<"parity", "republish">>
                             /\ a = Qualifying \o t /\ b = a \o Assembling /\ c = b \o u
    OBVIOUS
  <1>2. /\ <<"plan", "survive">> \in Links("invalidate")
        /\ <<"parity", "republish">> \in Links("invalidate")
    BY DEF Links, Qualifies, Assembles
  <1>3. Linked("invalidate", t) /\ Head(t) = "plan" /\ t[Len(t)] = "survive"
    <2>1. PICK x \in Stages, y \in Stages : x = "plan" /\ y = "survive"
      BY DEF Stages
    <2> QED BY <1>1, <1>2, <2>1, TwoLinked
  <1>4. Linked("invalidate", u) /\ Head(u) = "parity" /\ u[Len(u)] = "republish"
    <2>1. PICK x \in Stages, y \in Stages : x = "parity" /\ y = "republish"
      BY DEF Stages
    <2> QED BY <1>1, <1>2, <2>1, TwoLinked
  <1>5. /\ <<"qualify", "plan">> \in Links("invalidate")
        /\ <<"survive", "package">> \in Links("invalidate")
        /\ <<"publish", "parity">> \in Links("invalidate")
    BY DEF Links, Qualifies, Assembles
  <1>6. PICK name \in {"assemble", "invalidate"} : name = "invalidate"
    OBVIOUS
  <1>7. /\ Linked(name, Qualifying) /\ Head(Qualifying) = "package"
        /\ Qualifying[Len(Qualifying)] = "qualify"
    BY QualifyingLinked
  <1>8. /\ Linked(name, Assembling) /\ Head(Assembling) = "package"
        /\ Assembling[Len(Assembling)] = "publish"
    BY AssemblingLinked
  <1>9. Linked(name, a) /\ Head(a) = "package" /\ a[Len(a)] = "survive"
    <2>1. <<Qualifying[Len(Qualifying)], Head(t)>> \in Links(name)
      BY <1>3, <1>5, <1>6, <1>7
    <2> QED BY <1>1, <1>3, <1>6, <1>7, <2>1, ThenLinked
  <1>10. Linked(name, b) /\ Head(b) = "package" /\ b[Len(b)] = "publish"
    <2>1. <<a[Len(a)], Head(Assembling)>> \in Links(name)
      BY <1>5, <1>6, <1>8, <1>9
    <2>2. b = a \o Assembling
      BY <1>1
    <2>3. /\ Linked(name, a \o Assembling) /\ Head(a \o Assembling) = Head(a)
          /\ (a \o Assembling)[Len(a \o Assembling)] = Assembling[Len(Assembling)]
      <3>1. Linked(name, a) /\ Linked(name, Assembling)
        BY <1>8, <1>9
      <3> QED BY <2>1, <3>1, ThenLinked, Zenon
    <2> QED BY <1>8, <1>9, <2>2, <2>3
  <1>11. Linked(name, c) /\ Head(c) = "package" /\ c[Len(c)] = "republish"
    <2>1. <<b[Len(b)], Head(u)>> \in Links(name)
      BY <1>4, <1>5, <1>6, <1>10
    <2>2. c = b \o u
      BY <1>1
    <2>3. Linked(name, u)
      BY <1>4, <1>6
    <2>4. /\ Linked(name, b \o u) /\ Head(b \o u) = Head(b)
          /\ (b \o u)[Len(b \o u)] = u[Len(u)]
      BY <1>10, <2>1, <2>3, ThenLinked, Zenon
    <2> QED BY <1>4, <1>10, <2>2, <2>4
  <1>12. \E i \in 1..Len(c) : c[i] = "survive"
    <2>1. a \in Seq(Stages) /\ Assembling \in Seq(Stages) /\ u \in Seq(Stages) /\ a # <<>>
          /\ b \in Seq(Stages)
      BY <1>4, <1>8, <1>9, <1>10 DEF Linked
    <2>2. PICK m \in Nat, n \in Nat, k \in Nat : m = Len(a) /\ n = Len(Assembling) /\ k = Len(u)
      BY <2>1
    <2>3. m > 0
      BY <2>1, <2>2
    <2>4. Len(b) = m + n /\ b[m] = a[m]
      BY <1>1, <2>1, <2>2, <2>3
    <2>5. Len(c) = m + n + k /\ c[m] = b[m]
      BY <1>1, <2>1, <2>2, <2>3, <2>4
    <2>6. m \in 1..Len(c)
      BY <2>3, <2>5
    <2> QED BY <1>9, <2>2, <2>4, <2>5, <2>6
  <1>13. c = Requalifying
    <2>1. /\ Qualifying \in Seq(Stages) /\ Assembling \in Seq(Stages)
      BY QualifyingLinked, AssemblingLinked DEF Linked
    <2> QED BY <1>1, <2>1 DEF Requalifying
  <1> QED BY <1>6, <1>11, <1>12, <1>13

(* Every command begins with a script of its own.                          *)
LEMMA StagesAreScripts ==
  ASSUME NEW name \in CommandNames
  PROVE  /\ Script(name, StagesOf(name)) /\ StagesOf(name) # <<>>
         /\ Head(StagesOf(name)) = IF name \in {"audit", "invalidate"} THEN "inventory" ELSE "package"
  <1>1. \A s : Linked(name, s) /\ s[Len(s)] \in Ends(name) => Script(name, s) /\ s # <<>>
    BY DEF Script, Linked
  <1>2. CASE name \in {"explain", "classify1"}
    <2>1. PICK a \in Stages, b \in Stages, c \in Stages :
            a = "writeLock" /\ b = "writeArtifact" /\ c = "manifest"
      BY DEF Stages
    <2>2. PICK t : t = IF name = "explain" THEN <<a, b>> ELSE <<a, b, c>>
      OBVIOUS
    <2>3. <<"core", a>> \in Links(name) /\ <<a, b>> \in Links(name)
          /\ (name = "classify1" => <<b, c>> \in Links(name))
      BY <1>2, <2>1 DEF Links
    <2>4. Linked(name, t) /\ Head(t) = a /\ t[Len(t)] \in Ends(name)
      <3>1. CASE name = "explain"
        BY <2>1, <2>2, <2>3, <3>1, TwoLinked DEF Ends
      <3>2. CASE name = "classify1"
        BY <2>1, <2>2, <2>3, <3>2, ThreeLinked DEF Ends
      <3> QED BY <1>2, <3>1, <3>2
    <2>5. Linked(name, Explaining) /\ Head(Explaining) = "package"
          /\ Explaining[Len(Explaining)] = "core"
      BY <1>2, ExplainingLinked
    <2>6. PICK u : u = Explaining \o t
      OBVIOUS
    <2>7. Linked(name, u) /\ Head(u) = "package" /\ u[Len(u)] \in Ends(name)
      <3>1. <<Explaining[Len(Explaining)], Head(t)>> \in Links(name)
        BY <2>1, <2>3, <2>4, <2>5
      <3>2. Linked(name, Explaining) /\ Linked(name, t)
        BY <2>4, <2>5
      <3>3. /\ Linked(name, Explaining \o t) /\ Head(Explaining \o t) = Head(Explaining)
            /\ (Explaining \o t)[Len(Explaining \o t)] = t[Len(t)]
        BY <3>1, <3>2, ThenLinked, Zenon
      <3> QED BY <2>4, <2>5, <2>6, <3>3
    <2>8. StagesOf(name) = u
      BY <1>2, <2>1, <2>2, <2>6 DEF StagesOf
    <2> QED BY <1>1, <1>2, <2>7, <2>8
  <1>3. CASE name \in {"classify2", "plan"}
    <2>1. PICK a \in Stages, b \in Stages : a = "plan" /\ b = "publish"
      BY DEF Stages
    <2>2. PICK t : t = IF name = "plan" THEN <<a, b>> ELSE <<b>>
      OBVIOUS
    <2>3. <<"qualify", IF name = "plan" THEN a ELSE b>> \in Links(name)
          /\ (name = "plan" => <<a, b>> \in Links(name))
      BY <1>3, <2>1 DEF Links
    <2>4. Linked(name, t) /\ Head(t) = (IF name = "plan" THEN a ELSE b) /\ t[Len(t)] \in Ends(name)
      <3>1. CASE name = "plan"
        BY <2>1, <2>2, <2>3, <3>1, TwoLinked DEF Ends
      <3>2. CASE name = "classify2"
        BY <2>1, <2>2, <2>3, <3>2, OneLinked DEF Ends
      <3> QED BY <1>3, <3>1, <3>2
    <2>5. Linked(name, Qualifying) /\ Head(Qualifying) = "package"
          /\ Qualifying[Len(Qualifying)] = "qualify"
      BY <1>3, QualifyingLinked
    <2>6. PICK u : u = Qualifying \o t
      OBVIOUS
    <2>7. Linked(name, u) /\ Head(u) = "package" /\ u[Len(u)] \in Ends(name)
      <3>1. <<Qualifying[Len(Qualifying)], Head(t)>> \in Links(name)
        BY <2>1, <2>3, <2>4, <2>5
      <3>2. Linked(name, Qualifying) /\ Linked(name, t)
        BY <2>4, <2>5
      <3>3. /\ Linked(name, Qualifying \o t) /\ Head(Qualifying \o t) = Head(Qualifying)
            /\ (Qualifying \o t)[Len(Qualifying \o t)] = t[Len(t)]
        BY <3>1, <3>2, ThenLinked, Zenon
      <3> QED BY <2>4, <2>5, <2>6, <3>3
    <2>8. StagesOf(name) = u
      BY <1>3, <2>1, <2>2, <2>6 DEF StagesOf
    <2> QED BY <1>1, <1>3, <2>7, <2>8
  <1>4. CASE name = "assemble"
    BY <1>1, <1>4, AssemblingLinked DEF StagesOf, Ends
  <1>5. CASE name \in {"audit", "invalidate"}
    <2>1. PICK a \in Stages, b \in Stages, c \in Stages, d \in Stages :
            a = "inventory" /\ b = "digestCore" /\ c = "digestNix"
            /\ d = IF name = "audit" THEN "summarize" ELSE "compare"
      BY DEF Stages
    <2>2. PICK t : t = <<a, b, c, d>>
      OBVIOUS
    <2>3. <<a, b>> \in Links(name) /\ <<b, c>> \in Links(name) /\ <<c, d>> \in Links(name)
      BY <1>5, <2>1 DEF Links, Audits
    <2>4. Linked(name, t) /\ Head(t) = a /\ t[Len(t)] = d
      BY <2>2, <2>3, FourLinked
    <2>5. StagesOf(name) = t /\ d \in Ends(name)
      BY <1>5, <2>1, <2>2 DEF StagesOf, Ends
    <2> QED BY <1>1, <1>5, <2>1, <2>4, <2>5
  <1> QED BY <1>2, <1>3, <1>4, <1>5 DEF CommandNames

(* The scripts of the other commands do not requalify.                     *)
LEMMA RequalifyingIsAScript ==
  /\ Script("invalidate", Requalifying) /\ Requalifying # <<>> /\ Head(Requalifying) = "package"
  /\ \E i \in 1..Len(Requalifying) : Requalifying[i] = "survive"
  <1>1. "republish" \in Ends("invalidate")
    BY DEF Ends
  <1> QED BY <1>1, RequalifyingLinked DEF Script, Linked

-----------------------------------------------------------------------------
(* The stage at hand. *)
Stage == IF cmd.todo = <<>> THEN "done" ELSE Head(cmd.todo)

(* The stage x of a command may be followed by y. *)
Onward(name, x, y) == <<x, y>> \in Links(name) \/ (x \in Ends(name) /\ y = "done")

(* Which stage follows which, in the stages up to the plan, *)
LEMMA OnwardIs ==
  ASSUME NEW name \in CommandNames, NEW x, NEW y, Onward(name, x, y)
  PROVE  /\ x = "package" => y = "core"
         /\ x = "core" => y \in {"writeLock", "probeEffect"}
         /\ x = "writeLock" => y = "writeArtifact" /\ name \in {"explain", "classify1"}
         /\ x = "writeArtifact" => \/ y = "manifest" /\ name = "classify1"
                                   \/ y = "done" /\ name = "explain"
         /\ x = "manifest" => y = "done" /\ name = "classify1"
         /\ x = "probeEffect" => y = "probeGleam"
         /\ x = "probeGleam" => y = "citeEffect"
         /\ x = "citeEffect" => y = "citeGleam"
         /\ x = "citeGleam" => y = "qualify"
         /\ x = "qualify" => \/ y = "publish" /\ name = "classify2"
                             \/ y = "plan" /\ name \in {"plan", "assemble", "invalidate"}
         /\ x = "plan" => \/ y = "publish" /\ name = "plan"
                          \/ y = "toolchain" /\ name \in {"assemble", "invalidate"}
                          \/ y = "survive" /\ name = "invalidate"
  <1>1. CASE name = "explain"
    BY <1>1 DEF Onward, Links, Ends
  <1>2. CASE name = "classify1"
    BY <1>2 DEF Onward, Links, Ends
  <1>3. CASE name = "classify2"
    BY <1>3 DEF Onward, Links, Ends, Qualifies
  <1>4. CASE name = "plan"
    BY <1>4 DEF Onward, Links, Ends, Qualifies
  <1>5. CASE name = "assemble"
    BY <1>5 DEF Onward, Links, Ends, Qualifies, Assembles
  <1>6. CASE name = "audit"
    BY <1>6 DEF Onward, Links, Ends, Audits
  <1>7. CASE name = "invalidate"
    BY <1>7 DEF Onward, Links, Ends, Qualifies, Assembles, Audits
  <1> QED BY <1>1, <1>2, <1>3, <1>4, <1>5, <1>6, <1>7 DEF CommandNames

(* from the plan on, and in the audit, *)
LEMMA OnwardThen ==
  ASSUME NEW name \in CommandNames, NEW x, NEW y, Onward(name, x, y)
  PROVE  /\ x = "toolchain" => y = "build"
         /\ x = "build" => y = "execute"
         /\ x = "execute" => y = "publish" /\ name \in {"assemble", "invalidate"}
         /\ x = "publish" => \/ y = "parity" /\ name = "invalidate"
                             \/ y = "done" /\ name \in {"classify2", "plan", "assemble"}
         /\ x = "parity" => y = "republish" /\ name = "invalidate"
         /\ x = "republish" => y = "done" /\ name = "invalidate"
         /\ x = "survive" => y = "package" /\ name = "invalidate"
         /\ x = "inventory" => y = "digestCore" /\ name \in {"audit", "invalidate"}
         /\ x = "digestCore" => y = "digestNix" /\ name \in {"audit", "invalidate"}
         /\ x = "digestNix" => \/ y = "summarize" /\ name = "audit"
                               \/ y = "compare" /\ name = "invalidate"
         /\ x = "summarize" => y = "done" /\ name = "audit"
         /\ x = "compare" => y = "done" /\ name = "invalidate"
  <1>1. CASE name = "explain"
    BY <1>1 DEF Onward, Links, Ends
  <1>2. CASE name = "classify1"
    BY <1>2 DEF Onward, Links, Ends
  <1>3. CASE name = "classify2"
    BY <1>3 DEF Onward, Links, Ends, Qualifies
  <1>4. CASE name = "plan"
    BY <1>4 DEF Onward, Links, Ends, Qualifies
  <1>5. CASE name = "assemble"
    BY <1>5 DEF Onward, Links, Ends, Qualifies, Assembles
  <1>6. CASE name = "audit"
    BY <1>6 DEF Onward, Links, Ends, Audits
  <1>7. CASE name = "invalidate"
    BY <1>7 DEF Onward, Links, Ends, Qualifies, Assembles, Audits
  <1> QED BY <1>1, <1>2, <1>3, <1>4, <1>5, <1>6, <1>7 DEF CommandNames

(* Nothing is done in the middle of a command. *)
LEMMA OnwardIsAStage ==
  ASSUME NEW name \in CommandNames, NEW x, NEW y, Onward(name, x, y)
  PROVE  x # "done"
  BY DEF Onward, Links, Ends, CommandNames, Qualifies, Assembles, Audits

(* and which stage precedes which. *)
LEMMA OnwardFrom ==
  ASSUME NEW name \in CommandNames, NEW x, NEW y, Onward(name, x, y)
  PROVE  /\ y = "writeArtifact" => x = "writeLock"
         /\ y = "manifest" => x = "writeArtifact"
         /\ y = "parity" => x = "publish"
         /\ y = "republish" => x = "parity"
         /\ y # "package" \/ x = "survive"
         /\ y # "inventory"
         /\ y = "digestCore" => x = "inventory"
         /\ y = "digestNix" => x = "digestCore"
         /\ y = "compare" => x = "digestNix"
  <1>1. CASE name = "explain"
    BY <1>1 DEF Onward, Links, Ends
  <1>2. CASE name = "classify1"
    BY <1>2 DEF Onward, Links, Ends
  <1>3. CASE name = "classify2"
    BY <1>3 DEF Onward, Links, Ends, Qualifies
  <1>4. CASE name = "plan"
    BY <1>4 DEF Onward, Links, Ends, Qualifies
  <1>5. CASE name = "assemble"
    BY <1>5 DEF Onward, Links, Ends, Qualifies, Assembles
  <1>6. CASE name = "audit"
    BY <1>6 DEF Onward, Links, Ends, Audits
  <1>7. CASE name = "invalidate"
    BY <1>7 DEF Onward, Links, Ends, Qualifies, Assembles, Audits
  <1> QED BY <1>1, <1>2, <1>3, <1>4, <1>5, <1>6, <1>7 DEF CommandNames

Cmds == [name : CommandNames \cup {"none"}, todo : Seq(Stages),
         outcome : {"ok", "running", "failed"}]

IsWork(w) ==
  w = [pkg |-> w.pkg, core |-> w.core, nix |-> w.nix, built |-> w.built,
       observed |-> [t \in Targets |-> w.observed[t]],
       cited |-> [t \in Targets |-> w.cited[t]]]

Typed == /\ cmd \in Cmds
         /\ published = [p \in Paths |-> published[p]]
         /\ IsWork(work)
         /\ calm \in BOOLEAN
         /\ kept # <<>> => kept = <<kept[1]>>

Scripted ==
  cmd.todo # <<>> => cmd.name # "none" /\ cmd.outcome = "running" /\ Script(cmd.name, cmd.todo)

(* A stage is done. *)
LEMMA StageDone ==
  ASSUME Typed, Scripted, NEW stage, At(stage), GoOn(<<>>)
  PROVE  /\ cmd' \in Cmds /\ Scripted'
         /\ cmd.name \in CommandNames /\ cmd'.name = cmd.name
         /\ Stage = stage /\ Onward(cmd.name, stage, Stage') /\ cmd'.todo = Tail(cmd.todo)
         /\ Stage' = "done" <=> cmd'.todo = <<>>
         /\ cmd'.outcome = IF cmd'.todo = <<>> THEN "ok" ELSE "running"
  <1>1. PICK s \in Seq(Stages), name \in CommandNames : s = cmd.todo /\ name = cmd.name
    BY DEF Typed, Cmds, Scripted, At
  <1>2. s # <<>> /\ Script(name, s) /\ cmd.outcome = "running" /\ Head(s) = stage
    BY <1>1 DEF Scripted, At
  <1>3. Script(name, Tail(s)) /\ Tail(s) \in Seq(Stages)
        /\ (Tail(s) # <<>> => <<Head(s), Head(Tail(s))>> \in Links(name))
        /\ (Tail(s) = <<>> => Head(s) \in Ends(name))
    BY <1>2, ScriptRest DEF Script
  <1>4. Tail(s) \o <<>> = Tail(s)
    BY <1>3
  <1>5. cmd' = [cmd EXCEPT !.todo = Tail(s), !.outcome = IF Tail(s) = <<>> THEN "ok" ELSE @]
    BY <1>1, <1>4 DEF GoOn
  <1>6. /\ cmd' \in Cmds /\ cmd'.name = name /\ cmd'.todo = Tail(s)
        /\ cmd'.outcome = IF Tail(s) = <<>> THEN "ok" ELSE "running"
    BY <1>1, <1>2, <1>3, <1>5 DEF Typed, Cmds
  <1>7. Stage = stage /\ Stage' = IF Tail(s) = <<>> THEN "done" ELSE Head(Tail(s))
    BY <1>1, <1>2, <1>6 DEF Stage
  <1>8. Tail(s) # <<>> => Head(Tail(s)) \in Stages
    BY <1>3
  <1>9. "done" \notin Stages
    BY DEF Stages
  <1> QED BY <1>1, <1>2, <1>3, <1>6, <1>7, <1>8, <1>9 DEF Onward, Scripted, CommandNames

-----------------------------------------------------------------------------
(* What a checked observation is, whatever the probe printed. *)
ExpectedObservation(t) ==
  [target |-> t, realization |-> Id.realization, passed |-> Journeys,
   successes |-> 1, rejections |-> 1, remaining |-> ExpectedRemaining(t),
   restart |-> IF t = "gleam-beam" THEN {RestartFlags} ELSE {}]

(* Work that has qualified. *)
Good(w) == /\ \A t \in Targets : w.observed[t] = ExpectedObservation(t)
           /\ w.cited["effect-typescript"] = w.cited["gleam-beam"]

(* Evidence that passed its check observed what is expected, whatever was probed. *)
LEMMA CheckedObservation ==
  ASSUME NEW w, NEW t, NEW o, w.observed[t] = Normalize(o), NEW context,
         CheckEvidence(Evidence(w, t), context)
  PROVE  w.observed[t] = ExpectedObservation(t)
  <1>1. PICK e : e = Evidence(w, t)
    OBVIOUS
  <1>2. e.target = t /\ e.id = Id /\ e.observations = w.observed[t]
    BY <1>1 DEF Evidence
  <1>3. CheckObservations(e)
    BY <1>1 DEF CheckEvidence
  <1>4. PICK n : n = Normalize(o) /\ n = e.observations
    BY <1>2
  <1>5. n = [target |-> n.target, realization |-> n.realization, passed |-> n.passed,
             successes |-> n.successes, rejections |-> n.rejections,
             remaining |-> n.remaining, restart |-> n.restart]
    BY <1>4 DEF Normalize
  <1>6. /\ n.target = t /\ n.realization = Id.realization /\ n.passed = Journeys
        /\ n.successes = 1 /\ n.rejections = 1 /\ n.remaining = ExpectedRemaining(t)
        /\ n.restart = IF t = "gleam-beam" THEN {RestartFlags} ELSE {}
    BY <1>2, <1>3, <1>4 DEF CheckObservations
  <1> QED BY <1>2, <1>4, <1>5, <1>6 DEF ExpectedObservation

(* The two records of a work. *)
LEMMA RecordsAre ==
  ASSUME NEW w
  PROVE  /\ Len(Records(w)) = 2
         /\ Records(w)[1] = Evidence(w, "effect-typescript")
         /\ Records(w)[2] = Evidence(w, "gleam-beam")
  BY DEF Records

(* What a record says and cites. *)
LEMMA EvidenceIs ==
  ASSUME NEW w, NEW t
  PROVE  /\ Evidence(w, t).target = t /\ Evidence(w, t).observations = w.observed[t]
         /\ Evidence(w, t).materials[1] = [role |-> "core-source", path |-> "core", sha |-> w.cited[t]]
         /\ Evidence(w, t).materials[2] = [role |-> BoundaryRole(t), path |-> BoundaryPath(t),
                                           sha |-> Boundary(t, w.core)]
  BY DEF Evidence

(* The two records of a checked set cite one source. *)
LEMMA OneSource ==
  ASSUME NEW w, NEW context, CheckEvidenceSet(Records(w), context)
  PROVE  w.cited["effect-typescript"] = w.cited["gleam-beam"]
  <1>1. PICK m, n : /\ m = Records(w)[1].materials[1] /\ n = Records(w)[2].materials[1]
    OBVIOUS
  <1>2. /\ m.path = "core" /\ m.sha = w.cited["effect-typescript"]
        /\ n.path = "core" /\ n.sha = w.cited["gleam-beam"]
    <2>1. PICK t, u : t = "effect-typescript" /\ u = "gleam-beam"
      OBVIOUS
    <2>2. m = Evidence(w, t).materials[1] /\ n = Evidence(w, u).materials[1]
      BY <1>1, <2>1, RecordsAre
    <2>3. /\ m = [role |-> "core-source", path |-> "core", sha |-> w.cited[t]]
          /\ n = [role |-> "core-source", path |-> "core", sha |-> w.cited[u]]
      BY <2>2 DEF Evidence
    <2>4. m.path = "core" /\ m.sha = w.cited[t] /\ n.path = "core" /\ n.sha = w.cited[u]
      BY <2>3
    <2> QED BY <2>1, <2>4
  <1>3. m.path = n.path => m.sha = n.sha
    <2>1. PICK i \in 1..2 : i = 1
      OBVIOUS
    <2> QED BY <1>1, <2>1 DEF CheckEvidenceSet
  <1> QED BY <1>2, <1>3

(* The entries depend on these fields of the work only. *)
SameReadings(w, v) ==
  /\ w.pkg = v.pkg /\ w.core = v.core
  /\ \A t \in Targets : w.observed[t] = v.observed[t] /\ w.cited[t] = v.cited[t]

(* Works with the same readings give the same records and the same plan. *)
LEMMA SameRecords ==
  ASSUME NEW w, NEW v, SameReadings(w, v)
  PROVE  Records(w) = Records(v) /\ PlanReport(w) = PlanReport(v)
  <1>1. \A t \in Targets : Evidence(w, t) = Evidence(v, t)
    BY DEF SameReadings, Evidence
  <1>2. Records(w) = Records(v)
    BY <1>1 DEF Records, Targets
  <1> QED BY <1>2 DEF PlanReport

QualificationPaths == {"artifact", "lock", "effectBoundary", "gleamBoundary", "effectEvidence",
                       "gleamEvidence", "qualification"}

(* The seven entries of a qualification. *)
LEMMA QualificationEntriesAre ==
  ASSUME NEW w
  PROVE  /\ DOMAIN QualificationEntries(w) = QualificationPaths
         /\ QualificationEntries(w)["artifact"] = MeaningOf[w.core]
         /\ QualificationEntries(w)["lock"] = w.pkg
         /\ QualificationEntries(w)["effectBoundary"] = Boundary("effect-typescript", w.core)
         /\ QualificationEntries(w)["gleamBoundary"] = Boundary("gleam-beam", w.core)
         /\ QualificationEntries(w)["effectEvidence"] = Records(w)[1]
         /\ QualificationEntries(w)["gleamEvidence"] = Records(w)[2]
         /\ QualificationEntries(w)["qualification"] = Records(w)
  BY DEF QualificationEntries, QualificationPaths

AssemblyPaths == {"assemblyBoundary", "assemblyEntry", "binary", "assembly"}

AssemblyOf(w) == [plan |-> PlanReport(w), package |-> w.pkg, nix |-> w.nix,
                  boundary |-> Boundary("gleam-beam", w.core),
                  evidence |-> Records(w)[2],
                  binary |-> <<Boundary("gleam-beam", w.core), w.built>>]

(* The four entries of an assembly. *)
LEMMA AssemblyEntriesAre ==
  ASSUME NEW w
  PROVE  /\ DOMAIN AssemblyEntries(w) = AssemblyPaths
         /\ AssemblyEntries(w)["assemblyBoundary"] = Boundary("gleam-beam", w.core)
         /\ AssemblyEntries(w)["assemblyEntry"] = "entry"
         /\ AssemblyEntries(w)["binary"] = <<Boundary("gleam-beam", w.core), w.built>>
         /\ AssemblyEntries(w)["assembly"] = AssemblyOf(w)
  BY DEF AssemblyEntries, AssemblyPaths, AssemblyOf

(* The entries of each staged command, taken apart. *)
LEMMA EntriesAre ==
  ASSUME NEW w, NEW name \in {"classify2", "plan", "assemble", "invalidate"},
         NEW e, e = EntriesOf(name, w)
  PROVE  /\ DOMAIN e = QualificationPaths
                       \cup (IF name = "classify2" THEN {} ELSE {"plan"})
                       \cup (IF name \in {"assemble", "invalidate"} THEN AssemblyPaths ELSE {})
         /\ \A p \in QualificationPaths : e[p] = QualificationEntries(w)[p]
         /\ name # "classify2" => e["plan"] = PlanReport(w)
         /\ name \in {"assemble", "invalidate"} =>
              \A p \in AssemblyPaths : e[p] = AssemblyEntries(w)[p]
  <1>1. PICK q, r, a, u : /\ q = QualificationEntries(w) /\ r = PlanEntries(w)
                          /\ a = AssemblyEntries(w) /\ u = Over(q, r)
    OBVIOUS
  <1>2. DOMAIN q = QualificationPaths /\ DOMAIN r = {"plan"} /\ DOMAIN a = AssemblyPaths
        /\ r["plan"] = PlanReport(w)
    BY <1>1, QualificationEntriesAre, AssemblyEntriesAre DEF PlanEntries
  <1>3. "plan" \notin QualificationPaths /\ "plan" \notin AssemblyPaths
        /\ QualificationPaths \cap AssemblyPaths = {}
    BY DEF QualificationPaths, AssemblyPaths
  <1>4. /\ DOMAIN u = QualificationPaths \cup {"plan"} /\ u["plan"] = PlanReport(w)
        /\ \A p \in QualificationPaths : u[p] = q[p]
    <2>1. u = [p \in DOMAIN q \cup DOMAIN r |-> IF p \in DOMAIN r THEN r[p] ELSE q[p]]
      BY <1>1 DEF Over
    <2> QED BY <1>2, <1>3, <2>1
  <1>5. CASE name = "classify2"
    BY <1>1, <1>2, <1>5 DEF EntriesOf
  <1>6. CASE name = "plan"
    BY <1>1, <1>4, <1>6 DEF EntriesOf
  <1>7. CASE name \in {"assemble", "invalidate"}
    <2>1. e = Over(u, a)
      BY <1>1, <1>7 DEF EntriesOf
    <2>2. /\ DOMAIN e = QualificationPaths \cup {"plan"} \cup AssemblyPaths
          /\ \A p \in AssemblyPaths : e[p] = a[p]
          /\ \A p \in QualificationPaths \cup {"plan"} : e[p] = u[p]
      <3>1. e = [p \in DOMAIN u \cup DOMAIN a |-> IF p \in DOMAIN a THEN a[p] ELSE u[p]]
        BY <2>1 DEF Over
      <3> QED BY <1>2, <1>3, <1>4, <3>1
    <2> QED BY <1>1, <1>4, <1>7, <2>2
  <1> QED BY <1>5, <1>6, <1>7

(* The published paths are those of the three groups of entries. *)
LEMMA PathsAre ==
  /\ Paths = QualificationPaths \cup {"plan"} \cup AssemblyPaths
  /\ "plan" \notin QualificationPaths /\ "plan" \notin AssemblyPaths
  /\ QualificationPaths \cap AssemblyPaths = {}
  BY DEF Paths, QualificationPaths, AssemblyPaths

(* Publishing replaces the published files the entries are for. *)
LEMMA OverPublished ==
  ASSUME NEW e, Typed, DOMAIN e \subseteq Paths, NEW now, now = Over(published, e)
  PROVE  /\ now = [p \in Paths |-> now[p]]
         /\ \A p \in DOMAIN e : now[p] = e[p]
         /\ \A p \in Paths \ DOMAIN e : now[p] = published[p]
  <1>1. DOMAIN published = Paths
    BY DEF Typed
  <1>2. DOMAIN published \cup DOMAIN e = Paths
    BY <1>1
  <1>3. now = [p \in DOMAIN published \cup DOMAIN e |-> IF p \in DOMAIN e THEN e[p] ELSE published[p]]
    BY DEF Over
  <1>4. now = [p \in Paths |-> IF p \in DOMAIN e THEN e[p] ELSE published[p]]
    BY <1>2, <1>3
  <1> QED BY <1>4

(* Entries of works with the same readings are the same. *)
LEMMA SameEntries ==
  ASSUME NEW w, NEW v, SameReadings(w, v), NEW name \in {"classify2", "plan", "assemble", "invalidate"},
         name \in {"assemble", "invalidate"} => w.nix = v.nix /\ w.built = v.built,
         NEW p \in DOMAIN EntriesOf(name, w)
  PROVE  EntriesOf(name, w)[p] = EntriesOf(name, v)[p]
  <1>1. PICK d, e : d = EntriesOf(name, w) /\ e = EntriesOf(name, v)
    OBVIOUS
  <1>2. Records(w) = Records(v) /\ PlanReport(w) = PlanReport(v)
    BY SameRecords
  <1>3. w.pkg = v.pkg /\ w.core = v.core
    BY DEF SameReadings
  <1>4. CASE p \in QualificationPaths
    <2>1. QualificationEntries(w)[p] = QualificationEntries(v)[p]
      BY <1>2, <1>3, <1>4, QualificationEntriesAre DEF QualificationPaths
    <2> QED BY <1>1, <1>4, <2>1, EntriesAre
  <1>5. CASE p = "plan"
    BY <1>1, <1>2, <1>5, EntriesAre, PathsAre
  <1>6. CASE p \in AssemblyPaths
    <2>1. name \in {"assemble", "invalidate"}
      BY <1>1, <1>6, EntriesAre, PathsAre
    <2>2. AssemblyOf(w) = AssemblyOf(v)
      BY <1>2, <1>3, <2>1 DEF AssemblyOf
    <2>3. AssemblyEntries(w)[p] = AssemblyEntries(v)[p]
      BY <1>2, <1>3, <1>6, <2>1, <2>2, AssemblyEntriesAre DEF AssemblyPaths
    <2> QED BY <1>1, <1>6, <2>1, <2>3, EntriesAre
  <1> QED BY <1>1, <1>4, <1>5, <1>6, EntriesAre

-----------------------------------------------------------------------------
EffectProbed == {"probeGleam", "citeEffect"}
GleamProbed  == {"citeEffect", "citeGleam"}
EffectCited  == {"citeGleam", "qualify"}
Qualified == {"publish", "plan", "toolchain", "build", "execute", "survive", "parity",
              "republish"}
PackageRead == {"core", "writeLock", "probeEffect", "probeGleam", "citeEffect", "citeGleam",
                "qualify"}
CoreRead == {"writeLock", "writeArtifact", "probeEffect", "probeGleam", "citeEffect",
             "citeGleam", "qualify"}

(* The stages at which the plan of an assembly is settled.                 *)
Settled(stages) ==
  Stage \in stages \/ (Stage = "publish" /\ cmd.name \in {"assemble", "invalidate"})

(* What the pipeline has checked. *)
WorkOk ==
  /\ Stage \in EffectProbed => \E o : work.observed["effect-typescript"] = Normalize(o)
  /\ Stage \in GleamProbed => \E o : work.observed["gleam-beam"] = Normalize(o)
  /\ Stage \in EffectCited =>
       work.observed["effect-typescript"] = ExpectedObservation("effect-typescript")
  /\ Stage = "qualify" => work.observed["gleam-beam"] = ExpectedObservation("gleam-beam")
  /\ Stage \in Qualified => Good(work)
  /\ Settled({"build", "execute"}) => PlanReport(work).tag = "Selected"

(* The work was read from these files. *)
Clean(w, f) == /\ w.pkg = DigestOf[f.pkg] /\ w.core = f.core
               /\ \A t \in Targets : w.cited[t] = f.core

(* What the pipeline has read, if nobody has edited. *)
ReadOk == calm =>
  /\ Stage \in PackageRead => work.pkg = DigestOf[files.pkg]
  /\ Stage \in CoreRead => work.core = files.core
  /\ Stage \in EffectCited => work.cited["effect-typescript"] = files.core
  /\ Stage = "qualify" => work.cited["gleam-beam"] = files.core
  /\ Stage \in Qualified => Clean(work, files)
  /\ Settled({"build", "execute"}) => work.nix = files.nix
  /\ Settled({"execute"}) => work.built = files.nix

Recorded == {"effectBoundary", "gleamBoundary", "effectEvidence", "gleamEvidence",
             "qualification"}

(* The published evidence is that of one qualified run. *)
QualificationOk ==
  \/ published["qualification"] = Absent
  \/ \E w : Good(w) /\ \A p \in Recorded : published[p] = QualificationEntries(w)[p]

(* So is the published assembly, of a perhaps earlier run. *)
AssemblyOk ==
  \/ published["assembly"] = Absent
  \/ \E w : /\ Good(w) /\ PlanReport(w).tag = "Selected"
            /\ published["assemblyBoundary"] = Boundary("gleam-beam", w.core)
            /\ published["assembly"] = AssemblyOf(w)

(* What the first pipeline of an invalidation leaves for its end.          *)
KeptOk ==
  /\ kept # <<>> => \E w : /\ Good(w) /\ kept[1] = EntriesOf("plan", w)
                           /\ calm => Clean(w, files)
  /\ cmd.name = "invalidate" /\ Stage \notin {"done", "inventory", "digestCore", "digestNix", "compare"} =>
       /\ retired # {}
       /\ kept = <<>> => \E i \in 1..Len(cmd.todo) : cmd.todo[i] = "survive"

(* Nothing was published yet, or nothing will be. *)
Unpublished ==
  \/ cmd.name \in {"none", "audit"}
  \/ /\ cmd.name = "invalidate"
     /\ retired = {} \/ Stage \in {"inventory", "digestCore", "digestNix", "compare"}
  \/ /\ cmd.name \in {"classify2", "plan", "assemble"}
     /\ Stage # "done" \/ cmd.outcome # "ok"

PublishedOk == calm =>
  /\ Unpublished => published = before
  /\ Stage \in {"writeArtifact", "manifest"} => published["lock"] = DigestOf[files.pkg]
  /\ Stage = "manifest" => published["artifact"] = MeaningOf[files.core]
  /\ Stage \in {"parity", "republish"} =>
       \A p \in DOMAIN EntriesOf("invalidate", CleanWork(files)) :
         published[p] = EntriesOf("invalidate", CleanWork(files))[p]
  /\ CalmRunsAreClean

PipelineInv == Typed /\ Scripted /\ WorkOk /\ ReadOk /\ QualificationOk /\ AssemblyOk /\ KeptOk
        /\ PublishedOk

(* A clean work's entries are those of the clean run. *)
LEMMA CleanEntries ==
  ASSUME NEW w, NEW f, Clean(w, f),
         \A t \in Targets : w.observed[t] = work.observed[t],
         NEW name \in {"classify2", "plan", "assemble", "invalidate"},
         name \in {"assemble", "invalidate"} => w.nix = f.nix /\ w.built = f.nix,
         NEW p \in DOMAIN EntriesOf(name, w)
  PROVE  EntriesOf(name, w)[p] = EntriesOf(name, CleanWork(f))[p]
  <1>1. PICK v : v = CleanWork(f)
    OBVIOUS
  <1>2. /\ v.pkg = DigestOf[f.pkg] /\ v.core = f.core /\ v.nix = f.nix /\ v.built = f.nix
        /\ \A t \in Targets : v.observed[t] = work.observed[t] /\ v.cited[t] = f.core
    BY <1>1 DEF CleanWork
  <1>3. SameReadings(w, v)
    BY <1>2 DEF SameReadings, Clean
  <1> QED BY <1>1, <1>2, <1>3, SameEntries

(* Good works have the same observations. *)
LEMMA GoodObservations ==
  ASSUME NEW w, NEW v, Good(w), Good(v)
  PROVE  \A t \in Targets : w.observed[t] = v.observed[t]
  BY DEF Good

(* The reports depend on the demands, which nothing changes.               *)
LEMMA DemandsStay ==
  ASSUME demands' = demands
  PROVE  /\ \A w : (PlanReport(w))' = PlanReport(w)
         /\ \A w : (AssemblyOf(w))' = AssemblyOf(w)
         /\ \A w, name : (EntriesOf(name, w))' = EntriesOf(name, w)
         /\ \A w : (QualificationEntries(w))' = QualificationEntries(w)
  <1>1. Selection' = Selection
    BY DEF Selection
  <1>2. \A w : (PlanReport(w))' = PlanReport(w)
    BY <1>1 DEF PlanReport
  <1>3. \A w : (AssemblyOf(w))' = AssemblyOf(w)
    BY <1>2 DEF AssemblyOf
  <1>4. \A w : (AssemblyEntries(w))' = AssemblyEntries(w)
    BY <1>2 DEF AssemblyEntries
  <1>5. \A w : (PlanEntries(w))' = PlanEntries(w)
    BY <1>2 DEF PlanEntries
  <1>6. \A w : (QualificationEntries(w))' = QualificationEntries(w)
    OBVIOUS
  <1> QED BY <1>2, <1>3, <1>4, <1>5, <1>6 DEF EntriesOf

-----------------------------------------------------------------------------
(* It holds before the first command. *)
LEMMA InitPipelineInv == Init => PipelineInv
  <1> SUFFICES ASSUME Init PROVE PipelineInv
    OBVIOUS
  <1>1. cmd = [name |-> "none", todo |-> <<>>, outcome |-> "ok"] /\ Stage = "done"
    BY DEF Init, Stage
  <1>2. cmd \in Cmds
    BY <1>1 DEF Cmds
  <1>3. DOMAIN published = Paths /\ published = [p \in Paths |-> published[p]]
        /\ \A p \in Paths : published[p] = Absent
    BY DEF Init
  <1>4. Typed
    BY <1>2, <1>3 DEF Init, Typed, IsWork, NoWork
  <1>5. QualificationOk /\ AssemblyOk
    BY <1>3 DEF QualificationOk, AssemblyOk, Paths
  <1>6. CalmRunsAreClean
    BY <1>1 DEF CalmRunsAreClean, Init
  <1>7. Scripted /\ WorkOk /\ ReadOk /\ KeptOk
    BY <1>1 DEF Scripted, WorkOk, ReadOk, KeptOk, Settled, EffectProbed, GleamProbed, EffectCited,
       Qualified, PackageRead, CoreRead, Init
  <1>8. PublishedOk
    BY <1>1, <1>6 DEF PublishedOk, Init
  <1> QED BY <1>4, <1>5, <1>7, <1>8 DEF PipelineInv

(* The parts about the published files that an unchanged world keeps.      *)
LEMMA WorldStays ==
  ASSUME PipelineInv, UNCHANGED <<demands, published>>
  PROVE  QualificationOk' /\ AssemblyOk'
  BY DemandsStay DEF PipelineInv, QualificationOk, AssemblyOk

(* The first pipeline of an invalidation is still to come, or has staged its entries. *)
LEMMA KeptStays ==
  ASSUME PipelineInv, NEW stage, At(stage), GoOn(<<>>), UNCHANGED <<steady, kept>>,
         stage \notin {"survive", "compare"},
         cmd.name = "invalidate" => retired' = retired
  PROVE  KeptOk'
  <1>1. PICK name, y : name = cmd.name /\ y = Stage'
    OBVIOUS
  <1>2. /\ name \in CommandNames /\ cmd'.name = name
        /\ Stage = stage /\ Onward(name, stage, y) /\ cmd'.todo = Tail(cmd.todo)
    BY <1>1, StageDone DEF PipelineInv
  <1>3. UNCHANGED <<files, demands, calm, kept>>
    BY DEF steady
  <1>4. kept' # <<>> => \E w : /\ Good(w) /\ kept'[1] = (EntriesOf("plan", w))'
                               /\ calm' => Clean(w, files')
    BY <1>3, DemandsStay DEF PipelineInv, KeptOk
  <1>5. ASSUME name = "invalidate", y \notin {"done", "inventory", "digestCore", "digestNix", "compare"}
        PROVE  /\ retired # {}
               /\ kept = <<>> => \E i \in 1..Len(cmd'.todo) : cmd'.todo[i] = "survive"
    <2>1. stage \notin {"done", "inventory", "digestCore", "digestNix", "compare"}
      BY <1>2, <1>5, OnwardThen, OnwardIsAStage
    <2>2. /\ retired # {}
          /\ kept = <<>> => \E i \in 1..Len(cmd.todo) : cmd.todo[i] = "survive"
      BY <1>1, <1>2, <1>5, <2>1 DEF PipelineInv, KeptOk
    <2>3. ASSUME NEW i \in 1..Len(cmd.todo), cmd.todo[i] = "survive"
          PROVE  \E j \in 1..Len(cmd'.todo) : cmd'.todo[j] = "survive"
      <3>1. PICK s \in Seq(Stages) : s = cmd.todo /\ s # <<>> /\ Head(s) = stage
        BY <1>2 DEF PipelineInv, Typed, Cmds, At
      <3>2. i # 1
        BY <2>3, <3>1
      <3>3. PICK j : j = i - 1 /\ j \in 1..Len(Tail(s))
        BY <2>3, <3>1, <3>2
      <3>4. Tail(s)[j] = s[i]
        BY <2>3, <3>1, <3>2, <3>3
      <3> QED BY <1>2, <2>3, <3>1, <3>3, <3>4
    <2> QED BY <2>2, <2>3
  <1> QED BY <1>1, <1>2, <1>3, <1>4, <1>5 DEF KeptOk

(* A stage that publishes, keeps and retires nothing. *)
LEMMA ComputesKeeps ==
  ASSUME PipelineInv, NEW stage, At(stage), GoOn(<<>>),
         UNCHANGED <<steady, published, kept, retired>>,
         stage \notin {"writeLock", "writeArtifact", "publish", "republish", "survive",
                       "summarize", "compare"},
         stage \in {"parity", "manifest"} => UNCHANGED work,
         IsWork(work'), WorkOk', ReadOk'
  PROVE  PipelineInv'
  <1>1. PICK name, y : name = cmd.name /\ y = Stage'
    OBVIOUS
  <1>2. /\ cmd' \in Cmds /\ Scripted'
        /\ name \in CommandNames /\ cmd'.name = name
        /\ Stage = stage /\ Onward(name, stage, y) /\ cmd'.todo = Tail(cmd.todo)
        /\ (y = "done" <=> cmd'.todo = <<>>)
        /\ cmd'.outcome = IF cmd'.todo = <<>> THEN "ok" ELSE "running"
    BY <1>1, StageDone DEF PipelineInv
  <1>3. UNCHANGED <<files, demands, edits, ran, before, calm, published, kept, retired>>
    BY DEF steady
  <1>4. Typed'
    BY <1>2, <1>3 DEF PipelineInv, Typed
  <1>5. QualificationOk' /\ AssemblyOk'
    BY <1>3, WorldStays
  <1>6. KeptOk'
    BY <1>3, KeptStays
  <1>7. PublishedOk'
    <2> SUFFICES ASSUME calm PROVE PublishedOk'
      BY <1>3 DEF PublishedOk
    <2>1. Unpublished' => Unpublished
      BY <1>1, <1>2, <1>3, OnwardIsAStage, OnwardFrom DEF Unpublished
    <2>2. /\ y \notin {"writeArtifact", "manifest", "parity"}
          /\ y = "republish" => stage = "parity"
      BY <1>2, OnwardFrom
    <2>3. Unpublished' => published' = before'
      BY <1>3, <2>1 DEF PipelineInv, PublishedOk
    <2>4. ASSUME y = "republish"
          PROVE  \A p \in DOMAIN (EntriesOf("invalidate", CleanWork(files)))' :
                   published'[p] = (EntriesOf("invalidate", CleanWork(files)))'[p]
      <3>1. stage = "parity" /\ UNCHANGED work
        BY <2>2, <2>4
      <3>2. PICK v : v = CleanWork(files) /\ v = (CleanWork(files))'
        BY <1>3, <3>1 DEF CleanWork
      <3>3. \A p \in DOMAIN EntriesOf("invalidate", v) : published[p] = EntriesOf("invalidate", v)[p]
        BY <1>2, <3>1, <3>2 DEF PipelineInv, PublishedOk
      <3> QED BY <1>3, <3>2, <3>3, DemandsStay
    <2>5. CalmRunsAreClean'
      <3>1. CASE y # "done"
        BY <1>1, <1>2, <3>1 DEF CalmRunsAreClean, Idle
      <3>2. CASE y = "done"
        <4>1. stage = "manifest" /\ name = "classify1"
          BY <1>2, <3>2 DEF Onward, Links, Ends, Qualifies, Assembles, Audits
        <4>2. published["artifact"] = MeaningOf[files.core] /\ published["lock"] = DigestOf[files.pkg]
          BY <1>2, <4>1 DEF PipelineInv, PublishedOk
        <4> QED BY <1>1, <1>2, <1>3, <4>1, <4>2 DEF CalmRunsAreClean
      <3> QED BY <3>1, <3>2
    <2> QED BY <1>1, <1>3, <2>2, <2>3, <2>4, <2>5 DEF PublishedOk
  <1> QED BY <1>2, <1>4, <1>5, <1>6, <1>7 DEF PipelineInv

-----------------------------------------------------------------------------
USE DEF EffectProbed, GleamProbed, EffectCited, Qualified, PackageRead, CoreRead

(* The package is resolved and its digest read. *)
LEMMA ResolvePackageKeeps == ASSUME PipelineInv, ResolvePackage PROVE PipelineInv'
  <1>1. PICK name, y : name = cmd.name /\ y = Stage'
    OBVIOUS
  <1>2. /\ At("package") /\ GoOn(<<>>) /\ UNCHANGED <<steady, published, kept, retired>>
    BY DEF ResolvePackage, Computes
  <1>3. /\ Stage = "package" /\ Onward(name, "package", y) /\ name \in CommandNames
        /\ cmd'.name = name
    BY <1>1, <1>2, StageDone DEF PipelineInv
  <1>4. UNCHANGED <<files, demands, calm>>
    BY <1>2 DEF steady
  <1>5. y = "core"
    BY <1>3, OnwardIs
  <1>6. work'.pkg = DigestOf[files.pkg] /\ IsWork(work')
    <2>1. work' = [NoWork EXCEPT !.pkg = DigestOf[files.pkg]]
      BY DEF ResolvePackage
    <2> QED BY <2>1 DEF IsWork, NoWork
  <1>7. IsWork(work')
    BY <1>6
  <1>8. WorkOk'
    BY <1>1, <1>5 DEF WorkOk, Settled
  <1>9. ReadOk'
    BY <1>1, <1>4, <1>5, <1>6 DEF ReadOk, Settled
  <1> QED BY <1>2, <1>7, <1>8, <1>9, ComputesKeeps

(* The source is loaded. *)
LEMMA LoadSourcesKeeps == ASSUME PipelineInv, LoadSources PROVE PipelineInv'
  <1>1. PICK name, y : name = cmd.name /\ y = Stage'
    OBVIOUS
  <1>2. /\ At("core") /\ GoOn(<<>>) /\ UNCHANGED <<steady, published, kept, retired>>
    BY DEF LoadSources, Computes
  <1>3. /\ Stage = "core" /\ Onward(name, "core", y) /\ name \in CommandNames
        /\ cmd'.name = name
    BY <1>1, <1>2, StageDone DEF PipelineInv
  <1>4. UNCHANGED <<files, demands, calm>>
    BY <1>2 DEF steady
  <1>5. y \in {"writeLock", "probeEffect"}
    BY <1>3, OnwardIs
  <1>6. /\ IsWork(work') /\ work'.core = files.core /\ work'.pkg = work.pkg
    <2>1. PICK w, v, x : w = work /\ v = work' /\ x = files.core /\ v = [w EXCEPT !.core = x]
      BY DEF LoadSources
    <2>2. IsWork(w)
      BY <2>1 DEF PipelineInv, Typed
    <2>3. IsWork(v) /\ v.core = x
      BY <2>1, <2>2 DEF IsWork
    <2> QED BY <2>1, <2>2, <2>3 DEF IsWork
  <1>7. IsWork(work')
    BY <1>6
  <1>8. WorkOk'
    BY <1>1, <1>5 DEF WorkOk, Settled
  <1>9. ReadOk'
    BY <1>1, <1>3, <1>4, <1>5, <1>6 DEF PipelineInv, ReadOk, Settled
  <1> QED BY <1>2, <1>7, <1>8, <1>9, ComputesKeeps

(* The old manifest is checked, which ends classify1. *)
LEMMA CheckManifestKeeps == ASSUME PipelineInv, CheckManifest PROVE PipelineInv'
  <1>1. PICK name, y : name = cmd.name /\ y = Stage'
    OBVIOUS
  <1>2. /\ At("manifest") /\ GoOn(<<>>) /\ UNCHANGED <<steady, published, kept, retired>>
    BY DEF CheckManifest, Computes
  <1>3. /\ Stage = "manifest" /\ Onward(name, "manifest", y) /\ name \in CommandNames
        /\ cmd'.name = name
    BY <1>1, <1>2, StageDone DEF PipelineInv
  <1>4. UNCHANGED <<files, demands, calm>>
    BY <1>2 DEF steady
  <1>5. y = "done"
    BY <1>3, OnwardIs
  <1>6. work' = work
    BY DEF CheckManifest
  <1>7. IsWork(work')
    BY <1>6 DEF PipelineInv, Typed
  <1>8. WorkOk'
    BY <1>1, <1>5 DEF WorkOk, Settled
  <1>9. ReadOk'
    BY <1>1, <1>5 DEF ReadOk, Settled
  <1> QED BY <1>2, <1>6, <1>7, <1>8, <1>9, ComputesKeeps

(* The Effect boundary is probed: any output. *)
LEMMA ProbeEffectKeeps == ASSUME PipelineInv, Probe("probeEffect", "effect-typescript") PROVE PipelineInv'
  <1>1. PICK name, y : name = cmd.name /\ y = Stage'
    OBVIOUS
  <1>2. /\ At("probeEffect") /\ GoOn(<<>>) /\ UNCHANGED <<steady, published, kept, retired>>
    BY DEF Probe, Computes
  <1>3. /\ Stage = "probeEffect" /\ Onward(name, "probeEffect", y) /\ name \in CommandNames
        /\ cmd'.name = name
    BY <1>1, <1>2, StageDone DEF PipelineInv
  <1>4. UNCHANGED <<files, demands, calm>>
    BY <1>2 DEF steady
  <1>5. y = "probeGleam"
    BY <1>3, OnwardIs
  <1>6. PICK t \in Targets : t = "effect-typescript"
    BY DEF Targets
  <1>7. PICK o : work' = [work EXCEPT !.observed[t] = Normalize(o)]
    BY <1>6 DEF Probe
  <1>8. /\ IsWork(work') /\ work'.core = work.core /\ work'.pkg = work.pkg
        /\ work'.observed[t] = Normalize(o)
    <2>1. PICK w, v, x, c : /\ w = work /\ v = work' /\ x = Normalize(o)
                            /\ c = [z \in Targets |-> IF z = t THEN x ELSE w.observed[z]]
      OBVIOUS
    <2>2. IsWork(w) /\ c[t] = x
      BY <2>1 DEF PipelineInv, Typed
    <2>3. v = [w EXCEPT !.observed[t] = x]
      BY <1>7, <2>1
    <2>4. v = [w EXCEPT !.observed = c]
      <3>1. PICK h : h = w.observed /\ h = [z \in Targets |-> h[z]]
        BY <2>2 DEF IsWork
      <3>2. v = [w EXCEPT !.observed = [h EXCEPT ![t] = x]]
        BY <2>3, <3>1
      <3>3. [h EXCEPT ![t] = x] = c
        BY <2>1, <3>1
      <3> QED BY <3>2, <3>3
    <2>5. IsWork(v) /\ v.observed = c
      BY <2>1, <2>2, <2>4 DEF IsWork
    <2>6. v.core = w.core /\ v.pkg = w.pkg /\ v.cited = w.cited
      BY <2>2, <2>4 DEF IsWork
    <2> QED BY <2>1, <2>2, <2>5, <2>6
  <1>9. IsWork(work')
    BY <1>8
  <1>10. WorkOk'
    BY <1>1, <1>5, <1>6, <1>8 DEF WorkOk, Settled
  <1>11. ReadOk'
    BY <1>1, <1>3, <1>4, <1>5, <1>8 DEF PipelineInv, ReadOk, Settled
  <1> QED BY <1>2, <1>9, <1>10, <1>11, ComputesKeeps

(* The Gleam boundary is probed: any output. *)
LEMMA ProbeGleamKeeps == ASSUME PipelineInv, Probe("probeGleam", "gleam-beam") PROVE PipelineInv'
  <1>1. PICK name, y : name = cmd.name /\ y = Stage'
    OBVIOUS
  <1>2. /\ At("probeGleam") /\ GoOn(<<>>) /\ UNCHANGED <<steady, published, kept, retired>>
    BY DEF Probe, Computes
  <1>3. /\ Stage = "probeGleam" /\ Onward(name, "probeGleam", y) /\ name \in CommandNames
        /\ cmd'.name = name
    BY <1>1, <1>2, StageDone DEF PipelineInv
  <1>4. UNCHANGED <<files, demands, calm>>
    BY <1>2 DEF steady
  <1>5. y = "citeEffect"
    BY <1>3, OnwardIs
  <1>6. PICK t \in Targets, u \in Targets : t = "gleam-beam" /\ u = "effect-typescript"
    BY DEF Targets
  <1>7. PICK o : work' = [work EXCEPT !.observed[t] = Normalize(o)]
    BY <1>6 DEF Probe
  <1>8. /\ IsWork(work') /\ work'.core = work.core /\ work'.pkg = work.pkg
        /\ work'.observed[t] = Normalize(o) /\ work'.observed[u] = work.observed[u]
    <2>1. PICK w, v, x, c : /\ w = work /\ v = work' /\ x = Normalize(o)
                            /\ c = [z \in Targets |-> IF z = t THEN x ELSE w.observed[z]]
      OBVIOUS
    <2>2. IsWork(w) /\ c[t] = x
      BY <2>1 DEF PipelineInv, Typed
    <2>3. v = [w EXCEPT !.observed[t] = x]
      BY <1>7, <2>1
    <2>4. v = [w EXCEPT !.observed = c]
      <3>1. PICK h : h = w.observed /\ h = [z \in Targets |-> h[z]]
        BY <2>2 DEF IsWork
      <3>2. v = [w EXCEPT !.observed = [h EXCEPT ![t] = x]]
        BY <2>3, <3>1
      <3>3. [h EXCEPT ![t] = x] = c
        BY <2>1, <3>1
      <3> QED BY <3>2, <3>3
    <2>5. IsWork(v) /\ v.observed = c
      BY <2>1, <2>2, <2>4 DEF IsWork
    <2>6. v.core = w.core /\ v.pkg = w.pkg /\ v.cited = w.cited
      BY <2>2, <2>4 DEF IsWork
    <2> QED BY <1>6, <2>1, <2>2, <2>5, <2>6
  <1>9. \E p : work.observed[u] = Normalize(p)
    BY <1>3, <1>6 DEF PipelineInv, WorkOk
  <1>10. IsWork(work')
    BY <1>8
  <1>11. WorkOk'
    BY <1>1, <1>5, <1>6, <1>8, <1>9 DEF WorkOk, Settled
  <1>12. ReadOk'
    BY <1>1, <1>3, <1>4, <1>5, <1>8 DEF PipelineInv, ReadOk, Settled
  <1> QED BY <1>2, <1>10, <1>11, <1>12, ComputesKeeps

(* The Effect evidence is made and checked, citing the source as it is now. *)
LEMMA CiteEffectKeeps == ASSUME PipelineInv, Cite("citeEffect", "effect-typescript") PROVE PipelineInv'
  <1>1. PICK name, y : name = cmd.name /\ y = Stage'
    OBVIOUS
  <1>2. /\ At("citeEffect") /\ GoOn(<<>>) /\ UNCHANGED <<steady, published, kept, retired>>
    BY DEF Cite, Computes
  <1>3. /\ Stage = "citeEffect" /\ Onward(name, "citeEffect", y) /\ name \in CommandNames
        /\ cmd'.name = name
    BY <1>1, <1>2, StageDone DEF PipelineInv
  <1>4. UNCHANGED <<files, demands, calm>>
    BY <1>2 DEF steady
  <1>5. y = "citeGleam"
    BY <1>3, OnwardIs
  <1>6. PICK t \in Targets, u \in Targets : t = "effect-typescript" /\ u = "gleam-beam"
    BY DEF Targets
  <1>7. work' = [work EXCEPT !.cited[t] = files.core]
    BY <1>6 DEF Cite
  <1>8. /\ IsWork(work') /\ work'.core = work.core /\ work'.pkg = work.pkg
        /\ work'.cited[t] = files.core /\ work'.cited[u] = work.cited[u]
        /\ work'.observed[t] = work.observed[t] /\ work'.observed[u] = work.observed[u]
    <2>1. PICK w, v, x, c : /\ w = work /\ v = work' /\ x = files.core
                            /\ c = [z \in Targets |-> IF z = t THEN x ELSE w.cited[z]]
      OBVIOUS
    <2>2. IsWork(w) /\ c[t] = x
      BY <2>1 DEF PipelineInv, Typed
    <2>3. v = [w EXCEPT !.cited[t] = x]
      BY <1>7, <2>1
    <2>4. v = [w EXCEPT !.cited = c]
      <3>1. PICK h : h = w.cited /\ h = [z \in Targets |-> h[z]]
        BY <2>2 DEF IsWork
      <3>2. v = [w EXCEPT !.cited = [h EXCEPT ![t] = x]]
        BY <2>3, <3>1
      <3>3. [h EXCEPT ![t] = x] = c
        BY <2>1, <3>1
      <3> QED BY <3>2, <3>3
    <2>5. IsWork(v) /\ v.cited = c
      BY <2>1, <2>2, <2>4 DEF IsWork
    <2>6. v.core = w.core /\ v.pkg = w.pkg /\ v.observed = w.observed
      BY <2>2, <2>4 DEF IsWork
    <2> QED BY <1>6, <2>1, <2>2, <2>5, <2>6
  <1>9. PICK o : work'.observed[t] = Normalize(o)
    BY <1>3, <1>6, <1>8 DEF PipelineInv, WorkOk
  <1>10. PICK v, context : v = work' /\ CheckEvidence(Evidence(v, t), context)
    BY <1>6 DEF Cite
  <1>11. work'.observed[t] = ExpectedObservation(t)
    BY <1>9, <1>10, CheckedObservation
  <1>12. IsWork(work')
    BY <1>8
  <1>13. WorkOk'
    <2>1. \E p : work'.observed[u] = Normalize(p)
      BY <1>3, <1>6, <1>8 DEF PipelineInv, WorkOk
    <2> QED BY <1>1, <1>5, <1>6, <1>11, <2>1 DEF WorkOk, Settled
  <1>14. ReadOk'
    BY <1>1, <1>3, <1>4, <1>5, <1>6, <1>8 DEF PipelineInv, ReadOk, Settled
  <1> QED BY <1>2, <1>12, <1>13, <1>14, ComputesKeeps

(* The same of the Gleam evidence; the two may cite different sources here. *)
LEMMA CiteGleamKeeps == ASSUME PipelineInv, Cite("citeGleam", "gleam-beam") PROVE PipelineInv'
  <1>1. PICK name, y : name = cmd.name /\ y = Stage'
    OBVIOUS
  <1>2. /\ At("citeGleam") /\ GoOn(<<>>) /\ UNCHANGED <<steady, published, kept, retired>>
    BY DEF Cite, Computes
  <1>3. /\ Stage = "citeGleam" /\ Onward(name, "citeGleam", y) /\ name \in CommandNames
        /\ cmd'.name = name
    BY <1>1, <1>2, StageDone DEF PipelineInv
  <1>4. UNCHANGED <<files, demands, calm>>
    BY <1>2 DEF steady
  <1>5. y = "qualify"
    BY <1>3, OnwardIs
  <1>6. PICK t \in Targets, u \in Targets : t = "gleam-beam" /\ u = "effect-typescript"
    BY DEF Targets
  <1>7. work' = [work EXCEPT !.cited[t] = files.core]
    BY <1>6 DEF Cite
  <1>8. /\ IsWork(work') /\ work'.core = work.core /\ work'.pkg = work.pkg
        /\ work'.cited[t] = files.core /\ work'.cited[u] = work.cited[u]
        /\ work'.observed[t] = work.observed[t] /\ work'.observed[u] = work.observed[u]
    <2>1. PICK w, v, x, c : /\ w = work /\ v = work' /\ x = files.core
                            /\ c = [z \in Targets |-> IF z = t THEN x ELSE w.cited[z]]
      OBVIOUS
    <2>2. IsWork(w) /\ c[t] = x
      BY <2>1 DEF PipelineInv, Typed
    <2>3. v = [w EXCEPT !.cited[t] = x]
      BY <1>7, <2>1
    <2>4. v = [w EXCEPT !.cited = c]
      <3>1. PICK h : h = w.cited /\ h = [z \in Targets |-> h[z]]
        BY <2>2 DEF IsWork
      <3>2. v = [w EXCEPT !.cited = [h EXCEPT ![t] = x]]
        BY <2>3, <3>1
      <3>3. [h EXCEPT ![t] = x] = c
        BY <2>1, <3>1
      <3> QED BY <3>2, <3>3
    <2>5. IsWork(v) /\ v.cited = c
      BY <2>1, <2>2, <2>4 DEF IsWork
    <2>6. v.core = w.core /\ v.pkg = w.pkg /\ v.observed = w.observed
      BY <2>2, <2>4 DEF IsWork
    <2> QED BY <1>6, <2>1, <2>2, <2>5, <2>6
  <1>9. PICK o : work'.observed[t] = Normalize(o)
    BY <1>3, <1>6, <1>8 DEF PipelineInv, WorkOk
  <1>10. PICK v, context : v = work' /\ CheckEvidence(Evidence(v, t), context)
    BY <1>6 DEF Cite
  <1>11. work'.observed[t] = ExpectedObservation(t)
    BY <1>9, <1>10, CheckedObservation
  <1>12. IsWork(work')
    BY <1>8
  <1>13. WorkOk'
    <2>1. work'.observed[u] = ExpectedObservation(u)
      BY <1>3, <1>6, <1>8 DEF PipelineInv, WorkOk
    <2> QED BY <1>1, <1>5, <1>6, <1>11, <2>1 DEF WorkOk, Settled
  <1>14. ReadOk'
    BY <1>1, <1>3, <1>4, <1>5, <1>6, <1>8 DEF PipelineInv, ReadOk, Settled
  <1> QED BY <1>2, <1>12, <1>13, <1>14, ComputesKeeps

(* Checking the set makes the work good: the two records cite one source. *)
LEMMA QualifyKeeps == ASSUME PipelineInv, Qualify PROVE PipelineInv'
  <1>1. PICK name, y : name = cmd.name /\ y = Stage'
    OBVIOUS
  <1>2. /\ At("qualify") /\ GoOn(<<>>) /\ UNCHANGED <<steady, published, kept, retired>>
    BY DEF Qualify, Computes
  <1>3. /\ Stage = "qualify" /\ Onward(name, "qualify", y) /\ name \in CommandNames
        /\ cmd'.name = name
    BY <1>1, <1>2, StageDone DEF PipelineInv
  <1>4. UNCHANGED <<files, demands, calm>>
    BY <1>2 DEF steady
  <1>5. (y = "publish" /\ name = "classify2") \/ y = "plan"
    BY <1>3, OnwardIs
  <1>6. work' = work
    BY DEF Qualify
  <1>7. work.cited["effect-typescript"] = work.cited["gleam-beam"]
    BY OneSource DEF Qualify
  <1>8. Good(work)
    BY <1>3, <1>7 DEF Good, PipelineInv, WorkOk, Targets
  <1>9. calm => Clean(work, files)
    BY <1>3 DEF Clean, PipelineInv, ReadOk, Targets
  <1>10. IsWork(work')
    BY <1>6 DEF PipelineInv, Typed
  <1>11. WorkOk'
    BY <1>1, <1>3, <1>5, <1>6, <1>8 DEF WorkOk, Settled
  <1>12. ReadOk'
    BY <1>1, <1>3, <1>4, <1>5, <1>6, <1>9 DEF ReadOk, Settled
  <1> QED BY <1>2, <1>10, <1>11, <1>12, ComputesKeeps

(* The plan is made of the records. *)
LEMMA PlanKeeps == ASSUME PipelineInv, Plan PROVE PipelineInv'
  <1>1. PICK name, y : name = cmd.name /\ y = Stage'
    OBVIOUS
  <1>2. /\ At("plan") /\ GoOn(<<>>) /\ UNCHANGED <<steady, published, kept, retired>>
    BY DEF Plan, Computes
  <1>3. /\ Stage = "plan" /\ Onward(name, "plan", y) /\ name \in CommandNames
        /\ cmd'.name = name
    BY <1>1, <1>2, StageDone DEF PipelineInv
  <1>4. UNCHANGED <<files, demands, calm>>
    BY <1>2 DEF steady
  <1>5. (y = "publish" /\ name = "plan") \/ y \in {"toolchain", "survive"}
    BY <1>3, OnwardIs
  <1>6. work' = work
    BY DEF Plan
  <1>7. Good(work)
    BY <1>3 DEF PipelineInv, WorkOk
  <1>8. calm => Clean(work, files)
    BY <1>3 DEF PipelineInv, ReadOk
  <1>9. IsWork(work')
    BY <1>6 DEF PipelineInv, Typed
  <1>10. WorkOk'
    BY <1>1, <1>3, <1>5, <1>6, <1>7 DEF WorkOk, Settled
  <1>11. ReadOk'
    BY <1>1, <1>3, <1>4, <1>5, <1>6, <1>8 DEF ReadOk, Settled
  <1> QED BY <1>2, <1>9, <1>10, <1>11, ComputesKeeps

(* An assembly goes on only with a selected plan, and reads the toolchain. *)
LEMMA ReadToolchainKeeps == ASSUME PipelineInv, ReadToolchain PROVE PipelineInv'
  <1>1. PICK name, y : name = cmd.name /\ y = Stage'
    OBVIOUS
  <1>2. /\ At("toolchain") /\ GoOn(<<>>) /\ UNCHANGED <<steady, published, kept, retired>>
    BY DEF ReadToolchain, Computes
  <1>3. /\ Stage = "toolchain" /\ Onward(name, "toolchain", y) /\ name \in CommandNames
        /\ cmd'.name = name
    BY <1>1, <1>2, StageDone DEF PipelineInv
  <1>4. UNCHANGED <<files, demands, calm>>
    BY <1>2 DEF steady
  <1>5. y = "build"
    BY <1>3, OnwardThen
  <1>6. /\ IsWork(work') /\ work'.nix = files.nix /\ work'.pkg = work.pkg /\ work'.core = work.core
        /\ \A t \in Targets : work'.observed[t] = work.observed[t] /\ work'.cited[t] = work.cited[t]
    <2>1. PICK w, v, x : w = work /\ v = work' /\ x = files.nix /\ v = [w EXCEPT !.nix = x]
      BY DEF ReadToolchain
    <2>2. IsWork(w)
      BY <2>1 DEF PipelineInv, Typed
    <2>3. IsWork(v) /\ v.nix = x
      BY <2>1, <2>2 DEF IsWork
    <2> QED BY <2>1, <2>2, <2>3 DEF IsWork
  <1>7. Good(work) /\ Good(work')
    <2>1. Good(work)
      BY <1>3 DEF PipelineInv, WorkOk
    <2>2. "effect-typescript" \in Targets /\ "gleam-beam" \in Targets
      BY DEF Targets
    <2> QED BY <1>6, <2>1, <2>2 DEF Good
  <1>8. calm => Clean(work, files) /\ Clean(work', files)
    BY <1>3, <1>6 DEF PipelineInv, ReadOk, Clean
  <1>9. SameReadings(work', work) /\ (PlanReport(work))' = PlanReport(work)
    <2>1. PICK w, v : w = work' /\ v = work
      OBVIOUS
    <2>2. SameReadings(w, v)
      BY <1>6, <2>1 DEF SameReadings
    <2>3. PlanReport(w) = PlanReport(v) /\ (PlanReport(w))' = PlanReport(w)
      BY <1>4, <2>2, SameRecords, DemandsStay
    <2>4. (PlanReport(work))' = (PlanReport(w))'
      BY <2>1
    <2> QED BY <2>1, <2>2, <2>3, <2>4
  <1>10. PlanReport(work).tag = "Selected"
    BY DEF ReadToolchain
  <1>11. IsWork(work')
    BY <1>6
  <1>12. WorkOk'
    BY <1>1, <1>5, <1>7, <1>9, <1>10 DEF WorkOk, Settled
  <1>13. ReadOk'
    BY <1>1, <1>4, <1>5, <1>6, <1>8 DEF ReadOk, Settled
  <1> QED BY <1>2, <1>11, <1>12, <1>13, ComputesKeeps

(* The build reads the toolchain again. *)
LEMMA BuildKeeps == ASSUME PipelineInv, Build PROVE PipelineInv'
  <1>1. PICK name, y : name = cmd.name /\ y = Stage'
    OBVIOUS
  <1>2. /\ At("build") /\ GoOn(<<>>) /\ UNCHANGED <<steady, published, kept, retired>>
    BY DEF Build, Computes
  <1>3. /\ Stage = "build" /\ Onward(name, "build", y) /\ name \in CommandNames
        /\ cmd'.name = name
    BY <1>1, <1>2, StageDone DEF PipelineInv
  <1>4. UNCHANGED <<files, demands, calm>>
    BY <1>2 DEF steady
  <1>5. y = "execute"
    BY <1>3, OnwardThen
  <1>6. /\ IsWork(work') /\ work'.built = files.nix /\ work'.pkg = work.pkg /\ work'.core = work.core
        /\ work'.nix = work.nix
        /\ \A t \in Targets : work'.observed[t] = work.observed[t] /\ work'.cited[t] = work.cited[t]
    <2>1. PICK w, v, x : w = work /\ v = work' /\ x = files.nix /\ v = [w EXCEPT !.built = x]
      BY DEF Build
    <2>2. IsWork(w)
      BY <2>1 DEF PipelineInv, Typed
    <2>3. IsWork(v) /\ v.built = x
      BY <2>1, <2>2 DEF IsWork
    <2> QED BY <2>1, <2>2, <2>3 DEF IsWork
  <1>7. Good(work) /\ Good(work')
    <2>1. Good(work)
      BY <1>3 DEF PipelineInv, WorkOk
    <2>2. "effect-typescript" \in Targets /\ "gleam-beam" \in Targets
      BY DEF Targets
    <2> QED BY <1>6, <2>1, <2>2 DEF Good
  <1>8. calm => Clean(work, files) /\ Clean(work', files)
    BY <1>3, <1>6 DEF PipelineInv, ReadOk, Clean
  <1>9. SameReadings(work', work) /\ (PlanReport(work))' = PlanReport(work)
    <2>1. PICK w, v : w = work' /\ v = work
      OBVIOUS
    <2>2. SameReadings(w, v)
      BY <1>6, <2>1 DEF SameReadings
    <2>3. PlanReport(w) = PlanReport(v) /\ (PlanReport(w))' = PlanReport(w)
      BY <1>4, <2>2, SameRecords, DemandsStay
    <2>4. (PlanReport(work))' = (PlanReport(w))'
      BY <2>1
    <2> QED BY <2>1, <2>2, <2>3, <2>4
  <1>10. PlanReport(work).tag = "Selected" /\ (calm => work.nix = files.nix)
    BY <1>3 DEF PipelineInv, WorkOk, ReadOk, Settled
  <1>11. IsWork(work')
    BY <1>6
  <1>12. WorkOk'
    BY <1>1, <1>5, <1>7, <1>9, <1>10 DEF WorkOk, Settled
  <1>13. ReadOk'
    BY <1>1, <1>4, <1>5, <1>6, <1>8, <1>10 DEF ReadOk, Settled
  <1> QED BY <1>2, <1>11, <1>12, <1>13, ComputesKeeps

(* The assembled artifact is executed. *)
LEMMA ExecuteKeeps == ASSUME PipelineInv, Execute PROVE PipelineInv'
  <1>1. PICK name, y : name = cmd.name /\ y = Stage'
    OBVIOUS
  <1>2. /\ At("execute") /\ GoOn(<<>>) /\ UNCHANGED <<steady, published, kept, retired>>
    BY DEF Execute, Computes
  <1>3. /\ Stage = "execute" /\ Onward(name, "execute", y) /\ name \in CommandNames
        /\ cmd'.name = name
    BY <1>1, <1>2, StageDone DEF PipelineInv
  <1>4. UNCHANGED <<files, demands, calm>>
    BY <1>2 DEF steady
  <1>5. y = "publish"
    BY <1>3, OnwardThen
  <1>6. work' = work
    BY DEF Execute
  <1>7. Good(work) /\ PlanReport(work).tag = "Selected" /\ (PlanReport(work))' = PlanReport(work)
    BY <1>3, <1>4, <1>6, DemandsStay DEF PipelineInv, WorkOk, Settled
  <1>8. calm => Clean(work, files) /\ work.nix = files.nix /\ work.built = files.nix
    BY <1>3 DEF PipelineInv, ReadOk, Settled
  <1>9. IsWork(work')
    BY <1>6 DEF PipelineInv, Typed
  <1>10. WorkOk'
    BY <1>1, <1>5, <1>6, <1>7 DEF WorkOk, Settled
  <1>11. ReadOk'
    BY <1>1, <1>4, <1>5, <1>6, <1>8 DEF ReadOk, Settled
  <1> QED BY <1>2, <1>9, <1>10, <1>11, ComputesKeeps

(* The second publication is compared with what the first pipeline staged. *)
LEMMA CheckParityKeeps == ASSUME PipelineInv, CheckParity PROVE PipelineInv'
  <1>1. PICK name, y : name = cmd.name /\ y = Stage'
    OBVIOUS
  <1>2. /\ At("parity") /\ GoOn(<<>>) /\ UNCHANGED <<steady, published, kept, retired>>
    BY DEF CheckParity, Computes
  <1>3. /\ Stage = "parity" /\ Onward(name, "parity", y) /\ name \in CommandNames
        /\ cmd'.name = name
    BY <1>1, <1>2, StageDone DEF PipelineInv
  <1>4. UNCHANGED <<files, demands, calm>>
    BY <1>2 DEF steady
  <1>5. y = "republish"
    BY <1>3, OnwardThen
  <1>6. work' = work
    BY DEF CheckParity
  <1>7. Good(work) /\ (calm => Clean(work, files))
    BY <1>3 DEF PipelineInv, WorkOk, ReadOk
  <1>8. IsWork(work')
    BY <1>6 DEF PipelineInv, Typed
  <1>9. WorkOk'
    BY <1>1, <1>5, <1>6, <1>7 DEF WorkOk, Settled
  <1>10. ReadOk'
    BY <1>1, <1>4, <1>5, <1>6, <1>7 DEF ReadOk, Settled
  <1> QED BY <1>2, <1>6, <1>8, <1>9, <1>10, ComputesKeeps

(* The audit reads the published records. *)
LEMMA InventoryKeeps == ASSUME PipelineInv, Inventory PROVE PipelineInv'
  <1>1. PICK name, y : name = cmd.name /\ y = Stage'
    OBVIOUS
  <1>2. /\ At("inventory") /\ GoOn(<<>>) /\ UNCHANGED <<steady, published, kept, retired>>
    BY DEF Inventory, Computes
  <1>3. /\ Stage = "inventory" /\ Onward(name, "inventory", y) /\ name \in CommandNames
        /\ cmd'.name = name
    BY <1>1, <1>2, StageDone DEF PipelineInv
  <1>4. y \in {"digestCore"}
    BY <1>3, OnwardThen
  <1>5. work' = work
    BY DEF Inventory
  <1>6. IsWork(work')
    BY <1>5 DEF PipelineInv, Typed
  <1>7. WorkOk'
    BY <1>1, <1>4 DEF WorkOk, Settled
  <1>8. ReadOk'
    BY <1>1, <1>4 DEF ReadOk, Settled
  <1> QED BY <1>2, <1>6, <1>7, <1>8, ComputesKeeps

(* It digests the source, *)
LEMMA DigestCoreKeeps == ASSUME PipelineInv, DigestMaterial("digestCore", "core") PROVE PipelineInv'
  <1>1. PICK name, y : name = cmd.name /\ y = Stage'
    OBVIOUS
  <1>2. /\ At("digestCore") /\ GoOn(<<>>) /\ UNCHANGED <<steady, published, kept, retired>>
    BY DEF DigestMaterial, Computes
  <1>3. /\ Stage = "digestCore" /\ Onward(name, "digestCore", y) /\ name \in CommandNames
        /\ cmd'.name = name
    BY <1>1, <1>2, StageDone DEF PipelineInv
  <1>4. y \in {"digestNix"}
    BY <1>3, OnwardThen
  <1>5. work' = work
    BY DEF DigestMaterial
  <1>6. IsWork(work')
    BY <1>5 DEF PipelineInv, Typed
  <1>7. WorkOk'
    BY <1>1, <1>4 DEF WorkOk, Settled
  <1>8. ReadOk'
    BY <1>1, <1>4 DEF ReadOk, Settled
  <1> QED BY <1>2, <1>6, <1>7, <1>8, ComputesKeeps

(* and the toolchain. *)
LEMMA DigestNixKeeps == ASSUME PipelineInv, DigestMaterial("digestNix", "nix") PROVE PipelineInv'
  <1>1. PICK name, y : name = cmd.name /\ y = Stage'
    OBVIOUS
  <1>2. /\ At("digestNix") /\ GoOn(<<>>) /\ UNCHANGED <<steady, published, kept, retired>>
    BY DEF DigestMaterial, Computes
  <1>3. /\ Stage = "digestNix" /\ Onward(name, "digestNix", y) /\ name \in CommandNames
        /\ cmd'.name = name
    BY <1>1, <1>2, StageDone DEF PipelineInv
  <1>4. y \in {"summarize", "compare"}
    BY <1>3, OnwardThen
  <1>5. work' = work
    BY DEF DigestMaterial
  <1>6. IsWork(work')
    BY <1>5 DEF PipelineInv, Typed
  <1>7. WorkOk'
    BY <1>1, <1>4 DEF WorkOk, Settled
  <1>8. ReadOk'
    BY <1>1, <1>4 DEF ReadOk, Settled
  <1> QED BY <1>2, <1>6, <1>7, <1>8, ComputesKeeps

-----------------------------------------------------------------------------
(* A path that no record is about is written. *)
LEMMA PathWritten ==
  ASSUME PipelineInv, NEW p \in {"lock", "artifact", "assemblyEntry"}, NEW x,
         published' = [published EXCEPT ![p] = x], demands' = demands
  PROVE  /\ published' = [q \in Paths |-> published'[q]]
         /\ published'[p] = x /\ \A q \in Paths \ {p} : published'[q] = published[q]
         /\ QualificationOk' /\ AssemblyOk'
  <1>1. PICK f, g : f = published /\ g = published' /\ g = [f EXCEPT ![p] = x]
                    /\ f = [q \in Paths |-> f[q]]
    BY DEF PipelineInv, Typed
  <1>2. p \in Paths /\ p \notin Recorded /\ Recorded \subseteq Paths
        /\ p \notin {"qualification", "assembly", "assemblyBoundary"}
    BY DEF Paths, Recorded
  <1>3. /\ g = [q \in Paths |-> g[q]]
        /\ g[p] = x /\ \A q \in Paths \ {p} : g[q] = f[q]
    BY <1>1, <1>2
  <1>4. \A q \in Recorded \cup {"assembly", "assemblyBoundary", "qualification"} : g[q] = f[q]
    BY <1>2, <1>3 DEF Paths
  <1>5. QualificationOk'
    <2>1. CASE f["qualification"] = Absent
      BY <1>1, <1>4, <2>1 DEF QualificationOk
    <2>2. CASE \E w : Good(w) /\ \A q \in Recorded : f[q] = QualificationEntries(w)[q]
      BY <1>1, <1>4, <2>2, DemandsStay DEF QualificationOk
    <2> QED BY <1>1, <2>1, <2>2 DEF PipelineInv, QualificationOk
  <1>6. AssemblyOk'
    <2>1. CASE f["assembly"] = Absent
      BY <1>1, <1>4, <2>1 DEF AssemblyOk
    <2>2. CASE \E w : /\ Good(w) /\ PlanReport(w).tag = "Selected"
                      /\ f["assemblyBoundary"] = Boundary("gleam-beam", w.core)
                      /\ f["assembly"] = AssemblyOf(w)
      BY <1>1, <1>4, <2>2, DemandsStay DEF AssemblyOk
    <2> QED BY <1>1, <2>1, <2>2 DEF PipelineInv, AssemblyOk
  <1> QED BY <1>1, <1>3, <1>5, <1>6

(* The lock is written, which no record is about. *)
LEMMA WriteLockKeeps == ASSUME PipelineInv, WriteLock PROVE PipelineInv'
  <1>1. PICK name, y : name = cmd.name /\ y = Stage'
    OBVIOUS
  <1>2. /\ At("writeLock") /\ GoOn(<<>>) /\ UNCHANGED <<files, demands, before, calm, work, kept, retired>>
        /\ UNCHANGED steady /\ published' = [published EXCEPT !["lock"] = work.pkg]
    BY DEF WriteLock, steady
  <1>3. /\ Stage = "writeLock" /\ Onward(name, "writeLock", y) /\ name \in CommandNames
        /\ cmd'.name = name /\ cmd' \in Cmds /\ Scripted' /\ (y = "done" <=> cmd'.todo = <<>>)
    BY <1>1, <1>2, StageDone DEF PipelineInv
  <1>4. y = "writeArtifact" /\ name \in {"explain", "classify1"}
    BY <1>3, OnwardIs
  <1>5. PICK p \in {"lock", "artifact", "assemblyEntry"} : p = "lock"
    OBVIOUS
  <1>6. /\ published' = [q \in Paths |-> published'[q]] /\ published'["lock"] = work.pkg
        /\ QualificationOk' /\ AssemblyOk'
    BY <1>2, <1>5, PathWritten
  <1>7. Typed'
    BY <1>2, <1>3, <1>6 DEF PipelineInv, Typed
  <1>8. KeptOk'
    BY <1>2, KeptStays
  <1>9. WorkOk'
    BY <1>1, <1>4 DEF WorkOk, Settled
  <1>10. ReadOk' /\ (calm => work.pkg = DigestOf[files.pkg])
    BY <1>1, <1>2, <1>3, <1>4 DEF PipelineInv, ReadOk, Settled
  <1>11. PublishedOk'
    BY <1>1, <1>2, <1>3, <1>4, <1>6, <1>10 DEF PublishedOk, Unpublished, CalmRunsAreClean, Idle
  <1> QED BY <1>3, <1>6, <1>7, <1>8, <1>9, <1>10, <1>11 DEF PipelineInv

(* The artifact is written: explain ends, classify1 goes on. *)
LEMMA WriteArtifactKeeps == ASSUME PipelineInv, WriteArtifact PROVE PipelineInv'
  <1>1. PICK name, y : name = cmd.name /\ y = Stage'
    OBVIOUS
  <1>2. /\ At("writeArtifact") /\ GoOn(<<>>) /\ UNCHANGED <<files, demands, before, calm, work, kept, retired>>
        /\ UNCHANGED steady /\ published' = [published EXCEPT !["artifact"] = MeaningOf[work.core]]
    BY DEF WriteArtifact, steady
  <1>3. /\ Stage = "writeArtifact" /\ Onward(name, "writeArtifact", y) /\ name \in CommandNames
        /\ cmd'.name = name /\ cmd' \in Cmds /\ Scripted' /\ (y = "done" <=> cmd'.todo = <<>>)
    BY <1>1, <1>2, StageDone DEF PipelineInv
  <1>4. y \in {"manifest", "done"} /\ name \in {"explain", "classify1"}
    BY <1>3, OnwardIs
  <1>5. PICK p \in {"lock", "artifact", "assemblyEntry"} : p = "artifact"
    OBVIOUS
  <1>6. /\ published' = [q \in Paths |-> published'[q]]
        /\ published'["artifact"] = MeaningOf[work.core] /\ published'["lock"] = published["lock"]
        /\ QualificationOk' /\ AssemblyOk'
    <2>1. "lock" \in Paths \ {p}
      BY <1>5 DEF Paths
    <2> QED BY <1>2, <1>5, <2>1, PathWritten
  <1>7. Typed'
    BY <1>2, <1>3, <1>6 DEF PipelineInv, Typed
  <1>8. KeptOk'
    BY <1>2, KeptStays
  <1>9. WorkOk'
    BY <1>1, <1>4 DEF WorkOk, Settled
  <1>10. ReadOk'
    BY <1>1, <1>4 DEF ReadOk, Settled
  <1>11. calm => work.core = files.core /\ published["lock"] = DigestOf[files.pkg]
    BY <1>3 DEF PipelineInv, ReadOk, PublishedOk
  <1>12. PublishedOk'
    BY <1>1, <1>2, <1>3, <1>4, <1>6, <1>11 DEF PublishedOk, Unpublished, CalmRunsAreClean, Idle
  <1> QED BY <1>3, <1>6, <1>7, <1>8, <1>9, <1>10, <1>12 DEF PipelineInv

(* Entries of a clean work, once published, are those of the clean run. *)
LEMMA CleanlyPublished ==
  ASSUME Typed, NEW w, Clean(w, files), \A t \in Targets : w.observed[t] = work.observed[t],
         NEW name \in {"classify2", "plan", "assemble", "invalidate"},
         name \in {"assemble", "invalidate"} => w.nix = files.nix /\ w.built = files.nix,
         NEW now, now = Over(published, EntriesOf(name, w)),
         NEW v, v = CleanWork(files)
  PROVE  /\ DOMAIN EntriesOf(name, v) = DOMAIN EntriesOf(name, w)
         /\ \A p \in DOMAIN EntriesOf(name, v) : now[p] = EntriesOf(name, v)[p]
  <1>1. PICK d, e : d = EntriesOf(name, w) /\ e = EntriesOf(name, v)
    OBVIOUS
  <1>2. DOMAIN d = DOMAIN e /\ DOMAIN d \subseteq Paths
    BY <1>1, EntriesAre, PathsAre
  <1>3. \A p \in DOMAIN d : d[p] = e[p]
    BY <1>1, CleanEntries
  <1>4. \A p \in DOMAIN d : now[p] = d[p]
    BY <1>1, <1>2, OverPublished
  <1> QED BY <1>1, <1>2, <1>3, <1>4

(* Published entries of good work are the evidence of a qualified run. *)
LEMMA GoodPublished ==
  ASSUME PipelineInv, demands' = demands, NEW w, Good(w),
         NEW name \in {"classify2", "plan", "assemble", "invalidate"},
         name \in {"assemble", "invalidate"} => PlanReport(w).tag = "Selected",
         NEW e, e = EntriesOf(name, w), published' = Over(published, e)
  PROVE  /\ published' = [p \in Paths |-> published'[p]]
         /\ QualificationOk' /\ AssemblyOk'
  <1>1. PICK now : now = published'
    OBVIOUS
  <1>2. DOMAIN e \subseteq Paths
    BY EntriesAre, PathsAre
  <1>3. /\ now = [p \in Paths |-> now[p]]
        /\ \A p \in DOMAIN e : now[p] = e[p]
        /\ \A p \in Paths \ DOMAIN e : now[p] = published[p]
    BY <1>1, <1>2, OverPublished DEF PipelineInv
  <1>4. \A p \in Recorded : now[p] = QualificationEntries(w)[p]
    <2>1. Recorded \subseteq QualificationPaths
      BY DEF Recorded, QualificationPaths
    <2> QED BY <1>3, <2>1, EntriesAre
  <1>5. QualificationOk'
    BY <1>1, <1>4, DemandsStay DEF QualificationOk
  <1>6. AssemblyOk'
    <2>1. "assembly" \in AssemblyPaths /\ "assemblyBoundary" \in AssemblyPaths
      BY DEF AssemblyPaths
    <2>2. CASE name \in {"assemble", "invalidate"}
      <3>1. now["assembly"] = AssemblyOf(w)
            /\ now["assemblyBoundary"] = Boundary("gleam-beam", w.core)
        <4>1. /\ AssemblyPaths \subseteq DOMAIN e
              /\ \A p \in AssemblyPaths : e[p] = AssemblyEntries(w)[p]
          BY <2>2, EntriesAre
        <4>2. now["assembly"] = AssemblyEntries(w)["assembly"]
              /\ now["assemblyBoundary"] = AssemblyEntries(w)["assemblyBoundary"]
          BY <1>3, <2>1, <4>1
        <4> QED BY <4>2, AssemblyEntriesAre
      <3> QED BY <1>1, <2>2, <3>1, DemandsStay DEF AssemblyOk
    <2>3. CASE name \notin {"assemble", "invalidate"}
      <3>1. AssemblyPaths \cap DOMAIN e = {} /\ AssemblyPaths \subseteq Paths
        BY <2>3, EntriesAre, PathsAre
      <3>2. now["assembly"] = published["assembly"]
            /\ now["assemblyBoundary"] = published["assemblyBoundary"]
        BY <1>3, <2>1, <3>1
      <3>3. CASE published["assembly"] = Absent
        BY <1>1, <3>2, <3>3 DEF AssemblyOk
      <3>4. CASE \E v : /\ Good(v) /\ PlanReport(v).tag = "Selected"
                        /\ published["assemblyBoundary"] = Boundary("gleam-beam", v.core)
                        /\ published["assembly"] = AssemblyOf(v)
        BY <1>1, <3>2, <3>4, DemandsStay DEF AssemblyOk
      <3> QED BY <3>3, <3>4 DEF PipelineInv, AssemblyOk
    <2> QED BY <2>2, <2>3
  <1> QED BY <1>1, <1>3, <1>5, <1>6

(* The entries of good work are published, clean if nobody has edited. *)
LEMMA PublishKeeps == ASSUME PipelineInv, Publish PROVE PipelineInv'
  <1>1. PICK name, y : name = cmd.name /\ y = Stage'
    OBVIOUS
  <1>2. /\ At("publish") /\ GoOn(<<>>) /\ UNCHANGED <<files, demands, before, calm, work, kept, retired>>
        /\ UNCHANGED steady /\ published' = Over(published, EntriesOf(name, work))
    BY <1>1 DEF Publish, steady
  <1>3. /\ Stage = "publish" /\ Onward(name, "publish", y) /\ name \in CommandNames
        /\ cmd'.name = name /\ cmd' \in Cmds /\ Scripted' /\ (y = "done" <=> cmd'.todo = <<>>)
        /\ cmd'.outcome = IF cmd'.todo = <<>> THEN "ok" ELSE "running"
    BY <1>1, <1>2, StageDone DEF PipelineInv
  <1>4. \/ y = "parity" /\ name = "invalidate"
        \/ y = "done" /\ name \in {"classify2", "plan", "assemble"}
    BY <1>3, OnwardThen
  <1>5. Good(work) /\ (name \in {"assemble", "invalidate"} => PlanReport(work).tag = "Selected")
    BY <1>1, <1>3 DEF PipelineInv, WorkOk, Settled
  <1>6. calm => /\ Clean(work, files)
                /\ name \in {"assemble", "invalidate"} =>
                     work.nix = files.nix /\ work.built = files.nix
    BY <1>1, <1>3 DEF PipelineInv, ReadOk, Settled
  <1>7. /\ published' = [p \in Paths |-> published'[p]]
        /\ QualificationOk' /\ AssemblyOk'
    BY <1>2, <1>4, <1>5, GoodPublished
  <1>8. Typed'
    BY <1>2, <1>3, <1>7 DEF PipelineInv, Typed
  <1>9. KeptOk'
    BY <1>2, KeptStays
  <1>10. WorkOk'
    BY <1>1, <1>2, <1>3, <1>4, <1>5 DEF WorkOk, Settled
  <1>11. ReadOk'
    BY <1>1, <1>2, <1>3, <1>4, <1>6 DEF ReadOk, Settled
  <1>12. PublishedOk'
    <2> SUFFICES ASSUME calm PROVE PublishedOk'
      BY <1>2 DEF PublishedOk
    <2>1. PICK v : v = CleanWork(files) /\ v = (CleanWork(files))'
      BY <1>2 DEF CleanWork
    <2>2. \A p \in DOMAIN EntriesOf(name, v) : published'[p] = EntriesOf(name, v)[p]
      BY <1>2, <1>4, <1>6, <2>1, CleanlyPublished DEF PipelineInv
    <2>3. \A p \in DOMAIN (EntriesOf(name, CleanWork(files)))' :
            published'[p] = (EntriesOf(name, CleanWork(files)))'[p]
      BY <1>2, <2>1, <2>2, DemandsStay
    <2>4. ~Unpublished'
      <3>1. CASE name = "invalidate" /\ y = "parity"
        <4>1. retired # {}
          BY <1>1, <1>3, <3>1 DEF PipelineInv, KeptOk
        <4> QED BY <1>1, <1>2, <1>3, <3>1, <4>1 DEF Unpublished
      <3>2. CASE y = "done" /\ name \in {"classify2", "plan", "assemble"}
        BY <1>1, <1>3, <3>2 DEF Unpublished
      <3> QED BY <1>4, <3>1, <3>2
    <2>5. CalmRunsAreClean'
      <3>1. CASE name = "invalidate" /\ y = "parity"
        BY <1>3, <3>1 DEF CalmRunsAreClean, Idle
      <3>2. CASE y = "done" /\ name \in {"classify2", "plan", "assemble"}
        BY <1>3, <2>3, <3>2 DEF CalmRunsAreClean
      <3> QED BY <1>4, <3>1, <3>2
    <2> QED BY <1>1, <1>4, <2>3, <2>4, <2>5 DEF PublishedOk
  <1> QED BY <1>3, <1>7, <1>8, <1>9, <1>10, <1>11, <1>12 DEF PipelineInv

(* The audit ends and has written nothing. *)
LEMMA SummarizeKeeps == ASSUME PipelineInv, Summarize PROVE PipelineInv'
  <1>1. PICK name, y : name = cmd.name /\ y = Stage'
    OBVIOUS
  <1>2. /\ At("summarize") /\ GoOn(<<>>) /\ UNCHANGED <<steady, published, work, kept>>
        /\ UNCHANGED <<files, demands, before, calm>>
    BY DEF Summarize, steady
  <1>3. /\ Stage = "summarize" /\ Onward(name, "summarize", y) /\ name \in CommandNames
        /\ cmd'.name = name /\ cmd' \in Cmds /\ Scripted' /\ (y = "done" <=> cmd'.todo = <<>>)
    BY <1>1, <1>2, StageDone DEF PipelineInv
  <1>4. y = "done" /\ name = "audit"
    BY <1>3, OnwardThen
  <1>5. QualificationOk' /\ AssemblyOk'
    BY <1>2, WorldStays
  <1>6. Typed'
    BY <1>2, <1>3 DEF PipelineInv, Typed
  <1>7. KeptOk'
    BY <1>1, <1>2, <1>4, KeptStays
  <1>8. WorkOk' /\ ReadOk'
    BY <1>1, <1>4 DEF WorkOk, ReadOk, Settled
  <1>9. calm => published = before
    BY <1>1, <1>4 DEF PipelineInv, PublishedOk, Unpublished
  <1>10. PublishedOk'
    BY <1>1, <1>2, <1>3, <1>4, <1>9 DEF PublishedOk, CalmRunsAreClean
  <1> QED BY <1>3, <1>5, <1>6, <1>7, <1>8, <1>10 DEF PipelineInv

(* The comparison ends the journey, or the two pipelines follow, *)
LEMMA Compared ==
  ASSUME Typed, Scripted, At("compare"), NEW more, GoOn(more),
         more = <<>> \/ more = Requalifying
  PROVE  /\ cmd.name = "invalidate" /\ Stage = "compare"
         /\ Script("invalidate", more)
         /\ more # <<>> => \E i \in 1..Len(more) : more[i] = "survive"
         /\ cmd' \in Cmds /\ cmd'.name = "invalidate" /\ cmd'.todo = more
         /\ cmd'.outcome = IF more = <<>> THEN "ok" ELSE "running"
         /\ (Stage' = "done" <=> more = <<>>) /\ Stage' \in {"done", "package"}
  <1>1. PICK s \in Seq(Stages), name \in CommandNames :
          s = cmd.todo /\ name = cmd.name /\ s # <<>> /\ Head(s) = "compare" /\ Script(name, s)
    BY DEF Typed, Cmds, Scripted, At
  <1>2. /\ Tail(s) \in Seq(Stages)
        /\ Tail(s) # <<>> => Onward(name, "compare", Head(Tail(s))) /\ Head(Tail(s)) \in Stages
        /\ Tail(s) = <<>> => Onward(name, "compare", "done")
    <2>1. Tail(s) # <<>> => Head(Tail(s)) \in Stages
      BY <1>1
    <2>2. /\ Tail(s) # <<>> => <<Head(s), Head(Tail(s))>> \in Links(name)
          /\ Tail(s) = <<>> => Head(s) \in Ends(name)
      BY <1>1, ScriptRest
    <2>3. Tail(s) \in Seq(Stages)
      BY <1>1
    <2>4. Tail(s) = <<>> => Onward(name, "compare", "done")
      BY <1>1, <2>2 DEF Onward
    <2>5. Tail(s) # <<>> => Onward(name, "compare", Head(Tail(s)))
      BY <1>1, <2>2 DEF Onward
    <2> QED BY <2>1, <2>3, <2>4, <2>5
  <1>3. Tail(s) = <<>> /\ name = "invalidate"
    <2>1. "done" \notin Stages
      BY DEF Stages
    <2>2. Tail(s) = <<>>
      BY <1>2, <2>1, OnwardThen
    <2> QED BY <1>2, <2>2, OnwardThen
  <1>4. more \in Seq(Stages) /\ Script(name, more)
        /\ (more # <<>> => /\ Head(more) = "package"
                           /\ \E i \in 1..Len(more) : more[i] = "survive")
    <2>1. CASE more = Requalifying
      BY <1>3, <2>1, RequalifyingIsAScript DEF Script
    <2>2. CASE more = <<>>
      <3>1. more \in Seq(Stages) /\ Len(more) = 0 /\ 1..(0 - 1) = {}
        BY <2>2
      <3> QED BY <2>2, <3>1 DEF Script
    <2> QED BY <2>1, <2>2
  <1>5. Tail(s) \o more = more
    <2>1. PICK t \in Seq(Stages), u \in Seq(Stages) : t = Tail(s) /\ u = more
      BY <1>2, <1>4
    <2>2. Len(t) = 0
      BY <1>3, <2>1
    <2>3. t \o u = u
      BY <2>2
    <2> QED BY <2>1, <2>3
  <1>6. cmd' = [cmd EXCEPT !.todo = more, !.outcome = IF more = <<>> THEN "ok" ELSE @]
    BY <1>1, <1>5 DEF GoOn
  <1>7. cmd.outcome = "running" /\ cmd \in Cmds
    BY <1>1 DEF Typed, Scripted
  <1>8. /\ cmd' \in Cmds /\ cmd'.name = name /\ cmd'.todo = more
        /\ cmd'.outcome = IF more = <<>> THEN "ok" ELSE "running"
    BY <1>1, <1>4, <1>6, <1>7 DEF Cmds
  <1>9. Stage = "compare" /\ (Stage' = "done" <=> more = <<>>) /\ Stage' \in {"done", "package"}
    BY <1>1, <1>4, <1>8 DEF Stage
  <1> QED BY <1>1, <1>3, <1>4, <1>8, <1>9

(* and everything stays good. *)
LEMMA CompareKeeps == ASSUME PipelineInv, Compare PROVE PipelineInv'
  <1>1. PICK more : more = IF retired' = {} THEN <<>> ELSE Requalifying
    OBVIOUS
  <1>2. /\ At("compare") /\ GoOn(more) /\ UNCHANGED <<files, demands, before, calm>>
        /\ UNCHANGED <<published, work, kept>>
    BY <1>1 DEF Compare, steady
  <1>3. PICK name : name = cmd.name /\ name = "invalidate" /\ name \in CommandNames
    BY <1>1, <1>2, Compared DEF PipelineInv, CommandNames
  <1>4. /\ Script(name, more) /\ (more = <<>> => retired' = {})
        /\ (more # <<>> => retired' # {} /\ \E i \in 1..Len(more) : more[i] = "survive")
    <2>1. Requalifying # <<>>
      BY RequalifyingIsAScript
    <2>2. /\ Script(name, more)
          /\ more # <<>> => \E i \in 1..Len(more) : more[i] = "survive"
      BY <1>1, <1>2, <1>3, Compared DEF PipelineInv
    <2> QED BY <1>1, <2>1, <2>2
  <1>5. /\ cmd' \in Cmds /\ cmd'.name = name /\ cmd'.todo = more
         /\ cmd'.outcome = IF more = <<>> THEN "ok" ELSE "running"
    BY <1>1, <1>2, <1>3, Compared DEF PipelineInv
  <1>6. Scripted'
    BY <1>3, <1>4, <1>5 DEF Scripted
  <1>7. Typed'
    BY <1>2, <1>5 DEF PipelineInv, Typed
  <1>8. Stage = "compare"
    BY <1>1, <1>2, Compared DEF PipelineInv
  <1>9. PICK y : /\ y = Stage' /\ (y = "done" <=> more = <<>>) /\ y \in {"done", "package"}
    BY <1>1, <1>2, Compared DEF PipelineInv
  <1>10. QualificationOk' /\ AssemblyOk'
    BY <1>2, WorldStays
  <1>11. KeptOk'
    <2>1. kept' # <<>> => \E w : /\ Good(w) /\ kept'[1] = (EntriesOf("plan", w))'
                                 /\ calm' => Clean(w, files')
      BY <1>2, DemandsStay DEF PipelineInv, KeptOk
    <2> QED BY <1>4, <1>5, <1>9, <2>1 DEF KeptOk
  <1>12. WorkOk' /\ ReadOk'
    BY <1>9 DEF WorkOk, ReadOk, Settled
  <1>13. calm => published = before
    BY <1>3, <1>8 DEF PipelineInv, PublishedOk, Unpublished
  <1>14. CalmRunsAreClean' \/ ~calm
    <2>1. CASE more = <<>>
      BY <1>2, <1>3, <1>4, <1>5, <1>13, <2>1 DEF CalmRunsAreClean
    <2>2. CASE more # <<>>
      BY <1>5, <2>2 DEF CalmRunsAreClean, Idle
    <2> QED BY <2>1, <2>2
  <1>15. PublishedOk'
    BY <1>2, <1>9, <1>13, <1>14 DEF PublishedOk
  <1> QED BY <1>6, <1>7, <1>10, <1>11, <1>12, <1>15 DEF PipelineInv

(* The first pipeline of an invalidation stages its entries. *)
LEMMA SurviveKeeps == ASSUME PipelineInv, Survive PROVE PipelineInv'
  <1>1. PICK name, y : name = cmd.name /\ y = Stage'
    OBVIOUS
  <1>2. /\ At("survive") /\ GoOn(<<>>) /\ UNCHANGED <<files, demands, before, calm>>
        /\ UNCHANGED <<published, work, retired>> /\ kept' = <<EntriesOf("plan", work)>>
    BY DEF Survive, steady
  <1>3. /\ Stage = "survive" /\ Onward(name, "survive", y) /\ name \in CommandNames
        /\ cmd'.name = name /\ cmd' \in Cmds /\ Scripted' /\ (y = "done" <=> cmd'.todo = <<>>)
    BY <1>1, <1>2, StageDone DEF PipelineInv
  <1>4. y = "package" /\ name = "invalidate"
    BY <1>3, OnwardThen
  <1>5. QualificationOk' /\ AssemblyOk'
    BY <1>2, WorldStays
  <1>6. kept' # <<>> /\ kept'[1] = EntriesOf("plan", work) /\ kept' = <<kept'[1]>>
    BY <1>2
  <1>7. Typed'
    BY <1>2, <1>3, <1>6 DEF PipelineInv, Typed
  <1>8. retired # {} /\ Good(work) /\ (calm => Clean(work, files))
    BY <1>1, <1>3, <1>4 DEF PipelineInv, KeptOk, WorkOk, ReadOk
  <1>9. KeptOk'
    <2>1. PICK w : w = work /\ w = work'
      BY <1>2
    <2>2. Good(w) /\ kept'[1] = (EntriesOf("plan", w))' /\ (calm' => Clean(w, files'))
      BY <1>2, <1>6, <1>8, <2>1, DemandsStay
    <2> QED BY <1>2, <1>6, <1>8, <2>2 DEF KeptOk
  <1>10. WorkOk' /\ ReadOk'
    BY <1>1, <1>4 DEF WorkOk, ReadOk, Settled
  <1>11. PublishedOk'
    <2>1. ~Unpublished'
      BY <1>1, <1>2, <1>3, <1>4, <1>8 DEF Unpublished
    <2> QED BY <1>1, <1>3, <1>4, <2>1 DEF PublishedOk, CalmRunsAreClean, Idle
  <1> QED BY <1>3, <1>5, <1>7, <1>9, <1>10, <1>11 DEF PipelineInv

(* The last publication of an invalidation writes the same entries again. *)
LEMMA RepublishKeeps == ASSUME PipelineInv, Republish PROVE PipelineInv'
  <1>1. PICK name, y : name = cmd.name /\ y = Stage'
    OBVIOUS
  <1>2. /\ At("republish") /\ GoOn(<<>>) /\ UNCHANGED <<files, demands, before, calm, work, kept, retired>>
        /\ UNCHANGED steady /\ published' = Over(published, kept[1])
    BY DEF Republish, steady
  <1>3. /\ Stage = "republish" /\ Onward(name, "republish", y) /\ name \in CommandNames
        /\ cmd'.name = name /\ cmd' \in Cmds /\ Scripted' /\ (y = "done" <=> cmd'.todo = <<>>)
        /\ cmd'.outcome = IF cmd'.todo = <<>> THEN "ok" ELSE "running"
        /\ cmd'.todo = Tail(cmd.todo)
    BY <1>1, <1>2, StageDone DEF PipelineInv
  <1>4. y = "done" /\ name = "invalidate"
    BY <1>3, OnwardThen
  <1>5. retired # {} /\ kept # <<>>
    <2>1. /\ retired # {}
          /\ kept = <<>> => \E i \in 1..Len(cmd.todo) : cmd.todo[i] = "survive"
      BY <1>1, <1>3, <1>4 DEF PipelineInv, KeptOk
    <2>2. PICK s \in Seq(Stages) : s = cmd.todo /\ s # <<>> /\ Head(s) = "republish" /\ Tail(s) = <<>>
      BY <1>2, <1>3, <1>4 DEF PipelineInv, Typed, Cmds, At
    <2>3. Len(s) = 1 /\ s[1] = "republish"
      <3>1. PICK n \in Nat : n = Len(s) /\ n # 0
        BY <2>2
      <3>2. Len(Tail(s)) = n - 1
        BY <2>2, <3>1
      <3>3. Len(Tail(s)) = 0
        BY <2>2
      <3> QED BY <2>2, <3>1, <3>2, <3>3
    <2> QED BY <2>1, <2>2, <2>3
  <1>6. PICK w : Good(w) /\ kept[1] = EntriesOf("plan", w) /\ (calm => Clean(w, files))
    BY <1>5 DEF PipelineInv, KeptOk
  <1>7. PICK e : e = EntriesOf("plan", w) /\ published' = Over(published, e)
    BY <1>2, <1>6
  <1>8. /\ published' = [p \in Paths |-> published'[p]]
        /\ QualificationOk' /\ AssemblyOk'
    <2>1. PICK n \in {"classify2", "plan", "assemble", "invalidate"} : n = "plan"
      OBVIOUS
    <2>2. e = EntriesOf(n, w)
      BY <1>7, <2>1
    <2> QED BY <1>2, <1>6, <1>7, <2>1, <2>2, GoodPublished
  <1>9. Typed'
    BY <1>2, <1>3, <1>8 DEF PipelineInv, Typed
  <1>10. KeptOk'
    BY <1>2, KeptStays
  <1>11. WorkOk' /\ ReadOk'
    BY <1>1, <1>4 DEF WorkOk, ReadOk, Settled
  <1>12. PublishedOk'
    <2> SUFFICES ASSUME calm PROVE PublishedOk'
      BY <1>2 DEF PublishedOk
    <2>1. PICK v : v = CleanWork(files) /\ v = (CleanWork(files))'
      BY <1>2 DEF CleanWork
    <2>2. PICK n \in {"classify2", "plan", "assemble", "invalidate"},
               m \in {"classify2", "plan", "assemble", "invalidate"} : n = "plan" /\ m = "invalidate"
      OBVIOUS
    <2>3. PICK d, c : d = EntriesOf(n, v) /\ c = EntriesOf(m, v)
      OBVIOUS
    <2>4. \A p \in DOMAIN c : published[p] = c[p]
      BY <1>3, <2>1, <2>2, <2>3 DEF PipelineInv, PublishedOk
    <2>5. DOMAIN d \subseteq DOMAIN c /\ \A p \in DOMAIN d : d[p] = c[p]
      BY <2>2, <2>3, EntriesAre
    <2>6. \A t \in Targets : w.observed[t] = work.observed[t]
      <3>1. Good(work)
        BY <1>3 DEF PipelineInv, WorkOk
      <3> QED BY <1>6, <3>1, GoodObservations
    <2>7. DOMAIN e = DOMAIN d /\ \A p \in DOMAIN d : published'[p] = d[p]
      <3>1. e = EntriesOf(n, w)
        BY <1>7, <2>2
      <3> QED BY <1>6, <1>7, <2>1, <2>2, <2>3, <2>6, <3>1, CleanlyPublished DEF PipelineInv
    <2>8. \A p \in DOMAIN c \ DOMAIN d : published'[p] = published[p]
      <3>1. DOMAIN c \subseteq Paths
        BY <2>3, EntriesAre, PathsAre
      <3>2. DOMAIN e \subseteq Paths
        BY <2>5, <2>7, <3>1
      <3> QED BY <1>7, <2>7, <3>1, <3>2, OverPublished DEF PipelineInv
    <2>9. \A p \in DOMAIN c : published'[p] = c[p]
      BY <2>4, <2>5, <2>7, <2>8
    <2>10. \A p \in DOMAIN (EntriesOf("invalidate", CleanWork(files)))' :
             published'[p] = (EntriesOf("invalidate", CleanWork(files)))'[p]
      <3>1. (EntriesOf("invalidate", v))' = EntriesOf("invalidate", v)
        BY <1>2, DemandsStay
      <3>2. c = (EntriesOf("invalidate", CleanWork(files)))'
        BY <2>1, <2>2, <2>3, <3>1
      <3> QED BY <2>9, <3>2
    <2>11. ~Unpublished'
      BY <1>1, <1>2, <1>3, <1>4, <1>5 DEF Unpublished
    <2>12. CalmRunsAreClean'
      BY <1>1, <1>2, <1>3, <1>4, <1>5, <2>10 DEF CalmRunsAreClean
    <2> QED BY <1>1, <1>4, <2>11, <2>12 DEF PublishedOk
  <1> QED BY <1>3, <1>8, <1>9, <1>10, <1>11, <1>12 DEF PipelineInv

(* Whatever is at hand is a stage of the running command. *)
LEMMA Running ==
  ASSUME Typed, Scripted, cmd.todo # <<>>
  PROVE  /\ cmd.name \in CommandNames /\ Stage \in Stages /\ Stage # "done"
         /\ \E y : Onward(cmd.name, Stage, y)
  <1>1. PICK s \in Seq(Stages), name \in CommandNames :
          s = cmd.todo /\ name = cmd.name /\ s # <<>> /\ Script(name, s)
    BY DEF Typed, Cmds, Scripted
  <1>2. Stage = Head(s) /\ Head(s) \in Stages
    BY <1>1 DEF Stage
  <1>3. "done" \notin Stages
    BY DEF Stages
  <1>4. /\ Tail(s) # <<>> => <<Head(s), Head(Tail(s))>> \in Links(name)
        /\ Tail(s) = <<>> => Head(s) \in Ends(name)
    BY <1>1, ScriptRest
  <1>5. \E y : Onward(name, Stage, y)
    BY <1>2, <1>4 DEF Onward
  <1> QED BY <1>1, <1>2, <1>3, <1>5

(* A failing stage leaves the published files, but for a torn artifact. *)
LEMMA FailKeeps == ASSUME PipelineInv, Fail PROVE PipelineInv'
  <1>1. PICK name : name = cmd.name
    OBVIOUS
  <1>2. /\ cmd.todo # <<>> /\ cmd' = [cmd EXCEPT !.todo = <<>>, !.outcome = "failed"]
        /\ UNCHANGED <<files, demands, before, calm, work, kept, retired>>
        /\ \/ UNCHANGED published
           \/ At("writeArtifact") /\ published' = [published EXCEPT !["artifact"] = Torn]
    BY DEF Fail, steady
  <1>3. /\ name \in CommandNames /\ Stage # "done" /\ \E y : Onward(name, Stage, y)
    BY <1>1, <1>2, Running DEF PipelineInv
  <1>4. /\ cmd' \in Cmds /\ cmd'.name = name /\ cmd'.todo = <<>> /\ cmd'.outcome = "failed"
    <2>1. PICK c \in Cmds : c = cmd /\ c.name = name
      BY <1>1 DEF PipelineInv, Typed
    <2>2. cmd' = [c EXCEPT !.todo = <<>>, !.outcome = "failed"]
      BY <1>2, <2>1
    <2>3. <<>> \in Seq(Stages)
      OBVIOUS
    <2> QED BY <2>1, <2>2, <2>3 DEF Cmds
  <1>5. Stage' = "done"
    BY <1>4 DEF Stage
  <1>6. /\ published' = [p \in Paths |-> published'[p]] /\ QualificationOk' /\ AssemblyOk'
        /\ published' = published \/ name \in {"explain", "classify1"}
    <2>1. CASE UNCHANGED published
      BY <1>2, <2>1, WorldStays DEF PipelineInv, Typed
    <2>2. CASE At("writeArtifact") /\ published' = [published EXCEPT !["artifact"] = Torn]
      <3>1. Stage = "writeArtifact"
        BY <2>2 DEF At, Stage
      <3>2. name \in {"explain", "classify1"}
        BY <1>3, <3>1, OnwardIs
      <3>3. PICK p \in {"lock", "artifact", "assemblyEntry"} : p = "artifact"
        OBVIOUS
      <3> QED BY <1>2, <2>2, <3>2, <3>3, PathWritten
    <2> QED BY <1>2, <2>1, <2>2
  <1>7. Typed'
    BY <1>2, <1>4, <1>6 DEF PipelineInv, Typed
  <1>8. Scripted' /\ WorkOk' /\ ReadOk'
    BY <1>4, <1>5 DEF Scripted, WorkOk, ReadOk, Settled
  <1>9. KeptOk'
    <2>1. kept' # <<>> => \E w : /\ Good(w) /\ kept'[1] = (EntriesOf("plan", w))'
                                 /\ calm' => Clean(w, files')
      BY <1>2, DemandsStay DEF PipelineInv, KeptOk
    <2> QED BY <1>5, <2>1 DEF KeptOk
  <1>10. PublishedOk'
    <2>1. Unpublished' => Unpublished /\ name \notin {"explain", "classify1"}
      BY <1>1, <1>2, <1>3, <1>4, <1>5 DEF Unpublished
    <2>2. calm /\ Unpublished' => published' = before'
      BY <1>2, <1>6, <2>1 DEF PipelineInv, PublishedOk
    <2>3. CalmRunsAreClean'
      BY <1>4 DEF CalmRunsAreClean
    <2> QED BY <1>2, <1>5, <2>2, <2>3 DEF PublishedOk
  <1> QED BY <1>6, <1>7, <1>8, <1>9, <1>10 DEF PipelineInv

(* An edit touches no record, and no reading. *)
LEMMA EditKeeps == ASSUME PipelineInv, Edit PROVE PipelineInv'
  <1>1. /\ calm' = FALSE /\ UNCHANGED <<demands, cmd, work, kept, retired>>
        /\ \/ UNCHANGED published
           \/ published' = [published EXCEPT !["assemblyEntry"] = "edited"]
    BY DEF Edit
  <1>2. Stage' = Stage
    BY <1>1 DEF Stage
  <1>3. /\ published' = [p \in Paths |-> published'[p]] /\ QualificationOk' /\ AssemblyOk'
    <2>1. CASE UNCHANGED published
      BY <1>1, <2>1, WorldStays DEF PipelineInv, Typed
    <2>2. CASE published' = [published EXCEPT !["assemblyEntry"] = "edited"]
      <3>1. PICK p \in {"lock", "artifact", "assemblyEntry"} : p = "assemblyEntry"
        OBVIOUS
      <3> QED BY <1>1, <2>2, <3>1, PathWritten
    <2> QED BY <1>1, <2>1, <2>2
  <1>4. Typed'
    BY <1>1, <1>3 DEF PipelineInv, Typed
  <1>5. Scripted' /\ ReadOk' /\ PublishedOk'
    BY <1>1 DEF PipelineInv, Scripted, ReadOk, PublishedOk
  <1>6. WorkOk'
    <2>1. PICK w : w = work /\ w = work' /\ (PlanReport(w))' = PlanReport(w)
      BY <1>1, DemandsStay
    <2>2. (PlanReport(work))' = PlanReport(work)
      BY <2>1
    <2> QED BY <1>1, <1>2, <2>2 DEF PipelineInv, WorkOk, Settled
  <1>7. KeptOk'
    <2>1. kept' # <<>> => \E w : /\ Good(w) /\ kept'[1] = (EntriesOf("plan", w))'
                                 /\ calm' => Clean(w, files')
      BY <1>1, DemandsStay DEF PipelineInv, KeptOk
    <2> QED BY <1>1, <1>2, <2>1 DEF PipelineInv, KeptOk
  <1> QED BY <1>3, <1>4, <1>5, <1>6, <1>7 DEF PipelineInv

(* A command begins with its script and no work. *)
LEMMA BeginKeeps == ASSUME PipelineInv, NEW name \in Commands, Begin(name) PROVE PipelineInv'
  <1>1. /\ cmd' = [name |-> name, todo |-> StagesOf(name), outcome |-> "running"]
        /\ work' = NoWork /\ kept' = <<>> /\ before' = published /\ calm' = TRUE
        /\ UNCHANGED <<files, demands, published>>
    BY DEF Begin
  <1>2. name \in CommandNames
    BY CommandsAssumption
  <1>3. PICK s : /\ s = StagesOf(name) /\ Script(name, s) /\ s # <<>>
                 /\ Head(s) = IF name \in {"audit", "invalidate"} THEN "inventory" ELSE "package"
    BY <1>2, StagesAreScripts
  <1>4. cmd' \in Cmds /\ cmd'.name = name /\ cmd'.todo = s /\ cmd'.outcome = "running"
    BY <1>1, <1>2, <1>3 DEF Cmds, Script
  <1>5. PICK y : y = Stage' /\ y = IF name \in {"audit", "invalidate"} THEN "inventory" ELSE "package"
    BY <1>3, <1>4 DEF Stage
  <1>6. Scripted'
    BY <1>2, <1>3, <1>4 DEF Scripted, CommandNames
  <1>7. QualificationOk' /\ AssemblyOk'
    BY <1>1, WorldStays
  <1>8. Typed'
    <2>1. IsWork(work')
      BY <1>1 DEF IsWork, NoWork
    <2> QED BY <1>1, <1>4, <2>1 DEF PipelineInv, Typed
  <1>9. WorkOk' /\ ReadOk'
    BY <1>5 DEF WorkOk, ReadOk, Settled
  <1>10. KeptOk'
    BY <1>1, <1>4, <1>5 DEF KeptOk
  <1>11. PublishedOk'
    BY <1>1, <1>3, <1>4, <1>5 DEF PublishedOk, CalmRunsAreClean, Idle
  <1> QED BY <1>6, <1>7, <1>8, <1>9, <1>10, <1>11 DEF PipelineInv

(* Nothing happens. *)
LEMMA StutterKeeps == ASSUME PipelineInv, UNCHANGED vars PROVE PipelineInv'
  <1>1. UNCHANGED <<files, demands, published, cmd, work, kept, retired, before, calm>>
    BY DEF vars
  <1>2. Stage' = Stage
    BY <1>1 DEF Stage
  <1>3. QualificationOk' /\ AssemblyOk'
    BY <1>1, WorldStays
  <1>4. Typed' /\ Scripted'
    BY <1>1 DEF PipelineInv, Typed, Scripted
  <1>5. WorkOk'
    <2>1. PICK w : w = work /\ w = work' /\ (PlanReport(w))' = PlanReport(w)
      BY <1>1, DemandsStay
    <2>2. (PlanReport(work))' = PlanReport(work)
      BY <2>1
    <2> QED BY <1>1, <1>2, <2>2 DEF PipelineInv, WorkOk, Settled
  <1>6. ReadOk'
    BY <1>1, <1>2 DEF PipelineInv, ReadOk, Settled
  <1>7. KeptOk'
    <2>1. kept' # <<>> => \E w : /\ Good(w) /\ kept'[1] = (EntriesOf("plan", w))'
                                 /\ calm' => Clean(w, files')
      BY <1>1, DemandsStay DEF PipelineInv, KeptOk
    <2> QED BY <1>1, <1>2, <2>1 DEF PipelineInv, KeptOk
  <1>8. PublishedOk'
    <2>1. PICK v : v = CleanWork(files) /\ v = (CleanWork(files))'
      BY <1>1 DEF CleanWork
    <2>2. \A n : (EntriesOf(n, CleanWork(files)))' = EntriesOf(n, CleanWork(files))
      <3>1. \A n : (EntriesOf(n, v))' = EntriesOf(n, v)
        BY <1>1, DemandsStay
      <3> QED BY <2>1, <3>1
    <2>3. calm => CalmRunsAreClean
      BY DEF PipelineInv, PublishedOk
    <2>4. calm => CalmRunsAreClean'
      BY <1>1, <2>2, <2>3 DEF CalmRunsAreClean, Idle
    <2>5. Unpublished' <=> Unpublished
      BY <1>1, <1>2 DEF Unpublished
    <2> QED BY <1>1, <1>2, <2>2, <2>4, <2>5 DEF PipelineInv, PublishedOk
  <1> QED BY <1>3, <1>4, <1>5, <1>6, <1>7, <1>8 DEF PipelineInv

(* Every step keeps it. *)
LEMMA NextPipelineInv == PipelineInv /\ [Next]_vars => PipelineInv'
  <1> SUFFICES ASSUME PipelineInv, [Next]_vars PROVE PipelineInv'
    OBVIOUS
  <1>1. CASE \E name \in Commands : Begin(name)
    BY <1>1, BeginKeeps
  <1>2. CASE \/ ResolvePackage \/ LoadSources \/ WriteLock \/ WriteArtifact \/ CheckManifest
    BY <1>2, ResolvePackageKeeps, LoadSourcesKeeps, WriteLockKeeps, WriteArtifactKeeps,
       CheckManifestKeeps
  <1>3. CASE \/ Probe("probeEffect", "effect-typescript") \/ Probe("probeGleam", "gleam-beam")
             \/ Cite("citeEffect", "effect-typescript") \/ Cite("citeGleam", "gleam-beam")
    BY <1>3, ProbeEffectKeeps, ProbeGleamKeeps, CiteEffectKeeps, CiteGleamKeeps
  <1>4. CASE Qualify \/ Plan \/ ReadToolchain \/ Build \/ Execute \/ Publish
    BY <1>4, QualifyKeeps, PlanKeeps, ReadToolchainKeeps, BuildKeeps, ExecuteKeeps, PublishKeeps
  <1>5. CASE Inventory \/ DigestMaterial("digestCore", "core") \/ DigestMaterial("digestNix", "nix")
    BY <1>5, InventoryKeeps, DigestCoreKeeps, DigestNixKeeps
  <1>6. CASE Summarize \/ Compare \/ Survive \/ CheckParity \/ Republish
    BY <1>6, SummarizeKeeps, CompareKeeps, SurviveKeeps, CheckParityKeeps, RepublishKeeps
  <1>7. CASE Fail \/ Edit
    BY <1>7, FailKeeps, EditKeeps
  <1>8. CASE UNCHANGED vars
    BY <1>8, StutterKeeps
  <1> QED BY <1>1, <1>2, <1>3, <1>4, <1>5, <1>6, <1>7, <1>8 DEF Next

(* Whoever edits, whatever fails: published evidence is of qualified runs, *)
(* and what a command published undisturbed is what its inputs say.        *)
THEOREM PipelinesStayGood == Spec => []PipelineInv
  <1>1. Init => PipelineInv
    BY InitPipelineInv
  <1>2. PipelineInv /\ [Next]_vars => PipelineInv'
    BY NextPipelineInv
  <1> QED BY <1>1, <1>2, PTL DEF Spec

(* A staged command that fails without an edit has published nothing:      *)
(* classify, plan and assemble publish in their last stage.                *)
THEOREM FailedRunsPublishNothing == Spec => []FailedStagedRunsPublishNothing
  <1>1. PipelineInv => FailedStagedRunsPublishNothing
    BY DEF PipelineInv, PublishedOk, Unpublished, FailedStagedRunsPublishNothing
  <1> QED BY <1>1, PipelinesStayGood, PTL

(* A command that nobody disturbed leaves what a clean run over its inputs *)
(* computes, an invalidation with its two pipelines and two publications   *)
(* too.                                                                    *)
THEOREM CalmRunsStayClean == Spec => []CalmRunsAreClean
  <1>1. PipelineInv => CalmRunsAreClean
    <2>1. PipelineInv /\ calm => CalmRunsAreClean
      BY DEF PipelineInv, PublishedOk
    <2>2. ~calm => CalmRunsAreClean
      BY DEF CalmRunsAreClean
    <2> QED BY <2>1, <2>2
  <1> QED BY <1>1, PipelinesStayGood, PTL

(* What a checked observation tells of grants. *)
LEMMA ObservationTells ==
  ASSUME NEW t \in Targets, NEW o, o = ExpectedObservation(t)
  PROVE  /\ o.successes = 1
         /\ \A r \in Traces : o.remaining[r][1] - o.remaining[r][2] \in {0, 1}
         /\ t = "gleam-beam" => \A flags \in o.restart : "oldGrantRejected" \in flags
  <1>1. /\ o.successes = 1 /\ o.remaining = ExpectedRemaining(t)
        /\ o.restart = IF t = "gleam-beam" THEN {RestartFlags} ELSE {}
    BY DEF ExpectedObservation
  <1>2. ASSUME NEW r \in Traces PROVE o.remaining[r][1] - o.remaining[r][2] \in {0, 1}
    <2>1. PICK p : p = ExpectedRemaining(t)[r] /\ p = o.remaining[r]
      BY <1>1
    <2>2. p = <<1, 0>> \/ p = <<0, 0>> \/ p = <<1, 1>>
      BY <2>1 DEF ExpectedRemaining, Traces
    <2>3. p[1] - p[2] \in {0, 1}
      BY <2>2
    <2> QED BY <2>1, <2>3
  <1>3. "oldGrantRejected" \in RestartFlags
    BY DEF RestartFlags
  <1> QED BY <1>1, <1>2, <1>3

(* The records of good work agree with its boundaries and with each other. *)
LEMMA QualificationHangsTogether ==
  ASSUME NEW w, Good(w), NEW q, q = Records(w)
  PROVE  /\ q[1].materials[2].sha = Boundary("effect-typescript", w.core)
         /\ q[2].materials[2].sha = Boundary("gleam-beam", w.core)
         /\ q[1].materials[1].sha = q[2].materials[1].sha
         /\ \A i \in 1..2 :
              LET o == q[i].observations
              IN /\ o.successes = 1
                 /\ \A t \in Traces : o.remaining[t][1] - o.remaining[t][2] \in {0, 1}
                 /\ i = 2 => \A flags \in o.restart : "oldGrantRejected" \in flags
  <1>1. PICK t \in Targets, u \in Targets : t = "effect-typescript" /\ u = "gleam-beam"
    BY DEF Targets
  <1>2. PICK a, b : a = q[1] /\ b = q[2] /\ a = Evidence(w, t) /\ b = Evidence(w, u)
    BY <1>1, RecordsAre
  <1>3. /\ a.observations = w.observed[t] /\ b.observations = w.observed[u]
        /\ a.materials[1] = [role |-> "core-source", path |-> "core", sha |-> w.cited[t]]
        /\ b.materials[1] = [role |-> "core-source", path |-> "core", sha |-> w.cited[u]]
        /\ a.materials[2] = [role |-> BoundaryRole(t), path |-> BoundaryPath(t),
                             sha |-> Boundary(t, w.core)]
        /\ b.materials[2] = [role |-> BoundaryRole(u), path |-> BoundaryPath(u),
                             sha |-> Boundary(u, w.core)]
    BY <1>2, EvidenceIs
  <1>4. /\ a.materials[1].sha = w.cited[t] /\ b.materials[1].sha = w.cited[u]
        /\ a.materials[2].sha = Boundary(t, w.core) /\ b.materials[2].sha = Boundary(u, w.core)
    BY <1>3
  <1>5. /\ w.observed[t] = ExpectedObservation(t) /\ w.observed[u] = ExpectedObservation(u)
        /\ w.cited[t] = w.cited[u]
    BY <1>1 DEF Good
  <1>6. ASSUME NEW i \in 1..2, NEW o, o = q[i].observations
        PROVE  /\ o.successes = 1
               /\ \A r \in Traces : o.remaining[r][1] - o.remaining[r][2] \in {0, 1}
               /\ i = 2 => \A flags \in o.restart : "oldGrantRejected" \in flags
    <2>1. CASE i = 1
      <3>1. o = ExpectedObservation(t)
        BY <1>2, <1>3, <1>5, <1>6, <2>1
      <3> QED BY <2>1, <3>1, ObservationTells
    <2>2. CASE i = 2
      <3>1. o = ExpectedObservation(u)
        BY <1>2, <1>3, <1>5, <1>6, <2>2
      <3> QED BY <1>1, <3>1, ObservationTells
    <2> QED BY <2>1, <2>2
  <1> QED BY <1>1, <1>2, <1>4, <1>5, <1>6

(* However edits fall between the reads of the pipelines, the published    *)
(* evidence, boundaries, reports and assembly are of one run each, and the *)
(* evidence tells of no grant used twice.                                  *)
THEOREM EvidenceStaysTogether == Spec => []EvidenceHangsTogether
  <1>1. ASSUME QualificationOk, published["qualification"] # Absent,
               NEW q, q = published["qualification"]
        PROVE  /\ published["effectEvidence"] = q[1] /\ published["gleamEvidence"] = q[2]
               /\ published["effectBoundary"] = q[1].materials[2].sha
               /\ published["gleamBoundary"] = q[2].materials[2].sha
               /\ q[1].materials[1].sha = q[2].materials[1].sha
               /\ \A i \in 1..2 :
                    LET o == q[i].observations
                    IN /\ o.successes = 1
                       /\ \A t \in Traces : o.remaining[t][1] - o.remaining[t][2] \in {0, 1}
                       /\ i = 2 => \A flags \in o.restart : "oldGrantRejected" \in flags
    <2>1. PICK w : Good(w) /\ \A p \in Recorded : published[p] = QualificationEntries(w)[p]
      BY <1>1 DEF QualificationOk
    <2>2. /\ q = Records(w) /\ published["effectEvidence"] = q[1]
          /\ published["gleamEvidence"] = q[2]
          /\ published["effectBoundary"] = Boundary("effect-typescript", w.core)
          /\ published["gleamBoundary"] = Boundary("gleam-beam", w.core)
      BY <1>1, <2>1, QualificationEntriesAre DEF Recorded
    <2> QED BY <2>1, <2>2, QualificationHangsTogether
  <1>2. ASSUME AssemblyOk, published["assembly"] # Absent,
               NEW a, a = published["assembly"]
        PROVE  /\ a.evidence.materials[2].sha = a.boundary
               /\ a.binary[1] = a.boundary /\ published["assemblyBoundary"] = a.boundary
               /\ a.plan.tag = "Selected"
    <2>1. PICK w : /\ Good(w) /\ PlanReport(w).tag = "Selected"
                   /\ published["assemblyBoundary"] = Boundary("gleam-beam", w.core)
                   /\ a = AssemblyOf(w)
      BY <1>2 DEF AssemblyOk
    <2>2. PICK r, b, m, n : r = Records(w)[2] /\ b = Boundary("gleam-beam", w.core)
                            /\ m = <<b, w.built>> /\ n = PlanReport(w)
      OBVIOUS
    <2>3. a = [plan |-> n, package |-> w.pkg, nix |-> w.nix, boundary |-> b,
               evidence |-> r, binary |-> m]
      BY <2>1, <2>2 DEF AssemblyOf
    <2>4. a.plan = n /\ a.boundary = b /\ a.evidence = r /\ a.binary = m
      BY <2>3
    <2>5. r.materials[2].sha = b
      BY <2>1, <2>2, QualificationHangsTogether
    <2> QED BY <2>1, <2>2, <2>4, <2>5
  <1>3. PipelineInv => EvidenceHangsTogether
    BY <1>1, <1>2 DEF PipelineInv, EvidenceHangsTogether
  <1> QED BY <1>3, PipelinesStayGood, PTL

(* Sorting two contributions, of different targets, forgets how they came. *)
LEMMA OrderedPair ==
  ASSUME NEW a, NEW b, Rank(a) = 0, Rank(b) = 1, NEW s, s = <<a, b>> \/ s = <<b, a>>
  PROVE  Ordered(s) = [k \in 1..2 |-> IF k = 1 THEN a ELSE b]
  <1>1. DOMAIN s = 1..2
    OBVIOUS
  <1> DEFINE Earlier(i) == {j \in 1..2 : Rank(s[j]) < Rank(s[i]) \/ (Rank(s[j]) = Rank(s[i]) /\ j < i)}
             first == IF s = <<a, b>> THEN 1 ELSE 2
             second == 3 - first
  <1>2. /\ first \in 1..2 /\ second \in 1..2 /\ first # second
        /\ \A i \in 1..2 : i = first \/ i = second
    OBVIOUS
  <1>3. s[first] = a /\ s[second] = b
    OBVIOUS
  <1>4. Earlier(first) = {} /\ Earlier(second) = {first}
    BY <1>2, <1>3
  <1>5. Cardinality(Earlier(first)) = 0 /\ Cardinality(Earlier(second)) = 1
    BY <1>4, FS_EmptySet, FS_Singleton
  <1>6. Ordered(s) = [k \in 1..2 |-> s[CHOOSE i \in 1..2 : Cardinality(Earlier(i)) = k - 1]]
    BY <1>1 DEF Ordered
  <1> HIDE DEF Earlier, first, second
  <1>7. ASSUME NEW k \in 1..2
        PROVE  s[CHOOSE i \in 1..2 : Cardinality(Earlier(i)) = k - 1] = IF k = 1 THEN a ELSE b
    <2>1. PICK i : i = CHOOSE j \in 1..2 : Cardinality(Earlier(j)) = k - 1
      OBVIOUS
    <2>2. \E j \in 1..2 : Cardinality(Earlier(j)) = k - 1
      BY <1>2, <1>5
    <2>3. i \in 1..2 /\ Cardinality(Earlier(i)) = k - 1
      BY <2>1, <2>2
    <2>4. i = IF k = 1 THEN first ELSE second
      <3>1. CASE k = 1
        <4>1. i # second
          BY <1>5, <2>3, <3>1
        <4> QED BY <1>2, <2>3, <3>1, <4>1
      <3>2. CASE k = 2
        <4>1. i # first
          BY <1>5, <2>3, <3>2
        <4> QED BY <1>2, <2>3, <3>2, <4>1
      <3> QED BY <3>1, <3>2
    <2>5. s[i] = IF k = 1 THEN a ELSE b
      BY <1>3, <2>4
    <2> QED BY <2>1, <2>5
  <1> QED BY <1>6, <1>7

(* The contribution made of good evidence is none of the refused ones. *)
LEMMA ContributionIs ==
  ASSUME NEW w, Good(w), NEW t \in Targets, NEW e, e = Evidence(w, t)
  PROVE  /\ MakeTargetContribution(t, Result(t), e).target = t
         /\ MakeTargetContribution(t, Result(t), e).materials =
              {[role |-> "core-source", path |-> "core", sha |-> w.cited[t]],
               [role |-> BoundaryRole(t), path |-> BoundaryPath(t), sha |-> Boundary(t, w.core)]}
  <1>1. PICK r : r = Result(t) /\ r = [tag |-> "Qualified", target |-> t, id |-> Id]
    BY DEF Result
  <1>2. PICK m, n : /\ m = [role |-> "core-source", path |-> "core", sha |-> w.cited[t]]
                    /\ n = [role |-> BoundaryRole(t), path |-> BoundaryPath(t),
                            sha |-> Boundary(t, w.core)]
    OBVIOUS
  <1>3. /\ e = [target |-> t, id |-> Id, selection |-> "qualification", package |-> w.pkg,
                observations |-> w.observed[t], materials |-> <<m, n>>]
    BY <1>2 DEF Evidence
  <1>4. /\ e.target = t /\ e.id = Id /\ e.observations = ExpectedObservation(t)
        /\ e.materials = <<m, n>>
    BY <1>3 DEF Good
  <1>5. m.role # n.role /\ m.path # n.path /\ n.role = BoundaryRole(t) /\ m.role = "core-source"
    BY <1>2 DEF BoundaryRole, BoundaryPath
  <1>6. PICK s : s = e.materials /\ s = <<m, n>> /\ Len(s) = 2 /\ s[1] = m /\ s[2] = n
    BY <1>4
  <1>7. CheckMaterialUniqueness(e.materials)
    BY <1>5, <1>6 DEF CheckMaterialUniqueness
  <1>8. CheckTargetMaterials(e)
    <2>1. 1 \in 1..2 /\ 2 \in 1..2
      OBVIOUS
    <2>2. "core-source" \in {s[i].role : i \in 1..2} /\ n.role \in {s[i].role : i \in 1..2}
      BY <1>5, <1>6, <2>1
    <2> QED BY <1>4, <1>5, <1>6, <2>2 DEF CheckTargetMaterials
  <1>9. CheckObservations(e)
    <2>1. PICK o : o = e.observations /\ o = ExpectedObservation(t)
      BY <1>4
    <2>2. /\ o.target = t /\ o.realization = Id.realization /\ o.passed = Journeys
          /\ o.successes = 1 /\ o.rejections = 1 /\ o.remaining = ExpectedRemaining(t)
          /\ o.restart = IF t = "gleam-beam" THEN {RestartFlags} ELSE {}
      BY <2>1 DEF ExpectedObservation
    <2> QED BY <1>4, <2>1, <2>2 DEF CheckObservations
  <1>10. CheckEvidence(e, [target |-> t, id |-> r.id, package |-> e.package])
    BY <1>1, <1>4, <1>7, <1>8, <1>9 DEF CheckEvidence
  <1>11. EvidenceFits(t, r, e)
    BY <1>1, <1>10 DEF EvidenceFits
  <1>12. PICK c : c = [i \in 1..3 |-> [family |-> Families[i], value |-> ExpectedTargetClaims[t][i]]]
    OBVIOUS
  <1>13. ClaimsCover(c)
    <2>1. Len(c) = 3 /\ \A i \in 1..3 : c[i].family = Families[i]
      BY <1>12
    <2> QED BY <2>1 DEF ClaimsCover
  <1>14. PICK x : MakeTargetContribution(t, r, e) = MakePlanningContribution(t, r, e, c, x)
    BY <1>12 DEF MakeTargetContribution
  <1>15. {s[i] : i \in 1..Len(s)} = {m, n}
    BY <1>6
  <1>16. /\ MakePlanningContribution(t, r, e, c, x).target = t
         /\ MakePlanningContribution(t, r, e, c, x).materials = {m, n}
    BY <1>6, <1>11, <1>13, <1>15 DEF MakePlanningContribution
  <1> QED BY <1>1, <1>2, <1>14, <1>16

(* The plan of the published evidence does not depend on the order in      *)
(* which the two contributions arrive.                                     *)
THEOREM PlansIgnoreOrder == Spec => []PlanIgnoresOrder
  <1>1. ASSUME NEW w, Good(w), NEW q, q = Records(w), NEW a, NEW b,
               a = MakeTargetContribution(q[1].target, Result(q[1].target), q[1]),
               b = MakeTargetContribution(q[2].target, Result(q[2].target), q[2])
        PROVE  PlanObjective(Selection, <<a, b>>) = PlanObjective(Selection, <<b, a>>)
    <2>1. PICK t \in Targets, u \in Targets : t = "effect-typescript" /\ u = "gleam-beam"
      BY DEF Targets
    <2>2. PICK c, d : c = q[1] /\ d = q[2] /\ c = Evidence(w, t) /\ d = Evidence(w, u)
      BY <1>1, <2>1, RecordsAre
    <2>3. c.target = t /\ d.target = u
      BY <2>2 DEF Evidence
    <2>4. a = MakeTargetContribution(t, Result(t), c) /\ b = MakeTargetContribution(u, Result(u), d)
      BY <1>1, <2>2, <2>3
    <2>5. a.target = t /\ b.target = u
      BY <1>1, <2>2, <2>4, ContributionIs
    <2>6. Rank(a) = 0 /\ Rank(b) = 1
      BY <2>1, <2>5 DEF Rank
    <2>7. Ordered(<<a, b>>) = Ordered(<<b, a>>)
      BY <2>6, OrderedPair
    <2> QED BY <2>7 DEF PlanObjective
  <1>2. ASSUME QualificationOk, published["qualification"] # Absent
        PROVE  \E w : Good(w) /\ published["qualification"] = Records(w)
    <2>1. PICK w : Good(w) /\ \A p \in Recorded : published[p] = QualificationEntries(w)[p]
      BY <1>2 DEF QualificationOk
    <2>2. published["qualification"] = Records(w)
      BY <2>1, QualificationEntriesAre DEF Recorded
    <2> QED BY <2>1, <2>2
  <1>3. PipelineInv => PlanIgnoresOrder
    BY <1>1, <1>2 DEF PipelineInv, PlanIgnoresOrder
  <1> QED BY <1>3, PipelinesStayGood, PTL

-----------------------------------------------------------------------------
(* What a list of citations holds. *)
Cited(s) == {s[i] : i \in 1..Len(s)}

(* A list of both holds what each does.                                    *)
LEMMA CitedBoth ==
  ASSUME NEW S, NEW s \in Seq(S), NEW t \in Seq(S)
  PROVE  s \o t \in Seq(S) /\ Cited(s \o t) = Cited(s) \cup Cited(t)
  <1>1. /\ s \o t \in Seq(S) /\ Len(s \o t) = Len(s) + Len(t)
        /\ \A i \in 1..Len(s) : (s \o t)[i] = s[i]
        /\ \A i \in 1..Len(t) : (s \o t)[Len(s) + i] = t[i]
        /\ Len(s) \in Nat /\ Len(t) \in Nat
    OBVIOUS
  <1>2. PICK u, n, m : u = s \o t /\ n = Len(s) /\ m = Len(t)
    OBVIOUS
  <1>3. \A k \in 1..(n + m) : k \in 1..n \/ \E i \in 1..m : k = n + i
    <2> SUFFICES ASSUME NEW k \in 1..(n + m), k \notin 1..n PROVE \E i \in 1..m : k = n + i
      OBVIOUS
    <2>1. k - n \in 1..m /\ k = n + (k - n)
      BY <1>1, <1>2
    <2> QED BY <2>1
  <1>4. {u[k] : k \in 1..(n + m)} = {s[i] : i \in 1..n} \cup {t[i] : i \in 1..m}
    <2>1. ASSUME NEW i \in 1..n PROVE s[i] \in {u[k] : k \in 1..(n + m)}
      <3>1. i \in 1..(n + m)
        BY <1>1, <1>2
      <3> QED BY <1>1, <1>2, <3>1
    <2>2. ASSUME NEW i \in 1..m PROVE t[i] \in {u[k] : k \in 1..(n + m)}
      <3>1. n + i \in 1..(n + m)
        BY <1>1, <1>2
      <3> QED BY <1>1, <1>2, <3>1
    <2>3. ASSUME NEW k \in 1..(n + m) PROVE u[k] \in {s[i] : i \in 1..n} \cup {t[i] : i \in 1..m}
      BY <1>1, <1>2, <1>3
    <2> QED BY <2>1, <2>2, <2>3
  <1> QED BY <1>1, <1>2, <1>4 DEF Cited

(* A set of numbers that is not empty has a least one.                     *)
LEMMA Least ==
  ASSUME NEW T, T \subseteq Nat, T # {}
  PROVE  \E i \in T : \A j \in T : i <= j
  <1> DEFINE Less == OpToRel(<, Nat)
  <1>1. IsWellFoundedOn(Less, Nat)
    BY NatLessThanWellFounded
  <1> HIDE DEF Less
  <1>2. PICK m \in T : \A y \in T : <<y, m>> \notin Less
    BY <1>1, WFMin
  <1>3. \A y \in T : ~(y < m)
    BY <1>2 DEF Less, OpToRel
  <1> QED BY <1>2, <1>3

(* Where all citations of a path agree, the material is what any of them   *)
(* says, cited by all who cite it.                                         *)
LEMMA MaterialsAre ==
  ASSUME NEW S, NEW s \in Seq(S), NEW x \in Cited(s),
         \A y \in Cited(s) : y.path = x.path => y.role = x.role /\ y.sha = x.sha
  PROVE  /\ x.path \in DOMAIN CollectMaterials(s)
         /\ CollectMaterials(s)[x.path] =
              [role |-> x.role, class |-> MaterialClassForRole(x.role), sha |-> x.sha,
               citedBy |-> {y.by : y \in {z \in Cited(s) : z.path = x.path}}]
  <1> DEFINE all == 1..Len(s)
             Of(p) == {i \in all : s[i].path = p}
             First(p) == s[CHOOSE i \in Of(p) : \A j \in Of(p) : i <= j]
  <1>1. CollectMaterials(s) = [p \in {s[i].path : i \in all} |->
          [role |-> First(p).role, class |-> MaterialClassForRole(First(p).role),
           sha |-> First(p).sha, citedBy |-> {s[i].by : i \in Of(p)}]]
    BY DEF CollectMaterials
  <1>2. PICK k \in all : s[k] = x
    BY DEF Cited
  <1>3. PICK p : p = x.path
    OBVIOUS
  <1>4. k \in Of(p) /\ Of(p) \subseteq Nat
    BY <1>2, <1>3
  <1>5. First(p) \in Cited(s) /\ First(p).path = p
    <2>1. \E i \in Of(p) : \A j \in Of(p) : i <= j
      BY <1>4, Least
    <2>2. PICK i : i = CHOOSE m \in Of(p) : \A j \in Of(p) : m <= j
      OBVIOUS
    <2>3. i \in Of(p)
      BY <2>1, <2>2
    <2>4. s[i] \in Cited(s) /\ s[i].path = p
      BY <2>3 DEF Cited
    <2> QED BY <2>2, <2>4
  <1>6. {s[i].by : i \in Of(p)} = {y.by : y \in {z \in Cited(s) : z.path = p}}
    BY DEF Cited
  <1>7. p \in {s[i].path : i \in all}
    BY <1>2, <1>3
  <1>8. PICK f : f = First(p)
    OBVIOUS
  <1>9. f.role = x.role /\ f.sha = x.sha
    BY <1>3, <1>5, <1>8
  <1> HIDE DEF all, Of, First
  <1>10. CollectMaterials(s)[p] =
           [role |-> f.role, class |-> MaterialClassForRole(f.role), sha |-> f.sha,
            citedBy |-> {s[i].by : i \in Of(p)}]
    BY <1>1, <1>7, <1>8
  <1>11. p \in DOMAIN CollectMaterials(s)
    BY <1>1, <1>7
  <1> QED BY <1>3, <1>6, <1>9, <1>10, <1>11

(* The materials are those cited.                                          *)
LEMMA MaterialPaths ==
  ASSUME NEW s PROVE DOMAIN CollectMaterials(s) = {x.path : x \in Cited(s)}
  BY DEF CollectMaterials, Cited

-----------------------------------------------------------------------------
Cites(materials) == UNION {materials[p].citedBy : p \in DOMAIN materials}

(* When no record's name is a path the closure is reached at once.         *)
LEMMA ClosureIsDirect ==
  ASSUME NEW materials, NEW verdict, IsFiniteSet(Cites(materials)),
         \A r \in DirectlyRetired(materials, verdict) : \A p \in DOMAIN materials :
           PathName(p) # RecordBodyPath(r)
  PROVE  CloseRetirement(materials, verdict) = DirectlyRetired(materials, verdict)
  <1> DEFINE Citing(r) == UNION {materials[p].citedBy :
                             p \in {q \in DOMAIN materials : PathName(q) = RecordBodyPath(r)}}
             N == Cardinality(Cites(materials))
             D == DirectlyRetired(materials, verdict)
             Grows(g) == g = [n \in 0..N |-> IF n = 0 THEN D
                                             ELSE g[n - 1] \cup UNION {Citing(r) : r \in g[n - 1]}]
  <1>1. N \in Nat
    BY FS_CardinalityType
  <1>2. \A r \in D : Citing(r) = {}
    OBVIOUS
  <1>3. CloseRetirement(materials, verdict) = (CHOOSE g : Grows(g))[N]
    BY DEF CloseRetirement, Cites
  <1> HIDE DEF N, D, Citing
  <1>4. UNION {Citing(r) : r \in D} = {}
    BY <1>2
  <1>5. Grows([n \in 0..N |-> D])
    <2> DEFINE g == [n \in 0..N |-> D]
    <2>1. \A n \in 0..N : n # 0 => n - 1 \in 0..N
      BY <1>1
    <2>2. \A n \in 0..N : D = IF n = 0 THEN D ELSE g[n - 1] \cup UNION {Citing(r) : r \in g[n - 1]}
      BY <1>4, <2>1
    <2> QED BY <2>2
  <1>6. PICK g : g = (CHOOSE h : Grows(h)) /\ Grows(g)
    BY <1>5
  <1> DEFINE T == {n \in Nat : n \in 0..N => g[n] = D}
  <1>8. 0 \in T
    BY <1>1, <1>6
  <1>9. \A n \in Nat : n \in T => n + 1 \in T
    <2> SUFFICES ASSUME NEW n \in Nat, n \in T, n + 1 \in 0..N PROVE g[n + 1] = D
      OBVIOUS
    <2>1. n \in 0..N /\ n + 1 # 0 /\ (n + 1) - 1 = n
      BY <1>1
    <2>2. g[n] = D
      BY <2>1
    <2>3. g[n + 1] = g[(n + 1) - 1] \cup UNION {Citing(r) : r \in g[(n + 1) - 1]}
      BY <1>6, <2>1
    <2> QED BY <1>4, <2>1, <2>2, <2>3
  <1> HIDE DEF T
  <1>10. N \in T
    BY <1>1, <1>8, <1>9, SetInduction
  <1>11. N \in 0..N
    BY <1>1
  <1>12. g[N] = D
    BY <1>10, <1>11 DEF T
  <1> QED BY <1>3, <1>6, <1>12 DEF D

-----------------------------------------------------------------------------
(* What a record of good work cites: the source and its own boundary.      *)
Source(w, t) == [role |-> "core-source", path |-> "core", sha |-> w.cited[t]]
Generated(w, t) ==
  [role |-> BoundaryRole(t), path |-> BoundaryPath(t), sha |-> Boundary(t, w.core)]

(* The only feasible candidate is one of the candidates.                   *)
LEMMA FeasibleIsAnEvaluation ==
  ASSUME NEW evaluations, DOMAIN evaluations = 1..2, Len(Feasible(evaluations)) = 1
  PROVE  \E i \in 1..2 : Feasible(evaluations)[1] = evaluations[i]
  <1> DEFINE feasible == {i \in DOMAIN evaluations : evaluations[i].feasible}
             Before(i) == {j \in feasible : j < i}
             n == Cardinality(feasible)
  <1>1. Feasible(evaluations) = [k \in 1..n |->
          evaluations[CHOOSE i \in feasible : Cardinality(Before(i)) = k - 1]]
    BY DEF Feasible
  <1>2. IsFiniteSet(feasible) /\ n \in Nat
    <2>1. IsFiniteSet(1..2)
      <3>1. 1 \in Int /\ 2 \in Int
        OBVIOUS
      <3> QED BY ONLY <3>1, FS_Interval
    <2>2. feasible \subseteq 1..2
      OBVIOUS
    <2> QED BY <2>1, <2>2, FS_Subset, FS_CardinalityType
  <1>3. n = 1
    <2> HIDE DEF n
    <2> QED BY <1>1, <1>2
  <1>4. PICK i : feasible = {i} /\ i \in 1..2
    <2>1. \E i : feasible = {i}
      BY <1>2, <1>3, FS_Singleton
    <2> QED BY <2>1
  <1>5. Before(i) = {}
    BY <1>4
  <1>6. PICK j : j = CHOOSE x \in feasible : Cardinality(Before(x)) = 1 - 1
    OBVIOUS
  <1> HIDE DEF feasible, n, Before
  <1>7. Cardinality(Before(i)) = 1 - 1
    BY <1>5, FS_EmptySet
  <1>8. j = i
    <2>1. \E x \in feasible : Cardinality(Before(x)) = 1 - 1
      BY <1>4, <1>7
    <2>2. j \in feasible
      BY <1>6, <2>1
    <2> QED BY <1>4, <2>2
  <1>9. 1 \in 1..n
    BY <1>3
  <1>10. Feasible(evaluations)[1] =
           evaluations[CHOOSE x \in feasible : Cardinality(Before(x)) = 1 - 1]
    BY <1>1, <1>9, Zenon
  <1> QED BY <1>4, <1>6, <1>8, <1>10, Zenon

(* A selected plan of good work cites what one of its records does.        *)
LEMMA SelectedMaterials ==
  ASSUME NEW w, Good(w), PlanReport(w).tag = "Selected"
  PROVE  \E t \in Targets : PlanReport(w).plans[1].materials = {Source(w, t), Generated(w, t)}
  <1>1. PICK t \in Targets, u \in Targets : t = "effect-typescript" /\ u = "gleam-beam"
    BY DEF Targets
  <1>2. PICK c, d : c = Records(w)[1] /\ d = Records(w)[2] /\ c = Evidence(w, t) /\ d = Evidence(w, u)
    BY <1>1, RecordsAre
  <1>3. c.target = t /\ d.target = u
    BY <1>2 DEF Evidence
  <1>4. PICK a, b : /\ a = MakeTargetContribution(t, Result(t), c)
                    /\ b = MakeTargetContribution(u, Result(u), d)
    OBVIOUS
  <1>5. /\ a.target = t /\ a.materials = {Source(w, t), Generated(w, t)}
        /\ b.target = u /\ b.materials = {Source(w, u), Generated(w, u)}
    BY <1>2, <1>4, ContributionIs DEF Source, Generated
  <1>6. PICK s : s = [i \in 1..2 |-> MakeTargetContribution(Records(w)[i].target,
                        Result(Records(w)[i].target), Records(w)[i])]
    OBVIOUS
  <1>7. s = <<a, b>>
    <2>0. 1 \in 1..2 /\ 2 \in 1..2
      OBVIOUS
    <2>1. s[1] = MakeTargetContribution(c.target, Result(c.target), c)
      BY <1>2, <1>6, <2>0, Zenon
    <2>2. s[2] = MakeTargetContribution(d.target, Result(d.target), d)
      BY <1>2, <1>6, <2>0, Zenon
    <2>3. s[1] = a /\ s[2] = b
      BY <1>3, <1>4, <2>1, <2>2
    <2> QED BY <1>6, <2>3
  <1>8. PICK cs : cs = [k \in 1..2 |-> IF k = 1 THEN a ELSE b] /\ cs = Ordered(s)
    <2>1. Rank(a) = 0 /\ Rank(b) = 1
      BY <1>1, <1>5 DEF Rank
    <2> QED BY <1>7, <2>1, OrderedPair
  <1>9. PlanReport(w) = PlanOrdered(Selection, cs)
    BY <1>6, <1>8 DEF PlanReport, PlanObjective
  <1>10. PICK ev : ev = [i \in 1..2 |-> CandidateEvaluation(Selection.demands, cs[i])]
    OBVIOUS
  <1>11. PICK plans : plans = Feasible(ev)
    OBVIOUS
  <1>12. Len(cs) = 2
    BY <1>8
  <1>13. Len(plans) = 1 /\ PlanReport(w).plans = plans
    <2>1. \/ PlanReport(w) = Refused
          \/ PlanReport(w) = IF Len(plans) = 0 THEN [tag |-> "NoPlan", plans |-> ev]
                             ELSE IF Len(plans) = 1 THEN [tag |-> "Selected", plans |-> plans]
                             ELSE [tag |-> "Incomparable", plans |-> plans]
      BY <1>9, <1>10, <1>11, <1>12 DEF PlanOrdered
    <2>2. PICK p : p = PlanReport(w)
      OBVIOUS
    <2>3. p # Refused
      BY <2>2 DEF Refused
    <2> QED BY <2>1, <2>2, <2>3
  <1>14. PICK i \in 1..2 : plans[1] = ev[i]
    BY <1>10, <1>11, <1>13, FeasibleIsAnEvaluation
  <1>15. plans[1].materials = cs[i].materials
    BY <1>10, <1>14 DEF CandidateEvaluation
  <1>16. cs[i] = a \/ cs[i] = b
    BY <1>8
  <1> QED BY <1>5, <1>13, <1>15, <1>16

-----------------------------------------------------------------------------
(* A closure of the inputs f is what good work over them publishes.        *)
ClosureOf(w, f) ==
  /\ Good(w) /\ PlanReport(w).tag = "Selected"
  /\ w.pkg = DigestOf[f.pkg] /\ w.core = f.core /\ w.nix = f.nix
  /\ \A t \in Targets : w.cited[t] = f.core
  /\ published["artifact"] = MeaningOf[f.core] /\ published["lock"] = DigestOf[f.pkg]
  /\ published["effectBoundary"] = Boundary("effect-typescript", f.core)
  /\ published["gleamBoundary"] = Boundary("gleam-beam", f.core)
  /\ published["qualification"] = Records(w) /\ published["plan"] = PlanReport(w)
  /\ published["assemblyBoundary"] = Boundary("gleam-beam", f.core)
  /\ published["binary"] = <<Boundary("gleam-beam", f.core), w.built>>
  /\ published["assembly"] = AssemblyOf(w)

(* Every closure is one, its assembly having been published by good work.  *)
LEMMA ClosuresAreWork ==
  ASSUME PipelineInv, Consistent, NEW f, Closures(f)
  PROVE  \E w : ClosureOf(w, f)
  <1>1. PICK v : Good(v) /\ \A p \in Recorded : published[p] = QualificationEntries(v)[p]
    BY DEF PipelineInv, QualificationOk, Consistent
  <1>2. PICK r : r = Records(v) /\ r = published["qualification"]
    BY <1>1, QualificationEntriesAre DEF Recorded
  <1>3. PICK t \in Targets, u \in Targets : t = "effect-typescript" /\ u = "gleam-beam"
    BY DEF Targets
  <1>16. PICK a, b : /\ a = r[1] /\ b = r[2] /\ a = Evidence(v, t) /\ b = Evidence(v, u)
                     /\ a.target = t /\ a.observations = v.observed[t]
                     /\ b.target = u /\ b.observations = v.observed[u]
    <2>1. PICK a, b : /\ a = r[1] /\ b = r[2] /\ a = Evidence(v, t) /\ b = Evidence(v, u)
      BY <1>2, <1>3, RecordsAre
    <2>2. a.target = t /\ a.observations = v.observed[t]
      <3>1. Evidence(v, t).target = t /\ Evidence(v, t).observations = v.observed[t]
        BY DEF Evidence
      <3> QED BY <2>1, <3>1, Zenon
    <2>3. b.target = u /\ b.observations = v.observed[u]
      <3>1. Evidence(v, u).target = u /\ Evidence(v, u).observations = v.observed[u]
        BY DEF Evidence
      <3> QED BY <2>1, <3>1, Zenon
    <2> QED BY <2>1, <2>2, <2>3
  <1>17. ASSUME NEW y, NEW g, g = QualificationEntries(y)
         PROVE  /\ g["artifact"] = MeaningOf[y.core] /\ g["lock"] = y.pkg
                /\ g["effectBoundary"] = Boundary("effect-typescript", y.core)
                /\ g["gleamBoundary"] = Boundary("gleam-beam", y.core)
                /\ g["qualification"] = Records(y)
    BY <1>17, QualificationEntriesAre
  <1> DEFINE Of(x) == (CHOOSE e \in {published["qualification"][i] : i \in 1..2} :
                         e.target = x).observations
             own == [CleanWork(f) EXCEPT !.observed = [x \in Targets |-> Of(x)]]
  <1>4. Of(t) = v.observed[t] /\ Of(u) = v.observed[u]
    <2>3. {published["qualification"][i] : i \in 1..2} = {a, b}
      <3>1. 1 \in 1..2 /\ 2 \in 1..2 /\ \A i \in 1..2 : i = 1 \/ i = 2
        OBVIOUS
      <3>2. {r[i] : i \in 1..2} = {a, b}
        BY <1>16, <3>1, Zenon
      <3> QED BY <1>2, <3>2
    <2>4. (CHOOSE e \in {a, b} : e.target = t) = a /\ (CHOOSE e \in {a, b} : e.target = u) = b
      BY <1>3, <1>16
    <2> QED BY <1>16, <2>3, <2>4
  <1>5. PICK x : x = own /\ x.pkg = DigestOf[f.pkg] /\ x.core = f.core /\ x.nix = f.nix
                 /\ x.observed[t] = Of(t) /\ x.observed[u] = Of(u)
                 /\ x.cited[t] = f.core /\ x.cited[u] = f.core
    <2>1. PICK c : c = CleanWork(f)
                   /\ c = [pkg |-> DigestOf[f.pkg], core |-> f.core, nix |-> f.nix, built |-> f.nix,
                           observed |-> [y \in Targets |-> work.observed[y]],
                           cited |-> [y \in Targets |-> f.core]]
      BY DEF CleanWork
    <2>2. PICK o : o = [y \in Targets |-> Of(y)]
      OBVIOUS
    <2>3. PICK x : x = [c EXCEPT !.observed = o]
      OBVIOUS
    <2>4. /\ x.pkg = DigestOf[f.pkg] /\ x.core = f.core /\ x.nix = f.nix
          /\ x.observed = o /\ x.cited = [y \in Targets |-> f.core]
      BY <2>1, <2>3
    <2>5. o[t] = Of(t) /\ o[u] = Of(u)
      BY <1>3, <2>2
    <2>6. x = own
      BY <2>1, <2>2, <2>3
    <2>7. x.cited[t] = f.core /\ x.cited[u] = f.core
      BY <1>3, <2>4
    <2>8. x.observed[t] = Of(t) /\ x.observed[u] = Of(u)
      BY <2>4, <2>5
    <2> HIDE DEF Of, own
    <2> QED BY <2>4, <2>6, <2>7, <2>8
  <1>6. \A p \in Paths \ {"assemblyEntry"} : published[p] = EntriesOf("assemble", x)[p]
    BY <1>5 DEF Closures
  <1> HIDE DEF Of, own
  <1>7. \A y \in Targets : y = t \/ y = u
    BY <1>3 DEF Targets
  <1>8. Good(x)
    BY <1>1, <1>3, <1>4, <1>5, <1>7 DEF Good
  <1>9. PICK e : e = EntriesOf("assemble", x)
    OBVIOUS
  <1>10. /\ \A p \in QualificationPaths : e[p] = QualificationEntries(x)[p]
         /\ e["plan"] = PlanReport(x)
         /\ \A p \in AssemblyPaths : e[p] = AssemblyEntries(x)[p]
    BY <1>9, EntriesAre
  <1>11. /\ published["artifact"] = MeaningOf[f.core] /\ published["lock"] = DigestOf[f.pkg]
         /\ published["effectBoundary"] = Boundary("effect-typescript", f.core)
         /\ published["gleamBoundary"] = Boundary("gleam-beam", f.core)
         /\ published["qualification"] = Records(x)
    <2>1. QualificationPaths \subseteq Paths \ {"assemblyEntry"}
      BY DEF Paths, QualificationPaths
    <2>2. \A p \in QualificationPaths : published[p] = QualificationEntries(x)[p]
      BY <1>6, <1>9, <1>10, <2>1
    <2>3. PICK q : q = QualificationEntries(x) /\ \A p \in QualificationPaths : published[p] = q[p]
      BY <2>2
    <2>4. /\ q["artifact"] = MeaningOf[f.core] /\ q["lock"] = DigestOf[f.pkg]
          /\ q["effectBoundary"] = Boundary("effect-typescript", f.core)
          /\ q["gleamBoundary"] = Boundary("gleam-beam", f.core)
          /\ q["qualification"] = Records(x)
      BY <1>5, <1>17, <2>3
    <2> QED BY <2>3, <2>4 DEF QualificationPaths
  <1>12. /\ published["assemblyBoundary"] = Boundary("gleam-beam", f.core)
         /\ published["binary"] = <<Boundary("gleam-beam", f.core), x.built>>
         /\ published["assembly"] = AssemblyOf(x)
    BY <1>5, <1>6, <1>9, <1>10, AssemblyEntriesAre DEF Paths, AssemblyPaths
  <1>13. published["plan"] = PlanReport(x)
    BY <1>6, <1>9, <1>10 DEF Paths
  <1>14. PlanReport(x).tag = "Selected"
    <2>1. PICK y : PlanReport(y).tag = "Selected" /\ published["assembly"] = AssemblyOf(y)
      BY DEF PipelineInv, AssemblyOk, Consistent
    <2>2. AssemblyOf(x).plan = PlanReport(x) /\ AssemblyOf(y).plan = PlanReport(y)
      BY DEF AssemblyOf
    <2> QED BY <1>12, <2>1, <2>2
  <1>15. \A y \in Targets : x.cited[y] = f.core
    BY <1>5, <1>7
  <1> QED BY <1>5, <1>8, <1>11, <1>12, <1>13, <1>14, <1>15 DEF ClosureOf

-----------------------------------------------------------------------------
(* The role of each material, the digest recorded of it, who may cite it.  *)
RoleOf ==
  [assembly |-> "assembly-report", assemblyBoundary |-> "qualified-generated",
   assemblyEntry |-> "assembled-entry", binary |-> "compiled-artifact",
   nix |-> "toolchain-definition", core |-> "core-source",
   effectBoundary |-> "generated-effect-boundary",
   gleamBoundary |-> "generated-gleam-boundary",
   effectEvidence |-> "evidence-record", gleamEvidence |-> "evidence-record",
   qualification |-> "qualification-report", plan |-> "plan-report",
   artifact |-> "semantic-artifact", lock |-> "theory-lock", pkg |-> "theory-package"]

Generations == {"assemblyBoundary", "binary", "effectBoundary", "gleamBoundary"}

ShaOf(f, p) == IF p = "core" THEN {f.core}
               ELSE IF p = "nix" THEN {f.nix}
               ELSE IF p = "assemblyEntry" THEN {"entry"}
               ELSE IF p \in Generations THEN {published[p]} ELSE {}

OnSource == {<<"evidence", "effect-typescript">>, <<"evidence", "gleam-beam">>, <<"plan-report">>}
Named == OnSource \cup {<<"theory-lock">>, <<"assembly">>, <<"qualification">>,
                        <<"semantic-artifact">>}

Fits(f, x) ==
  /\ x.path \in DOMAIN RoleOf /\ x.role = RoleOf[x.path] /\ x.sha = ShaOf(f, x.path)
  /\ x.by \in Named
  /\ x.path = "core" => x.by \in OnSource
  /\ x.path \in {"lock", "pkg"} => x.by = <<"theory-lock">>
  /\ x.path \in {"nix", "assemblyEntry"} => x.by = <<"assembly">>

(* What a list of citations says of a closure.                             *)
LEMMA EvidenceCites ==
  ASSUME NEW w, NEW f, ClosureOf(w, f), NEW t \in Targets, NEW s, s = EvidenceCitations(Evidence(w, t))
  PROVE  /\ s \in Seq(Cited(s)) /\ \A x \in Cited(s) : Fits(f, x)
         /\ \E x \in Cited(s) : x.path = "core" /\ x.by = <<"evidence", t>>
  <1>1. PICK m, n : m = Source(w, t) /\ n = Generated(w, t)
    OBVIOUS
  <1>2. PICK e : e = Evidence(w, t) /\ e.target = t /\ e.materials[1] = m /\ e.materials[2] = n
    BY <1>1, EvidenceIs DEF Source, Generated
  <1>3. s = [i \in 1..2 |-> Citation(e.materials[i].path, e.materials[i].role,
                                     {e.materials[i].sha}, <<"evidence", e.target>>)]
    BY <1>2 DEF EvidenceCitations
  <1>4. PICK a, b : /\ a = Citation(m.path, m.role, {m.sha}, <<"evidence", t>>)
                    /\ b = Citation(n.path, n.role, {n.sha}, <<"evidence", t>>)
    OBVIOUS
  <1>5. s[1] = a /\ s[2] = b /\ Len(s) = 2 /\ DOMAIN s = 1..2
    <2>1. 1 \in 1..2 /\ 2 \in 1..2
      OBVIOUS
    <2>2. s[1] = a
      BY <1>2, <1>3, <1>4, <2>1
    <2>3. s[2] = b
      BY <1>2, <1>3, <1>4, <2>1
    <2> QED BY <1>3, <2>2, <2>3
  <1>6. \A i \in 1..2 : i = 1 \/ i = 2
    OBVIOUS
  <1>7. Cited(s) = {a, b} /\ s \in Seq(Cited(s))
    <2>1. Cited(s) = {a, b}
      BY <1>5, <1>6 DEF Cited
    <2>2. s = <<a, b>>
      BY <1>3, <1>5, <1>6
    <2> QED BY <2>1, <2>2
  <1>8. Fits(f, a) /\ a.path = "core" /\ a.by = <<"evidence", t>>
    <2>1. m.path = "core" /\ m.role = "core-source" /\ m.sha = f.core
      BY <1>1 DEF Source, ClosureOf
    <2>2. a.path = "core" /\ a.role = "core-source" /\ a.sha = {f.core} /\ a.by = <<"evidence", t>>
      BY <1>4, <2>1 DEF Citation
    <2>3. a.by \in OnSource
      BY <2>2 DEF OnSource, Targets
    <2> QED BY <2>2, <2>3 DEF Fits, RoleOf, ShaOf, Named
  <1>9. Fits(f, b)
    <2>1. n.path = BoundaryPath(t) /\ n.role = BoundaryRole(t) /\ n.sha = Boundary(t, f.core)
      BY <1>1 DEF Generated, ClosureOf
    <2>2. b.path = BoundaryPath(t) /\ b.role = BoundaryRole(t) /\ b.sha = {Boundary(t, f.core)}
          /\ b.by = <<"evidence", t>>
      BY <1>4, <2>1 DEF Citation
    <2>3. b.by \in OnSource
      BY <2>2 DEF OnSource, Targets
    <2>4. BoundaryPath(t) \in {"effectBoundary", "gleamBoundary"}
          /\ BoundaryRole(t) = RoleOf[BoundaryPath(t)]
          /\ Boundary(t, f.core) = published[BoundaryPath(t)]
      BY DEF Targets, BoundaryPath, BoundaryRole, RoleOf, ClosureOf
    <2> QED BY <2>2, <2>3, <2>4 DEF Fits, RoleOf, ShaOf, Generations, Named
  <1> QED BY <1>7, <1>8, <1>9

(* The plan cites what the chosen target's evidence does.                  *)
LEMMA PlanCites ==
  ASSUME NEW w, NEW f, ClosureOf(w, f), NEW s, s = PlanCitations(PlanReport(w))
  PROVE  /\ s \in Seq(Cited(s)) /\ \A x \in Cited(s) : Fits(f, x)
         /\ \E x \in Cited(s) : x.path = "core" /\ x.by = <<"plan-report">>
  <1>1. PICK t \in Targets : PlanReport(w).plans[1].materials = {Source(w, t), Generated(w, t)}
    BY SelectedMaterials DEF ClosureOf
  <1>2. PICK m, n : m = Source(w, t) /\ n = Generated(w, t)
    OBVIOUS
  <1>3. /\ m.path = "core" /\ m.role = "core-source" /\ m.sha = f.core
        /\ n.path = BoundaryPath(t) /\ n.role = BoundaryRole(t) /\ n.sha = Boundary(t, f.core)
    BY <1>2 DEF Source, Generated, ClosureOf
  <1>4. n.role # "core-source"
    BY <1>3 DEF BoundaryRole
  <1>5. /\ (CHOOSE x \in {m, n} : x.role = "core-source") = m
        /\ (CHOOSE x \in {m, n} : x.role # "core-source") = n
    BY <1>3, <1>4
  <1>6. PICK a, b : /\ a = Citation(m.path, m.role, {m.sha}, <<"plan-report">>)
                    /\ b = Citation(n.path, n.role, {n.sha}, <<"plan-report">>)
    OBVIOUS
  <1>7. PICK r : r = PlanReport(w) /\ r.tag = "Selected" /\ r.plans[1].materials = {m, n}
    BY <1>1, <1>2 DEF ClosureOf
  <1>8. s = <<a, b>>
    BY <1>5, <1>6, <1>7 DEF PlanCitations
  <1>9. Cited(s) = {a, b} /\ s \in Seq(Cited(s))
    <2>1. Len(s) = 2 /\ s[1] = a /\ s[2] = b
      BY <1>8
    <2>2. \A i \in 1..2 : i = 1 \/ i = 2
      OBVIOUS
    <2>3. Cited(s) = {a, b}
      BY <2>1, <2>2 DEF Cited
    <2> QED BY <1>8, <2>3
  <1>10. Fits(f, a) /\ a.path = "core" /\ a.by = <<"plan-report">>
    <2>1. a.path = "core" /\ a.role = "core-source" /\ a.sha = {f.core} /\ a.by = <<"plan-report">>
      BY <1>3, <1>6 DEF Citation
    <2>2. a.by \in OnSource
      BY <2>1 DEF OnSource
    <2> QED BY <2>1, <2>2 DEF Fits, RoleOf, ShaOf, Named
  <1>11. Fits(f, b)
    <2>1. b.path = BoundaryPath(t) /\ b.role = BoundaryRole(t) /\ b.sha = {Boundary(t, f.core)}
          /\ b.by = <<"plan-report">>
      BY <1>3, <1>6 DEF Citation
    <2>2. b.by \in OnSource
      BY <2>1 DEF OnSource
    <2>3. BoundaryPath(t) \in {"effectBoundary", "gleamBoundary"}
          /\ BoundaryRole(t) = RoleOf[BoundaryPath(t)]
          /\ Boundary(t, f.core) = published[BoundaryPath(t)]
      BY DEF Targets, BoundaryPath, BoundaryRole, RoleOf, ClosureOf
    <2> QED BY <2>1, <2>2, <2>3 DEF Fits, RoleOf, ShaOf, Generations, Named
  <1> QED BY <1>9, <1>10, <1>11

(* The assembly cites the boundary, its entry, the binary, the toolchain.   *)
LEMMA AssemblyCites ==
  ASSUME NEW w, NEW f, ClosureOf(w, f), NEW a, a = published["assembly"], NEW s,
         s = << Citation("assembly", "assembly-report", {}, <<"assembly">>),
                Citation("assemblyBoundary", "qualified-generated", {a.boundary}, <<"assembly">>),
                Citation("assemblyEntry", "assembled-entry", {"entry"}, <<"assembly">>),
                Citation("binary", "compiled-artifact", {a.binary}, <<"assembly">>),
                Citation("nix", "toolchain-definition", {a.nix}, <<"assembly">>) >>
  PROVE  /\ s \in Seq(Cited(s)) /\ \A x \in Cited(s) : Fits(f, x)
         /\ \E x \in Cited(s) : x.path = "assemblyEntry" /\ x.by = <<"assembly">>
         /\ \E x \in Cited(s) : x.path = "nix" /\ x.by = <<"assembly">>
  <1>1. /\ a.boundary = published["assemblyBoundary"] /\ a.binary = published["binary"]
        /\ a.nix = f.nix
    BY DEF ClosureOf, AssemblyOf
  <1>2. PICK b : b = <<"assembly">> /\ b \in Named
    BY DEF Named
  <1>3. PICK c, d, e, g, h :
          /\ c = Citation("assembly", "assembly-report", {}, b)
          /\ d = Citation("assemblyBoundary", "qualified-generated", {a.boundary}, b)
          /\ e = Citation("assemblyEntry", "assembled-entry", {"entry"}, b)
          /\ g = Citation("binary", "compiled-artifact", {a.binary}, b)
          /\ h = Citation("nix", "toolchain-definition", {a.nix}, b)
    OBVIOUS
  <1>4. s = <<c, d, e, g, h>>
    BY <1>2, <1>3
  <1>5. Cited(s) = {c, d, e, g, h}
    <2>1. Len(s) = 5 /\ s[1] = c /\ s[2] = d /\ s[3] = e /\ s[4] = g /\ s[5] = h
      BY <1>4
    <2>2. \A i \in 1..5 : i = 1 \/ i = 2 \/ i = 3 \/ i = 4 \/ i = 5
      OBVIOUS
    <2> QED BY <2>1, <2>2 DEF Cited
  <1>6. s \in Seq(Cited(s))
    BY <1>4, <1>5
  <1>7. Fits(f, c)
    BY <1>2, <1>3 DEF Citation, Fits, RoleOf, ShaOf, Generations
  <1>8. Fits(f, d)
    BY <1>1, <1>2, <1>3 DEF Citation, Fits, RoleOf, ShaOf, Generations
  <1>9. Fits(f, e) /\ e.path = "assemblyEntry" /\ e.by = b
    BY <1>2, <1>3 DEF Citation, Fits, RoleOf, ShaOf, Generations
  <1>10. Fits(f, g)
    BY <1>1, <1>2, <1>3 DEF Citation, Fits, RoleOf, ShaOf, Generations
  <1>11. Fits(f, h) /\ h.path = "nix" /\ h.by = b
    BY <1>1, <1>2, <1>3 DEF Citation, Fits, RoleOf, ShaOf, Generations
  <1> QED BY <1>2, <1>5, <1>6, <1>7, <1>8, <1>9, <1>10, <1>11

(* The records are cited by themselves, without a digest, the package by   *)
(* the lock.                                                               *)
LEMMA RecordsCite ==
  ASSUME NEW f, NEW s,
         s = << Citation("effectEvidence", "evidence-record", {}, <<"evidence", "effect-typescript">>),
                Citation("gleamEvidence", "evidence-record", {}, <<"evidence", "gleam-beam">>),
                Citation("qualification", "qualification-report", {}, <<"qualification">>),
                Citation("plan", "plan-report", {}, <<"plan-report">>),
                Citation("artifact", "semantic-artifact", {}, <<"semantic-artifact">>),
                Citation("lock", "theory-lock", {}, <<"theory-lock">>),
                Citation("pkg", "theory-package", {}, <<"theory-lock">>) >>
  PROVE  /\ s \in Seq(Cited(s)) /\ \A x \in Cited(s) : Fits(f, x)
         /\ \E x \in Cited(s) : x.path = "lock" /\ x.by = <<"theory-lock">>
  <1>1. PICK c, d, e, g, h, k, m :
          /\ c = Citation("effectEvidence", "evidence-record", {}, <<"evidence", "effect-typescript">>)
          /\ d = Citation("gleamEvidence", "evidence-record", {}, <<"evidence", "gleam-beam">>)
          /\ e = Citation("qualification", "qualification-report", {}, <<"qualification">>)
          /\ g = Citation("plan", "plan-report", {}, <<"plan-report">>)
          /\ h = Citation("artifact", "semantic-artifact", {}, <<"semantic-artifact">>)
          /\ k = Citation("lock", "theory-lock", {}, <<"theory-lock">>)
          /\ m = Citation("pkg", "theory-package", {}, <<"theory-lock">>)
    OBVIOUS
  <1>2. s = <<c, d, e, g, h, k, m>>
    BY <1>1
  <1>3. Cited(s) = {c, d, e, g, h, k, m}
    <2>1. Len(s) = 7 /\ s[1] = c /\ s[2] = d /\ s[3] = e /\ s[4] = g /\ s[5] = h /\ s[6] = k
          /\ s[7] = m
      BY <1>2
    <2>2. \A i \in 1..7 : i = 1 \/ i = 2 \/ i = 3 \/ i = 4 \/ i = 5 \/ i = 6 \/ i = 7
      OBVIOUS
    <2> QED BY <2>1, <2>2 DEF Cited
  <1>4. s \in Seq(Cited(s))
    BY <1>2, <1>3
  <1>5. Fits(f, c) /\ Fits(f, d)
    BY <1>1 DEF Citation, Fits, RoleOf, ShaOf, Generations, Named, OnSource
  <1>6. Fits(f, e) /\ Fits(f, g)
    BY <1>1 DEF Citation, Fits, RoleOf, ShaOf, Generations, Named, OnSource
  <1>7. Fits(f, h) /\ Fits(f, m)
    BY <1>1 DEF Citation, Fits, RoleOf, ShaOf, Generations, Named, OnSource
  <1>8. Fits(f, k) /\ k.path = "lock" /\ k.by = <<"theory-lock">>
    BY <1>1 DEF Citation, Fits, RoleOf, ShaOf, Generations, Named, OnSource
  <1> QED BY <1>3, <1>4, <1>5, <1>6, <1>7, <1>8

(* Two lists that fit make one that does.                                  *)
LEMMA FitBoth ==
  ASSUME NEW f, NEW s, NEW t, s \in Seq(Cited(s)), t \in Seq(Cited(t)),
         \A x \in Cited(s) : Fits(f, x), \A x \in Cited(t) : Fits(f, x)
  PROVE  /\ (s \o t) \in Seq(Cited(s \o t)) /\ \A x \in Cited(s \o t) : Fits(f, x)
         /\ Cited(s) \subseteq Cited(s \o t) /\ Cited(t) \subseteq Cited(s \o t)
  <1>1. PICK S : S = Cited(s) \cup Cited(t)
    OBVIOUS
  <1>2. s \in Seq(S) /\ t \in Seq(S)
    BY <1>1
  <1>3. s \o t \in Seq(S) /\ Cited(s \o t) = S
    BY <1>1, <1>2, CitedBoth
  <1> QED BY <1>1, <1>3

(* All citations of a closure fit it, and these are among them.            *)
LEMMA CitationsFit ==
  ASSUME NEW w, NEW f, ClosureOf(w, f), NEW s, s = Citations
  PROVE  /\ s \in Seq(Cited(s)) /\ \A x \in Cited(s) : Fits(f, x)
         /\ \A b \in OnSource : \E x \in Cited(s) : x.path = "core" /\ x.by = b
         /\ \E x \in Cited(s) : x.path = "lock" /\ x.by = <<"theory-lock">>
         /\ \E x \in Cited(s) : x.path = "nix" /\ x.by = <<"assembly">>
         /\ \E x \in Cited(s) : x.path = "assemblyEntry" /\ x.by = <<"assembly">>
  <1>1. PICK a : a = published["assembly"]
    OBVIOUS
  <1>2. PICK t \in Targets, u \in Targets : t = "effect-typescript" /\ u = "gleam-beam"
    BY DEF Targets
  <1>3. PICK q : q = published["qualification"] /\ q[1] = Evidence(w, t) /\ q[2] = Evidence(w, u)
    BY <1>2, RecordsAre DEF ClosureOf
  <1>4. PICK c :
          c = << Citation("assembly", "assembly-report", {}, <<"assembly">>),
                 Citation("assemblyBoundary", "qualified-generated", {a.boundary}, <<"assembly">>),
                 Citation("assemblyEntry", "assembled-entry", {"entry"}, <<"assembly">>),
                 Citation("binary", "compiled-artifact", {a.binary}, <<"assembly">>),
                 Citation("nix", "toolchain-definition", {a.nix}, <<"assembly">>) >>
    OBVIOUS
  <1>5. PICK d, e, g : /\ d = EvidenceCitations(Evidence(w, t))
                       /\ e = EvidenceCitations(Evidence(w, u))
                       /\ g = PlanCitations(PlanReport(w))
    OBVIOUS
  <1>6. PICK h :
          h = << Citation("effectEvidence", "evidence-record", {}, <<"evidence", "effect-typescript">>),
                 Citation("gleamEvidence", "evidence-record", {}, <<"evidence", "gleam-beam">>),
                 Citation("qualification", "qualification-report", {}, <<"qualification">>),
                 Citation("plan", "plan-report", {}, <<"plan-report">>),
                 Citation("artifact", "semantic-artifact", {}, <<"semantic-artifact">>),
                 Citation("lock", "theory-lock", {}, <<"theory-lock">>),
                 Citation("pkg", "theory-package", {}, <<"theory-lock">>) >>
    OBVIOUS
  <1>7. s = (((c \o d) \o e) \o g) \o h
    <2>1. published["plan"] = PlanReport(w)
      BY DEF ClosureOf
    <2>2. EvidenceCitations(q[1]) = d /\ EvidenceCitations(q[2]) = e
          /\ PlanCitations(published["plan"]) = g
      BY <1>3, <1>5, <2>1
    <2> QED BY <1>1, <1>3, <1>4, <1>6, <2>2 DEF Citations
  <1>8. /\ c \in Seq(Cited(c)) /\ \A x \in Cited(c) : Fits(f, x)
        /\ \E x \in Cited(c) : x.path = "assemblyEntry" /\ x.by = <<"assembly">>
        /\ \E x \in Cited(c) : x.path = "nix" /\ x.by = <<"assembly">>
    BY <1>1, <1>4, AssemblyCites
  <1>9. /\ d \in Seq(Cited(d)) /\ \A x \in Cited(d) : Fits(f, x)
        /\ \E x \in Cited(d) : x.path = "core" /\ x.by = <<"evidence", t>>
    BY <1>5, EvidenceCites
  <1>10. /\ e \in Seq(Cited(e)) /\ \A x \in Cited(e) : Fits(f, x)
         /\ \E x \in Cited(e) : x.path = "core" /\ x.by = <<"evidence", u>>
    BY <1>5, EvidenceCites
  <1>11. /\ g \in Seq(Cited(g)) /\ \A x \in Cited(g) : Fits(f, x)
         /\ \E x \in Cited(g) : x.path = "core" /\ x.by = <<"plan-report">>
    BY <1>5, PlanCites
  <1>12. /\ h \in Seq(Cited(h)) /\ \A x \in Cited(h) : Fits(f, x)
         /\ \E x \in Cited(h) : x.path = "lock" /\ x.by = <<"theory-lock">>
    BY <1>6, RecordsCite
  <1>13. PICK i : /\ i = c \o d /\ i \in Seq(Cited(i)) /\ \A x \in Cited(i) : Fits(f, x)
                  /\ Cited(c) \subseteq Cited(i) /\ Cited(d) \subseteq Cited(i)
    BY <1>8, <1>9, FitBoth
  <1>14. PICK j : /\ j = i \o e /\ j \in Seq(Cited(j)) /\ \A x \in Cited(j) : Fits(f, x)
                  /\ Cited(i) \subseteq Cited(j) /\ Cited(e) \subseteq Cited(j)
    BY <1>10, <1>13, FitBoth
  <1>15. PICK k : /\ k = j \o g /\ k \in Seq(Cited(k)) /\ \A x \in Cited(k) : Fits(f, x)
                  /\ Cited(j) \subseteq Cited(k) /\ Cited(g) \subseteq Cited(k)
    BY <1>11, <1>14, FitBoth
  <1>16. /\ s = k \o h /\ s \in Seq(Cited(s)) /\ \A x \in Cited(s) : Fits(f, x)
         /\ Cited(k) \subseteq Cited(s) /\ Cited(h) \subseteq Cited(s)
    <2>1. s = k \o h
      BY <1>7, <1>13, <1>14, <1>15
    <2> QED BY <1>12, <1>15, <2>1, FitBoth
  <1>17. \A b \in OnSource : \E x \in Cited(s) : x.path = "core" /\ x.by = b
    BY <1>2, <1>9, <1>10, <1>11, <1>13, <1>14, <1>15, <1>16 DEF OnSource
  <1>18. /\ \E x \in Cited(s) : x.path = "nix" /\ x.by = <<"assembly">>
         /\ \E x \in Cited(s) : x.path = "assemblyEntry" /\ x.by = <<"assembly">>
    BY <1>8, <1>13, <1>14, <1>15, <1>16
  <1>19. \E x \in Cited(s) : x.path = "lock" /\ x.by = <<"theory-lock">>
    BY <1>12, <1>16
  <1> QED BY <1>16, <1>17, <1>18, <1>19

-----------------------------------------------------------------------------
(* Which materials of a closure of f the comparison finds changed.         *)
Changed(f, p) ==
  \/ p = "core" /\ MeaningOf[f.core] # MeaningOf[files.core]
  \/ p \in {"lock", "pkg"} /\ DigestOf[f.pkg] # DigestOf[files.pkg]
  \/ p = "nix" /\ f.nix # files.nix
  \/ p = "assemblyEntry" /\ published["assemblyEntry"] # "entry"

(* Each material's verdict follows from its role and its digest.           *)
LEMMA VerdictIs ==
  ASSUME NEW w, NEW f, ClosureOf(w, f), seen.core = files.core, seen.nix = files.nix,
         NEW p \in DOMAIN RoleOf, NEW m, m.role = RoleOf[p],
         m.class = MaterialClassForRole(m.role), m.sha = ShaOf(f, p),
         NEW packageSame, packageSame = (DigestOf[files.pkg] = published["assembly"].package),
         NEW coreSame, coreSame = (MeaningOf[files.core] = published["artifact"]),
         NEW lockSame, lockSame = (DigestOf[files.pkg] = published["lock"]),
         NEW status, status = Status(m, Current(p)),
         NEW verdict,
         verdict = ResolveDrift(m, ClassifyChange(m, status, packageSame, coreSame),
                                lockSame, packageSame)
  PROVE  verdict = "changed" <=> Changed(f, p)
  <1>1. /\ published["assembly"].package = DigestOf[f.pkg]
        /\ published["artifact"] = MeaningOf[f.core] /\ published["lock"] = DigestOf[f.pkg]
    BY DEF ClosureOf, AssemblyOf
  <1>3. CASE p \in {"assembly", "effectEvidence", "gleamEvidence", "qualification", "plan", "artifact"}
    <2>1. m.sha = {} /\ m.role \notin {"theory-lock", "theory-package"}
      BY <1>3 DEF ShaOf, RoleOf, Generations
    <2>2. status = "deferred"
      BY <2>1 DEF Status
    <2>3. verdict = "deferred"
      BY <2>1, <2>2 DEF ClassifyChange, ResolveDrift
    <2> QED BY <1>3, <2>3 DEF Changed
  <1>4. CASE p \in {"lock", "pkg"}
    <2>1. m.sha = {} /\ m.role = IF p = "lock" THEN "theory-lock" ELSE "theory-package"
      BY <1>4 DEF ShaOf, RoleOf, Generations
    <2>2. status = "deferred"
      BY <2>1 DEF Status
    <2>3. ClassifyChange(m, status, packageSame, coreSame) = "deferred"
      BY <2>2 DEF ClassifyChange
    <2>4. verdict = "changed" <=> DigestOf[f.pkg] # DigestOf[files.pkg]
      BY <1>1, <1>4, <2>1, <2>3 DEF ResolveDrift
    <2> QED BY <1>4, <2>4 DEF Changed
  <1>5. CASE p \in Generations
    <2>1. m.sha = {published[p]} /\ p \in Paths
      BY <1>5 DEF ShaOf, Generations, Paths
    <2>2. status = "unchanged"
      <3>1. Current(p) = published[p]
        <4>1. p # "core" /\ p # "nix"
          BY <1>5 DEF Generations
        <4> QED BY <2>1, <4>1 DEF Current
      <3>2. m.sha # {} /\ m.sha = {Current(p)}
        BY <2>1, <3>1
      <3> QED BY <3>2, Zenon DEF Status
    <2>3. verdict = "unchanged"
      BY <2>2 DEF ClassifyChange, ResolveDrift
    <2> QED BY <1>5, <2>3 DEF Changed, Generations
  <1>6. CASE p = "assemblyEntry"
    <2>1. m.sha = {"entry"} /\ p \in Paths /\ m.class = "opaque"
      BY <1>6 DEF ShaOf, Paths, RoleOf, MaterialClassForRole, Decoded, Derived
    <2>2. status = IF published["assemblyEntry"] = "entry" THEN "unchanged" ELSE "changed"
      BY <1>6, <2>1 DEF Status, Current
    <2>3. verdict = status
      BY <2>1, <2>2 DEF ClassifyChange, ResolveDrift
    <2> QED BY <1>6, <2>2, <2>3 DEF Changed
  <1>7. CASE p = "nix"
    <2>1. m.sha = {f.nix} /\ p \notin Paths /\ m.class = "opaque"
      BY <1>7 DEF ShaOf, Paths, RoleOf, MaterialClassForRole, Decoded, Derived
    <2>2. status = IF f.nix = files.nix THEN "unchanged" ELSE "changed"
      BY <1>7, <2>1 DEF Status, Current
    <2>3. verdict = status
      BY <2>1, <2>2 DEF ClassifyChange, ResolveDrift
    <2> QED BY <1>7, <2>2, <2>3 DEF Changed
  <1>8. CASE p = "core"
    <2>1. m.sha = {f.core} /\ p \notin Paths /\ m.class = "decoded" /\ m.role = "core-source"
      BY <1>8 DEF ShaOf, Paths, RoleOf, MaterialClassForRole, Decoded, Derived
    <2>2. status = IF f.core = files.core THEN "unchanged" ELSE "changed"
      BY <1>8, <2>1 DEF Status, Current
    <2>3. PICK c : c = ClassifyChange(m, status, packageSame, coreSame)
                   /\ c = IF f.core = files.core THEN "unchanged"
                          ELSE IF MeaningOf[files.core] = MeaningOf[f.core] THEN "cosmetic"
                          ELSE "changed"
      BY <1>1, <2>1, <2>2 DEF ClassifyChange
    <2>4. verdict = c
      BY <2>3 DEF ResolveDrift
    <2> QED BY <1>8, <2>3, <2>4 DEF Changed
  <1>9. \/ p \in {"assembly", "effectEvidence", "gleamEvidence", "qualification", "plan", "artifact"}
        \/ p \in {"lock", "pkg"} \/ p \in Generations \/ p \in {"assemblyEntry", "nix", "core"}
    BY DEF RoleOf, Generations
  <1> QED BY <1>3, <1>4, <1>5, <1>6, <1>7, <1>8, <1>9

(* The comparison of a closure retires what rests on what changed.         *)
LEMMA CompareRetires ==
  ASSUME PipelineInv, Consistent, seen.core = files.core, seen.nix = files.nix,
         NEW f, Closures(f),
         NEW ms, ms = CollectMaterials(Citations),
         NEW packageSame, packageSame = (DigestOf[files.pkg] = published["assembly"].package),
         NEW coreSame, coreSame = (MeaningOf[files.core] = published["artifact"]),
         NEW lockSame, lockSame = (DigestOf[files.pkg] = published["lock"]),
         NEW verdict,
         verdict = [p \in DOMAIN ms |->
           LET status == Status(ms[p], Current(p))
           IN ResolveDrift(ms[p], ClassifyChange(ms[p], status, packageSame, coreSame),
                           lockSame, packageSame)]
  PROVE  CloseRetirement(ms, verdict) = Resting(f)
  <1>1. PICK w : ClosureOf(w, f)
    BY ClosuresAreWork
  <1>2. PICK s : /\ s = Citations /\ s \in Seq(Cited(s)) /\ \A x \in Cited(s) : Fits(f, x)
                 /\ \A b \in OnSource : \E x \in Cited(s) : x.path = "core" /\ x.by = b
                 /\ \E x \in Cited(s) : x.path = "lock" /\ x.by = <<"theory-lock">>
                 /\ \E x \in Cited(s) : x.path = "nix" /\ x.by = <<"assembly">>
                 /\ \E x \in Cited(s) : x.path = "assemblyEntry" /\ x.by = <<"assembly">>
    BY <1>1, CitationsFit
  <1>3. DOMAIN ms = {x.path : x \in Cited(s)}
    BY <1>2, MaterialPaths
  <1>4. ASSUME NEW x \in Cited(s)
        PROVE  /\ x.path \in DOMAIN ms
               /\ ms[x.path].role = x.role /\ ms[x.path].sha = x.sha
               /\ ms[x.path].class = MaterialClassForRole(x.role)
               /\ ms[x.path].citedBy = {y.by : y \in {z \in Cited(s) : z.path = x.path}}
    <2>1. \A y \in Cited(s) : y.path = x.path => y.role = x.role /\ y.sha = x.sha
      BY <1>2 DEF Fits
    <2>2. PICK c, k : c = {y.by : y \in {z \in Cited(s) : z.path = x.path}}
                      /\ k = MaterialClassForRole(x.role)
      OBVIOUS
    <2>3. /\ x.path \in DOMAIN ms
          /\ ms[x.path] = [role |-> x.role, class |-> k, sha |-> x.sha, citedBy |-> c]
      BY <1>2, <2>1, <2>2, MaterialsAre
    <2>4. /\ ms[x.path].role = x.role /\ ms[x.path].sha = x.sha
          /\ ms[x.path].class = k /\ ms[x.path].citedBy = c
      BY <2>3
    <2> QED BY <2>2, <2>3, <2>4
  <1>5. ASSUME NEW x \in Cited(s) PROVE verdict[x.path] = "changed" <=> Changed(f, x.path)
    <2>1. PICK p, m : p = x.path /\ m = ms[p]
      OBVIOUS
    <2>2. /\ p \in DOMAIN ms /\ p \in DOMAIN RoleOf
          /\ m.role = RoleOf[p] /\ m.class = MaterialClassForRole(m.role) /\ m.sha = ShaOf(f, p)
      BY <1>2, <1>4, <2>1 DEF Fits
    <2>3. PICK status : status = Status(m, Current(p))
      OBVIOUS
    <2>4. verdict[p] = ResolveDrift(m, ClassifyChange(m, status, packageSame, coreSame),
                                    lockSame, packageSame)
      BY <2>1, <2>2, <2>3, Zenon
    <2>5. verdict[p] = "changed" <=> Changed(f, p)
      BY <1>1, <2>2, <2>3, <2>4, VerdictIs
    <2> QED BY <2>1, <2>5
  <1>6. DirectlyRetired(ms, verdict) = {x.by : x \in {y \in Cited(s) : Changed(f, y.path)}}
    <2>1. ASSUME NEW r \in DirectlyRetired(ms, verdict)
          PROVE  \E x \in Cited(s) : Changed(f, x.path) /\ r = x.by
      <3>1. PICK p \in DOMAIN ms : verdict[p] = "changed" /\ r \in ms[p].citedBy
        BY <2>1 DEF DirectlyRetired
      <3>2. PICK x \in Cited(s) : p = x.path
        BY <1>3, <3>1
      <3>3. ms[p].citedBy = {y.by : y \in {z \in Cited(s) : z.path = p}}
        BY <1>4, <3>2
      <3>4. Changed(f, p)
        BY <1>5, <3>1, <3>2
      <3> QED BY <3>1, <3>3, <3>4
    <2>2. ASSUME NEW x \in Cited(s), Changed(f, x.path)
          PROVE  x.by \in DirectlyRetired(ms, verdict)
      <3>1. verdict[x.path] = "changed" /\ x.path \in DOMAIN ms
        BY <1>4, <1>5, <2>2
      <3>2. ms[x.path].citedBy = {y.by : y \in {z \in Cited(s) : z.path = x.path}}
        BY <1>4
      <3>3. x.by \in ms[x.path].citedBy
        BY <3>2
      <3> QED BY <3>1, <3>3 DEF DirectlyRetired
    <2> QED BY <2>1, <2>2
  <1>7. DirectlyRetired(ms, verdict) = Resting(f)
    <2>1. ASSUME NEW x \in Cited(s), Changed(f, x.path) PROVE x.by \in Resting(f)
      <3>1. Fits(f, x)
        BY <1>2
      <3> QED BY <2>1, <3>1 DEF Fits, Changed, Resting, OnSource
    <2>2. ASSUME NEW r \in Resting(f)
          PROVE  \E x \in Cited(s) : Changed(f, x.path) /\ x.by = r
      <3>1. CASE r \in OnSource /\ MeaningOf[f.core] # MeaningOf[files.core]
        BY <1>2, <3>1 DEF Changed
      <3>2. CASE r = <<"theory-lock">> /\ DigestOf[f.pkg] # DigestOf[files.pkg]
        BY <1>2, <3>2 DEF Changed
      <3>3. CASE r = <<"assembly">> /\ f.nix # files.nix
        BY <1>2, <3>3 DEF Changed
      <3>4. CASE r = <<"assembly">> /\ published["assemblyEntry"] # "entry"
        BY <1>2, <3>4 DEF Changed
      <3> QED BY <2>2, <3>1, <3>2, <3>3, <3>4 DEF Resting, OnSource
    <2> QED BY <1>6, <2>1, <2>2
  <1>8. \A r \in DirectlyRetired(ms, verdict) : \A p \in DOMAIN ms : PathName(p) # RecordBodyPath(r)
    <2> SUFFICES ASSUME NEW r \in DirectlyRetired(ms, verdict), NEW p
                 PROVE  PathName(p) # RecordBodyPath(r)
      OBVIOUS
    <2>1. r \in Named
      BY <1>2, <1>6 DEF Fits
    <2>2. r[1] # "evidence-record" /\ r[1] # "path"
      BY <2>1 DEF Named, OnSource
    <2>3. RecordBodyPath(r) = r
      BY <2>2 DEF RecordBodyPath
    <2>4. PathName(p)[1] = "path"
      BY DEF PathName
    <2> QED BY <2>2, <2>3, <2>4
  <1>9. IsFiniteSet(Cites(ms))
    <2>1. Cites(ms) \subseteq Named
      <3> SUFFICES ASSUME NEW r \in Cites(ms) PROVE r \in Named
        OBVIOUS
      <3>1. PICK p \in DOMAIN ms : r \in ms[p].citedBy
        BY DEF Cites
      <3>2. PICK x \in Cited(s) : p = x.path
        BY <1>3
      <3>3. ms[p].citedBy = {y.by : y \in {z \in Cited(s) : z.path = p}}
        BY <1>4, <3>2
      <3> QED BY <1>2, <3>1, <3>3 DEF Fits
    <2>2. IsFiniteSet(Named)
      <3>1. PICK a, b, c, d, e, g, h :
              Named = {a} \cup {b} \cup {c} \cup {d} \cup {e} \cup {g} \cup {h}
        <4>1. Named = {<<"evidence", "effect-typescript">>} \cup {<<"evidence", "gleam-beam">>}
                      \cup {<<"plan-report">>} \cup {<<"theory-lock">>} \cup {<<"assembly">>}
                      \cup {<<"qualification">>} \cup {<<"semantic-artifact">>}
          BY DEF Named, OnSource
        <4> QED BY <4>1
      <3>2. \A x : IsFiniteSet({x})
        BY FS_Singleton
      <3> QED BY <3>1, <3>2, FS_Union
    <2> QED BY <2>1, <2>2, FS_Subset
  <1> QED BY <1>7, <1>8, <1>9, ClosureIsDirect

-----------------------------------------------------------------------------
(* What the audit has digested, if nobody has edited.                      *)
SeenOk ==
  /\ seen = [core |-> seen.core, nix |-> seen.nix]
  /\ calm => /\ Stage \in {"digestNix", "compare"} => seen.core = files.core
             /\ Stage = "compare" => seen.nix = files.nix

(* The retired records are those whose own material has changed: as        *)
(* ClosureIsDirect says, the transitive closure adds none.                 *)
RetiresTheResting ==
  cmd.name = "invalidate" /\ calm /\ Consistent
  /\ ((Idle /\ cmd.outcome = "ok" /\ retired = {}) \/ (At("package") /\ kept = <<>>)) =>
    \A f \in InputStates : Closures(f) => retired = Resting(f)

RetiringInv == PipelineInv /\ SeenOk /\ RetiresTheResting

(* Of a stage that neither digests, compares nor ends an invalidation.     *)
LEMMA ElsewhereKeeps ==
  ASSUME PipelineInv, SeenOk, NEW stage, At(stage), GoOn(<<>>), UNCHANGED seen,
         stage \notin {"digestCore", "digestNix", "compare", "survive", "republish"}
  PROVE  SeenOk' /\ RetiresTheResting'
  <1>1. PICK name, y : name = cmd.name /\ y = Stage'
    OBVIOUS
  <1>2. /\ Onward(name, stage, y) /\ name \in CommandNames /\ cmd'.name = name
        /\ (y = "done" <=> cmd'.todo = <<>>)
    BY <1>1, StageDone DEF PipelineInv
  <1>3. y \notin {"digestNix", "compare", "package"}
    BY <1>2, OnwardFrom
  <1>4. y = "done" => name # "invalidate"
    BY <1>2 DEF Onward, Links, Ends, Qualifies, Assembles, Audits
  <1>5. SeenOk'
    BY <1>1, <1>3 DEF SeenOk
  <1>6. ~At("package")'
    BY <1>1, <1>3 DEF At, Stage
  <1> QED BY <1>2, <1>4, <1>5, <1>6 DEF RetiresTheResting, Idle

(* The digests are of the files as they are.                               *)
LEMMA DigestsKeep ==
  ASSUME PipelineInv, SeenOk,
         DigestMaterial("digestCore", "core") \/ DigestMaterial("digestNix", "nix")
  PROVE  SeenOk' /\ RetiresTheResting'
  <1>1. PICK stage \in {"digestCore", "digestNix"} :
          /\ At(stage) /\ GoOn(<<>>) /\ UNCHANGED <<files, calm>>
          /\ seen' = [seen EXCEPT ![IF stage = "digestCore" THEN "core" ELSE "nix"] =
                        files[IF stage = "digestCore" THEN "core" ELSE "nix"]]
    BY DEF DigestMaterial, steady
  <1>2. PICK name, y : name = cmd.name /\ y = Stage'
    OBVIOUS
  <1>3. /\ Onward(name, stage, y) /\ name \in CommandNames /\ cmd'.name = name
        /\ Stage = stage /\ (y = "done" <=> cmd'.todo = <<>>)
    BY <1>1, <1>2, StageDone DEF PipelineInv
  <1>4. /\ stage = "digestCore" => y = "digestNix"
        /\ stage = "digestNix" => y \in {"summarize", "compare"}
    BY <1>3, OnwardThen
  <1>5. SeenOk'
    <2>1. CASE stage = "digestCore"
      <3>1. seen'.core = files.core /\ seen' = [core |-> seen'.core, nix |-> seen'.nix]
        BY <1>1, <2>1 DEF SeenOk
      <3> QED BY <1>1, <1>2, <1>4, <2>1, <3>1 DEF SeenOk
    <2>2. CASE stage = "digestNix"
      <3>1. /\ seen'.nix = files.nix /\ seen'.core = seen.core
            /\ seen' = [core |-> seen'.core, nix |-> seen'.nix]
        BY <1>1, <2>2 DEF SeenOk
      <3> QED BY <1>1, <1>2, <1>3, <1>4, <2>2, <3>1 DEF SeenOk
    <2> QED BY <2>1, <2>2
  <1>6. ~At("package")' /\ ~Idle'
    BY <1>1, <1>2, <1>3, <1>4 DEF At, Stage, Idle
  <1> QED BY <1>5, <1>6 DEF RetiresTheResting

(* What a closure was and what rests on it stay while nobody edits.        *)
LEMMA ClosuresStay ==
  ASSUME UNCHANGED <<files, demands, published, work>>
  PROVE  /\ \A f : Closures(f)' <=> Closures(f)
         /\ \A f : (Resting(f))' = Resting(f)
         /\ Consistent' <=> Consistent
  <1>1. ASSUME NEW f PROVE Closures(f)' <=> Closures(f)
    <2>1. PICK w : w = [CleanWork(f) EXCEPT !.observed = [t \in Targets |->
                         (CHOOSE e \in {published["qualification"][i] : i \in 1..2} :
                            e.target = t).observations]]
      OBVIOUS
    <2>2. w = ([CleanWork(f) EXCEPT !.observed = [t \in Targets |->
                 (CHOOSE e \in {published["qualification"][i] : i \in 1..2} :
                    e.target = t).observations]])'
      BY <2>1 DEF CleanWork
    <2>3. (EntriesOf("assemble", w))' = EntriesOf("assemble", w)
      BY DemandsStay
    <2>4. Closures(f) <=> \A p \in Paths \ {"assemblyEntry"} : published[p] = EntriesOf("assemble", w)[p]
      BY <2>1 DEF Closures
    <2>5. Closures(f)' <=> \A p \in Paths \ {"assemblyEntry"} :
                             published'[p] = (EntriesOf("assemble", w))'[p]
      BY <2>2 DEF Closures
    <2> QED BY <2>3, <2>4, <2>5
  <1>2. \A f : (Resting(f))' = Resting(f)
    BY DEF Resting
  <1>3. Consistent' <=> Consistent
    BY DEF Consistent
  <1> QED BY <1>1, <1>2, <1>3

(* The comparison retires what rests on what changed.                      *)
LEMMA CompareKeepsRetiring ==
  ASSUME PipelineInv, SeenOk, Compare PROVE SeenOk' /\ RetiresTheResting'
  <1>1. /\ At("compare") /\ UNCHANGED <<files, demands, calm, published, work, seen>>
        /\ GoOn(IF retired' = {} THEN <<>> ELSE Requalifying)
    BY DEF Compare, steady
  <1>2. Stage = "compare"
    BY <1>1 DEF At, Stage
  <1>3. ASSUME calm, Consistent, NEW f, Closures(f) PROVE retired' = Resting(f)
    <2>1. seen.core = files.core /\ seen.nix = files.nix
      BY <1>2, <1>3 DEF SeenOk
    <2>2. PICK ms, packageSame, coreSame, lockSame :
            /\ ms = CollectMaterials(Citations)
            /\ packageSame = (DigestOf[files.pkg] = published["assembly"].package)
            /\ coreSame = (MeaningOf[files.core] = published["artifact"])
            /\ lockSame = (DigestOf[files.pkg] = published["lock"])
      OBVIOUS
    <2>3. PICK verdict :
            verdict = [p \in DOMAIN ms |->
              LET status == Status(ms[p], Current(p))
              IN ResolveDrift(ms[p], ClassifyChange(ms[p], status, packageSame, coreSame),
                              lockSame, packageSame)]
      OBVIOUS
    <2>4. retired' = CloseRetirement(ms, verdict)
      BY <2>2, <2>3 DEF Compare
    <2> QED BY <1>3, <2>1, <2>2, <2>3, <2>4, CompareRetires
  <1>4. RetiresTheResting'
    BY <1>1, <1>3, ClosuresStay DEF RetiresTheResting
  <1>5. SeenOk'
    <2>1. Stage' \notin {"digestNix", "compare"}
      <3>1. PICK more : more = (IF retired' = {} THEN <<>> ELSE Requalifying) /\ GoOn(more)
        BY <1>1
      <3>2. Stage' \in {"done", "package"}
        BY <1>1, <3>1, Compared DEF PipelineInv
      <3> QED BY <3>2
    <2> QED BY <1>1, <2>1 DEF SeenOk
  <1> QED BY <1>4, <1>5

(* The first pipeline ends with its entries kept, the last publication     *)
(* with something retired.                                                 *)
LEMMA EndingsKeep ==
  ASSUME PipelineInv, SeenOk, Survive \/ Republish PROVE SeenOk' /\ RetiresTheResting'
  <1>1. PICK name, y : name = cmd.name /\ y = Stage'
    OBVIOUS
  <1>2. CASE Survive
    <2>1. /\ At("survive") /\ GoOn(<<>>) /\ UNCHANGED seen /\ kept' = <<EntriesOf("plan", work)>>
      BY <1>2 DEF Survive
    <2>2. Onward(name, "survive", y) /\ name \in CommandNames /\ (y = "done" <=> cmd'.todo = <<>>)
      BY <1>1, <2>1, StageDone DEF PipelineInv
    <2>3. y = "package"
      BY <2>2, OnwardThen
    <2>4. kept' # <<>> /\ ~Idle'
      BY <2>1, <2>2, <2>3 DEF Idle
    <2> QED BY <1>1, <2>1, <2>3, <2>4 DEF RetiresTheResting, SeenOk
  <1>3. CASE Republish
    <2>1. /\ At("republish") /\ GoOn(<<>>) /\ UNCHANGED <<seen, retired>>
      BY <1>3 DEF Republish
    <2>2. /\ Onward(name, "republish", y) /\ name \in CommandNames /\ cmd'.name = name
          /\ Stage = "republish"
      BY <1>1, <2>1, StageDone DEF PipelineInv
    <2>3. y = "done" /\ name = "invalidate"
      BY <2>2, OnwardThen
    <2>4. retired # {}
      BY <1>1, <2>2, <2>3 DEF PipelineInv, KeptOk
    <2>5. ~At("package")'
      BY <1>1, <2>3 DEF At, Stage
    <2> QED BY <1>1, <2>1, <2>3, <2>4, <2>5 DEF RetiresTheResting, SeenOk
  <1> QED BY <1>2, <1>3

(* Beginning, failing and editing retire nothing.                          *)
LEMMA OthersKeep ==
  ASSUME PipelineInv, SeenOk, RetiresTheResting,
         \/ \E name \in Commands : Begin(name)
         \/ Fail \/ Edit \/ UNCHANGED vars
  PROVE  SeenOk' /\ RetiresTheResting'
  <1>1. ASSUME NEW name \in Commands, Begin(name) PROVE SeenOk' /\ RetiresTheResting'
    <2>1. /\ cmd' = [name |-> name, todo |-> StagesOf(name), outcome |-> "running"]
          /\ seen' = [core |-> Unread, nix |-> Unread]
      BY <1>1 DEF Begin
    <2>2. PICK s : /\ s = StagesOf(name) /\ s # <<>>
                   /\ Head(s) = IF name \in {"audit", "invalidate"} THEN "inventory" ELSE "package"
      BY CommandsAssumption, StagesAreScripts
    <2>3. cmd'.name = name /\ cmd'.todo = s
      BY <2>1, <2>2
    <2>4. Stage' = IF name \in {"audit", "invalidate"} THEN "inventory" ELSE "package"
      BY <2>2, <2>3 DEF Stage
    <2>5. SeenOk'
      BY <2>1, <2>4 DEF SeenOk
    <2>6. name = "invalidate" => ~Idle' /\ ~At("package")'
      BY <2>2, <2>3 DEF Idle, At
    <2> QED BY <2>3, <2>5, <2>6 DEF RetiresTheResting
  <1>2. CASE Fail
    <2>1. cmd' = [cmd EXCEPT !.todo = <<>>, !.outcome = "failed"] /\ UNCHANGED seen
      BY <1>2 DEF Fail
    <2>2. PICK c \in Cmds : c = cmd
      BY DEF PipelineInv, Typed
    <2>3. cmd'.todo = <<>> /\ cmd'.outcome = "failed"
      BY <2>1, <2>2 DEF Cmds
    <2>4. Stage' = "done" /\ ~At("package")'
      BY <2>3 DEF Stage, At
    <2> QED BY <2>1, <2>3, <2>4 DEF RetiresTheResting, SeenOk
  <1>3. CASE Edit
    <2>1. calm' = FALSE /\ UNCHANGED seen
      BY <1>3 DEF Edit
    <2> QED BY <2>1 DEF RetiresTheResting, SeenOk
  <1>4. CASE UNCHANGED vars
    <2>1. UNCHANGED <<files, demands, published, cmd, work, kept, seen, retired, calm>>
      BY <1>4 DEF vars
    <2>2. SeenOk'
      BY <2>1 DEF SeenOk, Stage
    <2>3. RetiresTheResting'
      BY <2>1, ClosuresStay DEF RetiresTheResting, Idle, At
    <2> QED BY <2>2, <2>3
  <1> QED BY <1>1, <1>2, <1>3, <1>4

(* Of a closure built from some inputs, an undisturbed invalidation        *)
(* retires every record whose own material has changed since, and none     *)
(* that depends on nothing changed.                                        *)
THEOREM InvalidationsRetireOnlyTheStale == Spec => []RetiresOnlyTheStale
  <1>1. Init => RetiringInv
    <2> SUFFICES ASSUME Init PROVE RetiringInv
      OBVIOUS
    <2>1. cmd.name = "none" /\ Stage = "done" /\ seen = [core |-> Unread, nix |-> Unread]
      BY DEF Init, Stage
    <2> QED BY <2>1, InitPipelineInv DEF RetiringInv, SeenOk, RetiresTheResting
  <1>2. RetiringInv /\ [Next]_vars => RetiringInv'
    <2> SUFFICES ASSUME RetiringInv, [Next]_vars PROVE SeenOk' /\ RetiresTheResting'
      BY NextPipelineInv DEF RetiringInv
    <2> USE DEF RetiringInv
    <2>1. CASE \/ \E name \in Commands : Begin(name)
               \/ Fail \/ Edit \/ UNCHANGED vars
      BY <2>1, OthersKeep
    <2>2. CASE DigestMaterial("digestCore", "core") \/ DigestMaterial("digestNix", "nix")
      BY <2>2, DigestsKeep
    <2>3. CASE Compare
      BY <2>3, CompareKeepsRetiring
    <2>4. CASE Survive \/ Republish
      BY <2>4, EndingsKeep
    <2>5. CASE ResolvePackage \/ LoadSources \/ WriteLock \/ WriteArtifact \/ CheckManifest
      <3>1. PICK stage \in {"package", "core", "writeLock", "writeArtifact", "manifest"} :
              At(stage) /\ GoOn(<<>>) /\ UNCHANGED seen
        BY <2>5 DEF ResolvePackage, LoadSources, WriteLock, WriteArtifact, CheckManifest, Computes
      <3> QED BY <3>1, ElsewhereKeeps
    <2>6. CASE \/ Probe("probeEffect", "effect-typescript") \/ Probe("probeGleam", "gleam-beam")
               \/ Cite("citeEffect", "effect-typescript") \/ Cite("citeGleam", "gleam-beam")
      <3>1. PICK stage \in {"probeEffect", "probeGleam", "citeEffect", "citeGleam"} :
              At(stage) /\ GoOn(<<>>) /\ UNCHANGED seen
        BY <2>6 DEF Probe, Cite, Computes
      <3> QED BY <3>1, ElsewhereKeeps
    <2>7. CASE Qualify \/ Plan \/ ReadToolchain \/ Build \/ Execute \/ Publish
      <3>1. PICK stage \in {"qualify", "plan", "toolchain", "build", "execute", "publish"} :
              At(stage) /\ GoOn(<<>>) /\ UNCHANGED seen
        BY <2>7 DEF Qualify, Plan, ReadToolchain, Build, Execute, Publish, Computes
      <3> QED BY <3>1, ElsewhereKeeps
    <2>8. CASE Inventory \/ Summarize \/ CheckParity
      <3>1. PICK stage \in {"inventory", "summarize", "parity"} :
              At(stage) /\ GoOn(<<>>) /\ UNCHANGED seen
        BY <2>8 DEF Inventory, Summarize, CheckParity, Computes
      <3> QED BY <3>1, ElsewhereKeeps
    <2> QED BY <2>1, <2>2, <2>3, <2>4, <2>5, <2>6, <2>7, <2>8 DEF Next
  <1>3. RetiringInv => RetiresOnlyTheStale
    BY DEF RetiringInv, RetiresTheResting, RetiresOnlyTheStale, Retiring, StaleBy
  <1> QED BY <1>1, <1>2, <1>3, PTL DEF Spec
=============================================================================
