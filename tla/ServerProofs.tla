----------------------------- MODULE ServerProofs -----------------------------
(***************************************************************************)
(* Proofs about Server: an update that gets to the controller finds the    *)
(* network complete, and the masquerading chain holds the documented rules *)
(* in order; a running network agent is known; an exit code comes after    *)
(* all output; the types of all of its state.                              *)
(***************************************************************************)
EXTENDS Server, FiniteSetTheorems, SequenceTheorems, TLAPS

-------------------------------------------------------------------------------
(* Short sequences.                                                        *)

LEMMA Members ==
    ASSUME NEW r, NEW a, NEW b, NEW c, r # a, r # b, r # c
    PROVE  /\ r \notin ToSet(<<>>)
           /\ r \notin ToSet(<<a>>)
           /\ r \notin ToSet(<<a, b>>)
           /\ r \notin ToSet(<<a, b, c>>)
  BY DEF ToSet

LEMMA AppendsIn ==
    ASSUME NEW S, NEW r \in S, NEW a \in S, NEW b \in S, NEW c \in S
    PROVE  /\ Append(<<>>, r) = <<r>>
           /\ Append(<<a>>, r) = <<a, r>>
           /\ Append(<<a, b>>, r) = <<a, b, r>>
           /\ Append(<<a, b, c>>, r) = <<a, b, c, r>>
<1>1. Append(<<>>, r) = <<r>>
  OBVIOUS
<1>2. /\ <<a>> \in Seq(S) /\ <<a, b>> \in Seq(S) /\ <<a, b, c>> \in Seq(S)
      /\ <<a, r>> \in Seq(S) /\ <<a, b, r>> \in Seq(S) /\ <<a, b, c, r>> \in Seq(S)
  OBVIOUS
<1>3. Append(<<a>>, r) = <<a, r>>
  <2>1. Append(<<a>>, r) \in Seq(S) /\ Len(Append(<<a>>, r)) = 2
    BY <1>2
  <2>2. \A i \in 1 .. 2 : Append(<<a>>, r)[i] = <<a, r>>[i]
    BY <1>2, <2>1, AppendProperties
  <2>3. Len(<<a, r>>) = 2
    OBVIOUS
  <2>4. QED BY <1>2, <2>1, <2>2, <2>3, SeqEqual
<1>4. Append(<<a, b>>, r) = <<a, b, r>>
  <2>1. Append(<<a, b>>, r) \in Seq(S) /\ Len(Append(<<a, b>>, r)) = 3
    BY <1>2
  <2>2. \A i \in 1 .. 3 : Append(<<a, b>>, r)[i] = <<a, b, r>>[i]
    BY <1>2, <2>1, AppendProperties
  <2>3. Len(<<a, b, r>>) = 3
    OBVIOUS
  <2>4. QED BY <1>2, <2>1, <2>2, <2>3, SeqEqual
<1>5. Append(<<a, b, c>>, r) = <<a, b, c, r>>
  <2>1. Append(<<a, b, c>>, r) \in Seq(S) /\ Len(Append(<<a, b, c>>, r)) = 4
    BY <1>2
  <2>2. \A i \in 1 .. 4 : Append(<<a, b, c>>, r)[i] = <<a, b, c, r>>[i]
    BY <1>2, <2>1, AppendProperties
  <2>3. Len(<<a, b, c, r>>) = 4
    OBVIOUS
  <2>4. QED BY <1>2, <2>1, <2>2, <2>3, SeqEqual
<1>6. QED BY <1>1, <1>3, <1>4, <1>5, Zenon

LEMMA Appends ==
    ASSUME NEW r, NEW a, NEW b, NEW c
    PROVE  /\ Append(<<>>, r) = <<r>>
           /\ Append(<<a>>, r) = <<a, r>>
           /\ Append(<<a, b>>, r) = <<a, b, r>>
           /\ Append(<<a, b, c>>, r) = <<a, b, c, r>>
<1> DEFINE S == {a, b, c, r}
<1>1. a \in S /\ b \in S /\ c \in S /\ r \in S
  OBVIOUS
<1> HIDE DEF S
<1>2. Append(<<>>, r) = <<r>> /\ Append(<<a>>, r) = <<a, r>>
  BY <1>1, AppendsIn, ZenonT(30)
<1>3. Append(<<a, b>>, r) = <<a, b, r>>
  BY <1>1, AppendsIn, ZenonT(30)
<1>4. Append(<<a, b, c>>, r) = <<a, b, c, r>>
  BY <1>1, AppendsIn, ZenonT(30)
<1>5. QED BY <1>2, <1>3, <1>4, Zenon

LEMMA Concatenated ==
    ASSUME NEW a, NEW b1, NEW b2, NEW b3, NEW b4, NEW c1, NEW c2, NEW c3, NEW c4
    PROVE  <<a>> \o <<b1, b2, b3, b4>> \o <<c1, c2, c3, c4>>
             = <<a, b1, b2, b3, b4, c1, c2, c3, c4>>
<1> DEFINE S == {a, b1, b2, b3, b4, c1, c2, c3, c4}
           head == <<a>>
           rest == <<b1, b2, b3, b4>>
           first == <<a, b1, b2, b3, b4>>
           last == <<c1, c2, c3, c4>>
           all == <<a, b1, b2, b3, b4, c1, c2, c3, c4>>
<1>1. /\ a \in S /\ b1 \in S /\ b2 \in S /\ b3 \in S /\ b4 \in S
      /\ c1 \in S /\ c2 \in S /\ c3 \in S /\ c4 \in S
  OBVIOUS
<1> HIDE DEF S
<1>2. /\ head \in Seq(S) /\ rest \in Seq(S) /\ first \in Seq(S) /\ last \in Seq(S)
      /\ all \in Seq(S)
  BY <1>1
<1>3. head \o rest = first
  <2>1. Len(head \o rest) = 5 /\ Len(first) = 5 /\ head \o rest \in Seq(S)
    BY <1>2, ConcatProperties
  <2>2. \A i \in 1 .. 5 : (head \o rest)[i] = first[i]
    BY <1>2, ConcatProperties
  <2>3. QED BY <1>2, <2>1, <2>2, SeqEqual, ZenonT(60)
<1>4. first \o last = all
  <2>1. Len(first \o last) = 9 /\ Len(all) = 9 /\ first \o last \in Seq(S)
    BY <1>2, ConcatProperties
  <2>2. \A i \in 1 .. 9 : (first \o last)[i] = all[i]
    BY <1>2, ConcatProperties
  <2>3. QED BY <1>2, <2>1, <2>2, SeqEqual, ZenonT(60)
<1>5. QED BY <1>3, <1>4

LEMMA Ensures ==
    ASSUME NEW a, NEW b, NEW c, NEW d, NEW s, s = <<a, b, c, d>>
    PROVE  [i \in DOMAIN s |-> [op |-> "ensure", rule |-> s[i]]]
             = <<[op |-> "ensure", rule |-> a], [op |-> "ensure", rule |-> b],
                 [op |-> "ensure", rule |-> c], [op |-> "ensure", rule |-> d]>>
  OBVIOUS

LEMMA Firsts ==
    ASSUME NEW x, NEW y, NEW z, NEW u, NEW v, NEW w, x # u
    PROVE  <<x, y, z>> # <<u, v, w>>
  OBVIOUS

\* The rules are the documented ones, and no two are the same.
LEMMA RulesDiffer ==
    ASSUME NEW ip
    PROVE  \E a, b, c, d :
             /\ MasqRules(ip) = <<a, b, c, d>>
             /\ a # b /\ a # c /\ a # d /\ b # c /\ b # d /\ c # d
<1> DEFINE a == <<"other interface", "", "return">>
           b == <<"not from", ip, "return">>
           c == <<"to", "private", "return">>
           d == <<"", "", "masquerade">>
<1>1. MasqRules(ip) = <<a, b, c, d>>
  BY DEF MasqRules, Rule
<1>2. a # b /\ a # c /\ a # d /\ b # c /\ b # d /\ c # d
  BY Firsts, Zenon
<1>3. QED BY <1>1, <1>2, Zenon

LEMMA NineSteps ==
    ASSUME NEW ip, ip # NoIP,
           NEW a, NEW b, NEW c, NEW d, MasqRules(ip) = <<a, b, c, d>>
    PROVE  /\ Len(Steps(ip)) = 9
           /\ Steps(ip) = <<Step("flush"),
                [op |-> "ensure", rule |-> a], [op |-> "ensure", rule |-> b],
                [op |-> "ensure", rule |-> c], [op |-> "ensure", rule |-> d],
                Step("create"), Step("link"), Step("move"), Step("configure")>>
<1> DEFINE Ensure(x) == [op |-> "ensure", rule |-> x]
<1>1. [i \in DOMAIN MasqRules(ip) |-> [op |-> "ensure", rule |-> MasqRules(ip)[i]]]
        = <<Ensure(a), Ensure(b), Ensure(c), Ensure(d)>>
  BY Ensures
<1>2. Steps(ip) = <<Step("flush")>> \o <<Ensure(a), Ensure(b), Ensure(c), Ensure(d)>>
                    \o <<Step("create"), Step("link"), Step("move"), Step("configure")>>
  BY <1>1 DEF Steps
<1>3. Steps(ip) = <<Step("flush"), Ensure(a), Ensure(b), Ensure(c), Ensure(d),
                    Step("create"), Step("link"), Step("move"), Step("configure")>>
  BY <1>2, Concatenated
<1>4. QED BY <1>3

\* The steps of a set-up, each in its place.
LEMMA StepsInOrder ==
    ASSUME NEW ip, ip # NoIP,
           NEW a, NEW b, NEW c, NEW d, MasqRules(ip) = <<a, b, c, d>>
    PROVE  LET s == Steps(ip)
           IN  /\ s[1].op = "flush"
               /\ s[2] = [op |-> "ensure", rule |-> a]
               /\ s[3] = [op |-> "ensure", rule |-> b]
               /\ s[4] = [op |-> "ensure", rule |-> c]
               /\ s[5] = [op |-> "ensure", rule |-> d]
               /\ s[6].op = "create" /\ s[7].op = "link"
               /\ s[8].op = "move" /\ s[9].op = "configure"
  BY NineSteps DEF Step

-------------------------------------------------------------------------------
(* The invariant.                                                          *)

HandlerPCs == {"idle", "check", "setup", "primary", "secondary", "address", "agent",
               "start", "record", "update"}

NetTypes ==
    /\ hpc \in [Handlers -> HandlerPCs]
    /\ asked \in [Handlers -> Parameters \cup {NoParameters}]
    /\ stepOf \in [Handlers -> 1 .. 9]
    /\ \A h \in Handlers : hpc[h] # "setup" \/ asked[h].ip = NoIP => stepOf[h] = 1

\* What the steps before the k-th have done for the address ip.
Progress(ip, k) ==
    LET r == MasqRules(ip) IN
    /\ k = 2 => chain = <<>>
    /\ k = 3 => chain = <<r[1]>>
    /\ k = 4 => chain = <<r[1], r[2]>>
    /\ k = 5 => chain = <<r[1], r[2], r[3]>>
    /\ k \in 6 .. 9 => chain = r
    /\ k = 8 => veth = "host"
    /\ k = 9 => veth = "pod"

\* What all of them have done.
SetUpFor(ip) == ip # NoIP => veth = "pod" /\ routed /\ chain = MasqRules(ip)

Untouched == primaryIP = NoIP /\ secondaryIP = NoIP /\ ~netNS

Complete ==
    /\ primaryIP = MainIP
    /\ secondaryIP = OwnIP(configured)
    /\ podIP = IF configured.host THEN primaryIP ELSE secondaryIP
    /\ netNS <=> ~configured.host /\ configured.ip # NoIP
    /\ SetUpFor(configured.ip)

Past(h) == hpc[h] \in {"agent", "start", "record", "update"}

\* What a handler in the middle of the set-up may count on.
Midway(h) ==
    /\ hpc[h] = "setup" =>
         Untouched /\ (asked[h].ip # NoIP => Progress(asked[h].ip, stepOf[h]))
    /\ hpc[h] = "primary" => Untouched /\ SetUpFor(asked[h].ip)
    /\ hpc[h] \in {"secondary", "address"} =>
         /\ primaryIP = MainIP /\ ~netNS /\ configured = asked[h]
         /\ SetUpFor(asked[h].ip)
    /\ hpc[h] = "address" => secondaryIP = OwnIP(asked[h])

NetInv ==
    ~raced =>
        /\ \A g, h \in Handlers : SettingUp(g) /\ SettingUp(h) => g = h
        /\ \A h \in Handlers : Midway(h)
        /\ (\A h \in Handlers : ~SettingUp(h)) => Untouched \/ Complete
        /\ \A h \in Handlers : Past(h) => Complete /\ \A g \in Handlers : ~SettingUp(g)

\* The k-th step of a set-up does its part.
LEMMA StepProgresses ==
    ASSUME NEW ip, ip # NoIP, NEW k \in 1 .. 9, Progress(ip, k),
           EnsurePodMasq(Steps(ip)[k]), CreateVeth(Steps(ip)[k])
    PROVE  /\ k < 9 => Progress(ip, k + 1)'
           /\ k = 9 => SetUpFor(ip)'
<1> DEFINE s == Steps(ip)
           r == MasqRules(ip)
<1>1. PICK a, b, c, d : /\ r = <<a, b, c, d>>
                        /\ a # b /\ a # c /\ a # d /\ b # c /\ b # d /\ c # d
  BY RulesDiffer
<1>2. /\ s[1].op = "flush"
      /\ s[2] = [op |-> "ensure", rule |-> a] /\ s[3] = [op |-> "ensure", rule |-> b]
      /\ s[4] = [op |-> "ensure", rule |-> c] /\ s[5] = [op |-> "ensure", rule |-> d]
      /\ s[6].op = "create" /\ s[7].op = "link" /\ s[8].op = "move" /\ s[9].op = "configure"
  BY <1>1, StepsInOrder
<1>3. r[1] = a /\ r[2] = b /\ r[3] = c /\ r[4] = d
  BY <1>1
<1>4. CASE k = 1
  <2>1. chain' = <<>>
    BY <1>2, <1>4 DEF EnsurePodMasq
  <2>2. QED BY <1>4, <2>1 DEF Progress
<1>5. CASE k = 2
  <2>1. chain = <<>> /\ EnsureRule(a)
    BY <1>2, <1>5 DEF EnsurePodMasq, Progress
  <2>2. chain' = <<a>>
    <3>1. a \notin ToSet(<<>>) /\ Append(<<>>, a) = <<a>>
      BY <1>1, Members, Appends, Zenon
    <3>2. QED BY <2>1, <3>1 DEF EnsureRule
  <2>3. QED BY <1>3, <1>5, <2>2 DEF Progress
<1>6. CASE k = 3
  <2>1. chain = <<a>> /\ EnsureRule(b)
    BY <1>2, <1>3, <1>6 DEF EnsurePodMasq, Progress
  <2>2. chain' = <<a, b>>
    <3>1. b \notin ToSet(<<a>>) /\ Append(<<a>>, b) = <<a, b>>
      BY <1>1, Members, Appends, Zenon
    <3>2. QED BY <2>1, <3>1 DEF EnsureRule
  <2>3. QED BY <1>3, <1>6, <2>2 DEF Progress
<1>7. CASE k = 4
  <2>1. chain = <<a, b>> /\ EnsureRule(c)
    BY <1>2, <1>3, <1>7 DEF EnsurePodMasq, Progress
  <2>2. chain' = <<a, b, c>>
    <3>1. c \notin ToSet(<<a, b>>) /\ Append(<<a, b>>, c) = <<a, b, c>>
      BY <1>1, Members, Appends, Zenon
    <3>2. QED BY <2>1, <3>1 DEF EnsureRule
  <2>3. QED BY <1>3, <1>7, <2>2 DEF Progress
<1>8. CASE k = 5
  <2>1. chain = <<a, b, c>> /\ EnsureRule(d)
    BY <1>2, <1>3, <1>8 DEF EnsurePodMasq, Progress
  <2>2. chain' = <<a, b, c, d>>
    <3>1. d \notin ToSet(<<a, b, c>>) /\ Append(<<a, b, c>>, d) = <<a, b, c, d>>
      BY <1>1, Members, Appends, Zenon
    <3>2. QED BY <2>1, <3>1 DEF EnsureRule
  <2>3. QED BY <1>1, <1>8, <2>2 DEF Progress
<1>9. CASE k \in 6 .. 9
  <2>1. s[k].op \notin {"flush", "ensure"} /\ chain = r
    BY <1>2, <1>9 DEF Progress
  <2>2. chain' = r
    BY <2>1 DEF EnsurePodMasq
  <2>3. k = 7 => veth' = "host"
    BY <1>2 DEF CreateVeth
  <2>4. k = 8 => veth' = "pod"
    BY <1>2 DEF CreateVeth
  <2>5. k = 9 => veth' = "pod" /\ routed'
    BY <1>2 DEF CreateVeth, Progress
  <2>6. QED BY <1>9, <2>2, <2>3, <2>4, <2>5 DEF Progress, SetUpFor
<1>10. QED BY <1>4, <1>5, <1>6, <1>7, <1>8, <1>9

LEMMA SetUpStep ==
    ASSUME NetTypes, NetInv, NEW h \in Handlers, SetUp(h)
    PROVE  NetTypes' /\ NetInv'
<1>0. PICK ip, k : ip = asked[h].ip /\ k = stepOf[h]
  OBVIOUS
<1> DEFINE steps == Steps(ip)
<1>1. k \in 1 .. 9 /\ hpc[h] = "setup" /\ Len(steps) \in {1, 9}
      /\ (ip # NoIP => Len(steps) = 9) /\ (ip = NoIP => Len(steps) = 1 /\ k = 1)
  <2>1. ASSUME ip # NoIP
        PROVE  Len(steps) = 9
    <3>1. PICK a, b, c, d : MasqRules(ip) = <<a, b, c, d>>
      BY RulesDiffer
    <3>2. QED BY <2>1, <3>1, NineSteps
  <2>2. ip = NoIP => Len(steps) = 1
    BY DEF Steps
  <2>3. QED BY <1>0, <2>1, <2>2 DEF NetTypes, SetUp
<1>2. /\ UNCHANGED <<primaryIP, secondaryIP, podIP, netNS, configured, raced>>
      /\ asked' \in [Handlers -> Parameters \cup {NoParameters}]
      /\ \A g \in Handlers \ {h} :
           hpc'[g] = hpc[g] /\ asked'[g] = asked[g] /\ stepOf'[g] = stepOf[g]
  BY DEF SetUp, NetTypes, Answers, Goes, fieldVars
<1>3. ~raced => /\ Untouched /\ Untouched'
                /\ \A g \in Handlers \ {h} : ~SettingUp(g)
                /\ \A g \in Handlers \ {h} : ~SettingUp(g)'
                /\ \A g \in Handlers : ~Past(g)
  BY <1>1, <1>2 DEF NetInv, Midway, SettingUp, Untouched, Past
<1>4. CASE /\ EnsurePodMasq(steps[k]) /\ CreateVeth(steps[k])
           /\ Goes(h, IF k = Len(steps) THEN "primary" ELSE "setup")
           /\ stepOf' = [stepOf EXCEPT ![h] = IF k = Len(steps) THEN 1 ELSE k + 1]
           /\ UNCHANGED asked
  <2>1. CASE k = Len(steps)
    <3>1. hpc' = [hpc EXCEPT ![h] = "primary"] /\ stepOf' = [stepOf EXCEPT ![h] = 1]
      BY <1>4, <2>1 DEF Goes
    <3>2. NetTypes'
      BY <1>2, <1>4, <3>1 DEF NetTypes, HandlerPCs
    <3>3. ~raced => SetUpFor(ip)'
      <4>1. CASE ip = NoIP
        BY <1>4, <4>1 DEF SetUpFor
      <4>2. CASE ip # NoIP
        BY <1>0, <1>1, <1>4, <2>1, <4>2, StepProgresses DEF NetInv, Midway, SetUpFor
      <4>3. QED BY <4>1, <4>2
    <3>4. ~raced => \A g \in Handlers : Midway(g)' /\ ~Past(g)'
      BY <1>0, <1>2, <1>3, <1>4, <3>1, <3>3 DEF NetTypes, Midway, SettingUp, Past, SetUpFor
    <3>5. NetInv'
      BY <1>2, <1>3, <3>1, <3>4 DEF NetTypes, NetInv, SettingUp
    <3>6. QED BY <3>2, <3>5
  <2>2. CASE k # Len(steps)
    <3>1. /\ hpc' = [hpc EXCEPT ![h] = "setup"] /\ stepOf' = [stepOf EXCEPT ![h] = k + 1]
          /\ ip # NoIP /\ k < 9
      <4>1. ip # NoIP /\ Len(steps) = 9
        BY <1>1, <2>2, Zenon
      <4>2. k < 9
        BY <1>1, <2>2, <4>1
      <4>3. QED BY <1>1, <1>4, <2>2, <4>1, <4>2 DEF Goes
    <3>2. NetTypes'
      BY <1>0, <1>1, <1>2, <1>4, <3>1 DEF NetTypes, HandlerPCs
    <3>3. ~raced => Progress(ip, k + 1)'
      BY <1>0, <1>1, <1>4, <3>1, StepProgresses DEF NetInv, Midway
    <3>4. ~raced => \A g \in Handlers : Midway(g)' /\ ~Past(g)'
      BY <1>0, <1>2, <1>3, <1>4, <3>1, <3>3 DEF NetTypes, Midway, SettingUp, Past, Progress
    <3>5. NetInv'
      BY <1>2, <1>3, <3>1, <3>4 DEF NetTypes, NetInv, SettingUp
    <3>6. QED BY <3>2, <3>5
  <2>3. QED BY <2>1, <2>2
<1>5. CASE Answers(h) /\ stepOf' = [stepOf EXCEPT ![h] = 1] /\ UNCHANGED networkVars
  <2>1. hpc' = [hpc EXCEPT ![h] = "idle"] /\ stepOf' = [stepOf EXCEPT ![h] = 1]
    BY <1>5 DEF Answers, Goes
  <2>2. NetTypes'
    BY <1>2, <2>1 DEF NetTypes, HandlerPCs
  <2>3. ~raced => \A g \in Handlers : Midway(g)' /\ ~Past(g)'
    BY <1>2, <1>3, <2>1 DEF NetTypes, Midway, SettingUp, Past
  <2>4. NetInv'
    BY <1>2, <1>3, <2>1, <2>3 DEF NetTypes, NetInv, SettingUp
  <2>5. QED BY <2>2, <2>4
<1>6. QED BY <1>0, <1>4, <1>5 DEF SetUp

LEMMA NetInvStep ==
    ASSUME NetTypes, NetInv, [Next]_vars
    PROVE  NetTypes' /\ NetInv'
<1>1. CASE UNCHANGED <<fieldVars, networkVars, hpc, stepOf, asked, configured, raced>>
  BY <1>1 DEF NetTypes, NetInv, Midway, Progress, SetUpFor, Untouched, Complete, Past,
              SettingUp, fieldVars, networkVars
<1>2. ASSUME NEW h \in Handlers, UpdateHandler(h)
      PROVE  NetTypes' /\ NetInv'
  <2> USE DEF NetTypes, HandlerPCs
  <2>1. CASE PostUpdate(h)
    <3>1. NetTypes'
      BY <2>1 DEF PostUpdate, Goes
    <3>2. NetInv'
      BY <2>1 DEF PostUpdate, Goes, NetInv, Midway, Progress, SetUpFor, Untouched, Complete,
                  Past, SettingUp, fieldVars, networkVars
    <3>3. QED BY <3>1, <3>2
  <2>2. CASE CheckAddresses(h)
    <3>1. NetTypes'
      BY <2>2 DEF CheckAddresses, Goes
    <3>2. /\ hpc[h] = "check" /\ stepOf[h] = 1
          /\ UNCHANGED <<fieldVars, networkVars, stepOf, asked, configured>>
      BY <2>2 DEF CheckAddresses
    <3>3. SUFFICES ASSUME ~raced'
                   PROVE  NetInv'
      BY <3>1 DEF NetInv
    <3>4. ~raced /\ \A g \in Handlers : ~SettingUp(g)
      BY <2>2, <3>3 DEF CheckAddresses, SettingUp
    <3>5. Untouched \/ Complete
      BY <3>4 DEF NetInv
    <3>6. CASE hpc' = [hpc EXCEPT ![h] = "setup"] /\ Untouched
      <4>1. \A g \in Handlers : ~Past(g)
        BY <3>4, <3>6 DEF NetInv, Untouched, Complete, MainIP, NoIP
      <4>2. Untouched' /\ \A ip : Progress(ip, 1)'
        BY <3>2, <3>6 DEF Untouched, Progress, fieldVars
      <4>3. QED
        BY <3>2, <3>4, <3>6, <4>1, <4>2 DEF NetInv, Midway, Past, SettingUp
    <3>7. CASE hpc' = [hpc EXCEPT ![h] = "agent"] /\ Complete
      <4>1. Complete'
        BY <3>2, <3>7 DEF Complete, SetUpFor, fieldVars, networkVars
      <4>2. \A g \in Handlers : ~SettingUp(g)'
        BY <3>4, <3>7 DEF SettingUp
      <4>3. QED BY <4>1, <4>2 DEF NetInv, Midway, SettingUp
    <3>8. QED
      BY <2>2, <3>5, <3>6, <3>7
         DEF CheckAddresses, Goes, Untouched, Complete, MainIP, NoIP
  <2>3. CASE SetUp(h)
    BY <2>3, SetUpStep
  <2>4. CASE SetPrimary(h)
    <3>1. NetTypes'
      BY <2>4 DEF SetPrimary, Goes
    <3>2. NetInv'
      BY <2>4 DEF SetPrimary, Goes, NetInv, Midway, SetUpFor, Untouched, Complete, Past,
                  SettingUp, networkVars
    <3>3. QED BY <3>1, <3>2
  <2>5. CASE SetSecondary(h)
    <3>1. NetTypes'
      BY <2>5 DEF SetSecondary, Goes
    <3>2. NetInv'
      BY <2>5 DEF SetSecondary, Goes, NetInv, Midway, SetUpFor, Untouched, Complete, Past,
                  SettingUp, networkVars
    <3>3. QED BY <3>1, <3>2
  <2>6. CASE SetPodNetwork(h)
    <3>1. NetTypes'
      BY <2>6 DEF SetPodNetwork, Goes
    <3>2. SUFFICES ASSUME ~raced
                   PROVE  Complete' /\ \A g \in Handlers : ~SettingUp(g)'
      BY <2>6, <3>1 DEF SetPodNetwork, NetInv, Midway, SettingUp
    <3>3. Complete'
      BY <2>6, <3>2 DEF SetPodNetwork, NetInv, Midway, Complete, SetUpFor, networkVars
    <3>4. \A g \in Handlers : ~SettingUp(g)'
      BY <2>6, <3>2 DEF SetPodNetwork, Goes, NetInv, SettingUp
    <3>5. QED BY <3>3, <3>4
  <2>7. CASE CheckAgent(h) \/ StartAgent(h) \/ RecordAgent(h) \/ UpdatePod(h)
    <3>1. /\ Past(h) /\ ~SettingUp(h)' /\ hpc'[h] # "setup"
          /\ \A g \in Handlers \ {h} : hpc'[g] = hpc[g] /\ asked'[g] = asked[g]
          /\ UNCHANGED <<fieldVars, networkVars, stepOf, configured, raced>>
          /\ NetTypes'
      BY <2>7 DEF CheckAgent, StartAgent, EnsureNetworkAgent, NoAgent, RecordAgent, UpdatePod,
                  Answers, Goes, Past, SettingUp
    <3>2. SUFFICES ASSUME ~raced
                   PROVE  Complete' /\ \A g \in Handlers : ~SettingUp(g)'
      BY <3>1 DEF NetInv, Midway, SettingUp
    <3>3. Complete /\ \A g \in Handlers : ~SettingUp(g)
      BY <3>1, <3>2 DEF NetInv
    <3>4. QED
      BY <3>1, <3>3 DEF Complete, SetUpFor, SettingUp, fieldVars, networkVars
  <2>8. QED
    BY <1>2, <2>1, <2>2, <2>3, <2>4, <2>5, <2>6, <2>7 DEF UpdateHandler
<1>3. ASSUME NEW a \in 1 .. MaxAgents, AgentExits(a) \/ AgentWaited(a)
      PROVE  NetTypes' /\ NetInv'
  BY <1>1, <1>3 DEF AgentExits, AgentWaited
<1>4. CASE UNCHANGED updateVars
  BY <1>1, <1>4 DEF updateVars
<1>5. QED
  BY <1>2, <1>3, <1>4 DEF Next, Serve, NetworkAgent, vars

LEMMA NetInitially == Init => NetTypes /\ NetInv
<1>1. SUFFICES ASSUME Init
               PROVE  NetTypes /\ NetInv
  OBVIOUS
<1>2. NetTypes
  BY <1>1 DEF Init, UpdateInit, NetTypes, HandlerPCs
<1>3. NetInv
  BY <1>1 DEF Init, UpdateInit, NetInv, Midway, Untouched, Past, SettingUp
<1>4. QED BY <1>2, <1>3

LEMMA NetAlways == Spec => [](NetTypes /\ NetInv)
<1>1. (NetTypes /\ NetInv) /\ [Next]_vars => (NetTypes /\ NetInv)'
  BY NetInvStep
<1>2. QED BY <1>1, NetInitially, PTL DEF Spec

\* For every number of handlers, posts and failures and all addresses: an update
\* only gets to the controller when the network is complete, unless handlers
\* overlapped (updateHandler, server.go:187-212).
THEOREM UpdatesFindTheNetwork == Spec => []NetworkIsReady
<1>1. NetTypes /\ NetInv => NetworkIsReady
  BY DEF NetInv, NetworkIsReady, Past, Complete, SetUpFor
<1>2. QED BY <1>1, NetAlways, PTL

\* And the masquerading chain holds the rules of masq.go:25-35 in order for the
\* address of that set-up, whatever failed before it.
THEOREM ChainIsDocumented == Spec => []MasqueradesPodOnly
<1>1. NetTypes /\ NetInv => MasqueradesPodOnly
  BY DEF NetTypes, HandlerPCs, NetInv, Midway, MasqueradesPodOnly, Untouched, Complete,
         SetUpFor, SettingUp
<1>2. QED BY <1>1, NetAlways, PTL

-------------------------------------------------------------------------------
(* The network agent.                                                      *)

AgentTypes ==
    /\ started \in Nat
    /\ agents \subseteq 1 .. started
    /\ waited \subseteq 1 .. started
    /\ networkAgentCmd \in 0 .. started
    /\ hpc \in [Handlers -> HandlerPCs]
    /\ cmd \in [Handlers -> 0 .. started]
    /\ \A h \in Handlers : hpc[h] = "record" => cmd[h] # 0

Starting(h) == hpc[h] \in {"start", "record"}

\* One handler at a time starts an agent, and only while none is known; the one
\* goroutine that waits does so for the agent that is known.
AgentInv ==
    ~agentRaced =>
        /\ \A g, h \in Handlers : Starting(g) /\ Starting(h) => g = h
        /\ \A h \in Handlers : Starting(h) => networkAgentCmd = 0
        /\ \A a \in agents :
             networkAgentCmd = a \/ \E h \in Handlers : hpc[h] = "record" /\ cmd[h] = a
        /\ waited \subseteq {networkAgentCmd}

LEMMA AgentTypesStep ==
    ASSUME AgentTypes, [Next]_vars
    PROVE  AgentTypes'
<1> USE DEF AgentTypes, HandlerPCs
<1>1. CASE UNCHANGED agentVars /\ UNCHANGED hpc
  BY <1>1 DEF agentVars
<1>2. ASSUME NEW h \in Handlers, UpdateHandler(h)
      PROVE  AgentTypes'
  <2>1. CASE PostUpdate(h)
    BY <2>1 DEF PostUpdate, Goes, agentVars
  <2>2. CASE CheckAddresses(h)
    BY <2>2 DEF CheckAddresses, Goes, agentVars
  <2>3. CASE SetUp(h)
    BY <2>3 DEF SetUp, Answers, Goes, agentVars
  <2>4. CASE SetPrimary(h)
    BY <2>4 DEF SetPrimary, Goes, agentVars
  <2>5. CASE SetSecondary(h)
    BY <2>5 DEF SetSecondary, Goes, agentVars
  <2>6. CASE SetPodNetwork(h)
    BY <2>6 DEF SetPodNetwork, Goes, agentVars
  <2>7. CASE CheckAgent(h)
    BY <2>7 DEF CheckAgent, Goes
  <2>8. CASE StartAgent(h)
    <3>1. CASE NoAgent(h)
      BY <2>8, <3>1 DEF StartAgent, NoAgent, Goes
    <3>2. CASE EnsureNetworkAgent(h)
      <4>1. started' = started + 1 /\ started' \in Nat /\ 1 .. started \subseteq 1 .. started'
            /\ 0 .. started \subseteq 0 .. started' /\ started' \in 1 .. started'
        BY <3>2 DEF EnsureNetworkAgent
      <4>2. cmd' = [cmd EXCEPT ![h] = started'] /\ hpc' = [hpc EXCEPT ![h] = "record"]
            /\ agents' = agents \cup {started'}
            /\ UNCHANGED <<networkAgentCmd, waited>>
        BY <2>8, <3>2 DEF StartAgent, EnsureNetworkAgent, Goes
      <4>3. cmd' \in [Handlers -> 0 .. started'] /\ hpc' \in [Handlers -> HandlerPCs]
        BY <4>1, <4>2
      <4>4. \A g \in Handlers : hpc'[g] = "record" => cmd'[g] # 0
        BY <4>1, <4>2
      <4>5. agents' \subseteq 1 .. started' /\ waited' \subseteq 1 .. started'
            /\ networkAgentCmd' \in 0 .. started'
        BY <4>1, <4>2
      <4>6. QED BY <4>1, <4>3, <4>4, <4>5
    <3>3. QED BY <2>8, <3>1, <3>2 DEF StartAgent
  <2>9. CASE RecordAgent(h)
    <3>1. cmd[h] \in 1 .. started
      BY <2>9 DEF RecordAgent
    <3>2. /\ networkAgentCmd' = cmd[h] /\ waited' = waited \cup {cmd[h]}
          /\ hpc' = [hpc EXCEPT ![h] = "update"]
          /\ UNCHANGED <<cmd, agents, started>>
      BY <2>9 DEF RecordAgent, Goes
    <3>3. QED BY <3>1, <3>2
  <2>10. CASE UpdatePod(h)
    BY <2>10 DEF UpdatePod, Answers, Goes
  <2>11. QED
    BY <1>2, <2>1, <2>2, <2>3, <2>4, <2>5, <2>6, <2>7, <2>8, <2>9, <2>10 DEF UpdateHandler
<1>3. ASSUME NEW a \in 1 .. MaxAgents, AgentExits(a) \/ AgentWaited(a)
      PROVE  AgentTypes'
  <2>1. CASE AgentExits(a)
    BY <2>1 DEF AgentExits
  <2>2. CASE AgentWaited(a)
    BY <2>2 DEF AgentWaited
  <2>3. QED BY <1>3, <2>1, <2>2
<1>4. QED
  BY <1>1, <1>2, <1>3 DEF Next, Serve, NetworkAgent, vars, updateVars, agentVars

LEMMA AgentInvStep ==
    ASSUME AgentTypes, AgentInv, [Next]_vars
    PROVE  AgentInv'
<1> USE DEF AgentTypes, HandlerPCs, AgentInv, Starting
<1>1. CASE UNCHANGED agentVars /\ UNCHANGED hpc
  BY <1>1 DEF agentVars
<1>2. ASSUME NEW h \in Handlers, UpdateHandler(h)
      PROVE  AgentInv'
  <2>1. CASE PostUpdate(h)
    BY <2>1 DEF PostUpdate, Goes, agentVars
  <2>2. CASE CheckAddresses(h)
    BY <2>2 DEF CheckAddresses, Goes, agentVars
  <2>3. CASE SetUp(h)
    BY <2>3 DEF SetUp, Answers, Goes, agentVars
  <2>4. CASE SetPrimary(h)
    BY <2>4 DEF SetPrimary, Goes, agentVars
  <2>5. CASE SetSecondary(h)
    BY <2>5 DEF SetSecondary, Goes, agentVars
  <2>6. CASE SetPodNetwork(h)
    BY <2>6 DEF SetPodNetwork, Goes, agentVars
  <2>7. CASE CheckAgent(h)
    BY <2>7 DEF CheckAgent, Goes
  <2>8. CASE StartAgent(h)
    <3>1. CASE NoAgent(h)
      BY <2>8, <3>1 DEF StartAgent, NoAgent, Goes
    <3>2. CASE EnsureNetworkAgent(h)
      <4>1. cmd' = [cmd EXCEPT ![h] = started'] /\ hpc' = [hpc EXCEPT ![h] = "record"]
            /\ agents' = agents \cup {started'}
            /\ UNCHANGED <<networkAgentCmd, waited, agentRaced>>
        BY <2>8, <3>2 DEF StartAgent, EnsureNetworkAgent, Goes
      <4>2. \A g \in Handlers : Starting(g)' <=> Starting(g)
        BY <2>8, <4>1 DEF StartAgent
      <4>3. SUFFICES ASSUME ~agentRaced
                     PROVE  \A a \in agents' : networkAgentCmd' = a
                              \/ \E g \in Handlers : hpc'[g] = "record" /\ cmd'[g] = a
        BY <4>1, <4>2
      <4>4. agents = {}
        BY <2>8, <4>3 DEF StartAgent
      <4>5. hpc'[h] = "record" /\ cmd'[h] = started'
        BY <4>1
      <4>6. QED BY <4>1, <4>4, <4>5
    <3>3. QED BY <2>8, <3>1, <3>2 DEF StartAgent
  <2>9. CASE RecordAgent(h)
    <3>1. /\ hpc[h] = "record"
          /\ networkAgentCmd' = cmd[h] /\ waited' = waited \cup {cmd[h]}
          /\ hpc' = [hpc EXCEPT ![h] = "update"]
          /\ UNCHANGED <<cmd, agents, started, agentRaced>>
      BY <2>9 DEF RecordAgent, Goes
    <3>2. SUFFICES ASSUME ~agentRaced
                   PROVE  /\ \A g \in Handlers : ~Starting(g)'
                          /\ \A a \in agents : cmd[h] = a
                          /\ waited' \subseteq {cmd[h]}
      BY <3>1
    <3>3. networkAgentCmd = 0 /\ waited = {}
      BY <3>1, <3>2
    <3>4. \A g \in Handlers : ~Starting(g)'
      BY <3>1, <3>2
    <3>5. \A a \in agents : cmd[h] = a
      BY <3>1, <3>2, <3>3
    <3>6. QED BY <3>1, <3>3, <3>4, <3>5
  <2>10. CASE UpdatePod(h)
    BY <2>10 DEF UpdatePod, Answers, Goes
  <2>11. QED
    BY <1>2, <2>1, <2>2, <2>3, <2>4, <2>5, <2>6, <2>7, <2>8, <2>9, <2>10 DEF UpdateHandler
<1>3. ASSUME NEW a \in 1 .. MaxAgents, AgentExits(a)
      PROVE  AgentInv'
  BY <1>3 DEF AgentExits
<1>4. ASSUME NEW a \in 1 .. MaxAgents, AgentWaited(a)
      PROVE  AgentInv'
  BY <1>4 DEF AgentWaited, Exited
<1>5. QED
  BY <1>1, <1>2, <1>3, <1>4 DEF Next, Serve, NetworkAgent, vars, updateVars, agentVars

LEMMA AgentInvInit == Init => AgentTypes /\ AgentInv
<1>1. SUFFICES ASSUME Init
               PROVE  AgentTypes /\ AgentInv
  OBVIOUS
<1>2. /\ started = 0 /\ agents = {} /\ waited = {} /\ networkAgentCmd = 0
      /\ hpc = [h \in Handlers |-> "idle"] /\ cmd = [h \in Handlers |-> 0]
  BY <1>1 DEF Init, UpdateInit
<1>3. AgentTypes
  BY <1>2 DEF AgentTypes, HandlerPCs
<1>4. AgentInv
  BY <1>2 DEF AgentInv, Starting
<1>5. QED BY <1>3, <1>4

LEMMA AgentInvImplies ==
    ASSUME AgentTypes, AgentInv
    PROVE  OneNetworkAgent
<1> USE DEF AgentTypes, AgentInv, Starting
<1>1. SUFFICES ASSUME ~agentRaced
               PROVE  /\ Cardinality(agents) <= 1
                      /\ \A a \in agents :
                           networkAgentCmd = a
                             \/ \E h \in Handlers : hpc[h] = "record" /\ cmd[h] = a
  BY DEF OneNetworkAgent
<1>2. \A a, b \in agents : a = b
  BY <1>1
<1>3. Cardinality(agents) <= 1
  <2>1. CASE agents = {}
    BY <2>1, FS_EmptySet
  <2>2. ASSUME NEW a \in agents
        PROVE  Cardinality(agents) <= 1
    <3>1. agents = {a}
      BY <1>2, <2>2
    <3>2. Cardinality({a}) = 1
      BY FS_Singleton, Zenon
    <3>3. QED BY <3>1, <3>2
  <2>3. QED BY <2>1, <2>2
<1>4. QED BY <1>1, <1>3

\* For every number of handlers, updates and agents: an agent that runs is the
\* one the server knows or is about to record, as long as no two handlers start
\* one at the same time (startNetworkAgent, server.go:159-173).
THEOREM RunningAgentIsKnown == Spec => []OneNetworkAgent
<1>1. Init => AgentTypes /\ AgentInv
  BY AgentInvInit
<1>2. (AgentTypes /\ AgentInv) /\ [Next]_vars => (AgentTypes /\ AgentInv)'
  BY AgentTypesStep, AgentInvStep
<1>3. AgentTypes /\ AgentInv => OneNetworkAgent
  BY AgentInvImplies
<1>4. QED BY <1>1, <1>2, <1>3, PTL DEF Spec

-------------------------------------------------------------------------------
(* Sessions.                                                               *)

Channels == {"out", "err", "code"}

SessionTypes ==
    /\ kind \in SessionKinds \cup {"none"}
    /\ spc \in {"params", "open", "stdin", "wait", "returned"}
    /\ ws \in {"open", "closed"}
    /\ sent \in Seq(Channels)
    /\ proc \in {"none", "running", "ended"}
    /\ child \in BOOLEAN
    /\ piped \in [Streams -> Nat]
    /\ lines \in Nat
    /\ copier \in [Streams -> {"none", "copying", "blocked", "done"}]
    /\ joiner \in {"none", "copiers", "process", "done"}
    /\ spc = "returned" => ws = "closed"

CodeSent == \E i \in DOMAIN sent : sent[i] = "code"

\* Nothing has happened before the handler starts the command.
Fresh ==
    /\ sent = <<>> /\ lines = 0 /\ proc = "none" /\ ~child /\ joiner = "none"
    /\ \A s \in Streams : piped[s] = 0 /\ copier[s] = "none"

\* While the client is there every line was sent or is on its way, a copier that
\* is done has seen the end of the output, and the exit code waits for them all.
OutputInv ==
    /\ spc \in {"params", "open"} => Fresh
    /\ joiner # "none" =>
        /\ kind \in Execs
        /\ kind = "tty" => piped["err"] = 0 /\ copier["err"] = "none"
        /\ \A s \in Outputs : copier[s] # "none"
    /\ joiner \in {"copiers", "process"} => ~CodeSent
    /\ joiner \in {"copiers", "process"} /\ ws = "open" =>
        /\ Len(sent) + piped["out"] + piped["err"] = lines
        /\ \A s \in Outputs : copier[s] = "done" => piped[s] = 0 /\ ~Holds
    /\ joiner \in {"process", "done"} => \A s \in Outputs : copier[s] = "done"
    /\ joiner = "done" /\ CodeSent =>
        Len(sent) = lines + 1 /\ sent[Len(sent)] = "code" /\ ~Holds

\* Messages, and what one more does to the messages sent.
LEMMA Messages ==
    ASSUME NEW S, NEW c \in S, NEW d \in S, NEW n \in Nat
    PROVE  /\ <<c>> \in Seq(S)
           /\ <<c, d>> \in Seq(S)
           /\ [i \in 1 .. n |-> c] \in Seq(S)
  OBVIOUS

LEMMA Appended ==
    ASSUME NEW S, NEW s \in Seq(S), NEW c \in S, NEW t, t = s \o <<c>>
    PROVE  /\ t \in Seq(S)
           /\ Len(t) = Len(s) + 1
           /\ t[Len(t)] = c
           /\ \A i \in DOMAIN t : t[i] = c \/ (i \in DOMAIN s /\ t[i] = s[i])
<1>1. t = Append(s, c)
  BY AppendIsConcat, Zenon
<1>2. QED BY <1>1

LEMMA Written ==
    ASSUME SessionTypes, NEW m \in Seq(Channels), Write(m)
    PROVE  sent' \in Seq(Channels)
  BY ConcatProperties DEF SessionTypes, Write

LEMMA SessionTypesStep ==
    ASSUME SessionTypes, [Next]_vars
    PROVE  SessionTypes'
<1> USE DEF SessionTypes, Streams, Return
<1>1. CASE UNCHANGED sessionVars
  BY <1>1 DEF sessionVars
<1>2. /\ <<"err">> \in Seq(Channels) /\ <<"out">> \in Seq(Channels)
      /\ <<"code">> \in Seq(Channels) /\ ErrorExitcode \in Seq(Channels)
  <2>1. "out" \in Channels /\ "err" \in Channels /\ "code" \in Channels
    BY DEF Channels
  <2>2. QED BY <2>1, Messages DEF ErrorExitcode
<1>3. CASE Session
  <2>1. CASE GetInitialParams
    BY <1>2, <2>1, Written DEF GetInitialParams
  <2>2. CASE ExecFails
    BY <1>2, <2>2, Written DEF ExecFails
  <2>3. CASE StartExec
    BY <2>3 DEF StartExec
  <2>4. CASE AttachFails
    BY <1>2, <2>4, Written DEF AttachFails
  <2>5. CASE StartAttach \/ OpenStdinWriter
    BY <2>5 DEF StartAttach, OpenStdinWriter
  <2>6. CASE DialFails
    BY <1>2, <2>6, Written DEF DialFails
  <2>7. CASE StartForward
    BY <1>2, <2>7, Written DEF StartForward
  <2>8. ASSUME NEW s \in Streams \ {"in"}, CopyLine(s)
        PROVE  SessionTypes'
    <3>1. s \in Channels /\ <<s>> \in Seq(Channels)
      BY Messages DEF Channels
    <3>2. sent' \in Seq(Channels)
      BY <2>8, <3>1, Written DEF CopyLine
    <3>3. piped' \in [Streams -> Nat]
      BY <2>8 DEF CopyLine
    <3>4. copier' \in [Streams -> {"none", "copying", "blocked", "done"}]
      BY <2>8 DEF CopyLine
    <3>5. QED BY <2>8, <3>2, <3>3, <3>4 DEF CopyLine
  <2>9. ASSUME NEW s \in Streams, CopierEnds(s)
        PROVE  SessionTypes'
    BY <2>9 DEF CopierEnds
  <2>10. CASE AttachTick
    <3>1. CASE proc = "ended" /\ Write(<<"err">>) /\ Return /\ UNCHANGED piped
      BY <1>2, <2>10, <3>1, Written DEF AttachTick
    <3>2. CASE /\ piped' = [piped EXCEPT !["out"] = 0]
               /\ Write([i \in 1 .. piped["out"] |-> "out"])
               /\ IF ws = "open" THEN UNCHANGED <<spc, ws>> ELSE Return
      <4>1. [i \in 1 .. piped["out"] |-> "out"] \in Seq(Channels)
        BY Messages DEF Channels
      <4>2. sent' \in Seq(Channels)
        BY <3>2, <4>1, Written
      <4>3. QED BY <2>10, <3>2, <4>2 DEF AttachTick
    <3>3. QED BY <2>10, <3>1, <3>2 DEF AttachTick
  <2>11. CASE CopiersJoined
    BY <2>11 DEF CopiersJoined
  <2>12. CASE ProcessWaited
    BY <1>2, <2>12, Written DEF ProcessWaited
  <2>13. CASE HandlerJoins
    BY <2>13 DEF HandlerJoins
  <2>14. CASE HandlerSeesClose
    BY <2>14 DEF HandlerSeesClose, KillProcess
  <2>15. QED
    BY <1>3, <2>1, <2>2, <2>3, <2>4, <2>5, <2>6, <2>7, <2>8, <2>9, <2>10, <2>11, <2>12,
       <2>13, <2>14 DEF Session
<1>4. CASE Surroundings
  <2>1. CASE WriteLine
    BY <2>1 DEF WriteLine, Outputs
  <2>2. CASE \/ Fork \/ ProcessEnds \/ ChildEnds \/ ClientLeaves
             \/ InputFillsUp \/ InputIsRead \/ InputFails
    BY <2>2 DEF Fork, ProcessEnds, ChildEnds, ClientLeaves, InputFillsUp, InputIsRead, InputFails
  <2>3. QED BY <1>4, <2>1, <2>2 DEF Surroundings
<1>5. QED BY <1>1, <1>3, <1>4 DEF Next, Serve, vars

\* One message on a channel c reaches an open socket.
LEMMA OneWritten ==
    ASSUME SessionTypes, NEW c \in Channels, Write(<<c>>)
    PROVE  /\ ws = "open" => Len(sent') = Len(sent) + 1 /\ sent'[Len(sent')] = c
           /\ ws # "open" => sent' = sent
           /\ CodeSent' => CodeSent \/ (c = "code" /\ ws = "open")
<1> USE DEF SessionTypes
<1>1. CASE ws = "open"
  <2>1. sent' = sent \o <<c>>
    BY <1>1 DEF Write
  <2>2. /\ Len(sent') = Len(sent) + 1 /\ sent'[Len(sent')] = c
        /\ \A i \in DOMAIN sent' : sent'[i] = c \/ (i \in DOMAIN sent /\ sent'[i] = sent[i])
    BY <2>1, Appended
  <2>3. QED BY <1>1, <2>2 DEF CodeSent
<1>2. CASE ws # "open"
  BY <1>2 DEF Write, CodeSent
<1>3. QED BY <1>1, <1>2

LEMMA OutputInvStep ==
    ASSUME SessionTypes, OutputInv, [Next]_vars
    PROVE  OutputInv'
<1> USE DEF SessionTypes, OutputInv, Streams, Outputs, Execs, Holds, Fresh, Return
<1>1. CASE UNCHANGED sessionVars
  BY <1>1 DEF sessionVars, CodeSent
<1>2. CASE Session
  <2>1. CASE GetInitialParams
    BY <2>1 DEF GetInitialParams
  <2>2. CASE ExecFails \/ AttachFails \/ DialFails
    BY <2>2 DEF ExecFails, AttachFails, DialFails
  <2>3. CASE StartExec
    <3>1. sent' = <<>> /\ ~CodeSent'
      BY <2>3 DEF StartExec, CodeSent
    <3>2. QED BY <2>3, <3>1 DEF StartExec
  <2>4. CASE StartAttach \/ OpenStdinWriter \/ StartForward
    <3>1. CASE StartAttach
      BY <3>1 DEF StartAttach
    <3>2. CASE OpenStdinWriter
      <4>1. /\ UNCHANGED <<kind, ws, sent, proc, child, piped, lines, joiner>>
            /\ spc' = "wait"
            /\ copier'["out"] = copier["out"] /\ copier'["err"] = copier["err"]
        BY <3>2 DEF OpenStdinWriter
      <4>2. QED BY <4>1 DEF CodeSent
    <3>3. CASE StartForward
      BY <3>3 DEF StartForward
    <3>4. QED BY <2>4, <3>1, <3>2, <3>3
  <2>5. ASSUME NEW s \in Streams \ {"in"}, CopyLine(s)
        PROVE  OutputInv'
    <3>1. s \in Channels /\ s # "code"
      BY DEF Channels
    <3>2. /\ ws = "open" => Len(sent') = Len(sent) + 1
          /\ CodeSent' => CodeSent
      BY <2>5, <3>1, OneWritten DEF CopyLine
    <3>3. joiner # "none" => s \in Outputs
      BY <2>5 DEF CopyLine
    <3>4. joiner \notin {"process", "done"}
      BY <2>5, <3>3 DEF CopyLine
    <3>5. /\ piped' = [piped EXCEPT ![s] = piped[s] - 1] /\ piped[s] > 0
          /\ copier[s] = "copying"
          /\ ws = "open" => copier' = copier
          /\ \A r \in Streams : r # s => copier'[r] = copier[r]
          /\ copier'[s] # "none"
          /\ UNCHANGED <<kind, spc, ws, proc, child, lines, joiner>>
      BY <2>5 DEF CopyLine
    <3>6. CASE joiner = "none"
      BY <3>5, <3>6
    <3>7. CASE joiner = "copiers"
      <4>1. /\ piped'["out"] = (IF s = "out" THEN piped["out"] - 1 ELSE piped["out"])
            /\ piped'["err"] = (IF s = "err" THEN piped["err"] - 1 ELSE piped["err"])
            /\ s \in {"out", "err"}
        BY <3>5
      <4>2. ws = "open" =>
              /\ Len(sent') + piped'["out"] + piped'["err"] = lines
              /\ \A r \in Outputs : copier[r] = "done" => piped'[r] = 0 /\ ~Holds
        BY <3>2, <3>5, <3>7, <4>1, SMTT(30)
      <4>3. kind = "tty" => s # "err"
        BY <3>3, <3>7
      <4>4. QED BY <3>2, <3>3, <3>5, <3>7, <4>1, <4>2, <4>3
    <3>8. QED BY <3>4, <3>6, <3>7
  <2>6. ASSUME NEW s \in Streams, CopierEnds(s)
        PROVE  OutputInv'
    <3>1. /\ UNCHANGED <<kind, spc, sent, proc, child, piped, lines, joiner>>
          /\ ws' = ws \/ ws' = "closed"
          /\ copier' = [copier EXCEPT ![s] = "done"] /\ copier[s] # "none"
      BY <2>6 DEF CopierEnds
    <3>2. kind \in Execs /\ s # "in" /\ ws' = "open" =>
             (piped[s] = 0 /\ ~Holds) \/ (kind = "tty" /\ spc = "returned")
      BY <2>6 DEF CopierEnds, Severed
    <3>3. spc = "returned" => ws = "closed"
      OBVIOUS
    <3>4. CASE s = "in"
      <4>1. copier'["out"] = copier["out"] /\ copier'["err"] = copier["err"]
        BY <3>1, <3>4
      <4>2. QED BY <2>6, <3>1, <4>1 DEF CodeSent
    <3>5. CASE s # "in"
      BY <3>1, <3>2, <3>3, <3>5 DEF CodeSent
    <3>6. QED BY <3>4, <3>5
  <2>7. CASE AttachTick
    BY <2>7 DEF AttachTick
  <2>8. CASE CopiersJoined
    BY <2>8 DEF CopiersJoined, WaitGroup, CodeSent
  <2>9. CASE ProcessWaited
    <3>1. "code" \in Channels
      BY DEF Channels
    <3>2. /\ ws = "open" => Len(sent') = Len(sent) + 1 /\ sent'[Len(sent')] = "code"
          /\ CodeSent' => CodeSent \/ ws = "open"
      BY <2>9, <3>1, OneWritten DEF ProcessWaited
    <3>3. ws = "open" => Len(sent) = lines /\ ~Holds
      BY <2>9 DEF ProcessWaited, SessionsAssumption
    <3>4. QED BY <2>9, <3>2, <3>3 DEF ProcessWaited
  <2>10. CASE HandlerJoins
    BY <2>10 DEF HandlerJoins, CodeSent
  <2>11. CASE HandlerSeesClose
    BY <2>11 DEF HandlerSeesClose, KillProcess, CodeSent
  <2>12. QED
    BY <1>2, <2>1, <2>2, <2>3, <2>4, <2>5, <2>6, <2>7, <2>8, <2>9, <2>10, <2>11 DEF Session
<1>3. CASE Surroundings
  <2>1. CASE WriteLine
    BY <2>1 DEF WriteLine, CodeSent
  <2>2. CASE Fork \/ ProcessEnds \/ ChildEnds \/ ClientLeaves
    BY <2>2 DEF Fork, ProcessEnds, ChildEnds, ClientLeaves, CodeSent
  <2>3. CASE InputFillsUp \/ InputIsRead \/ InputFails
    BY <2>3 DEF InputFillsUp, InputIsRead, InputFails, CodeSent
  <2>4. QED BY <1>3, <2>1, <2>2, <2>3 DEF Surroundings
<1>4. QED BY <1>1, <1>2, <1>3 DEF Next, Serve, vars

LEMMA SessionInitially == Init => SessionTypes /\ OutputInv
<1>1. SUFFICES ASSUME NEW k \in SessionKinds \cup {"none"}, SessionInit(k)
               PROVE  SessionTypes /\ OutputInv
  BY DEF Init
<1>2. sent = <<>> /\ sent \in Seq(Channels) /\ joiner = "none"
  BY <1>1 DEF SessionInit
<1>3. SessionTypes
  BY <1>1, <1>2 DEF SessionInit, SessionTypes, Streams
<1>4. OutputInv
  BY <1>1, <1>2 DEF SessionInit, OutputInv, Fresh, Streams
<1>5. QED BY <1>3, <1>4

\* For every kind of session and any amount of output: the exit code that a
\* client gets comes after every line the command wrote (waitForFinished,
\* exec.go:252-262).
THEOREM ExitCodeComesLast == Spec => []ExitCodeIsLast
<1>1. Init => SessionTypes /\ OutputInv
  BY SessionInitially
<1>2. (SessionTypes /\ OutputInv) /\ [Next]_vars => (SessionTypes /\ OutputInv)'
  BY SessionTypesStep, OutputInvStep
<1>3. SessionTypes /\ OutputInv => ExitCodeIsLast
  BY DEF OutputInv, ExitCodeIsLast, CodeSent
<1>4. QED BY <1>1, <1>2, <1>3, PTL DEF Spec

-------------------------------------------------------------------------------
(* The types of the rest.                                                  *)

\* What a pipe holds was written and not yet copied.
PipeInv ==
    /\ piped["in"] = 0
    /\ piped["out"] + piped["err"] <= lines
    /\ lines <= MaxLines

LEMMA PipeInvStep ==
    ASSUME SessionTypes, PipeInv, [Next]_vars
    PROVE  PipeInv'
<1> USE DEF SessionTypes, PipeInv, Streams
<1>1. CASE UNCHANGED <<piped, lines>>
  BY <1>1
<1>2. ASSUME NEW s \in Streams \ {"in"}, CopyLine(s)
      PROVE  PipeInv'
  <2>1. /\ piped' = [piped EXCEPT ![s] = piped[s] - 1] /\ piped[s] > 0
        /\ s \in {"out", "err"} /\ UNCHANGED lines
    BY <1>2 DEF CopyLine
  <2>2. /\ piped'["in"] = piped["in"]
        /\ piped'["out"] <= piped["out"] /\ piped'["out"] \in Nat
        /\ piped'["err"] <= piped["err"] /\ piped'["err"] \in Nat
    BY <2>1
  <2>3. QED BY <2>1, <2>2
<1>3. CASE AttachTick
  <2>1. /\ piped' = piped \/ piped' = [piped EXCEPT !["out"] = 0]
        /\ UNCHANGED lines
    BY <1>3 DEF AttachTick
  <2>2. QED BY <2>1
<1>4. CASE WriteLine
  <2>1. PICK s \in {"out", "err"} : piped' = [piped EXCEPT ![s] = piped[s] + 1]
    BY <1>4 DEF WriteLine, Outputs
  <2>2. lines' = lines + 1 /\ lines < MaxLines
    BY <1>4 DEF WriteLine
  <2>3. piped'["in"] = 0 /\ piped'["out"] + piped'["err"] = piped["out"] + piped["err"] + 1
    BY <2>1
  <2>4. lines + 1 <= MaxLines
    BY <2>2, SessionsAssumption
  <2>5. piped["out"] \in Nat /\ piped["err"] \in Nat
    OBVIOUS
  <2>6. QED BY <2>2, <2>3, <2>4, <2>5
<1>5. QED
  BY <1>1, <1>2, <1>3, <1>4
     DEF Next, Serve, Session, Surroundings, vars, sessionVars, GetInitialParams, ExecFails,
         StartExec, AttachFails, StartAttach, OpenStdinWriter, DialFails, StartForward,
         CopierEnds, CopiersJoined, ProcessWaited, HandlerJoins, HandlerSeesClose, Fork,
         ProcessEnds, ChildEnds, ClientLeaves, InputFillsUp, InputIsRead, InputFails

FieldTypes ==
    /\ primaryIP \in {NoIP, MainIP}
    /\ veth \in {"none", "host", "pod"}
    /\ spaces \in Nat
    /\ chain \in Seq(AllRules)

\* A rule that a step appends is one of the update's.
LEMMA RuleTypes ==
    ASSUME NEW p \in Parameters, p.ip # NoIP, NEW k \in 1 .. 9,
           Steps(p.ip)[k].op = "ensure"
    PROVE  Steps(p.ip)[k].rule \in AllRules
<1>1. PICK a, b, c, d : MasqRules(p.ip) = <<a, b, c, d>>
  BY RulesDiffer
<1>2. a \in AllRules /\ b \in AllRules /\ c \in AllRules /\ d \in AllRules
  <2>1. {a, b, c, d} \subseteq ToSet(MasqRules(p.ip))
    BY <1>1 DEF ToSet
  <2>2. ToSet(MasqRules(p.ip)) \subseteq AllRules
    BY DEF AllRules
  <2>3. QED BY <2>1, <2>2
<1>3. LET s == Steps(p.ip)
      IN  /\ s[1].op = "flush"
          /\ s[2] = [op |-> "ensure", rule |-> a]
          /\ s[3] = [op |-> "ensure", rule |-> b]
          /\ s[4] = [op |-> "ensure", rule |-> c]
          /\ s[5] = [op |-> "ensure", rule |-> d]
          /\ s[6].op = "create" /\ s[7].op = "link"
          /\ s[8].op = "move" /\ s[9].op = "configure"
  BY <1>1, StepsInOrder
<1>4. k \in {2, 3, 4, 5}
  BY <1>3
<1>5. QED BY <1>2, <1>3, <1>4

LEMMA ChainTypes ==
    ASSUME NEW S, NEW s \in Seq(S), NEW r \in S
    PROVE  Append(s, r) \in Seq(S) /\ <<>> \in Seq(S)
  BY AppendProperties, EmptySeq

LEMMA FieldTypesStep ==
    ASSUME NetTypes, FieldTypes, [Next]_vars
    PROVE  FieldTypes'
<1> USE DEF FieldTypes
<1>1. CASE UNCHANGED <<primaryIP, veth, spaces, chain>>
  BY <1>1
<1>2. ASSUME NEW h \in Handlers, SetUp(h)
      PROVE  FieldTypes'
  <2>1. PICK ip, k : ip = asked[h].ip /\ k = stepOf[h]
    OBVIOUS
  <2>2. k \in 1 .. 9 /\ (ip = NoIP => k = 1)
    BY <2>1 DEF NetTypes
  <2>3. ASSUME Steps(ip)[k].op = "ensure"
        PROVE  Steps(ip)[k].rule \in AllRules
    <3>1. ip # NoIP
      <4>1. ASSUME ip = NoIP
            PROVE  FALSE
        <5>1. Steps(ip)[1].op = "metadata"
          BY <4>1 DEF Steps, Step
        <5>2. QED BY <2>2, <2>3, <4>1, <5>1
      <4>2. QED BY <4>1
    <3>2. asked[h] \in Parameters
      BY <2>1, <3>1 DEF NetTypes, NoParameters
    <3>3. QED BY <2>1, <2>2, <2>3, <3>1, <3>2, RuleTypes
  <2>4. CASE /\ EnsurePodMasq(Steps(ip)[k])
             /\ CreateNamespace(Steps(ip)[k])
             /\ CreateVeth(Steps(ip)[k])
             /\ UNCHANGED primaryIP
    <3>1. chain' \in Seq(AllRules)
      <4>1. CASE Steps(ip)[k].op = "ensure"
        <5>1. Steps(ip)[k].rule \in AllRules
          BY <2>3, <4>1
        <5>2. chain' = chain \/ chain' = Append(chain, Steps(ip)[k].rule)
          BY <2>4, <4>1 DEF EnsurePodMasq, EnsureRule
        <5>3. QED BY <5>1, <5>2, ChainTypes
      <4>2. CASE Steps(ip)[k].op # "ensure"
        <5>1. chain' = chain \/ chain' = <<>>
          BY <2>4, <4>2 DEF EnsurePodMasq
        <5>2. QED BY <5>1, EmptySeq
      <4>3. QED BY <4>1, <4>2
    <3>2. spaces' \in Nat /\ veth' \in {"none", "host", "pod"}
      BY <2>4 DEF CreateNamespace, CreateVeth
    <3>3. QED BY <2>4, <3>1, <3>2
  <2>5. CASE UNCHANGED networkVars /\ UNCHANGED fieldVars
    BY <2>5 DEF networkVars, fieldVars
  <2>6. QED BY <1>2, <2>1, <2>4, <2>5 DEF SetUp, fieldVars
<1>3. ASSUME NEW h \in Handlers, SetPrimary(h)
      PROVE  FieldTypes'
  BY <1>3 DEF SetPrimary, networkVars
<1>4. QED
  BY <1>1, <1>2, <1>3
     DEF Next, Serve, NetworkAgent, UpdateHandler, vars, updateVars, fieldVars, networkVars,
         PostUpdate, CheckAddresses, SetSecondary, SetPodNetwork, CheckAgent, StartAgent,
         RecordAgent, UpdatePod, AgentExits, AgentWaited

\* For every number of handlers, posts, failures and lines: every variable stays
\* within its type. The chain only ever holds rules, no pipe holds more than was
\* written, the agents are those that were started, and a handler that returned
\* has closed its socket (server.go:159-212, exec.go:173-262).
THEOREM ServerTypeCorrect == Spec => []TypeOK
<1> DEFINE Inv == /\ AgentTypes /\ NetTypes /\ NetInv
                  /\ SessionTypes /\ PipeInv /\ FieldTypes
<1>1. Init => Inv
  <2>1. ASSUME Init PROVE FieldTypes
    <3>1. chain = <<>> /\ <<>> \in Seq(AllRules)
      BY <2>1, EmptySeq DEF Init, UpdateInit
    <3>2. QED BY <2>1, <3>1 DEF Init, UpdateInit, FieldTypes
  <2>2. ASSUME Init PROVE PipeInv
    BY <2>2, SessionsAssumption DEF Init, SessionInit, PipeInv, Streams
  <2>3. QED BY <2>1, <2>2, AgentInvInit, NetInitially, SessionInitially
<1>2. Inv /\ [Next]_vars => Inv'
  BY AgentTypesStep, NetInvStep, SessionTypesStep, PipeInvStep, FieldTypesStep
<1>3. Inv => TypeOK
  <2>1. SUFFICES ASSUME Inv PROVE TypeOK
    OBVIOUS
  <2>2. \A r \in Streams : piped[r] \in 0 .. MaxLines
    <3>1. /\ piped["in"] = 0 /\ piped["out"] \in Nat /\ piped["err"] \in Nat
          /\ piped["out"] + piped["err"] <= lines /\ lines \in Nat
          /\ lines <= MaxLines /\ MaxLines \in Nat
      BY <2>1, SessionsAssumption DEF PipeInv, SessionTypes, Streams
    <3>2. /\ piped["in"] \in 0 .. MaxLines /\ piped["out"] \in 0 .. MaxLines
          /\ piped["err"] \in 0 .. MaxLines
      BY <3>1
    <3>3. QED BY <3>2 DEF Streams
  <2>3. QED
    BY <2>1, <2>2
       DEF TypeOK, AgentTypes, NetTypes, HandlerPCs, FieldTypes, SessionTypes
<1>4. QED BY <1>1, <1>2, <1>3, PTL DEF Spec

===============================================================================
